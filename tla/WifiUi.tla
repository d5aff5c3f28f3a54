------------------------------- MODULE WifiUi -------------------------------
(***************************************************************************)
(* The Wi-Fi status label of the demo (main/wifi_ui.c): the event task     *)
(* queues a text (demo_wifi_event_handler(), main.c), the main task applies*)
(* it between two rounds of LVGL.  The event task has the higher priority  *)
(* and the chip two cores: each access to s_buf and s_dirty is a step.     *)
(***************************************************************************)
EXTENDS Naturals

CONSTANTS
    Texts,       \* status texts
    Initial,     \* "Wi-Fi: connecting...", the text of wifi_ui_init()
    Torn,        \* s_buf read while strlcpy() writes it
    EventMax,    \* bound: events
    TickMax      \* LVGL_LOOP_CYCLES (600), and 100 after Wi-Fi is started

VARIABLES
    s_buf,       \* s_buf
    s_dirty,     \* s_dirty
    label,       \* the text of the label
    s_label,     \* the label has not been deleted
    handler,     \* where wifi_ui_set_status() is: "idle", "copying", "copied"
    main,        \* the main task: "benchmark", "wifi", "done"
    tick,        \* where wifi_ui_tick() is: "idle", "apply", "applied"
    ticks,       \* rounds of the LVGL loop
    events

uiVars == <<s_buf, s_dirty, label, s_label, handler, main, tick, ticks, events>>

\* wifi_ui_init() has been called.
UiInit ==
    /\ s_buf = Initial /\ s_dirty = FALSE
    /\ label = Initial /\ s_label = TRUE
    /\ handler = "idle" /\ main = "benchmark" /\ tick = "idle"
    /\ ticks = 0 /\ events = 0

\* ---- wifi_ui_set_status(), in the event task ------------------------------------

\* An event, once demo_wifi_start() has been called: strlcpy() begins.
Copy(msg) ==
    /\ main # "benchmark" /\ handler = "idle" /\ events < EventMax
    /\ s_buf' = msg /\ handler' = "copying" /\ events' = events + 1
    /\ UNCHANGED <<s_dirty, label, s_label, main, tick, ticks>>

Copied ==
    /\ handler = "copying" /\ handler' = "copied"
    /\ UNCHANGED <<s_buf, s_dirty, label, s_label, main, tick, ticks, events>>

SetDirty ==
    /\ handler = "copied" /\ handler' = "idle"
    /\ s_dirty' = TRUE
    /\ UNCHANGED <<s_buf, label, s_label, main, tick, ticks, events>>

\* ---- wifi_ui_tick() and the loops of app_main(), in the main task ------------------

CheckDirty ==
    /\ main # "done" /\ tick = "idle" /\ ticks < TickMax
    /\ tick' = IF s_dirty /\ s_label THEN "apply" ELSE "idle"
    /\ ticks' = ticks + 1
    /\ UNCHANGED <<s_buf, s_dirty, label, s_label, handler, main, events>>

SetText ==
    /\ tick = "apply" /\ tick' = "applied"
    /\ label' = IF handler = "copying" THEN Torn ELSE s_buf
    /\ UNCHANGED <<s_buf, s_dirty, s_label, handler, main, ticks, events>>

ClearDirty ==
    /\ tick = "applied" /\ tick' = "idle"
    /\ s_dirty' = FALSE
    /\ UNCHANGED <<s_buf, label, s_label, handler, main, ticks, events>>

\* lv_timer_handler(): the benchmark may delete the objects of its screen.
DeleteLabel ==
    /\ main # "done" /\ tick = "idle" /\ s_label
    /\ s_label' = FALSE
    /\ UNCHANGED <<s_buf, s_dirty, label, handler, main, tick, ticks, events>>

\* The benchmark is over: demo_wifi_start(), and the second loop.  After that loop
\* LVGL is left alone.
NextLoop ==
    /\ tick = "idle" /\ main # "done"
    /\ main' = IF main = "benchmark" THEN "wifi" ELSE "done"
    /\ main = "wifi" => ticks = TickMax
    /\ ticks' = 0
    /\ UNCHANGED <<s_buf, s_dirty, label, s_label, handler, tick, events>>

UiNext ==
    \/ \E msg \in Texts : Copy(msg)
    \/ Copied \/ SetDirty
    \/ CheckDirty \/ SetText \/ ClearDirty
    \/ DeleteLabel \/ NextLoop

UiSpec == UiInit /\ [][UiNext]_uiVars

-----------------------------------------------------------------------------
\* ---- Properties -----------------------------------------------------------

\* "Thread-safe: safe to call from Wi-Fi event handler tasks.  The label is updated
\* on the next wifi_ui_tick() call" (wifi_ui.h:15-16): when neither task is in the
\* middle and no text is marked as waiting, the label shows the last text queued.
NoStatusLost ==
    handler = "idle" /\ tick = "idle" /\ ~s_dirty /\ s_label => label = s_buf
=============================================================================
