---------------------------- MODULE EspWifiRegs ----------------------------
(***************************************************************************)
(* The event register of the virtual Wi-Fi device, its interrupt mask and  *)
(* the interrupt line (tools/qemu-src-patches/hw/net/esp_wifi.c).          *)
(*                                                                         *)
(* There is ONE register: an event posted while another is pending takes   *)
(* its place.  Every handler of the device runs under QEMU's big lock, so  *)
(* each operator below is part of one atomic step of the modules that      *)
(* extend this one.                                                        *)
(***************************************************************************)

\* WIFI_EVT_*; NoEvent is WIFI_EVT_NONE.
NoEvent == "NONE"

Events == {"INIT_DONE", "INIT_FAIL", "START_DONE", "STOP_DONE", "CONNECTED",
           "DISCONNECTED", "GOT_IP", "SCAN_DONE", "ERROR", "RX_READY"}

VARIABLES
    event,        \* WIFI_REG_EVENT: the pending event, or NoEvent
    irq_enable,   \* WIFI_REG_IRQ_ENABLE: the set of events that raise the line
    irq           \* the level of the interrupt line

regVars == <<event, irq_enable, irq>>

RegsTypeOK ==
    /\ event \in Events \cup {NoEvent}
    /\ irq_enable \in SUBSET Events
    /\ irq \in BOOLEAN

RegsInit ==
    /\ event = NoEvent
    /\ irq_enable = {}
    /\ irq = FALSE

\* esp_wifi_update_irq(): the line follows the pending event and the mask.
UpdateIrq(evt, mask) == irq' = (evt # NoEvent /\ evt \in mask)

\* esp_wifi_post_event(): overwrites whatever is pending.
PostEvent(evt) ==
    /\ event' = evt
    /\ UpdateIrq(evt, irq_enable)
    /\ UNCHANGED irq_enable

\* The guest writes 0 to WIFI_REG_EVENT.
WriteEvent ==
    /\ event' = NoEvent
    /\ UpdateIrq(NoEvent, irq_enable)
    /\ UNCHANGED irq_enable

\* Mutant: the new mask takes effect with the next event only.
WriteIrqEnableLate(mask) == irq_enable' = mask /\ UNCHANGED <<event, irq>>

\* The guest writes WIFI_REG_IRQ_ENABLE.
WriteIrqEnable(mask) ==
    /\ irq_enable' = mask
    /\ UpdateIrq(event, mask)
    /\ UNCHANGED event
=============================================================================
