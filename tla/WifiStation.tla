---------------------------- MODULE WifiStation ----------------------------
(***************************************************************************)
(* The firmware side (components/esp_wifi_qemu) on top of WifiLink: the    *)
(* application task of the station example (examples/wifi_sta), the event  *)
(* task of the shim and the task of the default esp_event loop, which      *)
(* share the device's single event register.                               *)
(*                                                                         *)
(* Every MMIO access is a step of its own; what a task does between two    *)
(* accesses is local and part of the step.  The time-outs of               *)
(* wifi_qemu_send_cmd() are longer than the mock daemon takes and do not   *)
(* expire here.                                                            *)
(***************************************************************************)
EXTENDS WifiLink

CONSTANTS
    MaxRetry,        \* EXAMPLE_ESP_MAXIMUM_RETRY
    DisconnectMax,   \* bound: calls of esp_wifi_disconnect() by the application
    DisconnectFrom,  \* values of WIFI_REG_STATUS in which it calls it
    Prompt,          \* the firmware reads CONNECTED within 300 ms
    AppSsid, AppPass \* the configuration of the application

ASSUME StationAssumption ==
    MaxRetry \in Nat /\ DisconnectMax \in Nat /\ Prompt \in BOOLEAN
    /\ DisconnectFrom \subseteq Statuses
    /\ {AppSsid, AppPass} \subseteq Creds

VARIABLES
    app_pc,     \* where the application task is in wifi_init_sta()
    evt_pc,     \* "none": no event task; "read", "ack", "post"
    evt,        \* wifi_event_task(): what it read from WIFI_REG_EVENT
    loop_q,     \* events posted to the default event loop
    retry_num,  \* s_retry_num
    bits,       \* the bits set in s_wifi_event_group
    disconnects_left,
    lost        \* history: CONNECTED or DISCONNECTED was overwritten unread

shimVars == <<app_pc, evt_pc, evt, loop_q, retry_num, bits, disconnects_left, lost>>
staVars  == <<linkVars, shimVars>>

AppPcs == {"init", "init_poll", "mode", "mode_poll", "ssid", "pass", "start",
           "start_poll", "scan", "wait", "abort"}

LoopEvents == {"STA_START", "STA_CONNECTED", "STA_DISCONNECTED", "SCAN_DONE", "STA_GOT_IP"}

StaTypeOK ==
    /\ app_pc \in AppPcs
    /\ evt_pc \in {"none", "read", "ack", "post"}
    /\ evt \in Events \cup {NoEvent}
    /\ loop_q \in Seq(LoopEvents)
    /\ retry_num \in 0..MaxRetry
    /\ bits \subseteq {"CONNECTED", "FAIL"}
    /\ disconnects_left \in 0..DisconnectMax
    /\ lost \in BOOLEAN

StaInit ==
    /\ LinkInit
    /\ app_pc = "init" /\ evt_pc = "none" /\ evt = NoEvent
    /\ loop_q = <<>>
    /\ retry_num = 0 /\ bits = {} /\ disconnects_left = DisconnectMax
    /\ lost = FALSE

\* ---- MMIO -----------------------------------------------------------------

\* History: an event the application is to hear of disappears from the register
\* before it is read.  `taken' is what has been read from the register, if any.
Track(taken) ==
    lost' = (lost \/ /\ event \in {"CONNECTED", "DISCONNECTED"}
                     /\ event # taken /\ event' # event)

GuestIdle  == UNCHANGED <<mockVars, budgetVars>>
ReadOnly   == UNCHANGED linkVars

\* A write to WIFI_REG_CMD that leaves the control socket alone.
WriteCmd(action) ==
    /\ action
    /\ Transmit /\ KeepSocket /\ UNCHANGED client_q
    /\ GuestIdle

\* wifi_qemu_write(WIFI_REG_EVENT, 0)
Acknowledge == AckEvent /\ UNCHANGED <<queueVars, linked>> /\ GuestIdle

\* ---- wifi_qemu_send_cmd() -------------------------------------------------

\* One read of the polling loop and the acknowledgement that follows it; the
\* event task does not run yet.  Any event but ERROR means success.
Poll(at, next, failed) ==
    /\ app_pc = at
    /\ event # NoEvent
    /\ Acknowledge
    /\ Track(event)
    /\ app_pc' = IF event = "ERROR" THEN failed ELSE next

\* ---- The application task: wifi_init_sta() --------------------------------

AppInit ==
    /\ app_pc = "init"
    /\ \E p \in Paths : LinkInitConnected(p)
    /\ GuestIdle
    /\ Track(NoEvent)
    /\ app_pc' = "init_poll"
    /\ UNCHANGED <<evt_pc, evt, loop_q, retry_num, bits, disconnects_left>>

AppSetMode ==
    /\ app_pc = "mode"
    /\ WriteCmd(CmdAcknowledged)
    /\ Track(NoEvent)
    /\ app_pc' = "mode_poll"
    /\ UNCHANGED <<evt_pc, evt, loop_q, retry_num, bits, disconnects_left>>

\* esp_wifi_set_config(): the SSID registers, then the passphrase registers.
AppSetConfig ==
    /\ \/ app_pc = "ssid" /\ WriteSsid(AppSsid) /\ app_pc' = "pass"
       \/ app_pc = "pass" /\ WritePass(AppPass) /\ app_pc' = "start"
    /\ UNCHANGED <<queueVars, linked, evt_pc, evt, loop_q, retry_num, bits,
                   disconnects_left, lost>>
    /\ GuestIdle

AppStart ==
    /\ app_pc = "start"
    /\ WriteCmd(CmdStart)
    /\ Track(NoEvent)
    /\ app_pc' = "start_poll"
    /\ UNCHANGED <<evt_pc, evt, loop_q, retry_num, bits, disconnects_left>>

\* ESP_ERROR_CHECK() aborts on a failed init or set_mode; a failed start is only
\* logged by esp_wifi_start(), and the application waits without an event task.
AppPoll ==
    /\ \/ Poll("init_poll", "mode", "abort")
       \/ Poll("mode_poll", "ssid", "abort")
       \/ Poll("start_poll", "scan", "wait")
    /\ UNCHANGED <<evt_pc, evt, loop_q, retry_num, bits, disconnects_left>>

\* The rest of esp_wifi_start(): the event task is created, the start-up scan
\* is written, and only then STA_START is posted.
AppStartupScan ==
    /\ app_pc = "scan" /\ evt_pc = "none"
    /\ evt_pc' = "read"
    /\ WriteCmd(CmdScan)
    /\ Track(NoEvent)
    /\ UNCHANGED <<app_pc, evt, loop_q, retry_num, bits, disconnects_left>>

AppPostStart ==
    /\ app_pc = "scan" /\ evt_pc # "none"
    /\ app_pc' = "wait"
    /\ loop_q' = Append(loop_q, "STA_START")
    /\ ReadOnly
    /\ UNCHANGED <<evt_pc, evt, retry_num, bits, disconnects_left, lost>>

\* esp_wifi_disconnect(), called by an application that has started.
AppDisconnect ==
    /\ app_pc = "wait" /\ status \in DisconnectFrom
    /\ disconnects_left > 0
    /\ disconnects_left' = disconnects_left - 1
    /\ bits' = bits \ {"CONNECTED"}
    /\ WriteCmd(CmdDisconnect)
    /\ Track(NoEvent)
    /\ UNCHANGED <<app_pc, evt_pc, evt, loop_q, retry_num>>

App == \/ AppInit \/ AppSetMode \/ AppSetConfig \/ AppStart \/ AppPoll
       \/ AppStartupScan \/ AppPostStart

\* ---- wifi_event_task() ----------------------------------------------------

EvtRead ==
    /\ evt_pc = "read"
    /\ event # NoEvent
    /\ evt' = event
    /\ evt_pc' = "ack"
    /\ ReadOnly
    /\ UNCHANGED <<app_pc, loop_q, retry_num, bits, disconnects_left, lost>>

\* What the dispatch posts for an event; nothing for GOT_IP, ERROR and the rest.
Posts(e) ==
    CASE e = "CONNECTED"    -> <<"STA_CONNECTED">>
      [] e = "DISCONNECTED" -> <<"STA_DISCONNECTED">>
      [] e = "SCAN_DONE"    -> <<"SCAN_DONE">>
      [] OTHER              -> <<>>

\* The acknowledgement clears the register, whatever is in it by now.
EvtAck ==
    /\ evt_pc = "ack"
    /\ Acknowledge
    /\ Track(evt)
    /\ evt_pc' = "post"
    /\ UNCHANGED <<app_pc, evt, loop_q, retry_num, bits, disconnects_left>>

EvtPost ==
    /\ evt_pc = "post"
    /\ loop_q' = loop_q \o Posts(evt)
    /\ evt_pc' = "read"
    /\ evt' = NoEvent
    /\ ReadOnly
    /\ UNCHANGED <<app_pc, retry_num, bits, disconnects_left, lost>>

EvtTask == EvtRead \/ EvtAck \/ EvtPost

\* ---- The default event loop -----------------------------------------------

\* esp_wifi_connect(): CMD_CONNECT is written, and ignored unless STARTED.
Connect ==
    IF status = "STARTED" THEN WriteCmd(CmdConnect(FALSE)) ELSE UNCHANGED linkVars

LoopStart ==
    /\ Head(loop_q) = "STA_START"
    /\ Connect
    /\ loop_q' = Tail(loop_q)
    /\ UNCHANGED <<retry_num, bits>>

\* Mutant: one retry too many.
LoopDisconnectedOnceMore ==
    /\ Head(loop_q) = "STA_DISCONNECTED"
    /\ IF retry_num <= MaxRetry
       THEN Connect /\ retry_num' = retry_num + 1 /\ UNCHANGED bits
       ELSE bits' = bits \cup {"FAIL"} /\ ReadOnly /\ UNCHANGED retry_num
    /\ loop_q' = Tail(loop_q)

LoopDisconnected ==
    /\ Head(loop_q) = "STA_DISCONNECTED"
    /\ IF retry_num < MaxRetry
       THEN Connect /\ retry_num' = retry_num + 1 /\ UNCHANGED bits
       ELSE bits' = bits \cup {"FAIL"} /\ ReadOnly /\ UNCHANGED retry_num
    /\ loop_q' = Tail(loop_q)

\* wifi_qemu_sta_connected_static_ip(): reads the IP registers.
LoopConnected ==
    /\ Head(loop_q) = "STA_CONNECTED"
    /\ loop_q' = Tail(loop_q) \o (IF ip_addr # Nothing THEN <<"STA_GOT_IP">> ELSE <<>>)
    /\ ReadOnly
    /\ UNCHANGED <<retry_num, bits>>

LoopGotIp ==
    /\ Head(loop_q) = "STA_GOT_IP"
    /\ loop_q' = Tail(loop_q)
    /\ retry_num' = 0
    /\ bits' = bits \cup {"CONNECTED"}
    /\ ReadOnly

LoopScanDone ==
    /\ Head(loop_q) = "SCAN_DONE"
    /\ loop_q' = Tail(loop_q)
    /\ ReadOnly
    /\ UNCHANGED <<retry_num, bits>>

Loop ==
    /\ loop_q # <<>>
    /\ LoopStart \/ LoopDisconnected \/ LoopConnected \/ LoopGotIp \/ LoopScanDone
    /\ Track(NoEvent)
    /\ UNCHANGED <<app_pc, evt_pc, evt, disconnects_left>>

\* ---- Specification --------------------------------------------------------

\* The 300 ms of the GOT_IP timer begin when CONNECTED is posted.
StaDevice ==
    /\ \/ LinkRead
       \/ (Prompt => event # "CONNECTED") /\ LinkTimer
    /\ GuestIdle
    /\ Track(IF evt_pc = "ack" THEN evt ELSE NoEvent)
    /\ UNCHANGED <<app_pc, evt_pc, evt, loop_q, retry_num, bits, disconnects_left>>

StaDaemon == LinkDaemon /\ UNCHANGED shimVars

StaNext == App \/ AppDisconnect \/ EvtTask \/ Loop \/ StaDevice \/ StaDaemon

\* The scheduler, QEMU's main loop and the daemon run; the application need
\* not disconnect.
StaFairness ==
    /\ WF_staVars(App)
    /\ WF_staVars(EvtTask)
    /\ WF_staVars(Loop)
    /\ WF_staVars(StaDevice)
    /\ WF_staVars(StaDaemon)

StaSpec == StaInit /\ [][StaNext]_staVars /\ StaFairness

-----------------------------------------------------------------------------
\* ---- Properties -----------------------------------------------------------

\* The replies in the queue of the device's socket.
Answers == {i \in 1..Len(client_q) : client_q[i].kind \notin CtrlEvents}

Awaited ==
    [ADD_NET_SENT |-> "ADD_NETWORK", SET_SSID_SENT |-> "SET_SSID", SET_PSK_SENT |-> "SET_PSK"]

\* The control protocol has no request ids: the sequencer takes the next reply
\* for the answer to its last command.  While the station joins, exactly one
\* reply is outstanding and it is that answer, in spite of the replies to the
\* start-up scan, to the second SCAN and to DISABLE_NETWORK.
JoinReplyMatches ==
    conn_state \in JoinStates =>
        \/ Len(cmd_q) = 1 /\ cmd_q[1].cmd.cmd = Awaited[conn_state] /\ Answers = {}
        \/ /\ cmd_q = <<>>
           /\ \E i \in Answers : /\ Answers = {i}
                                 /\ conn_state = "ADD_NET_SENT" <=> client_q[i].kind = "ID"

\* The answer to STATUS is the next reply as well, so the address arrives
\* before CONNECTED is announced, and the application's address is real.
AddressWithConnected ==
    /\ event = "CONNECTED" \/ evt = "CONNECTED" => ip_addr # Nothing
    /\ "CONNECTED" \in bits => ip_addr # Nothing

\* The daemon is told to select only a network that has the SSID and the
\* passphrase of the application.
SelectsConfiguredNetwork ==
    \A i \in 1..Len(cmd_q) :
        cmd_q[i].cmd.cmd = "SELECT_NETWORK" =>
            /\ cmd_q[i].cmd.id \in DOMAIN networks
            /\ networks[cmd_q[i].cmd.id] = [ssid |-> AppSsid, psk |-> AppPass]

\* A station without an address gets one, at start and after a disconnect,
\* unless it used up its retries or an event was lost in the one-place register.
StationGetsAddress == bits = {} ~> (bits # {} \/ lost)

\* docs/qemu-wifi.md: the event task "posts the corresponding esp_event_loop
\* events and then acknowledges the mailbox event": an event the application
\* waits for does not leave the register before the task has read it.
NoEventLost == ~lost
=============================================================================
