---------------------------- MODULE EspWifiCtrl ----------------------------
(***************************************************************************)
(* The control plane of the virtual Wi-Fi device (esp_wifi.c): the         *)
(* commands the firmware writes to WIFI_REG_CMD and the connection         *)
(* sequencer that talks to wpa_supplicant over a datagram socket.          *)
(*                                                                         *)
(* The module is open at both ends: the guest may write any register at    *)
(* any time and the daemon may deliver any datagram at any time.  `sent'   *)
(* holds the datagrams the last step handed to the control socket, so that *)
(* a module that composes the device with a daemon (WifiLink) can queue    *)
(* them.                                                                   *)
(*                                                                         *)
(* Data are abstracted to what the sequencer tells apart: an IPv4 address  *)
(* is its /24 subnet, an access point record is a model value, a           *)
(* credential is a model value.                                            *)
(***************************************************************************)
EXTENDS EspWifiRegs, WpaCtrl

CONSTANTS
    IrqMasks,    \* values the guest writes to WIFI_REG_IRQ_ENABLE
    MaxScan,     \* ESP_WIFI_MAX_SCAN_RESULTS
    MaxTimers    \* bound: GOT_IP timers running at the same time

ASSUME MaskAssumption  == IrqMasks \subseteq SUBSET Events
ASSUME BoundAssumption == MaxScan \in Nat /\ MaxTimers \in Nat \ {0}

VARIABLES
    status,         \* WIFI_REG_STATUS
    conn_state,     \* what the sequencer waits for (WpaConnState)
    scan_only,      \* the scan in progress was asked by WIFI_CMD_SCAN
    scan_count,     \* WIFI_REG_SCAN_COUNT
    net_id,         \* id of the network added last, -1 = none
    ssid, pass,     \* the credential registers
    ip_addr,        \* the subnet of WIFI_REG_IP_ADDR, or Nothing
    ip_gw,          \* the subnet WIFI_REG_IP_MASK and _GW describe, or Nothing
    connected_ap,   \* the WIFI_REG_CONN_* record, "rssi": only a default RSSI
    ctrl_open,      \* ctrl_fd >= 0
    ctrl_watch,     \* the GLib watch on ctrl_fd still fires
    pkt_open,       \* pkt_fd >= 0
    got_ip_timers,  \* 300 ms one-shot timers running
    sent            \* datagrams handed to the control socket by the last step

connVars == <<status, conn_state, scan_only>>
cfgVars  == <<ssid, pass>>
ipVars   == <<ip_addr, ip_gw, connected_ap>>
sockVars == <<ctrl_open, ctrl_watch>>
devVars  == <<regVars, connVars, scan_count, net_id, cfgVars, ipVars, sockVars,
              pkt_open, got_ip_timers, sent>>

Statuses == {"UNINIT", "IDLE", "STARTED", "CONNECTING", "CONNECTED", "ERROR"}

ConnStates ==
    {"NONE", "ATTACH_SENT", "IDLE", "SCAN_SENT", "SCAN_RESULTS_SENT",
     "ADD_NET_SENT", "SET_SSID_SENT", "SET_PSK_SENT", "SELECT_SENT",
     "GETTING_STATUS", "CONNECTED"}

\* wpa_ctrl_send(): nothing leaves when the socket is closed.
Send(c) == sent' = IF ctrl_open THEN <<c>> ELSE <<>>

ConnTypeOK ==
    /\ status \in Statuses
    /\ conn_state \in ConnStates
    /\ scan_only \in BOOLEAN
    /\ ctrl_open \in BOOLEAN /\ ctrl_watch \in BOOLEAN
    /\ pkt_open \in BOOLEAN

DataTypeOK ==
    /\ scan_count \in 0..MaxScan
    /\ net_id \in NetIds \cup {-1}
    /\ ssid \in Creds \cup {Nothing} /\ pass \in Creds \cup {Nothing}
    /\ ip_addr \in Subnets \cup {Nothing}
    /\ ip_gw \in Subnets \cup {Nothing}
    /\ connected_ap \in Aps \cup {Nothing, "rssi"}
    /\ got_ip_timers \in 0..MaxTimers

TypeOK == RegsTypeOK /\ ConnTypeOK /\ DataTypeOK /\ sent \in Seq(Cmds)

Init ==
    /\ RegsInit
    /\ status = "UNINIT" /\ conn_state = "NONE" /\ scan_only = FALSE
    /\ scan_count = 0 /\ net_id = -1
    /\ ssid = Nothing /\ pass = Nothing
    /\ ip_addr = Nothing /\ ip_gw = Nothing /\ connected_ap = Nothing
    /\ ctrl_open = FALSE /\ ctrl_watch = FALSE /\ pkt_open = FALSE
    /\ got_ip_timers = 0
    /\ sent = <<>>

\* ---- The control socket ---------------------------------------------------

CloseSocket == ctrl_open' = FALSE /\ ctrl_watch' = FALSE

\* Mutant: the sequencer is not told that the socket is gone.
CloseCtrlKeepsWait == CloseSocket /\ UNCHANGED conn_state

\* wpa_ctrl_close(): conn_state is reset only when there was a socket.
CloseCtrl ==
    /\ CloseSocket
    /\ conn_state' = IF ctrl_open THEN "NONE" ELSE conn_state

Detach == IF ctrl_open THEN <<Plain("DETACH")>> ELSE <<>>

\* WIFI_CMD_INIT -> wpa_ctrl_open(), when socket(), bind() or connect() fails.
\* The old socket is gone by then, and status keeps its value.
InitUnreachable ==
    /\ CloseCtrl
    /\ sent' = Detach
    /\ PostEvent("INIT_FAIL")
    /\ UNCHANGED <<status, scan_only, scan_count, net_id, cfgVars, ipVars,
                   pkt_open, got_ip_timers>>

\* WIFI_CMD_INIT with a connected socket: ATTACH is sent, or its send() fails.
InitConnected(attach_sent) ==
    /\ ctrl_open' = TRUE
    /\ ctrl_watch' = TRUE
    /\ conn_state' = "ATTACH_SENT"
    /\ sent' = Detach \o (IF attach_sent THEN <<Plain("ATTACH")>> ELSE <<>>)
    /\ IF attach_sent THEN UNCHANGED regVars ELSE PostEvent("INIT_FAIL")
    /\ UNCHANGED <<status, scan_only, scan_count, net_id, cfgVars, ipVars,
                   pkt_open, got_ip_timers>>

\* ---- Commands -------------------------------------------------------------

CmdDeinit ==
    /\ CloseCtrl
    /\ sent' = Detach
    /\ status' = "UNINIT"
    /\ WriteEvent
    /\ UNCHANGED <<scan_only, scan_count, net_id, cfgVars, ipVars, pkt_open,
                   got_ip_timers>>

\* WIFI_CMD_SET_MODE_STA, and WIFI_CMD_GET_MAC, which differs in the MAC it reads.
CmdAcknowledged ==
    /\ PostEvent("INIT_DONE")
    /\ sent' = <<>>
    /\ UNCHANGED <<connVars, scan_count, net_id, cfgVars, ipVars, sockVars,
                   pkt_open, got_ip_timers>>

CmdStart ==
    /\ status = "IDLE"
    /\ status' = "STARTED"
    /\ PostEvent("START_DONE")
    /\ sent' = <<>>
    /\ UNCHANGED <<conn_state, scan_only, scan_count, net_id, cfgVars, ipVars,
                   sockVars, pkt_open, got_ip_timers>>

\* Mutant: STOP leaves the join to itself.
CmdStopKeepsJoin ==
    /\ status \in {"STARTED", "CONNECTING", "CONNECTED"}
    /\ status' = "IDLE"
    /\ PostEvent("STOP_DONE")
    /\ sent' = <<>>
    /\ UNCHANGED <<conn_state, scan_only, scan_count, net_id, cfgVars, ipVars,
                   sockVars, pkt_open, got_ip_timers>>

CmdStop ==
    /\ status \in {"STARTED", "CONNECTING", "CONNECTED"}
    /\ status' = "IDLE"
    /\ conn_state' = "IDLE"
    /\ PostEvent("STOP_DONE")
    /\ sent' = <<>>
    /\ UNCHANGED <<scan_only, scan_count, net_id, cfgVars, ipVars, sockVars,
                   pkt_open, got_ip_timers>>

\* Mutants: CONNECT in every state; the flag of an earlier WIFI_CMD_SCAN stays.
CmdConnectUnguarded(relay_accepts) ==
    /\ scan_only' = FALSE
    /\ conn_state' = "SCAN_SENT"
    /\ Send(Plain("SCAN"))
    /\ pkt_open' = (pkt_open \/ relay_accepts)
    /\ UNCHANGED <<regVars, status, scan_count, net_id, cfgVars, ipVars,
                   sockVars, got_ip_timers>>

CmdConnectKeepsFlag(relay_accepts) ==
    /\ status = "STARTED"
    /\ conn_state' = "SCAN_SENT"
    /\ Send(Plain("SCAN"))
    /\ pkt_open' = (pkt_open \/ relay_accepts)
    /\ UNCHANGED <<regVars, status, scan_only, scan_count, net_id, cfgVars,
                   ipVars, sockVars, got_ip_timers>>

\* The result of wpa_ctrl_send() is ignored; the relay socket is opened too,
\* when it is configured and its daemon accepts.
CmdConnect(relay_accepts) ==
    /\ status = "STARTED"
    /\ scan_only' = FALSE
    /\ conn_state' = "SCAN_SENT"
    /\ Send(Plain("SCAN"))
    /\ pkt_open' = (pkt_open \/ relay_accepts)
    /\ UNCHANGED <<regVars, status, scan_count, net_id, cfgVars, ipVars,
                   sockVars, got_ip_timers>>

CmdDisconnect ==
    /\ status \in {"CONNECTING", "CONNECTED"}
    /\ status' = "STARTED"
    /\ conn_state' = "IDLE"
    /\ IF net_id >= 0 THEN Send(OnNet("DISABLE_NETWORK", net_id)) ELSE sent' = <<>>
    /\ PostEvent("DISCONNECTED")
    /\ UNCHANGED <<scan_only, scan_count, net_id, cfgVars, ipVars, sockVars,
                   pkt_open, got_ip_timers>>

\* The guard against a scan in the middle of a connect.
ScanDropped == status = "STARTED" /\ conn_state \notin {"NONE", "IDLE"}

\* Mutant: the guard is not there.
CmdScanUnguarded ==
    /\ scan_only' = TRUE
    /\ IF ctrl_open
       THEN /\ conn_state' = "SCAN_SENT"
            /\ UNCHANGED <<regVars, scan_count>>
       ELSE /\ scan_count' = 0
            /\ PostEvent("SCAN_DONE")
            /\ UNCHANGED conn_state
    /\ Send(Plain("SCAN"))
    /\ UNCHANGED <<status, net_id, cfgVars, ipVars, sockVars, pkt_open,
                   got_ip_timers>>

CmdScan ==
    /\ ~ScanDropped
    /\ scan_only' = TRUE
    /\ IF ctrl_open
       THEN /\ conn_state' = "SCAN_SENT"
            /\ UNCHANGED <<regVars, scan_count>>
       ELSE /\ scan_count' = 0
            /\ PostEvent("SCAN_DONE")
            /\ UNCHANGED conn_state
    /\ Send(Plain("SCAN"))
    /\ UNCHANGED <<status, net_id, cfgVars, ipVars, sockVars, pkt_open,
                   got_ip_timers>>

\* ---- Other register writes, reset -----------------------------------------

Quiet == sent' = <<>> /\ UNCHANGED <<connVars, scan_count, net_id, ipVars,
                                     sockVars, pkt_open, got_ip_timers>>

\* WIFI_REG_EVENT := 0 and WIFI_REG_IRQ_ENABLE := mask.
AckEvent        == WriteEvent /\ Quiet /\ UNCHANGED cfgVars
SetIrqMask(mask) == WriteIrqEnable(mask) /\ Quiet /\ UNCHANGED cfgVars

\* The SSID and the passphrase are two groups of registers.
WriteSsid(c) == ssid' = c /\ Quiet /\ UNCHANGED <<regVars, pass>>
WritePass(c) == pass' = c /\ Quiet /\ UNCHANGED <<regVars, ssid>>

\* esp_wifi_reset(): scan_only, connected_ap and the running timers survive it.
Reset ==
    /\ CloseSocket /\ pkt_open' = FALSE
    /\ sent' = Detach
    /\ status' = "UNINIT" /\ conn_state' = "NONE"
    /\ event' = NoEvent /\ irq_enable' = {} /\ irq' = FALSE
    /\ ssid' = Nothing /\ pass' = Nothing
    /\ scan_count' = 0 /\ net_id' = -1
    /\ ip_addr' = Nothing /\ ip_gw' = Nothing
    /\ UNCHANGED <<scan_only, connected_ap, got_ip_timers>>

\* ---- Datagrams from the daemon: wpa_handle_msg() --------------------------

\* Mutant: every CTRL-EVENT-SCAN-RESULTS asks for the results.
EvScanResultsAlways ==
    /\ conn_state \in {"SCAN_SENT", "SCAN_RESULTS_SENT"}
    /\ conn_state' = "SCAN_RESULTS_SENT"
    /\ Send(Plain("SCAN_RESULTS"))
    /\ UNCHANGED <<regVars, status, scan_only, scan_count, net_id, cfgVars,
                   ipVars, sockVars, pkt_open, got_ip_timers>>

EvScanResults ==
    /\ conn_state = "SCAN_SENT"
    /\ conn_state' = "SCAN_RESULTS_SENT"
    /\ Send(Plain("SCAN_RESULTS"))
    /\ UNCHANGED <<regVars, status, scan_only, scan_count, net_id, cfgVars,
                   ipVars, sockVars, pkt_open, got_ip_timers>>

\* Mutant: CONNECTED is announced without waiting for the answer to STATUS.
EvConnectedAtOnce ==
    /\ conn_state' = "GETTING_STATUS"
    /\ status' = "CONNECTED"
    /\ PostEvent("CONNECTED")
    /\ Send(Plain("STATUS"))
    /\ UNCHANGED <<scan_only, scan_count, net_id, cfgVars, ipVars, sockVars,
                   pkt_open, got_ip_timers>>

\* Taken in every state: after a STOP or a DISCONNECT as well.
EvConnected ==
    /\ conn_state' = "GETTING_STATUS"
    /\ status' = "CONNECTED"
    /\ Send(Plain("STATUS"))
    /\ UNCHANGED <<regVars, scan_only, scan_count, net_id, cfgVars, ipVars,
                   sockVars, pkt_open, got_ip_timers>>

EvDisconnected ==
    /\ conn_state' = "IDLE"
    /\ status' = "STARTED"
    /\ connected_ap' = Nothing
    /\ PostEvent("DISCONNECTED")
    /\ sent' = <<>>
    /\ UNCHANGED <<scan_only, scan_count, net_id, cfgVars, ip_addr, ip_gw,
                   sockVars, pkt_open, got_ip_timers>>

\* A reply that ends the join with WIFI_EVT_ERROR: conn_state is left waiting.
JoinFails ==
    /\ status' = "ERROR"
    /\ PostEvent("ERROR")
    /\ sent' = <<>>
    /\ UNCHANGED <<conn_state, net_id>>

ReplyAttach(m) ==
    /\ conn_state = "ATTACH_SENT"
    /\ IF m.kind = "OK"
       THEN conn_state' = "IDLE" /\ status' = "IDLE" /\ PostEvent("INIT_DONE")
       ELSE conn_state' = "NONE" /\ status' = "ERROR" /\ PostEvent("INIT_FAIL")
    /\ sent' = <<>>
    /\ UNCHANGED <<scan_only, scan_count, net_id, cfgVars, ipVars, sockVars,
                   pkt_open, got_ip_timers>>

\* Mutants: the table is not bounded; the end of a scan leaves the wait.
ReplyScanResultsUnbounded(m) ==
    /\ conn_state = "SCAN_RESULTS_SENT"
    /\ m.kind = "DUMP"
    /\ scan_count' = m.n
    /\ scan_only' = FALSE
    /\ conn_state' = "NONE" /\ PostEvent("SCAN_DONE") /\ sent' = <<>>
    /\ UNCHANGED <<status, net_id, cfgVars, ipVars, sockVars, pkt_open,
                   got_ip_timers>>

ReplyScanResultsKeepsWait(m) ==
    /\ conn_state = "SCAN_RESULTS_SENT"
    /\ m.kind = "DUMP"
    /\ scan_count' = IF m.n < MaxScan THEN m.n ELSE MaxScan
    /\ scan_only' = FALSE
    /\ IF scan_only
       THEN PostEvent("SCAN_DONE") /\ sent' = <<>> /\ UNCHANGED conn_state
       ELSE /\ conn_state' = "ADD_NET_SENT"
            /\ Send(Plain("ADD_NETWORK"))
            /\ UNCHANGED regVars
    /\ UNCHANGED <<status, net_id, cfgVars, ipVars, sockVars, pkt_open,
                   got_ip_timers>>

\* Anything but a "bssid / frequency ..." dump is ignored here.
ReplyScanResults(m) ==
    /\ conn_state = "SCAN_RESULTS_SENT"
    /\ m.kind = "DUMP"
    /\ scan_count' = IF m.n < MaxScan THEN m.n ELSE MaxScan
    /\ scan_only' = FALSE
    /\ IF scan_only
       THEN conn_state' = "NONE" /\ PostEvent("SCAN_DONE") /\ sent' = <<>>
       ELSE /\ conn_state' = "ADD_NET_SENT"
            /\ Send(Plain("ADD_NETWORK"))
            /\ UNCHANGED regVars
    /\ UNCHANGED <<status, net_id, cfgVars, ipVars, sockVars, pkt_open,
                   got_ip_timers>>

\* atoi(): 0 for a text that does not start with a number, "OK" and "FAIL" too.
Atoi(m) == IF m.kind = "ID" THEN m.id ELSE 0

\* Mutant: off by one in the test for a negative id.
ReplyAddNetworkTakesAll(m) ==
    /\ conn_state = "ADD_NET_SENT"
    /\ net_id' = Atoi(m)
    /\ conn_state' = "SET_SSID_SENT"
    /\ Send(Set("SET_SSID", Atoi(m), ssid))
    /\ UNCHANGED <<regVars, status, scan_only, scan_count, cfgVars, ipVars,
                   sockVars, pkt_open, got_ip_timers>>

ReplyAddNetwork(m) ==
    /\ conn_state = "ADD_NET_SENT"
    /\ IF Atoi(m) >= 0
       THEN /\ net_id' = Atoi(m)
            /\ conn_state' = "SET_SSID_SENT"
            /\ Send(Set("SET_SSID", Atoi(m), ssid))
            /\ UNCHANGED <<regVars, status>>
       ELSE JoinFails
    /\ UNCHANGED <<scan_only, scan_count, cfgVars, ipVars, sockVars, pkt_open,
                   got_ip_timers>>

\* Mutant: the SSID is sent for the passphrase.
ReplySetSsidTwice(m) ==
    /\ conn_state = "SET_SSID_SENT" /\ m.kind = "OK"
    /\ conn_state' = "SET_PSK_SENT"
    /\ Send(Set("SET_PSK", net_id, ssid))
    /\ UNCHANGED <<regVars, status, scan_only, scan_count, net_id, cfgVars,
                   ipVars, sockVars, pkt_open, got_ip_timers>>

ReplySetSsid(m) ==
    /\ conn_state = "SET_SSID_SENT"
    /\ IF m.kind = "OK"
       THEN /\ conn_state' = "SET_PSK_SENT"
            /\ Send(Set("SET_PSK", net_id, pass))
            /\ UNCHANGED <<regVars, status, net_id>>
       ELSE JoinFails
    /\ UNCHANGED <<scan_only, scan_count, cfgVars, ipVars, sockVars, pkt_open,
                   got_ip_timers>>

ReplySetPsk(m) ==
    /\ conn_state = "SET_PSK_SENT"
    /\ IF m.kind = "OK"
       THEN /\ conn_state' = "SELECT_SENT"
            /\ status' = "CONNECTING"
            /\ Send(OnNet("SELECT_NETWORK", net_id))
            /\ UNCHANGED <<regVars, net_id>>
       ELSE JoinFails
    /\ UNCHANGED <<scan_only, scan_count, cfgVars, ipVars, sockVars, pkt_open,
                   got_ip_timers>>

\* wpa_parse_status(): a field the reply lacks keeps its value, except that a
\* record without an RSSI gets the default one; mask and gateway are derived
\* from the first address only.
ParseStatus(m) ==
    /\ ip_addr' = IF m.kind = "STATUS" /\ m.ip # Nothing THEN m.ip ELSE ip_addr
    /\ ip_gw' = IF ip_gw = Nothing THEN ip_addr' ELSE ip_gw
    /\ connected_ap' = IF m.kind = "STATUS" THEN m.ap
                       ELSE IF connected_ap = Nothing THEN "rssi" ELSE connected_ap

\* Whatever the reply is, the join is reported; with an address, GOT_IP follows.
ReplyStatus(m) ==
    /\ conn_state = "GETTING_STATUS"
    /\ got_ip_timers < MaxTimers
    /\ ParseStatus(m)
    /\ PostEvent("CONNECTED")
    /\ got_ip_timers' = got_ip_timers + (IF ip_addr' # Nothing THEN 1 ELSE 0)
    /\ conn_state' = "CONNECTED"
    /\ sent' = <<>>
    /\ UNCHANGED <<status, scan_only, scan_count, net_id, cfgVars, sockVars,
                   pkt_open>>

\* States in which wpa_handle_msg() has no use for message m.
Ignored(m) ==
    /\ \/ m.kind = "EV_SCAN_RESULTS" /\ conn_state # "SCAN_SENT"
       \/ /\ m \in Replies
          /\ \/ conn_state \in {"NONE", "IDLE", "SCAN_SENT", "SELECT_SENT", "CONNECTED"}
             \/ conn_state = "SCAN_RESULTS_SENT" /\ m.kind # "DUMP"
    /\ sent' = <<>>
    /\ UNCHANGED <<regVars, connVars, scan_count, net_id, cfgVars, ipVars,
                   sockVars, pkt_open, got_ip_timers>>

HandleReply(m) ==
    \/ ReplyAttach(m)
    \/ ReplyScanResults(m)
    \/ ReplyAddNetwork(m)
    \/ ReplySetSsid(m)
    \/ ReplySetPsk(m)
    \/ ReplyStatus(m)

\* esp_wifi_ctrl_read_cb() with one datagram.
CtrlRead(m) ==
    /\ ctrl_open /\ ctrl_watch
    /\ \/ m.kind = "EV_SCAN_RESULTS" /\ EvScanResults
       \/ m.kind = "EV_CONNECTED" /\ EvConnected
       \/ m.kind = "EV_DISCONNECTED" /\ EvDisconnected
       \/ m \in Replies /\ HandleReply(m)
       \/ Ignored(m)

\* esp_wifi_ctrl_read_cb() with HUP or ERR: the watch ends, the socket stays.
CtrlHup ==
    /\ ctrl_open /\ ctrl_watch
    /\ ctrl_watch' = FALSE
    /\ sent' = <<>>
    /\ UNCHANGED <<regVars, connVars, scan_count, net_id, cfgVars, ipVars,
                   ctrl_open, pkt_open, got_ip_timers>>

\* ---- Timer and packet relay -----------------------------------------------

\* Mutant: the address is not looked at again after the 300 ms.
GotIpTimerUnchecked ==
    /\ got_ip_timers > 0
    /\ got_ip_timers' = got_ip_timers - 1
    /\ PostEvent("GOT_IP")
    /\ sent' = <<>>
    /\ UNCHANGED <<connVars, scan_count, net_id, cfgVars, ipVars, sockVars, pkt_open>>

\* esp_wifi_post_got_ip_cb(): nothing cancels it.
GotIpTimer ==
    /\ got_ip_timers > 0
    /\ got_ip_timers' = got_ip_timers - 1
    /\ IF ip_addr # Nothing THEN PostEvent("GOT_IP") ELSE UNCHANGED regVars
    /\ sent' = <<>>
    /\ UNCHANGED <<connVars, scan_count, net_id, cfgVars, ipVars, sockVars, pkt_open>>

\* A frame reaches the receive buffer (EspWifiPkt has the detail).
PktRxReady ==
    /\ pkt_open
    /\ PostEvent("RX_READY")
    /\ Quiet
    /\ UNCHANGED cfgVars

\* pkt_relay_close(), on HUP or on a failed transmission.
PktRelayLost ==
    /\ pkt_open
    /\ pkt_open' = FALSE
    /\ sent' = <<>>
    /\ UNCHANGED <<regVars, connVars, scan_count, net_id, cfgVars, ipVars,
                   sockVars, got_ip_timers>>

\* ---- Specification --------------------------------------------------------

Guest ==
    \/ InitUnreachable
    \/ \E attach_sent \in BOOLEAN : InitConnected(attach_sent)
    \/ CmdDeinit
    \/ CmdAcknowledged
    \/ CmdStart
    \/ CmdStop
    \/ \E relay_accepts \in BOOLEAN : CmdConnect(relay_accepts)
    \/ CmdDisconnect
    \/ CmdScan
    \/ AckEvent
    \/ \E mask \in IrqMasks : SetIrqMask(mask)
    \/ \E c \in Creds : WriteSsid(c) \/ WritePass(c)

Host ==
    \/ \E m \in Msgs : CtrlRead(m)
    \/ CtrlHup
    \/ GotIpTimer
    \/ PktRxReady
    \/ PktRelayLost
    \/ Reset

Next == Guest \/ Host

Spec == Init /\ [][Next]_devVars

-----------------------------------------------------------------------------
\* ---- Properties -----------------------------------------------------------

JoinStates == {"ADD_NET_SENT", "SET_SSID_SENT", "SET_PSK_SENT"}

\* The two state machines of the device agree: a join is configured only for a
\* guest that was told STARTED (or ERROR), SELECT_NETWORK is outstanding exactly
\* under CONNECTING, and the sequencer reports a connection only while
\* WIFI_STATUS says CONNECTED.  Every command, event and failure path writes
\* both, or leaves one of them to another handler.
SequencerMatchesStatus ==
    /\ conn_state \in JoinStates => status \in {"STARTED", "ERROR"}
    /\ conn_state = "SELECT_SENT" => status = "CONNECTING"
    /\ conn_state \in {"GETTING_STATUS", "CONNECTED"} => status = "CONNECTED"

\* Without a socket the sequencer never waits for an answer to ATTACH,
\* SCAN_RESULTS or a command of the join: no answer could come.  (SCAN_SENT is
\* reached by a CONNECT whose SCAN could not be sent.)
NoWaitWithoutSocket ==
    ~ctrl_open => conn_state \in {"NONE", "IDLE", "SCAN_SENT"}

\* GOT_IP is announced only with an address in the registers, although the
\* timer that posts it survives a reset that clears them.
GotIpHasAddress == event = "GOT_IP" => ip_addr # Nothing

\* The interrupt line is up exactly when the pending event is enabled, after
\* every post, acknowledgement, change of the mask, DEINIT and reset.
IrqMatchesEvent == irq <=> (event # NoEvent /\ event \in irq_enable)

\* The station becomes CONNECTING only with a SELECT_NETWORK that really leaves
\* the device and names a network the daemon numbered: no command, late event or
\* failed reply moves it there, or gets a join that far without a network.
ConnectingSelects ==
    [][status # "CONNECTING" /\ status' = "CONNECTING"
         => /\ net_id >= 0
            /\ sent' = <<OnNet("SELECT_NETWORK", net_id)>>]_devVars

\* The join of a started station, from its scan to its last SET_NETWORK.
JoinUnderWay ==
    /\ status = "STARTED" /\ ~scan_only
    /\ conn_state \in {"SCAN_SENT", "SCAN_RESULTS_SENT"} \cup JoinStates

\* A join that CONNECT has begun runs on until SELECT_NETWORK leaves, a reply, an
\* event or a command of the guest ends it by a new status (ERROR, CONNECTED,
\* STOP, DEINIT, reset), the daemon disconnects, or a new INIT replaces the
\* socket.  No WIFI_CMD_SCAN, asked before the CONNECT or at any place of the
\* join, makes its SCAN_RESULTS answer end it with SCAN_DONE.
JoinRunsOn ==
    [][JoinUnderWay \/ (\E relay_accepts \in BOOLEAN : CmdConnect(relay_accepts))
         => \/ JoinUnderWay'
            \/ status' # "STARTED"
            \/ conn_state' \in {"IDLE", "ATTACH_SENT"}
            \/ ctrl_open /\ ~ctrl_open']_devVars

\* A scan that goes on to a join was asked by a CONNECT of a started station.
JoinScanStarted ==
    conn_state \in {"SCAN_SENT", "SCAN_RESULTS_SENT"} /\ ctrl_open /\ ~scan_only
      => status = "STARTED"

\* The inductive invariant: what the join states say about the status, the socket
\* and the network, and the scan that leads to them.
JoinInv ==
    /\ SequencerMatchesStatus
    /\ NoWaitWithoutSocket
    /\ JoinScanStarted
    /\ conn_state \in {"SET_SSID_SENT", "SET_PSK_SENT"} => net_id >= 0
=============================================================================
