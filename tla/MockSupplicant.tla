--------------------------- MODULE MockSupplicant ---------------------------
(***************************************************************************)
(* The mock wpa_supplicant daemon (tools/mock-wpa-supplicant.py): one      *)
(* thread that receives a command, handles it and sends the reply, and one *)
(* short-lived thread per delayed event.  The datagram queues of the two   *)
(* sockets are here as well; the kernel bounds both (net.unix.             *)
(* max_dgram_qlen).  A blocked sendto() of the daemon is a step that is    *)
(* not enabled.                                                            *)
(*                                                                         *)
(* A delayed event is fired 0.1 s or 0.3 s after the handler that          *)
(* scheduled it: later than the reply the same handler sends, otherwise at *)
(* any time.                                                               *)
(***************************************************************************)
EXTENDS WpaCtrl, FiniteSets

CONSTANTS
    Paths,         \* client socket paths, /tmp/qemu_wifi_<pid>_<fd>
    QueueMax,      \* datagrams the kernel queues on one socket
    MaxNets,       \* bound: networks ADD_NETWORK creates
    MaxDelayed,    \* bound: delayed events of a kind in flight
    MockIp, MockAp \* --ip and the record of the fake access point

ASSUME QueueAssumption == QueueMax \in Nat \ {0}
ASSUME MockAssumption  == MockIp \in Subnets /\ MockAp \in Aps
ASSUME PathAssumption  == Nothing \notin Paths
ASSUME MockBoundAssumption == MaxNets \in Nat /\ MaxDelayed \in Nat

\* What the daemon answers is among what the device can parse: the ids it gives
\* and the one line of its scan results.
ASSUME MockAnswersAssumption == 0..(MaxNets - 1) \subseteq NetIds /\ 1 \in DumpSizes

VARIABLES
    cmd_q,        \* datagrams queued on the daemon's socket: [from, cmd]
    client_path,  \* the path the device's socket is bound to, or Nothing
    client_q,     \* datagrams queued on the device's socket
    running,      \* the daemon runs
    attached,     \* _attached_clients
    net_counter,  \* _net_counter
    networks,     \* _networks: id -> the SSID and passphrase set so far
    delayed       \* number of _delayed_event() threads sleeping, by event

queueVars == <<cmd_q, client_path, client_q>>
mockVars  == <<running, attached, net_counter, networks, delayed>>

Delayable == {"EV_SCAN_RESULTS", "EV_CONNECTED"}
Network   == [ssid : Creds \cup {Nothing, "unset"}, psk : Creds \cup {Nothing, "unset"}]

MockTypeOK ==
    /\ cmd_q \in Seq([from : Paths, cmd : Cmds]) /\ Len(cmd_q) <= QueueMax
    /\ client_path \in Paths \cup {Nothing}
    /\ client_q \in Seq(Msgs) /\ Len(client_q) <= QueueMax
    /\ running \in BOOLEAN
    /\ attached \subseteq Paths
    /\ net_counter \in 0..MaxNets
    /\ DOMAIN networks = 0..(net_counter - 1)
    /\ \A n \in DOMAIN networks : networks[n] \in Network
    /\ delayed \in [Delayable -> 0..MaxDelayed]

NoDelayed == [e \in Delayable |-> 0]

\* start(): also the state of a daemon that was stopped and started again.
MockInit ==
    /\ cmd_q = <<>> /\ client_path = Nothing /\ client_q = <<>>
    /\ running = TRUE
    /\ attached = {}
    /\ net_counter = 0
    /\ networks = << >>
    /\ delayed = NoDelayed

\* _send_to(): to the socket now bound to path p, if any; else ENOENT.
CanSendTo(p)    == p # client_path \/ Len(client_q) < QueueMax
SendTo(p, msg)  == client_q' = IF p = client_path THEN Append(client_q, msg) ELSE client_q

Reply(p, kind)  == SendTo(p, [kind |-> kind])

\* ---- _handle() and the reply of _run() ------------------------------------

HandleAttach(p) ==
    /\ attached' = attached \cup {p}
    /\ Reply(p, "OK")
    /\ UNCHANGED <<net_counter, networks, delayed>>

HandleDetach(p) ==
    /\ attached' = attached \ {p}
    /\ Reply(p, "OK")
    /\ UNCHANGED <<net_counter, networks, delayed>>

\* SCAN and SELECT_NETWORK start a thread that broadcasts evt later.
HandleDelayed(p, evt) ==
    /\ delayed[evt] < MaxDelayed
    /\ delayed' = [delayed EXCEPT ![evt] = @ + 1]
    /\ Reply(p, "OK")
    /\ UNCHANGED <<attached, net_counter, networks>>

HandleScanResults(p) ==
    /\ SendTo(p, [kind |-> "DUMP", n |-> 1])
    /\ UNCHANGED <<attached, net_counter, networks, delayed>>

\* Mutant: the counter is increased before it is used as the id.
HandleAddNetworkFromOne(p) ==
    /\ net_counter < MaxNets
    /\ net_counter' = net_counter + 1
    /\ networks' = [n \in (DOMAIN networks) \cup {net_counter'} |->
                       IF n = net_counter' THEN [ssid |-> "unset", psk |-> "unset"]
                       ELSE networks[n]]
    /\ SendTo(p, [kind |-> "ID", id |-> net_counter'])
    /\ UNCHANGED <<attached, delayed>>

HandleAddNetwork(p) ==
    /\ net_counter < MaxNets
    /\ net_counter' = net_counter + 1
    /\ networks' = [n \in 0..net_counter |->
                       IF n = net_counter THEN [ssid |-> "unset", psk |-> "unset"]
                       ELSE networks[n]]
    /\ SendTo(p, [kind |-> "ID", id |-> net_counter])
    /\ UNCHANGED <<attached, delayed>>

HandleSetNetwork(p, c) ==
    /\ IF c.id \in DOMAIN networks
       THEN /\ networks' = [networks EXCEPT
                               ![c.id] = IF c.cmd = "SET_SSID" THEN [@ EXCEPT !.ssid = c.val]
                                                               ELSE [@ EXCEPT !.psk = c.val]]
            /\ Reply(p, "OK")
       ELSE /\ Reply(p, "FAIL")
            /\ UNCHANGED networks
    /\ UNCHANGED <<attached, net_counter, delayed>>

HandleStatus(p) ==
    /\ SendTo(p, [kind |-> "STATUS", ip |-> MockIp, ap |-> MockAp])
    /\ UNCHANGED <<attached, net_counter, networks, delayed>>

\* Accepted without a CTRL-EVENT-DISCONNECTED.
HandleDisable(p) ==
    /\ Reply(p, "OK")
    /\ UNCHANGED <<attached, net_counter, networks, delayed>>

Handle(p, c) ==
    \/ c.cmd = "ATTACH" /\ HandleAttach(p)
    \/ c.cmd = "DETACH" /\ HandleDetach(p)
    \/ c.cmd = "SCAN" /\ HandleDelayed(p, "EV_SCAN_RESULTS")
    \/ c.cmd = "SCAN_RESULTS" /\ HandleScanResults(p)
    \/ c.cmd = "ADD_NETWORK" /\ HandleAddNetwork(p)
    \/ c.cmd \in {"SET_SSID", "SET_PSK"} /\ HandleSetNetwork(p, c)
    \/ c.cmd = "SELECT_NETWORK" /\ HandleDelayed(p, "EV_CONNECTED")
    \/ c.cmd = "STATUS" /\ HandleStatus(p)
    \/ c.cmd = "DISABLE_NETWORK" /\ HandleDisable(p)

\* _run(): one datagram.
MockServe ==
    /\ running
    /\ cmd_q # <<>>
    /\ CanSendTo(Head(cmd_q).from)
    /\ Handle(Head(cmd_q).from, Head(cmd_q).cmd)
    /\ cmd_q' = Tail(cmd_q)
    /\ UNCHANGED <<client_path, running>>

\* _fire() -> _broadcast_event().
MockFire(evt) ==
    /\ running
    /\ delayed[evt] > 0
    /\ \A p \in attached : CanSendTo(p)
    /\ delayed' = [delayed EXCEPT ![evt] = @ - 1]
    /\ client_q' = IF client_path \in attached
                   THEN Append(client_q, [kind |-> evt]) ELSE client_q
    /\ UNCHANGED <<cmd_q, client_path, running, attached, net_counter, networks>>

\* stop(), and start() of a new process: nothing of the old one survives.
MockStop ==
    /\ running
    /\ running' = FALSE
    /\ cmd_q' = <<>>
    /\ delayed' = NoDelayed
    /\ attached' = {}
    /\ net_counter' = 0
    /\ networks' = << >>
    /\ UNCHANGED <<client_path, client_q>>

MockStart ==
    /\ ~running
    /\ running' = TRUE
    /\ UNCHANGED <<queueVars, attached, net_counter, networks, delayed>>

MockStep == MockServe \/ \E evt \in Delayable : MockFire(evt)
=============================================================================
