------------------------------ MODULE WifiLink ------------------------------
(***************************************************************************)
(* The device and the mock daemon joined by their datagram sockets, under  *)
(* a guest that may write any command at any time.                         *)
(*                                                                         *)
(* A command leaves the device through a non-blocking send(): it is lost   *)
(* when the daemon's queue is full or the daemon it was connected to is    *)
(* gone.  The packet relay is not configured here, and no interrupt is     *)
(* enabled (the firmware polls).                                           *)
(***************************************************************************)
EXTENDS EspWifiCtrl, MockSupplicant

CONSTANTS
    GuestMax,     \* bound: guest writes other than acknowledgements
    InitMax,      \* bound: WIFI_CMD_INIT among them
    StopMax       \* bound: stops of the daemon

ASSUME LinkBoundAssumption == {GuestMax, InitMax} \subseteq Nat /\ StopMax \in Nat

VARIABLES
    linked,      \* the device's socket is connected to the daemon now running
    guest_left,  \* guest writes left
    inits_left,  \* WIFI_CMD_INIT left
    stops_left   \* stops of the daemon left

budgetVars == <<guest_left, inits_left, stops_left>>
linkVars   == <<devVars, queueVars, mockVars, linked, budgetVars>>

LinkTypeOK ==
    /\ MockTypeOK
    /\ linked \in BOOLEAN
    /\ guest_left \in 0..GuestMax /\ inits_left \in 0..InitMax /\ stops_left \in 0..StopMax

LinkInit ==
    /\ Init
    /\ MockInit
    /\ linked = FALSE
    /\ guest_left = GuestMax /\ inits_left = InitMax /\ stops_left = StopMax

\* ---- The device's end of the socket ---------------------------------------

\* The daemon's queue after non-blocking sends of cs from path p.
Enqueue(q, p, cs) ==
    LET all == q \o [i \in 1..Len(cs) |-> [from |-> p, cmd |-> cs[i]]]
    IN  SubSeq(all, 1, IF Len(all) < QueueMax THEN Len(all) ELSE QueueMax)

\* What a step sends on the open socket goes to the daemon, if still there.
Transmit == cmd_q' = IF linked THEN Enqueue(cmd_q, client_path, sent') ELSE cmd_q

KeepSocket == client_path' = client_path /\ linked' = linked

\* close(): datagrams not read yet are gone, commands already queued are not.
DropSocket == client_path' = Nothing /\ client_q' = <<>> /\ linked' = FALSE

\* connect() fails while the daemon is down.
LinkInitUnreachable ==
    /\ ~running
    /\ InitUnreachable
    /\ Transmit
    /\ DropSocket

\* Mutant: the old socket is closed after the new one has attached.
LinkInitConnectedFirst(p) ==
    LET q == Enqueue(cmd_q, p, <<Plain("ATTACH")>>)
    IN  /\ running
        /\ InitConnected(Len(cmd_q) < QueueMax)
        /\ cmd_q' = IF linked THEN Enqueue(q, client_path, Detach) ELSE q
        /\ client_path' = p /\ client_q' = <<>> /\ linked' = TRUE

\* The daemon's queue once the old socket, if there is one, has sent DETACH.
Detached == IF linked THEN Enqueue(cmd_q, client_path, Detach) ELSE cmd_q

\* DETACH goes out on the old socket, ATTACH on the new one.  The descriptor
\* just closed is the lowest free one, so the path may well be the same.
LinkInitConnected(p) ==
    /\ running
    /\ InitConnected(Len(Detached) < QueueMax)
    /\ cmd_q' = Enqueue(Detached, p, <<Plain("ATTACH")>>)
    /\ client_path' = p /\ client_q' = <<>> /\ linked' = TRUE

LinkClose == (CmdDeinit \/ Reset) /\ Transmit /\ DropSocket

\* Commands that leave the socket as it is.
LinkCmd ==
    /\ CmdAcknowledged \/ CmdStart \/ CmdStop \/ CmdConnect(FALSE) \/ CmdDisconnect \/ CmdScan
    /\ Transmit
    /\ KeepSocket /\ UNCHANGED client_q

LinkConfig ==
    /\ \E c \in Creds : WriteSsid(c) \/ WritePass(c)
    /\ UNCHANGED <<queueVars, linked>>

LinkAck ==
    /\ event # NoEvent
    /\ AckEvent
    /\ UNCHANGED <<queueVars, linked>>

\* The GLib watch fires with one datagram.
LinkRead ==
    /\ client_q # <<>>
    /\ CtrlRead(Head(client_q))
    /\ client_q' = Tail(client_q)
    /\ Transmit
    /\ KeepSocket

\* The watch can report an error only when the peer is gone.
LinkHup ==
    /\ ~linked
    /\ CtrlHup
    /\ UNCHANGED <<queueVars, linked>>

LinkTimer == GotIpTimer /\ UNCHANGED <<queueVars, linked>>

-----------------------------------------------------------------------------

LinkGuestInit ==
    /\ inits_left > 0
    /\ inits_left' = inits_left - 1
    /\ LinkInitUnreachable \/ \E p \in Paths : LinkInitConnected(p)

LinkGuest ==
    /\ guest_left > 0
    /\ guest_left' = guest_left - 1
    /\ \/ LinkGuestInit
       \/ /\ LinkClose \/ LinkCmd \/ LinkConfig
          /\ UNCHANGED inits_left
    /\ UNCHANGED <<mockVars, stops_left>>

LinkDevice ==
    /\ LinkAck \/ LinkRead \/ LinkHup \/ LinkTimer
    /\ UNCHANGED <<mockVars, budgetVars>>

LinkDaemon ==
    /\ MockStep
    /\ UNCHANGED <<devVars, linked, budgetVars>>

LinkDaemonStop ==
    /\ stops_left > 0
    /\ MockStop
    /\ linked' = FALSE
    /\ stops_left' = stops_left - 1
    /\ UNCHANGED <<devVars, guest_left, inits_left>>

LinkDaemonStart == MockStart /\ UNCHANGED <<devVars, linked, budgetVars>>

LinkNext == LinkGuest \/ LinkDevice \/ LinkDaemon \/ LinkDaemonStop \/ LinkDaemonStart

LinkSpec == LinkInit /\ [][LinkNext]_linkVars

\* The daemon and QEMU's main loop keep running; the guest may stop at any time.
LinkFairness ==
    /\ WF_linkVars(LinkDaemon)
    /\ WF_linkVars(LinkRead /\ UNCHANGED <<mockVars, budgetVars>>)
    /\ WF_linkVars(LinkTimer /\ UNCHANGED <<mockVars, budgetVars>>)

FairLinkSpec == LinkSpec /\ LinkFairness

-----------------------------------------------------------------------------
\* ---- Properties -----------------------------------------------------------

\* What the firmware of the station believes is what the daemon will know: once
\* the device takes commands (it is past ATTACH), the socket it is bound to is
\* registered for events, or an ATTACH of it is the last of its ATTACH and
\* DETACH datagrams still queued.  A late reply of an earlier socket with the
\* same path may be taken for the answer to ATTACH, and a second INIT queues a
\* DETACH behind it.
Subscriptions == {i \in DOMAIN cmd_q : /\ cmd_q[i].from = client_path
                                       /\ cmd_q[i].cmd.cmd \in {"ATTACH", "DETACH"}}

Subscribed ==
    \/ Subscriptions = {} /\ client_path \in attached
    \/ \E last \in Subscriptions : /\ cmd_q[last].cmd.cmd = "ATTACH"
                                  /\ \A i \in Subscriptions : i <= last

SubscriptionSurvives == linked /\ conn_state \notin {"NONE", "ATTACH_SENT"} => Subscribed

\* conn_state waits for a datagram.
Waiting == conn_state \notin {"NONE", "IDLE", "CONNECTED"}

\* The device has no time-out: what ends a wait is a datagram.  While its daemon
\* stays up and no queue overflows, the sequencer always comes to rest or reports
\* the failure, whatever commands were mixed into the join and whichever replies
\* were taken for others.
SequencerRests == Waiting ~> (~Waiting \/ status = "ERROR" \/ ~linked)

=============================================================================
