--------------------------- MODULE WifiLinkProofs ---------------------------
(***************************************************************************)
(* Proofs about the device and the mock daemon joined by their datagram    *)
(* sockets, for queues of any length, any number of networks and client    *)
(* paths, and a guest that writes, and an operator that stops the daemon,  *)
(* any number of times.                                                    *)
(*                                                                         *)
(* The second half, from "The firmware on top" on, puts the station        *)
(* firmware in the place of that guest.  Its invariant is Works; the       *)
(* relations on two queues it is made of (Settled, Outstands, NoScan, ...) *)
(* come first, with a lemma for each thing a step does to the queues, and  *)
(* one lemma per action of the station follows.                            *)
(***************************************************************************)
EXTENDS WifiStation, EspWifiCtrlProofs, StreamFacts

\* A datagram on the daemon's socket, with the path it came from.
Datagrams == [from : Paths, cmd : Cmds]

\* A connected socket is bound to a path.
LinkedBound == linked => client_path \in Paths

\* The inductive invariant for the types of the device, of the daemon and of
\* what is between them.
LinkTypes == TypeOK /\ LinkTypeOK /\ LinkedBound

\* ---- The queue of the daemon ----------------------------------------------

\* The non-blocking sends leave what is queued in place, append what fits, in
\* order and under the path of the sender, and stop at the bound of the queue.
LEMMA Enqueued ==
  ASSUME NEW q \in Seq(Datagrams), Len(q) <= QueueMax, NEW p \in Paths, NEW cs \in Seq(Cmds),
         NEW r, r = Enqueue(q, p, cs)
  PROVE  /\ r \in Seq(Datagrams)
         /\ Len(q) <= Len(r) /\ Len(r) <= QueueMax
         /\ \A i \in 1..Len(q) : r[i] = q[i]
         /\ \A i \in 1..Len(r) :
               i > Len(q) => /\ i - Len(q) \in 1..Len(cs)
                             /\ r[i] = [from |-> p, cmd |-> cs[i - Len(q)]]
         /\ Len(q) + Len(cs) <= QueueMax => Len(r) = Len(q) + Len(cs)
  <1> DEFINE new == [i \in 1..Len(cs) |-> [from |-> p, cmd |-> cs[i]]]
             all == q \o new
             n   == IF Len(all) < QueueMax THEN Len(all) ELSE QueueMax
  <1>1. \A i \in 1..Len(cs) : cs[i] \in Cmds
    OBVIOUS
  <1>2. \A i \in 1..Len(cs) : [from |-> p, cmd |-> cs[i]] \in Datagrams
    BY <1>1 DEF Datagrams
  <1>3. /\ new \in Seq(Datagrams) /\ Len(new) = Len(cs)
        /\ \A i \in 1..Len(cs) : new[i] = [from |-> p, cmd |-> cs[i]]
    BY <1>2
  <1> HIDE DEF new
  <1>4. /\ all \in Seq(Datagrams) /\ Len(all) = Len(q) + Len(cs)
        /\ \A i \in 1..Len(q) : all[i] = q[i]
        /\ \A i \in 1..Len(cs) : all[Len(q) + i] = new[i]
    BY <1>3
  <1>5. Len(q) \in Nat /\ Len(cs) \in Nat /\ QueueMax \in Nat
    BY QueueAssumption
  <1> HIDE DEF all
  <1>6. n \in 0..Len(all) /\ Len(q) <= n /\ n <= QueueMax
        /\ (Len(q) + Len(cs) <= QueueMax => n = Len(q) + Len(cs))
    <2>1. Len(all) = Len(q) + Len(cs) /\ Len(q) <= QueueMax
      BY <1>4
    <2> QED BY ONLY <1>5, <2>1
  <1>7. r = SubSeq(all, 1, n)
    BY DEF Enqueue, all, new
  <1> HIDE DEF n
  <1>8. /\ r \in Seq(Datagrams) /\ Len(r) = n
        /\ \A i \in 1..n : r[i] = all[i]
    BY <1>4, <1>6, <1>7, Parts
  <1>9. ASSUME NEW i \in 1..Len(r), i > Len(q)
        PROVE  /\ i - Len(q) \in 1..Len(cs)
               /\ r[i] = [from |-> p, cmd |-> cs[i - Len(q)]]
    <2>1. i \in 1..n /\ i - Len(q) \in 1..Len(cs) /\ i = Len(q) + (i - Len(q))
      BY <1>4, <1>5, <1>6, <1>8, <1>9
    <2>2. r[i] = all[i] /\ all[i] = new[i - Len(q)]
      BY <1>4, <1>8, <2>1
    <2> QED BY <1>3, <2>1, <2>2
  <1>10. \A i \in 1..Len(q) : r[i] = q[i]
    BY <1>4, <1>5, <1>6, <1>8
  <1> QED BY <1>5, <1>6, <1>8, <1>9, <1>10

\* ---- The device on its socket is a device ---------------------------------

\* What a write of the guest does to the device and to its socket.
GuestMove ==
    \/ LinkInitUnreachable
    \/ \E p \in Paths : LinkInitConnected(p)
    \/ LinkClose
    \/ LinkCmd
    \/ LinkConfig
    \/ AckEvent /\ UNCHANGED <<queueVars, linked>>

LEMMA GuestMoves == LinkGuest => GuestMove
  BY DEF LinkGuest, LinkGuestInit, GuestMove

\* Every step of the composition moves the device by one of its own steps, on
\* an input the device can have, or leaves it alone.
LEMMA GuestIsGuest == GuestMove => Guest \/ Reset
  <1> USE DEF Guest
  <1> SUFFICES ASSUME GuestMove PROVE Guest \/ Reset
    OBVIOUS
  <1>1. CASE LinkInitUnreachable
    BY <1>1 DEF LinkInitUnreachable
  <1>2. ASSUME NEW p \in Paths, LinkInitConnected(p) PROVE Guest
    <2>1. (Len(Detached) < QueueMax) \in BOOLEAN
      OBVIOUS
    <2> QED BY <1>2, <2>1 DEF LinkInitConnected
  <1>3. CASE LinkClose
    BY <1>3 DEF LinkClose
  <1>4. CASE LinkCmd
    BY <1>4 DEF LinkCmd
  <1>5. CASE LinkConfig
    BY <1>5 DEF LinkConfig
  <1>6. CASE AckEvent
    BY <1>6
  <1> QED BY <1>1, <1>2, <1>3, <1>4, <1>5, <1>6 DEF GuestMove

LEMMA DeviceIsDevice == LinkTypes /\ LinkDevice => Next
  <1> USE DEF Next, Guest, Host
  <1> SUFFICES ASSUME LinkTypes, LinkDevice PROVE Next
    OBVIOUS
  <1>1. CASE LinkAck
    BY <1>1 DEF LinkAck
  <1>2. CASE LinkRead
    <2>1. client_q \in Seq(Msgs) /\ client_q # <<>>
      BY <1>2 DEF LinkTypes, LinkTypeOK, MockTypeOK, LinkRead
    <2>2. Head(client_q) \in Msgs
      BY ONLY <2>1
    <2> QED BY <1>2, <2>2 DEF LinkRead
  <1>3. CASE LinkHup \/ LinkTimer
    BY <1>3 DEF LinkHup, LinkTimer
  <1> QED BY <1>1, <1>2, <1>3 DEF LinkDevice

LEMMA LinkIsDevice == LinkTypes /\ [LinkNext]_linkVars => [Next]_devVars
  <1> SUFFICES ASSUME LinkTypes, [LinkNext]_linkVars PROVE [Next]_devVars
    OBVIOUS
  <1>1. CASE LinkGuest
    BY <1>1, GuestMoves, GuestIsGuest DEF Next, Host
  <1>2. CASE LinkDevice
    BY <1>2, DeviceIsDevice
  <1>3. CASE LinkDaemon \/ LinkDaemonStop \/ LinkDaemonStart
    BY <1>3 DEF LinkDaemon, LinkDaemonStop, LinkDaemonStart
  <1>4. CASE UNCHANGED linkVars
    BY <1>4 DEF linkVars
  <1> QED BY <1>1, <1>2, <1>3, <1>4 DEF LinkNext

\* ---- Types of the daemon and of the queues --------------------------------

\* The part of MockTypeOK about the queues, and the one about the daemon.
QueueTypes ==
  /\ cmd_q \in Seq(Datagrams) /\ Len(cmd_q) <= QueueMax
  /\ client_path \in Paths \cup {Nothing}
  /\ client_q \in Seq(Msgs) /\ Len(client_q) <= QueueMax

DaemonTypes ==
  /\ running \in BOOLEAN
  /\ attached \subseteq Paths
  /\ net_counter \in 0..MaxNets
  /\ DOMAIN networks = 0..(net_counter - 1)
  /\ \A n \in DOMAIN networks : networks[n] \in Network
  /\ delayed \in [Delayable -> 0..MaxDelayed]

BudgetTypes ==
  guest_left \in 0..GuestMax /\ inits_left \in 0..InitMax /\ stops_left \in 0..StopMax

LEMMA TypesSplit ==
  LinkTypeOK <=> QueueTypes /\ DaemonTypes /\ linked \in BOOLEAN /\ BudgetTypes
  BY DEF LinkTypeOK, MockTypeOK, QueueTypes, DaemonTypes, BudgetTypes, Datagrams

\* Reading a datagram leaves a shorter queue of the same kind.
LEMMA Dequeued ==
  ASSUME NEW S, NEW q \in Seq(S), q # <<>>
  PROVE  /\ Head(q) \in S /\ Head(q) = q[1] /\ 1 \in 1..Len(q)
         /\ Tail(q) \in Seq(S) /\ Len(q) \in Nat /\ Len(Tail(q)) = Len(q) - 1
         /\ \A i \in 1..(Len(q) - 1) : Tail(q)[i] = q[i + 1]
  OBVIOUS

\* A reply or an event reaches the queue of the device's socket, if the path is
\* still that of its socket and the queue has room.
LEMMA Sent ==
  ASSUME QueueTypes, NEW p, CanSendTo(p), NEW msg \in Msgs, SendTo(p, msg)
  PROVE  client_q' \in Seq(Msgs) /\ Len(client_q') <= QueueMax
  <1>1. CASE p # client_path
    BY <1>1 DEF SendTo, QueueTypes
  <1>2. CASE p = client_path
    <2>1. client_q \in Seq(Msgs) /\ Len(client_q) < QueueMax
      BY <1>2 DEF QueueTypes, CanSendTo
    <2>2. client_q' = Append(client_q, msg)
      BY <1>2 DEF SendTo
    <2>3. Len(client_q) \in Nat /\ QueueMax \in Nat
      BY <2>1, QueueAssumption
    <2>4. Append(client_q, msg) \in Seq(Msgs) /\ Len(Append(client_q, msg)) = Len(client_q) + 1
      BY <2>1
    <2> QED BY <2>1, <2>2, <2>3, <2>4
  <1> QED BY <1>1, <1>2

\* Every answer of the daemon is one the device can parse.
LEMMA AnswersParse ==
  /\ \A k \in {"OK", "FAIL"} : [kind |-> k] \in Msgs
  /\ \A e \in Delayable : [kind |-> e] \in Msgs
  /\ [kind |-> "DUMP", n |-> 1] \in Msgs
  /\ \A id \in NetIds : [kind |-> "ID", id |-> id] \in Msgs
  /\ [kind |-> "STATUS", ip |-> MockIp, ap |-> MockAp] \in Msgs
  BY MockAssumption, MockAnswersAssumption DEF Msgs, Replies, CtrlEvents, Delayable

\* ---- Each command of the daemon keeps the types ---------------------------

LEMMA HandleTypes ==
  ASSUME QueueTypes, DaemonTypes, NEW p \in Paths, CanSendTo(p), NEW c \in Cmds, Handle(p, c)
  PROVE  /\ client_q' \in Seq(Msgs) /\ Len(client_q') <= QueueMax
         /\ attached' \subseteq Paths
         /\ net_counter' \in 0..MaxNets
         /\ DOMAIN networks' = 0..(net_counter' - 1)
         /\ \A n \in DOMAIN networks' : networks'[n] \in Network
         /\ delayed' \in [Delayable -> 0..MaxDelayed]
  <1> DEFINE Arrived == client_q' \in Seq(Msgs) /\ Len(client_q') <= QueueMax
             Nets == /\ net_counter' \in 0..MaxNets
                     /\ DOMAIN networks' = 0..(net_counter' - 1)
                     /\ \A n \in DOMAIN networks' : networks'[n] \in Network
             Rest == attached' \subseteq Paths /\ delayed' \in [Delayable -> 0..MaxDelayed]
             Goal == Arrived /\ Nets /\ Rest
  <1> SUFFICES Goal
    OBVIOUS
  <1>a. \A msg \in Msgs : SendTo(p, msg) => Arrived
    BY Sent
  <1>b. \A k \in {"OK", "FAIL"} : Reply(p, k) => Arrived
    BY <1>a, AnswersParse DEF Reply
  <1>n. UNCHANGED <<net_counter, networks>> => Nets
    BY DEF DaemonTypes
  <1>r. UNCHANGED <<attached, delayed>> => Rest
    BY DEF DaemonTypes
  <1>d. attached \subseteq Paths /\ delayed \in [Delayable -> 0..MaxDelayed]
    BY DEF DaemonTypes
  <1> HIDE DEF Arrived, Nets, Rest
  <1>1. CASE HandleAttach(p) \/ HandleDetach(p)
    <2>1. Arrived
      BY <1>1, <1>b DEF HandleAttach, HandleDetach
    <2>2. Nets
      BY <1>1, <1>n DEF HandleAttach, HandleDetach
    <2>3. Rest
      BY <1>1, <1>d DEF HandleAttach, HandleDetach, Rest
    <2> QED BY <2>1, <2>2, <2>3
  <1>2. ASSUME NEW e \in Delayable, HandleDelayed(p, e) PROVE Goal
    <2>1. Arrived
      BY <1>2, <1>b DEF HandleDelayed
    <2>2. Nets
      BY <1>2, <1>n DEF HandleDelayed
    <2>3. delayed' \in [Delayable -> 0..MaxDelayed]
      <3>1. delayed[e] \in 0..MaxDelayed /\ delayed[e] < MaxDelayed
        BY <1>2, <1>d DEF HandleDelayed
      <3>2. delayed[e] + 1 \in 0..MaxDelayed
        BY ONLY <3>1, MockBoundAssumption
      <3>3. delayed' = [delayed EXCEPT ![e] = delayed[e] + 1]
        BY <1>2 DEF HandleDelayed
      <3> QED BY <1>d, <3>2, <3>3
    <2>4. Rest
      BY <1>2, <1>d, <2>3 DEF HandleDelayed, Rest
    <2> QED BY <2>1, <2>2, <2>4
  <1>3. CASE HandleScanResults(p)
    <2>1. Arrived
      BY <1>3, <1>a, AnswersParse DEF HandleScanResults
    <2> QED BY <1>3, <1>n, <1>r, <2>1 DEF HandleScanResults
  <1>4. CASE HandleAddNetwork(p)
    <2>1. net_counter \in 0..MaxNets /\ net_counter < MaxNets
      BY <1>4 DEF HandleAddNetwork, DaemonTypes
    <2>2. net_counter \in 0..(MaxNets - 1) /\ net_counter + 1 \in 0..MaxNets
          /\ (net_counter + 1) - 1 = net_counter
      BY ONLY <2>1, MockBoundAssumption
    <2>3. Arrived
      <3>1. net_counter \in NetIds
        BY <2>2, MockAnswersAssumption
      <3> QED BY <1>4, <1>a, <3>1, AnswersParse DEF HandleAddNetwork
    <2>4. net_counter' = net_counter + 1 /\ DOMAIN networks' = 0..net_counter
      BY <1>4 DEF HandleAddNetwork
    <2>5. DOMAIN networks' = 0..(net_counter' - 1)
      BY <2>2, <2>4
    <2>6. ASSUME NEW n \in 0..net_counter PROVE networks'[n] \in Network
      <3>1. networks'[n] = IF n = net_counter THEN [ssid |-> "unset", psk |-> "unset"]
                                              ELSE networks[n]
        BY <1>4 DEF HandleAddNetwork
      <3>2. n # net_counter => n \in 0..(net_counter - 1)
        BY ONLY <2>1, n \in 0..net_counter, MockBoundAssumption
      <3>3. [ssid |-> "unset", psk |-> "unset"] \in Network
        BY DEF Network
      <3> QED BY <3>1, <3>2, <3>3 DEF DaemonTypes
    <2>7. Nets
      BY <2>2, <2>4, <2>5, <2>6 DEF Nets
    <2> QED BY <1>4, <1>r, <2>3, <2>7 DEF HandleAddNetwork
  <1>5. CASE HandleSetNetwork(p, c) /\ c.cmd \in {"SET_SSID", "SET_PSK"}
    <2>1. Arrived
      BY <1>5, <1>b DEF HandleSetNetwork
    <2>2. CASE c.id \in DOMAIN networks
      <3>1. c.val \in Creds \cup {Nothing}
        BY DEF Cmds
      <3>2. networks[c.id] \in Network
        BY <2>2 DEF DaemonTypes
      <3>3. /\ [networks[c.id] EXCEPT !.ssid = c.val] \in Network
            /\ [networks[c.id] EXCEPT !.psk = c.val] \in Network
        BY <3>1, <3>2 DEF Network
      <3>4. PICK net \in Network : networks' = [networks EXCEPT ![c.id] = net]
        BY <1>5, <2>2, <3>3 DEF HandleSetNetwork
      <3>5. DOMAIN networks' = DOMAIN networks
            /\ \A n \in DOMAIN networks' : networks'[n] = IF n = c.id THEN net ELSE networks[n]
        BY <3>4
      <3>6. net_counter' = net_counter
        BY <1>5 DEF HandleSetNetwork
      <3>7. Nets
        BY <3>5, <3>6 DEF DaemonTypes, Nets
      <3> QED BY <1>5, <1>r, <2>1, <3>7 DEF HandleSetNetwork
    <2>3. CASE c.id \notin DOMAIN networks
      BY <1>5, <1>n, <1>r, <2>1, <2>3 DEF HandleSetNetwork
    <2> QED BY <2>2, <2>3
  <1>6. CASE HandleStatus(p)
    <2>1. Arrived
      BY <1>6, <1>a, AnswersParse DEF HandleStatus
    <2> QED BY <1>6, <1>n, <1>r, <2>1 DEF HandleStatus
  <1>7. CASE HandleDisable(p)
    <2>1. Arrived
      BY <1>7, <1>b DEF HandleDisable
    <2> QED BY <1>7, <1>n, <1>r, <2>1 DEF HandleDisable
  <1>8. Goal
    <2>1. "EV_SCAN_RESULTS" \in Delayable /\ "EV_CONNECTED" \in Delayable
      BY DEF Delayable
    <2> HIDE DEF Goal
    <2> QED BY <1>1, <1>2, <1>3, <1>4, <1>5, <1>6, <1>7, <2>1, Handle(p, c) DEF Handle
  <1> QED BY <1>8

LEMMA ServeTypes == QueueTypes /\ DaemonTypes /\ MockServe => QueueTypes' /\ DaemonTypes'
  <1> SUFFICES ASSUME QueueTypes, DaemonTypes, MockServe PROVE QueueTypes' /\ DaemonTypes'
    OBVIOUS
  <1> DEFINE p == Head(cmd_q).from
             c == Head(cmd_q).cmd
  <1>1. cmd_q \in Seq(Datagrams) /\ cmd_q # <<>> /\ Len(cmd_q) <= QueueMax
    BY DEF QueueTypes, MockServe
  <1>2. /\ Head(cmd_q) \in Datagrams /\ Tail(cmd_q) \in Seq(Datagrams)
        /\ Len(cmd_q) \in Nat /\ Len(Tail(cmd_q)) = Len(cmd_q) - 1
    BY ONLY <1>1, Dequeued
  <1>3. p \in Paths /\ c \in Cmds
    BY <1>2 DEF Datagrams
  <1>4. CanSendTo(p) /\ Handle(p, c)
    BY DEF MockServe
  <1>5. /\ cmd_q' = Tail(cmd_q) /\ client_path' = client_path /\ running' = running
    BY DEF MockServe
  <1> HIDE DEF p, c
  <1>6. Len(cmd_q') <= QueueMax
    BY <1>1, <1>2, <1>5, QueueAssumption
  <1>7. /\ client_q' \in Seq(Msgs) /\ Len(client_q') <= QueueMax
        /\ attached' \subseteq Paths
        /\ net_counter' \in 0..MaxNets
        /\ DOMAIN networks' = 0..(net_counter' - 1)
        /\ \A n \in DOMAIN networks' : networks'[n] \in Network
        /\ delayed' \in [Delayable -> 0..MaxDelayed]
    BY <1>3, <1>4, HandleTypes
  <1>8. QueueTypes'
    BY <1>2, <1>5, <1>6, <1>7 DEF QueueTypes
  <1>9. DaemonTypes'
    BY <1>5, <1>7 DEF DaemonTypes
  <1> QED BY <1>8, <1>9

LEMMA FireTypes ==
  ASSUME QueueTypes, DaemonTypes, NEW e \in Delayable, MockFire(e)
  PROVE  QueueTypes' /\ DaemonTypes'
  <1>1. client_q' \in Seq(Msgs) /\ Len(client_q') <= QueueMax
    <2>1. CASE client_path \in attached
      <3>1. CanSendTo(client_path) /\ SendTo(client_path, [kind |-> e])
        BY <2>1 DEF MockFire, SendTo
      <3>2. [kind |-> e] \in Msgs
        BY AnswersParse
      <3> QED BY <3>1, <3>2, Sent
    <2>2. CASE client_path \notin attached
      BY <2>2 DEF MockFire, QueueTypes
    <2> QED BY <2>1, <2>2
  <1>2. delayed' \in [Delayable -> 0..MaxDelayed]
    <2>1. delayed \in [Delayable -> 0..MaxDelayed]
      BY DEF DaemonTypes
    <2>2. delayed[e] \in 0..MaxDelayed /\ delayed[e] > 0
      BY <2>1 DEF MockFire
    <2>3. delayed[e] - 1 \in 0..MaxDelayed
      BY ONLY <2>2, MockBoundAssumption
    <2>4. delayed' = [delayed EXCEPT ![e] = delayed[e] - 1]
      BY DEF MockFire
    <2> QED BY ONLY <2>1, <2>3, <2>4
  <1>3. QueueTypes'
    BY <1>1 DEF MockFire, QueueTypes
  <1>4. DaemonTypes'
    BY <1>2 DEF MockFire, DaemonTypes
  <1> QED BY <1>3, <1>4

\* A daemon that stops takes its queue and its state with it; one that starts
\* has the state of a new process.
LEMMA RestartTypes ==
  QueueTypes /\ DaemonTypes /\ (MockStop \/ MockStart) => QueueTypes' /\ DaemonTypes'
  <1> SUFFICES ASSUME QueueTypes, DaemonTypes, MockStop \/ MockStart
               PROVE  QueueTypes' /\ DaemonTypes'
    OBVIOUS
  <1>1. CASE MockStart
    BY <1>1 DEF MockStart, queueVars, QueueTypes, DaemonTypes
  <1>2. CASE MockStop
    <2>1. /\ cmd_q' = <<>> /\ client_path' = client_path /\ client_q' = client_q
          /\ running' = FALSE /\ attached' = {} /\ net_counter' = 0
          /\ networks' = << >> /\ delayed' = NoDelayed
      BY <1>2 DEF MockStop
    <2>2. QueueTypes'
      BY <2>1, QueueAssumption DEF QueueTypes
    <2>3. 0 \in 0..MaxNets /\ 0 \in 0..MaxDelayed
      BY MockBoundAssumption
    <2>5. DOMAIN << >> = {} /\ 0..(0 - 1) = {}
      OBVIOUS
    <2>6. NoDelayed \in [Delayable -> 0..MaxDelayed]
      BY ONLY <2>3 DEF NoDelayed
    <2>4. DaemonTypes'
      BY <2>1, <2>3, <2>5, <2>6 DEF DaemonTypes
    <2> QED BY <2>2, <2>4
  <1> QED BY <1>1, <1>2

\* ---- The device's side of the queues --------------------------------------

LEMMA TransmitTypes ==
  ASSUME QueueTypes, LinkedBound, sent' \in Seq(Cmds), Transmit
  PROVE  cmd_q' \in Seq(Datagrams) /\ Len(cmd_q') <= QueueMax
  <1>1. CASE linked
    <2>1. cmd_q' = Enqueue(cmd_q, client_path, sent') /\ client_path \in Paths
      BY <1>1 DEF Transmit, LinkedBound
    <2>2. cmd_q \in Seq(Datagrams) /\ Len(cmd_q) <= QueueMax
      BY DEF QueueTypes
    <2> QED BY <2>1, <2>2, Enqueued
  <1>2. CASE ~linked
    BY <1>2 DEF Transmit, QueueTypes
  <1> QED BY <1>1, <1>2

LEMMA DetachedTypes ==
  ASSUME QueueTypes, LinkedBound
  PROVE  Detached \in Seq(Datagrams) /\ Len(Detached) <= QueueMax
  <1>1. cmd_q \in Seq(Datagrams) /\ Len(cmd_q) <= QueueMax
    BY DEF QueueTypes
  <1>2. linked => client_path \in Paths
    BY DEF LinkedBound
  <1> QED BY <1>1, <1>2, DetachType, Enqueued DEF Detached

\* What a write of the guest does to the queues.
LEMMA GuestQueues ==
  ASSUME QueueTypes, LinkedBound, linked \in BOOLEAN, sent' \in Seq(Cmds), GuestMove
  PROVE  QueueTypes' /\ LinkedBound' /\ linked' \in BOOLEAN
  <1> DEFINE Goal == QueueTypes' /\ LinkedBound' /\ linked' \in BOOLEAN
  <1> SUFFICES Goal
    OBVIOUS
  <1>n. <<>> \in Seq(Msgs) /\ Len(<<>>) <= QueueMax
    BY QueueAssumption
  <1>d. ASSUME Transmit, DropSocket PROVE Goal
    <2>1. cmd_q' \in Seq(Datagrams) /\ Len(cmd_q') <= QueueMax
      BY <1>d, TransmitTypes
    <2> QED BY <1>d, <1>n, <2>1 DEF DropSocket, QueueTypes, LinkedBound
  <1>u. ASSUME UNCHANGED <<queueVars, linked>> PROVE Goal
    BY <1>u DEF queueVars, QueueTypes, LinkedBound
  <1>1. CASE LinkInitUnreachable
    BY <1>1, <1>d DEF LinkInitUnreachable
  <1>2. ASSUME NEW p \in Paths, LinkInitConnected(p) PROVE Goal
    <2>1. Detached \in Seq(Datagrams) /\ Len(Detached) <= QueueMax
      BY DetachedTypes
    <2>2. <<Plain("ATTACH")>> \in Seq(Cmds)
      BY PlainIsCmd DEF CmdNames
    <2>3. cmd_q' \in Seq(Datagrams) /\ Len(cmd_q') <= QueueMax
      BY <1>2, <2>1, <2>2, Enqueued DEF LinkInitConnected
    <2> QED BY <1>2, <1>n, <2>3 DEF LinkInitConnected, QueueTypes, LinkedBound
  <1>3. CASE LinkClose
    BY <1>3, <1>d DEF LinkClose
  <1>4. CASE LinkCmd
    <2>1. cmd_q' \in Seq(Datagrams) /\ Len(cmd_q') <= QueueMax
      BY <1>4, TransmitTypes DEF LinkCmd
    <2> QED BY <1>4, <2>1 DEF LinkCmd, KeepSocket, QueueTypes, LinkedBound
  <1>5. CASE LinkConfig
    BY <1>5, <1>u DEF LinkConfig
  <1>6. CASE AckEvent /\ UNCHANGED <<queueVars, linked>>
    BY <1>6, <1>u
  <1> HIDE DEF Goal
  <1> QED BY <1>1, <1>2, <1>3, <1>4, <1>5, <1>6, GuestMove DEF GuestMove

\* ... and a step of QEMU's main loop.
LEMMA DeviceQueues ==
  ASSUME QueueTypes, LinkedBound, linked \in BOOLEAN, sent' \in Seq(Cmds), LinkDevice
  PROVE  QueueTypes' /\ LinkedBound' /\ linked' \in BOOLEAN
  <1>u. ASSUME UNCHANGED <<queueVars, linked>>
        PROVE  QueueTypes' /\ LinkedBound' /\ linked' \in BOOLEAN
    BY <1>u DEF queueVars, QueueTypes, LinkedBound
  <1>1. CASE LinkAck \/ LinkHup \/ LinkTimer
    BY <1>1, <1>u DEF LinkAck, LinkHup, LinkTimer
  <1>2. CASE LinkRead
    <2>1. cmd_q' \in Seq(Datagrams) /\ Len(cmd_q') <= QueueMax
      BY <1>2, TransmitTypes DEF LinkRead
    <2>2. client_q \in Seq(Msgs) /\ client_q # <<>> /\ Len(client_q) <= QueueMax
      BY <1>2 DEF LinkRead, QueueTypes
    <2>3. Tail(client_q) \in Seq(Msgs) /\ Len(client_q) \in Nat
          /\ Len(Tail(client_q)) = Len(client_q) - 1
      BY ONLY <2>2, Dequeued
    <2>4. client_q' = Tail(client_q) /\ KeepSocket
      BY <1>2 DEF LinkRead
    <2>5. Len(client_q') <= QueueMax
      BY <2>2, <2>3, <2>4, QueueAssumption
    <2> QED BY <2>1, <2>3, <2>4, <2>5 DEF KeepSocket, QueueTypes, LinkedBound
  <1> QED BY <1>1, <1>2, LinkDevice DEF LinkDevice

\* ---- The types of the composition -----------------------------------------

LEMMA LinkTypesInit == LinkInit => LinkTypes
  <1> SUFFICES ASSUME LinkInit PROVE LinkTypes
    OBVIOUS
  <1>1. TypeOK
    BY InitType DEF LinkInit
  <1>2. QueueTypes
    BY QueueAssumption DEF LinkInit, MockInit, QueueTypes
  <1>3. DaemonTypes
    <2>1. 0 \in 0..MaxNets /\ 0 \in 0..MaxDelayed
      BY MockBoundAssumption
    <2>2. DOMAIN << >> = {} /\ 0..(0 - 1) = {}
      OBVIOUS
    <2>3. NoDelayed \in [Delayable -> 0..MaxDelayed]
      BY ONLY <2>1 DEF NoDelayed
    <2> QED BY <2>1, <2>2, <2>3 DEF LinkInit, MockInit, DaemonTypes
  <1>4. BudgetTypes
    BY LinkBoundAssumption DEF LinkInit, BudgetTypes
  <1>5. linked \in BOOLEAN /\ LinkedBound
    BY DEF LinkInit, LinkedBound
  <1> QED BY <1>1, <1>2, <1>3, <1>4, <1>5, TypesSplit DEF LinkTypes

\* The budgets only shrink, and never below nothing.
LEMMA BudgetStep == BudgetTypes /\ [LinkNext]_linkVars => BudgetTypes'
  <1> SUFFICES ASSUME BudgetTypes, [LinkNext]_linkVars PROVE BudgetTypes'
    OBVIOUS
  <1>1. CASE LinkGuest
    <2>1. /\ guest_left' = guest_left - 1 /\ guest_left > 0
          /\ stops_left' = stops_left
          /\ inits_left' = inits_left \/ (inits_left > 0 /\ inits_left' = inits_left - 1)
      BY <1>1 DEF LinkGuest, LinkGuestInit
    <2> QED BY <2>1, LinkBoundAssumption DEF BudgetTypes
  <1>2. CASE LinkDaemonStop
    <2>1. /\ guest_left' = guest_left /\ inits_left' = inits_left
          /\ stops_left > 0 /\ stops_left' = stops_left - 1
      BY <1>2 DEF LinkDaemonStop
    <2> QED BY <2>1, LinkBoundAssumption DEF BudgetTypes
  <1>3. CASE LinkDevice \/ LinkDaemon \/ LinkDaemonStart \/ UNCHANGED linkVars
    BY <1>3 DEF LinkDevice, LinkDaemon, LinkDaemonStart, linkVars, budgetVars, BudgetTypes
  <1> QED BY <1>1, <1>2, <1>3 DEF LinkNext

LEMMA LinkTypesStep == LinkTypes /\ [LinkNext]_linkVars => LinkTypes'
  <1> SUFFICES ASSUME LinkTypes, [LinkNext]_linkVars PROVE LinkTypes'
    OBVIOUS
  <1>t. QueueTypes /\ DaemonTypes /\ LinkedBound /\ linked \in BOOLEAN /\ BudgetTypes
    BY TypesSplit DEF LinkTypes
  <1>1. TypeOK'
    BY LinkIsDevice, NextType DEF LinkTypes
  <1>2. sent' \in Seq(Cmds)
    BY <1>1 DEF TypeOK
  <1>3. BudgetTypes'
    BY <1>t, BudgetStep
  <1> DEFINE Goal == QueueTypes' /\ DaemonTypes' /\ LinkedBound' /\ linked' \in BOOLEAN
  <1>4. Goal
    <2>4. CASE LinkGuest
      <3>1. DaemonTypes'
        BY <2>4, <1>t DEF LinkGuest, mockVars, DaemonTypes
      <3> QED BY <2>4, <1>t, <1>2, <3>1, GuestMoves, GuestQueues
    <2>5. CASE LinkDevice
      <3>1. DaemonTypes'
        BY <2>5, <1>t DEF LinkDevice, mockVars, DaemonTypes
      <3> QED BY <2>5, <1>t, <1>2, <3>1, DeviceQueues
    <2>6. CASE LinkDaemon
      <3>1. QueueTypes' /\ DaemonTypes'
        BY <2>6, <1>t, ServeTypes, FireTypes DEF LinkDaemon, MockStep
      <3>2. client_path' = client_path /\ linked' = linked
        BY <2>6 DEF LinkDaemon, MockStep, MockServe, MockFire
      <3> QED BY <1>t, <3>1, <3>2 DEF LinkedBound
    <2>7. CASE LinkDaemonStop
      <3>1. QueueTypes' /\ DaemonTypes'
        BY <2>7, <1>t, RestartTypes DEF LinkDaemonStop
      <3> QED BY <2>7, <3>1 DEF LinkDaemonStop, LinkedBound
    <2>8. CASE LinkDaemonStart
      <3>1. QueueTypes' /\ DaemonTypes'
        BY <2>8, <1>t, RestartTypes DEF LinkDaemonStart
      <3>2. client_path' = client_path /\ linked' = linked
        BY <2>8 DEF LinkDaemonStart, MockStart, queueVars
      <3> QED BY <1>t, <3>1, <3>2 DEF LinkedBound
    <2>9. CASE UNCHANGED linkVars
      BY <2>9, <1>t DEF linkVars, queueVars, mockVars, QueueTypes, DaemonTypes, LinkedBound
    <2> HIDE DEF Goal
    <2> QED BY <2>4, <2>5, <2>6, <2>7, <2>8, <2>9 DEF LinkNext
  <1>5. LinkTypeOK'
    BY <1>3, <1>4 DEF LinkTypeOK, MockTypeOK, QueueTypes, DaemonTypes, BudgetTypes, Datagrams
  <1> QED BY <1>1, <1>4, <1>5 DEF LinkTypes

\* In every state of the composition the queues hold commands and answers of
\* the interface, within the kernel's bound, and the daemon's tables are whole.
THEOREM LinkTypeCorrect == LinkSpec => []LinkTypeOK
  <1>1. LinkSpec => []LinkTypes
    BY LinkTypesInit, LinkTypesStep, PTL DEF LinkSpec
  <1>2. LinkTypes => LinkTypeOK
    BY DEF LinkTypes
  <1> QED BY <1>1, <1>2, PTL

\* The device between its sockets does what the open device may do: the
\* theorems about EspWifiCtrl hold of it.
THEOREM LinkImplementsDevice == LinkSpec => Spec
  <1>1. LinkSpec => []LinkTypes
    BY LinkTypesInit, LinkTypesStep, PTL DEF LinkSpec
  <1>2. LinkInit => Init
    BY DEF LinkInit
  <1>3. LinkTypes /\ [LinkNext]_linkVars => [Next]_devVars
    BY LinkIsDevice
  <1> QED BY <1>1, <1>2, <1>3, PTL DEF LinkSpec, Spec

-----------------------------------------------------------------------------
\* ---- The subscription -----------------------------------------------------

\* Commands that do not change a subscription.
Others == {c \in Cmds : c.cmd \notin {"ATTACH", "DETACH"}}

\* What a step hands to the socket is at most one of them.
OneOther == sent' = <<>> \/ \E c \in Others : sent' = <<c>>

LEMMA SendsOther == ASSUME NEW c \in Others, Send(c) PROVE OneOther
  BY DEF Send, OneOther

\* Only INIT, DEINIT and a reset send ATTACH or DETACH.
LEMMA CmdSendsOther == TypeOK /\ LinkCmd => OneOther
  <1> SUFFICES ASSUME TypeOK, LinkCmd PROVE OneOther
    OBVIOUS
  <1>s. Plain("SCAN") \in Others
    BY PlainIsCmd DEF CmdNames, Others, Plain
  <1>d. net_id \in NetIds \cup {-1} => OnNet("DISABLE_NETWORK", net_id) \in Others
    BY OnNetIsCmd DEF CmdNames, Others, OnNet
  <1>1. CASE CmdAcknowledged \/ CmdStart \/ CmdStop
    BY <1>1 DEF CmdAcknowledged, CmdStart, CmdStop, OneOther
  <1>2. CASE CmdConnect(FALSE) \/ CmdScan
    BY <1>2, <1>s, SendsOther DEF CmdConnect, CmdScan
  <1>3. CASE CmdDisconnect
    <2>1. net_id \in NetIds \cup {-1}
      BY DEF TypeOK, DataTypeOK
    <2>2. sent' = <<>> \/ Send(OnNet("DISABLE_NETWORK", net_id))
      BY <1>3 DEF CmdDisconnect
    <2>3. CASE sent' = <<>>
      BY <2>3 DEF OneOther
    <2>4. CASE Send(OnNet("DISABLE_NETWORK", net_id))
      BY <2>1, <2>4, <1>d, SendsOther
    <2> QED BY <2>2, <2>3, <2>4
  <1> QED BY <1>1, <1>2, <1>3 DEF LinkCmd

LEMMA ReadSendsOther == ASSUME TypeOK, NEW m \in Msgs, CtrlRead(m) PROVE OneOther
  <1>t. /\ net_id \in NetIds \cup {-1}
        /\ ssid \in Creds \cup {Nothing} /\ pass \in Creds \cup {Nothing}
    BY DEF TypeOK, DataTypeOK
  <1>p. \A c \in {"SCAN_RESULTS", "ADD_NETWORK", "STATUS"} : Plain(c) \in Others
    BY PlainIsCmd DEF CmdNames, Others, Plain
  <1>o. OnNet("SELECT_NETWORK", net_id) \in Others
    BY <1>t, OnNetIsCmd DEF CmdNames, Others, OnNet
  <1>c. \A c \in {"SET_SSID", "SET_PSK"} : \A id \in NetIds \cup {-1} :
           \A v \in Creds \cup {Nothing} : Set(c, id, v) \in Others
    BY SetIsCmd DEF CmdNames, Others, Set
  <1>n. sent' = <<>> => OneOther
    BY DEF OneOther
  <1>1. CASE EvScanResults
    BY <1>1, <1>p, SendsOther DEF EvScanResults
  <1>2. CASE EvConnected
    BY <1>2, <1>p, SendsOther DEF EvConnected
  <1>3. CASE EvDisconnected \/ ReplyAttach(m) \/ ReplyStatus(m) \/ Ignored(m)
    BY <1>3, <1>n DEF EvDisconnected, ReplyAttach, ReplyStatus, Ignored
  <1>4. CASE ReplyScanResults(m)
    <2>1. sent' = <<>> \/ Send(Plain("ADD_NETWORK"))
      BY <1>4 DEF ReplyScanResults
    <2> QED BY <1>n, <1>p, <2>1, SendsOther
  <1>5. CASE ReplyAddNetwork(m)
    <2>1. sent' = <<>> \/ Send(Set("SET_SSID", Atoi(m), ssid))
      BY <1>5 DEF ReplyAddNetwork, JoinFails
    <2>2. Set("SET_SSID", Atoi(m), ssid) \in Others
      BY <1>t, <1>c, AtoiType
    <2> QED BY <1>n, <2>1, <2>2, SendsOther
  <1>6. CASE ReplySetSsid(m)
    <2>1. sent' = <<>> \/ Send(Set("SET_PSK", net_id, pass))
      BY <1>6 DEF ReplySetSsid, JoinFails
    <2>2. Set("SET_PSK", net_id, pass) \in Others
      BY <1>t, <1>c
    <2> QED BY <1>n, <2>1, <2>2, SendsOther
  <1>7. CASE ReplySetPsk(m)
    <2>1. sent' = <<>> \/ Send(OnNet("SELECT_NETWORK", net_id))
      BY <1>7 DEF ReplySetPsk, JoinFails
    <2> QED BY <1>n, <1>o, <2>1, SendsOther
  <1> QED BY <1>1, <1>2, <1>3, <1>4, <1>5, <1>6, <1>7, CtrlRead(m) DEF CtrlRead, HandleReply

\* Commands of the other kind, queued behind, leave the subscription alone.
LEMMA OthersKeep ==
  ASSUME QueueTypes, LinkedBound, linked, Subscribed, OneOther,
         Transmit, client_path' = client_path, attached' = attached
  PROVE  Subscribed'
  <1> DEFINE IsSub(d) == d.from = client_path /\ d.cmd.cmd \in {"ATTACH", "DETACH"}
  <1>1. /\ cmd_q \in Seq(Datagrams) /\ Len(cmd_q) <= QueueMax /\ client_path \in Paths
        /\ cmd_q' = Enqueue(cmd_q, client_path, sent')
    BY DEF QueueTypes, LinkedBound, Transmit
  <1>2. sent' \in Seq(Cmds) /\ \A i \in 1..Len(sent') : sent'[i] \in Others
    <2>1. CASE sent' = <<>>
      BY <2>1
    <2>2. ASSUME NEW c \in Others, sent' = <<c>>
          PROVE  sent' \in Seq(Cmds) /\ \A i \in 1..Len(sent') : sent'[i] \in Others
      <3>1. c \in Cmds
        BY DEF Others
      <3>2. Len(sent') = 1 /\ sent'[1] = c
        BY <2>2
      <3> QED BY <2>2, <3>1, <3>2
    <2> QED BY <2>1, <2>2 DEF OneOther
  <1>3. /\ cmd_q' \in Seq(Datagrams) /\ Len(cmd_q) <= Len(cmd_q')
        /\ \A i \in 1..Len(cmd_q) : cmd_q'[i] = cmd_q[i]
        /\ \A i \in 1..Len(cmd_q') :
              i > Len(cmd_q) => /\ i - Len(cmd_q) \in 1..Len(sent')
                                /\ cmd_q'[i] = [from |-> client_path, cmd |-> sent'[i - Len(cmd_q)]]
    BY <1>1, <1>2, Enqueued
  <1>4. DOMAIN cmd_q = 1..Len(cmd_q) /\ DOMAIN cmd_q' = 1..Len(cmd_q')
        /\ Len(cmd_q) \in Nat /\ Len(cmd_q') \in Nat
    BY <1>1, <1>3
  <1>5. ASSUME NEW i \in 1..Len(cmd_q'), i > Len(cmd_q)
        PROVE  cmd_q'[i].cmd.cmd \notin {"ATTACH", "DETACH"}
    <2>1. sent'[i - Len(cmd_q)] \in Others
      BY <1>2, <1>3, <1>5
    <2>2. cmd_q'[i] = [from |-> client_path, cmd |-> sent'[i - Len(cmd_q)]]
      BY <1>3, <1>5
    <2>3. cmd_q'[i].cmd = sent'[i - Len(cmd_q)]
      BY ONLY <2>2
    <2> QED BY <2>1, <2>3 DEF Others
  <1>6. \A i \in 1..Len(cmd_q') : i \in 1..Len(cmd_q) \/ i > Len(cmd_q)
    BY <1>4
  <1>7. \A i \in 1..Len(cmd_q) : i \in 1..Len(cmd_q')
    BY <1>3, <1>4
  <1>8. Subscriptions' = Subscriptions
    BY <1>3, <1>4, <1>5, <1>6, <1>7 DEF Subscriptions
  <1>9. \A i \in Subscriptions : cmd_q'[i] = cmd_q[i]
    BY <1>3, <1>4 DEF Subscriptions
  <1> QED BY <1>8, <1>9 DEF Subscribed

\* A command the daemon takes: its own ATTACH or DETACH of the path leaves the
\* queue with its effect done, whatever other paths ask for.
LEMMA ServeKeeps ==
  ASSUME QueueTypes, DaemonTypes, Subscribed, MockServe
  PROVE  Subscribed'
  <1> DEFINE h == cmd_q[1]
  <1>1. cmd_q \in Seq(Datagrams) /\ cmd_q # <<>>
    BY DEF QueueTypes, MockServe
  <1>2. /\ Head(cmd_q) = cmd_q[1] /\ 1 \in 1..Len(cmd_q)
        /\ Tail(cmd_q) \in Seq(Datagrams) /\ Len(cmd_q) \in Nat
        /\ Len(Tail(cmd_q)) = Len(cmd_q) - 1
        /\ \A i \in 1..(Len(cmd_q) - 1) : Tail(cmd_q)[i] = cmd_q[i + 1]
    BY ONLY <1>1, Dequeued
  <1>3. cmd_q' = Tail(cmd_q) /\ client_path' = client_path /\ Handle(h.from, h.cmd)
    BY <1>2 DEF MockServe
  <1>4. /\ DOMAIN cmd_q = 1..Len(cmd_q) /\ DOMAIN cmd_q' = 1..(Len(cmd_q) - 1)
        /\ \A i \in 1..(Len(cmd_q) - 1) : cmd_q'[i] = cmd_q[i + 1]
    BY <1>1, <1>2, <1>3
  <1>5. /\ h.cmd.cmd = "ATTACH" => attached' = attached \cup {h.from}
        /\ h.cmd.cmd = "DETACH" => attached' = attached \ {h.from}
        /\ h.cmd.cmd \notin {"ATTACH", "DETACH"} => attached' = attached
    BY <1>3 DEF Handle, HandleAttach, HandleDetach, HandleDelayed, HandleScanResults,
      HandleAddNetwork, HandleSetNetwork, HandleStatus, HandleDisable
  <1>6. 1 \in Subscriptions <=> h.from = client_path /\ h.cmd.cmd \in {"ATTACH", "DETACH"}
    BY <1>2, <1>4 DEF Subscriptions
  <1> HIDE DEF h
  <1>a. \A i, n \in Nat : i \in 1..(n - 1) <=> i >= 1 /\ i + 1 \in 1..n
    OBVIOUS
  <1>7. \A i \in Nat : i \in Subscriptions' <=> i >= 1 /\ i + 1 \in Subscriptions
    BY <1>2, <1>3, <1>4, <1>a DEF Subscriptions
  <1>8. Subscriptions \subseteq 1..Len(cmd_q) /\ Subscriptions' \subseteq Nat
    BY <1>4 DEF Subscriptions
  <1>9. CASE Subscriptions = {} /\ client_path \in attached
    <2>1. Subscriptions' = {}
      BY <1>7, <1>8, <1>9
    <2>2. client_path \in attached'
      BY <1>5, <1>6, <1>9
    <2> QED BY <1>3, <2>1, <2>2 DEF Subscribed
  <1>10. ASSUME NEW last \in Subscriptions, cmd_q[last].cmd.cmd = "ATTACH",
                \A i \in Subscriptions : i <= last
         PROVE  Subscribed'
    <2>1. CASE last = 1
      <3>1. Subscriptions' = {}
        <4>1. ASSUME NEW i \in Subscriptions' PROVE FALSE
          <5>1. i \in Nat /\ i >= 1 /\ i + 1 \in Subscriptions
            BY <1>7, <1>8, <4>1
          <5>2. i + 1 <= 1
            BY <1>10, <2>1, <5>1
          <5> QED BY ONLY <5>1, <5>2
        <4> QED BY <4>1
      <3>2. client_path \in attached'
        BY <1>5, <1>6, <1>10, <2>1 DEF h
      <3> QED BY <1>3, <3>1, <3>2 DEF Subscribed
    <2>2. CASE last # 1
      <3>1. last \in 1..Len(cmd_q) /\ Len(cmd_q) \in Nat
        BY <1>2, <1>8
      <3>2. /\ last - 1 \in 1..(Len(cmd_q) - 1) /\ last - 1 \in Nat
            /\ (last - 1) + 1 = last /\ last - 1 >= 1
        BY ONLY <2>2, <3>1
      <3>3. last - 1 \in Subscriptions'
        BY <1>7, <3>2
      <3>4. cmd_q'[last - 1] = cmd_q[last]
        BY <1>4, <3>2
      <3>5. ASSUME NEW i \in Subscriptions' PROVE i <= last - 1
        <4>1. i \in Nat /\ i + 1 \in Subscriptions
          BY <1>7, <1>8, <3>5
        <4>2. i + 1 <= last
          BY <1>10, <4>1
        <4> QED BY ONLY <3>1, <4>1, <4>2
      <3> QED BY <1>10, <3>3, <3>4, <3>5 DEF Subscribed
    <2> QED BY <2>1, <2>2
  <1> QED BY <1>9, <1>10, Subscribed DEF Subscribed

\* What each connected socket has: its registration, or an ATTACH on its way.
Registered == linked => Subscribed

\* The ATTACH of a new socket finds room in the daemon's queue, behind the DETACH
\* of the old one.  When it does not, the device reports INIT_FAIL and stays
\* unregistered, whatever it takes later for the answer.
AttachFits == \A p \in Paths : LinkInitConnected(p) => Len(Detached) < QueueMax

LEMMA AttachRegisters ==
  ASSUME LinkTypes, NEW p \in Paths, LinkInitConnected(p), Len(Detached) < QueueMax
  PROVE  Subscribed'
  <1> DEFINE n == Len(Detached)
             cs == <<Plain("ATTACH")>>
  <1>1. Detached \in Seq(Datagrams) /\ Len(Detached) <= QueueMax
    BY TypesSplit, DetachedTypes DEF LinkTypes
  <1>2. cs \in Seq(Cmds) /\ Len(cs) = 1 /\ cs[1] = Plain("ATTACH")
    BY PlainIsCmd DEF CmdNames
  <1>3. n \in Nat /\ QueueMax \in Nat /\ n + 1 <= QueueMax
    BY <1>1, QueueAssumption
  <1>4. cmd_q' = Enqueue(Detached, p, cs) /\ client_path' = p
    BY DEF LinkInitConnected
  <1> HIDE DEF n, cs
  <1>5. /\ cmd_q' \in Seq(Datagrams)
        /\ \A i \in 1..Len(cmd_q') :
              i > n => i - n \in 1..Len(cs) /\ cmd_q'[i] = [from |-> p, cmd |-> cs[i - n]]
        /\ n + Len(cs) <= QueueMax => Len(cmd_q') = n + Len(cs)
    <2>1. p \in Paths /\ n = Len(Detached)
      BY DEF n
    <2>2. /\ cmd_q' \in Seq(Datagrams)
          /\ \A i \in 1..Len(cmd_q') :
                i > Len(Detached) => /\ i - Len(Detached) \in 1..Len(cs)
                                     /\ cmd_q'[i] = [from |-> p, cmd |-> cs[i - Len(Detached)]]
          /\ Len(Detached) + Len(cs) <= QueueMax => Len(cmd_q') = Len(Detached) + Len(cs)
      <3>1. cs \in Seq(Cmds) /\ cmd_q' = Enqueue(Detached, p, cs)
        BY <1>2, <1>4
      <3> DEFINE Good(q, x, r) ==
                   /\ r \in Seq(Datagrams)
                   /\ \A i \in 1..Len(r) :
                         i > Len(q) => /\ i - Len(q) \in 1..Len(x)
                                       /\ r[i] = [from |-> p, cmd |-> x[i - Len(q)]]
                   /\ Len(q) + Len(x) <= QueueMax => Len(r) = Len(q) + Len(x)
      <3>2. ASSUME NEW q \in Seq(Datagrams), Len(q) <= QueueMax, NEW x \in Seq(Cmds),
                   NEW r, r = Enqueue(q, p, x)
            PROVE  Good(q, x, r)
        BY ONLY <2>1, <3>2, q \in Seq(Datagrams), x \in Seq(Cmds), Enqueued
      <3> HIDE DEF Good
      <3>3. Good(Detached, cs, cmd_q')
        BY ONLY <1>1, <3>1, <3>2
      <3> QED BY ONLY <3>3 DEF Good
    <2> QED BY ONLY <2>1, <2>2
  <1>6. Len(cmd_q') = n + 1 /\ DOMAIN cmd_q' = 1..(n + 1)
    BY <1>2, <1>3, <1>5
  <1>7. n + 1 \in 1..Len(cmd_q') /\ n + 1 > n /\ (n + 1) - n = 1
    BY ONLY <1>3, <1>6
  <1>8. cmd_q'[n + 1] = [from |-> p, cmd |-> Plain("ATTACH")]
    BY <1>2, <1>5, <1>7
  <1>9. n + 1 \in Subscriptions'
    BY <1>4, <1>6, <1>7, <1>8 DEF Subscriptions, Plain
  <1>10. \A i \in Subscriptions' : i <= n + 1
    BY <1>3, <1>6 DEF Subscriptions
  <1>11. cmd_q'[n + 1].cmd.cmd = "ATTACH"
    BY <1>8 DEF Plain
  <1> QED BY <1>9, <1>10, <1>11 DEF Subscribed

LEMMA RegisteredStep ==
  LinkTypes /\ Registered /\ [LinkNext /\ AttachFits]_linkVars => Registered'
  <1> SUFFICES ASSUME LinkTypes, Registered, [LinkNext /\ AttachFits]_linkVars, linked'
               PROVE  Subscribed'
    BY DEF Registered
  <1>t. QueueTypes /\ DaemonTypes /\ LinkedBound /\ TypeOK
    BY TypesSplit DEF LinkTypes
  <1>q. UNCHANGED <<cmd_q, client_path, attached>> /\ linked => Subscribed'
    BY DEF Registered, Subscribed, Subscriptions
  <1>s. ASSUME OneOther, Transmit, KeepSocket, attached' = attached PROVE Subscribed'
    <2>1. linked /\ client_path' = client_path
      BY <1>s DEF KeepSocket
    <2> QED BY <1>t, <1>s, <2>1, OthersKeep DEF Registered
  <1>1. CASE LinkGuest /\ AttachFits
    <2>1. attached' = attached
      BY <1>1 DEF LinkGuest, mockVars
    <2>2. ASSUME NEW p \in Paths, LinkInitConnected(p) PROVE Subscribed'
      BY <1>1, <2>2, AttachRegisters DEF AttachFits
    <2>3. CASE LinkCmd
      BY <1>t, <1>s, <2>1, <2>3, CmdSendsOther DEF LinkCmd
    <2>4. CASE LinkConfig
      BY <1>q, <2>1, <2>4 DEF LinkConfig, queueVars
    <2>5. ~LinkInitUnreachable /\ ~LinkClose
      BY DEF LinkInitUnreachable, LinkClose, DropSocket
    <2> QED BY <1>1, <2>2, <2>3, <2>4, <2>5 DEF LinkGuest, LinkGuestInit
  <1>2. CASE LinkDevice
    <2>1. attached' = attached
      BY <1>2 DEF LinkDevice, mockVars
    <2>2. CASE LinkRead
      <3>1. client_q \in Seq(Msgs) /\ client_q # <<>>
        BY <1>t, <2>2 DEF QueueTypes, LinkRead
      <3>2. Head(client_q) \in Msgs
        BY ONLY <3>1
      <3>3. OneOther
        BY <1>t, <2>2, <3>2, ReadSendsOther DEF LinkRead
      <3> QED BY <1>s, <2>1, <2>2, <3>3 DEF LinkRead
    <2>3. CASE LinkAck \/ LinkHup \/ LinkTimer
      BY <1>q, <2>1, <2>3 DEF LinkAck, LinkHup, LinkTimer, queueVars
    <2> QED BY <1>2, <2>2, <2>3 DEF LinkDevice
  <1>3. CASE LinkDaemon
    <2>1. linked' = linked
      BY <1>3 DEF LinkDaemon
    <2>2. CASE MockServe
      BY <1>t, <2>1, <2>2, ServeKeeps DEF Registered
    <2>3. ASSUME NEW e \in Delayable, MockFire(e) PROVE Subscribed'
      BY <1>q, <2>1, <2>3 DEF MockFire
    <2> QED BY <1>3, <2>2, <2>3 DEF LinkDaemon, MockStep
  <1>4. CASE LinkDaemonStop
    BY <1>4 DEF LinkDaemonStop
  <1>5. CASE LinkDaemonStart
    BY <1>5, <1>q DEF LinkDaemonStart, MockStart, queueVars
  <1>6. CASE UNCHANGED linkVars
    BY <1>6, <1>q DEF linkVars, queueVars, mockVars
  <1> QED BY <1>1, <1>2, <1>3, <1>4, <1>5, <1>6 DEF LinkNext

\* As long as the ATTACH of each INIT finds room, the device that is past ATTACH
\* is registered with the daemon, or will be once the daemon has taken what is
\* queued: through re-INITs on the same or another path, replies taken for
\* others, and restarts of the daemon.
THEOREM SubscriptionCorrect ==
  LinkSpec /\ [][AttachFits]_linkVars => []SubscriptionSurvives
  <1>1. LinkSpec => []LinkTypes
    BY LinkTypesInit, LinkTypesStep, PTL DEF LinkSpec
  <1>2. LinkInit => Registered
    BY DEF LinkInit, Registered
  <1>3. LinkTypes /\ Registered /\ [LinkNext /\ AttachFits]_linkVars => Registered'
    BY RegisteredStep
  <1>4. Registered => SubscriptionSurvives
    BY DEF Registered, SubscriptionSurvives
  <1>5. [LinkNext]_linkVars /\ [AttachFits]_linkVars => [LinkNext /\ AttachFits]_linkVars
    OBVIOUS
  <1> QED BY <1>1, <1>2, <1>3, <1>4, <1>5, PTL DEF LinkSpec

-----------------------------------------------------------------------------
\* ---- The firmware on top: types -------------------------------------------

\* The parts of the device's step that a write of the firmware does not reach.
LEMMA MoveKeepsTypes ==
  ASSUME LinkTypes, GuestMove, GuestIdle
  PROVE  LinkTypes' /\ [Next]_devVars
  <1>t. QueueTypes /\ DaemonTypes /\ LinkedBound /\ linked \in BOOLEAN /\ BudgetTypes
    BY TypesSplit DEF LinkTypes
  <1>1. [Next]_devVars
    BY GuestIsGuest DEF Next, Host
  <1>2. TypeOK'
    BY <1>1, NextType DEF LinkTypes
  <1>3. sent' \in Seq(Cmds)
    BY <1>2 DEF TypeOK
  <1>4. QueueTypes' /\ LinkedBound' /\ linked' \in BOOLEAN
    BY <1>t, <1>3, GuestQueues
  <1>5. DaemonTypes' /\ BudgetTypes'
    BY <1>t DEF GuestIdle, mockVars, budgetVars, DaemonTypes, BudgetTypes
  <1>6. LinkTypeOK'
    BY <1>4, <1>5 DEF LinkTypeOK, MockTypeOK, QueueTypes, DaemonTypes, BudgetTypes, Datagrams
  <1> QED BY <1>1, <1>2, <1>4, <1>6 DEF LinkTypes

\* Each step of the firmware is one write, or touches the device only to read it.
LEMMA WritesAreMoves ==
  /\ WriteCmd(CmdAcknowledged) => GuestMove /\ GuestIdle
  /\ WriteCmd(CmdStart) => GuestMove /\ GuestIdle
  /\ WriteCmd(CmdScan) => GuestMove /\ GuestIdle
  /\ WriteCmd(CmdDisconnect) => GuestMove /\ GuestIdle
  /\ WriteCmd(CmdConnect(FALSE)) => GuestMove /\ GuestIdle
  /\ Acknowledge => GuestMove /\ GuestIdle
  BY DEF WriteCmd, LinkCmd, GuestMove, Acknowledge

LEMMA AppIsMove == App => (GuestMove /\ GuestIdle) \/ UNCHANGED linkVars
  <1> DEFINE Goal == (GuestMove /\ GuestIdle) \/ UNCHANGED linkVars
  <1> SUFFICES ASSUME App PROVE Goal
    OBVIOUS
  <1>1. CASE AppInit
    BY <1>1 DEF AppInit, GuestMove
  <1>2. CASE AppSetMode \/ AppStart \/ AppStartupScan
    BY <1>2, WritesAreMoves DEF AppSetMode, AppStart, AppStartupScan
  <1>3. CASE AppSetConfig
    <2>1. AppSsid \in Creds /\ AppPass \in Creds
      BY StationAssumption
    <2>2. \E c \in Creds : WriteSsid(c) \/ WritePass(c)
      BY <1>3, <2>1 DEF AppSetConfig
    <2> QED BY <1>3, <2>2 DEF AppSetConfig, LinkConfig, GuestMove, queueVars
  <1>4. CASE AppPoll
    BY <1>4, WritesAreMoves DEF AppPoll, Poll
  <1>5. CASE AppPostStart
    BY <1>5 DEF AppPostStart, ReadOnly
  <1> HIDE DEF Goal
  <1> QED BY <1>1, <1>2, <1>3, <1>4, <1>5, App DEF App

LEMMA LoopIsMove == Loop => (GuestMove /\ GuestIdle) \/ UNCHANGED linkVars
  <1> SUFFICES ASSUME Loop PROVE (GuestMove /\ GuestIdle) \/ UNCHANGED linkVars
    OBVIOUS
  <1>1. Connect \/ ReadOnly
    BY DEF Loop, LoopStart, LoopDisconnected, LoopConnected, LoopGotIp, LoopScanDone
  <1> QED BY <1>1, WritesAreMoves DEF Connect, ReadOnly

LEMMA StationStep ==
  ASSUME LinkTypes, [StaNext]_staVars
  PROVE  LinkTypes' /\ [Next]_devVars
  <1> DEFINE Goal == LinkTypes' /\ [Next]_devVars
  <1>m. CASE GuestMove /\ GuestIdle
    BY <1>m, MoveKeepsTypes
  <1>u. ASSUME LinkDevice \/ LinkDaemon \/ UNCHANGED linkVars PROVE Goal
    <2>1. [LinkNext]_linkVars
      BY <1>u DEF LinkNext
    <2> QED BY <2>1, LinkTypesStep, LinkIsDevice
  <1> HIDE DEF Goal
  <1>1. CASE App \/ Loop
    BY <1>1, <1>m, <1>u, AppIsMove, LoopIsMove DEF Goal
  <1>2. CASE AppDisconnect
    BY <1>2, <1>m, WritesAreMoves DEF AppDisconnect, Goal
  <1>3. CASE EvtTask
    <2>1. CASE EvtRead \/ EvtPost
      BY <2>1, <1>u DEF EvtRead, EvtPost, ReadOnly, Goal
    <2>2. CASE EvtAck
      BY <2>2, <1>m, WritesAreMoves DEF EvtAck, Goal
    <2> QED BY <1>3, <2>1, <2>2 DEF EvtTask
  <1>4. CASE StaDevice
    BY <1>4, <1>u DEF StaDevice, LinkDevice, GuestIdle, Goal
  <1>5. CASE StaDaemon
    BY <1>5, <1>u DEF StaDaemon, Goal
  <1>6. CASE UNCHANGED staVars
    BY <1>6, <1>u DEF staVars, Goal
  <1> QED BY <1>1, <1>2, <1>3, <1>4, <1>5, <1>6 DEF StaNext, Goal

LEMMA TrackType ==
  ASSUME NEW taken, Track(taken), lost \in BOOLEAN
  PROVE  lost' \in BOOLEAN
  BY Zenon DEF Track

\* What the event loop and the event task post are events of the loop.
LEMMA LoopQueueType ==
  ASSUME loop_q \in Seq(LoopEvents), Loop
  PROVE  loop_q' \in Seq(LoopEvents)
  <1>1. Tail(loop_q) \in Seq(LoopEvents)
    BY DEF Loop
  <1>2. loop_q' = Tail(loop_q) \/ loop_q' = Tail(loop_q) \o <<"STA_GOT_IP">>
        \/ loop_q' = Tail(loop_q) \o <<>>
    BY DEF Loop, LoopStart, LoopDisconnected, LoopConnected, LoopGotIp, LoopScanDone
  <1>3. <<"STA_GOT_IP">> \in Seq(LoopEvents) /\ <<>> \in Seq(LoopEvents)
    BY DEF LoopEvents
  <1>4. \A s, t \in Seq(LoopEvents) : s \o t \in Seq(LoopEvents)
    OBVIOUS
  <1> QED BY ONLY <1>1, <1>2, <1>3, <1>4, Zenon

LEMMA PostsType == \A e : Posts(e) \in Seq(LoopEvents)
  <1>1. /\ <<"STA_CONNECTED">> \in Seq(LoopEvents) /\ <<"STA_DISCONNECTED">> \in Seq(LoopEvents)
        /\ <<"SCAN_DONE">> \in Seq(LoopEvents) /\ <<>> \in Seq(LoopEvents)
    BY DEF LoopEvents
  <1> QED BY <1>1 DEF Posts

LEMMA StaTypesStep ==
  ASSUME StaTypeOK, event \in Events \cup {NoEvent}, [StaNext]_staVars
  PROVE  StaTypeOK'
  <1> USE DEF StaTypeOK, AppPcs
  <1>k. \A taken : Track(taken) => lost' \in BOOLEAN
    BY TrackType
  <1> HIDE DEF StaTypeOK
  <1>t. /\ app_pc \in AppPcs /\ evt_pc \in {"none", "read", "ack", "post"}
        /\ evt \in Events \cup {NoEvent} /\ loop_q \in Seq(LoopEvents)
        /\ retry_num \in 0..MaxRetry /\ bits \subseteq {"CONNECTED", "FAIL"}
        /\ disconnects_left \in 0..DisconnectMax /\ lost \in BOOLEAN
    BY DEF StaTypeOK
  <1>1. CASE App
    <2>1. CASE AppInit \/ AppSetMode \/ AppStart \/ AppStartupScan
      BY <1>k, <1>t, <2>1 DEF AppInit, AppSetMode, AppStart, AppStartupScan, StaTypeOK
    <2>2. CASE AppSetConfig
      BY <1>t, <2>2 DEF AppSetConfig, StaTypeOK
    <2>3. CASE AppPoll
      BY <1>k, <1>t, <2>3 DEF AppPoll, Poll, StaTypeOK
    <2>4. CASE AppPostStart
      <3>1. Append(loop_q, "STA_START") \in Seq(LoopEvents)
        BY <1>t DEF LoopEvents
      <3> QED BY <1>t, <2>4, <3>1 DEF AppPostStart, StaTypeOK
    <2> QED BY <1>1, <2>1, <2>2, <2>3, <2>4 DEF App
  <1>2. CASE AppDisconnect
    <2>1. disconnects_left - 1 \in 0..DisconnectMax
      BY <1>2, <1>t, StationAssumption DEF AppDisconnect
    <2>2. lost' \in BOOLEAN
      BY <1>2, <1>k DEF AppDisconnect
    <2> QED BY <1>2, <1>t, <2>1, <2>2 DEF AppDisconnect, StaTypeOK
  <1>3. CASE EvtTask
    <2>1. loop_q \o Posts(evt) \in Seq(LoopEvents)
      <3>1. Posts(evt) \in Seq(LoopEvents)
        BY PostsType
      <3> QED BY <1>t, <3>1
    <2>2. CASE EvtRead \/ EvtPost
      BY <1>t, <2>1, <2>2 DEF EvtRead, EvtPost, StaTypeOK
    <2>3. CASE EvtAck
      BY <1>t, <1>k, <2>3 DEF EvtAck, StaTypeOK
    <2> QED BY <1>3, <2>2, <2>3 DEF EvtTask
  <1>4. CASE Loop
    <2>1. loop_q' \in Seq(LoopEvents)
      BY <1>4, <1>t, LoopQueueType
    <2>2. /\ lost' \in BOOLEAN /\ app_pc' = app_pc /\ evt_pc' = evt_pc /\ evt' = evt
          /\ disconnects_left' = disconnects_left
      BY <1>4, <1>k DEF Loop
    <2>3. retry_num' \in 0..MaxRetry /\ bits' \subseteq {"CONNECTED", "FAIL"}
      <3>1. CASE LoopDisconnected
        <4>1. retry_num < MaxRetry => retry_num + 1 \in 0..MaxRetry
          BY <1>t, StationAssumption
        <4>2. (retry_num < MaxRetry /\ retry_num' = retry_num + 1) \/ retry_num' = retry_num
          BY <3>1, Zenon DEF LoopDisconnected
        <4>3. bits' = bits \/ bits' = bits \cup {"FAIL"}
          BY <3>1, Zenon DEF LoopDisconnected
        <4> QED BY ONLY <1>t, <4>1, <4>2, <4>3
      <3>2. CASE LoopGotIp
        BY <1>t, <3>2, StationAssumption DEF LoopGotIp
      <3>3. CASE LoopStart \/ LoopConnected \/ LoopScanDone
        BY <1>t, <3>3 DEF LoopStart, LoopConnected, LoopScanDone
      <3> QED BY <1>4, <3>1, <3>2, <3>3 DEF Loop
    <2> QED BY <1>t, <2>1, <2>2, <2>3 DEF StaTypeOK
  <1>5. CASE StaDevice
    BY <1>5, <1>k, <1>t DEF StaDevice, StaTypeOK
  <1>6. CASE StaDaemon \/ UNCHANGED staVars
    BY <1>6, <1>t DEF StaDaemon, shimVars, staVars, StaTypeOK
  <1> QED BY <1>1, <1>2, <1>3, <1>4, <1>5, <1>6 DEF StaNext

\* The types of everything: the device, its sockets, the daemon, the firmware.
StationTypes == LinkTypes /\ StaTypeOK

LEMMA StationTypesInv == StaSpec => []StationTypes
  <1>1. StaInit => StationTypes
    <2> SUFFICES ASSUME StaInit PROVE LinkTypes /\ StaTypeOK
      BY DEF StationTypes
    <2>1. LinkTypes
      BY LinkTypesInit DEF StaInit
    <2>2. <<>> \in Seq(LoopEvents) /\ 0 \in 0..MaxRetry /\ DisconnectMax \in 0..DisconnectMax
      BY StationAssumption
    <2>3. StaTypeOK
      BY <2>2 DEF StaInit, StaTypeOK, AppPcs
    <2> QED BY <2>1, <2>3
  <1>2. StationTypes /\ [StaNext]_staVars => StationTypes'
    <2> SUFFICES ASSUME StationTypes, [StaNext]_staVars PROVE LinkTypes' /\ StaTypeOK'
      BY DEF StationTypes
    <2>1. event \in Events \cup {NoEvent}
      BY DEF StationTypes, LinkTypes, TypeOK, RegsTypeOK
    <2> QED BY <2>1, StationStep, StaTypesStep DEF StationTypes
  <1> QED BY <1>1, <1>2, PTL DEF StaSpec

\* In every state of the station the firmware's variables, its queue of events
\* and its counters have their types.
THEOREM StationTypeCorrect == StaSpec => []StaTypeOK
  <1>1. StationTypes => StaTypeOK
    BY DEF StationTypes
  <1> QED BY <1>1, StationTypesInv, PTL

\* The device under the firmware of the station does what the open device may
\* do: the theorems about EspWifiCtrl hold of it.
THEOREM StationImplementsDevice == StaSpec => Spec
  <1>1. StaInit => Init
    BY DEF StaInit, LinkInit
  <1>2. StationTypes /\ [StaNext]_staVars => [Next]_devVars
    BY StationStep DEF StationTypes
  <1> QED BY <1>1, <1>2, StationTypesInv, PTL DEF StaSpec, Spec

-----------------------------------------------------------------------------
\* ---- What is outstanding on the two sockets -------------------------------

\* cq stands for the daemon's queue, aq for the device's, d for the sleeping
\* _delayed_event() threads of one event.
NoCmd(cq, n)  == \A i \in 1..Len(cq) : cq[i].cmd.cmd # n
NoMsg(aq, k)  == \A i \in 1..Len(aq) : aq[i].kind # k
AllEvents(aq) == \A i \in 1..Len(aq) : aq[i].kind \in CtrlEvents

\* No reply is outstanding.
Settled(cq, aq) == Len(cq) = 0 /\ AllEvents(aq)

\* One reply is outstanding: command n waits, or its reply of kind k does.
Outstands(cq, aq, n, k) ==
    \/ Len(cq) = 1 /\ cq[1].cmd.cmd = n /\ AllEvents(aq)
    \/ /\ Len(cq) = 0
       /\ \E i \in 1..Len(aq) : /\ aq[i].kind = k
                                /\ \A j \in 1..Len(aq) : j # i => aq[j].kind \in CtrlEvents

\* No scan is under way, or one at most.
NoScan(cq, aq, d) == NoCmd(cq, "SCAN") /\ NoMsg(aq, "EV_SCAN_RESULTS") /\ d = 0

OneCmd(cq, n) ==
    \A i, j \in 1..Len(cq) : cq[i].cmd.cmd = n /\ cq[j].cmd.cmd = n => i = j
OneMsg(aq, k) == \A i, j \in 1..Len(aq) : aq[i].kind = k /\ aq[j].kind = k => i = j

OneScan(cq, aq, d) ==
    \/ d = 0 /\ NoMsg(aq, "EV_SCAN_RESULTS") /\ OneCmd(cq, "SCAN")
    \/ d = 1 /\ NoMsg(aq, "EV_SCAN_RESULTS") /\ NoCmd(cq, "SCAN")
    \/ d = 0 /\ OneMsg(aq, "EV_SCAN_RESULTS") /\ NoCmd(cq, "SCAN")

\* No end of a scan will be read before the results that were asked for.
DumpsFirst(cq, aq, d) ==
    /\ \A i \in 1..Len(cq) : cq[i].cmd.cmd = "SCAN_RESULTS" =>
          /\ d = 0 /\ NoMsg(aq, "EV_SCAN_RESULTS")
          /\ \A j \in 1..Len(cq) : j < i => cq[j].cmd.cmd # "SCAN"
    /\ \A i, j \in 1..Len(aq) : aq[i].kind = "DUMP" /\ j < i => aq[j].kind # "EV_SCAN_RESULTS"

\* The results are the last reply outstanding.
DumpLast(cq, aq) ==
    /\ \A i \in 1..Len(cq) : cq[i].cmd.cmd = "SCAN_RESULTS" => i = Len(cq)
    /\ \A i \in 1..Len(aq) : aq[i].kind = "DUMP" =>
          Len(cq) = 0 /\ \A j \in 1..Len(aq) : j > i => aq[j].kind \in CtrlEvents

\* No network is being selected, or one, and its reply comes before its event.
NoSelect(cq, aq, d) == NoCmd(cq, "SELECT_NETWORK") /\ NoMsg(aq, "EV_CONNECTED") /\ d = 0

Selecting(cq, aq, d) ==
    \/ /\ Len(cq) = 1 /\ cq[1].cmd.cmd = "SELECT_NETWORK"
       /\ d = 0 /\ NoMsg(aq, "EV_CONNECTED")
    \/ Len(cq) = 0 /\ d = 1 /\ NoMsg(aq, "EV_CONNECTED")
    \/ /\ Len(cq) = 0 /\ d = 0
       /\ \A i, j \in 1..Len(aq) : aq[i].kind = "EV_CONNECTED" /\ j > i =>
             aq[j].kind \in CtrlEvents \ {"EV_CONNECTED"}

\* ---- ... after the daemon has answered a command --------------------------

LEMMA ServedQueues ==
  ASSUME NEW S, NEW T, NEW cq \in Seq(S), NEW aq \in Seq(T), Len(cq) > 0, NEW m \in T,
         NEW cq2, NEW aq2, cq2 = Tail(cq), aq2 = Append(aq, m)
  PROVE  /\ Len(cq) \in Nat /\ Len(aq) \in Nat
         /\ Len(cq2) = Len(cq) - 1 /\ \A i \in 1..(Len(cq) - 1) : cq2[i] = cq[i + 1]
         /\ Len(aq2) = Len(aq) + 1 /\ \A i \in 1..Len(aq) : aq2[i] = aq[i]
         /\ aq2[Len(aq) + 1] = m
  <1>1. cq # <<>>
    OBVIOUS
  <1>2. Len(cq) \in Nat /\ Len(Tail(cq)) = Len(cq) - 1 /\ Len(aq) \in Nat
        /\ \A i \in 1..(Len(cq) - 1) : Tail(cq)[i] = cq[i + 1]
    BY <1>1, Dequeued
  <1>3. Len(Append(aq, m)) = Len(aq) + 1 /\ Append(aq, m)[Len(aq) + 1] = m
        /\ \A i \in 1..Len(aq) : Append(aq, m)[i] = aq[i]
    BY Grown
  <1> QED BY <1>2, <1>3

\* One answer: the daemon's queue has lost its head, the device's has the reply.
Answered(cq, aq, m, cq2, aq2) ==
    /\ Len(cq) \in Nat /\ Len(aq) \in Nat /\ Len(cq) > 0
    /\ Len(cq2) = Len(cq) - 1 /\ \A i \in 1..(Len(cq) - 1) : cq2[i] = cq[i + 1]
    /\ Len(aq2) = Len(aq) + 1 /\ \A i \in 1..Len(aq) : aq2[i] = aq[i]
    /\ aq2[Len(aq) + 1] = m /\ m.kind \notin CtrlEvents

LEMMA ServedSettled ==
  ASSUME NEW cq, NEW aq, NEW m, NEW cq2, NEW aq2, Answered(cq, aq, m, cq2, aq2)
  PROVE  ~Settled(cq, aq)
  BY DEF Answered, Settled

LEMMA ServedAwaits ==
  ASSUME NEW cq, NEW aq, NEW m, NEW cq2, NEW aq2, Answered(cq, aq, m, cq2, aq2)
  PROVE  \A x, k : Outstands(cq, aq, x, k) /\ (cq[1].cmd.cmd = x => m.kind = k) =>
            /\ Outstands(cq2, aq2, x, k) /\ Len(cq) = 1 /\ cq[1].cmd.cmd = x
            /\ Len(cq2) = 0
  <1>q. /\ Len(cq) \in Nat /\ Len(aq) \in Nat /\ Len(cq) > 0
        /\ Len(cq2) = Len(cq) - 1 /\ \A i \in 1..(Len(cq) - 1) : cq2[i] = cq[i + 1]
        /\ Len(aq2) = Len(aq) + 1 /\ \A i \in 1..Len(aq) : aq2[i] = aq[i]
        /\ aq2[Len(aq) + 1] = m
    BY DEF Answered
  <1>1. ASSUME NEW x, NEW k, Outstands(cq, aq, x, k), cq[1].cmd.cmd = x => m.kind = k
        PROVE  /\ Outstands(cq2, aq2, x, k) /\ Len(cq) = 1 /\ cq[1].cmd.cmd = x
               /\ Len(cq2) = 0
    <2>1. Len(cq) = 1 /\ cq[1].cmd.cmd = x /\ AllEvents(aq)
      BY ONLY <1>q, <1>1 DEF Outstands
    <2>2. Len(cq2) = 0 /\ m.kind = k
      BY ONLY <1>q, <1>1, <2>1
    <2>3. /\ Len(aq) + 1 \in 1..Len(aq2) /\ aq2[Len(aq) + 1].kind = k
          /\ \A j \in 1..Len(aq2) : j # Len(aq) + 1 => aq2[j].kind \in CtrlEvents
      BY ONLY <1>q, <2>1, <2>2 DEF AllEvents
    <2> QED BY ONLY <2>1, <2>2, <2>3 DEF Outstands
  <1> QED BY ONLY <1>1

LEMMA ServedLast ==
  ASSUME NEW cq, NEW aq, NEW m, NEW cq2, NEW aq2, Answered(cq, aq, m, cq2, aq2),
         m.kind = "DUMP" <=> cq[1].cmd.cmd = "SCAN_RESULTS"
  PROVE  DumpLast(cq, aq) => DumpLast(cq2, aq2)
  <1>q. /\ Len(cq) \in Nat /\ Len(aq) \in Nat /\ Len(cq) > 0
        /\ Len(cq2) = Len(cq) - 1 /\ \A i \in 1..(Len(cq) - 1) : cq2[i] = cq[i + 1]
        /\ Len(aq2) = Len(aq) + 1 /\ \A i \in 1..Len(aq) : aq2[i] = aq[i]
        /\ aq2[Len(aq) + 1] = m
    BY DEF Answered
  <1>1. ASSUME DumpLast(cq, aq) PROVE DumpLast(cq2, aq2)
    <2>d. m.kind = "DUMP" <=> cq[1].cmd.cmd = "SCAN_RESULTS"
      OBVIOUS
    <2>1. \A i \in 1..Len(aq) : aq[i].kind # "DUMP"
      BY ONLY <1>q, <1>1 DEF DumpLast
    <2>2. ASSUME NEW i \in 1..Len(cq2), cq2[i].cmd.cmd = "SCAN_RESULTS" PROVE i = Len(cq2)
      <3>1. i + 1 \in 1..Len(cq) /\ cq[i + 1].cmd.cmd = "SCAN_RESULTS"
        BY <1>q, <2>2
      <3>2. i + 1 = Len(cq)
        BY ONLY <1>1, <3>1 DEF DumpLast
      <3> QED BY <1>q, <3>2
    <2>3. m.kind = "DUMP" => Len(cq2) = 0
      BY ONLY <1>q, <1>1, <2>d DEF DumpLast
    <2> QED BY ONLY <1>q, <2>1, <2>2, <2>3 DEF DumpLast
  <1> QED BY ONLY <1>1

LEMMA ServedScan ==
  ASSUME NEW cq, NEW aq, NEW m, NEW cq2, NEW aq2, Answered(cq, aq, m, cq2, aq2),
         NEW d \in Nat, NEW d2 \in Nat,
         d2 = IF cq[1].cmd.cmd = "SCAN" THEN d + 1 ELSE d,
         m.kind = "DUMP" <=> cq[1].cmd.cmd = "SCAN_RESULTS"
  PROVE  /\ NoScan(cq, aq, d) => NoScan(cq2, aq2, d2)
         /\ OneScan(cq, aq, d) => OneScan(cq2, aq2, d2)
         /\ DumpsFirst(cq, aq, d) => DumpsFirst(cq2, aq2, d2)
  <1>q. /\ Len(cq) \in Nat /\ Len(aq) \in Nat /\ Len(cq) > 0 /\ d \in Nat
        /\ Len(cq2) = Len(cq) - 1 /\ \A i \in 1..(Len(cq) - 1) : cq2[i] = cq[i + 1]
        /\ Len(aq2) = Len(aq) + 1 /\ \A i \in 1..Len(aq) : aq2[i] = aq[i]
        /\ aq2[Len(aq) + 1] = m
    BY DEF Answered
  <1>m. m.kind # "EV_SCAN_RESULTS"
    BY DEF Answered, CtrlEvents
  <1>d. /\ d2 = IF cq[1].cmd.cmd = "SCAN" THEN d + 1 ELSE d
        /\ m.kind = "DUMP" <=> cq[1].cmd.cmd = "SCAN_RESULTS"
    OBVIOUS
  <1>n. NoMsg(aq, "EV_SCAN_RESULTS") => NoMsg(aq2, "EV_SCAN_RESULTS")
    BY ONLY <1>q, <1>m DEF NoMsg
  <1>1. NoScan(cq, aq, d) => NoScan(cq2, aq2, d2)
    <2> SUFFICES ASSUME NoScan(cq, aq, d) PROVE NoScan(cq2, aq2, d2)
      OBVIOUS
    <2>1. NoCmd(cq2, "SCAN") /\ d2 = 0
      BY ONLY <1>q, <1>d, NoScan(cq, aq, d) DEF NoScan, NoCmd
    <2> QED BY ONLY <1>n, <2>1, NoScan(cq, aq, d) DEF NoScan
  <1>2. OneScan(cq, aq, d) => OneScan(cq2, aq2, d2)
    <2>1. CASE d = 0 /\ NoMsg(aq, "EV_SCAN_RESULTS") /\ OneCmd(cq, "SCAN")
      <3>1. CASE cq[1].cmd.cmd = "SCAN"
        <4>1. NoCmd(cq2, "SCAN")
          BY ONLY <1>q, <2>1, <3>1 DEF NoCmd, OneCmd
        <4>2. d2 = 1
          BY ONLY <1>d, <2>1, <3>1
        <4> QED BY ONLY <1>n, <2>1, <4>1, <4>2 DEF OneScan
      <3>2. CASE cq[1].cmd.cmd # "SCAN"
        <4>1. OneCmd(cq2, "SCAN")
          <5> SUFFICES ASSUME NEW i \in 1..Len(cq2), NEW j \in 1..Len(cq2),
                              cq2[i].cmd.cmd = "SCAN", cq2[j].cmd.cmd = "SCAN"
                       PROVE  i = j
            BY DEF OneCmd
          <5>1. i + 1 \in 1..Len(cq) /\ j + 1 \in 1..Len(cq)
                /\ cq[i + 1].cmd.cmd = "SCAN" /\ cq[j + 1].cmd.cmd = "SCAN"
            BY <1>q
          <5>2. i + 1 = j + 1
            BY ONLY <5>1, <2>1 DEF OneCmd
          <5> QED BY ONLY <5>2, i \in 1..Len(cq2), j \in 1..Len(cq2), <1>q
        <4> QED BY ONLY <1>n, <1>d, <2>1, <3>2, <4>1 DEF OneScan
      <3> QED BY <3>1, <3>2
    <2>2. CASE d \in {0, 1} /\ OneMsg(aq, "EV_SCAN_RESULTS") /\ NoCmd(cq, "SCAN")
               /\ (d = 1 => NoMsg(aq, "EV_SCAN_RESULTS"))
      <3>1. NoCmd(cq2, "SCAN") /\ d2 = d
        BY ONLY <1>q, <1>d, <2>2 DEF NoCmd
      <3>2. OneMsg(aq2, "EV_SCAN_RESULTS")
        BY ONLY <1>q, <1>m, <2>2 DEF OneMsg
      <3> QED BY ONLY <1>n, <2>2, <3>1, <3>2 DEF OneScan
    <2>3. NoMsg(aq, "EV_SCAN_RESULTS") => OneMsg(aq, "EV_SCAN_RESULTS")
      BY ONLY DEF NoMsg, OneMsg
    <2> QED BY ONLY <2>1, <2>2, <2>3 DEF OneScan
  <1>3. DumpsFirst(cq, aq, d) => DumpsFirst(cq2, aq2, d2)
    <2> SUFFICES ASSUME DumpsFirst(cq, aq, d) PROVE DumpsFirst(cq2, aq2, d2)
      OBVIOUS
    <2>d. DumpsFirst(cq, aq, d)
      OBVIOUS
    <2>1. ASSUME NEW i \in 1..Len(cq2), cq2[i].cmd.cmd = "SCAN_RESULTS"
          PROVE  /\ d2 = 0 /\ NoMsg(aq2, "EV_SCAN_RESULTS")
                 /\ \A j \in 1..Len(cq2) : j < i => cq2[j].cmd.cmd # "SCAN"
      <3>1. /\ i + 1 \in 1..Len(cq) /\ cq[i + 1].cmd.cmd = "SCAN_RESULTS"
            /\ 1 \in 1..Len(cq) /\ 1 < i + 1
        BY <1>q, <2>1
      <3>2. /\ d = 0 /\ NoMsg(aq, "EV_SCAN_RESULTS")
            /\ \A j \in 1..Len(cq) : j < i + 1 => cq[j].cmd.cmd # "SCAN"
        BY ONLY <2>d, <3>1 DEF DumpsFirst
      <3>3. cq[1].cmd.cmd # "SCAN"
        BY ONLY <3>1, <3>2
      <3>4. d2 = 0
        BY ONLY <1>d, <3>2, <3>3
      <3>5. ASSUME NEW j \in 1..Len(cq2), j < i PROVE cq2[j].cmd.cmd # "SCAN"
        <4>1. j + 1 \in 1..Len(cq) /\ j + 1 < i + 1 /\ cq2[j] = cq[j + 1]
          BY <1>q, <3>5
        <4> QED BY ONLY <3>2, <4>1
      <3> QED BY ONLY <1>n, <3>2, <3>4, <3>5
    <2>2. ASSUME NEW i \in 1..Len(aq2), NEW j \in 1..Len(aq2), aq2[i].kind = "DUMP", j < i
          PROVE  aq2[j].kind # "EV_SCAN_RESULTS"
      <3>1. j \in 1..Len(aq) /\ aq2[j] = aq[j]
        BY <1>q, <2>2
      <3>2. CASE i \in 1..Len(aq)
        <4>1. aq[i].kind = "DUMP"
          BY <1>q, <2>2, <3>2
        <4> QED BY ONLY <2>2, <2>d, <3>1, <3>2, <4>1 DEF DumpsFirst
      <3>3. CASE i = Len(aq) + 1
        <4>1. cq[1].cmd.cmd = "SCAN_RESULTS" /\ 1 \in 1..Len(cq)
          BY <1>q, <1>d, <2>2, <3>3
        <4>2. NoMsg(aq, "EV_SCAN_RESULTS")
          BY ONLY <2>d, <4>1 DEF DumpsFirst
        <4> QED BY ONLY <3>1, <4>2 DEF NoMsg
      <3>4. i \in 1..Len(aq) \/ i = Len(aq) + 1
        BY <1>q
      <3> QED BY ONLY <3>2, <3>3, <3>4
    <2> QED BY ONLY <2>1, <2>2 DEF DumpsFirst
  <1> QED BY ONLY <1>1, <1>2, <1>3

\* ---- ... after the daemon has sent an event -------------------------------

LEMMA Fired ==
  ASSUME NEW T, NEW cq, NEW aq \in Seq(T), NEW m \in T, m.kind \in CtrlEvents,
         NEW aq2, aq2 = Append(aq, m)
  PROVE  /\ Settled(cq, aq) => Settled(cq, aq2)
         /\ \A k : NoMsg(aq, k) /\ m.kind # k => NoMsg(aq2, k)
         /\ \A x, k : Outstands(cq, aq, x, k) => Outstands(cq, aq2, x, k)
         /\ DumpLast(cq, aq) => DumpLast(cq, aq2)
  <1>q. /\ Len(aq) \in Nat /\ Len(aq2) = Len(aq) + 1
        /\ \A i \in 1..Len(aq) : aq2[i] = aq[i]
        /\ aq2[Len(aq) + 1] = m
    BY Grown
  <1>m. m.kind \in CtrlEvents /\ m.kind # "DUMP"
    BY DEF CtrlEvents
  <1>a. AllEvents(aq) => AllEvents(aq2)
    BY ONLY <1>q, <1>m DEF AllEvents
  <1>1. Settled(cq, aq) => Settled(cq, aq2)
    BY ONLY <1>a DEF Settled
  <1>2. \A k : NoMsg(aq, k) /\ m.kind # k => NoMsg(aq2, k)
    BY ONLY <1>q DEF NoMsg
  <1>3. ASSUME NEW x, NEW k, Outstands(cq, aq, x, k) PROVE Outstands(cq, aq2, x, k)
    <2>1. CASE Len(cq) = 1 /\ cq[1].cmd.cmd = x /\ AllEvents(aq)
      BY ONLY <1>a, <2>1 DEF Outstands
    <2>2. CASE Len(cq) = 0 /\ \E i \in 1..Len(aq) :
                  aq[i].kind = k /\ \A j \in 1..Len(aq) : j # i => aq[j].kind \in CtrlEvents
      <3>1. PICK i \in 1..Len(aq) :
                  aq[i].kind = k /\ \A j \in 1..Len(aq) : j # i => aq[j].kind \in CtrlEvents
        BY <2>2
      <3>2. i \in 1..Len(aq2) /\ aq2[i].kind = k
        BY <1>q, <3>1
      <3>3. ASSUME NEW j \in 1..Len(aq2), j # i PROVE aq2[j].kind \in CtrlEvents
        <4>1. j \in 1..Len(aq) \/ j = Len(aq) + 1
          BY <1>q
        <4> QED BY ONLY <1>q, <1>m, <3>1, <3>3, <4>1
      <3> QED BY ONLY <2>2, <3>2, <3>3 DEF Outstands
    <2> QED BY ONLY <1>3, <2>1, <2>2 DEF Outstands
  <1>4. ASSUME DumpLast(cq, aq) PROVE DumpLast(cq, aq2)
    <2>1. ASSUME NEW i \in 1..Len(aq2), aq2[i].kind = "DUMP"
          PROVE  Len(cq) = 0 /\ \A j \in 1..Len(aq2) : j > i => aq2[j].kind \in CtrlEvents
      <3>1. \A j \in 1..Len(aq2) : j \in 1..Len(aq) \/ j = Len(aq) + 1
        BY ONLY <1>q
      <3>2. i \in 1..Len(aq) /\ aq[i].kind = "DUMP"
        BY ONLY <1>q, <1>m, <2>1, <3>1, i \in 1..Len(aq2)
      <3>3. Len(cq) = 0 /\ \A j \in 1..Len(aq) : j > i => aq[j].kind \in CtrlEvents
        BY ONLY <1>4, <3>2 DEF DumpLast
      <3> QED BY ONLY <1>q, <1>m, <3>1, <3>3
    <2> QED BY ONLY <1>4, <2>1 DEF DumpLast
  <1> QED BY ONLY <1>1, <1>2, <1>3, <1>4, Zenon

\* The end of a scan is sent, or lost with the registration of the socket.
LEMMA FiredScan ==
  ASSUME NEW T, NEW cq, NEW aq \in Seq(T), NEW m \in T, m.kind = "EV_SCAN_RESULTS",
         NEW aq2, aq2 = Append(aq, m) \/ aq2 = aq,
         NEW d \in Nat, d > 0, NEW d2, d2 = d - 1
  PROVE  /\ ~NoScan(cq, aq, d)
         /\ OneScan(cq, aq, d) => OneScan(cq, aq2, d2)
         /\ DumpsFirst(cq, aq, d) => DumpsFirst(cq, aq2, d2)
  <1>d. d \in Nat /\ d > 0 /\ d2 = d - 1
    OBVIOUS
  <1>1. ~NoScan(cq, aq, d)
    BY ONLY <1>d DEF NoScan
  <1>2. ASSUME OneScan(cq, aq, d) PROVE OneScan(cq, aq2, d2)
    <2>1. d2 = 0 /\ NoMsg(aq, "EV_SCAN_RESULTS") /\ NoCmd(cq, "SCAN")
      BY ONLY <1>d, <1>2 DEF OneScan
    <2>2. OneMsg(aq2, "EV_SCAN_RESULTS")
      <3>1. CASE aq2 = aq
        BY ONLY <2>1, <3>1 DEF NoMsg, OneMsg
      <3>2. CASE aq2 = Append(aq, m)
        <4>1. /\ Len(aq) \in Nat /\ Len(aq2) = Len(aq) + 1
              /\ \A i \in 1..Len(aq) : aq2[i] = aq[i]
          BY <3>2, Grown
        <4>2. \A i \in 1..Len(aq2) : aq2[i].kind = "EV_SCAN_RESULTS" => i = Len(aq) + 1
          <5>1. \A j \in 1..Len(aq2) : j \in 1..Len(aq) \/ j = Len(aq) + 1
            BY ONLY <4>1
          <5> QED BY ONLY <2>1, <4>1, <5>1 DEF NoMsg
        <4> QED BY ONLY <4>2 DEF OneMsg
      <3> QED BY <3>1, <3>2
    <2> QED BY ONLY <2>1, <2>2 DEF OneScan
  <1>3. ASSUME DumpsFirst(cq, aq, d) PROVE DumpsFirst(cq, aq2, d2)
    <2>1. \A i \in 1..Len(cq) : cq[i].cmd.cmd # "SCAN_RESULTS"
      BY ONLY <1>d, <1>3 DEF DumpsFirst
    <2>2. CASE aq2 = aq
      BY ONLY <1>3, <2>1, <2>2 DEF DumpsFirst
    <2>3. CASE aq2 = Append(aq, m)
      <3>1. /\ Len(aq) \in Nat /\ Len(aq2) = Len(aq) + 1
            /\ \A i \in 1..Len(aq) : aq2[i] = aq[i]
            /\ aq2[Len(aq) + 1].kind # "DUMP"
        BY <2>3, Grown
      <3>2. ASSUME NEW i \in 1..Len(aq2), NEW j \in 1..Len(aq2), aq2[i].kind = "DUMP", j < i
            PROVE  aq2[j].kind # "EV_SCAN_RESULTS"
        <4>1. i \in 1..Len(aq) \/ i = Len(aq) + 1
          BY <3>1
        <4>2. i \in 1..Len(aq)
          BY ONLY <3>1, <3>2, <4>1
        <4>3. j \in 1..Len(aq)
          BY ONLY <3>1, <3>2, <4>2, j \in 1..Len(aq2)
        <4>4. aq[i].kind = "DUMP" /\ aq2[j] = aq[j]
          BY ONLY <3>1, <3>2, <4>2, <4>3
        <4> QED BY ONLY <1>3, <3>2, <4>2, <4>3, <4>4 DEF DumpsFirst
      <3> QED BY ONLY <2>1, <3>2 DEF DumpsFirst
    <2> QED BY <2>2, <2>3
  <1> QED BY ONLY <1>1, <1>2, <1>3

\* Another event, which is not the end of a scan, may be sent meanwhile.
LEMMA FiredOther ==
  ASSUME NEW T, NEW cq, NEW aq \in Seq(T), NEW m \in T,
         m.kind \notin {"EV_SCAN_RESULTS", "DUMP"}, NEW aq2, aq2 = Append(aq, m), NEW d
  PROVE  /\ NoScan(cq, aq, d) => NoScan(cq, aq2, d)
         /\ OneScan(cq, aq, d) => OneScan(cq, aq2, d)
         /\ DumpsFirst(cq, aq, d) => DumpsFirst(cq, aq2, d)
  <1>q. /\ Len(aq) \in Nat /\ Len(aq2) = Len(aq) + 1
        /\ \A i \in 1..Len(aq) : aq2[i] = aq[i]
        /\ aq2[Len(aq) + 1] = m
    BY Grown
  <1>m. m.kind # "EV_SCAN_RESULTS" /\ m.kind # "DUMP"
    OBVIOUS
  <1>i. \A j \in 1..Len(aq2) : j \in 1..Len(aq) \/ j = Len(aq) + 1
    BY ONLY <1>q
  <1>n. NoMsg(aq, "EV_SCAN_RESULTS") => NoMsg(aq2, "EV_SCAN_RESULTS")
    BY ONLY <1>q, <1>m, <1>i DEF NoMsg
  <1>o. OneMsg(aq, "EV_SCAN_RESULTS") => OneMsg(aq2, "EV_SCAN_RESULTS")
    BY ONLY <1>q, <1>m, <1>i DEF OneMsg
  <1>1. NoScan(cq, aq, d) => NoScan(cq, aq2, d)
    BY ONLY <1>n DEF NoScan
  <1>2. OneScan(cq, aq, d) => OneScan(cq, aq2, d)
    BY ONLY <1>n, <1>o DEF OneScan
  <1>3. ASSUME DumpsFirst(cq, aq, d) PROVE DumpsFirst(cq, aq2, d)
    <2>1. ASSUME NEW i \in 1..Len(aq2), NEW j \in 1..Len(aq2), aq2[i].kind = "DUMP", j < i
          PROVE  aq2[j].kind # "EV_SCAN_RESULTS"
      <3>1. i \in 1..Len(aq)
        BY ONLY <1>q, <1>m, <1>i, <2>1, i \in 1..Len(aq2)
      <3>2. j \in 1..Len(aq)
        BY ONLY <1>q, <2>1, <3>1, j \in 1..Len(aq2)
      <3>3. aq[i].kind = "DUMP" /\ aq2[j] = aq[j]
        BY ONLY <1>q, <2>1, <3>1, <3>2
      <3> QED BY ONLY <1>3, <2>1, <3>1, <3>2, <3>3 DEF DumpsFirst
    <2> QED BY ONLY <1>3, <1>n, <2>1 DEF DumpsFirst
  <1> QED BY ONLY <1>1, <1>2, <1>3

\* ---- ... after the device has read a datagram -----------------------------

LEMMA ReadOn ==
  ASSUME NEW T, NEW cq, NEW aq \in Seq(T), Len(aq) > 0, NEW aq2, aq2 = Tail(aq)
  PROVE  /\ \A k : NoMsg(aq, k) => NoMsg(aq2, k) /\ aq[1].kind # k
         /\ \A d : NoScan(cq, aq, d) => NoScan(cq, aq2, d)
         /\ \A d : OneScan(cq, aq, d) => OneScan(cq, aq2, d)
         /\ \A d : DumpsFirst(cq, aq, d) => DumpsFirst(cq, aq2, d)
         /\ DumpLast(cq, aq) => DumpLast(cq, aq2)
         /\ \A d : Selecting(cq, aq, d) => Selecting(cq, aq2, d)
  <1>q. /\ Len(aq) \in Nat /\ Len(aq) > 0 /\ Len(aq2) = Len(aq) - 1
        /\ \A i \in 1..(Len(aq) - 1) : aq2[i] = aq[i + 1]
    <2>1. aq # <<>>
      OBVIOUS
    <2> QED BY <2>1, Dequeued
  <1>i. \A i \in 1..Len(aq2) : i + 1 \in 1..Len(aq) /\ aq2[i] = aq[i + 1]
    BY ONLY <1>q
  <1>j. \A i, j \in 1..Len(aq2) : (i + 1 = j + 1 => i = j) /\ (i < j => i + 1 < j + 1)
    BY ONLY <1>q
  <1>1. \A k : NoMsg(aq, k) => NoMsg(aq2, k) /\ aq[1].kind # k
    BY ONLY <1>q, <1>i DEF NoMsg
  <1>2. \A d : NoScan(cq, aq, d) => NoScan(cq, aq2, d)
    BY ONLY <1>1 DEF NoScan
  <1>3. \A d : OneScan(cq, aq, d) => OneScan(cq, aq2, d)
    <2>1. OneMsg(aq, "EV_SCAN_RESULTS") => OneMsg(aq2, "EV_SCAN_RESULTS")
      BY ONLY <1>i, <1>j DEF OneMsg
    <2> QED BY ONLY <1>1, <2>1 DEF OneScan
  <1>4. ASSUME NEW d, DumpsFirst(cq, aq, d) PROVE DumpsFirst(cq, aq2, d)
    <2>1. \A i, j \in 1..Len(aq2) :
             aq2[i].kind = "DUMP" /\ j < i => aq2[j].kind # "EV_SCAN_RESULTS"
      BY ONLY <1>i, <1>j, <1>4 DEF DumpsFirst
    <2> QED BY ONLY <1>1, <1>4, <2>1 DEF DumpsFirst
  <1>5. ASSUME DumpLast(cq, aq) PROVE DumpLast(cq, aq2)
    <2>1. ASSUME NEW i \in 1..Len(aq2), aq2[i].kind = "DUMP"
          PROVE  Len(cq) = 0 /\ \A j \in 1..Len(aq2) : j > i => aq2[j].kind \in CtrlEvents
      <3>1. Len(cq) = 0 /\ \A j \in 1..Len(aq) : j > i + 1 => aq[j].kind \in CtrlEvents
        BY ONLY <1>i, <1>5, <2>1, i \in 1..Len(aq2) DEF DumpLast
      <3> QED BY ONLY <1>i, <1>j, <3>1, i \in 1..Len(aq2)
    <2> QED BY ONLY <1>5, <2>1 DEF DumpLast
  <1>6. ASSUME NEW d, Selecting(cq, aq, d) PROVE Selecting(cq, aq2, d)
    <2>1. CASE \A i, j \in 1..Len(aq) : aq[i].kind = "EV_CONNECTED" /\ j > i =>
                  aq[j].kind \in CtrlEvents \ {"EV_CONNECTED"}
      <3>1. ASSUME NEW i \in 1..Len(aq2), NEW j \in 1..Len(aq2), aq2[i].kind = "EV_CONNECTED", j > i
            PROVE  aq2[j].kind \in CtrlEvents \ {"EV_CONNECTED"}
        <4>1. /\ i + 1 \in 1..Len(aq) /\ j + 1 \in 1..Len(aq) /\ j + 1 > i + 1
              /\ aq[i + 1].kind = "EV_CONNECTED" /\ aq2[j] = aq[j + 1]
          BY ONLY <1>i, <1>j, <3>1, i \in 1..Len(aq2), j \in 1..Len(aq2)
        <4> QED BY ONLY <2>1, <4>1
      <3> QED BY ONLY <1>1, <1>6, <3>1 DEF Selecting
    <2>2. CASE NoMsg(aq, "EV_CONNECTED")
      <3>1. NoMsg(aq2, "EV_CONNECTED")
        BY ONLY <1>1, <2>2
      <3>2. \A i, j \in 1..Len(aq2) : aq2[i].kind = "EV_CONNECTED" /\ j > i =>
               aq2[j].kind \in CtrlEvents \ {"EV_CONNECTED"}
        BY ONLY <3>1 DEF NoMsg
      <3> QED BY ONLY <1>6, <3>1, <3>2 DEF Selecting
    <2> QED BY ONLY <1>6, <2>1, <2>2 DEF Selecting
  <1> QED BY ONLY <1>1, <1>2, <1>3, <1>4, <1>5, <1>6, Zenon

\* An event leaves the replies as they were.
LEMMA ReadEvent ==
  ASSUME NEW T, NEW cq, NEW aq \in Seq(T), Len(aq) > 0, NEW aq2, aq2 = Tail(aq),
         aq[1].kind \in CtrlEvents
  PROVE  /\ Settled(cq, aq) => Settled(cq, aq2)
         /\ \A x, k : k \notin CtrlEvents /\ Outstands(cq, aq, x, k) => Outstands(cq, aq2, x, k)
         /\ \A d : aq[1].kind = "EV_SCAN_RESULTS" /\ OneScan(cq, aq, d) => NoScan(cq, aq2, d)
         /\ \A d : aq[1].kind = "EV_SCAN_RESULTS" /\ DumpsFirst(cq, aq, d) =>
               NoCmd(cq, "SCAN_RESULTS") /\ NoMsg(aq2, "DUMP")
         /\ \A d : aq[1].kind = "EV_CONNECTED" /\ Selecting(cq, aq, d) =>
               Settled(cq, aq2) /\ NoMsg(aq2, "EV_CONNECTED") /\ d = 0
  <1>q. /\ Len(aq) \in Nat /\ Len(aq) > 0 /\ Len(aq2) = Len(aq) - 1
        /\ \A i \in 1..(Len(aq) - 1) : aq2[i] = aq[i + 1]
    <2>1. aq # <<>>
      OBVIOUS
    <2> QED BY <2>1, Dequeued
  <1>e. aq[1].kind \in CtrlEvents
    OBVIOUS
  <1>i. \A i \in 1..Len(aq2) : i + 1 \in 1..Len(aq) /\ i + 1 > 1 /\ i + 1 # 1 /\ aq2[i] = aq[i + 1]
    BY ONLY <1>q
  <1>o. 1 \in 1..Len(aq)
    BY ONLY <1>q
  <1>a. AllEvents(aq) => AllEvents(aq2)
    BY ONLY <1>i DEF AllEvents
  <1>1. Settled(cq, aq) => Settled(cq, aq2)
    BY ONLY <1>a DEF Settled
  <1>2. ASSUME NEW x, NEW k, k \notin CtrlEvents, Outstands(cq, aq, x, k)
        PROVE  Outstands(cq, aq2, x, k)
    <2>1. CASE Len(cq) = 1 /\ cq[1].cmd.cmd = x /\ AllEvents(aq)
      BY ONLY <1>a, <2>1 DEF Outstands
    <2>2. CASE Len(cq) = 0 /\ \E i \in 1..Len(aq) :
                  aq[i].kind = k /\ \A j \in 1..Len(aq) : j # i => aq[j].kind \in CtrlEvents
      <3>1. PICK i \in 1..Len(aq) :
                  aq[i].kind = k /\ \A j \in 1..Len(aq) : j # i => aq[j].kind \in CtrlEvents
        BY <2>2
      <3>2. i # 1
        BY ONLY <1>e, <1>2, <3>1
      <3>3. i - 1 \in 1..Len(aq2) /\ (i - 1) + 1 = i
        BY ONLY <1>q, <3>2, i \in 1..Len(aq)
      <3>4. aq2[i - 1].kind = k
        BY ONLY <1>i, <3>1, <3>3
      <3>5. ASSUME NEW j \in 1..Len(aq2), j # i - 1 PROVE aq2[j].kind \in CtrlEvents
        <4>1. j + 1 # i
          BY ONLY <1>q, <3>5, i \in 1..Len(aq), j \in 1..Len(aq2)
        <4> QED BY ONLY <1>i, <3>1, <4>1, j \in 1..Len(aq2)
      <3> QED BY ONLY <2>2, <3>3, <3>4, <3>5 DEF Outstands
    <2> QED BY ONLY <1>2, <2>1, <2>2 DEF Outstands
  <1>3. ASSUME NEW d, aq[1].kind = "EV_SCAN_RESULTS", OneScan(cq, aq, d) PROVE NoScan(cq, aq2, d)
    <2>1. /\ d = 0 /\ NoCmd(cq, "SCAN") /\ OneMsg(aq, "EV_SCAN_RESULTS")
      BY ONLY <1>o, <1>3 DEF OneScan, NoMsg
    <2>2. NoMsg(aq2, "EV_SCAN_RESULTS")
      BY ONLY <1>i, <1>o, <1>3, <2>1 DEF NoMsg, OneMsg
    <2> QED BY ONLY <2>1, <2>2 DEF NoScan
  <1>4. ASSUME NEW d, aq[1].kind = "EV_SCAN_RESULTS", DumpsFirst(cq, aq, d)
        PROVE  NoCmd(cq, "SCAN_RESULTS") /\ NoMsg(aq2, "DUMP")
    <2>1. NoCmd(cq, "SCAN_RESULTS")
      BY ONLY <1>o, <1>4 DEF DumpsFirst, NoCmd, NoMsg
    <2>2. ASSUME NEW i \in 1..Len(aq2) PROVE aq2[i].kind # "DUMP"
      <3>1. i + 1 \in 1..Len(aq) /\ 1 < i + 1 /\ aq2[i] = aq[i + 1]
        BY ONLY <1>q, <1>i, i \in 1..Len(aq2)
      <3> QED BY ONLY <1>o, <1>4, <3>1 DEF DumpsFirst
    <2> QED BY ONLY <2>1, <2>2 DEF NoMsg
  <1>5. ASSUME NEW d, aq[1].kind = "EV_CONNECTED", Selecting(cq, aq, d)
        PROVE  Settled(cq, aq2) /\ NoMsg(aq2, "EV_CONNECTED") /\ d = 0
    <2>1. /\ Len(cq) = 0 /\ d = 0
          /\ \A i, j \in 1..Len(aq) : aq[i].kind = "EV_CONNECTED" /\ j > i =>
                aq[j].kind \in CtrlEvents \ {"EV_CONNECTED"}
      BY ONLY <1>o, <1>5 DEF Selecting, NoMsg
    <2>2. \A i \in 1..Len(aq2) : aq2[i].kind \in CtrlEvents \ {"EV_CONNECTED"}
      BY ONLY <1>i, <1>o, <1>5, <2>1
    <2> QED BY ONLY <2>1, <2>2 DEF Settled, AllEvents, NoMsg
  <1> QED BY ONLY <1>1, <1>2, <1>3, <1>4, <1>5, Zenon

\* A reply is the one outstanding, and the only one.
LEMMA ReadReply ==
  ASSUME NEW T, NEW cq, NEW aq \in Seq(T), Len(aq) > 0, NEW aq2, aq2 = Tail(aq),
         aq[1].kind \notin CtrlEvents
  PROVE  /\ ~Settled(cq, aq)
         /\ \A x, k : Outstands(cq, aq, x, k) => aq[1].kind = k /\ Settled(cq, aq2)
         /\ aq[1].kind = "DUMP" /\ DumpLast(cq, aq) => Settled(cq, aq2)
  <1>q. /\ Len(aq) \in Nat /\ Len(aq) > 0 /\ Len(aq2) = Len(aq) - 1
        /\ \A i \in 1..(Len(aq) - 1) : aq2[i] = aq[i + 1]
    <2>1. aq # <<>>
      OBVIOUS
    <2> QED BY <2>1, Dequeued
  <1>e. aq[1].kind \notin CtrlEvents
    OBVIOUS
  <1>i. \A i \in 1..Len(aq2) : i + 1 \in 1..Len(aq) /\ i + 1 > 1 /\ i + 1 # 1 /\ aq2[i] = aq[i + 1]
    BY ONLY <1>q
  <1>o. 1 \in 1..Len(aq)
    BY ONLY <1>q
  <1>a. ~AllEvents(aq)
    BY ONLY <1>e, <1>o DEF AllEvents
  <1>1. ~Settled(cq, aq)
    BY ONLY <1>a DEF Settled
  <1>2. ASSUME NEW x, NEW k, Outstands(cq, aq, x, k) PROVE aq[1].kind = k /\ Settled(cq, aq2)
    <2>1. /\ Len(cq) = 0
          /\ \E i \in 1..Len(aq) :
                aq[i].kind = k /\ \A j \in 1..Len(aq) : j # i => aq[j].kind \in CtrlEvents
      BY ONLY <1>2, <1>a DEF Outstands
    <2>2. PICK i \in 1..Len(aq) :
                aq[i].kind = k /\ \A j \in 1..Len(aq) : j # i => aq[j].kind \in CtrlEvents
      BY <2>1
    <2>3. i = 1
      BY ONLY <1>e, <1>o, <2>2
    <2>4. AllEvents(aq2)
      BY ONLY <1>i, <2>2, <2>3 DEF AllEvents
    <2> QED BY ONLY <2>1, <2>2, <2>3, <2>4 DEF Settled
  <1>3. ASSUME aq[1].kind = "DUMP", DumpLast(cq, aq) PROVE Settled(cq, aq2)
    <2>1. Len(cq) = 0 /\ \A j \in 1..Len(aq) : j > 1 => aq[j].kind \in CtrlEvents
      BY ONLY <1>o, <1>3 DEF DumpLast
    <2>2. AllEvents(aq2)
      BY ONLY <1>i, <2>1 DEF AllEvents
    <2> QED BY ONLY <2>1, <2>2 DEF Settled
  <1> QED BY ONLY <1>1, <1>2, <1>3, Zenon

\* ---- ... after the device has sent a command ------------------------------

\* The queue after a send: the command is behind the others, or was lost because
\* there was no room.
Carries(cq, cq2, n) ==
    \/ cq2 = cq /\ Len(cq) # 0
    \/ /\ Len(cq2) = Len(cq) + 1
       /\ \A i \in 1..Len(cq) : cq2[i] = cq[i]
       /\ cq2[Len(cq) + 1].cmd.cmd = n

LEMMA SentOn ==
  ASSUME NEW S, NEW cq \in Seq(S), NEW aq, NEW n, NEW cq2, Carries(cq, cq2, n)
  PROVE  /\ \A x : NoCmd(cq, x) /\ n # x => NoCmd(cq2, x)
         /\ \A k : Settled(cq, aq) => Outstands(cq2, aq, n, k)
         /\ \A d : NoScan(cq, aq, d) => OneScan(cq2, aq, d)
         /\ \A d : n # "SCAN" /\ NoScan(cq, aq, d) => NoScan(cq2, aq, d)
         /\ \A d : DumpsFirst(cq, aq, d) /\ (n = "SCAN_RESULTS" => NoScan(cq, aq, d)) =>
               DumpsFirst(cq2, aq, d)
         /\ NoCmd(cq, "SCAN_RESULTS") /\ NoMsg(aq, "DUMP") => DumpLast(cq2, aq)
         /\ \A d : n = "SELECT_NETWORK" /\ Settled(cq, aq) /\ NoSelect(cq, aq, d) =>
               Selecting(cq2, aq, d)
  <1>n. Len(cq) \in Nat
    OBVIOUS
  <1>i. \/ cq2 = cq /\ Len(cq) # 0
        \/ /\ Len(cq2) = Len(cq) + 1
           /\ \A i \in 1..Len(cq) : cq2[i] = cq[i]
           /\ cq2[Len(cq) + 1].cmd.cmd = n
           /\ \A i \in 1..Len(cq2) : i \in 1..Len(cq) \/ i = Len(cq) + 1
    BY <1>n DEF Carries
  <1>1. \A x : NoCmd(cq, x) /\ n # x => NoCmd(cq2, x)
    BY ONLY <1>i DEF NoCmd
  <1>s. Len(cq) = 0 => Len(cq2) = 1 /\ cq2[1].cmd.cmd = n
    BY ONLY <1>i
  <1>2. \A k : Settled(cq, aq) => Outstands(cq2, aq, n, k)
    BY ONLY <1>s DEF Settled, Outstands
  <1>3. ASSUME NEW d, NoScan(cq, aq, d) PROVE OneScan(cq2, aq, d)
    <2>1. OneCmd(cq2, "SCAN")
      BY ONLY <1>i, <1>3 DEF NoScan, NoCmd, OneCmd
    <2> QED BY ONLY <1>3, <2>1 DEF NoScan, OneScan
  <1>4. \A d : n # "SCAN" /\ NoScan(cq, aq, d) => NoScan(cq2, aq, d)
    BY ONLY <1>1 DEF NoScan
  <1>5. ASSUME NEW d, DumpsFirst(cq, aq, d), n = "SCAN_RESULTS" => NoScan(cq, aq, d)
        PROVE  DumpsFirst(cq2, aq, d)
    <2>1. CASE cq2 = cq
      BY ONLY <1>5, <2>1
    <2>2. CASE cq2 # cq
      <3>q. /\ Len(cq2) = Len(cq) + 1 /\ \A i \in 1..Len(cq) : cq2[i] = cq[i]
            /\ cq2[Len(cq) + 1].cmd.cmd = n
            /\ \A i \in 1..Len(cq2) : i \in 1..Len(cq) \/ i = Len(cq) + 1
        BY ONLY <1>i, <2>2
      <3>1. ASSUME NEW i \in 1..Len(cq2), cq2[i].cmd.cmd = "SCAN_RESULTS"
            PROVE  /\ d = 0 /\ NoMsg(aq, "EV_SCAN_RESULTS")
                   /\ \A j \in 1..Len(cq2) : j < i => cq2[j].cmd.cmd # "SCAN"
        <4>1. CASE i \in 1..Len(cq)
          <5>1. cq[i].cmd.cmd = "SCAN_RESULTS"
            BY ONLY <3>q, <3>1, <4>1
          <5>2. /\ d = 0 /\ NoMsg(aq, "EV_SCAN_RESULTS")
                /\ \A j \in 1..Len(cq) : j < i => cq[j].cmd.cmd # "SCAN"
            BY ONLY <1>5, <4>1, <5>1 DEF DumpsFirst
          <5>3. \A j \in 1..Len(cq2) : j < i => j \in 1..Len(cq)
            BY ONLY <1>n, <3>q, <4>1
          <5> QED BY ONLY <3>q, <5>2, <5>3
        <4>2. CASE i = Len(cq) + 1
          <5>1. NoScan(cq, aq, d)
            BY ONLY <1>5, <3>q, <3>1, <4>2
          <5>2. \A j \in 1..Len(cq2) : j < i => j \in 1..Len(cq)
            BY ONLY <1>n, <3>q, <4>2
          <5> QED BY ONLY <3>q, <5>1, <5>2 DEF NoScan, NoCmd
        <4> QED BY ONLY <3>q, <4>1, <4>2, i \in 1..Len(cq2)
      <3> QED BY ONLY <1>5, <3>1 DEF DumpsFirst
    <2> QED BY <2>1, <2>2
  <1>6. ASSUME NoCmd(cq, "SCAN_RESULTS"), NoMsg(aq, "DUMP") PROVE DumpLast(cq2, aq)
    <2>1. \A i \in 1..Len(cq2) : cq2[i].cmd.cmd = "SCAN_RESULTS" => i = Len(cq2)
      BY ONLY <1>i, <1>6 DEF NoCmd
    <2> QED BY ONLY <1>6, <2>1 DEF DumpLast, NoMsg
  <1>7. ASSUME NEW d, n = "SELECT_NETWORK", Settled(cq, aq), NoSelect(cq, aq, d)
        PROVE  Selecting(cq2, aq, d)
    BY ONLY <1>s, <1>7 DEF Settled, NoSelect, Selecting
  <1> QED BY ONLY <1>1, <1>2, <1>3, <1>4, <1>5, <1>6, <1>7, Zenon

\* ---- ... while a network is selected --------------------------------------

LEMMA SelectServed ==
  ASSUME NEW cq, NEW aq, NEW m, NEW cq2, NEW aq2, Answered(cq, aq, m, cq2, aq2), NEW d
  PROVE  /\ NoSelect(cq, aq, d) => NoSelect(cq2, aq2, d) /\ cq[1].cmd.cmd # "SELECT_NETWORK"
         /\ Selecting(cq, aq, d) =>
              /\ Selecting(cq2, aq2, d + 1) /\ cq[1].cmd.cmd = "SELECT_NETWORK"
              /\ d = 0 /\ Len(cq2) = 0
  <1>q. /\ Len(cq) \in Nat /\ Len(aq) \in Nat /\ Len(cq) > 0
        /\ Len(cq2) = Len(cq) - 1 /\ \A i \in 1..(Len(cq) - 1) : cq2[i] = cq[i + 1]
        /\ Len(aq2) = Len(aq) + 1 /\ \A i \in 1..Len(aq) : aq2[i] = aq[i]
        /\ aq2[Len(aq) + 1] = m
    BY DEF Answered
  <1>m. m.kind # "EV_CONNECTED"
    BY DEF Answered, CtrlEvents
  <1>s. /\ \A x : NoCmd(cq, x) => NoCmd(cq2, x) /\ cq[1].cmd.cmd # x
        /\ \A k : NoMsg(aq, k) /\ m.kind # k => NoMsg(aq2, k)
    <2>1. \A x : NoCmd(cq, x) => NoCmd(cq2, x) /\ cq[1].cmd.cmd # x
      BY ONLY <1>q DEF NoCmd
    <2>2. \A k : NoMsg(aq, k) /\ m.kind # k => NoMsg(aq2, k)
      BY ONLY <1>q DEF NoMsg
    <2> QED BY ONLY <2>1, <2>2
  <1>1. NoSelect(cq, aq, d) => NoSelect(cq2, aq2, d) /\ cq[1].cmd.cmd # "SELECT_NETWORK"
    BY ONLY <1>s, <1>m DEF NoSelect
  <1>2. ASSUME Selecting(cq, aq, d)
        PROVE  /\ Selecting(cq2, aq2, d + 1) /\ cq[1].cmd.cmd = "SELECT_NETWORK"
               /\ d = 0 /\ Len(cq2) = 0
    <2>1. Len(cq) = 1 /\ cq[1].cmd.cmd = "SELECT_NETWORK" /\ d = 0 /\ NoMsg(aq, "EV_CONNECTED")
      BY ONLY <1>q, <1>2 DEF Selecting
    <2>2. Len(cq2) = 0 /\ d + 1 = 1 /\ NoMsg(aq2, "EV_CONNECTED")
      BY ONLY <1>q, <1>s, <1>m, <2>1
    <2> QED BY ONLY <2>1, <2>2 DEF Selecting
  <1> QED BY ONLY <1>1, <1>2

LEMMA SelectFired ==
  ASSUME NEW T, NEW cq, NEW aq \in Seq(T), NEW m \in T, NEW aq2, NEW d \in Nat, NEW d2,
         \/ m.kind = "EV_CONNECTED" /\ d > 0 /\ d2 = d - 1 /\ (aq2 = Append(aq, m) \/ aq2 = aq)
         \/ m.kind = "EV_SCAN_RESULTS" /\ d2 = d /\ (aq2 = Append(aq, m) \/ aq2 = aq)
  PROVE  /\ NoSelect(cq, aq, d) => NoSelect(cq, aq2, d2)
         /\ Selecting(cq, aq, d) => Selecting(cq, aq2, d2)
  <1>h. \/ m.kind = "EV_CONNECTED" /\ d > 0 /\ d2 = d - 1 /\ (aq2 = Append(aq, m) \/ aq2 = aq)
        \/ m.kind = "EV_SCAN_RESULTS" /\ d2 = d /\ (aq2 = Append(aq, m) \/ aq2 = aq)
    OBVIOUS
  <1>d. d \in Nat
    OBVIOUS
  <1>q. aq2 # aq => /\ Len(aq) \in Nat /\ Len(aq2) = Len(aq) + 1
                    /\ \A i \in 1..Len(aq) : aq2[i] = aq[i]
                    /\ aq2[Len(aq) + 1] = m
                    /\ \A i \in 1..Len(aq2) : i \in 1..Len(aq) \/ i = Len(aq) + 1
    <2> SUFFICES ASSUME aq2 # aq
                 PROVE  /\ Len(aq) \in Nat /\ Len(aq2) = Len(aq) + 1
                        /\ \A i \in 1..Len(aq) : aq2[i] = aq[i]
                        /\ aq2[Len(aq) + 1] = m
                        /\ \A i \in 1..Len(aq2) : i \in 1..Len(aq) \/ i = Len(aq) + 1
      OBVIOUS
    <2>1. aq2 = Append(aq, m)
      BY <1>h
    <2>2. /\ Len(aq) \in Nat /\ Len(aq2) = Len(aq) + 1
          /\ \A i \in 1..Len(aq) : aq2[i] = aq[i]
          /\ aq2[Len(aq) + 1] = m
      BY <2>1, Grown
    <2>3. \A i \in 1..Len(aq2) : i \in 1..Len(aq) \/ i = Len(aq) + 1
      BY ONLY <2>2
    <2> QED BY ONLY <2>2, <2>3
  <1>n. m.kind = "EV_SCAN_RESULTS" /\ NoMsg(aq, "EV_CONNECTED") => NoMsg(aq2, "EV_CONNECTED")
    BY ONLY <1>q DEF NoMsg
  <1>1. NoSelect(cq, aq, d) => NoSelect(cq, aq2, d2)
    BY ONLY <1>h, <1>d, <1>n DEF NoSelect
  <1>2. ASSUME Selecting(cq, aq, d) PROVE Selecting(cq, aq2, d2)
    <2>1. CASE m.kind = "EV_CONNECTED"
      <3>1. Len(cq) = 0 /\ d2 = 0 /\ NoMsg(aq, "EV_CONNECTED")
        BY ONLY <1>h, <1>d, <1>2, <2>1 DEF Selecting
      <3>2. ASSUME NEW i \in 1..Len(aq2), NEW j \in 1..Len(aq2), aq2[i].kind = "EV_CONNECTED", j > i
            PROVE  aq2[j].kind \in CtrlEvents \ {"EV_CONNECTED"}
        <4>1. CASE aq2 = aq
          BY ONLY <3>1, <3>2, <4>1, i \in 1..Len(aq2) DEF NoMsg
        <4>2. CASE aq2 # aq
          <5>1. i = Len(aq) + 1
            BY ONLY <1>q, <3>1, <3>2, <4>2, i \in 1..Len(aq2) DEF NoMsg
          <5> QED BY ONLY <1>q, <3>2, <4>2, <5>1, j \in 1..Len(aq2)
        <4> QED BY <4>1, <4>2
      <3> QED BY ONLY <3>1, <3>2 DEF Selecting
    <2>2. CASE m.kind = "EV_SCAN_RESULTS"
      <3>1. d2 = d
        BY ONLY <1>h, <2>2
      <3>2. CASE aq2 = aq
        BY ONLY <1>2, <3>1, <3>2
      <3>3. CASE aq2 # aq /\ \A i, j \in 1..Len(aq) : aq[i].kind = "EV_CONNECTED" /\ j > i =>
                                aq[j].kind \in CtrlEvents \ {"EV_CONNECTED"}
        <4>1. ASSUME NEW i \in 1..Len(aq2), NEW j \in 1..Len(aq2), aq2[i].kind = "EV_CONNECTED", j > i
              PROVE  aq2[j].kind \in CtrlEvents \ {"EV_CONNECTED"}
          <5>1. i \in 1..Len(aq) /\ aq[i].kind = "EV_CONNECTED"
            BY ONLY <1>q, <2>2, <3>3, <4>1, i \in 1..Len(aq2)
          <5>2. CASE j \in 1..Len(aq)
            BY ONLY <1>q, <3>3, <4>1, <5>1, <5>2
          <5>3. CASE j = Len(aq) + 1
            BY ONLY <1>q, <2>2, <3>3, <5>3 DEF CtrlEvents
          <5> QED BY ONLY <1>q, <3>3, <5>2, <5>3, j \in 1..Len(aq2)
        <4> QED BY ONLY <1>2, <1>n, <2>2, <3>1, <4>1 DEF Selecting
      <3>4. CASE NoMsg(aq, "EV_CONNECTED")
        <4>1. NoMsg(aq2, "EV_CONNECTED")
          BY ONLY <1>n, <2>2, <3>4
        <4>2. \A i, j \in 1..Len(aq2) : aq2[i].kind = "EV_CONNECTED" /\ j > i =>
                 aq2[j].kind \in CtrlEvents \ {"EV_CONNECTED"}
          BY ONLY <4>1 DEF NoMsg
        <4> QED BY ONLY <1>2, <3>1, <4>1, <4>2 DEF Selecting
      <3> QED BY ONLY <1>2, <3>2, <3>3, <3>4 DEF Selecting
    <2> QED BY ONLY <1>h, <2>1, <2>2
  <1> QED BY ONLY <1>1, <1>2

-----------------------------------------------------------------------------
\* ---- The inductive invariant of the station -------------------------------

\* The _delayed_event() threads asleep, by event.
Ends  == delayed["EV_SCAN_RESULTS"]
Joins == delayed["EV_CONNECTED"]

\* The socket is opened by the first step of the application and stays open.
SocketUp ==
    /\ app_pc = "init" =>
          /\ Len(cmd_q) = 0 /\ Len(client_q) = 0 /\ ~linked /\ ~ctrl_open
          /\ conn_state = "NONE" /\ status = "UNINIT" /\ event = NoEvent /\ got_ip_timers = 0
    /\ app_pc # "init" =>
          ctrl_open /\ linked /\ \A i \in 1..Len(cmd_q) : cmd_q[i].from = client_path

\* Until the event task runs nothing is exchanged but ATTACH and its answer.
Starting == \/ app_pc \in {"mode", "mode_poll", "ssid", "pass", "start", "start_poll"}
            \/ app_pc = "scan" /\ evt_pc = "none"

Attaching ==
    /\ conn_state = "ATTACH_SENT" /\ event = NoEvent /\ got_ip_timers = 0
    /\ Outstands(cmd_q, client_q, "ATTACH", "OK")

StartUp ==
    /\ app_pc = "init_poll" => Attaching \/ (conn_state = "IDLE" /\ Settled(cmd_q, client_q))
    /\ Starting => conn_state = "IDLE" /\ Settled(cmd_q, client_q)
    /\ conn_state = "ATTACH_SENT" => app_pc = "init_poll"
    /\ evt_pc = "none" => /\ app_pc # "wait" /\ Len(loop_q) = 0 /\ ~scan_only
                          /\ NoScan(cmd_q, client_q, Ends)
    /\ app_pc \notin {"scan", "wait"} => evt_pc = "none"
    /\ evt_pc \notin {"ack", "post"} => evt = NoEvent
    /\ app_pc # "abort" /\ event # "ERROR"
    /\ app_pc \in {"pass", "start", "start_poll", "scan", "wait"} => ssid = AppSsid
    /\ app_pc \in {"start", "start_poll", "scan", "wait"} => pass = AppPass

\* The start-up scan has one end, and its results come before those of the scan
\* of the join, which are the last reply outstanding when they are waited for.
Scanning ==
    /\ scan_only => conn_state \in {"SCAN_SENT", "SCAN_RESULTS_SENT"}
    /\ scan_only /\ conn_state = "SCAN_SENT" => OneScan(cmd_q, client_q, Ends)
    /\ IF conn_state = "SCAN_RESULTS_SENT" /\ ~scan_only
       THEN DumpLast(cmd_q, client_q)
       ELSE DumpsFirst(cmd_q, client_q, Ends)

\* From there on one reply is outstanding at a time, and CONNECTED is sent once.
Joining ==
    /\ IF conn_state = "SELECT_SENT"
       THEN Selecting(cmd_q, client_q, Joins)
       ELSE NoSelect(cmd_q, client_q, Joins)
    /\ conn_state = "ADD_NET_SENT" => Outstands(cmd_q, client_q, "ADD_NETWORK", "ID")
    /\ conn_state = "SET_SSID_SENT" => Outstands(cmd_q, client_q, "SET_SSID", "OK")
    /\ conn_state = "SET_PSK_SENT" => Outstands(cmd_q, client_q, "SET_PSK", "OK")
    /\ conn_state = "GETTING_STATUS" => Outstands(cmd_q, client_q, "STATUS", "STATUS")
    /\ conn_state = "CONNECTED" => Settled(cmd_q, client_q)
    /\ status = "CONNECTED" => conn_state \in {"GETTING_STATUS", "CONNECTED"}

\* What the daemon answers: ids it has given, its address, no DISCONNECTED.
Answering ==
    \A i \in 1..Len(client_q) :
        /\ client_q[i].kind # "EV_DISCONNECTED"
        /\ client_q[i].kind = "STATUS" => client_q[i].ip = MockIp
        /\ client_q[i].kind = "ID" => client_q[i].id \in DOMAIN networks

\* How far the daemon has configured the network of the join.
Configuring ==
    /\ conn_state \in {"SET_SSID_SENT", "SET_PSK_SENT", "SELECT_SENT"} =>
          net_id \in DOMAIN networks
    /\ conn_state = "SET_SSID_SENT" =>
          IF Len(cmd_q) = 0 THEN networks[net_id].ssid = AppSsid
          ELSE cmd_q[1].cmd = Set("SET_SSID", net_id, AppSsid)
    /\ conn_state = "SET_PSK_SENT" =>
          /\ networks[net_id].ssid = AppSsid
          /\ IF Len(cmd_q) = 0 THEN networks[net_id].psk = AppPass
             ELSE cmd_q[1].cmd = Set("SET_PSK", net_id, AppPass)
    /\ conn_state = "SELECT_SENT" =>
          /\ networks[net_id].ssid = AppSsid /\ networks[net_id].psk = AppPass
          /\ Len(cmd_q) # 0 => cmd_q[1].cmd.id = net_id

\* What makes the application connect: an event of the loop that is handled by
\* esp_wifi_connect(), or the DISCONNECTED it will come from.  There is one at
\* most, and none once the sequencer has begun to join.
IsTicket(e)  == e \in {"STA_START", "STA_DISCONNECTED"}
NoTicket(q)  == \A i \in 1..Len(q) : ~IsTicket(q[i])
OneTicket(q) == \A i, j \in 1..Len(q) : IsTicket(q[i]) /\ IsTicket(q[j]) => i = j

Idles == conn_state \in {"NONE", "IDLE"} \/ scan_only

Tickets ==
    /\ OneTicket(loop_q)
    /\ ~NoTicket(loop_q) => event # "DISCONNECTED" /\ evt # "DISCONNECTED"
    /\ ~NoTicket(loop_q) \/ event = "DISCONNECTED" \/ evt = "DISCONNECTED" =>
          Idles /\ app_pc = "wait"
    /\ evt = "DISCONNECTED" /\ evt_pc = "post" => event # "DISCONNECTED"
    /\ app_pc = "scan" => Idles

\* CONNECTED is on its way to the application only with an address.
NoGotIp(q) == \A i \in 1..Len(q) : q[i] # "STA_GOT_IP"

Addressed ==
    ip_addr = Nothing => /\ event # "CONNECTED" /\ evt # "CONNECTED"
                         /\ "CONNECTED" \notin bits /\ NoGotIp(loop_q)

Exchange == Scanning /\ Joining /\ Answering /\ Configuring
Tasks    == StartUp /\ Tickets /\ Addressed

\* ---- What a step does to the two sockets ----------------------------------

LEMMA Types ==
  ASSUME StationTypes
  PROVE  /\ TypeOK /\ QueueTypes /\ DaemonTypes /\ LinkedBound /\ StaTypeOK
         /\ cmd_q \in Seq(Datagrams) /\ Len(cmd_q) <= QueueMax /\ client_q \in Seq(Msgs)
         /\ Ends \in Nat /\ Joins \in Nat
  <1>1. TypeOK /\ QueueTypes /\ DaemonTypes /\ LinkedBound /\ StaTypeOK
    BY TypesSplit DEF StationTypes, LinkTypes
  <1>2. cmd_q \in Seq(Datagrams) /\ Len(cmd_q) <= QueueMax /\ client_q \in Seq(Msgs)
    BY <1>1 DEF QueueTypes
  <1>3. Ends \in Nat /\ Joins \in Nat
    <2>1. delayed \in [Delayable -> 0..MaxDelayed]
      BY <1>1 DEF DaemonTypes
    <2> QED BY <2>1, MockBoundAssumption DEF Ends, Joins, Delayable
  <1> QED BY <1>1, <1>2, <1>3

LEMMA Transmitted ==
  ASSUME StationTypes, linked, sent' \in Seq(Cmds), Transmit
  PROVE  /\ client_path \in Paths /\ cmd_q \in Seq(Datagrams) /\ cmd_q' \in Seq(Datagrams)
         /\ Len(cmd_q) <= Len(cmd_q') /\ Len(cmd_q') <= QueueMax
         /\ \A i \in 1..Len(cmd_q) : cmd_q'[i] = cmd_q[i]
         /\ \A i \in 1..Len(cmd_q') :
               i > Len(cmd_q) => /\ i - Len(cmd_q) \in 1..Len(sent')
                                 /\ cmd_q'[i] = [from |-> client_path,
                                                 cmd |-> sent'[i - Len(cmd_q)]]
         /\ Len(cmd_q) + Len(sent') <= QueueMax => Len(cmd_q') = Len(cmd_q) + Len(sent')
  <1>1. client_path \in Paths /\ cmd_q \in Seq(Datagrams) /\ Len(cmd_q) <= QueueMax
    BY Types DEF LinkedBound
  <1>2. cmd_q' = Enqueue(cmd_q, client_path, sent')
    BY DEF Transmit
  <1>3. sent' \in Seq(Cmds)
    OBVIOUS
  <1>4. /\ cmd_q' \in Seq(Datagrams)
        /\ \A i \in 1..Len(cmd_q) : cmd_q'[i] = cmd_q[i]
    BY <1>1, <1>2, <1>3, Enqueued
  <1>5. Len(cmd_q) <= Len(cmd_q') /\ Len(cmd_q') <= QueueMax
    BY <1>1, <1>2, <1>3, Enqueued
  <1>6. Len(cmd_q) + Len(sent') <= QueueMax => Len(cmd_q') = Len(cmd_q) + Len(sent')
    BY <1>1, <1>2, <1>3, Enqueued
  <1>7. \A i \in 1..Len(cmd_q') :
            i > Len(cmd_q) => /\ i - Len(cmd_q) \in 1..Len(sent')
                              /\ cmd_q'[i] = [from |-> client_path,
                                              cmd |-> sent'[i - Len(cmd_q)]]
    BY <1>1, <1>2, <1>3, Enqueued
  <1> QED BY ONLY <1>1, <1>4, <1>5, <1>6, <1>7

\* Nothing is sent: the daemon's queue stays as it is.
LEMMA Silent ==
  ASSUME StationTypes, sent' = <<>>, Transmit
  PROVE  cmd_q' = cmd_q
  <1>1. CASE linked
    <2>1. sent' \in Seq(Cmds) /\ Len(sent') = 0
      OBVIOUS
    <2>2. /\ cmd_q \in Seq(Datagrams) /\ cmd_q' \in Seq(Datagrams) /\ Len(cmd_q) <= QueueMax
          /\ \A i \in 1..Len(cmd_q) : cmd_q'[i] = cmd_q[i]
          /\ Len(cmd_q) + Len(sent') <= QueueMax => Len(cmd_q') = Len(cmd_q) + Len(sent')
      BY <1>1, <2>1, Transmitted, Types
    <2>5. Len(cmd_q') = Len(cmd_q)
      BY <2>1, <2>2
    <2> QED BY ONLY <2>2, <2>5, SameElements
  <1>2. CASE ~linked
    BY <1>2 DEF Transmit
  <1> QED BY <1>1, <1>2

\* One command is sent: it is behind the others, or lost when there was no room.
LEMMA Sends ==
  ASSUME StationTypes, SocketUp, app_pc # "init", NEW c \in Cmds, sent' = <<c>>, Transmit
  PROVE  /\ Carries(cmd_q, cmd_q', c.cmd)
         /\ \A i \in 1..Len(cmd_q') : cmd_q'[i].from = client_path
         /\ Len(cmd_q) = 0 => Len(cmd_q') = 1 /\ cmd_q'[1].cmd = c
         /\ Len(cmd_q') # 0
  <1>1. /\ cmd_q \in Seq(Datagrams) /\ Len(cmd_q) <= QueueMax
        /\ \A i \in 1..Len(cmd_q) : cmd_q[i].from = client_path
    BY Types DEF SocketUp
  <1>2. linked
    BY DEF SocketUp
  <1>3. sent' \in Seq(Cmds) /\ Len(sent') = 1 /\ sent'[1] = c
    OBVIOUS
  <1>4. /\ cmd_q' \in Seq(Datagrams)
        /\ Len(cmd_q) <= Len(cmd_q') /\ Len(cmd_q') <= QueueMax
        /\ \A i \in 1..Len(cmd_q) : cmd_q'[i] = cmd_q[i]
        /\ \A i \in 1..Len(cmd_q') :
              i > Len(cmd_q) => /\ i - Len(cmd_q) \in 1..Len(sent')
                                /\ cmd_q'[i] = [from |-> client_path,
                                                cmd |-> sent'[i - Len(cmd_q)]]
        /\ Len(cmd_q) + Len(sent') <= QueueMax => Len(cmd_q') = Len(cmd_q) + Len(sent')
    BY <1>2, <1>3, Transmitted
  <1>n. Len(cmd_q) \in Nat /\ Len(cmd_q') \in Nat /\ QueueMax \in Nat /\ QueueMax > 0
    BY <1>1, <1>4, QueueAssumption
  <1>5. CASE Len(cmd_q') = Len(cmd_q)
    <2>1. cmd_q' = cmd_q
      BY ONLY <1>1, <1>4, <1>5, SameElements
    <2>2. Len(cmd_q) # 0
      BY ONLY <1>3, <1>4, <1>5, <1>n
    <2> QED BY ONLY <1>1, <2>1, <2>2 DEF Carries
  <1>6. CASE Len(cmd_q') # Len(cmd_q)
    <2>1. \A i \in 1..Len(cmd_q') : i > Len(cmd_q) =>
             i = Len(cmd_q) + 1 /\ cmd_q'[i] = [from |-> client_path, cmd |-> c]
      <3> SUFFICES ASSUME NEW i \in 1..Len(cmd_q'), i > Len(cmd_q)
                   PROVE  i = Len(cmd_q) + 1
                          /\ cmd_q'[i] = [from |-> client_path, cmd |-> c]
        OBVIOUS
      <3>1. /\ i - Len(cmd_q) \in 1..1
            /\ cmd_q'[i] = [from |-> client_path, cmd |-> sent'[i - Len(cmd_q)]]
        BY <1>3, <1>4
      <3>2. i - Len(cmd_q) = 1 /\ i = Len(cmd_q) + 1
        BY <1>n, <3>1
      <3> QED BY <1>3, <3>1, <3>2
    <2>2. Len(cmd_q') = Len(cmd_q) + 1
      BY ONLY <1>4, <1>6, <1>n, <2>1
    <2>3. Len(cmd_q) + 1 \in 1..Len(cmd_q') /\ Len(cmd_q) + 1 > Len(cmd_q)
      BY ONLY <1>n, <2>2
    <2>4. cmd_q'[Len(cmd_q) + 1] = [from |-> client_path, cmd |-> c]
      BY ONLY <2>1, <2>3
    <2>5. cmd_q'[Len(cmd_q) + 1].cmd = c /\ cmd_q'[Len(cmd_q) + 1].from = client_path
      BY ONLY <2>4
    <2>6. \A i \in 1..Len(cmd_q') : i \in 1..Len(cmd_q) \/ i = Len(cmd_q) + 1
      BY ONLY <1>n, <2>2
    <2>7. \A i \in 1..Len(cmd_q') : cmd_q'[i].from = client_path
      BY ONLY <1>1, <1>4, <2>5, <2>6
    <2>8. Len(cmd_q) = 0 => Len(cmd_q') = 1 /\ cmd_q'[1].cmd = c
      BY ONLY <2>2, <2>5
    <2>9. Len(cmd_q') # 0
      BY ONLY <1>n, <2>2
    <2> QED BY ONLY <1>4, <2>2, <2>5, <2>7, <2>8, <2>9 DEF Carries
  <1> QED BY ONLY <1>5, <1>6

\* What the daemon's answer to a command is, and what else it changes.
ReplyKind(c) ==
    CASE c.cmd = "SCAN_RESULTS" -> "DUMP"
      [] c.cmd = "ADD_NETWORK"  -> "ID"
      [] c.cmd = "STATUS"       -> "STATUS"
      [] c.cmd \in {"SET_SSID", "SET_PSK"} /\ c.id \notin DOMAIN networks -> "FAIL"
      [] OTHER -> "OK"

AnswerTo(c, m) ==
    /\ m \in Msgs /\ m.kind = ReplyKind(c)
    /\ m.kind = "STATUS" => m.ip = MockIp
    /\ m.kind = "ID" => m.id \in DOMAIN networks'
    /\ DOMAIN networks \subseteq DOMAIN networks'
    /\ c.cmd \notin {"SET_SSID", "SET_PSK"} =>
          \A n \in DOMAIN networks : networks'[n] = networks[n]
    /\ c.cmd = "SET_SSID" =>
          \A n \in DOMAIN networks :
             /\ n = c.id => networks'[n].ssid = c.val /\ networks'[n].psk = networks[n].psk
             /\ n # c.id => networks'[n] = networks[n]
    /\ c.cmd = "SET_PSK" =>
          \A n \in DOMAIN networks :
             /\ n = c.id => networks'[n].psk = c.val /\ networks'[n].ssid = networks[n].ssid
             /\ n # c.id => networks'[n] = networks[n]
    /\ Ends' = IF c.cmd = "SCAN" THEN Ends + 1 ELSE Ends
    /\ Joins' = IF c.cmd = "SELECT_NETWORK" THEN Joins + 1 ELSE Joins

LEMMA AnswerKind ==
  ASSUME NEW c, NEW m, AnswerTo(c, m)
  PROVE  /\ m \in Msgs /\ m.kind \notin CtrlEvents
         /\ m.kind = "DUMP" <=> c.cmd = "SCAN_RESULTS"
         /\ c.cmd = "ATTACH" => m.kind = "OK"
         /\ c.cmd = "ADD_NETWORK" => m.kind = "ID"
         /\ c.cmd = "STATUS" => m.kind = "STATUS"
         /\ c.cmd \in {"SET_SSID", "SET_PSK"} /\ c.id \in DOMAIN networks => m.kind = "OK"
         /\ m.kind = "STATUS" => m.ip = MockIp
         /\ m.kind = "ID" => m.id \in DOMAIN networks'
  BY DEF AnswerTo, ReplyKind, CtrlEvents

LEMMA Handled ==
  ASSUME DaemonTypes, NEW p, p = client_path, NEW c \in Cmds, Handle(p, c)
  PROVE  \E m : AnswerTo(c, m) /\ client_q' = Append(client_q, m)
  <1> DEFINE Goal == \E m : AnswerTo(c, m) /\ client_q' = Append(client_q, m)
  <1> SUFFICES Goal
    OBVIOUS
  <1>s. \A msg : SendTo(p, msg) => client_q' = Append(client_q, msg)
    BY DEF SendTo
  <1>r. \A k : Reply(p, k) => client_q' = Append(client_q, [kind |-> k])
    BY <1>s DEF Reply
  <1>d. UNCHANGED delayed => Ends' = Ends /\ Joins' = Joins
    BY DEF Ends, Joins
  <1>n. UNCHANGED networks => /\ DOMAIN networks \subseteq DOMAIN networks'
                              /\ \A n \in DOMAIN networks : networks'[n] = networks[n]
    OBVIOUS
  <1>ok. ASSUME c.cmd \notin {"SCAN_RESULTS", "ADD_NETWORK", "STATUS", "SET_SSID", "SET_PSK"},
                UNCHANGED networks, Reply(p, "OK"),
                Ends' = IF c.cmd = "SCAN" THEN Ends + 1 ELSE Ends,
                Joins' = IF c.cmd = "SELECT_NETWORK" THEN Joins + 1 ELSE Joins
         PROVE  Goal
    <2>1. AnswerTo(c, [kind |-> "OK"])
      BY <1>ok, <1>n, AnswersParse DEF AnswerTo, ReplyKind
    <2> QED BY <1>ok, <1>r, <2>1
  <1>1. CASE \/ c.cmd = "ATTACH" /\ HandleAttach(p)
             \/ c.cmd = "DETACH" /\ HandleDetach(p)
             \/ c.cmd = "DISABLE_NETWORK" /\ HandleDisable(p)
    <2> HIDE DEF Goal
    <2>1. Reply(p, "OK") /\ UNCHANGED <<networks, delayed>>
      BY <1>1 DEF HandleAttach, HandleDetach, HandleDisable
    <2> QED BY <1>1, <1>d, <1>ok, <2>1
  <1>2. ASSUME NEW e \in Delayable, HandleDelayed(p, e),
               \/ e = "EV_SCAN_RESULTS" /\ c.cmd = "SCAN"
               \/ e = "EV_CONNECTED" /\ c.cmd = "SELECT_NETWORK"
        PROVE  Goal
    <2> HIDE DEF Goal
    <2>1. Reply(p, "OK") /\ UNCHANGED networks
          /\ delayed' = [delayed EXCEPT ![e] = delayed[e] + 1]
      BY <1>2 DEF HandleDelayed
    <2>2. delayed \in [Delayable -> 0..MaxDelayed]
      BY DEF DaemonTypes
    <2>3. /\ Ends' = IF e = "EV_SCAN_RESULTS" THEN Ends + 1 ELSE Ends
          /\ Joins' = IF e = "EV_CONNECTED" THEN Joins + 1 ELSE Joins
      BY <2>1, <2>2 DEF Ends, Joins, Delayable
    <2> QED BY <1>2, <1>ok, <2>1, <2>3
  <1>3. CASE c.cmd = "SCAN_RESULTS" /\ HandleScanResults(p)
    <2> DEFINE m == [kind |-> "DUMP", n |-> 1]
    <2>1. client_q' = Append(client_q, m) /\ UNCHANGED <<networks, delayed>>
      BY <1>3, <1>s DEF HandleScanResults
    <2>2. AnswerTo(c, m)
      BY <1>3, <1>d, <1>n, <2>1, AnswersParse DEF AnswerTo, ReplyKind
    <2> QED BY <2>1, <2>2
  <1>4. CASE c.cmd = "ADD_NETWORK" /\ HandleAddNetwork(p)
    <2> DEFINE m == [kind |-> "ID", id |-> net_counter]
    <2>1. /\ client_q' = Append(client_q, m) /\ UNCHANGED delayed
          /\ net_counter < MaxNets
          /\ networks' = [n \in 0..net_counter |->
                            IF n = net_counter THEN [ssid |-> "unset", psk |-> "unset"]
                            ELSE networks[n]]
      BY <1>4, <1>s DEF HandleAddNetwork
    <2>2. net_counter \in 0..MaxNets /\ DOMAIN networks = 0..(net_counter - 1)
      BY DEF DaemonTypes
    <2>3. net_counter \in 0..(MaxNets - 1) /\ net_counter \in 0..net_counter
          /\ \A n \in 0..(net_counter - 1) : n \in 0..net_counter /\ n # net_counter
      BY ONLY <2>1, <2>2, MockBoundAssumption
    <2>4. m \in Msgs
      BY <2>3, MockAnswersAssumption, AnswersParse
    <2>5. DOMAIN networks' = 0..net_counter
      BY <2>1
    <2>6. \A n \in DOMAIN networks : n \in DOMAIN networks' /\ networks'[n] = networks[n]
      BY <2>1, <2>2, <2>3
    <2>7. AnswerTo(c, m)
      BY <1>4, <1>d, <2>1, <2>3, <2>4, <2>5, <2>6 DEF AnswerTo, ReplyKind
    <2> QED BY <2>1, <2>7
  <1>5. CASE c.cmd \in {"SET_SSID", "SET_PSK"} /\ HandleSetNetwork(p, c)
    <2>1. UNCHANGED delayed
      BY <1>5 DEF HandleSetNetwork
    <2>2. CASE c.id \in DOMAIN networks
      <3> DEFINE m == [kind |-> "OK"]
      <3>1. client_q' = Append(client_q, m)
        BY <1>5, <1>r, <2>2 DEF HandleSetNetwork
      <3>2. networks[c.id] \in Network
        BY <2>2 DEF DaemonTypes
      <3>3. networks' = [networks EXCEPT
                           ![c.id] = IF c.cmd = "SET_SSID"
                                     THEN [networks[c.id] EXCEPT !.ssid = c.val]
                                     ELSE [networks[c.id] EXCEPT !.psk = c.val]]
        BY <1>5, <2>2 DEF HandleSetNetwork
      <3>4. /\ DOMAIN networks' = DOMAIN networks
            /\ \A n \in DOMAIN networks : n # c.id => networks'[n] = networks[n]
            /\ networks'[c.id] = IF c.cmd = "SET_SSID"
                                 THEN [networks[c.id] EXCEPT !.ssid = c.val]
                                 ELSE [networks[c.id] EXCEPT !.psk = c.val]
        BY <2>2, <3>3
      <3>5. /\ c.cmd = "SET_SSID" => /\ networks'[c.id].ssid = c.val
                                     /\ networks'[c.id].psk = networks[c.id].psk
            /\ c.cmd = "SET_PSK" => /\ networks'[c.id].psk = c.val
                                    /\ networks'[c.id].ssid = networks[c.id].ssid
        BY <3>2, <3>4 DEF Network
      <3>6. m \in Msgs
        BY AnswersParse
      <3>7. AnswerTo(c, m)
        BY <1>5, <1>d, <2>1, <2>2, <3>4, <3>5, <3>6 DEF AnswerTo, ReplyKind
      <3> QED BY <3>1, <3>7
    <2>3. CASE c.id \notin DOMAIN networks
      <3> DEFINE m == [kind |-> "FAIL"]
      <3>1. client_q' = Append(client_q, m) /\ UNCHANGED networks
        BY <1>5, <1>r, <2>3 DEF HandleSetNetwork
      <3>2. m \in Msgs
        BY AnswersParse
      <3>3. AnswerTo(c, m)
        BY <1>5, <1>d, <1>n, <2>1, <2>3, <3>1, <3>2 DEF AnswerTo, ReplyKind
      <3> QED BY <3>1, <3>3
    <2> QED BY <2>2, <2>3
  <1>6. CASE c.cmd = "STATUS" /\ HandleStatus(p)
    <2> DEFINE m == [kind |-> "STATUS", ip |-> MockIp, ap |-> MockAp]
    <2>1. client_q' = Append(client_q, m) /\ UNCHANGED <<networks, delayed>>
      BY <1>6, <1>s DEF HandleStatus
    <2>2. AnswerTo(c, m)
      BY <1>6, <1>d, <1>n, <2>1, AnswersParse DEF AnswerTo, ReplyKind
    <2> QED BY <2>1, <2>2
  <1>7. "EV_SCAN_RESULTS" \in Delayable /\ "EV_CONNECTED" \in Delayable
    BY DEF Delayable
  <1> HIDE DEF Goal
  <1>8. /\ HandleDelayed(p, "EV_SCAN_RESULTS") /\ c.cmd = "SCAN" => Goal
        /\ HandleDelayed(p, "EV_CONNECTED") /\ c.cmd = "SELECT_NETWORK" => Goal
    BY ONLY <1>2, <1>7
  <1> QED BY ONLY <1>1, <1>3, <1>4, <1>5, <1>6, <1>8, Handle(p, c) DEF Handle

\* The daemon serves the first command in its queue: the answer is behind the
\* others in the queue of the device.
LEMMA Serves ==
  ASSUME StationTypes, SocketUp, MockServe
  PROVE  /\ Len(cmd_q) > 0 /\ app_pc # "init"
         /\ cmd_q' = Tail(cmd_q)
         /\ \E m : AnswerTo(cmd_q[1].cmd, m) /\ client_q' = Append(client_q, m)
         /\ \A i \in 1..Len(cmd_q') : cmd_q'[i].from = client_path
  <1>1. cmd_q \in Seq(Datagrams) /\ cmd_q # <<>> /\ DaemonTypes
    BY Types DEF MockServe
  <1>2. /\ Head(cmd_q) \in Datagrams /\ Head(cmd_q) = cmd_q[1] /\ 1 \in 1..Len(cmd_q)
        /\ Len(cmd_q) \in Nat /\ Len(Tail(cmd_q)) = Len(cmd_q) - 1
        /\ \A i \in 1..(Len(cmd_q) - 1) : Tail(cmd_q)[i] = cmd_q[i + 1]
    BY <1>1, Dequeued
  <1>3. Len(cmd_q) > 0 /\ app_pc # "init"
    BY <1>2 DEF SocketUp
  <1>4. /\ cmd_q[1].from = client_path /\ cmd_q[1].cmd \in Cmds
        /\ \A i \in 1..Len(cmd_q) : cmd_q[i].from = client_path
    BY <1>2, <1>3 DEF SocketUp, Datagrams
  <1>5. cmd_q' = Tail(cmd_q) /\ Handle(cmd_q[1].from, cmd_q[1].cmd)
    BY <1>2 DEF MockServe
  <1>6. \E m : AnswerTo(cmd_q[1].cmd, m) /\ client_q' = Append(client_q, m)
    BY <1>1, <1>4, <1>5, Handled
  <1>7. \A i \in 1..Len(cmd_q') : cmd_q'[i].from = client_path
    BY <1>2, <1>4, <1>5
  <1> QED BY <1>3, <1>5, <1>6, <1>7

\* ---- Steps that leave the sockets and the sequencer alone -----------------

LEMMA ExchangeFrame ==
  ASSUME Exchange, status' = "CONNECTED" => status = "CONNECTED",
         UNCHANGED <<cmd_q, client_q, conn_state, scan_only, delayed, networks, net_id>>
  PROVE  Exchange'
  <1>1. Ends' = Ends /\ Joins' = Joins
    BY DEF Ends, Joins
  <1>2. /\ cmd_q' = cmd_q /\ client_q' = client_q /\ conn_state' = conn_state
        /\ scan_only' = scan_only /\ networks' = networks /\ net_id' = net_id
        /\ status' = "CONNECTED" => status = "CONNECTED"
    OBVIOUS
  <1>3. Scanning'
    BY ONLY Exchange, <1>1, <1>2 DEF Exchange, Scanning
  <1>4. Joining'
    BY ONLY Exchange, <1>1, <1>2 DEF Exchange, Joining
  <1>5. Answering' /\ Configuring'
    BY ONLY Exchange, <1>1, <1>2 DEF Exchange, Answering, Configuring
  <1> QED BY ONLY <1>3, <1>4, <1>5 DEF Exchange

\* ---- Steps of the application that send a command -------------------------

LEMMA SendOne ==
  ASSUME StationTypes, SocketUp, app_pc # "init", NEW c \in Cmds, Send(c), Transmit
  PROVE  /\ Carries(cmd_q, cmd_q', c.cmd)
         /\ \A i \in 1..Len(cmd_q') : cmd_q'[i].from = client_path
         /\ Len(cmd_q) = 0 => Len(cmd_q') = 1 /\ cmd_q'[1].cmd = c
         /\ Len(cmd_q') # 0
  <1>1. sent' = <<c>>
    BY DEF Send, SocketUp
  <1> QED BY <1>1, Sends

\* A command the device has sent that starts no exchange of its own.
LEMMA SentAnd ==
  ASSUME StationTypes, NEW n, NEW aq, Carries(cmd_q, cmd_q', n)
  PROVE  /\ \A x : NoCmd(cmd_q, x) /\ n # x => NoCmd(cmd_q', x)
         /\ \A k : Settled(cmd_q, aq) => Outstands(cmd_q', aq, n, k)
         /\ NoScan(cmd_q, aq, Ends) => OneScan(cmd_q', aq, Ends)
         /\ n # "SCAN" /\ NoScan(cmd_q, aq, Ends) => NoScan(cmd_q', aq, Ends)
         /\ DumpsFirst(cmd_q, aq, Ends)
              /\ (n = "SCAN_RESULTS" => NoScan(cmd_q, aq, Ends)) =>
               DumpsFirst(cmd_q', aq, Ends)
         /\ NoCmd(cmd_q, "SCAN_RESULTS") /\ NoMsg(aq, "DUMP") => DumpLast(cmd_q', aq)
         /\ n = "SELECT_NETWORK" /\ Settled(cmd_q, aq) /\ NoSelect(cmd_q, aq, Joins) =>
               Selecting(cmd_q', aq, Joins)
         /\ n # "SELECT_NETWORK" /\ NoSelect(cmd_q, aq, Joins) =>
               NoSelect(cmd_q', aq, Joins)
  <1>1. cmd_q \in Seq(Datagrams)
    BY Types
  <1>2. /\ \A x : NoCmd(cmd_q, x) /\ n # x => NoCmd(cmd_q', x)
        /\ \A k : Settled(cmd_q, aq) => Outstands(cmd_q', aq, n, k)
        /\ \A d : NoScan(cmd_q, aq, d) => OneScan(cmd_q', aq, d)
        /\ \A d : n # "SCAN" /\ NoScan(cmd_q, aq, d) => NoScan(cmd_q', aq, d)
        /\ \A d : DumpsFirst(cmd_q, aq, d)
                    /\ (n = "SCAN_RESULTS" => NoScan(cmd_q, aq, d)) =>
               DumpsFirst(cmd_q', aq, d)
        /\ NoCmd(cmd_q, "SCAN_RESULTS") /\ NoMsg(aq, "DUMP") => DumpLast(cmd_q', aq)
        /\ \A d : n = "SELECT_NETWORK" /\ Settled(cmd_q, aq) /\ NoSelect(cmd_q, aq, d) =>
               Selecting(cmd_q', aq, d)
    BY <1>1, SentOn
  <1>3. n # "SELECT_NETWORK" /\ NoSelect(cmd_q, aq, Joins) =>
           NoSelect(cmd_q', aq, Joins)
    BY ONLY <1>2 DEF NoSelect
  <1> QED BY ONLY <1>2, <1>3

LEMMA SentQueues ==
  ASSUME StationTypes, NEW n, Carries(cmd_q, cmd_q', n)
  PROVE  \A aq :
         /\ \A k : Settled(cmd_q, aq) => Outstands(cmd_q', aq, n, k)
         /\ NoScan(cmd_q, aq, Ends) => OneScan(cmd_q', aq, Ends)
         /\ n # "SCAN" /\ NoScan(cmd_q, aq, Ends) => NoScan(cmd_q', aq, Ends)
         /\ DumpsFirst(cmd_q, aq, Ends)
              /\ (n = "SCAN_RESULTS" => NoScan(cmd_q, aq, Ends)) =>
               DumpsFirst(cmd_q', aq, Ends)
         /\ NoCmd(cmd_q, "SCAN_RESULTS") /\ NoMsg(aq, "DUMP") => DumpLast(cmd_q', aq)
         /\ n = "SELECT_NETWORK" /\ Settled(cmd_q, aq) /\ NoSelect(cmd_q, aq, Joins) =>
               Selecting(cmd_q', aq, Joins)
         /\ n # "SELECT_NETWORK" /\ NoSelect(cmd_q, aq, Joins) =>
               NoSelect(cmd_q', aq, Joins)
  BY SentAnd

\* WIFI_CMD_CONNECT of an idle sequencer, and the WIFI_CMD_SCAN of the start.
LEMMA ScanStarts ==
  ASSUME StationTypes, SocketUp, app_pc # "init", Exchange, status # "CONNECTED", Idles,
         Send(Plain("SCAN")), Transmit, conn_state' = "SCAN_SENT",
         scan_only' => NoScan(cmd_q, client_q, Ends),
         UNCHANGED <<status, client_q, delayed, networks, net_id>>
  PROVE  Exchange' /\ \A i \in 1..Len(cmd_q') : cmd_q'[i].from = client_path
  <1>1. Plain("SCAN") \in Cmds /\ Plain("SCAN").cmd = "SCAN"
    BY PlainIsCmd DEF CmdNames, Plain
  <1>2. Carries(cmd_q, cmd_q', "SCAN") /\ \A i \in 1..Len(cmd_q') : cmd_q'[i].from = client_path
    BY <1>1, SendOne
  <1>3. /\ NoScan(cmd_q, client_q, Ends) => OneScan(cmd_q', client_q, Ends)
        /\ DumpsFirst(cmd_q, client_q, Ends) => DumpsFirst(cmd_q', client_q, Ends)
        /\ NoSelect(cmd_q, client_q, Joins) => NoSelect(cmd_q', client_q, Joins)
    BY <1>2, SentQueues
  <1>u. /\ Ends' = Ends /\ Joins' = Joins /\ client_q' = client_q /\ networks' = networks
        /\ status' = status /\ status # "CONNECTED" /\ conn_state' = "SCAN_SENT"
        /\ scan_only' => NoScan(cmd_q, client_q, Ends)
    BY DEF Ends, Joins
  <1>4. DumpsFirst(cmd_q, client_q, Ends) /\ NoSelect(cmd_q, client_q, Joins)
    BY DEF Exchange, Scanning, Joining, Idles
  <1>5. Scanning'
    BY ONLY <1>3, <1>4, <1>u DEF Scanning
  <1>6. Joining'
    BY ONLY <1>3, <1>4, <1>u DEF Joining
  <1>7. Answering'
    BY ONLY <1>u, Exchange DEF Answering, Exchange
  <1>8. Configuring'
    BY ONLY <1>u DEF Configuring
  <1> QED BY ONLY <1>2, <1>5, <1>6, <1>7, <1>8 DEF Exchange

\* WIFI_CMD_DISCONNECT while the station is CONNECTED.
LEMMA DisconnectStep ==
  ASSUME StationTypes, SocketUp, app_pc # "init", Exchange, status = "CONNECTED",
         WriteCmd(CmdDisconnect)
  PROVE  /\ Exchange' /\ \A i \in 1..Len(cmd_q') : cmd_q'[i].from = client_path
         /\ conn_state \in {"GETTING_STATUS", "CONNECTED"} /\ ~scan_only
         /\ conn_state' = "IDLE"
  <1>1. conn_state \in {"GETTING_STATUS", "CONNECTED"} /\ ~scan_only
    BY DEF Exchange, Scanning, Joining
  <1>2. DumpsFirst(cmd_q, client_q, Ends) /\ NoSelect(cmd_q, client_q, Joins)
    BY <1>1 DEF Exchange, Scanning, Joining
  <1>3. /\ \A i \in 1..Len(cmd_q') : cmd_q'[i].from = client_path
        /\ DumpsFirst(cmd_q', client_q, Ends) /\ NoSelect(cmd_q', client_q, Joins)
    <2>1. CASE net_id >= 0
      <3>1. net_id \in NetIds \cup {-1}
        BY Types DEF TypeOK, DataTypeOK
      <3>2. OnNet("DISABLE_NETWORK", net_id) \in Cmds
            /\ OnNet("DISABLE_NETWORK", net_id).cmd = "DISABLE_NETWORK"
        BY <3>1, OnNetIsCmd DEF CmdNames, OnNet
      <3>3. Send(OnNet("DISABLE_NETWORK", net_id)) /\ Transmit
        BY <2>1 DEF WriteCmd, CmdDisconnect
      <3>4. /\ Carries(cmd_q, cmd_q', "DISABLE_NETWORK")
            /\ \A i \in 1..Len(cmd_q') : cmd_q'[i].from = client_path
        BY <3>2, <3>3, SendOne
      <3> QED BY <1>2, <3>4, SentQueues
    <2>2. CASE ~(net_id >= 0)
      <3>1. sent' = <<>> /\ Transmit
        BY <2>2 DEF WriteCmd, CmdDisconnect
      <3>2. cmd_q' = cmd_q
        BY <3>1, Silent
      <3> QED BY <1>2, <3>2 DEF SocketUp
    <2> QED BY <2>1, <2>2
  <1>u. /\ Ends' = Ends /\ Joins' = Joins /\ client_q' = client_q /\ networks' = networks
        /\ status' = "STARTED" /\ conn_state' = "IDLE" /\ scan_only' = scan_only
    BY DEF WriteCmd, CmdDisconnect, GuestIdle, mockVars, Ends, Joins
  <1>5. Scanning'
    BY ONLY <1>1, <1>3, <1>u DEF Scanning
  <1>6. Joining'
    BY ONLY <1>3, <1>u DEF Joining
  <1>7. Answering'
    BY ONLY <1>u, Exchange DEF Answering, Exchange
  <1>8. Configuring'
    BY ONLY <1>u DEF Configuring
  <1> QED BY ONLY <1>1, <1>3, <1>u, <1>5, <1>6, <1>7, <1>8 DEF Exchange

\* ---- The device reads a datagram ------------------------------------------

LEMMA ReadQueues ==
  ASSUME StationTypes, Len(client_q) > 0, client_q' = Tail(client_q)
  PROVE  /\ \A k : NoMsg(client_q, k) => NoMsg(client_q', k) /\ client_q[1].kind # k
         /\ OneScan(cmd_q, client_q, Ends) => OneScan(cmd_q, client_q', Ends)
         /\ DumpsFirst(cmd_q, client_q, Ends) => DumpsFirst(cmd_q, client_q', Ends)
         /\ DumpLast(cmd_q, client_q) => DumpLast(cmd_q, client_q')
         /\ Selecting(cmd_q, client_q, Joins) => Selecting(cmd_q, client_q', Joins)
         /\ NoSelect(cmd_q, client_q, Joins) =>
               NoSelect(cmd_q, client_q', Joins) /\ client_q[1].kind # "EV_CONNECTED"
         /\ NoScan(cmd_q, client_q, Ends) => NoScan(cmd_q, client_q', Ends)
  <1>1. client_q \in Seq(Msgs)
    BY Types
  <1>2. /\ \A k : NoMsg(client_q, k) => NoMsg(client_q', k) /\ client_q[1].kind # k
        /\ \A d : NoScan(cmd_q, client_q, d) => NoScan(cmd_q, client_q', d)
        /\ \A d : OneScan(cmd_q, client_q, d) => OneScan(cmd_q, client_q', d)
        /\ \A d : DumpsFirst(cmd_q, client_q, d) => DumpsFirst(cmd_q, client_q', d)
        /\ DumpLast(cmd_q, client_q) => DumpLast(cmd_q, client_q')
        /\ \A d : Selecting(cmd_q, client_q, d) => Selecting(cmd_q, client_q', d)
    BY <1>1, ReadOn
  <1>3. NoSelect(cmd_q, client_q, Joins) =>
           NoSelect(cmd_q, client_q', Joins) /\ client_q[1].kind # "EV_CONNECTED"
    BY ONLY <1>2 DEF NoSelect
  <1> QED BY ONLY <1>2, <1>3

LEMMA EventQueues ==
  ASSUME StationTypes, Len(client_q) > 0, client_q' = Tail(client_q),
         client_q[1].kind \in CtrlEvents
  PROVE  /\ Settled(cmd_q, client_q) => Settled(cmd_q, client_q')
         /\ \A x, k : k \notin CtrlEvents /\ Outstands(cmd_q, client_q, x, k) =>
               Outstands(cmd_q, client_q', x, k)
         /\ client_q[1].kind = "EV_SCAN_RESULTS" =>
              /\ OneScan(cmd_q, client_q, Ends) => NoScan(cmd_q, client_q', Ends)
              /\ DumpsFirst(cmd_q, client_q, Ends) =>
                    NoCmd(cmd_q, "SCAN_RESULTS") /\ NoMsg(client_q', "DUMP")
         /\ client_q[1].kind = "EV_CONNECTED" /\ Selecting(cmd_q, client_q, Joins) =>
              Settled(cmd_q, client_q') /\ NoMsg(client_q', "EV_CONNECTED") /\ Joins = 0
  <1>1. client_q \in Seq(Msgs)
    BY Types
  <1>2. Settled(cmd_q, client_q) => Settled(cmd_q, client_q')
    BY <1>1, ReadEvent
  <1>3. \A x, k : k \notin CtrlEvents /\ Outstands(cmd_q, client_q, x, k) =>
              Outstands(cmd_q, client_q', x, k)
    BY <1>1, ReadEvent
  <1>4. \A d : client_q[1].kind = "EV_SCAN_RESULTS" /\ OneScan(cmd_q, client_q, d) =>
              NoScan(cmd_q, client_q', d)
    BY <1>1, ReadEvent
  <1>5. \A d : client_q[1].kind = "EV_SCAN_RESULTS" /\ DumpsFirst(cmd_q, client_q, d) =>
              NoCmd(cmd_q, "SCAN_RESULTS") /\ NoMsg(client_q', "DUMP")
    BY <1>1, ReadEvent
  <1>6. ASSUME client_q[1].kind = "EV_CONNECTED", Selecting(cmd_q, client_q, Joins)
        PROVE  Settled(cmd_q, client_q') /\ NoMsg(client_q', "EV_CONNECTED") /\ Joins = 0
    <2>1. Settled(cmd_q, client_q')
      BY <1>1, <1>6, ReadEvent
    <2>2. NoMsg(client_q', "EV_CONNECTED")
      BY <1>1, <1>6, ReadEvent
    <2>3. Joins = 0
      <3>1. Len(client_q) \in Nat /\ Len(client_q) > 0
        BY <1>1
      <3> QED BY ONLY <1>6, <3>1 DEF Selecting, NoMsg
    <2> QED BY ONLY <2>1, <2>2, <2>3
  <1> QED BY ONLY <1>2, <1>3, <1>4, <1>5, <1>6

LEMMA ReplyQueues ==
  ASSUME StationTypes, Len(client_q) > 0, client_q' = Tail(client_q),
         client_q[1].kind \notin CtrlEvents
  PROVE  /\ ~Settled(cmd_q, client_q)
         /\ \A x, k : Outstands(cmd_q, client_q, x, k) =>
               client_q[1].kind = k /\ Settled(cmd_q, client_q')
         /\ client_q[1].kind = "DUMP" /\ DumpLast(cmd_q, client_q) => Settled(cmd_q, client_q')
  <1>1. client_q \in Seq(Msgs)
    BY Types
  <1> QED BY <1>1, ReadReply

\* What every read does.
Reads(m) ==
    /\ Len(client_q) > 0 /\ app_pc # "init"
    /\ m = client_q[1] /\ m \in Msgs /\ CtrlRead(m)
    /\ client_q' = Tail(client_q) /\ Transmit
    /\ client_path' = client_path /\ linked' = linked /\ networks' = networks
    /\ Ends' = Ends /\ Joins' = Joins
    /\ app_pc' = app_pc /\ evt_pc' = evt_pc /\ evt' = evt /\ loop_q' = loop_q /\ bits' = bits

LEMMA ReadsHead ==
  ASSUME StationTypes, SocketUp, LinkRead, GuestIdle,
         UNCHANGED <<app_pc, evt_pc, evt, loop_q, bits>>
  PROVE  Reads(client_q[1])
  <1>1. client_q \in Seq(Msgs) /\ client_q # <<>>
    BY Types DEF LinkRead
  <1>2. Len(client_q) > 0 /\ Head(client_q) = client_q[1] /\ client_q[1] \in Msgs
    BY <1>1
  <1>3. app_pc # "init"
    BY <1>2 DEF SocketUp
  <1>4. CtrlRead(client_q[1]) /\ client_q' = Tail(client_q) /\ Transmit /\ KeepSocket
    BY <1>2 DEF LinkRead
  <1> QED BY <1>2, <1>3, <1>4 DEF Reads, KeepSocket, GuestIdle, mockVars, Ends, Joins

LEMMA ReadAnswers ==
  ASSUME StationTypes, Answering, NEW m, Reads(m)
  PROVE  /\ Answering'
         /\ m.kind # "EV_DISCONNECTED" /\ (m.kind = "STATUS" => m.ip = MockIp)
         /\ m.kind = "ID" => m.id \in DOMAIN networks
  <1>1. client_q \in Seq(Msgs) /\ client_q # <<>> /\ Len(client_q) > 0
    BY Types DEF Reads
  <1>2. /\ 1 \in 1..Len(client_q) /\ Len(client_q) \in Nat
        /\ Len(Tail(client_q)) = Len(client_q) - 1
        /\ \A i \in 1..(Len(client_q) - 1) : Tail(client_q)[i] = client_q[i + 1]
    BY <1>1, Dequeued
  <1>3. client_q' = Tail(client_q) /\ networks' = networks /\ m = client_q[1]
    BY DEF Reads
  <1>4. \A i \in 1..Len(client_q') : i + 1 \in 1..Len(client_q) /\ client_q'[i] = client_q[i + 1]
    BY ONLY <1>2, <1>3
  <1>5. Answering'
    BY ONLY <1>3, <1>4, Answering DEF Answering
  <1> QED BY ONLY <1>2, <1>3, <1>5, Answering DEF Answering

\* The answer to the last command has been read, and the next one is sent.
LEMMA JoinGoesOn ==
  ASSUME StationTypes, SocketUp, app_pc # "init", Settled(cmd_q, client_q'),
         NoSelect(cmd_q, client_q', Joins),
         NEW c \in Cmds, Send(c), Transmit, c.cmd # "SCAN_RESULTS"
  PROVE  /\ DumpsFirst(cmd_q', client_q', Ends)
         /\ \A k : Outstands(cmd_q', client_q', c.cmd, k)
         /\ c.cmd = "SELECT_NETWORK" => Selecting(cmd_q', client_q', Joins)
         /\ c.cmd # "SELECT_NETWORK" => NoSelect(cmd_q', client_q', Joins)
         /\ \A i \in 1..Len(cmd_q') : cmd_q'[i].from = client_path
         /\ Len(cmd_q) = 0 /\ Len(cmd_q') = 1 /\ cmd_q'[1].cmd = c
  <1>1. Len(cmd_q) = 0 /\ AllEvents(client_q')
    BY DEF Settled
  <1>2. /\ Carries(cmd_q, cmd_q', c.cmd)
        /\ \A i \in 1..Len(cmd_q') : cmd_q'[i].from = client_path
        /\ Len(cmd_q') = 1 /\ cmd_q'[1].cmd = c
    BY <1>1, SendOne
  <1>3. /\ \A k : Settled(cmd_q, client_q') => Outstands(cmd_q', client_q', c.cmd, k)
        /\ c.cmd = "SELECT_NETWORK" /\ Settled(cmd_q, client_q')
             /\ NoSelect(cmd_q, client_q', Joins) => Selecting(cmd_q', client_q', Joins)
        /\ c.cmd # "SELECT_NETWORK" /\ NoSelect(cmd_q, client_q', Joins) =>
             NoSelect(cmd_q', client_q', Joins)
    BY <1>2, SentQueues
  <1>4. DumpsFirst(cmd_q', client_q', Ends)
    <2>1. NoMsg(client_q', "DUMP")
      BY ONLY <1>1 DEF AllEvents, NoMsg, CtrlEvents
    <2>2. c.cmd # "SCAN_RESULTS"
      OBVIOUS
    <2>3. \A i \in 1..Len(cmd_q') : cmd_q'[i].cmd.cmd # "SCAN_RESULTS"
      BY ONLY <1>2, <2>2
    <2> QED BY ONLY <2>1, <2>3 DEF DumpsFirst, NoMsg
  <1> QED BY <1>1, <1>2, <1>3, <1>4

\* ---- Steps that leave the tasks alone -------------------------------------

\* A sequencer that is at work has been started: the event task runs.
LEMMA Busy ==
  ASSUME StationTypes, SocketUp, StartUp, app_pc # "init",
         conn_state \notin {"NONE", "ATTACH_SENT", "IDLE"}
  PROVE  /\ app_pc \in {"scan", "wait"} /\ evt_pc # "none"
         /\ ssid = AppSsid /\ pass = AppPass
  <1>1. app_pc \in AppPcs
    BY Types DEF StaTypeOK
  <1>2. app_pc \notin {"init_poll", "abort"} /\ ~Starting
    BY DEF StartUp, Attaching
  <1>3. app_pc \in {"scan", "wait"} /\ evt_pc # "none"
    BY ONLY <1>1, <1>2, StartUp, app_pc # "init" DEF Starting, AppPcs, StartUp
  <1>4. ssid = AppSsid /\ pass = AppPass
    BY ONLY <1>3, StartUp DEF StartUp
  <1> QED BY <1>3, <1>4

LEMMA TasksKept ==
  ASSUME Tasks, app_pc \in {"scan", "wait"}, evt_pc # "none",
         app_pc' = app_pc, evt_pc' = evt_pc, evt' = evt, loop_q' = loop_q, bits' = bits,
         ssid' = ssid, pass' = pass, conn_state' # "ATTACH_SENT", Idles => Idles',
         ip_addr' = Nothing => ip_addr = Nothing,
         \/ event' = event
         \/ event' \notin {"ERROR", "DISCONNECTED", "CONNECTED"}
         \/ event' = "CONNECTED" /\ ip_addr' # Nothing
  PROVE  Tasks'
  <1>1. StartUp /\ Tickets /\ Addressed
    BY DEF Tasks
  <1>2. StartUp'
    <2>1. event' # "ERROR"
      BY <1>1 DEF StartUp
    <2>2. /\ app_pc' = app_pc /\ evt_pc' = evt_pc /\ evt' = evt
          /\ ssid' = ssid /\ pass' = pass /\ conn_state' # "ATTACH_SENT"
          /\ app_pc \in {"scan", "wait"} /\ evt_pc # "none"
      OBVIOUS
    <2> QED BY ONLY <1>1, <2>1, <2>2 DEF StartUp, Starting
  <1>3. Tickets'
    <2>1. /\ app_pc' = app_pc /\ evt_pc' = evt_pc /\ evt' = evt /\ loop_q' = loop_q
          /\ (Idles => Idles') /\ (event' = "DISCONNECTED" => event = "DISCONNECTED")
      OBVIOUS
    <2> QED BY ONLY <1>1, <2>1 DEF Tickets
  <1>4. Addressed'
    <2>1. /\ evt' = evt /\ loop_q' = loop_q /\ bits' = bits
          /\ ip_addr' = Nothing => ip_addr = Nothing
          /\ ip_addr' = Nothing /\ event' = "CONNECTED" => event = "CONNECTED"
      OBVIOUS
    <2> QED BY ONLY <1>1, <2>1 DEF Addressed
  <1> QED BY <1>2, <1>3, <1>4 DEF Tasks

\* What is to be shown of a read.
Froms  == \A i \in 1..Len(cmd_q') : cmd_q'[i].from = client_path
Passed == Exchange' /\ Tasks' /\ Froms /\ ctrl_open' = ctrl_open

\* ---- The reads ------------------------------------------------------------

LEMMA ReadIgnored ==
  ASSUME StationTypes, SocketUp, Exchange, Tasks, NEW m, Reads(m), Ignored(m)
  PROVE  Passed
  <1>r. /\ Len(client_q) > 0 /\ app_pc # "init" /\ m = client_q[1]
        /\ client_q' = Tail(client_q) /\ Transmit
        /\ Ends' = Ends /\ Joins' = Joins /\ networks' = networks
        /\ app_pc' = app_pc /\ evt_pc' = evt_pc /\ evt' = evt /\ loop_q' = loop_q
        /\ bits' = bits
    BY DEF Reads
  <1>i. /\ sent' = <<>> /\ event' = event /\ status' = status /\ conn_state' = conn_state
        /\ scan_only' = scan_only /\ net_id' = net_id /\ ssid' = ssid /\ pass' = pass
        /\ ip_addr' = ip_addr /\ ctrl_open' = ctrl_open /\ got_ip_timers' = got_ip_timers
    BY DEF Ignored, regVars, connVars, cfgVars, ipVars, sockVars
  <1>q. cmd_q' = cmd_q
    BY <1>r, <1>i, Silent
  <1>f. Froms
    BY <1>q, <1>r DEF Froms, SocketUp
  <1>s. StartUp /\ Tickets /\ Addressed /\ Scanning /\ Joining /\ Answering /\ Configuring
    BY DEF Tasks, Exchange
  <1>a. Answering'
    BY <1>s, ReadAnswers
  <1>c. Configuring'
    BY ONLY <1>s, <1>q, <1>r, <1>i DEF Configuring
  <1>t. Addressed' /\ Tickets'
    BY ONLY <1>s, <1>r, <1>i DEF Addressed, Tickets, Idles
  <1>1. Scanning'
    <2>1. /\ OneScan(cmd_q, client_q, Ends) => OneScan(cmd_q, client_q', Ends)
          /\ DumpsFirst(cmd_q, client_q, Ends) => DumpsFirst(cmd_q, client_q', Ends)
          /\ DumpLast(cmd_q, client_q) => DumpLast(cmd_q, client_q')
      BY <1>r, ReadQueues
    <2> QED BY ONLY <1>s, <1>q, <1>r, <1>i, <2>1 DEF Scanning
  <1>k. \/ m.kind \in CtrlEvents
        \/ conn_state \in {"NONE", "IDLE", "SCAN_SENT", "SELECT_SENT", "CONNECTED",
                           "SCAN_RESULTS_SENT"}
    BY DEF Ignored, CtrlEvents
  <1>j. conn_state = "ATTACH_SENT" => m.kind \in CtrlEvents
    BY ONLY <1>k
  <1>e. Settled(cmd_q, client_q) =>
           m.kind \in CtrlEvents /\ Settled(cmd_q, client_q')
    <2>1. m.kind \notin CtrlEvents => ~Settled(cmd_q, client_q)
      BY <1>r, ReplyQueues
    <2>2. m.kind \in CtrlEvents /\ Settled(cmd_q, client_q) => Settled(cmd_q, client_q')
      BY <1>r, EventQueues
    <2> QED BY <2>1, <2>2
  <1>o. m.kind \in CtrlEvents =>
          \A x, k : k \notin CtrlEvents /\ Outstands(cmd_q, client_q, x, k) =>
             Outstands(cmd_q, client_q', x, k)
    BY <1>r, EventQueues
  <1>v. "ID" \notin CtrlEvents /\ "OK" \notin CtrlEvents /\ "STATUS" \notin CtrlEvents
    BY DEF CtrlEvents
  <1>2. Joining'
    <2>1. /\ Selecting(cmd_q, client_q, Joins) => Selecting(cmd_q, client_q', Joins)
          /\ NoSelect(cmd_q, client_q, Joins) => NoSelect(cmd_q, client_q', Joins)
      BY <1>r, ReadQueues
    <2> QED BY ONLY <1>s, <1>q, <1>r, <1>i, <1>k, <1>e, <1>o, <1>v, <2>1 DEF Joining
  <1>3. StartUp'
    <2>1. NoScan(cmd_q, client_q, Ends) => NoScan(cmd_q, client_q', Ends)
      BY <1>r, ReadQueues
    <2>2. Attaching => Attaching'
      BY ONLY <1>q, <1>r, <1>i, <1>j, <1>o, <1>v DEF Attaching
    <2> QED BY ONLY <1>s, <1>q, <1>r, <1>i, <1>e, <2>1, <2>2 DEF StartUp, Starting
  <1> QED BY <1>f, <1>a, <1>c, <1>t, <1>1, <1>2, <1>3, <1>i DEF Passed, Tasks, Exchange

\* CTRL-EVENT-SCAN-RESULTS: the results are asked for.
LEMMA ReadScanEnd ==
  ASSUME StationTypes, SocketUp, Exchange, Tasks, NEW m, Reads(m),
         m.kind = "EV_SCAN_RESULTS", EvScanResults
  PROVE  Passed
  <1>r. /\ Len(client_q) > 0 /\ app_pc # "init" /\ m = client_q[1]
        /\ client_q' = Tail(client_q) /\ Transmit
        /\ Ends' = Ends /\ Joins' = Joins /\ networks' = networks
        /\ app_pc' = app_pc /\ evt_pc' = evt_pc /\ evt' = evt /\ loop_q' = loop_q
        /\ bits' = bits
    BY DEF Reads
  <1>i. /\ event' = event /\ status' = status /\ conn_state = "SCAN_SENT"
        /\ conn_state' = "SCAN_RESULTS_SENT"
        /\ scan_only' = scan_only /\ net_id' = net_id /\ ssid' = ssid /\ pass' = pass
        /\ ip_addr' = ip_addr /\ ctrl_open' = ctrl_open
    BY DEF EvScanResults, regVars, cfgVars, ipVars, sockVars
  <1>s. StartUp /\ Tickets /\ Addressed /\ Scanning /\ Joining /\ Answering /\ Configuring
    BY DEF Tasks, Exchange
  <1>1. Plain("SCAN_RESULTS") \in Cmds /\ Plain("SCAN_RESULTS").cmd = "SCAN_RESULTS"
    BY PlainIsCmd DEF CmdNames, Plain
  <1>2. Send(Plain("SCAN_RESULTS"))
    BY DEF EvScanResults
  <1>3. Carries(cmd_q, cmd_q', "SCAN_RESULTS")
    BY <1>1, <1>2, <1>r, SendOne
  <1>f. Froms
    BY <1>1, <1>2, <1>r, SendOne DEF Froms
  <1>a. Answering'
    BY <1>s, ReadAnswers
  <1>c. Configuring'
    BY ONLY <1>i DEF Configuring
  <1>b. app_pc \in {"scan", "wait"} /\ evt_pc # "none"
    BY <1>s, <1>r, <1>i, Busy
  <1>t. Tasks'
    <2>1. Idles => Idles'
      BY ONLY <1>i DEF Idles
    <2> QED BY <1>b, <1>r, <1>i, <2>1, TasksKept
  <1>4. DumpsFirst(cmd_q, client_q, Ends) /\ NoSelect(cmd_q, client_q, Joins)
    BY ONLY <1>s, <1>i DEF Scanning, Joining
  <1>5. Joining'
    <2>1. NoSelect(cmd_q, client_q', Joins)
      BY <1>r, <1>4, ReadQueues
    <2>2. NoSelect(cmd_q', client_q', Joins)
      BY <1>3, <2>1, SentQueues
    <2>3. status # "CONNECTED"
      BY ONLY <1>s, <1>i DEF Joining
    <2> QED BY ONLY <1>r, <1>i, <2>2, <2>3 DEF Joining
  <1>6. scan_only => Scanning'
    <2> SUFFICES ASSUME scan_only PROVE Scanning'
      OBVIOUS
    <2>1. OneScan(cmd_q, client_q, Ends)
      BY ONLY <1>s, <1>i, scan_only DEF Scanning
    <2>k. client_q[1].kind \in CtrlEvents
      BY <1>r DEF CtrlEvents
    <2>2. NoScan(cmd_q, client_q', Ends)
      BY <1>r, <2>k, <2>1, EventQueues
    <2>3. DumpsFirst(cmd_q, client_q', Ends)
      BY <1>r, <1>4, ReadQueues
    <2>4. DumpsFirst(cmd_q', client_q', Ends)
      <3>1. \A aq : DumpsFirst(cmd_q, aq, Ends) /\ NoScan(cmd_q, aq, Ends) =>
                      DumpsFirst(cmd_q', aq, Ends)
        BY <1>3, SentQueues
      <3> QED BY ONLY <2>2, <2>3, <3>1
    <2> QED BY ONLY <1>r, <1>i, scan_only, <2>4 DEF Scanning
  <1>7. ~scan_only => Scanning'
    <2> SUFFICES ASSUME ~scan_only PROVE Scanning'
      OBVIOUS
    <2>k. client_q[1].kind \in CtrlEvents
      BY <1>r DEF CtrlEvents
    <2>1. NoCmd(cmd_q, "SCAN_RESULTS") /\ NoMsg(client_q', "DUMP")
      BY <1>r, <1>4, <2>k, EventQueues
    <2>2. DumpLast(cmd_q', client_q')
      <3>1. \A aq : NoCmd(cmd_q, "SCAN_RESULTS") /\ NoMsg(aq, "DUMP") =>
                      DumpLast(cmd_q', aq)
        BY <1>3, SentQueues
      <3> QED BY ONLY <2>1, <3>1
    <2> QED BY ONLY <1>i, ~scan_only, <2>2 DEF Scanning
  <1>8. Scanning'
    BY ONLY <1>6, <1>7
  <1> QED BY <1>8, <1>5, <1>a, <1>c, <1>t, <1>f, <1>i DEF Passed, Exchange

\* CTRL-EVENT-CONNECTED: of the network that has been selected.
LEMMA ReadConnected ==
  ASSUME StationTypes, SocketUp, Exchange, Tasks, NEW m, Reads(m),
         m.kind = "EV_CONNECTED", EvConnected
  PROVE  Passed
  <1>r. /\ Len(client_q) > 0 /\ app_pc # "init" /\ m = client_q[1]
        /\ client_q' = Tail(client_q) /\ Transmit
        /\ Ends' = Ends /\ Joins' = Joins /\ networks' = networks
        /\ app_pc' = app_pc /\ evt_pc' = evt_pc /\ evt' = evt /\ loop_q' = loop_q
        /\ bits' = bits
    BY DEF Reads
  <1>i. /\ event' = event /\ status' = "CONNECTED" /\ conn_state' = "GETTING_STATUS"
        /\ scan_only' = scan_only /\ net_id' = net_id /\ ssid' = ssid /\ pass' = pass
        /\ ip_addr' = ip_addr /\ ctrl_open' = ctrl_open
    BY DEF EvConnected, regVars, cfgVars, ipVars, sockVars
  <1>s. StartUp /\ Tickets /\ Addressed /\ Scanning /\ Joining /\ Answering /\ Configuring
    BY DEF Tasks, Exchange
  <1>1. Plain("STATUS") \in Cmds /\ Plain("STATUS").cmd = "STATUS"
    BY PlainIsCmd DEF CmdNames, Plain
  <1>2. Send(Plain("STATUS"))
    BY DEF EvConnected
  <1>3. conn_state = "SELECT_SENT"
    <2>1. NoSelect(cmd_q, client_q, Joins) => client_q[1].kind # "EV_CONNECTED"
      BY <1>r, ReadQueues
    <2> QED BY ONLY <1>s, <1>r, <2>1, m.kind = "EV_CONNECTED" DEF Joining
  <1>4. Selecting(cmd_q, client_q, Joins) /\ ~scan_only
    BY ONLY <1>s, <1>3 DEF Joining, Scanning
  <1>5. Settled(cmd_q, client_q') /\ NoSelect(cmd_q, client_q', Joins)
    <2>k. client_q[1].kind \in CtrlEvents
      BY <1>r DEF CtrlEvents
    <2>1. Settled(cmd_q, client_q') /\ NoMsg(client_q', "EV_CONNECTED") /\ Joins = 0
      BY <1>r, <1>4, <2>k, EventQueues
    <2> QED BY ONLY <2>1 DEF Settled, NoSelect, NoCmd
  <1>6. /\ DumpsFirst(cmd_q', client_q', Ends) /\ NoSelect(cmd_q', client_q', Joins)
        /\ Froms
    BY <1>r, <1>1, <1>2, <1>5, JoinGoesOn DEF Froms
  <1>o. Outstands(cmd_q', client_q', "STATUS", "STATUS")
    BY <1>r, <1>1, <1>2, <1>5, JoinGoesOn
  <1>7. Scanning'
    BY ONLY <1>r, <1>i, <1>4, <1>6 DEF Scanning
  <1>8. Joining'
    BY ONLY <1>r, <1>i, <1>6, <1>o DEF Joining
  <1>a. Answering'
    BY <1>s, ReadAnswers
  <1>c. Configuring'
    BY ONLY <1>i DEF Configuring
  <1>b. app_pc \in {"scan", "wait"} /\ evt_pc # "none"
    BY <1>s, <1>r, <1>3, Busy
  <1>t. Tasks'
    <2>1. ~Idles
      BY ONLY <1>3, <1>4 DEF Idles
    <2> QED BY <1>b, <1>r, <1>i, <2>1, TasksKept
  <1> QED BY <1>6, <1>7, <1>8, <1>a, <1>c, <1>t, <1>i DEF Passed, Exchange

LEMMA ReplyKinds == \A m \in Replies : m.kind \notin CtrlEvents
  BY DEF Replies, CtrlEvents

\* The answer to ATTACH ends WIFI_CMD_INIT.
LEMMA ReadAttached ==
  ASSUME StationTypes, SocketUp, Exchange, Tasks, NEW m \in Replies, Reads(m), ReplyAttach(m)
  PROVE  Passed
  <1>r. /\ Len(client_q) > 0 /\ app_pc # "init" /\ m = client_q[1]
        /\ client_q' = Tail(client_q) /\ Transmit
        /\ Ends' = Ends /\ Joins' = Joins /\ networks' = networks
        /\ app_pc' = app_pc /\ evt_pc' = evt_pc /\ evt' = evt /\ loop_q' = loop_q
        /\ bits' = bits /\ client_q \in Seq(Msgs)
    BY Types DEF Reads
  <1>s. StartUp /\ Tickets /\ Addressed /\ Scanning /\ Joining /\ Answering /\ Configuring
    BY DEF Tasks, Exchange
  <1>k. m.kind \notin CtrlEvents
    BY ReplyKinds
  <1>a. Answering'
    BY <1>s, ReadAnswers
  <1>g. conn_state = "ATTACH_SENT"
    BY DEF ReplyAttach
  <1>1. Attaching /\ app_pc = "init_poll"
    BY ONLY <1>s, <1>g DEF StartUp
  <1>2. m.kind = "OK" /\ Settled(cmd_q, client_q')
    <2>1. \A x, k : Outstands(cmd_q, client_q, x, k) =>
               client_q[1].kind = k /\ Settled(cmd_q, client_q')
      BY <1>r, <1>k, ReplyQueues
    <2> QED BY ONLY <1>1, <1>r, <2>1 DEF Attaching
  <1>i. /\ event' = "INIT_DONE" /\ status' = "IDLE" /\ conn_state' = "IDLE" /\ sent' = <<>>
        /\ scan_only' = scan_only /\ net_id' = net_id /\ ip_addr' = ip_addr
        /\ ctrl_open' = ctrl_open
    BY <1>2 DEF ReplyAttach, PostEvent, ipVars, sockVars
  <1>q. cmd_q' = cmd_q
    BY <1>r, <1>i, Silent
  <1>f. Froms
    BY <1>q, <1>r DEF Froms, SocketUp
  <1>n. ~scan_only
    BY ONLY <1>s, <1>g DEF Scanning
  <1>3. /\ NoScan(cmd_q, client_q', Ends) /\ DumpsFirst(cmd_q, client_q', Ends)
        /\ NoSelect(cmd_q, client_q', Joins)
    <2>1. /\ NoScan(cmd_q, client_q, Ends) /\ DumpsFirst(cmd_q, client_q, Ends)
          /\ NoSelect(cmd_q, client_q, Joins)
      BY ONLY <1>s, <1>g, <1>1 DEF Scanning, Joining, StartUp
    <2> QED BY <1>r, <2>1, ReadQueues
  <1>4. Scanning'
    BY ONLY <1>q, <1>r, <1>i, <1>n, <1>3 DEF Scanning
  <1>5. Joining'
    BY ONLY <1>q, <1>r, <1>i, <1>3 DEF Joining
  <1>c. Configuring'
    BY ONLY <1>i DEF Configuring
  <1>6. StartUp'
    <2>1. Settled(cmd_q', client_q')
      BY ONLY <1>2, <1>q
    <2> QED BY ONLY <1>s, <1>1, <1>r, <1>q, <1>i, <1>3, <2>1 DEF StartUp, Starting
  <1>7. Tickets' /\ Addressed'
    BY ONLY <1>s, <1>1, <1>r, <1>i DEF Tickets, Addressed, Idles
  <1> QED BY <1>4, <1>5, <1>6, <1>7, <1>a, <1>c, <1>f, <1>i DEF Passed, Exchange, Tasks

\* The end of the start-up scan, or the first step of the join.
LEMMA ReadResults ==
  ASSUME StationTypes, SocketUp, Exchange, Tasks, NEW m \in Replies, Reads(m),
         ReplyScanResults(m)
  PROVE  Passed
  <1>r. /\ Len(client_q) > 0 /\ app_pc # "init" /\ m = client_q[1]
        /\ client_q' = Tail(client_q) /\ Transmit
        /\ Ends' = Ends /\ Joins' = Joins /\ networks' = networks
        /\ app_pc' = app_pc /\ evt_pc' = evt_pc /\ evt' = evt /\ loop_q' = loop_q
        /\ bits' = bits /\ client_q \in Seq(Msgs)
    BY Types DEF Reads
  <1>s. StartUp /\ Tickets /\ Addressed /\ Scanning /\ Joining /\ Answering /\ Configuring
    BY DEF Tasks, Exchange
  <1>k. m.kind \notin CtrlEvents
    BY ReplyKinds
  <1>a. Answering'
    BY <1>s, ReadAnswers
  <1>g. conn_state = "SCAN_RESULTS_SENT" /\ m.kind = "DUMP"
    BY DEF ReplyScanResults
  <1>b. app_pc \in {"scan", "wait"} /\ evt_pc # "none" /\ ssid = AppSsid /\ pass = AppPass
    BY <1>s, <1>r, <1>g, Busy
  <1>i. /\ status' = status /\ ~scan_only' /\ net_id' = net_id /\ ip_addr' = ip_addr
        /\ ssid' = ssid /\ pass' = pass /\ ctrl_open' = ctrl_open
    BY DEF ReplyScanResults, ipVars, cfgVars, sockVars
  <1>1. scan_only => Passed
    <2> SUFFICES ASSUME scan_only PROVE Passed
      OBVIOUS
    <2>i. conn_state' = "NONE" /\ event' = "SCAN_DONE" /\ sent' = <<>>
      BY DEF ReplyScanResults, PostEvent
    <2>q. cmd_q' = cmd_q
      BY <1>r, <2>i, Silent
    <2>f. Froms
      BY <2>q, <1>r DEF Froms, SocketUp
    <2>1. DumpsFirst(cmd_q, client_q', Ends) /\ NoSelect(cmd_q, client_q', Joins)
      <3>1. DumpsFirst(cmd_q, client_q, Ends) /\ NoSelect(cmd_q, client_q, Joins)
        BY ONLY <1>s, <1>g, scan_only DEF Scanning, Joining
      <3> QED BY <1>r, <3>1, ReadQueues
    <2>n. status # "CONNECTED"
      BY ONLY <1>s, <1>g DEF Joining
    <2>2. Scanning' /\ Joining' /\ Configuring'
      BY ONLY <1>r, <1>i, <2>i, <2>q, <2>1, <2>n DEF Scanning, Joining, Configuring
    <2>t. Tasks'
      <3>1. Idles'
        BY ONLY <2>i DEF Idles
      <3> QED BY <1>b, <1>r, <1>i, <2>i, <3>1, TasksKept
    <2> QED BY <1>a, <1>i, <2>f, <2>2, <2>t DEF Passed, Exchange
  <1>2. ~scan_only => Passed
    <2> SUFFICES ASSUME ~scan_only PROVE Passed
      OBVIOUS
    <2>i. /\ conn_state' = "ADD_NET_SENT" /\ event' = event
          /\ Send(Plain("ADD_NETWORK"))
      BY DEF ReplyScanResults, regVars
    <2>1. Plain("ADD_NETWORK") \in Cmds /\ Plain("ADD_NETWORK").cmd = "ADD_NETWORK"
      BY PlainIsCmd DEF CmdNames, Plain
    <2>2. Settled(cmd_q, client_q') /\ NoSelect(cmd_q, client_q', Joins)
      <3>1. DumpLast(cmd_q, client_q) /\ NoSelect(cmd_q, client_q, Joins)
        BY ONLY <1>s, <1>g, ~scan_only DEF Scanning, Joining
      <3>2. Settled(cmd_q, client_q')
        BY <1>r, <1>g, <1>k, <3>1, ReplyQueues
      <3>3. NoSelect(cmd_q, client_q', Joins)
        BY <1>r, <3>1, ReadQueues
      <3> QED BY ONLY <3>2, <3>3
    <2>3. /\ DumpsFirst(cmd_q', client_q', Ends) /\ NoSelect(cmd_q', client_q', Joins)
          /\ Froms
      BY <1>r, <2>1, <2>2, <2>i, JoinGoesOn DEF Froms
    <2>4. Outstands(cmd_q', client_q', "ADD_NETWORK", "ID")
      BY <1>r, <2>1, <2>2, <2>i, JoinGoesOn
    <2>n. status # "CONNECTED"
      BY ONLY <1>s, <1>g DEF Joining
    <2>5. Scanning' /\ Joining' /\ Configuring'
      BY ONLY <1>r, <1>i, <2>i, <2>3, <2>4, <2>n DEF Scanning, Joining, Configuring
    <2>t. Tasks'
      <3>1. ~Idles
        BY ONLY <1>g, ~scan_only DEF Idles
      <3> QED BY <1>b, <1>r, <1>i, <2>i, <3>1, TasksKept
    <2> QED BY <1>a, <1>i, <2>3, <2>5, <2>t DEF Passed, Exchange
  <1> QED BY ONLY <1>1, <1>2

\* The answer to ADD_NETWORK: the SSID of the new network is set.
LEMMA ReadNetwork ==
  ASSUME StationTypes, SocketUp, Exchange, Tasks, NEW m \in Replies, Reads(m), ReplyAddNetwork(m)
  PROVE  Passed
  <1>r. /\ Len(client_q) > 0 /\ app_pc # "init" /\ m = client_q[1]
        /\ client_q' = Tail(client_q) /\ Transmit
        /\ Ends' = Ends /\ Joins' = Joins /\ networks' = networks
        /\ app_pc' = app_pc /\ evt_pc' = evt_pc /\ evt' = evt /\ loop_q' = loop_q
        /\ bits' = bits /\ client_q \in Seq(Msgs)
    BY Types DEF Reads
  <1>s. StartUp /\ Tickets /\ Addressed /\ Scanning /\ Joining /\ Answering /\ Configuring
    BY DEF Tasks, Exchange
  <1>k. m.kind \notin CtrlEvents
    BY ReplyKinds
  <1>a. Answering'
    BY <1>s, ReadAnswers
  <1>g. conn_state = "ADD_NET_SENT"
    BY DEF ReplyAddNetwork
  <1>b. app_pc \in {"scan", "wait"} /\ evt_pc # "none" /\ ssid = AppSsid /\ pass = AppPass
    BY <1>s, <1>r, <1>g, Busy
  <1>n. ~scan_only /\ status # "CONNECTED" /\ NoSelect(cmd_q, client_q, Joins)
    BY ONLY <1>s, <1>g DEF Scanning, Joining
  <1>1. m.kind = "ID" /\ Settled(cmd_q, client_q') /\ Len(cmd_q) = 0
    <2>1. \A x, k : Outstands(cmd_q, client_q, x, k) =>
               client_q[1].kind = k /\ Settled(cmd_q, client_q')
      BY <1>r, <1>k, ReplyQueues
    <2>2. m.kind = "ID" /\ Settled(cmd_q, client_q')
      BY ONLY <1>s, <1>g, <1>r, <2>1 DEF Joining
    <2> QED BY ONLY <2>2 DEF Settled
  <1>2. m.id \in DOMAIN networks /\ m.id >= 0 /\ m.id \in NetIds
    <2>1. m.id \in DOMAIN networks
      BY <1>s, <1>1, ReadAnswers
    <2>2. DOMAIN networks = 0..(net_counter - 1) /\ net_counter \in 0..MaxNets
      BY Types DEF DaemonTypes
    <2>3. m.id \in 0..(MaxNets - 1)
      BY ONLY <2>1, <2>2, MockBoundAssumption
    <2> QED BY <2>1, <2>3, MockBoundAssumption, MockAnswersAssumption
  <1>i. /\ event' = event /\ scan_only' = scan_only /\ ip_addr' = ip_addr /\ ssid' = ssid
        /\ pass' = pass /\ ctrl_open' = ctrl_open /\ status' = status
        /\ conn_state' = "SET_SSID_SENT" /\ net_id' = m.id
        /\ Send(Set("SET_SSID", m.id, ssid))
    BY <1>1, <1>2 DEF ReplyAddNetwork, Atoi, regVars, cfgVars, ipVars, sockVars
  <1>3. NoSelect(cmd_q, client_q', Joins)
    BY <1>r, <1>n, ReadQueues
  <1>c. Set("SET_SSID", m.id, ssid) \in Cmds /\ Set("SET_SSID", m.id, ssid).cmd = "SET_SSID"
    BY <1>2, <1>b, StationAssumption DEF Set, Cmds, CmdNames
  <1>4. /\ DumpsFirst(cmd_q', client_q', Ends)
        /\ Froms /\ Len(cmd_q') = 1 /\ cmd_q'[1].cmd = Set("SET_SSID", m.id, ssid)
    BY <1>r, <1>1, <1>3, <1>c, <1>i, JoinGoesOn DEF Froms
  <1>5. NoSelect(cmd_q', client_q', Joins)
    BY <1>r, <1>1, <1>3, <1>c, <1>i, JoinGoesOn
  <1>6. Outstands(cmd_q', client_q', "SET_SSID", "OK")
    BY <1>r, <1>1, <1>3, <1>c, <1>i, JoinGoesOn
  <1>7. Scanning' /\ Joining'
    BY ONLY <1>r, <1>i, <1>n, <1>4, <1>5, <1>6 DEF Scanning, Joining
  <1>8. Configuring'
    BY ONLY <1>r, <1>i, <1>b, <1>2, <1>4 DEF Configuring
  <1>t. Tasks'
    <2>1. ~Idles
      BY ONLY <1>g, <1>n DEF Idles
    <2> QED BY <1>b, <1>r, <1>i, <2>1, TasksKept
  <1> QED BY <1>a, <1>i, <1>4, <1>7, <1>8, <1>t DEF Passed, Exchange

\* The answer to SET_NETWORK ssid: the passphrase is set.
LEMMA ReadSsid ==
  ASSUME StationTypes, SocketUp, Exchange, Tasks, NEW m \in Replies, Reads(m), ReplySetSsid(m)
  PROVE  Passed
  <1>r. /\ Len(client_q) > 0 /\ app_pc # "init" /\ m = client_q[1]
        /\ client_q' = Tail(client_q) /\ Transmit
        /\ Ends' = Ends /\ Joins' = Joins /\ networks' = networks
        /\ app_pc' = app_pc /\ evt_pc' = evt_pc /\ evt' = evt /\ loop_q' = loop_q
        /\ bits' = bits /\ client_q \in Seq(Msgs)
    BY Types DEF Reads
  <1>s. StartUp /\ Tickets /\ Addressed /\ Scanning /\ Joining /\ Answering /\ Configuring
    BY DEF Tasks, Exchange
  <1>k. m.kind \notin CtrlEvents
    BY ReplyKinds
  <1>a. Answering'
    BY <1>s, ReadAnswers
  <1>g. conn_state = "SET_SSID_SENT"
    BY DEF ReplySetSsid
  <1>b. app_pc \in {"scan", "wait"} /\ evt_pc # "none" /\ ssid = AppSsid /\ pass = AppPass
    BY <1>s, <1>r, <1>g, Busy
  <1>n. ~scan_only /\ status # "CONNECTED" /\ NoSelect(cmd_q, client_q, Joins)
    BY ONLY <1>s, <1>g DEF Scanning, Joining
  <1>1. m.kind = "OK" /\ Settled(cmd_q, client_q') /\ Len(cmd_q) = 0
    <2>1. \A x, k : Outstands(cmd_q, client_q, x, k) =>
               client_q[1].kind = k /\ Settled(cmd_q, client_q')
      BY <1>r, <1>k, ReplyQueues
    <2>2. m.kind = "OK" /\ Settled(cmd_q, client_q')
      BY ONLY <1>s, <1>g, <1>r, <2>1 DEF Joining
    <2> QED BY ONLY <2>2 DEF Settled
  <1>2. net_id \in NetIds \cup {-1} /\ net_id \in DOMAIN networks
        /\ networks[net_id].ssid = AppSsid
    <2>1. net_id \in NetIds \cup {-1}
      BY Types DEF TypeOK, DataTypeOK
    <2> QED BY <2>1, <1>s, <1>g, <1>1 DEF Configuring
  <1>i. /\ event' = event /\ scan_only' = scan_only /\ ip_addr' = ip_addr /\ ssid' = ssid
        /\ pass' = pass /\ ctrl_open' = ctrl_open /\ status' = status
        /\ conn_state' = "SET_PSK_SENT" /\ net_id' = net_id
        /\ Send(Set("SET_PSK", net_id, pass))
    BY <1>1 DEF ReplySetSsid, regVars, cfgVars, ipVars, sockVars
  <1>3. NoSelect(cmd_q, client_q', Joins)
    BY <1>r, <1>n, ReadQueues
  <1>c. Set("SET_PSK", net_id, pass) \in Cmds /\ Set("SET_PSK", net_id, pass).cmd = "SET_PSK"
    BY <1>2, <1>b, StationAssumption DEF Set, Cmds, CmdNames
  <1>4. /\ DumpsFirst(cmd_q', client_q', Ends)
        /\ Froms /\ Len(cmd_q') = 1 /\ cmd_q'[1].cmd = Set("SET_PSK", net_id, pass)
    BY <1>r, <1>1, <1>3, <1>c, <1>i, JoinGoesOn DEF Froms
  <1>5. NoSelect(cmd_q', client_q', Joins)
    BY <1>r, <1>1, <1>3, <1>c, <1>i, JoinGoesOn
  <1>6. Outstands(cmd_q', client_q', "SET_PSK", "OK")
    BY <1>r, <1>1, <1>3, <1>c, <1>i, JoinGoesOn
  <1>7. Scanning' /\ Joining'
    BY ONLY <1>r, <1>i, <1>n, <1>4, <1>5, <1>6 DEF Scanning, Joining
  <1>8. Configuring'
    BY ONLY <1>r, <1>i, <1>b, <1>2, <1>4 DEF Configuring
  <1>t. Tasks'
    <2>1. ~Idles
      BY ONLY <1>g, <1>n DEF Idles
    <2> QED BY <1>b, <1>r, <1>i, <2>1, TasksKept
  <1> QED BY <1>a, <1>i, <1>4, <1>7, <1>8, <1>t DEF Passed, Exchange

\* The answer to SET_NETWORK psk: the network is selected.
LEMMA ReadPsk ==
  ASSUME StationTypes, SocketUp, Exchange, Tasks, NEW m \in Replies, Reads(m), ReplySetPsk(m)
  PROVE  Passed
  <1>r. /\ Len(client_q) > 0 /\ app_pc # "init" /\ m = client_q[1]
        /\ client_q' = Tail(client_q) /\ Transmit
        /\ Ends' = Ends /\ Joins' = Joins /\ networks' = networks
        /\ app_pc' = app_pc /\ evt_pc' = evt_pc /\ evt' = evt /\ loop_q' = loop_q
        /\ bits' = bits /\ client_q \in Seq(Msgs)
    BY Types DEF Reads
  <1>s. StartUp /\ Tickets /\ Addressed /\ Scanning /\ Joining /\ Answering /\ Configuring
    BY DEF Tasks, Exchange
  <1>k. m.kind \notin CtrlEvents
    BY ReplyKinds
  <1>a. Answering'
    BY <1>s, ReadAnswers
  <1>g. conn_state = "SET_PSK_SENT"
    BY DEF ReplySetPsk
  <1>b. app_pc \in {"scan", "wait"} /\ evt_pc # "none" /\ ssid = AppSsid /\ pass = AppPass
    BY <1>s, <1>r, <1>g, Busy
  <1>n. ~scan_only /\ status # "CONNECTED" /\ NoSelect(cmd_q, client_q, Joins)
    BY ONLY <1>s, <1>g DEF Scanning, Joining
  <1>1. m.kind = "OK" /\ Settled(cmd_q, client_q') /\ Len(cmd_q) = 0
    <2>1. \A x, k : Outstands(cmd_q, client_q, x, k) =>
               client_q[1].kind = k /\ Settled(cmd_q, client_q')
      BY <1>r, <1>k, ReplyQueues
    <2>2. m.kind = "OK" /\ Settled(cmd_q, client_q')
      BY ONLY <1>s, <1>g, <1>r, <2>1 DEF Joining
    <2> QED BY ONLY <2>2 DEF Settled
  <1>2. /\ net_id \in NetIds \cup {-1} /\ net_id \in DOMAIN networks
        /\ networks[net_id].ssid = AppSsid /\ networks[net_id].psk = AppPass
    <2>1. net_id \in NetIds \cup {-1}
      BY Types DEF TypeOK, DataTypeOK
    <2> QED BY <2>1, <1>s, <1>g, <1>1 DEF Configuring
  <1>i. /\ event' = event /\ scan_only' = scan_only /\ ip_addr' = ip_addr /\ ssid' = ssid
        /\ pass' = pass /\ ctrl_open' = ctrl_open /\ status' = "CONNECTING"
        /\ conn_state' = "SELECT_SENT" /\ net_id' = net_id
        /\ Send(OnNet("SELECT_NETWORK", net_id))
    BY <1>1 DEF ReplySetPsk, regVars, cfgVars, ipVars, sockVars
  <1>3. NoSelect(cmd_q, client_q', Joins)
    BY <1>r, <1>n, ReadQueues
  <1>c. /\ OnNet("SELECT_NETWORK", net_id) \in Cmds
        /\ OnNet("SELECT_NETWORK", net_id).cmd = "SELECT_NETWORK"
    BY <1>2, OnNetIsCmd DEF CmdNames, OnNet
  <1>4. /\ DumpsFirst(cmd_q', client_q', Ends)
        /\ Froms /\ Len(cmd_q') = 1 /\ cmd_q'[1].cmd = OnNet("SELECT_NETWORK", net_id)
    BY <1>r, <1>1, <1>3, <1>c, <1>i, JoinGoesOn DEF Froms
  <1>5. Selecting(cmd_q', client_q', Joins)
    BY <1>r, <1>1, <1>3, <1>c, <1>i, JoinGoesOn
  <1>7. Scanning' /\ Joining'
    BY ONLY <1>r, <1>i, <1>n, <1>4, <1>5 DEF Scanning, Joining
  <1>8. Configuring'
    <2>1. OnNet("SELECT_NETWORK", net_id).id = net_id
      BY DEF OnNet
    <2> QED BY ONLY <1>r, <1>i, <1>2, <1>4, <2>1 DEF Configuring
  <1>t. Tasks'
    <2>1. ~Idles
      BY ONLY <1>g, <1>n DEF Idles
    <2> QED BY <1>b, <1>r, <1>i, <2>1, TasksKept
  <1> QED BY <1>a, <1>i, <1>4, <1>7, <1>8, <1>t DEF Passed, Exchange

\* The answer to STATUS: CONNECTED is announced, with the address.
LEMMA ReadStatus ==
  ASSUME StationTypes, SocketUp, Exchange, Tasks, NEW m \in Replies, Reads(m), ReplyStatus(m)
  PROVE  Passed
  <1>r. /\ Len(client_q) > 0 /\ app_pc # "init" /\ m = client_q[1]
        /\ client_q' = Tail(client_q) /\ Transmit
        /\ Ends' = Ends /\ Joins' = Joins /\ networks' = networks
        /\ app_pc' = app_pc /\ evt_pc' = evt_pc /\ evt' = evt /\ loop_q' = loop_q
        /\ bits' = bits /\ client_q \in Seq(Msgs)
    BY Types DEF Reads
  <1>s. StartUp /\ Tickets /\ Addressed /\ Scanning /\ Joining /\ Answering /\ Configuring
    BY DEF Tasks, Exchange
  <1>k. m.kind \notin CtrlEvents
    BY ReplyKinds
  <1>a. Answering'
    BY <1>s, ReadAnswers
  <1>g. conn_state = "GETTING_STATUS"
    BY DEF ReplyStatus
  <1>b. app_pc \in {"scan", "wait"} /\ evt_pc # "none" /\ ssid = AppSsid /\ pass = AppPass
    BY <1>s, <1>r, <1>g, Busy
  <1>n. ~scan_only /\ NoSelect(cmd_q, client_q, Joins) /\ DumpsFirst(cmd_q, client_q, Ends)
    BY ONLY <1>s, <1>g DEF Scanning, Joining
  <1>1. m.kind = "STATUS" /\ Settled(cmd_q, client_q')
    <2>1. \A x, k : Outstands(cmd_q, client_q, x, k) =>
               client_q[1].kind = k /\ Settled(cmd_q, client_q')
      BY <1>r, <1>k, ReplyQueues
    <2> QED BY ONLY <1>s, <1>g, <1>r, <2>1 DEF Joining
  <1>2. m.ip = MockIp /\ MockIp # Nothing
    <2>1. m.ip = MockIp
      BY <1>s, <1>1, ReadAnswers
    <2> QED BY <2>1, MockAssumption, SubnetAssumption
  <1>i. /\ event' = "CONNECTED" /\ scan_only' = scan_only /\ ip_addr' # Nothing /\ ssid' = ssid
        /\ pass' = pass /\ ctrl_open' = ctrl_open /\ status' = status /\ net_id' = net_id
        /\ conn_state' = "CONNECTED" /\ sent' = <<>>
    BY <1>1, <1>2 DEF ReplyStatus, ParseStatus, PostEvent, cfgVars, sockVars
  <1>q. cmd_q' = cmd_q
    BY <1>r, <1>i, Silent
  <1>f. Froms
    BY <1>q, <1>r DEF Froms, SocketUp
  <1>3. NoSelect(cmd_q, client_q', Joins) /\ DumpsFirst(cmd_q, client_q', Ends)
    BY <1>r, <1>n, ReadQueues
  <1>4. Scanning' /\ Joining' /\ Configuring'
    BY ONLY <1>r, <1>i, <1>n, <1>q, <1>1, <1>3 DEF Scanning, Joining, Configuring
  <1>t. Tasks'
    <2>1. ~Idles
      BY ONLY <1>g, <1>n DEF Idles
    <2> QED BY <1>b, <1>r, <1>i, <2>1, TasksKept
  <1> QED BY <1>a, <1>i, <1>4, <1>f, <1>t DEF Passed, Exchange

LEMMA Read ==
  ASSUME StationTypes, SocketUp, Exchange, Tasks, NEW m, Reads(m)
  PROVE  Passed
  <1>1. CtrlRead(m)
    BY DEF Reads
  <1>2. m.kind # "EV_DISCONNECTED"
    BY ReadAnswers DEF Exchange
  <1>3. ASSUME m \in Replies, HandleReply(m) PROVE Passed
    BY <1>3, ReadAttached, ReadResults, ReadNetwork, ReadSsid, ReadPsk, ReadStatus
       DEF HandleReply
  <1>4. ASSUME Ignored(m) PROVE Passed
    BY <1>4, ReadIgnored
  <1>5. ASSUME m.kind = "EV_SCAN_RESULTS", EvScanResults PROVE Passed
    BY <1>5, ReadScanEnd
  <1>6. ASSUME m.kind = "EV_CONNECTED", EvConnected PROVE Passed
    BY <1>6, ReadConnected
  <1> QED BY ONLY <1>1, <1>2, <1>3, <1>4, <1>5, <1>6 DEF CtrlRead

\* ---- The daemon -----------------------------------------------------------

\* The tasks wait while the daemon works.
LEMMA TasksWait ==
  ASSUME Tasks,
         app_pc' = app_pc, evt_pc' = evt_pc, evt' = evt, loop_q' = loop_q, bits' = bits,
         ssid' = ssid, pass' = pass, conn_state' = conn_state, scan_only' = scan_only,
         ip_addr' = ip_addr, event' = event, got_ip_timers' = got_ip_timers,
         Settled(cmd_q, client_q) => Settled(cmd_q', client_q'),
         Outstands(cmd_q, client_q, "ATTACH", "OK") =>
            Outstands(cmd_q', client_q', "ATTACH", "OK"),
         NoScan(cmd_q, client_q, Ends) => NoScan(cmd_q', client_q', Ends')
  PROVE  Tasks'
  <1>1. /\ app_pc' = app_pc /\ evt_pc' = evt_pc /\ evt' = evt /\ loop_q' = loop_q /\ bits' = bits
        /\ ssid' = ssid /\ pass' = pass /\ conn_state' = conn_state /\ scan_only' = scan_only
        /\ ip_addr' = ip_addr /\ event' = event /\ got_ip_timers' = got_ip_timers
        /\ Settled(cmd_q, client_q) => Settled(cmd_q', client_q')
        /\ Outstands(cmd_q, client_q, "ATTACH", "OK") =>
              Outstands(cmd_q', client_q', "ATTACH", "OK")
        /\ NoScan(cmd_q, client_q, Ends) => NoScan(cmd_q', client_q', Ends')
        /\ StartUp /\ Tickets /\ Addressed
    BY DEF Tasks
  <1>2. Attaching => Attaching'
    BY ONLY <1>1 DEF Attaching
  <1>3. StartUp'
    BY ONLY <1>1, <1>2 DEF StartUp, Starting
  <1>4. Tickets' /\ Addressed'
    BY ONLY <1>1 DEF Tickets, Addressed, Idles
  <1> QED BY <1>3, <1>4 DEF Tasks

\* What a step of the daemon leaves alone.
DaemonOnly ==
    /\ app_pc' = app_pc /\ evt_pc' = evt_pc /\ evt' = evt /\ loop_q' = loop_q /\ bits' = bits
    /\ ssid' = ssid /\ pass' = pass /\ conn_state' = conn_state /\ scan_only' = scan_only
    /\ ip_addr' = ip_addr /\ event' = event /\ got_ip_timers' = got_ip_timers
    /\ status' = status /\ net_id' = net_id /\ ctrl_open' = ctrl_open

LEMMA ServeStep ==
  ASSUME StationTypes, SocketUp, Exchange, Tasks, MockServe, DaemonOnly
  PROVE  Passed
  <1>t. /\ cmd_q \in Seq(Datagrams) /\ client_q \in Seq(Msgs)
        /\ Ends \in Nat /\ Joins \in Nat
    BY Types
  <1>1. /\ Len(cmd_q) > 0 /\ app_pc # "init" /\ cmd_q' = Tail(cmd_q)
        /\ \E m : AnswerTo(cmd_q[1].cmd, m) /\ client_q' = Append(client_q, m)
        /\ Froms
    BY Serves DEF Froms
  <1>2. PICK m : AnswerTo(cmd_q[1].cmd, m) /\ client_q' = Append(client_q, m)
    BY <1>1
  <1> DEFINE c == cmd_q[1].cmd
  <1>3. /\ m \in Msgs /\ m.kind \notin CtrlEvents
        /\ m.kind = "DUMP" <=> c.cmd = "SCAN_RESULTS"
        /\ c.cmd = "ATTACH" => m.kind = "OK"
        /\ c.cmd = "ADD_NETWORK" => m.kind = "ID"
        /\ c.cmd = "STATUS" => m.kind = "STATUS"
        /\ c.cmd \in {"SET_SSID", "SET_PSK"} /\ c.id \in DOMAIN networks => m.kind = "OK"
        /\ m.kind = "STATUS" => m.ip = MockIp
        /\ m.kind = "ID" => m.id \in DOMAIN networks'
    BY <1>2, AnswerKind
  <1>4. /\ DOMAIN networks \subseteq DOMAIN networks'
        /\ c.cmd \notin {"SET_SSID", "SET_PSK"} =>
              \A n \in DOMAIN networks : networks'[n] = networks[n]
        /\ c.cmd = "SET_SSID" =>
              \A n \in DOMAIN networks :
                 /\ n = c.id => networks'[n].ssid = c.val /\ networks'[n].psk = networks[n].psk
                 /\ n # c.id => networks'[n] = networks[n]
        /\ c.cmd = "SET_PSK" =>
              \A n \in DOMAIN networks :
                 /\ n = c.id => networks'[n].psk = c.val /\ networks'[n].ssid = networks[n].ssid
                 /\ n # c.id => networks'[n] = networks[n]
        /\ Ends' = IF c.cmd = "SCAN" THEN Ends + 1 ELSE Ends
        /\ Joins' = IF c.cmd = "SELECT_NETWORK" THEN Joins + 1 ELSE Joins
    BY <1>2 DEF AnswerTo
  <1> HIDE DEF c
  <1>s. StartUp /\ Tickets /\ Addressed /\ Scanning /\ Joining /\ Answering /\ Configuring
    BY DEF Tasks, Exchange
  <1>u. /\ conn_state' = conn_state /\ scan_only' = scan_only /\ status' = status
        /\ net_id' = net_id /\ ctrl_open' = ctrl_open
    BY DEF DaemonOnly
  <1>v. Ends' \in Nat
    BY ONLY <1>t, <1>4
  <1>p. Answered(cmd_q, client_q, m, cmd_q', client_q')
    BY <1>t, <1>1, <1>2, <1>3, ServedQueues DEF Answered
  <1>d. m.kind = "DUMP" <=> cmd_q[1].cmd.cmd = "SCAN_RESULTS"
    BY ONLY <1>3 DEF c
  <1>5. ~Settled(cmd_q, client_q)
    BY ONLY <1>p, ServedSettled
  <1>6. DumpLast(cmd_q, client_q) => DumpLast(cmd_q', client_q')
    BY ONLY <1>p, <1>d, ServedLast
  <1>7. \A x, k : Outstands(cmd_q, client_q, x, k) /\ (c.cmd = x => m.kind = k) =>
              /\ Outstands(cmd_q', client_q', x, k) /\ Len(cmd_q) = 1 /\ c.cmd = x
              /\ Len(cmd_q') = 0
    BY ONLY <1>p, ServedAwaits DEF c
  <1>8. /\ NoScan(cmd_q, client_q, Ends) => NoScan(cmd_q', client_q', Ends')
        /\ OneScan(cmd_q, client_q, Ends) => OneScan(cmd_q', client_q', Ends')
        /\ DumpsFirst(cmd_q, client_q, Ends) => DumpsFirst(cmd_q', client_q', Ends')
    <2>1. ASSUME NEW d \in Nat, NEW d2 \in Nat, d = Ends, d2 = Ends'
          PROVE  /\ NoScan(cmd_q, client_q, d) => NoScan(cmd_q', client_q', d2)
                 /\ OneScan(cmd_q, client_q, d) => OneScan(cmd_q', client_q', d2)
                 /\ DumpsFirst(cmd_q, client_q, d) => DumpsFirst(cmd_q', client_q', d2)
      <3>1. d2 = IF cmd_q[1].cmd.cmd = "SCAN" THEN d + 1 ELSE d
        BY ONLY <1>4, <2>1 DEF c
      <3> QED BY <1>p, <1>d, <3>1, ServedScan
    <2> QED BY ONLY <1>t, <1>v, <2>1
  <1>9. /\ NoSelect(cmd_q, client_q, Joins) =>
              NoSelect(cmd_q', client_q', Joins) /\ c.cmd # "SELECT_NETWORK"
        /\ Selecting(cmd_q, client_q, Joins) =>
              /\ Selecting(cmd_q', client_q', Joins + 1) /\ c.cmd = "SELECT_NETWORK"
              /\ Joins = 0 /\ Len(cmd_q') = 0
    <2>1. ASSUME NEW d
          PROVE  /\ NoSelect(cmd_q, client_q, d) =>
                       NoSelect(cmd_q', client_q', d) /\ c.cmd # "SELECT_NETWORK"
                 /\ Selecting(cmd_q, client_q, d) =>
                       /\ Selecting(cmd_q', client_q', d + 1) /\ c.cmd = "SELECT_NETWORK"
                       /\ d = 0 /\ Len(cmd_q') = 0
      BY ONLY <1>p, SelectServed DEF c
    <2> QED BY ONLY <2>1
  <1>10. Scanning'
    BY ONLY <1>s, <1>u, <1>6, <1>8 DEF Scanning
  <1>11. conn_state = "SET_SSID_SENT" =>
            /\ c = Set("SET_SSID", net_id, AppSsid) /\ net_id \in DOMAIN networks
            /\ m.kind = "OK"
    <2>1. conn_state = "SET_SSID_SENT" =>
            c = Set("SET_SSID", net_id, AppSsid) /\ net_id \in DOMAIN networks
      BY ONLY <1>s, <1>1 DEF Configuring, c
    <2> QED BY ONLY <1>3, <2>1 DEF Set
  <1>12. conn_state = "SET_PSK_SENT" =>
            /\ c = Set("SET_PSK", net_id, AppPass) /\ net_id \in DOMAIN networks
            /\ m.kind = "OK"
    <2>1. conn_state = "SET_PSK_SENT" =>
            c = Set("SET_PSK", net_id, AppPass) /\ net_id \in DOMAIN networks
      BY ONLY <1>s, <1>1 DEF Configuring, c
    <2> QED BY ONLY <1>3, <2>1 DEF Set
  <1>13. Joining'
    <2>1. conn_state = "ADD_NET_SENT" => Outstands(cmd_q', client_q', "ADD_NETWORK", "ID")
      BY ONLY <1>s, <1>3, <1>7 DEF Joining
    <2>2. /\ conn_state = "SET_SSID_SENT" => Outstands(cmd_q', client_q', "SET_SSID", "OK")
          /\ conn_state = "SET_PSK_SENT" => Outstands(cmd_q', client_q', "SET_PSK", "OK")
      BY ONLY <1>s, <1>7, <1>11, <1>12 DEF Joining
    <2>3. conn_state = "GETTING_STATUS" => Outstands(cmd_q', client_q', "STATUS", "STATUS")
      BY ONLY <1>s, <1>3, <1>7 DEF Joining
    <2>4. conn_state # "CONNECTED"
      BY ONLY <1>s, <1>5 DEF Joining
    <2>5. IF conn_state = "SELECT_SENT"
          THEN Selecting(cmd_q', client_q', Joins') ELSE NoSelect(cmd_q', client_q', Joins')
      <3>1. CASE conn_state = "SELECT_SENT"
        <4>1. Selecting(cmd_q', client_q', Joins + 1) /\ Joins' = Joins + 1
          BY ONLY <1>s, <1>4, <1>9, <3>1 DEF Joining
        <4> QED BY ONLY <3>1, <4>1
      <3>2. CASE conn_state # "SELECT_SENT"
        <4>1. NoSelect(cmd_q', client_q', Joins) /\ Joins' = Joins
          BY ONLY <1>s, <1>4, <1>9, <3>2 DEF Joining
        <4> QED BY ONLY <3>2, <4>1
      <3> QED BY ONLY <3>1, <3>2
    <2> QED BY ONLY <1>s, <1>u, <2>1, <2>2, <2>3, <2>4, <2>5 DEF Joining
  <1>14. Answering'
    <2>1. /\ Len(client_q) \in Nat /\ Len(client_q') = Len(client_q) + 1
          /\ \A i \in 1..Len(client_q) : client_q'[i] = client_q[i]
          /\ client_q'[Len(client_q) + 1] = m
      BY <1>t, <1>2, <1>3, Grown
    <2>2. \A i \in 1..Len(client_q') : i \in 1..Len(client_q) \/ i = Len(client_q) + 1
      BY ONLY <2>1
    <2>3. m.kind # "EV_DISCONNECTED"
      BY <1>3 DEF CtrlEvents
    <2> QED BY ONLY <1>s, <1>3, <1>4, <2>1, <2>2, <2>3 DEF Answering
  <1>15. Configuring'
    <2>1. conn_state = "SET_SSID_SENT" =>
             net_id \in DOMAIN networks' /\ Len(cmd_q') = 0 /\ networks'[net_id].ssid = AppSsid
      <3> SUFFICES ASSUME conn_state = "SET_SSID_SENT"
                   PROVE  net_id \in DOMAIN networks' /\ Len(cmd_q') = 0
                          /\ networks'[net_id].ssid = AppSsid
        OBVIOUS
      <3>1. c.cmd = "SET_SSID" /\ c.id = net_id /\ c.val = AppSsid /\ net_id \in DOMAIN networks
        BY <1>11 DEF Set
      <3>2. Len(cmd_q') = 0
        BY ONLY <1>s, <1>7, <1>11, conn_state = "SET_SSID_SENT" DEF Joining
      <3> QED BY ONLY <1>4, <3>1, <3>2
    <2>2. conn_state = "SET_PSK_SENT" =>
             /\ net_id \in DOMAIN networks' /\ Len(cmd_q') = 0
             /\ networks'[net_id].ssid = AppSsid /\ networks'[net_id].psk = AppPass
      <3> SUFFICES ASSUME conn_state = "SET_PSK_SENT"
                   PROVE  /\ net_id \in DOMAIN networks' /\ Len(cmd_q') = 0
                          /\ networks'[net_id].ssid = AppSsid /\ networks'[net_id].psk = AppPass
        OBVIOUS
      <3>1. c.cmd = "SET_PSK" /\ c.id = net_id /\ c.val = AppPass /\ net_id \in DOMAIN networks
        BY <1>12 DEF Set
      <3>2. Len(cmd_q') = 0
        BY ONLY <1>s, <1>7, <1>12, conn_state = "SET_PSK_SENT" DEF Joining
      <3>3. networks[net_id].ssid = AppSsid
        BY ONLY <1>s, conn_state = "SET_PSK_SENT" DEF Configuring
      <3> QED BY ONLY <1>4, <3>1, <3>2, <3>3
    <2>3. conn_state = "SELECT_SENT" =>
             /\ net_id \in DOMAIN networks' /\ Len(cmd_q') = 0
             /\ networks'[net_id].ssid = AppSsid /\ networks'[net_id].psk = AppPass
      <3> SUFFICES ASSUME conn_state = "SELECT_SENT"
                   PROVE  /\ net_id \in DOMAIN networks' /\ Len(cmd_q') = 0
                          /\ networks'[net_id].ssid = AppSsid /\ networks'[net_id].psk = AppPass
        OBVIOUS
      <3>1. c.cmd = "SELECT_NETWORK" /\ Len(cmd_q') = 0
        BY ONLY <1>s, <1>9, conn_state = "SELECT_SENT" DEF Joining
      <3>2. networks[net_id].ssid = AppSsid /\ networks[net_id].psk = AppPass
            /\ net_id \in DOMAIN networks
        BY ONLY <1>s, conn_state = "SELECT_SENT" DEF Configuring
      <3> QED BY ONLY <1>4, <3>1, <3>2
    <2> QED BY ONLY <1>u, <2>1, <2>2, <2>3 DEF Configuring
  <1>16. Tasks'
    <2>1. Outstands(cmd_q, client_q, "ATTACH", "OK") =>
             Outstands(cmd_q', client_q', "ATTACH", "OK")
      BY ONLY <1>3, <1>7
    <2> QED BY <1>5, <1>8, <2>1, TasksWait DEF DaemonOnly
  <1> QED BY <1>1, <1>u, <1>10, <1>13, <1>14, <1>15, <1>16 DEF Passed, Exchange

LEMMA FireStep ==
  ASSUME StationTypes, SocketUp, Exchange, Tasks, NEW e \in Delayable, MockFire(e), DaemonOnly
  PROVE  Passed
  <1> DEFINE m == [kind |-> e]
  <1>t. /\ cmd_q \in Seq(Datagrams) /\ client_q \in Seq(Msgs)
        /\ Ends \in Nat /\ Joins \in Nat
    BY Types
  <1>m. m \in Msgs /\ m.kind = e /\ m.kind \in CtrlEvents /\ e # "EV_DISCONNECTED"
    BY DEF Msgs, CtrlEvents, Delayable
  <1>1. /\ cmd_q' = cmd_q /\ networks' = networks /\ client_path' = client_path
        /\ client_q' = Append(client_q, m) \/ client_q' = client_q
    BY DEF MockFire
  <1>2. \/ e = "EV_SCAN_RESULTS" /\ Ends > 0 /\ Ends' = Ends - 1 /\ Joins' = Joins
        \/ e = "EV_CONNECTED" /\ Joins > 0 /\ Joins' = Joins - 1 /\ Ends' = Ends
    <2>1. delayed \in [Delayable -> 0..MaxDelayed]
      BY Types DEF DaemonTypes
    <2>2. delayed[e] > 0 /\ delayed' = [delayed EXCEPT ![e] = delayed[e] - 1]
      BY DEF MockFire
    <2> QED BY <2>1, <2>2 DEF Ends, Joins, Delayable
  <1> HIDE DEF m
  <1>s. StartUp /\ Tickets /\ Addressed /\ Scanning /\ Joining /\ Answering /\ Configuring
    BY DEF Tasks, Exchange
  <1>u. /\ conn_state' = conn_state /\ scan_only' = scan_only /\ status' = status
        /\ net_id' = net_id /\ ctrl_open' = ctrl_open
    BY DEF DaemonOnly
  <1>f. Froms
    <2>1. Len(cmd_q) = 0 \/ \A i \in 1..Len(cmd_q) : cmd_q[i].from = client_path
      BY DEF SocketUp
    <2> QED BY <1>1, <2>1 DEF Froms
  <1>3. /\ Settled(cmd_q, client_q) => Settled(cmd_q, client_q')
        /\ DumpLast(cmd_q, client_q) => DumpLast(cmd_q, client_q')
    <2>1. CASE client_q' = Append(client_q, m)
      BY <1>t, <1>m, <2>1, Fired
    <2>2. CASE client_q' = client_q
      BY <2>2
    <2> QED BY <1>1, <2>1, <2>2
  <1>4. \A x, k : Outstands(cmd_q, client_q, x, k) => Outstands(cmd_q, client_q', x, k)
    <2>1. CASE client_q' = Append(client_q, m)
      BY <1>t, <1>m, <2>1, Fired
    <2>2. CASE client_q' = client_q
      BY <2>2
    <2> QED BY <1>1, <2>1, <2>2
  <1>5. /\ NoScan(cmd_q, client_q, Ends) => NoScan(cmd_q, client_q', Ends')
        /\ OneScan(cmd_q, client_q, Ends) => OneScan(cmd_q, client_q', Ends')
        /\ DumpsFirst(cmd_q, client_q, Ends) => DumpsFirst(cmd_q, client_q', Ends')
    <2>1. ASSUME NEW d \in Nat, NEW d2, d = Ends, d2 = Ends'
          PROVE  /\ NoScan(cmd_q, client_q, d) => NoScan(cmd_q, client_q', d2)
                 /\ OneScan(cmd_q, client_q, d) => OneScan(cmd_q, client_q', d2)
                 /\ DumpsFirst(cmd_q, client_q, d) => DumpsFirst(cmd_q, client_q', d2)
      <3>1. CASE e = "EV_SCAN_RESULTS"
        <4>1. d > 0 /\ d2 = d - 1
          BY ONLY <1>2, <2>1, <3>1
        <4> QED BY <1>t, <1>1, <1>m, <3>1, <4>1, FiredScan
      <3>2. CASE e = "EV_CONNECTED"
        <4>1. d2 = d
          BY ONLY <1>2, <2>1, <3>2
        <4>2. CASE client_q' = Append(client_q, m)
          <5>1. m.kind \notin {"EV_SCAN_RESULTS", "DUMP"}
            BY <1>m, <3>2
          <5>2. /\ NoScan(cmd_q, client_q, d) => NoScan(cmd_q, client_q', d)
                /\ OneScan(cmd_q, client_q, d) => OneScan(cmd_q, client_q', d)
                /\ DumpsFirst(cmd_q, client_q, d) => DumpsFirst(cmd_q, client_q', d)
            BY <1>t, <1>m, <4>2, <5>1, FiredOther
          <5> QED BY ONLY <4>1, <5>2
        <4>3. CASE client_q' = client_q
          BY ONLY <4>1, <4>3
        <4> QED BY <1>1, <4>2, <4>3
      <3> QED BY <1>2, <3>1, <3>2
    <2> QED BY ONLY <1>t, <2>1
  <1>6. /\ NoSelect(cmd_q, client_q, Joins) => NoSelect(cmd_q, client_q', Joins')
        /\ Selecting(cmd_q, client_q, Joins) => Selecting(cmd_q, client_q', Joins')
    <2>1. ASSUME NEW d \in Nat, NEW d2, d = Joins, d2 = Joins'
          PROVE  /\ NoSelect(cmd_q, client_q, d) => NoSelect(cmd_q, client_q', d2)
                 /\ Selecting(cmd_q, client_q, d) => Selecting(cmd_q, client_q', d2)
      <3>1. \/ m.kind = "EV_CONNECTED" /\ d > 0 /\ d2 = d - 1
                 /\ (client_q' = Append(client_q, m) \/ client_q' = client_q)
            \/ m.kind = "EV_SCAN_RESULTS" /\ d2 = d
                 /\ (client_q' = Append(client_q, m) \/ client_q' = client_q)
        BY ONLY <1>1, <1>2, <1>m, <2>1
      <3> QED BY <1>t, <1>m, <3>1, SelectFired
    <2> QED BY ONLY <1>t, <2>1
  <1>7. Scanning'
    BY ONLY <1>s, <1>u, <1>1, <1>3, <1>5 DEF Scanning
  <1>8. Joining'
    BY ONLY <1>s, <1>u, <1>1, <1>3, <1>4, <1>6 DEF Joining
  <1>9. Answering'
    <2>1. CASE client_q' = client_q
      BY ONLY <1>s, <1>1, <2>1 DEF Answering
    <2>2. CASE client_q' = Append(client_q, m)
      <3>1. /\ Len(client_q) \in Nat /\ Len(client_q') = Len(client_q) + 1
            /\ \A i \in 1..Len(client_q) : client_q'[i] = client_q[i]
            /\ client_q'[Len(client_q) + 1] = m
        BY <1>t, <1>m, <2>2, Grown
      <3>2. \A i \in 1..Len(client_q') : i \in 1..Len(client_q) \/ i = Len(client_q) + 1
        BY ONLY <3>1
      <3>3. m.kind \notin {"EV_DISCONNECTED", "STATUS", "ID"}
        BY <1>m DEF CtrlEvents
      <3> QED BY ONLY <1>s, <1>1, <3>1, <3>2, <3>3 DEF Answering
    <2> QED BY ONLY <1>1, <2>1, <2>2
  <1>10. Configuring'
    BY ONLY <1>s, <1>u, <1>1 DEF Configuring
  <1>11. Tasks'
    BY <1>1, <1>3, <1>4, <1>5, TasksWait DEF DaemonOnly
  <1> QED BY <1>f, <1>u, <1>7, <1>8, <1>9, <1>10, <1>11 DEF Passed, Exchange

\* ---- The queue of the event loop ------------------------------------------

OneOff(q, q2) ==
    /\ Len(q) \in Nat /\ Len(q) > 0 /\ Len(q2) = Len(q) - 1
    /\ \A i \in 1..(Len(q) - 1) : q2[i] = q[i + 1]

OneMore(q, q2, e) ==
    /\ Len(q) \in Nat /\ Len(q2) = Len(q) + 1
    /\ \A i \in 1..Len(q) : q2[i] = q[i]
    /\ q2[Len(q) + 1] = e

LEMMA HeadGone ==
  ASSUME NEW q, NEW q2, OneOff(q, q2)
  PROVE  /\ OneTicket(q) => OneTicket(q2)
         /\ NoTicket(q) => NoTicket(q2) /\ ~IsTicket(q[1])
         /\ IsTicket(q[1]) /\ OneTicket(q) => NoTicket(q2)
         /\ NoGotIp(q) => NoGotIp(q2) /\ q[1] # "STA_GOT_IP"
  <1>q. /\ Len(q) \in Nat /\ Len(q) > 0 /\ Len(q2) = Len(q) - 1
        /\ \A i \in 1..(Len(q) - 1) : q2[i] = q[i + 1]
    BY DEF OneOff
  <1>i. /\ 1 \in 1..Len(q)
        /\ \A i \in 1..Len(q2) : i + 1 \in 1..Len(q) /\ i + 1 # 1 /\ q2[i] = q[i + 1]
    BY ONLY <1>q
  <1>j. \A i, j \in 1..Len(q2) : i + 1 = j + 1 => i = j
    BY ONLY <1>q
  <1>1. OneTicket(q) => OneTicket(q2)
    BY ONLY <1>i, <1>j DEF OneTicket
  <1>2. NoTicket(q) => NoTicket(q2) /\ ~IsTicket(q[1])
    BY ONLY <1>i DEF NoTicket
  <1>3. IsTicket(q[1]) /\ OneTicket(q) => NoTicket(q2)
    BY ONLY <1>i DEF NoTicket, OneTicket
  <1>4. NoGotIp(q) => NoGotIp(q2) /\ q[1] # "STA_GOT_IP"
    BY ONLY <1>i DEF NoGotIp
  <1> QED BY ONLY <1>1, <1>2, <1>3, <1>4

LEMMA EndAdded ==
  ASSUME NEW q, NEW q2, NEW e, OneMore(q, q2, e)
  PROVE  /\ NoTicket(q) => OneTicket(q2)
         /\ ~IsTicket(e) /\ OneTicket(q) => OneTicket(q2)
         /\ ~IsTicket(e) /\ NoTicket(q) => NoTicket(q2)
         /\ e # "STA_GOT_IP" /\ NoGotIp(q) => NoGotIp(q2)
  <1>q. /\ Len(q) \in Nat /\ Len(q2) = Len(q) + 1
        /\ \A i \in 1..Len(q) : q2[i] = q[i]
        /\ q2[Len(q) + 1] = e
    BY DEF OneMore
  <1>i. \A i \in 1..Len(q2) : i \in 1..Len(q) \/ i = Len(q) + 1
    BY ONLY <1>q
  <1>1. NoTicket(q) => OneTicket(q2)
    BY ONLY <1>q, <1>i DEF NoTicket, OneTicket
  <1>2. ~IsTicket(e) /\ OneTicket(q) => OneTicket(q2)
    BY ONLY <1>q, <1>i DEF OneTicket
  <1>3. ~IsTicket(e) /\ NoTicket(q) => NoTicket(q2)
    BY ONLY <1>q, <1>i DEF NoTicket
  <1>4. e # "STA_GOT_IP" /\ NoGotIp(q) => NoGotIp(q2)
    BY ONLY <1>q, <1>i DEF NoGotIp
  <1> QED BY ONLY <1>1, <1>2, <1>3, <1>4

LEMMA LoopTail ==
  ASSUME StationTypes, loop_q # <<>>
  PROVE  /\ OneOff(loop_q, Tail(loop_q)) /\ Head(loop_q) = loop_q[1]
         /\ Tail(loop_q) \in Seq(LoopEvents)
  <1>1. loop_q \in Seq(LoopEvents)
    BY Types DEF StaTypeOK
  <1>2. Len(loop_q) \in Nat /\ Len(loop_q) > 0
    BY <1>1
  <1> QED BY <1>1, <1>2, Dequeued DEF OneOff

LEMMA LoopAppend ==
  ASSUME NEW q \in Seq(LoopEvents), NEW e \in LoopEvents
  PROVE  OneMore(q, Append(q, e), e) /\ OneMore(q, q \o <<e>>, e) /\ q \o <<>> = q
  <1>1. OneMore(q, Append(q, e), e)
    BY Grown DEF OneMore
  <1>2. <<e>> \in Seq(LoopEvents) /\ Len(<<e>>) = 1 /\ <<e>>[1] = e /\ 1 \in 1..Len(<<e>>)
    OBVIOUS
  <1>3. OneMore(q, q \o <<e>>, e)
    <2>1. /\ Len(q \o <<e>>) = Len(q) + 1
          /\ \A i \in 1..Len(q) : (q \o <<e>>)[i] = q[i]
          /\ (q \o <<e>>)[Len(q) + 1] = e
      BY <1>2, Joined
    <2> QED BY <2>1 DEF OneMore
  <1> QED BY <1>1, <1>3

\* ---- Steps that leave the sequencer and its sockets alone -----------------

Works == SocketUp /\ Exchange /\ Tasks

Still ==
    /\ cmd_q' = cmd_q /\ client_q' = client_q /\ client_path' = client_path
    /\ linked' = linked /\ ctrl_open' = ctrl_open
    /\ conn_state' = conn_state /\ scan_only' = scan_only /\ delayed' = delayed
    /\ networks' = networks /\ net_id' = net_id

LEMMA SocketKept ==
  ASSUME SocketUp, app_pc # "init", app_pc' # "init", linked' = linked,
         ctrl_open' = ctrl_open, client_path' = client_path, Froms
  PROVE  SocketUp'
  <1>1. /\ ctrl_open' /\ linked' /\ app_pc' # "init" /\ client_path' = client_path
    BY DEF SocketUp
  <1> QED BY ONLY <1>1, Froms DEF SocketUp, Froms

LEMMA StillKeeps ==
  ASSUME SocketUp, Exchange, app_pc # "init", app_pc' # "init", Still,
         status' = "CONNECTED" => status = "CONNECTED"
  PROVE  SocketUp' /\ Exchange' /\ Ends' = Ends
  <1>1. Froms
    BY DEF Froms, SocketUp, Still
  <1>2. SocketUp'
    BY <1>1, SocketKept DEF Still
  <1>3. Exchange'
    BY ExchangeFrame DEF Still
  <1> QED BY <1>2, <1>3 DEF Still, Ends

LEMMA QuietWrites ==
  ASSUME StationTypes
  PROVE  /\ WriteCmd(CmdAcknowledged) =>
              /\ Still /\ event' = "INIT_DONE" /\ status' = status
              /\ ssid' = ssid /\ pass' = pass /\ ip_addr' = ip_addr
              /\ got_ip_timers' = got_ip_timers
         /\ WriteCmd(CmdStart) =>
              /\ Still /\ event' = "START_DONE" /\ status' = "STARTED"
              /\ ssid' = ssid /\ pass' = pass /\ ip_addr' = ip_addr
              /\ got_ip_timers' = got_ip_timers
         /\ Acknowledge =>
              /\ Still /\ event' = NoEvent /\ status' = status
              /\ ssid' = ssid /\ pass' = pass /\ ip_addr' = ip_addr
              /\ got_ip_timers' = got_ip_timers
         /\ ReadOnly =>
              /\ Still /\ event' = event /\ status' = status
              /\ ssid' = ssid /\ pass' = pass /\ ip_addr' = ip_addr
              /\ got_ip_timers' = got_ip_timers
  <1>1. sent' = <<>> /\ Transmit => cmd_q' = cmd_q
    BY Silent
  <1>2. WriteCmd(CmdAcknowledged) =>
              /\ Still /\ event' = "INIT_DONE" /\ status' = status
              /\ ssid' = ssid /\ pass' = pass /\ ip_addr' = ip_addr
              /\ got_ip_timers' = got_ip_timers
    BY <1>1 DEF WriteCmd, CmdAcknowledged, PostEvent, Still, KeepSocket, GuestIdle, mockVars,
                connVars, cfgVars, ipVars, sockVars
  <1>3. WriteCmd(CmdStart) =>
              /\ Still /\ event' = "START_DONE" /\ status' = "STARTED"
              /\ ssid' = ssid /\ pass' = pass /\ ip_addr' = ip_addr
              /\ got_ip_timers' = got_ip_timers
    BY <1>1 DEF WriteCmd, CmdStart, PostEvent, Still, KeepSocket, GuestIdle, mockVars,
                cfgVars, ipVars, sockVars
  <1>4. Acknowledge =>
              /\ Still /\ event' = NoEvent /\ status' = status
              /\ ssid' = ssid /\ pass' = pass /\ ip_addr' = ip_addr
              /\ got_ip_timers' = got_ip_timers
    BY DEF Acknowledge, AckEvent, WriteEvent, Quiet, Still, GuestIdle, mockVars, queueVars,
           connVars, cfgVars, ipVars, sockVars
  <1>5. ReadOnly =>
              /\ Still /\ event' = event /\ status' = status
              /\ ssid' = ssid /\ pass' = pass /\ ip_addr' = ip_addr
              /\ got_ip_timers' = got_ip_timers
    BY DEF ReadOnly, linkVars, devVars, regVars, Still, mockVars, queueVars,
           connVars, cfgVars, ipVars, sockVars
  <1> QED BY ONLY <1>2, <1>3, <1>4, <1>5

\* The first datagram of an empty queue.
LEMMA EnqueuedFirst ==
  ASSUME NEW q \in Seq(Datagrams), Len(q) = 0, NEW p \in Paths,
         NEW cs \in Seq(Cmds), Len(cs) = 1, NEW r, r = Enqueue(q, p, cs)
  PROVE  Len(r) = 1 /\ r[1] = [from |-> p, cmd |-> cs[1]]
  <1>1. Len(q) <= QueueMax /\ Len(q) + Len(cs) <= QueueMax
    BY QueueAssumption
  <1>q. /\ q \in Seq(Datagrams) /\ p \in Paths /\ cs \in Seq(Cmds)
        /\ r = Enqueue(q, p, cs) /\ Len(q) <= QueueMax
    BY <1>1
  <1>2. Len(q) + Len(cs) <= QueueMax => Len(r) = Len(q) + Len(cs)
    BY ONLY <1>q, Enqueued
  <1>3. \A i \in 1..Len(r) :
            i > Len(q) => /\ i - Len(q) \in 1..Len(cs)
                          /\ r[i] = [from |-> p, cmd |-> cs[i - Len(q)]]
    BY ONLY <1>q, Enqueued
  <1>4. Len(r) = 1 /\ 1 \in 1..Len(r) /\ 1 > Len(q) /\ 1 - Len(q) = 1
    BY <1>1, <1>2
  <1> QED BY ONLY <1>3, <1>4

\* ---- The steps of the application -----------------------------------------

\* The first step: the socket is opened, and ATTACH is on its way.
LEMMA InitStep ==
  ASSUME StationTypes, Works, AppInit
  PROVE  Works'
  <1>s. /\ SocketUp /\ StartUp /\ Tickets /\ Addressed
        /\ Scanning /\ Joining /\ Answering /\ Configuring
    BY DEF Works, Tasks, Exchange
  <1>1. PICK p \in Paths : LinkInitConnected(p)
    BY DEF AppInit
  <1>g. /\ app_pc = "init" /\ app_pc' = "init_poll" /\ evt_pc' = evt_pc /\ evt' = evt
        /\ loop_q' = loop_q /\ bits' = bits /\ delayed' = delayed /\ networks' = networks
    BY DEF AppInit, GuestIdle, mockVars
  <1>2. /\ Len(cmd_q) = 0 /\ ~linked /\ ~ctrl_open /\ conn_state = "NONE" /\ status = "UNINIT"
        /\ event = NoEvent /\ got_ip_timers = 0
    BY ONLY <1>s, <1>g DEF SocketUp
  <1>3. /\ evt_pc = "none" /\ ~scan_only /\ evt = NoEvent /\ Len(loop_q) = 0
        /\ Ends = 0 /\ Joins = 0
    BY ONLY <1>s, <1>g, <1>2 DEF StartUp, NoScan, Joining, NoSelect
  <1>4. Plain("ATTACH") \in Cmds /\ Plain("ATTACH").cmd = "ATTACH"
    BY PlainIsCmd DEF CmdNames, Plain
  <1>5. Detached = cmd_q /\ (Len(Detached) < QueueMax) = TRUE
    BY <1>2, QueueAssumption DEF Detached
  <1>6. InitConnected(TRUE) /\ cmd_q' = Enqueue(cmd_q, p, <<Plain("ATTACH")>>)
        /\ client_path' = p /\ client_q' = <<>> /\ linked' = TRUE
    BY <1>1, <1>5 DEF LinkInitConnected
  <1>7. /\ ctrl_open' = TRUE /\ conn_state' = "ATTACH_SENT" /\ event' = event
        /\ status' = status /\ scan_only' = scan_only /\ net_id' = net_id
        /\ ip_addr' = ip_addr /\ got_ip_timers' = got_ip_timers
    BY <1>6 DEF InitConnected, regVars, ipVars
  <1>8. Len(cmd_q') = 1 /\ cmd_q'[1].from = p /\ cmd_q'[1].cmd.cmd = "ATTACH"
    <2>1. cmd_q \in Seq(Datagrams) /\ p \in Paths
          /\ cmd_q' = Enqueue(cmd_q, p, <<Plain("ATTACH")>>)
      BY <1>6, Types
    <2>2. Len(cmd_q') = 1 /\ cmd_q'[1] = [from |-> p, cmd |-> Plain("ATTACH")]
      <3> DEFINE cs == <<Plain("ATTACH")>>
      <3>1. /\ cs \in Seq(Cmds) /\ Len(cs) = 1 /\ cs[1] = Plain("ATTACH")
            /\ cmd_q \in Seq(Datagrams) /\ Len(cmd_q) = 0 /\ p \in Paths
            /\ cmd_q' = Enqueue(cmd_q, p, cs)
        BY ONLY <1>2, <1>4, <2>1
      <3> HIDE DEF cs
      <3>2. Len(cmd_q') = 1 /\ cmd_q'[1] = [from |-> p, cmd |-> cs[1]]
        BY ONLY <3>1, EnqueuedFirst
      <3> QED BY ONLY <3>1, <3>2
    <2> QED BY <1>4, <2>2
  <1>9. /\ NoScan(cmd_q', client_q', 0) /\ DumpsFirst(cmd_q', client_q', 0)
        /\ NoSelect(cmd_q', client_q', 0) /\ Outstands(cmd_q', client_q', "ATTACH", "OK")
    <2>1. Len(client_q') = 0 /\ \A i \in 1..Len(cmd_q') : cmd_q'[i].cmd.cmd = "ATTACH"
      BY <1>6, <1>8
    <2> QED BY ONLY <1>8, <2>1
            DEF NoScan, DumpsFirst, NoSelect, Outstands, NoCmd, NoMsg, AllEvents
  <1>u. Ends' = 0 /\ Joins' = 0
    BY <1>3, <1>g DEF Ends, Joins
  <1>10. SocketUp'
    <2>1. \A i \in 1..Len(cmd_q') : cmd_q'[i].from = client_path'
      BY <1>6, <1>8
    <2> QED BY ONLY <1>g, <1>6, <1>7, <2>1 DEF SocketUp
  <1>11. Scanning' /\ Joining' /\ Configuring'
    BY ONLY <1>2, <1>3, <1>7, <1>9, <1>u DEF Scanning, Joining, Configuring
  <1>12. Answering'
    <2>1. Len(client_q') = 0
      BY <1>6
    <2> QED BY ONLY <2>1 DEF Answering
  <1>13. StartUp'
    <2>1. Attaching'
      BY ONLY <1>2, <1>7, <1>9 DEF Attaching
    <2>2. event' # "ERROR"
      BY ONLY <1>2, <1>7 DEF NoEvent
    <2> QED BY ONLY <1>g, <1>3, <1>7, <1>9, <1>u, <2>1, <2>2 DEF StartUp, Starting
  <1>14. Tickets'
    <2>1. NoTicket(loop_q') /\ OneTicket(loop_q')
      BY ONLY <1>g, <1>3 DEF NoTicket, OneTicket
    <2>2. event' # "DISCONNECTED" /\ evt' # "DISCONNECTED"
      BY ONLY <1>g, <1>2, <1>3, <1>7 DEF NoEvent
    <2> QED BY ONLY <1>g, <2>1, <2>2 DEF Tickets
  <1>15. Addressed'
    BY ONLY <1>s, <1>g, <1>7 DEF Addressed
  <1> QED BY <1>10, <1>11, <1>12, <1>13, <1>14, <1>15 DEF Works, Tasks, Exchange

\* The application in esp_wifi_start(): nothing is outstanding.
LEMMA StartingSteps ==
  ASSUME StationTypes, Works, AppSetMode \/ AppSetConfig \/ AppStart \/ AppPoll
  PROVE  Works'
  <1>s. /\ SocketUp /\ StartUp /\ Tickets /\ Addressed /\ Exchange
        /\ Scanning /\ Joining /\ Answering /\ Configuring
    BY DEF Works, Tasks, Exchange
  <1>1. /\ Still /\ ip_addr' = ip_addr /\ evt_pc' = evt_pc /\ evt' = evt /\ loop_q' = loop_q
        /\ bits' = bits /\ (status' = "CONNECTED" => status = "CONNECTED")
    <2>1. CASE AppSetMode
      BY <2>1, QuietWrites DEF AppSetMode
    <2>2. CASE AppSetConfig
      BY <2>2 DEF AppSetConfig, WriteSsid, WritePass, Quiet, Still, GuestIdle, mockVars,
                  queueVars, connVars, ipVars, sockVars
    <2>3. CASE AppStart
      BY <2>3, QuietWrites DEF AppStart
    <2>4. CASE AppPoll
      BY <2>4, QuietWrites DEF AppPoll, Poll
    <2> QED BY <2>1, <2>2, <2>3, <2>4
  <1>2. /\ app_pc \in {"init_poll", "mode", "mode_poll", "ssid", "pass", "start", "start_poll"}
        /\ app_pc' \in {"mode", "mode_poll", "ssid", "pass", "start", "start_poll", "scan"}
        /\ app_pc = "init_poll" => event # NoEvent
        /\ event' \in {event, "INIT_DONE", "START_DONE", NoEvent}
        /\ app_pc' \in {"pass", "start", "start_poll", "scan"} => ssid' = AppSsid
        /\ app_pc' \in {"start", "start_poll", "scan"} => pass' = AppPass
    <2>e. event # "ERROR"
      BY ONLY <1>s DEF StartUp
    <2>1. CASE AppSetMode
      BY <2>1, QuietWrites DEF AppSetMode
    <2>2. CASE AppSetConfig
      BY <2>2, <1>s DEF AppSetConfig, WriteSsid, WritePass, regVars, StartUp
    <2>3. CASE AppStart
      BY <2>3, <1>s, QuietWrites DEF AppStart, StartUp
    <2>4. CASE AppPoll
      <3>1. /\ event # NoEvent /\ event' = NoEvent /\ ssid' = ssid /\ pass' = pass
            /\ \/ app_pc = "init_poll" /\ app_pc' = "mode"
               \/ app_pc = "mode_poll" /\ app_pc' = "ssid"
               \/ app_pc = "start_poll" /\ app_pc' = "scan"
        BY <2>4, <2>e, QuietWrites DEF AppPoll, Poll
      <3> QED BY ONLY <1>s, <3>1 DEF StartUp
    <2> QED BY <2>1, <2>2, <2>3, <2>4
  <1>3. SocketUp' /\ Exchange' /\ Ends' = Ends
    BY <1>s, <1>1, <1>2, StillKeeps
  <1>4. conn_state = "IDLE" /\ Settled(cmd_q, client_q)
    BY ONLY <1>s, <1>2 DEF StartUp, Starting, Attaching
  <1>5. /\ app_pc \notin {"scan", "wait"} /\ evt_pc = "none" /\ evt = NoEvent
        /\ Len(loop_q) = 0 /\ ~scan_only
    BY ONLY <1>s, <1>2 DEF StartUp
  <1>6. event \notin {"ERROR", "DISCONNECTED"} /\ NoTicket(loop_q)
    BY ONLY <1>s, <1>2 DEF StartUp, Tickets
  <1>7. /\ event' \notin {"ERROR", "DISCONNECTED"}
        /\ event' \in {event, "INIT_DONE", "START_DONE", NoEvent}
    BY ONLY <1>2, <1>6 DEF NoEvent
  <1>8. StartUp'
    <2>1. cmd_q' = cmd_q /\ client_q' = client_q /\ conn_state' = "IDLE" /\ ~scan_only'
      BY <1>1, <1>4, <1>5 DEF Still
    <2>2. NoScan(cmd_q, client_q, Ends)
      BY ONLY <1>s, <1>5 DEF StartUp
    <2> QED BY ONLY <1>1, <1>2, <1>3, <1>4, <1>5, <1>7, <2>1, <2>2 DEF StartUp, Starting
  <1>9. Tickets'
    <2>1. conn_state' = "IDLE"
      BY <1>1, <1>4 DEF Still
    <2> QED BY ONLY <1>s, <1>1, <1>5, <1>6, <1>7, <2>1 DEF Tickets, Idles, NoEvent
  <1>10. Addressed'
    BY ONLY <1>s, <1>1, <1>7 DEF Addressed, NoEvent
  <1> QED BY <1>3, <1>8, <1>9, <1>10 DEF Works, Tasks

\* The scan of esp_wifi_start().
LEMMA StartupScanStep ==
  ASSUME StationTypes, Works, AppStartupScan
  PROVE  Works'
  <1>s. /\ SocketUp /\ StartUp /\ Tickets /\ Addressed /\ Exchange
        /\ Scanning /\ Joining /\ Answering /\ Configuring
    BY DEF Works, Tasks, Exchange
  <1>1. /\ app_pc = "scan" /\ evt_pc = "none" /\ evt_pc' = "read" /\ WriteCmd(CmdScan)
        /\ app_pc' = app_pc /\ evt' = evt /\ loop_q' = loop_q /\ bits' = bits
    BY DEF AppStartupScan
  <1>2. /\ conn_state = "IDLE" /\ NoScan(cmd_q, client_q, Ends) /\ Len(loop_q) = 0
        /\ event # "ERROR" /\ ssid = AppSsid /\ pass = AppPass /\ evt = NoEvent
    BY ONLY <1>s, <1>1 DEF StartUp, Starting
  <1>3. ctrl_open /\ status # "CONNECTED" /\ Idles
    BY ONLY <1>s, <1>1, <1>2 DEF SocketUp, Joining, Idles
  <1>4. /\ Send(Plain("SCAN")) /\ Transmit /\ conn_state' = "SCAN_SENT" /\ scan_only' = TRUE
        /\ status' = status /\ client_q' = client_q /\ delayed' = delayed
        /\ networks' = networks /\ net_id' = net_id /\ event' = event /\ ip_addr' = ip_addr
        /\ ssid' = ssid /\ pass' = pass /\ ctrl_open' = ctrl_open /\ linked' = linked
        /\ client_path' = client_path
    BY <1>1, <1>3 DEF WriteCmd, CmdScan, KeepSocket, GuestIdle, mockVars, regVars, cfgVars,
                      ipVars, sockVars
  <1>5. Exchange' /\ Froms
    BY <1>s, <1>1, <1>2, <1>3, <1>4, ScanStarts DEF Froms
  <1>6. SocketUp'
    BY <1>s, <1>1, <1>4, <1>5, SocketKept
  <1>7. StartUp'
    BY ONLY <1>1, <1>2, <1>4 DEF StartUp, Starting
  <1>8. Tickets'
    <2>1. NoTicket(loop_q) /\ event # "DISCONNECTED"
      BY ONLY <1>s, <1>1 DEF Tickets
    <2> QED BY ONLY <1>s, <1>1, <1>2, <1>4, <2>1 DEF Tickets, Idles, NoEvent
  <1>9. Addressed'
    BY ONLY <1>s, <1>1, <1>4 DEF Addressed
  <1> QED BY <1>5, <1>6, <1>7, <1>8, <1>9 DEF Works, Tasks

\* esp_wifi_disconnect() by an application that is connected.
LEMMA AppDisconnectStep ==
  ASSUME StationTypes, Works, AppDisconnect, "CONNECTING" \notin DisconnectFrom
  PROVE  Works'
  <1>s. /\ SocketUp /\ StartUp /\ Tickets /\ Addressed /\ Exchange
        /\ Scanning /\ Joining /\ Answering /\ Configuring
    BY DEF Works, Tasks, Exchange
  <1>1. /\ app_pc = "wait" /\ status \in DisconnectFrom /\ WriteCmd(CmdDisconnect)
        /\ app_pc' = app_pc /\ evt' = evt /\ evt_pc' = evt_pc /\ loop_q' = loop_q
        /\ bits' = bits \ {"CONNECTED"}
    BY DEF AppDisconnect
  <1>2. /\ status \in {"CONNECTING", "CONNECTED"} /\ event' = "DISCONNECTED"
        /\ ip_addr' = ip_addr /\ ssid' = ssid /\ pass' = pass /\ ctrl_open' = ctrl_open
        /\ client_path' = client_path /\ linked' = linked
    BY <1>1 DEF WriteCmd, CmdDisconnect, PostEvent, KeepSocket, ipVars, cfgVars, sockVars
  <1>3. status = "CONNECTED"
    BY <1>1, <1>2
  <1>4. /\ Exchange' /\ Froms /\ conn_state \in {"GETTING_STATUS", "CONNECTED"} /\ ~scan_only
        /\ conn_state' = "IDLE"
    BY <1>s, <1>1, <1>3, DisconnectStep DEF Froms
  <1>5. SocketUp'
    BY <1>s, <1>1, <1>2, <1>4, SocketKept
  <1>6. evt_pc # "none"
    BY ONLY <1>s, <1>1 DEF StartUp
  <1>7. StartUp'
    BY ONLY <1>s, <1>1, <1>2, <1>4, <1>6 DEF StartUp, Starting
  <1>8. NoTicket(loop_q) /\ evt # "DISCONNECTED"
    BY ONLY <1>s, <1>4 DEF Tickets, Idles
  <1>9. Tickets'
    BY ONLY <1>s, <1>1, <1>4, <1>8 DEF Tickets, Idles
  <1>10. Addressed'
    BY ONLY <1>s, <1>1, <1>2 DEF Addressed
  <1> QED BY <1>4, <1>5, <1>7, <1>9, <1>10 DEF Works, Tasks

\* STA_START is posted to the event loop.
LEMMA PostStartStep ==
  ASSUME StationTypes, Works, AppPostStart
  PROVE  Works'
  <1>s. /\ SocketUp /\ StartUp /\ Tickets /\ Addressed /\ Exchange
    BY DEF Works, Tasks
  <1>1. /\ app_pc = "scan" /\ evt_pc # "none" /\ app_pc' = "wait"
        /\ loop_q' = Append(loop_q, "STA_START")
        /\ evt_pc' = evt_pc /\ evt' = evt /\ bits' = bits
        /\ Still /\ event' = event /\ status' = status /\ ssid' = ssid /\ pass' = pass
        /\ ip_addr' = ip_addr
    BY QuietWrites DEF AppPostStart
  <1>2. SocketUp' /\ Exchange'
    BY <1>s, <1>1, StillKeeps
  <1>3. /\ conn_state' = conn_state /\ scan_only' = scan_only
    BY <1>1 DEF Still
  <1>4. OneMore(loop_q, loop_q', "STA_START")
    <2>1. loop_q \in Seq(LoopEvents) /\ "STA_START" \in LoopEvents
      BY Types DEF StaTypeOK, LoopEvents
    <2> QED BY <1>1, <2>1, LoopAppend
  <1>5. NoTicket(loop_q) /\ event # "DISCONNECTED" /\ evt # "DISCONNECTED" /\ Idles
    BY ONLY <1>s, <1>1 DEF Tickets
  <1>6. OneTicket(loop_q') /\ (NoGotIp(loop_q) => NoGotIp(loop_q'))
    BY ONLY <1>4, <1>5, EndAdded
  <1>7. StartUp'
    BY ONLY <1>s, <1>1, <1>3 DEF StartUp, Starting
  <1>8. Tickets'
    BY ONLY <1>1, <1>3, <1>5, <1>6 DEF Tickets, Idles
  <1>9. Addressed'
    BY ONLY <1>s, <1>1, <1>6 DEF Addressed
  <1> QED BY <1>2, <1>7, <1>8, <1>9 DEF Works, Tasks

\* ---- The event task -------------------------------------------------------

LEMMA EvtStep ==
  ASSUME StationTypes, Works, EvtTask
  PROVE  Works'
  <1>s. /\ SocketUp /\ StartUp /\ Tickets /\ Addressed /\ Exchange
    BY DEF Works, Tasks
  <1>1. /\ evt_pc # "none" /\ evt_pc' # "none" /\ app_pc' = app_pc /\ bits' = bits
        /\ Still /\ status' = status /\ ssid' = ssid /\ pass' = pass /\ ip_addr' = ip_addr
    BY QuietWrites DEF EvtTask, EvtRead, EvtAck, EvtPost
  <1>2. \/ evt_pc' = "ack" /\ evt' = event /\ event' = event /\ loop_q' = loop_q
        \/ evt_pc' = "post" /\ evt' = evt /\ event' = NoEvent /\ loop_q' = loop_q
        \/ /\ evt_pc = "post" /\ evt_pc' = "read" /\ evt' = NoEvent /\ event' = event
           /\ loop_q' = loop_q \o Posts(evt)
    BY QuietWrites DEF EvtTask, EvtRead, EvtAck, EvtPost
  <1>3. app_pc \in {"scan", "wait"}
    BY ONLY <1>s, <1>1 DEF StartUp
  <1>4. SocketUp' /\ Exchange'
    BY <1>s, <1>1, <1>3, StillKeeps
  <1>5. conn_state' = conn_state /\ scan_only' = scan_only
    BY <1>1 DEF Still
  <1>6. StartUp'
    <2>1. event' # "ERROR"
      BY ONLY <1>s, <1>2 DEF StartUp, NoEvent
    <2> QED BY ONLY <1>s, <1>1, <1>2, <1>3, <1>5, <2>1 DEF StartUp, Starting
  <1>p. loop_q' = loop_q \o Posts(evt) =>
          /\ evt = "DISCONNECTED" => OneMore(loop_q, loop_q', "STA_DISCONNECTED")
          /\ evt # "DISCONNECTED" =>
                /\ OneTicket(loop_q) => OneTicket(loop_q')
                /\ NoTicket(loop_q) => NoTicket(loop_q')
          /\ NoGotIp(loop_q) => NoGotIp(loop_q')
    <2> SUFFICES ASSUME loop_q' = loop_q \o Posts(evt)
                 PROVE  /\ evt = "DISCONNECTED" => OneMore(loop_q, loop_q', "STA_DISCONNECTED")
                        /\ evt # "DISCONNECTED" =>
                              /\ OneTicket(loop_q) => OneTicket(loop_q')
                              /\ NoTicket(loop_q) => NoTicket(loop_q')
                        /\ NoGotIp(loop_q) => NoGotIp(loop_q')
      OBVIOUS
    <2>t. loop_q \in Seq(LoopEvents)
      BY Types DEF StaTypeOK
    <2>1. CASE evt \notin {"CONNECTED", "DISCONNECTED", "SCAN_DONE"}
      <3>1. Posts(evt) = <<>>
        BY <2>1 DEF Posts
      <3>2. loop_q' = loop_q
        BY <2>t, <3>1
      <3> QED BY <2>1, <3>2
    <2>2. ASSUME NEW e \in LoopEvents, Posts(evt) = <<e>>, e # "STA_GOT_IP",
                 IsTicket(e) => evt = "DISCONNECTED" /\ e = "STA_DISCONNECTED",
                 evt = "DISCONNECTED" => e = "STA_DISCONNECTED"
          PROVE  /\ evt = "DISCONNECTED" => OneMore(loop_q, loop_q', "STA_DISCONNECTED")
                 /\ evt # "DISCONNECTED" =>
                       /\ OneTicket(loop_q) => OneTicket(loop_q')
                       /\ NoTicket(loop_q) => NoTicket(loop_q')
                 /\ NoGotIp(loop_q) => NoGotIp(loop_q')
      <3>1. OneMore(loop_q, loop_q', e)
        BY <2>t, <2>2, LoopAppend
      <3> QED BY <2>2, <3>1, EndAdded
    <2>3. CASE evt = "CONNECTED"
      <3>1. Posts(evt) = <<"STA_CONNECTED">> /\ "STA_CONNECTED" \in LoopEvents
        BY <2>3 DEF Posts, LoopEvents
      <3> QED BY <2>2, <2>3, <3>1 DEF IsTicket
    <2>4. CASE evt = "DISCONNECTED"
      <3>1. Posts(evt) = <<"STA_DISCONNECTED">> /\ "STA_DISCONNECTED" \in LoopEvents
        BY <2>4 DEF Posts, LoopEvents
      <3> QED BY <2>2, <2>4, <3>1 DEF IsTicket
    <2>5. CASE evt = "SCAN_DONE"
      <3>1. Posts(evt) = <<"SCAN_DONE">> /\ "SCAN_DONE" \in LoopEvents
        BY <2>5 DEF Posts, LoopEvents
      <3> QED BY <2>2, <2>5, <3>1 DEF IsTicket
    <2> QED BY <2>1, <2>3, <2>4, <2>5
  <1>7. Tickets'
    <2>1. CASE loop_q' = loop_q /\ evt_pc' # "read"
      <3>1. event' # "DISCONNECTED" \/ evt' # "DISCONNECTED" \/ evt_pc' # "post"
        BY ONLY <1>2, <2>1 DEF NoEvent
      <3>2. (event' = "DISCONNECTED" => event = "DISCONNECTED")
        BY ONLY <1>2 DEF NoEvent
      <3>3. evt' = "DISCONNECTED" => event = "DISCONNECTED" \/ evt = "DISCONNECTED"
        BY ONLY <1>2, <2>1
      <3>4. app_pc' = app_pc /\ Idles' = Idles
        BY ONLY <1>1, <1>5 DEF Idles
      <3> QED BY ONLY <1>s, <2>1, <3>1, <3>2, <3>3, <3>4 DEF Tickets
    <2>2. CASE /\ evt_pc = "post" /\ evt_pc' = "read" /\ evt' = NoEvent /\ event' = event
               /\ loop_q' = loop_q \o Posts(evt)
      <3>1. app_pc' = app_pc /\ Idles' = Idles /\ evt' # "DISCONNECTED" /\ evt_pc' # "post"
        BY ONLY <1>1, <1>5, <2>2 DEF Idles, NoEvent
      <3>2. CASE evt = "DISCONNECTED"
        <4>1. NoTicket(loop_q) /\ event # "DISCONNECTED" /\ Idles /\ app_pc = "wait"
          BY ONLY <1>s, <2>2, <3>2 DEF Tickets
        <4>2. OneTicket(loop_q')
          BY ONLY <1>p, <2>2, <3>2, <4>1, EndAdded
        <4> QED BY ONLY <2>2, <3>1, <4>1, <4>2 DEF Tickets
      <3>3. CASE evt # "DISCONNECTED"
        <4>1. /\ OneTicket(loop_q) => OneTicket(loop_q')
              /\ NoTicket(loop_q) => NoTicket(loop_q')
          BY ONLY <1>p, <2>2, <3>3
        <4> QED BY ONLY <1>s, <2>2, <3>1, <3>3, <4>1 DEF Tickets
      <3> QED BY ONLY <3>2, <3>3
    <2> QED BY ONLY <1>2, <2>1, <2>2
  <1>8. Addressed'
    <2>1. NoGotIp(loop_q) => NoGotIp(loop_q')
      BY ONLY <1>2, <1>p
    <2>2. /\ event' = "CONNECTED" => event = "CONNECTED"
          /\ evt' = "CONNECTED" => event = "CONNECTED" \/ evt = "CONNECTED"
      BY ONLY <1>2 DEF NoEvent
    <2> QED BY ONLY <1>s, <1>1, <2>1, <2>2 DEF Addressed
  <1> QED BY <1>4, <1>6, <1>7, <1>8 DEF Works, Tasks

\* ---- The event loop -------------------------------------------------------

\* A handler that does not write to the device.
LEMMA LoopReads ==
  ASSUME StationTypes, Works, loop_q # <<>>, ReadOnly,
         app_pc' = app_pc, evt_pc' = evt_pc, evt' = evt,
         \/ loop_q' = Tail(loop_q)
         \/ loop_q' = Tail(loop_q) \o <<"STA_GOT_IP">> /\ ip_addr # Nothing,
         "CONNECTED" \in bits' => "CONNECTED" \in bits \/ Head(loop_q) = "STA_GOT_IP"
  PROVE  Works'
  <1>s. /\ SocketUp /\ StartUp /\ Tickets /\ Addressed /\ Exchange
    BY DEF Works, Tasks
  <1>1. /\ Still /\ event' = event /\ status' = status /\ ssid' = ssid /\ pass' = pass
        /\ ip_addr' = ip_addr
    BY QuietWrites
  <1>2. /\ OneOff(loop_q, Tail(loop_q)) /\ Head(loop_q) = loop_q[1]
        /\ Tail(loop_q) \in Seq(LoopEvents)
    BY LoopTail
  <1>3. evt_pc # "none" /\ app_pc \in {"scan", "wait"}
    <2>1. Len(loop_q) # 0
      BY ONLY <1>2 DEF OneOff
    <2> QED BY ONLY <1>s, <2>1 DEF StartUp
  <1>4. SocketUp' /\ Exchange'
    BY <1>s, <1>1, <1>3, StillKeeps
  <1>5. /\ conn_state' = conn_state /\ scan_only' = scan_only
        /\ app_pc' = app_pc /\ evt_pc' = evt_pc /\ evt' = evt
    BY <1>1 DEF Still
  <1>6. /\ OneTicket(loop_q) => OneTicket(loop_q')
        /\ NoTicket(loop_q) => NoTicket(loop_q')
        /\ NoGotIp(loop_q) /\ ip_addr = Nothing =>
              NoGotIp(loop_q') /\ Head(loop_q) # "STA_GOT_IP"
    <2>1. /\ OneTicket(loop_q) => OneTicket(Tail(loop_q))
          /\ NoTicket(loop_q) => NoTicket(Tail(loop_q))
          /\ NoGotIp(loop_q) => NoGotIp(Tail(loop_q)) /\ Head(loop_q) # "STA_GOT_IP"
      BY ONLY <1>2, HeadGone
    <2>2. CASE loop_q' = Tail(loop_q)
      BY ONLY <2>1, <2>2
    <2>3. CASE loop_q' = Tail(loop_q) \o <<"STA_GOT_IP">> /\ ip_addr # Nothing
      <3>1. OneMore(Tail(loop_q), loop_q', "STA_GOT_IP")
        <4>1. "STA_GOT_IP" \in LoopEvents
          BY DEF LoopEvents
        <4> QED BY <1>2, <2>3, <4>1, LoopAppend
      <3>2. ~IsTicket("STA_GOT_IP")
        BY DEF IsTicket
      <3>3. /\ OneTicket(Tail(loop_q)) => OneTicket(loop_q')
            /\ NoTicket(Tail(loop_q)) => NoTicket(loop_q')
        BY ONLY <3>1, <3>2, EndAdded
      <3> QED BY ONLY <2>1, <2>3, <3>3
    <2> QED BY <2>2, <2>3
  <1>7. StartUp'
    BY ONLY <1>s, <1>1, <1>3, <1>5 DEF StartUp, Starting
  <1>8. Tickets'
    BY ONLY <1>s, <1>1, <1>5, <1>6 DEF Tickets, Idles
  <1>9. Addressed'
    <2>1. "CONNECTED" \in bits' => "CONNECTED" \in bits \/ Head(loop_q) = "STA_GOT_IP"
      OBVIOUS
    <2> QED BY ONLY <1>s, <1>1, <1>5, <1>6, <2>1 DEF Addressed
  <1> QED BY <1>4, <1>7, <1>8, <1>9 DEF Works, Tasks

\* esp_wifi_connect(): the ticket is spent.
LEMMA LoopConnects ==
  ASSUME StationTypes, Works, loop_q # <<>>, IsTicket(Head(loop_q)),
         status = "STARTED", WriteCmd(CmdConnect(FALSE)), loop_q' = Tail(loop_q),
         app_pc' = app_pc, evt_pc' = evt_pc, evt' = evt, bits' = bits
  PROVE  Works'
  <1>s. /\ SocketUp /\ StartUp /\ Tickets /\ Addressed /\ Exchange
    BY DEF Works, Tasks
  <1>1. /\ OneOff(loop_q, loop_q') /\ IsTicket(loop_q[1]) /\ Len(loop_q) # 0
        /\ app_pc' = app_pc /\ evt_pc' = evt_pc /\ evt' = evt /\ bits' = bits
    BY LoopTail DEF OneOff
  <1>2. /\ Send(Plain("SCAN")) /\ Transmit /\ conn_state' = "SCAN_SENT" /\ scan_only' = FALSE
        /\ status' = status /\ client_q' = client_q /\ delayed' = delayed
        /\ networks' = networks /\ net_id' = net_id /\ event' = event /\ ip_addr' = ip_addr
        /\ ssid' = ssid /\ pass' = pass /\ ctrl_open' = ctrl_open /\ linked' = linked
        /\ client_path' = client_path
    BY DEF WriteCmd, CmdConnect, KeepSocket, GuestIdle, mockVars, regVars, cfgVars,
           ipVars, sockVars
  <1>3. /\ NoTicket(loop_q') /\ ~NoTicket(loop_q) /\ OneTicket(loop_q')
        /\ NoGotIp(loop_q) => NoGotIp(loop_q')
    <2>1. OneTicket(loop_q)
      BY ONLY <1>s DEF Tickets
    <2> QED BY ONLY <1>1, <2>1, HeadGone
  <1>4. /\ Idles /\ app_pc = "wait" /\ event # "DISCONNECTED" /\ evt # "DISCONNECTED"
    BY ONLY <1>s, <1>3 DEF Tickets
  <1>5. evt_pc # "none"
    BY ONLY <1>s, <1>1 DEF StartUp
  <1>6. Exchange' /\ Froms
    BY <1>s, <1>2, <1>4, ScanStarts DEF Froms
  <1>7. SocketUp'
    BY <1>s, <1>1, <1>2, <1>4, <1>6, SocketKept
  <1>8. StartUp'
    BY ONLY <1>s, <1>1, <1>2, <1>4, <1>5 DEF StartUp, Starting
  <1>9. Tickets'
    BY ONLY <1>1, <1>2, <1>3, <1>4 DEF Tickets
  <1>10. Addressed'
    BY ONLY <1>s, <1>1, <1>2, <1>3 DEF Addressed
  <1> QED BY <1>6, <1>7, <1>8, <1>9, <1>10 DEF Works, Tasks

LEMMA LoopStep ==
  ASSUME StationTypes, Works, Loop
  PROVE  Works'
  <1>1. /\ loop_q # <<>> /\ app_pc' = app_pc /\ evt_pc' = evt_pc /\ evt' = evt
        /\ LoopStart \/ LoopDisconnected \/ LoopConnected \/ LoopGotIp \/ LoopScanDone
    BY DEF Loop
  <1>2. ASSUME Connect, IsTicket(Head(loop_q)), loop_q' = Tail(loop_q), bits' = bits
        PROVE  Works'
    <2>1. CASE status = "STARTED"
      <3>1. WriteCmd(CmdConnect(FALSE))
        BY <1>2, <2>1 DEF Connect
      <3> QED BY <1>1, <1>2, <2>1, <3>1, LoopConnects
    <2>2. CASE status # "STARTED"
      <3>1. ReadOnly
        BY <1>2, <2>2 DEF Connect, ReadOnly
      <3> QED BY <1>1, <1>2, <3>1, LoopReads
    <2> QED BY <2>1, <2>2
  <1>3. CASE LoopStart
    <2>1. Connect /\ Head(loop_q) = "STA_START" /\ loop_q' = Tail(loop_q) /\ bits' = bits
      BY <1>3 DEF LoopStart
    <2> QED BY <1>2, <2>1 DEF IsTicket
  <1>4. CASE LoopDisconnected
    <2>1. Head(loop_q) = "STA_DISCONNECTED" /\ loop_q' = Tail(loop_q)
      BY <1>4 DEF LoopDisconnected
    <2>2. \/ Connect /\ bits' = bits
          \/ ReadOnly /\ bits' = bits \cup {"FAIL"}
      BY <1>4, Zenon DEF LoopDisconnected
    <2>3. CASE Connect /\ bits' = bits
      BY <1>2, <2>1, <2>3 DEF IsTicket
    <2>4. CASE ReadOnly /\ bits' = bits \cup {"FAIL"}
      <3>1. "CONNECTED" \in bits' => "CONNECTED" \in bits
        BY <2>4
      <3> QED BY <1>1, <2>1, <2>4, <3>1, LoopReads
    <2> QED BY <2>2, <2>3, <2>4
  <1>5. CASE LoopConnected
    <2>1. /\ ReadOnly /\ bits' = bits
          /\ loop_q' = Tail(loop_q) \o (IF ip_addr # Nothing THEN <<"STA_GOT_IP">> ELSE <<>>)
      BY <1>5 DEF LoopConnected
    <2>2. \/ loop_q' = Tail(loop_q)
          \/ loop_q' = Tail(loop_q) \o <<"STA_GOT_IP">> /\ ip_addr # Nothing
      <3>1. Tail(loop_q) \in Seq(LoopEvents)
        BY <1>1, LoopTail
      <3>2. Tail(loop_q) \o <<>> = Tail(loop_q)
        BY <3>1
      <3> QED BY <2>1, <3>2
    <2> QED BY <1>1, <2>1, <2>2, LoopReads
  <1>6. CASE LoopGotIp
    <2>1. /\ Head(loop_q) = "STA_GOT_IP" /\ loop_q' = Tail(loop_q) /\ ReadOnly
      BY <1>6 DEF LoopGotIp
    <2> QED BY <1>1, <2>1, LoopReads
  <1>7. CASE LoopScanDone
    <2>1. loop_q' = Tail(loop_q) /\ ReadOnly /\ bits' = bits
      BY <1>7 DEF LoopScanDone
    <2> QED BY <1>1, <2>1, LoopReads
  <1> QED BY <1>1, <1>3, <1>4, <1>5, <1>6, <1>7

\* ---- The device's callbacks and the daemon --------------------------------

\* esp_wifi_post_got_ip_cb() posts an event the station does nothing with.
LEMMA TimerStep ==
  ASSUME StationTypes, Works, LinkTimer, GuestIdle,
         UNCHANGED <<app_pc, evt_pc, evt, loop_q, bits>>
  PROVE  Works'
  <1>s. /\ SocketUp /\ StartUp /\ Tickets /\ Addressed /\ Exchange
    BY DEF Works, Tasks
  <1>1. /\ got_ip_timers > 0 /\ ip_addr' = ip_addr /\ ssid' = ssid /\ pass' = pass
        /\ Still /\ status' = status
    BY DEF LinkTimer, GotIpTimer, PostEvent, Still, GuestIdle, mockVars, queueVars,
           connVars, cfgVars, ipVars, sockVars, regVars
  <1>2. /\ app_pc' = app_pc /\ evt_pc' = evt_pc /\ evt' = evt /\ loop_q' = loop_q
        /\ bits' = bits
    OBVIOUS
  <1>3. event' = event \/ event' = "GOT_IP"
    BY DEF LinkTimer, GotIpTimer, PostEvent, regVars
  <1>4. app_pc # "init" /\ ~Attaching
    BY <1>s, <1>1 DEF SocketUp, Attaching
  <1>5. SocketUp' /\ Exchange' /\ Ends' = Ends
    BY <1>s, <1>1, <1>2, <1>4, StillKeeps
  <1>6. /\ cmd_q' = cmd_q /\ client_q' = client_q /\ conn_state' = conn_state
        /\ scan_only' = scan_only
    BY <1>1 DEF Still
  <1>7. StartUp'
    BY ONLY <1>s, <1>1, <1>2, <1>3, <1>4, <1>5, <1>6 DEF StartUp, Starting
  <1>8. Tickets' /\ Addressed'
    BY ONLY <1>s, <1>1, <1>2, <1>3, <1>6 DEF Tickets, Addressed, Idles
  <1> QED BY <1>5, <1>7, <1>8 DEF Works, Tasks

\* wpa_ctrl_handler(): one datagram of the socket.
LEMMA ReadStep ==
  ASSUME StationTypes, Works, LinkRead, GuestIdle,
         UNCHANGED <<app_pc, evt_pc, evt, loop_q, bits>>
  PROVE  Works'
  <1>s. SocketUp /\ Exchange /\ Tasks
    BY DEF Works
  <1>1. Reads(client_q[1])
    BY <1>s, ReadsHead
  <1>2. Passed
    BY <1>s, <1>1, Read
  <1>3. /\ app_pc # "init" /\ app_pc' = app_pc /\ linked' = linked
        /\ client_path' = client_path
    BY <1>1 DEF Reads
  <1>4. SocketUp'
    BY <1>s, <1>2, <1>3, SocketKept DEF Passed
  <1> QED BY <1>2, <1>4 DEF Works, Passed

LEMMA DaemonStep ==
  ASSUME StationTypes, Works, StaDaemon
  PROVE  Works'
  <1>s. SocketUp /\ Exchange /\ Tasks
    BY DEF Works
  <1>1. DaemonOnly /\ MockStep /\ linked' = linked /\ app_pc' = app_pc
    BY DEF StaDaemon, LinkDaemon, DaemonOnly, shimVars, devVars, regVars, connVars, cfgVars,
           ipVars, sockVars
  <1>2. CASE MockServe
    <2>1. Passed
      BY <1>s, <1>1, <1>2, ServeStep
    <2>2. app_pc # "init" /\ client_path' = client_path
      BY <1>s, <1>2, Serves DEF MockServe
    <2>3. SocketUp'
      BY <1>s, <1>1, <2>1, <2>2, SocketKept DEF Passed
    <2> QED BY <2>1, <2>3 DEF Works, Passed
  <1>3. CASE \E e \in Delayable : MockFire(e)
    <2>1. PICK e \in Delayable : MockFire(e)
      BY <1>3
    <2>2. Passed
      BY <1>s, <1>1, <2>1, FireStep
    <2>3. app_pc # "init"
      <3>1. Ends > 0 \/ Joins > 0
        BY <2>1 DEF MockFire, Ends, Joins, Delayable
      <3>2. app_pc = "init" => Ends = 0 /\ Joins = 0
        BY <1>s DEF SocketUp, Tasks, StartUp, NoScan, Exchange, Joining, NoSelect
      <3> QED BY <3>1, <3>2
    <2>4. client_path' = client_path
      BY <2>1 DEF MockFire
    <2>5. SocketUp'
      BY <1>s, <1>1, <2>2, <2>3, <2>4, SocketKept DEF Passed
    <2> QED BY <2>2, <2>5 DEF Works, Passed
  <1> QED BY <1>1, <1>2, <1>3 DEF MockStep

\* Nothing happens.
LEMMA WorksFrame ==
  ASSUME Works, UNCHANGED staVars
  PROVE  Works'
  <1>1. /\ app_pc' = app_pc /\ evt_pc' = evt_pc /\ evt' = evt /\ loop_q' = loop_q
        /\ bits' = bits /\ linkVars' = linkVars
    BY DEF staVars, shimVars
  <1>2. /\ cmd_q' = cmd_q /\ client_q' = client_q /\ client_path' = client_path
        /\ linked' = linked /\ ctrl_open' = ctrl_open /\ networks' = networks
        /\ conn_state' = conn_state /\ scan_only' = scan_only /\ delayed' = delayed
        /\ net_id' = net_id /\ status' = status /\ event' = event /\ ip_addr' = ip_addr
        /\ ssid' = ssid /\ pass' = pass /\ got_ip_timers' = got_ip_timers
    BY <1>1 DEF linkVars, queueVars, devVars, regVars, connVars, cfgVars, ipVars, sockVars,
                  mockVars
  <1>3. Ends' = Ends /\ Joins' = Joins
    BY <1>2 DEF Ends, Joins
  <1>4. SocketUp' /\ Tasks'
    BY ONLY <1>1, <1>2, <1>3, Works
       DEF Works, SocketUp, Tasks, StartUp, Starting, Attaching, Tickets, Idles, Addressed
  <1>5. Exchange'
    BY ONLY <1>2, <1>3, Works DEF Works, Exchange, Scanning, Joining, Answering, Configuring
  <1> QED BY <1>4, <1>5 DEF Works

-----------------------------------------------------------------------------
\* ---- The theorems about the station ---------------------------------------

LEMMA StationInit == StaInit => Works
  <1> SUFFICES ASSUME StaInit PROVE Works
    OBVIOUS
  <1>1. /\ app_pc = "init" /\ evt_pc = "none" /\ evt = NoEvent /\ loop_q = <<>> /\ bits = {}
        /\ Init /\ MockInit /\ linked = FALSE
    BY DEF StaInit, LinkInit
  <1>2. /\ Len(loop_q) = 0 /\ Len(cmd_q) = 0 /\ Len(client_q) = 0
        /\ Ends = 0 /\ Joins = 0
    BY <1>1 DEF MockInit, NoDelayed, Ends, Joins, Delayable
  <1>3. /\ status = "UNINIT" /\ conn_state = "NONE" /\ scan_only = FALSE /\ ctrl_open = FALSE
        /\ got_ip_timers = 0 /\ event = NoEvent /\ ip_addr = Nothing
    BY <1>1 DEF Init, RegsInit
  <1>4. SocketUp
    BY ONLY <1>1, <1>2, <1>3 DEF SocketUp
  <1>5. Exchange
    <2>1. /\ \A i \in 1..Len(cmd_q) : FALSE
          /\ \A i \in 1..Len(client_q) : FALSE
      BY ONLY <1>2
    <2> QED BY ONLY <1>2, <1>3, <2>1
            DEF Exchange, Scanning, Joining, Answering, Configuring, DumpsFirst, NoSelect,
                NoCmd, NoMsg
  <1>6. Tasks
    <2>1. /\ \A i \in 1..Len(cmd_q) : FALSE
          /\ \A i \in 1..Len(client_q) : FALSE
          /\ \A i \in 1..Len(loop_q) : FALSE
      BY ONLY <1>2
    <2>2. StartUp
      BY ONLY <1>1, <1>2, <1>3, <2>1 DEF StartUp, Starting, NoScan, NoCmd, NoMsg, NoEvent
    <2>3. Tickets
      BY ONLY <1>1, <1>3, <2>1 DEF Tickets, OneTicket, NoTicket, NoEvent
    <2>4. Addressed
      BY ONLY <1>1, <1>3, <2>1 DEF Addressed, NoGotIp, NoEvent
    <2> QED BY <2>2, <2>3, <2>4 DEF Tasks
  <1> QED BY <1>4, <1>5, <1>6 DEF Works

LEMMA WorksStep ==
  ASSUME StationTypes, Works, [StaNext]_staVars, "CONNECTING" \notin DisconnectFrom
  PROVE  Works'
  <1>1. CASE App
    BY <1>1, InitStep, StartingSteps, StartupScanStep, PostStartStep DEF App
  <1>2. CASE AppDisconnect
    BY <1>2, AppDisconnectStep
  <1>3. CASE EvtTask
    BY <1>3, EvtStep
  <1>4. CASE Loop
    BY <1>4, LoopStep
  <1>5. CASE StaDevice
    <2>1. LinkRead \/ LinkTimer
      BY <1>5 DEF StaDevice
    <2>2. GuestIdle /\ UNCHANGED <<app_pc, evt_pc, evt, loop_q, bits>>
      BY <1>5 DEF StaDevice
    <2> QED BY <2>1, <2>2, ReadStep, TimerStep
  <1>6. CASE StaDaemon
    BY <1>6, DaemonStep
  <1>7. CASE UNCHANGED staVars
    BY <1>7, WorksFrame
  <1> QED BY <1>1, <1>2, <1>3, <1>4, <1>5, <1>6, <1>7 DEF StaNext

\* The invariant of the station.  An application that disconnects while the
\* station joins breaks it: the reply that is outstanding is then taken for the
\* answer to a command of the next join.
LEMMA StationInv ==
  ASSUME "CONNECTING" \notin DisconnectFrom
  PROVE  StaSpec => []Works
  <1>1. StaInit => Works
    BY StationInit
  <1>2. StationTypes /\ Works /\ [StaNext]_staVars => Works'
    BY WorksStep
  <1> QED BY <1>1, <1>2, StationTypesInv, PTL DEF StaSpec

\* While the station joins, one reply is outstanding and it is the answer to
\* the sequencer's last command, although no request carries an id
\* (wpa_handle_response), if the application does not disconnect before the
\* station is connected.
THEOREM RepliesMatch ==
  ASSUME "CONNECTING" \notin DisconnectFrom
  PROVE  StaSpec => []JoinReplyMatches
  <1>1. StationTypes /\ Works => JoinReplyMatches
    <2> SUFFICES ASSUME StationTypes, Works, conn_state \in JoinStates
                 PROVE  \/ /\ Len(cmd_q) = 1 /\ cmd_q[1].cmd.cmd = Awaited[conn_state]
                           /\ Answers = {}
                        \/ /\ cmd_q = <<>>
                           /\ \E i \in Answers :
                                 /\ Answers = {i}
                                 /\ conn_state = "ADD_NET_SENT" <=> client_q[i].kind = "ID"
      BY DEF JoinReplyMatches
    <2>1. Joining /\ cmd_q \in Seq(Datagrams)
      BY Types DEF Works, Exchange
    <2> DEFINE k == IF conn_state = "ADD_NET_SENT" THEN "ID" ELSE "OK"
    <2>2. Outstands(cmd_q, client_q, Awaited[conn_state], k)
      BY <2>1 DEF Joining, JoinStates, Awaited
    <2>3. CASE Len(cmd_q) = 1 /\ cmd_q[1].cmd.cmd = Awaited[conn_state] /\ AllEvents(client_q)
      BY <2>3 DEF AllEvents, Answers
    <2>4. CASE /\ Len(cmd_q) = 0
               /\ \E i \in 1..Len(client_q) :
                     /\ client_q[i].kind = k
                     /\ \A j \in 1..Len(client_q) : j # i => client_q[j].kind \in CtrlEvents
      <3>1. PICK i \in 1..Len(client_q) :
                    /\ client_q[i].kind = k
                    /\ \A j \in 1..Len(client_q) : j # i => client_q[j].kind \in CtrlEvents
        BY <2>4
      <3>2. k \notin CtrlEvents /\ (conn_state = "ADD_NET_SENT" <=> k = "ID")
        BY DEF CtrlEvents
      <3>3. i \in Answers /\ Answers = {i}
        BY <3>1, <3>2 DEF Answers
      <3>4. cmd_q = <<>>
        BY <2>1, <2>4
      <3> QED BY ONLY <3>1, <3>2, <3>3, <3>4
    <2> QED BY <2>2, <2>3, <2>4 DEF Outstands
  <1> QED BY <1>1, StationInv, StationTypesInv, PTL

\* CONNECTED reaches the register, the event task and the application only
\* when the device holds the address of the STATUS reply, so that the shim
\* reads a real address for IP_EVENT_STA_GOT_IP.
THEOREM AddressFirst ==
  ASSUME "CONNECTING" \notin DisconnectFrom
  PROVE  StaSpec => []AddressWithConnected
  <1>1. Works => AddressWithConnected
    BY DEF Works, Tasks, Addressed, AddressWithConnected
  <1> QED BY <1>1, StationInv, PTL

\* SELECT_NETWORK names a network of the daemon with the SSID and passphrase of
\* the application: SET_NETWORK for both was answered before it was sent.
THEOREM ConfiguredFirst ==
  ASSUME "CONNECTING" \notin DisconnectFrom
  PROVE  StaSpec => []SelectsConfiguredNetwork
  <1>1. StationTypes /\ Works => SelectsConfiguredNetwork
    <2> SUFFICES ASSUME StationTypes, Works, NEW i \in 1..Len(cmd_q),
                        cmd_q[i].cmd.cmd = "SELECT_NETWORK"
                 PROVE  /\ cmd_q[i].cmd.id \in DOMAIN networks
                        /\ networks[cmd_q[i].cmd.id] = [ssid |-> AppSsid, psk |-> AppPass]
      BY DEF SelectsConfiguredNetwork
    <2>1. Joining /\ Configuring /\ cmd_q \in Seq(Datagrams) /\ DaemonTypes
      BY Types DEF Works, Exchange
    <2>2. conn_state = "SELECT_SENT" /\ Len(cmd_q) = 1
      BY <2>1 DEF Joining, Selecting, NoSelect, NoCmd
    <2>3. i = 1 /\ Len(cmd_q) # 0
      BY ONLY <2>2, i \in 1..Len(cmd_q)
    <2>4. /\ cmd_q[1].cmd.id = net_id /\ net_id \in DOMAIN networks
          /\ networks[net_id].ssid = AppSsid /\ networks[net_id].psk = AppPass
      BY ONLY <2>1, <2>2, <2>3 DEF Configuring
    <2>5. networks[net_id] \in Network
      BY <2>1, <2>4 DEF DaemonTypes
    <2>6. networks[net_id] = [ssid |-> AppSsid, psk |-> AppPass]
      BY <2>4, <2>5 DEF Network
    <2> QED BY <2>3, <2>4, <2>6
  <1> QED BY <1>1, StationInv, StationTypesInv, PTL

=============================================================================
