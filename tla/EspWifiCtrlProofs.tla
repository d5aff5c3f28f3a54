------------------------- MODULE EspWifiCtrlProofs -------------------------
(***************************************************************************)
(* Proofs about the control plane of the virtual Wi-Fi device, for every   *)
(* set of credentials, addresses, access points and network ids, every     *)
(* interrupt mask and every size of the scan table, and for a guest and a  *)
(* daemon that may do anything.                                            *)
(***************************************************************************)
EXTENDS EspWifiCtrl, TLAPS

\* ---- What the device sends ------------------------------------------------

\* Every datagram the device builds is a command of the control interface.
LEMMA PlainIsCmd == \A c \in CmdNames : Plain(c) \in Cmds
  BY DEF Plain, Cmds

\* ... with the id of a network,
LEMMA OnNetIsCmd ==
  \A c \in CmdNames : \A id \in NetIds \cup {-1} : OnNet(c, id) \in Cmds
  BY DEF OnNet, Cmds

\* ... with a network id and a credential.
LEMMA SetIsCmd ==
  \A c \in CmdNames : \A id \in NetIds \cup {-1} : \A v \in Creds \cup {Nothing} :
     Set(c, id, v) \in Cmds
  BY DEF Set, Cmds

\* wpa_ctrl_send() hands over one datagram of that kind, or none.
LEMMA SendType == ASSUME NEW c \in Cmds, Send(c) PROVE sent' \in Seq(Cmds)
  BY DEF Send

\* What wpa_ctrl_close() sends before it closes the socket.
LEMMA DetachType == Detach \in Seq(Cmds)
  <1>1. Plain("DETACH") \in Cmds
    BY PlainIsCmd DEF CmdNames
  <1> QED BY <1>1 DEF Detach

\* The id read from a reply to ADD_NETWORK is one of the ids atoi() may read.
LEMMA AtoiType == ASSUME NEW m \in Msgs PROVE Atoi(m) \in NetIds
  BY NetIdAssumption DEF Atoi, Msgs, Replies, CtrlEvents

\* ---- The event register ---------------------------------------------------

\* What the steps of the device do to the event register.
RegsStep ==
  \/ \E evt \in Events : PostEvent(evt)
  \/ WriteEvent
  \/ \E mask \in IrqMasks : WriteIrqEnable(mask)
  \/ UNCHANGED regVars
  \/ event' = NoEvent /\ irq_enable' = {} /\ irq' = FALSE

\* Such a step keeps the types of the register, the mask and the line.
LEMMA RegsType == RegsTypeOK /\ RegsStep => RegsTypeOK'
  BY MaskAssumption DEF RegsTypeOK, RegsStep, PostEvent, WriteEvent, WriteIrqEnable,
    UpdateIrq, regVars

\* Such a step keeps the line equal to what event and mask ask for.
LEMMA RegsIrq == IrqMatchesEvent /\ RegsStep => IrqMatchesEvent'
  <1> SUFFICES ASSUME IrqMatchesEvent, RegsStep PROVE IrqMatchesEvent'
    OBVIOUS
  <1>1. CASE UNCHANGED regVars
    BY <1>1 DEF regVars, IrqMatchesEvent
  <1>2. CASE event' = NoEvent /\ irq_enable' = {} /\ irq' = FALSE
    BY <1>2 DEF IrqMatchesEvent
  <1>3. ASSUME NEW evt \in Events, PostEvent(evt) PROVE IrqMatchesEvent'
    BY <1>3, Zenon DEF PostEvent, UpdateIrq, IrqMatchesEvent
  <1>4. CASE WriteEvent
    BY <1>4, Zenon DEF WriteEvent, UpdateIrq, IrqMatchesEvent
  <1>5. ASSUME NEW mask \in IrqMasks, WriteIrqEnable(mask) PROVE IrqMatchesEvent'
    BY <1>5, Zenon DEF WriteIrqEnable, UpdateIrq, IrqMatchesEvent
  <1> QED
    BY <1>1, <1>2, <1>3, <1>4, <1>5 DEF RegsStep

\* Every step of the device is one of them.
LEMMA GuestRegs == Guest => RegsStep
  <1> USE DEF RegsStep, Events
  <1> SUFFICES ASSUME Guest PROVE RegsStep
    OBVIOUS
  <1>1. CASE InitUnreachable
    BY <1>1 DEF InitUnreachable
  <1>2. ASSUME NEW a \in BOOLEAN, InitConnected(a) PROVE RegsStep
    BY <1>2 DEF InitConnected
  <1>3. CASE CmdDeinit
    BY <1>3 DEF CmdDeinit
  <1>4. CASE CmdAcknowledged \/ CmdStart \/ CmdStop \/ CmdDisconnect
    BY <1>4 DEF CmdAcknowledged, CmdStart, CmdStop, CmdDisconnect
  <1>5. ASSUME NEW r \in BOOLEAN, CmdConnect(r) PROVE RegsStep
    BY <1>5 DEF CmdConnect
  <1>6. CASE CmdScan
    BY <1>6 DEF CmdScan
  <1>7. CASE AckEvent
    BY <1>7 DEF AckEvent
  <1>8. ASSUME NEW mask \in IrqMasks, SetIrqMask(mask) PROVE RegsStep
    BY <1>8 DEF SetIrqMask
  <1>9. ASSUME NEW c \in Creds, WriteSsid(c) \/ WritePass(c) PROVE RegsStep
    BY <1>9 DEF WriteSsid, WritePass
  <1> QED
    BY <1>1, <1>2, <1>3, <1>4, <1>5, <1>6, <1>7, <1>8, <1>9 DEF Guest

\* A datagram from the daemon posts at most one event.
LEMMA ReadRegs == ASSUME NEW m \in Msgs, CtrlRead(m) PROVE RegsStep
  <1> USE DEF RegsStep, Events
  <1>1. CASE EvScanResults \/ EvConnected \/ EvDisconnected
    BY <1>1 DEF EvScanResults, EvConnected, EvDisconnected
  <1>2. CASE ReplyAttach(m)
    BY <1>2 DEF ReplyAttach
  <1>3. CASE ReplyScanResults(m)
    BY <1>3 DEF ReplyScanResults
  <1>4. CASE ReplyAddNetwork(m) \/ ReplySetSsid(m) \/ ReplySetPsk(m)
    BY <1>4 DEF ReplyAddNetwork, ReplySetSsid, ReplySetPsk, JoinFails
  <1>5. CASE ReplyStatus(m)
    BY <1>5 DEF ReplyStatus
  <1>6. CASE Ignored(m)
    BY <1>6 DEF Ignored
  <1> QED
    BY <1>1, <1>2, <1>3, <1>4, <1>5, <1>6, CtrlRead(m) DEF CtrlRead, HandleReply

\* The timer, the relay and a reset change the register in these ways only.
LEMMA HostRegs == Host => RegsStep
  <1> USE DEF RegsStep, Events
  <1> SUFFICES ASSUME Host PROVE RegsStep
    OBVIOUS
  <1>1. CASE CtrlHup \/ PktRelayLost
    BY <1>1 DEF CtrlHup, PktRelayLost
  <1>2. CASE GotIpTimer \/ PktRxReady
    BY <1>2 DEF GotIpTimer, PktRxReady
  <1>3. CASE Reset
    BY <1>3 DEF Reset
  <1> QED
    BY <1>1, <1>2, <1>3, ReadRegs DEF Host

\* So does every step of the device, or a stuttering one.
LEMMA StepRegs == [Next]_devVars => RegsStep
  BY GuestRegs, HostRegs DEF Next, devVars, regVars, RegsStep

\* The interrupt line follows the pending event and the mask in every state.
THEOREM IrqCorrect == Spec => []IrqMatchesEvent
  <1>1. Init => IrqMatchesEvent
    BY DEF Init, RegsInit, IrqMatchesEvent
  <1>2. IrqMatchesEvent /\ [Next]_devVars => IrqMatchesEvent'
    BY StepRegs, RegsIrq
  <1> QED
    BY <1>1, <1>2, PTL DEF Spec

-----------------------------------------------------------------------------
\* ---- Type correctness -----------------------------------------------------

\* A step of the guest, command or register write, keeps the types.
LEMMA GuestType ==
  TypeOK /\ Guest => ConnTypeOK' /\ DataTypeOK' /\ sent' \in Seq(Cmds)
  <1> SUFFICES ASSUME TypeOK, Guest
               PROVE  ConnTypeOK' /\ DataTypeOK' /\ sent' \in Seq(Cmds)
    OBVIOUS
  <1> DEFINE Goal == ConnTypeOK' /\ DataTypeOK' /\ sent' \in Seq(Cmds)
  <1>t. ConnTypeOK /\ DataTypeOK /\ sent \in Seq(Cmds)
    BY DEF TypeOK
  <1>s. Plain("SCAN") \in Cmds /\ Plain("ATTACH") \in Cmds
    BY PlainIsCmd DEF CmdNames
  <1>n. <<>> \in Seq(Cmds)
    OBVIOUS
  <1> USE DEF connVars, cfgVars, ipVars, sockVars, Statuses, ConnStates
  <1>1. CASE InitUnreachable
    <2>1. ConnTypeOK'
      BY <1>1, <1>t DEF InitUnreachable, CloseCtrl, CloseSocket, ConnTypeOK
    <2>2. DataTypeOK'
      BY <1>1, <1>t DEF InitUnreachable, DataTypeOK
    <2> QED BY <1>1, <2>1, <2>2, DetachType DEF InitUnreachable
  <1>2. ASSUME NEW a \in BOOLEAN, InitConnected(a) PROVE Goal
    <2>1. ConnTypeOK'
      BY <1>2, <1>t DEF InitConnected, ConnTypeOK
    <2>2. DataTypeOK'
      BY <1>2, <1>t DEF InitConnected, DataTypeOK
    <2>3. sent' \in Seq(Cmds)
      BY <1>2, <1>s, DetachType DEF InitConnected
    <2> QED BY <2>1, <2>2, <2>3
  <1>3. CASE CmdDeinit
    <2>1. ConnTypeOK'
      BY <1>3, <1>t DEF CmdDeinit, CloseCtrl, CloseSocket, ConnTypeOK
    <2>2. DataTypeOK'
      BY <1>3, <1>t DEF CmdDeinit, DataTypeOK
    <2> QED BY <1>3, <2>1, <2>2, DetachType DEF CmdDeinit
  <1>4. CASE CmdAcknowledged \/ CmdStart \/ CmdStop
    <2>1. ConnTypeOK'
      BY <1>4, <1>t DEF CmdAcknowledged, CmdStart, CmdStop, ConnTypeOK
    <2>2. DataTypeOK'
      BY <1>4, <1>t DEF CmdAcknowledged, CmdStart, CmdStop, DataTypeOK
    <2> QED BY <1>4, <1>n, <2>1, <2>2 DEF CmdAcknowledged, CmdStart, CmdStop
  <1>5. ASSUME NEW r \in BOOLEAN, CmdConnect(r) PROVE Goal
    <2>1. ConnTypeOK'
      BY <1>5, <1>t DEF CmdConnect, ConnTypeOK
    <2>2. DataTypeOK'
      BY <1>5, <1>t DEF CmdConnect, DataTypeOK
    <2> QED BY <1>5, <1>s, <2>1, <2>2, SendType DEF CmdConnect
  <1>6. CASE CmdDisconnect
    <2>1. ConnTypeOK'
      BY <1>6, <1>t DEF CmdDisconnect, ConnTypeOK
    <2>2. DataTypeOK'
      BY <1>6, <1>t DEF CmdDisconnect, DataTypeOK
    <2>3. OnNet("DISABLE_NETWORK", net_id) \in Cmds
      BY <1>t, OnNetIsCmd DEF CmdNames, DataTypeOK
    <2>4. sent' \in Seq(Cmds)
      BY <1>6, <1>n, <2>3, SendType DEF CmdDisconnect
    <2> QED BY <2>1, <2>2, <2>4
  <1>7. CASE CmdScan
    <2>1. ConnTypeOK'
      BY <1>7, <1>t DEF CmdScan, ConnTypeOK
    <2>2. DataTypeOK'
      BY <1>7, <1>t, BoundAssumption DEF CmdScan, DataTypeOK
    <2> QED BY <1>7, <1>s, <2>1, <2>2, SendType DEF CmdScan
  <1>8. CASE AckEvent
    <2>1. ConnTypeOK'
      BY <1>8, <1>t DEF AckEvent, Quiet, ConnTypeOK
    <2>2. DataTypeOK'
      BY <1>8, <1>t DEF AckEvent, Quiet, DataTypeOK
    <2> QED BY <1>8, <1>n, <2>1, <2>2 DEF AckEvent, Quiet
  <1>9. ASSUME NEW mask \in IrqMasks, SetIrqMask(mask) PROVE Goal
    <2>1. ConnTypeOK'
      BY <1>9, <1>t DEF SetIrqMask, Quiet, ConnTypeOK
    <2>2. DataTypeOK'
      BY <1>9, <1>t DEF SetIrqMask, Quiet, DataTypeOK
    <2> QED BY <1>9, <1>n, <2>1, <2>2 DEF SetIrqMask, Quiet
  <1>10. ASSUME NEW c \in Creds, WriteSsid(c) \/ WritePass(c) PROVE Goal
    <2>1. ConnTypeOK'
      BY <1>10, <1>t DEF WriteSsid, WritePass, Quiet, ConnTypeOK
    <2>2. DataTypeOK'
      BY <1>10, <1>t DEF WriteSsid, WritePass, Quiet, DataTypeOK
    <2> QED BY <1>10, <1>n, <2>1, <2>2 DEF WriteSsid, WritePass, Quiet
  <1> QED
    BY <1>1, <1>2, <1>3, <1>4, <1>5, <1>6, <1>7, <1>8, <1>9, <1>10 DEF Guest

\* Each datagram of the daemon keeps the types, in every state of the sequencer.
LEMMA ReadType ==
  ASSUME TypeOK, NEW m \in Msgs, CtrlRead(m)
  PROVE  ConnTypeOK' /\ DataTypeOK' /\ sent' \in Seq(Cmds)
  <1> DEFINE Goal == ConnTypeOK' /\ DataTypeOK' /\ sent' \in Seq(Cmds)
  <1>t. ConnTypeOK /\ DataTypeOK
    BY DEF TypeOK
  <1>s. /\ Plain("SCAN_RESULTS") \in Cmds
        /\ Plain("STATUS") \in Cmds
        /\ Plain("ADD_NETWORK") \in Cmds
    BY PlainIsCmd DEF CmdNames
  <1>n. <<>> \in Seq(Cmds)
    OBVIOUS
  <1>i. net_id \in NetIds \cup {-1} /\ ssid \in Creds \cup {Nothing} /\ pass \in Creds \cup {Nothing}
    BY <1>t DEF DataTypeOK
  <1> USE DEF connVars, cfgVars, ipVars, sockVars, Statuses, ConnStates
  <1>1. CASE EvScanResults \/ EvConnected
    <2>1. ConnTypeOK'
      BY <1>1, <1>t DEF EvScanResults, EvConnected, ConnTypeOK
    <2>2. DataTypeOK'
      BY <1>1, <1>t DEF EvScanResults, EvConnected, DataTypeOK
    <2> QED BY <1>1, <1>s, <2>1, <2>2, SendType DEF EvScanResults, EvConnected
  <1>2. CASE EvDisconnected
    <2>1. ConnTypeOK'
      BY <1>2, <1>t DEF EvDisconnected, ConnTypeOK
    <2>2. DataTypeOK'
      BY <1>2, <1>t DEF EvDisconnected, DataTypeOK
    <2> QED BY <1>2, <1>n, <2>1, <2>2 DEF EvDisconnected
  <1>3. CASE ReplyAttach(m)
    <2>1. ConnTypeOK'
      BY <1>3, <1>t DEF ReplyAttach, ConnTypeOK
    <2>2. DataTypeOK'
      BY <1>3, <1>t DEF ReplyAttach, DataTypeOK
    <2> QED BY <1>3, <1>n, <2>1, <2>2 DEF ReplyAttach
  <1>4. CASE ReplyScanResults(m)
    <2>1. ConnTypeOK'
      BY <1>4, <1>t DEF ReplyScanResults, ConnTypeOK
    <2>2. m.n \in Nat
      BY <1>4, DumpAssumption DEF ReplyScanResults, Msgs, Replies, CtrlEvents
    <2>3. DataTypeOK'
      BY <1>4, <1>t, <2>2, BoundAssumption DEF ReplyScanResults, DataTypeOK
    <2>4. sent' \in Seq(Cmds)
      BY <1>4, <1>n, <1>s, SendType DEF ReplyScanResults
    <2> QED BY <2>1, <2>3, <2>4
  <1>5. CASE ReplyAddNetwork(m)
    <2>1. Atoi(m) \in NetIds
      BY AtoiType
    <2>2. ConnTypeOK'
      BY <1>5, <1>t DEF ReplyAddNetwork, JoinFails, ConnTypeOK
    <2>3. DataTypeOK'
      BY <1>5, <1>t, <2>1 DEF ReplyAddNetwork, JoinFails, DataTypeOK
    <2>4. Set("SET_SSID", Atoi(m), ssid) \in Cmds
      BY <1>i, <2>1, SetIsCmd DEF CmdNames
    <2>5. sent' \in Seq(Cmds)
      BY <1>5, <1>n, <2>4, SendType DEF ReplyAddNetwork, JoinFails
    <2> QED BY <2>2, <2>3, <2>5
  <1>6. CASE ReplySetSsid(m)
    <2>1. ConnTypeOK'
      BY <1>6, <1>t DEF ReplySetSsid, JoinFails, ConnTypeOK
    <2>2. DataTypeOK'
      BY <1>6, <1>t DEF ReplySetSsid, JoinFails, DataTypeOK
    <2>3. Set("SET_PSK", net_id, pass) \in Cmds
      BY <1>i, SetIsCmd DEF CmdNames
    <2>4. sent' \in Seq(Cmds)
      BY <1>6, <1>n, <2>3, SendType DEF ReplySetSsid, JoinFails
    <2> QED BY <2>1, <2>2, <2>4
  <1>7. CASE ReplySetPsk(m)
    <2>1. ConnTypeOK'
      BY <1>7, <1>t DEF ReplySetPsk, JoinFails, ConnTypeOK
    <2>2. DataTypeOK'
      BY <1>7, <1>t DEF ReplySetPsk, JoinFails, DataTypeOK
    <2>3. OnNet("SELECT_NETWORK", net_id) \in Cmds
      BY <1>i, OnNetIsCmd DEF CmdNames
    <2>4. sent' \in Seq(Cmds)
      BY <1>7, <1>n, <2>3, SendType DEF ReplySetPsk, JoinFails
    <2> QED BY <2>1, <2>2, <2>4
  <1>8. CASE ReplyStatus(m)
    <2>1. ConnTypeOK'
      BY <1>8, <1>t DEF ReplyStatus, ConnTypeOK
    <2>2. m.kind = "STATUS" => m.ip \in Subnets \cup {Nothing} /\ m.ap \in Aps
      BY DEF Msgs, Replies, CtrlEvents
    <2>3. ip_addr' \in Subnets \cup {Nothing}
      BY <1>8, <1>t, <2>2 DEF ReplyStatus, ParseStatus, DataTypeOK
    <2>4. /\ ip_gw' \in Subnets \cup {Nothing}
          /\ connected_ap' \in Aps \cup {Nothing, "rssi"}
      BY <1>8, <1>t, <2>2, <2>3 DEF ReplyStatus, ParseStatus, DataTypeOK
    <2>5. got_ip_timers' \in 0..MaxTimers
      BY <1>8, <1>t, BoundAssumption DEF ReplyStatus, DataTypeOK
    <2>6. DataTypeOK'
      BY <1>8, <1>t, <2>3, <2>4, <2>5 DEF ReplyStatus, DataTypeOK
    <2> QED BY <1>8, <1>n, <2>1, <2>6 DEF ReplyStatus
  <1>9. CASE Ignored(m)
    <2>1. ConnTypeOK'
      BY <1>9, <1>t DEF Ignored, ConnTypeOK
    <2>2. DataTypeOK'
      BY <1>9, <1>t DEF Ignored, DataTypeOK
    <2> QED BY <1>9, <1>n, <2>1, <2>2 DEF Ignored
  <1> QED
    BY CtrlRead(m), <1>1, <1>2, <1>3, <1>4, <1>5, <1>6, <1>7, <1>8, <1>9
    DEF CtrlRead, HandleReply

\* The end of the watch, the timer, the relay and a reset keep the types.
LEMMA HostType ==
  TypeOK /\ Host => ConnTypeOK' /\ DataTypeOK' /\ sent' \in Seq(Cmds)
  <1> SUFFICES ASSUME TypeOK, Host
               PROVE  ConnTypeOK' /\ DataTypeOK' /\ sent' \in Seq(Cmds)
    OBVIOUS
  <1>t. ConnTypeOK /\ DataTypeOK
    BY DEF TypeOK
  <1>n. <<>> \in Seq(Cmds)
    OBVIOUS
  <1> USE DEF connVars, cfgVars, ipVars, sockVars, Statuses, ConnStates
  <1>1. CASE CtrlHup \/ PktRelayLost
    <2>1. ConnTypeOK'
      BY <1>1, <1>t DEF CtrlHup, PktRelayLost, ConnTypeOK
    <2>2. DataTypeOK'
      BY <1>1, <1>t DEF CtrlHup, PktRelayLost, DataTypeOK
    <2> QED BY <1>1, <1>n, <2>1, <2>2 DEF CtrlHup, PktRelayLost
  <1>2. CASE GotIpTimer
    <2>1. ConnTypeOK'
      BY <1>2, <1>t DEF GotIpTimer, ConnTypeOK
    <2>2. DataTypeOK'
      BY <1>2, <1>t, BoundAssumption DEF GotIpTimer, DataTypeOK
    <2> QED BY <1>2, <1>n, <2>1, <2>2 DEF GotIpTimer
  <1>3. CASE PktRxReady
    <2>1. ConnTypeOK'
      BY <1>3, <1>t DEF PktRxReady, Quiet, ConnTypeOK
    <2>2. DataTypeOK'
      BY <1>3, <1>t DEF PktRxReady, Quiet, DataTypeOK
    <2> QED BY <1>3, <1>n, <2>1, <2>2 DEF PktRxReady, Quiet
  <1>4. CASE Reset
    <2>1. ConnTypeOK'
      BY <1>4, <1>t DEF Reset, CloseSocket, ConnTypeOK
    <2>2. DataTypeOK'
      BY <1>4, <1>t, BoundAssumption DEF Reset, DataTypeOK
    <2> QED BY <1>4, <2>1, <2>2, DetachType DEF Reset
  <1> QED
    BY <1>1, <1>2, <1>3, <1>4, ReadType DEF Host

\* The type invariant is inductive.
LEMMA NextType == TypeOK /\ [Next]_devVars => TypeOK'
  <1> SUFFICES ASSUME TypeOK, [Next]_devVars PROVE TypeOK'
    OBVIOUS
  <1>1. RegsTypeOK'
    BY StepRegs, RegsType DEF TypeOK
  <1>2. CASE Next
    BY <1>1, <1>2, GuestType, HostType DEF Next, TypeOK
  <1>3. CASE UNCHANGED devVars
    <2>1. ConnTypeOK' /\ DataTypeOK'
      BY <1>3 DEF TypeOK, ConnTypeOK, DataTypeOK, devVars, connVars, cfgVars, ipVars,
        sockVars
    <2> QED BY <1>1, <1>3, <2>1 DEF TypeOK, devVars
  <1> QED
    BY <1>2, <1>3

\* The initial state has the types.
LEMMA InitType == Init => TypeOK
  <1> SUFFICES ASSUME Init PROVE TypeOK
    OBVIOUS
  <1>1. RegsTypeOK
    BY DEF Init, RegsInit, RegsTypeOK
  <1>2. ConnTypeOK
    BY DEF Init, ConnTypeOK, Statuses, ConnStates
  <1>3. DataTypeOK
    BY BoundAssumption DEF Init, DataTypeOK
  <1>4. sent \in Seq(Cmds)
    BY DEF Init
  <1> QED BY <1>1, <1>2, <1>3, <1>4 DEF TypeOK

\* Every register, counter and datagram of the device keeps its range; the scan
\* table never holds more than MaxScan records, whatever the daemon dumps.
THEOREM TypeCorrect == Spec => []TypeOK
  BY InitType, NextType, PTL DEF Spec

-----------------------------------------------------------------------------
\* ---- GOT_IP ---------------------------------------------------------------

\* GOT_IP is pending only with an address in the registers, though its timer
\* outlives the reset that clears them: the invariant is inductive as it stands.
THEOREM GotIpCorrect == Spec => []GotIpHasAddress
  <1> USE DEF GotIpHasAddress, NoEvent
  <1>1. Init => GotIpHasAddress
    BY DEF Init, RegsInit
  <1>2. ASSUME GotIpHasAddress, Guest PROVE GotIpHasAddress'
    <2> USE DEF ipVars, regVars, PostEvent, WriteEvent
    <2>1. CASE InitUnreachable \/ \E a \in BOOLEAN : InitConnected(a)
      BY <1>2, <2>1 DEF InitUnreachable, InitConnected
    <2>2. CASE CmdDeinit \/ CmdAcknowledged \/ CmdStart \/ CmdStop \/ CmdDisconnect
      BY <1>2, <2>2 DEF CmdDeinit, CmdAcknowledged, CmdStart, CmdStop, CmdDisconnect
    <2>3. CASE CmdScan \/ \E r \in BOOLEAN : CmdConnect(r)
      BY <1>2, <2>3 DEF CmdScan, CmdConnect
    <2>4. CASE AckEvent \/ \E mask \in IrqMasks : SetIrqMask(mask)
      BY <1>2, <2>4 DEF AckEvent, SetIrqMask, WriteIrqEnable, Quiet
    <2>5. CASE \E c \in Creds : WriteSsid(c) \/ WritePass(c)
      BY <1>2, <2>5 DEF WriteSsid, WritePass, Quiet
    <2> QED BY <1>2, <2>1, <2>2, <2>3, <2>4, <2>5 DEF Guest
  <1>3. ASSUME GotIpHasAddress, NEW m \in Msgs, CtrlRead(m) PROVE GotIpHasAddress'
    <2> USE DEF ipVars, regVars, PostEvent
    <2>1. CASE EvScanResults \/ EvConnected \/ EvDisconnected
      BY <1>3, <2>1 DEF EvScanResults, EvConnected, EvDisconnected
    <2>2. CASE ReplyAttach(m) \/ ReplyScanResults(m) \/ Ignored(m)
      BY <1>3, <2>2 DEF ReplyAttach, ReplyScanResults, Ignored
    <2>3. CASE ReplyAddNetwork(m) \/ ReplySetSsid(m) \/ ReplySetPsk(m)
      BY <1>3, <2>3 DEF ReplyAddNetwork, ReplySetSsid, ReplySetPsk, JoinFails
    <2>4. CASE ReplyStatus(m)
      BY <2>4 DEF ReplyStatus
    <2> QED BY <1>3, <2>1, <2>2, <2>3, <2>4 DEF CtrlRead, HandleReply
  <1>4. ASSUME GotIpHasAddress, Host PROVE GotIpHasAddress'
    <2> USE DEF ipVars, regVars, PostEvent
    <2>1. CASE CtrlHup \/ PktRelayLost
      BY <1>4, <2>1 DEF CtrlHup, PktRelayLost
    <2>2. CASE GotIpTimer
      BY <1>4, <2>2 DEF GotIpTimer
    <2>3. CASE PktRxReady \/ Reset
      BY <2>3 DEF PktRxReady, Reset
    <2> QED BY <1>3, <1>4, <2>1, <2>2, <2>3 DEF Host
  <1>5. GotIpHasAddress /\ UNCHANGED devVars => GotIpHasAddress'
    BY DEF devVars, regVars, ipVars
  <1> QED
    BY <1>1, <1>2, <1>4, <1>5, PTL DEF Spec, Next

-----------------------------------------------------------------------------
\* ---- The join -------------------------------------------------------------

\* Each command and register write of the guest keeps the inductive invariant of
\* the sequencer.
LEMMA GuestJoin ==
  ASSUME TypeOK, JoinInv, Guest
  PROVE  JoinInv'
  <1>t. ConnTypeOK /\ DataTypeOK
    BY DEF TypeOK
  <1> USE DEF JoinInv, SequencerMatchesStatus, NoWaitWithoutSocket,
        JoinScanStarted, JoinStates, connVars, sockVars
  <1>1. CASE InitUnreachable
    BY <1>1, <1>t DEF InitUnreachable, CloseCtrl, CloseSocket, ConnTypeOK
  <1>2. ASSUME NEW a \in BOOLEAN, InitConnected(a) PROVE JoinInv'
    BY <1>2 DEF InitConnected
  <1>3. CASE CmdDeinit
    BY <1>3, <1>t DEF CmdDeinit, CloseCtrl, CloseSocket, ConnTypeOK
  <1>4. CASE CmdAcknowledged
    BY <1>4 DEF CmdAcknowledged
  <1>5. CASE CmdStart
    BY <1>5 DEF CmdStart
  <1>6. CASE CmdStop
    BY <1>6 DEF CmdStop
  <1>7. ASSUME NEW r \in BOOLEAN, CmdConnect(r) PROVE JoinInv'
    BY <1>7 DEF CmdConnect
  <1>8. CASE CmdDisconnect
    BY <1>8 DEF CmdDisconnect
  <1>9. CASE CmdScan
    BY <1>9, <1>t DEF CmdScan, ConnTypeOK
  <1>10. CASE AckEvent
    BY <1>10 DEF AckEvent, Quiet
  <1>11. ASSUME NEW mask \in IrqMasks, SetIrqMask(mask) PROVE JoinInv'
    BY <1>11 DEF SetIrqMask, Quiet
  <1>12. ASSUME NEW c \in Creds, WriteSsid(c) \/ WritePass(c) PROVE JoinInv'
    BY <1>12 DEF WriteSsid, WritePass, Quiet
  <1> QED
    BY <1>1, <1>2, <1>3, <1>4, <1>5, <1>6, <1>7, <1>8, <1>9, <1>10, <1>11, <1>12
    DEF Guest

\* Each datagram keeps it: expected, late, taken for another, or ignored.
LEMMA ReadJoin ==
  ASSUME TypeOK, JoinInv, NEW m \in Msgs, CtrlRead(m)
  PROVE  JoinInv'
  <1>t. ConnTypeOK /\ DataTypeOK
    BY DEF TypeOK
  <1>o. ctrl_open
    BY DEF CtrlRead
  <1> USE DEF JoinInv, SequencerMatchesStatus, NoWaitWithoutSocket,
        JoinScanStarted, JoinStates, connVars, sockVars
  <1>1. CASE EvScanResults
    BY <1>1, <1>o DEF EvScanResults
  <1>2. CASE EvConnected
    BY <1>2, <1>o DEF EvConnected
  <1>3. CASE EvDisconnected
    BY <1>3, <1>o DEF EvDisconnected
  <1>4. CASE ReplyAttach(m)
    BY <1>4, <1>o DEF ReplyAttach
  <1>5. CASE ReplyScanResults(m)
    <2>1. CASE scan_only
      BY <1>5, <1>o, <2>1 DEF ReplyScanResults
    <2>2. CASE ~scan_only
      <3>1. status = "STARTED"
        BY <1>5, <1>o, <2>2 DEF ReplyScanResults
      <3> QED BY <1>5, <1>o, <2>2, <3>1 DEF ReplyScanResults
    <2> QED BY <2>1, <2>2
  <1>6. CASE ReplyAddNetwork(m)
    BY <1>6, <1>o DEF ReplyAddNetwork, JoinFails
  <1>7. CASE ReplySetSsid(m)
    BY <1>7, <1>o DEF ReplySetSsid, JoinFails
  <1>8. CASE ReplySetPsk(m)
    BY <1>8, <1>o DEF ReplySetPsk, JoinFails
  <1>9. CASE ReplyStatus(m)
    BY <1>9, <1>o DEF ReplyStatus
  <1>10. CASE Ignored(m)
    BY <1>10 DEF Ignored
  <1> QED
    BY CtrlRead(m), <1>1, <1>2, <1>3, <1>4, <1>5, <1>6, <1>7, <1>8, <1>9, <1>10
    DEF CtrlRead, HandleReply

\* The end of the watch, the timer, the relay and a reset keep it.
LEMMA HostJoin ==
  ASSUME TypeOK, JoinInv, Host
  PROVE  JoinInv'
  <1> USE DEF JoinInv, SequencerMatchesStatus, NoWaitWithoutSocket,
        JoinScanStarted, JoinStates, connVars, sockVars
  <1>1. CASE CtrlHup
    BY <1>1 DEF CtrlHup
  <1>2. CASE GotIpTimer
    BY <1>2 DEF GotIpTimer
  <1>3. CASE PktRxReady
    BY <1>3 DEF PktRxReady, Quiet
  <1>4. CASE PktRelayLost
    BY <1>4 DEF PktRelayLost
  <1>5. CASE Reset
    BY <1>5 DEF Reset
  <1> QED
    BY <1>1, <1>2, <1>3, <1>4, <1>5, ReadJoin DEF Host

\* JoinInv is inductive, relative to the types.
LEMMA NextJoin == TypeOK /\ JoinInv /\ [Next]_devVars => JoinInv'
  <1> SUFFICES ASSUME TypeOK, JoinInv, [Next]_devVars PROVE JoinInv'
    OBVIOUS
  <1>1. CASE Next
    BY <1>1, GuestJoin, HostJoin DEF Next
  <1>2. CASE UNCHANGED devVars
    BY <1>2 DEF JoinInv, SequencerMatchesStatus, NoWaitWithoutSocket,
      JoinScanStarted, devVars, connVars, sockVars
  <1> QED
    BY <1>1, <1>2

\* The device starts with nothing to wait for.
LEMMA InitJoin == Init => JoinInv
  BY DEF Init, JoinInv, SequencerMatchesStatus, NoWaitWithoutSocket,
    JoinScanStarted, JoinStates

\* The sequencer never joins for a guest that did not start the station, without
\* a socket, or without a network: in any order of commands, replies, late
\* events, failures and resets.
THEOREM JoinCorrect == Spec => []JoinInv
  <1>1. TypeOK /\ JoinInv /\ [Next]_devVars => JoinInv'
    BY NextJoin
  <1> QED
    BY <1>1, InitJoin, TypeCorrect, PTL DEF Spec

\* The two state machines of the device agree.
THEOREM StatusCorrect == Spec => []SequencerMatchesStatus
  <1>1. JoinInv => SequencerMatchesStatus
    BY DEF JoinInv
  <1> QED
    BY <1>1, JoinCorrect, PTL

\* Without a socket the sequencer waits for no answer of a join.
THEOREM SocketCorrect == Spec => []NoWaitWithoutSocket
  <1>1. JoinInv => NoWaitWithoutSocket
    BY DEF JoinInv
  <1> QED
    BY <1>1, JoinCorrect, PTL

-----------------------------------------------------------------------------
\* ---- The step to CONNECTING -----------------------------------------------

\* Only the reply to the passphrase makes the station CONNECTING.
LEMMA OnlySetPskConnects ==
  ASSUME Next, status # "CONNECTING", status' = "CONNECTING"
  PROVE  \E m \in Msgs : ctrl_open /\ ReplySetPsk(m)
  <1> USE DEF connVars
  <1>1. ~Guest
    <2>1. ~(InitUnreachable \/ CmdDeinit \/ CmdAcknowledged \/ CmdStart \/ CmdStop)
      BY DEF InitUnreachable, CmdDeinit, CmdAcknowledged, CmdStart, CmdStop
    <2>2. ~(CmdDisconnect \/ CmdScan \/ AckEvent)
      BY DEF CmdDisconnect, CmdScan, AckEvent, Quiet
    <2>3. ~ \E b \in BOOLEAN : InitConnected(b) \/ CmdConnect(b)
      BY DEF InitConnected, CmdConnect
    <2>4. /\ ~ \E mask \in IrqMasks : SetIrqMask(mask)
          /\ ~ \E c \in Creds : WriteSsid(c) \/ WritePass(c)
      BY DEF SetIrqMask, WriteSsid, WritePass, Quiet
    <2> QED BY <2>1, <2>2, <2>3, <2>4 DEF Guest
  <1>2. ~(CtrlHup \/ GotIpTimer \/ PktRxReady \/ PktRelayLost \/ Reset)
    BY DEF CtrlHup, GotIpTimer, PktRxReady, PktRelayLost, Reset, Quiet
  <1>3. PICK m \in Msgs : CtrlRead(m)
    BY <1>1, <1>2 DEF Next, Host
  <1>4. ~(EvScanResults \/ EvConnected \/ EvDisconnected \/ Ignored(m))
    BY DEF EvScanResults, EvConnected, EvDisconnected, Ignored
  <1>5. ~(ReplyAttach(m) \/ ReplyScanResults(m) \/ ReplyStatus(m))
    BY DEF ReplyAttach, ReplyScanResults, ReplyStatus
  <1>6. ~(ReplyAddNetwork(m) \/ ReplySetSsid(m))
    BY DEF ReplyAddNetwork, ReplySetSsid, JoinFails
  <1> QED
    BY <1>3, <1>4, <1>5, <1>6 DEF CtrlRead, HandleReply

\* The station becomes CONNECTING only with a SELECT_NETWORK that leaves the
\* device and names a network the daemon numbered.
THEOREM ConnectingCorrect == Spec => ConnectingSelects
  <1>1. ASSUME JoinInv, [Next]_devVars, status # "CONNECTING", status' = "CONNECTING"
        PROVE  /\ net_id >= 0
               /\ sent' = <<OnNet("SELECT_NETWORK", net_id)>>
    <2>1. Next
      BY <1>1 DEF devVars, connVars
    <2>2. PICK m \in Msgs : ctrl_open /\ ReplySetPsk(m)
      BY <1>1, <2>1, OnlySetPskConnects
    <2>3. net_id >= 0
      BY <1>1, <2>2 DEF JoinInv, ReplySetPsk
    <2>4. sent' = <<OnNet("SELECT_NETWORK", net_id)>>
      BY <1>1, <2>2 DEF ReplySetPsk, JoinFails, Send
    <2> QED BY <2>3, <2>4
  <1>2. JoinInv /\ [Next]_devVars
          => [status # "CONNECTING" /\ status' = "CONNECTING"
                => /\ net_id >= 0
                   /\ sent' = <<OnNet("SELECT_NETWORK", net_id)>>]_devVars
    BY <1>1
  <1> QED
    BY <1>2, JoinCorrect, PTL DEF Spec, ConnectingSelects
-----------------------------------------------------------------------------
\* ---- The join that runs on --------------------------------------------------

\* What JoinRunsOn allows a join to do in one step.
RunsOn ==
  \/ JoinUnderWay'
  \/ status' # "STARTED"
  \/ conn_state' \in {"IDLE", "ATTACH_SENT"}
  \/ ctrl_open /\ ~ctrl_open'

\* An accepted CONNECT begins a join.
LEMMA ConnectJoins == ASSUME NEW r \in BOOLEAN, CmdConnect(r) PROVE JoinUnderWay'
  BY DEF CmdConnect, JoinUnderWay

\* No command of the guest takes a join over: STOP, DEINIT and INIT end it, SCAN
\* is dropped.
LEMMA GuestRunsOn == JoinUnderWay /\ Guest => RunsOn
  <1> USE DEF RunsOn, JoinUnderWay, JoinStates, connVars
  <1> SUFFICES ASSUME JoinUnderWay, Guest PROVE RunsOn
    OBVIOUS
  <1>1. CASE InitUnreachable
    BY <1>1 DEF InitUnreachable, CloseCtrl, CloseSocket
  <1>2. ASSUME NEW a \in BOOLEAN, InitConnected(a) PROVE RunsOn
    BY <1>2 DEF InitConnected
  <1>3. CASE CmdDeinit \/ CmdStart \/ CmdStop \/ CmdDisconnect
    BY <1>3 DEF CmdDeinit, CmdStart, CmdStop, CmdDisconnect
  <1>4. CASE CmdAcknowledged
    BY <1>4 DEF CmdAcknowledged
  <1>5. ASSUME NEW r \in BOOLEAN, CmdConnect(r) PROVE RunsOn
    BY <1>5, ConnectJoins
  <1>6. CASE CmdScan
    BY <1>6 DEF CmdScan, ScanDropped
  <1>7. CASE AckEvent
    BY <1>7 DEF AckEvent, Quiet
  <1>8. ASSUME NEW mask \in IrqMasks, SetIrqMask(mask) PROVE RunsOn
    BY <1>8 DEF SetIrqMask, Quiet
  <1>9. ASSUME NEW c \in Creds, WriteSsid(c) \/ WritePass(c) PROVE RunsOn
    BY <1>9 DEF WriteSsid, WritePass, Quiet
  <1> QED
    BY <1>1, <1>2, <1>3, <1>4, <1>5, <1>6, <1>7, <1>8, <1>9 DEF Guest

\* A datagram moves it to its next state, or ends it.
LEMMA ReadRunsOn == ASSUME NEW m \in Msgs, JoinUnderWay, CtrlRead(m) PROVE RunsOn
  <1> USE DEF RunsOn, JoinUnderWay, JoinStates, connVars
  <1>1. CASE EvScanResults \/ EvConnected \/ EvDisconnected
    BY <1>1 DEF EvScanResults, EvConnected, EvDisconnected
  <1>2. CASE ReplyAttach(m) \/ ReplyStatus(m)
    BY <1>2 DEF ReplyAttach, ReplyStatus
  <1>3. CASE ReplyScanResults(m)
    BY <1>3 DEF ReplyScanResults
  <1>4. CASE ReplyAddNetwork(m)
    BY <1>4 DEF ReplyAddNetwork, JoinFails
  <1>5. CASE ReplySetSsid(m) \/ ReplySetPsk(m)
    BY <1>5 DEF ReplySetSsid, ReplySetPsk, JoinFails
  <1>6. CASE Ignored(m)
    BY <1>6 DEF Ignored
  <1> QED
    BY <1>1, <1>2, <1>3, <1>4, <1>5, <1>6, CtrlRead(m) DEF CtrlRead, HandleReply

\* So do HUP, the timer and the relay's socket; a reset ends it.
LEMMA HostRunsOn == JoinUnderWay /\ Host => RunsOn
  <1> USE DEF RunsOn, JoinUnderWay, connVars
  <1> SUFFICES ASSUME JoinUnderWay, Host PROVE RunsOn
    OBVIOUS
  <1>1. CASE CtrlHup \/ GotIpTimer \/ PktRelayLost
    BY <1>1 DEF CtrlHup, GotIpTimer, PktRelayLost
  <1>2. CASE PktRxReady
    BY <1>2 DEF PktRxReady, Quiet
  <1>3. CASE Reset
    BY <1>3 DEF Reset
  <1> QED
    BY <1>1, <1>2, <1>3, ReadRunsOn DEF Host

\* A join that CONNECT has begun is not taken over by a scan, whatever the order of
\* commands, replies, late events, failures and resets.
THEOREM JoinRunsOnCorrect == Spec => JoinRunsOn
  <1>1. [Next]_devVars
          => [JoinUnderWay \/ (\E relay_accepts \in BOOLEAN : CmdConnect(relay_accepts))
                => RunsOn]_devVars
    BY GuestRunsOn, HostRunsOn, ConnectJoins DEF Next, RunsOn
  <1> QED
    BY <1>1, PTL DEF Spec, JoinRunsOn, RunsOn
=============================================================================
