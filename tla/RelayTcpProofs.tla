--------------------------- MODULE RelayTcpProofs ---------------------------
(***************************************************************************)
(* Proofs about the TCP proxy of the packet relay, for any number of bytes *)
(* in each direction, of attempts to connect, of retransmissions - of a    *)
(* SYN too - and of losses, for a server that may fail at any time and a   *)
(* session that may end at any time.                                       *)
(***************************************************************************)
EXTENDS RelayTcp, TLAPS

\* ---- The inductive invariant ----------------------------------------------

\* Byte b of the firmware has reached server connection c.
Has(c, b) == \E j \in 1..Len(srv[c].rcvd) : srv[c].rcvd[j] = b

\* Segment m of the firmware carries byte b.
Carries(m, b) == m.n = 1 /\ m.seq = b

\* lwIP may still write.
MayWrite == fw \notin {"fin_sent", "over"}

\* Coroutine c has built a segment and is not done with it.
Sending(c) == co[c] \in {"send", "drain"}

Untouched == [state |-> "none", eof |-> FALSE, fault |-> "none", buf |-> <<>>, rcvd |-> <<>>]

\* A coroutine that has opened no connection sends RST at most; one that has
\* opened one sends anything else, and reads a connection that was opened.
Roles ==
  /\ connected <=> writer # 0
  /\ writer # 0 => srv[writer].state # "none"
  /\ \A c \in Cos : srv[c].state = "none" =>
        srv[c] = Untouched /\ co[c] # "read" /\ (Sending(c) => seg[c].kind = "RST")
  /\ \A c \in Cos : srv[c].state # "none" =>
        /\ writer # 0 /\ co[c] \in {"send", "drain", "read", "ended"}
        /\ Sending(c) => seg[c].kind \in {"SYNACK", "DATA", "FIN"}
  /\ \A c \in Cos : co[c] = "read" => rd[c] \in Cos /\ srv[rd[c]].state # "none"

\* Until one opens a connection, nothing but SYN and RST has been sent.
Attempts ==
  writer = 0 =>
    /\ fw_seq = 0 /\ srv_sent = 0 /\ wrote = 0
    /\ fw \in {"closed", "syn_sent", "over"}
    /\ \A i \in 1..Len(down) : down[i].kind = "RST"

\* The table and the end of the session.
Sessions ==
  /\ \A c \in Cos : co[c] # "none" => in_table
  /\ session = "ended" => ~qemu_up /\ up = <<>>
  /\ ~qemu_up => fw = "over"
  /\ NothingSurvivesSession

\* How far the firmware's numbers and the relay's acknowledgements reach.
Reach(a) == a <= wrote + 2 /\ (MayWrite => a <= wrote + 1)

Limits ==
  /\ \A i \in 1..Len(up) : /\ Reach(up[i].seq + up[i].n)
                           /\ up[i].n = 1 => up[i].seq \in 1..wrote
                           /\ up[i].fin => up[i].seq + up[i].n = wrote + 1 /\ ~MayWrite
                           /\ up[i].syn => up[i].seq = 0 /\ up[i].n = 0 /\ ~up[i].fin
  /\ Reach(fw_ack)
  /\ \A c \in Cos : Sending(c) => Reach(seg[c].ack)
  /\ \A i \in 1..Len(down) : Reach(down[i].ack)

\* A segment carries the bytes its number promises; only DATA carries any.
Sound(s) ==
  /\ s.kind # "DATA" => s.data = <<>>
  /\ \A j \in 1..Len(s.data) : s.data[j] = s.seq + j - 1

\* What follows the segment coroutine c is sending, if it is sending one.
After(c) == fw_seq + (IF Sending(c) THEN Size(seg[c]) ELSE 0)

\* ... and what follows the segments written to QEMU.
Written == fw_seq + (IF writer # 0 /\ co[writer] = "drain" THEN Size(seg[writer]) ELSE 0)

\* Segment h of `down' is the last before place i that counts.
Before(h, i) == down[h].kind # "RST" /\ \A k \in (h + 1)..(i - 1) : down[k].kind = "RST"

\* The numbers of the segments, and of the bytes still in the server's stream.
Numbers ==
  /\ \A i \in 1..Len(down) : Sound(down[i])
  /\ \A i \in 1..Len(down) : down[i].kind # "RST" =>
        \A h \in 1..(i - 1) : Before(h, i) => down[i].seq = down[h].seq + Size(down[h])
  /\ \A i \in 1..Len(down) :
        down[i].kind = "FIN" => writer # 0 /\ srv[writer].eof /\ down[i].seq = srv_sent + 1
  /\ qemu_up =>
        \A h \in 1..Len(down) :
           Before(h, Len(down) + 1) => down[h].seq + Size(down[h]) = Written
  /\ \A c \in Cos : Sending(c) => Sound(seg[c])
  /\ writer # 0 /\ Sending(writer) => seg[writer].seq = fw_seq

Stream ==
  writer # 0 /\ co[writer] # "ended" =>
    IF Sending(writer) /\ seg[writer].kind = "FIN"
    THEN srv[writer].eof /\ srv[writer].buf = <<>> /\ fw_seq = srv_sent + 1
    ELSE /\ After(writer) + Len(srv[writer].buf) = srv_sent + 1
         /\ \A j \in 1..Len(srv[writer].buf) : srv[writer].buf[j] = After(writer) + j - 1

\* Bytes below an acknowledgement have reached the server.
Acked(a) == \A b \in 1..wrote : b < a => Has(writer, b)

\* While the server is written to, every byte is there or on its way, behind its
\* predecessors.
OnTheWay ==
  writer # 0 /\ srv[writer].state # "closed" =>
     /\ \A b \in 1..wrote : Has(writer, b) \/ \E j \in 1..Len(up) : Carries(up[j], b)
     /\ \A i \in 1..Len(up) : \A b \in 1..wrote :
           b < up[i].seq + up[i].n =>
              Has(writer, b) \/ \E j \in 1..Len(up) : j <= i /\ Carries(up[j], b)

\* Unless the server fails: when it is no longer written to although the coroutine
\* runs, nothing more is to come and everything is there; what is acknowledged is
\* there.
Delivered ==
  writer # 0 /\ srv[writer].fault = "none" =>
     /\ srv[writer].state = "closed" /\ co[writer] # "ended" /\ qemu_up =>
           ~MayWrite /\ \A b \in 1..wrote : Has(writer, b)
     /\ co[writer] # "ended" /\ qemu_up => Acked(fw_ack)
     /\ co[writer] = "send" /\ qemu_up => Acked(seg[writer].ack)
     /\ \A i \in 1..Len(down) : down[i].kind # "RST" => Acked(down[i].ack)

\* What every server has received is without gap.
InOrder ==
  \A c \in Cos : \A i \in 1..Len(srv[c].rcvd) :
     srv[c].rcvd[i] = 1 \/ \E j \in 1..(i - 1) : srv[c].rcvd[j] = srv[c].rcvd[i] - 1

\* What holds of any number of server connections, and what holds of one.
Shared == RelayTypeOK /\ Roles /\ Attempts /\ Sessions /\ Limits
Alone  == Numbers /\ Stream /\ OnTheWay /\ Delivered /\ InOrder

RelayInv == Shared /\ (Sole => Alone)

-----------------------------------------------------------------------------
\* ---- Facts most steps need --------------------------------------------------

\* The parameters are numbers, and no coroutine is number 0.
LEMMA Bounds ==
  /\ DataMax \in Nat /\ ServerMax \in Nat /\ ConnMax \in Nat /\ OddMax \in Nat
  /\ 0 \notin Cos /\ Cos \subseteq Nat /\ 0..ConnMax = Cos \cup {0}
  BY RelayAssumption DEF Cos

\* The table of server connections.
ServerEnds == [state : {"none", "open", "late", "closed"}, eof : BOOLEAN,
               fault : {"none", "lost", "told"},
               buf : Seq(1..ServerMax), rcvd : Seq(1..DataMax)]

\* Where a coroutine can be.
Places == {"none", "opening", "send", "drain", "read", "ended"}

LEMMA Servers ==
  Shared => /\ srv \in [Cos -> ServerEnds]
            /\ writer \in Cos \cup {0}
            /\ co \in [Cos -> Places]
            /\ seg \in [Cos -> Segs]
            /\ \A c \in Cos : srv[c].state # "none" => co[c] # "none" /\ writer \in Cos
  BY Bounds DEF Shared, RelayTypeOK, ServerEnds, Places, Roles

\* What a segment adds to the numbers is a number.
LEMMA Sizes ==
  /\ \A s \in Segs : Size(s) \in Nat
  /\ Shared => \A c \in Cos : After(c) \in Nat /\ seg[c] \in Segs
  <1>1. ASSUME NEW s \in Segs PROVE Size(s) \in Nat
    <2>1. s.data \in Seq(1..ServerMax)
      BY DEF Segs
    <2>2. Len(s.data) \in Nat
      BY <2>1
    <2>3. CASE s.kind \in {"SYNACK", "FIN"}
      <3>1. Size(s) = Len(s.data) + 1
        BY <2>3 DEF Size
      <3> QED BY <2>2, <3>1
    <2>4. CASE s.kind \notin {"SYNACK", "FIN"}
      <3>1. Size(s) = Len(s.data) + 0
        BY <2>4 DEF Size
      <3> QED BY <2>2, <3>1
    <2> QED BY <2>3, <2>4
  <1>2. ASSUME Shared, NEW c \in Cos PROVE After(c) \in Nat /\ seg[c] \in Segs
    <2>1. fw_seq \in Nat /\ seg[c] \in Segs
      BY <1>2 DEF Shared, RelayTypeOK
    <2> QED BY <1>1, <2>1 DEF After
  <1> QED BY <1>1, <1>2

\* No connection is ever as if it had not been opened.
LEMMA SoleBefore ==
  ASSUME Sole', \A c \in Cos : srv[c].state # "none" => srv'[c].state # "none"
  PROVE  Sole
  BY DEF Sole

\* A sole connection is the writer's, and only its coroutine does more than refuse.
LEMMA OneOnly ==
  ASSUME Shared, Sole, writer # 0
  PROVE  /\ writer \in Cos /\ connected /\ srv[writer].state # "none"
         /\ co[writer] \in {"send", "drain", "read", "ended"}
         /\ Sending(writer) => seg[writer].kind \in {"SYNACK", "DATA", "FIN"}
         /\ co[writer] = "read" => rd[writer] = writer
         /\ \A c \in Cos \ {writer} : /\ srv[c].state = "none" /\ srv[c] = Untouched
                                      /\ co[c] # "read"
                                      /\ Sending(c) => seg[c].kind = "RST"
  <1>1. writer \in Cos /\ srv[writer].state # "none" /\ Roles
    BY Servers DEF Shared, Roles
  <1>2. \A c \in Cos : srv[c].state # "none" => c = writer
    BY <1>1 DEF Sole
  <1> QED BY <1>1, <1>2 DEF Roles

\* A step that hands nothing to a server keeps all that was ever handed to one.
LEMMA SameReceived ==
  ASSUME \A d \in Cos : srv'[d].rcvd = srv[d].rcvd
  PROVE  /\ InOrder => InOrder'
         /\ \A d \in Cos : \A b : Has(d, b)' <=> Has(d, b)
         /\ writer \in Cos /\ writer' = writer /\ wrote' = wrote =>
               \A a : Acked(a) => Acked(a)'
  <1>1. InOrder => InOrder'
    BY DEF InOrder
  <1>2. \A d \in Cos : \A b : Has(d, b)' <=> Has(d, b)
    BY DEF Has
  <1>3. writer \in Cos /\ writer' = writer /\ wrote' = wrote => \A a : Acked(a) => Acked(a)'
    BY <1>2 DEF Acked
  <1> QED BY <1>1, <1>2, <1>3

-----------------------------------------------------------------------------
\* ---- Steps that leave a part alone ----------------------------------------

LEMMA KeepsRoles ==
  ASSUME Roles, UNCHANGED <<connected, writer, srv, co, seg, rd>>
  PROVE  Roles'
  BY DEF Roles, Sending

LEMMA KeepsAttempts ==
  ASSUME Attempts, UNCHANGED <<writer, fw_seq, srv_sent, wrote, down>>, fw' \in {fw, "over"}
  PROVE  Attempts'
  BY DEF Attempts

LEMMA KeepsSessions ==
  ASSUME Sessions, UNCHANGED <<co, in_table, srv, writer, session, qemu_up, up, fw>>
  PROVE  Sessions'
  BY DEF Sessions, NothingSurvivesSession

LEMMA KeepsLimits ==
  ASSUME Limits, UNCHANGED <<up, wrote, fw_ack, co, seg, down>>, MayWrite' => MayWrite
  PROVE  Limits'
  BY DEF Limits, Reach, Sending

LEMMA KeepsNumbers ==
  ASSUME Numbers, UNCHANGED <<fw_seq, srv_sent, down, writer, co, seg, srv>>,
         qemu_up' => qemu_up
  PROVE  Numbers'
  <1>1. /\ Written' = Written
        /\ \A s : Sound(s)' <=> Sound(s)
        /\ \A s : Size(s)' = Size(s)
        /\ \A h, i : Before(h, i)' <=> Before(h, i)
        /\ \A c : Sending(c)' <=> Sending(c)
    BY DEF Written, Sound, Size, Before, Sending
  <1> QED BY <1>1 DEF Numbers

LEMMA KeepsStream ==
  ASSUME Stream, UNCHANGED <<writer, co, seg, srv, fw_seq, srv_sent>>
  PROVE  Stream'
  BY DEF Stream, After, Size, Sending

LEMMA KeepsOnTheWay ==
  ASSUME OnTheWay, UNCHANGED <<writer, srv, wrote, up>>
  PROVE  OnTheWay'
  BY DEF OnTheWay, Has, Carries

LEMMA KeepsDelivered ==
  ASSUME Delivered, UNCHANGED <<writer, srv, wrote, co, fw_ack, seg, down>>,
         qemu_up' => qemu_up, MayWrite' => MayWrite
  PROVE  Delivered'
  BY DEF Delivered, Acked, Has

-----------------------------------------------------------------------------
\* ---- The initial state ----------------------------------------------------

LEMMA RelayInvInit == RelayInit => RelayInv
  <1> SUFFICES ASSUME RelayInit PROVE RelayInv
    OBVIOUS
  <1> USE DEF RelayInit
  <1>a. /\ DataMax \in Nat /\ ServerMax \in Nat /\ ConnMax \in Nat /\ OddMax \in Nat
        /\ \A S : <<>> \in Seq(S)
        /\ Len(<<>>) = 0
    BY RelayAssumption
  <1>b. 0 \notin Cos
    BY Bounds
  <1>1. RelayTypeOK
    <2>1. NoSeg \in Segs
      BY <1>a DEF NoSeg, Segs
    <2>2. Untouched \in ServerEnds
      BY <1>a DEF Untouched, ServerEnds
    <2>3. seg \in [Cos -> Segs]
      BY <2>1
    <2>4. srv \in [Cos -> [state : {"none", "open", "late", "closed"}, eof : BOOLEAN,
                           fault : {"none", "lost", "told"},
                           buf : Seq(1..ServerMax), rcvd : Seq(1..DataMax)]]
      BY <2>2 DEF Untouched, ServerEnds
    <2>5. up \in Seq(FwSegs) /\ down \in Seq(Segs) /\ Len(down) = 0
      OBVIOUS
    <2>6. rd \in [Cos -> 0..ConnMax]
      BY <1>a
    <2>7. co \in [Cos -> {"none", "opening", "send", "drain", "read", "ended"}]
      OBVIOUS
    <2>8. /\ 0 \in 0..(DataMax + 2) /\ 0 \in 0..ConnMax /\ 0 \in 0..ServerMax
          /\ 0 \in 0..DataMax /\ 0 \in 0..0 /\ OddMax \in 0..OddMax
      BY <1>a
    <2> QED BY <2>3, <2>4, <2>5, <2>6, <2>7, <2>8 DEF RelayTypeOK
  <1>2. Roles
    BY <1>b DEF Roles, Untouched, Sending
  <1>3. Attempts
    BY <1>a DEF Attempts
  <1>4. Sessions
    BY DEF Sessions, NothingSurvivesSession
  <1>5. Limits
    BY <1>a DEF Limits, Reach, MayWrite, Sending
  <1>6. Numbers
    BY <1>a DEF Numbers, Sending
  <1>7. Stream /\ OnTheWay /\ Delivered
    BY DEF Stream, OnTheWay, Delivered
  <1>8. InOrder
    BY <1>a DEF InOrder
  <1> QED BY <1>1, <1>2, <1>3, <1>4, <1>5, <1>6, <1>7, <1>8 DEF RelayInv, Shared, Alone

-----------------------------------------------------------------------------
\* ---- Steps in which the relay only waits ------------------------------------

\* A non-TCP frame, a segment that is lost, a reset that is taken, the end of QEMU.
LEMMA QuietKeeps ==
  ASSUME RelayInv,
         UNCHANGED <<up, connVars, coVars, serverVars, down, wrote>>,
         session' = session \/ session' \in {"read", "other"},
         qemu_up' \in BOOLEAN, qemu_up' => qemu_up, ~qemu_up' => fw' = "over",
         session' = "ended" => ~qemu_up',
         fw' \in {fw, "over"},
         una' \in 0..(DataMax + 2), taken' \in 0..Len(down),
         odd' \in 0..OddMax, lost' \in BOOLEAN
  PROVE  RelayInv'
  <1> USE DEF connVars, coVars, serverVars
  <1>1. RelayTypeOK'
    BY DEF RelayInv, Shared, RelayTypeOK
  <1>2. Roles'
    BY KeepsRoles DEF RelayInv, Shared
  <1>3. Attempts'
    BY KeepsAttempts DEF RelayInv, Shared
  <1>4. Sessions'
    BY DEF RelayInv, Shared, Sessions, NothingSurvivesSession
  <1>m. MayWrite' => MayWrite
    BY DEF MayWrite
  <1>5. Limits'
    BY <1>m, KeepsLimits DEF RelayInv, Shared
  <1>6. ASSUME Sole' PROVE Alone'
    <2>1. Alone
      BY <1>6 DEF RelayInv, Sole
    <2>2. Numbers' /\ Stream'
      BY <2>1, KeepsNumbers, KeepsStream DEF Alone
    <2>3. OnTheWay' /\ Delivered'
      BY <1>m, <2>1, KeepsOnTheWay, KeepsDelivered DEF Alone
    <2>4. InOrder'
      BY <2>1 DEF Alone, InOrder
    <2> QED BY <2>2, <2>3, <2>4 DEF Alone
  <1> QED BY <1>1, <1>2, <1>3, <1>4, <1>5, <1>6 DEF RelayInv, Shared

LEMMA OtherKeeps == RelayInv /\ SessionOther => RelayInv'
  <1> SUFFICES ASSUME RelayInv, SessionOther PROVE RelayInv'
    OBVIOUS
  <1>1. odd' \in 0..OddMax
    <2>1. odd \in 0..OddMax /\ OddMax \in Nat
      BY Bounds DEF RelayInv, Shared, RelayTypeOK
    <2> QED BY <2>1 DEF SessionOther, Odd
  <1>2. /\ una \in 0..(DataMax + 2) /\ taken \in 0..Len(down) /\ lost \in BOOLEAN
        /\ qemu_up \in BOOLEAN /\ (~qemu_up => fw = "over")
    BY DEF RelayInv, Shared, RelayTypeOK, Sessions
  <1>3. /\ UNCHANGED <<qemu_up, up, connVars, coVars, serverVars, down, fw, wrote, una, taken, lost>>
        /\ session' \in {"read", "other"}
    BY DEF SessionOther
  <1> QED BY <1>1, <1>2, <1>3, QuietKeeps

LEMMA QemuGoneKeeps == RelayInv /\ QemuGone => RelayInv'
  <1> SUFFICES ASSUME RelayInv, QemuGone PROVE RelayInv'
    OBVIOUS
  <1>1. 0 \in 0..(DataMax + 2) /\ 0 \in 0..Len(down) /\ 0 \in 0..OddMax
    <2>1. down \in Seq(Segs)
      BY DEF RelayInv, Shared, RelayTypeOK
    <2>2. Len(down) \in Nat
      BY <2>1
    <2> QED BY <2>2, Bounds
  <1>2. /\ UNCHANGED <<up, session, connVars, coVars, serverVars, down, wrote>>
        /\ ~qemu_up' /\ qemu_up' \in BOOLEAN
        /\ fw' = "over" /\ una' = 0 /\ taken' = 0 /\ odd' = 0 /\ lost' = FALSE
    BY DEF QemuGone, Over
  <1> QED BY <1>1, <1>2, QuietKeeps

-----------------------------------------------------------------------------
\* ---- The server -----------------------------------------------------------

\* The server ends its stream or fails, or asyncio tells the reader that it did.
LEMMA MarkKeeps ==
  ASSUME RelayInv, NEW c \in Cos, srv[c].state # "none",
         UNCHANGED <<qemu_up, up, session, connVars, coVars, srv_sent, down, fwVars>>,
         srv' \in [Cos -> ServerEnds],
         \A d \in Cos : d # c => srv'[d] = srv[d],
         srv'[c].buf = srv[c].buf, srv'[c].rcvd = srv[c].rcvd,
         srv[c].eof => srv'[c].eof,
         srv[c].fault # "none" => srv'[c].fault # "none",
         \/ srv'[c].state = srv[c].state
         \/ srv'[c].state = "closed" /\ srv'[c].fault # "none"
  PROVE  RelayInv'
  <1> USE DEF connVars, coVars, fwVars
  <1>a. \A d \in Cos : /\ srv'[d].state = "none" <=> srv[d].state = "none"
                       /\ srv[d].state = "none" => srv'[d] = srv[d]
                       /\ srv'[d].rcvd = srv[d].rcvd /\ srv'[d].buf = srv[d].buf
                       /\ srv[d].eof => srv'[d].eof
                       /\ srv'[d].state # "closed" => srv[d].state = srv'[d].state
                       /\ srv'[d].fault = "none" =>
                             srv[d].fault = "none" /\ srv'[d].state = srv[d].state
    OBVIOUS
  <1>b. \A d \in Cos : srv'[d].state = "open" => srv[d].state = "open"
    BY <1>a
  <1>1. RelayTypeOK'
    BY DEF RelayInv, Shared, RelayTypeOK, ServerEnds
  <1>2. Roles'
    <2>1. Roles /\ writer \in Cos \cup {0}
      BY Servers DEF RelayInv, Shared
    <2>2. \A d \in Cos : Sending(d)' <=> Sending(d)
      BY DEF Sending
    <2> QED BY <1>a, <2>1, <2>2 DEF Roles
  <1>3. Attempts'
    BY KeepsAttempts DEF RelayInv, Shared
  <1>4. Sessions'
    BY <1>b DEF RelayInv, Shared, Sessions, NothingSurvivesSession
  <1>5. Limits'
    BY KeepsLimits DEF RelayInv, Shared, MayWrite
  <1>6. ASSUME Sole' PROVE Alone'
    <2>1. Sole /\ Alone /\ Shared /\ writer' = writer
      BY <1>a, <1>6, SoleBefore DEF RelayInv
    <2>2. writer # 0 => writer \in Cos
      BY <2>1, OneOnly
    <2>3. Numbers'
      <3>1. /\ Written' = Written
            /\ \A s : Sound(s)' <=> Sound(s)
            /\ \A s : Size(s)' = Size(s)
            /\ \A h, i : Before(h, i)' <=> Before(h, i)
            /\ \A d : Sending(d)' <=> Sending(d)
        BY DEF Written, Sound, Size, Before, Sending
      <3> QED BY <1>a, <2>1, <2>2, <3>1 DEF Alone, Numbers
    <2>4. Stream'
      <3>1. /\ \A d : After(d)' = After(d)
            /\ \A d : Sending(d)' <=> Sending(d)
        BY DEF After, Sending, Size
      <3> QED BY <1>a, <2>1, <2>2, <3>1 DEF Alone, Stream
    <2>5. /\ InOrder => InOrder'
          /\ \A d \in Cos : \A b : Has(d, b)' <=> Has(d, b)
          /\ writer # 0 => \A a : Acked(a) => Acked(a)'
      BY <1>a, <2>2, SameReceived
    <2>6. OnTheWay'
      BY <1>a, <2>1, <2>2, <2>5 DEF Alone, OnTheWay, Carries
    <2>7. Delivered'
      BY <1>a, <2>1, <2>2, <2>5 DEF Alone, Delivered, MayWrite
    <2> QED BY <2>1, <2>3, <2>4, <2>5, <2>6, <2>7 DEF Alone
  <1> QED BY <1>1, <1>2, <1>3, <1>4, <1>5, <1>6 DEF RelayInv, Shared

LEMMA ServerCloseKeeps ==
  ASSUME RelayInv, NEW c \in Cos, ServerClose(c) \/ ServerReset(c),
         UNCHANGED <<qemu_up, up, session, connVars, coVars, down, fwVars>>
  PROVE  RelayInv'
  <1>1. srv \in [Cos -> ServerEnds] /\ srv[c] \in ServerEnds
    BY Servers DEF RelayInv
  <1>2. srv[c].state # "none" /\ srv_sent' = srv_sent
    BY DEF ServerClose, ServerReset
  <1>3. CASE srv' = [srv EXCEPT ![c].eof = TRUE]
    <2>1. srv'[c] = [srv[c] EXCEPT !.eof = TRUE] /\ \A d \in Cos : d # c => srv'[d] = srv[d]
      BY <1>1, <1>3
    <2>2. /\ srv' \in [Cos -> ServerEnds]
          /\ srv'[c].buf = srv[c].buf /\ srv'[c].rcvd = srv[c].rcvd /\ srv'[c].eof
          /\ srv'[c].fault = srv[c].fault /\ srv'[c].state = srv[c].state
      BY <1>1, <1>3, <2>1 DEF ServerEnds
    <2> QED BY <1>2, <2>1, <2>2, MarkKeeps
  <1>4. CASE srv' = [srv EXCEPT ![c].state = "closed", ![c].fault = "lost"]
    <2>1. /\ srv'[c] = [srv[c] EXCEPT !.state = "closed", !.fault = "lost"]
          /\ \A d \in Cos : d # c => srv'[d] = srv[d]
      BY <1>1, <1>4
    <2>2. /\ srv' \in [Cos -> ServerEnds]
          /\ srv'[c].buf = srv[c].buf /\ srv'[c].rcvd = srv[c].rcvd
          /\ srv'[c].eof = srv[c].eof /\ srv'[c].fault = "lost" /\ srv'[c].state = "closed"
      BY <1>1, <1>4, <2>1 DEF ServerEnds
    <2> QED BY <1>2, <2>1, <2>2, MarkKeeps
  <1> QED BY <1>3, <1>4 DEF ServerClose, ServerReset, Broken

LEMMA ReaderToldKeeps ==
  ASSUME RelayInv, NEW c \in Cos, ReaderTold(c) PROVE RelayInv'
  <1>1. srv \in [Cos -> ServerEnds] /\ srv[c] \in ServerEnds
    BY Servers DEF RelayInv
  <1>2. /\ srv[c].fault = "lost" /\ srv' = [srv EXCEPT ![c].fault = "told"]
        /\ UNCHANGED <<qemu_up, up, session, connVars, coVars, srv_sent, down, fwVars>>
    BY DEF ReaderTold
  <1>3. srv[c].state # "none"
    BY <1>2 DEF RelayInv, Shared, Roles, Untouched
  <1>4. /\ srv' \in [Cos -> ServerEnds]
        /\ \A d \in Cos : d # c => srv'[d] = srv[d]
        /\ srv'[c].buf = srv[c].buf /\ srv'[c].rcvd = srv[c].rcvd
        /\ srv[c].eof => srv'[c].eof
        /\ srv'[c].fault # "none"
        /\ srv'[c].state = srv[c].state
    BY <1>1, <1>2 DEF ServerEnds
  <1> QED BY <1>2, <1>3, <1>4, MarkKeeps

LEMMA ServerSendKeeps ==
  ASSUME RelayInv, NEW c \in Cos, ServerSend(c),
         UNCHANGED <<qemu_up, up, session, connVars, coVars, down, fwVars>>
  PROVE  RelayInv'
  <1> USE DEF ServerSend, connVars, coVars, fwVars
  <1>b. srv \in [Cos -> ServerEnds] /\ srv_sent \in 0..ServerMax /\ ServerMax \in Nat
    BY Servers, Bounds DEF RelayInv, Shared, RelayTypeOK
  <1>c. /\ srv[c].buf \in Seq(1..ServerMax) /\ srv[c] \in ServerEnds
        /\ srv_sent + 1 \in 1..ServerMax
    BY <1>b DEF ServerEnds
  <1>d. /\ Append(srv[c].buf, srv_sent + 1) \in Seq(1..ServerMax)
        /\ Len(Append(srv[c].buf, srv_sent + 1)) = Len(srv[c].buf) + 1
        /\ Append(srv[c].buf, srv_sent + 1)[Len(srv[c].buf) + 1] = srv_sent + 1
        /\ \A j \in 1..Len(srv[c].buf) :
              Append(srv[c].buf, srv_sent + 1)[j] = srv[c].buf[j]
        /\ Len(srv[c].buf) \in Nat
    BY <1>c
  <1>e. /\ srv' = [srv EXCEPT ![c].buf = Append(srv[c].buf, srv_sent + 1)]
        /\ srv' \in [Cos -> ServerEnds]
    BY <1>b, <1>d DEF ServerEnds
  <1>f. /\ srv[c].state \in {"open", "late"} /\ ~srv[c].eof
        /\ srv'[c].buf = Append(srv[c].buf, srv_sent + 1)
        /\ \A d \in Cos : /\ srv'[d].state = srv[d].state /\ srv'[d].eof = srv[d].eof
                          /\ srv'[d].rcvd = srv[d].rcvd /\ srv'[d].fault = srv[d].fault
                          /\ d # c => srv'[d] = srv[d]
    <2>1. srv'[c] = [srv[c] EXCEPT !.buf = Append(srv[c].buf, srv_sent + 1)]
      BY <1>b, <1>e
    <2>2. \A d \in Cos : d # c => srv'[d] = srv[d]
      BY <1>b, <1>e
    <2>3. /\ srv'[c].state = srv[c].state /\ srv'[c].eof = srv[c].eof
          /\ srv'[c].rcvd = srv[c].rcvd /\ srv'[c].fault = srv[c].fault
          /\ srv'[c].buf = Append(srv[c].buf, srv_sent + 1)
      BY <1>c, <2>1 DEF ServerEnds
    <2> QED BY <2>2, <2>3
  <1>g. srv_sent' = srv_sent + 1
    OBVIOUS
  <1> HIDE DEF ServerSend
  <1>1. RelayTypeOK'
    <2>1. srv_sent' \in 0..ServerMax
      BY <1>b, <1>c, <1>g
    <2> QED BY <1>e, <2>1 DEF RelayInv, Shared, RelayTypeOK, ServerEnds
  <1>2. Roles'
    <2>1. Roles /\ writer \in Cos \cup {0}
      BY Servers DEF RelayInv, Shared
    <2>2. \A d \in Cos : Sending(d)' <=> Sending(d)
      BY DEF Sending
    <2> QED BY <1>f, <2>1, <2>2 DEF Roles
  <1>3. Attempts'
    BY <1>f DEF RelayInv, Shared, Roles, Attempts
  <1>4. Sessions'
    BY <1>f DEF RelayInv, Shared, Sessions, NothingSurvivesSession
  <1>5. Limits'
    BY KeepsLimits DEF RelayInv, Shared, MayWrite
  <1>6. ASSUME Sole' PROVE Alone'
    <2>1. Sole /\ Alone /\ Shared /\ writer' = writer /\ writer # 0
      BY <1>f, <1>6, SoleBefore DEF RelayInv, Shared, Roles
    <2>2. c = writer
      BY <1>f, <2>1, OneOnly
    <2>3. Numbers'
      <3>1. /\ Written' = Written
            /\ \A s : Sound(s)' <=> Sound(s)
            /\ \A s : Size(s)' = Size(s)
            /\ \A h, i : Before(h, i)' <=> Before(h, i)
            /\ \A d : Sending(d)' <=> Sending(d)
        BY DEF Written, Sound, Size, Before, Sending
      <3> QED BY <1>f, <2>1, <2>2, <3>1 DEF Alone, Numbers
    <2>4. Stream'
      <3>1. CASE co[writer] = "ended"
        BY <3>1 DEF Stream
      <3>2. CASE co[writer] # "ended"
        <4>1. /\ Stream /\ After(writer)' = After(writer)
              /\ Sending(writer)' <=> Sending(writer)
              /\ ~(Sending(writer) /\ seg[writer].kind = "FIN")
          BY <1>f, <2>1, <2>2, <3>2 DEF Alone, Stream, After, Size, Sending
        <4>2. /\ After(writer) + Len(srv[writer].buf) = srv_sent + 1
              /\ \A j \in 1..Len(srv[writer].buf) : srv[writer].buf[j] = After(writer) + j - 1
          BY <2>1, <3>2, <4>1 DEF Stream
        <4>3. After(writer) \in Int
          BY <2>1, <2>2, Sizes
        <4>4. Len(srv'[writer].buf) = Len(srv[writer].buf) + 1
          BY <1>d, <1>f, <2>2
        <4>5. \A n \in Nat : \A x \in Int : x + n = srv_sent + 1 => x + (n + 1) = (srv_sent + 1) + 1
          BY <1>b
        <4>6. After(writer) + Len(srv'[writer].buf) = (srv_sent + 1) + 1
          BY ONLY <1>d, <2>2, <4>2, <4>3, <4>4, <4>5
        <4>7. ASSUME NEW j \in 1..Len(srv'[writer].buf)
              PROVE  srv'[writer].buf[j] = After(writer) + j - 1
          <5>1. CASE j = Len(srv[writer].buf) + 1
            <6>1. srv'[writer].buf[j] = srv_sent + 1
              BY <1>d, <1>f, <2>2, <5>1
            <6>2. \A n \in Nat : \A x \in Int : x + n = srv_sent + 1 => srv_sent + 1 = x + (n + 1) - 1
              BY <1>b
            <6> QED BY ONLY <1>d, <2>2, <4>2, <4>3, <5>1, <6>1, <6>2
          <5>2. CASE j \in 1..Len(srv[writer].buf)
            BY <1>d, <1>f, <2>2, <4>2, <5>2
          <5>3. \A n \in Nat : \A i \in 1..(n + 1) : i = n + 1 \/ i \in 1..n
            OBVIOUS
          <5> QED BY ONLY <1>d, <2>2, <4>4, <5>1, <5>2, <5>3
        <4> QED BY <1>f, <1>g, <2>1, <4>1, <4>6, <4>7 DEF Stream
      <3> QED BY <3>1, <3>2
    <2>5. /\ InOrder => InOrder'
          /\ \A d \in Cos : \A b : Has(d, b)' <=> Has(d, b)
          /\ \A a : Acked(a) => Acked(a)'
      BY <1>f, <2>2, SameReceived
    <2>6. OnTheWay'
      BY <1>f, <2>1, <2>2, <2>5 DEF Alone, OnTheWay, Carries
    <2>7. Delivered'
      BY <1>f, <2>1, <2>2, <2>5 DEF Alone, Delivered, MayWrite
    <2> QED BY <2>1, <2>3, <2>4, <2>5, <2>6, <2>7 DEF Alone
  <1> QED BY <1>1, <1>2, <1>3, <1>4, <1>5, <1>6 DEF RelayInv, Shared

-----------------------------------------------------------------------------
\* ---- Opening a connection -------------------------------------------------

\* What a coroutine that is about to send builds is a segment, and it is the only
\* thing Build changes.
LEMMA Built ==
  ASSUME Shared, NEW c \in Cos, NEW kind \in {"SYNACK", "RST", "DATA", "FIN"},
         NEW data \in Seq(1..ServerMax), Build(c, kind, data)
  PROVE  /\ seg' \in [Cos -> Segs]
         /\ co' \in [Cos -> Places]
         /\ co'[c] = "send"
         /\ seg'[c] = [kind |-> kind, data |-> data, seq |-> fw_seq, ack |-> fw_ack]
         /\ \A d \in Cos : d # c => co'[d] = co[d] /\ seg'[d] = seg[d]
         /\ Sending(c)' /\ \A d \in Cos : d # c => (Sending(d)' <=> Sending(d))
  BY DEF Build, Shared, RelayTypeOK, Segs, Places, Sending

LEMMA ConnectFailedKeeps ==
  ASSUME RelayInv, NEW c \in Cos, ConnectFailed(c) PROVE RelayInv'
  <1> USE DEF ConnectFailed, connVars, serverVars, fwVars
  <1>a. <<>> \in Seq(1..ServerMax) /\ Len(<<>>) = 0
    OBVIOUS
  <1>b. /\ seg' \in [Cos -> Segs]
        /\ co' \in [Cos -> Places]
        /\ co'[c] = "send"
        /\ seg'[c] = [kind |-> "RST", data |-> <<>>, seq |-> fw_seq, ack |-> fw_ack]
        /\ \A d \in Cos : d # c => co'[d] = co[d] /\ seg'[d] = seg[d]
        /\ Sending(c)' /\ \A d \in Cos : d # c => (Sending(d)' <=> Sending(d))
    BY <1>a, Built DEF RelayInv
  <1>c. srv[c].state = "none" /\ (writer # 0 => writer # c /\ writer \in Cos)
    BY Servers DEF RelayInv, Shared, Roles
  <1>1. RelayTypeOK'
    BY <1>b DEF RelayInv, Shared, RelayTypeOK, Places
  <1>2. Roles'
    BY <1>b, <1>c, Bounds DEF RelayInv, Shared, Roles
  <1>3. Attempts'
    BY KeepsAttempts DEF RelayInv, Shared
  <1>4. Sessions'
    BY <1>b DEF RelayInv, Shared, Sessions, NothingSurvivesSession
  <1>5. Limits'
    BY <1>b DEF RelayInv, Shared, Limits, Reach, MayWrite
  <1>6. ASSUME Sole' PROVE Alone'
    <2>1. Alone /\ Shared
      BY <1>6, SoleBefore DEF RelayInv
    <2>2. Numbers'
      <3>1. /\ Written' = Written
            /\ \A s : Sound(s)' <=> Sound(s)
            /\ \A s : Size(s)' = Size(s)
            /\ \A h, i : Before(h, i)' <=> Before(h, i)
        BY <1>b, <1>c DEF Written, Sound, Size, Before
      <3>2. Sound(seg'[c])
        BY <1>a, <1>b DEF Sound
      <3> QED BY <1>b, <1>c, <2>1, <3>1, <3>2 DEF Alone, Numbers
    <2>3. Stream'
      <3>1. writer # 0 => After(writer)' = After(writer)
        BY <1>b, <1>c DEF After, Size
      <3> QED BY <1>b, <1>c, <2>1, <3>1 DEF Alone, Stream
    <2>4. OnTheWay'
      BY <2>1, KeepsOnTheWay DEF Alone
    <2>5. Delivered'
      BY <1>b, <1>c, <2>1 DEF Alone, Delivered, Acked, Has, MayWrite
    <2>6. InOrder'
      BY <2>1 DEF Alone, InOrder
    <2> QED BY <2>2, <2>3, <2>4, <2>5, <2>6 DEF Alone
  <1> QED BY <1>1, <1>2, <1>3, <1>4, <1>5, <1>6 DEF RelayInv, Shared

LEMMA ConnectOpenedKeeps ==
  ASSUME RelayInv, NEW c \in Cos, ConnectOpened(c) PROVE RelayInv'
  <1> USE DEF ConnectOpened, fwVars
  <1>a. <<>> \in Seq(1..ServerMax) /\ Len(<<>>) = 0 /\ <<>> \in Seq(1..DataMax)
    OBVIOUS
  <1>b. /\ seg' \in [Cos -> Segs]
        /\ co' \in [Cos -> Places]
        /\ co'[c] = "send"
        /\ seg'[c] = [kind |-> "SYNACK", data |-> <<>>, seq |-> fw_seq, ack |-> fw_ack]
        /\ \A d \in Cos : d # c => co'[d] = co[d] /\ seg'[d] = seg[d]
        /\ Sending(c)' /\ \A d \in Cos : d # c => (Sending(d)' <=> Sending(d))
    BY <1>a, Built DEF RelayInv
  <1>c. /\ c # 0 /\ c \in 0..ConnMax /\ srv[c].state = "none" /\ srv[c] = Untouched
        /\ writer' = c /\ connected'
        /\ writer # 0 => writer # c /\ writer \in Cos
    BY Servers, Bounds DEF RelayInv, Shared, Roles
  <1>d. /\ srv \in [Cos -> ServerEnds]
        /\ srv' \in [Cos -> ServerEnds]
        /\ srv'[c] = [Untouched EXCEPT !.state = IF session = "ended" THEN "late" ELSE "open"]
        /\ \A d \in Cos : d # c => srv'[d] = srv[d]
    BY <1>a, <1>c, Servers DEF ServerEnds, Untouched, RelayInv
  <1>e. /\ srv'[c].state \in {"open", "late"}
        /\ srv'[c].buf = <<>> /\ srv'[c].rcvd = <<>>
        /\ srv'[c].state = "open" => session # "ended"
    BY <1>d DEF Untouched
  <1>1. RelayTypeOK'
    BY <1>b, <1>c, <1>d DEF RelayInv, Shared, RelayTypeOK, ServerEnds, Places
  <1>2. Roles'
    <2>1. Roles
      BY DEF RelayInv, Shared
    <2>2. rd' = rd /\ \A d \in Cos : srv[d].state # "none" => srv'[d].state # "none"
      BY <1>c, <1>d
    <2>3. \A d \in Cos : srv'[d].state = "none" =>
             /\ srv'[d] = Untouched /\ co'[d] # "read"
             /\ Sending(d)' => seg'[d].kind = "RST"
      BY <1>b, <1>d, <1>e, <2>1 DEF Roles
    <2>4. \A d \in Cos : srv'[d].state # "none" =>
             /\ co'[d] \in {"send", "drain", "read", "ended"}
             /\ Sending(d)' => seg'[d].kind \in {"SYNACK", "DATA", "FIN"}
      BY <1>b, <1>d, <2>1 DEF Roles
    <2>5. \A d \in Cos : co'[d] = "read" => rd'[d] \in Cos /\ srv'[rd'[d]].state # "none"
      BY <1>b, <2>1, <2>2 DEF Roles
    <2> HIDE DEF ConnectOpened
    <2> QED BY <1>c, <1>e, <2>3, <2>4, <2>5 DEF Roles
  <1>3. Attempts'
    BY <1>c DEF Attempts
  <1>4. Sessions'
    <2>1. NothingSurvivesSession'
      BY <1>c, <1>d, <1>e DEF RelayInv, Shared, Sessions, NothingSurvivesSession
    <2> QED BY <1>b, <2>1 DEF RelayInv, Shared, Sessions
  <1>5. Limits'
    BY <1>b DEF RelayInv, Shared, Limits, Reach, MayWrite
  <1>6. ASSUME Sole' PROVE Alone'
    <2>1. Sole /\ Alone /\ Shared
      BY <1>c, <1>d, <1>e, <1>6, SoleBefore DEF RelayInv
    <2>2. writer = 0
      BY <1>c, <1>d, <1>e, <1>6 DEF RelayInv, Shared, Roles, Sole
    <2>3. /\ fw_seq = 0 /\ srv_sent = 0 /\ wrote = 0
          /\ \A i \in 1..Len(down) : down[i].kind = "RST"
      BY <2>1, <2>2 DEF Shared, Attempts
    <2>4. Numbers'
      <3>1. /\ \A s : Sound(s)' <=> Sound(s)
            /\ \A h \in 1..Len(down) : ~Before(h, Len(down) + 1)'
        BY <2>3 DEF Sound, Before
      <3>2. Sound(seg'[c])
        BY <1>a, <1>b DEF Sound
      <3> QED BY <1>b, <1>c, <2>1, <2>3, <3>1, <3>2 DEF Alone, Numbers
    <2>5. Stream'
      <3>1. Len(srv'[c].buf) = 0
        BY <1>a, <1>e
      <3>2. After(c)' = 0 + 1
        BY <1>a, <1>b, <2>3 DEF After, Size
      <3> QED BY <1>b, <1>c, <2>3, <3>1, <3>2 DEF Stream
    <2>6. OnTheWay'
      BY <2>3 DEF OnTheWay
    <2>7. Delivered'
      BY <1>c, <1>e, <2>3 DEF Delivered, Acked
    <2>8. InOrder'
      BY <1>a, <1>d, <1>e, <2>1 DEF Alone, InOrder
    <2> QED BY <2>4, <2>5, <2>6, <2>7, <2>8 DEF Alone
  <1> QED BY <1>1, <1>2, <1>3, <1>4, <1>5, <1>6 DEF RelayInv, Shared

-----------------------------------------------------------------------------
\* ---- Sending and reading --------------------------------------------------

LEMMA WriteKeeps ==
  ASSUME RelayInv, NEW c \in Cos, Write(c) PROVE RelayInv'
  <1> USE DEF Write, connVars, serverVars, fwVars
  <1>a. /\ down \in Seq(Segs) /\ seg \in [Cos -> Segs] /\ seg[c] \in Segs
        /\ down' \in Seq(Segs)
        /\ Len(down) \in Nat
    BY DEF RelayInv, Shared, RelayTypeOK
  <1>b. /\ co' \in [Cos -> Places]
        /\ co[c] = "send" /\ co'[c] = "drain"
        /\ \A d \in Cos : d # c => co'[d] = co[d]
        /\ \A d \in Cos : Sending(d)' <=> Sending(d)
        /\ \A d \in Cos : co[d] # "drain"
    BY DEF RelayInv, Shared, RelayTypeOK, Places, Sending
  <1>c. \/ ~qemu_up /\ down' = down
        \/ /\ qemu_up /\ down' = Append(down, seg[c])
           /\ Len(down') = Len(down) + 1 /\ down'[Len(down) + 1] = seg[c]
           /\ \A i \in 1..Len(down) : down'[i] = down[i]
    BY <1>a
  <1>e. \A n \in Nat : \A i \in 1..(n + 1) : i = n + 1 \/ i \in 1..n
    OBVIOUS
  <1>f. \A i \in 1..Len(down') : \/ i \in 1..Len(down) /\ down'[i] = down[i]
                                 \/ i = Len(down) + 1 /\ qemu_up /\ down'[i] = seg[c]
    BY <1>a, <1>c, <1>e
  <1>g. /\ UNCHANGED <<qemu_up, up, session, connVars, rd, seg, serverVars, fwVars>>
        /\ Sending(c)
    BY DEF Sending
  <1> HIDE DEF Write
  <1>1. RelayTypeOK'
    <2>1. taken' \in 0..Len(down')
      <3>1. taken \in 0..Len(down)
        BY DEF RelayInv, Shared, RelayTypeOK
      <3>2. Len(down') = Len(down) \/ Len(down') = Len(down) + 1
        BY <1>c
      <3> QED BY <1>a, <1>g, <3>1, <3>2
    <2> QED BY <1>a, <1>b, <1>g, <2>1 DEF RelayInv, Shared, RelayTypeOK, Places
  <1>2. Roles'
    BY <1>b, <1>g DEF RelayInv, Shared, Roles, Sending
  <1>3. Attempts'
    <2>1. writer = 0 => seg[c].kind = "RST"
      BY <1>g DEF RelayInv, Shared, Roles
    <2> QED BY <1>f, <1>g, <2>1 DEF RelayInv, Shared, Attempts
  <1>4. Sessions'
    BY <1>b, <1>g DEF RelayInv, Shared, Sessions, NothingSurvivesSession
  <1>5. Limits'
    <2>1. Limits /\ (\A a : Reach(a)' <=> Reach(a))
      BY <1>g DEF RelayInv, Shared, Reach, MayWrite
    <2>2. Reach(seg[c].ack)
      BY <1>g, <2>1 DEF Limits
    <2>3. \A i \in 1..Len(down') : Reach(down'[i].ack)
      BY <1>f, <2>1, <2>2 DEF Limits
    <2> QED BY <1>b, <1>g, <2>1, <2>3 DEF Limits, MayWrite
  <1>6. ASSUME Sole' PROVE Alone'
    <2>1. Sole /\ Alone /\ Shared /\ Numbers
      BY <1>6, <1>g, SoleBefore DEF RelayInv, Alone
    <2>2. /\ writer # 0 => writer \in Cos
          /\ seg[c].kind # "RST" => writer # 0 /\ c = writer
          /\ seg[c].kind = "RST" => c # writer
      BY <1>g, <2>1, OneOnly, Bounds DEF Shared, Roles
    <2>3. Numbers'
      <3>1. /\ \A s : Sound(s)' <=> Sound(s)
            /\ \A s : Size(s)' = Size(s)
            /\ \A h \in 1..Len(down) : \A i \in 1..(Len(down) + 1) : Before(h, i)' <=> Before(h, i)
        <4>1. /\ \A s : Sound(s)' <=> Sound(s)
              /\ \A s : Size(s)' = Size(s)
          BY DEF Sound, Size
        <4>2. ASSUME NEW h \in 1..Len(down), NEW i \in 1..(Len(down) + 1)
              PROVE  Before(h, i)' <=> Before(h, i)
          <5>1. down'[h] = down[h] /\ \A k \in (h + 1)..(i - 1) : down'[k] = down[k]
            BY <1>a, <1>c
          <5> QED BY <5>1 DEF Before
        <4> QED BY <4>1, <4>2
      <3>2. Sound(seg[c])
        BY <1>g, <2>1 DEF Numbers
      <3>3. seg[c].kind # "RST" => seg[c].seq = fw_seq /\ Written = fw_seq
        <4>1. fw_seq \in Nat
          BY <2>1 DEF Shared, RelayTypeOK
        <4> QED BY <1>b, <1>g, <2>1, <2>2, <4>1 DEF Numbers, Written
      <3>4. Written' = IF seg[c].kind = "RST" THEN Written ELSE seg[c].seq + Size(seg[c])
        BY <1>b, <1>g, <2>2, <3>3 DEF Written, Size
      <3>5. \A i \in 1..Len(down') : Sound(down'[i])
        BY <1>f, <2>1, <3>2 DEF Numbers
      <3>6. ASSUME NEW i \in 1..Len(down'), down'[i].kind # "RST",
                   NEW h \in 1..(i - 1), Before(h, i)'
            PROVE  down'[i].seq = down'[h].seq + Size(down'[h])
        <4>1. CASE i \in 1..Len(down)
          <5>1. h \in 1..Len(down) /\ i \in 1..(Len(down) + 1)
            BY <1>a, <4>1
          <5>2. down'[i] = down[i] /\ down'[h] = down[h]
            BY <1>c, <4>1, <5>1
          <5>3. Before(h, i)
            BY <3>1, <3>6, <5>1
          <5> QED BY <2>1, <3>6, <4>1, <5>2, <5>3 DEF Numbers
        <4>2. CASE i = Len(down) + 1 /\ qemu_up
          <5>1. h \in 1..Len(down) /\ i \in 1..(Len(down) + 1)
            BY <1>a, <4>2
          <5>2. down'[i] = seg[c] /\ down'[h] = down[h]
            BY <1>c, <1>f, <4>2, <5>1
          <5>3. Before(h, Len(down) + 1)
            BY <3>1, <3>6, <4>2, <5>1
          <5> QED BY <2>1, <3>3, <3>6, <4>2, <5>1, <5>2, <5>3 DEF Numbers
        <4> QED BY <1>f, <4>1, <4>2
      <3>7. ASSUME NEW i \in 1..Len(down'), down'[i].kind = "FIN"
            PROVE  writer # 0 /\ srv[writer].eof /\ down'[i].seq = srv_sent + 1
        <4>1. CASE i = Len(down) + 1 /\ down'[i] = seg[c]
          BY <1>b, <1>g, <2>1, <2>2, <3>3, <3>7, <4>1 DEF Alone, Stream
        <4>2. CASE i \in 1..Len(down) /\ down'[i] = down[i]
          BY <2>1, <3>7, <4>2 DEF Numbers
        <4> QED BY <1>f, <4>1, <4>2
      <3>8. ASSUME qemu_up, NEW h \in 1..Len(down'), down'[h].kind # "RST",
                   \A k \in (h + 1)..(Len(down') + 1 - 1) : down'[k].kind = "RST"
            PROVE  down'[h].seq + Size(down'[h]) = Written'
        <4>a. /\ Len(down') = Len(down) + 1 /\ down'[Len(down) + 1] = seg[c]
              /\ \A i \in 1..Len(down) : down'[i] = down[i]
          BY <1>c, <3>8
        <4>1. CASE h = Len(down) + 1
          <5>1. seg[c].kind # "RST"
            BY <3>8, <4>a, <4>1
          <5> QED BY <3>4, <4>a, <4>1, <5>1
        <4>2. CASE h \in 1..Len(down)
          <5>1. Len(down) + 1 \in (h + 1)..(Len(down') + 1 - 1)
            BY <1>a, <4>a, <4>2
          <5>2. seg[c].kind = "RST"
            BY <3>8, <4>a, <5>1
          <5>3. ASSUME NEW k \in (h + 1)..(Len(down) + 1 - 1) PROVE down[k].kind = "RST"
            <6>1. k \in (h + 1)..(Len(down') + 1 - 1) /\ k \in 1..Len(down)
              BY <1>a, <4>a, <4>2
            <6> QED BY <3>8, <4>a, <6>1
          <5>4. Before(h, Len(down) + 1) /\ down'[h] = down[h]
            BY <3>8, <4>a, <4>2, <5>3 DEF Before
          <5> QED BY <2>1, <3>4, <3>8, <4>2, <5>2, <5>4 DEF Numbers
        <4> QED BY <1>a, <1>e, <4>a, <4>1, <4>2
      <3>9. \A d \in Cos : Sending(d)' => Sound(seg[d])
        BY <1>b, <2>1 DEF Numbers
      <3>10. writer # 0 /\ Sending(writer)' => seg[writer].seq = fw_seq
        BY <1>b, <1>g, <2>1, <2>2 DEF Numbers
      <3>11. (qemu_up =>
                 \A h \in 1..Len(down) :
                    Before(h, Len(down) + 1) => down[h].seq + Size(down[h]) = Written)'
        BY <1>g, <3>1, <3>8 DEF Before
      <3>12. (\A i \in 1..Len(down) : down[i].kind # "RST" =>
                 \A h \in 1..(i - 1) :
                    Before(h, i) => down[i].seq = down[h].seq + Size(down[h]))'
        BY <3>1, <3>6
      <3> QED BY <1>g, <3>1, <3>5, <3>7, <3>9, <3>10, <3>11, <3>12 DEF Numbers
    <2>4. Stream'
      <3>1. writer # 0 => After(writer)' = After(writer)
        BY <1>b, <1>g, <2>2 DEF After, Size
      <3> QED BY <1>b, <1>g, <2>1, <2>2, <3>1 DEF Alone, Stream
    <2>5. OnTheWay'
      BY <1>g, <2>1, KeepsOnTheWay DEF Alone
    <2>6. Delivered'
      <3>1. \A d \in Cos : srv'[d].rcvd = srv[d].rcvd
        BY <1>g
      <3>2. /\ \A d \in Cos : \A b : Has(d, b)' <=> Has(d, b)
            /\ writer # 0 => \A a : Acked(a) => Acked(a)'
        BY <1>g, <2>2, <3>1, SameReceived
      <3>3. writer # 0 /\ srv[writer].fault = "none" =>
               \A i \in 1..Len(down') : down'[i].kind # "RST" => Acked(down'[i].ack)
        BY <1>b, <1>f, <2>1, <2>2 DEF Alone, Delivered
      <3>4. writer # 0 => (co'[writer] # "ended" => co[writer] # "ended")
        BY <1>b, <2>2
      <3>5. writer # 0 /\ co'[writer] = "send" => co[writer] = "send"
        BY <1>b, <2>2
      <3> QED BY <1>g, <2>1, <2>2, <3>2, <3>3, <3>4, <3>5 DEF Alone, Delivered, MayWrite
    <2>7. InOrder'
      BY <1>g, <2>1 DEF Alone, InOrder
    <2> QED BY <2>3, <2>4, <2>5, <2>6, <2>7 DEF Alone
  <1> QED BY <1>1, <1>2, <1>3, <1>4, <1>5, <1>6 DEF RelayInv, Shared

LEMMA ReadKeeps ==
  ASSUME RelayInv, NEW c \in Cos, Read(c) PROVE RelayInv'
  <1> USE DEF Read, connVars, fwVars
  <1> DEFINE e == rd[c]
  <1>a. /\ e \in Cos /\ srv[e].state # "none" /\ srv[c].state # "none" /\ co[c] = "read"
        /\ writer # 0
        /\ srv \in [Cos -> ServerEnds] /\ srv[e] \in ServerEnds
        /\ srv[e].buf \in Seq(1..ServerMax) /\ <<>> \in Seq(1..ServerMax)
    BY Servers, Bounds DEF RelayInv, Shared, Roles, ServerEnds
  <1>k. PICK kind \in {"DATA", "FIN"} :
           /\ Build(c, kind, srv[e].buf)
           /\ srv' = [srv EXCEPT ![e].buf = <<>>]
           /\ kind = "FIN" => srv[e].buf = <<>> /\ srv[e].eof
    <2>1. CASE srv[e].buf # <<>>
      BY <1>a, <2>1
    <2>2. CASE srv[e].buf = <<>>
      <3>1. srv = [srv EXCEPT ![e].buf = <<>>]
        BY <1>a, <2>2 DEF ServerEnds
      <3> QED BY <1>a, <2>2, <3>1
    <2> QED BY <2>1, <2>2
  <1>b. /\ seg' \in [Cos -> Segs]
        /\ co' \in [Cos -> Places]
        /\ co'[c] = "send"
        /\ seg'[c] = [kind |-> kind, data |-> srv[e].buf, seq |-> fw_seq, ack |-> fw_ack]
        /\ \A d \in Cos : d # c => co'[d] = co[d] /\ seg'[d] = seg[d]
        /\ Sending(c)' /\ \A d \in Cos : d # c => (Sending(d)' <=> Sending(d))
    BY <1>a, <1>k, Built DEF RelayInv
  <1>c. /\ srv' \in [Cos -> ServerEnds]
        /\ srv'[e].buf = <<>>
        /\ \A d \in Cos : d # e => srv'[d] = srv[d]
        /\ \A d \in Cos : /\ srv'[d].state = srv[d].state /\ srv'[d].eof = srv[d].eof
                          /\ srv'[d].rcvd = srv[d].rcvd /\ srv'[d].fault = srv[d].fault
    <2>1. srv'[e] = [srv[e] EXCEPT !.buf = <<>>] /\ \A d \in Cos : d # e => srv'[d] = srv[d]
      BY <1>a, <1>k
    <2>2. /\ srv' \in [Cos -> ServerEnds]
          /\ srv'[e].state = srv[e].state /\ srv'[e].eof = srv[e].eof
          /\ srv'[e].rcvd = srv[e].rcvd /\ srv'[e].fault = srv[e].fault
          /\ srv'[e].buf = <<>>
      BY <1>a, <1>k, <2>1 DEF ServerEnds
    <2> QED BY <2>1, <2>2
  <1>d. UNCHANGED <<qemu_up, up, session, connVars, rd, srv_sent, down, fwVars>>
    OBVIOUS
  <1> HIDE DEF Read, e
  <1>1. RelayTypeOK'
    BY <1>b, <1>c, <1>d DEF RelayInv, Shared, RelayTypeOK, ServerEnds, Places
  <1>2. Roles'
    <2>1. Roles
      BY DEF RelayInv, Shared
    <2>2. \A d \in Cos : srv[d].state = "none" => d # e /\ d # c /\ srv'[d] = srv[d]
      BY <1>a, <1>c
    <2>3. \A d \in Cos : srv'[d].state = "none" =>
             /\ srv'[d] = Untouched /\ co'[d] # "read"
             /\ Sending(d)' => seg'[d].kind = "RST"
      BY <1>b, <1>c, <2>1, <2>2 DEF Roles
    <2>4. \A d \in Cos : srv'[d].state # "none" =>
             /\ co'[d] \in {"send", "drain", "read", "ended"}
             /\ Sending(d)' => seg'[d].kind \in {"SYNACK", "DATA", "FIN"}
      BY <1>b, <1>c, <2>1 DEF Roles
    <2>5. \A d \in Cos : co'[d] = "read" => rd[d] \in Cos /\ srv'[rd[d]].state # "none"
      BY <1>b, <1>c, <2>1 DEF Roles
    <2>6. connected /\ srv'[writer].state # "none"
      <3>1. writer \in Cos
        BY <1>a, Servers DEF RelayInv
      <3> QED BY <1>a, <1>c, <2>1, <3>1 DEF Roles
    <2> QED BY <1>a, <1>d, <2>3, <2>4, <2>5, <2>6 DEF Roles
  <1>3. Attempts'
    BY <1>d, KeepsAttempts DEF RelayInv, Shared
  <1>4. Sessions'
    BY <1>a, <1>b, <1>c, <1>d DEF RelayInv, Shared, Sessions, NothingSurvivesSession
  <1>5. Limits'
    BY <1>b, <1>d DEF RelayInv, Shared, Limits, Reach, MayWrite
  <1>6. ASSUME Sole' PROVE Alone'
    <2>1. Sole /\ Alone /\ Shared
      BY <1>c, <1>6, SoleBefore DEF RelayInv
    <2>2. /\ c = writer /\ e = writer /\ writer \in Cos
          /\ \A d \in Cos : d # writer => srv'[d] = srv[d]
      BY <1>a, <1>c, <2>1, OneOnly
    <2>3. /\ fw_seq + Len(srv[c].buf) = srv_sent + 1
          /\ \A j \in 1..Len(srv[c].buf) : srv[c].buf[j] = fw_seq + j - 1
          /\ fw_seq \in Nat
      <3>1. fw_seq \in Nat
        BY <2>1 DEF Shared, RelayTypeOK
      <3>2. After(writer) = fw_seq /\ ~Sending(writer)
        BY <1>a, <2>2, <3>1 DEF After, Sending
      <3>3. /\ After(writer) + Len(srv[writer].buf) = srv_sent + 1
            /\ \A j \in 1..Len(srv[writer].buf) : srv[writer].buf[j] = After(writer) + j - 1
        BY <1>a, <2>1, <2>2, <3>2 DEF Alone, Stream
      <3> QED BY <2>2, <3>1, <3>2, <3>3
    <2>4. Numbers'
      <3>1. /\ Written' = Written
            /\ \A s : Sound(s)' <=> Sound(s)
            /\ \A s : Size(s)' = Size(s)
            /\ \A h, i : Before(h, i)' <=> Before(h, i)
        BY <1>a, <1>b, <1>d, <2>2 DEF Written, Sound, Size, Before
      <3>2. Sound(seg'[c])
        BY <1>b, <1>k, <2>2, <2>3 DEF Sound
      <3> QED BY <1>a, <1>b, <1>c, <1>d, <2>1, <2>2, <3>1, <3>2 DEF Alone, Numbers
    <2>5. Stream'
      <3>1. CASE kind = "FIN"
        <4>1. Len(srv[c].buf) = 0
          BY <1>k, <2>2, <3>1
        <4>2. fw_seq = srv_sent + 1
          BY <2>3, <4>1
        <4> QED BY <1>a, <1>b, <1>c, <1>d, <1>k, <2>2, <3>1, <4>2 DEF Stream
      <3>2. CASE kind = "DATA"
        <4>1. Size(seg'[c]) = Len(srv[c].buf) + 0
          BY <1>b, <2>2, <3>2 DEF Size
        <4>2. Len(srv[c].buf) \in Nat /\ Len(srv'[c].buf) = 0
          BY <1>a, <1>c, <2>2
        <4>3. Size(seg'[c]) = Len(srv[c].buf)
          BY ONLY <4>1, <4>2
        <4>4. After(writer)' = fw_seq + Size(seg'[c])
          BY <1>a, <1>b, <1>d, <2>2 DEF After, Size
        <4>5. After(writer)' + Len(srv'[writer].buf) = srv_sent + 1
          BY <1>a, <2>2, <2>3, <4>2, <4>3, <4>4
        <4> QED BY <1>a, <1>b, <1>c, <1>d, <2>2, <3>2, <4>2, <4>5 DEF Stream
      <3> QED BY <3>1, <3>2
    <2>6. /\ InOrder => InOrder'
          /\ \A d \in Cos : \A b : Has(d, b)' <=> Has(d, b)
          /\ \A a : Acked(a) => Acked(a)'
      BY <1>c, <1>d, <2>2, SameReceived
    <2>7. OnTheWay'
      BY <1>c, <1>d, <2>1, <2>2, <2>6 DEF Alone, OnTheWay, Carries
    <2>8. Delivered'
      BY <1>a, <1>b, <1>c, <1>d, <2>1, <2>2, <2>6 DEF Alone, Delivered, MayWrite
    <2> QED BY <2>1, <2>4, <2>5, <2>6, <2>7, <2>8 DEF Alone
  <1> QED BY <1>1, <1>2, <1>3, <1>4, <1>5, <1>6 DEF RelayInv, Shared

-----------------------------------------------------------------------------
\* ---- The end of a coroutine, and of the session ---------------------------

\* Closing the server changes its state and the end of its stream, nothing else.
LEMMA Shuts ==
  ASSUME NEW s \in [Cos -> ServerEnds], writer \in Cos \cup {0}
  PROVE  /\ Shut(s) \in [Cos -> ServerEnds]
         /\ writer = 0 => Shut(s) = s
         /\ writer # 0 => Shut(s)[writer].state = "closed"
         /\ \A d \in Cos : /\ Shut(s)[d].rcvd = s[d].rcvd /\ Shut(s)[d].buf = s[d].buf
                           /\ Shut(s)[d].fault = s[d].fault
                           /\ s[d].eof => Shut(s)[d].eof
                           /\ d # writer => Shut(s)[d] = s[d]
  <1>1. CASE writer = 0 \/ s[writer].state = "closed"
    <2>1. Shut(s) = s
      BY <1>1 DEF Shut
    <2> QED BY <1>1, <2>1
  <1>2. CASE ~(writer = 0 \/ s[writer].state = "closed")
    <2>1. /\ Shut(s) = [s EXCEPT ![writer].state = "closed", ![writer].eof = TRUE]
          /\ writer \in Cos /\ writer # 0
      BY <1>2 DEF Shut
    <2>2. s[writer] \in ServerEnds
      BY <2>1
    <2>3. Shut(s)[writer] = [s[writer] EXCEPT !.state = "closed", !.eof = TRUE]
      BY <2>1
    <2>4. \A d \in Cos : d # writer => Shut(s)[d] = s[d]
      BY <2>1
    <2>5. /\ Shut(s)[writer] \in ServerEnds
          /\ Shut(s)[writer].state = "closed" /\ Shut(s)[writer].eof
          /\ Shut(s)[writer].rcvd = s[writer].rcvd /\ Shut(s)[writer].buf = s[writer].buf
          /\ Shut(s)[writer].fault = s[writer].fault
      BY <2>2, <2>3 DEF ServerEnds
    <2>6. DOMAIN Shut(s) = Cos /\ Shut(s) = [d \in Cos |-> Shut(s)[d]]
      BY <2>1
    <2>7. Shut(s) \in [Cos -> ServerEnds]
      BY <2>4, <2>5, <2>6
    <2> QED BY <2>1, <2>4, <2>5, <2>7
  <1> QED BY <1>1, <1>2

\* When QEMU is gone or the server has failed, a coroutine that ends and a server
\* that is closed disturb nothing else.
LEMMA EndKeeps ==
  ASSUME RelayInv,
         UNCHANGED <<qemu_up, connVars, rd, srv_sent, down, fwVars>>,
         \/ session' = session /\ up' = up /\ (srv' = srv \/ srv' = Shut(srv))
         \/ ~qemu_up /\ session' = "ended" /\ up' = <<>> /\ srv' = Shut(srv),
         co' \in [Cos -> Places],
         seg' \in [Cos -> Segs],
         \A d \in Cos : (co'[d] = "ended" /\ in_table) \/ (co'[d] = co[d] /\ seg'[d] = seg[d]),
         qemu_up /\ Sole /\ writer # 0 => srv[writer].fault # "none" /\ co[writer] # "drain"
  PROVE  RelayInv'
  <1> USE DEF connVars, fwVars
  <1>a. /\ srv \in [Cos -> ServerEnds] /\ writer \in Cos \cup {0}
        /\ srv' \in [Cos -> ServerEnds]
        /\ writer = 0 => srv' = srv
        /\ srv' = Shut(srv) /\ writer # 0 => srv'[writer].state = "closed"
        /\ writer # 0 => srv'[writer].state \in {srv[writer].state, "closed"}
        /\ \A d \in Cos : /\ srv'[d].rcvd = srv[d].rcvd /\ srv'[d].buf = srv[d].buf
                          /\ srv'[d].fault = srv[d].fault
                          /\ srv[d].eof => srv'[d].eof
                          /\ d # writer => srv'[d] = srv[d]
    BY Servers, Shuts DEF RelayInv
  <1>b. /\ ~qemu_up => fw = "over"
        /\ up \in Seq(FwSegs)
        /\ up' = up \/ (up' = <<>> /\ Len(up') = 0)
        /\ up' \in Seq(FwSegs)
        /\ session' \in {"read", "other", "ended"}
        /\ session' = "ended" => ~qemu_up /\ up' = <<>>
    <2>1. <<>> \in Seq(FwSegs) /\ Len(<<>>) = 0
      OBVIOUS
    <2> QED BY <2>1 DEF RelayInv, Shared, RelayTypeOK, Sessions
  <1>c. \A d \in Cos : /\ srv'[d].state = "none" <=> srv[d].state = "none"
                       /\ srv[d].state = "none" => srv'[d] = srv[d]
                       /\ srv'[d].state = "open" => srv[d].state = "open"
    <2>1. writer # 0 => srv[writer].state # "none"
      BY DEF RelayInv, Shared, Roles
    <2> QED BY <1>a, <2>1
  <1>d. \A d \in Cos : /\ Sending(d)' => Sending(d) /\ seg'[d] = seg[d] /\ co'[d] = co[d]
                       /\ co'[d] # "ended" => co'[d] = co[d] /\ seg'[d] = seg[d]
    BY DEF Sending
  <1>1. RelayTypeOK'
    BY <1>a, <1>b DEF RelayInv, Shared, RelayTypeOK, ServerEnds, Places
  <1>2. Roles'
    <2>1. Roles
      BY DEF RelayInv, Shared
    <2> QED BY <1>a, <1>c, <1>d, <2>1 DEF Roles
  <1>3. Attempts'
    BY KeepsAttempts DEF RelayInv, Shared
  <1>4. Sessions'
    <2>1. Sessions /\ Roles
      BY DEF RelayInv, Shared
    <2>2. \A d \in Cos : co'[d] # "none" => in_table
      BY <2>1 DEF Sessions
    <2>3. session' = "ended" => \A d \in Cos : srv'[d].state = "open" => writer \notin {0, d}
      <3>1. CASE session' = session /\ up' = up
        BY <1>c, <2>1, <3>1 DEF Sessions, NothingSurvivesSession
      <3>2. CASE srv' = Shut(srv)
        BY <1>a, <1>c, <2>1, <3>2 DEF Roles
      <3> QED BY <3>1, <3>2
    <2> QED BY <1>b, <2>1, <2>2, <2>3 DEF Sessions, NothingSurvivesSession
  <1>5. Limits'
    <2>1. Limits /\ (\A a : Reach(a)' <=> Reach(a)) /\ MayWrite' = MayWrite
      BY DEF RelayInv, Shared, Reach, MayWrite
    <2>2. \A d \in Cos : Sending(d)' => Reach(seg'[d].ack)
      BY <1>d, <2>1 DEF Limits
    <2> QED BY <1>b, <2>1, <2>2 DEF Limits
  <1>6. ASSUME Sole' PROVE Alone'
    <2>1. Sole /\ Alone /\ Shared
      BY <1>c, <1>6, SoleBefore DEF RelayInv
    <2>2. Numbers'
      <3>1. /\ Numbers /\ (\A s : Sound(s)' <=> Sound(s)) /\ (\A s : Size(s)' = Size(s))
            /\ \A h, i : Before(h, i)' <=> Before(h, i)
        BY <2>1 DEF Alone, Sound, Size, Before
      <3>2. qemu_up => Written' = Written
        BY <1>a, <1>d, <2>1 DEF Written, Size
      <3>3. \A i \in 1..Len(down) :
               down[i].kind = "FIN" => writer # 0 /\ srv'[writer].eof /\ down[i].seq = srv_sent + 1
        BY <1>a, <3>1 DEF Numbers
      <3>4. /\ \A d \in Cos : Sending(d)' => Sound(seg'[d])
            /\ writer # 0 /\ Sending(writer)' => seg'[writer].seq = fw_seq
        BY <1>a, <1>d, <3>1 DEF Numbers
      <3> QED BY <3>1, <3>2, <3>3, <3>4 DEF Numbers
    <2>3. Stream'
      <3> SUFFICES ASSUME writer # 0, co'[writer] # "ended" PROVE Stream'
        BY DEF Stream
      <3>1. Stream /\ co'[writer] = co[writer] /\ seg'[writer] = seg[writer] /\ writer \in Cos
        BY <1>a, <1>d, <2>1 DEF Alone
      <3>2. After(writer)' = After(writer) /\ (Sending(writer)' <=> Sending(writer))
        BY <3>1 DEF After, Size, Sending
      <3> QED BY <1>a, <3>1, <3>2 DEF Stream
    <2>4. /\ InOrder => InOrder'
          /\ \A d \in Cos : \A b : Has(d, b)' <=> Has(d, b)
          /\ writer \in Cos => \A a : Acked(a) => Acked(a)'
      BY <1>a, SameReceived
    <2>5. OnTheWay'
      <3> SUFFICES ASSUME writer # 0, srv'[writer].state # "closed" PROVE OnTheWay'
        BY DEF OnTheWay
      <3>1. up' = up /\ srv' = srv
        BY <1>a
      <3> QED BY <2>1, <3>1, KeepsOnTheWay DEF Alone
    <2>6. Delivered'
      <3> SUFFICES ASSUME writer # 0, srv[writer].fault = "none" PROVE Delivered'
        BY <1>a DEF Delivered
      <3>1. ~qemu_up /\ writer \in Cos
        BY <1>a, <2>1
      <3> QED BY <2>1, <2>4, <3>1 DEF Alone, Delivered
    <2> QED BY <2>1, <2>2, <2>3, <2>4, <2>5, <2>6 DEF Alone
  <1> QED BY <1>1, <1>2, <1>3, <1>4, <1>5, <1>6 DEF RelayInv, Shared

LEMMA SendFailsKeeps ==
  ASSUME RelayInv, NEW c \in Cos, SendFails(c) PROVE RelayInv'
  <1> USE DEF SendFails
  <1>1. NoSeg \in Segs
    <2>1. <<>> \in Seq(1..ServerMax) /\ 0 \in Nat /\ 0 \in 0..(DataMax + 2)
      BY Bounds
    <2> QED BY <2>1 DEF NoSeg, Segs
  <1>2. /\ co' \in [Cos -> Places]
        /\ seg' \in [Cos -> Segs]
        /\ in_table
        /\ \A d \in Cos : (co'[d] = "ended" /\ in_table) \/ (co'[d] = co[d] /\ seg'[d] = seg[d])
    <2>1. in_table
      BY DEF RelayInv, Shared, Sessions
    <2>2. co \in [Cos -> Places] /\ seg \in [Cos -> Segs]
      BY Servers DEF RelayInv
    <2>3. co' = [co EXCEPT ![c] = "ended"] /\ seg' = [seg EXCEPT ![c] = NoSeg]
      OBVIOUS
    <2>4. co' \in [Cos -> Places]
      BY ONLY <2>2, <2>3 DEF Places
    <2>5. seg' \in [Cos -> Segs]
      BY ONLY <1>1, <2>2, <2>3
    <2>6. \A d \in Cos : co'[d] = "ended" \/ (co'[d] = co[d] /\ seg'[d] = seg[d])
      BY ONLY <2>2, <2>3
    <2> QED BY <2>1, <2>4, <2>5, <2>6
  <1> QED BY <1>2, EndKeeps

LEMMA ReadRaisesKeeps ==
  ASSUME RelayInv, NEW c \in Cos, ReadRaises(c) PROVE RelayInv'
  <1>1. /\ co[c] = "read" /\ srv[rd[c]].fault = "told" /\ srv' = Shut(srv)
        /\ co' = [co EXCEPT ![c] = "ended"] /\ seg' = seg
        /\ UNCHANGED <<qemu_up, up, session, connVars, rd, srv_sent, down, fwVars>>
    BY DEF ReadRaises
  <1>2. /\ co' \in [Cos -> Places] /\ seg' \in [Cos -> Segs]
        /\ in_table
        /\ \A d \in Cos : co'[d] = "ended" \/ co'[d] = co[d]
    BY <1>1, Servers DEF RelayInv, Shared, Sessions, Places
  <1>3. Sole /\ writer # 0 => srv[writer].fault # "none" /\ co[writer] # "drain"
    <2> SUFFICES ASSUME Sole, writer # 0 PROVE srv[writer].fault # "none" /\ co[writer] # "drain"
      OBVIOUS
    <2>1. c = writer /\ rd[c] = writer
      BY <1>1, OneOnly DEF RelayInv
    <2> QED BY <1>1, <2>1
  <1> QED BY <1>1, <1>2, <1>3, EndKeeps

LEMMA SessionEndKeeps == RelayInv /\ SessionEnd => RelayInv'
  <1> SUFFICES ASSUME RelayInv, SessionEnd PROVE RelayInv'
    OBVIOUS
  <1> USE DEF SessionEnd, connVars, fwVars
  <1>1. srv' = Shut(srv)
    <2>1. CASE in_table
      BY <2>1 DEF Close
    <2>2. CASE ~in_table
      <3>1. writer = 0
        BY <2>2, Servers DEF RelayInv, Shared, Sessions, Roles
      <3> QED BY <2>2, <3>1 DEF Shut
    <2> QED BY <2>1, <2>2
  <1>2. /\ co' \in [Cos -> Places]
        /\ seg' \in [Cos -> Segs]
        /\ \A d \in Cos : (co'[d] = "ended" /\ in_table) \/ (co'[d] = co[d] /\ seg'[d] = seg[d])
    BY DEF Close, RelayInv, Shared, RelayTypeOK, Places
  <1> QED BY <1>1, <1>2, EndKeeps

\* While no connection has been opened there is none.
LEMMA NoneOpened ==
  Shared /\ writer = 0 => Sole
  BY DEF Shared, Roles, Sole

LEMMA DrainedKeeps ==
  ASSUME RelayInv, NEW c \in Cos, Drained(c) PROVE RelayInv'
  <1> USE DEF Drained, Sent, connVars, fwVars
  <1>a. /\ NoSeg \in Segs
        /\ seg[c] \in Segs
        /\ writer \in Cos \cup {0} /\ writer \in 0..ConnMax
        /\ srv \in [Cos -> ServerEnds]
        /\ c \in 0..ConnMax /\ 0 \in 0..ConnMax
    <2>1. <<>> \in Seq(1..ServerMax) /\ 0 \in Nat /\ 0 \in 0..(DataMax + 2)
      BY Bounds
    <2>2. NoSeg \in Segs
      BY <2>1 DEF NoSeg, Segs
    <2> QED BY <2>2, Servers, Bounds, Sizes DEF RelayInv
  <1>b. /\ co[c] = "drain" /\ Sending(c)
        /\ co' \in [Cos -> Places]
        /\ co'[c] = (IF Done(c) THEN "ended" ELSE "read")
        /\ rd' \in [Cos -> 0..ConnMax] /\ (~Done(c) => rd'[c] = writer)
        /\ seg' \in [Cos -> Segs]
        /\ task' \in 0..ConnMax
        /\ \A d \in Cos : d # c => co'[d] = co[d] /\ rd'[d] = rd[d] /\ seg'[d] = seg[d]
        /\ ~Sending(c)' /\ \A d \in Cos : d # c => (Sending(d)' <=> Sending(d))
    BY <1>a DEF RelayInv, Shared, RelayTypeOK, Places, Sending
  <1>c. /\ fw_seq \in Nat /\ Size(seg[c]) \in Nat /\ fw_seq' = fw_seq + Size(seg[c])
        /\ fw_seq' \in Nat
    <2>1. fw_seq \in Nat
      BY DEF RelayInv, Shared, RelayTypeOK
    <2>2. Size(seg[c]) \in Nat
      BY <1>a, Sizes
    <2> QED BY <2>1, <2>2
  <1>d. /\ srv' = (IF Done(c) /\ seg[c].kind # "RST" THEN Shut(srv) ELSE srv)
        /\ UNCHANGED <<qemu_up, up, session, in_table, connected, fw_ack, writer, srv_sent,
                       down, fwVars>>
        /\ seg[c].kind = "RST" => Done(c)
    <2>1. seg[c].kind = "RST" => Done(c)
      BY DEF Done
    <2> QED BY <2>1
  <1>e. /\ seg[c].kind = "RST" <=> srv[c].state = "none"
        /\ seg[c].kind # "RST" => writer # 0 /\ writer \in Cos
    BY <1>a, <1>b DEF RelayInv, Shared, Roles
  <1> HIDE DEF Drained
  <1>f. /\ srv' \in [Cos -> ServerEnds]
        /\ writer = 0 => srv' = srv
        /\ srv' = Shut(srv) /\ writer # 0 => srv'[writer].state = "closed"
        /\ \A d \in Cos : /\ srv'[d].rcvd = srv[d].rcvd /\ srv'[d].buf = srv[d].buf
                          /\ srv'[d].fault = srv[d].fault
                          /\ srv[d].eof => srv'[d].eof
                          /\ d # writer => srv'[d] = srv[d]
        /\ writer # 0 => srv'[writer].state \in {srv[writer].state, "closed"}
    <2>1. /\ Shut(srv) \in [Cos -> ServerEnds]
          /\ writer = 0 => Shut(srv) = srv
          /\ writer # 0 => Shut(srv)[writer].state = "closed"
          /\ \A d \in Cos : /\ Shut(srv)[d].rcvd = srv[d].rcvd /\ Shut(srv)[d].buf = srv[d].buf
                            /\ Shut(srv)[d].fault = srv[d].fault
                            /\ srv[d].eof => Shut(srv)[d].eof
                            /\ d # writer => Shut(srv)[d] = srv[d]
      BY <1>a, Shuts
    <2>2. srv' = srv \/ srv' = Shut(srv)
      BY <1>d
    <2> QED BY ONLY <1>a, <2>1, <2>2
  <1>g. \A d \in Cos : /\ srv'[d].state = "none" <=> srv[d].state = "none"
                       /\ srv[d].state = "none" => srv'[d] = srv[d]
                       /\ srv'[d].state = "open" => srv[d].state = "open"
    <2>1. writer # 0 => srv[writer].state # "none"
      BY DEF RelayInv, Shared, Roles
    <2> QED BY ONLY <1>a, <1>f, <2>1
  <1>1. RelayTypeOK'
    <2>1. RelayTypeOK
      BY DEF RelayInv, Shared
    <2>2. srv' \in [Cos -> [state : {"none", "open", "late", "closed"}, eof : BOOLEAN,
                            fault : {"none", "lost", "told"},
                            buf : Seq(1..ServerMax), rcvd : Seq(1..DataMax)]]
      BY <1>f DEF ServerEnds
    <2> QED BY ONLY <1>b, <1>c, <1>d, <2>1, <2>2 DEF RelayTypeOK, Places, fwVars
  <1>2. Roles'
    <2>1. Roles
      BY DEF RelayInv, Shared
    <2>2. \A d \in Cos : srv'[d].state = "none" =>
             /\ srv'[d] = Untouched /\ co'[d] # "read"
             /\ Sending(d)' => seg'[d].kind = "RST"
      BY <1>b, <1>d, <1>e, <1>g, <2>1 DEF Roles
    <2>3. \A d \in Cos : srv'[d].state # "none" =>
             /\ writer # 0 /\ co'[d] \in {"send", "drain", "read", "ended"}
             /\ Sending(d)' => seg'[d].kind \in {"SYNACK", "DATA", "FIN"}
      BY <1>b, <1>g, <2>1 DEF Roles
    <2>4. writer # 0 => srv'[writer].state # "none"
      BY <1>a, <1>g, <2>1 DEF Roles
    <2>5. \A d \in Cos : co'[d] = "read" => rd'[d] \in Cos /\ srv'[rd'[d]].state # "none"
      <3>1. co'[c] = "read" => rd'[c] = writer /\ writer # 0 /\ writer \in Cos
        BY <1>b, <1>d, <1>e
      <3>2. \A d \in Cos : d # c /\ co'[d] = "read" => rd'[d] = rd[d] /\ co[d] = "read"
        BY <1>b
      <3> QED BY <1>g, <2>1, <2>4, <3>1, <3>2 DEF Roles
    <2> QED BY <1>d, <2>1, <2>2, <2>3, <2>4, <2>5 DEF Roles
  <1>3. Attempts'
    <2> SUFFICES ASSUME writer = 0 PROVE Attempts'
      BY <1>d DEF Attempts
    <2>1. seg[c].kind = "RST" /\ seg[c].data = <<>> /\ Len(<<>>) = 0
      BY <1>b, <1>e, NoneOpened DEF RelayInv, Alone, Numbers, Sound
    <2>2. Size(seg[c]) = 0
      BY <2>1 DEF Size
    <2> QED BY <1>c, <1>d, <2>2 DEF RelayInv, Shared, Attempts
  <1>4. Sessions'
    <2>1. Sessions
      BY DEF RelayInv, Shared
    <2>2. \A d \in Cos : co'[d] # "none" => in_table
      BY <1>b, <2>1 DEF Sessions
    <2> QED BY <1>d, <1>g, <2>1, <2>2 DEF Sessions, NothingSurvivesSession
  <1>5. Limits'
    BY <1>b, <1>d DEF RelayInv, Shared, Limits, Reach, MayWrite
  <1>6. ASSUME Sole', srv[c].state = "none" PROVE Alone'
    <2>1. Sole /\ Alone /\ Shared
      BY <1>g, <1>6, SoleBefore DEF RelayInv
    <2>2. /\ srv' = srv /\ co'[c] = "ended" /\ seg[c].kind = "RST"
          /\ writer # 0 => c # writer /\ writer \in Cos
      BY <1>a, <1>b, <1>d, <1>e, <1>6 DEF RelayInv, Shared, Roles
    <2>3. fw_seq' = fw_seq
      <3>1. seg[c].data = <<>> /\ Len(<<>>) = 0
        BY <1>b, <2>1, <2>2 DEF Alone, Numbers, Sound
      <3>2. Size(seg[c]) = 0
        BY <2>2, <3>1 DEF Size
      <3> QED BY <1>c, <3>2
    <2>4. Numbers'
      <3>1. /\ Written' = Written
            /\ \A s : Sound(s)' <=> Sound(s)
            /\ \A s : Size(s)' = Size(s)
            /\ \A h, i : Before(h, i)' <=> Before(h, i)
        BY <1>b, <1>d, <2>2, <2>3 DEF Written, Sound, Size, Before
      <3> QED BY <1>b, <1>d, <2>1, <2>2, <2>3, <3>1 DEF Alone, Numbers
    <2>5. Stream'
      <3>1. writer # 0 => After(writer)' = After(writer)
        BY <1>b, <1>d, <2>2, <2>3 DEF After, Size
      <3> QED BY <1>b, <1>d, <2>1, <2>2, <2>3, <3>1 DEF Alone, Stream
    <2>6. OnTheWay'
      BY <1>d, <2>1, <2>2, KeepsOnTheWay DEF Alone
    <2>7. Delivered'
      BY <1>b, <1>d, <2>1, <2>2 DEF Alone, Delivered, Acked, Has, MayWrite
    <2>8. InOrder'
      BY <2>1, <2>2 DEF Alone, InOrder
    <2> QED BY <2>4, <2>5, <2>6, <2>7, <2>8 DEF Alone
  <1>7. ASSUME Sole', srv[c].state # "none" PROVE Alone'
    <2>1. Sole /\ Alone /\ Shared
      BY <1>g, <1>7, SoleBefore DEF RelayInv
    <2>2. /\ c = writer /\ writer # 0 /\ writer \in Cos
          /\ seg[writer].kind \in {"SYNACK", "DATA", "FIN"}
          /\ \A d \in Cos : d # c => co[d] # "read"
      BY <1>b, <1>e, <1>7, <2>1, OneOnly
    <2>3. Done(c) <=> seg[writer].kind = "FIN"
      BY <2>2 DEF Done
    <2>4. /\ co'[writer] = (IF seg[writer].kind = "FIN" THEN "ended" ELSE "read")
          /\ seg[writer].kind = "FIN" => srv'[writer].state = "closed"
          /\ seg[writer].kind # "FIN" => srv' = srv
      BY <1>b, <1>d, <1>f, <2>2, <2>3
    <2>5. /\ Written = fw_seq' /\ Written' = fw_seq' /\ After(writer) = fw_seq'
      BY <1>b, <1>c, <1>d, <2>2, <2>4 DEF Written, After
    <2>6. Numbers'
      <3>1. /\ \A s : Sound(s)' <=> Sound(s)
            /\ \A s : Size(s)' = Size(s)
            /\ \A h, i : Before(h, i)' <=> Before(h, i)
        BY <1>d DEF Sound, Size, Before
      <3> QED BY <1>b, <1>d, <1>f, <2>1, <2>2, <2>5, <3>1 DEF Alone, Numbers
    <2>7. Stream'
      <3>1. CASE seg[writer].kind = "FIN"
        BY <1>d, <2>4, <3>1 DEF Stream
      <3>2. CASE seg[writer].kind # "FIN"
        <4>1. /\ fw_seq' + Len(srv[writer].buf) = srv_sent + 1
              /\ \A j \in 1..Len(srv[writer].buf) : srv[writer].buf[j] = fw_seq' + j - 1
          BY <1>b, <2>1, <2>2, <2>5, <3>2 DEF Alone, Stream
        <4>2. After(writer)' = fw_seq'
          BY <1>b, <1>c, <1>d, <2>2 DEF After
        <4> QED BY <1>b, <1>d, <2>2, <2>4, <3>2, <4>1, <4>2 DEF Stream
      <3> QED BY <3>1, <3>2
    <2>8. /\ InOrder => InOrder'
          /\ \A d \in Cos : \A b : Has(d, b)' <=> Has(d, b)
          /\ \A a : Acked(a) => Acked(a)'
      BY <1>d, <1>f, <2>2, SameReceived
    <2>9. OnTheWay'
      BY <1>d, <1>f, <2>1, <2>2, <2>8 DEF Alone, OnTheWay, Carries
    <2>10. Delivered'
      <3>1. CASE seg[writer].kind = "FIN"
        BY <1>d, <1>f, <2>1, <2>2, <2>4, <2>8, <3>1 DEF Alone, Delivered
      <3>2. CASE seg[writer].kind # "FIN"
        BY <1>b, <1>d, <2>1, <2>2, <2>4, <2>8, <3>2 DEF Alone, Delivered, MayWrite
      <3> QED BY <3>1, <3>2
    <2> QED BY <2>1, <2>6, <2>7, <2>8, <2>9, <2>10 DEF Alone
  <1> QED BY <1>1, <1>2, <1>3, <1>4, <1>5, <1>6, <1>7 DEF RelayInv, Shared

-----------------------------------------------------------------------------
\* ---- The firmware -----------------------------------------------------------

\* A segment the firmware emits behind those on their way: what its numbers must be
\* for the invariant to hold after it.
LEMMA EmitKeeps ==
  ASSUME RelayInv, qemu_up, NEW m \in FwSegs, up' = Append(up, m),
         UNCHANGED <<qemu_up, session, connVars, coVars, serverVars, down>>,
         fw' \in {"closed", "syn_sent", "estab", "fin_sent", "over"},
         writer = 0 => wrote' = wrote /\ fw' \in {"closed", "syn_sent", "over"},
         MayWrite' => MayWrite,
         wrote' \in {wrote, wrote + 1}, wrote' \in 0..DataMax,
         una' \in 0..(DataMax + 2), taken' \in 0..Len(down),
         odd' \in 0..OddMax, lost' \in BOOLEAN,
         m.syn => m.seq = 0 /\ m.n = 0 /\ ~m.fin,
         m.seq + m.n <= wrote' + 2, MayWrite' => m.seq + m.n <= wrote' + 1,
         m.n = 1 => m.seq \in 1..wrote',
         m.fin => m.seq + m.n = wrote' + 1 /\ ~MayWrite',
         wrote' = wrote + 1 => MayWrite /\ Carries(m, wrote + 1)
  PROVE  RelayInv'
  <1> USE DEF connVars, coVars, serverVars
  <1>a. /\ up \in Seq(FwSegs) /\ up' \in Seq(FwSegs)
        /\ Len(up) \in Nat /\ Len(up') = Len(up) + 1
        /\ up'[Len(up) + 1] = m
        /\ \A i \in 1..Len(up) : up'[i] = up[i]
        /\ wrote \in Nat /\ wrote' \in Nat
    <2>1. up \in Seq(FwSegs) /\ wrote \in 0..DataMax
      BY DEF RelayInv, Shared, RelayTypeOK
    <2>2. /\ Append(up, m) \in Seq(FwSegs) /\ Len(up) \in Nat
          /\ Len(Append(up, m)) = Len(up) + 1 /\ Append(up, m)[Len(up) + 1] = m
          /\ \A i \in 1..Len(up) : Append(up, m)[i] = up[i]
      BY <2>1
    <2>3. wrote \in Nat /\ wrote' \in Nat
      BY <2>1, Bounds
    <2> QED BY <2>1, <2>2, <2>3
  <1>b. \A i \in 1..Len(up') : i = Len(up) + 1 \/ i \in 1..Len(up)
    BY ONLY <1>a
  <1>c. \A b \in 1..wrote' : b \in 1..wrote \/ (b = wrote + 1 /\ wrote' = wrote + 1)
    BY <1>a
  <1>d. \A b \in 1..wrote : b \in 1..wrote'
    BY <1>a
  <1>1. RelayTypeOK'
    BY <1>a DEF RelayInv, Shared, RelayTypeOK
  <1>2. Roles'
    BY KeepsRoles DEF RelayInv, Shared
  <1>3. Attempts'
    BY DEF RelayInv, Shared, Attempts
  <1>4. Sessions'
    BY DEF RelayInv, Shared, Sessions, NothingSurvivesSession
  <1>r. \A a \in Int : Reach(a) => Reach(a)'
    <2>1. CASE wrote' = wrote
      BY <2>1 DEF Reach
    <2>2. CASE wrote' = wrote + 1
      <3>1. \A a \in Int : Reach(a) => a <= wrote + 1
        BY <2>2 DEF Reach
      <3>2. \A a \in Int : a <= wrote + 1 => a <= wrote' + 2 /\ a <= wrote' + 1
        BY <1>a, <2>2
      <3> QED BY <3>1, <3>2 DEF Reach
    <2> QED BY <2>1, <2>2
  <1>s. /\ \A i \in 1..Len(up) : up[i].seq + up[i].n \in Int /\ up[i].seq \in Int
        /\ fw_ack \in Int
        /\ \A d \in Cos : seg[d].ack \in Int
        /\ \A i \in 1..Len(down) : down[i].ack \in Int
    <2>1. \A s \in FwSegs : s.seq + s.n \in Int /\ s.seq \in Int
      BY Bounds DEF FwSegs
    <2>2. \A s \in Segs : s.ack \in Int
      BY Bounds DEF Segs
    <2>3. fw_ack \in 0..(DataMax + 2) /\ down \in Seq(Segs) /\ seg \in [Cos -> Segs]
      BY DEF RelayInv, Shared, RelayTypeOK
    <2> QED BY <1>a, <2>1, <2>2, <2>3, Bounds
  <1>5. Limits'
    <2>1. Limits
      BY DEF RelayInv, Shared
    <2>2. Reach(fw_ack)'
      BY <1>r, <1>s, <2>1 DEF Limits
    <2>3. (\A d \in Cos : Sending(d) => Reach(seg[d].ack))'
      BY <1>r, <1>s, <2>1 DEF Limits, Sending
    <2>4. (\A i \in 1..Len(down) : Reach(down[i].ack))'
      BY <1>r, <1>s, <2>1 DEF Limits
    <2>5. ASSUME NEW i \in 1..Len(up')
          PROVE  /\ up'[i].seq + up'[i].n <= wrote' + 2
                 /\ MayWrite' => up'[i].seq + up'[i].n <= wrote' + 1
                 /\ up'[i].n = 1 => up'[i].seq \in 1..wrote'
                 /\ up'[i].fin => up'[i].seq + up'[i].n = wrote' + 1 /\ ~MayWrite'
                 /\ up'[i].syn => up'[i].seq = 0 /\ up'[i].n = 0 /\ ~up'[i].fin
      <3>1. CASE i = Len(up) + 1
        BY <1>a, <3>1
      <3>2. CASE i \in 1..Len(up)
        <4>1. /\ Reach(up[i].seq + up[i].n)
              /\ up[i].n = 1 => up[i].seq \in 1..wrote
              /\ up[i].fin => up[i].seq + up[i].n = wrote + 1 /\ ~MayWrite
              /\ up[i].syn => up[i].seq = 0 /\ up[i].n = 0 /\ ~up[i].fin
          BY <2>1, <3>2 DEF Limits
        <4>2. Reach(up[i].seq + up[i].n)'
          BY <1>r, <1>s, <3>2, <4>1
        <4>3. up'[i] = up[i]
          BY <1>a, <3>2
        <4>4. up'[i].fin => wrote' = wrote
          BY <4>1, <4>3
        <4> QED BY <1>d, <4>1, <4>2, <4>3, <4>4 DEF Reach
      <3> QED BY <1>b, <3>1, <3>2
    <2> QED BY <2>2, <2>3, <2>4, <2>5 DEF Limits, Reach
  <1>6. ASSUME Sole' PROVE Alone'
    <2>1. Alone /\ Shared /\ Sole
      BY <1>6 DEF RelayInv, Sole
    <2>2. Numbers' /\ Stream'
      BY <2>1, KeepsNumbers, KeepsStream DEF Alone
    <2>3. /\ InOrder'
          /\ \A d \in Cos : \A b : Has(d, b)' <=> Has(d, b)
      BY <2>1, SameReceived DEF Alone
    <2>w. writer # 0 => writer \in Cos
      BY <2>1, Servers
    <2>4. ASSUME writer # 0, NEW a \in Int, Reach(a), Acked(a) PROVE Acked(a)'
      <3>1. ASSUME NEW b \in 1..wrote', b < a PROVE b \in 1..wrote
        <4>1. wrote' = wrote + 1 => a <= wrote + 1
          BY <2>4 DEF Reach
        <4> QED BY <1>a, <1>c, <2>4, <3>1, <4>1
      <3> QED BY <2>3, <2>4, <2>w, <3>1 DEF Acked
    <2>5. Delivered'
      <3> SUFFICES ASSUME writer # 0, srv[writer].fault = "none"
                   PROVE  /\ srv[writer].state = "closed" /\ co[writer] # "ended" /\ qemu_up =>
                                ~MayWrite' /\ \A b \in 1..wrote' : Has(writer, b)'
                          /\ co[writer] # "ended" /\ qemu_up => Acked(fw_ack)'
                          /\ co[writer] = "send" /\ qemu_up => Acked(seg[writer].ack)'
                          /\ \A i \in 1..Len(down) : down[i].kind # "RST" => Acked(down[i].ack)'
        BY DEF Delivered, Acked, Has
      <3>1. Delivered /\ Limits
        BY <2>1 DEF Alone, Shared
      <3>2. srv[writer].state = "closed" /\ co[writer] # "ended" /\ qemu_up =>
               ~MayWrite' /\ \A b \in 1..wrote' : Has(writer, b)'
        BY <1>c, <2>3, <2>w, <3>1 DEF Delivered
      <3>3. co[writer] # "ended" /\ qemu_up => Acked(fw_ack)'
        BY <1>s, <2>4, <3>1 DEF Delivered, Limits
      <3>4. co[writer] = "send" /\ qemu_up => Acked(seg[writer].ack)'
        <4>1. co[writer] = "send" => Reach(seg[writer].ack) /\ seg[writer].ack \in Int
          BY <1>s, <2>w, <3>1 DEF Limits, Sending
        <4> QED BY <2>4, <3>1, <4>1 DEF Delivered
      <3>5. \A i \in 1..Len(down) : down[i].kind # "RST" => Acked(down[i].ack)'
        BY <1>s, <2>4, <3>1 DEF Delivered, Limits
      <3> QED BY <3>2, <3>3, <3>4, <3>5
    <2>6. OnTheWay'
      <3>0. OnTheWay /\ Limits
        BY <2>1 DEF Alone, Shared
      <3>1. ASSUME writer # 0, srv[writer].state # "closed", NEW b \in 1..wrote'
            PROVE  Has(writer, b) \/ \E j \in 1..Len(up') : Carries(up'[j], b)
        <4>1. CASE b \in 1..wrote
          <5>1. Has(writer, b) \/ \E j \in 1..Len(up) : Carries(up[j], b)
            BY <3>0, <3>1, <4>1 DEF OnTheWay
          <5>2. \A j \in 1..Len(up) : j \in 1..Len(up') /\ up'[j] = up[j]
            BY <1>a
          <5> QED BY <5>1, <5>2
        <4>2. CASE b = wrote + 1 /\ wrote' = wrote + 1
          <5>1. Carries(up'[Len(up) + 1], b) /\ Len(up) + 1 \in 1..Len(up')
            BY <1>a, <4>2
          <5> QED BY <5>1
        <4> QED BY <1>c, <4>1, <4>2
      <3>2. ASSUME writer # 0, srv[writer].state # "closed",
                   NEW i \in 1..Len(up'), NEW b \in 1..wrote',
                   b < up'[i].seq + up'[i].n
            PROVE  Has(writer, b) \/ \E j \in 1..Len(up') : j <= i /\ Carries(up'[j], b)
        <4>1. CASE i = Len(up) + 1
          <5>1. \A j \in 1..Len(up') : j <= i
            BY <1>a, <4>1
          <5> QED BY <3>1, <3>2, <5>1
        <4>2. CASE i \in 1..Len(up)
          <5>1. up'[i] = up[i] /\ b < up[i].seq + up[i].n
            BY <1>a, <3>2, <4>2
          <5>2. b \in 1..wrote
            <6>1. wrote' = wrote + 1 => up[i].seq + up[i].n <= wrote + 1
              BY <3>0, <4>2 DEF Limits, Reach
            <6> QED BY <1>a, <1>c, <1>s, <4>2, <5>1, <6>1
          <5>3. Has(writer, b) \/ \E j \in 1..Len(up) : j <= i /\ Carries(up[j], b)
            BY <3>0, <3>2, <4>2, <5>1, <5>2 DEF OnTheWay
          <5>4. \A j \in 1..Len(up) : j \in 1..Len(up') /\ up'[j] = up[j]
            BY <1>a
          <5> QED BY <5>3, <5>4
        <4> QED BY <1>b, <4>1, <4>2
      <3>3. \A b : Has(writer, b)' <=> Has(writer, b)
        BY DEF Has
      <3> QED BY <3>1, <3>2, <3>3 DEF OnTheWay, Carries
    <2> QED BY <2>2, <2>3, <2>5, <2>6 DEF Alone
  <1> QED BY <1>1, <1>2, <1>3, <1>4, <1>5, <1>6 DEF RelayInv, Shared

LEMMA FirmwareKeeps == RelayInv /\ Firmware => RelayInv'
  <1> SUFFICES ASSUME RelayInv, Firmware PROVE RelayInv'
    OBVIOUS
  <1>u. qemu_up /\ UNCHANGED <<qemu_up, session, connVars, coVars, serverVars, down>>
    BY DEF Firmware
  <1>t. /\ wrote \in 0..DataMax /\ DataMax \in Nat /\ una \in 0..(DataMax + 2)
        /\ taken \in 0..Len(down) /\ Len(down) \in Nat /\ down \in Seq(Segs)
        /\ fw \in {"closed", "syn_sent", "estab", "fin_sent", "over"}
        /\ wrote \in Nat /\ taken \in Nat
        /\ odd \in 0..OddMax /\ OddMax \in Nat /\ lost \in BOOLEAN
    BY Bounds DEF RelayInv, Shared, RelayTypeOK
  <1>r. \A q \in 0..(DataMax + 2) : \A n \in {0, 1} : \A fin \in BOOLEAN :
           /\ FwSeg(q, n, fin) \in FwSegs
           /\ FwSeg(q, n, fin).seq = q /\ FwSeg(q, n, fin).n = n
           /\ FwSeg(q, n, fin).fin = fin /\ FwSeg(q, n, fin).syn = FALSE
    BY DEF FwSegs, FwSeg
  <1>s. Rst \in FwSegs /\ Rst.seq = wrote + 1 /\ Rst.n = 0 /\ ~Rst.fin /\ ~Rst.syn
    <2>1. wrote + 1 \in 0..(DataMax + 2)
      BY <1>t
    <2> QED BY <2>1 DEF FwSegs, FwSeg, Rst
  <1>p. /\ FwSeg(wrote + 1, 0, FALSE) \in FwSegs /\ FwSeg(wrote + 1, 0, FALSE).seq = wrote + 1
        /\ FwSeg(wrote + 1, 0, FALSE).n = 0 /\ ~FwSeg(wrote + 1, 0, FALSE).fin
        /\ ~FwSeg(wrote + 1, 0, FALSE).syn
        /\ FwSeg(wrote + 2, 0, FALSE) \in FwSegs /\ FwSeg(wrote + 2, 0, FALSE).seq = wrote + 2
        /\ FwSeg(wrote + 2, 0, FALSE).n = 0 /\ ~FwSeg(wrote + 2, 0, FALSE).fin
        /\ ~FwSeg(wrote + 2, 0, FALSE).syn
    <2>1. wrote + 1 \in 0..(DataMax + 2) /\ wrote + 2 \in 0..(DataMax + 2)
      BY <1>t
    <2> QED BY <1>r, <2>1
  <1>w. /\ fw \in {"estab", "fin_sent"} => writer # 0
        /\ writer = 0 => fw \in {"closed", "syn_sent", "over"}
    BY DEF RelayInv, Shared, Attempts
  <1>o. Odd => odd' \in 0..OddMax
    BY <1>t DEF Odd
  <1>v. Over => /\ fw' = "over" /\ una' = 0 /\ taken' = 0 /\ odd' \in 0..OddMax
                /\ lost' \in BOOLEAN
    <2>1. 0 \in 0..OddMax /\ FALSE \in BOOLEAN
      BY <1>t
    <2> QED BY <2>1, Zenon DEF Over
  <1>n. /\ wrote + 1 \in 0..(DataMax + 2) /\ wrote + 2 \in 0..(DataMax + 2)
        /\ 0 \in 0..(DataMax + 2) /\ 0 \in 0..Len(down)
        /\ wrote < DataMax => wrote + 1 \in 0..DataMax /\ wrote + 1 \in 1..(wrote + 1)
        /\ una \in 1..wrote => una + 1 <= wrote + 1 /\ una + 1 <= wrote + 2
        /\ wrote + 1 + 0 <= wrote + 2 /\ wrote + 1 + 0 = wrote + 1
        /\ wrote + 2 + 0 <= wrote + 2
        /\ wrote + 1 + 1 = wrote + 2 /\ wrote + 2 <= (wrote + 1) + 2 /\ wrote + 2 = (wrote + 1) + 1
        /\ wrote + 1 <= wrote + 1
    BY <1>t
  <1>1. CASE FwSyn
    <2>1. /\ up' = Append(up, Syn) /\ fw \in {"closed", "syn_sent"} /\ fw' = "syn_sent"
          /\ UNCHANGED <<wrote, una, taken, lost>> /\ odd' \in 0..OddMax
      BY <1>1, <1>o, <1>t DEF FwSyn, Emit
    <2>2. Syn \in FwSegs /\ Syn.syn /\ Syn.seq = 0 /\ Syn.n = 0 /\ ~Syn.fin
      BY <1>n DEF Syn, FwSeg, FwSegs
    <2>3. MayWrite /\ wrote' # wrote + 1 /\ Syn.n # 1
      BY <1>t, <2>1, <2>2 DEF MayWrite
    <2>4. Syn.seq + Syn.n <= wrote' + 2 /\ Syn.seq + Syn.n <= wrote' + 1
      BY <1>t, <2>1, <2>2
    <2> HIDE DEF Syn
    <2> QED BY <1>u, <1>t, <2>1, <2>2, <2>3, <2>4, EmitKeeps
  <1>2. CASE FwSend
    <2>1. PICK m \in FwSegs :
             /\ up' = Append(up, m) /\ fw = "estab"
             /\ wrote' \in {wrote, wrote + 1} /\ wrote' \in 0..DataMax
             /\ m.n \in {0, 1} /\ m.seq = wrote + 1 /\ ~m.syn
             /\ m.n = 1 => wrote' = wrote + 1
             /\ m.n = 0 => wrote' = wrote
             /\ fw' = (IF m.fin THEN "fin_sent" ELSE "estab")
             /\ UNCHANGED <<una, taken, odd, lost>>
      <3>1. PICK fin \in BOOLEAN :
              \/ /\ wrote < DataMax
                 /\ wrote' = wrote + 1
                 /\ Emit(FwSeg(wrote + 1, 1, fin))
                 /\ fw' = IF fin THEN "fin_sent" ELSE fw
              \/ /\ fin
                 /\ Emit(FwSeg(wrote + 1, 0, TRUE))
                 /\ fw' = "fin_sent"
                 /\ UNCHANGED wrote
        BY <1>2 DEF FwSend
      <3>2. fw = "estab" /\ UNCHANGED <<una, taken, odd, lost>>
        BY <1>2 DEF FwSend
      <3>3. CASE /\ wrote < DataMax
                 /\ wrote' = wrote + 1
                 /\ Emit(FwSeg(wrote + 1, 1, fin))
                 /\ fw' = IF fin THEN "fin_sent" ELSE fw
        <4>1. /\ FwSeg(wrote + 1, 1, fin) \in FwSegs
              /\ FwSeg(wrote + 1, 1, fin).seq = wrote + 1 /\ FwSeg(wrote + 1, 1, fin).n = 1
              /\ FwSeg(wrote + 1, 1, fin).fin = fin /\ ~FwSeg(wrote + 1, 1, fin).syn
          BY <1>r, <1>n
        <4>2. up' = Append(up, FwSeg(wrote + 1, 1, fin))
          BY <3>3 DEF Emit
        <4>3. fw' = (IF FwSeg(wrote + 1, 1, fin).fin THEN "fin_sent" ELSE "estab")
          BY <3>2, <3>3, <4>1
        <4>4. wrote' = wrote + 1 /\ wrote' \in 0..DataMax
          BY <1>n, <3>3
        <4>5. FwSeg(wrote + 1, 1, fin).n = 0 => wrote' = wrote
          BY <4>1
        <4> USE <4>1
        <4> WITNESS FwSeg(wrote + 1, 1, fin) \in FwSegs
        <4> QED BY ONLY <3>2, <4>1, <4>2, <4>3, <4>4, <4>5
      <3>4. CASE /\ fin
                 /\ Emit(FwSeg(wrote + 1, 0, TRUE))
                 /\ fw' = "fin_sent"
                 /\ UNCHANGED wrote
        <4>1. /\ FwSeg(wrote + 1, 0, TRUE) \in FwSegs
              /\ FwSeg(wrote + 1, 0, TRUE).seq = wrote + 1 /\ FwSeg(wrote + 1, 0, TRUE).n = 0
              /\ FwSeg(wrote + 1, 0, TRUE).fin = TRUE /\ ~FwSeg(wrote + 1, 0, TRUE).syn
          BY <1>r, <1>n
        <4>2. up' = Append(up, FwSeg(wrote + 1, 0, TRUE))
          BY <3>4 DEF Emit
        <4>3. fw' = (IF FwSeg(wrote + 1, 0, TRUE).fin THEN "fin_sent" ELSE "estab")
          BY <3>2, <3>4, <4>1
        <4>4. wrote' = wrote /\ wrote' \in 0..DataMax
          BY <1>t, <3>4
        <4>5. FwSeg(wrote + 1, 0, TRUE).n # 1
          <5>1. FwSeg(wrote + 1, 0, TRUE).n = 0
            BY <4>1
          <5>2. 0 # 1
            OBVIOUS
          <5> QED BY ONLY <5>1, <5>2
        <4> USE <4>1
        <4> WITNESS FwSeg(wrote + 1, 0, TRUE) \in FwSegs
        <4> QED BY ONLY <3>2, <4>1, <4>2, <4>3, <4>4, <4>5
      <3> QED BY <3>1, <3>3, <3>4
    <2>2. /\ m.seq + m.n <= wrote' + 2 /\ m.seq + m.n = wrote' + 1
          /\ m.seq + m.n <= wrote' + 1
          /\ m.n = 1 => m.seq \in 1..wrote'
          /\ wrote' = wrote + 1 => m.n = 1
      BY <1>t, <2>1
    <2>3. /\ MayWrite
          /\ m.fin => ~MayWrite'
          /\ fw' \in {"closed", "syn_sent", "estab", "fin_sent", "over"}
      BY <2>1 DEF MayWrite
    <2>4. /\ una' \in 0..(DataMax + 2) /\ taken' \in 0..Len(down)
          /\ odd' \in 0..OddMax /\ lost' \in BOOLEAN /\ writer # 0
      BY <1>t, <1>w, <2>1
    <2>5. wrote' = wrote + 1 => MayWrite /\ Carries(m, wrote + 1)
      BY <2>1, <2>2, <2>3 DEF Carries
    <2> QED BY <1>u, <1>w, <2>1, <2>2, <2>3, <2>4, <2>5, EmitKeeps
  <1>3. CASE FwAbort
    <2>1. /\ writer # 0 /\ up' = Append(up, Rst) /\ fw' = "over" /\ una' = 0 /\ taken' = 0
          /\ odd' \in 0..OddMax /\ lost' \in BOOLEAN /\ wrote' = wrote
      BY <1>3, <1>w, <1>v DEF FwAbort, Emit
    <2>2. ~MayWrite'
      BY <2>1 DEF MayWrite
    <2>3. wrote' # wrote + 1
      BY <1>t, <2>1
    <2> QED BY <1>u, <1>n, <1>s, <1>t, <2>1, <2>2, <2>3, EmitKeeps
  <1>4. CASE FwResend
    <2>1. /\ writer # 0 /\ up' = Append(up, FwSeg(una, 1, FALSE))
          /\ UNCHANGED <<fw, wrote, una, taken, lost>> /\ fw \in {"estab", "fin_sent"}
          /\ una \in 1..wrote /\ odd' \in 0..OddMax
      BY <1>4, <1>w, <1>o DEF FwResend, Emit
    <2>2. /\ FwSeg(una, 1, FALSE) \in FwSegs
          /\ FwSeg(una, 1, FALSE).seq = una /\ FwSeg(una, 1, FALSE).n = 1
          /\ ~FwSeg(una, 1, FALSE).fin /\ ~FwSeg(una, 1, FALSE).syn
      BY <1>r, <1>t
    <2>3. wrote' # wrote + 1 /\ (MayWrite' <=> MayWrite)
      BY <1>t, <2>1 DEF MayWrite
    <2>4. /\ FwSeg(una, 1, FALSE).seq + FwSeg(una, 1, FALSE).n <= wrote' + 2
          /\ FwSeg(una, 1, FALSE).seq + FwSeg(una, 1, FALSE).n <= wrote' + 1
      BY <1>n, <2>1, <2>2
    <2> QED BY <1>u, <1>t, <2>1, <2>2, <2>3, <2>4, EmitKeeps
  <1>5. CASE FwLose
    <2>1. /\ UNCHANGED <<up, fw, wrote, una>> /\ taken' = taken + 1 /\ lost' = TRUE
          /\ odd' \in 0..OddMax /\ taken < Len(down)
      BY <1>5, <1>o DEF FwLose
    <2>2. taken' \in 0..Len(down)
      BY <1>t, <2>1
    <2>3. session' = "ended" => ~qemu_up'
      BY <1>u DEF RelayInv, Shared, Sessions
    <2> QED BY <1>u, <1>t, <2>1, <2>2, <2>3, QuietKeeps
  <1>6. CASE FwTake
    <2> DEFINE s == down[taken + 1]
    <2>1. /\ taken < Len(down) /\ wrote' = wrote
          /\ s \in Segs /\ taken + 1 \in 1..Len(down)
      BY <1>6, <1>t DEF FwTake
    <2>2. CASE s.kind = "RST"
      <3>1. Over /\ up' = up
        BY <1>6, <2>2 DEF FwTake
      <3>2. session' = "ended" => ~qemu_up'
        BY <1>u DEF RelayInv, Shared, Sessions
      <3> QED BY <1>u, <1>t, <1>n, <1>v, <2>1, <3>1, <3>2, QuietKeeps
    <2>3. CASE s.kind # "RST"
      <3>w. writer # 0
        BY <2>1, <2>3 DEF RelayInv, Shared, Attempts
      <3>1. /\ taken' = taken + 1 /\ UNCHANGED <<odd, lost>>
            /\ una' = (IF s.ack > una THEN s.ack ELSE una)
            /\ fw' = IF fw = "syn_sent" /\ s.kind = "SYNACK" THEN "estab" ELSE fw
            /\ up' = Append(up, CASE fw = "syn_sent" /\ s.kind # "SYNACK" -> Rst
                                   [] fw = "fin_sent" -> FwSeg(wrote + 2, 0, FALSE)
                                   [] OTHER           -> FwSeg(wrote + 1, 0, FALSE))
        BY <1>6, <2>3 DEF FwTake, Emit
      <3>2. una' \in 0..(DataMax + 2) /\ taken' \in 0..Len(down)
        <4>1. s.ack \in 0..(DataMax + 2)
          BY <2>1 DEF Segs
        <4> QED BY <1>t, <2>1, <3>1, <4>1
      <3>3. /\ fw' \in {"closed", "syn_sent", "estab", "fin_sent", "over"}
            /\ MayWrite' <=> MayWrite
        BY <1>t, <3>1 DEF MayWrite
      <3>4. PICK m \in {Rst, FwSeg(wrote + 2, 0, FALSE), FwSeg(wrote + 1, 0, FALSE)} :
               /\ up' = Append(up, m)
               /\ m = FwSeg(wrote + 2, 0, FALSE) => ~MayWrite'
        <4>1. CASE fw = "fin_sent"
          <5>1. up' = Append(up, FwSeg(wrote + 2, 0, FALSE)) /\ ~MayWrite'
            BY <3>1, <3>3, <4>1 DEF MayWrite
          <5> QED BY <5>1
        <4>2. CASE fw # "fin_sent"
          <5>1. FwSeg(wrote + 1, 0, FALSE) # FwSeg(wrote + 2, 0, FALSE) /\ Rst # FwSeg(wrote + 2, 0, FALSE)
            <6>1. wrote + 1 # wrote + 2
              BY <1>t
            <6> QED BY <1>p, <1>s, <6>1
          <5>2. up' = Append(up, Rst) \/ up' = Append(up, FwSeg(wrote + 1, 0, FALSE))
            BY <3>1, <4>2
          <5> QED BY <5>1, <5>2
        <4> QED BY <4>1, <4>2
      <3>5. /\ m \in FwSegs /\ ~m.syn /\ ~m.fin /\ m.n = 0
            /\ m.seq + m.n <= wrote' + 2
            /\ MayWrite' => m.seq + m.n <= wrote' + 1
        <4>1. CASE m = FwSeg(wrote + 2, 0, FALSE)
          <5>1. m \in FwSegs /\ ~m.syn /\ ~m.fin /\ m.n = 0 /\ m.seq = wrote + 2
            BY <1>p, <4>1
          <5> QED BY <1>n, <2>1, <3>4, <4>1, <5>1
        <4>2. CASE m = FwSeg(wrote + 1, 0, FALSE) \/ m = Rst
          <5>1. m \in FwSegs /\ ~m.syn /\ ~m.fin /\ m.n = 0 /\ m.seq = wrote + 1
            BY <1>p, <1>s, <4>2
          <5> QED BY <1>n, <2>1, <5>1
        <4> QED BY <4>1, <4>2
      <3>6. wrote' # wrote + 1 /\ wrote' \in 0..DataMax /\ odd' \in 0..OddMax /\ lost' \in BOOLEAN
        BY <1>t, <2>1, <3>1
      <3> HIDE DEF s
      <3> QED BY <1>u, <2>1, <3>w, <3>2, <3>3, <3>4, <3>5, <3>6, EmitKeeps
    <2> QED BY <2>2, <2>3
  <1> QED BY <1>1, <1>2, <1>3, <1>4, <1>5, <1>6 DEF Firmware

-----------------------------------------------------------------------------
\* ---- The session reads a segment ------------------------------------------

\* What every segment it reads leaves alone, and how far the acknowledgement goes.
LEMMA Reads ==
  ASSUME RelayInv, SessionTcp
  PROVE  /\ Head(up) = up[1] /\ Head(up) \in FwSegs /\ 1 \in 1..Len(up) /\ Len(up) \in Nat
         /\ up' = Tail(up) /\ up' \in Seq(FwSegs) /\ Len(up') = Len(up) - 1
         /\ \A i \in 1..Len(up') : up'[i] = up[i + 1] /\ i + 1 \in 1..Len(up)
         /\ fw_ack' = (IF Head(up).syn THEN 1 ELSE Head(up).seq + Head(up).n)
         /\ fw_ack' \in 0..(DataMax + 2) /\ Reach(fw_ack')
         /\ in_table' = TRUE /\ session = "read" /\ session' = "read"
         /\ UNCHANGED <<qemu_up, connected, fw_seq, writer, task, rd, seg, srv_sent, down,
                        fw, wrote, una, taken, odd, lost>>
  <1>1. /\ up \in Seq(FwSegs) /\ up # <<>> /\ wrote \in 0..DataMax /\ DataMax \in Nat
        /\ wrote \in Nat /\ fw_seq \in Nat
    BY Bounds DEF RelayInv, Shared, RelayTypeOK, SessionTcp
  <1>2. /\ Head(up) = up[1] /\ Head(up) \in FwSegs /\ 1 \in 1..Len(up) /\ Len(up) \in Nat
        /\ Tail(up) \in Seq(FwSegs) /\ Len(Tail(up)) = Len(up) - 1
        /\ \A i \in 1..Len(Tail(up)) : Tail(up)[i] = up[i + 1] /\ i + 1 \in 1..Len(up)
    BY <1>1
  <1>3. /\ up' = Tail(up) /\ session = "read" /\ session' = "read"
        /\ UNCHANGED <<qemu_up, connected, fw_seq, writer, task, rd, seg, srv_sent, down,
                       fw, wrote, una, taken, odd, lost>>
        /\ fw_ack' = (IF Head(up).syn THEN Head(up).seq + 1 ELSE Head(up).seq + Head(up).n)
        /\ in_table' = ~(Head(up).rst /\ ~connected /\ fw_seq > 0)
    BY DEF SessionTcp, fwVars
  <1>4. /\ Reach(Head(up).seq + Head(up).n)
        /\ Head(up).syn => Head(up).seq = 0
    BY <1>2 DEF RelayInv, Shared, Limits
  <1>5. fw_ack' = (IF Head(up).syn THEN 1 ELSE Head(up).seq + Head(up).n)
    <2>1. 0 + 1 = 1
      OBVIOUS
    <2> QED BY ONLY <1>3, <1>4, <2>1
  <1>6. /\ Head(up).seq \in Nat /\ Head(up).n \in {0, 1}
    BY <1>1, <1>2 DEF FwSegs
  <1>7. fw_ack' \in 0..(DataMax + 2) /\ Reach(fw_ack')
    <2>1. CASE Head(up).syn
      BY <1>1, <1>5, <2>1 DEF Reach
    <2>2. CASE ~Head(up).syn
      <3>1. fw_ack' = Head(up).seq + Head(up).n
        BY <1>5, <2>2
      <3>2. Head(up).seq + Head(up).n <= wrote + 2
        BY <1>4 DEF Reach
      <3>3. Head(up).seq + Head(up).n \in 0..(DataMax + 2)
        BY <1>1, <1>6, <3>2
      <3> QED BY <1>4, <3>1, <3>3
    <2> QED BY <2>1, <2>2
  <1>8. in_table' = TRUE
    <2>1. ~connected => fw_seq = 0
      BY DEF RelayInv, Shared, Roles, Attempts
    <2>2. ~(~connected /\ fw_seq > 0)
      BY <1>1, <2>1
    <2>3. (~(Head(up).rst /\ ~connected /\ fw_seq > 0)) = TRUE
      BY <2>2, Zenon
    <2> QED BY <1>3, <2>3
  <1> QED BY <1>2, <1>3, <1>5, <1>7, <1>8

\* The rest of the limits.
LEMMA ReadsLimits ==
  ASSUME RelayInv, SessionTcp, \A d \in Cos : Sending(d)' => Sending(d)
  PROVE  Limits'
  <1>1. /\ Limits /\ (\A a : Reach(a)' <=> Reach(a)) /\ MayWrite' = MayWrite
        /\ UNCHANGED <<down, seg, wrote, fw>>
    BY Reads DEF RelayInv, Shared, Reach, MayWrite
  <1>2. Reach(fw_ack)'
    BY Reads, <1>1
  <1>3. \A i \in 1..Len(up') : /\ Reach(up'[i].seq + up'[i].n)
                               /\ up'[i].n = 1 => up'[i].seq \in 1..wrote
                               /\ up'[i].fin => up'[i].seq + up'[i].n = wrote + 1 /\ ~MayWrite
                               /\ up'[i].syn => up'[i].seq = 0 /\ up'[i].n = 0 /\ ~up'[i].fin
    BY Reads, <1>1 DEF Limits
  <1>4. (\A i \in 1..Len(up) : /\ Reach(up[i].seq + up[i].n)
                               /\ up[i].n = 1 => up[i].seq \in 1..wrote
                               /\ up[i].fin => up[i].seq + up[i].n = wrote + 1 /\ ~MayWrite
                               /\ up[i].syn => up[i].seq = 0 /\ up[i].n = 0 /\ ~up[i].fin)'
    BY <1>1, <1>3
  <1>5. (\A d \in Cos : Sending(d) => Reach(seg[d].ack))'
    BY <1>1 DEF Limits
  <1>6. (\A i \in 1..Len(down) : Reach(down[i].ack))'
    BY <1>1 DEF Limits
  <1> QED BY <1>2, <1>4, <1>5, <1>6 DEF Limits

\* Until a connection is open nothing is forwarded: a SYN starts a coroutine, any
\* other segment is without effect.
LEMMA SynKeeps ==
  ASSUME RelayInv, SessionTcp, writer = 0 PROVE RelayInv'
  <1>a. ~connected /\ \A d \in Cos : srv[d].state = "none"
    BY DEF RelayInv, Shared, Roles
  <1>b. srv' = srv /\ \A d \in Cos : co'[d] = co[d] \/ (co[d] = "none" /\ co'[d] = "opening")
    <2>t. co \in [Cos -> Places]
      BY Servers DEF RelayInv
    <2>1. CASE Head(up).syn
      <3>1. UNCHANGED srv /\ \E c \in Cos : co[c] = "none" /\ co' = [co EXCEPT ![c] = "opening"]
        BY <1>a, <2>1 DEF SessionTcp
      <3> QED BY <2>t, <3>1
    <2>2. CASE ~Head(up).syn
      <3>1. co' = co /\ Handle(Head(up))
        BY <1>a, <2>2 DEF SessionTcp
      <3>2. srv' = srv
        BY <1>a, <3>1 DEF Handle, Shut, Forward
      <3> QED BY <3>1, <3>2
    <2> QED BY <2>1, <2>2
  <1>c. co' \in [Cos -> Places]
    <2>t. co \in [Cos -> Places]
      BY Servers DEF RelayInv
    <2>1. CASE co' = co
      BY <2>t, <2>1
    <2>2. CASE \E c \in Cos : co' = [co EXCEPT ![c] = "opening"]
      BY <2>t, <2>2 DEF Places
    <2> QED BY <2>1, <2>2 DEF SessionTcp
  <1>d. /\ \A d \in Cos : Sending(d)' <=> Sending(d)
        /\ \A d \in Cos : co'[d] = "read" <=> co[d] = "read"
    BY <1>b DEF Sending
  <1>1. RelayTypeOK'
    <2>1. RelayTypeOK /\ in_table' \in BOOLEAN
      BY Reads DEF RelayInv, Shared
    <2> QED BY ONLY <1>b, <1>c, <2>1, Reads, RelayInv, SessionTcp DEF RelayTypeOK, Places
  <1>2. Roles'
    <2>1. Roles /\ UNCHANGED <<connected, writer, srv, seg, rd>>
      BY <1>b, Reads DEF RelayInv, Shared
    <2> QED BY <1>a, <1>d, <2>1 DEF Roles
  <1>3. Attempts'
    BY Reads, KeepsAttempts DEF RelayInv, Shared
  <1>4. Sessions'
    BY Reads, <1>b DEF RelayInv, Shared, Sessions, NothingSurvivesSession
  <1>5. Limits'
    BY <1>d, ReadsLimits
  <1>6. ASSUME Sole' PROVE Alone'
    <2>1. Alone
      BY <1>b, <1>6 DEF RelayInv, Sole
    <2>2. UNCHANGED <<qemu_up, fw_seq, writer, seg, srv, srv_sent, down>> /\ writer' = 0
      BY Reads, <1>b
    <2>3. Numbers'
      <3>1. /\ Numbers /\ Written' = Written
            /\ (\A s : Sound(s)' <=> Sound(s)) /\ (\A s : Size(s)' = Size(s))
            /\ (\A h, i : Before(h, i)' <=> Before(h, i))
        BY <2>1, <2>2 DEF Alone, Sound, Size, Written, Before
      <3> QED BY <1>d, <2>2, <3>1 DEF Numbers
    <2>4. Stream' /\ OnTheWay' /\ Delivered'
      BY <2>2 DEF Stream, OnTheWay, Delivered
    <2>5. InOrder'
      BY <2>1, <2>2 DEF Alone, InOrder
    <2> QED BY <2>3, <2>4, <2>5 DEF Alone
  <1> QED BY <1>1, <1>2, <1>3, <1>4, <1>5, <1>6 DEF RelayInv, Shared

\* Forwarding a segment's byte adds it at the end of what the server received,
\* if the server is there at all.
LEMMA Forwards ==
  ASSUME NEW s \in [Cos -> ServerEnds], NEW m, connected, writer \in Cos,
         m.n = 1 => m.seq \in 1..DataMax
  PROVE  /\ Forward(s, m) \in [Cos -> ServerEnds]
         /\ \A d \in Cos : /\ Forward(s, m)[d].state = s[d].state
                           /\ Forward(s, m)[d].buf = s[d].buf
                           /\ Forward(s, m)[d].eof = s[d].eof
                           /\ Forward(s, m)[d].fault = s[d].fault
                           /\ d # writer => Forward(s, m)[d] = s[d]
         /\ m.n # 1 \/ s[writer].state = "closed" => Forward(s, m) = s
         /\ m.n = 1 /\ s[writer].state # "closed" =>
               Forward(s, m)[writer].rcvd = Append(s[writer].rcvd, m.seq)
  <1>1. CASE m.n # 1 \/ s[writer].state = "closed"
    <2>1. Forward(s, m) = s
      BY <1>1 DEF Forward
    <2> QED BY <1>1, <2>1
  <1>2. CASE m.n = 1 /\ s[writer].state # "closed"
    <2>1. Forward(s, m) = [s EXCEPT ![writer].rcvd = Append(s[writer].rcvd, m.seq)]
      BY <1>2, Bounds DEF Forward
    <2>2. s[writer] \in ServerEnds /\ s[writer].rcvd \in Seq(1..DataMax)
      BY DEF ServerEnds
    <2>3. Append(s[writer].rcvd, m.seq) \in Seq(1..DataMax)
      BY <1>2, <2>2
    <2>4. Forward(s, m)[writer] = [s[writer] EXCEPT !.rcvd = Append(s[writer].rcvd, m.seq)]
      BY <2>1
    <2>5. \A d \in Cos : d # writer => Forward(s, m)[d] = s[d]
      BY <2>1
    <2>6. /\ Forward(s, m)[writer] \in ServerEnds
          /\ Forward(s, m)[writer].rcvd = Append(s[writer].rcvd, m.seq)
          /\ Forward(s, m)[writer].state = s[writer].state
          /\ Forward(s, m)[writer].buf = s[writer].buf
          /\ Forward(s, m)[writer].eof = s[writer].eof
          /\ Forward(s, m)[writer].fault = s[writer].fault
      BY <2>2, <2>3, <2>4 DEF ServerEnds
    <2>7. DOMAIN Forward(s, m) = Cos /\ Forward(s, m) = [d \in Cos |-> Forward(s, m)[d]]
      BY <2>1
    <2>8. Forward(s, m) \in [Cos -> ServerEnds]
      BY <2>5, <2>6, <2>7
    <2> QED BY <1>2, <2>5, <2>6, <2>8
  <1> QED BY <1>1, <1>2

\* Every other step in which the session reads: what the server connection is
\* afterwards, whatever the segment was.
LEMMA SegmentShared ==
  ASSUME RelayInv, SessionTcp, writer # 0, co' = co,
         srv' \in [Cos -> ServerEnds],
         \A d \in Cos : /\ srv'[d].buf = srv[d].buf
                        /\ srv[d].eof => srv'[d].eof
                        /\ d # writer => srv'[d] = srv[d],
         srv'[writer].state # "none"
  PROVE  /\ Shared'
         /\ Sole' /\ Alone => Sole /\ Numbers' /\ Stream'
  <1>a. writer \in Cos /\ srv[writer].state # "none"
    BY Servers DEF RelayInv, Shared, Roles
  <1>b. \A d \in Cos : Sending(d)' <=> Sending(d)
    BY DEF Sending
  <1>c. \A d \in Cos : srv'[d].state = "none" <=> srv[d].state = "none"
    BY <1>a
  <1>1. RelayTypeOK'
    <2>1. RelayTypeOK /\ in_table' \in BOOLEAN
      BY Reads DEF RelayInv, Shared
    <2> QED BY ONLY <2>1, Reads, RelayInv, SessionTcp, co' = co, srv' \in [Cos -> ServerEnds]
            DEF RelayTypeOK, ServerEnds
  <1>2. Roles'
    <2>1. Roles /\ UNCHANGED <<connected, writer, seg, rd>>
      BY Reads DEF RelayInv, Shared
    <2>2. \A d \in Cos : srv'[d].state = "none" => srv'[d] = srv[d]
      BY <1>a
    <2> QED BY <1>a, <1>b, <1>c, <2>1, <2>2 DEF Roles
  <1>3. Attempts'
    BY Reads, KeepsAttempts DEF RelayInv, Shared
  <1>4. Sessions'
    BY Reads DEF RelayInv, Shared, Sessions, NothingSurvivesSession
  <1>5. Limits'
    BY <1>b, ReadsLimits
  <1>6. ASSUME Sole', Alone PROVE Sole /\ Numbers' /\ Stream'
    <2>1. Sole
      BY <1>6, <1>c DEF Sole
    <2>2. UNCHANGED <<qemu_up, fw_seq, writer, seg, srv_sent, down>>
      BY Reads
    <2>3. Numbers'
      <3>1. /\ Numbers /\ Written' = Written
            /\ (\A s : Sound(s)' <=> Sound(s)) /\ (\A s : Size(s)' = Size(s))
            /\ (\A h, i : Before(h, i)' <=> Before(h, i))
        BY <1>6, <2>2 DEF Alone, Sound, Size, Written, Before
      <3>2. (\A i \in 1..Len(down) :
               down[i].kind = "FIN" => writer # 0 /\ srv[writer].eof /\ down[i].seq = srv_sent + 1)'
        BY <1>a, <2>2, <3>1 DEF Numbers
      <3> QED BY <1>a, <1>b, <2>2, <3>1, <3>2 DEF Numbers
    <2>4. Stream'
      <3>1. Stream /\ After(writer)' = After(writer)
        BY <1>6, <2>2 DEF Alone, After, Size, Sending
      <3>2. srv'[writer].buf = srv[writer].buf /\ (srv[writer].eof => srv'[writer].eof)
        BY <1>a
      <3> QED BY <1>a, <1>b, <2>2, <3>1, <3>2 DEF Stream
    <2> QED BY <2>1, <2>3, <2>4
  <1> QED BY <1>1, <1>2, <1>3, <1>4, <1>5, <1>6 DEF Shared

\* Every segment with a byte brings it to the server in its place.
LEMMA ForwardKeeps ==
  ASSUME RelayInv, SessionTcp, writer # 0, co' = co,
         srv' = IF Head(up).fin THEN Shut(Forward(srv, Head(up))) ELSE Forward(srv, Head(up))
  PROVE  RelayInv'
  <1> DEFINE m == Head(up)
             one == Forward(srv, m)
  <1>a. /\ connected /\ writer \in Cos /\ srv[writer].state # "none"
        /\ srv \in [Cos -> ServerEnds] /\ wrote \in 0..DataMax /\ DataMax \in Nat
    BY Servers, Bounds DEF RelayInv, Shared, RelayTypeOK, Roles
  <1>b. /\ Len(up) \in Nat /\ Len(up) >= 1 /\ 1 \in 1..Len(up) /\ m = up[1] /\ m \in FwSegs
        /\ Len(up') = Len(up) - 1
        /\ \A i \in 1..Len(up') : up'[i] = up[i + 1] /\ i + 1 \in 1..Len(up)
    BY Reads
  <1>c. /\ Reach(m.seq + m.n)
        /\ m.n = 1 => m.seq \in 1..wrote
        /\ m.fin => m.seq + m.n = wrote + 1 /\ ~MayWrite
    BY <1>b DEF RelayInv, Shared, Limits
  <1>d. /\ srv' = IF m.fin THEN Shut(one) ELSE one
        /\ fw_ack' = (IF m.syn THEN 1 ELSE m.seq + m.n)
        /\ co' = co
        /\ UNCHANGED <<qemu_up, connected, fw_seq, writer, task, rd, seg, srv_sent, down,
                       fw, wrote, una, taken>>
    BY Reads
  <1>e. m.n = 1 => m.seq \in 1..DataMax
    BY <1>a, <1>c
  <1>f. m.seq \in Nat /\ m.n \in {0, 1} /\ m.fin \in BOOLEAN
    BY <1>a, <1>b DEF FwSegs
  <1>g. /\ one \in [Cos -> ServerEnds]
        /\ \A d \in Cos : /\ one[d].state = srv[d].state
                          /\ one[d].buf = srv[d].buf
                          /\ one[d].eof = srv[d].eof
                          /\ one[d].fault = srv[d].fault
                          /\ d # writer => one[d] = srv[d]
        /\ m.n # 1 \/ srv[writer].state = "closed" => one = srv
        /\ m.n = 1 /\ srv[writer].state # "closed" =>
              one[writer].rcvd = Append(srv[writer].rcvd, m.seq)
    BY <1>a, <1>e, Forwards
  <1> HIDE DEF one
  <1>h. /\ Shut(one) \in [Cos -> ServerEnds]
        /\ Shut(one)[writer].state = "closed"
        /\ \A d \in Cos : /\ Shut(one)[d].rcvd = one[d].rcvd /\ Shut(one)[d].buf = one[d].buf
                          /\ Shut(one)[d].fault = one[d].fault
                          /\ one[d].eof => Shut(one)[d].eof
                          /\ d # writer => Shut(one)[d] = one[d]
    BY <1>a, <1>g, Shuts, Bounds
  <1>i. /\ srv' \in [Cos -> ServerEnds]
        /\ m.fin => srv'[writer].state = "closed"
        /\ ~m.fin => srv'[writer].state = srv[writer].state
        /\ srv[writer].state = "closed" => srv'[writer].state = "closed"
        /\ \A d \in Cos : /\ srv'[d].rcvd = one[d].rcvd /\ srv'[d].buf = srv[d].buf
                          /\ srv'[d].fault = srv[d].fault
                          /\ srv[d].eof => srv'[d].eof
                          /\ d # writer => srv'[d] = srv[d]
    BY <1>a, <1>d, <1>g, <1>h
  <1> HIDE DEF m
  <1>1. Shared' /\ (Sole' /\ Alone => Sole /\ Numbers' /\ Stream')
    <2>1. srv'[writer].state # "none"
      BY <1>a, <1>f, <1>i
    <2> QED BY <1>i, <2>1, SegmentShared
  <1>2. Sole' => Sole /\ Alone
    <2>1. \A d \in Cos : srv[d].state # "none" => srv'[d].state # "none"
      BY <1>a, <1>f, <1>i
    <2> QED BY <2>1 DEF RelayInv, Sole
  <1>3. ASSUME Alone PROVE OnTheWay' /\ Delivered' /\ InOrder'
    <2>1. OnTheWay /\ Delivered /\ InOrder
      BY <1>3 DEF Alone
    <2>u. UNCHANGED <<qemu_up, writer, co, seg, down, wrote, fw>>
      BY <1>d
    <2>2. CASE srv[writer].state = "closed"
      <3>1. /\ InOrder'
            /\ \A d \in Cos : \A b : Has(d, b)' <=> Has(d, b)
            /\ \A a : Acked(a) => Acked(a)'
        BY <1>a, <1>d, <1>i, <1>g, <2>1, <2>2, SameReceived
      <3>2. srv'[writer].fault = "none" =>
              /\ srv[writer].fault = "none"
              /\ co[writer] # "ended" /\ qemu_up => ~MayWrite /\ \A b \in 1..wrote : Has(writer, b)
        BY <1>a, <1>i, <2>1, <2>2 DEF Delivered
      <3>3. srv'[writer].fault = "none" /\ co[writer] # "ended" /\ qemu_up => Acked(fw_ack')
        BY <3>2 DEF Acked
      <3>4. srv'[writer].state = "closed"
        BY <1>i, <2>2
      <3>5. OnTheWay'
        BY <1>d, <3>4 DEF OnTheWay
      <3>6. Delivered'
        <4> SUFFICES ASSUME writer' # 0, srv'[writer'].fault = "none" PROVE
               /\ srv'[writer'].state = "closed" /\ co'[writer'] # "ended" /\ qemu_up' =>
                     ~MayWrite' /\ \A b \in 1..wrote' : Has(writer, b)'
               /\ co'[writer'] # "ended" /\ qemu_up' => Acked(fw_ack)'
               /\ co'[writer'] = "send" /\ qemu_up' => Acked(seg[writer].ack)'
               /\ \A i \in 1..Len(down') : down'[i].kind # "RST" => Acked(down[i].ack)'
          BY DEF Delivered
        <4>0. srv'[writer].fault = "none" /\ (MayWrite' <=> MayWrite)
          BY <2>u DEF MayWrite
        <4>1. co[writer] # "ended" /\ qemu_up =>
                 ~MayWrite /\ \A b \in 1..wrote : Has(writer, b)'
          BY <1>a, <2>u, <3>1, <3>2, <4>0
        <4>2. co[writer] # "ended" /\ qemu_up => Acked(fw_ack)'
          <5>1. \A a : Acked(a)' <=> \A b \in 1..wrote : b < a => Has(writer, b)'
            BY <2>u DEF Acked, Has
          <5> QED BY <4>1, <5>1
        <4>3. co[writer] = "send" /\ qemu_up => Acked(seg[writer].ack)'
          BY <2>1, <2>u, <3>1, <3>2, <4>0, <1>a, Bounds DEF Delivered
        <4>4. \A i \in 1..Len(down) : down[i].kind # "RST" => Acked(down[i].ack)'
          BY <2>1, <2>u, <3>1, <3>2, <4>0, <1>a, Bounds DEF Delivered
        <4> QED BY <2>u, <4>0, <4>1, <4>2, <4>3, <4>4
      <3> QED BY <3>1, <3>5, <3>6
    <2>3. CASE srv[writer].state # "closed"
      <3>r. /\ srv[writer].rcvd \in Seq(1..DataMax) /\ Len(srv[writer].rcvd) \in Nat
            /\ srv'[writer].rcvd = (IF m.n = 1 THEN Append(srv[writer].rcvd, m.seq)
                                    ELSE srv[writer].rcvd)
        <4>1. srv[writer] \in ServerEnds
          BY <1>a
        <4>2. srv[writer].rcvd \in Seq(1..DataMax) /\ Len(srv[writer].rcvd) \in Nat
          BY <4>1 DEF ServerEnds
        <4>3. srv'[writer].rcvd = one[writer].rcvd
          BY <1>a, <1>i
        <4> QED BY <1>g, <2>3, <4>2, <4>3
      <3>1. \A b : Has(writer, b)' <=> Has(writer, b) \/ Carries(m, b)
        <4>1. CASE m.n = 1
          <5>1. /\ Len(srv'[writer].rcvd) = Len(srv[writer].rcvd) + 1
                /\ srv'[writer].rcvd[Len(srv[writer].rcvd) + 1] = m.seq
                /\ \A j \in 1..Len(srv[writer].rcvd) : srv'[writer].rcvd[j] = srv[writer].rcvd[j]
            BY <1>e, <3>r, <4>1
          <5>2. \A j \in 1..(Len(srv[writer].rcvd) + 1) :
                   j \in 1..Len(srv[writer].rcvd) \/ j = Len(srv[writer].rcvd) + 1
            BY <3>r
          <5>3. /\ Len(srv[writer].rcvd) + 1 \in 1..(Len(srv[writer].rcvd) + 1)
                /\ \A j \in 1..Len(srv[writer].rcvd) : j \in 1..(Len(srv[writer].rcvd) + 1)
            BY <3>r
          <5> QED BY <1>d, <4>1, <5>1, <5>2, <5>3 DEF Has, Carries
        <4>2. CASE m.n # 1
          BY <1>d, <3>r, <4>2 DEF Has, Carries
        <4> QED BY <4>1, <4>2
      <3>2. \A d \in Cos : d # writer => \A b : Has(d, b)' <=> Has(d, b)
        BY <1>i DEF Has
      <3>3. \A a : Acked(a) => Acked(a)'
        BY <1>d, <3>1 DEF Acked
      <3>4. \A b \in 1..wrote : b < m.seq + m.n => Has(writer, b) \/ Carries(m, b)
        <4>1. \A b \in 1..wrote : b < up[1].seq + up[1].n =>
                 Has(writer, b) \/ \E j \in 1..Len(up) : j <= 1 /\ Carries(up[j], b)
          BY <1>b, <2>1, <2>3, <1>a, Bounds DEF OnTheWay
        <4>2. \A j \in 1..Len(up) : j <= 1 => j = 1
          BY <1>b
        <4> QED BY <1>b, <4>1, <4>2
      <3>5. \A b \in 1..wrote : b < m.seq + m.n => Has(writer, b)'
        BY <3>1, <3>4
      <3>6. Acked(fw_ack)'
        <4>1. CASE m.syn
          <5>1. \A c \in 1..wrote : ~(c < 1)
            BY <1>a
          <5> QED BY <1>d, <4>1, <5>1 DEF Acked
        <4>2. CASE ~m.syn
          BY <1>d, <3>5, <4>2 DEF Acked
        <4> QED BY <4>1, <4>2
      <3>7. m.fin => \A b \in 1..wrote : Has(writer, b)'
        <4>1. \A b \in 1..wrote : b < wrote + 1
          BY <1>a
        <4> QED BY <1>c, <3>5, <4>1
      <3>8. \A b \in 1..wrote : Has(writer, b)' \/ \E j \in 1..Len(up') : Carries(up'[j], b)
        <4> SUFFICES ASSUME NEW b \in 1..wrote, ~Has(writer, b), ~Carries(m, b)
                     PROVE  \E j \in 1..Len(up') : Carries(up'[j], b)
          BY <3>1
        <4>1. PICK j \in 1..Len(up) : Carries(up[j], b)
          BY <2>1, <2>3, <1>a, Bounds DEF OnTheWay
        <4>2. j # 1
          BY <1>b, <4>1
        <4>3. j - 1 \in 1..Len(up') /\ up'[j - 1] = up[j]
          BY <1>b, <1>d, <4>2
        <4> QED BY <4>1, <4>3
      <3>9. ASSUME NEW i \in 1..Len(up'), NEW b \in 1..wrote, b < up'[i].seq + up'[i].n
            PROVE  Has(writer, b)' \/ \E j \in 1..Len(up') : j <= i /\ Carries(up'[j], b)
        <4> SUFFICES ASSUME ~Has(writer, b), ~Carries(m, b)
                     PROVE  \E j \in 1..Len(up') : j <= i /\ Carries(up'[j], b)
          BY <3>1
        <4>1. i + 1 \in 1..Len(up) /\ up'[i] = up[i + 1]
          BY <1>b, <1>d
        <4>2. PICK j \in 1..Len(up) : j <= i + 1 /\ Carries(up[j], b)
          BY <2>1, <2>3, <1>a, <3>9, <4>1, Bounds DEF OnTheWay
        <4>3. j # 1
          BY <1>b, <4>2
        <4>4. j - 1 \in 1..Len(up') /\ up'[j - 1] = up[j] /\ j - 1 <= i
          BY <1>b, <1>d, <4>2, <4>3
        <4> QED BY <4>2, <4>4
      <3>10. InOrder'
        <4>1. InOrder
          BY <2>1
        <4>2. CASE m.n # 1
          <5>1. \A d \in Cos : srv'[d].rcvd = srv[d].rcvd
            BY <1>i, <3>r, <4>2
          <5> QED BY <4>1, <5>1 DEF InOrder
        <4>3. CASE m.n = 1
          <5> DEFINE r == srv[writer].rcvd
          <5>1. /\ Len(srv'[writer].rcvd) = Len(r) + 1
                /\ srv'[writer].rcvd[Len(r) + 1] = m.seq
                /\ \A j \in 1..Len(r) : srv'[writer].rcvd[j] = r[j]
                /\ Len(r) \in Nat
            BY <1>e, <3>r, <4>3
          <5>2. m.seq = 1 \/ \E j \in 1..Len(r) : r[j] = m.seq - 1
            <6> SUFFICES ASSUME m.seq # 1 PROVE Has(writer, m.seq - 1)
              BY DEF Has
            <6>1. m.seq \in 1..wrote /\ wrote \in Nat
              BY <1>a, <1>c, <4>3
            <6>2. m.seq - 1 \in 1..wrote /\ m.seq - 1 < m.seq + m.n /\ m.seq # m.seq - 1
              BY <4>3, <6>1
            <6> QED BY <3>4, <6>2 DEF Carries
          <5>3. ASSUME NEW i \in 1..(Len(r) + 1)
                PROVE  \/ srv'[writer].rcvd[i] = 1
                       \/ \E j \in 1..(i - 1) : srv'[writer].rcvd[j] = srv'[writer].rcvd[i] - 1
            <6>1. CASE i = Len(r) + 1
              <7>1. i - 1 = Len(r)
                BY <5>1, <6>1
              <7> QED BY <5>1, <5>2, <6>1, <7>1
            <6>2. CASE i \in 1..Len(r)
              <7>1. r[i] = 1 \/ \E j \in 1..(i - 1) : r[j] = r[i] - 1
                BY <1>a, <4>1, <6>2 DEF InOrder
              <7>2. \A j \in 1..(i - 1) : j \in 1..Len(r)
                BY <5>1, <6>2
              <7> QED BY <5>1, <6>2, <7>1, <7>2
            <6>3. i = Len(r) + 1 \/ i \in 1..Len(r)
              BY <5>1
            <6> QED BY ONLY <6>1, <6>2, <6>3
          <5>4. \A d \in Cos : d # writer => srv'[d].rcvd = srv[d].rcvd
            BY <1>i
          <5> HIDE DEF r
          <5>5. \A i \in 1..Len(srv'[writer].rcvd) :
                   \/ srv'[writer].rcvd[i] = 1
                   \/ \E j \in 1..(i - 1) : srv'[writer].rcvd[j] = srv'[writer].rcvd[i] - 1
            BY ONLY <5>1, <5>3
          <5> QED BY <4>1, <5>4, <5>5 DEF InOrder
        <4> QED BY <4>2, <4>3
      <3>11. OnTheWay'
        BY <1>d, <3>8, <3>9 DEF OnTheWay, Carries
      <3>12. Delivered'
        <4> SUFFICES ASSUME srv'[writer].fault = "none"
                     PROVE  /\ srv'[writer].state = "closed" =>
                                 ~MayWrite /\ \A b \in 1..wrote : Has(writer, b)'
                            /\ Acked(fw_ack)'
                            /\ co[writer] = "send" /\ qemu_up => Acked(seg[writer].ack)'
                            /\ \A i \in 1..Len(down) : down[i].kind # "RST" => Acked(down[i].ack)'
          BY <2>u DEF Delivered, Acked, MayWrite, Has
        <4>1. srv'[writer].state = "closed" => m.fin
          BY <1>f, <1>i, <2>3
        <4>2. srv[writer].fault = "none"
          BY <1>a, <1>i
        <4>3. co[writer] = "send" /\ qemu_up => Acked(seg[writer].ack)'
          BY <2>1, <2>u, <3>3, <4>2, <1>a, Bounds DEF Delivered
        <4>4. \A i \in 1..Len(down) : down[i].kind # "RST" => Acked(down[i].ack)'
          BY <2>1, <2>u, <3>3, <4>2, <1>a, Bounds DEF Delivered
        <4> QED BY <1>c, <3>6, <3>7, <4>1, <4>3, <4>4
      <3> QED BY <3>10, <3>11, <3>12
    <2> QED BY <2>2, <2>3
  <1> QED BY <1>1, <1>2, <1>3 DEF RelayInv, Alone

\* ... or the write finds that the server is gone, and the bytes with it.
LEMMA SegmentKeeps ==
  ASSUME RelayInv, SessionTcp, writer # 0 PROVE RelayInv'
  <1>a. /\ connected /\ writer \in Cos /\ srv \in [Cos -> ServerEnds]
    BY Servers DEF RelayInv, Shared, Roles
  <1>1. co' = co /\ Handle(Head(up))
    BY <1>a DEF SessionTcp
  <1>2. CASE srv' = Broken(writer)
    <2>1. /\ srv'[writer] = [srv[writer] EXCEPT !.state = "closed", !.fault = "lost"]
          /\ \A d \in Cos : d # writer => srv'[d] = srv[d]
      BY <1>a, <1>2 DEF Broken
    <2>2. /\ srv' \in [Cos -> ServerEnds]
          /\ srv'[writer].state = "closed" /\ srv'[writer].fault = "lost"
          /\ \A d \in Cos : /\ srv'[d].buf = srv[d].buf /\ srv'[d].rcvd = srv[d].rcvd
                            /\ srv[d].eof => srv'[d].eof
                            /\ d # writer => srv'[d] = srv[d]
      <3>1. srv[writer] \in ServerEnds
        BY <1>a
      <3>2. /\ srv'[writer] \in ServerEnds
            /\ srv'[writer].state = "closed" /\ srv'[writer].fault = "lost"
            /\ srv'[writer].buf = srv[writer].buf /\ srv'[writer].rcvd = srv[writer].rcvd
            /\ srv'[writer].eof = srv[writer].eof
        BY <2>1, <3>1 DEF ServerEnds
      <3>3. DOMAIN srv' = Cos /\ srv' = [d \in Cos |-> srv'[d]]
        BY <1>a, <1>2 DEF Broken
      <3> QED BY <1>a, <2>1, <3>2, <3>3
    <2>3. Shared' /\ (Sole' /\ Alone => Sole /\ Numbers' /\ Stream')
      BY <1>1, <2>2, SegmentShared
    <2>4. Sole' => Sole
      <3>1. srv[writer].state # "none"
        BY <1>a DEF RelayInv, Shared, Roles
      <3>2. \A d \in Cos : srv[d].state # "none" => srv'[d].state # "none"
        BY <2>1, <2>2, <3>1
      <3> QED BY <3>2 DEF Sole
    <2>5. writer' = writer
      BY Reads
    <2>6. OnTheWay' /\ Delivered'
      BY <2>2, <2>5 DEF OnTheWay, Delivered
    <2>7. InOrder => InOrder'
      BY <2>2, SameReceived
    <2> QED BY <2>3, <2>4, <2>6, <2>7 DEF RelayInv, Alone
  <1> QED BY <1>1, <1>2, ForwardKeeps DEF Handle

LEMMA SessionTcpKeeps == RelayInv /\ SessionTcp => RelayInv'
  BY SynKeeps, SegmentKeeps

-----------------------------------------------------------------------------
\* ---- Theorems -------------------------------------------------------------

LEMMA RelayInvStep == RelayInv /\ [RelayNext]_relayVars => RelayInv'
  <1> SUFFICES ASSUME RelayInv, [RelayNext]_relayVars PROVE RelayInv'
    OBVIOUS
  <1>1. CASE Session
    BY <1>1, SessionTcpKeeps, OtherKeeps, SessionEndKeeps DEF Session
  <1>2. ASSUME NEW c \in Cos, Coroutine(c) PROVE RelayInv'
    BY <1>2, ConnectFailedKeeps, ConnectOpenedKeeps, WriteKeeps, DrainedKeeps, SendFailsKeeps,
       ReadKeeps, ReaderToldKeeps, ReadRaisesKeeps DEF Coroutine
  <1>3. CASE Server
    BY <1>3, ServerSendKeeps, ServerCloseKeeps DEF Server
  <1>4. CASE Firmware
    BY <1>4, FirmwareKeeps
  <1>5. CASE QemuGone
    BY <1>5, QemuGoneKeeps
  <1>6. CASE UNCHANGED relayVars
    <2>1. /\ una \in 0..(DataMax + 2) /\ taken \in 0..Len(down) /\ lost \in BOOLEAN
          /\ qemu_up \in BOOLEAN /\ odd \in 0..OddMax
          /\ (~qemu_up => fw = "over") /\ (session = "ended" => ~qemu_up)
      BY DEF RelayInv, Shared, RelayTypeOK, Sessions
    <2>2. /\ UNCHANGED <<up, connVars, coVars, serverVars, down, wrote>>
          /\ UNCHANGED <<session, qemu_up, fw, una, taken, odd, lost>>
      BY <1>6 DEF relayVars, connVars, coVars, serverVars, fwVars
    <2> QED BY <2>1, <2>2, QuietKeeps
  <1> QED BY <1>1, <1>2, <1>3, <1>4, <1>5, <1>6 DEF RelayNext

\* The invariant holds throughout, however often lwIP repeats its SYN.
THEOREM RelayInvariance == RelaySpec => []RelayInv
  BY RelayInvInit, RelayInvStep, PTL DEF RelaySpec

\* Every number fits its range and every segment is one: the relay's sequence and
\* acknowledgement numbers never pass what was really sent, SYN and FIN included.
THEOREM RelayTypeCorrect == RelaySpec => []RelayTypeOK
  <1>1. RelayInv => RelayTypeOK
    BY DEF RelayInv, Shared
  <1> QED BY <1>1, RelayInvariance, PTL

\* handle_fw_tcp() and connect(): no retransmission, loss, early FIN, refused
\* attempt or late open_connection() makes a gap in what a sole server receives.
THEOREM ServerInOrderCorrect == RelaySpec => []ServerInOrder
  <1>1. RelayInv => ServerInOrder
    BY DEF RelayInv, Alone, InOrder, ServerInOrder
  <1> QED BY <1>1, RelayInvariance, PTL

\* send_tcp_to_fw(): unless the server resets it, a sole connection never
\* acknowledges a byte that was not forwarded.
THEOREM AckedIsForwardedCorrect == RelaySpec => []AckedIsForwarded
  <1>1. ASSUME RelayInv PROVE AckedIsForwarded
    <2> SUFFICES ASSUME Sole, \A c \in Cos : srv[c].fault = "none",
                        NEW i \in 1..Len(down), NEW b \in 1..wrote,
                        down[i].kind # "RST", b < down[i].ack
                 PROVE  \E c \in Cos : Has(c, b)
      BY DEF AckedIsForwarded, Has
    <2>1. writer # 0
      BY <1>1 DEF RelayInv, Shared, Attempts
    <2>2. writer \in Cos
      BY <1>1, <2>1, Servers DEF RelayInv
    <2>3. Acked(down[i].ack)
      BY <1>1, <2>1, <2>2 DEF RelayInv, Alone, Delivered
    <2> QED BY <2>2, <2>3 DEF Acked
  <1> QED BY <1>1, RelayInvariance, PTL

\* _srv_to_fw() and send_tcp_to_fw(): the segments to the firmware are the stream of
\* a sole server, numbered without gap or overlap past the resets of the other
\* coroutines, and FIN comes after its last byte.
THEOREM FirmwareStreamCorrect == RelaySpec => []FirmwareStream
  <1>1. ASSUME RelayInv PROVE FirmwareStream
    <2>1. Sole => Numbers
      BY <1>1 DEF RelayInv, Alone
    <2> QED BY <2>1 DEF Numbers, Sound, Before, FirmwareStream
  <1> QED BY <1>1, RelayInvariance, PTL

\* handle_qemu_session(): when the session has ended, close() has closed the server
\* connection the entry knows, unless it was opened after that.
THEOREM NothingSurvivesCorrect == RelaySpec => []NothingSurvivesSession
  <1>1. RelayInv => NothingSurvivesSession
    BY DEF RelayInv, Shared, Sessions
  <1> QED BY <1>1, RelayInvariance, PTL
=============================================================================
