-------------------------- MODULE EspWifiPktProofs --------------------------
(***************************************************************************)
(* Proofs about reception, for every size of prefix and frame, every set   *)
(* of lengths and any number of frames, connections, other events and      *)
(* resets.                                                                 *)
(***************************************************************************)
EXTENDS EspWifiPkt, StreamFacts

\* ---- The inductive invariant --------------------------------------------------

\* The sequence p is made of whole consecutive frames of fs, up to the last one.
\* Each frame that begins in p lies in it byte for byte.
Framed(p, fs) ==
    /\ \A i \in DOMAIN p : p[i][1] \in DOMAIN fs
    /\ p # <<>> => p[1][2] = 1
    /\ p # <<>> => p[Len(p)] = <<Len(fs), HdrSize + fs[Len(fs)]>>
    /\ \A i \in 1..(Len(p) - 1) :
          p[i + 1] = IF p[i][2] < HdrSize + fs[p[i][1]] THEN <<p[i][1], p[i][2] + 1>>
                     ELSE <<p[i][1] + 1, 1>>
    /\ \A i \in DOMAIN p : p[i][2] = 1 =>
          \A j \in 1..(HdrSize + fs[p[i][1]]) :
              i + j - 1 \in DOMAIN p /\ p[i + j - 1] = <<p[i][1], j>>

\* The framer is in the length prefix, or has a length and less than a body.
FramerInv ==
    /\ Len(rx_hdr) < HdrSize => rx_data = <<>> /\ rx_expected = 0
    /\ Len(rx_hdr) = HdrSize =>
          /\ rx_expected \in 1..MaxFrame /\ Len(rx_data) < rx_expected
          /\ rx_expected = frames[rx_hdr[1][1]]
    /\ ~pkt_open => rx_hdr = <<>> /\ rx_data = <<>> /\ stream = <<>>

FramesFit == \A f \in DOMAIN frames : frames[f] \in 1..MaxFrame

\* The event task between its read of RX_LEN and its write of 0.
TaskInv ==
    /\ pc \in {"copy", "consume"} =>
          /\ rx_len = len /\ len > 0
          /\ \A i \in DOMAIN copy : copy[i] = rx_buf[i]
    /\ pc = "copy" => Len(copy) < len
    /\ pc = "consume" => Len(copy) = len

\* The frames in the mailbox and on the heap, and the first that may still be
\* completed.
BoxNo  == rx_buf[1][1]
CopyNo == copy[1][1]
NextNo == IF Pending = <<>> THEN Len(frames) + 1 ELSE Pending[1][1]

\* A frame delivered, the one about to be, the one in the mailbox, the one being
\* read: their numbers grow.
BoxOrdered ==
    /\ BoxNo \in DOMAIN frames /\ rx_len = frames[BoxNo]
    /\ \A i \in 1..rx_len : rx_buf[i] = <<BoxNo, HdrSize + i>>
    /\ LastNo < BoxNo /\ BoxNo < NextNo
CopyOrdered ==
    /\ CopyNo \in DOMAIN frames /\ copy = Body(CopyNo)
    /\ LastNo < CopyNo /\ CopyNo < NextNo
    /\ rx_len # 0 => CopyNo < BoxNo
OrderInv ==
    /\ LastNo \in Nat /\ LastNo < NextNo
    /\ rx_len # 0 => BoxOrdered
    /\ pc = "deliver" => CopyOrdered

\* The types, in the parts in which the steps change them.
WireTypeOK ==
    /\ frames \in Seq(Lens) /\ Len(frames) <= SendMax
    /\ peer_up \in BOOLEAN /\ pkt_open \in BOOLEAN
    /\ stream \in Seq(Bytes)
    /\ rx_hdr \in Seq(Bytes) /\ Len(rx_hdr) <= HdrSize
    /\ rx_data \in Seq(Bytes) /\ Len(rx_data) <= MaxFrame
    /\ rx_expected \in 0..MaxFrame
BoxTypeOK ==
    /\ rx_addr \in BOOLEAN
    /\ rx_len \in 0..MaxFrame
    /\ rx_buf \in [1..MaxFrame -> Bytes \cup {NoBytes}]
    /\ pc \in TaskPcs
    /\ evt \in Events \cup {NoEvent}
    /\ len \in 0..MaxFrame
    /\ copy \in Seq(Bytes \cup {NoBytes}) /\ Len(copy) <= MaxFrame
    /\ delivered \in Seq(Seq(Bytes \cup {NoBytes}))
BoundsTypeOK ==
    /\ conns_left \in 0..ConnMax /\ others_left \in 0..OtherMax
    /\ reboots_left \in 0..RebootMax

\* What the relay, the socket and the framer keep, and what the mailbox and the
\* event task do.
WireInv == WireTypeOK /\ FramesFit /\ FramerInv /\ Framed(Pending, frames)
BoxInv  == BoxTypeOK /\ TaskInv /\ OrderInv
PktInv  == RegsTypeOK /\ WireInv /\ BoxInv /\ BoundsTypeOK

\* ---- Framed sequences -----------------------------------------------------------

\* The first frame of a framed sequence.
LEMMA FirstFrame ==
  ASSUME NEW S, NEW p \in Seq(S), p # <<>>, Framed(p, frames), FramesFit,
         frames \in Seq(Lens)
  PROVE  /\ 1 \in DOMAIN p /\ p[1][1] \in DOMAIN frames /\ p[1][2] = 1
         /\ frames[p[1][1]] \in 1..MaxFrame
         /\ HdrSize + frames[p[1][1]] <= Len(p)
         /\ \A j \in 1..(HdrSize + frames[p[1][1]]) : p[j] = <<p[1][1], j>>
  <1>1. 1 \in DOMAIN p /\ DOMAIN p = 1..Len(p) /\ Len(p) \in Nat
    <2>1. DOMAIN p = 1..Len(p) /\ Len(p) \in Nat /\ Len(p) # 0
      OBVIOUS
    <2> QED BY <2>1
  <1>2. p[1][1] \in DOMAIN frames /\ p[1][2] = 1 /\ frames[p[1][1]] \in 1..MaxFrame
    BY <1>1 DEF Framed, FramesFit
  <1>3. \A j \in 1..(HdrSize + frames[p[1][1]]) : 1 + j - 1 \in DOMAIN p /\ p[1 + j - 1] = <<p[1][1], j>>
    BY <1>1, <1>2 DEF Framed
  <1>4. HdrSize + frames[p[1][1]] \in 1..(HdrSize + frames[p[1][1]])
    BY <1>2, SizeAssumption
  <1>5. \A j \in 1..(HdrSize + frames[p[1][1]]) : 1 + j - 1 = j
    BY <1>2, SizeAssumption
  <1> QED BY <1>1, <1>2, <1>3, <1>4, <1>5

\* Without its first frame it is framed, and begins with the frame after that.
LEMMA FrameRemoved ==
  ASSUME NEW S, NEW p \in Seq(S), p # <<>>, Framed(p, frames), FramesFit,
         frames \in Seq(Lens),
         NEW L \in Nat, L = HdrSize + frames[p[1][1]],
         NEW q \in Seq(S), Len(q) = Len(p) - L, \A i \in 1..Len(q) : q[i] = p[L + i]
  PROVE  /\ Framed(q, frames)
         /\ q # <<>> => q[1][1] = p[1][1] + 1
  <1>1. /\ 1 \in DOMAIN p /\ p[1][1] \in DOMAIN frames /\ L <= Len(p)
        /\ p[L] = <<p[1][1], L>> /\ L > 0
    BY FirstFrame, SizeAssumption
  <1>2. Len(p) \in Nat /\ DOMAIN p = 1..Len(p)
    OBVIOUS
  <1>3. DOMAIN q = 1..Len(q) /\ Len(q) \in Nat
    OBVIOUS
  <1>4. \A i \in 1..Len(q) : L + i \in DOMAIN p
    BY <1>1, <1>2
  <1>0. \A i \in 1..(Len(p) - 1) :
          p[i + 1] = IF p[i][2] < HdrSize + frames[p[i][1]] THEN <<p[i][1], p[i][2] + 1>>
                     ELSE <<p[i][1] + 1, 1>>
    BY DEF Framed
  <1>5. q # <<>> => q[1] = <<p[1][1] + 1, 1>> /\ q[Len(q)] = p[Len(p)]
    <2> SUFFICES ASSUME q # <<>> PROVE q[1] = <<p[1][1] + 1, 1>> /\ q[Len(q)] = p[Len(p)]
      OBVIOUS
    <2>1. /\ q[1] = p[L + 1] /\ q[Len(q)] = p[Len(p)] /\ L \in 1..(Len(p) - 1)
      <3>1. Len(q) # 0
        OBVIOUS
      <3>2. 1 \in 1..Len(q) /\ Len(q) \in 1..Len(q) /\ L \in 1..(Len(p) - 1)
        BY <1>1, <1>2, <1>3, <3>1
      <3>3. L + Len(q) = Len(p)
        BY <1>2, <1>3
      <3> QED BY <3>2, <3>3
    <2>2. p[L][1] = p[1][1] /\ p[L][2] = L
      BY <1>1
    <2>3. p[L + 1] = IF p[L][2] < HdrSize + frames[p[L][1]] THEN <<p[L][1], p[L][2] + 1>>
                     ELSE <<p[L][1] + 1, 1>>
      BY <2>1, <1>0
    <2>4. ~(p[L][2] < HdrSize + frames[p[L][1]])
      BY <2>2
    <2>5. p[L + 1] = <<p[L][1] + 1, 1>>
      BY <2>3, <2>4
    <2> QED BY <2>1, <2>2, <2>5
  <1>6. \A i \in 1..(Len(q) - 1) :
          q[i + 1] = IF q[i][2] < HdrSize + frames[q[i][1]] THEN <<q[i][1], q[i][2] + 1>>
                     ELSE <<q[i][1] + 1, 1>>
    <2> SUFFICES ASSUME NEW i \in 1..(Len(q) - 1)
                 PROVE q[i + 1] = IF q[i][2] < HdrSize + frames[q[i][1]]
                                  THEN <<q[i][1], q[i][2] + 1>> ELSE <<q[i][1] + 1, 1>>
      OBVIOUS
    <2>1. L + i \in 1..(Len(p) - 1) /\ q[i] = p[L + i] /\ q[i + 1] = p[(L + i) + 1]
      <3>1. L + i \in 1..(Len(p) - 1) /\ i \in 1..Len(q) /\ i + 1 \in 1..Len(q)
        BY <1>1, <1>2, <1>3
      <3>2. i \in Nat
        BY <3>1
      <3>3. L + (i + 1) = (L + i) + 1
        BY <3>2, Window
      <3> QED BY <3>1, <3>3
    <2>2. p[(L + i) + 1] = IF p[L + i][2] < HdrSize + frames[p[L + i][1]]
                           THEN <<p[L + i][1], p[L + i][2] + 1>> ELSE <<p[L + i][1] + 1, 1>>
      BY <2>1, <1>0
    <2> QED BY <2>1, <2>2
  <1>7. ASSUME NEW i \in DOMAIN q, q[i][2] = 1,
               NEW j \in 1..(HdrSize + frames[q[i][1]])
        PROVE  i + j - 1 \in DOMAIN q /\ q[i + j - 1] = <<q[i][1], j>>
    <2>1. L + i \in DOMAIN p /\ q[i] = p[L + i] /\ i \in 1..Len(q)
      BY <1>3, <1>4
    <2>2. (L + i) + j - 1 \in DOMAIN p /\ p[(L + i) + j - 1] = <<p[L + i][1], j>>
      BY <1>7, <2>1 DEF Framed
    <2>3. p[L + i][1] \in DOMAIN frames
      BY <2>1 DEF Framed
    <2>4. j \in Nat /\ j >= 1
      BY <2>1, <2>3, SizeAssumption DEF FramesFit
    <2>5. i + j - 1 \in 1..Len(q) /\ L + (i + j - 1) = (L + i) + j - 1
      <3>1. (L + i) + j - 1 <= Len(p)
        BY <1>2, <2>2
      <3>2. \A k \in 1..Len(q) : Len(q) = Len(p) - L /\ j >= 1 /\ (L + k) + j - 1 <= Len(p) =>
              k + j - 1 \in 1..Len(q) /\ L + (k + j - 1) = (L + k) + j - 1
        BY <1>2, <1>3, <2>4, Window, SMTT(60)
      <3> QED BY <2>1, <2>4, <3>1, <3>2
    <2> QED BY <1>3, <2>1, <2>2, <2>5
  <1>8. \A i \in DOMAIN q : q[i][1] \in DOMAIN frames
    BY <1>3, <1>4 DEF Framed
  <1>9. p[Len(p)] = <<Len(frames), HdrSize + frames[Len(frames)]>>
    BY DEF Framed
  <1>10. q # <<>> => q[Len(q)] = <<Len(frames), HdrSize + frames[Len(frames)]>>
    BY <1>5, <1>9
  <1>11. q # <<>> => q[1][1] = p[1][1] + 1 /\ q[1][2] = 1
    BY <1>5
  <1>12. Framed(q, frames)
    BY <1>6, <1>7, <1>8, <1>10, <1>11 DEF Framed
  <1> QED BY <1>11, <1>12

\* G is F with one more length; q is p with the W bytes of frame N behind it.
Longer(G, F, n) ==
    /\ Len(G) = Len(F) + 1 /\ G[Len(F) + 1] = n
    /\ \A f \in 1..Len(F) : G[f] = F[f]
Behind(q, p, N, W) ==
    /\ Len(q) = Len(p) + W
    /\ \A i \in 1..Len(p) : q[i] = p[i]
    /\ \A i \in 1..W : q[Len(p) + i] = <<N, i>>

\* A frame sent behind a framed sequence leaves it framed.
LEMMA FrameAppended ==
  ASSUME NEW F \in Seq(Lens), NEW G \in Seq(Lens), NEW n \in Lens, Longer(G, F, n),
         NEW p \in Seq(Bytes), NEW q \in Seq(Bytes), Framed(p, F),
         Behind(q, p, Len(F) + 1, HdrSize + n)
  PROVE  Framed(q, G)
  <1> DEFINE N == Len(F) + 1
             W == HdrSize + n
  <1>a. N \in Nat /\ W \in Nat /\ W = HdrSize + n /\ N = Len(F) + 1
    BY SizeAssumption, LensAssumption
  <1>b. /\ Len(G) = N /\ G[N] = n
        /\ \A f \in 1..Len(F) : G[f] = F[f]
    BY DEF Longer
  <1>c. /\ Len(q) = Len(p) + W /\ \A i \in 1..Len(p) : q[i] = p[i]
        /\ \A i \in 1..W : q[Len(p) + i] = <<N, i>>
    BY DEF Behind
  <1> HIDE DEF N, W
  <1> USE <1>a, <1>b, <1>c
  <1>1. /\ DOMAIN F = 1..Len(F) /\ DOMAIN G = 1..Len(G) /\ Len(F) \in Nat
        /\ DOMAIN p = 1..Len(p) /\ DOMAIN q = 1..Len(q) /\ Len(p) \in Nat /\ Len(q) \in Nat
    OBVIOUS
  <1>2. n \in Nat /\ n > 0 /\ HdrSize \in Nat /\ W > 0
    BY SizeAssumption, LensAssumption
  <1>3. \A f \in DOMAIN F : f \in DOMAIN G /\ G[f] = F[f] /\ F[f] \in Nat /\ f \in Nat
    <2>1. \A f \in DOMAIN F : F[f] \in Lens /\ f \in Nat
      BY <1>1
    <2>2. \A f \in DOMAIN F : f \in DOMAIN G
      BY <1>1
    <2> QED BY <2>1, <2>2, <1>1, LensAssumption
  <1>4. /\ N \in DOMAIN G /\ Len(p) + W = Len(q)
        /\ \A i \in DOMAIN q : i \notin DOMAIN p => i - Len(p) \in 1..W
        /\ \A i \in DOMAIN q : Len(p) + (i - Len(p)) = i
        /\ \A i \in 1..W : Len(p) + i \in DOMAIN q
        /\ \A i \in DOMAIN p : i \in DOMAIN q
    BY <1>1, <1>2
  <1>5. \A i \in DOMAIN q : i \notin DOMAIN p => q[i] = <<N, i - Len(p)>>
    BY <1>4
  <1>6. /\ \A i \in DOMAIN p : p[i][1] \in DOMAIN F /\ q[i] = p[i]
        /\ \A i \in 1..(Len(p) - 1) :
              p[i + 1] = IF p[i][2] < HdrSize + F[p[i][1]] THEN <<p[i][1], p[i][2] + 1>>
                         ELSE <<p[i][1] + 1, 1>>
    BY <1>1 DEF Framed
  <1>7. \A i \in DOMAIN q : q[i][1] \in DOMAIN G
    <2> SUFFICES ASSUME NEW i \in DOMAIN q PROVE q[i][1] \in DOMAIN G
      OBVIOUS
    <2>1. CASE i \in DOMAIN p
      BY <1>3, <1>6, <2>1
    <2>2. CASE i \notin DOMAIN p
      <3>1. q[i][1] = N
        BY <1>5, <2>2
      <3> QED BY <1>4, <3>1
    <2> QED BY <2>1, <2>2
  <1>8. q[1][2] = 1
    <2>1. CASE p = <<>>
      <3>1. Len(p) = 0
        BY <2>1
      <3>2. 1 \in DOMAIN q /\ 1 \notin DOMAIN p /\ 1 - Len(p) = 1
        BY <1>1, <1>2, <3>1
      <3> QED BY <1>5, <3>2
    <2>2. CASE p # <<>>
      <3>1. p[1][2] = 1
        BY <2>2 DEF Framed
      <3>2. Len(p) # 0
        BY <2>2
      <3>3. 1 \in 1..Len(p)
        BY <1>1, <3>2
      <3> QED BY <3>1, <3>3
    <2> QED BY <2>1, <2>2
  <1>9. q[Len(q)] = <<Len(G), HdrSize + G[Len(G)]>>
    <2>1. W \in 1..W
      BY <1>2
    <2>2. q[Len(p) + W] = <<N, W>>
      BY <2>1
    <2> QED BY <2>2, <1>4
  <1>10. ASSUME NEW i \in 1..(Len(q) - 1)
         PROVE q[i + 1] = IF q[i][2] < HdrSize + G[q[i][1]] THEN <<q[i][1], q[i][2] + 1>>
                          ELSE <<q[i][1] + 1, 1>>
    <2>1. CASE i < Len(p)
      <3>1. i \in DOMAIN p /\ i + 1 \in DOMAIN p /\ i \in 1..(Len(p) - 1)
        BY <1>1, <2>1
      <3>2. q[i] = p[i] /\ q[i + 1] = p[i + 1] /\ G[p[i][1]] = F[p[i][1]]
        BY <1>3, <1>6, <3>1
      <3> QED BY <1>6, <3>1, <3>2
    <2>2. CASE i = Len(p)
      <3>1. p # <<>>
        BY <1>1, <2>2
      <3>2. i \in DOMAIN p
        BY <1>1, <2>2
      <3>3. p[i] = <<Len(F), HdrSize + F[Len(F)]>>
        BY <2>2, <3>1 DEF Framed
      <3>4. q[i] = <<Len(F), HdrSize + F[Len(F)]>> /\ Len(F) \in DOMAIN F
        BY <1>6, <3>2, <3>3
      <3>5. q[i][1] = Len(F) /\ q[i][2] = HdrSize + G[Len(F)]
        BY <3>4, <1>3
      <3>6. ~(q[i][2] < HdrSize + G[q[i][1]])
        <4>1. HdrSize + G[Len(F)] \in Nat
          BY <1>2, <1>3, <3>4
        <4>2. ~(HdrSize + G[Len(F)] < HdrSize + G[Len(F)])
          BY <4>1
        <4> QED BY <3>5, <4>2
      <3>7. 1 \in 1..W
        BY <1>2
      <3>8. q[i + 1] = <<N, 1>>
        BY <2>2, <3>7
      <3> QED BY <3>5, <3>6, <3>8
    <2>3. CASE i > Len(p)
      <3> DEFINE k == i - Len(p)
      <3>1. k \in 1..W /\ k + 1 \in 1..W /\ Len(p) + k = i /\ Len(p) + (k + 1) = i + 1 /\ k < W
        BY <1>1, <2>3, Beyond
      <3> HIDE DEF k
      <3>2. q[Len(p) + k] = <<N, k>> /\ q[Len(p) + (k + 1)] = <<N, k + 1>>
        BY <3>1
      <3>3. q[i] = <<N, k>> /\ q[i + 1] = <<N, k + 1>>
        BY <3>1, <3>2
      <3>4. q[i][1] = N /\ q[i][2] = k
        BY <3>3
      <3>5. q[i][2] < HdrSize + G[q[i][1]]
        BY <3>1, <3>4
      <3>6. q[i + 1] = <<q[i][1], q[i][2] + 1>>
        BY <3>3, <3>4
      <3> QED BY <3>5, <3>6
    <2>4. i \in Nat
      BY <1>1
    <2>5. i < Len(p) \/ i = Len(p) \/ i > Len(p)
      BY <1>1, <2>4, Beyond, Zenon
    <2> QED BY <2>1, <2>2, <2>3, <2>5
  <1>11. ASSUME NEW i \in DOMAIN q, q[i][2] = 1,
                NEW j \in 1..(HdrSize + G[q[i][1]])
         PROVE  i + j - 1 \in DOMAIN q /\ q[i + j - 1] = <<q[i][1], j>>
    <2>1. CASE i \in DOMAIN p
      <3>1. q[i] = p[i] /\ p[i][1] \in DOMAIN F /\ G[p[i][1]] = F[p[i][1]]
        BY <1>3, <1>6, <2>1
      <3>2. p[i][2] = 1 /\ j \in 1..(HdrSize + F[p[i][1]])
        BY <1>11, <3>1
      <3>3. i + j - 1 \in DOMAIN p /\ p[i + j - 1] = <<p[i][1], j>>
        BY <2>1, <3>2 DEF Framed
      <3> QED BY <1>4, <1>6, <3>1, <3>3
    <2>2. CASE i \notin DOMAIN p
      <3>1. q[i] = <<N, i - Len(p)>> /\ Len(p) + (i - Len(p)) = i
        BY <1>4, <1>5, <2>2
      <3>2. q[i][1] = N /\ i - Len(p) = 1
        BY <1>11, <3>1
      <3>3. j \in 1..W
        BY <3>2
      <3>4. j \in Nat /\ i = Len(p) + 1
        BY <1>1, <3>1, <3>2, <3>3
      <3>5. i + j - 1 = Len(p) + j
        BY <1>1, <3>4
      <3> QED BY <1>4, <3>2, <3>3, <3>5
    <2> QED BY <2>1, <2>2
  <1> QED BY <1>7, <1>8, <1>9, <1>10, <1>11 DEF Framed

\* ---- The wire -------------------------------------------------------------------

wireVars == <<relayVars, pkt_open, framerVars>>

\* The bytes the device has yet to make a frame of, and their first frame.
LEMMA PendingFacts ==
  ASSUME WireTypeOK
  PROVE  /\ Pending \in Seq(Bytes)
         /\ Len(Pending) = Len(rx_hdr) + Len(rx_data) + Len(stream)
         /\ \A i \in 1..Len(rx_hdr) : Pending[i] = rx_hdr[i]
         /\ \A i \in 1..Len(rx_data) : Pending[Len(rx_hdr) + i] = rx_data[i]
         /\ \A i \in 1..Len(stream) : Pending[Len(rx_hdr) + Len(rx_data) + i] = stream[i]
  BY Elements DEF WireTypeOK, Pending

LEMMA NextNoType ==
  ASSUME WireInv
  PROVE  /\ NextNo \in 1..(Len(frames) + 1) /\ Len(frames) \in Nat
         /\ Pending # <<>> => NextNo \in DOMAIN frames /\ NextNo = Pending[1][1]
  <1>1. Len(frames) \in Nat /\ DOMAIN frames = 1..Len(frames)
    BY DEF WireInv, WireTypeOK
  <1>2. Pending # <<>> => Pending[1][1] \in DOMAIN frames
    BY PendingFacts, FirstFrame DEF WireInv, WireTypeOK
  <1> QED BY <1>1, <1>2 DEF NextNo

LEMMA NextNoPrime == WireInv' => NextNo' \in Nat
  <1> SUFFICES ASSUME WireInv' PROVE NextNo' \in Nat
    OBVIOUS
  <1>1. Len(frames') \in Nat /\ DOMAIN frames' = 1..Len(frames')
    BY DEF WireInv, WireTypeOK
  <1>2. Pending' # <<>> => Pending'[1][1] \in DOMAIN frames'
    <2>1. Pending' \in Seq(Bytes)
      BY Elements DEF WireInv, WireTypeOK, Pending
    <2>2. Pending' # <<>> => 1 \in DOMAIN Pending'
      <3> SUFFICES ASSUME NEW p \in Seq(Bytes), p # <<>> PROVE 1 \in DOMAIN p
        BY <2>1
      <3>1. DOMAIN p = 1..Len(p) /\ Len(p) \in Nat /\ Len(p) # 0
        OBVIOUS
      <3> QED BY <3>1
    <2> QED BY <2>2 DEF WireInv, Framed
  <1> QED BY <1>1, <1>2 DEF NextNo

\* A frame of the relay is a sequence of bytes.
LEMMA WireBytes ==
  ASSUME NEW f \in 1..SendMax, NEW n \in Nat, n <= MaxFrame
  PROVE  [i \in 1..(HdrSize + n) |-> <<f, i>>] \in Seq(Bytes)
  <1>1. HdrSize + n \in Nat /\ \A i \in 1..(HdrSize + n) : i \in 1..(HdrSize + MaxFrame)
    BY SizeAssumption
  <1>2. \A i \in 1..(HdrSize + n) : <<f, i>> \in Bytes
    BY <1>1 DEF Bytes
  <1> QED BY <1>1, <1>2

\* What every step does to the wire: a frame number is never used twice, and the
\* first frame to be completed never goes back.
WireStep ==
  /\ WireInv'
  /\ DOMAIN frames \subseteq DOMAIN frames'
  /\ \A f \in DOMAIN frames : frames'[f] = frames[f]
  /\ NextNo <= NextNo'

LEMMA WireSame == WireInv /\ UNCHANGED wireVars => WireStep /\ NextNo' = NextNo
  <1> SUFFICES ASSUME WireInv, UNCHANGED wireVars PROVE WireStep /\ NextNo' = NextNo
    OBVIOUS
  <1>1. UNCHANGED <<frames, peer_up, stream, pkt_open, rx_hdr, rx_data, rx_expected>>
    BY DEF wireVars, relayVars, framerVars
  <1>2. Pending' = Pending
    BY <1>1 DEF Pending
  <1>3. NextNo' = NextNo
    BY <1>1, <1>2 DEF NextNo
  <1>4. WireInv'
    BY <1>1, <1>2 DEF WireInv, WireTypeOK, FramesFit, FramerInv
  <1> QED BY <1>1, <1>3, <1>4, NextNoType DEF WireStep

\* With nothing pending the next frame is one not yet sent.
LEMMA WireCleared ==
  ASSUME WireInv, WireTypeOK', FramesFit', FramerInv', Pending' = <<>>, UNCHANGED frames
  PROVE  WireStep
  <1>1. Framed(Pending', frames')
    BY DEF Framed
  <1>2. NextNo' = Len(frames) + 1
    BY DEF NextNo
  <1> QED BY <1>1, <1>2, NextNoType DEF WireStep, WireInv

\* Bytes that only move from the socket to the framer are pending as before.
LEMMA WireMoved ==
  ASSUME WireInv, WireTypeOK', FramerInv', Pending' = Pending, UNCHANGED frames
  PROVE  WireStep /\ NextNo' = NextNo
  <1>1. NextNo' = NextNo
    BY DEF NextNo
  <1>2. FramesFit' /\ Framed(Pending', frames')
    BY DEF WireInv, FramesFit
  <1> QED BY <1>1, <1>2, NextNoType DEF WireStep, WireInv

\* pkt_relay_close(): no bytes are left, neither in the socket nor in the framer.
LEMMA CloseWire == ASSUME WireInv, PktClose, UNCHANGED frames PROVE WireStep
  <1>1. /\ rx_hdr' = <<>> /\ rx_data' = <<>> /\ rx_expected' = 0 /\ stream' = <<>>
        /\ pkt_open' = FALSE /\ peer_up' = FALSE
    BY DEF PktClose
  <1>2. Len(<<>>) = 0 /\ <<>> \in Seq(Bytes)
    OBVIOUS
  <1>3. WireTypeOK'
    <2>1. 0 <= HdrSize /\ 0 <= MaxFrame /\ 0 \in 0..MaxFrame
      BY SizeAssumption
    <2>2. frames' \in Seq(Lens) /\ Len(frames') <= SendMax
      BY DEF WireInv, WireTypeOK
    <2> QED BY <1>1, <1>2, <2>1, <2>2 DEF WireTypeOK
  <1>4. FramesFit' /\ FramerInv'
    BY <1>1, <1>2, SizeAssumption DEF WireInv, FramesFit, FramerInv
  <1>5. Pending' = <<>>
    <2>1. (<<>> \o <<>>) \o <<>> = <<>>
      OBVIOUS
    <2> QED BY <1>1, <2>1 DEF Pending
  <1> QED BY <1>3, <1>4, <1>5, WireCleared

\* A frame sent is framed behind the bytes pending.
LEMMA RelaySendWire == ASSUME WireInv, NEW n \in Lens, RelaySend(n) PROVE WireStep
  <1>1. /\ pkt_open /\ n <= MaxFrame /\ Len(frames) < SendMax
        /\ frames' = Append(frames, n)
        /\ stream' = stream \o [i \in 1..(HdrSize + n) |-> <<Len(frames) + 1, i>>]
        /\ UNCHANGED <<peer_up, pkt_open, rx_hdr, rx_data, rx_expected>>
    BY DEF RelaySend, framerVars
  <1>2. /\ frames \in Seq(Lens) /\ stream \in Seq(Bytes) /\ rx_hdr \in Seq(Bytes)
        /\ rx_data \in Seq(Bytes)
    BY DEF WireInv, WireTypeOK
  <1> DEFINE N == Len(frames) + 1
             W == HdrSize + n
             new == [i \in 1..W |-> <<N, i>>]
  <1>3. /\ N \in Nat /\ W \in Nat /\ N \in 1..SendMax /\ n \in 1..MaxFrame /\ Len(frames) \in Nat
    BY <1>1, <1>2, SizeAssumption, LensAssumption, PktBoundAssumption
  <1>4. /\ frames' \in Seq(Lens) /\ Len(frames') = N /\ frames'[N] = n
        /\ \A f \in 1..Len(frames) : frames'[f] = frames[f]
        /\ DOMAIN frames = 1..Len(frames) /\ DOMAIN frames' = 1..N
    <2>1. /\ Append(frames, n) \in Seq(Lens) /\ Len(Append(frames, n)) = Len(frames) + 1
          /\ Append(frames, n)[Len(frames) + 1] = n
          /\ \A f \in 1..Len(frames) : Append(frames, n)[f] = frames[f]
      BY <1>2
    <2> QED BY <1>1, <1>2, <2>1
  <1>5. new \in Seq(Bytes) /\ Len(new) = W /\ \A i \in 1..W : new[i] = <<N, i>>
    <2>1. new \in Seq(Bytes)
      BY <1>3, WireBytes
    <2>2. Len(new) = W
      BY <1>3
    <2> QED BY <2>1, <2>2
  <1> HIDE DEF new, N, W
  <1>6. stream' = stream \o new
    BY <1>1 DEF new, N, W
  <1>7. /\ stream' \in Seq(Bytes) /\ Len(stream') = Len(stream) + W
        /\ \A i \in 1..Len(stream) : stream'[i] = stream[i]
        /\ \A i \in 1..W : stream'[Len(stream) + i] = <<N, i>>
    <2>1. /\ stream \o new \in Seq(Bytes) /\ Len(stream \o new) = Len(stream) + Len(new)
          /\ \A i \in 1..Len(stream) : (stream \o new)[i] = stream[i]
          /\ \A i \in 1..Len(new) : (stream \o new)[Len(stream) + i] = new[i]
      BY <1>2, <1>5, Joined
    <2> QED BY <1>5, <1>6, <2>1
  <1>8. WireTypeOK'
    BY <1>1, <1>3, <1>4, <1>7 DEF WireInv, WireTypeOK
  <1>9. FramesFit'
    <2> SUFFICES ASSUME NEW f \in 1..N PROVE frames'[f] \in 1..MaxFrame
      BY <1>4 DEF FramesFit
    <2>1. f = N \/ f \in 1..Len(frames)
      BY <1>3 DEF N
    <2> QED BY <1>3, <1>4, <2>1 DEF WireInv, FramesFit
  <1>10. /\ Pending' = Pending \o new
         /\ Pending \in Seq(Bytes) /\ Pending' \in Seq(Bytes)
         /\ Len(Pending') = Len(Pending) + W
         /\ \A i \in 1..Len(Pending) : Pending'[i] = Pending[i]
         /\ \A i \in 1..W : Pending'[Len(Pending) + i] = <<N, i>>
    <2>1. Pending \in Seq(Bytes)
      BY PendingFacts DEF WireInv
    <2>2. Pending' = Pending \o new
      <3>1. rx_hdr \o rx_data \in Seq(Bytes)
        BY <1>2
      <3>2. (rx_hdr \o rx_data) \o (stream \o new) = ((rx_hdr \o rx_data) \o stream) \o new
        <4>1. ASSUME NEW S, NEW a \in Seq(S), NEW b \in Seq(S), NEW c \in Seq(S)
              PROVE  a \o (b \o c) = (a \o b) \o c
          OBVIOUS
        <4>2. stream \in Seq(Bytes) /\ new \in Seq(Bytes)
          BY <1>2, <1>5
        <4> QED BY <3>1, <4>1, <4>2
      <3> QED BY <1>1, <1>6, <3>2 DEF Pending
    <2>4. new \in Seq(Bytes)
      BY <1>5
    <2>3. /\ Pending \o new \in Seq(Bytes) /\ Len(Pending \o new) = Len(Pending) + Len(new)
          /\ \A i \in 1..Len(Pending) : (Pending \o new)[i] = Pending[i]
          /\ \A i \in 1..Len(new) : (Pending \o new)[Len(Pending) + i] = new[i]
      BY <2>4, <2>1, Joined
    <2> QED BY <1>5, <2>1, <2>2, <2>3
  <1>11. Framed(Pending', frames')
    <2>1. Longer(frames', frames, n)
      BY <1>4 DEF Longer, N
    <2>2. Behind(Pending', Pending, Len(frames) + 1, HdrSize + n)
      BY <1>10 DEF Behind, N, W
    <2>3. Framed(Pending, frames)
      BY DEF WireInv
    <2> QED BY <1>2, <1>4, <1>10, <2>1, <2>2, <2>3, FrameAppended
  <1>12. FramerInv'
    <2>1. CASE Len(rx_hdr) < HdrSize
      <3>1. Len(rx_hdr) # HdrSize
        BY <1>2, <2>1, SizeAssumption
      <3> QED BY <1>1, <2>1, <3>1 DEF WireInv, FramerInv
    <2>2. CASE Len(rx_hdr) = HdrSize
      <3>1. Pending[1] = rx_hdr[1] /\ Pending # <<>>
        <4>1. /\ Len(Pending) = Len(rx_hdr) + Len(rx_data) + Len(stream)
              /\ \A i \in 1..Len(rx_hdr) : Pending[i] = rx_hdr[i]
          BY PendingFacts DEF WireInv
        <4>2. 1 \in 1..Len(rx_hdr) /\ Len(rx_data) \in Nat /\ Len(stream) \in Nat
          BY <1>2, <2>2, SizeAssumption
        <4>3. Len(Pending) # 0
          BY <1>2, <4>1, <4>2
        <4> QED BY <4>1, <4>2, <4>3
      <3>2. rx_hdr[1][1] \in DOMAIN frames
        BY <3>1, NextNoType
      <3>3. frames'[rx_hdr[1][1]] = frames[rx_hdr[1][1]]
        BY <1>4, <3>2
      <3> QED BY <1>1, <2>2, <3>3 DEF WireInv, FramerInv
    <2>3. Len(rx_hdr) < HdrSize \/ Len(rx_hdr) = HdrSize
      BY SizeAssumption DEF WireInv, WireTypeOK
    <2> QED BY <2>1, <2>2, <2>3
  <1>13. NextNo <= NextNo'
    <2>1. CASE Pending = <<>>
      <3>1. Len(Pending) = 0 /\ 1 \in 1..W
        BY <1>3, <2>1, SizeAssumption DEF W
      <3>2. Pending'[1] = <<N, 1>>
        <4>1. Pending'[Len(Pending) + 1] = <<N, 1>>
          BY <1>10, <3>1, Zenon
        <4>2. Len(Pending) + 1 = 1
          BY <3>1
        <4> QED BY <4>1, <4>2, Zenon
      <3>3. Pending' # <<>>
        BY <1>10, <3>1, <1>3
      <3>4. NextNo' = N /\ NextNo = N
        BY <2>1, <3>2, <3>3 DEF NextNo, N
      <3> QED BY <1>3, <3>4
    <2>2. CASE Pending # <<>>
      <3>1. Len(Pending) # 0 /\ Len(Pending) \in Nat
        BY <1>10, <2>2
      <3>2. 1 \in 1..Len(Pending) /\ Len(Pending') # 0
        BY <1>3, <1>10, <3>1
      <3>3. Pending'[1] = Pending[1] /\ Pending' # <<>>
        BY <1>10, <3>2
      <3>4. NextNo' = NextNo
        BY <2>2, <3>3 DEF NextNo
      <3> QED BY <3>4, NextNoType
    <2> QED BY <2>1, <2>2
  <1> QED BY <1>3, <1>4, <1>8, <1>9, <1>11, <1>12, <1>13 DEF WireStep, WireInv, N

\* A connection the relay has closed, a new one, a lost one.
LEMMA RelayCloseWire == WireInv /\ RelayClose => WireStep
  <1> SUFFICES ASSUME WireInv, RelayClose PROVE WireStep
    OBVIOUS
  <1>1. /\ peer_up' = FALSE
        /\ UNCHANGED <<frames, stream, pkt_open, rx_hdr, rx_data, rx_expected>>
    BY DEF RelayClose, framerVars
  <1>2. WireTypeOK' /\ FramerInv'
    BY <1>1 DEF WireInv, WireTypeOK, FramerInv
  <1>3. Pending' = Pending
    BY <1>1 DEF Pending
  <1> QED BY <1>1, <1>2, <1>3, WireMoved

LEMMA PktOpenWire == WireInv /\ PktOpen => WireStep
  <1> SUFFICES ASSUME WireInv, PktOpen PROVE WireStep
    OBVIOUS
  <1>1. /\ ~pkt_open /\ pkt_open' = TRUE /\ peer_up' = TRUE /\ stream' = <<>>
        /\ UNCHANGED <<frames, rx_hdr, rx_data, rx_expected>>
    BY DEF PktOpen, framerVars
  <1>2. rx_hdr = <<>> /\ rx_data = <<>>
    BY <1>1 DEF WireInv, FramerInv
  <1>3. WireTypeOK'
    BY <1>1 DEF WireInv, WireTypeOK
  <1>4. FramesFit' /\ FramerInv'
    BY <1>1 DEF WireInv, FramesFit, FramerInv
  <1>5. Pending' = <<>>
    <2>1. (<<>> \o <<>>) \o <<>> = <<>>
      OBVIOUS
    <2> QED BY <1>1, <1>2, <2>1 DEF Pending
  <1> QED BY <1>1, <1>3, <1>4, <1>5, WireCleared

LEMMA PktLostWire == WireInv /\ PktLost => WireStep
  BY CloseWire DEF PktLost

LEMMA RebootWire == WireInv /\ Reboot => WireStep
  BY CloseWire DEF Reboot

\* What one recv() takes and leaves.
LEMMA Recv ==
  ASSUME WireTypeOK, NEW n \in 1..Len(stream)
  PROVE  LET a == SubSeq(stream, 1, n)
             b == SubSeq(stream, n + 1, Len(stream))
         IN  /\ a \in Seq(Bytes) /\ Len(a) = n /\ b \in Seq(Bytes)
             /\ Len(b) = Len(stream) - n
             /\ \A i \in 1..n : a[i] = stream[i]
             /\ \A i \in 1..(Len(stream) - n) : b[i] = stream[n + i]
             /\ (rx_hdr \o (rx_data \o a)) \o b = Pending
             /\ rx_data = <<>> => ((rx_hdr \o a) \o <<>>) \o b = Pending
  <1> DEFINE a == SubSeq(stream, 1, n)
             b == SubSeq(stream, n + 1, Len(stream))
  <1>1. stream \in Seq(Bytes) /\ rx_hdr \in Seq(Bytes) /\ rx_data \in Seq(Bytes) /\ Len(stream) \in Nat
    BY DEF WireTypeOK
  <1>2. /\ a \in Seq(Bytes) /\ Len(a) = n /\ b \in Seq(Bytes)
        /\ Len(b) = Len(stream) - n
        /\ \A i \in 1..n : a[i] = stream[i]
        /\ \A i \in 1..(Len(stream) - n) : b[i] = stream[n + i]
    <2>1. n \in 0..Len(stream)
      BY <1>1
    <2> QED BY <1>1, <2>1, Parts
  <1> HIDE DEF a, b
  <1>3. Len(stream) = Len(a) + Len(b)
    BY <1>1, <1>2
  <1>4. /\ \A i \in 1..Len(a) : stream[i] = a[i]
        /\ \A i \in 1..Len(b) : stream[Len(a) + i] = b[i]
    BY <1>2
  <1>5. /\ (rx_hdr \o (rx_data \o a)) \o b = (rx_hdr \o rx_data) \o stream
        /\ ((rx_hdr \o a) \o <<>>) \o b = (rx_hdr \o <<>>) \o stream
    <2>1. a \o b = stream
      BY <1>1, <1>2, <1>3, <1>4, Cut
    <2>2. a \in Seq(Bytes) /\ b \in Seq(Bytes)
      BY <1>2
    <2>3. rx_hdr \in Seq(Bytes) /\ rx_data \in Seq(Bytes)
      BY <1>1
    <2>4. (rx_hdr \o (rx_data \o a)) \o b = (rx_hdr \o rx_data) \o (a \o b)
      <3>1. rx_hdr \o rx_data \in Seq(Bytes)
        BY <2>3
      <3>2. rx_hdr \o (rx_data \o a) = (rx_hdr \o rx_data) \o a
        BY <2>2, <2>3
      <3>3. ((rx_hdr \o rx_data) \o a) \o b = (rx_hdr \o rx_data) \o (a \o b)
        BY <2>2, <3>1
      <3> QED BY <3>2, <3>3
    <2>5. ((rx_hdr \o a) \o <<>>) \o b = (rx_hdr \o <<>>) \o (a \o b)
      BY <2>2, <2>3, MovedToHeader
    <2> QED BY <2>1, <2>4, <2>5
  <1> QED BY <1>2, <1>5 DEF a, b, Pending

\* The length read is that of the frame whose prefix it is.
LEMMA DecodeFirst ==
  ASSUME WireTypeOK, FramesFit, NEW hdr \in Seq(Bytes), Len(hdr) = HdrSize,
         NEW g \in DOMAIN frames, \A i \in 1..HdrSize : hdr[i] = <<g, i>>
  PROVE  Decode(hdr) = {frames[g]}
  <1>1. ASSUME NEW f \in 1..Len(frames)
        PROVE  /\ SubSeq(Wire(f), 1, HdrSize) \in Seq(Bytes)
               /\ Len(SubSeq(Wire(f), 1, HdrSize)) = HdrSize
               /\ \A i \in 1..HdrSize : SubSeq(Wire(f), 1, HdrSize)[i] = <<f, i>>
    <2>1. /\ f \in 1..SendMax /\ f \in DOMAIN frames /\ HdrSize \in Nat
          /\ frames[f] \in 1..MaxFrame
      <3>1. /\ Len(frames) \in Nat /\ DOMAIN frames = 1..Len(frames) /\ Len(frames) <= SendMax
        BY DEF WireTypeOK
      <3> QED BY <3>1, SizeAssumption, PktBoundAssumption DEF FramesFit
    <2>2. frames[f] \in Nat /\ frames[f] <= MaxFrame
      BY <2>1, SizeAssumption
    <2>3. Wire(f) \in Seq(Bytes)
      BY <2>1, <2>2, WireBytes DEF Wire
    <2>4. /\ Len(Wire(f)) = HdrSize + frames[f]
          /\ \A i \in 1..(HdrSize + frames[f]) : Wire(f)[i] = <<f, i>>
      BY <2>1, <2>2 DEF Wire
    <2>5. HdrSize \in 0..Len(Wire(f)) /\ \A i \in 1..HdrSize : Wire(f)[i] = <<f, i>>
      BY <2>1, <2>2, <2>4
    <2> HIDE DEF Wire
    <2>6. /\ SubSeq(Wire(f), 1, HdrSize) \in Seq(Bytes) /\ Len(SubSeq(Wire(f), 1, HdrSize)) = HdrSize
          /\ \A i \in 1..HdrSize : SubSeq(Wire(f), 1, HdrSize)[i] = Wire(f)[i]
      BY <2>3, <2>5, Parts
    <2> QED BY <2>5, <2>6
  <1>2. g \in 1..Len(frames) /\ 1 \in 1..HdrSize
    BY SizeAssumption DEF WireTypeOK
  <1>3. ASSUME NEW s \in Seq(Bytes), Len(s) = HdrSize, \A i \in 1..HdrSize : s[i] = <<g, i>>
        PROVE  hdr = s
    <2>1. Len(hdr) = Len(s) /\ \A i \in 1..Len(hdr) : hdr[i] = s[i]
      BY <1>3
    <2> QED BY <2>1, SameElements
  <1>4. hdr = SubSeq(Wire(g), 1, HdrSize)
    BY <1>1, <1>2, <1>3
  <1>5. ASSUME NEW f \in 1..Len(frames), hdr = SubSeq(Wire(f), 1, HdrSize) PROVE f = g
    <2>1. SubSeq(Wire(f), 1, HdrSize)[1] = <<f, 1>> /\ hdr[1] = <<g, 1>>
      BY <1>1, <1>2
    <2>2. <<f, 1>> = <<g, 1>>
      BY <1>5, <2>1
    <2> QED BY <2>2
  <1>6. {f \in 1..Len(frames) : hdr = SubSeq(Wire(f), 1, HdrSize)} = {g}
    BY <1>2, <1>4, <1>5
  <1> QED BY <1>6 DEF Decode

\* A recv() for the length prefix.
LEMMA ReadHeaderWire == WireInv /\ PktReadHeader => WireStep
  <1> SUFFICES ASSUME WireInv, PktReadHeader PROVE WireStep
    OBVIOUS
  <1>1. PICK n \in 1..(HdrSize - Len(rx_hdr)) :
          LET hdr == rx_hdr \o SubSeq(stream, 1, n) IN
          /\ n <= Len(stream)
          /\ IF Len(hdr) < HdrSize
             THEN /\ rx_hdr' = hdr
                  /\ stream' = SubSeq(stream, n + 1, Len(stream))
                  /\ UNCHANGED <<peer_up, pkt_open, rx_data, rx_expected>>
             ELSE \E size \in Decode(hdr) :
                  IF size \in 1..MaxFrame
                  THEN /\ rx_hdr' = hdr /\ rx_data' = <<>> /\ rx_expected' = size
                       /\ stream' = SubSeq(stream, n + 1, Len(stream))
                       /\ UNCHANGED <<peer_up, pkt_open>>
                  ELSE PktClose
    BY DEF PktReadHeader
  <1>2. pkt_open /\ peer_up /\ Len(rx_hdr) < HdrSize /\ UNCHANGED frames
    BY DEF PktReadHeader
  <1> DEFINE a   == SubSeq(stream, 1, n)
             b   == SubSeq(stream, n + 1, Len(stream))
             hdr == rx_hdr \o a
  <1>3. WireTypeOK /\ FramesFit /\ FramerInv /\ rx_data = <<>> /\ rx_expected = 0
    BY <1>2 DEF WireInv, FramerInv
  <1>4. Len(rx_hdr) \in Nat /\ Len(stream) \in Nat /\ rx_hdr \in Seq(Bytes)
    BY <1>3 DEF WireTypeOK
  <1>5. n \in 1..Len(stream) /\ n \in Nat /\ Len(rx_hdr) + n <= HdrSize
    <2>1. n <= Len(stream)
      BY <1>1
    <2> QED BY <1>2, <1>4, <2>1, SizeAssumption
  <1>6. /\ a \in Seq(Bytes) /\ Len(a) = n /\ b \in Seq(Bytes)
        /\ (hdr \o <<>>) \o b = Pending
    BY <1>3, <1>5, Recv
  <1>7. hdr \in Seq(Bytes) /\ Len(hdr) = Len(rx_hdr) + n
    <2>1. a \in Seq(Bytes) /\ Len(a) = n
      BY <1>6
    <2> HIDE DEF a
    <2> QED BY <1>4, <2>1, Joined
  <1>8. IF Len(hdr) < HdrSize
        THEN /\ rx_hdr' = hdr /\ stream' = b
             /\ UNCHANGED <<peer_up, pkt_open, rx_data, rx_expected>>
        ELSE \E size \in Decode(hdr) :
             IF size \in 1..MaxFrame
             THEN /\ rx_hdr' = hdr /\ rx_data' = <<>> /\ rx_expected' = size
                  /\ stream' = b /\ UNCHANGED <<peer_up, pkt_open>>
             ELSE PktClose
    BY <1>1
  <1> HIDE DEF a, b, hdr
  <1>9. CASE Len(hdr) < HdrSize
    <2>1. /\ rx_hdr' = hdr /\ stream' = b /\ rx_data' = <<>> /\ rx_expected' = 0
          /\ UNCHANGED <<peer_up, pkt_open>>
      BY <1>3, <1>8, <1>9
    <2>2. WireTypeOK'
      BY <1>2, <1>3, <1>6, <1>7, <1>9, <2>1, SizeAssumption DEF WireTypeOK
    <2>3. FramerInv'
      BY <1>2, <1>7, <1>9, <2>1, SizeAssumption DEF FramerInv
    <2>4. Pending' = Pending
      BY <1>6, <2>1 DEF Pending
    <2> QED BY <1>2, <2>2, <2>3, <2>4, WireMoved
  <1>10. CASE ~(Len(hdr) < HdrSize)
    <2>1. Len(hdr) = HdrSize
      BY <1>4, <1>5, <1>7, <1>10, SizeAssumption
    <2>2. PICK size \in Decode(hdr) :
             IF size \in 1..MaxFrame
             THEN /\ rx_hdr' = hdr /\ rx_data' = <<>> /\ rx_expected' = size
                  /\ stream' = b /\ UNCHANGED <<peer_up, pkt_open>>
             ELSE PktClose
      BY <1>8, <1>10
    <2>3. \A i \in 1..HdrSize : hdr[i] = Pending[i]
      <3>1. <<>> \in Seq(Bytes)
        OBVIOUS
      <3>2. \A i \in 1..Len(hdr) : ((hdr \o <<>>) \o b)[i] = hdr[i]
        BY <1>6, <1>7, <3>1, Elements
      <3> QED BY <1>6, <2>1, <3>2
    <2> DEFINE g == Pending[1][1]
    <2>4. Pending # <<>>
      <3>1. Len(Pending) = Len(rx_hdr) + Len(rx_data) + Len(stream)
        BY <1>3, PendingFacts
      <3>2. Len(rx_data) = 0
        BY <1>3
      <3>3. Len(Pending) # 0
        BY <1>4, <1>5, <3>1, <3>2
      <3> QED BY <3>3
    <2>5. /\ g \in DOMAIN frames /\ frames[g] \in 1..MaxFrame
          /\ \A j \in 1..(HdrSize + frames[g]) : Pending[j] = <<g, j>>
      <3>1. Pending \in Seq(Bytes) /\ frames \in Seq(Lens)
        BY <1>3, PendingFacts DEF WireTypeOK
      <3> QED BY <1>3, <2>4, <3>1, FirstFrame DEF WireInv
    <2> HIDE DEF g
    <2>6. \A i \in 1..HdrSize : hdr[i] = <<g, i>>
      <3>1. \A i \in 1..HdrSize : i \in 1..(HdrSize + frames[g])
        BY <2>5, SizeAssumption
      <3> QED BY <2>3, <2>5, <3>1
    <2>7. size = frames[g]
      <3>1. Decode(hdr) = {frames[g]}
        BY <1>3, <1>7, <2>1, <2>5, <2>6, DecodeFirst
      <3> QED BY <3>1
    <2>8. /\ rx_hdr' = hdr /\ rx_data' = <<>> /\ rx_expected' = frames[g]
          /\ stream' = b /\ UNCHANGED <<peer_up, pkt_open>>
      BY <2>2, <2>5, <2>7
    <2>9. WireTypeOK'
      <3>1. frames[g] \in 0..MaxFrame /\ Len(<<>>) <= MaxFrame /\ <<>> \in Seq(Bytes)
        BY <2>5, SizeAssumption
      <3>2. Len(hdr) <= HdrSize
        BY <2>1, SizeAssumption
      <3> QED BY <1>2, <1>3, <1>6, <1>7, <2>8, <3>1, <3>2 DEF WireTypeOK
    <2>10. FramerInv'
      <3>1. hdr[1][1] = g
        <4>1. 1 \in 1..HdrSize
          BY SizeAssumption
        <4>2. hdr[1] = <<g, 1>>
          BY <2>6, <4>1
        <4> QED BY <4>2
      <3>2. ~(Len(rx_hdr') < HdrSize) /\ pkt_open'
        BY <1>2, <2>1, <2>8, SizeAssumption
      <3>3. rx_expected' \in 1..MaxFrame /\ Len(rx_data') < rx_expected'
        BY <2>5, <2>8
      <3>4. rx_expected' = frames'[rx_hdr'[1][1]]
        BY <1>2, <2>8, <3>1
      <3> QED BY <3>2, <3>3, <3>4 DEF FramerInv
    <2>11. Pending' = Pending
      BY <1>6, <2>8 DEF Pending
    <2> QED BY <1>2, <2>9, <2>10, <2>11, WireMoved
  <1> QED BY <1>9, <1>10

\* A recv() for the body: it may complete the frame whose bytes come first.
Completes(data) ==
    /\ data \in Seq(Bytes) /\ NextNo \in DOMAIN frames
    /\ Len(data) = frames[NextNo]
    /\ \A i \in 1..frames[NextNo] : data[i] = <<NextNo, HdrSize + i>>
    /\ NextNo < NextNo'

LEMMA ReadBodyWire ==
  ASSUME WireInv, PktReadBody
  PROVE  /\ WireStep
         /\ \/ UNCHANGED <<regVars, boxVars>>
            \/ \E data \in Seq(Bytes) : Completes(data) /\ Accept(data)
  <1>1. PICK n \in 1..(rx_expected - Len(rx_data)) :
          LET data == rx_data \o SubSeq(stream, 1, n) IN
          /\ n <= Len(stream)
          /\ stream' = SubSeq(stream, n + 1, Len(stream))
          /\ IF Len(data) < rx_expected
             THEN /\ rx_data' = data
                  /\ UNCHANGED <<regVars, rx_hdr, rx_expected, boxVars>>
             ELSE /\ rx_hdr' = <<>> /\ rx_data' = <<>> /\ rx_expected' = 0
                  /\ Accept(data)
    BY DEF PktReadBody
  <1>2. /\ pkt_open /\ peer_up /\ Len(rx_hdr) = HdrSize
        /\ UNCHANGED <<frames, peer_up, pkt_open>>
    BY DEF PktReadBody
  <1> DEFINE a    == SubSeq(stream, 1, n)
             b    == SubSeq(stream, n + 1, Len(stream))
             data == rx_data \o a
  <1>3. /\ WireTypeOK /\ FramesFit /\ FramerInv
        /\ rx_expected \in 1..MaxFrame /\ Len(rx_data) < rx_expected
        /\ rx_expected = frames[rx_hdr[1][1]]
    BY <1>2 DEF WireInv, FramerInv
  <1>4. /\ Len(rx_hdr) \in Nat /\ Len(rx_data) \in Nat /\ Len(stream) \in Nat
        /\ rx_hdr \in Seq(Bytes) /\ rx_data \in Seq(Bytes) /\ stream \in Seq(Bytes)
    BY <1>3 DEF WireTypeOK
  <1>5. n \in 1..Len(stream) /\ n \in Nat /\ Len(rx_data) + n <= rx_expected
    <2>1. n <= Len(stream)
      BY <1>1
    <2> QED BY <1>3, <1>4, <2>1, SizeAssumption
  <1>6. /\ a \in Seq(Bytes) /\ Len(a) = n /\ b \in Seq(Bytes) /\ Len(b) = Len(stream) - n
        /\ \A i \in 1..(Len(stream) - n) : b[i] = stream[n + i]
        /\ (rx_hdr \o data) \o b = Pending
    BY <1>3, <1>5, Recv
  <1>7. data \in Seq(Bytes) /\ Len(data) = Len(rx_data) + n
    <2>1. a \in Seq(Bytes) /\ Len(a) = n
      BY <1>6
    <2> HIDE DEF a
    <2> QED BY <1>4, <2>1, Joined
  <1>8. /\ stream' = b
        /\ IF Len(data) < rx_expected
           THEN rx_data' = data /\ UNCHANGED <<regVars, rx_hdr, rx_expected, boxVars>>
           ELSE /\ rx_hdr' = <<>> /\ rx_data' = <<>> /\ rx_expected' = 0
                /\ Accept(data)
    BY <1>1
  <1> HIDE DEF a, b, data
  <1>9. CASE Len(data) < rx_expected
    <2>1. /\ rx_data' = data /\ stream' = b /\ UNCHANGED <<rx_hdr, rx_expected>>
          /\ UNCHANGED <<regVars, boxVars>>
      BY <1>8, <1>9
    <2>2. WireTypeOK'
      <3>1. Len(data) <= MaxFrame
        BY <1>3, <1>4, <1>5, <1>7, <1>9, SizeAssumption
      <3> QED BY <1>2, <1>3, <1>6, <1>7, <2>1, <3>1 DEF WireTypeOK
    <2>3. FramerInv'
      <3>1. ~(Len(rx_hdr') < HdrSize)
        BY <1>2, <2>1, SizeAssumption
      <3> QED BY <1>2, <1>3, <1>9, <2>1, <3>1 DEF FramerInv
    <2>4. Pending' = Pending
      BY <1>6, <2>1 DEF Pending
    <2> QED BY <1>2, <2>1, <2>2, <2>3, <2>4, WireMoved
  <1>10. CASE ~(Len(data) < rx_expected)
    <2>1. Len(data) = rx_expected
      <3>1. rx_expected \in Nat /\ Len(data) \in Nat /\ Len(data) <= rx_expected
        BY <1>3, <1>4, <1>5, <1>7
      <3> QED BY <1>10, <3>1
    <2>2. /\ rx_hdr' = <<>> /\ rx_data' = <<>> /\ rx_expected' = 0 /\ stream' = b
          /\ Accept(data)
      BY <1>8, <1>10
    <2> DEFINE g == Pending[1][1]
               L == HdrSize + frames[g]
    <2>3. /\ \A i \in 1..HdrSize : Pending[i] = rx_hdr[i]
          /\ \A i \in 1..Len(data) : Pending[HdrSize + i] = data[i]
          /\ \A i \in 1..Len(b) : Pending[HdrSize + Len(data) + i] = b[i]
          /\ Len(Pending) = HdrSize + Len(data) + Len(b)
      <3>1. /\ Len((rx_hdr \o data) \o b) = Len(rx_hdr) + Len(data) + Len(b)
            /\ \A i \in 1..Len(rx_hdr) : ((rx_hdr \o data) \o b)[i] = rx_hdr[i]
            /\ \A i \in 1..Len(data) : ((rx_hdr \o data) \o b)[Len(rx_hdr) + i] = data[i]
            /\ \A i \in 1..Len(b) : ((rx_hdr \o data) \o b)[Len(rx_hdr) + Len(data) + i] = b[i]
        <4>1. rx_hdr \in Seq(Bytes) /\ data \in Seq(Bytes) /\ b \in Seq(Bytes)
          BY <1>4, <1>6, <1>7
        <4> QED BY <4>1, Elements
      <3> QED BY <1>2, <1>6, <3>1
    <2>4. g = rx_hdr[1][1] /\ Pending # <<>>
      <3>1. 1 \in 1..HdrSize /\ Len(b) \in Nat /\ Len(data) \in Nat
        BY <1>6, <1>7, SizeAssumption
      <3>2. Len(Pending) # 0
        BY <2>3, <3>1, SizeAssumption
      <3> QED BY <2>3, <3>1, <3>2
    <2>5. Pending \in Seq(Bytes) /\ frames \in Seq(Lens) /\ Framed(Pending, frames)
      BY <1>3, PendingFacts DEF WireTypeOK, WireInv
    <2>6. /\ g \in DOMAIN frames /\ frames[g] \in 1..MaxFrame
          /\ \A j \in 1..L : Pending[j] = <<g, j>>
      BY <1>3, <2>4, <2>5, FirstFrame
    <2>7. frames[g] = Len(data) /\ L \in Nat /\ frames[g] \in Nat
      BY <1>3, <2>1, <2>4, <2>6, SizeAssumption
    <2>8. NextNo = g
      BY <2>4 DEF NextNo
    <2> HIDE DEF g
    <2>9. \A i \in 1..frames[g] : data[i] = <<g, HdrSize + i>>
      <3>1. \A i \in 1..frames[g] : HdrSize + i \in 1..L
        BY <2>7, SizeAssumption
      <3> QED BY <2>3, <2>6, <2>7, <3>1
    <2>10. Pending' = b
      <3>1. (<<>> \o <<>>) \o b = b
        BY <1>6
      <3> QED BY <2>2, <3>1 DEF Pending
    <2>11. /\ Len(b) = Len(Pending) - L
           /\ \A i \in 1..Len(b) : b[i] = Pending[L + i]
      <3>1. L = HdrSize + Len(data)
        BY <2>7
      <3>2. Len(b) = Len(Pending) - L
        BY <1>6, <2>3, <2>7, <3>1, SizeAssumption
      <3> QED BY <2>3, <3>1, <3>2
    <2>12. Framed(b, frames) /\ (b # <<>> => b[1][1] = g + 1)
      <3>1. L \in Nat /\ L = HdrSize + frames[Pending[1][1]]
        BY <2>7 DEF g
      <3> HIDE DEF L
      <3>2. Framed(b, frames) /\ (b # <<>> => b[1][1] = Pending[1][1] + 1)
        BY <1>3, <1>6, <2>4, <2>5, <2>11, <3>1, FrameRemoved
      <3> QED BY <3>2 DEF g
    <2>13. WireTypeOK'
      <3>1. Len(<<>>) = 0 /\ <<>> \in Seq(Bytes) /\ 0 <= HdrSize /\ 0 <= MaxFrame /\ 0 \in 0..MaxFrame
        BY SizeAssumption
      <3> QED BY <1>2, <1>3, <1>6, <2>2, <3>1 DEF WireTypeOK
    <2>14. FramesFit' /\ FramerInv'
      <3>1. Len(rx_hdr') < HdrSize /\ Len(rx_hdr') # HdrSize
        BY <2>2, SizeAssumption
      <3> QED BY <1>2, <1>3, <2>2, <3>1 DEF FramesFit, FramerInv
    <2>15. NextNo < NextNo'
      <3>1. g \in Nat /\ g <= Len(frames) /\ Len(frames) \in Nat
        BY <2>5, <2>6
      <3>2. NextNo' = IF b = <<>> THEN Len(frames) + 1 ELSE g + 1
        BY <1>2, <2>10, <2>12 DEF NextNo
      <3> QED BY <2>8, <3>1, <3>2
    <2>16. WireStep
      <3>1. Framed(Pending', frames')
        BY <1>2, <2>10, <2>12
      <3>2. NextNo <= NextNo'
        <4>1. NextNo' \in Nat /\ NextNo \in Nat
          <5>1. Len(frames) \in Nat /\ g \in Nat
            BY <2>5, <2>6
          <5>2. NextNo' = IF b = <<>> THEN Len(frames) + 1 ELSE g + 1
            BY <1>2, <2>10, <2>12 DEF NextNo
          <5> QED BY <2>8, <5>1, <5>2
        <4> QED BY <2>15, <4>1
      <3> QED BY <1>2, <2>13, <2>14, <3>1, <3>2 DEF WireStep, WireInv
    <2>17. Completes(data)
      BY <1>7, <2>6, <2>7, <2>8, <2>9, <2>15 DEF Completes
    <2> QED BY <1>7, <2>2, <2>16, <2>17
  <1> QED BY <1>9, <1>10

\* Every step, as far as the wire goes.
LEMMA WireAll == WireInv /\ [PktNext]_pktVars => WireStep
  <1> SUFFICES ASSUME WireInv, [PktNext]_pktVars PROVE WireStep
    OBVIOUS
  <1>1. ASSUME NEW n \in Lens, RelaySend(n) PROVE WireStep
    BY <1>1, RelaySendWire
  <1>2. CASE RelayClose
    BY <1>2, RelayCloseWire
  <1>3. CASE PktOpen
    BY <1>3, PktOpenWire
  <1>4. CASE PktLost
    BY <1>4, PktLostWire
  <1>5. CASE PktReadHeader
    BY <1>5, ReadHeaderWire
  <1>6. CASE PktReadBody
    BY <1>6, ReadBodyWire
  <1>7. CASE EventTask
    <2>1. UNCHANGED wireVars
      BY <1>7 DEF EventTask, TaskReadEvent, TaskPollMailbox, TaskAck, TaskReadLen, TaskClear,
        TaskCopy, TaskConsume, TaskDeliver, DeviceIdle, wireVars
    <2> QED BY <2>1, WireSame
  <1>8. CASE NetifInit \/ OtherEvent \/ OtherTakesEvent
    <2>1. UNCHANGED wireVars
      BY <1>8 DEF NetifInit, OtherEvent, OtherTakesEvent, OtherIdle, wireVars
    <2> QED BY <2>1, WireSame
  <1>9. CASE Reboot
    BY <1>9, RebootWire
  <1>10. CASE UNCHANGED pktVars
    <2>1. UNCHANGED wireVars
      BY <1>10 DEF pktVars, wireVars
    <2> QED BY <2>1, WireSame
  <1> QED BY <1>1, <1>2, <1>3, <1>4, <1>5, <1>6, <1>7, <1>8, <1>9, <1>10 DEF PktNext

\* ---- The mailbox and the event task -------------------------------------------

\* A step that leaves them alone: the frames that come next only get later.
LEMMA BoxSame ==
  ASSUME WireInv, BoxInv, WireStep, rx_addr' \in BOOLEAN, UNCHANGED <<rx_len, rx_buf, taskVars>>
  PROVE  BoxInv'
  <1>1. /\ UNCHANGED <<rx_len, rx_buf, pc, evt, len, copy, delivered>>
        /\ BoxTypeOK /\ TaskInv /\ OrderInv
    BY DEF taskVars, BoxInv
  <1>2. BoxTypeOK'
    BY <1>1 DEF BoxTypeOK
  <1>3. TaskInv'
    BY <1>1 DEF TaskInv
  <1>4. LastNo' = LastNo /\ BoxNo' = BoxNo /\ CopyNo' = CopyNo
    BY <1>1 DEF LastNo, BoxNo, CopyNo
  <1>5. NextNo \in Nat /\ NextNo' \in Nat /\ NextNo <= NextNo'
    <2>1. NextNo \in Nat
      BY NextNoType
    <2>2. NextNo' \in Nat
      BY NextNoPrime DEF WireStep
    <2> QED BY <2>1, <2>2 DEF WireStep
  <1>6. \A f \in DOMAIN frames : f \in DOMAIN frames' /\ frames'[f] = frames[f] /\ f \in Nat
    BY DEF WireStep, WireInv, WireTypeOK
  <1>7. LastNo' \in Nat /\ LastNo' < NextNo'
    BY <1>1, <1>4, <1>5 DEF OrderInv
  <1>8. ASSUME rx_len' # 0 PROVE BoxOrdered'
    <2>1. BoxOrdered
      BY <1>1, <1>8 DEF OrderInv
    <2>2. BoxNo' < NextNo'
      BY <1>4, <1>5, <1>6, <2>1 DEF BoxOrdered
    <2> QED BY <1>1, <1>4, <1>6, <2>1, <2>2 DEF BoxOrdered
  <1>9. ASSUME pc' = "deliver" PROVE CopyOrdered'
    <2>1. CopyOrdered
      BY <1>1, <1>9 DEF OrderInv
    <2>2. CopyNo' < NextNo'
      BY <1>4, <1>5, <1>6, <2>1 DEF CopyOrdered
    <2>3. copy' = Body(CopyNo)'
      BY <1>1, <1>4, <1>6, <2>1 DEF CopyOrdered, Body
    <2> QED BY <1>1, <1>4, <1>6, <2>1, <2>2, <2>3 DEF CopyOrdered
  <1> QED BY <1>2, <1>3, <1>7, <1>8, <1>9 DEF BoxInv, OrderInv

\* A frame put into the mailbox is the newest of all.
LEMMA AcceptBox ==
  ASSUME WireInv, BoxInv, WireStep, NEW data \in Seq(Bytes), Completes(data), Accept(data),
         UNCHANGED taskVars, UNCHANGED frames
  PROVE  BoxInv'
  <1>1. CASE UNCHANGED <<regVars, boxVars>>
    <2>1. rx_addr' \in BOOLEAN /\ UNCHANGED <<rx_len, rx_buf>>
      BY <1>1 DEF boxVars, BoxInv, BoxTypeOK
    <2> QED BY <2>1, BoxSame
  <1>2. CASE rx_len = 0 /\ rx_addr
    <2>1. /\ rx_buf' = [i \in 1..MaxFrame |-> IF i <= Len(data) THEN data[i] ELSE rx_buf[i]]
          /\ rx_len' = Len(data) /\ UNCHANGED rx_addr
          /\ UNCHANGED <<pc, evt, len, copy, delivered>>
      BY <1>2 DEF Accept, taskVars
    <2>2. /\ Len(data) = frames[NextNo] /\ NextNo \in DOMAIN frames /\ NextNo < NextNo'
          /\ \A i \in 1..frames[NextNo] : data[i] = <<NextNo, HdrSize + i>>
      BY DEF Completes
    <2>3. Len(data) \in 1..MaxFrame /\ Len(data) \in Nat /\ DOMAIN data = 1..Len(data)
      BY <2>2 DEF WireInv, FramesFit
    <2>4. /\ \A i \in 1..Len(data) : i \in 1..MaxFrame
          /\ \A i \in 1..Len(data) : rx_buf'[i] = data[i]
      <3>1. \A i \in 1..Len(data) : i \in 1..MaxFrame /\ i <= Len(data)
        BY <2>3, SizeAssumption
      <3> QED BY <2>1, <3>1
    <2>5. BoxTypeOK /\ TaskInv /\ OrderInv
      BY DEF BoxInv
    <2>6. BoxTypeOK'
      <3>1. rx_len' \in 0..MaxFrame
        BY <2>1, <2>3, SizeAssumption
      <3>2. rx_buf' \in [1..MaxFrame -> Bytes \cup {NoBytes}]
        <4> SUFFICES ASSUME NEW i \in 1..MaxFrame
                     PROVE  (IF i <= Len(data) THEN data[i] ELSE rx_buf[i]) \in Bytes \cup {NoBytes}
          BY <2>1
        <4>1. CASE i <= Len(data)
          <5>1. i \in 1..Len(data)
            BY <2>3, <4>1, SizeAssumption
          <5> QED BY <4>1, <5>1
        <4>2. CASE ~(i <= Len(data))
          BY <2>5, <4>2 DEF BoxTypeOK
        <4> QED BY <4>1, <4>2
      <3> QED BY <2>1, <2>5, <3>1, <3>2 DEF BoxTypeOK
    <2>7. pc \notin {"copy", "consume"}
      BY <1>2, <2>5 DEF TaskInv, BoxTypeOK
    <2>8. TaskInv'
      BY <2>1, <2>7 DEF TaskInv
    <2>9. LastNo' = LastNo /\ CopyNo' = CopyNo /\ BoxNo' = NextNo
      <3>1. 1 \in 1..Len(data) /\ 1 \in 1..frames[NextNo]
        BY <2>2, <2>3
      <3>2. rx_buf'[1] = <<NextNo, HdrSize + 1>>
        BY <2>2, <2>4, <3>1
      <3>3. BoxNo' = NextNo
        <4>1. rx_buf'[1][1] = NextNo
          BY <3>2
        <4> QED BY <4>1 DEF BoxNo
      <3>4. LastNo' = LastNo /\ CopyNo' = CopyNo
        BY <2>1 DEF LastNo, CopyNo
      <3> QED BY <3>3, <3>4
    <2>10. /\ NextNo \in Nat /\ NextNo' \in Nat
           /\ \A f \in DOMAIN frames : f \in Nat
      BY NextNoType, NextNoPrime DEF WireStep, WireInv, WireTypeOK
    <2>11. LastNo \in Nat /\ LastNo < NextNo /\ LastNo' < NextNo'
      BY <2>2, <2>5, <2>9, <2>10 DEF OrderInv
    <2>12. BoxOrdered'
      BY <2>1, <2>2, <2>4, <2>9, <2>11 DEF BoxOrdered
    <2>13. ASSUME pc' = "deliver" PROVE CopyOrdered'
      <3>1. CopyOrdered
        BY <2>1, <2>5, <2>13 DEF OrderInv
      <3>2. CopyNo' < NextNo' /\ CopyNo' < BoxNo'
        BY <2>2, <2>9, <2>10, <3>1 DEF CopyOrdered
      <3>3. copy' = Body(CopyNo)'
        BY <2>1, <2>9, <3>1 DEF CopyOrdered, Body
      <3> QED BY <2>1, <2>9, <3>1, <3>2, <3>3 DEF CopyOrdered
    <2> QED BY <2>6, <2>8, <2>9, <2>11, <2>12, <2>13 DEF BoxInv, OrderInv
  <1> QED BY <1>1, <1>2 DEF Accept

\* The steps of the event task leave the wire alone.
LEMMA TaskWire ==
  ASSUME WireInv, DeviceIdle
  PROVE  /\ WireStep /\ NextNo' = NextNo
         /\ UNCHANGED <<frames, rx_addr, rx_buf>> /\ BoxNo' = BoxNo
  <1>1. UNCHANGED wireVars /\ UNCHANGED <<frames, rx_addr, rx_buf>>
    BY DEF DeviceIdle, wireVars, relayVars
  <1> QED BY <1>1, WireSame DEF BoxNo

\* A step of the task that neither copies nor delivers, and keeps the mailbox or
\* empties it, keeps the order.
LEMMA OrderKept ==
  ASSUME WireInv, OrderInv, DeviceIdle, UNCHANGED delivered, pc' # "deliver",
         rx_len' = rx_len \/ rx_len' = 0
  PROVE  OrderInv'
  <1>1. NextNo' = NextNo /\ BoxNo' = BoxNo /\ UNCHANGED <<frames, rx_buf>>
    BY TaskWire
  <1>2. LastNo' = LastNo
    BY DEF LastNo
  <1>3. ASSUME rx_len' # 0 PROVE BoxOrdered'
    <2>1. rx_len' = rx_len /\ BoxOrdered
      BY <1>3 DEF OrderInv
    <2> QED BY <1>1, <1>2, <2>1 DEF BoxOrdered
  <1> QED BY <1>1, <1>2, <1>3 DEF OrderInv

\* ---- The event task -------------------------------------------------------------

\* Steps that only move the event task, or empty a mailbox it does not copy.
LEMMA TaskMoves ==
  ASSUME RegsTypeOK, WireInv, BoxInv,
         TaskReadEvent \/ TaskPollMailbox \/ TaskAck \/ TaskClear
  PROVE  BoxInv'
  <1>1. BoxTypeOK /\ TaskInv /\ OrderInv
    BY DEF BoxInv
  <1>2. /\ DeviceIdle /\ UNCHANGED <<len, copy, delivered>>
        /\ pc' \in {"poll", "ack", "rx", "read"} /\ evt' \in {evt, event}
        /\ rx_len' = rx_len \/ rx_len' = 0
    BY DEF TaskReadEvent, TaskPollMailbox, TaskAck, TaskClear
  <1>3. UNCHANGED <<rx_addr, rx_buf>>
    BY <1>2 DEF DeviceIdle
  <1>4. BoxTypeOK'
    <2>1. rx_len' \in 0..MaxFrame
      BY <1>1, <1>2, SizeAssumption DEF BoxTypeOK
    <2>2. pc' \in TaskPcs /\ evt' \in Events \cup {NoEvent}
      BY <1>1, <1>2 DEF BoxTypeOK, RegsTypeOK, TaskPcs
    <2> QED BY <1>1, <1>2, <1>3, <2>1, <2>2 DEF BoxTypeOK
  <1>5. TaskInv'
    BY <1>2 DEF TaskInv
  <1>6. OrderInv'
    BY <1>1, <1>2, OrderKept
  <1> QED BY <1>4, <1>5, <1>6 DEF BoxInv

\* The read of RX_LEN.
LEMMA TaskReadLenBox ==
  ASSUME WireInv, BoxInv, NEW enough \in BOOLEAN, TaskReadLen(enough)
  PROVE  BoxInv'
  <1>1. BoxTypeOK /\ TaskInv /\ OrderInv
    BY DEF BoxInv
  <1>2. /\ DeviceIdle /\ UNCHANGED <<rx_len, evt, delivered>> /\ len' = rx_len /\ copy' = <<>>
        /\ pc' \in {"clear", "copy"} /\ (pc' = "copy" => rx_len # 0)
    BY DEF TaskReadLen
  <1>3. UNCHANGED <<rx_addr, rx_buf>>
    BY <1>2 DEF DeviceIdle
  <1>4. /\ rx_len \in Nat /\ Len(<<>>) = 0 /\ DOMAIN <<>> = {} /\ 0 <= MaxFrame
        /\ <<>> \in Seq(Bytes \cup {NoBytes})
    BY <1>1, SizeAssumption DEF BoxTypeOK
  <1>5. BoxTypeOK'
    <2>1. pc' \in TaskPcs
      BY <1>2 DEF TaskPcs
    <2> QED BY <1>1, <1>2, <1>3, <1>4, <2>1 DEF BoxTypeOK
  <1>6. TaskInv'
    <2>1. CASE pc' = "clear"
      BY <2>1 DEF TaskInv
    <2>2. CASE pc' = "copy"
      <3>1. rx_len' = len' /\ len' > 0
        BY <1>2, <1>4, <2>2
      <3>2. DOMAIN copy' = {} /\ Len(copy') < len'
        BY <1>2, <1>4, <3>1
      <3> QED BY <2>2, <3>1, <3>2 DEF TaskInv
    <2> QED BY <1>2, <2>1, <2>2
  <1>7. OrderInv'
    BY <1>1, <1>2, OrderKept
  <1> QED BY <1>5, <1>6, <1>7 DEF BoxInv

\* A byte of memcpy().
LEMMA TaskCopyBox == ASSUME WireInv, BoxInv, TaskCopy PROVE BoxInv'
  <1>1. BoxTypeOK /\ TaskInv /\ OrderInv
    BY DEF BoxInv
  <1> DEFINE k == Len(copy) + 1
  <1>2. /\ DeviceIdle /\ UNCHANGED <<rx_len, evt, len, delivered>> /\ pc = "copy"
        /\ copy' = Append(copy, rx_buf[k])
        /\ pc' = IF k = len THEN "consume" ELSE "copy"
    BY DEF TaskCopy
  <1>3. UNCHANGED <<rx_addr, rx_buf>>
    BY <1>2 DEF DeviceIdle
  <1>4. /\ rx_len = len /\ len > 0 /\ Len(copy) < len /\ len \in 0..MaxFrame
        /\ \A i \in DOMAIN copy : copy[i] = rx_buf[i]
        /\ copy \in Seq(Bytes \cup {NoBytes})
    BY <1>1, <1>2 DEF TaskInv, BoxTypeOK
  <1>5. Len(copy) \in Nat /\ DOMAIN copy = 1..Len(copy)
    BY <1>4
  <1>6. k \in 1..MaxFrame /\ k \in Nat /\ k <= len
    BY <1>4, <1>5, SizeAssumption
  <1>7. rx_buf[k] \in Bytes \cup {NoBytes}
    BY <1>1, <1>6 DEF BoxTypeOK
  <1>8. /\ copy' \in Seq(Bytes \cup {NoBytes}) /\ Len(copy') = k /\ DOMAIN copy' = 1..k
        /\ \A i \in 1..Len(copy) : copy'[i] = copy[i]
        /\ copy'[k] = rx_buf[k]
    <2> HIDE DEF k
    <2>1. k = Len(copy) + 1
      BY DEF k
    <2> QED BY <1>2, <1>4, <1>7, <2>1, Grown
  <1>9. \A i \in DOMAIN copy' : copy'[i] = rx_buf'[i]
    <2> SUFFICES ASSUME NEW i \in 1..k PROVE copy'[i] = rx_buf[i]
      BY <1>3, <1>8
    <2>1. i \in 1..Len(copy) \/ i = k
      BY <1>5, <1>6
    <2> QED BY <1>4, <1>5, <1>8, <2>1
  <1> HIDE DEF k
  <1>10. (pc' = "consume" /\ k = len) \/ (pc' = "copy" /\ k < len)
    BY <1>2, <1>4, <1>6
  <1>11. BoxTypeOK'
    <2>1. Len(copy') <= MaxFrame
      BY <1>4, <1>6, <1>8
    <2>2. pc' \in TaskPcs
      BY <1>10 DEF TaskPcs
    <2> QED BY <1>1, <1>2, <1>3, <1>8, <2>1, <2>2 DEF BoxTypeOK
  <1>12. TaskInv'
    BY <1>2, <1>4, <1>8, <1>9, <1>10 DEF TaskInv
  <1>13. OrderInv'
    BY <1>1, <1>2, <1>10, OrderKept
  <1> QED BY <1>11, <1>12, <1>13 DEF BoxInv

\* RX_LEN := 0.  What has been copied is the frame of the mailbox.
LEMMA TaskConsumeBox == ASSUME WireInv, BoxInv, TaskConsume PROVE BoxInv'
  <1>1. BoxTypeOK /\ TaskInv /\ OrderInv
    BY DEF BoxInv
  <1>2. /\ DeviceIdle /\ UNCHANGED <<evt, len, copy, delivered>> /\ pc = "consume"
        /\ rx_len' = 0 /\ pc' = "deliver"
    BY DEF TaskConsume
  <1>3. /\ NextNo' = NextNo /\ UNCHANGED <<frames, rx_addr, rx_buf>>
    BY <1>2, TaskWire
  <1>4. /\ rx_len = len /\ len > 0 /\ Len(copy) = len
        /\ \A i \in DOMAIN copy : copy[i] = rx_buf[i]
        /\ copy \in Seq(Bytes \cup {NoBytes}) /\ rx_len \in Nat
    BY <1>1, <1>2 DEF TaskInv, BoxTypeOK
  <1>5. BoxOrdered
    <2>1. rx_len # 0
      BY <1>4
    <2> QED BY <1>1, <2>1 DEF OrderInv
  <1>6. /\ Len(copy) = frames[BoxNo] /\ DOMAIN copy = 1..frames[BoxNo]
        /\ \A i \in 1..frames[BoxNo] : copy[i] = <<BoxNo, HdrSize + i>>
        /\ frames[BoxNo] \in Nat /\ frames[BoxNo] > 0
    <2>1. DOMAIN copy = 1..Len(copy)
      BY <1>4
    <2> QED BY <1>4, <1>5, <2>1 DEF BoxOrdered
  <1>7. CopyNo = BoxNo
    <2>1. 1 \in 1..frames[BoxNo]
      BY <1>6
    <2>2. copy[1] = <<BoxNo, HdrSize + 1>>
      BY <1>6, <2>1
    <2>3. copy[1][1] = BoxNo
      BY <2>2
    <2> QED BY <2>3 DEF CopyNo
  <1>8. copy = Body(BoxNo)
    <2>1. copy = [i \in DOMAIN copy |-> copy[i]]
      BY <1>4
    <2>2. copy = [i \in 1..frames[BoxNo] |-> <<BoxNo, HdrSize + i>>]
      BY <1>6, <2>1
    <2> QED BY <2>2 DEF Body
  <1>9. LastNo' = LastNo /\ CopyNo' = CopyNo
    BY <1>2 DEF LastNo, CopyNo
  <1>10. BoxTypeOK'
    <2>1. 0 \in 0..MaxFrame /\ pc' \in TaskPcs
      BY <1>2, SizeAssumption DEF TaskPcs
    <2> QED BY <1>1, <1>2, <1>3, <2>1 DEF BoxTypeOK
  <1>11. TaskInv'
    BY <1>2 DEF TaskInv
  <1>12. CopyOrdered'
    <2>1. copy' = Body(CopyNo)'
      BY <1>2, <1>3, <1>7, <1>8, <1>9 DEF Body
    <2> QED BY <1>2, <1>3, <1>5, <1>7, <1>9, <2>1 DEF CopyOrdered, BoxOrdered
  <1>13. OrderInv'
    BY <1>1, <1>2, <1>3, <1>9, <1>12 DEF OrderInv
  <1> QED BY <1>10, <1>11, <1>13 DEF BoxInv

\* esp_netif_receive()
LEMMA TaskDeliverBox ==
  ASSUME WireInv, BoxInv, NEW taken \in BOOLEAN, TaskDeliver(taken)
  PROVE  BoxInv' /\ (taken => LastNo' = CopyNo)
  <1>1. BoxTypeOK /\ TaskInv /\ OrderInv
    BY DEF BoxInv
  <1>2. /\ DeviceIdle /\ UNCHANGED <<rx_len, evt, len, copy>> /\ pc = "deliver"
        /\ pc' = "read"
        /\ delivered' = IF taken THEN Append(delivered, copy) ELSE delivered
    BY DEF TaskDeliver
  <1>3. /\ NextNo' = NextNo /\ BoxNo' = BoxNo /\ UNCHANGED <<frames, rx_addr, rx_buf>>
    BY <1>2, TaskWire
  <1>4. CopyOrdered
    BY <1>1, <1>2 DEF OrderInv
  <1>5. delivered \in Seq(Seq(Bytes \cup {NoBytes})) /\ copy \in Seq(Bytes \cup {NoBytes})
    BY <1>1 DEF BoxTypeOK
  <1>6. /\ Append(delivered, copy) \in Seq(Seq(Bytes \cup {NoBytes}))
        /\ Len(Append(delivered, copy)) = Len(delivered) + 1
        /\ Append(delivered, copy)[Len(delivered) + 1] = copy
        /\ Append(delivered, copy) # <<>>
    BY <1>5, Grown
  <1>7. taken => LastNo' = CopyNo
    <2> SUFFICES ASSUME taken PROVE LastNo' = CopyNo
      OBVIOUS
    <2>1. delivered' = Append(delivered, copy)
      BY <1>2
    <2>2. delivered' # <<>> /\ delivered'[Len(delivered')] = copy
      BY <1>6, <2>1
    <2> QED BY <2>2 DEF LastNo, CopyNo
  <1>8. ~taken => LastNo' = LastNo
    BY <1>2 DEF LastNo
  <1>9. BoxTypeOK'
    <2>1. delivered' \in Seq(Seq(Bytes \cup {NoBytes}))
      BY <1>2, <1>5, <1>6
    <2>2. pc' \in TaskPcs
      BY <1>2 DEF TaskPcs
    <2> QED BY <1>1, <1>2, <1>3, <2>1, <2>2 DEF BoxTypeOK
  <1>10. TaskInv'
    BY <1>2 DEF TaskInv
  <1>11. LastNo' \in Nat /\ LastNo' < NextNo'
    <2>1. CopyNo \in Nat
      BY <1>4 DEF CopyOrdered, WireInv, WireTypeOK
    <2> QED BY <1>1, <1>3, <1>4, <1>7, <1>8, <2>1 DEF OrderInv, CopyOrdered
  <1>12. ASSUME rx_len' # 0 PROVE BoxOrdered'
    <2>1. BoxOrdered /\ rx_len # 0
      BY <1>1, <1>2, <1>12 DEF OrderInv
    <2>2. LastNo' < BoxNo
      BY <1>4, <1>7, <1>8, <2>1 DEF CopyOrdered, BoxOrdered
    <2> QED BY <1>2, <1>3, <2>1, <2>2 DEF BoxOrdered
  <1>13. OrderInv'
    BY <1>2, <1>11, <1>12 DEF OrderInv
  <1> QED BY <1>7, <1>9, <1>10, <1>13 DEF BoxInv

\* ---- The whole ------------------------------------------------------------------

LEMMA RebootBox == ASSUME WireInv, BoxInv, Reboot PROVE BoxInv'
  <1>1. /\ rx_len' = 0 /\ pc' = "read" /\ evt' = NoEvent /\ len' = 0 /\ copy' = <<>>
        /\ UNCHANGED <<rx_addr, rx_buf, delivered>>
    BY DEF Reboot
  <1>2. NextNo \in Nat /\ NextNo' \in Nat /\ NextNo <= NextNo'
    BY RebootWire, NextNoType, NextNoPrime DEF WireStep
  <1>3. LastNo' = LastNo
    BY <1>1 DEF LastNo
  <1>4. BoxTypeOK'
    <2>1. /\ 0 \in 0..MaxFrame /\ pc' \in TaskPcs /\ <<>> \in Seq(Bytes \cup {NoBytes})
          /\ Len(<<>>) <= MaxFrame
      BY <1>1, SizeAssumption DEF TaskPcs
    <2> QED BY <1>1, <2>1 DEF BoxInv, BoxTypeOK
  <1>5. TaskInv'
    BY <1>1 DEF TaskInv
  <1>6. OrderInv'
    BY <1>1, <1>2, <1>3 DEF BoxInv, OrderInv
  <1> QED BY <1>4, <1>5, <1>6 DEF BoxInv

\* Every step, as far as the mailbox and the event task go.
LEMMA BoxAll == RegsTypeOK /\ WireInv /\ BoxInv /\ [PktNext]_pktVars => BoxInv'
  <1> SUFFICES ASSUME RegsTypeOK, WireInv, BoxInv, [PktNext]_pktVars PROVE BoxInv'
    OBVIOUS
  <1>0. WireStep /\ rx_addr \in BOOLEAN
    BY WireAll DEF BoxInv, BoxTypeOK
  <1>1. CASE PktReadBody
    <2>1. UNCHANGED taskVars /\ UNCHANGED frames
      BY <1>1 DEF PktReadBody
    <2>2. CASE UNCHANGED <<regVars, boxVars>>
      <3>1. rx_addr' \in BOOLEAN /\ UNCHANGED <<rx_len, rx_buf>>
        BY <1>0, <2>2 DEF boxVars
      <3> QED BY <1>0, <2>1, <3>1, BoxSame
    <2>3. ASSUME NEW data \in Seq(Bytes), Completes(data), Accept(data) PROVE BoxInv'
      BY <1>0, <2>1, <2>3, AcceptBox
    <2> QED BY <1>1, <2>2, <2>3, ReadBodyWire
  <1>2. CASE EventTask
    <2>1. CASE TaskReadEvent \/ TaskPollMailbox \/ TaskAck \/ TaskClear
      BY <2>1, TaskMoves
    <2>2. ASSUME NEW enough \in BOOLEAN, TaskReadLen(enough) PROVE BoxInv'
      BY <2>2, TaskReadLenBox
    <2>3. CASE TaskCopy
      BY <2>3, TaskCopyBox
    <2>4. CASE TaskConsume
      BY <2>4, TaskConsumeBox
    <2>5. ASSUME NEW taken \in BOOLEAN, TaskDeliver(taken) PROVE BoxInv'
      BY <2>5, TaskDeliverBox
    <2> QED BY <1>2, <2>1, <2>2, <2>3, <2>4, <2>5 DEF EventTask
  <1>3. CASE Reboot
    BY <1>3, RebootBox
  <1>4. CASE \/ \E n \in Lens : RelaySend(n)
             \/ RelayClose \/ PktOpen \/ PktLost \/ PktReadHeader
             \/ NetifInit \/ OtherEvent \/ OtherTakesEvent \/ UNCHANGED pktVars
    <2>1. rx_addr' \in BOOLEAN /\ UNCHANGED <<rx_len, rx_buf, taskVars>>
      BY <1>0, <1>4 DEF RelaySend, RelayClose, PktOpen, PktLost, PktReadHeader, NetifInit,
        OtherEvent, OtherTakesEvent, OtherIdle, pktVars, boxVars
    <2> QED BY <1>0, <2>1, BoxSame
  <1> QED BY <1>1, <1>2, <1>3, <1>4 DEF PktNext

LEMMA RegsAll == ASSUME RegsTypeOK, BoundsTypeOK, [PktNext]_pktVars PROVE RegsTypeOK' /\ BoundsTypeOK'
  <1>1. \/ \E e \in Events : PostEvent(e)
        \/ WriteEvent
        \/ UNCHANGED regVars
        \/ event' = NoEvent /\ irq_enable' = {} /\ irq' = FALSE
    <2>1. CASE PktReadBody
      <3>1. UNCHANGED regVars \/ PostEvent("RX_READY")
        BY <2>1 DEF PktReadBody, Accept
      <3> QED BY <3>1 DEF Events
    <2>2. CASE OtherEvent
      BY <2>2, OthersAssumption DEF OtherEvent
    <2>3. CASE EventTask
      BY <2>3 DEF EventTask, TaskReadEvent, TaskPollMailbox, TaskAck, TaskReadLen, TaskClear,
        TaskCopy, TaskConsume, TaskDeliver
    <2>4. CASE OtherTakesEvent \/ Reboot
      BY <2>4 DEF OtherTakesEvent, Reboot
    <2>5. CASE \/ \E n \in Lens : RelaySend(n)
               \/ RelayClose \/ PktOpen \/ PktLost \/ PktReadHeader \/ NetifInit
               \/ UNCHANGED pktVars
      BY <2>5 DEF RelaySend, RelayClose, PktOpen, PktLost, PktReadHeader, NetifInit, pktVars
    <2> QED BY <2>1, <2>2, <2>3, <2>4, <2>5 DEF PktNext
  <1>2. RegsTypeOK'
    BY <1>1 DEF RegsTypeOK, PostEvent, WriteEvent, UpdateIrq, regVars
  <1>3. BoundsTypeOK'
    <2>1. CASE PktOpen
      BY <2>1, PktBoundAssumption DEF PktOpen, BoundsTypeOK
    <2>2. CASE OtherEvent \/ OtherTakesEvent
      BY <2>2, PktBoundAssumption DEF OtherEvent, OtherTakesEvent, OtherIdle, BoundsTypeOK
    <2>3. CASE Reboot
      BY <2>3, PktBoundAssumption DEF Reboot, BoundsTypeOK
    <2>4. CASE EventTask
      BY <2>4 DEF EventTask, TaskReadEvent, TaskPollMailbox, TaskAck, TaskReadLen, TaskClear,
        TaskCopy, TaskConsume, TaskDeliver, DeviceIdle, BoundsTypeOK, boundVars
    <2>5. CASE \/ \E n \in Lens : RelaySend(n)
               \/ RelayClose \/ PktLost \/ PktReadHeader \/ PktReadBody \/ NetifInit
               \/ UNCHANGED pktVars
      BY <2>5 DEF RelaySend, RelayClose, PktLost, PktReadHeader, PktReadBody, NetifInit,
        pktVars, BoundsTypeOK, boundVars
    <2> QED BY <2>1, <2>2, <2>3, <2>4, <2>5 DEF PktNext
  <1> QED BY <1>2, <1>3

LEMMA PktInvInit == PktInit => PktInv
  <1> SUFFICES ASSUME PktInit PROVE PktInv
    OBVIOUS
  <1>1. /\ frames = <<>> /\ stream = <<>> /\ pkt_open = FALSE /\ rx_hdr = <<>> /\ rx_data = <<>>
        /\ rx_expected = 0 /\ rx_len = 0 /\ pc = "read" /\ delivered = <<>>
        /\ peer_up = FALSE /\ rx_addr = FALSE /\ evt = NoEvent /\ len = 0 /\ copy = <<>>
        /\ rx_buf = [i \in 1..MaxFrame |-> NoBytes]
    BY DEF PktInit
  <1>2. /\ Len(<<>>) = 0 /\ DOMAIN <<>> = {} /\ 0 <= HdrSize /\ 0 <= MaxFrame /\ 0 <= SendMax
        /\ 0 \in 0..MaxFrame /\ 0 < HdrSize
    BY SizeAssumption, PktBoundAssumption
  <1>3. \A S : <<>> \in Seq(S)
    OBVIOUS
  <1>4. Pending = <<>> /\ NextNo = 1 /\ LastNo = 0
    <2>1. (<<>> \o <<>>) \o <<>> = <<>>
      OBVIOUS
    <2>2. Pending = <<>>
      BY <1>1, <2>1 DEF Pending
    <2> QED BY <1>1, <1>2, <2>2 DEF NextNo, LastNo
  <1>5. WireTypeOK
    BY <1>1, <1>2, <1>3 DEF WireTypeOK
  <1>6. FramesFit /\ FramerInv
    BY <1>1, <1>2 DEF FramesFit, FramerInv
  <1>7. Framed(Pending, frames)
    BY <1>2, <1>4 DEF Framed
  <1>8. BoxTypeOK
    BY <1>1, <1>2, <1>3 DEF BoxTypeOK, TaskPcs
  <1>9. TaskInv /\ OrderInv
    BY <1>1, <1>4 DEF TaskInv, OrderInv
  <1>10. RegsTypeOK /\ BoundsTypeOK
    <2>1. RegsTypeOK
      BY DEF PktInit, RegsInit, RegsTypeOK
    <2>2. ConnMax \in 0..ConnMax /\ OtherMax \in 0..OtherMax /\ RebootMax \in 0..RebootMax
      BY PktBoundAssumption
    <2> QED BY <2>1, <2>2 DEF PktInit, BoundsTypeOK
  <1> QED BY <1>5, <1>6, <1>7, <1>8, <1>9, <1>10 DEF PktInv, WireInv, BoxInv

LEMMA PktInvStep == PktInv /\ [PktNext]_pktVars => PktInv'
  BY WireAll, BoxAll, RegsAll DEF PktInv, WireStep

LEMMA PktInvariance == PktSpec => []PktInv
  BY PktInvInit, PktInvStep, PTL DEF PktSpec

\* ---- The theorems ---------------------------------------------------------------

\* The registers, the socket, the framer, the mailbox and the event task keep their
\* types; a frame is never longer than the buffers.
THEOREM PktTypeCorrect == PktSpec => []PktTypeOK
  <1>1. PktInv => PktTypeOK
    BY DEF PktInv, WireInv, BoxInv, WireTypeOK, BoxTypeOK, BoundsTypeOK, PktTypeOK
  <1> QED BY <1>1, PktInvariance, PTL

\* The framer never reads a length out of a body: what it holds and what is in the
\* socket are whole consecutive frames of the relay, across partial recv()s, lost
\* connections, reconnects and resets.
THEOREM FramedCorrect == PktSpec => []StreamFramed
  <1>1. PktInv => StreamFramed
    <2> SUFFICES ASSUME WireInv PROVE StreamFramed
      BY DEF PktInv
    <2>1. Pending # <<>> =>
             /\ Pending[1][2] = 1
             /\ Pending[Len(Pending)] = <<Len(frames), HdrSize + frames[Len(frames)]>>
      BY DEF WireInv, Framed
    <2>2. \A i \in 1..(Len(Pending) - 1) : Pending[i + 1] = Successor(Pending[i])
      BY DEF WireInv, Framed, Successor
    <2>3. Len(rx_hdr) = HdrSize => rx_expected = frames[rx_hdr[1][1]]
      BY DEF WireInv, FramerInv
    <2> QED BY <2>1, <2>2, <2>3 DEF StreamFramed
  <1> QED BY <1>1, PktInvariance, PTL

\* The frame in the DMA buffer does not change under the memcpy() of the event task.
THEOREM MailboxCorrect == PktSpec => []MailboxStable
  <1>1. PktInv => MailboxStable
    <2> SUFFICES ASSUME BoxInv, pc \in {"copy", "consume"}
                 PROVE  rx_len = len /\ copy = SubSeq(rx_buf, 1, Len(copy))
      BY DEF PktInv, MailboxStable
    <2>1. /\ rx_len = len /\ len \in 0..MaxFrame /\ Len(copy) <= len
          /\ \A i \in DOMAIN copy : copy[i] = rx_buf[i]
      <3>1. CASE pc = "copy"
        BY <3>1 DEF BoxInv, TaskInv, BoxTypeOK
      <3>2. CASE pc = "consume"
        BY <3>2 DEF BoxInv, TaskInv, BoxTypeOK
      <3> QED BY <3>1, <3>2
    <2> DEFINE B == Bytes \cup {NoBytes}
    <2>2. copy \in Seq(B) /\ rx_buf \in [1..MaxFrame -> B]
      BY DEF BoxInv, BoxTypeOK
    <2> HIDE DEF B
    <2>3. rx_buf \in Seq(B) /\ Len(rx_buf) = MaxFrame
      BY <2>2, SizeAssumption
    <2>4. Len(copy) \in Nat /\ DOMAIN copy = 1..Len(copy)
      BY <2>2
    <2>5. Len(copy) \in 0..Len(rx_buf)
      BY <2>1, <2>3, <2>4, SizeAssumption
    <2>6. /\ SubSeq(rx_buf, 1, Len(copy)) \in Seq(B)
          /\ Len(SubSeq(rx_buf, 1, Len(copy))) = Len(copy)
          /\ \A i \in 1..Len(copy) : SubSeq(rx_buf, 1, Len(copy))[i] = rx_buf[i]
      BY <2>3, <2>5, Parts
    <2>7. \A i \in 1..Len(copy) : copy[i] = SubSeq(rx_buf, 1, Len(copy))[i]
      BY <2>1, <2>4, <2>6
    <2>8. copy = SubSeq(rx_buf, 1, Len(copy))
      BY <2>2, <2>6, <2>7, SameElements
    <2> QED BY <2>1, <2>8
  <1> QED BY <1>1, PktInvariance, PTL

\* ---- The receive path is a lossy FIFO ---------------------------------------------

\* The relay's frames, as the FIFO sees them.
Sent == [f \in 1..Len(frames) |-> Body(f)]

\* A frame sent is a frame put into the FIFO.
LEMMA SendMaps == ASSUME PktInv, NEW size \in Lens, RelaySend(size) PROVE Fifo!Send
  <1> DEFINE N == Len(frames) + 1
             x == [i \in 1..size |-> <<N, HdrSize + i>>]
  <1>1. /\ frames' = Append(frames, size) /\ Len(frames) < SendMax /\ UNCHANGED delivered
    BY DEF RelaySend, taskVars
  <1>2. frames \in Seq(Lens) /\ Len(frames) \in Nat
    BY DEF PktInv, WireInv, WireTypeOK
  <1>3. N \in 1..SendMax /\ N \in Nat
    BY <1>1, <1>2, PktBoundAssumption
  <1>4. /\ Len(frames') = N /\ frames'[N] = size
        /\ \A f \in 1..Len(frames) : frames'[f] = frames[f]
    BY <1>1, <1>2
  <1>5. Sent' = Append(Sent, x)
    <2> DEFINE T == Seq(Nat \X Nat)
    <2>1. ASSUME NEW f \in Nat, NEW m \in Nat
          PROVE  [i \in 1..m |-> <<f, HdrSize + i>>] \in T
      BY SizeAssumption
    <2>2. x \in T
      BY <1>3, <2>1, LensAssumption
    <2>3. \A f \in 1..Len(frames) : frames[f] \in Nat /\ f \in Nat
      <3>1. \A f \in 1..Len(frames) : frames[f] \in Lens
        BY <1>2
      <3>2. \A f \in 1..Len(frames) : f \in Nat
        BY <1>2
      <3> QED BY <3>1, <3>2, LensAssumption
    <2>4. \A f \in 1..N : f \in 1..Len(frames) \/ f = N
      BY <1>2
    <2>5. /\ \A f \in 1..Len(frames) : [i \in 1..frames[f] |-> <<f, HdrSize + i>>] \in T
          /\ \A f \in 1..N : [i \in 1..frames'[f] |-> <<f, HdrSize + i>>] \in T
      <3>1. \A f \in 1..N : frames'[f] \in Nat /\ f \in Nat
        BY <1>2, <1>4, <2>3, <2>4, LensAssumption
      <3> QED BY <2>1, <2>3, <3>1
    <2> HIDE DEF T, x
    <2>6. /\ Sent = [f \in 1..Len(frames) |-> [i \in 1..frames[f] |-> <<f, HdrSize + i>>]]
          /\ Sent' = [f \in 1..N |-> [i \in 1..frames'[f] |-> <<f, HdrSize + i>>]]
      BY <1>4 DEF Sent, Body
    <2> HIDE DEF N
    <2>7. /\ Sent \in Seq(T) /\ Sent' \in Seq(T) /\ Len(Sent) = Len(frames) /\ Len(Sent') = N
      BY <1>2, <1>3, <2>5, <2>6
    <2>8. /\ Append(Sent, x) \in Seq(T) /\ Len(Append(Sent, x)) = Len(frames) + 1
          /\ \A f \in 1..Len(frames) : Append(Sent, x)[f] = Sent[f]
          /\ Append(Sent, x)[Len(frames) + 1] = x
      BY <2>2, <2>7
    <2>9. /\ \A f \in 1..Len(frames) : Sent'[f] = Sent[f]
          /\ Sent'[N] = x
      <3>1. N \in 1..N /\ \A f \in 1..Len(frames) : f \in 1..N
        BY <1>2, <1>3 DEF N
      <3>2. Sent'[N] = [i \in 1..size |-> <<N, HdrSize + i>>]
        BY <1>4, <2>6, <3>1
      <3>3. \A f \in 1..Len(frames) : Sent'[f] = Sent[f]
        BY <1>4, <2>6, <3>1
      <3> QED BY <3>2, <3>3 DEF x
    <2>10. \A f \in 1..Len(Sent') : Sent'[f] = Append(Sent, x)[f]
      BY <2>4, <2>7, <2>8, <2>9 DEF N
    <2>11. Len(Sent') = Len(Append(Sent, x))
      BY <2>7, <2>8 DEF N
    <2> QED BY <2>7, <2>8, <2>10, <2>11, SameElements
  <1>6. x \in Bodies
    BY <1>3 DEF Bodies
  <1> HIDE DEF x
  <1>7. UNCHANGED <<delivered, LastNo>>
    BY <1>1 DEF LastNo
  <1>8. Sent' = [f \in 1..Len(frames) |-> Body(f)]' /\ Sent = [f \in 1..Len(frames) |-> Body(f)]
    BY DEF Sent
  <1> QED BY <1>5, <1>6, <1>7, <1>8 DEF Fifo!Send

\* A frame given to lwIP is one taken from the FIFO, behind the one before.
LEMMA DeliverMaps ==
  ASSUME PktInv, TaskDeliver(TRUE)
  PROVE  Fifo!Receive
  <1>1. WireInv /\ BoxInv /\ TRUE \in BOOLEAN
    BY DEF PktInv
  <1>2. LastNo' = CopyNo
    BY <1>1, TaskDeliverBox
  <1>3. /\ UNCHANGED frames /\ delivered' = Append(delivered, copy) /\ pc = "deliver"
    BY DEF TaskDeliver, DeviceIdle, relayVars
  <1>4. CopyOrdered /\ LastNo \in Nat
    BY <1>1, <1>3 DEF BoxInv, OrderInv
  <1>5. Sent' = Sent
    BY <1>3 DEF Sent, Body
  <1>6. /\ Len(Sent) = Len(frames) /\ CopyNo \in 1..Len(frames) /\ Sent[CopyNo] = copy
    BY <1>1, <1>4 DEF WireInv, WireTypeOK, CopyOrdered, Sent
  <1>7. CopyNo \in (LastNo + 1)..Len(Sent)
    BY <1>4, <1>6 DEF CopyOrdered
  <1>8. /\ delivered' = Append(delivered, Sent[CopyNo])
        /\ LastNo' = CopyNo
    BY <1>2, <1>3, <1>6
  <1> QED BY <1>5, <1>7, <1>8 DEF Fifo!Receive, Sent, LastNo

\* The receive path implements the lossy FIFO: what lwIP gets are whole frames of
\* the relay, in the order in which they were sent, and none of them twice.
THEOREM ImplementsFifo == PktSpec => ImplementsLossyFifo
  <1>1. PktInit => Fifo!Init
    <2> SUFFICES ASSUME PktInit PROVE Fifo!Init
      OBVIOUS
    <2>1. frames = <<>> /\ delivered = <<>>
      BY DEF PktInit
    <2>2. [f \in 1..Len(frames) |-> Body(f)] = <<>>
      BY <2>1
    <2> QED BY <2>1, <2>2 DEF Fifo!Init, LastNo
  <1>2. PktInv /\ [PktNext]_pktVars => [Fifo!Next]_Fifo!vars
    <2> SUFFICES ASSUME PktInv, [PktNext]_pktVars PROVE [Fifo!Next]_Fifo!vars
      OBVIOUS
    <2>1. ASSUME NEW n \in Lens, RelaySend(n) PROVE Fifo!Next
      BY <2>1, SendMaps DEF Fifo!Next
    <2>2. CASE TaskDeliver(TRUE)
      BY <2>2, DeliverMaps DEF Fifo!Next
    <2>3. CASE UNCHANGED <<frames, delivered>>
      BY <2>3 DEF Fifo!vars, Body, LastNo
    <2>4. CASE EventTask
      <3>1. TaskDeliver(TRUE) \/ UNCHANGED <<frames, delivered>>
        BY <2>4 DEF EventTask, TaskReadEvent, TaskPollMailbox, TaskAck, TaskReadLen, TaskClear,
          TaskCopy, TaskConsume, TaskDeliver, DeviceIdle, relayVars
      <3> QED BY <2>2, <2>3, <3>1
    <2>5. CASE \/ RelayClose \/ PktOpen \/ PktLost \/ PktReadHeader \/ PktReadBody
               \/ NetifInit \/ OtherEvent \/ OtherTakesEvent \/ Reboot \/ UNCHANGED pktVars
      <3>1. UNCHANGED <<frames, delivered>>
        BY <2>5 DEF RelayClose, PktOpen, PktLost, PktReadHeader, PktReadBody, NetifInit,
          OtherEvent, OtherTakesEvent, OtherIdle, Reboot, pktVars, relayVars, taskVars
      <3> QED BY <2>3, <3>1
    <2> QED BY <2>1, <2>4, <2>5 DEF PktNext
  <1> QED BY <1>1, <1>2, PktInvariance, PTL DEF PktSpec, ImplementsLossyFifo, Fifo!Spec
=============================================================================
