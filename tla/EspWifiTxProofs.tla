--------------------------- MODULE EspWifiTxProofs ---------------------------
(***************************************************************************)
(* Proofs about transmission, for every set of tasks, lengths and filters, *)
(* every size of prefix, headers and buffer, and any number of frames,     *)
(* connections, changes of the settings and resets.                        *)
(***************************************************************************)
EXTENDS EspWifiTx, StreamFacts

\* ---- The inductive invariant --------------------------------------------------

\* The history of a frame handed in.
Frames == [by : Tasks, raw : BOOLEAN, type : Types, len : 0..BufSize, seen : Nat,
           alone : BOOLEAN]

\* What the relay holds of a session.
Readers == [live : BOOLEAN, hdr : Seq(Bytes), data : Seq(Bytes), expected : 0..BufSize,
            got : Seq(Seq(Bytes))]

\* A byte of a frame that may be sent.  It is the frame's own if it belongs to the
\* length prefix, or if no other task wrote to the DMA buffer.
ByteOf(b, F) ==
    /\ b.no \in DOMAIN F /\ F[b.no].len > 0
    /\ b.pos \in 1..(HdrSize + F[b.no].len)
    /\ b.pos <= HdrSize \/ F[b.no].alone => b.from = b.no

\* The last byte of its frame.
Final(b, F) == b.pos = HdrSize + F[b.no].len

\* Where byte c may be found d places behind byte b: in the same frame, or in a
\* later one of the same task, or in one of another task.
Later(b, c, d, F) ==
    F[b.no].by = F[c.no].by => b.no < c.no \/ (b.no = c.no /\ c.pos = b.pos + d)

\* The sequence u is made of frames of F, from the first byte of one on.  The last
\* of them need not be whole.
OwnBytes(u, F)   == \A i \in DOMAIN u : ByteOf(u[i], F)
FromStart(u)     == u # <<>> => u[1].pos = 1
Adjacent(u, F)   ==
    \A i \in 1..(Len(u) - 1) :
        IF Final(u[i], F) THEN u[i + 1].pos = 1
        ELSE u[i + 1].no = u[i].no /\ u[i + 1].pos = u[i].pos + 1
InOnePiece(u, F) ==
    \A i \in DOMAIN u : u[i].pos = 1 =>
        \A j \in 1..(HdrSize + F[u[i].no].len) : i + j - 1 \in DOMAIN u =>
            u[i + j - 1].no = u[i].no /\ u[i + j - 1].pos = j
InOrder(u, F)    == \A j \in DOMAIN u : \A i \in 1..(j - 1) : Later(u[i], u[j], j - i, F)

Sequenced(u, F) ==
    OwnBytes(u, F) /\ FromStart(u) /\ Adjacent(u, F) /\ InOnePiece(u, F) /\ InOrder(u, F)

\* It ends with a whole frame.
Whole(u, F) == u # <<>> => Final(u[Len(u)], F)

\* A frame the relay has read.
Arrived(g, F) ==
    /\ g # <<>> /\ g[1].no \in DOMAIN F
    /\ Len(g) = F[g[1].no].len
    /\ F[g[1].no].alone => \A j \in DOMAIN g : g[j].from = g[1].no

\* The frames read so far come in the order of their tasks, before those in u.
AllArrived(got, F) == \A i \in DOMAIN got : Arrived(got[i], F)
GotInOrder(got, F) ==
    \A i \in DOMAIN got : \A j \in 1..(i - 1) :
        F[got[j][1].no].by = F[got[i][1].no].by => got[j][1].no < got[i][1].no
GotBefore(got, u, F) ==
    \A i \in DOMAIN got : \A j \in DOMAIN u :
        F[got[i][1].no].by = F[u[j].no].by => got[i][1].no < u[j].no

Ordered(got, u, F) == AllArrived(got, F) /\ GotInOrder(got, F) /\ GotBefore(got, u, F)

\* All that has been sent for task t is older than frame k.
Older(got, u, t, k, F) ==
    /\ \A i \in DOMAIN got : F[got[i][1].no].by = t => got[i][1].no < k
    /\ \A j \in DOMAIN u : F[u[j].no].by = t => u[j].no < k

\* The prefix a session holds, and the length it has read out of it.
Reader(r, F) ==
    /\ Len(r.hdr) <= HdrSize
    /\ Len(r.hdr) < HdrSize => r.data = <<>> /\ r.expected = 0
    /\ Len(r.hdr) = HdrSize =>
          r.expected = F[r.hdr[1].no].len /\ Len(r.data) < r.expected

\* The session of connection s.
SessionInv(s) ==
    /\ ~relay[s].live => relay[s] = Unborn /\ sock[s] = <<>>
    /\ s > conns => ~relay[s].live
    /\ Reader(relay[s], frames)
    /\ Sequenced(Unread(s), frames)
    /\ Ordered(relay[s].got, Unread(s), frames)
    /\ conn = s => Whole(Unread(s), frames)
    /\ \A t \in Tasks : task[t].pc # "free" =>
          Older(relay[s].got, Unread(s), t, task[t].no, frames)

\* A task and the frame it transmits: what it has copied is still in the buffer,
\* unless another task copied meanwhile.
Mine(t) ==
    Frame(t).alone => \A i \in 1..task[t].pos : tx_buf[i] = task[t].no

TaskInv(t) ==
    /\ task[t].pc = "free" => task[t] = Free
    /\ task[t].pc # "free" => task[t].no \in DOMAIN frames /\ Frame(t).by = t /\ Mine(t)
    /\ task[t].pc \in {"tap", "call"} => task[t].pos = 0 /\ Frame(t).seen = 0
    /\ task[t].pc = "copy" => task[t].pos < Frame(t).len
    /\ task[t].pc \in {"addr", "len"} => task[t].pos = Frame(t).len /\ Frame(t).len > 0

FramesInv ==
    \A k \in DOMAIN frames : frames[k].seen <= 1 /\ (frames[k].len > 0 => frames[k].type = "data")

TxInv ==
    /\ TxTypeOK /\ FramesInv /\ conn <= conns
    /\ \A t \in Tasks : TaskInv(t)
    /\ \A s \in 1..ConnMax : SessionInv(s)

\* ---- Frames are only added ------------------------------------------------------

\* The history G continues F: no frame is lost or changed, but for a note that
\* another task wrote to the buffer, and new ones are numbered on.
Grows(F, G) ==
    /\ DOMAIN F \subseteq DOMAIN G
    /\ \A k \in DOMAIN F :
          /\ G[k].by = F[k].by /\ G[k].len = F[k].len /\ G[k].type = F[k].type
          /\ G[k].alone => F[k].alone

\* What is said of sequences of bytes stays true.
LEMMA SequencedGrows ==
  ASSUME NEW u \in Seq(Bytes), NEW F, NEW G, Grows(F, G), Sequenced(u, F)
  PROVE  Sequenced(u, G)
  <1>1. \A i \in DOMAIN u : u[i].no \in DOMAIN F
    BY DEF Sequenced, OwnBytes, ByteOf
  <1>2. \A i \in DOMAIN u : /\ G[u[i].no].by = F[u[i].no].by /\ G[u[i].no].len = F[u[i].no].len
                            /\ G[u[i].no].alone => F[u[i].no].alone
                            /\ u[i].no \in DOMAIN G
    BY <1>1 DEF Grows
  <1>3. DOMAIN u = 1..Len(u) /\ Len(u) \in Nat
    OBVIOUS
  <1>4. OwnBytes(u, G)
    BY <1>2 DEF Sequenced, OwnBytes, ByteOf
  <1>5. FromStart(u)
    BY DEF Sequenced
  <1>6. Adjacent(u, G)
    <2>1. \A i \in 1..(Len(u) - 1) : i \in DOMAIN u
      BY <1>3
    <2> QED BY <1>2, <2>1 DEF Sequenced, Adjacent, Final
  <1>7. InOnePiece(u, G)
    BY <1>2 DEF Sequenced, InOnePiece
  <1>8. InOrder(u, G)
    <2>1. \A j \in DOMAIN u : \A i \in 1..(j - 1) : i \in DOMAIN u
      BY <1>3
    <2> QED BY <1>2, <2>1 DEF Sequenced, InOrder, Later
  <1> QED BY <1>4, <1>5, <1>6, <1>7, <1>8 DEF Sequenced

LEMMA WholeGrows ==
  ASSUME NEW u \in Seq(Bytes), NEW F, NEW G, Grows(F, G), Sequenced(u, F), Whole(u, F)
  PROVE  Whole(u, G)
  <1>1. u # <<>> => Len(u) \in DOMAIN u
    OBVIOUS
  <1>2. u # <<>> => u[Len(u)].no \in DOMAIN F
    BY <1>1 DEF Sequenced, OwnBytes, ByteOf
  <1> QED BY <1>2 DEF Whole, Final, Grows

\* So does what is said of the frames read, and of what is older than them.
LEMMA OrderedGrows ==
  ASSUME NEW got \in Seq(Seq(Bytes)), NEW u \in Seq(Bytes), NEW F, NEW G, Grows(F, G),
         Sequenced(u, F), Ordered(got, u, F)
  PROVE  /\ Ordered(got, u, G)
         /\ \A t \in Tasks : \A k \in Nat : Older(got, u, t, k, F) => Older(got, u, t, k, G)
  <1>1. \A i \in DOMAIN u : u[i].no \in DOMAIN F
    BY DEF Sequenced, OwnBytes, ByteOf
  <1>2. \A i \in DOMAIN got : got[i][1].no \in DOMAIN F
    BY DEF Ordered, AllArrived, Arrived
  <1>3. \A i \in DOMAIN u : G[u[i].no].by = F[u[i].no].by
    BY <1>1 DEF Grows
  <1>4. \A i \in DOMAIN got :
          /\ G[got[i][1].no].by = F[got[i][1].no].by /\ G[got[i][1].no].len = F[got[i][1].no].len
          /\ G[got[i][1].no].alone => F[got[i][1].no].alone
          /\ got[i][1].no \in DOMAIN G
    BY <1>2 DEF Grows
  <1>5. AllArrived(got, G)
    BY <1>4 DEF Ordered, AllArrived, Arrived
  <1>6. GotInOrder(got, G)
    <2>1. \A i \in DOMAIN got : \A j \in 1..(i - 1) : j \in DOMAIN got
      OBVIOUS
    <2> QED BY <1>4, <2>1 DEF Ordered, GotInOrder
  <1>7. GotBefore(got, u, G)
    BY <1>3, <1>4 DEF Ordered, GotBefore
  <1>8. ASSUME NEW t \in Tasks, NEW k \in Nat, Older(got, u, t, k, F) PROVE Older(got, u, t, k, G)
    BY <1>3, <1>4, <1>8 DEF Older
  <1> QED BY <1>5, <1>6, <1>7, <1>8 DEF Ordered

\* A frame not handed in yet is younger than all that has been sent.
LEMMA NewIsYounger ==
  ASSUME NEW got \in Seq(Seq(Bytes)), NEW u \in Seq(Bytes), NEW F \in Seq(Frames),
         Sequenced(u, F), Ordered(got, u, F), NEW t \in Tasks
  PROVE  Older(got, u, t, Len(F) + 1, F)
  <1>1. \A k \in DOMAIN F : k < Len(F) + 1
    OBVIOUS
  <1>2. \A i \in DOMAIN u : u[i].no \in DOMAIN F
    BY DEF Sequenced, OwnBytes, ByteOf
  <1>3. \A i \in DOMAIN got : got[i][1].no \in DOMAIN F
    BY DEF Ordered, AllArrived, Arrived
  <1> QED BY <1>1, <1>2, <1>3 DEF Older

\* ---- A frame, or the first part of one, is sent ---------------------------------

\* w is made of the first bytes of frame k.
Piece(w, k, F) ==
    /\ k \in DOMAIN F /\ F[k].len \in Nat /\ Len(w) <= HdrSize + F[k].len
    /\ \A i \in DOMAIN w : ByteOf(w[i], F) /\ w[i].no = k /\ w[i].pos = i

\* All of u that was sent for the task of frame k is older than k.
Behind(u, k, F) == \A j \in DOMAIN u : F[u[j].no].by = F[k].by => u[j].no < k

\* The last place of the l before, seen from place i.
LEMMA Overlap ==
  \A l, n \in Nat : \A i \in 1..l : \A j \in 1..n :
      i + j - 1 \notin 1..l =>
          (l - i) + 1 \in 1..n /\ (l - i) + 1 < j /\ i + ((l - i) + 1) - 1 = l
  OBVIOUS

LEMMA FrameTypes ==
  ASSUME NEW F \in Seq(Frames)
  PROVE  \A f \in DOMAIN F : F[f] \in Frames /\ F[f].len \in 0..BufSize /\ F[f].len \in Nat
  <1>1. \A f \in DOMAIN F : F[f] \in Frames
    OBVIOUS
  <1> QED BY <1>1, TxSizeAssumption DEF Frames

LEMMA PieceAppended ==
  ASSUME NEW u \in Seq(Bytes), NEW w \in Seq(Bytes), NEW k, NEW F \in Seq(Frames),
         Sequenced(u, F), Whole(u, F), Piece(w, k, F), Behind(u, k, F)
  PROVE  Sequenced(u \o w, F)
  <1> DEFINE v == u \o w
             l == Len(u)
             m == Len(w)
  <1>1. /\ v \in Seq(Bytes) /\ Len(v) = l + m
        /\ \A i \in 1..l : v[i] = u[i]
        /\ \A i \in 1..m : v[l + i] = w[i]
    BY Joined
  <1>2. /\ l \in Nat /\ m \in Nat /\ DOMAIN u = 1..l /\ DOMAIN w = 1..m /\ DOMAIN v = 1..(l + m)
    BY <1>1
  <1>3. l > 0 => u # <<>> /\ u[l] = u[Len(u)]
    OBVIOUS
  <1>w. /\ \A i \in 1..m : ByteOf(w[i], F) /\ w[i].no = k /\ w[i].pos = i
        /\ F[k].len \in Nat /\ m <= HdrSize + F[k].len
    BY <1>2 DEF Piece
  <1>f. l > 0 => Final(u[l], F)
    BY <1>3 DEF Whole
  <1>t. \A f \in DOMAIN F : F[f].len \in Nat
    BY FrameTypes
  <1>n. u = <<>> => l = 0
    OBVIOUS
  <1>p. HdrSize \in Nat \ {0}
    BY TxSizeAssumption
  <1> HIDE DEF v, l, m
  <1>4. \A i \in 1..(l + m) : i \in 1..l \/ (i - l \in 1..m /\ v[i] = w[i - l])
    <2> SUFFICES ASSUME NEW i \in 1..(l + m), i \notin 1..l PROVE i - l \in 1..m /\ v[i] = w[i - l]
      OBVIOUS
    <2>1. i - l \in 1..m /\ l + (i - l) = i
      BY <1>2
    <2>2. v[l + (i - l)] = w[i - l]
      BY <1>1, <2>1
    <2> QED BY <2>1, <2>2
  <1>5. OwnBytes(v, F)
    <2>1. \A i \in 1..l : ByteOf(u[i], F)
      BY <1>2 DEF Sequenced, OwnBytes
    <2> QED BY <1>1, <1>2, <1>4, <1>w, <2>1 DEF OwnBytes
  <1>6. FromStart(v)
    <2> SUFFICES ASSUME v # <<>> PROVE v[1].pos = 1
      BY DEF FromStart
    <2>1. Len(v) # 0
      BY <1>1
    <2>2. CASE l > 0
      <3>1. v[1] = u[1] /\ u # <<>>
        BY <1>1, <1>2, <1>3, <2>2
      <3> QED BY <3>1 DEF Sequenced, FromStart
    <2>3. CASE l = 0
      <3>1. 1 \in 1..m
        BY <1>1, <1>2, <2>1, <2>3
      <3>2. v[l + 1] = w[1]
        BY <1>1, <3>1
      <3> QED BY <1>w, <2>3, <3>1, <3>2
    <2> QED BY <1>2, <2>2, <2>3
  <1>7. Adjacent(v, F)
    <2> SUFFICES ASSUME NEW i \in 1..((l + m) - 1)
                 PROVE IF Final(v[i], F) THEN v[i + 1].pos = 1
                       ELSE v[i + 1].no = v[i].no /\ v[i + 1].pos = v[i].pos + 1
      BY <1>1 DEF Adjacent
    <2>1. CASE i < l
      <3>1. i \in 1..(l - 1) /\ i \in 1..l /\ i + 1 \in 1..l
        BY <1>2, <2>1
      <3>2. v[i] = u[i] /\ v[i + 1] = u[i + 1]
        BY <1>1, <3>1
      <3>3. IF Final(u[i], F) THEN u[i + 1].pos = 1
            ELSE u[i + 1].no = u[i].no /\ u[i + 1].pos = u[i].pos + 1
        BY <3>1 DEF l, Sequenced, Adjacent
      <3> QED BY <3>2, <3>3
    <2>2. CASE i = l
      <3>1. i \in 1..l /\ 1 \in 1..m
        BY <1>2, <2>2
      <3>2. v[i] = u[l] /\ v[i + 1] = w[1]
        BY <1>1, <2>2, <3>1
      <3>3. w[1].pos = 1
        BY <1>w, <3>1
      <3>4. Final(u[l], F)
        BY <1>f, <1>2, <2>2, <3>1
      <3> QED BY <3>2, <3>3, <3>4
    <2>3. CASE i > l
      <3>1. /\ i - l \in 1..m /\ (i - l) + 1 \in 1..m /\ l + (i - l) = i
            /\ l + ((i - l) + 1) = i + 1 /\ i - l < m
        BY <1>2, <2>3, Beyond
      <3>2. v[i] = w[i - l] /\ v[i + 1] = w[(i - l) + 1]
        BY <1>1, <3>1
      <3>3. /\ w[i - l].no = k /\ w[i - l].pos = i - l
            /\ w[(i - l) + 1].no = k /\ w[(i - l) + 1].pos = (i - l) + 1
        BY <1>w, <3>1
      <3>4. ~Final(w[i - l], F)
        <4>1. HdrSize + F[k].len \in Nat
          BY ONLY <1>w, <1>p
        <4>2. \A c, b \in Nat : \A j \in 1..b : b <= c /\ j < b => j # c
          OBVIOUS
        <4>3. m \in Nat
          BY <1>2
        <4>4. i - l # HdrSize + F[k].len
          BY ONLY <1>w, <3>1, <4>1, <4>2, <4>3, Zenon
        <4> QED BY <3>3, <4>4, Zenon DEF Final
      <3> QED BY <3>2, <3>3, <3>4
    <2>4. i < l \/ i = l \/ i > l
      BY <1>2
    <2> QED BY <2>1, <2>2, <2>3, <2>4
  <1>8. InOnePiece(v, F)
    <2> SUFFICES ASSUME NEW i \in 1..(l + m), v[i].pos = 1,
                        NEW j \in 1..(HdrSize + F[v[i].no].len), i + j - 1 \in 1..(l + m)
                 PROVE v[i + j - 1].no = v[i].no /\ v[i + j - 1].pos = j
      BY <1>2 DEF InOnePiece
    <2>0. /\ v[i].no \in DOMAIN F /\ F[v[i].no].len > 0
      BY <1>2, <1>5 DEF OwnBytes, ByteOf
    <2>1. CASE i \in 1..l
      <3>1. v[i] = u[i]
        BY <1>1, <2>1
      <3>2. \A h \in 1..(HdrSize + F[u[i].no].len) : i + h - 1 \in 1..l =>
                u[i + h - 1].no = u[i].no /\ u[i + h - 1].pos = h
        BY <1>2, <2>1, <3>1 DEF Sequenced, InOnePiece
      <3>3. CASE i + j - 1 \in 1..l
        <4>1. v[i + j - 1] = u[i + j - 1]
          BY <1>1, <3>3
        <4> QED BY <3>1, <3>2, <3>3, <4>1
      <3>4. CASE i + j - 1 \notin 1..l
        <4> DEFINE h == (l - i) + 1
        <4>0. /\ F[u[i].no].len \in Nat /\ l \in Nat /\ m \in Nat /\ HdrSize \in Nat
              /\ j \in 1..(HdrSize + F[u[i].no].len)
          BY <1>2, <1>t, <1>p, <2>0, <3>1
        <4>p. HdrSize + F[u[i].no].len \in Nat
          <5>1. \A a, b \in Nat : a + b \in Nat
            OBVIOUS
          <5> QED BY ONLY <4>0, <5>1, Zenon
        <4>1. h \in 1..(HdrSize + F[u[i].no].len) /\ h < j /\ i + h - 1 = l
          <5>1. \A n \in Nat : j \in 1..n =>
                  (l - i) + 1 \in 1..n /\ (l - i) + 1 < j /\ i + ((l - i) + 1) - 1 = l
            <6>1. l \in Nat /\ i \in 1..l /\ i + j - 1 \notin 1..l
              BY <2>1, <3>4, <4>0
            <6> QED BY ONLY <6>1, Overlap, Zenon
          <5> QED BY <4>0, <4>p, <5>1
        <4> HIDE DEF h
        <4>2. l \in 1..l /\ l > 0
          BY <1>2, <2>1
        <4>3. u[l].no = u[i].no /\ u[l].pos = h
          BY <3>2, <4>1, <4>2
        <4>4. h = HdrSize + F[u[i].no].len
          BY <1>f, <4>2, <4>3 DEF Final
        <4> QED BY <3>1, <4>1, <4>4
      <3> QED BY <3>3, <3>4
    <2>2. CASE i \notin 1..l
      <3>1. i - l \in 1..m /\ v[i] = w[i - l]
        BY <1>4, <2>2
      <3>2. i - l = 1
        BY <1>w, <3>1
      <3>3. v[i].no = k
        BY <1>w, <3>1
      <3>4. j \in 1..m /\ l + j = i + j - 1
        BY <1>2, <3>2
      <3>5. v[i + j - 1] = w[j]
        BY <1>1, <3>4
      <3> QED BY <1>w, <3>3, <3>4, <3>5
    <2> QED BY <2>1, <2>2
  <1>9. InOrder(v, F)
    <2> SUFFICES ASSUME NEW j \in 1..(l + m), NEW i \in 1..(j - 1)
                 PROVE Later(v[i], v[j], j - i, F)
      BY <1>2 DEF InOrder
    <2>0. i \in 1..(l + m) /\ i < j
      BY <1>2
    <2>1. CASE j \in 1..l
      <3>1. i \in 1..l
        BY <1>2, <2>1
      <3>2. v[i] = u[i] /\ v[j] = u[j]
        BY <1>1, <2>1, <3>1
      <3>3. Later(u[i], u[j], j - i, F)
        BY <1>2, <2>1 DEF Sequenced, InOrder
      <3> QED BY <3>2, <3>3
    <2>2. CASE j \notin 1..l
      <3>1. j - l \in 1..m /\ v[j] = w[j - l]
        BY <1>4, <2>2
      <3>2. v[j].no = k /\ v[j].pos = j - l
        BY <1>w, <3>1
      <3>3. CASE i \in 1..l
        <4>1. v[i] = u[i]
          BY <1>1, <3>3
        <4>2. F[u[i].no].by = F[k].by => u[i].no < k
          BY <1>2, <3>3 DEF Behind
        <4> QED BY <3>2, <4>1, <4>2 DEF Later
      <3>4. CASE i \notin 1..l
        <4>1. i - l \in 1..m /\ v[i] = w[i - l]
          BY <1>4, <2>0, <3>4
        <4>2. v[i].no = k /\ v[i].pos = i - l
          BY <1>w, <4>1
        <4>3. j - l = (i - l) + (j - i)
          BY <1>2, <2>0
        <4> QED BY <3>2, <4>2, <4>3 DEF Later
      <3> QED BY <3>3, <3>4
    <2> QED BY <2>1, <2>2
  <1> QED BY <1>5, <1>6, <1>7, <1>8, <1>9 DEF Sequenced, v

\* A whole frame leaves a whole one at the end.
LEMMA WholeAppended ==
  ASSUME NEW u \in Seq(Bytes), NEW w \in Seq(Bytes), NEW k, NEW F,
         Piece(w, k, F), Len(w) = HdrSize + F[k].len
  PROVE  Whole(u \o w, F)
  <1>1. HdrSize \in Nat \ {0} /\ F[k].len \in Nat
    BY TxSizeAssumption DEF Piece
  <1>2. Len(w) \in DOMAIN w
    BY <1>1
  <1>3. w[Len(w)].no = k /\ w[Len(w)].pos = HdrSize + F[k].len
    BY <1>2 DEF Piece
  <1>4. (u \o w)[Len(u \o w)] = w[Len(w)]
    <2>1. Len(u \o w) = Len(u) + Len(w) /\ \A i \in 1..Len(w) : (u \o w)[Len(u) + i] = w[i]
      BY Joined
    <2>2. Len(w) \in 1..Len(w)
      BY <1>2
    <2> QED BY <2>1, <2>2
  <1> QED BY <1>3, <1>4 DEF Whole, Final

\* ---- A whole frame is read -------------------------------------------------------

\* The bytes of the first frame of u.
LEMMA FirstFrame ==
  ASSUME NEW u \in Seq(Bytes), u # <<>>, NEW F \in Seq(Frames), Sequenced(u, F)
  PROVE  /\ u[1].no \in DOMAIN F /\ F[u[1].no].len > 0 /\ F[u[1].no].len \in Nat
         /\ u[1].pos = 1
         /\ \A j \in 1..(HdrSize + F[u[1].no].len) : j \in DOMAIN u =>
                u[j].no = u[1].no /\ u[j].pos = j
         /\ \A j \in 1..HdrSize : j \in DOMAIN u => u[j].from = u[1].no
  <1>1. 1 \in DOMAIN u
    OBVIOUS
  <1>2. u[1].no \in DOMAIN F /\ F[u[1].no].len > 0 /\ F[u[1].no].len \in Nat
    BY <1>1, FrameTypes DEF Sequenced, OwnBytes, ByteOf
  <1>3. u[1].pos = 1
    BY DEF Sequenced, FromStart
  <1>4. \A j \in 1..(HdrSize + F[u[1].no].len) : 1 + j - 1 \in DOMAIN u =>
                u[1 + j - 1].no = u[1].no /\ u[1 + j - 1].pos = j
    BY <1>1, <1>3 DEF Sequenced, InOnePiece
  <1>5. HdrSize \in Nat /\ HdrSize + F[u[1].no].len \in Nat
    BY <1>2, TxSizeAssumption
  <1>6. \A n \in Nat : \A j \in 1..n : 1 + j - 1 = j
    OBVIOUS
  <1>7. \A j \in 1..(HdrSize + F[u[1].no].len) : j \in DOMAIN u =>
                u[j].no = u[1].no /\ u[j].pos = j
    BY <1>4, <1>5, <1>6
  <1>8. ASSUME NEW j \in 1..HdrSize, j \in DOMAIN u PROVE u[j].from = u[1].no
    <2>1. j \in 1..(HdrSize + F[u[1].no].len)
      BY <1>2, <1>5
    <2>2. u[j].no = u[1].no /\ u[j].pos = j
      BY <1>7, <1>8, <2>1
    <2>3. u[j].pos <= HdrSize
      BY <1>5, <2>2
    <2> QED BY <1>8, <2>2, <2>3 DEF Sequenced, OwnBytes, ByteOf
  <1> QED BY <1>2, <1>3, <1>7, <1>8

\* q is what follows the first l bytes of p.
Rest(q, p, l) ==
    /\ l \in 0..Len(p) /\ Len(q) = Len(p) - l
    /\ \A i \in 1..Len(q) : q[i] = p[l + i]

\* The first frame of p has l bytes with its prefix.
FirstSize(l, p, F) == l = HdrSize + F[p[1].no].len

\* Without its first frame it is sequenced, and what it holds for the same task is
\* younger than that.
LEMMA FrameTaken ==
  ASSUME NEW p \in Seq(Bytes), p # <<>>, NEW F \in Seq(Frames), Sequenced(p, F),
         NEW q \in Seq(Bytes), NEW L \in Nat, FirstSize(L, p, F), Rest(q, p, L)
  PROVE  /\ Sequenced(q, F)
         /\ Whole(p, F) => Whole(q, F)
         /\ \A j \in DOMAIN q : F[p[1].no].by = F[q[j].no].by => p[1].no < q[j].no
  <1> DEFINE m == Len(q)
             n == Len(p)
  <1>1. /\ m \in Nat /\ n \in Nat /\ DOMAIN q = 1..m /\ DOMAIN p = 1..n
        /\ HdrSize \in Nat \ {0}
    BY TxSizeAssumption
  <1>2. /\ p[1].no \in DOMAIN F /\ F[p[1].no].len > 0 /\ F[p[1].no].len \in Nat
        /\ p[1].pos = 1
        /\ \A j \in 1..L : j \in DOMAIN p => p[j].no = p[1].no /\ p[j].pos = j
    BY FirstFrame DEF FirstSize
  <1>3. L \in Nat /\ L > 0 /\ L <= n /\ m = n - L
    BY <1>1, <1>2 DEF Rest, FirstSize
  <1>4. \A i \in 1..m : L + i \in 1..n /\ q[i] = p[L + i]
    BY <1>1, <1>3 DEF Rest
  <1>5. L \in DOMAIN p /\ p[L].no = p[1].no /\ p[L].pos = L /\ 1 \in DOMAIN p
    BY <1>1, <1>2, <1>3
  <1>e. q = <<>> <=> m = 0
    OBVIOUS
  <1>t. \A f \in DOMAIN F : F[f].len \in Nat
    BY FrameTypes
  <1> HIDE DEF m, n
  <1>6. OwnBytes(q, F)
    BY <1>1, <1>4 DEF Sequenced, OwnBytes
  <1>a. \A i \in 1..(n - 1) : IF Final(p[i], F) THEN p[i + 1].pos = 1
                              ELSE p[i + 1].no = p[i].no /\ p[i + 1].pos = p[i].pos + 1
    BY DEF n, Sequenced, Adjacent
  <1>7. FromStart(q)
    <2> SUFFICES ASSUME m > 0 PROVE q[1].pos = 1
      BY <1>1, <1>e DEF FromStart
    <2>1. 1 \in 1..m /\ L \in 1..(n - 1)
      BY <1>1, <1>3
    <2>2. Final(p[L], F)
      BY <1>5 DEF Final, FirstSize
    <2>3. p[L + 1].pos = 1
      BY <1>a, <2>1, <2>2
    <2> QED BY <1>4, <2>1, <2>3
  <1>8. Adjacent(q, F)
    <2> SUFFICES ASSUME NEW i \in 1..(m - 1)
                 PROVE IF Final(q[i], F) THEN q[i + 1].pos = 1
                       ELSE q[i + 1].no = q[i].no /\ q[i + 1].pos = q[i].pos + 1
      BY DEF Adjacent, m
    <2>1. L + i \in 1..(n - 1) /\ i \in 1..m /\ i + 1 \in 1..m /\ L + (i + 1) = (L + i) + 1
      BY <1>1, <1>3
    <2>2. q[i] = p[L + i] /\ q[i + 1] = p[(L + i) + 1]
      BY <1>4, <2>1
    <2> QED BY <1>a, <2>1, <2>2
  <1>9. InOnePiece(q, F)
    <2> SUFFICES ASSUME NEW i \in 1..m, q[i].pos = 1,
                        NEW j \in 1..(HdrSize + F[q[i].no].len), i + j - 1 \in 1..m
                 PROVE q[i + j - 1].no = q[i].no /\ q[i + j - 1].pos = j
      BY <1>1 DEF InOnePiece
    <2>1. q[i] = p[L + i] /\ L + i \in 1..n /\ q[i].no \in DOMAIN F
      BY <1>1, <1>4, <1>6 DEF OwnBytes, ByteOf
    <2>2. j \in Nat
      BY <1>1, <1>t, <2>1
    <2>3. L + (i + j - 1) = (L + i) + j - 1
      BY <1>3, <2>2
    <2>4. q[i + j - 1] = p[(L + i) + j - 1] /\ (L + i) + j - 1 \in 1..n
      BY <1>4, <2>3
    <2>5. p[(L + i) + j - 1].no = p[L + i].no /\ p[(L + i) + j - 1].pos = j
      BY <1>1, <2>1, <2>4 DEF Sequenced, InOnePiece
    <2> QED BY <2>1, <2>4, <2>5
  <1>10. InOrder(q, F)
    <2> SUFFICES ASSUME NEW j \in 1..m, NEW i \in 1..(j - 1)
                 PROVE Later(q[i], q[j], j - i, F)
      BY <1>1 DEF InOrder
    <2>1. /\ i \in 1..m /\ L + i \in 1..((L + j) - 1) /\ L + j \in 1..n
          /\ (L + j) - (L + i) = j - i
      BY <1>1, <1>3
    <2>2. q[i] = p[L + i] /\ q[j] = p[L + j]
      BY <1>4, <2>1
    <2>3. Later(p[L + i], p[L + j], (L + j) - (L + i), F)
      BY <1>1, <2>1 DEF Sequenced, InOrder
    <2> QED BY <2>1, <2>2, <2>3
  <1>11. Whole(p, F) => Whole(q, F)
    <2> SUFFICES ASSUME Final(p[n], F), m > 0 PROVE Final(q[m], F)
      <3>1. m > 0 \/ m = 0
        BY <1>1
      <3> QED BY <1>e, <3>1 DEF Whole, m, n
    <2>1. m \in 1..m /\ L + m = n
      BY <1>1, <1>3
    <2> QED BY <1>4, <2>1
  <1>12. ASSUME NEW j \in 1..m, F[p[1].no].by = F[q[j].no].by PROVE p[1].no < q[j].no
    <2>1. L + j \in 1..n /\ q[j] = p[L + j] /\ 1 \in 1..((L + j) - 1) /\ (L + j) - 1 >= L
      BY <1>1, <1>3, <1>4
    <2>2. Later(p[1], p[L + j], (L + j) - 1, F)
      BY <1>1, <2>1 DEF Sequenced, InOrder
    <2>3. p[1].no < q[j].no \/ (p[1].no = q[j].no /\ q[j].pos = p[1].pos + ((L + j) - 1))
      BY <1>12, <2>1, <2>2 DEF Later
    <2>4. q[j].pos \in 1..(HdrSize + F[q[j].no].len)
      BY <1>1, <1>6 DEF OwnBytes, ByteOf
    <2>5. q[j].no # p[1].no
      <3> SUFFICES ASSUME q[j].no = p[1].no PROVE FALSE
        OBVIOUS
      <3>1. F[q[j].no].len \in Nat /\ p[1].no \in Nat
        BY <1>2
      <3>2. q[j].pos = 1 + ((L + j) - 1)
        BY <1>2, <2>3, <3>1
      <3>3. q[j].pos <= L
        BY <1>1, <2>4, <3>1 DEF FirstSize
      <3> QED BY <1>3, <3>2, <3>3
    <2> QED BY <2>3, <2>5
  <1> QED BY <1>1, <1>6, <1>7, <1>8, <1>9, <1>10, <1>11, <1>12 DEF Sequenced

\* ---- Sessions that neither read nor get bytes --------------------------------------

LEMMA ReaderTypes ==
  ASSUME NEW r \in Readers
  PROVE  /\ r.hdr \in Seq(Bytes) /\ r.data \in Seq(Bytes) /\ r.got \in Seq(Seq(Bytes))
         /\ r.expected \in 0..BufSize
  BY DEF Readers

LEMMA UnreadFacts ==
  ASSUME TxTypeOK, NEW s \in 1..ConnMax
  PROVE  /\ relay[s].hdr \in Seq(Bytes) /\ relay[s].data \in Seq(Bytes)
         /\ relay[s].got \in Seq(Seq(Bytes)) /\ sock[s] \in Seq(Bytes)
         /\ relay[s].expected \in 0..BufSize
         /\ Unread(s) \in Seq(Bytes)
         /\ Len(Unread(s)) = Len(relay[s].hdr) + Len(relay[s].data) + Len(sock[s])
         /\ \A i \in 1..Len(relay[s].hdr) : Unread(s)[i] = relay[s].hdr[i]
         /\ \A i \in 1..Len(relay[s].data) :
                Unread(s)[Len(relay[s].hdr) + i] = relay[s].data[i]
         /\ \A i \in 1..Len(sock[s]) :
                Unread(s)[Len(relay[s].hdr) + Len(relay[s].data) + i] = sock[s][i]
  <1>1. /\ relay[s].hdr \in Seq(Bytes) /\ relay[s].data \in Seq(Bytes)
        /\ relay[s].got \in Seq(Seq(Bytes)) /\ sock[s] \in Seq(Bytes)
        /\ relay[s].expected \in 0..BufSize
    <2>1. relay[s] \in Readers
      BY DEF TxTypeOK, Readers
    <2>2. sock[s] \in Seq(Bytes)
      BY DEF TxTypeOK
    <2> QED BY <2>1, <2>2, ReaderTypes
  <1>2. \A h, d, q \in Seq(Bytes) :
          LET v == (h \o d) \o q IN
          /\ v \in Seq(Bytes) /\ Len(v) = Len(h) + Len(d) + Len(q)
          /\ \A i \in 1..Len(h) : v[i] = h[i]
          /\ \A i \in 1..Len(d) : v[Len(h) + i] = d[i]
          /\ \A i \in 1..Len(q) : v[Len(h) + Len(d) + i] = q[i]
    BY Elements
  <1>3. PICK h, d, q \in Seq(Bytes) : h = relay[s].hdr /\ d = relay[s].data /\ q = sock[s]
    BY <1>1
  <1>4. Unread(s) = (h \o d) \o q
    BY <1>3 DEF Unread
  <1>5. LET v == (h \o d) \o q IN
          /\ v \in Seq(Bytes) /\ Len(v) = Len(h) + Len(d) + Len(q)
          /\ \A i \in 1..Len(h) : v[i] = h[i]
          /\ \A i \in 1..Len(d) : v[Len(h) + i] = d[i]
          /\ \A i \in 1..Len(q) : v[Len(h) + Len(d) + i] = q[i]
    BY <1>2
  <1> QED BY <1>1, <1>3, <1>4, <1>5

\* The prefix is the beginning of what is unread.
LEMMA PrefixKnown ==
  ASSUME TxInv, NEW s \in 1..ConnMax, Len(relay[s].hdr) = HdrSize
  PROVE  /\ Unread(s) # <<>> /\ relay[s].hdr[1] = Unread(s)[1]
         /\ relay[s].hdr[1].no \in DOMAIN frames
  <1>1. HdrSize \in Nat \ {0}
    BY TxSizeAssumption
  <1>2. /\ Len(Unread(s)) # 0 /\ relay[s].hdr[1] = Unread(s)[1] /\ Unread(s) \in Seq(Bytes)
    <2>1. TxTypeOK
      BY DEF TxInv
    <2>2. /\ relay[s].data \in Seq(Bytes) /\ sock[s] \in Seq(Bytes)
          /\ Unread(s) \in Seq(Bytes)
          /\ Len(Unread(s)) = Len(relay[s].hdr) + Len(relay[s].data) + Len(sock[s])
          /\ \A i \in 1..Len(relay[s].hdr) : Unread(s)[i] = relay[s].hdr[i]
      BY <2>1, UnreadFacts
    <2>3. Len(relay[s].data) \in Nat /\ Len(sock[s]) \in Nat
      BY <2>2
    <2>4. 1 \in 1..Len(relay[s].hdr)
      BY <1>1
    <2>5. relay[s].hdr[1] = Unread(s)[1]
      BY <2>2, <2>4
    <2>6. \A i \in Nat \ {0} : \A j, k \in Nat : i + j + k # 0
      OBVIOUS
    <2>7. Len(Unread(s)) = HdrSize + Len(relay[s].data) + Len(sock[s])
      BY <2>2
    <2>8. Len(Unread(s)) # 0
      BY <1>1, <2>3, <2>6, <2>7
    <2> QED BY <2>2, <2>5, <2>8
  <1>3. Unread(s) # <<>>
    BY <1>2
  <1>4. Sequenced(Unread(s), frames) /\ frames \in Seq(Frames)
    BY DEF TxInv, SessionInv, TxTypeOK, Frames
  <1>5. Unread(s)[1].no \in DOMAIN frames
    BY <1>2, <1>3, <1>4, FirstFrame
  <1> QED BY <1>2, <1>3, <1>5

\* Every task stays with its frame, becomes free, or takes a new frame.
TasksGoOn ==
    \A t \in Tasks : task'[t].pc # "free" =>
        \/ task[t].pc # "free" /\ task'[t].no = task[t].no
        \/ task'[t].no = Len(frames) + 1

LEMMA SessionKept ==
  ASSUME TxInv, NEW s \in 1..ConnMax, relay'[s] = relay[s], sock'[s] = sock[s],
         Grows(frames, frames'), TasksGoOn, conns' \in Nat, conns <= conns',
         conn' = s => conn = s
  PROVE  SessionInv(s)'
  <1> DEFINE u == Unread(s)
             got == relay[s].got
  <1>1. TxTypeOK /\ SessionInv(s)
    BY DEF TxInv
  <1>2. /\ u \in Seq(Bytes) /\ got \in Seq(Seq(Bytes))
    BY <1>1, UnreadFacts
  <1>3. Unread(s)' = u /\ relay'[s].got = got
    BY DEF Unread
  <1>4. frames \in Seq(Frames)
    BY <1>1 DEF TxTypeOK, Frames
  <1>5. Sequenced(u, frames) /\ Ordered(got, u, frames) /\ (conn = s => Whole(u, frames))
    BY <1>1 DEF SessionInv
  <1>6. s > conns' => s > conns
    BY <1>1 DEF TxTypeOK
  <1>7. Reader(relay'[s], frames')
    <2>1. Len(relay[s].hdr) = HdrSize => relay[s].hdr[1].no \in DOMAIN frames
      BY PrefixKnown
    <2>2. Len(relay[s].hdr) = HdrSize => frames'[relay[s].hdr[1].no].len = frames[relay[s].hdr[1].no].len
      BY <2>1 DEF Grows
    <2> QED BY <1>1, <2>2 DEF SessionInv, Reader
  <1> HIDE DEF u, got
  <1>8. Sequenced(u, frames')
    BY <1>2, <1>5, SequencedGrows
  <1>9. conn = s => Whole(u, frames')
    BY <1>2, <1>5, WholeGrows
  <1>10. /\ Ordered(got, u, frames')
         /\ \A t \in Tasks : \A k \in Nat : Older(got, u, t, k, frames) => Older(got, u, t, k, frames')
    BY <1>2, <1>5, OrderedGrows
  <1>11. ASSUME NEW t \in Tasks, task'[t].pc # "free"
         PROVE  Older(got, u, t, task'[t].no, frames')
    <2>1. CASE task[t].pc # "free" /\ task'[t].no = task[t].no
      <3>1. Older(got, u, t, task[t].no, frames)
        BY <1>1, <2>1 DEF SessionInv, got, u
      <3>2. task[t].no \in Nat
        BY <1>1 DEF TxTypeOK
      <3> QED BY <1>10, <2>1, <3>1, <3>2
    <2>2. CASE task'[t].no = Len(frames) + 1
      <3>1. Older(got, u, t, Len(frames) + 1, frames)
        BY <1>2, <1>4, <1>5, NewIsYounger
      <3>2. Len(frames) + 1 \in Nat
        BY <1>4
      <3> QED BY <1>10, <2>2, <3>1, <3>2
    <2> QED BY <1>11, <2>1, <2>2 DEF TasksGoOn
  <1>12. ~relay'[s].live => relay'[s] = Unborn /\ sock'[s] = <<>>
    BY <1>1 DEF SessionInv
  <1>13. s > conns' => ~relay'[s].live
    BY <1>1, <1>6 DEF SessionInv
  <1> QED BY <1>3, <1>7, <1>8, <1>9, <1>10, <1>11, <1>12, <1>13 DEF SessionInv

\* A session that has nothing to read and has read nothing.
LEMMA SessionFresh ==
  ASSUME NEW s \in 1..ConnMax, relay'[s].hdr = <<>>, relay'[s].data = <<>>,
         relay'[s].expected = 0, relay'[s].got = <<>>, sock'[s] = <<>>,
         ~relay'[s].live => relay'[s] = Unborn, s > conns' => ~relay'[s].live
  PROVE  SessionInv(s)'
  <1>1. Unread(s)' = <<>>
    <2>1. (<<>> \o <<>>) \o <<>> = <<>>
      OBVIOUS
    <2> QED BY <2>1 DEF Unread
  <1>2. Len(<<>>) = 0 /\ DOMAIN <<>> = {} /\ HdrSize \in Nat \ {0}
    BY TxSizeAssumption
  <1>3. Reader(relay'[s], frames')
    BY <1>2 DEF Reader
  <1>4. Sequenced(<<>>, frames')
    BY <1>2 DEF Sequenced, OwnBytes, FromStart, Adjacent, InOnePiece, InOrder
  <1>5. Ordered(<<>>, <<>>, frames') /\ Whole(<<>>, frames')
    BY <1>2 DEF Ordered, AllArrived, GotInOrder, GotBefore, Whole
  <1>6. \A t, k : Older(<<>>, <<>>, t, k, frames')
    BY <1>2 DEF Older
  <1> QED BY <1>1, <1>3, <1>4, <1>5, <1>6 DEF SessionInv

\* ---- Steps on the side of the firmware ----------------------------------------------

\* The sessions are the same after a step that leaves sockets and relay alone.
LEMMA Quiet ==
  ASSUME TxInv, TxTypeOK', FramesInv', \A t \in Tasks : TaskInv(t)',
         Grows(frames, frames'), TasksGoOn,
         UNCHANGED relayVars, conn' = conn \/ conn' = 0
  PROVE  TxInv'
  <1>1. UNCHANGED <<sock, relay, conns>> /\ conns \in Nat /\ conn \in Nat /\ conn <= conns
    BY TxBoundAssumption DEF relayVars, TxInv, TxTypeOK
  <1>2. ASSUME NEW s \in 1..ConnMax PROVE SessionInv(s)'
    <2>1. relay'[s] = relay[s] /\ sock'[s] = sock[s] /\ conns' \in Nat /\ conns <= conns'
      BY <1>1
    <2>2. conn' = s => conn = s
      <3>1. s # 0
        BY TxBoundAssumption
      <3> QED BY <3>1
    <2> QED BY <2>1, <2>2, SessionKept
  <1>3. conn' <= conns'
    BY <1>1
  <1> QED BY <1>2, <1>3 DEF TxInv

LEMMA GrowsSelf == \A F : Grows(F, F)
  BY DEF Grows

\* The types of a task's place and its frame.
TaskType == [pc : {"free", "tap", "call", "copy", "addr", "len"},
             no : 0..SendMax, pos : 0..BufSize]

LEMMA TaskTypes ==
  ASSUME TxTypeOK, NEW t \in Tasks
  PROVE  /\ task \in [Tasks -> TaskType] /\ task[t] \in TaskType
         /\ task[t].no \in 0..SendMax /\ task[t].pos \in 0..BufSize
         /\ task[t].pc \in {"free", "tap", "call", "copy", "addr", "len"}
         /\ task[t].pos \in Nat /\ task[t].no \in Nat
         /\ frames \in Seq(Frames) /\ Len(frames) \in Nat /\ DOMAIN frames = 1..Len(frames)
         /\ task[t].no \in DOMAIN frames =>
               /\ Frame(t) \in Frames /\ Frame(t).len \in Nat /\ Frame(t).len <= BufSize
               /\ Frame(t).seen \in Nat
  <1>1. task \in [Tasks -> TaskType] /\ frames \in Seq(Frames)
    BY DEF TxTypeOK, TaskType, Frames
  <1>2. task[t] \in TaskType
    BY <1>1
  <1>3. /\ task[t].no \in 0..SendMax /\ task[t].pos \in 0..BufSize
        /\ task[t].pc \in {"free", "tap", "call", "copy", "addr", "len"}
    BY <1>2 DEF TaskType
  <1>4. Len(frames) \in Nat /\ DOMAIN frames = 1..Len(frames)
    BY <1>1
  <1>5. task[t].no \in DOMAIN frames => Frame(t) \in Frames
    BY <1>1 DEF Frame
  <1>6. Frame(t) \in Frames => Frame(t).len \in 0..BufSize /\ Frame(t).seen \in Nat
    BY DEF Frames
  <1> QED BY <1>1, <1>2, <1>3, <1>4, <1>5, <1>6, TxSizeAssumption, TxBoundAssumption

\* A setter of the sniffer.
LEMMA SnifferStep ==
  ASSUME TxInv, NEW settings \in [on : BOOLEAN, cb : BOOLEAN, mask : SUBSET Types],
         SetUpSniffer(settings)
  PROVE  TxInv'
  <1>1. UNCHANGED <<frames, task, tx_buf, tx_addr, conn, sock, relay, conns, reboots_left>>
    BY DEF SetUpSniffer, relayVars
  <1>2. promisc' = settings /\ sets_left > 0 /\ sets_left' = sets_left - 1
    BY DEF SetUpSniffer
  <1>3. TxTypeOK'
    <2>1. sets_left' \in 0..SetMax
      BY <1>2, TxBoundAssumption DEF TxInv, TxTypeOK
    <2> QED BY <1>1, <1>2, <2>1 DEF TxInv, TxTypeOK
  <1>4. FramesInv' /\ \A t \in Tasks : TaskInv(t)'
    BY <1>1 DEF TxInv, FramesInv, TaskInv, Mine, Frame
  <1>5. Grows(frames, frames') /\ TasksGoOn /\ UNCHANGED relayVars
    BY <1>1, GrowsSelf DEF TasksGoOn, relayVars
  <1> QED BY <1>1, <1>3, <1>4, <1>5, Quiet

\* A task at work keeps its frame.
LEMMA SameFrame ==
  ASSUME NEW t \in Tasks, TaskInv(t), task[t].pc # "free",
         task'[t].pc # "free", task'[t].no = task[t].no, Grows(frames, frames')
  PROVE  /\ task'[t].no \in DOMAIN frames' /\ Frame(t)'.by = t
         /\ Frame(t)'.len = Frame(t).len /\ (Frame(t)'.alone => Frame(t).alone)
  BY DEF TaskInv, Grows, Frame

\* So does a task that does nothing in a step of another one.
LEMMA OtherTask ==
  ASSUME NEW t \in Tasks, TaskInv(t), task'[t] = task[t], tx_buf' = tx_buf,
         Grows(frames, frames'),
         task[t].no \in DOMAIN frames => frames'[task[t].no].seen = frames[task[t].no].seen
  PROVE  TaskInv(t)'
  <1>1. CASE task[t].pc = "free"
    BY <1>1 DEF TaskInv
  <1>2. CASE task[t].pc # "free"
    <2>1. /\ task'[t].no \in DOMAIN frames' /\ Frame(t)'.by = t
          /\ Frame(t)'.len = Frame(t).len /\ (Frame(t)'.alone => Frame(t).alone)
      BY <1>2, SameFrame
    <2>2. Frame(t)'.seen = Frame(t).seen
      BY <1>2 DEF TaskInv, Frame
    <2>3. Mine(t)'
      BY <1>2, <2>1 DEF TaskInv, Mine
    <2> QED BY <1>2, <2>1, <2>2, <2>3 DEF TaskInv
  <1> QED BY <1>1, <1>2

LEMMA HandInStep ==
  ASSUME TxInv, NEW t \in Tasks, NEW raw \in BOOLEAN, NEW type \in Types,
         NEW n \in 0..BufSize, n > 0 => type = "data", HandIn(t, raw, type, n)
  PROVE  TxInv'
  <1> DEFINE new == [by |-> t, raw |-> raw, type |-> type, len |-> n, seen |-> 0, alone |-> TRUE]
             k   == Len(frames) + 1
  <1>1. /\ task[t].pc = "free" /\ Len(frames) < SendMax
        /\ frames' = Append(frames, new)
        /\ task' = [task EXCEPT ![t] = [pc |-> "tap", no |-> k, pos |-> 0]]
        /\ UNCHANGED <<promisc, tx_buf, tx_addr, conn, sock, relay, conns, sets_left, reboots_left>>
    BY DEF HandIn, relayVars, txBounds
  <1>2. TxTypeOK /\ frames \in Seq(Frames) /\ Len(frames) \in Nat /\ DOMAIN frames = 1..Len(frames)
        /\ task \in [Tasks -> TaskType]
    BY TaskTypes DEF TxInv
  <1>3. new \in Frames
    BY DEF Frames
  <1>n. /\ new.by = t /\ new.len = n /\ new.type = type /\ new.seen = 0 /\ new.alone
    OBVIOUS
  <1> HIDE DEF new
  <1>4. /\ frames' \in Seq(Frames) /\ Len(frames') = k /\ DOMAIN frames' = 1..k
        /\ \A i \in 1..Len(frames) : frames'[i] = frames[i]
        /\ frames'[k] = new
    BY <1>1, <1>2, <1>3, Grown
  <1>5. k \in 1..SendMax /\ k \in DOMAIN frames'
    BY <1>1, <1>2, <1>4, TxBoundAssumption
  <1>6. Grows(frames, frames')
    BY <1>2, <1>4 DEF Grows
  <1>7. task'[t] = [pc |-> "tap", no |-> k, pos |-> 0] /\ \A o \in Tasks \ {t} : task'[o] = task[o]
    BY <1>1, <1>2
  <1>8. TxTypeOK'
    <2>1. [pc |-> "tap", no |-> k, pos |-> 0] \in TaskType
      BY <1>5, TxSizeAssumption DEF TaskType
    <2>2. task' \in [Tasks -> TaskType]
      BY <1>1, <1>2, <2>1
    <2>3. frames' \in Seq(Frames) /\ Len(frames') <= SendMax
      BY <1>4, <1>5
    <2> QED BY <1>1, <1>2, <2>2, <2>3 DEF TxTypeOK, TaskType, Frames
  <1>9. FramesInv'
    <2> SUFFICES ASSUME NEW f \in DOMAIN frames'
                 PROVE frames'[f].seen <= 1 /\ (frames'[f].len > 0 => frames'[f].type = "data")
      BY DEF FramesInv
    <2>1. f \in DOMAIN frames \/ f = k
      BY <1>2, <1>4
    <2> QED BY <1>2, <1>4, <1>n, <2>1 DEF TxInv, FramesInv
  <1>10. ASSUME NEW o \in Tasks PROVE TaskInv(o)'
    <2>1. CASE o = t
      <3>1. Frame(o)' = new
        BY <1>4, <1>7, <2>1 DEF Frame
      <3>2. task'[o].pc = "tap" /\ task'[o].no = k /\ task'[o].pos = 0
        BY <1>7, <2>1
      <3>3. Mine(o)'
        BY <3>2 DEF Mine
      <3> QED BY <1>5, <1>n, <2>1, <3>1, <3>2, <3>3 DEF TaskInv
    <2>2. CASE o # t
      <3>1. task'[o] = task[o] /\ TaskInv(o) /\ tx_buf' = tx_buf
        BY <1>1, <1>7, <2>2 DEF TxInv
      <3>2. task[o].no \in DOMAIN frames => frames'[task[o].no].seen = frames[task[o].no].seen
        BY <1>2, <1>4
      <3> QED BY <1>6, <3>1, <3>2, OtherTask
    <2> QED BY <2>1, <2>2
  <1>11. TasksGoOn
    <2>1. task'[t].no = Len(frames) + 1
      BY <1>7
    <2> QED BY <1>7, <2>1 DEF TasksGoOn
  <1> QED BY <1>1, <1>6, <1>8, <1>9, <1>10, <1>11, Quiet DEF relayVars

\* A task takes a step that writes neither to the buffer nor to the history.
LEMMA TaskMoves ==
  ASSUME TxInv, NEW t \in Tasks, NEW x \in TaskType, task' = [task EXCEPT ![t] = x],
         x.pc # "free" => task[t].pc # "free" /\ x.no = task[t].no,
         TaskInv(t)', tx_addr' \in BOOLEAN,
         UNCHANGED <<promisc, frames, tx_buf, conn, relayVars, txBounds>>
  PROVE  TxInv'
  <1>1. UNCHANGED <<promisc, frames, tx_buf, conn, sock, relay, conns, sets_left, reboots_left>>
    BY DEF relayVars, txBounds
  <1>2. TxTypeOK /\ task \in [Tasks -> TaskType]
    BY TaskTypes DEF TxInv
  <1>3. task'[t] = x /\ (\A o \in Tasks \ {t} : task'[o] = task[o]) /\ task' \in [Tasks -> TaskType]
    BY <1>2
  <1>4. TxTypeOK'
    BY <1>1, <1>2, <1>3 DEF TxTypeOK, TaskType
  <1>5. FramesInv' /\ Grows(frames, frames')
    BY <1>1, GrowsSelf DEF TxInv, FramesInv
  <1>6. ASSUME NEW o \in Tasks PROVE TaskInv(o)'
    <2>1. CASE o = t
      BY <2>1
    <2>2. CASE o # t
      BY <1>1, <1>3, <1>5, <2>2, OtherTask DEF TxInv
    <2> QED BY <2>1, <2>2
  <1>7. TasksGoOn
    BY <1>3 DEF TasksGoOn
  <1> QED BY <1>1, <1>4, <1>5, <1>6, <1>7, Quiet DEF relayVars

\* The same when the step only changes where the task is.
LEMMA AfterTapInv ==
  ASSUME TxInv, NEW t \in Tasks, task[t].pc \in {"tap", "call"}
  PROVE  /\ AfterTap(t) \in TaskType
         /\ AfterTap(t) = Free \/ (Frame(t).len > 0 /\ AfterTap(t) = [task[t] EXCEPT !.pc = "copy"])
  <1>1. Free \in TaskType
    BY TxSizeAssumption, TxBoundAssumption DEF Free, NoFrame, TaskType
  <1>2. task[t] \in TaskType /\ Frame(t).len \in Nat
    BY TaskTypes DEF TxInv, TaskInv
  <1>3. [task[t] EXCEPT !.pc = "copy"] \in TaskType
    BY <1>2 DEF TaskType
  <1> QED BY <1>1, <1>2, <1>3 DEF AfterTap

LEMMA TapStep == ASSUME TxInv, NEW t \in Tasks, NEW enough \in BOOLEAN, Tap(t, enough) PROVE TxInv'
  <1> DEFINE x == IF promisc.on /\ promisc.cb /\ Frame(t).type \in promisc.mask /\ enough
                  THEN [task[t] EXCEPT !.pc = "call"] ELSE AfterTap(t)
  <1>1. /\ task[t].pc = "tap" /\ task' = [task EXCEPT ![t] = x]
        /\ UNCHANGED <<promisc, frames, tx_buf, tx_addr, conn, relayVars, txBounds>>
    BY DEF Tap, At
  <1>2. /\ task \in [Tasks -> TaskType] /\ task[t] \in TaskType /\ TaskInv(t) /\ tx_addr \in BOOLEAN
        /\ task[t].no \in DOMAIN frames /\ Frame(t).len \in Nat
    BY <1>1, TaskTypes DEF TxInv, TxTypeOK, TaskInv
  <1>3. \/ x = [task[t] EXCEPT !.pc = "call"] \/ x = Free
        \/ (x = [task[t] EXCEPT !.pc = "copy"] /\ Frame(t).len > 0)
    BY <1>1, AfterTapInv
  <1>4. x \in TaskType
    <2>1. [task[t] EXCEPT !.pc = "call"] \in TaskType
      BY <1>2 DEF TaskType
    <2> QED BY <1>1, <2>1, AfterTapInv
  <1>5. /\ x.pc \in {"call", "copy", "free"} /\ (x.pc = "free" => x = Free)
        /\ x.pc # "free" => x.no = task[t].no /\ x.pos = task[t].pos
        /\ x.pc = "copy" => Frame(t).len > 0
    BY <1>2, <1>3 DEF TaskType, Free
  <1> HIDE DEF x
  <1>6. task'[t] = x /\ UNCHANGED <<frames, tx_buf>>
    BY <1>1, <1>2
  <1>7. TaskInv(t)'
    BY <1>1, <1>2, <1>5, <1>6 DEF TaskInv, Frame, Mine
  <1> QED BY <1>1, <1>2, <1>4, <1>5, <1>7, TaskMoves

LEMMA NoMemoryStep == ASSUME TxInv, NEW t \in Tasks, NoMemory(t) PROVE TxInv'
  <1>1. /\ task' = [task EXCEPT ![t] = Free]
        /\ UNCHANGED <<promisc, frames, tx_buf, tx_addr, conn, relayVars, txBounds>>
    BY DEF NoMemory
  <1>2. Free \in TaskType /\ Free.pc = "free"
    BY TxSizeAssumption, TxBoundAssumption DEF Free, NoFrame, TaskType
  <1>3. task \in [Tasks -> TaskType] /\ tx_addr \in BOOLEAN
    BY TaskTypes DEF TxInv, TxTypeOK
  <1>4. task'[t] = Free
    BY <1>1, <1>3
  <1>5. TaskInv(t)'
    BY <1>2, <1>4 DEF TaskInv
  <1> QED BY <1>1, <1>2, <1>3, <1>5, TaskMoves

LEMMA WriteTxAddrStep == ASSUME TxInv, NEW t \in Tasks, WriteTxAddr(t) PROVE TxInv'
  <1> DEFINE x == [task[t] EXCEPT !.pc = "len"]
  <1>1. /\ task[t].pc = "addr" /\ task' = [task EXCEPT ![t].pc = "len"] /\ tx_addr' = TRUE
        /\ UNCHANGED <<promisc, frames, tx_buf, conn, relayVars, txBounds>>
    BY DEF WriteTxAddr, At
  <1>2. task \in [Tasks -> TaskType] /\ task[t] \in TaskType /\ TaskInv(t)
    BY TaskTypes DEF TxInv
  <1>3. x \in TaskType /\ x.pc = "len" /\ x.no = task[t].no /\ x.pos = task[t].pos
    BY <1>2 DEF TaskType
  <1>4. task' = [task EXCEPT ![t] = x]
    BY <1>1, <1>2
  <1> HIDE DEF x
  <1>5. task'[t] = x /\ UNCHANGED <<frames, tx_buf>>
    BY <1>1, <1>2, <1>4
  <1>6. TaskInv(t)'
    BY <1>1, <1>2, <1>3, <1>5 DEF TaskInv, Frame, Mine
  <1> QED BY <1>1, <1>3, <1>4, <1>6, TaskMoves

\* The sniffer is shown the frame, for the first time.
LEMMA CallStep == ASSUME TxInv, NEW t \in Tasks, Call(t) PROVE TxInv'
  <1> DEFINE k == task[t].no
  <1>1. /\ task[t].pc = "call" /\ task' = [task EXCEPT ![t] = AfterTap(t)]
        /\ frames' = [frames EXCEPT ![k].seen = @ + 1]
        /\ UNCHANGED <<promisc, tx_buf, tx_addr, conn, sock, relay, conns, sets_left, reboots_left>>
    BY DEF Call, At, relayVars, txBounds
  <1>2. /\ TxTypeOK /\ task \in [Tasks -> TaskType] /\ task[t] \in TaskType /\ TaskInv(t)
        /\ k \in DOMAIN frames /\ frames \in Seq(Frames) /\ FramesInv
        /\ frames[k].by = t /\ frames[k].seen = 0 /\ task[t].pos = 0
        /\ Len(frames) \in Nat /\ DOMAIN frames = 1..Len(frames) /\ Frame(t).len \in Nat
    BY <1>1, TaskTypes DEF TxInv, TaskInv, Frame
  <1>3. /\ AfterTap(t) \in TaskType
        /\ AfterTap(t) = Free
           \/ (Frame(t).len > 0 /\ AfterTap(t) = [task[t] EXCEPT !.pc = "copy"])
    BY <1>1, AfterTapInv
  <1>4. [frames[k] EXCEPT !.seen = 1] \in Frames
    <2>1. frames[k] \in Frames
      BY <1>2
    <2> QED BY <2>1 DEF Frames
  <1>5. /\ frames' = [frames EXCEPT ![k] = [frames[k] EXCEPT !.seen = 1]]
    BY <1>1, <1>2
  <1>6. /\ frames' \in Seq(Frames) /\ Len(frames') = Len(frames) /\ DOMAIN frames' = DOMAIN frames
        /\ frames'[k] = [frames[k] EXCEPT !.seen = 1]
        /\ \A f \in DOMAIN frames : f # k => frames'[f] = frames[f]
    BY <1>2, <1>4, <1>5
  <1>7. /\ frames'[k].by = frames[k].by /\ frames'[k].len = frames[k].len
        /\ frames'[k].type = frames[k].type /\ frames'[k].alone = frames[k].alone
        /\ frames'[k].seen = 1
    <2>1. frames[k] \in Frames
      BY <1>2
    <2> QED BY <1>6, <2>1 DEF Frames
  <1>8. Grows(frames, frames')
    BY <1>6, <1>7 DEF Grows
  <1>9. task'[t] = AfterTap(t) /\ (\A o \in Tasks \ {t} : task'[o] = task[o])
        /\ task' \in [Tasks -> TaskType]
    BY <1>1, <1>2, <1>3
  <1>10. TxTypeOK'
    BY <1>1, <1>2, <1>6, <1>9 DEF TxTypeOK, TaskType, Frames
  <1>11. FramesInv'
    <2> SUFFICES ASSUME NEW f \in DOMAIN frames
                 PROVE frames'[f].seen <= 1 /\ (frames'[f].len > 0 => frames'[f].type = "data")
      BY <1>6 DEF FramesInv
    <2>1. frames[f].seen <= 1 /\ (frames[f].len > 0 => frames[f].type = "data")
      BY <1>2 DEF FramesInv
    <2>2. CASE f = k
      BY <1>7, <2>1, <2>2
    <2>3. CASE f # k
      BY <1>6, <2>1, <2>3
    <2> QED BY <2>2, <2>3
  <1>12. ASSUME NEW o \in Tasks PROVE TaskInv(o)'
    <2>1. CASE o # t
      <3>1. task[o].no \in DOMAIN frames /\ task[o].pc # "free" => task[o].no # k
        BY <1>2, <2>1 DEF TxInv, TaskInv, Frame
      <3>2. task[o].pc = "free" => task[o].no \notin DOMAIN frames
        BY <1>2 DEF TxInv, TaskInv, Free, NoFrame
      <3>3. task[o].no \in DOMAIN frames => frames'[task[o].no].seen = frames[task[o].no].seen
        BY <1>6, <3>1, <3>2
      <3> QED BY <1>1, <1>8, <1>9, <2>1, <3>3, OtherTask DEF TxInv
    <2>2. CASE o = t
      <3>1. CASE AfterTap(t) = Free
        <4>1. task'[t] = Free /\ Free.pc = "free"
          BY <1>9, <3>1 DEF Free
        <4> QED BY <2>2, <4>1 DEF TaskInv
      <3>2. CASE Frame(t).len > 0 /\ AfterTap(t) = [task[t] EXCEPT !.pc = "copy"]
        <4>1. task'[t].pc = "copy" /\ task'[t].no = k /\ task'[t].pos = 0
          BY <1>2, <1>9, <3>2 DEF TaskType
        <4>2. Frame(t)'.len > 0 /\ Frame(t)'.by = t
          BY <1>2, <1>7, <3>2, <4>1 DEF Frame
        <4>3. Mine(t)'
          BY <4>1 DEF Mine
        <4> QED BY <1>2, <1>6, <2>2, <4>1, <4>2, <4>3 DEF TaskInv
      <3> QED BY <1>3, <3>1, <3>2
    <2> QED BY <2>1, <2>2
  <1>13. TasksGoOn
    <2>1. task'[t].pc # "free" => task'[t].no = task[t].no
      BY <1>2, <1>3, <1>9 DEF Free, TaskType
    <2> QED BY <1>1, <1>9, <2>1 DEF TasksGoOn
  <1> QED BY <1>1, <1>8, <1>10, <1>11, <1>12, <1>13, Quiet DEF relayVars

\* ---- The DMA buffer is written -----------------------------------------------------

LEMMA CopyStep == ASSUME TxInv, NEW t \in Tasks, Copy(t) PROVE TxInv'
  <1> DEFINE k == task[t].no
             i == task[t].pos + 1
             p == IF i = Frame(t).len THEN "addr" ELSE "copy"
             x == [task[t] EXCEPT !.pos = i, !.pc = p]
  <1>1. /\ task[t].pc = "copy"
        /\ tx_buf' = [tx_buf EXCEPT ![i] = k]
        /\ task' = [task EXCEPT ![t].pos = i, ![t].pc = IF i = Frame(t).len THEN "addr" ELSE @]
        /\ frames' = [f \in DOMAIN frames |-> [frames[f] EXCEPT !.alone =
               @ /\ ~\E u \in Tasks \ {t} : task[u].no = f /\ task[u].pos > 0]]
        /\ UNCHANGED <<promisc, tx_addr, conn, sock, relay, conns, sets_left, reboots_left>>
    BY DEF Copy, At, relayVars, txBounds
  <1>2. /\ TxTypeOK /\ task \in [Tasks -> TaskType] /\ task[t] \in TaskType /\ TaskInv(t)
        /\ frames \in Seq(Frames) /\ Len(frames) \in Nat /\ DOMAIN frames = 1..Len(frames)
        /\ k \in DOMAIN frames /\ k \in 0..SendMax /\ task[t].pos \in Nat
        /\ Frame(t).len \in Nat /\ Frame(t).len <= BufSize
        /\ task[t].pos < Frame(t).len
    BY <1>1, TaskTypes DEF TxInv, TaskInv
  <1>3. i \in 1..BufSize /\ i <= Frame(t).len
    BY <1>2, TxSizeAssumption
  <1>4. x \in TaskType /\ x.pos = i /\ x.no = k /\ x.pc = p
    <2>1. i \in 0..BufSize /\ p \in {"addr", "copy"} /\ task[t] \in TaskType
      BY <1>2, <1>3
    <2> HIDE DEF i, p
    <2> QED BY <2>1 DEF TaskType
  <1>5. /\ task' = [task EXCEPT ![t] = x]
    BY <1>1, <1>2
  <1>p. p = IF i = Frame(t).len THEN "addr" ELSE "copy"
    OBVIOUS
  <1>j. \A j \in 1..i : j = i \/ (j \in 1..task[t].pos /\ j \in 1..BufSize /\ j # i)
    <2>1. \A q \in Nat : \A j \in 1..(q + 1) : j = q + 1 \/ (j \in 1..q /\ j # q + 1)
      OBVIOUS
    <2>2. \A j \in 1..i : j \in 1..BufSize
      BY <1>3, TxSizeAssumption
    <2> QED BY <1>2, <2>1, <2>2
  <1>n. k \in Nat /\ i \in Nat
    BY <1>2, TxBoundAssumption
  <1> DEFINE taken(f) == \E u \in Tasks \ {t} : task[u].no = f /\ task[u].pos > 0
             G(f) == [frames[f] EXCEPT !.alone = frames[f].alone /\ ~taken(f)]
  <1>6. \A f \in DOMAIN frames : G(f) \in Frames /\ frames'[f] = G(f)
    <2> SUFFICES ASSUME NEW f \in DOMAIN frames PROVE G(f) \in Frames /\ frames'[f] = G(f)
      OBVIOUS
    <2>1. frames[f] \in Frames
      BY <1>2
    <2>2. (frames[f].alone /\ ~taken(f)) \in BOOLEAN
      OBVIOUS
    <2>3. G(f) \in Frames
      BY <2>1, <2>2 DEF Frames
    <2> QED BY <1>1, <2>3
  <1>7. \A f \in DOMAIN frames :
          /\ frames'[f].by = frames[f].by /\ frames'[f].len = frames[f].len
          /\ frames'[f].type = frames[f].type /\ frames'[f].seen = frames[f].seen
          /\ frames'[f].alone => frames[f].alone /\ ~taken(f)
    <2> SUFFICES ASSUME NEW f \in DOMAIN frames
                 PROVE /\ frames'[f].by = frames[f].by /\ frames'[f].len = frames[f].len
                       /\ frames'[f].type = frames[f].type /\ frames'[f].seen = frames[f].seen
                       /\ frames'[f].alone => frames[f].alone /\ ~taken(f)
      OBVIOUS
    <2>1. frames[f] \in Frames /\ frames'[f] = G(f)
      BY <1>2, <1>6
    <2> HIDE DEF taken
    <2> QED BY <2>1 DEF Frames
  <1>8. /\ frames' \in Seq(Frames) /\ Len(frames') = Len(frames) /\ DOMAIN frames' = DOMAIN frames
    <2>1. frames' \in [1..Len(frames) -> Frames]
      BY <1>1, <1>2, <1>6
    <2> QED BY <1>2, <2>1
  <1> HIDE DEF G, x, p, i, k
  <1>9. Grows(frames, frames')
    BY <1>7, <1>8 DEF Grows
  <1>10. task'[t] = x /\ (\A o \in Tasks \ {t} : task'[o] = task[o])
         /\ task' \in [Tasks -> TaskType]
    BY <1>2, <1>4, <1>5
  <1>11. /\ tx_buf' \in [1..BufSize -> 0..SendMax] /\ tx_buf'[i] = k
         /\ \A j \in 1..BufSize : j # i => tx_buf'[j] = tx_buf[j]
    BY <1>1, <1>2, <1>3 DEF TxTypeOK, i, k
  <1>12. TxTypeOK'
    BY <1>1, <1>2, <1>8, <1>10, <1>11 DEF TxTypeOK, TaskType, Frames
  <1>13. FramesInv'
    BY <1>7, <1>8 DEF TxInv, FramesInv
  <1>14. ASSUME NEW o \in Tasks PROVE TaskInv(o)'
    <2>1. CASE o = t
      <3>1. /\ task'[t].pos = i /\ task'[t].no = k /\ k = task[t].no
            /\ task'[t].pc = IF i = Frame(t).len THEN "addr" ELSE "copy"
        BY <1>4, <1>10, <1>p DEF k
      <3>2. /\ Frame(t)' = frames'[k] /\ Frame(t) = frames[k] /\ k \in DOMAIN frames'
        BY <1>2, <1>8, <3>1 DEF Frame, k
      <3>3. Frame(t)'.by = t /\ Frame(t)'.len = Frame(t).len /\ (Frame(t)'.alone => Frame(t).alone)
        <4>1. Frame(t).by = t
          BY <1>1, <1>2 DEF TaskInv
        <4>2. k \in DOMAIN frames
          BY <1>2 DEF k
        <4>3. /\ frames'[k].by = frames[k].by /\ frames'[k].len = frames[k].len
              /\ frames'[k].alone => frames[k].alone
          BY <1>7, <4>2
        <4> QED BY <3>2, <4>1, <4>3
      <3>4. Mine(t)'
        <4> SUFFICES ASSUME Frame(t).alone, NEW j \in 1..i PROVE tx_buf'[j] = k
          BY <3>1, <3>3 DEF Mine
        <4>1. j = i \/ (j \in 1..task[t].pos /\ j \in 1..BufSize /\ j # i)
          BY <1>j
        <4>2. j \in 1..task[t].pos => tx_buf[j] = k
          BY <1>1, <1>2 DEF TaskInv, Mine, k
        <4> QED BY <1>11, <4>1, <4>2
      <3>5. i < Frame(t).len \/ i = Frame(t).len
        BY <1>2, <1>3
      <3>6. Frame(t).len > 0
        BY <1>2, <1>3
      <3> QED BY <2>1, <3>1, <3>2, <3>3, <3>4, <3>5, <3>6 DEF TaskInv
    <2>2. CASE o # t
      <3>1. task'[o] = task[o] /\ TaskInv(o)
        BY <1>10, <2>2 DEF TxInv
      <3>2. CASE task[o].pc = "free"
        BY <3>1, <3>2 DEF TaskInv
      <3>3. CASE task[o].pc # "free"
        <4>1. /\ task'[o].no \in DOMAIN frames' /\ Frame(o)'.by = o
              /\ Frame(o)'.len = Frame(o).len
          BY <1>9, <3>1, <3>3, SameFrame
        <4>2. task[o].no \in DOMAIN frames
          BY <3>1, <3>3 DEF TaskInv
        <4>3. Frame(o)'.seen = Frame(o).seen
          BY <1>7, <3>1, <4>2 DEF Frame
        <4>4. Mine(o)'
          <5>1. CASE task[o].pos > 0
            <6>1. taken(task[o].no)
              BY <2>2, <5>1
            <6>2. ~Frame(o)'.alone
              BY <1>7, <3>1, <4>2, <6>1 DEF Frame
            <6> QED BY <6>2 DEF Mine
          <5>2. CASE ~(task[o].pos > 0)
            <6>1. task[o].pos = 0
              BY <1>2, <5>2, TaskTypes
            <6> QED BY <3>1, <6>1 DEF Mine
          <5> QED BY <5>1, <5>2
        <4> QED BY <3>1, <3>3, <4>1, <4>3, <4>4 DEF TaskInv
      <3> QED BY <3>2, <3>3
    <2> QED BY <2>1, <2>2
  <1>15. TasksGoOn
    <2>1. task'[t].no = task[t].no /\ task[t].pc # "free"
      BY <1>1, <1>4, <1>10 DEF k
    <2> QED BY <1>10, <2>1 DEF TasksGoOn
  <1> QED BY <1>1, <1>9, <1>12, <1>13, <1>14, <1>15, Quiet DEF relayVars

\* ---- The device sends ---------------------------------------------------------------

\* The bytes of a frame that is all in the buffer.
LEMMA MessageFacts ==
  ASSUME TxInv, NEW t \in Tasks, task[t].pc = "len",
         NEW n \in 0..Len(Message(task[t].no))
  PROVE  /\ task[t].no \in DOMAIN frames /\ Frame(t).by = t
         /\ Len(Message(task[t].no)) = HdrSize + frames[task[t].no].len
         /\ SubSeq(Message(task[t].no), 1, n) \in Seq(Bytes)
         /\ Len(SubSeq(Message(task[t].no), 1, n)) = n
         /\ Piece(SubSeq(Message(task[t].no), 1, n), task[t].no, frames)
  <1> DEFINE k == task[t].no
             l == frames[k].len
             M == Message(k)
             w == SubSeq(M, 1, n)
  <1>1. /\ TxTypeOK /\ TaskInv(t) /\ k \in DOMAIN frames /\ k \in 0..SendMax /\ Frame(t).by = t
        /\ task[t].pos = l /\ l > 0 /\ Mine(t) /\ l \in Nat /\ l <= BufSize
        /\ Frame(t) = frames[k] /\ k # 0
    BY TaskTypes DEF TxInv, TaskInv, Frame
  <1>2. HdrSize \in Nat \ {0} /\ BufSize \in Nat /\ SendMax \in Nat /\ HdrSize + l \in Nat
    BY <1>1, TxSizeAssumption, TxBoundAssumption
  <1>3. tx_buf \in [1..BufSize -> 0..SendMax]
    BY <1>1 DEF TxTypeOK
  <1>4. k \in 1..SendMax
    BY <1>1, <1>2
  <1>5. \A i \in 1..l : tx_buf[i] \in 0..SendMax /\ (frames[k].alone => tx_buf[i] = k)
    BY <1>1, <1>2, <1>3 DEF Mine
  <1> DEFINE b(i) == [no |-> k, pos |-> i, from |-> IF i <= HdrSize THEN k ELSE tx_buf[i - HdrSize]]
  <1>6. M = [i \in 1..(HdrSize + l) |-> b(i)]
    BY DEF Message
  <1> HIDE DEF k, l, M
  <1>7. ASSUME NEW i \in 1..(HdrSize + l)
        PROVE /\ b(i) \in Bytes /\ b(i).no = k /\ b(i).pos = i
              /\ i <= HdrSize \/ frames[k].alone => b(i).from = k
    <2>1. i <= HdrSize \/ i - HdrSize \in 1..l
      <3>1. \A a, c \in Nat : \A j \in 1..(a + c) : j <= a \/ j - a \in 1..c
        OBVIOUS
      <3> QED BY <1>1, <1>2, <3>1
    <2>2. i \in 1..(HdrSize + BufSize)
      BY <1>1, <1>2
    <2>3. b(i).from \in 0..SendMax
      BY <1>4, <1>5, <2>1, <1>2
    <2>4. i <= HdrSize \/ frames[k].alone => b(i).from = k
      BY <1>5, <2>1
    <2> QED BY <1>4, <2>2, <2>3, <2>4 DEF Bytes
  <1> HIDE DEF b
  <1>8. M \in Seq(Bytes) /\ Len(M) = HdrSize + l /\ \A i \in 1..(HdrSize + l) : M[i] = b(i)
    BY <1>2, <1>6, <1>7
  <1>n. n \in 0..Len(M)
    BY DEF M, k
  <1>9. w \in Seq(Bytes) /\ Len(w) = n /\ \A i \in 1..n : w[i] = M[i]
    BY <1>8, <1>n, Parts
  <1> HIDE DEF w
  <1>10. Piece(w, k, frames)
    <2>1. DOMAIN w = 1..n /\ n <= HdrSize + l /\ \A i \in 1..n : i \in 1..(HdrSize + l)
      BY <1>2, <1>8, <1>9, <1>n
    <2>2. \A i \in DOMAIN w : /\ w[i].no = k /\ w[i].pos = i
                              /\ i <= HdrSize \/ frames[k].alone => w[i].from = k
                              /\ i \in 1..(HdrSize + l)
      BY <1>7, <1>8, <1>9, <2>1
    <2> QED BY <1>1, <1>9, <2>1, <2>2 DEF Piece, ByteOf, l
  <1> QED BY <1>1, <1>8, <1>9, <1>10 DEF w, M, k, l

\* What was read comes before what is sent.
LEMMA PieceOrdered ==
  ASSUME NEW got, NEW u \in Seq(Bytes), NEW w \in Seq(Bytes), NEW k, NEW F,
         Ordered(got, u, F), Piece(w, k, F), Older(got, u, F[k].by, k, F)
  PROVE  /\ Ordered(got, u \o w, F)
         /\ \A t \in Tasks : \A m \in Nat : t # F[k].by /\ Older(got, u, t, m, F)
                                            => Older(got, u \o w, t, m, F)
  <1>1. \A j \in DOMAIN (u \o w) :
          (j \in DOMAIN u /\ (u \o w)[j] = u[j]) \/ (u \o w)[j].no = k
    <2> SUFFICES ASSUME NEW j \in DOMAIN (u \o w), j \notin DOMAIN u PROVE (u \o w)[j].no = k
      BY Joined
    <2>1. /\ Len(u) \in Nat /\ Len(w) \in Nat /\ DOMAIN u = 1..Len(u) /\ DOMAIN w = 1..Len(w)
          /\ DOMAIN (u \o w) = 1..(Len(u) + Len(w))
      OBVIOUS
    <2>2. j - Len(u) \in 1..Len(w) /\ Len(u) + (j - Len(u)) = j
      BY <2>1
    <2>3. (u \o w)[Len(u) + (j - Len(u))] = w[j - Len(u)]
      BY <2>2, Joined
    <2> QED BY <2>1, <2>2, <2>3 DEF Piece
  <1>2. GotBefore(got, u \o w, F)
    BY <1>1 DEF Ordered, GotBefore, Older
  <1>3. ASSUME NEW t \in Tasks, NEW m \in Nat, t # F[k].by, Older(got, u, t, m, F)
        PROVE  Older(got, u \o w, t, m, F)
    BY <1>1, <1>3 DEF Older
  <1> QED BY <1>2, <1>3 DEF Ordered

\* The session of the connection the frame is sent on.
LEMMA SendSession ==
  ASSUME TxInv, NEW t \in Tasks, task[t].pc = "len", NEW s \in 1..ConnMax, conn = s,
         NEW n \in 0..Len(Message(task[t].no)), relay[s].live \/ n = 0,
         sock' = [sock EXCEPT ![s] = @ \o SubSeq(Message(task[t].no), 1, n)],
         conn' = IF n < Len(Message(task[t].no)) THEN 0 ELSE conn,
         task' = [task EXCEPT ![t] = Free],
         UNCHANGED <<frames, relay, conns>>
  PROVE  SessionInv(s)' /\ sock' \in [1..ConnMax -> Seq(Bytes)]
  <1> DEFINE k == task[t].no
             w == SubSeq(Message(k), 1, n)
             u == Unread(s)
             got == relay[s].got
  <1>1. /\ TxTypeOK /\ s \in 1..ConnMax /\ SessionInv(s) /\ task \in [Tasks -> TaskType]
        /\ frames \in Seq(Frames) /\ conn = s
    BY TaskTypes DEF TxInv
  <1>2. /\ k \in DOMAIN frames /\ frames[k].by = t /\ w \in Seq(Bytes) /\ Len(w) = n
        /\ Piece(w, k, frames) /\ Len(Message(k)) = HdrSize + frames[k].len
    BY MessageFacts DEF Frame
  <1>3. /\ u \in Seq(Bytes) /\ got \in Seq(Seq(Bytes)) /\ sock[s] \in Seq(Bytes)
        /\ relay[s].hdr \in Seq(Bytes) /\ relay[s].data \in Seq(Bytes)
    BY <1>1, UnreadFacts
  <1>4. sock'[s] = sock[s] \o w /\ relay'[s] = relay[s]
        /\ sock' \in [1..ConnMax -> Seq(Bytes)]
    <2>0. sock \in [1..ConnMax -> Seq(Bytes)]
      BY <1>1 DEF TxTypeOK
    <2>1. sock' = [sock EXCEPT ![s] = sock[s] \o w]
      BY <1>1, <2>0
    <2>2. sock[s] \o w \in Seq(Bytes)
      BY <1>2, <1>3, Joined
    <2> QED BY <1>1, <2>0, <2>1, <2>2
  <1>5. Sequenced(u, frames) /\ Whole(u, frames) /\ Ordered(got, u, frames)
        /\ Older(got, u, t, k, frames) /\ Reader(relay[s], frames)
    <2>1. task[t].pc # "free"
      OBVIOUS
    <2> QED BY <1>1, <2>1 DEF SessionInv
  <1> HIDE DEF k, w, got
  <1>6. Unread(s)' = u \o w
    <2>2. (relay[s].hdr \o relay[s].data) \o (sock[s] \o w)
             = ((relay[s].hdr \o relay[s].data) \o sock[s]) \o w
      <3>1. /\ \A e, f \in Seq(Bytes) : Glued(e, f) \in Seq(Bytes)
            /\ \A e, f, g \in Seq(Bytes) : Glued(e, Glued(f, g)) = Glued(Glued(e, f), g)
        <4>1. \A e, f \in Seq(Bytes) : Glued(e, f) \in Seq(Bytes)
          BY ONLY Associative
        <4>2. \A e, f, g \in Seq(Bytes) : Glued(e, Glued(f, g)) = Glued(Glued(e, f), g)
          BY ONLY Associative
        <4> QED BY ONLY <4>1, <4>2
      <3>2. /\ relay[s].hdr \in Seq(Bytes) /\ relay[s].data \in Seq(Bytes)
            /\ sock[s] \in Seq(Bytes) /\ w \in Seq(Bytes)
        BY <1>2, <1>3
      <3>3. Glued(relay[s].hdr, relay[s].data) \in Seq(Bytes)
        BY ONLY <3>1, <3>2, Zenon
      <3>4. Glued(Glued(relay[s].hdr, relay[s].data), Glued(sock[s], w))
              = Glued(Glued(Glued(relay[s].hdr, relay[s].data), sock[s]), w)
        BY ONLY <3>1, <3>2, <3>3, Zenon
      <3> QED BY ONLY <3>4 DEF Glued
    <2>3. Unread(s)' = (relay[s].hdr \o relay[s].data) \o (sock[s] \o w)
      BY <1>4 DEF Unread
    <2> QED BY <2>2, <2>3 DEF Unread
  <1>d. relay'[s].got = got /\ relay'[s] = relay[s] /\ frames' = frames
    BY <1>4 DEF got
  <1> HIDE DEF u
  <1>7. Sequenced(u \o w, frames)
    <2>1. Behind(u, k, frames)
      BY <1>2, <1>5 DEF Older, Behind
    <2> QED BY <1>1, <1>2, <1>3, <1>5, <2>1, PieceAppended
  <1>8. conn' = s => Whole(u \o w, frames)
    <2> SUFFICES ASSUME conn' = s PROVE Whole(u \o w, frames)
      OBVIOUS
    <2>1. s # 0
      BY <1>1, TxBoundAssumption
    <2>2. ~(n < Len(Message(k)))
      BY <2>1 DEF k
    <2>3. n = HdrSize + frames[k].len
      BY <1>2, <2>2, TxSizeAssumption DEF k, Piece
    <2> QED BY <1>2, <1>3, <2>3, WholeAppended
  <1>9. /\ Ordered(got, u \o w, frames)
        /\ \A o \in Tasks : \A m \in Nat : o # t /\ Older(got, u, o, m, frames)
                                           => Older(got, u \o w, o, m, frames)
    BY <1>2, <1>3, <1>5, PieceOrdered
  <1>10. ASSUME NEW o \in Tasks, task'[o].pc # "free"
         PROVE  Older(got, u \o w, o, task'[o].no, frames)
    <2>1. o # t /\ task'[o] = task[o]
      BY <1>1, <1>10 DEF Free
    <2>2. Older(got, u, o, task[o].no, frames)
      BY <1>1, <1>10, <2>1 DEF SessionInv, u, got
    <2>3. task[o].no \in Nat
      BY <1>1, TaskTypes
    <2> QED BY <1>9, <2>1, <2>2, <2>3
  <1>11. ~relay'[s].live => relay'[s] = Unborn /\ sock'[s] = <<>>
    <2> SUFFICES ASSUME ~relay[s].live PROVE relay[s] = Unborn /\ sock'[s] = <<>>
      BY <1>d
    <2>1. Len(w) = 0 /\ sock[s] = <<>> /\ relay[s] = Unborn
      BY <1>1, <1>2 DEF SessionInv
    <2>2. w = <<>>
      BY <1>2, <2>1
    <2> QED BY <1>4, <2>1, <2>2
  <1>12. s > conns' => ~relay'[s].live
    BY <1>1, <1>d DEF SessionInv
  <1>13. SessionInv(s)'
    <2>1. Reader(relay'[s], frames') /\ Sequenced(Unread(s)', frames')
          /\ Ordered(relay'[s].got, Unread(s)', frames') /\ (conn' = s => Whole(Unread(s)', frames'))
      BY <1>5, <1>6, <1>7, <1>8, <1>9, <1>d
    <2>2. \A o \in Tasks : task'[o].pc # "free" =>
             Older(relay'[s].got, Unread(s)', o, task'[o].no, frames')
      BY <1>6, <1>10, <1>d
    <2> QED BY <1>11, <1>12, <2>1, <2>2 DEF SessionInv
  <1> QED BY <1>4, <1>13

LEMMA WriteTxLenStep == ASSUME TxInv, NEW t \in Tasks, WriteTxLen(t) PROVE TxInv'
  <1> DEFINE k == task[t].no
  <1>1. /\ task[t].pc = "len" /\ task' = [task EXCEPT ![t] = Free]
        /\ IF tx_addr THEN PktRelaySend(k) ELSE UNCHANGED <<conn, sock>>
        /\ UNCHANGED <<promisc, frames, tx_buf, tx_addr, relay, conns, sets_left, reboots_left>>
    BY DEF WriteTxLen, At, txBounds
  <1>2. TxTypeOK /\ task \in [Tasks -> TaskType] /\ tx_addr \in BOOLEAN
    BY TaskTypes DEF TxInv, TxTypeOK
  <1>3. Free \in TaskType /\ Free.pc = "free"
    BY TxSizeAssumption, TxBoundAssumption DEF Free, NoFrame, TaskType
  <1>4. task'[t] = Free /\ (\A o \in Tasks \ {t} : task'[o] = task[o]) /\ task' \in [Tasks -> TaskType]
    BY <1>1, <1>2, <1>3
  <1>5. TaskInv(t)'
    BY <1>3, <1>4 DEF TaskInv
  <1>6. CASE UNCHANGED <<conn, sock>>
    BY <1>1, <1>2, <1>3, <1>5, <1>6, TaskMoves DEF relayVars, txBounds
  <1>7. CASE ~UNCHANGED <<conn, sock>>
    <2>1. PktRelaySend(k) /\ conn # 0
      BY <1>1, <1>7 DEF PktRelaySend
    <2>2. PICK n \in IF relay[conn].live THEN 0..Len(Message(k)) ELSE {0} :
             /\ sock' = [sock EXCEPT ![conn] = @ \o SubSeq(Message(k), 1, n)]
             /\ conn' = IF n < Len(Message(k)) THEN 0 ELSE conn
      BY <2>1 DEF PktRelaySend
    <2>3. PICK s \in 1..ConnMax : s = conn
      BY <1>2, <2>1, TxBoundAssumption DEF TxTypeOK
    <2>4. n \in 0..Len(Message(k)) /\ (relay[s].live \/ n = 0)
      <3>1. Len(Message(k)) \in Nat
        <4>1. k \in DOMAIN frames /\ frames[k].len \in Nat
          BY <1>1, TaskTypes DEF TxInv, TaskInv, Frame
        <4>2. HdrSize + frames[k].len \in Nat
          BY <4>1, TxSizeAssumption
        <4> HIDE DEF k
        <4> QED BY <4>2 DEF Message
      <3> QED BY <2>2, <2>3, <3>1
    <2>5. SessionInv(s)' /\ sock' \in [1..ConnMax -> Seq(Bytes)]
      BY <1>1, <2>2, <2>3, <2>4, SendSession
    <2>6. conn' \in {0, s} /\ conn = s /\ s # 0
      BY <2>1, <2>2, <2>3
    <2>7. TxTypeOK'
      <3>1. conn' \in 0..ConnMax
        BY <2>6, TxBoundAssumption
      <3> QED BY <1>1, <1>2, <1>4, <2>5, <3>1 DEF TxTypeOK, TaskType
    <2>8. FramesInv' /\ Grows(frames, frames')
      BY <1>1, GrowsSelf DEF TxInv, FramesInv
    <2>9. ASSUME NEW o \in Tasks PROVE TaskInv(o)'
      <3>1. CASE o = t
        BY <1>5, <3>1
      <3>2. CASE o # t
        BY <1>1, <1>4, <2>8, <3>2, OtherTask DEF TxInv
      <3> QED BY <3>1, <3>2
    <2>10. TasksGoOn
      BY <1>3, <1>4 DEF TasksGoOn
    <2>11. conns' = conns /\ conns \in Nat /\ conn' <= conns'
      BY <1>1, <1>2, <2>6, TxBoundAssumption DEF TxInv, TxTypeOK
    <2>12. ASSUME NEW o \in 1..ConnMax PROVE SessionInv(o)'
      <3>1. CASE o = s
        BY <2>5, <3>1
      <3>2. CASE o # s
        <4>1. sock'[o] = sock[o] /\ relay'[o] = relay[o]
          BY <1>1, <1>2, <2>2, <2>3, <3>2 DEF TxTypeOK
        <4>2. conn' = o => conn = o
          BY <2>6, <3>2
        <4>3. conns <= conns'
          BY <2>11
        <4> QED BY <2>8, <2>10, <2>11, <4>1, <4>2, <4>3, SessionKept
      <3> QED BY <3>1, <3>2
    <2> QED BY <2>7, <2>8, <2>9, <2>11, <2>12 DEF TxInv
  <1> QED BY <1>6, <1>7

\* ---- Connections and resets -----------------------------------------------------------

LEMMA OpenStep == ASSUME TxInv, PktRelayOpen PROVE TxInv'
  <1>1. /\ conn = 0 /\ conns < ConnMax /\ conns' = conns + 1 /\ conn' = conns + 1
        /\ relay' = [relay EXCEPT ![conns + 1].live = TRUE]
        /\ UNCHANGED <<promisc, frames, task, tx_buf, tx_addr, sock, sets_left, reboots_left>>
    BY DEF PktRelayOpen, fwVars, txBounds
  <1>2. TxTypeOK /\ conns \in Nat /\ ConnMax \in Nat
    BY TxBoundAssumption DEF TxInv, TxTypeOK
  <1> DEFINE c == conns + 1
  <1>3. c \in 1..ConnMax /\ c > conns /\ c \in 0..ConnMax /\ conns <= c /\ c \in Nat
    BY <1>1, <1>2
  <1>4. relay[c] = Unborn /\ sock[c] = <<>>
    BY <1>3 DEF TxInv, SessionInv
  <1>r. relay' = [relay EXCEPT ![c].live = TRUE] /\ conns' = c /\ conn' = c
    BY <1>1
  <1> HIDE DEF c
  <1>5. relay'[c] = [Unborn EXCEPT !.live = TRUE] /\ \A s \in 1..ConnMax : s # c => relay'[s] = relay[s]
    BY <1>2, <1>3, <1>4, <1>r DEF TxTypeOK
  <1>6. /\ relay'[c].live /\ relay'[c].hdr = <<>> /\ relay'[c].data = <<>>
        /\ relay'[c].expected = 0 /\ relay'[c].got = <<>>
    BY <1>5 DEF Unborn
  <1>7. relay' \in [1..ConnMax -> Readers]
    <2>1. relay \in [1..ConnMax -> Readers]
      BY <1>2 DEF TxTypeOK, Readers
    <2>2. relay'[c] \in Readers
      <3>1. relay[c] \in Readers
        BY <1>3, <2>1
      <3>2. [relay[c] EXCEPT !.live = TRUE] \in Readers
        BY <3>1 DEF Readers
      <3> QED BY <1>4, <1>5, <3>2
    <2>3. relay' = [relay EXCEPT ![c] = relay'[c]]
      BY <1>r, <1>3, <2>1
    <2> QED BY <1>3, <2>1, <2>2, <2>3
  <1>8. TxTypeOK'
    BY <1>1, <1>2, <1>3, <1>7, <1>r DEF TxTypeOK, Readers
  <1>9. FramesInv' /\ (\A t \in Tasks : TaskInv(t)') /\ Grows(frames, frames') /\ TasksGoOn
    BY <1>1, GrowsSelf DEF TxInv, FramesInv, TaskInv, Mine, Frame, TasksGoOn
  <1>10. ASSUME NEW s \in 1..ConnMax PROVE SessionInv(s)'
    <2>1. CASE s = c
      <3>1. sock'[s] = <<>>
        BY <1>1, <1>4, <2>1
      <3>2. /\ relay'[s].hdr = <<>> /\ relay'[s].data = <<>> /\ relay'[s].expected = 0
            /\ relay'[s].got = <<>> /\ relay'[s].live
        BY <1>6, <2>1
      <3>3. ~(s > conns')
        BY <1>3, <1>r, <2>1
      <3> QED BY <3>1, <3>2, <3>3, SessionFresh
    <2>2. CASE s # c
      <3>1. relay'[s] = relay[s] /\ sock'[s] = sock[s]
        BY <1>1, <1>5, <2>2
      <3>2. conn' = s => conn = s
        BY <1>r, <2>2
      <3>3. conns' \in Nat /\ conns <= conns'
        BY <1>3, <1>r
      <3> QED BY <1>9, <3>1, <3>2, <3>3, SessionKept
    <2> QED BY <2>1, <2>2
  <1>11. conn' <= conns'
    BY <1>3, <1>r
  <1> QED BY <1>8, <1>9, <1>10, <1>11 DEF TxInv

LEMMA HangUpStep == ASSUME TxInv, PktHangUp PROVE TxInv'
  <1>1. /\ conn' = 0
        /\ UNCHANGED <<promisc, frames, task, tx_buf, tx_addr, sock, relay, conns, sets_left, reboots_left>>
    BY DEF PktHangUp, fwVars, relayVars, txBounds
  <1>2. TxTypeOK'
    BY <1>1, TxBoundAssumption DEF TxInv, TxTypeOK
  <1>3. FramesInv' /\ (\A t \in Tasks : TaskInv(t)') /\ Grows(frames, frames') /\ TasksGoOn
    BY <1>1, GrowsSelf DEF TxInv, FramesInv, TaskInv, Mine, Frame, TasksGoOn
  <1> QED BY <1>1, <1>2, <1>3, Quiet DEF relayVars

LEMMA FirmwareInitTypes ==
  /\ FirmwareInit.promisc \in [on : BOOLEAN, cb : BOOLEAN, mask : SUBSET Types]
  /\ FirmwareInit.task = [t \in Tasks |-> Free] /\ FirmwareInit.task \in [Tasks -> TaskType]
  /\ FirmwareInit.tx_buf \in [1..BufSize -> 0..SendMax]
  /\ \A t \in Tasks : FirmwareInit.task[t] = Free
  /\ Free.pc = "free"
  <1>1. Free \in TaskType
    BY TxSizeAssumption, TxBoundAssumption DEF Free, NoFrame, TaskType
  <1>2. 0 \in 0..SendMax
    BY TxBoundAssumption
  <1> QED BY <1>1, <1>2 DEF FirmwareInit, NoFrame, Free

LEMMA RestartStep == ASSUME TxInv, Restart PROVE TxInv'
  <1>1. /\ conn' = 0
        /\ promisc' = FirmwareInit.promisc /\ task' = FirmwareInit.task /\ tx_buf' = FirmwareInit.tx_buf
        /\ reboots_left > 0 /\ reboots_left' = reboots_left - 1
        /\ UNCHANGED <<frames, tx_addr, sock, relay, conns, sets_left>>
    BY DEF Restart, relayVars
  <1>2. reboots_left' \in 0..RebootMax /\ conn' \in 0..ConnMax
    BY <1>1, TxBoundAssumption DEF TxInv, TxTypeOK
  <1>3. task' \in [Tasks -> TaskType] /\ \A t \in Tasks : task'[t] = Free
    BY <1>1, FirmwareInitTypes
  <1>4. TxTypeOK'
    BY <1>1, <1>2, <1>3, FirmwareInitTypes DEF TxInv, TxTypeOK, TaskType
  <1>5. FramesInv' /\ Grows(frames, frames')
    BY <1>1, GrowsSelf DEF TxInv, FramesInv
  <1>6. (\A t \in Tasks : TaskInv(t)') /\ TasksGoOn
    BY <1>3, FirmwareInitTypes DEF TaskInv, TasksGoOn
  <1> QED BY <1>1, <1>4, <1>5, <1>6, Quiet DEF relayVars

\* ---- The relay's side ------------------------------------------------------------------

\* A step of one session; firmware and device do nothing.
LEMMA ConnsType == ASSUME TxInv PROVE TxTypeOK /\ conns \in Nat
  BY TxBoundAssumption DEF TxInv, TxTypeOK

LEMMA OneSession ==
  ASSUME TxInv, NEW s \in 1..ConnMax, NEW r \in Readers, NEW q \in Seq(Bytes),
         relay' = [relay EXCEPT ![s] = r], sock' = [sock EXCEPT ![s] = q],
         SessionInv(s)', UNCHANGED <<fwVars, tx_addr, conn, conns, txBounds>>
  PROVE  TxInv'
  <1>1. UNCHANGED <<promisc, frames, task, tx_buf, tx_addr, conn, conns, sets_left, reboots_left>>
    BY DEF fwVars, txBounds
  <1>2. TxTypeOK /\ conns \in Nat
    BY ConnsType
  <1>3. /\ relay' \in [1..ConnMax -> Readers] /\ sock' \in [1..ConnMax -> Seq(Bytes)]
        /\ \A o \in 1..ConnMax : o # s => relay'[o] = relay[o] /\ sock'[o] = sock[o]
    <2>1. relay \in [1..ConnMax -> Readers] /\ sock \in [1..ConnMax -> Seq(Bytes)]
      BY <1>2 DEF TxTypeOK, Readers
    <2> QED BY <2>1
  <1>4. TxTypeOK'
    BY <1>1, <1>2, <1>3 DEF TxTypeOK, Readers
  <1>5. FramesInv' /\ (\A t \in Tasks : TaskInv(t)') /\ Grows(frames, frames') /\ TasksGoOn
    BY <1>1, GrowsSelf DEF TxInv, FramesInv, TaskInv, Mine, Frame, TasksGoOn
  <1>6. ASSUME NEW o \in 1..ConnMax PROVE SessionInv(o)'
    <2>1. CASE o = s
      BY <2>1
    <2>2. CASE o # s
      <3>1. /\ relay'[o] = relay[o] /\ sock'[o] = sock[o] /\ conns' \in Nat /\ conns <= conns'
            /\ conn' = o => conn = o
        BY <1>1, <1>2, <1>3, <2>2
      <3> QED BY <1>5, <3>1, SessionKept
    <2> QED BY <2>1, <2>2
  <1>7. conn' <= conns'
    BY <1>1 DEF TxInv
  <1> QED BY <1>4, <1>5, <1>6, <1>7 DEF TxInv

LEMMA EndStep ==
  ASSUME TxInv, NEW s \in 1..ConnMax, EndSession(s),
         UNCHANGED <<fwVars, tx_addr, conn, conns, txBounds>>
  PROVE  TxInv'
  <1>1. relay' = [relay EXCEPT ![s] = Unborn] /\ sock' = [sock EXCEPT ![s] = <<>>]
    BY DEF EndSession
  <1>2. Unborn \in Readers /\ <<>> \in Seq(Bytes)
    BY TxSizeAssumption DEF Unborn, Readers
  <1>3. relay'[s] = Unborn /\ sock'[s] = <<>>
    BY <1>1 DEF TxInv, TxTypeOK
  <1>4. SessionInv(s)'
    <2>1. /\ relay'[s].hdr = <<>> /\ relay'[s].data = <<>> /\ relay'[s].expected = 0
          /\ relay'[s].got = <<>> /\ ~relay'[s].live
      BY <1>3 DEF Unborn
    <2> QED BY <1>3, <2>1, SessionFresh
  <1> QED BY <1>1, <1>2, <1>4, OneSession


\* Bytes that are read leave the socket, and no others are lost.
LEMMA SessionReads ==
  ASSUME TxInv, NEW s \in 1..ConnMax, Unread(s)' = Unread(s), relay'[s].got = relay[s].got,
         relay[s].live, relay'[s].live, Reader(relay'[s], frames),
         UNCHANGED <<fwVars, tx_addr, conn, conns, txBounds>>
  PROVE  SessionInv(s)'
  <1>1. UNCHANGED <<frames, task, conn, conns>>
    BY DEF fwVars
  <1>2. SessionInv(s)
    BY DEF TxInv
  <1>3. /\ Sequenced(Unread(s)', frames') /\ Ordered(relay'[s].got, Unread(s)', frames')
        /\ conn' = s => Whole(Unread(s)', frames')
        /\ \A t \in Tasks : task'[t].pc # "free" =>
              Older(relay'[s].got, Unread(s)', t, task'[t].no, frames')
    BY <1>1, <1>2 DEF SessionInv
  <1>4. s > conns' => ~relay'[s].live
    BY <1>1, <1>2 DEF SessionInv
  <1> QED BY <1>1, <1>3, <1>4 DEF SessionInv

\* A prefix the device has sent is read as the length of its frame.
LEMMA PrefixDecoded ==
  ASSUME TxTypeOK, NEW u \in Seq(Bytes), Sequenced(u, frames),
         NEW h \in Seq(Bytes), Len(h) = HdrSize, Len(h) <= Len(u),
         \A i \in 1..HdrSize : h[i] = u[i]
  PROVE  Decode(h) = {frames[h[1].no].len} /\ frames[h[1].no].len \in 1..BufSize
  <1> DEFINE k == u[1].no
             l == frames[k].len
             b(i) == [no |-> k, pos |-> i, from |-> IF i <= HdrSize THEN k ELSE tx_buf[i - HdrSize]]
             M == Message(k)
             w == SubSeq(M, 1, HdrSize)
  <1>1. HdrSize \in Nat \ {0} /\ BufSize \in Nat /\ frames \in Seq(Frames)
        /\ tx_buf \in [1..BufSize -> 0..SendMax]
    BY TxSizeAssumption DEF TxTypeOK, Frames
  <1>2. u # <<>> /\ Len(u) \in Nat /\ DOMAIN u = 1..Len(u) /\ 1 \in 1..HdrSize
    BY <1>1
  <1>3. /\ k \in DOMAIN frames /\ l > 0 /\ l \in Nat
        /\ \A j \in 1..(HdrSize + l) : j \in DOMAIN u => u[j].no = k /\ u[j].pos = j
        /\ \A j \in 1..HdrSize : j \in DOMAIN u => u[j].from = k
    BY <1>1, <1>2, FirstFrame
  <1>4. frames[k].len \in 0..BufSize
    <2>1. \A F \in Seq(Frames) : \A f \in DOMAIN F : F[f] \in Frames
      OBVIOUS
    <2>2. frames[k] \in Frames
      BY <1>1, <1>3, <2>1
    <2> QED BY <2>2 DEF Frames
  <1>5. l \in 1..BufSize /\ HdrSize + l \in Nat
    BY <1>1, <1>3, <1>4
  <1>6. M = [i \in 1..(HdrSize + l) |-> b(i)]
    BY DEF Message
  <1>7. 1 \in DOMAIN u /\ u[1] \in Bytes
    BY <1>1, <1>2
  <1>8. k \in 1..SendMax
    BY <1>7 DEF Bytes
  <1> HIDE DEF k, l, M
  <1>9. ASSUME NEW i \in 1..(HdrSize + l) PROVE b(i) \in Bytes
    <2>1. i <= HdrSize \/ i - HdrSize \in 1..BufSize
      <3>1. \A a, c, d \in Nat : \A j \in 1..(a + c) : c <= d => j <= a \/ j - a \in 1..d
        OBVIOUS
      <3>2. l \in Nat /\ l <= BufSize
        BY <1>5
      <3> QED BY <1>1, <3>1, <3>2
    <2>2. i \in 1..(HdrSize + BufSize)
      BY <1>1, <1>5
    <2>3. k \in 0..SendMax
      BY <1>8
    <2>4. i <= HdrSize \/ tx_buf[i - HdrSize] \in 0..SendMax
      BY <1>1, <2>1
    <2>5. b(i).from \in 0..SendMax
      BY <2>3, <2>4
    <2> QED BY <1>8, <2>2, <2>5 DEF Bytes
  <1>10. ASSUME NEW i \in 1..HdrSize PROVE b(i) = h[i]
    <2>1. i \in 1..(HdrSize + l) /\ i \in DOMAIN u /\ i <= HdrSize
      BY <1>1, <1>2, <1>5
    <2>2. u[i].no = k /\ u[i].pos = i /\ u[i].from = k
      BY <1>3, <1>10, <2>1
    <2>3. u[i] \in Bytes
      BY <2>1
    <2>4. u[i] = [no |-> k, pos |-> i, from |-> k]
      BY <2>2, <2>3 DEF Bytes
    <2>5. b(i) = [no |-> k, pos |-> i, from |-> k]
      BY <2>1
    <2> QED BY <2>4, <2>5
  <1> HIDE DEF b
  <1>11. M \in Seq(Bytes) /\ Len(M) = HdrSize + l /\ \A i \in 1..(HdrSize + l) : M[i] = b(i)
    BY <1>5, <1>6, <1>9
  <1>12. HdrSize \in 0..Len(M) /\ \A i \in 1..HdrSize : i \in 1..(HdrSize + l)
    BY <1>1, <1>5, <1>11
  <1>13. w \in Seq(Bytes) /\ Len(w) = HdrSize /\ \A i \in 1..HdrSize : w[i] = M[i]
    BY <1>11, <1>12, Parts
  <1> HIDE DEF w
  <1>14. \A i \in 1..HdrSize : h[i] = w[i]
    BY <1>10, <1>11, <1>12, <1>13
  <1>15. h = w
    BY <1>13, <1>14, SameElements
  <1>16. h[1].no = k
    BY <1>2 DEF k
  <1> QED BY <1>5, <1>15, <1>16 DEF Decode, w, M, l

LEMMA ReadPrefixStep == ASSUME TxInv, NEW s \in 1..ConnMax, ReadPrefix(s) PROVE TxInv'
  <1>1. /\ TxTypeOK /\ SessionInv(s) /\ relay[s].live /\ relay[s] \in Readers
        /\ Len(relay[s].hdr) < HdrSize /\ HdrSize \in Nat \ {0}
        /\ UNCHANGED <<fwVars, tx_addr, conn, conns, txBounds>>
    BY TxSizeAssumption DEF TxInv, ReadPrefix, TxTypeOK, Readers
  <1>2. relay[s].data = <<>> /\ relay[s].expected = 0 /\ Sequenced(Unread(s), frames)
    BY <1>1 DEF SessionInv, Reader
  <1>3. /\ relay[s].hdr \in Seq(Bytes) /\ sock[s] \in Seq(Bytes) /\ Unread(s) \in Seq(Bytes)
        /\ relay[s].got \in Seq(Seq(Bytes))
    BY <1>1, UnreadFacts
  <1>4. PICK n \in 1..(HdrSize - Len(relay[s].hdr)) :
          LET hdr == relay[s].hdr \o SubSeq(sock[s], 1, n) IN
          /\ n <= Len(sock[s])
          /\ IF Len(hdr) < HdrSize
             THEN /\ relay' = [relay EXCEPT ![s].hdr = hdr]
                  /\ sock' = [sock EXCEPT ![s] = SubSeq(@, n + 1, Len(@))]
             ELSE \E len \in Decode(hdr) :
                  IF len \in 1..BufSize
                  THEN /\ relay' = [relay EXCEPT ![s].hdr = hdr, ![s].expected = len]
                       /\ sock' = [sock EXCEPT ![s] = SubSeq(@, n + 1, Len(@))]
                  ELSE EndSession(s)
    BY DEF ReadPrefix
  <1> DEFINE a == SubSeq(sock[s], 1, n)
             b == SubSeq(sock[s], n + 1, Len(sock[s]))
             hdr == relay[s].hdr \o a
             old == relay[s].hdr
  <1>5. n \in 0..Len(sock[s]) /\ n \in Nat /\ Len(old) \in Nat /\ Len(old) + n <= HdrSize
    <2>1. Len(sock[s]) \in Nat /\ Len(old) \in Nat
      BY <1>3
    <2>2. n \in 1..(HdrSize - Len(old)) /\ n <= Len(sock[s])
      BY <1>4
    <2>3. \A i, m, j \in Nat : \A p \in 1..(m - i) : i < m => p \in Nat /\ i + p <= m /\ (p <= j => p \in 0..j)
      OBVIOUS
    <2> HIDE DEF old
    <2> QED BY <1>1, <2>1, <2>2, <2>3 DEF old
  <1>6. /\ a \in Seq(Bytes) /\ Len(a) = n /\ b \in Seq(Bytes)
    BY <1>3, <1>5, Parts
  <1>7. hdr \in Seq(Bytes) /\ Len(hdr) = Len(old) + n
    BY <1>3, <1>6, Joined
  <1>8. Len(hdr) <= HdrSize
    BY <1>5, <1>7
  <1>9. (hdr \o <<>>) \o b = Unread(s)
    <2>1. \A S : \A h, d, q \in Seq(S) : \A m \in 0..Len(q) :
            ((h \o SubSeq(q, 1, m)) \o <<>>) \o SubSeq(q, m + 1, Len(q)) = (h \o <<>>) \o q
      BY Received
    <2>2. ((old \o a) \o <<>>) \o b = (old \o <<>>) \o sock[s]
      BY <1>3, <1>5, <2>1
    <2> QED BY <1>2, <2>2 DEF Unread
  <1>d. relay[s].data = <<>> /\ relay[s].got \in Seq(Seq(Bytes))
    BY <1>2, <1>3
  <1> DEFINE r(l) == [relay[s] EXCEPT !.hdr = hdr, !.expected = l]
  <1>10. ASSUME NEW l \in 0..BufSize, Reader(r(l), frames),
                relay' = [relay EXCEPT ![s] = r(l)], sock' = [sock EXCEPT ![s] = b]
         PROVE  TxInv'
    <2>1. /\ r(l) \in Readers /\ r(l).live /\ r(l).got = relay[s].got
          /\ r(l).hdr = hdr /\ r(l).data = <<>>
      <3> HIDE DEF hdr
      <3> QED BY <1>1, <1>2, <1>7 DEF Readers
    <2> HIDE DEF r, hdr, b
    <2>2. relay'[s] = r(l) /\ sock'[s] = b
      BY <1>1, <1>10 DEF TxTypeOK
    <2>3. Unread(s)' = Unread(s)
      BY <1>9, <2>1, <2>2 DEF Unread
    <2>4. relay'[s].got = relay[s].got /\ relay'[s].live /\ Reader(relay'[s], frames)
      BY <1>10, <2>1, <2>2
    <2>5. SessionInv(s)'
      BY <1>1, <2>3, <2>4, SessionReads
    <2> QED BY <1>1, <1>6, <1>10, <2>1, <2>5, OneSession DEF b
  <1>11. CASE Len(hdr) < HdrSize
    <2>1. relay' = [relay EXCEPT ![s].hdr = hdr] /\ sock' = [sock EXCEPT ![s] = b]
      BY <1>4, <1>11
    <2>2. [relay[s] EXCEPT !.hdr = hdr] = r(0)
      BY <1>1, <1>2 DEF Readers
    <2>3. relay' = [relay EXCEPT ![s] = r(0)]
      <3> HIDE DEF r
      <3> QED BY <2>1, <2>2
    <2>4. r(0).hdr = hdr /\ r(0).data = <<>> /\ r(0).expected = 0
      <3> HIDE DEF hdr
      <3> QED BY <1>1, <1>2 DEF Readers
    <2>5. 0 \in 0..BufSize
      BY TxSizeAssumption
    <2> HIDE DEF r, hdr, b
    <2>6. Reader(r(0), frames)
      BY <1>7, <1>8, <1>11, <1>1, <2>4 DEF Reader
    <2> QED BY <1>10, <2>1, <2>3, <2>5, <2>6
  <1>12. CASE ~(Len(hdr) < HdrSize)
    <2>1. Len(hdr) = HdrSize
      BY <1>1, <1>7, <1>8, <1>12
    <2>2. \A i \in 1..HdrSize : hdr[i] = Unread(s)[i]
      <3>1. \A h, q \in Seq(Bytes) : \A i \in 1..Len(h) : ((h \o <<>>) \o q)[i] = h[i]
        <4>1. \A h, d, q \in Seq(Bytes) : \A i \in 1..Len(h) : ((h \o d) \o q)[i] = h[i]
          BY Elements
        <4> QED BY <4>1
      <3> HIDE DEF hdr, b
      <3> QED BY <1>6, <1>7, <1>9, <2>1, <3>1 DEF b
    <2>3. Len(hdr) <= Len(Unread(s))
      <3>1. \A h, q \in Seq(Bytes) : Len(h) <= Len((h \o <<>>) \o q)
        <4>1. \A h, d, q \in Seq(Bytes) : Len((h \o d) \o q) = Len(h) + Len(d) + Len(q)
          BY Elements
        <4>2. \A h, q \in Seq(Bytes) : Len((h \o <<>>) \o q) = Len(h) + 0 + Len(q)
          BY <4>1
        <4>3. \A h, q \in Seq(Bytes) : Len(h) <= Len(h) + 0 + Len(q)
          OBVIOUS
        <4> QED BY <4>2, <4>3
      <3> HIDE DEF hdr
      <3> QED BY <1>6, <1>7, <1>9, <3>1
    <2> DEFINE l == frames[hdr[1].no].len
    <2>4. Decode(hdr) = {l} /\ l \in 1..BufSize
      <3> HIDE DEF hdr
      <3> QED BY <1>1, <1>2, <1>3, <1>7, <2>1, <2>2, <2>3, PrefixDecoded
    <2>5. relay' = [relay EXCEPT ![s].hdr = hdr, ![s].expected = l] /\ sock' = [sock EXCEPT ![s] = b]
      <3> HIDE DEF l
      <3> QED BY <1>4, <1>12, <2>4
    <2> HIDE DEF l
    <2>6. relay' = [relay EXCEPT ![s] = r(l)]
      <3> HIDE DEF hdr
      <3> QED BY <2>5
    <2>7. r(l).hdr = hdr /\ r(l).data = <<>> /\ r(l).expected = l
      <3> HIDE DEF hdr
      <3> QED BY <1>1, <1>2 DEF Readers
    <2>8. l \in 0..BufSize /\ 0 < l
      BY <2>4
    <2> HIDE DEF r, hdr, b
    <2>9. Reader(r(l), frames)
      BY <1>1, <2>1, <2>7, <2>8 DEF Reader, l
    <2> QED BY <1>10, <2>5, <2>6, <2>8, <2>9
  <1> QED BY <1>11, <1>12

\* The body of the first frame of u, when it has been read.
LEMMA BodyRead ==
  ASSUME NEW F \in Seq(Frames), NEW d \in Seq(Bytes), NEW q \in Seq(Bytes),
         NEW u \in Seq(Bytes), u # <<>>, Sequenced(u, F),
         Made(u, HdrSize, d, q), FirstSize(HdrSize + Len(d), u, F)
  PROVE  /\ Arrived(d, F) /\ d[1].no = u[1].no
         /\ HdrSize + Len(d) \in Nat /\ Rest(q, u, HdrSize + Len(d))
  <1> DEFINE l == Len(d)
             k == u[1].no
             m == Len(q)
  <1>1. /\ k \in DOMAIN F /\ F[k].len > 0 /\ F[k].len \in Nat
        /\ \A j \in 1..(HdrSize + F[k].len) : j \in DOMAIN u => u[j].no = k /\ u[j].pos = j
    BY FirstFrame
  <1>2. HdrSize \in Nat \ {0} /\ l \in Nat /\ m \in Nat
    BY TxSizeAssumption
  <1>3. /\ DOMAIN u = 1..Len(u) /\ DOMAIN d = 1..l
        /\ d # <<>> <=> l # 0
    OBVIOUS
  <1>4. l = F[k].len /\ l # 0
    <2>1. \A a, b, c \in Nat : a + b = a + c /\ c > 0 => b = c /\ b # 0
      OBVIOUS
    <2>2. HdrSize + l = HdrSize + F[k].len
      BY DEF FirstSize
    <2> HIDE DEF l, k
    <2> QED BY <1>1, <1>2, <2>1, <2>2
  <1>5. /\ Len(u) = HdrSize + l + m
        /\ \A i \in 1..l : u[HdrSize + i] = d[i]
        /\ \A i \in 1..m : u[HdrSize + l + i] = q[i]
    BY DEF Made
  <1> HIDE DEF l, k, m
  <1>6. ASSUME NEW i \in 1..l
        PROVE  /\ d[i].no = k
               /\ F[k].alone => d[i].from = k
    <2>1. /\ HdrSize + i \in 1..(HdrSize + l) /\ HdrSize + i \in 1..Len(u)
          /\ ~(HdrSize + i <= HdrSize)
      <3>1. \A a, b, c \in Nat : \A j \in 1..b :
               a + j \in 1..(a + b) /\ a + j \in 1..(a + b + c) /\ ~(a + j <= a)
        OBVIOUS
      <3>2. HdrSize \in Nat /\ l \in Nat /\ m \in Nat
        BY <1>2
      <3> QED BY ONLY <1>5, <1>6, <3>1, <3>2, Zenon
    <2>2. u[HdrSize + i].no = k /\ u[HdrSize + i].pos = HdrSize + i
      BY <1>1, <1>3, <1>4, <2>1
    <2>3. ByteOf(u[HdrSize + i], F)
      BY <1>3, <2>1 DEF Sequenced, OwnBytes
    <2>4. F[k].alone => u[HdrSize + i].from = k
      BY <2>1, <2>2, <2>3 DEF ByteOf
    <2> QED BY <1>5, <2>2, <2>4
  <1>7. 1 \in 1..l /\ d # <<>>
    BY <1>2, <1>3, <1>4
  <1>8. d[1].no = k
    BY <1>6, <1>7
  <1>9. Arrived(d, F)
    <2>1. Len(d) = F[k].len
      BY <1>4 DEF l
    <2>2. F[k].alone => \A j \in DOMAIN d : d[j].from = k
      BY <1>3, <1>6
    <2> QED BY <1>1, <1>7, <1>8, <2>1, <2>2 DEF Arrived
  <1>10. HdrSize + l \in Nat /\ Rest(q, u, HdrSize + l)
    <2>1. /\ HdrSize + l \in 0..(HdrSize + l + m)
          /\ m = (HdrSize + l + m) - (HdrSize + l) /\ HdrSize + l \in Nat
      BY <1>2
    <2> QED BY <1>5, <2>1 DEF Rest, m
  <1> QED BY <1>8, <1>9, <1>10 DEF k, l

\* A frame that has been read joins those read before.
LEMMA FrameJoins ==
  ASSUME NEW F, NEW got \in Seq(Seq(Bytes)), NEW u \in Seq(Bytes), u # <<>>,
         NEW q \in Seq(Bytes), NEW d \in Seq(Bytes), NEW L, Ordered(got, u, F),
         Arrived(d, F), d[1].no = u[1].no, Rest(q, u, L),
         \A j \in DOMAIN q : F[u[1].no].by = F[q[j].no].by => u[1].no < q[j].no
  PROVE  /\ Append(got, d) \in Seq(Seq(Bytes))
         /\ Ordered(Append(got, d), q, F)
         /\ \A t \in Tasks : \A k \in Nat : Older(got, u, t, k, F) =>
                                            Older(Append(got, d), q, t, k, F)
  <1> DEFINE n == Len(got)
             g == Append(got, d)
  <1>1. /\ g \in Seq(Seq(Bytes)) /\ DOMAIN g = 1..(n + 1) /\ g[n + 1] = d
        /\ \A i \in 1..n : g[i] = got[i]
    BY Grown
  <1>2. n \in Nat /\ DOMAIN got = 1..n /\ 1 \in DOMAIN u
    OBVIOUS
  <1> HIDE DEF n, g
  <1>3. \A i \in 1..(n + 1) : i = n + 1 \/ i \in 1..n
    BY <1>2
  <1>4. \A i \in 1..(n + 1) : \A j \in 1..(i - 1) : j \in 1..n
    BY <1>2
  <1>5. \A j \in DOMAIN q : \E i \in DOMAIN u : q[j] = u[i]
    <2> SUFFICES ASSUME NEW j \in DOMAIN q PROVE \E i \in DOMAIN u : q[j] = u[i]
      OBVIOUS
    <2>1. DOMAIN q = 1..Len(q) /\ DOMAIN u = 1..Len(u) /\ Len(u) \in Nat
      OBVIOUS
    <2>2. L \in 0..Len(u) /\ Len(q) = Len(u) - L /\ q[j] = u[L + j]
      BY <2>1 DEF Rest
    <2>3. L + j \in 1..Len(u)
      BY <2>1, <2>2
    <2> QED BY <2>1, <2>2, <2>3
  <1>6. AllArrived(g, F)
    BY <1>1, <1>2, <1>3 DEF Ordered, AllArrived
  <1>7. GotInOrder(g, F)
    <2> SUFFICES ASSUME NEW i \in 1..(n + 1), NEW j \in 1..(i - 1),
                        F[g[j][1].no].by = F[g[i][1].no].by
                 PROVE  g[j][1].no < g[i][1].no
      BY <1>1 DEF GotInOrder
    <2>1. j \in 1..n /\ g[j] = got[j]
      BY <1>1, <1>4
    <2>2. CASE i = n + 1
      <3>1. g[i][1].no = u[1].no
        BY <1>1, <2>2
      <3> QED BY <1>2, <2>1, <3>1 DEF Ordered, GotBefore
    <2>3. CASE i \in 1..n
      <3>1. g[i] = got[i]
        BY <1>1, <2>3
      <3> QED BY <1>2, <2>1, <2>3, <3>1 DEF Ordered, GotInOrder
    <2> QED BY <1>3, <2>2, <2>3
  <1>8. GotBefore(g, q, F)
    <2> SUFFICES ASSUME NEW i \in 1..(n + 1), NEW j \in DOMAIN q,
                        F[g[i][1].no].by = F[q[j].no].by
                 PROVE  g[i][1].no < q[j].no
      BY <1>1 DEF GotBefore
    <2>1. CASE i = n + 1
      BY <1>1, <2>1
    <2>2. CASE i \in 1..n
      BY <1>1, <1>2, <1>5, <2>2 DEF Ordered, GotBefore
    <2> QED BY <1>3, <2>1, <2>2
  <1>9. ASSUME NEW t \in Tasks, NEW k \in Nat, Older(got, u, t, k, F) PROVE Older(g, q, t, k, F)
    <2>1. ASSUME NEW i \in DOMAIN g, F[g[i][1].no].by = t PROVE g[i][1].no < k
      <3>1. CASE i = n + 1
        BY <1>1, <1>2, <1>9, <2>1, <3>1 DEF Older
      <3>2. CASE i \in 1..n
        BY <1>1, <1>2, <1>9, <2>1, <3>2 DEF Older
      <3> QED BY <1>1, <1>3, <3>1, <3>2
    <2>2. \A j \in DOMAIN q : F[q[j].no].by = t => q[j].no < k
      BY <1>5, <1>9 DEF Older
    <2> QED BY <2>1, <2>2 DEF Older
  <1> QED BY <1>1, <1>6, <1>7, <1>8, <1>9 DEF Ordered, g

LEMMA ReadFrameStep == ASSUME TxInv, NEW s \in 1..ConnMax, ReadFrame(s) PROVE TxInv'
  <1>1. /\ TxTypeOK /\ SessionInv(s) /\ relay[s].live /\ relay[s] \in Readers
        /\ Len(relay[s].hdr) = HdrSize /\ HdrSize \in Nat \ {0}
        /\ UNCHANGED <<fwVars, tx_addr, conn, conns, txBounds>>
    BY TxSizeAssumption DEF TxInv, ReadFrame, TxTypeOK, Readers
  <1> DEFINE h == relay[s].hdr
             d == relay[s].data
             q == sock[s]
             x == relay[s].expected
             u == Unread(s)
             got == relay[s].got
  <1>2. /\ h \in Seq(Bytes) /\ d \in Seq(Bytes) /\ q \in Seq(Bytes) /\ u \in Seq(Bytes)
        /\ got \in Seq(Seq(Bytes)) /\ x \in 0..BufSize
    BY <1>1, UnreadFacts
  <1>3. u # <<>> /\ h[1] = u[1] /\ u[1].no \in DOMAIN frames
    BY <1>1, PrefixKnown
  <1>4. /\ x = frames[u[1].no].len /\ Len(d) < x /\ frames \in Seq(Frames)
        /\ Sequenced(u, frames) /\ Ordered(got, u, frames)
        /\ conn = s => Whole(u, frames)
        /\ \A t \in Tasks : task[t].pc # "free" => Older(got, u, t, task[t].no, frames)
    BY <1>1, <1>3 DEF SessionInv, Reader, TxTypeOK, Frames
  <1>5. PICK n \in 1..(x - Len(d)) :
          LET data == d \o SubSeq(q, 1, n) IN
          /\ n <= Len(q)
          /\ sock' = [sock EXCEPT ![s] = SubSeq(@, n + 1, Len(@))]
          /\ relay' = [relay EXCEPT ![s] =
                 IF Len(data) < @.expected THEN [@ EXCEPT !.data = data]
                 ELSE [live |-> TRUE, hdr |-> <<>>, data |-> <<>>, expected |-> 0,
                       got |-> Append(@.got, data)]]
    BY DEF ReadFrame
  <1> DEFINE a == SubSeq(q, 1, n)
             b == SubSeq(q, n + 1, Len(q))
             data == d \o a
  <1>6. n \in 0..Len(q) /\ Len(d) + n <= x /\ x \in Nat /\ Len(d) \in Nat /\ n \in Nat
    <2>1. Len(q) \in Nat /\ Len(d) \in Nat /\ x \in Nat
      BY <1>2, TxSizeAssumption
    <2>2. n \in 1..(x - Len(d)) /\ n <= Len(q) /\ Len(d) < x
      BY <1>4, <1>5
    <2>3. \A i, m, j \in Nat : \A p \in 1..(m - i) : i < m => p \in Nat /\ i + p <= m /\ (p <= j => p \in 0..j)
      OBVIOUS
    <2> HIDE DEF d, x, q
    <2> QED BY <2>1, <2>2, <2>3
  <1>7. /\ a \in Seq(Bytes) /\ Len(a) = n /\ b \in Seq(Bytes)
    BY <1>2, <1>6, Parts
  <1>8. data \in Seq(Bytes) /\ Len(data) = Len(d) + n
    BY <1>2, <1>7, Joined
  <1>9. (h \o data) \o b = u
    <2>1. \A e, f, g \in Seq(Bytes) : \A m \in 0..Len(g) :
            LET v == SubSeq(g, 1, m)
                w == SubSeq(g, m + 1, Len(g))
            IN  /\ (e \o (f \o v)) \o w = (e \o f) \o g
                /\ ((e \o v) \o <<>>) \o w = (e \o <<>>) \o g
      BY Received
    <2>2. (h \o (d \o a)) \o b = (h \o d) \o q
      <3> HIDE DEF h, d, q
      <3> QED BY <1>2, <1>6, <2>1
    <2> QED BY <2>2 DEF Unread
  <1>10. sock' = [sock EXCEPT ![s] = b] /\ sock'[s] = b
    BY <1>1, <1>5 DEF TxTypeOK
  <1>11. CASE Len(data) < x
    <2> DEFINE r == [relay[s] EXCEPT !.data = data]
    <2>1. relay' = [relay EXCEPT ![s] = r]
      BY <1>5, <1>11
    <2>2. /\ r \in Readers /\ r.live /\ r.got = got /\ r.hdr = h /\ r.data = data
          /\ r.expected = x
      <3> HIDE DEF data
      <3> QED BY <1>1, <1>8 DEF Readers
    <2> HIDE DEF r, data, b
    <2>3. relay'[s] = r
      BY <1>1, <2>1 DEF TxTypeOK
    <2>4. Unread(s)' = u
      BY <1>9, <1>10, <2>2, <2>3 DEF Unread
    <2>5. Reader(r, frames)
      BY <1>1, <1>3, <1>4, <1>11, <2>2 DEF Reader
    <2>6. SessionInv(s)'
      BY <1>1, <2>2, <2>3, <2>4, <2>5, SessionReads
    <2> QED BY <1>1, <1>7, <1>10, <2>1, <2>2, <2>6, OneSession DEF b
  <1>12. CASE ~(Len(data) < x)
    <2> DEFINE r == [live |-> TRUE, hdr |-> <<>>, data |-> <<>>, expected |-> 0,
                     got |-> Append(got, data)]
               L == HdrSize + Len(data)
    <2>1. relay' = [relay EXCEPT ![s] = r]
      BY <1>5, <1>12
    <2>2. Len(data) = frames[u[1].no].len
      <3>1. \A i, j, m \in Nat : i + j <= m /\ ~(i + j < m) => i + j = m
        OBVIOUS
      <3> HIDE DEF data, x, d, u
      <3> QED BY <1>4, <1>6, <1>8, <1>12, <3>1
    <2>u. u = (h \o data) \o b
      BY <1>9
    <2>m. Made(u, HdrSize, data, b)
      <3>1. \A e, f, g \in Seq(Bytes) : Made((e \o f) \o g, Len(e), f, g)
        BY MadeOf, Zenon
      <3> HIDE DEF data, b, u, h
      <3>2. Made((h \o data) \o b, Len(h), data, b)
        BY ONLY <1>2, <1>7, <1>8, <3>1, Zenon
      <3>3. Len(h) = HdrSize
        BY <1>1 DEF h
      <3> QED BY ONLY <2>u, <3>2, <3>3, Zenon
    <2>f. FirstSize(L, u, frames)
      <3> HIDE DEF data, u
      <3> QED BY <2>2 DEF FirstSize
    <2> HIDE DEF data, b, u, h
    <2>3. /\ Arrived(data, frames) /\ data[1].no = u[1].no
          /\ L \in Nat /\ FirstSize(L, u, frames) /\ Rest(b, u, L)
      <3>1. \A F \in Seq(Frames) : \A e, f, v \in Seq(Bytes) :
              v # <<>> /\ Sequenced(v, F) /\ Made(v, HdrSize, e, f)
              /\ FirstSize(HdrSize + Len(e), v, F) =>
                /\ Arrived(e, F) /\ e[1].no = v[1].no
                /\ HdrSize + Len(e) \in Nat /\ Rest(f, v, HdrSize + Len(e))
        BY BodyRead
      <3>2. L = HdrSize + Len(data)
        OBVIOUS
      <3> HIDE DEF L
      <3>3. FirstSize(HdrSize + Len(data), u, frames)
        BY ONLY <2>f, <3>2, Zenon
      <3>4. /\ Arrived(data, frames) /\ data[1].no = u[1].no
            /\ HdrSize + Len(data) \in Nat /\ Rest(b, u, HdrSize + Len(data))
        BY ONLY <1>2, <1>3, <1>4, <1>7, <1>8, <2>m, <3>1, <3>3, Zenon
      <3> QED BY ONLY <2>f, <3>2, <3>4, Zenon
    <2> HIDE DEF L
    <2>4. /\ Sequenced(b, frames) /\ (Whole(u, frames) => Whole(b, frames))
          /\ \A j \in DOMAIN b : frames[u[1].no].by = frames[b[j].no].by => u[1].no < b[j].no
      BY <1>2, <1>3, <1>4, <1>7, <2>3, FrameTaken
    <2>5. /\ Append(got, data) \in Seq(Seq(Bytes))
          /\ Ordered(Append(got, data), b, frames)
          /\ \A t \in Tasks : \A k \in Nat : Older(got, u, t, k, frames) =>
                                             Older(Append(got, data), b, t, k, frames)
      BY <1>2, <1>3, <1>4, <1>7, <1>8, <2>3, <2>4, FrameJoins
    <2>6. /\ r \in Readers /\ r.live /\ r.got = Append(got, data) /\ r.hdr = <<>> /\ r.data = <<>>
          /\ r.expected = 0
      <3>1. 0 \in 0..BufSize /\ <<>> \in Seq(Bytes)
        BY TxSizeAssumption
      <3> QED BY <2>5, <3>1 DEF Readers
    <2> HIDE DEF r, got
    <2>7. relay'[s] = r
      BY <1>1, <2>1 DEF TxTypeOK
    <2>8. Unread(s)' = b
      <3>1. \A v \in Seq(Bytes) : (<<>> \o <<>>) \o v = v
        OBVIOUS
      <3>2. b \in Seq(Bytes)
        BY <1>7
      <3> QED BY <1>10, <2>6, <2>7, <3>1, <3>2 DEF Unread
    <2>9. Reader(r, frames)
      <3>1. Len(<<>>) = 0 /\ 0 # HdrSize /\ 0 <= HdrSize
        BY <1>1
      <3> QED BY <2>6, <3>1 DEF Reader
    <2>10. UNCHANGED <<frames, task, conn, conns>>
      BY <1>1 DEF fwVars
    <2>11. ASSUME NEW t \in Tasks, task'[t].pc # "free"
           PROVE  Older(Append(got, data), b, t, task'[t].no, frames)
      <3>1. Older(got, u, t, task[t].no, frames) /\ task'[t].no = task[t].no
        BY <1>4, <2>10, <2>11
      <3>2. task[t].no \in Nat
        BY <1>1, TaskTypes
      <3> QED BY <2>5, <3>1, <3>2
    <2>12. SessionInv(s)'
      <3>1. s > conns' => ~relay'[s].live
        BY <1>1, <2>10 DEF SessionInv
      <3>2. conn' = s => Whole(b, frames)
        BY <1>4, <2>4, <2>10
      <3>3. relay'[s].live /\ relay'[s].got = Append(got, data)
        BY <2>6, <2>7
      <3> QED BY <2>4, <2>5, <2>7, <2>8, <2>9, <2>10, <2>11, <3>1, <3>2, <3>3 DEF SessionInv
    <2> QED BY <1>1, <1>7, <1>10, <2>1, <2>6, <2>12, OneSession DEF b
  <1> QED BY <1>11, <1>12

\* ---- The invariant holds ---------------------------------------------------------------

LEMMA TxInvInit == ASSUME TxInit PROVE TxInv
  <1>1. /\ promisc = FirmwareInit.promisc /\ task = FirmwareInit.task
        /\ tx_buf = FirmwareInit.tx_buf /\ frames = <<>> /\ tx_addr = FALSE /\ conn = 0
        /\ sock = [s \in 1..ConnMax |-> <<>>] /\ relay = [s \in 1..ConnMax |-> Unborn]
        /\ conns = 0 /\ sets_left = SetMax /\ reboots_left = RebootMax
    BY DEF TxInit
  <1>2. Unborn \in Readers /\ <<>> \in Seq(Bytes)
    BY TxSizeAssumption DEF Unborn, Readers
  <1>3. frames \in Seq(Frames) /\ Len(frames) = 0 /\ DOMAIN frames = {}
    BY <1>1
  <1>4. TxTypeOK
    <2>1. /\ 0 \in 0..ConnMax /\ SetMax \in 0..SetMax /\ RebootMax \in 0..RebootMax
          /\ 0 <= SendMax
      BY TxBoundAssumption
    <2>2. relay \in [1..ConnMax -> Readers] /\ sock \in [1..ConnMax -> Seq(Bytes)]
      BY <1>1, <1>2
    <2> QED BY <1>1, <1>3, <2>1, <2>2, FirmwareInitTypes DEF TxTypeOK, Frames, Readers, TaskType
  <1>5. FramesInv
    BY <1>3 DEF FramesInv
  <1>6. \A t \in Tasks : task[t] = Free /\ TaskInv(t)
    BY <1>1, FirmwareInitTypes DEF TaskInv
  <1>7. ASSUME NEW s \in 1..ConnMax PROVE SessionInv(s)
    <2>1. /\ relay[s] = Unborn /\ relay[s].hdr = <<>> /\ relay[s].data = <<>> /\ sock[s] = <<>>
          /\ relay[s].expected = 0 /\ relay[s].got = <<>> /\ ~relay[s].live
      BY <1>1 DEF Unborn
    <2>2. Len(<<>>) = 0 /\ DOMAIN <<>> = {} /\ HdrSize \in Nat \ {0}
      BY TxSizeAssumption
    <2>3. Unread(s) = <<>>
      <3>1. (<<>> \o <<>>) \o <<>> = <<>>
        OBVIOUS
      <3> QED BY <2>1, <3>1 DEF Unread
    <2>4. Reader(relay[s], frames)
      BY <2>1, <2>2 DEF Reader
    <2>5. Sequenced(<<>>, frames) /\ Ordered(<<>>, <<>>, frames) /\ Whole(<<>>, frames)
      BY <2>2 DEF Sequenced, OwnBytes, FromStart, Adjacent, InOnePiece, InOrder,
                  Ordered, AllArrived, GotInOrder, GotBefore, Whole
    <2>6. \A t, k : Older(<<>>, <<>>, t, k, frames)
      BY <2>2 DEF Older
    <2> QED BY <2>1, <2>3, <2>4, <2>5, <2>6 DEF SessionInv
  <1> QED BY <1>1, <1>4, <1>5, <1>6, <1>7 DEF TxInv

\* The setters of the sniffer.
LEMMA SettingsTypes ==
  ASSUME TxInv, NEW en \in BOOLEAN, NEW m \in SUBSET Types
  PROVE  /\ [promisc EXCEPT !.on = en] \in [on : BOOLEAN, cb : BOOLEAN, mask : SUBSET Types]
         /\ [promisc EXCEPT !.cb = en] \in [on : BOOLEAN, cb : BOOLEAN, mask : SUBSET Types]
         /\ [promisc EXCEPT !.mask = m] \in [on : BOOLEAN, cb : BOOLEAN, mask : SUBSET Types]
  <1>1. promisc \in [on : BOOLEAN, cb : BOOLEAN, mask : SUBSET Types]
    BY DEF TxInv, TxTypeOK
  <1> QED BY <1>1

LEMMA TransmitStep ==
  ASSUME TxInv, NEW t \in Tasks, NEW n \in Lens, Transmit(t, n) PROVE TxInv'
  <1>1. n <= BufSize /\ HandIn(t, FALSE, "data", n)
    BY DEF Transmit
  <1>2. n \in 0..BufSize
    BY <1>1, TxLensAssumption, TxSizeAssumption
  <1> QED BY <1>1, <1>2, HandInStep DEF Types

\* The Ethernet frame in a raw frame fits the buffer, and is there for data only.
LEMMA EthLenFits ==
  ASSUME NEW type \in Types, NEW oneDS \in BOOLEAN, NEW snap \in BOOLEAN, NEW n \in Nat
  PROVE  /\ EthLen(type, oneDS, snap, n) \in 0..BufSize
         /\ EthLen(type, oneDS, snap, n) > 0 => type = "data"
  <1>1. EthHdr \in Nat /\ RawHdr \in Nat /\ BufSize \in Nat
    BY TxSizeAssumption
  <1>2. n >= RawHdr => EthHdr + n - RawHdr \in Nat
    BY <1>1
  <1> QED BY <1>1, <1>2 DEF EthLen

LEMMA Esp80211TxStep ==
  ASSUME TxInv, NEW t \in Tasks, NEW type \in Types, NEW oneDS \in BOOLEAN, NEW snap \in BOOLEAN,
         NEW n \in RawLens, Esp80211Tx(t, type, oneDS, snap, n)
  PROVE  TxInv'
  <1>1. HandIn(t, TRUE, type, EthLen(type, oneDS, snap, n))
    BY DEF Esp80211Tx
  <1>2. n \in Nat
    BY TxLensAssumption
  <1>3. /\ EthLen(type, oneDS, snap, n) \in 0..BufSize
        /\ EthLen(type, oneDS, snap, n) > 0 => type = "data"
    BY <1>2, EthLenFits
  <1> QED BY <1>1, <1>3, HandInStep

LEMMA TxInvUnchanged == ASSUME TxInv, UNCHANGED txVars PROVE TxInv'
  <1>1. UNCHANGED <<promisc, frames, task, tx_buf, tx_addr, conn, sock, relay, conns,
                    sets_left, reboots_left>>
    BY DEF txVars, fwVars, relayVars, txBounds
  <1>2. TxTypeOK' /\ FramesInv' /\ (\A t \in Tasks : TaskInv(t)') /\ Grows(frames, frames')
        /\ TasksGoOn
    BY <1>1, GrowsSelf DEF TxInv, TxTypeOK, FramesInv, TaskInv, Mine, Frame, TasksGoOn
  <1> QED BY <1>1, <1>2, Quiet DEF relayVars

LEMMA TxInvStep == ASSUME TxInv, [TxNext]_txVars PROVE TxInv'
  <1>1. ASSUME NEW en \in BOOLEAN, SetPromiscuous(en) PROVE TxInv'
    BY <1>1, SettingsTypes, SnifferStep DEF SetPromiscuous
  <1>2. ASSUME NEW en \in BOOLEAN, SetPromiscuousRxCb(en) PROVE TxInv'
    BY <1>2, SettingsTypes, SnifferStep DEF SetPromiscuousRxCb
  <1>3. ASSUME NEW m \in Filters, SetPromiscuousFilter(m) PROVE TxInv'
    <2>1. m \in SUBSET Types
      BY TxFiltersAssumption DEF Types
    <2> QED BY <1>3, <2>1, SettingsTypes, SnifferStep DEF SetPromiscuousFilter
  <1>4. ASSUME NEW t \in Tasks, NEW n \in Lens, Transmit(t, n) PROVE TxInv'
    BY <1>4, TransmitStep
  <1>5. ASSUME NEW t \in Tasks, NEW type \in Types, NEW oneDS \in BOOLEAN, NEW snap \in BOOLEAN,
               NEW n \in RawLens, Esp80211Tx(t, type, oneDS, snap, n)
        PROVE  TxInv'
    BY <1>5, Esp80211TxStep
  <1>6. ASSUME NEW t \in Tasks, NEW enough \in BOOLEAN, Tap(t, enough) PROVE TxInv'
    BY <1>6, TapStep
  <1>7. ASSUME NEW t \in Tasks, Call(t) PROVE TxInv'
    BY <1>7, CallStep
  <1>8. ASSUME NEW t \in Tasks, NoMemory(t) PROVE TxInv'
    BY <1>8, NoMemoryStep
  <1>9. ASSUME NEW t \in Tasks, Copy(t) PROVE TxInv'
    BY <1>9, CopyStep
  <1>10. ASSUME NEW t \in Tasks, WriteTxAddr(t) PROVE TxInv'
    BY <1>10, WriteTxAddrStep
  <1>11. ASSUME NEW t \in Tasks, WriteTxLen(t) PROVE TxInv'
    BY <1>11, WriteTxLenStep
  <1>12. CASE PktRelayOpen
    BY <1>12, OpenStep
  <1>13. CASE PktHangUp
    BY <1>13, HangUpStep
  <1>14. CASE Reboot \/ Panic
    BY <1>14, RestartStep DEF Reboot, Panic
  <1>15. ASSUME NEW s \in 1..ConnMax, ReadPrefix(s) PROVE TxInv'
    BY <1>15, ReadPrefixStep
  <1>16. ASSUME NEW s \in 1..ConnMax, ReadFrame(s) PROVE TxInv'
    BY <1>16, ReadFrameStep
  <1>17. ASSUME NEW s \in 1..ConnMax, SessionEnds(s) PROVE TxInv'
    BY <1>17, EndStep DEF SessionEnds
  <1>18. CASE UNCHANGED txVars
    BY <1>18, TxInvUnchanged
  <1> QED BY <1>1, <1>2, <1>3, <1>4, <1>5, <1>6, <1>7, <1>8, <1>9, <1>10, <1>11, <1>12, <1>13,
             <1>14, <1>15, <1>16, <1>17, <1>18 DEF TxNext

\* The shared buffer, the frames inside pkt_relay_send(), the streams and the relay's
\* sessions stay in the relation TxInv states.
THEOREM TxInvariance == TxSpec => []TxInv
  <1>1. TxInit => TxInv
    BY TxInvInit
  <1>2. TxInv /\ [TxNext]_txVars => TxInv'
    BY TxInvStep
  <1> QED BY <1>1, <1>2, PTL DEF TxSpec

\* ---- What it implies ---------------------------------------------------------------------

\* Type correctness of firmware, device and relay in esp_wifi_shim.c,
\* esp_wifi_promisc.c, esp_wifi.c and wifi_packet_relay.py: no frame is longer than
\* the DMA buffer, no prefix longer than it should be.
THEOREM TxTypeCorrect == TxSpec => []TxTypeOK
  <1>1. TxInv => TxTypeOK
    BY DEF TxInv
  <1> QED BY <1>1, TxInvariance, PTL

\* pkt_relay_send() and handle_qemu_session(): whatever the two send()s take, a
\* session finds whole frames one after the other, reads the length of each out of
\* its own prefix, and only a connection the device has closed ends inside a frame.
THEOREM TxSessionsFramed == TxSpec => []SessionsFramed
  <1>1. ASSUME TxInv PROVE SessionsFramed
    <2> SUFFICES ASSUME NEW s \in 1..ConnMax, relay[s].live
                 PROVE LET u == Unread(s) IN
                       /\ u # <<>> => u[1].pos = 1
                       /\ \A i \in 1..(Len(u) - 1) :
                              IF EndsFrame(u[i]) THEN u[i + 1].pos = 1
                              ELSE u[i + 1].no = u[i].no /\ u[i + 1].pos = u[i].pos + 1
                       /\ u # <<>> /\ conn = s => EndsFrame(u[Len(u)])
                       /\ Len(relay[s].hdr) = HdrSize =>
                              relay[s].expected = frames[relay[s].hdr[1].no].len
      BY DEF SessionsFramed
    <2>1. SessionInv(s)
      BY <1>1 DEF TxInv
    <2>2. \A b : EndsFrame(b) <=> Final(b, frames)
      BY DEF EndsFrame, Final
    <2> QED BY <2>1, <2>2 DEF SessionInv, Sequenced, FromStart, Adjacent, Whole, Reader
  <1> QED BY <1>1, TxInvariance, PTL

\* The tasks share s_tx_buf without a lock.  All the same a frame that arrives has
\* the length it was handed in with; it is the frame handed in, if no other task
\* copied to the buffer meanwhile; and the frames of a task arrive in order and once.
THEOREM TxFramesArrive == TxSpec => []FramesArrive
  <1>1. ASSUME TxInv PROVE FramesArrive
    <2> SUFFICES ASSUME NEW s \in 1..ConnMax, NEW i \in DOMAIN relay[s].got
                 PROVE LET g == relay[s].got[i]
                           k == g[1].no IN
                       /\ Len(g) = frames[k].len
                       /\ frames[k].alone => \A j \in DOMAIN g : g[j].from = k
                       /\ \A j \in 1..(i - 1) : LET l == relay[s].got[j][1].no IN
                              frames[l].by = frames[k].by => l < k
      BY DEF FramesArrive
    <2>1. AllArrived(relay[s].got, frames) /\ GotInOrder(relay[s].got, frames)
      BY <1>1 DEF TxInv, SessionInv, Ordered
    <2> QED BY <2>1 DEF AllArrived, Arrived, GotInOrder
  <1> QED BY <1>1, TxInvariance, PTL

\* qemu_wifi_tx_raw_no_promisc() and its caller: no frame is shown to the sniffer
\* twice, and only frames of type data get onto the wire.
THEOREM TxSniffedOnce == TxSpec => []SniffedOnce
  <1>1. ASSUME TxInv PROVE SniffedOnce
    <2>1. ASSUME NEW s \in 1..ConnMax, NEW i \in DOMAIN sock[s]
          PROVE  frames[sock[s][i].no].type = "data"
      <3> DEFINE p == Len(relay[s].hdr) + Len(relay[s].data)
      <3>1. /\ relay[s].hdr \in Seq(Bytes) /\ relay[s].data \in Seq(Bytes)
            /\ sock[s] \in Seq(Bytes) /\ Unread(s) \in Seq(Bytes)
            /\ Len(Unread(s)) = p + Len(sock[s])
            /\ \A j \in 1..Len(sock[s]) : Unread(s)[p + j] = sock[s][j]
        BY <1>1, UnreadFacts DEF TxInv
      <3>2. /\ p \in Nat /\ Len(sock[s]) \in Nat /\ i \in 1..Len(sock[s])
            /\ DOMAIN Unread(s) = 1..Len(Unread(s))
        <4>1. \A v \in Seq(Bytes) : Len(v) \in Nat /\ DOMAIN v = 1..Len(v)
          OBVIOUS
        <4>2. \A a, b \in Nat : a + b \in Nat
          OBVIOUS
        <4>3. Len(relay[s].hdr) \in Nat /\ Len(relay[s].data) \in Nat
          BY ONLY <3>1, <4>1, Zenon
        <4>4. p \in Nat
          BY ONLY <4>2, <4>3, Zenon DEF p
        <4> HIDE DEF p
        <4> QED BY ONLY <2>1, <3>1, <4>1, <4>4, Zenon
      <3> HIDE DEF p
      <3>3. p + i \in DOMAIN Unread(s)
        <4>1. \A a, b \in Nat : \A j \in 1..b : a + j \in 1..(a + b)
          OBVIOUS
        <4> QED BY ONLY <3>1, <3>2, <4>1, Zenon
      <3>4. sock[s][i] = Unread(s)[p + i]
        BY <3>1, <3>2
      <3>5. ByteOf(Unread(s)[p + i], frames)
        BY <1>1, <3>3 DEF TxInv, SessionInv, Sequenced, OwnBytes
      <3> QED BY <1>1, <3>4, <3>5 DEF ByteOf, TxInv, FramesInv
    <2>2. \A k \in DOMAIN frames : frames[k].seen <= 1
      BY <1>1 DEF TxInv, FramesInv
    <2> QED BY <2>1, <2>2 DEF SniffedOnce
  <1> QED BY <1>1, TxInvariance, PTL
=============================================================================
