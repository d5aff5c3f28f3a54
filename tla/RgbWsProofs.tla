---------------------------- MODULE RgbWsProofs ----------------------------
(***************************************************************************)
(* Proofs about the display server, for every set of connections, sizes    *)
(* and pictures, every width of the frame counter and every size of the    *)
(* socket buffers.                                                         *)
(***************************************************************************)
EXTENDS RgbWs, SequenceTheorems, TLAPS

\* ---- Types ------------------------------------------------------------------

\* The number after a message is a number.
LEMMA FollowingType ==
  ASSUME NEW msg \in Messages PROVE Following(msg) \in 0..(SeqMod - 1)
  <1>1. CASE msg.kind = "text"
    BY <1>1, SeqModAssumption DEF Following
  <1>2. CASE msg.kind # "text"
    <2>1. msg.seq \in 0..(SeqMod - 1)
      BY <1>2 DEF Messages
    <2> QED BY <1>2, <2>1, SeqModAssumption DEF Following
  <1> QED BY <1>1, <1>2

\* A broadcast is a job for the clients in the list.
LEMMA BroadcastType ==
  ASSUME RgbTypeOK, NEW n \in 0..2
  PROVE  \/ BroadcastJob(n) = Idle
         \/ /\ BroadcastJob(n) \in Jobs /\ BroadcastJob(n).todo \subseteq clients
            /\ BroadcastJob(n).kind = "frame"
  BY DEF RgbTypeOK, BroadcastJob, Jobs

\* So is a header sent to some of them.
LEMMA HeaderJobType ==
  ASSUME NEW todo \in SUBSET Clients, NEW z \in Sizes, NEW n \in 0..2
  PROVE  \/ HeaderJob(todo, z, n) = Idle /\ todo = {}
         \/ /\ HeaderJob(todo, z, n) \in Jobs /\ HeaderJob(todo, z, n).todo = todo
            /\ HeaderJob(todo, z, n).kind = "header" /\ HeaderJob(todo, z, n).size = z
  BY DEF HeaderJob, Jobs

\* A callback never takes itself for the idle loop.
LEMMA JobsNotIdle == \A j \in Jobs : j # Idle
  <1> SUFFICES ASSUME NEW j \in Jobs PROVE j # Idle
    OBVIOUS
  <1>1. j.kind \in {"header", "frame"}
    BY DEF Jobs
  <1> QED BY <1>1 DEF Idle

\* Progress in a job is a job.
LEMMA DoneType ==
  ASSUME RgbTypeOK, job # Idle, NEW c \in job.todo, Done(c)
  PROVE  /\ job \in Jobs /\ job' \in Jobs /\ job'.todo = job.todo \ {c}
         /\ job'.kind = job.kind /\ job'.size = job.size
         /\ c \in clients /\ c \in Clients
  BY DEF RgbTypeOK, Done, Jobs

\* What a client is sent is a message.
LEMMA WriteType ==
  ASSUME RgbTypeOK, job \in Jobs, NEW c \in Clients
  PROVE  /\ Text(job.size) \in Messages
         /\ Binary(seq[c], job.size, job.pic) \in Messages
  BY DEF RgbTypeOK, Jobs, Text, Binary, Messages

LEMMA TypeInit == RgbInit => RgbTypeOK
  <1> SUFFICES ASSUME RgbInit PROVE RgbTypeOK
    OBVIOUS
  <1>1. 0 \in 0..(SeqMod - 1)
    BY SeqModAssumption
  <1>2. page \in [Clients -> [header : Sizes \cup {NoHeader},
                             shown : Pictures \cup {Half, NoPicture, Garbled},
                             next : 0..(SeqMod - 1)]]
    BY <1>1 DEF RgbInit, NewPage
  <1>3. /\ seq \in [Clients -> 0..(SeqMod - 1)]
        /\ wire \in [Clients -> Seq(Messages)]
        /\ told \in [Clients -> Sizes \cup {NoHeader}]
    BY <1>1 DEF RgbInit
  <1>4. peer \in [Clients -> {"absent", "handshake", "open", "closed", "reset"}]
    BY DEF RgbInit
  <1> QED BY <1>2, <1>3, <1>4 DEF RgbInit, RgbTypeOK

LEMMA TypeNext == RgbTypeOK /\ [RgbNext]_rgbVars => RgbTypeOK'
  <1> SUFFICES ASSUME RgbTypeOK, [RgbNext]_rgbVars PROVE RgbTypeOK'
    OBVIOUS
  <1> USE DEF RgbTypeOK, deviceVars
  <1>0. 0 \in 0..(SeqMod - 1)
    BY SeqModAssumption
  <1>1. CASE EspRgbInit
    <2>1. job' = Idle \/ (job' \in Jobs /\ job'.todo \subseteq clients)
      BY <1>1, HeaderJobType DEF EspRgbInit, Announce
    <2> QED BY <1>1, <2>1 DEF EspRgbInit, Announce
  <1>2. ASSUME NEW z \in Sizes, WriteWinSize(z) PROVE RgbTypeOK'
    BY <1>2 DEF WriteWinSize
  <1>3. CASE Draw
    BY <1>3 DEF Draw
  <1>4. CASE RgbUpdate
    <2>1. PICK area \in {0, 1} :
            IF resized THEN Announce(area + 1) /\ resized' = FALSE
            ELSE job' = BroadcastJob(area) /\ UNCHANGED <<header, resized>>
      BY <1>4 DEF RgbUpdate
    <2>2. job' = Idle \/ (job' \in Jobs /\ job'.todo \subseteq clients)
      <3>1. area \in 0..2 /\ area + 1 \in 0..2
        OBVIOUS
      <3>2. CASE resized
        <4>1. job' = Idle \/ job' = HeaderJob(clients, size, area + 1)
          BY <2>1, <3>2 DEF Announce
        <4> QED BY <3>1, <4>1 DEF HeaderJob, Jobs
      <3>3. CASE ~resized
        BY <2>1, <3>1, <3>3, BroadcastType
      <3> QED BY <3>2, <3>3
    <2>3. header' \in Sizes \cup {NoHeader} /\ resized' \in BOOLEAN
      BY <2>1 DEF Announce
    <2> QED BY <1>4, <2>2, <2>3 DEF RgbUpdate
  <1>5. ASSUME NEW c \in Clients, Accept(c) \/ HandshakeFails(c) PROVE RgbTypeOK'
    BY <1>5 DEF Accept, HandshakeFails
  <1>6. ASSUME NEW c \in Clients, HandshakeDone(c) PROVE RgbTypeOK'
    <2>1. job' = Idle \/ (job' \in Jobs /\ job'.todo \subseteq clients')
      <3>1. CASE header = NoHeader
        BY <1>6, <3>1 DEF HandshakeDone
      <3>2. CASE header # NoHeader
        <4>1. header \in Sizes /\ {c} \in SUBSET Clients
          BY <3>2
        <4>2. job' = HeaderJob({c}, header, 0) /\ clients' = clients \cup {c}
          BY <1>6, <3>2 DEF HandshakeDone
        <4>3. \/ job' = Idle
              \/ job' \in Jobs /\ job'.todo = {c}
          BY <4>1, <4>2 DEF HeaderJob, Jobs
        <4> QED BY <4>2, <4>3
      <3> QED BY <3>1, <3>2
    <2> QED BY <1>0, <1>6, <2>1 DEF HandshakeDone
  <1>7. CASE Timer
    BY <1>7, BroadcastType DEF Timer
  <1>8. CASE NextCall
    <2>1. job \in Jobs /\ job.calls \in 0..2
      BY <1>8 DEF NextCall, Jobs
    <2>2. job.calls > 0 => job.calls - 1 \in 0..2
      BY <2>1
    <2> QED BY <1>8, <2>2, BroadcastType DEF NextCall
  <1>9. ASSUME NEW c \in Clients, Write(c) PROVE RgbTypeOK'
    <2>1. /\ job \in Jobs /\ job' \in Jobs /\ job'.todo \subseteq clients
      BY <1>9, DoneType DEF Write
    <2>2. wire' \in [Clients -> Seq(Messages)]
      <3> DEFINE m == IF job.kind = "frame" THEN Binary(seq[c], job.size, job.pic)
                                           ELSE Text(job.size)
      <3>1. m \in Messages
        BY <2>1, WriteType
      <3>2. wire' = [wire EXCEPT ![c] = Append(wire[c], m)] \/ wire' = wire
        BY <1>9 DEF Write
      <3> HIDE DEF m
      <3>3. Append(wire[c], m) \in Seq(Messages)
        BY <3>1
      <3> QED BY <3>2, <3>3
    <2>3. seq' \in [Clients -> 0..(SeqMod - 1)]
      <3>1. (seq[c] + 1) % SeqMod \in 0..(SeqMod - 1)
        BY SeqModAssumption
      <3> QED BY <1>0, <1>9, <3>1 DEF Write, Numbered
    <2>4. told' \in [Clients -> Sizes \cup {NoHeader}]
      BY <1>9, <2>1 DEF Write, Numbered, Jobs
    <2> QED BY <1>9, <2>1, <2>2, <2>3, <2>4 DEF Write
  <1>10. ASSUME NEW c \in Clients, WriteFails(c) PROVE RgbTypeOK'
    <2>1. /\ job' \in Jobs /\ job'.todo \subseteq clients'
      BY <1>10, DoneType DEF WriteFails
    <2> QED BY <1>0, <1>10, <2>1 DEF WriteFails
  <1>11. ASSUME NEW c \in Clients, Receive(c) PROVE RgbTypeOK'
    <2> DEFINE msg == Head(wire[c])
               h   == page[c].header
    <2>1. msg \in Messages /\ Tail(wire[c]) \in Seq(Messages)
      BY <1>11 DEF Receive
    <2>2. /\ Following(msg) \in 0..(SeqMod - 1)
          /\ msg.kind = "text" => msg.size \in Sizes
          /\ msg.kind # "text" => msg.pic \in Pictures \cup {Half}
      BY <2>1, FollowingType DEF Messages
    <2>3. page' \in [Clients -> [header : Sizes \cup {NoHeader},
                                 shown : Pictures \cup {Half, NoPicture, Garbled},
                                 next : 0..(SeqMod - 1)]]
      BY <1>11, <2>2 DEF Receive
    <2> QED BY <1>11, <2>1, <2>3 DEF Receive
  <1>12. ASSUME NEW c \in Clients, CloseTab(c) PROVE RgbTypeOK'
    BY <1>0, <1>12 DEF CloseTab, NewPage
  <1>13. CASE UNCHANGED rgbVars
    BY <1>13 DEF rgbVars
  <1> QED
    BY <1>1, <1>2, <1>3, <1>4, <1>5, <1>6, <1>7, <1>8, <1>9, <1>10, <1>11, <1>12, <1>13
    DEF RgbNext

\* Every variable keeps its type; a client that is still to be written to is in
\* the list: the iteration never goes on from a client that was removed.
THEOREM RgbTypeCorrect == RgbSpec => []RgbTypeOK
  BY TypeInit, TypeNext, PTL DEF RgbSpec

\* ---- Messages under way -----------------------------------------------------

\* A page with header h that reads w ends up with header z.
Knows(w, h, z) ==
  \/ h = z /\ \A i \in DOMAIN w : ~IsText(w, i)
  \/ \E i \in DOMAIN w :
        IsText(w, i) /\ w[i].size = z /\ \A j \in DOMAIN w : j > i => ~IsText(w, j)

\* Append and Tail, index by index.
LEMMA AppendFacts ==
  ASSUME NEW w \in Seq(Messages), NEW m \in Messages
  PROVE  /\ Append(w, m) \in Seq(Messages) /\ Append(w, m) # <<>>
         /\ Len(w) \in Nat /\ Len(Append(w, m)) = Len(w) + 1
         /\ DOMAIN w = 1..Len(w) /\ DOMAIN Append(w, m) = 1..(Len(w) + 1)
         /\ \A i \in 1..Len(w) : Append(w, m)[i] = w[i]
         /\ Append(w, m)[Len(w) + 1] = m
  OBVIOUS

LEMMA TailFacts ==
  ASSUME NEW w \in Seq(Messages), w # <<>>
  PROVE  /\ Len(w) \in Nat \ {0} /\ Head(w) = w[1] /\ w[1] \in Messages
         /\ Tail(w) \in Seq(Messages) /\ Len(Tail(w)) = Len(w) - 1
         /\ DOMAIN w = 1..Len(w) /\ DOMAIN Tail(w) = 1..(Len(w) - 1)
         /\ \A i \in 1..(Len(w) - 1) : Tail(w)[i] = w[i + 1]
  OBVIOUS

\* A header may be appended at any time, a frame once there has been a header.
LEMMA HeadedAppend ==
  ASSUME NEW w \in Seq(Messages), NEW m \in Messages, NEW h, NEW z,
         Headed(w, h), m.kind = "text" \/ (Knows(w, h, z) /\ z # NoHeader)
  PROVE  Headed(Append(w, m), h)
  BY AppendFacts DEF Headed, Knows, IsText

\* What is left after a read is still preceded by a header.
LEMMA HeadedTail ==
  ASSUME NEW w \in Seq(Messages), w # <<>>, NEW h, NEW g, Headed(w, h),
         g # NoHeader \/ (g = h /\ ~IsText(w, 1))
  PROVE  Headed(Tail(w), g)
  BY TailFacts DEF Headed, IsText

\* The next number keeps a connection in order.
LEMMA InOrderAppend ==
  ASSUME NEW w \in Seq(Messages), NEW m \in Messages, NEW n, InOrder(w, n),
         m.kind = "text" \/ m.seq = NextAfter(w, n)
  PROVE  InOrder(Append(w, m), n) /\ NextAfter(Append(w, m), n) = Following(m)
  BY AppendFacts DEF InOrder, NextAfter, IsText

\* So does a read that counts.
LEMMA InOrderTail ==
  ASSUME NEW w \in Seq(Messages), w # <<>>, NEW n, InOrder(w, n)
  PROVE  /\ InOrder(Tail(w), Following(Head(w)))
         /\ NextAfter(Tail(w), Following(Head(w))) = NextAfter(w, n)
  <1> USE TailFacts
  <1>1. ASSUME NEW i \in DOMAIN Tail(w), ~IsText(Tail(w), i)
        PROVE  Tail(w)[i].seq = IF i = 1 THEN Following(Head(w)) ELSE Following(Tail(w)[i - 1])
    <2>1. /\ i \in 1..(Len(w) - 1) /\ i + 1 \in DOMAIN w /\ i + 1 # 1 /\ (i + 1) - 1 = i
          /\ Tail(w)[i] = w[i + 1] /\ ~IsText(w, i + 1)
      BY <1>1 DEF IsText
    <2>2. w[i + 1].seq = Following(w[i])
      BY <2>1 DEF InOrder
    <2>3. i # 1 => Tail(w)[i - 1] = w[i]
      <3>1. i # 1 => i - 1 \in 1..(Len(w) - 1) /\ (i - 1) + 1 = i
        BY <2>1
      <3> QED BY <3>1
    <2> QED BY <2>1, <2>2, <2>3
  <1>2. CASE Len(w) = 1
    <2>1. Tail(w) = <<>>
      <3>1. Tail(w) \in Seq(Messages) /\ Len(Tail(w)) = 0
        BY <1>2
      <3>2. 0 \notin Nat \ {0}
        OBVIOUS
      <3> QED BY <3>1, <3>2, EmptySeq
    <2> QED BY <1>1, <1>2, <2>1 DEF InOrder, NextAfter
  <1>3. CASE Len(w) # 1
    <2>1. /\ Len(w) - 1 \in 1..(Len(w) - 1) /\ Len(Tail(w)) # 0
          /\ (Len(w) - 1) + 1 = Len(w)
      <3>1. Len(w) \in Nat \ {0, 1} /\ Len(Tail(w)) = Len(w) - 1
        BY <1>3
      <3> QED BY <3>1
    <2>2. Tail(w) # <<>>
      BY <2>1, EmptySeq
    <2>3. Tail(w)[Len(Tail(w))] = w[Len(w)]
      BY <2>1
    <2> QED BY <1>1, <2>2, <2>3 DEF InOrder, NextAfter
  <1> QED BY <1>2, <1>3

\* The header a page ends up with, after another header, another frame,
LEMMA KnowsAppend ==
  ASSUME NEW w \in Seq(Messages), NEW m \in Messages, NEW h, NEW z,
         \/ m.kind = "text" /\ m.size = z
         \/ m.kind # "text" /\ Knows(w, h, z)
  PROVE  Knows(Append(w, m), h, z)
  BY AppendFacts DEF Knows, IsText

\* and a read.
LEMMA KnowsTail ==
  ASSUME NEW w \in Seq(Messages), w # <<>>, NEW h, NEW z, Knows(w, h, z)
  PROVE  Knows(Tail(w), IF IsText(w, 1) THEN w[1].size ELSE h, z)
  <1> USE TailFacts
  <1>0. \A j \in DOMAIN Tail(w) : /\ j + 1 \in DOMAIN w /\ j \in Nat
                                  /\ IsText(Tail(w), j) <=> IsText(w, j + 1)
    BY DEF IsText
  <1>1. CASE h = z /\ \A i \in DOMAIN w : ~IsText(w, i)
    BY <1>0, <1>1 DEF Knows
  <1>2. ASSUME NEW i \in DOMAIN w, IsText(w, i), w[i].size = z,
               \A j \in DOMAIN w : j > i => ~IsText(w, j)
        PROVE  Knows(Tail(w), IF IsText(w, 1) THEN w[1].size ELSE h, z)
    <2>1. CASE i = 1
      <3>1. \A j \in DOMAIN Tail(w) : ~IsText(Tail(w), j)
        BY <1>0, <1>2, <2>1
      <3> QED BY <1>2, <2>1, <3>1 DEF Knows
    <2>2. CASE i # 1
      <3>1. i - 1 \in DOMAIN Tail(w) /\ (i - 1) + 1 = i
        BY <1>2, <2>2
      <3>2. IsText(Tail(w), i - 1) /\ Tail(w)[i - 1].size = z
        BY <1>2, <3>1 DEF IsText
      <3>3. \A j \in DOMAIN Tail(w) : j > i - 1 => ~IsText(Tail(w), j)
        <4> SUFFICES ASSUME NEW j \in DOMAIN Tail(w), j > i - 1 PROVE ~IsText(Tail(w), j)
          OBVIOUS
        <4>1. j + 1 \in DOMAIN w /\ j + 1 > i
          BY <1>0
        <4> QED BY <1>0, <1>2, <4>1
      <3> QED BY <3>1, <3>2, <3>3 DEF Knows
    <2> QED BY <2>1, <2>2
  <1> QED BY <1>1, <1>2 DEF Knows

\* ---- The inductive invariant ------------------------------------------------

\* The header kept for new clients is the size of the surface, unless a resize
\* waits to be announced, and a header on its way to the clients is that one.
HeaderInv ==
  /\ server # "down" => header \in Sizes /\ (~resized => header = size)
  /\ server # "listening" => /\ clients = {} /\ job = Idle
                             /\ \A c \in Clients : peer[c] = "absent"
  /\ job # Idle /\ job.kind = "header" => job.size = header

\* A client that has had no header is about to get its first; every other one
\* was told the header kept, or is about to be.  What has been told is what the
\* page ends up with.
Conn(c) ==
  /\ c \in clients <=> peer[c] \in {"open", "closed", "reset"}
  /\ peer[c] # "open" => wire[c] = <<>> /\ page[c] = NewPage
  /\ c \in clients /\ told[c] = NoHeader =>
        HeaderPending(c) /\ wire[c] = <<>> /\ page[c].header = NoHeader
  /\ c \in clients /\ ~HeaderPending(c) => told[c] = header
  /\ peer[c] = "open" /\ told[c] # NoHeader => Knows(wire[c], page[c].header, told[c])
  /\ Headed(wire[c], page[c].header)
  /\ InOrder(wire[c], page[c].next)
  /\ peer[c] = "open" => seq[c] = NextAfter(wire[c], page[c].next)

RgbInv == RgbTypeOK /\ HeaderInv /\ \A c \in Clients : Conn(c)

\* A connection an action does not touch.
Same(c) ==
  /\ c \in clients' <=> c \in clients
  /\ peer'[c] = peer[c] /\ wire'[c] = wire[c] /\ page'[c] = page[c]
  /\ seq'[c] = seq[c] /\ told'[c] = told[c]

\* It stays correct if its next header is on the way or need not be.
LEMMA ConnKept ==
  ASSUME NEW c \in Clients, Conn(c), Same(c),
         c \in clients => HeaderPending(c)' \/ (told[c] = header' /\ header' # NoHeader)
  PROVE  Conn(c)'
  BY DEF Conn, Same

\* A client without a header on its way has the one that is kept.
LEMMA Settled ==
  ASSUME RgbInv, NEW c \in clients, ~HeaderPending(c)
  PROVE  c \in Clients /\ server = "listening" /\ told[c] = header /\ header # NoHeader
  BY SizesAssumption DEF RgbInv, RgbTypeOK, HeaderInv, Conn

\* Between callbacks no header is on its way.
LEMMA IdleSettled ==
  ASSUME RgbInv, job = Idle, NEW c \in clients
  PROVE  c \in Clients /\ server = "listening" /\ told[c] = header /\ header # NoHeader
  BY Settled DEF HeaderPending

LEMMA InvInit == RgbInit => RgbInv
  <1> SUFFICES ASSUME RgbInit PROVE RgbInv
    OBVIOUS
  <1>1. HeaderInv
    BY DEF RgbInit, HeaderInv
  <1>2. ASSUME NEW c \in Clients PROVE Conn(c)
    <2>1. wire[c] = <<>> /\ page[c] = NewPage /\ peer[c] = "absent" /\ clients = {}
      BY DEF RgbInit
    <2>2. Headed(<<>>, NoHeader) /\ InOrder(<<>>, 0)
      BY DEF Headed, InOrder
    <2> QED BY <2>1, <2>2 DEF Conn, NewPage
  <1> QED BY <1>1, <1>2, TypeInit DEF RgbInv

\* An announcement tells every client, or keeps the header for those to come.
LEMMA AnnounceKeeps ==
  ASSUME RgbInv, NEW n \in 0..2, Announce(n), resized' \in BOOLEAN, size' = size,
         server' \in {"listening", "disabled", "unbound"},
         server # "down" => server' = server,
         UNCHANGED <<clients, seq, peer, wire, page, told>>
  PROVE  HeaderInv' /\ \A c \in Clients : Conn(c)'
  <1>1. clients \in SUBSET Clients /\ size \in Sizes
    BY DEF RgbInv, RgbTypeOK
  <1>2. CASE clients = {}
    <2>1. job' = Idle /\ header' = size
      BY <1>2 DEF Announce, HeaderJob
    <2>2. HeaderInv'
      BY <1>1, <2>1 DEF HeaderInv, RgbInv
    <2>3. ASSUME NEW c \in Clients PROVE Conn(c)'
      <3>1. Conn(c) /\ Same(c) /\ c \notin clients
        BY <1>2 DEF RgbInv, Same
      <3> QED BY <3>1, ConnKept
    <2> QED BY <2>2, <2>3
  <1>3. CASE clients # {}
    <2>1. server = "listening" /\ server' = "listening"
      BY <1>3 DEF RgbInv, HeaderInv
    <2>2. /\ job' \in Jobs /\ job'.todo = clients /\ job'.kind = "header"
          /\ job'.size = size /\ header' = size
      BY <1>1, <1>3, <2>1 DEF Announce, HeaderJob, Jobs
    <2>3. job' # Idle
      BY <2>2, JobsNotIdle
    <2>4. HeaderInv'
      BY <1>1, <2>1, <2>2 DEF HeaderInv
    <2>5. ASSUME NEW c \in Clients PROVE Conn(c)'
      <3>1. Conn(c) /\ Same(c) /\ (c \in clients => HeaderPending(c)')
        BY <2>2, <2>3 DEF RgbInv, Same, HeaderPending
      <3> QED BY <3>1, ConnKept
    <2> QED BY <2>4, <2>5
  <1> QED BY <1>2, <1>3

\* A broadcast to come, or no job at all, leaves the headers as they are.
LEMMA BroadcastKeeps ==
  ASSUME RgbInv, NEW n \in 0..2, job' = BroadcastJob(n) \/ job' = Idle,
         \A c \in clients : ~HeaderPending(c),
         UNCHANGED <<server, deviceVars, header, clients, seq, peer, wire, page, told>>
  PROVE  HeaderInv' /\ \A c \in Clients : Conn(c)'
  <1>1. job' = Idle \/ (server = "listening" /\ job'.kind = "frame")
    BY BroadcastType DEF BroadcastJob, RgbInv
  <1>2. HeaderInv'
    BY <1>1 DEF RgbInv, HeaderInv, deviceVars
  <1>3. ASSUME NEW c \in Clients PROVE Conn(c)'
    BY <1>3, ConnKept, Settled DEF RgbInv, Same
  <1> QED BY <1>2, <1>3

\* A write, or a failed one, moves nobody else's header.
LEMMA DoneKeeps ==
  ASSUME RgbInv, NEW c \in Clients, job # Idle, c \in job.todo, Done(c),
         NEW d \in Clients, d # c, Same(d), header' = header
  PROVE  Conn(d)'
  <1>1. job # Idle /\ job' # Idle /\ job'.kind = job.kind /\ (d \in job'.todo <=> d \in job.todo)
    BY DoneType, JobsNotIdle DEF RgbInv
  <1>2. HeaderPending(d)' <=> HeaderPending(d)
    BY <1>1 DEF HeaderPending
  <1>3. Conn(d) /\ (d \in clients => HeaderPending(d)' \/ (told[d] = header' /\ header' # NoHeader))
    BY <1>2, Settled DEF RgbInv
  <1> QED BY <1>3, ConnKept

\* The message appended by a write keeps its connection correct.
LEMMA WriteKeeps ==
  ASSUME RgbInv, NEW c \in Clients, Write(c)
  PROVE  Conn(c)'
  <1> DEFINE m == IF job.kind = "frame" THEN Binary(seq[c], job.size, job.pic)
                                        ELSE Text(job.size)
  <1>0. /\ RgbTypeOK /\ HeaderInv /\ Conn(c) /\ Done(c) /\ Numbered(c)
        /\ job # Idle /\ c \in job.todo
        /\ header' = header /\ clients' = clients /\ page' = page
    BY DEF RgbInv, Write
  <1>1. /\ job \in Jobs /\ c \in clients /\ job' # Idle
        /\ c \notin job'.todo
    BY <1>0, DoneType, JobsNotIdle
  <1>2. server = "listening" /\ header \in Sizes /\ header # NoHeader
    BY <1>0, SizesAssumption DEF HeaderInv
  <1>3. ~HeaderPending(c)'
    BY <1>1 DEF HeaderPending
  <1>4. told'[c] = header
    <2>1. CASE job.kind = "frame"
      <3>1. ~HeaderPending(c)
        BY <2>1 DEF HeaderPending
      <3> QED BY <1>0, <1>1, <2>1, <3>1 DEF Numbered, Conn, RgbTypeOK
    <2>2. CASE job.kind # "frame"
      <3>1. job.kind = "header"
        BY <1>1, <2>2 DEF Jobs
      <3> QED BY <1>0, <2>2, <3>1 DEF Numbered, HeaderInv, RgbTypeOK
    <2> QED BY <2>1, <2>2
  <1>5. CASE peer'[c] # "open"
    <2>1. peer[c] = "closed" /\ peer'[c] = "reset" /\ wire' = wire
      BY <1>0, <1>5 DEF Write, RgbTypeOK
    <2> QED BY <1>0, <1>1, <1>2, <1>3, <1>4, <2>1 DEF Conn
  <1>6. CASE peer'[c] = "open"
    <2>1. peer[c] = "open" /\ wire'[c] = Append(wire[c], m)
      BY <1>0, <1>6 DEF Write, RgbTypeOK
    <2>2. m \in Messages /\ wire[c] \in Seq(Messages)
      BY <1>0, <1>1, WriteType DEF RgbTypeOK
    <2>3. \/ m.kind = "text" /\ m.size = header /\ seq'[c] = 0 /\ Following(m) = 0
          \/ /\ m.kind # "text" /\ m.seq = seq[c] /\ told[c] = header
             /\ seq'[c] = Following(m)
             /\ Knows(wire[c], page[c].header, header)
      <3>1. CASE job.kind = "frame"
        <4>1. m = Binary(seq[c], job.size, job.pic)
          BY <3>1
        <4>2. told[c] = header
          BY <1>0, <1>4, <3>1 DEF Numbered, RgbTypeOK
        <4>3. seq'[c] = (seq[c] + 1) % SeqMod
          BY <1>0, <3>1 DEF Numbered, RgbTypeOK
        <4> HIDE DEF m
        <4> QED BY <1>0, <1>2, <2>1, <4>1, <4>2, <4>3 DEF Binary, Following, Conn
      <3>2. CASE job.kind # "frame"
        <4>1. m = Text(job.size) /\ job.size = header
          BY <1>0, <1>1, <3>2 DEF HeaderInv, Jobs
        <4>2. seq'[c] = 0
          BY <1>0, <3>2 DEF Numbered, RgbTypeOK
        <4> HIDE DEF m
        <4> QED BY <4>1, <4>2 DEF Text, Following
      <3> QED BY <3>1, <3>2
    <2> HIDE DEF m
    <2>4. /\ Headed(wire[c], page[c].header) /\ InOrder(wire[c], page[c].next)
          /\ seq[c] = NextAfter(wire[c], page[c].next)
      BY <1>0, <2>1 DEF Conn
    <2>5. Headed(wire'[c], page[c].header)
      BY <1>2, <2>1, <2>2, <2>3, <2>4, HeadedAppend
    <2>6. InOrder(wire'[c], page[c].next) /\ NextAfter(wire'[c], page[c].next) = Following(m)
      BY <2>1, <2>2, <2>3, <2>4, InOrderAppend
    <2>7. Knows(wire'[c], page[c].header, header)
      BY <2>1, <2>2, <2>3, KnowsAppend
    <2>8. seq'[c] = Following(m)
      BY <2>3
    <2> QED BY <1>0, <1>1, <1>2, <1>3, <1>4, <1>6, <2>5, <2>6, <2>7, <2>8 DEF Conn
  <1> QED BY <1>5, <1>6

\* Reading a message keeps it correct.
LEMMA ReceiveKeeps ==
  ASSUME RgbInv, NEW c \in Clients, Receive(c)
  PROVE  Conn(c)'
  <1> DEFINE g == IF IsText(wire[c], 1) THEN wire[c][1].size ELSE page[c].header
  <1>0. /\ RgbTypeOK /\ Conn(c) /\ peer[c] = "open" /\ wire[c] # <<>>
        /\ wire[c] \in Seq(Messages) /\ c \in clients
    BY DEF RgbInv, Receive, RgbTypeOK, Conn
  <1>1. Head(wire[c]) = wire[c][1] /\ wire[c][1] \in Messages
    BY <1>0, TailFacts
  <1>2. /\ wire'[c] = Tail(wire[c])
        /\ page'[c].header = g
        /\ page'[c].next = Following(Head(wire[c]))
    BY <1>0, <1>1 DEF Receive, RgbTypeOK, IsText
  <1>3. /\ clients' = clients /\ peer' = peer /\ seq' = seq /\ told' = told
        /\ header' = header /\ job' = job
    BY DEF Receive
  <1>4. IsText(wire[c], 1) => g \in Sizes /\ g # NoHeader
    BY <1>1, SizesAssumption DEF IsText, Messages
  <1> HIDE DEF g
  <1>5. ~IsText(wire[c], 1) => g = page[c].header
    BY DEF g
  <1>6. Headed(wire'[c], g)
    BY <1>0, <1>2, <1>4, <1>5, HeadedTail DEF Conn
  <1>7. /\ InOrder(wire'[c], page'[c].next)
        /\ NextAfter(wire'[c], page'[c].next) = NextAfter(wire[c], page[c].next)
    BY <1>0, <1>2, InOrderTail DEF Conn
  <1>8. told[c] # NoHeader /\ Knows(wire[c], page[c].header, told[c])
    BY <1>0 DEF Conn
  <1>9. Knows(wire'[c], g, told[c])
    BY <1>0, <1>2, <1>8, KnowsTail DEF g
  <1>10. HeaderPending(c)' <=> HeaderPending(c)
    BY <1>3 DEF HeaderPending
  <1> QED BY <1>0, <1>2, <1>3, <1>6, <1>7, <1>8, <1>9, <1>10 DEF Conn

LEMMA InvNext == RgbInv /\ [RgbNext]_rgbVars => RgbInv'
  <1> SUFFICES ASSUME RgbInv, [RgbNext]_rgbVars PROVE HeaderInv' /\ \A c \in Clients : Conn(c)'
    BY TypeNext DEF RgbInv
  <1>0. RgbTypeOK /\ HeaderInv /\ \A c \in Clients : Conn(c)
    BY DEF RgbInv
  <1>a. 0 \in 0..2 /\ 1 \in 0..2 /\ 2 \in 0..2
    OBVIOUS
  <1>1. CASE EspRgbInit
    <2>1. /\ Announce(0) /\ server = "down" /\ size' = size /\ resized' \in BOOLEAN
          /\ server' \in {"listening", "disabled", "unbound"}
          /\ UNCHANGED <<clients, seq, peer, wire, page, told>>
      BY <1>0, <1>1 DEF EspRgbInit, deviceVars, RgbTypeOK
    <2> QED BY <1>0, <1>a, <2>1, AnnounceKeeps
  <1>2. ASSUME NEW z \in Sizes, WriteWinSize(z) PROVE HeaderInv' /\ \A c \in Clients : Conn(c)'
    <2>1. HeaderInv'
      BY <1>0, <1>2 DEF WriteWinSize, HeaderInv
    <2>2. ASSUME NEW c \in Clients PROVE Conn(c)'
      BY <1>0, <1>2, <2>2, IdleSettled, ConnKept DEF WriteWinSize, Same
    <2> QED BY <2>1, <2>2
  <1>3. CASE Draw
    BY <1>0, <1>3 DEF Draw, HeaderInv, Conn, HeaderPending
  <1>4. CASE RgbUpdate
    <2>1. /\ job = Idle /\ UNCHANGED <<server, size, vram, clients, seq, peer, wire, page, told>>
          /\ server # "down"
          /\ \/ Announce(1) /\ resized' = FALSE
             \/ Announce(2) /\ resized' = FALSE
             \/ job' = BroadcastJob(0) /\ UNCHANGED <<header, resized>>
             \/ job' = BroadcastJob(1) /\ UNCHANGED <<header, resized>>
      BY <1>4 DEF RgbUpdate
    <2>2. \A c \in clients : ~HeaderPending(c)
      BY <2>1 DEF HeaderPending
    <2>3. server' \in {"listening", "disabled", "unbound"}
      BY <1>0, <2>1 DEF RgbTypeOK
    <2>4. CASE Announce(1) /\ resized' = FALSE
      BY <1>a, <2>1, <2>3, <2>4, AnnounceKeeps
    <2>5. CASE Announce(2) /\ resized' = FALSE
      BY <1>a, <2>1, <2>3, <2>5, AnnounceKeeps
    <2>6. CASE job' = BroadcastJob(0) /\ UNCHANGED <<header, resized>>
      BY <1>a, <2>1, <2>2, <2>6, BroadcastKeeps DEF deviceVars
    <2>7. CASE job' = BroadcastJob(1) /\ UNCHANGED <<header, resized>>
      BY <1>a, <2>1, <2>2, <2>7, BroadcastKeeps DEF deviceVars
    <2> QED BY <2>1, <2>4, <2>5, <2>6, <2>7
  <1>5. ASSUME NEW c \in Clients, Accept(c) \/ HandshakeFails(c)
        PROVE  HeaderInv' /\ \A d \in Clients : Conn(d)'
    <2>1. /\ server = "listening" /\ job = Idle /\ c \notin clients
          /\ \/ peer' = [peer EXCEPT ![c] = "handshake"]
             \/ peer' = [peer EXCEPT ![c] = "absent"]
          /\ UNCHANGED <<server, deviceVars, header, clients, seq, job, wire, page, told>>
      BY <1>0, <1>5 DEF Accept, HandshakeFails, HeaderInv, Conn
    <2>2. HeaderInv'
      BY <1>0, <2>1 DEF HeaderInv, deviceVars
    <2>3. ASSUME NEW d \in Clients, d # c PROVE Conn(d)'
      BY <1>0, <2>1, <2>3, IdleSettled, ConnKept DEF Same, RgbTypeOK
    <2>4. Conn(c)'
      BY <1>0, <2>1 DEF Conn, RgbTypeOK
    <2> QED BY <2>2, <2>3, <2>4
  <1>6. ASSUME NEW c \in Clients, HandshakeDone(c)
        PROVE  HeaderInv' /\ \A d \in Clients : Conn(d)'
    <2>1. /\ server = "listening" /\ job = Idle /\ c \notin clients /\ header \in Sizes
          /\ header # NoHeader
      BY <1>0, <1>6, SizesAssumption DEF HandshakeDone, HeaderInv, Conn
    <2>2. job' = HeaderJob({c}, header, 0)
      BY <1>6, <2>1 DEF HandshakeDone
    <2>3. /\ job' \in Jobs /\ job'.todo = {c} /\ job'.kind = "header" /\ job'.size = header
      BY <2>1, <2>2 DEF HeaderJob, Jobs
    <2>4. job' # Idle /\ HeaderPending(c)'
      BY <2>3, JobsNotIdle DEF HeaderPending
    <2>5. HeaderInv'
      BY <1>0, <1>6, <2>1, <2>3 DEF HandshakeDone, HeaderInv, deviceVars
    <2>6. ASSUME NEW d \in Clients, d # c PROVE Conn(d)'
      <3>1. Conn(d) /\ Same(d) /\ header' = header
        BY <1>0, <1>6, <2>6 DEF HandshakeDone, Same, RgbTypeOK
      <3>2. d \in clients => told[d] = header /\ header # NoHeader
        BY <2>1, IdleSettled
      <3> QED BY <3>1, <3>2, ConnKept
    <2>7. Conn(c)'
      <3>1. /\ wire'[c] = <<>> /\ page'[c] = NewPage /\ peer'[c] = "open" /\ seq'[c] = 0
            /\ told'[c] = NoHeader /\ c \in clients'
        BY <1>0, <1>6, <2>1 DEF HandshakeDone, Conn, RgbTypeOK
      <3>2. Headed(<<>>, NoHeader) /\ InOrder(<<>>, 0) /\ NextAfter(<<>>, 0) = 0
        BY DEF Headed, InOrder, NextAfter
      <3> QED BY <2>4, <3>1, <3>2 DEF Conn, NewPage
    <2> QED BY <2>5, <2>6, <2>7
  <1>7. CASE Timer
    <2>1. \A c \in clients : ~HeaderPending(c)
      BY <1>7 DEF Timer, HeaderPending
    <2> QED BY <1>7, <1>a, <2>1, BroadcastKeeps DEF Timer
  <1>8. CASE NextCall
    <2>1. /\ \A c \in clients : ~HeaderPending(c)
          /\ job \in Jobs /\ job.calls \in 0..2
      BY <1>0, <1>8 DEF NextCall, HeaderPending, RgbTypeOK, Jobs
    <2>2. \/ job' = Idle
          \/ job.calls - 1 \in 0..2 /\ job' = BroadcastJob(job.calls - 1)
      BY <1>8, <2>1 DEF NextCall
    <2>3. UNCHANGED <<server, deviceVars, header, clients, seq, peer, wire, page, told>>
      BY <1>8 DEF NextCall
    <2> QED BY <1>a, <2>1, <2>2, <2>3, BroadcastKeeps
  <1>9. ASSUME NEW c \in Clients, Write(c)
        PROVE  HeaderInv' /\ \A d \in Clients : Conn(d)'
    <2>1. /\ Done(c) /\ job # Idle /\ c \in job.todo /\ header' = header
          /\ UNCHANGED <<server, deviceVars, clients>>
          /\ job'.kind = job.kind /\ job'.size = job.size
      BY <1>0, <1>9, DoneType DEF Write
    <2>2. HeaderInv'
      BY <1>0, <2>1, DoneType DEF HeaderInv, deviceVars
    <2>3. ASSUME NEW d \in Clients, d # c PROVE Conn(d)'
      <3>1. Same(d)
        BY <1>0, <1>9, <2>3 DEF Write, Numbered, Same, RgbTypeOK
      <3> QED BY <2>1, <2>3, <3>1, DoneKeeps
    <2> QED BY <1>9, <2>2, <2>3, WriteKeeps
  <1>10. ASSUME NEW c \in Clients, WriteFails(c)
         PROVE  HeaderInv' /\ \A d \in Clients : Conn(d)'
    <2>1. /\ Done(c) /\ job # Idle /\ c \in job.todo /\ header' = header
          /\ UNCHANGED <<server, deviceVars, wire, page>>
          /\ job'.kind = job.kind /\ job'.size = job.size
          /\ peer[c] \in {"closed", "reset"}
          /\ peer' = [peer EXCEPT ![c] = "absent"] /\ clients' = clients \ {c}
          /\ seq' = [seq EXCEPT ![c] = 0] /\ told' = [told EXCEPT ![c] = NoHeader]
      BY <1>0, <1>10, DoneType DEF WriteFails
    <2>2. HeaderInv'
      BY <1>0, <2>1 DEF HeaderInv, deviceVars
    <2>3. ASSUME NEW d \in Clients, d # c PROVE Conn(d)'
      <3>1. Same(d)
        BY <1>0, <2>1, <2>3 DEF Same, RgbTypeOK
      <3> QED BY <2>1, <2>3, <3>1, DoneKeeps
    <2>4. Conn(c)'
      BY <1>0, <2>1 DEF Conn, RgbTypeOK
    <2> QED BY <2>2, <2>3, <2>4
  <1>11. ASSUME NEW c \in Clients, Receive(c)
         PROVE  HeaderInv' /\ \A d \in Clients : Conn(d)'
    <2>1. HeaderInv'
      BY <1>0, <1>11 DEF Receive, HeaderInv, deviceVars
    <2>2. ASSUME NEW d \in Clients, d # c PROVE Conn(d)'
      <3>1. Same(d) /\ Conn(d) /\ header' = header /\ (HeaderPending(d)' <=> HeaderPending(d))
        BY <1>0, <1>11, <2>2 DEF Receive, Same, RgbTypeOK, HeaderPending
      <3> QED BY <3>1, Settled, ConnKept
    <2> QED BY <1>11, <2>1, <2>2, ReceiveKeeps
  <1>12. ASSUME NEW c \in Clients, CloseTab(c)
         PROVE  HeaderInv' /\ \A d \in Clients : Conn(d)'
    <2>1. HeaderInv'
      BY <1>0, <1>12 DEF CloseTab, HeaderInv, Conn, deviceVars, RgbTypeOK
    <2>2. ASSUME NEW d \in Clients, d # c PROVE Conn(d)'
      <3>1. Same(d) /\ Conn(d) /\ header' = header /\ (HeaderPending(d)' <=> HeaderPending(d))
        BY <1>0, <1>12, <2>2 DEF CloseTab, Same, RgbTypeOK, HeaderPending
      <3> QED BY <3>1, Settled, ConnKept
    <2>3. Conn(c)'
      <3>1. /\ wire'[c] = <<>> /\ page'[c] = NewPage /\ peer'[c] \in {"closed", "reset"}
            /\ clients' = clients /\ told' = told /\ header' = header /\ job' = job
        BY <1>0, <1>12 DEF CloseTab, RgbTypeOK
      <3>2. Headed(<<>>, NoHeader) /\ InOrder(<<>>, 0)
        BY DEF Headed, InOrder
      <3>3. c \in clients
        BY <1>0, <1>12 DEF CloseTab, Conn
      <3>4. HeaderPending(c)' <=> HeaderPending(c)
        BY <3>1 DEF HeaderPending
      <3> QED BY <1>0, <3>1, <3>2, <3>3, <3>4 DEF Conn, NewPage
    <2> QED BY <2>1, <2>2, <2>3
  <1>13. CASE UNCHANGED rgbVars
    BY <1>0, <1>13 DEF rgbVars, deviceVars, HeaderInv, Conn, HeaderPending
  <1> QED
    BY <1>1, <1>2, <1>3, <1>4, <1>5, <1>6, <1>7, <1>8, <1>9, <1>10, <1>11, <1>12, <1>13
    DEF RgbNext

\* ---- Theorems ---------------------------------------------------------------

\* What the callbacks of esp_rgb_ws.c know of the surface and of each client agrees
\* with what is on the wire.
THEOREM RgbInvariant == RgbSpec => []RgbInv
  BY InvInit, InvNext, PTL DEF RgbSpec

\* No page gets a frame before a header: not when it connects between a resize
\* and its announcement, nor while other clients are being served.
THEOREM FramesFollowHeader == RgbSpec => []FramesHaveHeader
  <1>1. RgbInv => FramesHaveHeader
    BY DEF RgbInv, Conn, FramesHaveHeader
  <1> QED BY <1>1, RgbInvariant, PTL

\* The frames between two headers are numbered without a gap on every
\* connection, whoever calls for the broadcasts, and past the counter's wrap.
THEOREM FramesNumbered == RgbSpec => []SeqContiguous
  <1>1. RgbInv => SeqContiguous
    BY DEF RgbInv, Conn, SeqContiguous
  <1> QED BY <1>1, RgbInvariant, PTL

\* Once a resize has been announced, every client has been told the new size or
\* is about to be, and a page that has read everything knows it.
THEOREM ClientsKnowSize == RgbSpec => []HeaderCurrent
  <1>1. ASSUME RgbInv, ~resized, NEW c \in clients
        PROVE  /\ HeaderPending(c) => job.size = size
               /\ ~HeaderPending(c) => told[c] = size
               /\ ~HeaderPending(c) /\ peer[c] = "open" /\ wire[c] = <<>>
                    => page[c].header = size
    <2>1. c \in Clients /\ Conn(c) /\ server = "listening" /\ header = size
      BY <1>1 DEF RgbInv, RgbTypeOK, HeaderInv
    <2>2. HeaderPending(c) => job.size = size
      BY <1>1, <2>1 DEF RgbInv, HeaderInv, HeaderPending
    <2>3. ~HeaderPending(c) => told[c] = size /\ told[c] # NoHeader
      BY <1>1, <2>1, Settled
    <2>4. wire[c] = <<>> /\ Knows(wire[c], page[c].header, told[c]) => page[c].header = told[c]
      BY DEF Knows
    <2> QED BY <2>1, <2>2, <2>3, <2>4 DEF Conn
  <1>2. RgbInv => HeaderCurrent
    BY <1>1 DEF HeaderCurrent
  <1> QED BY <1>2, RgbInvariant, PTL
=============================================================================
