--------------------------- MODULE FbServerProofs ---------------------------
(***************************************************************************)
(* Proofs about the frame buffer server and its page, for every number of  *)
(* rows, every set of colours, and any number of messages on their way and *)
(* of connections lost.                                                    *)
(***************************************************************************)
EXTENDS FbServer, SequenceTheorems, TLAPS

\* A picture is sent only when it has been read to its last row.
WholePicture == srv \in {"init", "header", "payload"} => Len(rows) = Rows

\* Message number i, when it is a payload, comes right behind its header, which is
\* in front of it or has been received.
Announced(i) ==
    down[i].kind = "payload" =>
        IF i = 1 THEN pendingHeader = down[i].pic
        ELSE down[i - 1].kind = "header" /\ down[i - 1].pic = down[i].pic

\* The producer sends a payload right behind its header.
HeaderWaits ==
    conn /\ srv = "payload" =>
        IF down = <<>> THEN pendingHeader = rows
        ELSE down[Len(down)] = [kind |-> "header", pic |-> rows]

FbInv ==
    /\ FbTypeOK
    /\ WholePicture
    /\ \A i \in DOMAIN down : Announced(i)
    /\ HeaderWaits

\* ---- Sequences of messages ----------------------------------------------------

\* The rows read make a picture, once they are all there.
LEMMA RowsMakePicture ==
  ASSUME rows \in Seq(Colours), Len(rows) = Rows PROVE rows \in Pictures
  BY DEF Pictures

\* A message sent: the queue grows by one at its end.
LEMMA SendType ==
  ASSUME FbTypeOK, WholePicture, NEW kind \in {"init", "header", "payload"}, Send(kind)
  PROVE  /\ down' \in Seq(Messages) /\ Len(down') = Len(down) + 1
         /\ Len(down') <= Room
         /\ down'[Len(down')] = [kind |-> kind, pic |-> rows]
         /\ \A i \in DOMAIN down : down'[i] = down[i]
         /\ DOMAIN down' = DOMAIN down \cup {Len(down')}
         /\ rows \in Pictures
  <1>1. rows \in Pictures
    BY RowsMakePicture DEF FbTypeOK, WholePicture, Send
  <1>2. [kind |-> kind, pic |-> rows] \in Messages
    BY <1>1 DEF Messages
  <1>3. Len(down) \in Nat /\ Room \in Nat
    BY FbBoundAssumption DEF FbTypeOK
  <1>4. /\ down \in Seq(Messages) /\ Len(down) < Room
        /\ down' = Append(down, [kind |-> kind, pic |-> rows])
    BY DEF FbTypeOK, Send
  <1> QED BY <1>1, <1>2, <1>3, <1>4

\* ---- Initial states and steps ----------------------------------------------------

LEMMA FbInitial == FbInit => FbInv
  <1> SUFFICES ASSUME FbInit PROVE FbInv
    OBVIOUS
  <1>1. FbTypeOK
    <2>1. <<>> \in Seq(Colours) /\ <<>> \in Seq(Messages) /\ Len(<<>>) = 0
      OBVIOUS
    <2>2. 0 <= Rows /\ 0 <= Room /\ 0 \in 0..LossMax
      BY FbBoundAssumption, RowsAssumption
    <2>3. {file, last, pendingHeader, canvas} \subseteq Pictures \cup {None}
      BY DEF FbInit
    <2> QED BY <2>1, <2>2, <2>3 DEF FbInit, FbTypeOK
  <1> QED BY <1>1 DEF FbInit, FbInv, WholePicture, HeaderWaits, Announced

LEMMA FbTypes == FbInv /\ [FbNext]_fbVars => FbTypeOK'
  <1> SUFFICES ASSUME FbInv, [FbNext]_fbVars PROVE FbTypeOK'
    OBVIOUS
  <1>0. FbTypeOK /\ WholePicture /\ Room \in Nat /\ LossMax \in Nat /\ Rows \in Nat \ {0}
    BY FbBoundAssumption, RowsAssumption DEF FbInv
  <1>1. ASSUME NEW r \in 1..Rows, NEW colour \in Colours, Draw(r, colour) PROVE FbTypeOK'
    <2>1. file' \in Pictures
      BY <1>0, <1>1 DEF FbTypeOK, Draw, Pictures
    <2> QED BY <1>0, <1>1, <2>1 DEF FbTypeOK, Draw, producerVars, pageVars
  <1>2. ASSUME NEW n \in 0..Len(down), Lose(n) PROVE FbTypeOK'
    <2>1. down' \in Seq(Messages) /\ Len(down') <= Room
      BY <1>0, <1>2 DEF FbTypeOK, Lose
    <2>2. losses' \in 0..LossMax
      BY <1>0, <1>2 DEF FbTypeOK, Lose
    <2>3. {conn', init_sent'} \subseteq BOOLEAN
      BY <1>0, <1>2 DEF FbTypeOK, Lose, producerVars
    <2>4. UNCHANGED <<file, srv, rows, last, pendingHeader, canvas>>
      BY <1>2 DEF Lose, producerVars, pageVars
    <2> QED BY <1>0, <2>1, <2>2, <2>3, <2>4 DEF FbTypeOK
  <1>3. CASE Connect
    <2>1. rows' \in Seq(Colours) /\ Len(rows') <= Rows
      BY <1>0, <1>3 DEF Connect
    <2>2. {conn', init_sent'} \subseteq BOOLEAN /\ srv' = "read"
      BY <1>3 DEF Connect
    <2>3. {file', last', pendingHeader', canvas'} \subseteq Pictures \cup {None}
      BY <1>0, <1>3 DEF FbTypeOK, Connect, pageVars
    <2>4. UNCHANGED <<down, losses>>
      BY <1>3 DEF Connect
    <2> QED BY <1>0, <2>1, <2>2, <2>3, <2>4 DEF FbTypeOK
  <1>4. CASE ReadRow
    <2>1. file[Len(rows) + 1] \in Colours
      BY <1>0, <1>4 DEF FbTypeOK, ReadRow, Pictures
    <2> QED BY <1>0, <1>4, <2>1 DEF FbTypeOK, ReadRow, pageVars
  <1>5. CASE Compare
    <2>1. rows' \in Seq(Colours) /\ Len(rows') <= Rows
      <3>1. rows' = <<>> \/ rows' = rows
        BY <1>5 DEF Compare
      <3>2. CASE rows' = <<>>
        BY <1>0, <3>2
      <3>3. CASE rows' = rows
        BY <1>0, <3>3 DEF FbTypeOK
      <3> QED BY <3>1, <3>2, <3>3
    <2>2. srv' \in {"read", "init", "header"}
      BY <1>5 DEF Compare
    <2>3. UNCHANGED <<file, conn, last, init_sent, down, pendingHeader, canvas, losses>>
      BY <1>5 DEF Compare, pageVars
    <2>4. {file', last', pendingHeader', canvas'} \subseteq Pictures \cup {None}
      BY <1>0, <2>3 DEF FbTypeOK
    <2>5. {conn', init_sent'} \subseteq BOOLEAN
      BY <1>0, <2>3 DEF FbTypeOK
    <2>6. srv' \in {"none", "read", "init", "header", "payload"}
      BY <2>2
    <2>7. down' \in Seq(Messages) /\ Len(down') <= Room /\ losses' \in 0..LossMax
      BY <1>0, <2>3 DEF FbTypeOK
    <2> QED BY <2>1, <2>4, <2>5, <2>6, <2>7 DEF FbTypeOK
  <1>6. CASE SendInit
    BY <1>0, <1>6, SendType DEF FbTypeOK, SendInit, pageVars
  <1>7. CASE SendHeader
    BY <1>0, <1>7, SendType DEF FbTypeOK, SendHeader, pageVars
  <1>8. CASE SendPayload
    BY <1>0, <1>8, SendType DEF FbTypeOK, SendPayload, pageVars
  <1>9. CASE Receive
    <2>1. Head(down) \in Messages /\ Tail(down) \in Seq(Messages) /\ Len(Tail(down)) <= Room
      BY <1>0, <1>9 DEF FbTypeOK, Receive
    <2>2. Head(down).pic \in Pictures
      BY <2>1 DEF Messages
    <2>3. {pendingHeader', canvas'} \subseteq Pictures \cup {None}
      BY <1>0, <1>9, <2>2 DEF FbTypeOK, Receive
    <2> QED BY <1>0, <1>9, <2>1, <2>3 DEF FbTypeOK, Receive, producerVars
  <1>10. CASE UNCHANGED fbVars
    BY <1>0, <1>10 DEF FbTypeOK, fbVars, producerVars, pageVars
  <1> QED BY <1>1, <1>2, <1>3, <1>4, <1>5, <1>6, <1>7, <1>8, <1>9, <1>10
          DEF FbNext, Producer

LEMMA FbPictures == FbInv /\ [FbNext]_fbVars => WholePicture'
  <1> SUFFICES ASSUME FbInv, [FbNext]_fbVars PROVE WholePicture'
    OBVIOUS
  <1> USE DEF FbInv, WholePicture
  <1>1. ASSUME NEW r \in 1..Rows, NEW colour \in Colours, Draw(r, colour) PROVE WholePicture'
    BY <1>1 DEF Draw, producerVars
  <1>2. ASSUME NEW n \in 0..Len(down), Lose(n) PROVE WholePicture'
    BY <1>2 DEF Lose, producerVars
  <1>3. CASE Connect \/ ReadRow \/ Compare
    BY <1>3 DEF Connect, ReadRow, Compare
  <1>4. CASE SendInit \/ SendHeader \/ SendPayload
    BY <1>4 DEF SendInit, SendHeader, SendPayload, Send
  <1>5. CASE Receive \/ UNCHANGED fbVars
    BY <1>5 DEF Receive, fbVars, producerVars
  <1> QED BY <1>1, <1>2, <1>3, <1>4, <1>5 DEF FbNext, Producer

\* A queue and a pending header that stay as they are.
LEMMA QueueUnchanged ==
  ASSUME \A i \in DOMAIN down : Announced(i), UNCHANGED <<down, pendingHeader>>
  PROVE  \A i \in DOMAIN down' : Announced(i)'
  BY DEF Announced

\* A message that is no payload, or whose header is right in front of it.
LEMMA QueueGrows ==
  ASSUME FbInv, NEW kind \in {"init", "header", "payload"}, Send(kind),
         UNCHANGED pendingHeader, kind = "payload" => conn /\ srv = "payload"
  PROVE  \A i \in DOMAIN down' : Announced(i)'
  <1>0. FbTypeOK /\ WholePicture
    BY DEF FbInv
  <1> SUFFICES ASSUME NEW i \in DOMAIN down' PROVE Announced(i)'
    OBVIOUS
  <1>1. down \in Seq(Messages) /\ Len(down) \in Nat /\ DOMAIN down = 1..Len(down)
    BY <1>0 DEF FbTypeOK
  <1>2. CASE i \in DOMAIN down
    <2>1. Announced(i) /\ down'[i] = down[i]
      BY <1>0, <1>2, SendType DEF FbInv
    <2>2. i # 1 => i - 1 \in DOMAIN down /\ down'[i - 1] = down[i - 1]
      BY <1>0, <1>1, <1>2, SendType
    <2> QED BY <2>1, <2>2 DEF Announced
  <1>3. CASE i = Len(down') /\ kind = "payload"
    <2>1. HeaderWaits /\ conn /\ srv = "payload"
      BY <1>3 DEF FbInv
    <2>2. down'[i] = [kind |-> "payload", pic |-> rows] /\ i = Len(down) + 1
      BY <1>0, <1>3, SendType
    <2>3. CASE down = <<>>
      BY <2>1, <2>2, <2>3 DEF HeaderWaits, Announced
    <2>4. CASE down # <<>>
      <3>1. i - 1 \in DOMAIN down /\ i # 1
        BY <1>1, <2>2, <2>4
      <3>2. down'[i - 1] = [kind |-> "header", pic |-> rows]
        BY <1>0, <2>1, <2>2, <2>4, <3>1, SendType DEF HeaderWaits
      <3> QED BY <2>2, <3>1, <3>2 DEF Announced
    <2> QED BY <2>3, <2>4
  <1>4. CASE i = Len(down') /\ kind # "payload"
    BY <1>0, <1>4, SendType DEF Announced
  <1> QED BY <1>0, <1>2, <1>3, <1>4, SendType

\* What the page takes from the queue, and what is next then.
LEMMA Received ==
  ASSUME FbInv, Receive
  PROVE  (\A i \in DOMAIN down' : Announced(i)') /\ HeaderWaits'
  <1>0. down \in Seq(Messages) /\ down # <<>> /\ down' = Tail(down) /\ Len(down) \in Nat
    BY DEF FbInv, FbTypeOK, Receive
  <1>1. /\ DOMAIN down = 1..Len(down) /\ DOMAIN down' = 1..(Len(down) - 1)
        /\ Len(down') = Len(down) - 1 /\ Len(down) > 0
        /\ \A i \in DOMAIN down' : down'[i] = down[i + 1]
    BY <1>0
  <1>2. /\ Head(down) = down[1]
        /\ pendingHeader' = IF down[1].kind = "header" THEN down[1].pic
              ELSE IF down[1].kind = "payload" /\ pendingHeader # None THEN None
              ELSE pendingHeader
    BY <1>0 DEF Receive
  <1>3. ASSUME NEW i \in DOMAIN down' PROVE Announced(i)'
    <2>1. i + 1 \in DOMAIN down /\ i + 1 # 1 /\ (i + 1) - 1 = i /\ down'[i] = down[i + 1]
      BY <1>1, <1>3
    <2>2. down[i + 1].kind = "payload" =>
              down[i].kind = "header" /\ down[i].pic = down[i + 1].pic
      BY <2>1 DEF FbInv, Announced
    <2>3. CASE i = 1
      BY <1>2, <2>1, <2>2, <2>3 DEF Announced
    <2>4. CASE i # 1
      <3>1. i - 1 \in DOMAIN down' /\ down'[i - 1] = down[i]
        BY <1>1, <1>3, <2>4
      <3> QED BY <2>1, <2>2, <2>4, <3>1 DEF Announced
    <2> QED BY <2>3, <2>4
  <1>4. HeaderWaits'
    <2> SUFFICES ASSUME conn, srv = "payload"
                 PROVE  IF down' = <<>> THEN pendingHeader' = rows
                        ELSE down'[Len(down')] = [kind |-> "header", pic |-> rows]
      BY DEF Receive, HeaderWaits, producerVars
    <2>1. down[Len(down)] = [kind |-> "header", pic |-> rows]
      BY <1>0 DEF FbInv, HeaderWaits
    <2>2. CASE Len(down) = 1
      BY <1>0, <1>1, <1>2, <2>1, <2>2
    <2>3. CASE Len(down) # 1
      <3>1. Len(down') \in DOMAIN down' /\ down' # <<>> /\ Len(down') + 1 = Len(down)
        <4>1. Len(down') + 1 = Len(down) /\ Len(down') > 0 /\ Len(down') \in Nat
          BY <1>0, <1>1, <2>3
        <4>2. down' # <<>>
          BY <4>1
        <4> QED BY <1>1, <4>1, <4>2
      <3> QED BY <1>1, <2>1, <3>1
    <2> QED BY <2>2, <2>3
  <1> QED BY <1>3, <1>4

LEMMA FbQueue ==
  FbInv /\ [FbNext]_fbVars => (\A i \in DOMAIN down' : Announced(i)') /\ HeaderWaits'
  <1> SUFFICES ASSUME FbInv, [FbNext]_fbVars
               PROVE  (\A i \in DOMAIN down' : Announced(i)') /\ HeaderWaits'
    OBVIOUS
  <1>0. FbTypeOK /\ WholePicture /\ (\A i \in DOMAIN down : Announced(i)) /\ HeaderWaits
    BY DEF FbInv
  <1>1. ASSUME NEW r \in 1..Rows, NEW colour \in Colours, Draw(r, colour)
        PROVE  (\A i \in DOMAIN down' : Announced(i)') /\ HeaderWaits'
    BY <1>0, <1>1, QueueUnchanged DEF Draw, HeaderWaits, producerVars, pageVars
  <1>2. ASSUME NEW n \in 0..Len(down), Lose(n)
        PROVE  (\A i \in DOMAIN down' : Announced(i)') /\ HeaderWaits'
    <2>1. /\ down \in Seq(Messages) /\ Len(down) \in Nat
          /\ down' = SubSeq(down, 1, n) /\ UNCHANGED pendingHeader /\ ~conn'
      BY <1>0, <1>2 DEF FbTypeOK, Lose, pageVars
    <2>2. DOMAIN down' = 1..n /\ \A i \in 1..n : down'[i] = down[i] /\ i \in DOMAIN down
      BY <2>1
    <2>3. ASSUME NEW i \in DOMAIN down' PROVE Announced(i)'
      <3>1. Announced(i) /\ down'[i] = down[i] /\ i \in 1..n
        BY <1>0, <2>2, <2>3
      <3>2. i # 1 => i - 1 \in 1..n /\ down'[i - 1] = down[i - 1]
        BY <2>2, <3>1
      <3> QED BY <2>1, <3>1, <3>2 DEF Announced
    <2> QED BY <2>1, <2>3 DEF HeaderWaits
  <1>3. CASE Connect
    BY <1>0, <1>3, QueueUnchanged DEF Connect, HeaderWaits, pageVars
  <1>4. CASE ReadRow
    BY <1>0, <1>4, QueueUnchanged DEF ReadRow, HeaderWaits, pageVars
  <1>5. CASE Compare
    BY <1>0, <1>5, QueueUnchanged DEF Compare, HeaderWaits, pageVars
  <1>6. CASE SendInit
    <2>1. Send("init") /\ UNCHANGED pendingHeader /\ srv' = "header"
      BY <1>6 DEF SendInit, pageVars
    <2> QED BY <2>1, QueueGrows DEF HeaderWaits
  <1>7. CASE SendHeader
    <2>1. Send("header") /\ UNCHANGED <<pendingHeader, rows>>
      BY <1>7 DEF SendHeader, pageVars
    <2>2. HeaderWaits'
      <3>1. down'[Len(down')] = [kind |-> "header", pic |-> rows] /\ Len(down') = Len(down) + 1
        BY <1>0, <2>1, SendType
      <3>2. down' # <<>>
        BY <1>0, <3>1 DEF FbTypeOK
      <3> QED BY <2>1, <3>1, <3>2 DEF HeaderWaits
    <2> QED BY <2>1, <2>2, QueueGrows
  <1>8. CASE SendPayload
    <2>1. Send("payload") /\ UNCHANGED pendingHeader /\ srv' = "read" /\ conn /\ srv = "payload"
      BY <1>8 DEF SendPayload, Send, pageVars
    <2> QED BY <2>1, QueueGrows DEF HeaderWaits
  <1>9. CASE Receive
    BY <1>9, Received
  <1>10. CASE UNCHANGED fbVars
    BY <1>0, <1>10, QueueUnchanged DEF HeaderWaits, fbVars, producerVars, pageVars
  <1> QED BY <1>1, <1>2, <1>3, <1>4, <1>5, <1>6, <1>7, <1>8, <1>9, <1>10
          DEF FbNext, Producer

\* ---- Theorems --------------------------------------------------------------------

\* The inductive invariant.
THEOREM FbInvariant == FbSpec => []FbInv
  <1>1. FbInv /\ [FbNext]_fbVars => FbInv'
    BY FbTypes, FbPictures, FbQueue DEF FbInv
  <1> QED BY FbInitial, <1>1, PTL DEF FbSpec

\* The producer reads no more rows than there are, and sends no more than there is
\* room for (server.py:100-131).
THEOREM FbTypeCorrect == FbSpec => []FbTypeOK
  <1>1. FbInv => FbTypeOK
    BY DEF FbInv
  <1> QED BY FbInvariant, <1>1, PTL

\* A payload meets the header that announced it (main.js:154-165).
THEOREM PayloadMeetsHeader == FbSpec => []HeaderFitsPayload
  <1>1. FbInv => HeaderFitsPayload
    <2> SUFFICES ASSUME FbInv, down # <<>>, Head(down).kind = "payload"
                 PROVE  pendingHeader = Head(down).pic
      BY DEF HeaderFitsPayload
    <2>1. 1 \in DOMAIN down /\ Head(down) = down[1]
      BY DEF FbInv, FbTypeOK
    <2> QED BY <2>1 DEF FbInv, Announced
  <1> QED BY FbInvariant, <1>1, PTL
=============================================================================
