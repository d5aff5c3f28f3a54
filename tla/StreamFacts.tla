---------------------------- MODULE StreamFacts ----------------------------
(***************************************************************************)
(* Facts about sequences of bytes that are cut into pieces, passed on and  *)
(* put together again: what a socket, a length prefix and a body hold.     *)
(***************************************************************************)
EXTENDS Naturals, Sequences, TLAPS

\* The length and the elements of what the framer and the socket hold together.
LEMMA Elements ==
  ASSUME NEW S, NEW h \in Seq(S), NEW d \in Seq(S), NEW s \in Seq(S)
  PROVE  /\ (h \o d) \o s \in Seq(S)
         /\ Len((h \o d) \o s) = Len(h) + Len(d) + Len(s)
         /\ \A i \in 1..Len(h) : ((h \o d) \o s)[i] = h[i]
         /\ \A i \in 1..Len(d) : ((h \o d) \o s)[Len(h) + i] = d[i]
         /\ \A i \in 1..Len(s) : ((h \o d) \o s)[Len(h) + Len(d) + i] = s[i]
  <1>1. /\ h \o d \in Seq(S) /\ Len(h \o d) = Len(h) + Len(d)
        /\ \A i \in 1..Len(h) : (h \o d)[i] = h[i]
        /\ \A i \in 1..Len(d) : (h \o d)[Len(h) + i] = d[i]
    OBVIOUS
  <1>2. /\ (h \o d) \o s \in Seq(S) /\ Len((h \o d) \o s) = Len(h \o d) + Len(s)
        /\ \A i \in 1..Len(h \o d) : ((h \o d) \o s)[i] = (h \o d)[i]
        /\ \A i \in 1..Len(s) : ((h \o d) \o s)[Len(h \o d) + i] = s[i]
    BY <1>1
  <1>3. Len(h) \in Nat /\ Len(d) \in Nat /\ Len(s) \in Nat
    OBVIOUS
  <1> QED BY <1>1, <1>2, <1>3

\* u is made of l bytes, d and s.
Made(u, l, d, s) ==
    /\ Len(u) = l + Len(d) + Len(s)
    /\ \A i \in 1..Len(d) : u[l + i] = d[i]
    /\ \A i \in 1..Len(s) : u[l + Len(d) + i] = s[i]

LEMMA MadeOf ==
  ASSUME NEW S, NEW h \in Seq(S), NEW d \in Seq(S), NEW s \in Seq(S)
  PROVE  Made((h \o d) \o s, Len(h), d, s)
  <1>1. /\ h \o d \in Seq(S) /\ Len(h \o d) = Len(h) + Len(d)
    OBVIOUS
  <1>2. /\ Len((h \o d) \o s) = Len(h \o d) + Len(s)
        /\ \A i \in 1..Len(h \o d) : ((h \o d) \o s)[i] = (h \o d)[i]
        /\ \A i \in 1..Len(s) : ((h \o d) \o s)[Len(h \o d) + i] = s[i]
    BY <1>1
  <1>3. \A i \in 1..Len(d) : ((h \o d) \o s)[Len(h) + i] = d[i]
    <2>1. \A i \in 1..Len(d) : Len(h) + i \in 1..Len(h \o d) /\ (h \o d)[Len(h) + i] = d[i]
      OBVIOUS
    <2> QED BY ONLY <1>2, <2>1, Zenon
  <1>4. /\ Len((h \o d) \o s) = Len(h) + Len(d) + Len(s)
        /\ \A i \in 1..Len(s) : ((h \o d) \o s)[Len(h) + Len(d) + i] = s[i]
    BY ONLY <1>1, <1>2, Zenon
  <1> QED BY <1>3, <1>4, Zenon DEF Made

\* A frame behind the bytes of a socket.
LEMMA Joined ==
  ASSUME NEW S, NEW a \in Seq(S), NEW b \in Seq(S)
  PROVE  /\ a \o b \in Seq(S) /\ Len(a \o b) = Len(a) + Len(b)
         /\ \A i \in 1..Len(a) : (a \o b)[i] = a[i]
         /\ \A i \in 1..Len(b) : (a \o b)[Len(a) + i] = b[i]
  OBVIOUS

\* The parts into which recv() cuts the bytes of a socket.
LEMMA Parts ==
  ASSUME NEW S, NEW s \in Seq(S), NEW n \in 0..Len(s)
  PROVE  /\ SubSeq(s, 1, n) \in Seq(S) /\ Len(SubSeq(s, 1, n)) = n
         /\ \A i \in 1..n : SubSeq(s, 1, n)[i] = s[i]
         /\ SubSeq(s, n + 1, Len(s)) \in Seq(S)
         /\ Len(SubSeq(s, n + 1, Len(s))) = Len(s) - n
         /\ \A i \in 1..(Len(s) - n) : SubSeq(s, n + 1, Len(s))[i] = s[n + i]
  OBVIOUS

\* The parts make up the whole,
LEMMA Cut ==
  ASSUME NEW S, NEW s \in Seq(S), NEW a \in Seq(S), NEW b \in Seq(S),
         Len(s) = Len(a) + Len(b),
         \A i \in 1..Len(a) : s[i] = a[i],
         \A i \in 1..Len(b) : s[Len(a) + i] = b[i]
  PROVE  a \o b = s
  <1>1. /\ Len(a) \in Nat /\ Len(b) \in Nat /\ Len(s) \in Nat
    OBVIOUS
  <1>2. /\ a \o b \in Seq(S) /\ Len(a \o b) = Len(s)
        /\ \A i \in 1..Len(a) : (a \o b)[i] = s[i]
        /\ \A i \in 1..Len(b) : (a \o b)[Len(a) + i] = s[Len(a) + i]
    OBVIOUS
  <1>3. ASSUME NEW i \in 1..Len(s) PROVE (a \o b)[i] = s[i]
    <2>1. CASE i \in 1..Len(a)
      BY <1>2, <2>1
    <2>2. CASE i \notin 1..Len(a)
      <3>1. i - Len(a) \in 1..Len(b) /\ Len(a) + (i - Len(a)) = i
        BY <1>1, <2>2
      <3>2. (a \o b)[Len(a) + (i - Len(a))] = s[Len(a) + (i - Len(a))]
        BY <1>2, <3>1
      <3> QED BY <3>1, <3>2
    <2> QED BY <2>1, <2>2
  <1> QED BY <1>2, <1>3

\* and the first of them may join the length prefix.
LEMMA MovedToHeader ==
  ASSUME NEW S, NEW h \in Seq(S), NEW a \in Seq(S), NEW b \in Seq(S)
  PROVE  ((h \o a) \o <<>>) \o b = (h \o <<>>) \o (a \o b)
  <1>1. h \o a \in Seq(S)
    OBVIOUS
  <1>2. (h \o a) \o b = h \o (a \o b)
    OBVIOUS
  <1>3. (h \o a) \o <<>> = h \o a /\ h \o <<>> = h
    BY <1>1
  <1> QED BY <1>2, <1>3

\* Two sequences of the same length and elements.
LEMMA SameElements ==
  ASSUME NEW S, NEW s \in Seq(S), NEW t \in Seq(S), Len(s) = Len(t),
         \A i \in 1..Len(s) : s[i] = t[i]
  PROVE  s = t
  OBVIOUS

\* A sequence with one element more.
LEMMA Grown ==
  ASSUME NEW S, NEW s \in Seq(S), NEW e \in S
  PROVE  /\ Append(s, e) \in Seq(S) /\ Len(Append(s, e)) = Len(s) + 1
         /\ DOMAIN Append(s, e) = 1..(Len(s) + 1) /\ Append(s, e) # <<>>
         /\ \A i \in 1..Len(s) : Append(s, e)[i] = s[i]
         /\ Append(s, e)[Len(s) + 1] = e
  OBVIOUS
\* Places counted from the byte after the first l.
LEMMA Window ==
  /\ \A l, i \in Nat : l + (i + 1) = (l + i) + 1
  /\ \A l, m, n, j \in Nat : \A i \in 1..m :
        m = n - l /\ j >= 1 /\ (l + i) + j - 1 <= n =>
        i + j - 1 \in 1..m /\ l + (i + j - 1) = (l + i) + j - 1
  OBVIOUS

\* Places counted from the end of the first l.
LEMMA Beyond ==
  /\ \A l, i \in Nat : i < l \/ i = l \/ i > l
  /\ \A l, w, m \in Nat : \A i \in 1..(m - 1) : m = l + w /\ i > l =>
       /\ i - l \in 1..w /\ (i - l) + 1 \in 1..w /\ l + (i - l) = i
       /\ l + ((i - l) + 1) = i + 1 /\ i - l < w
  OBVIOUS

\* Concatenation, under a name that is expanded only where its elements matter.
Glued(e, f) == e \o f

LEMMA Associative ==
  ASSUME NEW S
  PROVE  /\ \A e, f \in Seq(S) : Glued(e, f) \in Seq(S)
         /\ \A e, f, g \in Seq(S) : Glued(e, Glued(f, g)) = Glued(Glued(e, f), g)
  <1>1. \A e, f \in Seq(S) : Glued(e, f) \in Seq(S)
    BY DEF Glued
  <1>2. \A e, f, g \in Seq(S) : Glued(e, Glued(f, g)) = Glued(Glued(e, f), g)
    BY DEF Glued
  <1> QED BY <1>1, <1>2

\* What is received, n bytes of the socket q, joins the body or the prefix.
LEMMA Received ==
  ASSUME NEW S, NEW h \in Seq(S), NEW d \in Seq(S), NEW q \in Seq(S), NEW n \in 0..Len(q)
  PROVE  LET a == SubSeq(q, 1, n)
             b == SubSeq(q, n + 1, Len(q))
         IN  /\ (h \o (d \o a)) \o b = (h \o d) \o q
             /\ ((h \o a) \o <<>>) \o b = (h \o <<>>) \o q
  <1> DEFINE a == SubSeq(q, 1, n)
             b == SubSeq(q, n + 1, Len(q))
  <1>1. /\ a \in Seq(S) /\ Len(a) = n /\ b \in Seq(S)
        /\ Len(b) = Len(q) - n
        /\ \A i \in 1..n : a[i] = q[i]
        /\ \A i \in 1..(Len(q) - n) : b[i] = q[n + i]
    BY Parts
  <1> HIDE DEF a, b
  <1>2. Len(q) = Len(a) + Len(b)
    BY <1>1
  <1>3. /\ \A i \in 1..Len(a) : q[i] = a[i]
        /\ \A i \in 1..Len(b) : q[Len(a) + i] = b[i]
    BY <1>1
  <1>4. a \o b = q
    BY <1>1, <1>2, <1>3, Cut
  <1>5. a \in Seq(S) /\ b \in Seq(S)
    BY <1>1
  <1>6. (h \o (d \o a)) \o b = (h \o d) \o (a \o b)
    <2>1. h \o d \in Seq(S)
      OBVIOUS
    <2>2. h \o (d \o a) = (h \o d) \o a
      BY <1>5
    <2>3. \A e, f, g \in Seq(S) : (e \o f) \o g = e \o (f \o g)
      OBVIOUS
    <2>4. ((h \o d) \o a) \o b = (h \o d) \o (a \o b)
      BY ONLY <1>5, <2>1, <2>3, Zenon
    <2> QED BY ONLY <2>2, <2>4, Zenon
  <1>7. ((h \o a) \o <<>>) \o b = (h \o <<>>) \o (a \o b)
    BY <1>5, MovedToHeader
  <1> QED BY <1>4, <1>6, <1>7 DEF a, b

=============================================================================
