--------------------------- MODULE OutputStreamProofs ---------------------------
(***************************************************************************)
(* Proofs about module OutputStream: the size that demuxReader reads is    *)
(* the one that the daemon wrote, what is under way is always a number of  *)
(* whole frames, no byte is lost or doubled, the connection is accounted   *)
(* for, and the reader implements Pipe.                                    *)
(*                                                                         *)
(* The parts: numbers and headers; sequences of bytes; whole frames; the   *)
(* inductive invariant; what follows from it.                              *)
(***************************************************************************)
EXTENDS OutputStream, SequenceTheorems, WellFoundedInduction, TLAPS

--------------------------------------------------------------------------------
(***************************************************************************)
(* Numbers and headers.                                                    *)
(***************************************************************************)
\* A set of natural numbers has a least one.  The inductions below are by a
\* least counterexample: the provers cannot instantiate an induction rule.
LEMMA Least ==
  ASSUME NEW T, T \subseteq Nat, T # {}
  PROVE  \E x \in T : \A y \in T : x <= y
<1>1. IsWellFoundedOn(OpToRel(<, Nat), Nat)
  BY NatLessThanWellFounded
<1>2. PICK x \in T : \A y \in T : ~(<<y, x>> \in OpToRel(<, Nat))
  <2> HIDE DEF OpToRel
  <2> QED BY <1>1, WFMin
<1>3. \A y \in T : ~(y < x)
  BY <1>2 DEF OpToRel
<1> QED BY <1>3

\* f has the values of the places 0..k.
Places(k, f) ==
  f \in [0..k -> Nat] /\ f[0] = 1 /\ \A i \in 1..k : f[i] = Base * f[i - 1]

\* There is such a function, for any number of places.
LEMMA PlacesExist ==
  ASSUME NEW k \in Nat
  PROVE  \E f : Places(k, f)
<1> DEFINE T == {j \in Nat : ~\E f : Places(j, f)}
<1> SUFFICES ASSUME T # {} PROVE FALSE
  OBVIOUS
<1>1. PICK j \in T : \A i \in T : j <= i
  BY Least
<1>2. Places(0, [i \in 0..0 |-> 1])
  BY DEF Places
<1>3. j # 0
  BY <1>2
<1>4. j - 1 \in Nat /\ j - 1 \notin T
  BY <1>1, <1>3
<1>5. PICK f : Places(j - 1, f)
  BY <1>4
<1> DEFINE g == [i \in 0..j |-> IF i = j THEN Base * f[j - 1] ELSE f[i]]
<1>6. Base * f[j - 1] \in Nat
  BY <1>4, <1>5, StreamAssumption DEF Places
<1>7. g \in [0..j -> Nat]
  BY <1>4, <1>5, <1>6 DEF Places
<1>8. Places(j, g)
  <2>1. g[0] = 1
    BY <1>3, <1>4, <1>5 DEF Places
  <2>2. ASSUME NEW i \in 1..j PROVE g[i] = Base * g[i - 1]
    BY <1>3, <1>4, <1>5 DEF Places
  <2> QED BY <1>7, <2>1, <2>2 DEF Places
<1> QED BY <1>8

\* So Place, which is defined by recursion, has them.
LEMMA PlaceValues == Places(SizeLen, Place)
<1> DEFINE P(f) == f = [i \in 0..SizeLen |-> IF i = 0 THEN 1 ELSE Base * f[i - 1]]
<1>1. SizeLen \in Nat
  BY StreamAssumption
<1>2. PICK f : Places(SizeLen, f)
  BY <1>1, PlacesExist
<1>3. P(f)
  BY <1>1, <1>2 DEF Places
<1>4. Place = CHOOSE f_ : P(f_)
  BY DEF Place
<1>5. P(Place)
  <2> HIDE DEF P
  <2> QED BY <1>3, <1>4
<1> DEFINE T == {j \in 0..SizeLen : Place[j] \notin Nat}
<1>6. T = {}
  <2> SUFFICES ASSUME T # {} PROVE FALSE
    OBVIOUS
  <2>1. PICK j \in T : \A i \in T : j <= i
    <3>1. T \subseteq Nat
      BY <1>1
    <3> QED BY <3>1, Least
  <2>2. j # 0
    BY <1>1, <1>5
  <2>3. j - 1 \in 0..SizeLen /\ j - 1 \notin T
    BY <1>1, <2>1, <2>2
  <2>4. Place[j] = Base * Place[j - 1]
    BY <1>5, <2>2
  <2> QED BY <2>3, <2>4, StreamAssumption
<1>7. Place \in [0..SizeLen -> Nat]
  <2>1. \A j \in 0..SizeLen : Place[j] \in Nat
    BY <1>6
  <2> QED BY <1>5, <2>1
<1>8. Place[0] = 1 /\ \A i \in 1..SizeLen : Place[i] = Base * Place[i - 1]
  BY <1>1, <1>5
<1> QED BY <1>7, <1>8 DEF Places

\* A place counts for at least one.
LEMMA PlacePositive ==
  ASSUME NEW k \in 0..SizeLen
  PROVE  Place[k] \in Nat /\ Place[k] > 0
<1>1. SizeLen \in Nat /\ Base \in Nat /\ Base > 1
  BY StreamAssumption
<1> DEFINE T == {j \in 0..SizeLen : Place[j] = 0}
<1>2. T = {}
  <2> SUFFICES ASSUME T # {} PROVE FALSE
    OBVIOUS
  <2>1. PICK j \in T : \A i \in T : j <= i
    <3>1. T \subseteq Nat
      BY <1>1
    <3> QED BY <3>1, Least
  <2>2. j # 0
    BY <2>1, PlaceValues DEF Places
  <2>3. j - 1 \in 0..SizeLen /\ j - 1 \notin T
    BY <1>1, <2>1, <2>2
  <2>4. Place[j] = Base * Place[j - 1]
    BY <1>1, <2>2, PlaceValues DEF Places
  <2>5. Place[j - 1] \in Nat
    BY <2>3, PlaceValues DEF Places
  <2> QED BY <1>1, <2>3, <2>4, <2>5
<1>3. Place[k] \in Nat
  BY PlaceValues DEF Places
<1>4. Place[k] # 0
  BY <1>2
<1> QED BY <1>3, <1>4

\* Division by one place more, a digit at a time.
LEMMA NextDigit ==
  ASSUME NEW n \in Nat, NEW b \in Nat, NEW p \in Nat, b > 0, p > 0
  PROVE  n \div p = (n \div (b * p)) * b + ((n \div p) % b)
<1>1. (n \div p) \div b = n \div (b * p)
  OBVIOUS
<1>2. n \div p \in Nat
  OBVIOUS
<1>3. \A m \in Nat : m = (m \div b) * b + (m % b)
  OBVIOUS
<1> QED BY <1>1, <1>2, <1>3

\* What one byte of a header adds to the size: the size without the bytes
\* after it is the size so far times Base, and the byte.
LEMMA SizeByte ==
  ASSUME NEW n \in FrameSizes, NEW i \in 1..SizeLen
  PROVE  n \div Place[SizeLen - i]
           = (n \div Place[SizeLen - (i - 1)]) * Base
             + HeaderOf(n)[HeaderLen - SizeLen + i].val
<1>1. SizeLen \in Nat /\ HeaderLen \in Nat /\ SizeLen <= HeaderLen
      /\ Base \in Nat /\ Base > 0 /\ n \in Nat
  BY StreamAssumption
<1> DEFINE k == SizeLen - i
           p == Place[k]
<1>2. k \in 0..SizeLen /\ k + 1 \in 1..SizeLen /\ SizeLen - (i - 1) = k + 1
  BY <1>1
<1>3. p \in Nat /\ p > 0
  BY <1>2, PlacePositive
<1>4. Place[k + 1] = Base * p
  BY <1>2, PlaceValues DEF Places
<1>5. HeaderOf(n)[HeaderLen - SizeLen + i].val = (n \div p) % Base
  <2>1. HeaderLen - SizeLen + i \in 1..HeaderLen
    BY <1>1
  <2>2. HeaderLen - (HeaderLen - SizeLen + i) = k
    BY <1>1
  <2>3. ~(HeaderLen - SizeLen + i <= HeaderLen - SizeLen)
    BY <1>1
  <2> QED BY <2>1, <2>2, <2>3 DEF HeaderOf, Header
<1> HIDE DEF p, k
<1>6. n \div p = (n \div (Base * p)) * Base + ((n \div p) % Base)
  BY <1>1, <1>3, NextDigit
<1> QED BY <1>2, <1>4, <1>5, <1>6 DEF p, k

\* The size that demuxReader computes from the last bytes of a header
\* (stream.go:36) is the number of bytes that follow it.
THEOREM SizeRoundTrip ==
  ASSUME NEW n \in FrameSizes
  PROVE  SizeOf(HeaderOf(n)) = n
<1> DEFINE h == HeaderOf(n)
           P(f) == f = [i \in 0..SizeLen |->
                         IF i = 0 THEN 0
                         ELSE f[i - 1] * Base + h[HeaderLen - SizeLen + i].val]
           g == [i \in 0..SizeLen |-> n \div Place[SizeLen - i]]
<1>1. SizeLen \in Nat /\ SizeLen > 0 /\ n \in Nat /\ n < Place[SizeLen]
  BY PlacePositive, StreamAssumption
<1>2. g[0] = 0
  BY <1>1, PlacePositive
<1>3. \A i \in 1..SizeLen : g[i] = g[i - 1] * Base + h[HeaderLen - SizeLen + i].val
  BY <1>1, SizeByte
<1>4. P(g)
  <2>1. g = [i \in 0..SizeLen |-> g[i]]
    OBVIOUS
  <2>2. \A i \in 0..SizeLen :
          g[i] = IF i = 0 THEN 0
                 ELSE g[i - 1] * Base + h[HeaderLen - SizeLen + i].val
    <3> HIDE DEF g, h
    <3> QED BY <1>1, <1>2, <1>3
  <2> HIDE DEF g, h
  <2> QED BY <2>1, <2>2
<1>5. SizeOf(h) = (CHOOSE f : P(f))[SizeLen]
  BY DEF SizeOf
<1> DEFINE c == CHOOSE f : P(f)
<1>6. P(c)
  <2> HIDE DEF P
  <2> QED BY <1>4
<1> HIDE DEF c, g, h
<1> DEFINE T == {i \in 0..SizeLen : c[i] # g[i]}
<1>7. T = {}
  <2> SUFFICES ASSUME T # {} PROVE FALSE
    OBVIOUS
  <2>1. PICK j \in T : \A i \in T : j <= i
    <3>1. T \subseteq Nat
      BY <1>1
    <3> QED BY <3>1, Least
  <2>2. j # 0
    BY <1>1, <1>2, <1>6, <2>1
  <2>3. j - 1 \in 0..SizeLen /\ j - 1 \notin T
    BY <1>1, <2>1, <2>2
  <2>4. c[j] = c[j - 1] * Base + h[HeaderLen - SizeLen + j].val
    BY <1>6, <2>1, <2>2
  <2>5. g[j] = g[j - 1] * Base + h[HeaderLen - SizeLen + j].val
    BY <1>1, <1>3, <2>1, <2>2
  <2> QED BY <2>1, <2>3, <2>4, <2>5
<1>8. c[SizeLen] = g[SizeLen]
  BY <1>1, <1>7
<1>9. g[SizeLen] = n
  <2>1. Place[0] = 1
    BY PlaceValues DEF Places
  <2> QED BY <1>1, <2>1 DEF g
<1> QED BY <1>5, <1>8, <1>9 DEF c, h
--------------------------------------------------------------------------------
(***************************************************************************)
(* Sequences of bytes.                                                     *)
(***************************************************************************)
Frame(v, n) == HeaderOf(n) \o Payload(v, n)

Upto(n) == [i \in 1..n |-> i]

\* ConcatProperties of the library, for bytes.
LEMMA Joined ==
  ASSUME NEW s \in Seq(Bytes), NEW t \in Seq(Bytes)
  PROVE  /\ s \o t \in Seq(Bytes) /\ Len(s) \in Nat /\ Len(t) \in Nat
         /\ Len(s \o t) = Len(s) + Len(t)
         /\ \A i \in 1..Len(s) : (s \o t)[i] = s[i]
         /\ \A i \in 1..Len(t) : (s \o t)[Len(s) + i] = t[i]
  OBVIOUS

LEMMA NumbersJoined ==
  ASSUME NEW s \in Seq(Nat), NEW t \in Seq(Nat)
  PROVE  /\ s \o t \in Seq(Nat)
         /\ Len(s \o t) = Len(s) + Len(t)
         /\ \A i \in 1..Len(s) : (s \o t)[i] = s[i]
         /\ \A i \in 1..Len(t) : (s \o t)[Len(s) + i] = t[i]
  OBVIOUS

\* ConcatAssociative, for bytes.
Regroup(s, t, u) == (s \o t) \o u = s \o (t \o u)

LEMMA JoinedTwice ==
  ASSUME NEW s \in Seq(Bytes), NEW t \in Seq(Bytes), NEW u \in Seq(Bytes)
  PROVE  Regroup(s, t, u)
  BY ConcatAssociative DEF Regroup

LEMMA HeaderBytes ==
  ASSUME NEW n \in FrameSizes
  PROVE  /\ HeaderOf(n) \in Seq(Bytes) /\ Len(HeaderOf(n)) = HeaderLen
         /\ \A i \in 1..HeaderLen : ~HeaderOf(n)[i].data
<1> DEFINE d(i) == IF i <= HeaderLen - SizeLen THEN 1
                   ELSE (n \div Place[HeaderLen - i]) % Base
<1>1. HeaderLen \in Nat /\ SizeLen \in Nat /\ Base \in Nat /\ Base > 0 /\ n \in Nat
  BY StreamAssumption
<1>2. ASSUME NEW i \in 1..HeaderLen PROVE d(i) \in Nat
  <2>1. CASE i <= HeaderLen - SizeLen
    BY <2>1
  <2>2. CASE ~(i <= HeaderLen - SizeLen)
    <3>1. HeaderLen - i \in 0..SizeLen
      BY <1>1, <2>2
    <3>2. Place[HeaderLen - i] \in Nat /\ Place[HeaderLen - i] > 0
      BY <3>1, PlacePositive
    <3> DEFINE p == Place[HeaderLen - i]
    <3>3. p \in Nat /\ p > 0
      BY <3>2
    <3> HIDE DEF p
    <3>4. n \div p \in Nat
      BY <1>1, <3>3
    <3>5. (n \div p) % Base \in Nat
      BY <1>1, <3>4
    <3> QED BY <2>2, <3>5 DEF p
  <2> QED BY <2>1, <2>2
<1> HIDE DEF d
<1>3. HeaderOf(n) = [i \in 1..HeaderLen |-> [data |-> FALSE, val |-> d(i)]]
  BY DEF HeaderOf, Header, d
<1>4. \A i \in 1..HeaderLen : HeaderOf(n)[i] \in Bytes /\ ~HeaderOf(n)[i].data
  BY <1>2, <1>3 DEF Bytes
<1> QED BY <1>1, <1>3, <1>4

LEMMA PayloadBytes ==
  ASSUME NEW v \in Nat, NEW n \in Nat
  PROVE  /\ Payload(v, n) \in Seq(Bytes) /\ Len(Payload(v, n)) = n
         /\ \A i \in 1..n : /\ Payload(v, n)[i].data
                            /\ Payload(v, n)[i].val = v + i
                            /\ Payload(v, n)[i] = Data(v + i)
  BY DEF Payload, Data, Bytes

LEMMA FrameBytes ==
  ASSUME NEW v \in Nat, NEW n \in FrameSizes
  PROVE  Frame(v, n) \in Seq(Bytes) /\ Len(Frame(v, n)) = HeaderLen + n
<1>1. n \in Nat /\ HeaderLen \in Nat
  BY StreamAssumption
<1>2. /\ HeaderOf(n) \in Seq(Bytes) /\ Len(HeaderOf(n)) = HeaderLen
      /\ Payload(v, n) \in Seq(Bytes) /\ Len(Payload(v, n)) = n
  BY <1>1, HeaderBytes, PayloadBytes
<1>3. Frame(v, n) = HeaderOf(n) \o Payload(v, n)
  BY DEF Frame
<1> HIDE DEF Frame
<1> QED BY <1>2, <1>3, Joined

\* Two payloads that follow each other are one.
LEMMA PayloadsJoin ==
  ASSUME NEW v \in Nat, NEW m \in Nat, NEW n \in Nat
  PROVE  Payload(v, m) \o Payload(v + m, n) = Payload(v, m + n)
<1> DEFINE s == Payload(v, m)
           t == Payload(v + m, n)
           u == Payload(v, m + n)
<1>1. s \in Seq(Bytes) /\ Len(s) = m /\ \A i \in 1..m : s[i] = Data(v + i)
  BY PayloadBytes
<1>2. v + m \in Nat /\ m + n \in Nat
  OBVIOUS
<1>3. t \in Seq(Bytes) /\ Len(t) = n /\ \A i \in 1..n : t[i] = Data((v + m) + i)
  BY <1>2, PayloadBytes
<1>4. u \in Seq(Bytes) /\ Len(u) = m + n /\ \A i \in 1..(m + n) : u[i] = Data(v + i)
  BY <1>2, PayloadBytes
<1> HIDE DEF s, t, u
<1>5. /\ s \o t \in Seq(Bytes) /\ Len(s \o t) = m + n
      /\ \A i \in 1..m : (s \o t)[i] = s[i]
      /\ \A i \in 1..n : (s \o t)[m + i] = t[i]
  BY <1>1, <1>3, Joined
<1>6. ASSUME NEW i \in 1..(m + n) PROVE (s \o t)[i] = u[i]
  <2>1. CASE i <= m
    BY <1>5, <1>1, <1>4, <2>1
  <2>2. CASE ~(i <= m)
    <3>1. i - m \in 1..n /\ m + (i - m) = i /\ (v + m) + (i - m) = v + i
      BY <2>2
    <3>2. (s \o t)[i] = t[i - m]
      BY <1>5, <3>1
    <3> QED BY <1>3, <1>4, <3>1, <3>2
  <2> QED BY <2>1, <2>2
<1>7. s \o t = u
  BY <1>5, <1>6, <1>4, SeqEqual
<1> QED BY <1>7 DEF s, t, u

\* The rest of a payload.
LEMMA PayloadRest ==
  ASSUME NEW v \in Nat, NEW m \in Nat, NEW n \in 0..m
  PROVE  SubSeq(Payload(v, m), n + 1, m) = Payload(v + n, m - n)
<1> DEFINE s == Payload(v, m)
           t == Payload(v + n, m - n)
           r == SubSeq(s, n + 1, m)
<1>1. v + n \in Nat /\ m - n \in Nat
  OBVIOUS
<1>2. s \in Seq(Bytes) /\ Len(s) = m /\ \A i \in 1..m : s[i] = Data(v + i)
  BY PayloadBytes
<1>3. /\ t \in Seq(Bytes) /\ Len(t) = m - n
      /\ \A i \in 1..(m - n) : t[i] = Data((v + n) + i)
  BY <1>1, PayloadBytes
<1>4. /\ s \in Seq(Bytes) /\ Len(s) = m /\ \A i \in 1..m : s[i] = Data(v + i)
      /\ t \in Seq(Bytes) /\ Len(t) = m - n
      /\ \A i \in 1..(m - n) : t[i] = Data((v + n) + i)
  BY <1>2, <1>3
<1> HIDE DEF s, t
<1>5. \A i \in (n + 1)..m : s[i] \in Bytes
  BY <1>4
<1>6. /\ r \in Seq(Bytes) /\ Len(r) = m - n
      /\ \A i \in 1..(m - n) : r[i] = s[n + i]
  <2>1. Len(r) = IF n + 1 <= m THEN m - (n + 1) + 1 ELSE 0
    BY <1>5, SubSeqProperties
  <2>2. \A i \in 1..m - (n + 1) + 1 : r[i] = s[(n + 1) + i - 1]
    BY <1>5, SubSeqProperties
  <2>3. r \in Seq(Bytes)
    BY <1>5, SubSeqProperties
  <2> QED BY <2>1, <2>2, <2>3
<1>7. \A i \in 1..(m - n) : r[i] = t[i]
  BY <1>4, <1>6
<1>8. r = t
  BY <1>4, <1>6, <1>7, SeqEqual
<1> QED BY <1>8 DEF s, t

\* What a read takes and what it leaves.
LEMMA Cut ==
  ASSUME NEW w \in Seq(Bytes), NEW n \in 0..Len(w)
  PROVE  /\ SubSeq(w, 1, n) \in Seq(Bytes) /\ Len(SubSeq(w, 1, n)) = n
         /\ \A i \in 1..n : SubSeq(w, 1, n)[i] = w[i]
         /\ SubSeq(w, n + 1, Len(w)) \in Seq(Bytes)
         /\ Len(SubSeq(w, n + 1, Len(w))) = Len(w) - n
         /\ SubSeq(w, 1, n) \o SubSeq(w, n + 1, Len(w)) = w
<1>1. Len(w) \in Nat /\ \A i \in 1..Len(w) : w[i] \in Bytes
  OBVIOUS
<1>2. \A i \in 1..n : w[i] \in Bytes
  BY <1>1
<1>3. \A i \in (n + 1)..Len(w) : w[i] \in Bytes
  BY <1>1
<1>4. /\ SubSeq(w, 1, n) \in Seq(Bytes) /\ Len(SubSeq(w, 1, n)) = n
      /\ \A i \in 1..n : SubSeq(w, 1, n)[i] = w[i]
  BY <1>1, <1>2, SubSeqProperties
<1>5. /\ SubSeq(w, n + 1, Len(w)) \in Seq(Bytes)
      /\ Len(SubSeq(w, n + 1, Len(w))) = Len(w) - n
  BY <1>1, <1>3, SubSeqProperties
<1>6. SubSeq(w, 1, n) \o SubSeq(w, n + 1, Len(w)) = SubSeq(w, 1, Len(w))
  <2>1. 1 \in 1..Len(w) + 1 /\ n \in (1 - 1)..Len(w) /\ Len(w) \in n..Len(w)
    BY <1>1
  <2> QED BY <2>1, ConcatAdjacentSubSeq
<1> QED BY <1>4, <1>5, <1>6, SubSeqFull

\* Two ways to cut one sequence at the same place are one.
LEMMA SameCut ==
  ASSUME NEW a \in Seq(Bytes), NEW b \in Seq(Bytes),
         NEW c \in Seq(Bytes), NEW d \in Seq(Bytes),
         a \o b = c \o d, Len(a) = Len(c)
  PROVE  a = c /\ b = d
<1>1. Len(a) + Len(b) = Len(c) + Len(d)
  <2>1. Len(a \o b) = Len(a) + Len(b)
    BY Joined
  <2>2. Len(c \o d) = Len(c) + Len(d)
    BY Joined
  <2> QED BY <2>1, <2>2
<1>2. ASSUME NEW i \in 1..Len(a) PROVE a[i] = c[i]
  <2>1. (a \o b)[i] = a[i] /\ (c \o d)[i] = c[i]
    BY Joined
  <2> QED BY <2>1
<1>3. a = c
  BY <1>2, SeqEqual
<1>4. ASSUME NEW i \in 1..Len(b) PROVE b[i] = d[i]
  <2>1. (a \o b)[Len(a) + i] = b[i]
    BY Joined
  <2>2. i \in 1..Len(d)
    BY <1>1
  <2>3. (c \o d)[Len(c) + i] = d[i]
    BY <2>2, Joined
  <2> QED BY <2>1, <2>3
<1>5. b = d
  BY <1>1, <1>4, SeqEqual
<1> QED BY <1>3, <1>5
--------------------------------------------------------------------------------
(***************************************************************************)
(* The order of the data, and whole frames.                                *)
(***************************************************************************)
\* A header has no data.
LEMMA HeaderInOrder ==
  ASSUME NEW v \in Nat, NEW n \in FrameSizes
  PROVE  InOrder(HeaderOf(n), v, v)
<1>1. HeaderOf(n) \in Seq(Bytes) /\ \A i \in DOMAIN HeaderOf(n) : ~HeaderOf(n)[i].data
  BY HeaderBytes
<1>2. DataAt(HeaderOf(n)) = {}
  BY <1>1 DEF DataAt
<1>3. (v + 1)..v = {}
  OBVIOUS
<1> QED BY <1>2, <1>3 DEF InOrder

\* A payload is data in order.
LEMMA PayloadInOrder ==
  ASSUME NEW v \in Nat, NEW n \in Nat
  PROVE  InOrder(Payload(v, n), v, v + n)
<1> DEFINE s == Payload(v, n)
<1>1. /\ s \in Seq(Bytes) /\ Len(s) = n
      /\ \A i \in 1..n : s[i].data /\ s[i].val = v + i
  BY PayloadBytes
<1> HIDE DEF s
<1>2. DataAt(s) = 1..n
  BY <1>1 DEF DataAt
<1>3. {s[i].val : i \in 1..n} = (v + 1)..(v + n)
  <2>1. ASSUME NEW x \in (v + 1)..(v + n) PROVE x \in {s[i].val : i \in 1..n}
    <3>1. x - v \in 1..n /\ v + (x - v) = x
      BY <2>1
    <3> QED BY <1>1, <3>1
  <2>2. ASSUME NEW i \in 1..n PROVE s[i].val \in (v + 1)..(v + n)
    BY <1>1
  <2> QED BY <2>1, <2>2
<1>4. \A i, j \in 1..n : i < j => s[i].val < s[j].val
  BY <1>1
<1> QED BY <1>2, <1>3, <1>4 DEF InOrder, s

\* So is what follows data in order.
LEMMA InOrderJoin ==
  ASSUME NEW s \in Seq(Bytes), NEW t \in Seq(Bytes),
         NEW u \in Nat, NEW v \in Nat, NEW w \in Nat,
         InOrder(s, u, v), InOrder(t, v, w)
  PROVE  InOrder(s \o t, u, w)
<1> DEFINE r == s \o t
<1>1. /\ r \in Seq(Bytes) /\ Len(s) \in Nat /\ Len(t) \in Nat
      /\ Len(r) = Len(s) + Len(t)
      /\ \A i \in 1..Len(s) : r[i] = s[i]
      /\ \A i \in 1..Len(t) : r[Len(s) + i] = t[i]
  BY Joined
<1> HIDE DEF r
<1>2. DataAt(s) \subseteq 1..Len(s) /\ DataAt(t) \subseteq 1..Len(t)
      /\ DataAt(r) \subseteq 1..(Len(s) + Len(t))
  BY <1>1 DEF DataAt
<1>3. ASSUME NEW i \in DataAt(r)
      PROVE  \/ i \in DataAt(s) /\ r[i] = s[i]
             \/ \E j \in DataAt(t) : i = Len(s) + j /\ r[i] = t[j]
  <2>1. CASE i <= Len(s)
    <3>1. i \in 1..Len(s)
      BY <1>1, <1>2, <2>1
    <3> QED BY <1>1, <3>1 DEF DataAt
  <2>2. CASE ~(i <= Len(s))
    <3>1. i - Len(s) \in 1..Len(t) /\ i = Len(s) + (i - Len(s))
      BY <1>1, <1>2, <2>2
    <3>2. r[i] = t[i - Len(s)]
      BY <1>1, <3>1
    <3>3. i - Len(s) \in DataAt(t)
      BY <3>1, <3>2 DEF DataAt
    <3> QED BY <3>1, <3>2, <3>3
  <2> QED BY <1>1, <1>2, <2>1, <2>2
<1>4. ASSUME NEW i \in DataAt(s) PROVE i \in DataAt(r) /\ r[i] = s[i]
  <2>1. i \in 1..Len(s) /\ i \in 1..Len(r)
    BY <1>1, <1>2
  <2> QED BY <1>1, <2>1 DEF DataAt
<1>5. ASSUME NEW i \in DataAt(t)
      PROVE  Len(s) + i \in DataAt(r) /\ r[Len(s) + i] = t[i]
  <2>1. i \in 1..Len(t) /\ Len(s) + i \in 1..Len(r)
    BY <1>1, <1>2
  <2> QED BY <1>1, <2>1 DEF DataAt
<1>6. /\ u <= v /\ {s[i].val : i \in DataAt(s)} = (u + 1)..v
      /\ \A i, j \in DataAt(s) : i < j => s[i].val < s[j].val
  BY DEF InOrder
<1>7. /\ v <= w /\ {t[i].val : i \in DataAt(t)} = (v + 1)..w
      /\ \A i, j \in DataAt(t) : i < j => t[i].val < t[j].val
  BY DEF InOrder
<1>8. \A i \in DataAt(s) : s[i].val \in (u + 1)..v
  BY <1>6
<1>9. \A i \in DataAt(t) : t[i].val \in (v + 1)..w
  BY <1>7
<1>10. {r[i].val : i \in DataAt(r)} = (u + 1)..w
  <2>1. ASSUME NEW i \in DataAt(r) PROVE r[i].val \in (u + 1)..w
    BY <1>3, <1>6, <1>7, <1>8, <1>9
  <2>2. ASSUME NEW x \in (u + 1)..w PROVE \E i \in DataAt(r) : x = r[i].val
    <3>1. CASE x <= v
      <4>1. x \in (u + 1)..v
        BY <3>1
      <4>2. PICK i \in DataAt(s) : x = s[i].val
        BY <1>6, <4>1
      <4> QED BY <1>4, <4>2
    <3>2. CASE ~(x <= v)
      <4>1. x \in (v + 1)..w
        BY <3>2
      <4>2. PICK i \in DataAt(t) : x = t[i].val
        BY <1>7, <4>1
      <4> QED BY <1>5, <4>2
    <3> QED BY <3>1, <3>2
  <2> QED BY <2>1, <2>2
<1>11. ASSUME NEW i \in DataAt(r), NEW j \in DataAt(r), i < j
       PROVE  r[i].val < r[j].val
  <2>1. CASE i \in DataAt(s) /\ r[i] = s[i]
    <3>1. CASE j \in DataAt(s) /\ r[j] = s[j]
      BY <1>6, <1>11, <2>1, <3>1
    <3>2. CASE \E k \in DataAt(t) : j = Len(s) + k /\ r[j] = t[k]
      <4>1. PICK k \in DataAt(t) : r[j] = t[k]
        BY <3>2
      <4>2. s[i].val \in (u + 1)..v /\ t[k].val \in (v + 1)..w
        BY <1>8, <1>9, <2>1
      <4> QED BY <2>1, <4>1, <4>2
    <3> QED BY <1>3, <3>1, <3>2
  <2>2. CASE \E k \in DataAt(t) : i = Len(s) + k /\ r[i] = t[k]
    <3>1. PICK k \in DataAt(t) : i = Len(s) + k /\ r[i] = t[k]
      BY <2>2
    <3>2. k \in 1..Len(t)
      BY <1>2
    <3>3. ~(j \in DataAt(s))
      BY <1>1, <1>2, <1>11, <3>1, <3>2
    <3>4. PICK m \in DataAt(t) : j = Len(s) + m /\ r[j] = t[m]
      BY <1>3, <3>3
    <3>5. k < m
      BY <1>1, <1>2, <1>11, <3>1, <3>4
    <3> QED BY <1>7, <3>1, <3>4, <3>5
  <2> QED BY <1>3, <2>1, <2>2
<1>12. u <= w
  BY <1>6, <1>7
<1> QED BY <1>10, <1>11, <1>12 DEF InOrder, r

\* A set of parts of a stream, each with the numbers of the bytes before and
\* after it, that is closed under taking off a frame.
Parsed(S) ==
  /\ S \in SUBSET (Seq(Bytes) \X Nat \X Nat)
  /\ \A s \in Seq(Bytes), v, w \in Nat : <<s, v, w>> \in S =>
       /\ InOrder(s, v, w)
       /\ \/ s = <<>> /\ v = w
          \/ \E n \in FrameSizes, r \in Seq(Bytes) :
               s = Frame(v, n) \o r /\ <<r, v + n, w>> \in S

\* s is whole frames, with what the command wrote after its first v bytes up
\* to its first w.
Framed(s, v, w) == \E S : Parsed(S) /\ <<s, v, w>> \in S

LEMMA FramedInOrder ==
  ASSUME NEW s \in Seq(Bytes), NEW v \in Nat, NEW w \in Nat, Framed(s, v, w)
  PROVE  InOrder(s, v, w)
  BY DEF Framed, Parsed

\* Nothing is whole frames.
LEMMA FramedEmpty ==
  ASSUME NEW v \in Nat
  PROVE  Framed(<<>>, v, v)
<1> DEFINE S == {x \in Seq(Bytes) \X Nat \X Nat : x = << <<>>, v, v >>}
<1>1. InOrder(<<>>, v, v)
  <2>1. DataAt(<<>>) = {}
    BY DEF DataAt
  <2>2. (v + 1)..v = {}
    OBVIOUS
  <2> QED BY <2>1, <2>2 DEF InOrder
<1>2. <<>> \in Seq(Bytes)
  OBVIOUS
<1>3. << <<>>, v, v >> \in S
  BY <1>2
<1>4. ASSUME NEW r \in Seq(Bytes), NEW a \in Nat, NEW b \in Nat, <<r, a, b>> \in S
      PROVE  r = <<>> /\ a = v /\ b = v
  BY <1>4
<1>5. S \in SUBSET (Seq(Bytes) \X Nat \X Nat)
  OBVIOUS
<1> HIDE DEF S
<1>6. Parsed(S)
  BY <1>1, <1>4, <1>5 DEF Parsed
<1> QED BY <1>3, <1>6 DEF Framed

\* Whole frames, if there are any, begin with one.
LEMMA FramedFirst ==
  ASSUME NEW s \in Seq(Bytes), NEW v \in Nat, NEW w \in Nat,
         Framed(s, v, w), s # <<>> \/ v # w
  PROVE  \E n \in FrameSizes, r \in Seq(Bytes) :
           s = Frame(v, n) \o r /\ Framed(r, v + n, w)
<1>1. PICK S : Parsed(S) /\ <<s, v, w>> \in S
  BY DEF Framed
<1>2. PICK n \in FrameSizes, r \in Seq(Bytes) :
        s = Frame(v, n) \o r /\ <<r, v + n, w>> \in S
  BY <1>1 DEF Parsed
<1> QED BY <1>1, <1>2 DEF Framed

\* What the command wrote takes bytes.
LEMMA FramedSome ==
  ASSUME NEW s \in Seq(Bytes), NEW v \in Nat, NEW w \in Nat,
         Framed(s, v, w), v # w
  PROVE  s # <<>>
<1>1. \A n \in FrameSizes, r \in Seq(Bytes) : Frame(v, n) \o r # <<>>
  <2> TAKE n \in FrameSizes, r \in Seq(Bytes)
  <2>1. Frame(v, n) \in Seq(Bytes) /\ Len(Frame(v, n)) > 0
    BY FrameBytes, StreamAssumption
  <2>2. Len(Frame(v, n) \o r) > 0
    BY <2>1, Joined
  <2> QED BY <2>2
<1>2. PICK n \in FrameSizes, r \in Seq(Bytes) :
        s = Frame(v, n) \o r /\ Framed(r, v + n, w)
  BY FramedFirst, Zenon
<1> QED BY <1>1, <1>2

\* A frame after whole frames.
LEMMA FramedAppend ==
  ASSUME NEW s \in Seq(Bytes), NEW v \in Nat, NEW w \in Nat,
         Framed(s, v, w), NEW n \in FrameSizes
  PROVE  Framed(s \o Frame(w, n), v, w + n)
<1> DEFINE f == Frame(w, n)
<1>1. PICK S : Parsed(S) /\ <<s, v, w>> \in S
  BY DEF Framed
<1>2. n \in Nat /\ w + n \in Nat
  BY StreamAssumption
<1>3. f \in Seq(Bytes)
  BY FrameBytes
<1>4. InOrder(f, w, w + n)
  <2>1. HeaderOf(n) \in Seq(Bytes) /\ Payload(w, n) \in Seq(Bytes)
    BY <1>2, HeaderBytes, PayloadBytes
  <2>2. InOrder(HeaderOf(n), w, w) /\ InOrder(Payload(w, n), w, w + n)
    BY <1>2, HeaderInOrder, PayloadInOrder
  <2> QED BY <1>2, <2>1, <2>2, InOrderJoin DEF Frame
<1> HIDE DEF f
<1> DEFINE T == {x \in Seq(Bytes) \X Nat \X Nat :
                   \/ x[1] = <<>> /\ x[2] = w + n /\ x[3] = w + n
                   \/ /\ x[3] = w + n
                      /\ \E q \in Seq(Bytes) : x[1] = q \o f /\ <<q, x[2], w>> \in S}
<1>5. \A r \in Seq(Bytes) : r \o f \in Seq(Bytes)
  BY <1>3, Joined
<1>6. T \in SUBSET (Seq(Bytes) \X Nat \X Nat)
  OBVIOUS
<1>7. \A r \in Seq(Bytes), a \in Nat : <<r, a, w>> \in S => <<r \o f, a, w + n>> \in T
  <2> TAKE r \in Seq(Bytes), a \in Nat
  <2> HAVE <<r, a, w>> \in S
  <2>1. <<r \o f, a, w + n>> \in Seq(Bytes) \X Nat \X Nat
    BY <1>2, <1>5
  <2> QED BY <2>1
<1>8. \A r \in Seq(Bytes), a, b \in Nat : <<r, a, b>> \in T =>
        \/ r = <<>> /\ a = w + n /\ b = w + n
        \/ b = w + n /\ \E q \in Seq(Bytes) : r = q \o f /\ <<q, a, w>> \in S
  OBVIOUS
<1>9. \A e \in Seq(Bytes) : e = <<>> => <<e, w + n, w + n>> \in T
  <2> TAKE e \in Seq(Bytes)
  <2> HAVE e = <<>>
  <2>1. <<e, w + n, w + n>> \in Seq(Bytes) \X Nat \X Nat
    BY <1>2
  <2> QED BY <2>1
<1> HIDE DEF T
<1>10. Parsed(T)
  <2> SUFFICES ASSUME NEW r \in Seq(Bytes), NEW a \in Nat, NEW b \in Nat,
                      <<r, a, b>> \in T
               PROVE  /\ InOrder(r, a, b)
                      /\ \/ r = <<>> /\ a = b
                         \/ \E k \in FrameSizes, t \in Seq(Bytes) :
                              r = Frame(a, k) \o t /\ <<t, a + k, b>> \in T
    BY <1>6 DEF Parsed
  <2>1. CASE r = <<>> /\ a = w + n /\ b = w + n
    <3>1. <<>> \in Seq(Bytes) /\ Framed(<<>>, w + n, w + n)
      BY <1>2, FramedEmpty
    <3>2. InOrder(<<>>, w + n, w + n)
      BY <1>2, <3>1, FramedInOrder
    <3> QED BY <2>1, <3>2
  <2>2. CASE b = w + n /\ \E q \in Seq(Bytes) : r = q \o f /\ <<q, a, w>> \in S
    <3>1. PICK q \in Seq(Bytes) : r = q \o f /\ <<q, a, w>> \in S
      BY <2>2
    <3>2. /\ InOrder(q, a, w)
          /\ \/ q = <<>> /\ a = w
             \/ \E k \in FrameSizes, t \in Seq(Bytes) :
                  q = Frame(a, k) \o t /\ <<t, a + k, w>> \in S
      BY <1>1, <3>1 DEF Parsed
    <3>3. InOrder(r, a, b)
      BY <1>2, <1>3, <1>4, <2>2, <3>1, <3>2, InOrderJoin
    <3>4. CASE q = <<>> /\ a = w
      <4>1. r = f /\ f \o <<>> = f
        BY <1>3, <3>1, <3>4
      <4>2. r = Frame(a, n) \o q
        BY <3>4, <4>1 DEF f
      <4>3. <<q, a + n, b>> \in T
        BY <1>9, <2>2, <3>4
      <4> QED BY <3>3, <4>2, <4>3
    <3>5. CASE \E k \in FrameSizes, t \in Seq(Bytes) :
                 q = Frame(a, k) \o t /\ <<t, a + k, w>> \in S
      <4>1. PICK k \in FrameSizes, t \in Seq(Bytes) :
              q = Frame(a, k) \o t /\ <<t, a + k, w>> \in S
        BY <3>5
      <4>2. Frame(a, k) \in Seq(Bytes) /\ a + k \in Nat
        BY FrameBytes, StreamAssumption
      <4>3. r = Frame(a, k) \o (t \o f)
        <5> DEFINE g == Frame(a, k)
        <5>1. g \in Seq(Bytes)
          BY <4>2
        <5>2. r = (g \o t) \o f
          BY <3>1, <4>1
        <5> HIDE DEF g
        <5>3. Regroup(g, t, f)
          BY <1>3, <5>1, JoinedTwice
        <5> QED BY <5>2, <5>3 DEF g, Regroup
      <4>4. t \o f \in Seq(Bytes) /\ <<t \o f, a + k, b>> \in T
        BY <1>5, <1>7, <2>2, <4>1, <4>2
      <4> QED BY <3>3, <4>3, <4>4
    <3> QED BY <3>2, <3>4, <3>5
  <2> QED BY <1>8, <2>1, <2>2
<1>11. <<s \o f, v, w + n>> \in T
  BY <1>1, <1>7
<1> QED BY <1>10, <1>11 DEF Framed, f
--------------------------------------------------------------------------------
(***************************************************************************)
(* The inductive invariant.                                                *)
(***************************************************************************)
\* What lies ahead of demuxReader.  Between frames, whole frames; inside one,
\* the rest of it and then whole frames.
Ahead ==
  IF size = 0
  THEN Framed(part \o wire, Len(got) + Len(buf), written)
  ELSE /\ buf = <<>>
       /\ \E r \in Seq(Bytes) : /\ part \o wire = Payload(Len(got), size) \o r
                                /\ Framed(r, Len(got) + size, written)

StreamInv ==
  /\ got = Upto(Len(got))
  /\ buf = Payload(Len(got), Len(buf))
  /\ Len(part) < Need
  /\ tty => Len(got) <= written /\ wire = Payload(Len(got), written - Len(got))
  /\ ~tty => Ahead

\* A Read is under way only before the first error, Logs takes none of the
\* ways of Exec to a reader, and the NopCloser is only what a call returns.
Control ==
  /\ room > 0 => last = "nil"
  /\ src = "logs" => body = "stream" /\ pc \in {"get"} \cup Returned
  /\ body = "nop" => pc = "ok"

IInv == TypeOK /\ StreamInv /\ Control /\ ConnAccounted

LEMMA Constants ==
  /\ HeaderLen \in Nat /\ HeaderLen > 0
  /\ FrameSizes \subseteq Nat /\ ReadSizes \subseteq Nat \ {0} /\ MaxFrames \in Nat
<1>1. Place[SizeLen] \in Nat
  BY PlacePositive, StreamAssumption
<1> QED BY <1>1, StreamAssumption

LEMMA MinOf ==
  ASSUME NEW a \in Nat, NEW b \in Nat
  PROVE  Min({a, b}) = IF a <= b THEN a ELSE b
  BY DEF Min

LEMMA MaxOf ==
  ASSUME NEW a \in Nat, NEW b \in Nat
  PROVE  Max({a, b}) = IF a <= b THEN b ELSE a
  BY DEF Max

\* The numbers of the bytes in s are those after the first v.
LEMMA ValsOf ==
  ASSUME NEW v \in Nat, NEW n \in Nat
  PROVE  Upto(v) \o Vals(Payload(v, n)) = Upto(v + n)
<1> DEFINE s == Vals(Payload(v, n))
<1>1. s \in Seq(Nat) /\ Len(s) = n /\ \A i \in 1..n : s[i] = v + i
  <2>1. DOMAIN Payload(v, n) = 1..n
    BY DEF Payload
  <2>2. s = [i \in 1..n |-> Payload(v, n)[i].val]
    BY <2>1 DEF Vals
  <2>3. \A i \in 1..n : Payload(v, n)[i].val = v + i
    BY PayloadBytes
  <2>4. s = [i \in 1..n |-> v + i]
    BY <2>2, <2>3
  <2> HIDE DEF s
  <2> QED BY <2>4
<1> HIDE DEF s
<1>2. /\ Upto(v) \in Seq(Nat) /\ Len(Upto(v)) = v /\ \A i \in 1..v : Upto(v)[i] = i
      /\ Upto(v + n) \in Seq(Nat) /\ Len(Upto(v + n)) = v + n
      /\ \A i \in 1..(v + n) : Upto(v + n)[i] = i
  BY DEF Upto
<1>3. /\ Upto(v) \o s \in Seq(Nat) /\ Len(Upto(v) \o s) = v + n
      /\ \A i \in 1..v : (Upto(v) \o s)[i] = i
      /\ \A i \in 1..n : (Upto(v) \o s)[v + i] = v + i
  <2> DEFINE t == Upto(v)
  <2>1. t \in Seq(Nat) /\ Len(t) = v /\ \A i \in 1..v : t[i] = i
    BY <1>2
  <2> HIDE DEF t
  <2>2. /\ t \o s \in Seq(Nat)
        /\ Len(t \o s) = Len(t) + Len(s)
        /\ \A i \in 1..Len(t) : (t \o s)[i] = t[i]
        /\ \A i \in 1..Len(s) : (t \o s)[Len(t) + i] = s[i]
    BY <1>1, <2>1, NumbersJoined
  <2> QED BY <1>1, <2>1, <2>2 DEF t
<1>4. ASSUME NEW i \in 1..(v + n) PROVE (Upto(v) \o s)[i] = Upto(v + n)[i]
  <2>1. CASE i <= v
    BY <1>2, <1>3, <2>1
  <2>2. CASE ~(i <= v)
    <3>1. i - v \in 1..n /\ v + (i - v) = i
      BY <2>2
    <3>2. (Upto(v) \o s)[i] = i
      BY <1>3, <3>1
    <3> QED BY <1>2, <3>2
  <2> QED BY <2>1, <2>2
<1>5. Upto(v) \o s = Upto(v + n)
  BY <1>2, <1>3, <1>4, SeqEqual
<1> QED BY <1>5 DEF s

\* The first bytes of a payload are a payload.
LEMMA PayloadStart ==
  ASSUME NEW v \in Nat, NEW m \in Nat, NEW n \in 0..m
  PROVE  SubSeq(Payload(v, m), 1, n) = Payload(v, n)
<1>1. Payload(v, m) \in Seq(Bytes) /\ Len(Payload(v, m)) = m
  BY PayloadBytes
<1>2. Payload(v, n) \in Seq(Bytes) /\ Len(Payload(v, n)) = n
  BY PayloadBytes
<1>3. n \in 0..Len(Payload(v, m))
  BY <1>1
<1>4. /\ SubSeq(Payload(v, m), 1, n) \in Seq(Bytes)
      /\ Len(SubSeq(Payload(v, m), 1, n)) = n
      /\ \A i \in 1..n : SubSeq(Payload(v, m), 1, n)[i] = Payload(v, m)[i]
  BY <1>1, <1>3, Cut
<1>5. \A i \in 1..n : Payload(v, m)[i] = Payload(v, n)[i]
  BY DEF Payload
<1>6. \A i \in 1..n : SubSeq(Payload(v, m), 1, n)[i] = Payload(v, n)[i]
  BY <1>4, <1>5
<1> QED BY <1>2, <1>4, <1>6, SeqEqual

LEMMA InitInv == Init => IInv
<1> SUFFICES ASSUME Init PROVE IInv
  OBVIOUS
<1>1. TypeOK
  <2>1. Max({0, HeaderLen}) = HeaderLen
    BY Constants, MaxOf
  <2>2. Len(part) <= Max({size, HeaderLen})
    BY <2>1, Constants DEF Init
  <2>3. pc \in {"create", "get"} /\ wire = <<>> /\ part = <<>> /\ buf = <<>> /\ got = <<>>
    BY DEF Init
  <2>4. wire \in Seq(Bytes) /\ part \in Seq(Bytes) /\ buf \in Seq(Bytes) /\ got \in Seq(Nat)
    BY <2>3
  <2>5. /\ src \in {"exec", "logs"} /\ tty \in BOOLEAN /\ ctxDone \in BOOLEAN
        /\ conn \in {"none", "open", "closed"} /\ body \in {"stream", "empty", "nop"}
        /\ fin \in BOOLEAN /\ last = "nil" /\ why = "none"
    BY DEF Init
  <2>6. frames \in 0..MaxFrames /\ written \in Nat /\ room = 0 /\ size = 0
    BY Constants DEF Init
  <2> QED BY <2>2, <2>3, <2>4, <2>5, <2>6 DEF TypeOK
<1>2. StreamInv
  <2>1. Len(got) = 0 /\ Len(buf) = 0 /\ Len(part) = 0 /\ written = 0 /\ size = 0
        /\ got = <<>> /\ buf = <<>> /\ wire = <<>> /\ part = <<>>
    BY DEF Init
  <2>2. Upto(0) = <<>> /\ Payload(0, 0) = <<>>
    BY DEF Upto, Payload
  <2>3. Framed(<<>>, 0, 0)
    BY FramedEmpty
  <2>4. part \o wire = <<>>
    BY <2>1
  <2>5. Ahead
    BY <2>1, <2>3, <2>4 DEF Ahead
  <2> QED BY <2>1, <2>2, <2>5, Constants DEF StreamInv, Need
<1>3. Control /\ ConnAccounted
  BY DEF Init, Control, ConnAccounted
<1> QED BY <1>1, <1>2, <1>3 DEF IInv

\* The steps that leave the bytes where they are.
LEMMA BytesStay ==
  ASSUME StreamInv, UNCHANGED <<tty, wire, written, size, part, buf, got>>
  PROVE  StreamInv'
  BY DEF StreamInv, Ahead, Need

\* The call: each return accounts for the connection.
LEMMA CallInv ==
  ASSUME IInv, StartExec \/ StartLogs
  PROVE  IInv'
<1>1. /\ UNCHANGED <<src, tty, ctxDone, daemonVars, demuxVars, userVars>>
      /\ pc' \in {"dial", "write", "head"} \cup Returned
      /\ conn' \in {"none", "open", "closed"}
      /\ body' \in {"stream", "empty", "nop"}
      /\ pc' \in {"noOutput", "err"} \/ body' = "nop" => conn' # "open"
      /\ src = "logs" => body' = "stream" /\ pc' \in Returned
      /\ body' = "nop" => pc' = "ok"
  <2>1. TypeOK /\ Control
    BY DEF IInv
  <2>2. CASE StartLogs
    BY <2>1, <2>2 DEF StartLogs, LogsOk, LogsFails, Go, TypeOK, Returned, Control
  <2>3. CASE StartExec
    <3>1. src # "logs"
      BY <2>1, <2>3 DEF StartExec, Created, CreateFails, Dialed, DialFails, Written,
         WriteFails, HeadRead, HeadSwitches, HeadEnds, HeadFails, Go, Control, Returned
    <3>2. CASE HeadSwitches \/ HeadEnds
      BY <2>1, <3>1, <3>2 DEF HeadSwitches, HeadEnds, TypeOK, Returned
    <3>3. CASE \/ Created \/ CreateFails \/ Dialed \/ DialFails \/ Written
               \/ WriteFails \/ HeadRead \/ HeadFails
      <4>1. pc # "ok" /\ body' = body
        BY <3>3 DEF Created, CreateFails, Dialed, DialFails, Written, WriteFails,
           HeadRead, HeadFails, Go
      <4>2. body' # "nop"
        BY <2>1, <4>1 DEF Control
      <4> QED
        BY <2>1, <3>1, <3>3, <4>1, <4>2 DEF Created, CreateFails, Dialed, DialFails,
           Written, WriteFails, HeadRead, HeadFails, Go, TypeOK, Returned
    <3> QED BY <2>3, <3>2, <3>3 DEF StartExec
  <2> QED BY <2>2, <2>3
<1>2. TypeOK'
  BY <1>1 DEF IInv, TypeOK, daemonVars, demuxVars, userVars
<1>3. StreamInv'
  BY <1>1, BytesStay DEF IInv, daemonVars, demuxVars, userVars
<1>4. Control' /\ ConnAccounted'
  BY <1>1 DEF IInv, Control, ConnAccounted, userVars
<1> QED BY <1>2, <1>3, <1>4 DEF IInv

\* A Read that fails, the consumer, the context and the end of the command.
LEMMA QuietInv ==
  ASSUME IInv, (\E e \in Ends : Fail(e)) \/ Read \/ Close \/ Cancel \/ End
  PROVE  IInv'
<1>1. CASE \E e \in Ends : Fail(e)
  <2>1. PICK e \in Ends : Fail(e)
    BY <1>1
  <2>2. last' \in {"EOF", "unexpected", "error"}
    BY <2>1 DEF Fail, FullError, ErrorOf
  <2>3. /\ UNCHANGED <<src, tty, ctxDone, pc, conn, body, wire, frames, written, fin,
                       size, part, buf, got>>
        /\ why' \in Ends /\ room' = 0
    BY <2>1 DEF Fail, callVars, daemonVars, demuxVars
  <2>4. TypeOK'
    BY <2>2, <2>3 DEF IInv, TypeOK
  <2>5. StreamInv'
    BY <2>3, BytesStay DEF IInv
  <2>6. Control' /\ ConnAccounted'
    BY <2>3 DEF IInv, Control, ConnAccounted
  <2> QED BY <2>4, <2>5, <2>6 DEF IInv
<1>2. CASE Read
  <2>1. /\ UNCHANGED <<src, tty, ctxDone, pc, conn, body, wire, frames, written, fin,
                       size, part, buf, got, last, why>>
        /\ room' \in ReadSizes /\ last = "nil"
    BY <1>2 DEF Read, callVars, daemonVars, demuxVars
  <2>2. TypeOK'
    BY <2>1 DEF IInv, TypeOK
  <2>3. StreamInv'
    BY <2>1, BytesStay DEF IInv
  <2>4. Control' /\ ConnAccounted'
    BY <2>1 DEF IInv, Control, ConnAccounted
  <2> QED BY <2>2, <2>3, <2>4 DEF IInv
<1>3. CASE Close \/ Cancel \/ End
  <2>1. /\ UNCHANGED <<src, tty, pc, body, wire, frames, written,
                       size, part, buf, room, got, last, why>>
        /\ ctxDone' \in BOOLEAN /\ fin' \in BOOLEAN
        /\ conn' \in {conn, "closed"}
    BY <1>3 DEF IInv, TypeOK, Close, Cancel, End, callVars, daemonVars, demuxVars, userVars
  <2>2. TypeOK'
    BY <2>1 DEF IInv, TypeOK
  <2>3. StreamInv'
    BY <2>1, BytesStay DEF IInv
  <2>4. Control' /\ ConnAccounted'
    BY <2>1 DEF IInv, Control, ConnAccounted
  <2> QED BY <2>2, <2>3, <2>4 DEF IInv
<1> QED BY <1>1, <1>2, <1>3

LEMMA NeedPositive ==
  ASSUME TypeOK
  PROVE  Need \in Nat /\ Need > 0 /\ Need <= Max({size, HeaderLen})
<1>1. size \in Nat
  BY Constants DEF TypeOK
<1>2. Max({size, HeaderLen}) = IF size <= HeaderLen THEN HeaderLen ELSE size
  BY <1>1, Constants, MaxOf
<1> QED BY <1>1, <1>2, Constants DEF Need

\* What a read that takes n bytes for the ReadFull has, and what it leaves.
LEMMA FillCut ==
  ASSUME IInv, NEW n \in 1..Min({Need - Len(part), Len(wire)})
  PROVE  LET s == part \o SubSeq(wire, 1, n)
             w == SubSeq(wire, n + 1, Len(wire))
         IN  /\ s \in Seq(Bytes) /\ w \in Seq(Bytes)
             /\ Len(s) \in Nat /\ Len(s) > 0 /\ Len(s) <= Need
             /\ s \o w = part \o wire
<1>1. /\ part \in Seq(Bytes) /\ wire \in Seq(Bytes)
      /\ Need \in Nat /\ Len(part) \in Nat /\ Len(wire) \in Nat /\ Len(part) < Need
  BY NeedPositive DEF IInv, TypeOK, StreamInv
<1>2. Min({Need - Len(part), Len(wire)})
        = IF Need - Len(part) <= Len(wire) THEN Need - Len(part) ELSE Len(wire)
  <2>1. Need - Len(part) \in Nat
    BY <1>1
  <2> QED BY <1>1, <2>1, MinOf
<1>3. n \in Nat /\ n > 0 /\ n <= Need - Len(part) /\ n <= Len(wire)
  BY <1>1, <1>2
<1> DEFINE a == SubSeq(wire, 1, n)
           w == SubSeq(wire, n + 1, Len(wire))
           s == part \o a
<1>4. /\ a \in Seq(Bytes) /\ Len(a) = n
      /\ w \in Seq(Bytes) /\ a \o w = wire
  BY <1>1, <1>3, Cut
<1> HIDE DEF a, w
<1>5. s \in Seq(Bytes) /\ Len(s) = Len(part) + n
  BY <1>1, <1>4, Joined
<1>6. Regroup(part, a, w)
  BY <1>1, <1>4, JoinedTwice
<1>7. s \o w = part \o wire
  BY <1>4, <1>6 DEF Regroup
<1>8. Len(s) \in Nat /\ Len(s) > 0 /\ Len(s) <= Need
  BY <1>1, <1>3, <1>5
<1> QED BY <1>4, <1>5, <1>7, <1>8 DEF a, w

\* A ReadFull that has all its bytes has a header, or what follows one: what
\* lies ahead is then a payload and whole frames, or whole frames.
LEMMA FillCompletes ==
  ASSUME IInv, ~tty, buf = <<>>, NEW s \in Seq(Bytes), wire' \in Seq(Bytes),
         s \o wire' = part \o wire, Len(s) = Need, Complete(s),
         UNCHANGED <<got, written>>
  PROVE  /\ Ahead' /\ part' = <<>> /\ size' \in FrameSizes \cup {0}
         /\ buf' \in Seq(Bytes) /\ buf' = Payload(Len(got), Len(buf'))
<1>1. /\ Ahead /\ size \in Nat /\ part \in Seq(Bytes) /\ wire \in Seq(Bytes)
      /\ Len(got) \in Nat /\ written \in Nat /\ Len(buf) = 0
      /\ part \o wire \in Seq(Bytes)
  BY Constants DEF IInv, TypeOK, StreamInv
<1>2. part' = <<>> /\ <<>> \o wire' = wire'
  BY DEF Complete
<1>3. Payload(Len(got), 0) = <<>>
  BY DEF Payload
<1>4. CASE size = 0
  <2>1. Framed(s \o wire', Len(got), written)
    BY <1>1, <1>4 DEF Ahead
  <2>2. Len(s) = HeaderLen /\ s \o wire' # <<>>
    BY <1>4, Constants, Joined DEF Need
  <2>3. PICK k \in FrameSizes, r \in Seq(Bytes) :
          s \o wire' = Frame(Len(got), k) \o r /\ Framed(r, Len(got) + k, written)
    BY <1>1, <2>1, <2>2, FramedFirst
  <2> DEFINE h == HeaderOf(k)
             p == Payload(Len(got), k)
  <2>4. k \in Nat /\ h \in Seq(Bytes) /\ Len(h) = HeaderLen /\ p \in Seq(Bytes)
    BY <1>1, Constants, HeaderBytes, PayloadBytes
  <2>5. Frame(Len(got), k) = h \o p
    BY DEF Frame
  <2> HIDE DEF h, p
  <2>6. (h \o p) \o r = h \o (p \o r) /\ p \o r \in Seq(Bytes)
    <3>1. p \o r \in Seq(Bytes)
      BY <2>4, Joined
    <3>2. Regroup(h, p, r)
      BY <2>4, JoinedTwice
    <3> QED BY <3>1, <3>2 DEF Regroup
  <2>7. s \o wire' = h \o (p \o r)
    BY <2>3, <2>5, <2>6
  <2>8. s = h /\ wire' = p \o r
    BY <2>2, <2>4, <2>6, <2>7, SameCut
  <2>9. size' = k /\ buf' = <<>>
    <3>1. size' = SizeOf(s) /\ buf' = buf
      BY <1>4 DEF Complete
    <3> QED BY <2>8, <3>1, SizeRoundTrip DEF h
  <2>10. CASE k = 0
    <3>1. p = <<>>
      BY <1>3, <2>10 DEF p
    <3>2. wire' = r
      BY <2>3, <2>8, <3>1
    <3>3. Len(got') + Len(buf') = Len(got) + k
      BY <2>9, <2>10
    <3>4. Ahead'
      BY <1>2, <2>3, <2>9, <2>10, <3>2, <3>3 DEF Ahead
    <3> QED BY <1>2, <1>3, <2>9, <2>10, <3>4
  <2>11. CASE k # 0
    <3>1. Ahead'
      BY <1>2, <2>3, <2>8, <2>9, <2>11 DEF Ahead, p
    <3> QED BY <1>2, <1>3, <2>9, <3>1
  <2> QED BY <2>10, <2>11
<1>5. CASE size # 0
  <2>1. PICK r \in Seq(Bytes) :
          s \o wire' = Payload(Len(got), size) \o r /\ Framed(r, Len(got) + size, written)
    BY <1>1, <1>5 DEF Ahead
  <2> DEFINE p == Payload(Len(got), size)
  <2>2. p \in Seq(Bytes) /\ Len(p) = size /\ Len(s) = size
    BY <1>1, <1>5, PayloadBytes DEF Need
  <2>3. s \o wire' = p \o r
    BY <2>1
  <2> HIDE DEF p
  <2>4. s = p /\ wire' = r
    BY <2>2, <2>3, SameCut
  <2>5. size' = 0 /\ buf' = p
    BY <1>5, <2>4 DEF Complete
  <2>6. Len(got') + Len(buf') = Len(got) + size
    BY <2>2, <2>5
  <2>7. Ahead'
    BY <1>2, <2>1, <2>4, <2>5, <2>6 DEF Ahead
  <2> QED BY <1>2, <2>2, <2>5, <2>7 DEF p
<1> QED BY <1>4, <1>5

LEMMA FillInv ==
  ASSUME IInv, Fill
  PROVE  IInv'
<1>1. /\ room > 0 /\ buf = <<>> /\ ~tty
      /\ UNCHANGED <<src, tty, ctxDone, pc, conn, body, frames, written, fin,
                     room, got, last, why>>
  BY DEF Fill, Blocked, callVars, userVars
<1>2. PICK n \in 1..Min({Need - Len(part), Len(wire)}) :
        LET s == part \o SubSeq(wire, 1, n)
        IN  /\ wire' = SubSeq(wire, n + 1, Len(wire))
            /\ IF Len(s) = Need THEN Complete(s)
               ELSE part' = s /\ UNCHANGED <<size, buf>>
  BY DEF Fill
<1> DEFINE s == part \o SubSeq(wire, 1, n)
<1>3. /\ s \in Seq(Bytes) /\ wire' \in Seq(Bytes)
      /\ Len(s) \in Nat /\ Len(s) > 0 /\ Len(s) <= Need
      /\ s \o wire' = part \o wire
  BY <1>2, FillCut
<1>4. IF Len(s) = Need THEN Complete(s) ELSE part' = s /\ UNCHANGED <<size, buf>>
  BY <1>2
<1> HIDE DEF s
<1>5. /\ TypeOK /\ StreamInv /\ Control /\ ConnAccounted
      /\ Need \in Nat /\ Need <= Max({size, HeaderLen})
  BY NeedPositive DEF IInv
<1>6. Control' /\ ConnAccounted'
  BY <1>1, <1>5 DEF Control, ConnAccounted
<1>7. CASE Len(s) = Need
  <2>1. Complete(s)
    BY <1>4, <1>7
  <2>2. /\ Ahead' /\ part' = <<>> /\ size' \in FrameSizes \cup {0}
        /\ buf' \in Seq(Bytes) /\ buf' = Payload(Len(got), Len(buf'))
    BY <1>1, <1>3, <1>7, <2>1, FillCompletes
  <2>3. size' \in Nat /\ HeaderLen \in Nat /\ HeaderLen > 0
    BY <2>2, Constants
  <2>4. Len(part') = 0 /\ part' \in Seq(Bytes)
    BY <2>2
  <2>5. Len(part') <= Max({size', HeaderLen})
    <3>1. Max({size', HeaderLen}) = IF size' <= HeaderLen THEN HeaderLen ELSE size'
      BY <2>3, MaxOf
    <3> QED BY <2>3, <2>4, <3>1
  <2>6. TypeOK'
    BY <1>1, <1>3, <1>5, <2>2, <2>4, <2>5 DEF TypeOK
  <2>7. Len(part') < Need'
    BY <2>3, <2>4 DEF Need
  <2>8. StreamInv'
    BY <1>1, <1>5, <2>2, <2>7 DEF StreamInv
  <2> QED BY <1>6, <2>6, <2>8 DEF IInv
<1>8. CASE Len(s) # Need
  <2>1. part' = s /\ size' = size /\ buf' = buf
    BY <1>4, <1>8
  <2>2. Len(part') <= Max({size', HeaderLen}) /\ Len(part') < Need'
    <3>1. Len(s) <= Max({size, HeaderLen})
      <4>1. size \in Nat
        BY <1>5, Constants DEF TypeOK
      <4>2. Max({size, HeaderLen}) \in Nat
        BY <4>1, Constants, MaxOf
      <4> QED BY <1>3, <1>5, <4>2
    <3>2. Len(s) < Need
      BY <1>3, <1>5, <1>8
    <3> QED BY <2>1, <3>1, <3>2 DEF Need
  <2>3. TypeOK'
    BY <1>1, <1>3, <1>5, <2>1, <2>2 DEF TypeOK
  <2>4. part' \o wire' = part \o wire
    BY <1>3, <2>1
  <2>5. Ahead'
    <3>1. Ahead
      BY <1>1, <1>5 DEF StreamInv
    <3> QED BY <1>1, <2>1, <2>4, <3>1 DEF Ahead
  <2>6. StreamInv'
    BY <1>1, <1>5, <2>1, <2>2, <2>5 DEF StreamInv
  <2> QED BY <1>6, <2>3, <2>6 DEF IInv
<1> QED BY <1>7, <1>8

\* What a Read hands out is the next bytes of the command.
LEMMA Delivered ==
  ASSUME NEW v \in Nat, NEW m \in Nat, NEW n \in 0..m
  PROVE  /\ Upto(v) \o Vals(SubSeq(Payload(v, m), 1, n)) = Upto(v + n)
         /\ SubSeq(Payload(v, m), n + 1, Len(Payload(v, m))) = Payload(v + n, m - n)
<1>1. SubSeq(Payload(v, m), 1, n) = Payload(v, n)
  BY PayloadStart
<1>2. Upto(v) \o Vals(Payload(v, n)) = Upto(v + n)
  <2>1. n \in Nat
    OBVIOUS
  <2> QED BY <2>1, ValsOf
<1>3. Len(Payload(v, m)) = m
  BY PayloadBytes
<1> QED BY <1>1, <1>2, <1>3, PayloadRest

LEMMA UptoSeq ==
  ASSUME NEW v \in Nat
  PROVE  Upto(v) \in Seq(Nat) /\ Len(Upto(v)) = v
  BY DEF Upto

LEMMA DeliverInv ==
  ASSUME IInv, Deliver
  PROVE  IInv' /\ \E n \in Nat \ {0} : got' = Upto(Len(got) + n) /\ Len(got) + n <= written
<1> DEFINE v == Len(got)
           m == Len(buf)
           n == Min({room, m})
<1>1. /\ TypeOK /\ StreamInv /\ Control /\ ConnAccounted
      /\ v \in Nat /\ m \in Nat /\ room \in Nat /\ written \in Nat
      /\ part \in Seq(Bytes) /\ wire \in Seq(Bytes) /\ part \o wire \in Seq(Bytes)
  BY Constants DEF IInv, TypeOK
<1>2. /\ room > 0 /\ buf # <<>> /\ room' = 0
      /\ got' = got \o Vals(SubSeq(buf, 1, n)) /\ buf' = SubSeq(buf, n + 1, m)
      /\ UNCHANGED <<src, tty, ctxDone, pc, conn, body, wire, frames, written, fin,
                     size, part, last, why>>
  BY DEF Deliver, callVars, daemonVars
<1>3. m > 0 /\ ~tty
  <2>1. ~tty
    BY <1>1, <1>2 DEF TypeOK
  <2>2. buf \in Seq(Bytes)
    BY <1>1 DEF TypeOK
  <2> QED BY <1>2, <2>1, <2>2
<1>4. n \in 1..m
  <2>1. Min({room, m}) = IF room <= m THEN room ELSE m
    BY <1>1, MinOf
  <2> QED BY <1>1, <1>2, <1>3, <2>1
<1>5. got = Upto(v) /\ buf = Payload(v, m)
  BY <1>1 DEF StreamInv
<1> HIDE DEF n, v, m
<1>6. got' = Upto(v + n) /\ buf' = Payload(v + n, m - n)
  <2>1. n \in 0..m /\ n \in Nat
    BY <1>1, <1>4
  <2>2. /\ Upto(v) \o Vals(SubSeq(Payload(v, m), 1, n)) = Upto(v + n)
        /\ SubSeq(Payload(v, m), n + 1, Len(Payload(v, m))) = Payload(v + n, m - n)
    BY <1>1, <2>1, Delivered
  <2>3. Len(Payload(v, m)) = m
    BY <1>1, PayloadBytes
  <2> QED BY <1>2, <1>5, <2>2, <2>3
<1>7. v + n \in Nat /\ m - n \in Nat
  BY <1>1, <1>4
<1>8. Len(got') = v + n /\ Len(buf') = m - n /\ got' \in Seq(Nat) /\ buf' \in Seq(Bytes)
  BY <1>6, <1>7, UptoSeq, PayloadBytes
<1>9. size = 0 /\ Framed(part \o wire, v + m, written)
  BY <1>1, <1>2, <1>3 DEF StreamInv, Ahead, v, m
<1>10. v + m <= written
  <2>1. v + m \in Nat
    BY <1>1
  <2> QED BY <1>1, <1>9, <2>1, FramedInOrder DEF InOrder
<1>11. Ahead'
  <2>1. Len(got') + Len(buf') = v + m
    BY <1>1, <1>4, <1>8
  <2> QED BY <1>2, <1>9, <2>1 DEF Ahead
<1>12. StreamInv'
  <2>1. Len(part') < Need'
    BY <1>1, <1>2 DEF StreamInv, Need
  <2> QED BY <1>2, <1>3, <1>6, <1>8, <1>11, <2>1 DEF StreamInv
<1>13. TypeOK'
  BY <1>1, <1>2, <1>3, <1>8 DEF TypeOK
<1>14. Control' /\ ConnAccounted'
  BY <1>1, <1>2 DEF Control, ConnAccounted
<1>15. n \in Nat \ {0} /\ v + n <= written
  BY <1>1, <1>4, <1>10
<1> QED BY <1>6, <1>12, <1>13, <1>14, <1>15 DEF IInv, v

LEMMA PassThroughInv ==
  ASSUME IInv, PassThrough
  PROVE  IInv' /\ \E n \in Nat \ {0} : got' = Upto(Len(got) + n) /\ Len(got) + n <= written
<1> DEFINE v == Len(got)
           m == Len(wire)
<1>1. /\ TypeOK /\ StreamInv /\ Control /\ ConnAccounted
      /\ v \in Nat /\ m \in Nat /\ room \in Nat /\ written \in Nat
      /\ wire \in Seq(Bytes)
  BY Constants DEF IInv, TypeOK
<1>2. /\ room > 0 /\ tty /\ buf = <<>> /\ room' = 0
      /\ UNCHANGED <<src, tty, ctxDone, pc, conn, body, frames, written, fin,
                     size, part, buf, last, why>>
  BY DEF PassThrough, Blocked, callVars, demuxVars
<1>3. PICK n \in 1..Min({room, m}) : /\ got' = got \o Vals(SubSeq(wire, 1, n))
                                     /\ wire' = SubSeq(wire, n + 1, m)
  BY DEF PassThrough
<1>4. n \in 1..m
  <2>1. Min({room, m}) = IF room <= m THEN room ELSE m
    BY <1>1, MinOf
  <2> QED BY <1>1, <1>3, <2>1
<1>5. got = Upto(v) /\ v <= written /\ wire = Payload(v, written - v)
  BY <1>1, <1>2 DEF StreamInv
<1>6. m = written - v
  <2>1. written - v \in Nat
    BY <1>1, <1>5
  <2>2. Len(Payload(v, written - v)) = written - v
    BY <1>1, <2>1, PayloadBytes
  <2> QED BY <1>5, <2>2
<1> HIDE DEF v, m
<1>7. got' = Upto(v + n) /\ wire' = Payload(v + n, m - n)
  <2>1. n \in 0..m /\ n \in Nat
    BY <1>1, <1>4
  <2>2. /\ Upto(v) \o Vals(SubSeq(Payload(v, m), 1, n)) = Upto(v + n)
        /\ SubSeq(Payload(v, m), n + 1, Len(Payload(v, m))) = Payload(v + n, m - n)
    BY <1>1, <2>1, Delivered
  <2>3. Len(Payload(v, m)) = m
    BY <1>1, PayloadBytes
  <2> QED BY <1>3, <1>5, <1>6, <2>2, <2>3
<1>8. v + n \in Nat /\ m - n \in Nat
  BY <1>1, <1>4
<1>9. Len(got') = v + n /\ got' \in Seq(Nat) /\ wire' \in Seq(Bytes)
  BY <1>7, <1>8, UptoSeq, PayloadBytes
<1>10. m - n = written - (v + n) /\ v + n <= written
  BY <1>1, <1>4, <1>6
<1>11. StreamInv'
  <2>1. Len(part') < Need'
    BY <1>1, <1>2 DEF StreamInv, Need
  <2>2. buf' = Payload(Len(got'), Len(buf'))
    <3>1. buf' = <<>> /\ Len(buf') = 0
      BY <1>2
    <3> QED BY <3>1 DEF Payload
  <2> QED BY <1>2, <1>7, <1>9, <1>10, <2>1, <2>2 DEF StreamInv
<1>12. TypeOK'
  BY <1>1, <1>2, <1>9 DEF TypeOK
<1>13. Control' /\ ConnAccounted'
  BY <1>1, <1>2 DEF Control, ConnAccounted
<1>14. n \in Nat \ {0}
  BY <1>1, <1>4
<1> QED BY <1>7, <1>10, <1>11, <1>12, <1>13, <1>14 DEF IInv, v

LEMMA WriteInv ==
  ASSUME IInv, NEW n \in FrameSizes, WriteFrame(n)
  PROVE  IInv'
<1> DEFINE v == Len(got)
           p == Payload(written, n)
<1>1. /\ TypeOK /\ StreamInv /\ Control /\ ConnAccounted
      /\ v \in Nat /\ n \in Nat /\ written \in Nat /\ written + n \in Nat
      /\ wire \in Seq(Bytes) /\ part \in Seq(Bytes) /\ p \in Seq(Bytes)
  <2>1. TypeOK /\ StreamInv /\ Control /\ ConnAccounted
    BY DEF IInv
  <2>2. /\ v \in Nat /\ n \in Nat /\ written \in Nat
        /\ wire \in Seq(Bytes) /\ part \in Seq(Bytes)
    BY <2>1, Constants DEF TypeOK
  <2>3. p \in Seq(Bytes)
    BY <2>2, PayloadBytes
  <2> QED BY <2>1, <2>2, <2>3
<1>2. /\ wire' = wire \o (IF tty THEN <<>> ELSE HeaderOf(n)) \o p
      /\ written' = written + n /\ frames < MaxFrames /\ frames' = frames + 1
      /\ UNCHANGED <<src, tty, ctxDone, pc, conn, body, fin, size, part, buf,
                     room, got, last, why>>
  BY DEF WriteFrame, callVars, demuxVars, userVars
<1>3. Control' /\ ConnAccounted'
  BY <1>1, <1>2 DEF Control, ConnAccounted
<1>4. frames' \in 0..MaxFrames
  BY <1>1, <1>2, Constants DEF TypeOK
<1>5. Len(part') < Need'
  BY <1>1, <1>2 DEF StreamInv, Need
<1>6. CASE tty
  <2>1. v <= written /\ wire = Payload(v, written - v)
    BY <1>1, <1>6 DEF StreamInv
  <2>2. wire' = wire \o p
    <3>1. wire \o <<>> = wire
      BY <1>1
    <3> QED BY <1>2, <1>6, <3>1
  <2> DEFINE m == written - v
  <2>3. m \in Nat
    BY <1>1, <2>1
  <2>4. v + m = written
    BY <1>1, <2>1
  <2>5. wire' = Payload(v, m + n)
    <3> HIDE DEF v, m
    <3>1. wire' = Payload(v, m) \o Payload(v + m, n)
      BY <2>1, <2>2, <2>4 DEF m
    <3>2. Payload(v, m) \o Payload(v + m, n) = Payload(v, m + n)
      BY <1>1, <2>3, PayloadsJoin, Zenon
    <3> QED BY <3>1, <3>2
  <2>6. m + n = written' - v /\ v <= written'
    BY <1>1, <1>2, <2>1
  <2>7. wire' \in Seq(Bytes)
    <3> HIDE DEF p
    <3> QED BY <1>1, <2>2, Joined
  <2>8. StreamInv'
    BY <1>1, <1>2, <1>5, <1>6, <2>5, <2>6 DEF StreamInv
  <2>9. TypeOK'
    BY <1>1, <1>2, <1>4, <2>7 DEF TypeOK
  <2> QED BY <1>3, <2>8, <2>9 DEF IInv
<1>7. CASE ~tty
  <2> DEFINE h == HeaderOf(n)
             f == h \o p
  <2>1. h \in Seq(Bytes)
    BY HeaderBytes
  <2>2. wire' = (wire \o h) \o p
    BY <1>2, <1>7
  <2>3. f = Frame(written, n)
    BY DEF Frame
  <2> HIDE DEF h, p
  <2>4. f \in Seq(Bytes) /\ wire' = wire \o f
    <3>1. Regroup(wire, h, p)
      BY <1>1, <2>1, JoinedTwice
    <3>2. h \o p \in Seq(Bytes)
      BY <1>1, <2>1, Joined
    <3> QED BY <2>2, <3>1, <3>2 DEF Regroup
  <2> HIDE DEF f
  <2>5. wire' \in Seq(Bytes)
    BY <1>1, <2>4, Joined
  <2>6. part' \o wire' = (part \o wire) \o f
    <3>1. Regroup(part, wire, f)
      BY <1>1, <2>4, JoinedTwice
    <3> QED BY <1>2, <2>4, <3>1 DEF Regroup
  <2>7. Ahead
    BY <1>1, <1>7 DEF StreamInv
  <2>8. size \in Nat /\ Len(buf) \in Nat
    BY <1>1, Constants DEF TypeOK
  <2>9. Ahead'
    <3>1. CASE size = 0
      <4>1. part \o wire \in Seq(Bytes)
        BY <1>1, Joined
      <4>2. Framed(part \o wire, v + Len(buf), written)
        BY <2>7, <3>1 DEF Ahead
      <4>3. v + Len(buf) \in Nat
        BY <1>1, <2>8
      <4>4. Framed((part \o wire) \o f, v + Len(buf), written + n)
        BY <1>1, <2>3, <4>1, <4>2, <4>3, FramedAppend
      <4> QED BY <1>2, <2>6, <3>1, <4>4 DEF Ahead
    <3>2. CASE size # 0
      <4>1. PICK r \in Seq(Bytes) : /\ part \o wire = Payload(v, size) \o r
                                    /\ Framed(r, v + size, written)
        BY <2>7, <3>2 DEF Ahead
      <4>2. v + size \in Nat
        BY <1>1, <2>8
      <4>3. Framed(r \o f, v + size, written + n)
        BY <1>1, <2>3, <4>1, <4>2, FramedAppend
      <4>4. r \o f \in Seq(Bytes)
        BY <2>4, Joined
      <4>5. (part \o wire) \o f = Payload(v, size) \o (r \o f)
        <5> DEFINE q == Payload(v, size)
        <5>1. q \in Seq(Bytes)
          BY <1>1, <2>8, PayloadBytes
        <5>2. part \o wire = q \o r
          BY <4>1
        <5> HIDE DEF q
        <5>3. Regroup(q, r, f)
          BY <2>4, <5>1, JoinedTwice
        <5> QED BY <5>2, <5>3 DEF q, Regroup
      <4>6. part' \o wire' = Payload(v, size) \o (r \o f)
        BY <2>6, <4>5
      <4>7. buf = <<>>
        BY <2>7, <3>2 DEF Ahead
      <4> HIDE DEF v
      <4>8. \E r_ \in Seq(Bytes) : /\ part' \o wire' = Payload(v, size) \o r_
                                   /\ Framed(r_, v + size, written')
        BY <1>2, <4>3, <4>4, <4>6
      <4> QED BY <1>2, <3>2, <4>7, <4>8 DEF Ahead, v
    <3> QED BY <3>1, <3>2
  <2>10. StreamInv'
    BY <1>1, <1>2, <1>5, <1>7, <2>9 DEF StreamInv
  <2>11. TypeOK'
    BY <1>1, <1>2, <1>4, <2>5 DEF TypeOK
  <2> QED BY <1>3, <2>10, <2>11 DEF IInv
<1> QED BY <1>6, <1>7

LEMMA NextInv ==
  ASSUME IInv, [Next]_vars
  PROVE  IInv'
<1>1. CASE StartExec \/ StartLogs
  BY <1>1, CallInv
<1>2. CASE Fill
  BY <1>2, FillInv
<1>3. CASE Deliver
  BY <1>3, DeliverInv
<1>4. CASE PassThrough
  BY <1>4, PassThroughInv
<1>5. CASE (\E e \in Ends : Fail(e)) \/ Read \/ Close \/ Cancel \/ End
  BY <1>5, QuietInv
<1>6. CASE \E n \in FrameSizes : WriteFrame(n)
  BY <1>6, WriteInv
<1>7. CASE UNCHANGED vars
  <2>1. UNCHANGED <<src, tty, ctxDone, pc, conn, body, wire, frames, written, fin,
                    size, part, buf, room, got, last, why>>
    BY <1>7 DEF vars, callVars, daemonVars, demuxVars, userVars
  <2>2. TypeOK' /\ Control' /\ ConnAccounted'
    BY <2>1 DEF IInv, TypeOK, Control, ConnAccounted
  <2>3. StreamInv'
    BY <2>1, BytesStay DEF IInv
  <2> QED BY <2>2, <2>3 DEF IInv
<1> QED BY <1>1, <1>2, <1>3, <1>4, <1>5, <1>6, <1>7 DEF Next, Progress

THEOREM Inductive == Spec => []IInv
  BY InitInv, NextInv, PTL DEF Spec
--------------------------------------------------------------------------------
(***************************************************************************)
(* What follows.                                                           *)
(***************************************************************************)
\* The fields hold what they should: the size is one that a frame has, and a
\* ReadFull has no more bytes than it asked for.
THEOREM TypeCorrect == Spec => []TypeOK
<1>1. IInv => TypeOK
  BY DEF IInv
<1> QED BY <1>1, Inductive, PTL

\* A return of Exec or Logs without a reader, or with one whose Close does
\* nothing, leaves no connection open.
THEOREM NoConnectionLeaks == Spec => []ConnAccounted
<1>1. IInv => ConnAccounted
  BY DEF IInv
<1> QED BY <1>1, Inductive, PTL

LEMMA InvConserved == IInv => Conserved
<1> SUFFICES ASSUME IInv PROVE Conserved
  OBVIOUS
<1> DEFINE v == Len(got)
           m == Len(buf)
           u == part \o wire
<1>1. /\ v \in Nat /\ m \in Nat /\ size \in Nat /\ written \in Nat
      /\ part \in Seq(Bytes) /\ wire \in Seq(Bytes) /\ buf \in Seq(Bytes)
  BY Constants DEF IInv, TypeOK
<1>2. /\ got = Upto(v) /\ buf = Payload(v, m)
      /\ tty => v <= written /\ wire = Payload(v, written - v)
      /\ ~tty => Ahead
  BY DEF IInv, StreamInv
<1>3. u \in Seq(Bytes) /\ buf \o part \o wire = buf \o u
  <2>1. u \in Seq(Bytes)
    BY <1>1, Joined
  <2>2. Regroup(buf, part, wire)
    BY <1>1, JoinedTwice
  <2> QED BY <2>1, <2>2 DEF Regroup
<1>4. InOrder(buf \o u, v, written)
  <2>1. CASE tty
    <3>1. buf = <<>> /\ part = <<>>
      BY <2>1 DEF IInv, TypeOK
    <3>2. buf \o u = wire
      BY <1>1, <3>1
    <3>3. written - v \in Nat /\ v + (written - v) = written
      BY <1>1, <1>2, <2>1
    <3>4. InOrder(Payload(v, written - v), v, v + (written - v))
      <4>1. written - v \in Nat
        BY <3>3
      <4> HIDE DEF v
      <4> QED BY <1>1, <4>1, PayloadInOrder
    <3> QED BY <1>2, <2>1, <3>2, <3>3, <3>4
  <2>2. CASE ~tty /\ size = 0
    <3>1. Framed(u, v + m, written) /\ v + m \in Nat
      BY <1>1, <1>2, <2>2 DEF Ahead
    <3> HIDE DEF v, m, u
    <3>2. InOrder(u, v + m, written)
      BY <1>1, <1>3, <3>1, FramedInOrder
    <3>3. InOrder(buf, v, v + m)
      BY <1>1, <1>2, PayloadInOrder
    <3> QED BY <1>1, <1>3, <3>1, <3>2, <3>3, InOrderJoin
  <2>3. CASE ~tty /\ size # 0
    <3>1. PICK r \in Seq(Bytes) :
            u = Payload(v, size) \o r /\ Framed(r, v + size, written)
      BY <1>2, <2>3 DEF Ahead
    <3>2. buf \o u = u
      <4>1. buf = <<>>
        BY <1>2, <2>3 DEF Ahead
      <4> QED BY <1>3, <4>1
    <3> HIDE DEF v, m, u
    <3>3. v + size \in Nat
      BY <1>1
    <3>4. InOrder(r, v + size, written)
      BY <1>1, <3>1, <3>3, FramedInOrder
    <3>5. InOrder(Payload(v, size), v, v + size) /\ Payload(v, size) \in Seq(Bytes)
      BY <1>1, PayloadInOrder, PayloadBytes
    <3>6. InOrder(Payload(v, size) \o r, v, written)
      BY <1>1, <3>3, <3>4, <3>5, InOrderJoin
    <3> QED BY <3>1, <3>2, <3>6
  <2> QED BY <2>1, <2>2, <2>3
<1> QED BY <1>2, <1>3, <1>4 DEF Conserved, Upto

\* No byte is lost, doubled, out of order or taken for a header, wherever the
\* reads cut the stream.
THEOREM NoByteLost == Spec => []Conserved
  BY Inductive, InvConserved, PTL

\* The end of the stream of Logs, with nothing read of a frame, is the end of
\* the output.
LEMMA EndIsTheEnd ==
  ASSUME IInv, buf = <<>>, part = <<>>, wire = <<>>
  PROVE  Len(got) = written
<1>1. Len(got) \in Nat /\ written \in Nat /\ size \in Nat /\ Len(buf) = 0
      /\ part \o wire = <<>> /\ part \o wire \in Seq(Bytes)
  BY Constants DEF IInv, TypeOK
<1>2. CASE tty
  <2>1. Len(got) <= written /\ wire = Payload(Len(got), written - Len(got))
    BY <1>2 DEF IInv, StreamInv
  <2>2. written - Len(got) \in Nat
    BY <1>1, <2>1
  <2>3. Len(wire) = written - Len(got)
    BY <1>1, <2>1, <2>2, PayloadBytes
  <2> QED BY <1>1, <2>3
<1>3. CASE ~tty /\ size = 0
  <2>1. Framed(part \o wire, Len(got), written)
    BY <1>1, <1>3 DEF IInv, StreamInv, Ahead
  <2> QED BY <1>1, <2>1, FramedSome
<1>4. CASE ~tty /\ size # 0
  <2>1. PICK r \in Seq(Bytes) : part \o wire = Payload(Len(got), size) \o r
    BY <1>4 DEF IInv, StreamInv, Ahead
  <2>2. Payload(Len(got), size) \in Seq(Bytes) /\ Len(Payload(Len(got), size)) = size
    BY <1>1, PayloadBytes
  <2>3. Len(Payload(Len(got), size) \o r) > 0
    <3> DEFINE p == Payload(Len(got), size)
    <3>1. p \in Seq(Bytes) /\ Len(p) = size
      BY <2>2
    <3> HIDE DEF p
    <3>2. Len(p \o r) = Len(p) + Len(r) /\ Len(r) \in Nat
      BY <3>1, Joined
    <3> QED BY <1>1, <1>4, <3>1, <3>2 DEF p
  <2>4. Len(part \o wire) = 0
    BY <1>1
  <2> QED BY <2>1, <2>3, <2>4
<1> QED BY <1>2, <1>3, <1>4

LEMMA RefineFail ==
  ASSUME IInv, NEW e \in Ends, Fail(e)
  PROVE  Promise!Next
<1>1. /\ room > 0 /\ buf = <<>> /\ CanEnd(e) /\ last' = FullError(e)
      /\ UNCHANGED <<src, written, fin, got>>
  BY DEF Fail, Blocked, daemonVars
<1>2. last = "nil"
  BY <1>1 DEF IInv, Control
<1>3. last' \in {"EOF", "unexpected", "error"}
  BY <1>1 DEF FullError, ErrorOf
<1>4. ASSUME src = "logs", last' = "EOF" PROVE fin /\ Len(got) = written
  <2>1. part = <<>> /\ e \in {"fin", "empty"}
    BY <1>1, <1>4 DEF FullError, ErrorOf
  <2>2. body = "stream"
    BY <1>4 DEF IInv, Control
  <2>3. fin /\ wire = <<>>
    BY <1>1, <2>1, <2>2 DEF CanEnd, EndsOtherwise
  <2>4. Len(got) = written
    BY <1>1, <2>1, <2>3, EndIsTheEnd
  <2> QED BY <2>3, <2>4
<1>5. Promise!Finish(last')
  BY <1>1, <1>2, <1>4 DEF Promise!Finish
<1> QED BY <1>3, <1>5 DEF Promise!Next

LEMMA RefineNext ==
  ASSUME IInv, [Next]_vars
  PROVE  [Promise!Next]_(Promise!vars)
<1>1. CASE StartExec \/ StartLogs \/ Fill \/ Read \/ Close \/ Cancel
  <2>1. UNCHANGED <<src, written, fin, got, last>>
    BY <1>1 DEF StartExec, StartLogs, Go, Created, CreateFails, Dialed, DialFails,
       Written, WriteFails, HeadRead, HeadSwitches, HeadEnds, HeadFails, LogsOk,
       LogsFails, Fill, Read, Close, Cancel, daemonVars, userVars
  <2> QED BY <2>1 DEF Promise!vars
<1>2. CASE Deliver \/ PassThrough
  <2>1. /\ UNCHANGED <<src, written, fin, last>> /\ room > 0
        /\ Len(got) \in Nat /\ written \in Nat
    BY <1>2 DEF Deliver, PassThrough, Blocked, daemonVars, IInv, TypeOK
  <2>2. PICK n \in Nat \ {0} : got' = Upto(Len(got) + n) /\ Len(got) + n <= written
    BY <1>2, DeliverInv, PassThroughInv
  <2>3. last = "nil"
    BY <2>1 DEF IInv, Control
  <2>4. Len(got) + n \in (Len(got) + 1)..written
    BY <2>1, <2>2
  <2>5. got' = Promise!Upto(Len(got) + n)
    BY <2>2 DEF Upto, Promise!Upto
  <2>6. Promise!Deliver
    BY <2>1, <2>3, <2>4, <2>5 DEF Promise!Deliver
  <2> QED BY <2>6 DEF Promise!Next
<1>3. CASE \E e \in Ends : Fail(e)
  BY <1>3, RefineFail
<1>4. CASE \E n \in FrameSizes : WriteFrame(n)
  <2>1. PICK n \in FrameSizes : WriteFrame(n)
    BY <1>4
  <2>2. n \in Nat /\ written \in Nat
    BY Constants DEF IInv, TypeOK
  <2>3. /\ ~fin /\ written' = written + n
        /\ UNCHANGED <<src, fin, got, last>>
    BY <2>1 DEF WriteFrame, Streaming, userVars
  <2>4. CASE n = 0
    BY <2>2, <2>3, <2>4 DEF Promise!vars
  <2>5. CASE n # 0
    <3>1. Promise!Write
      BY <2>2, <2>3, <2>5 DEF Promise!Write
    <3> QED BY <3>1 DEF Promise!Next
  <2> QED BY <2>4, <2>5
<1>5. CASE End
  <2>1. Promise!End
    BY <1>5 DEF End, Streaming, userVars, Promise!End
  <2> QED BY <2>1 DEF Promise!Next
<1>6. CASE UNCHANGED vars
  BY <1>6 DEF vars, daemonVars, userVars, Promise!vars
<1> QED BY <1>1, <1>2, <1>3, <1>4, <1>5, <1>6 DEF Next, Progress

\* The reader that Exec and Logs return, over frames cut at any byte, is a
\* Pipe: it delivers the output in order, and the EOF of Logs comes only after
\* all of it.
THEOREM ImplementsPipe == Spec => KeepsPipe
<1>1. Init => Promise!Init
  BY DEF Init, Promise!Init
<1>2. IInv /\ [Next]_vars => [Promise!Next]_(Promise!vars)
  BY RefineNext
<1> QED BY <1>1, <1>2, Inductive, PTL DEF Spec, KeepsPipe, Promise!Spec
================================================================================
