--------------------------- MODULE SequenceLemmas ---------------------------
(***************************************************************************)
(* What the proofs about several components need of sequences, beyond the  *)
(* library: a queue in two parts, and pieces of a stream.                  *)
(***************************************************************************)
EXTENDS Naturals, Sequences, TLAPS, SequenceTheorems

-----------------------------------------------------------------------------
(* Head and tail *)

(* The elements of a tail are those after the first. *)
LEMMA TailEntries ==
  ASSUME NEW S, NEW s \in Seq(S), s # <<>>
  PROVE  /\ Len(Tail(s)) = Len(s) - 1
         /\ \A j \in DOMAIN Tail(s) : j \in Nat /\ j + 1 \in DOMAIN s /\ j + 1 # 1 /\ Tail(s)[j] = s[j + 1]
<1>1. Len(s) \in Nat /\ DOMAIN s = 1 .. Len(s) /\ Len(s) # 0
  BY LenProperties, EmptySeq
<1>2. /\ Tail(s) \in Seq(S) /\ Len(Tail(s)) = Len(s) - 1
      /\ \A j \in 1 .. Len(s) - 1 : Tail(s)[j] = s[j + 1]
  BY HeadTailProperties
<1>3. DOMAIN Tail(s) = 1 .. Len(s) - 1
  BY <1>2, LenProperties
<1> QED BY <1>1, <1>2, <1>3

(* The elements of a sequence are its head and those of its tail.          *)
LEMMA HeadAndTail ==
  ASSUME NEW S, NEW s \in Seq(S), s # <<>>
  PROVE  /\ Head(s) \in S /\ Tail(s) \in Seq(S) /\ 1 \in DOMAIN s /\ Head(s) = s[1]
         /\ \A j \in DOMAIN Tail(s) : \E i \in DOMAIN s : i \in 2 .. Len(s) /\ Tail(s)[j] = s[i]
         /\ \A i \in DOMAIN s : s[i] = Head(s) \/ \E j \in DOMAIN Tail(s) : Tail(s)[j] = s[i]
         /\ \A i \in DOMAIN s : s[i] = Head(s) \/ i \in 2 .. Len(s)
<1> DEFINE u == Tail(s)
<1>1. /\ Len(s) \in Nat \ {0} /\ DOMAIN s = 1 .. Len(s) /\ DOMAIN u = 1 .. Len(s) - 1
      /\ Head(s) = s[1] /\ Head(s) \in S /\ u \in Seq(S)
      /\ \A i \in 1 .. Len(s) - 1 : u[i] = s[i + 1]
  BY HeadTailProperties, LenProperties, EmptySeq
<1> HIDE DEF u
<1>2. \A j \in 1 .. Len(s) - 1 : j + 1 \in 2 .. Len(s) /\ j + 1 \in 1 .. Len(s) /\ u[j] = s[j + 1]
  BY <1>1
<1>3. \A i \in 2 .. Len(s) : i - 1 \in 1 .. Len(s) - 1 /\ u[i - 1] = s[i]
  BY <1>1
<1>4. \A i \in 1 .. Len(s) : i = 1 \/ i \in 2 .. Len(s)
  BY <1>1
<1>5. \A j \in DOMAIN u : \E i \in DOMAIN s : i \in 2 .. Len(s) /\ u[j] = s[i]
  BY <1>1, <1>2
<1>6. \A i \in DOMAIN s : s[i] = Head(s) \/ \E j \in DOMAIN u : u[j] = s[i]
  BY <1>1, <1>3, <1>4
<1> QED BY <1>1, <1>4, <1>5, <1>6 DEF u

-----------------------------------------------------------------------------
(* A queue in two parts *)

(* The queue b \o p is what is left of b, and then p. *)
LEMMA Joined ==
  ASSUME NEW S, NEW b \in Seq(S), NEW p \in Seq(S)
  PROVE  /\ b \o p \in Seq(S) /\ <<>> \o p = p
         /\ Len(b) \in 0 .. Len(b \o p)
         /\ \A c \in S : b \o Append(p, c) = Append(b \o p, c)
         /\ {(b \o p)[i] : i \in 1 .. Len(b)} = {b[i] : i \in 1 .. Len(b)}
         /\ SubSeq(b \o p, Len(b) + 1, Len(b \o p)) = p
<1>1. /\ Len(b) \in Nat /\ Len(p) \in Nat /\ DOMAIN b = 1 .. Len(b)
      /\ b \o p \in Seq(S) /\ Len(b \o p) = Len(b) + Len(p)
      /\ \A i \in 1 .. Len(b) : (b \o p)[i] = b[i]
  BY ConcatProperties, LenProperties
<1>2. <<>> \o p = p
  BY ConcatEmptySeq
<1>3. \A c \in S : b \o Append(p, c) = Append(b \o p, c)
  <2> TAKE c \in S
  <2>1. <<c>> \in Seq(S)
    OBVIOUS
  <2>2. Append(p, c) = p \o <<c>> /\ Append(b \o p, c) = (b \o p) \o <<c>>
    BY <1>1, AppendIsConcat
  <2> QED BY <2>1, <2>2, ConcatAssociative
<1>4. {(b \o p)[i] : i \in 1 .. Len(b)} = {b[i] : i \in 1 .. Len(b)}
  BY <1>1
<1>5. SubSeq(b \o p, Len(b) + 1, Len(b \o p)) = p
  <2>1. CASE p = <<>>
    <3>1. Len(p) = 0
      BY <2>1, EmptySeq
    <3> QED BY <1>1, <2>1, <3>1, SubSeqEmpty
  <2>2. CASE p # <<>>
    <3>1. Len(p) > 0
      BY <2>2, <1>1, EmptySeq
    <3>2. SubSeq(b \o p, Len(b) + 1, Len(b) + Len(p)) = SubSeq(p, Len(b) + 1 - Len(b), Len(b) + Len(p) - Len(b))
      BY <1>1, <3>1, SubSeqOfConcat2
    <3>3. Len(b) + 1 - Len(b) = 1 /\ Len(b) + Len(p) - Len(b) = Len(p)
      BY <1>1
    <3> QED BY <1>1, <3>2, <3>3, SubSeqFull
  <2> QED BY <2>1, <2>2
<1> QED BY <1>1, <1>2, <1>3, <1>4, <1>5

(* Its head and its tail, while something is left of b. *)
LEMMA JoinedHead ==
  ASSUME NEW S, NEW b \in Seq(S), NEW p \in Seq(S), b # <<>>
  PROVE  /\ b \o p # <<>> /\ Head(b \o p) = Head(b) /\ Tail(b \o p) = Tail(b) \o p
         /\ {(b \o p)[i] : i \in 2 .. Len(b)} = {b[i] : i \in 2 .. Len(b)}
         /\ Len(b) \in 1 .. Len(b \o p)
<1> DEFINE q == b \o p
<1>1. /\ Len(b) \in Nat \ {0} /\ Len(p) \in Nat /\ Tail(b) \in Seq(S) /\ Head(b) = b[1]
      /\ Len(Tail(b)) = Len(b) - 1
      /\ \A i \in 1 .. Len(b) - 1 : Tail(b)[i] = b[i + 1]
  BY HeadTailProperties, LenProperties, EmptySeq
<1>2. /\ q \in Seq(S) /\ Len(q) = Len(b) + Len(p)
      /\ \A i \in 1 .. Len(b) + Len(p) : q[i] = IF i <= Len(b) THEN b[i] ELSE p[i - Len(b)]
  BY ConcatProperties
<1> HIDE DEF q
<1>3. q # <<>> /\ Len(b) \in 1 .. Len(q)
  BY <1>1, <1>2, EmptySeq
<1>4. /\ Head(q) = q[1] /\ Tail(q) \in Seq(S) /\ Len(Tail(q)) = Len(q) - 1
      /\ \A i \in 1 .. Len(q) - 1 : Tail(q)[i] = q[i + 1]
  BY <1>2, <1>3, HeadTailProperties
<1>5. Head(q) = Head(b)
  BY <1>1, <1>2, <1>4
<1>6. Tail(q) = Tail(b) \o p
  <2>1. /\ Tail(b) \o p \in Seq(S) /\ Len(Tail(b) \o p) = Len(b) - 1 + Len(p)
        /\ \A i \in 1 .. Len(b) - 1 + Len(p) :
              (Tail(b) \o p)[i] = IF i <= Len(b) - 1 THEN Tail(b)[i] ELSE p[i - (Len(b) - 1)]
    BY <1>1, ConcatProperties
  <2>2. Len(Tail(q)) = Len(Tail(b) \o p)
    BY <1>1, <1>2, <1>4, <2>1
  <2>3. ASSUME NEW i \in 1 .. Len(Tail(q)) PROVE Tail(q)[i] = (Tail(b) \o p)[i]
    <3>1. i \in Nat /\ i + 1 \in 1 .. Len(b) + Len(p) /\ i + 1 - Len(b) = i - (Len(b) - 1)
      BY <1>1, <1>2, <1>4
    <3>2. Tail(q)[i] = q[i + 1]
      BY <1>2, <1>4
    <3>3. CASE i <= Len(b) - 1
      BY <1>1, <1>2, <2>1, <2>2, <3>1, <3>2, <3>3
    <3>4. CASE ~(i <= Len(b) - 1)
      <4>1. ~(i + 1 <= Len(b))
        BY <1>1, <3>1, <3>4
      <4>2. q[i + 1] = p[i + 1 - Len(b)]
        BY <1>2, <3>1, <4>1
      <4>3. (Tail(b) \o p)[i] = p[i - (Len(b) - 1)]
        BY <2>1, <2>2, <3>4
      <4> QED BY <3>1, <3>2, <4>2, <4>3
    <3> QED BY <3>3, <3>4
  <2> QED BY <1>4, <2>1, <2>2, <2>3, SeqEqual
<1>7. {q[i] : i \in 2 .. Len(b)} = {b[i] : i \in 2 .. Len(b)}
  <2>1. \A i \in 2 .. Len(b) : q[i] = b[i]
    BY <1>1, <1>2
  <2> QED BY <2>1
<1> QED BY <1>3, <1>5, <1>6, <1>7 DEF q

-----------------------------------------------------------------------------
(* Pieces of a stream *)

(* The first n elements and what follows them. *)
LEMMA Pieces ==
  ASSUME NEW S, NEW q \in Seq(S), NEW n \in Nat
  PROVE  /\ SubSeq(q, n + 1, Len(q)) \in Seq(S)
         /\ n <= Len(q) => SubSeq(q, 1, n) \in Seq(S) /\ Len(SubSeq(q, 1, n)) = n
         /\ n <= Len(q) => Len(SubSeq(q, n + 1, Len(q))) = Len(q) - n
         /\ n >= Len(q) => SubSeq(q, n + 1, Len(q)) = <<>>
         /\ n <= Len(q) => SubSeq(q, 1, n) \o SubSeq(q, n + 1, Len(q)) = q
<1>1. Len(q) \in Nat /\ DOMAIN q = 1 .. Len(q) /\ \A i \in 1 .. Len(q) : q[i] \in S
  BY LenProperties, ElementOfSeq
<1>2. \A i \in n + 1 .. Len(q) : i \in 1 .. Len(q)
  BY <1>1
<1>3. /\ SubSeq(q, n + 1, Len(q)) \in Seq(S)
      /\ Len(SubSeq(q, n + 1, Len(q))) = IF n + 1 <= Len(q) THEN Len(q) - (n + 1) + 1 ELSE 0
  BY <1>1, <1>2, SubSeqProperties
<1>4. ASSUME n <= Len(q) PROVE SubSeq(q, 1, n) \in Seq(S) /\ Len(SubSeq(q, 1, n)) = n
  <2>1. \A i \in 1 .. n : q[i] \in S
    BY <1>1, <1>4
  <2>2. SubSeq(q, 1, n) \in Seq(S) /\ Len(SubSeq(q, 1, n)) = IF 1 <= n THEN n - 1 + 1 ELSE 0
    BY <2>1, SubSeqProperties
  <2> QED BY <2>2
<1>5. n >= Len(q) => SubSeq(q, n + 1, Len(q)) = <<>>
  BY <1>1, <1>3, EmptySeq
<1>6. ASSUME n <= Len(q) PROVE SubSeq(q, 1, n) \o SubSeq(q, n + 1, Len(q)) = q
  <2>1. 1 \in 1 .. Len(q) + 1 /\ n \in 1 - 1 .. Len(q) /\ Len(q) \in n .. Len(q)
    BY <1>1, <1>6
  <2>2. SubSeq(q, 1, n) \o SubSeq(q, n + 1, Len(q)) = SubSeq(q, 1, Len(q))
    BY <2>1, ConcatAdjacentSubSeq
  <2> QED BY <2>2, SubSeqFull
<1>7. n <= Len(q) => Len(SubSeq(q, n + 1, Len(q))) = Len(q) - n
  <2> DEFINE u == SubSeq(q, n + 1, Len(q))
  <2>1. Len(u) = IF n + 1 <= Len(q) THEN Len(q) - (n + 1) + 1 ELSE 0
    BY <1>3
  <2> HIDE DEF u
  <2>2. \A k, m \in Nat : m <= k => (IF m + 1 <= k THEN k - (m + 1) + 1 ELSE 0) = k - m
    OBVIOUS
  <2> QED BY <1>1, <2>1, <2>2 DEF u
<1> QED BY <1>3, <1>4, <1>5, <1>6, <1>7

(* An element crosses from the head of d to the end of c. *)
LEMMA Crossed ==
  ASSUME NEW S, NEW c \in Seq(S), NEW d \in Seq(S), d # <<>>
  PROVE  /\ Append(c, Head(d)) \in Seq(S) /\ Tail(d) \in Seq(S)
         /\ Len(Append(c, Head(d))) = Len(c) + 1 /\ Len(Tail(d)) = Len(d) - 1
         /\ Append(c, Head(d)) \o Tail(d) = c \o d
<1> DEFINE h == Head(d)
           t == Tail(d)
<1>1. /\ Len(d) \in Nat \ {0} /\ h \in S /\ h = d[1] /\ t \in Seq(S) /\ Len(t) = Len(d) - 1
      /\ \A i \in 1 .. Len(d) - 1 : t[i] = d[i + 1]
  BY HeadTailProperties, LenProperties, EmptySeq
<1> HIDE DEF h, t
<1>2. Append(c, h) \in Seq(S) /\ Len(Append(c, h)) = Len(c) + 1
  BY <1>1, AppendProperties
<1>3. <<h>> \in Seq(S) /\ Len(<<h>>) = 1 /\ <<h>>[1] = h
  BY <1>1
<1>4. Append(c, h) = c \o <<h>>
  BY <1>1, AppendIsConcat
<1>5. (c \o <<h>>) \o t = c \o (<<h>> \o t)
  BY <1>1, <1>3, ConcatAssociative, SMTT(30)
<1>6. <<h>> \o t = d
  <2>1. /\ <<h>> \o t \in Seq(S) /\ Len(<<h>> \o t) = 1 + Len(t)
        /\ \A i \in 1 .. 1 + Len(t) : (<<h>> \o t)[i] = IF i <= 1 THEN <<h>>[i] ELSE t[i - 1]
    BY <1>1, <1>3, ConcatProperties
  <2>2. Len(<<h>> \o t) = Len(d)
    BY <1>1, <2>1
  <2>3. ASSUME NEW i \in 1 .. Len(<<h>> \o t) PROVE (<<h>> \o t)[i] = d[i]
    <3>1. CASE i <= 1
      <4>1. i = 1
        BY <1>1, <2>2, <3>1
      <4> QED BY <1>1, <1>3, <2>1, <4>1
    <3>2. CASE ~(i <= 1)
      <4>1. i - 1 \in 1 .. Len(d) - 1 /\ i - 1 + 1 = i
        BY <1>1, <2>2, <3>2
      <4>2. (<<h>> \o t)[i] = t[i - 1]
        BY <2>1, <3>2
      <4> QED BY <1>1, <4>1, <4>2
    <3> QED BY <3>1, <3>2
  <2> QED BY <2>1, <2>2, <2>3, SeqEqual
<1> QED BY <1>1, <1>2, <1>4, <1>5, <1>6 DEF h, t

(* Dropping a elements and then b. *)
LEMMA Drops ==
  ASSUME NEW S, NEW q \in Seq(S), NEW a \in Nat, NEW b \in Nat, a + b <= Len(q)
  PROVE  LET d == SubSeq(q, a + 1, Len(q))
         IN  SubSeq(d, b + 1, Len(d)) = SubSeq(q, a + b + 1, Len(q))
<1> DEFINE n == Len(q)
           d == SubSeq(q, a + 1, n)
<1>1. n \in Nat
  BY LenProperties
<1>2. Len(d) = n - a
  BY <1>1, Pieces
<1>3. CASE a + b = n
  <2>1. n < a + b + 1 /\ n - a < b + 1 /\ n - a \in Int
    BY <1>1, <1>3
  <2>2. SubSeq(d, b + 1, n - a) = <<>> /\ SubSeq(q, a + b + 1, n) = <<>>
    <3> HIDE DEF d, n
    <3> QED BY <1>1, <2>1, SubSeqEmpty
  <2> QED BY <1>2, <2>2
<1>4. CASE a + b < n
  <2>1. /\ a + 1 \in 1 .. n /\ n \in 1 .. n /\ b + 1 \in 1 .. n - (a + 1) + 1 /\ n - a \in 1 .. n - (a + 1) + 1
        /\ a + 1 + (b + 1) - 1 = a + b + 1 /\ a + 1 + (n - a) - 1 = n
    BY <1>1, <1>4
  <2>2. SubSeq(d, b + 1, n - a) = SubSeq(q, a + 1 + (b + 1) - 1, a + 1 + (n - a) - 1)
    BY <2>1, SubSeqOfSubSeq
  <2> QED BY <1>2, <2>1, <2>2
<1> QED BY <1>1, <1>3, <1>4

(* A prefix and what follows it make a longer prefix. *)
LEMMA Grows ==
  ASSUME NEW S, NEW q \in Seq(S), NEW m \in Nat, NEW n \in Nat, m + n <= Len(q)
  PROVE  LET d == SubSeq(q, m + 1, Len(q))
         IN  SubSeq(q, 1, m) \o SubSeq(d, 1, n) = SubSeq(q, 1, m + n)
<1> DEFINE k == Len(q)
           d == SubSeq(q, m + 1, k)
<1>1. k \in Nat
  BY LenProperties
<1>2. SubSeq(d, 1, n) = SubSeq(q, m + 1, m + n)
  <2>1. CASE n = 0
    <3>1. SubSeq(d, 1, 0) = <<>> /\ SubSeq(q, m + 1, m + 0) = <<>>
      <4> HIDE DEF d
      <4> QED BY SubSeqEmpty
    <3> QED BY <2>1, <3>1
  <2>2. CASE n # 0
    <3>1. /\ m + 1 \in 1 .. k /\ k \in 1 .. k /\ 1 \in 1 .. k - (m + 1) + 1 /\ n \in 1 .. k - (m + 1) + 1
          /\ m + 1 + 1 - 1 = m + 1 /\ m + 1 + n - 1 = m + n
      BY <1>1, <2>2
    <3>2. SubSeq(d, 1, n) = SubSeq(q, m + 1 + 1 - 1, m + 1 + n - 1)
      BY <3>1, SubSeqOfSubSeq
    <3> QED BY <3>1, <3>2
  <2> QED BY <2>1, <2>2
<1>3. 1 \in 1 .. k + 1 /\ m \in 1 - 1 .. k /\ m + n \in m .. k
  BY <1>1
<1>4. SubSeq(q, 1, m) \o SubSeq(q, m + 1, m + n) = SubSeq(q, 1, m + n)
  BY <1>3, ConcatAdjacentSubSeq
<1> QED BY <1>2, <1>4
=============================================================================
