------------------------ MODULE BufferedWriterProofs ------------------------
(***************************************************************************)
(* Proofs about BufferedWriter, for every buffer size and stream length.   *)
(***************************************************************************)
EXTENDS BufferedWriter, TLAPS, SequenceTheorems

USE SizeAssumption DEF SizeAssumption

-----------------------------------------------------------------------------
(* Facts about the caller's stream and about splitting a sequence.         *)

Bytes == 1..MaxStream

(* A piece of the stream: its type, its length, its elements. *)
LEMMA StreamFacts ==
  ASSUME NEW n \in Nat, NEW len \in Nat, n + len <= MaxStream
  PROVE  /\ Stream(n, len) \in Seq(Bytes)
         /\ Len(Stream(n, len)) = len
         /\ \A i \in 1..len : Stream(n, len)[i] = n + i
  BY DEF Stream, Bytes

(* The two parts of a split: their types, lengths and elements. *)
LEMMA SplitFacts ==
  ASSUME NEW S, NEW q \in Seq(S), NEW n \in 0..Len(q)
  PROVE  /\ Take(q, n) \in Seq(S) /\ Len(Take(q, n)) = n
         /\ Drop(q, n) \in Seq(S) /\ Len(Drop(q, n)) = Len(q) - n
         /\ \A i \in 1..n : Take(q, n)[i] = q[i]
         /\ \A i \in 1..Len(q) - n : Drop(q, n)[i] = q[n + i]
<1>1. \A i \in 1..Len(q) : q[i] \in S
  BY ElementOfSeq
<1>2. Len(q) \in Nat /\ n \in Nat /\ n <= Len(q)
  BY LenProperties
<1>3. /\ Take(q, n) \in Seq(S) /\ Len(Take(q, n)) = n /\ \A i \in 1..n : Take(q, n)[i] = q[i]
  BY <1>1, <1>2, SubSeqProperties DEF Take
<1>4. /\ Drop(q, n) \in Seq(S) /\ Len(Drop(q, n)) = Len(q) - n
      /\ \A i \in 1..Len(q) - n : Drop(q, n)[i] = q[n + i]
  BY <1>1, <1>2, SubSeqProperties DEF Drop
<1> QED BY <1>3, <1>4

(* The two parts of a split make the whole. *)
LEMMA SplitJoin ==
  ASSUME NEW S, NEW q \in Seq(S), NEW n \in 0..Len(q)
  PROVE  Take(q, n) \o Drop(q, n) = q
<1> DEFINE a == Take(q, n)
           b == Drop(q, n)
           r == a \o b
<1>0. /\ a \in Seq(S) /\ Len(a) = n /\ b \in Seq(S) /\ Len(b) = Len(q) - n
      /\ Len(q) \in Nat
      /\ \A i \in 1..n : a[i] = q[i]
      /\ \A i \in 1..Len(q) - n : b[i] = q[n + i]
  BY SplitFacts, LenProperties
<1> HIDE DEF a, b
<1>1. /\ r \in Seq(S) /\ Len(r) = Len(q)
      /\ \A i \in 1..Len(q) : r[i] = IF i <= n THEN a[i] ELSE b[i - n]
  <2>1. n + (Len(q) - n) = Len(q)
    BY <1>0
  <2> QED BY <1>0, <2>1, ConcatProperties
<1> HIDE DEF r
<1>2. \A i \in 1..Len(q) : r[i] = q[i]
  <2> SUFFICES ASSUME NEW i \in 1..Len(q) PROVE r[i] = q[i]
    OBVIOUS
  <2>1. CASE i <= n
    BY <1>0, <1>1, <2>1
  <2>2. CASE ~(i <= n)
    <3>1. i - n \in 1..Len(q) - n /\ n + (i - n) = i
      BY <1>0, <2>2
    <3> QED BY <1>0, <1>1, <2>2, <3>1
  <2> QED BY <2>1, <2>2
<1> QED BY <1>1, <1>2, SeqEqual DEF a, b, r

(* The stream up to n followed by the next len bytes is the stream up to   *)
(* n + len.                                                                *)
LEMMA StreamExtends ==
  ASSUME NEW n \in Nat, NEW len \in Nat, n + len <= MaxStream
  PROVE  Stream(0, n) \o Stream(n, len) = Stream(0, n + len)
<1> DEFINE a == Stream(0, n)
           b == Stream(n, len)
           c == Stream(0, n + len)
           r == a \o b
<1>1. a \in Seq(Bytes) /\ Len(a) = n /\ \A i \in 1..n : a[i] = i
  <2>1. 0 + n <= MaxStream /\ \A i \in 1..n : 0 + i = i
    OBVIOUS
  <2> HIDE DEF a
  <2> QED BY <2>1, StreamFacts DEF a
<1>2. b \in Seq(Bytes) /\ Len(b) = len /\ \A i \in 1..len : b[i] = n + i
  BY StreamFacts
<1>3. c \in Seq(Bytes) /\ Len(c) = n + len /\ \A i \in 1..n + len : c[i] = i
  <2>1. 0 + (n + len) <= MaxStream /\ n + len \in Nat /\ \A i \in 1..n + len : 0 + i = i
    OBVIOUS
  <2> QED BY <2>1, StreamFacts
<1> HIDE DEF a, b, c
<1>4. /\ r \in Seq(Bytes) /\ Len(r) = n + len
      /\ \A i \in 1..n + len : r[i] = IF i <= n THEN a[i] ELSE b[i - n]
  BY <1>1, <1>2, ConcatProperties
<1> HIDE DEF r
<1>5. \A i \in 1..n + len : r[i] = c[i]
  <2> SUFFICES ASSUME NEW i \in 1..n + len PROVE r[i] = i
    BY <1>3
  <2>1. CASE i <= n
    BY <1>1, <1>4, <2>1
  <2>2. CASE ~(i <= n)
    <3>1. i - n \in 1..len /\ n + (i - n) = i
      BY <2>2
    <3> QED BY <1>2, <1>4, <2>2, <3>1
  <2> QED BY <2>1, <2>2
<1>6. r = c
  BY <1>3, <1>4, <1>5, SeqEqual
<1> QED BY <1>6 DEF a, b, c, r

(* Concatenation is associative. *)
LEMMA ThreeParts ==
  \A a, b, c \in Seq(Bytes) : (a \o b) \o c = a \o (b \o c)
BY ConcatAssociative

(* Taking and dropping k bytes of what the caller offers. *)
LEMMA StreamSplit ==
  ASSUME NEW n \in Nat, NEW len \in Nat, n + len <= MaxStream, NEW k \in 0..len
  PROVE  /\ Take(Stream(n, len), k) = Stream(n, k)
         /\ Drop(Stream(n, len), k) = Stream(n + k, len - k)
<1> DEFINE q == Stream(n, len)
           t == Take(q, k)
           d == Drop(q, k)
           u == Stream(n, k)
           v == Stream(n + k, len - k)
<1>1. q \in Seq(Bytes) /\ Len(q) = len /\ \A i \in 1..len : q[i] = n + i
  BY StreamFacts
<1> HIDE DEF q
<1>2. /\ t \in Seq(Bytes) /\ Len(t) = k /\ \A i \in 1..k : t[i] = q[i]
      /\ d \in Seq(Bytes) /\ Len(d) = len - k /\ \A i \in 1..len - k : d[i] = q[k + i]
  BY <1>1, SplitFacts, ZenonT(30)
<1>3. u \in Seq(Bytes) /\ Len(u) = k /\ \A i \in 1..k : u[i] = n + i
  BY StreamFacts
<1>4. v \in Seq(Bytes) /\ Len(v) = len - k /\ \A i \in 1..len - k : v[i] = (n + k) + i
  <2>1. n + k \in Nat /\ len - k \in Nat /\ (n + k) + (len - k) <= MaxStream
    OBVIOUS
  <2> QED BY <2>1, StreamFacts
<1> HIDE DEF t, d, u, v
<1>5. \A i \in 1..k : t[i] = u[i]
  BY <1>1, <1>2, <1>3
<1>6. \A i \in 1..len - k : d[i] = v[i]
  BY <1>1, <1>2, <1>4
<1>7. t = u
  BY <1>2, <1>3, <1>5, SeqEqual
<1>8. d = v
  BY <1>2, <1>4, <1>6, SeqEqual
<1> QED BY <1>7, <1>8 DEF q, t, d, u, v

-----------------------------------------------------------------------------
(* What a call of write adds to the buffer, and to the stream.             *)

(* Fits keeps to the free capacity and to what is offered. *)
LEMMA FitsFacts ==
  ASSUME TypeOK, NEW q \in Seq(Bytes)
  PROVE  /\ Fits(q) \in 0..Len(q)
         /\ Len(buffer_) + Fits(q) <= BufferSize
         /\ Fits(q) < Len(q) => Len(buffer_) + Fits(q) = BufferSize
<1>1. Len(q) \in Nat /\ Len(buffer_) \in Nat /\ Len(buffer_) <= BufferSize
  BY LenProperties DEF TypeOK
<1> QED BY <1>1 DEF Fits, Lesser

(* Bytes m+1 .. m+len of the stream, offered to a buffer: f of them fit.   *)
LEMMA AddFacts ==
  ASSUME TypeOK, NEW m \in Nat, NEW len \in Nat, m + len <= MaxStream,
         NEW f, f = Fits(Stream(m, len))
  PROVE  /\ f \in 0..len
         /\ AddToBuffer(Stream(m, len)) = buffer_ \o Stream(m, f)
         /\ AddToBuffer(Stream(m, len)) \in Seq(Bytes)
         /\ Len(AddToBuffer(Stream(m, len))) = Len(buffer_) + f
         /\ Len(buffer_) + f <= BufferSize
         /\ f < len => Len(buffer_) + f = BufferSize
<1> DEFINE q == Stream(m, len)
<1>1. q \in Seq(Bytes) /\ Len(q) = len /\ buffer_ \in Seq(Bytes)
  BY StreamFacts DEF TypeOK, Bytes
<1>2. f \in 0..len /\ Len(buffer_) + f <= BufferSize /\ (f < len => Len(buffer_) + f = BufferSize)
  BY <1>1, FitsFacts
<1>3. Take(q, f) = Stream(m, f)
  BY <1>2, StreamSplit
<1>4. AddToBuffer(q) = buffer_ \o Stream(m, f)
  BY <1>3 DEF AddToBuffer
<1>5. Stream(m, f) \in Seq(Bytes) /\ Len(Stream(m, f)) = f
  <2>1. f \in Nat /\ m + f <= MaxStream
    BY <1>2
  <2> QED BY <2>1, StreamFacts
<1>6. buffer_ \o Stream(m, f) \in Seq(Bytes) /\ Len(buffer_ \o Stream(m, f)) = Len(buffer_) + f
  BY <1>1, <1>5, ConcatProperties, ZenonT(30)
<1> QED BY <1>2, <1>4, <1>6

-----------------------------------------------------------------------------
(* Fifo is inductive together with the type invariant.                     *)

Inv == TypeOK /\ Fifo

(* The invariant holds initially. *)
LEMMA InitInv == Init => Inv
<1> SUFFICES ASSUME Init PROVE Inv
  OBVIOUS
<1>1. <<>> \in Seq(1..MaxStream) /\ Len(<<>>) = 0
  BY EmptySeq
<1>2. write_enabled \in BOOLEAN
  BY Zenon DEF Init
<1>3. TypeOK
  BY <1>1, <1>2 DEF Init, TypeOK
<1>4. Stream(0, 0) \in Seq(Bytes) /\ Len(Stream(0, 0)) = 0
  <2>1. 0 \in Nat /\ 0 + 0 <= MaxStream
    OBVIOUS
  <2> QED BY <2>1, StreamFacts
<1>5. Stream(0, 0) = <<>> /\ <<>> \o <<>> = <<>>
  BY <1>4, EmptySeq, ConcatEmptySeq
<1> QED BY <1>3, <1>5 DEF Inv, Fifo, Init

(* A write behind buffered bytes keeps the invariant. *)
LEMMA WriteBehindStep ==
  ASSUME Inv, NEW len \in 0..MaxOffer, taken + len <= MaxStream, WriteBehind(len)
  PROVE  Inv' /\ (last'.returned < last'.offered => Len(buffer_') = BufferSize)
<1> DEFINE f == Fits(Stream(taken, len))
<1>1. /\ taken \in 0..MaxStream /\ len \in Nat /\ TypeOK
      /\ buffer_ \in Seq(Bytes) /\ out \in Seq(Bytes) /\ out \o buffer_ = Stream(0, taken)
  BY DEF Inv, TypeOK, Fifo, Bytes
<1> DEFINE b == AddToBuffer(Stream(taken, len))
<1>2. taken \in Nat /\ len \in Nat /\ taken + len <= MaxStream /\ f = Fits(Stream(taken, len))
  BY <1>1
<1>3. /\ f \in 0..len /\ b = buffer_ \o Stream(taken, f) /\ b \in Seq(Bytes)
      /\ Len(b) = Len(buffer_) + f /\ Len(buffer_) + f <= BufferSize
      /\ f < len => Len(buffer_) + f = BufferSize
  <2> HIDE DEF f
  <2> QED BY <1>2, <1>1, AddFacts
<1>4. buffer_' = b
  BY DEF WriteBehind
<1>5. /\ f \in 0..len /\ buffer_' = buffer_ \o Stream(taken, f) /\ buffer_' \in Seq(Bytes)
      /\ Len(buffer_') <= BufferSize /\ (f < len => Len(buffer_') = BufferSize)
  <2> HIDE DEF f, b
  <2> QED BY <1>3, <1>4
<1>6. f \in Nat /\ taken + f <= MaxStream
  <2> HIDE DEF f
  <2> QED BY <1>2, <1>5
<1>7. /\ taken' = taken + f /\ last' = [offered |-> len, returned |-> f]
      /\ out' = out /\ write_enabled' = write_enabled
  BY DEF WriteBehind, Returns
<1> HIDE DEF f, b
<1>8. TypeOK'
  BY <1>1, <1>5, <1>7 DEF TypeOK, Bytes
<1>9. out' \o buffer_' = (out \o buffer_) \o Stream(taken, f)
  <2>1. Stream(taken, f) \in Seq(Bytes)
    BY <1>2, <1>6, StreamFacts
  <2>2. (out \o buffer_) \o Stream(taken, f) = out \o (buffer_ \o Stream(taken, f))
    BY <1>1, <2>1, ThreeParts, Zenon
  <2> QED BY <1>5, <1>7, <2>2
<1>10. Stream(0, taken) \o Stream(taken, f) = Stream(0, taken + f)
  BY <1>2, <1>6, StreamExtends
<1> QED BY <1>1, <1>5, <1>7, <1>8, <1>9, <1>10 DEF Inv, Fifo

(* A write to the writer keeps the invariant. *)
LEMMA WriteThroughStep ==
  ASSUME Inv, NEW len \in 0..MaxOffer, taken + len <= MaxStream, WriteThrough(len)
  PROVE  Inv' /\ (last'.returned < last'.offered => Len(buffer_') = BufferSize)
<1> DEFINE q == Stream(taken, len)
<1>1. PICK n \in 0..len :
         /\ out' = out \o Take(q, n) /\ buffer_' = AddToBuffer(Drop(q, n))
         /\ Returns(len, n + Fits(Drop(q, n))) /\ write_enabled' \in {TRUE, n = len}
  BY DEF WriteThrough
<1>2. /\ taken \in 0..MaxStream /\ len \in Nat /\ TypeOK /\ buffer_ = <<>>
      /\ out \in Seq(Bytes) /\ out \o buffer_ = Stream(0, taken)
  BY DEF Inv, TypeOK, Fifo, Bytes, WriteThrough
<1>3. Take(q, n) = Stream(taken, n) /\ Drop(q, n) = Stream(taken + n, len - n)
  BY <1>2, StreamSplit
<1> DEFINE f == Fits(Stream(taken + n, len - n))
<1>4. taken + n \in Nat /\ len - n \in Nat /\ (taken + n) + (len - n) <= MaxStream
  BY <1>2
<1>5. /\ f \in 0..len - n /\ buffer_' = buffer_ \o Stream(taken + n, f) /\ buffer_' \in Seq(Bytes)
      /\ Len(buffer_') <= BufferSize /\ (f < len - n => Len(buffer_') = BufferSize)
  BY <1>1, <1>2, <1>3, <1>4, AddFacts, SMTT(30)
<1>6. taken' = taken + (n + f) /\ last' = [offered |-> len, returned |-> n + f]
  BY <1>1, <1>3 DEF Returns
<1>7. out' = out \o Stream(taken, n)
  BY <1>1, <1>3
<1> HIDE DEF f, q
<1>8. /\ Stream(taken, n) \in Seq(Bytes) /\ Stream(taken + n, f) \in Seq(Bytes)
      /\ out' \in Seq(Bytes)
  <2>1. n \in Nat /\ f \in Nat /\ taken + n <= MaxStream /\ (taken + n) + f <= MaxStream
    BY <1>2, <1>4, <1>5
  <2>2. Stream(taken, n) \in Seq(Bytes) /\ Stream(taken + n, f) \in Seq(Bytes)
    BY <1>2, <1>4, <2>1, StreamFacts
  <2> QED BY <1>2, <1>7, <2>2, ConcatProperties
<1>9. write_enabled' \in BOOLEAN
  BY <1>1, Zenon
<1>10. TypeOK'
  BY <1>2, <1>5, <1>6, <1>8, <1>9 DEF TypeOK, Bytes
<1>11. /\ taken \in Nat /\ n \in Nat /\ f \in Nat /\ taken + n \in Nat
      /\ taken + n <= MaxStream /\ (taken + n) + f <= MaxStream
  BY <1>2, <1>4, <1>5
<1>12. out = Stream(0, taken) /\ buffer_' = Stream(taken + n, f)
  BY <1>2, <1>5, <1>8, ConcatEmptySeq
<1>13. out' = Stream(0, taken + n)
  <2>1. Stream(0, taken) \o Stream(taken, n) = Stream(0, taken + n)
    BY <1>11, StreamExtends
  <2> QED BY <1>7, <1>12, <2>1
<1>14. Stream(0, taken + n) \o Stream(taken + n, f) = Stream(0, (taken + n) + f)
  BY <1>11, StreamExtends
<1>15. (taken + n) + f = taken' /\ (n + f < len => f < len - n)
  BY <1>2, <1>5, <1>6
<1> QED BY <1>5, <1>6, <1>10, <1>12, <1>13, <1>14, <1>15 DEF Inv, Fifo

(* write_buffered keeps the invariant. *)
LEMMA WriteBufferedStep == Inv /\ WriteBuffered => Inv'
<1> SUFFICES ASSUME Inv, WriteBuffered PROVE Inv'
  OBVIOUS
<1>1. PICK n \in 0..Len(buffer_) :
         /\ out' = out \o Take(buffer_, n) /\ buffer_' = Drop(buffer_, n)
         /\ write_enabled' \in {write_enabled, n = Len(buffer_)}
         /\ UNCHANGED <<taken, last>>
  BY DEF WriteBuffered
<1>2. buffer_ \in Seq(Bytes) /\ out \in Seq(Bytes) /\ Len(buffer_) \in Nat
  BY LenProperties DEF Inv, TypeOK, Bytes
<1>3. /\ Take(buffer_, n) \in Seq(Bytes) /\ Drop(buffer_, n) \in Seq(Bytes)
      /\ Len(Drop(buffer_, n)) = Len(buffer_) - n
      /\ Take(buffer_, n) \o Drop(buffer_, n) = buffer_
  BY <1>2, SplitFacts, SplitJoin
<1>4. out' \in Seq(Bytes)
  BY <1>1, <1>2, <1>3, ConcatProperties
<1>5. write_enabled' \in BOOLEAN
  BY <1>1, Zenon DEF Inv, TypeOK
<1>6. TypeOK'
  BY <1>1, <1>2, <1>3, <1>4, <1>5 DEF Inv, TypeOK, Bytes
<1>7. out' \o buffer_' = out \o buffer_
  <2>1. (out \o Take(buffer_, n)) \o Drop(buffer_, n) = out \o (Take(buffer_, n) \o Drop(buffer_, n))
    BY <1>2, <1>3, ThreeParts
  <2> QED BY <1>1, <1>3, <2>1
<1> QED BY <1>1, <1>6, <1>7 DEF Inv, Fifo

(* Every step keeps the invariant. *)
LEMMA StepInv == Inv /\ [Next]_vars => Inv'
<1> SUFFICES ASSUME Inv, [Next]_vars PROVE Inv'
  OBVIOUS
<1>1. CASE Write
  BY <1>1, WriteBehindStep, WriteThroughStep DEF Write
<1>2. CASE WriteBuffered
  BY <1>2, WriteBufferedStep
<1>3. CASE Enable
  BY <1>3 DEF Enable, Inv, TypeOK, Fifo
<1>4. CASE UNCHANGED vars
  BY <1>4 DEF vars, Inv, TypeOK, Fifo
<1> QED BY <1>1, <1>2, <1>3, <1>4 DEF Next

(* The buffer keeps to its capacity, whatever the writer takes.            *)
THEOREM BufferBounded == Spec => []TypeOK
<1>1. Spec => []Inv
  BY InitInv, StepInv, PTL DEF Spec
<1> QED BY <1>1, PTL DEF Inv

(* The writer is handed the caller's stream unchanged, for every capacity, *)
(* every offer and every sequence of partial writes.                       *)
THEOREM StreamPreserved == Spec => []Fifo
<1>1. Spec => []Inv
  BY InitInv, StepInv, PTL DEF Spec
<1> QED BY <1>1, PTL DEF Inv

(* A short count means a full buffer. *)
THEOREM ShortMeansFull == Spec => ShortOnlyWhenFull
<1> DEFINE Short == (taken' # taken \/ last' # last) /\ last'.returned < last'.offered
                       => Len(buffer_') = BufferSize
<1>1. Inv /\ [Next]_vars => [Short]_vars
  <2> SUFFICES ASSUME Inv, [Next]_vars PROVE [Short]_vars
    OBVIOUS
  <2>1. CASE Write
    BY <2>1, WriteBehindStep, WriteThroughStep DEF Write
  <2>2. CASE WriteBuffered \/ Enable \/ UNCHANGED vars
    BY <2>2 DEF WriteBuffered, Enable, vars
  <2> QED BY <2>1, <2>2 DEF Next
<1>2. Spec => []Inv
  BY InitInv, StepInv, PTL DEF Spec
<1> QED BY <1>1, <1>2, PTL DEF Spec, ShortOnlyWhenFull
=============================================================================
