--------------------------- MODULE BufferedWriter ---------------------------
(***************************************************************************)
(* buffered_writer (src/src/detail/common.h): a bounded buffer in front of *)
(* a writer that takes only part of what it is offered.  The caller offers *)
(* the bytes of one stream in order, 1, 2, 3, ..., and offers again what   *)
(* was not taken, as the test buffered_writer_test does.                   *)
(***************************************************************************)
EXTENDS Naturals, Sequences

CONSTANTS BufferSize,   \* buffer_size_, the capacity reserved at construction
          MaxOffer,     \* bound: bytes offered by one call of write
          MaxStream     \* bound: bytes taken in a behaviour

ASSUME SizeAssumption == BufferSize \in Nat /\ MaxOffer \in Nat /\ MaxStream \in Nat

VARIABLES buffer_,        \* bytes taken and not yet given to the writer
          out,            \* history: bytes given to the writer
          taken,          \* history: how many bytes write has returned in all
          write_enabled,  \* the writer's own answer to write_enabled()
          last            \* the last call of write: bytes offered, bytes taken

vars == <<buffer_, out, taken, write_enabled, last>>

Lesser(a, b) == IF a <= b THEN a ELSE b
Drop(q, n) == SubSeq(q, n + 1, Len(q))
Take(q, n) == SubSeq(q, 1, n)

(* The next len bytes of the caller's stream after the first n. *)
Stream(n, len) == [i \in 1..len |-> n + i]

Init ==
    /\ buffer_ = <<>> /\ out = <<>> /\ taken = 0
    /\ write_enabled = TRUE
    /\ last = [offered |-> 0, returned |-> 0]

(* add_to_buffer: as many bytes as the reserved capacity has room for.     *)
FitsUnchecked(q) == Len(q)        \* mutant: the free capacity is not looked at
Fits(q) == Lesser(Len(q), BufferSize - Len(buffer_))
AddToBuffer(q) == buffer_ \o Take(q, Fits(q))

Returns(len, n) ==
    /\ taken' = taken + n
    /\ last' = [offered |-> len, returned |-> n]

(* Mutant: nothing is taken while bytes wait. *)
WriteBehindRefuses(len) ==
    /\ buffer_ # <<>> \/ ~write_enabled
    /\ Returns(len, 0)
    /\ UNCHANGED <<buffer_, out, write_enabled>>

(* Bytes already buffered, or a writer that is not enabled: the new bytes  *)
(* queue up behind them.                                                   *)
WriteBehind(len) ==
    LET q == Stream(taken, len) IN
    /\ buffer_ # <<>> \/ ~write_enabled
    /\ buffer_' = AddToBuffer(q)
    /\ Returns(len, Fits(q))
    /\ UNCHANGED <<out, write_enabled>>

(* Mutant: a writer that is enabled is written to although bytes wait.     *)
WriteThroughAlways(len) ==
    LET q == Stream(taken, len) IN
    /\ write_enabled
    /\ \E n \in 0..len :
          /\ out' = out \o Take(q, n)
          /\ buffer_' = AddToBuffer(Drop(q, n))
          /\ Returns(len, n + Fits(Drop(q, n)))
          /\ write_enabled' \in {TRUE, n = len}

(* The writer takes n of the bytes, and what it leaves is buffered. A      *)
(* writer that takes less than everything may have disabled itself.        *)
WriteThrough(len) ==
    LET q == Stream(taken, len) IN
    /\ buffer_ = <<>> /\ write_enabled
    /\ \E n \in 0..len :
          /\ out' = out \o Take(q, n)
          /\ buffer_' = AddToBuffer(Drop(q, n))
          /\ Returns(len, n + Fits(Drop(q, n)))
          /\ write_enabled' \in {TRUE, n = len}

Write ==
    \E len \in 0..MaxOffer :
        /\ taken + len <= MaxStream
        /\ WriteBehind(len) \/ WriteThrough(len)

(* Mutant: the whole buffer is cleared after a partial write.              *)
WriteBufferedClears ==
    \E n \in 0..Len(buffer_) :
        /\ buffer_ # <<>>
        /\ out' = out \o Take(buffer_, n)
        /\ buffer_' = IF n > 0 THEN <<>> ELSE buffer_
        /\ write_enabled' \in {write_enabled, n = Len(buffer_)}
        /\ UNCHANGED <<taken, last>>

WriteBuffered ==
    \E n \in 0..Len(buffer_) :
        /\ buffer_ # <<>>
        /\ out' = out \o Take(buffer_, n)
        /\ buffer_' = Drop(buffer_, n)
        /\ write_enabled' \in {write_enabled, n = Len(buffer_)}
        /\ UNCHANGED <<taken, last>>

(* The writer becomes writable again (EPOLLOUT). *)
Enable ==
    /\ ~write_enabled
    /\ write_enabled' = TRUE
    /\ UNCHANGED <<buffer_, out, taken, last>>

Next == Write \/ WriteBuffered \/ Enable

Spec == Init /\ [][Next]_vars

-----------------------------------------------------------------------------
(* The writer is handed exactly the caller's stream: whatever mix of       *)
(* partial writes and buffering, the bytes taken are the ones written out  *)
(* followed by the ones still buffered, in order.                          *)
Fifo == out \o buffer_ = Stream(0, taken)

(* The buffer never outgrows its reserved capacity, so add_to_buffer never *)
(* throws.                                                                 *)
TypeOK ==
    /\ buffer_ \in Seq(1..MaxStream) /\ out \in Seq(1..MaxStream)
    /\ Len(buffer_) <= BufferSize
    /\ taken \in 0..MaxStream
    /\ write_enabled \in BOOLEAN
    /\ last \in [offered : 0..MaxOffer, returned : 0..MaxOffer]

(* write takes less than it was offered only when the buffer is full: a    *)
(* caller that gets a short count knows that write_buffered has to make    *)
(* room before it is worth offering again.                                 *)
ShortOnlyWhenFull ==
    [][(taken' # taken \/ last' # last) /\ last'.returned < last'.offered => Len(buffer_') = BufferSize]_vars
=============================================================================
