--------------------------- MODULE ExecLoopProofs ---------------------------
(***************************************************************************)
(* Proofs about ExecLoop, for every set of threads and every bound: types, *)
(* the order of invocation, the wake-up, and that ExecLoop implements      *)
(* CallbackQueue and loses callbacks only to exceptions.                   *)
(***************************************************************************)
EXTENDS ExecLoop, SequenceLemmas, TLAPS, FiniteSetTheorems, SequenceTheorems

USE BoundAssumption, EventFdAssumption DEF BoundAssumption, EventFdAssumption

-----------------------------------------------------------------------------
(* Type correctness *)

(* What the proofs need of sequences. *)
LEMMA SeqFacts ==
  ASSUME NEW S
  PROVE  /\ <<>> \in Seq(S)
         /\ \A s \in Seq(S) : s # <<>> => Head(s) \in S /\ Tail(s) \in Seq(S)
         /\ \A s \in Seq(S) : Elements(s) \subseteq S
  BY EmptySeq, HeadTailProperties, ElementOfSeq, LenProperties DEF Elements

(* What Push puts into the queue is a callback. *)
LEMMA CallbackType == ASSUME NEW k \in Kinds, handed \in 0..MaxTasks, handed < MaxTasks
                      PROVE  Callback(handed + 1, k) \in Callbacks
  BY DEF Callback, Callbacks

(* Pop takes a callback out of the batch and appends it to ran. *)
LEMMA PopType ==
  TypeOK /\ Pop => /\ batch # <<>> /\ Head(batch) \in Callbacks /\ Tail(batch) \in Seq(Callbacks)
                   /\ ran' \in Seq(Callbacks) /\ Elements(Tail(batch)) \subseteq Callbacks
<1> SUFFICES ASSUME TypeOK, Pop
             PROVE  /\ batch # <<>> /\ Head(batch) \in Callbacks /\ Tail(batch) \in Seq(Callbacks)
                    /\ ran' \in Seq(Callbacks) /\ Elements(Tail(batch)) \subseteq Callbacks
  OBVIOUS
<1>1. batch \in Seq(Callbacks) /\ batch # <<>> /\ ran \in Seq(Callbacks) /\ ran' = Append(ran, Head(batch))
  BY DEF TypeOK, Pop
<1>2. Head(batch) \in Callbacks /\ Tail(batch) \in Seq(Callbacks)
  BY <1>1, SeqFacts
<1>3. Elements(Tail(batch)) \subseteq Callbacks
  BY <1>2, SeqFacts
<1> QED BY <1>1, <1>2, <1>3

(* The initial state is well typed. *)
LEMMA InitType == Init => TypeOK
<1> SUFFICES ASSUME Init PROVE TypeOK
  OBVIOUS
<1>1. run \in BOOLEAN
  BY Zenon DEF Init
<1>2. /\ pending \in Seq(Callbacks) /\ batch \in Seq(Callbacks) /\ ran \in Seq(Callbacks)
      /\ events \in Seq({"exec", "other"}) /\ lost \in SUBSET Callbacks
  BY SeqFacts DEF Init
<1>3. exec \in [Threads -> {"none", "pushed", "counted"}] /\ mine \in [Threads -> Nat]
  BY DEF Init
<1> QED BY <1>1, <1>2, <1>3 DEF Init, TypeOK

(* Every step keeps the state well typed. *)
LEMMA StepType == TypeOK /\ [Next]_vars => TypeOK'
<1> SUFFICES ASSUME TypeOK, [Next]_vars PROVE TypeOK'
  OBVIOUS
<1> USE DEF TypeOK
<1>1. ASSUME NEW t \in Posters, PostTask(t) PROVE TypeOK'
  BY <1>1, CallbackType DEF PostTask, Push, Threads, loopVars
<1>2. ASSUME NEW t \in Threads, Count(t) PROVE TypeOK'
  BY <1>2 DEF Count, queueVars, loopVars
<1>3. ASSUME NEW t \in Threads, Trigger(t) PROVE TypeOK'
  BY <1>3 DEF Trigger, queueVars, loopVars
<1>4. ASSUME NEW t \in Threads, TriggerThrows(t) PROVE TypeOK'
  <2>1. CASE t = Loop
    <3>1. Elements(batch) \subseteq Callbacks /\ <<>> \in Seq(Callbacks) /\ <<>> \in Seq({"exec", "other"})
      BY SeqFacts
    <3> QED BY <1>4, <2>1, <3>1 DEF TriggerThrows, Unwound
  <2>2. CASE t # Loop
    BY <1>4, <2>2 DEF TriggerThrows
  <2> QED BY <2>1, <2>2
<1>5. ASSUME NEW t \in Posters, Stop(t) PROVE TypeOK'
  BY <1>5 DEF Stop, queueVars, fdVars
<1>6. CASE Enter
  BY <1>6 DEF Enter, queueVars, fdVars
<1>7. CASE CollectExec \/ CollectOther
  <2>1. PICK evs \in {<<"exec">>, <<"exec", "other">>, <<"other", "exec">>, <<"other">>} : Collect(evs)
    BY <1>7 DEF CollectExec, CollectOther
  <2>2. evs \in Seq({"exec", "other"})
    <3>1. \A a, b \in {"exec", "other"} : <<a>> \in Seq({"exec", "other"}) /\ <<a, b>> \in Seq({"exec", "other"})
      OBVIOUS
    <3> QED BY <2>1, <3>1
  <2> QED BY <2>1, <2>2 DEF Collect, queueVars, fdVars
<1>8. CASE PollFails \/ OtherThrows
  BY <1>8, SeqFacts DEF PollFails, OtherThrows, queueVars, fdVars
<1>9. CASE Check \/ HandleOther \/ EndDispatch
  <2>1. CASE Check
    BY <2>1 DEF Check, queueVars, fdVars
  <2>2. CASE HandleOther
    <3>1. run' \in BOOLEAN
      BY <2>2, Zenon DEF HandleOther
    <3>2. events' \in Seq({"exec", "other"})
      BY <2>2, SeqFacts DEF HandleOther
    <3> QED BY <2>2, <3>1, <3>2 DEF HandleOther, queueVars, fdVars
  <2>3. CASE EndDispatch
    BY <2>3 DEF EndDispatch, queueVars, fdVars
  <2> QED BY <1>9, <2>1, <2>2, <2>3
<1>10. CASE Swap
  BY <1>10 DEF Swap, fdVars
<1>11. CASE RunPlain \/ RunStop
  <2>1. /\ batch' \in Seq(Callbacks) /\ ran' \in Seq(Callbacks)
        /\ UNCHANGED <<pending, lost, handed, pc, events, enters, fdVars>>
    BY <1>11, PopType DEF RunPlain, RunStop, loopVars
  <2>2. run' \in BOOLEAN
    BY <1>11, Zenon DEF RunPlain, RunStop, loopVars
  <2> QED BY <2>1, <2>2 DEF fdVars
<1>12. CASE RunPost
  <2>1. Loop \in Threads
    BY DEF Threads
  <2> QED BY <1>12, <2>1, CallbackType, PopType DEF RunPost, Push, loopVars
<1>13. CASE RunThrow
  <2>1. <<>> \in Seq(Callbacks) /\ <<>> \in Seq({"exec", "other"})
    BY SeqFacts
  <2>2. /\ lost' \in SUBSET Callbacks /\ ran' \in Seq(Callbacks)
        /\ batch' = <<>> /\ events' = <<>> /\ pc' = "out"
        /\ UNCHANGED <<pending, handed, run, enters, fdVars>>
    BY <1>13, PopType DEF RunThrow, Unwound
  <2>3. batch' \in Seq(Callbacks) /\ events' \in Seq({"exec", "other"})
    BY <2>1, <2>2, Zenon
  <2>4. pc' = "out"
    BY <2>2
  <2> QED BY <2>2, <2>3, <2>4 DEF fdVars
<1>14. CASE EndDrain
  BY <1>14, SeqFacts DEF EndDrain, Draining, queueVars, fdVars
<1>15. CASE UNCHANGED vars
  BY <1>15 DEF vars, queueVars, loopVars, fdVars
<1> QED
  BY <1>1, <1>2, <1>3, <1>4, <1>5, <1>6, <1>7, <1>8, <1>9, <1>10, <1>11, <1>12,
     <1>13, <1>14, <1>15 DEF Next, ExecStep, LoopStep, Drain

(* Type correctness, for any number of posting threads.                    *)
THEOREM TypeCorrect == Spec => []TypeOK
  BY InitType, StepType, PTL DEF Spec

-----------------------------------------------------------------------------
(* The order of invocation.  InOrder is inductive once it is known that no *)
(* identifier exceeds handed, the one a push gives next.                   *)

UpTo(s, n) == \A i \in DOMAIN s : s[i].id <= n

InLine(r, b, p, n) ==
    /\ Sorted(r) /\ Sorted(b) /\ Sorted(p)
    /\ Below(r, b) /\ Below(r, p) /\ Below(b, p)
    /\ UpTo(r, n) /\ UpTo(b, n) /\ UpTo(p, n)

Ordered == InLine(ran, batch, pending, handed)

(* The empty sequence is ordered, and below and above every other. *)
LEMMA EmptyOrder ==
  ASSUME NEW t, NEW n
  PROVE  Sorted(<<>>) /\ Below(<<>>, t) /\ Below(t, <<>>) /\ UpTo(<<>>, n)
  BY DEF Sorted, Below, UpTo

(* Appending a callback with a new, larger identifier keeps the order. *)
LEMMA AppendOrder ==
  ASSUME NEW s \in Seq(Callbacks), NEW t \in Seq(Callbacks), NEW c \in Callbacks, NEW n \in Nat
  PROVE  /\ Sorted(s) /\ (\A i \in DOMAIN s : s[i].id < c.id) => Sorted(Append(s, c))
         /\ Below(s, t) /\ (\A j \in DOMAIN t : c.id < t[j].id) => Below(Append(s, c), t)
         /\ Below(t, s) /\ (\A j \in DOMAIN t : t[j].id < c.id) => Below(t, Append(s, c))
         /\ UpTo(s, n) /\ c.id <= n => UpTo(Append(s, c), n)
<1> DEFINE a == Append(s, c)
<1>1. DOMAIN a = 1 .. Len(s) + 1 /\ DOMAIN s = 1 .. Len(s) /\ Len(s) \in Nat
  OBVIOUS
<1>2. a[Len(s) + 1] = c /\ \A i \in 1 .. Len(s) : a[i] = s[i]
  OBVIOUS
<1> HIDE DEF a
<1>3. Sorted(s) /\ (\A i \in DOMAIN s : s[i].id < c.id) => Sorted(a)
  BY <1>1, <1>2 DEF Sorted
<1>4. Below(s, t) /\ (\A j \in DOMAIN t : c.id < t[j].id) => Below(a, t)
  BY <1>1, <1>2 DEF Below
<1>5. Below(t, s) /\ (\A j \in DOMAIN t : t[j].id < c.id) => Below(t, a)
  BY <1>1, <1>2 DEF Below
<1>6. UpTo(s, n) /\ c.id <= n => UpTo(a, n)
  BY <1>1, <1>2 DEF UpTo
<1> QED BY <1>3, <1>4, <1>5, <1>6 DEF a

(* The tail of an ordered sequence is ordered. *)
LEMMA TailOrder ==
  ASSUME NEW s \in Seq(Callbacks), NEW t \in Seq(Callbacks), NEW n \in Nat, s # <<>>
  PROVE  /\ Sorted(s) => Sorted(Tail(s)) /\ \A j \in DOMAIN Tail(s) : Head(s).id < Tail(s)[j].id
         /\ Below(s, t) => Below(Tail(s), t) /\ \A j \in DOMAIN t : Head(s).id < t[j].id
         /\ Below(t, s) => Below(t, Tail(s)) /\ \A j \in DOMAIN t : t[j].id < Head(s).id
         /\ UpTo(s, n) => UpTo(Tail(s), n) /\ Head(s).id <= n
<1> DEFINE u == Tail(s)
           h == Head(s)
<1>1. Len(s) \in Nat /\ DOMAIN s = 1 .. Len(s) /\ DOMAIN u = 1 .. Len(s) - 1 /\ 1 \in DOMAIN s
  BY HeadTailProperties, LenProperties, EmptySeq
<1>2. h = s[1] /\ \A i \in 1 .. Len(s) - 1 : u[i] = s[i + 1]
  BY HeadTailProperties, <1>1
<1>3. \A i \in 1 .. Len(s) - 1 : i + 1 \in DOMAIN s
  BY <1>1
<1> HIDE DEF u, h
<1>4. Sorted(s) => Sorted(u) /\ \A j \in DOMAIN u : h.id < u[j].id
  <2>1. \A i \in DOMAIN u : i \in Nat /\ 1 < i + 1 /\ i + 1 \in DOMAIN s /\ u[i] = s[i + 1]
    BY <1>1, <1>2
  <2>2. \A i, j \in DOMAIN u : i < j => i + 1 < j + 1
    BY <1>1
  <2> QED BY <1>1, <1>2, <2>1, <2>2 DEF Sorted
<1>5. Below(s, t) => Below(u, t) /\ \A j \in DOMAIN t : h.id < t[j].id
  BY <1>1, <1>2, <1>3 DEF Below
<1>6. Below(t, s) => Below(t, u) /\ \A j \in DOMAIN t : t[j].id < h.id
  BY <1>1, <1>2, <1>3 DEF Below
<1>7. UpTo(s, n) => UpTo(u, n) /\ h.id <= n
  BY <1>1, <1>2, <1>3 DEF UpTo
<1> QED BY <1>4, <1>5, <1>6, <1>7 DEF u, h

(* A push keeps the three queues in line. *)
LEMMA PushOrder ==
  ASSUME NEW r \in Seq(Callbacks), NEW b \in Seq(Callbacks), NEW p \in Seq(Callbacks),
         NEW n \in 0..MaxTasks, InLine(r, b, p, n), NEW k \in Kinds, n < MaxTasks
  PROVE  /\ Append(p, Callback(n + 1, k)) \in Seq(Callbacks)
         /\ InLine(r, b, Append(p, Callback(n + 1, k)), n + 1)
<1> DEFINE c == Callback(n + 1, k)
<1>1. c \in Callbacks /\ c.id = n + 1 /\ n \in Nat /\ n + 1 \in Nat
  BY DEF Callback, Callbacks
<1> HIDE DEF c
<1>2. \A s \in {r, b, p} : UpTo(s, n + 1) /\ \A i \in DOMAIN s : s[i].id < c.id
  <2> SUFFICES ASSUME NEW s \in {r, b, p}
               PROVE  UpTo(s, n + 1) /\ \A i \in DOMAIN s : s[i].id < c.id
    OBVIOUS
  <2>1. s \in Seq(Callbacks) /\ UpTo(s, n)
    BY DEF InLine
  <2>2. \A i \in DOMAIN s : s[i] \in Callbacks
    BY <2>1
  <2>3. \A i \in DOMAIN s : s[i].id \in Nat
    BY <2>2 DEF Callbacks
  <2> QED BY <1>1, <2>1, <2>3 DEF UpTo
<1>3. /\ Sorted(Append(p, c)) /\ Below(r, Append(p, c)) /\ Below(b, Append(p, c))
      /\ UpTo(Append(p, c), n + 1)
  BY <1>1, <1>2, AppendOrder DEF InLine
<1>4. Append(p, c) \in Seq(Callbacks)
  BY <1>1
<1> QED BY <1>2, <1>3, <1>4 DEF InLine, c

(* An invocation keeps the three queues in line. *)
LEMMA PopOrder ==
  ASSUME NEW r \in Seq(Callbacks), NEW b \in Seq(Callbacks), NEW p \in Seq(Callbacks),
         NEW n \in 0..MaxTasks, InLine(r, b, p, n), b # <<>>
  PROVE  InLine(Append(r, Head(b)), Tail(b), p, n) /\ InLine(Append(r, Head(b)), <<>>, p, n)
<1> DEFINE h == Head(b)
           u == Tail(b)
<1>1. h \in Callbacks /\ u \in Seq(Callbacks) /\ n \in Nat
  BY SeqFacts
<1>2. /\ Sorted(u) /\ \A j \in DOMAIN u : h.id < u[j].id
      /\ Below(u, p) /\ \A j \in DOMAIN p : h.id < p[j].id
      /\ Below(r, u) /\ \A j \in DOMAIN r : r[j].id < h.id
      /\ UpTo(u, n) /\ h.id <= n
  BY <1>1, TailOrder DEF InLine
<1> HIDE DEF h, u
<1>3. Sorted(Append(r, h)) /\ Below(Append(r, h), p) /\ Below(Append(r, h), u) /\ UpTo(Append(r, h), n)
  BY <1>1, <1>2, AppendOrder DEF InLine
<1>4. InLine(Append(r, h), u, p, n)
  BY <1>2, <1>3 DEF InLine
<1>5. InLine(Append(r, h), <<>>, p, n)
  BY <1>3, EmptyOrder DEF InLine
<1> QED BY <1>4, <1>5 DEF h, u

(* Steps that do not touch the queues keep them in line. *)
LEMMA OrderedUnchanged ==
  Ordered /\ UNCHANGED <<ran, batch, pending, handed>> => Ordered'
  BY DEF Ordered

(* Every step keeps the three queues in line. *)
LEMMA StepOrdered == TypeOK /\ Ordered /\ [Next]_vars => Ordered'
<1> SUFFICES ASSUME TypeOK, Ordered, [Next]_vars PROVE Ordered'
  OBVIOUS
<1>1. ASSUME NEW t \in Posters, PostTask(t) PROVE Ordered'
  BY <1>1, PushOrder DEF PostTask, Push, Ordered, TypeOK
<1>2. ASSUME NEW t \in Threads, TriggerThrows(t) PROVE Ordered'
  <2>1. CASE t = Loop
    <3>1. batch' = <<>> /\ UNCHANGED <<ran, pending, handed>>
      BY <1>2, <2>1 DEF TriggerThrows, Unwound
    <3> QED BY <3>1, EmptyOrder DEF Ordered, InLine
  <2>2. CASE t # Loop
    BY <1>2, <2>2, OrderedUnchanged DEF TriggerThrows
  <2> QED BY <2>1, <2>2
<1>3. CASE Swap
  <2>1. batch' = pending /\ pending' = <<>> /\ UNCHANGED <<ran, handed>>
    BY <1>3 DEF Swap
  <2> QED BY <2>1, EmptyOrder DEF Ordered, InLine
<1>4. CASE RunPlain \/ RunStop \/ RunThrow
  <2>1. Pop /\ batch' \in {Tail(batch), <<>>} /\ UNCHANGED <<pending, handed>>
    BY <1>4 DEF RunPlain, RunStop, RunThrow, Unwound
  <2> QED BY <2>1, PopOrder DEF Pop, Ordered, TypeOK
<1>5. CASE RunPost
  <2>1. PICK k \in Kinds : pending' = Append(pending, Callback(handed + 1, k))
    BY <1>5 DEF RunPost, Push
  <2>2. /\ batch # <<>> /\ ran' = Append(ran, Head(batch)) /\ batch' = Tail(batch)
        /\ handed' = handed + 1 /\ handed < MaxTasks
    BY <1>5 DEF RunPost, Push, Pop
  <2>3. InLine(ran', batch', pending, handed) /\ ran' \in Seq(Callbacks) /\ batch' \in Seq(Callbacks)
    BY <1>5, <2>2, PopOrder, PopType DEF Ordered, TypeOK, RunPost
  <2> QED BY <2>1, <2>2, <2>3, PushOrder DEF Ordered, TypeOK
<1>6. CASE UNCHANGED <<ran, batch, pending, handed>>
  BY <1>6, OrderedUnchanged
<1>7. (\E t \in Threads : Count(t) \/ Trigger(t)) \/ (\E t \in Posters : Stop(t)) \/ Enter \/ CollectExec
        \/ CollectOther \/ PollFails \/ OtherThrows \/ Check \/ HandleOther \/ EndDispatch
        \/ EndDrain \/ UNCHANGED vars
      => UNCHANGED <<ran, batch, pending, handed>>
  BY DEF Count, Trigger, Stop, Enter, CollectExec, CollectOther, Collect, PollFails, OtherThrows,
         Check, HandleOther, EndDispatch, EndDrain, queueVars, vars
<1> QED
  BY <1>1, <1>2, <1>3, <1>4, <1>5, <1>6, <1>7 DEF Next, ExecStep, LoopStep, Drain

(* Callbacks run in hand-over order, each at most once, however many       *)
(* threads call exec and whatever the callbacks do.                        *)
THEOREM CallbacksInOrder == Spec => []InOrder
<1>1. Init => Ordered
  BY EmptyOrder DEF Init, Ordered, InLine
<1>2. Spec => []Ordered
  BY <1>1, StepOrdered, TypeCorrect, PTL DEF Spec
<1>3. Ordered => InOrder
  BY DEF Ordered, InLine, InOrder
<1> QED BY <1>2, <1>3, PTL

-----------------------------------------------------------------------------
(* No wake-up is lost.  A write of the eventfd can fail, so it has to be   *)
(* known that what a thread is about to write would fit into an empty      *)
(* counter: the static counter never exceeds what has been handed over,    *)
(* less the threads that have yet to increment it.                         *)

Uncounted == {t \in Threads : exec[t] = "pushed"}

Counters ==
    /\ cont + Cardinality(Uncounted) <= MaxOthers + handed
    /\ \A t \in Threads : exec[t] = "counted" => mine[t] \in 1..EventFdMax

(* Only finitely many threads are between push and increment. *)
LEMMA UncountedFinite == IsFiniteSet(Uncounted) /\ Cardinality(Uncounted) \in Nat
<1>1. IsFiniteSet(Threads)
  BY LoopAssumption, FS_AddElement DEF LoopAssumption, Threads
<1> QED BY <1>1, FS_Subset, FS_CardinalityType DEF Uncounted

(* The counters start within their bounds. *)
LEMMA InitCounters == Init => Counters
<1> SUFFICES ASSUME Init PROVE Counters
  OBVIOUS
<1>1. Uncounted = {}
  BY DEF Init, Uncounted
<1>2. Cardinality(Uncounted) = 0
  BY <1>1, FS_EmptySet
<1> QED BY <1>2 DEF Init, Counters

(* A push uses up one of the callbacks that can still be handed over. *)
LEMMA PushCounters ==
  ASSUME TypeOK, Counters, NEW t \in Threads, Push(t), UNCHANGED <<cont, mine>>
  PROVE  Counters'
<1>1. /\ exec[t] = "none" /\ exec' = [exec EXCEPT ![t] = "pushed"] /\ handed' = handed + 1
      /\ exec \in [Threads -> {"none", "pushed", "counted"}]
  BY DEF Push, TypeOK
<1>2. Uncounted' = Uncounted \cup {t} /\ t \notin Uncounted
  BY <1>1 DEF Uncounted
<1>3. Cardinality(Uncounted') = Cardinality(Uncounted) + 1
  BY <1>2, UncountedFinite, FS_AddElement
<1> QED BY <1>1, <1>3, UncountedFinite DEF Counters, TypeOK

(* Every step keeps the counters within their bounds. *)
LEMMA StepCounters == TypeOK /\ Counters /\ [Next]_vars => Counters'
<1> SUFFICES ASSUME TypeOK, Counters, [Next]_vars PROVE Counters'
  OBVIOUS
<1>1. ASSUME NEW t \in Posters, PostTask(t) PROVE Counters'
  BY <1>1, PushCounters DEF PostTask, Threads
<1>2. CASE RunPost
  BY <1>2, PushCounters DEF RunPost, Threads
<1>3. ASSUME NEW t \in Threads, Count(t) PROVE Counters'
  <2>1. /\ exec[t] = "pushed" /\ exec' = [exec EXCEPT ![t] = "counted"]
        /\ cont' = cont + 1 /\ mine' = [mine EXCEPT ![t] = cont + 1] /\ handed' = handed
        /\ exec \in [Threads -> {"none", "pushed", "counted"}] /\ mine \in [Threads -> Nat]
        /\ cont \in Nat /\ handed \in 0..MaxTasks
    BY <1>3 DEF Count, queueVars, TypeOK
  <2>2. Uncounted' = Uncounted \ {t} /\ t \in Uncounted
    BY <2>1 DEF Uncounted
  <2>3. Cardinality(Uncounted') = Cardinality(Uncounted) - 1 /\ Cardinality(Uncounted') \in Nat
    BY <2>2, UncountedFinite, FS_RemoveElement, FS_CardinalityType
  <2>4. cont' + Cardinality(Uncounted') <= MaxOthers + handed'
    BY <2>1, <2>3, UncountedFinite DEF Counters
  <2>5. cont + 1 \in 1..EventFdMax
    BY <2>1, <2>3, <2>4
  <2> QED BY <2>1, <2>4, <2>5 DEF Counters
<1>4. ASSUME NEW t \in Threads, Trigger(t) \/ TriggerThrows(t) PROVE Counters'
  <2>1. /\ exec[t] = "counted" /\ exec' = [exec EXCEPT ![t] = "none"] /\ UNCHANGED <<cont, mine, handed>>
        /\ exec \in [Threads -> {"none", "pushed", "counted"}]
    BY <1>4 DEF Trigger, TriggerThrows, queueVars, TypeOK
  <2>2. Uncounted' = Uncounted
    BY <2>1 DEF Uncounted
  <2> QED BY <2>1, <2>2 DEF Counters
<1>5. CASE UNCHANGED <<exec, cont, mine, handed>>
  BY <1>5 DEF Counters, Uncounted
<1>6. (\E t \in Posters : Stop(t)) \/ Enter \/ CollectExec \/ CollectOther \/ PollFails \/ OtherThrows
        \/ Check \/ HandleOther \/ EndDispatch \/ Swap \/ RunPlain \/ RunStop \/ RunThrow
        \/ EndDrain \/ UNCHANGED vars
      => UNCHANGED <<exec, cont, mine, handed>>
  BY DEF Stop, Enter, CollectExec, CollectOther, Collect, PollFails, OtherThrows, Check, HandleOther,
         EndDispatch, Swap, RunPlain, RunStop, RunThrow, EndDrain, queueVars, fdVars, vars
<1> QED
  BY <1>1, <1>2, <1>3, <1>4, <1>5, <1>6 DEF Next, ExecStep, LoopStep, Drain

(* Every step leaves a wake-up for what is in the shared queue. *)
LEMMA StepWakeup == TypeOK /\ Counters /\ NoLostWakeup /\ [Next]_vars => NoLostWakeup'
<1> SUFFICES ASSUME TypeOK, Counters, NoLostWakeup, [Next]_vars PROVE NoLostWakeup'
  OBVIOUS
<1>1. ASSUME NEW t \in Threads, Push(t) PROVE NoLostWakeup'
  BY <1>1 DEF Push, NoLostWakeup, TypeOK
<1>2. ASSUME NEW t \in Threads, Count(t) PROVE NoLostWakeup'
  BY <1>2 DEF Count, NoLostWakeup, TypeOK
<1>3. ASSUME NEW t \in Threads, Trigger(t) PROVE NoLostWakeup'
  <2>1. mine[t] \in 1..EventFdMax /\ efd \in Nat /\ efd' = efd + mine[t]
    BY <1>3 DEF Trigger, Counters, TypeOK
  <2> QED BY <2>1 DEF NoLostWakeup
<1>4. ASSUME NEW t \in Threads, TriggerThrows(t) PROVE NoLostWakeup'
  <2>1. mine[t] \in 1..EventFdMax /\ efd \in Nat /\ efd + mine[t] > EventFdMax /\ efd' = efd
    BY <1>4 DEF TriggerThrows, Counters, TypeOK
  <2> QED BY <2>1 DEF NoLostWakeup
<1>5. CASE Swap
  BY <1>5 DEF Swap, NoLostWakeup
<1>6. CASE UNCHANGED <<pending, efd, exec>>
  BY <1>6 DEF NoLostWakeup
<1>7. (\E t \in Posters : Stop(t)) \/ Enter \/ CollectExec \/ CollectOther \/ PollFails \/ OtherThrows
        \/ Check \/ HandleOther \/ EndDispatch \/ RunPlain \/ RunStop \/ RunThrow
        \/ EndDrain \/ UNCHANGED vars
      => UNCHANGED <<pending, efd, exec>>
  BY DEF Stop, Enter, CollectExec, CollectOther, Collect, PollFails, OtherThrows, Check, HandleOther,
         EndDispatch, RunPlain, RunStop, RunThrow, EndDrain, queueVars, fdVars, vars
<1>8. RunPost => Push(Loop) /\ Loop \in Threads
  BY DEF RunPost, Threads
<1>9. \A t \in Posters : t \in Threads /\ (PostTask(t) => Push(t))
  BY DEF PostTask, Threads
<1> QED
  BY <1>1, <1>2, <1>3, <1>4, <1>5, <1>6, <1>7, <1>8, <1>9 DEF Next, ExecStep, LoopStep, Drain

(* A callback in the shared queue always has a wake-up on the way, even    *)
(* when the write of the eventfd fails.                                    *)
THEOREM WakeupNeverLost == Spec => []NoLostWakeup
<1>1. Init => NoLostWakeup
  BY DEF Init, NoLostWakeup
<1>2. Spec => [](Counters /\ NoLostWakeup)
  BY <1>1, InitCounters, StepCounters, StepWakeup, TypeCorrect, PTL DEF Spec
<1> QED BY <1>2, PTL

-----------------------------------------------------------------------------
(* The local queue and the elements of the queues. *)

(* The local queue is empty except while it is drained; and while a        *)
(* callback is inside exec, one that calls exec has been invoked.          *)
Posted == \E c \in Elements(ran) : c.kind = "post"
Drained ==
    /\ pc # "drain" => batch = <<>>
    /\ exec[Loop] # "none" => Posted

(* Appending keeps the elements and adds one. *)
LEMMA AppendElements ==
  ASSUME NEW S, NEW s \in Seq(S), NEW c \in S
  PROVE  Elements(Append(s, c)) = Elements(s) \cup {c}
<1> DEFINE a == Append(s, c)
<1>1. DOMAIN a = 1 .. Len(s) + 1 /\ DOMAIN s = 1 .. Len(s) /\ Len(s) \in Nat
  OBVIOUS
<1>2. a[Len(s) + 1] = c /\ \A i \in 1 .. Len(s) : a[i] = s[i]
  OBVIOUS
<1>3. 1 .. Len(s) + 1 = (1 .. Len(s)) \cup {Len(s) + 1}
  BY <1>1
<1> HIDE DEF a
<1>4. \A x \in Elements(a) : x \in Elements(s) \cup {c}
  BY <1>1, <1>2, <1>3 DEF Elements
<1>5. \A x \in Elements(s) \cup {c} : x \in Elements(a)
  BY <1>1, <1>2, <1>3 DEF Elements
<1> QED BY <1>4, <1>5 DEF a

(* The elements of a sequence are its head and those of its tail. *)
LEMMA TailElements ==
  ASSUME NEW S, NEW s \in Seq(S), s # <<>>
  PROVE  /\ Elements(s) = {Head(s)} \cup Elements(Tail(s))
         /\ Elements(Tail(s)) = {s[i] : i \in 2 .. Len(s)}
<1> DEFINE u == Tail(s)
           h == Head(s)
<1>1. /\ Len(s) \in Nat \ {0} /\ DOMAIN s = 1 .. Len(s) /\ DOMAIN u = 1 .. Len(s) - 1
      /\ h = s[1] /\ \A i \in 1 .. Len(s) - 1 : u[i] = s[i + 1]
  BY HeadTailProperties, LenProperties, EmptySeq
<1> HIDE DEF u, h
<1>2. \A i \in 2 .. Len(s) : i - 1 \in 1 .. Len(s) - 1 /\ u[i - 1] = s[i]
  BY <1>1
<1>3. \A i \in 1 .. Len(s) - 1 : i + 1 \in 2 .. Len(s)
  BY <1>1
<1>4. Elements(u) = {s[i] : i \in 2 .. Len(s)}
  BY <1>1, <1>2, <1>3 DEF Elements
<1>5. 1 .. Len(s) = {1} \cup 2 .. Len(s)
  BY <1>1
<1>6. Elements(s) = {h} \cup {s[i] : i \in 2 .. Len(s)}
  BY <1>1, <1>5 DEF Elements
<1> QED BY <1>4, <1>6 DEF u, h

(* What Push and Pop do, in one place. *)
LEMMA PushTypes ==
  ASSUME TypeOK, NEW t \in Threads, Push(t)
  PROVE  \E k \in Kinds : /\ Callback(handed + 1, k) \in Callbacks
                          /\ pending' = Append(pending, Callback(handed + 1, k))
                          /\ handed' = handed + 1
  BY CallbackType DEF Push, TypeOK

(* Every step keeps the local queue where it belongs. *)
LEMMA StepDrained == TypeOK /\ Drained /\ [Next]_vars => Drained'
<1> SUFFICES ASSUME TypeOK, Drained, [Next]_vars PROVE Drained'
  OBVIOUS
<1>1. Loop \in Threads /\ (\A t \in Posters : t \in Threads /\ t # Loop)
  BY LoopAssumption DEF Threads, LoopAssumption
<1>2. exec \in [Threads -> {"none", "pushed", "counted"}] /\ ran \in Seq(Callbacks)
  BY DEF TypeOK
<1>3. ASSUME NEW t \in Posters, PostTask(t) PROVE Drained'
  BY <1>1, <1>2, <1>3 DEF PostTask, Push, loopVars, Drained, Posted
<1>4. ASSUME NEW t \in Threads, Count(t) \/ Trigger(t) PROVE Drained'
  <2>1. exec'[Loop] # "none" => exec[Loop] # "none"
    BY <1>1, <1>2, <1>4 DEF Count, Trigger
  <2> QED BY <1>4, <2>1 DEF Count, Trigger, queueVars, loopVars, Drained, Posted
<1>5. ASSUME NEW t \in Threads, TriggerThrows(t) PROVE Drained'
  <2>1. exec'[Loop] # "none" => exec[Loop] # "none"
    BY <1>1, <1>2, <1>5 DEF TriggerThrows
  <2> QED BY <1>5, <2>1 DEF TriggerThrows, Unwound, Drained, Posted
<1>6. CASE RunPost
  <2>1. ran' = Append(ran, Head(batch)) /\ Head(batch) \in Callbacks /\ Head(batch).kind = "post"
    BY <1>6, PopType DEF RunPost, Pop
  <2>2. Posted'
    BY <1>2, <2>1, AppendElements DEF Posted
  <2>3. pc' = pc /\ pc = "drain"
    BY <1>6 DEF RunPost, Pop, Draining, loopVars
  <2> QED BY <2>2, <2>3 DEF Drained
<1>7. CASE RunPlain \/ RunStop \/ RunThrow
  <2>1. Pop /\ exec' = exec /\ exec[Loop] = "none"
    BY <1>7 DEF RunPlain, RunStop, RunThrow, Pop, Draining, fdVars
  <2>2. (pc' = pc /\ pc = "drain") \/ batch' = <<>>
    BY <1>7 DEF RunPlain, RunStop, RunThrow, Unwound, Pop, Draining, loopVars
  <2> QED BY <2>1, <2>2 DEF Drained
<1>8. CASE Swap \/ EndDrain
  BY <1>8 DEF Swap, EndDrain, Draining, queueVars, fdVars, Drained, Posted
<1>9. CASE UNCHANGED <<ran, batch, exec>> /\ (pc' = "drain" <=> pc = "drain")
  BY <1>9 DEF Drained, Posted
<1>10. (\E t \in Posters : Stop(t)) \/ Enter \/ CollectExec \/ CollectOther \/ PollFails
         \/ OtherThrows \/ Check \/ HandleOther \/ EndDispatch \/ UNCHANGED vars
       => UNCHANGED <<ran, batch, exec>> /\ (pc' = "drain" <=> pc = "drain")
  BY DEF Stop, Enter, CollectExec, CollectOther, Collect, PollFails, OtherThrows, Check,
         HandleOther, EndDispatch, queueVars, loopVars, fdVars, vars
<1> QED
  BY <1>3, <1>4, <1>5, <1>6, <1>7, <1>8, <1>9, <1>10 DEF Next, ExecStep, LoopStep, Drain

(* The local queue is empty except while it is drained. *)
LEMMA AlwaysDrained == Spec => [](TypeOK /\ Drained)
<1>1. Init => Drained
  BY DEF Init, Drained, Threads
<1> QED BY <1>1, StepDrained, TypeCorrect, PTL DEF Spec

-----------------------------------------------------------------------------
(* The refinement: each step is one of the abstract queue, or none. *)

(* A step that leaves the callbacks alone. *)
LEMMA Stutters == UNCHANGED queueVars => UNCHANGED Queue!queueVars
  BY DEF queueVars, Queue!queueVars

(* An invocation takes the head of the abstract queue. *)
LEMMA PopRefines ==
  ASSUME TypeOK, Pop
  PROVE  /\ batch \o pending # <<>> /\ ran' = Append(ran, Head(batch \o pending))
         /\ Tail(batch \o pending) = Tail(batch) \o pending
         /\ Tail(batch) \in Seq(Callbacks) /\ pending \in Seq(Callbacks)
<1>1. batch \in Seq(Callbacks) /\ pending \in Seq(Callbacks) /\ batch # <<>> /\ ran' = Append(ran, Head(batch))
  BY DEF TypeOK, Pop
<1> QED BY <1>1, JoinedHead, PopType

(* An exception takes the local queue with it. *)
LEMMA UnwindRefines ==
  ASSUME TypeOK, Drained, NEW t \in Threads, TriggerThrows(t)
  PROVE  Queue!Unwind \/ UNCHANGED Queue!queueVars
<1>1. CASE t # Loop
  BY <1>1, Stutters DEF TriggerThrows, queueVars
<1>2. CASE t = Loop
  <2>1. exec[Loop] # "none" /\ ran # <<>>
    BY <1>2 DEF TriggerThrows, Drained, Posted, Elements
  <2>2. batch' = <<>> /\ lost' = lost \cup Elements(batch) /\ UNCHANGED <<pending, ran, handed>>
    BY <1>2 DEF TriggerThrows, Unwound
  <2> DEFINE n == Len(batch)
  <2>3. batch \in Seq(Callbacks) /\ pending \in Seq(Callbacks)
    BY DEF TypeOK
  <2>4. /\ n \in 0 .. Len(batch \o pending)
        /\ lost' = lost \cup {(batch \o pending)[i] : i \in 1 .. n}
        /\ batch' \o pending' = SubSeq(batch \o pending, n + 1, Len(batch \o pending))
    BY <2>2, <2>3, Joined, LenProperties DEF Elements
  <2> HIDE DEF n
  <2> QED BY <2>1, <2>2, <2>4 DEF Queue!Unwind
<1> QED BY <1>1, <1>2

(* The callback that throws is invoked, and takes the local queue with it. *)
LEMMA ThrowRefines == ASSUME TypeOK, RunThrow PROVE Queue!InvokeAndUnwind
<1> DEFINE n == Len(batch)
<1>1. /\ Pop /\ batch # <<>> /\ batch' = <<>> /\ lost' = lost \cup Elements(Tail(batch))
      /\ UNCHANGED <<pending, handed>>
  BY DEF RunThrow, Unwound, Pop
<1>2. batch \in Seq(Callbacks) /\ pending \in Seq(Callbacks)
  BY DEF TypeOK
<1>3. /\ n \in 1 .. Len(batch \o pending)
      /\ lost' = lost \cup {(batch \o pending)[i] : i \in 2 .. n}
      /\ batch' \o pending' = SubSeq(batch \o pending, n + 1, Len(batch \o pending))
  BY <1>1, <1>2, Joined, JoinedHead, TailElements
<1> HIDE DEF n
<1>4. ran' = Append(ran, Head(batch \o pending))
  BY <1>1, PopRefines
<1> QED BY <1>1, <1>3, <1>4 DEF Queue!InvokeAndUnwind

(* Every step of the loop and of the posting threads is one of the queue.  *)
LEMMA StepRefines == TypeOK /\ Drained /\ [Next]_vars => [Queue!Next]_(Queue!queueVars)
<1> SUFFICES ASSUME TypeOK, Drained, [Next]_vars
             PROVE  Queue!Next \/ UNCHANGED Queue!queueVars
  OBVIOUS
<1>1. /\ batch \in Seq(Callbacks) /\ pending \in Seq(Callbacks)
      /\ Loop \in Threads /\ \A t \in Posters : t \in Threads
  BY DEF TypeOK, Threads
<1>2. ASSUME NEW t \in Posters, PostTask(t) PROVE Queue!HandOver
  <2>1. PICK k \in Kinds : /\ Callback(handed + 1, k) \in Callbacks
                           /\ pending' = Append(pending, Callback(handed + 1, k))
                           /\ handed' = handed + 1
    BY <1>1, <1>2, PushTypes DEF PostTask
  <2>2. batch' \o pending' = Append(batch \o pending, Callback(handed + 1, k))
    BY <1>1, <1>2, <2>1, Joined DEF PostTask
  <2> QED BY <1>2, <2>1, <2>2 DEF PostTask, Queue!HandOver, Queue!Callback, Callback
<1>3. ASSUME NEW t \in Threads, TriggerThrows(t) PROVE Queue!Unwind \/ UNCHANGED Queue!queueVars
  BY <1>3, UnwindRefines
<1>4. CASE RunPlain \/ RunStop
  <2>1. Pop /\ batch' = Tail(batch) /\ UNCHANGED <<pending, lost, handed>>
    BY <1>4 DEF RunPlain, RunStop
  <2> QED BY <2>1, PopRefines DEF Queue!Next, Queue!Invoke
<1>5. CASE RunPost
  <2>1. PICK k \in Kinds : /\ Callback(handed + 1, k) \in Callbacks
                           /\ pending' = Append(pending, Callback(handed + 1, k))
                           /\ handed' = handed + 1
    BY <1>1, <1>5, PushTypes DEF RunPost
  <2>2. Pop /\ batch' = Tail(batch) /\ UNCHANGED lost
    BY <1>5 DEF RunPost
  <2>3. /\ batch \o pending # <<>> /\ ran' = Append(ran, Head(batch \o pending))
        /\ Tail(batch \o pending) = Tail(batch) \o pending
        /\ Tail(batch) \in Seq(Callbacks)
    BY <2>2, PopRefines
  <2>4. Tail(batch) \o Append(pending, Callback(handed + 1, k))
          = Append(Tail(batch) \o pending, Callback(handed + 1, k))
    <3>1. \A c \in Callbacks : Tail(batch) \o Append(pending, c) = Append(Tail(batch) \o pending, c)
      BY <1>1, <2>3, Joined, SMTT(30)
    <3> QED BY <2>1, <3>1
  <2>5. batch' \o pending' = Append(Tail(batch \o pending), Callback(handed + 1, k))
    BY <2>1, <2>2, <2>3, <2>4
  <2> QED BY <2>1, <2>2, <2>3, <2>5 DEF Queue!Next, Queue!InvokeAndHandOver, Queue!Callback, Callback
<1>6. CASE RunThrow
  BY <1>6, ThrowRefines DEF Queue!Next
<1>7. CASE Swap
  <2>1. batch = <<>> /\ batch' = pending /\ pending' = <<>> /\ UNCHANGED <<ran, lost, handed>>
    BY <1>7 DEF Swap, Drained
  <2>2. batch' \o pending' = batch \o pending
    BY <1>1, <2>1, ConcatEmptySeq
  <2> QED BY <2>1, <2>2 DEF Queue!queueVars
<1>8. CASE UNCHANGED queueVars
  BY <1>8, Stutters
<1>9. (\E t \in Threads : Count(t) \/ Trigger(t)) \/ (\E t \in Posters : Stop(t)) \/ Enter \/ CollectExec
        \/ CollectOther \/ PollFails \/ OtherThrows \/ Check \/ HandleOther \/ EndDispatch
        \/ EndDrain \/ UNCHANGED vars
      => UNCHANGED queueVars
  BY DEF Count, Trigger, Stop, Enter, CollectExec, CollectOther, Collect, PollFails, OtherThrows,
         Check, HandleOther, EndDispatch, EndDrain, vars
<1> QED
  BY <1>2, <1>3, <1>4, <1>5, <1>6, <1>7, <1>8, <1>9
     DEF Next, ExecStep, LoopStep, Drain, Queue!Next

(* The two queues, the mutex, the swap, the eventfd and the exceptions     *)
(* together are the one queue that exec promises.                          *)
THEOREM ExecImplementsQueue == Spec => ExecIsAQueue
<1>1. Init => Queue!Init
  <2> SUFFICES ASSUME Init PROVE Queue!Init
    OBVIOUS
  <2>1. batch \o pending = <<>>
    BY ConcatEmptySeq, EmptySeq DEF Init
  <2> QED BY <2>1 DEF Init, Queue!Init
<1> QED BY <1>1, StepRefines, AlwaysDrained, PTL DEF Spec, ExecIsAQueue, Queue!Spec

-----------------------------------------------------------------------------
(* What is lost. *)

Present == Elements(ran) \cup Elements(batch) \cup Elements(pending)
Thrower(c) == \E d \in Elements(ran) : d.id < c.id /\ d.kind \in {"throw", "post"}

(* OnlyThrowsLose in terms of these. *)
LEMMA LossIs == OnlyThrowsLose <=> \A n \in 1..handed : \/ \E c \in Present : c.id = n
                                                        \/ \E c \in lost : c.id = n /\ Thrower(c)
  BY DEF OnlyThrowsLose, Present, Thrower

(* A step may lose a callback if one that threw is before it.              *)
LEMMA Accounted ==
  ASSUME OnlyThrowsLose, handed \in Nat,
         Elements(ran) \subseteq Elements(ran'), lost \subseteq lost',
         \A c \in Present : c \in Present' \/ (c \in lost' /\ Thrower(c)'),
         handed' = handed \/ (handed' = handed + 1 /\ \E c \in Present' : c.id = handed + 1)
  PROVE  OnlyThrowsLose'
<1> SUFFICES ASSUME NEW n \in 1..handed'
             PROVE  \/ \E c \in Present' : c.id = n
                    \/ \E c \in lost' : c.id = n /\ Thrower(c)'
  BY DEF OnlyThrowsLose, Present, Thrower
<1>1. CASE n = handed + 1
  BY <1>1
<1>2. CASE n \in 1..handed
  <2>1. CASE \E c \in Present : c.id = n
    BY <2>1
  <2>2. ASSUME NEW c \in lost, c.id = n, Thrower(c) PROVE c \in lost' /\ Thrower(c)'
    BY <2>2 DEF Thrower
  <2> QED BY <1>2, <2>1, <2>2, LossIs
<1> QED BY <1>1, <1>2

(* What has been taken out of the queues precedes what is still in them.   *)
LEMMA OrderOfElements ==
  ASSUME TypeOK, Ordered
  PROVE  /\ \A d \in Elements(ran), c \in Elements(batch) : d.id < c.id
         /\ batch # <<>> => \A c \in Elements(Tail(batch)) : Head(batch).id < c.id
<1>1. batch \in Seq(Callbacks)
  BY DEF TypeOK
<1>2. \A d \in Elements(ran), c \in Elements(batch) : d.id < c.id
  BY DEF Ordered, InLine, Below, Elements
<1>3. batch # <<>> => \A c \in Elements(Tail(batch)) : Head(batch).id < c.id
  BY <1>1, TailOrder, 0 \in Nat DEF Ordered, InLine, Elements
<1> QED BY <1>2, <1>3

(* Every step accounts for all callbacks.                                  *)
LEMMA StepLoses ==
  TypeOK /\ Ordered /\ Drained /\ OnlyThrowsLose /\ [Next]_vars => OnlyThrowsLose'
<1> SUFFICES ASSUME TypeOK, Ordered, Drained, OnlyThrowsLose, [Next]_vars PROVE OnlyThrowsLose'
  OBVIOUS
<1>1. /\ batch \in Seq(Callbacks) /\ pending \in Seq(Callbacks) /\ ran \in Seq(Callbacks) /\ handed \in Nat
      /\ Loop \in Threads /\ (\A t \in Posters : t \in Threads) /\ Elements(<<>>) = {}
  BY DEF TypeOK, Threads, Elements
<1>2. ASSUME NEW t \in Threads, Push(t)
      PROVE  /\ \E c \in Callbacks : /\ c.id = handed + 1 /\ Elements(pending') = Elements(pending) \cup {c}
             /\ handed' = handed + 1
  <2>1. PICK k \in Kinds : /\ Callback(handed + 1, k) \in Callbacks
                           /\ pending' = Append(pending, Callback(handed + 1, k))
                           /\ handed' = handed + 1
    BY <1>2, PushTypes
  <2>2. Elements(pending') = Elements(pending) \cup {Callback(handed + 1, k)}
    BY <1>1, <2>1, AppendElements
  <2>3. Callback(handed + 1, k).id = handed + 1
    BY DEF Callback
  <2> QED BY <2>1, <2>2, <2>3
<1>3. ASSUME Pop
      PROVE  /\ Elements(ran') = Elements(ran) \cup {Head(batch)}
             /\ Elements(batch) = {Head(batch)} \cup Elements(Tail(batch))
             /\ \A c \in Elements(Tail(batch)) : Head(batch).id < c.id
  <2>1. batch # <<>> /\ Head(batch) \in Callbacks /\ ran' = Append(ran, Head(batch))
    BY <1>3, PopType DEF Pop
  <2> QED BY <1>1, <2>1, AppendElements, TailElements, OrderOfElements
<1>4. ASSUME NEW t \in Posters, PostTask(t) PROVE OnlyThrowsLose'
  <2>1. UNCHANGED <<ran, batch, lost>> /\ Push(t) /\ t \in Threads
    BY <1>1, <1>4 DEF PostTask
  <2>2. PICK c \in Callbacks : c.id = handed + 1 /\ Elements(pending') = Elements(pending) \cup {c}
    BY <1>2, <2>1
  <2>3. Elements(ran') = Elements(ran) /\ Elements(batch') = Elements(batch) /\ handed' = handed + 1
    BY <1>2, <2>1
  <2>4. Present' = Present \cup {c}
    BY <2>2, <2>3 DEF Present
  <2> QED BY <1>1, <2>1, <2>2, <2>3, <2>4, Accounted
<1>5. CASE RunPlain \/ RunStop
  <2>1. Pop /\ batch' = Tail(batch) /\ UNCHANGED <<pending, lost, handed>>
    BY <1>5 DEF RunPlain, RunStop
  <2>2. Present' = Present /\ Elements(ran) \subseteq Elements(ran')
    BY <1>3, <2>1 DEF Present
  <2> QED BY <1>1, <2>1, <2>2, Accounted
<1>6. CASE RunPost
  <2>1. Pop /\ Push(Loop) /\ batch' = Tail(batch) /\ UNCHANGED lost
    BY <1>6 DEF RunPost
  <2>2. PICK c \in Callbacks : c.id = handed + 1 /\ Elements(pending') = Elements(pending) \cup {c}
    BY <1>1, <1>2, <2>1
  <2>3. handed' = handed + 1
    BY <1>1, <1>2, <2>1
  <2>4. Present' = Present \cup {c} /\ Elements(ran) \subseteq Elements(ran')
    BY <1>3, <2>1, <2>2 DEF Present
  <2> QED BY <1>1, <2>1, <2>2, <2>3, <2>4, Accounted
<1>7. CASE RunThrow
  <2>1. /\ Pop /\ Head(batch).kind = "throw" /\ batch' = <<>> /\ UNCHANGED <<pending, handed>>
        /\ lost' = lost \cup Elements(Tail(batch))
    BY <1>7 DEF RunThrow, Unwound
  <2>2. \A c \in Elements(Tail(batch)) : c \in lost' /\ Thrower(c)'
    BY <1>3, <2>1 DEF Thrower
  <2>3. \A c \in Present : c \in Present' \/ c \in Elements(Tail(batch))
    BY <1>3, <2>1 DEF Present
  <2> QED BY <1>1, <1>3, <2>1, <2>2, <2>3, Accounted
<1>8. ASSUME NEW t \in Threads, TriggerThrows(t), t = Loop PROVE OnlyThrowsLose'
  <2>1. /\ batch' = <<>> /\ UNCHANGED <<ran, pending, handed>> /\ lost' = lost \cup Elements(batch)
        /\ exec[Loop] # "none"
    BY <1>8 DEF TriggerThrows, Unwound
  <2>2. PICK d \in Elements(ran) : d.kind = "post"
    BY <2>1 DEF Drained, Posted
  <2>3. \A c \in Elements(batch) : c \in lost' /\ Thrower(c)'
    BY <2>1, <2>2, OrderOfElements DEF Thrower
  <2>4. \A c \in Present : c \in Present' \/ c \in Elements(batch)
    BY <2>1 DEF Present
  <2> QED BY <1>1, <2>1, <2>3, <2>4, Accounted
<1>9. CASE Swap
  <2>1. batch = <<>> /\ batch' = pending /\ pending' = <<>> /\ UNCHANGED <<ran, lost, handed>>
    BY <1>9 DEF Swap, Drained
  <2>2. Present' = Present
    BY <1>1, <2>1 DEF Present
  <2> QED BY <1>1, <2>1, <2>2, Accounted
<1>10. CASE UNCHANGED queueVars
  BY <1>10 DEF queueVars, OnlyThrowsLose
<1>11. (\E t \in Threads : Count(t) \/ Trigger(t) \/ (TriggerThrows(t) /\ t # Loop))
         \/ (\E t \in Posters : Stop(t)) \/ Enter \/ CollectExec
         \/ CollectOther \/ PollFails \/ OtherThrows \/ Check \/ HandleOther \/ EndDispatch
         \/ EndDrain \/ UNCHANGED vars
       => UNCHANGED queueVars
  BY DEF Count, Trigger, TriggerThrows, Stop, Enter, CollectExec, CollectOther, Collect, PollFails,
         OtherThrows, Check, HandleOther, EndDispatch, EndDrain, queueVars, vars
<1> QED
  BY <1>4, <1>5, <1>6, <1>7, <1>8, <1>9, <1>10, <1>11 DEF Next, ExecStep, LoopStep, Drain

(* No callback disappears unless one that was queued before it threw.      *)
THEOREM NothingElseLoses == Spec => []OnlyThrowsLose
<1>1. Init => Ordered /\ OnlyThrowsLose
  BY EmptyOrder DEF Init, Ordered, InLine, OnlyThrowsLose
<1> QED BY <1>1, StepOrdered, StepLoses, AlwaysDrained, PTL DEF Spec
=============================================================================
