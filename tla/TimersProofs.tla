---------------------------- MODULE TimersProofs ----------------------------
(***************************************************************************)
(* Proofs about Timers, for every finite set of timers and every number of *)
(* descriptors, and whether or not timers are constructed while a          *)
(* cancelled one, which will close its number again, still exists.         *)
(***************************************************************************)
EXTENDS Timers, TLAPS, FiniteSetTheorems, FunctionTheorems, SequenceTheorems, WellFoundedInduction

USE TimerAssumption DEF TimerAssumption

-----------------------------------------------------------------------------
(* The lowest free number *)

(* A set of naturals that is not empty has a least element.                *)
Less == {p \in Nat \X Nat : p[1] < p[2]}

LEMMA HasLeast ==
  ASSUME NEW S, S \subseteq Nat, S # {}
  PROVE  \E n \in S : \A m \in S : n <= m
<1>1. IsWellFoundedOn(Less, Nat)
  BY NatLessThanWellFounded, Zenon DEF OpToRel, Less
<1>2. PICK n \in S : \A m \in S : <<m, n>> \notin Less
  BY <1>1, WFMin
<1>3. \A m \in S : <<m, n>> \in Nat \X Nat /\ <<m, n>>[1] = m /\ <<m, n>>[2] = n
  OBVIOUS
<1>4. \A m \in S : ~(m < n)
  BY <1>2, <1>3 DEF Less
<1> QED BY <1>4

(* timerfd_create gives a number that is free. *)
LEMMA LowestIsFree == Free # {} => Lowest(Free) \in Fds /\ table[Lowest(Free)] = None
<1> SUFFICES ASSUME Free # {} PROVE Lowest(Free) \in Fds /\ table[Lowest(Free)] = None
  OBVIOUS
<1>1. Free \subseteq Nat
  BY DEF Free, Fds
<1>2. \E n \in Free : \A m \in Free : n <= m
  BY <1>1, HasLeast
<1>3. Lowest(Free) \in Free
  BY <1>2 DEF Lowest
<1> QED BY <1>3 DEF Free

-----------------------------------------------------------------------------
(* The batch *)

(* The timers of a batch. *)
InBatch(b) == {b[i] : i \in DOMAIN b}
Distinct(b) == \A i, j \in DOMAIN b : b[i] = b[j] => i = j

LEMMA WaitingInBatch == \A t : Waiting(t) <=> t \in InBatch(batch)
  BY DEF Waiting, InBatch

(* Taking the head out of a batch of distinct timers removes that timer    *)
(* and no other.                                                           *)
LEMMA TailOfBatch ==
  ASSUME NEW b \in Seq(Timers), b # <<>>, Distinct(b)
  PROVE  /\ Head(b) \in InBatch(b) /\ Head(b) \in Timers
         /\ Tail(b) \in Seq(Timers) /\ Distinct(Tail(b))
         /\ InBatch(Tail(b)) = InBatch(b) \ {Head(b)}
<1> DEFINE u == Tail(b)
<1>1. /\ Len(b) \in Nat \ {0} /\ DOMAIN b = 1 .. Len(b) /\ DOMAIN u = 1 .. Len(b) - 1
      /\ Head(b) = b[1] /\ Head(b) \in Timers /\ u \in Seq(Timers)
      /\ \A i \in 1 .. Len(b) - 1 : u[i] = b[i + 1]
  BY HeadTailProperties, LenProperties, EmptySeq
<1> HIDE DEF u
<1>2. \A i \in 1 .. Len(b) - 1 : i + 1 \in 1 .. Len(b) /\ i + 1 # 1
  BY <1>1
<1>3. Distinct(u)
  BY <1>1, <1>2, SMTT(30) DEF Distinct
<1>4. \A x \in InBatch(u) : x \in InBatch(b) /\ x # b[1]
  <2> SUFFICES ASSUME NEW i \in 1 .. Len(b) - 1 PROVE u[i] \in InBatch(b) /\ u[i] # b[1]
    BY <1>1 DEF InBatch
  <2>1. i + 1 \in DOMAIN b /\ 1 \in DOMAIN b /\ i + 1 # 1 /\ u[i] = b[i + 1]
    BY <1>1, <1>2
  <2> QED BY <2>1 DEF InBatch, Distinct
<1>5. \A i \in 2 .. Len(b) : i - 1 \in 1 .. Len(b) - 1 /\ u[i - 1] = b[i]
  BY <1>1
<1>6. \A x \in InBatch(b) \ {b[1]} : x \in InBatch(u)
  <2> SUFFICES ASSUME NEW i \in 1 .. Len(b), b[i] # b[1] PROVE b[i] \in InBatch(u)
    BY <1>1 DEF InBatch
  <2>1. i \in 2 .. Len(b)
    BY <1>1
  <2> QED BY <2>1, <1>5, <1>1 DEF InBatch
<1>7. b[1] \in InBatch(b)
  BY <1>1 DEF InBatch
<1> QED BY <1>1, <1>3, <1>4, <1>6, <1>7 DEF u

(* epoll_wait reports each ready descriptor once: an order of R that has   *)
(* as many places as R and leaves none out repeats none.                   *)
LEMMA OrderIsInjective ==
  ASSUME NEW R \in SUBSET Fds, NEW order \in [1..Cardinality(R) -> R],
         \A f \in R : \E i \in DOMAIN order : order[i] = f
  PROVE  /\ Cardinality(R) \in Nat
         /\ \A i, j \in 1..Cardinality(R) : order[i] = order[j] => i = j
<1>1. IsFiniteSet(R)
  <2>1. 1 \in Int /\ MaxFd \in Int
    OBVIOUS
  <2>2. IsFiniteSet(1..MaxFd)
    BY <2>1, FS_Interval
  <2> QED BY <2>2, FS_Subset DEF Fds
<1>2. Cardinality(R) \in Nat
  BY <1>1, FS_CardinalityType
<1>3. IsFiniteSet(1..Cardinality(R)) /\ Cardinality(1..Cardinality(R)) = Cardinality(R)
  BY <1>2, FS_Interval
<1>4. order \in Surjection(1..Cardinality(R), R)
  BY DEF Surjection
<1>5. order \in Injection(1..Cardinality(R), R)
  BY <1>3, <1>4, FS_SurjSameCardinalityImpliesInj
<1> QED BY <1>2, <1>5 DEF Injection, IsInjective

-----------------------------------------------------------------------------
(* The inductive invariant *)

(* A descriptor that belongs to a timer has the number that this timer     *)
(* keeps, and the timer is alive and not cancelled.  This is what makes a  *)
(* number that is closed twice harmless for whoever is called: the timer   *)
(* that closes a number that is not its own any more takes the             *)
(* registration of another one, but leaves none behind of its own.         *)
OwnersAreLive ==
    \A f \in Fds : table[f] \in Timers =>
        /\ obj[table[f]].fd = f
        /\ obj[table[f]].life = "live"
        /\ obj[table[f]].cancelled = "no"

(* A registration is good for one report, and it is there only until that. *)
OneReport ==
    \A f \in Fds : entry[f] # "none" =>
        /\ entry[f] = "oneshot"
        /\ table[f] \in Timers
        /\ fired[table[f]] = 0
        /\ ~Waiting(table[f])

(* Whoever is in the batch has never been called and is not destroyed, and *)
(* if it has been cancelled, then since the batch was collected.           *)
BatchIsOwed ==
    /\ Distinct(batch)
    /\ \A t \in Timers : Waiting(t) =>
          fired[t] = 0 /\ obj[t].life = "live" /\ obj[t].cancelled # "yes"
    /\ pc \in {"main", "wait", "left"} => batch = <<>>

FiredLate ==
    /\ \A t \in Timers : obj[t].life = "none" => fired[t] = 0
    /\ \A t \in Timers : fired[t] <= 1

IInv == TypeOK /\ OwnersAreLive /\ OneReport /\ BatchIsOwed /\ FiredLate

(* A clock runs only for a timer that was not constructed with 0, and      *)
(* whoever is in the batch or has been called has expired.                 *)
OnlyExpired ==
    /\ \A f \in Fds : table[f] \in Timers /\ clock[f] # "off" => obj[table[f]].millis = "positive"
    /\ \A t \in Timers : Waiting(t) \/ fired[t] = 1 => HasExpired(t)

(* What a timer_impl holds.                                                *)
Record == [life : {"none", "live", "gone"}, fd : 0..MaxFd,
           millis : {"zero", "positive"}, cancelled : {"no", "yes", "late"}]

(* cancel changes the flag alone, and the destructor the life alone.       *)
LEMMA RecordUpdate ==
  ASSUME NEW r \in Record, NEW c \in {"no", "yes", "late"}, NEW l \in {"none", "live", "gone"}
  PROVE  [r EXCEPT !.cancelled = c] \in Record /\ [r EXCEPT !.life = l] \in Record
  BY DEF Record

LEMMA InitHolds == Init => IInv
<1> SUFFICES ASSUME Init PROVE IInv
  OBVIOUS
<1>1. batch = <<>> /\ DOMAIN batch = {} /\ batch \in Seq(Timers)
  BY DEF Init
<1>2. \A f \in Fds : table[f] \notin Timers /\ entry[f] = "none"
  BY DEF Init, None, Leaked
<1>3. NoTimer \in Record /\ NoTimer.life = "none"
  BY DEF NoTimer, Record
<1>4. obj \in [Timers -> Record] /\ \A t \in Timers : obj[t].life = "none"
  BY <1>3 DEF Init
<1>5. TypeOK
  BY <1>1, <1>2, <1>4 DEF Init, TypeOK, Record
<1> QED BY <1>1, <1>2, <1>5
     DEF Init, IInv, OwnersAreLive, OneReport, BatchIsOwed, FiredLate, Distinct, Waiting

-----------------------------------------------------------------------------
(* The application's steps *)

(* A new timer gets a number that nobody has, and it has never been called *)
(* nor collected.                                                          *)
LEMMA CreateStep ==
  ASSUME IInv, NEW t \in Timers, Create(t)
  PROVE  IInv'
<1> DEFINE f == Lowest(Free)
<1> USE DEF IInv
<1>1. f \in Fds /\ table[f] = None
  BY LowestIsFree DEF Create
<1> HIDE DEF f
<1>2. PICK m \in {"zero", "positive"} :
        /\ obj' = [obj EXCEPT ![t] = [life |-> "live", fd |-> f, millis |-> m, cancelled |-> "no"]]
        /\ table' = [table EXCEPT ![f] = t]
        /\ clock' = [clock EXCEPT ![f] = SetTime(m)]
        /\ entry' = [entry EXCEPT ![f] = "oneshot"]
  BY DEF Create, f, SetEventsOnce
<1>3. Acts /\ obj[t].life = "none" /\ UNCHANGED <<run, pc, batch, fired>>
  BY DEF Create, loopVars
<1>4. ~Waiting(t) /\ fired[t] = 0
  BY <1>3 DEF BatchIsOwed, FiredLate
<1>5. \A g \in Fds : table[g] # t
  BY <1>3 DEF OwnersAreLive
<1>6. \A u : Waiting(u)' <=> Waiting(u)
  BY <1>3 DEF Waiting
<1>7. f \in 0..MaxFd /\ Fds \subseteq 0..MaxFd /\ SetTime(m) \in {"off", "ticking"}
  BY <1>1 DEF Fds, SetTime
<1>8. TypeOK'
  BY <1>1, <1>2, <1>3, <1>7 DEF TypeOK
<1>9. OwnersAreLive'
  BY <1>1, <1>2, <1>5 DEF TypeOK, OwnersAreLive
<1>10. OneReport'
  BY <1>1, <1>2, <1>3, <1>4, <1>6 DEF TypeOK, OneReport
<1>11. BatchIsOwed'
  BY <1>2, <1>3, <1>4, <1>6 DEF TypeOK, BatchIsOwed, Distinct
<1>12. FiredLate'
  BY <1>2, <1>3 DEF TypeOK, FiredLate
<1> QED BY <1>8, <1>9, <1>10, <1>11, <1>12

LEMMA CreateThrowsStep ==
  ASSUME IInv, NEW t \in Timers, CreateThrows(t)
  PROVE  IInv'
<1> DEFINE f == Lowest(Free)
<1> USE DEF IInv
<1>1. f \in Fds /\ table[f] = None
  BY LowestIsFree DEF CreateThrows
<1>2. table' = [table EXCEPT ![f] = Leaked] /\ UNCHANGED <<obj, clock, entry, run, pc, batch, fired>>
  BY DEF CreateThrows, loopVars
<1> HIDE DEF f
<1>3. Leaked \notin Timers /\ None \notin Timers
  OBVIOUS
<1>4. \A u : Waiting(u)' <=> Waiting(u)
  BY <1>2 DEF Waiting
<1>5. entry[f] = "none"
  BY <1>1, <1>3 DEF TypeOK
<1>6. TypeOK'
  BY <1>1, <1>2, <1>5 DEF TypeOK
<1>7. OwnersAreLive'
  BY <1>1, <1>2, <1>3 DEF TypeOK, OwnersAreLive
<1>8. OneReport'
  BY <1>1, <1>2, <1>4, <1>5 DEF TypeOK, OneReport
<1>9. BatchIsOwed' /\ FiredLate'
  BY <1>2, <1>4 DEF BatchIsOwed, FiredLate, Distinct
<1> QED BY <1>6, <1>7, <1>8, <1>9

(* Closing the number that a timer keeps leaves no descriptor and no       *)
(* registration of this timer, whoever had the number.                     *)
LEMMA CloseTakesOwn ==
  ASSUME IInv, NEW t \in Timers, obj[t].life = "live", Close(t)
  PROVE  /\ table' \in [Fds -> Timers \cup {None, Leaked}]
         /\ clock' \in [Fds -> {"off", "ticking", "expired"}]
         /\ entry' \in [Fds -> {"none", "oneshot", "level"}]
         /\ \A g \in Fds : table'[g] # t
         /\ \A g \in Fds : table'[g] \in Timers => table'[g] = table[g] /\ clock'[g] = clock[g]
         /\ \A g \in Fds : entry'[g] # "none" => entry'[g] = entry[g] /\ table'[g] = table[g]
<1> DEFINE f == obj[t].fd
<1> USE DEF IInv
<1>1. f \in Fds
  BY DEF TypeOK
<1>2. \A g \in Fds : table[g] = t => g = f
  BY DEF OwnersAreLive
<1>3. /\ table' = [table EXCEPT ![f] = None]
      /\ clock' = [clock EXCEPT ![f] = "off"]
      /\ entry' = [entry EXCEPT ![f] = "none"]
  BY DEF Close
<1> HIDE DEF f
<1>4. None \notin Timers
  OBVIOUS
<1> QED BY <1>1, <1>2, <1>3, <1>4 DEF TypeOK

LEMMA CancelStep ==
  ASSUME IInv, NEW t \in Timers, Cancel(t)
  PROVE  IInv'
<1> USE DEF IInv
<1>1. obj[t].life = "live" /\ Close(t) /\ UNCHANGED <<run, pc, batch, fired>>
  BY DEF Cancel, loopVars
<1>2. PICK c \in {"late", "yes"} :
        obj' = [obj EXCEPT ![t].cancelled = c] /\ (Waiting(t) => c = "late")
  BY DEF Cancel
<1>3. \A u : Waiting(u)' <=> Waiting(u)
  BY <1>1 DEF Waiting
<1>4. \A u \in Timers : /\ obj'[u].life = obj[u].life /\ obj'[u].fd = obj[u].fd
                        /\ u # t => obj'[u] = obj[u]
                        /\ u = t => obj'[u].cancelled = c
  BY <1>2 DEF TypeOK
<1>5. obj' \in [Timers -> Record]
  <2>1. obj \in [Timers -> Record] /\ obj[t] \in Record
    BY DEF TypeOK, Record
  <2> QED BY <1>2, <2>1, RecordUpdate
<1>6. TypeOK'
  BY <1>1, <1>4, <1>5, CloseTakesOwn DEF TypeOK, Record
<1>7. OwnersAreLive'
  BY <1>1, <1>4, CloseTakesOwn DEF OwnersAreLive
<1>8. OneReport'
  BY <1>1, <1>3, CloseTakesOwn DEF OneReport
<1>9. BatchIsOwed'
  BY <1>1, <1>2, <1>3, <1>4 DEF BatchIsOwed, Distinct
<1>10. FiredLate'
  BY <1>1, <1>4 DEF FiredLate
<1> QED BY <1>6, <1>7, <1>8, <1>9, <1>10

LEMMA DestroyStep ==
  ASSUME IInv, NEW t \in Timers, Destroy(t)
  PROVE  IInv'
<1> USE DEF IInv
<1>1. obj[t].life = "live" /\ ~Waiting(t) /\ Close(t) /\ UNCHANGED <<run, pc, batch, fired>>
  BY DEF Destroy, loopVars
<1>2. obj' = [obj EXCEPT ![t].life = "gone"]
  BY DEF Destroy
<1>3. \A u : Waiting(u)' <=> Waiting(u)
  BY <1>1 DEF Waiting
<1>4. \A u \in Timers : /\ u # t => obj'[u] = obj[u]
                        /\ u = t => obj'[u].life = "gone" /\ obj'[u].fd = obj[u].fd
  BY <1>2 DEF TypeOK
<1>5. obj' \in [Timers -> Record]
  <2>1. obj \in [Timers -> Record] /\ obj[t] \in Record
    BY DEF TypeOK, Record
  <2> QED BY <1>2, <2>1, RecordUpdate
<1>6. TypeOK'
  BY <1>1, <1>4, <1>5, CloseTakesOwn DEF TypeOK, Record
<1>7. OwnersAreLive'
  BY <1>1, <1>4, CloseTakesOwn DEF OwnersAreLive
<1>8. OneReport'
  BY <1>1, <1>3, CloseTakesOwn DEF OneReport
<1>9. BatchIsOwed'
  BY <1>1, <1>3, <1>4 DEF BatchIsOwed, Distinct
<1>10. FiredLate'
  BY <1>1, <1>4 DEF FiredLate
<1> QED BY <1>6, <1>7, <1>8, <1>9, <1>10

LEMMA StopStep == IInv /\ Stop => IInv'
<1> SUFFICES ASSUME IInv, Stop PROVE IInv'
  OBVIOUS
<1>1. run' = FALSE /\ UNCHANGED <<obj, table, clock, entry, pc, batch, fired>>
  BY DEF Stop, kernelVars
<1>2. run' \in BOOLEAN
  BY <1>1
<1>3. TypeOK'
  BY <1>1, <1>2 DEF IInv, TypeOK
<1> QED BY <1>1, <1>3 DEF IInv, OwnersAreLive, OneReport, BatchIsOwed, FiredLate,
                          Distinct, Waiting

-----------------------------------------------------------------------------
(* The clock and the loop *)

LEMMA ExpireStep ==
  ASSUME IInv, NEW f \in Fds, Expire(f)
  PROVE  IInv'
<1>1. clock' = [clock EXCEPT ![f] = "expired"] /\ UNCHANGED <<obj, table, entry, run, pc, batch, fired>>
  BY DEF Expire, loopVars
<1>2. clock' \in [Fds -> {"off", "ticking", "expired"}]
  BY <1>1 DEF IInv, TypeOK
<1> QED BY <1>1, <1>2 DEF IInv, TypeOK, OwnersAreLive, OneReport, BatchIsOwed, FiredLate,
                          Distinct, Waiting

LEMMA EnterStep == IInv /\ Enter => IInv'
<1> SUFFICES ASSUME IInv, Enter PROVE IInv'
  OBVIOUS
<1>1. /\ pc = "main" /\ pc' = "wait" /\ run' = TRUE
      /\ UNCHANGED <<obj, table, clock, entry, batch, fired>>
  BY DEF Enter, kernelVars
<1> QED BY <1>1 DEF IInv, TypeOK, OwnersAreLive, OneReport, BatchIsOwed, FiredLate,
                    Distinct, Waiting

(* The batch is that of live timers that have never been called, each once,*)
(* and the registration of each is off.                                    *)
LEMMA CollectStep == IInv /\ Collect => IInv'
<1> SUFFICES ASSUME IInv, Collect PROVE IInv'
  OBVIOUS
<1> USE DEF IInv
<1>1. /\ pc = "wait" /\ pc' = "dispatch" /\ UNCHANGED <<obj, table, clock, run, fired>>
  BY DEF Collect
<1>2. PICK R \in SUBSET Ready :
        /\ \E order \in [1..Cardinality(R) -> R] :
              /\ \A f \in R : \E i \in DOMAIN order : order[i] = f
              /\ batch' = [i \in DOMAIN order |-> table[order[i]]]
        /\ entry' = [f \in Fds |-> IF f \in R /\ entry[f] = "oneshot" THEN "none" ELSE entry[f]]
  BY Zenon DEF Collect
<1>3. PICK order \in [1..Cardinality(R) -> R] :
        /\ \A f \in R : \E i \in DOMAIN order : order[i] = f
        /\ batch' = [i \in DOMAIN order |-> table[order[i]]]
  BY <1>2
<1> DEFINE n == Cardinality(R)
<1>4. R \in SUBSET Fds /\ \A f \in R : entry[f] = "oneshot" /\ table[f] \in Timers
  BY DEF Ready, OneReport
<1>5. n \in Nat /\ \A i, j \in 1..n : order[i] = order[j] => i = j
  BY <1>3, <1>4, OrderIsInjective
<1>6. batch' = [i \in 1..n |-> table[order[i]]] /\ \A i \in 1..n : order[i] \in R
  BY <1>3
<1> HIDE DEF n
<1>7. batch' \in Seq(Timers) /\ DOMAIN batch' = 1..n /\ \A i \in 1..n : batch'[i] = table[order[i]]
  BY <1>4, <1>5, <1>6
<1>8. \A f, g \in R : table[f] = table[g] => f = g
  BY <1>4 DEF OwnersAreLive
<1>9. Distinct(batch')
  BY <1>5, <1>6, <1>7, <1>8 DEF Distinct
<1>10. \A t : Waiting(t)' => \E f \in R : table[f] = t
  BY <1>6, <1>7 DEF Waiting
<1>11. \A f \in Fds : entry'[f] = IF f \in R THEN "none" ELSE entry[f]
  BY <1>2, <1>4 DEF TypeOK
<1>12. entry' \in [Fds -> {"none", "oneshot", "level"}]
  BY <1>2 DEF TypeOK
<1>13. TypeOK'
  BY <1>1, <1>7, <1>11, <1>12 DEF TypeOK
<1>14. OwnersAreLive'
  BY <1>1 DEF OwnersAreLive
<1>15. OneReport'
  <2> SUFFICES ASSUME NEW f \in Fds, entry'[f] # "none"
               PROVE  /\ entry'[f] = "oneshot" /\ table'[f] \in Timers
                      /\ fired'[table'[f]] = 0 /\ ~Waiting(table[f])'
    BY <1>1 DEF OneReport
  <2>1. f \notin R /\ entry'[f] = entry[f]
    BY <1>11
  <2>2. ~Waiting(table[f])'
    BY <1>1, <1>4, <1>10, <2>1 DEF OneReport, OwnersAreLive
  <2> QED BY <1>1, <2>1, <2>2 DEF OneReport
<1>16. BatchIsOwed'
  BY <1>1, <1>4, <1>9, <1>10 DEF BatchIsOwed, OneReport, OwnersAreLive
<1>17. FiredLate'
  BY <1>1 DEF FiredLate
<1> QED BY <1>13, <1>14, <1>15, <1>16, <1>17

LEMMA HandleEventStep == IInv /\ HandleEvent => IInv'
<1> SUFFICES ASSUME IInv, HandleEvent PROVE IInv'
  OBVIOUS
<1> USE DEF IInv
<1> DEFINE h == Head(batch)
<1>1. /\ pc = "dispatch" /\ pc' = "callback" /\ batch # <<>> /\ batch' = Tail(batch)
      /\ fired' = [fired EXCEPT ![h] = @ + 1]
      /\ UNCHANGED <<obj, table, clock, entry, run>>
  BY DEF HandleEvent, RestOfBatch, kernelVars
<1>2. batch \in Seq(Timers) /\ Distinct(batch)
  BY DEF TypeOK, BatchIsOwed
<1>3. /\ h \in Timers /\ Waiting(h)
      /\ batch' \in Seq(Timers) /\ Distinct(batch')
      /\ InBatch(batch') = InBatch(batch) \ {h}
  BY <1>1, <1>2, TailOfBatch, WaitingInBatch
<1> HIDE DEF h
<1>4. \A t : Waiting(t)' <=> Waiting(t) /\ t # h
  BY <1>3 DEF Waiting, InBatch
<1>5. /\ fired[h] = 0 /\ obj[h].life = "live"
      /\ fired' \in [Timers -> Nat] /\ fired'[h] = 1
      /\ \A t \in Timers : t # h => fired'[t] = fired[t]
  BY <1>1, <1>3 DEF TypeOK, BatchIsOwed
<1>6. TypeOK'
  BY <1>1, <1>3, <1>5 DEF TypeOK
<1>7. OwnersAreLive'
  BY <1>1 DEF OwnersAreLive
<1>8. OneReport'
  BY <1>1, <1>3, <1>4, <1>5 DEF OneReport
<1>9. BatchIsOwed'
  BY <1>1, <1>3, <1>4, <1>5 DEF BatchIsOwed, Distinct
<1>10. FiredLate'
  BY <1>1, <1>5 DEF FiredLate
<1> QED BY <1>6, <1>7, <1>8, <1>9, <1>10

LEMMA ReturnStep == IInv /\ (Return \/ EndDispatch) => IInv'
<1> SUFFICES ASSUME IInv, Return \/ EndDispatch PROVE IInv'
  OBVIOUS
<1>1. /\ pc' \in {"wait", "dispatch", "left"} /\ (pc' # "dispatch" => batch = <<>>)
      /\ UNCHANGED <<obj, table, clock, entry, run, batch, fired>>
  BY DEF Return, EndDispatch, kernelVars
<1> QED BY <1>1 DEF IInv, TypeOK, OwnersAreLive, OneReport, BatchIsOwed, FiredLate,
                    Distinct, Waiting

-----------------------------------------------------------------------------
(* Only expired timers are collected and called *)

(* What has expired stays so as long as its descriptor is its own; taking  *)
(* the descriptor away changes nothing.                                    *)
LEMMA StaysExpired ==
  ASSUME NEW t \in Timers, HasExpired(t), obj'[t].millis = obj[t].millis,
         \A f \in Fds : table'[f] = t => table[f] = t /\ (clock[f] = "expired" => clock'[f] = "expired")
  PROVE  HasExpired(t)'
  BY DEF HasExpired

LEMMA ExpiredStep ==
  ASSUME IInv, OnlyExpired, [Next]_vars
  PROVE  OnlyExpired'
<1> USE DEF IInv
<1> DEFINE Quiet == UNCHANGED <<batch, fired>>
<1>1. Quiet => \A t \in Timers : Waiting(t)' \/ fired'[t] = 1 => Waiting(t) \/ fired[t] = 1
  BY DEF Waiting
<1>2. ASSUME NEW t \in Timers, Create(t) PROVE OnlyExpired'
  <2> DEFINE f == Lowest(Free)
  <2>1. f \in Fds /\ table[f] = None
    BY <1>2, LowestIsFree DEF Create
  <2> HIDE DEF f
  <2>2. PICK m \in {"zero", "positive"} :
          /\ obj' = [obj EXCEPT ![t] = [life |-> "live", fd |-> f, millis |-> m, cancelled |-> "no"]]
          /\ table' = [table EXCEPT ![f] = t]
          /\ clock' = [clock EXCEPT ![f] = SetTime(m)]
    BY <1>2 DEF Create, f
  <2>3. obj[t].life = "none" /\ Quiet
    BY <1>2 DEF Create, loopVars
  <2>4. ~Waiting(t) /\ fired[t] = 0 /\ \A g \in Fds : table[g] # t
    BY <2>3 DEF BatchIsOwed, FiredLate, OwnersAreLive
  <2>5. /\ \A u \in Timers \ {t} : obj'[u] = obj[u]
        /\ obj'[t].millis = m
        /\ table'[f] = t /\ (clock'[f] # "off" => m = "positive")
        /\ \A g \in Fds \ {f} : table'[g] = table[g] /\ clock'[g] = clock[g]
    BY <2>1, <2>2 DEF TypeOK, SetTime
  <2>6. \A g \in Fds : table'[g] \in Timers /\ clock'[g] # "off" => obj'[table'[g]].millis = "positive"
    BY <2>4, <2>5 DEF OnlyExpired
  <2>7. ASSUME NEW u \in Timers, Waiting(u)' \/ fired'[u] = 1 PROVE HasExpired(u)'
    <3>1. Waiting(u) \/ fired[u] = 1
      BY <2>3, <2>7, <1>1
    <3>2. u # t /\ HasExpired(u)
      BY <2>4, <3>1 DEF OnlyExpired
    <3> QED BY <2>5, <3>2, StaysExpired
  <2> QED BY <2>6, <2>7 DEF OnlyExpired
<1>3. ASSUME NEW t \in Timers, CreateThrows(t) PROVE OnlyExpired'
  <2> DEFINE f == Lowest(Free)
  <2>1. f \in Fds /\ table' = [table EXCEPT ![f] = Leaked] /\ UNCHANGED <<obj, clock>> /\ Quiet
    BY <1>3, LowestIsFree DEF CreateThrows, loopVars
  <2> HIDE DEF f
  <2>2. \A g \in Fds : table'[g] \in Timers => table'[g] = table[g]
    BY <2>1 DEF TypeOK
  <2>3. \A u \in Timers : Waiting(u)' \/ fired'[u] = 1 => HasExpired(u)'
    BY <1>1, <2>1, <2>2, StaysExpired DEF OnlyExpired
  <2> QED BY <2>1, <2>2, <2>3 DEF OnlyExpired
<1>4. ASSUME NEW t \in Timers, Cancel(t) \/ Destroy(t) PROVE OnlyExpired'
  <2>1. obj[t].life = "live" /\ Close(t) /\ Quiet
    BY <1>4 DEF Cancel, Destroy, loopVars
  <2>2. \A u \in Timers : obj'[u].millis = obj[u].millis
    <3>1. \/ \E c \in {"late", "yes"} : obj' = [obj EXCEPT ![t].cancelled = c]
          \/ obj' = [obj EXCEPT ![t].life = "gone"]
      BY <1>4 DEF Cancel, Destroy
    <3>2. obj \in [Timers -> Record]
      BY DEF TypeOK, Record
    <3> QED BY <3>1, <3>2 DEF Record
  <2>3. \A g \in Fds : table'[g] \in Timers => table'[g] = table[g] /\ clock'[g] = clock[g]
    BY <2>1, CloseTakesOwn
  <2>4. \A u \in Timers : Waiting(u)' \/ fired'[u] = 1 => HasExpired(u)'
    BY <1>1, <2>1, <2>2, <2>3, StaysExpired DEF OnlyExpired
  <2> QED BY <2>2, <2>3, <2>4 DEF OnlyExpired
<1>5. ASSUME NEW f \in Fds, Expire(f) PROVE OnlyExpired'
  <2>1. /\ clock[f] = "ticking" /\ clock' = [clock EXCEPT ![f] = "expired"]
        /\ UNCHANGED <<obj, table>> /\ Quiet
    BY <1>5 DEF Expire, loopVars
  <2>2. \A g \in Fds : clock'[g] = IF g = f THEN "expired" ELSE clock[g]
    BY <2>1 DEF TypeOK
  <2>3. \A u \in Timers : Waiting(u)' \/ fired'[u] = 1 => HasExpired(u)'
    BY <1>1, <2>1, <2>2, StaysExpired DEF OnlyExpired
  <2> QED BY <2>1, <2>2, <2>3 DEF OnlyExpired
<1>6. CASE Collect
  <2>1. UNCHANGED <<obj, table, clock, fired>>
    BY <1>6 DEF Collect
  <2>2. \A u \in Timers : Waiting(u)' => \E f \in Fds : clock[f] = "expired" /\ table[f] = u
    BY <1>6 DEF Collect, Ready, Waiting
  <2>3. ASSUME NEW u \in Timers, Waiting(u)' PROVE HasExpired(u)
    <3>1. PICK f \in Fds : clock[f] = "expired" /\ table[f] = u
      BY <2>2, <2>3
    <3>2. \A g \in Fds : table[g] = u => g = f
      BY <3>1 DEF OwnersAreLive
    <3> QED BY <3>1, <3>2 DEF OnlyExpired, HasExpired
  <2>4. \A u \in Timers : HasExpired(u) => HasExpired(u)'
    BY <2>1 DEF HasExpired
  <2> QED BY <2>1, <2>3, <2>4 DEF OnlyExpired
<1>7. CASE HandleEvent
  <2> DEFINE h == Head(batch)
  <2>1. /\ batch # <<>> /\ batch' = Tail(batch) /\ fired' = [fired EXCEPT ![h] = @ + 1]
        /\ UNCHANGED <<obj, table, clock>>
    BY <1>7 DEF HandleEvent, RestOfBatch, kernelVars
  <2>2. h \in InBatch(batch) /\ InBatch(batch') = InBatch(batch) \ {h}
    BY <2>1, TailOfBatch DEF TypeOK, BatchIsOwed
  <2> HIDE DEF h
  <2>3. Waiting(h) /\ \A u \in Timers : Waiting(u)' => Waiting(u)
    BY <2>2 DEF Waiting, InBatch
  <2>4. \A u \in Timers : Waiting(u)' \/ fired'[u] = 1 => Waiting(u) \/ fired[u] = 1
    BY <2>1, <2>3 DEF TypeOK
  <2>5. \A u \in Timers : HasExpired(u) => HasExpired(u)'
    BY <2>1 DEF HasExpired
  <2> QED BY <2>1, <2>4, <2>5 DEF OnlyExpired
<1>8. CASE Stop \/ Enter \/ Return \/ EndDispatch \/ UNCHANGED vars
  <2>1. UNCHANGED <<obj, table, clock, batch, fired>>
    BY <1>8 DEF Stop, Enter, Return, EndDispatch, vars, kernelVars, loopVars
  <2> QED BY <1>1, <2>1 DEF OnlyExpired, HasExpired
<1> QED BY <1>2, <1>3, <1>4, <1>5, <1>6, <1>7, <1>8 DEF Next, App, LoopStep

-----------------------------------------------------------------------------
(* Theorems *)

LEMMA StepHolds == IInv /\ [Next]_vars => IInv'
<1> SUFFICES ASSUME IInv, [Next]_vars PROVE IInv'
  OBVIOUS
<1>1. CASE Stop
  BY <1>1, StopStep
<1>2. CASE \E t \in Timers : Create(t)
  BY <1>2, CreateStep
<1>3. CASE \E t \in Timers : CreateThrows(t)
  BY <1>3, CreateThrowsStep
<1>4. CASE \E t \in Timers : Cancel(t)
  BY <1>4, CancelStep
<1>5. CASE \E t \in Timers : Destroy(t)
  BY <1>5, DestroyStep
<1>6. CASE Enter
  BY <1>6, EnterStep
<1>7. CASE Collect
  BY <1>7, CollectStep
<1>8. CASE HandleEvent
  BY <1>8, HandleEventStep
<1>9. CASE Return \/ EndDispatch
  BY <1>9, ReturnStep
<1>10. CASE \E f \in Fds : Expire(f)
  BY <1>10, ExpireStep
<1>11. CASE UNCHANGED vars
  BY <1>11 DEF vars, kernelVars, loopVars, IInv, TypeOK, OwnersAreLive, OneReport, BatchIsOwed,
               FiredLate, Distinct, Waiting
<1> QED BY <1>1, <1>2, <1>3, <1>4, <1>5, <1>6, <1>7, <1>8, <1>9, <1>10, <1>11
        DEF Next, App, LoopStep

THEOREM Invariance == Spec => []IInv
  BY InitHolds, StepHolds, PTL DEF Spec

THEOREM OnlyExpiredInvariance == Spec => []OnlyExpired
<1>1. Init => OnlyExpired
  BY InitHolds DEF Init, IInv, TypeOK, OnlyExpired, Waiting
<1>2. IInv /\ OnlyExpired /\ [Next]_vars => OnlyExpired'
  BY ExpiredStep
<1> QED BY <1>1, <1>2, Invariance, PTL DEF Spec

(* Every live timer has the number of a descriptor, and every registration *)
(* is that of an open descriptor which belongs to a timer.                 *)
THEOREM TypeCorrect == Spec => []TypeOK
<1>1. IInv => TypeOK
  BY DEF IInv
<1> QED BY <1>1, Invariance, PTL

(* A timer calls its callback at most once in its life, and one that has   *)
(* been called had expired before.                                         *)
THEOREM EachFiresOnce == Spec => []FiresOnce
<1>1. IInv /\ OnlyExpired => FiresOnce
  BY DEF IInv, FiredLate, OnlyExpired, FiresOnce
<1> QED BY <1>1, Invariance, OnlyExpiredInvariance, PTL

(* The loop never calls a destroyed timer, however often numbers have been *)
(* closed and given out again.                                             *)
THEOREM DestroyedNeverCalled == Spec => []NoUseAfterDestroy
<1>1. IInv => NoUseAfterDestroy
  <2> SUFFICES ASSUME IInv, batch # <<>> PROVE obj[Head(batch)].life = "live"
    BY DEF NoUseAfterDestroy
  <2>1. Head(batch) \in Timers /\ Waiting(Head(batch))
    BY TailOfBatch, WaitingInBatch DEF IInv, TypeOK, BatchIsOwed
  <2> QED BY <2>1 DEF IInv, BatchIsOwed
<1> QED BY <1>1, Invariance, PTL

(* A timer cancelled before its expiry was collected is never called       *)
(* again: it is not in the batch, and there is no registration to bring it *)
(* there.                                                                  *)
THEOREM CancelSilences == Spec => SilentAfterCancel
<1> DEFINE Silent == \A t \in Timers : obj[t].cancelled = "yes" => fired'[t] = fired[t]
<1>1. IInv /\ [Next]_vars => [Silent]_vars
  <2> SUFFICES ASSUME IInv, [Next]_vars, NEW t \in Timers, obj[t].cancelled = "yes"
               PROVE  fired'[t] = fired[t]
    OBVIOUS
  <2>1. CASE HandleEvent
    <3>1. Head(batch) \in Timers /\ Waiting(Head(batch)) /\ Head(batch) # t
      BY <2>1, TailOfBatch, WaitingInBatch DEF IInv, TypeOK, BatchIsOwed, HandleEvent
    <3> QED BY <2>1, <3>1 DEF HandleEvent, IInv, TypeOK
  <2>2. CASE ~HandleEvent
    <3>1. UNCHANGED fired
      BY <2>2 DEF Next, App, LoopStep, Stop, Create, CreateThrows, Cancel, Destroy, Enter, Collect,
                  Return, EndDispatch, Expire, vars
    <3> QED BY <3>1
  <2> QED BY <2>1, <2>2
<1> QED BY <1>1, Invariance, PTL DEF Spec, SilentAfterCancel
=============================================================================
