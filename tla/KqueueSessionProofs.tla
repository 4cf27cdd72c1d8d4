------------------------- MODULE KqueueSessionProofs -------------------------
(***************************************************************************)
(* Proofs about KqueueSession: that the kqueue loop implements the queue   *)
(* of exec, that no edge is lost, and that no event points to the server's *)
(* destroyed socket once the message is back, for every assignment of      *)
(* sockets to loops, every message, every size of a send, a recv and a     *)
(* batch, and any number of posting threads and timers.                    *)
(***************************************************************************)
EXTENDS KqueueSession, SequenceLemmas, FiniteSetTheorems, TLAPS

USE KqueueAssumption, LinkAssumption, SessionAssumption
    DEF KqueueAssumption, LinkAssumption, SessionAssumption

-----------------------------------------------------------------------------
(* The invariant *)

Callbacks == [id : Nat, kind : Kinds]
Events == [filter : {"READ", "WRITE", "USER", "TIMER"}, of : Socks \cup {Io} \cup Timers]
Places == {"out", "next", "wait", "tasks", "recv", "send", "sent"}

LoopTypes ==
    /\ at \in [Loops -> Places]
    /\ batch \in [Loops -> Seq(Events)]
    /\ cb \in [Loops -> {"none", "on_received", "on_connected", "on_sent"}]
    /\ pending \in Seq(Callbacks) /\ tasks \in Seq(Callbacks) /\ handed \in Nat

(* Where a thread stands tells what is at the head of its batch.           *)
Heads(l) ==
    /\ at[l] \in {"out", "wait"} => batch[l] = <<>>
    /\ at[l] \in {"recv", "send", "sent", "tasks"} => batch[l] # <<>>
    /\ at[l] = "tasks" => l = Io /\ Head(batch[l]).filter = "USER"
    /\ at[l] = "recv" => Cur(l) \in Ends /\ Head(batch[l]).filter = "READ"
    /\ at[l] \in {"send", "sent"} =>
          Cur(l) \in Ends /\ Head(batch[l]).filter = (IF cb[l] = "on_received" THEN "READ" ELSE "WRITE")

(* A loop gets the events of its own sockets, and Io alone that of exec.   *)
Belongs(e, l) ==
    /\ e.filter = "USER" => l = Io
    /\ e.filter \in {"READ", "WRITE"} => e.of \in Socks /\ LoopOf[e.of] = l

Batched ==
    /\ \A l \in Loops : Heads(l) /\ \A i \in DOMAIN batch[l] : Belongs(batch[l][i], l)
    /\ at[Io] # "tasks" => tasks = <<>>

Sock == [alive : BOOLEAN, open : BOOLEAN, connected : BOOLEAN, edge : BOOLEAN, asked : BOOLEAN]
End == [snd : Seq(Nat), rcv : Seq(Nat), closed : BOOLEAN, eof : BOOLEAN, reset : BOOLEAN, err : BOOLEAN]

(* so_write keeps a buffer and a count. *)
Writing == [buf : Seq(Nat), sent : Nat]

DataTypes ==
    /\ sock \in [Socks -> Sock]
    /\ net \in [Ends -> End]
    /\ wr \in [Loops -> Writing]
    /\ large_message \in Seq(Nat) /\ total_sent \in Nat /\ pending_data \in Seq(Nat)

LInv == LoopTypes /\ Batched
KInv == LInv /\ DataTypes /\ NoLostEdge

-----------------------------------------------------------------------------
(* What the steps do to the batches and to the place of a thread *)

(* A step of one loop that keeps the others, and keeps its own events in   *)
(* order, keeps Batched.                                                   *)
LEMMA OneLoop ==
  ASSUME LInv, NEW l \in Loops,
         at' \in [Loops -> Places], batch' \in [Loops -> Seq(Events)],
         \A m \in Loops \ {l} : at'[m] = at[m] /\ batch'[m] = batch[m] /\ cb'[m] = cb[m],
         Heads(l)', \A i \in DOMAIN batch'[l] : Belongs(batch'[l][i], l),
         at'[Io] # "tasks" => tasks' = <<>>
  PROVE  Batched'
<1>1. ASSUME NEW m \in Loops, m # l PROVE Heads(m)'
  BY <1>1 DEF LInv, Batched, Heads, Cur
<1>2. ASSUME NEW m \in Loops, m # l, NEW i \in DOMAIN batch'[m] PROVE Belongs(batch'[m][i], m)
  BY <1>2 DEF LInv, Batched
<1> QED BY <1>1, <1>2 DEF Batched, Belongs

(* Taking the head out of a batch leaves events of the same loop.          *)
LEMMA HandledBatch ==
  ASSUME LInv, NEW l \in Loops, Handled(l), batch[l] # <<>>
  PROVE  /\ at' \in [Loops -> Places] /\ batch' \in [Loops -> Seq(Events)]
         /\ at'[l] = "next" /\ batch'[l] = Tail(batch[l]) /\ dropped' = dropped
         /\ \A m \in Loops \ {l} : at'[m] = at[m] /\ batch'[m] = batch[m]
         /\ \A i \in DOMAIN batch'[l] : Belongs(batch'[l][i], l)
<1>1. batch[l] \in Seq(Events)
  BY DEF LInv, LoopTypes
<1>2. /\ Tail(batch[l]) \in Seq(Events)
      /\ \A j \in DOMAIN Tail(batch[l]) : \E i \in DOMAIN batch[l] : Tail(batch[l])[j] = batch[l][i]
  BY <1>1, HeadAndTail
<1>3. "next" \in Places
  BY DEF Places
<1> QED BY <1>2, <1>3 DEF Handled, LInv, LoopTypes, Batched

LEMMA HandledStep ==
  ASSUME LInv, NEW l \in Loops, Handled(l), batch[l] # <<>>,
         \A m \in Loops \ {l} : cb'[m] = cb[m],
         cb' \in [Loops -> {"none", "on_received", "on_connected", "on_sent"}],
         UNCHANGED <<pending, tasks, handed>>, at[l] = "tasks" => tasks = <<>>
  PROVE  LInv'
<1>1. Heads(l)'
  BY HandledBatch DEF Heads
<1>2. at'[Io] # "tasks" => tasks' = <<>>
  BY HandledBatch DEF LInv, LoopTypes, Batched
<1>3. Batched'
  BY <1>1, <1>2, HandledBatch, OneLoop
<1>4. LoopTypes'
  BY HandledBatch DEF LInv, LoopTypes
<1> QED BY <1>3, <1>4 DEF LInv

(* An exception leaves an empty batch. *)
LEMMA ThrewStep ==
  ASSUME LInv, NEW l \in Loops, Threw(l), UNCHANGED <<pending, handed, cb>>,
         tasks' \in Seq(Callbacks), IF at[l] = "tasks" THEN tasks' = <<>> ELSE tasks' = tasks
  PROVE  LInv'
<1>1. /\ at' = [at EXCEPT ![l] = "out"] /\ batch' = [batch EXCEPT ![l] = <<>>]
      /\ <<>> \in Seq(Events) /\ "out" \in Places
  BY DEF Threw, Places
<1>2. /\ at' \in [Loops -> Places] /\ batch' \in [Loops -> Seq(Events)]
      /\ at'[l] = "out" /\ batch'[l] = <<>>
      /\ \A m \in Loops \ {l} : at'[m] = at[m] /\ batch'[m] = batch[m] /\ cb'[m] = cb[m]
  BY <1>1 DEF LInv, LoopTypes
<1>3. Heads(l)' /\ DOMAIN batch'[l] = {}
  BY <1>2 DEF Heads
<1>4. at'[Io] # "tasks" => tasks' = <<>>
  BY <1>2 DEF LInv, Batched, Heads
<1>5. Batched'
  BY <1>2, <1>3, <1>4, OneLoop
<1> QED BY <1>2, <1>5 DEF LInv, LoopTypes

(* The thread goes from one place inside the handling of an event to       *)
(* another, and the head of its batch suits both.                          *)
LEMMA MovesOn ==
  ASSUME LInv, NEW l \in Loops, NEW p \in {"recv", "send", "sent"},
         NEW c \in {"none", "on_received", "on_connected", "on_sent"},
         at' = [at EXCEPT ![l] = p], cb' = [cb EXCEPT ![l] = c],
         UNCHANGED <<batch, pending, tasks, handed>>,
         at[l] # "tasks", batch[l] # <<>>, Cur(l) \in Ends,
         Head(batch[l]).filter = (IF p = "recv" \/ c = "on_received" THEN "READ" ELSE "WRITE")
  PROVE  LInv'
<1>1. p \in Places
  BY DEF Places
<1>2. /\ at' \in [Loops -> Places] /\ batch' \in [Loops -> Seq(Events)]
      /\ cb' \in [Loops -> {"none", "on_received", "on_connected", "on_sent"}]
      /\ at'[l] = p /\ cb'[l] = c /\ batch'[l] = batch[l]
      /\ \A m \in Loops \ {l} : at'[m] = at[m] /\ batch'[m] = batch[m] /\ cb'[m] = cb[m]
  BY <1>1 DEF LInv, LoopTypes
<1>3. Heads(l)'
  BY <1>2 DEF Heads, Cur
<1>4. at'[Io] # "tasks" => tasks' = <<>>
  BY <1>2 DEF LInv, Batched
<1>5. \A i \in DOMAIN batch'[l] : Belongs(batch'[l][i], l)
  BY <1>2 DEF LInv, Batched
<1>6. Batched'
  BY <1>2, <1>3, <1>4, <1>5, OneLoop
<1> QED BY <1>2, <1>6 DEF LInv, LoopTypes

(* Steps that leave all of it alone. *)
LEMMA LoopsKept ==
  ASSUME LInv, UNCHANGED <<at, batch, cb, tasks>>, pending' \in Seq(Callbacks), handed' \in Nat
  PROVE  LInv'
  BY DEF LInv, LoopTypes, Batched, Heads, Cur, Belongs

-----------------------------------------------------------------------------
(* What kevent returns *)

LEMMA EventsFinite == \A l \in Loops : IsFiniteSet(OwnEvents(l) \cup SocketEvents(l))
<1> DEFINE Reads == {Event("READ", s) : s \in Socks}
           Writes == {Event("WRITE", s) : s \in Socks}
           Clocks == {Event("TIMER", t) : t \in Timers}
           All == ((Reads \cup Writes) \cup Clocks) \cup {UserEvent}
<1>1. IsFiniteSet(Socks)
  <2>1. Socks = ({Client} \cup {Server}) \cup {Listener}
    BY DEF Socks, Ends
  <2> QED BY <2>1, FS_Singleton, FS_Union
<1>2. IsFiniteSet(Reads) /\ IsFiniteSet(Writes) /\ IsFiniteSet(Clocks)
  <2>1. [s \in Socks |-> Event("READ", s)] \in Surjection(Socks, Reads)
    BY DEF Surjection
  <2>2. [s \in Socks |-> Event("WRITE", s)] \in Surjection(Socks, Writes)
    BY DEF Surjection
  <2>3. [t \in Timers |-> Event("TIMER", t)] \in Surjection(Timers, Clocks)
    BY DEF Surjection
  <2> HIDE DEF Reads, Writes, Clocks
  <2> QED BY <1>1, <2>1, <2>2, <2>3, FS_Surjection
<1>3. IsFiniteSet(All)
  <2> HIDE DEF Reads, Writes, Clocks
  <2>1. IsFiniteSet(Reads \cup Writes)
    BY <1>2, FS_Union
  <2>2. IsFiniteSet((Reads \cup Writes) \cup Clocks)
    BY <1>2, <2>1, FS_Union
  <2>3. IsFiniteSet({UserEvent})
    BY FS_Singleton
  <2> QED BY <2>2, <2>3, FS_Union
<1>4. \A l \in Loops : OwnEvents(l) \cup SocketEvents(l) \in SUBSET All
  BY DEF OwnEvents, SocketEvents
<1> HIDE DEF All
<1> QED BY <1>3, <1>4, FS_Subset

(* They are events of the loop, in a sequence. *)
LEMMA Returned ==
  ASSUME NEW l \in Loops, NEW b \in Batches(OwnEvents(l) \cup SocketEvents(l))
  PROVE  b \in Seq(Events) /\ \A i \in DOMAIN b : Belongs(b[i], l)
<1> DEFINE ready == OwnEvents(l) \cup SocketEvents(l)
           n == IF Cardinality(ready) < MaxEvents THEN Cardinality(ready) ELSE MaxEvents
<1>1. Cardinality(ready) \in Nat
  BY EventsFinite, FS_CardinalityType
<1>2. b \in [1..n -> ready] /\ n \in Nat
  BY <1>1 DEF Batches
<1>3. \A e \in OwnEvents(l) : e \in Events /\ Belongs(e, l)
  BY DEF OwnEvents, Event, UserEvent, Events, Belongs
<1>4. \A e \in SocketEvents(l) : e \in Events /\ Belongs(e, l)
  BY DEF SocketEvents, Event, Events, Belongs
<1> HIDE DEF ready, n
<1>5. ready = OwnEvents(l) \cup SocketEvents(l)
  BY DEF ready
<1>6. \A i \in 1..n : b[i] \in Events /\ Belongs(b[i], l)
  BY <1>2, <1>3, <1>4, <1>5
<1>7. b \in Seq(Events)
  BY <1>2, <1>6
<1> QED BY <1>2, <1>6, <1>7

LEMMA CollectStep ==
  ASSUME LInv, NEW l \in Loops, CollectEvents(l)
  PROVE  LInv'
<1>1. PICK b \in Batches(OwnEvents(l) \cup SocketEvents(l)) : batch' = [batch EXCEPT ![l] = b]
  BY DEF CollectEvents, Collect
<1>2. b \in Seq(Events) /\ \A i \in DOMAIN b : Belongs(b[i], l)
  BY Returned
<1>3. at' = [at EXCEPT ![l] = "next"] /\ "next" \in Places /\ UNCHANGED <<cb, pending, tasks, handed>> /\ at[l] = "wait"
  BY DEF CollectEvents, Collect, Places
<1>4. /\ at' \in [Loops -> Places] /\ batch' \in [Loops -> Seq(Events)]
      /\ at'[l] = "next" /\ batch'[l] = b
      /\ \A m \in Loops \ {l} : at'[m] = at[m] /\ batch'[m] = batch[m] /\ cb'[m] = cb[m]
  BY <1>1, <1>2, <1>3 DEF LInv, LoopTypes
<1>5. Heads(l)'
  BY <1>4 DEF Heads
<1>6. at'[Io] # "tasks" => tasks' = <<>>
  BY <1>3, <1>4 DEF LInv, Batched
<1>7. \A i \in DOMAIN batch'[l] : Belongs(batch'[l][i], l)
  BY <1>2, <1>4
<1>8. Batched'
  BY <1>4, <1>5, <1>6, <1>7, OneLoop
<1> QED BY <1>3, <1>4, <1>8 DEF LInv, LoopTypes

-----------------------------------------------------------------------------
(* The loop, callback by callback *)

(* The first callback of the queue that was swapped out. *)
LEMMA InvokedHead ==
  ASSUME LInv, NEW l \in Loops, NEW k, Invoked(l, k)
  PROVE  /\ l = Io /\ at[Io] = "tasks" /\ tasks # <<>> /\ Tail(tasks) \in Seq(Callbacks)
         /\ batch[Io] # <<>> /\ Head(batch[Io]).filter = "USER"
  BY HeadAndTail DEF Invoked, LInv, LoopTypes, Batched, Heads

LEMMA PushTypes == LoopTypes /\ (\E k \in Kinds : Push(k)) => pending' \in Seq(Callbacks) /\ handed' \in Nat
<1> SUFFICES ASSUME LoopTypes, NEW k \in Kinds, Push(k) PROVE pending' \in Seq(Callbacks) /\ handed' \in Nat
  OBVIOUS
<1>1. [id |-> handed + 1, kind |-> k] \in Callbacks
  BY DEF LoopTypes, Callbacks
<1> QED BY <1>1 DEF LoopTypes, Push

(* While callbacks are invoked the place and the batch stay. *)
LEMMA TasksShrink ==
  ASSUME LInv, at[Io] = "tasks", UNCHANGED <<at, batch, cb>>,
         tasks' \in Seq(Callbacks), pending' \in Seq(Callbacks), handed' \in Nat
  PROVE  LInv'
  BY DEF LInv, LoopTypes, Batched, Heads, Cur, Belongs

LEMMA LoopStepHolds ==
  ASSUME LInv, NEW l \in Loops, LoopStep(l), UNCHANGED cb
  PROVE  LInv'
<1>0. /\ at \in [Loops -> Places] /\ batch \in [Loops -> Seq(Events)]
      /\ pending \in Seq(Callbacks) /\ tasks \in Seq(Callbacks) /\ handed \in Nat
      /\ cb \in [Loops -> {"none", "on_received", "on_connected", "on_sent"}]
  BY DEF LInv, LoopTypes
<1>1. CASE Check(l)
  <2>1. PICK p \in {"wait", "out"} : at' = [at EXCEPT ![l] = p]
    BY <1>1 DEF Check
  <2>2. /\ at[l] = "next" /\ batch[l] = <<>> /\ UNCHANGED <<batch, pending, tasks, handed>>
    BY <1>1 DEF Check, execVars
  <2>3. p \in Places
    BY DEF Places
  <2>4. /\ at' \in [Loops -> Places] /\ at'[l] = p
        /\ \A m \in Loops \ {l} : at'[m] = at[m] /\ batch'[m] = batch[m] /\ cb'[m] = cb[m]
    BY <1>0, <2>1, <2>2, <2>3
  <2>5. Heads(l)' /\ (at'[Io] # "tasks" => tasks' = <<>>)
    BY <2>2, <2>4 DEF Heads, LInv, Batched
  <2>6. \A i \in DOMAIN batch'[l] : Belongs(batch'[l][i], l)
    BY <2>2 DEF LInv, Batched
  <2>7. Batched'
    BY <1>0, <2>2, <2>4, <2>5, <2>6, OneLoop
  <2> QED BY <1>0, <2>2, <2>4, <2>7 DEF LInv, LoopTypes
<1>2. CASE HandleUser(l)
  <2>1. /\ at' = [at EXCEPT ![l] = "tasks"] /\ tasks' = pending /\ pending' = <<>>
        /\ UNCHANGED <<batch, handed>> /\ "tasks" \in Places
        /\ batch[l] # <<>> /\ Head(batch[l]).filter = "USER"
    BY <1>2 DEF HandleUser, Swap, Current, Places
  <2>2. l = Io
    BY <1>0, <2>1, HeadAndTail DEF LInv, Batched, Belongs
  <2>3. /\ at' \in [Loops -> Places] /\ at'[l] = "tasks"
        /\ \A m \in Loops \ {l} : at'[m] = at[m] /\ batch'[m] = batch[m] /\ cb'[m] = cb[m]
    BY <1>0, <2>1
  <2>4. Heads(l)' /\ (at'[Io] # "tasks" => tasks' = <<>>)
    BY <2>1, <2>2, <2>3 DEF Heads
  <2>5. \A i \in DOMAIN batch'[l] : Belongs(batch'[l][i], l)
    BY <2>1 DEF LInv, Batched
  <2>6. Batched'
    BY <1>0, <2>1, <2>3, <2>4, <2>5, OneLoop
  <2>7. <<>> \in Seq(Callbacks)
    OBVIOUS
  <2> QED BY <1>0, <2>1, <2>3, <2>6, <2>7 DEF LInv, LoopTypes
<1>3. CASE EndTasks(l)
  <2>1. batch[l] # <<>>
    BY <1>3 DEF EndTasks, LInv, Batched, Heads
  <2> QED BY <1>0, <1>3, <2>1, HandledStep DEF EndTasks, execVars
<1>4. CASE HandleTimer(l)
  BY <1>0, <1>4, HandledStep DEF HandleTimer, Current, execVars
<1>5. CASE RunPlain(l) \/ RunStop(l) \/ RunDestroy(l)
  <2>1. /\ (\E k : Invoked(l, k)) /\ tasks' = Tail(tasks) /\ UNCHANGED <<at, batch, pending, handed>>
    BY <1>5 DEF RunPlain, RunStop, RunDestroy, loopVars
  <2> QED BY <1>0, <2>1, InvokedHead, TasksShrink
<1>6. CASE RunPost(l)
  <2>1. Invoked(l, "post") /\ tasks' = Tail(tasks) /\ UNCHANGED <<at, batch>> /\ \E k \in Plain : Push(k)
    BY <1>6 DEF RunPost, loopVars
  <2>2. pending' \in Seq(Callbacks) /\ handed' \in Nat
    BY <2>1, PushTypes DEF LInv, Kinds
  <2> QED BY <2>1, <2>2, InvokedHead, TasksShrink
<1>7. CASE RunThrow(l)
  <2>1. /\ Invoked(l, "throw") /\ tasks' = <<>> /\ Threw(l) /\ UNCHANGED <<pending, handed>>
        /\ <<>> \in Seq(Callbacks)
    BY <1>7 DEF RunThrow
  <2>2. at[l] = "tasks"
    BY <2>1 DEF Invoked
  <2> QED BY <2>1, <2>2, ThrewStep
<1> QED BY <1>1, <1>2, <1>3, <1>4, <1>5, <1>6, <1>7 DEF LoopStep

-----------------------------------------------------------------------------
(* The sockets, the application and the other threads *)

(* The event that is being handled. *)
LEMMA HeadOfBatch ==
  ASSUME LInv, NEW l \in Loops
  PROVE  /\ at[l] \in {"recv", "send", "sent"} =>
              /\ batch[l] # <<>> /\ Cur(l) \in Ends /\ LoopOf[Cur(l)] = l
              /\ Head(batch[l]).filter = (IF at[l] = "recv" \/ cb[l] = "on_received" THEN "READ" ELSE "WRITE")
              /\ Head(batch[l]) = Event(IF at[l] = "recv" \/ cb[l] = "on_received" THEN "READ" ELSE "WRITE", Cur(l))
         /\ batch[l] # <<>> => Head(batch[l]) \in Events /\ Belongs(Head(batch[l]), l)
<1>1. batch[l] # <<>> => Head(batch[l]) \in Events /\ Belongs(Head(batch[l]), l)
  <2> SUFFICES ASSUME batch[l] # <<>> PROVE Head(batch[l]) \in Events /\ Belongs(Head(batch[l]), l)
    OBVIOUS
  <2>1. batch[l] \in Seq(Events)
    BY DEF LInv, LoopTypes
  <2>2. Head(batch[l]) \in Events /\ 1 \in DOMAIN batch[l] /\ Head(batch[l]) = batch[l][1]
    BY <2>1, HeadAndTail
  <2> QED BY <2>2 DEF LInv, Batched
<1>2. ASSUME at[l] \in {"recv", "send", "sent"}
      PROVE  batch[l] # <<>> /\ Cur(l) \in Ends
             /\ Head(batch[l]).filter = (IF at[l] = "recv" \/ cb[l] = "on_received" THEN "READ" ELSE "WRITE")
  BY <1>2 DEF LInv, Batched, Heads
<1>3. \A e \in Events : e = Event(e.filter, e.of)
  BY DEF Events, Event
<1> QED BY <1>1, <1>2, <1>3 DEF Cur, Belongs

LEMMA ReadStepHolds ==
  ASSUME LInv, NEW l \in Loops, BeginRecv(l) \/ RecvFails(l) \/ ClientReceived(l) \/ ServerReceived(l)
                                 \/ ClientDisconnected(l) \/ ServerDisconnected(l)
  PROVE  LInv'
<1>0. cb \in [Loops -> {"none", "on_received", "on_connected", "on_sent"}] /\ cb = [cb EXCEPT ![l] = cb[l]]
      /\ tasks \in Seq(Callbacks) /\ pending \in Seq(Callbacks) /\ handed \in Nat
  BY DEF LInv, LoopTypes
<1>1. CASE BeginRecv(l)
  BY <1>0, <1>1, MovesOn DEF BeginRecv, Current, Loop, execVars, sockVars
<1>2. CASE RecvFails(l) \/ ServerDisconnected(l)
  <2>1. at[l] = "recv" /\ Handled(l) /\ UNCHANGED <<pending, tasks, handed, cb>>
    BY <1>2 DEF RecvFails, ServerDisconnected, EndOfStream, Loop, execVars, sockVars
  <2> QED BY <1>0, <2>1, HeadOfBatch, HandledStep
<1>3. CASE ClientReceived(l)
  BY <1>0, <1>3, LoopsKept DEF ClientReceived, RecvData, RecvOn, Loop, execVars
<1>4. CASE ServerReceived(l)
  <2>1. at[l] = "recv" /\ Cur(l) = Server /\ UNCHANGED <<pending, tasks, handed>>
    BY <1>4 DEF ServerReceived, RecvData, Loop, execVars
  <2>2. CASE RecvOn(l) /\ UNCHANGED <<cb, wr>>
    BY <1>0, <2>1, <2>2, LoopsKept DEF RecvOn
  <2>3. CASE BeginWrite(l, "on_received", Received(Server))
    <3>1. batch[l] # <<>> /\ Head(batch[l]).filter = "READ" /\ Server \in Ends
      BY <2>1, HeadOfBatch DEF Ends
    <3> QED BY <2>1, <2>3, <3>1, MovesOn DEF BeginWrite
  <2> QED BY <1>4, <2>2, <2>3 DEF ServerReceived
<1>5. CASE ClientDisconnected(l)
  <2>1. Threw(l) /\ at[l] = "recv" /\ UNCHANGED <<pending, tasks, handed, cb>>
    BY <1>5 DEF ClientDisconnected, EndOfStream, Loop, execVars
  <2> QED BY <1>0, <2>1, ThrewStep
<1> QED BY <1>1, <1>2, <1>3, <1>4, <1>5

LEMMA WriteStepHolds ==
  ASSUME LInv, NEW l \in Loops, Accept(l) \/ ConnectFailed(l) \/ Connected(l) \/ ClientSent(l) \/ ServerSent(l)
  PROVE  LInv'
<1>0. cb \in [Loops -> {"none", "on_received", "on_connected", "on_sent"}]
  BY DEF LInv, LoopTypes
<1>1. /\ at[l] = "next" /\ batch[l] # <<>> /\ UNCHANGED <<pending, tasks, handed>>
      /\ ~Accept(l) => Cur(l) \in Ends /\ Head(batch[l]).filter = "WRITE"
  BY DEF Accept, ConnectFailed, Connected, ClientSent, ServerSent, WriteEvent, Current, Loop, execVars, Ends
<1>2. CASE Handled(l) /\ UNCHANGED <<cb, wr>>
  BY <1>0, <1>1, <1>2, HandledStep
<1>3. CASE ~Accept(l) /\ \E name \in {"on_connected", "on_sent"} : \E buf : BeginWrite(l, name, buf)
  BY <1>1, <1>3, MovesOn DEF BeginWrite
<1> QED BY <1>2, <1>3 DEF Accept, ConnectFailed, Connected, ClientSent, ServerSent

LEMMA SendStepHolds ==
  ASSUME LInv, NEW l \in Loops, SendSome(l) \/ SendEnds(l)
  PROVE  LInv'
<1>0. cb \in [Loops -> {"none", "on_received", "on_connected", "on_sent"}] /\ cb = [cb EXCEPT ![l] = cb[l]]
      /\ pending \in Seq(Callbacks) /\ handed \in Nat
  BY DEF LInv, LoopTypes
<1>1. at[l] = "send" /\ UNCHANGED <<batch, cb, pending, tasks, handed>>
  BY DEF SendSome, SendEnds, Sending, Loop, execVars
<1>2. CASE SendSome(l)
  BY <1>0, <1>1, <1>2, LoopsKept DEF SendSome
<1>3. CASE SendEnds(l)
  <2>1. at' = [at EXCEPT ![l] = "sent"]
    BY <1>3 DEF SendEnds
  <2>2. batch[l] # <<>> /\ Cur(l) \in Ends
        /\ Head(batch[l]).filter = (IF cb[l] = "on_received" THEN "READ" ELSE "WRITE")
    BY <1>1, HeadOfBatch
  <2>3. cb[l] \in {"none", "on_received", "on_connected", "on_sent"}
    BY <1>0
  <2> QED BY <1>0, <1>1, <2>1, <2>2, <2>3, MovesOn
<1> QED BY <1>2, <1>3

LEMMA WroteStepHolds ==
  ASSUME LInv, NEW l \in Loops, ClientWroteFirst(l) \/ ClientWroteOn(l) \/ ServerEchoed(l) \/ ServerWroteOn(l)
  PROVE  LInv'
<1>0. cb \in [Loops -> {"none", "on_received", "on_connected", "on_sent"}]
  BY DEF LInv, LoopTypes
<1>1. at[l] = "sent" /\ cb' = [cb EXCEPT ![l] = "none"] /\ UNCHANGED <<pending, tasks, handed>>
  BY DEF ClientWroteFirst, ClientWroteOn, ServerEchoed, ServerWroteOn, Wrote, Loop, execVars
<1>2. /\ cb' \in [Loops -> {"none", "on_received", "on_connected", "on_sent"}]
      /\ \A m \in Loops \ {l} : cb'[m] = cb[m]
  BY <1>0, <1>1
<1>3. CASE Handled(l)
  BY <1>1, <1>2, <1>3, HeadOfBatch, HandledStep
<1>4. CASE ServerEchoed(l)
  <2>1. at' = [at EXCEPT ![l] = "recv"] /\ cb[l] = "on_received" /\ UNCHANGED batch
    BY <1>4 DEF ServerEchoed, Wrote
  <2>2. batch[l] # <<>> /\ Cur(l) \in Ends /\ Head(batch[l]).filter = "READ"
    BY <1>1, <2>1, HeadOfBatch
  <2> QED BY <1>1, <2>1, <2>2, MovesOn
<1> QED BY <1>3, <1>4 DEF ClientWroteFirst, ClientWroteOn, ServerWroteOn

LEMMA EnterStepHolds ==
  ASSUME LInv, NEW l \in Loops, EnterLoop(l)
  PROVE  LInv'
<1>1. /\ at' = [at EXCEPT ![l] = "next"] /\ at[l] = "out" /\ "next" \in Places
      /\ UNCHANGED <<batch, cb, pending, tasks, handed>>
  BY DEF EnterLoop, Enter, execVars, sockVars, Places
<1>2. /\ at' \in [Loops -> Places] /\ batch' \in [Loops -> Seq(Events)] /\ at'[l] = "next"
      /\ \A m \in Loops \ {l} : at'[m] = at[m] /\ batch'[m] = batch[m] /\ cb'[m] = cb[m]
  BY <1>1 DEF LInv, LoopTypes
<1>3. Heads(l)' /\ (at'[Io] # "tasks" => tasks' = <<>>)
  BY <1>1, <1>2 DEF Heads, LInv, Batched
<1>4. \A i \in DOMAIN batch'[l] : Belongs(batch'[l][i], l)
  BY <1>1 DEF LInv, Batched
<1>5. Batched'
  BY <1>2, <1>3, <1>4, OneLoop
<1> QED BY <1>1, <1>2, <1>5 DEF LInv, LoopTypes

LEMMA OutsideHolds ==
  ASSUME LInv, (Outside /\ UNCHANGED cb) \/ UNCHANGED <<kqueueVars, cb>>
  PROVE  LInv'
<1>1. pending' \in Seq(Callbacks) /\ handed' \in Nat
  <2>1. CASE \E p \in Posters : PostTask(p)
    BY <2>1, PushTypes DEF PostTask, LInv
  <2>2. CASE ~ \E p \in Posters : PostTask(p)
    BY <2>2 DEF Outside, Stop, Trigger, Expire, execVars, kqueueVars, LInv, LoopTypes
  <2> QED BY <2>1, <2>2
<1>2. UNCHANGED <<at, batch, cb, tasks>>
  BY DEF Outside, PostTask, Stop, Trigger, Expire, execVars, loopVars, kqueueVars
<1> QED BY <1>1, <1>2, LoopsKept

LEMMA StepHolds == LInv /\ [Next]_vars => LInv'
<1> SUFFICES ASSUME LInv, [Next]_vars PROVE LInv'
  OBVIOUS
<1>1. ASSUME NEW l \in Loops, Thread(l) PROVE LInv'
  <2>1. CASE Connect \/ ClientClose
    BY <2>1, OutsideHolds DEF Connect, ClientClose, SetUp
  <2>2. CASE LoopStep(l) /\ UNCHANGED <<linkVars, appVars, sockVars, load>>
    BY <2>2, LoopStepHolds DEF sockVars
  <2> QED BY <1>1, <2>1, <2>2, CollectStep, ReadStepHolds, WriteStepHolds, SendStepHolds, WroteStepHolds,
             EnterStepHolds DEF Thread, ClientApp, ServerApp
<1>2. CASE Kernel(LinkStep)
  BY <1>2, OutsideHolds DEF Kernel
<1>3. CASE Outside /\ UNCHANGED <<linkVars, appVars, sockVars, load>>
  BY <1>3, OutsideHolds DEF sockVars
<1>4. CASE UNCHANGED vars
  BY <1>4, OutsideHolds DEF vars, sockVars
<1> QED BY <1>1, <1>2, <1>3, <1>4 DEF Next

LEMMA InitHolds == Init => LInv
<1> SUFFICES ASSUME Init PROVE LInv
  OBVIOUS
<1>1. /\ at = [l \in Loops |-> "out"] /\ batch = [l \in Loops |-> <<>>] /\ cb = [l \in Loops |-> "none"]
      /\ pending = <<>> /\ tasks = <<>> /\ handed = 0
  BY DEF Init, KqueueInit
<1>2. LoopTypes
  <2>1. <<>> \in Seq(Events) /\ <<>> \in Seq(Callbacks) /\ "out" \in Places
    BY DEF Places
  <2> QED BY <1>1, <2>1 DEF LoopTypes
<1> QED BY <1>1, <1>2 DEF LInv, Batched, Heads

(* Where each loop's thread stands, its batch and the queue swapped out    *)
(* always fit together.                                                    *)
LEMMA LoopInvariance == Spec => []LInv
  BY InitHolds, StepHolds, PTL DEF Spec

-----------------------------------------------------------------------------
(* The refinement: each step is one of the abstract queue, or none. *)

LEMMA QueueKept == UNCHANGED <<pending, tasks, ran, lost, handed>> => UNCHANGED Queue!queueVars
  BY DEF Queue!queueVars

(* A callback taken from the queue that was swapped out is the oldest.     *)
LEMMA InvokedRefines ==
  ASSUME LInv, NEW l \in Loops, NEW k, Invoked(l, k)
  PROVE  /\ tasks \o pending # <<>> /\ ran' = Append(ran, Head(tasks \o pending))
         /\ Tail(tasks \o pending) = Tail(tasks) \o pending
<1>1. tasks \in Seq(Callbacks) /\ pending \in Seq(Callbacks) /\ tasks # <<>> /\ ran' = Append(ran, Head(tasks))
  BY DEF LInv, LoopTypes, Invoked
<1>2. /\ tasks \o pending # <<>> /\ Head(tasks \o pending) = Head(tasks)
      /\ Tail(tasks \o pending) = Tail(tasks) \o pending
  BY <1>1, JoinedHead, SMTT(30)
<1> QED BY <1>1, <1>2

LEMMA PushRefines ==
  ASSUME NEW q \in Seq(Callbacks), LoopTypes, NEW k \in Kinds, Push(k)
  PROVE  /\ q \o pending' = Append(q \o pending, Queue!Callback(handed + 1, k))
         /\ handed' = handed + 1
<1> DEFINE c == Queue!Callback(handed + 1, k)
<1>1. c \in Callbacks /\ pending \in Seq(Callbacks)
  BY DEF LoopTypes, Callbacks, Queue!Callback
<1>2. pending' = Append(pending, c) /\ handed' = handed + 1
  BY DEF Push, Queue!Callback
<1> HIDE DEF c
<1>3. q \o Append(pending, c) = Append(q \o pending, c)
  BY <1>1, Joined
<1> QED BY <1>2, <1>3 DEF c

LEMMA ThrowRefines ==
  ASSUME LInv, NEW l \in Loops, RunThrow(l)
  PROVE  Queue!InvokeAndUnwind
<1> DEFINE n == Len(tasks)
<1>1. /\ tasks \in Seq(Callbacks) /\ pending \in Seq(Callbacks) /\ tasks # <<>>
      /\ tasks' = <<>> /\ UNCHANGED <<pending, handed>>
      /\ lost' = lost \cup {tasks[i] : i \in 2..n}
  BY DEF LInv, LoopTypes, RunThrow, Invoked
<1>2. /\ n \in 1..Len(tasks \o pending)
      /\ lost' = lost \cup {(tasks \o pending)[i] : i \in 2..n}
      /\ tasks' \o pending' = SubSeq(tasks \o pending, n + 1, Len(tasks \o pending))
  BY <1>1, Joined, JoinedHead
<1> HIDE DEF n
<1>3. ran' = Append(ran, Head(tasks \o pending))
  BY InvokedRefines DEF RunThrow
<1> QED BY <1>1, <1>2, <1>3 DEF Queue!InvokeAndUnwind

LEMMA LoopStepRefines ==
  ASSUME LInv, NEW l \in Loops, LoopStep(l)
  PROVE  Queue!Next \/ UNCHANGED Queue!queueVars
<1>1. tasks \in Seq(Callbacks) /\ pending \in Seq(Callbacks)
  BY DEF LInv, LoopTypes
<1>2. CASE RunPlain(l) \/ RunStop(l) \/ RunDestroy(l)
  <2>1. (\E k : Invoked(l, k)) /\ tasks' = Tail(tasks) /\ UNCHANGED <<pending, lost, handed>>
    BY <1>2 DEF RunPlain, RunStop, RunDestroy
  <2> QED BY <2>1, InvokedRefines DEF Queue!Next, Queue!Invoke
<1>3. CASE RunPost(l)
  <2>1. Invoked(l, "post") /\ tasks' = Tail(tasks) /\ UNCHANGED lost
    BY <1>3 DEF RunPost
  <2>2. PICK k \in Kinds : Push(k)
    BY <1>3 DEF RunPost, Kinds
  <2>3. Tail(tasks) \in Seq(Callbacks) /\ LoopTypes
    BY <2>1, InvokedHead DEF LInv
  <2>4. /\ tasks' \o pending' = Append(Tail(tasks) \o pending, Queue!Callback(handed + 1, k))
        /\ handed' = handed + 1
    BY <2>1, <2>2, <2>3, PushRefines
  <2> QED BY <2>1, <2>4, InvokedRefines DEF Queue!Next, Queue!InvokeAndHandOver
<1>4. CASE RunThrow(l)
  BY <1>4, ThrowRefines DEF Queue!Next
<1>5. CASE HandleUser(l)
  <2>1. tasks' = pending /\ pending' = <<>> /\ UNCHANGED <<ran, lost, handed>>
    BY <1>5 DEF HandleUser, Swap
  <2>2. tasks = <<>>
    <3>1. l = Io
      BY <1>5, HeadOfBatch DEF HandleUser, Current, Belongs
    <3> QED BY <1>5, <3>1 DEF HandleUser, Current, LInv, Batched
  <2>3. tasks' \o pending' = tasks \o pending
    BY <1>1, <2>1, <2>2, ConcatEmptySeq
  <2> QED BY <2>1, <2>3 DEF Queue!queueVars
<1>6. CASE Check(l) \/ EndTasks(l) \/ HandleTimer(l)
  BY <1>6, QueueKept DEF Check, EndTasks, HandleTimer, execVars
<1> QED BY <1>2, <1>3, <1>4, <1>5, <1>6 DEF LoopStep

LEMMA StepRefines == LInv /\ [Next]_vars => [Queue!Next]_(Queue!queueVars)
<1> SUFFICES ASSUME LInv, [Next]_vars PROVE Queue!Next \/ UNCHANGED Queue!queueVars
  OBVIOUS
<1>1. ASSUME NEW p \in Posters, PostTask(p) PROVE Queue!HandOver
  <2>1. PICK k \in Kinds : Push(k)
    BY <1>1 DEF PostTask
  <2>2. tasks \in Seq(Callbacks) /\ LoopTypes /\ UNCHANGED <<tasks, ran, lost>>
    BY <1>1 DEF PostTask, LInv, LoopTypes
  <2>3. tasks' \o pending' = Append(tasks \o pending, Queue!Callback(handed + 1, k)) /\ handed' = handed + 1
    BY <2>1, <2>2, PushRefines
  <2> QED BY <2>2, <2>3 DEF Queue!HandOver
<1>2. ASSUME NEW l \in Loops, LoopStep(l) PROVE Queue!Next \/ UNCHANGED Queue!queueVars
  BY <1>2, LoopStepRefines
<1>3. ASSUME NEW l \in Loops, Thread(l), ~LoopStep(l) PROVE UNCHANGED <<pending, tasks, ran, lost, handed>>
  <2>1. CASE CollectEvents(l) \/ BeginRecv(l) \/ RecvFails(l) \/ SendSome(l) \/ SendEnds(l)
    BY <2>1 DEF CollectEvents, Collect, BeginRecv, RecvFails, SendSome, SendEnds, Sending, Loop, execVars
  <2>2. CASE ClientApp(l)
    BY <2>2 DEF ClientApp, ClientReceived, RecvData, ClientDisconnected, EndOfStream, ConnectFailed, Connected,
                ClientSent, WriteEvent, ClientWroteFirst, ClientWroteOn, Wrote, Loop, execVars
  <2>3. CASE ServerApp(l)
    BY <2>3 DEF ServerApp, Accept, ServerReceived, RecvData, ServerDisconnected, EndOfStream, ServerSent,
                WriteEvent, ServerEchoed, ServerWroteOn, Wrote, Loop, execVars
  <2>4. CASE EnterLoop(l) \/ Connect \/ ClientClose
    BY <2>4 DEF EnterLoop, Enter, Connect, ClientClose, SetUp, kqueueVars, execVars
  <2> QED BY <1>3, <2>1, <2>2, <2>3, <2>4 DEF Thread
<1>4. CASE Kernel(LinkStep) \/ UNCHANGED vars
  BY <1>4, QueueKept DEF Kernel, vars, kqueueVars, execVars
<1>5. CASE Outside /\ ~ \E p \in Posters : PostTask(p)
  BY <1>5, QueueKept DEF Outside, Stop, Trigger, Expire, execVars
<1> QED BY <1>1, <1>2, <1>3, <1>4, <1>5, QueueKept DEF Next, Outside, Queue!Next

(* pending_callbacks_ and the queue that the event of exec swaps out are   *)
(* together the one queue that exec promises, with sockets and timers on   *)
(* the same kqueue.                                                        *)
THEOREM KqueueImplementsQueue == Spec => ExecIsAQueue
<1>1. Init => Queue!Init
  <2> SUFFICES ASSUME Init PROVE Queue!Init
    OBVIOUS
  <2>1. tasks = <<>> /\ pending = <<>> /\ ran = <<>> /\ lost = {} /\ handed = 0
    BY DEF Init, KqueueInit
  <2>2. tasks \o pending = <<>>
    BY <2>1, ConcatEmptySeq, EmptySeq
  <2> QED BY <2>1, <2>2 DEF Queue!Init
<1> QED BY <1>1, StepRefines, LoopInvariance, PTL DEF Spec, ExecIsAQueue, Queue!Spec

-----------------------------------------------------------------------------
(* Types of the sockets, the connection and the application *)

LEMMA LeastOfThree ==
  ASSUME NEW a \in Int, NEW b \in Int, NEW c \in Int
  PROVE  Least({a, b, c}) \in Int /\ Least({a, b, c}) <= a /\ Least({a, b, c}) \in {a, b, c}
<1>1. \E n \in {a, b, c} : \A k \in {a, b, c} : n <= k
  OBVIOUS
<1>2. Least({a, b, c}) \in {a, b, c} /\ \A k \in {a, b, c} : Least({a, b, c}) <= k
  BY <1>1 DEF Least
<1> QED BY <1>2

(* What recv gives is the beginning of the receive buffer. *)
LEMMA ReceivedPiece ==
  ASSUME DataTypes, NEW s \in Ends
  PROVE  /\ Received(s) \in Seq(Nat) /\ Drop(net[s].rcv, RecvMax) \in Seq(Nat)
<1>1. net[s].rcv \in Seq(Nat) /\ Len(net[s].rcv) \in Nat /\ RecvMax \in Nat
  BY LenProperties DEF DataTypes, End
<1>2. {Len(net[s].rcv), RecvMax} = {Len(net[s].rcv), RecvMax, RecvMax}
  OBVIOUS
<1> DEFINE k == Least({Len(net[s].rcv), RecvMax})
<1>3. k \in Nat /\ k <= Len(net[s].rcv)
  <2>1. Len(net[s].rcv) \in Int /\ RecvMax \in Int
    BY <1>1
  <2>2. k \in {Len(net[s].rcv), RecvMax} /\ k <= Len(net[s].rcv)
    BY <1>2, <2>1, LeastOfThree
  <2> QED BY <1>1, <2>2
<1> HIDE DEF k
<1>4. SubSeq(net[s].rcv, 1, k) \in Seq(Nat)
  BY <1>1, <1>3, Pieces
<1> QED BY <1>1, <1>4, Pieces DEF Received, Drop, k

(* What send takes is the beginning of what is left to write. *)
LEMMA SentPiece ==
  ASSUME DataTypes, NEW l \in Loops, Cur(l) \in Ends
  PROVE  /\ Rest(l) \in Seq(Nat)
         /\ Amount(l) > 0 => Amount(l) \in Nat /\ SubSeq(Rest(l), 1, Amount(l)) \in Seq(Nat)
<1>1. wr[l].buf \in Seq(Nat) /\ wr[l].sent \in Nat /\ net[Cur(l)].snd \in Seq(Nat)
  BY DEF DataTypes, End, Writing
<1>2. Rest(l) \in Seq(Nat)
  BY <1>1, Pieces DEF Rest, Drop
<1>3. Len(Rest(l)) \in Int /\ SendMax \in Int /\ Room(Cur(l)) \in Int
  BY <1>1, <1>2, LenProperties DEF Room
<1>4. Amount(l) = Least({Len(Rest(l)), SendMax, Room(Cur(l))})
  BY DEF Amount
<1>5. Amount(l) \in Int /\ Amount(l) <= Len(Rest(l))
  <2> DEFINE a == Len(Rest(l))
             b == Room(Cur(l))
  <2>1. a \in Int /\ SendMax \in Int /\ b \in Int
    BY <1>3
  <2> HIDE DEF a, b
  <2>2. Least({a, SendMax, b}) \in Int /\ Least({a, SendMax, b}) <= a
    BY <2>1, LeastOfThree
  <2> QED BY <1>4, <2>2 DEF a, b
<1> QED BY <1>2, <1>5, Pieces

(* What arrives raises the edge of an open socket, and nothing else does.  *)
LEMMA RaisedIs ==
  ASSUME NEW socks \in [Socks -> Sock], sock' = Raised(socks)
  PROVE  /\ sock' \in [Socks -> Sock]
         /\ \A s \in Socks : /\ sock'[s].open <=> socks[s].open
                             /\ sock'[s].edge <=> socks[s].edge \/ (socks[s].open /\ Arrives(s))
<1>1. ASSUME NEW r \in Sock
      PROVE  LET e == [r EXCEPT !.edge = TRUE] IN e \in Sock /\ e.open = r.open /\ e.edge = TRUE
  BY DEF Sock
<1>2. sock' = [s \in Socks |-> IF socks[s].open /\ Arrives(s) THEN [socks[s] EXCEPT !.edge = TRUE] ELSE socks[s]]
  BY DEF Raised
<1>3. ASSUME NEW s \in Socks
      PROVE  /\ sock'[s] \in Sock /\ (sock'[s].open <=> socks[s].open)
             /\ sock'[s].edge <=> socks[s].edge \/ (socks[s].open /\ Arrives(s))
  <2>1. socks[s] \in Sock
    OBVIOUS
  <2>2. CASE socks[s].open /\ Arrives(s)
    <3>1. sock'[s] = [socks[s] EXCEPT !.edge = TRUE]
      BY <1>2, <2>2
    <3> QED BY <1>1, <2>1, <2>2, <3>1
  <2>3. CASE ~(socks[s].open /\ Arrives(s))
    <3>1. sock'[s] = socks[s]
      BY <1>2, <2>3
    <3> QED BY <2>1, <2>3, <3>1
  <2> QED BY <2>2, <2>3
<1> QED BY <1>2, <1>3

(* A change of an end that keeps its receive buffer. *)
Keeps(m, n) == m \in [Ends -> End] /\ \A r \in Ends : m[r].rcv = n[r].rcv

LEMMA SndUpdate ==
  ASSUME NEW n \in [Ends -> End], NEW s \in Ends
  PROVE  /\ Keeps([n EXCEPT ![s].snd = <<>>], n)
         /\ \A q \in Seq(Nat) : Keeps([n EXCEPT ![s].snd = q], n)
<1>1. \A q \in Seq(Nat) : Keeps([n EXCEPT ![s].snd = q], n)
  BY DEF Keeps, End
<1>2. <<>> \in Seq(Nat)
  OBVIOUS
<1> QED BY <1>1, <1>2

LEMMA LinkTypes ==
  ASSUME DataTypes, LinkStep
  PROVE  /\ net' \in [Ends -> End]
         /\ \A s \in Ends : net'[s].rcv = net[s].rcv \/ Len(net'[s].rcv) > Len(net[s].rcv)
<1>0. net \in [Ends -> End] /\ \A s \in Ends : Peer(s) \in Ends /\ Peer(s) # s
  BY DEF DataTypes, Peer, Ends
<1>1. CASE Establish
  BY <1>0, <1>1 DEF Establish
<1>2. CASE Refuse
  BY <1>0, <1>2 DEF Refuse, End, Ends
<1>3. ASSUME NEW s \in Ends, DeliverFin(s)
      PROVE  net' \in [Ends -> End] /\ \A r \in Ends : net'[r].rcv = net[r].rcv
  BY <1>0, <1>3, ZenonT(30) DEF DeliverFin, End
<1>4. ASSUME NEW s \in Ends, Transfer(s)
      PROVE  /\ net' \in [Ends -> End]
             /\ \A r \in Ends : net'[r].rcv = net[r].rcv \/ Len(net'[r].rcv) > Len(net[r].rcv)
  <2>1. CASE net[Peer(s)].closed
    <3> DEFINE n1 == [net EXCEPT ![s].snd = <<>>]
               n2 == [n1 EXCEPT ![s].reset = TRUE]
               n3 == [n2 EXCEPT ![s].err = TRUE]
    <3>1. net' = n3
      BY <1>4, <2>1 DEF Transfer
    <3>2. Keeps(n1, net)
      BY <1>0, SndUpdate
    <3> HIDE DEF n1
    <3>3. Keeps(n2, net)
      BY <3>2, <1>0, ZenonT(30) DEF Keeps, End
    <3> HIDE DEF n2
    <3>4. Keeps(n3, net)
      BY <3>3, <1>0, ZenonT(30) DEF Keeps, End
    <3> QED BY <3>1, <3>4 DEF Keeps
  <2>2. CASE ~net[Peer(s)].closed
    <3> DEFINE p == Peer(s)
               q == Append(net[p].rcv, Head(net[s].snd))
               n1 == [net EXCEPT ![s].snd = Tail(@)]
               n2 == [n1 EXCEPT ![p].rcv = q]
    <3>1. p \in Ends /\ p # s /\ net[s].snd \in Seq(Nat) /\ net[s].snd # <<>> /\ net[p].rcv \in Seq(Nat)
      BY <1>0, <1>4 DEF Transfer, End
    <3>2. Tail(net[s].snd) \in Seq(Nat) /\ Head(net[s].snd) \in Nat
      BY <3>1, HeadAndTail
    <3>3. q \in Seq(Nat) /\ Len(q) = Len(net[p].rcv) + 1 /\ Len(net[p].rcv) \in Nat
      BY <3>1, <3>2, AppendProperties, LenProperties
    <3>4. n1[p].rcv = net[p].rcv /\ n1 = [net EXCEPT ![s].snd = Tail(net[s].snd)]
      BY <1>0, <3>1
    <3>5. net' = n2
      BY <1>4, <2>2, <3>4 DEF Transfer
    <3>6. Keeps(n1, net)
      BY <1>0, <3>2, <3>4, ZenonT(30) DEF Keeps, End
    <3> HIDE DEF n1, p, q
    <3>7. n2 \in [Ends -> End] /\ n2[p].rcv = q /\ \A r \in Ends \ {p} : n2[r].rcv = net[r].rcv
      BY <3>1, <3>3, <3>6, <1>0, ZenonT(30) DEF Keeps, End
    <3> QED BY <3>3, <3>5, <3>7
  <2> QED BY <2>1, <2>2
<1> QED BY <1>1, <1>2, <1>3, <1>4 DEF LinkStep

LEMMA FlagUpdate ==
  ASSUME NEW m, NEW n, Keeps(n, m), NEW s \in Ends
  PROVE  Keeps([n EXCEPT ![s].reset = TRUE], m) /\ Keeps([n EXCEPT ![s].err = TRUE], m)
<1>1. ASSUME NEW e \in End
      PROVE  /\ [e EXCEPT !.reset = TRUE] \in End /\ [e EXCEPT !.reset = TRUE].rcv = e.rcv
             /\ [e EXCEPT !.err = TRUE] \in End /\ [e EXCEPT !.err = TRUE].rcv = e.rcv
  BY DEF End
<1>2. ASSUME NEW e \in End, e.rcv = n[s].rcv
      PROVE  Keeps([n EXCEPT ![s] = e], m)
  BY <1>2 DEF Keeps
<1>3. n[s] \in End
  BY DEF Keeps
<1>4. /\ Keeps([n EXCEPT ![s] = [n[s] EXCEPT !.reset = TRUE]], m)
      /\ Keeps([n EXCEPT ![s] = [n[s] EXCEPT !.err = TRUE]], m)
  BY <1>1, <1>2, <1>3
<1> QED BY <1>4, Zenon

(* A close leaves the receive buffers alone. *)
LEMMA CloseTypes ==
  ASSUME DataTypes, NEW s \in Ends, net' = AfterClose(s)
  PROVE  net' \in [Ends -> End] /\ \A r \in Ends : net'[r].rcv = net[r].rcv
<1>1. net \in [Ends -> End] /\ Peer(s) \in Ends /\ Peer(s) # s
  BY DEF DataTypes, Peer, Ends
<1>2. CASE net[s].closed
  BY <1>1, <1>2 DEF AfterClose
<1>3. CASE ~net[s].closed /\ net[s].rcv = <<>>
  BY <1>1, <1>3, ZenonT(30) DEF AfterClose, End
<1>4. CASE ~net[s].closed /\ net[s].rcv # <<>>
  <2> DEFINE n1 == [net EXCEPT ![s].closed = TRUE]
             n2 == [n1 EXCEPT ![s].snd = <<>>]
             n3 == [n2 EXCEPT ![Peer(s)].reset = TRUE]
             n4 == [n3 EXCEPT ![Peer(s)].err = TRUE]
  <2>1. net' = n4
    BY <1>4 DEF AfterClose
  <2>2. Keeps(n1, net)
    BY <1>1 DEF Keeps, End
  <2> HIDE DEF n1
  <2>3. Keeps(n2, net)
    BY <1>1, <2>2, SndUpdate DEF Keeps
  <2> HIDE DEF n2
  <2>4. Keeps(n3, net)
    BY <1>1, <2>3, FlagUpdate
  <2> HIDE DEF n3
  <2>5. Keeps(n4, net)
    BY <1>1, <2>4, FlagUpdate
  <2> QED BY <2>1, <2>5 DEF Keeps
<1> QED BY <1>2, <1>3, <1>4

(* The changes of one socket. *)
LEMMA SockChanges ==
  ASSUME NEW r \in Sock
  PROVE  /\ [r EXCEPT !.asked = TRUE] \in Sock
         /\ [r EXCEPT !.asked = TRUE].open = r.open /\ [r EXCEPT !.asked = TRUE].edge = r.edge
         /\ [r EXCEPT !.connected = TRUE] \in Sock
         /\ [r EXCEPT !.connected = TRUE].open = r.open /\ [r EXCEPT !.connected = TRUE].edge = r.edge
         /\ \A b \in BOOLEAN : /\ [r EXCEPT !.edge = b] \in Sock
                               /\ [r EXCEPT !.edge = b].open = r.open /\ [r EXCEPT !.edge = b].edge = b
<1>1. /\ [r EXCEPT !.asked = TRUE] \in Sock
      /\ [r EXCEPT !.asked = TRUE].open = r.open /\ [r EXCEPT !.asked = TRUE].edge = r.edge
  BY DEF Sock
<1>2. /\ [r EXCEPT !.connected = TRUE] \in Sock
      /\ [r EXCEPT !.connected = TRUE].open = r.open /\ [r EXCEPT !.connected = TRUE].edge = r.edge
  BY DEF Sock
<1>3. \A b \in BOOLEAN : /\ [r EXCEPT !.edge = b] \in Sock
                       /\ [r EXCEPT !.edge = b].open = r.open /\ [r EXCEPT !.edge = b].edge = b
  BY DEF Sock
<1> QED BY <1>1, <1>2, <1>3

LEMMA GoneIs ==
  ASSUME NEW s \in Socks, sock \in [Socks -> Sock]
  PROVE  /\ Gone(s) \in Sock /\ Gone(s).open = FALSE
         /\ [Gone(s) EXCEPT !.alive = FALSE] \in Sock /\ [Gone(s) EXCEPT !.alive = FALSE].open = FALSE
<1>1. sock[s] \in Sock
  OBVIOUS
<1>2. \A r \in Sock : /\ [r EXCEPT !.open = FALSE] \in Sock /\ [r EXCEPT !.open = FALSE].open = FALSE
                    /\ [r EXCEPT !.edge = FALSE] \in Sock /\ [r EXCEPT !.edge = FALSE].open = r.open
                    /\ [r EXCEPT !.asked = FALSE] \in Sock /\ [r EXCEPT !.asked = FALSE].open = r.open
  BY DEF Sock
<1>3. Gone(s) \in Sock /\ Gone(s).open = FALSE
  <2> DEFINE g == [sock[s] EXCEPT !.open = FALSE]
             h == [g EXCEPT !.edge = FALSE]
  <2>1. Gone(s) = [h EXCEPT !.asked = FALSE]
    BY DEF Gone
  <2>2. g \in Sock /\ g.open = FALSE
    BY <1>1, <1>2
  <2> HIDE DEF g
  <2>3. h \in Sock /\ h.open = FALSE
    BY <1>2, <2>2
  <2> HIDE DEF h
  <2> QED BY <1>2, <2>1, <2>3
<1>4. \A r \in Sock : [r EXCEPT !.alive = FALSE] \in Sock /\ [r EXCEPT !.alive = FALSE].open = r.open
  BY DEF Sock
<1> QED BY <1>3, <1>4

LEMMA FreshIs ==
  ASSUME NEW b \in BOOLEAN
  PROVE  /\ [Fresh EXCEPT !.connected = TRUE, !.edge = b] \in Sock
         /\ [Fresh EXCEPT !.connected = TRUE, !.edge = b].edge = b
         /\ Fresh \in Sock /\ [Fresh EXCEPT !.alive = FALSE, !.open = FALSE] \in Sock
<1>1. Fresh \in Sock
  BY DEF Fresh, Sock
<1>2. [Fresh EXCEPT !.connected = TRUE] \in Sock /\ [Fresh EXCEPT !.alive = FALSE] \in Sock
  BY <1>1 DEF Sock
<1>3. \A r \in Sock : /\ [r EXCEPT !.edge = b] \in Sock /\ [r EXCEPT !.edge = b].edge = b
                    /\ [r EXCEPT !.open = FALSE] \in Sock
  BY DEF Sock
<1> DEFINE f == [Fresh EXCEPT !.connected = TRUE]
           g == [Fresh EXCEPT !.alive = FALSE]
<1>4. /\ [Fresh EXCEPT !.connected = TRUE, !.edge = b] = [f EXCEPT !.edge = b]
      /\ [Fresh EXCEPT !.alive = FALSE, !.open = FALSE] = [g EXCEPT !.open = FALSE]
  OBVIOUS
<1> HIDE DEF f, g
<1>5. f \in Sock /\ g \in Sock
  BY <1>2 DEF f, g
<1> QED BY <1>1, <1>3, <1>4, <1>5

-----------------------------------------------------------------------------
(* Bytes that have arrived *)

(* Bytes that no edge tells of are no news: they were there before.        *)
Quiet(s) ==
    sock'[s].open /\ net'[s].rcv # <<>> /\ ~sock'[s].edge =>
        sock[s].open /\ net[s].rcv # <<>> /\ ~sock[s].edge

Told == DataTypes' /\ \A s \in Ends : Quiet(s)

LEMMA SocksOfEnds == Client \in Ends /\ Server \in Ends /\ Ends \subseteq Socks /\ \A s \in Ends : s # Listener
  BY DEF Ends, Socks

LEMMA NothingMoves ==
  ASSUME DataTypes, UNCHANGED <<sock, net, wr, large_message, total_sent, pending_data>>
  PROVE  Told
  BY DEF DataTypes, Told, Quiet

LEMMA KernelTells == ASSUME DataTypes, Kernel(LinkStep) PROVE Told
<1>1. sock' = Raised(sock) /\ LinkStep /\ UNCHANGED <<wr, large_message, total_sent, pending_data>>
  BY DEF Kernel, appVars
<1>2. /\ net' \in [Ends -> End]
      /\ \A s \in Ends : net'[s].rcv = net[s].rcv \/ Len(net'[s].rcv) > Len(net[s].rcv)
  BY <1>1, LinkTypes
<1>3. /\ sock' \in [Socks -> Sock]
      /\ \A s \in Socks : /\ sock'[s].open <=> sock[s].open
                          /\ sock'[s].edge <=> sock[s].edge \/ (sock[s].open /\ Arrives(s))
  BY <1>1, RaisedIs DEF DataTypes
<1>4. \A s \in Ends : Len(net'[s].rcv) > Len(net[s].rcv) => Arrives(s)
  BY SocksOfEnds DEF Arrives
<1>5. ASSUME NEW s \in Ends PROVE Quiet(s)
  BY <1>2, <1>3, <1>4, SocksOfEnds DEF Quiet
<1> QED BY <1>1, <1>2, <1>3, <1>5 DEF DataTypes, Told

(* A socket that is closed has nothing to tell; the other ends keep their  *)
(* buffers, and their edges or more.                                       *)
LEMMA CloseTells ==
  ASSUME DataTypes, NEW s \in Ends, NEW r \in Sock, ~r.open,
         net' = AfterClose(s), sock' = Raised([sock EXCEPT ![s] = r]),
         UNCHANGED <<wr, large_message, total_sent, pending_data>>
  PROVE  Told /\ ~sock'[s].open
<1> DEFINE socks == [sock EXCEPT ![s] = r]
<1>1. /\ socks \in [Socks -> Sock] /\ ~socks[s].open
      /\ \A t \in Socks \ {s} : socks[t] = sock[t]
  BY SocksOfEnds DEF DataTypes
<1> HIDE DEF socks
<1>2. /\ sock' \in [Socks -> Sock]
      /\ \A t \in Socks : /\ sock'[t].open <=> socks[t].open
                          /\ sock'[t].edge <=> socks[t].edge \/ (socks[t].open /\ Arrives(t))
  BY <1>1, RaisedIs DEF socks
<1>3. net' \in [Ends -> End] /\ \A t \in Ends : net'[t].rcv = net[t].rcv
  BY CloseTypes
<1>4. ~sock'[s].open
  <2>1. s \in Socks
    BY SocksOfEnds
  <2>2. sock'[s].open <=> socks[s].open
    BY <1>2, <2>1
  <2> QED BY <1>1, <2>2
<1>5. ASSUME NEW t \in Ends PROVE Quiet(t)
  BY <1>1, <1>2, <1>3, <1>4, SocksOfEnds DEF Quiet
<1> QED BY <1>2, <1>3, <1>4, <1>5 DEF DataTypes, Told

(* A socket changes, but neither opens nor lowers its edge, and receive    *)
(* buffers do not grow.                                                    *)
LEMMA OneSocketTells ==
  ASSUME DataTypes, NEW s \in Socks, NEW r \in Sock, r.open <=> sock[s].open, sock[s].edge => r.edge,
         sock' = [sock EXCEPT ![s] = r], net' \in [Ends -> End],
         \A t \in Ends : net'[t].rcv # <<>> => net[t].rcv # <<>>,
         wr' \in [Loops -> Writing], total_sent' \in Nat, pending_data' \in Seq(Nat),
         large_message' = large_message
  PROVE  Told
<1>1. /\ sock' \in [Socks -> Sock] /\ sock'[s] = r
      /\ \A t \in Socks \ {s} : sock'[t] = sock[t]
  BY DEF DataTypes
<1>2. ASSUME NEW t \in Ends PROVE Quiet(t)
  BY <1>1, SocksOfEnds DEF Quiet
<1> QED BY <1>1, <1>2 DEF DataTypes, Told

(* The same, of a step that leaves the sockets alone. *)
LEMMA NoSocketTells ==
  ASSUME DataTypes, UNCHANGED sock, net' \in [Ends -> End],
         \A t \in Ends : net'[t].rcv # <<>> => net[t].rcv # <<>>,
         wr' \in [Loops -> Writing], total_sent' \in Nat, pending_data' \in Seq(Nat),
         large_message' = large_message
  PROVE  Told
  BY DEF DataTypes, Told, Quiet

(* recv: the buffer was not empty, and an empty one has no more to tell.   *)
LEMMA RecvTells ==
  ASSUME DataTypes, NEW s \in Ends, net[s].rcv # <<>>,
         net' = [net EXCEPT ![s].rcv = Drop(@, RecvMax)]
  PROVE  net' \in [Ends -> End] /\ \A t \in Ends : net'[t].rcv # <<>> => net[t].rcv # <<>>
<1>1. Drop(net[s].rcv, RecvMax) \in Seq(Nat) /\ net \in [Ends -> End]
  BY ReceivedPiece DEF DataTypes
<1> DEFINE q == Drop(net[s].rcv, RecvMax)
<1>2. net' = [net EXCEPT ![s].rcv = q]
  BY <1>1
<1> HIDE DEF q
<1>3. net' \in [Ends -> End] /\ \A t \in Ends \ {s} : net'[t].rcv = net[t].rcv
  BY <1>1, <1>2, ZenonT(30) DEF End, q
<1> QED BY <1>3

LEMMA ErrKeeps ==
  ASSUME DataTypes, NEW s \in Ends, net' = [net EXCEPT ![s].err = FALSE]
  PROVE  Keeps(net', net)
  BY ZenonT(30) DEF DataTypes, End, Keeps

(* so_write begins with a buffer, and counts what was sent. *)
LEMMA WritingTypes ==
  ASSUME wr \in [Loops -> Writing], NEW l \in Loops
  PROVE  /\ \A q \in Seq(Nat) : [wr EXCEPT ![l] = [buf |-> q, sent |-> 0]] \in [Loops -> Writing]
         /\ \A a \in Nat : [wr EXCEPT ![l].sent = @ + a] \in [Loops -> Writing]
<1>1. \A q \in Seq(Nat) : [buf |-> q, sent |-> 0] \in Writing
  BY DEF Writing
<1>2. ASSUME NEW a \in Nat PROVE [wr EXCEPT ![l].sent = @ + a] \in [Loops -> Writing]
  <2> DEFINE w == [wr[l] EXCEPT !.sent = @ + a]
  <2>1. [wr EXCEPT ![l].sent = @ + a] = [wr EXCEPT ![l] = w]
    OBVIOUS
  <2>2. wr[l] \in Writing /\ wr[l].sent + a \in Nat
    BY DEF Writing
  <2>3. w \in Writing
    BY <2>2 DEF Writing
  <2> HIDE DEF w
  <2> QED BY <2>1, <2>3
<1> QED BY <1>1, <1>2

LEMMA ReadStepTells ==
  ASSUME LInv, DataTypes, NEW l \in Loops, BeginRecv(l) \/ RecvFails(l) \/ ClientReceived(l) \/ ServerReceived(l)
                                            \/ ClientDisconnected(l)
  PROVE  Told
<1>0. /\ net \in [Ends -> End] /\ wr \in [Loops -> Writing]
      /\ total_sent \in Nat /\ pending_data \in Seq(Nat)
  BY DEF DataTypes
<1>1. CASE BeginRecv(l) \/ ClientDisconnected(l)
  BY <1>1, NothingMoves DEF BeginRecv, ClientDisconnected, EndOfStream, sockVars, linkVars, appVars
<1>2. CASE RecvFails(l)
  <2>1. UNCHANGED <<sock, wr, large_message, total_sent, pending_data>>
    BY <1>2 DEF RecvFails, sockVars, appVars
  <2>2. Cur(l) \in Ends
    BY <1>2, HeadOfBatch DEF RecvFails
  <2>3. net' = [net EXCEPT ![Cur(l)].err = FALSE] \/ net' = net
    BY <1>2 DEF RecvFails
  <2>4. Keeps(net', net)
    BY <1>0, <2>2, <2>3, ErrKeeps DEF Keeps
  <2> QED BY <1>0, <2>1, <2>4, NoSocketTells DEF Keeps
<1>3. CASE ClientReceived(l)
  <2>1. /\ net[Client].rcv # <<>> /\ net' = [net EXCEPT ![Client].rcv = Drop(@, RecvMax)]
        /\ UNCHANGED <<sock, wr, large_message, total_sent, pending_data>>
    BY <1>3 DEF ClientReceived, RecvData, ClientGot
  <2> QED BY <1>0, <2>1, SocksOfEnds, RecvTells, NoSocketTells
<1>4. CASE ServerReceived(l)
  <2>1. /\ net[Server].rcv # <<>> /\ net' = [net EXCEPT ![Server].rcv = Drop(@, RecvMax)]
        /\ UNCHANGED sock
    BY <1>4 DEF ServerReceived, RecvData
  <2>2. UNCHANGED <<large_message, total_sent>>
    BY <1>4 DEF ServerReceived, ServerGot
  <2>3. Received(Server) \in Seq(Nat)
    BY ReceivedPiece, SocksOfEnds
  <2>4. wr' \in [Loops -> Writing]
    <3>1. wr' = wr \/ wr' = [wr EXCEPT ![l] = [buf |-> Received(Server), sent |-> 0]]
      BY <1>4 DEF ServerReceived, BeginWrite
    <3>2. [wr EXCEPT ![l] = [buf |-> Received(Server), sent |-> 0]] \in [Loops -> Writing]
      BY <1>0, <2>3, WritingTypes
    <3> QED BY <1>0, <3>1, <3>2, Zenon
  <2>5. pending_data' \in Seq(Nat)
    <3>1. pending_data' = pending_data \o <<>> \/ pending_data' = pending_data \o Received(Server)
      BY <1>4 DEF ServerReceived, ServerGot
    <3>2. <<>> \in Seq(Nat)
      OBVIOUS
    <3>3. pending_data \o <<>> \in Seq(Nat) /\ pending_data \o Received(Server) \in Seq(Nat)
      BY <1>0, <2>3, <3>2, ConcatProperties
    <3> QED BY <3>1, <3>3
  <2> QED BY <1>0, <2>1, <2>2, <2>4, <2>5, SocksOfEnds, RecvTells, NoSocketTells
<1> QED BY <1>1, <1>2, <1>3, <1>4

LEMMA WriteStepTells ==
  ASSUME DataTypes, NEW l \in Loops, Accept(l) \/ ConnectFailed(l) \/ Connected(l) \/ ClientSent(l) \/ ServerSent(l)
  PROVE  Told
<1>0. /\ net \in [Ends -> End] /\ wr \in [Loops -> Writing]
      /\ total_sent \in Nat /\ pending_data \in Seq(Nat) /\ large_message \in Seq(Nat)
      /\ sock \in [Socks -> Sock] /\ Client \in Socks /\ Server \in Socks
  BY SocksOfEnds DEF DataTypes
<1>1. CASE Accept(l)
  <2> DEFINE b == Readable(Server)
             r == [Fresh EXCEPT !.connected = TRUE, !.edge = b]
  <2>1. /\ sock' = [sock EXCEPT ![Server] = r]
        /\ UNCHANGED <<net, wr, large_message, total_sent, pending_data>>
    BY <1>1 DEF Accept, SessionBecomes, linkVars
  <2>2. b <=> net[Server].rcv # <<>> \/ Over(Server)
    BY SocksOfEnds DEF Readable
  <2>3. b \in BOOLEAN
    BY SocksOfEnds DEF Readable, Over
  <2> HIDE DEF b
  <2>4. r \in Sock /\ (r.edge <=> b)
    BY <2>3, FreshIs
  <2> HIDE DEF r
  <2>5. /\ sock' \in [Socks -> Sock] /\ sock'[Server] = r
        /\ \A t \in Socks \ {Server} : sock'[t] = sock[t]
    BY <1>0, <2>1, <2>4
  <2>6. ASSUME NEW t \in Ends PROVE Quiet(t)
    BY <2>1, <2>2, <2>4, <2>5, SocksOfEnds DEF Quiet
  <2> QED BY <2>1, <2>5, <2>6 DEF DataTypes, Told
<1>2. CASE ConnectFailed(l)
  <2> DEFINE r == [sock[Client] EXCEPT !.connected = TRUE]
  <2>1. /\ sock' = [sock EXCEPT ![Client] = r] /\ net' = [net EXCEPT ![Client].err = FALSE]
        /\ UNCHANGED <<wr, large_message, total_sent, pending_data>>
    BY <1>0, <1>2 DEF ConnectFailed, WriteEvent, appVars
  <2>2. r \in Sock /\ r.open = sock[Client].open /\ r.edge = sock[Client].edge
    BY <1>0, SockChanges, ZenonT(30)
  <2> HIDE DEF r
  <2>3. Keeps(net', net)
    BY <2>1, ErrKeeps, SocksOfEnds
  <2> QED BY <1>0, <2>1, <2>2, <2>3, OneSocketTells DEF Keeps
<1>3. CASE Connected(l)
  <2> DEFINE r == [sock[Client] EXCEPT !.connected = TRUE]
  <2>1. /\ sock' = [sock EXCEPT ![Client] = r]
        /\ UNCHANGED <<net, large_message, total_sent, pending_data>>
        /\ wr' = [wr EXCEPT ![l] = [buf |-> Unwritten, sent |-> 0]]
    BY <1>0, <1>3 DEF Connected, WriteEvent, BeginWrite, appVars
  <2>2. r \in Sock /\ r.open = sock[Client].open /\ r.edge = sock[Client].edge
    BY <1>0, SockChanges, ZenonT(30)
  <2> HIDE DEF r
  <2>3. Unwritten \in Seq(Nat)
    BY <1>0, Pieces DEF Unwritten
  <2>4. wr' \in [Loops -> Writing]
    BY <1>0, <2>1, <2>3, WritingTypes
  <2> QED BY <1>0, <2>1, <2>2, <2>4, OneSocketTells
<1>4. CASE ClientSent(l)
  <2>1. /\ UNCHANGED <<sock, net, large_message, total_sent, pending_data>>
        /\ wr' = [wr EXCEPT ![l] = [buf |-> Unwritten, sent |-> 0]]
    BY <1>4 DEF ClientSent, WriteEvent, BeginWrite, appVars
  <2>2. Unwritten \in Seq(Nat)
    BY <1>0, Pieces DEF Unwritten
  <2>3. wr' \in [Loops -> Writing]
    BY <1>0, <2>1, <2>2, WritingTypes
  <2> QED BY <1>0, <2>1, <2>3, NoSocketTells
<1>5. CASE ServerSent(l)
  <2>1. /\ UNCHANGED <<sock, net, large_message, total_sent, pending_data>>
        /\ wr' = wr \/ wr' = [wr EXCEPT ![l] = [buf |-> pending_data, sent |-> 0]]
    BY <1>5 DEF ServerSent, WriteEvent, BeginWrite, appVars
  <2>2. wr' \in [Loops -> Writing]
    <3>1. [wr EXCEPT ![l] = [buf |-> pending_data, sent |-> 0]] \in [Loops -> Writing]
      BY <1>0, WritingTypes
    <3> QED BY <1>0, <2>1, <3>1, Zenon
  <2> QED BY <1>0, <2>1, <2>2, NoSocketTells
<1> QED BY <1>1, <1>2, <1>3, <1>4, <1>5

LEMMA SendStepTells ==
  ASSUME LInv, DataTypes, NEW l \in Loops, SendSome(l) \/ SendEnds(l)
  PROVE  Told
<1>0. /\ net \in [Ends -> End] /\ wr \in [Loops -> Writing]
      /\ total_sent \in Nat /\ pending_data \in Seq(Nat) /\ sock \in [Socks -> Sock]
  BY DEF DataTypes
<1>1. Cur(l) \in Ends /\ Cur(l) \in Socks
  BY HeadOfBatch, SocksOfEnds DEF SendSome, SendEnds, Sending
<1>2. UNCHANGED <<large_message, total_sent, pending_data>>
  BY DEF SendSome, SendEnds, Sending, appVars
<1>3. CASE SendSome(l)
  <2> DEFINE q == net[Cur(l)].snd \o SubSeq(Rest(l), 1, Amount(l))
             a == Amount(l)
  <2>1. /\ a > 0 /\ net' = [net EXCEPT ![Cur(l)].snd = q] /\ UNCHANGED sock
        /\ wr' = [wr EXCEPT ![l].sent = @ + a]
    BY <1>0, <1>1, <1>3 DEF SendSome
  <2>2. a \in Nat /\ SubSeq(Rest(l), 1, Amount(l)) \in Seq(Nat)
    BY <1>1, <2>1, SentPiece
  <2>3. net[Cur(l)].snd \in Seq(Nat)
    BY <1>0, <1>1 DEF End
  <2>4. q \in Seq(Nat)
    BY <2>2, <2>3, ConcatProperties
  <2> HIDE DEF q, a
  <2>5. Keeps(net', net)
    BY <1>0, <1>1, <2>1, <2>4, SndUpdate
  <2>6. wr' \in [Loops -> Writing]
    BY <1>0, <2>1, <2>2, WritingTypes
  <2> QED BY <1>0, <1>2, <2>1, <2>5, <2>6, NoSocketTells DEF Keeps
<1>4. CASE SendEnds(l)
  <2> DEFINE r == [sock[Cur(l)] EXCEPT !.asked = TRUE]
  <2>1. /\ sock' = sock \/ sock' = [sock EXCEPT ![Cur(l)] = r]
        /\ net' = net \/ net' = [net EXCEPT ![Cur(l)].err = FALSE]
        /\ UNCHANGED wr
    BY <1>4 DEF SendEnds, AskWrite
  <2>2. r \in Sock /\ r.open = sock[Cur(l)].open /\ r.edge = sock[Cur(l)].edge
    BY <1>0, <1>1, SockChanges, ZenonT(30)
  <2> HIDE DEF r
  <2>3. Keeps(net', net)
    BY <1>0, <1>1, <2>1, ErrKeeps DEF Keeps
  <2> QED BY <1>0, <1>1, <1>2, <2>1, <2>2, <2>3, OneSocketTells, NoSocketTells DEF Keeps
<1> QED BY <1>3, <1>4

LEMMA WroteStepTells ==
  ASSUME DataTypes, NEW l \in Loops,
         ClientWroteFirst(l) \/ ClientWroteOn(l) \/ ServerEchoed(l) \/ ServerWroteOn(l)
  PROVE  Told
<1>0. /\ net \in [Ends -> End] /\ wr \in [Loops -> Writing]
      /\ total_sent \in Nat /\ pending_data \in Seq(Nat) /\ sock \in [Socks -> Sock]
      /\ Client \in Socks /\ wr[l].buf \in Seq(Nat) /\ wr[l].sent \in Nat
  BY SocksOfEnds DEF DataTypes, Writing
<1>1. NoWrite \in Writing
  BY DEF NoWrite, Writing
<1>2. /\ wr' = [wr EXCEPT ![l] = NoWrite] /\ UNCHANGED <<net, large_message>>
  BY DEF ClientWroteFirst, ClientWroteOn, ServerEchoed, ServerWroteOn, Wrote, ClientWrote, ServerKeeps, linkVars
<1>3. wr' \in [Loops -> Writing]
  BY <1>0, <1>1, <1>2
<1>4. total_sent' \in Nat /\ pending_data' \in Seq(Nat)
  <2>1. CASE ClientWroteFirst(l) \/ ClientWroteOn(l)
    BY <1>0, <2>1 DEF ClientWroteFirst, ClientWroteOn, ClientWrote
  <2>2. CASE ServerEchoed(l) \/ ServerWroteOn(l)
    <3>1. Rest(l) \in Seq(Nat)
      BY <1>0, Pieces DEF Rest, Drop
    <3> QED BY <1>0, <2>2, <3>1 DEF ServerEchoed, ServerWroteOn, ServerKeeps
  <2> QED BY <2>1, <2>2
<1>5. CASE ~ClientWroteFirst(l)
  BY <1>0, <1>2, <1>3, <1>4, <1>5, NoSocketTells DEF ClientWroteOn, ServerEchoed, ServerWroteOn
<1>6. CASE ClientWroteFirst(l)
  <2> DEFINE b == sock[Client].edge \/ Readable(Client)
             r == [sock[Client] EXCEPT !.edge = b]
  <2>1. sock' = [sock EXCEPT ![Client] = r]
    BY <1>0, <1>6 DEF ClientWroteFirst, AskRead
  <2>2. b \in BOOLEAN /\ (sock[Client].edge => b) /\ sock[Client] \in Sock
    BY <1>0
  <2> HIDE DEF b
  <2>3. \A c \in BOOLEAN, e \in Sock : /\ [e EXCEPT !.edge = c] \in Sock /\ [e EXCEPT !.edge = c].edge = c
                                       /\ [e EXCEPT !.edge = c].open = e.open
    BY DEF Sock
  <2>4. r \in Sock /\ r.open = sock[Client].open /\ r.edge = b
    BY <2>2, <2>3, Zenon
  <2> HIDE DEF r
  <2> QED BY <1>0, <1>2, <1>3, <1>4, <2>1, <2>2, <2>4, OneSocketTells
<1> QED BY <1>5, <1>6

(* The server's socket is closed with its session. *)
LEMMA ServerClosesTells ==
  ASSUME DataTypes, NEW l \in Loops, ServerDisconnected(l)
  PROVE  Told /\ ~sock'[Server].open
<1> DEFINE r == [Gone(Server) EXCEPT !.alive = FALSE]
<1>1. r \in Sock /\ ~r.open
  BY GoneIs, SocksOfEnds DEF DataTypes
<1>2. /\ net' = AfterClose(Server) /\ sock' = Raised([sock EXCEPT ![Server] = r])
      /\ UNCHANGED <<wr, large_message, total_sent, pending_data>>
  BY DEF ServerDisconnected, EndOfStream, SessionBecomes
<1> HIDE DEF r
<1> QED BY <1>1, <1>2, CloseTells, SocksOfEnds

LEMMA SetUpTells == ASSUME DataTypes, Connect \/ ClientClose PROVE Told
<1>0. sock[Client] \in Sock /\ net \in [Ends -> End] /\ Client \in Socks
  BY SocksOfEnds DEF DataTypes
<1>1. CASE Connect
  <2> DEFINE r == [sock[Client] EXCEPT !.asked = TRUE]
  <2>1. /\ sock' = [sock EXCEPT ![Client] = r]
        /\ UNCHANGED <<net, wr, large_message, total_sent, pending_data>>
    BY <1>1 DEF Connect, SetUp, AskWrite, appVars
  <2>2. r \in Sock /\ r.open = sock[Client].open /\ r.edge = sock[Client].edge
    BY <1>0, SockChanges
  <2> HIDE DEF r
  <2>3. wr' \in [Loops -> Writing] /\ total_sent' \in Nat /\ pending_data' \in Seq(Nat)
    BY <2>1 DEF DataTypes
  <2> QED BY <1>0, <2>1, <2>2, <2>3, OneSocketTells
<1>2. CASE ClientClose
  <2>1. /\ net' = AfterClose(Client) /\ sock' = Raised([sock EXCEPT ![Client] = Gone(Client)])
        /\ UNCHANGED <<wr, large_message, total_sent, pending_data>>
    BY <1>2 DEF ClientClose, SetUp, appVars
  <2>2. Gone(Client) \in Sock /\ ~Gone(Client).open
    BY <1>0, GoneIs DEF DataTypes
  <2> QED BY <2>1, <2>2, CloseTells, SocksOfEnds
<1> QED BY <1>1, <1>2

(* kevent takes no edge but those it returns. *)
LEMMA CollectTypes ==
  ASSUME DataTypes, NEW l \in Loops, CollectEvents(l)
  PROVE  /\ DataTypes' /\ UNCHANGED net
         /\ \A s \in Socks : /\ sock'[s].open <=> sock[s].open
                             /\ sock'[s].edge <=> /\ sock[s].edge
                                                  /\ ~(LoopOf[s] = l /\ InBatch(l, Event("READ", s))')
<1>1. ASSUME NEW r \in Sock, NEW b \in BOOLEAN, NEW c \in BOOLEAN,
             NEW e, e = [r EXCEPT !.edge = @ /\ ~b, !.asked = @ /\ ~c]
      PROVE  e \in Sock /\ (e.open <=> r.open) /\ (e.edge <=> r.edge /\ ~b)
  <2> DEFINE x == r.edge /\ ~b
             y == r.asked /\ ~c
             e1 == [r EXCEPT !.edge = x]
             e2 == [e1 EXCEPT !.asked = y]
  <2>1. [r EXCEPT !.edge = @ /\ ~b, !.asked = @ /\ ~c] = e2
    OBVIOUS
  <2>2. x \in BOOLEAN /\ y \in BOOLEAN /\ (x <=> r.edge /\ ~b)
    OBVIOUS
  <2> HIDE DEF x, y
  <2>3. \A f \in Sock, z \in BOOLEAN :
           /\ [f EXCEPT !.edge = z] \in Sock /\ [f EXCEPT !.asked = z] \in Sock
           /\ [f EXCEPT !.edge = z].edge = z /\ [f EXCEPT !.edge = z].open = f.open
           /\ [f EXCEPT !.asked = z].edge = f.edge /\ [f EXCEPT !.asked = z].open = f.open
    BY DEF Sock
  <2>4. e1 \in Sock /\ e1.edge = x /\ e1.open = r.open
    BY <2>2, <2>3, ZenonT(30)
  <2> HIDE DEF e1
  <2>5. e2 \in Sock /\ e2.edge = e1.edge /\ e2.open = e1.open
    BY <2>2, <2>3, <2>4, ZenonT(30)
  <2> HIDE DEF e2
  <2>6. e2 \in Sock /\ (e2.open <=> r.open) /\ (e2.edge <=> r.edge /\ ~b)
    BY <2>2, <2>4, <2>5
  <2> QED BY <1>1, <2>1, <2>6
<1>2. sock' = [s \in Socks |-> [sock[s] EXCEPT !.edge = @ /\ ~(LoopOf[s] = l /\ InBatch(l, Event("READ", s))'),
                                               !.asked = @ /\ ~(LoopOf[s] = l /\ InBatch(l, Event("WRITE", s))')]]
  BY DEF CollectEvents
<1>3. ASSUME NEW s \in Socks
      PROVE  /\ sock'[s] \in Sock /\ (sock'[s].open <=> sock[s].open)
             /\ sock'[s].edge <=> sock[s].edge /\ ~(LoopOf[s] = l /\ InBatch(l, Event("READ", s))')
  <2> DEFINE b == LoopOf[s] = l /\ InBatch(l, Event("READ", s))'
             c == LoopOf[s] = l /\ InBatch(l, Event("WRITE", s))'
  <2>1. sock'[s] = [sock[s] EXCEPT !.edge = @ /\ ~b, !.asked = @ /\ ~c]
    BY <1>2
  <2>2. sock[s] \in Sock
    BY DEF DataTypes
  <2>0. b \in BOOLEAN /\ c \in BOOLEAN
    BY DEF InBatch
  <2> HIDE DEF b, c
  <2>3. sock'[s] \in Sock /\ (sock'[s].open <=> sock[s].open) /\ (sock'[s].edge <=> sock[s].edge /\ ~b)
    BY <1>1, <2>0, <2>1, <2>2, Zenon
  <2> QED BY <2>3 DEF b
<1>4. UNCHANGED <<net, wr, large_message, total_sent, pending_data>>
  BY DEF CollectEvents, linkVars, appVars
<1>5. sock' \in [Socks -> Sock]
  BY <1>2, <1>3
<1> QED BY <1>3, <1>4, <1>5 DEF DataTypes

-----------------------------------------------------------------------------
(* Events of a batch *)

(* An event leaves its batch when it has been dealt with, or when an       *)
(* exception ends the batch: that of exec after its callbacks, that of a   *)
(* socket's bytes when the socket is closed or has given them all.         *)
DealtWith(e) ==
    /\ e.filter = "USER" => at[Io] = "tasks"
    /\ \A s \in Ends : e = Event("READ", s) => ~sock'[s].open \/ net'[s].rcv = <<>>

EventsKept ==
    /\ dropped \subseteq dropped'
    /\ \A m \in Loops, e \in Events : InBatch(m, e) => InBatch(m, e)' \/ e \in dropped' \/ DealtWith(e)

LEMMA BatchesStay == UNCHANGED <<batch, dropped>> => EventsKept
  BY DEF EventsKept, InBatch

LEMMA HandledKeeps ==
  ASSUME LInv, NEW l \in Loops, Handled(l), batch[l] # <<>>, DealtWith(Head(batch[l]))
  PROVE  EventsKept
<1>1. /\ dropped' = dropped /\ batch'[l] = Tail(batch[l])
      /\ \A m \in Loops \ {l} : batch'[m] = batch[m]
  BY HandledBatch
<1>2. batch[l] \in Seq(Events)
  BY DEF LInv, LoopTypes
<1>3. ASSUME NEW e \in Events, InBatch(l, e) PROVE InBatch(l, e)' \/ e = Head(batch[l])
  <2>1. PICK i \in DOMAIN batch[l] : batch[l][i] = e
    BY <1>3 DEF InBatch
  <2>2. e = Head(batch[l]) \/ \E j \in DOMAIN Tail(batch[l]) : Tail(batch[l])[j] = e
    <3> DEFINE q == batch[l]
    <3>1. q \in Seq(Events) /\ q # <<>> /\ i \in DOMAIN q /\ q[i] = e
      BY <1>2, <2>1
    <3> HIDE DEF q
    <3>2. q[i] = Head(q) \/ \E j \in DOMAIN Tail(q) : Tail(q)[j] = q[i]
      BY <3>1, HeadAndTail
    <3> QED BY <3>1, <3>2 DEF q
  <2> QED BY <1>1, <2>2 DEF InBatch
<1>4. ASSUME NEW m \in Loops, m # l, NEW e \in Events, InBatch(m, e) PROVE InBatch(m, e)'
  BY <1>1, <1>4 DEF InBatch
<1> QED BY <1>1, <1>3, <1>4 DEF EventsKept

LEMMA ThrewKeeps ==
  ASSUME LInv, NEW l \in Loops, Threw(l), batch[l] # <<>>, DealtWith(Head(batch[l]))
  PROVE  EventsKept
<1>1. /\ dropped' = dropped \cup {batch[l][i] : i \in 2..Len(batch[l])}
      /\ \A m \in Loops \ {l} : batch'[m] = batch[m]
  BY DEF Threw, LInv, LoopTypes
<1>2. batch[l] \in Seq(Events)
  BY DEF LInv, LoopTypes
<1>3. ASSUME NEW e \in Events, InBatch(l, e) PROVE e \in dropped' \/ e = Head(batch[l])
  BY <1>1, <1>2, <1>3, HeadAndTail DEF InBatch
<1>4. ASSUME NEW m \in Loops, m # l, NEW e \in Events, InBatch(m, e) PROVE InBatch(m, e)'
  BY <1>1, <1>4 DEF InBatch
<1> QED BY <1>1, <1>3, <1>4 DEF EventsKept

(* An event that is neither of exec nor of an end's bytes matters to none. *)
LEMMA OtherEvents ==
  ASSUME NEW e, e.filter \notin {"USER", "READ"} \/ (e.filter = "READ" /\ e.of = Listener)
  PROVE  DealtWith(e)
  BY SocksOfEnds DEF DealtWith, Event

LEMMA ReadEventsKept ==
  ASSUME LInv, NEW l \in Loops, BeginRecv(l) \/ RecvFails(l) \/ ClientReceived(l) \/ ServerReceived(l)
                                 \/ ClientDisconnected(l) \/ (ServerDisconnected(l) /\ ~sock'[Server].open)
  PROVE  EventsKept
<1>1. CASE BeginRecv(l) \/ ClientReceived(l) \/ ServerReceived(l)
  BY <1>1, BatchesStay DEF BeginRecv, ClientReceived, ServerReceived, RecvOn, BeginWrite
<1>2. ASSUME at[l] = "recv", ~sock'[Cur(l)].open \/ net'[Cur(l)].rcv = <<>>
      PROVE  batch[l] # <<>> /\ DealtWith(Head(batch[l]))
  <2>1. batch[l] # <<>> /\ Head(batch[l]) = Event("READ", Cur(l))
    BY <1>2, HeadOfBatch
  <2> QED BY <1>2, <2>1 DEF DealtWith, Event
<1>3. CASE RecvFails(l)
  <2>1. at[l] = "recv" /\ Handled(l) /\ UNCHANGED sock /\ Cur(l) \in Ends
    BY <1>3, HeadOfBatch DEF RecvFails, sockVars
  <2>2. sock[Cur(l)].open => net'[Cur(l)].rcv = net[Cur(l)].rcv /\ net[Cur(l)].rcv = <<>>
    BY <1>3 DEF RecvFails
  <2> QED BY <1>2, <2>1, <2>2, HandledKeeps
<1>4. CASE ClientDisconnected(l)
  BY <1>2, <1>4, ThrewKeeps DEF ClientDisconnected, EndOfStream
<1>5. CASE ServerDisconnected(l) /\ ~sock'[Server].open
  BY <1>2, <1>5, HandledKeeps DEF ServerDisconnected, EndOfStream
<1> QED BY <1>1, <1>3, <1>4, <1>5

LEMMA WriteEventsKept ==
  ASSUME LInv, NEW l \in Loops,
         \/ Accept(l) \/ ConnectFailed(l) \/ Connected(l) \/ ClientSent(l) \/ ServerSent(l)
         \/ SendSome(l) \/ SendEnds(l)
         \/ ClientWroteFirst(l) \/ ClientWroteOn(l) \/ ServerEchoed(l) \/ ServerWroteOn(l)
  PROVE  EventsKept
<1>1. CASE Connected(l) \/ ClientSent(l) \/ SendSome(l) \/ SendEnds(l) \/ ServerEchoed(l)
  BY <1>1, BatchesStay DEF Connected, ClientSent, BeginWrite, SendSome, SendEnds, Sending, ServerEchoed
<1>2. CASE Accept(l) \/ ConnectFailed(l)
  BY <1>2, HandledKeeps, OtherEvents DEF Accept, ConnectFailed, WriteEvent, Current, Cur
<1>3. CASE ServerSent(l)
  <2>1. batch[l] # <<>> /\ DealtWith(Head(batch[l]))
    BY <1>3, OtherEvents DEF ServerSent, WriteEvent, Current
  <2> QED BY <1>3, <2>1, HandledKeeps, BatchesStay DEF ServerSent, BeginWrite
<1>4. CASE ClientWroteFirst(l) \/ ClientWroteOn(l) \/ ServerWroteOn(l)
  <2>1. at[l] = "sent" /\ cb[l] # "on_received" /\ Handled(l)
    BY <1>4 DEF ClientWroteFirst, ClientWroteOn, ServerWroteOn, Wrote
  <2>2. batch[l] # <<>> /\ Head(batch[l]).filter = "WRITE"
    BY <2>1, HeadOfBatch
  <2> QED BY <2>1, <2>2, HandledKeeps, OtherEvents
<1> QED BY <1>1, <1>2, <1>3, <1>4

LEMMA LoopEventsKept ==
  ASSUME LInv, NEW l \in Loops, LoopStep(l)
  PROVE  EventsKept
<1>1. CASE Check(l) \/ HandleUser(l) \/ RunPlain(l) \/ RunStop(l) \/ RunPost(l) \/ RunDestroy(l)
  BY <1>1, BatchesStay DEF Check, HandleUser, RunPlain, RunStop, RunPost, RunDestroy, loopVars
<1>2. ASSUME at[Io] = "tasks" PROVE batch[Io] # <<>> /\ DealtWith(Head(batch[Io]))
  <2>1. batch[Io] # <<>> /\ Head(batch[Io]).filter = "USER"
    BY <1>2 DEF LInv, Batched, Heads
  <2> QED BY <1>2, <2>1 DEF DealtWith, Event
<1>3. CASE EndTasks(l)
  BY <1>2, <1>3, HandledKeeps DEF EndTasks
<1>4. CASE RunThrow(l)
  BY <1>2, <1>4, ThrewKeeps DEF RunThrow, Invoked
<1>5. CASE HandleTimer(l)
  BY <1>5, HandledKeeps, OtherEvents DEF HandleTimer, Current
<1> QED BY <1>1, <1>3, <1>4, <1>5 DEF LoopStep

(* What kevent returns takes the place of an empty batch, and the edges it *)
(* takes are in it.                                                        *)
LEMMA CollectEventsKept ==
  ASSUME LInv, NEW l \in Loops, CollectEvents(l)
  PROVE  EventsKept
<1>1. /\ \A m \in Loops \ {l} : batch'[m] = batch[m]
      /\ dropped' = dropped /\ batch[l] = <<>>
  BY DEF CollectEvents, Collect, LInv, LoopTypes, Batched, Heads
<1> QED BY <1>1 DEF EventsKept, InBatch

-----------------------------------------------------------------------------
(* No edge is lost *)

LEMMA OwnedEvents == UserEvent \in Events /\ \A s \in Ends : Event("READ", s) \in Events /\ LoopOf[s] \in Loops
  BY SocksOfEnds DEF UserEvent, Event, Events

(* The bytes of a socket: either they were there before, with an event     *)
(* that has not been dealt with since, or an edge tells of them.           *)
LEMMA ReadKept == ReadWakeup /\ Told /\ EventsKept => ReadWakeup'
<1> SUFFICES ASSUME ReadWakeup, Told, EventsKept, NEW s \in Ends, sock'[s].open, net'[s].rcv # <<>>, ~sock'[s].edge
             PROVE  InBatch(LoopOf[s], Event("READ", s))' \/ Event("READ", s) \in dropped'
  BY DEF ReadWakeup
<1>1. InBatch(LoopOf[s], Event("READ", s)) \/ Event("READ", s) \in dropped
  BY DEF Told, Quiet, ReadWakeup
<1>2. ~DealtWith(Event("READ", s))
  BY DEF DealtWith
<1> QED BY <1>1, <1>2, OwnedEvents DEF EventsKept

(* The callbacks that wait: the same, of a step that takes none of them.   *)
LEMMA UserKept ==
  ASSUME UserWakeup, EventsKept, pending' # <<>> => pending # <<>>, user => user', posting \subseteq posting',
         at'[Io] = "tasks" => at[Io] = "tasks"
  PROVE  UserWakeup'
<1> SUFFICES ASSUME pending' # <<>>, ~user', posting' = {} PROVE UserWakeup'
  BY DEF UserWakeup
<1>1. (InBatch(Io, UserEvent) /\ at[Io] # "tasks") \/ UserEvent \in dropped
  BY DEF UserWakeup
<1>2. at[Io] # "tasks" => ~DealtWith(UserEvent)
  BY DEF DealtWith, UserEvent, Event
<1> QED BY <1>1, <1>2, OwnedEvents DEF EventsKept, UserWakeup

LEMMA CollectKeeps ==
  ASSUME LInv, DataTypes, NoLostEdge, NEW l \in Loops, CollectEvents(l)
  PROVE  DataTypes' /\ NoLostEdge'
<1>1. EventsKept
  BY CollectEventsKept
<1>2. /\ DataTypes' /\ UNCHANGED net
      /\ \A s \in Socks : /\ sock'[s].open <=> sock[s].open
                          /\ sock'[s].edge <=> /\ sock[s].edge
                                               /\ ~(LoopOf[s] = l /\ InBatch(l, Event("READ", s))')
  BY CollectTypes
<1>3. ReadWakeup'
  <2> SUFFICES ASSUME NEW s \in Ends, sock'[s].open, net'[s].rcv # <<>>, ~sock'[s].edge
               PROVE  InBatch(LoopOf[s], Event("READ", s))' \/ Event("READ", s) \in dropped'
    BY DEF ReadWakeup
  <2>1. CASE sock[s].edge
    BY <1>2, <2>1, SocksOfEnds
  <2>2. CASE ~sock[s].edge
    <3>1. InBatch(LoopOf[s], Event("READ", s)) \/ Event("READ", s) \in dropped
      BY <1>2, <2>2, SocksOfEnds DEF NoLostEdge, ReadWakeup
    <3>2. ~DealtWith(Event("READ", s))
      BY DEF DealtWith
    <3> QED BY <1>1, <3>1, <3>2, OwnedEvents DEF EventsKept
  <2> QED BY <2>1, <2>2
<1>4. UserWakeup'
  <2>1. /\ UNCHANGED <<pending, posting>> /\ at' = [at EXCEPT ![l] = "next"]
        /\ user' <=> (user /\ UserEvent \notin {batch'[l][i] : i \in DOMAIN batch'[l]})
    BY DEF CollectEvents, Collect
  <2>2. at'[Io] = "tasks" => at[Io] = "tasks"
    BY <2>1 DEF LInv, LoopTypes
  <2>3. CASE user => user'
    BY <1>1, <2>1, <2>2, <2>3, UserKept DEF NoLostEdge
  <2>4. CASE user /\ ~user'
    <3>1. \E i \in DOMAIN batch'[l] : batch'[l][i] = UserEvent
      BY <2>1, <2>4
    <3>2. LInv'
      BY CollectStep
    <3>3. l = Io
      BY <3>1, <3>2 DEF LInv, Batched, Belongs, UserEvent, Event
    <3>4. at'[Io] = "next"
      BY <2>1, <3>3 DEF LInv, LoopTypes
    <3> QED BY <3>1, <3>3, <3>4 DEF UserWakeup, InBatch
  <2> QED BY <2>3, <2>4
<1> QED BY <1>2, <1>3, <1>4 DEF NoLostEdge

(* The queue of exec, in the steps of a thread that are not about it.      *)
LEMMA SocketKeepsUser ==
  ASSUME LInv, NEW l \in Loops,
         \/ BeginRecv(l) \/ RecvFails(l) \/ SendSome(l) \/ SendEnds(l) \/ ClientApp(l) \/ ServerApp(l)
         \/ EnterLoop(l) \/ Connect \/ ClientClose
  PROVE  UNCHANGED <<pending, user, posting>> /\ (at'[Io] = "tasks" => at[Io] = "tasks")
<1>0. at \in [Loops -> Places]
  BY DEF LInv, LoopTypes
<1>1. CASE BeginRecv(l) \/ RecvFails(l) \/ SendSome(l) \/ SendEnds(l)
  <2>1. UNCHANGED <<pending, user, posting>>
    BY <1>1 DEF BeginRecv, RecvFails, SendSome, SendEnds, Sending, Loop, execVars
  <2>2. at' = at \/ \E p \in {"recv", "sent", "next"} : at' = [at EXCEPT ![l] = p]
    BY <1>1 DEF BeginRecv, RecvFails, SendSome, SendEnds, Handled
  <2> QED BY <1>0, <2>1, <2>2
<1>2. CASE ClientApp(l)
  <2>1. UNCHANGED <<pending, user, posting>>
    BY <1>2 DEF ClientApp, ClientReceived, RecvData, ClientDisconnected, EndOfStream, ConnectFailed, Connected,
                ClientSent, WriteEvent, ClientWroteFirst, ClientWroteOn, Wrote, Loop, execVars
  <2>2. at' = at \/ \E p \in {"send", "next", "out"} : at' = [at EXCEPT ![l] = p]
    BY <1>2 DEF ClientApp, ClientReceived, RecvOn, ClientDisconnected, ConnectFailed, Connected,
                ClientSent, ClientWroteFirst, ClientWroteOn, Handled, Threw, BeginWrite
  <2> QED BY <1>0, <2>1, <2>2
<1>3. CASE ServerApp(l)
  <2>1. UNCHANGED <<pending, user, posting>>
    BY <1>3 DEF ServerApp, Accept, ServerReceived, RecvData, ServerDisconnected, EndOfStream, ServerSent,
                WriteEvent, ServerEchoed, ServerWroteOn, Wrote, Loop, execVars
  <2>2. at' = at \/ \E p \in {"send", "next", "recv"} : at' = [at EXCEPT ![l] = p]
    BY <1>3 DEF ServerApp, Accept, ServerReceived, RecvOn, ServerDisconnected, ServerSent, ServerEchoed,
                ServerWroteOn, Handled, BeginWrite
  <2> QED BY <1>0, <2>1, <2>2
<1>4. CASE EnterLoop(l) \/ Connect \/ ClientClose
  <2>1. UNCHANGED <<pending, user, posting>> /\ (at' = at \/ at' = [at EXCEPT ![l] = "next"])
    BY <1>4 DEF EnterLoop, Enter, Connect, ClientClose, SetUp, kqueueVars, execVars, loopVars
  <2> QED BY <1>0, <2>1
<1> QED BY <1>1, <1>2, <1>3, <1>4

LEMMA SocketKeeps ==
  ASSUME LInv, DataTypes, NoLostEdge, NEW l \in Loops,
         \/ BeginRecv(l) \/ RecvFails(l) \/ SendSome(l) \/ SendEnds(l) \/ ClientApp(l) \/ ServerApp(l)
         \/ EnterLoop(l) \/ Connect \/ ClientClose
  PROVE  DataTypes' /\ NoLostEdge'
<1>1. Told /\ EventsKept
  <2>1. CASE ServerDisconnected(l)
    BY <2>1, ServerClosesTells, ReadEventsKept
  <2>2. CASE EnterLoop(l)
    BY <2>2, NothingMoves, BatchesStay DEF EnterLoop, Enter, linkVars, appVars, sockVars
  <2>3. CASE Connect \/ ClientClose
    BY <2>3, SetUpTells, BatchesStay DEF Connect, ClientClose, SetUp, kqueueVars, loopVars
  <2>4. CASE BeginRecv(l) \/ RecvFails(l) \/ ClientReceived(l) \/ ServerReceived(l) \/ ClientDisconnected(l)
    BY <2>4, ReadStepTells, ReadEventsKept
  <2>5. CASE Accept(l) \/ ConnectFailed(l) \/ Connected(l) \/ ClientSent(l) \/ ServerSent(l)
    BY <2>5, WriteStepTells, WriteEventsKept
  <2>6. CASE SendSome(l) \/ SendEnds(l)
    BY <2>6, SendStepTells, WriteEventsKept
  <2>7. CASE ClientWroteFirst(l) \/ ClientWroteOn(l) \/ ServerEchoed(l) \/ ServerWroteOn(l)
    BY <2>7, WroteStepTells, WriteEventsKept
  <2> QED BY <2>1, <2>2, <2>3, <2>4, <2>5, <2>6, <2>7 DEF ClientApp, ServerApp
<1>2. UserWakeup'
  BY <1>1, SocketKeepsUser, UserKept DEF NoLostEdge
<1> QED BY <1>1, <1>2, ReadKept DEF NoLostEdge, Told

LEMMA LoopKeeps ==
  ASSUME LInv, DataTypes, NoLostEdge, NEW l \in Loops, LoopStep(l), UNCHANGED <<linkVars, appVars, sockVars, load>>
  PROVE  DataTypes' /\ NoLostEdge'
<1>1. Told /\ EventsKept
  BY NothingMoves, LoopEventsKept DEF linkVars, appVars, sockVars
<1>2. at \in [Loops -> Places]
  BY DEF LInv, LoopTypes
<1>3. CASE HandleUser(l)
  BY <1>1, <1>3, ReadKept DEF HandleUser, Swap, UserWakeup, NoLostEdge, Told
<1>4. CASE RunPost(l)
  BY <1>1, <1>4, ReadKept DEF RunPost, UserWakeup, NoLostEdge, Told
<1>5. CASE ~HandleUser(l) /\ ~RunPost(l)
  <2>1. UNCHANGED <<pending, user, posting>>
    BY <1>5 DEF LoopStep, Check, EndTasks, HandleTimer, RunPlain, RunStop, RunDestroy, RunThrow, execVars
  <2>2. at' = at \/ \E p \in {"wait", "out", "next"} : at' = [at EXCEPT ![l] = p]
    BY <1>5 DEF LoopStep, Check, EndTasks, HandleTimer, RunPlain, RunStop, RunDestroy, RunThrow, Handled, Threw,
                loopVars
  <2>3. at'[Io] = "tasks" => at[Io] = "tasks"
    BY <1>2, <2>2
  <2> QED BY <1>1, <2>1, <2>3, ReadKept, UserKept DEF NoLostEdge, Told
<1> QED BY <1>3, <1>4, <1>5

LEMMA OutsideKeeps ==
  ASSUME LInv, DataTypes, NoLostEdge,
         (Outside /\ UNCHANGED <<linkVars, appVars, sockVars, load>>) \/ Kernel(LinkStep) \/ UNCHANGED vars
  PROVE  DataTypes' /\ NoLostEdge'
<1>1. Told
  <2>1. CASE Kernel(LinkStep)
    BY <2>1, KernelTells
  <2>2. CASE ~Kernel(LinkStep)
    BY <2>2, NothingMoves DEF vars, linkVars, appVars, sockVars
  <2> QED BY <2>1, <2>2
<1>2. EventsKept
  BY BatchesStay DEF Outside, Stop, PostTask, Trigger, Expire, Kernel, vars, kqueueVars, loopVars
<1>3. CASE \E p \in Posters : PostTask(p) \/ Trigger(p)
  <2>1. posting' # {} \/ user'
    BY <1>3 DEF PostTask, Trigger
  <2> QED BY <1>1, <1>2, <2>1, ReadKept DEF NoLostEdge, UserWakeup, Told
<1>4. CASE ~ \E p \in Posters : PostTask(p) \/ Trigger(p)
  <2>1. UNCHANGED <<pending, user, posting, at>>
    BY <1>4 DEF Outside, Stop, Expire, Kernel, vars, kqueueVars, execVars, loopVars
  <2> QED BY <1>1, <1>2, <2>1, ReadKept, UserKept DEF NoLostEdge, Told
<1> QED BY <1>3, <1>4

LEMMA InitWakes == Init => DataTypes /\ NoLostEdge
<1> SUFFICES ASSUME Init PROVE DataTypes /\ NoLostEdge
  OBVIOUS
<1>1. /\ sock = [s \in Socks |-> IF s = Server THEN [Fresh EXCEPT !.alive = FALSE, !.open = FALSE] ELSE Fresh]
      /\ net = [s \in Ends |-> [snd |-> <<>>, rcv |-> <<>>, closed |-> FALSE,
                                eof |-> FALSE, reset |-> FALSE, err |-> FALSE]]
      /\ wr = [l \in Loops |-> NoWrite] /\ large_message \in Seq(Nat) /\ total_sent = 0 /\ pending_data = <<>>
      /\ pending = <<>>
  BY MessageAssumption DEF Init, KqueueInit, LinkInit, AppInit, MessageAssumption
<1>2. sock \in [Socks -> Sock]
  BY <1>1, FreshIs
<1>3. <<>> \in Seq(Nat)
  OBVIOUS
<1>4. net \in [Ends -> End] /\ \A s \in Ends : net[s].rcv = <<>>
  BY <1>1, <1>3 DEF End
<1>5. wr \in [Loops -> Writing]
  BY <1>1, <1>3 DEF NoWrite, Writing
<1> QED BY <1>1, <1>2, <1>3, <1>4, <1>5 DEF DataTypes, NoLostEdge, UserWakeup, ReadWakeup

LEMMA EdgesInvariance == Spec => []KInv
<1>1. Init => KInv
  BY InitHolds, InitWakes DEF KInv
<1>2. KInv /\ [Next]_vars => KInv'
  <2> SUFFICES ASSUME LInv, DataTypes, NoLostEdge, [Next]_vars PROVE DataTypes' /\ NoLostEdge'
    BY StepHolds DEF KInv
  <2>1. ASSUME NEW l \in Loops, Thread(l) PROVE DataTypes' /\ NoLostEdge'
    BY <2>1, CollectKeeps, SocketKeeps, LoopKeeps DEF Thread
  <2> QED BY <2>1, OutsideKeeps DEF Next
<1> QED BY <1>1, <1>2, PTL DEF Spec

(* No edge is lost: a pending callback and received bytes always have an   *)
(* event on the way, though kevent clears what it returns and leaves what  *)
(* its array does not hold, unless an exception has dropped the batch.     *)
THEOREM EdgesAreKept == Spec => []NoLostEdge
  BY EdgesInvariance, PTL DEF KInv

-----------------------------------------------------------------------------
(* No use after the destroy.  When the whole message is back, nothing is   *)
(* left to be echoed; a WRITE event of the server waits only while         *)
(* something is.  So the argument counts bytes, and the rest of the        *)
(* invariant says what the events of the server's loop mean.               *)

ReadServer == Event("READ", Server)
WriteServer == Event("WRITE", Server)
ServerEvents == {ReadServer, WriteServer}
Knock == Event("READ", Listener)

(* The thread of s is in so_write of s. *)
Writes(s) == at[LoopOf[s]] \in {"send", "sent"} /\ Cur(LoopOf[s]) = s

(* Bytes in the kernel, in the session, and given to send by the client.   *)
Size(e) == Len(e.snd) + Len(e.rcv)
InNet == Size(net[Client]) + Size(net[Server])
Kept == IF Writes(Server) THEN Len(Rest(ServerLoop)) ELSE Len(pending_data)
Taken == total_sent + (IF Writes(Client) THEN wr[ClientLoop].sent ELSE 0)

(* Bytes may be dropped, by a reset; none are made. *)
NoBytesMade == Len(received_msg) + Kept + InNet <= Taken /\ Taken <= Len(large_message)

Buffers ==
    /\ received_msg \in Seq(Nat)
    /\ \A l \in Loops : wr[l].sent <= Len(wr[l].buf)
    /\ Writes(Client) => Len(wr[ClientLoop].buf) = Len(large_message) - total_sent
    /\ Writes(Server) /\ cb[ServerLoop] = "on_received" => pending_data = <<>>

(* kevent returns no event twice. *)
Single == \A l \in Loops : \A i, j \in DOMAIN batch[l] : batch[l][i] = batch[l][j] => i = j

(* The listening socket is readable once, and the server's socket is not   *)
(* before it is accepted.                                                  *)
AcceptedOnce ==
    /\ session \in {"none", "open", "erased"}
    /\ InBatch(ServerLoop, Knock) => session = "none" /\ link = "up" /\ ~sock[Listener].edge
    /\ session # "none" => link = "up" /\ ~sock[Listener].edge
    /\ session = "none" => ~sock[Server].open /\ \A e \in ServerEvents : ~InBatch(ServerLoop, e)

(* The server waits to write only what it has. *)
WriteWaits ==
    \E i \in DOMAIN batch[ServerLoop] :
        batch[ServerLoop][i] = WriteServer /\ (i = 1 => at[ServerLoop] = "next")

AskedFor ==
    session = "open" =>
        /\ WriteWaits => ~sock[Server].asked /\ pending_data # <<>>
        /\ sock[Server].asked => IF Writes(Server) THEN at[ServerLoop] = "sent" /\ Rest(ServerLoop) # <<>>
                                 ELSE pending_data # <<>>

(* The server sees the end of the stream after the client has left. *)
ClientLeft ==
    /\ net[Client].closed => ~sock[Client].open
    /\ session # "erased" /\ (net[Server].eof \/ net[Server].reset) => net[Client].closed

Destroyed ==
    session = "erased" =>
        /\ ~sock[Server].open
        /\ \/ received_msg # large_message /\ ~sock[Client].open
           \/ \A e \in ServerEvents : ~InBatch(ServerLoop, e)

Typed == LInv /\ DataTypes
Bytes == NoBytesMade /\ Buffers
Owned == Single /\ AcceptedOnce /\ AskedFor /\ ClientLeft /\ Destroyed

-----------------------------------------------------------------------------
(* Bytes in the kernel *)

LEMMA EndFields ==
  ASSUME NEW n \in [Ends -> End], NEW s \in Ends
  PROVE  /\ n[s].snd \in Seq(Nat) /\ n[s].rcv \in Seq(Nat)
         /\ Len(n[s].snd) \in Nat /\ Len(n[s].rcv) \in Nat
         /\ {n[s].closed, n[s].eof, n[s].reset, n[s].err} \subseteq BOOLEAN
<1>1. n[s] \in End
  OBVIOUS
<1>2. n[s].snd \in Seq(Nat) /\ n[s].rcv \in Seq(Nat) /\ {n[s].closed, n[s].eof, n[s].reset, n[s].err} \subseteq BOOLEAN
  BY <1>1 DEF End
<1> QED BY <1>2, LenProperties

(* What a step does to one end, in the fields that the argument is about.  *)
LEMMA EndChanges ==
  ASSUME NEW e \in End
  PROVE  /\ \A q \in Seq(Nat) : [e EXCEPT !.snd = q] \in End /\ [e EXCEPT !.rcv = q] \in End
         /\ \A b \in BOOLEAN : /\ [e EXCEPT !.closed = b] \in End /\ [e EXCEPT !.eof = b] \in End
                               /\ [e EXCEPT !.reset = b] \in End /\ [e EXCEPT !.err = b] \in End
BY DEF End

LEMMA Sizes ==
  ASSUME NEW e \in End
  PROVE  /\ Size(e) \in Nat
         /\ \A f \in End : /\ f.snd = <<>> /\ f.rcv = e.rcv => Size(f) <= Size(e)
                           /\ f.snd = e.snd /\ f.rcv = e.rcv => Size(f) = Size(e)
                           /\ \A n \in Int : /\ Len(f.snd) = Len(e.snd) + n /\ f.rcv = e.rcv => Size(f) = Size(e) + n
                                             /\ Len(f.rcv) = Len(e.rcv) + n /\ f.snd = e.snd => Size(f) = Size(e) + n
<1>1. \A f \in End : Len(f.snd) \in Nat /\ Len(f.rcv) \in Nat
  BY LenProperties DEF End
<1>2. \A f \in End : Size(f) \in Nat
  <2> SUFFICES ASSUME NEW f \in End PROVE Size(f) \in Nat
    OBVIOUS
  <2> DEFINE a == Len(f.snd)
             b == Len(f.rcv)
  <2>1. Size(f) = a + b /\ a \in Nat /\ b \in Nat
    BY <1>1 DEF Size
  <2> HIDE DEF a, b
  <2> QED BY <2>1
<1>3. ASSUME NEW f \in End
      PROVE  /\ f.snd = <<>> /\ f.rcv = e.rcv => Size(f) <= Size(e)
             /\ f.snd = e.snd /\ f.rcv = e.rcv => Size(f) = Size(e)
             /\ \A n \in Int : /\ Len(f.snd) = Len(e.snd) + n /\ f.rcv = e.rcv => Size(f) = Size(e) + n
                               /\ Len(f.rcv) = Len(e.rcv) + n /\ f.snd = e.snd => Size(f) = Size(e) + n
  <2> DEFINE a == Len(f.snd)
             b == Len(f.rcv)
             c == Len(e.snd)
             d == Len(e.rcv)
  <2>1. Size(f) = a + b /\ Size(e) = c + d /\ a \in Nat /\ b \in Nat /\ c \in Nat /\ d \in Nat
    BY <1>1 DEF Size
  <2>2. f.snd = <<>> => a = 0
    OBVIOUS
  <2>3. (f.snd = e.snd => a = c) /\ (f.rcv = e.rcv => b = d)
    OBVIOUS
  <2> HIDE DEF a, b, c, d
  <2>4. /\ a = 0 /\ b = d => Size(f) <= Size(e)
        /\ a = c /\ b = d => Size(f) = Size(e)
        /\ \A n \in Int : /\ a = c + n /\ b = d => Size(f) = Size(e) + n
                          /\ b = d + n /\ a = c => Size(f) = Size(e) + n
    BY <2>1
  <2>5. \A n \in Int : /\ Len(f.snd) = Len(e.snd) + n /\ f.rcv = e.rcv => Size(f) = Size(e) + n
                       /\ Len(f.rcv) = Len(e.rcv) + n /\ f.snd = e.snd => Size(f) = Size(e) + n
    BY <2>3, <2>4 DEF a, b, c, d
  <2> QED BY <2>2, <2>3, <2>4, <2>5
<1> QED BY <1>2, <1>3

(* Two ends, each the other's peer. *)
LEMMA Peers == \A s \in Ends : Peer(s) \in Ends /\ Peer(s) # s /\ Peer(Peer(s)) = s
  BY DEF Peer, Ends

LEMMA InNetOf ==
  ASSUME net \in [Ends -> End], net' \in [Ends -> End], NEW s \in Ends
  PROVE  /\ InNet = Size(net[s]) + Size(net[Peer(s)]) /\ InNet' = Size(net'[s]) + Size(net'[Peer(s)])
         /\ InNet \in Nat /\ InNet' \in Nat
<1>1. \A r \in Ends : Size(net[r]) \in Nat /\ Size(net'[r]) \in Nat
  BY Sizes
<1>2. InNet = Size(net[Client]) + Size(net[Server]) /\ InNet' = Size(net'[Client]) + Size(net'[Server])
  BY DEF InNet, Size
<1>3. CASE s = Client
  <2>1. Peer(s) = Server
    BY <1>3 DEF Peer
  <2> QED BY <1>1, <1>2, <1>3, <2>1 DEF Ends
<1>4. CASE s = Server
  <2>1. Peer(s) = Client
    BY <1>4 DEF Peer
  <2> QED BY <1>1, <1>2, <1>4, <2>1 DEF Ends
<1> QED BY <1>3, <1>4 DEF Ends

(* A byte that crosses changes ends; a reset drops what was sent. *)
LEMMA Crosses ==
  ASSUME DataTypes, NEW s \in Ends, Transfer(s)
  PROVE  /\ net' \in [Ends -> End] /\ InNet' <= InNet
         /\ \A r \in Ends : /\ net'[r].closed = net[r].closed /\ net'[r].eof = net[r].eof
                            /\ net'[r].reset => net[r].reset \/ net[Peer(r)].closed
<1> DEFINE p == Peer(s)
<1>0. net \in [Ends -> End] /\ p \in Ends /\ p # s /\ net[s] \in End /\ net[p] \in End
  BY Peers DEF DataTypes
<1>1. CASE net[p].closed
  <2> DEFINE e1 == [net[s] EXCEPT !.snd = <<>>]
             e2 == [e1 EXCEPT !.reset = TRUE]
             e3 == [e2 EXCEPT !.err = TRUE]
  <2>1. net' = [net EXCEPT ![s] = e3]
    BY <1>1, <1>0 DEF Transfer
  <2>2. e1 \in End /\ e1.rcv = net[s].rcv /\ e1.snd = <<>> /\ e1.closed = net[s].closed /\ e1.eof = net[s].eof
    BY <1>0, EndChanges, EmptySeq DEF End
  <2> HIDE DEF e1
  <2>3. e2 \in End /\ e2.rcv = net[s].rcv /\ e2.snd = <<>> /\ e2.closed = net[s].closed /\ e2.eof = net[s].eof
    BY <2>2, EndChanges DEF End
  <2> HIDE DEF e2
  <2>4. e3 \in End /\ e3.rcv = net[s].rcv /\ e3.snd = <<>> /\ e3.closed = net[s].closed /\ e3.eof = net[s].eof
    BY <2>3, EndChanges DEF End
  <2> HIDE DEF e3, p
  <2>5. net' \in [Ends -> End] /\ net'[s] = e3 /\ net'[p] = net[p] /\ \A r \in Ends \ {s} : net'[r] = net[r]
    BY <1>0, <2>1, <2>4
  <2>6. /\ Size(e3) <= Size(net[s])
        /\ Size(net[s]) \in Nat /\ Size(net[p]) \in Nat /\ Size(e3) \in Nat
    BY <1>0, <2>4, Sizes
  <2>7. InNet' <= InNet
    <3>1. InNet = Size(net[s]) + Size(net[p]) /\ InNet' = Size(e3) + Size(net[p])
      BY <1>0, <2>5, InNetOf DEF p
    <3> QED BY <2>6, <3>1
  <2>8. \A r \in Ends : /\ net'[r].closed = net[r].closed /\ net'[r].eof = net[r].eof
                        /\ net'[r].reset => net[r].reset \/ net[Peer(r)].closed
    BY <1>0, <1>1, <2>4, <2>5 DEF p
  <2> QED BY <2>5, <2>7, <2>8
<1>2. CASE ~net[p].closed
  <2> DEFINE c == Append(net[p].rcv, Head(net[s].snd))
             t == Tail(net[s].snd)
             e == [net[s] EXCEPT !.snd = t]
             f == [net[p] EXCEPT !.rcv = c]
             n1 == [net EXCEPT ![s] = e]
  <2>1. net[s].snd \in Seq(Nat) /\ net[p].rcv \in Seq(Nat) /\ net[s].snd # <<>>
    BY <1>0, EndFields DEF Transfer
  <2>2. /\ c \in Seq(Nat) /\ t \in Seq(Nat)
        /\ Len(c) = Len(net[p].rcv) + 1 /\ Len(t) = Len(net[s].snd) - 1
    BY <2>1, Crossed
  <2>3. net' = [n1 EXCEPT ![p] = f]
    <3>1. n1[p].rcv = net[p].rcv /\ n1[p] = net[p]
      BY <1>0
    <3>2. net' = [[net EXCEPT ![s].snd = Tail(@)] EXCEPT ![p].rcv = c]
      BY <1>2, <3>1 DEF Transfer
    <3>3. [net EXCEPT ![s].snd = Tail(@)] = n1
      OBVIOUS
    <3> QED BY <3>1, <3>2, <3>3
  <2> HIDE DEF c, t
  <2>4. /\ e \in End /\ e.rcv = net[s].rcv /\ e.snd = t /\ e.closed = net[s].closed
        /\ e.eof = net[s].eof /\ e.reset = net[s].reset
    BY <1>0, <2>2, EndChanges DEF End
  <2>5. /\ f \in End /\ f.rcv = c /\ f.snd = net[p].snd /\ f.closed = net[p].closed
        /\ f.eof = net[p].eof /\ f.reset = net[p].reset
    BY <1>0, <2>2, EndChanges DEF End
  <2> HIDE DEF e, f
  <2>6. n1 \in [Ends -> End] /\ n1[s] = e /\ \A r \in Ends \ {s} : n1[r] = net[r]
    BY <1>0, <2>4
  <2> HIDE DEF n1, p
  <2>7. /\ net' \in [Ends -> End] /\ net'[s] = e /\ net'[p] = f
        /\ \A r \in Ends : r = s \/ r = p
    BY <1>0, <2>3, <2>5, <2>6 DEF Ends
  <2>8. Size(e) = Size(net[s]) + (0 - 1) /\ Size(f) = Size(net[p]) + 1
    <3>1. Len(e.snd) = Len(net[s].snd) + (0 - 1) /\ Len(f.rcv) = Len(net[p].rcv) + 1
      <4>1. Len(net[s].snd) \in Nat
        BY <2>1, LenProperties
      <4> QED BY <2>2, <2>4, <2>5, <4>1
    <3>2. net[s] \in End /\ net[p] \in End /\ 1 \in Int /\ 0 - 1 \in Int
      BY <1>0
    <3>3. Size(e) = Size(net[s]) + (0 - 1)
      BY <2>4, <3>1, <3>2, Sizes, Zenon
    <3>4. Size(f) = Size(net[p]) + 1
      BY <2>5, <3>1, <3>2, Sizes, Zenon
    <3> QED BY <3>3, <3>4
  <2>9. InNet' <= InNet
    <3>1. InNet = Size(net[s]) + Size(net[p]) /\ InNet' = Size(e) + Size(f)
      BY <1>0, <2>7, InNetOf DEF p
    <3>2. Size(net[s]) \in Nat /\ Size(net[p]) \in Nat
      BY <1>0, Sizes
    <3> QED BY <2>8, <3>1, <3>2
  <2> QED BY <1>0, <2>4, <2>5, <2>7, <2>9
<1> QED BY <1>1, <1>2

(* What the kernel does on its own makes no bytes, and an end is told of   *)
(* nothing but that its peer has closed.                                   *)
LEMMA LinkMoves ==
  ASSUME DataTypes, LinkStep
  PROVE  /\ net' \in [Ends -> End] /\ InNet' <= InNet
         /\ \A r \in Ends : /\ net'[r].closed = net[r].closed
                            /\ net'[r].eof \/ net'[r].reset =>
                                  net[r].eof \/ net[r].reset \/ net[Peer(r)].closed
         /\ link = "up" => link' = "up"
<1>0. net \in [Ends -> End] /\ (UNCHANGED net => InNet' = InNet /\ InNet \in Nat)
  BY SocksOfEnds, InNetOf DEF DataTypes, InNet, Size
<1>1. CASE Establish
  BY <1>0, <1>1 DEF Establish
<1>2. ASSUME NEW s \in Ends, NEW e \in End, net' = [net EXCEPT ![s] = e], UNCHANGED link \/ link # "up",
             e.snd = net[s].snd, e.rcv = net[s].rcv, e.closed = net[s].closed, e.reset = net[s].reset,
             e.eof => net[s].eof \/ net[Peer(s)].closed
      PROVE  /\ net' \in [Ends -> End] /\ InNet' <= InNet
             /\ \A r \in Ends : /\ net'[r].closed = net[r].closed
                                /\ net'[r].eof \/ net'[r].reset =>
                                      net[r].eof \/ net[r].reset \/ net[Peer(r)].closed
             /\ link = "up" => link' = "up"
  <2>1. net' \in [Ends -> End] /\ net'[s] = e /\ \A r \in Ends \ {s} : net'[r] = net[r]
    BY <1>0, <1>2
  <2>2. Size(e) = Size(net[s]) /\ net[s] \in End
    BY <1>0, <1>2, Sizes
  <2>3. InNet' = InNet /\ InNet \in Nat
    BY <1>0, <2>1, <2>2, InNetOf, Peers
  <2> QED BY <1>0, <1>2, <2>1, <2>3
<1>3. CASE Refuse
  <2> DEFINE e == [net[Client] EXCEPT !.err = TRUE]
  <2>1. net' = [net EXCEPT ![Client] = e] /\ link # "up" /\ Client \in Ends
    BY <1>3 DEF Refuse, Ends
  <2>2. /\ e \in End /\ e.snd = net[Client].snd /\ e.rcv = net[Client].rcv
        /\ e.closed = net[Client].closed /\ e.reset = net[Client].reset /\ e.eof = net[Client].eof
    <3>1. net[Client] \in End
      BY <1>0, <2>1
    <3> QED BY <3>1 DEF End
  <2> HIDE DEF e
  <2> QED BY <1>2, <2>1, <2>2
<1>4. ASSUME NEW s \in Ends, DeliverFin(s)
      PROVE  /\ net' \in [Ends -> End] /\ InNet' <= InNet
             /\ \A r \in Ends : /\ net'[r].closed = net[r].closed
                                /\ net'[r].eof \/ net'[r].reset =>
                                      net[r].eof \/ net[r].reset \/ net[Peer(r)].closed
             /\ link = "up" => link' = "up"
  <2> DEFINE e == [net[Peer(s)] EXCEPT !.eof = TRUE]
  <2>1. net' = [net EXCEPT ![Peer(s)] = e] /\ UNCHANGED link /\ Peer(s) \in Ends /\ net[Peer(Peer(s))].closed
    BY <1>4, Peers DEF DeliverFin
  <2>2. /\ e \in End /\ e.snd = net[Peer(s)].snd /\ e.rcv = net[Peer(s)].rcv
        /\ e.closed = net[Peer(s)].closed /\ e.reset = net[Peer(s)].reset
    <3>1. net[Peer(s)] \in End
      BY <1>0, <2>1
    <3> QED BY <3>1 DEF End
  <2> HIDE DEF e
  <2> QED BY <1>2, <2>1, <2>2
<1>5. ASSUME NEW s \in Ends, Transfer(s)
      PROVE  /\ net' \in [Ends -> End] /\ InNet' <= InNet
             /\ \A r \in Ends : /\ net'[r].closed = net[r].closed
                                /\ net'[r].eof \/ net'[r].reset =>
                                      net[r].eof \/ net[r].reset \/ net[Peer(r)].closed
             /\ link = "up" => link' = "up"
  BY <1>5, Crosses DEF Transfer
<1> QED BY <1>1, <1>3, <1>4, <1>5 DEF LinkStep

(* A close drops bytes at most. *)
LEMMA CloseMoves ==
  ASSUME DataTypes, NEW s \in Ends, net' = AfterClose(s)
  PROVE  /\ net' \in [Ends -> End] /\ InNet' <= InNet
         /\ net'[Peer(s)].closed = net[Peer(s)].closed
         /\ net'[s].eof = net[s].eof /\ net'[s].reset = net[s].reset
         /\ net'[s].closed
<1> DEFINE p == Peer(s)
<1>0. net \in [Ends -> End] /\ p \in Ends /\ p # s /\ net[s] \in End /\ net[p] \in End
  BY Peers DEF DataTypes
<1>1. CASE net[s].closed
  <2>1. net' = net
    BY <1>1 DEF AfterClose
  <2>2. InNet' = InNet /\ InNet \in Nat
    BY <1>0, <2>1, InNetOf DEF InNet, Size
  <2> QED BY <1>0, <1>1, <2>1, <2>2
<1>2. CASE ~net[s].closed /\ net[s].rcv = <<>>
  <2> DEFINE e == [net[s] EXCEPT !.closed = TRUE]
  <2>1. net' = [net EXCEPT ![s] = e]
    BY <1>2 DEF AfterClose
  <2>2. /\ e \in End /\ e.snd = net[s].snd /\ e.rcv = net[s].rcv /\ e.closed
        /\ e.eof = net[s].eof /\ e.reset = net[s].reset
    BY <1>0 DEF End
  <2> HIDE DEF e
  <2>3. net' \in [Ends -> End] /\ net'[s] = e /\ net'[p] = net[p]
    BY <1>0, <2>1, <2>2
  <2>4. Size(e) = Size(net[s])
    BY <1>0, <2>2, Sizes
  <2>5. InNet' = InNet /\ InNet \in Nat
    BY <1>0, <2>3, <2>4, InNetOf
  <2> QED BY <2>2, <2>3, <2>5
<1>3. CASE ~net[s].closed /\ net[s].rcv # <<>>
  <2> DEFINE e1 == [net[s] EXCEPT !.closed = TRUE]
             e2 == [e1 EXCEPT !.snd = <<>>]
             n1 == [net EXCEPT ![s] = e2]
             f1 == [net[p] EXCEPT !.reset = TRUE]
             f2 == [f1 EXCEPT !.err = TRUE]
  <2>1. net' = [n1 EXCEPT ![p] = f2]
    <3> DEFINE m1 == [net EXCEPT ![s].closed = TRUE]
               m2 == [m1 EXCEPT ![s].snd = <<>>]
               m3 == [m2 EXCEPT ![p].reset = TRUE]
    <3>1. net' = [m3 EXCEPT ![p].err = TRUE]
      BY <1>3 DEF AfterClose
    <3>2. m1 = [net EXCEPT ![s] = e1]
      OBVIOUS
    <3>3. m2 = n1
      BY <1>0, <3>2
    <3>4. n1[p] = net[p]
      BY <1>0
    <3> HIDE DEF m2, n1
    <3>5. m3 = [n1 EXCEPT ![p] = f1]
      BY <3>3, <3>4
    <3> HIDE DEF m3
    <3> QED BY <3>1, <3>3, <3>5 DEF n1
  <2>2. e1 \in End /\ e1.rcv = net[s].rcv /\ e1.closed /\ e1.eof = net[s].eof /\ e1.reset = net[s].reset
    BY <1>0 DEF End
  <2> HIDE DEF e1
  <2>3. /\ e2 \in End /\ e2.snd = <<>> /\ e2.rcv = net[s].rcv /\ e2.closed
        /\ e2.eof = net[s].eof /\ e2.reset = net[s].reset
    BY <2>2, EndChanges, EmptySeq DEF End
  <2> HIDE DEF e2
  <2>4. f1 \in End /\ f1.snd = net[p].snd /\ f1.rcv = net[p].rcv /\ f1.closed = net[p].closed
    BY <1>0 DEF End
  <2> HIDE DEF f1
  <2>5. f2 \in End /\ f2.snd = net[p].snd /\ f2.rcv = net[p].rcv /\ f2.closed = net[p].closed
    BY <2>4, EndChanges DEF End
  <2> HIDE DEF f2
  <2>6. n1 \in [Ends -> End] /\ n1[s] = e2
    BY <1>0, <2>3
  <2> HIDE DEF n1
  <2>7. net' \in [Ends -> End] /\ net'[s] = e2 /\ net'[p] = f2
    BY <1>0, <2>1, <2>5, <2>6
  <2>8. /\ Size(e2) <= Size(net[s]) /\ Size(f2) = Size(net[p])
        /\ Size(net[s]) \in Nat /\ Size(net[p]) \in Nat /\ Size(e2) \in Nat
    BY <1>0, <2>3, <2>5, Sizes
  <2>9. InNet = Size(net[s]) + Size(net[p]) /\ InNet' = Size(e2) + Size(f2)
    BY <1>0, <2>7, InNetOf
  <2> QED BY <2>3, <2>5, <2>7, <2>8, <2>9
<1> QED BY <1>1, <1>2, <1>3

(* recv takes from the kernel what it gives. *)
LEMMA RecvMoves ==
  ASSUME DataTypes, NEW s \in Ends, net[s].rcv # <<>>, net' = [net EXCEPT ![s].rcv = Drop(@, RecvMax)]
  PROVE  /\ net' \in [Ends -> End] /\ InNet \in Nat /\ InNet' \in Nat
         /\ Received(s) \in Seq(Nat) /\ Len(Received(s)) \in Nat /\ Received(s) # <<>>
         /\ InNet' + Len(Received(s)) = InNet
         /\ \A r \in Ends : /\ net'[r].closed = net[r].closed /\ net'[r].eof = net[r].eof
                            /\ net'[r].reset = net[r].reset
<1> DEFINE p == Peer(s)
           q == net[s].rcv
           k == Least({Len(q), RecvMax})
           d == Drop(q, RecvMax)
           e == [net[s] EXCEPT !.rcv = d]
<1>0. /\ net \in [Ends -> End] /\ p \in Ends /\ p # s /\ net[s] \in End /\ q \in Seq(Nat)
      /\ Len(q) \in Nat /\ RecvMax \in Nat \ {0}
  BY Peers, EndFields DEF DataTypes
<1>1. k \in Nat /\ k <= Len(q) /\ (k = Len(q) \/ k = RecvMax) /\ k <= RecvMax
  <2>1. {Len(q), RecvMax} = {Len(q), RecvMax, RecvMax} /\ {Len(q), RecvMax} = {RecvMax, Len(q), Len(q)}
    OBVIOUS
  <2> DEFINE n == Len(q)
  <2>2. n \in Int /\ RecvMax \in Int
    BY <1>0
  <2> HIDE DEF n, q
  <2>3. Least({n, RecvMax, RecvMax}) <= n /\ Least({n, RecvMax, RecvMax}) \in {n, RecvMax}
    BY <2>2, LeastOfThree
  <2>4. Least({RecvMax, n, n}) <= RecvMax
    BY <2>2, LeastOfThree
  <2> HIDE DEF k
  <2>5. k = Least({n, RecvMax, RecvMax}) /\ k = Least({RecvMax, n, n})
    BY <2>1 DEF k, n
  <2> QED BY <1>0, <2>3, <2>4, <2>5 DEF n
<1>2. Received(s) = SubSeq(q, 1, k)
  BY DEF Received
<1> HIDE DEF k, q
<1>3. q # <<>> /\ Len(q) # 0
  BY <1>0, EmptySeq DEF q
<1>4. Received(s) \in Seq(Nat) /\ Len(Received(s)) = k
  <2>1. q \in Seq(Nat) /\ k \in Nat /\ k <= Len(q)
    BY <1>0, <1>1
  <2>2. SubSeq(q, 1, k) \in Seq(Nat) /\ Len(SubSeq(q, 1, k)) = k
    BY <2>1, Pieces, Zenon
  <2> QED BY <1>2, <2>2
<1>5. d \in Seq(Nat) /\ Len(d) = Len(q) + (0 - k)
  <2>1. CASE RecvMax <= Len(q)
    <3>1. k = RecvMax /\ q \in Seq(Nat) /\ RecvMax \in Nat
      BY <1>0, <1>1, <2>1
    <3>2. d \in Seq(Nat) /\ Len(d) = Len(q) - RecvMax
      BY <2>1, <3>1, Pieces, Zenon DEF Drop
    <3> QED BY <1>0, <1>1, <3>1, <3>2
  <2>2. CASE ~(RecvMax <= Len(q))
    <3>1. k = Len(q)
      BY <1>0, <1>1, <2>2
    <3>2. d = <<>>
      BY <1>0, <2>2, Pieces DEF Drop
    <3> QED BY <1>0, <3>1, <3>2, EmptySeq
  <2> QED BY <2>1, <2>2
<1>6. net' = [net EXCEPT ![s] = e]
  BY DEF q
<1> HIDE DEF d
<1>7. /\ e \in End /\ e.snd = net[s].snd /\ e.rcv = d /\ e.closed = net[s].closed
      /\ e.eof = net[s].eof /\ e.reset = net[s].reset
  BY <1>0, <1>5, EndChanges DEF End
<1> HIDE DEF e, p
<1>8. net' \in [Ends -> End] /\ net'[s] = e /\ \A r \in Ends \ {s} : net'[r] = net[r]
  BY <1>0, <1>6, <1>7
<1>9. Size(e) = Size(net[s]) + (0 - k) /\ Size(net[s]) \in Nat /\ Size(net[p]) \in Nat /\ Size(e) \in Nat
  <2>1. 0 - k \in Int
    BY <1>1
  <2>2. Len(e.rcv) = Len(net[s].rcv) + (0 - k)
    BY <1>5, <1>7 DEF q
  <2> QED BY <1>0, <1>7, <2>1, <2>2, Sizes, Zenon
<1>10. InNet = Size(net[s]) + Size(net[p]) /\ InNet' = Size(e) + Size(net[p])
  BY <1>0, <1>8, InNetOf DEF p
<1>11. Received(s) # <<>> /\ InNet' + Len(Received(s)) = InNet
  <2>1. k # 0
    BY <1>0, <1>1, <1>3
  <2> QED BY <1>1, <1>4, <1>9, <1>10, <2>1
<1>12. InNet \in Nat /\ InNet' \in Nat
  BY <1>9, <1>10
<1> QED BY <1>1, <1>4, <1>7, <1>8, <1>11, <1>12

(* send gives to the kernel what it takes from the buffer. *)
LEMMA SendMoves ==
  ASSUME DataTypes, NEW s \in Ends, NEW q \in Seq(Nat), net' = [net EXCEPT ![s].snd = @ \o q]
  PROVE  /\ net' \in [Ends -> End] /\ InNet \in Nat /\ InNet' = InNet + Len(q)
         /\ \A r \in Ends : /\ net'[r].closed = net[r].closed /\ net'[r].eof = net[r].eof
                            /\ net'[r].reset = net[r].reset
<1> DEFINE p == Peer(s)
           d == net[s].snd \o q
           e == [net[s] EXCEPT !.snd = d]
<1>0. net \in [Ends -> End] /\ p \in Ends /\ p # s /\ net[s] \in End /\ net[s].snd \in Seq(Nat) /\ Len(q) \in Nat
  BY Peers, EndFields, LenProperties DEF DataTypes
<1>1. d \in Seq(Nat) /\ Len(d) = Len(net[s].snd) + Len(q)
  BY <1>0, ConcatProperties
<1>2. net' = [net EXCEPT ![s] = e]
  OBVIOUS
<1> HIDE DEF d
<1>3. /\ e \in End /\ e.snd = d /\ e.rcv = net[s].rcv /\ e.closed = net[s].closed
      /\ e.eof = net[s].eof /\ e.reset = net[s].reset
  BY <1>0, <1>1, EndChanges DEF End
<1> HIDE DEF e, p
<1>4. net' \in [Ends -> End] /\ net'[s] = e /\ \A r \in Ends \ {s} : net'[r] = net[r]
  BY <1>0, <1>2, <1>3
<1>5. Size(e) = Size(net[s]) + Len(q) /\ Size(net[s]) \in Nat /\ Size(net[p]) \in Nat
  <2>1. Len(q) \in Int /\ Len(e.snd) = Len(net[s].snd) + Len(q)
    BY <1>0, <1>1, <1>3
  <2> QED BY <1>0, <1>3, <2>1, Sizes, Zenon
<1>6. InNet = Size(net[s]) + Size(net[p]) /\ InNet' = Size(e) + Size(net[p])
  BY <1>0, <1>4, InNetOf DEF p
<1> QED BY <1>0, <1>3, <1>4, <1>5, <1>6

(* An error that is reported is no byte. *)
LEMMA ErrMoves ==
  ASSUME DataTypes, NEW s \in Ends, net' = [net EXCEPT ![s].err = FALSE] \/ net' = net
  PROVE  /\ net' \in [Ends -> End] /\ InNet \in Nat /\ InNet' = InNet
         /\ \A r \in Ends : /\ net'[r].closed = net[r].closed /\ net'[r].eof = net[r].eof
                            /\ net'[r].reset = net[r].reset
<1> DEFINE p == Peer(s)
           e == IF net' = net THEN net[s] ELSE [net[s] EXCEPT !.err = FALSE]
<1>0. net \in [Ends -> End] /\ p \in Ends /\ p # s /\ net[s] \in End
  BY Peers DEF DataTypes
<1>1. net' = [net EXCEPT ![s] = e]
  BY <1>0
<1>2. /\ e \in End /\ e.snd = net[s].snd /\ e.rcv = net[s].rcv /\ e.closed = net[s].closed
      /\ e.eof = net[s].eof /\ e.reset = net[s].reset
  BY <1>0, EndChanges DEF End
<1> HIDE DEF e, p
<1>3. net' \in [Ends -> End] /\ net'[s] = e /\ \A r \in Ends \ {s} : net'[r] = net[r]
  BY <1>0, <1>1, <1>2
<1>4. Size(e) = Size(net[s])
  BY <1>0, <1>2, Sizes
<1>5. InNet' = InNet /\ InNet \in Nat
  BY <1>0, <1>3, <1>4, InNetOf DEF p
<1> QED BY <1>2, <1>3, <1>5

-----------------------------------------------------------------------------
(* Events leave a batch from its head, and only kevent brings any *)

(* What one step does to the batch and the place of a thread. *)
BatchStep(m) ==
    \/ CollectEvents(m)
    \/ Threw(m)
    \/ batch[m] # <<>> /\ Handled(m)
    \/ UNCHANGED <<at, batch>>
    \/ UNCHANGED batch /\ \E p \in Places \ {"next"} : at' = [at EXCEPT ![m] = p]
    \/ UNCHANGED batch /\ batch[m] = <<>> /\ \E p \in Places : at' = [at EXCEPT ![m] = p]

LEMMA ThreadBatch ==
  ASSUME LInv, NEW m \in Loops, Thread(m)
  PROVE  BatchStep(m)
<1>0. \A p \in {"recv", "send", "sent", "tasks", "wait", "out"} : p \in Places \ {"next"}
  BY DEF Places
<1>1. CASE CollectEvents(m)
  BY <1>1 DEF BatchStep
<1>2. CASE BeginRecv(m) \/ SendSome(m) \/ SendEnds(m)
  BY <1>0, <1>2 DEF BeginRecv, SendSome, SendEnds, Sending, BatchStep
<1>3. CASE RecvFails(m)
  BY <1>3, HeadOfBatch DEF RecvFails, BatchStep
<1>4. CASE ClientApp(m)
  <2>1. CASE ClientReceived(m)
    BY <2>1 DEF ClientReceived, RecvOn, BatchStep
  <2>2. CASE ClientDisconnected(m)
    BY <2>2 DEF ClientDisconnected, BatchStep
  <2>3. CASE ConnectFailed(m)
    BY <2>3 DEF ConnectFailed, WriteEvent, Current, BatchStep
  <2>4. CASE Connected(m) \/ ClientSent(m)
    BY <1>0, <2>4 DEF Connected, ClientSent, BeginWrite, BatchStep
  <2>5. CASE ClientWroteFirst(m) \/ ClientWroteOn(m)
    BY <2>5, HeadOfBatch DEF ClientWroteFirst, ClientWroteOn, Wrote, BatchStep
  <2> QED BY <1>4, <2>1, <2>2, <2>3, <2>4, <2>5 DEF ClientApp
<1>5. CASE ServerApp(m)
  <2>1. CASE Accept(m)
    BY <2>1 DEF Accept, Current, BatchStep
  <2>2. CASE ServerReceived(m)
    BY <1>0, <2>2 DEF ServerReceived, BeginWrite, RecvOn, BatchStep
  <2>3. CASE ServerDisconnected(m)
    BY <2>3, HeadOfBatch DEF ServerDisconnected, EndOfStream, BatchStep
  <2>4. CASE ServerSent(m)
    BY <1>0, <2>4 DEF ServerSent, WriteEvent, Current, BeginWrite, BatchStep
  <2>5. CASE ServerEchoed(m)
    BY <1>0, <2>5 DEF ServerEchoed, BatchStep
  <2>6. CASE ServerWroteOn(m)
    BY <2>6, HeadOfBatch DEF ServerWroteOn, Wrote, BatchStep
  <2> QED BY <1>5, <2>1, <2>2, <2>3, <2>4, <2>5, <2>6 DEF ServerApp
<1>6. CASE EnterLoop(m)
  <2>1. "next" \in Places /\ batch[m] = <<>>
    BY <1>6 DEF EnterLoop, Enter, LInv, Batched, Heads, Places
  <2> QED BY <1>6, <2>1 DEF EnterLoop, Enter, BatchStep
<1>7. CASE Connect \/ ClientClose
  BY <1>7 DEF Connect, ClientClose, SetUp, kqueueVars, loopVars, BatchStep
<1>8. CASE LoopStep(m)
  <2>1. CASE Check(m) \/ HandleUser(m)
    BY <1>0, <2>1 DEF Check, HandleUser, BatchStep
  <2>2. CASE RunPlain(m) \/ RunStop(m) \/ RunPost(m) \/ RunDestroy(m)
    BY <2>2 DEF RunPlain, RunStop, RunPost, RunDestroy, loopVars, BatchStep
  <2>3. CASE RunThrow(m)
    BY <2>3 DEF RunThrow, BatchStep
  <2>4. CASE EndTasks(m)
    BY <2>4 DEF EndTasks, LInv, Batched, Heads, BatchStep
  <2>5. CASE HandleTimer(m)
    BY <2>5 DEF HandleTimer, Current, BatchStep
  <2> QED BY <1>8, <2>1, <2>2, <2>3, <2>4, <2>5 DEF LoopStep
<1> QED BY <1>1, <1>2, <1>3, <1>4, <1>5, <1>6, <1>7, <1>8 DEF Thread

(* The same, seen from one loop. *)
LEMMA BatchMoves ==
  ASSUME LInv, [Next]_vars, NEW l \in Loops
  PROVE  \/ CollectEvents(l)
         \/ batch'[l] = <<>>
         \/ batch'[l] = batch[l] /\ (batch[l] # <<>> /\ at'[l] = "next" => at[l] = "next")
         \/ batch[l] # <<>> /\ batch'[l] = Tail(batch[l]) /\ Handled(l)
<1>0. at \in [Loops -> Places] /\ batch \in [Loops -> Seq(Events)]
  BY DEF LInv, LoopTypes
<1>1. ASSUME NEW m \in Loops, Thread(m), m # l
      PROVE  at'[l] = at[l] /\ batch'[l] = batch[l]
  <2>1. BatchStep(m)
    BY <1>1, ThreadBatch
  <2> QED BY <1>0, <1>1, <2>1 DEF BatchStep, CollectEvents, Collect, Threw, Handled
<1>2. CASE Thread(l)
  <2>1. BatchStep(l)
    BY <1>2, ThreadBatch
  <2>2. CASE Threw(l)
    BY <1>0, <2>2 DEF Threw
  <2>3. CASE batch[l] # <<>> /\ Handled(l)
    BY <1>0, <2>3 DEF Handled
  <2>4. CASE \E p \in Places \ {"next"} : UNCHANGED batch /\ at' = [at EXCEPT ![l] = p]
    BY <1>0, <2>4
  <2> QED BY <2>1, <2>2, <2>3, <2>4 DEF BatchStep
<1>3. CASE Kernel(LinkStep) \/ UNCHANGED vars \/ Outside
  BY <1>3 DEF Kernel, vars, kqueueVars, loopVars, Outside, Stop, PostTask, Trigger, Expire
<1> QED BY <1>1, <1>2, <1>3 DEF Next

LEMMA StaysInBatch ==
  ASSUME LInv, [Next]_vars, NEW l \in Loops, ~CollectEvents(l), NEW e, InBatch(l, e)'
  PROVE  InBatch(l, e)
<1> DEFINE b == batch[l]
<1>1. b \in Seq(Events)
  BY DEF LInv, LoopTypes
<1>2. PICK i \in DOMAIN batch'[l] : batch'[l][i] = e
  BY DEF InBatch
<1>3. CASE batch'[l] = batch[l]
  BY <1>2, <1>3 DEF InBatch
<1>4. CASE batch'[l] = <<>>
  BY <1>2, <1>4
<1>5. CASE b # <<>> /\ batch'[l] = Tail(b)
  <2> HIDE DEF b
  <2>1. i + 1 \in DOMAIN b /\ b[i + 1] = e
    BY <1>1, <1>2, <1>5, TailEntries
  <2> QED BY <2>1 DEF InBatch, b
<1> QED BY <1>3, <1>4, <1>5, BatchMoves

(* The event that has been handled is not in the batch any more. *)
LEMMA HandledOnce ==
  ASSUME LInv, Single, NEW l \in Loops, NEW e, batch[l] # <<>>, Head(batch[l]) = e, batch'[l] = Tail(batch[l])
  PROVE  ~InBatch(l, e)'
<1> DEFINE b == batch[l]
<1>1. b \in Seq(Events) /\ b # <<>> /\ \A i, j \in DOMAIN b : b[i] = b[j] => i = j
  BY DEF LInv, LoopTypes, Single
<1>2. batch'[l] = Tail(b)
  OBVIOUS
<1> HIDE DEF b
<1>3. 1 \in DOMAIN b /\ Head(b) = b[1]
  BY <1>1, HeadAndTail
<1>4. ASSUME NEW j \in DOMAIN Tail(b), Tail(b)[j] = Head(b) PROVE FALSE
  BY <1>1, <1>3, <1>4, TailEntries
<1> QED BY <1>2, <1>4 DEF InBatch, b

LEMMA SingleHolds ==
  ASSUME LInv, [Next]_vars, Single
  PROVE  Single'
<1> SUFFICES ASSUME NEW l \in Loops,
                    NEW i \in DOMAIN batch'[l], NEW j \in DOMAIN batch'[l], batch'[l][i] = batch'[l][j]
             PROVE  i = j
  BY DEF Single
<1>0. batch \in [Loops -> Seq(Events)]
  BY DEF LInv, LoopTypes
<1>1. CASE CollectEvents(l)
  <2>1. PICK b \in Batches(OwnEvents(l) \cup SocketEvents(l)) : batch' = [batch EXCEPT ![l] = b]
    BY <1>1 DEF CollectEvents, Collect
  <2>2. batch'[l] = b
    BY <1>0, <2>1
  <2>3. \A x, y \in DOMAIN b : b[x] = b[y] => x = y
    BY DEF Batches
  <2> QED BY <2>2, <2>3
<1>2. CASE batch'[l] = batch[l]
  BY <1>2 DEF Single
<1>3. CASE batch'[l] = <<>>
  BY <1>3
<1>4. CASE batch[l] # <<>> /\ batch'[l] = Tail(batch[l])
  <2> DEFINE b == batch[l]
  <2>1. b \in Seq(Events) /\ b # <<>> /\ batch'[l] = Tail(b) /\ \A x, y \in DOMAIN b : b[x] = b[y] => x = y
    BY <1>0, <1>4 DEF Single
  <2> HIDE DEF b
  <2>2. /\ i \in Nat /\ i + 1 \in DOMAIN b /\ Tail(b)[i] = b[i + 1]
        /\ j \in Nat /\ j + 1 \in DOMAIN b /\ Tail(b)[j] = b[j + 1]
    BY <2>1, TailEntries
  <2>3. i + 1 = j + 1
    BY <2>1, <2>2
  <2> QED BY <2>2, <2>3
<1> QED BY <1>1, <1>2, <1>3, <1>4, BatchMoves

LEMMA Loopy == ServerLoop \in Loops /\ ClientLoop \in Loops /\ \A s \in Socks : LoopOf[s] \in Loops
  BY SocksOfEnds DEF ServerLoop, ClientLoop

LEMMA StillWaits ==
  ASSUME LInv, [Next]_vars, ~CollectEvents(ServerLoop), WriteWaits'
  PROVE  WriteWaits
<1> DEFINE l == ServerLoop
           b == batch[l]
<1>0. b \in Seq(Events) /\ l \in Loops
  BY Loopy DEF LInv, LoopTypes
<1>1. PICK i \in DOMAIN batch'[l] : batch'[l][i] = WriteServer /\ (i = 1 => at'[l] = "next")
  BY DEF WriteWaits
<1>2. CASE batch'[l] = <<>>
  BY <1>1, <1>2
<1>3. CASE batch'[l] = b /\ (b # <<>> /\ at'[l] = "next" => at[l] = "next")
  <2>1. b # <<>>
    BY <1>1, <1>3
  <2> QED BY <1>1, <1>3, <2>1 DEF WriteWaits
<1>4. CASE b # <<>> /\ batch'[l] = Tail(b)
  <2> HIDE DEF b
  <2>1. i + 1 \in DOMAIN b /\ i + 1 # 1 /\ b[i + 1] = WriteServer
    BY <1>0, <1>1, <1>4, TailEntries
  <2> QED BY <2>1 DEF WriteWaits, b
<1> QED BY <1>0, <1>2, <1>3, <1>4, BatchMoves

(* The server's WRITE event, once it is being handled, does not wait.      *)
LEMMA WaitsNoMore ==
  ASSUME LInv, Single, batch[ServerLoop] # <<>>, Head(batch[ServerLoop]) = WriteServer,
         \/ batch'[ServerLoop] = Tail(batch[ServerLoop])
         \/ batch'[ServerLoop] = batch[ServerLoop] /\ at'[ServerLoop] # "next"
  PROVE  ~WriteWaits'
<1> DEFINE l == ServerLoop
           b == batch[l]
<1>0. b \in Seq(Events) /\ l \in Loops /\ b # <<>> /\ \A i, j \in DOMAIN b : b[i] = b[j] => i = j
  BY Loopy DEF LInv, LoopTypes, Single
<1>1. CASE batch'[l] = Tail(b)
  <2>1. ~InBatch(l, WriteServer)'
    BY <1>0, <1>1, HandledOnce
  <2> QED BY <2>1 DEF WriteWaits, InBatch
<1>2. CASE batch'[l] = b /\ at'[l] # "next"
  <2> HIDE DEF b
  <2>1. 1 \in DOMAIN b /\ Head(b) = b[1] /\ Head(b) = WriteServer
    BY <1>0, HeadAndTail DEF b
  <2>2. \A i \in DOMAIN b : b[i] = WriteServer => i = 1
    BY <1>0, <2>1
  <2> QED BY <1>2, <2>2 DEF WriteWaits
<1> QED BY <1>1, <1>2

(* What waits is in the batch. *)
LEMMA WaitingIsThere == WriteWaits => InBatch(ServerLoop, WriteServer)
  BY DEF WriteWaits, InBatch

-----------------------------------------------------------------------------
(* What a step may do to the sockets and to the session *)

(* None opens, none asks to write, and the listening socket's edge rises   *)
(* only with the connection.                                               *)
Settled ==
    /\ \A s \in Ends : sock'[s].open => sock[s].open
    /\ sock'[Listener].edge => sock[Listener].edge \/ (link' = "up" /\ link # "up")

Calm == Settled /\ (sock'[Server].asked => sock[Server].asked)

LEMMA RaisedCalm ==
  ASSUME NEW socks \in [Socks -> Sock], sock' = Raised(socks),
         \A s \in Ends : socks[s].open => sock[s].open,
         socks[Server].asked => sock[Server].asked, socks[Listener] = sock[Listener]
  PROVE  Calm
<1>1. \A s \in Socks : /\ sock'[s].open <=> socks[s].open
                       /\ sock'[s].edge <=> socks[s].edge \/ (socks[s].open /\ Arrives(s))
  BY RaisedIs
<1>2. sock'[Server].asked => socks[Server].asked
  <2>1. \A r \in Sock : [r EXCEPT !.edge = TRUE].asked = r.asked
    BY DEF Sock
  <2>2. sock'[Server] = socks[Server] \/ sock'[Server] = [socks[Server] EXCEPT !.edge = TRUE]
    BY SocksOfEnds DEF Raised
  <2>3. socks[Server] \in Sock
    BY SocksOfEnds
  <2> QED BY <2>1, <2>2, <2>3, Zenon
<1>3. Listener \in Socks /\ (Arrives(Listener) => link' = "up" /\ link # "up")
  BY DEF Socks, Arrives
<1> QED BY <1>1, <1>2, <1>3, SocksOfEnds DEF Calm, Settled

LEMMA ClientCalm ==
  ASSUME DataTypes, NEW r \in Sock, r.open => sock[Client].open, sock' = [sock EXCEPT ![Client] = r]
  PROVE  Calm
<1>1. sock'[Client] = r /\ sock'[Server] = sock[Server] /\ sock'[Listener] = sock[Listener]
  BY SocksOfEnds DEF DataTypes, Socks
<1> QED BY <1>1 DEF Calm, Settled, Ends

LEMMA SameCalm == UNCHANGED sock => Calm
  BY DEF Calm, Settled

(* kevent takes what it returns. *)
LEMMA CollectTakes ==
  ASSUME DataTypes, NEW l \in Loops, CollectEvents(l)
  PROVE  /\ Calm
         /\ \A s \in Socks : LoopOf[s] = l =>
               /\ InBatch(l, Event("READ", s))' => ~sock'[s].edge
               /\ InBatch(l, Event("WRITE", s))' => ~sock'[s].asked
<1>1. \A s \in Socks : /\ sock'[s].open <=> sock[s].open
                       /\ sock'[s].edge <=> /\ sock[s].edge
                                            /\ ~(LoopOf[s] = l /\ InBatch(l, Event("READ", s))')
  BY CollectTypes
<1>2. ASSUME NEW s \in Socks
      PROVE  sock'[s].asked <=> sock[s].asked /\ ~(LoopOf[s] = l /\ InBatch(l, Event("WRITE", s))')
  <2> DEFINE b == LoopOf[s] = l /\ InBatch(l, Event("READ", s))'
             c == LoopOf[s] = l /\ InBatch(l, Event("WRITE", s))'
             r == sock[s]
             x == r.edge /\ ~b
             y == r.asked /\ ~c
  <2>1. sock'[s] = [r EXCEPT !.edge = x, !.asked = y]
    BY DEF CollectEvents
  <2>2. r \in Sock
    BY DEF DataTypes
  <2> HIDE DEF b, c, r, x
  <2>3. y <=> r.asked /\ ~c
    OBVIOUS
  <2> HIDE DEF y
  <2>4. [r EXCEPT !.edge = x, !.asked = y].asked = y
    BY <2>2 DEF Sock
  <2> QED BY <2>1, <2>3, <2>4 DEF r, c
<1>3. Listener \in Socks /\ Server \in Socks
  BY DEF Socks, Ends
<1> QED BY <1>1, <1>2, <1>3, SocksOfEnds DEF Calm, Settled

LEMMA ReadCalm ==
  ASSUME DataTypes, NEW l \in Loops,
         \/ BeginRecv(l) \/ RecvFails(l) \/ ClientReceived(l) \/ ServerReceived(l) \/ ClientDisconnected(l)
         \/ ServerDisconnected(l)
  PROVE  Calm
<1>1. CASE ServerDisconnected(l)
  <2> DEFINE r == [Gone(Server) EXCEPT !.alive = FALSE]
             socks == [sock EXCEPT ![Server] = r]
  <2>1. sock' = Raised(socks)
    BY <1>1 DEF ServerDisconnected
  <2>2. r \in Sock /\ ~r.open
    BY GoneIs, SocksOfEnds DEF DataTypes
  <2>3. r.asked = FALSE
    <3> DEFINE g == [[sock[Server] EXCEPT !.open = FALSE] EXCEPT !.edge = FALSE]
    <3>1. r = [[g EXCEPT !.asked = FALSE] EXCEPT !.alive = FALSE] /\ sock[Server] \in Sock
      BY SocksOfEnds DEF Gone, DataTypes
    <3>2. \A e \in Sock : [e EXCEPT !.open = FALSE] \in Sock /\ [e EXCEPT !.edge = FALSE] \in Sock
      BY DEF Sock
    <3>3. g \in Sock
      BY <3>1, <3>2
    <3>4. \A e \in Sock : [[e EXCEPT !.asked = FALSE] EXCEPT !.alive = FALSE].asked = FALSE
      BY DEF Sock
    <3> HIDE DEF g, r
    <3> QED BY <3>1, <3>3, <3>4
  <2> HIDE DEF r
  <2>4. /\ socks \in [Socks -> Sock] /\ socks[Server] = r /\ socks[Client] = sock[Client]
        /\ socks[Listener] = sock[Listener]
    BY <2>2, SocksOfEnds DEF DataTypes, Socks
  <2> HIDE DEF socks
  <2> QED BY <2>1, <2>2, <2>3, <2>4, RaisedCalm DEF Ends
<1>2. CASE ~ServerDisconnected(l)
  BY <1>2, SameCalm DEF BeginRecv, RecvFails, ClientReceived, ServerReceived, RecvData, ClientDisconnected, sockVars
<1> QED BY <1>1, <1>2

LEMMA WriteCalm ==
  ASSUME DataTypes, NEW l \in Loops,
         \/ ConnectFailed(l) \/ Connected(l) \/ ClientSent(l) \/ ServerSent(l) \/ SendSome(l)
         \/ ClientWroteFirst(l) \/ ClientWroteOn(l) \/ ServerEchoed(l) \/ ServerWroteOn(l)
  PROVE  Calm
<1>0. sock[Client] \in Sock /\ sock \in [Socks -> Sock] /\ Client \in Socks
  BY SocksOfEnds DEF DataTypes
<1>1. CASE ConnectFailed(l) \/ Connected(l)
  <2> DEFINE r == [sock[Client] EXCEPT !.connected = TRUE]
  <2>1. sock' = [sock EXCEPT ![Client] = r]
    BY <1>0, <1>1 DEF ConnectFailed, Connected
  <2>2. r \in Sock /\ r.open = sock[Client].open
    BY <1>0, SockChanges, ZenonT(30)
  <2> HIDE DEF r
  <2> QED BY <2>1, <2>2, ClientCalm
<1>2. CASE ClientWroteFirst(l)
  <2> DEFINE b == sock[Client].edge \/ Readable(Client)
             r == [sock[Client] EXCEPT !.edge = b]
  <2>1. sock' = [sock EXCEPT ![Client] = r]
    BY <1>0, <1>2 DEF ClientWroteFirst, AskRead
  <2>2. b \in BOOLEAN
    OBVIOUS
  <2> HIDE DEF b
  <2>3. r \in Sock /\ r.open = sock[Client].open
    BY <1>0, <2>2, SockChanges, ZenonT(30)
  <2> HIDE DEF r
  <2> QED BY <2>1, <2>3, ClientCalm
<1>3. CASE ClientSent(l) \/ ServerSent(l) \/ SendSome(l) \/ ClientWroteOn(l) \/ ServerEchoed(l) \/ ServerWroteOn(l)
  BY <1>3, SameCalm DEF ClientSent, ServerSent, SendSome, ClientWroteOn, ServerEchoed, ServerWroteOn
<1> QED BY <1>1, <1>2, <1>3

(* so_write asks for the event when something is left and there is no room.*)
LEMMA SendEndsAsks ==
  ASSUME LInv, DataTypes, NEW l \in Loops, SendEnds(l)
  PROVE  \/ Calm
         \/ Settled /\ Cur(l) = Server /\ Rest(l) # <<>>
<1> DEFINE s == Cur(l)
           r == [sock[s] EXCEPT !.asked = TRUE]
<1>0. s \in Ends /\ s \in Socks /\ sock[s] \in Sock /\ sock \in [Socks -> Sock]
  BY HeadOfBatch, SocksOfEnds DEF SendEnds, Sending, DataTypes
<1>1. \/ UNCHANGED sock
      \/ sock' = [sock EXCEPT ![s] = r] /\ Rest(l) # <<>> /\ link = "up"
  BY DEF SendEnds, AskWrite
<1>2. r \in Sock /\ r.open = sock[s].open /\ r.edge = sock[s].edge
  BY <1>0, SockChanges, ZenonT(30)
<1> HIDE DEF r
<1>3. CASE UNCHANGED sock
  BY <1>3, SameCalm
<1>4. CASE sock' = [sock EXCEPT ![s] = r] /\ s = Client
  BY <1>2, <1>4, ClientCalm
<1>5. CASE sock' = [sock EXCEPT ![s] = r] /\ s = Server /\ Rest(l) # <<>> /\ link = "up"
  <2>1. sock'[Server] = r /\ sock'[Client] = sock[Client] /\ sock'[Listener] = sock[Listener]
    BY <1>0, <1>5, SocksOfEnds DEF Socks
  <2> QED BY <1>2, <1>5, <2>1 DEF Ends, Settled
<1> QED BY <1>0, <1>1, <1>3, <1>4, <1>5 DEF Ends

LEMMA SetUpCalm == ASSUME DataTypes, Connect \/ ClientClose PROVE Calm
<1>0. sock[Client] \in Sock /\ sock \in [Socks -> Sock] /\ Client \in Socks /\ Server \in Socks /\ Listener \in Socks
  BY SocksOfEnds DEF DataTypes, Socks
<1>1. CASE Connect
  <2> DEFINE r == [sock[Client] EXCEPT !.asked = TRUE]
  <2>1. sock' = [sock EXCEPT ![Client] = r]
    BY <1>1 DEF Connect, AskWrite
  <2>2. r \in Sock /\ r.open = sock[Client].open
    BY <1>0, SockChanges
  <2> HIDE DEF r
  <2> QED BY <2>1, <2>2, ClientCalm
<1>2. CASE ClientClose
  <2> DEFINE r == Gone(Client)
             socks == [sock EXCEPT ![Client] = r]
  <2>1. sock' = Raised(socks)
    BY <1>2 DEF ClientClose
  <2>2. r \in Sock /\ ~r.open
    BY <1>0, GoneIs
  <2> HIDE DEF r
  <2>3. /\ socks \in [Socks -> Sock] /\ socks[Client] = r /\ socks[Server] = sock[Server]
        /\ socks[Listener] = sock[Listener]
    BY <1>0, <2>2, SocksOfEnds
  <2> HIDE DEF socks
  <2> QED BY <2>1, <2>2, <2>3, RaisedCalm DEF Ends
<1> QED BY <1>1, <1>2

(* What Accept makes of the server's socket. *)
LEMMA AcceptOpens ==
  ASSUME DataTypes, NEW l \in Loops, Accept(l)
  PROVE  /\ ~sock'[Server].asked
         /\ sock'[Client] = sock[Client] /\ sock'[Listener] = sock[Listener]
<1> DEFINE b == Readable(Server)
           r == [Fresh EXCEPT !.connected = TRUE, !.edge = b]
<1>1. sock' = [sock EXCEPT ![Server] = r]
  BY DEF Accept
<1>2. r.asked = FALSE
  BY DEF Fresh
<1> HIDE DEF r
<1>3. sock'[Server] = r /\ sock'[Client] = sock[Client] /\ sock'[Listener] = sock[Listener]
  BY <1>1, SocksOfEnds DEF DataTypes, Socks
<1> QED BY <1>2, <1>3

LEMMA LoopStepsCalm ==
  ASSUME NEW l \in Loops,
         EnterLoop(l) \/ (LoopStep(l) /\ UNCHANGED <<linkVars, appVars, sockVars, load>>)
  PROVE  Calm /\ UNCHANGED <<linkVars, appVars, cb, wr>>
  BY SameCalm DEF EnterLoop, sockVars

LEMMA OutsideCalm ==
  ASSUME DataTypes, Kernel(LinkStep) \/ (Outside /\ UNCHANGED <<linkVars, appVars, sockVars, load>>) \/ UNCHANGED vars
  PROVE  Calm
<1>1. CASE Kernel(LinkStep)
  BY <1>1, RaisedCalm DEF Kernel, DataTypes
<1>2. CASE ~Kernel(LinkStep)
  BY <1>2, SameCalm DEF sockVars, vars
<1> QED BY <1>1, <1>2

(* The steps that neither accept nor block in so_write. *)
LEMMA ThreadCalm ==
  ASSUME LInv, DataTypes, NEW l \in Loops, Thread(l), ~Accept(l)
  PROVE  Calm \/ (Settled /\ SendEnds(l) /\ Cur(l) = Server /\ Rest(l) # <<>>)
<1>1. CASE CollectEvents(l)
  BY <1>1, CollectTakes
<1>2. CASE SendEnds(l)
  BY <1>2, SendEndsAsks
<1>3. CASE EnterLoop(l) \/ (LoopStep(l) /\ UNCHANGED <<linkVars, appVars, sockVars, load>>)
  BY <1>3, LoopStepsCalm
<1>4. CASE Connect \/ ClientClose
  BY <1>4, SetUpCalm
<1>5. CASE BeginRecv(l) \/ RecvFails(l) \/ ClientReceived(l) \/ ServerReceived(l) \/ ClientDisconnected(l)
           \/ ServerDisconnected(l)
  BY <1>5, ReadCalm
<1>6. CASE ConnectFailed(l) \/ Connected(l) \/ ClientSent(l) \/ ServerSent(l) \/ SendSome(l)
           \/ ClientWroteFirst(l) \/ ClientWroteOn(l) \/ ServerEchoed(l) \/ ServerWroteOn(l)
  BY <1>6, WriteCalm
<1> QED BY <1>1, <1>2, <1>3, <1>4, <1>5, <1>6 DEF Thread, ClientApp, ServerApp

LEMMA StepCalm ==
  ASSUME LInv, DataTypes, [Next]_vars, \A l \in Loops : ~Accept(l)
  PROVE  Settled /\ (Calm \/ \E l \in Loops : SendEnds(l) /\ Cur(l) = Server /\ Rest(l) # <<>>)
<1>1. ASSUME NEW l \in Loops, Thread(l)
      PROVE  Calm \/ (Settled /\ SendEnds(l) /\ Cur(l) = Server /\ Rest(l) # <<>>)
  BY <1>1, ThreadCalm
<1>2. CASE Kernel(LinkStep) \/ (Outside /\ UNCHANGED <<linkVars, appVars, sockVars, load>>) \/ UNCHANGED vars
  BY <1>2, OutsideCalm DEF Calm
<1> QED BY <1>1, <1>2 DEF Next, Calm

(* The session is opened by Accept and erased by on_disconnected, what the *)
(* client has grows in on_received, its message is the same for ever, and  *)
(* a connection stays up.                                                  *)
AppMoves ==
    /\ UNCHANGED session \/ \E l \in Loops : Accept(l) \/ ServerDisconnected(l)
    /\ UNCHANGED received_msg \/ sock[Client].open
    /\ UNCHANGED large_message
    /\ link = "up" => link' = "up"

LEMMA StepMoves ==
  ASSUME DataTypes, [Next]_vars
  PROVE  AppMoves
<1>1. ASSUME NEW l \in Loops, Thread(l) PROVE AppMoves
  <2>1. CASE CollectEvents(l) \/ BeginRecv(l) \/ RecvFails(l)
    BY <2>1 DEF CollectEvents, BeginRecv, RecvFails, linkVars, appVars, AppMoves
  <2>2. CASE SendSome(l) \/ SendEnds(l)
    BY <2>2 DEF SendSome, SendEnds, Sending, appVars, AppMoves
  <2>3. CASE ClientReceived(l)
    BY <2>3 DEF ClientReceived, RecvData, ClientGot, AppMoves
  <2>4. CASE ClientDisconnected(l)
    BY <2>4 DEF ClientDisconnected, EndOfStream, appVars, AppMoves
  <2>5. CASE ConnectFailed(l) \/ Connected(l) \/ ClientSent(l) \/ ServerSent(l)
    BY <2>5 DEF ConnectFailed, Connected, ClientSent, ServerSent, WriteEvent, appVars, AppMoves
  <2>6. CASE ClientWroteFirst(l) \/ ClientWroteOn(l) \/ ServerEchoed(l) \/ ServerWroteOn(l)
    BY <2>6 DEF ClientWroteFirst, ClientWroteOn, ServerEchoed, ServerWroteOn, Wrote, ClientWrote, ServerKeeps,
                linkVars, AppMoves
  <2>7. CASE Accept(l) \/ ServerDisconnected(l)
    BY <2>7 DEF Accept, ServerDisconnected, EndOfStream, SessionBecomes, linkVars, AppMoves
  <2>8. CASE ServerReceived(l)
    BY <2>8 DEF ServerReceived, RecvData, ServerGot, AppMoves
  <2>9. CASE EnterLoop(l) \/ (LoopStep(l) /\ UNCHANGED <<linkVars, appVars, sockVars, load>>)
    BY <2>9 DEF EnterLoop, linkVars, appVars, AppMoves
  <2>10. CASE Connect \/ ClientClose
    BY <2>10 DEF Connect, ClientClose, SetUp, appVars, AppMoves
  <2> QED BY <1>1, <2>1, <2>2, <2>3, <2>4, <2>5, <2>6, <2>7, <2>8, <2>9, <2>10 DEF Thread, ClientApp, ServerApp
<1>2. CASE Kernel(LinkStep)
  BY <1>2, LinkMoves DEF Kernel, appVars, AppMoves
<1>3. CASE (Outside /\ UNCHANGED <<linkVars, appVars, sockVars, load>>) \/ UNCHANGED vars
  BY <1>3 DEF linkVars, appVars, vars, AppMoves
<1> QED BY <1>1, <1>2, <1>3 DEF Next

(* An event of a socket is returned for one that is open and has it.       *)
LEMMA ReturnedOfSocket ==
  ASSUME LInv, NEW l \in Loops, CollectEvents(l), NEW s \in Socks, NEW f \in {"READ", "WRITE"}, InBatch(l, Event(f, s))'
  PROVE  /\ LoopOf[s] = l /\ sock[s].open
         /\ f = "READ" => sock[s].edge /\ Readable(s)
         /\ f = "WRITE" => sock[s].asked
<1> DEFINE e == Event(f, s)
<1>0. e.filter = f /\ e.of = s
  BY DEF Event
<1>1. PICK b \in Batches(OwnEvents(l) \cup SocketEvents(l)) : batch' = [batch EXCEPT ![l] = b]
  BY DEF CollectEvents, Collect
<1>2. batch'[l] = b
  BY <1>1 DEF LInv, LoopTypes
<1>3. PICK i \in DOMAIN b : b[i] = e
  BY <1>2 DEF InBatch
<1>4. b[i] \in OwnEvents(l) \cup SocketEvents(l)
  BY <1>3 DEF Batches
<1> HIDE DEF e
<1>5. e \notin OwnEvents(l)
  BY <1>0 DEF OwnEvents, UserEvent, Event
<1>6. \/ f = "READ" /\ \E t \in Socks : t = s /\ LoopOf[t] = l /\ sock[t].open /\ sock[t].edge /\ Readable(t)
      \/ f = "WRITE" /\ \E t \in Socks : t = s /\ LoopOf[t] = l /\ sock[t].open /\ sock[t].asked
  <2>1. e \in SocketEvents(l)
    BY <1>3, <1>4, <1>5
  <2>2. CASE \E t \in Socks : e = Event("READ", t) /\ LoopOf[t] = l /\ sock[t].open /\ sock[t].edge /\ Readable(t)
    BY <1>0, <2>2 DEF Event
  <2>3. CASE \E t \in Socks : e = Event("WRITE", t) /\ LoopOf[t] = l /\ sock[t].open /\ sock[t].asked
    BY <1>0, <2>3 DEF Event
  <2> QED BY <2>1, <2>2, <2>3 DEF SocketEvents
<1> QED BY <1>6

(* Accept and on_disconnected handle an event of the server's loop. *)
LEMMA AcceptsKnock ==
  ASSUME LInv, AcceptedOnce, NEW l \in Loops, Accept(l)
  PROVE  /\ l = ServerLoop /\ batch[l] # <<>> /\ Head(batch[l]) = Knock /\ batch'[l] = Tail(batch[l])
         /\ session = "none" /\ session' = "open" /\ link = "up" /\ link' = "up" /\ ~sock[Listener].edge
         /\ ~CollectEvents(l) /\ at[l] = "next" /\ UNCHANGED <<received_msg, pending_data, net>>
<1>1. /\ batch[l] # <<>> /\ Head(batch[l]).filter = "READ" /\ Head(batch[l]).of = Listener
      /\ Handled(l) /\ at[l] = "next" /\ session' = "open"
      /\ UNCHANGED <<linkVars, received_msg, pending_data>>
  BY DEF Accept, Current, Cur, SessionBecomes
<1>2. batch[l] \in Seq(Events)
  BY DEF LInv, LoopTypes
<1>3. Head(batch[l]) = Knock
  <2>1. Head(batch[l]) \in Events
    BY <1>1, HeadOfBatch
  <2> QED BY <1>1, <2>1 DEF Events, Knock, Event
<1>4. l = ServerLoop
  <2>1. Belongs(Head(batch[l]), l)
    BY <1>1, HeadOfBatch
  <2> QED BY <1>1, <2>1 DEF Belongs, ServerLoop
<1>5. InBatch(ServerLoop, Knock)
  <2>1. 1 \in DOMAIN batch[l] /\ batch[l][1] = Head(batch[l])
    BY <1>1, <1>2, HeadAndTail
  <2> QED BY <1>3, <1>4, <2>1 DEF InBatch
<1>6. batch'[l] = Tail(batch[l])
  BY <1>1, HandledBatch
<1>7. ~CollectEvents(l)
  BY <1>1 DEF CollectEvents, Collect
<1> QED BY <1>1, <1>3, <1>4, <1>5, <1>6, <1>7 DEF AcceptedOnce, linkVars

LEMMA DisconnectsServer ==
  ASSUME LInv, AcceptedOnce, Destroyed, NEW l \in Loops, ServerDisconnected(l)
  PROVE  /\ l = ServerLoop /\ batch[l] # <<>> /\ Head(batch[l]) = ReadServer /\ batch'[l] = Tail(batch[l])
         /\ session = "open" /\ session' = "erased" /\ at[l] = "recv" /\ at'[l] = "next"
         /\ sock[Server].open /\ Over(Server) /\ net' = AfterClose(Server)
         /\ ~CollectEvents(l) /\ UNCHANGED <<received_msg, pending_data, large_message, total_sent, wr, cb, link>>
<1>1. /\ at[l] = "recv" /\ Cur(l) = Server /\ sock[Server].open /\ Over(Server) /\ net' = AfterClose(Server)
      /\ Handled(l) /\ session' = "erased"
      /\ UNCHANGED <<received_msg, pending_data, large_message, total_sent, wr, cb, link>>
  BY DEF ServerDisconnected, EndOfStream, SessionBecomes
<1>2. batch[l] # <<>> /\ Head(batch[l]) = ReadServer /\ LoopOf[Server] = l
  BY <1>1, HeadOfBatch DEF ReadServer
<1>3. batch[l] \in Seq(Events)
  BY DEF LInv, LoopTypes
<1>4. InBatch(l, ReadServer)
  <2>1. 1 \in DOMAIN batch[l] /\ batch[l][1] = Head(batch[l])
    BY <1>2, <1>3, HeadAndTail
  <2> QED BY <1>2, <2>1 DEF InBatch
<1>5. session # "none" /\ session # "erased"
  BY <1>1, <1>2, <1>4 DEF AcceptedOnce, Destroyed, ServerEvents, ServerLoop
<1>6. batch'[l] = Tail(batch[l]) /\ at'[l] = "next"
  BY <1>1, <1>2, HandledBatch
<1>7. session = "open"
  BY <1>5 DEF AcceptedOnce
<1> QED BY <1>1, <1>2, <1>6, <1>7 DEF ServerLoop, CollectEvents, Collect

(* The counts are numbers. *)
LEMMA Counts ==
  ASSUME DataTypes, Buffers
  PROVE  /\ InNet \in Nat /\ Taken \in Nat /\ Kept \in Nat /\ Len(received_msg) \in Nat /\ Len(large_message) \in Nat
         /\ total_sent \in Nat
         /\ \A l \in Loops : /\ Rest(l) \in Seq(Nat) /\ Len(Rest(l)) \in Nat
                             /\ Len(Rest(l)) = Len(wr[l].buf) - wr[l].sent
                             /\ wr[l].buf \in Seq(Nat) /\ wr[l].sent \in Nat /\ Len(wr[l].buf) \in Nat
<1>1. ASSUME NEW l \in Loops
      PROVE  /\ Rest(l) \in Seq(Nat) /\ Len(Rest(l)) \in Nat
             /\ Len(Rest(l)) = Len(wr[l].buf) - wr[l].sent
             /\ wr[l].buf \in Seq(Nat) /\ wr[l].sent \in Nat /\ Len(wr[l].buf) \in Nat
  <2> DEFINE q == wr[l].buf
             n == wr[l].sent
  <2>1. q \in Seq(Nat) /\ n \in Nat /\ n <= Len(q)
    BY DEF DataTypes, Writing, Buffers
  <2>2. Rest(l) = SubSeq(q, n + 1, Len(q))
    BY DEF Rest, Drop
  <2> HIDE DEF q, n
  <2>3. Rest(l) \in Seq(Nat) /\ Len(Rest(l)) = Len(q) - n
    <3>1. SubSeq(q, n + 1, Len(q)) \in Seq(Nat) /\ Len(SubSeq(q, n + 1, Len(q))) = Len(q) - n
      BY <2>1, Pieces
    <3> QED BY <2>2, <3>1
  <2>4. Len(Rest(l)) \in Nat /\ Len(q) \in Nat
    BY <2>1, <2>3, LenProperties
  <2> QED BY <2>1, <2>3, <2>4 DEF q, n
<1>2. net \in [Ends -> End] /\ Client \in Ends
  BY SocksOfEnds DEF DataTypes
<1>3. InNet \in Nat
  <2>1. Size(net[Client]) \in Nat /\ Size(net[Server]) \in Nat
    BY <1>2, SocksOfEnds, Sizes
  <2> QED BY <2>1 DEF InNet
<1>4. Len(received_msg) \in Nat /\ Len(large_message) \in Nat /\ Len(pending_data) \in Nat /\ total_sent \in Nat
  BY LenProperties DEF DataTypes, Buffers
<1>5. Kept \in Nat
  BY <1>1, <1>4, Loopy DEF Kept
<1>6. Taken \in Nat
  BY <1>1, <1>4, Loopy DEF Taken
<1> QED BY <1>1, <1>3, <1>4, <1>5, <1>6

LEMMA ListenerOwns == Listener \in Socks /\ LoopOf[Listener] = ServerLoop /\ LoopOf[Server] = ServerLoop
  BY DEF Socks, ServerLoop

LEMMA AcceptedOnceHolds ==
  ASSUME LInv, DataTypes, Single, AcceptedOnce, Destroyed, [Next]_vars
  PROVE  AcceptedOnce'
<1>0. AppMoves /\ ServerLoop \in Loops /\ Server \in Ends
  BY StepMoves, Loopy, SocksOfEnds
<1>1. ASSUME NEW l \in Loops, Accept(l) PROVE AcceptedOnce'
  <2>1. /\ l = ServerLoop /\ session' = "open" /\ link' = "up" /\ ~sock[Listener].edge /\ ~InBatch(ServerLoop, Knock)'
    BY <1>1, AcceptsKnock, HandledOnce
  <2>2. sock'[Listener] = sock[Listener]
    BY <1>1, AcceptOpens
  <2> QED BY <2>1, <2>2 DEF AcceptedOnce
<1>2. CASE \A l \in Loops : ~Accept(l)
  <2>1. Settled
    BY <1>2, StepCalm
  <2>2. session' # "none" => session # "none"
    BY <1>0, <1>2, DisconnectsServer DEF AppMoves
  <2>3. session' = "none" => session = "none"
    BY <1>0, <1>2, DisconnectsServer DEF AppMoves
  <2>4. session' \in {"none", "open", "erased"}
    BY <1>0, <1>2, DisconnectsServer DEF AppMoves, AcceptedOnce
  <2>5. session' # "none" => link' = "up" /\ ~sock'[Listener].edge
    BY <1>0, <2>1, <2>2 DEF AppMoves, AcceptedOnce, Settled
  <2>6. InBatch(ServerLoop, Knock)' => session' = "none" /\ link' = "up" /\ ~sock'[Listener].edge
    <3>1. CASE CollectEvents(ServerLoop) /\ InBatch(ServerLoop, Knock)'
      <4>1. Readable(Listener) /\ UNCHANGED <<session, link>>
        BY <3>1, ListenerOwns, ReturnedOfSocket, <1>0 DEF Knock, CollectEvents, linkVars, appVars
      <4>2. session = "none" /\ link = "up"
        BY <4>1 DEF Readable
      <4>3. ~sock'[Listener].edge
        BY <1>0, <3>1, ListenerOwns, CollectTakes DEF Knock
      <4> QED BY <4>1, <4>2, <4>3
    <3>2. CASE InBatch(ServerLoop, Knock)
      <4>1. session = "none" /\ link = "up" /\ ~sock[Listener].edge
        BY <3>2 DEF AcceptedOnce
      <4> QED BY <1>0, <2>1, <2>2, <4>1 DEF AppMoves, Settled
    <3> QED BY <1>0, <3>1, <3>2, StaysInBatch DEF Knock
  <2>7. session' = "none" => ~sock'[Server].open /\ \A e \in ServerEvents : ~InBatch(ServerLoop, e)'
    <3> SUFFICES ASSUME session = "none" PROVE ~sock'[Server].open /\ \A e \in ServerEvents : ~InBatch(ServerLoop, e)'
      BY <2>3
    <3>1. ~sock[Server].open /\ ~sock'[Server].open
      BY <1>0, <2>1 DEF AcceptedOnce, Settled
    <3>2. ASSUME NEW f \in {"READ", "WRITE"}, InBatch(ServerLoop, Event(f, Server))' PROVE FALSE
      <4>1. InBatch(ServerLoop, Event(f, Server))
        BY <1>0, <3>1, <3>2, ReturnedOfSocket, StaysInBatch, SocksOfEnds
      <4>2. Event(f, Server) \in ServerEvents
        BY DEF ServerEvents, ReadServer, WriteServer
      <4> QED BY <4>1, <4>2 DEF AcceptedOnce
    <3> QED BY <3>1, <3>2 DEF ServerEvents, ReadServer, WriteServer
  <2> QED BY <2>4, <2>5, <2>6, <2>7 DEF AcceptedOnce
<1> QED BY <1>1, <1>2

(* Nothing of the destroyed socket comes back into the batch. *)
LEMMA DestroyedStays ==
  ASSUME LInv, DataTypes, AcceptedOnce, Destroyed, [Next]_vars, session = "erased"
  PROVE  Destroyed'
<1>0. AppMoves /\ ServerLoop \in Loops /\ Server \in Ends /\ Client \in Ends
  BY StepMoves, Loopy, SocksOfEnds
<1>1. \A l \in Loops : ~Accept(l) /\ ~ServerDisconnected(l)
  BY AcceptsKnock, DisconnectsServer
<1>2. Settled /\ session' = "erased"
  BY <1>0, <1>1, StepCalm DEF AppMoves
<1>3. ~sock[Server].open /\ ~sock'[Server].open
  BY <1>0, <1>2 DEF Destroyed, Settled
<1>4. CASE received_msg # large_message /\ ~sock[Client].open
  BY <1>0, <1>2, <1>3, <1>4 DEF AppMoves, Settled, Destroyed
<1>5. CASE \A e \in ServerEvents : ~InBatch(ServerLoop, e)
  <2>1. ASSUME NEW f \in {"READ", "WRITE"}, InBatch(ServerLoop, Event(f, Server))' PROVE FALSE
    <3>1. InBatch(ServerLoop, Event(f, Server))
      BY <1>0, <1>3, <2>1, ReturnedOfSocket, StaysInBatch, SocksOfEnds
    <3>2. Event(f, Server) \in ServerEvents
      BY DEF ServerEvents, ReadServer, WriteServer
    <3> QED BY <1>5, <3>1, <3>2
  <2>2. \A e \in ServerEvents : ~InBatch(ServerLoop, e)'
    BY <2>1 DEF ServerEvents, ReadServer, WriteServer
  <2> QED BY <1>3, <2>2 DEF Destroyed, ServerEvents, ReadServer, WriteServer
<1> QED BY <1>4, <1>5 DEF Destroyed

(* on_disconnected: when a WRITE event still waits, the session has bytes  *)
(* that the client, which has left, will never have.                       *)
LEMMA DestroyedNow ==
  ASSUME LInv, DataTypes, Bytes, Single, AcceptedOnce, AskedFor, ClientLeft, Destroyed, [Next]_vars,
         NEW l \in Loops, ServerDisconnected(l)
  PROVE  Destroyed'
<1>0. /\ l = ServerLoop /\ batch[l] # <<>> /\ Head(batch[l]) = ReadServer /\ batch'[l] = Tail(batch[l])
      /\ session = "open" /\ session' = "erased" /\ at[l] = "recv" /\ at'[l] = "next"
      /\ sock[Server].open /\ Over(Server) /\ ~CollectEvents(l)
      /\ UNCHANGED <<received_msg, large_message>>
  BY DisconnectsServer
<1>1. Settled /\ Server \in Ends /\ Client \in Ends /\ Client # Server
  BY ReadCalm, SocksOfEnds DEF Calm
<1>2. ~sock'[Server].open
  BY ServerClosesTells
<1>3. ~InBatch(ServerLoop, ReadServer)'
  BY <1>0, HandledOnce
<1>4. CASE ~InBatch(ServerLoop, WriteServer)'
  BY <1>2, <1>3, <1>4 DEF Destroyed, ServerEvents, ReadServer, WriteServer
<1>5. CASE InBatch(ServerLoop, WriteServer)'
  <2>1. WriteWaits'
    BY <1>0, <1>5 DEF WriteWaits, InBatch
  <2>2. pending_data # <<>>
    BY <1>0, <2>1, StillWaits DEF AskedFor
  <2>3. ~Writes(Server)
    BY <1>0 DEF Writes, ServerLoop
  <2>4. Len(received_msg) # Len(large_message)
    <3> DEFINE a == Len(received_msg)
               k == Len(pending_data)
               m == Len(large_message)
    <3>1. a + k + InNet <= Taken /\ Taken <= m
      BY <2>3 DEF Bytes, NoBytesMade, Kept
    <3>2. a \in Nat /\ k \in Nat /\ k # 0 /\ m \in Nat
      BY <2>2, LenProperties, EmptySeq DEF Bytes, Buffers, DataTypes
    <3>3. InNet \in Nat /\ Taken \in Nat
      BY Counts DEF Bytes
    <3> HIDE DEF a, k, m
    <3>4. a # m
      BY <3>1, <3>2, <3>3
    <3> QED BY <3>4 DEF a, m
  <2>5. ~sock[Client].open
    BY <1>0, <1>1 DEF Over, ClientLeft
  <2> QED BY <1>0, <1>1, <1>2, <2>4, <2>5 DEF Destroyed, Settled
<1> QED BY <1>4, <1>5

(* Only the two programs close, and each tells the other. *)
LEMMA FlagsStay ==
  ASSUME LInv, DataTypes, [Next]_vars, ~Kernel(LinkStep), ~ClientClose, \A l \in Loops : ~ServerDisconnected(l)
  PROVE  \A r \in Ends : net'[r].closed = net[r].closed /\ net'[r].eof = net[r].eof /\ net'[r].reset = net[r].reset
<1> DEFINE Same == \A r \in Ends : /\ net'[r].closed = net[r].closed /\ net'[r].eof = net[r].eof
                                   /\ net'[r].reset = net[r].reset
<1>1. ASSUME NEW l \in Loops, Thread(l) PROVE Same
  <2>1. CASE UNCHANGED net
    BY <2>1
  <2>2. CASE RecvFails(l) \/ SendEnds(l)
    <3>1. Cur(l) \in Ends /\ (net' = [net EXCEPT ![Cur(l)].err = FALSE] \/ net' = net)
      BY <2>2, HeadOfBatch DEF RecvFails, SendEnds, Sending
    <3> QED BY <3>1, ErrMoves
  <2>3. CASE ClientReceived(l) \/ ServerReceived(l)
    BY <2>3, RecvMoves, SocksOfEnds DEF ClientReceived, ServerReceived, RecvData
  <2>4. CASE SendSome(l)
    <3>1. Cur(l) \in Ends /\ SubSeq(Rest(l), 1, Amount(l)) \in Seq(Nat)
      BY <2>4, HeadOfBatch, SentPiece DEF SendSome, Sending
    <3> QED BY <2>4, <3>1, SendMoves DEF SendSome
  <2>5. CASE ConnectFailed(l)
    BY <2>5, ErrMoves, SocksOfEnds DEF ConnectFailed
  <2>6. CASE Connect \/ EnterLoop(l) \/ CollectEvents(l) \/ BeginRecv(l)
             \/ (LoopStep(l) /\ UNCHANGED <<linkVars, appVars, sockVars, load>>)
    BY <2>1, <2>6 DEF Connect, EnterLoop, CollectEvents, BeginRecv, linkVars
  <2> QED BY <1>1, <2>1, <2>2, <2>3, <2>4, <2>5, <2>6
          DEF Thread, ClientApp, ServerApp, ClientDisconnected, Connected, ClientSent, ClientWroteFirst, ClientWroteOn,
              Accept, ServerSent, ServerEchoed, ServerWroteOn, Wrote, linkVars
<1>2. CASE (Outside /\ UNCHANGED <<linkVars, appVars, sockVars, load>>) \/ UNCHANGED vars
  BY <1>2 DEF linkVars, vars
<1> QED BY <1>1, <1>2 DEF Next

LEMMA ClientLeftHolds ==
  ASSUME LInv, DataTypes, AcceptedOnce, Destroyed, ClientLeft, [Next]_vars
  PROVE  ClientLeft'
<1>0. /\ AppMoves /\ Server \in Ends /\ Client \in Ends /\ Client # Server
      /\ Peer(Server) = Client /\ Peer(Client) = Server
  BY StepMoves, SocksOfEnds DEF Peer
<1>1. sock'[Client].open => sock[Client].open
  <2>1. CASE \E l \in Loops : Accept(l)
    BY <2>1, AcceptOpens
  <2>2. CASE \A l \in Loops : ~Accept(l)
    BY <1>0, <2>2, StepCalm DEF Settled
  <2> QED BY <2>1, <2>2
<1>2. session' # "erased" => session # "erased"
  BY <1>0, AcceptsKnock, DisconnectsServer DEF AppMoves
<1>3. CASE ClientClose
  <2>1. net' = AfterClose(Client) /\ sock' = Raised([sock EXCEPT ![Client] = Gone(Client)])
        /\ UNCHANGED <<wr, large_message, total_sent, pending_data>>
    BY <1>3 DEF ClientClose, SetUp, appVars
  <2>2. Gone(Client) \in Sock /\ ~Gone(Client).open
    BY <1>0, GoneIs, SocksOfEnds DEF DataTypes
  <2>3. ~sock'[Client].open
    BY <1>0, <2>1, <2>2, CloseTells
  <2>4. net'[Client].closed
    BY <1>0, <2>1, CloseMoves
  <2> QED BY <2>3, <2>4 DEF ClientLeft
<1>4. ASSUME NEW l \in Loops, ServerDisconnected(l) PROVE ClientLeft'
  <2>1. net'[Client].closed = net[Client].closed /\ session' = "erased"
    BY <1>0, <1>4, CloseMoves, DisconnectsServer
  <2> QED BY <1>1, <2>1 DEF ClientLeft
<1>5. CASE Kernel(LinkStep)
  <2>1. \A r \in Ends : /\ net'[r].closed = net[r].closed
                        /\ net'[r].eof \/ net'[r].reset => net[r].eof \/ net[r].reset \/ net[Peer(r)].closed
    BY <1>5, LinkMoves DEF Kernel
  <2> QED BY <1>0, <1>1, <1>2, <2>1 DEF ClientLeft
<1>6. CASE ~Kernel(LinkStep) /\ ~ClientClose /\ \A l \in Loops : ~ServerDisconnected(l)
  <2>1. \A r \in Ends : net'[r].closed = net[r].closed /\ net'[r].eof = net[r].eof /\ net'[r].reset = net[r].reset
    BY <1>6, FlagsStay
  <2> QED BY <1>0, <1>1, <1>2, <2>1 DEF ClientLeft
<1> QED BY <1>3, <1>4, <1>5, <1>6

-----------------------------------------------------------------------------
(* Who is in so_write *)

InWrite(l) == at[l] \in {"send", "sent"}

(* What is written for p is not touched by the step. *)
Untouched(p) ==
    /\ Writes(p)' <=> Writes(p)
    /\ Writes(p) => wr'[LoopOf[p]] = wr[LoopOf[p]] /\ cb'[LoopOf[p]] = cb[LoopOf[p]]
AtStays(p) == Writes(p) => at'[LoopOf[p]] = at[LoopOf[p]]

(* A thread leaves the other loops alone. *)
LEMMA OneThread ==
  ASSUME LInv, DataTypes, NEW m \in Loops, Thread(m), NEW l \in Loops, l # m
  PROVE  at'[l] = at[l] /\ batch'[l] = batch[l] /\ wr'[l] = wr[l] /\ cb'[l] = cb[l]
<1>0. /\ at \in [Loops -> Places] /\ batch \in [Loops -> Seq(Events)]
      /\ wr \in [Loops -> Writing] /\ cb \in [Loops -> {"none", "on_received", "on_connected", "on_sent"}]
  BY DEF LInv, LoopTypes, DataTypes
<1>1. at'[l] = at[l] /\ batch'[l] = batch[l]
  <2>1. BatchStep(m)
    BY ThreadBatch
  <2> QED BY <1>0, <2>1 DEF BatchStep, CollectEvents, Collect, Threw, Handled
<1>2. UNCHANGED <<cb, wr>> \/ (wr'[l] = wr[l] /\ cb'[l] = cb[l])
  <2>1. CASE UNCHANGED <<cb, wr>>
    BY <2>1
  <2>2. CASE \E name \in {"on_connected", "on_received", "on_sent"} : \E buf : BeginWrite(m, name, buf)
    BY <1>0, <2>2 DEF BeginWrite
  <2>3. CASE SendSome(m)
    BY <1>0, <2>3 DEF SendSome, Sending
  <2>4. CASE \E s, name : Wrote(m, s, name)
    BY <1>0, <2>4 DEF Wrote
  <2>5. CASE ClientApp(m)
    BY <2>1, <2>2, <2>4, <2>5 DEF ClientApp, ClientReceived, ClientDisconnected, EndOfStream, ConnectFailed, Connected,
                                  ClientSent, ClientWroteFirst, ClientWroteOn
  <2>6. CASE ServerApp(m)
    BY <2>1, <2>2, <2>4, <2>6 DEF ServerApp, Accept, ServerReceived, ServerDisconnected, EndOfStream, ServerSent,
                                  ServerEchoed, ServerWroteOn
  <2>7. CASE SendEnds(m) \/ BeginRecv(m) \/ RecvFails(m) \/ CollectEvents(m) \/ EnterLoop(m) \/ Connect \/ ClientClose
             \/ (LoopStep(m) /\ UNCHANGED <<linkVars, appVars, sockVars, load>>)
    BY <2>7 DEF SendEnds, Sending, BeginRecv, RecvFails, CollectEvents, EnterLoop, Connect, ClientClose, SetUp, sockVars
  <2> QED BY <2>3, <2>5, <2>6, <2>7 DEF Thread
<1> QED BY <1>1, <1>2

LEMMA NotWriting ==
  ASSUME LInv, DataTypes, NEW m \in Loops, Thread(m), NEW p \in Ends,
         ~InWrite(m) \/ Cur(m) # p,
         at'[m] \notin {"send", "sent"} \/ (batch'[m] = batch[m] /\ Cur(m) # p)
  PROVE  Untouched(p) /\ AtStays(p)
<1>1. CASE LoopOf[p] = m
  <2>1. ~Writes(p) /\ ~Writes(p)'
    BY <1>1 DEF Writes, InWrite, Cur
  <2> QED BY <2>1 DEF Untouched, AtStays
<1>2. CASE LoopOf[p] # m
  <2> DEFINE l == LoopOf[p]
  <2>1. l \in Loops
    BY SocksOfEnds
  <2>2. at'[l] = at[l] /\ batch'[l] = batch[l] /\ wr'[l] = wr[l] /\ cb'[l] = cb[l]
    BY <1>2, <2>1, OneThread
  <2> QED BY <2>2 DEF Untouched, AtStays, Writes, Cur
<1> QED BY <1>1, <1>2

(* The steps of a thread outside so_write, and those of nobody. *)
LEMMA IdleStep ==
  ASSUME LInv, DataTypes, NEW p \in Ends,
         \/ \E m \in Loops : Thread(m) /\ ~InWrite(m) /\ at'[m] \notin {"send", "sent"}
         \/ UNCHANGED <<at, batch, cb, wr>>
  PROVE  Untouched(p) /\ AtStays(p)
<1>1. CASE UNCHANGED <<at, batch, cb, wr>>
  BY <1>1 DEF Untouched, AtStays, Writes, Cur
<1> QED BY <1>1, NotWriting

-----------------------------------------------------------------------------
(* The count of bytes, step by step *)

Numbers ==
    /\ InNet \in Nat /\ Taken \in Nat /\ Kept \in Nat /\ Len(received_msg) \in Nat
    /\ \A l \in Loops : Len(Rest(l)) \in Nat /\ Len(Rest(l)) = Len(wr[l].buf) - wr[l].sent

LEMMA NumbersHold == DataTypes /\ Buffers => Numbers
  BY Counts DEF Numbers

LEMMA NumbersNext == (DataTypes /\ Buffers => Numbers)'
  BY NumbersHold, PTL

LEMMA KeptStays == Untouched(Server) /\ UNCHANGED pending_data => Kept' = Kept
  BY DEF Kept, Untouched, Rest, ServerLoop

LEMMA TakenStays == Untouched(Client) /\ UNCHANGED total_sent => Taken' = Taken
  BY DEF Taken, Untouched, ClientLoop

(* A count that does not grow while what is taken does not shrink. *)
LEMMA Counted ==
  ASSUME DataTypes, Bytes, DataTypes', Buffers', UNCHANGED large_message,
         (Len(received_msg') + Kept' + InNet') + Taken <= (Len(received_msg) + Kept + InNet) + Taken',
         total_sent' <= Len(large_message)
  PROVE  NoBytesMade'
<1> DEFINE a == Len(received_msg)
           b == Len(received_msg')
           m == Len(large_message)
           c == wr'[ClientLoop].sent
           d == Len(wr'[ClientLoop].buf)
           i == InNet'
           k == Kept'
           t == Taken'
<1>1. a \in Nat /\ m \in Nat /\ InNet \in Nat /\ Kept \in Nat /\ Taken \in Nat
  BY Counts DEF Bytes
<1>2. b \in Nat /\ i \in Nat /\ k \in Nat /\ t \in Nat
  BY NumbersNext DEF Numbers
<1>3. a + Kept + InNet <= Taken
  BY DEF Bytes, NoBytesMade
<1>4. (b + k + i) + Taken <= (a + Kept + InNet) + t
  OBVIOUS
<1>5. t <= m
  <2>1. total_sent' \in Nat /\ c \in Nat /\ d \in Nat /\ Len(large_message') = m
    <3>1. wr'[ClientLoop] \in Writing
      BY Loopy DEF DataTypes
    <3> QED BY <3>1, LenProperties DEF DataTypes, Writing
  <2>2. CASE Writes(Client)'
    <3>1. t = total_sent' + c
      BY <2>2 DEF Taken
    <3>2. c <= d /\ d = m - total_sent'
      BY <2>1, <2>2, Loopy DEF Buffers
    <3>3. total_sent' \in Nat /\ c \in Nat /\ d \in Nat /\ m \in Nat
      BY <1>1, <2>1
    <3> DEFINE u == total_sent'
    <3> HIDE DEF c, d, m, t, u
    <3>4. t = u + c /\ c <= d /\ d = m - u /\ u \in Nat
      BY <3>1, <3>2, <3>3 DEF u
    <3> QED BY <3>3, <3>4
  <2>3. CASE ~Writes(Client)'
    <3>1. t = total_sent' + 0
      BY <2>3 DEF Taken
    <3> QED BY <2>1, <3>1
  <2> QED BY <2>2, <2>3
<1>6. b + k + i <= t
  <2> HIDE DEF a, b, i, k, t, m
  <2> QED BY <1>1, <1>2, <1>3, <1>4
<1>7. Len(received_msg') + Kept' + InNet' <= Taken' /\ Taken' <= Len(large_message')
  BY <1>5, <1>6
<1> QED BY <1>7 DEF NoBytesMade

LEMMA TotalBound == DataTypes /\ Bytes => total_sent <= Len(large_message)
<1> SUFFICES ASSUME DataTypes, Bytes PROVE total_sent <= Len(large_message)
  OBVIOUS
<1> DEFINE m == Len(large_message)
           n == wr[ClientLoop].sent
<1>1. total_sent \in Nat /\ m \in Nat /\ Taken \in Nat /\ n \in Nat
  BY Counts, Loopy DEF Bytes
<1>2. Taken <= m
  BY DEF Bytes, NoBytesMade
<1>3. Taken = total_sent + n \/ Taken = total_sent + 0
  BY DEF Taken
<1> HIDE DEF m, n
<1>4. total_sent <= m
  BY <1>1, <1>2, <1>3
<1> QED BY <1>4 DEF m

(* What a loop that is not in so_write does to the bytes of the kernel and *)
(* of the two programs.                                                    *)
LEMMA IdleCounts ==
  ASSUME DataTypes, Bytes, DataTypes', Untouched(Client), Untouched(Server),
         UNCHANGED <<large_message, total_sent, wr>>, received_msg' \in Seq(Nat),
         pending_data' = pending_data \/ ~Writes(Server),
         (Len(received_msg') + Len(pending_data')) + InNet' <= (Len(received_msg) + Len(pending_data)) + InNet
  PROVE  Bytes'
<1>1. Buffers'
  <2>1. \A l \in Loops : wr'[l].sent <= Len(wr'[l].buf)
    BY DEF Bytes, Buffers
  <2>2. Writes(Client)' => Len(wr'[ClientLoop].buf) = Len(large_message') - total_sent'
    BY DEF Bytes, Buffers, Untouched
  <2>3. Writes(Server)' /\ cb'[ServerLoop] = "on_received" => pending_data' = <<>>
    BY DEF Bytes, Buffers, Untouched, ServerLoop
  <2> QED BY <2>1, <2>2, <2>3 DEF Buffers
<1>2. Taken' = Taken
  BY TakenStays
<1>3. (Len(received_msg') + Kept' + InNet') <= (Len(received_msg) + Kept + InNet)
  <2> DEFINE a == Len(received_msg)
             b == Len(received_msg')
             c == Len(pending_data)
             d == Len(pending_data')
             r == Len(Rest(ServerLoop))
             i == InNet'
  <2>1. /\ a \in Nat /\ b \in Nat /\ c \in Nat /\ d \in Nat /\ InNet \in Nat /\ i \in Nat /\ r \in Nat
    <3>1. a \in Nat /\ InNet \in Nat /\ r \in Nat
      BY Counts, Loopy DEF Bytes
    <3>2. b \in Nat /\ i \in Nat
      BY <1>1, NumbersNext DEF Numbers
    <3>3. c \in Nat /\ d \in Nat
      BY LenProperties DEF DataTypes
    <3> QED BY <3>1, <3>2, <3>3
  <2>2. (b + d) + i <= (a + c) + InNet
    OBVIOUS
  <2>3. CASE Writes(Server)
    <3>1. Kept = r /\ Kept' = r /\ d = c
      BY <2>3 DEF Kept, Untouched, Rest
    <3> HIDE DEF a, b, c, d, r, i
    <3>2. b + r + i <= a + r + InNet
      BY <2>1, <2>2, <3>1
    <3> QED BY <3>1, <3>2 DEF a, b, i
  <2>4. CASE ~Writes(Server)
    <3>1. Kept = c /\ Kept' = d
      BY <2>4 DEF Kept, Untouched
    <3> HIDE DEF a, b, c, d, r, i
    <3>2. b + d + i <= a + c + InNet
      BY <2>1, <2>2
    <3> QED BY <3>1, <3>2 DEF a, b, i
  <2> QED BY <2>3, <2>4
<1>4. (Len(received_msg') + Kept' + InNet') + Taken <= (Len(received_msg) + Kept + InNet) + Taken'
  <2> DEFINE x == Len(received_msg) + Kept + InNet
             y == Len(received_msg') + Kept' + InNet'
  <2>1. x \in Nat /\ y \in Nat /\ Taken \in Nat
    <3>1. Len(received_msg) \in Nat /\ Kept \in Nat /\ InNet \in Nat /\ Taken \in Nat
      BY Counts DEF Bytes
    <3>2. Len(received_msg') \in Nat /\ Kept' \in Nat /\ InNet' \in Nat
      BY <1>1, NumbersNext DEF Numbers
    <3> QED BY <3>1, <3>2
  <2> HIDE DEF x, y
  <2>2. y <= x
    BY <1>3 DEF x, y
  <2>3. y + Taken <= x + Taken
    BY <2>1, <2>2
  <2> QED BY <1>2, <2>3 DEF x, y
<1>5. total_sent' <= Len(large_message)
  BY TotalBound
<1> QED BY <1>1, <1>4, <1>5, Counted DEF Bytes

(* on_connected and on_sent of the client write all that is left.          *)
LEMMA ClientBegins ==
  ASSUME DataTypes, Bytes, DataTypes', ~Writes(Client), Writes(Client)', Untouched(Server),
         wr' = [wr EXCEPT ![ClientLoop] = [buf |-> Unwritten, sent |-> 0]], UNCHANGED <<net, appVars>>
  PROVE  Bytes'
<1> DEFINE l == ClientLoop
<1>0. l \in Loops /\ wr \in [Loops -> Writing]
  BY Loopy DEF DataTypes
<1>1. wr'[l].buf = Unwritten /\ wr'[l].sent = 0 /\ \A m \in Loops \ {l} : wr'[m] = wr[m]
  BY <1>0
<1>2. Unwritten \in Seq(Nat) /\ Len(Unwritten) \in Nat /\ Len(Unwritten) = Len(large_message) - total_sent
  <2>1. large_message \in Seq(Nat) /\ total_sent \in Nat /\ total_sent <= Len(large_message)
    BY TotalBound DEF DataTypes
  <2>2. Unwritten \in Seq(Nat) /\ Len(Unwritten) = Len(large_message) - total_sent
    BY <2>1, Pieces DEF Unwritten
  <2> QED BY <2>2, LenProperties
<1>3. Buffers'
  <2>1. \A m \in Loops : wr'[m].sent <= Len(wr'[m].buf)
    BY <1>1, <1>2 DEF Bytes, Buffers
  <2>2. Len(wr'[ClientLoop].buf) = Len(large_message') - total_sent'
    BY <1>1, <1>2 DEF appVars
  <2>3. received_msg' \in Seq(Nat)
    BY DEF Bytes, Buffers, appVars
  <2>4. Writes(Server)' /\ cb'[ServerLoop] = "on_received" => pending_data' = <<>>
    BY DEF Bytes, Buffers, Untouched, ServerLoop, appVars
  <2> QED BY <2>1, <2>2, <2>3, <2>4 DEF Buffers
<1>4. Taken = total_sent /\ Taken' = total_sent + 0 /\ total_sent \in Nat
  BY <1>1 DEF Taken, appVars, DataTypes
<1>5. Kept' = Kept /\ InNet' = InNet /\ Len(received_msg') = Len(received_msg)
  BY KeptStays DEF appVars, InNet, Size
<1>6. (Len(received_msg') + Kept' + InNet') + Taken <= (Len(received_msg) + Kept + InNet) + Taken'
  <2> DEFINE x == Len(received_msg) + Kept + InNet
  <2>1. x \in Nat
    BY Counts DEF Bytes
  <2> HIDE DEF x
  <2>2. x + Taken <= x + Taken'
    BY <1>4, <2>1
  <2> QED BY <1>5, <2>2 DEF x
<1>7. total_sent' <= Len(large_message) /\ UNCHANGED large_message
  BY TotalBound DEF appVars
<1> QED BY <1>3, <1>6, <1>7, Counted DEF Bytes

(* on_received and on_sent of the server write what has come.              *)
LEMMA ServerBegins ==
  ASSUME DataTypes, Bytes, DataTypes', ~Writes(Server), Writes(Server)', Untouched(Client), NEW q \in Seq(Nat),
         wr' = [wr EXCEPT ![ServerLoop] = [buf |-> q, sent |-> 0]],
         UNCHANGED <<large_message, total_sent, received_msg>>,
         InNet' + Len(q) <= InNet + Len(pending_data),
         cb'[ServerLoop] = "on_received" => pending_data' = <<>>
  PROVE  Bytes'
<1> DEFINE l == ServerLoop
<1>0. l \in Loops /\ wr \in [Loops -> Writing] /\ Len(q) \in Nat
  BY Loopy, LenProperties DEF DataTypes
<1>1. wr'[l].buf = q /\ wr'[l].sent = 0 /\ \A m \in Loops \ {l} : wr'[m] = wr[m]
  BY <1>0
<1>2. Buffers'
  <2>1. \A m \in Loops : wr'[m].sent <= Len(wr'[m].buf)
    BY <1>0, <1>1 DEF Bytes, Buffers
  <2>2. Writes(Client)' => Len(wr'[ClientLoop].buf) = Len(large_message') - total_sent'
    BY DEF Bytes, Buffers, Untouched, ClientLoop
  <2>3. received_msg' \in Seq(Nat)
    BY DEF Bytes, Buffers
  <2> QED BY <2>1, <2>2, <2>3 DEF Buffers
<1>3. Taken' = Taken
  BY TakenStays
<1>4. (Len(received_msg') + Kept' + InNet') + Taken <= (Len(received_msg) + Kept + InNet) + Taken'
  <2> DEFINE a == Len(received_msg)
             c == Len(pending_data)
             k == Kept'
             i == InNet'
             n == Len(q)
  <2>1. a \in Nat /\ InNet \in Nat /\ Taken \in Nat
    BY Counts DEF Bytes
  <2>2. k = n /\ Kept = c
    <3>1. Len(Rest(l)') = Len(wr'[l].buf) - wr'[l].sent
      BY <1>0, <1>2, NumbersNext DEF Numbers
    <3>2. k = Len(Rest(l)')
      BY DEF Kept
    <3> QED BY <1>0, <1>1, <3>1, <3>2 DEF Kept
  <2>3. i \in Nat /\ c \in Nat
    BY <1>2, NumbersNext, LenProperties DEF Numbers, DataTypes
  <2>4. i + n <= InNet + c
    OBVIOUS
  <2> HIDE DEF a, c, k, i, n
  <2>5. (a + k + i) + Taken <= (a + Kept + InNet) + Taken
    BY <1>0, <2>1, <2>2, <2>3, <2>4 DEF n
  <2> QED BY <1>3, <2>5 DEF a, k, i
<1>5. total_sent' <= Len(large_message)
  BY TotalBound
<1> QED BY <1>2, <1>4, <1>5, Counted DEF Bytes

(* send has taken n bytes. *)
LEMMA SentMore ==
  ASSUME DataTypes, Buffers, DataTypes', NEW l \in Loops, NEW n \in Nat, n <= Len(Rest(l)),
         wr' = [wr EXCEPT ![l].sent = @ + n]
  PROVE  /\ wr'[l].buf = wr[l].buf /\ wr'[l].sent = wr[l].sent + n /\ \A m \in Loops \ {l} : wr'[m] = wr[m]
         /\ \A m \in Loops : wr'[m].sent <= Len(wr'[m].buf)
<1>1. wr \in [Loops -> Writing]
  BY DEF DataTypes
<1>2. wr'[l].buf = wr[l].buf /\ wr'[l].sent = wr[l].sent + n /\ \A m \in Loops \ {l} : wr'[m] = wr[m]
  <2> DEFINE w == [wr[l] EXCEPT !.sent = @ + n]
  <2>1. wr' = [wr EXCEPT ![l] = w]
    OBVIOUS
  <2>2. w.buf = wr[l].buf /\ w.sent = wr[l].sent + n
    BY <1>1 DEF Writing
  <2> HIDE DEF w
  <2> QED BY <1>1, <2>1, <2>2
<1>3. wr[l].sent + n <= Len(wr[l].buf)
  <2> DEFINE a == wr[l].sent
             b == Len(wr[l].buf)
             r == Len(Rest(l))
  <2>1. a \in Nat /\ b \in Nat /\ r = b - a /\ n <= r
    BY Counts
  <2> HIDE DEF a, b, r
  <2>2. a + n <= b
    BY <2>1
  <2> QED BY <2>2 DEF a, b
<1>4. \A m \in Loops : wr'[m].sent <= Len(wr'[m].buf)
  BY <1>2, <1>3 DEF Buffers
<1> QED BY <1>2, <1>4

LEMMA ClientSends ==
  ASSUME DataTypes, Bytes, DataTypes', Writes(Client), Writes(Client)', Untouched(Server),
         NEW n \in Nat, n <= Len(Rest(ClientLoop)),
         wr' = [wr EXCEPT ![ClientLoop].sent = @ + n], UNCHANGED appVars, InNet' = InNet + n
  PROVE  Bytes'
<1> DEFINE l == ClientLoop
<1>0. l \in Loops /\ Buffers
  BY Loopy DEF Bytes
<1>1. /\ wr'[l].buf = wr[l].buf /\ wr'[l].sent = wr[l].sent + n
      /\ \A m \in Loops : wr'[m].sent <= Len(wr'[m].buf)
  BY <1>0, SentMore
<1>2. Buffers'
  <2>1. Len(wr'[ClientLoop].buf) = Len(large_message') - total_sent'
    BY <1>0, <1>1 DEF Buffers, appVars
  <2>2. received_msg' \in Seq(Nat)
    BY <1>0 DEF Buffers, appVars
  <2>3. Writes(Server)' /\ cb'[ServerLoop] = "on_received" => pending_data' = <<>>
    BY <1>0 DEF Buffers, Untouched, ServerLoop, appVars
  <2> QED BY <1>1, <2>1, <2>2, <2>3 DEF Buffers
<1>3. Kept' = Kept /\ Len(received_msg') = Len(received_msg)
  BY KeptStays DEF appVars
<1>4. (Len(received_msg') + Kept' + InNet') + Taken <= (Len(received_msg) + Kept + InNet) + Taken'
  <2> DEFINE a == Len(received_msg)
             s == wr[l].sent
             t == total_sent
             i == InNet'
  <2>1. a \in Nat /\ Kept \in Nat /\ InNet \in Nat /\ s \in Nat /\ t \in Nat
    BY <1>0, Counts DEF Bytes
  <2>2. Taken = t + s /\ Taken' = t + (s + n)
    BY <1>1 DEF Taken, appVars
  <2>3. i = InNet + n
    OBVIOUS
  <2> DEFINE k == Kept
             e == InNet
             u == Taken
             v == Taken'
  <2> HIDE DEF a, s, t, i, k, e, u, v
  <2>4. /\ a \in Nat /\ k \in Nat /\ e \in Nat /\ s \in Nat /\ t \in Nat
        /\ u = t + s /\ v = t + (s + n) /\ i = e + n
    BY <2>1, <2>2, <2>3 DEF k, e, u, v
  <2>5. (a + k + i) + u <= (a + k + e) + v
    BY <2>4, SMT
  <2> QED BY <1>3, <2>5 DEF a, i, k, e, u, v
<1>5. total_sent' <= Len(large_message) /\ UNCHANGED large_message
  BY TotalBound DEF appVars
<1> QED BY <1>2, <1>4, <1>5, Counted DEF Bytes

LEMMA ServerSends ==
  ASSUME DataTypes, Bytes, DataTypes', Writes(Server), Writes(Server)', Untouched(Client),
         NEW n \in Nat, n <= Len(Rest(ServerLoop)),
         wr' = [wr EXCEPT ![ServerLoop].sent = @ + n], UNCHANGED <<appVars, cb>>, InNet' = InNet + n
  PROVE  Bytes'
<1> DEFINE l == ServerLoop
<1>0. l \in Loops /\ Buffers
  BY Loopy DEF Bytes
<1>1. /\ wr'[l].buf = wr[l].buf /\ wr'[l].sent = wr[l].sent + n
      /\ \A m \in Loops : wr'[m].sent <= Len(wr'[m].buf)
  BY <1>0, SentMore
<1>2. Buffers'
  <2>1. Writes(Client)' => Len(wr'[ClientLoop].buf) = Len(large_message') - total_sent'
    BY <1>0 DEF Buffers, Untouched, ClientLoop, appVars
  <2>2. received_msg' \in Seq(Nat)
    BY <1>0 DEF Buffers, appVars
  <2>3. cb'[ServerLoop] = "on_received" => pending_data' = <<>>
    BY <1>0 DEF Buffers, appVars
  <2> QED BY <1>1, <2>1, <2>2, <2>3 DEF Buffers
<1>3. Taken' = Taken /\ Len(received_msg') = Len(received_msg)
  BY TakenStays DEF appVars
<1>4. (Len(received_msg') + Kept' + InNet') + Taken <= (Len(received_msg) + Kept + InNet) + Taken'
  <2> DEFINE a == Len(received_msg)
             s == wr[l].sent
             b == Len(wr[l].buf)
             k == Kept'
             i == InNet'
  <2>1. a \in Nat /\ InNet \in Nat /\ Taken \in Nat /\ s \in Nat /\ b \in Nat
    BY <1>0, Counts DEF Bytes
  <2>2. Kept = b - s
    BY <1>0, Counts DEF Kept
  <2>3. k = b - (s + n)
    <3>1. Len(Rest(l)') = Len(wr'[l].buf) - wr'[l].sent
      BY <1>0, <1>2, NumbersNext DEF Numbers
    <3>2. k = Len(Rest(l)')
      BY DEF Kept
    <3> QED BY <1>1, <3>1, <3>2
  <2>4. i = InNet + n
    OBVIOUS
  <2> DEFINE c == Kept
             e == InNet
             u == Taken
  <2> HIDE DEF a, s, b, k, i, c, e, u
  <2>5. /\ a \in Nat /\ e \in Nat /\ u \in Nat /\ s \in Nat /\ b \in Nat
        /\ c = b - s /\ k = b - (s + n) /\ i = e + n
    BY <2>1, <2>2, <2>3, <2>4 DEF c, e, u
  <2>6. (a + k + i) + u <= (a + c + e) + u
    BY <2>5, SMT
  <2> QED BY <1>3, <2>6 DEF a, k, i, c, e, u
<1>5. total_sent' <= Len(large_message) /\ UNCHANGED large_message
  BY TotalBound DEF appVars
<1> QED BY <1>2, <1>4, <1>5, Counted DEF Bytes

(* so_write returns how much was sent, and both programs add it up.        *)
LEMMA WriteOver ==
  ASSUME DataTypes, Buffers, NEW l \in Loops, wr' = [wr EXCEPT ![l] = NoWrite]
  PROVE  \A m \in Loops : wr'[m].sent <= Len(wr'[m].buf)
<1>1. NoWrite.sent = 0 /\ NoWrite.buf = <<>> /\ Len(<<>>) = 0
  BY DEF NoWrite
<1>2. \A m \in Loops : wr'[m] = IF m = l THEN NoWrite ELSE wr[m]
  BY DEF DataTypes
<1>3. ASSUME NEW m \in Loops PROVE wr'[m].sent <= Len(wr'[m].buf)
  <2>1. CASE m = l
    <3>1. wr'[m].sent = 0 /\ Len(wr'[m].buf) = 0
      BY <1>1, <1>2, <2>1
    <3> QED BY <3>1
  <2>2. CASE m # l
    BY <1>2, <2>2 DEF Buffers
  <2> QED BY <2>1, <2>2
<1> QED BY <1>3

LEMMA ClientEnds ==
  ASSUME DataTypes, Bytes, DataTypes', Writes(Client), ~Writes(Client)', Untouched(Server),
         wr' = [wr EXCEPT ![ClientLoop] = NoWrite], ClientWrote(wr[ClientLoop].sent), UNCHANGED net
  PROVE  Bytes'
<1> DEFINE l == ClientLoop
<1>0. /\ l \in Loops /\ Buffers /\ total_sent' = total_sent + wr[l].sent
      /\ UNCHANGED <<large_message, received_msg, pending_data>>
  BY Loopy DEF Bytes, ClientWrote
<1>1. Buffers'
  <2>1. \A m \in Loops : wr'[m].sent <= Len(wr'[m].buf)
    BY <1>0, WriteOver
  <2>2. Writes(Server)' /\ cb'[ServerLoop] = "on_received" => pending_data' = <<>>
    BY <1>0 DEF Buffers, Untouched, ServerLoop
  <2>3. received_msg' \in Seq(Nat)
    BY <1>0 DEF Buffers
  <2> QED BY <2>1, <2>2, <2>3 DEF Buffers
<1>2. Kept' = Kept /\ Len(received_msg') = Len(received_msg) /\ InNet' = InNet
  BY <1>0, KeptStays DEF InNet, Size
<1>3. Taken = total_sent + wr[l].sent /\ Taken' = total_sent' + 0
  BY DEF Taken
<1>4. Taken' = Taken /\ total_sent' = Taken
  <2>1. total_sent \in Nat /\ wr[l].sent \in Nat
    BY <1>0, Counts
  <2> QED BY <1>0, <1>3, <2>1
<1>5. (Len(received_msg') + Kept' + InNet') + Taken <= (Len(received_msg) + Kept + InNet) + Taken'
  <2> DEFINE x == Len(received_msg) + Kept + InNet
  <2>1. x \in Nat /\ Taken \in Nat
    BY Counts DEF Bytes
  <2> HIDE DEF x
  <2>2. x + Taken <= x + Taken'
    BY <1>4, <2>1
  <2> QED BY <1>2, <2>2 DEF x
<1>6. total_sent' <= Len(large_message)
  BY <1>4 DEF Bytes, NoBytesMade
<1> QED BY <1>0, <1>1, <1>5, <1>6, Counted DEF Bytes

LEMMA ServerEnds ==
  ASSUME DataTypes, Bytes, DataTypes', Writes(Server), ~Writes(Server)', Untouched(Client),
         wr' = [wr EXCEPT ![ServerLoop] = NoWrite], ServerKeeps(Rest(ServerLoop)), UNCHANGED net
  PROVE  Bytes'
<1> DEFINE l == ServerLoop
<1>0. l \in Loops /\ Buffers /\ pending_data' = Rest(l) /\ UNCHANGED <<large_message, received_msg, total_sent>>
  BY Loopy DEF Bytes, ServerKeeps
<1>1. Buffers'
  <2>1. \A m \in Loops : wr'[m].sent <= Len(wr'[m].buf)
    BY <1>0, WriteOver
  <2>2. Writes(Client)' => Len(wr'[ClientLoop].buf) = Len(large_message') - total_sent'
    BY <1>0 DEF Buffers, Untouched, ClientLoop
  <2>3. received_msg' \in Seq(Nat)
    BY <1>0 DEF Buffers
  <2> QED BY <2>1, <2>2, <2>3 DEF Buffers
<1>2. Kept' = Kept /\ Len(received_msg') = Len(received_msg) /\ InNet' = InNet
  BY <1>0 DEF Kept, InNet, Size
<1>3. Taken' = Taken
  BY <1>0, TakenStays
<1>4. (Len(received_msg') + Kept' + InNet') + Taken <= (Len(received_msg) + Kept + InNet) + Taken'
  <2> DEFINE x == Len(received_msg) + Kept + InNet
  <2>1. x \in Nat /\ Taken \in Nat
    BY Counts DEF Bytes
  <2> HIDE DEF x
  <2>2. x + Taken <= x + Taken
    BY <2>1
  <2> QED BY <1>2, <1>3, <2>2 DEF x
<1>5. total_sent' <= Len(large_message)
  BY <1>0, TotalBound
<1> QED BY <1>0, <1>1, <1>4, <1>5, Counted DEF Bytes

(* The two cases of on_received, and of on_sent, of the server. *)
KeepsPiece(l) ==
    /\ RecvData(l, Server) /\ pending_data # <<>>
    /\ ServerGot(Received(Server), Received(Server)) /\ RecvOn(l) /\ UNCHANGED <<cb, wr>>
WritesPiece(l) ==
    /\ RecvData(l, Server) /\ pending_data = <<>>
    /\ ServerGot(Received(Server), <<>>) /\ BeginWrite(l, "on_received", Received(Server))
NothingKept(l) ==
    WriteEvent(l, Server, TRUE) /\ pending_data = <<>> /\ Handled(l) /\ UNCHANGED <<cb, wr, net, sock>>
WritesKept(l) ==
    WriteEvent(l, Server, TRUE) /\ pending_data # <<>> /\ BeginWrite(l, "on_sent", pending_data)
        /\ UNCHANGED <<net, sock>>

(* The steps of a thread outside so_write. *)
Idles(l) ==
    \/ CollectEvents(l) \/ BeginRecv(l) \/ RecvFails(l) \/ ClientReceived(l) \/ ClientDisconnected(l)
    \/ ServerDisconnected(l) \/ Accept(l) \/ ConnectFailed(l) \/ KeepsPiece(l) \/ NothingKept(l) \/ EnterLoop(l)
    \/ l = ClientLoop /\ (Connect \/ ClientClose)
    \/ LoopStep(l) /\ UNCHANGED <<linkVars, appVars, sockVars, load>>

LEMMA ThreadSteps ==
  ASSUME NEW l \in Loops, Thread(l)
  PROVE  \/ Idles(l) \/ Connected(l) \/ ClientSent(l) \/ WritesPiece(l) \/ WritesKept(l)
         \/ SendSome(l) \/ SendEnds(l)
         \/ ClientWroteFirst(l) \/ ClientWroteOn(l) \/ ServerEchoed(l) \/ ServerWroteOn(l)
<1>1. ServerReceived(l) => KeepsPiece(l) \/ WritesPiece(l)
  BY DEF ServerReceived, KeepsPiece, WritesPiece
<1>2. ServerSent(l) => NothingKept(l) \/ WritesKept(l)
  BY DEF ServerSent, NothingKept, WritesKept
<1> QED BY <1>1, <1>2 DEF Thread, ClientApp, ServerApp, Idles

LEMMA IdlesOutside ==
  ASSUME LInv, NEW l \in Loops, Idles(l)
  PROVE  ~InWrite(l) /\ at'[l] \notin {"send", "sent"} /\ UNCHANGED <<cb, wr>>
<1>0. at \in [Loops -> Places]
  BY DEF LInv, LoopTypes
<1>1. CASE CollectEvents(l) \/ BeginRecv(l) \/ RecvFails(l) \/ EnterLoop(l)
  <2>1. ~InWrite(l) /\ UNCHANGED <<cb, wr>> /\ \E p \in {"next", "recv"} : at' = [at EXCEPT ![l] = p]
    BY <1>1 DEF CollectEvents, Collect, BeginRecv, Current, RecvFails, Handled, EnterLoop, Enter, InWrite, sockVars
  <2> QED BY <1>0, <2>1
<1>2. CASE ClientReceived(l) \/ ClientDisconnected(l) \/ ServerDisconnected(l) \/ KeepsPiece(l)
  <2>1. /\ at[l] = "recv" /\ UNCHANGED <<cb, wr>>
        /\ at' = at \/ \E p \in {"next", "out"} : at' = [at EXCEPT ![l] = p]
    BY <1>2 DEF ClientReceived, RecvData, RecvOn, ClientDisconnected, EndOfStream, Threw, ServerDisconnected, Handled,
                KeepsPiece
  <2> QED BY <1>0, <2>1 DEF InWrite
<1>3. CASE Accept(l) \/ ConnectFailed(l) \/ NothingKept(l)
  BY <1>0, <1>3 DEF Accept, ConnectFailed, NothingKept, WriteEvent, Current, Handled, InWrite
<1>4. CASE l = ClientLoop /\ (Connect \/ ClientClose)
  BY <1>4 DEF Connect, ClientClose, SetUp, kqueueVars, loopVars, InWrite
<1>5. CASE LoopStep(l) /\ UNCHANGED <<linkVars, appVars, sockVars, load>>
  <2>1. at[l] \in {"next", "tasks"}
    BY <1>5 DEF LoopStep, Check, HandleUser, Current, RunPlain, RunStop, RunPost, RunDestroy, RunThrow, Invoked,
                EndTasks, HandleTimer
  <2>2. at' = at \/ \E p \in {"wait", "out", "next", "tasks"} : at' = [at EXCEPT ![l] = p]
    BY <1>5 DEF LoopStep, Check, HandleUser, RunPlain, RunStop, RunPost, RunDestroy, RunThrow, EndTasks, HandleTimer,
                Handled, Threw, loopVars
  <2> QED BY <1>0, <1>5, <2>1, <2>2 DEF InWrite, sockVars
<1> QED BY <1>1, <1>2, <1>3, <1>4, <1>5 DEF Idles

LEMMA IdlesTouchNothing ==
  ASSUME LInv, DataTypes, NEW l \in Loops, Idles(l), Thread(l), NEW p \in Ends
  PROVE  Untouched(p) /\ AtStays(p)
BY IdlesOutside, NotWriting

LEMMA IdlesCount ==
  ASSUME LInv, DataTypes, Bytes, DataTypes', NEW l \in Loops, Thread(l), Idles(l)
  PROVE  Bytes'
<1>0. /\ Untouched(Client) /\ Untouched(Server) /\ UNCHANGED wr /\ Client \in Ends /\ Server \in Ends
      /\ InNet \in Nat /\ received_msg \in Seq(Nat) /\ pending_data \in Seq(Nat)
      /\ Len(received_msg) \in Nat /\ Len(pending_data) \in Nat
  BY IdlesTouchNothing, IdlesOutside, SocksOfEnds, Counts, LenProperties DEF Bytes, Buffers, DataTypes
<1>1. CASE UNCHANGED <<large_message, total_sent, received_msg, pending_data>> /\ InNet' \in Nat /\ InNet' <= InNet
  <2> DEFINE a == Len(received_msg)
             b == Len(pending_data)
             i == InNet'
  <2> HIDE DEF a, b, i
  <2>1. (a + b) + i <= (a + b) + InNet
    BY <1>0, <1>1 DEF a, b, i
  <2>2. (Len(received_msg') + Len(pending_data')) + InNet' <= (Len(received_msg) + Len(pending_data)) + InNet
    BY <1>1, <2>1 DEF a, b, i
  <2> QED BY <1>0, <1>1, <2>2, IdleCounts
<1>2. UNCHANGED net => InNet' = InNet
  BY DEF InNet, Size
<1>3. net' \in [Ends -> End]
  BY DEF DataTypes
<1>4. InNet' \in Nat
  BY <1>0, <1>3, InNetOf DEF DataTypes
<1>5. CASE \/ CollectEvents(l) \/ BeginRecv(l) \/ ClientDisconnected(l) \/ Accept(l) \/ NothingKept(l) \/ EnterLoop(l)
           \/ Connect \/ (LoopStep(l) /\ UNCHANGED <<linkVars, appVars, sockVars, load>>)
  <2>1. UNCHANGED net /\ UNCHANGED <<large_message, total_sent, received_msg, pending_data>>
    BY <1>5 DEF CollectEvents, BeginRecv, ClientDisconnected, Accept, SessionBecomes, NothingKept, WriteEvent, EnterLoop,
                Connect, SetUp, linkVars, appVars
  <2> QED BY <1>0, <1>1, <1>2, <2>1
<1>6. CASE RecvFails(l) \/ ConnectFailed(l)
  <2>1. UNCHANGED appVars /\ \E s \in Ends : net' = [net EXCEPT ![s].err = FALSE] \/ net' = net
    <3>1. RecvFails(l) => Cur(l) \in Ends
      BY HeadOfBatch DEF RecvFails
    <3> QED BY <1>0, <1>6, <3>1 DEF RecvFails, ConnectFailed, WriteEvent
  <2>2. InNet' = InNet
    BY <2>1, ErrMoves
  <2> QED BY <1>0, <1>1, <2>1, <2>2 DEF appVars
<1>7. CASE ClientClose \/ ServerDisconnected(l)
  <2>1. /\ UNCHANGED <<large_message, total_sent, received_msg, pending_data>>
        /\ \E s \in Ends : net' = AfterClose(s)
    BY <1>0, <1>7 DEF ClientClose, SetUp, appVars, ServerDisconnected, SessionBecomes
  <2>2. InNet' <= InNet
    BY <2>1, CloseMoves
  <2> QED BY <1>1, <1>4, <2>1, <2>2
<1>8. CASE ClientReceived(l) \/ KeepsPiece(l)
  <2>1. PICK s \in Ends :
          /\ net[s].rcv # <<>> /\ net' = [net EXCEPT ![s].rcv = Drop(@, RecvMax)]
          /\ at[l] = "recv" /\ Cur(l) = s /\ UNCHANGED <<large_message, total_sent>>
          /\ \/ received_msg' = received_msg \o Received(s) /\ UNCHANGED pending_data
             \/ pending_data' = pending_data \o Received(s) /\ UNCHANGED received_msg /\ s = Server
    BY <1>0, <1>8 DEF ClientReceived, KeepsPiece, RecvData, ClientGot, ServerGot
  <2> DEFINE q == Received(s)
             n == Len(q)
             a == Len(received_msg)
             b == Len(pending_data)
             c == Len(received_msg')
             d == Len(pending_data')
             i == InNet'
  <2>2. q \in Seq(Nat) /\ n \in Nat /\ i + n = InNet
    BY <2>1, RecvMoves
  <2> HIDE DEF q
  <2>3. /\ received_msg \o q \in Seq(Nat) /\ Len(received_msg \o q) = a + n
        /\ pending_data \o q \in Seq(Nat) /\ Len(pending_data \o q) = b + n
    BY <1>0, <2>2, ConcatProperties
  <2>4. received_msg' \in Seq(Nat) /\ ((c = a + n /\ d = b) \/ (c = a /\ d = b + n))
    <3>1. CASE received_msg' = received_msg \o q /\ UNCHANGED pending_data
      BY <2>3, <3>1
    <3>2. CASE pending_data' = pending_data \o q /\ UNCHANGED received_msg
      BY <1>0, <2>3, <3>2
    <3> QED BY <2>1, <3>1, <3>2 DEF q
  <2>5. pending_data' = pending_data \/ ~Writes(Server)
    <3>1. ~InWrite(l) /\ (s = Server => LoopOf[Server] = l)
      BY <2>1, HeadOfBatch DEF InWrite
    <3> QED BY <2>1, <3>1 DEF Writes, InWrite
  <2>6. (c + d) + i <= (a + b) + InNet
    <3> HIDE DEF n, a, b, c, d, i
    <3>1. a \in Nat /\ b \in Nat /\ n \in Nat /\ i \in Nat
      BY <1>0, <1>4, <2>2 DEF a, b, i
    <3> QED BY <1>0, <2>2, <2>4, <3>1
  <2> QED BY <1>0, <2>1, <2>4, <2>5, <2>6, IdleCounts
<1> QED BY <1>5, <1>6, <1>7, <1>8 DEF Idles

(* A callback calls so_write; so_write goes on; so_write returns. *)
LEMMA WriteBegins ==
  ASSUME LInv, DataTypes, NEW l \in Loops, Thread(l), NEW s \in Ends, LoopOf[s] = l, Cur(l) = s, ~InWrite(l),
         NEW name, NEW buf, BeginWrite(l, name, buf)
  PROVE  /\ ~Writes(s) /\ Writes(s)' /\ Untouched(Peer(s)) /\ AtStays(Peer(s))
         /\ wr' = [wr EXCEPT ![l] = [buf |-> buf, sent |-> 0]]
         /\ at'[l] = "send" /\ cb'[l] = name /\ batch' = batch
<1>1. /\ at' = [at EXCEPT ![l] = "send"] /\ cb' = [cb EXCEPT ![l] = name] /\ batch' = batch
      /\ wr' = [wr EXCEPT ![l] = [buf |-> buf, sent |-> 0]]
  BY DEF BeginWrite
<1>2. at'[l] = "send" /\ cb'[l] = name
  BY <1>1 DEF LInv, LoopTypes
<1>3. Untouched(Peer(s)) /\ AtStays(Peer(s))
  BY <1>1, Peers, NotWriting
<1>4. ~Writes(s) /\ Writes(s)'
  BY <1>1, <1>2 DEF Writes, InWrite, Cur
<1> QED BY <1>1, <1>2, <1>3, <1>4

LEMMA WriteGoesOn ==
  ASSUME LInv, DataTypes, NEW l \in Loops, Thread(l), SendSome(l) \/ SendEnds(l), NEW s, s = Cur(l)
  PROVE  /\ s \in Ends /\ LoopOf[s] = l /\ Writes(s) /\ Writes(s)' /\ Untouched(Peer(s)) /\ AtStays(Peer(s))
         /\ UNCHANGED <<appVars, cb, batch>> /\ at[l] = "send"
<1>1. at[l] = "send" /\ UNCHANGED <<appVars, cb, batch>>
  BY DEF SendSome, SendEnds, Sending
<1>2. s \in Ends /\ LoopOf[s] = l
  BY <1>1, HeadOfBatch
<1>3. at'[l] \in {"send", "sent"}
  BY <1>1 DEF SendSome, SendEnds, LInv, LoopTypes
<1>4. Untouched(Peer(s)) /\ AtStays(Peer(s))
  BY <1>1, <1>2, Peers, NotWriting
<1>5. Writes(s) /\ Writes(s)'
  BY <1>1, <1>2, <1>3 DEF Writes, Cur
<1> QED BY <1>1, <1>2, <1>4, <1>5

LEMMA WriteReturns ==
  ASSUME LInv, DataTypes, NEW l \in Loops, Thread(l), NEW s, NEW name, Wrote(l, s, name),
         Handled(l) \/ (at' = [at EXCEPT ![l] = "recv"] /\ UNCHANGED batch)
  PROVE  /\ s \in Ends /\ LoopOf[s] = l /\ Writes(s) /\ ~Writes(s)' /\ Untouched(Peer(s)) /\ AtStays(Peer(s))
         /\ wr' = [wr EXCEPT ![l] = NoWrite] /\ UNCHANGED net /\ at[l] = "sent" /\ cb[l] = name
         /\ batch[l] # <<>>
<1>1. /\ at[l] = "sent" /\ Cur(l) = s /\ cb[l] = name /\ wr' = [wr EXCEPT ![l] = NoWrite] /\ UNCHANGED net
  BY DEF Wrote, linkVars
<1>2. s \in Ends /\ LoopOf[s] = l /\ batch[l] # <<>>
  BY <1>1, HeadOfBatch
<1>3. at'[l] \in {"next", "recv"}
  BY DEF Handled, LInv, LoopTypes
<1>4. Untouched(Peer(s)) /\ AtStays(Peer(s))
  BY <1>1, <1>2, <1>3, Peers, NotWriting
<1>5. Writes(s) /\ ~Writes(s)'
  BY <1>1, <1>2, <1>3 DEF Writes
<1> QED BY <1>1, <1>2, <1>4, <1>5

(* What send takes is there. *)
LEMMA AmountLeft ==
  ASSUME LInv, DataTypes, Buffers, NEW l \in Loops, SendSome(l)
  PROVE  /\ Amount(l) \in Nat /\ Amount(l) <= Len(Rest(l))
         /\ InNet' = InNet + Amount(l) /\ wr' = [wr EXCEPT ![l].sent = @ + Amount(l)]
<1> DEFINE s == Cur(l)
           r == Rest(l)
           a == Len(r)
           b == Room(s)
           n == Amount(l)
           q == SubSeq(r, 1, n)
<1>1. s \in Ends /\ n > 0
  BY HeadOfBatch DEF SendSome, Sending
<1>2. n \in Nat /\ q \in Seq(Nat) /\ r \in Seq(Nat)
  BY <1>1, SentPiece
<1>3. n <= a
  <2>1. a \in Int /\ SendMax \in Int /\ b \in Int
    BY <1>1, Counts, EndFields DEF Room, DataTypes
  <2>2. n = Least({a, SendMax, b})
    BY DEF Amount
  <2> HIDE DEF a, b, n
  <2> QED BY <2>1, <2>2, LeastOfThree
<1>4. Len(q) = n
  <2> HIDE DEF r, n
  <2> QED BY <1>2, <1>3, Pieces
<1>5. net' = [net EXCEPT ![s].snd = @ \o q]
  BY DEF SendSome
<1>6. InNet' = InNet + Len(q)
  <2> HIDE DEF q, s
  <2> QED BY <1>1, <1>2, <1>5, SendMoves
<1>7. InNet' = InNet + n
  BY <1>4, <1>6
<1> QED BY <1>2, <1>3, <1>7 DEF SendSome

LEMMA PeerIs == Peer(Client) = Server /\ Peer(Server) = Client
  BY DEF Peer

LEMMA ThreadCounts ==
  ASSUME LInv, DataTypes, Bytes, DataTypes', NEW l \in Loops, Thread(l)
  PROVE  Bytes'
<1>0. /\ Client \in Ends /\ Server \in Ends /\ Client # Server /\ Buffers
      /\ (LoopOf[Client] = l <=> l = ClientLoop) /\ (LoopOf[Server] = l <=> l = ServerLoop)
  BY SocksOfEnds DEF Bytes, ClientLoop, ServerLoop
<1>1. CASE Idles(l)
  BY <1>1, IdlesCount
<1>2. CASE Connected(l) \/ ClientSent(l)
  <2>1. PICK name : BeginWrite(l, name, Unwritten)
    BY <1>2 DEF Connected, ClientSent
  <2>2. Cur(l) = Client /\ ~InWrite(l) /\ batch[l] # <<>> /\ UNCHANGED <<net, appVars>>
        /\ Head(batch[l]).filter = "WRITE"
    BY <1>2 DEF Connected, ClientSent, WriteEvent, Current, InWrite
  <2>3. LoopOf[Client] = l
    BY <2>2, HeadOfBatch DEF Belongs, Cur
  <2>4. /\ ~Writes(Client) /\ Writes(Client)' /\ Untouched(Server)
        /\ wr' = [wr EXCEPT ![l] = [buf |-> Unwritten, sent |-> 0]]
    BY <1>0, <2>1, <2>2, <2>3, PeerIs, WriteBegins
  <2> QED BY <1>0, <2>2, <2>3, <2>4, ClientBegins
<1>3. CASE WritesPiece(l)
  <2> DEFINE q == Received(Server)
  <2>1. /\ at[l] = "recv" /\ Cur(l) = Server /\ BeginWrite(l, "on_received", q) /\ pending_data = <<>>
        /\ net[Server].rcv # <<>> /\ net' = [net EXCEPT ![Server].rcv = Drop(@, RecvMax)]
        /\ UNCHANGED <<large_message, total_sent, received_msg>> /\ pending_data' = pending_data \o <<>>
    BY <1>3 DEF WritesPiece, RecvData, ServerGot
  <2>2. LoopOf[Server] = l /\ ~InWrite(l)
    BY <2>1, HeadOfBatch DEF InWrite
  <2>3. /\ ~Writes(Server) /\ Writes(Server)' /\ Untouched(Client)
        /\ wr' = [wr EXCEPT ![l] = [buf |-> q, sent |-> 0]]
    BY <1>0, <2>1, <2>2, PeerIs, WriteBegins
  <2>4. q \in Seq(Nat) /\ InNet' + Len(q) = InNet /\ InNet \in Nat
    BY <1>0, <2>1, RecvMoves
  <2>5. pending_data' = <<>> /\ Len(pending_data) = 0
    BY <2>1
  <2>6. InNet' + Len(q) <= InNet + Len(pending_data)
    <3> DEFINE x == InNet' + Len(q)
               z == Len(pending_data)
    <3>1. x = InNet /\ z = 0
      BY <2>4, <2>5
    <3> HIDE DEF x, z
    <3>2. x <= InNet + z
      BY <2>4, <3>1
    <3> QED BY <3>2 DEF x, z
  <2> QED BY <1>0, <2>1, <2>2, <2>3, <2>4, <2>5, <2>6, ServerBegins
<1>4. CASE WritesKept(l)
  <2> DEFINE q == pending_data
  <2>1. /\ Cur(l) = Server /\ BeginWrite(l, "on_sent", q) /\ ~InWrite(l) /\ UNCHANGED <<net, appVars>>
        /\ batch[l] # <<>> /\ Head(batch[l]).filter = "WRITE"
    BY <1>4 DEF WritesKept, WriteEvent, Current, InWrite
  <2>2. LoopOf[Server] = l
    BY <2>1, HeadOfBatch DEF Belongs, Cur
  <2>3. /\ ~Writes(Server) /\ Writes(Server)' /\ Untouched(Client) /\ cb'[l] = "on_sent"
        /\ wr' = [wr EXCEPT ![l] = [buf |-> q, sent |-> 0]]
    BY <1>0, <2>1, <2>2, PeerIs, WriteBegins
  <2>4. q \in Seq(Nat) /\ InNet' = InNet
    BY <2>1 DEF DataTypes, InNet, Size
  <2>5. InNet' + Len(q) <= InNet + Len(pending_data)
    <3>1. InNet \in Nat /\ Len(q) \in Nat
      BY <2>4, Counts, LenProperties DEF Bytes
    <3> QED BY <2>4, <3>1
  <2> QED BY <1>0, <2>1, <2>2, <2>3, <2>4, <2>5, ServerBegins DEF appVars
<1>5. CASE SendSome(l)
  <2> DEFINE n == Amount(l)
  <2>1. n \in Nat /\ n <= Len(Rest(l)) /\ InNet' = InNet + n /\ wr' = [wr EXCEPT ![l].sent = @ + n]
    BY <1>0, <1>5, AmountLeft
  <2> HIDE DEF n
  <2>2. Cur(l) \in Ends /\ LoopOf[Cur(l)] = l /\ UNCHANGED <<appVars, cb>>
    BY <1>5, WriteGoesOn
  <2>3. CASE Cur(l) = Client
    <3>1. Writes(Client) /\ Writes(Client)' /\ Untouched(Server)
      BY <1>5, <2>3, PeerIs, WriteGoesOn
    <3> QED BY <1>0, <2>1, <2>2, <2>3, <3>1, ClientSends
  <2>4. CASE Cur(l) = Server
    <3>1. Writes(Server) /\ Writes(Server)' /\ Untouched(Client)
      BY <1>5, <2>4, PeerIs, WriteGoesOn
    <3> QED BY <1>0, <2>1, <2>2, <2>4, <3>1, ServerSends
  <2> QED BY <2>2, <2>3, <2>4 DEF Ends
<1>6. CASE SendEnds(l)
  <2>0. PICK s \in Ends : s = Cur(l)
    BY <1>6, WriteGoesOn
  <2>1. UNCHANGED <<appVars, cb, wr>> /\ (net' = [net EXCEPT ![s].err = FALSE] \/ net' = net)
    BY <1>6, <2>0, WriteGoesOn DEF SendEnds
  <2>2. InNet' = InNet /\ InNet \in Nat
    BY <2>1, ErrMoves
  <2>3. Untouched(Client) /\ Untouched(Server)
    <3>1. Writes(s) /\ Writes(s)' /\ Untouched(Peer(s))
      BY <1>6, <2>0, WriteGoesOn
    <3>2. Untouched(s)
      BY <2>1, <3>1 DEF Untouched
    <3> QED BY <2>1, <3>1, <3>2, PeerIs DEF Ends
  <2>4. (Len(received_msg') + Len(pending_data')) + InNet' <= (Len(received_msg) + Len(pending_data)) + InNet
    <3> DEFINE a == Len(received_msg)
               b == Len(pending_data)
    <3>1. a \in Nat /\ b \in Nat
      BY <1>0, LenProperties DEF Buffers, DataTypes
    <3>2. Len(received_msg') = a /\ Len(pending_data') = b
      BY <2>1 DEF appVars
    <3> HIDE DEF a, b
    <3>3. (a + b) + InNet' <= (a + b) + InNet
      BY <2>2, <3>1
    <3> QED BY <3>2, <3>3 DEF a, b
  <2> QED BY <1>0, <2>1, <2>3, <2>4, IdleCounts DEF appVars, Buffers
<1>7. CASE ClientWroteFirst(l) \/ ClientWroteOn(l)
  <2>1. PICK name : Wrote(l, Client, name)
    BY <1>7 DEF ClientWroteFirst, ClientWroteOn
  <2>2. Handled(l) /\ ClientWrote(wr[l].sent)
    BY <1>7 DEF ClientWroteFirst, ClientWroteOn
  <2>3. /\ LoopOf[Client] = l /\ Writes(Client) /\ ~Writes(Client)' /\ Untouched(Server)
        /\ wr' = [wr EXCEPT ![l] = NoWrite] /\ UNCHANGED net
    BY <2>1, <2>2, PeerIs, WriteReturns
  <2> QED BY <1>0, <2>2, <2>3, ClientEnds
<1>8. CASE ServerEchoed(l) \/ ServerWroteOn(l)
  <2>1. PICK name : Wrote(l, Server, name)
    BY <1>8 DEF ServerEchoed, ServerWroteOn
  <2>2. /\ Handled(l) \/ (at' = [at EXCEPT ![l] = "recv"] /\ UNCHANGED batch)
        /\ ServerKeeps(Rest(l))
    BY <1>8 DEF ServerEchoed, ServerWroteOn
  <2>3. /\ LoopOf[Server] = l /\ Writes(Server) /\ ~Writes(Server)' /\ Untouched(Client)
        /\ wr' = [wr EXCEPT ![l] = NoWrite] /\ UNCHANGED net
    BY <2>1, <2>2, PeerIs, WriteReturns
  <2> QED BY <1>0, <2>2, <2>3, ServerEnds
<1> QED BY <1>1, <1>2, <1>3, <1>4, <1>5, <1>6, <1>7, <1>8, ThreadSteps

LEMMA BytesHold ==
  ASSUME LInv, DataTypes, Bytes, DataTypes', [Next]_vars
  PROVE  Bytes'
<1>1. CASE \E l \in Loops : Thread(l)
  BY <1>1, ThreadCounts
<1>2. CASE Kernel(LinkStep) \/ (Outside /\ UNCHANGED <<linkVars, appVars, sockVars, load>>) \/ UNCHANGED vars
  <2>1. UNCHANGED <<at, batch, cb, wr, appVars>>
    BY <1>2 DEF Kernel, Outside, Stop, PostTask, Trigger, Expire, vars, kqueueVars, loopVars, sockVars
  <2>2. InNet' <= InNet /\ InNet \in Nat /\ InNet' \in Nat
    <3>1. InNet \in Nat /\ InNet' \in Nat
      BY InNetOf, SocksOfEnds DEF DataTypes
    <3>2. CASE Kernel(LinkStep)
      BY <3>1, <3>2, LinkMoves DEF Kernel
    <3>3. CASE UNCHANGED net
      <4>1. InNet' = InNet
        BY <3>3 DEF InNet, Size
      <4> QED BY <3>1, <4>1
    <3> QED BY <1>2, <3>2, <3>3 DEF linkVars, vars
  <2>3. Untouched(Client) /\ Untouched(Server)
    BY <2>1, IdleStep, SocksOfEnds
  <2>4. (Len(received_msg') + Len(pending_data')) + InNet' <= (Len(received_msg) + Len(pending_data)) + InNet
    <3> DEFINE a == Len(received_msg)
               b == Len(pending_data)
               i == InNet'
    <3>1. a \in Nat /\ b \in Nat
      BY LenProperties DEF Bytes, Buffers, DataTypes
    <3>2. Len(received_msg') = a /\ Len(pending_data') = b
      BY <2>1 DEF appVars
    <3>3. i <= InNet /\ i \in Nat /\ InNet \in Nat
      BY <2>2
    <3> HIDE DEF a, b, i
    <3>4. (a + b) + i <= (a + b) + InNet
      BY <3>1, <3>3
    <3> QED BY <3>2, <3>4 DEF a, b, i
  <2> QED BY <2>1, <2>3, <2>4, IdleCounts DEF appVars, Bytes, Buffers
<1> QED BY <1>1, <1>2 DEF Next

-----------------------------------------------------------------------------
(* What the server has asked for *)

(* The steps that leave the server's so_write alone. *)
LEMMA AskedStays ==
  ASSUME LInv, [Next]_vars, AskedFor, session = "open", ~CollectEvents(ServerLoop),
         sock'[Server].asked => sock[Server].asked, Untouched(Server), AtStays(Server),
         \/ pending_data' = pending_data
         \/ pending_data' # <<>>
  PROVE  AskedFor'
<1>1. WriteWaits' => ~sock'[Server].asked /\ pending_data' # <<>>
  BY StillWaits DEF AskedFor
<1>2. CASE Writes(Server)
  <2>1. Writes(Server)' /\ at'[ServerLoop] = at[ServerLoop] /\ Rest(ServerLoop)' = Rest(ServerLoop)
    BY <1>2 DEF Untouched, AtStays, ServerLoop, Rest
  <2>2. sock'[Server].asked => at'[ServerLoop] = "sent" /\ Rest(ServerLoop)' # <<>>
    BY <1>2, <2>1 DEF AskedFor
  <2> QED BY <1>1, <2>1, <2>2 DEF AskedFor
<1>3. CASE ~Writes(Server)
  <2>1. ~Writes(Server)'
    BY <1>3 DEF Untouched
  <2> QED BY <1>1, <1>3, <2>1 DEF AskedFor
<1> QED BY <1>2, <1>3

(* kevent returns the WRITE event of the server, which has been asked for. *)
LEMMA AskedReturned ==
  ASSUME LInv, DataTypes, AskedFor, session = "open", CollectEvents(ServerLoop)
  PROVE  AskedFor'
<1>0. ServerLoop \in Loops /\ Server \in Socks /\ LoopOf[Server] = ServerLoop
  BY Loopy, SocksOfEnds DEF ServerLoop
<1>1. at[ServerLoop] = "wait" /\ at'[ServerLoop] = "next" /\ UNCHANGED pending_data
  BY <1>0 DEF CollectEvents, Collect, appVars, LInv, LoopTypes
<1>2. ~Writes(Server) /\ ~Writes(Server)'
  BY <1>1 DEF Writes, ServerLoop
<1>3. sock'[Server].asked => sock[Server].asked
  BY <1>0, CollectTakes DEF Calm
<1>4. WriteWaits' => ~sock'[Server].asked /\ sock[Server].asked
  <2> SUFFICES ASSUME WriteWaits' PROVE ~sock'[Server].asked /\ sock[Server].asked
    OBVIOUS
  <2>1. InBatch(ServerLoop, Event("WRITE", Server))'
    BY DEF WriteWaits, InBatch, WriteServer
  <2> QED BY <1>0, <2>1, ReturnedOfSocket, CollectTakes
<1> QED BY <1>1, <1>2, <1>3, <1>4 DEF AskedFor

(* on_received and on_sent call so_write when nothing is asked for.        *)
LEMMA AskedNothing ==
  ASSUME LInv, DataTypes, Single, AskedFor, session = "open", [Next]_vars, NEW l \in Loops, Thread(l),
         WritesPiece(l) \/ WritesKept(l)
  PROVE  AskedFor'
<1>0. Server \in Ends /\ ServerLoop \in Loops /\ ServerLoop = LoopOf[Server]
  BY SocksOfEnds, Loopy DEF ServerLoop
<1>1. ~InWrite(l) /\ Cur(l) = Server
  BY DEF WritesPiece, WritesKept, RecvData, WriteEvent, Current, InWrite
<1>2. l = ServerLoop
  <2>1. CASE WritesPiece(l)
    BY <1>0, <1>1, <2>1, HeadOfBatch DEF WritesPiece, RecvData
  <2>2. CASE WritesKept(l)
    BY <1>0, <1>1, <2>2, HeadOfBatch DEF WritesKept, WriteEvent, Current, Belongs, Cur
  <2> QED BY <2>1, <2>2
<1>3. ~Writes(Server) /\ ~CollectEvents(ServerLoop)
  <2>1. ~Writes(Server)
    BY <1>0, <1>1, <1>2 DEF Writes, InWrite
  <2>2. at[l] # "wait"
    BY DEF WritesPiece, WritesKept, RecvData, WriteEvent, Current
  <2> QED BY <1>2, <2>1, <2>2 DEF CollectEvents, Collect
<1>4. sock'[Server].asked => sock[Server].asked
  BY DEF WritesPiece, WritesKept, RecvData
<1>5. CASE WritesPiece(l)
  <2>1. ~WriteWaits /\ ~sock[Server].asked
    BY <1>3, <1>5 DEF WritesPiece, AskedFor
  <2>2. ~WriteWaits'
    BY <1>3, <2>1, StillWaits
  <2> QED BY <1>4, <2>1, <2>2 DEF AskedFor
<1>6. CASE WritesKept(l)
  <2>1. batch[l] # <<>> /\ Head(batch[l]) = WriteServer /\ at[l] = "next"
    BY <1>6, HeadOfBatch DEF WritesKept, WriteEvent, Current, Cur, Events, WriteServer, Event
  <2>2. 1 \in DOMAIN batch[l] /\ batch[l][1] = WriteServer
    BY <2>1, HeadAndTail DEF LInv, LoopTypes
  <2>3. ~sock[Server].asked
    BY <1>2, <2>1, <2>2 DEF WriteWaits, AskedFor
  <2>4. batch'[l] = batch[l] /\ at'[l] # "next"
    BY <1>6 DEF WritesKept, BeginWrite, LInv, LoopTypes
  <2>5. ~WriteWaits'
    BY <1>2, <2>1, <2>4, WaitsNoMore
  <2> QED BY <1>4, <2>3, <2>5 DEF AskedFor
<1> QED BY <1>5, <1>6

(* Inside so_write of the server: it asks when it ends with something left.*)
LEMMA AskedSending ==
  ASSUME LInv, DataTypes, Buffers, Single, AskedFor, session = "open", [Next]_vars, NEW l \in Loops, Thread(l),
         SendSome(l) \/ SendEnds(l), Cur(l) = Server
  PROVE  AskedFor'
<1>1. /\ l = ServerLoop /\ Writes(Server) /\ Writes(Server)' /\ UNCHANGED <<appVars, cb, batch>> /\ at[l] = "send"
  BY WriteGoesOn DEF ServerLoop
<1>2. ~sock[Server].asked /\ ~CollectEvents(ServerLoop)
  BY <1>1 DEF AskedFor, CollectEvents, Collect
<1>3. CASE Calm
  <2>1. ~sock'[Server].asked
    BY <1>2, <1>3 DEF Calm
  <2>2. WriteWaits' => pending_data' # <<>>
    BY <1>1, <1>2, StillWaits DEF AskedFor, appVars
  <2> QED BY <2>1, <2>2 DEF AskedFor
<1>4. CASE ~Calm
  <2>1. SendEnds(l) /\ Rest(l) # <<>>
    BY <1>1, <1>4, ThreadCalm DEF Accept, Current
  <2>2. at'[l] = "sent" /\ Rest(l)' = Rest(l)
    BY <2>1 DEF SendEnds, LInv, LoopTypes, Rest
  <2>3. ~WriteWaits'
    <3>1. CASE cb[l] = "on_received"
      <4>1. pending_data = <<>>
        BY <1>1, <3>1 DEF Buffers
      <4> QED BY <1>2, <4>1, StillWaits DEF AskedFor
    <3>2. CASE cb[l] # "on_received"
      <4>1. batch[l] # <<>> /\ Head(batch[l]) = WriteServer
        BY <1>1, <3>2, HeadOfBatch DEF WriteServer
      <4> QED BY <1>1, <2>2, <4>1, WaitsNoMore
    <3> QED BY <3>1, <3>2
  <2> QED BY <1>1, <2>1, <2>2, <2>3 DEF AskedFor
<1> QED BY <1>3, <1>4

(* so_write has returned: what is left is kept, and its event asked for.   *)
LEMMA AskedAfter ==
  ASSUME LInv, DataTypes, Buffers, Single, AskedFor, session = "open", [Next]_vars, NEW l \in Loops, Thread(l),
         ServerEchoed(l) \/ ServerWroteOn(l)
  PROVE  AskedFor'
<1>1. PICK name : Wrote(l, Server, name) /\ name = (IF ServerEchoed(l) THEN "on_received" ELSE "on_sent")
  BY DEF ServerEchoed, ServerWroteOn
<1>2. /\ Handled(l) \/ (ServerEchoed(l) /\ at' = [at EXCEPT ![l] = "recv"] /\ UNCHANGED batch)
      /\ ServerKeeps(Rest(l)) /\ UNCHANGED sock
  BY DEF ServerEchoed, ServerWroteOn
<1>3. /\ LoopOf[Server] = l /\ Writes(Server) /\ ~Writes(Server)' /\ at[l] = "sent" /\ cb[l] = name
      /\ batch[l] # <<>>
  BY <1>1, <1>2, WriteReturns
<1>4. l = ServerLoop /\ ~CollectEvents(ServerLoop)
  BY <1>3 DEF ServerLoop, CollectEvents, Collect
<1>5. sock'[Server].asked => pending_data' # <<>>
  BY <1>2, <1>3, <1>4 DEF AskedFor, ServerKeeps
<1>6. ~WriteWaits'
  <2>1. CASE ServerEchoed(l)
    <3>1. pending_data = <<>>
      BY <1>1, <1>3, <1>4, <2>1 DEF Buffers
    <3> QED BY <1>4, <3>1, StillWaits DEF AskedFor
  <2>2. CASE ~ServerEchoed(l)
    <3>1. Head(batch[l]) = WriteServer
      BY <1>1, <1>3, <2>2, HeadOfBatch DEF Wrote, WriteServer
    <3>2. batch'[l] = Tail(batch[l])
      BY <1>2, <1>3, <2>2, HandledBatch
    <3> QED BY <1>3, <1>4, <3>1, <3>2, WaitsNoMore
  <2> QED BY <2>1, <2>2
<1> QED BY <1>3, <1>5, <1>6 DEF AskedFor

(* A piece that is kept leaves something kept. *)
LEMMA IdlesKeep ==
  ASSUME DataTypes, NEW l \in Loops, Idles(l)
  PROVE  pending_data' = pending_data \/ pending_data' # <<>>
<1>1. CASE KeepsPiece(l)
  <2>1. pending_data' = pending_data \o Received(Server) /\ net[Server].rcv # <<>>
        /\ net' = [net EXCEPT ![Server].rcv = Drop(@, RecvMax)]
    BY <1>1 DEF KeepsPiece, RecvData, ServerGot
  <2>2. Received(Server) \in Seq(Nat) /\ pending_data \in Seq(Nat) /\ pending_data # <<>>
    BY <1>1, <2>1, SocksOfEnds, RecvMoves DEF DataTypes, KeepsPiece
  <2> DEFINE q == Received(Server)
  <2> HIDE DEF q
  <2>3. pending_data \o q # <<>>
    BY <2>2, JoinedHead DEF q
  <2> QED BY <2>1, <2>3 DEF q
<1>2. CASE ~KeepsPiece(l)
  BY <1>2 DEF Idles, CollectEvents, BeginRecv, RecvFails, ClientReceived, ClientGot, ClientDisconnected,
              ServerDisconnected, Accept, SessionBecomes, ConnectFailed, NothingKept, WriteEvent, EnterLoop,
              Connect, ClientClose, SetUp, appVars
<1> QED BY <1>1, <1>2

LEMMA AskedForHolds ==
  ASSUME LInv, DataTypes, Buffers, Single, AcceptedOnce, AskedFor, Destroyed, [Next]_vars
  PROVE  AskedFor'
<1>0. AppMoves /\ ServerLoop \in Loops /\ Server \in Ends /\ Client \in Ends
  BY StepMoves, Loopy, SocksOfEnds
<1> SUFFICES ASSUME session' = "open" PROVE AskedFor'
  BY DEF AskedFor
<1>1. ASSUME NEW l \in Loops, Accept(l) PROVE AskedFor'
  <2>1. ~sock'[Server].asked
    BY <1>1, AcceptOpens
  <2>2. l = ServerLoop /\ session = "none" /\ ~CollectEvents(l)
    BY <1>1, AcceptsKnock
  <2>3. ~WriteWaits
    BY <2>2, WaitingIsThere DEF AcceptedOnce, ServerEvents
  <2>4. ~WriteWaits'
    BY <2>2, <2>3, StillWaits
  <2> QED BY <2>1, <2>4 DEF AskedFor
<1>2. CASE CollectEvents(ServerLoop)
  <2>1. session = "open"
    BY <1>2 DEF CollectEvents, appVars
  <2> QED BY <1>2, <2>1, AskedReturned
<1>3. ASSUME \A l \in Loops : ~Accept(l), ~CollectEvents(ServerLoop), NEW l \in Loops, Thread(l) PROVE AskedFor'
  <2>1. session = "open"
    BY <1>0, <1>3, DisconnectsServer DEF AppMoves
  <2>2. CASE Idles(l)
    <3>1. Untouched(Server) /\ AtStays(Server)
      BY <1>0, <1>3, <2>2, IdlesTouchNothing
    <3>2. Calm
      BY <1>3, <2>2, ThreadCalm, IdlesOutside DEF SendEnds, Sending, InWrite
    <3>3. pending_data' = pending_data \/ pending_data' # <<>>
      BY <2>2, IdlesKeep
    <3> QED BY <1>3, <2>1, <3>1, <3>2, <3>3, AskedStays DEF Calm
  <2>3. CASE WritesPiece(l) \/ WritesKept(l)
    BY <1>3, <2>1, <2>3, AskedNothing
  <2>4. CASE (SendSome(l) \/ SendEnds(l)) /\ Cur(l) = Server
    BY <1>3, <2>1, <2>4, AskedSending
  <2>5. CASE ServerEchoed(l) \/ ServerWroteOn(l)
    BY <1>3, <2>1, <2>5, AskedAfter
  <2>6. CASE Connected(l) \/ ClientSent(l)
    <3>1. PICK name : BeginWrite(l, name, Unwritten)
      BY <2>6 DEF Connected, ClientSent
    <3>2. Cur(l) = Client /\ ~InWrite(l) /\ batch[l] # <<>> /\ UNCHANGED <<net, appVars>>
          /\ Head(batch[l]).filter = "WRITE"
      BY <2>6 DEF Connected, ClientSent, WriteEvent, Current, InWrite
    <3>3. LoopOf[Client] = l
      BY <3>2, HeadOfBatch DEF Belongs, Cur
    <3>4. Untouched(Server) /\ AtStays(Server)
      BY <1>0, <1>3, <3>1, <3>2, <3>3, PeerIs, WriteBegins
    <3>5. Calm
      BY <2>6, WriteCalm
    <3> QED BY <1>3, <2>1, <3>2, <3>4, <3>5, AskedStays DEF Calm, appVars
  <2>7. CASE (SendSome(l) \/ SendEnds(l)) /\ Cur(l) # Server
    <3>1. Cur(l) = Client /\ UNCHANGED appVars
      BY <1>3, <2>7, WriteGoesOn DEF Ends
    <3>2. Untouched(Server) /\ AtStays(Server)
      BY <1>3, <2>7, <3>1, PeerIs, WriteGoesOn
    <3>3. Calm
      BY <1>3, <2>7, ThreadCalm
    <3> QED BY <1>3, <2>1, <3>1, <3>2, <3>3, AskedStays DEF Calm, appVars
  <2>8. CASE ClientWroteFirst(l) \/ ClientWroteOn(l)
    <3>1. PICK name : Wrote(l, Client, name)
      BY <2>8 DEF ClientWroteFirst, ClientWroteOn
    <3>2. Handled(l) /\ UNCHANGED pending_data
      BY <2>8 DEF ClientWroteFirst, ClientWroteOn, ClientWrote
    <3>3. Untouched(Server) /\ AtStays(Server)
      BY <1>3, <3>1, <3>2, PeerIs, WriteReturns
    <3>4. Calm
      BY <2>8, WriteCalm
    <3> QED BY <1>3, <2>1, <3>2, <3>3, <3>4, AskedStays DEF Calm
  <2> QED BY <1>3, <2>2, <2>3, <2>4, <2>5, <2>6, <2>7, <2>8, ThreadSteps
<1>4. CASE /\ ~CollectEvents(ServerLoop)
           /\ Kernel(LinkStep) \/ (Outside /\ UNCHANGED <<linkVars, appVars, sockVars, load>>) \/ UNCHANGED vars
  <2>1. UNCHANGED <<at, batch, cb, wr, appVars>>
    BY <1>4 DEF Kernel, Outside, Stop, PostTask, Trigger, Expire, vars, kqueueVars, loopVars, sockVars
  <2>2. Untouched(Server) /\ AtStays(Server)
    BY <1>0, <2>1, IdleStep
  <2>3. Calm
    BY <1>4, OutsideCalm
  <2> QED BY <1>4, <2>1, <2>2, <2>3, AskedStays DEF Calm, appVars
<1> QED BY <1>1, <1>2, <1>3, <1>4 DEF Next

-----------------------------------------------------------------------------
(* The invariant holds *)

LEMMA DestroyedHolds ==
  ASSUME Typed, Bytes, Owned, [Next]_vars
  PROVE  Destroyed'
<1>0. AppMoves
  BY StepMoves DEF Typed
<1>1. CASE session = "erased"
  BY <1>1, DestroyedStays DEF Typed, Owned
<1>2. CASE \E l \in Loops : ServerDisconnected(l)
  BY <1>2, DestroyedNow DEF Typed, Owned
<1>3. CASE session # "erased" /\ \A l \in Loops : ~ServerDisconnected(l)
  <2>1. session' # "erased"
    BY <1>0, <1>3, AcceptsKnock DEF AppMoves, Typed, Owned
  <2> QED BY <2>1 DEF Destroyed
<1> QED BY <1>1, <1>2, <1>3

LEMMA OwnedInit == Init => Bytes /\ Owned
<1> SUFFICES ASSUME Init PROVE Bytes /\ Owned
  OBVIOUS
<1>1. /\ at = [l \in Loops |-> "out"] /\ batch = [l \in Loops |-> <<>>] /\ wr = [l \in Loops |-> NoWrite]
      /\ received_msg = <<>> /\ pending_data = <<>> /\ total_sent = 0 /\ session = "none"
      /\ net = [s \in Ends |-> [snd |-> <<>>, rcv |-> <<>>, closed |-> FALSE,
                                eof |-> FALSE, reset |-> FALSE, err |-> FALSE]]
      /\ sock = [s \in Socks |-> IF s = Server THEN [Fresh EXCEPT !.alive = FALSE, !.open = FALSE] ELSE Fresh]
  BY DEF Init, KqueueInit, LinkInit, AppInit
<1>2. /\ Client \in Ends /\ Server \in Ends /\ Server \in Socks
      /\ DataTypes /\ Len(<<>>) = 0 /\ \A q \in Seq(Nat) : Len(q) \in Nat
  BY SocksOfEnds, Loopy, InitWakes, LenProperties
<1>3. ~Writes(Client) /\ ~Writes(Server) /\ \A l \in Loops : batch[l] = <<>>
  BY <1>1, SocksOfEnds DEF Writes
<1>4. Bytes
  <2>1. Kept = 0 /\ Taken = 0 /\ Len(received_msg) = 0
    BY <1>1, <1>2, <1>3 DEF Kept, Taken
  <2>2. InNet = 0
    BY <1>1, <1>2 DEF InNet, Size
  <2>3. NoBytesMade
    BY <1>2, <2>1, <2>2 DEF NoBytesMade, DataTypes
  <2>4. Buffers
    BY <1>1, <1>2, <1>3 DEF Buffers, NoWrite
  <2> QED BY <2>3, <2>4 DEF Bytes
<1>5. ~sock[Server].open
  BY <1>1, <1>2 DEF Fresh
<1>6. Single /\ AcceptedOnce /\ AskedFor /\ Destroyed
  <2>1. batch[ServerLoop] = <<>>
    BY <1>3, Loopy
  <2>2. \A e : ~InBatch(ServerLoop, e)
    BY <2>1 DEF InBatch
  <2>3. AcceptedOnce
    BY <1>1, <1>5, <2>2 DEF AcceptedOnce
  <2> QED BY <1>1, <1>3, <2>3 DEF Single, AskedFor, Destroyed
<1>7. ClientLeft
  BY <1>1, <1>2 DEF ClientLeft
<1> QED BY <1>4, <1>6, <1>7 DEF Owned

LEMMA OwnedStep == Typed /\ Bytes /\ Owned /\ DataTypes' /\ [Next]_vars => Bytes' /\ Owned'
<1> SUFFICES ASSUME Typed, Bytes, Owned, DataTypes', [Next]_vars PROVE Bytes' /\ Owned'
  OBVIOUS
<1>1. LInv /\ DataTypes /\ Buffers /\ Single /\ AcceptedOnce /\ AskedFor /\ ClientLeft /\ Destroyed
  BY DEF Typed, Bytes, Owned
<1>2. Bytes'
  BY <1>1, BytesHold
<1>3. Single' /\ AcceptedOnce' /\ AskedFor' /\ ClientLeft' /\ Destroyed'
  BY <1>1, SingleHolds, AcceptedOnceHolds, AskedForHolds, ClientLeftHolds, DestroyedHolds
<1> QED BY <1>2, <1>3 DEF Owned

(* The server's socket is destroyed in its on_disconnected callback while  *)
(* the loop may still hold events that point to it.  When the whole        *)
(* message is back the client waits for nothing, so the server has nothing *)
(* to write, has asked for no WRITE event, and the READ event that told of *)
(* the end was the last one.                                               *)
THEOREM SocketNotUsedAfterDestroy == Spec => []NoUseAfterDestroy
<1> DEFINE Inv == Bytes /\ Owned
<1>1. Init => Inv
  BY OwnedInit
<1>2. Inv /\ Typed /\ DataTypes' /\ [Next]_vars => Inv'
  BY OwnedStep
<1>3. Inv => NoUseAfterDestroy
  BY DEF Owned, Destroyed, NoUseAfterDestroy, ServerEvents, ReadServer, WriteServer
<1>4. KInv => Typed
  BY DEF KInv, Typed
<1>5. KInv => DataTypes
  BY DEF KInv
<1> HIDE DEF Inv
<1> QED BY <1>1, <1>2, <1>3, <1>4, <1>5, EdgesInvariance, PTL DEF Spec
=============================================================================
