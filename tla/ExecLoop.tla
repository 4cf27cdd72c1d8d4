------------------------------ MODULE ExecLoop ------------------------------
(***************************************************************************)
(* The Linux io_context (src/src/linux/socket_base.cpp): exec() called     *)
(* from any thread, stop() called from any thread, and the thread inside   *)
(* wait_for_input() that collects epoll events and dispatches handlers.    *)
(*                                                                         *)
(* A step is one critical section, one system call or one callback.  The   *)
(* handlers of sockets and timers appear as "other" events: they wake      *)
(* epoll_wait and may call stop().                                         *)
(***************************************************************************)
EXTENDS Naturals, Sequences, FiniteSets

CONSTANTS Posters,      \* threads, other than the loop's, that call exec and stop
          Loop,         \* the thread that calls wait_for_input
          MaxTasks,     \* bound: callbacks handed to exec in a behaviour
          MaxEnters,    \* bound: calls of wait_for_input in a behaviour
          EventFdMax,   \* largest value of an eventfd counter (2^64 - 2)
          MaxOthers     \* what other io_contexts have added to the static counter

ASSUME LoopAssumption == Loop \notin Posters /\ IsFiniteSet(Posters)
ASSUME BoundAssumption == MaxTasks \in Nat /\ MaxEnters \in Nat /\ MaxOthers \in Nat
(* The static counter alone never reaches the limit; the sum of its values,*)
(* which is what the eventfd accumulates, does.                            *)
ASSUME EventFdAssumption == EventFdMax \in Nat /\ MaxOthers + MaxTasks <= EventFdMax

VARIABLES run,          \* io_context_pimpl::run
          pending,      \* io_context_pimpl::pending_callbacks_
          efd,          \* counter of the eventfd behind exec_event_handler::fd_
          cont,         \* the static counter of exec_event_handler::trigger
          exec,         \* per thread: where it is inside io_context_pimpl::exec
          mine,         \* per thread: the local variable counter of trigger
          pc,           \* where the loop thread is inside wait_for_input
          events,       \* events of the current epoll_wait still to dispatch
          batch,        \* the local queue of exec_event_handler::handle_event
          ran,          \* history: callbacks invoked, in order
          lost,         \* history: callbacks destroyed uninvoked
          handed,       \* history: number of callbacks pushed
          enters        \* history: number of calls of wait_for_input

queueVars == <<pending, batch, ran, lost, handed>>
loopVars  == <<run, pc, events, enters>>
fdVars    == <<efd, cont, exec, mine>>
vars      == <<queueVars, loopVars, fdVars>>

Threads == Posters \cup {Loop}

(* What a callback does: nothing that matters here, call stop(), call      *)
(* exec(), or throw.                                                       *)
Kinds == {"plain", "stop", "post", "throw"}

Callback(n, k) == [id |-> n, kind |-> k]
Elements(s) == {s[i] : i \in DOMAIN s}

Init ==
    /\ run = FALSE
    /\ pending = <<>> /\ batch = <<>> /\ ran = <<>> /\ lost = {} /\ handed = 0
    /\ efd = 0
    /\ cont \in 0..MaxOthers
    /\ exec = [t \in Threads |-> "none"]
    /\ mine = [t \in Threads |-> 0]
    /\ pc = "out" /\ events = <<>> /\ enters = 0

-----------------------------------------------------------------------------
(* io_context::exec, in three steps: push under exec_mutex_, increment the *)
(* static counter, write it to the eventfd.                                *)

Push(t) ==
    /\ handed < MaxTasks
    /\ exec[t] = "none"
    /\ \E k \in Kinds : pending' = Append(pending, Callback(handed + 1, k))
    /\ handed' = handed + 1
    /\ exec' = [exec EXCEPT ![t] = "pushed"]

PostTask(t) ==
    /\ t \in Posters
    /\ Push(t)
    /\ UNCHANGED <<batch, ran, lost, efd, cont, mine, loopVars>>

(* Mutant: cont++ instead of ++cont.                                       *)
CountAfter(t) ==
    /\ exec[t] = "pushed"
    /\ cont' = cont + 1
    /\ mine' = [mine EXCEPT ![t] = cont]
    /\ exec' = [exec EXCEPT ![t] = "counted"]
    /\ UNCHANGED <<efd, queueVars, loopVars>>

Count(t) ==
    /\ exec[t] = "pushed"
    /\ cont' = cont + 1
    /\ mine' = [mine EXCEPT ![t] = cont + 1]
    /\ exec' = [exec EXCEPT ![t] = "counted"]
    /\ UNCHANGED <<efd, queueVars, loopVars>>

(* An exception leaves a handler: the local queue of handle_event, with    *)
(* the callbacks still in it, and wait_for_input are unwound.              *)
Unwound(rest) ==
    /\ lost' = lost \cup Elements(rest)
    /\ batch' = <<>> /\ events' = <<>> /\ pc' = "out"

(* Mutant: the write is skipped when the loop is not running.              *)
TriggerOnlyWhenRunning(t) ==
    /\ exec[t] = "counted"
    /\ efd + mine[t] <= EventFdMax
    /\ efd' = IF run THEN efd + mine[t] ELSE efd
    /\ exec' = [exec EXCEPT ![t] = "none"]
    /\ UNCHANGED <<cont, mine, queueVars, loopVars>>

Trigger(t) ==
    /\ exec[t] = "counted"
    /\ efd + mine[t] <= EventFdMax
    /\ efd' = efd + mine[t]
    /\ exec' = [exec EXCEPT ![t] = "none"]
    /\ UNCHANGED <<cont, mine, queueVars, loopVars>>

(* The eventfd is non-blocking: a write that would overflow it fails with  *)
(* EAGAIN and trigger throws.  The callback is already in the queue.       *)
TriggerThrows(t) ==
    /\ exec[t] = "counted"
    /\ efd + mine[t] > EventFdMax
    /\ exec' = [exec EXCEPT ![t] = "none"]
    /\ IF t = Loop
       THEN Unwound(batch)
       ELSE UNCHANGED <<lost, batch, events, pc>>
    /\ UNCHANGED <<run, enters, efd, cont, mine, pending, ran, handed>>

(* io_context::stop from a thread that is not the loop's.                  *)
Stop(t) ==
    /\ t \in Posters
    /\ exec[t] = "none"
    /\ run' = FALSE
    /\ UNCHANGED <<pc, events, enters, queueVars, fdVars>>

-----------------------------------------------------------------------------
(* io_context_pimpl::wait_for_input *)

Enter ==
    /\ pc = "out"
    /\ enters < MaxEnters
    /\ run' = TRUE
    /\ pc' = "check"
    /\ enters' = enters + 1
    /\ UNCHANGED <<events, queueVars, fdVars>>

(* Mutant: run is set at every turn of the loop.                           *)
CheckSetsRun ==
    /\ pc = "check"
    /\ pc' = "poll"
    /\ run' = TRUE
    /\ UNCHANGED <<events, enters, queueVars, fdVars>>

Check ==
    /\ pc = "check"
    /\ pc' = IF run THEN "poll" ELSE "out"
    /\ UNCHANGED <<run, events, enters, queueVars, fdVars>>

(* epoll_wait returns the ready descriptors; nothing ever reads the        *)
(* eventfd, so once written it stays ready.                                *)
Collect(evs) ==
    /\ pc = "poll"
    /\ events' = evs
    /\ pc' = "dispatch"
    /\ UNCHANGED <<run, enters, queueVars, fdVars>>

CollectExec == efd > 0 /\ \E evs \in {<<"exec">>, <<"exec", "other">>, <<"other", "exec">>} : Collect(evs)
CollectOther == Collect(<<"other">>)

(* epoll_wait fails (a signal, for instance): wait_for_input throws.       *)
PollFails ==
    /\ pc = "poll"
    /\ pc' = "out"
    /\ UNCHANGED <<run, events, enters, queueVars, fdVars>>

(* Another handler runs; its callback may call io.stop().                  *)
HandleOther ==
    /\ pc = "dispatch"
    /\ events # <<>>
    /\ Head(events) = "other"
    /\ run' \in {run, FALSE}
    /\ events' = Tail(events)
    /\ UNCHANGED <<pc, enters, queueVars, fdVars>>

(* Another handler throws (a failed epoll_ctl or timerfd_settime, or the   *)
(* application's callback): the rest of the events go with it.             *)
OtherThrows ==
    /\ pc = "dispatch"
    /\ events # <<>>
    /\ Head(events) = "other"
    /\ events' = <<>>
    /\ pc' = "out"
    /\ UNCHANGED <<run, enters, queueVars, fdVars>>

EndDispatch ==
    /\ pc = "dispatch"
    /\ events = <<>>
    /\ pc' = "check"
    /\ UNCHANGED <<run, events, enters, queueVars, fdVars>>

-----------------------------------------------------------------------------
(* exec_event_handler::handle_event *)

(* Mutant: the shared queue is copied and not emptied.                     *)
SwapCopies ==
    /\ pc = "dispatch"
    /\ events # <<>>
    /\ Head(events) = "exec"
    /\ batch' = pending
    /\ pc' = "drain"
    /\ UNCHANGED <<run, events, enters, pending, ran, lost, handed, fdVars>>

(* Swap the local queue with pending_callbacks_ under exec_mutex_.         *)
Swap ==
    /\ pc = "dispatch"
    /\ events # <<>>
    /\ Head(events) = "exec"
    /\ batch' = pending
    /\ pending' = <<>>
    /\ pc' = "drain"
    /\ UNCHANGED <<run, events, enters, ran, lost, handed, fdVars>>

Draining == pc = "drain" /\ exec[Loop] = "none"

Pop ==
    /\ Draining
    /\ batch # <<>>
    /\ ran' = Append(ran, Head(batch))

RunPlain ==
    /\ Pop
    /\ Head(batch).kind \in {"plain", "post"}   \* a callback that may exec, and does not
    /\ batch' = Tail(batch)
    /\ UNCHANGED <<pending, lost, handed, loopVars, fdVars>>

(* Mutant: handle_event returns as soon as the loop has been stopped.      *)
RunStopReturns ==
    /\ Pop
    /\ Head(batch).kind = "stop"
    /\ run' = FALSE
    /\ batch' = <<>>
    /\ UNCHANGED <<pending, lost, handed, pc, events, enters, fdVars>>

RunStop ==
    /\ Pop
    /\ Head(batch).kind = "stop"
    /\ run' = FALSE
    /\ batch' = Tail(batch)
    /\ UNCHANGED <<pending, lost, handed, pc, events, enters, fdVars>>

(* Mutant: on the loop's thread, exec appends to the queue being drained.  *)
RunPostLocally ==
    /\ Pop
    /\ Head(batch).kind = "post"
    /\ handed < MaxTasks
    /\ \E k \in Kinds : batch' = Append(Tail(batch), Callback(handed + 1, k))
    /\ handed' = handed + 1
    /\ UNCHANGED <<pending, lost, loopVars, fdVars>>

(* The callback calls io.exec: the mutex is not held while callbacks run.  *)
RunPost ==
    /\ Pop
    /\ Head(batch).kind = "post"
    /\ batch' = Tail(batch)
    /\ Push(Loop)
    /\ UNCHANGED <<lost, efd, cont, mine, loopVars>>

RunThrow ==
    /\ Pop
    /\ Head(batch).kind = "throw"
    /\ Unwound(Tail(batch))
    /\ UNCHANGED <<pending, handed, run, enters, fdVars>>

EndDrain ==
    /\ Draining
    /\ batch = <<>>
    /\ pc' = "dispatch"
    /\ events' = Tail(events)
    /\ UNCHANGED <<run, enters, queueVars, fdVars>>

-----------------------------------------------------------------------------
ExecStep(t) == Count(t) \/ Trigger(t) \/ TriggerThrows(t)
Drain == RunPlain \/ RunStop \/ RunPost \/ RunThrow \/ EndDrain
LoopStep == Check \/ HandleOther \/ EndDispatch \/ Swap \/ Drain

Next ==
    \/ \E t \in Threads : ExecStep(t)
    \/ \E t \in Posters : PostTask(t) \/ Stop(t)
    \/ Enter \/ CollectExec \/ CollectOther \/ PollFails \/ OtherThrows
    \/ LoopStep

(* A thread inside exec finishes it, and the loop thread keeps running.    *)
(* epoll_wait hands out ready descriptors in turn (the kernel requeues a   *)
(* level-triggered descriptor at the tail of its ready list), so a ready   *)
(* eventfd is not passed over for ever: strong fairness of CollectExec.    *)
(* Nobody is obliged to call exec, stop or wait_for_input.                 *)
Fairness ==
    /\ \A t \in Threads : WF_vars(ExecStep(t))
    /\ WF_vars(LoopStep)
    /\ SF_vars(CollectExec)

Spec == Init /\ [][Next]_vars
FairSpec == Spec /\ Fairness

-----------------------------------------------------------------------------
(* Properties *)

(* Every variable keeps to its range; a queue holds callbacks that were    *)
(* handed over (pending_callbacks_, callbacks and fd_ of                   *)
(* exec_event_handler).  What trigger is about to write is not 0, which    *)
(* would leave the eventfd unreadable and wake nobody.                     *)
Callbacks == [id : 1..MaxTasks, kind : Kinds]
TypeOK ==
    /\ run \in BOOLEAN
    /\ pending \in Seq(Callbacks) /\ batch \in Seq(Callbacks) /\ ran \in Seq(Callbacks)
    /\ lost \in SUBSET Callbacks
    /\ handed \in 0..MaxTasks
    /\ efd \in 0..EventFdMax
    /\ cont \in Nat
    /\ exec \in [Threads -> {"none", "pushed", "counted"}]
    /\ mine \in [Threads -> Nat]
    /\ \A t \in Threads : exec[t] = "counted" => mine[t] \in 1..cont
    /\ pc \in {"out", "check", "poll", "dispatch", "drain"}
    /\ events \in Seq({"exec", "other"})
    /\ pc = "drain" => events # <<>>
    /\ enters \in 0..MaxEnters

Sorted(s) == \A i, j \in DOMAIN s : i < j => s[i].id < s[j].id
Below(s, t) == \A i \in DOMAIN s, j \in DOMAIN t : s[i].id < t[j].id

(* Callbacks are invoked in the order in which exec pushed them, whatever  *)
(* thread pushed them, and none is invoked twice: what has run precedes    *)
(* what the loop took out of the shared queue, and that precedes what is   *)
(* still in it.                                                            *)
InOrder ==
    /\ Sorted(ran) /\ Sorted(batch) /\ Sorted(pending)
    /\ Below(ran, batch) /\ Below(ran, pending) /\ Below(batch, pending)

(* No callback handed to exec disappears unless one that was queued before *)
(* it threw: the swap, the callbacks that call exec while the queue is     *)
(* drained, a stop in the middle of the queue and an exec that fails in    *)
(* trigger lose nothing of their own.                                      *)
OnlyThrowsLose ==
    \A n \in 1..handed :
        \/ \E c \in Elements(ran) \cup Elements(batch) \cup Elements(pending) : c.id = n
        \/ /\ \E c \in lost : c.id = n
           /\ \E c \in Elements(ran) : c.id < n /\ c.kind \in {"throw", "post"}

(* A callback in the shared queue is never forgotten: either the eventfd   *)
(* is readable, so the next epoll_wait returns, or the thread that pushed  *)
(* it is still on its way to write the eventfd.  It holds when a trigger   *)
(* fails with EAGAIN too: the counter that was full is not zero.           *)
NoLostWakeup ==
    pending # <<>> => efd > 0 \/ \E t \in Threads : exec[t] # "none"

Queued(n) == \E c \in Elements(batch) \cup Elements(pending) : c.id = n

(* While the loop is running, a callback handed to exec gets its turn or   *)
(* the loop ends (a stop, or an exception).                                *)
CallbackGetsItsTurn ==
    \A n \in 1..MaxTasks : (Queued(n) /\ pc # "out") ~> (~Queued(n) \/ pc = "out")

(* wait_for_input returns once a callback that calls stop() is in the      *)
(* queue, and once stop() has been called from any thread if exec was ever *)
(* used: the eventfd nobody reads keeps waking epoll_wait.                 *)
StopQueued == \E c \in Elements(batch) \cup Elements(pending) : c.kind = "stop"
StopReturns ==
    (pc # "out" /\ (StopQueued \/ (~run /\ efd > 0))) ~> pc = "out"

(* The two queues together are the one queue io_context::exec promises.    *)
Queue == INSTANCE CallbackQueue WITH todo <- batch \o pending
ExecIsAQueue == Queue!Spec
=============================================================================
