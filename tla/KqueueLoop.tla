----------------------------- MODULE KqueueLoop -----------------------------
(***************************************************************************)
(* The macOS io_context (src/src/macos/socket_base.cpp): a kqueue, the     *)
(* thread inside wait_for_input that takes a batch of events from it, exec *)
(* and stop called from any thread, and timers known by their address.     *)
(*                                                                         *)
(* The events of exec (EVFILT_USER) and of sockets (EVFILT_READ) are       *)
(* edges: taking one clears it (EV_CLEAR), whether or not it is handled.   *)
(* The module is a library: KqueueSession adds the sockets.                *)
(***************************************************************************)
EXTENDS Naturals, Sequences, FiniteSets

CONSTANTS Loops,      \* the io_contexts, each with the thread that runs it
          Io,         \* the one that other threads post to and that has the timers
          Posters,    \* those threads
          Timers,     \* the timers
          MaxEnters,  \* bound: calls of wait_for_input of each loop
          MaxEvents   \* size of the array given to kevent (5)

ASSUME KqueueAssumption ==
    Io \in Loops /\ IsFiniteSet(Timers) /\ MaxEnters \in Nat /\ MaxEvents \in Nat \ {0}

VARIABLES run,        \* io_context_pimpl::run_ of each loop
          at,         \* where each loop's thread is
          batch,      \* the events of each loop that are not yet dealt with
          enters,     \* history: calls of wait_for_input of each loop
          user,       \* is the EVFILT_USER event of Io triggered?
          pending,    \* pending_callbacks_ of Io
          tasks,      \* the queue swapped out by its thread
          posting,    \* posters between the push and the trigger of exec
          posts,      \* how often other threads still call exec or stop
          ran,        \* history: callbacks invoked, in order
          lost,       \* history: callbacks destroyed without having been invoked
          handed,     \* history: callbacks handed over
          timer,      \* each timer: armed, expired, called, destroyed
          dropped     \* history: events of a batch that an exception has ended

execVars == <<user, pending, tasks, posting, posts, ran, lost, handed>>
loopVars == <<run, at, batch, enters, dropped>>
kqueueVars == <<execVars, loopVars, timer>>

(* What a callback does: one of them destroys a timer.                     *)
Plain == {"plain", "stop", "throw"} \cup (IF Timers = {} THEN {} ELSE {"destroy"})
Kinds == Plain \cup {"post"}

Event(f, x) == [filter |-> f, of |-> x]
UserEvent == Event("USER", Io)

KqueueInit(n, armed) ==
    /\ run = [l \in Loops |-> FALSE] /\ at = [l \in Loops |-> "out"]
    /\ batch = [l \in Loops |-> <<>>] /\ enters = [l \in Loops |-> 0]
    /\ user = FALSE /\ pending = <<>> /\ tasks = <<>> /\ posting = {} /\ posts = n
    /\ ran = <<>> /\ lost = {} /\ handed = 0
    /\ timer = [t \in Timers |-> IF t \in armed THEN "armed" ELSE "destroyed"]
    /\ dropped = {}

-----------------------------------------------------------------------------
(* exec and stop on other threads: the event is triggered after the mutex  *)
(* has been released.                                                      *)

Push(k) ==
    /\ pending' = Append(pending, [id |-> handed + 1, kind |-> k])
    /\ handed' = handed + 1

PostTask(p) ==
    /\ posts > 0 /\ p \notin posting
    /\ posts' = posts - 1
    /\ \E k \in Kinds : Push(k)
    /\ posting' = posting \cup {p}
    /\ UNCHANGED <<user, tasks, ran, lost, loopVars, timer>>

Trigger(p) ==
    /\ p \in posting
    /\ posting' = posting \ {p}
    /\ user' = TRUE
    /\ UNCHANGED <<pending, tasks, posts, ran, lost, handed, loopVars, timer>>

Stop ==
    /\ posts > 0 /\ at[Io] # "out"
    /\ posts' = posts - 1
    /\ run' = [run EXCEPT ![Io] = FALSE]
    /\ UNCHANGED <<user, pending, tasks, posting, ran, lost, handed, at, batch, enters, dropped, timer>>

Expire(t) ==
    /\ timer[t] = "armed"
    /\ timer' = [timer EXCEPT ![t] = "expired"]
    /\ UNCHANGED <<execVars, loopVars>>

-----------------------------------------------------------------------------
(* wait_for_input *)

Enter(l) ==
    /\ at[l] = "out" /\ enters[l] < MaxEnters
    /\ run' = [run EXCEPT ![l] = TRUE]
    /\ at' = [at EXCEPT ![l] = "next"]
    /\ enters' = [enters EXCEPT ![l] = @ + 1]
    /\ UNCHANGED <<batch, dropped, execVars, timer>>

(* run_ is looked at after each batch. *)
Check(l) ==
    /\ at[l] = "next" /\ batch[l] = <<>>
    /\ at' = [at EXCEPT ![l] = IF run[l] THEN "wait" ELSE "out"]
    /\ UNCHANGED <<run, batch, enters, dropped, execVars, timer>>

OwnEvents(l) ==
    IF l # Io THEN {}
    ELSE {Event("TIMER", t) : t \in {t \in Timers : timer[t] = "expired"}}
         \cup (IF user THEN {UserEvent} ELSE {})

(* kevent returns as many of the ready events as the array holds, in any   *)
(* order; what it returns is cleared.                                      *)
Batches(ready) ==
    LET n == IF Cardinality(ready) < MaxEvents THEN Cardinality(ready) ELSE MaxEvents
    IN  {b \in [1..n -> ready] : \A i, j \in 1..n : b[i] = b[j] => i = j}

Collect(l, ready) ==
    /\ at[l] = "wait" /\ ready # {}
    /\ \E b \in Batches(ready) : batch' = [batch EXCEPT ![l] = b]
    /\ at' = [at EXCEPT ![l] = "next"]
    /\ user' = (user /\ UserEvent \notin {batch'[l][i] : i \in DOMAIN batch'[l]})
    /\ timer' = [t \in Timers |->
                    IF \E i \in DOMAIN batch'[l] : batch'[l][i] = Event("TIMER", t) THEN "collected"
                    ELSE timer[t]]
    /\ UNCHANGED <<run, enters, dropped, pending, tasks, posting, posts, ran, lost, handed>>

Current(l, f) == at[l] = "next" /\ batch[l] # <<>> /\ Head(batch[l]).filter = f
Cur(l) == Head(batch[l]).of

(* The event has been dealt with, or an exception has left the handler,    *)
(* and the rest of the batch with it.                                      *)
Handled(l) ==
    /\ batch' = [batch EXCEPT ![l] = Tail(@)]
    /\ at' = [at EXCEPT ![l] = "next"]
    /\ UNCHANGED <<enters, dropped>>

Threw(l) ==
    /\ dropped' = dropped \cup {batch[l][i] : i \in 2..Len(batch[l])}
    /\ batch' = [batch EXCEPT ![l] = <<>>]
    /\ at' = [at EXCEPT ![l] = "out"]
    /\ UNCHANGED <<run, enters>>

SwapCopies ==                  \* mutant: the queue is copied and not emptied
    /\ tasks' = pending
    /\ UNCHANGED pending
Swap ==
    /\ tasks' = pending
    /\ pending' = <<>>

HandleUser(l) ==
    /\ Current(l, "USER")
    /\ Swap
    /\ at' = [at EXCEPT ![l] = "tasks"]
    /\ UNCHANGED <<run, batch, enters, dropped, user, posting, posts, ran, lost, handed, timer>>

Invoked(l, k) ==
    /\ l = Io /\ at[l] = "tasks" /\ tasks # <<>> /\ Head(tasks).kind = k
    /\ ran' = Append(ran, Head(tasks))

RunPlain(l) ==
    /\ Invoked(l, "plain")
    /\ tasks' = Tail(tasks)
    /\ UNCHANGED <<user, pending, posting, posts, lost, handed, loopVars, timer>>

RunStop(l) ==
    /\ Invoked(l, "stop")
    /\ tasks' = Tail(tasks)
    /\ run' = [run EXCEPT ![l] = FALSE]
    /\ UNCHANGED <<user, pending, posting, posts, lost, handed, at, batch, enters, dropped, timer>>

RunPost(l) ==
    /\ Invoked(l, "post")
    /\ tasks' = Tail(tasks)
    /\ \E k \in Plain : Push(k)
    /\ user' = TRUE
    /\ UNCHANGED <<posting, posts, lost, loopVars, timer>>

(* The timer's event is deleted with it.  A timer whose event is in the    *)
(* batch already is not destroyed by the model's application.              *)
RunDestroy(l) ==
    /\ Invoked(l, "destroy")
    /\ tasks' = Tail(tasks)
    /\ \E t \in Timers : /\ timer[t] # "collected"
                         /\ timer' = [timer EXCEPT ![t] = "destroyed"]
    /\ UNCHANGED <<user, pending, posting, posts, lost, handed, loopVars>>

(* The exception destroys the queue that was swapped out. *)
RunThrow(l) ==
    /\ Invoked(l, "throw")
    /\ lost' = lost \cup {tasks[i] : i \in 2..Len(tasks)}
    /\ tasks' = <<>>
    /\ Threw(l)
    /\ UNCHANGED <<user, pending, posting, posts, handed, timer>>

EndTasks(l) ==
    /\ l = Io /\ at[l] = "tasks" /\ tasks = <<>>
    /\ Handled(l)
    /\ UNCHANGED <<run, execVars, timer>>

HandleTimer(l) ==
    /\ Current(l, "TIMER")
    /\ timer' = [timer EXCEPT ![Cur(l)] = "called"]
    /\ Handled(l)
    /\ UNCHANGED <<run, execVars>>

LoopStep(l) ==
    \/ Check(l) \/ HandleUser(l) \/ EndTasks(l) \/ HandleTimer(l)
    \/ RunPlain(l) \/ RunStop(l) \/ RunPost(l) \/ RunDestroy(l) \/ RunThrow(l)

Outside == Stop \/ (\E p \in Posters : PostTask(p) \/ Trigger(p)) \/ \E t \in Timers : Expire(t)

-----------------------------------------------------------------------------
(* Properties *)

(* pending_callbacks_ and the queue swapped out are the queue exec         *)
(* promises.                                                               *)
Queue == INSTANCE CallbackQueue WITH todo <- tasks \o pending
ExecIsAQueue == Queue!Spec

InBatch(l, e) == \E i \in DOMAIN batch[l] : batch[l][i] = e

(* A pending callback always has an event on the way, unless an exception  *)
(* has thrown it away: then it waits for the next call of exec.            *)
UserWakeup ==
    pending # <<>> => \/ user \/ posting # {}
                      \/ InBatch(Io, UserEvent) /\ at[Io] # "tasks"
                      \/ UserEvent \in dropped
=============================================================================
