------------------------------ MODULE IocpLoop ------------------------------
(***************************************************************************)
(* The Windows io_context (src/src/windows/socket_base.cpp): a completion  *)
(* port, the thread inside wait_for_input that takes one packet at a time  *)
(* from it, exec and stop called from any thread, and timers, whose        *)
(* expiry runs on_timer on a thread of the system's timer queue.           *)
(*                                                                         *)
(* The module is a library: IocpSession adds the sockets, whose operations *)
(* the kernel completes by queueing packets too.  exec is one step: a      *)
(* callback is in the port as soon as PostQueuedCompletionStatus returns,  *)
(* and there is no queue beside the port.                                  *)
(***************************************************************************)
EXTENDS Naturals, Sequences

CONSTANTS Loops,      \* the io_contexts, each with the thread that runs it
          Io,         \* the one that other threads post to and that has the timers
          Timers,     \* its timers
          MaxEnters   \* bound: calls of wait_for_input of each loop

ASSUME IocpAssumption == Io \in Loops /\ MaxEnters \in Nat

VARIABLES run,        \* io_context_pimpl::run of each loop
          at,         \* where each loop's thread is: out, check, wait
          port,       \* the packets queued at each completion port, oldest first
          enters,     \* history: calls of wait_for_input of each loop
          tasks,      \* how many callbacks other threads still post
          ran,        \* history: callbacks invoked by Io, in order
          handed,     \* history: callbacks handed to Io
          timer       \* each timer: armed, expired, posted, called, cancelled

loopVars == <<run, at, enters>>
execVars == <<tasks, ran, handed>>
iocpVars == <<loopVars, port, execVars, timer>>

(* What a callback does when it is invoked; the one that on_timer posts    *)
(* calls its timer's callback.                                             *)
Plain == {"plain", "stop", "post", "throw"}
Kinds == Plain \cup Timers

Callback(n, k) == [id |-> n, kind |-> k]
ExecPacket(n, k) == [op |-> "exec", call |-> Callback(n, k)]

IocpInit(n, armed) ==
    /\ run = [l \in Loops |-> FALSE] /\ at = [l \in Loops |-> "out"]
    /\ port = [l \in Loops |-> <<>>] /\ enters = [l \in Loops |-> 0]
    /\ tasks = n /\ ran = <<>> /\ handed = 0
    /\ timer = [t \in Timers |-> IF t \in armed THEN "armed" ELSE "cancelled"]

-----------------------------------------------------------------------------
(* exec, stop and the timers, on any thread *)

(* io_context::exec: q is the port's queue before the packet.              *)
ExecWhenRunning(q, k) ==           \* mutant: not while nobody waits for input
    /\ port' = [port EXCEPT ![Io] = IF run[Io] THEN Append(q, ExecPacket(handed + 1, k)) ELSE q]
    /\ handed' = handed + 1
ExecFirst(q, k) ==                 \* mutant: exec overtakes what is queued
    /\ port' = [port EXCEPT ![Io] = <<ExecPacket(handed + 1, k)>> \o q]
    /\ handed' = handed + 1
Exec(q, k) ==
    /\ port' = [port EXCEPT ![Io] = Append(q, ExecPacket(handed + 1, k))]
    /\ handed' = handed + 1

PostTask ==
    /\ tasks > 0
    /\ tasks' = tasks - 1
    /\ \E k \in Plain : Exec(port[Io], k)
    /\ UNCHANGED <<loopVars, ran, timer>>

(* From a thread that is not the loop's: only the flag changes.            *)
Stop ==
    /\ tasks > 0 /\ at[Io] # "out"
    /\ tasks' = tasks - 1
    /\ run' = [run EXCEPT ![Io] = FALSE]
    /\ UNCHANGED <<at, enters, port, ran, handed, timer>>

(* The timer queue calls on_timer, which posts a callback for the timer.   *)
Expire(t) ==
    /\ timer[t] = "armed"
    /\ timer' = [timer EXCEPT ![t] = "expired"]
    /\ UNCHANGED <<loopVars, port, execVars>>

OnTimer(t) ==
    /\ timer[t] = "expired"
    /\ timer' = [timer EXCEPT ![t] = "posted"]
    /\ Exec(port[Io], t)
    /\ UNCHANGED <<loopVars, tasks, ran>>

(* cancel deletes the timer from the queue.  It does not wait for an       *)
(* on_timer that has begun, and what that has posted stays posted.         *)
Cancel(t) ==
    /\ timer[t] = "armed"
    /\ timer' = [timer EXCEPT ![t] = "cancelled"]
    /\ UNCHANGED <<loopVars, port, execVars>>

-----------------------------------------------------------------------------
(* wait_for_input: run is looked at between packets, not while the thread  *)
(* blocks in GetQueuedCompletionStatus.                                    *)

Enter(l) ==
    /\ at[l] = "out" /\ enters[l] < MaxEnters
    /\ run' = [run EXCEPT ![l] = TRUE]
    /\ at' = [at EXCEPT ![l] = "check"]
    /\ enters' = [enters EXCEPT ![l] = @ + 1]
    /\ UNCHANGED <<port, execVars, timer>>

Check(l) ==
    /\ at[l] = "check"
    /\ at' = [at EXCEPT ![l] = IF run[l] THEN "wait" ELSE "out"]
    /\ UNCHANGED <<run, enters, port, execVars, timer>>

Arrived(l, op) == at[l] = "wait" /\ port[l] # <<>> /\ Head(port[l]).op = op
Packet(l) == Head(port[l])

(* The packet has been dealt with, or an exception has left the handler    *)
(* and, with it, wait_for_input.                                           *)
Handled(l, threw) ==
    /\ at' = [at EXCEPT ![l] = IF threw THEN "out" ELSE "check"]
    /\ UNCHANGED enters
Taken(l) == port' = [port EXCEPT ![l] = Tail(@)]

(* A packet without a socket: the callback is invoked and destroyed.       *)
Invoked(l, kinds) ==
    /\ l = Io /\ Arrived(l, "exec")
    /\ Packet(l).call.kind \in kinds
    /\ ran' = Append(ran, Packet(l).call)
    /\ Handled(l, Packet(l).call.kind = "throw")

RunPlain(l) ==
    /\ Invoked(l, {"plain", "throw"})
    /\ Taken(l)
    /\ UNCHANGED <<run, tasks, handed, timer>>

RunStop(l) ==
    /\ Invoked(l, {"stop"})
    /\ Taken(l)
    /\ run' = [run EXCEPT ![l] = FALSE]
    /\ UNCHANGED <<tasks, handed, timer>>

(* The callback calls exec, once. *)
RunPost(l) ==
    /\ Invoked(l, {"post"})
    /\ \E k \in Plain \ {"post"} : Exec(Tail(port[l]), k)
    /\ UNCHANGED <<run, tasks, timer>>

RunTimer(l) ==
    /\ Invoked(l, Timers)
    /\ Taken(l)
    /\ timer' = [timer EXCEPT ![Packet(l).call.kind] = "called"]
    /\ UNCHANGED <<run, tasks, handed>>

RunExec(l) == RunPlain(l) \/ RunStop(l) \/ RunPost(l) \/ RunTimer(l)
Outside == PostTask \/ Stop \/ \E t \in Timers : Expire(t) \/ OnTimer(t) \/ Cancel(t)

-----------------------------------------------------------------------------
(* Properties *)

(* The callbacks in the port, among other packets, are the queue exec      *)
(* promises.  Nothing is ever lost: an exception takes only its own        *)
(* callback, because the others are not taken out of the port before.      *)
Calls(q) ==
    LET execs == SelectSeq(q, LAMBDA p : p.op = "exec")
    IN  [i \in DOMAIN execs |-> execs[i].call]
Queue == INSTANCE CallbackQueue WITH todo <- Calls(port[Io]), lost <- {}
ExecIsAQueue == Queue!Spec

(* A timer that has expired is called while the loop runs, whether         *)
(* on_timer posts before wait_for_input begins or inside it, and whatever  *)
(* other packets keep coming.  The obligation stands in every state in     *)
(* which the loop runs and the timer has not been called, and only the     *)
(* call or the end of the loop discharges it.                              *)
TimersFire ==
    \A t \in Timers :
        (timer[t] \in {"expired", "posted"} /\ at[Io] # "out") ~> (timer[t] = "called" \/ at[Io] = "out")
=============================================================================
