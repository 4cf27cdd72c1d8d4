------------------------------- MODULE Timers -------------------------------
(***************************************************************************)
(* The timers of the Linux io_context (timer_impl in                       *)
(* src/src/linux/socket_base.cpp): a timerfd registered with epoll, the    *)
(* process's table of descriptors, and the loop that collects a batch of   *)
(* expired timers and calls their callbacks one after the other.           *)
(*                                                                         *)
(* Everything but the clock happens on one thread.  The application acts   *)
(* before it enters wait_for_input, inside a callback, and after the loop. *)
(***************************************************************************)
EXTENDS Naturals, Sequences, FiniteSets

CONSTANTS Timers,      \* the timer objects, each constructed at most once
          MaxFd,       \* bound: descriptors the process can open
          LateOpens    \* may a timer be constructed while a cancelled one exists?

Fds == 1..MaxFd
None == "none"         \* no owner: the descriptor is closed
Leaked == "leaked"     \* open, and nobody will close it

ASSUME TimerAssumption ==
    /\ MaxFd \in Nat /\ LateOpens \in BOOLEAN
    /\ IsFiniteSet(Timers) /\ Timers \cap {None, Leaked} = {}

VARIABLES obj,      \* each timer_impl: its life, timer_fd_, milliseconds_, cancelled or not
          table,    \* who opened the descriptor that has this number now
          clock,    \* the timerfd: off, ticking, expired
          entry,    \* its epoll registration: none, oneshot, level
          run,      \* io_context_pimpl::run
          pc,       \* where the thread is
          batch,    \* timers in the events of the current epoll_wait
          fired     \* history: calls of each callback

kernelVars == <<table, clock, entry>>
loopVars == <<run, pc, batch>>
vars == <<obj, kernelVars, loopVars, fired>>

NoTimer == [life |-> "none", fd |-> 0, millis |-> "zero", cancelled |-> "no"]

Init ==
    /\ obj = [t \in Timers |-> NoTimer]
    /\ table = [f \in Fds |-> None]
    /\ clock = [f \in Fds |-> "off"]
    /\ entry = [f \in Fds |-> "none"]
    /\ run = FALSE /\ pc = "main" /\ batch = <<>>
    /\ fired = [t \in Timers |-> 0]

Running == pc \in {"wait", "dispatch", "callback"}
Acts == pc \in {"main", "callback"}          \* the application's code is running
Free == {f \in Fds : table[f] = None}
Lowest(S) == CHOOSE f \in S : \A g \in S : f <= g
Waiting(t) == \E i \in DOMAIN batch : batch[i] = t

-----------------------------------------------------------------------------
(* The application's calls *)

(* timerfd_settime with a value of zero leaves the timer disarmed.         *)
SetTime(millis) == IF millis = "zero" THEN "off" ELSE "ticking"

(* The descriptor is registered for one report only.                       *)
SetEventsAlways == "level"         \* mutant: without EPOLLONESHOT
SetEventsOnce == "oneshot"

MayOpen == LateOpens \/ \A t \in Timers : obj[t].life = "live" => obj[t].cancelled = "no"

(* A new descriptor is the lowest free number.                             *)
Create(t) ==
    \E millis \in {"zero", "positive"} :
        LET f == Lowest(Free) IN
        /\ Acts /\ MayOpen /\ obj[t].life = "none"
        /\ Free # {}
        /\ obj' = [obj EXCEPT ![t] = [life |-> "live", fd |-> f, millis |-> millis, cancelled |-> "no"]]
        /\ table' = [table EXCEPT ![f] = t]
        /\ clock' = [clock EXCEPT ![f] = SetTime(millis)]
        /\ entry' = [entry EXCEPT ![f] = SetEventsOnce]
        /\ UNCHANGED <<loopVars, fired>>

(* Mutant: the descriptor is registered before timerfd_settime.            *)
CreateThrowsRegistered(t) ==
    /\ Acts /\ MayOpen /\ obj[t].life = "none"
    /\ Free # {}
    /\ table' = [table EXCEPT ![Lowest(Free)] = Leaked]
    /\ entry' = [entry EXCEPT ![Lowest(Free)] = SetEventsOnce]
    /\ UNCHANGED <<obj, clock, loopVars, fired>>

(* A negative number of milliseconds makes timerfd_settime fail: the       *)
(* constructor throws and leaves its descriptor open.                      *)
CreateThrows(t) ==
    /\ Acts /\ MayOpen /\ obj[t].life = "none"
    /\ Free # {}
    /\ table' = [table EXCEPT ![Lowest(Free)] = Leaked]
    /\ UNCHANGED <<obj, clock, entry, loopVars, fired>>

(* timer_impl::cancel closes the number in timer_fd_, whoever has it now,  *)
(* and keeps the number.                                                   *)
CloseNothing(t) == UNCHANGED kernelVars      \* mutant
Close(t) ==
    /\ table' = [table EXCEPT ![obj[t].fd] = None]
    /\ clock' = [clock EXCEPT ![obj[t].fd] = "off"]
    /\ entry' = [entry EXCEPT ![obj[t].fd] = "none"]

(* What has been collected before is called all the same.                  *)
Cancel(t) ==
    /\ Acts
    /\ obj[t].life = "live" /\ obj[t].cancelled = "no"
    /\ Close(t)
    /\ obj' = [obj EXCEPT ![t].cancelled = IF Waiting(t) THEN "late" ELSE "yes"]
    /\ UNCHANGED <<loopVars, fired>>

(* Mutant: the destructor does not cancel. *)
DestroyOnly(t) ==
    /\ Acts \/ pc = "left"
    /\ obj[t].life = "live" /\ ~Waiting(t)
    /\ obj' = [obj EXCEPT ![t].life = "gone"]
    /\ UNCHANGED <<kernelVars, loopVars, fired>>

(* The destructor cancels, again if need be.  The application does not     *)
(* destroy a timer whose expiry has been collected: nothing protects it.   *)
Destroy(t) ==
    /\ Acts \/ pc = "left"
    /\ obj[t].life = "live" /\ ~Waiting(t)
    /\ Close(t)
    /\ obj' = [obj EXCEPT ![t].life = "gone"]
    /\ UNCHANGED <<loopVars, fired>>

Stop ==
    /\ pc = "callback" /\ run
    /\ run' = FALSE
    /\ UNCHANGED <<obj, kernelVars, pc, batch, fired>>

App == Stop \/ \E t \in Timers : Create(t) \/ CreateThrows(t) \/ Cancel(t) \/ Destroy(t)

-----------------------------------------------------------------------------
(* The clock, the kernel's report and wait_for_input *)

Expire(f) ==
    /\ clock[f] = "ticking"
    /\ clock' = [clock EXCEPT ![f] = "expired"]
    /\ UNCHANGED <<obj, table, entry, loopVars, fired>>

Enter ==
    /\ pc = "main"
    /\ run' = TRUE /\ pc' = "wait"
    /\ UNCHANGED <<obj, kernelVars, batch, fired>>

(* epoll_wait reports expired timers in any order and disables what is     *)
(* registered for one report.  Nothing reads the timerfd.                  *)
Ready == {f \in Fds : clock[f] = "expired" /\ entry[f] # "none"}
Collect ==
    /\ pc = "wait"
    /\ \E R \in SUBSET Ready :
        /\ R # {}
        /\ \E order \in [1..Cardinality(R) -> R] :
              /\ \A f \in R : \E i \in DOMAIN order : order[i] = f
              /\ batch' = [i \in DOMAIN order |-> table[order[i]]]
        /\ entry' = [f \in Fds |-> IF f \in R /\ entry[f] = "oneshot" THEN "none" ELSE entry[f]]
    /\ pc' = "dispatch"
    /\ UNCHANGED <<obj, table, clock, run, fired>>

FirstOnly == <<>>                  \* mutant: one event is handled per epoll_wait
RestOfBatch == Tail(batch)

HandleEvent ==
    /\ pc = "dispatch" /\ batch # <<>>
    /\ fired' = [fired EXCEPT ![Head(batch)] = @ + 1]
    /\ batch' = RestOfBatch
    /\ pc' = "callback"
    /\ UNCHANGED <<obj, kernelVars, run>>

Return ==
    /\ pc = "callback"
    /\ pc' = "dispatch"
    /\ UNCHANGED <<obj, kernelVars, run, batch, fired>>

EndDispatch ==
    /\ pc = "dispatch" /\ batch = <<>>
    /\ pc' = IF run THEN "wait" ELSE "left"
    /\ UNCHANGED <<obj, kernelVars, run, batch, fired>>

LoopStep == Collect \/ HandleEvent \/ Return \/ EndDispatch
Next == App \/ Enter \/ LoopStep \/ \E f \in Fds : Expire(f)

(* Time passes, the loop runs, and the callbacks return.                   *)
Fairness == WF_vars(LoopStep) /\ \A f \in Fds : WF_vars(Expire(f))

Spec == Init /\ [][Next]_vars
FairSpec == Spec /\ Fairness

-----------------------------------------------------------------------------
(* Properties *)

(* A live timer has a number for its descriptor, and every registration    *)
(* with epoll is that of an open descriptor.                               *)
TypeOK ==
    /\ obj \in [Timers -> [life : {"none", "live", "gone"}, fd : 0..MaxFd,
                           millis : {"zero", "positive"}, cancelled : {"no", "yes", "late"}]]
    /\ \A t \in Timers : obj[t].life # "none" => obj[t].fd \in Fds
    /\ table \in [Fds -> Timers \cup {None, Leaked}]
    /\ clock \in [Fds -> {"off", "ticking", "expired"}]
    /\ entry \in [Fds -> {"none", "oneshot", "level"}]
    /\ \A f \in Fds : entry[f] # "none" => table[f] \in Timers
    /\ run \in BOOLEAN /\ pc \in {"main", "wait", "dispatch", "callback", "left"}
    /\ batch \in Seq(Timers) /\ fired \in [Timers -> Nat]

(* A timer calls its callback once, although nobody reads the timerfd and  *)
(* it stays readable (EPOLLONESHOT of set_events_once), and only after its *)
(* expiry: a timer that has been called was armed, not with 0, and as long *)
(* as it has its descriptor, that is one whose clock has expired.          *)
HasExpired(t) ==
    /\ obj[t].millis = "positive"
    /\ \A f \in Fds : table[f] = t => clock[f] = "expired"
FiresOnce == \A t \in Timers : fired[t] <= 1 /\ (fired[t] = 1 => HasExpired(t))

(* A cancelled timer is silent, unless its expiry was already among the    *)
(* events of the batch in which it was cancelled.                          *)
SilentAfterCancel ==
    [][\A t \in Timers : obj[t].cancelled = "yes" => fired'[t] = fired[t]]_vars

(* wait_for_input never calls handle_event of a destroyed timer: the       *)
(* destructor takes the registration with the descriptor, whatever numbers *)
(* have been closed and opened in between.                                 *)
NoUseAfterDestroy ==
    pc = "dispatch" /\ batch # <<>> => obj[Head(batch)].life = "live"

Armed(t) == obj[t].life = "live" /\ obj[t].cancelled = "no" /\ obj[t].millis = "positive"

(* A timer that is neither cancelled nor destroyed is called, whatever     *)
(* happens to the others, as the test timer2 expects of t1 and t3.         *)
TimersFire ==
    \A t \in Timers : (Armed(t) /\ Running) ~> (fired[t] > 0 \/ ~Armed(t) \/ pc = "left")
=============================================================================
