--------------------------- MODULE CallbackQueue ---------------------------
(***************************************************************************)
(* What io_context::exec promises: callbacks are invoked one at a time, in *)
(* the order in which they were handed over, each at most once, on one     *)
(* thread.  A callback that throws may take callbacks queued behind it     *)
(* along with it; nothing else loses one.                                  *)
(*                                                                         *)
(* ExecLoop implements this specification with two queues, a mutex, an     *)
(* eventfd and the epoll loop.                                             *)
(***************************************************************************)
EXTENDS Naturals, Sequences

CONSTANT Kinds      \* what a callback does when it is invoked

VARIABLES todo,     \* callbacks handed over and not yet invoked, oldest first
          ran,      \* callbacks invoked so far, in the order of invocation
          lost,     \* callbacks destroyed without having been invoked
          handed    \* how many callbacks have been handed over

queueVars == <<todo, ran, lost, handed>>

Callback(n, k) == [id |-> n, kind |-> k]

Init == todo = <<>> /\ ran = <<>> /\ lost = {} /\ handed = 0

(* Append at the tail; the identifier is the position in the hand-over     *)
(* order.                                                                  *)
HandOver == \E k \in Kinds :
    /\ todo' = Append(todo, Callback(handed + 1, k))
    /\ handed' = handed + 1
    /\ UNCHANGED <<ran, lost>>

Invoke ==
    /\ todo # <<>>
    /\ ran' = Append(ran, Head(todo))
    /\ todo' = Tail(todo)
    /\ UNCHANGED <<lost, handed>>

(* The callback at the head is invoked and hands over another one.         *)
InvokeAndHandOver == \E k \in Kinds :
    /\ todo # <<>>
    /\ ran' = Append(ran, Head(todo))
    /\ todo' = Append(Tail(todo), Callback(handed + 1, k))
    /\ handed' = handed + 1
    /\ UNCHANGED lost

(* A callback that has been invoked throws: some of its successors, the    *)
(* first n still queued, are destroyed.                                    *)
Unwind == \E n \in 0..Len(todo) :
    /\ ran # <<>>
    /\ lost' = lost \cup {todo[i] : i \in 1..n}
    /\ todo' = SubSeq(todo, n + 1, Len(todo))
    /\ UNCHANGED <<ran, handed>>

(* The callback at the head is invoked and throws at once.                 *)
InvokeAndUnwind == \E n \in 1..Len(todo) :
    /\ ran' = Append(ran, Head(todo))
    /\ lost' = lost \cup {todo[i] : i \in 2..n}
    /\ todo' = SubSeq(todo, n + 1, Len(todo))
    /\ UNCHANGED handed

Next == HandOver \/ Invoke \/ InvokeAndHandOver \/ Unwind \/ InvokeAndUnwind

Spec == Init /\ [][Next]_queueVars
=============================================================================
