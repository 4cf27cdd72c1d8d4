---------------------------- MODULE MCIocpSession ----------------------------
(* The echo on two loops; callbacks and a timer go to the client's loop.   *)
EXTENDS IocpSession

LoopOfMC == [s \in Socks |-> IF s = Client THEN "clientLoop" ELSE "serverLoop"]
Long == <<1, 2, 3, 4, 5>>   \* more than the kernel takes at once
Short == <<1>>
MessagesMC == {Long, Short}

(* The echo undisturbed; a client that leaves after the first piece; and   *)
(* a short echo among callbacks of other threads and of a timer.           *)
LoadOf(msg, waits, posts, timers) ==
    [message |-> msg, patient |-> waits, tasks |-> posts, armed |-> timers]
LoadsMC == {LoadOf(Long, TRUE, 0, {}), LoadOf(Long, FALSE, 0, {}), LoadOf(Short, TRUE, 1, Timers)}
=============================================================================
