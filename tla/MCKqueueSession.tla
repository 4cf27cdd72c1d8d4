--------------------------- MODULE MCKqueueSession ---------------------------
(* The echo on two loops; callbacks and a timer go to the server's loop.   *)
EXTENDS KqueueSession

LoopOfMC == [s \in Socks |-> IF s = Client THEN "clientLoop" ELSE "serverLoop"]
Long == <<1, 2, 3, 4>>      \* more than the kernel takes at once
Short == <<1>>
MessagesMC == {Long, Short}

(* The echo undisturbed; a client that leaves after the first piece; and a *)
(* short echo among calls of exec and stop, and with a timer.              *)
LoadOf(msg, waits, calls, timers) ==
    [message |-> msg, patient |-> waits, posts |-> calls, armed |-> timers]
LoadsMC == {LoadOf(Long, TRUE, 0, {}), LoadOf(Long, FALSE, 0, {}),
            LoadOf(Short, TRUE, 1, Timers), LoadOf(Short, TRUE, 2, {})}
=============================================================================
