----------------------------- MODULE MCExecLoop -----------------------------
(***************************************************************************)
(* A small instance of ExecLoop: two threads post beside the loop's own.   *)
(* EventFdMax is small enough for a write to fail, large enough for the    *)
(* assumption.                                                             *)
(***************************************************************************)
EXTENDS ExecLoop

CONSTANTS p1, p2, loop

PostersMC == {p1, p2}
=============================================================================
