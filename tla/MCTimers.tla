------------------------------ MODULE MCTimers ------------------------------
(***************************************************************************)
(* Small instances of Timers: three timers and as many descriptors.        *)
(***************************************************************************)
EXTENDS Timers

CONSTANTS t1, t2, t3
=============================================================================
