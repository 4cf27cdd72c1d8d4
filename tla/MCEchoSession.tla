--------------------------- MODULE MCEchoSession ---------------------------
(***************************************************************************)
(* Small instances of EchoSession: the message is longer than the two      *)
(* kernel buffers of one direction together, so both sides block.          *)
(***************************************************************************)
EXTENDS EchoSession

CONSTANTS client, server, listener, loopC, loopS

LoopOfMC == [s \in {client, server, listener} |-> IF s = client THEN loopC ELSE loopS]
MessagesMC == {<<1, 2, 3, 4, 5, 6, 7>>}
=============================================================================
