--------------------------- MODULE MCSocketStream ---------------------------
(***************************************************************************)
(* Small instances of SocketStream: one loop for both ends, as in the      *)
(* tests.                                                                  *)
(***************************************************************************)
EXTENDS SocketStream

CONSTANTS client, server, listener, io

LoopOfMC == [s \in {client, server, listener} |-> io]
EarlyMC == <<9>>
NoMessage == <<>>
MessageMC == <<1, 2, 3>>
=============================================================================
