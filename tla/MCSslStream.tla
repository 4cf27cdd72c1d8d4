---------------------------- MODULE MCSslStream ----------------------------
(***************************************************************************)
(* Small instances of SslStream: a piece of the transport fills the BIO,   *)
(* and a record may be larger than it, as in the code.                     *)
(***************************************************************************)
EXTENDS SslStream

CONSTANTS client, server

BioSizesMC == [queued |-> 2, synchronous |-> 4]
MessagesMC == <<<<1, 2>>, <<3>>, <<4>>>>
LargeMC == <<<<1, 2, 3>>>>
=============================================================================
