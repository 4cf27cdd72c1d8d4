------------------------------- MODULE EchoApp -------------------------------
(***************************************************************************)
(* The application of src/tests/async_tests.cpp (large_write_client_server):*)
(* a client writes a message larger than the kernel's buffers and a server *)
(* sends back what it receives.  Each side keeps what write did not take   *)
(* and writes it again in on_sent.                                         *)
(*                                                                         *)
(* The module holds what the two lambdas and the session remember.  When   *)
(* the callbacks run is a matter of the platform: EchoSession (Linux),     *)
(* IocpSession (Windows) and KqueueSession (macOS).                        *)
(***************************************************************************)
EXTENDS Naturals, Sequences

CONSTANT Messages       \* the messages the client may have

ASSUME MessageAssumption == Messages \subseteq Seq(Nat) /\ <<>> \notin Messages

VARIABLES large_message,   \* client: what it has to send
          total_sent,      \* client: how much of it has been written
          received_msg,    \* client: what has come back
          received_data,   \* server: what the session has received
          pending_data,    \* server: received and not yet written back
          session          \* the session of the server: none, open, erased

appVars == <<large_message, total_sent, received_msg, received_data, pending_data, session>>

AppInit ==
    /\ large_message \in Messages
    /\ total_sent = 0 /\ received_msg = <<>>
    /\ received_data = <<>> /\ pending_data = <<>> /\ session = "none"

(* What the client has yet to write. *)
Unwritten == SubSeq(large_message, total_sent + 1, Len(large_message))

(* write took n bytes. *)
ClientWrote(n) ==
    /\ total_sent' = total_sent + n
    /\ UNCHANGED <<large_message, received_msg, received_data, pending_data, session>>

(* The client is finished when the whole message is back. *)
Whole(msg) == Len(msg) >= Len(large_message)

ClientGot(bytes) ==
    /\ received_msg' = received_msg \o bytes
    /\ UNCHANGED <<large_message, total_sent, received_data, pending_data, session>>

(* A received piece is written at once, unless something waits before it;  *)
(* the session keeps what is left of it.                                   *)
ServerGot(bytes, left) ==
    /\ received_data' = received_data \o bytes
    /\ pending_data' = pending_data \o left
    /\ UNCHANGED <<large_message, total_sent, received_msg, session>>

ServerKeeps(left) ==
    /\ pending_data' = left
    /\ UNCHANGED <<large_message, total_sent, received_msg, received_data, session>>

SessionBecomes(s) ==
    /\ session' = s
    /\ UNCHANGED <<large_message, total_sent, received_msg, received_data, pending_data>>

AppTypeOK ==
    /\ large_message \in Messages /\ total_sent \in 0..Len(large_message)
    /\ received_msg \in Seq(Nat) /\ received_data \in Seq(Nat) /\ pending_data \in Seq(Nat)
    /\ session \in {"none", "open", "erased"}
=============================================================================
