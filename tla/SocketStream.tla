---------------------------- MODULE SocketStream ----------------------------
(***************************************************************************)
(* socket_stream (src/include/acpp-network/stream.h) on top of AsyncSocket,*)
(* with the applications of src/tests/stream_tests.cpp: the client writes  *)
(* a message when it is connected, the server writes back what it          *)
(* receives.  What the socket did not take waits in pending_data_ for      *)
(* on_sent.                                                                *)
(***************************************************************************)
EXTENDS AsyncSocket

CONSTANTS EarlyMessage,    \* what the client writes before it is connected
          Message          \* what it writes in on_connected

ASSUME MessageAssumption == EarlyMessage \in Seq(Nat) /\ Message \in Seq(Nat)

VARIABLES pending,    \* pending_data_ of the stream at each end
          written,    \* history: what the application passed to write
          received,   \* history: what on_received_cb_ was given
          early       \* history: a write fell short before the connection was there

appVars == <<pending, written, received, early>>
vars == <<sockVars, appVars>>

Io == LoopOf[Client]

Init ==
    /\ SocketInit
    /\ pending = [s \in Ends |-> <<>>]
    /\ written = [s \in Ends |-> <<>>]
    /\ received = [s \in Ends |-> <<>>]
    /\ early = FALSE

-----------------------------------------------------------------------------
(* socket_stream::write, around async_socket_base::write *)

WriteBegin(s, buf) ==
    /\ BeginWrite(Io, s, buf)
    /\ written' = [written EXCEPT ![s] = @ \o buf]

(* What write keeps for on_sent: the whole of a buffer that was not taken  *)
(* entirely, its sent part included.                                       *)
KeptIfNothingSent(w) == IF w.sent = 0 THEN w.buf ELSE <<>>     \* mutant
Kept(w) == IF w.sent < Len(w.buf) THEN w.buf ELSE <<>>

WriteEnd ==
    LET w == wr[Io] IN
    /\ at[Io] = "sent" /\ cb[Io] # "on_sent"
    /\ pending' = [pending EXCEPT ![w.sock] = @ \o Kept(w)]
    /\ early' = (early \/ (w.sent < Len(w.buf) /\ ~sock[w.sock].connected))
    /\ IF cb[Io] = "none"
       THEN at' = [at EXCEPT ![Io] = "out"] /\ wr' = [wr EXCEPT ![Io] = NoWrite] /\ UNCHANGED <<batch, cb, arg>>
       ELSE Returned(Io)
    /\ UNCHANGED <<sock, link, net, running, written, received>>

(* socket_stream::callback_init: on_sent writes what is pending. *)
Flush ==
    /\ at[Io] = "cb" /\ cb[Io] = "on_sent"
    /\ IF pending[Cur(Io)] # <<>>
       THEN BeginWrite(Io, Cur(Io), pending[Cur(Io)]) /\ UNCHANGED <<batch, cb, arg>>
       ELSE Returned(Io)
    /\ UNCHANGED <<sock, link, net, running, appVars>>

FlushEnd ==
    LET s == wr[Io].sock IN
    /\ at[Io] = "sent" /\ cb[Io] = "on_sent"
    /\ pending' = [pending EXCEPT ![s] = Drop(@, wr[Io].sent)]
    /\ Returned(Io)
    /\ UNCHANGED <<sock, link, net, running, written, received, early>>

-----------------------------------------------------------------------------
(* The applications *)

Start ==
    /\ at[Io] = "out"
    /\ Listen
    /\ UNCHANGED appVars

StreamConnect ==
    /\ at[Io] = "out" /\ sock[Listener].listening
    /\ Connect
    /\ UNCHANGED appVars

WriteEarly ==
    /\ at[Io] = "out" /\ link # "none" /\ written[Client] = <<>>
    /\ WriteBegin(Client, EarlyMessage)
    /\ UNCHANGED <<sock, link, net, running, batch, cb, arg, pending, received, early>>

EnterLoop ==
    /\ link # "none"
    /\ Enter(Io)
    /\ UNCHANGED appVars

Connected ==
    /\ at[Io] = "cb" /\ cb[Io] = "on_connected"
    /\ WriteBegin(Client, Message)
    /\ UNCHANGED <<sock, link, net, running, batch, cb, arg, pending, received, early>>

Accepted ==
    /\ at[Io] = "cb" /\ cb[Io] = "on_accepted"
    /\ Returned(Io)
    /\ UNCHANGED <<sock, link, net, running, appVars>>

(* The server echoes. *)
ServerReceived ==
    /\ at[Io] = "cb" /\ cb[Io] = "on_received" /\ Cur(Io) = Server
    /\ received' = [received EXCEPT ![Server] = @ \o arg[Io]]
    /\ WriteBegin(Server, arg[Io])
    /\ UNCHANGED <<sock, link, net, running, batch, cb, arg, pending, early>>

(* The client takes note, and may stop the loop or disconnect.             *)
ClientReceives ==
    /\ at[Io] = "cb" /\ cb[Io] = "on_received" /\ Cur(Io) = Client
    /\ received' = [received EXCEPT ![Client] = @ \o arg[Io]]
    /\ Returned(Io)
    /\ UNCHANGED <<link, pending, written, early>>

ClientReceived ==
    /\ ClientReceives
    /\ running' \in {running, [running EXCEPT ![Io] = FALSE]}
    /\ UNCHANGED <<sock, net>>

ClientDisconnects ==
    /\ ClientReceives
    /\ sock' = [sock EXCEPT ![Client] = ClosedSock(Client)]
    /\ net' = AfterClose(Client)
    /\ UNCHANGED running

Disconnected ==
    /\ at[Io] = "cb" /\ cb[Io] = "on_disconnected"
    /\ Returned(Io)
    /\ UNCHANGED <<sock, link, net, running, appVars>>

-----------------------------------------------------------------------------
App == \/ Start \/ StreamConnect \/ WriteEarly \/ EnterLoop
       \/ Connected \/ Accepted \/ ServerReceived \/ ClientReceived \/ ClientDisconnects \/ Disconnected
       \/ WriteEnd \/ Flush \/ FlushEnd

Thread == (LoopStep(Io) /\ UNCHANGED appVars) \/ App

Next == (Kernel /\ UNCHANGED appVars) \/ Thread

Fairness ==
    /\ WF_vars(Thread)
    /\ WF_vars(Establish /\ KernelOnly /\ UNCHANGED appVars)
    /\ \A s \in Ends : /\ WF_vars(Transfer(s) /\ KernelOnly /\ UNCHANGED appVars)
                       /\ WF_vars(DeliverFin(s) /\ KernelOnly /\ UNCHANGED appVars)

Spec == Init /\ [][Next]_vars
FairSpec == Spec /\ Fairness

-----------------------------------------------------------------------------
(* Properties *)

TypeOK ==
    /\ SocketTypeOK
    /\ \A s \in Ends : pending[s] \in Seq(Nat) /\ written[s] \in Seq(Nat) /\ received[s] \in Seq(Nat)
    /\ early \in BOOLEAN

Values(q) == {q[i] : i \in DOMAIN q}
Intact == sock[Client].open /\ \A s \in Ends : ~net[s].reset

(* Every byte an application wrote is still on its way while the           *)
(* connection stands: delivered, in the kernel, or kept for on_sent.       *)
EveryByteKept ==
    Intact => \A s \in Ends :
        Values(written[s]) \subseteq
            UNION {Values(q) : q \in {received[Peer(s)], net[Peer(s)].rcv, net[s].snd, pending[s]}
                                     \cup (IF at[Io] = "cb" /\ Cur(Io) = Peer(s) THEN {arg[Io]} ELSE {})
                                     \cup (IF wr[Io].sock = s THEN {Rest(Io)} ELSE {})}

(* What waits in pending_data_ is asked for with EPOLLOUT whenever the     *)
(* loop goes back to epoll_wait.  It excludes a write made before the      *)
(* connection was there: its EPOLLOUT goes to on_connected.                *)
PendingArmed ==
    Intact /\ ~early /\ at[Io] = "wait" => \A s \in Ends :
        pending[s] # <<>> => "OUT" \in sock[s].armed

(* What waits in pending_data_ is written in the end, if the loop goes on  *)
(* and the connection stands.                                              *)
PendingDrains ==
    \A s \in Ends : (pending[s] # <<>>) ~> (pending[s] = <<>> \/ ~Intact \/ early \/ at[Io] = "left")

(* What comes back from an echo server is what was sent, as the tests      *)
(* expect of the stream.                                                   *)
EchoExact == IsPrefixOf(received[Client], written[Client])
=============================================================================
