---------------------------- MODULE EchoSession ----------------------------
(***************************************************************************)
(* The application of EchoApp on the Linux sockets (AsyncSocket): a client *)
(* and a server, each with its own loop.                                   *)
(***************************************************************************)
EXTENDS AsyncSocket, EchoApp

vars == <<sockVars, appVars>>

ClientLoop == LoopOf[Client]
ServerLoop == LoopOf[Listener]

ASSUME LoopsAssumption == ClientLoop # ServerLoop

Init ==
    /\ SocketInit
    /\ AppInit

(* The client connects once the server listens (listen_ok), and each then  *)
(* runs its loop.                                                          *)
StartServer ==
    /\ at[ServerLoop] = "out"
    /\ Listen
    /\ UNCHANGED appVars

StartClient ==
    /\ at[ClientLoop] = "out" /\ sock[Listener].listening
    /\ Connect
    /\ UNCHANGED appVars

EnterLoop(l) ==
    /\ IF l = ServerLoop THEN sock[Listener].listening ELSE link # "none"
    /\ Enter(l)
    /\ UNCHANGED appVars

-----------------------------------------------------------------------------
(* The client's callbacks *)

In(l, s, name) == at[l] = "cb" /\ Cur(l) = s /\ cb[l] = name
Out(l, s, name) == at[l] = "sent" /\ Cur(l) = s /\ cb[l] = name

ClientConnected ==
    /\ In(ClientLoop, Client, "on_connected")
    /\ BeginWrite(ClientLoop, Client, Unwritten)
    /\ UNCHANGED <<sock, link, net, running, batch, cb, arg, appVars>>

ClientConnectedEnd ==
    /\ Out(ClientLoop, Client, "on_connected")
    /\ ClientWrote(wr[ClientLoop].sent)
    /\ Returned(ClientLoop)
    /\ UNCHANGED <<sock, link, net, running>>

ClientSent ==
    /\ In(ClientLoop, Client, "on_sent")
    /\ BeginWrite(ClientLoop, Client, Unwritten)
    /\ UNCHANGED <<sock, link, net, running, batch, cb, arg, appVars>>

ClientSentEnd ==
    /\ Out(ClientLoop, Client, "on_sent")
    /\ ClientWrote(wr[ClientLoop].sent)
    /\ Returned(ClientLoop)
    /\ UNCHANGED <<sock, link, net, running>>

ClientReceived ==
    /\ In(ClientLoop, Client, "on_received")
    /\ ClientGot(arg[ClientLoop])
    /\ running' = [running EXCEPT ![ClientLoop] = @ /\ ~Whole(received_msg')]
    /\ Returned(ClientLoop)
    /\ UNCHANGED <<sock, link, net>>

(* The client sets no on_disconnected, and handle_event calls it unchecked:*)
(* std::bad_function_call leaves wait_for_input.                           *)
ClientDisconnected ==
    /\ In(ClientLoop, Client, "on_disconnected")
    /\ at' = [at EXCEPT ![ClientLoop] = "threw"]
    /\ UNCHANGED <<sock, link, net, running, batch, cb, arg, wr, appVars>>

(* After wait_for_input the client closes its socket. *)
ClientClose ==
    /\ at[ClientLoop] = "left" /\ sock[Client].open
    /\ sock' = [sock EXCEPT ![Client] = ClosedSock(Client)]
    /\ net' = AfterClose(Client)
    /\ UNCHANGED <<link, running, at, batch, cb, arg, wr, appVars>>

-----------------------------------------------------------------------------
(* The server's callbacks *)

ServerAcceptedDropped ==     \* mutant: the accepted socket is not kept
    /\ In(ServerLoop, Listener, "on_accepted")
    /\ SessionBecomes("erased")
    /\ sock' = [sock EXCEPT ![Server] = [ClosedSock(Server) EXCEPT !.alive = FALSE]]
    /\ net' = AfterClose(Server)
    /\ Returned(ServerLoop)
    /\ UNCHANGED <<link, running>>

ServerAccepted ==
    /\ In(ServerLoop, Listener, "on_accepted")
    /\ SessionBecomes("open")
    /\ Returned(ServerLoop)
    /\ UNCHANGED <<sock, link, net, running>>

ServerReceived ==
    /\ In(ServerLoop, Server, "on_received")
    /\ IF pending_data = <<>>
       THEN /\ ServerGot(arg[ServerLoop], <<>>)
            /\ BeginWrite(ServerLoop, Server, arg[ServerLoop])
            /\ UNCHANGED <<batch, cb, arg>>
       ELSE /\ ServerGot(arg[ServerLoop], arg[ServerLoop])
            /\ Returned(ServerLoop)
    /\ UNCHANGED <<sock, link, net, running>>

ServerReceivedEnd ==
    /\ Out(ServerLoop, Server, "on_received")
    /\ ServerKeeps(Rest(ServerLoop))
    /\ Returned(ServerLoop)
    /\ UNCHANGED <<sock, link, net, running>>

ServerSent ==
    /\ In(ServerLoop, Server, "on_sent")
    /\ IF pending_data # <<>>
       THEN BeginWrite(ServerLoop, Server, pending_data) /\ UNCHANGED <<batch, cb, arg>>
       ELSE Returned(ServerLoop)
    /\ UNCHANGED <<sock, link, net, running, appVars>>

ServerSentEnd ==
    /\ Out(ServerLoop, Server, "on_sent")
    /\ ServerKeeps(Rest(ServerLoop))
    /\ Returned(ServerLoop)
    /\ UNCHANGED <<sock, link, net, running>>

ServerDisconnectedRunsOn ==      \* mutant: io.stop() is forgotten
    /\ In(ServerLoop, Server, "on_disconnected")
    /\ SessionBecomes("erased")
    /\ sock' = [sock EXCEPT ![Server] = [ClosedSock(Server) EXCEPT !.alive = FALSE]]
    /\ net' = AfterClose(Server)
    /\ Returned(ServerLoop)
    /\ UNCHANGED <<link, running>>

(* The session, and with it the socket whose handler is running, is erased *)
(* inside on_disconnected.                                                 *)
ServerDisconnected ==
    /\ In(ServerLoop, Server, "on_disconnected")
    /\ running' = [running EXCEPT ![ServerLoop] = FALSE]
    /\ SessionBecomes("erased")
    /\ sock' = [sock EXCEPT ![Server] = [ClosedSock(Server) EXCEPT !.alive = FALSE]]
    /\ net' = AfterClose(Server)
    /\ Returned(ServerLoop)
    /\ UNCHANGED link

-----------------------------------------------------------------------------
ClientApp == \/ ClientConnected \/ ClientConnectedEnd \/ ClientSent \/ ClientSentEnd
             \/ ClientReceived \/ ClientDisconnected \/ ClientClose
ServerApp == \/ ServerAccepted \/ ServerReceived \/ ServerReceivedEnd \/ ServerSent
             \/ ServerSentEnd \/ ServerDisconnected

App(l) ==
    \/ l = ClientLoop /\ ClientApp
    \/ l = ServerLoop /\ ServerApp
    \/ l = ServerLoop /\ StartServer
    \/ l = ClientLoop /\ StartClient
    \/ EnterLoop(l)

Net == Kernel /\ UNCHANGED appVars
Thread(l) == (LoopStep(l) /\ UNCHANGED appVars) \/ App(l)

Next == Net \/ \E l \in Loops : Thread(l)

(* Both threads run, and the kernel keeps moving bytes and connection      *)
(* events.                                                                 *)
Fairness ==
    /\ \A l \in Loops : WF_vars(Thread(l))
    /\ WF_vars(Establish /\ KernelOnly /\ UNCHANGED appVars)
    /\ \A s \in Ends : /\ WF_vars(Transfer(s) /\ KernelOnly /\ UNCHANGED appVars)
                       /\ WF_vars(DeliverFin(s) /\ KernelOnly /\ UNCHANGED appVars)

Spec == Init /\ [][Next]_vars
FairSpec == Spec /\ Fairness

-----------------------------------------------------------------------------
(* Properties *)

TypeOK ==
    /\ SocketTypeOK
    /\ AppTypeOK

Writing(l) == at[l] \in {"send", "sent"}
Taken(l, s) == IF at[l] = "cb" /\ Cur(l) = s THEN arg[l] ELSE <<>>

(* Every byte of the message that the kernel accepted from the client is   *)
(* at exactly one place on the way to the session, in order.               *)
Upstream ==
    received_data \o Taken(ServerLoop, Server) \o net[Server].rcv \o net[Client].snd
      = SubSeq(large_message, 1, total_sent + (IF Writing(ClientLoop) THEN wr[ClientLoop].sent ELSE 0))

(* Every byte the session received is at exactly one place on the way      *)
(* back: partial writes, EAGAIN and on_sent neither lose, repeat nor       *)
(* reorder what is echoed (so_write's result and the pending data of the   *)
(* session).                                                               *)
Downstream ==
    LET unsent == IF Writing(ServerLoop) THEN Rest(ServerLoop) ELSE pending_data IN
    received_msg \o Taken(ClientLoop, Client) \o net[Client].rcv \o net[Server].snd \o unsent
      = received_data

(* Nothing that ends the connection loses bytes on the way.                *)
EchoConserved == Upstream /\ Downstream

(* handle_event calls on_disconnected without looking whether it is set;   *)
(* with this server, that hangs up last, the client never gets there once  *)
(* it has been connected.                                                  *)
ClientNeverThrows == link # "refused" => at[ClientLoop] # "threw"

(* Once connected, the whole message comes back, although both ends write  *)
(* more than the kernel's buffers hold; then the server notices the end of *)
(* the client, erases the session and leaves its loop.                     *)
SessionCompletes ==
    (link = "up") ~> /\ received_msg = large_message
                     /\ session = "erased" /\ at[ServerLoop] = "left"
=============================================================================
