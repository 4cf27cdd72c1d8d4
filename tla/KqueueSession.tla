--------------------------- MODULE KqueueSession ---------------------------
(***************************************************************************)
(* The macOS asynchronous socket (socket_base_pimpl in                     *)
(* src/src/macos/socket_base.cpp) with the application of EchoApp, on the  *)
(* loops of KqueueLoop and the connection of TcpLink.                      *)
(*                                                                         *)
(* A socket has two events: EVFILT_READ is an edge, raised when something  *)
(* arrives and cleared when kevent returns it, so the loop receives until  *)
(* there is nothing left; EVFILT_WRITE is asked for and returned once.     *)
(* Every system call is one step, so that the kernel and the other loop    *)
(* may act between any two of them.                                        *)
(***************************************************************************)
EXTENDS KqueueLoop, TcpLink, EchoApp

CONSTANTS Listener,     \* the listening socket
          LoopOf,       \* the io_context of each socket
          SendMax,      \* most bytes given to one send (1024 * 4 in so_write)
          RecvMax,      \* size of the buffer of recv (4 * 1024)
          Loads         \* what may happen: the message, whether the client waits for all
                        \* of it, calls of exec and stop by other threads, armed timers

Socks == Ends \cup {Listener}

ASSUME SessionAssumption ==
    /\ Listener \notin Ends
    /\ LoopOf \in [Socks -> Loops] /\ LoopOf[Server] = LoopOf[Listener]
    /\ {SendMax, RecvMax} \subseteq Nat \ {0}
    /\ Loads \subseteq [message : Messages, patient : BOOLEAN, posts : Nat, armed : SUBSET Timers]

VARIABLES sock,     \* socket_base_pimpl of each socket, and its two events
          cb,       \* per loop: the callback that is writing
          wr,       \* per loop: so_write in progress, the buffer and how much was sent
          load      \* what happens, of Loads

sockVars == <<sock, cb, wr>>
vars == <<kqueueVars, linkVars, appVars, sockVars, load>>

ClientLoop == LoopOf[Client]
ServerLoop == LoopOf[Server]

(* edge: EVFILT_READ is raised; asked: EVFILT_WRITE is registered.         *)
Fresh == [alive |-> TRUE, open |-> TRUE, connected |-> FALSE, edge |-> FALSE, asked |-> FALSE]
NoWrite == [buf |-> <<>>, sent |-> 0]

Init ==
    /\ load \in Loads /\ KqueueInit(load.posts, load.armed)
    /\ LinkInit /\ AppInit /\ large_message = load.message
    /\ sock = [s \in Socks |-> IF s = Server THEN [Fresh EXCEPT !.alive = FALSE, !.open = FALSE] ELSE Fresh]
    /\ cb = [l \in Loops |-> "none"] /\ wr = [l \in Loops |-> NoWrite]

-----------------------------------------------------------------------------
(* What kqueue reports of a socket, external.                              *)

Readable(s) ==
    IF s = Listener THEN link = "up" /\ session = "none"
    ELSE net[s].rcv # <<>> \/ Over(s)

Writable(s) ==
    /\ s # Listener
    /\ link = "refused" \/ net[s].reset \/ (link = "up" /\ Room(s) > 0)

SocketEvents(l) ==
    LET mine == {s \in Socks : LoopOf[s] = l /\ sock[s].open} IN
    {Event("READ", s) : s \in {s \in mine : sock[s].edge /\ Readable(s)}}
        \cup {Event("WRITE", s) : s \in {s \in mine : sock[s].asked /\ Writable(s)}}

(* Something arrives at an open socket.  (Of the step's primed values.)    *)
Arrives(s) ==
    IF s = Listener THEN link' = "up" /\ link # "up"
    ELSE \/ Len(net'[s].rcv) > Len(net[s].rcv)
         \/ net'[s].eof # net[s].eof \/ net'[s].reset # net[s].reset
         \/ s = Client /\ link' = "refused" /\ link # "refused"
Raised(socks) == [s \in Socks |-> IF socks[s].open /\ Arrives(s) THEN [socks[s] EXCEPT !.edge = TRUE] ELSE socks[s]]

Kernel(step) == step /\ sock' = Raised(sock) /\ UNCHANGED <<kqueueVars, appVars, cb, wr, load>>

-----------------------------------------------------------------------------
(* socket_base_pimpl *)

AskRead(s) == [sock[s] EXCEPT !.edge = @ \/ Readable(s)]
AskWriteLater(s) == sock[s]                          \* mutant: the event is not registered
AskWrite(s) == [sock[s] EXCEPT !.asked = TRUE]
Gone(s) == [sock[s] EXCEPT !.open = FALSE, !.edge = FALSE, !.asked = FALSE]

SetUp(l) == at[l] = "out" /\ UNCHANGED <<kqueueVars, appVars, cb, wr, load>>

Connect ==
    /\ link = "none" /\ SetUp(ClientLoop)
    /\ link' = "syn"
    /\ sock' = [sock EXCEPT ![Client] = AskWrite(Client)]
    /\ UNCHANGED net

EnterLoop(l) ==
    /\ l = ClientLoop => link # "none" /\ sock[Client].open
    /\ Enter(l)
    /\ UNCHANGED <<linkVars, appVars, sockVars, load>>

ClientClose ==
    /\ enters[ClientLoop] > 0 /\ sock[Client].open /\ SetUp(ClientLoop)
    /\ net' = AfterClose(Client)
    /\ UNCHANGED link
    /\ sock' = Raised([sock EXCEPT ![Client] = Gone(Client)])

-----------------------------------------------------------------------------
(* wait_for_input, with the callbacks of the application *)

Loop == UNCHANGED <<execVars, timer, load>>

CollectEvents(l) ==
    /\ Collect(l, OwnEvents(l) \cup SocketEvents(l))
    /\ sock' = [s \in Socks |-> [sock[s] EXCEPT !.edge = @ /\ ~(LoopOf[s] = l /\ InBatch(l, Event("READ", s))'),
                                                !.asked = @ /\ ~(LoopOf[s] = l /\ InBatch(l, Event("WRITE", s))')]]
    /\ UNCHANGED <<linkVars, appVars, cb, wr, load>>

(* One connection is accepted per event.                                   *)
Accept(l) ==
    /\ Current(l, "READ") /\ Cur(l) = Listener
    /\ SessionBecomes("open")
    /\ sock' = [sock EXCEPT ![Server] = [Fresh EXCEPT !.connected = TRUE, !.edge = Readable(Server)]]
    /\ Handled(l)
    /\ UNCHANGED <<run, linkVars, cb, wr>> /\ Loop

BeginRecv(l) ==
    /\ Current(l, "READ") /\ Cur(l) \in Ends
    /\ at' = [at EXCEPT ![l] = "recv"]
    /\ UNCHANGED <<run, batch, enters, dropped, linkVars, appVars, sockVars>> /\ Loop

(* recv gives some bytes, which go to on_received; the loop goes on.       *)
BeginWrite(l, name, buf) ==
    /\ at' = [at EXCEPT ![l] = "send"]
    /\ cb' = [cb EXCEPT ![l] = name]
    /\ wr' = [wr EXCEPT ![l] = [buf |-> buf, sent |-> 0]]
    /\ UNCHANGED <<batch, enters, dropped>>

RecvOnce(l) == Handled(l)              \* mutant: one recv for each event
RecvOn(l) == UNCHANGED <<at, batch, enters, dropped>>

Received(s) == SubSeq(net[s].rcv, 1, Least({Len(net[s].rcv), RecvMax}))
RecvData(l, s) ==
    /\ at[l] = "recv" /\ Cur(l) = s
    /\ sock[s].open /\ net[s].rcv # <<>>
    /\ net' = [net EXCEPT ![s].rcv = Drop(@, RecvMax)]
    /\ UNCHANGED <<link, sock>> /\ Loop

ClientReceived(l) ==
    /\ RecvData(l, Client)
    /\ ClientGot(Received(Client))
    /\ run' = [run EXCEPT ![l] = @ /\ load.patient /\ ~Whole(received_msg')]
    /\ RecvOn(l)
    /\ UNCHANGED <<cb, wr>>

ServerReceived(l) ==
    LET bytes == Received(Server) IN
    /\ RecvData(l, Server)
    /\ IF pending_data = <<>>
       THEN ServerGot(bytes, <<>>) /\ BeginWrite(l, "on_received", bytes)
       ELSE ServerGot(bytes, bytes) /\ RecvOn(l) /\ UNCHANGED <<cb, wr>>
    /\ UNCHANGED run

(* recv gives 0: the client has not set on_disconnected, which throws; the *)
(* server stops its loop and erases the session with the socket.           *)
EndOfStream(l, s) ==
    /\ at[l] = "recv" /\ Cur(l) = s
    /\ sock[s].open /\ net[s].rcv = <<>> /\ Over(s) /\ ~net[s].err
    /\ UNCHANGED <<link, cb, wr>> /\ Loop

ClientDisconnected(l) ==
    /\ EndOfStream(l, Client)
    /\ Threw(l)
    /\ UNCHANGED <<net, sock, appVars>>

ServerDisconnectedRecvOn(l) ==         \* mutant: no break after on_disconnected
    /\ EndOfStream(l, Server)
    /\ run' = [run EXCEPT ![l] = FALSE]
    /\ SessionBecomes("erased")
    /\ net' = AfterClose(Server)
    /\ sock' = Raised([sock EXCEPT ![Server] = [Gone(Server) EXCEPT !.alive = FALSE]])
    /\ RecvOn(l)

ServerDisconnected(l) ==
    /\ EndOfStream(l, Server)
    /\ run' = [run EXCEPT ![l] = FALSE]
    /\ SessionBecomes("erased")
    /\ net' = AfterClose(Server)
    /\ sock' = Raised([sock EXCEPT ![Server] = [Gone(Server) EXCEPT !.alive = FALSE]])
    /\ Handled(l)

(* recv fails: nothing more to read, or an error, which is only logged.    *)
RecvFails(l) ==
    LET s == Cur(l) IN
    /\ at[l] = "recv"
    /\ ~sock[s].open \/ (net[s].rcv = <<>> /\ (net[s].err \/ ~Over(s)))
    /\ net' = IF sock[s].open THEN [net EXCEPT ![s].err = FALSE] ELSE net
    /\ Handled(l)
    /\ UNCHANGED <<run, link, appVars, sockVars>> /\ Loop

(* The first EVFILT_WRITE of the client tells how connect went.            *)
WriteEvent(l, s, connected) ==
    /\ Current(l, "WRITE") /\ Cur(l) = s /\ sock[s].connected = connected
    /\ UNCHANGED <<run, link, appVars>> /\ Loop

ConnectFailed(l) ==
    /\ WriteEvent(l, Client, FALSE) /\ net[Client].err
    /\ sock' = [sock EXCEPT ![Client].connected = TRUE]
    /\ net' = [net EXCEPT ![Client].err = FALSE]
    /\ Handled(l)
    /\ UNCHANGED <<cb, wr>>

Connected(l) ==
    /\ WriteEvent(l, Client, FALSE) /\ ~net[Client].err
    /\ sock' = [sock EXCEPT ![Client].connected = TRUE]
    /\ BeginWrite(l, "on_connected", Unwritten)
    /\ UNCHANGED net

ClientSent(l) ==
    /\ WriteEvent(l, Client, TRUE)
    /\ BeginWrite(l, "on_sent", Unwritten)
    /\ UNCHANGED <<net, sock>>

ServerSent(l) ==
    /\ WriteEvent(l, Server, TRUE)
    /\ IF pending_data # <<>> THEN BeginWrite(l, "on_sent", pending_data)
       ELSE Handled(l) /\ UNCHANGED <<cb, wr>>
    /\ UNCHANGED <<net, sock>>

-----------------------------------------------------------------------------
(* so_write: sends until the kernel takes no more or nothing is left.      *)

Rest(l) == Drop(wr[l].buf, wr[l].sent)
Amount(l) == Least({Len(Rest(l)), SendMax, Room(Cur(l))})
Sending(l) == at[l] = "send" /\ UNCHANGED <<run, batch, enters, dropped, link, appVars, cb>> /\ Loop

SendSome(l) ==
    LET s == Cur(l) IN
    /\ Sending(l) /\ Amount(l) > 0
    /\ link = "up" /\ ~net[s].reset
    /\ net' = [net EXCEPT ![s].snd = @ \o SubSeq(Rest(l), 1, Amount(l))]
    /\ wr' = [wr EXCEPT ![l].sent = @ + Amount(l)]
    /\ UNCHANGED <<at, sock>>

SendEnds(l) ==
    LET s == Cur(l)
        blocks == Rest(l) # <<>> /\ link = "up" /\ ~net[s].reset
        fails == Rest(l) # <<>> /\ ~blocks
    IN
    /\ Sending(l)
    /\ blocks => Room(s) = 0
    /\ at' = [at EXCEPT ![l] = "sent"]
    /\ sock' = IF blocks THEN [sock EXCEPT ![s] = AskWrite(s)] ELSE sock
    /\ net' = IF fails THEN [net EXCEPT ![s].err = FALSE] ELSE net
    /\ UNCHANGED wr

Wrote(l, s, name) ==
    /\ at[l] = "sent" /\ Cur(l) = s /\ cb[l] = name
    /\ cb' = [cb EXCEPT ![l] = "none"] /\ wr' = [wr EXCEPT ![l] = NoWrite]
    /\ UNCHANGED <<run, linkVars>> /\ Loop

(* After on_connected the read event is asked for again.                   *)
ClientWroteFirst(l) ==
    /\ Wrote(l, Client, "on_connected")
    /\ ClientWrote(wr[l].sent)
    /\ sock' = [sock EXCEPT ![Client] = AskRead(Client)]
    /\ Handled(l)

ClientWroteOn(l) ==
    /\ Wrote(l, Client, "on_sent")
    /\ ClientWrote(wr[l].sent)
    /\ Handled(l)
    /\ UNCHANGED sock

ServerEchoed(l) ==
    /\ Wrote(l, Server, "on_received")
    /\ ServerKeeps(Rest(l))
    /\ at' = [at EXCEPT ![l] = "recv"]
    /\ UNCHANGED <<sock, batch, enters, dropped>>

ServerWroteOn(l) ==
    /\ Wrote(l, Server, "on_sent")
    /\ ServerKeeps(Rest(l))
    /\ Handled(l)
    /\ UNCHANGED sock

-----------------------------------------------------------------------------
ClientApp(l) == \/ ClientReceived(l) \/ ClientDisconnected(l) \/ ConnectFailed(l) \/ Connected(l)
                \/ ClientSent(l) \/ ClientWroteFirst(l) \/ ClientWroteOn(l)
ServerApp(l) == \/ Accept(l) \/ ServerReceived(l) \/ ServerDisconnected(l) \/ ServerSent(l)
                \/ ServerEchoed(l) \/ ServerWroteOn(l)

Thread(l) ==
    \/ CollectEvents(l) \/ BeginRecv(l) \/ RecvFails(l) \/ SendSome(l) \/ SendEnds(l)
    \/ ClientApp(l) \/ ServerApp(l)
    \/ EnterLoop(l)
    \/ l = ClientLoop /\ (Connect \/ ClientClose)
    \/ LoopStep(l) /\ UNCHANGED <<linkVars, appVars, sockVars, load>>

Next ==
    \/ \E l \in Loops : Thread(l)
    \/ Kernel(LinkStep)
    \/ Outside /\ UNCHANGED <<linkVars, appVars, sockVars, load>>

(* Threads run and the kernel moves bytes; nobody has to call exec or stop.*)
Fairness ==
    /\ \A l \in Loops : WF_vars(Thread(l))
    /\ WF_vars(Kernel(Establish))
    /\ \A s \in Ends : WF_vars(Kernel(Transfer(s))) /\ WF_vars(Kernel(DeliverFin(s)))

Spec == Init /\ [][Next]_vars
FairSpec == Spec /\ Fairness

-----------------------------------------------------------------------------
(* Properties *)

(* Bytes that have arrived at a socket always have an event on the way:    *)
(* the edge is raised, its event is in the batch, or the loop is receiving.*)
ReadWakeup ==
    \A s \in Ends : sock[s].open /\ net[s].rcv # <<>> =>
        sock[s].edge \/ InBatch(LoopOf[s], Event("READ", s)) \/ Event("READ", s) \in dropped

(* No edge is lost: not that of a pending callback, nor that of received   *)
(* bytes, although taking an event clears it and kevent may leave events   *)
(* for the next call.  Only an exception, which drops the rest of its      *)
(* batch, loses one.                                                       *)
NoLostEdge == UserWakeup /\ ReadWakeup

(* When the whole message has come back, nothing of the loop is left that  *)
(* points to the session's destroyed socket: neither the handler that runs *)
(* nor an event further on in the batch.  A client that leaves early may   *)
(* make both events of a socket end up in one batch, and the second is     *)
(* handled after on_disconnected has destroyed it.                         *)
NoUseAfterDestroy ==
    session = "erased" /\ received_msg = large_message =>
        \A e \in {Event("READ", Server), Event("WRITE", Server)} : ~InBatch(ServerLoop, e)

(* The whole message comes back over edges and one-shot events; then the   *)
(* server notices the end of the client, erases the session and leaves its *)
(* loop.                                                                   *)
SessionCompletes ==
    (link = "up" /\ load.patient /\ load.posts = 0 /\ at[ServerLoop] # "out")
      ~> /\ received_msg = large_message
         /\ session = "erased" /\ at[ServerLoop] = "out"
=============================================================================
