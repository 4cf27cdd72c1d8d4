---------------------------- MODULE IocpSession ----------------------------
(***************************************************************************)
(* The Windows asynchronous socket (socket_base_pimpl in                   *)
(* src/src/windows/socket_base.cpp) with the application of EchoApp, on    *)
(* the loops of IocpLoop and the connection of TcpLink.                    *)
(*                                                                         *)
(* A socket starts an operation (AcceptEx, ConnectEx, WSARecv, WSASend),   *)
(* the kernel completes it later by queueing a packet, and the loop        *)
(* handles the packet in one step: none of its system calls waits for      *)
(* anything, so the kernel may as well act before or after.  The buffers   *)
(* belong to the kernel while an operation is pending.                     *)
(***************************************************************************)
EXTENDS IocpLoop, TcpLink, EchoApp

CONSTANTS Listener,     \* the listening socket
          LoopOf,       \* the io_context of each socket
          BufMax,       \* size of the buffer of an operation (10 * 1024)
          Loads         \* what may happen: the message, whether the client waits for
                        \* all of it, callbacks that other threads post, armed timers

Socks == Ends \cup {Listener}

ASSUME SessionAssumption ==
    /\ LoopOf \in [Socks -> Loops] /\ LoopOf[Server] = LoopOf[Listener]
    /\ BufMax \in Nat \ {0} /\ BufMax <= SndCap
    /\ Loads \subseteq [message : Messages, patient : BOOLEAN, tasks : Nat, armed : SUBSET Timers]

VARIABLES sock,         \* per end: socket_base_pimpl, its read_op and its write_op
          pending,      \* the AcceptEx and ConnectEx that the kernel has not completed
          load          \* what happens, of Loads

sockVars == <<sock, pending>>
vars == <<iocpVars, linkVars, appVars, sockVars, load>>

ClientLoop == LoopOf[Client]
ServerLoop == LoopOf[Server]

(* read, write: WSARecv, WSASend pending in the kernel; in_use: the flag   *)
(* of write_op; rbuf, wbuf: the buffers of the two operations.             *)
Fresh == [alive |-> TRUE, open |-> TRUE, read |-> FALSE, rbuf |-> <<>>,
          write |-> FALSE, in_use |-> FALSE, wbuf |-> <<>>]

Init ==
    /\ load \in Loads /\ IocpInit(load.tasks, load.armed)
    /\ LinkInit /\ AppInit /\ large_message = load.message
    /\ sock = [s \in Ends |-> IF s = Client THEN Fresh ELSE [Fresh EXCEPT !.alive = FALSE, !.open = FALSE]]
    /\ pending = {}

-----------------------------------------------------------------------------
(* The kernel completes operations.                                        *)

Piece(q) == SubSeq(q, 1, Least({Len(q), BufMax}))

Completion(op, s, ok, n) == [op |-> op, sock |-> s, ok |-> ok, n |-> n]
Queued(l, packet) == port' = [port EXCEPT ![l] = Append(@, packet)]
KernelOnly == UNCHANGED <<loopVars, execVars, timer, appVars, load>>

AcceptDone ==
    /\ "accept" \in pending /\ link = "up"
    /\ pending' = pending \ {"accept"}
    /\ Queued(ServerLoop, Completion("accept", Server, TRUE, 0))
    /\ UNCHANGED <<sock, linkVars>> /\ KernelOnly

ConnectDone ==
    /\ "connect" \in pending /\ link \in {"up", "refused"}
    /\ pending' = pending \ {"connect"}
    /\ Queued(ClientLoop, Completion("connect", Client, link = "up", 0))
    /\ UNCHANGED <<sock, linkVars>> /\ KernelOnly

(* WSARecv: some bytes, none at the end of the stream, or a failure: the   *)
(* other end has reset the connection, or this one has closed the socket.  *)
ReadDone(s) ==
    /\ sock[s].read
    /\ \/ /\ sock[s].open /\ ~net[s].reset /\ net[s].rcv # <<>>
          /\ sock' = [sock EXCEPT ![s].read = FALSE, ![s].rbuf = Piece(net[s].rcv)]
          /\ net' = [net EXCEPT ![s].rcv = Drop(@, BufMax)]
          /\ Queued(LoopOf[s], Completion("read", s, TRUE, Len(Piece(net[s].rcv))))
       \/ /\ ~sock[s].open \/ net[s].reset \/ (net[s].rcv = <<>> /\ net[s].eof)
          /\ sock' = [sock EXCEPT ![s].read = FALSE]
          /\ Queued(LoopOf[s], Completion("read", s, sock[s].open /\ ~net[s].reset, 0))
          /\ UNCHANGED net
    /\ UNCHANGED <<link, pending>> /\ KernelOnly

(* WSASend takes the buffer as it is then, all of it, once there is room.  *)
WriteDone(s) ==
    LET fails == ~sock[s].open \/ net[s].reset IN
    /\ sock[s].write
    /\ fails \/ Len(sock[s].wbuf) <= Room(s)
    /\ sock' = [sock EXCEPT ![s].write = FALSE]
    /\ net' = IF fails THEN net ELSE [net EXCEPT ![s].snd = @ \o sock[s].wbuf]
    /\ Queued(LoopOf[s], Completion("write", s, ~fails, Len(sock[s].wbuf)))
    /\ UNCHANGED <<link, pending>> /\ KernelOnly

Completes == AcceptDone \/ ConnectDone \/ \E s \in Ends : ReadDone(s) \/ WriteDone(s)
LinkOnly == UNCHANGED <<iocpVars, appVars, sockVars, load>>

-----------------------------------------------------------------------------
(* socket_base_pimpl.  The operators give the socket's record afterwards.  *)

(* start_read and internal_write throw when the call fails at once.        *)
CallFails(r, s) == ~r.open \/ net[s].reset

StartRead(r, s) == IF CallFails(r, s) THEN r ELSE [r EXCEPT !.read = TRUE]

(* write: nothing while an operation is in use; otherwise what fits into   *)
(* its buffer.  in_use is set before the call, and stays when it throws.   *)
WriteTakes(r, buf) == IF r.in_use THEN <<>> ELSE Piece(buf)
Write(r, s, buf) ==
    IF r.in_use THEN r
    ELSE [r EXCEPT !.in_use = TRUE, !.wbuf = WriteTakes(r, buf), !.write = ~CallFails(r, s)]
WriteThrows(r, s) == ~r.in_use /\ CallFails(r, s)

Closed(r) == [r EXCEPT !.open = FALSE]

-----------------------------------------------------------------------------
(* The applications before and after their loops *)

SetUp(l) == at[l] = "out" /\ UNCHANGED <<iocpVars, load>>

(* listen calls start_accept, which makes the socket of the connection     *)
(* before there is one.                                                    *)
Listen ==
    /\ ~sock[Server].alive /\ session = "none"
    /\ SetUp(ServerLoop)
    /\ sock' = [sock EXCEPT ![Server] = Fresh]
    /\ pending' = pending \cup {"accept"}
    /\ UNCHANGED <<linkVars, appVars>>

Connect ==
    /\ link = "none" /\ sock[Server].alive
    /\ SetUp(ClientLoop)
    /\ link' = "syn" /\ pending' = pending \cup {"connect"}
    /\ UNCHANGED <<net, sock, appVars>>

EnterLoop(l) ==
    /\ IF l = ServerLoop THEN sock[Server].alive ELSE link # "none"
    /\ l = ClientLoop => sock[Client].open
    /\ Enter(l)
    /\ UNCHANGED <<linkVars, appVars, sockVars, load>>

ClientClose ==
    /\ enters[ClientLoop] > 0 /\ sock[Client].open
    /\ SetUp(ClientLoop)
    /\ sock' = [sock EXCEPT ![Client] = Closed(@)]
    /\ net' = AfterClose(Client)
    /\ UNCHANGED <<link, pending, appVars>>

-----------------------------------------------------------------------------
(* wait_for_input handles a packet *)

Completed(l, op, s, ok) ==
    /\ Arrived(l, op)
    /\ Packet(l).sock = s /\ Packet(l).ok = ok
    /\ Taken(l)
    /\ UNCHANGED <<execVars, timer, pending, load>>

(* The first read is started before the application has the socket.        *)
Accepted ==
    LET threw == CallFails(sock[Server], Server) IN
    /\ Completed(ServerLoop, "accept", Server, TRUE)
    /\ Handled(ServerLoop, threw)
    /\ sock' = [sock EXCEPT ![Server] = StartRead(@, Server)]
    /\ IF threw THEN UNCHANGED appVars ELSE SessionBecomes("open")
    /\ UNCHANGED <<run, linkVars>>

Connected ==
    /\ Completed(ClientLoop, "connect", Client, TRUE)
    /\ Handled(ClientLoop, FALSE)
    /\ sock' = [sock EXCEPT ![Client] = Write(StartRead(@, Client), Client, Unwritten)]
    /\ ClientWrote(Len(WriteTakes(sock[Client], Unwritten)))
    /\ UNCHANGED <<run, linkVars>>

(* on_received, and then the next read, whatever the callback has done.    *)
ClientReceived ==
    LET bytes == sock[Client].rbuf IN
    /\ Completed(ClientLoop, "read", Client, TRUE) /\ Packet(ClientLoop).n > 0
    /\ ClientGot(bytes)
    /\ run' = [run EXCEPT ![ClientLoop] = @ /\ load.patient /\ ~Whole(received_msg')]
    /\ sock' = [sock EXCEPT ![Client] = StartRead(@, Client)]
    /\ Handled(ClientLoop, CallFails(sock[Client], Client))
    /\ UNCHANGED linkVars

(* A write that throws leaves on_received, and the next read is not        *)
(* started.                                                                *)
ServerReceived ==
    LET r == sock[Server]
        bytes == r.rbuf
        echoes == pending_data = <<>>
        threw == echoes /\ WriteThrows(r, Server)
        written == IF echoes THEN Write(r, Server, bytes) ELSE r
        left == IF threw THEN <<>>
                ELSE IF echoes THEN Drop(bytes, Len(WriteTakes(r, bytes))) ELSE bytes
    IN
    /\ Completed(ServerLoop, "read", Server, TRUE) /\ Packet(ServerLoop).n > 0
    /\ ServerGot(bytes, left)
    /\ sock' = [sock EXCEPT ![Server] = IF threw THEN written ELSE StartRead(written, Server)]
    /\ Handled(ServerLoop, CallFails(r, Server))
    /\ UNCHANGED <<run, linkVars>>

(* The end of the stream, or a reset: on_disconnected, which the client    *)
(* does not set.  The server stops its loop and erases the session, and    *)
(* with it the socket whose callback is running.                           *)
EndOfStream(s) ==
    /\ \/ Completed(LoopOf[s], "read", s, TRUE) /\ Packet(LoopOf[s]).n = 0
       \/ Completed(LoopOf[s], "read", s, FALSE) /\ net[s].reset
    /\ Handled(LoopOf[s], FALSE)

ClientDisconnected ==
    /\ EndOfStream(Client)
    /\ UNCHANGED <<run, linkVars, appVars, sock>>

ServerDisconnectedReadsOn ==       \* mutant: start_read before the callback, as after data
    /\ EndOfStream(Server)
    /\ run' = [run EXCEPT ![ServerLoop] = FALSE]
    /\ SessionBecomes("erased")
    /\ sock' = [sock EXCEPT ![Server] = [Closed(StartRead(@, Server)) EXCEPT !.alive = FALSE]]
    /\ net' = AfterClose(Server)
    /\ UNCHANGED link

ServerDisconnected ==
    /\ EndOfStream(Server)
    /\ run' = [run EXCEPT ![ServerLoop] = FALSE]
    /\ SessionBecomes("erased")
    /\ sock' = [sock EXCEPT ![Server] = [Closed(@) EXCEPT !.alive = FALSE]]
    /\ net' = AfterClose(Server)
    /\ UNCHANGED link

(* A write is complete: in_use is reset and on_sent writes on.  The client *)
(* goes on with writes of nothing when all is written.                     *)
FreeNever(r) == r                  \* mutant: in_use is never reset
Free(r) == [r EXCEPT !.in_use = FALSE]

ClientSent ==
    LET r == Free(sock[Client]) IN
    /\ Completed(ClientLoop, "write", Client, TRUE)
    /\ sock' = [sock EXCEPT ![Client] = Write(r, Client, Unwritten)]
    /\ IF WriteThrows(r, Client) THEN UNCHANGED appVars ELSE ClientWrote(Len(WriteTakes(r, Unwritten)))
    /\ Handled(ClientLoop, WriteThrows(r, Client))
    /\ UNCHANGED <<run, linkVars>>

ServerSent ==
    LET r == Free(sock[Server])
        threw == pending_data # <<>> /\ WriteThrows(r, Server)
    IN
    /\ Completed(ServerLoop, "write", Server, TRUE)
    /\ sock' = [sock EXCEPT ![Server] = IF pending_data = <<>> THEN r ELSE Write(r, Server, pending_data)]
    /\ IF threw THEN UNCHANGED appVars ELSE ServerKeeps(Drop(pending_data, Len(WriteTakes(r, pending_data))))
    /\ Handled(ServerLoop, threw)
    /\ UNCHANGED <<run, linkVars>>

(* Any other failed operation is given to on_error, which only logs.       *)
Failed(l) ==
    \E op \in {"connect", "read", "write"}, s \in Ends :
        /\ Completed(l, op, s, FALSE)
        /\ op # "read" \/ ~net[s].reset
        /\ Handled(l, FALSE)
        /\ UNCHANGED <<run, linkVars, appVars, sock>>

-----------------------------------------------------------------------------
ContextOnly == UNCHANGED <<linkVars, appVars, sockVars, load>>

ClientApp == Connect \/ Connected \/ ClientReceived \/ ClientDisconnected \/ ClientSent \/ ClientClose
ServerApp == Listen \/ Accepted \/ ServerReceived \/ ServerDisconnected \/ ServerSent

Thread(l) ==
    \/ l = ClientLoop /\ ClientApp
    \/ l = ServerLoop /\ ServerApp
    \/ EnterLoop(l) \/ Failed(l)
    \/ (Check(l) \/ RunExec(l)) /\ ContextOnly

Next ==
    \/ \E l \in Loops : Thread(l)
    \/ Completes
    \/ LinkStep /\ LinkOnly
    \/ Outside /\ ContextOnly

(* Threads run, the kernel completes what it can and moves bytes, on_timer *)
(* runs.  Nobody has to post, stop or cancel.                              *)
Fairness ==
    /\ \A l \in Loops : WF_vars(Thread(l))
    /\ WF_vars(AcceptDone) /\ WF_vars(ConnectDone)
    /\ \A s \in Ends : WF_vars(ReadDone(s)) /\ WF_vars(WriteDone(s))
    /\ WF_vars(Establish /\ LinkOnly)
    /\ \A s \in Ends : WF_vars(Transfer(s) /\ LinkOnly) /\ WF_vars(DeliverFin(s) /\ LinkOnly)
    /\ \A t \in Timers : WF_vars(OnTimer(t) /\ ContextOnly)

Spec == Init /\ [][Next]_vars
FairSpec == Spec /\ Fairness

-----------------------------------------------------------------------------
(* Properties *)

(* Once the whole message has come back, the session is destroyed only     *)
(* when the kernel holds none of its buffers and no packet with its        *)
(* address as the key is queued: the completion of the last write comes    *)
(* before the end of the stream.  When the client leaves early nothing     *)
(* keeps the session alive until a pending write completes.                *)
NoUseAfterDestroy ==
    session = "erased" /\ received_msg = large_message =>
        /\ ~sock[Server].read /\ ~sock[Server].write
        /\ \A i \in DOMAIN port[ServerLoop] : port[ServerLoop][i].op = "exec"

(* The whole message comes back, although each side has one write at a     *)
(* time and drops what is offered meanwhile; then the server notices the   *)
(* end of the client, erases the session and leaves its loop.              *)
SessionCompletes ==
    (link = "up" /\ load.patient /\ load.tasks = 0 /\ at[ServerLoop] # "out")
      ~> /\ received_msg = large_message
         /\ session = "erased" /\ at[ServerLoop] = "out"
=============================================================================
