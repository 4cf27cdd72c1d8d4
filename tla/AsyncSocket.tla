---------------------------- MODULE AsyncSocket ----------------------------
(***************************************************************************)
(* The Linux asynchronous socket (socket_base_pimpl in                     *)
(* src/src/linux/socket_base.cpp) and the event loops that dispatch to it, *)
(* on the TCP connection of TcpLink.                                       *)
(*                                                                         *)
(* A Listener accepts the connection of Client and makes Server of it.     *)
(* Every system call is one step, so that the kernel and the other loop    *)
(* may act between any two of them.  The module is a library: what the     *)
(* application does inside a callback is added by EchoSession and          *)
(* SocketStream.  A callback is running while at[l] = "cb"; it may call    *)
(* write once (at[l] = "send" until so_write returns, then "sent"), and it *)
(* ends with Returned.  on_error is left out: no user of these sockets     *)
(* does more in it than log.                                               *)
(***************************************************************************)
EXTENDS TcpLink, FiniteSets

CONSTANTS Listener,     \* the listening socket
          Loops,        \* the io_contexts, each with the thread that runs it
          LoopOf,       \* the io_context of each socket
          SendMax,      \* most bytes given to one send (1024 * 20 in so_write)
          RecvMax       \* most bytes taken by one recv (1024 * 4 in handle_event)

Socks == Ends \cup {Listener}

(* An accepted socket belongs to the io_context of its listener.           *)
ASSUME SocketAssumption ==
    Listener \notin Ends /\ LoopOf \in [Socks -> Loops] /\ LoopOf[Server] = LoopOf[Listener]
ASSUME SizeAssumption == {SendMax, RecvMax} \subseteq Nat \ {0}

VARIABLES sock,     \* the fields of each socket_base_pimpl and its epoll entry
          running,  \* io_context_pimpl::run of each loop
          at,       \* where the loop's thread is
          batch,    \* events returned by epoll_wait and not yet dispatched
          cb,       \* the callback that is running
          arg,      \* the bytes handed to on_received
          wr        \* so_write in progress: socket, buffer and how much was sent

sockVars == <<sock, linkVars, running, at, batch, cb, arg, wr>>

NoWrite == [sock |-> Client, buf |-> <<>>, sent |-> 0]
Fresh == [alive |-> TRUE, open |-> TRUE, connected |-> FALSE, listening |-> FALSE,
          write_enabled |-> TRUE, armed |-> {}]

SocketInit ==
    /\ sock = [s \in Socks |-> IF s = Server THEN [Fresh EXCEPT !.alive = FALSE, !.open = FALSE] ELSE Fresh]
    /\ LinkInit
    /\ running = [l \in Loops |-> FALSE]
    /\ at = [l \in Loops |-> "out"]
    /\ batch = [l \in Loops |-> <<>>]
    /\ cb = [l \in Loops |-> "none"]
    /\ arg = [l \in Loops |-> <<>>]
    /\ wr = [l \in Loops |-> NoWrite]

-----------------------------------------------------------------------------
(* What epoll reports of a socket, external too.                           *)

Readable(s) ==
    IF s = Listener THEN link = "up" /\ ~sock[Server].connected
    ELSE net[s].rcv # <<>> \/ Over(s)

Writable(s) ==
    /\ s # Listener
    /\ \/ link = "up" /\ Room(s) > 0
       \/ net[s].reset
       \/ link = "refused"

KernelOnly == UNCHANGED <<sock, running, at, batch, cb, arg, wr>>
Kernel == LinkStep /\ KernelOnly

-----------------------------------------------------------------------------
(* socket_base_pimpl *)

(* set_events: epoll_ctl fails, and is only logged, on a closed descriptor.*)
SetEventsAddOnly(s, evs) ==       \* mutant: always EPOLL_CTL_ADD
    IF sock[s].open /\ sock[s].armed = {} THEN [sock[s] EXCEPT !.armed = evs] ELSE sock[s]
SetEvents(s, evs) == IF sock[s].open THEN [sock[s] EXCEPT !.armed = evs] ELSE sock[s]

(* Closing removes the descriptor from the epoll set. *)
ClosedSock(s) == [sock[s] EXCEPT !.open = FALSE, !.armed = {}]

Listen ==
    /\ ~sock[Listener].listening
    /\ sock' = [sock EXCEPT ![Listener] = [SetEvents(Listener, {"IN"}) EXCEPT !.listening = TRUE]]
    /\ UNCHANGED <<link, net, running, at, batch, cb, arg, wr>>

Connect ==
    /\ link = "none"
    /\ sock[Client].open
    /\ sock' = [sock EXCEPT ![Client] = SetEvents(Client, {"IN", "OUT"})]
    /\ link' = "syn"
    /\ UNCHANGED <<net, running, at, batch, cb, arg, wr>>

-----------------------------------------------------------------------------
(* The loop of io_context_pimpl::wait_for_input *)

Enter(l) ==
    /\ at[l] = "out"
    /\ running' = [running EXCEPT ![l] = TRUE]
    /\ at' = [at EXCEPT ![l] = "wait"]
    /\ UNCHANGED <<sock, link, net, batch, cb, arg, wr>>

ReadyEvents(s) ==
    sock[s].armed \cap ((IF Readable(s) THEN {"IN"} ELSE {}) \cup (IF Writable(s) THEN {"OUT"} ELSE {}))

Poll(l) ==
    /\ at[l] = "wait"
    /\ LET ready == {s \in Socks : LoopOf[s] = l /\ sock[s].open /\ ReadyEvents(s) # {}} IN
       /\ ready # {}
       /\ \E order \in [1..Cardinality(ready) -> ready] :
             /\ \A s \in ready : \E i \in DOMAIN order : order[i] = s
             /\ batch' = [batch EXCEPT ![l] =
                            [i \in DOMAIN order |-> [sock |-> order[i], ev |-> ReadyEvents(order[i])]]]
    /\ at' = [at EXCEPT ![l] = "next"]
    /\ UNCHANGED <<sock, link, net, running, cb, arg, wr>>

Cur(l) == Head(batch[l]).sock
Ev(l)  == Head(batch[l]).ev

Dispatch(l) ==
    /\ at[l] = "next"
    /\ at' = [at EXCEPT ![l] = IF batch[l] # <<>> THEN "EPOLLOUT" ELSE IF running[l] THEN "wait" ELSE "left"]
    /\ UNCHANGED <<sock, link, net, running, batch, cb, arg, wr>>

(* handle_event, first part: the write interest is withdrawn before the    *)
(* callback, which may put it back.                                        *)
InterestOnly(s) == [SetEvents(s, {"IN"}) EXCEPT !.connected = TRUE]   \* mutant: write_enabled_ kept
Interest(s) == [SetEvents(s, {"IN"}) EXCEPT !.write_enabled = TRUE, !.connected = TRUE]

SkipOut(l) ==
    /\ at[l] = "EPOLLOUT" /\ "OUT" \notin Ev(l)
    /\ at' = [at EXCEPT ![l] = "EPOLLIN"]
    /\ UNCHANGED <<sock, link, net, running, batch, cb, arg, wr>>

HandleOut(l) ==
    LET s == Cur(l)
        failed == sock[s].open /\ net[s].err     \* SO_ERROR, which is cleared
    IN
    /\ at[l] = "EPOLLOUT" /\ "OUT" \in Ev(l)
    /\ sock' = [sock EXCEPT ![s] = Interest(s)]
    /\ IF ~sock[s].connected /\ failed
       THEN /\ at' = [at EXCEPT ![l] = "EPOLLIN"]
            /\ net' = [net EXCEPT ![s].err = FALSE]
            /\ UNCHANGED cb
       ELSE /\ at' = [at EXCEPT ![l] = "cb"]
            /\ cb' = [cb EXCEPT ![l] = IF sock[s].connected THEN "on_sent" ELSE "on_connected"]
            /\ UNCHANGED net
    /\ UNCHANGED <<link, running, batch, arg, wr>>

(* handle_event, second part. *)
AtIn(l) == at[l] = "EPOLLIN" /\ "IN" \in Ev(l)

SkipIn(l) ==
    /\ at[l] = "EPOLLIN" /\ "IN" \notin Ev(l)
    /\ at' = [at EXCEPT ![l] = "next"]
    /\ batch' = [batch EXCEPT ![l] = Tail(@)]
    /\ UNCHANGED <<sock, link, net, running, cb, arg, wr>>

(* The new socket is constructed around the accepted descriptor, armed for *)
(* EPOLLIN and marked as connected, then given to on_accepted.             *)
HandleAccept(l) ==
    /\ AtIn(l) /\ sock[Cur(l)].listening
    /\ sock' = [sock EXCEPT ![Server] = [Fresh EXCEPT !.armed = {"IN"}, !.connected = TRUE]]
    /\ cb' = [cb EXCEPT ![l] = "on_accepted"]
    /\ at' = [at EXCEPT ![l] = "cb"]
    /\ UNCHANGED <<link, net, running, batch, arg, wr>>

(* recv returns some bytes, 0 at the end of the stream, or an error.       *)
Receives(l, name) ==
    /\ cb' = [cb EXCEPT ![l] = name]
    /\ at' = [at EXCEPT ![l] = "cb"]
    /\ UNCHANGED <<sock, link, running, batch, wr>>

HandleData(l) ==
    LET s == Cur(l)
        n == Least({Len(net[s].rcv), RecvMax})
    IN
    /\ AtIn(l) /\ ~sock[s].listening
    /\ sock[s].open /\ n > 0
    /\ arg' = [arg EXCEPT ![l] = SubSeq(net[s].rcv, 1, n)]
    /\ net' = [net EXCEPT ![s].rcv = Drop(@, n)]
    /\ Receives(l, "on_received")

HandleEof(l) ==
    LET s == Cur(l) IN
    /\ AtIn(l) /\ ~sock[s].listening
    /\ sock[s].open /\ net[s].rcv = <<>> /\ ~net[s].err
    /\ Over(s)
    /\ Receives(l, "on_disconnected")
    /\ UNCHANGED <<arg, net>>

(* recv fails on a closed descriptor, with the connection's pending error, *)
(* or because there is nothing to read.                                    *)
HandleRecvError(l) ==
    LET s == Cur(l) IN
    /\ AtIn(l) /\ ~sock[s].listening
    /\ ~sock[s].open \/ (net[s].rcv = <<>> /\ (net[s].err \/ ~Over(s)))
    /\ net' = IF sock[s].open THEN [net EXCEPT ![s].err = FALSE] ELSE net
    /\ at' = [at EXCEPT ![l] = "next"]
    /\ batch' = [batch EXCEPT ![l] = Tail(@)]
    /\ UNCHANGED <<sock, link, running, cb, arg, wr>>

-----------------------------------------------------------------------------
(* so_write: sends until the kernel takes no more.  A last send of nothing *)
(* ends the loop when everything has been taken.                           *)

BeginWrite(l, s, buf) ==
    /\ wr' = [wr EXCEPT ![l] = [sock |-> s, buf |-> buf, sent |-> 0]]
    /\ at' = [at EXCEPT ![l] = "send"]

Rest(l) == Drop(wr[l].buf, wr[l].sent)

(* One send takes at most what it is offered and what the kernel has room  *)
(* for; its result is added to what so_write has sent.                     *)
Amount(l) == Least({Len(Rest(l)), SendMax, Room(wr[l].sock)})
CountedAsked(l) == wr[l].sent + Least({Len(Rest(l)), SendMax})   \* mutant: len_aux is added
Counted(l) == wr[l].sent + Amount(l)

SendSome(l) ==
    LET s == wr[l].sock IN
    /\ at[l] = "send" /\ Amount(l) > 0
    /\ sock[s].open /\ link = "up" /\ ~net[s].reset
    /\ net' = [net EXCEPT ![s].snd = @ \o SubSeq(Rest(l), 1, Amount(l))]
    /\ wr' = [wr EXCEPT ![l].sent = Counted(l)]
    /\ UNCHANGED <<sock, link, running, at, batch, cb, arg>>

SendNothing(l) ==
    /\ at[l] = "send" /\ Rest(l) = <<>>
    /\ at' = [at EXCEPT ![l] = "sent"]
    /\ UNCHANGED <<sock, link, net, running, batch, cb, arg, wr>>

(* EAGAIN: the buffer is full, or the connection is not yet established.   *)
AskOutQuietly(s) == [sock[s] EXCEPT !.write_enabled = FALSE]    \* mutant: not asked for
AskOut(s) == [SetEvents(s, {"IN", "OUT"}) EXCEPT !.write_enabled = FALSE]

SendBlocksCounted(l) ==           \* mutant: the -1 of send is returned, and so_write adds it up
    LET s == wr[l].sock IN
    /\ at[l] = "send" /\ Rest(l) # <<>>
    /\ sock[s].open
    /\ link = "syn" \/ (link = "up" /\ ~net[s].reset /\ Room(s) = 0)
    /\ sock' = [sock EXCEPT ![s] = AskOut(s)]
    /\ wr' = [wr EXCEPT ![l].sent = @ - 1]
    /\ UNCHANGED <<link, net, running, at, batch, cb, arg>>

SendBlocks(l) ==
    LET s == wr[l].sock IN
    /\ at[l] = "send" /\ Rest(l) # <<>>
    /\ sock[s].open
    /\ link = "syn" \/ (link = "up" /\ ~net[s].reset /\ Room(s) = 0)
    /\ sock' = [sock EXCEPT ![s] = AskOut(s)]
    /\ at' = [at EXCEPT ![l] = "sent"]
    /\ UNCHANGED <<link, net, running, batch, cb, arg, wr>>

SendFails(l) ==
    LET s == wr[l].sock IN
    /\ at[l] = "send" /\ Rest(l) # <<>>
    /\ ~sock[s].open \/ net[s].reset \/ link = "refused"
    /\ net' = IF sock[s].open THEN [net EXCEPT ![s].err = FALSE] ELSE net
    /\ at' = [at EXCEPT ![l] = "sent"]
    /\ UNCHANGED <<sock, link, running, batch, cb, arg, wr>>

-----------------------------------------------------------------------------
(* A callback returns: from the EPOLLOUT part to the EPOLLIN part, from    *)
(* the EPOLLIN part to the next event.  The callbacks of the first part    *)
(* are on_connected and on_sent.                                           *)
ReturnedReadsOn(l) ==      \* mutant: recv is called again until it fails
    /\ at' = [at EXCEPT ![l] = IF cb[l] = "on_accepted" THEN "next" ELSE "EPOLLIN"]
    /\ batch' = IF cb[l] = "on_accepted" THEN [batch EXCEPT ![l] = Tail(@)] ELSE batch
    /\ cb' = [cb EXCEPT ![l] = "none"]
    /\ arg' = [arg EXCEPT ![l] = <<>>]
    /\ wr' = [wr EXCEPT ![l] = NoWrite]

Returned(l) ==
    /\ IF cb[l] \in {"on_connected", "on_sent"}
       THEN at' = [at EXCEPT ![l] = "EPOLLIN"] /\ UNCHANGED batch
       ELSE at' = [at EXCEPT ![l] = "next"] /\ batch' = [batch EXCEPT ![l] = Tail(@)]
    /\ cb' = [cb EXCEPT ![l] = "none"]
    /\ arg' = [arg EXCEPT ![l] = <<>>]
    /\ wr' = [wr EXCEPT ![l] = NoWrite]

LoopStep(l) ==
    \/ Poll(l) \/ Dispatch(l)
    \/ SkipOut(l) \/ HandleOut(l)
    \/ SkipIn(l) \/ HandleAccept(l) \/ HandleData(l) \/ HandleEof(l) \/ HandleRecvError(l)
    \/ SendSome(l) \/ SendNothing(l) \/ SendBlocks(l) \/ SendFails(l)

-----------------------------------------------------------------------------
(* Properties of the socket, whatever the application does.                *)

(* The fields and the loops keep to their ranges.  so_write's sum of what  *)
(* send returned is a count of bytes of its buffer, whatever sequence of   *)
(* parts of it, EAGAIN and errors send returns.                            *)
SocketTypeOK ==
    /\ sock \in [Socks -> [alive : BOOLEAN, open : BOOLEAN, connected : BOOLEAN, listening : BOOLEAN,
                           write_enabled : BOOLEAN, armed : SUBSET {"IN", "OUT"}]]
    /\ LinkTypeOK
    /\ running \in [Loops -> BOOLEAN]
    /\ at \in [Loops -> {"out", "wait", "next", "EPOLLOUT", "EPOLLIN", "cb", "send", "sent", "left", "threw"}]
    /\ cb \in [Loops -> {"none", "on_connected", "on_sent", "on_accepted", "on_received", "on_disconnected"}]
    /\ \A l \in Loops :
        /\ wr[l].sock \in Ends /\ wr[l].buf \in Seq(Nat) /\ wr[l].sent \in 0..Len(wr[l].buf)
        /\ arg[l] \in Seq(Nat)

(* A socket whose last send found the kernel's buffer full stays armed for *)
(* EPOLLOUT until it has been told that there is room again, so the bytes  *)
(* that could not be sent are asked for (write_enabled_ and set_events in  *)
(* so_write_internal and handle_event).                                    *)
WriteInterest ==
    \A s \in Ends : sock[s].open /\ ~sock[s].write_enabled => "OUT" \in sock[s].armed

(* handle_event never goes on with a socket that a callback has destroyed, *)
(* neither the one it was called for nor one that appears later among the  *)
(* events of the same epoll_wait.                                          *)
NoUseAfterDestroy ==
    \A l \in Loops :
        /\ at[l] \in {"EPOLLOUT", "EPOLLIN"} => sock[Cur(l)].alive
        /\ at[l] = "send" => sock[wr[l].sock].alive
=============================================================================
