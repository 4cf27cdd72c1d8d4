----------------------------- MODULE SslStream -----------------------------
(***************************************************************************)
(* ssl::stream (src/include/acpp-network/ssl/ssl.inl): the TLS layer       *)
(* between an application and a transport, at both ends of a connection.   *)
(* The client writes its messages when it is connected, the server echoes  *)
(* what it receives, as the tests of src/tests/stream_tests.cpp do, and    *)
(* either may call disconnect.                                             *)
(*                                                                         *)
(* The transport keeps bytes in order.  A queued one, the socket_stream,   *)
(* hands them over later, in pieces of any size up to the receive buffer   *)
(* of the socket.  A synchronous one, the fake_endpoint of the tests,      *)
(* calls on_received of the peer inside its write: the handler that writes *)
(* is suspended until the peer's has returned, and may itself be entered   *)
(* again in between.  OpenSSL and its pair of memory BIOs are external:    *)
(* a TLS record is a sequence of cells, the last one marked, and SSL_read  *)
(* and the handshake see a record only once all of it is there.            *)
(*                                                                         *)
(* A handler runs on the thread of the loop.  It is split at the           *)
(* application's callbacks, which may write or disconnect: at[e] says      *)
(* where the handler of end e is.  The loop that moves the outgoing BIO to *)
(* the transport follows every call of OpenSSL and is part of its step.    *)
(***************************************************************************)
EXTENDS Naturals, Sequences

CONSTANTS Client, Server,
          BioSizes,        \* bytes each BIO holds, per transport: 1024 * 5 over a queued
                           \* one, 1024 * 50 over a synchronous one
          RecordMax,       \* most bytes of one record (16384)
          RecvMax,         \* most bytes the socket hands over (1024 * 4)
          ServerFlight,    \* bytes of the server's answer to the ClientHello
          Messages,        \* what the client writes in on_connected
          Applications,    \* the applications: "patient", "impatient" ones may disconnect
                           \* before the echo is complete
          Transports       \* some of "queued" and "synchronous"

Ends == {Client, Server}

ASSUME SslAssumption ==
    /\ Client # Server
    /\ Transports \subseteq {"queued", "synchronous"}
    /\ BioSizes \in [{"queued", "synchronous"} -> Nat \ {0}]
    /\ \A n \in {RecordMax, RecvMax, ServerFlight} : n \in Nat \ {0}
    /\ RecvMax <= BioSizes["queued"]
    /\ Messages \in Seq(Seq(Nat))
    /\ "synchronous" \in Transports => \A i \in DOMAIN Messages : Len(Messages[i]) <= RecordMax
    /\ Applications \subseteq {"patient", "impatient"}

VARIABLES app,       \* the application of this behaviour, one of Applications
          transport, \* its transport, one of Transports
          stack,     \* synchronous: the handlers that were entered again, innermost first
          status,    \* status_ of each stream
          ssl,       \* OpenSSL's state: handshake stage, close_notify sent and seen, error
          in,        \* bytes given to OpenSSL and not yet used
          unread,    \* how many of them are still in the BIO
          stuck,     \* bytes OpenSSL could not put into the BIO
          wire,      \* bytes each end has written to the transport
          up,        \* the transport is connected
          at,        \* where the handler of each end is
          tail,      \* does it end with on_received's look at the shutdown state?
          arg,       \* the bytes handed to on_received_cb_
          outbox,    \* what the application still writes in this callback
          wrote,     \* history: what it passed to write while connected
          received,  \* history: what on_received_cb_ was given
          told,      \* history: calls of on_connected_cb_
          ended,     \* history: calls of on_disconnected_cb_
          dropped    \* history: bytes a BIO_write did not take, unless OpenSSL had failed

vars == <<app, transport, stack, status, ssl, in, unread, stuck, wire, up, at, tail, arg, outbox,
          wrote, received, told, ended, dropped>>

Peer(e) == IF e = Client THEN Server ELSE Client
BioCap == BioSizes[transport]
Least(a, b) == IF a <= b THEN a ELSE b
Take(q, n) == SubSeq(q, 1, Least(n, Len(q)))
Drop(q, n) == SubSeq(q, n + 1, Len(q))

-----------------------------------------------------------------------------
(* TLS records *)

Cell(type, v, last) == [type |-> type, v |-> v, last |-> last]
Plain(type) == <<Cell(type, 0, TRUE)>>
Flight == [i \in 1..ServerFlight |-> Cell("hs", 0, i = ServerFlight)]

(* Bytes of the first whole record, 0 when it is not all there. *)
FirstEnd(q) ==
    LET ends == {i \in DOMAIN q : q[i].last} IN
    IF ends = {} THEN 0 ELSE CHOOSE i \in ends : \A j \in ends : i <= j

Data(cells) == [i \in DOMAIN cells |-> cells[i].v]

(* SSL_write cuts what it is given into records. *)
Records(data) == [i \in DOMAIN data |-> Cell("app", data[i], i % RecordMax = 0 \/ i = Len(data))]

Init ==
    /\ app \in Applications /\ transport \in Transports /\ stack = <<>>
    /\ status = [e \in Ends |-> "closed"]
    /\ ssl = [e \in Ends |-> [stage |-> "start", sent |-> FALSE, seen |-> FALSE, fatal |-> FALSE]]
    /\ in = [e \in Ends |-> <<>>] /\ unread = [e \in Ends |-> 0]
    /\ stuck = [e \in Ends |-> <<>>] /\ wire = [e \in Ends |-> <<>>]
    /\ up = FALSE
    /\ at = [e \in Ends |-> "idle"] /\ tail = [e \in Ends |-> FALSE]
    /\ arg = [e \in Ends |-> <<>>]
    /\ outbox = [e \in Ends |-> <<>>]
    /\ wrote = [e \in Ends |-> <<>>] /\ received = [e \in Ends |-> <<>>]
    /\ told = [e \in Ends |-> 0] /\ ended = [e \in Ends |-> 0] /\ dropped = 0

appVars == <<arg, outbox, wrote, received, told, ended>>

-----------------------------------------------------------------------------
(* Over a synchronous transport only one handler runs: once what it has    *)
(* written is delivered, the one entered last.                             *)

Delivered == \A e \in Ends : wire[e] = <<>>
Running(e) ==
    \/ transport = "queued"
    \/ Delivered /\ (stack # <<>> => Head(stack).end = e)

(* What end e was about to do when it is entered again. *)
Frame(e) == [end |-> e, at |-> at[e], tail |-> tail[e], outbox |-> outbox[e]]

(* on_received is called: by the loop, or by the write of the peer.        *)
Entered(e) ==
    \/ transport = "queued" /\ at[e] = "idle" /\ UNCHANGED stack
    \/ transport = "synchronous" /\ stack' = <<Frame(e)>> \o stack

HandlerReturns(e) ==
    /\ stack # <<>> /\ Running(e) /\ at[e] = "idle"
    /\ at' = [at EXCEPT ![e] = Head(stack).at]
    /\ tail' = [tail EXCEPT ![e] = Head(stack).tail]
    /\ outbox' = [outbox EXCEPT ![e] = Head(stack).outbox]
    /\ stack' = Tail(stack)
    /\ UNCHANGED <<status, ssl, in, unread, stuck, wire, up, arg, wrote, received, told, ended, dropped>>

(* The transport hands over some bytes, which BIO_write gives to OpenSSL.  *)
(* What does not fit is lost during the handshake and the shutdown;        *)
(* on_received would offer it again.                                       *)

Fed(e, chunk) == in[e] \o Take(chunk, BioCap - unread[e])

Arrives(e, chunk) ==
    /\ chunk # <<>> /\ Entered(e)
    /\ dropped' = IF ssl[e].fatal THEN dropped
                  ELSE dropped + (Len(chunk) - Least(Len(chunk), BioCap - unread[e]))

Chunks(e) ==
    IF transport = "queued" THEN {Take(wire[Peer(e)], n) : n \in 1..RecvMax} ELSE {wire[Peer(e)]}

(* The wires after end e has taken chunk and written cells.                *)
Moved(e, chunk, cells) ==
    wire' = [wire EXCEPT ![Peer(e)] = Drop(@, Len(chunk)), ![e] = @ \o cells]

(* do_connect: one call of SSL_connect or SSL_accept.  The client begins   *)
(* with its ClientHello, the server answers with its flight, the client    *)
(* finishes, and the server adds a session ticket.                         *)
Answer(e) ==
    IF e = Client THEN Plain("hs") ELSE IF ssl[e].stage = "start" THEN Flight ELSE Plain("hs")

(* What follows the record just used stays for the next call.              *)
UnusedNone(q, k) == <<>>           \* mutant: the rest of the BIO is thrown away
Unused(q, k) == Drop(q, k)

DoConnect(e, chunk) ==
    LET q == Fed(e, chunk)
        k == FirstEnd(q)
        first == e = Client /\ ssl[e].stage = "start"
        advance == ssl[e].stage # "done" /\ (first \/ k > 0)
        stage == IF ~advance THEN ssl[e].stage ELSE IF ssl[e].stage = "start" THEN "wait" ELSE "done"
        cells == stuck[e] \o (IF advance THEN Answer(e) ELSE <<>>)
    IN
    /\ ssl' = [ssl EXCEPT ![e].stage = stage]
    /\ in' = [in EXCEPT ![e] = IF advance THEN Unused(q, k) ELSE q]
    /\ unread' = [unread EXCEPT ![e] = IF stage = "done" THEN Len(in'[e]) ELSE 0]
    /\ stuck' = [stuck EXCEPT ![e] = Drop(cells, BioCap)]
    /\ Moved(e, chunk, Take(cells, BioCap))
    /\ status' = [status EXCEPT ![e] = IF stage = "done" THEN "connected" ELSE "connecting"]
    /\ at' = [at EXCEPT ![e] = "announce"]
    /\ tail' = [tail EXCEPT ![e] = FALSE]
    /\ UNCHANGED appVars

(* A stream that is connected when do_connect has written is announced.    *)
(* The status is looked at after the writes: over a synchronous transport, *)
(* when a handler entered meanwhile has completed and announced it, too.   *)
AnnounceToClient(e) ==             \* mutant: the server is not told
    /\ at[e] = "announce"
    /\ at' = [at EXCEPT ![e] = IF status[e] = "connected" /\ e = Client THEN "on_connected" ELSE "read"]
    /\ UNCHANGED <<status, ssl, in, unread, stuck, wire, up, tail, appVars, dropped>>

Announce(e) ==
    /\ at[e] = "announce"
    /\ at' = [at EXCEPT ![e] = IF status[e] = "connected" THEN "on_connected" ELSE "read"]
    /\ UNCHANGED <<status, ssl, in, unread, stuck, wire, up, tail, appVars, dropped>>

(* on_connected of the transport: only the client has something to say.    *)
TransportConnected ==
    /\ ~up /\ up' = TRUE
    /\ DoConnect(Client, <<>>)
    /\ UNCHANGED dropped

ReceiveConnecting(e) ==
    \E chunk \in Chunks(e) :
        /\ status[e] \in {"closed", "connecting"}
        /\ Arrives(e, chunk)
        /\ DoConnect(e, chunk)
        /\ UNCHANGED up

(* on_received of a connected stream; SSL_read follows.  In peer_closing  *)
(* on_received ignores what it is given; CloseIsClean shows that nothing   *)
(* comes.                                                                  *)
ReceiveConnected(e) ==
    \E chunk \in Chunks(e) :
        /\ status[e] = "connected"
        /\ Arrives(e, chunk)
        /\ in' = [in EXCEPT ![e] = Fed(e, chunk)]
        /\ unread' = [unread EXCEPT ![e] = @ + Len(Fed(e, chunk)) - Len(in[e])]
        /\ Moved(e, chunk, <<>>)
        /\ at' = [at EXCEPT ![e] = "read"]
        /\ tail' = [tail EXCEPT ![e] = TRUE]
        /\ UNCHANGED <<status, ssl, stuck, up, appVars>>

-----------------------------------------------------------------------------
(* SSL_read, called until it gives nothing more. *)

ReadNothing(e) ==
    /\ at[e] = "read"
    /\ ssl[e].fatal \/ ssl[e].seen \/ FirstEnd(in[e]) = 0
    /\ unread' = [unread EXCEPT ![e] = IF ssl[e].fatal \/ ssl[e].seen THEN @ ELSE 0]
    /\ at' = [at EXCEPT ![e] = IF tail[e] THEN "check" ELSE "idle"]
    /\ UNCHANGED <<status, ssl, in, stuck, wire, up, tail, appVars, dropped>>

(* The next whole record is taken out of what has arrived. *)
NextRecord(e, type) ==
    LET k == FirstEnd(in[e]) IN
    /\ at[e] = "read"
    /\ ~ssl[e].fatal /\ ~ssl[e].seen /\ k > 0
    /\ in[e][k].type = type
    /\ in' = [in EXCEPT ![e] = Drop(@, k)]
    /\ unread' = [unread EXCEPT ![e] = Len(in[e]) - k]
    /\ UNCHANGED <<status, stuck, wire, up, outbox, wrote, told, ended, dropped>>

ReadData(e) ==
    /\ NextRecord(e, "app")
    /\ arg' = [arg EXCEPT ![e] = Data(Take(in[e], FirstEnd(in[e])))]
    /\ at' = [at EXCEPT ![e] = "on_received"]
    /\ UNCHANGED <<ssl, tail, received>>

(* A session ticket is of no interest to SSL_read; a close_notify ends it. *)
ReadTicket(e) ==
    /\ NextRecord(e, "hs")
    /\ UNCHANGED <<ssl, at, tail, arg, received>>

ReadClose(e) ==
    /\ NextRecord(e, "close")
    /\ ssl' = [ssl EXCEPT ![e].seen = TRUE]
    /\ UNCHANGED <<at, tail, arg, received>>

(* SSL_shutdown sends a close_notify, unless a record is stuck. *)
CloseNotifyNone(e) == <<>>         \* mutant: what it left in the BIO is not written
CloseNotify(e) == IF stuck[e] = <<>> THEN Plain("close") ELSE <<>>

(* The end of on_received: a close_notify of the peer is answered. *)
Check(e) ==
    LET answer == ssl[e].seen /\ ~ssl[e].sent IN
    /\ at[e] = "check"
    /\ IF answer
       THEN /\ status' = [status EXCEPT ![e] = "peer_closing"]
            /\ ssl' = [ssl EXCEPT ![e].sent = TRUE]
            /\ wire' = [wire EXCEPT ![e] = @ \o CloseNotify(e)]
       ELSE UNCHANGED <<status, ssl, wire>>
    /\ at' = [at EXCEPT ![e] = "idle"]
    /\ UNCHANGED <<in, unread, stuck, up, tail, appVars, dropped>>

-----------------------------------------------------------------------------
(* The application's callbacks. on_connected and on_received are called    *)
(* when at[e] says so; while at[e] = "app" the callback writes its outbox, *)
(* and may disconnect before it returns.                                   *)

OnConnected(e) ==
    /\ at[e] = "on_connected"
    /\ told' = [told EXCEPT ![e] = @ + 1]
    /\ outbox' = [outbox EXCEPT ![e] = IF e = Client THEN Messages ELSE <<>>]
    /\ at' = [at EXCEPT ![e] = "app"]
    /\ UNCHANGED <<status, ssl, in, unread, stuck, wire, up, tail, arg, wrote, received, ended, dropped>>

OnReceived(e) ==
    /\ at[e] = "on_received"
    /\ received' = [received EXCEPT ![e] = @ \o arg[e]]
    /\ outbox' = [outbox EXCEPT ![e] = IF e = Server THEN <<arg[e]>> ELSE <<>>]
    /\ arg' = [arg EXCEPT ![e] = <<>>]
    /\ at' = [at EXCEPT ![e] = "app"]
    /\ UNCHANGED <<status, ssl, in, unread, stuck, wire, up, tail, wrote, told, ended, dropped>>

OnDisconnected(e) ==
    /\ at[e] = "on_disconnected"
    /\ ended' = [ended EXCEPT ![e] = @ + 1]
    /\ at' = [at EXCEPT ![e] = "read"]
    /\ UNCHANGED <<status, ssl, in, unread, stuck, wire, up, tail, arg, outbox, wrote, received, told, dropped>>

(* Mutant: SSL_read is not called again. *)
ReturnStops(e) ==
    /\ at[e] = "app" /\ outbox[e] = <<>>
    /\ at' = [at EXCEPT ![e] = IF tail[e] THEN "check" ELSE "idle"]
    /\ UNCHANGED <<status, ssl, in, unread, stuck, wire, up, tail, appVars, dropped>>

Return(e) ==
    /\ at[e] = "app" /\ outbox[e] = <<>>
    /\ at' = [at EXCEPT ![e] = "read"]
    /\ UNCHANGED <<status, ssl, in, unread, stuck, wire, up, tail, appVars, dropped>>

(* write: SSL_write puts one record at a time into the BIO, which is moved *)
(* to the transport before the next.  A record larger than the BIO makes   *)
(* it fail: the loop breaks, what is in the BIO goes out, and the rest of  *)
(* the record waits in OpenSSL for a retry that does not come.  write      *)
(* returns len in every state.                                             *)
Write(e) ==
    LET msg == Head(outbox[e])
        cells == IF stuck[e] = <<>> THEN Records(msg) ELSE <<>>
        room == IF Least(Len(msg), RecordMax) <= BioCap THEN Len(cells) ELSE BioCap
    IN
    /\ at[e] = "app" /\ outbox[e] # <<>>
    /\ outbox' = [outbox EXCEPT ![e] = Tail(@)]
    /\ IF status[e] = "connected"
       THEN /\ wire' = [wire EXCEPT ![e] = @ \o Take(cells, room)]
            /\ stuck' = [stuck EXCEPT ![e] = @ \o Drop(cells, room)]
            /\ wrote' = [wrote EXCEPT ![e] = @ \o msg]
       ELSE UNCHANGED <<wire, stuck, wrote>>
    /\ UNCHANGED <<status, ssl, in, unread, up, at, tail, arg, received, told, ended, dropped>>

-----------------------------------------------------------------------------
(* disconnect and do_shutdown *)

Echo == Len(received[Client]) = Len(wrote[Client]) /\ wrote[Client] # <<>>

(* disconnect succeeds at once only when the peer has already closed.      *)
CompleteAtOnce(e) == TRUE          \* mutant: the peer is not waited for
Complete(e) == stuck[e] = <<>> /\ ssl[e].seen

Disconnect(e) ==
    /\ status[e] = "connected"
    /\ Running(e) /\ outbox[e] = <<>>
    /\ at[e] = "app" \/ (at[e] = "idle" /\ (transport = "queued" \/ at[Peer(e)] = "idle") /\ stack = <<>>)
    /\ app = "impatient" \/ (e = Client /\ Echo)
    /\ ssl' = [ssl EXCEPT ![e].sent = TRUE]
    /\ wire' = [wire EXCEPT ![e] = @ \o CloseNotify(e)]
    /\ status' = [status EXCEPT ![e] = IF Complete(e) THEN "closed" ELSE "closing"]
    /\ at' = [at EXCEPT ![e] = "report"]
    /\ tail' = [tail EXCEPT ![e] = at[e] = "app" /\ @]
    /\ UNCHANGED <<in, unread, stuck, up, appVars, dropped>>

(* The next one looks for the peer's close_notify.  Data in front of it is *)
(* a fatal error to OpenSSL.                                               *)
SkipTicket(q) == IF FirstEnd(q) > 0 /\ q[FirstEnd(q)].type = "hs" THEN Drop(q, FirstEnd(q)) ELSE q

DoShutdown(e, chunk) ==
    LET q == SkipTicket(Fed(e, chunk))
        k == FirstEnd(q)
        reads == stuck[e] = <<>> /\ ~ssl[e].fatal /\ ~ssl[e].seen
        seen == ssl[e].seen \/ (reads /\ k > 0 /\ q[k].type = "close")
        complete == seen /\ stuck[e] = <<>> /\ ~ssl[e].fatal
    IN
    /\ ssl' = [ssl EXCEPT ![e].seen = seen, ![e].fatal = @ \/ (reads /\ k > 0 /\ q[k].type = "app")]
    /\ in' = [in EXCEPT ![e] = IF reads THEN Drop(q, k) ELSE Fed(e, chunk)]
    /\ unread' = [unread EXCEPT ![e] = IF reads THEN IF k > 0 THEN Len(q) - k ELSE 0
                                              ELSE @ + Len(Fed(e, chunk)) - Len(in[e])]
    /\ status' = [status EXCEPT ![e] = IF complete THEN "closed" ELSE "closing"]
    /\ at' = [at EXCEPT ![e] = "report"]
    /\ tail' = [tail EXCEPT ![e] = FALSE]
    /\ Moved(e, chunk, <<>>)
    /\ UNCHANGED <<stuck, up, appVars>>

ReceiveClosing(e) ==
    \E chunk \in Chunks(e) :
        /\ status[e] = "closing"
        /\ Arrives(e, chunk)
        /\ DoShutdown(e, chunk)

(* A stream that is closed when do_shutdown has written is reported.       *)
Report(e) ==
    /\ at[e] = "report"
    /\ at' = [at EXCEPT ![e] = IF status[e] = "closed" THEN "on_disconnected" ELSE "read"]
    /\ UNCHANGED <<status, ssl, in, unread, stuck, wire, up, tail, appVars, dropped>>

-----------------------------------------------------------------------------
Receive(e) ==
    ReceiveConnecting(e) \/ ReceiveConnected(e) \/ ReceiveClosing(e)
Read(e) == ReadNothing(e) \/ ReadData(e) \/ ReadTicket(e) \/ ReadClose(e) \/ Check(e)
Callback(e) == Announce(e) \/ OnConnected(e) \/ OnReceived(e) \/ Report(e) \/ OnDisconnected(e)
                   \/ Write(e) \/ Return(e)

Step(e) ==
    \/ Receive(e) \/ HandlerReturns(e)
    \/ Running(e) /\ (Read(e) \/ Callback(e)) /\ UNCHANGED stack
Configuration == <<app, transport>>
Next ==
    /\ \/ (TransportConnected \/ \E e \in Ends : Disconnect(e)) /\ UNCHANGED stack
       \/ \E e \in Ends : Step(e)
    /\ UNCHANGED Configuration

(* The loops run their handlers, and the transport delivers.  Nobody has   *)
(* to disconnect.                                                          *)
Fairness ==
    /\ WF_vars(TransportConnected /\ UNCHANGED <<stack, Configuration>>)
    /\ \A e \in Ends : WF_vars(Step(e) /\ UNCHANGED Configuration)

Spec == Init /\ [][Next]_vars
FairSpec == Spec /\ Fairness

-----------------------------------------------------------------------------
(* Properties *)

Stages == {"start", "wait", "done"}
TypeOK ==
    /\ app \in Applications
    /\ status \in [Ends -> {"closed", "connecting", "connected", "peer_closing", "closing"}]
    /\ ssl \in [Ends -> [stage : Stages, sent : BOOLEAN, seen : BOOLEAN, fatal : BOOLEAN]]
    /\ \A e \in Ends : unread[e] \in 0..BioCap /\ unread[e] <= Len(in[e])
    /\ at \in [Ends -> {"idle", "announce", "on_connected", "read", "on_received", "check",
                       "report", "on_disconnected", "app"}]
    /\ up \in BOOLEAN /\ tail \in [Ends -> BOOLEAN]
    /\ told \in [Ends -> Nat] /\ ended \in [Ends -> Nat]

(* BIO_write always takes all that the socket received: every handler      *)
(* leaves the incoming BIO empty, so the bytes that do_connect would drop  *)
(* do not exist.  Only a stream that OpenSSL has given up leaves them.     *)
InputTaken == dropped = 0

(* What an application is given is what the other one wrote, in order and  *)
(* without gaps, however the transport cuts the records, whoever           *)
(* disconnects, and wherever a handler is entered again.                   *)
DataInOrder ==
    \A e \in Ends : received[e] = Take(wrote[Peer(e)], Len(received[e]))

(* Nothing reaches an application before its on_connected, which a queued  *)
(* transport lets it see once.  Over a synchronous one the do_connect that *)
(* was suspended in its write finds the status changed, and says it again. *)
ConnectedFirst == \A e \in Ends :
    /\ received[e] # <<>> \/ wrote[e] # <<>> \/ ended[e] > 0 => told[e] > 0
    /\ transport = "queued" => told[e] <= 1

(* on_disconnected is told only to an application that has received        *)
(* everything the other one wrote: SSL_shutdown succeeds only behind the   *)
(* last record.  And on_received ignores nothing in peer_closing: nothing  *)
(* is behind the peer's close_notify.                                      *)
CloseIsClean == \A e \in Ends :
    /\ ended[e] > 0 => received[e] = wrote[Peer(e)]
    /\ status[e] = "peer_closing" => wire[Peer(e)] = <<>>
    /\ transport = "queued" => ended[e] <= 1

(* The messages come back, as the tests expect of the stream, when nobody  *)
(* disconnects before; and every handler that was entered has returned.    *)
EchoArrives ==
    (up /\ app = "patient")
        ~> (Echo /\ outbox[Client] = <<>> /\ received[Client] = wrote[Client] /\ stack = <<>>)

(* A disconnect after the last byte of the echo is answered by the peer    *)
(* and reported with on_disconnected.                                      *)
CloseAnswered == \A e \in Ends :
    (status[e] = "closing" /\ app = "patient") ~> (status[e] = "closed" /\ ended[e] > 0)
=============================================================================
