-------------------------- MODULE EchoSessionProofs --------------------------
(***************************************************************************)
(* Proofs about EchoSession: that no byte of the echo is lost, repeated or *)
(* reordered on the way up or back, that no loop goes on with a destroyed  *)
(* socket and that a refused write is asked for, for every message, every  *)
(* size of the kernel's buffers and of a send and a recv.                  *)
(***************************************************************************)
EXTENDS EchoSession, SequenceLemmas, FiniteSetTheorems, TLAPS

-----------------------------------------------------------------------------
(* The two directions of the echo, as sequences *)

(* What was received, what is in hand, the two kernel buffers: these make  *)
(* the first n bytes of the message.                                       *)
UpFlow(rd, t, r, s, n, m) == rd \o t \o r \o s = SubSeq(m, 1, n)

(* What came back, what is in hand, the two kernel buffers and what is not *)
(* sent yet: these make what was received.                                 *)
DownFlow(rm, t, r, s, u, rd) == rm \o t \o r \o s \o u = rd

Associates(x, y, z) == (x \o y) \o z = x \o (y \o z)

LEMMA Association ==
  ASSUME NEW S, NEW x \in Seq(S), NEW y \in Seq(S), NEW z \in Seq(S)
  PROVE  Associates(x, y, z)
  BY ConcatAssociative DEF Associates

(* Four and five pieces in a row. *)
LEMMA FiveLengths ==
  ASSUME NEW S, NEW a \in Seq(S), NEW b \in Seq(S), NEW c \in Seq(S), NEW d \in Seq(S), NEW e \in Seq(S)
  PROVE  /\ a \o b \o c \o d \in Seq(S) /\ a \o b \o c \o d \o e \in Seq(S)
         /\ Len(a) \in Nat /\ Len(b) \in Nat /\ Len(c) \in Nat /\ Len(d) \in Nat /\ Len(e) \in Nat
         /\ Len(a \o b \o c \o d) = Len(a) + Len(b) + Len(c) + Len(d)
         /\ Len(a \o b \o c \o d \o e) = Len(a) + Len(b) + Len(c) + Len(d) + Len(e)
<1> DEFINE x == a \o b
           y == x \o c
           z == y \o d
<1>1. x \in Seq(S) /\ Len(x) = Len(a) + Len(b)
  BY ConcatProperties
<1> HIDE DEF x
<1>2. y \in Seq(S) /\ Len(y) = Len(x) + Len(c)
  BY <1>1, ConcatProperties
<1> HIDE DEF y
<1>3. z \in Seq(S) /\ Len(z) = Len(y) + Len(d)
  BY <1>2, ConcatProperties
<1> HIDE DEF z
<1>4. z \o e \in Seq(S) /\ Len(z \o e) = Len(z) + Len(e)
  BY <1>3, ConcatProperties
<1>5. Len(a) \in Nat /\ Len(b) \in Nat /\ Len(c) \in Nat /\ Len(d) \in Nat /\ Len(e) \in Nat
  BY LenProperties
<1>6. a \o b \o c \o d = z /\ a \o b \o c \o d \o e = z \o e
  BY DEF x, y, z
<1> QED BY <1>1, <1>2, <1>3, <1>4, <1>5, <1>6

LEMMA FlowCross ==
  ASSUME NEW S, NEW a \in Seq(S), NEW t \in Seq(S), NEW c \in Seq(S), NEW d \in Seq(S), d # <<>>
  PROVE  /\ \A n, m : UpFlow(a, t, c, d, n, m) => UpFlow(a, t, Append(c, Head(d)), Tail(d), n, m)
         /\ \A u, rd : DownFlow(a, t, c, d, u, rd) => DownFlow(a, t, Append(c, Head(d)), Tail(d), u, rd)
<1> DEFINE p == a \o t
           v == Append(c, Head(d))
           w == Tail(d)
<1>1. p \in Seq(S)
  BY ConcatProperties
<1>2. v \in Seq(S) /\ w \in Seq(S) /\ v \o w = c \o d
  BY Crossed
<1> HIDE DEF p, v, w
<1>3. Associates(p, c, d) /\ Associates(p, v, w)
  BY <1>1, <1>2, Association
<1>4. (p \o c) \o d = (p \o v) \o w
  BY <1>2, <1>3 DEF Associates
<1> QED BY <1>4 DEF UpFlow, DownFlow, p, v, w

LEMMA FlowRecv ==
  ASSUME NEW S, NEW a \in Seq(S), NEW g \in Seq(S), NEW q \in Seq(S), NEW r \in Seq(S), g \o q = r
  PROVE  /\ \A s, n, m : UpFlow(a, <<>>, r, s, n, m) => UpFlow(a, g, q, s, n, m)
         /\ \A s, u, rd : DownFlow(a, <<>>, r, s, u, rd) => DownFlow(a, g, q, s, u, rd)
<1>1. a \o <<>> = a
  BY ConcatEmptySeq
<1>2. Associates(a, g, q)
  BY Association
<1>3. (a \o <<>>) \o r = (a \o g) \o q
  BY <1>1, <1>2 DEF Associates
<1> QED BY <1>3 DEF UpFlow, DownFlow

(* The bytes of a callback are kept by the program. *)
LEMMA FlowGot ==
  ASSUME NEW S, NEW a \in Seq(S), NEW g \in Seq(S)
  PROVE  /\ \A r, s, n, m : UpFlow(a, g, r, s, n, m) => UpFlow(a \o g, <<>>, r, s, n, m)
         /\ \A r, s, u, rd : DownFlow(a, g, r, s, u, rd) => DownFlow(a \o g, <<>>, r, s, u, rd)
<1>1. a \o g \in Seq(S)
  BY ConcatProperties
<1>2. (a \o g) \o <<>> = a \o g
  BY <1>1, ConcatEmptySeq
<1> QED BY <1>2 DEF UpFlow, DownFlow

LEMMA FlowSend ==
  ASSUME NEW S, NEW a \in Seq(S), NEW t \in Seq(S), NEW r \in Seq(S), NEW s \in Seq(S), NEW x \in Seq(S)
  PROVE  /\ \A m \in Seq(S), n \in Nat, k \in Nat :
               n + k <= Len(m) /\ x = SubSeq(SubSeq(m, n + 1, Len(m)), 1, k) /\ UpFlow(a, t, r, s, n, m)
                  => UpFlow(a, t, r, s \o x, n + k, m)
         /\ \A u, rd : \A v \in Seq(S) :
               x \o v = u /\ DownFlow(a, t, r, s, u, rd) => DownFlow(a, t, r, s \o x, v, rd)
<1> DEFINE p == a \o t \o r
<1>1. p \in Seq(S)
  <2> DEFINE y == a \o t
  <2>1. y \in Seq(S)
    BY ConcatProperties
  <2> HIDE DEF y
  <2>2. y \o r \in Seq(S)
    BY <2>1, ConcatProperties
  <2> QED BY <2>2 DEF y
<1> HIDE DEF p
<1>2. Associates(p, s, x)
  BY <1>1, Association
<1>3. ASSUME NEW m \in Seq(S), NEW n \in Nat, NEW k \in Nat, n + k <= Len(m),
             x = SubSeq(SubSeq(m, n + 1, Len(m)), 1, k), p \o s = SubSeq(m, 1, n)
      PROVE  p \o (s \o x) = SubSeq(m, 1, n + k)
  <2>1. SubSeq(m, 1, n) \o SubSeq(SubSeq(m, n + 1, Len(m)), 1, k) = SubSeq(m, 1, n + k)
    BY <1>3, Grows
  <2> QED BY <1>2, <1>3, <2>1 DEF Associates
<1>4. ASSUME NEW v \in Seq(S) PROVE (p \o (s \o x)) \o v = (p \o s) \o (x \o v)
  <2> DEFINE y == p \o s
  <2>1. y \in Seq(S)
    BY <1>1, ConcatProperties
  <2> HIDE DEF y
  <2>2. Associates(y, x, v)
    BY <2>1, Association
  <2> QED BY <1>2, <2>2 DEF y, Associates
<1> QED BY <1>3, <1>4 DEF UpFlow, DownFlow, p

(* What is received and cannot be written at once is kept behind the rest. *)
LEMMA FlowKeep ==
  ASSUME NEW S, NEW a \in Seq(S), NEW t \in Seq(S), NEW r \in Seq(S), NEW s \in Seq(S), NEW u \in Seq(S),
         NEW g \in Seq(S)
  PROVE  \A rd : DownFlow(a, t, r, s, u, rd) => DownFlow(a, t, r, s, u \o g, rd \o g)
<1> DEFINE p == a \o t \o r \o s
<1>1. p \in Seq(S)
  BY FiveLengths
<1> HIDE DEF p
<1>2. Associates(p, u, g)
  BY <1>1, Association
<1> QED BY <1>2 DEF DownFlow, Associates, p

-----------------------------------------------------------------------------
USE LinkAssumption, SocketAssumption, SizeAssumption, LoopsAssumption, MessageAssumption
    DEF LinkAssumption, SocketAssumption, SizeAssumption, LoopsAssumption, MessageAssumption

-----------------------------------------------------------------------------
(* The invariant *)

Sock == [alive : BOOLEAN, open : BOOLEAN, connected : BOOLEAN, listening : BOOLEAN,
         write_enabled : BOOLEAN, armed : SUBSET {"IN", "OUT"}]
End == [snd : Seq(Nat), rcv : Seq(Nat), closed : BOOLEAN, eof : BOOLEAN, reset : BOOLEAN, err : BOOLEAN]
Entry == [sock : Socks, ev : SUBSET {"IN", "OUT"}]
Write == [sock : Ends, buf : Seq(Nat), sent : Nat]
Places == {"out", "wait", "next", "EPOLLOUT", "EPOLLIN", "cb", "send", "sent", "left", "threw"}
Callbacks == {"none", "on_connected", "on_sent", "on_accepted", "on_received", "on_disconnected"}

LoopTypes ==
    /\ running \in [Loops -> BOOLEAN] /\ at \in [Loops -> Places] /\ cb \in [Loops -> Callbacks]
    /\ batch \in [Loops -> Seq(Entry)] /\ arg \in [Loops -> Seq(Nat)] /\ wr \in [Loops -> Write]

(* Where a thread stands tells which event, callback and write it is at.   *)
Stands(p, c, a, w, r, b) ==
    /\ p \in {"out", "wait", "left"} => b = <<>>
    /\ p \in {"EPOLLOUT", "EPOLLIN", "cb", "send", "sent"} => b # <<>>
    /\ (c # "none") <=> (p \in {"cb", "send", "sent", "threw"})
    /\ p \in {"send", "sent"} => w.sock = Head(b).sock
    /\ p = "threw" => c = "on_disconnected"
    /\ p = "left" => ~r
    /\ a # <<>> => c = "on_received"
    /\ w.sent <= Len(w.buf)

(* What epoll_wait has returned: each socket of the loop once, none that   *)
(* has been destroyed.                                                     *)
Owned(b, l) ==
    /\ \A i \in DOMAIN b : LoopOf[b[i].sock] = l /\ (b[i].sock = Listener => b[i].ev \subseteq {"IN"})
    /\ \A i, j \in DOMAIN b : b[i].sock = b[j].sock => i = j
Live(b) ==
    \A i \in DOMAIN b : /\ sock[b[i].sock].alive
                        /\ b[i].sock = Listener => sock[Listener].listening

Loop(l) ==
    /\ Stands(at[l], cb[l], arg[l], wr[l], running[l], batch[l])
    /\ Owned(batch[l], l) /\ Live(batch[l])

Sockets ==
    /\ sock \in [Socks -> Sock]
    /\ sock[Listener].armed # {} => sock[Listener].listening
    /\ \A s \in Socks : sock[s].open => sock[s].alive
    /\ sock[Client].alive /\ sock[Listener].alive
    /\ WriteInterest

LInv == LoopTypes /\ Sockets /\ \A l \in Loops : Loop(l)

LinkTypes ==
    /\ net \in [Ends -> End] /\ link \in {"none", "syn", "up", "refused"}
    /\ \A s \in Ends : Len(net[s].snd) <= SndCap /\ Len(net[s].rcv) <= RcvCap

(* The client writes what it has not written yet. *)
ClientWrites == Writing(ClientLoop) => wr[ClientLoop].buf = Unwritten

(* The connection ends in one way: the client has everything, leaves its   *)
(* loop and closes; then the server reads the end of the stream and closes.*)
Endings ==
    /\ \A s \in Ends : ~net[s].reset
    /\ net[Client].closed => ~sock[Client].open /\ Whole(received_msg)
    /\ net[Server].eof \/ net[Server].closed \/ net[Client].eof => net[Client].closed
    /\ cb[ServerLoop] = "on_disconnected" => net[Server].eof
    /\ cb[ClientLoop] = "on_disconnected" => link = "refused"
    /\ at[ClientLoop] # "out" /\ ~running[ClientLoop] => Whole(received_msg)

DInv == LinkTypes /\ AppTypeOK /\ ClientWrites /\ Endings /\ EchoConserved

IInv == LInv /\ DInv

-----------------------------------------------------------------------------
(* The fields of a socket *)

LEMMA ArmedField ==
  ASSUME NEW r \in Sock, NEW e, e \subseteq {"IN", "OUT"}
  PROVE  /\ [r EXCEPT !.armed = e] \in Sock /\ [r EXCEPT !.armed = e].armed = e
         /\ [r EXCEPT !.armed = e].alive = r.alive /\ [r EXCEPT !.armed = e].open = r.open
         /\ [r EXCEPT !.armed = e].listening = r.listening
         /\ [r EXCEPT !.armed = e].write_enabled = r.write_enabled
  BY DEF Sock

LEMMA Fields ==
  ASSUME NEW r \in Sock
  PROVE  /\ \A v \in BOOLEAN :
              /\ [r EXCEPT !.write_enabled = v] \in Sock /\ [r EXCEPT !.write_enabled = v].write_enabled = v
              /\ [r EXCEPT !.write_enabled = v].alive = r.alive /\ [r EXCEPT !.write_enabled = v].open = r.open
              /\ [r EXCEPT !.write_enabled = v].listening = r.listening
              /\ [r EXCEPT !.write_enabled = v].armed = r.armed
         /\ \A v \in BOOLEAN :
              /\ [r EXCEPT !.connected = v] \in Sock
              /\ [r EXCEPT !.connected = v].alive = r.alive /\ [r EXCEPT !.connected = v].open = r.open
              /\ [r EXCEPT !.connected = v].listening = r.listening
              /\ [r EXCEPT !.connected = v].armed = r.armed
              /\ [r EXCEPT !.connected = v].write_enabled = r.write_enabled
         /\ \A v \in BOOLEAN :
              /\ [r EXCEPT !.open = v] \in Sock /\ [r EXCEPT !.open = v].open = v
              /\ [r EXCEPT !.open = v].alive = r.alive /\ [r EXCEPT !.open = v].listening = r.listening
         /\ \A v \in BOOLEAN :
              /\ [r EXCEPT !.alive = v] \in Sock /\ [r EXCEPT !.alive = v].alive = v
              /\ [r EXCEPT !.alive = v].open = r.open /\ [r EXCEPT !.alive = v].listening = r.listening
              /\ [r EXCEPT !.alive = v].write_enabled = r.write_enabled
              /\ [r EXCEPT !.alive = v].armed = r.armed
         /\ \A v \in BOOLEAN :
              /\ [r EXCEPT !.listening = v] \in Sock /\ [r EXCEPT !.listening = v].listening = v
              /\ [r EXCEPT !.listening = v].open = r.open /\ [r EXCEPT !.listening = v].alive = r.alive
  BY DEF Sock

(* What set_events and the other changes make of a socket. *)
LEMMA SetEventsIs ==
  ASSUME Sockets, NEW s \in Socks, NEW e \in SUBSET {"IN", "OUT"}
  PROVE  /\ SetEvents(s, e) \in Sock
         /\ SetEvents(s, e).alive = sock[s].alive /\ SetEvents(s, e).open = sock[s].open
         /\ SetEvents(s, e).listening = sock[s].listening
         /\ SetEvents(s, e).write_enabled = sock[s].write_enabled
         /\ sock[s].open => SetEvents(s, e).armed = e
         /\ ~sock[s].open => SetEvents(s, e) = sock[s]
<1>1. sock[s] \in Sock
  BY DEF Sockets
<1>2. CASE sock[s].open
  <2>1. SetEvents(s, e) = [sock[s] EXCEPT !.armed = e]
    BY <1>2 DEF SetEvents
  <2>2. e \subseteq {"IN", "OUT"}
    OBVIOUS
  <2> DEFINE r == sock[s]
             q == [r EXCEPT !.armed = e]
  <2>3. r \in Sock
    BY <1>1
  <2> HIDE DEF r
  <2>4. /\ q \in Sock /\ q.armed = e /\ q.alive = r.alive /\ q.open = r.open
        /\ q.listening = r.listening /\ q.write_enabled = r.write_enabled
    BY <2>2, <2>3, ArmedField
  <2>5. SetEvents(s, e) = q
    BY <2>1 DEF r
  <2> HIDE DEF q
  <2> QED BY <1>2, <2>4, <2>5 DEF r
<1>3. CASE ~sock[s].open
  BY <1>1, <1>3 DEF SetEvents
<1> QED BY <1>2, <1>3

LEMMA InterestIs ==
  ASSUME Sockets, NEW s \in Socks
  PROVE  /\ Interest(s) \in Sock
         /\ Interest(s).alive = sock[s].alive /\ Interest(s).open = sock[s].open
         /\ Interest(s).listening = sock[s].listening /\ Interest(s).write_enabled = TRUE
<1> DEFINE r == SetEvents(s, {"IN"})
           q == [r EXCEPT !.write_enabled = TRUE]
<1>1. Interest(s) = [q EXCEPT !.connected = TRUE]
  BY DEF Interest
<1>2. /\ r \in Sock /\ r.alive = sock[s].alive /\ r.open = sock[s].open /\ r.listening = sock[s].listening
  BY SetEventsIs
<1> HIDE DEF r
<1>3. q \in Sock /\ q.alive = r.alive /\ q.open = r.open /\ q.listening = r.listening /\ q.write_enabled = TRUE
  BY <1>2, Fields
<1> HIDE DEF q
<1>4. /\ [q EXCEPT !.connected = TRUE] \in Sock /\ [q EXCEPT !.connected = TRUE].alive = q.alive
      /\ [q EXCEPT !.connected = TRUE].open = q.open /\ [q EXCEPT !.connected = TRUE].listening = q.listening
      /\ [q EXCEPT !.connected = TRUE].write_enabled = q.write_enabled
  BY <1>3, Fields
<1> QED BY <1>1, <1>2, <1>3, <1>4

LEMMA AskOutIs ==
  ASSUME Sockets, NEW s \in Socks
  PROVE  /\ AskOut(s) \in Sock
         /\ AskOut(s).alive = sock[s].alive /\ AskOut(s).open = sock[s].open
         /\ AskOut(s).listening = sock[s].listening
         /\ sock[s].open => AskOut(s).armed = {"IN", "OUT"}
<1> DEFINE r == SetEvents(s, {"IN", "OUT"})
<1>1. AskOut(s) = [r EXCEPT !.write_enabled = FALSE]
  BY DEF AskOut
<1>2. /\ r \in Sock /\ r.alive = sock[s].alive /\ r.open = sock[s].open /\ r.listening = sock[s].listening
      /\ sock[s].open => r.armed = {"IN", "OUT"}
  BY SetEventsIs
<1> HIDE DEF r
<1>3. /\ [r EXCEPT !.write_enabled = FALSE] \in Sock /\ [r EXCEPT !.write_enabled = FALSE].alive = r.alive
      /\ [r EXCEPT !.write_enabled = FALSE].open = r.open
      /\ [r EXCEPT !.write_enabled = FALSE].listening = r.listening
      /\ [r EXCEPT !.write_enabled = FALSE].armed = r.armed
  BY <1>2, Fields
<1> QED BY <1>1, <1>2, <1>3

LEMMA ClosedIs ==
  ASSUME Sockets, NEW s \in Socks
  PROVE  /\ ClosedSock(s) \in Sock /\ ClosedSock(s).open = FALSE /\ ClosedSock(s).alive = sock[s].alive
         /\ [ClosedSock(s) EXCEPT !.alive = FALSE] \in Sock
         /\ [ClosedSock(s) EXCEPT !.alive = FALSE].open = FALSE
<1> DEFINE r == [sock[s] EXCEPT !.open = FALSE]
<1>1. ClosedSock(s) = [r EXCEPT !.armed = {}]
  BY DEF ClosedSock
<1>2. r \in Sock /\ r.open = FALSE /\ r.alive = sock[s].alive
  <2>1. sock[s] \in Sock
    BY DEF Sockets
  <2> QED BY <2>1, Fields
<1> HIDE DEF r
<1>3. /\ [r EXCEPT !.armed = {}] \in Sock /\ [r EXCEPT !.armed = {}].open = r.open
      /\ [r EXCEPT !.armed = {}].alive = r.alive
  BY <1>2, ArmedField
<1> DEFINE c == ClosedSock(s)
<1>4. c \in Sock /\ c.open = FALSE /\ c.alive = sock[s].alive
  BY <1>1, <1>2, <1>3
<1> HIDE DEF c
<1>5. [c EXCEPT !.alive = FALSE] \in Sock /\ [c EXCEPT !.alive = FALSE].open = c.open
  BY <1>4, Fields
<1> QED BY <1>4, <1>5 DEF c

LEMMA FreshIs ==
  /\ Fresh \in Sock /\ Fresh.alive = TRUE /\ Fresh.write_enabled = TRUE /\ Fresh.armed = {}
  /\ LET a == [Fresh EXCEPT !.armed = {"IN"}, !.connected = TRUE]
     IN  a \in Sock /\ a.alive = TRUE /\ a.write_enabled = TRUE
  /\ LET n == [Fresh EXCEPT !.alive = FALSE, !.open = FALSE] IN n \in Sock /\ n.open = FALSE
<1>1. Fresh \in Sock /\ Fresh.alive = TRUE /\ Fresh.write_enabled = TRUE /\ Fresh.armed = {}
  BY DEF Fresh, Sock
<1> DEFINE a1 == [Fresh EXCEPT !.armed = {"IN"}]
           n1 == [Fresh EXCEPT !.alive = FALSE]
<1>2. a1 \in Sock /\ a1.alive = TRUE /\ a1.write_enabled = TRUE
  BY <1>1, ArmedField
<1>5. n1 \in Sock
  BY <1>1, Fields
<1>3. /\ [Fresh EXCEPT !.armed = {"IN"}, !.connected = TRUE] = [a1 EXCEPT !.connected = TRUE]
      /\ [Fresh EXCEPT !.alive = FALSE, !.open = FALSE] = [n1 EXCEPT !.open = FALSE]
  OBVIOUS
<1> HIDE DEF a1, n1
<1>4. /\ [a1 EXCEPT !.connected = TRUE] \in Sock /\ [a1 EXCEPT !.connected = TRUE].alive = a1.alive
      /\ [a1 EXCEPT !.connected = TRUE].write_enabled = a1.write_enabled
      /\ [n1 EXCEPT !.open = FALSE] \in Sock /\ [n1 EXCEPT !.open = FALSE].open = FALSE
  BY <1>2, <1>5, Fields
<1> QED BY <1>1, <1>2, <1>3, <1>4

-----------------------------------------------------------------------------
(* Sockets: an open one that could not write is armed for EPOLLOUT *)

LEMMA SocksOfEnds ==
  /\ Client \in Ends /\ Server \in Ends /\ Listener \in Socks /\ Ends \subseteq Socks
  /\ \A s \in Ends : s # Listener
  BY DEF Ends, Socks

(* One socket changes. *)
LEMMA OneSocket ==
  ASSUME Sockets, NEW s \in Socks, NEW r \in Sock, sock' = [sock EXCEPT ![s] = r],
         r.open => r.alive, s # Server => r.alive,
         IF s = Listener THEN r.listening ELSE r.open /\ ~r.write_enabled => "OUT" \in r.armed
  PROVE  Sockets'
<1>1. /\ sock' \in [Socks -> Sock] /\ sock'[s] = r
      /\ \A t \in Socks \ {s} : sock'[t] = sock[t]
  BY DEF Sockets
<1>2. WriteInterest'
  BY <1>1, SocksOfEnds DEF Sockets, WriteInterest
<1> QED BY <1>1, <1>2, SocksOfEnds DEF Sockets

(* The event that is being handled, and those after it. *)
LEMMA HeadEntry ==
  ASSUME LInv, NEW l \in Loops, batch[l] # <<>>
  PROVE  /\ Head(batch[l]) \in Entry /\ Cur(l) \in Socks /\ LoopOf[Cur(l)] = l /\ sock[Cur(l)].alive
         /\ Cur(l) = Listener => Ev(l) \subseteq {"IN"} /\ sock[Listener].listening
         /\ Tail(batch[l]) \in Seq(Entry) /\ Owned(Tail(batch[l]), l) /\ Live(Tail(batch[l]))
         /\ \A i \in DOMAIN Tail(batch[l]) : Tail(batch[l])[i].sock # Cur(l)
<1> DEFINE b == batch[l]
           t == Tail(b)
<1>1. b \in Seq(Entry) /\ b # <<>> /\ Owned(b, l) /\ Live(b)
  BY DEF LInv, LoopTypes, Loop
<1> HIDE DEF b
<1>2. /\ Head(b) \in Entry /\ t \in Seq(Entry) /\ 1 \in DOMAIN b /\ Head(b) = b[1]
      /\ Len(b) \in Nat \ {0} /\ DOMAIN b = 1 .. Len(b) /\ DOMAIN t = 1 .. Len(b) - 1
      /\ \A i \in 1 .. Len(b) - 1 : t[i] = b[i + 1]
  BY <1>1, HeadTailProperties, LenProperties, EmptySeq
<1> HIDE DEF t
<1>3. \A i \in DOMAIN t : i \in Nat /\ i + 1 \in DOMAIN b /\ i + 1 # 1 /\ t[i] = b[i + 1]
  BY <1>2
<1>4. \A i \in DOMAIN t : t[i].sock # b[1].sock
  BY <1>1, <1>2, <1>3 DEF Owned
<1>5. \A i, j \in DOMAIN t : t[i].sock = t[j].sock => i = j
  <2> SUFFICES ASSUME NEW i \in DOMAIN t, NEW j \in DOMAIN t, t[i].sock = t[j].sock PROVE i = j
    OBVIOUS
  <2>1. i + 1 = j + 1
    BY <1>1, <1>3 DEF Owned
  <2> QED BY <1>3, <2>1
<1>6. Owned(t, l) /\ Live(t)
  BY <1>1, <1>3, <1>5 DEF Owned, Live
<1>7. /\ b[1].sock \in Socks /\ LoopOf[b[1].sock] = l /\ sock[b[1].sock].alive
      /\ b[1].sock = Listener => b[1].ev \subseteq {"IN"} /\ sock[Listener].listening
  BY <1>1, <1>2 DEF Owned, Live, Entry
<1> QED BY <1>2, <1>4, <1>6, <1>7 DEF Cur, Ev, b, t

(* Whose socket a step changes. *)
SockSteps ==
    \/ Listen \/ Connect \/ ClientClose \/ ServerDisconnected
    \/ \E l \in Loops : HandleOut(l) \/ HandleAccept(l) \/ SendBlocks(l)

LEMMA SocksChange == [Next]_vars => SockSteps \/ UNCHANGED sock
<1> SUFFICES ASSUME [Next]_vars PROVE SockSteps \/ UNCHANGED sock
  OBVIOUS
<1>1. ASSUME NEW l \in Loops, LoopStep(l) PROVE SockSteps \/ UNCHANGED sock
  BY <1>1 DEF SockSteps, LoopStep, Poll, Dispatch, SkipOut, SkipIn, HandleData, Receives, HandleEof,
              HandleRecvError, SendSome, SendNothing, SendFails
<1>2. ASSUME NEW l \in Loops, App(l) PROVE SockSteps \/ UNCHANGED sock
  <2>1. CASE ClientApp
    BY <2>1 DEF SockSteps, ClientApp, ClientConnected, ClientConnectedEnd, ClientSent, ClientSentEnd,
                ClientReceived, ClientDisconnected
  <2>2. CASE ServerApp
    BY <2>2 DEF SockSteps, ServerApp, ServerAccepted, ServerReceived, ServerReceivedEnd, ServerSent, ServerSentEnd
  <2>3. CASE StartServer \/ StartClient \/ EnterLoop(l)
    BY <2>3 DEF SockSteps, StartServer, StartClient, EnterLoop, Enter
  <2> QED BY <1>2, <2>1, <2>2, <2>3 DEF App
<1>3. CASE Net \/ UNCHANGED vars
  BY <1>3 DEF Net, Kernel, KernelOnly, vars, sockVars
<1> QED BY <1>1, <1>2, <1>3 DEF Next, Thread

(* The sockets stay as they should be.  None is destroyed but the server's,*)
(* in on_disconnected, the listener goes on listening, and the client does *)
(* not open its socket again.                                              *)
SocketsHold ==
    /\ Sockets'
    /\ sock[Listener].listening => sock'[Listener].listening
    /\ ~sock[Client].open => ~sock'[Client].open
    /\ \A s \in Socks : sock[s].alive => sock'[s].alive \/ (s = Server /\ ServerDisconnected)

LEMMA OneSocketHolds ==
  ASSUME Sockets, NEW s \in Socks, NEW r \in Sock, sock' = [sock EXCEPT ![s] = r],
         r.open => r.alive, r.alive \/ (s = Server /\ ServerDisconnected),
         s = Client /\ r.open => sock[s].open,
         IF s = Listener THEN r.listening ELSE r.open /\ ~r.write_enabled => "OUT" \in r.armed
  PROVE  SocketsHold
<1>1. Sockets'
  BY OneSocket
<1>2. sock'[s] = r /\ \A t \in Socks \ {s} : sock'[t] = sock[t]
  BY DEF Sockets
<1> QED BY <1>1, <1>2, SocksOfEnds DEF SocketsHold

LEMMA SocketsStep ==
  ASSUME LInv, [Next]_vars
  PROVE  SocketsHold
<1>0. Sockets /\ \A s \in Socks : sock[s] \in Sock /\ (sock[s].open => sock[s].alive)
  BY DEF LInv, Sockets
<1>1. CASE Listen
  <2> DEFINE q == SetEvents(Listener, {"IN"})
             r == [q EXCEPT !.listening = TRUE]
  <2>1. sock' = [sock EXCEPT ![Listener] = r]
    BY <1>1 DEF Listen
  <2>2. q \in Sock /\ q.alive = sock[Listener].alive /\ q.open = sock[Listener].open
    BY <1>0, SetEventsIs, SocksOfEnds
  <2> HIDE DEF q
  <2>3. r \in Sock /\ r.listening = TRUE /\ r.alive = q.alive /\ r.open = q.open
    BY <2>2, Fields
  <2> HIDE DEF r
  <2> QED BY <1>0, <2>1, <2>2, <2>3, OneSocketHolds, SocksOfEnds DEF Sockets
<1>2. CASE Connect
  <2> DEFINE r == SetEvents(Client, {"IN", "OUT"})
  <2>1. sock' = [sock EXCEPT ![Client] = r] /\ sock[Client].open
    BY <1>2 DEF Connect
  <2>2. /\ r \in Sock /\ r.alive = sock[Client].alive /\ r.open = sock[Client].open
        /\ sock[Client].open => r.armed = {"IN", "OUT"}
    BY <1>0, SetEventsIs, SocksOfEnds
  <2> HIDE DEF r
  <2> QED BY <1>0, <2>1, <2>2, OneSocketHolds, SocksOfEnds DEF Sockets
<1>3. CASE ClientClose
  <2> DEFINE r == ClosedSock(Client)
  <2>1. sock' = [sock EXCEPT ![Client] = r]
    BY <1>3 DEF ClientClose
  <2>2. r \in Sock /\ r.open = FALSE /\ r.alive = sock[Client].alive
    BY <1>0, ClosedIs, SocksOfEnds
  <2> HIDE DEF r
  <2> QED BY <1>0, <2>1, <2>2, OneSocketHolds, SocksOfEnds DEF Sockets
<1>4. CASE ServerDisconnected
  <2> DEFINE r == [ClosedSock(Server) EXCEPT !.alive = FALSE]
  <2>1. sock' = [sock EXCEPT ![Server] = r]
    BY <1>4 DEF ServerDisconnected
  <2>2. r \in Sock /\ r.open = FALSE
    BY <1>0, ClosedIs, SocksOfEnds
  <2> HIDE DEF r
  <2> QED BY <1>0, <1>4, <2>1, <2>2, OneSocketHolds, SocksOfEnds
<1>5. ASSUME NEW l \in Loops, HandleOut(l) PROVE SocketsHold
  <2> DEFINE s == Cur(l)
             r == Interest(s)
  <2>1. sock' = [sock EXCEPT ![s] = r] /\ batch[l] # <<>> /\ "OUT" \in Ev(l)
    BY <1>5 DEF HandleOut, LInv, Loop, Stands
  <2>2. s \in Socks /\ sock[s].alive /\ s # Listener
    BY <2>1, HeadEntry
  <2> HIDE DEF s
  <2>3. r \in Sock /\ r.alive = sock[s].alive /\ r.open = sock[s].open /\ r.write_enabled = TRUE
    BY <1>0, <2>2, InterestIs
  <2> HIDE DEF r
  <2> QED BY <1>0, <2>1, <2>2, <2>3, OneSocketHolds
<1>6. ASSUME NEW l \in Loops, HandleAccept(l) PROVE SocketsHold
  <2> DEFINE r == [Fresh EXCEPT !.armed = {"IN"}, !.connected = TRUE]
  <2>1. sock' = [sock EXCEPT ![Server] = r]
    BY <1>6 DEF HandleAccept
  <2>2. r \in Sock /\ r.alive = TRUE /\ r.write_enabled = TRUE
    BY FreshIs
  <2> HIDE DEF r
  <2> QED BY <1>0, <2>1, <2>2, OneSocketHolds, SocksOfEnds
<1>7. ASSUME NEW l \in Loops, SendBlocks(l) PROVE SocketsHold
  <2> DEFINE s == wr[l].sock
             r == AskOut(s)
  <2>1. sock' = [sock EXCEPT ![s] = r] /\ sock[s].open /\ s \in Ends
    BY <1>7 DEF SendBlocks, LInv, LoopTypes, Write
  <2> HIDE DEF s
  <2>2. s \in Socks /\ s # Listener
    BY <2>1, SocksOfEnds
  <2>3. r \in Sock /\ r.alive = sock[s].alive /\ r.open = sock[s].open /\ r.armed = {"IN", "OUT"}
    BY <1>0, <2>1, <2>2, AskOutIs
  <2> HIDE DEF r
  <2> QED BY <1>0, <2>1, <2>2, <2>3, OneSocketHolds
<1>8. CASE UNCHANGED sock
  BY <1>8 DEF LInv, Sockets, SocketsHold, WriteInterest
<1> QED BY <1>1, <1>2, <1>3, <1>4, <1>5, <1>6, <1>7, <1>8, SocksChange DEF SockSteps

-----------------------------------------------------------------------------
(* Loops: where the threads stand, and what is left of their batches *)

Becomes(l, p, c, a, w, r, b) ==
    /\ at' = [at EXCEPT ![l] = p] /\ cb' = [cb EXCEPT ![l] = c] /\ arg' = [arg EXCEPT ![l] = a]
    /\ wr' = [wr EXCEPT ![l] = w] /\ running' = [running EXCEPT ![l] = r] /\ batch' = [batch EXCEPT ![l] = b]

LEMMA Itself ==
  ASSUME LInv, NEW l \in Loops
  PROVE  /\ at = [at EXCEPT ![l] = at[l]] /\ cb = [cb EXCEPT ![l] = cb[l]] /\ arg = [arg EXCEPT ![l] = arg[l]]
         /\ wr = [wr EXCEPT ![l] = wr[l]] /\ running = [running EXCEPT ![l] = running[l]]
         /\ batch = [batch EXCEPT ![l] = batch[l]]
         /\ at[l] \in Places /\ cb[l] \in Callbacks /\ arg[l] \in Seq(Nat) /\ wr[l] \in Write
         /\ running[l] \in BOOLEAN /\ batch[l] \in Seq(Entry)
         /\ Stands(at[l], cb[l], arg[l], wr[l], running[l], batch[l])
         /\ Owned(batch[l], l) /\ Live(batch[l])
<1>1. LoopTypes /\ Loop(l)
  BY DEF LInv
<1> QED BY <1>1 DEF LoopTypes, Loop

(* A step of one loop. *)
LEMMA LoopBecomes ==
  ASSUME LInv, SocketsHold, NEW l \in Loops,
         NEW p \in Places, NEW c \in Callbacks, NEW a \in Seq(Nat), NEW w \in Write, NEW r \in BOOLEAN,
         NEW b \in Seq(Entry), Becomes(l, p, c, a, w, r, b),
         Stands(p, c, a, w, r, b), Owned(b, l), Live(b),
         ServerDisconnected => l = ServerLoop /\ \A i \in DOMAIN b : b[i].sock # Server
  PROVE  LInv'
<1>1. LoopTypes'
  BY DEF LInv, LoopTypes, Becomes
<1>2. /\ at'[l] = p /\ cb'[l] = c /\ arg'[l] = a /\ wr'[l] = w /\ running'[l] = r /\ batch'[l] = b
      /\ \A m \in Loops \ {l} : /\ at'[m] = at[m] /\ cb'[m] = cb[m] /\ arg'[m] = arg[m] /\ wr'[m] = wr[m]
                                /\ running'[m] = running[m] /\ batch'[m] = batch[m]
  BY DEF LInv, LoopTypes, Becomes
<1>3. ASSUME NEW e \in Seq(Entry), NEW i \in DOMAIN e PROVE e[i].sock \in Socks
  <2>1. e[i] \in Entry
    OBVIOUS
  <2> QED BY <2>1 DEF Entry
<1>4. Loop(l)'
  <2>1. ASSUME NEW i \in DOMAIN b
        PROVE sock'[b[i].sock].alive /\ (b[i].sock = Listener => sock'[Listener].listening)
    <3>1. sock[b[i].sock].alive /\ (b[i].sock = Listener => sock[Listener].listening) /\ b[i].sock \in Socks
      BY <1>3 DEF Live
    <3> QED BY <3>1 DEF SocketsHold
  <2> QED BY <1>2, <2>1 DEF Loop, Live
<1>5. ASSUME NEW m \in Loops, m # l PROVE Loop(m)'
  <2> DEFINE d == batch[m]
  <2>0. d \in Seq(Entry) /\ Owned(d, m) /\ Live(d) /\ Stands(at[m], cb[m], arg[m], wr[m], running[m], d)
    BY Itself
  <2> HIDE DEF d
  <2>1. ASSUME NEW i \in DOMAIN d
        PROVE sock'[d[i].sock].alive /\ (d[i].sock = Listener => sock'[Listener].listening)
    <3>1. sock[d[i].sock].alive /\ (d[i].sock = Listener => sock[Listener].listening) /\ d[i].sock \in Socks
      BY <1>3, <2>0 DEF Live
    <3>2. LoopOf[d[i].sock] = m
      BY <2>0 DEF Owned
    <3>3. d[i].sock = Server => ~ServerDisconnected
      BY <1>5, <3>2 DEF ServerLoop
    <3> QED BY <3>1, <3>3 DEF SocketsHold
  <2>2. at'[m] = at[m] /\ cb'[m] = cb[m] /\ arg'[m] = arg[m] /\ wr'[m] = wr[m]
        /\ running'[m] = running[m] /\ batch'[m] = d
    BY <1>2, <1>5 DEF d
  <2> QED BY <2>0, <2>1, <2>2 DEF Loop, Live
<1> QED BY <1>1, <1>4, <1>5 DEF LInv, SocketsHold

(* A step of no loop. *)
LEMMA LoopsStay ==
  ASSUME LInv, SocketsHold, ~ServerDisconnected, UNCHANGED <<at, cb, arg, wr, running, batch>>
  PROVE  LInv'
<1>1. ClientLoop \in Loops
  BY SocksOfEnds DEF ClientLoop
<1> DEFINE l == ClientLoop
<1>2. Becomes(l, at[l], cb[l], arg[l], wr[l], running[l], batch[l])
  BY <1>1, Itself DEF Becomes
<1> HIDE DEF l
<1> QED BY <1>1, <1>2, Itself, LoopBecomes DEF l

LEMMA PollStep ==
  ASSUME LInv, SocketsHold, ~ServerDisconnected, NEW l \in Loops, Poll(l)
  PROVE  LInv'
<1> DEFINE ready == {s \in Socks : LoopOf[s] = l /\ sock[s].open /\ ReadyEvents(s) # {}}
           n == Cardinality(ready)
<1>1. IsFiniteSet(ready) /\ n \in Nat /\ ready \subseteq Socks /\ (n = 0 <=> ready = {})
  <2>1. Socks = ({Client} \cup {Server}) \cup {Listener}
    BY DEF Socks, Ends
  <2>2. IsFiniteSet(Socks)
    BY <2>1, FS_Singleton, FS_Union
  <2>3. ready \in SUBSET Socks
    OBVIOUS
  <2> HIDE DEF ready
  <2>4. IsFiniteSet(ready)
    BY <2>2, <2>3, FS_Subset
  <2> QED BY <2>3, <2>4, FS_CardinalityType, FS_EmptySet
<1>2. at[l] = "wait" /\ ready # {}
  BY DEF Poll
<1>3. PICK order \in [1..n -> ready] :
         /\ \A s \in ready : \E i \in DOMAIN order : order[i] = s
         /\ batch' = [batch EXCEPT ![l] = [i \in DOMAIN order |-> [sock |-> order[i], ev |-> ReadyEvents(order[i])]]]
  BY DEF Poll
<1>4. \A s \in ready : /\ s \in Socks /\ LoopOf[s] = l /\ sock[s].alive
                       /\ ReadyEvents(s) \subseteq {"IN", "OUT"}
                       /\ s = Listener => sock[s].listening /\ ReadyEvents(s) \subseteq {"IN"}
  <2> SUFFICES ASSUME NEW s \in Socks, LoopOf[s] = l, sock[s].open, ReadyEvents(s) # {}
               PROVE  /\ sock[s].alive /\ ReadyEvents(s) \subseteq {"IN", "OUT"}
                      /\ s = Listener => sock[s].listening /\ ReadyEvents(s) \subseteq {"IN"}
    OBVIOUS
  <2>1. sock[s].alive /\ (sock[Listener].armed # {} => sock[Listener].listening)
    BY DEF LInv, Sockets
  <2>2. ReadyEvents(s) \subseteq {"IN", "OUT"} /\ sock[s].armed # {}
    BY DEF ReadyEvents
  <2>3. s = Listener => ReadyEvents(s) \subseteq {"IN"}
    BY DEF ReadyEvents, Writable
  <2> QED BY <2>1, <2>2, <2>3
<1> DEFINE b == [i \in 1..n |-> [sock |-> order[i], ev |-> ReadyEvents(order[i])]]
<1>5. batch' = [batch EXCEPT ![l] = b]
  BY <1>3
<1>6. \A i, j \in 1..n : order[i] = order[j] => i = j
  <2> HIDE DEF ready, n
  <2>1. order \in Surjection(1..n, ready)
    BY <1>3 DEF Surjection
  <2>2. IsFiniteSet(1..n) /\ Cardinality(1..n) = Cardinality(ready)
    <3>1. \A k \in Nat : (IF 1 > k THEN 0 ELSE k - 1 + 1) = k
      OBVIOUS
    <3>2. IsFiniteSet(1..n) /\ Cardinality(1..n) = IF 1 > n THEN 0 ELSE n - 1 + 1
      BY <1>1, FS_Interval
    <3> QED BY <1>1, <3>1, <3>2 DEF n
  <2>3. order \in Injection(1..n, ready)
    BY <2>1, <2>2, FS_SurjSameCardinalityImpliesInj
  <2> QED BY <2>3 DEF Injection, IsInjective
<1> HIDE DEF ready, n
<1>7. \A i \in 1..n : order[i] \in ready /\ b[i] = [sock |-> order[i], ev |-> ReadyEvents(order[i])] /\ b[i] \in Entry
  BY <1>3, <1>4 DEF Entry
<1>8. b \in Seq(Entry) /\ DOMAIN b = 1..n /\ b # <<>>
  BY <1>1, <1>2, <1>7
<1> HIDE DEF b
<1>9. Owned(b, l)
  BY <1>4, <1>6, <1>7, <1>8 DEF Owned
<1>10. Live(b)
  BY <1>4, <1>7, <1>8 DEF Live
<1>11. "next" \in Places /\ Becomes(l, "next", cb[l], arg[l], wr[l], running[l], b)
  BY <1>5, Itself DEF Poll, Becomes, Places
<1>12. Stands("next", cb[l], arg[l], wr[l], running[l], b)
  BY <1>2, Itself DEF Stands
<1> QED BY <1>8, <1>9, <1>10, <1>11, <1>12, Itself, LoopBecomes

(* Dispatching an event and looking at its two parts. *)
LEMMA DispatchStep ==
  ASSUME LInv, SocketsHold, ~ServerDisconnected, NEW l \in Loops,
         Dispatch(l) \/ SkipOut(l) \/ HandleOut(l) \/ HandleAccept(l) \/ HandleEof(l)
  PROVE  LInv'
<1>1. CASE Dispatch(l)
  <2> DEFINE p == IF batch[l] # <<>> THEN "EPOLLOUT" ELSE IF running[l] THEN "wait" ELSE "left"
  <2>1. p \in Places /\ Becomes(l, p, cb[l], arg[l], wr[l], running[l], batch[l])
    BY <1>1, Itself DEF Dispatch, Becomes, Places
  <2>2. Stands(p, cb[l], arg[l], wr[l], running[l], batch[l])
    BY <1>1, Itself DEF Dispatch, Stands
  <2> HIDE DEF p
  <2> QED BY <2>1, <2>2, Itself, LoopBecomes
<1>2. CASE SkipOut(l)
  <2>1. "EPOLLIN" \in Places /\ Becomes(l, "EPOLLIN", cb[l], arg[l], wr[l], running[l], batch[l])
    BY <1>2, Itself DEF SkipOut, Becomes, Places
  <2>2. Stands("EPOLLIN", cb[l], arg[l], wr[l], running[l], batch[l])
    BY <1>2, Itself DEF SkipOut, Stands
  <2> QED BY <2>1, <2>2, Itself, LoopBecomes
<1>3. CASE HandleOut(l)
  <2>1. PICK c \in {"on_sent", "on_connected", "none"} :
           LET p == IF c = "none" THEN "EPOLLIN" ELSE "cb"
           IN  at' = [at EXCEPT ![l] = p] /\ cb' = [cb EXCEPT ![l] = c] /\ UNCHANGED <<running, batch, arg, wr>>
    <3>1. cb[l] = "none" /\ cb = [cb EXCEPT ![l] = cb[l]]
      BY <1>3, Itself DEF HandleOut, Stands
    <3> QED BY <1>3, <3>1 DEF HandleOut
  <2> DEFINE p == IF c = "none" THEN "EPOLLIN" ELSE "cb"
  <2>2. p \in Places /\ c \in Callbacks /\ Becomes(l, p, c, arg[l], wr[l], running[l], batch[l])
    BY <2>1, Itself DEF Becomes, Places, Callbacks
  <2>3. Stands(p, c, arg[l], wr[l], running[l], batch[l])
    BY <1>3, Itself DEF HandleOut, Stands
  <2> HIDE DEF p
  <2> QED BY <2>2, <2>3, Itself, LoopBecomes
<1>4. CASE HandleAccept(l) \/ HandleEof(l)
  <2>1. PICK c \in {"on_accepted", "on_disconnected"} :
           at' = [at EXCEPT ![l] = "cb"] /\ cb' = [cb EXCEPT ![l] = c] /\ UNCHANGED <<running, batch, arg, wr>>
    BY <1>4 DEF HandleAccept, HandleEof, Receives
  <2>2. "cb" \in Places /\ c \in Callbacks /\ Becomes(l, "cb", c, arg[l], wr[l], running[l], batch[l])
    BY <2>1, Itself DEF Becomes, Places, Callbacks
  <2>3. Stands("cb", c, arg[l], wr[l], running[l], batch[l])
    BY <1>4, Itself DEF HandleAccept, HandleEof, AtIn, Stands
  <2> QED BY <2>2, <2>3, Itself, LoopBecomes
<1> QED BY <1>1, <1>2, <1>3, <1>4

(* recv: what it gives is the beginning of the receive buffer. *)
LEMMA LeastOfThree ==
  ASSUME NEW a \in Int, NEW b \in Int, NEW c \in Int
  PROVE  Least({a, b, c}) \in {a, b, c} /\ \A k \in {a, b, c} : Least({a, b, c}) <= k
<1>1. \E n \in {a, b, c} : \A k \in {a, b, c} : n <= k
  OBVIOUS
<1> QED BY <1>1 DEF Least

LEMMA DataIs ==
  ASSUME LInv, LinkTypes, NEW l \in Loops, HandleData(l)
  PROVE  LET s == Cur(l)
             n == Least({Len(net[s].rcv), RecvMax})
         IN  /\ batch[l] # <<>> /\ s \in Ends /\ net[s].rcv \in Seq(Nat) /\ n \in Nat /\ n <= Len(net[s].rcv)
             /\ SubSeq(net[s].rcv, 1, n) \in Seq(Nat) /\ Drop(net[s].rcv, n) \in Seq(Nat)
             /\ Len(Drop(net[s].rcv, n)) <= Len(net[s].rcv)
             /\ SubSeq(net[s].rcv, 1, n) \o Drop(net[s].rcv, n) = net[s].rcv
<1> DEFINE s == Cur(l)
           q == net[s].rcv
           n == Least({Len(q), RecvMax})
<1>1. batch[l] # <<>> /\ ~sock[s].listening /\ n > 0
  BY Itself DEF HandleData, AtIn, Stands
<1>2. s \in Ends
  BY <1>1, HeadEntry DEF Socks
<1>3. q \in Seq(Nat) /\ Len(q) \in Nat /\ RecvMax \in Nat
  BY <1>2, LenProperties DEF LinkTypes, End
<1> HIDE DEF s, q
<1>4. n \in Nat /\ n <= Len(q)
  <2>1. {Len(q), RecvMax} = {Len(q), RecvMax, RecvMax} /\ Len(q) \in Int /\ RecvMax \in Int
    BY <1>3
  <2>2. n \in {Len(q), RecvMax} /\ n <= Len(q)
    BY <2>1, LeastOfThree
  <2> QED BY <1>3, <2>2
<1> HIDE DEF n
<1>5. /\ SubSeq(q, 1, n) \in Seq(Nat) /\ SubSeq(q, n + 1, Len(q)) \in Seq(Nat)
      /\ Len(SubSeq(q, n + 1, Len(q))) = Len(q) - n
      /\ SubSeq(q, 1, n) \o SubSeq(q, n + 1, Len(q)) = q
  BY <1>3, <1>4, Pieces
<1>6. Len(SubSeq(q, n + 1, Len(q))) <= Len(q)
  BY <1>3, <1>4, <1>5
<1> QED BY <1>1, <1>2, <1>3, <1>4, <1>5, <1>6 DEF s, q, n, Drop

LEMMA DataStep ==
  ASSUME LInv, SocketsHold, ~ServerDisconnected, LinkTypes, NEW l \in Loops, HandleData(l)
  PROVE  LInv'
<1> DEFINE a == SubSeq(net[Cur(l)].rcv, 1, Least({Len(net[Cur(l)].rcv), RecvMax}))
<1>1. a \in Seq(Nat)
  BY DataIs
<1>2. arg' = [arg EXCEPT ![l] = a] /\ at[l] = "EPOLLIN"
  BY DEF HandleData, AtIn
<1> HIDE DEF a
<1>3. "cb" \in Places /\ "on_received" \in Callbacks
      /\ Becomes(l, "cb", "on_received", a, wr[l], running[l], batch[l])
  BY <1>2, Itself DEF HandleData, Receives, Becomes, Places, Callbacks
<1>4. Stands("cb", "on_received", a, wr[l], running[l], batch[l])
  BY <1>2, Itself DEF Stands
<1> QED BY <1>1, <1>3, <1>4, Itself, LoopBecomes

(* The event has been dealt with without a callback. *)
LEMMA NextStep ==
  ASSUME LInv, SocketsHold, ~ServerDisconnected, NEW l \in Loops, SkipIn(l) \/ HandleRecvError(l)
  PROVE  LInv'
<1>1. /\ at' = [at EXCEPT ![l] = "next"] /\ batch' = [batch EXCEPT ![l] = Tail(@)]
      /\ at[l] = "EPOLLIN" /\ UNCHANGED <<running, cb, arg, wr>>
  BY DEF SkipIn, HandleRecvError, AtIn
<1>2. batch[l] # <<>>
  BY <1>1, Itself DEF Stands
<1>3. "next" \in Places /\ Becomes(l, "next", cb[l], arg[l], wr[l], running[l], Tail(batch[l]))
  BY <1>1, Itself DEF Becomes, Places
<1>4. Stands("next", cb[l], arg[l], wr[l], running[l], Tail(batch[l]))
  BY <1>1, Itself DEF Stands
<1>5. Tail(batch[l]) \in Seq(Entry) /\ Owned(Tail(batch[l]), l) /\ Live(Tail(batch[l]))
  BY <1>2, HeadEntry
<1> DEFINE b == Tail(batch[l])
<1>6. /\ b \in Seq(Entry) /\ Owned(b, l) /\ Live(b)
      /\ Becomes(l, "next", cb[l], arg[l], wr[l], running[l], b) /\ "next" \in Places
      /\ Stands("next", cb[l], arg[l], wr[l], running[l], b)
  BY <1>3, <1>4, <1>5
<1> HIDE DEF b
<1> QED BY <1>6, Itself, LoopBecomes

(* A callback returns. *)
LEMMA ReturnedStep ==
  ASSUME LInv, SocketsHold, NEW l \in Loops, NEW r \in BOOLEAN, running' = [running EXCEPT ![l] = r],
         at[l] \in {"cb", "sent"}, Returned(l),
         ServerDisconnected => l = ServerLoop /\ Cur(l) = Server /\ cb[l] = "on_disconnected"
  PROVE  LInv'
<1> DEFINE t == Tail(batch[l])
<1>1. batch[l] # <<>>
  BY Itself DEF Stands
<1>2. /\ t \in Seq(Entry) /\ Owned(t, l) /\ Live(t)
      /\ \A i \in DOMAIN t : t[i].sock # Cur(l)
  BY <1>1, HeadEntry
<1>3. NoWrite \in Write /\ <<>> \in Seq(Nat) /\ "none" \in Callbacks /\ {"EPOLLIN", "next"} \subseteq Places
  BY SocksOfEnds DEF NoWrite, Write, Callbacks, Places
<1> DEFINE a == <<>>
           w == NoWrite
<1>4. w \in Write /\ a \in Seq(Nat)
  BY <1>3
<1>5. CASE cb[l] \in {"on_connected", "on_sent"}
  <2>1. Becomes(l, "EPOLLIN", "none", a, w, r, batch[l])
    BY <1>5, Itself DEF Returned, Becomes
  <2>2. Stands("EPOLLIN", "none", a, w, r, batch[l])
    BY <1>1 DEF Stands, NoWrite
  <2>3. ~ServerDisconnected
    BY <1>5
  <2>4. batch[l] \in Seq(Entry) /\ Owned(batch[l], l) /\ Live(batch[l]) /\ "EPOLLIN" \in Places
    BY <1>3, Itself
  <2> HIDE DEF a, w
  <2> QED BY <1>3, <1>4, <2>1, <2>2, <2>3, <2>4, LoopBecomes
<1>6. CASE cb[l] \notin {"on_connected", "on_sent"}
  <2>1. Becomes(l, "next", "none", a, w, r, t) /\ "next" \in Places
    BY <1>3, <1>6 DEF Returned, Becomes
  <2>2. Stands("next", "none", a, w, r, t)
    BY DEF Stands, NoWrite
  <2> HIDE DEF t, a, w
  <2>3. ServerDisconnected => l = ServerLoop /\ \A i \in DOMAIN t : t[i].sock # Server
    BY <1>2
  <2> QED BY <1>2, <1>3, <1>4, <2>1, <2>2, <2>3, LoopBecomes
<1> QED BY <1>5, <1>6

(* write is called from a callback, and so_write sends.                    *)
LEMMA BeginWriteStep ==
  ASSUME LInv, SocketsHold, ~ServerDisconnected, NEW l \in Loops, NEW s \in Ends, NEW buf \in Seq(Nat),
         at[l] = "cb", Cur(l) = s, BeginWrite(l, s, buf), UNCHANGED <<running, batch, cb, arg>>
  PROVE  LInv'
<1> DEFINE w == [sock |-> s, buf |-> buf, sent |-> 0]
<1>1. w \in Write /\ w.sock = s /\ w.sent = 0 /\ w.buf = buf /\ 0 <= Len(buf)
  BY LenProperties DEF Write
<1>2. at' = [at EXCEPT ![l] = "send"] /\ wr' = [wr EXCEPT ![l] = w]
  BY DEF BeginWrite
<1> HIDE DEF w
<1>3. Becomes(l, "send", cb[l], arg[l], w, running[l], batch[l]) /\ "send" \in Places
  BY <1>2, Itself DEF Becomes, Places
<1>4. Stands("send", cb[l], arg[l], w, running[l], batch[l])
  BY <1>1, Itself DEF Stands, Cur
<1> QED BY <1>1, <1>3, <1>4, Itself, LoopBecomes

(* What is left to send, and how much of it one send takes.                *)
LEMMA AmountIs ==
  ASSUME LInv, LinkTypes, NEW l \in Loops
  PROVE  LET w == wr[l]
         IN  /\ w \in Write /\ w.sock \in Ends /\ w.buf \in Seq(Nat) /\ w.sent \in Nat /\ w.sent <= Len(w.buf)
             /\ Rest(l) \in Seq(Nat) /\ Len(Rest(l)) = Len(w.buf) - w.sent
             /\ Amount(l) \in Nat /\ Amount(l) <= Len(Rest(l)) /\ Amount(l) <= Room(w.sock)
             /\ Room(w.sock) \in Nat /\ Room(w.sock) = SndCap - Len(net[w.sock].snd)
             /\ Counted(l) \in Nat /\ Counted(l) <= Len(w.buf)
<1> DEFINE w == wr[l]
           b == w.buf
           n == w.sent
           q == Rest(l)
           k == Amount(l)
           m == Room(w.sock)
<1>1. w \in Write /\ w.sock \in Ends /\ b \in Seq(Nat) /\ n \in Nat /\ n <= Len(b)
  BY Itself DEF Write, Stands
<1>2. q = SubSeq(b, n + 1, Len(b)) /\ Counted(l) = n + k
  BY DEF Rest, Drop, Counted
<1>3. m \in Nat /\ m = SndCap - Len(net[w.sock].snd)
  <2>1. net[w.sock].snd \in Seq(Nat) /\ Len(net[w.sock].snd) <= SndCap
    BY <1>1 DEF LinkTypes, End
  <2>2. Len(net[w.sock].snd) \in Nat /\ SndCap \in Nat
    BY <2>1, LenProperties
  <2> QED BY <2>1, <2>2 DEF Room
<1> HIDE DEF w, m
<1>4. q \in Seq(Nat) /\ Len(q) = Len(b) - n /\ Len(b) \in Nat /\ Len(q) \in Nat
  <2> HIDE DEF b, n, q
  <2> QED BY <1>1, <1>2, Pieces, LenProperties
<1>5. k = Least({Len(q), SendMax, m})
  BY DEF Amount, m, w
<1> HIDE DEF k, q, b, n
<1>6. k \in {Len(q), SendMax, m} /\ k <= Len(q) /\ k <= m
  <2>1. Len(q) \in Int /\ SendMax \in Int /\ m \in Int
    BY <1>3, <1>4
  <2> QED BY <1>5, <2>1, LeastOfThree
<1>7. k \in Nat /\ n + k \in Nat /\ n + k <= Len(b)
  <2>1. k \in Nat /\ k <= Len(b) - n
    BY <1>3, <1>4, <1>6
  <2>2. \A x, y, z \in Nat : z <= y - x => x + z \in Nat /\ x + z <= y
    OBVIOUS
  <2> QED BY <1>1, <1>4, <2>1, <2>2
<1>8. /\ w \in Write /\ w.sock \in Ends /\ b \in Seq(Nat) /\ n \in Nat /\ n <= Len(b)
      /\ q \in Seq(Nat) /\ Len(q) = Len(b) - n /\ k \in Nat /\ k <= Len(q) /\ k <= m
      /\ m \in Nat /\ m = SndCap - Len(net[w.sock].snd) /\ Counted(l) \in Nat /\ Counted(l) <= Len(b)
  BY <1>1, <1>2, <1>3, <1>4, <1>6, <1>7
<1> QED BY <1>8 DEF w, m, k, q, b, n

LEMMA SendStep ==
  ASSUME LInv, SocketsHold, ~ServerDisconnected, LinkTypes, NEW l \in Loops,
         SendSome(l) \/ SendNothing(l) \/ SendBlocks(l) \/ SendFails(l)
  PROVE  LInv'
<1>1. CASE SendSome(l)
  <2> DEFINE v == wr[l]
             c == Counted(l)
             w == [v EXCEPT !.sent = c]
  <2>1. wr' = [wr EXCEPT ![l] = w] /\ at[l] = "send" /\ UNCHANGED <<running, at, batch, cb, arg>>
    BY <1>1 DEF SendSome
  <2>2. v \in Write /\ c \in Nat /\ c <= Len(v.buf)
    BY AmountIs
  <2>5. Stands("send", cb[l], arg[l], v, running[l], batch[l])
    BY <2>1, Itself
  <2> HIDE DEF v, c
  <2>3. w \in Write /\ w.sock = v.sock /\ w.buf = v.buf /\ w.sent = c
    BY <2>2 DEF Write
  <2> HIDE DEF w
  <2>4. Becomes(l, "send", cb[l], arg[l], w, running[l], batch[l]) /\ "send" \in Places
    BY <2>1, Itself DEF Becomes, Places
  <2>6. Stands("send", cb[l], arg[l], w, running[l], batch[l])
    BY <2>2, <2>3, <2>5 DEF Stands
  <2> QED BY <2>3, <2>4, <2>6, Itself, LoopBecomes
<1>2. CASE SendNothing(l) \/ SendBlocks(l) \/ SendFails(l)
  <2>1. at' = [at EXCEPT ![l] = "sent"] /\ at[l] = "send" /\ UNCHANGED <<running, batch, cb, arg, wr>>
    BY <1>2 DEF SendNothing, SendBlocks, SendFails
  <2>2. Becomes(l, "sent", cb[l], arg[l], wr[l], running[l], batch[l]) /\ "sent" \in Places
    BY <2>1, Itself DEF Becomes, Places
  <2>3. Stands("sent", cb[l], arg[l], wr[l], running[l], batch[l])
    BY <2>1, Itself DEF Stands
  <2> QED BY <2>2, <2>3, Itself, LoopBecomes
<1> QED BY <1>1, <1>2

LEMMA UnwrittenIs ==
  ASSUME AppTypeOK
  PROVE  /\ large_message \in Seq(Nat) /\ Len(large_message) \in Nat /\ total_sent \in Nat
         /\ total_sent <= Len(large_message)
         /\ Unwritten \in Seq(Nat) /\ Len(Unwritten) = Len(large_message) - total_sent
<1> DEFINE m == large_message
           n == total_sent
<1>1. m \in Seq(Nat) /\ n \in Nat /\ n <= Len(m) /\ Len(m) \in Nat
  <2>1. m \in Seq(Nat)
    BY DEF AppTypeOK
  <2>2. Len(m) \in Nat /\ n \in 0..Len(m)
    BY <2>1, LenProperties DEF AppTypeOK
  <2> QED BY <2>1, <2>2
<1>2. Unwritten = SubSeq(m, n + 1, Len(m))
  BY DEF Unwritten
<1> HIDE DEF m, n
<1>3. Unwritten \in Seq(Nat) /\ Len(Unwritten) = Len(m) - n
  BY <1>1, <1>2, Pieces
<1> QED BY <1>1, <1>3 DEF m, n

LEMMA TwoLoops ==
  /\ ClientLoop \in Loops /\ ServerLoop \in Loops /\ ClientLoop # ServerLoop
  /\ LoopOf[Client] = ClientLoop /\ LoopOf[Server] = ServerLoop /\ LoopOf[Listener] = ServerLoop
  BY SocksOfEnds DEF ClientLoop, ServerLoop

(* What the application does in a callback. *)
LEMMA AppStep ==
  ASSUME IInv, SocketsHold, NEW l \in Loops, App(l)
  PROVE  LInv'
<1>1. LInv /\ AppTypeOK /\ LinkTypes
  BY DEF IInv, DInv
<1>2. CASE ServerDisconnected
  <2>1. /\ at[ServerLoop] = "cb" /\ Returned(ServerLoop) /\ running' = [running EXCEPT ![ServerLoop] = FALSE]
        /\ Cur(ServerLoop) = Server /\ cb[ServerLoop] = "on_disconnected"
    BY <1>2 DEF ServerDisconnected, In
  <2> QED BY <1>1, <2>1, TwoLoops, ReturnedStep
<1>3. CASE ~ServerDisconnected
  <2>1. CASE ClientConnected \/ ClientSent
    <3>1. /\ at[ClientLoop] = "cb" /\ Cur(ClientLoop) = Client /\ BeginWrite(ClientLoop, Client, Unwritten)
          /\ UNCHANGED <<running, batch, cb, arg>>
      BY <2>1 DEF ClientConnected, ClientSent, In
    <3>2. Unwritten \in Seq(Nat)
      BY <1>1, UnwrittenIs
    <3> QED BY <1>1, <1>3, <3>1, <3>2, TwoLoops, BeginWriteStep, SocksOfEnds
  <2>2. CASE ClientConnectedEnd \/ ClientSentEnd \/ ClientReceived
    <3>1. PICK r \in BOOLEAN : running' = [running EXCEPT ![ClientLoop] = r]
      <4>1. CASE ClientReceived
        <5> DEFINE r == running[ClientLoop] /\ ~Whole(received_msg')
        <5>1. running' = [running EXCEPT ![ClientLoop] = r]
          BY <4>1 DEF ClientReceived
        <5>2. r \in BOOLEAN
          OBVIOUS
        <5> HIDE DEF r
        <5> QED BY <5>1, <5>2
      <4>2. CASE UNCHANGED running
        BY <4>2, <1>1, Itself, TwoLoops
      <4> QED BY <2>2, <4>1, <4>2 DEF ClientConnectedEnd, ClientSentEnd
    <3>2. at[ClientLoop] \in {"cb", "sent"} /\ Returned(ClientLoop)
      BY <2>2 DEF ClientConnectedEnd, ClientSentEnd, ClientReceived, In, Out
    <3> QED BY <1>1, <1>3, <3>1, <3>2, TwoLoops, ReturnedStep
  <2>3. CASE ClientDisconnected
    <3> DEFINE c == ClientLoop
    <3>1. /\ at' = [at EXCEPT ![c] = "threw"] /\ at[c] = "cb" /\ cb[c] = "on_disconnected"
          /\ UNCHANGED <<running, batch, cb, arg, wr>> /\ c \in Loops
      BY <2>3, TwoLoops DEF ClientDisconnected, In
    <3> HIDE DEF c
    <3>2. Becomes(c, "threw", cb[c], arg[c], wr[c], running[c], batch[c]) /\ "threw" \in Places
      BY <1>1, <3>1, Itself DEF Becomes, Places
    <3>3. Stands("threw", cb[c], arg[c], wr[c], running[c], batch[c])
      BY <1>1, <3>1, Itself DEF Stands
    <3> QED BY <1>1, <1>3, <3>1, <3>2, <3>3, Itself, LoopBecomes
  <2>4. CASE ClientClose \/ StartServer \/ StartClient
    <3>1. UNCHANGED <<at, cb, arg, wr, running, batch>>
      BY <2>4 DEF ClientClose, StartServer, StartClient, Listen, Connect
    <3> QED BY <1>1, <1>3, <3>1, LoopsStay
  <2>5. CASE EnterLoop(l)
    <3>1. /\ running' = [running EXCEPT ![l] = TRUE] /\ at' = [at EXCEPT ![l] = "wait"] /\ at[l] = "out"
          /\ UNCHANGED <<batch, cb, arg, wr>>
      BY <2>5 DEF EnterLoop, Enter
    <3>2. Becomes(l, "wait", cb[l], arg[l], wr[l], TRUE, batch[l]) /\ "wait" \in Places
      BY <1>1, <3>1, Itself DEF Becomes, Places
    <3>3. Stands("wait", cb[l], arg[l], wr[l], TRUE, batch[l])
      BY <1>1, <3>1, Itself DEF Stands
    <3> QED BY <1>1, <1>3, <3>1, <3>2, <3>3, Itself, LoopBecomes
  <2>6. CASE ServerAccepted \/ ServerReceivedEnd \/ ServerSentEnd
    <3>1. running' = [running EXCEPT ![ServerLoop] = running[ServerLoop]] /\ running[ServerLoop] \in BOOLEAN
      BY <1>1, <2>6, Itself, TwoLoops DEF ServerAccepted, ServerReceivedEnd, ServerSentEnd
    <3>2. at[ServerLoop] \in {"cb", "sent"} /\ Returned(ServerLoop)
      BY <2>6 DEF ServerAccepted, ServerReceivedEnd, ServerSentEnd, In, Out
    <3> QED BY <1>1, <1>3, <3>1, <3>2, TwoLoops, ReturnedStep
  <2>7. CASE ServerReceived \/ ServerSent
    <3>1. at[ServerLoop] = "cb" /\ Cur(ServerLoop) = Server /\ UNCHANGED running
      BY <2>7 DEF ServerReceived, ServerSent, In
    <3>2. CASE Returned(ServerLoop)
      <4>1. running' = [running EXCEPT ![ServerLoop] = running[ServerLoop]] /\ running[ServerLoop] \in BOOLEAN
        BY <1>1, <3>1, Itself, TwoLoops
      <4> QED BY <1>1, <1>3, <3>1, <3>2, <4>1, TwoLoops, ReturnedStep
    <3>3. CASE ~Returned(ServerLoop)
      <4>1. PICK buf \in {arg[ServerLoop], pending_data} :
              BeginWrite(ServerLoop, Server, buf) /\ UNCHANGED <<batch, cb, arg>>
        BY <2>7, <3>3 DEF ServerReceived, ServerSent
      <4>2. buf \in Seq(Nat)
        BY <1>1, Itself, TwoLoops DEF AppTypeOK
      <4> QED BY <1>1, <1>3, <3>1, <4>1, <4>2, TwoLoops, BeginWriteStep, SocksOfEnds
    <3> QED BY <3>2, <3>3
  <2> QED BY <1>3, <2>1, <2>2, <2>3, <2>4, <2>5, <2>6, <2>7 DEF App, ClientApp, ServerApp
<1> QED BY <1>2, <1>3

LEMMA LInvStep == IInv /\ [Next]_vars => LInv'
<1> SUFFICES ASSUME IInv, [Next]_vars PROVE LInv'
  OBVIOUS
<1>1. LInv /\ SocketsHold /\ LinkTypes
  BY SocketsStep DEF IInv, DInv
<1>2. CASE ServerDisconnected
  <2>1. App(ServerLoop)
    BY <1>2 DEF App, ServerApp
  <2> QED BY <1>1, <2>1, AppStep, TwoLoops
<1>3. CASE ~ServerDisconnected
  <2>1. ASSUME NEW l \in Loops, LoopStep(l) PROVE LInv'
    BY <1>1, <1>3, <2>1, PollStep, DispatchStep, DataStep, NextStep, SendStep DEF LoopStep
  <2>2. ASSUME NEW l \in Loops, App(l) PROVE LInv'
    BY <1>1, <2>2, AppStep
  <2>3. CASE Net \/ UNCHANGED vars
    <3>1. UNCHANGED <<at, cb, arg, wr, running, batch>>
      BY <2>3 DEF Net, Kernel, KernelOnly, vars, sockVars
    <3> QED BY <1>1, <1>3, <3>1, LoopsStay
  <2> QED BY <2>1, <2>2, <2>3 DEF Next, Thread
<1> QED BY <1>2, <1>3

LEMMA LInvInit == Init => LInv
<1> SUFFICES ASSUME Init PROVE LInv
  OBVIOUS
<1>0. SocketInit
  BY DEF Init
<1>1. LoopTypes
  <2>1. NoWrite \in Write /\ <<>> \in Seq(Nat) /\ <<>> \in Seq(Entry)
    BY SocksOfEnds DEF NoWrite, Write
  <2> QED BY <1>0, <2>1 DEF SocketInit, LoopTypes, Places, Callbacks
<1>2. Sockets
  <2> DEFINE n == [Fresh EXCEPT !.alive = FALSE, !.open = FALSE]
             f == Fresh
  <2>1. /\ n \in Sock /\ n.open = FALSE
        /\ f \in Sock /\ f.alive = TRUE /\ f.write_enabled = TRUE /\ f.armed = {}
    BY FreshIs
  <2>2. sock = [s \in Socks |-> IF s = Server THEN n ELSE f]
    BY <1>0 DEF SocketInit
  <2> HIDE DEF n, f
  <2> QED BY <2>1, <2>2, SocksOfEnds DEF Sockets, WriteInterest
<1>3. ASSUME NEW l \in Loops PROVE Loop(l)
  <2>1. at[l] = "out" /\ cb[l] = "none" /\ batch[l] = <<>> /\ arg[l] = <<>> /\ wr[l] = NoWrite
    BY <1>0 DEF SocketInit
  <2>2. DOMAIN <<>> = {}
    OBVIOUS
  <2> QED BY <2>1, <2>2 DEF Loop, Stands, Owned, Live, NoWrite
<1> QED BY <1>1, <1>2, <1>3 DEF LInv

-----------------------------------------------------------------------------
(* Data: where the bytes are *)

Unsent == IF Writing(ServerLoop) THEN Rest(ServerLoop) ELSE pending_data
SentUp == total_sent + (IF Writing(ClientLoop) THEN wr[ClientLoop].sent ELSE 0)

LEMMA Lanes ==
  ASSUME IInv
  PROVE  /\ received_msg \in Seq(Nat) /\ received_data \in Seq(Nat) /\ pending_data \in Seq(Nat)
         /\ \A l \in Loops, s \in Ends : Taken(l, s) \in Seq(Nat)
         /\ \A s \in Ends : net[s].snd \in Seq(Nat) /\ net[s].rcv \in Seq(Nat)
         /\ Unsent \in Seq(Nat) /\ SentUp \in Nat /\ SentUp <= Len(large_message)
<1>1. LInv /\ LinkTypes /\ AppTypeOK /\ ClientWrites
  BY DEF IInv, DInv
<1>2. received_msg \in Seq(Nat) /\ received_data \in Seq(Nat) /\ pending_data \in Seq(Nat)
  BY <1>1 DEF AppTypeOK
<1>3. \A l \in Loops, s \in Ends : Taken(l, s) \in Seq(Nat)
  BY <1>1, Itself DEF Taken
<1>4. \A s \in Ends : net[s].snd \in Seq(Nat) /\ net[s].rcv \in Seq(Nat)
  BY <1>1 DEF LinkTypes, End
<1>5. Unsent \in Seq(Nat)
  BY <1>1, <1>2, AmountIs, TwoLoops DEF Unsent
<1>6. SentUp \in Nat /\ SentUp <= Len(large_message)
  <2> DEFINE n == wr[ClientLoop].sent
             m == Len(large_message)
  <2>1. n \in Nat /\ n <= Len(wr[ClientLoop].buf)
    BY <1>1, AmountIs, TwoLoops
  <2>2. m \in Nat /\ total_sent \in Nat /\ total_sent <= m /\ Len(Unwritten) = m - total_sent
    BY <1>1, UnwrittenIs
  <2>3. Writing(ClientLoop) => n <= m - total_sent
    BY <1>1, <2>1, <2>2 DEF ClientWrites
  <2>4. SentUp = total_sent + (IF Writing(ClientLoop) THEN n ELSE 0)
    BY DEF SentUp
  <2> HIDE DEF n, m
  <2>5. SentUp \in Nat /\ SentUp <= m
    <3>1. CASE Writing(ClientLoop)
      BY <2>1, <2>2, <2>3, <2>4, <3>1
    <3>2. CASE ~Writing(ClientLoop)
      BY <2>2, <2>4, <3>2
    <3> QED BY <3>1, <3>2
  <2> QED BY <2>5 DEF m
<1> QED BY <1>2, <1>3, <1>4, <1>5, <1>6

(* When the whole message is back, no byte is anywhere on the way.         *)
LEMMA AtEnd ==
  ASSUME IInv, Whole(received_msg), NEW s \in Ends
  PROVE  net[s].snd = <<>> /\ net[s].rcv = <<>>
<1> DEFINE rm == received_msg
           rd == received_data
           tc == Taken(ClientLoop, Client)
           ts == Taken(ServerLoop, Server)
           cs == net[Client].snd
           cr == net[Client].rcv
           ss == net[Server].snd
           sr == net[Server].rcv
           m == large_message
<1>1. /\ rm \in Seq(Nat) /\ rd \in Seq(Nat) /\ tc \in Seq(Nat) /\ ts \in Seq(Nat)
      /\ cs \in Seq(Nat) /\ cr \in Seq(Nat) /\ ss \in Seq(Nat) /\ sr \in Seq(Nat)
      /\ Unsent \in Seq(Nat) /\ SentUp \in Nat /\ SentUp <= Len(m)
  BY Lanes, TwoLoops, SocksOfEnds
<1>2. m \in Seq(Nat) /\ Len(m) \in Nat /\ Len(rm) >= Len(m)
  BY UnwrittenIs DEF IInv, DInv, Whole
<1>3. /\ rd \o ts \o sr \o cs = SubSeq(m, 1, SentUp)
      /\ rm \o tc \o cr \o ss \o Unsent = rd
  BY DEF IInv, DInv, EchoConserved, Upstream, Downstream, Unsent, SentUp
<1> HIDE DEF rm, rd, tc, ts, cs, cr, ss, sr, m
<1>4. Len(SubSeq(m, 1, SentUp)) = SentUp
  BY <1>1, <1>2, Pieces
<1>5. /\ Len(rd) + Len(ts) + Len(sr) + Len(cs) = SentUp
      /\ Len(rm) + Len(tc) + Len(cr) + Len(ss) + Len(Unsent) = Len(rd)
  <2>1. Len(rd \o ts \o sr \o cs) = Len(rd) + Len(ts) + Len(sr) + Len(cs)
    BY <1>1, FiveLengths
  <2>2. Len(rm \o tc \o cr \o ss \o Unsent) = Len(rm) + Len(tc) + Len(cr) + Len(ss) + Len(Unsent)
    BY <1>1, FiveLengths
  <2> QED BY <1>3, <1>4, <2>1, <2>2
<1>6. /\ Len(rm) \in Nat /\ Len(rd) \in Nat /\ Len(tc) \in Nat /\ Len(ts) \in Nat /\ Len(cs) \in Nat
      /\ Len(cr) \in Nat /\ Len(ss) \in Nat /\ Len(sr) \in Nat /\ Len(Unsent) \in Nat
  BY <1>1, LenProperties
<1>7. Len(cs) = 0 /\ Len(cr) = 0 /\ Len(ss) = 0 /\ Len(sr) = 0
  BY <1>1, <1>2, <1>5, <1>6, SMTT(30)
<1>8. cs = <<>> /\ cr = <<>> /\ ss = <<>> /\ sr = <<>>
  BY <1>1, <1>7, EmptySeq
<1> QED BY <1>8 DEF cs, cr, ss, sr, Ends

(* What a step of one loop changes of what the threads have in hand.       *)
Moves(l, p, a, w, b) ==
    /\ at' = [at EXCEPT ![l] = p] /\ arg' = [arg EXCEPT ![l] = a]
    /\ wr' = [wr EXCEPT ![l] = w] /\ batch' = [batch EXCEPT ![l] = b]

LEMMA LoopView ==
  ASSUME LInv, NEW l \in Loops, NEW p, NEW a, NEW w, NEW b, Moves(l, p, a, w, b)
  PROVE  /\ \A m \in Loops \ {l} : /\ \A s \in Ends : Taken(m, s)' = Taken(m, s)
                                   /\ Writing(m)' <=> Writing(m)
                                   /\ wr'[m] = wr[m] /\ Rest(m)' = Rest(m)
         /\ \A s \in Ends : Taken(l, s)' = IF p = "cb" /\ Head(b).sock = s THEN a ELSE <<>>
         /\ Writing(l)' <=> p \in {"send", "sent"}
         /\ wr'[l] = w /\ Rest(l)' = Drop(w.buf, w.sent)
<1>1. LoopTypes
  BY DEF LInv
<1>2. /\ at'[l] = p /\ arg'[l] = a /\ wr'[l] = w /\ batch'[l] = b
      /\ \A m \in Loops \ {l} : at'[m] = at[m] /\ arg'[m] = arg[m] /\ wr'[m] = wr[m] /\ batch'[m] = batch[m]
  BY <1>1 DEF LoopTypes, Moves
<1>3. /\ \A s \in Ends : Taken(l, s)' = IF p = "cb" /\ Head(b).sock = s THEN a ELSE <<>>
      /\ Writing(l)' <=> p \in {"send", "sent"}
      /\ Rest(l)' = Drop(w.buf, w.sent)
  BY <1>2 DEF Taken, Writing, Rest, Drop, Cur
<1>4. \A m \in Loops \ {l} : /\ \A s \in Ends : Taken(m, s)' = Taken(m, s)
                             /\ Writing(m)' <=> Writing(m)
                             /\ Rest(m)' = Rest(m)
  BY <1>2 DEF Taken, Writing, Rest, Drop, Cur
<1> QED BY <1>2, <1>3, <1>4

(* Steps after which every thread has in hand what it had. *)
Quiet ==
    \A m \in Loops : /\ \A s \in Ends : Taken(m, s)' = Taken(m, s)
                     /\ Writing(m)' <=> Writing(m)
                     /\ Writing(m) => wr'[m] = wr[m] /\ Rest(m)' = Rest(m)

LEMMA QuietBecomes ==
  ASSUME LInv, NEW l \in Loops, NEW p, NEW a, NEW w, NEW b, Moves(l, p, a, w, b),
         at[l] = "cb" => arg[l] = <<>>, p = "cb" => a = <<>>,
         at[l] \in {"send", "sent"} => p \in {"send", "sent"} /\ w = wr[l],
         p \in {"send", "sent"} => at[l] \in {"send", "sent"}
  PROVE  Quiet
<1>1. /\ \A m \in Loops \ {l} : /\ \A s \in Ends : Taken(m, s)' = Taken(m, s)
                                /\ Writing(m)' <=> Writing(m)
                                /\ wr'[m] = wr[m] /\ Rest(m)' = Rest(m)
      /\ \A s \in Ends : Taken(l, s)' = IF p = "cb" /\ Head(b).sock = s THEN a ELSE <<>>
      /\ Writing(l)' <=> p \in {"send", "sent"}
      /\ wr'[l] = w /\ Rest(l)' = Drop(w.buf, w.sent)
  BY LoopView
<1>2. \A s \in Ends : Taken(l, s)' = Taken(l, s)
  BY <1>1 DEF Taken
<1>3. (Writing(l)' <=> Writing(l)) /\ (Writing(l) => w = wr[l])
  BY <1>1 DEF Writing
<1>4. w = wr[l] => Drop(w.buf, w.sent) = Rest(l)
  BY DEF Rest, Drop
<1> QED BY <1>1, <1>2, <1>3, <1>4 DEF Quiet

QuietLoopStep(l) ==
    \/ Poll(l) \/ Dispatch(l) \/ SkipOut(l) \/ HandleOut(l) \/ SkipIn(l) \/ HandleAccept(l)
    \/ HandleEof(l) \/ HandleRecvError(l) \/ SendNothing(l) \/ SendBlocks(l) \/ SendFails(l)

LEMMA QuietLoop ==
  ASSUME LInv, NEW l \in Loops, QuietLoopStep(l)
  PROVE  Quiet
<1>0. /\ arg = [arg EXCEPT ![l] = arg[l]] /\ wr = [wr EXCEPT ![l] = wr[l]] /\ batch = [batch EXCEPT ![l] = batch[l]]
      /\ Stands(at[l], cb[l], arg[l], wr[l], running[l], batch[l])
  BY Itself
<1>1. UNCHANGED <<arg, wr>>
  BY DEF QuietLoopStep, Poll, Dispatch, SkipOut, HandleOut, SkipIn, HandleAccept, HandleEof, Receives,
         HandleRecvError, SendNothing, SendBlocks, SendFails
<1>2. PICK b : batch' = [batch EXCEPT ![l] = b]
  BY <1>0 DEF QuietLoopStep, Poll, Dispatch, SkipOut, HandleOut, SkipIn, HandleAccept, HandleEof, Receives,
              HandleRecvError, SendNothing, SendBlocks, SendFails
<1>3. PICK p : /\ at' = [at EXCEPT ![l] = p]
               /\ IF at[l] \in {"send", "sent"} THEN p = "sent" ELSE p \notin {"send", "sent"} /\ at[l] # "cb"
  <2>1. CASE Poll(l)
    <3>1. at' = [at EXCEPT ![l] = "next"] /\ at[l] = "wait"
      BY <2>1 DEF Poll
    <3> WITNESS "next"
    <3> QED BY <3>1
  <2>2. CASE Dispatch(l)
    <3> DEFINE p == IF batch[l] # <<>> THEN "EPOLLOUT" ELSE IF running[l] THEN "wait" ELSE "left"
    <3>1. at' = [at EXCEPT ![l] = p] /\ at[l] = "next" /\ p \notin {"send", "sent"}
      BY <2>2 DEF Dispatch
    <3> HIDE DEF p
    <3> QED BY <3>1
  <2>3. CASE SkipOut(l) \/ HandleOut(l)
    <3>1. (at' = [at EXCEPT ![l] = "EPOLLIN"] \/ at' = [at EXCEPT ![l] = "cb"]) /\ at[l] = "EPOLLOUT"
      BY <2>3, Zenon DEF SkipOut, HandleOut
    <3>2. CASE at' = [at EXCEPT ![l] = "EPOLLIN"]
      <4> WITNESS "EPOLLIN"
      <4> QED BY <3>1, <3>2
    <3>3. CASE at' = [at EXCEPT ![l] = "cb"]
      <4> WITNESS "cb"
      <4> QED BY <3>1, <3>3
    <3> QED BY <3>1, <3>2, <3>3
  <2>4. CASE SkipIn(l) \/ HandleAccept(l) \/ HandleEof(l) \/ HandleRecvError(l)
    BY <2>4 DEF SkipIn, AtIn, HandleAccept, HandleEof, Receives, HandleRecvError
  <2>5. CASE SendNothing(l) \/ SendBlocks(l) \/ SendFails(l)
    BY <2>5 DEF SendNothing, SendBlocks, SendFails
  <2> QED BY <2>1, <2>2, <2>3, <2>4, <2>5 DEF QuietLoopStep
<1>4. (at[l] \notin {"send", "sent"} => arg[l] = <<>>)
  BY <1>0, <1>3 DEF Stands, QuietLoopStep, Poll, Dispatch, SkipOut, HandleOut, SkipIn, AtIn, HandleAccept,
                    HandleEof, HandleRecvError, SendNothing, SendBlocks, SendFails
<1>5. /\ arg' = [arg EXCEPT ![l] = arg[l]] /\ wr' = [wr EXCEPT ![l] = wr[l]]
      /\ at[l] = "cb" => arg[l] = <<>>
      /\ p = "cb" => arg[l] = <<>>
      /\ at[l] \in {"send", "sent"} => p \in {"send", "sent"} /\ wr[l] = wr[l]
      /\ p \in {"send", "sent"} => at[l] \in {"send", "sent"}
  BY <1>0, <1>1, <1>3, <1>4
<1>6. Moves(l, p, arg[l], wr[l], b)
  BY <1>2, <1>3, <1>5 DEF Moves
<1> QED BY <1>5, <1>6, QuietBecomes

QuietAppStep(l) ==
    \/ StartServer \/ StartClient \/ EnterLoop(l) \/ ClientDisconnected \/ ClientClose
    \/ ServerAccepted \/ ServerDisconnected \/ (ServerSent /\ pending_data = <<>>)

LEMMA QuietApp ==
  ASSUME LInv, NEW l \in Loops, QuietAppStep(l)
  PROVE  Quiet
<1>1. CASE UNCHANGED <<at, arg, wr, batch>>
  BY <1>1 DEF Quiet, Taken, Writing, Rest, Drop, Cur
<1>2. ASSUME NEW k \in Loops, NEW p, UNCHANGED <<arg, wr, batch>>, at' = [at EXCEPT ![k] = p],
             p \notin {"cb", "send", "sent"}, at[k] \notin {"send", "sent"}, at[k] = "cb" => cb[k] # "on_received"
      PROVE  Quiet
  <2>1. /\ arg' = [arg EXCEPT ![k] = arg[k]] /\ wr' = [wr EXCEPT ![k] = wr[k]]
        /\ batch' = [batch EXCEPT ![k] = batch[k]] /\ (at[k] = "cb" => arg[k] = <<>>)
    BY <1>2, Itself DEF Stands
  <2>2. /\ p = "cb" => arg[k] = <<>>
        /\ at[k] \in {"send", "sent"} => p \in {"send", "sent"} /\ wr[k] = wr[k]
        /\ p \in {"send", "sent"} => at[k] \in {"send", "sent"}
    BY <1>2
  <2>3. Moves(k, p, arg[k], wr[k], batch[k])
    BY <1>2, <2>1 DEF Moves
  <2> QED BY <1>2, <2>1, <2>2, <2>3, QuietBecomes
<1>3. CASE EnterLoop(l)
  BY <1>2, <1>3 DEF EnterLoop, Enter
<1>4. CASE ClientDisconnected
  BY <1>2, <1>4, TwoLoops DEF ClientDisconnected, In
<1>5. ASSUME NEW k \in Loops, Returned(k), at[k] = "cb", cb[k] # "on_received" PROVE Quiet
  <2>1. PICK p, b : /\ at' = [at EXCEPT ![k] = p] /\ batch' = [batch EXCEPT ![k] = b]
                    /\ p \notin {"cb", "send", "sent"}
    <3>1. CASE cb[k] \in {"on_connected", "on_sent"}
      <4>1. at' = [at EXCEPT ![k] = "EPOLLIN"] /\ batch' = [batch EXCEPT ![k] = batch[k]]
        BY <1>5, <3>1, Itself DEF Returned
      <4> WITNESS "EPOLLIN", batch[k]
      <4> QED BY <4>1
    <3>2. CASE cb[k] \notin {"on_connected", "on_sent"}
      BY <1>5, <3>2, SMTT(30) DEF Returned
    <3> QED BY <3>1, <3>2
  <2>2. arg' = [arg EXCEPT ![k] = <<>>] /\ wr' = [wr EXCEPT ![k] = NoWrite] /\ arg[k] = <<>>
    BY <1>5, Itself DEF Returned, Stands
  <2>3. Moves(k, p, <<>>, NoWrite, b)
    BY <2>1, <2>2 DEF Moves
  <2> QED BY <1>5, <2>1, <2>2, <2>3, QuietBecomes
<1>6. CASE ServerAccepted \/ ServerDisconnected \/ (ServerSent /\ pending_data = <<>>)
  BY <1>5, <1>6, TwoLoops DEF ServerAccepted, ServerDisconnected, ServerSent, In
<1>7. CASE StartServer \/ StartClient \/ ClientClose
  BY <1>1, <1>7 DEF StartServer, StartClient, Listen, Connect, ClientClose
<1> QED BY <1>3, <1>4, <1>6, <1>7 DEF QuietAppStep

-----------------------------------------------------------------------------
(* The connection *)

LEMMA EndFields ==
  ASSUME NEW r \in End
  PROVE  /\ \A v \in BOOLEAN :
              /\ [r EXCEPT !.err = v] \in End /\ [r EXCEPT !.err = v].snd = r.snd
              /\ [r EXCEPT !.err = v].rcv = r.rcv /\ [r EXCEPT !.err = v].closed = r.closed
              /\ [r EXCEPT !.err = v].eof = r.eof /\ [r EXCEPT !.err = v].reset = r.reset
         /\ \A v \in BOOLEAN :
              /\ [r EXCEPT !.closed = v] \in End /\ [r EXCEPT !.closed = v].snd = r.snd
              /\ [r EXCEPT !.closed = v].rcv = r.rcv /\ [r EXCEPT !.closed = v].closed = v
              /\ [r EXCEPT !.closed = v].eof = r.eof /\ [r EXCEPT !.closed = v].reset = r.reset
         /\ \A v \in BOOLEAN :
              /\ [r EXCEPT !.eof = v] \in End /\ [r EXCEPT !.eof = v].snd = r.snd
              /\ [r EXCEPT !.eof = v].rcv = r.rcv /\ [r EXCEPT !.eof = v].closed = r.closed
              /\ [r EXCEPT !.eof = v].eof = v /\ [r EXCEPT !.eof = v].reset = r.reset
         /\ \A q \in Seq(Nat) :
              /\ [r EXCEPT !.snd = q] \in End /\ [r EXCEPT !.snd = q].snd = q
              /\ [r EXCEPT !.snd = q].rcv = r.rcv /\ [r EXCEPT !.snd = q].closed = r.closed
              /\ [r EXCEPT !.snd = q].eof = r.eof /\ [r EXCEPT !.snd = q].reset = r.reset
         /\ \A q \in Seq(Nat) :
              /\ [r EXCEPT !.rcv = q] \in End /\ [r EXCEPT !.rcv = q].snd = r.snd
              /\ [r EXCEPT !.rcv = q].rcv = q /\ [r EXCEPT !.rcv = q].closed = r.closed
              /\ [r EXCEPT !.rcv = q].eof = r.eof /\ [r EXCEPT !.rcv = q].reset = r.reset
  BY DEF End

LEMMA OneEnd ==
  ASSUME LinkTypes, NEW s \in Ends, NEW r \in End, net' = [net EXCEPT ![s] = r]
  PROVE  net' \in [Ends -> End] /\ net'[s] = r /\ \A t \in Ends \ {s} : net'[t] = net[t]
  BY DEF LinkTypes

(* Whose end a step changes, and which step changes the connection.        *)
NetSteps ==
    \/ LinkStep \/ ClientClose \/ ServerDisconnected
    \/ \E l \in Loops : HandleOut(l) \/ HandleData(l) \/ HandleRecvError(l) \/ SendSome(l) \/ SendFails(l)

LEMMA NetChange ==
  [Next]_vars => (NetSteps \/ UNCHANGED net) /\ (LinkStep \/ Connect \/ UNCHANGED link)
<1> SUFFICES ASSUME [Next]_vars
             PROVE  (NetSteps \/ UNCHANGED net) /\ (LinkStep \/ Connect \/ UNCHANGED link)
  OBVIOUS
<1>1. ASSUME NEW l \in Loops, LoopStep(l) PROVE (NetSteps \/ UNCHANGED net) /\ UNCHANGED link
  BY <1>1 DEF NetSteps, LoopStep, Poll, Dispatch, SkipOut, SkipIn, HandleAccept, HandleOut, HandleData, Receives,
              HandleEof, HandleRecvError, SendSome, SendNothing, SendBlocks, SendFails
<1>2. ASSUME NEW l \in Loops, App(l) PROVE (NetSteps \/ UNCHANGED net) /\ (Connect \/ UNCHANGED link)
  <2>1. CASE ClientApp
    BY <2>1 DEF NetSteps, ClientApp, ClientConnected, ClientConnectedEnd, ClientSent, ClientSentEnd,
                ClientReceived, ClientDisconnected, ClientClose
  <2>2. CASE ServerApp
    BY <2>2 DEF NetSteps, ServerApp, ServerAccepted, ServerReceived, ServerReceivedEnd, ServerSent, ServerSentEnd,
                ServerDisconnected
  <2>3. CASE StartServer \/ StartClient \/ EnterLoop(l)
    BY <2>3 DEF StartServer, StartClient, EnterLoop, Enter, Listen, Connect
  <2> QED BY <1>2, <2>1, <2>2, <2>3 DEF App
<1>3. CASE Net \/ UNCHANGED vars
  BY <1>3 DEF Net, Kernel, NetSteps, vars, sockVars, linkVars
<1> QED BY <1>1, <1>2, <1>3 DEF Next, Thread

(* Only the pending error of an end changes.                               *)
NetSame ==
    /\ net' \in [Ends -> End]
    /\ \A s \in Ends : /\ net'[s].snd = net[s].snd /\ net'[s].rcv = net[s].rcv /\ net'[s].closed = net[s].closed
                       /\ net'[s].eof = net[s].eof /\ net'[s].reset = net[s].reset

LEMMA ErrOnly ==
  ASSUME LinkTypes, NEW s \in Ends, NEW v \in BOOLEAN, net' = [net EXCEPT ![s].err = v]
  PROVE  NetSame
<1> DEFINE e == net[s]
           r == [e EXCEPT !.err = v]
<1>1. e \in End /\ net' = [net EXCEPT ![s] = r]
  BY DEF LinkTypes
<1>2. /\ r \in End /\ r.snd = e.snd /\ r.rcv = e.rcv /\ r.closed = e.closed /\ r.eof = e.eof /\ r.reset = e.reset
  <2> HIDE DEF e
  <2> QED BY <1>1, EndFields
<1> HIDE DEF r
<1>3. net' \in [Ends -> End] /\ net'[s] = r /\ \A t \in Ends \ {s} : net'[t] = net[t]
  BY <1>1, <1>2, OneEnd
<1> QED BY <1>2, <1>3 DEF NetSame

LEMMA ErrSteps ==
  ASSUME LInv, LinkTypes, NEW l \in Loops,
         Refuse \/ HandleOut(l) \/ HandleRecvError(l) \/ SendFails(l) \/ UNCHANGED net
  PROVE  NetSame
<1>1. CASE UNCHANGED net
  BY <1>1 DEF NetSame, LinkTypes
<1>2. CASE Refuse
  BY <1>2, ErrOnly, SocksOfEnds DEF Refuse
<1>3. CASE HandleOut(l)
  <2>1. batch[l] # <<>> /\ "OUT" \in Ev(l)
    BY <1>3, Itself DEF HandleOut, Stands
  <2>2. Cur(l) \in Ends
    BY <2>1, HeadEntry DEF Socks
  <2>3. UNCHANGED net \/ net' = [net EXCEPT ![Cur(l)].err = FALSE]
    BY <1>3 DEF HandleOut
  <2> QED BY <1>1, <2>2, <2>3, ErrOnly
<1>4. CASE HandleRecvError(l)
  <2>1. batch[l] # <<>> /\ ~sock[Cur(l)].listening
    BY <1>4, Itself DEF HandleRecvError, AtIn, Stands
  <2>2. Cur(l) \in Ends
    BY <2>1, HeadEntry DEF Socks
  <2>3. UNCHANGED net \/ net' = [net EXCEPT ![Cur(l)].err = FALSE]
    BY <1>4 DEF HandleRecvError
  <2> QED BY <1>1, <2>2, <2>3, ErrOnly
<1>5. CASE SendFails(l)
  <2>1. wr[l].sock \in Ends
    BY Itself DEF Write
  <2>2. UNCHANGED net \/ net' = [net EXCEPT ![wr[l].sock].err = FALSE]
    BY <1>5 DEF SendFails
  <2> QED BY <1>1, <2>1, <2>2, ErrOnly
<1> QED BY <1>1, <1>2, <1>3, <1>4, <1>5

Flags(s) ==
    /\ net'[s].closed = net[s].closed /\ net'[s].eof = net[s].eof /\ net'[s].reset = net[s].reset

(* Nothing crosses to an end that is closed: then nothing is on the way.   *)
LEMMA TransferIs ==
  ASSUME IInv, NEW s \in Ends, Transfer(s)
  PROVE  LET p == Peer(s)
         IN  /\ p \in Ends \ {s} /\ net[s].snd # <<>> /\ Len(net[p].rcv) < RcvCap
             /\ net' \in [Ends -> End] /\ \A t \in Ends : Flags(t)
             /\ net'[s].snd = Tail(net[s].snd) /\ net'[s].rcv = net[s].rcv
             /\ net'[p].rcv = Append(net[p].rcv, Head(net[s].snd)) /\ net'[p].snd = net[p].snd
<1> DEFINE p == Peer(s)
           a == net[s]
           c == net[p]
           u == Tail(a.snd)
           v == Append(c.rcv, Head(a.snd))
           a1 == [a EXCEPT !.snd = u]
           c1 == [c EXCEPT !.rcv = v]
<1>1. p \in Ends \ {s} /\ p \in Ends /\ p # s
  BY DEF Peer, Ends
<1>2. a.snd # <<>>
  BY DEF Transfer
<1>3. ~c.closed
  <2> SUFFICES ASSUME c.closed PROVE FALSE
    OBVIOUS
  <2>1. net[Client].closed
    BY <1>1 DEF IInv, DInv, Endings, Ends
  <2>2. Whole(received_msg)
    BY <2>1 DEF IInv, DInv, Endings
  <2> QED BY <1>2, <2>2, AtEnd
<1>4. /\ Len(c.rcv) < RcvCap
      /\ net' = [net EXCEPT ![s].snd = Tail(@), ![p].rcv = Append(@, Head(net[s].snd))]
  BY <1>3 DEF Transfer
<1>5. a \in End /\ c \in End /\ net \in [Ends -> End]
  BY <1>1 DEF IInv, DInv, LinkTypes
<1>6. net'[s] = a1 /\ net'[p] = c1
  BY <1>1, <1>4, <1>5
<1>7. u \in Seq(Nat) /\ v \in Seq(Nat)
  <2>1. a.snd \in Seq(Nat) /\ c.rcv \in Seq(Nat)
    BY <1>5 DEF End
  <2> HIDE DEF a, c
  <2> QED BY <1>2, <2>1, Crossed
<1> HIDE DEF u, v
<1>8. /\ a1 \in End /\ a1.snd = u /\ a1.rcv = a.rcv /\ a1.closed = a.closed
      /\ a1.eof = a.eof /\ a1.reset = a.reset
  <2> HIDE DEF a
  <2> QED BY <1>5, <1>7, EndFields
<1>9. /\ c1 \in End /\ c1.rcv = v /\ c1.snd = c.snd /\ c1.closed = c.closed
      /\ c1.eof = c.eof /\ c1.reset = c.reset
  <2> HIDE DEF a, c
  <2> QED BY <1>5, <1>7, EndFields
<1> HIDE DEF a1, c1
<1>10. net' \in [Ends -> End]
  <2>1. \A t \in Ends : t = s \/ t = p
    BY <1>1 DEF Ends
  <2>2. net' = [t \in Ends |-> net'[t]]
    BY <1>4, <1>5
  <2> QED BY <1>6, <1>8, <1>9, <2>1, <2>2
<1>11. \A t \in Ends : Flags(t)
  <2>1. \A t \in Ends : t = s \/ t = p
    BY <1>1 DEF Ends
  <2> QED BY <1>6, <1>8, <1>9, <2>1 DEF Flags
<1> QED BY <1>1, <1>2, <1>4, <1>6, <1>8, <1>9, <1>10, <1>11 DEF u, v

(* The end of the stream reaches the other end. *)
LEMMA FinIs ==
  ASSUME LinkTypes, NEW s \in Ends, DeliverFin(s)
  PROVE  /\ net[s].closed /\ net' \in [Ends -> End]
         /\ \A t \in Ends : /\ net'[t].snd = net[t].snd /\ net'[t].rcv = net[t].rcv
                            /\ net'[t].closed = net[t].closed /\ net'[t].reset = net[t].reset
                            /\ net[t].eof => net'[t].eof
                            /\ t = s => net'[t].eof = net[t].eof
<1> DEFINE p == Peer(s)
           a == net[p]
           r == [a EXCEPT !.eof = TRUE]
<1>1. p \in Ends /\ p # s /\ net[s].closed /\ a \in End /\ net' = [net EXCEPT ![p] = r]
  BY DEF DeliverFin, LinkTypes, Peer, Ends
<1>2. r \in End /\ r.snd = a.snd /\ r.rcv = a.rcv /\ r.closed = a.closed /\ r.eof = TRUE /\ r.reset = a.reset
  <2> HIDE DEF a
  <2> QED BY <1>1, EndFields
<1> HIDE DEF r
<1>3. net' \in [Ends -> End] /\ net'[p] = r /\ \A t \in Ends \ {p} : net'[t] = net[t]
  BY <1>1, <1>2, OneEnd
<1> QED BY <1>1, <1>2, <1>3

(* An end with nothing left to read is closed. *)
LEMMA CloseIs ==
  ASSUME LinkTypes, NEW s \in Ends, net[s].rcv = <<>>, net' = AfterClose(s)
  PROVE  /\ net' \in [Ends -> End] /\ net'[s].closed
         /\ \A t \in Ends : /\ net'[t].snd = net[t].snd /\ net'[t].rcv = net[t].rcv
                            /\ net'[t].eof = net[t].eof /\ net'[t].reset = net[t].reset
                            /\ t # s => net'[t].closed = net[t].closed
<1> DEFINE a == net[s]
           r == [a EXCEPT !.closed = TRUE]
<1>1. CASE net[s].closed
  BY <1>1 DEF AfterClose, LinkTypes
<1>2. CASE ~net[s].closed
  <2>1. a \in End /\ net' = [net EXCEPT ![s] = r]
    BY <1>2 DEF AfterClose, LinkTypes
  <2>2. r \in End /\ r.snd = a.snd /\ r.rcv = a.rcv /\ r.closed = TRUE /\ r.eof = a.eof /\ r.reset = a.reset
    <3> HIDE DEF a
    <3> QED BY <2>1, EndFields
  <2> HIDE DEF r
  <2>3. net' \in [Ends -> End] /\ net'[s] = r /\ \A t \in Ends \ {s} : net'[t] = net[t]
    BY <2>1, <2>2, OneEnd
  <2> QED BY <2>2, <2>3
<1> QED BY <1>1, <1>2

(* recv and send. *)
LEMMA DataNet ==
  ASSUME LInv, LinkTypes, NEW l \in Loops, HandleData(l)
  PROVE  LET s == Cur(l)
         IN  /\ s \in Ends /\ net' \in [Ends -> End] /\ Len(net'[s].rcv) <= Len(net[s].rcv)
             /\ net'[s].snd = net[s].snd /\ \A t \in Ends : Flags(t)
             /\ \A t \in Ends \ {s} : net'[t] = net[t]
             /\ arg'[l] \in Seq(Nat) /\ arg'[l] \o net'[s].rcv = net[s].rcv
<1> DEFINE s == Cur(l)
           n == Least({Len(net[s].rcv), RecvMax})
           q == Drop(net[s].rcv, n)
           g == SubSeq(net[s].rcv, 1, n)
           a == net[s]
           r == [a EXCEPT !.rcv = q]
<1>1. s \in Ends /\ q \in Seq(Nat) /\ Len(q) <= Len(net[s].rcv) /\ g \in Seq(Nat) /\ g \o q = net[s].rcv
  BY DataIs
<1>2. net' = [net EXCEPT ![s].rcv = Drop(@, n)] /\ arg' = [arg EXCEPT ![l] = g]
  BY DEF HandleData
<1>3. net' = [net EXCEPT ![s] = r] /\ a \in End /\ arg'[l] = g
  BY <1>1, <1>2 DEF LinkTypes, LInv, LoopTypes
<1> HIDE DEF q, g, n, s
<1>4. /\ r \in End /\ r.snd = a.snd /\ r.rcv = q /\ r.closed = a.closed /\ r.eof = a.eof /\ r.reset = a.reset
  <2> HIDE DEF a
  <2> QED BY <1>1, <1>3, EndFields
<1> HIDE DEF r
<1>5. net' \in [Ends -> End] /\ net'[s] = r /\ \A t \in Ends \ {s} : net'[t] = net[t]
  BY <1>1, <1>3, <1>4, OneEnd
<1> QED BY <1>1, <1>3, <1>4, <1>5 DEF s, Flags

LEMMA SendNet ==
  ASSUME LInv, LinkTypes, NEW l \in Loops, SendSome(l)
  PROVE  LET s == wr[l].sock
             k == Amount(l)
         IN  /\ s \in Ends /\ net' \in [Ends -> End] /\ Len(net'[s].snd) <= SndCap
             /\ net'[s].rcv = net[s].rcv /\ \A t \in Ends : Flags(t)
             /\ \A t \in Ends \ {s} : net'[t] = net[t]
             /\ SubSeq(Rest(l), 1, k) \in Seq(Nat) /\ net'[s].snd = net[s].snd \o SubSeq(Rest(l), 1, k)
<1> DEFINE s == wr[l].sock
           k == Amount(l)
           x == SubSeq(Rest(l), 1, k)
           a == net[s]
           q == a.snd \o x
           r == [a EXCEPT !.snd = q]
<1>1. /\ s \in Ends /\ Rest(l) \in Seq(Nat) /\ k \in Nat /\ k <= Len(Rest(l)) /\ k <= Room(s)
      /\ Room(s) = SndCap - Len(a.snd)
  BY AmountIs
<1>2. a \in End /\ net' = [net EXCEPT ![s] = r]
  BY <1>1 DEF SendSome, LinkTypes
<1>3. x \in Seq(Nat) /\ Len(x) = k
  <2> HIDE DEF k
  <2> QED BY <1>1, Pieces
<1>4. a.snd \in Seq(Nat) /\ Len(a.snd) \in Nat
  BY <1>2, LenProperties DEF End
<1> HIDE DEF x, k
<1>5. q \in Seq(Nat) /\ Len(q) = Len(a.snd) + k
  <2> HIDE DEF a
  <2> QED BY <1>3, <1>4, ConcatProperties
<1>6. Len(q) <= SndCap
  <2> HIDE DEF q, a, s
  <2> QED BY <1>1, <1>4, <1>5
<1> HIDE DEF q, s
<1>7. /\ r \in End /\ r.snd = q /\ r.rcv = a.rcv /\ r.closed = a.closed /\ r.eof = a.eof /\ r.reset = a.reset
  <2> HIDE DEF a
  <2> QED BY <1>2, <1>5, EndFields
<1> HIDE DEF r
<1>8. net' \in [Ends -> End] /\ net'[s] = r /\ \A t \in Ends \ {s} : net'[t] = net[t]
  BY <1>1, <1>2, <1>7, OneEnd
<1> QED BY <1>1, <1>3, <1>6, <1>7, <1>8 DEF s, k, x, q, Flags

-----------------------------------------------------------------------------
(* The end of the connection *)

(* What a step changes of the program's data. *)
AppSteps ==
    \/ ClientConnectedEnd \/ ClientSentEnd \/ ClientReceived
    \/ ServerReceived \/ ServerReceivedEnd \/ ServerSentEnd

data == <<large_message, total_sent, received_msg, received_data, pending_data>>

LEMMA AppChange ==
  [Next]_vars => AppSteps \/ (UNCHANGED data /\ (session' = session \/ ServerAccepted \/ ServerDisconnected))
<1> SUFFICES ASSUME [Next]_vars
             PROVE  AppSteps \/ (UNCHANGED data /\ (session' = session \/ ServerAccepted \/ ServerDisconnected))
  OBVIOUS
<1>1. ASSUME UNCHANGED appVars PROVE UNCHANGED data /\ session' = session
  BY <1>1 DEF appVars, data
<1>2. ASSUME NEW l \in Loops, App(l)
      PROVE  AppSteps \/ (UNCHANGED data /\ (session' = session \/ ServerAccepted \/ ServerDisconnected))
  <2>1. CASE ClientConnected \/ ClientSent \/ ClientDisconnected \/ ClientClose \/ ServerSent
             \/ StartServer \/ StartClient \/ EnterLoop(l)
    BY <1>1, <2>1 DEF ClientConnected, ClientSent, ClientDisconnected, ClientClose, ServerSent,
                      StartServer, StartClient, EnterLoop
  <2>2. CASE ServerAccepted \/ ServerDisconnected
    BY <2>2 DEF ServerAccepted, ServerDisconnected, SessionBecomes, data
  <2> QED BY <1>2, <2>1, <2>2 DEF App, ClientApp, ServerApp, AppSteps
<1>3. CASE Net \/ UNCHANGED vars
  BY <1>1, <1>3 DEF Net, vars
<1> QED BY <1>1, <1>2, <1>3 DEF Next, Thread

LEMMA MessageStays ==
  ASSUME IInv, [Next]_vars
  PROVE  /\ large_message' = large_message
         /\ Whole(received_msg) => Whole(received_msg)'
<1>1. large_message' = large_message /\ (received_msg' = received_msg \/ ClientReceived)
  BY AppChange DEF AppSteps, data, ClientConnectedEnd, ClientSentEnd, ClientWrote, ClientReceived, ClientGot,
                   ServerReceived, ServerGot, ServerReceivedEnd, ServerSentEnd, ServerKeeps
<1>2. CASE ClientReceived
  <2> DEFINE a == arg[ClientLoop]
             m == received_msg
  <2>1. received_msg' = m \o a
    BY <1>2 DEF ClientReceived, ClientGot
  <2>2. m \in Seq(Nat) /\ a \in Seq(Nat) /\ Len(large_message) \in Nat
    BY Lanes, Itself, TwoLoops, UnwrittenIs DEF IInv, DInv
  <2> HIDE DEF m, a
  <2>3. Len(m \o a) = Len(m) + Len(a) /\ Len(m) \in Nat /\ Len(a) \in Nat
    BY <2>2, ConcatProperties, LenProperties
  <2>4. Len(m) >= Len(large_message) => Len(m \o a) >= Len(large_message)
    BY <2>2, <2>3
  <2> QED BY <1>1, <2>1, <2>4 DEF Whole, m
<1>3. CASE received_msg' = received_msg
  BY <1>1, <1>3 DEF Whole
<1> QED BY <1>1, <1>2, <1>3

NetEndings ==
    /\ \A s \in Ends : ~net[s].reset
    /\ net[Client].closed => ~sock[Client].open /\ Whole(received_msg)
    /\ net[Server].eof \/ net[Server].closed \/ net[Client].eof => net[Client].closed

LoopEndings ==
    /\ cb[ServerLoop] = "on_disconnected" => net[Server].eof
    /\ cb[ClientLoop] = "on_disconnected" => link = "refused"
    /\ at[ClientLoop] # "out" /\ ~running[ClientLoop] => Whole(received_msg)

(* Both ends are closed when the whole message is back.                    *)
Closes(s) ==
    /\ net' \in [Ends -> End] /\ net'[s].closed
    /\ \A t \in Ends : /\ net'[t].snd = net[t].snd /\ net'[t].rcv = net[t].rcv
                       /\ net'[t].eof = net[t].eof /\ net'[t].reset = net[t].reset
                       /\ t # s => net'[t].closed = net[t].closed

LEMMA ClosingIs ==
  ASSUME IInv, ClientClose \/ ServerDisconnected
  PROVE  /\ Whole(received_msg)
         /\ \E s \in Ends : Closes(s) /\ (s = Client => ClientClose) /\ (s = Server => net[Server].eof)
<1>0. LInv /\ LinkTypes /\ NetEndings /\ LoopEndings
  BY DEF IInv, DInv, Endings, NetEndings, LoopEndings
<1>1. Whole(received_msg)
  <2>1. CASE ClientClose
    <3>1. at[ClientLoop] = "left" /\ ~running[ClientLoop]
      BY <1>0, <2>1, Itself, TwoLoops DEF ClientClose, Stands
    <3> QED BY <1>0, <3>1 DEF LoopEndings
  <2>2. CASE ServerDisconnected
    BY <1>0, <2>2 DEF ServerDisconnected, In, LoopEndings, NetEndings
  <2> QED BY <2>1, <2>2
<1>2. PICK s \in Ends : net' = AfterClose(s) /\ (s = Client => ClientClose) /\ (s = Server => net[Server].eof)
  <2>1. CASE ClientClose
    BY <2>1, SocksOfEnds DEF ClientClose
  <2>2. CASE ServerDisconnected
    BY <1>0, <2>2, SocksOfEnds DEF ServerDisconnected, In, LoopEndings
  <2> QED BY <2>1, <2>2
<1>3. net[s].rcv = <<>>
  BY <1>1, AtEnd
<1>4. Closes(s)
  BY <1>0, <1>2, <1>3, CloseIs DEF Closes
<1> QED BY <1>1, <1>2, <1>4

LEMMA NetHolds ==
  ASSUME IInv, [Next]_vars
  PROVE  /\ LinkTypes' /\ NetEndings'
         /\ net[Server].eof => net'[Server].eof
         /\ link = "refused" => link' = "refused"
<1>0. LInv /\ LinkTypes /\ NetEndings /\ LoopEndings
  BY DEF IInv, DInv, Endings, NetEndings, LoopEndings
<1>1. SocketsHold /\ (Whole(received_msg) => Whole(received_msg)')
  BY <1>0, SocketsStep, MessageStays
<1>2. link' \in {"none", "syn", "up", "refused"} /\ (link = "refused" => link' = "refused")
  <2>1. CASE LinkStep
    BY <1>0, <2>1 DEF LinkTypes, LinkStep, Establish, Refuse, Transfer, DeliverFin
  <2>2. CASE Connect \/ UNCHANGED link
    BY <1>0, <2>2 DEF LinkTypes, Connect
  <2> QED BY <2>1, <2>2, NetChange
<1>3. ASSUME net' \in [Ends -> End],
             \A s \in Ends : Len(net'[s].snd) <= SndCap /\ Len(net'[s].rcv) <= RcvCap
      PROVE  LinkTypes'
  BY <1>2, <1>3 DEF LinkTypes
<1>4. ASSUME \A s \in Ends : Flags(s) PROVE NetEndings' /\ (net[Server].eof => net'[Server].eof)
  BY <1>0, <1>1, <1>4, SocksOfEnds DEF NetEndings, SocketsHold, Flags
<1>5. CASE NetSame
  <2>1. \A s \in Ends : Flags(s) /\ Len(net'[s].snd) <= SndCap /\ Len(net'[s].rcv) <= RcvCap
    BY <1>0, <1>5 DEF NetSame, Flags, LinkTypes
  <2> QED BY <1>2, <1>3, <1>4, <1>5, <2>1 DEF NetSame
<1>6. ASSUME NEW s \in Ends, Transfer(s) PROVE LinkTypes' /\ NetEndings' /\ (net[Server].eof => net'[Server].eof)
  <2> DEFINE p == Peer(s)
  <2>1. /\ p \in Ends \ {s} /\ net[s].snd # <<>> /\ Len(net[p].rcv) < RcvCap
        /\ net' \in [Ends -> End] /\ \A t \in Ends : Flags(t)
        /\ net'[s].snd = Tail(net[s].snd) /\ net'[s].rcv = net[s].rcv
        /\ net'[p].rcv = Append(net[p].rcv, Head(net[s].snd)) /\ net'[p].snd = net[p].snd
    BY <1>6, TransferIs
  <2> HIDE DEF p
  <2> DEFINE d == net[s].snd
             c == net[p].rcv
  <2>2. d \in Seq(Nat) /\ c \in Seq(Nat) /\ d # <<>> /\ Len(d) <= SndCap /\ Len(c) < RcvCap
    BY <1>0, <2>1 DEF LinkTypes, End
  <2> HIDE DEF d, c
  <2>3. Len(Append(c, Head(d))) = Len(c) + 1 /\ Len(Tail(d)) = Len(d) - 1 /\ Len(d) \in Nat /\ Len(c) \in Nat
    BY <2>2, Crossed, LenProperties
  <2>4. Len(Append(c, Head(d))) <= RcvCap /\ Len(Tail(d)) <= SndCap
    BY <2>2, <2>3
  <2>5. \A t \in Ends : t = s \/ t = p
    BY <2>1 DEF Ends
  <2>6. \A t \in Ends : Len(net[t].snd) <= SndCap /\ Len(net[t].rcv) <= RcvCap
    BY <1>0 DEF LinkTypes
  <2>7. \A t \in Ends : Len(net'[t].snd) <= SndCap /\ Len(net'[t].rcv) <= RcvCap
    BY <2>1, <2>4, <2>5, <2>6 DEF c, d
  <2> QED BY <1>3, <1>4, <2>1, <2>7
<1>7. ASSUME NEW s \in Ends, DeliverFin(s) PROVE LinkTypes' /\ NetEndings' /\ (net[Server].eof => net'[Server].eof)
  <2>1. /\ net[s].closed /\ net' \in [Ends -> End]
        /\ \A t \in Ends : /\ net'[t].snd = net[t].snd /\ net'[t].rcv = net[t].rcv
                           /\ net'[t].closed = net[t].closed /\ net'[t].reset = net[t].reset
                           /\ net[t].eof => net'[t].eof
                           /\ t = s => net'[t].eof = net[t].eof
    BY <1>0, <1>7, FinIs
  <2>2. LinkTypes'
    BY <1>0, <1>3, <2>1 DEF LinkTypes
  <2>3. net[Client].closed /\ net'[Client].closed
    BY <1>0, <2>1, SocksOfEnds DEF NetEndings, Ends
  <2>4. NetEndings'
    BY <1>0, <1>1, <2>1, <2>3, SocksOfEnds DEF NetEndings, SocketsHold
  <2> QED BY <2>1, <2>2, <2>4, SocksOfEnds
<1>8. ASSUME NEW l \in Loops, HandleData(l) PROVE LinkTypes' /\ NetEndings' /\ (net[Server].eof => net'[Server].eof)
  <2> DEFINE s == Cur(l)
  <2>1. /\ s \in Ends /\ net' \in [Ends -> End] /\ Len(net'[s].rcv) <= Len(net[s].rcv)
        /\ net'[s].snd = net[s].snd /\ \A t \in Ends : Flags(t)
        /\ \A t \in Ends \ {s} : net'[t] = net[t]
    BY <1>0, <1>8, DataNet
  <2> HIDE DEF s
  <2>2. \A t \in Ends : Len(net[t].snd) <= SndCap /\ Len(net[t].rcv) <= RcvCap
    BY <1>0 DEF LinkTypes
  <2>3. Len(net'[s].rcv) \in Nat /\ Len(net[s].rcv) \in Nat
    BY <1>0, <2>1, LenProperties DEF LinkTypes, End
  <2>4. Len(net'[s].rcv) <= RcvCap
    BY <2>1, <2>2, <2>3
  <2> QED BY <1>3, <1>4, <2>1, <2>2, <2>4
<1>9. ASSUME NEW l \in Loops, SendSome(l) PROVE LinkTypes' /\ NetEndings' /\ (net[Server].eof => net'[Server].eof)
  <2> DEFINE s == wr[l].sock
  <2>1. /\ s \in Ends /\ net' \in [Ends -> End] /\ Len(net'[s].snd) <= SndCap
        /\ net'[s].rcv = net[s].rcv /\ \A t \in Ends : Flags(t)
        /\ \A t \in Ends \ {s} : net'[t] = net[t]
    BY <1>0, <1>9, SendNet
  <2> HIDE DEF s
  <2>2. \A t \in Ends : Len(net[t].snd) <= SndCap /\ Len(net[t].rcv) <= RcvCap
    BY <1>0 DEF LinkTypes
  <2> QED BY <1>3, <1>4, <2>1, <2>2
<1>10. CASE ClientClose \/ ServerDisconnected
  <2>1. Whole(received_msg)
    BY <1>10, ClosingIs
  <2>2. PICK s \in Ends : Closes(s) /\ (s = Client => ClientClose) /\ (s = Server => net[Server].eof)
    BY <1>10, ClosingIs
  <2>4. /\ net' \in [Ends -> End] /\ net'[s].closed
        /\ \A t \in Ends : /\ net'[t].snd = net[t].snd /\ net'[t].rcv = net[t].rcv
                           /\ net'[t].eof = net[t].eof /\ net'[t].reset = net[t].reset
                           /\ t # s => net'[t].closed = net[t].closed
    BY <2>2 DEF Closes
  <2>5. LinkTypes'
    BY <1>0, <1>3, <2>4 DEF LinkTypes
  <2>6. s = Client => ~sock'[Client].open
    <3> SUFFICES ASSUME s = Client PROVE ~sock'[Client].open
      OBVIOUS
    <3>1. sock' = [sock EXCEPT ![Client] = ClosedSock(Client)] /\ Sockets
      BY <1>0, <2>2 DEF ClientClose, LInv
    <3> QED BY <3>1, ClosedIs, SocksOfEnds DEF Sockets
  <2>7. NetEndings'
    BY <1>0, <1>1, <2>1, <2>2, <2>4, <2>6, SocksOfEnds DEF NetEndings, SocketsHold, Ends
  <2> QED BY <1>2, <2>4, <2>5, <2>7, SocksOfEnds
<1>11. CASE Establish
  BY <1>0, <1>2, <1>5, <1>11, TwoLoops, ErrSteps DEF Establish
<1> QED BY <1>0, <1>2, <1>5, <1>6, <1>7, <1>8, <1>9, <1>10, <1>11, TwoLoops, ErrSteps, NetChange DEF NetSteps, LinkStep

LEMMA LoopEndingsHold ==
  ASSUME IInv, [Next]_vars
  PROVE  LoopEndings'
<1>0. LInv /\ LinkTypes /\ NetEndings /\ LoopEndings
  BY DEF IInv, DInv, Endings, NetEndings, LoopEndings
<1>1. /\ net[Server].eof => net'[Server].eof
      /\ link = "refused" => link' = "refused"
      /\ Whole(received_msg) => Whole(received_msg)'
  BY NetHolds, MessageStays
<1>2. /\ cb \in [Loops -> Callbacks] /\ at \in [Loops -> Places] /\ running \in [Loops -> BOOLEAN]
      /\ ClientLoop \in Loops /\ ServerLoop \in Loops /\ ClientLoop # ServerLoop
  BY <1>0, TwoLoops DEF LInv, LoopTypes
<1>3. ASSUME NEW l \in {ClientLoop, ServerLoop}
      PROVE  cb'[l] = "on_disconnected" => cb[l] = "on_disconnected" \/ HandleEof(l)
  <2>1. ASSUME NEW k \in Loops, LoopStep(k)
        PROVE  cb'[l] = "on_disconnected" => cb[l] = "on_disconnected" \/ HandleEof(l)
    <3>1. HandleEof(k) \/ HandleOut(k) \/ HandleAccept(k) \/ HandleData(k) \/ UNCHANGED cb
      BY <2>1 DEF LoopStep, Poll, Dispatch, SkipOut, SkipIn, HandleRecvError, SendSome, SendNothing, SendBlocks,
                  SendFails
    <3>2. CASE HandleEof(k)
      <4>1. cb' = [cb EXCEPT ![k] = "on_disconnected"]
        BY <3>2 DEF HandleEof, Receives
      <4> QED BY <1>2, <3>2, <4>1
    <3>3. CASE HandleOut(k)
      <4>1. UNCHANGED cb \/ cb' = [cb EXCEPT ![k] = IF sock[Cur(k)].connected THEN "on_sent" ELSE "on_connected"]
        BY <3>3 DEF HandleOut
      <4> QED BY <1>2, <4>1
    <3>4. CASE HandleAccept(k)
      <4>1. cb' = [cb EXCEPT ![k] = "on_accepted"]
        BY <3>4 DEF HandleAccept
      <4> QED BY <1>2, <4>1
    <3>5. CASE HandleData(k)
      <4>1. cb' = [cb EXCEPT ![k] = "on_received"]
        BY <3>5 DEF HandleData, Receives
      <4> QED BY <1>2, <4>1
    <3> QED BY <3>1, <3>2, <3>3, <3>4, <3>5
  <2>2. ASSUME NEW k \in Loops, App(k) PROVE cb'[l] = "on_disconnected" => cb[l] = "on_disconnected"
    <3>1. CASE ClientApp
      BY <1>2, <3>1 DEF ClientApp, ClientConnected, ClientConnectedEnd, ClientSent, ClientSentEnd,
                        ClientReceived, ClientDisconnected, ClientClose, Returned
    <3>2. CASE ServerApp
      BY <1>2, <3>2 DEF ServerApp, ServerAccepted, ServerReceived, ServerReceivedEnd, ServerSent, ServerSentEnd,
                        ServerDisconnected, Returned
    <3>3. CASE StartServer \/ StartClient \/ EnterLoop(k)
      BY <3>3 DEF StartServer, StartClient, EnterLoop, Enter, Listen, Connect
    <3> QED BY <2>2, <3>1, <3>2, <3>3 DEF App
  <2>3. CASE Net \/ UNCHANGED vars
    BY <2>3 DEF Net, Kernel, KernelOnly, vars, sockVars
  <2> QED BY <2>1, <2>2, <2>3 DEF Next, Thread
<1>4. ASSUME NEW l \in Loops, HandleEof(l)
      PROVE  /\ l = ServerLoop => net[Server].eof
             /\ l = ClientLoop => link = "refused"
  <2>1. batch[l] # <<>> /\ ~sock[Cur(l)].listening /\ sock[Cur(l)].open /\ Over(Cur(l))
    BY <1>0, <1>4, Itself DEF HandleEof, AtIn, Stands
  <2>2. Cur(l) \in Ends /\ LoopOf[Cur(l)] = l
    BY <1>0, <2>1, HeadEntry DEF Socks
  <2>3. /\ l = ServerLoop => Cur(l) = Server
        /\ l = ClientLoop => Cur(l) = Client
    BY <2>2, TwoLoops DEF Ends
  <2> QED BY <1>0, <2>1, <2>3, SocksOfEnds DEF Over, NetEndings
<1>5. \/ at'[ClientLoop] = at[ClientLoop] /\ running'[ClientLoop] = running[ClientLoop]
      \/ running'[ClientLoop]
      \/ at[ClientLoop] # "out" /\ running'[ClientLoop] = running[ClientLoop]
      \/ Whole(received_msg)'
  <2>1. ASSUME NEW k \in Loops, LoopStep(k)
        PROVE  /\ UNCHANGED running
               /\ at'[ClientLoop] = at[ClientLoop] \/ at[ClientLoop] # "out"
    BY <1>2, <2>1 DEF LoopStep, Poll, Dispatch, SkipOut, HandleOut, SkipIn, AtIn, HandleAccept, HandleData, Receives,
                      HandleEof, HandleRecvError, SendSome, SendNothing, SendBlocks, SendFails
  <2>2. CASE ClientConnected \/ ClientConnectedEnd \/ ClientSent \/ ClientSentEnd \/ ClientDisconnected
    BY <1>2, <2>2 DEF ClientConnected, ClientConnectedEnd, ClientSent, ClientSentEnd, ClientDisconnected, In, Out
  <2>3. CASE ClientReceived
    <3>1. running'[ClientLoop] = (running[ClientLoop] /\ ~Whole(received_msg')) /\ at[ClientLoop] = "cb"
      BY <1>2, <2>3 DEF ClientReceived, In
    <3>2. Whole(received_msg)' <=> Whole(received_msg')
      BY MessageStays DEF Whole
    <3>3. running[ClientLoop] \in BOOLEAN
      BY <1>2
    <3> QED BY <3>1, <3>2, <3>3
  <2>4. CASE ClientClose \/ StartServer \/ StartClient
    BY <2>4 DEF ClientClose, StartServer, StartClient, Listen, Connect
  <2>5. CASE ServerApp
    BY <1>2, <2>5 DEF ServerApp, ServerAccepted, ServerReceived, ServerReceivedEnd, ServerSent, ServerSentEnd,
                      ServerDisconnected, Returned, BeginWrite
  <2>6. ASSUME NEW k \in Loops, EnterLoop(k)
        PROVE  \/ running'[ClientLoop]
               \/ at'[ClientLoop] = at[ClientLoop] /\ running'[ClientLoop] = running[ClientLoop]
    BY <1>2, <2>6 DEF EnterLoop, Enter
  <2>7. CASE Net \/ UNCHANGED vars
    BY <2>7 DEF Net, Kernel, KernelOnly, vars, sockVars
  <2> QED BY <2>1, <2>2, <2>3, <2>4, <2>5, <2>6, <2>7 DEF Next, Thread, App, ClientApp
<1>6. (cb[ServerLoop] = "on_disconnected" => net[Server].eof)'
  BY <1>0, <1>1, <1>2, <1>3, <1>4 DEF LoopEndings
<1>7. (cb[ClientLoop] = "on_disconnected" => link = "refused")'
  BY <1>0, <1>1, <1>2, <1>3, <1>4 DEF LoopEndings
<1>8. (at[ClientLoop] # "out" /\ ~running[ClientLoop] => Whole(received_msg))'
  BY <1>0, <1>1, <1>5 DEF LoopEndings
<1> QED BY <1>6, <1>7, <1>8 DEF LoopEndings

LEMMA AppTypesHold ==
  ASSUME IInv, [Next]_vars
  PROVE  AppTypeOK'
<1>0. LInv /\ AppTypeOK /\ LinkTypes /\ ClientLoop \in Loops /\ ServerLoop \in Loops
  BY TwoLoops DEF IInv, DInv
<1>1. /\ received_msg \in Seq(Nat) /\ received_data \in Seq(Nat) /\ pending_data \in Seq(Nat)
      /\ arg[ClientLoop] \in Seq(Nat) /\ arg[ServerLoop] \in Seq(Nat) /\ Rest(ServerLoop) \in Seq(Nat)
  BY <1>0, Lanes, Itself, AmountIs
<1>2. CASE ClientConnectedEnd \/ ClientSentEnd
  <2>1. Writing(ClientLoop) /\ ClientWrote(wr[ClientLoop].sent)
    BY <1>2 DEF ClientConnectedEnd, ClientSentEnd, Out, Writing
  <2>2. total_sent' = SentUp
    BY <2>1 DEF ClientWrote, SentUp
  <2>3. SentUp \in 0..Len(large_message)
    BY <1>0, Lanes, UnwrittenIs
  <2> QED BY <1>0, <2>1, <2>2, <2>3 DEF ClientWrote, AppTypeOK
<1>3. CASE ClientReceived
  <2>1. received_msg \o arg[ClientLoop] \in Seq(Nat)
    BY <1>1, ConcatProperties
  <2> QED BY <1>0, <1>3, <2>1 DEF ClientReceived, ClientGot, AppTypeOK
<1>4. CASE ServerReceived
  <2>1. received_data \o arg[ServerLoop] \in Seq(Nat)
    BY <1>1, ConcatProperties
  <2>2. pending_data \o arg[ServerLoop] \in Seq(Nat)
    BY <1>1, ConcatProperties
  <2>3. pending_data \o <<>> \in Seq(Nat)
    BY <1>1, ConcatEmptySeq
  <2> QED BY <1>0, <1>4, <2>1, <2>2, <2>3 DEF ServerReceived, ServerGot, AppTypeOK
<1>5. CASE ServerReceivedEnd \/ ServerSentEnd
  BY <1>0, <1>1, <1>5 DEF ServerReceivedEnd, ServerSentEnd, ServerKeeps, AppTypeOK
<1>6. CASE UNCHANGED data /\ (session' = session \/ ServerAccepted \/ ServerDisconnected)
  BY <1>0, <1>6 DEF data, ServerAccepted, ServerDisconnected, SessionBecomes, AppTypeOK
<1> QED BY <1>2, <1>3, <1>4, <1>5, <1>6, AppChange DEF AppSteps

-----------------------------------------------------------------------------
(* The two directions of the echo *)

LEMMA Flows ==
  /\ EchoConserved <=>
       /\ UpFlow(received_data, Taken(ServerLoop, Server), net[Server].rcv, net[Client].snd, SentUp, large_message)
       /\ DownFlow(received_msg, Taken(ClientLoop, Client), net[Client].rcv, net[Server].snd, Unsent, received_data)
  /\ EchoConserved' <=>
       /\ UpFlow(received_data', Taken(ServerLoop, Server)', net'[Server].rcv, net'[Client].snd,
                 SentUp', large_message')
       /\ DownFlow(received_msg', Taken(ClientLoop, Client)', net'[Client].rcv, net'[Server].snd,
                   Unsent', received_data')
  BY DEF EchoConserved, Upstream, Downstream, UpFlow, DownFlow, SentUp, Unsent

OthersSame(k) ==
    \A m \in Loops \ {k} : /\ \A s \in Ends : Taken(m, s)' = Taken(m, s)
                           /\ Writing(m)' <=> Writing(m)
                           /\ wr'[m] = wr[m] /\ Rest(m)' = Rest(m)

LEMMA ReturnedView ==
  ASSUME LInv, NEW k \in Loops, Returned(k)
  PROVE  OthersSame(k) /\ ~Writing(k)' /\ \A s \in Ends : Taken(k, s)' = <<>>
<1>1. PICK p, b : /\ at' = [at EXCEPT ![k] = p] /\ batch' = [batch EXCEPT ![k] = b]
                  /\ p \notin {"cb", "send", "sent"}
  <2>1. CASE cb[k] \in {"on_connected", "on_sent"}
    <3>1. at' = [at EXCEPT ![k] = "EPOLLIN"] /\ batch' = [batch EXCEPT ![k] = batch[k]]
      BY <2>1, Itself DEF Returned
    <3> WITNESS "EPOLLIN", batch[k]
    <3> QED BY <3>1
  <2>2. CASE cb[k] \notin {"on_connected", "on_sent"}
    <3>1. at' = [at EXCEPT ![k] = "next"] /\ batch' = [batch EXCEPT ![k] = Tail(batch[k])]
      BY <2>2 DEF Returned
    <3> WITNESS "next", Tail(batch[k])
    <3> QED BY <3>1
  <2> QED BY <2>1, <2>2
<1>2. Moves(k, p, <<>>, NoWrite, b)
  BY <1>1 DEF Moves, Returned
<1>3. /\ \A m \in Loops \ {k} : /\ \A s \in Ends : Taken(m, s)' = Taken(m, s)
                                /\ Writing(m)' <=> Writing(m)
                                /\ wr'[m] = wr[m] /\ Rest(m)' = Rest(m)
      /\ \A s \in Ends : Taken(k, s)' = IF p = "cb" /\ Head(b).sock = s THEN <<>> ELSE <<>>
      /\ Writing(k)' <=> p \in {"send", "sent"}
  BY <1>2, LoopView
<1> QED BY <1>1, <1>3 DEF OthersSame

LEMMA BeginWriteView ==
  ASSUME LInv, NEW k \in Loops, NEW s \in Ends, NEW buf \in Seq(Nat),
         BeginWrite(k, s, buf), UNCHANGED <<batch, cb, arg>>
  PROVE  /\ OthersSame(k) /\ Writing(k)' /\ \A t \in Ends : Taken(k, t)' = <<>>
         /\ wr'[k].buf = buf /\ wr'[k].sent = 0 /\ Rest(k)' = buf
<1> DEFINE w == [sock |-> s, buf |-> buf, sent |-> 0]
<1>1. Moves(k, "send", arg[k], w, batch[k])
  BY Itself DEF Moves, BeginWrite
<1>2. w.buf = buf /\ w.sent = 0
  OBVIOUS
<1> HIDE DEF w
<1>3. /\ \A m \in Loops \ {k} : /\ \A t \in Ends : Taken(m, t)' = Taken(m, t)
                                /\ Writing(m)' <=> Writing(m)
                                /\ wr'[m] = wr[m] /\ Rest(m)' = Rest(m)
      /\ \A t \in Ends : Taken(k, t)' = IF "send" = "cb" /\ Head(batch[k]).sock = t THEN arg[k] ELSE <<>>
      /\ Writing(k)' <=> "send" \in {"send", "sent"}
      /\ wr'[k] = w /\ Rest(k)' = Drop(w.buf, w.sent)
  BY <1>1, LoopView
<1>4. Drop(buf, 0) = buf
  <2>1. 0 + 1 = 1
    OBVIOUS
  <2> QED BY <2>1, SubSeqFull DEF Drop
<1> QED BY <1>2, <1>3, <1>4 DEF OthersSame

FlowHolds == EchoConserved' /\ ClientWrites'

(* The threads have in hand what they had.  A byte may cross. *)
LEMMA QuietFlow ==
  ASSUME IInv, UNCHANGED data, Quiet,
         \/ \A s \in Ends : net'[s].snd = net[s].snd /\ net'[s].rcv = net[s].rcv
         \/ \E s \in Ends : Transfer(s)
  PROVE  FlowHolds
<1>1. /\ Taken(ServerLoop, Server)' = Taken(ServerLoop, Server)
      /\ Taken(ClientLoop, Client)' = Taken(ClientLoop, Client)
      /\ SentUp' = SentUp /\ Unsent' = Unsent
      /\ Writing(ClientLoop)' => Writing(ClientLoop) /\ wr'[ClientLoop] = wr[ClientLoop]
  BY TwoLoops, SocksOfEnds DEF Quiet, SentUp, Unsent, data
<1>2. ClientWrites'
  BY <1>1 DEF IInv, DInv, ClientWrites, Unwritten, data
<1>3. CASE \A s \in Ends : net'[s].snd = net[s].snd /\ net'[s].rcv = net[s].rcv
  BY <1>1, <1>2, <1>3, Flows, SocksOfEnds DEF FlowHolds, IInv, DInv, data
<1>4. ASSUME NEW s \in Ends, Transfer(s) PROVE FlowHolds
  <2> DEFINE p == Peer(s)
             d == net[s].snd
             c == net[p].rcv
             rd == received_data
             rm == received_msg
             ts == Taken(ServerLoop, Server)
             tc == Taken(ClientLoop, Client)
  <2>1. /\ p \in Ends /\ p # s /\ d # <<>>
        /\ net'[s].snd = Tail(d) /\ net'[s].rcv = net[s].rcv
        /\ net'[p].rcv = Append(c, Head(d)) /\ net'[p].snd = net[p].snd
    BY <1>4, TransferIs
  <2>3. rd \in Seq(Nat) /\ rm \in Seq(Nat) /\ ts \in Seq(Nat) /\ tc \in Seq(Nat) /\ d \in Seq(Nat) /\ c \in Seq(Nat)
    BY <2>1, Lanes, TwoLoops, SocksOfEnds
  <2>4. /\ UpFlow(rd, ts, net[Server].rcv, net[Client].snd, SentUp, large_message)
        /\ DownFlow(rm, tc, net[Client].rcv, net[Server].snd, Unsent, rd)
    BY Flows DEF IInv, DInv
  <2> HIDE DEF d, c, p, rd, rm, ts, tc
  <2>2. (s = Client /\ p = Server) \/ (s = Server /\ p = Client)
    BY <2>1 DEF Ends
  <2>5. /\ \A n, m : UpFlow(rd, ts, c, d, n, m) => UpFlow(rd, ts, Append(c, Head(d)), Tail(d), n, m)
        /\ \A u, r : DownFlow(rm, tc, c, d, u, r) => DownFlow(rm, tc, Append(c, Head(d)), Tail(d), u, r)
    BY <2>1, <2>3, FlowCross
  <2>6. CASE s = Client /\ p = Server
    <3>1. UpFlow(rd, ts, net'[Server].rcv, net'[Client].snd, SentUp, large_message)
      BY <2>1, <2>4, <2>5, <2>6 DEF c, d
    <3>2. DownFlow(rm, tc, net'[Client].rcv, net'[Server].snd, Unsent, rd)
      BY <2>1, <2>4, <2>6
    <3> QED BY <1>1, <1>2, <3>1, <3>2, Flows DEF FlowHolds, data, rd, rm, ts, tc
  <2>7. CASE s = Server /\ p = Client
    <3>1. DownFlow(rm, tc, net'[Client].rcv, net'[Server].snd, Unsent, rd)
      BY <2>1, <2>4, <2>5, <2>7 DEF c, d
    <3>2. UpFlow(rd, ts, net'[Server].rcv, net'[Client].snd, SentUp, large_message)
      BY <2>1, <2>4, <2>7
    <3> QED BY <1>1, <1>2, <3>1, <3>2, Flows DEF FlowHolds, data, rd, rm, ts, tc
  <2> QED BY <2>2, <2>6, <2>7
<1> QED BY <1>3, <1>4

(* The client writes. *)
LEMMA ClientFlow ==
  ASSUME IInv, ClientConnected \/ ClientSent \/ ClientConnectedEnd \/ ClientSentEnd
  PROVE  FlowHolds
<1> DEFINE k == ClientLoop
<1>0. LInv /\ AppTypeOK /\ ClientWrites /\ k \in Loops /\ ServerLoop \in Loops \ {k} /\ Client \in Ends /\ Server \in Ends
  BY TwoLoops, SocksOfEnds DEF IInv, DInv
<1>1. /\ OthersSame(k) /\ Taken(k, Client)' = Taken(k, Client)
      /\ SentUp' = SentUp /\ (Writing(k)' => wr'[k].buf = Unwritten')
      /\ UNCHANGED <<large_message, received_msg, received_data, pending_data, net>>
  <2>1. CASE ClientConnected \/ ClientSent
    <3>1. /\ at[k] = "cb" /\ cb[k] # "on_received" /\ BeginWrite(k, Client, Unwritten)
          /\ UNCHANGED <<batch, cb, arg, net, appVars>>
      BY <2>1 DEF ClientConnected, ClientSent, In
    <3>2. Unwritten \in Seq(Nat)
      BY <1>0, UnwrittenIs
    <3>3. /\ OthersSame(k) /\ Writing(k)' /\ Taken(k, Client)' = <<>>
          /\ wr'[k].buf = Unwritten /\ wr'[k].sent = 0
      BY <1>0, <3>1, <3>2, BeginWriteView
    <3>4. ~Writing(k) /\ Taken(k, Client) = <<>>
      BY <1>0, <3>1, Itself DEF Writing, Taken, Stands
    <3>5. total_sent + 0 = total_sent
      BY <1>0, UnwrittenIs
    <3>6. SentUp' = SentUp
      BY <3>1, <3>3, <3>4, <3>5 DEF SentUp, appVars
    <3> QED BY <3>1, <3>3, <3>4, <3>6 DEF appVars, Unwritten
  <2>2. CASE ClientConnectedEnd \/ ClientSentEnd
    <3>1. /\ at[k] = "sent" /\ cb[k] # "on_received" /\ ClientWrote(wr[k].sent) /\ Returned(k) /\ UNCHANGED net
      BY <2>2 DEF ClientConnectedEnd, ClientSentEnd, Out
    <3>2. OthersSame(k) /\ ~Writing(k)' /\ Taken(k, Client)' = <<>>
      BY <1>0, <3>1, ReturnedView
    <3>3. Writing(k) /\ Taken(k, Client) = <<>>
      BY <3>1 DEF Writing, Taken
    <3>4. total_sent' = SentUp /\ SentUp \in Nat /\ SentUp + 0 = SentUp
      <4>1. SentUp \in Nat
        BY Lanes
      <4> HIDE DEF k
      <4>2. total_sent' = SentUp
        BY <3>1, <3>3 DEF ClientWrote, SentUp, k
      <4> QED BY <4>1, <4>2
    <3>5. SentUp' = SentUp
      <4>1. SentUp' = total_sent' + 0
        BY <3>2 DEF SentUp
      <4> QED BY <3>4, <4>1
    <3> QED BY <3>1, <3>2, <3>3, <3>5 DEF ClientWrote
  <2> QED BY <2>1, <2>2
<1>2. Unsent' = Unsent /\ Taken(ServerLoop, Server)' = Taken(ServerLoop, Server)
  BY <1>0, <1>1 DEF OthersSame, Unsent
<1>3. ClientWrites'
  BY <1>1 DEF ClientWrites
<1> QED BY <1>1, <1>2, <1>3, Flows DEF FlowHolds, IInv, DInv

(* The client receives. *)
LEMMA ClientReceivedFlow ==
  ASSUME IInv, ClientReceived
  PROVE  FlowHolds
<1> DEFINE k == ClientLoop
           a == received_msg
           g == arg[k]
<1>0. LInv /\ k \in Loops /\ ServerLoop \in Loops \ {k} /\ Client \in Ends /\ Server \in Ends
  BY TwoLoops, SocksOfEnds DEF IInv, DInv
<1>1. /\ at[k] = "cb" /\ Cur(k) = Client /\ received_msg' = a \o g /\ Returned(k) /\ UNCHANGED net
      /\ UNCHANGED <<large_message, total_sent, received_data, pending_data>>
  BY DEF ClientReceived, ClientGot, In
<1>2. OthersSame(k) /\ ~Writing(k)' /\ Taken(k, Client)' = <<>>
  BY <1>0, <1>1, ReturnedView
<1>3. ~Writing(k) /\ Taken(k, Client) = g
  BY <1>1 DEF Writing, Taken
<1>4. SentUp' = SentUp /\ Unsent' = Unsent /\ Taken(ServerLoop, Server)' = Taken(ServerLoop, Server)
  BY <1>0, <1>1, <1>2, <1>3 DEF OthersSame, SentUp, Unsent
<1>5. a \in Seq(Nat) /\ g \in Seq(Nat)
  BY <1>0, Lanes, Itself
<1>6. /\ UpFlow(received_data, Taken(ServerLoop, Server), net[Server].rcv, net[Client].snd, SentUp, large_message)
      /\ DownFlow(a, g, net[Client].rcv, net[Server].snd, Unsent, received_data)
  BY <1>3, Flows DEF IInv, DInv
<1> HIDE DEF a, g
<1>7. DownFlow(a \o g, <<>>, net[Client].rcv, net[Server].snd, Unsent, received_data)
  BY <1>5, <1>6, FlowGot
<1>8. EchoConserved'
  BY <1>1, <1>2, <1>4, <1>6, <1>7, Flows
<1> QED BY <1>2, <1>8 DEF FlowHolds, ClientWrites

(* The server receives: it writes the bytes at once, or keeps them behind  *)
(* those that wait.                                                        *)
LEMMA ServerReceivedFlow ==
  ASSUME IInv, ServerReceived
  PROVE  FlowHolds
<1> DEFINE k == ServerLoop
           a == received_data
           g == arg[k]
           u == pending_data
<1>0. /\ LInv /\ k \in Loops /\ ClientLoop \in Loops \ {k} /\ Client \in Ends /\ Server \in Ends
      /\ ClientWrites
  BY TwoLoops, SocksOfEnds DEF IInv, DInv
<1>1. /\ at[k] = "cb" /\ Cur(k) = Server /\ received_data' = a \o g /\ UNCHANGED net
      /\ UNCHANGED <<large_message, total_sent, received_msg>>
  BY DEF ServerReceived, ServerGot, In
<1>3. ~Writing(k) /\ Taken(k, Server) = g /\ Unsent = u
  BY <1>1 DEF Writing, Taken, Unsent
<1>5. /\ a \in Seq(Nat) /\ g \in Seq(Nat) /\ u \in Seq(Nat) /\ received_msg \in Seq(Nat)
      /\ Taken(ClientLoop, Client) \in Seq(Nat)
      /\ net[Client].rcv \in Seq(Nat) /\ net[Server].snd \in Seq(Nat)
  BY <1>0, Lanes, Itself
<1>6. /\ UpFlow(a, g, net[Server].rcv, net[Client].snd, SentUp, large_message)
      /\ DownFlow(received_msg, Taken(ClientLoop, Client), net[Client].rcv, net[Server].snd, u, a)
  BY <1>3, Flows DEF IInv, DInv
<1>2. OthersSame(k) /\ Taken(k, Server)' = <<>> /\ Unsent' = u \o g
  <2>1. CASE u = <<>>
    <3>1. BeginWrite(k, Server, g) /\ UNCHANGED <<batch, cb, arg>>
      BY <2>1 DEF ServerReceived
    <3>2. OthersSame(k) /\ Writing(k)' /\ Taken(k, Server)' = <<>> /\ Rest(k)' = g
      BY <1>0, <1>5, <3>1, BeginWriteView
    <3>3. <<>> \o g = g
      BY <1>5, ConcatEmptySeq
    <3> QED BY <2>1, <3>2, <3>3 DEF Unsent
  <2>2. CASE u # <<>>
    <3>1. Returned(k) /\ pending_data' = u \o g
      BY <2>2 DEF ServerReceived, ServerGot
    <3>2. OthersSame(k) /\ ~Writing(k)' /\ Taken(k, Server)' = <<>>
      BY <1>0, <3>1, ReturnedView
    <3> QED BY <3>1, <3>2 DEF Unsent
  <2> QED BY <2>1, <2>2
<1>4. SentUp' = SentUp /\ Taken(ClientLoop, Client)' = Taken(ClientLoop, Client)
  BY <1>0, <1>1, <1>2 DEF OthersSame, SentUp
<1> HIDE DEF a, g, u
<1>7. UpFlow(a \o g, <<>>, net[Server].rcv, net[Client].snd, SentUp, large_message)
  BY <1>5, <1>6, FlowGot
<1>8. DownFlow(received_msg, Taken(ClientLoop, Client), net[Client].rcv, net[Server].snd, u \o g, a \o g)
  BY <1>5, <1>6, FlowKeep
<1>9. EchoConserved'
  BY <1>1, <1>2, <1>4, <1>7, <1>8, Flows
<1>10. ClientWrites'
  BY <1>0, <1>1, <1>2 DEF OthersSame, ClientWrites, Unwritten
<1> QED BY <1>9, <1>10 DEF FlowHolds

(* The server writes what it kept, and keeps what write did not take.      *)
LEMMA ServerFlow ==
  ASSUME IInv, (ServerSent /\ pending_data # <<>>) \/ ServerReceivedEnd \/ ServerSentEnd
  PROVE  FlowHolds
<1> DEFINE k == ServerLoop
<1>0. LInv /\ AppTypeOK /\ k \in Loops /\ ClientLoop \in Loops \ {k} /\ Client \in Ends /\ Server \in Ends /\ ClientWrites
  BY TwoLoops, SocksOfEnds DEF IInv, DInv
<1>1. /\ OthersSame(k) /\ Unsent' = Unsent /\ Taken(k, Server)' = Taken(k, Server)
      /\ UNCHANGED <<large_message, total_sent, received_msg, received_data, net>>
  <2>1. CASE ServerSent /\ pending_data # <<>>
    <3>1. /\ at[k] = "cb" /\ cb[k] # "on_received" /\ BeginWrite(k, Server, pending_data)
          /\ UNCHANGED <<batch, cb, arg, net, appVars>> /\ pending_data \in Seq(Nat)
      BY <1>0, <2>1 DEF ServerSent, In, AppTypeOK
    <3>2. OthersSame(k) /\ Writing(k)' /\ Taken(k, Server)' = <<>> /\ Rest(k)' = pending_data
      BY <1>0, <3>1, BeginWriteView
    <3>3. ~Writing(k) /\ Taken(k, Server) = <<>>
      BY <1>0, <3>1, Itself DEF Writing, Taken, Stands
    <3> QED BY <3>1, <3>2, <3>3 DEF Unsent, appVars
  <2>2. CASE ServerReceivedEnd \/ ServerSentEnd
    <3>1. at[k] = "sent" /\ ServerKeeps(Rest(k)) /\ Returned(k) /\ UNCHANGED net
      BY <2>2 DEF ServerReceivedEnd, ServerSentEnd, Out
    <3>2. OthersSame(k) /\ ~Writing(k)' /\ Taken(k, Server)' = <<>>
      BY <1>0, <3>1, ReturnedView
    <3>3. Writing(k) /\ Taken(k, Server) = <<>>
      BY <3>1 DEF Writing, Taken
    <3> QED BY <3>1, <3>2, <3>3 DEF Unsent, ServerKeeps
  <2> QED BY <2>1, <2>2
<1>2. SentUp' = SentUp /\ Taken(ClientLoop, Client)' = Taken(ClientLoop, Client)
  BY <1>0, <1>1 DEF OthersSame, SentUp
<1>3. ClientWrites'
  BY <1>0, <1>1 DEF OthersSame, ClientWrites, Unwritten
<1> QED BY <1>1, <1>2, <1>3, Flows DEF FlowHolds, IInv, DInv

(* recv: bytes pass from the kernel's buffer into the hand of the thread.  *)
LEMMA DataFlow ==
  ASSUME IInv, UNCHANGED data, NEW l \in Loops, HandleData(l)
  PROVE  FlowHolds
<1> DEFINE s == Cur(l)
           g == arg'[l]
           q == net'[s].rcv
           r == net[s].rcv
           rd == received_data
           rm == received_msg
<1>0. LInv /\ LinkTypes /\ ClientWrites
  BY DEF IInv, DInv
<1>1. /\ s \in Ends /\ net'[s].snd = net[s].snd /\ \A t \in Ends \ {s} : net'[t] = net[t]
      /\ g \in Seq(Nat) /\ g \o q = r /\ net' \in [Ends -> End]
  BY <1>0, DataNet
<1>2. LoopOf[s] = l
  <2>1. batch[l] # <<>>
    BY <1>0, Itself DEF HandleData, AtIn, Stands
  <2> QED BY <1>0, <2>1, HeadEntry
<1>3. /\ at[l] = "EPOLLIN" /\ at' = [at EXCEPT ![l] = "cb"] /\ UNCHANGED <<batch, wr>>
  BY DEF HandleData, AtIn, Receives
<1>4. PICK a : arg' = [arg EXCEPT ![l] = a]
  BY DEF HandleData
<1>5. arg'[l] = a /\ g = a
  BY <1>0, <1>4 DEF LInv, LoopTypes
<1>6. Moves(l, "cb", a, wr[l], batch[l])
  BY <1>0, <1>3, <1>4, Itself DEF Moves
<1>7. /\ \A m \in Loops \ {l} : /\ \A t \in Ends : Taken(m, t)' = Taken(m, t)
                                /\ Writing(m)' <=> Writing(m)
                                /\ wr'[m] = wr[m] /\ Rest(m)' = Rest(m)
      /\ \A t \in Ends : Taken(l, t)' = IF "cb" = "cb" /\ Head(batch[l]).sock = t THEN a ELSE <<>>
      /\ Writing(l)' <=> "cb" \in {"send", "sent"}
  BY <1>0, <1>6, LoopView
<1>8. /\ \A t \in Ends : t = s => Taken(l, t)' = g
      /\ Taken(l, s) = <<>> /\ ~Writing(l)' /\ ~Writing(l)
  BY <1>1, <1>3, <1>5, <1>7 DEF Taken, Writing, Cur
<1>9. SentUp' = SentUp /\ Unsent' = Unsent
  BY <1>7, <1>8, TwoLoops DEF SentUp, Unsent, data
<1>10. ClientWrites'
  BY <1>0, <1>7, <1>8, TwoLoops DEF ClientWrites, Unwritten, data
<1>11. /\ rd \in Seq(Nat) /\ rm \in Seq(Nat) /\ r \in Seq(Nat) /\ q \in Seq(Nat)
  BY <1>1, Lanes DEF End
<1>12. /\ UpFlow(rd, Taken(ServerLoop, Server), net[Server].rcv, net[Client].snd, SentUp, large_message)
       /\ DownFlow(rm, Taken(ClientLoop, Client), net[Client].rcv, net[Server].snd, Unsent, rd)
  BY Flows DEF IInv, DInv
<1> HIDE DEF s, g, q, r, rd, rm
<1>13. (s = Client /\ l = ClientLoop) \/ (s = Server /\ l = ServerLoop)
  BY <1>1, <1>2, TwoLoops DEF Ends
<1>14. /\ \A x, n, m : UpFlow(rd, <<>>, r, x, n, m) => UpFlow(rd, g, q, x, n, m)
       /\ \A x, u, y : DownFlow(rm, <<>>, r, x, u, y) => DownFlow(rm, g, q, x, u, y)
  BY <1>1, <1>11, FlowRecv
<1>15. CASE s = Client /\ l = ClientLoop
  <2>1. DownFlow(rm, g, q, net[Server].snd, Unsent, rd)
    BY <1>8, <1>12, <1>14, <1>15 DEF r
  <2>2. Taken(ServerLoop, Server)' = Taken(ServerLoop, Server) /\ net'[Server] = net[Server]
    BY <1>1, <1>7, <1>15, TwoLoops, SocksOfEnds
  <2>3. /\ received_data' = rd /\ received_msg' = rm /\ large_message' = large_message
        /\ net'[Client].rcv = q /\ net'[Client].snd = net[Client].snd /\ Taken(ClientLoop, Client)' = g
    <3>1. received_data' = rd /\ received_msg' = rm /\ large_message' = large_message
      BY DEF data, rd, rm
    <3>2. net'[s].rcv = q
      BY DEF q
    <3>3. net'[s].snd = net[s].snd
      BY <1>1
    <3>4. Taken(ClientLoop, Client)' = g
      BY <1>1, <1>8, <1>15
    <3> QED BY <1>15, <3>1, <3>2, <3>3, <3>4
  <2>4. UpFlow(rd, Taken(ServerLoop, Server), net[Server].rcv, net[Client].snd, SentUp, large_message)
    BY <1>12
  <2>5. EchoConserved'
    BY <1>9, <2>1, <2>2, <2>3, <2>4, Flows
  <2> QED BY <1>10, <2>5 DEF FlowHolds
<1>16. CASE s = Server /\ l = ServerLoop
  <2>1. UpFlow(rd, g, q, net[Client].snd, SentUp, large_message)
    BY <1>8, <1>12, <1>14, <1>16 DEF r
  <2>2. Taken(ClientLoop, Client)' = Taken(ClientLoop, Client) /\ net'[Client] = net[Client]
    BY <1>1, <1>7, <1>16, TwoLoops, SocksOfEnds
  <2>3. /\ received_data' = rd /\ received_msg' = rm /\ large_message' = large_message
        /\ net'[Server].rcv = q /\ net'[Server].snd = net[Server].snd /\ Taken(ServerLoop, Server)' = g
    <3>1. received_data' = rd /\ received_msg' = rm /\ large_message' = large_message
      BY DEF data, rd, rm
    <3>2. net'[s].rcv = q
      BY DEF q
    <3>3. net'[s].snd = net[s].snd
      BY <1>1
    <3>4. Taken(ServerLoop, Server)' = g
      BY <1>1, <1>8, <1>16
    <3> QED BY <1>16, <3>1, <3>2, <3>3, <3>4
  <2>4. DownFlow(rm, Taken(ClientLoop, Client), net[Client].rcv, net[Server].snd, Unsent, rd)
    BY <1>12
  <2>5. EchoConserved'
    BY <1>9, <2>1, <2>2, <2>3, <2>4, Flows
  <2> QED BY <1>10, <2>5 DEF FlowHolds
<1> QED BY <1>13, <1>15, <1>16

(* send: bytes pass from what is left to write into the kernel's buffer.   *)
LEMMA SendFlow ==
  ASSUME IInv, UNCHANGED data, NEW l \in Loops, SendSome(l)
  PROVE  FlowHolds
<1> DEFINE v == wr[l]
           s == v.sock
           k == Amount(l)
           c == Counted(l)
           x == SubSeq(Rest(l), 1, k)
           w == [v EXCEPT !.sent = c]
           o == net[s].snd
           u == Drop(v.buf, c)
           rd == received_data
           rm == received_msg
           m == large_message
<1>0. LInv /\ LinkTypes /\ ClientWrites /\ AppTypeOK
  BY DEF IInv, DInv
<1>1. /\ s \in Ends /\ net' \in [Ends -> End] /\ net'[s].rcv = net[s].rcv
      /\ \A t \in Ends \ {s} : net'[t] = net[t]
      /\ x \in Seq(Nat) /\ net'[s].snd = o \o x
  BY <1>0, SendNet
<1>2. /\ v \in Write /\ v.buf \in Seq(Nat) /\ v.sent \in Nat /\ v.sent <= Len(v.buf)
      /\ Rest(l) \in Seq(Nat) /\ Len(Rest(l)) = Len(v.buf) - v.sent
      /\ k \in Nat /\ k <= Len(Rest(l)) /\ c = v.sent + k /\ c <= Len(v.buf)
  BY <1>0, AmountIs DEF Counted
<1>3. at[l] = "send" /\ wr' = [wr EXCEPT ![l] = w] /\ UNCHANGED <<at, batch, arg>>
  BY DEF SendSome
<1>4. LoopOf[s] = l
  <2>1. batch[l] # <<>> /\ s = Cur(l)
    BY <1>0, <1>3, Itself DEF Stands, Cur
  <2> QED BY <1>0, <2>1, HeadEntry
<1>5. w.buf = v.buf /\ w.sent = c
  <2> HIDE DEF v, c
  <2> QED BY <1>2 DEF Write
<1>6. Moves(l, at[l], arg[l], w, batch[l])
  BY <1>0, <1>3, Itself DEF Moves
<1>7. Rest(l) = SubSeq(v.buf, v.sent + 1, Len(v.buf)) /\ u = SubSeq(v.buf, c + 1, Len(v.buf))
  BY DEF Rest, Drop
<1> HIDE DEF w, x, c, k
<1>8. /\ \A n \in Loops \ {l} : /\ \A t \in Ends : Taken(n, t)' = Taken(n, t)
                                /\ Writing(n)' <=> Writing(n)
                                /\ wr'[n] = wr[n] /\ Rest(n)' = Rest(n)
      /\ \A t \in Ends : Taken(l, t)' = IF at[l] = "cb" /\ Head(batch[l]).sock = t THEN arg[l] ELSE <<>>
      /\ Writing(l)' <=> at[l] \in {"send", "sent"}
      /\ wr'[l] = w /\ Rest(l)' = Drop(w.buf, w.sent)
  BY <1>0, <1>6, LoopView
<1>9. /\ Writing(l) /\ Writing(l)' /\ Taken(l, s)' = <<>> /\ Taken(l, s) = <<>>
      /\ wr'[l].buf = v.buf /\ wr'[l].sent = c /\ Rest(l)' = u
  BY <1>1, <1>3, <1>5, <1>8 DEF Taken, Writing
<1>10. x \o u = Rest(l) /\ u \in Seq(Nat)
  <2> DEFINE b == v.buf
             n == v.sent
             d == Rest(l)
             e == SubSeq(d, k + 1, Len(d))
             j == n + k
  <2>0. d = SubSeq(b, n + 1, Len(b)) /\ u = SubSeq(b, c + 1, Len(b))
    BY <1>7
  <2> HIDE DEF b, n, d, u
  <2>1. /\ b \in Seq(Nat) /\ n \in Nat /\ k \in Nat /\ c = j /\ j <= Len(b) /\ j \in Nat
        /\ d \in Seq(Nat) /\ k <= Len(d)
    BY <1>2 DEF b, n, d
  <2>2. x = SubSeq(d, 1, k)
    BY DEF x, d
  <2>3. SubSeq(d, 1, k) \o e = d
    BY <2>1, Pieces
  <2>4. e = u
    BY <2>0, <2>1, Drops
  <2>5. u \in Seq(Nat)
    <3> HIDE DEF j
    <3> QED BY <2>0, <2>1, Pieces
  <2> QED BY <2>2, <2>3, <2>4, <2>5 DEF d
<1>11. ClientWrites'
  BY <1>0, <1>8, <1>9, TwoLoops DEF ClientWrites, Unwritten, data
<1>12. /\ UpFlow(rd, Taken(ServerLoop, Server), net[Server].rcv, net[Client].snd, SentUp, m)
       /\ DownFlow(rm, Taken(ClientLoop, Client), net[Client].rcv, net[Server].snd, Unsent, rd)
  BY Flows DEF IInv, DInv
<1>13. /\ rd \in Seq(Nat) /\ rm \in Seq(Nat) /\ o \in Seq(Nat)
       /\ Taken(ServerLoop, Server) \in Seq(Nat) /\ Taken(ClientLoop, Client) \in Seq(Nat)
       /\ net[Server].rcv \in Seq(Nat) /\ net[Client].rcv \in Seq(Nat)
       /\ SentUp \in Nat
  BY <1>1, Lanes, TwoLoops, SocksOfEnds
<1>14. m \in Seq(Nat) /\ Len(m) \in Nat /\ total_sent \in Nat /\ total_sent <= Len(m)
       /\ Len(Unwritten) = Len(m) - total_sent
  BY <1>0, UnwrittenIs
<1> HIDE DEF u, o, s, v, rd, rm, m
<1>15. (s = Client /\ l = ClientLoop) \/ (s = Server /\ l = ServerLoop)
  BY <1>1, <1>4, TwoLoops DEF Ends
<1>16. CASE s = Client /\ l = ClientLoop
  <2> DEFINE a == total_sent
             b == v.sent
  <2>1. SentUp = a + b /\ SentUp' = a + c
    BY <1>9, <1>16 DEF SentUp, v, data
  <2>2. v.buf = SubSeq(m, a + 1, Len(m)) /\ Len(v.buf) = Len(m) - a
    BY <1>0, <1>9, <1>14, <1>16 DEF ClientWrites, Unwritten, v, m
  <2>3. a \in Nat /\ b \in Nat /\ k \in Nat /\ a + b <= Len(m) /\ a + b + k <= Len(m) /\ SentUp' = SentUp + k
    <3> HIDE DEF a, b
    <3>1. a \in Nat /\ b \in Nat /\ k \in Nat /\ Len(m) \in Nat /\ c = b + k /\ c <= Len(m) - a
      BY <1>2, <1>14, <2>2 DEF a, b
    <3>2. \A i, j, h, n \in Nat : j + h <= n - i => i + j <= n /\ i + j + h <= n /\ i + (j + h) = i + j + h
      OBVIOUS
    <3> QED BY <2>1, <3>1, <3>2
  <2>4. Rest(l) = SubSeq(m, a + b + 1, Len(m))
    <3> HIDE DEF a, b
    <3> DEFINE d == SubSeq(m, a + 1, Len(m))
    <3>1. Rest(l) = SubSeq(d, b + 1, Len(d))
      BY <1>7, <2>2 DEF b
    <3> QED BY <1>14, <2>3, <3>1, Drops
  <2> HIDE DEF a, b
  <2>5. x = SubSeq(SubSeq(m, SentUp + 1, Len(m)), 1, k)
    BY <2>1, <2>4 DEF x
  <2>6. UpFlow(rd, Taken(ServerLoop, Server), net[Server].rcv, o, SentUp, m)
    BY <1>12, <1>16 DEF o
  <2>7. SentUp + k <= Len(m)
    BY <2>1, <2>3
  <2>8. UpFlow(rd, Taken(ServerLoop, Server), net[Server].rcv, o \o x, SentUp + k, m)
    BY <1>1, <1>13, <1>14, <2>3, <2>5, <2>6, <2>7, FlowSend
  <2>9. /\ Taken(ServerLoop, Server)' = Taken(ServerLoop, Server) /\ net'[Server] = net[Server]
        /\ Unsent' = Unsent /\ Taken(ClientLoop, Client)' = Taken(ClientLoop, Client)
    BY <1>1, <1>8, <1>9, <1>16, TwoLoops, SocksOfEnds DEF Unsent, data
  <2>10. EchoConserved'
    BY <1>1, <1>12, <1>16, <2>3, <2>8, <2>9, Flows DEF data, rd, rm, m
  <2> QED BY <1>11, <2>10 DEF FlowHolds
<1>17. CASE s = Server /\ l = ServerLoop
  <2>1. DownFlow(rm, Taken(ClientLoop, Client), net[Client].rcv, o, Rest(l), rd)
    BY <1>9, <1>12, <1>17 DEF o, Unsent
  <2>2. DownFlow(rm, Taken(ClientLoop, Client), net[Client].rcv, o \o x, u, rd)
    BY <1>1, <1>10, <1>13, <2>1, FlowSend
  <2>3. /\ Taken(ClientLoop, Client)' = Taken(ClientLoop, Client) /\ net'[Client] = net[Client]
        /\ Unsent' = u /\ SentUp' = SentUp /\ Taken(ServerLoop, Server)' = Taken(ServerLoop, Server)
    BY <1>1, <1>8, <1>9, <1>17, TwoLoops, SocksOfEnds DEF Unsent, SentUp, data
  <2>4. EchoConserved'
    BY <1>1, <1>12, <1>17, <2>2, <2>3, Flows DEF data, rd, rm, m
  <2> QED BY <1>11, <2>4 DEF FlowHolds
<1> QED BY <1>15, <1>16, <1>17

LEMMA EchoHolds ==
  ASSUME IInv, [Next]_vars
  PROVE  FlowHolds
<1>0. LInv /\ LinkTypes
  BY DEF IInv, DInv
<1>1. ASSUME Quiet, UNCHANGED data, NetSame \/ (\E s \in Ends : Transfer(s) \/ DeliverFin(s) \/ Closes(s))
      PROVE  FlowHolds
  <2>1. ASSUME NEW s \in Ends, DeliverFin(s)
        PROVE  \A t \in Ends : net'[t].snd = net[t].snd /\ net'[t].rcv = net[t].rcv
    BY <1>0, <2>1, FinIs
  <2> QED BY <1>1, <2>1, QuietFlow DEF NetSame, Closes
<1>2. ASSUME NEW l \in Loops, LoopStep(l), UNCHANGED appVars PROVE FlowHolds
  <2>1. UNCHANGED data
    BY <1>2 DEF appVars, data
  <2>2. CASE HandleData(l) \/ SendSome(l)
    BY <2>1, <2>2, DataFlow, SendFlow
  <2>3. CASE QuietLoopStep(l)
    <3>1. \/ HandleOut(l) \/ HandleRecvError(l) \/ SendFails(l) \/ UNCHANGED net
      BY <2>3 DEF QuietLoopStep, Poll, Dispatch, SkipOut, SkipIn, HandleAccept, HandleEof, SendNothing, SendBlocks
    <3> QED BY <1>0, <1>1, <2>1, <2>3, <3>1, QuietLoop, ErrSteps
  <2> QED BY <1>2, <2>2, <2>3 DEF LoopStep, QuietLoopStep
<1>3. ASSUME NEW l \in Loops, App(l) PROVE FlowHolds
  <2>1. CASE QuietAppStep(l)
    <3>1. UNCHANGED data
      BY <2>1 DEF QuietAppStep, StartServer, StartClient, EnterLoop, ClientDisconnected, ClientClose, ServerAccepted,
                  ServerDisconnected, SessionBecomes, ServerSent, appVars, data
    <3>2. ClientClose \/ ServerDisconnected \/ UNCHANGED net
      BY <2>1 DEF QuietAppStep, StartServer, StartClient, EnterLoop, Listen, Connect, Enter, ClientDisconnected,
                  ServerAccepted, ServerSent
    <3> QED BY <1>0, <1>1, <2>1, <3>1, <3>2, QuietApp, ClosingIs, ErrSteps
  <2>2. CASE ~QuietAppStep(l)
    BY <1>3, <2>2, ClientFlow, ClientReceivedFlow, ServerReceivedFlow, ServerFlow
       DEF App, ClientApp, ServerApp, QuietAppStep
  <2> QED BY <2>1, <2>2
<1>4. CASE Net \/ UNCHANGED vars
  <2>1. UNCHANGED <<at, batch, arg, wr>> /\ UNCHANGED data
    BY <1>4 DEF Net, Kernel, KernelOnly, vars, sockVars, appVars, data
  <2>2. Quiet
    BY <2>1 DEF Quiet, Taken, Writing, Rest, Drop, Cur
  <2>3. Refuse \/ UNCHANGED net \/ \E s \in Ends : Transfer(s) \/ DeliverFin(s)
    BY <1>4 DEF Net, Kernel, LinkStep, Establish, vars, sockVars, linkVars
  <2> QED BY <1>0, <1>1, <2>1, <2>2, <2>3, TwoLoops, ErrSteps
<1> QED BY <1>2, <1>3, <1>4 DEF Next, Thread

-----------------------------------------------------------------------------
(* The theorems *)

LEMMA DInvInit == Init => DInv
<1> SUFFICES ASSUME Init PROVE DInv
  OBVIOUS
<1>0. SocketInit /\ LinkInit /\ AppInit
  BY DEF Init, SocketInit
<1>1. <<>> \in Seq(Nat) /\ Len(<<>>) = 0
  OBVIOUS
<1>2. LinkTypes
  <2> DEFINE e == [snd |-> <<>>, rcv |-> <<>>, closed |-> FALSE, eof |-> FALSE, reset |-> FALSE, err |-> FALSE]
  <2>1. e \in End /\ e.snd = <<>> /\ e.rcv = <<>>
    BY <1>1 DEF End
  <2>2. net = [s \in Ends |-> e] /\ link = "none"
    BY <1>0 DEF LinkInit
  <2> HIDE DEF e
  <2> QED BY <1>1, <2>1, <2>2 DEF LinkTypes
<1>3. AppTypeOK
  <2>1. large_message \in Seq(Nat) /\ Len(large_message) \in Nat
    BY <1>0, LenProperties DEF AppInit
  <2>2. 0 \in 0..Len(large_message)
    BY <2>1
  <2> QED BY <1>0, <1>1, <2>2 DEF AppInit, AppTypeOK
<1>4. /\ \A l \in Loops : at[l] = "out" /\ cb[l] = "none"
      /\ \A s \in Ends : /\ net[s].snd = <<>> /\ net[s].rcv = <<>>
                         /\ ~net[s].closed /\ ~net[s].eof /\ ~net[s].reset
  BY <1>0 DEF SocketInit, LinkInit
<1>5. ClientWrites
  BY <1>4, TwoLoops DEF ClientWrites, Writing
<1>6. Endings
  BY <1>4, TwoLoops, SocksOfEnds DEF Endings
<1>7. EchoConserved
  <2>1. /\ Taken(ServerLoop, Server) = <<>> /\ Taken(ClientLoop, Client) = <<>>
        /\ Unsent = <<>> /\ SentUp = 0 /\ received_msg = <<>> /\ received_data = <<>>
    BY <1>0, <1>4, TwoLoops DEF Taken, Unsent, SentUp, Writing, AppInit
  <2>2. <<>> \o <<>> \o <<>> \o <<>> = <<>> /\ <<>> \o <<>> \o <<>> \o <<>> \o <<>> = <<>>
    BY <1>1, ConcatEmptySeq
  <2>3. SubSeq(large_message, 1, 0) = <<>>
    BY SubSeqEmpty
  <2> QED BY <1>4, <2>1, <2>2, <2>3, Flows, SocksOfEnds DEF UpFlow, DownFlow
<1> QED BY <1>2, <1>3, <1>5, <1>6, <1>7 DEF DInv

(* The invariant holds in every reachable state of the echo on Linux.      *)
THEOREM Invariance == Spec => []IInv
<1>1. Init => IInv
  BY LInvInit, DInvInit DEF IInv
<1>2. IInv /\ [Next]_vars => IInv'
  <2> SUFFICES ASSUME IInv, [Next]_vars PROVE IInv'
    OBVIOUS
  <2>1. LInv'
    BY LInvStep
  <2>2. LinkTypes' /\ NetEndings' /\ LoopEndings' /\ AppTypeOK' /\ FlowHolds
    BY NetHolds, LoopEndingsHold, AppTypesHold, EchoHolds
  <2>3. Endings'
    BY <2>2 DEF Endings, NetEndings, LoopEndings
  <2> QED BY <2>1, <2>2, <2>3 DEF IInv, DInv, FlowHolds
<1> QED BY <1>1, <1>2, PTL DEF Spec

(* Every variable keeps its type, the kernel's buffers their bounds, and   *)
(* so_write never counts more than it was given.                           *)
THEOREM TypeCorrect == Spec => []TypeOK
<1>1. IInv => TypeOK
  <2> SUFFICES ASSUME IInv PROVE TypeOK
    OBVIOUS
  <2>1. LInv /\ LinkTypes /\ AppTypeOK
    BY DEF IInv, DInv
  <2>2. LinkTypeOK
    <3> SUFFICES ASSUME NEW s \in Ends
                 PROVE  /\ Len(net[s].snd) \in 0..SndCap /\ Len(net[s].rcv) \in 0..RcvCap
                        /\ {net[s].closed, net[s].eof, net[s].reset, net[s].err} \subseteq BOOLEAN
      BY <2>1 DEF LinkTypeOK, LinkTypes
    <3>1. net[s] \in End /\ Len(net[s].snd) <= SndCap /\ Len(net[s].rcv) <= RcvCap
      BY <2>1 DEF LinkTypes
    <3>2. Len(net[s].snd) \in Nat /\ Len(net[s].rcv) \in Nat
      BY <3>1, LenProperties DEF End
    <3>3. {net[s].closed, net[s].eof, net[s].reset, net[s].err} \subseteq BOOLEAN
      BY <3>1 DEF End
    <3> QED BY <3>1, <3>2, <3>3
  <2>3. ASSUME NEW l \in Loops
        PROVE  /\ wr[l].sock \in Ends /\ wr[l].buf \in Seq(Nat) /\ wr[l].sent \in 0..Len(wr[l].buf)
               /\ arg[l] \in Seq(Nat)
    <3>1. wr[l] \in Write /\ wr[l].sent <= Len(wr[l].buf) /\ arg[l] \in Seq(Nat)
      BY <2>1, Itself DEF Stands, LInv, LoopTypes
    <3>2. wr[l].sock \in Ends /\ wr[l].buf \in Seq(Nat) /\ wr[l].sent \in Nat
      BY <3>1 DEF Write
    <3>3. Len(wr[l].buf) \in Nat
      BY <3>2, LenProperties
    <3> QED BY <3>1, <3>2, <3>3
  <2>4. SocketTypeOK
    BY <2>1, <2>2, <2>3 DEF SocketTypeOK, LInv, Sockets, Sock, LoopTypes, Places, Callbacks
  <2> QED BY <2>1, <2>4 DEF TypeOK
<1> QED BY <1>1, Invariance, PTL

(* A socket whose last send found the kernel's buffer full stays armed for *)
(* EPOLLOUT until there is room (write_enabled_ and set_events).           *)
THEOREM WriteIsAsked == Spec => []WriteInterest
<1>1. IInv => WriteInterest
  BY DEF IInv, LInv, Sockets
<1> QED BY <1>1, Invariance, PTL

(* handle_event goes on with no socket that a callback has destroyed.      *)
THEOREM NoneAfterDestroy == Spec => []NoUseAfterDestroy
<1>1. IInv => NoUseAfterDestroy
  <2> SUFFICES ASSUME IInv, NEW l \in Loops,
                      at[l] \in {"EPOLLOUT", "EPOLLIN", "send"}
               PROVE  /\ sock[Cur(l)].alive
                      /\ at[l] = "send" => wr[l].sock = Cur(l)
    BY DEF NoUseAfterDestroy
  <2>1. LInv
    BY DEF IInv
  <2>2. batch[l] # <<>> /\ (at[l] = "send" => wr[l].sock = Cur(l))
    BY <2>1, Itself DEF Stands, Cur
  <2> QED BY <2>1, <2>2, HeadEntry
<1> QED BY <1>1, Invariance, PTL

(* No byte of the echo is lost, repeated or reordered, whatever part of a  *)
(* write or a recv the kernel takes or gives: at every moment each is at   *)
(* one place on its way (so_write, handle_event and the pending data of    *)
(* the session).                                                           *)
THEOREM EchoIsConserved == Spec => []EchoConserved
<1>1. IInv => EchoConserved
  BY DEF IInv, DInv
<1> QED BY <1>1, Invariance, PTL

(* The client, which sets no on_disconnected, never reaches its call once  *)
(* it has been connected.                                                  *)
THEOREM ClientRunsOn == Spec => []ClientNeverThrows
<1>1. IInv => ClientNeverThrows
  <2> SUFFICES ASSUME IInv, link # "refused", at[ClientLoop] = "threw" PROVE FALSE
    BY DEF ClientNeverThrows
  <2>1. cb[ClientLoop] = "on_disconnected"
    BY Itself, TwoLoops DEF IInv, Stands
  <2> QED BY <2>1 DEF IInv, DInv, Endings
<1> QED BY <1>1, Invariance, PTL
=============================================================================
