-------------------------- MODULE SslStreamProofs --------------------------
(***************************************************************************)
(* Proofs about SslStream, for every transport, size of the BIOs, message  *)
(* and application: its types, that nothing the transport hands over is    *)
(* lost, that the applications see each other's data in order, and that a  *)
(* close is told to those who have everything.                             *)
(*                                                                         *)
(* What is on its way to an end is one sequence of cells, wherever it is:  *)
(* given to OpenSSL, in the transport, or stuck at the peer.  Its shape is *)
(* at most one record of the handshake, then data, then at most one        *)
(* close_notify (Stream).  Over a synchronous transport the proof follows  *)
(* who runs: the handlers below the running one have stopped where they    *)
(* write (Paused), and what is written is one record, taken before the     *)
(* next (OneRecord).                                                       *)
(***************************************************************************)
EXTENDS SslStream, SequenceLemmas, WellFoundedInduction, TLAPS

Cells == [type : {"hs", "app", "close"}, v : Nat, last : BOOLEAN]

(* Where a handler may be while another one runs: where it has written.    *)
Pauses == {"idle", "announce", "app", "report"}
Frames == [end : Ends, at : Pauses, tail : BOOLEAN, outbox : Seq(Seq(Nat))]

Types ==
    /\ TypeOK
    /\ transport \in Transports
    /\ in \in [Ends -> Seq(Cells)] /\ wire \in [Ends -> Seq(Cells)] /\ stuck \in [Ends -> Seq(Cells)]
    /\ unread \in [Ends -> Nat]
    /\ arg \in [Ends -> Seq(Nat)] /\ wrote \in [Ends -> Seq(Nat)] /\ received \in [Ends -> Seq(Nat)]
    /\ outbox \in [Ends -> Seq(Seq(Nat))]
    /\ stack \in Seq(Frames)
    /\ dropped \in Nat

-----------------------------------------------------------------------------
(* The stream towards each end *)

Near(e) == in[e] \o wire[Peer(e)]
Way(e) == Near(e) \o stuck[Peer(e)]

(* h cells of a record of the handshake, the data d, c cells of close.     *)
Shape(q, h, d, c) ==
    /\ Len(q) = h + Len(d) + c
    /\ \A i \in 1 .. Len(q) :
          /\ i <= h => q[i].type = "hs" /\ (q[i].last <=> i = h)
          /\ h < i /\ i <= h + Len(d) => q[i].type = "app" /\ q[i].v = d[i - h]
          /\ h + Len(d) < i => q[i].type = "close" /\ q[i].last
          /\ i = h + Len(d) => q[i].last

(* The handshake: who has answered whom. *)
Stage(e) == ssl[e].stage
Phases == {<<"start", "start">>, <<"wait", "start">>, <<"wait", "wait">>, <<"done", "wait">>, <<"done", "done">>}
Phase == <<Stage(Client), Stage(Server)>>

(* The length of the handshake's record on the way to e. *)
Hellos(e) ==
    IF e = Server
    THEN IF Phase \in {<<"wait", "start">>, <<"done", "wait">>} THEN {1} ELSE {0}
    ELSE IF Phase = <<"wait", "wait">> THEN {ServerFlight}
         ELSE IF Phase = <<"done", "done">> THEN {0, 1} ELSE {0}

(* d is on its way and r was never written. *)
Holds(e, h, d, c, r) ==
    /\ Shape(Way(e), h, d, c)
    /\ h \in Hellos(e)
    /\ (received[e] \o arg[e]) \o (d \o r) = wrote[Peer(e)]
    /\ stuck[Peer(e)] = <<>> => r = <<>>
    /\ c = 1 => ssl[Peer(e)].sent /\ stuck[Peer(e)] = <<>>
    /\ transport = "synchronous" => Len(d) <= RecordMax

Stream(e) == \E h \in Nat, d \in Seq(Nat), c \in {0, 1}, r \in Seq(Nat) : Holds(e, h, d, c, r)

(* OpenSSL has given up: what it was given before is a prefix. *)
Broken(e) ==
    /\ status[e] = "closing" /\ ~ssl[e].seen /\ Phase = <<"done", "done">>
    /\ arg[e] = <<>>
    /\ \E r \in Seq(Nat) : received[e] \o r = wrote[Peer(e)]

Streams == \A e \in Ends : IF ssl[e].fatal THEN Broken(e) ELSE Stream(e)

Closed(e) == status[e] = "closed" /\ Stage(e) = "done"

Handshake ==
    /\ Phase \in Phases
    /\ up <=> Stage(Client) # "start"
    /\ \A e \in Ends :
          /\ Stage(e) # "done" => wrote[e] = <<>> /\ unread[e] = 0 /\ status[e] \in {"closed", "connecting"}
          /\ status[e] = "connecting" => Stage(e) # "done"

Closing == \A e \in Ends :
    /\ ssl[e].sent <=> status[e] \in {"closing", "peer_closing"} \/ Closed(e)
    /\ Closed(e) => ssl[e].seen
    /\ status[e] = "peer_closing" => ssl[e].seen
    /\ ssl[e].seen => Way(e) = <<>> /\ arg[e] = <<>> /\ ssl[Peer(e)].sent /\ Stage(e) = "done"

(* OpenSSL has looked at what is no longer in the BIO. *)
Consumed == \A e \in Ends : \A i \in 1 .. Len(in[e]) - unread[e] : ~in[e][i].last

-----------------------------------------------------------------------------
(* The handlers and the applications *)

Given == \A e \in Ends : arg[e] # <<>> <=> at[e] = "on_received"
Ending == \A e \in Ends : ended[e] > 0 \/ at[e] = "on_disconnected" => Closed(e)

Told == \A e \in Ends :
    /\ told[e] > 0 \/ at[e] = "on_connected" => Stage(e) = "done"
    /\ told[e] = 0 =>
          /\ received[e] = <<>> /\ wrote[e] = <<>> /\ arg[e] = <<>> /\ outbox[e] = <<>>
          /\ ended[e] = 0
          /\ at[e] \notin {"app", "report", "on_received", "on_disconnected"}
          /\ status[e] # "closing" /\ ~Closed(e)
          /\ \A i \in DOMAIN stack : stack[i].end = e => stack[i].at \in {"idle", "announce"} /\ stack[i].outbox = <<>>

(* A stream whose application has not been told will say so. *)
Announced == \A e \in Ends :
    told[e] = 0 /\ status[e] = "connected" =>
        \/ at[e] \in {"announce", "on_connected"}
        \/ \E i \in DOMAIN stack : stack[i].end = e /\ stack[i].at = "announce"

(* The server only echoes. *)
Silent == told[Client] = 0 =>
    /\ \A e \in Ends : received[e] = <<>> /\ wrote[e] = <<>> /\ arg[e] = <<>> /\ outbox[e] = <<>>
    /\ \A i \in DOMAIN stack : stack[i].outbox = <<>>

-----------------------------------------------------------------------------
(* Over a queued transport *)

Queued == transport = "queued" =>
    /\ stack = <<>>
    /\ \A e \in Ends :
          /\ at[e] \in {"idle", "check"} => unread[e] = 0 \/ ssl[e].fatal \/ ssl[e].seen
          /\ told[e] = 0 /\ Stage(e) = "done" => at[e] \in {"announce", "on_connected"} /\ status[e] = "connected"
          /\ told[e] <= 1 /\ (told[e] > 0 => at[e] \notin {"announce", "on_connected"})
          /\ ended[e] <= 1 /\ (ended[e] > 0 => at[e] \notin {"report", "on_disconnected"})

-----------------------------------------------------------------------------
(* Over a synchronous transport *)

(* The others have paused. *)
Paused ==
    /\ stack = <<>> => \E e \in Ends : at[e] = "idle"
    /\ stack # <<>> => at[Peer(Head(stack).end)] \in Pauses /\ stack[Len(stack)].at = "idle"
    /\ \A e \in Ends : wire[e] # <<>> =>
          /\ at[e] \in Pauses /\ at[Peer(e)] \in Pauses /\ wire[Peer(e)] = <<>>
          /\ IF stack = <<>> THEN at[Peer(e)] = "idle" ELSE Head(stack).end = e
          /\ Len(wire[e]) <= BioCap

(* A record is used before the next one is written. *)
OneRecord == \A e \in Ends :
    /\ ~ssl[e].fatal /\ ~ssl[e].seen => \A i \in 1 .. Len(Near(e)) : Near(e)[i].last => i = Len(Near(e))
    /\ \/ unread[e] = 0 \/ ssl[e].fatal \/ ssl[e].seen
       \/ stack # <<>> /\ Head(stack).end = e /\ Delivered /\ at[e] \in {"read", "report"}

(* Messages fit into records. *)
Short(box) == \A i \in DOMAIN box : Len(box[i]) <= RecordMax
Sizes ==
    /\ \A e \in Ends : Len(arg[e]) <= RecordMax /\ Short(outbox[e])
    /\ \A i \in DOMAIN stack : Short(stack[i].outbox)

(* The server is told before the client can be, from the moment the        *)
(* client has what it needs to say so.                                     *)
Ticket ==
    /\ Phase = <<"done", "done">> /\ status[Server] = "connected" /\ at[Server] = "announce"
    /\ stack # <<>>
    /\ \/ wire[Server] # <<>> 
       \/ Delivered /\ Head(stack).end = Client /\ at[Client] \in {"read", "check", "idle"}
            /\ Len(stack) > 1 /\ stack[2].end = Server
       \/ Delivered /\ Head(stack).end = Server
ServerFirst == told[Server] = 0 =>
    /\ told[Client] = 0 /\ at[Client] # "on_connected"
    /\ Stage(Client) = "done" =>
          \/ wire[Client] # <<>> /\ Stage(Server) = "wait"
          \/ Ticket
          \/ at[Server] = "on_connected" /\ stack # <<>> /\ Head(stack).end = Server /\ Delivered

Synchronous == transport = "synchronous" =>
    Paused /\ OneRecord /\ Sizes /\ ServerFirst

(* Before the transport is connected nothing runs. *)
Quiet == ~up => stack = <<>> /\ \A e \in Ends : at[e] = "idle"

IInv ==
    /\ Types /\ Handshake /\ Streams /\ Closing /\ Consumed
    /\ Given /\ Ending /\ Told /\ Announced /\ Silent
    /\ Queued /\ Synchronous /\ dropped = 0

-----------------------------------------------------------------------------
(* Two ends *)

(* The ends are two, and each is the other's peer.                         *)
LEMMA TwoEnds ==
  ASSUME NEW e \in Ends
  PROVE  /\ Peer(e) \in Ends /\ Peer(e) # e /\ Peer(Peer(e)) = e
         /\ \A f \in Ends : f = e \/ f = Peer(e)
         /\ Client \in Ends /\ Server \in Ends /\ Peer(Client) = Server /\ Peer(Server) = Client
  BY SslAssumption DEF Ends, Peer

-----------------------------------------------------------------------------
(* Sequences *)

(* A function on 1 .. n is a sequence of length n.                         *)
LEMMA Function ==
  ASSUME NEW S, NEW n \in Nat, NEW f \in [1 .. n -> S]
  PROVE  f \in Seq(S) /\ Len(f) = n
  BY SeqDef

(* Take and Drop cut a sequence in two. *)
LEMMA Cut ==
  ASSUME NEW S, NEW q \in Seq(S), NEW n \in Nat
  PROVE  /\ Take(q, n) \in Seq(S) /\ Drop(q, n) \in Seq(S)
         /\ Len(Take(q, n)) = Least(n, Len(q))
         /\ Len(Drop(q, n)) = Len(q) - Least(n, Len(q))
         /\ Take(q, n) \o Drop(q, n) = q
         /\ n >= Len(q) => Take(q, n) = q /\ Drop(q, n) = <<>>
         /\ n <= Len(q) => Take(q, n) = SubSeq(q, 1, n)
         /\ Least(n, Len(q)) \in Nat /\ Least(n, Len(q)) <= n /\ Least(n, Len(q)) <= Len(q)
         /\ \A i \in 1 .. Len(Take(q, n)) : Take(q, n)[i] = q[i]
         /\ \A i \in 1 .. Len(Drop(q, n)) : i + n \in 1 .. Len(q) /\ Drop(q, n)[i] = q[i + n]
<1> DEFINE k == Len(q)
           m == Least(n, k)
<1>1. k \in Nat /\ m \in Nat /\ m <= n /\ m <= k /\ (n >= k => m = k) /\ (n <= k => m = n)
  BY LenProperties DEF Least
<1>2. /\ SubSeq(q, m + 1, k) \in Seq(S) /\ SubSeq(q, 1, m) \in Seq(S) /\ Len(SubSeq(q, 1, m)) = m
      /\ Len(SubSeq(q, m + 1, k)) = k - m /\ SubSeq(q, 1, m) \o SubSeq(q, m + 1, k) = q
  BY <1>1, Pieces
<1>3. n >= k => SubSeq(q, n + 1, k) = <<>> /\ SubSeq(q, m + 1, k) = <<>>
  BY <1>1, Pieces
<1>4. SubSeq(q, n + 1, k) = SubSeq(q, m + 1, k)
  BY <1>1, <1>3
<1>5. \A i \in 1 .. k : q[i] \in S
  BY ElementOfSeq
<1>6. \A i \in 1 .. m : SubSeq(q, 1, m)[i] = q[i]
  <2>1. \A i \in 1 .. m : q[i] \in S
    BY <1>1, <1>5
  <2>2. \A i \in 1 .. m - 1 + 1 : SubSeq(q, 1, m)[i] = q[1 + i - 1]
    BY <1>1, <2>1, SubSeqProperties
  <2> QED BY <1>1, <2>2
<1>7. \A i \in 1 .. k - m : i + n \in 1 .. k /\ SubSeq(q, m + 1, k)[i] = q[i + n]
  <2>1. \A i \in m + 1 .. k : q[i] \in S
    BY <1>1, <1>5
  <2>2. \A i \in 1 .. k - (m + 1) + 1 : SubSeq(q, m + 1, k)[i] = q[m + 1 + i - 1]
    BY <1>1, <2>1, SubSeqProperties
  <2>3. \A i \in 1 .. k - m : i + n \in 1 .. k /\ m + 1 + i - 1 = i + n /\ i \in 1 .. k - (m + 1) + 1
    BY <1>1
  <2> QED BY <2>2, <2>3
<1>8. n >= k => SubSeq(q, 1, m) = q
  BY <1>1, SubSeqFull
<1> QED BY <1>1, <1>2, <1>3, <1>4, <1>6, <1>7, <1>8 DEF Take, Drop

(* The cells of a concatenation, and when it is empty.                     *)
LEMMA Parts ==
  ASSUME NEW S, NEW x \in Seq(S), NEW y \in Seq(S)
  PROVE  /\ x \o y \in Seq(S) /\ Len(x \o y) = Len(x) + Len(y) /\ Len(x) \in Nat /\ Len(y) \in Nat
         /\ \A i \in 1 .. Len(x) : (x \o y)[i] = x[i]
         /\ \A i \in 1 .. Len(y) : (x \o y)[Len(x) + i] = y[i]
         /\ x \o <<>> = x /\ <<>> \o x = x
         /\ x \o y = <<>> <=> x = <<>> /\ y = <<>>
<1>1. /\ x \o y \in Seq(S) /\ Len(x \o y) = Len(x) + Len(y) /\ Len(x) \in Nat /\ Len(y) \in Nat
      /\ \A i \in 1 .. Len(x) + Len(y) : (x \o y)[i] = IF i <= Len(x) THEN x[i] ELSE y[i - Len(x)]
  BY ConcatProperties, LenProperties
<1>2. \A i \in 1 .. Len(x) : (x \o y)[i] = x[i]
  BY <1>1
<1>3. \A i \in 1 .. Len(y) : (x \o y)[Len(x) + i] = y[i]
  <2> TAKE i \in 1 .. Len(y)
  <2>1. Len(x) + i \in 1 .. Len(x) + Len(y) /\ ~(Len(x) + i <= Len(x)) /\ Len(x) + i - Len(x) = i
    BY <1>1
  <2> QED BY <1>1, <2>1
<1> QED BY <1>1, <1>2, <1>3, ConcatEmptySeq, ConcatEqualIffEmpty

(* The parts of Parts, one at a time: a leaf that has all of them is slow. *)
LEMMA Lengths ==
  ASSUME NEW S, NEW x \in Seq(S), NEW y \in Seq(S)
  PROVE  x \o y \in Seq(S) /\ Len(x \o y) = Len(x) + Len(y) /\ Len(x) \in Nat /\ Len(y) \in Nat
  BY ConcatProperties, LenProperties

LEMMA Front ==
  ASSUME NEW S, NEW x \in Seq(S), NEW y \in Seq(S)
  PROVE  \A i \in 1 .. Len(x) : (x \o y)[i] = x[i]
  BY Parts

LEMMA Back ==
  ASSUME NEW S, NEW x \in Seq(S), NEW y \in Seq(S)
  PROVE  \A i \in 1 .. Len(y) : (x \o y)[Len(x) + i] = y[i]
  BY Parts

(* The same for cells.                                                     *)
LEMMA Cellwise ==
  ASSUME NEW x \in Seq(Cells), NEW y \in Seq(Cells)
  PROVE  /\ x \o y \in Seq(Cells) /\ Len(x \o y) = Len(x) + Len(y) /\ Len(x) \in Nat /\ Len(y) \in Nat
         /\ \A i \in 1 .. Len(x) : (x \o y)[i] = x[i]
         /\ \A i \in 1 .. Len(y) : (x \o y)[Len(x) + i] = y[i]
<1>1. x \o y \in Seq(Cells) /\ Len(x \o y) = Len(x) + Len(y) /\ Len(x) \in Nat /\ Len(y) \in Nat
  BY Lengths
<1>2. \A i \in 1 .. Len(x) : (x \o y)[i] = x[i]
  BY Front
<1>3. \A i \in 1 .. Len(y) : (x \o y)[Len(x) + i] = y[i]
  BY Back
<1> QED BY <1>1, <1>2, <1>3

Associates(x, y, z) == (x \o y) \o z = x \o (y \o z)

(* Associativity under a name, which keeps it from being applied           *)
(* everywhere.                                                             *)
LEMMA Association ==
  ASSUME NEW S, NEW x \in Seq(S), NEW y \in Seq(S), NEW z \in Seq(S)
  PROVE  Associates(x, y, z)
  BY ConcatAssociative DEF Associates

(* Dropping from the front of a sequence that something follows. *)
LEMMA DropFront ==
  ASSUME NEW S, NEW x \in Seq(S), NEW y \in Seq(S), NEW n \in 0 .. Len(x)
  PROVE  Drop(x, n) \o y = Drop(x \o y, n)
<1> DEFINE a == Take(x, n)
           b == Drop(x, n)
<1>1. /\ a \in Seq(S) /\ b \in Seq(S) /\ a \o b = x /\ Len(a) = n /\ Len(x) \in Nat /\ n \in Nat
  BY Cut, LenProperties DEF Least
<1> HIDE DEF a, b
<1>2. x \o y = a \o (b \o y)
  <2>1. Associates(a, b, y)
    BY <1>1, Association
  <2> QED BY <1>1, <2>1 DEF Associates
<1>3. b \o y \in Seq(S) /\ x \o y \in Seq(S)
  BY <1>1, Parts
<1> DEFINE u == b \o y
           v == x \o y
<1>4. u \in Seq(S) /\ v \in Seq(S) /\ v = a \o u
  BY <1>2, <1>3
<1> HIDE DEF u, v
<1>5. /\ Len(v) = n + Len(u) /\ Len(u) \in Nat /\ Len(v) \in Nat
      /\ \A i \in 1 .. Len(u) : v[n + i] = u[i]
  <2>1. /\ Len(a \o u) = Len(a) + Len(u) /\ Len(u) \in Nat /\ a \o u \in Seq(S)
        /\ \A i \in 1 .. Len(u) : (a \o u)[Len(a) + i] = u[i]
    <3>1. a \in Seq(S) /\ u \in Seq(S)
      BY <1>1, <1>4
    <3> QED BY <3>1, Parts
  <2> QED BY <1>1, <1>4, <2>1
<1> DEFINE w == Drop(v, n)
<1>6. w \in Seq(S) /\ Len(w) = Len(u) /\ \A i \in 1 .. Len(w) : w[i] = v[i + n]
  <2>1. /\ w \in Seq(S) /\ Len(w) = Len(v) - Least(n, Len(v))
        /\ \A i \in 1 .. Len(w) : w[i] = v[i + n]
    <3>1. v \in Seq(S) /\ n \in Nat
      BY <1>1, <1>4
    <3> QED BY <3>1, Cut
  <2> HIDE DEF w
  <2>2. Least(n, Len(v)) = n
    BY <1>1, <1>5 DEF Least
  <2> QED BY <1>1, <1>5, <2>1, <2>2
<1> HIDE DEF w
<1>7. \A i \in 1 .. Len(u) : u[i] = w[i]
  <2>1. \A i \in 1 .. Len(u) : i + n = n + i
    BY <1>1, <1>5
  <2> QED BY <1>5, <1>6, <2>1
<1>8. u = w
  BY <1>4, <1>6, <1>7, SeqEqual
<1> QED BY <1>8 DEF u, v, w, b

(* What is taken from a stream, and the rest, wherever they are. *)
LEMMA Passed ==
  ASSUME NEW S, NEW x \in Seq(S), NEW y \in Seq(S), NEW z \in Seq(S), NEW n \in Nat
  PROVE  /\ (x \o Take(y, n)) \o Drop(y, n) = x \o y
         /\ ((x \o Take(y, n)) \o Drop(y, n)) \o z = (x \o y) \o z
<1> DEFINE a == Take(y, n)
           b == Drop(y, n)
<1>1. a \in Seq(S) /\ b \in Seq(S) /\ a \o b = y
  BY Cut
<1> HIDE DEF a, b
<1>2. (x \o a) \o b = x \o y
  <2>1. Associates(x, a, b)
    BY <1>1, Association
  <2> QED BY <1>1, <2>1 DEF Associates
<1> QED BY <1>2 DEF a, b

-----------------------------------------------------------------------------
(* Records *)

Less == {p \in Nat \X Nat : p[1] < p[2]}

(* A non-empty set of numbers has a least one.                             *)
LEMMA HasLeast ==
  ASSUME NEW S, S \subseteq Nat, S # {}
  PROVE  \E n \in S : \A m \in S : n <= m
<1>1. IsWellFoundedOn(Less, Nat)
  BY NatLessThanWellFounded, Zenon DEF OpToRel, Less
<1>2. PICK n \in S : \A m \in S : <<m, n>> \notin Less
  BY <1>1, WFMin
<1>3. \A m \in S : <<m, n>> \in Nat \X Nat /\ <<m, n>>[1] = m /\ <<m, n>>[2] = n
  OBVIOUS
<1>4. \A m \in S : ~(m < n)
  BY <1>2, <1>3 DEF Less
<1> QED BY <1>4

(* FirstEnd is the first marked cell, if there is one. *)
LEMMA FirstRecord ==
  ASSUME NEW q \in Seq(Cells)
  PROVE  /\ FirstEnd(q) \in Nat /\ FirstEnd(q) <= Len(q)
         /\ FirstEnd(q) = 0 => \A i \in 1 .. Len(q) : ~q[i].last
         /\ FirstEnd(q) > 0 => q[FirstEnd(q)].last /\ FirstEnd(q) \in 1 .. Len(q)
         /\ \A i \in 1 .. Len(q) : q[i].last => FirstEnd(q) > 0 /\ FirstEnd(q) <= i
<1> DEFINE ends == {i \in DOMAIN q : q[i].last}
<1>1. Len(q) \in Nat /\ DOMAIN q = 1 .. Len(q)
  BY LenProperties
<1>2. FirstEnd(q) = IF ends = {} THEN 0 ELSE CHOOSE i \in ends : \A j \in ends : i <= j
  BY DEF FirstEnd
<1>3. ends \subseteq Nat /\ \A i : i \in ends <=> i \in 1 .. Len(q) /\ q[i].last
  BY <1>1
<1> HIDE DEF ends
<1>4. CASE ends = {}
  BY <1>1, <1>2, <1>3, <1>4
<1>5. CASE ends # {}
  <2>1. \E i \in ends : \A j \in ends : i <= j
    BY <1>3, <1>5, HasLeast
  <2>2. FirstEnd(q) \in ends /\ \A j \in ends : FirstEnd(q) <= j
    BY <1>2, <1>5, <2>1
  <2> QED BY <1>1, <1>3, <2>2
<1> QED BY <1>4, <1>5

(* The fields of a cell.                                                   *)
LEMMA CellFields ==
  /\ \A x \in Cells : x.type \in {"hs", "app", "close"} /\ x.v \in Nat /\ x.last \in BOOLEAN
  /\ \A t \in {"hs", "app", "close"}, v \in Nat, b \in BOOLEAN :
        /\ Cell(t, v, b) \in Cells
        /\ Cell(t, v, b).type = t /\ Cell(t, v, b).v = v /\ Cell(t, v, b).last = b
  BY DEF Cells, Cell

(* The first record of what has arrived: the handshake's, data that comes  *)
(* next, or a close_notify and nothing else.                               *)
LEMMA ShapeFirst ==
  ASSUME NEW x \in Seq(Cells), NEW y \in Seq(Cells), NEW h \in Nat, NEW d \in Seq(Nat), NEW c \in {0, 1},
         Shape(x \o y, h, d, c), FirstEnd(x) > 0
  PROVE  /\ FirstEnd(x) \in 1 .. Len(x) /\ Len(x) <= Len(x \o y)
         /\ x[FirstEnd(x)].type \in {"hs", "app", "close"}
         /\ x[FirstEnd(x)].type = "hs" => h = FirstEnd(x)
         /\ x[FirstEnd(x)].type = "app" => h = 0 /\ FirstEnd(x) <= Len(d) /\ \A i \in 1 .. FirstEnd(x) : x[i].v = d[i]
         /\ x[FirstEnd(x)].type = "close" => h = 0 /\ d = <<>> /\ c = 1 /\ FirstEnd(x) = 1 /\ Len(x \o y) = 1
<1> DEFINE k == FirstEnd(x)
           q == x \o y
           n == Len(d)
<1>1. /\ k \in Nat /\ k \in 1 .. Len(x) /\ x[k].last
      /\ \A i \in 1 .. Len(x) : x[i].last => k <= i
  BY FirstRecord
<1>2. /\ Len(q) = Len(x) + Len(y) /\ Len(x) \in Nat /\ Len(y) \in Nat
      /\ \A i \in 1 .. Len(x) : q[i] = x[i]
  BY Parts
<1>3. n \in Nat /\ (n = 0 => d = <<>>)
  BY LenProperties, EmptySeq
<1>4. /\ Len(q) = h + n + c
      /\ \A i \in 1 .. Len(q) :
            /\ i <= h => q[i].type = "hs" /\ (q[i].last <=> i = h)
            /\ h < i /\ i <= h + n => q[i].type = "app" /\ q[i].v = d[i - h]
            /\ h + n < i => q[i].type = "close" /\ q[i].last
            /\ i = h + n => q[i].last
  BY DEF Shape
<1> HIDE DEF k, q, n
<1>5. \A i \in 1 .. k : i \in 1 .. Len(x) /\ i \in 1 .. Len(q) /\ i \in Nat
  BY <1>1, <1>2
<1>6. \A i \in 1 .. k : i < k => ~q[i].last
  <2> SUFFICES ASSUME NEW i \in 1 .. k, i < k, q[i].last PROVE FALSE
    OBVIOUS
  <2>1. i \in 1 .. Len(x) /\ x[i].last /\ i \in Nat
    BY <1>2, <1>5
  <2> QED BY <1>1, <2>1
<1>7. CASE k <= h
  <2>1. x[k].type = "hs" /\ k = h
    BY <1>1, <1>2, <1>4, <1>5, <1>7
  <2> QED BY <1>1, <1>2, <2>1 DEF k, q
<1>8. CASE h < k /\ k <= h + n
  <2>1. x[k].type = "app"
    BY <1>1, <1>2, <1>4, <1>5, <1>8
  <2>2. h = 0
    <3> SUFFICES ASSUME h # 0 PROVE FALSE
      OBVIOUS
    <3>1. h \in 1 .. k /\ h < k
      BY <1>1, <1>8
    <3> QED BY <1>4, <1>5, <1>6, <3>1
  <2>3. \A i \in 1 .. k : x[i].v = d[i]
    <3> TAKE i \in 1 .. k
    <3>1. i \in 1 .. Len(q) /\ h < i /\ i <= h + n /\ i - h = i /\ q[i] = x[i]
      BY <1>1, <1>2, <1>3, <1>5, <1>8, <2>2
    <3> QED BY <1>4, <3>1
  <2>4. k <= n
    BY <1>1, <1>3, <1>8, <2>2
  <2> QED BY <1>1, <1>2, <2>1, <2>2, <2>3, <2>4 DEF k, q, n
<1>9. CASE h + n < k
  <2>1. x[k].type = "close"
    BY <1>1, <1>2, <1>4, <1>5, <1>9
  <2>2. h + n = 0
    <3> SUFFICES ASSUME h + n # 0 PROVE FALSE
      OBVIOUS
    <3>1. h + n \in 1 .. k /\ h + n < k
      BY <1>1, <1>3, <1>9
    <3> QED BY <1>4, <1>5, <1>6, <3>1
  <2>3. h = 0 /\ n = 0 /\ d = <<>> /\ c = 1 /\ k = 1 /\ Len(q) = 1
    BY <1>1, <1>2, <1>3, <1>4, <1>9, <2>2
  <2> QED BY <1>1, <1>2, <2>1, <2>3 DEF k, q, n
<1> QED BY <1>1, <1>3, <1>7, <1>8, <1>9

(* What is left behind it. *)
LEMMA ShapeRest ==
  ASSUME NEW q \in Seq(Cells), NEW h \in Nat, NEW d \in Seq(Nat), NEW c \in {0, 1}, Shape(q, h, d, c)
  PROVE  /\ Shape(Drop(q, h), 0, d, c)
         /\ h = 0 => \A k \in 1 .. Len(d) : Shape(Drop(q, k), 0, Drop(d, k), c)
<1>1. Len(q) \in Nat /\ Len(d) \in Nat
  BY LenProperties
<1>2. ASSUME NEW k \in Nat, NEW s \in Seq(Nat), k <= h + Len(d), Len(s) = h + Len(d) - k, h \in {0, k},
             \A i \in 1 .. Len(s) : s[i] = d[i + k - h]
      PROVE  Shape(Drop(q, k), 0, s, c)
  <2> DEFINE u == Drop(q, k)
  <2>1. u \in Seq(Cells) /\ Len(u) = Len(q) - k /\ \A i \in 1 .. Len(u) : i + k \in 1 .. Len(q) /\ u[i] = q[i + k]
    <3>1. k <= Len(q)
      BY <1>1, <1>2 DEF Shape
    <3> QED BY <1>1, <3>1, Cut DEF Least
  <2>2. Len(s) \in Nat
    BY LenProperties
  <2> HIDE DEF u
  <2>3. Len(u) = 0 + Len(s) + c
    BY <1>1, <1>2, <2>1, <2>2 DEF Shape
  <2>4. ASSUME NEW i \in 1 .. Len(u)
        PROVE  /\ i <= 0 => u[i].type = "hs" /\ (u[i].last <=> i = 0)
               /\ 0 < i /\ i <= 0 + Len(s) => u[i].type = "app" /\ u[i].v = s[i - 0]
               /\ 0 + Len(s) < i => u[i].type = "close" /\ u[i].last
               /\ i = 0 + Len(s) => u[i].last
    <3>a. i + k \in 1 .. Len(q) /\ u[i] = q[i + k]
      BY <2>1
    <3>b. i \in Nat /\ i >= 1 /\ i - 0 = i /\ 0 + Len(s) = Len(s)
      BY <2>2, <2>3
    <3>c. h < i + k
      BY <1>2, <3>b
    <3>1. i \in Nat /\ i >= 1 /\ i + k \in 1 .. Len(q) /\ u[i] = q[i + k] /\ h < i + k /\ i - 0 = i /\ 0 + Len(s) = Len(s)
      BY <3>a, <3>b, <3>c
    <3>2. /\ i <= Len(s) <=> i + k <= h + Len(d)
          /\ Len(s) < i <=> h + Len(d) < i + k
          /\ i = Len(s) <=> i + k = h + Len(d)
      <4>1. Len(s) = h + Len(d) - k
        BY <1>2
      <4> QED BY <1>1, <2>2, <3>1, <4>1
    <3>3. i <= Len(s) => i \in 1 .. Len(s) /\ i + k - h = (i + k) - h
      BY <2>2, <3>1
    <3> DEFINE j == i + k
    <3>4. /\ h + Len(d) < j => q[j].type = "close" /\ q[j].last
          /\ j = h + Len(d) => q[j].last
          /\ h < j /\ j <= h + Len(d) => q[j].type = "app" /\ q[j].v = d[j - h]
      <4> HIDE DEF j
      <4>1. j \in 1 .. Len(q)
        BY <3>1 DEF j
      <4> QED BY <4>1 DEF Shape
    <3>5. i <= Len(s) => u[i].type = "app" /\ u[i].v = s[i]
      BY <1>2, <3>1, <3>2, <3>3, <3>4
    <3>6. u[i] = q[j] /\ s[i - 0] = s[i] /\ i \in Nat /\ i >= 1 /\ 0 + Len(s) = Len(s)
      BY <3>1
    <3>7. (Len(s) < i <=> h + Len(d) < j) /\ (i = Len(s) <=> j = h + Len(d))
      BY <3>2
    <3> HIDE DEF j
    <3>8. ~(i <= 0) /\ 0 < i
      BY <3>6
    <3>9. i <= 0 + Len(s) => u[i].type = "app" /\ u[i].v = s[i - 0]
      BY <3>5, <3>6
    <3>10. 0 + Len(s) < i => u[i].type = "close" /\ u[i].last
      BY <3>4, <3>6, <3>7
    <3>11. i = 0 + Len(s) => u[i].last
      BY <3>4, <3>6, <3>7
    <3> QED BY <3>8, <3>9, <3>10, <3>11
  <2> QED BY <2>3, <2>4 DEF Shape, u
<1>3. Shape(Drop(q, h), 0, d, c)
  <2>1. h <= h + Len(d) /\ Len(d) = h + Len(d) - h /\ h \in {0, h} /\ \A i \in 1 .. Len(d) : d[i] = d[i + h - h]
    BY <1>1
  <2> QED BY <1>2, <2>1
<1>4. ASSUME h = 0, NEW k \in 1 .. Len(d) PROVE Shape(Drop(q, k), 0, Drop(d, k), c)
  <2> DEFINE s == Drop(d, k)
  <2>1. k \in Nat /\ k <= Len(d)
    BY <1>1
  <2>2. s \in Seq(Nat) /\ Len(s) = Len(d) - k /\ \A i \in 1 .. Len(s) : s[i] = d[i + k]
    BY <1>1, <2>1, Cut DEF Least
  <2> HIDE DEF s
  <2>3. k <= h + Len(d) /\ Len(s) = h + Len(d) - k /\ h \in {0, k}
    BY <1>1, <1>4, <2>1, <2>2
  <2>4. \A i \in 1 .. Len(s) : s[i] = d[i + k - h]
    <3> TAKE i \in 1 .. Len(s)
    <3>1. i + k - h = i + k
      BY <1>1, <1>4, <2>1, <2>2
    <3> QED BY <2>2, <3>1
  <2> QED BY <1>2, <2>1, <2>2, <2>3, <2>4 DEF s
<1> QED BY <1>3, <1>4

-----------------------------------------------------------------------------
(* What is written *)

(* A record of one cell.                                                   *)
LEMMA PlainCells ==
  ASSUME NEW t \in {"hs", "app", "close"}
  PROVE  /\ Plain(t) \in Seq(Cells) /\ Len(Plain(t)) = 1 /\ Plain(t) # <<>>
         /\ Plain(t)[1].type = t /\ Plain(t)[1].last = TRUE
<1>1. Cell(t, 0, TRUE) \in Cells /\ Cell(t, 0, TRUE).type = t /\ Cell(t, 0, TRUE).last = TRUE
  BY DEF Cells, Cell
<1> DEFINE x == Cell(t, 0, TRUE)
<1> HIDE DEF x
<1>2. x \in Cells => <<x>> \in Seq(Cells) /\ Len(<<x>>) = 1 /\ <<x>> # <<>> /\ <<x>>[1] = x
  OBVIOUS
<1> QED BY <1>1, <1>2 DEF Plain, x

(* The server's flight is one record of ServerFlight cells.                *)
LEMMA FlightCells ==
  /\ Flight \in Seq(Cells) /\ Len(Flight) = ServerFlight /\ ServerFlight \in Nat /\ ServerFlight > 0
  /\ \A i \in 1 .. ServerFlight : Flight[i].type = "hs" /\ (Flight[i].last <=> i = ServerFlight)
<1>1. ServerFlight \in Nat /\ ServerFlight > 0
  BY SslAssumption
<1>2. \A i \in 1 .. ServerFlight : Flight[i] = Cell("hs", 0, i = ServerFlight)
  BY DEF Flight
<1>3. \A i \in 1 .. ServerFlight :
         /\ Cell("hs", 0, i = ServerFlight) \in Cells
         /\ Cell("hs", 0, i = ServerFlight).type = "hs"
         /\ Cell("hs", 0, i = ServerFlight).last = (i = ServerFlight)
  BY DEF Cells, Cell
<1>4. Flight \in [1 .. ServerFlight -> Cells]
  BY <1>3 DEF Flight
<1>5. Flight \in Seq(Cells) /\ Len(Flight) = ServerFlight
  BY <1>1, <1>4, Function
<1>6. \A i \in 1 .. ServerFlight : Flight[i].type = "hs" /\ (Flight[i].last <=> i = ServerFlight)
  BY <1>2, <1>3
<1> QED BY <1>1, <1>5, <1>6

(* The cells of a message: its bytes, the last one marked, and no other    *)
(* one if it fits into a record.                                           *)
LEMMA RecordCells ==
  ASSUME NEW m \in Seq(Nat)
  PROVE  /\ Records(m) \in Seq(Cells) /\ Len(Records(m)) = Len(m) /\ Len(m) \in Nat
         /\ \A i \in 1 .. Len(m) : /\ Records(m)[i].type = "app" /\ Records(m)[i].v = m[i]
                                   /\ i = Len(m) => Records(m)[i].last
                                   /\ Len(m) <= RecordMax /\ Records(m)[i].last => i = Len(m)
<1>1. Len(m) \in Nat /\ DOMAIN m = 1 .. Len(m) /\ \A i \in 1 .. Len(m) : m[i] \in Nat
  BY LenProperties, ElementOfSeq
<1>2. RecordMax \in Nat /\ RecordMax > 0
  BY SslAssumption
<1> DEFINE b(i) == i % RecordMax = 0 \/ i = Len(m)
<1>3. \A i \in 1 .. Len(m) : Records(m)[i] = Cell("app", m[i], b(i))
  BY <1>1 DEF Records
<1>4. \A i \in 1 .. Len(m) :
         /\ Cell("app", m[i], b(i)) \in Cells
         /\ Cell("app", m[i], b(i)).type = "app" /\ Cell("app", m[i], b(i)).v = m[i]
         /\ Cell("app", m[i], b(i)).last = b(i)
  BY <1>1, CellFields
<1>5. Records(m) \in [1 .. Len(m) -> Cells]
  BY <1>1, <1>4 DEF Records
<1>6. \A i \in 1 .. Len(m) : Len(m) <= RecordMax /\ b(i) => i = Len(m)
  <2> SUFFICES ASSUME NEW i \in 1 .. Len(m), Len(m) <= RecordMax, b(i), i # Len(m) PROVE FALSE
    OBVIOUS
  <2>1. i \in Nat /\ 0 < i /\ i < RecordMax
    <3> DEFINE n == Len(m)
    <3>1. n \in Nat /\ i \in 1 .. n /\ i # n /\ n <= RecordMax
      BY <1>1
    <3> HIDE DEF n, b
    <3> QED BY <1>2, <3>1
  <2>2. i % RecordMax = i
    BY <1>2, <2>1
  <2> QED BY <2>1, <2>2
<1> QED BY <1>1, <1>3, <1>4, <1>5, <1>6, Function

(* Nothing is on the way exactly when there is no part of it.              *)
LEMMA ShapeEmpty ==
  /\ Shape(<<>>, 0, <<>>, 0)
  /\ \A q \in Seq(Cells), h \in Nat, d \in Seq(Nat), c \in {0, 1} :
        Shape(q, h, d, c) => (q = <<>> <=> h = 0 /\ d = <<>> /\ c = 0)
<1>1. Len(<<>>) = 0
  BY EmptySeq
<1>2. Shape(<<>>, 0, <<>>, 0)
  BY <1>1 DEF Shape
<1>3. ASSUME NEW q \in Seq(Cells), NEW h \in Nat, NEW d \in Seq(Nat), NEW c \in {0, 1}, Shape(q, h, d, c)
      PROVE  q = <<>> <=> h = 0 /\ d = <<>> /\ c = 0
  <2>1. Len(q) = h + Len(d) + c
    BY <1>3 DEF Shape
  <2>2. Len(d) \in Nat /\ (Len(d) = 0 <=> d = <<>>) /\ (Len(q) = 0 <=> q = <<>>)
    BY LenProperties, EmptySeq
  <2> QED BY <2>1, <2>2
<1> QED BY <1>2, <1>3

(* The records of the handshake.                                           *)
LEMMA ShapeHello == Shape(Flight, ServerFlight, <<>>, 0) /\ Shape(Plain("hs"), 1, <<>>, 0)
<1>1. Len(<<>>) = 0
  BY EmptySeq
<1>2. Shape(Flight, ServerFlight, <<>>, 0)
  BY <1>1, FlightCells DEF Shape
<1>3. Shape(Plain("hs"), 1, <<>>, 0)
  <2> DEFINE q == Plain("hs")
  <2>1. Len(q) = 1 /\ q[1].type = "hs" /\ q[1].last = TRUE
    BY PlainCells
  <2> HIDE DEF q
  <2>2. \A i \in 1 .. 1 : i = 1
    OBVIOUS
  <2>3. Shape(q, 1, <<>>, 0)
    BY <1>1, <2>1, <2>2 DEF Shape
  <2> QED BY <2>3 DEF q
<1> QED BY <1>2, <1>3

(* A message behind data is more data.                                     *)
LEMMA ShapeData ==
  ASSUME NEW q \in Seq(Cells), NEW h \in Nat, NEW d \in Seq(Nat), NEW m \in Seq(Nat), Shape(q, h, d, 0)
  PROVE  Shape(q \o Records(m), h, d \o m, 0)
<1> DEFINE u == q \o Records(m)
           s == d \o m
           a == Len(d)
           b == Len(m)
<1>1. /\ u \in Seq(Cells) /\ Len(u) = Len(q) + b /\ Len(q) \in Nat /\ b \in Nat
      /\ \A i \in 1 .. Len(q) : u[i] = q[i]
      /\ \A i \in 1 .. b : u[Len(q) + i] = Records(m)[i]
  <2>1. Records(m) \in Seq(Cells) /\ Len(Records(m)) = b /\ b \in Nat
    BY RecordCells
  <2>2. ASSUME NEW y \in Seq(Cells)
        PROVE  /\ q \o y \in Seq(Cells) /\ Len(q \o y) = Len(q) + Len(y) /\ Len(q) \in Nat
               /\ \A i \in 1 .. Len(q) : (q \o y)[i] = q[i]
               /\ \A i \in 1 .. Len(y) : (q \o y)[Len(q) + i] = y[i]
    BY Cellwise
  <2> QED BY <2>1, <2>2
<1>2. /\ s \in Seq(Nat) /\ Len(s) = a + b /\ a \in Nat
      /\ \A i \in 1 .. a : s[i] = d[i]
      /\ \A i \in 1 .. b : s[a + i] = m[i]
  BY Parts
<1>3. Len(q) = h + a
  BY <1>1, <1>2 DEF Shape
<1>4. \A i \in 1 .. h + a :
            /\ i <= h => q[i].type = "hs" /\ (q[i].last <=> i = h)
            /\ h < i /\ i <= h + a => q[i].type = "app" /\ q[i].v = d[i - h]
            /\ i = h + a => q[i].last
  BY <1>3 DEF Shape
<1>5. \A i \in 1 .. b : /\ Records(m)[i].type = "app" /\ Records(m)[i].v = m[i]
                        /\ i = b => Records(m)[i].last
  BY RecordCells
<1> HIDE DEF u, s, a, b
<1>6. Len(u) = h + Len(s) + 0
  BY <1>1, <1>2, <1>3
<1>7. ASSUME NEW i \in 1 .. Len(u)
      PROVE  /\ i <= h => u[i].type = "hs" /\ (u[i].last <=> i = h)
             /\ h < i /\ i <= h + Len(s) => u[i].type = "app" /\ u[i].v = s[i - h]
             /\ h + Len(s) < i => u[i].type = "close" /\ u[i].last
             /\ i = h + Len(s) => u[i].last
  <2>1. i \in Nat /\ i >= 1 /\ i <= h + (a + b)
    BY <1>1, <1>2, <1>6
  <2>2. CASE i <= h + a
    <3>1. i \in 1 .. h + a /\ u[i] = q[i]
      BY <1>1, <1>2, <1>3, <2>1, <2>2
    <3>2. h < i => i - h \in 1 .. a /\ s[i - h] = d[i - h]
      BY <1>2, <2>1, <2>2
    <3>3. i = h + Len(s) => i = h + a
      BY <1>1, <1>2, <2>1, <2>2
    <3>4. ~(h + Len(s) < i)
      BY <1>1, <1>2, <2>1
    <3>5. i <= h => u[i].type = "hs" /\ (u[i].last <=> i = h)
      BY <1>4, <3>1
    <3>6. h < i => u[i].type = "app" /\ u[i].v = s[i - h]
      BY <1>4, <2>2, <3>1, <3>2
    <3>7. i = h + a => u[i].last
      BY <1>4, <3>1
    <3> QED BY <3>3, <3>4, <3>5, <3>6, <3>7
  <2>3. CASE ~(i <= h + a)
    <3> DEFINE j == i - (h + a)
    <3>1. j \in 1 .. b /\ i = (h + a) + j /\ i - h = a + j /\ ~(i <= h) /\ ~(h + Len(s) < i)
      BY <1>1, <1>2, <2>1, <2>3, SMTT(30)
    <3>2. i = h + Len(s) <=> j = b
      BY <1>1, <1>2, <2>1
    <3> HIDE DEF j
    <3>3. u[i] = Records(m)[j]
      BY <1>1, <1>3, <3>1
    <3>4. s[i - h] = m[j]
      BY <1>2, <3>1
    <3>5. u[i].type = "app" /\ u[i].v = s[i - h] /\ (j = b => u[i].last)
      BY <1>5, <3>1, <3>3, <3>4
    <3> QED BY <3>1, <3>2, <3>5
  <2> QED BY <2>2, <2>3
<1>8. Shape(u, h, s, 0)
  BY <1>6, <1>7 DEF Shape
<1> QED BY <1>8 DEF u, s

(* A close_notify behind data closes the stream.                           *)
LEMMA ShapeClose ==
  ASSUME NEW q \in Seq(Cells), NEW h \in Nat, NEW d \in Seq(Nat), Shape(q, h, d, 0)
  PROVE  Shape(q \o Plain("close"), h, d, 1)
<1> DEFINE u == q \o Plain("close")
           a == Len(d)
<1>1. /\ u \in Seq(Cells) /\ Len(u) = Len(q) + 1 /\ Len(q) \in Nat
      /\ \A i \in 1 .. Len(q) : u[i] = q[i]
      /\ u[Len(q) + 1].type = "close" /\ u[Len(q) + 1].last = TRUE
  <2>1. ASSUME NEW y \in Seq(Cells), Len(y) = 1, y[1].type = "close", y[1].last = TRUE
        PROVE  /\ q \o y \in Seq(Cells) /\ Len(q \o y) = Len(q) + 1 /\ Len(q) \in Nat
               /\ \A i \in 1 .. Len(q) : (q \o y)[i] = q[i]
               /\ (q \o y)[Len(q) + 1].type = "close" /\ (q \o y)[Len(q) + 1].last = TRUE
    <3>1. /\ q \o y \in Seq(Cells) /\ Len(q \o y) = Len(q) + Len(y) /\ Len(q) \in Nat
          /\ \A i \in 1 .. Len(q) : (q \o y)[i] = q[i]
      BY Cellwise
    <3>2. \A i \in 1 .. Len(y) : (q \o y)[Len(q) + i] = y[i]
      BY Cellwise
    <3>3. 1 \in 1 .. Len(y)
      BY <2>1
    <3>4. (q \o y)[Len(q) + 1] = y[1]
      BY <3>2, <3>3
    <3> QED BY <2>1, <3>1, <3>4
  <2>2. LET y == Plain("close")
        IN  y \in Seq(Cells) /\ Len(y) = 1 /\ y[1].type = "close" /\ y[1].last = TRUE
    BY PlainCells
  <2> QED BY <2>1, <2>2
<1>2. a \in Nat /\ Len(q) = h + a
  BY LenProperties DEF Shape
<1>3. \A i \in 1 .. h + a :
            /\ i <= h => q[i].type = "hs" /\ (q[i].last <=> i = h)
            /\ h < i /\ i <= h + a => q[i].type = "app" /\ q[i].v = d[i - h]
            /\ i = h + a => q[i].last
  BY <1>2 DEF Shape
<1> HIDE DEF u, a
<1>4. ASSUME NEW i \in 1 .. Len(u)
      PROVE  /\ i <= h => u[i].type = "hs" /\ (u[i].last <=> i = h)
             /\ h < i /\ i <= h + a => u[i].type = "app" /\ u[i].v = d[i - h]
             /\ h + a < i => u[i].type = "close" /\ u[i].last
             /\ i = h + a => u[i].last
  <2>1. i \in Nat /\ i >= 1 /\ i <= h + a + 1
    BY <1>1, <1>2
  <2>2. CASE i <= h + a
    <3>1. i \in 1 .. h + a /\ u[i] = q[i]
      BY <1>1, <1>2, <2>1, <2>2
    <3>2. ~(h + a < i)
      BY <1>2, <2>1, <2>2
    <3>3. i <= h => u[i].type = "hs" /\ (u[i].last <=> i = h)
      BY <1>3, <3>1
    <3>4. h < i => u[i].type = "app" /\ u[i].v = d[i - h]
      BY <1>3, <2>2, <3>1
    <3>5. i = h + a => u[i].last
      BY <1>3, <3>1
    <3> QED BY <3>2, <3>3, <3>4, <3>5
  <2>3. CASE i = h + a + 1
    <3>1. u[i].type = "close" /\ u[i].last /\ ~(i <= h) /\ ~(i <= h + a) /\ i # h + a
      BY <1>1, <1>2, <2>3
    <3> QED BY <3>1
  <2> QED BY <1>2, <2>1, <2>2, <2>3
<1>5. Len(u) = h + a + 1
  BY <1>1, <1>2
<1>6. Shape(u, h, d, 1)
  BY <1>4, <1>5 DEF Shape, a
<1> QED BY <1>6 DEF u

-----------------------------------------------------------------------------
(* What the invariant says *)

(* The conjuncts of IInv by name, and the ranges of the constants.         *)
LEMMA Invariants ==
  ASSUME IInv
  PROVE  /\ Types /\ Handshake /\ Streams /\ Closing /\ Consumed
         /\ Given /\ Ending /\ Told /\ Announced /\ Silent
         /\ Queued /\ Synchronous /\ dropped = 0
         /\ transport \in {"queued", "synchronous"}
  BY SslAssumption DEF IInv, Types

LEMMA Bounds ==
  ASSUME Types
  PROVE  BioCap \in Nat /\ BioCap > 0 /\ RecordMax \in Nat /\ RecordMax > 0 /\ RecvMax \in Nat /\ RecvMax > 0
         /\ (transport = "queued" => RecvMax <= BioCap)
  BY SslAssumption DEF Types, BioCap

(* Over a synchronous transport: who runs, and what the other one does.    *)
LEMMA Runs ==
  ASSUME IInv, transport = "synchronous", NEW e \in Ends, Running(e), at[e] # "idle"
  PROVE  /\ wire[e] = <<>> /\ wire[Peer(e)] = <<>>
         /\ stack = <<>> => at[Peer(e)] = "idle"
         /\ stack # <<>> => Head(stack).end = e
         /\ at[Peer(e)] \in Pauses
         /\ unread[Peer(e)] = 0 \/ ssl[Peer(e)].fatal \/ ssl[Peer(e)].seen
<1>1. Paused /\ OneRecord
  BY Invariants DEF Synchronous
<1>2. Peer(e) \in Ends /\ Peer(Peer(e)) = e /\ Peer(e) # e /\ \A f \in Ends : f = e \/ f = Peer(e)
  BY TwoEnds
<1>3. wire[e] = <<>> /\ wire[Peer(e)] = <<>> /\ (stack # <<>> => Head(stack).end = e)
  BY <1>2 DEF Running, Delivered
<1>4. stack = <<>> => at[Peer(e)] = "idle"
  BY <1>1, <1>2 DEF Paused
<1>5. at[Peer(e)] \in Pauses
  BY <1>1, <1>2, <1>3, <1>4 DEF Paused, Pauses
<1>6. unread[Peer(e)] = 0 \/ ssl[Peer(e)].fatal \/ ssl[Peer(e)].seen
  BY <1>1, <1>2, <1>3 DEF OneRecord
<1> QED BY <1>3, <1>4, <1>5, <1>6

(* Steps that leave the streams alone. *)
LEMMA FlowStays ==
  ASSUME IInv,
         UNCHANGED <<status, ssl, in, stuck, wire, up, arg, wrote, received, transport>>,
         \A f \in Ends : unread[f] = 0 => unread'[f] = 0
  PROVE  Handshake' /\ Streams' /\ Closing'
<1>1. Handshake /\ Streams /\ Closing
  BY Invariants
<1>2. Handshake'
  BY <1>1 DEF Handshake, Phase, Stage
<1>3. /\ \A f \in Ends : Way(f)' = Way(f) /\ Hellos(f)' = Hellos(f)
      /\ Phase' = Phase /\ \A f \in Ends : Stage(f)' = Stage(f) /\ Closed(f)' = Closed(f)
  BY DEF Way, Near, Hellos, Phase, Stage, Closed
<1>4. Closing'
  BY <1>1, <1>3 DEF Closing
<1>5. ASSUME NEW f \in Ends, Stream(f) PROVE Stream(f)'
  <2>1. PICK h \in Nat, d \in Seq(Nat), c \in {0, 1}, r \in Seq(Nat) : Holds(f, h, d, c, r)
    BY <1>5 DEF Stream
  <2>2. Holds(f, h, d, c, r)'
    BY <1>3, <2>1 DEF Holds
  <2> QED BY <2>2 DEF Stream
<1>6. ASSUME NEW f \in Ends, Broken(f) PROVE Broken(f)'
  BY <1>3, <1>6 DEF Broken
<1>7. Streams'
  BY <1>1, <1>5, <1>6 DEF Streams
<1> QED BY <1>2, <1>4, <1>7

(* A step of a handler that only moves on. *)
LEMMA PausedStays ==
  ASSUME IInv, transport = "synchronous", NEW e \in Ends, Running(e), at[e] # "idle",
         NEW x, at' = [at EXCEPT ![e] = x], UNCHANGED <<wire, stack>>
  PROVE  Paused'
<1>1. /\ Peer(e) \in Ends /\ Peer(Peer(e)) = e /\ Peer(e) # e /\ \A f \in Ends : f = e \/ f = Peer(e)
  BY TwoEnds
<1>2. /\ wire[e] = <<>> /\ wire[Peer(e)] = <<>> /\ (stack = <<>> => at[Peer(e)] = "idle")
      /\ (stack # <<>> => Head(stack).end = e) /\ at[Peer(e)] \in Pauses
  BY Runs
<1>3. at'[Peer(e)] = at[Peer(e)]
  <2>1. at \in [Ends -> {"idle", "announce", "on_connected", "read", "on_received", "check",
                       "report", "on_disconnected", "app"}]
    BY Invariants DEF Types, TypeOK
  <2> QED BY <1>1, <2>1
<1>4. stack # <<>> => stack[Len(stack)].at = "idle"
  BY Invariants DEF Synchronous, Paused
<1>5. \A f \in Ends : wire'[f] = <<>>
  BY <1>1, <1>2
<1> QED BY <1>1, <1>2, <1>3, <1>4, <1>5 DEF Paused

(* A step of a handler that writes, and goes on where it may be stopped.   *)
LEMMA PausedWrites ==
  ASSUME IInv, transport = "synchronous", NEW e \in Ends, Running(e), at[e] # "idle" \/ at[Peer(e)] = "idle",
         NEW x \in Pauses, at' = [at EXCEPT ![e] = x], UNCHANGED <<stack, transport>>,
         at[e] = "idle" => stack = <<>>,
         NEW cells \in Seq(Cells), Len(cells) <= BioCap, wire' = [wire EXCEPT ![e] = @ \o cells]
  PROVE  Paused'
<1>1. /\ Peer(e) \in Ends /\ Peer(Peer(e)) = e /\ Peer(e) # e /\ \A f \in Ends : f = e \/ f = Peer(e)
  BY TwoEnds
<1>2. Types /\ Paused
  BY Invariants DEF Synchronous
<1>3. /\ wire[e] = <<>> /\ wire[Peer(e)] = <<>> /\ (stack = <<>> => at[Peer(e)] = "idle")
      /\ (stack # <<>> => Head(stack).end = e) /\ at[Peer(e)] \in Pauses
  <2>1. CASE at[e] # "idle"
    BY <2>1, Runs
  <2>2. CASE at[e] = "idle"
    BY <1>1, <2>2 DEF Running, Delivered, Pauses
  <2> QED BY <2>1, <2>2
<1>4. at'[Peer(e)] = at[Peer(e)] /\ at'[e] = x
  <2>1. at \in [Ends -> {"idle", "announce", "on_connected", "read", "on_received", "check",
                       "report", "on_disconnected", "app"}]
    BY <1>2 DEF Types, TypeOK
  <2> QED BY <1>1, <2>1
<1>5. wire'[e] = cells /\ wire'[Peer(e)] = <<>>
  <2>1. wire \in [Ends -> Seq(Cells)]
    BY <1>2 DEF Types
  <2>2. wire'[e] = <<>> \o cells /\ wire'[Peer(e)] = <<>>
    BY <1>1, <1>3, <2>1
  <2>3. <<>> \o cells = cells
    BY ConcatEmptySeq
  <2> QED BY <2>2, <2>3
<1>6. stack' = stack /\ BioCap' = BioCap /\ (stack # <<>> => stack[Len(stack)].at = "idle")
  BY <1>2 DEF Paused, BioCap
<1>7. (stack = <<>>)' => \E f \in Ends : at'[f] = "idle"
  BY <1>1, <1>3, <1>4, <1>6
<1>8. (stack # <<>>)' => at'[Peer(Head(stack').end)] \in Pauses /\ stack'[Len(stack')].at = "idle"
  BY <1>1, <1>3, <1>4, <1>6
<1>9. ASSUME NEW f \in Ends, wire'[f] # <<>>
      PROVE  /\ at'[f] \in Pauses /\ at'[Peer(f)] \in Pauses /\ wire'[Peer(f)] = <<>>
             /\ IF stack' = <<>> THEN at'[Peer(f)] = "idle" ELSE Head(stack').end = f
             /\ Len(wire'[f]) <= BioCap'
  <2>1. f = e
    BY <1>1, <1>5, <1>9
  <2> QED BY <1>1, <1>3, <1>4, <1>5, <1>6, <2>1
<1> QED BY <1>7, <1>8, <1>9 DEF Paused

(* While the server has not been told, over a synchronous transport. *)
LEMMA FirstRuns ==
  ASSUME IInv, transport = "synchronous", NEW e \in Ends, Running(e), at[e] # "idle",
         told[Server] = 0, Stage(Client) = "done"
  PROVE  \/ e = Server /\ at[Server] = "announce" /\ status[Server] = "connected" /\ stack # <<>>
              /\ Head(stack).end = Server /\ Delivered
         \/ e = Server /\ at[Server] = "on_connected" /\ stack # <<>> /\ Head(stack).end = Server /\ Delivered
         \/ e = Client /\ at[Client] \in {"read", "check"} /\ stack # <<>> /\ Head(stack).end = Client
              /\ Len(stack) > 1 /\ stack[2].end = Server /\ Delivered
              /\ Phase = <<"done", "done">> /\ status[Server] = "connected" /\ at[Server] = "announce"
<1>1. Client \in Ends /\ Server \in Ends /\ Client # Server /\ Peer(Server) = Client /\ Peer(Client) = Server
      /\ (e = Client \/ e = Server)
  BY TwoEnds, SslAssumption
<1>2. wire[e] = <<>> /\ wire[Peer(e)] = <<>> /\ (stack # <<>> => Head(stack).end = e)
  BY Runs
<1>3. wire[Client] = <<>> /\ wire[Server] = <<>>
  BY <1>1, <1>2
<1>4. \/ Ticket
      \/ at[Server] = "on_connected" /\ stack # <<>> /\ Head(stack).end = Server /\ Delivered
  <2>1. ServerFirst
    BY Invariants DEF Synchronous
  <2> QED BY <1>3, <2>1 DEF ServerFirst
<1> QED BY <1>1, <1>2, <1>3, <1>4 DEF Ticket

(* Over a synchronous transport a handler that moves on disturbs no record. *)
LEMMA RecordStays ==
  ASSUME IInv, transport = "synchronous", NEW e \in Ends, Running(e), at[e] # "idle",
         UNCHANGED <<in, wire, ssl>>,
         unread'[Peer(e)] = unread[Peer(e)],
         unread'[e] = 0 \/ ssl[e].fatal \/ ssl[e].seen
  PROVE  OneRecord'
<1>1. Peer(e) \in Ends /\ \A f \in Ends : f = e \/ f = Peer(e)
  BY TwoEnds
<1>2. \A f \in Ends : unread'[f] = 0 \/ ssl[f].fatal \/ ssl[f].seen
  BY <1>1, Runs
<1>3. OneRecord
  BY Invariants DEF Synchronous
<1>4. \A f \in Ends : Near(f)' = Near(f)
  BY DEF Near
<1> QED BY <1>2, <1>3, <1>4 DEF OneRecord

(* unread does not count while a handler may be stopped. *)
LEMMA NothingUnread ==
  ASSUME IInv, transport = "synchronous", NEW e \in Ends, at[e] \notin {"read", "report"}
  PROVE  unread[e] = 0 \/ ssl[e].fatal \/ ssl[e].seen
  BY Invariants DEF Synchronous, OneRecord

(* The steps of a handler that neither read nor write: each action of Next *)
(* that leaves the streams alone keeps IInv.                               *)
LEMMA AnnounceStep ==
  ASSUME IInv, NEW e \in Ends, Running(e), Announce(e), UNCHANGED <<stack, Configuration>>
  PROVE  IInv'
<1> DEFINE x == IF status[e] = "connected" THEN "on_connected" ELSE "read"
<1>1. /\ at[e] = "announce" /\ at' = [at EXCEPT ![e] = x]
      /\ UNCHANGED <<status, ssl, in, unread, stuck, wire, up, tail, arg, outbox, wrote, received, told, ended,
                     dropped, stack, app, transport>>
  BY DEF Announce, appVars, Configuration
<1>2. /\ Types /\ Handshake /\ Streams /\ Closing /\ Consumed
      /\ Given /\ Ending /\ Told /\ Announced /\ Silent
      /\ Queued /\ Synchronous /\ dropped = 0
      /\ transport \in {"queued", "synchronous"}
  BY Invariants
<1>3. /\ Peer(e) \in Ends /\ Peer(e) # e /\ \A f \in Ends : f = e \/ f = Peer(e)
      /\ Client \in Ends /\ Server \in Ends /\ Client # Server
  BY TwoEnds, SslAssumption
<1>4. at'[e] = x /\ (\A f \in Ends : f # e => at'[f] = at[f])
  BY <1>1, <1>2, <1>3 DEF Types, TypeOK
<1>5. Stage(e)' = Stage(e) /\ \A f \in Ends : Stage(f)' = Stage(f) /\ Closed(f)' = Closed(f)
  BY <1>1 DEF Stage, Closed
<1>6. status[e] = "connected" => Stage(e) = "done"
  BY <1>2 DEF Handshake
<1>7. Types'
  BY <1>1, <1>2 DEF Types, TypeOK, Frames, BioCap
<1>8. Handshake' /\ Streams' /\ Closing'
  BY <1>1, FlowStays
<1>9. Consumed'
  BY <1>1, <1>2 DEF Consumed
<1>10. Given'
  BY <1>1, <1>2, <1>3, <1>4 DEF Given
<1>11. Ending'
  BY <1>1, <1>2, <1>3, <1>4, <1>5 DEF Ending
<1>12. Told'
  BY <1>1, <1>2, <1>3, <1>4, <1>5, <1>6 DEF Told
<1>13. Announced'
  BY <1>1, <1>2, <1>3, <1>4 DEF Announced
<1>14. Silent'
  BY <1>1, <1>2 DEF Silent
<1>15. Queued'
  BY <1>1, <1>2, <1>3, <1>4, <1>5 DEF Queued
<1>16. ASSUME transport = "synchronous" PROVE Paused' /\ OneRecord' /\ Sizes' /\ ServerFirst'
  <2>1. Paused'
    BY <1>1, <1>16, PausedStays
  <2>2. OneRecord'
    BY <1>1, <1>3, <1>16, NothingUnread, RecordStays
  <2>3. Sizes'
    BY <1>1, <1>2, <1>16 DEF Synchronous, Sizes
  <2>4. ServerFirst'
    <3>1. ServerFirst
      BY <1>2, <1>16 DEF Synchronous
    <3>2. CASE told[Server] = 0 /\ Stage(Client) = "done"
      <4>1. e = Server /\ status[Server] = "connected" /\ stack # <<>> /\ Head(stack).end = Server /\ Delivered
        BY <1>1, <1>16, <3>2, FirstRuns
      <4>2. at'[Server] = "on_connected" /\ at'[Client] = at[Client] /\ Delivered'
        BY <1>1, <1>3, <1>4, <4>1 DEF Delivered
      <4> QED BY <1>1, <1>5, <3>1, <3>2, <4>1, <4>2 DEF ServerFirst
    <3>3. CASE told[Server] # 0
      BY <1>1, <3>3 DEF ServerFirst
    <3>4. CASE told[Server] = 0 /\ Stage(Client) # "done"
      BY <1>1, <1>3, <1>4, <1>5, <1>6, <3>1, <3>4 DEF ServerFirst
    <3> QED BY <3>2, <3>3, <3>4
  <2> QED BY <2>1, <2>2, <2>3, <2>4
<1> QED BY <1>1, <1>2, <1>7, <1>8, <1>9, <1>10, <1>11, <1>12, <1>13, <1>14, <1>15, <1>16 DEF IInv, Synchronous

LEMMA ReturnStep ==
  ASSUME IInv, NEW e \in Ends, Running(e), Return(e), UNCHANGED <<stack, Configuration>>
  PROVE  IInv'
<1> DEFINE x == "read"
<1>1. /\ at[e] = "app" /\ at' = [at EXCEPT ![e] = x] /\ outbox[e] = <<>>
      /\ UNCHANGED <<status, ssl, in, unread, stuck, wire, up, tail, arg, outbox, wrote, received, told, ended, dropped, stack, app, transport>>
  BY DEF Return, appVars, Configuration
<1>2. /\ Types /\ Handshake /\ Streams /\ Closing /\ Consumed
      /\ Given /\ Ending /\ Told /\ Announced /\ Silent
      /\ Queued /\ Synchronous /\ dropped = 0
      /\ transport \in {"queued", "synchronous"}
  BY Invariants
<1>3. /\ Peer(e) \in Ends /\ Peer(e) # e /\ \A f \in Ends : f = e \/ f = Peer(e)
      /\ Client \in Ends /\ Server \in Ends /\ Client # Server
  BY TwoEnds, SslAssumption
<1>4. at'[e] = x /\ (\A f \in Ends : f # e => at'[f] = at[f])
  BY <1>1, <1>2, <1>3 DEF Types, TypeOK
<1>5. \A f \in Ends : Stage(f)' = Stage(f) /\ Closed(f)' = Closed(f)
  BY <1>1 DEF Stage, Closed
<1>6. told[e] # 0 /\ Stage(e) = "done"
  <2>1. told[e] \in Nat
    BY <1>2 DEF Types, TypeOK
  <2>2. told[e] # 0
    BY <1>1, <1>2 DEF Told
  <2> QED BY <1>2, <2>1, <2>2 DEF Told
<1>7. Types'
  BY <1>1, <1>2 DEF Types, TypeOK, Frames, BioCap
<1>8. Handshake' /\ Streams' /\ Closing'
  BY <1>1, FlowStays
<1>9. Consumed'
  BY <1>1, <1>2 DEF Consumed
<1>10. Given'
  BY <1>1, <1>2, <1>3, <1>4 DEF Given
<1>11. Ending'
  BY <1>1, <1>2, <1>3, <1>4, <1>5, <1>6 DEF Ending, Closed
<1>12. Told'
  BY <1>1, <1>2, <1>3, <1>4, <1>5, <1>6 DEF Told
<1>13. Announced'
  BY <1>1, <1>2, <1>3, <1>4, <1>6 DEF Announced
<1>14. Silent'
  BY <1>1, <1>2 DEF Silent
<1>15. Queued'
  BY <1>1, <1>2, <1>3, <1>4, <1>5, <1>6 DEF Queued
<1>16. ASSUME transport = "synchronous" PROVE Paused' /\ OneRecord' /\ Sizes' /\ ServerFirst'
  <2>1. Paused'
    BY <1>1, <1>16, PausedStays
  <2>2. OneRecord'
    BY <1>1, <1>3, <1>16, NothingUnread, RecordStays
  <2>3. Sizes'
    BY <1>1, <1>2, <1>16 DEF Synchronous, Sizes
  <2>4. ServerFirst'
    <3>1. ServerFirst
      BY <1>2, <1>16 DEF Synchronous
    <3> QED BY <1>1, <1>3, <1>6, <3>1 DEF ServerFirst
  <2> QED BY <2>1, <2>2, <2>3, <2>4
<1> QED BY <1>1, <1>2, <1>7, <1>8, <1>9, <1>10, <1>11, <1>12, <1>13, <1>14, <1>15, <1>16 DEF IInv, Synchronous

LEMMA ReportStep ==
  ASSUME IInv, NEW e \in Ends, Running(e), Report(e), UNCHANGED <<stack, Configuration>>
  PROVE  IInv'
<1> DEFINE x == IF status[e] = "closed" THEN "on_disconnected" ELSE "read"
<1>1. /\ at[e] = "report" /\ at' = [at EXCEPT ![e] = x]
      /\ UNCHANGED <<status, ssl, in, unread, stuck, wire, up, tail, arg, outbox, wrote, received, told, ended, dropped, stack, app, transport>>
  BY DEF Report, appVars, Configuration
<1>2. /\ Types /\ Handshake /\ Streams /\ Closing /\ Consumed
      /\ Given /\ Ending /\ Told /\ Announced /\ Silent
      /\ Queued /\ Synchronous /\ dropped = 0
      /\ transport \in {"queued", "synchronous"}
  BY Invariants
<1>3. /\ Peer(e) \in Ends /\ Peer(e) # e /\ \A f \in Ends : f = e \/ f = Peer(e)
      /\ Client \in Ends /\ Server \in Ends /\ Client # Server
  BY TwoEnds, SslAssumption
<1>4. at'[e] = x /\ (\A f \in Ends : f # e => at'[f] = at[f])
  BY <1>1, <1>2, <1>3 DEF Types, TypeOK
<1>5. \A f \in Ends : Stage(f)' = Stage(f) /\ Closed(f)' = Closed(f)
  BY <1>1 DEF Stage, Closed
<1>6. told[e] # 0 /\ Stage(e) = "done"
  <2>1. told[e] \in Nat
    BY <1>2 DEF Types, TypeOK
  <2>2. told[e] # 0
    BY <1>1, <1>2 DEF Told
  <2> QED BY <1>2, <2>1, <2>2 DEF Told
<1>7. Types'
  BY <1>1, <1>2 DEF Types, TypeOK, Frames, BioCap
<1>8. Handshake' /\ Streams' /\ Closing'
  BY <1>1, FlowStays
<1>9. Consumed'
  BY <1>1, <1>2 DEF Consumed
<1>10. Given'
  BY <1>1, <1>2, <1>3, <1>4 DEF Given
<1>11. Ending'
  BY <1>1, <1>2, <1>3, <1>4, <1>5, <1>6 DEF Ending, Closed
<1>12. Told'
  BY <1>1, <1>2, <1>3, <1>4, <1>5, <1>6 DEF Told
<1>13. Announced'
  BY <1>1, <1>2, <1>3, <1>4, <1>6 DEF Announced
<1>14. Silent'
  BY <1>1, <1>2 DEF Silent
<1>15. Queued'
  BY <1>1, <1>2, <1>3, <1>4, <1>5, <1>6 DEF Queued
<1>16. ASSUME transport = "synchronous" PROVE Paused' /\ OneRecord' /\ Sizes' /\ ServerFirst'
  <2>1. Paused'
    BY <1>1, <1>16, PausedStays
  <2>2. OneRecord'
    <3>1. OneRecord /\ \A f \in Ends : Near(f)' = Near(f)
      BY <1>1, <1>2, <1>16 DEF Synchronous, Near
    <3>2. x = "on_disconnected" => ssl[e].seen
      BY <1>2, <1>6 DEF Closing, Closed
    <3>3. Delivered' = Delivered
      BY <1>1 DEF Delivered
    <3> QED BY <1>1, <1>3, <1>4, <3>1, <3>2, <3>3 DEF OneRecord
  <2>3. Sizes'
    BY <1>1, <1>2, <1>16 DEF Synchronous, Sizes
  <2>4. ServerFirst'
    <3>1. ServerFirst
      BY <1>2, <1>16 DEF Synchronous
    <3> QED BY <1>1, <1>3, <1>6, <3>1 DEF ServerFirst
  <2> QED BY <2>1, <2>2, <2>3, <2>4
<1> QED BY <1>1, <1>2, <1>7, <1>8, <1>9, <1>10, <1>11, <1>12, <1>13, <1>14, <1>15, <1>16 DEF IInv, Synchronous

LEMMA OnDisconnectedStep ==
  ASSUME IInv, NEW e \in Ends, Running(e), OnDisconnected(e), UNCHANGED <<stack, Configuration>>
  PROVE  IInv'
<1> DEFINE x == "read"
<1>1. /\ at[e] = "on_disconnected" /\ at' = [at EXCEPT ![e] = x] /\ ended' = [ended EXCEPT ![e] = @ + 1]
      /\ UNCHANGED <<status, ssl, in, unread, stuck, wire, up, tail, arg, outbox, wrote, received, told, dropped, stack, app, transport>>
  BY DEF OnDisconnected, appVars, Configuration
<1>2. /\ Types /\ Handshake /\ Streams /\ Closing /\ Consumed
      /\ Given /\ Ending /\ Told /\ Announced /\ Silent
      /\ Queued /\ Synchronous /\ dropped = 0
      /\ transport \in {"queued", "synchronous"}
  BY Invariants
<1>3. /\ Peer(e) \in Ends /\ Peer(e) # e /\ \A f \in Ends : f = e \/ f = Peer(e)
      /\ Client \in Ends /\ Server \in Ends /\ Client # Server
  BY TwoEnds, SslAssumption
<1>4. at'[e] = x /\ (\A f \in Ends : f # e => at'[f] = at[f])
  BY <1>1, <1>2, <1>3 DEF Types, TypeOK
<1>5. \A f \in Ends : Stage(f)' = Stage(f) /\ Closed(f)' = Closed(f)
  BY <1>1 DEF Stage, Closed
<1>6. told[e] # 0 /\ Stage(e) = "done"
  <2>1. told[e] \in Nat
    BY <1>2 DEF Types, TypeOK
  <2>2. told[e] # 0
    BY <1>1, <1>2 DEF Told
  <2> QED BY <1>2, <2>1, <2>2 DEF Told
<1>7. Types'
  <2>1. ended' \in [Ends -> Nat]
    BY <1>1, <1>2 DEF Types, TypeOK
  <2> QED BY <1>1, <1>2, <2>1 DEF Types, TypeOK, Frames, BioCap
<1>8. Handshake' /\ Streams' /\ Closing'
  BY <1>1, FlowStays
<1>9. Consumed'
  BY <1>1, <1>2 DEF Consumed
<1>10. Given'
  BY <1>1, <1>2, <1>3, <1>4 DEF Given
<1>11. Ending'
  <2>1. \A f \in Ends : f # e => ended'[f] = ended[f]
    BY <1>1, <1>2 DEF Types, TypeOK
  <2> QED BY <1>1, <1>2, <1>3, <1>4, <1>5, <2>1 DEF Ending
<1>12. Told'
  <2>1. \A f \in Ends : f # e => ended'[f] = ended[f]
    BY <1>1, <1>2 DEF Types, TypeOK
  <2> QED BY <2>1, <1>1, <1>2, <1>3, <1>4, <1>5, <1>6 DEF Told
<1>13. Announced'
  BY <1>1, <1>2, <1>3, <1>4, <1>6 DEF Announced
<1>14. Silent'
  BY <1>1, <1>2 DEF Silent
<1>15. Queued'
  <2>1. ended'[e] = ended[e] + 1 /\ (\A f \in Ends : f # e => ended'[f] = ended[f]) /\ ended[e] \in Nat
    BY <1>1, <1>2, <1>3 DEF Types, TypeOK
  <2> QED BY <2>1, <1>1, <1>2, <1>3, <1>4, <1>5, <1>6 DEF Queued
<1>16. ASSUME transport = "synchronous" PROVE Paused' /\ OneRecord' /\ Sizes' /\ ServerFirst'
  <2>1. Paused'
    BY <1>1, <1>16, PausedStays
  <2>2. OneRecord'
    BY <1>1, <1>3, <1>16, NothingUnread, RecordStays
  <2>3. Sizes'
    BY <1>1, <1>2, <1>16 DEF Synchronous, Sizes
  <2>4. ServerFirst'
    <3>1. ServerFirst
      BY <1>2, <1>16 DEF Synchronous
    <3> QED BY <1>1, <1>3, <1>6, <3>1 DEF ServerFirst
  <2> QED BY <2>1, <2>2, <2>3, <2>4
<1> QED BY <1>1, <1>2, <1>7, <1>8, <1>9, <1>10, <1>11, <1>12, <1>13, <1>14, <1>15, <1>16 DEF IInv, Synchronous

LEMMA OnConnectedStep ==
  ASSUME IInv, NEW e \in Ends, Running(e), OnConnected(e), UNCHANGED <<stack, Configuration>>
  PROVE  IInv'
<1> DEFINE x == "app"
<1>1. /\ at[e] = "on_connected" /\ at' = [at EXCEPT ![e] = x]
      /\ told' = [told EXCEPT ![e] = @ + 1]
      /\ outbox' = [outbox EXCEPT ![e] = IF e = Client THEN Messages ELSE <<>>]
      /\ UNCHANGED <<status, ssl, in, unread, stuck, wire, up, tail, arg, wrote, received, ended, dropped, stack, app, transport>>
  BY DEF OnConnected, appVars, Configuration
<1>2. /\ Types /\ Handshake /\ Streams /\ Closing /\ Consumed
      /\ Given /\ Ending /\ Told /\ Announced /\ Silent
      /\ Queued /\ Synchronous /\ dropped = 0
      /\ transport \in {"queued", "synchronous"}
  BY Invariants
<1>3. /\ Peer(e) \in Ends /\ Peer(e) # e /\ \A f \in Ends : f = e \/ f = Peer(e)
      /\ Client \in Ends /\ Server \in Ends /\ Client # Server
  BY TwoEnds, SslAssumption
<1>4. at'[e] = x /\ (\A f \in Ends : f # e => at'[f] = at[f])
  BY <1>1, <1>2, <1>3 DEF Types, TypeOK
<1>5. \A f \in Ends : Stage(f)' = Stage(f) /\ Closed(f)' = Closed(f)
  BY <1>1 DEF Stage, Closed
<1>6. /\ told'[e] = told[e] + 1 /\ told'[e] # 0 /\ told[e] \in Nat
      /\ outbox'[e] = IF e = Client THEN Messages ELSE <<>>
      /\ \A f \in Ends : f # e => told'[f] = told[f] /\ outbox'[f] = outbox[f]
  <2>1. told \in [Ends -> Nat] /\ outbox \in [Ends -> Seq(Seq(Nat))]
    BY <1>2 DEF Types, TypeOK
  <2>2. told[e] \in Nat /\ told'[e] = told[e] + 1 /\ \A f \in Ends : f # e => told'[f] = told[f]
    BY <1>1, <2>1
  <2>3. /\ outbox'[e] = IF e = Client THEN Messages ELSE <<>>
        /\ \A f \in Ends : f # e => outbox'[f] = outbox[f]
    BY <1>1, <2>1
  <2> QED BY <2>2, <2>3
<1>7. Types'
  <2>1. Messages \in Seq(Seq(Nat)) /\ <<>> \in Seq(Seq(Nat))
    BY SslAssumption, EmptySeq
  <2> QED BY <1>1, <1>2, <2>1, SMTT(30) DEF Types, TypeOK, Frames, BioCap
<1>8. Handshake' /\ Streams' /\ Closing'
  BY <1>1, FlowStays
<1>9. Consumed'
  BY <1>1, <1>2 DEF Consumed
<1>10. Given'
  BY <1>1, <1>2, <1>3, <1>4 DEF Given
<1>11. Ending'
  BY <1>1, <1>2, <1>3, <1>4, <1>5 DEF Ending
<1>12. Told'
  BY <1>1, <1>2, <1>3, <1>4, <1>5, <1>6 DEF Told
<1>13. Announced'
  BY <1>1, <1>2, <1>3, <1>4, <1>6 DEF Announced
<1>14. Silent'
  BY <1>1, <1>2, <1>3, <1>6 DEF Silent
<1>15. Queued'
  BY <1>1, <1>2, <1>3, <1>4, <1>5, <1>6 DEF Queued
<1>16. ASSUME transport = "synchronous" PROVE Paused' /\ OneRecord' /\ Sizes' /\ ServerFirst'
  <2>1. Paused'
    BY <1>1, <1>16, PausedStays
  <2>2. OneRecord'
    BY <1>1, <1>3, <1>16, NothingUnread, RecordStays
  <2>3. Sizes'
    <3>1. Short(outbox'[e])
      <4>1. \A i \in DOMAIN Messages : Len(Messages[i]) <= RecordMax
        BY <1>2, <1>16, SslAssumption DEF Types
      <4> QED BY <1>6, <4>1, EmptySeq DEF Short
    <3> QED BY <1>1, <1>2, <1>3, <1>6, <1>16, <3>1 DEF Synchronous, Sizes
  <2>4. ServerFirst'
    <3>1. ServerFirst
      BY <1>2, <1>16 DEF Synchronous
    <3> QED BY <1>1, <1>3, <1>6, <3>1 DEF ServerFirst
  <2> QED BY <2>1, <2>2, <2>3, <2>4
<1> QED BY <1>1, <1>2, <1>7, <1>8, <1>9, <1>10, <1>11, <1>12, <1>13, <1>14, <1>15, <1>16 DEF IInv, Synchronous

LEMMA ReadNothingStep ==
  ASSUME IInv, NEW e \in Ends, Running(e), ReadNothing(e), UNCHANGED <<stack, Configuration>>
  PROVE  IInv'
<1> DEFINE x == IF tail[e] THEN "check" ELSE "idle"
<1>1. /\ at[e] = "read" /\ at' = [at EXCEPT ![e] = x]
      /\ ssl[e].fatal \/ ssl[e].seen \/ FirstEnd(in[e]) = 0
      /\ unread' = [unread EXCEPT ![e] = IF ssl[e].fatal \/ ssl[e].seen THEN @ ELSE 0]
      /\ UNCHANGED <<status, ssl, in, stuck, wire, up, tail, arg, outbox, wrote, received, told, ended, dropped, stack, app, transport>>
  BY DEF ReadNothing, appVars, Configuration
<1>2. /\ Types /\ Handshake /\ Streams /\ Closing /\ Consumed
      /\ Given /\ Ending /\ Told /\ Announced /\ Silent
      /\ Queued /\ Synchronous /\ dropped = 0
      /\ transport \in {"queued", "synchronous"}
  BY Invariants
<1>3. /\ Peer(e) \in Ends /\ Peer(e) # e /\ \A f \in Ends : f = e \/ f = Peer(e)
      /\ Client \in Ends /\ Server \in Ends /\ Client # Server
  BY TwoEnds, SslAssumption
<1>4. at'[e] = x /\ (\A f \in Ends : f # e => at'[f] = at[f])
  BY <1>1, <1>2, <1>3 DEF Types, TypeOK
<1>5. \A f \in Ends : Stage(f)' = Stage(f) /\ Closed(f)' = Closed(f)
  BY <1>1 DEF Stage, Closed
<1>6. /\ unread'[e] = (IF ssl[e].fatal \/ ssl[e].seen THEN unread[e] ELSE 0)
      /\ unread'[Peer(e)] = unread[Peer(e)] /\ unread' \in [Ends -> Nat]
      /\ \A f \in Ends : unread'[f] = 0 \/ unread'[f] = unread[f]
  <2>1. unread \in [Ends -> Nat]
    BY <1>2 DEF Types
  <2> QED BY <1>1, <1>3, <2>1
<1>7. Types'
  <2>1. \A f \in Ends : 0 \in 0 .. BioCap /\ 0 <= Len(in[f])
    BY <1>2, Bounds, LenProperties, SMTT(30) DEF Types
  <2> QED BY <1>1, <1>2, <1>6, <2>1 DEF Types, TypeOK, Frames, BioCap
<1>8. Handshake' /\ Streams' /\ Closing'
  BY <1>1, <1>6, FlowStays
<1>9. Consumed'
  <2>1. ASSUME ~ssl[e].fatal, ~ssl[e].seen PROVE \A i \in 1 .. Len(in[e]) - unread'[e] : ~in[e][i].last
    <3>1. in[e] \in Seq(Cells)
      BY <1>2 DEF Types
    <3>2. Len(in[e]) \in Nat /\ \A i \in 1 .. Len(in[e]) : ~in[e][i].last
      BY <1>1, <2>1, <3>1, FirstRecord, LenProperties
    <3> QED BY <1>6, <2>1, <3>2
  <2>2. \A i \in 1 .. Len(in[e]) - unread'[e] : ~in[e][i].last
    BY <1>2, <1>6, <2>1 DEF Consumed
  <2> QED BY <1>1, <1>2, <1>3, <1>6, <2>2 DEF Consumed
<1>10. Given'
  BY <1>1, <1>2, <1>3, <1>4 DEF Given
<1>11. Ending'
  BY <1>1, <1>2, <1>3, <1>4, <1>5 DEF Ending
<1>12. Told'
  BY <1>1, <1>2, <1>3, <1>4, <1>5 DEF Told
<1>13. Announced'
  BY <1>1, <1>2, <1>3, <1>4 DEF Announced
<1>14. Silent'
  BY <1>1, <1>2 DEF Silent
<1>15. Queued'
  BY <1>1, <1>2, <1>3, <1>4, <1>5, <1>6 DEF Queued
<1>16. ASSUME transport = "synchronous" PROVE Paused' /\ OneRecord' /\ Sizes' /\ ServerFirst'
  <2>1. Paused'
    BY <1>1, <1>16, PausedStays
  <2>2. OneRecord'
    BY <1>1, <1>6, <1>16, RecordStays
  <2>3. Sizes'
    BY <1>1, <1>2, <1>16 DEF Synchronous, Sizes
  <2>4. ServerFirst'
    <3>1. ServerFirst
      BY <1>2, <1>16 DEF Synchronous
    <3>2. CASE told[Server] = 0 /\ Stage(Client) = "done"
      <4>1. /\ e = Client /\ stack # <<>> /\ Head(stack).end = Client
            /\ Len(stack) > 1 /\ stack[2].end = Server /\ Delivered
            /\ Phase = <<"done", "done">> /\ status[Server] = "connected" /\ at[Server] = "announce"
        BY <1>1, <1>16, <3>2, FirstRuns
      <4>2. at'[Client] \in {"check", "idle"} /\ at'[Server] = at[Server] /\ Delivered' /\ Phase' = Phase
        BY <1>1, <1>3, <1>4, <4>1 DEF Delivered, Phase, Stage
      <4>3. Ticket'
        BY <1>1, <4>1, <4>2 DEF Ticket
      <4> QED BY <1>1, <1>5, <3>1, <3>2, <4>2, <4>3 DEF ServerFirst
    <3>3. CASE told[Server] # 0
      BY <1>1, <3>3 DEF ServerFirst
    <3>4. CASE told[Server] = 0 /\ Stage(Client) # "done"
      BY <1>1, <1>3, <1>4, <1>5, <3>1, <3>4 DEF ServerFirst
    <3> QED BY <3>2, <3>3, <3>4
  <2> QED BY <2>1, <2>2, <2>3, <2>4
<1> QED BY <1>1, <1>2, <1>7, <1>8, <1>9, <1>10, <1>11, <1>12, <1>13, <1>14, <1>15, <1>16 DEF IInv, Synchronous

(* A handler that was entered inside a write returns, and the one below    *)
(* goes on.                                                                *)
LEMMA ReturnsStep ==
  ASSUME IInv, NEW e \in Ends, HandlerReturns(e), UNCHANGED Configuration
  PROVE  IInv'
<1> DEFINE g == Head(stack)
<1>1. /\ stack # <<>> /\ Running(e) /\ at[e] = "idle"
      /\ at' = [at EXCEPT ![e] = g.at]
      /\ tail' = [tail EXCEPT ![e] = g.tail]
      /\ outbox' = [outbox EXCEPT ![e] = g.outbox]
      /\ stack' = Tail(stack)
      /\ UNCHANGED <<status, ssl, in, unread, stuck, wire, up, arg, wrote, received, told, ended, dropped, app, transport>>
  BY DEF HandlerReturns, Configuration
<1>2. /\ Types /\ Handshake /\ Streams /\ Closing /\ Consumed
      /\ Given /\ Ending /\ Told /\ Announced /\ Silent
      /\ Queued /\ Synchronous /\ dropped = 0
      /\ transport \in {"queued", "synchronous"}
  BY Invariants
<1>3. /\ Peer(e) \in Ends /\ Peer(e) # e /\ Peer(Peer(e)) = e /\ \A f \in Ends : f = e \/ f = Peer(e)
      /\ Client \in Ends /\ Server \in Ends /\ Client # Server /\ Peer(Client) = Server /\ Peer(Server) = Client
  BY TwoEnds, SslAssumption
<1>4. transport = "synchronous" /\ g.end = e /\ wire[e] = <<>> /\ wire[Peer(e)] = <<>>
  BY <1>1, <1>2, <1>3 DEF Running, Delivered, Queued
<1>5. /\ stack \in Seq(Frames) /\ Len(stack) \in Nat \ {0} /\ DOMAIN stack = 1 .. Len(stack)
      /\ g = stack[1] /\ g \in Frames /\ 1 \in DOMAIN stack
      /\ stack' \in Seq(Frames) /\ Len(stack') = Len(stack) - 1 /\ DOMAIN stack' = 1 .. Len(stack) - 1
      /\ \A i \in DOMAIN stack' : i + 1 \in DOMAIN stack /\ stack'[i] = stack[i + 1]
      /\ (stack' = <<>> <=> Len(stack) = 1)
      /\ (stack' # <<>> => Len(stack) > 1 /\ Head(stack') = stack[2])
  <2>1. stack \in Seq(Frames)
    BY <1>2 DEF Types
  <2>2. /\ Len(stack) \in Nat \ {0} /\ DOMAIN stack = 1 .. Len(stack) /\ g \in Frames
        /\ stack' \in Seq(Frames) /\ Len(stack') = Len(stack) - 1
        /\ \A i \in 1 .. Len(stack') : stack'[i] = stack[i + 1]
    BY <1>1, <2>1, HeadTailProperties, LenProperties, EmptySeq
  <2>3. g = stack[1]
    BY <2>1
  <2>4. DOMAIN stack' = 1 .. Len(stack')
    BY <2>2, LenProperties
  <2>5. stack' = <<>> <=> Len(stack) = 1
    BY <2>2, EmptySeq
  <2>6. \A i \in 1 .. Len(stack) - 1 : i + 1 \in 1 .. Len(stack)
    BY <2>2
  <2>7. ASSUME stack' # <<>> PROVE Len(stack) > 1 /\ Head(stack') = stack[2]
    <3>1. Len(stack) > 1 /\ 1 \in 1 .. Len(stack')
      BY <2>2, <2>5, <2>7
    <3>2. Head(stack') = stack'[1] /\ stack'[1] = stack[1 + 1]
      BY <2>2, <3>1
    <3> QED BY <3>1, <3>2
  <2> QED BY <2>1, <2>2, <2>3, <2>4, <2>5, <2>6, <2>7
<1> HIDE DEF g
<1>6. /\ g.at \in Pauses /\ g.tail \in BOOLEAN /\ g.outbox \in Seq(Seq(Nat))
      /\ at'[e] = g.at /\ outbox'[e] = g.outbox
      /\ \A f \in Ends : f # e => at'[f] = at[f] /\ outbox'[f] = outbox[f]
      /\ \A f \in Ends : Stage(f)' = Stage(f) /\ Closed(f)' = Closed(f)
  <2>1. g.at \in Pauses /\ g.tail \in BOOLEAN /\ g.outbox \in Seq(Seq(Nat))
    BY <1>5 DEF Frames
  <2> QED BY <1>1, <1>2, <2>1 DEF Types, TypeOK, Stage, Closed
<1>7. Types'
  <2>1. /\ at' \in [Ends -> {"idle", "announce", "on_connected", "read", "on_received", "check",
                       "report", "on_disconnected", "app"}]
    BY <1>1, <1>2, <1>6 DEF Types, TypeOK, Pauses
  <2>2. tail' \in [Ends -> BOOLEAN] /\ outbox' \in [Ends -> Seq(Seq(Nat))]
    BY <1>1, <1>2, <1>6 DEF Types, TypeOK
  <2> QED BY <1>1, <1>2, <1>5, <2>1, <2>2 DEF Types, TypeOK, Frames, BioCap
<1>8. Handshake' /\ Streams' /\ Closing'
  BY <1>1, FlowStays
<1>9. Consumed'
  BY <1>1, <1>2 DEF Consumed
<1>10. Given'
  BY <1>1, <1>2, <1>3, <1>6 DEF Given, Pauses
<1>11. Ending'
  BY <1>1, <1>2, <1>3, <1>6 DEF Ending, Pauses
<1>12. Told'
  <2>1. ASSUME NEW f \in Ends, told[f] = 0
        PROVE  /\ at'[f] \notin {"app", "report", "on_received", "on_disconnected"} /\ outbox'[f] = <<>>
               /\ \A i \in DOMAIN stack' : stack'[i].end = f => stack'[i].at \in {"idle", "announce"} /\ stack'[i].outbox = <<>>
    <3>1. \A i \in DOMAIN stack : stack[i].end = f => stack[i].at \in {"idle", "announce"} /\ stack[i].outbox = <<>>
      BY <1>2, <2>1 DEF Told
    <3>2. f = e => at'[f] \in {"idle", "announce"} /\ outbox'[f] = <<>>
      BY <1>4, <1>5, <1>6, <3>1
    <3> QED BY <1>2, <1>5, <1>6, <2>1, <3>1, <3>2 DEF Told
  <2>2. \A f \in Ends : at'[f] = "on_connected" => at[f] = "on_connected"
    BY <1>3, <1>6 DEF Pauses
  <2> QED BY <1>1, <1>2, <1>6, <2>1, <2>2 DEF Told
<1>13. Announced'
  <2>1. ASSUME NEW f \in Ends, told[f] = 0, status[f] = "connected"
        PROVE  at'[f] \in {"announce", "on_connected"} \/ \E i \in DOMAIN stack' : stack'[i].end = f /\ stack'[i].at = "announce"
    <3>1. CASE f # e /\ at[f] \in {"announce", "on_connected"}
      BY <1>6, <3>1
    <3>2. CASE ~(f # e /\ at[f] \in {"announce", "on_connected"})
      <4>1. PICK i \in DOMAIN stack : stack[i].end = f /\ stack[i].at = "announce"
        BY <1>1, <1>2, <2>1, <3>2 DEF Announced
      <4>2. CASE i = 1
        BY <1>4, <1>5, <1>6, <4>1, <4>2
      <4>3. CASE i # 1
        <5>1. i - 1 \in DOMAIN stack' /\ i - 1 + 1 = i
          BY <1>5, <4>3
        <5>2. stack'[i - 1] = stack[i]
          BY <1>5, <5>1
        <5> QED BY <4>1, <5>1, <5>2
      <4> QED BY <4>2, <4>3
    <3> QED BY <3>1, <3>2
  <2> QED BY <1>1, <2>1 DEF Announced
<1>14. Silent'
  <2>1. ASSUME told[Client] = 0
        PROVE  (\A f \in Ends : outbox'[f] = <<>>) /\ \A i \in DOMAIN stack' : stack'[i].outbox = <<>>
    <3>1. (\A f \in Ends : outbox[f] = <<>>) /\ \A i \in DOMAIN stack : stack[i].outbox = <<>>
      BY <1>2, <2>1 DEF Silent
    <3>2. g.outbox = <<>>
      BY <1>5, <3>1
    <3> QED BY <1>5, <1>6, <3>1, <3>2
  <2> QED BY <1>1, <1>2, <2>1 DEF Silent
<1>15. Queued'
  BY <1>1, <1>4 DEF Queued
<1>16. Paused' /\ OneRecord' /\ Sizes' /\ ServerFirst'
  <2>0. Paused /\ OneRecord /\ Sizes /\ ServerFirst
    BY <1>2, <1>4 DEF Synchronous
  <2>1. Paused'
    <3>1. at[Peer(e)] \in Pauses /\ stack[Len(stack)].at = "idle"
      BY <1>1, <1>4, <2>0 DEF Paused, g
    <3>2. stack' = <<>> => at'[e] = "idle"
      BY <1>5, <1>6, <3>1
    <3>3. \A f \in Ends : at'[f] \in Pauses
      BY <1>3, <1>6, <3>1
    <3>4. ASSUME stack' # <<>> PROVE Peer(Head(stack').end) \in Ends /\ stack'[Len(stack')].at = "idle"
      <4>1. Len(stack) > 1 /\ Head(stack') = stack[2] /\ Len(stack') \in DOMAIN stack' /\ Len(stack') + 1 = Len(stack)
        BY <1>5, <3>4
      <4>2. stack'[Len(stack')] = stack[Len(stack)]
        BY <1>5, <4>1
      <4>3. stack[2] \in Frames
        <5>1. 2 \in 1 .. Len(stack)
          BY <1>5, <4>1
        <5> QED BY <1>5, <5>1, ElementOfSeq
      <4>4. stack[2].end \in Ends
        BY <4>3 DEF Frames
      <4> QED BY <3>1, <4>1, <4>2, <4>4, TwoEnds
    <3>5. \A f \in Ends : wire'[f] = <<>>
      BY <1>1, <1>3, <1>4
    <3> QED BY <1>3, <3>2, <3>3, <3>4, <3>5 DEF Paused
  <2>2. OneRecord'
    <3>1. \A f \in Ends : unread[f] = 0 \/ ssl[f].fatal \/ ssl[f].seen
      BY <1>1, <1>3, <1>4, <2>0 DEF OneRecord, g
    <3>2. \A f \in Ends : Near(f)' = Near(f)
      BY <1>1 DEF Near
    <3> QED BY <1>1, <2>0, <3>1, <3>2 DEF OneRecord
  <2>3. Sizes'
    <3>1. Short(g.outbox) /\ \A i \in DOMAIN stack' : Short(stack'[i].outbox)
      BY <1>5, <2>0 DEF Sizes
    <3> QED BY <1>1, <1>6, <2>0, <3>1 DEF Sizes
  <2>4. ServerFirst'
    <3>1. CASE told[Server] = 0 /\ Stage(Client) = "done"
      <4>1. \/ Ticket
            \/ at[Server] = "on_connected" /\ Head(stack).end = Server
        BY <1>3, <1>4, <2>0, <3>1 DEF ServerFirst
      <4>2. Ticket /\ e = Client /\ Len(stack) > 1 /\ stack[2].end = Server
        BY <1>1, <1>3, <1>4, <4>1 DEF Ticket, g
      <4>3. stack' # <<>> /\ Head(stack').end = Server
        BY <1>5, <4>2
      <4>4. Delivered' /\ Phase' = Phase /\ at'[Server] = at[Server]
        BY <1>1, <1>3, <1>4, <1>6, <4>2 DEF Delivered, Phase, Stage
      <4>5. Ticket'
        BY <1>1, <4>2, <4>3, <4>4 DEF Ticket
      <4>6. at'[Client] # "on_connected"
        BY <1>6, <4>2 DEF Pauses
      <4> QED BY <1>1, <2>0, <3>1, <4>5, <4>6 DEF ServerFirst
    <3>2. CASE told[Server] # 0
      BY <1>1, <3>2 DEF ServerFirst
    <3>3. CASE told[Server] = 0 /\ Stage(Client) # "done"
      BY <1>1, <1>3, <1>6, <2>0, <3>3 DEF ServerFirst, Pauses
    <3> QED BY <3>1, <3>2, <3>3
  <2> QED BY <2>1, <2>2, <2>3, <2>4
<1> QED BY <1>1, <1>2, <1>7, <1>8, <1>9, <1>10, <1>11, <1>12, <1>13, <1>14, <1>15, <1>16 DEF IInv, Synchronous

-----------------------------------------------------------------------------
(* Reading *)

(* A stream that a step leaves alone. *)
LEMMA StreamKept ==
  ASSUME NEW f \in Ends, Streams, Way(f)' = Way(f), Phase' = Phase, transport' = transport,
         received'[f] = received[f], arg'[f] = arg[f],
         wrote'[Peer(f)] = wrote[Peer(f)], stuck'[Peer(f)] = stuck[Peer(f)],
         ssl[Peer(f)].sent => ssl'[Peer(f)].sent,
         ssl'[f].fatal = ssl[f].fatal,
         ssl[f].fatal => status'[f] = status[f] /\ ssl'[f].seen = ssl[f].seen
  PROVE  IF ssl'[f].fatal THEN Broken(f)' ELSE Stream(f)'
<1>1. CASE ssl[f].fatal
  <2>1. Broken(f)
    BY <1>1 DEF Streams
  <2>2. Broken(f)'
    BY <1>1, <2>1 DEF Broken
  <2> QED BY <1>1, <2>2
<1>2. CASE ~ssl[f].fatal
  <2>1. Stream(f)
    BY <1>2 DEF Streams
  <2>2. PICK h \in Nat, d \in Seq(Nat), c \in {0, 1}, r \in Seq(Nat) : Holds(f, h, d, c, r)
    BY <2>1 DEF Stream
  <2>3. Hellos(f)' = Hellos(f)
    BY DEF Hellos
  <2>4. Holds(f, h, d, c, r)'
    BY <2>2, <2>3 DEF Holds
  <2>5. Stream(f)'
    BY <2>4 DEF Stream
  <2> QED BY <1>2, <2>5
<1> QED BY <1>1, <1>2

(* The application is given what was read.                                 *)
LEMMA OnReceivedStep ==
  ASSUME IInv, NEW e \in Ends, Running(e), OnReceived(e), UNCHANGED <<stack, Configuration>>
  PROVE  IInv'
<1>1. /\ at[e] = "on_received" /\ at' = [at EXCEPT ![e] = "app"]
      /\ received' = [received EXCEPT ![e] = @ \o arg[e]]
      /\ outbox' = [outbox EXCEPT ![e] = IF e = Server THEN <<arg[e]>> ELSE <<>>]
      /\ arg' = [arg EXCEPT ![e] = <<>>]
      /\ UNCHANGED <<status, ssl, in, unread, stuck, wire, up, tail, wrote, told, ended, dropped, stack, app, transport>>
  BY DEF OnReceived, Configuration
<1>2. /\ Types /\ Handshake /\ Streams /\ Closing /\ Consumed
      /\ Given /\ Ending /\ Told /\ Announced /\ Silent
      /\ Queued /\ Synchronous /\ dropped = 0
      /\ transport \in {"queued", "synchronous"}
  BY Invariants
<1>3. /\ Peer(e) \in Ends /\ Peer(e) # e /\ Peer(Peer(e)) = e /\ \A f \in Ends : f = e \/ f = Peer(e)
      /\ Client \in Ends /\ Server \in Ends /\ Client # Server
  BY TwoEnds, SslAssumption
<1>4. at'[e] = "app" /\ (\A f \in Ends : f # e => at'[f] = at[f])
  BY <1>1, <1>2, <1>3 DEF Types, TypeOK
<1>5. \A f \in Ends : Stage(f)' = Stage(f) /\ Closed(f)' = Closed(f)
  BY <1>1 DEF Stage, Closed
<1>a. arg[e] # <<>> /\ arg[e] \in Seq(Nat) /\ received[e] \in Seq(Nat)
  BY <1>1, <1>2 DEF Given, Types
<1>b. received[e] \o arg[e] \in Seq(Nat) /\ (received[e] \o arg[e]) \o <<>> = received[e] \o arg[e]
  BY <1>a, Lengths, ConcatEmptySeq
<1>6. /\ received'[e] = received[e] \o arg[e] /\ arg'[e] = <<>>
      /\ outbox'[e] = IF e = Server THEN <<arg[e]>> ELSE <<>>
      /\ \A f \in Ends : f # e => received'[f] = received[f] /\ arg'[f] = arg[f] /\ outbox'[f] = outbox[f]
  BY <1>1, <1>2 DEF Types
<1>c. told[e] # 0 /\ told[Client] # 0 /\ ~ssl[e].seen /\ ~ssl[e].fatal
  <2>1. told[e] # 0
    BY <1>1, <1>2 DEF Told
  <2>2. told[Client] # 0
    BY <1>2, <1>a DEF Silent
  <2>3. ~ssl[e].seen
    BY <1>2, <1>a DEF Closing
  <2>4. ~ssl[e].fatal
    BY <1>2, <1>a DEF Streams, Broken
  <2> QED BY <2>1, <2>2, <2>3, <2>4
<1>7. Types'
  <2>1. <<arg[e]>> \in Seq(Seq(Nat)) /\ <<>> \in Seq(Seq(Nat)) /\ <<>> \in Seq(Nat)
    BY <1>a, EmptySeq
  <2>2. received' \in [Ends -> Seq(Nat)] /\ arg' \in [Ends -> Seq(Nat)] /\ outbox' \in [Ends -> Seq(Seq(Nat))]
    BY <1>1, <1>2, <1>b, <2>1 DEF Types
  <2> QED BY <1>1, <1>2, <2>2 DEF Types, TypeOK, Frames, BioCap
<1>8. Handshake' /\ Streams' /\ Closing'
  <2>1. Handshake'
    BY <1>1, <1>2 DEF Handshake, Phase, Stage
  <2>2. \A f \in Ends : Way(f)' = Way(f) /\ Hellos(f)' = Hellos(f) /\ Phase' = Phase
    BY <1>1 DEF Way, Near, Hellos, Phase, Stage
  <2>3. Closing'
    BY <1>1, <1>2, <1>3, <1>5, <1>6, <2>2 DEF Closing
  <2>4. Stream(e)'
    <3>1. Stream(e)
      BY <1>2, <1>c DEF Streams
    <3>2. PICK h \in Nat, d \in Seq(Nat), c \in {0, 1}, r \in Seq(Nat) : Holds(e, h, d, c, r)
      BY <3>1 DEF Stream
    <3>3. received'[e] \o arg'[e] = received[e] \o arg[e]
      BY <1>6, <1>b
    <3>4. Holds(e, h, d, c, r)'
      BY <1>1, <2>2, <3>2, <3>3 DEF Holds
    <3> QED BY <3>4 DEF Stream
  <2>5. IF ssl'[Peer(e)].fatal THEN Broken(Peer(e))' ELSE Stream(Peer(e))'
    BY <1>1, <1>2, <1>3, <1>6, <2>2, StreamKept
  <2>6. Streams'
    BY <1>1, <1>3, <1>c, <2>4, <2>5 DEF Streams
  <2> QED BY <2>1, <2>3, <2>6
<1>9. Consumed'
  BY <1>1, <1>2 DEF Consumed
<1>10. Given'
  BY <1>1, <1>2, <1>3, <1>4, <1>6 DEF Given
<1>11. Ending'
  BY <1>1, <1>2, <1>3, <1>4, <1>5 DEF Ending
<1>12. Told'
  BY <1>1, <1>2, <1>3, <1>4, <1>5, <1>6, <1>c DEF Told
<1>13. Announced'
  BY <1>1, <1>2, <1>3, <1>4, <1>c DEF Announced
<1>14. Silent'
  BY <1>1, <1>c DEF Silent
<1>15. Queued'
  BY <1>1, <1>2, <1>3, <1>4, <1>5, <1>c DEF Queued
<1>16. ASSUME transport = "synchronous" PROVE Paused' /\ OneRecord' /\ Sizes' /\ ServerFirst'
  <2>1. Paused'
    BY <1>1, <1>16, PausedStays
  <2>2. OneRecord'
    BY <1>1, <1>3, <1>16, NothingUnread, RecordStays
  <2>3. Sizes'
    <3>1. Sizes
      BY <1>2, <1>16 DEF Synchronous
    <3>2. Len(arg'[e]) <= RecordMax /\ Short(outbox'[e])
      <4>1. Len(arg[e]) <= RecordMax /\ Len(<<>>) <= RecordMax
        BY <1>2, <3>1, Bounds, EmptySeq DEF Sizes
      <4> DEFINE b == arg[e]
      <4> HIDE DEF b
      <4>2. Len(b) <= RecordMax => Short(<<b>>) /\ Short(<<>>)
        BY DEF Short
      <4> QED BY <1>6, <4>1, <4>2 DEF b
    <3> QED BY <1>1, <1>3, <1>6, <3>1, <3>2 DEF Sizes
  <2>4. ServerFirst'
    <3>1. ServerFirst
      BY <1>2, <1>16 DEF Synchronous
    <3> QED BY <1>1, <1>c, <3>1 DEF ServerFirst
  <2> QED BY <2>1, <2>2, <2>3, <2>4
<1> QED BY <1>1, <1>2, <1>7, <1>8, <1>9, <1>10, <1>11, <1>12, <1>13, <1>14, <1>15, <1>16 DEF IInv, Synchronous

(* A whole record is there only after the handshake, and in the BIO.       *)
LEMMA Reading ==
  ASSUME IInv, NEW e \in Ends, FirstEnd(in[e]) > 0
  PROVE  /\ Stage(e) = "done"
         /\ Len(in[e]) - FirstEnd(in[e]) < unread[e] /\ unread[e] \in Nat /\ unread[e] <= BioCap
<1>1. in[e] \in Seq(Cells) /\ unread[e] \in Nat /\ unread[e] <= BioCap /\ BioCap \in Nat
  <2>1. Types
    BY Invariants
  <2>2. BioCap \in Nat
    BY <2>1, Bounds
  <2>3. in[e] \in Seq(Cells) /\ unread[e] \in Nat
    BY <2>1 DEF Types
  <2>4. unread[e] <= BioCap
    BY <2>1, <2>2 DEF Types, TypeOK
  <2> QED BY <2>2, <2>3, <2>4
<1>2. FirstEnd(in[e]) \in 1 .. Len(in[e]) /\ in[e][FirstEnd(in[e])].last /\ Len(in[e]) \in Nat
  BY <1>1, FirstRecord, LenProperties
<1>3. ~(FirstEnd(in[e]) \in 1 .. Len(in[e]) - unread[e])
  BY <1>2, Invariants DEF Consumed
<1>4. Len(in[e]) - FirstEnd(in[e]) < unread[e]
  BY <1>1, <1>2, <1>3
<1>5. unread[e] # 0
  BY <1>2, <1>4
<1> QED BY <1>1, <1>4, <1>5, Invariants DEF Handshake

(* A record is taken. *)
LEMMA Takes ==
  ASSUME IInv, NEW e \in Ends, Running(e), NEW type, NextRecord(e, type)
  PROVE  LET k == FirstEnd(in[e]) IN
         /\ k \in 1 .. Len(in[e]) /\ in[e][k].last /\ in[e][k].type = type
         /\ in' = [in EXCEPT ![e] = Drop(@, k)] /\ in' \in [Ends -> Seq(Cells)]
         /\ unread' = [unread EXCEPT ![e] = Len(in[e]) - k] /\ unread' \in [Ends -> Nat]
         /\ unread'[e] = Len(in'[e]) /\ unread'[e] <= BioCap
         /\ \A f \in Ends : unread'[f] \in 0 .. BioCap /\ unread'[f] <= Len(in'[f])
         /\ in'[Peer(e)] = in[Peer(e)] /\ unread'[Peer(e)] = unread[Peer(e)]
         /\ Near(e)' = Drop(Near(e), k) /\ Way(e)' = Drop(Way(e), k)
         /\ Near(Peer(e))' = Near(Peer(e)) /\ Way(Peer(e))' = Way(Peer(e))
         /\ Stage(e) = "done" /\ at[e] = "read" /\ arg[e] = <<>>
         /\ ~ssl[e].fatal /\ ~ssl[e].seen
         /\ transport = "synchronous" => unread'[e] = 0 /\ Near(e)' = <<>>
<1> DEFINE k == FirstEnd(in[e])
<1>1. /\ k > 0 /\ at[e] = "read" /\ in[e][k].type = type /\ ~ssl[e].fatal /\ ~ssl[e].seen
      /\ in' = [in EXCEPT ![e] = Drop(@, k)]
      /\ unread' = [unread EXCEPT ![e] = Len(in[e]) - k]
      /\ wire' = wire /\ stuck' = stuck
  BY DEF NextRecord
<1>2. Types /\ Given
  BY Invariants
<1>3. in[e] \in Seq(Cells) /\ wire[Peer(e)] \in Seq(Cells) /\ stuck[Peer(e)] \in Seq(Cells) /\ Peer(e) # e /\ Peer(e) \in Ends
  BY <1>2, TwoEnds DEF Types
<1>4. k \in 1 .. Len(in[e]) /\ in[e][k].last /\ Len(in[e]) \in Nat /\ k \in 0 .. Len(in[e]) /\ k \in Nat
  BY <1>1, <1>3, FirstRecord, LenProperties
<1>5. Stage(e) = "done" /\ Len(in[e]) - k <= BioCap
  BY <1>1, <1>4, Reading, Bounds, <1>2
<1> HIDE DEF k
<1>n. k \in Nat /\ k >= 1 /\ k <= Len(in[e]) /\ Len(in[e]) \in Nat
  BY <1>4
<1>6. Drop(in[e], k) \in Seq(Cells) /\ Len(Drop(in[e], k)) = Len(in[e]) - k
  <2>1. Drop(in[e], k) \in Seq(Cells) /\ Len(Drop(in[e], k)) = Len(in[e]) - Least(k, Len(in[e]))
    BY <1>3, <1>n, Cut
  <2> QED BY <1>n, <2>1 DEF Least
<1>7. in' \in [Ends -> Seq(Cells)] /\ in'[e] = Drop(in[e], k) /\ in'[Peer(e)] = in[Peer(e)]
  BY <1>1, <1>2, <1>3, <1>6 DEF Types
<1>8. unread' \in [Ends -> Nat] /\ unread'[e] = Len(in[e]) - k /\ unread'[Peer(e)] = unread[Peer(e)]
  <2>1. Len(in[e]) - k \in Nat
    BY <1>4
  <2> QED BY <1>1, <1>2, <1>3, <2>1 DEF Types
<1>9. Drop(in[e], k) \o wire[Peer(e)] = Drop(Near(e), k)
  BY <1>3, <1>4, DropFront DEF Near
<1>10. Near(e) \in Seq(Cells) /\ Len(Near(e)) = Len(in[e]) + Len(wire[Peer(e)]) /\ Len(wire[Peer(e)]) \in Nat
  BY <1>3, Lengths DEF Near
<1>m. Len(Near(e)) \in Nat /\ Len(in[e]) <= Len(Near(e))
  <2>1. \A a, b, n : a \in Nat /\ b \in Nat /\ n = a + b => n \in Nat /\ a <= n
    OBVIOUS
  <2> QED BY <1>n, <1>10, <2>1
<1>11. Drop(Near(e), k) \o stuck[Peer(e)] = Drop(Way(e), k)
  <2>1. k \in 0 .. Len(Near(e))
    BY <1>n, <1>m
  <2> QED BY <1>3, <1>10, <2>1, DropFront DEF Way
<1>12. Near(e)' = Drop(Near(e), k) /\ Way(e)' = Drop(Way(e), k)
  BY <1>1, <1>7, <1>9, <1>11 DEF Near, Way
<1>13. Near(Peer(e))' = Near(Peer(e)) /\ Way(Peer(e))' = Way(Peer(e))
  BY <1>1, <1>7 DEF Near, Way
<1>14. ASSUME transport = "synchronous" PROVE unread'[e] = 0 /\ Near(e)' = <<>>
  <2>1. \A i \in 1 .. Len(Near(e)) : Near(e)[i].last => i = Len(Near(e))
    BY <1>1, <1>14, Invariants DEF Synchronous, OneRecord
  <2>2. Near(e)[k] = in[e][k]
    BY <1>3, <1>4, Front DEF Near
  <2>3. k = Len(Near(e))
    <3>1. k \in 1 .. Len(Near(e))
      BY <1>n, <1>m
    <3> QED BY <1>4, <2>1, <2>2, <3>1
  <2>4. Len(in[e]) - k = 0
    BY <1>n, <1>m, <2>3
  <2>5. Drop(Near(e), k) = <<>>
    <3>1. k >= Len(Near(e)) /\ Near(e) \in Seq(Cells)
      BY <1>n, <1>m, <1>10, <2>3
    <3> QED BY <1>n, <3>1, Cut
  <2> QED BY <1>8, <1>12, <2>4, <2>5
<1>15. arg[e] = <<>>
  BY <1>1, <1>2 DEF Given
<1>16. \A f \in Ends : unread'[f] \in 0 .. BioCap /\ unread'[f] <= Len(in'[f])
  <2>1. unread[Peer(e)] \in 0 .. BioCap /\ unread[Peer(e)] <= Len(in[Peer(e)]) /\ BioCap \in Nat
    BY <1>2, <1>3, Bounds DEF Types, TypeOK
  <2>2. Len(in[e]) - k \in 0 .. BioCap /\ Len(in'[e]) = Len(in[e]) - k
    BY <1>n, <1>5, <1>6, <1>7, <2>1 DEF k
  <2>3. \A f \in Ends : f = e \/ f = Peer(e)
    BY TwoEnds
  <2>4. unread'[e] \in 0 .. BioCap /\ unread'[e] <= Len(in'[e])
    BY <1>8, <2>2
  <2>5. unread'[Peer(e)] \in 0 .. BioCap /\ unread'[Peer(e)] <= Len(in'[Peer(e)])
    BY <1>7, <1>8, <2>1
  <2> QED BY <2>3, <2>4, <2>5
<1> QED BY <1>1, <1>4, <1>5, <1>6, <1>7, <1>8, <1>12, <1>13, <1>14, <1>15, <1>16 DEF k

(* The bytes of a record are the data that comes next. *)
LEMMA DataTaken ==
  ASSUME NEW x \in Seq(Cells), NEW d \in Seq(Nat), NEW k \in 1 .. Len(x), k <= Len(d), \A i \in 1 .. k : x[i].v = d[i]
  PROVE  /\ Data(Take(x, k)) = Take(d, k) /\ Take(d, k) \in Seq(Nat) /\ Len(Take(d, k)) = k /\ Take(d, k) # <<>>
<1> DEFINE u == Take(x, k)
           v == Take(d, k)
<1>1. k \in Nat /\ k > 0 /\ Len(x) \in Nat /\ Len(d) \in Nat /\ k <= Len(x) /\ Least(k, Len(x)) = k /\ Least(k, Len(d)) = k
  BY LenProperties DEF Least
<1>2. u \in Seq(Cells) /\ Len(u) = Least(k, Len(x)) /\ \A i \in 1 .. Len(u) : u[i] = x[i]
  BY <1>1, Cut
<1>3. v \in Seq(Nat) /\ Len(v) = Least(k, Len(d)) /\ \A i \in 1 .. Len(v) : v[i] = d[i]
  BY <1>1, Cut
<1> HIDE DEF u, v
<1>4. DOMAIN u = 1 .. k /\ DOMAIN v = 1 .. k /\ Len(v) = k
  BY <1>1, <1>2, <1>3, LenProperties
<1>5. Data(u) = [i \in 1 .. k |-> u[i].v]
  BY <1>4 DEF Data
<1>6. \A i \in 1 .. k : u[i].v = v[i]
  BY <1>1, <1>2, <1>3
<1>7. v = [i \in 1 .. k |-> v[i]]
  BY <1>3, <1>4, LenProperties
<1>8. Data(u) = v
  BY <1>5, <1>6, <1>7
<1>9. v # <<>>
  BY <1>1, <1>3, EmptySeq
<1> QED BY <1>1, <1>3, <1>4, <1>8, <1>9 DEF u, v

(* What is handed up next to what was. *)
Regroups(a, x, y, r) == (a \o x) \o (y \o r) = (a \o <<>>) \o ((x \o y) \o r)

(* Regrouping what was given, what is handed up, the data behind it and    *)
(* what will not come.                                                     *)
LEMMA HandsUp ==
  ASSUME NEW a \in Seq(Nat), NEW x \in Seq(Nat), NEW y \in Seq(Nat), NEW r \in Seq(Nat)
  PROVE  Regroups(a, x, y, r)
<1>1. Associates(x, y, r) /\ y \o r \in Seq(Nat)
  BY Association, Lengths
<1>2. Associates(a, x, y \o r)
  BY <1>1, Association
<1>3. (a \o x) \o (y \o r) = a \o (x \o (y \o r))
  BY <1>2 DEF Associates
<1>4. x \o (y \o r) = (x \o y) \o r
  BY <1>1 DEF Associates
<1>5. a \o <<>> = a
  BY ConcatEmptySeq
<1> QED BY <1>3, <1>4, <1>5 DEF Regroups

(* Nothing that counts for the stream towards the other end has changed.   *)
LEMMA ReadOthers ==
  ASSUME IInv, NEW e \in Ends, Running(e), NEW type, NextRecord(e, type), UNCHANGED transport,
         NEW n, ssl' = [ssl EXCEPT ![e].seen = n], n \in BOOLEAN, arg'[Peer(e)] = arg[Peer(e)], received' = received
  PROVE  /\ Handshake' /\ Consumed' /\ Phase' = Phase
         /\ IF ssl'[Peer(e)].fatal THEN Broken(Peer(e))' ELSE Stream(Peer(e))'
         /\ ssl'[e].seen = n /\ ssl'[Peer(e)] = ssl[Peer(e)]
         /\ \A f \in Ends : /\ ssl'[f].stage = ssl[f].stage /\ ssl'[f].sent = ssl[f].sent /\ ssl'[f].fatal = ssl[f].fatal
                            /\ Stage(f)' = Stage(f) /\ Closed(f)' = Closed(f)
         /\ ssl' \in [Ends -> [stage : Stages, sent : BOOLEAN, seen : BOOLEAN, fatal : BOOLEAN]]
<1>1. /\ UNCHANGED <<status, stuck, wire, up, outbox, wrote, told, ended, dropped>>
  BY DEF NextRecord
<1>2. /\ Types /\ Handshake /\ Streams /\ Consumed
  BY Invariants
<1>3. /\ Peer(e) \in Ends /\ Peer(e) # e /\ Peer(Peer(e)) = e /\ \A f \in Ends : f = e \/ f = Peer(e)
      /\ Client \in Ends /\ Server \in Ends
  BY TwoEnds
<1>4. /\ in'[Peer(e)] = in[Peer(e)] /\ unread'[Peer(e)] = unread[Peer(e)] /\ unread'[e] = Len(in'[e])
      /\ Near(Peer(e))' = Near(Peer(e)) /\ Way(Peer(e))' = Way(Peer(e)) /\ Stage(e) = "done"
      /\ in' \in [Ends -> Seq(Cells)]
  BY Takes
<1>5. ssl \in [Ends -> [stage : Stages, sent : BOOLEAN, seen : BOOLEAN, fatal : BOOLEAN]]
  BY <1>2 DEF Types, TypeOK
<1>6. /\ ssl' \in [Ends -> [stage : Stages, sent : BOOLEAN, seen : BOOLEAN, fatal : BOOLEAN]]
      /\ ssl'[e].seen = n /\ ssl'[Peer(e)] = ssl[Peer(e)]
      /\ ssl'[e].stage = ssl[e].stage /\ ssl'[e].sent = ssl[e].sent /\ ssl'[e].fatal = ssl[e].fatal
  BY <1>3, <1>5
<1>7. \A f \in Ends : /\ ssl'[f].stage = ssl[f].stage /\ ssl'[f].sent = ssl[f].sent /\ ssl'[f].fatal = ssl[f].fatal
                      /\ Stage(f)' = Stage(f) /\ Closed(f)' = Closed(f)
  BY <1>1, <1>3, <1>6 DEF Stage, Closed
<1>8. Phase' = Phase
  BY <1>3, <1>7 DEF Phase
<1>9. Handshake'
  BY <1>1, <1>2, <1>3, <1>4, <1>7, <1>8 DEF Handshake
<1>10. Consumed'
  <2>1. Len(in'[e]) - unread'[e] = 0
    BY <1>3, <1>4, LenProperties
  <2>2. \A i \in 1 .. Len(in'[e]) - unread'[e] : ~in'[e][i].last
    BY <2>1
  <2>3. \A i \in 1 .. Len(in'[Peer(e)]) - unread'[Peer(e)] : ~in'[Peer(e)][i].last
    BY <1>2, <1>3, <1>4 DEF Consumed
  <2> QED BY <1>3, <2>2, <2>3 DEF Consumed
<1>11. IF ssl'[Peer(e)].fatal THEN Broken(Peer(e))' ELSE Stream(Peer(e))'
  BY <1>1, <1>2, <1>3, <1>4, <1>6, <1>7, <1>8, StreamKept
<1> QED BY <1>6, <1>7, <1>8, <1>9, <1>10, <1>11

(* Over a synchronous transport nothing is left when a record is taken.    *)
LEMMA TakesRecord ==
  ASSUME IInv, transport = "synchronous", NEW e \in Ends, Running(e), NEW type, NextRecord(e, type),
         ssl'[Peer(e)] = ssl[Peer(e)]
  PROVE  OneRecord'
<1>1. /\ Peer(e) \in Ends /\ Peer(e) # e /\ \A f \in Ends : f = e \/ f = Peer(e)
  BY TwoEnds
<1>2. /\ unread'[e] = 0 /\ Near(e)' = <<>> /\ at[e] = "read"
      /\ unread'[Peer(e)] = unread[Peer(e)] /\ Near(Peer(e))' = Near(Peer(e))
  BY Takes
<1>3. unread[Peer(e)] = 0 \/ ssl[Peer(e)].fatal \/ ssl[Peer(e)].seen
  BY <1>2, Runs
<1>4. OneRecord
  BY Invariants DEF Synchronous
<1>5. \A i \in 1 .. Len(Near(e)') : FALSE
  BY <1>2, EmptySeq
<1>6. \A f \in Ends : unread'[f] = 0 \/ ssl'[f].fatal \/ ssl'[f].seen
  BY <1>1, <1>2, <1>3
<1>7. \A f \in Ends : ~ssl'[f].fatal /\ ~ssl'[f].seen => \A i \in 1 .. Len(Near(f)') : Near(f)'[i].last => i = Len(Near(f)')
  BY <1>1, <1>2, <1>4, <1>5 DEF OneRecord
<1> QED BY <1>6, <1>7 DEF OneRecord

(* The actions that read a record: data, the ticket of the session, a      *)
(* close_notify.                                                           *)
LEMMA ReadDataStep ==
  ASSUME IInv, NEW e \in Ends, Running(e), ReadData(e), UNCHANGED <<stack, Configuration>>
  PROVE  IInv'
<1> DEFINE k == FirstEnd(in[e])
<1>1. /\ NextRecord(e, "app") /\ at' = [at EXCEPT ![e] = "on_received"]
      /\ arg' = [arg EXCEPT ![e] = Data(Take(in[e], k))]
      /\ UNCHANGED <<ssl, tail, received>>
      /\ UNCHANGED <<status, stuck, wire, up, outbox, wrote, told, ended, dropped, stack, app, transport>>
  BY DEF ReadData, NextRecord, Configuration
<1>2. /\ Types /\ Handshake /\ Streams /\ Closing /\ Consumed
      /\ Given /\ Ending /\ Told /\ Announced /\ Silent
      /\ Queued /\ Synchronous /\ dropped = 0
      /\ transport \in {"queued", "synchronous"}
  BY Invariants
<1>3. /\ Peer(e) \in Ends /\ Peer(e) # e /\ Peer(Peer(e)) = e /\ \A f \in Ends : f = e \/ f = Peer(e)
      /\ Client \in Ends /\ Server \in Ends /\ Client # Server
  BY TwoEnds, SslAssumption
<1>4. /\ k \in 1 .. Len(in[e]) /\ in[e][k].type = "app"
      /\ in' \in [Ends -> Seq(Cells)] /\ unread' \in [Ends -> Nat]
      /\ \A f \in Ends : unread'[f] \in 0 .. BioCap /\ unread'[f] <= Len(in'[f])
      /\ in'[Peer(e)] = in[Peer(e)] /\ unread'[Peer(e)] = unread[Peer(e)]
      /\ Near(e)' = Drop(Near(e), k) /\ Way(e)' = Drop(Way(e), k)
      /\ Near(Peer(e))' = Near(Peer(e)) /\ Way(Peer(e))' = Way(Peer(e))
      /\ Stage(e) = "done" /\ at[e] = "read" /\ arg[e] = <<>>
      /\ ~ssl[e].fatal /\ ~ssl[e].seen
      /\ transport = "synchronous" => unread'[e] = 0 /\ Near(e)' = <<>>
  BY <1>1, Takes
<1>5. in[e] \in Seq(Cells) /\ wire[Peer(e)] \in Seq(Cells) /\ stuck[Peer(e)] \in Seq(Cells) /\ Way(e) \in Seq(Cells)
  <2>1. in[e] \in Seq(Cells) /\ wire[Peer(e)] \in Seq(Cells) /\ stuck[Peer(e)] \in Seq(Cells)
    BY <1>2, <1>3 DEF Types
  <2>2. Near(e) \in Seq(Cells)
    BY <2>1, Lengths DEF Near
  <2> QED BY <2>1, <2>2, Lengths DEF Way
<1>6. PICK h \in Nat, d \in Seq(Nat), c \in {0, 1}, r \in Seq(Nat) : Holds(e, h, d, c, r)
  BY <1>2, <1>4 DEF Streams, Stream
<1>7. /\ Shape(Way(e), h, d, c) /\ h \in Hellos(e) /\ (received[e] \o arg[e]) \o (d \o r) = wrote[Peer(e)]
      /\ (stuck[Peer(e)] = <<>> => r = <<>>)
      /\ (c = 1 => ssl[Peer(e)].sent /\ stuck[Peer(e)] = <<>>)
      /\ (transport = "synchronous" => Len(d) <= RecordMax)
  BY <1>6 DEF Holds
<1>8. /\ in[e][k].type = "hs" => h = k
      /\ in[e][k].type = "app" => h = 0 /\ k <= Len(d) /\ \A i \in 1 .. k : in[e][i].v = d[i]
      /\ in[e][k].type = "close" => h = 0 /\ d = <<>> /\ c = 1 /\ k = 1 /\ Len(Way(e)) = 1
  <2> DEFINE y == wire[Peer(e)] \o stuck[Peer(e)]
  <2>1. y \in Seq(Cells) /\ Way(e) = in[e] \o y
    <3>1. Associates(in[e], wire[Peer(e)], stuck[Peer(e)])
      BY <1>5, Association
    <3> QED BY <1>5, <3>1, Lengths DEF Associates, Way, Near
  <2>2. k > 0
    BY <1>4
  <2> HIDE DEF y
  <2>3. Shape(in[e] \o y, h, d, c)
    BY <1>7, <2>1
  <2> QED BY <1>5, <1>6, <2>1, <2>2, <2>3, ShapeFirst, SMTT(30)
<1>9. received[e] \in Seq(Nat) /\ received[e] \o <<>> = received[e] /\ k \in Nat /\ k >= 1
  BY <1>2, <1>4, ConcatEmptySeq DEF Types
<1> HIDE DEF k
<1>10. h = 0 /\ k <= Len(d) /\ \A i \in 1 .. k : in[e][i].v = d[i]
  BY <1>4, <1>8
<1>11. /\ Data(Take(in[e], k)) = Take(d, k) /\ Take(d, k) \in Seq(Nat) /\ Len(Take(d, k)) = k /\ Take(d, k) # <<>>
  BY <1>4, <1>5, <1>10, DataTaken
<1>12. arg'[e] = Take(d, k) /\ arg'[Peer(e)] = arg[Peer(e)] /\ arg' \in [Ends -> Seq(Nat)]
  BY <1>1, <1>2, <1>3, <1>11 DEF Types
<1>13. at'[e] = "on_received" /\ (\A f \in Ends : f # e => at'[f] = at[f])
  BY <1>1, <1>2 DEF Types, TypeOK
<1>14. Closed(e)' = Closed(e) /\ \A f \in Ends : Stage(f)' = Stage(f) /\ Closed(f)' = Closed(f)
  BY <1>1 DEF Stage, Closed
<1>15. /\ Handshake' /\ Consumed' /\ Phase' = Phase
       /\ IF ssl'[Peer(e)].fatal THEN Broken(Peer(e))' ELSE Stream(Peer(e))'
  <2>1. ssl' = [ssl EXCEPT ![e].seen = ssl[e].seen] /\ ssl[e].seen \in BOOLEAN
    BY <1>1, <1>2 DEF Types, TypeOK
  <2> QED BY <1>1, <1>12, <2>1, ReadOthers
<1>16. wrote[Peer(e)] # <<>>
  <2>1. wrote[Peer(e)] = <<>> => d \o r = <<>>
    <3>1. received[e] \o arg[e] \in Seq(Nat) /\ d \o r \in Seq(Nat)
      BY <1>4, <1>9, Lengths
    <3> QED BY <1>7, <3>1, ConcatEqualIffEmpty
  <2>2. d # <<>>
    BY <1>9, <1>10, EmptySeq
  <2> QED BY <2>1, <2>2, ConcatEqualIffEmpty
<1>17. told[Client] # 0 /\ told[e] # 0
  <2>1. told[Client] # 0
    BY <1>2, <1>3, <1>16 DEF Silent
  <2>2. CASE transport = "queued"
    BY <1>2, <1>4, <2>1, <2>2 DEF Queued
  <2>3. CASE transport = "synchronous"
    BY <1>2, <1>3, <2>1, <2>3 DEF Synchronous, ServerFirst, Ends
  <2> QED BY <1>2, <2>1, <2>2, <2>3
<1>20. Types'
  BY <1>1, <1>2, <1>3, <1>4, <1>12 DEF Types, TypeOK, Frames, BioCap
<1>21. Streams'
  <2> PICK x \in Seq(Nat), s \in Seq(Nat) : x = Take(d, k) /\ s = Drop(d, k) /\ x \o s = d
    <3>1. Take(d, k) \in Seq(Nat) /\ Drop(d, k) \in Seq(Nat) /\ Take(d, k) \o Drop(d, k) = d
      BY <1>9, Cut
    <3> QED BY <3>1
  <2>1. Shape(Way(e)', 0, s, c)
    <3>1. k \in 1 .. Len(d)
      BY <1>9, <1>10, LenProperties
    <3> QED BY <1>4, <1>5, <1>6, <1>7, <1>10, <3>1, ShapeRest
  <2>2. (received[e] \o x) \o (s \o r) = wrote[Peer(e)]
    <3>1. (received[e] \o <<>>) \o (d \o r) = wrote[Peer(e)]
      BY <1>4, <1>7
    <3>2. Regroups(received[e], x, s, r)
      BY <1>9, HandsUp
    <3> QED BY <3>1, <3>2 DEF Regroups
  <2>3. Hellos(e)' = Hellos(e)
    BY <1>15 DEF Hellos
  <2>4. Len(d) <= RecordMax => Len(s) <= RecordMax
    <3>1. Len(s) = Len(d) - k
      BY <1>9, <1>10, Cut DEF Least
    <3> QED BY <1>2, <1>9, <3>1, LenProperties, Bounds
  <2>5. Holds(e, 0, s, c, r)'
    <3>1. (received'[e] \o arg'[e]) \o (s \o r) = wrote'[Peer(e)]
      BY <1>1, <1>12, <2>2
    <3>2. 0 \in Hellos(e)'
      BY <1>7, <1>10, <2>3
    <3> QED BY <1>1, <1>7, <2>1, <2>4, <3>1, <3>2 DEF Holds
  <2>6. Stream(e)'
    BY <2>5 DEF Stream
  <2> QED BY <1>1, <1>3, <1>4, <1>15, <2>6 DEF Streams
<1>22. Handshake' /\ Consumed' /\ Closing'
  BY <1>1, <1>2, <1>3, <1>4, <1>12, <1>14, <1>15 DEF Closing
<1>23. Given' /\ Ending'
  BY <1>1, <1>2, <1>3, <1>4, <1>11, <1>12, <1>13, <1>14, SMTT(30) DEF Given, Ending
<1>24. Told'
  BY <1>1, <1>2, <1>3, <1>12, <1>13, <1>14, <1>17 DEF Told
<1>25. Announced'
  BY <1>1, <1>2, <1>3, <1>13, <1>17 DEF Announced
<1>26. Silent'
  BY <1>1, <1>17 DEF Silent
<1>27. Queued'
  BY <1>1, <1>2, <1>3, <1>4, <1>13, <1>14, <1>17 DEF Queued
<1>28. ASSUME transport = "synchronous" PROVE Paused' /\ OneRecord' /\ Sizes' /\ ServerFirst'
  <2>1. Paused'
    BY <1>1, <1>4, <1>28, PausedStays
  <2>2. OneRecord'
    BY <1>28, <1>1, TakesRecord
  <2>3. Sizes'
    <3>1. Len(arg'[e]) <= RecordMax
      BY <1>2, <1>7, <1>9, <1>10, <1>11, <1>12, <1>28, LenProperties, Bounds
    <3> QED BY <1>1, <1>2, <1>3, <1>12, <1>28, <3>1 DEF Synchronous, Sizes
  <2>4. ServerFirst'
    <3>1. told[Server] # 0
      BY <1>2, <1>17, <1>28 DEF Synchronous, ServerFirst
    <3> QED BY <1>1, <3>1 DEF ServerFirst
  <2> QED BY <2>1, <2>2, <2>3, <2>4
<1> QED BY <1>1, <1>2, <1>20, <1>21, <1>22, <1>23, <1>24, <1>25, <1>26, <1>27, <1>28 DEF IInv, Synchronous

LEMMA ReadTicketStep ==
  ASSUME IInv, NEW e \in Ends, Running(e), ReadTicket(e), UNCHANGED <<stack, Configuration>>
  PROVE  IInv'
<1> DEFINE k == FirstEnd(in[e])
<1>1. /\ NextRecord(e, "hs") /\ UNCHANGED <<ssl, at, tail, arg, received>>
      /\ UNCHANGED <<status, stuck, wire, up, outbox, wrote, told, ended, dropped, stack, app, transport>>
  BY DEF ReadTicket, NextRecord, Configuration
<1>2. /\ Types /\ Handshake /\ Streams /\ Closing /\ Consumed
      /\ Given /\ Ending /\ Told /\ Announced /\ Silent
      /\ Queued /\ Synchronous /\ dropped = 0
      /\ transport \in {"queued", "synchronous"}
  BY Invariants
<1>3. /\ Peer(e) \in Ends /\ Peer(e) # e /\ Peer(Peer(e)) = e /\ \A f \in Ends : f = e \/ f = Peer(e)
      /\ Client \in Ends /\ Server \in Ends /\ Client # Server
  BY TwoEnds, SslAssumption
<1>4. /\ k \in 1 .. Len(in[e]) /\ in[e][k].type = "hs"
      /\ in' \in [Ends -> Seq(Cells)] /\ unread' \in [Ends -> Nat]
      /\ \A f \in Ends : unread'[f] \in 0 .. BioCap /\ unread'[f] <= Len(in'[f])
      /\ in'[Peer(e)] = in[Peer(e)] /\ unread'[Peer(e)] = unread[Peer(e)]
      /\ Near(e)' = Drop(Near(e), k) /\ Way(e)' = Drop(Way(e), k)
      /\ Near(Peer(e))' = Near(Peer(e)) /\ Way(Peer(e))' = Way(Peer(e))
      /\ Stage(e) = "done" /\ at[e] = "read" /\ arg[e] = <<>>
      /\ ~ssl[e].fatal /\ ~ssl[e].seen
      /\ transport = "synchronous" => unread'[e] = 0 /\ Near(e)' = <<>>
  BY <1>1, Takes
<1>5. in[e] \in Seq(Cells) /\ wire[Peer(e)] \in Seq(Cells) /\ stuck[Peer(e)] \in Seq(Cells) /\ Way(e) \in Seq(Cells)
  <2>1. in[e] \in Seq(Cells) /\ wire[Peer(e)] \in Seq(Cells) /\ stuck[Peer(e)] \in Seq(Cells)
    BY <1>2, <1>3 DEF Types
  <2>2. Near(e) \in Seq(Cells)
    BY <2>1, Lengths DEF Near
  <2> QED BY <2>1, <2>2, Lengths DEF Way
<1>6. PICK h \in Nat, d \in Seq(Nat), c \in {0, 1}, r \in Seq(Nat) : Holds(e, h, d, c, r)
  BY <1>2, <1>4 DEF Streams, Stream
<1>7. /\ Shape(Way(e), h, d, c) /\ h \in Hellos(e) /\ (received[e] \o arg[e]) \o (d \o r) = wrote[Peer(e)]
      /\ (stuck[Peer(e)] = <<>> => r = <<>>)
      /\ (c = 1 => ssl[Peer(e)].sent /\ stuck[Peer(e)] = <<>>)
      /\ (transport = "synchronous" => Len(d) <= RecordMax)
  BY <1>6 DEF Holds
<1>8. /\ in[e][k].type = "hs" => h = k
      /\ in[e][k].type = "app" => h = 0 /\ k <= Len(d) /\ \A i \in 1 .. k : in[e][i].v = d[i]
      /\ in[e][k].type = "close" => h = 0 /\ d = <<>> /\ c = 1 /\ k = 1 /\ Len(Way(e)) = 1
  <2> DEFINE y == wire[Peer(e)] \o stuck[Peer(e)]
  <2>1. y \in Seq(Cells) /\ Way(e) = in[e] \o y
    <3>1. Associates(in[e], wire[Peer(e)], stuck[Peer(e)])
      BY <1>5, Association
    <3> QED BY <1>5, <3>1, Lengths DEF Associates, Way, Near
  <2>2. k > 0
    BY <1>4
  <2> HIDE DEF y
  <2>3. Shape(in[e] \o y, h, d, c)
    BY <1>7, <2>1
  <2> QED BY <1>5, <1>6, <2>1, <2>2, <2>3, ShapeFirst, SMTT(30)
<1>9. received[e] \in Seq(Nat) /\ received[e] \o <<>> = received[e] /\ k \in Nat /\ k >= 1
  BY <1>2, <1>4, ConcatEmptySeq DEF Types
<1> HIDE DEF k
<1>10. ssl' = [ssl EXCEPT ![e].seen = ssl[e].seen] /\ ssl[e].seen \in BOOLEAN
  BY <1>1, <1>2 DEF Types, TypeOK
<1>12. /\ ssl' \in [Ends -> [stage : Stages, sent : BOOLEAN, seen : BOOLEAN, fatal : BOOLEAN]]
       /\ ssl'[e].seen = ssl[e].seen /\ ssl'[Peer(e)] = ssl[Peer(e)]
       /\ \A f \in Ends : /\ ssl'[f].stage = ssl[f].stage /\ ssl'[f].sent = ssl[f].sent /\ ssl'[f].fatal = ssl[f].fatal
                          /\ Stage(f)' = Stage(f) /\ Closed(f)' = Closed(f)
       /\ Handshake' /\ Consumed' /\ Phase' = Phase
       /\ IF ssl'[Peer(e)].fatal THEN Broken(Peer(e))' ELSE Stream(Peer(e))'
  BY <1>1, <1>2, <1>10, ReadOthers DEF Types, TypeOK
<1>20. Types'
  BY <1>1, <1>2, <1>3, <1>4, <1>12 DEF Types, TypeOK, Frames, BioCap
<1>21. Streams'
  <2>1. Shape(Way(e)', 0, d, c)
    <3>1. h = k
      BY <1>4, <1>8
    <3> QED BY <1>4, <1>5, <1>6, <1>7, <3>1, ShapeRest
  <2>2. 0 \in Hellos(e)
    BY <1>4, <1>7, <1>8, <1>9, FlightCells DEF Hellos, Phase, Ends
  <2>3. Hellos(e)' = Hellos(e)
    BY <1>12 DEF Hellos
  <2>4. Holds(e, 0, d, c, r)'
    BY <1>1, <1>3, <1>7, <1>12, <2>1, <2>2, <2>3 DEF Holds
  <2>5. Stream(e)'
    BY <1>6, <2>4 DEF Stream
  <2> QED BY <1>3, <1>4, <1>12, <2>5 DEF Streams
<1>22. Handshake' /\ Consumed' /\ Closing'
  <2>1. ~ssl'[e].seen /\ Way(Peer(e))' = Way(Peer(e)) /\ ssl' = ssl
    BY <1>1, <1>4
  <2>2. \A f \in Ends : ssl'[f].seen => f = Peer(e) /\ Way(f)' = Way(f)
    BY <1>3, <2>1
  <2>3. Closing'
    BY <1>1, <1>2, <1>12, <2>1, <2>2 DEF Closing
  <2> QED BY <1>12, <2>3
<1>23. Given' /\ Ending'
  BY <1>1, <1>2, <1>3, <1>12 DEF Given, Ending
<1>24. Told'
  BY <1>1, <1>2, <1>12 DEF Told
<1>25. Announced'
  BY <1>1, <1>2 DEF Announced
<1>26. Silent'
  BY <1>1, <1>2 DEF Silent
<1>27. Queued'
  <2>1. \A f \in Ends : at[f] \in {"idle", "check"} => unread'[f] = unread[f]
    BY <1>3, <1>4
  <2> QED BY <1>1, <1>2, <1>12, <2>1 DEF Queued
<1>28. ASSUME transport = "synchronous" PROVE Paused' /\ OneRecord' /\ Sizes' /\ ServerFirst'
  <2>0. Paused /\ Sizes /\ ServerFirst
    BY <1>2, <1>28 DEF Synchronous
  <2>1. Paused'
    BY <1>1, <2>0 DEF Paused, BioCap
  <2>2. OneRecord'
    BY <1>1, <1>12, <1>28, TakesRecord
  <2>3. Sizes'
    BY <1>1, <2>0 DEF Sizes
  <2>4. ServerFirst'
    <3>1. Delivered' = Delivered /\ Ticket' = Ticket
      BY <1>1, <1>12 DEF Delivered, Ticket
    <3> QED BY <1>1, <1>3, <1>12, <2>0, <3>1 DEF ServerFirst
  <2> QED BY <2>1, <2>2, <2>3, <2>4
<1> QED BY <1>1, <1>2, <1>20, <1>21, <1>22, <1>23, <1>24, <1>25, <1>26, <1>27, <1>28 DEF IInv, Synchronous

LEMMA ReadCloseStep ==
  ASSUME IInv, NEW e \in Ends, Running(e), ReadClose(e), UNCHANGED <<stack, Configuration>>
  PROVE  IInv'
<1> DEFINE k == FirstEnd(in[e])
<1>1. /\ NextRecord(e, "close")
      /\ ssl' = [ssl EXCEPT ![e].seen = TRUE] /\ UNCHANGED <<at, tail, arg, received>>
      /\ UNCHANGED <<status, stuck, wire, up, outbox, wrote, told, ended, dropped, stack, app, transport>>
  BY DEF ReadClose, NextRecord, Configuration
<1>2. /\ Types /\ Handshake /\ Streams /\ Closing /\ Consumed
      /\ Given /\ Ending /\ Told /\ Announced /\ Silent
      /\ Queued /\ Synchronous /\ dropped = 0
      /\ transport \in {"queued", "synchronous"}
  BY Invariants
<1>3. /\ Peer(e) \in Ends /\ Peer(e) # e /\ Peer(Peer(e)) = e /\ \A f \in Ends : f = e \/ f = Peer(e)
      /\ Client \in Ends /\ Server \in Ends /\ Client # Server
  BY TwoEnds, SslAssumption
<1>4. /\ k \in 1 .. Len(in[e]) /\ in[e][k].type = "close"
      /\ in' \in [Ends -> Seq(Cells)] /\ unread' \in [Ends -> Nat]
      /\ \A f \in Ends : unread'[f] \in 0 .. BioCap /\ unread'[f] <= Len(in'[f])
      /\ in'[Peer(e)] = in[Peer(e)] /\ unread'[Peer(e)] = unread[Peer(e)]
      /\ Near(e)' = Drop(Near(e), k) /\ Way(e)' = Drop(Way(e), k)
      /\ Near(Peer(e))' = Near(Peer(e)) /\ Way(Peer(e))' = Way(Peer(e))
      /\ Stage(e) = "done" /\ at[e] = "read" /\ arg[e] = <<>>
      /\ ~ssl[e].fatal /\ ~ssl[e].seen
      /\ transport = "synchronous" => unread'[e] = 0 /\ Near(e)' = <<>>
  BY <1>1, Takes
<1>5. in[e] \in Seq(Cells) /\ wire[Peer(e)] \in Seq(Cells) /\ stuck[Peer(e)] \in Seq(Cells) /\ Way(e) \in Seq(Cells)
  <2>1. in[e] \in Seq(Cells) /\ wire[Peer(e)] \in Seq(Cells) /\ stuck[Peer(e)] \in Seq(Cells)
    BY <1>2, <1>3 DEF Types
  <2>2. Near(e) \in Seq(Cells)
    BY <2>1, Lengths DEF Near
  <2> QED BY <2>1, <2>2, Lengths DEF Way
<1>6. PICK h \in Nat, d \in Seq(Nat), c \in {0, 1}, r \in Seq(Nat) : Holds(e, h, d, c, r)
  BY <1>2, <1>4 DEF Streams, Stream
<1>7. /\ Shape(Way(e), h, d, c) /\ h \in Hellos(e) /\ (received[e] \o arg[e]) \o (d \o r) = wrote[Peer(e)]
      /\ (stuck[Peer(e)] = <<>> => r = <<>>)
      /\ (c = 1 => ssl[Peer(e)].sent /\ stuck[Peer(e)] = <<>>)
      /\ (transport = "synchronous" => Len(d) <= RecordMax)
  BY <1>6 DEF Holds
<1>8. /\ in[e][k].type = "hs" => h = k
      /\ in[e][k].type = "app" => h = 0 /\ k <= Len(d) /\ \A i \in 1 .. k : in[e][i].v = d[i]
      /\ in[e][k].type = "close" => h = 0 /\ d = <<>> /\ c = 1 /\ k = 1 /\ Len(Way(e)) = 1
  <2> DEFINE y == wire[Peer(e)] \o stuck[Peer(e)]
  <2>1. y \in Seq(Cells) /\ Way(e) = in[e] \o y
    <3>1. Associates(in[e], wire[Peer(e)], stuck[Peer(e)])
      BY <1>5, Association
    <3> QED BY <1>5, <3>1, Lengths DEF Associates, Way, Near
  <2>2. k > 0
    BY <1>4
  <2> HIDE DEF y
  <2>3. Shape(in[e] \o y, h, d, c)
    BY <1>7, <2>1
  <2> QED BY <1>5, <1>6, <2>1, <2>2, <2>3, ShapeFirst, SMTT(30)
<1>9. received[e] \in Seq(Nat) /\ received[e] \o <<>> = received[e] /\ k \in Nat /\ k >= 1
  BY <1>2, <1>4, ConcatEmptySeq DEF Types
<1> HIDE DEF k
<1>12. /\ ssl' \in [Ends -> [stage : Stages, sent : BOOLEAN, seen : BOOLEAN, fatal : BOOLEAN]]
       /\ ssl'[e].seen = TRUE /\ ssl'[Peer(e)] = ssl[Peer(e)]
       /\ \A f \in Ends : /\ ssl'[f].stage = ssl[f].stage /\ ssl'[f].sent = ssl[f].sent /\ ssl'[f].fatal = ssl[f].fatal
                          /\ Stage(f)' = Stage(f) /\ Closed(f)' = Closed(f)
       /\ Handshake' /\ Consumed' /\ Phase' = Phase
       /\ IF ssl'[Peer(e)].fatal THEN Broken(Peer(e))' ELSE Stream(Peer(e))'
  BY <1>1, <1>2, ReadOthers DEF Types, TypeOK
<1>20. Types'
  BY <1>1, <1>2, <1>3, <1>4, <1>12 DEF Types, TypeOK, Frames, BioCap
<1>13. Way(e)' = <<>> /\ stuck[Peer(e)] = <<>> /\ r = <<>> /\ ssl[Peer(e)].sent /\ d = <<>> /\ h = 0
  <2>1. Drop(Way(e), k) = <<>>
    <3>1. k >= Len(Way(e))
      BY <1>4, <1>8, <1>9
    <3> QED BY <1>5, <1>9, <3>1, Cut
  <2> QED BY <1>4, <1>7, <1>8, <2>1
<1>21. Streams'
  <2>1. Hellos(e)' = Hellos(e)
    BY <1>12 DEF Hellos
  <2>2. Holds(e, 0, d, 0, r)'
    BY <1>1, <1>7, <1>12, <1>13, <2>1, ShapeEmpty DEF Holds
  <2>3. Stream(e)'
    BY <1>6, <2>2 DEF Stream
  <2> QED BY <1>3, <1>4, <1>12, <2>3 DEF Streams
<1>22. Handshake' /\ Consumed' /\ Closing'
  BY <1>1, <1>2, <1>3, <1>4, <1>12, <1>13 DEF Closing
<1>23. Given' /\ Ending'
  BY <1>1, <1>2, <1>3, <1>12 DEF Given, Ending
<1>24. Told'
  BY <1>1, <1>2, <1>12 DEF Told
<1>25. Announced'
  BY <1>1, <1>2 DEF Announced
<1>26. Silent'
  BY <1>1, <1>2 DEF Silent
<1>27. Queued'
  <2>1. \A f \in Ends : unread'[f] = unread[f] \/ f = e
    BY <1>3, <1>4
  <2> QED BY <1>1, <1>2, <1>3, <1>4, <1>12, <2>1, SMTT(30) DEF Queued
<1>28. ASSUME transport = "synchronous" PROVE Paused' /\ OneRecord' /\ Sizes' /\ ServerFirst'
  <2>0. Paused /\ Sizes /\ ServerFirst
    BY <1>2, <1>28 DEF Synchronous
  <2>1. Paused'
    BY <1>1, <2>0 DEF Paused, BioCap
  <2>2. OneRecord'
    BY <1>1, <1>12, <1>28, TakesRecord
  <2>3. Sizes'
    BY <1>1, <2>0 DEF Sizes
  <2>4. ServerFirst'
    <3>1. Delivered' = Delivered /\ Ticket' = Ticket
      BY <1>1, <1>12 DEF Delivered, Ticket
    <3> QED BY <1>1, <1>3, <1>12, <2>0, <3>1 DEF ServerFirst
  <2> QED BY <2>1, <2>2, <2>3, <2>4
<1> QED BY <1>1, <1>2, <1>20, <1>21, <1>22, <1>23, <1>24, <1>25, <1>26, <1>27, <1>28 DEF IInv, Synchronous

-----------------------------------------------------------------------------
(* Writing *)

OneEnd(q) == \A i \in 1 .. Len(q) : q[i].last => i = Len(q)

(* Cells are added behind what is on the way to the other end.             *)
Written(e, a, b) ==
    /\ stuck[e] = <<>> \/ (a = <<>> /\ b = <<>>)
    /\ in' = in
    /\ wire' = [wire EXCEPT ![e] = @ \o a]
    /\ stuck' = [stuck EXCEPT ![e] = @ \o b]

Behind(e, a, b) ==
    /\ wire' \in [Ends -> Seq(Cells)] /\ stuck' \in [Ends -> Seq(Cells)]
    /\ wire'[e] = wire[e] \o a /\ wire'[Peer(e)] = wire[Peer(e)]
    /\ stuck'[e] = stuck[e] \o b /\ stuck'[Peer(e)] = stuck[Peer(e)]
    /\ Near(e)' = Near(e) /\ Way(e)' = Way(e)
    /\ Near(Peer(e))' = Near(Peer(e)) \o a /\ Way(Peer(e))' = Way(Peer(e)) \o (a \o b)
    /\ Near(Peer(e)) \in Seq(Cells) /\ Way(Peer(e)) \in Seq(Cells) /\ a \o b \in Seq(Cells)

(* What is written comes last on the way to the other end.                 *)
LEMMA Appends ==
  ASSUME Types, NEW e \in Ends, NEW a \in Seq(Cells), NEW b \in Seq(Cells), Written(e, a, b)
  PROVE  Behind(e, a, b)
<1> DEFINE p == Peer(e)
<1>1. p \in Ends /\ p # e /\ Peer(p) = e
  BY TwoEnds
<1>2. wire[e] \in Seq(Cells) /\ stuck[e] \in Seq(Cells) /\ in[p] \in Seq(Cells)
  BY <1>1 DEF Types
<1>3. wire[e] \o a \in Seq(Cells) /\ stuck[e] \o b \in Seq(Cells) /\ a \o b \in Seq(Cells)
      /\ in[p] \o wire[e] \in Seq(Cells)
  BY <1>2, Lengths
<1>4. /\ wire' \in [Ends -> Seq(Cells)] /\ stuck' \in [Ends -> Seq(Cells)]
      /\ wire'[e] = wire[e] \o a /\ wire'[p] = wire[p]
      /\ stuck'[e] = stuck[e] \o b /\ stuck'[p] = stuck[p]
  BY <1>1, <1>3 DEF Types, Written
<1>5. Near(e)' = Near(e) /\ Way(e)' = Way(e)
  BY <1>4 DEF Near, Way, Written
<1>6. Near(p)' = in[p] \o (wire[e] \o a) /\ Way(p)' = (in[p] \o (wire[e] \o a)) \o (stuck[e] \o b)
      /\ Near(p) = in[p] \o wire[e] /\ Way(p) = (in[p] \o wire[e]) \o stuck[e]
  BY <1>1, <1>4 DEF Near, Way, Written
<1>7. in[p] \o (wire[e] \o a) = (in[p] \o wire[e]) \o a
  <2>1. Associates(in[p], wire[e], a)
    BY <1>2, Association
  <2> QED BY <2>1 DEF Associates
<1>8. ASSUME NEW n \in Seq(Cells), NEW s \in Seq(Cells), s = <<>> \/ (a = <<>> /\ b = <<>>)
      PROVE  (n \o a) \o (s \o b) = (n \o s) \o (a \o b)
  <2>1. CASE s = <<>>
    <3>1. s \o b = b /\ n \o s = n
      BY <2>1, ConcatEmptySeq
    <3>2. Associates(n, a, b)
      BY Association
    <3> QED BY <3>1, <3>2 DEF Associates
  <2>2. CASE a = <<>> /\ b = <<>>
    <3>1. n \o a = n /\ s \o b = s /\ a \o b = <<>>
      BY <2>2, ConcatEmptySeq
    <3>2. n \o s \in Seq(Cells)
      BY Lengths
    <3>3. (n \o s) \o <<>> = n \o s
      BY <3>2, ConcatEmptySeq
    <3> QED BY <3>1, <3>3
  <2> QED BY <1>8, <2>1, <2>2
<1>9. Way(p)' = Way(p) \o (a \o b)
  <2>1. ((in[p] \o wire[e]) \o a) \o (stuck[e] \o b) = ((in[p] \o wire[e]) \o stuck[e]) \o (a \o b)
    BY <1>2, <1>3, <1>8 DEF Written
  <2> QED BY <1>6, <1>7, <2>1
<1>10. Near(p) \in Seq(Cells) /\ Way(p) \in Seq(Cells)
  BY <1>2, <1>3, <1>6, Lengths
<1> QED BY <1>3, <1>4, <1>5, <1>6, <1>7, <1>9, <1>10 DEF Behind

(* Over a synchronous transport nobody waits for a record when one is      *)
(* written.                                                                *)
LEMMA NobodyWaits ==
  ASSUME IInv, transport = "synchronous", NEW e \in Ends, Running(e), at[e] \notin {"read", "report"},
         at[e] # "idle" \/ at[Peer(e)] = "idle"
  PROVE  /\ wire[e] = <<>> /\ wire[Peer(e)] = <<>>
         /\ \A f \in Ends : unread[f] = 0 \/ ssl[f].fatal \/ ssl[f].seen
         /\ ~ssl[Peer(e)].fatal /\ ~ssl[Peer(e)].seen => \A i \in 1 .. Len(in[Peer(e)]) : ~in[Peer(e)][i].last
<1>1. Peer(e) \in Ends /\ \A f \in Ends : f = e \/ f = Peer(e)
  BY TwoEnds
<1>2. wire[e] = <<>> /\ wire[Peer(e)] = <<>>
  BY <1>1 DEF Running, Delivered
<1>3. unread[Peer(e)] = 0 \/ ssl[Peer(e)].fatal \/ ssl[Peer(e)].seen
  BY <1>1, Runs, NothingUnread
<1>4. unread[e] = 0 \/ ssl[e].fatal \/ ssl[e].seen
  BY NothingUnread
<1>5. ASSUME unread[Peer(e)] = 0 PROVE \A i \in 1 .. Len(in[Peer(e)]) : ~in[Peer(e)][i].last
  <2>1. Consumed /\ Len(in[Peer(e)]) \in Nat
    BY <1>1, Invariants, LenProperties DEF Types
  <2>2. Len(in[Peer(e)]) - unread[Peer(e)] = Len(in[Peer(e)])
    BY <1>5, <2>1
  <2> QED BY <1>1, <2>1, <2>2 DEF Consumed
<1> QED BY <1>1, <1>2, <1>3, <1>4, <1>5

(* One record behind a part of none has one end.                           *)
LEMMA OneBehind ==
  ASSUME NEW x \in Seq(Cells), NEW y \in Seq(Cells), \A i \in 1 .. Len(x) : ~x[i].last, OneEnd(y)
  PROVE  OneEnd(x \o y)
<1>1. /\ x \o y \in Seq(Cells) /\ Len(x \o y) = Len(x) + Len(y) /\ Len(x) \in Nat /\ Len(y) \in Nat
      /\ \A i \in 1 .. Len(x) : (x \o y)[i] = x[i]
      /\ \A i \in 1 .. Len(y) : (x \o y)[Len(x) + i] = y[i]
  BY Cellwise
<1> DEFINE u == x \o y
<1>2. /\ Len(u) = Len(x) + Len(y) /\ Len(x) \in Nat /\ Len(y) \in Nat
      /\ \A i \in 1 .. Len(x) : ~u[i].last
      /\ \A i \in 1 .. Len(y) : u[Len(x) + i].last => i = Len(y)
  BY <1>1 DEF OneEnd
<1> HIDE DEF u
<1>3. ASSUME NEW i \in 1 .. Len(u), u[i].last PROVE i = Len(u)
  <2>1. ~(i \in 1 .. Len(x))
    BY <1>2, <1>3
  <2>2. i - Len(x) \in 1 .. Len(y) /\ Len(x) + (i - Len(x)) = i
    BY <1>2, <2>1
  <2>3. i - Len(x) = Len(y)
    BY <1>2, <1>3, <2>2
  <2> QED BY <1>2, <2>3
<1>4. OneEnd(u)
  BY <1>3 DEF OneEnd
<1> QED BY <1>4 DEF u

(* A record is written. *)
LEMMA WritesRecord ==
  ASSUME IInv, transport = "synchronous", NEW e \in Ends, Running(e), at[e] \notin {"read", "report"},
         at[e] # "idle" \/ at[Peer(e)] = "idle",
         NEW a \in Seq(Cells), OneEnd(a), wire' = [wire EXCEPT ![e] = @ \o a],
         in' = in, unread' = unread,
         \A f \in Ends : ssl'[f].fatal = ssl[f].fatal /\ ssl'[f].seen = ssl[f].seen
  PROVE  OneRecord'
<1> DEFINE p == Peer(e)
<1>1. p \in Ends /\ p # e /\ Peer(p) = e /\ (\A f \in Ends : f = e \/ f = p) /\ Types /\ OneRecord
  BY TwoEnds, Invariants DEF Synchronous
<1>2. /\ wire[e] = <<>> /\ wire[p] = <<>>
      /\ \A f \in Ends : unread[f] = 0 \/ ssl[f].fatal \/ ssl[f].seen
      /\ ~ssl[p].fatal /\ ~ssl[p].seen => \A i \in 1 .. Len(in[p]) : ~in[p][i].last
  BY NobodyWaits
<1>3. Near(p)' = in[p] \o a /\ Near(e)' = Near(e)
  <2>1. wire'[e] = <<>> \o a /\ wire'[p] = wire[p]
    BY <1>1, <1>2 DEF Types
  <2>2. <<>> \o a = a
    BY ConcatEmptySeq
  <2> QED BY <1>1, <2>1, <2>2 DEF Near
<1>4. ~ssl[p].fatal /\ ~ssl[p].seen => OneEnd(Near(p)')
  <2>1. in[p] \in Seq(Cells)
    BY <1>1 DEF Types
  <2> QED BY <1>2, <1>3, <2>1, OneBehind
<1>5. ~ssl[e].fatal /\ ~ssl[e].seen => OneEnd(Near(e)')
  BY <1>1, <1>3 DEF OneRecord, OneEnd
<1> QED BY <1>1, <1>2, <1>4, <1>5 DEF OneRecord, OneEnd

(* A close_notify is at most one record, none if it was sent before.       *)
LEMMA CloseCells ==
  ASSUME NEW e \in Ends
  PROVE  CloseNotify(e) \in Seq(Cells) /\ Len(CloseNotify(e)) <= 1 /\ OneEnd(CloseNotify(e))
<1>1. /\ Plain("close") \in Seq(Cells) /\ Len(Plain("close")) = 1 /\ Len(Plain("close")) <= 1
  <2>1. Plain("close") \in Seq(Cells) /\ Len(Plain("close")) = 1
    BY PlainCells
  <2>2. \A n : n = 1 => n <= 1
    OBVIOUS
  <2> QED BY <2>1, <2>2
<1>2. OneEnd(Plain("close"))
  <2>1. \A y : Len(y) = 1 => OneEnd(y)
    BY DEF OneEnd
  <2> QED BY <1>1, <2>1
<1>3. <<>> \in Seq(Cells) /\ Len(<<>>) <= 1 /\ OneEnd(<<>>)
  BY EmptySeq DEF OneEnd
<1>4. CloseNotify(e) = Plain("close") \/ CloseNotify(e) = <<>>
  BY DEF CloseNotify
<1>5. CASE CloseNotify(e) = Plain("close")
  BY <1>1, <1>2, <1>5
<1>6. CASE CloseNotify(e) = <<>>
  BY <1>3, <1>6
<1> QED BY <1>4, <1>5, <1>6

(* SSL_shutdown sends a close_notify behind everything. *)
LEMMA SendsClose ==
  ASSUME IInv, NEW e \in Ends, ~ssl[e].sent,
         ssl' = [ssl EXCEPT ![e].sent = TRUE],
         wire' = [wire EXCEPT ![e] = @ \o CloseNotify(e)],
         UNCHANGED <<in, stuck, arg, wrote, received, transport>>,
         \A f \in Ends : f # e => status'[f] = status[f]
  PROVE  /\ Streams' /\ wire' \in [Ends -> Seq(Cells)] /\ Phase' = Phase
         /\ ssl' \in [Ends -> [stage : Stages, sent : BOOLEAN, seen : BOOLEAN, fatal : BOOLEAN]]
         /\ ssl'[e].sent = TRUE /\ ssl'[Peer(e)].sent = ssl[Peer(e)].sent
         /\ \A f \in Ends : /\ ssl'[f].fatal = ssl[f].fatal /\ ssl'[f].seen = ssl[f].seen /\ ssl'[f].stage = ssl[f].stage
                            /\ Stage(f)' = Stage(f)
         /\ Way(e)' = Way(e) /\ ~ssl[Peer(e)].seen /\ ~ssl[e].fatal
<1> DEFINE p == Peer(e)
<1>1. p \in Ends /\ p # e /\ Peer(p) = e /\ (\A f \in Ends : f = e \/ f = p) /\ Client \in Ends /\ Server \in Ends
  BY TwoEnds
<1>2. Types /\ Streams /\ Closing
  BY Invariants
<1>3. /\ ssl' \in [Ends -> [stage : Stages, sent : BOOLEAN, seen : BOOLEAN, fatal : BOOLEAN]]
      /\ ssl'[e].sent = TRUE /\ ssl'[p].sent = ssl[p].sent
      /\ \A f \in Ends : /\ ssl'[f].fatal = ssl[f].fatal /\ ssl'[f].seen = ssl[f].seen /\ ssl'[f].stage = ssl[f].stage
                         /\ Stage(f)' = Stage(f)
  <2>1. ssl \in [Ends -> [stage : Stages, sent : BOOLEAN, seen : BOOLEAN, fatal : BOOLEAN]]
    BY <1>2 DEF Types, TypeOK
  <2> QED BY <1>1, <2>1 DEF Stage
<1>4. Phase' = Phase
  BY <1>1, <1>3 DEF Phase
<1>5. ~ssl[p].seen /\ ~ssl[e].fatal
  <2>1. ~ssl[p].seen
    BY <1>1, <1>2 DEF Closing
  <2>2. ~ssl[e].fatal
    BY <1>2 DEF Closing, Streams, Broken
  <2> QED BY <2>1, <2>2
<1> DEFINE a == CloseNotify(e)
<1>6. a \in Seq(Cells) /\ (stuck[e] = <<>> \/ a = <<>>) /\ <<>> \in Seq(Cells) /\ stuck[e] \in Seq(Cells)
  BY <1>2, CloseCells, EmptySeq DEF CloseNotify, Types
<1>7. /\ wire' \in [Ends -> Seq(Cells)]
      /\ Near(e)' = Near(e) /\ Way(e)' = Way(e)
      /\ Way(p)' = Way(p) \o (a \o <<>>) /\ Way(p) \in Seq(Cells)
  <2>1. stuck' = [stuck EXCEPT ![e] = @ \o <<>>]
    <3>1. stuck[e] \o <<>> = stuck[e]
      BY <1>6, ConcatEmptySeq
    <3> QED BY <1>2, <3>1 DEF Types
  <2>2. Written(e, a, <<>>)
    BY <1>6, <2>1 DEF Written
  <2>3. PICK x \in Seq(Cells), b \in Seq(Cells) : x = a /\ b = <<>> /\ Written(e, x, b)
    BY <1>6, <2>2
  <2>4. Behind(e, x, b)
    BY <1>2, <2>3, Appends
  <2> QED BY <2>3, <2>4 DEF Behind
<1>8. IF ssl'[e].fatal THEN Broken(e)' ELSE Stream(e)'
  BY <1>1, <1>2, <1>3, <1>4, <1>5, <1>7, StreamKept
<1>9. CASE ssl[p].fatal
  <2>1. Broken(p)
    BY <1>1, <1>2, <1>9 DEF Streams
  <2>2. Broken(p)'
    BY <1>1, <1>3, <1>4, <2>1 DEF Broken
  <2> QED BY <1>1, <1>3, <1>4, <1>5, <1>7, <1>8, <1>9, <2>2 DEF Streams
<1>10. CASE ~ssl[p].fatal
  <2>1. PICK h \in Nat, d \in Seq(Nat), c \in {0, 1}, r \in Seq(Nat) : Holds(p, h, d, c, r)
    BY <1>1, <1>2, <1>10 DEF Streams, Stream
  <2>2. c = 0
    BY <1>1, <2>1 DEF Holds
  <2>3. Hellos(p)' = Hellos(p)
    BY <1>4 DEF Hellos
  <2>4. PICK cc \in {0, 1} : Shape(Way(p)', h, d, cc) /\ (cc = 1 => stuck[e] = <<>>)
    <3>1. CASE stuck[e] = <<>>
      <4>1. a = Plain("close") /\ a \o <<>> = a
        BY <1>6, <3>1, ConcatEmptySeq DEF CloseNotify
      <4>2. Shape(Way(p) \o Plain("close"), h, d, 1)
        BY <1>7, <2>1, <2>2, ShapeClose DEF Holds
      <4>3. Way(p)' = Way(p) \o Plain("close")
        BY <1>7, <4>1
      <4> QED BY <3>1, <4>2, <4>3
    <3>2. CASE stuck[e] # <<>>
      <4>1. a = <<>> /\ <<>> \o <<>> = <<>>
        BY <1>6, <3>2, ConcatEmptySeq DEF CloseNotify
      <4>2. Way(p)' = Way(p)
        BY <1>7, <4>1, ConcatEmptySeq
      <4> QED BY <2>1, <2>2, <4>2 DEF Holds
    <3> QED BY <3>1, <3>2
  <2>5. Holds(p, h, d, cc, r)'
    BY <1>1, <1>3, <2>1, <2>3, <2>4 DEF Holds
  <2>6. Stream(p)'
    BY <2>5 DEF Stream
  <2> QED BY <1>1, <1>3, <1>4, <1>5, <1>7, <1>8, <1>10, <2>6 DEF Streams
<1> QED BY <1>9, <1>10

(* The end of on_received when there is nothing to answer. *)
LEMMA CheckNothingStep ==
  ASSUME IInv, NEW e \in Ends, Running(e), Check(e), ~(ssl[e].seen /\ ~ssl[e].sent), UNCHANGED <<stack, Configuration>>
  PROVE  IInv'
<1>1. /\ at[e] = "check" /\ at' = [at EXCEPT ![e] = "idle"]
      /\ UNCHANGED <<status, ssl, in, unread, stuck, wire, up, tail, arg, outbox, wrote, received, told, ended, dropped, stack, app, transport>>
  BY DEF Check, appVars, Configuration
<1>2. /\ Types /\ Handshake /\ Streams /\ Closing /\ Consumed
      /\ Given /\ Ending /\ Told /\ Announced /\ Silent
      /\ Queued /\ Synchronous /\ dropped = 0
      /\ transport \in {"queued", "synchronous"}
  BY Invariants
<1>3. /\ Peer(e) \in Ends /\ Peer(e) # e /\ \A f \in Ends : f = e \/ f = Peer(e)
      /\ Client \in Ends /\ Server \in Ends /\ Client # Server
  BY TwoEnds, SslAssumption
<1>4. at'[e] = "idle" /\ (\A f \in Ends : f # e => at'[f] = at[f])
  BY <1>1, <1>2, <1>3 DEF Types, TypeOK
<1>5. \A f \in Ends : Stage(f)' = Stage(f) /\ Closed(f)' = Closed(f)
  BY <1>1 DEF Stage, Closed
<1>7. Types'
  BY <1>1, <1>2 DEF Types, TypeOK, Frames, BioCap
<1>8. Handshake' /\ Streams' /\ Closing'
  BY <1>1, FlowStays
<1>9. Consumed'
  BY <1>1, <1>2 DEF Consumed
<1>10. Given' /\ Ending'
  BY <1>1, <1>2, <1>3, <1>4, <1>5 DEF Given, Ending
<1>12. Told'
  BY <1>1, <1>2, <1>3, <1>4, <1>5 DEF Told
<1>13. Announced'
  BY <1>1, <1>2, <1>3, <1>4 DEF Announced
<1>14. Silent'
  BY <1>1, <1>2 DEF Silent
<1>15. Queued'
  BY <1>1, <1>2, <1>3, <1>4, <1>5 DEF Queued
<1>16. ASSUME transport = "synchronous" PROVE Paused' /\ OneRecord' /\ Sizes' /\ ServerFirst'
  <2>1. Paused'
    BY <1>1, <1>16, PausedStays
  <2>2. OneRecord'
    BY <1>1, <1>3, <1>16, NothingUnread, RecordStays
  <2>3. Sizes'
    BY <1>1, <1>2, <1>16 DEF Synchronous, Sizes
  <2>4. ServerFirst'
    <3>1. ServerFirst
      BY <1>2, <1>16 DEF Synchronous
    <3>2. CASE told[Server] = 0 /\ Stage(Client) = "done"
      <4>1. /\ e = Client /\ stack # <<>> /\ Head(stack).end = Client
            /\ Len(stack) > 1 /\ stack[2].end = Server /\ Delivered
            /\ Phase = <<"done", "done">> /\ status[Server] = "connected" /\ at[Server] = "announce"
        BY <1>1, <1>16, <3>2, FirstRuns
      <4>2. at'[Client] = "idle" /\ at'[Server] = at[Server] /\ Delivered' /\ Phase' = Phase
        BY <1>1, <1>3, <1>4, <4>1 DEF Delivered, Phase, Stage
      <4>3. Ticket'
        BY <1>1, <4>1, <4>2 DEF Ticket
      <4> QED BY <1>1, <1>5, <3>1, <3>2, <4>2, <4>3 DEF ServerFirst
    <3>3. CASE told[Server] # 0
      BY <1>1, <3>3 DEF ServerFirst
    <3>4. CASE told[Server] = 0 /\ Stage(Client) # "done"
      BY <1>1, <1>3, <1>4, <1>5, <3>1, <3>4 DEF ServerFirst
    <3> QED BY <3>2, <3>3, <3>4
  <2> QED BY <2>1, <2>2, <2>3, <2>4
<1> QED BY <1>1, <1>2, <1>7, <1>8, <1>9, <1>10, <1>12, <1>13, <1>14, <1>15, <1>16 DEF IInv, Synchronous

(* The end of on_received when the peer's close_notify is answered.        *)
LEMMA CheckAnswersStep ==
  ASSUME IInv, NEW e \in Ends, Running(e), Check(e), ssl[e].seen, ~ssl[e].sent, UNCHANGED <<stack, Configuration>>
  PROVE  IInv'
<1>1. /\ at[e] = "check" /\ at' = [at EXCEPT ![e] = "idle"]
      /\ status' = [status EXCEPT ![e] = "peer_closing"]
      /\ ssl' = [ssl EXCEPT ![e].sent = TRUE]
      /\ wire' = [wire EXCEPT ![e] = @ \o CloseNotify(e)]
      /\ UNCHANGED <<in, unread, stuck, up, tail, arg, outbox, wrote, received, told, ended, dropped, stack, app, transport>>
  BY DEF Check, appVars, Configuration
<1>2. /\ Types /\ Handshake /\ Streams /\ Closing /\ Consumed
      /\ Given /\ Ending /\ Told /\ Announced /\ Silent
      /\ Queued /\ Synchronous /\ dropped = 0
      /\ transport \in {"queued", "synchronous"}
  BY Invariants
<1>3. /\ Peer(e) \in Ends /\ Peer(e) # e /\ Peer(Peer(e)) = e /\ \A f \in Ends : f = e \/ f = Peer(e)
      /\ Client \in Ends /\ Server \in Ends /\ Client # Server
  BY TwoEnds, SslAssumption
<1>4. /\ at'[e] = "idle" /\ status'[e] = "peer_closing"
      /\ \A f \in Ends : f # e => at'[f] = at[f] /\ status'[f] = status[f]
  BY <1>1, <1>2, <1>3 DEF Types, TypeOK
<1>5. /\ Streams' /\ wire' \in [Ends -> Seq(Cells)] /\ Phase' = Phase
      /\ ssl' \in [Ends -> [stage : Stages, sent : BOOLEAN, seen : BOOLEAN, fatal : BOOLEAN]]
      /\ ssl'[e].sent = TRUE /\ ssl'[Peer(e)].sent = ssl[Peer(e)].sent
      /\ \A f \in Ends : /\ ssl'[f].fatal = ssl[f].fatal /\ ssl'[f].seen = ssl[f].seen /\ ssl'[f].stage = ssl[f].stage
                         /\ Stage(f)' = Stage(f)
      /\ Way(e)' = Way(e) /\ ~ssl[Peer(e)].seen /\ ~ssl[e].fatal
  BY <1>1, <1>4, SendsClose, ZenonT(30)
<1>6. status[e] = "connected" /\ Stage(e) = "done"
  <2>1. Stage(e) = "done" /\ status[e] \notin {"closing", "peer_closing"} /\ ~Closed(e)
    BY <1>2 DEF Closing
  <2>2. status[e] # "connecting"
    BY <1>2, <2>1 DEF Handshake
  <2> QED BY <1>2, <2>1, <2>2 DEF Types, TypeOK, Closed
<1>7. ~Closed(e) /\ ~Closed(e)' /\ \A f \in Ends : f # e => Closed(f)' = Closed(f)
  BY <1>4, <1>5, <1>6 DEF Closed
<1>8. Types'
  <2>1. /\ status' \in [Ends -> {"closed", "connecting", "connected", "peer_closing", "closing"}]
        /\ at' \in [Ends -> {"idle", "announce", "on_connected", "read", "on_received", "check",
                       "report", "on_disconnected", "app"}]
    BY <1>1, <1>2 DEF Types, TypeOK
  <2> QED BY <1>1, <1>2, <1>5, <2>1 DEF Types, TypeOK, Frames, BioCap
<1>9. Handshake' /\ Consumed'
  <2>1. Handshake'
    BY <1>1, <1>2, <1>3, <1>4, <1>5, <1>6 DEF Handshake
  <2> QED BY <1>1, <1>2, <2>1 DEF Consumed
<1>10. Closing'
  <2>1. \A f \in Ends : ssl'[f].seen => f = e
    BY <1>3, <1>5
  <2> QED BY <1>1, <1>2, <1>3, <1>4, <1>5, <1>7, <2>1 DEF Closing
<1>11. Given' /\ Ending'
  BY <1>1, <1>2, <1>3, <1>4, <1>7 DEF Given, Ending
<1>12. Told'
  BY <1>1, <1>2, <1>3, <1>4, <1>5, <1>7 DEF Told
<1>13. Announced'
  BY <1>1, <1>2, <1>3, <1>4 DEF Announced
<1>14. Silent'
  BY <1>1, <1>2 DEF Silent
<1>15. Queued'
  BY <1>1, <1>2, <1>3, <1>4, <1>5, <1>6, <1>7 DEF Queued, Ending
<1>16. ASSUME transport = "synchronous" PROVE Paused' /\ OneRecord' /\ Sizes' /\ ServerFirst'
  <2>1. Paused'
    <3>1. Len(CloseNotify(e)) <= BioCap
      BY <1>2, CloseCells, Bounds, LenProperties
    <3> QED BY <1>1, <1>16, <3>1, CloseCells, PausedWrites DEF Pauses
  <2>2. OneRecord'
    BY <1>1, <1>5, <1>16, CloseCells, WritesRecord
  <2>3. Sizes'
    BY <1>1, <1>2, <1>16 DEF Synchronous, Sizes
  <2>4. ServerFirst'
    <3>1. ServerFirst
      BY <1>2, <1>16 DEF Synchronous
    <3>2. ~(told[Server] = 0 /\ Stage(Client) = "done")
      <4>1. ASSUME told[Server] = 0, Stage(Client) = "done"
            PROVE  e = Client /\ status[Server] = "connected"
        BY <1>1, <1>16, <4>1, FirstRuns
      <4>2. ASSUME e = Client, status[Server] = "connected" PROVE FALSE
        <5>1. Peer(e) = Server
          BY <1>3, <4>2 DEF Peer
        <5>2. ssl[Server].sent
          BY <1>2, <5>1 DEF Closing
        <5> QED BY <1>2, <1>3, <4>2, <5>2 DEF Closing, Closed
      <4> QED BY <4>1, <4>2
    <3> QED BY <1>1, <1>3, <1>4, <1>5, <3>1, <3>2 DEF ServerFirst
  <2> QED BY <2>1, <2>2, <2>3, <2>4
<1> QED BY <1>1, <1>2, <1>5, <1>8, <1>9, <1>10, <1>11, <1>12, <1>13, <1>14, <1>15, <1>16 DEF IInv, Synchronous

(* The application disconnects.                                            *)
LEMMA DisconnectStep ==
  ASSUME IInv, NEW e \in Ends, Disconnect(e), UNCHANGED <<stack, Configuration>>
  PROVE  IInv'
<1>1. /\ status[e] = "connected" /\ Running(e)
      /\ at[e] = "app" \/ (at[e] = "idle" /\ (transport = "queued" \/ at[Peer(e)] = "idle") /\ stack = <<>>)
      /\ at' = [at EXCEPT ![e] = "report"]
      /\ status' = [status EXCEPT ![e] = IF Complete(e) THEN "closed" ELSE "closing"]
      /\ ssl' = [ssl EXCEPT ![e].sent = TRUE]
      /\ wire' = [wire EXCEPT ![e] = @ \o CloseNotify(e)]
      /\ tail' = [tail EXCEPT ![e] = at[e] = "app" /\ @]
      /\ UNCHANGED <<in, unread, stuck, up, arg, outbox, wrote, received, told, ended, dropped, stack, app, transport>>
  BY DEF Disconnect, appVars, Configuration
<1>2. /\ Types /\ Handshake /\ Streams /\ Closing /\ Consumed
      /\ Given /\ Ending /\ Told /\ Announced /\ Silent
      /\ Queued /\ Synchronous /\ dropped = 0
      /\ transport \in {"queued", "synchronous"}
  BY Invariants
<1>3. /\ Peer(e) \in Ends /\ Peer(e) # e /\ Peer(Peer(e)) = e /\ \A f \in Ends : f = e \/ f = Peer(e)
      /\ Client \in Ends /\ Server \in Ends /\ Client # Server
  BY TwoEnds, SslAssumption
<1>4. /\ at'[e] = "report" /\ status'[e] \in {"closed", "closing"} /\ (status'[e] = "closed" => ssl[e].seen)
      /\ \A f \in Ends : f # e => at'[f] = at[f] /\ status'[f] = status[f]
  BY <1>1, <1>2, <1>3 DEF Types, TypeOK, Complete
<1>6. Stage(e) = "done" /\ ~ssl[e].sent /\ ~Closed(e)
  <2>1. Stage(e) = "done"
    BY <1>1, <1>2 DEF Handshake
  <2> QED BY <1>1, <1>2, <2>1 DEF Closing, Closed
<1>5. /\ Streams' /\ wire' \in [Ends -> Seq(Cells)] /\ Phase' = Phase
      /\ ssl' \in [Ends -> [stage : Stages, sent : BOOLEAN, seen : BOOLEAN, fatal : BOOLEAN]]
      /\ ssl'[e].sent = TRUE /\ ssl'[Peer(e)].sent = ssl[Peer(e)].sent
      /\ \A f \in Ends : /\ ssl'[f].fatal = ssl[f].fatal /\ ssl'[f].seen = ssl[f].seen /\ ssl'[f].stage = ssl[f].stage
                         /\ Stage(f)' = Stage(f)
      /\ Way(e)' = Way(e) /\ ~ssl[Peer(e)].seen /\ ~ssl[e].fatal
  BY <1>1, <1>4, <1>6, SendsClose, ZenonT(30)
<1>7. /\ Closed(e)' => ssl[e].seen
      /\ \A f \in Ends : f # e => Closed(f)' = Closed(f)
  BY <1>4, <1>5, <1>6 DEF Closed
<1>a. told[e] # 0 /\ told[e] \in Nat
  <2>1. told[e] \in Nat
    BY <1>2 DEF Types, TypeOK
  <2>2. told[e] = 0 => at[e] # "app"
    BY <1>2 DEF Told
  <2>3. told[e] = 0 => at[e] # "idle" \/ stack # <<>>
    <3>1. ASSUME told[e] = 0, stack = <<>> PROVE at[e] \in {"announce", "on_connected"}
      <4>1. DOMAIN stack = {}
        BY <3>1
      <4> QED BY <1>1, <1>2, <3>1, <4>1 DEF Announced
    <3> QED BY <3>1
  <2> QED BY <1>1, <2>1, <2>2, <2>3
<1>8. Types'
  <2>1. /\ status' \in [Ends -> {"closed", "connecting", "connected", "peer_closing", "closing"}]
        /\ at' \in [Ends -> {"idle", "announce", "on_connected", "read", "on_received", "check",
                       "report", "on_disconnected", "app"}]
    BY <1>1, <1>2 DEF Types, TypeOK
  <2>2. tail' \in [Ends -> BOOLEAN]
    BY <1>1, <1>2 DEF Types, TypeOK
  <2> QED BY <1>1, <1>2, <1>5, <2>1, <2>2 DEF Types, TypeOK, Frames, BioCap
<1>9. Handshake' /\ Consumed'
  <2>1. Handshake'
    BY <1>1, <1>2, <1>3, <1>4, <1>5, <1>6 DEF Handshake
  <2> QED BY <1>1, <1>2, <2>1 DEF Consumed
<1>10. Closing'
  <2>1. \A f \in Ends : ssl'[f].seen => f = e
    BY <1>3, <1>5
  <2>2. ssl'[e].sent <=> status'[e] \in {"closing", "peer_closing"} \/ Closed(e)'
    BY <1>4, <1>5, <1>6 DEF Closed
  <2> QED BY <1>1, <1>2, <1>3, <1>4, <1>5, <1>7, <2>1, <2>2 DEF Closing
<1>11. Given' /\ Ending'
  BY <1>1, <1>2, <1>3, <1>4, <1>6, <1>7 DEF Given, Ending
<1>12. Told'
  BY <1>1, <1>2, <1>3, <1>4, <1>5, <1>6, <1>7, <1>a DEF Told
<1>13. Announced'
  BY <1>1, <1>2, <1>3, <1>4, <1>a DEF Announced
<1>14. Silent'
  BY <1>1, <1>2 DEF Silent
<1>15. Queued'
  BY <1>1, <1>2, <1>3, <1>4, <1>5, <1>6, <1>7, <1>a DEF Queued, Ending
<1>16. ASSUME transport = "synchronous" PROVE Paused' /\ OneRecord' /\ Sizes' /\ ServerFirst'
  <2>0. at[e] \notin {"read", "report"} /\ (at[e] # "idle" \/ at[Peer(e)] = "idle") /\ (at[e] = "idle" => stack = <<>>)
    BY <1>1, <1>16
  <2>1. Paused'
    <3>1. Len(CloseNotify(e)) <= BioCap
      BY <1>2, CloseCells, Bounds, LenProperties
    <3> QED BY <1>1, <1>16, <2>0, <3>1, CloseCells, PausedWrites DEF Pauses
  <2>2. OneRecord'
    BY <1>1, <1>5, <1>16, <2>0, CloseCells, WritesRecord
  <2>3. Sizes'
    BY <1>1, <1>2, <1>16 DEF Synchronous, Sizes
  <2>4. ServerFirst'
    <3>1. ServerFirst
      BY <1>2, <1>16 DEF Synchronous
    <3>2. told[Server] # 0
      BY <1>3, <1>a, <3>1 DEF ServerFirst, Ends
    <3> QED BY <1>1, <3>2 DEF ServerFirst
  <2> QED BY <2>1, <2>2, <2>3, <2>4
<1> QED BY <1>1, <1>2, <1>5, <1>8, <1>9, <1>10, <1>11, <1>12, <1>13, <1>14, <1>15, <1>16 DEF IInv, Synchronous

(* write takes the next message of the callback. *)
LEMMA SendsMessage ==
  ASSUME IInv, NEW e \in Ends, outbox[e] # <<>>, outbox' = [outbox EXCEPT ![e] = Tail(@)]
  PROVE  /\ outbox' \in [Ends -> Seq(Seq(Nat))] /\ (Short(outbox[e]) => Short(outbox'[e]) /\ Len(Head(outbox[e])) <= RecordMax)
         /\ \A f \in Ends : f # e => outbox'[f] = outbox[f]
         /\ Head(outbox[e]) \in Seq(Nat)
<1> DEFINE b == outbox[e]
<1>1. outbox \in [Ends -> Seq(Seq(Nat))]
  BY Invariants DEF Types
<1>2. b \in Seq(Seq(Nat))
  BY <1>1
<1>3. /\ Len(b) \in Nat \ {0} /\ DOMAIN b = 1 .. Len(b) /\ Head(b) \in Seq(Nat) /\ Head(b) = b[1]
      /\ Tail(b) \in Seq(Seq(Nat)) /\ Len(Tail(b)) = Len(b) - 1
      /\ \A i \in 1 .. Len(Tail(b)) : Tail(b)[i] = b[i + 1]
  BY <1>2, HeadTailProperties, LenProperties, EmptySeq
<1>4. outbox' \in [Ends -> Seq(Seq(Nat))] /\ outbox'[e] = Tail(b) /\ \A f \in Ends : f # e => outbox'[f] = outbox[f]
  BY <1>1, <1>3
<1> HIDE DEF b
<1>5. ASSUME Short(b) PROVE Short(Tail(b)) /\ Len(Head(b)) <= RecordMax
  <2>1. \A i \in 1 .. Len(b) : Len(b[i]) <= RecordMax
    BY <1>3, <1>5 DEF Short
  <2>2. DOMAIN Tail(b) = 1 .. Len(b) - 1
    BY <1>3, LenProperties
  <2>3. \A i \in 1 .. Len(b) - 1 : i + 1 \in 1 .. Len(b) /\ Tail(b)[i] = b[i + 1]
    BY <1>3
  <2>4. \A i \in DOMAIN Tail(b) : Len(Tail(b)[i]) <= RecordMax
    BY <2>1, <2>2, <2>3
  <2>5. Len(b[1]) <= RecordMax
    BY <1>3, <2>1
  <2> QED BY <1>3, <2>4, <2>5 DEF Short
<1> QED BY <1>3, <1>4, <1>5 DEF b

(* write of a stream that is not connected: the bytes are not taken. *)
LEMMA WriteNothingStep ==
  ASSUME IInv, NEW e \in Ends, Running(e), Write(e), status[e] # "connected", UNCHANGED <<stack, Configuration>>
  PROVE  IInv'
<1>1. /\ at[e] = "app" /\ outbox[e] # <<>> /\ outbox' = [outbox EXCEPT ![e] = Tail(@)]
      /\ UNCHANGED <<status, ssl, in, unread, stuck, wire, up, at, tail, arg, wrote, received, told, ended, dropped, stack, app, transport>>
  BY DEF Write, Configuration
<1>2. /\ Types /\ Handshake /\ Streams /\ Closing /\ Consumed
      /\ Given /\ Ending /\ Told /\ Announced /\ Silent
      /\ Queued /\ Synchronous /\ dropped = 0
      /\ transport \in {"queued", "synchronous"}
  BY Invariants
<1>3. /\ Peer(e) \in Ends /\ Peer(e) # e /\ \A f \in Ends : f = e \/ f = Peer(e)
      /\ Client \in Ends /\ Server \in Ends /\ Client # Server
  BY TwoEnds, SslAssumption
<1>4. /\ outbox' \in [Ends -> Seq(Seq(Nat))] /\ (Short(outbox[e]) => Short(outbox'[e]))
      /\ \A f \in Ends : f # e => outbox'[f] = outbox[f]
  BY <1>1, SendsMessage
<1>5. \A f \in Ends : Stage(f)' = Stage(f) /\ Closed(f)' = Closed(f)
  BY <1>1 DEF Stage, Closed
<1>6. told[e] # 0 /\ told[Client] # 0
  BY <1>1, <1>2, <1>3 DEF Told, Silent
<1>7. Types'
  BY <1>1, <1>2, <1>4 DEF Types, TypeOK, Frames, BioCap
<1>8. Handshake' /\ Streams' /\ Closing'
  BY <1>1, FlowStays
<1>9. Consumed' /\ Given' /\ Ending' /\ Announced'
  BY <1>1, <1>2, <1>5 DEF Consumed, Given, Ending, Announced
<1>10. Told'
  BY <1>1, <1>2, <1>3, <1>4, <1>5, <1>6 DEF Told
<1>11. Silent'
  BY <1>1, <1>6 DEF Silent
<1>12. Queued'
  BY <1>1, <1>2, <1>5 DEF Queued
<1>13. ASSUME transport = "synchronous" PROVE Paused' /\ OneRecord' /\ Sizes' /\ ServerFirst'
  <2>0. Paused /\ OneRecord /\ Sizes /\ ServerFirst
    BY <1>2, <1>13 DEF Synchronous
  <2>1. Paused'
    BY <1>1, <2>0 DEF Paused, BioCap
  <2>2. OneRecord'
    BY <1>1, <1>3, <1>13, NothingUnread, RecordStays
  <2>3. Sizes'
    BY <1>1, <1>3, <1>4, <2>0 DEF Sizes
  <2>4. ServerFirst'
    BY <1>1, <1>6, <2>0 DEF ServerFirst
  <2> QED BY <2>1, <2>2, <2>3, <2>4
<1> QED BY <1>1, <1>2, <1>7, <1>8, <1>9, <1>10, <1>11, <1>12, <1>13 DEF IInv, Synchronous

(* The front of a record has at most the one end.                          *)
LEMMA OneEndTake ==
  ASSUME NEW q \in Seq(Cells), OneEnd(q), NEW n \in Nat
  PROVE  OneEnd(Take(q, n))
<1> DEFINE u == Take(q, n)
<1>1. /\ u \in Seq(Cells) /\ Len(u) = Least(n, Len(q)) /\ Len(q) \in Nat
      /\ \A i \in 1 .. Len(u) : u[i] = q[i]
  BY Cut, LenProperties
<1> HIDE DEF u
<1>2. Len(u) \in Nat /\ Len(u) <= Len(q)
  BY <1>1 DEF Least
<1>3. ASSUME NEW i \in 1 .. Len(u), u[i].last PROVE i = Len(u)
  <2>1. i \in 1 .. Len(q) /\ q[i].last
    BY <1>1, <1>2, <1>3
  <2>2. i = Len(q)
    BY <2>1 DEF OneEnd
  <2> QED BY <1>2, <2>1, <2>2
<1>4. OneEnd(u)
  BY <1>3 DEF OneEnd
<1> QED BY <1>4 DEF u

(* What SSL_write makes of a message: what goes out, and what is stuck.    *)
Sealed(e, msg) == IF stuck[e] = <<>> THEN Records(msg) ELSE <<>>
Room(msg, cells) == IF Least(Len(msg), RecordMax) <= BioCap THEN Len(cells) ELSE BioCap

(* write splits the cells of a message into those that leave and those     *)
(* that are stuck, and a message that fits is one record.                  *)
LEMMA WriteCells ==
  ASSUME IInv, NEW e \in Ends, NEW msg \in Seq(Nat)
  PROVE  \E a \in Seq(Cells), b \in Seq(Cells) :
         /\ a = Take(Sealed(e, msg), Room(msg, Sealed(e, msg))) /\ b = Drop(Sealed(e, msg), Room(msg, Sealed(e, msg)))
         /\ a \o b = Sealed(e, msg)
         /\ stuck[e] = <<>> \/ (a = <<>> /\ b = <<>>)
         /\ Len(msg) <= RecordMax => Len(a) <= BioCap /\ OneEnd(a)
<1> DEFINE cells == Sealed(e, msg)
           room == Room(msg, cells)
<1>1. BioCap \in Nat /\ RecordMax \in Nat /\ BioCap > 0
  BY Invariants, Bounds
<1>2. /\ Records(msg) \in Seq(Cells) /\ Len(Records(msg)) = Len(msg) /\ Len(msg) \in Nat
      /\ Len(msg) <= RecordMax => \A i \in 1 .. Len(msg) : Records(msg)[i].last => i = Len(msg)
  <2>1. /\ Records(msg) \in Seq(Cells) /\ Len(Records(msg)) = Len(msg) /\ Len(msg) \in Nat
        /\ \A i \in 1 .. Len(msg) : Len(msg) <= RecordMax /\ Records(msg)[i].last => i = Len(msg)
    BY RecordCells
  <2> QED BY <2>1
<1>3. <<>> \in Seq(Cells) /\ Len(<<>>) = 0
  BY EmptySeq
<1>4. cells \in Seq(Cells) /\ (cells = <<>> \/ Len(cells) = Len(msg)) /\ Len(cells) <= Len(msg) /\ Len(cells) \in Nat
  BY <1>2, <1>3 DEF Sealed
<1>5. room \in Nat
  BY <1>1, <1>4 DEF Room
<1>6. /\ Take(cells, room) \in Seq(Cells) /\ Drop(cells, room) \in Seq(Cells)
      /\ Take(cells, room) \o Drop(cells, room) = cells
      /\ Len(Take(cells, room)) = Least(room, Len(cells))
      /\ room >= Len(cells) => Take(cells, room) = cells /\ Drop(cells, room) = <<>>
  <2>1. ASSUME NEW q \in Seq(Cells), NEW n \in Nat
        PROVE  /\ Take(q, n) \in Seq(Cells) /\ Drop(q, n) \in Seq(Cells)
               /\ Take(q, n) \o Drop(q, n) = q
               /\ Len(Take(q, n)) = Least(n, Len(q))
               /\ n >= Len(q) => Take(q, n) = q /\ Drop(q, n) = <<>>
    BY Cut
  <2> QED BY <1>4, <1>5, <2>1
<1>7. stuck[e] = <<>> \/ (Take(cells, room) = <<>> /\ Drop(cells, room) = <<>>)
  <2>1. ASSUME cells = <<>> PROVE Take(cells, room) = <<>> /\ Drop(cells, room) = <<>>
    <3>1. room >= Len(cells)
      BY <1>3, <1>5, <2>1
    <3> QED BY <1>6, <2>1, <3>1
  <2> QED BY <2>1 DEF Sealed
<1>8. ASSUME Len(msg) <= RecordMax PROVE Len(Take(cells, room)) <= BioCap
  <2>1. Least(Len(msg), RecordMax) = Len(msg)
    BY <1>2, <1>8 DEF Least
  <2>2. room = (IF Len(msg) <= BioCap THEN Len(cells) ELSE BioCap)
    BY <2>1 DEF Room
  <2>3. Least(room, Len(cells)) <= BioCap
    BY <1>1, <1>2, <1>4, <1>5, <2>2 DEF Least
  <2> QED BY <1>6, <2>3
<1>9. ASSUME Len(msg) <= RecordMax PROVE OneEnd(Take(cells, room))
  <2>1. OneEnd(cells)
    <3>1. OneEnd(Records(msg))
      BY <1>2, <1>9 DEF OneEnd
    <3>2. OneEnd(<<>>)
      BY <1>3 DEF OneEnd
    <3> QED BY <3>1, <3>2 DEF Sealed
  <2> QED BY <1>4, <1>5, <2>1, OneEndTake
<1> QED BY <1>6, <1>7, <1>8, <1>9

(* Data is written behind the data on the way, none while a record is      *)
(* stuck: then it will never come.                                         *)
LEMMA SendsData ==
  ASSUME IInv, NEW e \in Ends, status[e] = "connected", Stage(e) = "done", NEW msg \in Seq(Nat),
         NEW a \in Seq(Cells), NEW b \in Seq(Cells), Written(e, a, b),
         a \o b = Sealed(e, msg),
         wrote' = [wrote EXCEPT ![e] = @ \o msg],
         UNCHANGED <<status, ssl, arg, received, transport>>,
         transport = "synchronous" =>
            /\ Len(msg) <= RecordMax /\ wire[e] = <<>>
            /\ ~ssl[Peer(e)].fatal /\ ~ssl[Peer(e)].seen => \A i \in 1 .. Len(in[Peer(e)]) : ~in[Peer(e)][i].last
  PROVE  /\ Streams' /\ Phase' = Phase /\ wrote' \in [Ends -> Seq(Nat)]
         /\ ~ssl[Peer(e)].seen /\ Way(e)' = Way(e)
         /\ \A f \in Ends : f # e => wrote'[f] = wrote[f]
<1> DEFINE p == Peer(e)
<1>1. p \in Ends /\ p # e /\ Peer(p) = e /\ (\A f \in Ends : f = e \/ f = p) /\ Client \in Ends /\ Server \in Ends
  BY TwoEnds
<1>2. Types /\ Streams /\ Closing
  BY Invariants
<1>3. Phase' = Phase
  BY DEF Phase, Stage
<1>4. ~ssl[e].sent /\ ~ssl[p].seen
  BY <1>1, <1>2 DEF Closing, Closed
<1>5. wrote' \in [Ends -> Seq(Nat)] /\ wrote'[e] = wrote[e] \o msg /\ wrote[e] \in Seq(Nat)
      /\ \A f \in Ends : f # e => wrote'[f] = wrote[f]
  <2>1. wrote[e] \in Seq(Nat) /\ wrote[e] \o msg \in Seq(Nat)
    BY <1>2, Lengths DEF Types
  <2> QED BY <1>2, <2>1 DEF Types
<1>6. Behind(e, a, b)
  BY <1>2, Appends
<1>7. /\ stuck'[e] = stuck[e] \o b /\ stuck'[p] = stuck[p]
      /\ Way(e)' = Way(e) /\ Way(p)' = Way(p) \o (a \o b) /\ Way(p) \in Seq(Cells)
  BY <1>6 DEF Behind
<1>8. IF ssl'[e].fatal THEN Broken(e)' ELSE Stream(e)'
  BY <1>1, <1>2, <1>3, <1>5, <1>7, StreamKept
<1>9. CASE ssl[p].fatal
  <2>1. Broken(p)
    BY <1>1, <1>2, <1>9 DEF Streams
  <2>2. PICK r \in Seq(Nat) : received[p] \o r = wrote[e]
    BY <1>1, <2>1 DEF Broken
  <2>3. r \o msg \in Seq(Nat) /\ received[p] \o (r \o msg) = wrote[e] \o msg
    <3>1. received[p] \in Seq(Nat)
      BY <1>1, <1>2 DEF Types
    <3>2. Associates(received[p], r, msg) /\ r \o msg \in Seq(Nat)
      BY <3>1, Association, Lengths
    <3> QED BY <2>2, <3>2 DEF Associates
  <2>4. PICK s \in Seq(Nat) : s = r \o msg
    BY <2>3
  <2>5. received'[p] \o s = wrote'[e]
    BY <1>5, <2>3, <2>4
  <2>6. Broken(p)'
    BY <1>1, <1>3, <2>1, <2>5 DEF Broken
  <2> QED BY <1>1, <1>3, <1>4, <1>5, <1>7, <1>8, <1>9, <2>6 DEF Streams
<1>10. CASE ~ssl[p].fatal
  <2>1. PICK h \in Nat, d \in Seq(Nat), c \in {0, 1}, r \in Seq(Nat) : Holds(p, h, d, c, r)
    BY <1>1, <1>2, <1>10 DEF Streams, Stream
  <2>2. /\ Shape(Way(p), h, d, c) /\ h \in Hellos(p) /\ (received[p] \o arg[p]) \o (d \o r) = wrote[e]
        /\ (stuck[e] = <<>> => r = <<>>) /\ c = 0 /\ Hellos(p)' = Hellos(p)
        /\ (transport = "synchronous" => Len(d) <= RecordMax)
    BY <1>1, <1>3, <1>4, <2>1 DEF Holds, Hellos
  <2>3. PICK x \in Seq(Nat) : x = received[p] \o arg[p]
    <3>1. received[p] \o arg[p] \in Seq(Nat)
      BY <1>1, <1>2, Lengths DEF Types
    <3> QED BY <3>1
  <2>4. ASSUME stuck[e] = <<>> PROVE Stream(p)'
    <3>1. PICK s \in Seq(Nat) : s = d \o msg
      BY Lengths
    <3>2. Shape(Way(p)', h, s, 0)
      <4>1. Shape(Way(p) \o Records(msg), h, d \o msg, 0)
        BY <1>7, <2>2, ShapeData
      <4> QED BY <1>7, <2>4, <3>1, <4>1 DEF Sealed
    <3>3. x \o (s \o <<>>) = wrote[e] \o msg
      <4>1. x \o (d \o <<>>) = wrote[e]
        BY <2>2, <2>3, <2>4
      <4>2. d \o <<>> = d /\ s \o <<>> = s
        BY ConcatEmptySeq
      <4>3. Associates(x, d, msg)
        BY Association
      <4> QED BY <3>1, <4>1, <4>2, <4>3 DEF Associates
    <3>4. transport = "synchronous" => Len(s) <= RecordMax
      <4>1. ASSUME transport = "synchronous" PROVE d = <<>>
        <5>1. Way(p) = in[p]
          <6>1. in[p] \in Seq(Cells) /\ in[p] \o <<>> = in[p]
            BY <1>1, <1>2, ConcatEmptySeq DEF Types
          <6>2. wire[e] = <<>> /\ stuck[e] = <<>>
            BY <2>4, <4>1
          <6> QED BY <1>1, <6>1, <6>2 DEF Way, Near
        <5>2. \A i \in 1 .. Len(Way(p)) : ~Way(p)[i].last
          BY <1>4, <1>10, <4>1, <5>1
        <5>3. Len(d) \in Nat /\ (Len(d) = 0 <=> d = <<>>)
          BY LenProperties, EmptySeq
        <5>4. Len(d) # 0 => h + Len(d) \in 1 .. Len(Way(p)) /\ Way(p)[h + Len(d)].last
          BY <2>2, <5>3 DEF Shape
        <5> QED BY <5>2, <5>3, <5>4
      <4>2. d = <<>> => s = msg
        BY <3>1, ConcatEmptySeq
      <4> QED BY <4>1, <4>2
    <3>5. PICK z \in Seq(Nat) : z = <<>>
      BY EmptySeq
    <3>6. (received'[p] \o arg'[p]) \o (s \o z) = wrote'[e]
      BY <1>5, <2>3, <3>3, <3>5
    <3>7. Holds(p, h, s, 0, z)'
      <4>1. h \in Hellos(p)' /\ (transport' = "synchronous" => Len(s) <= RecordMax) /\ 0 # 1
        BY <2>2, <3>4
      <4> QED BY <1>1, <3>2, <3>5, <3>6, <4>1 DEF Holds
    <3>8. 0 \in {0, 1}
      OBVIOUS
    <3> QED BY <3>7, <3>8 DEF Stream
  <2>5. ASSUME stuck[e] # <<>> PROVE Stream(p)'
    <3>1. a = <<>> /\ b = <<>>
      BY <2>5 DEF Written
    <3>2. Way(p)' = Way(p) /\ stuck'[e] = stuck[e]
      <4>1. stuck[e] \in Seq(Cells) /\ stuck[e] \o <<>> = stuck[e] /\ Way(p) \o <<>> = Way(p) /\ <<>> \o <<>> = <<>>
        BY <1>2, <1>7, EmptySeq, ConcatEmptySeq DEF Types
      <4> QED BY <1>7, <3>1, <4>1
    <3>3. PICK s \in Seq(Nat) : s = r \o msg
      BY Lengths
    <3>4. x \o (d \o s) = wrote[e] \o msg
      <4>1. x \o (d \o r) = wrote[e] /\ d \o r \in Seq(Nat)
        BY <2>2, <2>3, Lengths
      <4>2. Associates(x, d \o r, msg) /\ Associates(d, r, msg)
        BY <4>1, Association
      <4> QED BY <3>3, <4>1, <4>2 DEF Associates
    <3>5. (received'[p] \o arg'[p]) \o (d \o s) = wrote'[e]
      BY <1>5, <2>3, <3>4
    <3>6. Holds(p, h, d, 0, s)'
      BY <1>1, <2>2, <2>5, <3>2, <3>5 DEF Holds
    <3>7. 0 \in {0, 1}
      OBVIOUS
    <3> QED BY <3>6, <3>7 DEF Stream
  <2>6. Stream(p)'
    BY <2>4, <2>5
  <2> QED BY <1>1, <1>3, <1>4, <1>5, <1>7, <1>8, <1>10, <2>6 DEF Streams
<1> QED BY <1>9, <1>10

(* write of a connected stream.                                            *)
LEMMA WriteRecordStep ==
  ASSUME IInv, NEW e \in Ends, Running(e), Write(e), status[e] = "connected", UNCHANGED <<stack, Configuration>>
  PROVE  IInv'
<1>1. PICK msg, cells, room :
         /\ msg = Head(outbox[e])
         /\ cells = Sealed(e, msg) /\ room = Room(msg, cells)
         /\ at[e] = "app" /\ outbox[e] # <<>>
         /\ outbox' = [outbox EXCEPT ![e] = Tail(@)]
         /\ wire' = [wire EXCEPT ![e] = @ \o Take(cells, room)]
         /\ stuck' = [stuck EXCEPT ![e] = @ \o Drop(cells, room)]
         /\ wrote' = [wrote EXCEPT ![e] = @ \o msg]
         /\ UNCHANGED <<status, ssl, in, unread, up, at, tail, arg, received, told, ended, dropped, stack, app, transport>>
  BY DEF Write, Configuration, Sealed, Room
<1>2. /\ Types /\ Handshake /\ Streams /\ Closing /\ Consumed
      /\ Given /\ Ending /\ Told /\ Announced /\ Silent
      /\ Queued /\ Synchronous /\ dropped = 0
      /\ transport \in {"queued", "synchronous"}
  BY Invariants
<1>3. /\ Peer(e) \in Ends /\ Peer(e) # e /\ Peer(Peer(e)) = e /\ \A f \in Ends : f = e \/ f = Peer(e)
      /\ Client \in Ends /\ Server \in Ends /\ Client # Server
  BY TwoEnds, SslAssumption
<1>4. /\ outbox' \in [Ends -> Seq(Seq(Nat))] /\ (Short(outbox[e]) => Short(outbox'[e]) /\ Len(msg) <= RecordMax)
      /\ (\A f \in Ends : f # e => outbox'[f] = outbox[f]) /\ msg \in Seq(Nat)
  BY <1>1, SendsMessage
<1>5. PICK a \in Seq(Cells), b \in Seq(Cells) :
         /\ a = Take(cells, room) /\ b = Drop(cells, room) /\ Written(e, a, b)
         /\ a \o b = Sealed(e, msg)
         /\ Len(msg) <= RecordMax => Len(a) <= BioCap /\ OneEnd(a)
  <2>1. PICK a \in Seq(Cells), b \in Seq(Cells) :
          /\ a = Take(Sealed(e, msg), Room(msg, Sealed(e, msg))) /\ b = Drop(Sealed(e, msg), Room(msg, Sealed(e, msg)))
          /\ a \o b = Sealed(e, msg)
          /\ stuck[e] = <<>> \/ (a = <<>> /\ b = <<>>)
          /\ Len(msg) <= RecordMax => Len(a) <= BioCap /\ OneEnd(a)
    BY <1>4, WriteCells
  <2>2. a = Take(cells, room) /\ b = Drop(cells, room)
    BY <1>1, <2>1
  <2>3. Written(e, a, b)
    BY <1>1, <2>1, <2>2 DEF Written
  <2> QED BY <2>1, <2>2, <2>3
<1>6. Stage(e) = "done" /\ told[e] # 0 /\ told[Client] # 0
  BY <1>1, <1>2, <1>3 DEF Handshake, Told, Silent
<1>7. ASSUME transport = "synchronous"
      PROVE  /\ Len(msg) <= RecordMax /\ wire[e] = <<>>
             /\ ~ssl[Peer(e)].fatal /\ ~ssl[Peer(e)].seen => \A i \in 1 .. Len(in[Peer(e)]) : ~in[Peer(e)][i].last
  <2>1. Short(outbox[e])
    BY <1>2, <1>7 DEF Synchronous, Sizes
  <2> QED BY <1>1, <1>4, <1>7, <2>1, NobodyWaits
<1>8. /\ Streams' /\ Phase' = Phase /\ wrote' \in [Ends -> Seq(Nat)]
      /\ ~ssl[Peer(e)].seen /\ Way(e)' = Way(e)
      /\ \A f \in Ends : f # e => wrote'[f] = wrote[f]
  BY <1>1, <1>4, <1>5, <1>6, <1>7, SendsData
<1>9. wire' \in [Ends -> Seq(Cells)] /\ stuck' \in [Ends -> Seq(Cells)] /\ wire' = [wire EXCEPT ![e] = @ \o a]
  <2>1. Behind(e, a, b)
    BY <1>2, <1>5, Appends
  <2> QED BY <1>1, <1>5, <2>1 DEF Behind
<1>10. \A f \in Ends : Stage(f)' = Stage(f) /\ Closed(f)' = Closed(f)
  BY <1>1 DEF Stage, Closed
<1>11. Types'
  BY <1>1, <1>2, <1>4, <1>8, <1>9 DEF Types, TypeOK, Frames, BioCap
<1>12. Handshake'
  BY <1>1, <1>2, <1>3, <1>6, <1>8, <1>10 DEF Handshake
<1>13. Closing'
  <2>1. \A f \in Ends : ssl'[f].seen => Way(f)' = Way(f)
    BY <1>1, <1>3, <1>8
  <2> QED BY <1>1, <1>2, <1>10, <2>1 DEF Closing
<1>14. Consumed' /\ Given' /\ Ending' /\ Announced'
  BY <1>1, <1>2, <1>10 DEF Consumed, Given, Ending, Announced
<1>15. Told'
  <2>1. ASSUME NEW f \in Ends
        PROVE  /\ told[f] > 0 \/ at'[f] = "on_connected" => Stage(f)' = "done"
               /\ told[f] = 0 => received[f] = <<>> /\ wrote'[f] = <<>> /\ arg[f] = <<>> /\ outbox'[f] = <<>>
    BY <1>1, <1>2, <1>3, <1>4, <1>6, <1>8, <1>10 DEF Told
  <2>2. ASSUME NEW f \in Ends, told[f] = 0
        PROVE  /\ ended[f] = 0 /\ at'[f] \notin {"app", "report", "on_received", "on_disconnected"}
               /\ status[f] # "closing" /\ ~Closed(f)'
               /\ \A i \in DOMAIN stack : stack[i].end = f => stack[i].at \in {"idle", "announce"} /\ stack[i].outbox = <<>>
    BY <1>1, <1>2, <1>3, <1>6, <1>10, <2>2 DEF Told
  <2> QED BY <1>1, <2>1, <2>2 DEF Told
<1>16. Silent'
  BY <1>1, <1>6 DEF Silent
<1>17. Queued'
  BY <1>1, <1>2, <1>10 DEF Queued
<1>18. ASSUME transport = "synchronous" PROVE Paused' /\ OneRecord' /\ Sizes' /\ ServerFirst'
  <2>0. Sizes /\ ServerFirst
    BY <1>2, <1>18 DEF Synchronous
  <2>1. Paused'
    <3>1. at' = [at EXCEPT ![e] = "app"]
      BY <1>1, <1>2 DEF Types, TypeOK
    <3>2. "app" \in Pauses /\ at[e] # "idle" /\ Len(a) <= BioCap
      BY <1>1, <1>5, <1>7, <1>18 DEF Pauses
    <3> QED BY <1>1, <1>9, <1>18, <3>1, <3>2, PausedWrites
  <2>2. OneRecord'
    BY <1>1, <1>5, <1>7, <1>9, <1>18, WritesRecord
  <2>3. Sizes'
    BY <1>1, <1>3, <1>4, <2>0 DEF Sizes
  <2>4. ServerFirst'
    BY <1>1, <1>6, <2>0 DEF ServerFirst
  <2> QED BY <2>1, <2>2, <2>3, <2>4
<1> QED BY <1>1, <1>2, <1>8, <1>11, <1>12, <1>13, <1>14, <1>15, <1>16, <1>17, <1>18 DEF IInv, Synchronous

-----------------------------------------------------------------------------
(* Receiving *)

(* A chunk is put behind what OpenSSL has not used, and none of it is      *)
(* lost; over a synchronous transport it is all that was written.          *)
Delivery(e, chunk, w) ==
    /\ Fed(e, chunk) \in Seq(Cells) /\ w \in Seq(Cells) /\ w = Drop(wire[Peer(e)], Len(chunk))
    /\ Len(in[e]) \in Nat /\ Len(Fed(e, chunk)) \in Nat /\ Len(in[e]) <= Len(Fed(e, chunk))
    /\ unread[e] \in Nat /\ unread[e] <= Len(in[e])
    /\ unread[e] + Len(Fed(e, chunk)) - Len(in[e]) \in 0 .. BioCap
    /\ \A i \in 1 .. Len(in[e]) : Fed(e, chunk)[i] = in[e][i]
    /\ wire[Peer(e)] # <<>> /\ ~ssl[e].seen /\ at[e] \in Pauses /\ arg[e] = <<>> /\ dropped' = 0
    /\ ~ssl[e].fatal => unread[e] = 0 /\ Fed(e, chunk) \o w = Near(e) /\ Len(in[e]) < Len(Fed(e, chunk))
    /\ transport = "synchronous" =>
          /\ wire[e] = <<>> /\ w = <<>> /\ at[Peer(e)] \in Pauses
          /\ \A f \in Ends : unread[f] = 0 \/ ssl[f].fatal \/ ssl[f].seen

(* The BIO has room for the chunk: nothing in it is unread, unless OpenSSL *)
(* has given up.                                                           *)
LEMMA Arrival ==
  ASSUME IInv, NEW e \in Ends, NEW chunk \in Chunks(e), Arrives(e, chunk)
  PROVE  Delivery(e, chunk, Drop(wire[Peer(e)], Len(chunk)))
<1> DEFINE y == wire[Peer(e)]
           x == in[e]
           m == Len(chunk)
           n == BioCap - unread[e]
           t == Take(chunk, n)
           w == Drop(y, m)
<1>1. /\ Types /\ Streams /\ Closing /\ Given /\ Queued /\ Synchronous /\ dropped = 0
      /\ transport \in {"queued", "synchronous"}
  BY Invariants
<1>2. Peer(e) \in Ends /\ Peer(Peer(e)) = e /\ Peer(e) # e /\ \A f \in Ends : f = e \/ f = Peer(e)
  BY TwoEnds
<1>3. /\ y \in Seq(Cells) /\ x \in Seq(Cells) /\ stuck[Peer(e)] \in Seq(Cells)
      /\ unread[e] \in Nat /\ unread[e] <= BioCap /\ unread[e] <= Len(x) /\ Len(x) \in Nat
  BY <1>1, <1>2, LenProperties DEF Types, TypeOK
<1>4. BioCap \in Nat /\ BioCap > 0 /\ RecvMax \in Nat /\ (transport = "queued" => RecvMax <= BioCap)
  BY <1>1, Bounds
<1>5. /\ chunk # <<>>
      /\ dropped' = IF ssl[e].fatal THEN dropped ELSE dropped + (m - Least(m, n))
      /\ (transport = "queued" => at[e] = "idle")
  BY DEF Arrives, Entered
<1> HIDE DEF m, n, y, x
<1>6. y # <<>>
  <2>1. CASE transport = "queued"
    <3>1. PICK i \in 1 .. RecvMax : chunk = Take(y, i)
      BY <2>1 DEF Chunks, y
    <3>2. i \in Nat /\ Len(chunk) = Least(i, Len(y)) /\ chunk \in Seq(Cells)
      BY <1>3, <1>4, <3>1, Cut
    <3>3. Len(chunk) # 0
      BY <1>5, <3>2, EmptySeq
    <3> QED BY <3>2, <3>3, EmptySeq DEF Least
  <2>2. CASE transport = "synchronous"
    BY <1>5, <2>2 DEF Chunks, y
  <2> QED BY <1>1, <2>1, <2>2
<1>7. ASSUME transport = "synchronous"
      PROVE  /\ wire[e] = <<>> /\ at[e] \in Pauses /\ at[Peer(e)] \in Pauses /\ Len(y) <= BioCap
             /\ \A f \in Ends : unread[f] = 0 \/ ssl[f].fatal \/ ssl[f].seen
  <2>1. Paused /\ OneRecord
    BY <1>1, <1>7 DEF Synchronous
  <2>2. wire[e] = <<>> /\ at[e] \in Pauses /\ at[Peer(e)] \in Pauses /\ Len(y) <= BioCap
    BY <1>2, <1>6, <2>1 DEF Paused, y
  <2>3. ~Delivered
    BY <1>2, <1>6 DEF Delivered, y
  <2> QED BY <2>1, <2>2, <2>3 DEF OneRecord
<1>8. chunk \in Seq(Cells) /\ m \in Nat /\ 0 < m /\ m <= BioCap /\ m <= Len(y) /\ chunk = Take(y, m)
  <2>1. CASE transport = "queued"
    <3>1. PICK i \in 1 .. RecvMax : chunk = Take(y, i)
      BY <2>1 DEF Chunks, y
    <3>2. i \in Nat /\ m = Least(i, Len(y)) /\ chunk \in Seq(Cells) /\ Len(y) \in Nat
      BY <1>3, <1>4, <3>1, Cut, LenProperties DEF m
    <3>3. m # 0
      BY <1>5, <3>2, EmptySeq DEF m
    <3>4. m \in Nat /\ m <= i /\ m <= Len(y) /\ Least(m, Len(y)) = m
      BY <3>2 DEF Least
    <3>5. Take(y, m) = Take(y, i)
      BY <3>2, <3>4 DEF Take
    <3> QED BY <1>4, <2>1, <3>1, <3>2, <3>3, <3>4, <3>5
  <2>2. CASE transport = "synchronous"
    <3>1. chunk = y
      BY <2>2 DEF Chunks, y
    <3>2. m = Len(y) /\ m \in Nat /\ m # 0
      BY <1>3, <1>6, <3>1, LenProperties, EmptySeq DEF m
    <3>3. Take(y, m) = y
      BY <1>3, <3>2, Cut
    <3> QED BY <1>3, <1>7, <2>2, <3>1, <3>2, <3>3
  <2> QED BY <1>1, <2>1, <2>2
<1>9. n \in Nat /\ n = BioCap - unread[e]
  BY <1>3, <1>4 DEF n
<1>10. /\ t \in Seq(Cells) /\ Len(t) = Least(n, m) /\ Len(t) \in Nat /\ Len(t) <= n
       /\ (n >= m => t = chunk)
  <2>1. /\ t \in Seq(Cells) /\ Len(t) = Least(n, Len(chunk)) /\ (n >= Len(chunk) => t = chunk)
    <3>1. \A q \in Seq(Cells), j \in Nat :
             Take(q, j) \in Seq(Cells) /\ Len(Take(q, j)) = Least(j, Len(q)) /\ (j >= Len(q) => Take(q, j) = q)
      BY Cut
    <3> QED BY <1>8, <1>9, <3>1
  <2> QED BY <1>8, <1>9, <2>1 DEF m, Least
<1>11. w \in Seq(Cells)
  BY <1>3, <1>8, Cut
<1> HIDE DEF t, w
<1>12. Fed(e, chunk) = x \o t
  BY DEF Fed, x, t, n
<1>13. /\ x \o t \in Seq(Cells) /\ Len(x \o t) = Len(x) + Len(t)
       /\ \A i \in 1 .. Len(x) : (x \o t)[i] = x[i]
  BY <1>3, <1>10, Lengths, Front
<1>14. Len(x \o t) \in Nat /\ Len(x) <= Len(x \o t) /\ unread[e] + Len(x \o t) - Len(x) \in 0 .. BioCap
  BY <1>3, <1>4, <1>9, <1>10, <1>13
<1>15. ~ssl[e].seen
  <2>1. Near(e) = x \o y /\ x \o y \in Seq(Cells) /\ (x \o y = <<>> <=> x = <<>> /\ y = <<>>)
    BY <1>3, Parts DEF Near, x, y
  <2>2. Near(e) \o stuck[Peer(e)] = <<>> <=> Near(e) = <<>> /\ stuck[Peer(e)] = <<>>
    BY <1>3, <2>1, Parts
  <2>3. Way(e) # <<>>
    BY <1>6, <2>1, <2>2 DEF Way
  <2> QED BY <1>1, <2>3 DEF Closing
<1>16. at[e] \in Pauses
  BY <1>1, <1>5, <1>7 DEF Pauses
<1>17. arg[e] = <<>>
  BY <1>1, <1>16 DEF Given, Pauses
<1>18. ~ssl[e].fatal => unread[e] = 0
  BY <1>1, <1>5, <1>7, <1>15 DEF Queued
<1>19. ASSUME ~ssl[e].fatal
       PROVE  /\ (x \o t) \o w = Near(e) /\ Len(x) < Len(x \o t) /\ dropped' = 0
  <2>1. n = BioCap /\ n >= m /\ Least(m, n) = m /\ t = Take(y, m) /\ Len(t) = m
    BY <1>4, <1>8, <1>9, <1>10, <1>18, <1>19 DEF Least
  <2>2. (x \o Take(y, m)) \o Drop(y, m) = x \o y
    <3>1. m \in Nat /\ x \in Seq(Cells) /\ y \in Seq(Cells)
      BY <1>3, <1>8
    <3>2. \A a \in Seq(Cells), b \in Seq(Cells), j \in Nat : (a \o Take(b, j)) \o Drop(b, j) = a \o b
      BY Passed
    <3> QED BY <3>1, <3>2
  <2>3. dropped' = 0 + (m - m)
    BY <1>1, <1>5, <1>19, <2>1
  <2>4. dropped' = 0
    BY <1>8, <2>3
  <2>5. Len(x) < Len(x \o t)
    BY <1>3, <1>8, <1>13, <2>1
  <2> QED BY <2>1, <2>2, <2>4, <2>5 DEF Near, w, x, y
<1>20. dropped' = 0
  BY <1>1, <1>5, <1>19
<1>21. transport = "synchronous" => w = <<>>
  <2>1. chunk = y /\ m = Len(y) => w = <<>>
    <3>1. Len(y) \in Nat
      BY <1>3, LenProperties
    <3>2. \A q \in Seq(Cells), j \in Nat : j >= Len(q) => Drop(q, j) = <<>>
      BY Cut
    <3> QED BY <1>3, <3>1, <3>2 DEF w
  <2> QED BY <2>1 DEF Chunks, y, m
<1> USE <1>12
<1> HIDE DEF Fed
<1>22. /\ Fed(e, chunk) \in Seq(Cells) /\ w \in Seq(Cells) /\ w = Drop(wire[Peer(e)], Len(chunk))
       /\ Len(in[e]) \in Nat /\ Len(Fed(e, chunk)) \in Nat /\ Len(in[e]) <= Len(Fed(e, chunk))
       /\ unread[e] \in Nat /\ unread[e] <= Len(in[e])
       /\ unread[e] + Len(Fed(e, chunk)) - Len(in[e]) \in 0 .. BioCap
       /\ \A i \in 1 .. Len(in[e]) : Fed(e, chunk)[i] = in[e][i]
  BY <1>3, <1>11, <1>13, <1>14 DEF x, w, m, y
<1>23. ~ssl[e].fatal => unread[e] = 0 /\ Fed(e, chunk) \o w = Near(e) /\ Len(in[e]) < Len(Fed(e, chunk))
  BY <1>18, <1>19 DEF x
<1>24. wire[Peer(e)] # <<>>
  BY <1>6 DEF y
<1>25. Delivery(e, chunk, w)
  BY <1>7, <1>15, <1>16, <1>17, <1>20, <1>21, <1>22, <1>23, <1>24 DEF Delivery
<1> QED BY <1>25 DEF w, y, m

(* The handler that is entered again waits on the stack. *)
Suspended(e) ==
    /\ stack' \in Seq(Frames)
    /\ \A f \in Ends : told[f] = 0 =>
          \A i \in DOMAIN stack' : stack'[i].end = f => stack'[i].at \in {"idle", "announce"} /\ stack'[i].outbox = <<>>
    /\ \A f \in Ends : (\E i \in DOMAIN stack : stack[i].end = f /\ stack[i].at = "announce")
          => \E i \in DOMAIN stack' : stack'[i].end = f /\ stack'[i].at = "announce"
    /\ at[e] = "announce" => \E i \in DOMAIN stack' : stack'[i].end = e /\ stack'[i].at = "announce"
    /\ told[Client] = 0 => \A i \in DOMAIN stack' : stack'[i].outbox = <<>>
    /\ transport = "queued" => stack = <<>> /\ stack' = <<>> /\ at[e] = "idle"
    /\ transport = "synchronous" =>
          /\ \A i \in DOMAIN stack' : Short(stack'[i].outbox)
          /\ stack' # <<>> /\ Head(stack').end = e /\ stack'[Len(stack')].at = "idle"
          /\ stack # <<>> => Len(stack') > 1 /\ stack'[2].end = Peer(e)

(* Who is entered again has written before, and has written all of it.     *)
LEMMA Suspension ==
  ASSUME IInv, NEW e \in Ends, NEW chunk \in Chunks(e), Arrives(e, chunk)
  PROVE  Suspended(e)
<1>1. /\ Types /\ Told /\ Silent /\ Queued /\ Synchronous
      /\ transport \in {"queued", "synchronous"}
  BY Invariants
<1>2. Peer(e) \in Ends /\ Peer(Peer(e)) = e /\ Client \in Ends
  BY TwoEnds
<1>3. wire[Peer(e)] # <<>> /\ at[e] \in Pauses
  BY Arrival DEF Delivery
<1>4. CASE transport = "queued"
  <2>1. at[e] = "idle" /\ stack' = stack /\ stack = <<>>
    BY <1>1, <1>4 DEF Arrives, Entered, Queued
  <2> QED BY <1>1, <1>4, <2>1 DEF Types, Told, Silent, Suspended
<1>5. CASE transport = "synchronous"
  <2>1. Paused /\ Sizes
    BY <1>1, <1>5 DEF Synchronous
  <2> DEFINE g == Frame(e)
  <2>2. /\ g \in Frames /\ g.end = e /\ g.at = at[e] /\ g.outbox = outbox[e]
    BY <1>1, <1>3 DEF Types, TypeOK, Frame, Frames
  <2>3. stack' = <<g>> \o stack /\ stack \in Seq(Frames)
    BY <1>1, <1>5 DEF Arrives, Entered, Types
  <2> HIDE DEF g
  <2>4. /\ stack' \in Seq(Frames) /\ Len(stack') = Len(stack) + 1 /\ Len(stack) \in Nat
        /\ stack'[1] = g /\ \A i \in 1 .. Len(stack) : stack'[i + 1] = stack[i]
    <3>1. <<g>> \in Seq(Frames) /\ Len(<<g>>) = 1 /\ <<g>>[1] = g
      BY <2>2
    <3> DEFINE s == <<g>>
    <3> HIDE DEF s
    <3>2. s \in Seq(Frames) /\ Len(s) = 1 /\ s[1] = g /\ stack' = s \o stack
      BY <2>3, <3>1 DEF s
    <3>3. /\ s \o stack \in Seq(Frames) /\ Len(s \o stack) = Len(s) + Len(stack) /\ Len(stack) \in Nat
      BY <2>3, <3>2, Lengths
    <3>4. \A i \in 1 .. Len(s) : (s \o stack)[i] = s[i]
      BY <2>3, <3>2, Front
    <3>5. \A i \in 1 .. Len(stack) : (s \o stack)[Len(s) + i] = stack[i]
      BY <2>3, <3>2, Back
    <3>6. \A i \in 1 .. Len(stack) : stack'[1 + i] = stack[i]
      BY <3>2, <3>5
    <3> QED BY <3>2, <3>3, <3>4, <3>6
  <2>5. /\ DOMAIN stack' = 1 .. Len(stack) + 1 /\ DOMAIN stack = 1 .. Len(stack)
        /\ \A i \in DOMAIN stack : i + 1 \in DOMAIN stack' /\ stack'[i + 1] = stack[i]
        /\ \A i \in DOMAIN stack' : stack'[i] = g \/ \E j \in DOMAIN stack : stack'[i] = stack[j]
    <3>1. DOMAIN stack' = 1 .. Len(stack) + 1 /\ DOMAIN stack = 1 .. Len(stack)
      BY <2>3, <2>4, LenProperties
    <3>2. \A i \in DOMAIN stack : i + 1 \in DOMAIN stack' /\ stack'[i + 1] = stack[i]
      BY <2>4, <3>1
    <3>3. ASSUME NEW i \in DOMAIN stack' PROVE stack'[i] = g \/ \E j \in DOMAIN stack : stack'[i] = stack[j]
      <4>1. CASE i = 1
        BY <2>4, <4>1
      <4>2. CASE i # 1
        <5>1. i - 1 \in DOMAIN stack /\ (i - 1) + 1 = i
          BY <2>4, <3>1, <4>2
        <5> QED BY <3>2, <5>1
      <4> QED BY <4>1, <4>2
    <3> QED BY <3>1, <3>2, <3>3
  <2>6. ASSUME NEW f \in Ends, told[f] = 0, NEW i \in DOMAIN stack', stack'[i].end = f
        PROVE  stack'[i].at \in {"idle", "announce"} /\ stack'[i].outbox = <<>>
    <3>1. \A j \in DOMAIN stack : stack[j].end = f => stack[j].at \in {"idle", "announce"} /\ stack[j].outbox = <<>>
      BY <1>1, <2>6 DEF Told
    <3>2. f = e => at[e] \in {"idle", "announce"} /\ outbox[e] = <<>>
      BY <1>1, <1>3, <2>6 DEF Told, Pauses
    <3> QED BY <2>2, <2>5, <2>6, <3>1, <3>2
  <2>7. \A f \in Ends : (\E i \in DOMAIN stack : stack[i].end = f /\ stack[i].at = "announce")
          => \E i \in DOMAIN stack' : stack'[i].end = f /\ stack'[i].at = "announce"
    BY <2>5
  <2>8. at[e] = "announce" => \E i \in DOMAIN stack' : stack'[i].end = e /\ stack'[i].at = "announce"
    <3>1. 1 \in DOMAIN stack'
      BY <2>4, <2>5
    <3> QED BY <2>2, <2>4, <3>1
  <2>9. ASSUME told[Client] = 0 PROVE \A i \in DOMAIN stack' : stack'[i].outbox = <<>>
    <3>1. outbox[e] = <<>> /\ \A j \in DOMAIN stack : stack[j].outbox = <<>>
      BY <1>1, <2>9 DEF Silent
    <3> QED BY <2>2, <2>5, <3>1
  <2>10. \A i \in DOMAIN stack' : Short(stack'[i].outbox)
    BY <2>1, <2>2, <2>5 DEF Sizes
  <2>11. stack' # <<>> /\ Head(stack').end = e
    <3>1. stack' # <<>> /\ Head(stack') = stack'[1]
      BY <2>4, EmptySeq
    <3> QED BY <2>2, <2>4, <3>1
  <2>12. CASE stack = <<>>
    <3>1. at[e] = "idle" /\ Len(stack) = 0
      BY <1>2, <1>3, <2>1, <2>12, EmptySeq DEF Paused
    <3>2. stack'[Len(stack')].at = "idle"
      BY <2>2, <2>4, <3>1
    <3> QED BY <1>5, <2>4, <2>6, <2>7, <2>8, <2>9, <2>10, <2>11, <2>12, <3>2 DEF Suspended
  <2>13. CASE stack # <<>>
    <3>1. Head(stack).end = Peer(e) /\ stack[Len(stack)].at = "idle" /\ Len(stack) # 0
      BY <1>2, <1>3, <2>1, <2>3, <2>13, EmptySeq DEF Paused
    <3>2. Len(stack) \in 1 .. Len(stack) /\ 1 \in 1 .. Len(stack) /\ Head(stack) = stack[1] /\ 1 + 1 = 2
      BY <2>3, <2>4, <3>1
    <3>3. stack'[Len(stack) + 1] = stack[Len(stack)] /\ stack'[1 + 1] = stack[1]
      BY <2>4, <3>2
    <3>4. stack'[Len(stack')].at = "idle" /\ stack'[2].end = Peer(e) /\ Len(stack') > 1
      BY <2>4, <3>1, <3>2, <3>3
    <3> QED BY <1>5, <2>4, <2>6, <2>7, <2>8, <2>9, <2>10, <2>11, <2>13, <3>4 DEF Suspended
  <2> QED BY <2>12, <2>13
<1> QED BY <1>1, <1>4, <1>5

(* Before the handshake of e is done it has written nothing but the        *)
(* handshake, and nobody has given up or closed.                           *)
Greeting(e) ==
    /\ \A f \in Ends : ~ssl[f].fatal /\ ~ssl[f].seen
    /\ ~ssl[e].sent /\ told[e] = 0 /\ unread[e] = 0 /\ wrote[e] = <<>>
    /\ \A f \in Ends : received[f] = <<>> /\ arg[f] = <<>>
    /\ \E h \in Nat : h \in Hellos(Peer(e)) /\ Shape(Way(Peer(e)), h, <<>>, 0)
    /\ Stream(e)
    /\ ended[e] = 0

(* Before the handshake is done the way to the peer has the handshake and  *)
(* nothing else.                                                           *)
LEMMA Greets ==
  ASSUME IInv, NEW e \in Ends, Stage(e) # "done"
  PROVE  Greeting(e)
<1> DEFINE p == Peer(e)
<1>1. Types /\ Handshake /\ Streams /\ Closing /\ Told
  BY Invariants
<1>2. p \in Ends /\ Peer(p) = e /\ p # e /\ \A f \in Ends : f = e \/ f = p
  BY TwoEnds
<1>3. Phase # <<"done", "done">>
  BY <1>2, TwoEnds DEF Phase, Ends
<1>4. \A f \in Ends : ~ssl[f].fatal
  BY <1>1, <1>3 DEF Streams, Broken
<1>5. wrote[e] = <<>> /\ unread[e] = 0 /\ status[e] \in {"closed", "connecting"} /\ ~Closed(e)
  BY <1>1 DEF Handshake, Closed
<1>6. ~ssl[e].sent /\ ~ssl[e].seen
  BY <1>1, <1>5 DEF Closing
<1>7. ~ssl[p].seen
  BY <1>1, <1>2, <1>6 DEF Closing
<1>8. told[e] = 0
  BY <1>1 DEF Types, TypeOK, Told
<1>9. received[e] = <<>> /\ arg[e] = <<>> /\ ended[e] = 0
  BY <1>1, <1>8 DEF Told
<1>10. Stream(e) /\ Stream(p)
  BY <1>1, <1>2, <1>4 DEF Streams
<1>11. PICK h \in Nat, d \in Seq(Nat), c \in {0, 1}, r \in Seq(Nat) : Holds(p, h, d, c, r)
  BY <1>10 DEF Stream
<1>12. /\ Shape(Way(p), h, d, c) /\ h \in Hellos(p) /\ (received[p] \o arg[p]) \o (d \o r) = <<>>
       /\ (c = 1 => ssl[e].sent)
  BY <1>2, <1>5, <1>11 DEF Holds
<1>13. c = 0
  BY <1>6, <1>12
<1>14. received[p] = <<>> /\ arg[p] = <<>> /\ d = <<>>
  <2>1. received[p] \in Seq(Nat) /\ arg[p] \in Seq(Nat)
    BY <1>1, <1>2 DEF Types
  <2>2. \A x \in Seq(Nat), z \in Seq(Nat) : x \o z \in Seq(Nat) /\ (x \o z = <<>> <=> x = <<>> /\ z = <<>>)
    BY Parts
  <2>3. received[p] \o arg[p] \in Seq(Nat) /\ d \o r \in Seq(Nat)
    BY <2>1, <2>2
  <2>4. received[p] \o arg[p] = <<>> /\ d \o r = <<>>
    BY <1>12, <2>2, <2>3
  <2> QED BY <2>1, <2>2, <2>4
<1>15. Shape(Way(p), h, <<>>, 0) /\ h \in Hellos(p)
  BY <1>12, <1>13, <1>14
<1> QED BY <1>2, <1>4, <1>5, <1>6, <1>7, <1>8, <1>9, <1>10, <1>14, <1>15 DEF Greeting

(* Nothing on the way is nothing anywhere. *)
LEMMA EmptyWay ==
  ASSUME Types, NEW e \in Ends
  PROVE  /\ Way(e) = <<>> <=> in[e] = <<>> /\ wire[Peer(e)] = <<>> /\ stuck[Peer(e)] = <<>>
         /\ Near(e) \in Seq(Cells) /\ Way(e) \in Seq(Cells) /\ stuck[Peer(e)] \in Seq(Cells)
<1>1. in[e] \in Seq(Cells) /\ wire[Peer(e)] \in Seq(Cells) /\ stuck[Peer(e)] \in Seq(Cells)
  BY TwoEnds DEF Types
<1>2. \A x \in Seq(Cells), y \in Seq(Cells) : x \o y \in Seq(Cells) /\ (x \o y = <<>> <=> x = <<>> /\ y = <<>>)
  BY Parts
<1>3. Near(e) \in Seq(Cells) /\ (Near(e) = <<>> <=> in[e] = <<>> /\ wire[Peer(e)] = <<>>)
  BY <1>1, <1>2 DEF Near
<1> QED BY <1>1, <1>2, <1>3 DEF Way

(* Nothing is on the way to an end that expects nothing. *)
LEMMA Expects ==
  ASSUME IInv, NEW e \in Ends, Stage(e) # "done", Hellos(Peer(e)) = {0}
  PROVE  Way(Peer(e)) = <<>> /\ in[Peer(e)] = <<>> /\ wire[e] = <<>> /\ stuck[e] = <<>>
<1>1. Greeting(e) /\ Types /\ Peer(e) \in Ends /\ Peer(Peer(e)) = e
  BY Greets, Invariants, TwoEnds
<1>2. Shape(Way(Peer(e)), 0, <<>>, 0)
  BY <1>1 DEF Greeting
<1>3. Way(Peer(e)) \in Seq(Cells)
  BY <1>1, EmptyWay
<1>4. <<>> \in Seq(Nat)
  OBVIOUS
<1>5. Way(Peer(e)) = <<>>
  BY <1>2, <1>3, <1>4, ShapeEmpty
<1> QED BY <1>1, <1>5, EmptyWay

(* The handshake goes back and forth. *)
Turn(e) ==
    /\ Stage(e) # "done" /\ Greeting(e)
    /\ Way(Peer(e)) = <<>> /\ in[Peer(e)] = <<>> /\ wire[e] = <<>> /\ stuck[e] = <<>>
    /\ \/ e = Server /\ Phase = <<"wait", "start">>
       \/ e = Client /\ Phase = <<"wait", "wait">>
       \/ e = Server /\ Phase = <<"done", "wait">>

(* A chunk that comes before the handshake of an end is done belongs to    *)
(* the answer that this end waits for.                                     *)
LEMMA Turns ==
  ASSUME IInv, NEW e \in Ends, status[e] \in {"closed", "connecting"}, wire[Peer(e)] # <<>>, ~ssl[e].seen
  PROVE  Turn(e)
<1>1. Types /\ Handshake /\ Closing
  BY Invariants
<1>2. /\ Peer(e) \in Ends /\ Peer(Peer(e)) = e /\ Client # Server /\ Client \in Ends /\ Server \in Ends
      /\ (e = Client \/ e = Server) /\ Peer(Client) = Server /\ Peer(Server) = Client
  BY TwoEnds, SslAssumption
<1>3. Stage(e) # "done"
  BY <1>1 DEF Closing, Closed, Handshake
<1>4. Greeting(e)
  BY <1>3, Greets
<1>5. Stage(Peer(e)) # "done" => Hellos(e) # {0}
  <2> SUFFICES ASSUME Stage(Peer(e)) # "done", Hellos(e) = {0} PROVE FALSE
    OBVIOUS
  <2> QED BY <1>2, Expects
<1>6. Phase \in Phases /\ Phase = <<Stage(Client), Stage(Server)>>
  BY <1>1 DEF Handshake, Phase
<1>7. \/ e = Server /\ Phase = <<"wait", "start">>
      \/ e = Client /\ Phase = <<"wait", "wait">>
      \/ e = Server /\ Phase = <<"done", "wait">>
  <2>1. CASE e = Client
    <3>1. Stage(Client) # "done"
      BY <1>3, <2>1
    <3>2. Phase \in {<<"start", "start">>, <<"wait", "start">>, <<"wait", "wait">>}
      BY <1>6, <3>1 DEF Phases
    <3>3. Phase # <<"wait", "wait">> => Hellos(Client) = {0} /\ Stage(Server) # "done"
      BY <1>2, <1>6, <3>2 DEF Hellos
    <3> QED BY <1>2, <1>5, <2>1, <3>2, <3>3
  <2>2. CASE e = Server
    <3>1. Stage(Server) # "done"
      BY <1>3, <2>2
    <3>2. Phase \in {<<"start", "start">>, <<"wait", "start">>, <<"wait", "wait">>, <<"done", "wait">>}
      BY <1>6, <3>1 DEF Phases
    <3>3. Phase \in {<<"start", "start">>, <<"wait", "wait">>} => Hellos(Server) = {0} /\ Stage(Client) # "done"
      BY <1>2, <1>6, <3>2 DEF Hellos
    <3> QED BY <1>2, <1>5, <2>2, <3>2, <3>3
  <2> QED BY <1>2, <2>1, <2>2
<1>8. Hellos(Peer(e)) = {0}
  BY <1>2, <1>7 DEF Hellos
<1>9. Way(Peer(e)) = <<>> /\ in[Peer(e)] = <<>> /\ wire[e] = <<>> /\ stuck[e] = <<>>
  BY <1>3, <1>8, Expects
<1> QED BY <1>3, <1>4, <1>7, <1>9 DEF Turn

(* Before the transport is connected nothing has been written. *)
LEMMA Silence ==
  ASSUME IInv, ~up
  PROVE  /\ Phase = <<"start", "start">>
         /\ \A e \in Ends : Greeting(e) /\ Stage(e) = "start" /\ Way(e) = <<>>
         /\ \A e \in Ends : in[e] = <<>> /\ wire[e] = <<>> /\ stuck[e] = <<>> /\ status[e] # "connected"
<1>1. Types /\ Handshake
  BY Invariants
<1>2. Phase \in Phases /\ Phase = <<Stage(Client), Stage(Server)>> /\ Stage(Client) = "start"
  BY <1>1 DEF Handshake, Phase
<1>3. Phase = <<"start", "start">> /\ Stage(Server) = "start"
  BY <1>2 DEF Phases
<1>4. ASSUME NEW e \in Ends
      PROVE  /\ Greeting(e) /\ Stage(e) = "start" /\ Way(e) = <<>> /\ status[e] # "connected"
             /\ in[e] = <<>> /\ wire[Peer(e)] = <<>> /\ stuck[Peer(e)] = <<>>
  <2>1. Stage(e) = "start" /\ Stage(Peer(e)) = "start" /\ Peer(e) \in Ends /\ Peer(Peer(e)) = e
    BY <1>2, <1>3, TwoEnds DEF Ends
  <2>2. Hellos(e) = {0}
    BY <1>3 DEF Hellos
  <2>3. Way(e) = <<>>
    BY <2>1, <2>2, Expects
  <2>4. status[e] # "connected" /\ Greeting(e)
    BY <1>1, <2>1, Greets DEF Handshake
  <2> QED BY <1>1, <2>1, <2>3, <2>4, EmptyWay
<1> QED BY <1>3, <1>4, TwoEnds

(* Only the transport's connection wakes the ends.                         *)
LEMMA QuietStays ==
  ASSUME IInv, Quiet, Next
  PROVE  Quiet'
<1>1. CASE up
  <2>1. ASSUME NEW e \in Ends, Step(e) PROVE up'
    <3>1. CASE Receive(e)
      BY <1>1, <3>1 DEF Receive, ReceiveConnecting, ReceiveConnected, ReceiveClosing, DoShutdown
    <3>2. CASE HandlerReturns(e)
      BY <1>1, <3>2 DEF HandlerReturns
    <3>3. CASE Read(e)
      BY <1>1, <3>3 DEF Read, ReadNothing, ReadData, ReadTicket, ReadClose, NextRecord, Check
    <3>4. CASE Callback(e)
      BY <1>1, <3>4 DEF Callback, Announce, OnConnected, OnReceived, Report, OnDisconnected, Write, Return
    <3> QED BY <2>1, <3>1, <3>2, <3>3, <3>4 DEF Step
  <2>2. ASSUME NEW e \in Ends, Disconnect(e) PROVE up'
    BY <1>1, <2>2 DEF Disconnect
  <2>3. up'
    BY <1>1, <2>1, <2>2 DEF Next, TransportConnected
  <2> QED BY <2>3 DEF Quiet
<1>2. CASE ~up
  <2>1. /\ stack = <<>> /\ \A e \in Ends : at[e] = "idle"
        /\ \A e \in Ends : wire[e] = <<>> /\ status[e] # "connected"
    BY <1>2, Silence DEF Quiet
  <2>2. ASSUME NEW e \in Ends, Step(e) PROVE FALSE
    <3>1. CASE Receive(e)
      <4>1. \E chunk \in Chunks(e) : Arrives(e, chunk)
        BY <3>1 DEF Receive, ReceiveConnecting, ReceiveConnected, ReceiveClosing
      <4>2. wire[Peer(e)] # <<>>
        BY <4>1, Arrival DEF Delivery
      <4> QED BY <2>1, <4>2, TwoEnds
    <3>2. CASE HandlerReturns(e)
      BY <2>1, <3>2 DEF HandlerReturns
    <3>3. CASE Read(e)
      BY <2>1, <3>3 DEF Read, ReadNothing, ReadData, ReadTicket, ReadClose, NextRecord, Check
    <3>4. CASE Callback(e)
      BY <2>1, <3>4 DEF Callback, Announce, OnConnected, OnReceived, Report, OnDisconnected, Write, Return
    <3> QED BY <2>2, <3>1, <3>2, <3>3, <3>4 DEF Step
  <2>3. ASSUME NEW e \in Ends, Disconnect(e) PROVE FALSE
    BY <2>1, <2>3 DEF Disconnect
  <2>4. up'
    BY <2>2, <2>3 DEF Next, TransportConnected
  <2> QED BY <2>4 DEF Quiet
<1> QED BY <1>1, <1>2

-----------------------------------------------------------------------------
(* The handshake *)

(* do_connect leaves x, and answers with the record ans. *)
Speaks(e, x, ans, w) ==
    /\ in' = [in EXCEPT ![e] = x]
    /\ stuck' = [stuck EXCEPT ![e] = Drop(ans, BioCap)]
    /\ wire' = [wire EXCEPT ![Peer(e)] = w, ![e] = Take(ans, BioCap)]

Spoken(e, x, ans, w) ==
    /\ in' \in [Ends -> Seq(Cells)] /\ wire' \in [Ends -> Seq(Cells)] /\ stuck' \in [Ends -> Seq(Cells)]
    /\ in'[e] = x /\ in'[Peer(e)] = in[Peer(e)]
    /\ wire'[e] = Take(ans, BioCap) /\ Len(wire'[e]) <= BioCap /\ wire'[Peer(e)] = w
    /\ ans # <<>> => wire'[e] # <<>>
    /\ stuck'[Peer(e)] = stuck[Peer(e)]
    /\ Near(e)' = x \o w /\ Way(e)' = (x \o w) \o stuck[Peer(e)]
    /\ Near(Peer(e))' = Take(ans, BioCap) /\ Way(Peer(e))' = ans

(* The answer goes out as far as the BIO holds it.                         *)
LEMMA Speech ==
  ASSUME Types, NEW e \in Ends, NEW x \in Seq(Cells), NEW ans \in Seq(Cells), NEW w \in Seq(Cells),
         in[Peer(e)] = <<>>, Speaks(e, x, ans, w)
  PROVE  Spoken(e, x, ans, w)
<1> DEFINE p == Peer(e)
           a == Take(ans, BioCap)
           b == Drop(ans, BioCap)
<1>1. p \in Ends /\ p # e /\ Peer(p) = e
  BY TwoEnds
<1>2. BioCap \in Nat /\ BioCap > 0
  BY Bounds
<1>3. a \in Seq(Cells) /\ b \in Seq(Cells) /\ a \o b = ans /\ Len(a) = Least(BioCap, Len(ans))
  BY <1>2, Cut
<1>4. Len(a) <= BioCap /\ (ans # <<>> => a # <<>>)
  <2>1. Len(ans) \in Nat /\ (Len(ans) = 0 <=> ans = <<>>) /\ (Len(a) = 0 <=> a = <<>>)
    BY <1>3, LenProperties, EmptySeq
  <2> QED BY <1>2, <1>3, <2>1 DEF Least
<1> HIDE DEF a, b
<1>5. /\ in' = [in EXCEPT ![e] = x] /\ stuck' = [stuck EXCEPT ![e] = b]
      /\ wire' = [wire EXCEPT ![p] = w, ![e] = a]
  BY DEF Speaks, a, b
<1>6. in' \in [Ends -> Seq(Cells)] /\ in'[e] = x /\ in'[p] = in[p]
  BY <1>1, <1>5 DEF Types
<1>7. stuck' \in [Ends -> Seq(Cells)] /\ stuck'[e] = b /\ stuck'[p] = stuck[p]
  BY <1>1, <1>3, <1>5 DEF Types
<1>8. wire' \in [Ends -> Seq(Cells)] /\ wire'[e] = a /\ wire'[p] = w
  BY <1>1, <1>3, <1>5 DEF Types
<1>9. Near(e)' = x \o w /\ Way(e)' = (x \o w) \o stuck[p]
  BY <1>6, <1>7, <1>8 DEF Near, Way
<1>10. Near(p)' = a /\ Way(p)' = ans
  <2>1. Near(p)' = <<>> \o a /\ Way(p)' = (<<>> \o a) \o b
    BY <1>1, <1>6, <1>7, <1>8 DEF Near, Way
  <2>2. <<>> \o a = a
    BY <1>3, ConcatEmptySeq
  <2> QED BY <1>3, <2>1, <2>2
<1> QED BY <1>4, <1>6, <1>7, <1>8, <1>9, <1>10 DEF Spoken, a

(* What do_connect finds: the client begins, or a turn of the handshake.   *)
Begins(e, q, w) ==
    /\ q \in Seq(Cells) /\ w \in Seq(Cells) /\ q \o w = Near(e)
    /\ Len(in[e]) \in Nat /\ Len(q) \in Nat /\ Len(in[e]) <= Len(q) /\ Len(q) - Len(in[e]) <= BioCap
    /\ \A i \in 1 .. Len(in[e]) : q[i] = in[e][i]
    /\ Stage(e) # "done" /\ Greeting(e)
    /\ Way(Peer(e)) = <<>> /\ in[Peer(e)] = <<>> /\ wire[e] = <<>> /\ stuck[e] = <<>>
    /\ \/ e = Client /\ Phase = <<"start", "start">> /\ q = <<>>
       \/ Turn(e) /\ Len(in[e]) < Len(q)
    /\ transport = "synchronous" =>
          w = <<>> /\ \A f \in Ends : unread[f] = 0 \/ ssl[f].fatal \/ ssl[f].seen

(* adv: OpenSSL goes on to its next stage. *)
Advances(e, q) == (e = Client /\ Stage(e) = "start") \/ FirstEnd(q) > 0
Onward(e) == IF Stage(e) = "start" THEN "wait" ELSE "done"
Becomes(e, stage, n) ==
    /\ ssl' = [ssl EXCEPT ![e].stage = stage]
    /\ unread' = [unread EXCEPT ![e] = n]
    /\ status' = [status EXCEPT ![e] = IF stage = "done" THEN "connected" ELSE "connecting"]
    /\ UNCHANGED <<transport, arg, wrote, received, told, ended>>

(* What DoConnect does, in these words. *)
LEMMA Connecting ==
  ASSUME IInv, NEW e \in Ends, NEW chunk, Stage(e) # "done", stuck[e] = <<>>, wire[e] = <<>>,
         Fed(e, chunk) \in Seq(Cells),
         DoConnect(e, chunk), UNCHANGED transport
  PROVE  LET q == Fed(e, chunk)
             w == Drop(wire[Peer(e)], Len(chunk))
         IN  /\ Advances(e, q) =>
                   /\ Speaks(e, Drop(q, FirstEnd(q)), Answer(e), w)
                   /\ Becomes(e, Onward(e), IF Onward(e) = "done" THEN Len(in'[e]) ELSE 0)
             /\ ~Advances(e, q) => Speaks(e, q, <<>>, w) /\ Becomes(e, Stage(e), 0)
<1> DEFINE q == Fed(e, chunk)
           w == Drop(wire[Peer(e)], Len(chunk))
           k == FirstEnd(q)
           first == e = Client /\ ssl[e].stage = "start"
           advance == ssl[e].stage # "done" /\ (first \/ k > 0)
           stage == IF ~advance THEN ssl[e].stage ELSE IF ssl[e].stage = "start" THEN "wait" ELSE "done"
           cells == stuck[e] \o (IF advance THEN Answer(e) ELSE <<>>)
<1>1. /\ ssl' = [ssl EXCEPT ![e].stage = stage]
      /\ in' = [in EXCEPT ![e] = IF advance THEN Unused(q, k) ELSE q]
      /\ unread' = [unread EXCEPT ![e] = IF stage = "done" THEN Len(in'[e]) ELSE 0]
      /\ stuck' = [stuck EXCEPT ![e] = Drop(cells, BioCap)]
      /\ wire' = [wire EXCEPT ![Peer(e)] = Drop(@, Len(chunk)), ![e] = @ \o Take(cells, BioCap)]
      /\ status' = [status EXCEPT ![e] = IF stage = "done" THEN "connected" ELSE "connecting"]
      /\ UNCHANGED <<transport, arg, wrote, received, told, ended>>
  BY DEF DoConnect, Moved, appVars
<1>2. Answer(e) \in Seq(Cells) /\ <<>> \in Seq(Cells) /\ BioCap \in Nat /\ wire \in [Ends -> Seq(Cells)] /\ Peer(e) # e
      /\ Peer(e) \in Ends
  <2>1. Types
    BY Invariants
  <2>2. Answer(e) \in Seq(Cells) /\ <<>> \in Seq(Cells)
    BY PlainCells, FlightCells, EmptySeq DEF Answer
  <2>3. BioCap \in Nat
    BY <2>1, Bounds
  <2> QED BY <2>1, <2>2, <2>3, TwoEnds DEF Types
<1>3. \A z \in Seq(Cells) : <<>> \o z = z /\ Take(z, BioCap) \in Seq(Cells)
  BY <1>2, Cut, ConcatEmptySeq
<1>4. advance <=> Advances(e, q)
  BY DEF Advances, Stage
<1> HIDE DEF q, w, k
<1>5. ASSUME NEW z \in Seq(Cells), cells = stuck[e] \o z
      PROVE  /\ cells = z
             /\ wire' = [wire EXCEPT ![Peer(e)] = w, ![e] = Take(z, BioCap)]
  <2>1. cells = z
    BY <1>3, <1>5
  <2> HIDE DEF cells
  <2>2. wire' = [wire EXCEPT ![Peer(e)] = Drop(@, Len(chunk)), ![e] = @ \o Take(z, BioCap)]
    BY <1>1, <2>1
  <2>3. [wire EXCEPT ![Peer(e)] = Drop(@, Len(chunk)), ![e] = @ \o Take(z, BioCap)]
            = [wire EXCEPT ![Peer(e)] = w, ![e] = <<>> \o Take(z, BioCap)]
    BY <1>2 DEF w
  <2>4. <<>> \o Take(z, BioCap) = Take(z, BioCap)
    BY <1>3
  <2> QED BY <2>1, <2>2, <2>3, <2>4
<1>6. ASSUME advance
      PROVE  /\ Speaks(e, Drop(q, k), Answer(e), w)
             /\ Becomes(e, Onward(e), IF Onward(e) = "done" THEN Len(in'[e]) ELSE 0)
  <2>1. cells = stuck[e] \o Answer(e) /\ stage = Onward(e)
    BY <1>6 DEF Onward, Stage
  <2>2. cells = Answer(e) /\ wire' = [wire EXCEPT ![Peer(e)] = w, ![e] = Take(Answer(e), BioCap)]
    BY <1>2, <1>5, <2>1
  <2>3. in' = [in EXCEPT ![e] = Drop(q, k)]
    BY <1>1, <1>6 DEF Unused
  <2> HIDE DEF cells, stage
  <2> QED BY <1>1, <2>1, <2>2, <2>3 DEF Speaks, Becomes
<1>7. ASSUME ~advance
      PROVE  Speaks(e, q, <<>>, w) /\ Becomes(e, Stage(e), 0)
  <2>1. cells = stuck[e] \o <<>> /\ stage = Stage(e)
    BY <1>7 DEF Stage
  <2>2. cells = <<>> /\ wire' = [wire EXCEPT ![Peer(e)] = w, ![e] = Take(<<>>, BioCap)]
    BY <1>2, <1>5, <2>1
  <2>3. in' = [in EXCEPT ![e] = q]
    BY <1>1, <1>7
  <2> HIDE DEF cells, stage
  <2>4. unread' = [unread EXCEPT ![e] = 0]
    BY <1>1, <2>1
  <2> QED BY <1>1, <2>1, <2>2, <2>3, <2>4 DEF Speaks, Becomes
<1> QED BY <1>4, <1>6, <1>7 DEF q, w, k

(* The state of OpenSSL and of the stream while the handshake goes on.     *)
Became(e, stage, n) ==
    /\ ssl' \in [Ends -> [stage : Stages, sent : BOOLEAN, seen : BOOLEAN, fatal : BOOLEAN]]
    /\ status' \in [Ends -> {"closed", "connecting", "connected", "peer_closing", "closing"}]
    /\ unread' \in [Ends -> Nat] /\ unread'[e] = n /\ unread'[Peer(e)] = unread[Peer(e)]
    /\ Stage(e)' = stage /\ ssl'[Peer(e)] = ssl[Peer(e)] /\ Stage(Peer(e))' = Stage(Peer(e))
    /\ \A f \in Ends : ssl'[f].sent = ssl[f].sent /\ ~ssl'[f].seen /\ ~ssl'[f].fatal /\ ssl'[f].fatal = ssl[f].fatal
    /\ status'[e] = (IF stage = "done" THEN "connected" ELSE "connecting") /\ status'[Peer(e)] = status[Peer(e)]
    /\ \A f \in Ends :
          /\ Stage(f)' # "done" => wrote'[f] = <<>> /\ unread'[f] = 0 /\ status'[f] \in {"closed", "connecting"}
          /\ status'[f] = "connecting" => Stage(f)' # "done"
    /\ \A f \in Ends : f # e => Closed(f)' = Closed(f)
    /\ ~Closed(e)'
    /\ Closing'

(* OpenSSL's next stage keeps types, status and what concerns a close.     *)
LEMMA Becoming ==
  ASSUME IInv, NEW e \in Ends, Stage(e) # "done", Greeting(e), NEW stage \in Stages, NEW n \in Nat,
         Becomes(e, stage, n), stage # "done" => n = 0
  PROVE  Became(e, stage, n)
<1>1. Types /\ Handshake /\ Closing
  BY Invariants
<1>2. Peer(e) \in Ends /\ Peer(e) # e /\ \A f \in Ends : f = e \/ f = Peer(e)
  BY TwoEnds
<1>3. /\ ssl' = [ssl EXCEPT ![e].stage = stage] /\ unread' = [unread EXCEPT ![e] = n]
      /\ status' = [status EXCEPT ![e] = IF stage = "done" THEN "connected" ELSE "connecting"]
      /\ UNCHANGED <<transport, arg, wrote, received, told, ended>>
  BY DEF Becomes
<1>4. ssl \in [Ends -> [stage : Stages, sent : BOOLEAN, seen : BOOLEAN, fatal : BOOLEAN]]
  BY <1>1 DEF Types, TypeOK
<1>5. /\ ssl' \in [Ends -> [stage : Stages, sent : BOOLEAN, seen : BOOLEAN, fatal : BOOLEAN]]
      /\ ssl'[e].stage = stage /\ ssl'[Peer(e)] = ssl[Peer(e)]
      /\ ssl'[e].sent = ssl[e].sent /\ ssl'[e].seen = ssl[e].seen /\ ssl'[e].fatal = ssl[e].fatal
  BY <1>2, <1>3, <1>4
<1>6. /\ status' \in [Ends -> {"closed", "connecting", "connected", "peer_closing", "closing"}]
      /\ status'[e] = (IF stage = "done" THEN "connected" ELSE "connecting") /\ status'[Peer(e)] = status[Peer(e)]
  BY <1>1, <1>2, <1>3 DEF Types, TypeOK
<1>7. unread' \in [Ends -> Nat] /\ unread'[e] = n /\ unread'[Peer(e)] = unread[Peer(e)]
  BY <1>1, <1>2, <1>3 DEF Types
<1>8. /\ Stage(e)' = stage /\ Stage(Peer(e))' = Stage(Peer(e))
      /\ \A f \in Ends : ssl'[f].sent = ssl[f].sent /\ ~ssl'[f].seen /\ ~ssl'[f].fatal /\ ssl'[f].fatal = ssl[f].fatal
  BY <1>2, <1>5 DEF Stage, Greeting
<1>9. (\A f \in Ends : f # e => Closed(f)' = Closed(f)) /\ ~Closed(e)'
  BY <1>2, <1>6, <1>8 DEF Closed
<1>10. \A f \in Ends :
          /\ Stage(f)' # "done" => wrote'[f] = <<>> /\ unread'[f] = 0 /\ status'[f] \in {"closed", "connecting"}
          /\ status'[f] = "connecting" => Stage(f)' # "done"
  <2>1. wrote[e] = <<>>
    BY DEF Greeting
  <2>2. /\ Stage(e)' # "done" => wrote'[e] = <<>> /\ unread'[e] = 0 /\ status'[e] \in {"closed", "connecting"}
        /\ status'[e] = "connecting" => Stage(e)' # "done"
    BY <1>3, <1>6, <1>7, <1>8, <2>1
  <2>3. /\ Stage(Peer(e))' # "done" => wrote'[Peer(e)] = <<>> /\ unread'[Peer(e)] = 0 /\ status'[Peer(e)] \in {"closed", "connecting"}
        /\ status'[Peer(e)] = "connecting" => Stage(Peer(e))' # "done"
    BY <1>1, <1>2, <1>3, <1>6, <1>7, <1>8 DEF Handshake
  <2> QED BY <1>2, <2>2, <2>3
<1>11. Closing'
  <2>1. ~ssl[e].sent /\ status'[e] \notin {"closing", "peer_closing"}
    BY <1>6 DEF Greeting
  <2>2. \A f \in Ends : ssl'[f].sent <=> status'[f] \in {"closing", "peer_closing"} \/ Closed(f)'
    BY <1>1, <1>2, <1>6, <1>8, <1>9, <2>1 DEF Closing
  <2>3. \A f \in Ends : ~Closed(f)' /\ status'[f] # "peer_closing"
    <3>1. ~ssl[Peer(e)].seen
      BY <1>2 DEF Greeting
    <3> QED BY <1>1, <1>2, <1>6, <1>9, <2>1, <3>1 DEF Closing
  <2> QED BY <1>8, <2>2, <2>3 DEF Closing
<1> QED BY <1>5, <1>6, <1>7, <1>8, <1>9, <1>10, <1>11 DEF Became

(* What do_connect leaves. *)
Outcome(e) ==
    /\ in' \in [Ends -> Seq(Cells)] /\ wire' \in [Ends -> Seq(Cells)] /\ stuck' \in [Ends -> Seq(Cells)]
    /\ \E stage \in Stages, n \in Nat : Became(e, stage, n)
    /\ \A f \in Ends : unread'[f] \in 0 .. BioCap /\ unread'[f] <= Len(in'[f])
    /\ Phase' \in Phases /\ Stage(Client)' # "start"
    /\ Streams' /\ Consumed'
    /\ Len(wire'[e]) <= BioCap
    /\ transport = "synchronous" =>
          /\ wire'[Peer(e)] = <<>> /\ OneRecord'
          /\ Stage(Client)' = "done" =>
                \/ e = Client /\ wire'[Client] # <<>> /\ Stage(Server)' = "wait"
                \/ e = Server /\ Phase' = <<"done", "done">> /\ wire'[Server] # <<>>

(* OpenSSL needs more of the record. *)
LEMMA Waiting ==
  ASSUME IInv, NEW e \in Ends, NEW q, NEW w, Begins(e, q, w), ~Advances(e, q),
         Speaks(e, q, <<>>, w), Becomes(e, Stage(e), 0)
  PROVE  Outcome(e)
<1> DEFINE p == Peer(e)
<1>1. Types /\ Handshake /\ Streams /\ Consumed /\ Synchronous /\ transport \in {"queued", "synchronous"}
  BY Invariants
<1>2. /\ Peer(e) \in Ends /\ Peer(e) # e /\ Peer(Peer(e)) = e /\ \A f \in Ends : f = e \/ f = Peer(e)
      /\ Client \in Ends /\ Server \in Ends /\ Peer(Client) = Server /\ Peer(Server) = Client /\ Client # Server
  BY TwoEnds, SslAssumption
<1>3. /\ q \in Seq(Cells) /\ w \in Seq(Cells) /\ q \o w = Near(e) /\ Stage(e) # "done" /\ Greeting(e)
      /\ Len(q) \in Nat /\ Turn(e) /\ Len(in[e]) < Len(q) /\ Len(in[e]) \in Nat
      /\ Way(p) = <<>> /\ in[p] = <<>> /\ wire[e] = <<>> /\ stuck[e] = <<>>
      /\ (transport = "synchronous" => w = <<>> /\ \A f \in Ends : unread[f] = 0 \/ ssl[f].fatal \/ ssl[f].seen)
  <2>1. ~(e = Client /\ Phase = <<"start", "start">>)
    BY DEF Advances, Phase
  <2> QED BY <2>1 DEF Begins
<1>4. <<>> \in Seq(Cells) /\ BioCap \in Nat
  BY <1>1, Bounds
<1>5. Spoken(e, q, <<>>, w)
  BY <1>1, <1>3, <1>4, Speech
<1>6. Stage(e) \in Stages /\ 0 \in Nat
  BY <1>1 DEF Types, TypeOK, Stage
<1>7. Became(e, Stage(e), 0)
  BY <1>3, <1>6, Becoming
<1>8. /\ in' \in [Ends -> Seq(Cells)] /\ wire' \in [Ends -> Seq(Cells)] /\ stuck' \in [Ends -> Seq(Cells)]
      /\ in'[e] = q /\ in'[p] = in[p] /\ wire'[p] = w /\ Len(wire'[e]) <= BioCap
      /\ stuck'[p] = stuck[p]
      /\ Near(e)' = q \o w /\ Way(e)' = (q \o w) \o stuck[p] /\ Way(p)' = <<>>
      /\ wire'[e] = Take(<<>>, BioCap) /\ stuck' = [stuck EXCEPT ![e] = Drop(<<>>, BioCap)]
      /\ Near(p)' = Take(<<>>, BioCap)
  BY <1>5 DEF Spoken, Speaks
<1>9. Near(e)' = Near(e) /\ Way(e)' = Way(e) /\ Way(p)' = Way(p) /\ stuck'[e] = stuck[e] /\ wire'[e] = <<>>
      /\ Near(p)' = <<>>
  <2>1. Take(<<>>, BioCap) = <<>> /\ Drop(<<>>, BioCap) = <<>>
    <3>1. \A z \in Seq(Cells), j \in Nat : j >= Len(z) => Take(z, j) = z /\ Drop(z, j) = <<>>
      BY Cut
    <3>2. BioCap >= Len(<<>>)
      BY <1>4, EmptySeq
    <3>3. /\ BioCap >= Len(<<>>) => Take(<<>>, BioCap) = <<>> /\ Drop(<<>>, BioCap) = <<>>
      BY <1>4, <3>1
    <3> QED BY <3>2, <3>3
  <2>2. stuck'[e] = <<>>
    BY <1>1, <1>8, <2>1 DEF Types
  <2> QED BY <1>3, <1>8, <2>1, <2>2 DEF Way
<1>10. Stage(e)' = Stage(e) /\ Stage(p)' = Stage(p) /\ Phase' = Phase /\ \A f \in Ends : Stage(f)' = Stage(f)
  BY <1>2, <1>7 DEF Became, Phase
<1>11. Phase' \in Phases /\ Stage(Client)' # "start"
  <2>1. Stage(Client) # "start"
    BY <1>3 DEF Turn, Phase
  <2> QED BY <1>1, <1>2, <1>10, <2>1 DEF Handshake
<1>12. Streams'
  <2>1. UNCHANGED <<transport, arg, wrote, received>>
    BY DEF Becomes
  <2>2. \A f \in Ends : ~ssl[f].fatal /\ ssl'[f].fatal = ssl[f].fatal /\ ssl'[f].sent = ssl[f].sent
    BY <1>3, <1>7 DEF Greeting, Became
  <2>3. \A f \in Ends : Way(f)' = Way(f) /\ stuck'[f] = stuck[f]
    BY <1>2, <1>8, <1>9
  <2>4. ASSUME NEW f \in Ends PROVE IF ssl'[f].fatal THEN Broken(f)' ELSE Stream(f)'
    <3>1. /\ Way(f)' = Way(f) /\ Phase' = Phase /\ transport' = transport
          /\ received'[f] = received[f] /\ arg'[f] = arg[f]
          /\ wrote'[Peer(f)] = wrote[Peer(f)] /\ stuck'[Peer(f)] = stuck[Peer(f)]
          /\ ssl[Peer(f)].sent => ssl'[Peer(f)].sent
          /\ ssl'[f].fatal = ssl[f].fatal /\ ~ssl[f].fatal
      <4>1. Peer(f) \in Ends
        BY TwoEnds
      <4>2. Way(f)' = Way(f) /\ stuck'[Peer(f)] = stuck[Peer(f)]
        BY <2>3, <4>1
      <4>3. (ssl[Peer(f)].sent => ssl'[Peer(f)].sent) /\ ssl'[f].fatal = ssl[f].fatal /\ ~ssl[f].fatal
        BY <2>2, <4>1
      <4> QED BY <1>10, <2>1, <4>2, <4>3
    <3> QED BY <1>1, <3>1, StreamKept
  <2> QED BY <2>4 DEF Streams
<1>13. Consumed' /\ (\A f \in Ends : unread'[f] \in 0 .. BioCap /\ unread'[f] <= Len(in'[f]))
  <2>1. unread'[e] = 0 /\ unread'[p] = unread[p]
    BY <1>7 DEF Became
  <2>2. FirstEnd(q) = 0
    BY <1>3, FirstRecord DEF Advances
  <2>3. \A i \in 1 .. Len(q) - 0 : ~q[i].last
    BY <1>3, <2>2, FirstRecord
  <2>4. 0 \in 0 .. BioCap /\ 0 <= Len(q)
    BY <1>3, <1>4
  <2>5. \A i \in 1 .. Len(in[p]) - unread[p] : ~in[p][i].last
    BY <1>1, <1>2 DEF Consumed
  <2>6. unread[p] \in 0 .. BioCap /\ unread[p] <= Len(in[p])
    BY <1>1, <1>2 DEF Types, TypeOK
  <2>7. Consumed'
    BY <1>2, <1>8, <2>1, <2>3, <2>5 DEF Consumed
  <2> QED BY <1>2, <1>8, <2>1, <2>4, <2>6, <2>7
<1>14. ASSUME transport = "synchronous"
       PROVE  /\ wire'[p] = <<>> /\ OneRecord'
              /\ Stage(Client)' = "done" =>
                    \/ e = Client /\ wire'[Client] # <<>> /\ Stage(Server)' = "wait"
                    \/ e = Server /\ Phase' = <<"done", "done">> /\ wire'[Server] # <<>>
  <2>1. \A f \in Ends : unread'[f] = 0 \/ ssl'[f].fatal \/ ssl'[f].seen
    <3>1. unread'[e] = 0 /\ unread'[p] = unread[p] /\ ssl'[p] = ssl[p]
      BY <1>7 DEF Became
    <3> QED BY <1>2, <1>3, <1>14, <3>1
  <2>2. \A f \in Ends : ~ssl'[f].fatal /\ ~ssl'[f].seen => OneEnd(Near(f)')
    <3>1. OneEnd(Near(e))
      BY <1>1, <1>3, <1>14 DEF Synchronous, OneRecord, OneEnd, Greeting
    <3>2. OneEnd(Near(p)')
      BY <1>9, EmptySeq DEF OneEnd
    <3> QED BY <1>2, <1>9, <3>1, <3>2
  <2>3. OneRecord'
    BY <2>1, <2>2 DEF OneRecord, OneEnd
  <2>4. Stage(Client)' # "done"
    <3> SUFFICES ASSUME Stage(Client) = "done" PROVE FALSE
      BY <1>2, <1>10
    <3>1. e = Server /\ Hellos(e) = {1}
      BY <1>2, <1>3 DEF Turn, Phase, Hellos
    <3>2. PICK h \in Nat, d \in Seq(Nat), c \in {0, 1}, r \in Seq(Nat) : Holds(e, h, d, c, r)
      BY <1>3 DEF Greeting, Stream
    <3>3. h = 1 /\ Shape(Way(e), 1, d, c)
      BY <3>1, <3>2 DEF Holds
    <3>4. Near(e) = q /\ q \in Seq(Cells) /\ stuck[p] \in Seq(Cells)
      BY <1>1, <1>2, <1>3, <1>14, ConcatEmptySeq DEF Types
    <3>5. 1 \in 1 .. Len(q)
      BY <1>3
    <3>6. Way(e)[1] = q[1] /\ 1 \in 1 .. Len(Way(e))
      <4>1. \A x \in Seq(Cells), y \in Seq(Cells) :
               /\ Len(x) <= Len(x \o y) /\ Len(x \o y) \in Nat
               /\ \A i \in 1 .. Len(x) : (x \o y)[i] = x[i]
        BY Cellwise
      <4>2. Len(q) <= Len(q \o stuck[p]) /\ Len(q \o stuck[p]) \in Nat /\ (q \o stuck[p])[1] = q[1]
        BY <3>4, <3>5, <4>1
      <4> QED BY <1>3, <3>4, <3>5, <4>2 DEF Way
    <3>7. q[1].last
      <4>1. 1 <= 1 /\ 1 = 1
        OBVIOUS
      <4> QED BY <3>3, <3>6, <4>1 DEF Shape
    <3>8. FirstEnd(q) > 0
      BY <3>4, <3>5, <3>7, FirstRecord
    <3> QED BY <3>8 DEF Advances
  <2> QED BY <1>3, <1>8, <1>14, <2>3, <2>4
<1> QED BY <1>6, <1>7, <1>8, <1>11, <1>12, <1>13, <1>14 DEF Outcome

(* A whole record has been read, and is answered. *)
Turned(e) ==
    \/ e = Client /\ Phase = <<"start", "start">> /\ Phase' = <<"wait", "start">> /\ Onward(e) = "wait"
    \/ e = Server /\ Phase = <<"wait", "start">> /\ Phase' = <<"wait", "wait">> /\ Onward(e) = "wait"
    \/ e = Client /\ Phase = <<"wait", "wait">> /\ Phase' = <<"done", "wait">> /\ Onward(e) = "done"
    \/ e = Server /\ Phase = <<"done", "wait">> /\ Phase' = <<"done", "done">> /\ Onward(e) = "done"

(* The stages of the two ends go forward together, and the answer is the   *)
(* record the other end expects.                                           *)
LEMMA Turning ==
  ASSUME NEW e \in Ends, (e = Client /\ Phase = <<"start", "start">>) \/ Turn(e),
         Stage(e)' = Onward(e), Stage(Peer(e))' = Stage(Peer(e))
  PROVE  /\ Turned(e) /\ Phase' \in Phases /\ Stage(Client)' # "start" /\ Onward(e) \in Stages
         /\ Phase' = <<Stage(Client)', Stage(Server)'>>
         /\ 0 \in Hellos(e)'
         /\ \E n \in Nat : n \in Hellos(Peer(e))' /\ Shape(Answer(e), n, <<>>, 0)
         /\ Answer(e) \in Seq(Cells) /\ Answer(e) # <<>> /\ OneEnd(Answer(e))
<1>1. /\ Client \in Ends /\ Server \in Ends /\ Client # Server /\ Peer(Client) = Server /\ Peer(Server) = Client
      /\ (e = Client \/ e = Server)
  BY TwoEnds, SslAssumption
<1>2. Phase = <<Stage(Client), Stage(Server)>> /\ Phase' = <<Stage(Client)', Stage(Server)'>>
  BY DEF Phase
<1>3. Turned(e)
  <2>1. CASE e = Client /\ Phase = <<"start", "start">>
    BY <1>1, <1>2, <2>1 DEF Turned, Onward
  <2>2. CASE e = Server /\ Phase = <<"wait", "start">>
    BY <1>1, <1>2, <2>2 DEF Turned, Onward
  <2>3. CASE e = Client /\ Phase = <<"wait", "wait">>
    BY <1>1, <1>2, <2>3 DEF Turned, Onward
  <2>4. CASE e = Server /\ Phase = <<"done", "wait">>
    BY <1>1, <1>2, <2>4 DEF Turned, Onward
  <2> QED BY <2>1, <2>2, <2>3, <2>4 DEF Turn
<1>4. Phase' \in Phases /\ Stage(Client)' # "start" /\ Onward(e) \in Stages
  BY <1>2, <1>3 DEF Turned, Phases, Stages
<1>5. 0 \in Hellos(e)'
  BY <1>1, <1>3 DEF Turned, Hellos
<1>6. Answer(e) \in Seq(Cells) /\ Answer(e) # <<>> /\ ServerFlight \in Nat
  BY PlainCells, FlightCells, EmptySeq DEF Answer
<1>7. \E n \in Nat : n \in Hellos(Peer(e))' /\ Shape(Answer(e), n, <<>>, 0)
  <2>1. CASE e = Server /\ Phase = <<"wait", "start">> /\ Phase' = <<"wait", "wait">>
    <3>1. Answer(e) = Flight
      BY <1>1, <1>2, <2>1 DEF Answer, Stage
    <3>2. ServerFlight \in Hellos(Peer(e))'
      BY <1>1, <2>1 DEF Hellos
    <3> QED BY <1>6, <3>1, <3>2, ShapeHello
  <2>2. CASE ~(e = Server /\ Phase = <<"wait", "start">>)
    <3>1. Answer(e) = Plain("hs")
      BY <1>1, <1>2, <1>3, <2>2 DEF Answer, Stage, Turned
    <3>2. 1 \in Hellos(Peer(e))' /\ 1 \in Nat
      BY <1>1, <1>3, <2>2 DEF Hellos, Turned
    <3> QED BY <3>1, <3>2, ShapeHello
  <2> QED BY <1>1, <1>3, <2>1, <2>2 DEF Turned
<1>8. OneEnd(Answer(e))
  <2>1. PICK n \in Nat : Shape(Answer(e), n, <<>>, 0)
    BY <1>7
  <2>2. Len(Answer(e)) = n /\ \A i \in 1 .. n : Answer(e)[i].last <=> i = n
    <3>1. Len(<<>>) = 0
      BY EmptySeq
    <3>2. Len(Answer(e)) = n
      BY <2>1, <3>1 DEF Shape
    <3>3. \A i \in 1 .. n : i <= n
      OBVIOUS
    <3> QED BY <2>1, <3>2, <3>3 DEF Shape
  <2> QED BY <2>2 DEF OneEnd
<1> QED BY <1>2, <1>3, <1>4, <1>5, <1>6, <1>7, <1>8

(* OpenSSL goes on to its next stage and answers.                          *)
LEMMA Advancing ==
  ASSUME IInv, NEW e \in Ends, NEW q, NEW w, Begins(e, q, w), Advances(e, q),
         Speaks(e, Drop(q, FirstEnd(q)), Answer(e), w),
         Becomes(e, Onward(e), IF Onward(e) = "done" THEN Len(in'[e]) ELSE 0)
  PROVE  Outcome(e)
<1> DEFINE p == Peer(e)
           k == FirstEnd(q)
           x == Drop(q, k)
           n == IF Onward(e) = "done" THEN Len(x) ELSE 0
<1>1. Types /\ Handshake /\ Streams /\ Consumed /\ Synchronous /\ transport \in {"queued", "synchronous"}
  BY Invariants
<1>2. /\ Peer(e) \in Ends /\ Peer(e) # e /\ Peer(Peer(e)) = e /\ \A f \in Ends : f = e \/ f = Peer(e)
      /\ Client \in Ends /\ Server \in Ends /\ Peer(Client) = Server /\ Peer(Server) = Client /\ Client # Server
  BY TwoEnds, SslAssumption
<1>3. /\ q \in Seq(Cells) /\ w \in Seq(Cells) /\ q \o w = Near(e) /\ Stage(e) # "done" /\ Greeting(e)
      /\ Len(q) \in Nat /\ Len(in[e]) \in Nat /\ Len(in[e]) <= Len(q) /\ Len(q) - Len(in[e]) <= BioCap
      /\ \A i \in 1 .. Len(in[e]) : q[i] = in[e][i]
      /\ Way(p) = <<>> /\ in[p] = <<>> /\ wire[e] = <<>> /\ stuck[e] = <<>>
      /\ \/ e = Client /\ Phase = <<"start", "start">> /\ q = <<>>
         \/ Turn(e) /\ Len(in[e]) < Len(q)
      /\ (transport = "synchronous" => w = <<>> /\ \A f \in Ends : unread[f] = 0 \/ ssl[f].fatal \/ ssl[f].seen)
  BY DEF Begins
<1>4. BioCap \in Nat /\ Near(e) \in Seq(Cells) /\ Way(e) \in Seq(Cells) /\ stuck[p] \in Seq(Cells)
  BY <1>1, Bounds, EmptyWay
<1>5. /\ k \in Nat /\ k <= Len(q)
      /\ k > 0 => q[k].last /\ k \in 1 .. Len(q)
      /\ \A i \in 1 .. Len(q) : q[i].last => k > 0 /\ k <= i
  BY <1>3, FirstRecord
<1>6. Turn(e) => k > 0
  BY <1>2 DEF Advances, Turn, Phase
<1> HIDE DEF k
<1>7. PICK h \in Nat, d \in Seq(Nat), c \in {0, 1}, r \in Seq(Nat) : Holds(e, h, d, c, r)
  BY <1>3 DEF Greeting, Stream
<1>8. /\ Shape(Way(e), h, d, c) /\ h \in Hellos(e) /\ (received[e] \o arg[e]) \o (d \o r) = wrote[p]
      /\ (stuck[p] = <<>> => r = <<>>)
      /\ (c = 1 => ssl[p].sent /\ stuck[p] = <<>>)
      /\ (transport = "synchronous" => Len(d) <= RecordMax)
  BY <1>7 DEF Holds
<1>9. Len(q) <= Len(Near(e)) /\ Len(Near(e)) <= Len(Way(e)) /\ Len(Near(e)) \in Nat /\ Len(Way(e)) \in Nat
  <2>1. \A a \in Seq(Cells), b \in Seq(Cells) : Len(a) <= Len(a \o b) /\ Len(a \o b) \in Nat
    BY Cellwise
  <2>2. Len(q) <= Len(q \o w) /\ Len(q \o w) \in Nat
    BY <1>3, <2>1
  <2>3. Len(Near(e)) <= Len(Near(e) \o stuck[p]) /\ Len(Near(e) \o stuck[p]) \in Nat
    BY <1>4, <2>1
  <2> QED BY <1>3, <2>2, <2>3 DEF Way
<1>10. h = k
  <2>1. CASE e = Client /\ Phase = <<"start", "start">> /\ q = <<>>
    <3>1. Hellos(e) = {0} /\ Len(q) = 0
      BY <1>2, <2>1, EmptySeq DEF Hellos
    <3> QED BY <1>5, <1>8, <3>1
  <2>2. CASE Turn(e)
    <3>1. h # 0
      BY <1>2, <1>8, <2>2, FlightCells DEF Hellos, Turn
    <3> DEFINE y == w \o stuck[p]
    <3>2. y \in Seq(Cells) /\ Way(e) = q \o y
      <4>1. Associates(q, w, stuck[p])
        BY <1>3, <1>4, Association
      <4> QED BY <1>3, <1>4, <4>1, Lengths DEF Associates, Way
    <3> HIDE DEF y
    <3>3. Shape(q \o y, h, d, c) /\ FirstEnd(q) > 0
      BY <1>6, <1>8, <2>2, <3>2 DEF k
    <3>4. /\ q[k].type \in {"hs", "app", "close"}
          /\ q[k].type = "hs" => h = k
          /\ q[k].type = "app" => h = 0
          /\ q[k].type = "close" => h = 0
      <4>1. FirstEnd(q) = k
        BY DEF k
      <4> QED BY <1>3, <1>7, <3>2, <3>3, <4>1, ShapeFirst, SMTT(30)
    <3> QED BY <3>1, <3>4
  <2> QED BY <1>3, <2>1, <2>2
<1>11. x \in Seq(Cells) /\ Len(x) = Len(q) - k
  <2>1. \A z \in Seq(Cells), j \in Nat : Drop(z, j) \in Seq(Cells) /\ Len(Drop(z, j)) = Len(z) - Least(j, Len(z))
    BY Cut
  <2>2. Least(k, Len(q)) = k
    BY <1>5 DEF Least
  <2> QED BY <1>3, <1>5, <2>1, <2>2, ZenonT(30)
<1>12. x \o w = Drop(Near(e), k) /\ (x \o w) \o stuck[p] = Drop(Way(e), k)
  <2>1. k \in 0 .. Len(q) /\ k \in 0 .. Len(Near(e))
    BY <1>3, <1>5, <1>9
  <2>2. x \o w = Drop(Near(e), k)
    <3>1. \A a \in Seq(Cells), b \in Seq(Cells) : \A j \in 0 .. Len(a) : Drop(a, j) \o b = Drop(a \o b, j)
      BY DropFront
    <3>2. Drop(q, k) \o w = Drop(q \o w, k)
      BY <1>3, <2>1, <3>1
    <3> QED BY <1>3, <3>2
  <2>3. Drop(Near(e), k) \o stuck[p] = Drop(Way(e), k)
    BY <1>4, <2>1, DropFront DEF Way
  <2> QED BY <2>2, <2>3
<1> HIDE DEF x
<1>13. Answer(e) \in Seq(Cells)
  BY PlainCells, FlightCells DEF Answer
<1>14. Spoken(e, x, Answer(e), w)
  BY <1>1, <1>3, <1>11, <1>13, Speech DEF x, k
<1>15. /\ in' \in [Ends -> Seq(Cells)] /\ wire' \in [Ends -> Seq(Cells)] /\ stuck' \in [Ends -> Seq(Cells)]
       /\ in'[e] = x /\ in'[p] = in[p] /\ wire'[p] = w /\ Len(wire'[e]) <= BioCap
       /\ wire'[e] = Take(Answer(e), BioCap) /\ (Answer(e) # <<>> => wire'[e] # <<>>)
       /\ stuck'[p] = stuck[p]
       /\ Near(e)' = x \o w /\ Way(e)' = (x \o w) \o stuck[p]
       /\ Near(p)' = Take(Answer(e), BioCap) /\ Way(p)' = Answer(e)
  BY <1>14 DEF Spoken
<1>16. n \in Nat /\ Onward(e) \in Stages /\ (Onward(e) # "done" => n = 0)
  BY <1>3, <1>5, <1>11 DEF Onward, Stages
<1>17. Became(e, Onward(e), n)
  <2>1. Becomes(e, Onward(e), n)
    BY <1>15 DEF n
  <2> HIDE DEF n
  <2> QED BY <1>3, <1>16, <2>1, Becoming
<1>18. Stage(e)' = Onward(e) /\ Stage(p)' = Stage(p) /\ unread'[e] = n /\ unread'[p] = unread[p] /\ ssl'[p] = ssl[p]
       /\ \A f \in Ends : ssl'[f].sent = ssl[f].sent /\ ~ssl'[f].seen /\ ~ssl'[f].fatal
  BY <1>17 DEF Became
<1>19. PICK m \in Nat : m \in Hellos(p)' /\ Shape(Answer(e), m, <<>>, 0)
  BY <1>3, <1>18, Turning
<1>20. /\ Turned(e) /\ Phase' \in Phases /\ Stage(Client)' # "start" /\ Phase' = <<Stage(Client)', Stage(Server)'>>
       /\ 0 \in Hellos(e)' /\ Answer(e) # <<>> /\ OneEnd(Answer(e))
  BY <1>3, <1>18, Turning
<1>21. UNCHANGED <<transport, arg, wrote, received>>
  BY DEF Becomes
<1>22. Streams'
  <2>1. Shape(Way(e)', 0, d, c)
    <3>1. Shape(Drop(Way(e), h), 0, d, c)
      BY <1>4, <1>7, <1>8, ShapeRest
    <3> QED BY <1>10, <1>12, <1>15, <3>1
  <2>2. Holds(e, 0, d, c, r)'
    BY <1>2, <1>8, <1>15, <1>18, <1>20, <1>21, <2>1 DEF Holds
  <2>3. Stream(e)'
    BY <1>7, <2>2 DEF Stream
  <2>4. received[p] = <<>> /\ arg[p] = <<>> /\ wrote[e] = <<>>
    BY <1>2, <1>3 DEF Greeting
  <2>5. Shape(Way(p)', m, <<>>, 0)
    BY <1>15, <1>19
  <2>6. (<<>> \o <<>>) \o (<<>> \o <<>>) = <<>> /\ <<>> \in Seq(Nat) /\ Len(<<>>) = 0
    BY ConcatEmptySeq, EmptySeq
  <2>7. RecordMax \in Nat
    BY SslAssumption
  <2>8. Len(<<>>) <= RecordMax
    BY <2>6, <2>7
  <2>9. Holds(p, m, <<>>, 0, <<>>)'
    BY <1>2, <1>19, <1>21, <2>4, <2>5, <2>6, <2>8 DEF Holds
  <2>10. Stream(p)'
    BY <1>19, <2>6, <2>9 DEF Stream
  <2> QED BY <1>2, <1>18, <2>3, <2>10 DEF Streams
<1>23. Onward(e) # "done" => x = <<>>
  <2> SUFFICES ASSUME Onward(e) # "done" PROVE Len(q) = k
    BY <1>3, <1>11, EmptySeq
  <2>1. CASE e = Client /\ Phase = <<"start", "start">> /\ q = <<>>
    BY <1>5, <2>1, EmptySeq
  <2>2. CASE Turn(e)
    <3>1. e = Server /\ Phase = <<"wait", "start">>
      BY <1>20, <2>2 DEF Turned, Turn, Phase
    <3>2. Stage(Client) # "done" /\ Hellos(Server) = {1}
      BY <1>2, <3>1 DEF Phase, Hellos
    <3>3. Greeting(Client)
      BY <1>2, <3>2, Greets
    <3>4. Shape(Way(Server), 1, <<>>, 0)
      BY <1>2, <3>2, <3>3 DEF Greeting
    <3>5. Len(Way(e)) = 1
      BY <3>1, <3>4, EmptySeq DEF Shape
    <3> QED BY <1>3, <1>5, <1>6, <1>9, <2>2, <3>5
  <2> QED BY <1>3, <2>1, <2>2
<1>24. Consumed' /\ (\A f \in Ends : unread'[f] \in 0 .. BioCap /\ unread'[f] <= Len(in'[f]))
  <2>1. Len(x) - n = 0
    <3>1. Onward(e) # "done" => Len(x) = 0
      BY <1>23, EmptySeq
    <3> QED BY <1>3, <1>5, <1>11, <3>1
  <2>2. \A i \in 1 .. Len(x) - n : ~x[i].last
    BY <2>1
  <2>3. \A i \in 1 .. Len(in[p]) - unread[p] : ~in[p][i].last
    BY <1>1, <1>2 DEF Consumed
  <2>4. Consumed'
    BY <1>2, <1>15, <1>18, <2>2, <2>3 DEF Consumed
  <2>5. unread[p] \in 0 .. BioCap /\ unread[p] <= Len(in[p])
    BY <1>1, <1>2 DEF Types, TypeOK
  <2>6. n <= Len(x) /\ n <= BioCap
    <3>1. CASE Onward(e) # "done"
      BY <1>3, <1>4, <1>5, <1>11, <3>1
    <3>2. CASE Onward(e) = "done"
      <4>1. Turn(e)
        BY <1>3, <1>20, <3>2 DEF Turned
      <4>2. \A i \in 1 .. Len(in[e]) : ~q[i].last
        <5>1. unread[e] = 0 /\ Len(in[e]) - 0 = Len(in[e])
          BY <1>3 DEF Greeting
        <5> QED BY <1>1, <1>3, <5>1 DEF Consumed
      <4>3. q[k].last /\ k \in 1 .. Len(q)
        BY <1>5, <1>6, <4>1
      <4>4. k > Len(in[e])
        BY <1>3, <1>5, <4>2, <4>3
      <4> QED BY <1>3, <1>4, <1>5, <1>11, <4>4
    <3> QED BY <3>1, <3>2
  <2>7. n \in 0 .. BioCap
    BY <1>4, <1>16, <2>6
  <2> HIDE DEF n
  <2> QED BY <1>2, <1>15, <1>18, <2>4, <2>5, <2>6, <2>7
<1>25. ASSUME transport = "synchronous"
       PROVE  /\ wire'[p] = <<>> /\ OneRecord'
              /\ Stage(Client)' = "done" =>
                    \/ e = Client /\ wire'[Client] # <<>> /\ Stage(Server)' = "wait"
                    \/ e = Server /\ Phase' = <<"done", "done">> /\ wire'[Server] # <<>>
  <2>1. w = <<>> /\ Near(e) = q
    BY <1>3, <1>25, ConcatEmptySeq
  <2>2. x = <<>>
    <3>1. CASE e = Client /\ Phase = <<"start", "start">> /\ q = <<>>
      BY <1>3, <1>5, <1>11, <3>1, EmptySeq
    <3>2. CASE Turn(e)
      <4>1. q[k].last /\ k \in 1 .. Len(q)
        BY <1>5, <1>6, <3>2
      <4>2. \A i \in 1 .. Len(q) : q[i].last => i = Len(q)
        BY <1>1, <1>3, <1>25, <2>1 DEF Synchronous, OneRecord, Greeting
      <4>3. k = Len(q)
        BY <4>1, <4>2
      <4> QED BY <1>3, <1>11, <4>3, EmptySeq
    <3> QED BY <1>3, <3>1, <3>2
  <2>3. Near(e)' = <<>> /\ n = 0
    BY <1>15, <2>1, <2>2, ConcatEmptySeq, EmptySeq
  <2>4. \A f \in Ends : unread'[f] = 0 \/ ssl'[f].fatal \/ ssl'[f].seen
    BY <1>2, <1>3, <1>18, <1>25, <2>3
  <2>5. OneEnd(Near(e)') /\ OneEnd(Near(p)')
    <3>1. OneEnd(<<>>)
      BY EmptySeq DEF OneEnd
    <3>2. OneEnd(Take(Answer(e), BioCap))
      BY <1>4, <1>13, <1>20, OneEndTake
    <3> QED BY <1>15, <2>3, <3>1, <3>2
  <2>6. OneRecord'
    BY <1>2, <2>4, <2>5 DEF OneRecord, OneEnd
  <2>7. Stage(Client)' = "done" =>
                    \/ e = Client /\ wire'[Client] # <<>> /\ Stage(Server)' = "wait"
                    \/ e = Server /\ Phase' = <<"done", "done">> /\ wire'[Server] # <<>>
    BY <1>15, <1>20 DEF Turned
  <2> QED BY <1>15, <2>1, <2>6, <2>7
<1> QED BY <1>15, <1>16, <1>17, <1>20, <1>22, <1>24, <1>25 DEF Outcome

(* Where the others are while do_connect writes. *)
Waits(e) ==
    /\ stack' \in Seq(Frames)
    /\ \A f \in Ends : told[f] = 0 =>
          \A i \in DOMAIN stack' : stack'[i].end = f => stack'[i].at \in {"idle", "announce"} /\ stack'[i].outbox = <<>>
    /\ \A f \in Ends : (\E i \in DOMAIN stack : stack[i].end = f /\ stack[i].at = "announce")
          => \E i \in DOMAIN stack' : stack'[i].end = f /\ stack'[i].at = "announce"
    /\ told[Client] = 0 => \A i \in DOMAIN stack' : stack'[i].outbox = <<>>
    /\ transport = "queued" => stack' = <<>>
    /\ transport = "synchronous" =>
          /\ \A i \in DOMAIN stack' : Short(stack'[i].outbox)
          /\ at[Peer(e)] \in Pauses
          /\ IF stack' = <<>> THEN e = Client /\ at[Peer(e)] = "idle"
             ELSE Head(stack').end = e /\ stack'[Len(stack')].at = "idle"

(* do_connect, whatever it found, is followed by the announcement.         *)
LEMMA ConnectStep ==
  ASSUME IInv, NEW e \in Ends, Greeting(e), Outcome(e), Waits(e), up' = TRUE, dropped' = 0,
         at' = [at EXCEPT ![e] = "announce"], tail' = [tail EXCEPT ![e] = FALSE], UNCHANGED <<appVars, Configuration>>
  PROVE  IInv'
<1> DEFINE p == Peer(e)
<1>1. UNCHANGED <<arg, outbox, wrote, received, told, ended, app, transport>>
  BY DEF appVars, Configuration
<1>2. /\ Types /\ Handshake /\ Streams /\ Closing /\ Consumed
      /\ Given /\ Ending /\ Told /\ Announced /\ Silent
      /\ Queued /\ Synchronous /\ dropped = 0
      /\ transport \in {"queued", "synchronous"}
  BY Invariants
<1>3. /\ p \in Ends /\ p # e /\ Peer(p) = e /\ \A f \in Ends : f = e \/ f = p
      /\ Client \in Ends /\ Server \in Ends /\ Client # Server /\ Peer(Client) = Server /\ Peer(Server) = Client
  BY TwoEnds, SslAssumption
<1>4. at'[e] = "announce" /\ at'[p] = at[p]
      /\ at' \in [Ends -> {"idle", "announce", "on_connected", "read", "on_received", "check",
                       "report", "on_disconnected", "app"}]
      /\ tail' \in [Ends -> BOOLEAN]
  BY <1>2, <1>3 DEF Types, TypeOK
<1>5. PICK stage \in Stages, n \in Nat : Became(e, stage, n)
  BY DEF Outcome
<1>6. /\ ssl' \in [Ends -> [stage : Stages, sent : BOOLEAN, seen : BOOLEAN, fatal : BOOLEAN]]
      /\ status' \in [Ends -> {"closed", "connecting", "connected", "peer_closing", "closing"}]
      /\ unread' \in [Ends -> Nat] /\ unread'[p] = unread[p]
      /\ Stage(e)' = stage /\ ssl'[p] = ssl[p] /\ Stage(p)' = Stage(p)
      /\ status'[e] = (IF stage = "done" THEN "connected" ELSE "connecting") /\ status'[p] = status[p]
      /\ \A f \in Ends :
            /\ Stage(f)' # "done" => wrote'[f] = <<>> /\ unread'[f] = 0 /\ status'[f] \in {"closed", "connecting"}
            /\ status'[f] = "connecting" => Stage(f)' # "done"
      /\ Closed(p)' = Closed(p) /\ ~Closed(e)'
      /\ Closing'
  BY <1>3, <1>5 DEF Became
<1>7. /\ in' \in [Ends -> Seq(Cells)] /\ wire' \in [Ends -> Seq(Cells)] /\ stuck' \in [Ends -> Seq(Cells)]
      /\ \A f \in Ends : unread'[f] \in 0 .. BioCap /\ unread'[f] <= Len(in'[f])
      /\ Phase' \in Phases /\ Stage(Client)' # "start"
      /\ Streams' /\ Consumed'
      /\ Len(wire'[e]) <= BioCap
      /\ transport = "synchronous" =>
            /\ wire'[p] = <<>> /\ OneRecord'
            /\ Stage(Client)' = "done" =>
                  \/ e = Client /\ wire'[Client] # <<>> /\ Stage(Server)' = "wait"
                  \/ e = Server /\ Phase' = <<"done", "done">> /\ wire'[Server] # <<>>
  BY DEF Outcome
<1>8. told[e] = 0 /\ ended[e] = 0 /\ arg[e] = <<>>
  BY DEF Greeting
<1>9. BioCap' = BioCap
  BY <1>1 DEF BioCap
<1>10. Types'
  <2>1. TypeOK'
    BY <1>1, <1>2, <1>4, <1>6, <1>7, <1>9 DEF Types, TypeOK
  <2>2. stack' \in Seq(Frames)
    BY DEF Waits
  <2> QED BY <1>1, <1>2, <1>6, <1>7, <2>1, <2>2 DEF Types
<1>11. Handshake'
  BY <1>6, <1>7 DEF Handshake
<1>12. Given'
  BY <1>1, <1>2, <1>3, <1>4, <1>8 DEF Given
<1>13. Ending'
  BY <1>1, <1>2, <1>3, <1>4, <1>6, <1>8 DEF Ending
<1>14. Told'
  <2>1. \A f \in Ends : told[f] = 0 =>
          \A i \in DOMAIN stack' : stack'[i].end = f => stack'[i].at \in {"idle", "announce"} /\ stack'[i].outbox = <<>>
    BY DEF Waits
  <2>2. \A f \in Ends : told'[f] > 0 \/ at'[f] = "on_connected" => Stage(f)' = "done"
    BY <1>1, <1>2, <1>3, <1>4, <1>6, <1>8 DEF Told
  <2>3. \A f \in Ends : told'[f] = 0 =>
          /\ received'[f] = <<>> /\ wrote'[f] = <<>> /\ arg'[f] = <<>> /\ outbox'[f] = <<>>
          /\ ended'[f] = 0
          /\ at'[f] \notin {"app", "report", "on_received", "on_disconnected"}
          /\ status'[f] # "closing" /\ ~Closed(f)'
    BY <1>1, <1>2, <1>3, <1>4, <1>6, <1>8 DEF Told
  <2> QED BY <1>1, <2>1, <2>2, <2>3 DEF Told
<1>15. Announced'
  <2>1. \A f \in Ends : (\E i \in DOMAIN stack : stack[i].end = f /\ stack[i].at = "announce")
          => \E i \in DOMAIN stack' : stack'[i].end = f /\ stack'[i].at = "announce"
    BY DEF Waits
  <2> QED BY <1>1, <1>2, <1>3, <1>4, <1>6, <2>1 DEF Announced
<1>16. Silent'
  <2>1. told[Client] = 0 => \A i \in DOMAIN stack' : stack'[i].outbox = <<>>
    BY DEF Waits
  <2> QED BY <1>1, <1>2, <2>1 DEF Silent
<1>17. Queued'
  <2>1. transport = "queued" => stack' = <<>>
    BY DEF Waits
  <2>2. ASSUME transport = "queued"
        PROVE  /\ at'[p] \in {"idle", "check"} => unread'[p] = 0 \/ ssl'[p].fatal \/ ssl'[p].seen
               /\ told'[p] = 0 /\ Stage(p)' = "done" => at'[p] \in {"announce", "on_connected"} /\ status'[p] = "connected"
               /\ told'[p] <= 1 /\ (told'[p] > 0 => at'[p] \notin {"announce", "on_connected"})
               /\ ended'[p] <= 1 /\ (ended'[p] > 0 => at'[p] \notin {"report", "on_disconnected"})
    BY <1>1, <1>2, <1>3, <1>4, <1>6, <2>2 DEF Queued
  <2>3. /\ at'[e] \in {"idle", "check"} => unread'[e] = 0 \/ ssl'[e].fatal \/ ssl'[e].seen
        /\ told'[e] = 0 /\ Stage(e)' = "done" => at'[e] \in {"announce", "on_connected"} /\ status'[e] = "connected"
        /\ told'[e] <= 1 /\ (told'[e] > 0 => at'[e] \notin {"announce", "on_connected"})
        /\ ended'[e] <= 1 /\ (ended'[e] > 0 => at'[e] \notin {"report", "on_disconnected"})
    BY <1>1, <1>4, <1>6, <1>8
  <2> QED BY <1>1, <1>3, <2>1, <2>2, <2>3 DEF Queued
<1>18. ASSUME transport = "synchronous" PROVE Paused' /\ OneRecord' /\ Sizes' /\ ServerFirst'
  <2>0. Paused /\ OneRecord /\ Sizes /\ ServerFirst
    BY <1>2, <1>18 DEF Synchronous
  <2>1. /\ \A i \in DOMAIN stack' : Short(stack'[i].outbox)
        /\ at[p] \in Pauses
        /\ IF stack' = <<>> THEN e = Client /\ at[p] = "idle"
           ELSE Head(stack').end = e /\ stack'[Len(stack')].at = "idle"
    BY <1>18 DEF Waits
  <2>2. Paused'
    <3>1. stack' = <<>> => \E f \in Ends : at'[f] = "idle"
      BY <1>3, <1>4, <2>1
    <3>2. stack' # <<>> => at'[Peer(Head(stack').end)] \in Pauses /\ stack'[Len(stack')].at = "idle"
      BY <1>4, <2>1
    <3>3. ASSUME NEW f \in Ends, wire'[f] # <<>>
          PROVE  /\ at'[f] \in Pauses /\ at'[Peer(f)] \in Pauses /\ wire'[Peer(f)] = <<>>
                 /\ IF stack' = <<>> THEN at'[Peer(f)] = "idle" ELSE Head(stack').end = f
                 /\ Len(wire'[f]) <= BioCap'
      <4>1. f = e
        BY <1>3, <1>7, <1>18, <3>3
      <4> QED BY <1>4, <1>7, <1>9, <1>18, <2>1, <4>1 DEF Pauses
    <3> QED BY <3>1, <3>2, <3>3 DEF Paused
  <2>3. Sizes'
    BY <1>1, <2>0, <2>1 DEF Sizes
  <2>4. ServerFirst'
    <3>1. ASSUME told[Server] = 0
          PROVE  /\ told[Client] = 0 /\ at'[Client] # "on_connected"
                 /\ Stage(Client)' = "done" =>
                       \/ wire'[Client] # <<>> /\ Stage(Server)' = "wait"
                       \/ Ticket'
      <4>1. told[Client] = 0 /\ at'[Client] # "on_connected"
        BY <1>3, <1>4, <2>0, <3>1 DEF ServerFirst
      <4>2. ASSUME e = Server, Phase' = <<"done", "done">>, wire'[Server] # <<>> PROVE Ticket'
        <5>1. status'[Server] = "connected"
          BY <1>6, <4>2 DEF Phase
        <5>2. at'[Server] = "announce" /\ stack' # <<>>
          BY <1>3, <1>4, <2>1, <4>2
        <5> QED BY <4>2, <5>1, <5>2 DEF Ticket
      <4> QED BY <1>7, <1>18, <4>1, <4>2
    <3> QED BY <1>1, <3>1 DEF ServerFirst
  <2> QED BY <1>7, <1>18, <2>2, <2>3, <2>4
<1> QED BY <1>1, <1>2, <1>6, <1>7, <1>10, <1>11, <1>12, <1>13, <1>14, <1>15, <1>16, <1>17, <1>18 DEF IInv, Synchronous

(* on_received and on_connected of the transport, in a stream that is not  *)
(* connected.                                                              *)
LEMMA ReceiveConnectingStep ==
  ASSUME IInv, NEW e \in Ends, ReceiveConnecting(e), UNCHANGED Configuration
  PROVE  IInv'
<1>1. PICK chunk \in Chunks(e) : status[e] \in {"closed", "connecting"} /\ Arrives(e, chunk) /\ DoConnect(e, chunk) /\ up' = up
  BY DEF ReceiveConnecting
<1> DEFINE q == Fed(e, chunk)
           w == Drop(wire[Peer(e)], Len(chunk))
<1>2. Types /\ Handshake /\ Synchronous
  BY Invariants
<1>3. Delivery(e, chunk, w) /\ Suspended(e)
  BY <1>1, Arrival, Suspension
<1>4. Turn(e)
  BY <1>1, <1>3, Turns DEF Delivery
<1>5. /\ Stage(e) # "done" /\ Greeting(e) /\ stuck[e] = <<>> /\ wire[e] = <<>>
      /\ Way(Peer(e)) = <<>> /\ in[Peer(e)] = <<>>
  BY <1>4 DEF Turn
<1>6. /\ q \in Seq(Cells) /\ w \in Seq(Cells)
      /\ Len(in[e]) \in Nat /\ Len(q) \in Nat /\ Len(in[e]) <= Len(q)
      /\ unread[e] + Len(q) - Len(in[e]) \in 0 .. BioCap
      /\ \A i \in 1 .. Len(in[e]) : q[i] = in[e][i]
      /\ q \o w = Near(e) /\ Len(in[e]) < Len(q) /\ dropped' = 0
      /\ transport = "synchronous" =>
            /\ w = <<>> /\ at[Peer(e)] \in Pauses
            /\ \A f \in Ends : unread[f] = 0 \/ ssl[f].fatal \/ ssl[f].seen
  <2>1. ~ssl[e].fatal
    BY <1>5 DEF Greeting
  <2> HIDE DEF q, w
  <2>2. Delivery(e, chunk, w) /\ q = Fed(e, chunk)
    BY <1>3 DEF q
  <2> QED BY <2>1, <2>2 DEF Delivery
<1>7. /\ Advances(e, q) =>
            /\ Speaks(e, Drop(q, FirstEnd(q)), Answer(e), w)
            /\ Becomes(e, Onward(e), IF Onward(e) = "done" THEN Len(in'[e]) ELSE 0)
      /\ ~Advances(e, q) => Speaks(e, q, <<>>, w) /\ Becomes(e, Stage(e), 0)
  <2>1. transport' = transport
    BY DEF Configuration
  <2> QED BY <1>1, <1>5, <1>6, <2>1, Connecting
<1> HIDE DEF q, w
<1>8. Begins(e, q, w)
  <2>1. unread[e] = 0 /\ BioCap \in Nat
    BY <1>2, <1>5, Bounds DEF Greeting
  <2>2. Len(q) - Len(in[e]) <= BioCap
    BY <1>6, <2>1
  <2> QED BY <1>4, <1>5, <1>6, <2>2 DEF Begins
<1>9. Outcome(e)
  BY <1>7, <1>8, Advancing, Waiting
<1>10. Waits(e)
  <2>1. transport \in {"queued", "synchronous"}
    BY Invariants
  <2> QED BY <1>3, <1>6, <2>1 DEF Suspended, Waits
<1>11. up' = TRUE
  <2>1. Stage(Client) # "start"
    BY <1>4 DEF Turn, Phase
  <2> QED BY <1>1, <1>2, <2>1 DEF Handshake, Types, TypeOK
<1>12. at' = [at EXCEPT ![e] = "announce"] /\ tail' = [tail EXCEPT ![e] = FALSE] /\ UNCHANGED <<appVars, Configuration>>
  BY <1>1 DEF DoConnect
<1> QED BY <1>5, <1>6, <1>9, <1>10, <1>11, <1>12, ConnectStep

LEMMA TransportConnectedStep ==
  ASSUME IInv, Quiet, TransportConnected, UNCHANGED <<stack, Configuration>>
  PROVE  IInv'
<1> DEFINE e == Client
           q == Fed(e, <<>>)
           w == Drop(wire[Peer(e)], Len(<<>>))
<1>1. ~up /\ up' = TRUE /\ DoConnect(e, <<>>) /\ dropped' = dropped
  BY DEF TransportConnected
<1>2. Types /\ Handshake /\ dropped = 0 /\ transport \in {"queued", "synchronous"}
  BY Invariants
<1>3. e \in Ends /\ Peer(e) \in Ends /\ Peer(Peer(e)) = e
  BY TwoEnds DEF Ends
<1>4. /\ Phase = <<"start", "start">> /\ Greeting(e) /\ Stage(e) = "start" /\ Way(Peer(e)) = <<>>
      /\ \A f \in Ends : in[f] = <<>> /\ wire[f] = <<>> /\ stuck[f] = <<>>
  BY <1>1, <1>3, Silence
<1>5. stack = <<>> /\ \A f \in Ends : at[f] = "idle"
  BY <1>1 DEF Quiet
<1>6. q = <<>> /\ w = <<>>
  <2>1. BioCap \in Nat /\ unread[e] = 0 /\ Len(<<>>) = 0
    BY <1>2, <1>4, Bounds, EmptySeq DEF Greeting
  <2>2. \A z \in Seq(Cells), j \in Nat : j >= Len(z) => Take(z, j) = z /\ Drop(z, j) = <<>>
    BY Cut
  <2>3. <<>> \in Seq(Cells) /\ BioCap - unread[e] \in Nat /\ BioCap - unread[e] >= Len(<<>>) /\ 0 \in Nat /\ 0 >= Len(<<>>)
    BY <2>1
  <2>4. Take(<<>>, BioCap - unread[e]) = <<>> /\ Drop(<<>>, 0) = <<>>
    BY <2>2, <2>3
  <2>5. in[e] = <<>> /\ wire[Peer(e)] = <<>>
    BY <1>3, <1>4
  <2> QED BY <2>1, <2>4, <2>5, ConcatEmptySeq, <2>3 DEF Fed
<1>7. q \in Seq(Cells) /\ w \in Seq(Cells) /\ Len(q) = 0
  BY <1>6, EmptySeq
<1>8. /\ Advances(e, q) =>
            /\ Speaks(e, Drop(q, FirstEnd(q)), Answer(e), w)
            /\ Becomes(e, Onward(e), IF Onward(e) = "done" THEN Len(in'[e]) ELSE 0)
      /\ ~Advances(e, q) => Speaks(e, q, <<>>, w) /\ Becomes(e, Stage(e), 0)
  <2>1. transport' = transport /\ Stage(e) # "done" /\ stuck[e] = <<>> /\ wire[e] = <<>>
    BY <1>3, <1>4 DEF Configuration
  <2> QED BY <1>1, <1>3, <1>7, <2>1, Connecting
<1>9. Advances(e, q)
  BY <1>4 DEF Advances
<1> HIDE DEF q, w
<1>10. Begins(e, q, w)
  <2>1. in[e] = <<>> /\ in[Peer(e)] = <<>> /\ wire[e] = <<>> /\ wire[Peer(e)] = <<>> /\ stuck[e] = <<>>
    BY <1>3, <1>4
  <2>2. Near(e) = <<>> /\ q \o w = <<>>
    BY <1>6, <2>1, ConcatEmptySeq, EmptySeq DEF Near
  <2>3. Len(in[e]) = 0 /\ BioCap \in Nat
    BY <1>2, <2>1, Bounds, EmptySeq
  <2>4. /\ Len(in[e]) \in Nat /\ Len(q) \in Nat /\ Len(in[e]) <= Len(q) /\ Len(q) - Len(in[e]) <= BioCap
        /\ \A i \in 1 .. Len(in[e]) : q[i] = in[e][i]
    BY <1>7, <2>3
  <2>5. unread[e] = 0 /\ unread[Peer(e)] = 0
    BY <1>3, <1>1, Silence DEF Greeting
  <2>6. \A f \in Ends : unread[f] = 0
    BY <1>3, <2>5, TwoEnds
  <2>7. Stage(e) # "done"
    BY <1>4
  <2> QED BY <1>4, <1>6, <1>7, <2>1, <2>2, <2>4, <2>6, <2>7 DEF Begins
<1>11. Outcome(e)
  BY <1>3, <1>8, <1>9, <1>10, Advancing
<1>12. Waits(e)
  <2>1. stack' = <<>> /\ stack' \in Seq(Frames) /\ DOMAIN stack' = {} /\ DOMAIN stack = {}
    BY <1>5
  <2>2. at[Peer(e)] = "idle"
    BY <1>3, <1>5
  <2> QED BY <2>1, <2>2 DEF Waits, Pauses
<1>13. at' = [at EXCEPT ![e] = "announce"] /\ tail' = [tail EXCEPT ![e] = FALSE] /\ UNCHANGED <<appVars, Configuration>>
  BY <1>1 DEF DoConnect
<1> QED BY <1>1, <1>2, <1>3, <1>4, <1>11, <1>12, <1>13, ConnectStep

-----------------------------------------------------------------------------
(* Receiving behind the handshake *)

(* on_received begins: the other handlers wait, and nothing is on the      *)
(* wires of a synchronous transport.                                       *)
Handed(e, x, w) ==
    /\ wire' \in [Ends -> Seq(Cells)] /\ wire'[Peer(e)] = w /\ wire'[e] = wire[e]
    /\ stack' \in Seq(Frames)
    /\ at' \in [Ends -> {"idle", "announce", "on_connected", "read", "on_received", "check",
                       "report", "on_disconnected", "app"}]
    /\ tail' \in [Ends -> BOOLEAN]
    /\ at'[e] = x /\ at'[Peer(e)] = at[Peer(e)]
    /\ Given' /\ Silent'
    /\ transport = "synchronous" =>
          /\ Paused' /\ Sizes' /\ Delivered' /\ stack' # <<>> /\ Head(stack').end = e
          /\ unread[Peer(e)] = 0 \/ ssl[Peer(e)].fatal \/ ssl[Peer(e)].seen

(* What on_received leaves to the loop that reads.                         *)
LEMMA Handing ==
  ASSUME IInv, NEW e \in Ends, NEW chunk, NEW w, Delivery(e, chunk, w), Suspended(e),
         NEW x \in {"read", "report"}, at' = [at EXCEPT ![e] = x],
         NEW t \in BOOLEAN, tail' = [tail EXCEPT ![e] = t],
         Moved(e, chunk, <<>>), UNCHANGED <<appVars, Configuration>>
  PROVE  Handed(e, x, w)
<1> DEFINE p == Peer(e)
<1>1. UNCHANGED <<arg, outbox, wrote, received, told, ended, app, transport>>
  BY DEF appVars, Configuration
<1>2. Types /\ Given /\ Silent /\ Synchronous
  BY Invariants
<1>3. /\ p \in Ends /\ p # e /\ Peer(p) = e /\ \A f \in Ends : f = e \/ f = p
  BY TwoEnds
<1>4. at'[e] = x /\ at'[p] = at[p]
      /\ at' \in [Ends -> {"idle", "announce", "on_connected", "read", "on_received", "check",
                       "report", "on_disconnected", "app"}]
      /\ tail' \in [Ends -> BOOLEAN]
  BY <1>2, <1>3 DEF Types, TypeOK
<1>5. /\ w = Drop(wire[p], Len(chunk)) /\ w \in Seq(Cells) /\ arg[e] = <<>>
      /\ transport = "synchronous" =>
            /\ wire[e] = <<>> /\ w = <<>> /\ at[p] \in Pauses
            /\ \A f \in Ends : unread[f] = 0 \/ ssl[f].fatal \/ ssl[f].seen
  BY DEF Delivery
<1>6. wire' \in [Ends -> Seq(Cells)] /\ wire'[p] = w /\ wire'[e] = wire[e]
  <2>1. wire \in [Ends -> Seq(Cells)] /\ wire[e] \o <<>> = wire[e]
    BY <1>2, ConcatEmptySeq DEF Types
  <2>2. wire' = [wire EXCEPT ![p] = w, ![e] = wire[e]]
    BY <1>3, <1>5, <2>1 DEF Moved
  <2> QED BY <1>3, <1>5, <2>1, <2>2
<1>7. Given'
  BY <1>1, <1>2, <1>3, <1>4, <1>5 DEF Given
<1>8. Silent'
  <2>1. told[Client] = 0 => \A i \in DOMAIN stack' : stack'[i].outbox = <<>>
    BY DEF Suspended
  <2> QED BY <1>1, <1>2, <2>1 DEF Silent
<1>9. ASSUME transport = "synchronous"
      PROVE  Paused' /\ Sizes' /\ Delivered' /\ stack' # <<>> /\ Head(stack').end = e
             /\ (unread[p] = 0 \/ ssl[p].fatal \/ ssl[p].seen)
  <2>1. /\ \A i \in DOMAIN stack' : Short(stack'[i].outbox)
        /\ stack' # <<>> /\ Head(stack').end = e /\ stack'[Len(stack')].at = "idle"
    BY <1>9 DEF Suspended
  <2>2. \A f \in Ends : wire'[f] = <<>>
    BY <1>3, <1>5, <1>6, <1>9
  <2>3. Paused'
    BY <1>3, <1>4, <1>5, <1>9, <2>1, <2>2 DEF Paused
  <2>4. Sizes'
    BY <1>1, <1>2, <1>9, <2>1 DEF Synchronous, Sizes
  <2>5. Delivered'
    BY <2>2 DEF Delivered
  <2> QED BY <1>3, <1>5, <1>9, <2>1, <2>3, <2>4, <2>5
<1>10. stack' \in Seq(Frames)
  BY DEF Suspended
<1> QED BY <1>4, <1>6, <1>7, <1>8, <1>9, <1>10 DEF Handed

(* The bytes are still the same, and OpenSSL has looked at the same ones.  *)
Filled(e, q, w, n) ==
    /\ in' = [in EXCEPT ![e] = q] /\ in' \in [Ends -> Seq(Cells)] /\ in'[Peer(e)] = in[Peer(e)]
    /\ unread' \in [Ends -> Nat] /\ unread'[e] = n /\ unread'[Peer(e)] = unread[Peer(e)]
    /\ \A f \in Ends : unread'[f] \in 0 .. BioCap /\ unread'[f] <= Len(in'[f])
    /\ Consumed'
    /\ Near(e)' = q \o w /\ Near(Peer(e))' = Near(Peer(e)) /\ Way(Peer(e))' = Way(Peer(e))
    /\ q \o w = Near(e) => Way(e)' = Way(e)

(* A BIO that is filled or read changes nothing on the way to the other    *)
(* end.                                                                    *)
LEMMA Filling ==
  ASSUME IInv, NEW e \in Ends, NEW q \in Seq(Cells), NEW w \in Seq(Cells), NEW n \in 0 .. BioCap, n <= Len(q),
         \A i \in 1 .. Len(q) - n : ~q[i].last,
         in' = [in EXCEPT ![e] = q], unread' = [unread EXCEPT ![e] = n], stuck' = stuck,
         wire' \in [Ends -> Seq(Cells)], wire'[Peer(e)] = w, wire'[e] = wire[e]
  PROVE  Filled(e, q, w, n)
<1> DEFINE p == Peer(e)
<1>1. Types /\ Consumed
  BY Invariants
<1>2. p \in Ends /\ p # e /\ Peer(p) = e /\ \A f \in Ends : f = e \/ f = p
  BY TwoEnds
<1>3. BioCap \in Nat
  BY <1>1, Bounds
<1>4. in' \in [Ends -> Seq(Cells)] /\ in'[e] = q /\ in'[p] = in[p]
  BY <1>1, <1>2 DEF Types
<1>5. unread' \in [Ends -> Nat] /\ unread'[e] = n /\ unread'[p] = unread[p]
  <2>1. n \in Nat
    BY <1>3
  <2> QED BY <1>1, <1>2, <2>1 DEF Types
<1>6. \A f \in Ends : unread'[f] \in 0 .. BioCap /\ unread'[f] <= Len(in'[f])
  <2>1. unread[p] \in 0 .. BioCap /\ unread[p] <= Len(in[p])
    BY <1>1, <1>2 DEF Types, TypeOK
  <2> QED BY <1>2, <1>4, <1>5, <2>1
<1>7. Consumed'
  <2>1. \A i \in 1 .. Len(in[p]) - unread[p] : ~in[p][i].last
    BY <1>1, <1>2 DEF Consumed
  <2> QED BY <1>2, <1>4, <1>5, <2>1 DEF Consumed
<1>8. Near(e)' = q \o w /\ Near(p)' = Near(p) /\ Way(p)' = Way(p)
  BY <1>2, <1>4 DEF Near, Way
<1>9. q \o w = Near(e) => Way(e)' = Way(e)
  BY <1>8 DEF Way
<1> QED BY <1>4, <1>5, <1>6, <1>7, <1>8, <1>9 DEF Filled

(* What OpenSSL has not seen yet counts. *)
LEMMA NotLooked ==
  ASSUME IInv, NEW e \in Ends, NEW chunk, NEW w, Delivery(e, chunk, w)
  PROVE  LET q == Fed(e, chunk)
             n == unread[e] + Len(q) - Len(in[e])
         IN  n \in 0 .. BioCap /\ n <= Len(q) /\ \A i \in 1 .. Len(q) - n : ~q[i].last
<1> DEFINE q == Fed(e, chunk)
           n == unread[e] + Len(q) - Len(in[e])
<1>1. /\ Len(in[e]) \in Nat /\ Len(q) \in Nat /\ Len(in[e]) <= Len(q)
      /\ unread[e] \in Nat /\ unread[e] <= Len(in[e])
      /\ n \in 0 .. BioCap
      /\ \A i \in 1 .. Len(in[e]) : q[i] = in[e][i]
  BY DEF Delivery
<1>2. \A i \in 1 .. Len(in[e]) - unread[e] : ~in[e][i].last
  BY Invariants DEF Consumed
<1> HIDE DEF q
<1>3. n <= Len(q) /\ Len(q) - n = Len(in[e]) - unread[e]
  BY <1>1
<1>4. \A i \in 1 .. Len(in[e]) - unread[e] : i \in 1 .. Len(in[e])
  BY <1>1
<1>5. \A i \in 1 .. Len(q) - n : ~q[i].last
  BY <1>1, <1>2, <1>3, <1>4
<1> QED BY <1>1, <1>3, <1>5 DEF q

(* on_received of a connected stream.                                      *)
LEMMA ReceiveConnectedStep ==
  ASSUME IInv, NEW e \in Ends, ReceiveConnected(e), UNCHANGED Configuration
  PROVE  IInv'
<1>1. PICK chunk \in Chunks(e) :
         /\ status[e] = "connected"
         /\ Arrives(e, chunk)
         /\ in' = [in EXCEPT ![e] = Fed(e, chunk)]
         /\ unread' = [unread EXCEPT ![e] = @ + Len(Fed(e, chunk)) - Len(in[e])]
         /\ Moved(e, chunk, <<>>)
         /\ at' = [at EXCEPT ![e] = "read"]
         /\ tail' = [tail EXCEPT ![e] = TRUE]
         /\ UNCHANGED <<status, ssl, stuck, up, appVars>>
  BY DEF ReceiveConnected
<1> DEFINE p == Peer(e)
           q == Fed(e, chunk)
           w == Drop(wire[p], Len(chunk))
           n == unread[e] + Len(q) - Len(in[e])
<1>2. /\ Types /\ Handshake /\ Streams /\ Closing /\ Consumed
      /\ Given /\ Ending /\ Told /\ Announced /\ Silent
      /\ Queued /\ Synchronous /\ dropped = 0
      /\ transport \in {"queued", "synchronous"}
  BY Invariants
<1>3. /\ p \in Ends /\ p # e /\ Peer(p) = e /\ \A f \in Ends : f = e \/ f = p
      /\ Client \in Ends /\ Server \in Ends /\ Client # Server /\ Peer(Client) = Server /\ Peer(Server) = Client
      /\ (e = Client \/ e = Server)
  BY TwoEnds, SslAssumption
<1>4. UNCHANGED <<status, ssl, stuck, up, arg, outbox, wrote, received, told, ended, app, transport>>
  BY <1>1 DEF appVars, Configuration
<1>5. Delivery(e, chunk, w) /\ Suspended(e)
  BY <1>1, Arrival, Suspension
<1>6. Handed(e, "read", w)
  BY <1>1, <1>5, Handing
<1>7. n \in 0 .. BioCap /\ n <= Len(q) /\ \A i \in 1 .. Len(q) - n : ~q[i].last
  BY <1>5, NotLooked
<1>8. /\ q \in Seq(Cells) /\ w \in Seq(Cells) /\ wire[p] # <<>> /\ at[e] \in Pauses /\ dropped' = 0
      /\ (~ssl[e].fatal => q \o w = Near(e))
      /\ (transport = "synchronous" => wire[e] = <<>>)
  BY <1>5 DEF Delivery
<1>9. /\ wire' \in [Ends -> Seq(Cells)] /\ wire'[p] = w /\ wire'[e] = wire[e]
      /\ stack' \in Seq(Frames)
      /\ at' \in [Ends -> {"idle", "announce", "on_connected", "read", "on_received", "check",
                         "report", "on_disconnected", "app"}]
      /\ tail' \in [Ends -> BOOLEAN]
      /\ at'[e] = "read" /\ at'[p] = at[p]
      /\ Given' /\ Silent'
      /\ transport = "synchronous" =>
            /\ Paused' /\ Sizes' /\ Delivered' /\ stack' # <<>> /\ Head(stack').end = e
            /\ unread[p] = 0 \/ ssl[p].fatal \/ ssl[p].seen
  BY <1>6 DEF Handed
<1> HIDE DEF q, w
<1>10. Filled(e, q, w, n)
  <2>1. in' = [in EXCEPT ![e] = q] /\ unread' = [unread EXCEPT ![e] = n]
    BY <1>1 DEF q
  <2> HIDE DEF n
  <2> QED BY <1>4, <1>7, <1>8, <1>9, <2>1, Filling
<1>11. /\ in' \in [Ends -> Seq(Cells)] /\ in'[p] = in[p]
       /\ unread' \in [Ends -> Nat] /\ unread'[e] = n /\ unread'[p] = unread[p]
       /\ \A f \in Ends : unread'[f] \in 0 .. BioCap /\ unread'[f] <= Len(in'[f])
       /\ Consumed'
       /\ Near(e)' = q \o w /\ Near(p)' = Near(p) /\ Way(p)' = Way(p)
       /\ (q \o w = Near(e) => Way(e)' = Way(e))
  BY <1>10 DEF Filled
<1> HIDE DEF n
<1>12. ~ssl[e].fatal /\ Stage(e) = "done"
  BY <1>1, <1>2 DEF Streams, Broken, Handshake
<1>13. Near(e)' = Near(e) /\ \A f \in Ends : Way(f)' = Way(f)
  BY <1>3, <1>8, <1>11, <1>12
<1>14. Phase' = Phase /\ \A f \in Ends : Stage(f)' = Stage(f) /\ Closed(f)' = Closed(f)
  BY <1>4 DEF Phase, Stage, Closed
<1>20. Types'
  <2>1. BioCap' = BioCap
    BY <1>4 DEF BioCap
  <2>2. TypeOK'
    BY <1>2, <1>4, <1>9, <1>11, <2>1 DEF Types, TypeOK
  <2> QED BY <1>2, <1>4, <1>8, <1>9, <1>11, <2>2 DEF Types
<1>21. Handshake'
  BY <1>2, <1>3, <1>4, <1>11, <1>12, <1>14 DEF Handshake
<1>22. Streams'
  <2>1. ASSUME NEW f \in Ends PROVE IF ssl'[f].fatal THEN Broken(f)' ELSE Stream(f)'
    BY <1>2, <1>4, <1>13, <1>14, StreamKept
  <2> QED BY <2>1 DEF Streams
<1>23. Closing'
  BY <1>2, <1>4, <1>13, <1>14 DEF Closing
<1>24. Ending'
  BY <1>2, <1>3, <1>4, <1>9, <1>14 DEF Ending
<1>25. Told'
  <2>1. \A f \in Ends : told[f] = 0 =>
          \A i \in DOMAIN stack' : stack'[i].end = f => stack'[i].at \in {"idle", "announce"} /\ stack'[i].outbox = <<>>
    BY <1>5 DEF Suspended
  <2>2. \A f \in Ends : at'[f] = "read" \/ at'[f] = at[f]
    BY <1>3, <1>9
  <2> QED BY <1>2, <1>4, <1>14, <2>1, <2>2 DEF Told
<1>26. Announced'
  <2>1. \A f \in Ends : (\E i \in DOMAIN stack : stack[i].end = f /\ stack[i].at = "announce")
          => \E i \in DOMAIN stack' : stack'[i].end = f /\ stack'[i].at = "announce"
    BY <1>5 DEF Suspended
  <2>2. at[e] = "announce" => \E i \in DOMAIN stack' : stack'[i].end = e /\ stack'[i].at = "announce"
    BY <1>5 DEF Suspended
  <2>3. at[e] # "on_connected"
    BY <1>8 DEF Pauses
  <2> QED BY <1>2, <1>3, <1>4, <1>9, <2>1, <2>2, <2>3 DEF Announced
<1>27. Queued'
  <2>1. ASSUME transport = "queued" PROVE stack' = <<>> /\ told[e] # 0
    <3>1. stack' = <<>> /\ at[e] = "idle"
      BY <1>5, <2>1 DEF Suspended
    <3> QED BY <1>2, <1>12, <2>1, <3>1 DEF Queued
  <2>2. ASSUME transport = "queued"
        PROVE  \A f \in Ends : at'[f] \in {"idle", "check"} => unread'[f] = 0 \/ ssl'[f].fatal \/ ssl'[f].seen
    BY <1>2, <1>3, <1>4, <1>9, <1>11, <2>2 DEF Queued
  <2>3. ASSUME transport = "queued"
        PROVE  \A f \in Ends :
                 /\ told'[f] = 0 /\ Stage(f)' = "done" => at'[f] \in {"announce", "on_connected"} /\ status'[f] = "connected"
                 /\ told'[f] <= 1 /\ (told'[f] > 0 => at'[f] \notin {"announce", "on_connected"})
                 /\ ended'[f] <= 1 /\ (ended'[f] > 0 => at'[f] \notin {"report", "on_disconnected"})
    BY <1>2, <1>3, <1>4, <1>9, <1>14, <2>1, <2>3 DEF Queued
  <2> QED BY <1>4, <2>1, <2>2, <2>3 DEF Queued
<1>28. ASSUME transport = "synchronous" PROVE OneRecord' /\ ServerFirst'
  <2>0. OneRecord /\ ServerFirst
    BY <1>2, <1>28 DEF Synchronous
  <2>1. /\ Delivered' /\ stack' # <<>> /\ Head(stack').end = e
        /\ unread[p] = 0 \/ ssl[p].fatal \/ ssl[p].seen
    BY <1>9, <1>28
  <2>2. OneRecord'
    <3>1. \A f \in Ends : Near(f)' = Near(f)
      BY <1>3, <1>11, <1>13
    <3>2. \A f \in Ends : \/ unread'[f] = 0 \/ ssl'[f].fatal \/ ssl'[f].seen
                          \/ stack' # <<>> /\ Head(stack').end = f /\ Delivered' /\ at'[f] \in {"read", "report"}
      BY <1>3, <1>4, <1>9, <1>11, <2>1
    <3> QED BY <1>4, <2>0, <3>1, <3>2 DEF OneRecord
  <2>3. ServerFirst'
    <3>1. CASE told[Server] = 0 /\ Stage(Client) = "done"
      <4>1. ~Delivered
        BY <1>3, <1>8 DEF Delivered
      <4>2. \/ wire[Client] # <<>> /\ Stage(Server) = "wait"
            \/ Ticket /\ wire[Server] # <<>>
        BY <2>0, <3>1, <4>1 DEF ServerFirst, Ticket
      <4>3. Ticket /\ e = Client
        BY <1>3, <1>8, <1>12, <1>28, <4>2
      <4>4. stack # <<>> => Len(stack') > 1 /\ stack'[2].end = p
        BY <1>5, <1>28 DEF Suspended
      <4>5. Ticket'
        BY <1>3, <1>4, <1>9, <1>14, <2>1, <4>3, <4>4 DEF Ticket
      <4> QED BY <1>4, <1>9, <2>0, <3>1, <4>3, <4>5 DEF ServerFirst
    <3>2. CASE told[Server] # 0
      BY <1>4, <3>2 DEF ServerFirst
    <3>3. CASE told[Server] = 0 /\ Stage(Client) # "done"
      BY <1>3, <1>4, <1>9, <1>14, <2>0, <3>3 DEF ServerFirst
    <3> QED BY <3>1, <3>2, <3>3
  <2> QED BY <2>2, <2>3
<1> QED BY <1>2, <1>4, <1>8, <1>9, <1>11, <1>20, <1>21, <1>22, <1>23, <1>24, <1>25, <1>26, <1>27, <1>28 DEF IInv, Synchronous

-----------------------------------------------------------------------------
(* The shutdown *)

(* SSL_shutdown looks past the ticket. *)
LEMMA Skipping ==
  ASSUME NEW x \in Seq(Cells), NEW y \in Seq(Cells), NEW h \in Nat, NEW d \in Seq(Nat), NEW c \in {0, 1},
         Shape(x \o y, h, d, c), NEW q, q = SkipTicket(x), NEW k, k = FirstEnd(q)
  PROVE  /\ q \in Seq(Cells) /\ Len(q) <= Len(x)
         /\ \A i \in 1 .. Len(q) : i + (Len(x) - Len(q)) \in 1 .. Len(x) /\ q[i] = x[i + (Len(x) - Len(q))]
         /\ \E g \in {0, h} : Shape(q \o y, g, d, c)
         /\ k > 0 => \/ q[k].type = "app" /\ d # <<>>
                     \/ q[k].type = "close" /\ d = <<>> /\ c = 1 /\ k = 1 /\ Len(q \o y) = 1
<1> DEFINE j == FirstEnd(x)
<1>1. Len(x) \in Nat /\ j \in Nat /\ j <= Len(x)
  BY LenProperties, FirstRecord
<1>2. CASE j > 0 /\ x[j].type = "hs"
  <2>1. q = Drop(x, j)
    BY <1>2 DEF SkipTicket
  <2>2. /\ q \in Seq(Cells) /\ Len(q) = Len(x) - j
        /\ \A i \in 1 .. Len(q) : i + j \in 1 .. Len(x) /\ q[i] = x[i + j]
    <3>1. /\ Drop(x, j) \in Seq(Cells) /\ Len(Drop(x, j)) = Len(x) - Least(j, Len(x))
          /\ \A i \in 1 .. Len(Drop(x, j)) : i + j \in 1 .. Len(x) /\ Drop(x, j)[i] = x[i + j]
      BY <1>1, Cut
    <3> QED BY <1>1, <2>1, <3>1 DEF Least
  <2>3. h = j
    BY <1>2, ShapeFirst
  <2>4. Shape(q \o y, 0, d, c)
    <3>1. x \o y \in Seq(Cells)
      BY Lengths
    <3>2. Shape(Drop(x \o y, j), 0, d, c)
      BY <2>3, <3>1, ShapeRest
    <3>3. j \in 0 .. Len(x)
      BY <1>1
    <3>4. Drop(x, j) \o y = Drop(x \o y, j)
      BY <3>3, DropFront
    <3> QED BY <2>1, <3>2, <3>4
  <2>5. Len(x) - Len(q) = j /\ Len(q) <= Len(x)
    BY <1>1, <2>2
  <2> HIDE DEF j
  <2>6. FirstEnd(q) > 0 => \/ q[FirstEnd(q)].type = "app" /\ d # <<>>
                           \/ q[FirstEnd(q)].type = "close" /\ d = <<>> /\ c = 1 /\ FirstEnd(q) = 1 /\ Len(q \o y) = 1
    <3> SUFFICES ASSUME FirstEnd(q) > 0
                 PROVE  \/ q[FirstEnd(q)].type = "app" /\ d # <<>>
                        \/ q[FirstEnd(q)].type = "close" /\ d = <<>> /\ c = 1 /\ FirstEnd(q) = 1 /\ Len(q \o y) = 1
      OBVIOUS
    <3>1. /\ k \in 1 .. Len(q) /\ q[k].type \in {"hs", "app", "close"}
          /\ q[k].type = "hs" => 0 = k
          /\ q[k].type = "app" => k <= Len(d)
          /\ q[k].type = "close" => d = <<>> /\ c = 1 /\ k = 1 /\ Len(q \o y) = 1
      BY <2>2, <2>4, ShapeFirst
    <3>2. k <= Len(d) => d # <<>>
      BY <3>1, EmptySeq
    <3> QED BY <3>1, <3>2
  <2> QED BY <2>2, <2>4, <2>5, <2>6
<1>3. CASE ~(j > 0 /\ x[j].type = "hs")
  <2>1. q = x
    BY <1>3 DEF SkipTicket
  <2>2. Len(x) - Len(x) = 0 /\ \A i \in 1 .. Len(x) : i + 0 = i
    BY <1>1
  <2>3. j > 0 => \/ x[j].type = "app" /\ d # <<>>
                 \/ x[j].type = "close" /\ d = <<>> /\ c = 1 /\ j = 1 /\ Len(x \o y) = 1
    <3> SUFFICES ASSUME j > 0
                 PROVE  \/ x[j].type = "app" /\ d # <<>>
                        \/ x[j].type = "close" /\ d = <<>> /\ c = 1 /\ j = 1 /\ Len(x \o y) = 1
      OBVIOUS
    <3>a. FirstEnd(x) > 0
      OBVIOUS
    <3> HIDE DEF j
    <3>1. /\ x[j].type \in {"hs", "app", "close"}
          /\ x[j].type = "app" => j <= Len(d)
          /\ x[j].type = "close" => d = <<>> /\ c = 1 /\ j = 1 /\ Len(x \o y) = 1
      BY <3>a, ShapeFirst DEF j
    <3>2. j <= Len(d) => d # <<>>
      BY <1>1, EmptySeq
    <3> QED BY <1>3, <3>1, <3>2
  <2> QED BY <1>1, <2>1, <2>2, <2>3
<1> QED BY <1>2, <1>3

(* What would be right to find on the way to e. *)
Fits(e, u, h, d, c, r) ==
    /\ Shape(u, h, d, c) /\ h \in Hellos(e)
    /\ (received[e] \o arg[e]) \o (d \o r) = wrote[Peer(e)]
    /\ stuck[Peer(e)] = <<>> => r = <<>>
    /\ c = 1 => ssl[Peer(e)].sent /\ stuck[Peer(e)] = <<>>
    /\ transport = "synchronous" => Len(d) <= RecordMax

(* SSL_shutdown leaves q of what it was given, n bytes of it in the BIO.   *)
Proper(e, q, w, n, fatal, seen) ==
    /\ q \in Seq(Cells) /\ n \in 0 .. BioCap /\ n <= Len(q)
    /\ \A i \in 1 .. Len(q) - n : ~q[i].last
    /\ fatal => ~seen /\ \E r \in Seq(Nat) : received[e] \o r = wrote[Peer(e)]
    /\ fatal => Phase = <<"done", "done">>
    /\ ~fatal => \E h \in Nat, d \in Seq(Nat), c \in {0, 1}, r \in Seq(Nat) : Fits(e, (q \o w) \o stuck[Peer(e)], h, d, c, r)
    /\ seen => (q \o w) \o stuck[Peer(e)] = <<>> /\ ssl[Peer(e)].sent
    /\ transport = "synchronous" /\ ~fatal /\ ~seen => OneEnd(q \o w)

Looked(e, q, n, fatal, seen) ==
    /\ in' = [in EXCEPT ![e] = q]
    /\ unread' = [unread EXCEPT ![e] = n]
    /\ ssl' = [ssl EXCEPT ![e].seen = seen, ![e].fatal = fatal]
    /\ status' = [status EXCEPT ![e] = IF seen THEN "closed" ELSE "closing"]
    /\ UNCHANGED <<stuck, up>>

(* A stream that is closing has been connected, and has not been answered. *)
LEMMA WhileClosing ==
  ASSUME IInv, NEW e \in Ends, status[e] = "closing"
  PROVE  /\ Stage(e) = "done" /\ ssl[e].sent /\ told[e] # 0 /\ ended[e] = 0
         /\ at[e] # "on_disconnected" /\ ssl[e].fatal \in BOOLEAN /\ ssl[e].seen \in BOOLEAN
<1>1. Types /\ Handshake /\ Closing /\ Ending /\ Told
  BY Invariants
<1>2. Stage(e) = "done"
  BY <1>1 DEF Handshake
<1>3. ~Closed(e) /\ ssl[e].sent
  BY <1>1 DEF Closed, Closing
<1>4. ended[e] \in Nat /\ told[e] \in Nat
  BY <1>1 DEF Types, TypeOK
<1>5. ended[e] = 0 /\ at[e] # "on_disconnected"
  BY <1>1, <1>3, <1>4 DEF Ending
<1>6. told[e] # 0
  BY <1>1 DEF Told
<1>7. ssl[e].fatal \in BOOLEAN /\ ssl[e].seen \in BOOLEAN
  BY <1>1 DEF Types, TypeOK
<1> QED BY <1>2, <1>3, <1>5, <1>6, <1>7

(* OpenSSL does not look. *)
LEMMA ShutBlind ==
  ASSUME IInv, NEW e \in Ends, status[e] = "closing", NEW chunk, NEW w, Delivery(e, chunk, w)
  PROVE  Proper(e, Fed(e, chunk), w, unread[e] + Len(Fed(e, chunk)) - Len(in[e]), ssl[e].fatal, FALSE)
<1> DEFINE q == Fed(e, chunk)
           n == unread[e] + Len(q) - Len(in[e])
           p == Peer(e)
<1>1. Streams /\ Synchronous
  BY Invariants
<1>2. n \in 0 .. BioCap /\ n <= Len(q) /\ \A i \in 1 .. Len(q) - n : ~q[i].last
  BY NotLooked
<1>3. q \in Seq(Cells) /\ ~ssl[e].seen /\ (~ssl[e].fatal => q \o w = Near(e))
  BY DEF Delivery
<1> HIDE DEF q, n
<1>4. ASSUME ssl[e].fatal
      PROVE  Phase = <<"done", "done">> /\ \E r \in Seq(Nat) : received[e] \o r = wrote[Peer(e)]
  BY <1>1, <1>4 DEF Streams, Broken
<1>5. ASSUME ~ssl[e].fatal
      PROVE  \E h \in Nat, d \in Seq(Nat), c \in {0, 1}, r \in Seq(Nat) : Fits(e, (q \o w) \o stuck[Peer(e)], h, d, c, r)
  <2>1. PICK h \in Nat, d \in Seq(Nat), c \in {0, 1}, r \in Seq(Nat) : Holds(e, h, d, c, r)
    BY <1>1, <1>5 DEF Streams, Stream
  <2>2. (q \o w) \o stuck[Peer(e)] = Way(e)
    BY <1>3, <1>5 DEF Way
  <2>3. Fits(e, (q \o w) \o stuck[Peer(e)], h, d, c, r)
    BY <2>1, <2>2 DEF Holds, Fits
  <2> QED BY <2>3
<1>6. ASSUME transport = "synchronous", ~ssl[e].fatal PROVE OneEnd(q \o w)
  BY <1>1, <1>3, <1>6 DEF Synchronous, OneRecord, OneEnd
<1> QED BY <1>2, <1>3, <1>4, <1>5, <1>6 DEF Proper, q, n

(* OpenSSL looks for the close_notify. *)
LEMMA ShutLooks ==
  ASSUME IInv, NEW e \in Ends, status[e] = "closing", NEW chunk, NEW w, Delivery(e, chunk, w), ~ssl[e].fatal
  PROVE  LET q == SkipTicket(Fed(e, chunk))
             k == FirstEnd(q)
         IN  /\ k \in Nat
             /\ k > 0 => q[k].type \in {"app", "close"}
             /\ k = 0 => Proper(e, Drop(q, k), w, 0, FALSE, FALSE)
             /\ k > 0 /\ q[k].type = "app" => Proper(e, Drop(q, k), w, Len(q) - k, TRUE, FALSE)
             /\ k > 0 /\ q[k].type = "close" => Proper(e, Drop(q, k), w, Len(q) - k, FALSE, TRUE)
<1> DEFINE x == Fed(e, chunk)
           q == SkipTicket(x)
           k == FirstEnd(q)
           z == stuck[Peer(e)]
           y == w \o z
<1>1. Types /\ Streams /\ Handshake /\ Consumed /\ Closing /\ Peer(e) \in Ends /\ Stage(e) = "done"
  BY Invariants, TwoEnds, WhileClosing
<1>2. /\ x \in Seq(Cells) /\ w \in Seq(Cells) /\ z \in Seq(Cells) /\ arg[e] = <<>>
      /\ Len(in[e]) \in Nat /\ Len(x) \in Nat /\ Len(in[e]) <= Len(x) /\ unread[e] = 0 /\ x \o w = Near(e)
      /\ unread[e] + Len(x) - Len(in[e]) \in 0 .. BioCap
      /\ \A i \in 1 .. Len(in[e]) : x[i] = in[e][i]
      /\ transport = "synchronous" => w = <<>>
  <2>1. z \in Seq(Cells)
    BY <1>1 DEF Types
  <2> QED BY <2>1 DEF Delivery
<1>3. PICK h \in Nat, d \in Seq(Nat), c \in {0, 1}, r \in Seq(Nat) : Holds(e, h, d, c, r)
  BY <1>1 DEF Streams, Stream
<1> HIDE DEF x
<1>4. y \in Seq(Cells) /\ Way(e) = x \o y
  <2>1. Associates(x, w, z) /\ y \in Seq(Cells)
    BY <1>2, Association, Lengths
  <2> QED BY <1>2, <2>1 DEF Associates, Way
<1> HIDE DEF y
<1>5. /\ Shape(x \o y, h, d, c) /\ h \in Hellos(e) /\ (received[e] \o arg[e]) \o (d \o r) = wrote[Peer(e)]
      /\ (z = <<>> => r = <<>>)
      /\ (c = 1 => ssl[Peer(e)].sent /\ z = <<>>)
      /\ (transport = "synchronous" => Len(d) <= RecordMax)
  BY <1>3, <1>4 DEF Holds
<1>6. /\ q \in Seq(Cells) /\ Len(q) <= Len(x)
      /\ \A i \in 1 .. Len(q) : i + (Len(x) - Len(q)) \in 1 .. Len(x) /\ q[i] = x[i + (Len(x) - Len(q))]
      /\ \E g \in {0, h} : Shape(q \o y, g, d, c)
      /\ k > 0 => \/ q[k].type = "app" /\ d # <<>>
                  \/ q[k].type = "close" /\ d = <<>> /\ c = 1 /\ k = 1 /\ Len(q \o y) = 1
  BY <1>2, <1>4, <1>5, Skipping
<1> HIDE DEF q
<1>7. /\ k \in Nat /\ k <= Len(q) /\ Len(q) \in Nat
      /\ k = 0 => \A i \in 1 .. Len(q) : ~q[i].last
      /\ k > 0 => q[k].last /\ k \in 1 .. Len(q)
  BY <1>6, FirstRecord, LenProperties
<1> HIDE DEF k
<1>8. PICK g \in {0, h} : Shape(q \o y, g, d, c)
  BY <1>6
<1>9. g \in Hellos(e) /\ g \in Nat
  <2>1. 0 \in Hellos(e)
    <3>1. ServerFlight # 0 /\ Client # Server
      BY SslAssumption
    <3>2. Phase \in Phases /\ (e = Server \/ e = Client)
      BY <1>1 DEF Handshake, Ends
    <3>3. CASE e = Server
      <4>1. Phase \in {<<"done", "done">>}
        BY <1>1, <3>2, <3>3 DEF Phase, Phases
      <4>2. Hellos(e) = {0}
        BY <3>3, <4>1 DEF Hellos
      <4> QED BY <4>2
    <3>4. CASE e = Client
      <4>1. Phase \in {<<"done", "done">>, <<"done", "wait">>}
        BY <1>1, <3>2, <3>4 DEF Phase, Phases
      <4>2. Hellos(e) = IF Phase = <<"done", "done">> THEN {0, 1} ELSE {0}
        BY <3>1, <3>4, <4>1 DEF Hellos
      <4> QED BY <4>2
    <3> QED BY <3>2, <3>3, <3>4
  <2> QED BY <1>5, <1>8, <2>1
<1>10. (q \o w) \o z = q \o y /\ q \o w \in Seq(Cells)
  <2>1. Associates(q, w, z) /\ q \o w \in Seq(Cells)
    BY <1>2, <1>6, Association, Lengths
  <2> QED BY <2>1 DEF Associates, y
<1>11. Drop(q, k) \in Seq(Cells) /\ Len(Drop(q, k)) = Len(q) - k /\ (k = 0 => Drop(q, k) = q)
  <2>1. /\ Drop(q, k) \in Seq(Cells) /\ Len(Drop(q, k)) = Len(q) - Least(k, Len(q))
        /\ \A i \in 1 .. Len(Drop(q, k)) : Drop(q, k)[i] = q[i + k]
    BY <1>6, <1>7, Cut
  <2>2. Len(Drop(q, k)) = Len(q) - k
    BY <1>7, <2>1 DEF Least
  <2>3. ASSUME k = 0 PROVE Drop(q, k) = q
    <3>1. \A i \in 1 .. Len(Drop(q, k)) : i + k = i
      BY <1>7, <2>2, <2>3
    <3>2. Len(Drop(q, k)) = Len(q) /\ \A i \in 1 .. Len(q) : Drop(q, k)[i] = q[i]
      BY <1>7, <2>1, <2>2, <2>3, <3>1
    <3> QED BY <1>6, <2>1, <3>2, SeqEqual
  <2> QED BY <2>1, <2>2, <2>3
<1>12. BioCap \in Nat
  BY <1>1, Bounds
<1>13. ASSUME k = 0 PROVE Proper(e, Drop(q, k), w, 0, FALSE, FALSE)
  <2>1. Drop(q, k) = q /\ 0 \in 0 .. BioCap /\ 0 <= Len(q) /\ \A i \in 1 .. Len(q) - 0 : ~q[i].last
    BY <1>7, <1>11, <1>12, <1>13
  <2>2. Fits(e, (q \o w) \o stuck[Peer(e)], g, d, c, r)
    BY <1>5, <1>8, <1>9, <1>10 DEF Fits, z
  <2>3. transport = "synchronous" => OneEnd(q \o w)
    <3>1. transport = "synchronous" => q \o w = q
      BY <1>2, <1>6, ConcatEmptySeq
    <3> QED BY <1>7, <1>13, <3>1 DEF OneEnd
  <2> HIDE DEF z
  <2>4. \E h2 \in Nat, d2 \in Seq(Nat), c2 \in {0, 1}, r2 \in Seq(Nat) : Fits(e, (q \o w) \o stuck[Peer(e)], h2, d2, c2, r2)
    BY <1>3, <1>9, <2>2
  <2> QED BY <1>6, <2>1, <2>3, <2>4 DEF Proper
<1>14. ASSUME k > 0
       PROVE  /\ Len(q) - k \in 0 .. BioCap /\ Len(q) - k <= Len(Drop(q, k))
              /\ \A i \in 1 .. Len(Drop(q, k)) - (Len(q) - k) : ~Drop(q, k)[i].last
  <2> DEFINE i == k + (Len(x) - Len(q))
  <2>1. i \in 1 .. Len(x) /\ x[i].last
    BY <1>6, <1>7, <1>14
  <2>2. \A j \in 1 .. Len(in[e]) - unread[e] : ~in[e][j].last
    BY <1>1 DEF Consumed
  <2>3. ~(i \in 1 .. Len(in[e]))
    <3>1. Len(in[e]) - unread[e] = Len(in[e])
      BY <1>2
    <3> HIDE DEF i
    <3> QED BY <1>2, <2>1, <2>2, <3>1
  <2>4. i > Len(in[e])
    <3> HIDE DEF i
    <3> QED BY <1>2, <2>1, <2>3
  <2>5. Len(q) - k < Len(x) - Len(in[e]) /\ Len(x) - Len(in[e]) <= BioCap
    BY <1>2, <1>6, <1>7, <1>12, <2>4
  <2>6. Len(q) - k \in 0 .. BioCap
    BY <1>2, <1>7, <1>12, <2>5
  <2>7. Len(Drop(q, k)) - (Len(q) - k) = 0 /\ Len(q) - k <= Len(Drop(q, k))
    BY <1>7, <1>11
  <2> QED BY <2>6, <2>7
<1>15. ASSUME k > 0, q[k].type = "app" PROVE Proper(e, Drop(q, k), w, Len(q) - k, TRUE, FALSE)
  <2>1. d # <<>>
    BY <1>6, <1>15
  <2>2. received[e] \o (d \o r) = wrote[Peer(e)] /\ d \o r \in Seq(Nat) /\ d \o r # <<>>
    <3>1. received[e] \in Seq(Nat) /\ d \in Seq(Nat) /\ r \in Seq(Nat)
      BY <1>1, <1>3 DEF Types
    <3>2. received[e] \o arg[e] = received[e]
      BY <1>2, <3>1, ConcatEmptySeq
    <3>3. d \o r \in Seq(Nat) /\ (d \o r = <<>> <=> d = <<>> /\ r = <<>>)
      BY <3>1, Parts
    <3> QED BY <1>5, <2>1, <3>2, <3>3
  <2>3. Phase = <<"done", "done">>
    <3>1. received[e] \in Seq(Nat)
      BY <1>1 DEF Types
    <3>a. \A a, b \in Seq(Nat) : a \o b = <<>> => b = <<>>
      BY Parts
    <3>2. received[e] \o (d \o r) # <<>>
      BY <2>2, <3>1, <3>a
    <3>3. Stage(Peer(e)) = "done"
      BY <1>1, <2>2, <3>2 DEF Handshake
    <3>4. Stage(Client) = "done" /\ Stage(Server) = "done"
      BY <1>1, <3>3, TwoEnds
    <3> QED BY <3>4 DEF Phase
  <2> QED BY <1>11, <1>14, <1>15, <2>2, <2>3 DEF Proper
<1>16. ASSUME k > 0, q[k].type = "close" PROVE Proper(e, Drop(q, k), w, Len(q) - k, FALSE, TRUE)
  <2>1. d = <<>> /\ c = 1 /\ k = 1 /\ Len(q \o y) = 1
    BY <1>6, <1>16
  <2>2. z = <<>> /\ r = <<>> /\ ssl[Peer(e)].sent
    BY <1>5, <2>1
  <2>3. Len(y) = 0 /\ Len(q) = 1
    <3>1. Len(q \o y) = Len(q) + Len(y) /\ Len(y) \in Nat
      BY <1>4, <1>6, Lengths
    <3>2. Len(q) + Len(y) = 1 /\ Len(q) \in Nat /\ Len(q) >= 1
      BY <1>7, <1>16, <2>1, <3>1
    <3>3. \A a, b \in Nat : a + b = 1 /\ a >= 1 => b = 0 /\ a = 1
      OBVIOUS
    <3> QED BY <3>1, <3>2, <3>3
  <2>4. Len(w) = 0
    <3>1. Len(w \o z) = Len(w) + Len(z) /\ Len(w) \in Nat /\ Len(z) \in Nat
      BY <1>2, Lengths
    <3> QED BY <2>3, <3>1 DEF y
  <2>5. w = <<>> /\ Drop(q, k) = <<>>
    BY <1>2, <1>11, <2>1, <2>3, <2>4, EmptySeq
  <2>6. (Drop(q, k) \o w) \o z = <<>>
    BY <2>2, <2>5, ConcatEmptySeq, EmptySeq
  <2>7. Fits(e, <<>>, 0, <<>>, 0, <<>>)
    <3>1. 0 \in Hellos(e)
      <4>1. g = 0
        <5>1. Len(q \o y) = g + Len(d) + c /\ Len(d) = 0
          BY <1>8, <2>1, EmptySeq DEF Shape
        <5> QED BY <1>9, <2>1, <5>1
      <4> QED BY <1>9, <4>1
    <3>2. RecordMax \in Nat
      BY <1>1, Bounds
    <3>3. (received[e] \o arg[e]) \o (<<>> \o <<>>) = wrote[Peer(e)]
      BY <1>5, <2>1, <2>2
    <3>4. Shape(<<>>, 0, <<>>, 0) /\ Len(<<>>) = 0
      BY ShapeEmpty, EmptySeq
    <3>5. Len(<<>>) <= RecordMax /\ ~(0 = 1)
      BY <3>2, <3>4
    <3> QED BY <3>1, <3>3, <3>4, <3>5 DEF Fits
  <2>8. \E h2 \in Nat, d2 \in Seq(Nat), c2 \in {0, 1}, r2 \in Seq(Nat) :
           Fits(e, (Drop(q, k) \o w) \o stuck[Peer(e)], h2, d2, c2, r2)
    <3>1. 0 \in Nat /\ <<>> \in Seq(Nat) /\ 0 \in {0, 1}
      BY EmptySeq
    <3>2. (Drop(q, k) \o w) \o stuck[Peer(e)] = <<>>
      BY <2>6 DEF z
    <3> QED BY <2>7, <3>1, <3>2
  <2> QED BY <1>11, <1>14, <1>16, <2>2, <2>6, <2>8 DEF Proper, z
<1>17. k > 0 => q[k].type \in {"app", "close"}
  BY <1>6
<1> QED BY <1>7, <1>13, <1>15, <1>16, <1>17 DEF q, k, x

(* What the rest of the system sees of it. *)
Shut(e) ==
    /\ in' \in [Ends -> Seq(Cells)] /\ unread' \in [Ends -> Nat]
    /\ \A f \in Ends : unread'[f] \in 0 .. BioCap /\ unread'[f] <= Len(in'[f])
    /\ ssl' \in [Ends -> [stage : Stages, sent : BOOLEAN, seen : BOOLEAN, fatal : BOOLEAN]]
    /\ status' \in [Ends -> {"closed", "connecting", "connected", "peer_closing", "closing"}]
    /\ ssl'[Peer(e)] = ssl[Peer(e)] /\ ssl'[e].stage = ssl[e].stage /\ ssl'[e].sent = ssl[e].sent
    /\ status'[Peer(e)] = status[Peer(e)] /\ unread'[Peer(e)] = unread[Peer(e)]
    /\ \/ status'[e] = "closing" /\ ssl'[e].seen = FALSE
       \/ status'[e] = "closed" /\ ssl'[e].seen = TRUE /\ Way(e)' = <<>> /\ ssl[Peer(e)].sent
    /\ Near(Peer(e))' = Near(Peer(e)) /\ Way(Peer(e))' = Way(Peer(e))
    /\ Consumed' /\ Streams'
    /\ transport = "synchronous" /\ ~ssl'[e].fatal /\ ~ssl'[e].seen => OneEnd(Near(e)')

(* do_shutdown after on_received: what OpenSSL looks at, and what it makes *)
(* of it.                                                                  *)
LEMMA Shutting ==
  ASSUME IInv, NEW e \in Ends, status[e] = "closing", arg[e] = <<>>, NEW w \in Seq(Cells),
         NEW q, NEW n, NEW fatal \in BOOLEAN, NEW seen \in BOOLEAN,
         Proper(e, q, w, n, fatal, seen), Looked(e, q, n, fatal, seen),
         wire' \in [Ends -> Seq(Cells)], wire'[Peer(e)] = w, wire'[e] = wire[e],
         UNCHANGED <<appVars, Configuration>>
  PROVE  Shut(e)
<1> DEFINE p == Peer(e)
<1>1. UNCHANGED <<arg, outbox, wrote, received, told, ended, app, transport, stuck, up>>
  BY DEF appVars, Configuration, Looked
<1>2. Types /\ Streams /\ Closing
  BY Invariants
<1>3. /\ p \in Ends /\ p # e /\ Peer(p) = e /\ \A f \in Ends : f = e \/ f = p
      /\ Client \in Ends /\ Server \in Ends
  BY TwoEnds
<1>4. /\ q \in Seq(Cells) /\ n \in 0 .. BioCap /\ n <= Len(q)
      /\ \A i \in 1 .. Len(q) - n : ~q[i].last
      /\ (fatal => ~seen /\ \E r \in Seq(Nat) : received[e] \o r = wrote[p])
      /\ (fatal => Phase = <<"done", "done">>)
      /\ (~fatal => \E h \in Nat, d \in Seq(Nat), c \in {0, 1}, r \in Seq(Nat) : Fits(e, (q \o w) \o stuck[p], h, d, c, r))
      /\ (seen => (q \o w) \o stuck[p] = <<>> /\ ssl[p].sent)
      /\ (transport = "synchronous" /\ ~fatal /\ ~seen => OneEnd(q \o w))
  BY DEF Proper
<1>5. /\ in' = [in EXCEPT ![e] = q] /\ unread' = [unread EXCEPT ![e] = n]
      /\ ssl' = [ssl EXCEPT ![e].seen = seen, ![e].fatal = fatal]
      /\ status' = [status EXCEPT ![e] = IF seen THEN "closed" ELSE "closing"]
  BY DEF Looked
<1>6. Filled(e, q, w, n)
  BY <1>1, <1>4, <1>5, Filling
<1>7. /\ in' \in [Ends -> Seq(Cells)] /\ in'[e] = q
      /\ unread' \in [Ends -> Nat] /\ unread'[p] = unread[p]
      /\ \A f \in Ends : unread'[f] \in 0 .. BioCap /\ unread'[f] <= Len(in'[f])
      /\ Consumed'
      /\ Near(e)' = q \o w /\ Near(p)' = Near(p) /\ Way(p)' = Way(p)
  <2>1. in \in [Ends -> Seq(Cells)]
    BY <1>2 DEF Types
  <2>2. in'[e] = q
    BY <1>5, <2>1
  <2> QED BY <1>6, <2>2 DEF Filled
<1>8. ssl \in [Ends -> [stage : Stages, sent : BOOLEAN, seen : BOOLEAN, fatal : BOOLEAN]]
      /\ status \in [Ends -> {"closed", "connecting", "connected", "peer_closing", "closing"}]
  BY <1>2 DEF Types, TypeOK
<1>9. /\ ssl' \in [Ends -> [stage : Stages, sent : BOOLEAN, seen : BOOLEAN, fatal : BOOLEAN]]
      /\ ssl'[p] = ssl[p] /\ ssl'[e].stage = ssl[e].stage /\ ssl'[e].sent = ssl[e].sent
      /\ ssl'[e].seen = seen /\ ssl'[e].fatal = fatal
  BY <1>3, <1>5, <1>8
<1>10. /\ status' \in [Ends -> {"closed", "connecting", "connected", "peer_closing", "closing"}]
       /\ status'[p] = status[p] /\ status'[e] = IF seen THEN "closed" ELSE "closing"
  BY <1>3, <1>5, <1>8
<1>11. Way(e)' = (q \o w) \o stuck[p]
  BY <1>1, <1>7 DEF Way
<1>12. /\ Phase' = Phase /\ \A f \in Ends : Stage(f)' = Stage(f)
       /\ Hellos(e)' = Hellos(e)
  <2>1. \A f \in Ends : ssl'[f].stage = ssl[f].stage
    BY <1>3, <1>9
  <2>2. Phase' = Phase
    BY <1>3, <2>1 DEF Phase, Stage
  <2> QED BY <2>1, <2>2 DEF Stage, Hellos
<1>13. \/ status'[e] = "closing" /\ ssl'[e].seen = FALSE
       \/ status'[e] = "closed" /\ ssl'[e].seen = TRUE /\ Way(e)' = <<>> /\ ssl[p].sent
  <2>1. CASE seen
    BY <1>4, <1>9, <1>10, <1>11, <2>1
  <2>2. CASE ~seen
    BY <1>9, <1>10, <2>2
  <2> QED BY <2>1, <2>2
<1>14. IF ssl'[p].fatal THEN Broken(p)' ELSE Stream(p)'
  BY <1>1, <1>2, <1>3, <1>7, <1>9, <1>10, <1>12, StreamKept
<1>15. ASSUME fatal PROVE ssl'[e].fatal /\ Broken(e)'
  <2>1. ssl'[e].fatal /\ ~ssl'[e].seen /\ status'[e] = "closing" /\ arg'[e] = <<>> /\ Phase' = <<"done", "done">>
    BY <1>1, <1>4, <1>9, <1>10, <1>12, <1>15
  <2>2. \E r \in Seq(Nat) : received'[e] \o r = wrote'[Peer(e)]
    BY <1>1, <1>4, <1>15
  <2> QED BY <2>1, <2>2 DEF Broken
<1>16. ASSUME ~fatal PROVE ~ssl'[e].fatal /\ Stream(e)'
  <2>1. PICK h \in Nat, d \in Seq(Nat), c \in {0, 1}, r \in Seq(Nat) : Fits(e, (q \o w) \o stuck[p], h, d, c, r)
    BY <1>4, <1>16
  <2>2. Fits(e, Way(e)', h, d, c, r)
    BY <1>11, <2>1
  <2>3. Holds(e, h, d, c, r)'
    <3>1. ssl'[Peer(e)].sent = ssl[Peer(e)].sent
      BY <1>9
    <3> QED BY <1>1, <1>12, <2>2, <3>1 DEF Holds, Fits
  <2> QED BY <1>9, <1>16, <2>1, <2>3 DEF Stream
<1>17. Streams'
  BY <1>3, <1>14, <1>15, <1>16 DEF Streams
<1>18. transport = "synchronous" /\ ~ssl'[e].fatal /\ ~ssl'[e].seen => OneEnd(Near(e)')
  BY <1>4, <1>7, <1>9
<1> QED BY <1>7, <1>9, <1>10, <1>13, <1>17, <1>18 DEF Shut

LEMMA ClosingShut ==
  ASSUME IInv, NEW e \in Ends, status[e] = "closing", NEW chunk, NEW w, Delivery(e, chunk, w),
         DoShutdown(e, chunk), UNCHANGED Configuration,
         wire' \in [Ends -> Seq(Cells)], wire'[Peer(e)] = w, wire'[e] = wire[e]
  PROVE  Shut(e)
<1> DEFINE x == Fed(e, chunk)
           q == SkipTicket(x)
           k == FirstEnd(q)
           reads == stuck[e] = <<>> /\ ~ssl[e].fatal
           n == unread[e] + Len(x) - Len(in[e])
<1>1. ~ssl[e].seen /\ arg[e] = <<>> /\ w \in Seq(Cells) /\ ssl[e].fatal \in BOOLEAN /\ ssl[e].seen = FALSE
  BY WhileClosing DEF Delivery
<1>2. /\ ssl' = [ssl EXCEPT ![e].seen = (reads /\ k > 0 /\ q[k].type = "close"),
                            ![e].fatal = @ \/ (reads /\ k > 0 /\ q[k].type = "app")]
      /\ in' = [in EXCEPT ![e] = IF reads THEN Drop(q, k) ELSE x]
      /\ unread' = [unread EXCEPT ![e] = IF reads THEN IF k > 0 THEN Len(q) - k ELSE 0 ELSE n]
      /\ status' = [status EXCEPT ![e] = IF reads /\ k > 0 /\ q[k].type = "close" THEN "closed" ELSE "closing"]
      /\ stuck' = stuck /\ up' = up /\ UNCHANGED appVars
  BY <1>1 DEF DoShutdown
<1>3. Proper(e, x, w, n, ssl[e].fatal, FALSE)
  BY ShutBlind
<1>4. ~ssl[e].fatal =>
             /\ k \in Nat
             /\ k > 0 => q[k].type \in {"app", "close"}
             /\ k = 0 => Proper(e, Drop(q, k), w, 0, FALSE, FALSE)
             /\ k > 0 /\ q[k].type = "app" => Proper(e, Drop(q, k), w, Len(q) - k, TRUE, FALSE)
             /\ k > 0 /\ q[k].type = "close" => Proper(e, Drop(q, k), w, Len(q) - k, FALSE, TRUE)
  BY ShutLooks
<1> HIDE DEF x, q, k, n
<1>6. ssl \in [Ends -> [stage : Stages, sent : BOOLEAN, seen : BOOLEAN, fatal : BOOLEAN]]
  BY Invariants DEF Types, TypeOK
<1>7. CASE ~reads
  <2>1. Looked(e, x, n, ssl[e].fatal, FALSE)
    BY <1>1, <1>2, <1>6, <1>7 DEF Looked
  <2> QED BY <1>1, <1>2, <1>3, <2>1, Shutting
<1>8. CASE reads /\ ~(k > 0)
  <2>1. Looked(e, Drop(q, k), 0, FALSE, FALSE)
    BY <1>1, <1>2, <1>6, <1>8 DEF Looked
  <2>2. Proper(e, Drop(q, k), w, 0, FALSE, FALSE)
    <3>1. k \in Nat
      BY <1>4, <1>8
    <3>2. k = 0
      BY <1>8, <3>1
    <3> QED BY <1>4, <1>8, <3>2
  <2> QED BY <1>1, <1>2, <2>1, <2>2, Shutting
<1>9. CASE reads /\ k > 0 /\ q[k].type = "app"
  <2>1. Looked(e, Drop(q, k), Len(q) - k, TRUE, FALSE)
    BY <1>1, <1>2, <1>6, <1>9 DEF Looked
  <2>2. Proper(e, Drop(q, k), w, Len(q) - k, TRUE, FALSE)
    BY <1>4, <1>9
  <2> QED BY <1>1, <1>2, <2>1, <2>2, Shutting
<1>10. CASE reads /\ k > 0 /\ q[k].type = "close"
  <2>1. Looked(e, Drop(q, k), Len(q) - k, FALSE, TRUE)
    BY <1>1, <1>2, <1>6, <1>10 DEF Looked
  <2>2. Proper(e, Drop(q, k), w, Len(q) - k, FALSE, TRUE)
    BY <1>4, <1>10
  <2> QED BY <1>1, <1>2, <2>1, <2>2, Shutting
<1> QED BY <1>4, <1>7, <1>8, <1>9, <1>10

(* on_received of a stream that has disconnected.                          *)
LEMMA ReceiveClosingStep ==
  ASSUME IInv, NEW e \in Ends, ReceiveClosing(e), UNCHANGED Configuration
  PROVE  IInv'
<1>1. PICK chunk \in Chunks(e) : status[e] = "closing" /\ Arrives(e, chunk) /\ DoShutdown(e, chunk)
  BY DEF ReceiveClosing
<1> DEFINE p == Peer(e)
           w == Drop(wire[p], Len(chunk))
<1>2. /\ Types /\ Handshake /\ Streams /\ Closing /\ Consumed
      /\ Given /\ Ending /\ Told /\ Announced /\ Silent
      /\ Queued /\ Synchronous /\ dropped = 0
      /\ transport \in {"queued", "synchronous"}
  BY Invariants
<1>3. /\ p \in Ends /\ p # e /\ Peer(p) = e /\ \A f \in Ends : f = e \/ f = p
      /\ Client \in Ends /\ Server \in Ends /\ Client # Server /\ Peer(Client) = Server /\ Peer(Server) = Client
      /\ (e = Client \/ e = Server)
  BY TwoEnds, SslAssumption
<1>4. /\ at' = [at EXCEPT ![e] = "report"] /\ tail' = [tail EXCEPT ![e] = FALSE]
      /\ Moved(e, chunk, <<>>) /\ UNCHANGED <<stuck, up, appVars>>
  BY <1>1 DEF DoShutdown
<1>5. UNCHANGED <<stuck, up, arg, outbox, wrote, received, told, ended, app, transport>>
  BY <1>4 DEF appVars, Configuration
<1>6. Delivery(e, chunk, w) /\ Suspended(e)
  BY <1>1, Arrival, Suspension
<1>7. Handed(e, "report", w)
  BY <1>4, <1>6, Handing
<1>8. /\ wire' \in [Ends -> Seq(Cells)] /\ wire'[p] = w /\ wire'[e] = wire[e]
      /\ stack' \in Seq(Frames)
      /\ at' \in [Ends -> {"idle", "announce", "on_connected", "read", "on_received", "check",
                         "report", "on_disconnected", "app"}]
      /\ tail' \in [Ends -> BOOLEAN]
      /\ at'[e] = "report" /\ at'[p] = at[p]
      /\ Given' /\ Silent'
      /\ transport = "synchronous" =>
            /\ Paused' /\ Sizes' /\ Delivered' /\ stack' # <<>> /\ Head(stack').end = e
            /\ unread[p] = 0 \/ ssl[p].fatal \/ ssl[p].seen
  BY <1>7 DEF Handed
<1>9. /\ wire[p] # <<>> /\ dropped' = 0 /\ arg[e] = <<>> /\ (transport = "synchronous" => wire[e] = <<>>)
  BY <1>6 DEF Delivery
<1>10. Stage(e) = "done" /\ ssl[e].sent /\ told[e] # 0 /\ ended[e] = 0
  BY <1>1, WhileClosing
<1>11. Shut(e)
  BY <1>1, <1>6, <1>8, ClosingShut
<1> HIDE DEF w
<1>12. /\ in' \in [Ends -> Seq(Cells)] /\ unread' \in [Ends -> Nat]
       /\ \A f \in Ends : unread'[f] \in 0 .. BioCap /\ unread'[f] <= Len(in'[f])
       /\ ssl' \in [Ends -> [stage : Stages, sent : BOOLEAN, seen : BOOLEAN, fatal : BOOLEAN]]
       /\ status' \in [Ends -> {"closed", "connecting", "connected", "peer_closing", "closing"}]
       /\ ssl'[p] = ssl[p] /\ ssl'[e].stage = ssl[e].stage /\ ssl'[e].sent = ssl[e].sent
       /\ status'[p] = status[p] /\ unread'[p] = unread[p]
       /\ \/ status'[e] = "closing" /\ ssl'[e].seen = FALSE
          \/ status'[e] = "closed" /\ ssl'[e].seen = TRUE /\ Way(e)' = <<>> /\ ssl[p].sent
       /\ Near(p)' = Near(p) /\ Way(p)' = Way(p)
       /\ Consumed' /\ Streams'
       /\ (transport = "synchronous" /\ ~ssl'[e].fatal /\ ~ssl'[e].seen => OneEnd(Near(e)'))
  BY <1>11 DEF Shut
<1>13. /\ Phase' = Phase /\ (\A f \in Ends : Stage(f)' = Stage(f)) /\ Closed(p)' = Closed(p)
       /\ (Closed(e)' <=> ssl'[e].seen)
  <2>1. \A f \in Ends : ssl'[f].stage = ssl[f].stage
    BY <1>3, <1>12
  <2>2. \A f \in Ends : Stage(f)' = Stage(f)
    BY <2>1 DEF Stage
  <2>3. Phase' = Phase
    BY <1>3, <2>2 DEF Phase
  <2> QED BY <1>3, <1>10, <1>12, <2>2, <2>3 DEF Closed
<1>20. Types'
  <2>1. BioCap' = BioCap
    BY <1>5 DEF BioCap
  <2>2. TypeOK'
    BY <1>2, <1>5, <1>8, <1>12, <2>1 DEF Types, TypeOK
  <2> QED BY <1>2, <1>5, <1>8, <1>9, <1>12, <2>2 DEF Types
<1>21. Handshake'
  <2>1. status'[e] \in {"closing", "closed"} /\ Stage(e)' = "done"
    BY <1>3, <1>10, <1>12, <1>13
  <2>2. /\ Stage(p)' # "done" => wrote'[p] = <<>> /\ unread'[p] = 0 /\ status'[p] \in {"closed", "connecting"}
        /\ status'[p] = "connecting" => Stage(p)' # "done"
    BY <1>2, <1>3, <1>5, <1>12, <1>13 DEF Handshake
  <2>3. Phase' \in Phases /\ (up' <=> Stage(Client)' # "start")
    BY <1>2, <1>3, <1>5, <1>13 DEF Handshake
  <2>4. ASSUME NEW f \in Ends
        PROVE  /\ Stage(f)' # "done" => wrote'[f] = <<>> /\ unread'[f] = 0 /\ status'[f] \in {"closed", "connecting"}
               /\ status'[f] = "connecting" => Stage(f)' # "done"
    <3>1. CASE f = e
      BY <2>1, <3>1
    <3>2. CASE f = p
      BY <2>2, <3>2
    <3> QED BY <1>3, <3>1, <3>2
  <2> QED BY <2>3, <2>4 DEF Handshake
<1>23. Closing'
  <2>1. /\ ssl'[e].sent <=> status'[e] \in {"closing", "peer_closing"} \/ Closed(e)'
        /\ Closed(e)' => ssl'[e].seen
        /\ status'[e] = "peer_closing" => ssl'[e].seen
        /\ ssl'[e].seen => Way(e)' = <<>> /\ arg'[e] = <<>> /\ ssl'[p].sent /\ Stage(e)' = "done"
    BY <1>3, <1>5, <1>9, <1>10, <1>12, <1>13
  <2>2. /\ ssl'[p].sent <=> status'[p] \in {"closing", "peer_closing"} \/ Closed(p)'
        /\ Closed(p)' => ssl'[p].seen
        /\ status'[p] = "peer_closing" => ssl'[p].seen
        /\ ssl'[p].seen => Way(p)' = <<>> /\ arg'[p] = <<>> /\ ssl'[e].sent /\ Stage(p)' = "done"
    BY <1>2, <1>3, <1>5, <1>12, <1>13 DEF Closing
  <2> QED BY <1>3, <2>1, <2>2 DEF Closing
<1>24. Ending'
  <2>1. ~(ended'[e] > 0 \/ at'[e] = "on_disconnected")
    BY <1>5, <1>8, <1>10
  <2>2. ended'[p] > 0 \/ at'[p] = "on_disconnected" => Closed(p)'
    BY <1>2, <1>3, <1>5, <1>8, <1>13 DEF Ending
  <2>3. ASSUME NEW f \in Ends PROVE ended'[f] > 0 \/ at'[f] = "on_disconnected" => Closed(f)'
    <3>1. CASE f = e
      BY <2>1, <3>1
    <3>2. CASE f = p
      BY <2>2, <3>2
    <3> QED BY <1>3, <3>1, <3>2
  <2> QED BY <2>3 DEF Ending
<1>25. Told'
  <2>1. \A f \in Ends : told[f] = 0 =>
          \A i \in DOMAIN stack' : stack'[i].end = f => stack'[i].at \in {"idle", "announce"} /\ stack'[i].outbox = <<>>
    BY <1>6 DEF Suspended
  <2>2. \A f \in Ends : told'[f] > 0 \/ at'[f] = "on_connected" => Stage(f)' = "done"
    <3>1. Stage(e)' = "done"
      BY <1>10, <1>13
    <3>2. told'[p] > 0 \/ at'[p] = "on_connected" => Stage(p)' = "done"
      BY <1>2, <1>3, <1>5, <1>8, <1>13 DEF Told
    <3>3. ASSUME NEW f \in Ends, told'[f] > 0 \/ at'[f] = "on_connected" PROVE Stage(f)' = "done"
      <4>1. CASE f = e
        BY <3>1, <4>1
      <4>2. CASE f = p
        BY <3>2, <3>3, <4>2
      <4> QED BY <1>3, <4>1, <4>2
    <3> QED BY <3>3
  <2>3. \A f \in Ends : told'[f] = 0 => f = p
    BY <1>3, <1>5, <1>10
  <2>4. told'[p] = 0 =>
          /\ received'[p] = <<>> /\ wrote'[p] = <<>> /\ arg'[p] = <<>> /\ outbox'[p] = <<>>
          /\ ended'[p] = 0
          /\ at'[p] \notin {"app", "report", "on_received", "on_disconnected"}
          /\ status'[p] # "closing" /\ ~Closed(p)'
    BY <1>2, <1>3, <1>5, <1>8, <1>12, <1>13 DEF Told
  <2> QED BY <1>5, <2>1, <2>2, <2>3, <2>4 DEF Told
<1>26. Announced'
  <2>1. \A f \in Ends : (\E i \in DOMAIN stack : stack[i].end = f /\ stack[i].at = "announce")
          => \E i \in DOMAIN stack' : stack'[i].end = f /\ stack'[i].at = "announce"
    BY <1>6 DEF Suspended
  <2>2. ASSUME NEW f \in Ends, told'[f] = 0, status'[f] = "connected"
        PROVE  \/ at'[f] \in {"announce", "on_connected"}
               \/ \E i \in DOMAIN stack' : stack'[i].end = f /\ stack'[i].at = "announce"
    <3>1. f = p
      BY <1>3, <1>5, <1>10, <2>2
    <3>2. told[p] = 0 /\ status[p] = "connected" /\ at'[p] = at[p]
      BY <1>5, <1>8, <1>12, <2>2, <3>1
    <3>3. \/ at[p] \in {"announce", "on_connected"}
          \/ \E i \in DOMAIN stack : stack[i].end = p /\ stack[i].at = "announce"
      BY <1>2, <1>3, <3>2 DEF Announced
    <3> QED BY <1>3, <2>1, <3>1, <3>2, <3>3
  <2> QED BY <2>2 DEF Announced
<1>27. Queued'
  <2>1. ASSUME transport = "queued" PROVE stack' = <<>>
    BY <1>6, <2>1 DEF Suspended
  <2>2. ASSUME transport = "queued"
        PROVE  /\ at'[p] \in {"idle", "check"} => unread'[p] = 0 \/ ssl'[p].fatal \/ ssl'[p].seen
               /\ told'[p] = 0 /\ Stage(p)' = "done" => at'[p] \in {"announce", "on_connected"} /\ status'[p] = "connected"
               /\ told'[p] <= 1 /\ (told'[p] > 0 => at'[p] \notin {"announce", "on_connected"})
               /\ ended'[p] <= 1 /\ (ended'[p] > 0 => at'[p] \notin {"report", "on_disconnected"})
    BY <1>2, <1>3, <1>5, <1>8, <1>12, <1>13, <2>2 DEF Queued
  <2>3. ASSUME transport = "queued"
        PROVE  /\ at'[e] \in {"idle", "check"} => unread'[e] = 0 \/ ssl'[e].fatal \/ ssl'[e].seen
               /\ told'[e] = 0 /\ Stage(e)' = "done" => at'[e] \in {"announce", "on_connected"} /\ status'[e] = "connected"
               /\ told'[e] <= 1 /\ (told'[e] > 0 => at'[e] \notin {"announce", "on_connected"})
               /\ ended'[e] <= 1 /\ (ended'[e] > 0 => at'[e] \notin {"report", "on_disconnected"})
    <3>1. told[e] <= 1
      BY <1>2, <2>3 DEF Queued
    <3> QED BY <1>5, <1>8, <1>10, <3>1
  <2> QED BY <1>3, <1>5, <2>1, <2>2, <2>3 DEF Queued
<1>28. ASSUME transport = "synchronous" PROVE OneRecord' /\ ServerFirst'
  <2>0. OneRecord /\ ServerFirst
    BY <1>2, <1>28 DEF Synchronous
  <2>1. /\ Delivered' /\ stack' # <<>> /\ Head(stack').end = e
        /\ unread[p] = 0 \/ ssl[p].fatal \/ ssl[p].seen
    BY <1>8, <1>28
  <2>2. OneRecord'
    <3>1. ~ssl'[p].fatal /\ ~ssl'[p].seen => OneEnd(Near(p)')
      BY <1>3, <1>12, <2>0 DEF OneRecord, OneEnd
    <3>2. \A f \in Ends : ~ssl'[f].fatal /\ ~ssl'[f].seen => OneEnd(Near(f)')
      BY <1>3, <1>12, <1>28, <3>1
    <3>3. \A f \in Ends : \/ unread'[f] = 0 \/ ssl'[f].fatal \/ ssl'[f].seen
                          \/ stack' # <<>> /\ Head(stack').end = f /\ Delivered' /\ at'[f] \in {"read", "report"}
      BY <1>3, <1>8, <1>12, <2>1
    <3> QED BY <3>2, <3>3 DEF OneRecord, OneEnd
  <2>3. ServerFirst'
    <3>1. CASE e = Server
      BY <1>5, <1>10, <3>1 DEF ServerFirst
    <3>2. CASE e = Client
      <4>1. told[Server] # 0
        BY <1>10, <2>0, <3>2 DEF ServerFirst
      <4> QED BY <1>5, <4>1 DEF ServerFirst
    <3> QED BY <1>3, <3>1, <3>2
  <2> QED BY <2>2, <2>3
<1> QED BY <1>2, <1>5, <1>8, <1>9, <1>12, <1>20, <1>21, <1>23, <1>24, <1>25, <1>26, <1>27, <1>28 DEF IInv, Synchronous

-----------------------------------------------------------------------------
(* The invariant *)

(* Init and stuttering.                                                    *)
LEMMA InitialState ==
  ASSUME Init
  PROVE  IInv /\ Quiet
<1>1. /\ app \in Applications /\ transport \in Transports /\ stack = <<>>
      /\ status = [e \in Ends |-> "closed"]
      /\ ssl = [e \in Ends |-> [stage |-> "start", sent |-> FALSE, seen |-> FALSE, fatal |-> FALSE]]
      /\ in = [e \in Ends |-> <<>>] /\ unread = [e \in Ends |-> 0]
      /\ stuck = [e \in Ends |-> <<>>] /\ wire = [e \in Ends |-> <<>>]
      /\ up = FALSE
      /\ at = [e \in Ends |-> "idle"] /\ tail = [e \in Ends |-> FALSE]
      /\ arg = [e \in Ends |-> <<>>]
      /\ outbox = [e \in Ends |-> <<>>]
      /\ wrote = [e \in Ends |-> <<>>] /\ received = [e \in Ends |-> <<>>]
      /\ told = [e \in Ends |-> 0] /\ ended = [e \in Ends |-> 0] /\ dropped = 0
  BY DEF Init
<1>2. /\ Client \in Ends /\ Server \in Ends /\ Client # Server
      /\ \A e \in Ends : Peer(e) \in Ends
  BY TwoEnds, SslAssumption DEF Ends
<1>3. /\ \A e \in Ends : status[e] = "closed" /\ unread[e] = 0 /\ at[e] = "idle" /\ told[e] = 0 /\ ended[e] = 0
      /\ \A e \in Ends : in[e] = <<>> /\ stuck[e] = <<>> /\ wire[e] = <<>> /\ arg[e] = <<>> /\ outbox[e] = <<>>
      /\ \A e \in Ends : wrote[e] = <<>> /\ received[e] = <<>>
  BY <1>1
<1>4. \A e \in Ends : /\ ssl[e].stage = "start" /\ ssl[e].sent = FALSE /\ ssl[e].seen = FALSE /\ ssl[e].fatal = FALSE
                      /\ Stage(e) = "start" /\ ~Closed(e)
  BY <1>1 DEF Stage, Closed
<1>5. Phase = <<"start", "start">>
  BY <1>2, <1>4 DEF Phase
<1>6. \A S : <<>> \in Seq(S)
  OBVIOUS
<1>7. Len(<<>>) = 0 /\ DOMAIN stack = {} /\ <<>> \o <<>> = <<>>
  BY <1>1, EmptySeq, ConcatEmptySeq
<1>8. transport \in {"queued", "synchronous"} /\ BioCap \in Nat /\ RecordMax \in Nat
  BY <1>1, SslAssumption DEF BioCap
<1>9. \A e \in Ends : Near(e) = <<>> /\ Way(e) = <<>>
  BY <1>2, <1>3, <1>7 DEF Near, Way
<1>10. Types
  <2>1. ssl \in [Ends -> [stage : Stages, sent : BOOLEAN, seen : BOOLEAN, fatal : BOOLEAN]]
    BY <1>1 DEF Stages
  <2>2. \A e \in Ends : unread[e] \in 0 .. BioCap /\ unread[e] <= Len(in[e])
    BY <1>3, <1>7, <1>8
  <2>3. TypeOK
    BY <1>1, <2>1, <2>2 DEF TypeOK
  <2> QED BY <1>1, <1>6, <2>3 DEF Types
<1>11. Handshake
  BY <1>1, <1>2, <1>3, <1>4, <1>5 DEF Handshake, Phases
<1>12. Streams
  <2>1. ASSUME NEW e \in Ends PROVE Stream(e)
    <3>1. 0 \in Hellos(e)
      BY <1>5 DEF Hellos
    <3>2. Shape(Way(e), 0, <<>>, 0)
      BY <1>9, <2>1, ShapeEmpty
    <3>3. (received[e] \o arg[e]) \o (<<>> \o <<>>) = wrote[Peer(e)]
      BY <1>2, <1>3, <1>7, <2>1
    <3>4. Holds(e, 0, <<>>, 0, <<>>)
      <4>1. Len(<<>>) <= RecordMax /\ ~(0 = 1)
        BY <1>7, <1>8
      <4> QED BY <3>1, <3>2, <3>3, <4>1 DEF Holds
    <3> QED BY <1>6, <3>4 DEF Stream
  <2> QED BY <1>4, <2>1 DEF Streams
<1>13. Closing
  BY <1>3, <1>4 DEF Closing
<1>14. Consumed
  BY <1>3, <1>7 DEF Consumed
<1>15. Given /\ Ending
  BY <1>3 DEF Given, Ending
<1>16. Told
  BY <1>3, <1>4, <1>7 DEF Told
<1>17. Announced /\ Silent /\ Quiet
  BY <1>1, <1>3, <1>7 DEF Announced, Silent, Quiet
<1>18. Queued
  BY <1>1, <1>3, <1>4 DEF Queued
<1>19. Synchronous
  <2>1. Paused
    BY <1>1, <1>2, <1>3 DEF Paused
  <2>2. OneRecord
    BY <1>3, <1>7, <1>9 DEF OneRecord
  <2>3. Sizes
    <3>1. DOMAIN <<>> = {}
      BY <1>1, <1>7
    <3> QED BY <1>3, <1>7, <1>8, <3>1 DEF Sizes, Short
  <2>4. ServerFirst
    BY <1>2, <1>3, <1>4 DEF ServerFirst
  <2> QED BY <2>1, <2>2, <2>3, <2>4 DEF Synchronous
<1> QED BY <1>1, <1>10, <1>11, <1>12, <1>13, <1>14, <1>15, <1>16, <1>17, <1>18, <1>19 DEF IInv

LEMMA Stuttering ==
  ASSUME IInv, Quiet, UNCHANGED vars
  PROVE  IInv' /\ Quiet'
<1>1. UNCHANGED <<app, transport, stack, status, ssl, in, unread, stuck, wire, up, at, tail, arg, outbox,
                  wrote, received, told, ended, dropped>>
  BY DEF vars
<1>2. /\ Types /\ Consumed /\ Given /\ Ending /\ Told /\ Announced /\ Silent
      /\ Queued /\ Synchronous /\ dropped = 0
  BY Invariants
<1>3. Handshake' /\ Streams' /\ Closing'
  BY <1>1, FlowStays
<1>4. Types'
  BY <1>1, <1>2 DEF Types, TypeOK, BioCap
<1>5. Consumed' /\ Given' /\ Ending' /\ Announced' /\ Silent' /\ Quiet'
  BY <1>1, <1>2 DEF Consumed, Given, Ending, Announced, Silent, Quiet, Closed, Stage
<1>6. Told'
  BY <1>1, <1>2 DEF Told, Closed, Stage
<1>7. Queued'
  BY <1>1, <1>2 DEF Queued, Stage
<1>8. Synchronous'
  <2>1. ASSUME transport = "synchronous" PROVE Paused' /\ OneRecord' /\ Sizes' /\ ServerFirst'
    <3>0. Paused /\ OneRecord /\ Sizes /\ ServerFirst
      BY <1>2, <2>1 DEF Synchronous
    <3>1. Paused'
      BY <1>1, <3>0 DEF Paused, BioCap
    <3>2. OneRecord'
      BY <1>1, <3>0 DEF OneRecord, Near, Delivered
    <3>3. Sizes'
      BY <1>1, <3>0 DEF Sizes
    <3>4. ServerFirst'
      BY <1>1, <3>0 DEF ServerFirst, Ticket, Stage, Phase, Delivered
    <3> QED BY <3>1, <3>2, <3>3, <3>4
  <2> QED BY <1>1, <2>1 DEF Synchronous
<1> QED BY <1>1, <1>2, <1>3, <1>4, <1>5, <1>6, <1>7, <1>8 DEF IInv

(* Every step of either end, and of the transport. *)
LEMMA NextStep ==
  ASSUME IInv, Quiet, Next
  PROVE  IInv'
<1>1. UNCHANGED Configuration
  BY DEF Next
<1>2. CASE TransportConnected /\ UNCHANGED stack
  BY <1>1, <1>2, TransportConnectedStep DEF Configuration
<1>3. ASSUME NEW e \in Ends, Disconnect(e), UNCHANGED stack PROVE IInv'
  BY <1>1, <1>3, DisconnectStep DEF Configuration
<1>4. ASSUME NEW e \in Ends, Receive(e) PROVE IInv'
  <2>1. CASE ReceiveConnecting(e)
    BY <1>1, <2>1, ReceiveConnectingStep
  <2>2. CASE ReceiveConnected(e)
    BY <1>1, <2>2, ReceiveConnectedStep
  <2>3. CASE ReceiveClosing(e)
    BY <1>1, <2>3, ReceiveClosingStep
  <2> QED BY <1>4, <2>1, <2>2, <2>3 DEF Receive
<1>5. ASSUME NEW e \in Ends, HandlerReturns(e) PROVE IInv'
  BY <1>1, <1>5, ReturnsStep
<1>6. ASSUME NEW e \in Ends, Running(e), Read(e), UNCHANGED stack PROVE IInv'
  <2>0. UNCHANGED <<stack, Configuration>>
    BY <1>1, <1>6
  <2>1. CASE ReadNothing(e)
    BY <1>6, <2>0, <2>1, ReadNothingStep
  <2>2. CASE ReadData(e)
    BY <1>6, <2>0, <2>2, ReadDataStep
  <2>3. CASE ReadTicket(e)
    BY <1>6, <2>0, <2>3, ReadTicketStep
  <2>4. CASE ReadClose(e)
    BY <1>6, <2>0, <2>4, ReadCloseStep
  <2>5. CASE Check(e)
    <3>1. CASE ssl[e].seen /\ ~ssl[e].sent
      BY <1>6, <2>0, <2>5, <3>1, CheckAnswersStep
    <3>2. CASE ~(ssl[e].seen /\ ~ssl[e].sent)
      BY <1>6, <2>0, <2>5, <3>2, CheckNothingStep
    <3> QED BY <3>1, <3>2
  <2> QED BY <1>6, <2>1, <2>2, <2>3, <2>4, <2>5 DEF Read
<1>7. ASSUME NEW e \in Ends, Running(e), Callback(e), UNCHANGED stack PROVE IInv'
  <2>0. UNCHANGED <<stack, Configuration>>
    BY <1>1, <1>7
  <2>1. CASE Announce(e)
    BY <1>7, <2>0, <2>1, AnnounceStep
  <2>2. CASE OnConnected(e)
    BY <1>7, <2>0, <2>2, OnConnectedStep
  <2>3. CASE OnReceived(e)
    BY <1>7, <2>0, <2>3, OnReceivedStep
  <2>4. CASE Report(e)
    BY <1>7, <2>0, <2>4, ReportStep
  <2>5. CASE OnDisconnected(e)
    BY <1>7, <2>0, <2>5, OnDisconnectedStep
  <2>6. CASE Write(e)
    <3>1. CASE status[e] = "connected"
      BY <1>7, <2>0, <2>6, <3>1, WriteRecordStep
    <3>2. CASE status[e] # "connected"
      BY <1>7, <2>0, <2>6, <3>2, WriteNothingStep
    <3> QED BY <3>1, <3>2
  <2>7. CASE Return(e)
    BY <1>7, <2>0, <2>7, ReturnStep
  <2> QED BY <1>7, <2>1, <2>2, <2>3, <2>4, <2>5, <2>6, <2>7 DEF Callback
<1>8. ASSUME NEW e \in Ends, Step(e) PROVE IInv'
  BY <1>4, <1>5, <1>6, <1>7, <1>8 DEF Step
<1> QED BY <1>2, <1>3, <1>8 DEF Next

(* What an application was given is a prefix of what the other one wrote. *)
LEMMA Prefix ==
  ASSUME NEW a \in Seq(Nat), NEW b \in Seq(Nat)
  PROVE  Take(a \o b, Len(a)) = a
<1> DEFINE u == a \o b
           v == Take(u, Len(a))
<1>1. /\ u \in Seq(Nat) /\ Len(u) = Len(a) + Len(b) /\ Len(a) \in Nat /\ Len(b) \in Nat
      /\ \A i \in 1 .. Len(a) : u[i] = a[i]
  BY Parts
<1> HIDE DEF u
<1>2. v \in Seq(Nat) /\ Len(v) = Least(Len(a), Len(u)) /\ \A i \in 1 .. Len(v) : v[i] = u[i]
  BY <1>1, Cut
<1>3. Len(v) = Len(a)
  BY <1>1, <1>2 DEF Least
<1> HIDE DEF v
<1>4. \A i \in 1 .. Len(a) : v[i] = a[i]
  BY <1>1, <1>2, <1>3
<1>5. v = a
  BY <1>2, <1>3, <1>4, SeqEqual
<1> QED BY <1>5 DEF u, v

(* What was given is a prefix of what was written.                         *)
LEMMA GivenPrefix ==
  ASSUME IInv, NEW e \in Ends
  PROVE  \E r \in Seq(Nat) : received[e] \o r = wrote[Peer(e)]
<1>1. Types /\ Streams
  BY Invariants
<1>2. received[e] \in Seq(Nat) /\ arg[e] \in Seq(Nat)
  BY <1>1 DEF Types
<1>3. CASE ssl[e].fatal
  BY <1>1, <1>3 DEF Streams, Broken
<1>4. CASE ~ssl[e].fatal
  <2>1. PICK h \in Nat, d \in Seq(Nat), c \in {0, 1}, r \in Seq(Nat) : Holds(e, h, d, c, r)
    BY <1>1, <1>4 DEF Streams, Stream
  <2>2. (received[e] \o arg[e]) \o (d \o r) = wrote[Peer(e)]
    BY <2>1 DEF Holds
  <2>3. d \o r \in Seq(Nat)
    BY Lengths
  <2>4. Associates(received[e], arg[e], d \o r)
    BY <1>2, <2>3, Association
  <2>5. arg[e] \o (d \o r) \in Seq(Nat)
    BY <1>2, <2>3, Lengths
  <2> QED BY <2>2, <2>4, <2>5 DEF Associates
<1> QED BY <1>3, <1>4

(* The properties follow from IInv.                                        *)
LEMMA OrderKept == IInv => DataInOrder
<1> SUFFICES ASSUME IInv, NEW e \in Ends
             PROVE  received[e] = Take(wrote[Peer(e)], Len(received[e]))
  BY DEF DataInOrder
<1>1. PICK r \in Seq(Nat) : received[e] \o r = wrote[Peer(e)]
  BY GivenPrefix
<1>2. received[e] \in Seq(Nat)
  BY Invariants DEF Types
<1>3. Take(received[e] \o r, Len(received[e])) = received[e]
  BY <1>2, Prefix
<1> QED BY <1>1, <1>3

LEMMA TellsFirst == IInv => ConnectedFirst
<1> SUFFICES ASSUME IInv, NEW e \in Ends
             PROVE  /\ received[e] # <<>> \/ wrote[e] # <<>> \/ ended[e] > 0 => told[e] > 0
                    /\ transport = "queued" => told[e] <= 1
  BY DEF ConnectedFirst
<1>1. Types /\ Told /\ Queued
  BY Invariants
<1>2. told[e] \in Nat /\ ended[e] \in Nat
  BY <1>1 DEF Types, TypeOK
<1>3. told[e] = 0 => received[e] = <<>> /\ wrote[e] = <<>> /\ ended[e] = 0
  BY <1>1 DEF Told
<1>4. transport = "queued" => told[e] <= 1
  BY <1>1 DEF Queued
<1> QED BY <1>2, <1>3, <1>4

(* Behind the close_notify of the peer there is nothing.                   *)
LEMMA EndsClean == IInv => CloseIsClean
<1> SUFFICES ASSUME IInv, NEW e \in Ends
             PROVE  /\ ended[e] > 0 => received[e] = wrote[Peer(e)]
                    /\ status[e] = "peer_closing" => wire[Peer(e)] = <<>>
                    /\ transport = "queued" => ended[e] <= 1
  BY DEF CloseIsClean
<1>1. Types /\ Streams /\ Closing /\ Ending /\ Queued /\ Peer(e) \in Ends
  BY Invariants, TwoEnds
<1>2. /\ in[e] \in Seq(Cells) /\ wire[Peer(e)] \in Seq(Cells) /\ stuck[Peer(e)] \in Seq(Cells)
      /\ received[e] \in Seq(Nat)
  BY <1>1 DEF Types
<1>3. ssl[e].seen => wire[Peer(e)] = <<>> /\ stuck[Peer(e)] = <<>>
  <2>1. \A x, y \in Seq(Cells) : x \o y = <<>> <=> x = <<>> /\ y = <<>>
    BY Parts
  <2>2. Near(e) \in Seq(Cells)
    BY <1>2, Lengths DEF Near
  <2>3. Way(e) = <<>> <=> Near(e) = <<>> /\ stuck[Peer(e)] = <<>>
    BY <1>2, <2>1, <2>2 DEF Way
  <2>4. Near(e) = <<>> <=> in[e] = <<>> /\ wire[Peer(e)] = <<>>
    BY <1>2, <2>1 DEF Near
  <2> QED BY <1>1, <2>3, <2>4 DEF Closing
<1>4. status[e] = "peer_closing" => wire[Peer(e)] = <<>>
  BY <1>1, <1>3 DEF Closing
<1>5. ASSUME ended[e] > 0 PROVE received[e] = wrote[Peer(e)]
  <2>1. Closed(e) /\ ssl[e].seen /\ Way(e) = <<>> /\ arg[e] = <<>>
    BY <1>1, <1>5 DEF Ending, Closing
  <2>2. ~ssl[e].fatal
    BY <1>1, <2>1 DEF Streams, Broken
  <2>3. PICK h \in Nat, d \in Seq(Nat), c \in {0, 1}, r \in Seq(Nat) : Holds(e, h, d, c, r)
    BY <1>1, <2>2 DEF Streams, Stream
  <2>4. /\ Shape(Way(e), h, d, c) /\ (received[e] \o arg[e]) \o (d \o r) = wrote[Peer(e)]
        /\ stuck[Peer(e)] = <<>> => r = <<>>
    BY <2>3 DEF Holds
  <2>5. d = <<>> /\ r = <<>>
    <3>1. Len(Way(e)) = h + Len(d) + c /\ Len(Way(e)) = 0 /\ Len(d) \in Nat
      BY <2>1, <2>4, EmptySeq, LenProperties DEF Shape
    <3>2. Len(d) = 0
      <4>1. \A i, j \in Nat, k \in {0, 1} : 0 = i + j + k => j = 0
        OBVIOUS
      <4> QED BY <2>3, <3>1, <4>1
    <3>3. d = <<>>
      BY <3>2, EmptySeq
    <3>4. r = <<>>
      BY <1>3, <2>1, <2>4
    <3> QED BY <3>3, <3>4
  <2>6. (received[e] \o <<>>) \o (<<>> \o <<>>) = received[e]
    <3>1. <<>> \o <<>> = <<>>
      BY EmptySeq, ConcatEmptySeq
    <3>2. received[e] \o <<>> = received[e]
      BY <1>2, ConcatEmptySeq
    <3> QED BY <3>1, <3>2
  <2> QED BY <2>1, <2>4, <2>5, <2>6
<1>6. transport = "queued" => ended[e] <= 1
  BY <1>1 DEF Queued
<1> QED BY <1>4, <1>5, <1>6

-----------------------------------------------------------------------------
(* The theorems *)

(* The invariant holds in every state: the stream towards each end is what *)
(* the other one wrote, and the handlers wait for each other as described. *)
THEOREM Invariance == Spec => [](IInv /\ Quiet)
<1>1. Init => IInv /\ Quiet
  BY InitialState
<1>2. (IInv /\ Quiet) /\ [Next]_vars => (IInv /\ Quiet)'
  BY NextStep, QuietStays, Stuttering
<1> QED BY <1>1, <1>2, PTL DEF Spec

(* Every field of both streams, of their SSL objects, BIOs and handlers    *)
(* has its type; no BIO holds more than its size.                          *)
THEOREM TypeCorrect == Spec => []TypeOK
<1>1. IInv => TypeOK
  BY DEF IInv, Types
<1> QED BY <1>1, Invariance, PTL

(* on_received, do_connect and do_shutdown never offer BIO_write more than *)
(* the incoming BIO takes: none of them checks what it returned.           *)
THEOREM InputAlwaysTaken == Spec => []InputTaken
<1>1. IInv => InputTaken
  BY DEF IInv, InputTaken
<1> QED BY <1>1, Invariance, PTL

(* Each application is given what the other one passed to write, in order  *)
(* and without gaps, over either transport, for all sizes of the BIOs, of  *)
(* the records and of the messages, and whoever disconnects when.          *)
THEOREM DataStaysInOrder == Spec => []DataInOrder
BY OrderKept, Invariance, PTL

(* on_connected comes before any other callback and before any write that  *)
(* counts, and only once when the transport is a queued one.               *)
THEOREM ToldFirst == Spec => []ConnectedFirst
BY TellsFirst, Invariance, PTL

(* on_disconnected is called only when everything the peer wrote has been  *)
(* handed up, on_received ignores nothing in peer_closing, and a queued    *)
(* transport leads to one on_disconnected.                                 *)
THEOREM CloseStaysClean == Spec => []CloseIsClean
BY EndsClean, Invariance, PTL
=============================================================================
