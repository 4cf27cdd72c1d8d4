------------------------------- MODULE TcpLink -------------------------------
(***************************************************************************)
(* The kernel's side of one TCP connection, external to the code: the      *)
(* buffers of both ends, the handshake, and what an end sees of the other  *)
(* end's close.  The socket modules of the three platforms extend it.      *)
(***************************************************************************)
EXTENDS Naturals, Sequences

CONSTANTS Client, Server,   \* the two ends
          SndCap,           \* bytes a kernel send buffer holds
          RcvCap            \* bytes a kernel receive buffer holds

ASSUME LinkAssumption == Client # Server /\ {SndCap, RcvCap} \subseteq Nat \ {0}

VARIABLES link,     \* the connection: none, syn, up, refused
          net       \* per end: send and receive buffer, closed by its program,
                    \* end of stream seen, reset by the other end, pending error

linkVars == <<link, net>>

Ends == {Client, Server}
Peer(s) == IF s = Client THEN Server ELSE Client
Drop(q, n) == SubSeq(q, n + 1, Len(q))
Least(S) == CHOOSE n \in S : \A k \in S : n <= k
IsPrefixOf(p, q) == Len(p) <= Len(q) /\ p = SubSeq(q, 1, Len(p))

LinkInit ==
    /\ link = "none"
    /\ net = [s \in Ends |-> [snd |-> <<>>, rcv |-> <<>>, closed |-> FALSE,
                              eof |-> FALSE, reset |-> FALSE, err |-> FALSE]]

Room(s) == SndCap - Len(net[s].snd)

(* There is nothing more to come: recv says so, or fails.                  *)
Over(s) == net[s].eof \/ net[s].reset \/ (s = Client /\ link = "refused")

(* The other kernel completes or refuses the handshake, on its own: the    *)
(* connection waits in the backlog, with its buffers, until it is accepted.*)
Establish ==
    /\ link = "syn" /\ ~net[Client].closed
    /\ link' = "up"
    /\ UNCHANGED net

Refuse ==
    /\ link = "syn" /\ ~net[Client].closed
    /\ link' = "refused"
    /\ net' = [net EXCEPT ![Client].err = TRUE]

(* A byte crosses.  An end that is closed answers data with a reset.       *)
Transfer(s) ==
    /\ net[s].snd # <<>>
    /\ IF net[Peer(s)].closed
       THEN net' = [net EXCEPT ![s].snd = <<>>, ![s].reset = TRUE, ![s].err = TRUE]
       ELSE /\ Len(net[Peer(s)].rcv) < RcvCap
            /\ net' = [net EXCEPT ![s].snd = Tail(@), ![Peer(s)].rcv = Append(@, Head(net[s].snd))]
    /\ UNCHANGED link

DeliverFin(s) ==
    /\ link = "up"
    /\ net[s].closed /\ net[s].snd = <<>> /\ ~net[s].reset
    /\ ~net[Peer(s)].eof
    /\ net' = [net EXCEPT ![Peer(s)].eof = TRUE]
    /\ UNCHANGED link

(* The program closes an end.  With unread bytes the connection is reset.  *)
AfterClose(s) ==
    IF net[s].closed THEN net
    ELSE IF net[s].rcv = <<>> THEN [net EXCEPT ![s].closed = TRUE]
    ELSE [net EXCEPT ![s].closed = TRUE, ![s].snd = <<>>,
                     ![Peer(s)].reset = TRUE, ![Peer(s)].err = TRUE]

LinkStep == Establish \/ Refuse \/ \E s \in Ends : Transfer(s) \/ DeliverFin(s)

LinkTypeOK ==
    /\ link \in {"none", "syn", "up", "refused"}
    /\ \A s \in Ends :
        /\ Len(net[s].snd) \in 0..SndCap /\ Len(net[s].rcv) \in 0..RcvCap
        /\ {net[s].closed, net[s].eof, net[s].reset, net[s].err} \subseteq BOOLEAN
=============================================================================
