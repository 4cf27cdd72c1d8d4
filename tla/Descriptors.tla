---------------------------- MODULE Descriptors ----------------------------
(***************************************************************************)
(* Who owns a descriptor: the synchronous sockets (sync::socket_base and   *)
(* the stream and datagram sockets of socket.inl, which hold one) and the  *)
(* asynchronous ones (async_socket_base with its socket_base_pimpl), as    *)
(* they are constructed, moved, closed and destroyed.                      *)
(*                                                                         *)
(* The classes are written three times, once for each platform, with the   *)
(* same interface; platform says which of them is at work.                 *)
(***************************************************************************)
EXTENDS Integers

CONSTANTS SyncObjs, AsyncObjs,      \* where objects may be
          Fds,                      \* the descriptors the process may have open
          Platforms                 \* some of linux, macos, windows

Objs == SyncObjs \cup AsyncObjs
None == -1                          \* invalid_fd
Nobody == "nobody"

ASSUME DescriptorAssumption ==
    /\ SyncObjs \cap AsyncObjs = {} /\ Nobody \notin Objs
    /\ Fds \subseteq Nat
    /\ Platforms \subseteq {"linux", "macos", "windows"}

VARIABLES platform,     \* never changes
          open,         \* the open descriptors
          alive,        \* the objects that exist
          holds,        \* fd_ of each object, None if it has no pimpl either
          parent,       \* parent_ of the pimpl of each async object, Nobody if it has none
          forgotten,    \* history: descriptors whose last owner was assigned over
          unaccepted    \* history: descriptors of connections that nobody wanted

vars == <<platform, open, alive, holds, parent, forgotten, unaccepted>>

Init ==
    /\ platform \in Platforms
    /\ open = {} /\ alive = {}
    /\ holds = [x \in Objs |-> None] /\ parent = [a \in AsyncObjs |-> Nobody]
    /\ forgotten = {} /\ unaccepted = {}

(* socket(2), accept(2): a descriptor that is not in use, or a failure.    *)
NewFds == (Fds \ open) \cup {None}
Valid(x) == holds[x] # None
Histories == UNCHANGED <<platform, forgotten, unaccepted>>

-----------------------------------------------------------------------------
(* sync::socket_base *)

SyncConstruct(s) ==
    /\ s \notin alive
    /\ alive' = alive \cup {s}
    /\ UNCHANGED <<open, holds, parent>> /\ Histories

SyncMoveShares(d, s) ==             \* mutant: other.fd_ is not reset
    /\ d \notin alive /\ s \in alive
    /\ alive' = alive \cup {d}
    /\ holds' = [holds EXCEPT ![d] = holds[s]]
    /\ UNCHANGED <<open, parent>> /\ Histories

SyncMove(d, s) ==
    /\ d \notin alive /\ s \in alive
    /\ alive' = alive \cup {d}
    /\ holds' = [holds EXCEPT ![d] = holds[s], ![s] = None]
    /\ UNCHANGED <<open, parent>> /\ Histories

(* Assigning closes what the object has, with close(2): on Windows that is *)
(* not the function that closes a socket.                                  *)
CloseClosesSockets == platform # "windows"

SyncAssign(d, s) ==
    /\ {d, s} \subseteq alive /\ d # s
    /\ holds' = [holds EXCEPT ![d] = holds[s], ![s] = None]
    /\ IF CloseClosesSockets
       THEN open' = open \ {holds[d]} /\ UNCHANGED forgotten
       ELSE forgotten' = forgotten \cup ({holds[d]} \ {None}) /\ UNCHANGED open
    /\ UNCHANGED <<platform, alive, parent, unaccepted>>

(* close, and the destructor.                                              *)
SyncClose(s) ==
    /\ s \in alive
    /\ open' = open \ {holds[s]}
    /\ holds' = [holds EXCEPT ![s] = None]
    /\ alive' \in {alive, alive \ {s}}
    /\ UNCHANGED parent /\ Histories

(* create_impl replaces the descriptor: connect always calls it, bind,     *)
(* send_to and recv_from do when there is none.                            *)
CreateImpl(s) ==
    /\ s \in alive
    /\ \E n \in (Fds \ (open \ {holds[s]})) \cup {None} :
        /\ holds' = [holds EXCEPT ![s] = n]
        /\ open' = (open \ {holds[s]}) \cup ({n} \ {None})
    /\ UNCHANGED <<alive, parent>> /\ Histories

StreamConnect(s) == CreateImpl(s)
CreateIfInvalid(s) == ~Valid(s) /\ CreateImpl(s)

(* accept gives a socket around the new descriptor, or an invalid one.     *)
StreamAccept(d, s) ==
    /\ d \notin alive /\ s \in alive /\ Valid(s)
    /\ \E n \in NewFds :
        /\ holds' = [holds EXCEPT ![d] = n]
        /\ open' = open \cup ({n} \ {None})
    /\ alive' = alive \cup {d}
    /\ UNCHANGED parent /\ Histories

-----------------------------------------------------------------------------
(* async::async_socket_base *)

HasImpl(a) == parent[a] # Nobody

(* On macOS the constructor registers the descriptor with the kqueue and   *)
(* throws when there is none.                                              *)
AsyncConstruct(a) ==
    /\ a \notin alive
    /\ \E n \in IF platform = "macos" THEN Fds \ open ELSE NewFds :
        /\ holds' = [holds EXCEPT ![a] = n]
        /\ open' = open \cup ({n} \ {None})
    /\ parent' = [parent EXCEPT ![a] = a]
    /\ alive' = alive \cup {a}
    /\ Histories

(* The move constructor dereferences the pimpl it takes: an object that    *)
(* has been moved from cannot be moved again.                              *)
AsyncMove(d, s) ==
    /\ d \notin alive /\ s \in alive /\ HasImpl(s)
    /\ alive' = alive \cup {d}
    /\ holds' = [holds EXCEPT ![d] = holds[s], ![s] = None]
    /\ parent' = [parent EXCEPT ![d] = d, ![s] = Nobody]
    /\ UNCHANGED open /\ Histories

(* Assigning destroys the object's pimpl: only the one of Linux has a      *)
(* destructor that closes the descriptor.  On Windows the source gets a    *)
(* new pimpl, and that is the object itself when it is assigned to itself. *)
ImplCloses == platform = "linux"
SourceGetsImpl == platform = "windows"

AsyncAssign(d, s) ==
    LET old == IF d # s \/ SourceGetsImpl THEN {holds[d]} \ {None} ELSE {} IN
    /\ {d, s} \subseteq alive /\ HasImpl(s)
    /\ IF d = s /\ ~SourceGetsImpl THEN UNCHANGED <<holds, parent>>
       ELSE /\ holds' = [holds EXCEPT ![d] = holds[s], ![s] = None]
            /\ parent' = [parent EXCEPT ![d] = d, ![s] = IF SourceGetsImpl THEN s ELSE Nobody]
    /\ IF ImplCloses THEN open' = open \ old /\ UNCHANGED forgotten
                     ELSE forgotten' = forgotten \cup old /\ UNCHANGED open
    /\ UNCHANGED <<platform, alive, unaccepted>>

(* close, and the destructor, which an object without a pimpl survives.    *)
AsyncClose(a) ==
    /\ a \in alive
    /\ open' = open \ {holds[a]}
    /\ holds' = [holds EXCEPT ![a] = None]
    /\ UNCHANGED <<alive, parent>> /\ Histories

AsyncDestroy(a) ==
    /\ a \in alive
    /\ open' = open \ {holds[a]}
    /\ holds' = [holds EXCEPT ![a] = None]
    /\ parent' = [parent EXCEPT ![a] = Nobody]
    /\ alive' = alive \ {a}
    /\ Histories

(* The loop accepts a connection.  on_accepted moves the socket to where   *)
(* it is kept; without on_accepted nobody closes the descriptor on Linux   *)
(* and macOS (on Windows the listener's operation owns the socket).        *)
AsyncAccepted(d, a) ==
    /\ a \in alive /\ Valid(a) /\ d \notin alive
    /\ \E n \in Fds \ open :
        /\ open' = open \cup {n}
        /\ holds' = [holds EXCEPT ![d] = n]
    /\ parent' = [parent EXCEPT ![d] = d]
    /\ alive' = alive \cup {d}
    /\ Histories

NotAccepted(a) ==
    /\ a \in alive /\ Valid(a) /\ platform # "windows"
    /\ \E n \in Fds \ open :
        /\ open' = open \cup {n}
        /\ unaccepted' = unaccepted \cup {n}
    /\ UNCHANGED <<platform, alive, holds, parent, forgotten>>

-----------------------------------------------------------------------------
SyncNext ==
    \E s \in SyncObjs :
        \/ SyncConstruct(s) \/ SyncClose(s) \/ StreamConnect(s) \/ CreateIfInvalid(s)
        \/ \E d \in SyncObjs : SyncMove(d, s) \/ SyncAssign(d, s) \/ StreamAccept(d, s)
AsyncNext ==
    \E a \in AsyncObjs :
        \/ AsyncConstruct(a) \/ AsyncClose(a) \/ AsyncDestroy(a) \/ NotAccepted(a)
        \/ \E d \in AsyncObjs : AsyncMove(d, a) \/ AsyncAssign(d, a) \/ AsyncAccepted(d, a)

Next == SyncNext \/ AsyncNext
Spec == Init /\ [][Next]_vars

-----------------------------------------------------------------------------
(* Properties *)

TypeOK ==
    /\ platform \in Platforms
    /\ open \subseteq Fds /\ alive \subseteq Objs
    /\ holds \in [Objs -> Fds \cup {None}]
    /\ parent \in [AsyncObjs -> AsyncObjs \cup {Nobody}]
    /\ forgotten \subseteq Fds /\ unaccepted \subseteq Fds

(* No two objects hold the same descriptor: closing one never closes what  *)
(* another one uses.                                                       *)
Unshared == \A x, y \in Objs : x # y /\ Valid(x) => holds[x] # holds[y]

(* What an object holds is open and not one of the lost descriptors, which *)
(* stay open.                                                              *)
HeldOpen ==
    /\ forgotten \cup unaccepted \subseteq open
    /\ \A x \in Objs : Valid(x) => holds[x] \in open \ (forgotten \cup unaccepted)

(* Every open descriptor will be closed by its owner, but for the ones     *)
(* that are lost: on Linux, only by connections that nobody wanted.        *)
Owned ==
    /\ \A n \in open \ (forgotten \cup unaccepted) : \E x \in alive : holds[x] = n
    /\ platform = "linux" => forgotten = {}

(* Only an object that exists holds one, and callbacks are given the       *)
(* object that has the pimpl.                                              *)
HeldByOwner ==
    /\ \A x \in Objs : Valid(x) => x \in alive
    /\ \A a \in AsyncObjs : HasImpl(a) => parent[a] = a /\ a \in alive
    /\ \A a \in AsyncObjs : Valid(a) => HasImpl(a)

(* Moves, assignments and closes in any order leave every open descriptor  *)
(* with exactly one owner.                                                 *)
SoleOwner == Unshared /\ HeldOpen /\ Owned /\ HeldByOwner
=============================================================================
