------------------------- MODULE DescriptorsProofs -------------------------
(***************************************************************************)
(* SoleOwner holds for any number of objects and descriptors, on every     *)
(* platform: together with the type invariant it is inductive.  Each       *)
(* operation is a step below, and each part of the invariant a step below  *)
(* the operation.                                                          *)
(***************************************************************************)
EXTENDS Descriptors, TLAPS

Inv == TypeOK /\ SoleOwner

(* invalid_fd is no descriptor. *)
LEMMA NoneIsNoFd == None \notin Fds
BY DescriptorAssumption DEF None, DescriptorAssumption

USE NoneIsNoFd, DescriptorAssumption
    DEF DescriptorAssumption, Inv, TypeOK, SoleOwner, Unshared, HeldOpen, Owned, HeldByOwner,
        Valid, HasImpl, Objs, Histories

(* Initially there is no object and no open descriptor.                    *)
LEMMA InitInv == Init => Inv
BY DEF Init

(* An object that gets a descriptor which nobody holds, or none, in the    *)
(* place of its own: construction, accept and create_impl.                 *)
LEMMA NewDescriptor ==
    ASSUME Inv, NEW x \in Objs, NEW n \in (Fds \ (open \ {holds[x]})) \cup {None},
           holds' = [holds EXCEPT ![x] = n],
           open' = (open \ {holds[x]}) \cup ({n} \ {None}),
           alive' = alive \cup {x},
           IF x \in AsyncObjs THEN parent' = [parent EXCEPT ![x] = x] ELSE parent' = parent,
           Histories
    PROVE  Inv'
<1>1. n \in Fds \/ n = None
  OBVIOUS
<1>2. holds' \in [Objs -> Fds \cup {None}] /\ open' \subseteq Fds
  BY <1>1
<1>3. TypeOK'
  BY <1>2
<1>4. Unshared'
  BY <1>1
<1>5. HeldOpen'
  BY <1>1
<1>6. Owned'
  BY <1>1
<1>7. HeldByOwner'
  OBVIOUS
<1> QED BY <1>3, <1>4, <1>5, <1>6, <1>7

(* An object that closes what it has.  The destructor ends its life, too.  *)
LEMMA Closing ==
    ASSUME Inv, NEW x \in Objs,
           holds' = [holds EXCEPT ![x] = None],
           open' = open \ {holds[x]},
           \/ alive' = alive /\ parent' = parent
           \/ /\ alive' = alive \ {x}
              /\ IF x \in AsyncObjs THEN parent' = [parent EXCEPT ![x] = Nobody] ELSE parent' = parent,
           Histories
    PROVE  Inv'
<1>1. TypeOK'
  BY ZenonT(30)
<1>2. Unshared'
  OBVIOUS
<1>3. HeldOpen'
  OBVIOUS
<1>4. Owned'
  OBVIOUS
<1>5. HeldByOwner'
  OBVIOUS
<1> QED BY <1>1, <1>2, <1>3, <1>4, <1>5

(* A descriptor that goes from one object to another one, whose own is     *)
(* closed or forgotten.                                                    *)
LEMMA Moving ==
    ASSUME Inv, NEW d \in Objs, NEW s \in alive, d # s,
           holds' = [holds EXCEPT ![d] = holds[s], ![s] = None],
           alive' = alive \cup {d},
           \/ open' = open \ {holds[d]} /\ forgotten' = forgotten
           \/ /\ platform # "linux"
              /\ open' = open /\ forgotten' = forgotten \cup ({holds[d]} \ {None}),
           UNCHANGED <<platform, unaccepted>>,
           \/ {d, s} \cap AsyncObjs = {} /\ parent' = parent
           \/ /\ {d, s} \subseteq AsyncObjs
              /\ \E p \in {s, Nobody} : parent' = [parent EXCEPT ![d] = d, ![s] = p]
    PROVE  Inv'
<1>0. s \in Objs /\ holds[d] \in Fds \cup {None} /\ holds[s] \in Fds \cup {None}
  OBVIOUS
<1>1. TypeOK'
  <2>1. holds' \in [Objs -> Fds \cup {None}]
    BY <1>0
  <2>2. open' \subseteq Fds /\ forgotten' \subseteq Fds /\ alive' \subseteq Objs
    BY <1>0, ZenonT(30)
  <2>3. parent' \in [AsyncObjs -> AsyncObjs \cup {Nobody}]
    <3>1. CASE parent' = parent
      BY <3>1
    <3>2. CASE {d, s} \subseteq AsyncObjs /\ \E p \in {s, Nobody} : parent' = [parent EXCEPT ![d] = d, ![s] = p]
      BY <3>2
    <3> QED BY <3>1, <3>2
  <2> QED BY <2>1, <2>2, <2>3
<1>2. Unshared'
  OBVIOUS
<1>3. HeldOpen'
  <2>1. holds[d] # None => holds[d] \in open \ (forgotten \cup unaccepted)
    OBVIOUS
  <2>2. (forgotten \cup unaccepted \subseteq open)'
    <3>1. CASE open' = open \ {holds[d]} /\ forgotten' = forgotten
      <4>1. None \notin forgotten \cup unaccepted
        OBVIOUS
      <4>2. holds[d] \notin forgotten \cup unaccepted
        BY <2>1, <4>1
      <4> QED BY <3>1, <4>2
    <3>2. CASE open' = open /\ forgotten' = forgotten \cup ({holds[d]} \ {None})
      BY <2>1, <3>2
    <3> QED BY <3>1, <3>2
  <2>3. ASSUME NEW x \in Objs, holds'[x] # None
        PROVE  \E y \in Objs : y # d /\ holds[y] = holds'[x] /\ holds[y] # None
    <3>1. CASE x = d
      BY <2>3, <3>1, <1>0
    <3>2. CASE x # d
      BY <2>3, <3>2, <1>0
    <3> QED BY <3>1, <3>2
  <2>4. ASSUME NEW x \in Objs, holds'[x] # None
        PROVE  holds'[x] \in open' \ (forgotten' \cup unaccepted')
    <3>1. PICK y \in Objs : y # d /\ holds[y] = holds'[x] /\ holds[y] # None
      BY <2>3, <2>4
    <3>2. holds[y] \in open \ (forgotten \cup unaccepted) /\ holds[y] # holds[d]
      BY <3>1
    <3> QED BY <3>1, <3>2
  <2> QED BY <2>2, <2>4
<1>4. Owned'
  <2> SUFFICES ASSUME NEW n \in open' \ (forgotten' \cup unaccepted')
               PROVE  \E x \in alive' : holds'[x] = n
    OBVIOUS
  <2>1. PICK x \in alive : holds[x] = n
    OBVIOUS
  <2>2. CASE x = s
    BY <2>1, <2>2
  <2>3. CASE x # s
    BY <2>1, <2>3
  <2> QED BY <2>2, <2>3
<1>5. HeldByOwner'
  OBVIOUS
<1> QED BY <1>1, <1>2, <1>3, <1>4, <1>5

-----------------------------------------------------------------------------
(* Every operation of the synchronous sockets is one of these.             *)
LEMMA SyncKeepsInv ==
    ASSUME Inv, SyncNext
    PROVE  Inv'
<1> SUFFICES ASSUME NEW s \in SyncObjs,
                    \/ SyncConstruct(s) \/ SyncClose(s) \/ StreamConnect(s) \/ CreateIfInvalid(s)
                    \/ \E d \in SyncObjs : SyncMove(d, s) \/ SyncAssign(d, s) \/ StreamAccept(d, s)
             PROVE  Inv'
  BY DEF SyncNext
<1>1. CASE SyncConstruct(s)
  BY <1>1 DEF SyncConstruct
<1>2. CASE SyncClose(s)
  <2> USE <1>2 DEF SyncClose
  <2> QED BY Closing
<1>3. CASE StreamConnect(s) \/ CreateIfInvalid(s)
  <2> USE <1>3 DEF StreamConnect, CreateIfInvalid, CreateImpl
  <2>1. PICK n \in (Fds \ (open \ {holds[s]})) \cup {None} :
            /\ holds' = [holds EXCEPT ![s] = n]
            /\ open' = (open \ {holds[s]}) \cup ({n} \ {None})
    OBVIOUS
  <2>2. alive' = alive \cup {s} /\ parent' = parent /\ Histories /\ s \notin AsyncObjs
    OBVIOUS
  <2> QED BY <2>1, <2>2, NewDescriptor
<1>4. ASSUME NEW d \in SyncObjs, SyncMove(d, s)
      PROVE  Inv'
  <2> USE <1>4 DEF SyncMove
  <2>1. d # s /\ s \in alive /\ {d, s} \cap AsyncObjs = {}
    OBVIOUS
  <2>2. holds[d] = None /\ None \notin open
    OBVIOUS
  <2>3. open' = open \ {holds[d]} /\ forgotten' = forgotten
    BY <2>2
  <2>4. /\ holds' = [holds EXCEPT ![d] = holds[s], ![s] = None]
        /\ alive' = alive \cup {d}
        /\ UNCHANGED <<platform, unaccepted>> /\ parent' = parent
    OBVIOUS
  <2> QED BY <2>1, <2>3, <2>4, Moving
<1>6. ASSUME NEW d \in SyncObjs, SyncAssign(d, s)
      PROVE  Inv'
  <2> USE <1>6 DEF SyncAssign, CloseClosesSockets
  <2>1. d # s /\ s \in alive /\ {d, s} \cap AsyncObjs = {}
    OBVIOUS
  <2>2. \/ open' = open \ {holds[d]} /\ forgotten' = forgotten
        \/ /\ platform # "linux"
           /\ open' = open /\ forgotten' = forgotten \cup ({holds[d]} \ {None})
    OBVIOUS
  <2>3. /\ holds' = [holds EXCEPT ![d] = holds[s], ![s] = None]
        /\ alive' = alive \cup {d}
        /\ UNCHANGED <<platform, unaccepted>> /\ parent' = parent
    OBVIOUS
  <2> QED BY <2>1, <2>2, <2>3, Moving
<1>5. ASSUME NEW d \in SyncObjs, StreamAccept(d, s)
      PROVE  Inv'
  <2> USE <1>5 DEF StreamAccept, NewFds
  <2>1. holds[d] = None /\ None \notin open
    OBVIOUS
  <2>2. PICK n \in NewFds : holds' = [holds EXCEPT ![d] = n] /\ open' = open \cup ({n} \ {None})
    OBVIOUS
  <2>3. /\ n \in (Fds \ (open \ {holds[d]})) \cup {None}
        /\ open' = (open \ {holds[d]}) \cup ({n} \ {None})
    BY <2>1, <2>2
  <2>4. alive' = alive \cup {d} /\ parent' = parent /\ Histories /\ d \notin AsyncObjs
    OBVIOUS
  <2> HIDE <1>5
  <2> QED BY <2>2, <2>3, <2>4, NewDescriptor
<1> QED BY <1>1, <1>2, <1>3, <1>4, <1>5, <1>6

(* The same for the asynchronous ones, which have a pimpl besides.         *)
LEMMA AsyncKeepsInv ==
    ASSUME Inv, AsyncNext
    PROVE  Inv'
<1> SUFFICES ASSUME NEW a \in AsyncObjs,
                    \/ AsyncConstruct(a) \/ AsyncClose(a) \/ AsyncDestroy(a) \/ NotAccepted(a)
                    \/ \E d \in AsyncObjs : AsyncMove(d, a) \/ AsyncAssign(d, a) \/ AsyncAccepted(d, a)
             PROVE  Inv'
  BY DEF AsyncNext
<1>1. CASE AsyncConstruct(a)
  <2> USE <1>1 DEF AsyncConstruct, NewFds
  <2>1. holds[a] = None /\ None \notin open
    OBVIOUS
  <2>2. PICK n \in NewFds : holds' = [holds EXCEPT ![a] = n] /\ open' = open \cup ({n} \ {None})
    OBVIOUS
  <2>3. /\ n \in (Fds \ (open \ {holds[a]})) \cup {None}
        /\ open' = (open \ {holds[a]}) \cup ({n} \ {None})
    BY <2>1, <2>2
  <2>4. alive' = alive \cup {a} /\ parent' = [parent EXCEPT ![a] = a] /\ Histories
    OBVIOUS
  <2> HIDE <1>1
  <2> QED BY <2>2, <2>3, <2>4, NewDescriptor
<1>2. CASE AsyncClose(a) \/ AsyncDestroy(a)
  <2> USE <1>2 DEF AsyncClose, AsyncDestroy
  <2> QED BY Closing
<1>3. CASE NotAccepted(a)
  <2> USE <1>3 DEF NotAccepted
  <2>1. TypeOK' /\ Unshared' /\ HeldByOwner'
    OBVIOUS
  <2>2. HeldOpen' /\ Owned'
    OBVIOUS
  <2> QED BY <2>1, <2>2
<1>4. ASSUME NEW d \in AsyncObjs, AsyncMove(d, a)
      PROVE  Inv'
  <2> USE <1>4 DEF AsyncMove
  <2>1. d # a /\ a \in alive /\ holds[d] = None /\ None \notin open
    OBVIOUS
  <2> QED BY <2>1, Moving, ZenonT(30)
<1>5. ASSUME NEW d \in AsyncObjs, AsyncAssign(d, a), d # a
      PROVE  Inv'
  <2> USE <1>5 DEF AsyncAssign, ImplCloses, SourceGetsImpl
  <2>1. None \notin open
    OBVIOUS
  <2>2. \/ open' = open \ {holds[d]} /\ forgotten' = forgotten
        \/ /\ platform # "linux"
           /\ open' = open /\ forgotten' = forgotten \cup ({holds[d]} \ {None})
    <3>1. CASE platform = "linux"
      BY <3>1, <1>5, <2>1
    <3>2. CASE platform # "linux"
      BY <3>2, <1>5
    <3> QED BY <3>1, <3>2
  <2>3. a \in alive /\ {d, a} \subseteq AsyncObjs /\ alive' = alive \cup {d}
        /\ holds' = [holds EXCEPT ![d] = holds[a], ![a] = None]
        /\ UNCHANGED <<platform, unaccepted>>
        /\ \E p \in {a, Nobody} : parent' = [parent EXCEPT ![d] = d, ![a] = p]
    OBVIOUS
  <2> QED BY <2>2, <2>3, <1>5, Moving
<1>6. ASSUME AsyncAssign(a, a)
      PROVE  Inv'
  <2> USE <1>6 DEF AsyncAssign, ImplCloses, SourceGetsImpl
  <2>1. CASE platform = "windows"
    <3> USE <2>1
    <3>1. open' = open /\ forgotten' = forgotten \cup ({holds[a]} \ {None}) /\ alive' = alive
          /\ unaccepted' = unaccepted /\ platform' = platform
      OBVIOUS
    <3>2. holds' = [holds EXCEPT ![a] = None] /\ parent' = [parent EXCEPT ![a] = a] /\ a \in alive
      OBVIOUS
    <3> HIDE <1>6
    <3>3. TypeOK'
      <4>1. holds' \in [Objs -> Fds \cup {None}] /\ forgotten' \subseteq Fds
        <5>1. holds[a] \in Fds \cup {None} /\ forgotten \subseteq Fds
          OBVIOUS
        <5>2. holds' \in [Objs -> Fds \cup {None}]
          BY <3>2
        <5> QED BY <3>1, <5>1, <5>2, Zenon
      <4> QED BY <4>1, <3>1, <3>2
    <3>4. Unshared' /\ HeldByOwner'
      BY <3>1, <3>2
    <3>5. HeldOpen'
      <4>0. {holds[a]} \ {None} \subseteq open
        OBVIOUS
      <4>1. (forgotten \cup unaccepted \subseteq open)'
        BY <4>0, <3>1
      <4>2. ASSUME NEW x \in Objs, holds'[x] # None
            PROVE  holds'[x] \in open' \ (forgotten' \cup unaccepted')
        <5>1. x # a /\ holds'[x] = holds[x] /\ holds[x] # holds[a]
          BY <3>2, <4>2
        <5> QED BY <5>1, <4>2, <3>1
      <4> QED BY <4>1, <4>2
    <3>6. Owned'
      BY <3>1, <3>2
    <3> QED BY <3>3, <3>4, <3>5, <3>6
  <2>2. CASE platform # "windows"
    <3>1. open' = open /\ UNCHANGED <<platform, alive, holds, parent, forgotten, unaccepted>>
      BY <2>2
    <3> QED BY <3>1
  <2> QED BY <2>1, <2>2
<1>7. ASSUME NEW d \in AsyncObjs, AsyncAccepted(d, a)
      PROVE  Inv'
  <2> USE <1>7 DEF AsyncAccepted
  <2>1. holds[d] = None /\ None \notin open
    OBVIOUS
  <2>2. PICK n \in Fds \ open : holds' = [holds EXCEPT ![d] = n] /\ open' = open \cup {n}
    OBVIOUS
  <2>3. /\ n \in (Fds \ (open \ {holds[d]})) \cup {None}
        /\ open' = (open \ {holds[d]}) \cup ({n} \ {None})
    BY <2>1, <2>2
  <2>4. alive' = alive \cup {d} /\ parent' = [parent EXCEPT ![d] = d] /\ Histories
    OBVIOUS
  <2> HIDE <1>7
  <2> QED BY <2>2, <2>3, <2>4, NewDescriptor
<1> QED BY <1>1, <1>2, <1>3, <1>4, <1>5, <1>6, <1>7

(* However the objects are constructed, moved, assigned, closed and        *)
(* destroyed, every open descriptor has exactly one owner, and the ones    *)
(* that lost theirs are the ones the comment of Owned names.               *)
THEOREM SoleOwnerHolds == Spec => []SoleOwner
<1>1. Inv /\ [Next]_vars => Inv'
  <2>1. CASE Next
    BY <2>1, SyncKeepsInv, AsyncKeepsInv DEF Next
  <2>2. CASE UNCHANGED vars
    BY <2>2 DEF vars
  <2> QED BY <2>1, <2>2
<1>2. Inv => SoleOwner
  OBVIOUS
<1> QED BY InitInv, <1>1, <1>2, PTL DEF Spec
=============================================================================
