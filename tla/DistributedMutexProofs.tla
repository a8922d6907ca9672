------------------------ MODULE DistributedMutexProofs ------------------------
(***************************************************************************)
(* Mutual exclusion of the relay-initialisation mutex, for every finite    *)
(* set of relays, under the conditions its design comment assumes: every   *)
(* relay is in every view, none crashes, each calls acquire() at most      *)
(* once, and no lease runs out.  Messages may be delayed, reordered and    *)
(* retried at will.                                                        *)
(***************************************************************************)
EXTENDS DistributedMutex, FiniteSetTheorems, WellFoundedInduction, TLAPS

\* Nobody has crashed and nobody has been pruned.
Stable == \A n \in Node : alive[n] /\ members[n] = Node

\* What is on the wire or deferred names another node that has begun its request.
Provenance ==
    /\ \A m \in msgs : m.from # m.to
    /\ \A m \in msgs : m.type \in {"request", "release"} => started[m.from] > 0
    /\ \A m \in msgs : m.type = "reply" /\ m.grant => started[m.to] > 0
    /\ \A n \in Node : \A d \in deferred[n] : d[2] # n /\ started[d[2]] > 0

\* The phases of the single acquire().
Phases ==
    \A n \in Node :
        /\ started[n] <= 1
        /\ pc[n] # "idle" => started[n] = 1
        /\ pc[n] \in {"idle", "releasing"} => requestTs[n] = 0 /\ acks[n] = {}

\* No lease has run out.
Unexpired == \A n \in Node : lastHolder[n].id # NoNode => lastHolder[n].left > 0

\* The node in the critical section holds every vote, its own included.
HolderVotes == \A n \in Node : pc[n] = "cs" => lastHolder[n].id = n /\ acks[n] = Node

\* A vote stays with its holder until the holder's release is handled.
Releases ==
    /\ \A r \in Node : pc[r] = "releasing" => \A v \in Node \ {r} : lastHolder[v].id = r
    /\ \A m \in msgs : m.type = "release" =>
          /\ lastHolder[m.to].id = m.from
          /\ m.known = Node
          /\ pc[m.from] = "idle"

IInv ==
    /\ TypeOK
    /\ Stable
    /\ Provenance
    /\ Phases
    /\ Unexpired
    /\ HolderVotes
    /\ Releases
    /\ VotesAreHeld

-----------------------------------------------------------------------------
(* Helpers *)

\* A non-empty set of naturals has a least element.
LEMMA LeastNatural ==
    ASSUME NEW S \in SUBSET Nat, S # {}
    PROVE  \E x \in S : \A y \in S : x <= y
<1>1. IsWellFoundedOn(OpToRel(<, Nat), Nat)
  BY NatLessThanWellFounded, ZenonT(30)
<1>2. PICK x \in S : \A y \in S : ~(<<y, x>> \in OpToRel(<, Nat))
  BY <1>1, WFMin, ZenonT(30)
<1>3. \A y \in S : ~(y < x)
  BY <1>2, ZenonT(30) DEF OpToRel
<1> QED
  BY <1>3

\* A deferral can always be chosen: the earliest one exists.
LEMMA EarliestIsDeferred ==
    ASSUME NEW D \in SUBSET (Nat \X Node), D # {}
    PROVE  Earliest(D) \in D
<1> DEFINE S == {d[1] : d \in D}
<1>1. PICK t \in S : \A u \in S : t <= u
  <2>1. S \in SUBSET Nat /\ S # {}
    OBVIOUS
  <2> QED
    BY <2>1, LeastNatural, ZenonT(30)
<1> DEFINE I == {d[2] : d \in {e \in D : e[1] = t}}
<1>2. PICK i \in I : \A j \in I : i <= j
  <2>1. I \in SUBSET Nat /\ I # {}
    BY <1>1, NodeAssumption, ZenonT(30)
  <2> QED
    BY <2>1, LeastNatural, ZenonT(30)
<1>3. PICK d \in D : d[1] = t /\ d[2] = i
  BY <1>2
<1>4. \A e \in D : e = d \/ Before(d[1], d[2], e[1], e[2])
  <2> SUFFICES ASSUME NEW e \in D, e # d
               PROVE  Before(d[1], d[2], e[1], e[2])
    OBVIOUS
  <2>1. d[1] <= e[1]
    BY <1>1, <1>3
  <2>2. CASE d[1] < e[1]
    BY <2>2 DEF Before
  <2>3. CASE d[1] = e[1]
    <3>1. d[2] <= e[2]
      BY <1>2, <1>3, <2>3
    <3>2. d[2] # e[2]
      BY <2>3
    <3>3. d[2] \in Nat /\ e[2] \in Nat
      BY NodeAssumption, ZenonT(30)
    <3>4. d[2] < e[2]
      BY <3>1, <3>2, <3>3
    <3> QED
      BY <2>3, <3>4 DEF Before
  <2> QED
    BY <2>1, <2>2, <2>3
<1> QED
  BY <1>4 DEF Earliest

\* The message constructors build messages.
LEMMA MessageTypes ==
    ASSUME NEW a \in Node, NEW b \in Node, NEW k \in SUBSET Node,
           NEW t \in Nat, NEW g \in BOOLEAN
    PROVE  /\ Request(a, b, t, k) \in Message
           /\ Reply(a, b, k, g) \in Message
           /\ Release(a, b, k) \in Message
BY DEF Request, Reply, Release, Message, RequestMsg, ReplyMsg, ReleaseMsg

\* Every message names nodes of the group.
LEMMA MessageFields ==
    ASSUME NEW m \in Message
    PROVE  /\ m.from \in Node
           /\ m.to \in Node
           /\ m.known \in SUBSET Node
           /\ m.type = "request" => m.ts \in Nat
           /\ m.type = "reply" => m.grant \in BOOLEAN
BY DEF Message, RequestMsg, ReplyMsg, ReleaseMsg

\* Passing the vote on yields a holder, a reply to it, and fewer deferrals.
LEMMA PassTypes ==
    ASSUME TypeOK, NEW n \in Node, NEW h \in HolderType, NEW k \in SUBSET Node
    PROVE  /\ PassVote(n, h) \in HolderType
           /\ PassReply(n, k) \in SUBSET Message
           /\ WithoutEarliest(deferred[n]) \in SUBSET deferred[n]
<1>1. deferred[n] \in SUBSET (Nat \X Node)
  BY DEF TypeOK
<1>2. CASE deferred[n] = {}
  BY <1>2 DEF PassVote, PassReply, WithoutEarliest
<1>3. CASE deferred[n] # {}
  <2>1. Earliest(deferred[n]) \in Nat \X Node
    BY <1>1, <1>3, EarliestIsDeferred
  <2>2. Reply(n, Earliest(deferred[n])[2], k, TRUE) \in Message
    BY <2>1 DEF Reply, Message, ReplyMsg
  <2>3. Holder(Earliest(deferred[n])[2], Earliest(deferred[n])[1], Lease) \in HolderType
    BY <2>1, BoundAssumption DEF Holder, HolderType
  <2> QED
    BY <1>3, <2>2, <2>3, ZenonT(30) DEF PassVote, PassReply, WithoutEarliest
<1> QED
  BY <1>2, <1>3

\* Handling a message enlarges the view and gossips it.
LEMMA LearntTypes ==
    ASSUME TypeOK, NEW n \in Node, NEW m \in msgs
    PROVE  /\ Learnt(n, m) \in SUBSET Node
           /\ Gossip(n, m) \in SUBSET Message
<1>1. m \in Message
  BY DEF TypeOK
<1>2. Learnt(n, m) \in SUBSET Node
  BY <1>1, MessageFields DEF TypeOK, Learnt
<1>3. Gossip(n, m) \in SUBSET Message
  BY <1>2, MessageTypes, ZenonT(30) DEF Gossip
<1> QED
  BY <1>2, <1>3

\* The empty last_holder is one of the values last_holder can have.
LEMMA NoHolderType == NoHolder \in HolderType
BY BoundAssumption DEF NoHolder, HolderType, NoNode

\* Granting a request yields a holder.
LEMMA GrantedLeaseType ==
    ASSUME TypeOK, NEW n \in Node, NEW m \in msgs, m.type = "request"
    PROVE  GrantedLease(n, m) \in HolderType
<1>1. m.from \in Node /\ m.ts \in Nat
  BY MessageFields DEF TypeOK
<1>2. Holder(m.from, m.ts, Lease) \in HolderType
  BY <1>1, BoundAssumption DEF Holder, HolderType
<1>3. lastHolder[n] \in HolderType
  BY DEF TypeOK
<1> QED
  BY <1>2, <1>3 DEF GrantedLease

-----------------------------------------------------------------------------
(* Type correctness *)

\* A new mutex on every node is well typed.
LEMMA TypeInit == Init => TypeOK
BY NoHolderType, ViewAssumption DEF Init, TypeOK

\* Every step of acquire, release and the handlers keeps the types.
LEMMA TypeNext == TypeOK /\ [Next]_vars => TypeOK'
<1> SUFFICES ASSUME TypeOK, [Next]_vars
             PROVE  TypeOK'
  OBVIOUS
<1>1. ASSUME NEW n \in Node, AcquireStart(n)
      PROVE  TypeOK'
  BY <1>1 DEF AcquireStart, TypeOK
<1>2. ASSUME NEW n \in Node, BroadcastRequest(n)
      PROVE  TypeOK'
  <2> DEFINE sent == {Request(n, x, requestTs[n], members[n]) : x \in members[n] \ {n}}
             dead == {x \in members[n] : ~alive[x]}
  <2>1. sent \in SUBSET Message
    <3>1. requestTs[n] \in Nat /\ members[n] \in SUBSET Node
      BY DEF TypeOK
    <3>2. \A x \in Node : Request(n, x, requestTs[n], members[n]) \in Message
      BY <3>1 DEF Request, Message, RequestMsg
    <3> QED
      BY <3>1, <3>2
  <2>2. msgs' \in SUBSET Message
    BY <1>2, <2>1 DEF BroadcastRequest, Live, TypeOK
  <2>3. lastHolder' \in [Node -> HolderType]
    BY <1>2, NoHolderType DEF BroadcastRequest, TypeOK
  <2>4. deferred' \in [Node -> SUBSET (Nat \X Node)]
    BY <1>2 DEF BroadcastRequest, TypeOK
  <2> QED
    BY <1>2, <2>2, <2>3, <2>4 DEF BroadcastRequest, TypeOK
<1>3. ASSUME NEW n \in Node, Enter(n)
      PROVE  TypeOK'
  <2>1. Holder(n, requestTs[n], Lease) \in HolderType
    BY BoundAssumption DEF Holder, HolderType, TypeOK
  <2> QED
    BY <1>3, <2>1 DEF Enter, TypeOK
<1>4. ASSUME NEW n \in Node, Exit(n)
      PROVE  TypeOK'
  <2>1. PassVote(n, NoHolder) \in HolderType
    BY PassTypes, NoHolderType, ZenonT(30)
  <2>2. PassReply(n, members[n]) \in SUBSET Message /\ WithoutEarliest(deferred[n]) \in SUBSET (Nat \X Node)
    BY PassTypes, NoHolderType, ZenonT(30) DEF TypeOK
  <2>3. msgs' \in SUBSET Message
    BY <1>4, <2>2 DEF Exit, Live, TypeOK
  <2> QED
    BY <1>4, <2>1, <2>2, <2>3 DEF Exit, TypeOK
<1>5. ASSUME NEW n \in Node, BroadcastRelease(n)
      PROVE  TypeOK'
  <2> DEFINE sent == {Release(n, x, members[n]) : x \in members[n] \ {n}}
  <2>1. sent \in SUBSET Message
    BY MessageTypes DEF TypeOK
  <2>2. msgs' \in SUBSET Message
    BY <1>5, <2>1 DEF BroadcastRelease, Live, TypeOK
  <2> QED
    BY <1>5, <2>2 DEF BroadcastRelease, TypeOK
<1>6. ASSUME NEW n \in Node, NEW m \in msgs, HandleRequest(n, m)
      PROVE  TypeOK'
  <2>1. m.from \in Node /\ m.ts \in Nat
    BY <1>6, MessageFields DEF HandleRequest, TypeOK
  <2>2. Advance(lamport[n], m.ts) \in Nat
    BY <2>1, BoundAssumption DEF Advance, TypeOK
  <2>3. GrantedLease(n, m) \in HolderType
    BY <1>6, GrantedLeaseType DEF HandleRequest
  <2>4. Learnt(n, m) \in SUBSET Node /\ Gossip(n, m) \in SUBSET Message
    BY LearntTypes
  <2>5. Reply(n, m.from, Learnt(n, m), TRUE) \in Message
    BY <2>1, <2>4 DEF Reply, Message, ReplyMsg
  <2>6. msgs' \in SUBSET Message
    BY <1>6, <2>4, <2>5, ZenonT(30) DEF HandleRequest, Live, TypeOK
  <2>7. lastHolder' \in [Node -> HolderType]
    BY <1>6, <2>3 DEF HandleRequest, TypeOK
  <2>8. deferred' \in [Node -> SUBSET (Nat \X Node)]
    BY <1>6, <2>1 DEF HandleRequest, TypeOK
  <2> QED
    BY <1>6, <2>2, <2>4, <2>6, <2>7, <2>8 DEF HandleRequest, TypeOK
<1>7. ASSUME NEW n \in Node, NEW m \in msgs, HandleReply(n, m)
      PROVE  TypeOK'
  <2>1. m.from \in Node
    BY MessageFields DEF TypeOK
  <2>2. Learnt(n, m) \in SUBSET Node /\ Gossip(n, m) \in SUBSET Message
    BY LearntTypes
  <2>3. msgs' \in SUBSET Message
    BY <1>7, <2>2 DEF HandleReply, Live, TypeOK
  <2> QED
    BY <1>7, <2>1, <2>2, <2>3 DEF HandleReply, TypeOK
<1>8. ASSUME NEW n \in Node, NEW m \in msgs, HandleRelease(n, m)
      PROVE  TypeOK'
  <2>1. Learnt(n, m) \in SUBSET Node /\ Gossip(n, m) \in SUBSET Message
    BY LearntTypes
  <2> DEFINE h == IF lastHolder[n].id = m.from THEN NoHolder ELSE lastHolder[n]
  <2>2. h \in HolderType
    BY NoHolderType DEF TypeOK
  <2>3. PassVote(n, h) \in HolderType
    BY <2>2, PassTypes, ZenonT(30)
  <2>4. PassReply(n, Learnt(n, m)) \in SUBSET Message /\ WithoutEarliest(deferred[n]) \in SUBSET (Nat \X Node)
    BY <2>1, PassTypes, NoHolderType, ZenonT(30) DEF TypeOK
  <2>5. msgs' \in SUBSET Message
    BY <1>8, <2>1, <2>4 DEF HandleRelease, Live, TypeOK
  <2>6. lastHolder' \in [Node -> HolderType]
    BY <1>8, <2>3 DEF HandleRelease, TypeOK
  <2> QED
    BY <1>8, <2>1, <2>4, <2>5, <2>6, ZenonT(30) DEF HandleRelease, TypeOK
<1>9. ASSUME Tick
      PROVE  TypeOK'
  <2>1. ASSUME NEW n \in Node
        PROVE  lastHolder'[n] \in HolderType
    <3>1. lastHolder[n] \in HolderType
      BY DEF TypeOK
    <3>2. lastHolder'[n] = [lastHolder[n] EXCEPT !.left = IF @ > 0 THEN @ - 1 ELSE 0]
      BY <1>9 DEF Tick
    <3> QED
      BY <3>1, <3>2, BoundAssumption DEF HolderType
  <2>2. lastHolder' \in [Node -> HolderType]
    BY <1>9, <2>1 DEF Tick
  <2> QED
    BY <1>9, <2>2 DEF Tick, TypeOK
<1>10. ASSUME NEW n \in Crashable, Crash(n)
       PROVE  TypeOK'
  BY <1>10, BoundAssumption DEF Crash, TypeOK
<1>11. CASE UNCHANGED vars
  BY <1>11 DEF vars, TypeOK
<1> QED
  BY <1>1, <1>2, <1>3, <1>4, <1>5, <1>6, <1>7, <1>8, <1>9, <1>10, <1>11
     DEF Next, Step, Acquire, Handle

\* Every field of every node's InnerState keeps its type, whatever the views,
\* the retries, the lease expiries and the crashes: in particular a vote is
\* only ever held by a member or by nobody, and the deferral set the code
\* takes its first element from only holds requests of members.
THEOREM TypeCorrect == Spec => []TypeOK
BY TypeInit, TypeNext, PTL DEF Spec

-----------------------------------------------------------------------------
(* Mutual exclusion *)

\* With everybody alive and known, nothing is lost and nothing is gossiped.
LEMMA Calm ==
    ASSUME TypeOK, Stable
    PROVE  /\ \A S \in SUBSET Message : Live(S) = S
           /\ \A n \in Node, m \in msgs : Learnt(n, m) = Node /\ Gossip(n, m) = {}
<1>1. \A S \in SUBSET Message : Live(S) = S
  BY MessageFields DEF Live, Stable
<1>2. ASSUME NEW n \in Node, NEW m \in msgs
      PROVE  Learnt(n, m) = Node
  BY LearntTypes DEF Learnt, Stable
<1>3. \A n \in Node, m \in msgs : Gossip(n, m) = {}
  BY <1>2, ZenonT(30) DEF Gossip, Stable
<1> QED
  BY <1>1, <1>2, <1>3

\* A node that enters has been granted by everybody.
LEMMA EveryGrant ==
    ASSUME TypeOK, Stable, NEW n \in Node, HasAllAcks(n)
    PROVE  acks[n] = Node
<1>1. acks[n] \in SUBSET Node
  BY DEF TypeOK
<1>2. IsFiniteSet(Node)
  BY NodeAssumption
<1>3. /\ IsFiniteSet(acks[n])
      /\ Cardinality(acks[n]) <= Cardinality(Node)
      /\ Cardinality(acks[n]) = Cardinality(Node) => Node = acks[n]
  BY <1>1, <1>2, FS_Subset
<1>4. Cardinality(acks[n]) \in Nat /\ Cardinality(Node) \in Nat
  BY <1>2, <1>3, FS_CardinalityType
<1>5. Cardinality(acks[n]) >= Cardinality(Node)
  BY DEF HasAllAcks, Stable
<1> QED
  BY <1>3, <1>4, <1>5

\* The node a vote is passed to.
LEMMA PassFacts ==
    ASSUME TypeOK, Provenance, NEW n \in Node, NEW h, NEW k
    PROVE  \/ /\ PassVote(n, h) = h
              /\ PassReply(n, k) = {}
           \/ \E d \in deferred[n] :
                 /\ PassVote(n, h) = Holder(d[2], d[1], Lease)
                 /\ PassReply(n, k) = {Reply(n, d[2], k, TRUE)}
                 /\ d \in Nat \X Node /\ d[2] # n /\ started[d[2]] > 0
<1>1. deferred[n] \in SUBSET (Nat \X Node)
  BY DEF TypeOK
<1>2. CASE deferred[n] = {}
  BY <1>2 DEF PassVote, PassReply
<1>3. CASE deferred[n] # {}
  <2>1. Earliest(deferred[n]) \in deferred[n]
    BY <1>1, <1>3, EarliestIsDeferred
  <2> QED
    BY <1>1, <1>3, <2>1, ZenonT(30) DEF PassVote, PassReply, Provenance
<1> QED
  BY <1>2, <1>3, ZenonT(30)

\* No node has the number that stands for "no holder".
LEMMA NodeIsNotNoNode == NoNode \notin Node
BY NodeAssumption DEF NoNode

\* The inductive invariant holds when nobody has asked for the mutex yet.
LEMMA InvInit == Everyone /\ Init => IInv
<1> SUFFICES ASSUME Everyone, Init
             PROVE  IInv
  OBVIOUS
<1>1. TypeOK
  BY TypeInit
<1>2. Stable /\ Phases /\ HolderVotes
  BY DEF Init, Everyone, Stable, Phases, HolderVotes
<1>3. Provenance /\ Releases /\ VotesAreHeld
  BY DEF Init, Provenance, Releases, VotesAreHeld
<1>4. Unexpired
  BY DEF Init, Unexpired, NoHolder
<1> QED
  BY <1>1, <1>2, <1>3, <1>4 DEF IInv

\* acquire() begins: no grant of an earlier request can be mistaken for one
\* of this request, as there was none.
LEMMA InvAcquireStart ==
    ASSUME SingleUse, IInv, NEW n \in Node, AcquireStart(n), TypeOK'
    PROVE  IInv'
<1> USE DEF IInv
<1>1. started[n] = 0 /\ started'[n] = 1
  BY BoundAssumption DEF AcquireStart, SingleUse, TypeOK
<1>2. \A x \in Node : started'[x] >= started[x]
  BY DEF AcquireStart, TypeOK
<1>3. Stable' /\ Unexpired' /\ HolderVotes'
  BY DEF AcquireStart, Stable, Unexpired, HolderVotes, TypeOK
<1>4. Phases'
  BY <1>1 DEF AcquireStart, Phases, TypeOK
<1>5. Provenance'
  <2>1. \A m \in msgs : m.from \in Node /\ m.to \in Node
    BY MessageFields DEF TypeOK
  <2>2. \A x \in Node : \A d \in deferred[x] : d[2] \in Node
    BY DEF TypeOK
  <2>3. \A x \in Node : started[x] \in Nat /\ started'[x] \in Nat
    BY DEF TypeOK
  <2> QED
    BY <1>2, <2>1, <2>2, <2>3 DEF AcquireStart, Provenance
<1>6. Releases'
  <2>1. \A m \in msgs : m.type = "release" => m.from \in Node \ {n}
    BY <1>1, MessageFields DEF Provenance, TypeOK
  <2> QED
    BY <2>1 DEF AcquireStart, Releases, TypeOK
<1>7. VotesAreHeld'
  <2>1. \A m \in msgs : m.type = "reply" /\ m.grant => m.to \in Node \ {n}
    BY <1>1, MessageFields DEF Provenance, TypeOK
  <2> QED
    BY <2>1 DEF AcquireStart, VotesAreHeld, TypeOK
<1> QED
  BY <1>3, <1>4, <1>5, <1>6, <1>7

\* Sending the requests, the first time or again, changes no vote.
LEMMA InvBroadcastRequest ==
    ASSUME IInv, NEW n \in Node, BroadcastRequest(n), TypeOK'
    PROVE  IInv'
<1> USE DEF IInv
<1> DEFINE sent == {Request(n, x, requestTs[n], members[n]) : x \in members[n] \ {n}}
<1>1. members' = members /\ deferred' = deferred /\ lastHolder' = lastHolder
  <2>1. {x \in members[n] : ~alive[x]} = {}
    BY DEF Stable
  <2> QED
    BY <2>1, NodeIsNotNoNode DEF BroadcastRequest, TypeOK
<1>2. msgs' \in SUBSET (msgs \cup sent)
  BY DEF BroadcastRequest, Live
<1>3. \A m \in sent : m.type = "request" /\ m.from = n /\ m.from # m.to
  BY DEF Request
<1>4. pc[n] \in {"broadcast", "waiting"} /\ started[n] = 1
  BY DEF BroadcastRequest, Phases
<1>5. Stable' /\ Unexpired' /\ HolderVotes' /\ Phases'
  BY <1>1, <1>4 DEF BroadcastRequest, Stable, Unexpired, HolderVotes, Phases, TypeOK
<1>6. Provenance'
  BY <1>1, <1>2, <1>3, <1>4 DEF BroadcastRequest, Provenance
<1>7. Releases'
  BY <1>1, <1>2, <1>3, <1>4, SMTT(30) DEF BroadcastRequest, Releases, TypeOK
<1>8. VotesAreHeld'
  BY <1>1, <1>2, <1>3 DEF BroadcastRequest, VotesAreHeld
<1> QED
  BY <1>5, <1>6, <1>7, <1>8

\* Entering: as no lease has run out, the node's own vote is out to nobody.
LEMMA InvEnter ==
    ASSUME IInv, NEW n \in Node, Enter(n), TypeOK'
    PROVE  IInv'
<1> USE DEF IInv
<1>1. lastHolder[n].id \in {NoNode, n}
  BY DEF Enter, OwnVoteFree, Unexpired
<1>2. acks[n] = Node
  BY EveryGrant DEF Enter
<1>3. lastHolder'[n].id = n /\ lastHolder'[n].left > 0
  BY BoundAssumption DEF Enter, Holder, TypeOK
<1>4. \A x \in Node \ {n} : lastHolder'[x] = lastHolder[x] /\ pc'[x] = pc[x]
  BY DEF Enter, TypeOK
<1>5. pc[n] = "waiting" /\ pc'[n] = "cs"
  BY DEF Enter, TypeOK
<1>6. \A m \in msgs : m.from \in Node /\ m.to \in Node /\ m.from # m.to
  BY MessageFields DEF TypeOK, Provenance
<1>7. Stable' /\ Provenance' /\ Unexpired'
  BY <1>3, <1>4, SMTT(30) DEF Enter, Stable, Provenance, Unexpired
<1>8. Phases' /\ HolderVotes'
  BY <1>2, <1>3, <1>4, <1>5, SMTT(30) DEF Enter, Phases, HolderVotes
<1>9. Releases'
  BY <1>1, <1>4, <1>5, <1>6, NodeIsNotNoNode DEF Enter, Releases
<1>10. VotesAreHeld'
  <2>1. \A r \in Node : acks[r] \in SUBSET Node
    BY DEF TypeOK
  <2> QED
    BY <1>1, <1>4, <1>6, <2>1, NodeIsNotNoNode DEF Enter, VotesAreHeld
<1> QED
  BY <1>7, <1>8, <1>9, <1>10

\* Leaving: every vote is still the leaver's, so handing on its own vote takes
\* nothing from anybody.
LEMMA InvExit ==
    ASSUME IInv, NEW n \in Node, Exit(n), TypeOK'
    PROVE  IInv'
<1> USE DEF IInv
<1>1. lastHolder[n].id = n /\ acks[n] = Node /\ pc[n] = "cs" /\ started[n] = 1
  BY DEF Exit, HolderVotes, Phases
<1>2. \A v \in Node \ {n} : lastHolder[v].id = n
  BY <1>1 DEF VotesAreHeld
<1>3. /\ pc'[n] = "releasing" /\ requestTs'[n] = 0 /\ acks'[n] = {}
      /\ lastHolder'[n] = PassVote(n, NoHolder)
      /\ \A x \in Node \ {n} : /\ lastHolder'[x] = lastHolder[x] /\ pc'[x] = pc[x]
                              /\ requestTs'[x] = requestTs[x] /\ acks'[x] = acks[x]
  BY DEF Exit, TypeOK
<1>4. msgs' \in SUBSET (msgs \cup PassReply(n, members[n]))
  BY SMTT(30) DEF Exit, Live
<1>5. \A m \in PassReply(n, members[n]) :
         /\ m.type = "reply" /\ m.from = n /\ m.to # n
         /\ started[m.to] > 0 /\ lastHolder'[n].id = m.to
  BY <1>3, PassFacts, SMTT(30) DEF Reply, Holder
<1>6. \A m \in msgs : m.from \in Node /\ m.to \in Node /\ m.from # m.to
  BY MessageFields DEF TypeOK, Provenance
<1>7. Stable' /\ Phases' /\ HolderVotes'
  BY <1>1, <1>3, SMTT(30) DEF Exit, Stable, Phases, HolderVotes
<1>8. Unexpired'
  <2>1. \/ PassVote(n, NoHolder) = NoHolder
        \/ \E d \in deferred[n] : PassVote(n, NoHolder) = Holder(d[2], d[1], Lease)
    BY PassFacts, ZenonT(30)
  <2>2. lastHolder'[n] = NoHolder \/ lastHolder'[n].left = Lease
    BY <1>3, <2>1 DEF Holder
  <2> QED
    BY <1>3, <2>2, BoundAssumption, SMTT(30) DEF Unexpired, NoHolder
<1>9. Provenance'
  <2>1. \A x \in Node : deferred'[x] \in SUBSET deferred[x]
    BY DEF Exit, WithoutEarliest, TypeOK
  <2> QED
    BY <1>4, <1>5, <2>1, ZenonT(30) DEF Exit, Provenance
<1>10. Releases'
  BY <1>1, <1>2, <1>3, <1>4, <1>5, <1>6 DEF Releases
<1>11. VotesAreHeld'
  <2>1. ASSUME NEW r \in Node, NEW v \in acks'[r] \ {r}
        PROVE  lastHolder'[v].id = r
    <3>1. r # n /\ v \in acks[r] \ {r} /\ v \in Node
      BY <1>3, <2>1 DEF TypeOK
    <3>2. lastHolder[v].id = r
      BY <3>1 DEF VotesAreHeld
    <3> QED
      BY <1>1, <1>3, <3>1, <3>2
  <2>2. ASSUME NEW m \in msgs', m.type = "reply", m.grant, requestTs'[m.to] # 0
        PROVE  lastHolder'[m.from].id = m.to
    <3>1. CASE m \in msgs
      BY <1>1, <1>3, <1>6, <2>2, <3>1 DEF VotesAreHeld
    <3>2. CASE m \in PassReply(n, members[n])
      BY <1>5, <3>2
    <3> QED
      BY <1>4, <3>1, <3>2, SMTT(30)
  <2> QED
    BY <2>1, <2>2 DEF VotesAreHeld
<1> QED
  BY <1>7, <1>8, <1>9, <1>10, <1>11

\* A release goes to nodes whose vote the releasing node holds.
LEMMA InvBroadcastRelease ==
    ASSUME IInv, NEW n \in Node, BroadcastRelease(n), TypeOK'
    PROVE  IInv'
<1> USE DEF IInv
<1> DEFINE sent == {Release(n, x, members[n]) : x \in members[n] \ {n}}
<1>1. pc[n] = "releasing" /\ started[n] = 1 /\ members[n] = Node
  BY DEF BroadcastRelease, Phases, Stable
<1>2. msgs' \in SUBSET (msgs \cup sent)
  BY DEF BroadcastRelease, Live
<1>3. \A m \in sent : m.type = "release" /\ m.from = n /\ m.to \in Node \ {n} /\ m.known = Node
  BY <1>1 DEF Release
<1>4. pc'[n] = "idle" /\ \A x \in Node \ {n} : pc'[x] = pc[x]
  BY DEF BroadcastRelease, TypeOK
<1>5. Stable' /\ Unexpired' /\ HolderVotes' /\ Phases'
  BY <1>1, <1>4 DEF BroadcastRelease, Stable, Unexpired, HolderVotes, Phases
<1>6. Provenance'
  BY <1>1, <1>2, <1>3 DEF BroadcastRelease, Provenance
<1>7. Releases'
  <2>1. \A m \in msgs : m.from \in Node
    BY MessageFields, SMTT(30) DEF TypeOK
  <2> QED
    BY <1>1, <1>2, <1>3, <1>4, <2>1 DEF BroadcastRelease, Releases
<1>8. VotesAreHeld'
  BY <1>2, <1>3 DEF BroadcastRelease, VotesAreHeld
<1> QED
  BY <1>5, <1>6, <1>7, <1>8

\* A request that is granted finds the vote free or already the requester's.
LEMMA InvHandleRequest ==
    ASSUME IInv, NEW n \in Node, NEW m \in msgs, HandleRequest(n, m), TypeOK'
    PROVE  IInv'
<1> USE DEF IInv
<1>1. /\ m.type = "request" /\ m.from \in Node /\ m.from # n /\ started[m.from] > 0
      /\ Learnt(n, m) = Node /\ Gossip(n, m) = {}
  BY MessageFields, Calm DEF HandleRequest, Provenance, TypeOK
<1>2. members' = members
  BY <1>1, SMTT(30) DEF HandleRequest, Stable, TypeOK
<1>3. Stable' /\ Phases'
  BY <1>2 DEF HandleRequest, Stable, Phases
<1>4. pc' = pc /\ requestTs' = requestTs /\ acks' = acks
  BY ZenonT(30) DEF HandleRequest
<1>5. CASE Grants(n, m)
  <2> DEFINE reply == Reply(n, m.from, Node, TRUE)
  <2>1. lastHolder[n].id \in {NoNode, m.from} /\ pc[n] # "cs"
    BY <1>5 DEF Grants, DeferredByLease, Unexpired, InCs, TypeOK, HolderType
  <2>2. GrantedLease(n, m).id = m.from /\ GrantedLease(n, m).left > 0
    BY <1>1, <2>1, BoundAssumption, NodeIsNotNoNode, SMTT(30) DEF GrantedLease, Holder, Unexpired
  <2>3. lastHolder'[n].id = m.from /\ lastHolder'[n].left > 0
    BY <1>5, <2>2 DEF HandleRequest, TypeOK
  <2>4. \A x \in Node \ {n} : lastHolder'[x] = lastHolder[x]
    BY <1>5 DEF HandleRequest, TypeOK
  <2>5. \A x \in Node : deferred'[x] \in SUBSET deferred[x]
    BY <1>5 DEF HandleRequest, TypeOK
  <2>6. msgs' \in SUBSET (msgs \cup {reply})
    BY <1>1, <1>5, ZenonT(30) DEF HandleRequest, Live
  <2>7. reply.type = "reply" /\ reply.from = n /\ reply.to = m.from
    BY DEF Reply
  <2>8. \A x \in Node : lastHolder[x].id # NoNode => lastHolder'[x].id = lastHolder[x].id
    BY <1>1, <2>1, <2>3, <2>4
  <2>9. Provenance'
    BY <1>1, <2>5, <2>6, <2>7, ZenonT(30) DEF HandleRequest, Provenance
  <2>10. Unexpired' /\ HolderVotes'
    BY <2>1, <2>3, <2>4, SMTT(30) DEF HandleRequest, Unexpired, HolderVotes
  <2>11. Releases'
    <3>1. \A x \in msgs : x.from \in Node /\ x.to \in Node
      BY MessageFields, SMTT(30) DEF TypeOK
    <3>2. ASSUME NEW r \in Node, pc'[r] = "releasing", NEW v \in Node \ {r}
          PROVE  lastHolder'[v].id = r
      <4>1. lastHolder[v].id = r
        BY <1>4, <3>2, ZenonT(30) DEF Releases
      <4> QED
        BY <2>8, <3>2, <4>1, NodeIsNotNoNode, ZenonT(30)
    <3>3. ASSUME NEW x \in msgs', x.type = "release"
          PROVE  lastHolder'[x.to].id = x.from /\ x.known = Node /\ pc'[x.from] = "idle"
      <4>1. x \in msgs
        BY <2>6, <2>7, <3>3, ZenonT(30)
      <4>2. lastHolder[x.to].id = x.from /\ x.known = Node /\ pc[x.from] = "idle"
        BY <3>3, <4>1, ZenonT(30) DEF Releases
      <4>3. lastHolder'[x.to].id = x.from
        BY <2>8, <3>1, <4>1, <4>2, NodeIsNotNoNode, ZenonT(30)
      <4> QED
        BY <1>4, <4>2, <4>3, ZenonT(30)
    <3> QED
      BY <3>2, <3>3 DEF Releases
  <2>12. VotesAreHeld'
    <3>1. \A x \in msgs : x.from \in Node /\ x.to \in Node
      BY MessageFields DEF TypeOK
    <3>2. \A r \in Node : acks[r] \in SUBSET Node
      BY SMTT(30) DEF TypeOK
    <3>3. ASSUME NEW r \in Node, NEW v \in acks'[r] \ {r}
          PROVE  lastHolder'[v].id = r
      <4>1. v \in Node /\ lastHolder[v].id = r
        BY <1>4, <3>2, <3>3, ZenonT(30) DEF VotesAreHeld
      <4> QED
        BY <2>8, <4>1, NodeIsNotNoNode, ZenonT(30)
    <3>4. ASSUME NEW x \in msgs', x.type = "reply", x.grant, requestTs'[x.to] # 0
          PROVE  lastHolder'[x.from].id = x.to
      <4>1. CASE x \in msgs
        <5>1. lastHolder[x.from].id = x.to
          BY <1>4, <3>4, <4>1, ZenonT(30) DEF VotesAreHeld
        <5> QED
          BY <2>8, <3>1, <4>1, <5>1, NodeIsNotNoNode, ZenonT(30)
      <4>2. CASE x = reply
        BY <2>3, <2>7, <4>2, ZenonT(30)
      <4> QED
        BY <2>6, <4>1, <4>2, ZenonT(30)
    <3> QED
      BY <3>3, <3>4 DEF VotesAreHeld
  <2> QED
    BY <1>3, <2>9, <2>10, <2>11, <2>12
<1>6. CASE ~Grants(n, m)
  <2>1. lastHolder' = lastHolder
    BY <1>6, SMTT(30) DEF HandleRequest
  <2>2. msgs' \in SUBSET msgs
    BY <1>1, <1>6 DEF HandleRequest, Live
  <2>3. \A x \in Node : deferred'[x] \in SUBSET (deferred[x] \cup {<<m.ts, m.from>>})
    BY <1>6 DEF HandleRequest, TypeOK
  <2>4. \A x \in Node \ {n} : deferred'[x] = deferred[x]
    BY <1>6, SMTT(30) DEF HandleRequest, TypeOK
  <2>5. Provenance'
    BY <1>1, <2>2, <2>3, <2>4, SMTT(30) DEF HandleRequest, Provenance
  <2>6. Unexpired' /\ HolderVotes' /\ Releases' /\ VotesAreHeld'
    BY <2>1, <2>2, ZenonT(30) DEF HandleRequest, Unexpired, HolderVotes, Releases, VotesAreHeld
  <2> QED
    BY <1>3, <2>5, <2>6, SMTT(30)
<1> QED
  BY <1>5, <1>6, SMTT(30)

\* A grant that is counted is a vote its sender holds for the receiver.
LEMMA InvHandleReply ==
    ASSUME IInv, NEW n \in Node, NEW m \in msgs, HandleReply(n, m), TypeOK'
    PROVE  IInv'
<1> USE DEF IInv
<1>1. /\ m.type = "reply" /\ m.from \in Node /\ m.to = n
      /\ Learnt(n, m) = Node /\ Gossip(n, m) = {}
  BY MessageFields, Calm DEF HandleReply, TypeOK
<1>2. members' = members
  BY <1>1, SMTT(30) DEF HandleReply, Stable, TypeOK
<1>3. msgs' \in SUBSET msgs
  BY <1>1, SMTT(30) DEF HandleReply, Live
<1>4. Stable' /\ Provenance' /\ Unexpired' /\ Releases'
  BY <1>2, <1>3 DEF HandleReply, Stable, Provenance, Unexpired, Releases
<1>5. \A x \in Node \ {n} : acks'[x] = acks[x]
  BY DEF HandleReply, TypeOK
<1>6. CASE requestTs[n] # 0 /\ m.grant
  <2>1. acks'[n] = acks[n] \cup {m.from}
    BY <1>6, SMTT(30) DEF HandleReply, TypeOK
  <2>2. lastHolder[m.from].id = n
    BY <1>1, <1>6, SMTT(30) DEF VotesAreHeld
  <2>3. Phases' /\ HolderVotes'
    BY <1>1, <1>5, <1>6, <2>1, SMTT(30) DEF HandleReply, Phases, HolderVotes
  <2>4. VotesAreHeld'
    BY <1>3, <1>5, <2>1, <2>2 DEF HandleReply, VotesAreHeld
  <2> QED
    BY <1>4, <2>3, <2>4
<1>7. CASE ~(requestTs[n] # 0 /\ m.grant)
  <2>1. acks' = acks
    BY <1>7, SMTT(30) DEF HandleReply, TypeOK
  <2>2. Phases' /\ HolderVotes' /\ VotesAreHeld'
    BY <1>3, <2>1 DEF HandleReply, Phases, HolderVotes, VotesAreHeld
  <2> QED
    BY <1>4, <2>2
<1> QED
  BY <1>6, <1>7

\* A release finds the vote still with the releaser, who has forgotten its
\* request: passing the vote on takes it from nobody who counts on it.
LEMMA InvHandleRelease ==
    ASSUME IInv, NEW n \in Node, NEW m \in msgs, HandleRelease(n, m), TypeOK'
    PROVE  IInv'
<1> USE DEF IInv
<1>1. /\ m.type = "release" /\ m.from \in Node /\ m.to = n /\ m.from # n
      /\ Learnt(n, m) = Node /\ Gossip(n, m) = {}
  BY MessageFields, Calm DEF HandleRelease, Provenance, TypeOK
<1>2. /\ lastHolder[n].id = m.from /\ pc[m.from] = "idle" /\ m.known = Node
      /\ requestTs[m.from] = 0 /\ acks[m.from] = {}
  BY <1>1 DEF Releases, Phases
<1>3. members' = members
  BY <1>1, SMTT(30) DEF HandleRelease, Stable, TypeOK
<1>4. lastHolder'[n] = PassVote(n, NoHolder)
  BY <1>2 DEF HandleRelease, TypeOK
<1>5. \A x \in Node \ {n} : lastHolder'[x] = lastHolder[x]
  BY SMTT(30) DEF HandleRelease, TypeOK
<1>6. msgs' \in SUBSET ((msgs \ {m}) \cup PassReply(n, Node))
  BY <1>1 DEF HandleRelease, Live
<1>7. \A x \in PassReply(n, Node) :
         /\ x.type = "reply" /\ x.from = n /\ x.to # n
         /\ started[x.to] > 0 /\ lastHolder'[n].id = x.to
  BY <1>4, PassFacts, SMTT(30) DEF Reply, Holder
<1>8. \A x \in msgs : x.from \in Node /\ x.to \in Node /\ x.from # x.to
  BY MessageFields, SMTT(30) DEF TypeOK, Provenance
<1>9. Stable' /\ Phases'
  BY <1>3, ZenonT(30) DEF HandleRelease, Stable, Phases
<1>10. Unexpired'
  <2>1. \/ PassVote(n, NoHolder) = NoHolder
        \/ \E d \in deferred[n] : PassVote(n, NoHolder) = Holder(d[2], d[1], Lease)
    BY PassFacts, ZenonT(30)
  <2>2. lastHolder'[n] = NoHolder \/ lastHolder'[n].left = Lease
    BY <1>4, <2>1 DEF Holder
  <2> QED
    BY <1>5, <2>2, BoundAssumption, SMTT(30) DEF Unexpired, NoHolder
<1>11. Provenance'
  <2>1. \A x \in Node : deferred'[x] \in SUBSET deferred[x]
    BY DEF HandleRelease, WithoutEarliest, TypeOK
  <2> QED
    BY <1>6, <1>7, <2>1, ZenonT(30) DEF HandleRelease, Provenance
<1>12. HolderVotes'
  BY <1>1, <1>2, <1>5 DEF HandleRelease, HolderVotes
<1>13. Releases'
  <2>1. ASSUME NEW r \in Node, pc'[r] = "releasing", NEW v \in Node \ {r}
        PROVE  lastHolder'[v].id = r
    BY <1>2, <1>5, <2>1, SMTT(30) DEF HandleRelease, Releases
  <2>2. ASSUME NEW x \in msgs', x.type = "release"
        PROVE  lastHolder'[x.to].id = x.from /\ x.known = Node /\ pc'[x.from] = "idle"
    <3>1. x \in msgs \ {m}
      BY <1>6, <1>7, <2>2, SMTT(30)
    <3>2. lastHolder[x.to].id = x.from /\ x.known = Node /\ pc[x.from] = "idle"
      BY <2>2, <3>1 DEF Releases
    <3>3. x.to # n
      <4>1. SUFFICES ASSUME x.to = n PROVE FALSE
        OBVIOUS
      <4>2. x \in ReleaseMsg /\ m \in ReleaseMsg
        BY <1>1, <2>2, <3>1, SMTT(30) DEF TypeOK, Message, RequestMsg, ReplyMsg, ReleaseMsg
      <4>3. x = m
        BY <1>1, <1>2, <2>2, <3>2, <4>1, <4>2, SMTT(30) DEF ReleaseMsg
      <4> QED
        BY <3>1, <4>3
    <3> QED
      BY <1>5, <1>8, <3>1, <3>2, <3>3 DEF HandleRelease
  <2> QED
    BY <2>1, <2>2 DEF Releases
<1>14. VotesAreHeld'
  <2>1. ASSUME NEW r \in Node, NEW v \in acks'[r] \ {r}
        PROVE  lastHolder'[v].id = r
    <3>1. v \in acks[r] \ {r} /\ v \in Node
      BY <2>1 DEF HandleRelease, TypeOK
    <3>2. lastHolder[v].id = r
      BY <3>1 DEF VotesAreHeld
    <3> QED
      BY <1>2, <1>5, <3>1, <3>2, SMTT(30)
  <2>2. ASSUME NEW x \in msgs', x.type = "reply", x.grant, requestTs'[x.to] # 0
        PROVE  lastHolder'[x.from].id = x.to
    <3>1. CASE x \in msgs
      BY <1>2, <1>5, <1>8, <2>2, <3>1 DEF HandleRelease, VotesAreHeld
    <3>2. CASE x \in PassReply(n, Node)
      BY <1>7, <3>2
    <3> QED
      BY <1>6, <3>1, <3>2, SMTT(30)
  <2> QED
    BY <2>1, <2>2 DEF VotesAreHeld
<1> QED
  BY <1>9, <1>10, <1>11, <1>12, <1>13, <1>14, SMTT(30)

\* Every step without a lease running out or a crash keeps the inductive invariant.
LEMMA InvStep == SingleUse /\ IInv /\ [Step]_vars => IInv'
<1> SUFFICES ASSUME SingleUse, IInv, [Step]_vars
             PROVE  IInv'
  OBVIOUS
<1>1. TypeOK'
  BY TypeNext DEF IInv, Next
<1>2. ASSUME NEW n \in Node, Acquire(n)
      PROVE  IInv'
  BY <1>1, <1>2, InvAcquireStart, InvBroadcastRequest, InvEnter, InvExit, InvBroadcastRelease
     DEF Acquire
<1>3. ASSUME NEW n \in Node, NEW m \in msgs, Handle(n, m)
      PROVE  IInv'
  BY <1>1, <1>3, InvHandleRequest, InvHandleReply, InvHandleRelease, SMTT(30) DEF Handle
<1>4. CASE UNCHANGED vars
  BY <1>4, <1>1, ZenonT(30) DEF vars, IInv, Stable, Provenance, Phases, Unexpired, HolderVotes,
                    Releases, VotesAreHeld
<1> QED
  BY <1>2, <1>3, <1>4 DEF Step

\* Two nodes in the critical section would each hold the other's vote.
LEMMA InvExcludes == IInv => MutualExclusion
<1> SUFFICES ASSUME IInv, NEW a \in Node, NEW b \in Node, a # b, InCs(a), InCs(b)
             PROVE  FALSE
  BY DEF MutualExclusion
<1>1. acks[a] = Node /\ lastHolder[b].id = b
  BY SMTT(30) DEF IInv, HolderVotes, InCs
<1>2. lastHolder[b].id = a
  BY <1>1 DEF IInv, VotesAreHeld
<1> QED
  BY <1>1, <1>2

\* "each node granting at most one holder at a time": while no lease runs out,
\* every grant that counts is a vote its sender still holds for the counter.
THEOREM VotesHeld ==
    ASSUME SingleUse, Everyone
    PROVE  SpecWithinLease => []VotesAreHeld
<1>1. IInv => VotesAreHeld
  BY DEF IInv
<1> QED
  BY <1>1, InvInit, InvStep, PTL DEF SpecWithinLease

\* The closures that acquire() runs on different nodes exclude each other:
\* for any finite number of relays that know each other and use the mutex
\* once, as long as no lease runs out and none crashes.
THEOREM Exclusion ==
    ASSUME SingleUse, Everyone
    PROVE  SpecWithinLease => []MutualExclusion
BY InvInit, InvStep, InvExcludes, PTL DEF SpecWithinLease

-----------------------------------------------------------------------------
(* The exclusive run *)

\* Nobody is running when the mutexes are created.
LEMMA LockInit == IInv /\ Init => Lock!Init
BY DEF IInv, Stable, Init, RunState, Lock!Init

\* A step that moves no node's acquire() is no step of the exclusive run.
LEMMA LockStutter ==
    ASSUME UNCHANGED <<pc, alive>>
    PROVE  UNCHANGED RunState
BY DEF RunState

\* A step of acquire() is a step of the exclusive run or none.
LEMMA LockAcquire ==
    ASSUME IInv, MutualExclusion', NEW n \in Node, Acquire(n)
    PROVE  Lock!Next \/ UNCHANGED RunState
<1>1. \A x \in Node : alive[x]
  BY DEF IInv, Stable
<1>2. alive' = alive /\ pc \in [Node -> {"idle", "broadcast", "waiting", "cs", "releasing"}]
  BY DEF Acquire, AcquireStart, BroadcastRequest, Enter, Exit, BroadcastRelease, IInv, TypeOK
<1>3. CASE AcquireStart(n)
  <2>1. RunState[n] = "out" /\ RunState' = [RunState EXCEPT ![n] = "wants"]
    BY <1>1, <1>2, <1>3 DEF AcquireStart, RunState
  <2> QED
    BY <2>1, ZenonT(30) DEF Lock!Next, Lock!Want
<1>4. CASE BroadcastRequest(n)
  BY <1>1, <1>2, <1>4 DEF BroadcastRequest, RunState
<1>5. CASE Enter(n)
  <2>1. RunState[n] = "wants" /\ RunState' = [RunState EXCEPT ![n] = "in"]
    BY <1>1, <1>2, <1>5 DEF Enter, RunState
  <2>2. ASSUME NEW x \in Node, x # n
        PROVE  pc[x] # "cs"
    BY <1>1, <1>2, <1>5, <2>2 DEF MutualExclusion, InCs, Enter
  <2>3. \A x \in Node : RunState[x] # "in"
    BY <1>5, <2>2 DEF Enter, RunState
  <2> QED
    BY <2>1, <2>3, ZenonT(30) DEF Lock!Next, Lock!Run
<1>6. CASE Exit(n)
  <2>1. RunState[n] = "in" /\ RunState' = [RunState EXCEPT ![n] = "out"]
    BY <1>1, <1>2, <1>6 DEF Exit, RunState
  <2> QED
    BY <2>1, ZenonT(30) DEF Lock!Next, Lock!Leave
<1>7. CASE BroadcastRelease(n)
  BY <1>1, <1>2, <1>7 DEF BroadcastRelease, RunState
<1> QED
  BY <1>3, <1>4, <1>5, <1>6, <1>7 DEF Acquire

\* Every step within the leases is a step of the exclusive run or none.
LEMMA LockStep == IInv /\ MutualExclusion' /\ [Step]_vars => [Lock!Next]_RunState
<1> SUFFICES ASSUME IInv, MutualExclusion', [Step]_vars
             PROVE  Lock!Next \/ UNCHANGED RunState
  OBVIOUS
<1>1. ASSUME NEW n \in Node, NEW m \in msgs, Handle(n, m)
      PROVE  UNCHANGED RunState
  <2>1. UNCHANGED <<pc, alive>>
    BY <1>1 DEF Handle, HandleRequest, HandleReply, HandleRelease
  <2> QED
    BY <2>1, LockStutter
<1>2. CASE UNCHANGED vars
  BY <1>2, LockStutter DEF vars
<1> QED
  BY <1>1, <1>2, LockAcquire DEF Step

\* The mutex implements what its trait promises, for any finite number of
\* relays under the conditions above: a caller cannot tell the messages, votes
\* and leases from a lock that one relay at a time holds.
THEOREM Implements ==
    ASSUME SingleUse, Everyone
    PROVE  SpecWithinLease => ImplementsLock
<1>1. SpecWithinLease => []IInv
  BY InvInit, InvStep, PTL DEF SpecWithinLease
<1> QED
  BY <1>1, InvInit, InvExcludes, LockInit, LockStep, PTL DEF SpecWithinLease, ImplementsLock, Lock!Spec

=============================================================================
