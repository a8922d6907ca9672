--------------------------- MODULE DistributedMutex ---------------------------
(***************************************************************************)
(* The lease-based Lamport mutex that serialises relay initialisation      *)
(* (bingle_core/src/distributed_mutex/mod.rs).                             *)
(*                                                                         *)
(* Every node keeps the InnerState record, here one function per field.    *)
(* A handler runs under the node's lock, so it is one action; acquire()    *)
(* releases the lock between its phases, so it is several.  The router     *)
(* handles each inbound message on a thread of its own, so `msgs' is an    *)
(* unordered set.  A send to a live node is delivered eventually (the      *)
(* packet transport below acknowledges it); a send to a crashed node       *)
(* fails, which is what prunes a member.                                   *)
(*                                                                         *)
(* Ids are positive naturals, ordered as the code orders the id strings.   *)
(* A lease is kept as the number of clock ticks left, so `deadline > now'  *)
(* in the code reads `left > 0' here.                                      *)
(***************************************************************************)
EXTENDS Integers, FiniteSets

CONSTANTS
    Node,         \* ids of the participating relays
    View,         \* View[n]: the node_ids that n's mutex is built with
    Acquires,     \* bound: how often n calls acquire()
    Lease,        \* lease_duration, in ticks
    MaxLamport,   \* bound: no acquire() starts once the clock reaches it
    Retriers,     \* bound: the nodes whose wait for grants times out and is retried ...
    Eager,        \* ... and those of them for which it may do so at any moment
    Crashable     \* the nodes that may crash

ASSUME NodeAssumption == Node \subseteq Nat \ {0} /\ IsFiniteSet(Node)
ASSUME ViewAssumption == View \in [Node -> SUBSET Node] /\ \A n \in Node : n \in View[n]
ASSUME BoundAssumption ==
    /\ Acquires \in [Node -> Nat]
    /\ Lease \in Nat \ {0}
    /\ MaxLamport \in Nat \ {0}
    /\ Retriers \subseteq Node /\ Eager \subseteq Node
    /\ Crashable \subseteq Node

VARIABLES
    pc,           \* where acquire() is on each node
    started,      \* how many calls of acquire() each node has begun
    lamport,      \* InnerState.lamport
    requestTs,    \* InnerState.current_request_ts, 0 for None
    acks,         \* InnerState.acks
    deferred,     \* InnerState.deferred: set of <<ts, id>>
    lastHolder,   \* InnerState.last_holder
    members,      \* InnerState.dynamic_node_ids
    msgs,         \* messages sent and not yet handled
    alive         \* FALSE once the node has crashed

vars == <<pc, started, lamport, requestTs, acks, deferred, lastHolder,
          members, msgs, alive>>

NoNode == 0
NoHolder == [id |-> NoNode, ts |-> 0, left |-> 0]
Holder(id, ts, left) == [id |-> id, ts |-> ts, left |-> left]

\* `known' is the sender's known_ids; a reply whose `grant' is FALSE is the
\* one tagged "membership_only".  Only a request carries a timestamp.
Request(from, to, ts, known) ==
    [type |-> "request", from |-> from, to |-> to, ts |-> ts, known |-> known]
Reply(from, to, known, grant) ==
    [type |-> "reply", from |-> from, to |-> to, known |-> known, grant |-> grant]
Release(from, to, known) ==
    [type |-> "release", from |-> from, to |-> to, known |-> known]

RequestMsg == [type : {"request"}, from : Node, to : Node, ts : Nat, known : SUBSET Node]
ReplyMsg == [type : {"reply"}, from : Node, to : Node, known : SUBSET Node, grant : BOOLEAN]
ReleaseMsg == [type : {"release"}, from : Node, to : Node, known : SUBSET Node]
Message == RequestMsg \cup ReplyMsg \cup ReleaseMsg

Init ==
    /\ pc = [n \in Node |-> "idle"]
    /\ started = [n \in Node |-> 0]
    /\ lamport = [n \in Node |-> 0]
    /\ requestTs = [n \in Node |-> 0]
    /\ acks = [n \in Node |-> {}]
    /\ deferred = [n \in Node |-> {}]
    /\ lastHolder = [n \in Node |-> NoHolder]
    /\ members = View
    /\ msgs = {}
    /\ alive = [n \in Node |-> TRUE]

-----------------------------------------------------------------------------
InCs(n) == pc[n] = "cs"

Live(S) == {m \in S : alive[m.to]}

\* The order of the BTreeSet of deferrals and of the priority comparison.
Before(ts1, id1, ts2, id2) == ts1 < ts2 \/ (ts1 = ts2 /\ id1 < id2)

Earliest(D) == CHOOSE d \in D : \A e \in D : e = d \/ Before(d[1], d[2], e[1], e[2])

\* Lamport's rule, saturated at the bound.  A saturated clock never starts a
\* request, so every timestamp in use is ordered as in the unbounded clock.
Advance(l, ts) ==
    LET up == IF l < ts THEN ts ELSE l
    IN  IF up + 1 < MaxLamport THEN up + 1 ELSE MaxLamport

\* update_membership: the ids n knows of after handling m ...
Learnt(n, m) == members[n] \cup {m.from} \cup m.known

\* ... and the broadcast_membership that follows if it learnt a new one.
Gossip(n, m) ==
    IF Learnt(n, m) = members[n] THEN {}
    ELSE {Reply(n, x, Learnt(n, m), FALSE) : x \in Learnt(n, m) \ {n}}

\* Variant with a bug: a majority of the grants is taken to be enough.
HasMajority(n) == 2 * Cardinality(acks[n]) > Cardinality(members[n])

\* required_acks: a count, compared with the number of acks held.
HasAllAcks(n) == Cardinality(acks[n]) >= Cardinality(members[n])

\* n's own vote is not out to another node under a lease that still runs.
OwnVoteFree(n) == lastHolder[n].id \in {NoNode, n} \/ lastHolder[n].left = 0

-----------------------------------------------------------------------------
(* acquire() *)

AcquireStart(n) ==
    /\ alive[n] /\ pc[n] = "idle"
    /\ started[n] < Acquires[n] /\ lamport[n] < MaxLamport
    /\ pc' = [pc EXCEPT ![n] = "broadcast"]
    /\ started' = [started EXCEPT ![n] = @ + 1]
    /\ lamport' = [lamport EXCEPT ![n] = @ + 1]
    /\ requestTs' = [requestTs EXCEPT ![n] = lamport[n] + 1]
    /\ acks' = [acks EXCEPT ![n] = {n}]
    /\ UNCHANGED <<deferred, lastHolder, members, msgs, alive>>

\* The wait of an eager node may time out at any moment, that of another
\* retrier once nothing of its request is under way.
TimesOut(n) ==
    \/ n \in Eager
    \/ /\ n \in Retriers
       /\ \A m \in msgs : (m.type = "request" => m.from # n) /\ (m.type = "reply" => m.to # n)

\* Variant with a bug: a member that cannot be reached is not pruned.
BroadcastWithoutPrune(n) ==
    /\ alive[n]
    /\ pc[n] = "broadcast" \/ (pc[n] = "waiting" /\ TimesOut(n))
    /\ pc' = [pc EXCEPT ![n] = "waiting"]
    /\ msgs' = msgs \cup Live({Request(n, x, requestTs[n], members[n]) : x \in members[n] \ {n}})
    /\ UNCHANGED <<started, lamport, requestTs, acks, deferred, lastHolder, members, alive>>

\* broadcast_request and, for the members it could not deliver to,
\* prune_unreachable.  Taken first after AcquireStart and again whenever the
\* wait times out or wakes up without being able to enter.
BroadcastRequest(n) ==
    LET dead == {x \in members[n] : ~alive[x]}
    IN  /\ alive[n]
        /\ pc[n] = "broadcast" \/ (pc[n] = "waiting" /\ TimesOut(n))
        /\ pc' = [pc EXCEPT ![n] = "waiting"]
        /\ msgs' = msgs \cup Live({Request(n, x, requestTs[n], members[n]) :
                                     x \in members[n] \ {n}})
        /\ members' = [members EXCEPT ![n] = @ \ dead]
        /\ deferred' = [deferred EXCEPT ![n] = {d \in @ : d[2] \notin dead}]
        /\ lastHolder' = [lastHolder EXCEPT ![n] = IF @.id \in dead THEN NoHolder ELSE @]
        /\ UNCHANGED <<started, lamport, requestTs, acks, alive>>

Enter(n) ==
    /\ alive[n] /\ pc[n] = "waiting"
    /\ HasAllAcks(n) /\ OwnVoteFree(n)
    /\ pc' = [pc EXCEPT ![n] = "cs"]
    /\ lastHolder' = [lastHolder EXCEPT ![n] = Holder(n, requestTs[n], Lease)]
    /\ UNCHANGED <<started, lamport, requestTs, acks, deferred, members, msgs, alive>>

\* The vote passes to the earliest deferred requester, if any.
PassVote(n, otherwise) ==
    IF deferred[n] = {} THEN otherwise
    ELSE Holder(Earliest(deferred[n])[2], Earliest(deferred[n])[1], Lease)

PassReply(n, known) ==
    IF deferred[n] = {} THEN {}
    ELSE {Reply(n, Earliest(deferred[n])[2], known, TRUE)}

WithoutEarliest(D) == IF D = {} THEN {} ELSE D \ {Earliest(D)}

\* f() has returned: hand the vote on and forget the request.
Exit(n) ==
    /\ alive[n] /\ pc[n] = "cs"
    /\ pc' = [pc EXCEPT ![n] = "releasing"]
    /\ lastHolder' = [lastHolder EXCEPT ![n] = PassVote(n, NoHolder)]
    /\ deferred' = [deferred EXCEPT ![n] = WithoutEarliest(@)]
    /\ requestTs' = [requestTs EXCEPT ![n] = 0]
    /\ acks' = [acks EXCEPT ![n] = {}]
    /\ msgs' = msgs \cup Live(PassReply(n, members[n]))
    /\ UNCHANGED <<started, lamport, members, alive>>

BroadcastRelease(n) ==
    /\ alive[n] /\ pc[n] = "releasing"
    /\ pc' = [pc EXCEPT ![n] = "idle"]
    /\ msgs' = msgs \cup Live({Release(n, x, members[n]) : x \in members[n] \ {n}})
    /\ UNCHANGED <<started, lamport, requestTs, acks, deferred, lastHolder, members, alive>>

-----------------------------------------------------------------------------
(* Message handlers *)

\* Variant with a bug: a running lease defers nobody.
LeaseIgnored(n, m) == FALSE

\* The lease granted to another node than the requester still runs.
DeferredByLease(n, m) == lastHolder[n].id \notin {NoNode, m.from} /\ lastHolder[n].left > 0

\* Variant with a bug: n's own pending request claims no priority.
GrantsWhilePending(n, m) == ~InCs(n) /\ ~DeferredByLease(n, m)

Grants(n, m) ==
    /\ ~InCs(n) /\ ~DeferredByLease(n, m)
    /\ requestTs[n] = 0 \/ Before(m.ts, m.from, requestTs[n], n)

\* A retry of the request already granted keeps its deadline (issue #37).
GrantedLease(n, m) ==
    IF lastHolder[n].id = m.from /\ lastHolder[n].ts = m.ts
    THEN lastHolder[n] ELSE Holder(m.from, m.ts, Lease)

HandleRequest(n, m) ==
    /\ m.type = "request" /\ m.to = n /\ alive[n]
    /\ lamport' = [lamport EXCEPT ![n] = Advance(@, m.ts)]
    /\ members' = [members EXCEPT ![n] = Learnt(n, m)]
    /\ IF Grants(n, m)
       THEN /\ lastHolder' = [lastHolder EXCEPT ![n] = GrantedLease(n, m)]
            /\ deferred' = [deferred EXCEPT ![n] = {d \in @ : d[2] # m.from}]
            /\ msgs' = (msgs \ {m})
                         \cup Live(Gossip(n, m) \cup {Reply(n, m.from, Learnt(n, m), TRUE)})
       ELSE /\ deferred' = [deferred EXCEPT ![n] = @ \cup {<<m.ts, m.from>>}]
            /\ msgs' = (msgs \ {m}) \cup Live(Gossip(n, m))
            /\ UNCHANGED lastHolder
    /\ UNCHANGED <<pc, started, requestTs, acks, alive>>

\* A reply names no request: it counts for whichever one is outstanding.
HandleReply(n, m) ==
    /\ m.type = "reply" /\ m.to = n /\ alive[n]
    /\ members' = [members EXCEPT ![n] = Learnt(n, m)]
    /\ acks' = [acks EXCEPT ![n] = IF requestTs[n] # 0 /\ m.grant THEN @ \cup {m.from} ELSE @]
    /\ msgs' = (msgs \ {m}) \cup Live(Gossip(n, m))
    /\ UNCHANGED <<pc, started, lamport, requestTs, deferred, lastHolder, alive>>

\* The earliest deferral is granted whatever n itself is doing.
HandleRelease(n, m) ==
    /\ m.type = "release" /\ m.to = n /\ alive[n]
    /\ members' = [members EXCEPT ![n] = Learnt(n, m)]
    /\ lastHolder' = [lastHolder EXCEPT ![n] =
                        PassVote(n, IF @.id = m.from THEN NoHolder ELSE @)]
    /\ deferred' = [deferred EXCEPT ![n] = WithoutEarliest(@)]
    /\ msgs' = (msgs \ {m}) \cup Live(Gossip(n, m) \cup PassReply(n, Learnt(n, m)))
    /\ UNCHANGED <<pc, started, lamport, requestTs, acks, alive>>

-----------------------------------------------------------------------------
(* The environment *)

\* One unit of time passes on every node's clock.
Tick ==
    /\ \E n \in Node : lastHolder[n].left > 0
    /\ lastHolder' = [n \in Node |-> [lastHolder[n] EXCEPT !.left = IF @ > 0 THEN @ - 1 ELSE 0]]
    /\ UNCHANGED <<pc, started, lamport, requestTs, acks, deferred, members, msgs, alive>>

Crash(n) ==
    /\ alive[n]
    /\ alive' = [alive EXCEPT ![n] = FALSE]
    /\ msgs' = {m \in msgs : m.to # n}
    /\ UNCHANGED <<pc, started, lamport, requestTs, acks, deferred, lastHolder, members>>

Acquire(n) ==
    \/ AcquireStart(n)
    \/ BroadcastRequest(n)
    \/ Enter(n)
    \/ Exit(n)
    \/ BroadcastRelease(n)

Handle(n, m) == HandleRequest(n, m) \/ HandleReply(n, m) \/ HandleRelease(n, m)

\* The mutex itself, with no lease running out and no node failing.
Step ==
    \/ \E n \in Node : Acquire(n)
    \/ \E n \in Node, m \in msgs : Handle(n, m)

Next ==
    \/ Step
    \/ Tick
    \/ \E n \in Crashable : Crash(n)

Spec == Init /\ [][Next]_vars

SpecWithinLease == Init /\ [][Step]_vars

\* Threads are scheduled, clocks run, and the transport delivers: acquire()
\* never stops by itself and every message reaches its handler.
HandleFrom(a, b, t) == \E m \in msgs : m.from = a /\ m.type = t /\ Handle(b, m)

Fairness ==
    /\ WF_vars(Tick)
    /\ \A n \in Node :
         /\ WF_vars(BroadcastRequest(n))
         /\ WF_vars(Enter(n))
         /\ WF_vars(Exit(n))
         /\ WF_vars(BroadcastRelease(n))
    /\ \A a \in Node : \A b \in Node \ {a} : \A t \in {"request", "reply", "release"} : WF_vars(HandleFrom(a, b, t))

FairSpec == Spec /\ Fairness

\* How initialize_relay uses the mutex it builds: one acquire() per instance,
\* and, once the relays know each other, everyone in every view.
SingleUse == \A n \in Node : Acquires[n] <= 1
Everyone == \A n \in Node : View[n] = Node

-----------------------------------------------------------------------------
(* Properties *)

HolderType == [id : Node \cup {NoNode}, ts : Nat, left : 0 .. Lease]

\* The fields of InnerState keep their types.
TypeOK ==
    /\ pc \in [Node -> {"idle", "broadcast", "waiting", "cs", "releasing"}]
    /\ started \in [Node -> Nat]
    /\ lamport \in [Node -> Nat]
    /\ requestTs \in [Node -> Nat]
    /\ acks \in [Node -> SUBSET Node]
    /\ deferred \in [Node -> SUBSET (Nat \X Node)]
    /\ lastHolder \in [Node -> HolderType]
    /\ members \in [Node -> SUBSET Node]
    /\ msgs \in SUBSET Message
    /\ alive \in [Node -> BOOLEAN]

\* What the trait promises: the closure passed to acquire() runs exclusively.
\* No two live nodes are in the critical section together.
MutualExclusion ==
    \A a, b \in Node : a # b /\ alive[a] /\ alive[b] => ~(InCs(a) /\ InCs(b))

\* "each node granting at most one holder at a time": a grant that has been
\* counted, or is on its way to a node that still waits for it, is a vote its
\* sender still holds for that node.  So no node's vote is out twice.
VotesAreHeld ==
    /\ \A r \in Node : \A v \in acks[r] \ {r} : lastHolder[v].id = r
    /\ \A m \in msgs : m.type = "reply" /\ m.grant /\ requestTs[m.to] # 0
                         => lastHolder[m.from].id = m.to

\* What a caller of acquire() sees of each node.
RunState ==
    [n \in Node |->
        IF ~alive[n] \/ pc[n] \in {"idle", "releasing"} THEN "out"
        ELSE IF pc[n] = "cs" THEN "in" ELSE "wants"]

Lock == INSTANCE ExclusiveRun WITH state <- RunState

\* The protocol implements the exclusive run the trait promises: every step of
\* acquire(), of a handler, of the clock or of a crash is one step of it or none.
ImplementsLock == Lock!Spec

\* Every acquire() of a node that stays up eventually runs its closure.
EventuallyEnters ==
    \A n \in Node : (pc[n] = "waiting") ~> (InCs(n) \/ ~alive[n])

=============================================================================
