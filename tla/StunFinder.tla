------------------------------ MODULE StunFinder ------------------------------
(***************************************************************************)
(* The STUN endpoint finder (bingle_core/src/stun/                         *)
(* stun_endpoint_finder_impl.rs): a tick polls the servers, their answers  *)
(* give a verdict on the public endpoint, silence takes it back.           *)
(*                                                                         *)
(* Ticks are kept as distances: sincePoll stands for current_tick -        *)
(* last_poll_tick and sinceRequest for current_tick - last_request_tick.   *)
(* A pending request is always later than the last answer, so              *)
(* last_response_tick adds nothing.                                        *)
(***************************************************************************)
EXTENDS Integers, FiniteSets

CONSTANTS
    Server, Endpoint, None,
    Search, Repeat,   \* search_ticks and repeat_ticks
    Silence,          \* no_response_ticks
    Faults,           \* which disturbances happen
    MaxFaults,        \* bound: how many of them
    MaxAge            \* bound: running time that current_tick remembers

ASSUME StunAssumption ==
    /\ None \notin Server /\ None \notin Endpoint /\ IsFiniteSet(Server)
    /\ Search \in Nat \ {0} /\ Repeat \in Nat /\ Repeat >= Search
    /\ Silence \in Nat /\ MaxFaults \in Nat /\ MaxAge \in Nat

VARIABLES
    servers,         \* the servers not pruned
    failures, responded, ever, heard,   \* per server; heard is its endpoint
    state, endpoint,
    lonely,          \* intervals_without_two
    sincePoll, sinceRequest, age,       \* age is current_tick
    told,            \* the last state_change callback
    replies,         \* answers on their way: pairs of server and endpoint
    mapped, online,  \* the network: the client's public endpoint, whether packets pass
    steady,          \* mapped has not changed since all servers were polled
    unpolled,        \* ticks since requests went out
    faults           \* the disturbances so far: how many, and of which kinds

serverVars == <<servers, failures, responded, ever, heard>>
clockVars == <<lonely, sincePoll, sinceRequest, age, unpolled>>
verdict == <<state, endpoint, told>>
netVars == <<replies, mapped, online>>
vars == <<serverVars, clockVars, verdict, netVars, steady, faults>>

Init ==
    /\ servers = Server /\ failures = [s \in Server |-> 0]
    /\ responded = [s \in Server |-> FALSE] /\ ever = [s \in Server |-> FALSE]
    /\ heard = [s \in Server |-> None]
    /\ state = "None" /\ endpoint = None /\ lonely = 0
    /\ sincePoll = None /\ sinceRequest = None /\ age = 0
    /\ told = [state |-> "None", endpoint |-> None]
    /\ replies = {} /\ mapped \in Endpoint /\ online \in BOOLEAN
    /\ steady = TRUE /\ unpolled = 0 /\ faults = [n |-> 0, kinds |-> {}]

Fault(kind) ==
    /\ kind \in Faults /\ faults.n < MaxFaults
    /\ faults' = [n |-> faults.n + 1, kinds |-> faults.kinds \cup {kind}]
Smaller(a, b) == IF a < b THEN a ELSE b

-----------------------------------------------------------------------------
(* recompute_state_and_notify, over the endpoints heard *)

Heard(h) == {s \in servers : h[s] # None}

Verdict(h) ==
    IF Heard(h) = {} THEN "None"
    ELSE IF Cardinality(Heard(h)) = 1 THEN "Single"
    ELSE IF \A s, t \in Heard(h) : h[s] = h[t] THEN "Consistent" ELSE "Inconsistent"

Recompute(h) ==
    LET found == IF Verdict(h) = "Consistent" THEN h[CHOOSE s \in Heard(h) : TRUE] ELSE None
    IN  /\ state' = Verdict(h) /\ endpoint' = found
        /\ told' = IF Verdict(h) # state \/ (Verdict(h) = "Consistent" /\ found # endpoint)
                   THEN [state |-> Verdict(h), endpoint |-> found] ELSE told

-----------------------------------------------------------------------------
(* stun_process_tick *)

Searching(st) == st \in {"None", "Single", "Blocked"}
Interval(st) == IF Searching(st) THEN Search ELSE Repeat

\* The silence timeout: no answer to the request pending since then.
Silent == ~Searching(state) /\ sinceRequest # None /\ sinceRequest + 1 > Silence

PollDue(st) == sincePoll = None \/ sincePoll + 1 >= Interval(st)

\* Every server, or those that have not answered the search.  Variant: always
\* those that have not answered.
ToPollUnanswered(st, resp) == {s \in servers : ~resp[s]}
ToPoll(st, resp) == IF st \in {"None", "Single"} THEN {s \in servers : ~resp[s]} ELSE servers

\* UDP is taken for blocked at the third interval.  Variant: at the fourth.
ThirdLate(n) == n >= 4
Third(n) == n >= 3

\* Requests go out to P: what it said before is cleared.  Variant: it stays.
ClearedNothing(P, h) == h
Cleared(P, h) == [s \in Server |-> IF s \in P THEN None ELSE h[s]]

\* What is known of the servers after a reset.
Unheard == [s \in Server |-> None]
Nobody == [s \in Server |-> FALSE]

Tick ==
    LET st == IF Silent THEN "None" ELSE state
        fail0 == IF Silent THEN [s \in Server |-> 0] ELSE failures
        resp0 == IF Silent THEN Nobody ELSE responded
        lonely0 == IF Silent THEN 0 ELSE lonely
        P == IF PollDue(st) THEN ToPoll(st, resp0) ELSE {}
        resp == [s \in Server |-> resp0[s] /\ s \notin P]
        fail == [s \in Server |-> IF s \in P THEN Smaller(fail0[s] + 1, 3) ELSE fail0[s]]
        counts == Searching(st) /\ P # {}
        third == counts /\ Third(lonely0 + 1)
        blocks == third /\ \A s \in servers : ~resp[s]
    IN  /\ IF replies = {} THEN UNCHANGED faults ELSE Fault("late")
        /\ age' = Smaller(age + 1, MaxAge)
        /\ sincePoll' = IF PollDue(st) THEN 0 ELSE sincePoll + 1
        /\ sinceRequest' = IF Silent THEN None
                           ELSE IF sinceRequest = None THEN IF ~Searching(st) /\ P # {} THEN 0 ELSE None
                           ELSE Smaller(sinceRequest + 1, Silence)
        /\ unpolled' = IF P = {} THEN Smaller(unpolled + 1, Repeat + 1) ELSE 0
        /\ replies' = replies \cup {<<s, mapped>> : s \in IF online THEN P ELSE {}}
        /\ steady' = (steady \/ (P = servers /\ \A m \in replies : m[2] = mapped))
        /\ heard' = Cleared(P, IF Silent THEN Unheard ELSE heard)
        /\ responded' = IF third /\ ~blocks THEN [s \in Server |-> resp[s] /\ ~ever[s]] ELSE resp
        /\ lonely' = IF ~counts THEN lonely0 ELSE IF third /\ ~blocks THEN 0 ELSE Smaller(lonely0 + 1, 3)
        /\ IF blocks
           THEN /\ state' = "Blocked" /\ endpoint' = None
                /\ told' = IF st = "Blocked" THEN told ELSE [state |-> "Blocked", endpoint |-> None]
           ELSE IF Silent THEN Recompute(Unheard) ELSE UNCHANGED verdict
        /\ IF blocks THEN failures' = [s \in Server |-> 0] /\ UNCHANGED servers
           ELSE /\ failures' = fail
                /\ servers' = IF PollDue(st) THEN {s \in servers : fail[s] < 3 \/ ever[s]} ELSE servers
        /\ UNCHANGED <<ever, mapped, online>>

-----------------------------------------------------------------------------
(* process_packet, reset_state, a new start *)

\* An answer of a server that was pruned still counts as an answer.
ProcessPacket(s, e) ==
    LET known == s \in servers
        h == IF known THEN [heard EXCEPT ![s] = e] ELSE heard
    IN  /\ <<s, e>> \in replies /\ replies' = replies \ {<<s, e>>}
        /\ heard' = h
        /\ responded' = [responded EXCEPT ![s] = @ \/ known]
        /\ ever' = [ever EXCEPT ![s] = @ \/ known]
        /\ failures' = IF known THEN [failures EXCEPT ![s] = 0] ELSE failures
        /\ sinceRequest' = None
        /\ Recompute(h)
        /\ UNCHANGED <<servers, lonely, sincePoll, age, unpolled, mapped, online, steady, faults>>

\* current_tick starts again at 0; last_poll_tick is kept.
ResetState ==
    /\ Fault("reset")
    /\ state' = "None" /\ endpoint' = None /\ lonely' = 0
    /\ sinceRequest' = None /\ age' = 0
    /\ sincePoll' = IF sincePoll = None THEN None ELSE sincePoll - age
    /\ responded' = Nobody /\ heard' = Unheard /\ failures' = [s \in Server |-> 0]
    /\ UNCHANGED <<servers, ever, told, replies, mapped, online, steady, unpolled>>

\* stop, then start with the configured servers.
Restart ==
    /\ Fault("restart")
    /\ servers' = Server /\ failures' = [s \in Server |-> 0]
    /\ responded' = Nobody /\ ever' = Nobody /\ heard' = Unheard
    /\ state' = "None" /\ endpoint' = None /\ lonely' = 0
    /\ sincePoll' = None /\ sinceRequest' = None /\ age' = 0 /\ unpolled' = 0
    /\ UNCHANGED <<told, replies, mapped, online, steady>>

-----------------------------------------------------------------------------
(* The network *)

Lose ==
    /\ Fault("loss") /\ \E m \in replies : replies' = replies \ {m}
    /\ UNCHANGED <<serverVars, clockVars, verdict, mapped, online, steady>>

Remap ==
    /\ Fault("remap") /\ mapped' \in Endpoint \ {mapped} /\ steady' = FALSE
    /\ UNCHANGED <<serverVars, clockVars, verdict, replies, online>>

GoesOffline ==
    /\ online /\ Fault("outage") /\ online' = FALSE /\ replies' = {}
    /\ UNCHANGED <<serverVars, clockVars, verdict, mapped, steady>>

GoesOnline ==
    /\ ~online /\ online' = TRUE
    /\ UNCHANGED <<serverVars, clockVars, verdict, replies, mapped, steady, faults>>

-----------------------------------------------------------------------------
Answer == \E s \in Server, e \in Endpoint : ProcessPacket(s, e)

Next == Tick \/ Answer \/ ResetState \/ Restart \/ Lose \/ Remap \/ GoesOffline \/ GoesOnline

Spec == Init /\ [][Next]_vars

\* The thread ticks, packets arrive unless lost; an outage may last.
FairSpec == Spec /\ WF_vars(Tick) /\ WF_vars(Answer)

-----------------------------------------------------------------------------
(* Properties *)

\* The finder's fields keep their types; an endpoint is known exactly in Consistent.
TypeOK ==
    /\ servers \subseteq Server /\ failures \in [Server -> 0 .. 3]
    /\ responded \in [Server -> BOOLEAN] /\ ever \in [Server -> BOOLEAN]
    /\ heard \in [Server -> Endpoint \cup {None}]
    /\ state \in {"None", "Single", "Consistent", "Inconsistent", "Blocked"}
    /\ endpoint \in Endpoint \cup {None} /\ (endpoint # None <=> state = "Consistent")
    /\ lonely \in 0 .. 3 /\ age \in 0 .. MaxAge /\ unpolled \in 0 .. Repeat + 1
    /\ sincePoll = None \/ sincePoll \in -MaxAge .. Repeat - 1
    /\ sinceRequest = None \/ sinceRequest \in 0 .. Silence
    /\ replies \subseteq Server \X Endpoint /\ mapped \in Endpoint

\* "search_time_ms is used when state is NONE or SINGLE. repeat_time_ms is used
\* when state is CONSISTENT or INCONSISTENT": requests go out at least every
\* Repeat ticks, as long as the engine resets nothing and two servers are left.
PollingGoesOn == "reset" \notin faults.kinds /\ Cardinality(servers) > 1 => unpolled < Repeat

\* Servers that never answered are pruned only when some other server has: an
\* outage from the start leaves the whole list for the recovery.
OutageKeepsServers == (\A s \in Server : ~ever[s]) => servers = Server

\* Behind a NAT that maps all servers alike, Inconsistent is reported only when
\* the mapping changed since the last full poll, or an answer from before the
\* change was still under way at that poll: the finder cannot tell such a late
\* answer from one of the new round, but mixes no rounds otherwise.
InconsistentMeansChange ==
    [][told' # told /\ told'.state = "Inconsistent" => ~steady']_vars

\* With the network back, and two servers left, the engine is told the public
\* endpoint again and again, also when a remap, an outage or a reset took it away.
FindsEndpoint ==
    []<>\/ told = [state |-> "Consistent", endpoint |-> mapped] /\ state = "Consistent"
        \/ ~online \/ Cardinality(servers) < 2

\* An outage does not leave the old endpoint standing.
SilenceIsNoticed == (state \in {"Consistent", "Inconsistent"} /\ ~online) ~> (online \/ Searching(state))

\* The finder neither stops asking nor runs out of servers to ask: the intervals
\* are kept, and an outage from the start prunes none.
KeepsPolling == TypeOK /\ PollingGoesOn /\ OutageKeepsServers

\* What the engine is told follows the network: the endpoint is found again after
\* a change, and withdrawn in an outage.
FollowsNetwork == FindsEndpoint /\ SilenceIsNoticed

=============================================================================
