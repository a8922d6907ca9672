---------------------------- MODULE DdbReplication ----------------------------
(***************************************************************************)
(* The replicated advert database (DDB) of the relays: bingle_core/src/ddb *)
(* and the DDB handlers of messages/handlers.rs, with the start of a relay *)
(* (Engine::initialize_relay), the refresh and expiry of client adverts    *)
(* and the removal of failed or disallowed relays.                         *)
(*                                                                         *)
(* A relay takes each message on a thread of its own, so messages are      *)
(* handled in any order: net is a set.  Time is counted in thirds of the   *)
(* advert time to live, the refresh interval; the exchanges of a           *)
(* registration or a load take seconds and end within their third.         *)
(***************************************************************************)
EXTENDS Integers, FiniteSets, FiniteSetsExt

CONSTANTS
    Relay, Client,    \* ids: disjoint sets of numbers, ordered like the id strings
    Worlds            \* deployments, each with what disturbs it and two bounds: how often
                      \* (max), and the registrations of a client (regs)

Id == Relay \cup Client
\* What a relay holds for an id. A client's record is the number of its registration.
Absent == 0
Plain == 1     \* a relay's record with am_relay = false
Signed == 2    \* a relay's record with am_relay = true
Unsigned == 3  \* the same, made from a status list, without a signature
Expiry == 3    \* the time to live, in refresh intervals
NoTarget == -1

ASSUME DdbAssumption ==
    /\ Relay \subseteq Nat /\ Client \subseteq Nat /\ Relay \cap Client = {}
    /\ \A w \in Worlds :
          /\ w.up \subseteq w.relays /\ w.relays \subseteq Relay
          /\ w.roots \subseteq Relay /\ w.clients \subseteq Client
          /\ w.max \in Nat /\ w.regs \in Nat

VARIABLES
    world,           \* the deployment: its relays, their chain roots, its clients
    db, age,         \* per relay: the record of each id, thirds since it was received
    pc,              \* per relay: how far its start has come
    holder,          \* the relay in the initialization mutex, or 0
    known,           \* per relay: the relay list read before the mutex
    target, signon,  \* per relay: peer_ddb_records and signon_complete
    net,             \* messages under way
    allowed,         \* relays with allow_relay on chain
    evicting,        \* per relay: what its permission pass is about to delete
    status, ver,     \* per client: "new", "on" or "off", and the registrations it has tried
    asking,          \* per client: a registration under way, "sent" or "done" at the relay, or "no"
    reg,             \* per client: advert_registration, the one that is refreshed
    fresh,           \* per client: refreshed in this third
    faults           \* the disturbances so far: how many, and of which kinds

relayVars == <<db, age, pc, holder, known, target, signon>>
permVars == <<allowed, evicting>>
clientVars == <<status, ver, asking, reg, fresh>>
vars == <<world, relayVars, net, permVars, clientVars, faults>>

----
Starting(r) == pc[r] \notin {"down", "up"}
Available(r) == pc[r] \in {"available", "registering", "up"}
Listed(q) == {r \in Relay : db[q][r] \in {Signed, Unsigned}}   \* make_epoch_info
Size(q) == Cardinality({i \in Id : db[q][i] # Absent})
\* find_relay: a new finder knows the roots on chain; it takes one that answers Available.
Selectable(i) == {q \in world.roots \ {i} : Available(q)}
\* Record rec of i waits to be answered, which happens after it was passed on.
Waiting(i, rec) == \E m \in net : m.type = "upsert" /\ m.id = i /\ m.rec = rec
\* Part of relay r's load is under way.
Loading(r) == \E m \in net :
    \/ m.type = "dump" /\ m.to = r
    \/ m.type = "signon" /\ m.from = r

Upsert(q, i, rec, by, rippled) ==
    [type |-> "upsert", to |-> q, id |-> i, rec |-> rec, from |-> by, rippled |-> rippled]
Remove(q, i, by, rippled) ==
    [type |-> "signoff", to |-> q, id |-> i, from |-> by, rippled |-> rippled]
Failed(q, i, by, rippled) ==
    [type |-> "failed", to |-> q, id |-> i, from |-> by, rippled |-> rippled]
\* The relays of d that ripple_message sends to; a send to a relay that is down is lost.
RipplesNobody(q, d, i) == {}   \* variant
Ripples(q, d, i) == {r \in Relay \ {q, i} : d[r] \in {Signed, Unsigned} /\ pc[r] # "down"}

Fault(kind) ==
    /\ kind \in world.faults /\ faults.n < world.max
    /\ faults' = [n |-> faults.n + 1, kinds |-> faults.kinds \cup {kind}]
Note(kind) == faults' = [faults EXCEPT !.kinds = @ \cup {kind}]

Empty == [i \in Id |-> Absent]
Ages0 == [i \in Id |-> 0]
Put(q, i, rec) ==
    /\ db' = [db EXCEPT ![q][i] = rec]
    /\ age' = [age EXCEPT ![q][i] = 0]

Init ==
    /\ world \in Worlds
    /\ db = [q \in Relay |-> IF q \in world.up
                             THEN [i \in Id |-> IF i \in world.up \cup world.roots
                                                THEN Signed ELSE Absent]
                             ELSE Empty]
    /\ age = [q \in Relay |-> Ages0]
    /\ pc = [r \in Relay |-> IF r \in world.up THEN "up" ELSE "down"]
    /\ holder = 0 /\ known = [r \in Relay |-> Empty]
    /\ target = [r \in Relay |-> NoTarget] /\ signon = [r \in Relay |-> FALSE]
    /\ net = {} /\ allowed = Relay /\ evicting = [r \in Relay |-> {}]
    /\ status = [c \in Client |-> "new"] /\ ver = [c \in Client |-> 0]
    /\ asking = [c \in Client |-> "no"] /\ reg = [c \in Client |-> 0]
    /\ fresh = [c \in Client |-> FALSE]
    /\ faults = [n |-> 0, kinds |-> {}]

----
(* The start of a relay: start_with_addr or on_triangle_test3 *)

Advance(r, to) == pc' = [pc EXCEPT ![r] = to]

\* First registration, as a plain node: with a root that is Available, or not at all.
Start(r) ==
    /\ r \in world.relays /\ pc[r] = "down"
    /\ Advance(r, "plain")
    /\ IF Selectable(r) = {} THEN UNCHANGED net
       ELSE \E q \in Selectable(r) : net' = net \cup {Upsert(q, r, Plain, r, FALSE)}
    /\ IF \E o \in Relay \ {r} : Starting(o) THEN Note("overlap") ELSE UNCHANGED faults
    /\ UNCHANGED <<world, db, age, holder, known, target, signon, permVars, clientVars>>

\* What a status query of q, or without an answer the chain, gives as the relay list.
ListFrom(q) == [i \in Id |-> IF i \in Listed(q) THEN Unsigned ELSE Absent]
ListOfRoots == [i \in Id |-> IF i \in world.roots THEN Signed ELSE Absent]
WithSelf(r, list) == [list EXCEPT ![r] = IF @ = Absent THEN Signed ELSE @]

\* initialize_relay up to the mutex: the relay list, with this relay in it.
Prepare(r) ==
    /\ pc[r] = "plain" /\ ~Waiting(r, Plain)
    /\ Advance(r, "mutex")
    /\ IF Selectable(r) = {} THEN known' = [known EXCEPT ![r] = WithSelf(r, ListOfRoots)]
       ELSE \E q \in Selectable(r) : known' = [known EXCEPT ![r] =
               WithSelf(r, IF Listed(q) = {} THEN ListOfRoots ELSE ListFrom(q))]
    /\ UNCHANGED <<world, db, age, holder, target, signon, net, permVars, clientVars, faults>>

\* The peers counted as available inside the mutex. A relay that answers Available reports
\* its own state for every relay it lists; an empty list is replaced by the roots, unknown.
Peers(r, q) == Listed(q) \ {r}
Queried(r) == {q \in Relay \ {r} : known[r][q] # Absent /\ Available(q)}

Enter(r) == pc[r] = "mutex" /\ holder = 0

\* No peer is available: the list read earlier is the database.
Bootstrap(r) ==
    /\ Enter(r)
    /\ Queried(r) = {} \/ \E q \in Queried(r) : Peers(r, q) = {}
    /\ db' = [db EXCEPT ![r] = [i \in Id |-> IF known[r][i] # Absent THEN known[r][i] ELSE @[i]]]
    /\ age' = [age EXCEPT ![r] = [i \in Id |-> IF known[r][i] # Absent THEN 0 ELSE @[i]]]
    /\ Advance(r, "left")
    /\ UNCHANGED <<world, holder, known, target, signon, net, permVars, clientVars, faults>>

\* Some peer is available: load from the first relay of the list, in the order of the ids.
StartLoad(r) ==
    /\ Enter(r)
    /\ \E q \in Queried(r) :
          /\ Peers(r, q) # {}
          /\ LET peer == Min(Peers(r, q)) IN
             net' = IF pc[peer] = "down" THEN net
                    ELSE net \cup {[type |-> "init", to |-> peer, from |-> r]}
    /\ holder' = r /\ signon' = [signon EXCEPT ![r] = FALSE]
    /\ Advance(r, "load")
    /\ UNCHANGED <<world, db, age, known, target, permVars, clientVars, faults>>

\* handle_init: a snapshot of the live records, their number and one dump for each.
HandleInit(q) ==
    \E m \in net :
        /\ m.type = "init" /\ m.to = q
        /\ net' = (net \ {m})
             \cup {[type |-> "initResponse", to |-> m.from, count |-> Size(q)]}
             \cup {[type |-> "dump", to |-> m.from, from |-> q, id |-> i, rec |-> db[q][i]] :
                      i \in {j \in Id : db[q][j] # Absent}}
        /\ UNCHANGED <<world, relayVars, permVars, clientVars, faults>>

\* start_load_from_peer has the answer; only now is the number of records known.
LoadStarts(r) ==
    \E m \in net :
        /\ m.type = "initResponse" /\ m.to = r /\ pc[r] = "load"
        /\ net' = net \ {m}
        /\ target' = [target EXCEPT ![r] = m.count]
        /\ Advance(r, "loading")
        /\ UNCHANGED <<world, db, age, holder, known, signon, permVars, clientVars, faults>>

\* No answer comes: the start goes on without the peer's records.
Unanswered(r) ==
    /\ pc[r] = "load"
    /\ ~\E m \in net : \/ m.type = "init" /\ m.from = r
                       \/ m.type = "initResponse" /\ m.to = r
LoadFailsRetries(r) ==   \* variant: try until a peer answers
    /\ Unanswered(r)
    /\ holder' = 0 /\ Advance(r, "mutex")
    /\ UNCHANGED <<world, db, age, known, target, signon, net, permVars, clientVars, faults>>
LoadFails(r) ==
    /\ Unanswered(r)
    /\ holder' = 0 /\ Advance(r, "left") /\ Note("noload")
    /\ UNCHANGED <<world, db, age, known, target, signon, net, permVars, clientVars>>

\* check_relay_allowed and verify, before a record is taken over.
Acceptable(i, rec) == rec # Unsigned /\ (i \in Relay /\ rec = Signed => i \in allowed)

\* on_ddb_dump_resolve: keep the record; when the size is right, sign on with the peer.
HandleDump(r) ==
    \E m \in net :
        /\ m.type = "dump" /\ m.to = r
        /\ IF Acceptable(m.id, m.rec) THEN Put(r, m.id, m.rec) ELSE UNCHANGED <<db, age>>
        /\ net' = (net \ {m}) \cup
              (IF Cardinality({i \in Id : db'[r][i] # Absent}) = target[r] /\ pc[m.from] # "down"
               THEN {[type |-> "signon", to |-> m.from, from |-> r]} ELSE {})
        /\ UNCHANGED <<world, pc, holder, known, target, signon, permVars, clientVars, faults>>

\* on_ddb_signon: the answer sets the new relay's signon_complete. The sign-on goes on to
\* the other relays, whose answers set the peer's own: one message stands for them.
HandleSignon(q) ==
    \E m \in net :
        /\ m.type = "signon" /\ m.to = q
        /\ signon' = [signon EXCEPT ![m.from] = pc[m.from] # "down"]
        /\ net' = (net \ {m}) \cup
              (IF Ripples(q, db[q], m.from) = {} THEN {} ELSE {[type |-> "echo", to |-> q]})
        /\ UNCHANGED <<world, db, age, pc, holder, known, target, permVars, clientVars, faults>>
HandleEcho(q) ==
    \E m \in net :
        /\ m.type = "echo" /\ m.to = q
        /\ net' = net \ {m} /\ signon' = [signon EXCEPT ![q] = TRUE]
        /\ UNCHANGED <<world, db, age, pc, holder, known, target, permVars, clientVars, faults>>

\* The wait for the sign-on ends, answered or after its 60 seconds; this relay's own record
\* is added and the mutex released.
LoadEnds(r) ==
    /\ pc[r] = "loading" /\ (signon[r] \/ ~Loading(r))
    /\ Put(r, r, Signed)
    /\ holder' = 0 /\ Advance(r, "left")
    /\ IF signon[r] THEN UNCHANGED faults ELSE Note("timeout")
    /\ UNCHANGED <<world, known, target, signon, net, permVars, clientVars>>

\* After the mutex: Available, and the periodic passes start.
BecomeAvailable(r) ==
    /\ pc[r] = "left" /\ Advance(r, "available")
    /\ UNCHANGED <<world, db, age, holder, known, target, signon, net, permVars, clientVars, faults>>

\* Second registration, as a relay; it is not tried again.
RegisterRelay(r) ==
    /\ pc[r] = "available"
    /\ IF Selectable(r) = {} THEN Advance(r, "up") /\ UNCHANGED net
       ELSE /\ Advance(r, "registering")
            /\ \E q \in Selectable(r) : net' = net \cup {Upsert(q, r, Signed, r, FALSE)}
    /\ UNCHANGED <<world, db, age, holder, known, target, signon, permVars, clientVars, faults>>
RelayStarted(r) ==
    /\ pc[r] = "registering" /\ ~Waiting(r, Signed) /\ Advance(r, "up")
    /\ UNCHANGED <<world, db, age, holder, known, target, signon, net, permVars, clientVars, faults>>

----
(* Updates *)

\* What the relay q passes on of m, with database d.
PassOnNews(q, m, d) ==   \* variant: a record it already has is not passed on
    IF m.rippled \/ db[q][m.id] = m.rec THEN {}
    ELSE {Upsert(p, m.id, m.rec, q, TRUE) : p \in Ripples(q, d, m.id)}
PassOn(q, m, d) ==
    IF m.rippled THEN {} ELSE {Upsert(p, m.id, m.rec, q, TRUE) : p \in Ripples(q, d, m.id)}

\* on_ddb_upsert_resolve: keep the record; the relay it was sent to passes it on and answers.
HandleUpsert(q) ==
    \E m \in net :
        /\ m.type = "upsert" /\ m.to = q
        /\ IF ~Acceptable(m.id, m.rec) THEN net' = net \ {m} /\ UNCHANGED <<db, age>>
           ELSE /\ Put(q, m.id, m.rec)
                /\ net' = (net \ {m}) \cup PassOn(q, m, db'[q])
        /\ asking' = IF ~m.rippled /\ m.id \in Client /\ m.rec = ver[m.id] /\ asking[m.id] = "sent"
                     THEN [asking EXCEPT ![m.id] = "done"] ELSE asking
        /\ UNCHANGED <<world, pc, holder, known, target, signon, permVars, status, ver, reg, fresh,
                       faults>>

\* on_ddb_signoff, and on_ddb_delete_resolve, which differs in its answer.
HandleSignoff(q) ==
    \E m \in net :
        /\ m.type = "signoff" /\ m.to = q
        /\ Put(q, m.id, Absent)
        /\ net' = (net \ {m}) \cup
              (IF m.rippled THEN {}
               ELSE {Remove(p, m.id, q, TRUE) : p \in Ripples(q, db'[q], m.id)})
        /\ UNCHANGED <<world, pc, holder, known, target, signon, permVars, clientVars, faults>>

----
(* Clients *)

\* ddb_register_ip or ddb_register_relay: ask a root that is Available ...
Register(c) ==
    /\ c \in world.clients /\ ver[c] < world.regs /\ asking[c] = "no"
    /\ ver' = [ver EXCEPT ![c] = @ + 1] /\ asking' = [asking EXCEPT ![c] = "sent"]
    /\ \E q \in Selectable(c) : net' = net \cup {Upsert(q, c, ver[c] + 1, c, FALSE)}
    /\ UNCHANGED <<world, relayVars, permVars, status, reg, fresh, faults>>

\* ... and, when it answers, remember the registration and have it refreshed. Without an
\* answer an earlier registration stays the one that is refreshed.
Registered(c) ==
    /\ asking[c] # "no" /\ ~Waiting(c, ver[c]) /\ asking' = [asking EXCEPT ![c] = "no"]
    /\ IF asking[c] = "done"
       THEN /\ status' = [status EXCEPT ![c] = "on"] /\ reg' = [reg EXCEPT ![c] = ver[c]]
            /\ fresh' = [fresh EXCEPT ![c] = @ \/ status[c] # "on"]
       ELSE UNCHANGED <<status, reg, fresh>>
    /\ UNCHANGED <<world, relayVars, net, permVars, ver, faults>>

\* The pass of start_advert_refresh: the last registration again, with any root that answers.
Refresh(c) ==
    /\ status[c] = "on" /\ ~fresh[c] /\ ~Waiting(c, reg[c])
    /\ fresh' = [fresh EXCEPT ![c] = TRUE]
    /\ IF Selectable(c) = {} THEN UNCHANGED net
       ELSE \E q \in Selectable(c) : net' = net \cup {Upsert(q, c, reg[c], c, FALSE)}
    /\ UNCHANGED <<world, relayVars, permVars, status, ver, asking, reg, faults>>

\* ddb_signoff: no refresh from here on, then tell a relay. A crash tells nobody.
Stop(c) ==
    /\ status[c] = "on" /\ asking[c] = "no" /\ ~Waiting(c, reg[c])
    /\ status' = [status EXCEPT ![c] = "off"]
    /\ UNCHANGED <<world, relayVars, permVars, ver, asking, reg, fresh>>
Signoff(c) ==
    /\ Stop(c)
    /\ IF Selectable(c) = {} THEN UNCHANGED net
       ELSE \E q \in Selectable(c) : net' = net \cup {Remove(q, c, c, FALSE)}
    /\ UNCHANGED faults
Vanish(c) == Stop(c) /\ Fault("vanish") /\ UNCHANGED net

\* is_expired: client adverts and plain relay records, but not a relay's own.
AgesNever(q, i) == FALSE   \* variant: records do not age
Ages(q, i) == db[q][i] # Absent /\ i # q /\ (i \in Client \/ db[q][i] = Plain)
ExpiresEarly(q, i) == Ages(q, i) /\ age[q][i] + 2 >= Expiry   \* variant: one interval early
Expires(q, i) == Ages(q, i) /\ age[q][i] + 1 >= Expiry

\* A third of the time to live passes: every live client has refreshed, and records that got
\* old are gone. sweep_expired only frees what is_expired already hides.
Tick ==
    /\ net = {} /\ \A r \in Relay : ~Starting(r)
    /\ \A c \in Client : asking[c] = "no" /\ (status[c] = "on" => fresh[c])
    /\ db' = [q \in Relay |-> [i \in Id |-> IF Expires(q, i) THEN Absent ELSE db[q][i]]]
    /\ age' = [q \in Relay |-> [i \in Id |->
                  IF Ages(q, i) /\ ~Expires(q, i) THEN age[q][i] + 1 ELSE 0]]
    /\ fresh' = [c \in Client |-> FALSE]
    /\ UNCHANGED <<world, pc, holder, known, target, signon, net, permVars, status, ver, asking, reg,
                   faults>>

----
(* Relays that fail or lose their permission *)

\* A node that chose relay q reports a root r that did not answer Available.
Report(q, r) ==
    /\ Available(q) /\ r \in world.roots \ {q} /\ ~Available(r) /\ Fault("report")
    /\ net' = net \cup {[type |-> "report", to |-> q, id |-> r]}
    /\ UNCHANGED <<world, relayVars, permVars, clientVars>>

\* on_relay_report_failed asks another relay for r, and r for its state ...
HandleReport(q) ==
    \E m \in net :
        /\ m.type = "report" /\ m.to = q
        /\ LET others == {x \in Relay \ {q} : Available(x)} IN
           \E unlisted \in {m.id \notin Listed(x) : x \in others} \cup
                           (IF others = {} THEN {FALSE} ELSE {}) :
              net' = (net \ {m}) \cup
                 (IF unlisted \/ ~Available(m.id) THEN {Failed(q, m.id, q, FALSE)} ELSE {})
        /\ UNCHANGED <<world, relayVars, permVars, clientVars, faults>>

\* ... and then removes it, here and, by a ripple, everywhere.
MarkFailed(q) ==
    \E m \in net :
        /\ m.type = "failed" /\ m.to = q
        /\ LET trusted == m.rippled => \E x \in Relay \ {q} : Available(x) /\ m.from \in Listed(x) IN
           IF trusted THEN Put(q, m.id, Absent) ELSE UNCHANGED <<db, age>>
        /\ net' = (net \ {m}) \cup
              (IF m.rippled THEN {} ELSE {Failed(p, m.id, q, TRUE) : p \in Ripples(q, db'[q], m.id)})
        /\ UNCHANGED <<world, pc, holder, known, target, signon, permVars, clientVars, faults>>

Withdraw(r) ==
    /\ r \in allowed /\ r \in world.relays /\ Fault("withdraw") /\ allowed' = allowed \ {r}
    /\ UNCHANGED <<world, relayVars, net, evicting, clientVars>>
\* relays_to_evict, with the relay's own record left in place.
ToEvict(q) == Listed(q) \ (allowed \cup {q})
\* evict_disallowed_relays: choose what to evict without the lock, then delete.
EvictRead(q) ==
    /\ Available(q) /\ evicting[q] = {} /\ ToEvict(q) # {}
    /\ evicting' = [evicting EXCEPT ![q] = ToEvict(q)]
    /\ UNCHANGED <<world, relayVars, net, allowed, clientVars, faults>>
EvictDelete(q) ==
    /\ evicting[q] # {}
    /\ db' = [db EXCEPT ![q] = [i \in Id |-> IF i \in evicting[q] THEN Absent ELSE @[i]]]
    /\ age' = [age EXCEPT ![q] = [i \in Id |-> IF i \in evicting[q] THEN 0 ELSE @[i]]]
    /\ evicting' = [evicting EXCEPT ![q] = {}]
    /\ UNCHANGED <<world, pc, holder, known, target, signon, net, allowed, clientVars, faults>>

\* A relay loses everything; its peers' answers go to a session that is gone.
Crash(r) ==
    /\ pc[r] # "down" /\ Fault("crash") /\ Advance(r, "down")
    /\ db' = [db EXCEPT ![r] = Empty] /\ age' = [age EXCEPT ![r] = Ages0]
    /\ holder' = IF holder = r THEN 0 ELSE holder
    /\ known' = [known EXCEPT ![r] = Empty]
    /\ target' = [target EXCEPT ![r] = NoTarget] /\ signon' = [signon EXCEPT ![r] = FALSE]
    /\ evicting' = [evicting EXCEPT ![r] = {}]
    /\ net' = {m \in net : m.to # r /\ ~(m.type \in {"init", "signon"} /\ m.from = r)}
    /\ UNCHANGED <<world, allowed, clientVars>>
\* A message whose retransmissions all fail.
Lose ==
    \E m \in net : Fault("loss") /\ net' = net \ {m}
                   /\ UNCHANGED <<world, relayVars, permVars, clientVars>>
LoseAnswer(c) ==
    /\ asking[c] = "done" /\ Fault("loss") /\ asking' = [asking EXCEPT ![c] = "sent"]
    /\ UNCHANGED <<world, relayVars, net, permVars, status, ver, reg, fresh>>

----
RelayStep(r) ==
    \/ Prepare(r) \/ Bootstrap(r) \/ StartLoad(r) \/ LoadStarts(r) \/ LoadFails(r) \/ LoadEnds(r)
    \/ BecomeAvailable(r) \/ RegisterRelay(r) \/ RelayStarted(r)
Handle(r) ==
    \/ HandleInit(r) \/ HandleDump(r) \/ HandleSignon(r) \/ HandleEcho(r)
    \/ HandleUpsert(r) \/ HandleSignoff(r) \/ HandleReport(r) \/ MarkFailed(r)

Next ==
    \/ \E r \in Relay : Start(r) \/ RelayStep(r) \/ Handle(r) \/ EvictRead(r) \/ EvictDelete(r)
                        \/ Withdraw(r) \/ Crash(r) \/ \E q \in Relay : Report(q, r)
    \/ \E c \in Client : Register(c) \/ Registered(c) \/ Refresh(c) \/ Signoff(c) \/ Vanish(c)
                         \/ LoseAnswer(c)
    \/ Tick \/ Lose

Spec == Init /\ [][Next]_vars

\* Threads run, messages sent are handled unless lost, and the periodic passes go on.
Fairness ==
    /\ \A r \in Relay : WF_vars(RelayStep(r)) /\ WF_vars(Handle(r))
                        /\ WF_vars(EvictRead(r) \/ EvictDelete(r))
    /\ \A c \in Client : WF_vars(Registered(c)) /\ WF_vars(Refresh(c))
    /\ WF_vars(Tick)

FairSpec == Spec /\ Fairness

----
(* Properties *)

\* Records, ages and the start of relays keep their types, ages stay below the time to
\* live, and at most the holder of the mutex is loading.
TypeOK ==
    /\ db \in [Relay -> [Id -> 0 .. 3]] /\ age \in [Relay -> [Id -> 0 .. Expiry - 1]]
    /\ pc \in [Relay -> {"down", "plain", "mutex", "load", "loading", "left", "available",
                         "registering", "up"}]
    /\ \A r \in Relay : pc[r] \in {"load", "loading"} <=> holder = r
    /\ target \in [Relay -> NoTarget .. Cardinality(Id)] /\ signon \in [Relay -> BOOLEAN]
    /\ allowed \subseteq Relay /\ evicting \in [Relay -> SUBSET Relay]
    /\ asking \in [Client -> {"no", "sent", "done"}]
    /\ ver \in [Client -> 0 .. world.regs] /\ \A c \in Client : reg[c] \in 0 .. ver[c]

Settled == net = {} /\ \A r \in Relay : ~Starting(r)
Up == {r \in Relay : pc[r] = "up"}

\* When relays start one after the other, and nothing fails, every relay ends up in the
\* relay list of every other: the lists that ripple_message sends along. The mutex of
\* initialize_relay does not cover the registration that follows it, so relays that start
\* at once may miss each other.
RelaysKnowEachOther ==
    Settled /\ faults.kinds \subseteq {"vanish", "timeout"} => \A q \in Up : \A r \in Up \ {q} : r \in Listed(q)

\* A relay's start ends, whatever is lost and whoever crashes: no wait of
\* initialize_relay is forever.
StartEnds == \A r \in Relay : Starting(r) ~> ~Starting(r)

\* With relay lists that are complete from some time on, every relay comes to hold the last
\* registration of a client that stays.
Complete == \A q \in Up : \A r \in Up \ {q} : r \in Listed(q)
Converges ==
    \A c \in Client, r \in Relay :
        [](status[c] = "on" /\ r \in Up /\ Complete) ~> (db[r][c] = reg[c] \/ world.roots \cap Up = {})

\* The advert of a client that has stopped, signed off or not, ends up nowhere, also when
\* a ripple, a dump or the sign-off itself was late or lost.
GoneInTheEnd == \A c \in Client : [](status[c] # "on" /\ asking[c] = "no") ~> [](\A r \in Relay : db[r][c] = Absent)

\* A relay whose permission is withdrawn leaves the relay list of all others for good.
Evicted == \A r \in Relay : r \notin allowed ~> [](\A q \in Relay \ {r} : Available(q) => r \notin Listed(q))

\* "A client refreshes its advert every third of this, so a live client's advert never
\* lapses": a single lost message does not make it lapse at a relay.
NeverLapses ==
    [][\A r \in Relay, c \in Client :
          status[c] = "on" /\ db[r][c] = reg[c] /\ db'[r][c] = Absent /\ pc'[r] = "up"
              => net # {} \/ faults.n > 1 \/ ~Complete]_vars

\* initialize_relay and the registration after it leave relays that know each other, one
\* of them in the mutex at a time.
RelaysAgree == TypeOK /\ RelaysKnowEachOther

\* No relay lists for good a client that has gone, or a relay that is no longer allowed.
NothingStale == GoneInTheEnd /\ Evicted

=============================================================================
