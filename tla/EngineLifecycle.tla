---------------------------- MODULE EngineLifecycle ----------------------------
(***************************************************************************)
(* The lifecycle of a client's engine (bingle_core/src/engine/mod.rs with  *)
(* the triangle handlers of messages/handlers.rs and                       *)
(* engine/advert_lifecycle.rs): STUN notifications, the triangle test,     *)
(* registration with a home relay, its keep-alive, the advert refresh, the *)
(* app's foreground and background signals, stop and start.                *)
(*                                                                         *)
(* Every notification runs on a thread of its own.  A thread is taken to   *)
(* run uninterrupted from one blocking call (a relay search, a Listen, a   *)
(* DDB request) to the next; threads interleave at these calls.            *)
(***************************************************************************)
EXTENDS Integers

CONSTANTS
    Relay,      \* the relays
    Addr,       \* public addresses, records with fields ip and port
    First,      \* the public address at the start
    None,       \* no relay, no address, no candidate
    Polls,      \* PENDING_IP_CHANGE_POLLS
    Worker,     \* bound: threads at a time
    Faults,     \* which disturbances happen
    MaxFaults   \* bound: how many of them

ASSUME EngineAssumption ==
    /\ None \notin Relay /\ None \notin Addr /\ First \in Addr
    /\ Polls \in Nat \ {0} /\ MaxFaults \in Nat

VARIABLES
    running,       \* "up", "stopping" (signed off, engine not stopped yet) or "down"
    raw,           \* Engine.state
    registered, endpointReady, natRestricted,
    nat,           \* nat_type
    listening,     \* the last on_listening callback
    addr,          \* last_public_addr
    candidate,     \* pending_ip_change
    attempt,       \* register_attempt_at: none, fresh, or stale after REGISTER_WATCHDOG
    home,          \* last_registered_relay
    keepAlive,     \* the relay the running RelayKeepAliveSender sends to
    recent,        \* whether last_reregister_at is within REREGISTER_DEBOUNCE
    advert,        \* advert_registration: "none", "Ip" or "Relay"
    refreshing,    \* whether the advert refresh loop runs
    foreground,
    thread,        \* thread[w]: what worker w is doing
    triangle,      \* triangle messages on their way to the client
    advertised,    \* whether the DDB has an advert of the client
    table,         \* table[r]: the address relay r has for the client's listener
    mapped,        \* the public address the network gives the client now
    up,            \* the relays that answer
    corner,        \* whether a corner node's TriangleTest3 reaches the client
    faults         \* the disturbances so far: how many, and of which kinds

engineVars == <<raw, registered, endpointReady, natRestricted, nat, addr, candidate, attempt, home>>
appVars == <<running, foreground, advert, refreshing, advertised>>
netVars == <<triangle, table, mapped, up, corner>>
vars == <<engineVars, appVars, netVars, listening, keepAlive, recent, thread, faults>>

Idle == [at |-> "idle", addr |-> None, relay |-> None, switch |-> FALSE, last |-> "idle", pass |-> FALSE]

Init ==
    /\ running = "up" /\ raw = "StunIdentify"
    /\ registered = FALSE /\ endpointReady = FALSE /\ natRestricted = FALSE
    /\ nat = "Unknown" /\ listening = FALSE /\ addr = None /\ candidate = None
    /\ attempt = "none" /\ home = None /\ keepAlive = None /\ recent = FALSE
    /\ advert = "none" /\ refreshing = FALSE /\ foreground = TRUE
    /\ thread = [w \in Worker |-> Idle]
    /\ triangle = {} /\ advertised = FALSE /\ table = [r \in Relay |-> None]
    /\ mapped = First /\ up = Relay /\ corner \in BOOLEAN /\ faults = [n |-> 0, kinds |-> {}]

\* Engine::state()
State == IF registered THEN "Registered"
         ELSE IF endpointReady THEN "EndpointAvailable"
         ELSE IF natRestricted THEN "NATRestricted" ELSE raw

Spawn(t) == \E w \in Worker : thread[w].at = "idle" /\ thread' = [thread EXCEPT ![w] = t]
Goes(w, t) == thread' = [thread EXCEPT ![w] = t]
Ends(w) == Goes(w, Idle)

\* A disturbance of one kind, as long as the bound allows it; a stop counts double.
\* The kinds that a property asks for are remembered.
Weight(kind) == IF kind = "stop" THEN 2 ELSE 1
Fault(kind) ==
    /\ kind \in Faults /\ faults.n + Weight(kind) <= MaxFaults
    /\ faults' = [n |-> faults.n + Weight(kind), kinds |-> faults.kinds \cup ({kind} \cap {"stop", "relay"})]

-----------------------------------------------------------------------------
(* STUN notifications *)

OnStunConsistent ==
    /\ running # "down"
    /\ Spawn([Idle EXCEPT !.at = "classify", !.addr = mapped])
    /\ UNCHANGED <<engineVars, appVars, netVars, listening, keepAlive, recent, faults>>

\* The triangle test is begun: what precedes the relay search.
Drives(w) ==
    /\ raw' = "TrianglePing" /\ attempt' = "fresh"
    /\ Goes(w, [Idle EXCEPT !.at = "find"])

\* classify_public_addr_change: a new IP counts once it was seen Polls times.
Seen(a) == IF candidate # None /\ candidate.ip = a.ip THEN candidate.n + 1 ELSE 1
NewIp(a) == addr # None /\ a.ip # addr.ip
Resets(a) == NewIp(a) /\ Seen(a) >= Polls

\* The watchdog's condition: the test is under way and must not be repeated yet.
InProgressForever == raw = "TrianglePing"   \* variant: an abandoned test is never repeated
InProgress == raw = "TrianglePing" /\ ~(State = "TrianglePing" /\ attempt = "stale")

\* stun_consistent_process up to its first blocking call.
Classify(w) ==
    LET a == thread[w].addr
        debounced == NewIp(a) /\ ~Resets(a)
    IN  /\ thread[w].at = "classify"
        /\ candidate' = IF debounced THEN [ip |-> a.ip, n |-> Seen(a)] ELSE None
        /\ addr' = IF debounced THEN addr ELSE a
        /\ IF Resets(a)
           THEN /\ nat' = "Unknown" /\ listening' = FALSE /\ keepAlive' = None
                /\ IF home # None
                   THEN /\ raw' = "TrianglePing" /\ UNCHANGED attempt
                        /\ Goes(w, [Idle EXCEPT !.at = "listen", !.relay = home, !.switch = TRUE, !.last = "find"])
                   ELSE Drives(w)
           ELSE /\ UNCHANGED <<nat, listening, keepAlive>>
                /\ IF InProgress THEN Ends(w) /\ UNCHANGED <<raw, attempt>> ELSE Drives(w)
        /\ UNCHANGED <<registered, endpointReady, natRestricted, home, appVars, netVars, recent, faults>>

\* The relay search of the triangle test: TriangleTest1 goes out, or no relay is
\* found and the engine waits for STUN again.
Find(w) ==
    /\ thread[w].at = "find"
    /\ \/ /\ running # "down" /\ up # {}
          /\ triangle' = triangle \cup {"response"} \cup (IF corner THEN {"test3"} ELSE {})
          /\ UNCHANGED <<raw, nat, listening>>
       \/ /\ running = "down" \/ up = {}
          /\ nat' = "NoConnection" /\ raw' = "StunIdentify" /\ listening' = FALSE
          /\ UNCHANGED triangle
    /\ Ends(w)
    /\ UNCHANGED <<registered, endpointReady, natRestricted, addr, candidate, attempt, home, appVars,
                   table, mapped, up, keepAlive, recent, faults, corner>>

OnStunInconsistent ==
    /\ running # "down" /\ Fault("inconsistent")
    /\ Spawn([Idle EXCEPT !.at = "pick"])
    /\ UNCHANGED <<engineVars, appVars, netVars, listening, keepAlive, recent>>

OnStunBlocked ==
    /\ running # "down" /\ Fault("blocked")
    /\ keepAlive' = None /\ nat' = "NoConnection" /\ raw' = "StunIdentify" /\ listening' = FALSE
    /\ UNCHANGED <<registered, endpointReady, natRestricted, addr, candidate, attempt, home, appVars, netVars,
                   recent, thread>>

OnStunNone ==
    /\ running # "down" /\ Fault("silence")
    /\ keepAlive' = None /\ nat' = "Unknown" /\ raw' = "StunIdentify" /\ listening' = FALSE
    /\ registered' = FALSE /\ endpointReady' = FALSE /\ natRestricted' = FALSE
    /\ UNCHANGED <<addr, candidate, attempt, home, appVars, netVars, recent, thread>>

-----------------------------------------------------------------------------
(* The triangle test's answers *)

\* on_triangle_test1_response, at once or after its delay.
OnTriangleTest1Response ==
    /\ "response" \in triangle /\ running # "down"
    /\ triangle' = triangle \ {"response"}
    /\ Spawn([Idle EXCEPT !.at = "post"])
    /\ UNCHANGED <<engineVars, appVars, table, mapped, up, listening, keepAlive, recent, faults, corner>>

Settled == State \in {"EndpointAvailable", "Registered"} /\ nat # "Unknown"

\* post_triangle_relay_register
PostTriangle(w) ==
    /\ thread[w].at = "post"
    /\ IF Settled
       THEN Ends(w) /\ UNCHANGED <<natRestricted, nat>>
       ELSE /\ natRestricted' = (natRestricted \/ ~endpointReady)
            /\ nat' = "Restricted"
            /\ Goes(w, [Idle EXCEPT !.at = "pick"])
    /\ UNCHANGED <<raw, registered, endpointReady, addr, candidate, attempt, home, appVars, netVars,
                   listening, keepAlive, recent, faults>>

OnTriangleTest3 ==
    /\ "test3" \in triangle /\ running # "down"
    /\ triangle' = triangle \ {"test3"}
    /\ endpointReady' = TRUE /\ nat' = "FullCone"
    /\ Spawn([Idle EXCEPT !.at = "registerIp"])
    /\ UNCHANGED <<raw, registered, natRestricted, addr, candidate, attempt, home, appVars, table, mapped, up,
                   listening, keepAlive, recent, faults, corner>>

RegisterIp(w) ==
    /\ thread[w].at = "registerIp"
    /\ \/ /\ addr # None /\ up # {} /\ running # "down"
          /\ advertised' = TRUE /\ advert' = "Ip" /\ refreshing' = TRUE
          /\ Goes(w, [Idle EXCEPT !.at = "settleIp"])
       \/ /\ addr = None \/ up = {} \/ running = "down"
          /\ Ends(w) /\ UNCHANGED <<advertised, advert, refreshing>>
    /\ UNCHANGED <<engineVars, running, foreground, netVars, listening, keepAlive, recent, faults>>

SettleIp(w) ==
    /\ thread[w].at = "settleIp"
    /\ registered' = TRUE /\ listening' = TRUE
    /\ Ends(w)
    /\ UNCHANGED <<raw, endpointReady, natRestricted, nat, addr, candidate, attempt, home, appVars, netVars,
                   keepAlive, recent, faults>>

-----------------------------------------------------------------------------
(* register_with_relay *)

\* The relay's side of a Listen or a KeepAlive: handle_listen stores the source
\* address.
Learns(r) == table' = [table EXCEPT ![r] = mapped]

\* Variant: no other relay is tried.
FailsForGood(w) ==
    LET t == thread[w]
    IN  IF t.last = "find" THEN Drives(w)
        ELSE Goes(w, [Idle EXCEPT !.at = t.last]) /\ UNCHANGED <<raw, attempt>>

\* What follows a registration that failed: another relay after the remembered
\* one (switch_home_relay), then whatever the caller goes on with.
Fails(w) ==
    LET t == thread[w]
    IN  IF t.switch THEN Goes(w, [t EXCEPT !.at = "pick", !.relay = None, !.switch = FALSE]) /\ UNCHANGED <<raw, attempt>>
        ELSE IF t.last = "find" THEN Drives(w)
        ELSE Goes(w, [Idle EXCEPT !.at = t.last]) /\ UNCHANGED <<raw, attempt>>

Succeeds(w) == Goes(w, [Idle EXCEPT !.at = IF thread[w].last = "ensure" THEN "ensure" ELSE "idle"])

\* find_relay
Pick(w) ==
    /\ thread[w].at = "pick"
    /\ \/ /\ running # "down"
          /\ \E r \in up : Goes(w, [thread[w] EXCEPT !.at = "listen", !.relay = r])
          /\ UNCHANGED <<raw, attempt>>
       \/ (running = "down" \/ up = {}) /\ Fails(w)
    /\ UNCHANGED <<registered, endpointReady, natRestricted, nat, addr, candidate, home, appVars, netVars,
                   listening, keepAlive, recent, faults>>

\* send_relay_listen: the relay answers, or none of the attempts gets through.
\* A refresh pass that renewed its listen repeats its advert and is done.
Listen(w) ==
    LET t == thread[w]
    IN  /\ t.at = "listen"
        /\ \/ /\ t.relay \in up /\ running # "down"
              /\ Learns(t.relay)
              /\ IF t.pass /\ t.switch
                 THEN Ends(w) /\ advertised' = TRUE
                 ELSE Goes(w, [t EXCEPT !.at = "advert"]) /\ UNCHANGED advertised
              /\ UNCHANGED <<raw, attempt>>
           \/ /\ t.relay \notin up \/ running = "down"
              /\ Fails(w) /\ UNCHANGED <<table, advertised, corner>>
        /\ UNCHANGED <<registered, endpointReady, natRestricted, nat, addr, candidate, home, running, foreground,
                       advert, refreshing, triangle, mapped, up, listening, keepAlive, recent, faults, corner>>

\* ddb_register_relay
Advertise(w) ==
    /\ thread[w].at = "advert"
    /\ \/ /\ up # {} /\ running # "down"
          /\ advertised' = TRUE /\ advert' = "Relay" /\ refreshing' = TRUE
          /\ Goes(w, [thread[w] EXCEPT !.at = "settle"])
          /\ UNCHANGED <<raw, attempt>>
       \/ /\ up = {} \/ running = "down"
          /\ Fails(w) /\ UNCHANGED <<advertised, advert, refreshing>>
    /\ UNCHANGED <<registered, endpointReady, natRestricted, nat, addr, candidate, home, running, foreground,
                   netVars, listening, keepAlive, recent, faults>>

Settle(w) ==
    /\ thread[w].at = "settle"
    /\ registered' = TRUE /\ listening' = TRUE
    /\ home' = thread[w].relay
    /\ Goes(w, [thread[w] EXCEPT !.at = "keep"])
    /\ UNCHANGED <<raw, endpointReady, natRestricted, nat, addr, candidate, attempt, appVars, netVars, keepAlive,
                   recent, faults>>

\* start_relay_keep_alive waits for the sender it replaces.
StartKeepAlive(w) ==
    /\ thread[w].at = "keep"
    /\ keepAlive' = thread[w].relay
    /\ Succeeds(w)
    /\ UNCHANGED <<engineVars, appVars, netVars, listening, recent, faults>>

-----------------------------------------------------------------------------
(* Triggers of a refresh *)

Rereg == [Idle EXCEPT !.at = "listen", !.relay = home, !.switch = TRUE]

\* refresh_relay_registration goes ahead.
Refreshes == State = "Registered" /\ home # None /\ ~recent

\* on_outbound_session_established for the home relay
OnSessionRebuilt ==
    /\ running = "up" /\ home # None /\ Fault("rebuild")
    /\ IF Refreshes THEN Spawn(Rereg) /\ recent' = TRUE ELSE UNCHANGED <<thread, recent>>
    /\ UNCHANGED <<engineVars, appVars, netVars, listening, keepAlive>>

OnForeground ==
    /\ running = "up" /\ ~foreground
    /\ foreground' = TRUE
    /\ IF Refreshes THEN Spawn([Rereg EXCEPT !.last = "ensure"]) /\ recent' = TRUE
       ELSE Spawn([Idle EXCEPT !.at = "ensure"]) /\ UNCHANGED recent
    /\ UNCHANGED <<engineVars, running, advert, refreshing, advertised, netVars, listening, keepAlive, faults>>

\* ensure_relay_keep_alive_running.  Variant: the pause is never undone.
EnsureNothing(w) ==
    /\ thread[w].at = "ensure" /\ Ends(w)
    /\ UNCHANGED <<engineVars, appVars, netVars, listening, keepAlive, recent, faults>>

EnsureKeepAlive(w) ==
    /\ thread[w].at = "ensure"
    /\ keepAlive' = IF keepAlive = None THEN home ELSE keepAlive
    /\ Ends(w)
    /\ UNCHANGED <<engineVars, appVars, netVars, listening, recent, faults>>

OnBackground ==
    /\ running = "up" /\ foreground /\ Fault("background")
    /\ foreground' = FALSE /\ keepAlive' = None
    /\ UNCHANGED <<engineVars, running, advert, refreshing, advertised, netVars, listening, recent, thread>>

\* A pass of the advert refresh; renew_home_relay_listen comes first.
Passing == \E w \in Worker : thread[w].pass
AdvertRefresh ==
    /\ refreshing /\ ~Passing
    /\ IF advert = "Relay" /\ State = "Registered" /\ home # None
       THEN Spawn([Rereg EXCEPT !.pass = TRUE]) /\ UNCHANGED advertised
       ELSE up # {} /\ advertised' = TRUE /\ UNCHANGED thread
    /\ UNCHANGED <<engineVars, running, foreground, advert, refreshing, netVars, listening, keepAlive, recent, faults>>

\* RelayKeepAliveSender, and on_relay_keep_alive at the relay.
KeepAliveSend ==
    /\ running # "down" /\ keepAlive \in up
    /\ Learns(keepAlive)
    /\ UNCHANGED <<engineVars, appVars, triangle, mapped, up, listening, keepAlive, recent, thread, faults, corner>>

-----------------------------------------------------------------------------
(* Stop and start *)

\* Variant: the sign-off leaves the refresh loop running.
SignOffRefreshing ==
    /\ running = "up" /\ ~Passing /\ Fault("stop")
    /\ running' = "stopping" /\ listening' = FALSE /\ advert' = "none"
    /\ advertised' = (advertised /\ (advert = "none" \/ up = {}))
    /\ UNCHANGED <<engineVars, foreground, refreshing, netVars, keepAlive, recent, thread>>

\* BingleApiImpl::stop up to the sign-off, which waits for a pass in progress.
SignOff ==
    /\ running = "up" /\ ~Passing /\ Fault("stop")
    /\ running' = "stopping" /\ listening' = FALSE /\ advert' = "none" /\ refreshing' = FALSE
    /\ advertised' = (advertised /\ (advert = "none" \/ up = {}))
    /\ UNCHANGED <<engineVars, foreground, netVars, keepAlive, recent, thread>>

\* Engine::stop.
StopEngine ==
    /\ running = "stopping" /\ ~Passing /\ running' = "down" /\ refreshing' = FALSE
    /\ keepAlive' = None /\ raw' = "StunIdentify" /\ nat' = "Unknown" /\ addr' = None /\ home' = None
    /\ registered' = FALSE /\ endpointReady' = FALSE /\ natRestricted' = FALSE
    /\ UNCHANGED <<candidate, attempt, foreground, advert, advertised, netVars, listening, recent, thread, faults>>

Start ==
    /\ running = "down" /\ running' = "up" /\ raw' = "StunIdentify" /\ triangle' = {}
    /\ UNCHANGED <<registered, endpointReady, natRestricted, nat, addr, candidate, attempt, home, foreground,
                   advert, refreshing, advertised, table, mapped, up, listening, keepAlive, recent, thread, faults, corner>>

-----------------------------------------------------------------------------
(* Time and the network *)

WatchdogExpires ==
    /\ attempt = "fresh" /\ attempt' = "stale"
    /\ UNCHANGED <<raw, registered, endpointReady, natRestricted, nat, addr, candidate, home, appVars, netVars,
                   listening, keepAlive, recent, thread, faults>>

DebounceExpires ==
    /\ recent /\ recent' = FALSE
    /\ UNCHANGED <<engineVars, appVars, netVars, listening, keepAlive, thread, faults>>

LoseTriangle ==
    /\ triangle # {} /\ Fault("loss")
    /\ \E m \in triangle : triangle' = triangle \ {m}
    /\ UNCHANGED <<engineVars, appVars, table, mapped, up, listening, keepAlive, recent, thread, corner>>

NetworkChange ==
    /\ Fault("network") /\ mapped' \in Addr \ {mapped}
    /\ UNCHANGED <<engineVars, appVars, triangle, table, up, listening, keepAlive, recent, thread, corner>>

\* A relay goes down and loses its listeners; it comes back with an empty table.
RelayFails ==
    /\ Fault("relay")
    /\ \E r \in up : up' = up \ {r} /\ table' = [table EXCEPT ![r] = None]
    /\ UNCHANGED <<engineVars, appVars, triangle, mapped, listening, keepAlive, recent, thread, corner>>

RelayReturns ==
    /\ \E r \in Relay \ up : up' = up \cup {r}
    /\ UNCHANGED <<engineVars, appVars, triangle, table, mapped, listening, keepAlive, recent, thread, faults, corner>>

-----------------------------------------------------------------------------
ThreadStep(w) ==
    \/ Classify(w) \/ Find(w) \/ PostTriangle(w) \/ RegisterIp(w) \/ SettleIp(w)
    \/ Pick(w) \/ Listen(w) \/ Advertise(w) \/ Settle(w) \/ StartKeepAlive(w)
    \/ EnsureKeepAlive(w)

Next ==
    \/ \E w \in Worker : ThreadStep(w)
    \/ OnStunConsistent \/ OnStunInconsistent \/ OnStunBlocked \/ OnStunNone
    \/ OnTriangleTest1Response \/ OnTriangleTest3
    \/ OnSessionRebuilt \/ OnForeground \/ OnBackground \/ AdvertRefresh \/ KeepAliveSend
    \/ SignOff \/ StopEngine \/ Start
    \/ WatchdogExpires \/ DebounceExpires \/ LoseTriangle \/ NetworkChange \/ RelayFails \/ RelayReturns

Spec == Init /\ [][Next]_vars

\* Threads run; STUN polls, the watchdog's clock, the keep-alive and the advert
\* refresh go on; messages arrive unless lost; the app comes back.
Fairness ==
    /\ \A w \in Worker : WF_vars(ThreadStep(w))
    /\ SF_vars(OnStunConsistent) /\ SF_vars(OnTriangleTest1Response) /\ SF_vars(OnTriangleTest3)
    /\ WF_vars(WatchdogExpires) /\ WF_vars(DebounceExpires)
    /\ WF_vars(KeepAliveSend) /\ SF_vars(AdvertRefresh) /\ SF_vars(OnForeground)
    /\ WF_vars(StopEngine) /\ WF_vars(Start)

FairSpec == Spec /\ Fairness

-----------------------------------------------------------------------------
(* Properties *)

Place == {"idle", "classify", "find", "post", "registerIp", "settleIp", "pick", "listen", "advert", "settle", "keep",
          "ensure"}

\* The engine's fields keep their types, and a thread that registers has a relay.
TypeOK ==
    /\ running \in {"up", "stopping", "down"} /\ raw \in {"StunIdentify", "TrianglePing"}
    /\ registered \in BOOLEAN /\ endpointReady \in BOOLEAN /\ natRestricted \in BOOLEAN
    /\ nat \in {"Unknown", "NoConnection", "Restricted", "FullCone"} /\ listening \in BOOLEAN
    /\ addr \in Addr \cup {None} /\ mapped \in Addr
    /\ candidate = None \/ candidate.n \in 1 .. Polls - 1
    /\ attempt \in {"none", "fresh", "stale"} /\ home \in Relay \cup {None} /\ keepAlive \in Relay \cup {None}
    /\ advert \in {"none", "Ip", "Relay"} /\ refreshing \in BOOLEAN /\ foreground \in BOOLEAN /\ recent \in BOOLEAN
    /\ triangle \subseteq {"response", "test3"} /\ advertised \in BOOLEAN
    /\ table \in [Relay -> Addr \cup {None}] /\ up \subseteq Relay /\ faults.n \in 0 .. MaxFaults
    /\ \A w \in Worker : /\ thread[w].at \in Place
                         /\ thread[w].at \in {"listen", "advert", "settle", "keep"} => thread[w].relay \in Relay
                         /\ thread[w].at = "classify" => thread[w].addr \in Addr

Quiet == \A w \in Worker : thread[w].at = "idle"

\* A client that tells the app it is listening through a relay keeps the NAT
\* mapping towards its home relay alive, except while in the background, if
\* registrations run one at a time (one worker).  With two workers a direct
\* registration that settles after a Blocked verdict stopped the keep-alive
\* breaks it; so may a registration that is under way during stop().
ListeningIsKeptAlive ==
    Quiet /\ listening /\ advert = "Relay" /\ foreground /\ "stop" \notin faults.kinds
        => home # None /\ keepAlive = home

\* Whatever address changes, silences, losses and time in the background there
\* were, a started client listens again, if the relays stay and no Blocked
\* verdict comes while it counts as registered; also after a stop and a start
\* where no corner node answers.  (The flag that a thread of the earlier life
\* sets on such an answer keeps the watchdog from repeating the test.)
Undisturbed ==
    /\ "relay" \notin faults.kinds /\ ~(registered /\ nat = "NoConnection")
    /\ "stop" \in faults.kinds => ~corner
Recovers == (running = "up" /\ ~listening) ~> (listening \/ running # "up" \/ ~Undisturbed)

\* A home relay that has gone does not leave the client there while another is
\* up (issue #381).
LeavesDeadRelay ==
    (listening /\ refreshing /\ advert = "Relay" /\ home \in Relay \ up)
        ~> (~listening \/ home \in up \/ advert # "Relay" \/ up = {})

\* The home relay comes to know the address the client has now, also after a
\* port remap that resets nothing or a restart of the relay.
RelayKnowsAddress ==
    (listening /\ home \in up /\ nat # "FullCone" /\ table[home] # mapped)
        ~> (~listening \/ home \notin up \/ nat = "FullCone" \/ table[home] = mapped)

\* "Taking the registration also stops the advert refresh (#280), so a refresh
\* can't re-add the advert after the sign-off": while the client stops, only a
\* registration that was already under way publishes an advert again.
SignedOffStays ==
    [][running = "stopping" /\ ~advertised /\ advertised'
           => \E w \in Worker : thread[w].at \in {"registerIp", "advert"}]_vars

\* What the app is told of the client is backed by a keep-alive to its relay,
\* through every address change, timeout and registration.
ClientSound == TypeOK /\ ListeningIsKeptAlive

\* A client behind a relay stays reachable there: it leaves a dead relay, and a
\* live one learns where it is.
StaysReachable == LeavesDeadRelay /\ RelayKnowsAddress

=============================================================================
