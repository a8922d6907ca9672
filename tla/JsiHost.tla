------------------------------- MODULE JsiHost -------------------------------
(***************************************************************************)
(* The mobile bindings over the account: init at the launch of the app,    *)
(* start and stop of the engine with the processing loop and its sender    *)
(* worker, the Mailbox poller of a foregrounded app, and messages that     *)
(* arrive over a live session. The app's calls run on several threads (the *)
(* bridge dispatches each on a concurrent queue).                          *)
(***************************************************************************)
EXTENDS LocalAccount

CONSTANTS
    Loops,      \* processing loops, each with its worker
    Pollers     \* Mailbox pollers

ASSUME HostAssumption ==
    /\ None \notin Loops \cup Pollers
    /\ Pollers \cap Threads = {}

VARIABLES
    phase,      \* of the app's process: "down", "loaded" (in init), "up"
    started,    \* the flag of start and stop
    engine,     \* the identity the engine runs with
    begun,      \* per host thread: the identity its start has read, the loop it has spawned
    loop,       \* per loop: where it is, and the message in flight
    worker,     \* per loop: the message its worker sends, and the outcome
    joins,      \* the loop stop would join
    plock,      \* the thread that holds the lock of the join handle
    poller,     \* the running poller's control
    poll,       \* per poller: where it is, its flags, what it has read
    box,        \* messages in the account's Mailbox
    live,       \* per message: its way over the live session
    told,       \* per message: how often the app was told
    arrived,    \* per message: how often it reached its recipient
    owed        \* the app came to the front and no poll begun since has drained the Mailbox

loops == <<loop, worker, joins, plock, arrived>>
mail == <<poller, poll, box, live, told, owed>>
vars == <<world, account, past, faults, phase, started, engine, begun, loops, mail>>

\* What the steps of this module leave alone unless they say otherwise.
KeepStore == UNCHANGED <<world, app, chain, used, shown, granted, signed>>
KeepAccount == KeepStore /\ UNCHANGED sender

NoStart == [key |-> None, handle |-> None, loop |-> None]
NotRunning == [on |-> FALSE, key |-> None, handle |-> None, issuer |-> None]
NoLoop == [pc |-> "off", msg |-> None]
NoWork == [pc |-> "idle", msg |-> None, result |-> "none"]
NoPoll == [pc |-> "off", stop |-> FALSE, wake |-> FALSE, failed |-> FALSE, fresh |-> FALSE,
           read |-> {}]

-----------------------------------------------------------------------------
(* The app's process. *)

\* init: the state file is loaded before anything else runs.
Launch ==
    /\ phase = "down" /\ phase' = "loaded" /\ mem' = Loaded(file, None)
    /\ KeepAccount /\ Fine
    /\ UNCHANGED <<file, lock, call, saving, made, started, engine, begun, loops, mail>>

\* The account of a predecessor application, not yet on this one.
Migratable(k) == k \notin chain.handles[app] /\ \E a \in Apps \ {app} : k \in chain.handles[a]

\* What init makes of the status. The migration moves the registration from
\* the predecessor, and the status is read again.
Decision(s) ==
    IF s.level = "ACTIVE" THEN "start"
    ELSE IF s.level \in {"None", "error", "UPGRADE_REQUIRED"} \/ ~Migratable(mem.key) THEN "defer"
    ELSE "migrate"

\* api.start with the identity; the issuer is set once in a process.
Engine(k, handle) ==
    [on |-> TRUE, key |-> k, handle |-> handle,
     issuer |-> IF engine.issuer = None THEN k ELSE engine.issuer]

\* A failed migration defers the start; init marks the engine as started even
\* when its start fails.
Decide ==
    /\ phase = "loaded"
    /\ \E reads \in {"all", "later", "none"}, works \in BOOLEAN :
          LET s == StatusCall(reads)
              d == Decision(s.answer)
              migrated == d = "migrate" /\ works
          IN /\ IF works THEN Reads(reads)
                ELSE reads = "all" /\ d # "defer" /\ Fault("engine")
             /\ mem' = s.mem
             /\ phase' = IF migrated THEN "loaded" ELSE "up"
             /\ chain' = IF migrated THEN [chain EXCEPT !.handles[app] = @ \cup {mem.key}] ELSE chain
             /\ started' = (d = "start")
             /\ engine' = IF d = "start" /\ works THEN Engine(mem.key, s.answer.handle) ELSE engine
    /\ UNCHANGED <<world, app, file, lock, call, saving, sender, used, shown, granted, signed,
                   made, begun, loops, mail>>

\* The process ends, and with it all that is not in the file. The next one
\* may be of a version with another application.
Crash ==
    /\ Fault("crash") /\ phase = "up"
    /\ phase' = "down" /\ app' \in {app, world.next}
    /\ mem' = Loaded(Blank, None) /\ lock' = None
    /\ call' = [t \in Hosts |-> Idle(t)] /\ saving' = [t \in Threads |-> Blank]
    /\ sender' = NoSender
    /\ started' = FALSE /\ engine' = NotRunning
    /\ begun' = [t \in Hosts |-> NoStart]
    /\ loop' = [i \in Loops |-> NoLoop] /\ worker' = [i \in Loops |-> NoWork]
    /\ joins' = None /\ plock' = None
    /\ poller' = None /\ poll' = [p \in Pollers |-> NoPoll] /\ owed' = FALSE
    /\ live' = [m \in Msgs |-> IF live[m] = "none" THEN "none" ELSE "over"]
    /\ shown' = NotAsked
    /\ UNCHANGED <<world, file, chain, used, granted, signed, made, arrived, box, told>>

-----------------------------------------------------------------------------
(* start and stop. *)

\* The app's next call that does not take the account's lock.
Asks(t, op) ==
    /\ phase = "up" /\ t \in world.hosts /\ call[t].pc = "idle"
    /\ op \in world.calls /\ made < world.count /\ made' = made + 1

Free(i) == loop[i] = NoLoop /\ worker[i] = NoWork

\* A start while a stop is under way.
StopUnderWay == \E t \in Hosts : call[t].op = "stop"

\* Bounds the starts by the loops of the model.
LoopsInUse ==
    Cardinality({i \in Loops : ~Free(i)}) + Cardinality({t \in Hosts : call[t].op = "start"})

\* start: an engine already started is left alone; otherwise the status
\* decides, under the account's lock.
Start(t) ==
    /\ Asks(t, "start") /\ LoopsInUse < Cardinality(Loops)
    /\ \/ /\ started /\ Continue(t, "spawn", "start", None)
          /\ UNCHANGED <<mem, begun>> /\ Fine
       \/ /\ ~started /\ lock = None
          /\ \E reads \in {"all", "later", "none"} :
                LET s == StatusCall(reads)
                IN /\ IF reads = "all" THEN Odd(StopUnderWay, "overtaken") ELSE Fault("unread")
                   /\ mem' = s.mem
                   /\ IF s.answer.level \in {"FUNDED", "ACTIVE"}
                      THEN /\ Continue(t, "engine", "start", None)
                           /\ begun' = [begun EXCEPT ![t] = [key |-> mem.key, handle |-> s.answer.handle, loop |-> None]]
                      ELSE UNCHANGED <<call, begun>>
    /\ KeepAccount
    /\ UNCHANGED <<file, lock, saving, phase, started, engine, loops, mail>>

StartEngine(t) ==
    /\ call[t].pc = "engine"
    /\ \/ /\ engine' = Engine(begun[t].key, begun[t].handle) /\ Continue(t, "mark", "start", None)
          /\ Odd(StopUnderWay, "overtaken")
          /\ UNCHANGED begun
       \/ /\ Fault("engine") /\ UNCHANGED engine /\ Return(t)
          /\ begun' = [begun EXCEPT ![t] = NoStart]
    /\ KeepAccount
    /\ UNCHANGED <<mem, file, lock, saving, made, phase, started, loops, mail>>

MarkStarted(t) ==
    /\ call[t].pc = "mark" /\ started' = TRUE /\ Continue(t, "spawn", "start", None)
    /\ Odd(StopUnderWay, "overtaken") /\ KeepAccount
    /\ UNCHANGED <<mem, file, lock, saving, made, phase, engine, begun, loops, mail>>

\* The shared sender runs in place of a loop.
Spawn(t) ==
    /\ call[t].pc = "spawn"
    /\ \/ /\ world.shared /\ Return(t) /\ begun' = [begun EXCEPT ![t] = NoStart]
          /\ sender' = [sender EXCEPT !.on = TRUE] /\ UNCHANGED loop
       \/ /\ ~world.shared /\ UNCHANGED sender
          /\ LET i == CHOOSE i \in Loops : Free(i)
             IN /\ loop' = [loop EXCEPT ![i] = [pc |-> "top", msg |-> None]]
                /\ begun' = [begun EXCEPT ![t].loop = i]
          /\ Continue(t, "handle", "start", None)
    /\ Odd(\E i \in Loops : loop[i] # NoLoop, "again") /\ KeepStore
    /\ UNCHANGED <<mem, file, lock, saving, made, phase, started, engine, worker, joins, plock,
                   arrived, mail>>

\* The loop's handle replaces the last one, under the lock stop joins under.
KeepHandle(t) ==
    /\ call[t].pc = "handle" /\ plock = None
    /\ joins' = begun[t].loop /\ begun' = [begun EXCEPT ![t] = NoStart] /\ Return(t)
    /\ KeepAccount /\ Fine
    /\ UNCHANGED <<mem, file, lock, saving, made, phase, started, engine, loop, worker, plock,
                   arrived, mail>>

StartStep(t) == StartEngine(t) \/ MarkStarted(t) \/ Spawn(t) \/ KeepHandle(t)

\* stop: only the first of two does anything.
Stop(t) ==
    /\ Asks(t, "stop")
    /\ \/ started /\ started' = FALSE /\ Continue(t, "halt", "stop", None)
       \/ ~started /\ UNCHANGED <<started, call>>
    /\ Odd(\E u \in Hosts : call[u].op = "start", "overtaken")
    /\ KeepAccount
    /\ UNCHANGED <<mem, file, lock, saving, phase, engine, begun, loops, mail>>

\* The shared sender's scheduler has ended; the engine stops.
Halt(t) ==
    /\ call[t].pc = "halt" /\ ~SenderBusy
    /\ engine' = [engine EXCEPT !.on = FALSE]
    /\ Continue(t, "take", "stop", None)
    /\ sender' = NoSender /\ KeepStore /\ Fine
    /\ UNCHANGED <<mem, file, lock, saving, made, phase, started, begun, loops, mail>>

TakeHandle(t) ==
    /\ call[t].pc = "take" /\ plock = None
    /\ plock' = t /\ Continue(t, "join", "stop", None)
    /\ KeepAccount /\ Fine
    /\ UNCHANGED <<mem, file, lock, saving, made, phase, started, engine, begun, loop, worker,
                   joins, arrived, mail>>

Join(t) ==
    /\ call[t].pc = "join" /\ (joins # None => loop[joins] = NoLoop)
    /\ joins' = None /\ plock' = None /\ Return(t)
    /\ KeepAccount /\ Fine
    /\ UNCHANGED <<mem, file, lock, saving, made, phase, started, engine, begun, loop, worker,
                   arrived, mail>>

StopStep(t) == Halt(t) \/ TakeHandle(t) \/ Join(t)

-----------------------------------------------------------------------------
(* The processing loop and its worker. *)

LoopAt(i, pc, m) ==
    /\ loop' = [loop EXCEPT ![i] = [pc |-> pc, msg |-> m]]
    /\ KeepAccount
    /\ UNCHANGED <<lock, call, saving, made, phase, started, engine, begun, joins, plock, mail>>

\* The flag is read at the top of each round. The worker is not joined.
LoopEnds(i) ==
    /\ loop[i].pc = "top" /\ ~started /\ LoopAt(i, "off", None)
    /\ worker' = [worker EXCEPT ![i] = IF @.pc = "send" THEN @ ELSE NoWork]
    /\ UNCHANGED <<mem, file, arrived>> /\ Odd(loop[i].msg # None, "dropped")

\* update_message_status: delivered and refused messages are done, others
\* stay pending.
Reaped(m, result) == IF result = "retry" THEN mem.outs ELSE mem.outs \ {m}

\* try_recv on the worker's channel.
Collects(i) == worker[i].pc = "done"

\* Without an outcome the loop goes on to hand a message over, if there is
\* one and it can be sent.
LoopReaps(i) ==
    /\ loop[i].pc = "top" /\ started
    /\ \/ /\ worker[i].pc # "done" /\ loop[i].msg = None /\ LoopAt(i, "hand", None)
          /\ UNCHANGED <<mem, worker>>
       \/ /\ Collects(i) /\ lock = None
          /\ mem' = [mem EXCEPT !.outs = Reaped(worker[i].msg, worker[i].result)]
          /\ worker' = [worker EXCEPT ![i] = NoWork] /\ LoopAt(i, "save", None)
    /\ UNCHANGED <<file, arrived>> /\ Fine

LoopSaves(i) ==
    /\ loop[i].pc = "save" /\ lock = None /\ LoopAt(i, "hand", None)
    /\ \/ file' = Saved(mem) /\ Fine
       \/ Fault("disk") /\ UNCHANGED file
    /\ UNCHANGED <<mem, worker, arrived>>

\* One message is handed to the worker, when the transport can deliver.
LoopHands(i) ==
    /\ loop[i].pc = "hand"
    /\ \/ /\ ~engine.on \/ mem.outs = {}
          /\ LoopAt(i, "top", None) /\ UNCHANGED worker
       \/ /\ engine.on /\ lock = None
          /\ \E m \in mem.outs :
                /\ LoopAt(i, "top", m)
                /\ worker' = [worker EXCEPT ![i] = [pc |-> "send", msg |-> m, result |-> "none"]]
    /\ UNCHANGED <<mem, file, arrived>> /\ Fine

\* send_message_to_handle, which takes long. The outcome is dropped when the
\* loop has gone.
WorkerSends(i) ==
    LET Ends(result) == worker' = [worker EXCEPT ![i] =
            IF loop[i] = NoLoop THEN NoWork ELSE [@ EXCEPT !.pc = "done", !.result = result]]
        m == worker[i].msg
    IN /\ worker[i].pc = "send"
       /\ \/ /\ engine.on /\ Ends("sent") /\ Fine
             /\ arrived' = [arrived EXCEPT ![m] = @ + 1]
          \/ ~engine.on /\ Ends("retry") /\ UNCHANGED arrived /\ Fine
          \/ engine.on /\ Fault("unsent") /\ Ends("retry") /\ UNCHANGED arrived
          \/ engine.on /\ Fault("refused") /\ Ends("failed") /\ UNCHANGED arrived
       /\ KeepAccount
       /\ UNCHANGED <<mem, file, lock, call, saving, made, phase, started, engine, begun, loop,
                      joins, plock, mail>>

LoopStep(i) == LoopEnds(i) \/ LoopReaps(i) \/ LoopSaves(i) \/ LoopHands(i)

-----------------------------------------------------------------------------
(* The Mailbox poller. *)

KeepHost == UNCHANGED <<call, saving, made, phase, started, engine, begun, loops>>

\* A variant: a running poller is left to its interval.
LeftAsleep(p) == poll[p].wake

\* The wake-up of the running poller.
Woken(p) == poll[p].wake \/ p = poller

\* foregrounding: a running poller is woken, otherwise one is started.
Foreground(t) ==
    /\ Asks(t, "foreground") /\ owed' = TRUE
    /\ \/ /\ poller # None /\ UNCHANGED poller
          /\ poll' = [p \in Pollers |-> [poll[p] EXCEPT !.fresh = FALSE, !.wake = Woken(p)]]
       \/ /\ poller = None
          /\ LET free == {p \in Pollers : poll[p].pc = "off"}
                 p == CHOOSE p \in free : TRUE
             IN /\ free # {} /\ poller' = p
                /\ poll' = [q \in Pollers |->
                      IF q = p THEN [NoPoll EXCEPT !.pc = "top"] ELSE [poll[q] EXCEPT !.fresh = FALSE]]
    /\ KeepAccount /\ Fine
    /\ UNCHANGED <<mem, file, lock, call, saving, phase, started, engine, begun, loops, box, live, told>>

\* stop of the poller's control.
ToldToStop(p) == poll[p].stop \/ p = poller

\* backgrounding: the running poller is told to stop.
Background(t) ==
    /\ Asks(t, "background") /\ owed' = FALSE /\ poller' = None
    /\ poll' = [p \in Pollers |-> [poll[p] EXCEPT !.stop = ToldToStop(p)]]
    /\ KeepAccount /\ Fine
    /\ UNCHANGED <<mem, file, lock, call, saving, phase, started, engine, begun, loops, box, live, told>>

\* The next round, under the account's lock, or the end.
PollBegins(p) ==
    /\ poll[p].pc = "top"
    /\ \/ poll[p].stop /\ poll' = [poll EXCEPT ![p] = NoPoll] /\ UNCHANGED lock
       \/ /\ ~poll[p].stop /\ lock = None /\ lock' = p
          /\ poll' = [poll EXCEPT ![p].pc = "fetch", ![p].fresh = TRUE, ![p].read = {}]
    /\ KeepAccount /\ KeepHost /\ Fine
    /\ UNCHANGED <<mem, file, poller, box, live, told, owed>>

\* A variant: a copy of a stored message is read like any other.
NewWithCopies(m) == ~mem.blocked

\* A message of a blocked sender, or a copy of a stored one, is dropped.
New(m) == ~mem.blocked /\ m \notin mem.msgs

\* pop, and record_mailbox_message. A copy is known by its sender's handle,
\* which the chain may fail to name.
PollPops(p) ==
    /\ poll[p].pc = "fetch"
    /\ \E m \in box :
          /\ box' = box \ {m}
          /\ \/ /\ New(m) /\ Fine
                /\ mem' = [mem EXCEPT !.msgs = @ \cup {m}]
                /\ poll' = [poll EXCEPT ![p].read = @ \cup {m}]
             \/ ~New(m) /\ UNCHANGED <<mem, poll>> /\ Fine
             \/ /\ ~mem.blocked /\ Fault("unresolved") /\ UNCHANGED mem
                /\ poll' = [poll EXCEPT ![p].read = @ \cup {m}]
    /\ KeepAccount /\ KeepHost
    /\ UNCHANGED <<file, lock, poller, live, told, owed>>

\* A variant: the lock is held through the sleep.
HeldThrough(p) == p

\* What was read is saved before the app is told; the lock is held for the
\* poll alone.
AfterPoll(p) == IF poll[p].read = {} THEN "sleep" ELSE "save"
LockAfter(p) == None

\* The Mailbox is empty, the node is no longer reached, or it refuses the
\* account and is left alone for a while.
PollEnds(p) ==
    /\ poll[p].pc = "fetch" /\ lock' = LockAfter(p)
    /\ LET pc == AfterPoll(p)
       IN \/ /\ box = {} /\ Fine
             /\ owed' = (owed /\ ~poll[p].fresh)
             /\ poll' = [poll EXCEPT ![p].pc = pc, ![p].failed = FALSE]
          \/ /\ Fault("unreachable") /\ UNCHANGED owed
             /\ poll' = [poll EXCEPT ![p].pc = pc, ![p].failed = TRUE]
          \/ /\ Fault("skipped") /\ UNCHANGED owed
             /\ poll' = [poll EXCEPT ![p].pc = pc, ![p].failed = FALSE]
    /\ KeepAccount /\ KeepHost
    /\ UNCHANGED <<mem, file, poller, box, live, told>>

PollSaves(p) ==
    /\ poll[p].pc = "save" /\ lock = None
    /\ \/ file' = Saved(mem) /\ Fine
       \/ Fault("disk") /\ UNCHANGED file
    /\ poll' = [poll EXCEPT ![p].pc = "tell"]
    /\ KeepAccount /\ KeepHost
    /\ UNCHANGED <<mem, lock, poller, box, live, told, owed>>

PollTells(p) ==
    /\ poll[p].pc = "tell"
    /\ told' = [m \in Msgs |-> told[m] + (IF m \in poll[p].read THEN 1 ELSE 0)]
    /\ poll' = [poll EXCEPT ![p].pc = "sleep", ![p].read = {}]
    /\ KeepAccount /\ KeepHost /\ Fine
    /\ UNCHANGED <<mem, file, lock, poller, box, live, owed>>

\* The sleep ends when the poller is told to stop, when it is woken, and
\* after the delay of a failed poll. The interval is long.
PollWakes(p) ==
    /\ poll[p].pc = "sleep"
    /\ \/ (poll[p].stop \/ poll[p].failed) /\ poll' = [poll EXCEPT ![p].pc = "top"] /\ Fine
       \/ poll[p].wake /\ poll' = [poll EXCEPT ![p].pc = "top", ![p].wake = FALSE] /\ Fine
       \/ Fault("interval") /\ poll' = [poll EXCEPT ![p].pc = "top"]
    /\ KeepAccount /\ KeepHost
    /\ UNCHANGED <<mem, file, lock, poller, box, live, told, owed>>

PollStep(p) ==
    PollBegins(p) \/ PollPops(p) \/ PollEnds(p) \/ PollSaves(p) \/ PollTells(p) \/ PollWakes(p)

\* A sender puts a message into the Mailbox that it has also sent directly.
Post(m) ==
    /\ Fault("post") /\ m \in world.live /\ box' = box \cup {m}
    /\ KeepAccount /\ KeepHost
    /\ UNCHANGED <<mem, file, lock, poller, poll, live, told, owed>>

-----------------------------------------------------------------------------
(* on_live_message. *)

LiveAt(m, at) ==
    /\ live' = [live EXCEPT ![m] = at] /\ KeepAccount /\ KeepHost
    /\ UNCHANGED <<lock, poller, poll, box, owed>>

\* is_sender_blocked.
LiveChecks(m) ==
    /\ live[m] = "coming" /\ engine.on /\ lock = None
    /\ LiveAt(m, IF mem.blocked THEN "over" ELSE "checked")
    /\ UNCHANGED <<mem, file, told>> /\ Fine

\* store_received_message: a copy is dropped; without a handle of its own the
\* account cannot store it.
LiveStores(m) ==
    /\ live[m] = "checked" /\ lock = None /\ UNCHANGED told
    /\ \/ /\ engine.handle = None /\ LiveAt(m, "tell") /\ UNCHANGED <<mem, file>>
          /\ Odd(TRUE, "unstored")
       \/ /\ engine.handle # None /\ m \in mem.msgs /\ LiveAt(m, "over")
          /\ UNCHANGED <<mem, file>> /\ Fine
       \/ /\ engine.handle # None /\ m \notin mem.msgs /\ LiveAt(m, "tell")
          /\ mem' = [mem EXCEPT !.msgs = @ \cup {m}]
          /\ \/ file' = Saved(mem') /\ Fine
             \/ Fault("disk") /\ UNCHANGED file

LiveTells(m) ==
    /\ live[m] = "tell" /\ LiveAt(m, "over")
    /\ told' = [told EXCEPT ![m] = @ + 1] /\ UNCHANGED <<mem, file>> /\ Fine

LiveStep(m) == LiveChecks(m) \/ LiveStores(m) \/ LiveTells(m)

-----------------------------------------------------------------------------
Init ==
    /\ AccountInit
    /\ phase = "down" /\ started = FALSE /\ engine = NotRunning
    /\ begun = [t \in Hosts |-> NoStart]
    /\ loop = [i \in Loops |-> NoLoop] /\ worker = [i \in Loops |-> NoWork]
    /\ joins = None /\ plock = None
    /\ poller = None /\ poll = [p \in Pollers |-> NoPoll]
    /\ box = world.box /\ live = [m \in Msgs |-> IF m \in world.live THEN "coming" ELSE "none"]
    /\ told = [m \in Msgs |-> 0] /\ arrived = [m \in Msgs |-> 0] /\ owed = FALSE

HostOnly == UNCHANGED <<phase, started, engine, begun, loops, mail>>

\* Steps of the account.
AccountStep ==
    /\ HostOnly
    /\ \/ phase = "up" /\ \E t \in Hosts : HostCall(t)
       \/ Nudge
       \/ Retire

HostContinues(t) == (HostStep(t) /\ HostOnly) \/ StartStep(t) \/ StopStep(t)

Next ==
    \/ Launch \/ Decide \/ Crash \/ AccountStep
    \/ SenderStep /\ HostOnly
    \/ \E t \in Hosts : Start(t) \/ Stop(t) \/ Foreground(t) \/ Background(t) \/ HostContinues(t)
    \/ \E i \in Loops : LoopStep(i) \/ WorkerSends(i)
    \/ \E p \in Pollers : PollStep(p)
    \/ \E m \in Msgs : Post(m) \/ LiveStep(m)

Spec == Init /\ [][Next]_vars

\* Every thread runs on, sends end within the timeouts of the send path, and
\* the delay after a failed poll ends. Nothing is assumed of the app's calls,
\* of the interval between polls or of what comes from outside.
FairSpec ==
    /\ Spec
    /\ WF_vars(Launch) /\ WF_vars(Decide) /\ WF_vars(SenderStep /\ HostOnly)
    /\ \A t \in Hosts : WF_vars(HostContinues(t))
    /\ \A i \in Loops : WF_vars(LoopStep(i)) /\ WF_vars(WorkerSends(i))
    /\ \A p \in Pollers : WF_vars(PollStep(p))
    /\ \A m \in Msgs : WF_vars(LiveStep(m))

-----------------------------------------------------------------------------
(* Properties. *)

\* The state is well formed, and a lock is held by a thread that is in a call.
TypeOK ==
    /\ app \in Apps /\ phase \in {"down", "loaded", "up"}
    /\ mem.key \in Keys \cup {None} /\ mem.pending \in Keys \cup {None}
    /\ Saved(mem).msgs \cup mem.outs \cup file.msgs \cup box \subseteq Msgs
    /\ lock \in Hosts \cup Pollers \cup {None}
    /\ lock \in Hosts => call[lock].pc \in {"forget", "save", "rename"}
    /\ lock \in Pollers => poll[lock].pc = "fetch"
    /\ plock \in Hosts \cup {None} /\ (plock # None => call[plock].pc = "join")
    /\ engine.on \in BOOLEAN /\ poller \in Pollers \cup {None}

\* When no call is changing the key, the chain client signs with the current
\* key and the remembered handle is the current account's: generate_keypair,
\* import_keypair and complete_recovery_keypair drop both. The shared sender
\* works without the account's lock and can bring the old ones back.
CachesFollowKey ==
    Calm({"crossed"}) /\ (\A t \in Hosts : call[t].pc # "forget")
        => mem.ops \in {None, mem.key} /\ mem.memo \in {None, mem.key}

\* keypair_status answers ACTIVE only with the handle the current account has
\* registered on the configured application, also from the memo of an earlier
\* session or of another application, unless a registration was believed that
\* another account had won.
ActiveIsRegistered ==
    shown.level = "ACTIVE" /\ Calm({"outrun", "crossed"})
        => shown.handle = shown.id /\ shown.id \in chain.handles[app]

\* The engine never runs with the key of one account and the handle of
\* another, whatever was imported, recovered or reloaded before start.
EngineOwnHandle ==
    engine.on /\ Calm({"crossed"}) => engine.handle \in {None, engine.key}

\* An application that was retired before the app was launched starts no
\* engine, in init or in start, unless its successor could not be read.
RetiredStaysOff ==
    app \in world.chain.retired /\ Calm({"unread"}) => ~engine.on

\* A key that a recovery group was signed with is in the state file, pending
\* or current, until the user replaces it: begin_recovery_keypair saves it
\* before the app can sign.  It takes that the shared sender, which saves
\* without the account's lock, was not at work while the account changed.
RecoveryKept == Calm({"crossed"}) => \A k \in signed : k \in {file.pending, file.key}

\* The app hears of a message once, though it comes over a live session and
\* from the Mailbox, in any order.
ToldOnce ==
    Calm({"unresolved", "unstored", "disk", "reload"}) => \A m \in Msgs : told[m] <= 1

\* A message the app was told of survives a kill of the process.
ToldIsSaved ==
    Calm({"unresolved", "unstored", "disk", "reload"})
        => \A m \in Msgs : told[m] > 0 => m \in file.msgs

\* A pending message reaches its recipient at most once, unless the process
\* ended, start added a second loop, or stop came while it was being sent.
ArrivesOnce ==
    Calm({"again", "dropped", "crash", "reload"})
        => \A m \in Msgs : arrived[m] <= 1

\* Every call of the app returns, and after the last stop no loop runs on,
\* unless start and stop overlapped.
CallsReturn ==
    <>[](Calm({"overtaken"})
            => /\ \A t \in Hosts : call[t].pc = "idle"
               /\ ~started => \A i \in Loops : loop[i] = NoLoop)

\* While a loop runs and the engine is up, no message stays pending.
MessagesLeave ==
    <>[](started /\ engine.on /\ (\E i \in Loops : loop[i] # NoLoop) => mem.outs = {})

\* Coming to the front is followed by a poll begun after it that empties the
\* Mailbox, without waiting for the interval, unless the node refused the
\* account.
PolledOnForeground == <>[](Calm({"skipped"}) => ~owed)

\* In the end only the poller under control runs.
PollersEnd == <>[](\A p \in Pollers : poll[p].pc # "off" => p = poller)

\* What the app is shown and what the engine runs with is of one account and
\* of an application that is not retired, whatever was imported, recovered or
\* reloaded.
OneAccount ==
    TypeOK /\ CachesFollowKey /\ ActiveIsRegistered /\ EngineOwnHandle /\ RetiredStaysOff

\* A message is told of once and kept, and sent once.
MessagesOnce == ToldOnce /\ ToldIsSaved /\ ArrivesOnce

\* No call of the app hangs, and no loop or poller is left behind.
NothingHangs == CallsReturn /\ PollersEnd

\* Messages do not stay: the pending ones are sent, and those in the Mailbox
\* are fetched when the app comes to the front.
MessagesMove == MessagesLeave /\ PolledOnForeground

=============================================================================
