----------------------------- MODULE LocalAccount -----------------------------
(***************************************************************************)
(* The account of a client (bingle_local and the account calls of the      *)
(* mobile bindings): the keypair and a recovery's pending one, the memo of *)
(* the registered handle, the cached chain client bound to the keypair,    *)
(* the last status, and the state file they are saved to.                  *)
(*                                                                         *)
(* Calls of the host run on any number of threads under one lock. The      *)
(* shared sender (PendingSender) works on a clone of the store and takes   *)
(* only the lock of the field it reads or writes: it signs a nudge, which  *)
(* needs the handle and the chain client, and saves.                       *)
(***************************************************************************)
EXTENDS Naturals, FiniteSets

CONSTANTS
    Keys,       \* keypairs
    Apps,       \* ids of the Bingle application
    Msgs,       \* messages, received or to send
    Threads,    \* of the host's calls and of its workers
    Hosts,      \* those of the host's calls
    None,
    Worlds      \* who is registered, what the host calls and what disturbs it (max times)

ASSUME AccountAssumption ==
    /\ None \notin Keys \cup Apps \cup Msgs \cup Threads
    /\ Hosts \subseteq Threads
    /\ \A w \in Worlds : w.max \in Nat /\ w.count \in Nat /\ w.shared \in BOOLEAN

VARIABLES
    world,
    app,        \* the application this process is configured with
    mem,        \* the store: LocalState of bingle_local
    file,       \* the state file
    lock,       \* the thread that holds the host's lock
    call,       \* per host thread: the call it is in
    saving,     \* per thread: a snapshot not yet renamed over the file
    sender,     \* the shared sender's nudge: where it is, the key it has read
    chain,      \* accounts with a handle, per application, and the retired ones
    used,       \* keys that exist
    shown,      \* the last status answered to the host
    granted,    \* recovery keys the host was given
    signed,     \* recovery keys a group was signed with, until the user replaces the key
    made,       \* calls of the host so far
    past,       \* kinds of disturbances, and rare orders, that have happened
    faults

account == <<app, mem, file, lock, call, saving, sender, chain, used, shown, granted,
             signed, made>>

-----------------------------------------------------------------------------
(* The store. *)

Blank == [key |-> None, pending |-> None, memo |-> None, memoApp |-> None,
          msgs |-> {}, outs |-> {}, blocked |-> FALSE]

\* LocalState: what is saved, and the caches that are not.
Fields == DOMAIN Blank

Loaded(f, live) ==
    [x \in Fields \cup {"live", "last", "ops"} |->
        IF x \in Fields THEN f[x] ELSE IF x = "live" THEN live ELSE None]

Saved(m) == [x \in Fields |-> m[x]]

\* A variant: a changed keypair keeps the memo.
ForgetKeepingMemo(m) == [m EXCEPT !.live = None, !.last = None, !.ops = None]

Forget(m) ==
    [m EXCEPT !.memo = None, !.memoApp = None, !.live = None, !.last = None, !.ops = None]

\* get_algo_ops without another thread in between.
Bound(m) == IF m.ops = None THEN [m EXCEPT !.ops = m.key] ELSE m

-----------------------------------------------------------------------------
(* Disturbances. *)

Fault(kind) ==
    /\ kind \in world.faults /\ faults < world.max
    /\ faults' = faults + 1 /\ past' = past \cup {kind}

Fine == UNCHANGED <<faults, past>>

Odd(cond, kind) ==
    /\ past' = IF cond THEN past \cup {kind} ELSE past
    /\ UNCHANGED faults

Calm(kinds) == kinds \cap past = {}

-----------------------------------------------------------------------------
(* The status of the account. *)

Answer(level, handle) ==
    [level |-> level, id |-> mem.key, handle |-> handle, stale |-> FALSE]

\* resolve_account_status and keypair_status_from_facts. A handle is named by
\* the account that has registered it.
Resolved(k) ==
    IF k \in chain.handles[app] THEN Answer("ACTIVE", k)
    ELSE Answer(IF k \in world.funded THEN "FUNDED" ELSE "UNFUNDED", None)

\* cache_status.
Cached(m, a) ==
    [m EXCEPT !.last = a,
              !.memo = IF a.handle = None THEN @ ELSE a.handle,
              !.memoApp = IF a.handle = None THEN @ ELSE app]

Memoized == mem.memo # None /\ mem.memoApp = app

\* fallback_status, status_or_last_known.
LastKnown == IF mem.last = None THEN Answer("error", None) ELSE [mem.last EXCEPT !.stale = TRUE]

\* A memoized account: only the successor is read, once in a session.
MemoizedStatus(reads) ==
    LET active == Answer("ACTIVE", mem.memo)
    IN IF mem.live = app THEN [answer |-> active, mem |-> mem]
       ELSE IF reads # "all" THEN [answer |-> active, mem |-> Bound(mem)]
       ELSE IF app \in chain.retired
       THEN [answer |-> Answer("UPGRADE_REQUIRED", None), mem |-> Bound(mem)]
       ELSE [answer |-> active, mem |-> [Bound(mem) EXCEPT !.live = app]]

\* keypair_status: what it answers and leaves behind when all, the later or
\* none of its reads of the chain succeed.
StatusCall(reads) ==
    IF mem.key = None THEN [answer |-> Answer("None", None), mem |-> mem]
    ELSE IF Memoized THEN MemoizedStatus(reads)
    ELSE IF reads = "all" /\ app \in chain.retired
    THEN [answer |-> Answer("UPGRADE_REQUIRED", None), mem |-> Bound(mem)]
    ELSE IF reads # "none"
    THEN [answer |-> Resolved(mem.key), mem |-> Cached(Bound(mem), Resolved(mem.key))]
    ELSE [answer |-> LastKnown, mem |-> Bound(mem)]

NotAsked == [level |-> "None", id |-> None, handle |-> None, stale |-> FALSE]

Reads(reads) == IF reads = "all" THEN Fine ELSE Fault("unread")

-----------------------------------------------------------------------------
(* Calls of the host. *)

Idle(t) == [pc |-> "idle", op |-> None, key |-> None]

\* The host's next call, once it has the lock.
Calls(t, op) ==
    /\ t \in world.hosts /\ call[t].pc = "idle"
    /\ op \in world.calls /\ made < world.count /\ made' = made + 1
    /\ lock = None

Continue(t, pc, op, key) == call' = [call EXCEPT ![t] = [pc |-> pc, op |-> op, key |-> key]]

Return(t) == call' = [call EXCEPT ![t] = Idle(t)]

\* The shared sender is between reading the account and using it.
SenderBusy == sender.pc # "idle"

\* generate_keypair, import_keypair: the key is written first.
Generate(t) ==
    /\ Calls(t, "generate")
    /\ \E k \in Keys \ used :
          mem' = [mem EXCEPT !.key = k] /\ used' = used \cup {k}
    /\ lock' = t /\ Continue(t, "forget", "generate", None)
    /\ signed' = signed \ {mem.key} /\ Odd(SenderBusy, "crossed")
    /\ UNCHANGED <<world, app, file, saving, sender, chain, shown, granted>>

Import(t) ==
    /\ Calls(t, "import")
    /\ \E k \in world.imports : mem' = [mem EXCEPT !.key = k]
    /\ lock' = t /\ Continue(t, "forget", "import", None)
    /\ signed' = signed \ {mem.key} /\ Odd(SenderBusy, "crossed")
    /\ UNCHANGED <<world, app, file, saving, sender, chain, used, shown, granted>>

\* The caches of the old key are dropped; a completed recovery is no longer
\* pending, and is saved before the lock is released.
ForgetOld(t) ==
    LET completes == call[t].op = "complete"
    IN /\ call[t].pc = "forget"
       /\ mem' = [Forget(mem) EXCEPT !.pending = IF completes THEN None ELSE @]
       /\ lock' = IF completes THEN t ELSE None
       /\ Continue(t, "save", call[t].op, call[t].key)
       /\ UNCHANGED <<world, app, file, saving, sender, chain, used, shown, granted, signed, made>>
       /\ Fine

\* begin_recovery_keypair: a pending recovery is resumed.
BeginRecovery(t) ==
    /\ Calls(t, "begin") /\ mem.key # None
    /\ \/ mem.pending # None /\ UNCHANGED <<mem, used>>
       \/ /\ mem.pending = None
          /\ \E k \in Keys \ used :
                mem' = [mem EXCEPT !.pending = k] /\ used' = used \cup {k}
    /\ lock' = t /\ Continue(t, "save", "begin", mem'.pending)
    /\ Odd(SenderBusy, "crossed")
    /\ UNCHANGED <<world, app, file, saving, sender, chain, shown, granted, signed>>

\* complete_recovery_keypair: the pending key is imported.
CompleteRecovery(t) ==
    /\ Calls(t, "complete") /\ mem.pending # None
    /\ mem' = [mem EXCEPT !.key = mem.pending]
    /\ lock' = t /\ Continue(t, "forget", "complete", mem.pending)
    /\ Odd(SenderBusy, "crossed")
    /\ UNCHANGED <<world, app, file, saving, sender, chain, used, shown, granted, signed>>

\* sign_recovery_group: the host submits what both keys have signed, which
\* registers the new account.
SignRecovery(t) ==
    /\ Calls(t, "sign") /\ mem.key # None /\ mem.pending \in granted
    /\ signed' = signed \cup {mem.pending}
    /\ chain' = [chain EXCEPT !.handles[app] = @ \cup {mem.pending}]
    /\ UNCHANGED <<world, app, mem, file, lock, call, saving, sender, used, shown, granted>>
    /\ Fine

\* register_keypair: the account the chain client is bound to is registered.
\* The registration may fail, or return although another account has won.
RegisterKeypair(t) ==
    LET m == Bound(mem)
        Memo == [m EXCEPT !.memo = m.ops, !.memoApp = app]
    IN /\ Calls(t, "register") /\ mem.key # None
       /\ \/ /\ app \notin chain.retired /\ m.ops \in world.funded /\ mem' = Memo /\ Fine
             /\ chain' = [chain EXCEPT !.handles[app] = @ \cup {m.ops}]
             /\ Continue(t, "save", "register", None)
          \/ /\ app \in chain.retired \/ m.ops \notin world.funded
             /\ mem' = m /\ UNCHANGED <<chain, call>> /\ Fine
          \/ /\ Fault("outrun") /\ mem' = Memo /\ UNCHANGED chain
             /\ Continue(t, "save", "register", None)
       /\ UNCHANGED <<world, app, file, lock, saving, sender, used, shown, granted, signed>>

KeypairStatus(t) ==
    /\ Calls(t, "status")
    /\ \E reads \in {"all", "later", "none"} :
          LET s == StatusCall(reads)
          IN Reads(reads) /\ mem' = s.mem /\ shown' = s.answer
    /\ UNCHANGED <<world, app, file, lock, call, saving, sender, chain, used, granted, signed>>

\* load of the state file itself.
Load(t) ==
    /\ Calls(t, "load")
    /\ mem' = Loaded(file, mem.live)
    /\ past' = past \cup (IF SenderBusy THEN {"crossed"} ELSE {})
                    \cup (IF Saved(mem) # file THEN {"reload"} ELSE {})
    /\ UNCHANGED faults
    /\ UNCHANGED <<world, app, file, lock, call, saving, sender, chain, used, shown, granted, signed>>

\* Blocking the contact messages come from; its save follows.
Block(t) ==
    /\ Calls(t, "block") /\ mem' = [mem EXCEPT !.blocked = ~@]
    /\ Continue(t, "save", "block", None)
    /\ Odd(SenderBusy, "crossed")
    /\ UNCHANGED <<world, app, file, lock, saving, sender, chain, used, shown, granted, signed>>

-----------------------------------------------------------------------------
(* save: a snapshot, then a rename over the state file.  A host's call      *)
(* takes the lock again for it, except for a recovery.                      *)

\* A variant: the snapshot leaves out a pending recovery.
SnapshotWithoutPending == [Saved(mem) EXCEPT !.pending = None]

Snapshot == Saved(mem)

SaveBegins(t) ==
    /\ call[t].pc = "save" /\ lock \in {None, t}
    /\ lock' = t /\ saving' = [saving EXCEPT ![t] = Snapshot]
    /\ Continue(t, "rename", call[t].op, call[t].key)
    /\ UNCHANGED <<world, app, mem, file, sender, chain, used, shown, granted, signed, made>>
    /\ Fine

\* A failed save is an error of the recovery calls and goes unnoticed in the
\* others.
SaveEnds(t) ==
    /\ call[t].pc = "rename"
    /\ \/ /\ file' = saving[t] /\ Fine
          /\ granted' = IF call[t].op = "begin" THEN granted \cup {call[t].key} ELSE granted
       \/ Fault("disk") /\ UNCHANGED <<file, granted>>
    /\ saving' = [saving EXCEPT ![t] = Blank]
    /\ lock' = None /\ Return(t)
    /\ UNCHANGED <<world, app, mem, sender, chain, used, shown, signed, made>>

-----------------------------------------------------------------------------
(* The shared sender. *)

NoSender == [on |-> FALSE, pc |-> "idle", key |-> None, built |-> None]

SenderAt(pc) ==
    /\ sender' = [sender EXCEPT !.pc = pc]
    /\ UNCHANGED <<world, app, file, lock, call, chain, used, shown, granted, signed, made>>

\* update_message_status with a failure: notify_giveup asks for the handle,
\* from the memo or from a status read.
Nudge ==
    /\ sender.on /\ sender.pc = "idle" /\ mem.key # None
    /\ "nudge" \in world.faults /\ faults < world.max /\ faults' = faults + 1
    /\ past' = IF \E t \in Hosts : call[t].pc # "idle" THEN past \cup {"crossed"} ELSE past
    /\ sender' = [on |-> TRUE, pc |-> IF mem.memo # None THEN "client" ELSE "status",
                  key |-> mem.key, built |-> None]
    /\ UNCHANGED <<world, app, mem, file, lock, call, saving, chain, used, shown, granted, signed, made>>

\* get_algo_ops: the cached client, or one built from the key and then stored.
ReadClient ==
    /\ sender.pc \in {"status", "client"}
    /\ \/ /\ mem.ops # None
          /\ SenderAt(IF sender.pc = "status" THEN "resolve" ELSE "snapshot")
       \/ /\ mem.ops = None
          /\ sender' = [sender EXCEPT !.pc = IF @ = "status" THEN "store status" ELSE "store",
                                      !.built = mem.key]
          /\ UNCHANGED <<world, app, file, lock, call, chain, used, shown, granted, signed, made>>
    /\ UNCHANGED <<mem, saving>> /\ Fine

StoreClient ==
    /\ sender.pc \in {"store status", "store"}
    /\ mem' = [mem EXCEPT !.ops = sender.built]
    /\ SenderAt(IF sender.pc = "store status" THEN "resolve" ELSE "snapshot")
    /\ UNCHANGED saving /\ Fine

\* The rest of keypair_status, for the key read at its start.
ResolveHandle ==
    /\ sender.pc = "resolve" /\ UNCHANGED saving
    /\ \/ /\ app \in chain.retired
          /\ UNCHANGED mem /\ SenderAt("snapshot") /\ Fine
       \/ /\ app \notin chain.retired /\ Fine
          /\ mem' = Cached(mem, [Resolved(sender.key) EXCEPT !.id = sender.key])
          /\ SenderAt(IF sender.key \in chain.handles[app] THEN "client" ELSE "snapshot")
       \/ Fault("unread") /\ UNCHANGED mem /\ SenderAt("snapshot")

\* save without the host's lock: the key is read before the rest.
SnapshotKey ==
    /\ sender.pc = "snapshot" /\ SenderAt("snapshot rest")
    /\ saving' = [saving EXCEPT !["sender"] = [Blank EXCEPT !.key = mem.key]]
    /\ UNCHANGED mem /\ Fine

SnapshotRest ==
    /\ sender.pc = "snapshot rest" /\ SenderAt("rename")
    /\ saving' = [saving EXCEPT !["sender"] = [Saved(mem) EXCEPT !.key = saving["sender"].key]]
    /\ UNCHANGED mem /\ Fine

SenderSaved ==
    /\ sender.pc = "rename" /\ file' = saving["sender"]
    /\ saving' = [saving EXCEPT !["sender"] = Blank]
    /\ sender' = [sender EXCEPT !.pc = "idle"]
    /\ UNCHANGED <<world, app, mem, lock, call, chain, used, shown, granted, signed, made>> /\ Fine

SenderStep ==
    \/ ReadClient \/ StoreClient \/ ResolveHandle
    \/ SnapshotKey \/ SnapshotRest \/ SenderSaved

HostCall(t) ==
    \/ Generate(t) \/ Import(t) \/ BeginRecovery(t) \/ CompleteRecovery(t)
    \/ SignRecovery(t) \/ RegisterKeypair(t) \/ KeypairStatus(t) \/ Load(t) \/ Block(t)

HostStep(t) == ForgetOld(t) \/ SaveBegins(t) \/ SaveEnds(t)

\* The administrator retires the application.
Retire ==
    /\ Fault("retire") /\ app \notin chain.retired
    /\ chain' = [chain EXCEPT !.retired = @ \cup {app}]
    /\ UNCHANGED <<world, app, mem, file, lock, call, saving, sender, used, shown, granted,
                   signed, made>>

AccountInit ==
    /\ world \in Worlds
    /\ app = world.app /\ file = world.file /\ mem = Loaded(Blank, None)
    /\ lock = None /\ call = [t \in Hosts |-> Idle(t)]
    /\ saving = [t \in Threads |-> Blank]
    /\ sender = NoSender
    /\ chain = world.chain /\ used = world.used
    /\ shown = NotAsked
    /\ granted = {} /\ signed = {} /\ made = 0
    /\ past = {} /\ faults = 0

=============================================================================
