--------------------------- MODULE OutboundDelivery ---------------------------
(***************************************************************************)
(* Outbound messages of a client (bingle_local): the store with its state  *)
(* file, the scheduler and the worker of PendingSender, the post of what   *)
(* could not be delivered to the recipients' Mailboxes, the flush on exit  *)
(* and on backgrounding, and the store of the recipients.                  *)
(*                                                                         *)
(* Two threads post and save: the worker, and the client's own, which      *)
(* queues messages and flushes. The worker takes none of the client's      *)
(* locks. A save takes a snapshot and then renames it over the state file. *)
(***************************************************************************)
EXTENDS Integers, Sequences, SequencesExt, FiniteSets

CONSTANTS
    Msg,        \* numbers, in the order they are queued
    Recipient,
    Worlds      \* who can be reached and what disturbs the client, with a bound (max)

Thread == {"worker", "client"}
None == 0

ASSUME OutboundAssumption ==
    /\ Msg \subseteq Nat \ {None}
    /\ \A w \in Worlds :
          /\ w.to \in [Msg -> Seq(Recipient)] /\ w.queued \subseteq Msg
          /\ w.away \subseteq Recipient /\ w.unknown \subseteq Recipient
          /\ w.gate \in BOOLEAN /\ w.retries \in BOOLEAN /\ w.max \in Nat

VARIABLES
    world,      \* recipients, settings and disturbances
    store,      \* per message: its progress and whether it has a failure reason
    forwarded,  \* the (message, recipient) pairs known to be posted
    refused,    \* the pairs the Mailbox node refused in this session
    file,       \* the state file: store and forwarded as they were saved
    saving,     \* per thread: a snapshot not yet renamed over the file
    posting,    \* per thread: the message it forwards and the recipients left
    app,        \* "up", "draining" or "flushing" on exit, "down"
    ready,      \* the transport is listening
    backoff,    \* retry_after of the scheduler, before it has passed
    sched,      \* in_flight of the scheduler
    event,      \* the Done event under way to it: what became of the message
    inFlight,   \* the in_flight slot shared with shutdown
    worker,     \* send_one: where it is, its message, the recipient's index, last_failure
    offline,    \* recipients inside their offline window
    flush,      \* messages the client's thread has still to offer to the Mailboxes, and why
    mailbox, inbox,  \* per recipient: its Mailbox, the copies of each message in its store
    reached,    \* the pairs of which a copy was delivered or posted
    accepted,   \* messages whose queue call has returned
    lost,       \* messages a restart found neither pending nor failed, and not handed over
    faults      \* disturbances so far

storeVars == <<store, forwarded, refused, file, saving, posting>>
schedVars == <<backoff, sched, event, inFlight>>
peerVars == <<mailbox, inbox, reached>>
ghostVars == <<accepted, lost>>
vars == <<world, storeVars, app, ready, schedVars, worker, offline, flush, peerVars,
          ghostVars, faults>>

----
(* The store *)

\* progress < 1.0 without and with a failure reason; progress 1.0 with and without one.
Status == {"none", "pending", "retrying", "failed", "done"}
Pending == {m \in Msg : store[m] \in {"pending", "retrying"}}
To(m) == world.to[m]
Pairs(m) == {<<m, r>> : r \in ToSet(To(m))}
HandedOver(m) == Pairs(m) \subseteq reached
NoSnapshot == [store |-> <<>>, forwarded |-> {}]
NoPost == [msg |-> None, todo |-> <<>>]
Idle(t) == posting[t] = NoPost /\ saving[t] = NoSnapshot
NoFlush == [why |-> "no", todo |-> <<>>]
IdleWorker == [pc |-> "idle", msg |-> None, at |-> 1, failure |-> "no"]
\* The messages of S, oldest first.
InOrder(S) == SetToSortSeq(S, <)

Fault(kind) ==
    /\ kind \in world.faults /\ faults.n < world.max
    /\ faults' = [n |-> faults.n + 1, kinds |-> faults.kinds \cup {kind}]

Init ==
    /\ world \in Worlds
    /\ store = [m \in Msg |-> "none"]
    /\ forwarded = {} /\ refused = {}
    /\ file = [store |-> store, forwarded |-> {}]
    /\ saving = [t \in Thread |-> NoSnapshot] /\ posting = [t \in Thread |-> NoPost]
    /\ app = "up" /\ ready = TRUE
    /\ backoff = {} /\ sched = None /\ event = "no" /\ inFlight = None
    /\ worker = IdleWorker /\ offline = {} /\ flush = NoFlush
    /\ mailbox = [r \in Recipient |-> <<>>]
    /\ inbox = [r \in Recipient |-> [m \in Msg |-> 0]]
    /\ reached = {} /\ accepted = {} /\ lost = {}
    /\ faults = [n |-> 0, kinds |-> {}]

\* save, up to the rename: the snapshot of st and the forwarded pairs. The flush on
\* backgrounding saves once, at its end.
Snapshot(t, st) ==
    saving' = [saving EXCEPT ![t] = [store |-> st, forwarded |-> forwarded]]
SaveAfter(t, st) ==
    IF t = "client" /\ flush.why = "background" THEN UNCHANGED saving ELSE Snapshot(t, st)

\* update_message_status by thread t, up to the post that a failure reason brings about. The
\* recipients are the ones neither posted nor refused; if all are posted, it is handed off.
Unposted(m) == SelectSeq(To(m), LAMBDA r : <<m, r>> \notin forwarded)
Offer(t, m, st) ==
    LET left == SelectSeq(Unposted(m), LAMBDA r : <<m, r>> \notin refused) IN
    IF world.gate /\ left # <<>>
    THEN /\ store' = st /\ posting' = [posting EXCEPT ![t] = [msg |-> m, todo |-> left]]
         /\ UNCHANGED saving
    ELSE LET after == IF world.gate /\ Unposted(m) = <<>> THEN [st EXCEPT ![m] = "done"] ELSE st
         IN  store' = after /\ SaveAfter(t, after) /\ UNCHANGED posting
Update(t, m, status) ==
    LET st == [store EXCEPT ![m] = status] IN
    IF status \in {"retrying", "failed"} THEN Offer(t, m, st)
    ELSE store' = st /\ Snapshot(t, st) /\ UNCHANGED posting

\* The rename of a save: a whole snapshot, which a later one may already have replaced.
Write(t) ==
    /\ saving[t] # NoSnapshot
    /\ file' = saving[t] /\ saving' = [saving EXCEPT ![t] = NoSnapshot]
    /\ accepted' = IF t = "client"
                   THEN accepted \cup {m \in Msg : saving[t].store[m] # "none"} ELSE accepted
    /\ UNCHANGED <<world, store, forwarded, refused, posting, app, ready, schedVars, worker,
                   offline, flush, peerVars, lost, faults>>

----
(* forward_message_to_mailbox: one post after the other *)

Posted(m, r) ==
    /\ mailbox' = [mailbox EXCEPT ![r] = Append(@, m)]
    /\ reached' = reached \cup {<<m, r>>}

\* try_post: it is final; it becomes final without an answer in time; the node refuses it; the
\* node, the chain or the handle is not there, or the node refuses this client for a while.
PostOne(t) ==
    LET m == posting[t].msg
        r == Head(posting[t].todo)
    IN  /\ posting[t].todo # <<>>
        /\ posting' = [posting EXCEPT ![t].todo = Tail(@)]
        /\ \/ /\ r \notin world.unknown
              /\ Posted(m, r) /\ forwarded' = forwarded \cup {<<m, r>>}
              /\ UNCHANGED <<refused, faults>>
           \/ /\ Fault("timeout") /\ r \notin world.unknown
              /\ Posted(m, r) /\ UNCHANGED <<forwarded, refused>>
           \/ /\ Fault("refuse") /\ refused' = refused \cup {<<m, r>>}
              /\ UNCHANGED <<mailbox, reached, forwarded>>
           \/ /\ IF r \in world.unknown THEN UNCHANGED faults ELSE Fault("node")
              /\ UNCHANGED <<mailbox, reached, forwarded, refused>>
        /\ UNCHANGED <<world, store, file, saving, app, ready, schedVars, worker, offline,
                       flush, inbox, ghostVars>>

SomeForwarded(m) == Pairs(m) \cap forwarded # {}   \* variant
AllForwarded(m) == Pairs(m) \subseteq forwarded

\* apply_forward_outcome: complete once every recipient is posted.
Apply(t) ==
    LET m == posting[t].msg
        st == IF AllForwarded(m) THEN [store EXCEPT ![m] = "done"] ELSE store
    IN  /\ m # None /\ posting[t].todo = <<>>
        /\ store' = st /\ SaveAfter(t, st)
        /\ posting' = [posting EXCEPT ![t] = NoPost]
        /\ UNCHANGED <<world, forwarded, refused, file, app, ready, schedVars, worker, offline,
                       flush, peerVars, ghostVars, faults>>

----
(* The client: queueing a message *)

\* queue_message and its save, under the client's lock, which a flush holds.
Queue(m) ==
    /\ app = "up" /\ flush = NoFlush /\ Idle("client")
    /\ m \in world.queued \ accepted /\ store[m] = "none"
    /\ \A k \in world.queued : k < m => k \in accepted
    /\ store' = [store EXCEPT ![m] = "pending"] /\ Snapshot("client", store')
    /\ UNCHANGED <<world, forwarded, refused, file, posting, app, ready, schedVars, worker,
                   offline, flush, peerVars, ghostVars, faults>>

----
(* run_scheduler *)

\* select_sendable_message: the oldest that is pending and not backing off.
Eligible(bk) == Pending \ bk
\* The end of a turn of the loop: with nothing in flight and the transport ready, a message
\* is handed to the worker, marked in flight first.
HandOff(bk) ==
    IF ready /\ Eligible(bk) # {}
    THEN LET m == Min(Eligible(bk)) IN
         /\ sched' = m /\ inFlight' = m /\ backoff' = bk \cap Pending
         /\ worker' = [IdleWorker EXCEPT !.pc = "next", !.msg = m]
    ELSE /\ sched' = None /\ backoff' = bk /\ UNCHANGED <<inFlight, worker>>

\* A turn on a tick or a wake.
Schedule ==
    /\ app = "up" /\ sched = None /\ ready /\ Eligible(backoff) # {}
    /\ HandOff(backoff)
    /\ UNCHANGED <<world, storeVars, app, ready, event, offline, flush, peerVars, ghostVars,
                   faults>>

\* A turn on the worker's Done: a message to be retried backs off.
BackOffNever == backoff \ {sched}   \* variant
BackOff == IF event = "retrying" THEN backoff \cup {sched} ELSE backoff \ {sched}
Reap ==
    /\ app = "up" /\ event # "no"
    /\ event' = "no" /\ HandOff(BackOff)
    /\ UNCHANGED <<world, storeVars, app, ready, offline, flush, peerVars, ghostVars, faults>>

\* The deadline of a message in retry_after passes.
Elapse(m) ==
    /\ m \in backoff /\ backoff' = backoff \ {m}
    /\ UNCHANGED <<world, storeVars, app, ready, sched, event, inFlight, worker, offline, flush,
                   peerVars, ghostVars, faults>>

----
(* The worker: send_one *)

recipient == To(worker.msg)[worker.at]
\* The worker's own thread is between two calls of the store.
At(pc) == worker.pc = pc /\ Idle("worker")

\* Next recipient, or the end of the list; one inside its offline window is not tried.
Attempt ==
    /\ At("next")
    /\ IF worker.at > Len(To(worker.msg)) THEN worker' = [worker EXCEPT !.pc = "record"]
       ELSE IF world.gate /\ recipient \in offline
       THEN worker' = [worker EXCEPT !.pc = "record", !.failure = "retry"]
       ELSE worker' = [worker EXCEPT !.pc = "lookup"]
    /\ UNCHANGED <<world, storeVars, app, ready, schedVars, offline, flush, peerVars, ghostVars,
                   faults>>

\* A progress report below 100: the message is pending again, and a failure reason left by an
\* earlier attempt has it offered to the Mailboxes during the new one. The first report follows
\* the handle's lookup; a later one matters when a flush has completed the message meanwhile.
Progress ==
    /\ \/ At("lookup") /\ recipient \notin world.unknown
       \/ At("sending") /\ store[worker.msg] = "done"
    /\ worker' = [worker EXCEPT !.pc = "sending"]
    /\ Update("worker", worker.msg,
              IF store[worker.msg] \in {"retrying", "failed"} THEN "retrying" ELSE "pending")
    /\ UNCHANGED <<world, forwarded, refused, file, app, ready, schedVars, offline, flush, peerVars,
                   ghostVars, faults>>

\* The end of deliver: a report of 100, which completes the message whatever the result is. A
\* delivered one ends the recipient's offline window, an unreachable one opens it; a transient
\* failure ends the attempt, a permanent one is kept and the next recipient is tried.
Result(res) ==
    /\ Update("worker", worker.msg, "done")
    /\ offline' = CASE res = "sent" -> offline \ {recipient}
                    [] res = "unreachable" -> offline \cup {recipient}
                    [] OTHER -> offline
    /\ worker' = IF res \in {"unreachable", "retry"}
                 THEN [worker EXCEPT !.pc = "record", !.failure = "retry"]
                 ELSE [worker EXCEPT !.pc = "next", !.at = @ + 1,
                                     !.failure = IF res = "sent" THEN @ ELSE "permanent"]

\* The handle is not registered, or the chain cannot be asked.
LookupFails ==
    /\ At("lookup")
    /\ IF recipient \in world.unknown THEN Result("permanent") /\ UNCHANGED faults
       ELSE Result("retry") /\ Fault("chain")
    /\ UNCHANGED <<world, forwarded, refused, file, app, ready, schedVars, flush, peerVars,
                   ghostVars>>

\* holds_received_copy: a copy of a message already received, by either route, is dropped.
StoreEvery(r, m) == inbox' = [inbox EXCEPT ![r][m] = @ + 1]   \* variant
StoreCopy(r, m) == inbox' = [inbox EXCEPT ![r][m] = 1]

Received(r, m) == StoreCopy(r, m) /\ reached' = reached \cup {<<m, r>>}
NotReceived == UNCHANGED <<inbox, reached>>

\* send_over_dtls: delivered, not delivered, or delivered without the sender learning of it.
Deliver ==
    /\ At("sending")
    /\ \/ /\ recipient \notin world.away
          /\ Received(recipient, worker.msg) /\ Result("sent") /\ UNCHANGED faults
       \/ /\ IF recipient \in world.away THEN UNCHANGED faults ELSE Fault("unreachable")
          /\ NotReceived /\ Result("unreachable")
       \/ /\ recipient \notin world.away /\ Fault("unanswered")
          /\ Received(recipient, worker.msg) /\ Result("unreachable")
       \/ Fault("reject") /\ NotReceived /\ Result("permanent")
       \/ /\ Fault("panic") /\ NotReceived
          /\ worker' = [worker EXCEPT !.pc = "record", !.failure = "retry"]
          /\ UNCHANGED <<store, saving, posting, offline>>
    /\ UNCHANGED <<world, forwarded, refused, file, app, ready, schedVars, flush, mailbox,
                   ghostVars>>

\* The outcome is recorded, which offers a failed message to the Mailboxes.
Record ==
    /\ At("record") /\ worker' = [worker EXCEPT !.pc = "finish"]
    /\ Update("worker", worker.msg, CASE worker.failure = "no" -> "done"
                                      [] worker.failure = "retry" /\ world.retries -> "retrying"
                                      [] OTHER -> "failed")
    /\ UNCHANGED <<world, forwarded, refused, file, app, ready, schedVars, offline, flush, peerVars,
                   ghostVars, faults>>

\* The in_flight slot after a send.
Cleared == None
\* The message is no longer in flight; the scheduler, if it still runs, hears what became of it.
Finish ==
    /\ At("finish")
    /\ inFlight' = Cleared /\ worker' = IdleWorker
    /\ event' = IF app # "up" THEN "no"
                ELSE IF store[worker.msg] = "retrying" /\ worker.failure = "retry"
                THEN "retrying" ELSE "over"
    /\ UNCHANGED <<world, storeVars, app, ready, backoff, sched, offline, flush, peerVars,
                   ghostVars, faults>>

\* An offline window ends: its time is over, or the peer was heard of (peer_seen).
OfflineEnds(r) ==
    /\ r \in offline /\ offline' = offline \ {r}
    /\ UNCHANGED <<world, storeVars, app, ready, schedVars, worker, flush, peerVars, ghostVars,
                   faults>>

----
(* The flush: on exit (shutdown) and on backgrounding *)

\* stop: the scheduler ends at its next event; a message it has handed over stays in flight.
Shutdown ==
    /\ app = "up" /\ flush = NoFlush /\ Idle("client") /\ Fault("exit")
    /\ app' = "draining"
    /\ backoff' = {} /\ sched' = None /\ event' = "no"
    /\ UNCHANGED <<world, storeVars, ready, inFlight, worker, offline, flush, peerVars, ghostVars>>

\* The send in flight has ended, or the deadline has passed; then nothing is flushed: every
\* message is left pending, as in flight or as past the deadline.
ToFlush == IF inFlight = None /\ world.gate THEN InOrder(Pending) ELSE <<>>
Drained ==
    /\ app = "draining" /\ app' = "flushing"
    /\ flush' = [why |-> "exit", todo |-> ToFlush]
    /\ UNCHANGED <<world, storeVars, ready, schedVars, worker, offline, peerVars, ghostVars, faults>>

\* forward_pending_to_mailbox on its own thread; the sender goes on meanwhile.
Background ==
    /\ app = "up" /\ flush = NoFlush /\ Idle("client") /\ world.gate /\ Fault("background")
    /\ flush' = [why |-> "background", todo |-> InOrder(Pending)]
    /\ UNCHANGED <<world, storeVars, app, ready, schedVars, worker, offline, peerVars, ghostVars>>

\* One message: on exit it is recorded as unreachable first, unless the deadline has passed.
FlushNext ==
    /\ flush.todo # <<>> /\ Idle("client")
    /\ \/ /\ flush' = [flush EXCEPT !.todo = Tail(@)]
          /\ IF flush.why = "exit" THEN Update("client", Head(flush.todo), "retrying")
             ELSE Offer("client", Head(flush.todo), store)
       \/ /\ flush.why = "exit" /\ flush' = [flush EXCEPT !.todo = <<>>]
          /\ UNCHANGED <<store, posting, saving>>
    /\ UNCHANGED <<world, forwarded, refused, file, app, ready, schedVars, worker, offline,
                   peerVars, ghostVars, faults>>

\* The end of the process, after which only the state file is left.
Halt ==
    /\ app' = "down" /\ ready' = TRUE
    /\ store' = file.store /\ forwarded' = file.forwarded /\ refused' = {}
    /\ saving' = [t \in Thread |-> NoSnapshot] /\ posting' = [t \in Thread |-> NoPost]
    /\ backoff' = {} /\ sched' = None /\ event' = "no" /\ inFlight' = None
    /\ worker' = IdleWorker /\ offline' = {} /\ flush' = NoFlush
    /\ lost' = lost \cup {m \in Msg : \/ file.store[m] = "done" /\ ~HandedOver(m)
                                      \/ file.store[m] = "none" /\ m \in accepted}
    /\ UNCHANGED <<world, file, peerVars, accepted>>

FlushEnd ==
    /\ flush # NoFlush /\ flush.todo = <<>> /\ Idle("client")
    /\ IF flush.why = "exit" THEN Halt /\ UNCHANGED faults
       ELSE /\ Snapshot("client", store) /\ flush' = NoFlush
            /\ UNCHANGED <<world, store, forwarded, refused, file, posting, app, ready, schedVars,
                           worker, offline, peerVars, ghostVars, faults>>

Crash == app # "down" /\ Fault("crash") /\ Halt

\* load, and a new sender.
Restart ==
    /\ app = "down" /\ app' = "up"
    /\ UNCHANGED <<world, storeVars, ready, schedVars, worker, offline, flush, peerVars, ghostVars,
                   faults>>

----
(* The surroundings *)

\* The transport stops listening, and listens again.
Connection ==
    /\ ready' = ~ready /\ IF ready THEN Fault("connection") ELSE UNCHANGED faults
    /\ UNCHANGED <<world, storeVars, app, schedVars, worker, offline, flush, peerVars, ghostVars>>

\* poll_mailbox of a recipient: the pop drops the head, which is stored; a pop without an
\* answer, or a recipient that ends before its save, loses it.
Poll(r) ==
    /\ mailbox[r] # <<>> /\ mailbox' = [mailbox EXCEPT ![r] = Tail(@)]
    /\ \/ StoreCopy(r, Head(mailbox[r])) /\ UNCHANGED faults
       \/ Fault("pop") /\ UNCHANGED inbox
    /\ UNCHANGED <<world, storeVars, app, ready, schedVars, worker, offline, flush, reached,
                   ghostVars>>

WorkerStep == Attempt \/ Progress \/ LookupFails \/ Deliver \/ Record \/ Finish
FlushStep == Drained \/ FlushNext \/ FlushEnd
Next ==
    \/ \E m \in Msg : Queue(m) \/ Elapse(m)
    \/ \E t \in Thread : Write(t) \/ PostOne(t) \/ Apply(t)
    \/ Schedule \/ Reap \/ WorkerStep
    \/ Shutdown \/ Background \/ FlushStep \/ Crash \/ Restart \/ Connection
    \/ \E r \in Recipient : OfflineEnds(r) \/ Poll(r)
Spec == Init /\ [][Next]_vars

\* Every thread goes on, network calls end by their timeouts, waiting times pass, recipients
\* poll, and the user starts the client again. Nothing obliges the user to queue or to leave.
FairSpec ==
    /\ Spec
    /\ \A t \in Thread : WF_vars(Write(t)) /\ WF_vars(PostOne(t)) /\ WF_vars(Apply(t))
    /\ \A m \in Msg : WF_vars(Elapse(m))
    /\ \A r \in Recipient : WF_vars(Poll(r))
    /\ WF_vars(Schedule \/ Reap) /\ WF_vars(WorkerStep) /\ WF_vars(FlushStep)
    /\ WF_vars(Restart) /\ WF_vars(~ready /\ Connection)

----
(* Properties *)

\* The store, the sender's slots and the Mailboxes keep their types, and the in_flight slot
\* names the message the worker is sending.
TypeOK ==
    /\ world \in Worlds /\ store \in [Msg -> Status] /\ file.store \in [Msg -> Status]
    /\ forwarded \subseteq Msg \X Recipient /\ refused \subseteq Msg \X Recipient
    /\ \A t \in Thread : posting[t].msg \in Msg \cup {None} /\ posting[t].todo \in Seq(Recipient)
    /\ app \in {"up", "draining", "flushing", "down"} /\ ready \in BOOLEAN
    /\ {sched, inFlight} \subseteq Msg \cup {None} /\ event \in {"no", "retrying", "over"}
    /\ worker.pc \in {"idle", "next", "lookup", "sending", "record", "finish"}
    /\ worker.pc \in {"lookup", "sending"} => worker.at \in 1..Len(To(worker.msg))
    /\ inFlight = worker.msg /\ backoff \subseteq Msg /\ offline \subseteq Recipient
    /\ flush.why \in {"no", "exit", "background"} /\ flush.todo \in Seq(Msg)
    /\ \A r \in Recipient : mailbox[r] \in Seq(Msg) /\ inbox[r] \in [Msg -> Nat]
    /\ accepted \subseteq Msg /\ lost \subseteq Msg

\* However often a message is sent again, posted and read, a recipient stores one copy of it
\* (holds_received_copy, issue #355).
ReceivedOnce == \A r \in Recipient, m \in Msg : inbox[r][m] <= 1

\* A message that is complete without a failure, and not being sent, is with every one of its
\* recipients or in their Mailboxes (is_handed_off), unless a restart found it so.
DoneIsHandedOver ==
    \A m \in Msg : store[m] = "done" /\ inFlight # m /\ m \notin lost => HandedOver(m)

\* A message is never in flight and flushed on exit at once (the in_flight slot, issue #282).
FlushedIsNotInFlight ==
    flush.why = "exit" /\ posting["client"].msg # None => posting["client"].msg # inFlight

\* Some route to the i-th recipient of m stays open: a direct one, which takes that nobody
\* before it is away, since that ends the attempt; or the Mailbox.
Deliverable(m, i) ==
    /\ To(m)[i] \notin world.unknown
    /\ \/ \A j \in 1..i : To(m)[j] \notin world.away
       \/ world.gate /\ <<m, To(m)[i]>> \notin refused
Arrived(m) == \A r \in ToSet(To(m)) : inbox[r][m] > 0
\* A queued message arrives at all its recipients, or the user is told that it failed, if each
\* of them can be reached or has a Mailbox; another message that goes nowhere does not hold it
\* up (per-message backoff, send_retry).
Arrives ==
    \A m \in Msg : m \in accepted ~>
        \/ Arrived(m) \/ store[m] = "failed" \/ m \in lost \/ "pop" \in faults.kinds
        \/ \E i \in DOMAIN To(m) : ~Deliverable(m, i)

\* Sending again, the flush on exit and the Mailbox leave one copy of a message: a recipient
\* stores one, and the flush does not take the one in flight.
OneCopy == TypeOK /\ ReceivedOnce /\ FlushedIsNotInFlight

=============================================================================
