---------------------------- MODULE PacketTransport ----------------------------
(***************************************************************************)
(* The reliable packet transport FRPT over DTLS sessions                   *)
(* (bingle_core/src/packet_transport/mod.rs), one direction of it: the     *)
(* threads of a sender call send(), the receiver's reader dispatches the   *)
(* packets.  Sends are numbered in the order in which they take a tx_id;   *)
(* sends to other peers, which only skip ids of the same counter, are left *)
(* out.                                                                    *)
(*                                                                         *)
(* Below is DTLS over UDP: packets are lost and reordered and belong to a  *)
(* session; what is sealed for another session than the receiving side's   *)
(* cannot be opened.  A side without a session dials when it next sends,   *)
(* and a side that is dialled while it has a session runs the new-session  *)
(* hook (dtls_openssl.rs, handle_dtls_accept_packet).                      *)
(***************************************************************************)
EXTENDS Integers, FiniteSets

CONSTANTS
    MaxSends,     \* bound: calls of send()
    Threads,      \* bound: calls of send() in progress together
    TxModulus,    \* the number of tx_ids, 2^16 in the code
    Attempts,     \* Len(retry_delays): transmissions of a block
    MaxSessions,  \* bound: sessions ever established
    MaxRestarts   \* bound: restarts of the sender's process

ASSUME BoundAssumption ==
    /\ MaxSends \in Nat /\ Threads \in Nat /\ TxModulus \in Nat \ {0} /\ Attempts \in Nat \ {0}
    /\ MaxSessions \in Nat \ {0} /\ MaxRestarts \in Nat

Send == 0 .. MaxSends - 1
TxId == 0 .. TxModulus - 1

VARIABLES
    begun,        \* the number of sends begun so far
    nextTx,       \* next_tx_id
    st,           \* st[k]: where send k is
    tx, gen,      \* its tx_id and the generation it read
    tries,        \* its transmissions so far
    acked,        \* the flag of its AckWaiter
    pending,      \* pending_acks: set of [gen, tx, send], one per key
    sgen, rgen,   \* endpoint_sessions of the sender and of the receiver for each other
    delivered,    \* received_single_blocks: set of <<gen, tx>>
    handed,       \* how often the receiver's handler was given block k
    net,          \* packets on the wire
    ssess, rsess, \* the session either side holds with the other, 0 for none
    sessions,     \* sessions established so far
    restarts      \* restarts of the sender so far

sendVars == <<begun, nextTx, st, tx, gen, tries, acked>>
recvVars == <<rgen, delivered, handed>>
sessVars == <<ssess, rsess, sessions, restarts>>
vars == <<sendVars, pending, sgen, recvVars, net, sessVars>>

Data(s, t, k, c) == [type |-> "data", sess |-> s, tx |-> t, send |-> k, copy |-> c]
Ack(s, t, c) == [type |-> "ack", sess |-> s, tx |-> t, copy |-> c]

\* The two processes have just exchanged their first handshake.
Init ==
    /\ begun = 0 /\ nextTx = 0
    /\ st = [k \in Send |-> "new"]
    /\ tx = [k \in Send |-> 0] /\ gen = [k \in Send |-> 0]
    /\ tries = [k \in Send |-> 0] /\ acked = [k \in Send |-> FALSE]
    /\ pending = {} /\ sgen = 0 /\ rgen = 0 /\ delivered = {}
    /\ handed = [k \in Send |-> 0]
    /\ net = {} /\ ssess = 1 /\ rsess = 1 /\ sessions = 1 /\ restarts = 0

-----------------------------------------------------------------------------
(* Sessions *)

\* A side dials: the other side runs handle_new_dtls_session if it still had a
\* session of its own, and keeps its transport state if it had lost it.
SenderDials ==
    /\ ssess = 0 /\ sessions < MaxSessions
    /\ sessions' = sessions + 1
    /\ ssess' = sessions + 1 /\ rsess' = sessions + 1
    /\ rgen' = IF rsess = 0 THEN rgen ELSE rgen + 1
    /\ delivered' = IF rsess = 0 THEN delivered ELSE {}

ReceiverDials ==
    /\ rsess = 0 /\ sessions < MaxSessions
    /\ sessions' = sessions + 1
    /\ ssess' = sessions + 1 /\ rsess' = sessions + 1
    /\ sgen' = IF ssess = 0 THEN sgen ELSE sgen + 1
    /\ pending' = IF ssess = 0 THEN pending ELSE {}
    /\ UNCHANGED <<sendVars, recvVars, net, restarts>>

\* A peer worker fails, a reader ends, the network changes.
SenderLosesSession ==
    /\ ssess # 0 /\ sessions < MaxSessions
    /\ ssess' = 0
    /\ UNCHANGED <<sendVars, pending, sgen, recvVars, net, rsess, sessions, restarts>>

ReceiverLosesSession ==
    /\ rsess # 0 /\ sessions < MaxSessions
    /\ rsess' = 0
    /\ UNCHANGED <<sendVars, pending, sgen, recvVars, net, ssess, sessions, restarts>>

-----------------------------------------------------------------------------
(* send() *)

InProgress == {k \in Send : st[k] \in {"keyed", "waiting"}}

\* The generation is read, then a tx_id is taken.
Begin(k) ==
    /\ k = begun /\ Cardinality(InProgress) < Threads
    /\ begun' = begun + 1
    /\ st' = [st EXCEPT ![k] = "keyed"]
    /\ gen' = [gen EXCEPT ![k] = sgen]
    /\ tx' = [tx EXCEPT ![k] = nextTx]
    /\ nextTx' = (nextTx + 1) % TxModulus
    /\ UNCHANGED <<tries, acked, pending, sgen, recvVars, net, sessVars>>

\* The entries of pending_acks but the one under send k's key.
Cleared(k) == {e \in pending : e.gen # gen[k] \/ e.tx # tx[k]}

Registered(k) == Cleared(k) \cup {[gen |-> gen[k], tx |-> tx[k], send |-> k]}

\* dtls.send of the block: over the session there is, or over a fresh one.
Transmits(k) ==
    /\ \/ ssess # 0 /\ UNCHANGED <<ssess, rsess, sessions, rgen, delivered>>
       \/ SenderDials
    /\ net' = net \cup {Data(ssess', tx[k], k, tries[k])}
    /\ tries' = [tries EXCEPT ![k] = @ + 1]
    /\ st' = [st EXCEPT ![k] = "waiting"]

\* ... or it fails: the handshake times out, and send() returns its error.
TransmitFails(k) ==
    /\ ssess = 0
    /\ st' = [st EXCEPT ![k] = "failed"]
    /\ pending' = Cleared(k)
    /\ UNCHANGED <<tries, net, ssess, rsess, sessions, rgen, delivered>>

FirstSend(k) ==
    /\ st[k] = "keyed"
    /\ \/ pending' = Registered(k) /\ Transmits(k)
       \/ TransmitFails(k)
    /\ UNCHANGED <<begun, nextTx, tx, gen, acked, sgen, handed, restarts>>

\* Variant with a bug: transmissions are not counted.
ResendForever(k) ==
    /\ st[k] = "waiting" /\ ~acked[k] /\ ssess # 0
    /\ net' = net \cup {Data(ssess, tx[k], k, 0)}
    /\ UNCHANGED <<sendVars, pending, sgen, recvVars, sessVars>>

Resend(k) ==
    /\ st[k] = "waiting" /\ ~acked[k] /\ tries[k] < Attempts
    /\ \/ Transmits(k) /\ UNCHANGED pending
       \/ TransmitFails(k)
    /\ UNCHANGED <<begun, nextTx, tx, gen, acked, sgen, handed, restarts>>

\* Variant with a bug: the session that answers nothing is kept (issue #46).
GivesUpKeepingPeer(k) ==
    /\ st[k] = "waiting" /\ ~acked[k] /\ tries[k] >= Attempts
    /\ st' = [st EXCEPT ![k] = "failed"]
    /\ pending' = Cleared(k)
    /\ UNCHANGED <<begun, nextTx, tx, gen, tries, acked, sgen, recvVars, net, sessVars>>

\* All retries are exhausted: the session is forgotten with the pending key.
GivesUp(k) ==
    /\ st[k] = "waiting" /\ ~acked[k] /\ tries[k] >= Attempts
    /\ st' = [st EXCEPT ![k] = "failed"]
    /\ pending' = Cleared(k)
    /\ ssess' = 0
    /\ UNCHANGED <<begun, nextTx, tx, gen, tries, acked, sgen, recvVars, net, rsess, sessions, restarts>>

Returns(k) ==
    /\ st[k] = "waiting" /\ acked[k]
    /\ st' = [st EXCEPT ![k] = "ok"]
    /\ UNCHANGED <<begun, nextTx, tx, gen, tries, acked, pending, sgen, recvVars, net, sessVars>>

-----------------------------------------------------------------------------
(* dispatch_inbound_packet *)

\* Variant with a bug: a duplicate is handed on again.
ReceiveEveryData(p) ==
    /\ p.type = "data" /\ p.sess = rsess
    /\ net' = (net \ {p}) \cup {Ack(rsess, p.tx, p.copy)}
    /\ delivered' = delivered \cup {<<rgen, p.tx>>}
    /\ handed' = [handed EXCEPT ![p.send] = @ + 1]
    /\ UNCHANGED <<sendVars, pending, sgen, rgen, sessVars>>

\* The ACK goes out first; then the block is handed on unless its key is known.
ReceiveData(p) ==
    /\ p.type = "data" /\ p.sess = rsess
    /\ net' = (net \ {p}) \cup {Ack(rsess, p.tx, p.copy)}
    /\ delivered' = delivered \cup {<<rgen, p.tx>>}
    /\ handed' = IF <<rgen, p.tx>> \in delivered THEN handed
                 ELSE [handed EXCEPT ![p.send] = @ + 1]
    /\ UNCHANGED <<sendVars, pending, sgen, rgen, sessVars>>

\* Variant with a bug: the ACK of any block completes the send.
ReceiveAnyAck(p) ==
    /\ p.type = "ack" /\ p.sess = ssess
    /\ net' = net \ {p}
    /\ pending' = {}
    /\ acked' = [k \in Send |-> acked[k] \/ \E e \in pending : e.send = k]
    /\ UNCHANGED <<begun, nextTx, st, tx, gen, tries, sgen, recvVars, sessVars>>

\* An ACK completes the send registered under its key, if any.
ReceiveAck(p) ==
    LET hit == {e \in pending : e.gen = sgen /\ e.tx = p.tx}
    IN  /\ p.type = "ack" /\ p.sess = ssess
        /\ net' = net \ {p}
        /\ pending' = pending \ hit
        /\ acked' = [k \in Send |-> acked[k] \/ \E e \in hit : e.send = k]
        /\ UNCHANGED <<begun, nextTx, st, tx, gen, tries, sgen, recvVars, sessVars>>

\* Lost on the wire, or, for data, dropped because its ACK could not be sent.
Lose(p) ==
    /\ net' = net \ {p}
    /\ UNCHANGED <<sendVars, pending, sgen, recvVars, sessVars>>

\* The sender's process starts again: its transport is built anew, on the same port.
Restart ==
    /\ restarts < MaxRestarts
    /\ restarts' = restarts + 1
    /\ nextTx' = 0 /\ sgen' = 0 /\ pending' = {} /\ ssess' = 0
    /\ st' = [k \in Send |-> IF k \in InProgress THEN "failed" ELSE st[k]]
    /\ UNCHANGED <<begun, tx, gen, tries, acked, recvVars, net, rsess, sessions>>

-----------------------------------------------------------------------------
SendStep(k) == Begin(k) \/ FirstSend(k) \/ Resend(k) \/ GivesUp(k) \/ Returns(k)

Next ==
    \/ \E k \in Send : SendStep(k)
    \/ \E p \in net : ReceiveData(p) \/ ReceiveAck(p) \/ Lose(p)
    \/ ReceiverDials \/ SenderLosesSession \/ ReceiverLosesSession
    \/ Restart

Spec == Init /\ [][Next]_vars

\* A thread in send() runs, and its waits time out.
Fairness ==
    \A k \in Send : WF_vars(FirstSend(k)) /\ WF_vars(Resend(k) \/ GivesUp(k)) /\ WF_vars(Returns(k))

FairSpec == Spec /\ Fairness

\* The sender never wraps its tx_ids.
TxIdsSuffice == MaxSends <= TxModulus

-----------------------------------------------------------------------------
(* Properties *)

Packet == [type : {"data"}, sess : Nat, tx : TxId, send : Send, copy : Nat]
            \cup [type : {"ack"}, sess : Nat, tx : TxId, copy : Nat]

\* The transport's tables keep their types.
TypeOK ==
    /\ begun \in 0 .. MaxSends /\ nextTx \in TxId
    /\ st \in [Send -> {"new", "keyed", "waiting", "ok", "failed"}]
    /\ tx \in [Send -> TxId] /\ gen \in [Send -> Nat]
    /\ tries \in [Send -> 0 .. Attempts] /\ acked \in [Send -> BOOLEAN]
    /\ pending \in SUBSET [gen : Nat, tx : TxId, send : Send]
    /\ sgen \in Nat /\ rgen \in Nat
    /\ delivered \in SUBSET (Nat \X TxId)
    /\ handed \in [Send -> Nat]
    /\ net \in SUBSET Packet
    /\ ssess \in Nat /\ rsess \in Nat /\ sessions \in Nat /\ restarts \in Nat

\* "receiver has complete block and has accepted it for upper-layer delivery":
\* when send() returns Ok, the peer's handler was given the block, over any
\* reconnects.  A sender that restarts numbers its blocks from 0 again, which
\* a receiver that kept its table takes for duplicates.
AckedIsDelivered == restarts = 0 => \A k \in Send : st[k] = "ok" => handed[k] > 0

\* "Completed transfer receives duplicate data: ACK again, no re-delivery."
\* The block of one send() reaches the handler at most once.
NoRedelivery == \A k \in Send : handed[k] <= 1

\* The same for as long as both sides keep their first session.
NoRedeliveryInSession == restarts = 0 /\ sessions = 1 => NoRedelivery

\* pending_acks holds nothing but the keys of sends that still wait.
NoLeakedWaiter == \A e \in pending : e.send \in InProgress

\* Every call of send() returns.
SendReturns == \A k \in Send : (st[k] = "keyed") ~> (st[k] \in {"ok", "failed"})

\* A send over a session that the peer no longer has ends, unless it was acked
\* before, with that session forgotten or replaced, so that the caller's retry
\* can recover (issue #46).
DeadSessionIsForgotten ==
    \A k \in Send : (st[k] = "waiting" /\ ssess # rsess) ~> (ssess \in {0, rsess} \/ st[k] = "ok")

=============================================================================
