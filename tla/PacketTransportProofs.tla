------------------------- MODULE PacketTransportProofs -------------------------
(***************************************************************************)
(* Theorems about PacketTransport, for every number of sends, threads,     *)
(* tx_ids, attempts, sessions and restarts.                                *)
(***************************************************************************)
EXTENDS PacketTransport, TLAPS

-----------------------------------------------------------------------------
(* The sender's own tables.  A send that has not transmitted yet has counted *)
(* nothing and is not acked; an entry of pending_acks is the key of a send   *)
(* that waits, and that no ACK has completed.                                *)

Fresh ==
    /\ \A k \in Send : k >= begun => st[k] = "new"
    /\ \A k \in Send : st[k] \in {"new", "keyed"} => tries[k] = 0 /\ ~acked[k]

Waiters ==
    \A e \in pending : /\ st[e.send] = "waiting" /\ ~acked[e.send]
                       /\ e.gen = gen[e.send] /\ e.tx = tx[e.send]

Typed == TypeOK /\ Fresh /\ Waiters

\* The packets that the two sides build are packets.
LEMMA PacketTypes ==
    /\ \A s \in Nat, t \in TxId, k \in Send, c \in Nat : Data(s, t, k, c) \in Packet
    /\ \A s \in Nat, t \in TxId, c \in Nat : Ack(s, t, c) \in Packet
BY DEF Data, Ack, Packet

\* The fields of a packet have their types.
LEMMA PacketFields ==
    ASSUME NEW p \in Packet
    PROVE  /\ p.tx \in TxId /\ p.copy \in Nat /\ p.sess \in Nat
           /\ p.type = "data" => p.send \in Send
BY DEF Packet

\* The entry of pending_acks that a send registers has its type.
LEMMA PendingTypes ==
    ASSUME TypeOK, NEW k \in Send
    PROVE  /\ Cleared(k) \in SUBSET [gen : Nat, tx : TxId, send : Send]
           /\ Registered(k) \in SUBSET [gen : Nat, tx : TxId, send : Send]
BY DEF TypeOK, Cleared, Registered

\* Nothing waits and nothing is under way before the first send().
LEMMA TypedInit == Init => Typed
BY BoundAssumption DEF Init, Typed, TypeOK, Fresh, Waiters, Send, TxId

\* Handing a block to DTLS, which may have to dial first, keeps the types.
LEMMA TypedTransmits ==
    ASSUME Typed, NEW k \in Send, Transmits(k), tries[k] < Attempts
    PROVE  /\ tries' \in [Send -> 0 .. Attempts] /\ net' \in SUBSET Packet
           /\ st' \in [Send -> {"new", "keyed", "waiting", "ok", "failed"}]
           /\ ssess' \in Nat /\ rsess' \in Nat /\ sessions' \in Nat
           /\ rgen' \in Nat /\ delivered' \in SUBSET (Nat \X TxId)
<1>1. /\ ssess' \in Nat /\ rsess' \in Nat /\ sessions' \in Nat
      /\ rgen' \in Nat /\ delivered' \in SUBSET (Nat \X TxId)
  <2>1. CASE UNCHANGED <<ssess, rsess, sessions, rgen, delivered>>
    BY <2>1 DEF Typed, TypeOK
  <2>2. CASE SenderDials
    BY <2>2 DEF Typed, TypeOK, SenderDials
  <2> QED BY <2>1, <2>2 DEF Transmits
<1>2. Data(ssess', tx[k], k, tries[k]) \in Packet
  BY <1>1, PacketTypes DEF Typed, TypeOK
<1>3. tries' \in [Send -> 0 .. Attempts]
  BY BoundAssumption DEF Typed, TypeOK, Transmits
<1> QED BY <1>1, <1>2, <1>3 DEF Typed, TypeOK, Transmits

\* Every step of either side, and every loss, keeps the types and the waiters.
LEMMA TypedNext == Typed /\ [Next]_vars => Typed'
<1> SUFFICES ASSUME Typed, [Next]_vars PROVE Typed'
  OBVIOUS
<1> USE DEF Typed
<1>1. ASSUME NEW k \in Send, Begin(k) PROVE Typed'
  <2>1. nextTx' \in TxId
    BY <1>1, BoundAssumption DEF Begin, TypeOK, TxId
  <2>2. begun' \in 0 .. MaxSends
    BY <1>1, BoundAssumption DEF Begin, TypeOK, Send
  <2>3. TypeOK'
    BY <1>1, <2>1, <2>2 DEF Begin, TypeOK, recvVars, sessVars
  <2>4. Fresh'
    BY <1>1 DEF Begin, TypeOK, Fresh, Send
  <2>5. Waiters'
    BY <1>1 DEF Begin, TypeOK, Fresh, Waiters, Send
  <2> QED BY <2>3, <2>4, <2>5
<1>2. ASSUME NEW k \in Send, FirstSend(k) PROVE Typed'
  <2>1. tries[k] < Attempts /\ k < begun
    BY <1>2, BoundAssumption DEF FirstSend, Fresh, TypeOK, Send
  <2>2. CASE pending' = Registered(k) /\ Transmits(k)
    <3>1. TypeOK'
      BY <1>2, <2>1, <2>2, TypedTransmits, PendingTypes DEF FirstSend, TypeOK
    <3>2. Fresh'
      BY <1>2, <2>1, <2>2 DEF FirstSend, TypeOK, Fresh, Transmits, Send
    <3>3. Waiters'
      BY <1>2, <2>1, <2>2 DEF FirstSend, TypeOK, Fresh, Waiters, Transmits, Registered, Cleared
    <3> QED BY <3>1, <3>2, <3>3
  <2>3. CASE TransmitFails(k)
    <3>1. TypeOK'
      BY <1>2, <2>3, PendingTypes DEF FirstSend, TypeOK, TransmitFails
    <3>2. Fresh'
      BY <1>2, <2>1, <2>3 DEF FirstSend, TypeOK, Fresh, TransmitFails, Send
    <3>3. Waiters'
      BY <1>2, <2>1, <2>3 DEF FirstSend, TypeOK, Waiters, TransmitFails, Cleared
    <3> QED BY <3>1, <3>2, <3>3
  <2> QED BY <1>2, <2>2, <2>3 DEF FirstSend
<1>3. ASSUME NEW k \in Send, Resend(k) PROVE Typed'
  <2>1. tries[k] < Attempts /\ k < begun
    BY <1>3 DEF Resend, Fresh, TypeOK, Send
  <2>2. CASE Transmits(k) /\ UNCHANGED pending
    <3>1. TypeOK'
      BY <1>3, <2>1, <2>2, TypedTransmits DEF Resend, TypeOK
    <3>2. Fresh'
      BY <1>3, <2>1, <2>2 DEF Resend, TypeOK, Fresh, Transmits, Send
    <3>3. Waiters'
      BY <1>3, <2>1, <2>2 DEF Resend, TypeOK, Fresh, Waiters, Transmits
    <3> QED BY <3>1, <3>2, <3>3
  <2>3. CASE TransmitFails(k)
    <3>1. TypeOK'
      BY <1>3, <2>3, PendingTypes DEF Resend, TypeOK, TransmitFails
    <3>2. Fresh'
      BY <1>3, <2>1, <2>3 DEF Resend, TypeOK, Fresh, TransmitFails, Send
    <3>3. Waiters'
      BY <1>3, <2>1, <2>3 DEF Resend, TypeOK, Waiters, TransmitFails, Cleared
    <3> QED BY <3>1, <3>2, <3>3
  <2> QED BY <1>3, <2>2, <2>3 DEF Resend
<1>4. ASSUME NEW k \in Send, GivesUp(k) PROVE Typed'
  <2>1. TypeOK'
    BY <1>4, PendingTypes DEF GivesUp, TypeOK, recvVars
  <2>2. Fresh'
    BY <1>4 DEF GivesUp, TypeOK, Fresh, Send
  <2>3. Waiters'
    BY <1>4 DEF GivesUp, TypeOK, Waiters, Cleared
  <2> QED BY <2>1, <2>2, <2>3
<1>5. ASSUME NEW k \in Send, Returns(k) PROVE Typed'
  <2>1. TypeOK'
    BY <1>5 DEF Returns, TypeOK, recvVars, sessVars
  <2>2. Fresh'
    BY <1>5 DEF Returns, TypeOK, Fresh, Send
  <2>3. Waiters'
    BY <1>5 DEF Returns, TypeOK, Waiters
  <2> QED BY <2>1, <2>2, <2>3
<1>6. ASSUME NEW p \in net, ReceiveData(p) PROVE Typed'
  <2>1. p \in Packet /\ p.tx \in TxId /\ p.copy \in Nat /\ p.send \in Send
    BY <1>6, PacketFields DEF ReceiveData, TypeOK
  <2>2. net' \in SUBSET Packet
    BY <1>6, <2>1, PacketTypes DEF ReceiveData, TypeOK
  <2>3. delivered' \in SUBSET (Nat \X TxId) /\ handed' \in [Send -> Nat]
    BY <1>6, <2>1 DEF ReceiveData, TypeOK
  <2>4. TypeOK'
    BY <1>6, <2>2, <2>3 DEF ReceiveData, TypeOK, sendVars, sessVars
  <2>5. Fresh'
    BY <1>6 DEF ReceiveData, Fresh, sendVars
  <2>6. Waiters'
    BY <1>6 DEF ReceiveData, Waiters, sendVars
  <2> QED BY <2>4, <2>5, <2>6
<1>7. ASSUME NEW p \in net, ReceiveAck(p) PROVE Typed'
  <2> DEFINE hit == {e \in pending : e.gen = sgen /\ e.tx = p.tx}
  <2>1. /\ net' = net \ {p} /\ pending' = pending \ hit
        /\ acked' = [k \in Send |-> acked[k] \/ \E e \in hit : e.send = k]
        /\ UNCHANGED <<begun, nextTx, st, tx, gen, tries, sgen, recvVars, sessVars>>
    BY <1>7 DEF ReceiveAck
  <2>2. \A k \in Send : acked'[k] => acked[k] \/ \E e \in hit : e.send = k
    BY <2>1, ZenonT(30)
  <2>3. TypeOK'
    <3>1. acked' \in [Send -> BOOLEAN]
      BY <2>1 DEF TypeOK
    <3> QED BY <2>1, <3>1 DEF TypeOK, recvVars, sessVars
  <2>4. Fresh'
    BY <2>1, <2>2 DEF Fresh, Waiters
  <2>5. Waiters'
    BY <2>1, <2>2 DEF Waiters, TypeOK
  <2> QED BY <2>3, <2>4, <2>5
<1>8. ASSUME NEW p \in net, Lose(p) PROVE Typed'
  BY <1>8 DEF Lose, TypeOK, Fresh, Waiters, sendVars, recvVars, sessVars
<1>9. CASE ReceiverDials
  BY <1>9 DEF ReceiverDials, TypeOK, Fresh, Waiters, sendVars, recvVars
<1>10. CASE SenderLosesSession
  BY <1>10 DEF SenderLosesSession, TypeOK, Fresh, Waiters, sendVars, recvVars
<1>11. CASE ReceiverLosesSession
  BY <1>11 DEF ReceiverLosesSession, TypeOK, Fresh, Waiters, sendVars, recvVars
<1>12. CASE Restart
  <2>1. TypeOK'
    BY <1>12, BoundAssumption DEF Restart, TypeOK, recvVars, TxId
  <2>2. Fresh'
    BY <1>12 DEF Restart, TypeOK, Fresh, InProgress
  <2>3. Waiters'
    BY <1>12 DEF Restart, Waiters
  <2> QED BY <2>1, <2>2, <2>3
<1>13. CASE UNCHANGED vars
  BY <1>13 DEF vars, TypeOK, Fresh, Waiters, sendVars, recvVars, sessVars
<1> QED BY <1>1, <1>2, <1>3, <1>4, <1>5, <1>6, <1>7, <1>8, <1>9, <1>10, <1>11, <1>12, <1>13
     DEF Next, SendStep

\* So the types, and that only sends in progress have waiters, hold throughout.
LEMMA AlwaysTyped == Spec => []Typed
<1>1. Init => Typed
  BY TypedInit
<1>2. Typed /\ [Next]_vars => Typed'
  BY TypedNext
<1> QED BY <1>1, <1>2, PTL DEF Spec

\* The tables of the transport keep their types whatever the sessions and the
\* restarts do; in particular a block is transmitted at most Attempts times.
THEOREM TypeCorrect == Spec => []TypeOK
<1>1. Typed => TypeOK
  BY DEF Typed
<1> QED BY <1>1, AlwaysTyped, PTL

\* pending_acks never outlives the call of send() that registered the key:
\* each way out of send(), the new-session hook included, clears it.
THEOREM WaitersAreCleared == Spec => []NoLeakedWaiter
<1>1. Typed => NoLeakedWaiter
  BY DEF Typed, TypeOK, Waiters, NoLeakedWaiter, InProgress
<1> QED BY <1>1, AlwaysTyped, PTL

-----------------------------------------------------------------------------
(* What an ACK means.  While the sender lives and its tx_ids do not wrap,    *)
(* send k has tx_id k, so whatever carries tx_id k is about block k: a data  *)
(* packet holds it, a key of received_single_blocks and an ACK say that it   *)
(* was handed on.                                                            *)

Numbered ==
    /\ nextTx = begun % TxModulus
    /\ \A k \in Send : k < begun => tx[k] = k
    /\ \A e \in pending : e.tx = e.send
    /\ restarts = 0

Handed ==
    /\ \A p \in net : IF p.type = "data" THEN p.tx = p.send ELSE p.tx \in Send /\ handed[p.tx] > 0
    /\ \A d \in delivered : d[2] \in Send /\ handed[d[2]] > 0
    /\ \A k \in Send : acked[k] => handed[k] > 0

OkDelivered == \A k \in Send : st[k] = "ok" => handed[k] > 0

Means == Typed /\ Numbered /\ Handed /\ OkDelivered

\* Before the first send() no ACK is under way.
LEMMA MeansInit == Init => Means
<1> SUFFICES ASSUME Init PROVE Means
  OBVIOUS
<1>1. Typed
  BY TypedInit
<1>2. nextTx = begun % TxModulus
  BY BoundAssumption DEF Init
<1> QED BY <1>1, <1>2 DEF Init, Means, Numbered, Handed, OkDelivered, Send

\* As long as the sender does not restart, an ACK stays evidence of a delivery.
LEMMA MeansNext == ASSUME TxIdsSuffice PROVE Means /\ [Next]_vars /\ restarts' = 0 => Means'
<1> SUFFICES ASSUME Means, [Next]_vars, restarts' = 0 PROVE Numbered' /\ Handed' /\ OkDelivered'
  BY TypedNext DEF Means
<1> USE DEF Means, Typed
<1>1. ASSUME NEW k \in Send, Begin(k) PROVE Numbered' /\ Handed' /\ OkDelivered'
  <2>1. begun < TxModulus /\ begun \in Nat /\ nextTx = begun
    <3>1. begun < TxModulus /\ begun \in Nat /\ TxModulus \in Nat \ {0}
      BY <1>1, BoundAssumption DEF Begin, TypeOK, TxIdsSuffice, Send
    <3>2. begun % TxModulus = begun
      BY <3>1
    <3> QED BY <3>1, <3>2 DEF Numbered
  <2>2. Numbered'
    BY <1>1, <2>1 DEF Begin, TypeOK, Numbered, Send, sessVars
  <2> QED BY <1>1, <2>2 DEF Begin, TypeOK, Handed, OkDelivered, recvVars
<1>2. ASSUME NEW k \in Send, Transmits(k), tx[k] = k, UNCHANGED <<acked, handed>>
      PROVE  Handed' /\ OkDelivered'
  <2>1. delivered' \subseteq delivered
    BY <1>2 DEF Transmits, SenderDials
  <2>2. \A p \in net' : IF p.type = "data" THEN p.tx = p.send ELSE p.tx \in Send /\ handed[p.tx] > 0
    <3>1. Data(ssess', tx[k], k, tries[k]).type = "data"
          /\ Data(ssess', tx[k], k, tries[k]).tx = Data(ssess', tx[k], k, tries[k]).send
      BY <1>2 DEF Data
    <3> QED BY <1>2, <3>1 DEF Transmits, Handed
  <2> QED BY <1>2, <2>1, <2>2 DEF Transmits, TypeOK, Handed, OkDelivered
<1>3. ASSUME NEW k \in Send, TransmitFails(k), UNCHANGED <<acked, handed>>
      PROVE  Handed' /\ OkDelivered'
  BY <1>3 DEF TransmitFails, TypeOK, Handed, OkDelivered
<1>4. ASSUME NEW k \in Send, FirstSend(k) PROVE Numbered' /\ Handed' /\ OkDelivered'
  <2>1. tx[k] = k
    BY <1>4 DEF FirstSend, Fresh, Numbered, TypeOK, Send
  <2>2. Numbered'
    BY <1>4, <2>1, SMTT(30) DEF FirstSend, Numbered, Registered, Cleared, TransmitFails
  <2> QED BY <1>2, <1>3, <1>4, <2>1, <2>2 DEF FirstSend
<1>5. ASSUME NEW k \in Send, Resend(k) PROVE Numbered' /\ Handed' /\ OkDelivered'
  <2>1. tx[k] = k
    BY <1>5 DEF Resend, Fresh, Numbered, TypeOK, Send
  <2>2. Numbered'
    BY <1>5, <2>1 DEF Resend, Numbered, Cleared, TransmitFails
  <2> QED BY <1>2, <1>3, <1>5, <2>1, <2>2 DEF Resend
<1>6. ASSUME NEW k \in Send, GivesUp(k) PROVE Numbered' /\ Handed' /\ OkDelivered'
  BY <1>6 DEF GivesUp, TypeOK, Numbered, Handed, OkDelivered, Cleared, recvVars
<1>7. ASSUME NEW k \in Send, Returns(k) PROVE Numbered' /\ Handed' /\ OkDelivered'
  BY <1>7 DEF Returns, TypeOK, Numbered, Handed, OkDelivered, recvVars, sessVars
<1>8. ASSUME NEW p \in net, ReceiveData(p) PROVE Numbered' /\ Handed' /\ OkDelivered'
  <2>1. p.send \in Send /\ p.tx = p.send /\ p.tx \in TxId
    BY <1>8, PacketFields DEF ReceiveData, TypeOK, Handed
  <2>2. handed' \in [Send -> Nat] /\ handed'[p.send] > 0 /\ \A k \in Send : handed[k] > 0 => handed'[k] > 0
    <3>1. CASE <<rgen, p.tx>> \in delivered
      BY <1>8, <2>1, <3>1 DEF ReceiveData, Handed, TypeOK
    <3>2. CASE <<rgen, p.tx>> \notin delivered
      BY <1>8, <2>1, <3>2 DEF ReceiveData, TypeOK
    <3> QED BY <3>1, <3>2
  <2>3. Numbered'
    BY <1>8 DEF ReceiveData, Numbered, sendVars, sessVars
  <2>4. \A q \in net' : IF q.type = "data" THEN q.tx = q.send ELSE q.tx \in Send /\ handed'[q.tx] > 0
    <3>1. Ack(rsess, p.tx, p.copy).type = "ack" /\ Ack(rsess, p.tx, p.copy).tx = p.tx
      BY DEF Ack
    <3> QED BY <1>8, <2>1, <2>2, <3>1 DEF ReceiveData, Handed
  <2>5. \A d \in delivered' : d[2] \in Send /\ handed'[d[2]] > 0
    BY <1>8, <2>1, <2>2 DEF ReceiveData, Handed
  <2>6. UNCHANGED <<st, acked>>
    BY <1>8 DEF ReceiveData, sendVars
  <2> QED BY <2>2, <2>3, <2>4, <2>5, <2>6 DEF Handed, OkDelivered
<1>9. ASSUME NEW p \in net, ReceiveAck(p) PROVE Numbered' /\ Handed' /\ OkDelivered'
  <2>1. p.tx \in Send /\ handed[p.tx] > 0
    BY <1>9 DEF ReceiveAck, Handed
  <2>2. \A k \in Send : acked'[k] => handed[k] > 0
    <3> SUFFICES ASSUME NEW k \in Send, acked'[k] PROVE handed[k] > 0
      OBVIOUS
    <3>1. acked[k] \/ \E e \in pending : e.tx = p.tx /\ e.send = k
      BY <1>9, ZenonT(30) DEF ReceiveAck
    <3> QED BY <2>1, <3>1 DEF Handed, Numbered
  <2> QED BY <1>9, <2>2 DEF ReceiveAck, Numbered, Handed, OkDelivered, recvVars, sessVars
<1>10. ASSUME NEW p \in net, Lose(p) PROVE Numbered' /\ Handed' /\ OkDelivered'
  BY <1>10 DEF Lose, Numbered, Handed, OkDelivered, sendVars, recvVars, sessVars
<1>11. CASE ReceiverDials
  BY <1>11 DEF ReceiverDials, Numbered, Handed, OkDelivered, sendVars, recvVars
<1>12. CASE SenderLosesSession
  BY <1>12 DEF SenderLosesSession, Numbered, Handed, OkDelivered, sendVars, recvVars
<1>13. CASE ReceiverLosesSession
  BY <1>13 DEF ReceiverLosesSession, Numbered, Handed, OkDelivered, sendVars, recvVars
<1>14. ~Restart
  BY DEF Restart, Numbered
<1>15. CASE UNCHANGED vars
  BY <1>15 DEF vars, Numbered, Handed, OkDelivered, sendVars, recvVars, sessVars
<1> QED BY <1>1, <1>4, <1>5, <1>6, <1>7, <1>8, <1>9, <1>10, <1>11, <1>12, <1>13, <1>14, <1>15
     DEF Next, SendStep

\* The invariant of every behaviour: what is above, until the sender restarts.
UntilRestart == Typed /\ (restarts = 0 => Means)

\* A restart is never undone.
LEMMA RestartsGrow == ASSUME TypeOK, [Next]_vars, restarts' = 0 PROVE restarts = 0
<1>1. restarts' = restarts \/ Restart
  BY ZenonT(30)
  DEF Next, SendStep, Begin, FirstSend, Resend, GivesUp, Returns, ReceiveData, ReceiveAck, Lose,
      ReceiverDials, SenderLosesSession, ReceiverLosesSession, vars, sessVars
<1> QED BY <1>1, SMTT(30) DEF Restart, TypeOK

\* So an ACK is evidence of a delivery until the sender restarts.
LEMMA AlwaysUntilRestart == ASSUME TxIdsSuffice PROVE Spec => []UntilRestart
<1>1. Init => UntilRestart
  BY TypedInit, MeansInit DEF UntilRestart
<1>2. UntilRestart /\ [Next]_vars => UntilRestart'
  <2> SUFFICES ASSUME UntilRestart, [Next]_vars PROVE Typed' /\ (restarts' = 0 => Means')
    BY DEF UntilRestart
  <2>1. Typed'
    BY TypedNext DEF UntilRestart
  <2>2. ASSUME restarts' = 0 PROVE Means'
    BY <2>2, RestartsGrow, MeansNext DEF UntilRestart, Typed
  <2> QED BY <2>1, <2>2
<1> QED BY <1>1, <1>2, PTL DEF Spec

\* Over any number of reconnects and lost, reordered or repeated packets: when
\* send() returns Ok the peer's handler was given the block, as long as the
\* sender has not restarted and its tx_ids have not wrapped.
THEOREM AckMeansDelivered ==
    ASSUME TxIdsSuffice PROVE Spec => []AckedIsDelivered
<1>1. UntilRestart => AckedIsDelivered
  BY DEF UntilRestart, Means, OkDelivered, AckedIsDelivered
<1> QED BY <1>1, AlwaysUntilRestart, PTL

-----------------------------------------------------------------------------
(* Deduplication.  Until a session is replaced, the generation is 0 and      *)
(* every block handed on is remembered.                                      *)

Remembered ==
    /\ rsess \in {0, 1} /\ rgen = 0
    /\ \A k \in Send : handed[k] <= 1 /\ (handed[k] = 1 => <<0, k>> \in delivered)

InSession == sessions >= 1 /\ (restarts = 0 /\ sessions = 1 => Remembered)

\* A step opens at most one DTLS session.
LEMMA SessionsGrow == [Next]_vars => sessions' = sessions \/ sessions' = sessions + 1
BY ZenonT(30)
DEF Next, SendStep, Begin, FirstSend, Resend, GivesUp, Returns, ReceiveData, ReceiveAck, Lose,
    ReceiverDials, SenderDials, Transmits, TransmitFails, SenderLosesSession, ReceiverLosesSession,
    Restart, vars, sessVars

\* While the first session lasts, the receiver forgets no block it has handed up.
LEMMA RememberedNext ==
    ASSUME Means, Remembered, sessions = 1, [Next]_vars, restarts' = 0, sessions' = 1
    PROVE  Remembered'
<1>1. ~SenderDials /\ ~ReceiverDials /\ ~Restart
  BY DEF SenderDials, ReceiverDials, Restart, Means, Typed, TypeOK
<1>2. ASSUME UNCHANGED <<rgen, delivered, handed>>, rsess' \in {0, rsess} PROVE Remembered'
  BY <1>2, SMTT(30) DEF Remembered
<1>3. ASSUME NEW k \in Send, SendStep(k) PROVE Remembered'
  BY <1>1, <1>2, <1>3 DEF SendStep, Begin, FirstSend, Resend, GivesUp, Returns, Transmits, TransmitFails,
         recvVars, sessVars
<1>4. ASSUME NEW p \in net, ReceiveData(p) PROVE Remembered'
  <2>1. p.send \in Send /\ p.tx = p.send
    BY <1>4, PacketFields DEF ReceiveData, Means, Typed, TypeOK, Handed
  <2>2. CASE <<rgen, p.tx>> \in delivered
    BY <1>4, <2>1, <2>2 DEF ReceiveData, Remembered, sessVars
  <2>3. CASE <<rgen, p.tx>> \notin delivered
    <3>1. handed[p.send] = 0
      BY <2>1, <2>3 DEF Remembered, Means, Typed, TypeOK
    <3> QED BY <1>4, <2>1, <2>3, <3>1 DEF ReceiveData, Remembered, Means, Typed, TypeOK, sessVars
  <2> QED BY <2>2, <2>3
<1>5. ASSUME NEW p \in net, ReceiveAck(p) \/ Lose(p) PROVE Remembered'
  BY <1>2, <1>5 DEF ReceiveAck, Lose, recvVars, sessVars
<1>6. CASE SenderLosesSession \/ ReceiverLosesSession
  BY <1>2, <1>6 DEF SenderLosesSession, ReceiverLosesSession, recvVars
<1>7. CASE UNCHANGED vars
  BY <1>2, <1>7 DEF vars, recvVars, sessVars
<1> QED BY <1>1, <1>3, <1>4, <1>5, <1>6, <1>7 DEF Next

\* Within one session, a block reaches the peer's handler at most once however
\* often it is sent and whichever ACKs are lost.  A session replaced in the
\* middle of a send may hand it up again.
THEOREM HandedOnce ==
    ASSUME TxIdsSuffice PROVE Spec => []NoRedeliveryInSession
<1>1. Init => InSession
  BY DEF Init, InSession, Remembered
<1>2. UntilRestart /\ InSession /\ [Next]_vars => InSession'
  <2> SUFFICES ASSUME UntilRestart, InSession, [Next]_vars PROVE InSession'
    OBVIOUS
  <2>1. sessions' >= 1 /\ (sessions' = 1 => sessions = 1)
    BY SessionsGrow DEF UntilRestart, Typed, TypeOK, InSession
  <2>2. ASSUME restarts' = 0, sessions' = 1 PROVE Remembered'
    <3>1. restarts = 0 /\ sessions = 1
      BY <2>1, <2>2, RestartsGrow DEF UntilRestart, Typed
    <3> QED BY <2>2, <3>1, RememberedNext DEF UntilRestart, InSession
  <2> QED BY <2>1, <2>2 DEF InSession
<1>3. InSession => NoRedeliveryInSession
  BY ZenonT(30) DEF InSession, Remembered, NoRedeliveryInSession, NoRedelivery
<1> QED BY <1>1, <1>2, <1>3, AlwaysUntilRestart, PTL DEF Spec

=============================================================================
