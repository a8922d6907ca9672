------------------------------ MODULE RelayCalls ------------------------------
(***************************************************************************)
(* Clients behind a NAT reach one another through a relay. A client        *)
(* registers with Relay::Listen and refreshes with Relay::KeepAlive; to    *)
(* send, a caller asks for a channel with Relay::Call and wraps its        *)
(* packets for that channel. At the relay every inbound message runs the   *)
(* engine's DTLS callback, which leaves the sender's address and the       *)
(* request's tag in the Router, and then a handler in a thread of its own, *)
(* which reads them back. All handlers of a relay share one Router.        *)
(***************************************************************************)
EXTENDS Integers, FiniteSets, Sequences, Functions

CONSTANTS
    Clients,    \* accounts behind a NAT
    Channels,   \* channel numbers the relay may allocate
    MaxMoves,   \* bound on the addresses a NAT gives one client
    Worlds,     \* what is asked of the relay and what disturbs it
    None        \* no address, tag, channel or answer

Relay == "relay"        \* the relay itself, when it sends to a client of its own
Uplink == "uplink"      \* another relay, through which this one calls
Addresses == (Clients \cup {Uplink}) \X (0 .. MaxMoves)
Kinds == {"listen", "call", "direct"}

ASSUME RelayAssumption ==
    /\ Clients \cap {Relay, Uplink} = {} /\ MaxMoves \in Nat
    /\ None \notin Channels \cup Addresses
    /\ \A w \in Worlds : /\ w.max \in Nat
                         /\ \A i \in DOMAIN w.jobs : w.jobs[i].kind \in Kinds

VARIABLES
    world,      \* the jobs of the clients and the disturbances
    faults,     \* disturbances so far
    addr,       \* per client: the public address its NAT gives it now
    job,        \* per job: where its caller is, its channel
    pending,    \* Engine.pending_responses: what has come in for each tag waited for
    failing,    \* per client: its last send to the relay failed (SEND_FAIL_BACKOFF)
    known,      \* clients whose TURN handler accepts packets of the relay
    id2a, a2id, \* the relay's allowed_id_to_addr and allowed_addr_to_id
    c2p, p2c,   \* the relay's ch_to_pair and pair_to_ch
    last,       \* Router.last_from and Router.last_response_tag of the relay
    th,         \* per message at the relay: the progress of its callback and handler
    resp,       \* answers under way to an address
    wire,       \* TURN packets under way
    heard,      \* per job: which ends have received the other's packet
    strays      \* <<job, client>> for packets a client got that were not for it

relayVars == <<id2a, a2id, c2p, p2c, last>>
clientVars == <<addr, job, pending, failing, known>>
vars == <<world, faults, relayVars, clientVars, th, resp, wire, heard, strays>>

Jobs == DOMAIN world.jobs
Who(j) == world.jobs[j].who
Kind(j) == world.jobs[j].kind
Callee(j) == world.jobs[j].to
\* A message at the relay is the request of a job, or a KeepAlive of a client.
Messages == Jobs \cup Clients
Sender(m) == IF m \in Jobs THEN Who(m) ELSE m
\* The tag of a request is new for every try; no answer is under way when a job is tried again.
Tag(m) == IF m \in Jobs THEN m ELSE None

Fault(kind) == /\ kind \in world.faults /\ faults < world.max
               /\ faults' = faults + 1

Idle == [pc |-> "none", from |-> None, tag |-> None, src |-> None, dest |-> None, ch |-> None]
NewRouter == [from |-> None, tag |-> None]
Empty == [x \in {} |-> None]
With(f, x, v) == [y \in DOMAIN f \cup {x} |-> IF y = x THEN v ELSE f[y]]

Init ==
    /\ world \in Worlds
    /\ faults = 0
    /\ addr = [c \in Clients |-> <<c, 0>>]
    /\ job = [j \in Jobs |-> [pc |-> "new", ch |-> None]]
    /\ pending = Empty /\ failing = {} /\ known = {}
    /\ id2a = Empty /\ a2id = Empty /\ c2p = Empty /\ p2c = Empty
    /\ last = NewRouter
    /\ th = [m \in Messages |-> Idle]
    /\ resp = {} /\ wire = {} /\ strays = {}
    /\ heard = [j \in Jobs |-> {}]

----
(* A request and its answer, at the client *)

\* In an orderly world nobody calls before all have listened.
Turn(j) ==
    world.orderly /\ Kind(j) # "listen" =>
        \A i \in Jobs : Kind(i) = "listen" => job[i].pc = "done"
Move(j, pc) == job' = [job EXCEPT ![j].pc = pc]
Inbox(m, c) == [Idle EXCEPT !.pc = "inbox", !.from = addr[c], !.tag = Tag(m)]

\* send_message_to_network_with_response_timeout, send_to_peer: the waiter is registered, the
\* request is tagged and sent; a relay whose last send failed a moment ago is not tried.
Request(j) ==
    /\ job[j].pc = "new" /\ Kind(j) # "direct" /\ Turn(j)
    /\ Who(j) \notin failing /\ th[j] = Idle
    /\ pending' = With(pending, Tag(j), None)
    /\ th' = [th EXCEPT ![j] = Inbox(j, Who(j))]
    /\ Move(j, "wait")
    /\ UNCHANGED <<world, faults, relayVars, addr, failing, known, resp, wire, heard, strays>>

\* The waiter of a request that could not be sent stays in pending_responses.
SendFails(j) ==
    /\ job[j].pc = "new" /\ Kind(j) # "direct" /\ Turn(j)
    /\ \/ Who(j) \in failing /\ UNCHANGED <<failing, faults>>
       \/ Fault("unsent") /\ failing' = failing \cup {Who(j)}
    /\ pending' = With(pending, Tag(j), None)
    /\ Move(j, "err")
    /\ UNCHANGED <<world, relayVars, addr, known, th, resp, wire, heard, strays>>

BackoffEnds(c) ==
    /\ c \in failing /\ failing' = failing \ {c}
    /\ UNCHANGED <<world, faults, relayVars, addr, job, pending, known, th, resp, wire, heard, strays>>

\* Variant: a response goes to whoever waits for an answer of the relay.
AllWaiters(r) == {t \in DOMAIN pending : addr[Who(t)] = r.to}
Waiters(r) == {t \in {r.tag} \cap DOMAIN pending : addr[Who(t)] = r.to}
\* install_dtls_handler at the client: a response goes to the waiter of its tag or is dropped;
\* a message from the relay shows that it can be reached.
Response(r) ==
    /\ r \in resp /\ resp' = resp \ {r}
    /\ pending' = [t \in DOMAIN pending |-> IF t \in Waiters(r) THEN r ELSE pending[t]]
    /\ failing' = {x \in failing : addr[x] # r.to}
    /\ UNCHANGED <<world, faults, relayVars, addr, job, known, th, wire, heard, strays>>

Forget(f, x) == Restrict(f, DOMAIN f \ {x})
AdmitsRelay(c) == known \cup {c}
Expected(j) == IF Kind(j) = "listen" THEN "ListenResponse" ELSE "RelayResponse"
\* wait_for_response_static returns an answer; RelayClient::call and send_relay_listen look at
\* its type, then turn_handle_call_response or handle_listen_response admits the relay.
Answered(j) ==
    /\ job[j].pc = "wait" /\ pending[Tag(j)] # None
    /\ pending' = Forget(pending, Tag(j))
    /\ LET r == pending[Tag(j)]
           ok == r.type = Expected(j) IN
       /\ job' = [job EXCEPT ![j].pc = IF ~ok THEN "err" ELSE IF Kind(j) = "listen" THEN "done" ELSE "ok",
                             ![j].ch = IF ok THEN r.ch ELSE None]
       /\ known' = IF ok THEN AdmitsRelay(Who(j)) ELSE known
    /\ UNCHANGED <<world, faults, relayVars, addr, failing, th, resp, wire, heard, strays>>

\* Nothing more is on its way for the request.
Quiet(j) == th[j] = Idle /\ \A r \in resp : r.tag # Tag(j)
\* The wait ends without an answer, and takes its waiter with it.
Timeout(j) ==
    /\ job[j].pc = "wait" /\ pending[Tag(j)] = None
    /\ \/ Quiet(j) /\ UNCHANGED faults
       \/ ~Quiet(j) /\ Fault("late")
    /\ pending' = Forget(pending, Tag(j))
    /\ Move(j, "err")
    /\ UNCHANGED <<world, relayVars, addr, failing, known, th, resp, wire, heard, strays>>

\* The caller tries again, seconds later, under a new tag.
Rest == resp = {} /\ wire = {} /\ \A m \in Messages : th[m] = Idle
Retry(j) ==
    /\ job[j].pc \in {"err", "sent"} /\ Rest
    /\ job' = [job EXCEPT ![j] = [pc |-> "new", ch |-> None]]
    /\ UNCHANGED <<world, faults, relayVars, addr, pending, failing, known, th, resp, wire, heard, strays>>

Registered(c) == c \in DOMAIN id2a /\ id2a[c] = addr[c]
\* RelayKeepAlive sends while the client listens. A tick that would change nothing at the relay
\* is left out, except as a disturbance.
KeepAlive(c) ==
    /\ \E j \in Jobs : Who(j) = c /\ Kind(j) = "listen" /\ job[j].pc = "done"
    /\ c \notin failing /\ th[c] = Idle
    /\ \/ /\ IF Registered(c) THEN Fault("tick") ELSE UNCHANGED faults
          /\ th' = [th EXCEPT ![c] = Inbox(c, c)] /\ UNCHANGED failing
       \/ /\ ~Registered(c) /\ Fault("unsent")
          /\ failing' = failing \cup {c} /\ UNCHANGED th
    /\ UNCHANGED <<world, relayVars, addr, job, pending, known, resp, wire, heard, strays>>

\* The NAT gives the client an address nobody had before.
NatRebind(c) ==
    /\ addr[c][2] < MaxMoves /\ Fault("move")
    /\ addr' = [addr EXCEPT ![c] = <<c, @[2] + 1>>]
    /\ UNCHANGED <<world, relayVars, job, pending, failing, known, th, resp, wire, heard, strays>>

----
(* The callback of an inbound message, and its handler, at the relay *)

Busy(m) == th[m].pc \notin {"none", "inbox"}
Alone(m) == \A i \in Messages \ {m} : ~Busy(i)
Step(m, pc) == th' = [th EXCEPT ![m].pc = pc]
Done(m) == th' = [th EXCEPT ![m] = Idle]
Answer(m, type) ==
    [to |-> th[m].from, tag |-> last.tag, type |-> type, ch |-> th[m].ch, for |-> th[m].tag]

\* An account the chain does not know is refused, by name of its tag.
Refuse(m) ==
    /\ th[m].pc = "inbox" /\ Fault("unknown")
    /\ resp' = IF th[m].tag = None THEN resp
               ELSE resp \cup {[Answer(m, "fail") EXCEPT !.tag = th[m].tag]}
    /\ Done(m)
    /\ UNCHANGED <<world, relayVars, clientVars, wire, heard, strays>>

FromOf(m) == th[m].from
\* set_last_from. Two messages handled at once is a disturbance.
CallbackFrom(m) ==
    /\ th[m].pc = "inbox"
    /\ IF Alone(m) THEN UNCHANGED faults ELSE Fault("overlap")
    /\ last' = [last EXCEPT !.from = FromOf(m)]
    /\ Step(m, "from")
    /\ UNCHANGED <<world, id2a, a2id, c2p, p2c, clientVars, resp, wire, heard, strays>>

\* set_last_response_tag, then the router spawns the handler.
CallbackTag(m) ==
    /\ th[m].pc = "from"
    /\ last' = [last EXCEPT !.tag = th[m].tag]
    /\ Step(m, "start")
    /\ UNCHANGED <<world, faults, id2a, a2id, c2p, p2c, clientVars, resp, wire, heard, strays>>

\* A message that reached the relay over a channel of another relay has no address of its own.
CallbackRelayed ==
    /\ Fault("relayed")
    /\ last' = NewRouter
    /\ UNCHANGED <<world, id2a, a2id, c2p, p2c, clientVars, th, resp, wire, heard, strays>>

IsCall(m) == m \in Jobs /\ Kind(m) = "call"
\* No source address, or a callee that is not registered.
GivesUp(m) == last.from = None \/ (IsCall(m) /\ Callee(m) \notin DOMAIN id2a)
\* on_relay_listen, on_relay_keep_alive and on_relay_call take the source from the Router; one
\* that gives up does not answer.
ReadFrom(m) ==
    /\ th[m].pc = "start"
    /\ IF GivesUp(m)
       THEN Done(m)
       ELSE th' = [th EXCEPT ![m].src = last.from,
                             ![m].dest = IF IsCall(m) THEN id2a[Callee(m)] ELSE None,
                             ![m].pc = IF IsCall(m) THEN "pair" ELSE "register"]
    /\ UNCHANGED <<world, faults, relayVars, clientVars, resp, wire, heard, strays>>

\* handle_listen
Register(m) ==
    /\ id2a' = With(id2a, Sender(m), th[m].src)
    /\ a2id' = With(a2id, th[m].src, Sender(m))
\* on_relay_keep_alive is fire and forget.
HasResponse(m) == m \in Jobs
HandleListen(m) ==
    /\ th[m].pc = "register"
    /\ Register(m)
    /\ IF HasResponse(m) THEN Step(m, "answer") ELSE Done(m)
    /\ UNCHANGED <<world, faults, c2p, p2c, last, clientVars, resp, wire, heard, strays>>

Pair(m) == <<th[m].src, th[m].dest>>
\* Variant: a channel to the destination will do.
SameDestination(m) == {p2c[pair] : pair \in {q \in DOMAIN p2c : q[2] = th[m].dest}}
ChannelsOf(m) == {p2c[pair] : pair \in {Pair(m)} \cap DOMAIN p2c}
\* handle_call: the pair's channel, if it has one.
FindChannel(m) ==
    /\ th[m].pc = "pair"
    /\ \/ \E ch \in ChannelsOf(m) : th' = [th EXCEPT ![m].ch = ch, ![m].pc = "called"]
       \/ ChannelsOf(m) = {} /\ Step(m, "alloc")
    /\ UNCHANGED <<world, faults, relayVars, clientVars, resp, wire, heard, strays>>

FreeChannels == Channels \ DOMAIN c2p
\* alloc_channel: a free number, from a random start; none free ends the call without an answer.
AllocChannel(m) ==
    /\ th[m].pc = "alloc"
    /\ \/ FreeChannels = {} /\ Done(m)
       \/ \E ch \in FreeChannels : th' = [th EXCEPT ![m].ch = ch, ![m].pc = "insert"]
    /\ UNCHANGED <<world, faults, relayVars, clientVars, resp, wire, heard, strays>>

\* An address that nobody is registered at is registered for the account.
Admit(maps, c, a) ==
    IF a \in DOMAIN maps.a2id THEN maps
    ELSE [id2a |-> With(maps.id2a, c, a), a2id |-> With(maps.a2id, a, c)]
InsertChannel(m) ==
    /\ th[m].pc = "insert"
    /\ c2p' = With(c2p, th[m].ch, Pair(m))
    /\ p2c' = With(p2c, Pair(m), th[m].ch)
    /\ LET maps == Admit(Admit([id2a |-> id2a, a2id |-> a2id], Sender(m), th[m].src),
                         Callee(m), th[m].dest) IN
       id2a' = maps.id2a /\ a2id' = maps.a2id
    /\ Step(m, "called")
    /\ UNCHANGED <<world, faults, last, clientVars, resp, wire, heard, strays>>

\* RelayCalled is sent to the callee; the channel it records there is never looked at.
NotifyCalled(m) ==
    /\ th[m].pc = "called"
    /\ Step(m, "answer")
    /\ UNCHANGED <<world, faults, relayVars, clientVars, resp, wire, heard, strays>>

\* The response echoes the Router's last tag and goes back the way the request came. One without
\* a tag has no waiter.
Respond(m) ==
    /\ th[m].pc = "answer"
    /\ resp' = IF last.tag = None THEN resp ELSE resp \cup {Answer(m, Expected(m))}
    /\ Done(m)
    /\ UNCHANGED <<world, faults, relayVars, clientVars, wire, heard, strays>>

LoseResponse(r) ==
    /\ r \in resp /\ Fault("lost") /\ resp' = resp \ {r}
    /\ UNCHANGED <<world, relayVars, clientVars, th, wire, heard, strays>>

\* The relay is stopped and started again: all its maps are new, what it was doing is gone.
Restart ==
    /\ Fault("restart")
    /\ id2a' = Empty /\ a2id' = Empty /\ c2p' = Empty /\ p2c' = Empty /\ last' = NewRouter
    /\ th' = [m \in Messages |-> Idle]
    /\ UNCHANGED <<world, clientVars, resp, wire, heard, strays>>

----
(* Packets on a channel *)

Packet(dir, a, ch, j, msg) == [dir |-> dir, addr |-> a, ch |-> ch, job |-> j, msg |-> msg]

\* The caller wraps its packet for the channel (send_over_dtls).
SendOnChannel(j) ==
    /\ job[j].pc = "ok"
    /\ wire' = wire \cup {Packet("up", addr[Who(j)], job[j].ch, j, "ask")}
    /\ Move(j, "sent")
    /\ UNCHANGED <<world, faults, relayVars, addr, pending, failing, known, th, resp, heard, strays>>

\* handle_turn_incoming: a packet that does not come from the source of the channel is taken to
\* come from its destination. A packet on no channel goes back to a registered sender.
PeerOf(p) ==
    LET pair == c2p[p.ch] IN
    IF p.addr # pair[1] THEN pair[1] ELSE pair[2]
\* Variant: every packet goes to the destination of its channel.
ToDestination(p) == IF p.ch \in DOMAIN c2p THEN {c2p[p.ch][2]} \cap DOMAIN a2id ELSE {}
Forwards(p) ==
    IF p.ch \in DOMAIN c2p
    THEN {PeerOf(p) : a \in {c2p[p.ch][2]} \cap DOMAIN a2id} \ {<<Uplink, 0>>}
    ELSE {p.addr} \cap DOMAIN a2id
RelayPacket(p) ==
    /\ p \in wire /\ p.dir = "up"
    /\ wire' = (wire \ {p}) \cup {[p EXCEPT !.dir = "down", !.addr = a] : a \in Forwards(p)}
    /\ UNCHANGED <<world, faults, relayVars, clientVars, th, resp, heard, strays>>

\* The client at the address takes the packet if it knows the relay. The one it is for answers
\* on the channel it came by; for another its payload belongs to no session.
DeliverPacket(p) ==
    /\ p \in wire /\ p.dir = "down"
    /\ LET j == p.job
           end == IF p.msg = "ask" THEN Callee(j) ELSE Who(j)
           at == {c \in known : addr[c] = p.addr}
           mine == end \in at
           answer == IF mine /\ p.msg = "ask"
                     THEN {Packet("up", addr[end], p.ch, j, "answer")} ELSE {} IN
       /\ wire' = (wire \ {p}) \cup answer
       /\ heard' = [heard EXCEPT ![j] = IF mine THEN @ \cup {end} ELSE @]
       /\ strays' = strays \cup {<<j, c>> : c \in at \ {Who(j), Callee(j)}}
       /\ job' = IF mine /\ p.msg = "answer" /\ job[j].pc = "sent"
                 THEN [job EXCEPT ![j].pc = "done"] ELSE job
    /\ UNCHANGED <<world, faults, relayVars, addr, pending, failing, known, th, resp>>

LosePacket(p) ==
    /\ p \in wire /\ Fault("drop") /\ wire' = wire \ {p}
    /\ UNCHANGED <<world, relayVars, clientVars, th, resp, heard, strays>>

\* The relay sends to a client of its own at the address it is registered under.
SendDirect(j) ==
    /\ Kind(j) = "direct" /\ job[j].pc = "new" /\ Turn(j)
    /\ LET ok == Callee(j) \in DOMAIN id2a /\ id2a[Callee(j)] = addr[Callee(j)] IN
       /\ Move(j, IF ok THEN "done" ELSE "err")
       /\ heard' = [heard EXCEPT ![j] = IF ok THEN {Callee(j)} ELSE @]
    /\ UNCHANGED <<world, faults, relayVars, addr, pending, failing, known, th, resp, wire, strays>>

\* The relay is a caller at another relay, which gave it a channel number of its own choosing:
\* handle_call_response writes it into the same map.
CallUplink(ch) ==
    /\ Fault("uplink")
    /\ LET u == <<Uplink, 0>> IN
       /\ c2p' = With(c2p, ch, <<u, u>>) /\ p2c' = With(p2c, <<u, u>>, ch)
       /\ id2a' = With(id2a, Uplink, u) /\ a2id' = With(a2id, u, Uplink)
    /\ UNCHANGED <<world, last, clientVars, th, resp, wire, heard, strays>>

JobStep(j) == \/ Request(j) \/ SendFails(j) \/ Answered(j) \/ Timeout(j) \/ Retry(j)
              \/ SendOnChannel(j) \/ SendDirect(j)
ClientStep(c) == BackoffEnds(c) \/ KeepAlive(c) \/ NatRebind(c)
Handle(m) == \/ Refuse(m) \/ CallbackFrom(m) \/ CallbackTag(m) \/ ReadFrom(m) \/ HandleListen(m)
             \/ FindChannel(m) \/ AllocChannel(m) \/ InsertChannel(m) \/ NotifyCalled(m) \/ Respond(m)
Network == \/ \E r \in resp : Response(r) \/ LoseResponse(r)
           \/ \E p \in wire : RelayPacket(p) \/ DeliverPacket(p) \/ LosePacket(p)
Next == \/ \E j \in Jobs : JobStep(j)
        \/ \E c \in Clients : ClientStep(c)
        \/ \E m \in Messages : Handle(m)
        \/ Network \/ CallbackRelayed \/ Restart
        \/ \E ch \in Channels : CallUplink(ch)

Spec == Init /\ [][Next]_vars
MaxJobs == 4
Fairness ==
    /\ \A i \in 1 .. MaxJobs : /\ WF_vars(i \in Jobs /\ JobStep(i))
                              /\ SF_vars(i \in Jobs /\ Retry(i))
                              /\ WF_vars(i \in Jobs /\ Handle(i))
    /\ \A c \in Clients : /\ WF_vars(BackoffEnds(c)) /\ WF_vars(KeepAlive(c))
                          /\ WF_vars(Handle(c))
    /\ WF_vars(Network)
FairSpec == Spec /\ Fairness

----
\* The state of clients and relay.
TypeOK ==
    /\ world \in Worlds /\ faults \in 0 .. world.max
    /\ addr \in [Clients -> Addresses]
    /\ \A j \in Jobs : job[j].pc \in {"new", "wait", "err", "ok", "sent", "done"}
                       /\ job[j].ch \in Channels \cup {None}
    /\ DOMAIN pending \subseteq Jobs /\ failing \subseteq Clients /\ known \subseteq Clients
    /\ DOMAIN id2a \subseteq Clients \cup {Uplink} /\ DOMAIN a2id \subseteq Addresses
    /\ DOMAIN c2p \subseteq Channels /\ DOMAIN p2c \subseteq Addresses \X Addresses
    /\ \A m \in Messages : th[m].ch \in Channels \cup {None}

Calm(kinds) == world.faults \cap kinds = {}

Agree ==
    /\ \A pair \in DOMAIN p2c : p2c[pair] \in DOMAIN c2p /\ c2p[p2c[pair]] = pair
    /\ \A ch \in DOMAIN c2p : c2p[ch] \in DOMAIN p2c /\ p2c[c2p[ch]] = ch
\* handle_call: the two maps of the channels of a relay are inverses of one another, unless two
\* calls are allocated at once or the relay calls through another relay.
MapsAgree == Calm({"overlap", "uplink"}) => Agree

\* A packet on a channel never reaches a client that is neither its caller nor its callee, unless
\* two messages were handled at once or the relay forgot its channels: not when a NAT gives
\* either of them a new address, a packet is lost or a request is repeated.
NoCrosstalk == Calm({"overlap", "relayed", "restart", "uplink"}) => strays = {}

\* handle_listen records "the sender's id and address": no account is registered at an address
\* that is not its own, when the messages of the relay are handled one at a time.
RegistersSender ==
    Calm({"overlap", "relayed"}) =>
        \A x \in DOMAIN id2a \ {Uplink} : \E k \in 0 .. MaxMoves : id2a[x] = <<x, k>>

\* A waiter is given the answer to its own request, when messages are handled one at a time.
AnswersItsRequest ==
    Calm({"overlap", "relayed"}) =>
        \A t \in DOMAIN pending : pending[t] # None => pending[t].for = t

Exhausted == FreeChannels = {}
Over == \A j \in Jobs : job[j].pc = "done"
\* Every message gets through: whatever was lost, moved, restarted or mixed up at the relay, the
\* keep-alive and the caller's next call find a way, as long as the relay has a free channel and
\* no channel has been given to two pairs.
EventuallyReached == <>[](Over \/ Exhausted \/ ~Agree)

\* A client that listens ends up registered at the address it has.
EventuallyRegistered ==
    <>[](\A j \in Jobs : Kind(j) = "listen" /\ job[j].pc = "done" => Registered(Who(j)))

\* The channels of a relay keep its clients apart: a channel has one pair, and a packet on it
\* reaches nobody else.
ChannelsApart == TypeOK /\ MapsAgree /\ NoCrosstalk

\* The slots the Router and the waiters share (last_from, last_response_tag, pending) are used
\* for the message they were filled for.
SlotsMatch == RegistersSender /\ AnswersItsRequest

\* The clients of a relay are served in the end: who listens is registered where it is, and
\* every message gets through.
EventuallyServed == EventuallyReached /\ EventuallyRegistered

=============================================================================
