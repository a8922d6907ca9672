----------------------------- MODULE DtlsSessions -----------------------------
(***************************************************************************)
(* DTLS sessions between two nodes (DtlsOpenSsl) over their UDP sockets    *)
(* (UdpNetworkMux). Each node keeps one PeerState for the other. It is     *)
(* shared by the threads that call send, the thread that receives from the *)
(* socket, the threads that run an accepted stream, the reader of each     *)
(* stream, and the worker of each peer; each takes its lock for one action *)
(* of this module and finds it changed at the next.                        *)
(***************************************************************************)
EXTENDS Integers, Sequences, Functions

CONSTANTS
    Worlds,     \* who sends, how the tie-break sees the nodes, what disturbs them
    MaxRtx      \* bound on the retransmissions of a stream

Node == {1, 2}
Other(n) == 3 - n
None == 0
Placeholder == -1               \* a PeerWriter whose channel has no receiver
Stop == 0                       \* PeerCmd::Stop among the payloads of a worker

ASSUME DtlsAssumption ==
    /\ MaxRtx \in Nat
    /\ \A w \in Worlds : /\ w.at \in Seq(Node) /\ w.order \in {"free", "follow", "serial"}
                         /\ w.client \subseteq Node /\ w.hit \subseteq Node /\ w.max \in Nat

VARIABLES
    world,      \* the calls of send (payload i by node at[i]) and the disturbances
    ps,         \* per node: the PeerState of the other node
    qs,         \* the AsyncPeerQueues created
    st,         \* the SslStreams created, with their thread and their PeerWriter
    wk,         \* the peer workers, numbered as the stream they were created for
    snd,        \* per call of send: where it is, and its stream
    rx,         \* per node: handle_dtls_accept_packet between its critical sections
    wire,       \* per node: datagrams under way to it
    up,         \* per node: the socket is bound
    joining,    \* per node: reader threads that stop is waiting for
    got,        \* payloads handed to handle_message
    faults      \* disturbances so far

vars == <<world, ps, qs, st, wk, snd, rx, wire, up, joining, got, faults>>

Senders == DOMAIN world.at
Streams == DOMAIN st
At(s) == world.at[s]

----
(* PeerState, its queue and its worker *)

NewPeerState(gen, q) ==
    [gen |-> gen, writer |-> None, issuer |-> FALSE, q |-> q, worker |-> None,
     connecting |-> FALSE, logged |-> FALSE, ready |-> FALSE]
Absent == NewPeerState(-1, None)
Present(n) == ps[n] # Absent
NextGeneration(gen) == gen + 1

NewQueue == [open |-> TRUE, items |-> <<>>]
\* get_or_create_peer_state: the entry, and the queues with the one a new entry needs.
GetOrCreate(n) == IF Present(n) THEN ps[n] ELSE NewPeerState(0, Len(qs) + 1)
QueuesWith(n) == IF Present(n) THEN qs ELSE Append(qs, NewQueue)

\* close_peer_state: the worker is told to stop and the queue is closed.
Closed(p, queues) == IF p = Absent THEN queues ELSE [queues EXCEPT ![p.q].open = FALSE]
Stopped(p, workers) ==
    IF p.worker = None THEN workers ELSE [workers EXCEPT ![p.worker].cmds = Append(@, Stop)]
Remove(n) ==
    /\ ps' = [ps EXCEPT ![n] = Absent]
    /\ qs' = Closed(ps[n], qs) /\ wk' = Stopped(ps[n], wk)
\* take_peer_state_if_owner and close_peer_state.
RemoveIfOwner(n, gen) ==
    IF ps[n].gen = gen THEN Remove(n) ELSE UNCHANGED <<ps, qs, wk>>

NewStream(n, role, gen, q) ==
    [node |-> n, role |-> role, gen |-> gen, q |-> q, hs |-> "new", peer |-> None,
     thr |-> IF role = "client" THEN "send" ELSE "hs", rtx |-> 0,
     w |-> IF role = "client" THEN "direct" ELSE "dead"]
NewWorker(role) == [role |-> role, healthy |-> TRUE, cmds |-> <<>>, held |-> None]

Fault(kind) ==
    /\ kind \in world.faults /\ faults.n < world.max
    /\ faults' = [n |-> faults.n + 1, kinds |-> faults.kinds \cup {kind}]

Init ==
    /\ world \in Worlds
    /\ ps = [n \in Node |-> Absent]
    /\ qs = <<>> /\ st = <<>> /\ wk = <<>>
    /\ snd = [s \in DOMAIN world.at |-> [pc |-> "lookup", str |-> None]]
    /\ rx = [n \in Node |-> <<>>]
    /\ wire = [n \in Node |-> <<>>]
    /\ up = [n \in Node |-> TRUE]
    /\ joining = [n \in Node |-> {}]
    /\ got = {}
    /\ faults = [n |-> 0, kinds |-> {}]

----
(* The handshake, as far as the code in src/ relies on it: hello, the server's flight, the   *)
(* client's, the server's finish. Records of another session do not decrypt and are dropped. *)

Pkt(k, c, s, m) == [kind |-> k, c |-> c, s |-> s, data |-> m]
\* CommonNetworkMuxConn::write: nothing leaves a stream whose peer state was closed, or without
\* a socket.
CanWrite(i) == qs[st[i].q].open /\ up[st[i].node]
Emit(i, p) == wire' = [wire EXCEPT ![Other(st[i].node)] = Append(@, p)]

Handshaking(i) == st[i].hs \in {"new", "hello", "finish"}
Reading(i) ==
    \/ st[i].thr = "read"
    \/ st[i].thr = "hs" /\ Handshaking(i)
    \/ st[i].thr = "send" /\ st[i].hs \in {"hello", "finish"}
Readable(i) == Reading(i) /\ qs[st[i].q].items # <<>>

\* The reply of stream i to datagram p, its state after it, and what it delivers.
Reply(i, p) ==
    LET r == st[i] IN
    CASE r.role = "server" /\ p.kind = "CH" /\ (r.hs = "new" \/ (r.hs = "hello" /\ p.c = r.peer))
              -> [out |-> <<Pkt("SH", p.c, i, None)>>, hs |-> "hello", peer |-> p.c]
      [] r.role = "server" /\ p.kind = "SH" /\ r.hs = "new"
              -> [out |-> <<>>, hs |-> "failed", peer |-> None]
      [] r.role = "server" /\ p.kind = "CF" /\ p.s = i /\ r.hs \in {"hello", "done"}
              -> [out |-> <<Pkt("FIN", p.c, i, None)>>, hs |-> "done", peer |-> p.c]
      [] r.role = "client" /\ p.kind = "SH" /\ p.c = i /\ r.hs = "hello"
              -> [out |-> <<Pkt("CF", i, p.s, None)>>, hs |-> "finish", peer |-> p.s]
      [] r.role = "client" /\ r.hs = "hello" /\ (p.kind = "CH" \/ (p.kind = "SH" /\ p.c # i))
              -> [out |-> <<>>, hs |-> "failed", peer |-> None]
      [] r.role = "client" /\ p.kind = "FIN" /\ p.c = i /\ p.s = r.peer /\ r.hs = "finish"
              -> [out |-> <<>>, hs |-> "done", peer |-> r.peer]
      [] OTHER -> [out |-> <<>>, hs |-> r.hs, peer |-> r.peer]
Mine(i, p) ==
    /\ p.kind = "DATA"
    /\ IF st[i].role = "client" THEN p.c = i /\ p.s = st[i].peer ELSE p.s = i /\ p.c = st[i].peer

\* write_all of the first payload: the ClientHello goes out.
Hello(i) ==
    /\ st[i].thr = "send" /\ st[i].hs = "new"
    /\ IF CanWrite(i)
       THEN Emit(i, Pkt("CH", i, None, None)) /\ st' = [st EXCEPT ![i].hs = "hello"]
       ELSE st' = [st EXCEPT ![i].hs = "failed"] /\ UNCHANGED wire
    /\ UNCHANGED <<world, ps, qs, wk, snd, rx, up, joining, got, faults>>

\* poll_read of the queue by the thread of stream i: a step of the handshake, or application
\* data, handed on if the entry of the peer has an issuer.
Read(i) ==
    LET q == st[i].q
        p == Head(qs[q].items)
        a == Reply(i, p)
        sent == a.out = <<>> \/ CanWrite(i)
    IN  /\ Readable(i)
        /\ qs' = [qs EXCEPT ![q].items = Tail(@)]
        /\ st' = [st EXCEPT ![i].hs = IF sent \/ st[i].hs = "done" THEN a.hs ELSE "failed",
                            ![i].peer = a.peer,
                            ![i].thr = IF @ = "hs" /\ a.hs = "done" /\ sent THEN "log" ELSE @]
        /\ IF a.out # <<>> /\ CanWrite(i) THEN Emit(i, Head(a.out)) ELSE UNCHANGED wire
        /\ got' = IF st[i].thr = "read" /\ Mine(i, p) /\ Present(st[i].node)
                        /\ ps[st[i].node].issuer
                  THEN got \cup {p.data} ELSE got
        /\ UNCHANGED <<world, ps, wk, snd, rx, up, joining, faults>>

\* The verify callbacks see the peer's certificate with the server's flight, or the client's: no
\* CA in the chain, or the handler refuses it, and the handshake fails.
VerifyRefuses(i) ==
    LET p == Head(qs[st[i].q].items) IN
    /\ Readable(i) /\ st[i].hs = "hello"
    /\ IF st[i].role = "client" THEN p.kind = "SH" /\ p.c = i ELSE p.kind = "CF" /\ p.s = i
    /\ Fault("reject")
    /\ qs' = [qs EXCEPT ![st[i].q].items = Tail(@)]
    /\ st' = [st EXCEPT ![i].hs = "failed"]
    /\ UNCHANGED <<world, ps, wk, snd, rx, wire, up, joining, got>>

\* The queue is closed and drained: the handshake fails, the read loop sees the end.
Eof(i) ==
    /\ Reading(i) /\ ~qs[st[i].q].open /\ qs[st[i].q].items = <<>>
    /\ st' = IF st[i].thr = "read" THEN [st EXCEPT ![i].thr = "clean"]
             ELSE [st EXCEPT ![i].hs = "failed"]
    /\ UNCHANGED <<world, ps, qs, wk, snd, rx, wire, up, joining, got, faults>>

----
(* run_accept_stream and run_read_loop_split *)

Thread(i, pc) == st' = [st EXCEPT ![i].thr = pc]

\* Step 1 failed, or step 3 refused the certificate or step 5 had no thread.
AcceptFails(i) ==
    /\ \/ st[i].thr = "hs" /\ st[i].hs = "failed" /\ UNCHANGED faults
       \/ st[i].thr = "cert" /\ Fault("reject")
    /\ RemoveIfOwner(st[i].node, st[i].gen) /\ Thread(i, "off")
    /\ UNCHANGED <<world, snd, rx, wire, up, joining, got>>

\* Step 2: whichever entry is there is marked.
AcceptLog(i) ==
    /\ st[i].thr = "log" /\ Thread(i, "cert")
    /\ ps' = IF Present(st[i].node) THEN [ps EXCEPT ![st[i].node].logged = TRUE] ELSE ps
    /\ UNCHANGED <<world, qs, wk, snd, rx, wire, up, joining, got, faults>>

\* Step 3: the issuer is recorded in the entry that is there, or in a new one.
AcceptCert(i) ==
    LET n == st[i].node IN
    /\ st[i].thr = "cert" /\ Thread(i, "install")
    /\ ps' = [ps EXCEPT ![n] = [GetOrCreate(n) EXCEPT !.issuer = TRUE]]
    /\ qs' = QueuesWith(n)
    /\ UNCHANGED <<world, wk, snd, rx, wire, up, joining, got, faults>>

\* Steps 4 to 6: the writer of the split stream replaces the placeholder.
\* Variant: the entry's generation is not compared.
InstallAnyway(i) ==
    /\ st[i].thr = "install"
    /\ ps' = IF Present(st[i].node)
             THEN [ps EXCEPT ![st[i].node].writer = i, ![st[i].node].ready = TRUE] ELSE ps
    /\ st' = [st EXCEPT ![i].thr = "read", ![i].w = "channel"]
    /\ UNCHANGED <<world, qs, wk, snd, rx, wire, up, joining, got, faults>>
AcceptInstall(i) ==
    LET n == st[i].node
        own == ps[n].gen = st[i].gen
    IN  /\ st[i].thr = "install"
        /\ ps' = IF own THEN [ps EXCEPT ![n].writer = i, ![n].ready = TRUE] ELSE ps
        /\ st' = [st EXCEPT ![i].thr = IF own \/ ~Present(n) THEN "read" ELSE "off",
                            ![i].w = IF own THEN "channel" ELSE @]
        /\ UNCHANGED <<world, qs, wk, snd, rx, wire, up, joining, got, faults>>

\* still_owner, asked when no datagram has come for 20 ms.
StillOwner(i) == ps[st[i].node].gen = st[i].gen
IdleExit(i) ==
    /\ st[i].thr = "read" /\ qs[st[i].q].items = <<>> /\ qs[st[i].q].open
    /\ ~StillOwner(i) /\ Thread(i, "clean")
    /\ UNCHANGED <<world, ps, qs, wk, snd, rx, wire, up, joining, got, faults>>

Cleanup(i) ==
    /\ st[i].thr = "clean" /\ Thread(i, "off")
    /\ RemoveIfOwner(st[i].node, st[i].gen)
    /\ UNCHANGED <<world, snd, rx, wire, up, joining, got, faults>>

----
(* handle_dtls_accept_packet, called for every DTLS datagram by the thread of the socket *)

\* Its critical section. A ClientHello while our own connect is under way: the designated client
\* drops it, the designated server gives up its connect. A ClientHello for a peer that has a
\* writer replaces the session. Without a writer the entry is claimed for an accept.
Replaces(n, p) ==
    /\ p.kind = "CH" /\ Present(n)
    /\ IF ps[n].connecting THEN ~ps[n].logged ELSE ps[n].writer # None
Dropped(n, p) == Replaces(n, p) /\ ps[n].connecting /\ n \in world.client
Claim(e) == [e EXCEPT !.gen = NextGeneration(@), !.writer = Placeholder, !.logged = FALSE]
Receive(n) ==
    LET p == Head(wire[n])
        new == Replaces(n, p)
        e == IF new THEN NewPeerState(NextGeneration(ps[n].gen), Len(qs) + 1) ELSE GetOrCreate(n)
        claim == e.writer = None
    IN  /\ up[n] /\ wire[n] # <<>> /\ rx[n] = <<>>
        /\ wire' = [wire EXCEPT ![n] = Tail(@)]
        /\ IF Dropped(n, p) THEN UNCHANGED <<ps, qs, wk, rx>>
           ELSE /\ ps' = [ps EXCEPT ![n] = IF claim THEN Claim(e) ELSE e]
                /\ qs' = IF new THEN Append(Closed(ps[n], qs), NewQueue) ELSE QueuesWith(n)
                /\ wk' = IF new THEN Stopped(ps[n], wk) ELSE wk
                /\ rx' = [rx EXCEPT ![n] = <<[pkt |-> p, q |-> e.q, worker |-> e.worker,
                                             gen |-> IF claim THEN e.gen + 1 ELSE None]>>]
        /\ UNCHANGED <<world, st, snd, up, joining, got, faults>>

\* Its rest: a worker for the entry that is there if the one it found had none, the datagram into the queue, the accept thread.
Attach(n) ==
    LET r == Head(rx[n])
        i == Len(st) + 1
    IN  /\ rx[n] # <<>> /\ rx' = [rx EXCEPT ![n] = <<>>]
        /\ qs' = IF qs[r.q].open THEN [qs EXCEPT ![r.q].items = Append(@, r.pkt)] ELSE qs
        /\ IF r.gen = None THEN UNCHANGED <<st, wk, ps>>
           ELSE /\ st' = Append(st, NewStream(n, "server", r.gen, r.q))
                /\ wk' = Append(wk, NewWorker("server"))
                /\ ps' = IF Present(n) /\ r.worker = None THEN [ps EXCEPT ![n].worker = i] ELSE ps
        /\ UNCHANGED <<world, snd, wire, up, joining, got, faults>>

----
(* send *)

Goto(s, pc) == snd' = [snd EXCEPT ![s].pc = pc]
Gen(s) == st[snd[s].str].gen
Owns(s) == ps[At(s)].gen = Gen(s)
sendRest == <<world, rx, up, joining, got>>

\* The entry is looked up: an accept under way is waited for, a healthy worker takes the payload.
AcceptInProgress(e) == e.writer # None /\ ~e.ready /\ ~e.connecting
\* In a world of serial calls each waits for the ones before it, in one of following calls until
\* they have begun to connect.
Turn(s) ==
    \A r \in 1..(s - 1) : \/ world.order = "free" \/ snd[r].pc \in {"ok", "err"}
                          \/ world.order = "follow" /\ snd[r].str # None
Lookup(s) ==
    LET e == ps[At(s)] IN
    /\ snd[s].pc = "lookup"
    /\ Turn(s)
    /\ IF AcceptInProgress(e) THEN Goto(s, "wait") /\ UNCHANGED wk
       ELSE IF e.worker = None THEN Goto(s, "create") /\ UNCHANGED wk
       ELSE IF wk[e.worker].healthy
            THEN Goto(s, "ok") /\ wk' = [wk EXCEPT ![e.worker].cmds = Append(@, s)]
            ELSE Goto(s, "stale") /\ UNCHANGED wk
    /\ UNCHANGED <<sendRest, ps, qs, st, wire, faults>>

\* The worker had stopped: the entry there is now is removed.
DropStale(s) ==
    /\ snd[s].pc = "stale" /\ Goto(s, "create") /\ Remove(At(s))
    /\ UNCHANGED <<sendRest, st, wire, faults>>

\* The outbound connection: a stream on the entry's queue, unless an accept has claimed it.
Create(s) ==
    LET n == At(s)
        e == GetOrCreate(n)
        i == Len(st) + 1
        gen == NextGeneration(e.gen)
    IN  /\ snd[s].pc = "create"
        /\ IF e.writer # None /\ ~e.connecting
           THEN Goto(s, "wait") /\ UNCHANGED <<ps, qs, st, wk>>
           ELSE /\ ps' = [ps EXCEPT ![n] = [e EXCEPT !.gen = gen, !.writer = i, !.worker = i,
                                !.issuer = FALSE, !.connecting = TRUE, !.logged = FALSE]]
                /\ qs' = QueuesWith(n)
                /\ st' = Append(st, NewStream(n, "client", gen, e.q))
                /\ wk' = Append(wk, NewWorker("client"))
                /\ snd' = [snd EXCEPT ![s] = [pc |-> "connect", str |-> i]]
        /\ UNCHANGED <<sendRest, wire, faults>>

\* write_all has finished the handshake and the payload is out.
ConnectOk(s) ==
    LET i == snd[s].str IN
    /\ snd[s].pc = "connect" /\ st[i].hs = "done" /\ CanWrite(i)
    /\ Emit(i, Pkt("DATA", i, st[i].peer, s))
    /\ ps' = IF Owns(s) THEN [ps EXCEPT ![At(s)].logged = TRUE] ELSE ps
    /\ Goto(s, "cert")
    /\ UNCHANGED <<sendRest, qs, st, wk, faults>>

\* It failed, or CONNECT_DEADLINE has passed; only after a failure a takeover is looked for.
ConnectErr(s) ==
    LET i == snd[s].str IN
    /\ snd[s].pc = "connect" /\ (st[i].hs = "failed" \/ (st[i].hs = "done" /\ ~CanWrite(i)))
    /\ RemoveIfOwner(At(s), Gen(s)) /\ Goto(s, "taken")
    /\ st' = [st EXCEPT ![i].thr = "off", ![i].hs = "failed"]
    /\ UNCHANGED <<sendRest, wire, faults>>
\* Variant: the connect that yielded fails.
YieldFails(s) ==
    /\ snd[s].pc = "taken" /\ Goto(s, "err")
    /\ UNCHANGED <<sendRest, ps, qs, st, wk, wire, faults>>
TakenOver(s) ==
    LET e == ps[At(s)] IN
    /\ snd[s].pc = "taken"
    /\ Goto(s, IF Present(At(s)) /\ e.gen # Gen(s) /\ ~e.connecting THEN "wait" ELSE "err")
    /\ UNCHANGED <<sendRest, ps, qs, st, wk, wire, faults>>

\* The observers of a new outbound session, and the issuer of the server's certificate; without
\* one the session stays, and its data is dropped.
Cert(s) ==
    /\ snd[s].pc = "cert" /\ Goto(s, "dead")
    /\ \/ UNCHANGED faults
          /\ ps' = IF Owns(s) THEN [ps EXCEPT ![At(s)].issuer = TRUE] ELSE ps
       \/ Fault("reject") /\ UNCHANGED ps
    /\ UNCHANGED <<sendRest, qs, st, wk, wire>>

\* The writer of the entry that is there is switched to a dead channel, to free the stream.
SwitchTo(n, kind) ==
    IF ps[n].writer \in Streams THEN st' = [st EXCEPT ![ps[n].writer].w = kind] ELSE UNCHANGED st
DeadSwitch(s) ==
    /\ snd[s].pc = "dead" /\ Goto(s, "split") /\ SwitchTo(At(s), "dead")
    /\ UNCHANGED <<sendRest, ps, qs, wk, wire, faults>>

\* try_unwrap_arc_with_retries: it succeeds once no worker is writing to the stream directly. If
\* one still is after the retries, the writer is made direct again.
Held(i) == \E v \in DOMAIN wk : wk[v].held = i
Split(s) ==
    LET i == snd[s].str IN
    /\ snd[s].pc = "split"
    /\ \/ ~Held(i) /\ Goto(s, "install") /\ UNCHANGED <<st, faults>>
       \/ Held(i) /\ Fault("slow") /\ Goto(s, "err") /\ SwitchTo(At(s), "direct")
    /\ UNCHANGED <<sendRest, ps, qs, wk, wire>>

\* The writer thread's channel is installed, then the entry is published, if it is still ours.
Install(s) ==
    /\ snd[s].pc = "install" /\ Goto(s, "publish")
    /\ IF Owns(s) THEN SwitchTo(At(s), "channel") ELSE UNCHANGED st
    /\ UNCHANGED <<sendRest, ps, qs, wk, wire, faults>>
Publish(s) ==
    LET i == snd[s].str IN
    /\ snd[s].pc = "publish" /\ Goto(s, "ok") /\ Thread(i, "read")
    /\ ps' = IF Owns(s) THEN [ps EXCEPT ![At(s)] = [@ EXCEPT !.worker = i, !.connecting = FALSE,
                                                        !.logged = TRUE, !.ready = TRUE]]
             ELSE ps
    /\ UNCHANGED <<sendRest, qs, wk, wire, faults>>

\* The guard of a client stream is held until its certificate was looked at.
Locked(i) == \E s \in Senders : snd[s].str = i /\ snd[s].pc \in {"connect", "taken", "wait", "cert"}
\* Writing m through a channel: the writer thread writes, or ends.
WriteThrough(i, m) ==
    IF CanWrite(i)
    THEN /\ Emit(i, IF st[i].role = "client" THEN Pkt("DATA", i, st[i].peer, m)
                    ELSE Pkt("DATA", st[i].peer, i, m))
         /\ UNCHANGED st
    ELSE st' = [st EXCEPT ![i].w = "dead"] /\ UNCHANGED wire

\* send_when_session_ready.
WaitReady(s) ==
    LET e == ps[At(s)] IN
    /\ snd[s].pc = "wait" /\ e.ready /\ e.writer # None
    /\ IF e.writer = Placeholder \/ st[e.writer].w = "dead"
       THEN Goto(s, "err") /\ UNCHANGED <<st, wire>>
       ELSE ~Locked(e.writer) /\ Goto(s, "ok") /\ WriteThrough(e.writer, s)
    /\ UNCHANGED <<sendRest, ps, qs, wk, faults>>

----
(* The worker of a peer: of our own connect, bound to its writer, or of an accept, which takes *)
(* the writer of the entry there is and goes on when it fails.                                 *)

WriterOf(i) == IF wk[i].role = "client" THEN i ELSE ps[st[i].node].writer
Done(i) == [wk EXCEPT ![i].cmds = Tail(@), ![i].held = None]
Ended(i) == [wk EXCEPT ![i] = [@ EXCEPT !.healthy = FALSE, !.cmds = <<>>, !.held = None]]
Failed(i) == IF wk[i].role = "client" THEN Ended(i) ELSE Done(i)

WorkerTake(i) ==
    LET m == Head(wk[i].cmds)
        v == WriterOf(i)
    IN  /\ wk[i].healthy /\ wk[i].cmds # <<>> /\ wk[i].held = None
        /\ IF m = Stop THEN wk' = Ended(i) /\ UNCHANGED <<st, wire>>
           ELSE IF v \notin Streams \/ st[v].w = "dead" THEN wk' = Failed(i) /\ UNCHANGED <<st, wire>>
           ELSE IF st[v].w = "direct"
                THEN wk' = [wk EXCEPT ![i].held = v] /\ UNCHANGED <<st, wire>>
                ELSE wk' = Done(i) /\ WriteThrough(v, m)
        /\ UNCHANGED <<world, ps, qs, snd, rx, up, joining, got, faults>>

\* A direct write waits for the guard of the stream.
WorkerWrite(i) ==
    LET v == wk[i].held IN
    /\ v # None /\ ~Locked(v)
    /\ IF st[v].hs = "done" /\ CanWrite(v)
       THEN /\ wk' = Done(i)
            /\ Emit(v, Pkt("DATA", v, st[v].peer, Head(wk[i].cmds)))
       ELSE wk' = Failed(i) /\ UNCHANGED wire
    /\ UNCHANGED <<world, ps, qs, st, snd, rx, up, joining, got, faults>>

----
(* forget_peer, forget_peers and stop; the socket; the network and the clock *)

ForgetPeer(n) ==
    /\ Present(n) /\ Fault("forget") /\ Remove(n)
    /\ UNCHANGED <<world, st, snd, rx, wire, up, joining, got>>
\* stop: every entry is closed, then the threads registered by then are joined.
Registered(n) == {i \in Streams : st[i].node = n /\ st[i].thr \notin {"send", "off"}}
StopDtls(n) ==
    /\ joining[n] = {} /\ Fault("stop") /\ Remove(n)
    /\ joining' = [joining EXCEPT ![n] = Registered(n)]
    /\ UNCHANGED <<world, st, snd, rx, wire, up, got>>
Join(n) ==
    /\ joining[n] # {} /\ \A i \in joining[n] : st[i].thr = "off"
    /\ joining' = [joining EXCEPT ![n] = {}]
    /\ UNCHANGED <<world, ps, qs, st, wk, snd, rx, wire, up, got, faults>>

\* An error of recv_from drops the socket; the loop binds it again to the same port.
SocketError(n) ==
    /\ up[n] /\ rx[n] = <<>> /\ Fault("socket") /\ up' = [up EXCEPT ![n] = FALSE]
    /\ UNCHANGED <<world, ps, qs, st, wk, snd, rx, wire, joining, got>>
Rebind(n) ==
    /\ ~up[n] /\ up' = [up EXCEPT ![n] = TRUE]
    /\ UNCHANGED <<world, ps, qs, st, wk, snd, rx, wire, joining, got, faults>>

Lose(n) ==
    /\ wire[n] # <<>> /\ Fault("loss") /\ wire' = [wire EXCEPT ![n] = Tail(@)]
    /\ UNCHANGED <<world, ps, qs, st, wk, snd, rx, up, joining, got>>
Reorder(n) ==
    /\ Len(wire[n]) > 1 /\ Fault("reorder")
    /\ wire' = [wire EXCEPT ![n] = Append(Tail(@), Head(@))]
    /\ UNCHANGED <<world, ps, qs, st, wk, snd, rx, up, joining, got>>

\* Nothing is under way that the deadlines of seconds would not wait for.
Quiet ==
    /\ \A n \in Node : wire[n] = <<>> /\ rx[n] = <<>> /\ up[n]
    /\ \A i \in Streams : /\ ~Readable(i) /\ (st[i].hs = "failed" => st[i].thr = "off")
                          /\ st[i].thr \notin {"log", "cert", "install", "clean"}
                          /\ ~(st[i].thr = "send" /\ st[i].hs = "new")
                          /\ ~(Reading(i) /\ ~qs[st[i].q].open)
    /\ \A s \in Senders : (snd[s].pc \in {"connect", "wait", "ok", "err"} \/ ~Turn(s))
                          /\ (snd[s].pc = "connect" => Handshaking(snd[s].str))
                          /\ (snd[s].pc = "wait" => ~ps[At(s)].ready)
\* A timer runs out when nothing can come any more, or as a disturbance while it still could.
TimeIsUp(idle, kind) == \/ idle /\ UNCHANGED faults
                        \/ Fault(kind)
CanRetransmit(i) ==
    /\ st[i].role = "client" /\ st[i].thr = "send" /\ st[i].hs \in {"hello", "finish"}
    /\ st[i].rtx < MaxRtx /\ CanWrite(i)
\* The DTLS timer of a client: nothing came, or the round trip is longer than it.
Retransmit(i) ==
    /\ CanRetransmit(i) /\ TimeIsUp(Quiet, "rtt")
    /\ st' = [st EXCEPT ![i].rtx = @ + 1]
    /\ Emit(i, IF st[i].hs = "hello" THEN Pkt("CH", i, None, None)
               ELSE Pkt("CF", i, st[i].peer, None))
    /\ UNCHANGED <<world, ps, qs, wk, snd, rx, up, joining, got>>
Expired == Quiet /\ \A i \in Streams : ~CanRetransmit(i)
ConnectTimeout(s) ==
    LET i == snd[s].str IN
    /\ snd[s].pc = "connect" /\ Handshaking(i) /\ TimeIsUp(Expired, "late")
    /\ RemoveIfOwner(At(s), Gen(s)) /\ Goto(s, "err")
    /\ st' = [st EXCEPT ![i].thr = "off", ![i].hs = "failed"]
    /\ UNCHANGED <<sendRest, wire>>
\* Variant: the deadline is looked at only while there is an entry.
WaitForEntry(s) ==
    /\ snd[s].pc = "wait" /\ Present(At(s)) /\ ~ps[At(s)].ready
    /\ TimeIsUp(Expired, "late") /\ Goto(s, "err")
    /\ UNCHANGED <<sendRest, ps, qs, st, wk, wire>>
WaitTimeout(s) ==
    /\ snd[s].pc = "wait" /\ ~ps[At(s)].ready
    /\ TimeIsUp(Expired, "late") /\ Goto(s, "err")
    /\ UNCHANGED <<sendRest, ps, qs, st, wk, wire>>
\* The 30 s of an accept outlast the 10 s of every send.
AcceptTimeout(i) ==
    /\ st[i].thr = "hs" /\ Handshaking(i) /\ Expired
    /\ \A s \in Senders : snd[s].pc \in {"ok", "err"}
    /\ RemoveIfOwner(st[i].node, st[i].gen)
    /\ st' = [st EXCEPT ![i].thr = "off", ![i].hs = "failed"]
    /\ UNCHANGED <<world, snd, rx, wire, up, joining, got, faults>>

----
StreamStep(i) ==
    \/ Hello(i) \/ Read(i) \/ VerifyRefuses(i) \/ Eof(i) \/ Retransmit(i)
    \/ AcceptFails(i) \/ AcceptLog(i) \/ AcceptCert(i) \/ AcceptInstall(i) \/ AcceptTimeout(i)
    \/ IdleExit(i) \/ Cleanup(i)
    \/ WorkerTake(i) \/ WorkerWrite(i)
SendStep(s) ==
    \/ Lookup(s) \/ DropStale(s) \/ Create(s)
    \/ ConnectOk(s) \/ ConnectErr(s) \/ ConnectTimeout(s) \/ TakenOver(s)
    \/ Cert(s) \/ DeadSwitch(s) \/ Split(s) \/ Install(s) \/ Publish(s)
    \/ WaitReady(s) \/ WaitTimeout(s)
NodeStep(n) == Receive(n) \/ Attach(n) \/ Join(n) \/ Rebind(n)
Disturb(n) == ForgetPeer(n) \/ StopDtls(n) \/ SocketError(n) \/ Lose(n) \/ Reorder(n)

Next ==
    \/ \E i \in Streams : StreamStep(i)
    \/ \E s \in Senders : SendStep(s)
    \/ \E n \in Node : NodeStep(n) \/ (n \in world.hit /\ Disturb(n))

Spec == Init /\ [][Next]_vars
\* Every thread goes on and every timer runs out. The system comes to rest, so that fairness of
\* the whole is enough.
Progress ==
    \/ \E i \in Streams : StreamStep(i)
    \/ \E s \in Senders : SendStep(s)
    \/ \E n \in Node : NodeStep(n)
FairSpec == Spec /\ WF_vars(Progress)

----
(* Properties *)

TypeOK ==
    /\ \A n \in Node : ps[n].writer \in {None, Placeholder} \cup Streams
                       /\ ps[n].worker \in {None} \cup Streams /\ Len(rx[n]) <= 1
                       /\ ps[n].q \in {None} \cup DOMAIN qs
    /\ Len(wk) = Len(st) /\ got \subseteq Senders
    /\ \A i \in Streams : st[i].thr \in {"send", "hs", "log", "cert", "install", "read", "clean", "off"}
                          /\ st[i].hs \in {"new", "hello", "finish", "done", "failed"}
                          /\ st[i].w \in {"direct", "dead", "channel"}

Calm == faults.kinds \cap {"forget", "stop", "reorder"} = {}
\* No two calls of a node dial at once.
OneAtATime == world.order = "serial" \/ IsInjective(world.at)

\* As long as no entry is dropped from outside and datagrams keep their order, a connect under
\* way never reads the ClientHello of the peer, which would fail it with "unexpected message":
\* the tie-break and the claim of the entry keep it out of the queue.
NoHelloForConnect ==
    \A i \in Streams :
        /\ Calm /\ st[i].role = "client" /\ st[i].hs \in {"new", "hello"}
        /\ qs[st[i].q].open
        => \A k \in DOMAIN qs[st[i].q].items : qs[st[i].q].items[k].kind # "CH"

\* An entry marked ready has the writer of its own session, whose handshake is complete and
\* which reads from the entry's queue: what send_when_session_ready relies on. A connect that
\* was given up does not disturb the session that took over. Calls of one node that dial at
\* once are left out: the one that was overtaken kills the writer of the other.
ReadyIsUsable ==
    \A n \in Node :
        Calm /\ OneAtATime /\ ps[n].ready =>
            LET i == ps[n].writer IN
            /\ i \in Streams /\ st[i].hs = "done"
            /\ st[i].gen = ps[n].gen /\ st[i].q = ps[n].q
            /\ faults.kinds \cap {"socket"} = {} => st[i].w # "dead"

\* Every call of send returns.
SendReturns == <>[](\A s \in Senders : snd[s].pc \in {"ok", "err"})

\* stop joins every reader it has registered: closing the queue ends a reader even when a late
\* datagram has put a new entry of the same generation in the place of the one stop removed.
StopReturns == <>[](\A n \in Node : joining[n] = {})

\* Two peers that dial each other at once "must converge on one DTLS session instead of both
\* failing" (dtls_simultaneous_connect.rs): both end with a ready session, the same one, also if
\* a datagram is lost; if none is, both payloads arrive.
OneCallEach == Len(world.at) = 2 /\ At(1) # At(2) /\ \E n \in Node : world.client = {n}
Joined ==
    /\ \A n \in Node : ps[n].ready
    /\ \A n \in Node : st[ps[n].writer].peer = ps[Other(n)].writer
Converges ==
    <>[](OneCallEach /\ faults.kinds \subseteq {"loss"}
            => Joined /\ (faults.n = 0 => got = Senders))

\* What send_when_session_ready and a connect under way rely on: a ready entry has a usable
\* session, and the queue of a connect has no ClientHello.
SessionsUsable == TypeOK /\ NoHelloForConnect /\ ReadyIsUsable

\* No call hangs: every send returns, and stop has joined its readers.
CallsReturn == SendReturns /\ StopReturns

=============================================================================
