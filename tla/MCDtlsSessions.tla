--------------------------- MODULE MCDtlsSessions ---------------------------
(***************************************************************************)
(* Small cases for DTLS sessions. Node 1 has the lower public endpoint.    *)
(***************************************************************************)
EXTENDS DtlsSessions

World(at, order, hit, fs, n) ==
    [at |-> at, order |-> order, client |-> {1}, hit |-> hit, faults |-> fs, max |-> n]

\* Both nodes dial each other at once, with one disturbance of one kind.
Both == {World(<<1, 2>>, "free", Node, {f}, 1) :
            f \in {"loss", "rtt", "late", "socket", "reject", "reorder", "slow"}}
\* A node sends again and again over a session whose writes fail once its socket was lost.
Again == World(<<1, 1, 1, 1>>, "serial", {1}, {"socket"}, 1)
\* A second call follows while the first still connects.
Follow == World(<<1, 1>>, "follow", Node, {"slow"}, 1)
\* A node is stopped, or forgets its peer, at any moment of a call.
Shutdown == World(<<1>>, "free", Node, {"stop", "forget"}, 1)

MCWorlds == Both \cup {Again, Follow, Shutdown}

=============================================================================
