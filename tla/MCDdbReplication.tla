--------------------------- MODULE MCDdbReplication ---------------------------
(***************************************************************************)
(* Small deployments for the replicated database.                          *)
(***************************************************************************)
EXTENDS DdbReplication

World(u, rs, ro, cl, g, fs, n) ==
    [up |-> u, relays |-> rs, roots |-> ro, clients |-> cl, regs |-> g, faults |-> fs, max |-> n]

\* A third root starts while the others report it, lose a message or lose a permission.
ThirdRoot == World({1, 2}, {1, 2, 3}, {1, 2, 3}, {}, 0, {"report", "loss", "withdraw"}, 1)
\* A second root starts, is reported as failed and loses its permission.
SecondRoot == World({1}, {1, 2}, {1, 2}, {}, 0, {"report", "withdraw"}, 2)
\* Two relays that are no roots join, one after the other or at once.
TwoJoin == World({1}, {1, 2, 3}, {1}, {}, 0, {}, 0)
\* Two roots start an empty network, one of them may crash and start again.
ColdStart == World({}, {1, 2}, {1, 2}, {}, 0, {"crash"}, 1)
\* The first root of the list is never up.
RootMissing == World({2}, {2, 3}, {1, 2, 3}, {}, 0, {}, 0)
\* A client comes, moves and goes while a relay joins; a message is lost or the client is.
ClientAndJoin == World({1}, {1, 2}, {1}, {11}, 2, {"vanish", "loss"}, 1)
\* The same with a joining root that the client may choose.
ClientAndRoot == World({1}, {1, 2}, {1, 2}, {11}, 1, {"vanish"}, 1)
\* A client with two relays of which one crashes and comes back.
ClientAndCrash == World({1, 2}, {1, 2}, {1, 2}, {11}, 1, {"crash"}, 1)

MCWorlds == {ThirdRoot, SecondRoot, TwoJoin, ColdStart, RootMissing,
             ClientAndJoin, ClientAndRoot, ClientAndCrash}

=============================================================================
