---------------------------- MODULE MCRelayCalls ----------------------------
(***************************************************************************)
(* Small cases for calls through a relay.                                  *)
(***************************************************************************)
EXTENDS RelayCalls

CONSTANTS ann, bob, cat

MCClients == {ann, bob, cat}
Listen(x) == [who |-> x, kind |-> "listen", to |-> x]
Call(x, y) == [who |-> x, kind |-> "call", to |-> y]
Direct(x) == [who |-> Relay, kind |-> "direct", to |-> x]
World(jobs, orderly, fs, n) == [jobs |-> jobs, orderly |-> orderly, faults |-> fs, max |-> n]

\* One client listens, another calls it; one disturbance of one kind.
OneCall == <<Listen(bob), Call(ann, bob)>>
\* Two clients listen and a third calls the first of them.
TwoListeners == <<Listen(bob), Listen(cat), Call(ann, bob)>>
\* Two clients call the same third one.
TwoCallers == <<Listen(bob), Call(ann, bob), Call(cat, bob)>>
\* A client calls two others at once.
TwoCallees == <<Listen(bob), Listen(cat), Call(ann, bob), Call(ann, cat)>>
\* The relay itself sends to a client of its own.
FromRelay == <<Listen(bob), Direct(bob)>>
Disturbances == {"late", "tick", "unknown", "lost", "drop", "uplink", "relayed"}

MCWorlds ==
    {World(OneCall, FALSE, {f}, 1) : f \in Disturbances}
    \cup {World(TwoListeners, TRUE, {"overlap"}, 1), World(TwoCallers, TRUE, {"overlap"}, 1)}
    \cup {World(TwoCallers, TRUE, {"move"}, 1), World(TwoCallees, TRUE, {}, 0),
          World(OneCall, FALSE, {"move"}, 2), World(OneCall, FALSE, {"restart", "unsent"}, 2), World(FromRelay, FALSE, {"move", "restart"}, 2)}
=============================================================================
