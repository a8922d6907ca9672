----------------------------- MODULE ExclusiveRun -----------------------------
(***************************************************************************)
(* What the DistributedMutex trait promises its callers: a relay asks to   *)
(* run, runs while no other does, and is done.  A relay that dies is out,  *)
(* from wherever it was.                                                   *)
(***************************************************************************)
CONSTANT Node

VARIABLE state      \* per node: "out", "wants" or "in"

Init == state = [n \in Node |-> "out"]

Want(n) == state[n] = "out" /\ state' = [state EXCEPT ![n] = "wants"]

\* The closure passed to acquire() begins to run.
Run(n) ==
    /\ state[n] = "wants"
    /\ \A x \in Node : state[x] # "in"
    /\ state' = [state EXCEPT ![n] = "in"]

\* The closure has returned, or the node has died.
Leave(n) == state[n] # "out" /\ state' = [state EXCEPT ![n] = "out"]

Next == \E n \in Node : Want(n) \/ Run(n) \/ Leave(n)

Spec == Init /\ [][Next]_state

=============================================================================
