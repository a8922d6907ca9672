-------------------------- MODULE MCDistributedMutex --------------------------
(* Instances of DistributedMutex for TLC. *)
EXTENDS DistributedMutex

CONSTANTS N, Requesters

MCNode == 1 .. N
FullView == [n \in MCNode |-> MCNode]
OnceEach == [n \in MCNode |-> IF n \in Requesters THEN 1 ELSE 0]

=============================================================================
