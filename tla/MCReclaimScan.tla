--------------------------- MODULE MCReclaimScan ---------------------------
(* Small fleets for ReclaimScan; the replicas are interchangeable.         *)
EXTENDS ReclaimScan, TLC

CONSTANTS c1, c2

TwoReplicas == {c1, c2}
AllSweep == [c \in Consumers |-> {"maintenance", "prompt"}]
OneSweeps == [c \in Consumers |-> IF c = c2 THEN {"maintenance", "prompt"} ELSE {}]
ReplicaSymmetry == Permutations(Consumers)
=============================================================================
