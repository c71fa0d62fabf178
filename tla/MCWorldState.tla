---------------------------- MODULE MCWorldState ----------------------------
(* Two clusters, three nodes, replicas of different size. *)
EXTENDS WorldState

CONSTANTS c1, c2, n1, n2, n3, r1, r2, i1, i2

MCClusterOf == [n \in Nodes |-> IF n = n3 THEN c2 ELSE c1]
MCTotalGPUs == [n \in Nodes |-> IF n = n1 THEN 2 ELSE 4]
MCGPUs      == [r \in Replicas |-> IF r = r1 THEN 1 ELSE 2]

=============================================================================
