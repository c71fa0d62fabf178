-------------------------- MODULE MCClusterEvents --------------------------
(* One cluster of two nodes, and replicas that take all GPUs of a node. *)
EXTENDS ClusterEvents

CONSTANTS c1, n1, n2, r1, r2

MCClusterOf == [n \in Nodes |-> c1]
MCTotalGPUs == [n \in Nodes |-> 2]
MCGPUs      == [r \in Replicas |-> 2]

=============================================================================
