------------------------------ MODULE MCCycle -------------------------------
(* A small cluster and a larger one; applications of every priority.       *)
EXTENDS Cycle

CONSTANTS n1, n2, n3, a0, b0, a1, a2, none

MCClusterOf == [n \in Nodes |-> IF n = n1 THEN 1 ELSE 2]
MCTotalGPUs == [n \in Nodes |-> 2]
MCPriority  == [a \in Apps |-> CASE a \in {a0, b0} -> 0 [] a = a1 -> 1 [] a = a2 -> 2]
MCGPUsPerReplica == [a \in Apps |-> IF a = a0 THEN 2 ELSE 1]
MCMinReplicas == [a \in Apps |-> IF a \in {a1, a2} THEN 1 ELSE 0]
MCAppOf == [r \in Replicas |-> IF r \in {1, 2} THEN a1 ELSE a2]

(* Replica 5 is from the time when a2 needed two GPUs. *)
MCGPUs == [r \in Replicas |-> IF r = 5 THEN 2 ELSE 1]

MCCacheLocations == [a \in Apps |->
    CASE a = a0 -> {}
      [] a = a1 -> {[tier |-> "LOCAL_NVME", cluster |-> 1, node |-> n1],
                    [tier |-> "CLUSTER_STORAGE", cluster |-> 2, node |-> none]}
      [] a \in {b0, a2} -> {[tier |-> "CLUSTER_STORAGE", cluster |-> 2, node |-> none]}]

(* The second node of the larger cluster may be cordoned; one GPU of a     *)
(* cluster may be reserved by an earlier cycle.                            *)
MCSnapshots ==
    {[place |-> p, running |-> Replicas, ready |-> ns, reserved |-> x] :
        p \in {f \in [Replicas -> Nodes \cup {none}] :
                 \A n \in Nodes : GPUsOf(ReplicasOn(f, n)) <= TotalGPUs[n]},
        ns \in {Nodes, Nodes \ {n3}},
        x \in {[c \in Clusters |-> 0], [c \in Clusters |-> IF c = 1 THEN 1 ELSE 0]}}

(* Scaling decisions: up to four replicas more, or one less. *)
Change(da0, db0, da1, da2) ==
    [a \in Apps |-> CASE a = a0 -> da0 [] a = b0 -> db0 [] a = a1 -> da1 [] a = a2 -> da2]
MCDeltas == {Change(2, 0, 0, 0), Change(1, 1, 0, 0), Change(1, 0, 2, 1), Change(0, 2, 0, 1),
             Change(1, 1, 1, 1), Change(1, 1, 0, -1)}

=============================================================================
