------------------------------ MODULE Snapshot ------------------------------
(***************************************************************************)
(* What the engines of one scheduling cycle read: the configuration of the *)
(* applications and the snapshot of the world state, which nobody changes  *)
(* while the cycle decides.  Every tracked replica is running or pending.  *)
(***************************************************************************)
EXTENDS Sums, FiniteSetsExt

CONSTANTS
    Clusters,       \* cluster ids: numbers, as the engines compare them
    Nodes,          \* node ids
    ClusterOf,      \* ClusterOf[n]: the cluster of node n
    TotalGPUs,      \* TotalGPUs[n]: the GPUs of node n
    Apps,           \* applications
    Priority,       \* Priority[a]: 0 (highest), 1 or 2
    GPUsPerReplica, \* GPUsPerReplica[a]: what a new replica needs
    MinReplicas,    \* MinReplicas[a]: how many must be left to a
    SpreadClusters, \* applications with the failure-domain rule spread_clusters
    Replicas,       \* replica ids: numbers, as the engines compare them
    AppOf,          \* AppOf[r]: the application of replica r
    GPUs,           \* GPUs[r]: what replica r occupies
    CacheLocations, \* CacheLocations[a]: where the model of a is cached
    NoNode          \* where a replica is that is not tracked

VARIABLE snap       \* the snapshot: [place, running, ready, reserved]

Tiers == {"GPU_MEMORY", "LOCAL_NVME", "CLUSTER_STORAGE"}

ASSUME SnapshotAssumption ==
    /\ Clusters \subseteq Nat /\ Replicas \subseteq Nat
    /\ IsFiniteSet(Clusters) /\ IsFiniteSet(Nodes) /\ IsFiniteSet(Replicas)
    /\ ClusterOf \in [Nodes -> Clusters]
    /\ TotalGPUs \in [Nodes -> Nat]
    /\ Priority \in [Apps -> 0 .. 2]
    /\ GPUsPerReplica \in [Apps -> Nat \ {0}]
    /\ MinReplicas \in [Apps -> Nat]
    /\ SpreadClusters \subseteq Apps
    /\ AppOf \in [Replicas -> Apps]
    /\ GPUs \in [Replicas -> Nat]
    /\ CacheLocations \in
         [Apps -> SUBSET [tier : Tiers, cluster : Clusters, node : Nodes \cup {NoNode}]]
    /\ NoNode \notin Nodes

GPUsOf(rs) == Sum(GPUs, rs)

-----------------------------------------------------------------------------
(* place[r] is the node of r; running holds the replicas that are not      *)
(* pending, ready the nodes that are Ready; reserved[c] is the GPUs of the *)
(* active reservations in cluster c.                                       *)
SnapshotType ==
    [place : [Replicas -> Nodes \cup {NoNode}],
     running : SUBSET Replicas,
     ready : SUBSET Nodes,
     reserved : [Clusters -> Nat]]

ReplicasOn(place, n) == {r \in Replicas : place[r] = n}

Tracked == {r \in Replicas : snap.place[r] # NoNode}

ReplicasForApp(a) == {r \in Tracked : AppOf[r] = a}

CountActiveReplicas(a) == Cardinality(ReplicasForApp(a))

ClusterID(r) == ClusterOf[snap.place[r]]

ReplicasInCluster(a, c) == {r \in ReplicasForApp(a) : ClusterID(r) = c}

(* The stored FreeGPUs of a node, where its accounting is that of the     *)
(* replicas on it (see AccountingKept and NoGPUsLost of WorldState).       *)
FreeGPUs(n) == TotalGPUs[n] - GPUsOf(ReplicasOn(snap.place, n))

NodesOf(c) == {n \in Nodes : ClusterOf[n] = c}

ReadyNodes(c) == NodesOf(c) \cap snap.ready

(* The GPUs of a set of nodes, and what is free of them. *)
TotalOn(ns) == Sum(TotalGPUs, ns)
FreeOn(ns)  == TotalOn(ns) - GPUsOf({r \in Replicas : snap.place[r] \in ns})

=============================================================================
