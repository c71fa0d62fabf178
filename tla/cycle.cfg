CONSTANTS
    n1 = n1  n2 = n2  n3 = n3
    a0 = a0  b0 = b0  a1 = a1  a2 = a2  none = none
    Clusters = {1, 2}
    Nodes = {n1, n2, n3}
    Replicas = {1, 2, 3, 4, 5}
    Apps = {a0, b0, a1, a2}
    SpreadClusters = {a1}
    ClusterOf <- MCClusterOf
    TotalGPUs <- MCTotalGPUs
    Priority <- MCPriority
    GPUsPerReplica <- MCGPUsPerReplica
    MinReplicas <- MCMinReplicas
    AppOf <- MCAppOf
    GPUs <- MCGPUs
    CacheLocations <- MCCacheLocations
    Snapshots <- MCSnapshots
    Deltas <- MCDeltas
    NoNode <- none
    NoApp = none
SPECIFICATION CycleSpec
INVARIANTS PlacedWhereRoom MinReplicasKept CascadeKept SpreadNeverBlocks RoomIsMadeFirst PlanWellFounded NoPreemptedMigration NoWayBack
PROPERTIES NoPriorityInversion CacheDominates
