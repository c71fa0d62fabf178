CONSTANTS
    c1 = c1  n1 = n1  n2 = n2  r1 = r1  r2 = r2
    Clusters = {c1}
    Nodes = {n1, n2}
    Replicas = {r1}
    Reservations = {}
    ClusterOf <- MCClusterOf
    TotalGPUs <- MCTotalGPUs
    GPUs <- MCGPUs
    NoNode = NoNode
    TTL = 1
    Incarnations = {1, 2}
    MaxChanges = 0
SPECIFICATION CESpec
INVARIANTS AllocationMatchesReplicas
