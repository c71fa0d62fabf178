CONSTANTS
    c1 = c1  c2 = c2  n1 = n1  n2 = n2  n3 = n3
    r1 = r1  r2 = r2  i1 = i1  i2 = i2
    Clusters = {c1, c2}
    Nodes = {n1, n2, n3}
    Replicas = {r1, r2}
    Reservations = {i1}
    ClusterOf <- MCClusterOf
    TotalGPUs <- MCTotalGPUs
    GPUs <- MCGPUs
    NoNode = NoNode
    TTL = 2
SPECIFICATION FairSpec
INVARIANTS GPUsConserved NoGPUsLost DerivedFresh
PROPERTIES AccountingKept EndedStaysEnded ActiveEnds
