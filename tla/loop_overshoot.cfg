CONSTANTS
    Apps = {a1, a2}
    MinReplicas <- MCMinReplicas
    MaxP99TTFT <- MCMaxP99TTFT
    Readings <- MCCalm
    QueueHighWatermark = 10
    QueueTarget = 5
    QueueLowWatermark = 1
    KVCacheHighWatermark = 85
    KVCacheTarget = 70
    KVCacheLowWatermark = 40
    BatchLowWatermark = 30
    MaxScaleUpPerCycle = 10
    MaxScaleDownPerCycle = 2
    StabilizationCycles = 1
    Slots = {1, 2}
    Capacity = 2
    MaxFailures = 0
SPECIFICATION Spec
INVARIANTS NoRedundantScaleUp
