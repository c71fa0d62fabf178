CONSTANTS
    a1 = a1
    Apps = {a1}
    Listeners = {"clusterEvents", "poll"}
    RawCap = 1
    MaxEvents = 3
SPECIFICATION FairSpec
INVARIANTS ClusterEventsInOrder NoClusterEventLost NewestUpdateKept
PROPERTIES UpdatesNeverGoBack Delivered OutputCloses
CHECK_DEADLOCK FALSE
