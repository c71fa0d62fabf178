CONSTANTS
    p1 = p1  p2 = p2  s1 = s1  s2 = s2  m = m  d = d
    v = v  r1 = r1  r2 = r2  new = new  old = old
    Ops <- SharedOps
    Deps <- SharedDeps
    Replicas <- SharedReplicas
    Kind <- MCKind
    Target <- MCTarget
    Reserved <- MCReserved
    Routable <- NoClientForS2
    ApiErrors = FALSE
    LostReplies = FALSE
    ExternalDeletes = TRUE
    CtxCancel = TRUE
SPECIFICATION FairSpec
INVARIANTS TypeOK CountersAgree VictimsReleasedFirst NoOrphanBeforeCancel
PROPERTIES Terminates
CHECK_DEADLOCK FALSE
