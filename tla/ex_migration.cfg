CONSTANTS
    p1 = p1  p2 = p2  s1 = s1  s2 = s2  m = m  d = d
    v = v  r1 = r1  r2 = r2  new = new  old = old
    Ops <- MigrationOps
    Deps <- MigrationDeps
    Replicas <- MigrationReplicas
    Kind <- MCKind
    Target <- MCTarget
    Reserved <- MCReserved
    Routable <- MigrationOps
    ApiErrors = TRUE
    LostReplies = TRUE
    ExternalDeletes = FALSE
    CtxCancel = TRUE
SPECIFICATION Spec
INVARIANTS DependenciesFirst NoneWaitsInVain BlueGreen ReservationFitsOutcome
PROPERTIES PlanSteps
CHECK_DEADLOCK FALSE
