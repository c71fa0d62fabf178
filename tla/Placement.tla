----------------------------- MODULE Placement ------------------------------
(***************************************************************************)
(* internal/engine/placement with internal/engine/preemption: from one     *)
(* snapshot and the approved scaling targets to the decisions of a cycle.  *)
(* ComputePlacement first takes replicas from the applications that have   *)
(* too many, then, by priority, tries to place every missing replica: in   *)
(* the best cluster with room, else by preempting replicas of lower        *)
(* priority, else not at all.  A Go map has no order, so applications of   *)
(* the same priority and clusters of the same score come in any order.     *)
(***************************************************************************)
EXTENDS Snapshot, Sequences

CONSTANTS
    Snapshots,      \* the snapshots a cycle may start from
    Deltas,         \* the changes its scaling decisions may ask for
    NoApp           \* no application

(* DefaultPlacementConfig, the only configuration there is. *)
WeightCache == [GPU_MEMORY |-> 1000, LOCAL_NVME |-> 500, CLUSTER_STORAGE |-> 100]
WeightFragmentation == 50
WeightBalance == 30
MaxGPUsPerNode == 8

VARIABLES
    pc,             \* "idle", "scaleDowns", "scaleUps" or "decided"
    todo,           \* todo[a]: the delta of a that is left to be decided
    placing,        \* the application whose replicas are being placed
    localReservations, \* localReservations[c]: GPUs given away in this cycle
    localAppPlacement, \* localAppPlacement[a][c]: replicas placed in this cycle
    scaleDowns,     \* replicas to remove
    scaleUps,       \* the scale-ups, each with the victims it was placed with
    refused         \* applications a replica of which found no place (history)

vars == <<snap, pc, todo, placing, localReservations, localAppPlacement,
          scaleDowns, scaleUps, refused>>

ASSUME PlacementAssumption ==
    /\ Snapshots \subseteq SnapshotType
    /\ Deltas \subseteq [Apps -> Int]
    /\ NoApp \notin Apps

-----------------------------------------------------------------------------
(* Scale-downs: selectScaleDownVictims. *)

Cached(a, r) ==
    \E l \in CacheLocations[a] : l.cluster = ClusterID(r) /\ l.node = snap.place[r]

(* Is r removed rather than s?  Its node is less utilized (its share of    *)
(* free GPUs is higher), its model is not cached there, its cluster has    *)
(* more of the application.                                                *)
RemovedBefore(a, r, s) ==
    LET free(x)  == FreeGPUs(snap.place[x])
        total(x) == TotalGPUs[snap.place[x]]
        count(x) == Cardinality(ReplicasInCluster(a, ClusterID(x)))
        left  == free(r) * total(s)
        right == free(s) * total(r)
    IN  \/ left > right
        \/ left = right /\ ~Cached(a, r) /\ Cached(a, s)
        \/ left = right /\ Cached(a, r) = Cached(a, s) /\ count(r) > count(s)

(* The sets of k victims (all replicas if there are fewer) that sorting    *)
(* may yield.                                                              *)
ScaleDownVictims(a, k) ==
    LET active == ReplicasForApp(a) IN
    IF k >= Cardinality(active) THEN {active}
    ELSE {vs \in kSubset(k, active) :
            \A v \in vs, r \in active \ vs : ~RemovedBefore(a, r, v)}

-----------------------------------------------------------------------------
(* Scale-ups: findBestCluster. *)

HasFittingNode(c, needed) == \E n \in ReadyNodes(c) : FreeGPUs(n) >= needed

(* Slip: what was given away in this cycle is forgotten. *)
ClusterAvailableGPUs_snapshotOnly(c) == FreeOn(ReadyNodes(c)) - snap.reserved[c]

ClusterAvailableGPUs(c) == FreeOn(ReadyNodes(c)) - snap.reserved[c] - localReservations[c]

Eligible(a) ==
    {c \in Clusters : /\ HasFittingNode(c, GPUsPerReplica[a])
                      /\ ClusterAvailableGPUs(c) >= GPUsPerReplica[a]}

AppReplicasIn(a, c) == Cardinality(ReplicasInCluster(a, c)) + localAppPlacement[a][c]

AppReplicas(a) == CountActiveReplicas(a) + Sum(localAppPlacement[a], Clusters)

(* Slip: the replica about to be placed is not counted. *)
SpreadLimit_withoutNew(a) ==
    (AppReplicas(a) + Cardinality(Eligible(a)) - 1) \div Cardinality(Eligible(a))

(* An equal share of the replicas, the new one included, rounded up. *)
SpreadLimit(a) ==
    (AppReplicas(a) + 1 + Cardinality(Eligible(a)) - 1) \div Cardinality(Eligible(a))

Allowed(a) ==
    {c \in Eligible(a) : a \in SpreadClusters => AppReplicasIn(a, c) < SpreadLimit(a)}

(* computeCacheScore: the best tier the model is cached on in the cluster. *)
CacheScore(a, c) ==
    Max({0} \cup {WeightCache[l.tier] : l \in {k \in CacheLocations[a] : k.cluster = c}})

(* computePackingScore of a cluster with a fitting node, times             *)
(* MaxGPUsPerNode.                                                         *)
PackingScore(a, c) ==
    LET fitting == {n \in ReadyNodes(c) : FreeGPUs(n) >= GPUsPerReplica[a]}
        waste   == Min({FreeGPUs(n) : n \in fitting}) - GPUsPerReplica[a]
    IN  Max({0, MaxGPUsPerNode - waste})

(* Slip: the cache score is not scaled as the others are. *)
Score_unscaled(a, c) ==
    CacheScore(a, c) * TotalOn(ReadyNodes(c))
      + WeightFragmentation * PackingScore(a, c) * TotalOn(ReadyNodes(c))
      + WeightBalance * MaxGPUsPerNode * FreeOn(ReadyNodes(c))

(* The total score, times MaxGPUsPerNode and the GPUs of the cluster; the  *)
(* balance score is the share of its GPUs that is free.                    *)
Score(a, c) ==
    CacheScore(a, c) * MaxGPUsPerNode * TotalOn(ReadyNodes(c))
      + WeightFragmentation * PackingScore(a, c) * TotalOn(ReadyNodes(c))
      + WeightBalance * MaxGPUsPerNode * FreeOn(ReadyNodes(c))

Best(a) ==
    {c \in Allowed(a) : \A d \in Allowed(a) :
        Score(a, c) * TotalOn(ReadyNodes(d)) >= Score(a, d) * TotalOn(ReadyNodes(c))}

-----------------------------------------------------------------------------
(* Preemption: FindPreemptionOpportunity. *)

(* The replicas of priority p that a may preempt. *)
Candidates(a, p) ==
    {r \in Tracked : /\ AppOf[r] # a
                     /\ Priority[AppOf[r]] = p
                     /\ Priority[AppOf[r]] > Priority[a]}

Spare(a) == CountActiveReplicas(a) - MinReplicas[a]

(* sortCandidates for a need of g GPUs, among candidates with replicas to  *)
(* spare: the cluster where most could be freed, then the closest size.    *)
PreemptedBefore(r, s, pool, g) ==
    LET freeable(x) == GPUsOf({y \in pool : ClusterID(y) = ClusterID(x)})
        misfit(x)   == IF GPUs[x] >= g THEN GPUs[x] - g ELSE g - GPUs[x]
    IN  \/ freeable(r) > freeable(s)
        \/ /\ freeable(r) = freeable(s)
           /\ \/ ClusterID(r) < ClusterID(s)
              \/ /\ ClusterID(r) = ClusterID(s)
                 /\ \/ misfit(r) < misfit(s)
                    \/ misfit(r) = misfit(s) /\ r < s

(* Slip: victims are taken from any cluster. *)
SelectVictims_anywhere(pool, g, required, prefer) ==
    LET spare == {r \in pool : Spare(AppOf[r]) > 0}
        before(r, S) == {s \in S : PreemptedBefore(s, r, pool, g)}
        target == IF prefer # {} THEN prefer
                  ELSE {ClusterID(r) : r \in {s \in spare : before(s, spare) = {}}}
        taken  == {r \in spare :
                     LET same == {s \in spare : AppOf[s] = AppOf[r]}
                     IN  Cardinality(before(r, same)) < Spare(AppOf[r])}
        victims == {r \in taken : GPUsOf(before(r, taken)) < required}
    IN  [victims |-> victims, target |-> target]
(* Slip: min_replicas is not looked at. *)
SelectVictims_unprotected(pool, g, required, prefer) ==
    LET before(r, S) == {s \in S : PreemptedBefore(s, r, pool, g)}
        target == IF prefer # {} THEN prefer
                  ELSE {ClusterID(r) : r \in {s \in pool : before(s, pool) = {}}}
        taken  == {r \in pool : ClusterID(r) \in target}
        victims == {r \in taken : GPUsOf(before(r, taken)) < required}
    IN  [victims |-> victims, target |-> target]

(* selectVictims: in the order of the sort, the replicas of one cluster    *)
(* (prefer, if that is not empty, else that of the first) that their       *)
(* applications can spare, until their GPUs suffice.  prefer and target    *)
(* hold a cluster or nothing.                                              *)
SelectVictims(pool, g, required, prefer) ==
    LET spare == {r \in pool : Spare(AppOf[r]) > 0}
        before(r, S) == {s \in S : PreemptedBefore(s, r, pool, g)}
        target == IF prefer # {} THEN prefer
                  ELSE {ClusterID(r) : r \in {s \in spare : before(s, spare) = {}}}
        inTarget == {r \in spare : ClusterID(r) \in target}
        taken  == {r \in inTarget :
                     LET same == {s \in inTarget : AppOf[s] = AppOf[r]}
                     IN  Cardinality(before(r, same)) < Spare(AppOf[r])}
        victims == {r \in taken : GPUsOf(before(r, taken)) < required}
    IN  [victims |-> victims, target |-> target]

(* Slip: priority 1 comes first. *)
PreemptionPlan_higherFirst(a) ==
    LET g  == GPUsPerReplica[a]
        p1 == IF Priority[a] = 0 THEN SelectVictims(Candidates(a, 1), g, g, {})
              ELSE [victims |-> {}, target |-> {}]
        missing == g - GPUsOf(p1.victims)
        p2 == IF missing > 0 THEN SelectVictims(Candidates(a, 2), g, missing, p1.target)
              ELSE [victims |-> {}, target |-> p1.target]
    IN  [victims |-> p1.victims \cup p2.victims, target |-> p2.target]

(* The cascade: priority 2, then, for an application of priority 0, also   *)
(* priority 1 in the same cluster.                                         *)
PreemptionPlan(a) ==
    LET g  == GPUsPerReplica[a]
        p2 == SelectVictims(Candidates(a, 2), g, g, {})
        missing == g - GPUsOf(p2.victims)
        p1 == IF missing > 0 /\ Priority[a] = 0
              THEN SelectVictims(Candidates(a, 1), g, missing, p2.target)
              ELSE [victims |-> {}, target |-> p2.target]
    IN  [victims |-> p2.victims \cup p1.victims, target |-> p1.target]

CanPreempt(a) ==
    /\ Priority[a] # 2
    /\ GPUsOf(PreemptionPlan(a).victims) >= GPUsPerReplica[a]

-----------------------------------------------------------------------------

Init ==
    /\ snap \in Snapshots
    /\ pc = "idle"
    /\ todo = [a \in Apps |-> 0]
    /\ placing = NoApp
    /\ localReservations = [c \in Clusters |-> 0]
    /\ localAppPlacement = [a \in Apps |-> [c \in Clusters |-> 0]]
    /\ scaleDowns = {}
    /\ scaleUps = <<>>
    /\ refused = {}

(* The scaling decisions say by how much each application is to change:    *)
(* not at all if the change was not approved.                              *)
StartPlacement(delta) ==
    /\ pc = "idle"
    /\ \A a \in Apps : CountActiveReplicas(a) + delta[a] >= 0
    /\ todo' = delta
    /\ pc' = "scaleDowns"
    /\ UNCHANGED <<snap, placing, localReservations, localAppPlacement,
                   scaleDowns, scaleUps, refused>>

ScaleDown(a) ==
    /\ pc = "scaleDowns"
    /\ todo[a] < 0
    /\ \E vs \in ScaleDownVictims(a, -todo[a]) : scaleDowns' = scaleDowns \cup vs
    /\ todo' = [todo EXCEPT ![a] = 0]
    /\ UNCHANGED <<snap, pc, placing, localReservations, localAppPlacement,
                   scaleUps, refused>>

EndScaleDowns ==
    /\ pc = "scaleDowns"
    /\ \A a \in Apps : todo[a] >= 0
    /\ pc' = "scaleUps"
    /\ UNCHANGED <<snap, todo, placing, localReservations, localAppPlacement,
                   scaleDowns, scaleUps, refused>>

(* Slip: the applications come in any order. *)
Turn_unsorted(a) ==
    /\ pc = "scaleUps"
    /\ todo[a] > 0
    /\ placing # NoApp /\ placing # a => todo[placing] = 0

(* All replicas of an application are tried in a row, and nobody comes     *)
(* before those of higher priority.                                        *)
Turn(a) ==
    /\ pc = "scaleUps"
    /\ todo[a] > 0
    /\ placing # NoApp /\ placing # a => todo[placing] = 0
    /\ placing = a \/ \A b \in Apps : todo[b] > 0 => Priority[a] <= Priority[b]

Try(a) ==
    /\ Turn(a)
    /\ todo' = [todo EXCEPT ![a] = @ - 1]
    /\ placing' = a
    /\ UNCHANGED <<snap, pc, scaleDowns>>

(* The reservation and the scale-up of one more replica of a in c. *)
PlaceIn(a, c, victims) ==
    /\ localReservations' = [localReservations EXCEPT ![c] = @ + GPUsPerReplica[a]]
    /\ localAppPlacement' = [localAppPlacement EXCEPT ![a][c] = @ + 1]
    /\ scaleUps' = Append(scaleUps, [app |-> a, cluster |-> c, victims |-> victims])
    /\ UNCHANGED refused

PlaceReplica(a) ==
    /\ Try(a)
    /\ \E c \in Best(a) : PlaceIn(a, c, {})

Preempt(a) ==
    /\ Try(a)
    /\ Allowed(a) = {}
    /\ CanPreempt(a)
    /\ \E c \in PreemptionPlan(a).target : PlaceIn(a, c, PreemptionPlan(a).victims)

Refuse(a) ==
    /\ Try(a)
    /\ Allowed(a) = {}
    /\ ~CanPreempt(a)
    /\ refused' = refused \cup {a}
    /\ UNCHANGED <<localReservations, localAppPlacement, scaleUps>>

EndPlacement ==
    /\ pc = "scaleUps"
    /\ \A a \in Apps : todo[a] = 0
    /\ pc' = "decided"
    /\ UNCHANGED <<snap, todo, placing, localReservations, localAppPlacement,
                   scaleDowns, scaleUps, refused>>

ComputePlacement ==
    \/ \E delta \in Deltas : StartPlacement(delta)
    \/ \E a \in Apps : ScaleDown(a) \/ PlaceReplica(a) \/ Preempt(a) \/ Refuse(a)
    \/ EndScaleDowns
    \/ EndPlacement

-----------------------------------------------------------------------------
(* Properties. *)

TypeOK ==
    /\ snap \in SnapshotType
    /\ pc \in {"idle", "scaleDowns", "scaleUps", "decided"}
    /\ todo \in [Apps -> Int]
    /\ placing \in Apps \cup {NoApp}
    /\ localReservations \in [Clusters -> Nat]
    /\ localAppPlacement \in [Apps -> [Clusters -> Nat]]
    /\ scaleDowns \subseteq Replicas
    /\ scaleUps \in
         Seq([app : Apps, cluster : Clusters, victims : SUBSET Replicas])
    /\ refused \subseteq Apps

Victims == UNION {scaleUps[i].victims : i \in DOMAIN scaleUps}

(* The GPUs that the scale-ups in cluster c need, of those given by is. *)
GPUsFor(c, is) ==
    Sum([i \in DOMAIN scaleUps |-> GPUsPerReplica[scaleUps[i].app]],
        {i \in is : scaleUps[i].cluster = c})

(* Replicas that were placed because a cluster had room never take more    *)
(* than the room it had, however many applications were placed there and   *)
(* whatever other cycles have reserved.                                    *)
PlacedWhereRoom ==
    \A c \in Clusters :
        LET placed == {i \in DOMAIN scaleUps : scaleUps[i].victims = {}}
        IN  GPUsFor(c, placed) > 0 =>
              GPUsFor(c, placed) <= FreeOn(ReadyNodes(c)) - snap.reserved[c]

OfOneSize(a) == \A r, s \in ReplicasForApp(a) : GPUs[r] = GPUs[s]

(* min_replicas holds for all preemptions of a cycle together: each search *)
(* counts only its own victims, but of an application whose replicas have  *)
(* one size they all take the same ones.                                   *)
MinReplicasKept ==
    \A a \in Apps :
        LET lost == {r \in Victims : AppOf[r] = a}
        IN  OfOneSize(a) /\ lost # {} =>
              CountActiveReplicas(a) - Cardinality(lost) >= MinReplicas[a]

(* An application of priority 1 loses replicas to one of priority 0 only   *)
(* if those of priority 2 in that cluster were not enough: all that could  *)
(* be spared there go as well.                                             *)
CascadeKept ==
    \A i \in DOMAIN scaleUps :
        LET u == scaleUps[i]
            lost(a) == {r \in u.victims : AppOf[r] = a}
            there(a) == ReplicasInCluster(a, u.cluster)
        IN  (\E r \in u.victims : Priority[AppOf[r]] = 1) =>
              \A a \in Apps :
                  Priority[a] = 2 => \/ lost(a) = there(a)
                                    \/ Cardinality(lost(a)) >= Spare(a)

(* The spread rule never stops a replica: as long as a cluster has room,   *)
(* one of those with room is below its limit.                              *)
SpreadNeverBlocks ==
    pc = "scaleUps" =>
        \A a \in Apps : todo[a] > 0 /\ Eligible(a) # {} => Allowed(a) # {}

(* Once an application was refused a replica, nobody after it gets as many *)
(* GPUs, by a different choice of victims or otherwise: priorities decide  *)
(* who is left out.                                                        *)
NoPriorityInversion ==
    [][\A a \in refused, b \in Apps :
         /\ \A v \in Apps : OfOneSize(v)
         /\ localAppPlacement'[b] # localAppPlacement[b]
         => GPUsPerReplica[b] < GPUsPerReplica[a]]_vars

(* A cluster that has the model in a better tier is never passed over for  *)
(* one that packs tighter or is emptier.                                   *)
CacheDominates ==
    [][\A a \in Apps, c, d \in Clusters :
         /\ localAppPlacement'[a][c] > localAppPlacement[a][c]
         /\ d \in Allowed(a)
         => CacheScore(a, c) >= CacheScore(a, d)]_vars

=============================================================================
