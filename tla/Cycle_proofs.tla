---------------------------- MODULE Cycle_proofs ----------------------------
(***************************************************************************)
(* Theorems about the decisions of a cycle and the plan made of them, for  *)
(* every configuration, snapshot and set of scaling decisions.             *)
(***************************************************************************)
EXTENDS Cycle, DataLemmas

-----------------------------------------------------------------------------
(* The operators that the decisions are made with. *)

LEMMA ClusterIDType ==
    ASSUME snap \in SnapshotType, NEW r \in Tracked
    PROVE  ClusterID(r) \in Clusters
<1>1. snap.place \in [Replicas -> Nodes \cup {NoNode}] /\ r \in Replicas
    BY DEF SnapshotType, Tracked
<1>2. snap.place[r] \in Nodes
    BY <1>1 DEF Tracked
<1> QED BY <1>2, SnapshotAssumption DEF ClusterID

LEMMA GPUsOfIsNat ==
    ASSUME NEW rs \in SUBSET Replicas
    PROVE  GPUsOf(rs) \in Nat
<1>1. IsFiniteSet(rs) /\ \A r \in rs : GPUs[r] \in Nat
    BY SnapshotAssumption, FS_Subset
<1> QED BY <1>1, SumIsNat DEF GPUsOf

(* selectVictims chooses replicas of the cluster it returns.               *)
LEMMA SelectVictimsChooses ==
    ASSUME snap \in SnapshotType, NEW pool \in SUBSET Tracked, NEW g, NEW required,
           NEW prefer \in SUBSET Clusters
    PROVE  LET sv == SelectVictims(pool, g, required, prefer)
           IN  /\ sv.victims \in SUBSET pool
               /\ \A r \in sv.victims : ClusterID(r) \in sv.target
               /\ sv.target \in SUBSET Clusters
BY ClusterIDType DEF SelectVictims

(* The clusters of two replicas none of which comes before the other are   *)
(* the same.                                                               *)
LEMMA FirstCluster ==
    ASSUME snap \in SnapshotType, NEW pool \in SUBSET Tracked, NEW g,
           NEW r \in pool, NEW s \in pool,
           ~PreemptedBefore(r, s, pool, g), ~PreemptedBefore(s, r, pool, g)
    PROVE  ClusterID(r) = ClusterID(s)
<1> DEFINE freeable(x) == GPUsOf({y \in pool : ClusterID(y) = ClusterID(x)})
<1>1. freeable(r) \in Nat /\ freeable(s) \in Nat
    BY GPUsOfIsNat DEF Tracked
<1>2. ClusterID(r) \in Nat /\ ClusterID(s) \in Nat
    BY ClusterIDType, SnapshotAssumption
<1>3. ~(freeable(r) > freeable(s)) /\ ~(freeable(s) > freeable(r))
    BY DEF PreemptedBefore
<1>4. freeable(r) = freeable(s)
    <2> HIDE DEF freeable
    <2> QED BY <1>1, <1>3
<1>5. ~(ClusterID(r) < ClusterID(s)) /\ ~(ClusterID(s) < ClusterID(r))
    BY <1>4 DEF PreemptedBefore
<1> QED BY <1>2, <1>5

(* selectVictims returns at most one cluster.                              *)
LEMMA OneTarget ==
    ASSUME snap \in SnapshotType, NEW pool \in SUBSET Tracked, NEW g, NEW required,
           NEW prefer, \A c, d \in prefer : c = d,
           NEW c \in SelectVictims(pool, g, required, prefer).target,
           NEW d \in SelectVictims(pool, g, required, prefer).target
    PROVE  c = d
<1> DEFINE spare == {r \in pool : Spare(AppOf[r]) > 0}
           before(r) == {s \in spare : PreemptedBefore(s, r, pool, g)}
           first == {r \in spare : before(r) = {}}
<1>1. CASE prefer # {}
    BY <1>1 DEF SelectVictims
<1>2. CASE prefer = {}
    <2>1. SelectVictims(pool, g, required, prefer).target = {ClusterID(r) : r \in first}
        BY <1>2 DEF SelectVictims
    <2>2. PICK r \in first, s \in first : c = ClusterID(r) /\ d = ClusterID(s)
        BY <2>1
    <2>3. ~PreemptedBefore(r, s, pool, g) /\ ~PreemptedBefore(s, r, pool, g)
        BY <2>2
    <2> QED BY <2>2, <2>3, FirstCluster
<1> QED BY <1>1, <1>2

(* All victims of the cascade are in the cluster it decides for.           *)
LEMMA PreemptionPlanChooses ==
    ASSUME snap \in SnapshotType, NEW a \in Apps
    PROVE  /\ PreemptionPlan(a).victims \in SUBSET Tracked
           /\ PreemptionPlan(a).target \in SUBSET Clusters
           /\ \A r \in PreemptionPlan(a).victims, c \in PreemptionPlan(a).target :
                 ClusterID(r) = c
<1> DEFINE g  == GPUsPerReplica[a]
           p2 == SelectVictims(Candidates(a, 2), g, g, {})
           missing == g - GPUsOf(p2.victims)
           p1 == SelectVictims(Candidates(a, 1), g, missing, p2.target)
<1>1. Candidates(a, 1) \in SUBSET Tracked /\ Candidates(a, 2) \in SUBSET Tracked
    BY DEF Candidates
<1>2. /\ p2.victims \in SUBSET Tracked
      /\ p2.target \in SUBSET Clusters
      /\ \A r \in p2.victims : ClusterID(r) \in p2.target
    <2> DEFINE pool == Candidates(a, 2)
    <2>1. pool \in SUBSET Tracked /\ {} \in SUBSET Clusters
        BY <1>1
    <2> HIDE DEF pool, g
    <2>2. /\ SelectVictims(pool, g, g, {}).victims \in SUBSET pool
          /\ SelectVictims(pool, g, g, {}).target \in SUBSET Clusters
          /\ \A r \in SelectVictims(pool, g, g, {}).victims :
                ClusterID(r) \in SelectVictims(pool, g, g, {}).target
        BY <2>1, SelectVictimsChooses
    <2> QED BY <2>1, <2>2 DEF pool
<1>3. \A c, d \in p2.target : c = d
    BY <1>1, OneTarget
<1>4. /\ p1.victims \in SUBSET Tracked
      /\ p1.target \in SUBSET Clusters
      /\ \A r \in p1.victims : ClusterID(r) \in p1.target
      /\ p2.target # {} => p1.target = p2.target
    <2> DEFINE pool == Candidates(a, 1)
               prefer == p2.target
    <2>1. pool \in SUBSET Tracked /\ prefer \in SUBSET Clusters
        BY <1>1, <1>2
    <2> HIDE DEF pool, g, missing, prefer, p2, p1
    <2>2. /\ SelectVictims(pool, g, missing, prefer).victims \in SUBSET pool
          /\ SelectVictims(pool, g, missing, prefer).target \in SUBSET Clusters
          /\ \A r \in SelectVictims(pool, g, missing, prefer).victims :
                ClusterID(r) \in SelectVictims(pool, g, missing, prefer).target
        BY <2>1, SelectVictimsChooses
    <2>3. prefer # {} => SelectVictims(pool, g, missing, prefer).target = prefer
        BY DEF SelectVictims
    <2> QED BY <2>1, <2>2, <2>3 DEF pool, prefer, p1
<1>5. \A c, d \in p1.target : c = d
    BY <1>1, <1>3, OneTarget
<1>6. CASE missing > 0 /\ Priority[a] = 0
    <2>1. PreemptionPlan(a) = [victims |-> p2.victims \cup p1.victims, target |-> p1.target]
        BY <1>6 DEF PreemptionPlan
    <2>2. \A r \in p2.victims : ClusterID(r) \in p1.target
        BY <1>2, <1>4
    <2> HIDE DEF p1, p2
    <2> QED BY <2>1, <2>2, <1>2, <1>4, <1>5
<1>7. CASE ~(missing > 0 /\ Priority[a] = 0)
    <2>1. PreemptionPlan(a) = [victims |-> p2.victims \cup {}, target |-> p2.target]
        BY <1>7 DEF PreemptionPlan
    <2> HIDE DEF p1, p2
    <2> QED BY <2>1, <1>2, <1>3
<1> QED BY <1>6, <1>7

-----------------------------------------------------------------------------
(* Types. *)

LEMMA BestType ==
    ASSUME NEW a \in Apps
    PROVE  Best(a) \in SUBSET Clusters
BY DEF Best, Allowed, Eligible

LEMMA PlaceInType ==
    ASSUME TypeOK, NEW a \in Apps, NEW c \in Clusters, NEW victims \in SUBSET Replicas,
           Try(a), PlaceIn(a, c, victims)
    PROVE  TypeOK'
<1> DEFINE u == [app |-> a, cluster |-> c, victims |-> victims]
           Ups == [app : Apps, cluster : Clusters, victims : SUBSET Replicas]
<1>1. GPUsPerReplica[a] \in Nat
    BY SnapshotAssumption
<1>2. localReservations' \in [Clusters -> Nat]
    BY <1>1 DEF TypeOK, PlaceIn
<1>3. localAppPlacement' \in [Apps -> [Clusters -> Nat]]
    <2>1. /\ localAppPlacement \in [Apps -> [Clusters -> Nat]]
          /\ localAppPlacement' = [localAppPlacement EXCEPT ![a][c] = @ + 1]
        BY DEF TypeOK, PlaceIn
    <2>2. localAppPlacement[a] \in [Clusters -> Nat]
        BY <2>1
    <2>3. [localAppPlacement[a] EXCEPT ![c] = @ + 1] \in [Clusters -> Nat]
        BY <2>2
    <2> QED BY <2>1, <2>3
<1>4. scaleUps' \in Seq(Ups)
    <2>1. u \in Ups
        OBVIOUS
    <2>2. scaleUps \in Seq(Ups) /\ scaleUps' = Append(scaleUps, u)
        BY DEF TypeOK, PlaceIn
    <2> HIDE DEF u, Ups
    <2> QED BY <2>1, <2>2
<1>5. todo' \in [Apps -> Int] /\ placing' \in Apps \cup {NoApp}
    BY DEF TypeOK, Try
<1>6. UNCHANGED <<snap, pc, scaleDowns, refused>>
    BY DEF Try, PlaceIn
<1> QED BY <1>2, <1>3, <1>4, <1>5, <1>6 DEF TypeOK

LEMMA PlacementTypes ==
    ASSUME TypeOK, ComputePlacement
    PROVE  TypeOK'
<1>1. ASSUME NEW delta \in Deltas, StartPlacement(delta)
      PROVE  TypeOK'
    BY <1>1, PlacementAssumption DEF TypeOK, StartPlacement
<1>2. ASSUME NEW a \in Apps, ScaleDown(a)
      PROVE  TypeOK'
    <2>1. PICK vs \in ScaleDownVictims(a, -todo[a]) : scaleDowns' = scaleDowns \cup vs
        BY <1>2 DEF ScaleDown
    <2>2. vs \in SUBSET Replicas
        BY <2>1 DEF ScaleDownVictims, ReplicasForApp, Tracked, kSubset
    <2> QED BY <1>2, <2>1, <2>2 DEF TypeOK, ScaleDown
<1>3. ASSUME NEW a \in Apps, PlaceReplica(a)
      PROVE  TypeOK'
    BY <1>3, BestType, PlaceInType DEF PlaceReplica
<1>4. ASSUME NEW a \in Apps, Preempt(a)
      PROVE  TypeOK'
    <2>1. PICK c \in PreemptionPlan(a).target : PlaceIn(a, c, PreemptionPlan(a).victims)
        BY <1>4 DEF Preempt
    <2>2. c \in Clusters /\ PreemptionPlan(a).victims \in SUBSET Replicas
        BY <2>1, PreemptionPlanChooses DEF TypeOK, Tracked
    <2>3. Try(a)
        BY <1>4 DEF Preempt
    <2> QED BY <2>1, <2>2, <2>3, PlaceInType
<1>5. ASSUME NEW a \in Apps, Refuse(a)
      PROVE  TypeOK'
    BY <1>5 DEF TypeOK, Refuse, Try
<1>6. CASE EndScaleDowns
    BY <1>6 DEF TypeOK, EndScaleDowns
<1>7. CASE EndPlacement
    BY <1>7 DEF TypeOK, EndPlacement
<1> QED BY <1>1, <1>2, <1>3, <1>4, <1>5, <1>6, <1>7 DEF ComputePlacement

LEMMA InitTypes ==
    ASSUME Init
    PROVE  TypeOK
<1>1. snap \in SnapshotType
    BY PlacementAssumption DEF Init
<1>2. scaleUps \in Seq([app : Apps, cluster : Clusters, victims : SUBSET Replicas])
    BY DEF Init
<1>3. localReservations \in [Clusters -> Nat] /\ todo \in [Apps -> Int]
    BY DEF Init
<1>4. localAppPlacement \in [Apps -> [Clusters -> Nat]]
    BY DEF Init
<1> QED BY <1>1, <1>2, <1>3, <1>4 DEF Init, TypeOK

LEMMA CycleTypes ==
    ASSUME TypeOK, [CycleNext]_cycleVars
    PROVE  TypeOK'
<1>1. CASE ComputePlacement
    BY <1>1, PlacementTypes
<1>2. CASE UNCHANGED vars
    BY <1>2 DEF TypeOK, vars
<1> QED BY <1>1, <1>2 DEF CycleNext, Place, Rebalance, Validate, CycleOver, cycleVars

(* The types of the decisions (Placement!TypeOK).                          *)
THEOREM TypeOKHolds == CycleSpec => []TypeOK
<1>1. CycleInit => TypeOK
    BY InitTypes DEF CycleInit
<1>2. TypeOK /\ [CycleNext]_cycleVars => TypeOK'
    BY CycleTypes
<1> QED BY <1>1, <1>2, PTL DEF CycleSpec

-----------------------------------------------------------------------------
(* Victims. *)

(* What a placement does to the list of scale-ups: it adds one at its end.  *)
Appended(u) ==
    /\ DOMAIN scaleUps = 1 .. Len(scaleUps) /\ Len(scaleUps) \in Nat
    /\ DOMAIN scaleUps' = DOMAIN scaleUps \cup {Len(scaleUps) + 1}
    /\ \A i \in DOMAIN scaleUps : scaleUps'[i] = scaleUps[i]
    /\ scaleUps'[Len(scaleUps) + 1] = u

ScaleUpOf(a, c, victims) == [app |-> a, cluster |-> c, victims |-> victims]

LEMMA PlaceInAppends ==
    ASSUME TypeOK, NEW a, NEW c, NEW victims, PlaceIn(a, c, victims)
    PROVE  Appended(ScaleUpOf(a, c, victims))
<1> DEFINE u == ScaleUpOf(a, c, victims)
           Ups == [app : Apps, cluster : Clusters, victims : SUBSET Replicas]
<1>1. scaleUps \in Seq(Ups)
    BY DEF TypeOK
<1>2. scaleUps' = Append(scaleUps, u)
    BY DEF PlaceIn, ScaleUpOf
<1> HIDE DEF u, Ups
<1>3. /\ DOMAIN scaleUps = 1 .. Len(scaleUps) /\ Len(scaleUps) \in Nat
      /\ DOMAIN scaleUps' = 1 .. Len(scaleUps) + 1
    BY <1>1, <1>2
<1>4. 1 .. Len(scaleUps) + 1 = (1 .. Len(scaleUps)) \cup {Len(scaleUps) + 1}
    BY <1>3
<1>5. /\ \A i \in 1 .. Len(scaleUps) : scaleUps'[i] = scaleUps[i]
      /\ scaleUps'[Len(scaleUps) + 1] = u
    BY <1>1, <1>2
<1> QED BY <1>3, <1>4, <1>5 DEF u, Appended

VictimsInCluster ==
    \A i \in DOMAIN scaleUps : \A r \in scaleUps[i].victims :
        ClusterID(r) = scaleUps[i].cluster

LEMMA VictimsInClusterStep ==
    ASSUME TypeOK, VictimsInCluster, [CycleNext]_cycleVars
    PROVE  VictimsInCluster'
<1>1. ASSUME NEW a \in Apps, NEW c, NEW victims, Try(a), PlaceIn(a, c, victims),
             \A r \in victims : ClusterID(r) = c
      PROVE  VictimsInCluster'
    <2>1. snap' = snap
        BY <1>1 DEF Try
    <2>2. /\ DOMAIN scaleUps' = DOMAIN scaleUps \cup {Len(scaleUps) + 1}
          /\ \A i \in DOMAIN scaleUps : scaleUps'[i] = scaleUps[i]
          /\ scaleUps'[Len(scaleUps) + 1] = [app |-> a, cluster |-> c, victims |-> victims]
        <3>1. Appended(ScaleUpOf(a, c, victims))
            BY <1>1, PlaceInAppends, ZenonT(60)
        <3> QED BY <3>1 DEF Appended, ScaleUpOf
    <2>3. /\ scaleUps'[Len(scaleUps) + 1].victims = victims
          /\ scaleUps'[Len(scaleUps) + 1].cluster = c
        BY <2>2
    <2> QED BY <2>1, <2>2, <2>3, <1>1 DEF VictimsInCluster, ClusterID
<1>2. ASSUME NEW a \in Apps, PlaceReplica(a)
      PROVE  VictimsInCluster'
    <2>1. PICK c \in Best(a) : PlaceIn(a, c, {})
        BY <1>2 DEF PlaceReplica
    <2>2. Try(a)
        BY <1>2 DEF PlaceReplica
    <2> QED BY <2>1, <2>2, <1>1
<1>3. ASSUME NEW a \in Apps, Preempt(a)
      PROVE  VictimsInCluster'
    <2>1. PICK c \in PreemptionPlan(a).target : PlaceIn(a, c, PreemptionPlan(a).victims)
        BY <1>3 DEF Preempt
    <2>2. Try(a)
        BY <1>3 DEF Preempt
    <2>3. \A r \in PreemptionPlan(a).victims : ClusterID(r) = c
        BY <2>1, PreemptionPlanChooses DEF TypeOK
    <2> QED BY <2>1, <2>2, <2>3, <1>1
<1>4. CASE UNCHANGED <<snap, scaleUps>>
    BY <1>4 DEF VictimsInCluster, ClusterID
<1>5. CASE ComputePlacement
    BY <1>2, <1>3, <1>4, <1>5
       DEF ComputePlacement, StartPlacement, ScaleDown, EndScaleDowns, Refuse, Try, EndPlacement
<1> QED BY <1>4, <1>5 DEF CycleNext, Place, Rebalance, Validate, CycleOver, cycleVars, vars

LEMMA VictimsInClusterHolds == CycleSpec => []VictimsInCluster
<1>1. CycleInit => VictimsInCluster
    BY DEF CycleInit, Init, VictimsInCluster
<1>2. TypeOK /\ VictimsInCluster /\ [CycleNext]_cycleVars => VictimsInCluster'
    BY VictimsInClusterStep
<1> QED BY <1>1, <1>2, TypeOKHolds, PTL DEF CycleSpec

(* A scale-up waits for all of its victims (Cycle!RoomIsMadeFirst), though *)
(* GeneratePlan ties operations together by cluster only.                  *)
THEOREM RoomIsMadeFirstHolds == CycleSpec => []RoomIsMadeFirst
<1>1. VictimsInCluster => RoomIsMadeFirst
    <2> SUFFICES ASSUME VictimsInCluster,
                        NEW i \in DOMAIN scaleUps, NEW r \in scaleUps[i].victims
                 PROVE  <<"preempt", i, r>> \in DependsOn(<<"scaleUp", i, 0>>)
        BY DEF RoomIsMadeFirst
    <2>1. <<"preempt", i, r>> \in PreemptOps
        BY DEF PreemptOps
    <2>2. ClusterID(r) = scaleUps[i].cluster
        BY DEF VictimsInCluster
    <2>3. <<"preempt", i, r>> \in ClusterPreemptionOps(scaleUps[i].cluster)
        BY <2>1, <2>2 DEF ClusterPreemptionOps
    <2>4. DependsOn(<<"scaleUp", i, 0>>) = ClusterPreemptionOps(scaleUps[i].cluster)
        BY DEF DependsOn
    <2> QED BY <2>3, <2>4
<1> QED BY <1>1, VictimsInClusterHolds, PTL

-----------------------------------------------------------------------------
(* The plan. *)

(* Operations depend on operations of an earlier kind only.                *)
LEMMA Levels ==
    /\ \A o \in PreemptOps \cup ScaleDownOps : DependsOn(o) = {}
    /\ \A o \in ScaleUpOps \cup MigrationUpOps : DependsOn(o) \subseteq PreemptOps
    /\ \A o \in MigrationDownOps : DependsOn(o) \subseteq MigrationUpOps
<1>1. ASSUME NEW i, NEW r
      PROVE  DependsOn(<<"preempt", i, r>>) = {} /\ DependsOn(<<"scaleDown", i, r>>) = {}
    <2>1. DependsOn(<<"preempt", i, r>>) = {}
        BY ZenonT(60) DEF DependsOn
    <2>2. DependsOn(<<"scaleDown", i, r>>) = {}
        BY ZenonT(60) DEF DependsOn
    <2> QED BY <2>1, <2>2
<1>2. ASSUME NEW i, NEW r
      PROVE  /\ DependsOn(<<"scaleUp", i, r>>) \subseteq PreemptOps
             /\ DependsOn(<<"migrateUp", i, r>>) \subseteq PreemptOps
    <2>1. DependsOn(<<"scaleUp", i, r>>) = ClusterPreemptionOps(scaleUps[i].cluster)
        BY ZenonT(60) DEF DependsOn
    <2>2. DependsOn(<<"migrateUp", i, r>>) = ClusterPreemptionOps(migrations[r])
        BY ZenonT(60) DEF DependsOn
    <2>3. \A c : ClusterPreemptionOps(c) \subseteq PreemptOps
        BY DEF ClusterPreemptionOps
    <2> QED BY <2>1, <2>2, <2>3
<1>3. ASSUME NEW r \in DOMAIN migrations
      PROVE  DependsOn(<<"migrateDown", 0, r>>) \subseteq MigrationUpOps
    <2>1. DependsOn(<<"migrateDown", 0, r>>) = {<<"migrateUp", 0, r>>}
        BY ZenonT(60) DEF DependsOn
    <2>2. <<"migrateUp", 0, r>> \in MigrationUpOps
        BY DEF MigrationUpOps
    <2> QED BY <2>1, <2>2
<1>4. \A o \in PreemptOps \cup ScaleDownOps : DependsOn(o) = {}
    <2>1. ASSUME NEW o \in PreemptOps PROVE DependsOn(o) = {}
        <3>1. PICK i \in DOMAIN scaleUps : \E r \in scaleUps[i].victims : o = <<"preempt", i, r>>
            BY DEF PreemptOps
        <3>2. PICK r : o = <<"preempt", i, r>>
            BY <3>1
        <3> QED BY <3>2, <1>1
    <2>2. ASSUME NEW o \in ScaleDownOps PROVE DependsOn(o) = {}
        <3>1. PICK r : o = <<"scaleDown", 0, r>>
            BY DEF ScaleDownOps
        <3> QED BY <3>1, <1>1
    <2> QED BY <2>1, <2>2
<1>5. \A o \in ScaleUpOps \cup MigrationUpOps : DependsOn(o) \subseteq PreemptOps
    <2>1. ASSUME NEW o \in ScaleUpOps PROVE DependsOn(o) \subseteq PreemptOps
        <3>1. PICK i : o = <<"scaleUp", i, 0>>
            BY DEF ScaleUpOps
        <3> QED BY <3>1, <1>2
    <2>2. ASSUME NEW o \in MigrationUpOps PROVE DependsOn(o) \subseteq PreemptOps
        <3>1. PICK r : o = <<"migrateUp", 0, r>>
            BY DEF MigrationUpOps
        <3> QED BY <3>1, <1>2
    <2> QED BY <2>1, <2>2
<1>6. \A o \in MigrationDownOps : DependsOn(o) \subseteq MigrationUpOps
    <2> SUFFICES ASSUME NEW o \in MigrationDownOps
                 PROVE  DependsOn(o) \subseteq MigrationUpOps
        OBVIOUS
    <2>1. PICK r \in DOMAIN migrations : o = <<"migrateDown", 0, r>>
        BY DEF MigrationDownOps
    <2> QED BY <2>1, <1>3
<1> QED BY <1>4, <1>5, <1>6

(* Every plan of GeneratePlan is closed and acyclic                        *)
(* (Cycle!PlanWellFounded), which is what Executor assumes of its plans:   *)
(* among any operations there is one that depends on none of the others.   *)
THEOREM PlanWellFoundedHolds == CycleSpec => []PlanWellFounded
<1>1. PlanWellFounded
    <2>1. ASSUME NEW o \in Ops
          PROVE  DependsOn(o) \subseteq Ops
        BY Levels DEF Ops
    <2>2. ASSUME NEW S \in SUBSET Ops, S # {}
          PROVE  \E o \in S : DependsOn(o) \cap S = {}
        <3>1. CASE S \cap (PreemptOps \cup ScaleDownOps) # {}
            BY <3>1, Levels
        <3>2. CASE /\ S \cap (PreemptOps \cup ScaleDownOps) = {}
                   /\ S \cap (ScaleUpOps \cup MigrationUpOps) # {}
            BY <3>2, Levels
        <3>3. CASE /\ S \cap (PreemptOps \cup ScaleDownOps) = {}
                   /\ S \cap (ScaleUpOps \cup MigrationUpOps) = {}
            <4>1. PICK o \in S : o \in MigrationDownOps
                BY <2>2, <3>3 DEF Ops
            <4> QED BY <3>3, <4>1, Levels
        <3> QED BY <3>1, <3>2, <3>3
    <2> QED BY <2>1, <2>2 DEF PlanWellFounded
<1> QED BY <1>1, PTL

-----------------------------------------------------------------------------
(* Room. *)

PlacedIn(c) == {i \in DOMAIN scaleUps : scaleUps[i].victims = {} /\ scaleUps[i].cluster = c}

Need == [i \in DOMAIN scaleUps |-> GPUsPerReplica[scaleUps[i].app]]

LEMMA GPUsForPlaced ==
    ASSUME NEW c
    PROVE  GPUsFor(c, {i \in DOMAIN scaleUps : scaleUps[i].victims = {}}) = Sum(Need, PlacedIn(c))
<1>1. {i \in {j \in DOMAIN scaleUps : scaleUps[j].victims = {}} : scaleUps[i].cluster = c}
        = PlacedIn(c)
    BY DEF PlacedIn
<1> QED BY <1>1 DEF GPUsFor, Need

LEMMA NeedType ==
    ASSUME TypeOK, NEW c
    PROVE  /\ IsFiniteSet(PlacedIn(c))
           /\ \A i \in PlacedIn(c) : Need[i] \in Nat
           /\ Sum(Need, PlacedIn(c)) \in Nat
<1> DEFINE Ups == [app : Apps, cluster : Clusters, victims : SUBSET Replicas]
<1>1. scaleUps \in Seq(Ups)
    BY DEF TypeOK
<1>2. /\ Len(scaleUps) \in Nat /\ DOMAIN scaleUps = 1 .. Len(scaleUps)
      /\ \A i \in DOMAIN scaleUps : scaleUps[i] \in Ups
    <2> HIDE DEF Ups
    <2> QED BY <1>1
<1>3. IsFiniteSet(PlacedIn(c))
    <2>1. IsFiniteSet(1 .. Len(scaleUps))
        BY <1>2, FS_Interval
    <2>2. PlacedIn(c) \in SUBSET (1 .. Len(scaleUps))
        BY <1>2 DEF PlacedIn
    <2> QED BY <2>1, <2>2, FS_Subset
<1>4. \A i \in DOMAIN scaleUps : Need[i] \in Nat
    BY <1>2, SnapshotAssumption DEF Need
<1>5. \A i \in PlacedIn(c) : Need[i] \in Nat
    BY <1>4 DEF PlacedIn
<1> QED BY <1>3, <1>5, SumIsNat

(* A scale-up without victims adds its need to that of its cluster, one    *)
(* with victims adds nothing.                                              *)
NeedAfter(a, c, victims, d) ==
    Sum(Need, PlacedIn(d))' =
      IF d = c /\ victims = {} THEN Sum(Need, PlacedIn(d)) + GPUsPerReplica[a]
      ELSE Sum(Need, PlacedIn(d))

LEMMA NeedGrows ==
    ASSUME TypeOK, NEW a \in Apps, NEW c \in Clusters, NEW victims, PlaceIn(a, c, victims),
           NEW d \in Clusters
    PROVE  NeedAfter(a, c, victims, d)
<1> DEFINE n == Len(scaleUps) + 1
<1>1. /\ DOMAIN scaleUps = 1 .. Len(scaleUps) /\ Len(scaleUps) \in Nat
      /\ DOMAIN scaleUps' = DOMAIN scaleUps \cup {n}
      /\ \A i \in DOMAIN scaleUps : scaleUps'[i] = scaleUps[i]
      /\ scaleUps'[n] = [app |-> a, cluster |-> c, victims |-> victims]
    <2>1. Appended(ScaleUpOf(a, c, victims))
        BY PlaceInAppends, ZenonT(60)
    <2> QED BY <2>1 DEF Appended, ScaleUpOf
<1>2. n \notin DOMAIN scaleUps
    BY <1>1
<1>3. \A i \in PlacedIn(d) : Need'[i] = Need[i]
    BY <1>1 DEF PlacedIn, Need
<1>4. Sum(Need', PlacedIn(d)) = Sum(Need, PlacedIn(d))
    BY <1>3, SumSame
<1>5. CASE d = c /\ victims = {}
    <2>1. PlacedIn(d)' = PlacedIn(d) \cup {n}
        BY <1>1, <1>2, <1>5 DEF PlacedIn
    <2>2. Need'[n] = GPUsPerReplica[a] /\ GPUsPerReplica[a] \in Nat
        BY <1>1, SnapshotAssumption DEF Need
    <2>3. n \notin PlacedIn(d)
        BY <1>2 DEF PlacedIn
    <2>4. IsFiniteSet(PlacedIn(d)) /\ \A i \in PlacedIn(d) : Need'[i] \in Nat
        BY <1>3, NeedType
    <2>5. Sum(Need', PlacedIn(d) \cup {n}) = Sum(Need', PlacedIn(d)) + Need'[n]
        BY <2>2, <2>3, <2>4, SumAdd
    <2> QED BY <2>1, <2>2, <2>5, <1>4, <1>5 DEF NeedAfter
<1>6. CASE ~(d = c /\ victims = {})
    <2>1. PlacedIn(d)' = PlacedIn(d)
        BY <1>1, <1>2, <1>6 DEF PlacedIn
    <2> QED BY <2>1, <1>4, <1>6 DEF NeedAfter
<1> QED BY <1>5, <1>6

Room(c) == FreeOn(ReadyNodes(c)) - snap.reserved[c]

LEMMA RoomType ==
    ASSUME TypeOK, NEW c \in Clusters
    PROVE  Room(c) \in Int
<1>1. TotalOn(ReadyNodes(c)) \in Nat
    <2>1. /\ ReadyNodes(c) \in SUBSET Nodes /\ IsFiniteSet(Nodes)
          /\ \A n \in ReadyNodes(c) : TotalGPUs[n] \in Nat
        BY SnapshotAssumption DEF ReadyNodes, NodesOf
    <2>2. IsFiniteSet(ReadyNodes(c))
        BY <2>1, FS_Subset
    <2> QED BY <2>1, <2>2, SumIsNat DEF TotalOn
<1>2. GPUsOf({r \in Replicas : snap.place[r] \in ReadyNodes(c)}) \in Nat
    BY GPUsOfIsNat
<1>3. snap.reserved[c] \in Nat
    BY DEF TypeOK, SnapshotType
<1> QED BY <1>1, <1>2, <1>3 DEF Room, FreeOn

(* What was placed without victims is among what was reserved, and the     *)
(* room was there.                                                         *)
RoomAccounted ==
    \A c \in Clusters :
        /\ Sum(Need, PlacedIn(c)) <= localReservations[c]
        /\ Sum(Need, PlacedIn(c)) > 0 => Sum(Need, PlacedIn(c)) <= Room(c)

LEMMA RoomAccountedStep ==
    ASSUME TypeOK, RoomAccounted, [CycleNext]_cycleVars
    PROVE  RoomAccounted'
<1>1. ASSUME NEW a \in Apps, NEW c \in Clusters, NEW victims, Try(a), PlaceIn(a, c, victims),
             victims = {} => Room(c) - localReservations[c] >= GPUsPerReplica[a]
      PROVE  RoomAccounted'
    <2> SUFFICES ASSUME NEW d \in Clusters
                 PROVE  /\ Sum(Need, PlacedIn(d))' <= localReservations'[d]
                        /\ Sum(Need, PlacedIn(d))' > 0 => Sum(Need, PlacedIn(d))' <= Room(d)'
        BY DEF RoomAccounted
    <2>1. Room(d)' = Room(d)
        BY <1>1 DEF Try, Room, FreeOn, ReadyNodes
    <2>2. Sum(Need, PlacedIn(d))' =
             IF d = c /\ victims = {} THEN Sum(Need, PlacedIn(d)) + GPUsPerReplica[a]
             ELSE Sum(Need, PlacedIn(d))
        <3>1. NeedAfter(a, c, victims, d)
            BY <1>1, NeedGrows, ZenonT(60)
        <3> QED BY <3>1 DEF NeedAfter
    <2>3. localReservations'[d] =
             IF d = c THEN localReservations[d] + GPUsPerReplica[a] ELSE localReservations[d]
        BY <1>1 DEF PlaceIn, TypeOK
    <2>4. /\ GPUsPerReplica[a] \in Nat
          /\ Sum(Need, PlacedIn(d)) \in Nat
          /\ localReservations[d] \in Nat
          /\ Room(d) \in Int
        BY SnapshotAssumption, NeedType, RoomType DEF TypeOK
    <2>5. /\ Sum(Need, PlacedIn(d)) <= localReservations[d]
          /\ Sum(Need, PlacedIn(d)) > 0 => Sum(Need, PlacedIn(d)) <= Room(d)
        BY DEF RoomAccounted
    <2> QED BY <1>1, <2>1, <2>2, <2>3, <2>4, <2>5
<1>2. ASSUME NEW a \in Apps, PlaceReplica(a)
      PROVE  RoomAccounted'
    <2>1. PICK c \in Best(a) : PlaceIn(a, c, {})
        BY <1>2 DEF PlaceReplica
    <2>2. Try(a)
        BY <1>2 DEF PlaceReplica
    <2>3. c \in Clusters /\ Room(c) - localReservations[c] >= GPUsPerReplica[a]
        BY <2>1 DEF Best, Allowed, Eligible, ClusterAvailableGPUs, Room
    <2> QED BY <2>1, <2>2, <2>3, <1>1
<1>3. ASSUME NEW a \in Apps, Preempt(a)
      PROVE  RoomAccounted'
    <2>1. PICK c \in PreemptionPlan(a).target : PlaceIn(a, c, PreemptionPlan(a).victims)
        BY <1>3 DEF Preempt
    <2>2. Try(a) /\ GPUsOf(PreemptionPlan(a).victims) >= GPUsPerReplica[a]
        BY <1>3 DEF Preempt, CanPreempt
    <2>3. GPUsOf({}) = 0
        BY SumOfNothing DEF GPUsOf
    <2>4. GPUsPerReplica[a] \in Nat \ {0}
        BY SnapshotAssumption
    <2>5. PreemptionPlan(a).victims # {}
        BY <2>2, <2>3, <2>4
    <2>6. c \in Clusters
        BY <2>1, PreemptionPlanChooses DEF TypeOK
    <2> QED BY <2>1, <2>2, <2>5, <2>6, <1>1
<1>4. CASE UNCHANGED <<snap, scaleUps, localReservations>>
    BY <1>4 DEF RoomAccounted, Need, PlacedIn, Room, FreeOn, ReadyNodes
<1>5. CASE ComputePlacement
    BY <1>2, <1>3, <1>4, <1>5
       DEF ComputePlacement, StartPlacement, ScaleDown, EndScaleDowns, Refuse, Try, EndPlacement
<1> QED BY <1>4, <1>5 DEF CycleNext, Place, Rebalance, Validate, CycleOver, cycleVars, vars

(* Placements by room never take more than the room the snapshot shows     *)
(* (Placement!PlacedWhereRoom), reservations of earlier cycles excluded.   *)
THEOREM PlacedWhereRoomHolds == CycleSpec => []PlacedWhereRoom
<1>1. CycleInit => RoomAccounted
    <2> SUFFICES ASSUME CycleInit, NEW c \in Clusters
                 PROVE  Sum(Need, PlacedIn(c)) = 0 /\ localReservations[c] = 0
        BY DEF RoomAccounted
    <2>1. PlacedIn(c) = {}
        BY DEF CycleInit, Init, PlacedIn
    <2> QED BY <2>1, SumOfNothing DEF CycleInit, Init
<1>2. TypeOK /\ RoomAccounted /\ [CycleNext]_cycleVars => RoomAccounted'
    BY RoomAccountedStep
<1>3. RoomAccounted => PlacedWhereRoom
    BY GPUsForPlaced DEF RoomAccounted, PlacedWhereRoom, Room
<1> QED BY <1>1, <1>2, <1>3, TypeOKHolds, PTL DEF CycleSpec

-----------------------------------------------------------------------------
(* Migrations. *)

LEMMA TotalOnType ==
    ASSUME NEW ns \in SUBSET Nodes
    PROVE  TotalOn(ns) \in Nat
<1>1. IsFiniteSet(ns) /\ \A n \in ns : TotalGPUs[n] \in Nat
    BY SnapshotAssumption, FS_Subset
<1> QED BY <1>1, SumIsNat DEF TotalOn

LEMMA FreeOnType ==
    ASSUME NEW ns \in SUBSET Nodes
    PROVE  FreeOn(ns) \in Int
<1>1. GPUsOf({r \in Replicas : snap.place[r] \in ns}) \in Nat
    BY GPUsOfIsNat
<1>2. TotalOn(ns) \in Nat
    BY TotalOnType
<1> QED BY <1>1, <1>2 DEF FreeOn

(* What FindRebalancingOpportunities returns are moves it accepted.        *)
LEMMA MovesAccepted ==
    ASSUME NEW ms \in RebalancingOpportunities
    PROVE  /\ DOMAIN ms \subseteq Tracked
           /\ \A r \in DOMAIN ms : ms[r] \in Clusters /\ Accepted(r, ms[r])
<1> DEFINE considered == {r \in Movable : ConsolidationTargets(r) # {}}
           accepted(t) == {r \in considered : Accepted(r, t[r])}
<1>1. PICK t \in [considered -> Clusters] : \E rs \in SUBSET accepted(t) :
          ms = [r \in rs |-> t[r]]
    BY DEF RebalancingOpportunities, kSubset
<1>2. PICK rs \in SUBSET accepted(t) : ms = [r \in rs |-> t[r]]
    BY <1>1
<1>3. \A r \in rs : r \in considered /\ Accepted(r, t[r])
    BY <1>2
<1> QED BY <1>2, <1>3 DEF Movable

(* A move to a cluster that is not larger improves nothing: the shares of  *)
(* used GPUs change by g out of the GPUs of each cluster.                  *)
LEMMA LargerOnly ==
    ASSUME snap \in SnapshotType, NEW r \in Tracked, NEW c \in Clusters, Accepted(r, c)
    PROVE  TotalOn(NodesOf(c)) > TotalOn(NodesOf(ClusterID(r)))
<1> DEFINE td == TotalOn(NodesOf(c))
           tc == TotalOn(NodesOf(ClusterID(r)))
           fd == FreeOn(NodesOf(c))
           fc == FreeOn(NodesOf(ClusterID(r)))
           g  == GPUs[r]
<1>1. td \in Nat /\ tc \in Nat /\ fd \in Int /\ fc \in Int
    BY TotalOnType, FreeOnType DEF NodesOf
<1>2. g \in Nat
    BY SnapshotAssumption DEF Tracked
<1>3. tc * td > 0 /\ 100 * FragmentationDelta(ClusterID(r), c, g) >= 15 * (tc * td)
    BY DEF Accepted, Worthwhile, MinFragmentationDelta
<1>4. tc # 0 /\ td # 0
    <2> HIDE DEF tc, td
    <2> QED BY <1>1, <1>3
<1>5. FragmentationDelta(ClusterID(r), c, g)
        = td * ((tc - fc) - (tc - (fc + g))) + tc * ((td - fd) - (td - (fd - g)))
    BY <1>4 DEF FragmentationDelta, Fragmentation
<1> HIDE DEF tc, td, fc, fd, g
<1>6. (tc - fc) - (tc - (fc + g)) = g /\ (td - fd) - (td - (fd - g)) = -g
    BY <1>1, <1>2
<1>7. FragmentationDelta(ClusterID(r), c, g) = td * g + tc * (-g)
    BY <1>5, <1>6
<1>8. td * g + tc * (-g) = g * (td - tc)
    BY <1>1, <1>2
<1>9. g * (td - tc) > 0
    <2>1. g * (td - tc) \in Int /\ tc * td \in Nat
        BY <1>1, <1>2
    <2> QED BY <2>1, <1>3, <1>7, <1>8
<1>10. td - tc > 0
    <2>1. ASSUME NEW x \in Int, x <= 0, NEW k \in Nat PROVE ~(k * x > 0)
        BY <2>1
    <2> QED BY <2>1, <1>1, <1>2, <1>9
<1> QED BY <1>1, <1>10 DEF td, tc

LEMMA NoWayBackStep ==
    ASSUME TypeOK, NoWayBack, [CycleNext]_cycleVars
    PROVE  NoWayBack'
<1>1. snap' = snap
    BY DEF CycleNext, Place, Rebalance, Validate, CycleOver, cycleVars, vars, ComputePlacement,
           StartPlacement, ScaleDown, EndScaleDowns, PlaceReplica, Preempt, Refuse, Try,
           EndPlacement
<1>2. CASE migrations' = migrations
    BY <1>1, <1>2 DEF NoWayBack, ClusterID
<1>3. CASE Rebalance
    <2> SUFFICES ASSUME NEW r \in DOMAIN migrations'
                 PROVE  TotalOn(NodesOf(migrations'[r])) > TotalOn(NodesOf(ClusterID(r)))
        BY <1>1 DEF NoWayBack, ClusterID
    <2>1. r \in Tracked /\ migrations'[r] \in Clusters /\ Accepted(r, migrations'[r])
        BY <1>3, MovesAccepted DEF Rebalance
    <2> QED BY <2>1, LargerOnly DEF TypeOK
<1> QED BY <1>2, <1>3 DEF CycleNext, Place, Validate, CycleOver, cycleVars

(* Rebalancing moves replicas to clusters with more GPUs only              *)
(* (Cycle!NoWayBack): an improvement of the fragmentation score, which     *)
(* counts what is used, can only come from a larger divisor.               *)
THEOREM NoWayBackHolds == CycleSpec => []NoWayBack
<1>1. CycleInit => NoWayBack
    BY DEF CycleInit, NoWayBack
<1>2. TypeOK /\ NoWayBack /\ [CycleNext]_cycleVars => NoWayBack'
    BY NoWayBackStep
<1> QED BY <1>1, <1>2, TypeOKHolds, PTL DEF CycleSpec

(* What was validated is a plan that stops none of its applications'       *)
(* replicas by preemption.                                                 *)
Judged ==
    /\ phase # "deciding" => pc = "decided"
    /\ phase = "valid" => CheckNoSelfPreemption

LEMMA JudgedStep ==
    ASSUME Judged, [CycleNext]_cycleVars
    PROVE  Judged'
<1>1. CASE UNCHANGED <<scaleUps, migrations>> /\ UNCHANGED <<pc, phase>>
    BY <1>1 DEF Judged, CheckNoSelfPreemption, Victims, ScaledUp
<1>2. CASE Place
    <2>1. pc # "decided" /\ phase' = phase
        BY <1>2 DEF Place, ComputePlacement, StartPlacement, ScaleDown, EndScaleDowns,
                    PlaceReplica, Preempt, Refuse, Try, Turn, EndPlacement
    <2> QED BY <2>1 DEF Judged
<1>3. CASE Rebalance
    BY <1>3 DEF Rebalance, Judged, vars
<1>4. CASE Validate
    <2>1. pc' = pc /\ (CheckNoSelfPreemption' <=> CheckNoSelfPreemption)
        BY <1>4 DEF Validate, vars, CheckNoSelfPreemption, Victims, ScaledUp
    <2> QED BY <1>4, <2>1 DEF Validate, Judged
<1> QED BY <1>1, <1>2, <1>3, <1>4 DEF CycleNext, CycleOver, cycleVars, vars

(* No plan that is executed stops a replica both by preemption and by      *)
(* migration (Cycle!NoPreemptedMigration), though the engines that decide  *)
(* on them do not know of each other: validatePlan looks at the            *)
(* applications.                                                           *)
THEOREM NoPreemptedMigrationHolds == CycleSpec => []NoPreemptedMigration
<1>1. CycleInit => Judged
    BY DEF CycleInit, Judged
<1>2. Judged /\ [CycleNext]_cycleVars => Judged'
    BY JudgedStep
<1>3. Judged => NoPreemptedMigration
    BY DEF Judged, CheckNoSelfPreemption, NoPreemptedMigration, ScaledUp
<1> QED BY <1>1, <1>2, <1>3, PTL DEF CycleSpec

-----------------------------------------------------------------------------
(* Scores. *)

LEMMA FreeGPUsType ==
    ASSUME NEW n \in Nodes
    PROVE  FreeGPUs(n) \in Int
<1>1. GPUsOf(ReplicasOn(snap.place, n)) \in Nat
    BY GPUsOfIsNat DEF ReplicasOn
<1>2. TotalGPUs[n] \in Nat
    BY SnapshotAssumption
<1> QED BY <1>1, <1>2 DEF FreeGPUs

LEMMA FreeAtMostTotal ==
    ASSUME NEW ns \in SUBSET Nodes
    PROVE  FreeOn(ns) <= TotalOn(ns)
<1>1. GPUsOf({r \in Replicas : snap.place[r] \in ns}) \in Nat
    BY GPUsOfIsNat
<1> QED BY <1>1, TotalOnType DEF FreeOn

LEMMA CacheScores ==
    ASSUME NEW a \in Apps, NEW c
    PROVE  CacheScore(a, c) \in {0, 100, 500, 1000}
<1> DEFINE scores == {0} \cup {WeightCache[l.tier] : l \in {k \in CacheLocations[a] : k.cluster = c}}
<1>1. \A l \in CacheLocations[a] : l.tier \in Tiers
    BY SnapshotAssumption
<1>2. \A t \in Tiers : WeightCache[t] \in {100, 500, 1000}
    BY DEF Tiers, WeightCache
<1>3. scores \in SUBSET {0, 100, 500, 1000} /\ 0 \in scores
    BY <1>1, <1>2
<1>4. \E x \in scores : \A y \in scores : x >= y
    <2> HIDE DEF scores
    <2> QED BY <1>3
<1> QED BY <1>3, <1>4 DEF CacheScore, Max

LEMMA PackingScores ==
    ASSUME TypeOK, NEW a \in Apps, NEW c \in Eligible(a)
    PROVE  PackingScore(a, c) \in 0 .. 8
<1> DEFINE g == GPUsPerReplica[a]
           fitting == {n \in ReadyNodes(c) : FreeGPUs(n) >= g}
           frees == {FreeGPUs(n) : n \in fitting}
<1>1. g \in Nat
    BY SnapshotAssumption
<1>2. \A n \in fitting : FreeGPUs(n) \in Int /\ FreeGPUs(n) >= g
    BY FreeGPUsType DEF ReadyNodes, NodesOf
<1>3. frees \in SUBSET Nat /\ frees # {}
    BY <1>1, <1>2 DEF Eligible, HasFittingNode
<1>4. \E m \in frees : \A n \in frees : m <= n
    <2> HIDE DEF frees
    <2> QED BY <1>3, LeastNat
<1>5. Min(frees) \in frees
    <2> HIDE DEF frees
    <2> QED BY <1>4 DEF Min
<1>6. Min(frees) \in Int /\ Min(frees) - g >= 0
    BY <1>1, <1>2, <1>5
<1>7. \A w \in Int : w >= 0 => Max({0, 8 - w}) \in 0 .. 8
    <2> SUFFICES ASSUME NEW w \in Int, w >= 0
                 PROVE  Max({0, 8 - w}) \in 0 .. 8
        OBVIOUS
    <2>1. \E x \in {0, 8 - w} : \A y \in {0, 8 - w} : x >= y
        OBVIOUS
    <2>2. /\ Max({0, 8 - w}) \in {0, 8 - w}
          /\ \A y \in {0, 8 - w} : Max({0, 8 - w}) >= y
        BY <2>1 DEF Max
    <2> QED BY <2>2
<1>8. PackingScore(a, c) = Max({0, 8 - (Min(frees) - g)})
    BY DEF PackingScore, MaxGPUsPerNode
<1> HIDE DEF frees, g
<1>9. Min(frees) - g \in Int
    BY <1>1, <1>6
<1> QED BY <1>6, <1>7, <1>8, <1>9

(* Packing and balance together weigh less than one tier of the cache.     *)
LEMMA CacheFirst ==
    ASSUME TypeOK, NEW a \in Apps, NEW c \in Best(a), NEW d \in Allowed(a)
    PROVE  CacheScore(a, c) >= CacheScore(a, d)
<1> DEFINE kc == CacheScore(a, c)       kd == CacheScore(a, d)
           pc1 == PackingScore(a, c)    pd == PackingScore(a, d)
           tc == TotalOn(ReadyNodes(c)) td == TotalOn(ReadyNodes(d))
           fc == FreeOn(ReadyNodes(c))  fd == FreeOn(ReadyNodes(d))
<1>1. c \in Eligible(a) /\ d \in Eligible(a) /\ c \in Clusters /\ d \in Clusters
    BY DEF Best, Allowed, Eligible
<1>2. kc \in {0, 100, 500, 1000} /\ kd \in {0, 100, 500, 1000}
    BY CacheScores
<1>3. pc1 \in 0 .. 8 /\ pd \in 0 .. 8
    BY <1>1, PackingScores
<1>4. ASSUME NEW e \in Eligible(a)
      PROVE  /\ TotalOn(ReadyNodes(e)) \in Nat /\ FreeOn(ReadyNodes(e)) \in Int
             /\ FreeOn(ReadyNodes(e)) <= TotalOn(ReadyNodes(e)) /\ FreeOn(ReadyNodes(e)) > 0
    <2>1. ReadyNodes(e) \in SUBSET Nodes /\ e \in Clusters
        BY DEF ReadyNodes, NodesOf, Eligible
    <2>2. /\ TotalOn(ReadyNodes(e)) \in Nat /\ FreeOn(ReadyNodes(e)) \in Int
          /\ FreeOn(ReadyNodes(e)) <= TotalOn(ReadyNodes(e))
        BY <2>1, TotalOnType, FreeOnType, FreeAtMostTotal
    <2>3. /\ snap.reserved[e] \in Nat /\ localReservations[e] \in Nat
          /\ GPUsPerReplica[a] \in Nat \ {0}
        BY <2>1, SnapshotAssumption DEF TypeOK, SnapshotType
    <2>4. FreeOn(ReadyNodes(e)) - snap.reserved[e] - localReservations[e] >= GPUsPerReplica[a]
        BY DEF Eligible, ClusterAvailableGPUs
    <2> QED BY <2>2, <2>3, <2>4
<1>5. /\ tc \in Nat /\ fc \in Int /\ fc <= tc /\ fc > 0
      /\ td \in Nat /\ fd \in Int /\ fd <= td /\ fd > 0
    BY <1>1, <1>4
<1>6. (kc * 8 * tc + 50 * pc1 * tc + 30 * 8 * fc) * td
        >= (kd * 8 * td + 50 * pd * td + 30 * 8 * fd) * tc
    BY DEF Best, Score, WeightFragmentation, WeightBalance, MaxGPUsPerNode
<1> HIDE DEF kc, kd, pc1, pd, tc, td, fc, fd
<1>7. ASSUME kd >= kc + 100 PROVE FALSE
    <2>1. kc * 8 * tc + 50 * pc1 * tc + 30 * 8 * fc <= (8 * kc + 640) * tc
        <3>1. pc1 * tc <= 8 * tc
            BY <1>3, <1>5
        <3>2. pc1 * tc \in Nat /\ kc * tc \in Nat
            BY <1>2, <1>3, <1>5
        <3>3. /\ kc * 8 * tc = 8 * (kc * tc) /\ 50 * pc1 * tc = 50 * (pc1 * tc)
              /\ (8 * kc + 640) * tc = 8 * (kc * tc) + 640 * tc
            BY <1>2, <1>3, <1>5
        <3> QED BY <3>1, <3>2, <3>3, <1>5
    <2>2. kd * 8 * td + 50 * pd * td + 30 * 8 * fd >= (8 * kc + 800) * td
        <3>1. pd * td >= 0 /\ pd * td \in Int
            BY <1>3, <1>5
        <3>2. kd * td >= (kc + 100) * td /\ kd * td \in Int
            BY <1>2, <1>5, <1>7
        <3>3. /\ kd * 8 * td = 8 * (kd * td) /\ 50 * pd * td = 50 * (pd * td)
              /\ (8 * kc + 800) * td = 8 * ((kc + 100) * td)
              /\ (kc + 100) * td \in Int
            BY <1>2, <1>3, <1>5
        <3> QED BY <3>1, <3>2, <3>3, <1>5
    <2> DEFINE x == kc * 8 * tc + 50 * pc1 * tc + 30 * 8 * fc
               y == kd * 8 * td + 50 * pd * td + 30 * 8 * fd
    <2>3. x \in Int /\ y \in Int /\ x * td >= y * tc
        BY <1>2, <1>3, <1>5, <1>6
    <2>4. x <= (8 * kc + 640) * tc /\ y >= (8 * kc + 800) * td
        BY <2>1, <2>2
    <2> HIDE DEF x, y
    <2>5. x * td <= ((8 * kc + 640) * tc) * td
        BY <1>2, <1>5, <2>3, <2>4
    <2>6. y * tc >= ((8 * kc + 800) * td) * tc
        BY <1>2, <1>5, <2>3, <2>4
    <2>7. /\ ((8 * kc + 640) * tc) * td = (8 * kc + 640) * (tc * td)
          /\ ((8 * kc + 800) * td) * tc = (8 * kc + 800) * (tc * td)
        BY <1>2, <1>5
    <2>8. tc * td > 0 /\ tc * td \in Int
        BY <1>5
    <2>9. (8 * kc + 800) * (tc * td) = (8 * kc + 640) * (tc * td) + 160 * (tc * td)
        BY <1>2, <2>8
    <2>10. x * td \in Int /\ y * tc \in Int /\ (8 * kc + 640) * (tc * td) \in Int
        BY <1>2, <1>5, <2>3, <2>8
    <2> QED BY <2>3, <2>5, <2>6, <2>7, <2>8, <2>9, <2>10
<1> QED BY <1>2, <1>7 DEF kc, kd

(* The cluster chosen has the model in the best tier any allowed cluster   *)
(* has it in (Placement!CacheDominates), however the clusters are packed   *)
(* and used.                                                               *)
THEOREM CacheDominatesHolds == CycleSpec => CacheDominates
<1> DEFINE Better == \A a \in Apps, c, d \in Clusters :
                        /\ localAppPlacement'[a][c] > localAppPlacement[a][c]
                        /\ d \in Allowed(a)
                        => CacheScore(a, c) >= CacheScore(a, d)
<1>1. ASSUME TypeOK, [CycleNext]_cycleVars
      PROVE  [Better]_vars
    <2> SUFFICES ASSUME NEW a \in Apps, NEW c \in Clusters, NEW d \in Clusters,
                        localAppPlacement'[a][c] > localAppPlacement[a][c], d \in Allowed(a)
                 PROVE  CacheScore(a, c) >= CacheScore(a, d)
        OBVIOUS
    <2>1. localAppPlacement[a][c] \in Nat
        BY <1>1 DEF TypeOK
    <2>2. localAppPlacement' # localAppPlacement
        BY <2>1
    <2>3. PICK b \in Apps : PlaceReplica(b) \/ Preempt(b)
        BY <1>1, <2>2
           DEF CycleNext, Place, Rebalance, Validate, CycleOver, cycleVars, vars, ComputePlacement,
               StartPlacement, ScaleDown, EndScaleDowns, Refuse, EndPlacement
    <2>4. ASSUME NEW e, NEW victims, PlaceIn(b, e, victims)
          PROVE  b = a /\ e = c
        <3>1. localAppPlacement' = [localAppPlacement EXCEPT ![b][e] = @ + 1]
            BY <2>4 DEF PlaceIn
        <3>2. localAppPlacement \in [Apps -> [Clusters -> Nat]]
            BY <1>1 DEF TypeOK
        <3> QED BY <2>1, <3>1, <3>2
    <2>5. ASSUME PlaceReplica(b) PROVE CacheScore(a, c) >= CacheScore(a, d)
        <3>1. PICK e \in Best(b) : PlaceIn(b, e, {})
            BY <2>5 DEF PlaceReplica
        <3>2. c \in Best(a)
            BY <3>1, <2>4
        <3> QED BY <1>1, <3>2, CacheFirst
    <2>6. ASSUME Preempt(b) PROVE FALSE
        <3>1. PICK e \in PreemptionPlan(b).target : PlaceIn(b, e, PreemptionPlan(b).victims)
            BY <2>6 DEF Preempt
        <3>2. Allowed(a) = {}
            BY <2>6, <3>1, <2>4 DEF Preempt
        <3> QED BY <3>2
    <2> QED BY <2>3, <2>5, <2>6
<1> QED BY <1>1, TypeOKHolds, PTL DEF CycleSpec, CacheDominates

-----------------------------------------------------------------------------
(* Spreading. *)

(* An equal share of more than n, rounded up, is more than n in all.       *)
LEMMA EqualShare ==
    ASSUME NEW n \in Nat, NEW k \in Nat, k > 0
    PROVE  /\ (n + 1 + k - 1) \div k \in Nat
           /\ k * ((n + 1 + k - 1) \div k) > n
<1>1. n + 1 + k - 1 = n + k
    OBVIOUS
<1>2. (n + k) \div k \in Nat /\ k * ((n + k) \div k) > n
    OBVIOUS
<1> QED BY <1>1, <1>2

(* Where the replicas of a are, with those placed in this cycle. *)
Shares(a) == [c \in Clusters |-> AppReplicasIn(a, c)]
OwnIn(a, cs) == {r \in ReplicasForApp(a) : ClusterID(r) \in cs}

LEMMA OwnFinite ==
    ASSUME NEW a, NEW S \in SUBSET ReplicasForApp(a)
    PROVE  IsFiniteSet(S) /\ Cardinality(S) \in Nat
<1>1. S \in SUBSET Replicas /\ IsFiniteSet(Replicas)
    BY SnapshotAssumption DEF ReplicasForApp, Tracked
<1> QED BY <1>1, FS_Subset, FS_CardinalityType

LEMMA SharesType ==
    ASSUME TypeOK, NEW a \in Apps
    PROVE  /\ \A c \in Clusters : Shares(a)[c] \in Nat /\ localAppPlacement[a][c] \in Nat
           /\ \A cs \in SUBSET Clusters : IsFiniteSet(cs)
           /\ IsFiniteSet(Clusters)
<1>1. ASSUME NEW c \in Clusters
      PROVE  Shares(a)[c] \in Nat /\ localAppPlacement[a][c] \in Nat
    <2>1. Cardinality(ReplicasInCluster(a, c)) \in Nat
        BY OwnFinite DEF ReplicasInCluster
    <2>2. localAppPlacement[a][c] \in Nat
        BY DEF TypeOK
    <2> QED BY <2>1, <2>2 DEF Shares, AppReplicasIn
<1>2. IsFiniteSet(Clusters)
    BY SnapshotAssumption
<1> QED BY <1>1, <1>2, FS_Subset

(* The shares of some clusters are the replicas there and those placed.    *)
SharesAddUp(a, cs) ==
    Sum(Shares(a), cs) = Cardinality(OwnIn(a, cs)) + Sum(localAppPlacement[a], cs)

LEMMA SharesSum ==
    ASSUME TypeOK, NEW a \in Apps
    PROVE  SharesAddUp(a, Clusters)
<1> DEFINE bad == {cs \in SUBSET Clusters : ~SharesAddUp(a, cs)}
<1>1. SUFFICES ASSUME bad # {} PROVE FALSE
    OBVIOUS
<1>2. PICK cs \in bad : \A c \in cs : cs \ {c} \notin bad
    <2>1. IsFiniteSet(Clusters) /\ bad \in SUBSET (SUBSET Clusters)
        BY SharesType
    <2> HIDE DEF bad
    <2> QED BY <1>1, <2>1, SmallestSet
<1>3. cs \in SUBSET Clusters /\ ~SharesAddUp(a, cs)
    OBVIOUS
<1>4. CASE cs = {}
    <2> DEFINE none == {}
    <2>1. OwnIn(a, none) = {}
        BY DEF OwnIn
    <2>2. Cardinality(OwnIn(a, none)) = 0
        BY <2>1, FS_EmptySet
    <2>3. Sum(Shares(a), none) = 0 /\ Sum(localAppPlacement[a], none) = 0
        BY SumOfNothing
    <2>4. SharesAddUp(a, none)
        BY <2>2, <2>3 DEF SharesAddUp
    <2> QED BY <1>3, <1>4, <2>4
<1>5. CASE cs # {}
    <2>1. PICK c \in cs : TRUE
        BY <1>5
    <2> DEFINE rest == cs \ {c}
    <2>2. SharesAddUp(a, rest)
        BY <1>2, <1>3, <2>1
    <2>3. c \in Clusters /\ rest \in SUBSET Clusters /\ c \notin rest /\ cs = rest \cup {c}
        BY <1>3, <2>1
    <2> HIDE DEF rest, bad
    <2>4. IsFiniteSet(rest)
        BY <2>3, SharesType
    <2>5. \A d \in rest : Shares(a)[d] \in Nat /\ localAppPlacement[a][d] \in Nat
        BY <2>3, SharesType
    <2>6. Shares(a)[c] \in Nat /\ localAppPlacement[a][c] \in Nat
        BY <2>3, SharesType
    <2>7. Sum(Shares(a), cs) = Sum(Shares(a), rest) + Shares(a)[c]
        BY <2>3, <2>4, <2>5, <2>6, SumAdd
    <2>8. Sum(localAppPlacement[a], cs)
            = Sum(localAppPlacement[a], rest) + localAppPlacement[a][c]
        BY <2>3, <2>4, <2>5, <2>6, SumAdd
    <2>9. /\ OwnIn(a, cs) = OwnIn(a, rest) \cup ReplicasInCluster(a, c)
          /\ OwnIn(a, rest) \cap ReplicasInCluster(a, c) = {}
        BY <2>3 DEF OwnIn, ReplicasInCluster
    <2>10. /\ IsFiniteSet(OwnIn(a, rest)) /\ Cardinality(OwnIn(a, rest)) \in Nat
           /\ IsFiniteSet(ReplicasInCluster(a, c)) /\ Cardinality(ReplicasInCluster(a, c)) \in Nat
        BY OwnFinite DEF OwnIn, ReplicasInCluster
    <2>11. Cardinality(OwnIn(a, cs)) = Cardinality(OwnIn(a, rest)) + Cardinality(ReplicasInCluster(a, c))
        <3>1. Cardinality(OwnIn(a, rest) \cup ReplicasInCluster(a, c))
                = Cardinality(OwnIn(a, rest)) + Cardinality(ReplicasInCluster(a, c))
                    - Cardinality(OwnIn(a, rest) \cap ReplicasInCluster(a, c))
            BY <2>10, FS_Union
        <3>2. Cardinality(OwnIn(a, rest) \cap ReplicasInCluster(a, c)) = 0
            BY <2>9, FS_EmptySet
        <3> QED BY <2>9, <2>10, <3>1, <3>2
    <2>12. Shares(a)[c] = Cardinality(ReplicasInCluster(a, c)) + localAppPlacement[a][c]
        BY <2>3 DEF Shares, AppReplicasIn
    <2>13. /\ Sum(Shares(a), rest) \in Nat /\ Sum(localAppPlacement[a], rest) \in Nat
        BY <2>4, <2>5, SumIsNat
    <2>14. Sum(Shares(a), cs) = Cardinality(OwnIn(a, cs)) + Sum(localAppPlacement[a], cs)
        BY <2>2, <2>6, <2>7, <2>8, <2>10, <2>11, <2>12, <2>13 DEF SharesAddUp
    <2> QED BY <1>3, <2>14 DEF SharesAddUp
<1> QED BY <1>4, <1>5

(* One of the clusters with room has less than its share.                  *)
LEMMA SpreadAllows ==
    ASSUME TypeOK, NEW a \in Apps, Eligible(a) # {}
    PROVE  Allowed(a) # {}
<1> DEFINE q == SpreadLimit(a)
           E == Eligible(a)
<1>1. SUFFICES ASSUME a \in SpreadClusters, \A c \in E : ~(AppReplicasIn(a, c) < q)
               PROVE  FALSE
    BY DEF Allowed
<1>2. E \in SUBSET Clusters
    BY DEF Eligible
<1>3. IsFiniteSet(E) /\ Cardinality(E) \in Nat /\ Cardinality(E) > 0
    <2>1. IsFiniteSet(E)
        BY <1>2, SharesType
    <2>2. Cardinality(E) \in Nat /\ Cardinality(E) # 0
        BY <2>1, FS_CardinalityType, FS_EmptySet
    <2> QED BY <2>1, <2>2
<1>4. AppReplicas(a) = Sum(Shares(a), Clusters) /\ AppReplicas(a) \in Nat
    <2>1. OwnIn(a, Clusters) = ReplicasForApp(a)
        BY ClusterIDType DEF OwnIn, TypeOK, ReplicasForApp
    <2>2. Sum(Shares(a), Clusters) = AppReplicas(a)
        BY <2>1, SharesSum DEF SharesAddUp, AppReplicas, CountActiveReplicas
    <2>3. Sum(Shares(a), Clusters) \in Nat
        BY SharesType, SumIsNat
    <2> QED BY <2>2, <2>3
<1>5. Sum(Shares(a), E) <= Sum(Shares(a), Clusters)
    BY <1>2, SharesType, SumMonotone
<1>6. q \in Nat /\ Cardinality(E) * q > AppReplicas(a)
    <2> DEFINE n == AppReplicas(a)  k == Cardinality(E)
    <2>1. n \in Nat /\ k \in Nat /\ k > 0
        BY <1>3, <1>4
    <2>2. q = (n + 1 + k - 1) \div k
        BY DEF SpreadLimit
    <2> HIDE DEF n, k, q
    <2>3. q \in Nat /\ k * q > n
        BY <2>1, <2>2, EqualShare
    <2> QED BY <2>3 DEF n, k
<1>7. Sum(Shares(a), E) >= Cardinality(E) * q
    <2>1. \A c \in E : Shares(a)[c] \in Nat /\ Shares(a)[c] >= q
        <3> SUFFICES ASSUME NEW c \in E PROVE Shares(a)[c] \in Nat /\ Shares(a)[c] >= q
            OBVIOUS
        <3>1. Shares(a)[c] \in Nat /\ Shares(a)[c] = AppReplicasIn(a, c)
            BY <1>2, SharesType DEF Shares
        <3> QED BY <1>1, <1>6, <3>1
    <2> HIDE DEF E, q
    <2> QED BY <1>3, <1>6, <2>1, SumAtLeast
<1> HIDE DEF E, q
<1>8. Sum(Shares(a), E) \in Nat /\ Cardinality(E) * q \in Nat
    <2>1. \A c \in E : Shares(a)[c] \in Nat
        BY <1>2, SharesType
    <2>2. Sum(Shares(a), E) \in Nat
        BY <1>3, <2>1, SumIsNat
    <2> QED BY <1>3, <1>6, <2>2
<1> QED BY <1>4, <1>5, <1>6, <1>7, <1>8

(* The spread rule stops no replica (Placement!SpreadNeverBlocks): as the  *)
(* limit is an equal share rounded up, among only the clusters with room,  *)
(* not all of these can be at it, wherever the replicas are.               *)
THEOREM SpreadNeverBlocksHolds == CycleSpec => []SpreadNeverBlocks
<1>1. TypeOK => SpreadNeverBlocks
    BY SpreadAllows DEF SpreadNeverBlocks
<1> QED BY <1>1, TypeOKHolds, PTL

-----------------------------------------------------------------------------
(* The search for victims, taken apart: SelectVictims with its local       *)
(* definitions made global.                                                *)

LEMMA GPUsOfGrows ==
    ASSUME NEW rs \in SUBSET Replicas, NEW ss \in SUBSET rs
    PROVE  GPUsOf(ss) <= GPUsOf(rs)
<1>1. IsFiniteSet(rs) /\ \A r \in rs : GPUs[r] \in Nat
    BY SnapshotAssumption, FS_Subset
<1> QED BY <1>1, SumMonotone DEF GPUsOf

(* The candidates of a priority, and those that can be spared.             *)
TrackedWith(p) == {r \in Tracked : Priority[AppOf[r]] = p}
Spared(pool)   == {r \in pool : Spare(AppOf[r]) > 0}

(* What the order of the search compares.                                  *)
Freeable(r, pool) == GPUsOf({y \in pool : ClusterID(y) = ClusterID(r)})
Misfit(r, g) == IF GPUs[r] >= g THEN GPUs[r] - g ELSE g - GPUs[r]

Before(r, S, pool, g) == {s \in S : PreemptedBefore(s, r, pool, g)}

(* The cluster that is searched, the replicas looked at and taken there,   *)
(* and those of them that are needed.                                      *)
FirstClusters(pool, g) ==
    {ClusterID(r) : r \in {s \in Spared(pool) : Before(s, Spared(pool), pool, g) = {}}}
Target(pool, g, prefer) == IF prefer # {} THEN prefer ELSE FirstClusters(pool, g)

There(pool, target) == {r \in Spared(pool) : ClusterID(r) \in target}
OwnThere(a, pool, target) == {s \in There(pool, target) : AppOf[s] = a}
Taken(pool, g, target) ==
    {r \in There(pool, target) :
        Cardinality(Before(r, OwnThere(AppOf[r], pool, target), pool, g)) < Spare(AppOf[r])}
Enough(S, pool, g, required) == {r \in S : GPUsOf(Before(r, S, pool, g)) < required}

LEMMA SelectVictimsParts ==
    ASSUME NEW pool, NEW g, NEW required, NEW prefer
    PROVE  LET target == Target(pool, g, prefer)
           IN  SelectVictims(pool, g, required, prefer) =
                 [victims |-> Enough(Taken(pool, g, target), pool, g, required),
                  target  |-> target]
BY DEF SelectVictims, Target, FirstClusters, Before, Spared, There, OwnThere, Taken, Enough

LEMMA OrderedBy ==
    ASSUME NEW r, NEW s, NEW pool, NEW g
    PROVE  PreemptedBefore(r, s, pool, g) <=>
             \/ Freeable(r, pool) > Freeable(s, pool)
             \/ /\ Freeable(r, pool) = Freeable(s, pool)
                /\ \/ ClusterID(r) < ClusterID(s)
                   \/ /\ ClusterID(r) = ClusterID(s)
                      /\ \/ Misfit(r, g) < Misfit(s, g)
                         \/ Misfit(r, g) = Misfit(s, g) /\ r < s
BY DEF PreemptedBefore, Freeable, Misfit

LEMMA KeysType ==
    ASSUME snap \in SnapshotType, NEW pool \in SUBSET Tracked, NEW g \in Nat, NEW r \in Tracked
    PROVE  /\ Freeable(r, pool) \in Nat /\ ClusterID(r) \in Nat
           /\ Misfit(r, g) \in Nat /\ r \in Nat
<1>1. r \in Replicas /\ pool \in SUBSET Replicas
    BY DEF Tracked
<1>2. Freeable(r, pool) \in Nat
    BY <1>1, GPUsOfIsNat DEF Freeable
<1>3. GPUs[r] \in Nat
    BY <1>1, SnapshotAssumption
<1>4. Misfit(r, g) \in Nat
    BY <1>3 DEF Misfit
<1> QED BY <1>1, <1>2, <1>4, ClusterIDType, SnapshotAssumption

(* The order of the search is a strict and total one.                      *)
LEMMA SearchOrder ==
    ASSUME snap \in SnapshotType, NEW pool \in SUBSET Tracked, NEW g \in Nat
    PROVE  /\ \A r \in Tracked : ~PreemptedBefore(r, r, pool, g)
           /\ \A r, s \in Tracked :
                 r # s => PreemptedBefore(r, s, pool, g) \/ PreemptedBefore(s, r, pool, g)
           /\ \A r, s, t \in Tracked :
                 PreemptedBefore(r, s, pool, g) /\ PreemptedBefore(s, t, pool, g)
                   => PreemptedBefore(r, t, pool, g)
<1>1. ASSUME NEW r \in Tracked PROVE ~PreemptedBefore(r, r, pool, g)
    BY <1>1, OrderedBy, KeysType
<1>2. ASSUME NEW r \in Tracked, NEW s \in Tracked, r # s
      PROVE  PreemptedBefore(r, s, pool, g) \/ PreemptedBefore(s, r, pool, g)
    BY <1>2, OrderedBy, KeysType
<1>3. ASSUME NEW r \in Tracked, NEW s \in Tracked, NEW t \in Tracked,
             PreemptedBefore(r, s, pool, g), PreemptedBefore(s, t, pool, g)
      PROVE  PreemptedBefore(r, t, pool, g)
    <2>1. \A q \in {r, s, t} : /\ Freeable(q, pool) \in Nat /\ ClusterID(q) \in Nat
                               /\ Misfit(q, g) \in Nat /\ q \in Nat
        BY KeysType
    <2>2. Freeable(r, pool) >= Freeable(s, pool) /\ Freeable(s, pool) >= Freeable(t, pool)
        BY <1>3, <2>1, OrderedBy
    <2>3. CASE Freeable(r, pool) > Freeable(t, pool)
        BY <2>3, OrderedBy
    <2>4. CASE Freeable(r, pool) = Freeable(t, pool)
        <3>1. Freeable(r, pool) = Freeable(s, pool) /\ Freeable(s, pool) = Freeable(t, pool)
            BY <2>1, <2>2, <2>4
        <3> QED BY <1>3, <2>1, <3>1, OrderedBy
    <2> QED BY <2>1, <2>2, <2>3, <2>4
<1> QED BY <1>1, <1>2, <1>3

LEMMA BeforePrecedes ==
    ASSUME snap \in SnapshotType, NEW pool \in SUBSET Tracked, NEW g \in Nat,
           NEW S \in SUBSET Tracked
    PROVE  IsFiniteSet(S) /\ Precedes([r \in S |-> Before(r, S, pool, g)], S)
<1>1. IsFiniteSet(S)
    BY SnapshotAssumption, FS_Subset DEF Tracked
<1>2. ASSUME NEW r \in S
      PROVE  /\ r \notin Before(r, S, pool, g)
             /\ \A s \in Before(r, S, pool, g) :
                   Before(s, S, pool, g) \subseteq Before(r, S, pool, g)
    BY SearchOrder DEF Before
<1>3. \A r \in S : Before(r, S, pool, g) \in SUBSET S
    BY DEF Before
<1> QED BY <1>1, <1>2, <1>3 DEF Precedes

(* Victims are taken until their GPUs suffice, or until none is left.      *)
LEMMA EnoughTaken ==
    ASSUME snap \in SnapshotType, NEW pool \in SUBSET Tracked, NEW g \in Nat,
           NEW S \in SUBSET Tracked, NEW required \in Int
    PROVE  LET vs == Enough(S, pool, g, required)
           IN  /\ vs \in SUBSET S
               /\ vs = S \/ GPUsOf(vs) >= required
<1> DEFINE vs == Enough(S, pool, g, required)
           b == [r \in S |-> Before(r, S, pool, g)]
<1>1. vs \in SUBSET S
    BY DEF Enough
<1>2. ASSUME vs # S PROVE GPUsOf(vs) >= required
    <2>1. IsFiniteSet(S) /\ Precedes(b, S)
        BY BeforePrecedes
    <2>2. PICK r \in S \ vs : b[r] \subseteq vs
        <3> HIDE DEF b, vs
        <3> QED BY <1>1, <1>2, <2>1, FirstMissing
    <2>3. Before(r, S, pool, g) \in SUBSET vs /\ ~(GPUsOf(Before(r, S, pool, g)) < required)
        BY <2>2 DEF Enough
    <2>4. vs \in SUBSET Replicas
        BY <1>1 DEF Tracked
    <2>5. /\ GPUsOf(Before(r, S, pool, g)) <= GPUsOf(vs)
          /\ GPUsOf(Before(r, S, pool, g)) \in Nat /\ GPUsOf(vs) \in Nat
        BY <2>3, <2>4, GPUsOfGrows, GPUsOfIsNat
    <2> QED BY <2>3, <2>5
<1> QED BY <1>1, <1>2

(* Where there is something to spare, there is a first cluster, and it     *)
(* does not depend on who searches.                                        *)
LEMMA FirstClustersSame ==
    ASSUME snap \in SnapshotType, NEW pool \in SUBSET Tracked, NEW g \in Nat, NEW h \in Nat
    PROVE  /\ Spared(pool) # {} => FirstClusters(pool, g) # {}
           /\ FirstClusters(pool, g) \subseteq FirstClusters(pool, h)
<1>0. Spared(pool) \in SUBSET Tracked
    BY DEF Spared
<1>1. ASSUME NEW k \in Nat, Spared(pool) # {}
      PROVE  \E r \in Spared(pool) : Before(r, Spared(pool), pool, k) = {}
    <2> DEFINE S == Spared(pool)
               b == [r \in S |-> Before(r, S, pool, k)]
    <2>1. IsFiniteSet(S) /\ Precedes(b, S) /\ S # {}
        BY <1>0, <1>1, BeforePrecedes
    <2> DEFINE none == {}
    <2>2. \E r \in S \ none : b[r] \subseteq none
        <3>1. none \in SUBSET S /\ none # S
            BY <2>1
        <3> HIDE DEF b, S, none
        <3> QED BY <2>1, <3>1, FirstMissing
    <2> QED BY <2>2
<1>2. ASSUME NEW c \in FirstClusters(pool, g) PROVE c \in FirstClusters(pool, h)
    <2>1. PICK r \in Spared(pool) : c = ClusterID(r) /\ Before(r, Spared(pool), pool, g) = {}
        BY DEF FirstClusters
    <2>2. PICK s \in Spared(pool) : Before(s, Spared(pool), pool, h) = {}
        BY <1>1, <2>1
    <2>3. ~PreemptedBefore(s, r, pool, g) /\ ~PreemptedBefore(r, s, pool, h)
        BY <2>1, <2>2 DEF Before
    <2>4. r \in Tracked /\ s \in Tracked
        BY <1>0
    <2>5. /\ Freeable(r, pool) \in Nat /\ ClusterID(r) \in Nat
          /\ Freeable(s, pool) \in Nat /\ ClusterID(s) \in Nat
        BY <2>4, KeysType
    <2>6. ClusterID(r) = ClusterID(s)
        BY <2>3, <2>5, OrderedBy
    <2> QED BY <2>1, <2>2, <2>6 DEF FirstClusters
<1> QED BY <1>1, <1>2 DEF FirstClusters

(* The clusters in which the cascade looks for victims of each priority,   *)
(* and what it finds for a.                                                *)
Target2 == FirstClusters(TrackedWith(2), 0)
Target1 == Target(TrackedWith(1), 0, Target2)

Victims2(a) ==
    Enough(Taken(TrackedWith(2), GPUsPerReplica[a], Target2), TrackedWith(2),
           GPUsPerReplica[a], GPUsPerReplica[a])
Missing(a) == GPUsPerReplica[a] - GPUsOf(Victims2(a))
Victims1(a) ==
    Enough(Taken(TrackedWith(1), GPUsPerReplica[a], Target1), TrackedWith(1),
           GPUsPerReplica[a], Missing(a))

(* PreemptionPlan in these terms.                                          *)
LEMMA PlanParts ==
    ASSUME snap \in SnapshotType, NEW a \in Apps, Priority[a] # 2
    PROVE  PreemptionPlan(a) =
             IF Missing(a) > 0 /\ Priority[a] = 0
             THEN [victims |-> Victims2(a) \cup Victims1(a), target |-> Target1]
             ELSE [victims |-> Victims2(a), target |-> Target2]
<1> DEFINE g == GPUsPerReplica[a]
<1>1. TrackedWith(1) \in SUBSET Tracked /\ TrackedWith(2) \in SUBSET Tracked
    BY DEF TrackedWith
<1>2. g \in Nat /\ 0 \in Nat /\ Priority[a] \in {0, 1}
    BY SnapshotAssumption
<1>3. \A r \in Tracked : AppOf[r] \in Apps
    BY SnapshotAssumption DEF Tracked
<1>4. Candidates(a, 2) = TrackedWith(2)
    BY <1>2, <1>3 DEF Candidates, TrackedWith
<1>5. Priority[a] = 0 => Candidates(a, 1) = TrackedWith(1)
    BY <1>3 DEF Candidates, TrackedWith
<1>6. FirstClusters(TrackedWith(2), g) = Target2
    <2>1. /\ FirstClusters(TrackedWith(2), g) \subseteq Target2
          /\ Target2 \subseteq FirstClusters(TrackedWith(2), g)
        <3> DEFINE pool == TrackedWith(2)
        <3>1. pool \in SUBSET Tracked
            BY <1>1
        <3> HIDE DEF pool, g
        <3>2. /\ FirstClusters(pool, g) \subseteq FirstClusters(pool, 0)
              /\ FirstClusters(pool, 0) \subseteq FirstClusters(pool, g)
            BY <1>2, <3>1, FirstClustersSame
        <3> QED BY <3>2 DEF Target2, pool
    <2> QED BY <2>1
<1>7. SelectVictims(TrackedWith(2), g, g, {}) = [victims |-> Victims2(a), target |-> Target2]
    BY <1>6, SelectVictimsParts DEF Target, Victims2
<1>8. FirstClusters(TrackedWith(1), g) = FirstClusters(TrackedWith(1), 0)
    BY <1>1, <1>2, FirstClustersSame
<1>9. Target(TrackedWith(1), g, Target2) = Target1
    BY <1>8 DEF Target1, Target
<1>10. SelectVictims(TrackedWith(1), g, Missing(a), Target2)
         = [victims |-> Victims1(a), target |-> Target1]
    BY <1>9, SelectVictimsParts DEF Victims1
<1>11. PreemptionPlan(a) =
         IF Missing(a) > 0 /\ Priority[a] = 0
         THEN [victims |-> Victims2(a) \cup Victims1(a), target |-> Target1]
         ELSE [victims |-> Victims2(a) \cup {}, target |-> Target2]
    <2> DEFINE p2 == SelectVictims(Candidates(a, 2), g, g, {})
               missing == g - GPUsOf(p2.victims)
               p1 == SelectVictims(Candidates(a, 1), g, missing, p2.target)
    <2>1. p2.victims = Victims2(a) /\ p2.target = Target2 /\ missing = Missing(a)
        BY <1>4, <1>7 DEF Missing
    <2>2. CASE Missing(a) > 0 /\ Priority[a] = 0
        <3>1. p1 = [victims |-> Victims1(a), target |-> Target1]
            <4> HIDE DEF p2, missing
            <4> QED BY <1>5, <1>10, <2>1, <2>2
        <3>2. PreemptionPlan(a) = [victims |-> p2.victims \cup p1.victims, target |-> p1.target]
            BY <2>1, <2>2 DEF PreemptionPlan
        <3> HIDE DEF p1, p2
        <3> QED BY <2>1, <2>2, <3>1, <3>2
    <2>3. CASE ~(Missing(a) > 0 /\ Priority[a] = 0)
        <3>1. PreemptionPlan(a) = [victims |-> p2.victims \cup {}, target |-> p2.target]
            BY <2>1, <2>3 DEF PreemptionPlan
        <3> HIDE DEF p2
        <3> QED BY <2>1, <2>3, <3>1
    <2> QED BY <2>2, <2>3
<1> QED BY <1>11

LEMMA OneTargetEach ==
    ASSUME snap \in SnapshotType
    PROVE  /\ \A c, d \in Target2 : c = d
           /\ \A c, d \in Target1 : c = d
           /\ Target2 # {} => Target1 = Target2
<1>1. ASSUME NEW pool \in SUBSET Tracked, NEW c \in FirstClusters(pool, 0),
             NEW d \in FirstClusters(pool, 0)
      PROVE  c = d
    <2>1. PICK r \in Spared(pool) : c = ClusterID(r) /\ Before(r, Spared(pool), pool, 0) = {}
        BY DEF FirstClusters
    <2>2. PICK s \in Spared(pool) : d = ClusterID(s) /\ Before(s, Spared(pool), pool, 0) = {}
        BY DEF FirstClusters
    <2>3. ~PreemptedBefore(r, s, pool, 0) /\ ~PreemptedBefore(s, r, pool, 0)
        BY <2>1, <2>2 DEF Before
    <2> QED BY <2>1, <2>2, <2>3, FirstCluster DEF Spared
<1>2. TrackedWith(1) \in SUBSET Tracked /\ TrackedWith(2) \in SUBSET Tracked
    BY DEF TrackedWith
<1> QED BY <1>1, <1>2 DEF Target1, Target2, Target

-----------------------------------------------------------------------------
(* The victims that were chosen.  The search for them reads the snapshot   *)
(* only, which does not change in a cycle.                                 *)

LEMMA SnapshotDecides ==
    ASSUME snap' = snap
    PROVE  /\ Tracked' = Tracked
           /\ \A r : ClusterID(r)' = ClusterID(r)
           /\ \A a : Spare(a)' = Spare(a)
           /\ \A p : TrackedWith(p)' = TrackedWith(p)
           /\ \A pool : Spared(pool)' = Spared(pool)
           /\ \A r, S, pool, g : Before(r, S, pool, g)' = Before(r, S, pool, g)
<1>1. Tracked' = Tracked /\ \A r : ClusterID(r)' = ClusterID(r)
    BY DEF Tracked, ClusterID
<1>2. \A a : Spare(a)' = Spare(a)
    BY <1>1 DEF Spare, CountActiveReplicas, ReplicasForApp
<1>3. \A p : TrackedWith(p)' = TrackedWith(p)
    BY <1>1 DEF TrackedWith
<1>4. \A pool : Spared(pool)' = Spared(pool)
    BY <1>2 DEF Spared
<1>5. \A r, pool : Freeable(r, pool)' = Freeable(r, pool)
    BY <1>1 DEF Freeable
<1>6. \A r, S, pool, g : Before(r, S, pool, g)' = Before(r, S, pool, g)
    <2>1. ASSUME NEW r, NEW s, NEW pool, NEW g
          PROVE  PreemptedBefore(r, s, pool, g)' <=> PreemptedBefore(r, s, pool, g)
        BY <1>1, <1>5 DEF PreemptedBefore, Freeable
    <2> QED BY <2>1 DEF Before
<1> QED BY <1>1, <1>2, <1>3, <1>4, <1>6

LEMMA SnapshotDecidesVictims ==
    ASSUME snap' = snap
    PROVE  /\ Target2' = Target2 /\ Target1' = Target1
           /\ \A a : Victims2(a)' = Victims2(a)
           /\ \A a : Victims1(a)' = Victims1(a)
           /\ \A a : Missing(a)' = Missing(a)
<1>1. \A pool, g : FirstClusters(pool, g)' = FirstClusters(pool, g)
    BY SnapshotDecides DEF FirstClusters
<1>2. Target2' = Target2
    BY <1>1, SnapshotDecides DEF Target2
<1>3. Target1' = Target1
    BY <1>1, <1>2, SnapshotDecides DEF Target1, Target
<1>4. \A pool, target : There(pool, target)' = There(pool, target)
    BY SnapshotDecides DEF There
<1>5. \A pool, g, target : Taken(pool, g, target)' = Taken(pool, g, target)
    BY <1>4, SnapshotDecides DEF Taken, OwnThere
<1>6. \A S, pool, g, required : Enough(S, pool, g, required)' = Enough(S, pool, g, required)
    BY SnapshotDecides DEF Enough
<1>7. \A a : Victims2(a)' = Victims2(a)
    BY <1>2, <1>5, <1>6, SnapshotDecides DEF Victims2
<1>8. \A a : Missing(a)' = Missing(a)
    BY <1>7 DEF Missing
<1>9. \A a : Victims1(a)' = Victims1(a)
    BY <1>3, <1>5, <1>6, <1>8, SnapshotDecides DEF Victims1
<1> QED BY <1>2, <1>3, <1>7, <1>8, <1>9

(* A scale-up with victims was decided by a search, which for applications *)
(* of priority 0 may have had a second part.                               *)
Planned(u) ==
    /\ u.app \in Apps
    /\ \/ u.victims = Victims2(u.app) /\ u.cluster \in Target2
       \/ /\ Missing(u.app) > 0
          /\ u.victims = Victims2(u.app) \cup Victims1(u.app)
          /\ u.cluster \in Target1

PlannedVictims ==
    \A i \in DOMAIN scaleUps : scaleUps[i].victims # {} => Planned(scaleUps[i])

LEMMA PlannedVictimsStep ==
    ASSUME TypeOK, PlannedVictims, [CycleNext]_cycleVars
    PROVE  PlannedVictims'
<1>1. snap' = snap
    BY DEF CycleNext, Place, Rebalance, Validate, CycleOver, cycleVars, vars, ComputePlacement,
           StartPlacement, ScaleDown, EndScaleDowns, PlaceReplica, Preempt, Refuse, Try,
           EndPlacement
<1>2. ASSUME NEW u PROVE Planned(u)' <=> Planned(u)
    BY <1>1, SnapshotDecidesVictims DEF Planned
<1>3. CASE scaleUps' = scaleUps
    BY <1>2, <1>3 DEF PlannedVictims, Planned
<1>4. ASSUME NEW a \in Apps, NEW c, NEW victims, PlaceIn(a, c, victims),
             victims # {} => Planned(ScaleUpOf(a, c, victims))
      PROVE  PlannedVictims'
    <2>1. Appended(ScaleUpOf(a, c, victims))
        BY <1>4, PlaceInAppends
    <2> SUFFICES ASSUME NEW i \in DOMAIN scaleUps', scaleUps'[i].victims # {}
                 PROVE  Planned(scaleUps[i])'
        BY DEF PlannedVictims
    <2>2. Planned(scaleUps'[i])
        <3>1. CASE i \in DOMAIN scaleUps
            BY <2>1, <3>1 DEF Appended, PlannedVictims
        <3>2. CASE i = Len(scaleUps) + 1
            <4>1. scaleUps'[i] = ScaleUpOf(a, c, victims)
                BY <2>1, <3>2 DEF Appended
            <4>2. ScaleUpOf(a, c, victims).victims = victims
                BY DEF ScaleUpOf
            <4> QED BY <1>4, <4>1, <4>2
        <3> QED BY <2>1, <3>1, <3>2 DEF Appended
    <2> QED BY <1>1, <2>2, SnapshotDecidesVictims DEF Planned
<1>5. ASSUME NEW a \in Apps, PlaceReplica(a)
      PROVE  PlannedVictims'
    BY <1>4, <1>5 DEF PlaceReplica
<1>6. ASSUME NEW a \in Apps, Preempt(a)
      PROVE  PlannedVictims'
    <2>1. PICK c \in PreemptionPlan(a).target : PlaceIn(a, c, PreemptionPlan(a).victims)
        BY <1>6 DEF Preempt
    <2>2. Priority[a] # 2
        BY <1>6 DEF Preempt, CanPreempt
    <2>3. \/ PreemptionPlan(a) = [victims |-> Victims2(a), target |-> Target2]
          \/ /\ Missing(a) > 0
             /\ PreemptionPlan(a) = [victims |-> Victims2(a) \cup Victims1(a), target |-> Target1]
        BY <2>2, PlanParts DEF TypeOK
    <2>4. Planned(ScaleUpOf(a, c, PreemptionPlan(a).victims))
        BY <2>1, <2>3 DEF Planned, ScaleUpOf
    <2> QED BY <1>4, <2>1, <2>4
<1> QED BY <1>3, <1>5, <1>6
       DEF CycleNext, Place, Rebalance, Validate, CycleOver, cycleVars, vars, ComputePlacement,
           StartPlacement, ScaleDown, EndScaleDowns, Refuse, EndPlacement

LEMMA PlannedVictimsHolds == CycleSpec => []PlannedVictims
<1>1. CycleInit => PlannedVictims
    BY DEF CycleInit, Init, PlannedVictims
<1>2. TypeOK /\ PlannedVictims /\ [CycleNext]_cycleVars => PlannedVictims'
    BY PlannedVictimsStep
<1> QED BY <1>1, <1>2, TypeOKHolds, PTL DEF CycleSpec

(* Of replicas of one size in one cluster the oldest ids are taken,        *)
(* whoever searches.                                                       *)
Older(r, S) == {s \in S : s < r}
Oldest(a, pool, target) ==
    LET own == OwnThere(a, pool, target)
    IN  {r \in own : Cardinality(Older(r, own)) < Spare(a)}

LEMMA OldestTaken ==
    ASSUME snap \in SnapshotType, NEW pool \in SUBSET Tracked, NEW g \in Nat, NEW a \in Apps,
           NEW target, \A c, d \in target : c = d, OfOneSize(a)
    PROVE  {r \in Taken(pool, g, target) : AppOf[r] = a} = Oldest(a, pool, target)
<1> DEFINE own == OwnThere(a, pool, target)
<1>1. own = {r \in There(pool, target) : AppOf[r] = a}
    BY DEF OwnThere
<1>2. \A r \in own : r \in pool /\ r \in Tracked /\ ClusterID(r) \in target /\ AppOf[r] = a
    BY DEF OwnThere, There, Spared
<1>3. ASSUME NEW r \in own, NEW s \in own
      PROVE  PreemptedBefore(s, r, pool, g) <=> s < r
    <2>1. ClusterID(r) = ClusterID(s) /\ GPUs[r] = GPUs[s]
        BY <1>2, <1>3 DEF OfOneSize, ReplicasForApp
    <2>2. Freeable(r, pool) = Freeable(s, pool) /\ Misfit(r, g) = Misfit(s, g)
        BY <2>1 DEF Freeable, Misfit
    <2>3. /\ Freeable(r, pool) \in Nat /\ ClusterID(r) \in Nat /\ Misfit(r, g) \in Nat
          /\ r \in Nat /\ s \in Nat
        BY <1>2, <1>3, KeysType
    <2> QED BY <2>1, <2>2, <2>3, OrderedBy
<1>4. \A r \in own : Before(r, own, pool, g) = Older(r, own)
    BY <1>3 DEF Before, Older
<1> QED BY <1>1, <1>4 DEF Taken, Oldest

LEMMA OldestFew ==
    ASSUME NEW a \in Apps, NEW pool \in SUBSET Tracked, NEW target, Spare(a) \in Nat
    PROVE  /\ IsFiniteSet(Oldest(a, pool, target))
           /\ Cardinality(Oldest(a, pool, target)) <= Spare(a)
<1> DEFINE own == OwnThere(a, pool, target)
           b == [r \in own |-> Older(r, own)]
           k == Spare(a)
<1>1. own \in SUBSET Replicas /\ Replicas \in SUBSET Nat /\ IsFiniteSet(Replicas)
    BY SnapshotAssumption DEF OwnThere, There, Spared, Tracked
<1>2. IsFiniteSet(own) /\ own \in SUBSET Nat
    BY <1>1, FS_Subset
<1>3. Precedes(b, own)
    <2>1. \A r \in own : Older(r, own) \in SUBSET own
        BY DEF Older
    <2>2. \A r \in own : r \notin Older(r, own)
        BY <1>2 DEF Older
    <2>3. \A r \in own : \A s \in Older(r, own) : Older(s, own) \subseteq Older(r, own)
        BY <1>2 DEF Older
    <2> QED BY <2>1, <2>2, <2>3 DEF Precedes
<1>4. \A r, s \in own : r # s => r \in b[s] \/ s \in b[r]
    BY <1>2 DEF Older
<1>5. Oldest(a, pool, target) = {r \in own : Cardinality(b[r]) < k}
    BY DEF Oldest
<1> HIDE DEF own, b, k
<1>6. /\ IsFiniteSet({r \in own : Cardinality(b[r]) < k})
      /\ Cardinality({r \in own : Cardinality(b[r]) < k}) <= k
    <2>1. k \in Nat
        BY DEF k
    <2> QED BY <2>1, <1>2, <1>3, <1>4, FewBefore
<1> QED BY <1>5, <1>6 DEF k

LEMMA SpareType ==
    ASSUME NEW a \in Apps
    PROVE  Spare(a) \in Int /\ CountActiveReplicas(a) \in Nat /\ MinReplicas[a] \in Nat
<1>1. CountActiveReplicas(a) \in Nat
    BY OwnFinite DEF CountActiveReplicas
<1> QED BY <1>1, SnapshotAssumption DEF Spare

(* Preemptions leave min_replicas to an application whose replicas have    *)
(* one size (Placement!MinReplicasKept): however many searches there are   *)
(* in a cycle, all of them look in the same cluster and take the same      *)
(* replicas of it.                                                         *)
THEOREM MinReplicasKeptHolds == CycleSpec => []MinReplicasKept
<1>1. ASSUME TypeOK, PlannedVictims
      PROVE  MinReplicasKept
    <2> DEFINE lost(a) == {r \in Victims : AppOf[r] = a}
    <2> SUFFICES ASSUME NEW a \in Apps, OfOneSize(a), NEW x \in lost(a)
                 PROVE  CountActiveReplicas(a) - Cardinality(lost(a)) >= MinReplicas[a]
        BY DEF MinReplicasKept
    <2> DEFINE p == Priority[a]
               pool == TrackedWith(p)
               target == IF p = 2 THEN Target2 ELSE Target1
               oldest == Oldest(a, pool, target)
    <2>1. pool \in SUBSET Tracked /\ \A c, d \in target : c = d
        BY <1>1, OneTargetEach DEF TypeOK, TrackedWith
    <2>2. ASSUME NEW r \in lost(a) PROVE r \in oldest
        <3>1. PICK i \in DOMAIN scaleUps : r \in scaleUps[i].victims
            BY DEF Victims
        <3>2. PICK b \in Apps : r \in Victims2(b) \/ r \in Victims1(b)
            BY <1>1, <3>1 DEF PlannedVictims, Planned
        <3>3. GPUsPerReplica[b] \in Nat
            BY SnapshotAssumption
        <3>4. ASSUME NEW g \in Nat
              PROVE  {y \in Taken(pool, g, target) : AppOf[y] = a} = oldest
            <4>1. snap \in SnapshotType
                BY <1>1 DEF TypeOK
            <4> HIDE DEF pool, target, lost, p
            <4> QED BY <2>1, <4>1, OldestTaken
        <3>5. CASE r \in Victims2(b)
            <4>1. r \in Taken(TrackedWith(2), GPUsPerReplica[b], Target2)
                BY <3>5 DEF Victims2, Enough
            <4>2. p = 2
                BY <4>1 DEF Taken, There, Spared, TrackedWith
            <4>3. r \in {y \in Taken(pool, GPUsPerReplica[b], target) : AppOf[y] = a}
                BY <4>1, <4>2
            <4> QED BY <3>3, <3>4, <4>3
        <3>6. CASE r \in Victims1(b)
            <4>1. r \in Taken(TrackedWith(1), GPUsPerReplica[b], Target1)
                BY <3>6 DEF Victims1, Enough
            <4>2. p = 1
                BY <4>1 DEF Taken, There, Spared, TrackedWith
            <4>3. r \in {y \in Taken(pool, GPUsPerReplica[b], target) : AppOf[y] = a}
                BY <4>1, <4>2
            <4> QED BY <3>3, <3>4, <4>3
        <3> QED BY <3>2, <3>5, <3>6
    <2>3. Spare(a) > 0
        <3>1. x \in OwnThere(a, pool, target)
            BY <2>2 DEF Oldest
        <3> QED BY <3>1 DEF OwnThere, There, Spared
    <2>4. Spare(a) \in Nat /\ CountActiveReplicas(a) \in Nat /\ MinReplicas[a] \in Nat
        BY <2>3, SpareType
    <2> HIDE DEF lost, pool, target, p
    <2>5. IsFiniteSet(oldest) /\ Cardinality(oldest) <= Spare(a)
        BY <2>1, <2>4, OldestFew
    <2>6. lost(a) \in SUBSET oldest
        BY <2>2
    <2>7. Cardinality(lost(a)) <= Cardinality(oldest)
        BY <2>5, <2>6, FS_Subset
    <2>8. Cardinality(lost(a)) \in Nat /\ Cardinality(oldest) \in Nat
        BY <2>5, <2>6, FS_Subset, FS_CardinalityType
    <2> QED BY <2>4, <2>5, <2>7, <2>8 DEF Spare
<1> QED BY <1>1, TypeOKHolds, PlannedVictimsHolds, PTL

(* Where replicas of priority 2 do not suffice all that can be spared of   *)
(* an application there are victims.                                       *)
LEMMA NoneSpared ==
    ASSUME snap \in SnapshotType, NEW b \in Apps, Missing(b) > 0, NEW a \in Apps, Priority[a] = 2,
           NEW c \in Target1
    PROVE  LET lost == {r \in Victims2(b) : AppOf[r] = a}
           IN  lost = ReplicasInCluster(a, c) \/ Cardinality(lost) >= Spare(a)
<1> DEFINE pool == TrackedWith(2)
           g == GPUsPerReplica[b]
           taken == Taken(pool, g, Target2)
           lost == {r \in Victims2(b) : AppOf[r] = a}
           own == OwnThere(a, pool, Target2)
           before == [r \in own |-> Before(r, own, pool, g)]
<1>1. pool \in SUBSET Tracked /\ g \in Nat
    BY SnapshotAssumption DEF TrackedWith
<1>2. taken \in SUBSET pool /\ own \in SUBSET pool
    BY DEF Taken, OwnThere, There, Spared
<1>3. Victims2(b) = taken
    <2>1. Victims2(b) = Enough(taken, pool, g, g)
        BY DEF Victims2
    <2>2. taken \in SUBSET Tracked /\ g \in Int
        BY <1>1, <1>2
    <2>3. Enough(taken, pool, g, g) = taken \/ GPUsOf(Enough(taken, pool, g, g)) >= g
        <3> HIDE DEF pool, g, taken
        <3> QED BY <1>1, <2>2, EnoughTaken
    <2>4. Victims2(b) \in SUBSET Replicas
        BY <1>2, <2>1 DEF Enough, TrackedWith, Tracked
    <2>5. GPUsOf(Victims2(b)) \in Nat
        BY <2>4, GPUsOfIsNat
    <2>6. ~(GPUsOf(Victims2(b)) >= g)
        BY <1>1, <2>5 DEF Missing
    <2> HIDE DEF pool, g, taken
    <2> QED BY <2>1, <2>3, <2>6
<1>4. lost = {r \in own : Cardinality(before[r]) < Spare(a)}
    BY <1>3 DEF Taken, OwnThere
<1>5. IsFiniteSet(own) /\ Precedes(before, own)
    <2>1. own \in SUBSET Tracked
        BY <1>1, <1>2
    <2> HIDE DEF own, pool, g
    <2> QED BY <1>1, <2>1, BeforePrecedes DEF before
<1>6. IsFiniteSet(lost) /\ (lost = own \/ Cardinality(lost) >= Spare(a))
    <2>1. Spare(a) \in Int
        BY SpareType
    <2> HIDE DEF own, before, lost
    <2> QED BY <1>4, <1>5, <2>1, PrefixCount
<1>7. CASE Spare(a) > 0
    <2>1. ReplicasForApp(a) \in SUBSET Spared(pool)
        BY <1>7 DEF Spared, TrackedWith, ReplicasForApp
    <2>2. CASE Target2 = {}
        <3>1. Spared(pool) = {}
            <4> HIDE DEF pool
            <4>1. Spared(pool) # {} => FirstClusters(pool, 0) # {}
                BY <1>1, FirstClustersSame
            <4> QED BY <2>2, <4>1 DEF Target2, pool
        <3>2. ReplicasInCluster(a, c) = {} /\ own = {}
            BY <2>1, <3>1 DEF ReplicasInCluster, OwnThere, There
        <3> QED BY <1>6, <3>2
    <2>3. CASE Target2 # {}
        <3>1. Target1 = Target2 /\ \A d \in Target2 : d = c
            BY <2>3, OneTargetEach
        <3>2. own \in SUBSET ReplicasInCluster(a, c)
            BY <3>1 DEF OwnThere, There, Spared, TrackedWith, ReplicasInCluster, ReplicasForApp
        <3>3. ReplicasInCluster(a, c) \in SUBSET own
            BY <2>1, <3>1 DEF OwnThere, There, ReplicasInCluster, ReplicasForApp
        <3> QED BY <1>6, <3>2, <3>3
    <2> QED BY <2>2, <2>3
<1>8. CASE ~(Spare(a) > 0)
    <2>1. Cardinality(lost) \in Nat
        BY <1>6, FS_CardinalityType
    <2> QED BY <1>8, <2>1, SpareType
<1> QED BY <1>7, <1>8

(* Applications of priority 1 lose replicas to those of priority 0 only    *)
(* where those of priority 2 have lost all they can spare                  *)
(* (Placement!CascadeKept).                                                *)
THEOREM CascadeKeptHolds == CycleSpec => []CascadeKept
<1>1. ASSUME TypeOK, PlannedVictims
      PROVE  CascadeKept
    <2> SUFFICES ASSUME NEW i \in DOMAIN scaleUps, NEW x \in scaleUps[i].victims,
                        Priority[AppOf[x]] = 1, NEW a \in Apps, Priority[a] = 2
                 PROVE  LET u == scaleUps[i]
                            lost == {r \in u.victims : AppOf[r] = a}
                        IN  \/ lost = ReplicasInCluster(a, u.cluster)
                            \/ Cardinality(lost) >= Spare(a)
        BY DEF CascadeKept
    <2> DEFINE u == scaleUps[i]
    <2>1. Planned(u)
        BY <1>1 DEF PlannedVictims
    <2>2. \A b : /\ \A r \in Victims2(b) : Priority[AppOf[r]] = 2
                 /\ \A r \in Victims1(b) : Priority[AppOf[r]] = 1
        BY DEF Victims1, Victims2, Enough, Taken, There, Spared, TrackedWith
    <2>3. /\ u.app \in Apps /\ Missing(u.app) > 0 /\ u.cluster \in Target1
          /\ u.victims = Victims2(u.app) \cup Victims1(u.app)
        BY <2>1, <2>2 DEF Planned
    <2>4. {r \in u.victims : AppOf[r] = a} = {r \in Victims2(u.app) : AppOf[r] = a}
        BY <2>2, <2>3
    <2>5. snap \in SnapshotType
        BY <1>1 DEF TypeOK
    <2> HIDE DEF u
    <2>6. LET lost == {r \in Victims2(u.app) : AppOf[r] = a}
          IN  lost = ReplicasInCluster(a, u.cluster) \/ Cardinality(lost) >= Spare(a)
        BY <2>3, <2>5, NoneSpared
    <2> QED BY <2>4, <2>6 DEF u
<1> QED BY <1>1, TypeOKHolds, PlannedVictimsHolds, PTL

-----------------------------------------------------------------------------
(* Who is refused. *)

(* What an application can free by preemption is decided by the snapshot.  *)
CanFree(a) ==
    /\ Priority[a] # 2
    /\ \/ GPUsOf(Victims2(a)) >= GPUsPerReplica[a]
       \/ Priority[a] = 0 /\ GPUsOf(Victims2(a) \cup Victims1(a)) >= GPUsPerReplica[a]

LEMMA VictimsType ==
    ASSUME NEW a \in Apps
    PROVE  /\ Victims1(a) \in SUBSET Replicas /\ Victims2(a) \in SUBSET Replicas
           /\ Victims1(a) \cup Victims2(a) \in SUBSET Replicas
           /\ GPUsOf(Victims1(a)) \in Nat /\ GPUsOf(Victims2(a)) \in Nat
           /\ GPUsOf(Victims2(a) \cup Victims1(a)) \in Nat
           /\ GPUsOf(Victims2(a)) <= GPUsOf(Victims2(a) \cup Victims1(a))
<1>1. /\ Victims1(a) \in SUBSET Replicas /\ Victims2(a) \in SUBSET Replicas
    BY DEF Victims1, Victims2, Enough, Taken, There, Spared, TrackedWith, Tracked
<1>2. Victims2(a) \cup Victims1(a) \in SUBSET Replicas
    BY <1>1
<1>3. Victims2(a) \in SUBSET (Victims2(a) \cup Victims1(a))
    OBVIOUS
<1> QED BY <1>1, <1>2, <1>3, GPUsOfIsNat, GPUsOfGrows

LEMMA CanPreemptParts ==
    ASSUME snap \in SnapshotType, NEW a \in Apps
    PROVE  CanPreempt(a) <=> CanFree(a)
<1> DEFINE g == GPUsPerReplica[a]
           v2 == Victims2(a)
           v12 == Victims2(a) \cup Victims1(a)
<1>1. /\ GPUsOf(v2) \in Nat /\ GPUsOf(v12) \in Nat /\ GPUsOf(v2) <= GPUsOf(v12)
      /\ g \in Nat
    BY VictimsType, SnapshotAssumption
<1>2. SUFFICES ASSUME Priority[a] # 2 PROVE CanPreempt(a) <=> CanFree(a)
    BY DEF CanPreempt, CanFree
<1>3. CASE Missing(a) > 0 /\ Priority[a] = 0
    <2>1. PreemptionPlan(a).victims = v12
        BY <1>2, <1>3, PlanParts
    <2> HIDE DEF v12
    <2>2. CanPreempt(a) <=> GPUsOf(v12) >= g
        BY <1>2, <2>1 DEF CanPreempt
    <2>3. CanFree(a) <=> (GPUsOf(v2) >= g \/ GPUsOf(v12) >= g)
        BY <1>2, <1>3 DEF CanFree, v12
    <2> QED BY <1>1, <2>2, <2>3
<1>4. CASE ~(Missing(a) > 0 /\ Priority[a] = 0)
    <2>1. PreemptionPlan(a).victims = v2
        BY <1>2, <1>4, PlanParts
    <2>2. CanPreempt(a) <=> GPUsOf(v2) >= g
        BY <1>2, <2>1 DEF CanPreempt
    <2>3. Priority[a] = 0 => GPUsOf(v2) >= g
        BY <1>1, <1>4 DEF Missing
    <2>4. CanFree(a) <=> \/ GPUsOf(v2) >= g
                         \/ Priority[a] = 0 /\ GPUsOf(v12) >= g
        BY <1>2 DEF CanFree
    <2> QED BY <2>2, <2>3, <2>4
<1> QED BY <1>3, <1>4

(* Where replicas have one size per application the search for few GPUs    *)
(* looks at the same replicas as that for many.                            *)
LEMMA TakenSame ==
    ASSUME snap \in SnapshotType, \A v \in Apps : OfOneSize(v), NEW pool \in SUBSET Tracked,
           NEW target, \A c, d \in target : c = d, NEW g \in Nat, NEW h \in Nat
    PROVE  Taken(pool, g, target) \in SUBSET Taken(pool, h, target)
<1> SUFFICES ASSUME NEW r \in Taken(pool, g, target) PROVE r \in Taken(pool, h, target)
    OBVIOUS
<1> DEFINE a == AppOf[r]
<1>1. a \in Apps /\ OfOneSize(a)
    BY SnapshotAssumption DEF Taken, There, Spared, Tracked
<1> HIDE DEF a
<1>2. /\ {y \in Taken(pool, g, target) : AppOf[y] = a} = Oldest(a, pool, target)
      /\ {y \in Taken(pool, h, target) : AppOf[y] = a} = Oldest(a, pool, target)
    <2>1. ASSUME NEW k \in Nat
          PROVE  {y \in Taken(pool, k, target) : AppOf[y] = a} = Oldest(a, pool, target)
        BY <1>1, OldestTaken
    <2> QED BY <2>1
<1>3. r \in {y \in Taken(pool, g, target) : AppOf[y] = a}
    BY DEF a
<1> QED BY <1>2, <1>3

LEMMA GPUsOfDisjoint ==
    ASSUME NEW xs \in SUBSET Replicas, NEW ys \in SUBSET Replicas, xs \cap ys = {}
    PROVE  GPUsOf(xs \cup ys) = GPUsOf(xs) + GPUsOf(ys)
<1>1. IsFiniteSet(xs) /\ IsFiniteSet(ys) /\ \A x \in xs \cup ys : GPUs[x] \in Nat
    BY SnapshotAssumption, FS_Subset
<1> QED BY <1>1, SumDisjoint DEF GPUsOf

(* Then who needs no more and has no lower a priority can free what it     *)
(* needs if another can.                                                   *)
LEMMA CanFreeToo ==
    ASSUME snap \in SnapshotType, \A v \in Apps : OfOneSize(v), NEW a \in Apps, NEW b \in Apps,
           GPUsPerReplica[a] <= GPUsPerReplica[b], Priority[a] <= Priority[b], CanFree(b)
    PROVE  CanFree(a)
<1> DEFINE g == GPUsPerReplica[a]                      h == GPUsPerReplica[b]
           pool2 == TrackedWith(2)                     pool1 == TrackedWith(1)
           t2 == Taken(pool2, g, Target2)              t1 == Taken(pool1, g, Target1)
<1>1. /\ g \in Nat /\ h \in Nat /\ Priority[a] \in 0 .. 2 /\ Priority[b] \in 0 .. 2
      /\ pool1 \in SUBSET Tracked /\ pool2 \in SUBSET Tracked
    BY SnapshotAssumption DEF TrackedWith
<1>2. /\ \A c, d \in Target2 : c = d
      /\ \A c, d \in Target1 : c = d
    BY OneTargetEach
<1>3. /\ t2 \in SUBSET Tracked /\ t1 \in SUBSET Tracked
      /\ \A r \in t2 : Priority[AppOf[r]] = 2
      /\ \A r \in t1 : Priority[AppOf[r]] = 1
    BY DEF Taken, There, Spared, TrackedWith
<1>4. Victims2(b) \in SUBSET t2 /\ Victims1(b) \in SUBSET t1
    <2> HIDE DEF pool1, pool2, g, h
    <2>1. Taken(pool2, h, Target2) \in SUBSET Taken(pool2, g, Target2)
        BY <1>1, <1>2, TakenSame
    <2>2. Taken(pool1, h, Target1) \in SUBSET Taken(pool1, g, Target1)
        BY <1>1, <1>2, TakenSame
    <2>3. Victims2(b) \in SUBSET Taken(pool2, h, Target2)
        BY DEF Victims2, Enough, pool2, h
    <2>4. Victims1(b) \in SUBSET Taken(pool1, h, Target1)
        BY DEF Victims1, Enough, pool1, h
    <2> QED BY <2>1, <2>2, <2>3, <2>4
<1>5. Victims2(a) = t2 \/ GPUsOf(Victims2(a)) >= g
    <2>1. Victims2(a) = Enough(t2, pool2, g, g) /\ g \in Int
        BY <1>1 DEF Victims2
    <2> HIDE DEF pool2, g, t2
    <2> QED BY <1>1, <1>3, <2>1, EnoughTaken
<1>6. Victims1(a) = t1 \/ GPUsOf(Victims1(a)) >= Missing(a)
    <2>1. Victims1(a) = Enough(t1, pool1, g, Missing(a))
        BY DEF Victims1
    <2>2. GPUsOf(Victims2(a)) \in Nat
        BY VictimsType
    <2>3. Missing(a) \in Int
        BY <1>1, <2>2 DEF Missing
    <2> HIDE DEF pool1, g, t1
    <2> QED BY <1>1, <1>3, <2>1, <2>3, EnoughTaken
<1> HIDE DEF g, h, pool1, pool2, t1, t2
<1>7. t1 \in SUBSET Replicas /\ t2 \in SUBSET Replicas /\ t1 \cup t2 \in SUBSET Replicas
    BY <1>3 DEF Tracked
<1>8. /\ GPUsOf(t2) \in Nat /\ GPUsOf(t1) \in Nat
      /\ GPUsOf(t2 \cup t1) = GPUsOf(t2) + GPUsOf(t1)
    <2>1. t2 \cap t1 = {}
        BY <1>3
    <2> QED BY <1>7, <2>1, GPUsOfDisjoint, GPUsOfIsNat
<1>9. /\ GPUsOf(Victims2(a)) \in Nat /\ GPUsOf(Victims1(a)) \in Nat
      /\ GPUsOf(Victims2(b)) \in Nat /\ GPUsOf(Victims2(b) \cup Victims1(b)) \in Nat
    BY VictimsType
<1>10. /\ GPUsOf(Victims2(b)) <= GPUsOf(t2)
       /\ GPUsOf(Victims2(b) \cup Victims1(b)) <= GPUsOf(t2 \cup t1)
    <2>1. /\ Victims2(b) \in SUBSET t2
          /\ Victims2(b) \cup Victims1(b) \in SUBSET (t2 \cup t1)
          /\ t2 \cup t1 \in SUBSET Replicas
        BY <1>4, <1>7
    <2> QED BY <1>7, <2>1, GPUsOfGrows
<1>11. GPUsOf(Victims2(a) \cup Victims1(a)) = GPUsOf(Victims2(a)) + GPUsOf(Victims1(a))
    <2>1. /\ Victims2(a) \in SUBSET Replicas /\ Victims1(a) \in SUBSET Replicas
          /\ Victims2(a) \in SUBSET t2 /\ Victims1(a) \in SUBSET t1
        BY VictimsType DEF Victims1, Victims2, Enough, t1, t2, pool1, pool2, g
    <2>2. Victims2(a) \cap Victims1(a) = {}
        BY <1>3, <2>1
    <2> QED BY <2>1, <2>2, GPUsOfDisjoint
<1>12. g <= h /\ Missing(a) = g - GPUsOf(Victims2(a)) /\ Priority[a] <= Priority[b]
    BY DEF g, h, Missing
<1>13. Priority[a] # 2
    BY <1>1, <1>12 DEF CanFree
<1>14. CASE GPUsOf(Victims2(b)) >= h
    <2>1. GPUsOf(Victims2(a)) >= g
        BY <1>1, <1>5, <1>8, <1>9, <1>10, <1>12, <1>14
    <2> QED BY <1>13, <2>1 DEF CanFree, g
<1>15. CASE Priority[b] = 0 /\ GPUsOf(Victims2(b) \cup Victims1(b)) >= h
    <2>1. GPUsOf(t2) + GPUsOf(t1) >= g
        BY <1>1, <1>8, <1>9, <1>10, <1>12, <1>15
    <2>2. GPUsOf(Victims2(a)) >= g \/ GPUsOf(Victims2(a)) + GPUsOf(Victims1(a)) >= g
        BY <1>1, <1>5, <1>6, <1>8, <1>9, <1>12, <2>1
    <2>3. Priority[a] = 0
        BY <1>1, <1>12, <1>15
    <2> QED BY <1>11, <1>13, <2>2, <2>3 DEF CanFree, g
<1> QED BY <1>14, <1>15 DEF CanFree, h

(* Applications come by priority: nobody who was refused a replica comes   *)
(* after anybody who is still to be served.                                *)
Turns ==
    /\ pc \in {"idle", "scaleDowns"} => placing = NoApp
    /\ placing = NoApp => refused = {}
    /\ placing # NoApp =>
          /\ \A a \in refused : Priority[a] <= Priority[placing]
          /\ \A b \in Apps : todo[b] > 0 => Priority[placing] <= Priority[b]

LEMMA TurnsTry ==
    ASSUME TypeOK, Turns, NEW x \in Apps, Try(x), refused' \in SUBSET (refused \cup {x})
    PROVE  Turns'
<1>1. /\ pc = "scaleUps" /\ pc' = pc /\ placing' = x /\ x # NoApp /\ todo[x] > 0
      /\ placing = x \/ \A b \in Apps : todo[b] > 0 => Priority[x] <= Priority[b]
    BY PlacementAssumption DEF Try, Turn
<1>2. \A b \in Apps : todo'[b] > 0 => todo[b] > 0
    BY <1>1 DEF Try, TypeOK
<1>3. \A b \in Apps : todo[b] > 0 => Priority[x] <= Priority[b]
    BY <1>1 DEF Turns
<1>4. \A b \in Apps : Priority[b] \in Nat
    BY SnapshotAssumption
<1>5. \A a \in refused : Priority[a] <= Priority[x]
    <2> SUFFICES ASSUME NEW a \in refused PROVE Priority[a] <= Priority[x]
        OBVIOUS
    <2>1. placing \in Apps /\ a \in Apps
        BY DEF Turns, TypeOK
    <2>2. Priority[a] <= Priority[placing] /\ Priority[placing] <= Priority[x]
        BY <1>1, <2>1 DEF Turns
    <2> QED BY <1>4, <2>1, <2>2
<1>6. \A a \in refused' : Priority[a] <= Priority[x]
    <2>1. Priority[x] <= Priority[x]
        BY <1>4
    <2> QED BY <1>5, <2>1
<1> QED BY <1>1, <1>2, <1>3, <1>6 DEF Turns

LEMMA TurnsStep ==
    ASSUME TypeOK, Turns, [CycleNext]_cycleVars
    PROVE  Turns'
<1>1. ASSUME NEW a \in Apps, PlaceReplica(a) \/ Preempt(a) \/ Refuse(a)
      PROVE  Turns'
    <2>1. Try(a) /\ refused' \in SUBSET (refused \cup {a})
        BY <1>1 DEF PlaceReplica, Preempt, Refuse, PlaceIn
    <2> QED BY <2>1, TurnsTry
<1>2. ASSUME NEW delta \in Deltas, StartPlacement(delta)
      PROVE  Turns'
    BY <1>2 DEF StartPlacement, Turns
<1>3. ASSUME NEW a \in Apps, ScaleDown(a)
      PROVE  Turns'
    BY <1>3 DEF ScaleDown, Turns
<1>4. CASE EndScaleDowns
    BY <1>4 DEF EndScaleDowns, Turns
<1>5. CASE EndPlacement
    BY <1>5 DEF EndPlacement, Turns
<1>6. CASE UNCHANGED vars
    BY <1>6 DEF vars, Turns
<1> QED BY <1>1, <1>2, <1>3, <1>4, <1>5, <1>6
       DEF CycleNext, Place, Rebalance, Validate, CycleOver, cycleVars, ComputePlacement

(* No later placement makes room, and the snapshot does not change.        *)
RefusedForGood == \A a \in refused : Eligible(a) = {} /\ ~CanFree(a)

LEMMA EligibleShrinks ==
    ASSUME TypeOK, snap' = snap,
           \A c \in Clusters : localReservations'[c] \in Nat
                               /\ localReservations'[c] >= localReservations[c],
           NEW a \in Apps
    PROVE  Eligible(a)' \in SUBSET Eligible(a)
<1>1. \A c : HasFittingNode(c, GPUsPerReplica[a])' <=> HasFittingNode(c, GPUsPerReplica[a])
    BY DEF HasFittingNode, ReadyNodes, FreeGPUs
<1>2. ASSUME NEW c \in Clusters PROVE ClusterAvailableGPUs(c)' <= ClusterAvailableGPUs(c)
    <2>1. Room(c) \in Int /\ Room(c)' = Room(c)
        BY RoomType DEF Room, FreeOn, ReadyNodes
    <2>2. localReservations[c] \in Nat
        BY DEF TypeOK
    <2>3. /\ ClusterAvailableGPUs(c) = Room(c) - localReservations[c]
          /\ ClusterAvailableGPUs(c)' = Room(c)' - localReservations'[c]
        BY DEF ClusterAvailableGPUs, Room
    <2> QED BY <2>1, <2>2, <2>3
<1>3. ASSUME NEW c \in Clusters
      PROVE  ClusterAvailableGPUs(c) \in Int /\ ClusterAvailableGPUs(c)' \in Int
    <2>1. Room(c) \in Int /\ Room(c)' = Room(c)
        BY RoomType DEF Room, FreeOn, ReadyNodes
    <2>2. localReservations[c] \in Nat
        BY DEF TypeOK
    <2>3. /\ ClusterAvailableGPUs(c) = Room(c) - localReservations[c]
          /\ ClusterAvailableGPUs(c)' = Room(c)' - localReservations'[c]
        BY DEF ClusterAvailableGPUs, Room
    <2> QED BY <2>1, <2>2, <2>3
<1>4. GPUsPerReplica[a] \in Nat
    BY SnapshotAssumption
<1> QED BY <1>1, <1>2, <1>3, <1>4 DEF Eligible

LEMMA RefusedForGoodStep ==
    ASSUME TypeOK, RefusedForGood, [CycleNext]_cycleVars
    PROVE  RefusedForGood'
<1>1. snap' = snap
    BY DEF CycleNext, Place, Rebalance, Validate, CycleOver, cycleVars, vars, ComputePlacement,
           StartPlacement, ScaleDown, EndScaleDowns, PlaceReplica, Preempt, Refuse, Try,
           EndPlacement
<1>2. ASSUME NEW a PROVE CanFree(a)' <=> CanFree(a)
    BY <1>1, SnapshotDecidesVictims DEF CanFree
<1>3. ASSUME \A c \in Clusters : /\ localReservations'[c] \in Nat
                                 /\ localReservations'[c] >= localReservations[c],
             \A a \in refused' : a \in refused \/ (Eligible(a) = {} /\ ~CanFree(a))
      PROVE  RefusedForGood'
    <2> SUFFICES ASSUME NEW a \in refused' PROVE Eligible(a)' = {} /\ ~CanFree(a)'
        BY DEF RefusedForGood
    <2>1. Eligible(a) = {} /\ ~CanFree(a)
        BY <1>3 DEF RefusedForGood
    <2>2. a \in Apps
        <3>1. TypeOK'
            BY CycleTypes
        <3> QED BY <3>1 DEF TypeOK
    <2>3. Eligible(a)' \in SUBSET Eligible(a)
        BY <1>1, <1>3, <2>2, EligibleShrinks
    <2> QED BY <1>2, <2>1, <2>3
<1>4. \A c \in Clusters : localReservations[c] \in Nat /\ localReservations[c] >= localReservations[c]
    BY DEF TypeOK
<1>5. ASSUME NEW a \in Apps, NEW c, NEW victims, PlaceIn(a, c, victims)
      PROVE  RefusedForGood'
    <2>1. \A d \in Clusters : /\ localReservations'[d] \in Nat
                              /\ localReservations'[d] >= localReservations[d]
        <3>1. localReservations' = [localReservations EXCEPT ![c] = @ + GPUsPerReplica[a]]
            BY <1>5 DEF PlaceIn
        <3>2. localReservations \in [Clusters -> Nat] /\ GPUsPerReplica[a] \in Nat
            BY SnapshotAssumption DEF TypeOK
        <3> QED BY <3>1, <3>2
    <2>2. refused' = refused
        BY <1>5 DEF PlaceIn
    <2> QED BY <1>3, <2>1, <2>2
<1>6. ASSUME NEW a \in Apps, Refuse(a)
      PROVE  RefusedForGood'
    <2>1. Eligible(a) = {}
        BY <1>6, SpreadAllows DEF Refuse
    <2>2. ~CanFree(a)
        BY <1>6, CanPreemptParts DEF Refuse, TypeOK
    <2>3. localReservations' = localReservations /\ refused' = refused \cup {a}
        BY <1>6 DEF Refuse
    <2> QED BY <1>3, <1>4, <2>1, <2>2, <2>3
<1>7. ASSUME UNCHANGED <<localReservations, refused>>
      PROVE  RefusedForGood'
    BY <1>3, <1>4, <1>7
<1> QED BY <1>5, <1>6, <1>7
       DEF CycleNext, Place, Rebalance, Validate, CycleOver, cycleVars, vars, ComputePlacement,
           StartPlacement, ScaleDown, EndScaleDowns, PlaceReplica, Preempt, EndPlacement

(* Whoever has room for a replica has room for a smaller one.              *)
LEMMA EligibleSmaller ==
    ASSUME TypeOK, NEW a \in Apps, NEW b \in Apps, GPUsPerReplica[a] <= GPUsPerReplica[b]
    PROVE  Eligible(b) \in SUBSET Eligible(a)
<1> SUFFICES ASSUME NEW c \in Eligible(b) PROVE c \in Eligible(a)
    OBVIOUS
<1>1. c \in Clusters /\ GPUsPerReplica[a] \in Nat /\ GPUsPerReplica[b] \in Nat
    BY SnapshotAssumption DEF Eligible
<1>2. HasFittingNode(c, GPUsPerReplica[a])
    <2>1. PICK n \in ReadyNodes(c) : FreeGPUs(n) >= GPUsPerReplica[b]
        BY DEF Eligible, HasFittingNode
    <2>2. FreeGPUs(n) \in Int
        BY FreeGPUsType DEF ReadyNodes, NodesOf
    <2>3. FreeGPUs(n) >= GPUsPerReplica[a]
        BY <1>1, <2>1, <2>2
    <2> QED BY <2>3 DEF HasFittingNode
<1>3. ClusterAvailableGPUs(c) \in Int
    <2>1. Room(c) \in Int /\ localReservations[c] \in Nat
        BY <1>1, RoomType DEF TypeOK
    <2> QED BY <2>1 DEF ClusterAvailableGPUs, Room
<1>4. ClusterAvailableGPUs(c) >= GPUsPerReplica[a]
    <2>1. ClusterAvailableGPUs(c) >= GPUsPerReplica[b]
        BY DEF Eligible
    <2> QED BY <1>1, <1>3, <2>1
<1> QED BY <1>1, <1>2, <1>4 DEF Eligible

(* After an application was refused a replica nobody gets one that is as   *)
(* large in that cycle, by room or by preemption                           *)
(* (Placement!NoPriorityInversion), if the replicas of each application    *)
(* have one size.                                                          *)
THEOREM NoPriorityInversionHolds == CycleSpec => NoPriorityInversion
<1> DEFINE Fair == \A a \in refused, b \in Apps :
                      /\ \A v \in Apps : OfOneSize(v)
                      /\ localAppPlacement'[b] # localAppPlacement[b]
                      => GPUsPerReplica[b] < GPUsPerReplica[a]
<1>1. CycleInit => Turns /\ RefusedForGood
    BY DEF CycleInit, Init, Turns, RefusedForGood
<1>2. TypeOK /\ Turns /\ [CycleNext]_cycleVars => Turns'
    BY TurnsStep
<1>3. TypeOK /\ RefusedForGood /\ [CycleNext]_cycleVars => RefusedForGood'
    BY RefusedForGoodStep
<1>4. ASSUME TypeOK, Turns, RefusedForGood, [CycleNext]_cycleVars
      PROVE  [Fair]_vars
    <2> SUFFICES ASSUME NEW a \in refused, NEW b \in Apps, \A v \in Apps : OfOneSize(v),
                        localAppPlacement'[b] # localAppPlacement[b],
                        ~(GPUsPerReplica[b] < GPUsPerReplica[a])
                 PROVE  FALSE
        OBVIOUS
    <2>1. a \in Apps
        BY <1>4 DEF TypeOK
    <2>2. GPUsPerReplica[a] <= GPUsPerReplica[b]
        BY <2>1, SnapshotAssumption
    <2>3. PICK x \in Apps : PlaceReplica(x) \/ Preempt(x)
        BY <1>4
           DEF CycleNext, Place, Rebalance, Validate, CycleOver, cycleVars, vars, ComputePlacement,
               StartPlacement, ScaleDown, EndScaleDowns, Refuse, EndPlacement
    <2>4. ASSUME NEW e, NEW victims, PlaceIn(x, e, victims)
          PROVE  x = b
        <3>1. localAppPlacement' = [localAppPlacement EXCEPT ![x][e] = @ + 1]
            BY <2>4 DEF PlaceIn
        <3>2. localAppPlacement \in [Apps -> [Clusters -> Nat]]
            BY <1>4 DEF TypeOK
        <3> QED BY <3>1, <3>2
    <2>5. ASSUME PlaceReplica(x) PROVE FALSE
        <3>1. PICK e \in Best(x) : PlaceIn(x, e, {})
            BY <2>5 DEF PlaceReplica
        <3>2. e \in Eligible(b)
            BY <2>4, <3>1 DEF Best, Allowed
        <3>3. e \in Eligible(a)
            BY <1>4, <2>1, <2>2, <3>2, EligibleSmaller
        <3> QED BY <1>4, <3>3 DEF RefusedForGood
    <2>6. ASSUME Preempt(x) PROVE FALSE
        <3>1. PICK e \in PreemptionPlan(x).target : PlaceIn(x, e, PreemptionPlan(x).victims)
            BY <2>6 DEF Preempt
        <3>2. Try(b) /\ CanPreempt(b)
            BY <2>4, <2>6, <3>1 DEF Preempt
        <3>3. snap \in SnapshotType
            BY <1>4 DEF TypeOK
        <3>4. CanFree(b)
            BY <3>2, <3>3, CanPreemptParts
        <3>5. Priority[a] <= Priority[b]
            <4>1. placing # NoApp /\ placing \in Apps /\ Priority[a] <= Priority[placing]
                BY <1>4 DEF Turns, TypeOK
            <4>2. Priority[placing] <= Priority[b]
                BY <1>4, <3>2, <4>1 DEF Turns, Try, Turn
            <4>3. Priority[a] \in Nat /\ Priority[placing] \in Nat /\ Priority[b] \in Nat
                BY <2>1, <4>1, SnapshotAssumption
            <4> QED BY <4>1, <4>2, <4>3
        <3>6. CanFree(a)
            BY <2>1, <2>2, <3>3, <3>4, <3>5, CanFreeToo
        <3> QED BY <1>4, <3>6 DEF RefusedForGood
    <2> QED BY <2>3, <2>5, <2>6
<1> QED BY <1>1, <1>2, <1>3, <1>4, TypeOKHolds, PTL DEF CycleSpec, NoPriorityInversion

-----------------------------------------------------------------------------
(* What the scaling decisions asked for. *)

Positive(i)  == IF i > 0 THEN i ELSE 0
PlacedFor(a) == {i \in DOMAIN scaleUps : scaleUps[i].app = a}
RemovedOf(a) == {r \in scaleDowns : AppOf[r] = a}

(* The replicas of a placed and still to be placed are those asked for,    *)
(* but for those refused; what is to go is chosen once.                    *)
Answering(delta, a) ==
    /\ CountActiveReplicas(a) + delta[a] >= 0
    /\ todo[a] < 0 => pc = "scaleDowns" /\ todo[a] = delta[a] /\ RemovedOf(a) = {}
    /\ todo[a] >= 0 => Cardinality(RemovedOf(a)) = Positive(-delta[a])
    /\ Cardinality(PlacedFor(a)) + Positive(todo[a]) <= Positive(delta[a])
    /\ Cardinality(PlacedFor(a)) + Positive(todo[a]) = Positive(delta[a]) \/ a \in refused

Asked ==
    /\ pc = "idle" => scaleUps = <<>> /\ scaleDowns = {}
    /\ pc # "idle" => \E delta \in Deltas : \A a \in Apps : Answering(delta, a)
    /\ pc = "decided" => \A a \in Apps : todo[a] = 0

(* Every decision is carried out: as many replicas are removed as it asks  *)
(* for and never more are placed; fewer only if in the end no cluster has  *)
(* room for another and preemption could not make any.                     *)
DecisionsCarriedOut ==
    pc = "decided" =>
        \E delta \in Deltas : \A a \in Apps :
            /\ Cardinality(RemovedOf(a)) = Positive(-delta[a])
            /\ Cardinality(PlacedFor(a)) <= Positive(delta[a])
            /\ \/ Cardinality(PlacedFor(a)) = Positive(delta[a])
               \/ Eligible(a) = {} /\ ~CanPreempt(a)

LEMMA AskedParts ==
    ASSUME TypeOK, NEW a \in Apps
    PROVE  /\ IsFiniteSet(PlacedFor(a)) /\ Cardinality(PlacedFor(a)) \in Nat
           /\ IsFiniteSet(RemovedOf(a)) /\ Cardinality(RemovedOf(a)) \in Nat
           /\ IsFiniteSet(ReplicasForApp(a)) /\ CountActiveReplicas(a) \in Nat
           /\ todo[a] \in Int
<1> DEFINE Ups == [app : Apps, cluster : Clusters, victims : SUBSET Replicas]
<1>1. DOMAIN scaleUps = 1 .. Len(scaleUps) /\ Len(scaleUps) \in Nat
    <2>1. scaleUps \in Seq(Ups)
        BY DEF TypeOK
    <2> HIDE DEF Ups
    <2> QED BY <2>1
<1>2. IsFiniteSet(PlacedFor(a))
    <2>1. IsFiniteSet(1 .. Len(scaleUps)) /\ PlacedFor(a) \in SUBSET (1 .. Len(scaleUps))
        BY <1>1, FS_Interval DEF PlacedFor
    <2> QED BY <2>1, FS_Subset
<1>3. /\ RemovedOf(a) \in SUBSET Replicas /\ ReplicasForApp(a) \in SUBSET Replicas
    BY DEF TypeOK, RemovedOf, ReplicasForApp, Tracked
<1>4. IsFiniteSet(RemovedOf(a)) /\ IsFiniteSet(ReplicasForApp(a))
    BY <1>3, SnapshotAssumption, FS_Subset
<1>5. todo[a] \in Int
    BY DEF TypeOK
<1> QED BY <1>2, <1>4, <1>5, FS_CardinalityType DEF CountActiveReplicas

(* One more replica of a is placed or refused. *)
LEMMA AnsweringTry ==
    ASSUME TypeOK, NEW delta \in Deltas, NEW a \in Apps, NEW b \in Apps, Try(a),
           UNCHANGED scaleDowns, Answering(delta, b),
           \/ \E c, victims : PlaceIn(a, c, victims)
           \/ refused' = refused \cup {a} /\ scaleUps' = scaleUps
    PROVE  Answering(delta, b)'
<1> DEFINE placed == Cardinality(PlacedFor(b))
           wanted == Positive(delta[b])
<1>1. /\ placed \in Nat /\ todo[b] \in Int /\ delta[b] \in Int /\ wanted \in Nat
    BY AskedParts, PlacementAssumption DEF Positive
<1>2. /\ snap' = snap /\ pc' = pc /\ todo[a] > 0 /\ RemovedOf(b)' = RemovedOf(b)
      /\ todo'[b] = IF b = a THEN todo[b] - 1 ELSE todo[b]
    BY DEF Try, Turn, TypeOK, RemovedOf
<1>3. UNCHANGED CountActiveReplicas(b)
    BY <1>2 DEF CountActiveReplicas, ReplicasForApp, Tracked
<1>4. /\ placed + Positive(todo[b]) <= wanted
      /\ placed + Positive(todo[b]) = wanted \/ b \in refused
    BY DEF Answering
<1>5. /\ refused \in SUBSET refused'
      /\ placed' = placed \/ (b = a /\ placed' = placed + 1)
      /\ b = a => placed' = placed + 1 \/ b \in refused'
    <2>1. ASSUME NEW c, NEW victims, PlaceIn(a, c, victims)
          PROVE  /\ refused' = refused
                 /\ placed' = IF b = a THEN placed + 1 ELSE placed
        <3>1. Appended(ScaleUpOf(a, c, victims))
            BY <2>1, PlaceInAppends
        <3>2. PICK n : n = Len(scaleUps) + 1
            OBVIOUS
        <3>3. /\ DOMAIN scaleUps' = DOMAIN scaleUps \cup {n} /\ n \notin DOMAIN scaleUps
              /\ \A i \in DOMAIN scaleUps : scaleUps'[i] = scaleUps[i]
              /\ scaleUps'[n].app = a
            BY <3>1, <3>2 DEF Appended, ScaleUpOf
        <3>4. PlacedFor(b)' = IF b = a THEN PlacedFor(b) \cup {n} ELSE PlacedFor(b)
            BY <3>3 DEF PlacedFor
        <3>5. IsFiniteSet(PlacedFor(b)) /\ n \notin PlacedFor(b)
            BY <3>3, AskedParts DEF PlacedFor
        <3>6. Cardinality(PlacedFor(b) \cup {n}) = placed + 1
            BY <3>5, FS_AddElement
        <3> QED BY <2>1, <3>4, <3>6 DEF PlaceIn
    <2>2. ASSUME refused' = refused \cup {a}, scaleUps' = scaleUps
          PROVE  placed' = placed
        BY <2>2 DEF PlacedFor
    <2> QED BY <2>1, <2>2
<1> HIDE DEF placed, wanted
<1>6. /\ placed' + Positive(todo'[b]) <= wanted
      /\ placed' + Positive(todo'[b]) = wanted \/ b \in refused'
    <2>1. CASE b = a
        BY <1>1, <1>2, <1>4, <1>5, <2>1 DEF Positive
    <2>2. CASE b # a
        BY <1>2, <1>4, <1>5, <2>2
    <2> QED BY <2>1, <2>2
<1>7. /\ todo'[b] < 0 <=> todo[b] < 0
      /\ todo[b] < 0 => todo'[b] = todo[b]
      /\ todo'[b] >= 0 <=> todo[b] >= 0
    BY <1>1, <1>2
<1>8. /\ CountActiveReplicas(b) + delta[b] >= 0
      /\ todo[b] < 0 => pc = "scaleDowns" /\ todo[b] = delta[b] /\ RemovedOf(b) = {}
      /\ todo[b] >= 0 => Cardinality(RemovedOf(b)) = Positive(-delta[b])
    BY DEF Answering
<1>9. /\ CountActiveReplicas(b)' + delta[b] >= 0
      /\ todo'[b] < 0 => pc' = "scaleDowns" /\ todo'[b] = delta[b] /\ RemovedOf(b)' = {}
      /\ todo'[b] >= 0 => Cardinality(RemovedOf(b)') = Positive(-delta[b])
    BY <1>2, <1>3, <1>7, <1>8
<1> QED BY <1>6, <1>9 DEF Answering, placed, wanted

(* The surplus replicas of a are chosen. *)
LEMMA AnsweringScaleDown ==
    ASSUME TypeOK, NEW delta \in Deltas, NEW a \in Apps, NEW b \in Apps, ScaleDown(a),
           Answering(delta, b)
    PROVE  Answering(delta, b)'
<1>1. /\ todo[a] < 0 /\ todo'[b] = IF b = a THEN 0 ELSE todo[b]
      /\ UNCHANGED <<snap, pc, scaleUps, refused>>
    BY DEF ScaleDown, TypeOK
<1>2. UNCHANGED <<CountActiveReplicas(b), PlacedFor(b)>>
    BY <1>1 DEF CountActiveReplicas, ReplicasForApp, Tracked, PlacedFor
<1>3. PICK vs \in ScaleDownVictims(a, -todo[a]) : scaleDowns' = scaleDowns \cup vs
    BY DEF ScaleDown
<1>4. todo[a] \in Int /\ delta[a] \in Int /\ IsFiniteSet(ReplicasForApp(a))
      /\ CountActiveReplicas(a) \in Nat
    BY AskedParts, PlacementAssumption
<1>5. vs \in SUBSET ReplicasForApp(a)
    BY <1>3 DEF ScaleDownVictims, kSubset
<1>6. CASE b = a
    <2>1. /\ CountActiveReplicas(a) + delta[a] >= 0 /\ todo[a] = delta[a] /\ RemovedOf(a) = {}
          /\ Cardinality(PlacedFor(a)) + Positive(todo[a]) <= Positive(delta[a])
          /\ Cardinality(PlacedFor(a)) + Positive(todo[a]) = Positive(delta[a]) \/ a \in refused
        BY <1>1, <1>6 DEF Answering
    <2>2. RemovedOf(a)' = vs
        BY <1>3, <1>5, <2>1 DEF RemovedOf, ReplicasForApp
    <2>3. Cardinality(vs) = -todo[a]
        <3>1. CASE -todo[a] >= CountActiveReplicas(a)
            <4>1. vs = ReplicasForApp(a)
                BY <1>3, <3>1 DEF ScaleDownVictims, CountActiveReplicas
            <4> QED BY <1>4, <2>1, <3>1, <4>1 DEF CountActiveReplicas
        <3>2. CASE ~(-todo[a] >= CountActiveReplicas(a))
            BY <1>3, <3>2 DEF ScaleDownVictims, CountActiveReplicas, kSubset
        <3> QED BY <3>1, <3>2
    <2>4. Positive(-delta[a]) = -todo[a] /\ Positive(todo[a]) = 0 /\ Positive(todo'[a]) = 0
        BY <1>1, <1>4, <1>6, <2>1 DEF Positive
    <2>5. todo'[a] = 0
        BY <1>1, <1>6
    <2> QED BY <1>1, <1>2, <1>6, <2>1, <2>2, <2>3, <2>4, <2>5 DEF Answering
<1>7. CASE b # a
    <2>1. RemovedOf(b)' = RemovedOf(b)
        BY <1>3, <1>5, <1>7 DEF RemovedOf, ReplicasForApp
    <2>2. todo'[b] = todo[b]
        BY <1>1, <1>7
    <2> QED BY <1>1, <1>2, <2>1, <2>2 DEF Answering
<1> QED BY <1>6, <1>7

LEMMA AskedStep ==
    ASSUME TypeOK, Asked, [CycleNext]_cycleVars
    PROVE  Asked'
<1>1. ASSUME NEW delta \in Deltas, StartPlacement(delta)
      PROVE  Asked'
    <2> SUFFICES ASSUME NEW a \in Apps PROVE Answering(delta, a)'
        BY <1>1 DEF Asked, StartPlacement
    <2>1. /\ scaleUps = <<>> /\ scaleDowns = {} /\ CountActiveReplicas(a) + delta[a] >= 0
          /\ todo' = delta /\ pc' = "scaleDowns" /\ UNCHANGED <<snap, scaleUps, scaleDowns>>
        BY <1>1 DEF Asked, StartPlacement
    <2>2. PlacedFor(a)' = {} /\ RemovedOf(a)' = {} /\ UNCHANGED CountActiveReplicas(a)
        BY <2>1 DEF PlacedFor, RemovedOf, CountActiveReplicas, ReplicasForApp, Tracked
    <2>3. Cardinality({}) = 0
        BY FS_EmptySet
    <2>4. delta[a] \in Int
        BY PlacementAssumption
    <2>5. /\ delta[a] >= 0 => Positive(-delta[a]) = 0
          /\ 0 + Positive(delta[a]) = Positive(delta[a]) /\ Positive(delta[a]) <= Positive(delta[a])
        BY <2>4 DEF Positive
    <2> QED BY <2>1, <2>2, <2>3, <2>5 DEF Answering
<1>2. ASSUME NEW a \in Apps, ScaleDown(a)
      PROVE  Asked'
    <2>1. pc = "scaleDowns" /\ pc' = pc
        BY <1>2 DEF ScaleDown
    <2>2. PICK delta \in Deltas : \A b \in Apps : Answering(delta, b)
        BY <2>1 DEF Asked
    <2>3. \A b \in Apps : Answering(delta, b)'
        BY <1>2, <2>2, AnsweringScaleDown
    <2> QED BY <2>1, <2>3 DEF Asked
<1>3. ASSUME NEW a \in Apps, PlaceReplica(a) \/ Preempt(a) \/ Refuse(a)
      PROVE  Asked'
    <2>1. Try(a) /\ pc = "scaleUps" /\ pc' = pc /\ scaleDowns' = scaleDowns
        BY <1>3 DEF PlaceReplica, Preempt, Refuse, Try, Turn
    <2>2. PICK delta \in Deltas : \A b \in Apps : Answering(delta, b)
        BY <2>1 DEF Asked
    <2>3. \/ \E c, victims : PlaceIn(a, c, victims)
          \/ refused' = refused \cup {a} /\ scaleUps' = scaleUps
        BY <1>3 DEF PlaceReplica, Preempt, Refuse
    <2>4. \A b \in Apps : Answering(delta, b)'
        BY <2>1, <2>2, <2>3, AnsweringTry
    <2> QED BY <2>1, <2>4 DEF Asked
<1>4. ASSUME pc # "idle", pc' # "idle", UNCHANGED <<snap, todo, scaleUps, scaleDowns, refused>>,
             \A a \in Apps : todo[a] >= 0, pc' = "decided" => \A a \in Apps : todo[a] = 0
      PROVE  Asked'
    <2>1. PICK delta \in Deltas : \A b \in Apps : Answering(delta, b)
        BY <1>4 DEF Asked
    <2> SUFFICES ASSUME NEW b \in Apps PROVE Answering(delta, b)'
        BY <1>4 DEF Asked
    <2>2. UNCHANGED <<CountActiveReplicas(b), PlacedFor(b), RemovedOf(b)>>
        BY <1>4 DEF CountActiveReplicas, ReplicasForApp, Tracked, PlacedFor, RemovedOf
    <2>3. todo[b] \in Int /\ todo[b] >= 0
        BY <1>4, AskedParts
    <2>4. ~(todo[b] < 0)
        BY <2>3
    <2>5. Answering(delta, b)
        BY <2>1
    <2> QED BY <1>4, <2>2, <2>4, <2>5 DEF Answering
<1>5. CASE EndScaleDowns
    BY <1>4, <1>5 DEF EndScaleDowns
<1>6. CASE EndPlacement
    <2>1. \A a \in Apps : todo[a] = 0 /\ todo[a] >= 0
        BY <1>6 DEF EndPlacement
    <2> QED BY <1>4, <1>6, <2>1 DEF EndPlacement
<1>7. CASE UNCHANGED vars
    <2>1. ASSUME NEW delta, NEW b
          PROVE  Answering(delta, b)' <=> Answering(delta, b)
        BY <1>7 DEF vars, Answering, CountActiveReplicas, ReplicasForApp, Tracked, PlacedFor,
                    RemovedOf
    <2> QED BY <1>7, <2>1 DEF vars, Asked
<1> QED BY <1>1, <1>2, <1>3, <1>5, <1>6, <1>7
       DEF CycleNext, Place, Rebalance, Validate, CycleOver, cycleVars, ComputePlacement

(* A cycle answers the scaling decisions it started with, whatever the     *)
(* configuration: ComputePlacement gives up on a replica only where there  *)
(* is no room for it, and what it gave up on would not fit later either.   *)
THEOREM DecisionsCarriedOutHolds == CycleSpec => []DecisionsCarriedOut
<1>1. CycleInit => Asked /\ RefusedForGood
    BY DEF CycleInit, Init, Asked, RefusedForGood
<1>2. TypeOK /\ Asked /\ [CycleNext]_cycleVars => Asked'
    BY AskedStep
<1>3. TypeOK /\ RefusedForGood /\ [CycleNext]_cycleVars => RefusedForGood'
    BY RefusedForGoodStep
<1>4. TypeOK /\ Asked /\ RefusedForGood => DecisionsCarriedOut
    <2> SUFFICES ASSUME TypeOK, Asked, RefusedForGood, pc = "decided"
                 PROVE  DecisionsCarriedOut
        BY DEF DecisionsCarriedOut
    <2>1. PICK delta \in Deltas : \A a \in Apps : Answering(delta, a)
        BY DEF Asked
    <2> SUFFICES ASSUME NEW a \in Apps
                 PROVE  /\ Cardinality(RemovedOf(a)) = Positive(-delta[a])
                        /\ Cardinality(PlacedFor(a)) <= Positive(delta[a])
                        /\ \/ Cardinality(PlacedFor(a)) = Positive(delta[a])
                           \/ Eligible(a) = {} /\ ~CanPreempt(a)
        BY DEF DecisionsCarriedOut
    <2>2. todo[a] = 0 /\ Positive(0) = 0 /\ 0 >= 0
        BY DEF Asked, Positive
    <2>3. Cardinality(PlacedFor(a)) \in Nat
        BY AskedParts
    <2>4. /\ Cardinality(RemovedOf(a)) = Positive(-delta[a])
          /\ Cardinality(PlacedFor(a)) <= Positive(delta[a])
          /\ Cardinality(PlacedFor(a)) = Positive(delta[a]) \/ a \in refused
        BY <2>1, <2>2, <2>3 DEF Answering
    <2>5. a \in refused => Eligible(a) = {} /\ ~CanPreempt(a)
        BY CanPreemptParts DEF RefusedForGood, TypeOK
    <2> QED BY <2>4, <2>5
<1> QED BY <1>1, <1>2, <1>3, <1>4, TypeOKHolds, PTL DEF CycleSpec

-----------------------------------------------------------------------------
(* A cluster of single GPUs: what ControlLoop takes a cycle to decide. *)

OfOneGPU(c) ==
    /\ Clusters = {c}
    /\ \A a \in Apps : GPUsPerReplica[a] = 1
    /\ \A r \in Replicas : GPUs[r] = 1

NobodyPreempted == \A i \in DOMAIN scaleUps : scaleUps[i].victims = {}

(* As long as nobody is preempted all that is reserved is for the replicas *)
(* placed where there was room.                                            *)
ReservedForPlaced ==
    NobodyPreempted => \A c \in Clusters : localReservations[c] = Sum(Need, PlacedIn(c))

LEMMA ReservedForPlacedStep ==
    ASSUME TypeOK, ReservedForPlaced, [CycleNext]_cycleVars
    PROVE  ReservedForPlaced'
<1>1. ASSUME NEW a \in Apps, NEW c \in Clusters, NEW victims, PlaceIn(a, c, victims)
      PROVE  ReservedForPlaced'
    <2>1. Appended(ScaleUpOf(a, c, victims))
        BY <1>1, PlaceInAppends
    <2>2. PICK n : n = Len(scaleUps) + 1
        OBVIOUS
    <2>3. /\ DOMAIN scaleUps' = DOMAIN scaleUps \cup {n}
          /\ \A i \in DOMAIN scaleUps : scaleUps'[i] = scaleUps[i]
          /\ scaleUps'[n].victims = victims
        BY <2>1, <2>2 DEF Appended, ScaleUpOf
    <2>4. NobodyPreempted' => NobodyPreempted /\ victims = {}
        BY <2>3 DEF NobodyPreempted
    <2> SUFFICES ASSUME NobodyPreempted, victims = {}, NEW d \in Clusters
                 PROVE  localReservations'[d] = Sum(Need, PlacedIn(d))'
        BY <2>4 DEF ReservedForPlaced
    <2>5. localReservations[d] = Sum(Need, PlacedIn(d))
        BY DEF ReservedForPlaced
    <2>6. NeedAfter(a, c, victims, d)
        BY <1>1, NeedGrows
    <2>7. localReservations'[d] =
             IF d = c THEN localReservations[d] + GPUsPerReplica[a] ELSE localReservations[d]
        BY <1>1 DEF PlaceIn, TypeOK
    <2> QED BY <2>5, <2>6, <2>7 DEF NeedAfter
<1>2. ASSUME NEW a \in Apps, PlaceReplica(a)
      PROVE  ReservedForPlaced'
    <2>1. PICK c \in Best(a) : PlaceIn(a, c, {})
        BY <1>2 DEF PlaceReplica
    <2>2. c \in Clusters
        BY <2>1 DEF Best, Allowed, Eligible
    <2> QED BY <2>1, <2>2, <1>1
<1>3. ASSUME NEW a \in Apps, Preempt(a)
      PROVE  ReservedForPlaced'
    <2>1. PICK c \in PreemptionPlan(a).target : PlaceIn(a, c, PreemptionPlan(a).victims)
        BY <1>3 DEF Preempt
    <2>2. c \in Clusters
        BY <2>1, PreemptionPlanChooses DEF TypeOK
    <2> QED BY <2>1, <2>2, <1>1
<1>4. CASE UNCHANGED <<scaleUps, localReservations>>
    BY <1>4 DEF ReservedForPlaced, NobodyPreempted, Need, PlacedIn
<1>5. CASE ComputePlacement
    BY <1>2, <1>3, <1>4, <1>5
       DEF ComputePlacement, StartPlacement, ScaleDown, EndScaleDowns, Refuse, Try, EndPlacement
<1> QED BY <1>4, <1>5 DEF CycleNext, Place, Rebalance, Validate, CycleOver, cycleVars, vars

(* The free GPUs of nodes add up.                                          *)
LEMMA FreeOnAdd ==
    ASSUME TypeOK, NEW ns \in SUBSET Nodes, NEW n \in Nodes, n \notin ns
    PROVE  FreeOn(ns \cup {n}) = FreeOn(ns) + FreeGPUs(n)
<1> DEFINE on(ms) == {r \in Replicas : snap.place[r] \in ms}
<1>1. IsFiniteSet(ns) /\ \A m \in ns : TotalGPUs[m] \in Nat
    BY SnapshotAssumption, FS_Subset
<1>2. TotalGPUs[n] \in Nat /\ TotalOn(ns) \in Nat
    BY SnapshotAssumption, TotalOnType
<1>3. TotalOn(ns \cup {n}) = TotalOn(ns) + TotalGPUs[n]
    BY <1>1, <1>2, SumAdd DEF TotalOn
<1>4. on(ns \cup {n}) = on(ns) \cup ReplicasOn(snap.place, n)
      /\ on(ns) \cap ReplicasOn(snap.place, n) = {}
    BY DEF ReplicasOn
<1>5. on(ns) \in SUBSET Replicas /\ ReplicasOn(snap.place, n) \in SUBSET Replicas
    BY DEF ReplicasOn
<1> HIDE DEF on
<1>6. /\ GPUsOf(on(ns \cup {n})) = GPUsOf(on(ns)) + GPUsOf(ReplicasOn(snap.place, n))
      /\ GPUsOf(on(ns)) \in Nat /\ GPUsOf(ReplicasOn(snap.place, n)) \in Nat
    BY <1>4, <1>5, GPUsOfDisjoint, GPUsOfIsNat
<1>7. /\ FreeOn(ns \cup {n}) = TotalOn(ns \cup {n}) - GPUsOf(on(ns \cup {n}))
      /\ FreeOn(ns) = TotalOn(ns) - GPUsOf(on(ns))
      /\ FreeGPUs(n) = TotalGPUs[n] - GPUsOf(ReplicasOn(snap.place, n))
    BY DEF FreeOn, FreeGPUs, on
<1> QED BY <1>2, <1>3, <1>6, <1>7

(* Nodes without a free GPU have none free together.                       *)
LEMMA NoneFree ==
    ASSUME TypeOK, NEW ns \in SUBSET Nodes, \A n \in ns : ~(FreeGPUs(n) >= 1)
    PROVE  FreeOn(ns) <= 0
<1> DEFINE some == {ms \in SUBSET ns : ~(FreeOn(ms) <= 0)}
<1>1. IsFiniteSet(ns) /\ some \in SUBSET (SUBSET ns)
    BY SnapshotAssumption, FS_Subset
<1>2. SUFFICES ASSUME some # {} PROVE FALSE
    BY DEF some
<1>3. PICK ms \in some : \A n \in ms : ms \ {n} \notin some
    <2> HIDE DEF some
    <2> QED BY <1>1, <1>2, SmallestSet
<1>4. ms \in SUBSET ns /\ ~(FreeOn(ms) <= 0)
    OBVIOUS
<1>5. CASE ms = {}
    <2> DEFINE none == {}
    <2>1. none \in SUBSET Nodes /\ {r \in Replicas : snap.place[r] \in none} = none
        OBVIOUS
    <2>2. TotalOn(none) = 0 /\ GPUsOf(none) = 0
        BY SumOfNothing DEF TotalOn, GPUsOf
    <2>3. FreeOn(none) = 0
        BY <2>1, <2>2 DEF FreeOn
    <2> QED BY <1>4, <1>5, <2>3
<1>6. CASE ms # {}
    <2>1. PICK n \in ms : TRUE
        BY <1>6
    <2>2. PICK rest : rest = ms \ {n}
        OBVIOUS
    <2>3. /\ n \in Nodes /\ n \in ns /\ n \notin rest
          /\ rest \in SUBSET Nodes /\ rest \in SUBSET ns /\ ms = rest \cup {n}
        BY <1>4, <2>1, <2>2
    <2>4. FreeOn(rest) <= 0
        BY <1>3, <2>1, <2>2, <2>3
    <2>5. FreeOn(rest) \in Int /\ FreeGPUs(n) \in Int
        BY <2>3, FreeOnType, FreeGPUsType
    <2>6. FreeOn(ms) = FreeOn(rest) + FreeGPUs(n)
        BY <2>3, FreeOnAdd
    <2>7. ~(FreeGPUs(n) >= 1)
        BY <2>3
    <2> HIDE DEF some
    <2> QED BY <1>4, <2>4, <2>5, <2>6, <2>7
<1> QED BY <1>5, <1>6

(* The room of such a cluster, all of whose nodes are ready.               *)
FreePlaces(c) == TotalOn(Nodes) - Cardinality(Tracked) - snap.reserved[c]

LEMMA RoomOfOneGPU ==
    ASSUME TypeOK, NEW c, OfOneGPU(c), snap.ready = Nodes
    PROVE  /\ ReadyNodes(c) = Nodes
           /\ Room(c) = FreePlaces(c)
<1>1. ReadyNodes(c) = Nodes
    BY SnapshotAssumption DEF OfOneGPU, ReadyNodes, NodesOf
<1>2. {r \in Replicas : snap.place[r] \in Nodes} = Tracked
    BY SnapshotAssumption DEF TypeOK, SnapshotType, Tracked
<1>3. IsFiniteSet(Tracked) /\ \A r \in Tracked : GPUs[r] = 1
    BY SnapshotAssumption, FS_Subset DEF Tracked, OfOneGPU
<1>4. GPUsOf(Tracked) = Cardinality(Tracked)
    BY <1>3, SumOfOnes DEF GPUsOf
<1> QED BY <1>1, <1>2, <1>4 DEF Room, FreeOn, FreePlaces

(* What ControlLoop!Placements says of the replicas placed: as many as are *)
(* wanted, while there is room.                                            *)
FillsTheRoom(c) ==
    pc = "decided" /\ snap.ready = Nodes /\ NobodyPreempted =>
        \E delta \in Deltas :
            /\ \A a \in Apps : Cardinality(PlacedFor(a)) <= Positive(delta[a])
            /\ Len(scaleUps) <= Positive(FreePlaces(c))
            /\ \/ Len(scaleUps) >= FreePlaces(c)
               \/ \A a \in Apps : Cardinality(PlacedFor(a)) = Positive(delta[a])

LEMMA AllPlacedHere ==
    ASSUME TypeOK, NEW c, OfOneGPU(c), NobodyPreempted
    PROVE  Sum(Need, PlacedIn(c)) = Len(scaleUps) /\ Len(scaleUps) \in Nat
<1> DEFINE Ups == [app : Apps, cluster : Clusters, victims : SUBSET Replicas]
<1>1. scaleUps \in Seq(Ups)
    BY DEF TypeOK
<1>2. /\ Len(scaleUps) \in Nat /\ DOMAIN scaleUps = 1 .. Len(scaleUps)
      /\ \A i \in DOMAIN scaleUps : scaleUps[i] \in Ups
    <2> HIDE DEF Ups
    <2> QED BY <1>1
<1>3. PlacedIn(c) = 1 .. Len(scaleUps)
    BY <1>2 DEF PlacedIn, OfOneGPU, NobodyPreempted
<1>4. \A i \in PlacedIn(c) : Need[i] = 1
    BY <1>2, <1>3 DEF Need, OfOneGPU
<1>5. IsFiniteSet(PlacedIn(c)) /\ Cardinality(PlacedIn(c)) = Len(scaleUps)
    <2>1. PICK n : n = Len(scaleUps)
        OBVIOUS
    <2>2. n \in Nat
        BY <1>2, <2>1
    <2>3. IsFiniteSet(1 .. n) /\ Cardinality(1 .. n) = n
        BY <2>2, FS_Interval
    <2> QED BY <1>3, <2>1, <2>3
<1> QED BY <1>2, <1>4, <1>5, SumOfOnes

(* Where each replica takes one GPU of one cluster and nobody is preempted *)
(* a cycle fills the room the snapshot shows, and no more: ControlLoop     *)
(* takes ComputePlacement by this.                                         *)
THEOREM FillsTheRoomHolds ==
    ASSUME NEW c, OfOneGPU(c)
    PROVE  CycleSpec => []FillsTheRoom(c)
<1>1. CycleInit => ReservedForPlaced /\ RoomAccounted
    <2> SUFFICES ASSUME CycleInit, NEW d \in Clusters
                 PROVE  Sum(Need, PlacedIn(d)) = 0 /\ localReservations[d] = 0
        BY DEF ReservedForPlaced, RoomAccounted
    <2>1. PlacedIn(d) = {}
        BY DEF CycleInit, Init, PlacedIn
    <2> QED BY <2>1, SumOfNothing DEF CycleInit, Init
<1>2. TypeOK /\ ReservedForPlaced /\ [CycleNext]_cycleVars => ReservedForPlaced'
    BY ReservedForPlacedStep
<1>3. TypeOK /\ RoomAccounted /\ [CycleNext]_cycleVars => RoomAccounted'
    BY RoomAccountedStep
<1>4. TypeOK /\ ReservedForPlaced /\ RoomAccounted /\ DecisionsCarriedOut => FillsTheRoom(c)
    <2> SUFFICES ASSUME TypeOK, ReservedForPlaced, RoomAccounted, DecisionsCarriedOut,
                        pc = "decided", snap.ready = Nodes, NobodyPreempted
                 PROVE  FillsTheRoom(c)
        BY DEF FillsTheRoom
    <2>1. PICK delta \in Deltas : \A a \in Apps :
             /\ Cardinality(PlacedFor(a)) <= Positive(delta[a])
             /\ Cardinality(PlacedFor(a)) = Positive(delta[a]) \/ Eligible(a) = {}
        BY DEF DecisionsCarriedOut
    <2>2. /\ c \in Clusters /\ ReadyNodes(c) = Nodes /\ Room(c) = FreePlaces(c)
          /\ Room(c) \in Int /\ Len(scaleUps) \in Nat
          /\ Sum(Need, PlacedIn(c)) = Len(scaleUps)
        BY RoomOfOneGPU, RoomType, AllPlacedHere DEF OfOneGPU
    <2>3. Len(scaleUps) <= Positive(FreePlaces(c))
        BY <2>2 DEF RoomAccounted, Positive
    <2>4. ASSUME NEW a \in Apps, Eligible(a) = {}
          PROVE  Len(scaleUps) >= FreePlaces(c)
        <3>1. GPUsPerReplica[a] = 1
            BY DEF OfOneGPU
        <3>2. \/ ~HasFittingNode(c, 1)
              \/ ~(ClusterAvailableGPUs(c) >= 1)
            BY <2>2, <2>4, <3>1 DEF Eligible
        <3>3. CASE ~HasFittingNode(c, 1)
            <4>1. FreeOn(Nodes) <= 0
                BY <2>2, <3>3, NoneFree DEF HasFittingNode
            <4>2. snap.reserved[c] \in Nat /\ FreeOn(Nodes) \in Int
                BY <2>2, FreeOnType DEF TypeOK, SnapshotType
            <4>3. Room(c) = FreeOn(Nodes) - snap.reserved[c]
                BY <2>2 DEF Room
            <4> QED BY <2>2, <4>1, <4>2, <4>3
        <3>4. CASE ~(ClusterAvailableGPUs(c) >= 1)
            <4>1. localReservations[c] = Len(scaleUps)
                BY <2>2 DEF ReservedForPlaced
            <4>2. ClusterAvailableGPUs(c) = Room(c) - localReservations[c]
                BY DEF ClusterAvailableGPUs, Room
            <4> QED BY <2>2, <3>4, <4>1, <4>2
        <3> QED BY <3>2, <3>3, <3>4
    <2> QED BY <2>1, <2>3, <2>4 DEF FillsTheRoom
<1> QED BY <1>1, <1>2, <1>3, <1>4, TypeOKHolds, DecisionsCarriedOutHolds, PTL DEF CycleSpec

=============================================================================
