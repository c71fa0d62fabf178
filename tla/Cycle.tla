------------------------------- MODULE Cycle --------------------------------
(***************************************************************************)
(* One cycle of internal/controlloop, from the snapshot to the validated   *)
(* plan: placement (Placement), rebalancing (Rebalancing), the plan of     *)
(* internal/plangen and its validation.  Executor is about what follows.   *)
(***************************************************************************)
EXTENDS Placement, Rebalancing

VARIABLES
    phase,          \* "deciding", "planned", "valid" or "invalid"
    migrations      \* migrations[r]: the cluster replica r is to move to

cycleVars == <<vars, phase, migrations>>

-----------------------------------------------------------------------------
(* GeneratePlan.  An operation is <<type, number, replica>>: the number of *)
(* the scale-up decision it is or was decided with, and the replica that   *)
(* it stops or replaces.                                                   *)
PreemptOps ==
    UNION {{<<"preempt", i, r>> : r \in scaleUps[i].victims} : i \in DOMAIN scaleUps}
ScaleDownOps      == {<<"scaleDown", 0, r>> : r \in scaleDowns}
ScaleUpOps        == {<<"scaleUp", i, 0>> : i \in DOMAIN scaleUps}
MigrationUpOps    == {<<"migrateUp", 0, r>> : r \in DOMAIN migrations}
MigrationDownOps  == {<<"migrateDown", 0, r>> : r \in DOMAIN migrations}

Ops == PreemptOps \cup ScaleDownOps \cup ScaleUpOps \cup MigrationUpOps \cup MigrationDownOps

ClusterPreemptionOps(c) == {o \in PreemptOps : ClusterID(o[3]) = c}

(* Slip: a migration starts with the replica it replaces. *)
DependsOn_stopFirst(o) ==
    CASE o[1] = "scaleUp"     -> ClusterPreemptionOps(scaleUps[o[2]].cluster)
      [] o[1] = "migrateUp"   -> ClusterPreemptionOps(migrations[o[3]])
                                   \cup {<<"migrateDown", 0, o[3]>>}
      [] o[1] = "migrateDown" -> {<<"migrateUp", 0, o[3]>>}
      [] OTHER                -> {}

DependsOn(o) ==
    CASE o[1] = "scaleUp"     -> ClusterPreemptionOps(scaleUps[o[2]].cluster)
      [] o[1] = "migrateUp"   -> ClusterPreemptionOps(migrations[o[3]])
      [] o[1] = "migrateDown" -> {<<"migrateUp", 0, o[3]>>}
      [] OTHER                -> {}

-----------------------------------------------------------------------------
(* validatePlan.  The reservations of the plan are newer than the          *)
(* snapshot, so checkReservationCapacity finds none of them there; and a   *)
(* snapshot has no terminated replica for checkNoTerminatedScaleDown.      *)

(* Slip: migrations are not scale-ups. *)
ScaledUp_withoutMigrations == {scaleUps[i].app : i \in DOMAIN scaleUps}

ScaledUp ==
    {scaleUps[i].app : i \in DOMAIN scaleUps} \cup {AppOf[r] : r \in DOMAIN migrations}

CheckNoSelfPreemption == \A r \in Victims : AppOf[r] \notin ScaledUp

-----------------------------------------------------------------------------

CycleInit ==
    /\ Init
    /\ phase = "deciding"
    /\ migrations = <<>>

Place ==
    /\ ComputePlacement
    /\ UNCHANGED <<phase, migrations>>

Rebalance ==
    /\ pc = "decided" /\ phase = "deciding"
    /\ migrations' \in RebalancingOpportunities
    /\ phase' = "planned"
    /\ UNCHANGED vars

Validate ==
    /\ phase = "planned"
    /\ phase' = IF CheckNoSelfPreemption THEN "valid" ELSE "invalid"
    /\ UNCHANGED <<vars, migrations>>

(* The cycle is over; the next one has another snapshot. *)
CycleOver ==
    /\ phase \in {"valid", "invalid"}
    /\ UNCHANGED cycleVars

CycleNext == Place \/ Rebalance \/ Validate \/ CycleOver

CycleSpec == CycleInit /\ [][CycleNext]_cycleVars

-----------------------------------------------------------------------------
(* Properties. *)

(* A scale-up that was decided by preempting others waits for all of its   *)
(* victims, although the plan ties operations together by cluster only.    *)
RoomIsMadeFirst ==
    phase # "deciding" =>
        \A i \in DOMAIN scaleUps : \A r \in scaleUps[i].victims :
            <<"preempt", i, r>> \in DependsOn(<<"scaleUp", i, 0>>)

(* What Executor needs of a plan: every operation depends on operations of *)
(* the plan, and of any set of operations one depends on none of the       *)
(* others.                                                                 *)
PlanWellFounded ==
    phase # "deciding" =>
        /\ \A o \in Ops : DependsOn(o) \subseteq Ops
        /\ \A S \in SUBSET Ops : S # {} => \E o \in S : DependsOn(o) \cap S = {}

(* Preemption and rebalancing do not know of each other; no plan that is   *)
(* executed stops a replica for both.                                      *)
NoPreemptedMigration ==
    phase = "valid" => Victims \cap DOMAIN migrations = {}

(* Rebalancing only ever moves a replica to a cluster with more GPUs:      *)
(* whatever the snapshots, it cannot send one back and forth.              *)
NoWayBack ==
    \A r \in DOMAIN migrations :
        TotalOn(NodesOf(migrations[r])) > TotalOn(NodesOf(ClusterID(r)))

(* "checkReservationCapacity ensures that GPU reservations from scale-up   *)
(* operations don't exceed the cluster's total GPU capacity."              *)
ReservationsWithinCapacity ==
    phase = "valid" =>
        \A c \in Clusters : GPUsFor(c, DOMAIN scaleUps) <= TotalOn(NodesOf(c))

=============================================================================
