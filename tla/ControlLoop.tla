---------------------------- MODULE ControlLoop ----------------------------
(***************************************************************************)
(* internal/controlloop over many cycles: the loop applies a batch of      *)
(* events, decides on a snapshot, reserves, executes the plan and reads    *)
(* the next batch, while the cluster changes and reports what changed.     *)
(*                                                                         *)
(* What Executor, Cycle, Ingestion and WorldState model in detail is taken *)
(* here by what it promises: batches are prefixes of the events on the     *)
(* way, in their order (Ingestion); every operation of a plan ends, and a  *)
(* failed one has cleaned up unless the cluster refused (Executor); the    *)
(* replicas placed fit into the room of the snapshot (Cycle).  Replicas    *)
(* take one GPU each of a single cluster; preemptions and migrations are   *)
(* left to Cycle.  The engine never asks for fewer replicas than there are *)
(* (NeverAsksForFewer), so no plan holds a scale-down.                     *)
(***************************************************************************)
EXTENDS Scaling, Sequences, FiniteSets

CONSTANTS
    Slots,          \* a replica is an application and a slot; bounds their number
    Capacity,       \* GPUs of the cluster
    MaxFailures     \* how often something goes wrong

VARIABLES
    pc,             \* where runCycle is
    tracked,        \* replicas in the world state
    metrics,        \* metrics[a]: the last reading applied
    history,        \* history[a]: what ScalingHistory says now
    reservation,    \* reservation[r]: "active", or "none" (absent or ended)
    worker,         \* worker[r]: the operation of the plan that creates r
    cluster,        \* cluster[r]: its Deployment, "absent", "starting", "running"
    events,         \* cluster events on their way to the loop
    failures        \* how often something went wrong

vars == <<pc, tracked, metrics, history, reservation, worker, cluster, events, failures>>

Replicas == Apps \X Slots
ReplicasForApp(S, a) == {r \in S : r[1] = a}
Reserved == {r \in Replicas : reservation[r] = "active"}
InState(st) == {r \in Replicas : cluster[r] = st}
Plan == {r \in Replicas : worker[r] # "none"}

ASSUME ControlLoopAssumption ==
    /\ IsFiniteSet(Apps) /\ IsFiniteSet(Slots) /\ Slots \subseteq Nat
    /\ Capacity \in Nat /\ MaxFailures \in Nat

Event(kind, r) == [kind |-> kind, replica |-> r]
EventsOf(es, r) == {i \in DOMAIN es : es[i].replica = r}

(* Slip: an update wins over a termination of the same batch. *)
AfterEvents_runningWins(S, es) ==
    {r \in Replicas :
        IF EventsOf(es, r) = {} THEN r \in S
        ELSE \E i \in EventsOf(es, r) : es[i].kind = "PodRunning"}

(* The replicas tracked after the events es, applied one by one.           *)
AfterEvents(S, es) ==
    {r \in Replicas :
        IF EventsOf(es, r) = {} THEN r \in S
        ELSE \E i \in EventsOf(es, r) :
                /\ \A j \in EventsOf(es, r) : j <= i
                /\ es[i].kind = "PodRunning"}

Init ==
    /\ pc = "select"
    /\ tracked = {} /\ cluster = [r \in Replicas |-> "absent"]
    /\ metrics \in [Apps -> Readings]
    /\ history = [a \in Apps |-> [up |-> FALSE, down |-> FALSE, signals |-> 0]]
    /\ reservation = [r \in Replicas |-> "none"]
    /\ worker = [r \in Replicas |-> "none"]
    /\ events = <<>>
    /\ failures = 0

-----------------------------------------------------------------------------
(* One cycle. *)

(* The loop takes a batch: the first k of the events on the way, with the  *)
(* newest metrics of some applications, or only a tick of the timer.       *)
ApplyEvents(k, m) ==
    /\ pc = "select"
    /\ tracked' = AfterEvents(tracked, SubSeq(events, 1, k))
    /\ events' = SubSeq(events, k + 1, Len(events))
    /\ metrics' = m
    /\ pc' = "applied"
    /\ UNCHANGED <<history, reservation, worker, cluster, failures>>

Count(a) == Cardinality(ReplicasForApp(tracked, a))
Decision(a) == ScalingDecision(a, metrics[a], Count(a), history[a])

(* applyScalingDecisions with RecordScaleEvent and IncrementScaleDownSignal. *)
Recorded(h, d) ==
    CASE d.approved /\ d.direction = "up"   -> [h EXCEPT !.up = TRUE, !.signals = 0]
      [] d.approved /\ d.direction = "down" -> [h EXCEPT !.down = TRUE, !.signals = @ + 1]
      [] ~d.approved /\ d.observed          -> [h EXCEPT !.signals = @ + 1]
      [] OTHER                              -> h

Wanted(a) == IF Decision(a).approved THEN Decision(a).target - Count(a) ELSE 0
Room == Capacity - Cardinality(tracked) - Cardinality(Reserved)

(* Names CreateReplica may give: nothing is left of an earlier use.        *)
Fresh == {r \in Replicas : /\ cluster[r] = "absent" /\ reservation[r] = "none"
                           /\ r \notin tracked /\ EventsOf(events, r) = {}}
Lowest(S, n) == {r \in S : Cardinality({q \in S : q[2] < r[2]}) < n}

(* What ComputePlacement places: as many as are wanted, while there is     *)
(* room.                                                                   *)
Placements ==
    {P \in SUBSET Fresh :
        /\ \A a \in Apps :
             /\ ReplicasForApp(P, a) = Lowest(ReplicasForApp(Fresh, a), Cardinality(ReplicasForApp(P, a)))
             /\ Cardinality(ReplicasForApp(P, a)) <= Wanted(a)
        /\ Cardinality(P) <= maxInt(0, Room)
        /\ \/ Cardinality(P) >= Room
           \/ \A a \in Apps : \/ Cardinality(ReplicasForApp(P, a)) = Wanted(a)
                              \/ ReplicasForApp(Fresh, a) \subseteq P}

(* From the snapshot to the plan: the history is written and the           *)
(* reservations are made before the plan is validated.                     *)
Decide(P) ==
    /\ pc = "applied"
    /\ P \in Placements
    /\ history' = [a \in Apps |-> Recorded(history[a], Decision(a))]
    /\ reservation' = [r \in Replicas |-> IF r \in P THEN "active" ELSE reservation[r]]
    /\ worker' = [r \in Replicas |-> IF r \in P THEN "idle" ELSE "none"]
    /\ pc' = "planned"
    /\ UNCHANGED <<tracked, metrics, cluster, events, failures>>

Execute ==
    /\ pc = "planned"
    /\ pc' = "executing"
    /\ UNCHANGED <<tracked, metrics, history, reservation, worker, cluster, events, failures>>

(* The plan does not pass validation and is dropped as it is.              *)
DropPlan ==
    /\ pc = "planned" /\ failures < MaxFailures
    /\ worker' = [r \in Replicas |-> "none"]
    /\ failures' = failures + 1
    /\ pc' = "select"
    /\ UNCHANGED <<tracked, metrics, history, reservation, cluster, events>>

EndExecute ==
    /\ pc = "executing"
    /\ \A r \in Plan : worker[r] = "done"
    /\ worker' = [r \in Replicas |-> "none"]
    /\ pc' = "select"
    /\ UNCHANGED <<tracked, metrics, history, reservation, cluster, events, failures>>

-----------------------------------------------------------------------------
(* The workers of Execute: scaleUp. *)

CreateReplica(r) ==
    /\ pc = "executing" /\ worker[r] = "idle"
    /\ worker' = [worker EXCEPT ![r] = "waiting"]
    /\ cluster' = [cluster EXCEPT ![r] = "starting"]
    /\ UNCHANGED <<pc, tracked, metrics, history, reservation, events, failures>>

(* The call fails, perhaps after the Deployment was made; the reservation  *)
(* is left to the sweeper.                                                 *)
CreateFails(r) ==
    /\ pc = "executing" /\ worker[r] = "idle" /\ failures < MaxFailures
    /\ worker' = [worker EXCEPT ![r] = "done"]
    /\ \E st \in {"absent", "starting"} : cluster' = [cluster EXCEPT ![r] = st]
    /\ failures' = failures + 1
    /\ UNCHANGED <<pc, tracked, metrics, history, reservation, events>>

(* A poll finds the replica running.                                       *)
Fulfill(r) ==
    /\ worker[r] = "waiting" /\ cluster[r] = "running"
    /\ worker' = [worker EXCEPT ![r] = "done"]
    /\ reservation' = [reservation EXCEPT ![r] = "none"]
    /\ UNCHANGED <<pc, tracked, metrics, history, cluster, events, failures>>

Delete(r) ==
    /\ cluster' = [cluster EXCEPT ![r] = "absent"]
    /\ events' = Append(events, Event("PodTerminated", r))

(* The deadline passes, or the replica is gone: the reservation is expired *)
(* and the replica deleted, if the cluster takes the call.  One that could *)
(* have started in time, and a failing call, count as failures.            *)
CouldStart == Cardinality(InState("running")) < Capacity
GiveUp(r) ==
    /\ worker[r] = "waiting"
    /\ worker' = [worker EXCEPT ![r] = "done"]
    /\ reservation' = [reservation EXCEPT ![r] = "none"]
    /\ \/ /\ ~CouldStart /\ cluster[r] = "starting"
          /\ Delete(r)
          /\ UNCHANGED failures
       \/ /\ failures < MaxFailures
          /\ failures' = failures + 1
          /\ \/ cluster[r] # "absent" /\ Delete(r)
             \/ UNCHANGED <<cluster, events>>
       \/ /\ cluster[r] = "absent"
          /\ UNCHANGED <<cluster, events, failures>>
    /\ UNCHANGED <<pc, tracked, metrics, history>>

-----------------------------------------------------------------------------
(* The cluster, time and the sweeper. *)

(* The pod of a Deployment gets its GPU and runs; the informer reports it. *)
Start(r) ==
    /\ cluster[r] = "starting" /\ CouldStart
    /\ cluster' = [cluster EXCEPT ![r] = "running"]
    /\ events' = Append(events, Event("PodRunning", r))
    /\ UNCHANGED <<pc, tracked, metrics, history, reservation, worker, failures>>

(* Somebody else deletes a replica.                                        *)
Vanish(r) ==
    /\ cluster[r] # "absent" /\ failures < MaxFailures
    /\ Delete(r)
    /\ failures' = failures + 1
    /\ UNCHANGED <<pc, tracked, metrics, history, reservation, worker>>

(* Both cooldowns are over some time after the last action. *)
Cools(a) ==
    /\ history[a].up \/ history[a].down
    /\ history' = [history EXCEPT ![a].up = FALSE, ![a].down = FALSE]
    /\ UNCHANGED <<pc, tracked, metrics, reservation, worker, cluster, events, failures>>

(* The TTL of the reservations S has passed.  The sweeper sees it at any   *)
(* time, even before the last of their workers has given up.               *)
Sweep(S) ==
    /\ S # {} /\ S \subseteq Reserved
    /\ reservation' = [r \in Replicas |-> IF r \in S THEN "none" ELSE reservation[r]]
    /\ UNCHANGED <<pc, tracked, metrics, history, worker, cluster, events, failures>>

-----------------------------------------------------------------------------

Cycle ==
    \/ \E k \in 0 .. Len(events), m \in [Apps -> Readings] : ApplyEvents(k, m)
    \/ \E P \in SUBSET Replicas : Decide(P)
    \/ Execute \/ DropPlan \/ EndExecute

Worker(r) == CreateReplica(r) \/ CreateFails(r) \/ Fulfill(r) \/ GiveUp(r)

Next ==
    \/ Cycle
    \/ \E r \in Replicas : Worker(r) \/ Start(r) \/ Vanish(r)
    \/ \E a \in Apps : Cools(a)
    \/ \E S \in SUBSET Replicas : Sweep(S)

Spec == Init /\ [][Next]_vars

(* The periodic event keeps the cycles coming, every event on the way is   *)
(* delivered some time (Ingestion), every worker ends (Executor), a pod    *)
(* that can start does, and time passes for cooldowns, reservations and    *)
(* the sweeper's ticker.                                                   *)
Fairness ==
    /\ WF_vars(Cycle)
    /\ SF_vars(\E k \in 1 .. Len(events), m \in [Apps -> Readings] : ApplyEvents(k, m))
    /\ \A r \in Replicas : WF_vars(Worker(r)) /\ WF_vars(Start(r))
    /\ \A a \in Apps : WF_vars(Cools(a))
    /\ \A r \in Replicas : WF_vars(\E S \in SUBSET Replicas : r \in S /\ Sweep(S))

FairSpec == Spec /\ Fairness

-----------------------------------------------------------------------------
(* Properties. *)

TypeOK ==
    /\ pc \in {"select", "applied", "planned", "executing"}
    /\ tracked \subseteq Replicas
    /\ metrics \in [Apps -> Readings]
    /\ history \in [Apps -> [up : BOOLEAN, down : BOOLEAN, signals : Nat]]
    /\ reservation \in [Replicas -> {"none", "active"}]
    /\ worker \in [Replicas -> {"none", "idle", "waiting", "done"}]
    /\ cluster \in [Replicas -> {"absent", "starting", "running"}]
    /\ events \in Seq([kind : {"PodRunning", "PodTerminated"}, replica : Replicas])
    /\ failures \in 0 .. MaxFailures

(* The loop reads its batches late, and in pieces, while replicas start,   *)
(* are deleted and their names are used anew: still the events on the way  *)
(* always lead from the replicas it tracks to those that run.              *)
ViewFollowsCluster == AfterEvents(tracked, events) = InState("running")

(* While failures stop some time, an application gets its min_replicas     *)
(* again and again, past lost replicas, dropped plans, plans without room  *)
(* and cooldowns; unless others hold more than their own minimum, which    *)
(* nothing takes back from them.                                           *)
MinimumReached ==
    \A a \in Apps :
        []<>(Count(a) >= MinReplicas[a] \/ \E b \in Apps : Count(b) > MinReplicas[b])

(* "computeEffectiveTarget accounts for in-flight (pending) replicas to    *)
(* prevent redundant scale-ups" (scaling/engine.go:251): with metrics that *)
(* ask for nothing, no application has more replicas than its minimum.     *)
NoRedundantScaleUp ==
    \A a \in Apps : Cardinality(ReplicasForApp(Replicas \ InState("absent"), a)) <= MinReplicas[a]

(* "Scale-down: all metrics low -> efficiency" (scaling/engine.go:197) and *)
(* "Always observe the scale-down signal" (line 349): an idle application  *)
(* outside its cooldown has the signal observed.                           *)
IdleIsObserved ==
    pc = "applied" => \A a \in Apps :
        IsIdle(a, metrics[a], Count(a)) /\ ~history[a].down => Decision(a).observed

=============================================================================
