# Schedulator: a verification development

Schedulator places replicas of LLM serving applications on the GPUs of several
Kubernetes clusters.  Events from the clusters, a configuration file and an
HTTP API are collected into batches; each batch starts one cycle of the control
loop, which brings an in-memory world state up to date, computes scaling
targets, places replicas, preempts and migrates others, turns all of it into a
plan of operations that depend on each other, and executes the plan.

This directory holds TLA+ modules that model the parts of the system, TLC
configurations that check them on small instances, and theorems about them that
TLAPS checks for every instance.  `PROJECT.json` lists runs, mutants, hazards
and theorems and maps every definition to the lines of `src/` it models.

## 1. The system

    clusters ──informers──▶ k8s aggregator ─┐
    apps.yaml ──watcher──▶ config store ────┼─▶ ingester ─▶ debouncer ─▶ batches
    HTTP API ──inject──────────────────────-┘                             │
                                                                          ▼
       world state ◀── apply events ── control loop: one cycle per batch
           ▲   │ snapshot                scaling → placement (→ preemption)
           │   └────────────────────▶    → reservations → rebalancing
           │                             → plan generator → validation
           ├── fulfil / expire ◀──────── → executor ──▶ clusters
           └── expire stale   ◀── reservation sweeper

| component | state | operations | hard behaviour |
|---|---|---|---|
| executor (`internal/executor`) | status of each operation, two counters, the results channel, one goroutine per running operation | `Execute`, `dispatchOp`, `scaleUp`, `preempt`, `scaleDown`, `waitForRunning`, `waitForDeletion`, `abortTransitive` | workers in parallel, deadlines against late answers, failing and lost calls, cancellation while workers run, abort of dependents |
| world state (`internal/worldstate`) | clusters with nodes, replicas, reservations, applications, metrics, scaling history, all under one lock | `Upsert…`, `Remove…`, `Delete…`, reservation operations, `Snapshot` | events in any order; the GPU accounting is kept twice (nodes and replicas); three actors end reservations |
| control loop (`internal/controlloop`) | none between cycles but the world state; the sweeper's goroutine | `Run`, `runCycle`, `applyEvents`, `validatePlan`, `runReservationExpiry` | decisions on one snapshot while the sweeper and the API run; a cycle that fails half-way; a cycle blocks the intake of events |
| scaling engine | none (history is in the world state) | `ComputeTargets` | caps, floors, cooldowns and the stabilization counter over several cycles; replicas in flight |
| placement and preemption engines | per call: local reservations and placements | `ComputePlacement`, `findBestCluster`, `FindPreemptionOpportunity`, `selectVictims` | every search of a cycle sees the same snapshot |
| rebalancing engine | none | `FindRebalancingOpportunities` | min_replicas and capacity checked per migration |
| plan generator | none | `GeneratePlan` | dependencies between preemptions, scale-ups and migrations |
| ingester and debouncer (`internal/ingestion`) | six listeners, the raw channel, the merged map and the list of cluster events, a timer, two channels of one batch | `Start`, `InjectEvent`, `Debouncer.loop`, `instrumentBatches` | bounded channels, merging, shutdown |
| k8s aggregator | two informers per cluster, a channel of 64 events | `FullSync`, `WatchEvents`, informer handlers | resync, no order between informers, stable replica ids |
| k8s client | none | `CreateReplica`, `DeleteReplica`, `LabelReplica`, `GetReplicaStatus` | not-found is an error, a success or a status, depending on the call |
| config store | a channel of 16 updates, a file watcher and a debounce timer per watch | `ListApplications`, `WatchApplications`, `WatchMetrics` | timer callback against shutdown |
| event bus and API server | subscribers with channels of 32 events | `Subscribe`, `Publish`, handlers | slow subscribers, unsubscription during publication |
| event log, observability, leader election, data model, dashboard, simulator | — | — | no concurrent or stateful logic of their own |

What makes each of the core components correct:

* executor: dependencies complete before an operation starts; dependents of a
  failure are aborted; `Execute` ends with one outcome per operation and no
  goroutine left; a reservation's fate fits the outcome; room is made before it
  is asked for; a migration never stops the old replica before the new one runs;
  nothing is left behind in a cluster that no one tracks.
* world state: a node's free and allocated GPUs add up; its list of pods and its
  allocation follow the tracked replicas through every call; derived numbers are
  fresh; a reservation ends once.
* engines and control loop: GPUs are not given away twice; min_replicas holds for
  all decisions of a cycle together; cooldowns hold; a dropped plan leaves nothing.
* ingestion: no update is lost to merging; cluster events arrive in order; the
  pipeline shuts down.
* aggregator: the world state catches up with what runs, whatever happened while
  it looked away; nothing that is gone stays in it.
* config store: what is applied last is what the file says.

## 2. The modules

| module | models | proofs |
|---|---|---|
| `PlanExecution` | what `Execute` promises, without loop, workers or channel | |
| `Executor` | `internal/executor` with the clusters and the sweeper around it | `Executor_proofs` |
| `MCExecutor` | plans for TLC | |
| `WorldState` | `internal/worldstate` and the sweeper's scan | `WorldState_proofs` |
| `MCWorldState` | a small world for TLC | |
| `Ingestion` | `internal/ingestion` and the reading side of the control loop | `Ingestion_proofs` |
| `MCIngestion` | one application for TLC | |
| `Sums` | sums as numbers of units, which the prover can reason about | `DataLemmas` |
| `Snapshot` | the world state as the engines of one cycle see it | |
| `Placement` | placement and preemption engines | `Cycle_proofs` |
| `Rebalancing` | rebalancing engine | |
| `Cycle` | `runCycle` from the snapshot to the validated plan, with the plan generator; composes `Placement` and `Rebalancing` | `Cycle_proofs` |
| `MCCycle` | two clusters and four applications for TLC | |
| `Scaling` | scaling engine, as operators | `ControlLoop_proofs` |
| `ControlLoop` | cycle after cycle: batches, decisions, reservations, execution, cluster, sweeper; takes the other components by what they promise | `ControlLoop_proofs` |
| `MCControlLoop` | two applications and what their metrics may show | |
| `ClusterEvents` | aggregator and start-up around `WorldState`, which it extends | `ClusterEvents_proofs` |
| `MCClusterEvents` | one cluster of two nodes | |
| `ConfigWatcher` | config store and its reader | `ConfigWatcher_proofs` |
| `MCConfigWatcher` | two applications | |
| `DataLemmas` | nothing: facts about finite sets, sums and sequences for the proofs | itself |

Definitions named `X_slip`, each after a comment that begins with "Slip:", are
mutated forms of the definition below them (a dropped guard, a missing reset).
They are used by nothing; `PROJECT.json` names for every property one of them
that TLC refutes the property with.

### Executor

`mainPC` is the place of the main loop: `dispatch` is the walk over the
operations (executor.go:132-152), `select` the wait for a result or the
cancellation (160-217), `drain` the loop that collects the results of running
workers after a cancellation (198-217).  `Dispatch(o)` starts one worker; the
walk over the Go map has no order, so any ready operation may be next, and
`EndDispatch` needs that none is ready: an operation cannot become ready during
the walk.  `TakeResult` stands for the result's case of the select with
`abortTransitive`, which marks the pending operations among the descendants of
the failed one.  `Descendants` is the closure of the dependency relation, by its
definition as a least set.

`wpc[o]` is the next call or wait of the worker of `o`, one action per call:
every interleaving of workers, sweeper and main loop between two calls is
explored.  `werr[o]` is the error the worker will report.  The results channel
holds one result per operation at most, as its capacity does.  A wait has a
deadline (`waitDone`, set by `Deadline`) besides the context of `Execute`.

The clusters are external.  `cluster[r]` is `absent`, `pending`, `running` or
`terminating`; a terminating replica may still answer as running or pending, as
its Deployment does until it is collected.  Where the constants say so a call
fails by itself (`ApiErrors`), fails after taking effect (`LostReplies`), or a
replica is deleted by someone else (`ExternalDeletes`).  A cancelled context
fails every call.

`PlanExecution` knows only operations with outcomes: an operation starts when
its dependencies have completed, a failure aborts its dependents in the same
step, a cancellation aborts what is pending, and the call returns when nothing
is pending or in flight.  `PlanSteps` states that `Executor` refines it, with
`status` as the outcome and `mainPC = "returned"` as the return.

### WorldState

One action per mutator, each atomic, as each holds `mu` from its first line to
its last.  Of a node the model keeps where it is (`where`), its free and
allocated GPUs (`free`, `alloc`) and its list of pods (`pods`); of a tracked
replica its place, size and status (`phase`); of a reservation its status.  `frag` is the
stored fragmentation score, as the pair of free and total GPUs so that no
division is needed; `replicasGauge` and `reservationsGauge` are the two metrics
that are moved by increments rather than recomputed.  `MoveGPUs` stands for
`restoreNodeGPUs` followed by `allocateNodeGPUs`, including what they do about
unknown nodes.  Inputs are what `main.go` and the control loop pass: a node
always comes up with all GPUs free (`PutNodes`), also when replicas are tracked on
it - because their pods were reported first, or because it was announced before.
`Unseen(n)` is what the accounting of a node then misses of the replicas on it.
`NoGPUsLost` and `AccountingKept` say how far this goes: a node may show more free
GPUs than the replicas on it leave, but never fewer, and nothing but the announcement of the
node itself puts its accounting out of step; in particular a replica that the node
does not know gives back, when it goes, exactly what it is counted for.

### Ingestion

Every listener takes one input and sends what it gives rise to, one event at a
time, on the raw channel: `Receive` and `Send` are the two halves, and between
them another listener may send, the debouncer may take, the context may be
cancelled.  An input may give rise to several events (`MetricsOf`: a metrics
update and up to two SLA breaches); the poll walks over the applications in no
order (`StartPoll`, `Poll`).  A listener looks at the context only when it has
nothing left to send (`Exit`).

Events are numbers in the order they entered the raw channel, with a merge key:
that is all the debouncer looks at.  `merged` and `ordered` are its map and its
list, `timer` its window; `dpc` tells whether it is in its select, in the guarded
send of a batch (`Emit`), or in the unguarded one at the end (`FinalFlush`).
`held` is the batch `instrumentBatches` has taken and not yet passed on.  In a
select with several ready cases any may be taken.  The control loop applies a
batch at the start of its cycle (`ReadBatch`) and reads no other before the cycle
ends.  `sent`, `last` and `clusterSent` are history, for the properties.

### Snapshot, Placement, Rebalancing, Cycle

A cycle decides on one snapshot, `snap`, which nobody changes while it decides.
`Snapshot` holds what all engines read of it: where each tracked replica is,
which replicas run rather than pend, which nodes are ready, and how many GPUs
earlier cycles have reserved in each cluster.  A node's free GPUs follow from the
replicas on it here, while the code reads the `FreeGPUs` that the world state keeps.
The two agree where no node was announced with replicas on it (`AccountingKept` of
`WorldState`); the snapshot of a program that runs into `ce_reannounced` shows more
free GPUs than there are (`NoGPUsLost`), and what the engines make of that is not
modelled: the properties of `Cycle` are about snapshots that are right.  The scaling decisions are an input (`Deltas`), from not approved
(0) to several replicas more or less.

`Placement` is `ComputePlacement`, one action per replica that is looked for:
`Turn` is the order of the walk (sorted by priority, otherwise in any order, all
replicas of an application in a row), `PlaceReplica` the case that
`findBestCluster` finds one, `Preempt` the fall-back to
`FindPreemptionOpportunity`, `Refuse` neither.  `localReservations` and
`localAppPlacement` are the maps of that name; `scaleUps` has the victims of each
decision with it, from which the property of one decision about its own victims
can be told from that of the cycle.  Scores are compared exactly, both multiplied
by their denominators.  A sort and a loop that goes through its result are one
definition: `PreemptedBefore` is the order of `sortCandidates`, and
`SelectVictims` takes the candidates before which not enough was freed.  `target`
is a set because "" (no cluster yet) is among the values of the code's variable.

`Rebalancing` is a set of results rather than a walk: the walk over the maps stops
at the second migration it finds, so any two of those it would accept may be it.

`Cycle` puts the operations of the plan together as sets, with the dependencies
`GeneratePlan` gives them, and validates it.  Of the three checks of
`validatePlan` only `CheckNoSelfPreemption` can fail: a snapshot has no terminated
replica, and the reservations of the plan are newer than the snapshot.  After the
validation the cycle is over; what follows is `Executor`.

One thing the engines are ready for does not happen with the program around them as
it is: `UpdateCacheLocations` is called by tests only, so that in production no
model is cached anywhere, cache scores are 0 and nothing is ever migrated.  Nor is
anything ever scaled down (below).  `Cycle` has both, as the tests of the engines do.

### Scaling, ControlLoop

`Scaling` computes with integers where the code has float64: a product of a count
and a quotient of metrics is rounded up exactly (`CeilScaled`).  A decision's
history is three facts: whether the last scale-up is still cooling down, whether the
last scale-down is, and the counted signals.  The override for replicas that are
pending too long needs a performance profile, which only tests store.

`ControlLoop` is the system in the large.  A replica takes one GPU of one cluster.
`ApplyEvents` takes any prefix of the events on the way (what `Ingestion` proves of
cluster events: in order, none lost) with the newest metrics of some applications;
`Decide` is the rest of the cycle up to the plan, for any placement that respects
the room of the snapshot (`PlacedWhereRoom` of `Cycle`); then the plan is executed,
or dropped by validation after reservations and history were written.  The workers
are those of `Executor`'s scale-ups, without the steps between their calls; replicas
start while there are GPUs, and vanish; names are used anew.  Only what fails counts
towards `MaxFailures`; a replica that cannot start because the cluster is full is
given up for free.  Preemptions and migrations are not in it.

`ViewFollowsCluster` is what the whole loop relies on: nobody tells the world state
of a replica but its events, and the events are read late, in pieces, while
replicas are created, deleted and created again.

### ClusterEvents

`main` lists nodes and pods (`ListNodes`, `ListPods`), seeds the world state with
them, and starts a node and a pod informer, which list once more, each at its own
moment, and report from then on what changes: a node that becomes ready or ceases to
be, a pod that runs, ends or goes.  Every 30 seconds the pod informer reports once
more all it knows (`Resync`; the node informer's handler reports changes only).  The
events of one informer stay in order, those of two do not.  A list of the full sync
may fail, in which case the program starts with nothing.  Nodes and pods are
external: a Deployment makes a new pod beside one that terminates or has failed, all
pods of it carry its replica id, and a terminating pod still counts as running.

### ConfigWatcher

The file's content is its version.  `timer` is the callback the debounce timer was
last set for; each callback is a goroutine: it may be stopped until it starts to
read, and then runs beside whatever else happens.  With `EmitsInitially` callback 0
stands for the first loop of `WatchMetrics`, which sends before the channel has a
reader.  `disturbed` is history for the properties.

The watch is on the file, not on its name.  `Write` is a write in place; `Replace`
puts a new file in the old one's stead, as editors do that write a copy and rename
it.  The watch goes with the old file (`watched`), and the notifications of its end
are skipped by the filter on Write and Create (yamlstore.go:182), so from then on no
change is noticed; the code never watches the new file.  A watch that cannot be set
(`WatchFails`) leaves the caller with a channel on which nothing comes any more and
that nobody closes.

## 3. Runs

| run | question | bounds |
|---|---|---|
| `ex_migration` | order, abort, end and refinement of `Execute`; blue-green; reservations fit outcomes | a preemption, a scale-up that depends on it, and a migration pair that depends on it too; API errors, lost replies and cancellation on |
| `ex_shared` | types, counters, order of release and creation, clean-up until a cancellation; `Execute` returns | two preemptions of one victim, a scale-up that depends on both, one to a cluster without client; external deletions and cancellation on |
| `ws_world` | GPU accounting, pods, fragmentation, gauges, ended reservations, sweeper; no GPUs are lost to placement, and only the announcement of a node puts its accounting out of step | two clusters, three nodes, two replicas, one reservation, any order of events, announced nodes with replicas on them among them; a clock that runs to the TTL (2) |
| `ing` | order and completeness of cluster events; merging keeps the newest, and nothing goes back; every event is delivered; a cancellation closes the output | three events from the aggregator and the poll of one application, room for one on the raw channel |
| `cycle` | what the decisions of a cycle add up to, and the plan made of them | a cluster of two GPUs and one of four, four applications of all priorities, every place of five replicas of two sizes, six changes of targets |
| `cycle_overbooked` (violation) | reservations of a validated plan fit the cluster | the same |
| `loop` | the view follows the cluster; min_replicas is reached | two applications with two names for replicas each (`Slots`), two GPUs, a latency above the SLA at any time, one failure |
| `loop_overshoot` (violation) | calm metrics never lead to more than min_replicas | the same, without failures |
| `loop_idle` (violation) | the scale-down signal of an idle application is observed | three GPUs, pressure and idleness, no failures |
| `ce` | replicas and nodes are caught up with, nothing gone stays | one cluster of two nodes, one replica with two pods at a time, four changes (`MaxChanges`), from any first state |
| `ce_reannounced` (violation) | the accounting of `WorldState` is exact, from start-up on | the same, but nothing changes or fails (`MaxChanges` is 0) |
| `watch` | the file's last version is applied last, none goes back | two applications, room for two updates, three changes of the file |

Four operations are enough to see every shape `GeneratePlan` produces: several
preemptions shared by several scale-ups, a scale-up without dependencies, and a
chain of length three (preemption, migration's scale-up, its scale-down), the
longest there is.  Two replicas of different size and three nodes in two clusters show
a move within a cluster, between clusters, to and from an unknown node, another
replica on the same node, and nodes announced before, between and after all of
that.  Reservations share nothing with nodes and replicas but the lock, and nothing
with each other but the gauge: the run has one, which the
executor may fulfil or expire before the sweeper does, and `WorldState_proofs` proves `DerivedFresh` and
`EndedStaysEnded` for any number, a sweep that ends several among them.

In `cycle` the initial states are all arrangements of the replicas, so that every
mix of free, fragmented, reserved and cordoned nodes occurs, with applications
above, at and below min_replicas.  Two scale-ups of priority 0 compete for the same victims, one of
priority 1 spreads over clusters and may preempt, one of priority 2 may not; one replica is
larger than its application now asks for.  Two preemptions in a cycle are where searches can first
disagree.  Removed nodes with replicas still tracked do not occur; a cordoned node
does.

The properties of `cycle`, in words.  `PlacedWhereRoom`: placements by room
together stay within it.  `MinReplicasKept`: all preemption searches of the cycle
together leave every application its minimum, though each counts alone; this
needs replicas of one size (`OfOneSize`): after a change of `gpus_per_replica`
the searches of two applications with different needs prefer different replicas,
and TLC finds two searches that take the last replica but one each.  `CascadeKept`: priority 1 loses
replicas only when priority 2 has none to spare in that cluster.
`SpreadNeverBlocks`: the spread rule leaves a cluster as long as one has room, so
that it never causes a preemption (plan/08-placement-engine.md:147 describes that
case; it cannot occur).  `NoPriorityInversion`: after an application was refused,
nobody later in the cycle gets as many GPUs.  `CacheDominates`: the weights
keep a better cache tier ahead of packing and balance together.
`RoomIsMadeFirst`, `PlanWellFounded`: the dependencies that `GeneratePlan` finds
by cluster are the right ones.  `NoPreemptedMigration`: validation keeps a
replica from being preempted and migrated.  `NoWayBack`: a migration
always goes to a cluster with more GPUs, so none is ever undone.

Between the raw channel and the control loop there is room for a batch in the
debouncer, one on its channel, one held by `instrumentBatches` and one on the
output: with three events a listener waits for the raw channel, the debouncer for
its reader, and events are merged while they wait.  The listeners of
injected events and of application and metrics configuration do what those of
the runs do, with other merge keys.

Fairness (`FairSpec` of `Executor`): goroutines are scheduled, so the main loop
and every worker proceed; a call returns because the client's context ends it;
a deadline passes because it is a timer.  Nothing is assumed of the clusters: a
replica may stay pending for ever.  Nor is anything of the sweeper, who may come at
any time, or never.  In `WorldState` only the sweeper's scan and the clock are fair.  In `Ingestion`
goroutines are scheduled, the timer fires and a cycle of the control loop ends
(`Terminates` is why); no source has to have events, nobody has to cancel.  In
`ControlLoop` cycles go on because the periodic event comes; events on the way are
read time and again (strong fairness: `Delivered` of `Ingestion`, though any single
cycle may be started by a tick alone); workers end (`Terminates`); pods that have a
GPU start; cooldowns run out, and reservations are swept when their time has passed
(without it `MinimumReached` fails: a reservation whose plan was dropped, or whose
creation failed, keeps the room).  Nothing is assumed of failures but
their bound, which is the "failures stop some time" of `MinimumReached`.  In
`ClusterEvents` `main` goes on, informers list, the resync period passes and the loop
applies events; no node or pod has to do anything.  In `ConfigWatcher` timers fire and
goroutines run; nobody has to write.

In `loop` two applications on two GPUs are the smallest instance in which one can
take what the other needs; two names for each leave one to use anew while the events
of the other are on the way; and one failure is enough for each kind to meet all
others.  In `ce` four changes are what it takes for a pod to terminate, its successor to be made, to
run, and the old one to go, with the start-up anywhere in between; a fifth would be
a second replacement, which meets the same states.  In `watch` three writes give a
timer stopped in time, one stopped too late, and a callback that waits for room; any of
them may be a replacement.

Properties of these runs, in words.  `MinimumReached`: as failures end, every
application comes back to its minimum, past lost replicas, dropped plans and
cooldowns - except when another holds more than its own minimum, which nothing takes
back (preemption aside, which is in `Cycle`).  `CatchesUp`: once a Deployment is down
to one running pod, its replica is tracked on that pod's node for good; the
termination of the old pod may remove it for a while, the resync brings it back.
With a failed pod that stays beside it the replica would be removed with every
resync, for ever.  `NoGhosts`: what has no pod left will be removed; only a pod that
went between the full sync and the pod informer's first list is never reported, and
its replica stays with its GPUs until the next start.  `SettlesOnNewest`, `NeverBack`:
the watcher does what it promises as long as no callback waits for room until the
next one has read (then the older may send last), and the first as long as the file is
written in place.  A callback that is still sending
when the watcher has closed the channel may panic (`Send`): the state "panicked" is
reachable after a cancellation.

### What the violations show

* `ce_reannounced`: `applyClusterEvent` writes a node that comes up with all its
  GPUs free (loop.go:462), also when replicas are tracked on it.  The trace is a start
  at which nothing fails and nothing changes: full sync, nodes and replicas seeded,
  and then the first event of the node informer, which announces a node the full sync
  has already filled.  The update of a replica on the same node does not touch the
  node, so it stays so.
* `loop_overshoot`: a replica enters the world state with its PodRunning event only,
  and its reservation ends when `scaleUp` sees it run.  The batch that waited while
  the plan was executed has no such event: the next cycle sees neither, and creates
  the same replicas again, if its scale-up is not suppressed by the cooldown of a
  second.
* `loop_idle`: `computeEffectiveTarget` adds what is missing to what is there
  (engine.go:293), so the target is never below it, the branch for scaling down is
  dead and idle applications keep their GPUs.  `NeverAsksForFewer` proves it for all
  metrics.
* `cycle_overbooked`: every preemption search starts from the snapshot (placement
  engine.go:151), so two scale-ups can be placed on the GPUs of the same victims;
  `checkReservationCapacity`, which is there to catch that, looks for the new
  reservations in the old snapshot (validation.go:62) and finds none.

### What the models show besides

States that are part of the modules and reached by their runs, but are no longer stated as
properties of their own:

* `scaleUp` cleans up after a failed wait with the context of `Execute`
  (operations.go:99).  If the wait failed because that context was cancelled, so does
  the deletion; its error is logged, and the replica stays, its reservation already
  expired.  `NoOrphanBeforeCancel` is the part that holds.
* `waitForDeletion` takes any error of the status call as "replica no longer exists"
  (operations.go:189), but the client reports a missing Deployment as Terminated,
  without error.  A poll that runs into the wait's deadline therefore ends the wait
  successfully, and scale-ups that need the victim's GPUs start while it holds them
  (`PollDeleted` of `Executor`).
* At the end the debouncer sends its last batch without looking at the context
  (debounce.go:56), but its reader `instrumentBatches` ends at the cancellation.  If a
  batch is still on the channel between them the debouncer stays for ever; listeners
  that still have something to send stay too once the raw channel is full.  The output
  is closed nonetheless (`OutputCloses`).
* A configuration file that is saved by renaming a new one to its name is noticed
  neither then nor later (`Replace` of `ConfigWatcher`), although src/README.md:186 says
  of any edit that the program "picks up the change within seconds".
* With more than 16 applications `WatchMetrics` waits for room before anybody can read
  (yamlstore.go:105), and the program does not start.

## 4. Proofs

All theorems hold for every value of the constants that satisfies the named
assumptions.  Every safety invariant and every action property that a passing run
checks is the statement of a theorem; TLC finds the counterexamples of the mutants, the
theorems cover the instances TLC does not reach.

| assumption | who makes it | why the code justifies it |
|---|---|---|
| `PlanAssumption` | `Executor` | `GeneratePlan` lists an operation after those it depends on (`PlanWellFounded`), and makes a replica of its own for each scale-up |
| `WorldAssumption`, `ClusterEventsAssumption` | `WorldState`, `ClusterEvents` | finitely many nodes, replicas, reservations and pods, with natural numbers of GPUs |
| `SnapshotAssumption` and those of the engines | `Cycle` | the same of what the snapshot shows; an application asks for at least one GPU |
| `ConfigWatcherAssumption` | `ConfigWatcher` | the applications of a file are a sequence |
| `~ApiErrors` | `NoOrphanBeforeCancelHolds` | a clean-up whose call fails is logged and not tried again |
| `~ExternalDeletes` | `BlueGreenHolds` | a new replica deleted by somebody else after it was seen to run is no fault of the executor |
| `MigrationsOwnReplicas` | `BlueGreenHolds` | no plan that is executed also preempts a replica it migrates (`NoPreemptedMigration`), and none scales one down (`NothingScaledDownHolds`) |

`Executor_proofs`.  The invariants are not inductive as they stand.  `TypeInv`
is the type part without the counters' being natural numbers; `Links` ties
`status`, `wpc` and `results` together (a pending or aborted operation has no
worker; an operation in flight has a worker that has not sent, or exactly one
result; a result belongs to an operation in flight) and holds
`DependenciesFirst` and `NoneWaitsInVain`, which need each other: dependents of a
failure are pending only because they cannot have started before it completed.
`Counts` adds that the counters are the cardinalities; only with it are they
never negative, so `TypeOK` comes last.  `LoopOver` says that in `drain` and
after the return nothing is pending; that the return leaves nothing pending in
the other case, too, is where the well-foundedness of the plan enters
(`NothingIsLeft`): among pending operations one depends on none of the others,
so its dependencies have completed, and it would be ready.  `PlanSteps` follows
step by step from `Links` and `Counts`.  `NobodyWaitsForNobody` is the safety half of
`Terminates`: the results on the channel are of different operations and none is of a
worker that has yet to report (`Links`), so by the pigeonhole principle the channel, as
long as the plan, has room for it; and what is in flight has a worker or a result
(`Counts`), so neither of the two receives of the main loop is for ever.  `StepsRunOut`
is why it does not go on for ever either: each step of the main loop lowers
`LoopMeasure`, which counts the operations that are still to be dispatched and the
results that are still to be taken (a drain ends with nothing left of both); each step
of a worker lowers its `Distance` to the end, but for polls before their deadline; and
nobody else raises either.  That deadlines pass and goroutines are scheduled is all that
is left to the fairness `Terminates` is checked under.

The four properties of what the workers do to clusters and reservations rest on one
invariant, `WorkersConsistent`: per operation, where its worker is (`Placed`), what its
calls have done so far to the replica (`Released`: what it had deleted stays so;
`Cleaned`: what did not start in time is deleted; `Kept`: what was reported running
runs) and to the reservation (`ReservationEnds`: the worker fulfils or expires it, never
both, and the sweeper may expire it first).  It holds whatever the clusters do in
between, because nothing but an operation's own worker creates its replica.
`Outcomes` carries it over the results channel to the status that `Execute` reports,
and `DependenciesFirst` from an operation to those it waits for.  `BlueGreen` needs in
addition that the old replica is untouched until its scale-down starts (`OldKept`).

`WorldState_proofs`: `TypeOK` and `GPUsConserved` together; `NoPhantomPods`; an ended
reservation never changes.  `AccountingKept` is a fact about single steps
(`StepKeepsAccounting`): a move takes one replica from the sum over a node and adds it
to that over another (`AtAfterMove`, `MoveKeepsAccounting`), as the node's allocation
does, and `NoGPUsLost` follows from it, since an announced node starts with nothing
allocated.  Neither assumes anything of the order in which replicas and nodes become
known.  `DerivedFresh` is three
invariants: a score depends on the nodes of its own cluster only
(`FragmentationLocal`), so that refreshing the clusters of the nodes that changed is
enough, and each gauge is the cardinality of a set that a step changes by one element,
or by those that are stale.

`Ingestion_proofs`: all safety properties of `Ingestion`, for any listeners,
capacity and number of events.  The invariant is `InOrder`: an event passes six
places (raw channel, debouncer, its channel, `instrumentBatches`, the output,
applied), and whatever is in one of them is newer than all that is ahead of it.
Only with it does "the last to arrive wins" mean that the newest is kept, and
does a batch never overwrite something newer; `ByLast` adds that no place holds
anything newer than the last event sent.  `PipeSteps` reduces the steps of
`Next` to the eight that move an event.  From `InOrder` and `NoClusterEventLost`
together follows `AppliedIsPrefix`: the cluster events applied are the first of those
sent, without a gap.  `UpUntilCancelled`, the safety half of `Delivered`, is inductive
by itself.

`Cycle_proofs`, for any clusters, applications, snapshots and scaling decisions: all
properties of `Placement` and `Cycle` that the run checks.

* `PlacedWhereRoom` rests on `RoomAccounted`: in each cluster what was placed
  without victims is at most what is reserved locally, and at most the room of the
  snapshot; a new placement had its need left over both.  That a preemption adds
  nothing to it needs that an application asks for at least one GPU.
* `RoomIsMadeFirst` rests on `VictimsInCluster`, and this on `OneTarget`:
  `sortCandidates` orders candidates of different clusters one way or the other,
  so the first victim, hence the cluster, is unique, and the second search is pinned
  to it (`PreemptionPlanChooses`).
* `PlanWellFounded` follows from `Levels`: operations depend on operations of an
  earlier kind only; with it the assumption of `Executor` on its plans is what
  `GeneratePlan` provides.
* `MinReplicasKept` and `CascadeKept` rest on `PlannedVictims`: every set of victims
  in the plan is the one the preemption search gives for its application.  All searches
  of a cycle look in one cluster (`OneTargetEach`), and of the replicas of an application
  that have one size each of them takes the oldest, whoever searches: the sets they
  choose are initial segments of one order, the union of several is one of them, and each
  leaves the minimum.
* `NoPriorityInversion` rests on `Turns` (nobody who was refused has a lower priority
  than those still to be served) and `RefusedForGood`: whoever was refused has no eligible cluster and
  nothing to preempt, then and for the rest of the cycle, since the reservations of a
  cycle only grow and the snapshot stays; and what is too small for its request is too
  small for a larger one (`CanFreeToo`).
* `SpreadNeverBlocks` needs no invariant but the types: the limit is an equal share,
  rounded up, of the replicas of the application in the clusters with room, and not all
  shares can be at it (`SharesAddUp`).
* `CacheDominates` compares products of the weights with the bounds of the other two
  scores, `NoWayBack` the two fractions of used GPUs, and `NoPreemptedMigration` rests
  on `Judged`: a plan that passed validation has no such replica.
* `DecisionsCarriedOut` rests on `Asked`: of every application what is placed and what
  is left to place is what its decision asks for, unless it was refused a replica, and
  its surplus is chosen exactly once; with `RefusedForGood` a refusal is right at the end
  of the cycle, too, whatever was placed after it.
* `FillsTheRoom` is what `ControlLoop` takes a cycle for (its `Placements`): one cluster,
  one GPU per replica, nobody preempted.  That a refusal means that no room is left needs
  `ReservedForPlaced` (all that is reserved was placed) and `NoneFree` (nodes without a
  free GPU have none free together, from a smallest counterexample).

`ControlLoop_proofs`, for any applications, metrics, limits, capacity and number of
failures.  `NeverAsksForFewer`: the target is what is there plus something that is not
negative, once the raw target is known to be an integer (`RawTargetType`: every
division is by a watermark's target or by a positive SLA).  With `DecisionIsUp` and
`RecordedType` no run ever writes a scale-down into the history.
`ViewFollowsCluster` rests on two facts about batches: one more event decides on its
own replica only (`AfterOneMore`), and events applied in two pieces come to the same
as in one (`AfterPieces`), by the last event of each replica.  That a creation does
not disturb it needs `IdleIsAbsent`: a worker that has not created its replica yet has
none in the cluster.

`ClusterEvents_proofs`.  `ClusterEventsDriveWorldStateHolds`: each step of start-up,
informers and loop is a step of `WorldState` or leaves it alone, so all that is proved of
the world state for arbitrary callers holds under the events it really gets.  `NoGhosts`
rests on `NoGhostsInv`: of a replica without a pod (and not missed between the two
listings) the queue of events is settled - after every PodRunning of it comes a
PodTerminated - and ends it if it is tracked; before the pod informer watches, it is
neither tracked nor about to be seeded.  The first half is what `NoGhosts` by itself
lacks: without it an old PodRunning event could bring the replica back when its last
termination has been applied.  `ReadyNodesAnnounced` is the safety half of
`ReadyNodesKnown`: of a node that is ready the last event on the way says so, or it is
known and no event about it is on the way; a NodeDown that overtook a later NodeUp would
break it.

`ConfigWatcher_proofs`.  `NeverBack` rests on `InOrder`: while callbacks do not overlap
at most one of them sends, and versions get newer on the way from what is applied
through the channel and the sender to the file.  That the initial sends are over before
any callback reads the file (`InitialFirst`) is what makes the sender unique.
`QuietIsNewest`, the safety half of `SettlesOnNewest`, rests on `NewestOnItsWay`: unless a
notification is left to be taken, the callback of the last timer has yet to read the file,
or sends what the file says, or has sent it, and what was sent last of an application is
applied or in the channel.

`DataLemmas`.  The sums of the models are cardinalities of sets of units (`Sums`), so
that their laws follow from those of finite sets.  Facts that call for induction over a
finite set are proved from a smallest counterexample instead: `LeastNat` and
`SmallestSet` give one, and a set without any one of its elements is then no
counterexample.  `Ranks` and `FirstMissing` do so for orders, where candidates are
taken in order until enough is freed.

The proofs corrected the model twice.  `Worthwhile` of `Rebalancing` accepted an
improvement of 0 out of 0 in a system without GPUs, which `NoWayBack` is false of; in the
code the score is then 0 and below the threshold.  And in `FirstStep` of `Executor` two
arms of a CASE overlapped for an operation to a cluster without client.

`ControlLoop` uses the other components by what they promise, and each of these promises
is a theorem about the module that models the component in detail:

| what `ControlLoop` takes for granted | theorem |
|---|---|
| a batch is a prefix of the events on their way, in their order | `ClusterEventsInOrderHolds`, `AppliedIsPrefixHolds` |
| the replicas placed are those wanted while there is room, and never more | `FillsTheRoomHolds` |
| a plan holds no scale-down | `NeverAsksForFewer`, `NothingScaledDownHolds` |
| every operation of a plan ends with one outcome | `ReturnDecidesAllHolds` (that `Execute` returns is `Terminates`, which TLC checks) |
| a scale-up that failed has cleaned up, unless the cluster refused | `NoOrphanBeforeCancelHolds` |

Only model-checked is liveness: `Terminates`, `ActiveEnds`, `Delivered`,
`OutputCloses`, `MinimumReached`, `CatchesUp`, `ReadyNodesKnown` and `SettlesOnNewest`, which rest on fairness, and the prover does
neither fairness nor ENABLED.  Of four of them the safety half is proved - that what is
to happen is on its way in every reachable state, and somebody is there to do it:
`NobodyWaitsForNobody`, `UpUntilCancelled`, `ReadyNodesAnnounced` and `QuietIsNewest`.
For `Terminates`, `StepsRunOut` adds the measures that bound its steps.  These five,
`AppliedIsPrefix`, `DecisionsCarriedOut` and `FillsTheRoom` are stated in the proof
modules; no run checks them.
The properties of the violating runs are false of the code, so nothing is proved of them
but `NeverAsksForFewer`, which is why `loop_idle` is violated.

## 5. Plan

Written: all modules of the plan, a proof of every safety and action property that
holds, the promises by which `ControlLoop` uses the other components, the safety
half of four liveness properties and the measures behind `Terminates`.  What may still
be proved: the safety half of `MinimumReached`.

## 6. Not modelled

* Event bus and API server: the handlers read a snapshot or the event log, or inject an
  event (an input of `Ingestion`), and write JSON; the bus is a map of channels under
  one lock, and that a slow subscriber loses events is what it says it does.
* Leader election: the only implementation always leads, so the branch of `Run` that
  drops a batch is never taken.
* Event log and observability: writes that nothing reads back into a decision.
* In the control loop, the summary, publication and log of a cycle; in the world state,
  maps that are assigned and copied under the lock (applications, cache locations,
  profiles, metrics).
* Parsing and layout: YAML, JSON, Deployments; the metrics reading of the k8s client.
* The dashboard, the simulator, load scripts and deployment files.
