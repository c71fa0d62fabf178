------------------------------ MODULE Executor ------------------------------
(***************************************************************************)
(* internal/executor: Execute runs a plan.  Its main loop owns the status  *)
(* of every operation and starts one goroutine (a worker, below) for each  *)
(* operation whose dependencies have completed; the worker talks to the    *)
(* cluster and to the world state and sends one result on a channel with   *)
(* room for every operation.                                               *)
(*                                                                         *)
(* The cluster behind ports.ClusterClient is external: a replica starts in *)
(* its own time or never, a deleted one lingers before it is gone, and,    *)
(* where the constants allow it, calls fail (after taking effect, too) and *)
(* replicas are deleted behind the scheduler's back.  The reservation      *)
(* sweeper of internal/controlloop runs beside the workers.                *)
(***************************************************************************)
EXTENDS Naturals, Sequences, FiniteSets

CONSTANTS
    Ops,            \* operations of the plan
    Kind,           \* Kind[o]: "scaleUp", "preempt" or "scaleDown"
    Deps,           \* Deps[o]: the operations o depends on
    Replicas,       \* replicas the plan creates or deletes
    Target,         \* Target[o]: the replica o creates or deletes
    Reserved,       \* scale-ups with a reservation (a migration's has none)
    Routable,       \* operations whose cluster client can be looked up
    ApiErrors,      \* may a call of a cluster fail by itself?
    LostReplies,    \* may a failed call have taken effect all the same?
    ExternalDeletes,\* may somebody else delete a replica?
    CtxCancel       \* may the context of Execute be cancelled?

VARIABLES
    mainPC,         \* where the main loop is
    status,         \* status[o], the map the main loop keeps
    pending,        \* its counters of pending ...
    inflight,       \* ... and in-flight operations
    results,        \* the results channel
    wpc,            \* wpc[o]: where the worker of o is
    werr,           \* werr[o]: does the worker of o report an error?
    waitDone,       \* operations whose wait deadline has passed
    ctxDone,        \* is the context cancelled?
    reservation,    \* reservation[o]: state of the reservation of o
    cluster         \* cluster[r]: state of replica r in its cluster

mainVars   == <<mainPC, status, pending, inflight>>
workerVars == <<wpc, werr>>
vars == <<mainVars, results, workerVars, waitDone, ctxDone, reservation, cluster>>

ScaleUps == {o \in Ops : Kind[o] = "scaleUp"}

(* plangen lists an operation after everything it depends on: of any set   *)
(* of operations, the one listed first depends on none of the others.      *)
(* Every scale-up creates a replica of its own.                            *)
ASSUME PlanAssumption ==
    /\ IsFiniteSet(Ops)
    /\ Kind \in [Ops -> {"scaleUp", "preempt", "scaleDown"}]
    /\ Deps \in [Ops -> SUBSET Ops]
    /\ \A S \in SUBSET Ops : S # {} => \E o \in S : Deps[o] \cap S = {}
    /\ Target \in [Ops -> Replicas]
    /\ \A o \in ScaleUps, p \in Ops : Target[o] = Target[p] => o = p
    /\ Reserved \subseteq ScaleUps

Waiting == {"pollRunning", "sleepRunning", "pollDeleted", "sleepDeleted"}

-----------------------------------------------------------------------------
(* The plan as the main loop sees it. *)

Closed(S) == \A p \in Ops : Deps[p] \cap S # {} => p \in S
(* Slip: only the direct dependents are aborted. *)
Descendants_direct == [o \in Ops |-> {p \in Ops : o \in Deps[p]}]

Descendants ==
    [o \in Ops |->
        {p \in Ops : \A S \in SUBSET Ops :
            (\A q \in Ops : o \in Deps[q] => q \in S) /\ Closed(S) => p \in S}]

(* Slip: a dependency that is under way counts as done. *)
depsCompleted_started(o) == \A d \in Deps[o] : status[d] \in {"inflight", "completed"}

depsCompleted(o) == \A d \in Deps[o] : status[d] = "completed"

(* Slip: a failed operation is tried again. *)
Ready_retries(o) == status[o] \in {"pending", "failed"} /\ depsCompleted(o)

Ready(o) == status[o] = "pending" /\ depsCompleted(o)

(* Slip: operations that were aborted before are aborted, and counted, again. *)
AbortedBy_again(o) == Descendants[o]

(* The pending operations abortTransitive(o) marks. *)
AbortedBy(o) == {p \in Descendants[o] : status[p] = "pending"}

(* The first step of dispatchOp: without a client nothing is called. *)
FirstStep(o) ==
    IF o \notin Routable THEN "send"
    ELSE CASE Kind[o] = "scaleUp"   -> "create"
           [] Kind[o] = "preempt"   -> "label"
           [] Kind[o] = "scaleDown" -> "delete"

Init ==
    /\ mainPC = "dispatch"
    /\ status = [o \in Ops |-> "pending"]
    /\ pending = Cardinality(Ops)
    /\ inflight = 0
    /\ results = <<>>
    /\ wpc = [o \in Ops |-> "idle"]
    /\ werr = [o \in Ops |-> FALSE]
    /\ waitDone = {}
    /\ ctxDone = FALSE
    /\ reservation = [o \in Ops |-> IF o \in Reserved THEN "active" ELSE "none"]
    /\ cluster = [r \in Replicas |->
                    IF \E o \in ScaleUps : Target[o] = r THEN "absent" ELSE "running"]

-----------------------------------------------------------------------------
(* The main loop. *)

Dispatch(o) ==
    /\ mainPC = "dispatch"
    /\ Ready(o)
    /\ status' = [status EXCEPT ![o] = "inflight"]
    /\ pending' = pending - 1
    /\ inflight' = inflight + 1
    /\ wpc' = [wpc EXCEPT ![o] = FirstStep(o)]
    /\ werr' = [werr EXCEPT ![o] = o \notin Routable]
    /\ UNCHANGED <<mainPC, results, waitDone, ctxDone, reservation, cluster>>

(* The pass over the map is over: wait for a result, or leave the loop     *)
(* because nothing is left or nothing runs.                                *)
EndDispatch ==
    /\ mainPC = "dispatch"
    /\ \A o \in Ops : ~Ready(o)
    /\ mainPC' = IF inflight = 0 THEN "returned" ELSE "select"
    /\ UNCHANGED <<status, pending, inflight, results, workerVars, waitDone,
                   ctxDone, reservation, cluster>>

TakeResult ==
    /\ mainPC = "select"
    /\ results # <<>>
    /\ LET o == Head(results) IN
         IF werr[o]
         THEN /\ status' = [p \in Ops |->
                    IF p = o THEN "failed"
                    ELSE IF p \in AbortedBy(o) THEN "aborted" ELSE status[p]]
              /\ pending' = pending - Cardinality(AbortedBy(o))
         ELSE /\ status' = [status EXCEPT ![o] = "completed"]
              /\ UNCHANGED pending
    /\ inflight' = inflight - 1
    /\ results' = Tail(results)
    /\ mainPC' = "dispatch"
    /\ UNCHANGED <<workerVars, waitDone, ctxDone, reservation, cluster>>

(* Slip: the counter keeps the aborted operations.                         *)
SelectCancelled_uncounted ==
    /\ mainPC = "select"
    /\ ctxDone
    /\ status' = [p \in Ops |-> IF status[p] = "pending" THEN "aborted" ELSE status[p]]
    /\ mainPC' = "drain"
    /\ UNCHANGED <<pending, inflight, results, workerVars, waitDone, ctxDone,
                   reservation, cluster>>

(* select took ctx.Done(): everything pending is aborted at once. *)
SelectCancelled ==
    /\ mainPC = "select"
    /\ ctxDone
    /\ status' = [p \in Ops |-> IF status[p] = "pending" THEN "aborted" ELSE status[p]]
    /\ pending' = pending - Cardinality({p \in Ops : status[p] = "pending"})
    /\ mainPC' = "drain"
    /\ UNCHANGED <<inflight, results, workerVars, waitDone, ctxDone, reservation, cluster>>

DrainResult ==
    /\ mainPC = "drain"
    /\ inflight > 0
    /\ results # <<>>
    /\ LET o == Head(results) IN
         status' = [status EXCEPT ![o] = IF werr[o] THEN "failed" ELSE "completed"]
    /\ inflight' = inflight - 1
    /\ results' = Tail(results)
    /\ UNCHANGED <<mainPC, pending, workerVars, waitDone, ctxDone, reservation, cluster>>

EndDrain ==
    /\ mainPC = "drain"
    /\ inflight = 0
    /\ mainPC' = "dispatch"
    /\ UNCHANGED <<status, pending, inflight, results, workerVars, waitDone,
                   ctxDone, reservation, cluster>>

Main ==
    \/ \E o \in Ops : Dispatch(o)
    \/ EndDispatch
    \/ TakeResult
    \/ SelectCancelled
    \/ DrainResult
    \/ EndDrain

-----------------------------------------------------------------------------
(* The worker of an operation. *)

CallMayFail == ApiErrors \/ ctxDone
(* Slip: the wait gets the context of Execute, without a timeout. *)
Expired_noTimeout(o) == ctxDone

Expired(o)  == ctxDone \/ o \in waitDone

Goto(o, pc) == wpc' = [wpc EXCEPT ![o] = pc] /\ UNCHANGED werr
Report(o, err) ==
    /\ wpc' = [wpc EXCEPT ![o] = "send"]
    /\ werr' = [werr EXCEPT ![o] = err]

(* A call that changes replica r to state new: it succeeds (ok), or it     *)
(* fails, and then r changed only if replies get lost.                     *)
Call(r, new, ok) ==
    /\ IF ok THEN ~ctxDone ELSE CallMayFail
    /\ \/ (ok \/ LostReplies) /\ cluster' = [cluster EXCEPT ![r] = new]
       \/ ~ok /\ UNCHANGED cluster

Deleted(r) == IF cluster[r] = "absent" THEN "absent" ELSE "terminating"

(* Slip: the reservation is fulfilled when the replica is created. *)
CreateReplica_fulfils(o) ==
    /\ wpc[o] = "create"
    /\ \/ /\ Call(Target[o], "pending", TRUE) /\ Goto(o, "pollRunning")
          /\ reservation' = [reservation EXCEPT ![o] = IF @ = "active" THEN "fulfilled" ELSE @]
       \/ /\ Call(Target[o], "pending", FALSE) /\ Report(o, TRUE)
          /\ UNCHANGED reservation

CreateReplica(o) ==
    /\ wpc[o] = "create"
    /\ \/ Call(Target[o], "pending", TRUE)  /\ Goto(o, "pollRunning")
       \/ Call(Target[o], "pending", FALSE) /\ Report(o, TRUE)
    /\ UNCHANGED reservation

(* The statuses a poll may answer: a replica being deleted may still look  *)
(* available or not.                                                       *)
Answers(r) ==
    CASE cluster[r] = "absent"      -> {"Terminated"}
      [] cluster[r] = "pending"     -> {"Pending"}
      [] cluster[r] = "running"     -> {"Running"}
      [] cluster[r] = "terminating" -> {"Pending", "Running"}

(* Slip: a replica that is there counts as running. *)
PollRunning_pendingWillDo(o) ==
    /\ wpc[o] = "pollRunning"
    /\ \/ \E st \in Answers(Target[o]) :
            ~Expired(o) /\ Goto(o, IF st = "Terminated" THEN "expire" ELSE "fulfill")
       \/ (ApiErrors \/ Expired(o)) /\ Goto(o, "expire")
    /\ UNCHANGED <<reservation, cluster>>

PollRunning(o) ==
    /\ wpc[o] = "pollRunning"
    /\ \/ \E st \in Answers(Target[o]) :
            /\ ~Expired(o)
            /\ Goto(o, CASE st = "Running"    -> "fulfill"
                         [] st = "Terminated" -> "expire"
                         [] OTHER             -> "sleepRunning")
       \/ (ApiErrors \/ Expired(o)) /\ Goto(o, "expire")
    /\ UNCHANGED <<reservation, cluster>>

(* select between the poll timer and the wait context *)
SleepRunning(o) ==
    /\ wpc[o] = "sleepRunning"
    /\ \/ Goto(o, "pollRunning")
       \/ Expired(o) /\ Goto(o, "expire")
    /\ UNCHANGED <<reservation, cluster>>

(* Slip: the replica that did not start is left behind. *)
ExpireReservation_noCleanup(o) ==
    /\ wpc[o] = "expire"
    /\ reservation' = [reservation EXCEPT ![o] = IF @ = "active" THEN "expired" ELSE @]
    /\ Report(o, TRUE)
    /\ UNCHANGED cluster

(* ExpireReservation and FulfillReservation only move an active one; their *)
(* error is logged, and the worker goes on.                                *)
ExpireReservation(o) ==
    /\ wpc[o] = "expire"
    /\ reservation' = [reservation EXCEPT ![o] = IF @ = "active" THEN "expired" ELSE @]
    /\ Goto(o, "cleanup")
    /\ UNCHANGED cluster

FulfillReservation(o) ==
    /\ wpc[o] = "fulfill"
    /\ reservation' = [reservation EXCEPT ![o] = IF @ = "active" THEN "fulfilled" ELSE @]
    /\ Report(o, FALSE)
    /\ UNCHANGED cluster

(* The orphan is deleted with the context of Execute, not of the wait. *)
CleanupReplica(o) ==
    /\ wpc[o] = "cleanup"
    /\ \E ok \in BOOLEAN : Call(Target[o], Deleted(Target[o]), ok)
    /\ Report(o, TRUE)
    /\ UNCHANGED reservation

(* Labelling a replica that is gone is an error. *)
LabelReplica(o) ==
    /\ wpc[o] = "label"
    /\ \/ ~ctxDone /\ cluster[Target[o]] # "absent" /\ Goto(o, "delete")
       \/ (CallMayFail \/ cluster[Target[o]] = "absent") /\ Report(o, TRUE)
    /\ UNCHANGED <<reservation, cluster>>

(* Deleting a replica that is gone is not. *)
DeleteReplica(o) ==
    /\ wpc[o] = "delete"
    /\ \/ Call(Target[o], Deleted(Target[o]), TRUE)  /\ Goto(o, "pollDeleted")
       \/ Call(Target[o], Deleted(Target[o]), FALSE) /\ Report(o, TRUE)
    /\ UNCHANGED reservation

(* Any error of the status call counts as "the replica no longer exists". *)
PollDeleted(o) ==
    /\ wpc[o] = "pollDeleted"
    /\ \/ \E st \in Answers(Target[o]) :
            /\ ~Expired(o)
            /\ IF st = "Terminated" THEN Report(o, FALSE) ELSE Goto(o, "sleepDeleted")
       \/ (ApiErrors \/ Expired(o)) /\ Report(o, FALSE)
    /\ UNCHANGED <<reservation, cluster>>

SleepDeleted(o) ==
    /\ wpc[o] = "sleepDeleted"
    /\ \/ Goto(o, "pollDeleted")
       \/ Expired(o) /\ Report(o, TRUE)
    /\ UNCHANGED <<reservation, cluster>>

Send(o) ==
    /\ wpc[o] = "send"
    /\ Len(results) < Cardinality(Ops)
    /\ results' = Append(results, o)
    /\ Goto(o, "exited")
    /\ UNCHANGED <<reservation, cluster>>

Step(o) ==
    \/ CreateReplica(o) \/ PollRunning(o) \/ SleepRunning(o)
    \/ ExpireReservation(o) \/ FulfillReservation(o) \/ CleanupReplica(o)
    \/ LabelReplica(o) \/ DeleteReplica(o) \/ PollDeleted(o) \/ SleepDeleted(o)

Worker(o) ==
    /\ \/ Step(o) /\ UNCHANGED results
       \/ Send(o)
    /\ UNCHANGED <<mainVars, waitDone, ctxDone>>

-----------------------------------------------------------------------------
(* Everything else. *)

(* The deadline of waitForRunning or waitForDeletion passes. *)
Deadline(o) ==
    /\ wpc[o] \in Waiting
    /\ o \notin waitDone
    /\ waitDone' = waitDone \cup {o}
    /\ UNCHANGED <<mainVars, results, workerVars, ctxDone, reservation, cluster>>

Cancel ==
    /\ CtxCancel /\ ~ctxDone
    /\ mainPC # "returned"
    /\ ctxDone' = TRUE
    /\ UNCHANGED <<mainVars, results, workerVars, waitDone, reservation, cluster>>

(* runReservationExpiry finds reservations whose TTL has elapsed. *)
Sweep ==
    \E S \in SUBSET {o \in Reserved : reservation[o] = "active"} :
        /\ S # {}
        /\ reservation' = [o \in Ops |-> IF o \in S THEN "expired" ELSE reservation[o]]
        /\ UNCHANGED <<mainVars, results, workerVars, waitDone, ctxDone, cluster>>

(* A replica becomes available, is gone at last, or is deleted by others. *)
ClusterStep(r) ==
    /\ \/ cluster[r] = "pending" /\ cluster' = [cluster EXCEPT ![r] = "running"]
       \/ cluster[r] = "terminating" /\ cluster' = [cluster EXCEPT ![r] = "absent"]
       \/ /\ ExternalDeletes /\ cluster[r] \in {"pending", "running"}
          /\ cluster' = [cluster EXCEPT ![r] = "terminating"]
    /\ UNCHANGED <<mainVars, results, workerVars, waitDone, ctxDone, reservation>>

Next ==
    \/ Main
    \/ \E o \in Ops : Worker(o) \/ Deadline(o)
    \/ Cancel
    \/ Sweep
    \/ \E r \in Replicas : ClusterStep(r)

Spec == Init /\ [][Next]_vars

(* Goroutines are scheduled, calls of a cluster return, and deadlines      *)
(* pass.  Nothing says that a replica ever starts, or that a reservation   *)
(* is swept in time.                                                       *)
Fairness ==
    /\ WF_vars(Main)
    /\ \A o \in Ops : WF_vars(Worker(o)) /\ WF_vars(Deadline(o))

FairSpec == Spec /\ Fairness

-----------------------------------------------------------------------------
(* Properties. *)

TypeOK ==
    /\ mainPC \in {"dispatch", "select", "drain", "returned"}
    /\ status \in [Ops -> {"pending", "inflight", "completed", "failed", "aborted"}]
    /\ pending \in Nat /\ inflight \in Nat
    /\ results \in Seq(Ops)
    /\ wpc \in [Ops -> Waiting \cup {"idle", "create", "expire", "cleanup",
                                     "fulfill", "label", "delete", "send", "exited"}]
    /\ werr \in [Ops -> BOOLEAN]
    /\ waitDone \in SUBSET Ops
    /\ ctxDone \in BOOLEAN
    /\ reservation \in [Ops -> {"none", "active", "fulfilled", "expired"}]
    /\ cluster \in [Replicas -> {"absent", "pending", "running", "terminating"}]

(* An operation that was started has seen all its dependencies complete    *)
(* (Execute, "respecting DependsOn ordering"), and nothing but the drain   *)
(* after a cancellation changes that.                                      *)
DependenciesFirst ==
    \A o \in Ops : wpc[o] # "idle" => \A d \in Deps[o] : status[d] = "completed"

(* abortTransitive reaches far enough: no operation keeps waiting for one  *)
(* that has failed or was aborted.                                         *)
NoneWaitsInVain ==
    \A o \in Ops, d \in Ops :
        d \in Deps[o] /\ status[d] \in {"failed", "aborted"} => status[o] = "aborted"

(* The counters that end the loop of Execute agree with the statuses they  *)
(* count, and each operation in flight has one worker or one result.       *)
CountersAgree ==
    /\ pending = Cardinality({o \in Ops : status[o] = "pending"})
    /\ inflight = Cardinality({o \in Ops : status[o] = "inflight"})
    /\ \A o \in Ops :
          status[o] = "inflight" <=>
            \/ wpc[o] \notin {"idle", "exited"}
            \/ \E i \in DOMAIN results : results[i] = o

(* Execute returns with an outcome for every operation, although the loop  *)
(* also breaks when nothing is in flight, and leaves no goroutine behind,  *)
(* although it never waits on its WaitGroup.                               *)
ReturnDecidesAll ==
    mainPC = "returned" =>
        \A o \in Ops :
            /\ status[o] \in {"completed", "failed", "aborted"}
            /\ wpc[o] = IF status[o] = "aborted" THEN "idle" ELSE "exited"

(* What became of a reservation fits the outcome Execute reports: only an  *)
(* operation that completes fulfils its reservation, and one that has      *)
(* completed no longer holds GPUs back with it.                            *)
ReservationFitsOutcome ==
    \A o \in Reserved :
        /\ reservation[o] = "fulfilled" => status[o] \in {"inflight", "completed"}
        /\ status[o] = "completed" => reservation[o] \in {"fulfilled", "expired"}

(* GPUs are asked for only once the deletion of every victim they need was *)
(* accepted: a scale-up's replica exists only after its preemptions'.      *)
VictimsReleasedFirst ==
    \A o \in ScaleUps : cluster[Target[o]] # "absent" =>
        \A d \in Deps[o] : Kind[d] # "scaleUp" =>
            cluster[Target[d]] \in {"terminating", "absent"}

(* Blue-green migration: the old replica is touched only while the new one *)
(* it depends on is running.  (Without ExternalDeletes.)                   *)
BlueGreen ==
    \A o \in Ops : Kind[o] = "scaleDown" /\ cluster[Target[o]] \in {"terminating", "absent"} =>
        \A d \in Deps[o] \cap ScaleUps : cluster[Target[d]] = "running"

(* scaleUp: "On timeout, the reservation is expired and the orphan replica *)
(* is cleaned up."  A scale-up that is over without success leaves no      *)
(* replica running or about to run, however the deadline, the replica and  *)
(* those who delete it race - until the context is cancelled, which the    *)
(* cleanup uses too, and while the cluster takes the calls.                *)
NoOrphanBeforeCancel ==
    ~ctxDone => \A o \in ScaleUps : wpc[o] = "exited" /\ werr[o] =>
                    cluster[Target[o]] \in {"terminating", "absent"}

(* Execute returns: the deadlines of the waits and the room in the results *)
(* channel see to it, whatever the clusters do.                            *)
Terminates == <>(mainPC = "returned")

(* The main loop, its workers and the channel implement PlanExecution. *)
Plan == INSTANCE PlanExecution WITH outcome <- status, returned <- (mainPC = "returned")
PlanSteps == Plan!Init /\ [][Plan!Next]_Plan!vars

=============================================================================
