--------------------------- MODULE PlanExecution ---------------------------
(***************************************************************************)
(* What internal/executor promises to the control loop: Execute(plan)      *)
(* starts an operation only after everything it depends on has succeeded,  *)
(* a failure takes with it exactly the operations that were waiting on it, *)
(* a cancellation abandons what has not started, and the call returns only *)
(* when each operation has one final outcome.  How (a main loop, a         *)
(* goroutine per operation, a results channel, counters) is in Executor.   *)
(***************************************************************************)
CONSTANTS
    Ops,        \* the operations of the plan
    Deps        \* Deps[o]: the operations o names in DependsOn

VARIABLES
    outcome,    \* outcome[o]: where operation o stands
    returned    \* has the call returned?

vars == <<outcome, returned>>

Outcomes == {"pending", "inflight", "completed", "failed", "aborted"}

Final == {"completed", "failed", "aborted"}

(* The operations that wait, directly or through others, on o. *)
Closed(S) == \A p \in Ops : Deps[p] \cap S # {} => p \in S
Descendants ==
    [o \in Ops |->
        {p \in Ops : \A S \in SUBSET Ops :
            (\A q \in Ops : o \in Deps[q] => q \in S) /\ Closed(S) => p \in S}]

TypeOK ==
    /\ outcome \in [Ops -> Outcomes]
    /\ returned \in BOOLEAN

Init ==
    /\ outcome = [o \in Ops |-> "pending"]
    /\ returned = FALSE

Start(o) ==
    /\ outcome[o] = "pending"
    /\ \A d \in Deps[o] : outcome[d] = "completed"
    /\ outcome' = [outcome EXCEPT ![o] = "inflight"]
    /\ UNCHANGED returned

Succeed(o) ==
    /\ outcome[o] = "inflight"
    /\ outcome' = [outcome EXCEPT ![o] = "completed"]
    /\ UNCHANGED returned

Fail(o) ==
    /\ outcome[o] = "inflight"
    /\ outcome' = [p \in Ops |->
          IF p = o THEN "failed"
          ELSE IF p \in Descendants[o] /\ outcome[p] = "pending" THEN "aborted"
          ELSE outcome[p]]
    /\ UNCHANGED returned

Cancel ==
    /\ ~returned
    /\ outcome' = [p \in Ops |->
          IF outcome[p] = "pending" THEN "aborted" ELSE outcome[p]]
    /\ UNCHANGED returned

Return ==
    /\ ~returned
    /\ \A o \in Ops : outcome[o] \in Final
    /\ returned' = TRUE
    /\ UNCHANGED outcome

Next ==
    \/ \E o \in Ops : Start(o) \/ Succeed(o) \/ Fail(o)
    \/ Cancel
    \/ Return

Spec == Init /\ [][Next]_vars /\ WF_vars(Next)

=============================================================================
