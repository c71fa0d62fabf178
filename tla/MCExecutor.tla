----------------------------- MODULE MCExecutor -----------------------------
(* Plans as plangen builds them, for model-checking Executor. *)
EXTENDS Executor

CONSTANTS p1, p2, s1, s2, m, d          \* operations
CONSTANTS v, r1, r2, new, old           \* replicas

KindIn(o) == CASE o \in {p1, p2}    -> "preempt"
               [] o \in {s1, s2, m} -> "scaleUp"
               [] o = d             -> "scaleDown"
TargetIn(o) == CASE o \in {p1, p2} -> v
                 [] o = s1         -> r1
                 [] o = s2         -> r2
                 [] o = m          -> new
                 [] o = d          -> old

MCKind     == [o \in Ops |-> KindIn(o)]
MCTarget   == [o \in Ops |-> TargetIn(o)]

(* A preemption makes room in the cluster that a scale-up and the          *)
(* replacement of a migration go to.                                       *)
MigrationOps  == {p1, s1, m, d}
MigrationDeps == [o \in MigrationOps |->
    CASE o = p1 -> {} [] o = s1 -> {p1} [] o = m -> {p1} [] o = d -> {m}]
MigrationReplicas == {v, r1, new, old}

(* Two decisions of one cycle preempt the same victim; two scale-ups in    *)
(* that cluster wait for both.                                             *)
SharedOps  == {p1, p2, s1, s2}
SharedDeps == [o \in SharedOps |->
    CASE o \in {p1, p2} -> {} [] o \in {s1, s2} -> {p1, p2}]
SharedReplicas == {v, r1, r2}

(* The cluster of s2 has no client. *)
NoClientForS2 == Ops \ {s2}

MCReserved == Ops \cap {s1, s2}

=============================================================================
