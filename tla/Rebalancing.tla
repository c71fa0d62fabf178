---------------------------- MODULE Rebalancing -----------------------------
(***************************************************************************)
(* internal/engine/rebalancing: which replicas on partly used nodes could  *)
(* move to another cluster.  Each is judged by the snapshot, as if it were *)
(* the only one to move.                                                   *)
(***************************************************************************)
EXTENDS Snapshot

(* DefaultRebalancingConfig; the smallest improvement is in hundredths. *)
MaxMigrationsPerCycle == 2
MinFragmentationDelta == 15

(* FragmentationScore: the share of the GPUs of a cluster that is not      *)
(* free, times their number; then what a migration of g GPUs from cluster  *)
(* c to d improves the two scores by, times the numbers of both.           *)
Fragmentation(free, total) == IF total = 0 THEN 0 ELSE total - free

(* Slip: the migrated replica does not weigh on its new cluster. *)
FragmentationDelta_free(c, d, g) ==
    LET tc == TotalOn(NodesOf(c)) fc == FreeOn(NodesOf(c))
        td == TotalOn(NodesOf(d)) fd == FreeOn(NodesOf(d))
    IN  td * (Fragmentation(fc, tc) - Fragmentation(fc + g, tc))

FragmentationDelta(c, d, g) ==
    LET tc == TotalOn(NodesOf(c)) fc == FreeOn(NodesOf(c))
        td == TotalOn(NodesOf(d)) fd == FreeOn(NodesOf(d))
    IN    td * (Fragmentation(fc, tc) - Fragmentation(fc + g, tc))
        + tc * (Fragmentation(fd, td) - Fragmentation(fd - g, td))

(* Is a score or an improvement x, times n, at least the smallest that     *)
(* counts?  Where there are no GPUs both are 0, which does not.            *)
Worthwhile(x, n) == n > 0 /\ 100 * x >= MinFragmentationDelta * n

Fragmented(c) ==
    Worthwhile(Fragmentation(FreeOn(NodesOf(c)), TotalOn(NodesOf(c))), TotalOn(NodesOf(c)))

(* Nodes of fragmented clusters that are neither empty nor full. *)
FragmentedNodes ==
    {n \in snap.ready : Fragmented(ClusterOf[n]) /\ FreeGPUs(n) \in 1 .. TotalGPUs[n] - 1}

RunningReplicas(a) == {r \in Tracked : AppOf[r] = a} \cap snap.running

(* The GPUs that r leaves free on the node of c it fits most tightly.      *)
FittingNodes(r, c) == {n \in ReadyNodes(c) : FreeGPUs(n) >= GPUs[r]}
Waste(r, c) == Min({FreeGPUs(n) - GPUs[r] : n \in FittingNodes(r, c)})

(* findConsolidationTarget: the other clusters with the least waste, one   *)
(* of which it returns.                                                    *)
ConsolidationTargets(r) ==
    LET others == {c \in Clusters : c # ClusterID(r) /\ FittingNodes(r, c) # {}}
    IN  {c \in others : \A d \in others : Waste(r, c) <= Waste(r, d)}

HasCachedModel(a, c) == \E l \in CacheLocations[a] : l.cluster = c

Accepted(r, c) ==
    /\ HasCachedModel(AppOf[r], c)
    /\ Worthwhile(FragmentationDelta(ClusterID(r), c, GPUs[r]),
                  TotalOn(NodesOf(ClusterID(r))) * TotalOn(NodesOf(c)))

(* Replicas considered for a migration. *)
Movable ==
    {r \in Tracked : /\ snap.place[r] \in FragmentedNodes
                     /\ Cardinality(RunningReplicas(AppOf[r])) > MinReplicas[AppOf[r]]}

(* The migrations, as functions from replicas to clusters, that            *)
(* FindRebalancingOpportunities may return.  Of equally good targets it    *)
(* has seen one; it stops at the limit, wherever it is in its walk.        *)
RebalancingOpportunities ==
    LET considered == {r \in Movable : ConsolidationTargets(r) # {}}
        seen == {t \in [considered -> Clusters] :
                   \A r \in considered : t[r] \in ConsolidationTargets(r)}
        accepted(t) == {r \in considered : Accepted(r, t[r])}
        number(t) == Min({Cardinality(accepted(t)), MaxMigrationsPerCycle})
    IN  UNION {{[r \in rs |-> t[r]] : rs \in kSubset(number(t), accepted(t))} : t \in seen}

=============================================================================
