----------------------------- MODULE WorldState -----------------------------
(***************************************************************************)
(* internal/worldstate: the in-memory picture of clusters, nodes, replicas *)
(* and GPU reservations.  Every method takes the write lock for all of its *)
(* work, so each is one action.  The callers are cmd/schedulator (which    *)
(* seeds clusters and replicas from a full sync), the control loop (which  *)
(* applies node and pod events), the executor and the reservation sweeper. *)
(*                                                                         *)
(* A node is accounted for by the GPUs it has free and allocated and by    *)
(* the replicas in its Pods list; the fragmentation score of a cluster is  *)
(* kept as the pair of sums it is computed from.                           *)
(***************************************************************************)
EXTENDS Integers, FiniteSets, FiniteSetsExt, Sums

CONSTANTS
    Clusters,       \* cluster ids
    Nodes,          \* node ids, unique across clusters
    ClusterOf,      \* ClusterOf[n]: the cluster of node n
    TotalGPUs,      \* TotalGPUs[n]: what a NodeUp event says n has
    Replicas,       \* replica ids
    GPUs,           \* GPUs[r]: what a replica occupies
    NoNode,         \* where a replica is that is not tracked
    Reservations,   \* reservation ids
    TTL             \* TTLSeconds, in ticks of the clock

VARIABLES
    known,          \* clusters in the clusters map
    nodes,          \* nodes in the Nodes map of their cluster
    free, alloc,    \* FreeGPUs and AllocatedGPUs of a node
    pods,           \* Pods of a node
    frag,           \* frag[c]: <<free, total>> behind FragmentationScore
    where,          \* where[r]: NodeID of a tracked replica, or NoNode
    phase,          \* phase[r]: its Status
    replicasGauge,  \* the gauge of replicas, by status
    reservation,    \* reservation[i]: "absent" or its status
    age,            \* age[i]: time since CreatedAt, up to TTL
    reservationsGauge \* the gauge of active reservations

nodeVars        == <<known, nodes, free, alloc, pods, frag>>
replicaVars     == <<where, phase, replicasGauge>>
reservationVars == <<reservation, age, reservationsGauge>>
vars == <<nodeVars, replicaVars, reservationVars>>

Statuses == {"Pending", "Running"}

ASSUME WorldAssumption ==
    /\ ClusterOf \in [Nodes -> Clusters]
    /\ TotalGPUs \in [Nodes -> Nat]
    /\ GPUs \in [Replicas -> Nat]
    /\ NoNode \notin Nodes
    /\ IsFiniteSet(Replicas) /\ IsFiniteSet(Reservations)
    /\ TTL \in Nat

Tracked == {r \in Replicas : where[r] # NoNode}
At(n)   == {r \in Replicas : where[r] = n}

-----------------------------------------------------------------------------
(* computeFragmentation over the nodes ns of cluster c with f[n] GPUs free. *)
Fragmentation(c, ns, f) ==
    LET own == {n \in ns : ClusterOf[n] = c} IN
    <<SumFunction(Restrict(f, own)), SumFunction(Restrict(TotalGPUs, own))>>

(* Slip: a restore gives the GPUs back but leaves them allocated. *)
MoveGPUs_halfRestored(r, from, to) ==
    /\ free' = [n \in Nodes |-> free[n]
                  + (IF n = from /\ n \in nodes THEN GPUs[r] ELSE 0)
                  - (IF n = to /\ n \in nodes THEN GPUs[r] ELSE 0)]
    /\ alloc' = [n \in Nodes |-> alloc[n]
                  + (IF n = to /\ n \in nodes THEN GPUs[r] ELSE 0)]
    /\ pods' = [n \in Nodes |->
                  (pods[n] \ (IF n = from THEN {r} ELSE {}))
                    \cup (IF n = to /\ n \in nodes THEN {r} ELSE {})]

(* restoreNodeGPUs and allocateNodeGPUs, for a replica that leaves node    *)
(* from (NoNode: none) and enters node to: both skip a node they don't     *)
(* find.                                                                   *)
MoveGPUs(r, from, to) ==
    /\ free' = [n \in Nodes |-> free[n]
                  + (IF n = from /\ n \in nodes THEN GPUs[r] ELSE 0)
                  - (IF n = to /\ n \in nodes THEN GPUs[r] ELSE 0)]
    /\ alloc' = [n \in Nodes |-> alloc[n]
                  - (IF n = from /\ n \in nodes THEN GPUs[r] ELSE 0)
                  + (IF n = to /\ n \in nodes THEN GPUs[r] ELSE 0)]
    /\ pods' = [n \in Nodes |->
                  (pods[n] \ (IF n = from THEN {r} ELSE {}))
                    \cup (IF n = to /\ n \in nodes THEN {r} ELSE {})]

(* The clusters of the nodes in ns have their score recomputed. *)
Refragment(ns) ==
    frag' = [c \in Clusters |->
               IF c \in known /\ \E n \in ns : n \in Nodes /\ ClusterOf[n] = c
               THEN Fragmentation(c, nodes, free') ELSE frag[c]]

Inc(g, st) == [g EXCEPT ![st] = @ + 1]
Dec(g, st) == [g EXCEPT ![st] = @ - 1]

Init ==
    /\ known = {} /\ nodes = {}
    /\ free = [n \in Nodes |-> 0] /\ alloc = [n \in Nodes |-> 0]
    /\ pods = [n \in Nodes |-> {}]
    /\ frag = [c \in Clusters |-> <<0, 0>>]
    /\ where = [r \in Replicas |-> NoNode]
    /\ phase = [r \in Replicas |-> "Pending"]
    /\ replicasGauge = [st \in Statuses |-> 0]
    /\ reservation = [i \in Reservations |-> "absent"]
    /\ age = [i \in Reservations |-> 0]
    /\ reservationsGauge = 0

-----------------------------------------------------------------------------
(* Clusters and nodes. *)

(* A node as a full sync or a NodeUp event describes it: all its GPUs are  *)
(* free and it runs nothing, whatever replicas are tracked on it.          *)
PutNodes(ns) ==
    /\ nodes' = nodes \cup ns
    /\ free'  = [n \in Nodes |-> IF n \in ns THEN TotalGPUs[n] ELSE free[n]]
    /\ alloc' = [n \in Nodes |-> IF n \in ns THEN 0 ELSE alloc[n]]
    /\ pods'  = [n \in Nodes |-> IF n \in ns THEN {} ELSE pods[n]]

(* Only the seeding in main calls it, cluster by cluster, before it seeds  *)
(* the replicas; the score it comes with is that of an empty cluster.      *)
UpsertCluster(c, ns) ==
    /\ c \notin known
    /\ Tracked = {}
    /\ known' = known \cup {c}
    /\ PutNodes(ns)
    /\ frag' = [frag EXCEPT ![c] = Fragmentation(c, ns, TotalGPUs)]
    /\ UNCHANGED <<replicaVars, reservationVars>>

UpsertNode(n) ==
    /\ known' = known \cup {ClusterOf[n]}
    /\ PutNodes({n})
    /\ frag' = [frag EXCEPT ![ClusterOf[n]] = Fragmentation(ClusterOf[n], nodes', free')]
    /\ UNCHANGED <<replicaVars, reservationVars>>

RemoveNode(n) ==
    /\ n \in nodes
    /\ nodes' = nodes \ {n}
    /\ free'  = [free EXCEPT ![n] = 0]
    /\ alloc' = [alloc EXCEPT ![n] = 0]
    /\ pods'  = [pods EXCEPT ![n] = {}]
    /\ frag'  = [frag EXCEPT ![ClusterOf[n]] = Fragmentation(ClusterOf[n], nodes', free)]
    /\ UNCHANGED <<known, replicaVars, reservationVars>>

-----------------------------------------------------------------------------
(* Replicas. *)

(* Slips: an update allocates again; a moved replica keeps the GPUs of the *)
(* node it was on; a move leaves the score of the cluster it came from.    *)
UpsertReplica_allocatesAgain(r, n, st) ==
    /\ where' = [where EXCEPT ![r] = n]
    /\ phase' = [phase EXCEPT ![r] = st]
    /\ replicasGauge' = Inc(IF r \in Tracked THEN Dec(replicasGauge, phase[r])
                                             ELSE replicasGauge, st)
    /\ MoveGPUs(r, IF where[r] = n THEN NoNode ELSE where[r], n)
    /\ Refragment({n, where[r]})
    /\ UNCHANGED <<known, nodes, reservationVars>>
UpsertReplica_keepsOldNode(r, n, st) ==
    /\ where' = [where EXCEPT ![r] = n]
    /\ phase' = [phase EXCEPT ![r] = st]
    /\ replicasGauge' = Inc(IF r \in Tracked THEN Dec(replicasGauge, phase[r])
                                             ELSE replicasGauge, st)
    /\ IF where[r] = n THEN UNCHANGED <<free, alloc, pods>>
                       ELSE MoveGPUs(r, NoNode, n)
    /\ Refragment({n, where[r]})
    /\ UNCHANGED <<known, nodes, reservationVars>>
UpsertReplica_oldScore(r, n, st) ==
    /\ where' = [where EXCEPT ![r] = n]
    /\ phase' = [phase EXCEPT ![r] = st]
    /\ replicasGauge' = Inc(IF r \in Tracked THEN Dec(replicasGauge, phase[r])
                                             ELSE replicasGauge, st)
    /\ IF where[r] = n THEN UNCHANGED <<free, alloc, pods>>
                       ELSE MoveGPUs(r, where[r], n)
    /\ Refragment({n})
    /\ UNCHANGED <<known, nodes, reservationVars>>

(* A replica is new, has moved, or only changes its status; in that case   *)
(* the accounting of its node is left as it is.                            *)
UpsertReplica(r, n, st) ==
    /\ where' = [where EXCEPT ![r] = n]
    /\ phase' = [phase EXCEPT ![r] = st]
    /\ replicasGauge' = Inc(IF r \in Tracked THEN Dec(replicasGauge, phase[r])
                                             ELSE replicasGauge, st)
    /\ IF where[r] = n THEN UNCHANGED <<free, alloc, pods>>
                       ELSE MoveGPUs(r, where[r], n)
    /\ Refragment({n, where[r]})
    /\ UNCHANGED <<known, nodes, reservationVars>>

DeleteReplica(r) ==
    /\ r \in Tracked
    /\ where' = [where EXCEPT ![r] = NoNode]
    /\ phase' = [phase EXCEPT ![r] = "Pending"]
    /\ replicasGauge' = Dec(replicasGauge, phase[r])
    /\ MoveGPUs(r, where[r], NoNode)
    /\ Refragment({where[r]})
    /\ UNCHANGED <<known, nodes, reservationVars>>

-----------------------------------------------------------------------------
(* Reservations. *)

(* Slip: a known id is taken again. *)
CreateReservation_replaces(i) ==
    /\ reservation' = [reservation EXCEPT ![i] = "active"]
    /\ age' = [age EXCEPT ![i] = 0]
    /\ reservationsGauge' = reservationsGauge + 1
    /\ UNCHANGED <<nodeVars, replicaVars>>

CreateReservation(i) ==
    /\ reservation[i] = "absent"
    /\ reservation' = [reservation EXCEPT ![i] = "active"]
    /\ age' = [age EXCEPT ![i] = 0]
    /\ reservationsGauge' = reservationsGauge + 1
    /\ UNCHANGED <<nodeVars, replicaVars>>

FulfillReservation(i) ==
    /\ reservation[i] = "active"
    /\ reservation' = [reservation EXCEPT ![i] = "fulfilled"]
    /\ reservationsGauge' = reservationsGauge - 1
    /\ UNCHANGED <<age, nodeVars, replicaVars>>

ExpireReservation(i) ==
    /\ reservation[i] = "active"
    /\ reservation' = [reservation EXCEPT ![i] = "expired"]
    /\ reservationsGauge' = reservationsGauge - 1
    /\ UNCHANGED <<age, nodeVars, replicaVars>>

(* Slip: the comparison is the wrong way round. *)
Stale_inverted == {i \in Reservations : reservation[i] = "active" /\ age[i] < TTL}

Stale == {i \in Reservations : reservation[i] = "active" /\ age[i] >= TTL}

ExpireStaleReservations ==
    /\ Stale # {}
    /\ reservation' = [i \in Reservations |->
                         IF i \in Stale THEN "expired" ELSE reservation[i]]
    /\ reservationsGauge' = reservationsGauge - Cardinality(Stale)
    /\ UNCHANGED <<age, nodeVars, replicaVars>>

(* Time passes for the active reservations. *)
Tick ==
    /\ age' = [i \in Reservations |->
                 IF reservation[i] = "active" /\ age[i] < TTL THEN age[i] + 1 ELSE age[i]]
    /\ UNCHANGED <<reservation, reservationsGauge, nodeVars, replicaVars>>

-----------------------------------------------------------------------------

Next ==
    \/ \E c \in Clusters : \E ns \in SUBSET {n \in Nodes : ClusterOf[n] = c} :
          UpsertCluster(c, ns)
    \/ \E n \in Nodes : UpsertNode(n) \/ RemoveNode(n)
    \/ \E r \in Replicas, n \in Nodes, st \in Statuses : UpsertReplica(r, n, st)
    \/ \E r \in Replicas : DeleteReplica(r)
    \/ \E i \in Reservations :
          CreateReservation(i) \/ FulfillReservation(i) \/ ExpireReservation(i)
    \/ ExpireStaleReservations
    \/ Tick

Spec == Init /\ [][Next]_vars

(* Time passes, and the sweeper's ticker fires again and again. *)
FairSpec == Spec /\ WF_vars(Tick) /\ WF_vars(ExpireStaleReservations)

-----------------------------------------------------------------------------
(* Properties. *)

TypeOK ==
    /\ known \in SUBSET Clusters
    /\ nodes \in SUBSET {n \in Nodes : ClusterOf[n] \in known}
    /\ free \in [Nodes -> Int] /\ alloc \in [Nodes -> Int]
    /\ pods \in [Nodes -> SUBSET Replicas]
    /\ DOMAIN frag = Clusters
    /\ where \in [Replicas -> Nodes \cup {NoNode}]
    /\ phase \in [Replicas -> Statuses]
    /\ replicasGauge \in [Statuses -> Int]
    /\ reservation \in [Reservations -> {"absent", "active", "fulfilled", "expired"}]
    /\ age \in [Reservations -> 0 .. TTL]
    /\ reservationsGauge \in Int

(* No sequence of upserts, moves, deletions and removals creates or loses  *)
(* GPUs: a node's free and allocated GPUs always add up to what it has.    *)
GPUsConserved == \A n \in nodes : free[n] + alloc[n] = TotalGPUs[n]

(* The Pods list of a node never names a replica that is elsewhere or no   *)
(* longer tracked, however replicas and nodes come, move and go.           *)
NoPhantomPods == \A n \in Nodes : pods[n] \subseteq At(n)

(* What is derived is never left behind by what it is derived from, by     *)
(* whatever sequence of moves, replacing upserts, refused transitions and  *)
(* sweeps: the fragmentation score of a cluster is that of its nodes now   *)
(* (a move between clusters refreshes both), and the gauges count what is  *)
(* in the maps.                                                            *)
DerivedFresh ==
    /\ \A c \in Clusters : frag[c] = Fragmentation(c, nodes, free)
    /\ \A st \in Statuses :
          replicasGauge[st] = Cardinality({r \in Tracked : phase[r] = st})
    /\ reservationsGauge = Cardinality({i \in Reservations : reservation[i] = "active"})

(* What a node does not know of the replicas on it. *)
Unseen(n)     == Sum(GPUs, At(n)) - alloc[n]
UnseenPods(n) == At(n) \ pods[n]

(* Whatever the order in which replicas are tracked, moved and deleted and *)
(* nodes come, go and are announced again, a node never shows fewer free   *)
(* GPUs than the tracked replicas leave: no GPU is lost to placement.  The *)
(* accounting errs on the other side alone, where a node is announced with *)
(* replicas on it.                                                         *)
NoGPUsLost == \A n \in nodes : Unseen(n) >= 0

(* Only the announcement of a node itself makes its accounting differ more *)
(* or less than before from the replicas on it, and only it makes the Pods *)
(* list miss one more: every move, update and deletion keeps them in step, *)
(* also of replicas that were tracked before their node, that the node     *)
(* does not know, or that come from a node that is gone.                   *)
AccountingKept ==
    [][\A n \in nodes \cap nodes' :
          \/ Unseen(n)' = Unseen(n) /\ UnseenPods(n)' \subseteq UnseenPods(n)
          \/ UpsertNode(n)]_vars

(* What UpsertReplica says where it skips a node that it does not find:    *)
(* "the ingestion layer will send UpsertNode with correct values".         *)
AllocationMatchesReplicas ==
    \A n \in nodes : pods[n] = At(n) /\ alloc[n] = Sum(GPUs, At(n))

(* Executor, sweeper and control loop race for a reservation: whoever ends *)
(* it first wins, and nobody revives it.                                   *)
EndedStaysEnded ==
    [][\A i \in Reservations : reservation[i] \in {"fulfilled", "expired"}
          => reservation'[i] = reservation[i]]_vars

(* A reservation that nobody fulfils or expires does not hold its GPUs for *)
(* ever.                                                                   *)
ActiveEnds == \A i \in Reservations : reservation[i] = "active" ~> reservation[i] # "active"

=============================================================================
