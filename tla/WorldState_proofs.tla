-------------------------- MODULE WorldState_proofs --------------------------
(***************************************************************************)
(* Proofs about WorldState, for any clusters, nodes, replicas and          *)
(* reservations, and any sequence of calls.                                *)
(***************************************************************************)
EXTENDS WorldState, DataLemmas

(* The statement of TypeOK. *)
THEOREM TypeOKHolds == Spec => []TypeOK
<1>1. Init => TypeOK
  BY WorldAssumption DEF Init, TypeOK, Statuses
<1>2. TypeOK /\ [Next]_vars => TypeOK'
  <2> SUFFICES ASSUME TypeOK, [Next]_vars PROVE TypeOK'
    OBVIOUS
  <2> USE WorldAssumption
  <2>1. ASSUME NEW c \in Clusters, NEW ns \in SUBSET {n \in Nodes : ClusterOf[n] = c},
               UpsertCluster(c, ns)
        PROVE  TypeOK'
    BY <2>1 DEF UpsertCluster, PutNodes, TypeOK, replicaVars, reservationVars
  <2>2. ASSUME NEW n \in Nodes, UpsertNode(n) PROVE TypeOK'
    BY <2>2 DEF UpsertNode, PutNodes, TypeOK, replicaVars, reservationVars
  <2>3. ASSUME NEW n \in Nodes, RemoveNode(n) PROVE TypeOK'
    BY <2>3 DEF RemoveNode, TypeOK, replicaVars, reservationVars
  <2>4. ASSUME NEW r \in Replicas, NEW n \in Nodes, NEW st \in Statuses,
               UpsertReplica(r, n, st)
        PROVE  TypeOK'
    <3>1. UNCHANGED <<known, nodes, reservation, age, reservationsGauge>>
      BY <2>4 DEF UpsertReplica, reservationVars
    <3>2. /\ where' \in [Replicas -> Nodes \cup {NoNode}]
          /\ phase' \in [Replicas -> Statuses]
      BY <2>4 DEF UpsertReplica, TypeOK
    <3>3. replicasGauge' \in [Statuses -> Int]
      BY <2>4 DEF UpsertReplica, Inc, Dec, TypeOK
    <3>4. GPUs[r] \in Int /\ free \in [Nodes -> Int] /\ alloc \in [Nodes -> Int]
      BY DEF TypeOK
    <3>5. free' \in [Nodes -> Int]
      BY <2>4, <3>4 DEF UpsertReplica, MoveGPUs
    <3>6. alloc' \in [Nodes -> Int]
      BY <2>4, <3>4 DEF UpsertReplica, MoveGPUs
    <3>7. pods' \in [Nodes -> SUBSET Replicas]
      BY <2>4 DEF UpsertReplica, MoveGPUs, TypeOK
    <3>8. DOMAIN frag' = DOMAIN frag
      BY <2>4 DEF UpsertReplica, Refragment, TypeOK
    <3>9. QED
      BY <3>1, <3>2, <3>3, <3>5, <3>6, <3>7, <3>8 DEF TypeOK
  <2>5. ASSUME NEW r \in Replicas, DeleteReplica(r) PROVE TypeOK'
    BY <2>5 DEF DeleteReplica, MoveGPUs, Refragment, Dec, TypeOK, Statuses, reservationVars
  <2>6. ASSUME NEW i \in Reservations,
               CreateReservation(i) \/ FulfillReservation(i) \/ ExpireReservation(i)
        PROVE  TypeOK'
    BY <2>6 DEF CreateReservation, FulfillReservation, ExpireReservation, TypeOK,
                nodeVars, replicaVars
  <2>7. CASE ExpireStaleReservations
    <3>1. Cardinality(Stale) \in Int
      BY FS_Subset, FS_CardinalityType DEF Stale
    <3>2. QED
      BY <2>7, <3>1 DEF ExpireStaleReservations, TypeOK, nodeVars, replicaVars
  <2>8. CASE Tick
    BY <2>8 DEF Tick, TypeOK, nodeVars, replicaVars
  <2>9. CASE UNCHANGED vars
    BY <2>9 DEF vars, nodeVars, replicaVars, reservationVars, TypeOK
  <2>10. QED
    BY <2>1, <2>2, <2>3, <2>4, <2>5, <2>6, <2>7, <2>8, <2>9 DEF Next
<1>3. QED
  BY <1>1, <1>2, PTL DEF Spec

-----------------------------------------------------------------------------
(* The accounting of nodes. *)

(* The steps that leave nodes and replicas alone. *)
LEMMA ReservationSteps ==
    ASSUME \/ \E i \in Reservations :
                CreateReservation(i) \/ FulfillReservation(i) \/ ExpireReservation(i)
           \/ ExpireStaleReservations
           \/ Tick
           \/ UNCHANGED vars
    PROVE  UNCHANGED <<nodes, free, alloc, pods, where>>
  BY DEF CreateReservation, FulfillReservation, ExpireReservation, ExpireStaleReservations,
         Tick, vars, nodeVars, replicaVars

(* The statement of GPUsConserved: whatever is upserted, moved or deleted, *)
(* free and allocated GPUs of a node add up to its total.                  *)
THEOREM GPUsConservedHolds == Spec => []GPUsConserved
<1>1. Init => GPUsConserved
  BY DEF Init, GPUsConserved
<1>2. TypeOK /\ TypeOK' /\ GPUsConserved /\ [Next]_vars => GPUsConserved'
  <2> SUFFICES ASSUME TypeOK, TypeOK', GPUsConserved, [Next]_vars,
                      NEW m \in Nodes, m \in nodes'
               PROVE  free'[m] + alloc'[m] = TotalGPUs[m]
    BY DEF GPUsConserved, TypeOK
  <2> USE WorldAssumption
  <2>1. ASSUME NEW ns \in SUBSET Nodes, PutNodes(ns) PROVE free'[m] + alloc'[m] = TotalGPUs[m]
    BY <2>1 DEF PutNodes, TypeOK, GPUsConserved
  <2>2. ASSUME NEW n \in Nodes, RemoveNode(n) PROVE free'[m] + alloc'[m] = TotalGPUs[m]
    BY <2>2 DEF RemoveNode, TypeOK, GPUsConserved
  <2>3. ASSUME NEW r \in Replicas, NEW from, NEW to, MoveGPUs(r, from, to), m \in nodes
        PROVE  free'[m] + alloc'[m] = TotalGPUs[m]
    <3>1. /\ free[m] \in Int /\ alloc[m] \in Int /\ GPUs[r] \in Int
          /\ free[m] + alloc[m] = TotalGPUs[m]
      BY <2>3 DEF TypeOK, GPUsConserved
    <3>2. /\ free'[m] = free[m] + (IF m = from /\ m \in nodes THEN GPUs[r] ELSE 0)
                                - (IF m = to /\ m \in nodes THEN GPUs[r] ELSE 0)
          /\ alloc'[m] = alloc[m] - (IF m = from /\ m \in nodes THEN GPUs[r] ELSE 0)
                                  + (IF m = to /\ m \in nodes THEN GPUs[r] ELSE 0)
      BY <2>3 DEF MoveGPUs
    <3>3. QED
      BY <3>1, <3>2
  <2>4. ASSUME NEW r \in Replicas, NEW n \in Nodes, NEW st \in Statuses,
               UpsertReplica(r, n, st)
        PROVE  free'[m] + alloc'[m] = TotalGPUs[m]
    BY <2>3, <2>4 DEF UpsertReplica, GPUsConserved
  <2>5. ASSUME NEW r \in Replicas, DeleteReplica(r) PROVE free'[m] + alloc'[m] = TotalGPUs[m]
    BY <2>3, <2>5 DEF DeleteReplica
  <2>6. CASE UNCHANGED <<nodes, free, alloc, pods, where>>
    BY <2>6 DEF GPUsConserved
  <2>7. QED
    BY <2>1, <2>2, <2>4, <2>5, <2>6, ReservationSteps DEF Next, UpsertCluster, UpsertNode
<1>3. QED
  BY <1>1, <1>2, TypeOKHolds, PTL DEF Spec

(* The statement of NoPhantomPods: a Pods list names replicas that are on  *)
(* the node, whatever happened to the node or to the replicas.             *)
THEOREM NoPhantomPodsHolds == Spec => []NoPhantomPods
<1>1. Init => NoPhantomPods
  BY DEF Init, NoPhantomPods
<1>2. TypeOK /\ NoPhantomPods /\ [Next]_vars => NoPhantomPods'
  <2> SUFFICES ASSUME TypeOK, NoPhantomPods, [Next]_vars PROVE NoPhantomPods'
    OBVIOUS
  <2>1. ASSUME NEW ns \in SUBSET Nodes, PutNodes(ns), UNCHANGED where PROVE NoPhantomPods'
    BY <2>1 DEF PutNodes, NoPhantomPods, At
  <2>2. ASSUME NEW n \in Nodes, RemoveNode(n) PROVE NoPhantomPods'
    BY <2>2 DEF RemoveNode, replicaVars, TypeOK, NoPhantomPods, At
  <2>3. ASSUME NEW r \in Replicas, NEW to, MoveGPUs(r, where[r], to),
               where' = [where EXCEPT ![r] = to]
        PROVE  NoPhantomPods'
    <3> SUFFICES ASSUME NEW n \in Nodes, NEW p \in pods'[n] PROVE p \in Replicas /\ where'[p] = n
      BY DEF NoPhantomPods, At
    <3>1. (p \in pods[n] /\ p # r) \/ (n = to /\ p = r)
      <4>1. p \in (pods[n] \ (IF n = where[r] THEN {r} ELSE {}))
                    \cup (IF n = to /\ n \in nodes THEN {r} ELSE {})
        BY <2>3 DEF MoveGPUs
      <4>2. r \in pods[n] => n = where[r]
        BY DEF NoPhantomPods, At
      <4>3. QED
        BY <4>1, <4>2
    <3>2. QED
      BY <2>3, <3>1 DEF TypeOK, NoPhantomPods, At
  <2>4. ASSUME NEW r \in Replicas, NEW n \in Nodes, NEW st \in Statuses,
               UpsertReplica(r, n, st)
        PROVE  NoPhantomPods'
    <3>1. CASE where[r] = n
      BY <2>4, <3>1 DEF UpsertReplica, TypeOK, NoPhantomPods, At
    <3>2. CASE where[r] # n
      BY <2>3, <2>4, <3>2 DEF UpsertReplica
    <3>3. QED
      BY <3>1, <3>2
  <2>5. ASSUME NEW r \in Replicas, DeleteReplica(r) PROVE NoPhantomPods'
    BY <2>3, <2>5 DEF DeleteReplica
  <2>6. CASE UNCHANGED <<nodes, free, alloc, pods, where>>
    BY <2>6 DEF NoPhantomPods, At
  <2>7. QED
    BY <2>1, <2>2, <2>4, <2>5, <2>6, ReservationSteps
       DEF Next, UpsertCluster, UpsertNode, replicaVars
<1>3. QED
  BY <1>1, <1>2, TypeOKHolds, PTL DEF Spec

-----------------------------------------------------------------------------
(* What the nodes show as allocated. *)

(* The tracked replicas on n, after r has left node from for node to.      *)
LEMMA AtAfterMove ==
    ASSUME NEW r \in Replicas, NEW to, where \in [Replicas -> Nodes \cup {NoNode}],
           where' = [where EXCEPT ![r] = to], to # where[r], NEW n
    PROVE  /\ n = where[r] => At(n) = At(n)' \cup {r} /\ r \notin At(n)'
           /\ n = to => At(n)' = At(n) \cup {r} /\ r \notin At(n)
           /\ n # where[r] /\ n # to => At(n)' = At(n)
  BY DEF At

LEMMA SumAtIsNat == \A n : Sum(GPUs, At(n)) \in Nat /\ Sum(GPUs, At(n)') \in Nat
<1> TAKE n
<1>1. /\ IsFiniteSet(At(n)) /\ IsFiniteSet(At(n)')
      /\ \A p \in At(n) \cup At(n)' : GPUs[p] \in Nat
  BY WorldAssumption, FS_Subset DEF At
<1>2. QED
  BY <1>1, SumIsNat

AccountingOf(n) == Unseen(n)' = Unseen(n) /\ UnseenPods(n)' \subseteq UnseenPods(n)

(* A replica that is new, moves or goes changes what a node shows by as    *)
(* much as it changes what is on the node.                                 *)
LEMMA MoveKeepsAccounting ==
    ASSUME TypeOK, TypeOK', NEW r \in Replicas, NEW to, MoveGPUs(r, where[r], to),
           to # where[r], where' = [where EXCEPT ![r] = to], NEW n \in nodes
    PROVE  AccountingOf(n)
<1>1. n \in Nodes /\ alloc[n] \in Int /\ GPUs[r] \in Nat
  BY WorldAssumption DEF TypeOK
<1>2. alloc'[n] = alloc[n] - (IF n = where[r] THEN GPUs[r] ELSE 0)
                           + (IF n = to THEN GPUs[r] ELSE 0)
  BY <1>1 DEF MoveGPUs
<1>3. pods'[n] = (pods[n] \ (IF n = where[r] THEN {r} ELSE {}))
                   \cup (IF n = to THEN {r} ELSE {})
  BY <1>1 DEF MoveGPUs
<1>4. /\ n = where[r] => At(n) = At(n)' \cup {r} /\ r \notin At(n)'
      /\ n = to => At(n)' = At(n) \cup {r} /\ r \notin At(n)
      /\ n # where[r] /\ n # to => At(n)' = At(n)
  BY AtAfterMove DEF TypeOK
<1>5. /\ IsFiniteSet(At(n)) /\ IsFiniteSet(At(n)')
      /\ \A p \in At(n) \cup At(n)' : GPUs[p] \in Nat
  BY WorldAssumption, FS_Subset DEF At
<1>6. Sum(GPUs, At(n)) \in Nat /\ Sum(GPUs, At(n)') \in Nat
  BY SumAtIsNat
<1>7. UnseenPods(n)' \subseteq UnseenPods(n)
  BY <1>3, <1>4 DEF UnseenPods
<1>8. CASE n = where[r]
  <2>1. Sum(GPUs, At(n)' \cup {r}) = Sum(GPUs, At(n)') + GPUs[r]
    BY <1>1, <1>4, <1>5, <1>8, SumAdd
  <2>2. Sum(GPUs, At(n)) = Sum(GPUs, At(n)') + GPUs[r]
    BY <1>4, <1>8, <2>1, ZenonT(30)
  <2>3. alloc'[n] = alloc[n] - GPUs[r]
    BY <1>1, <1>2, <1>8
  <2>4. Unseen(n)' = Unseen(n)
    BY <1>1, <1>6, <2>2, <2>3 DEF Unseen
  <2>5. QED
    BY <1>7, <2>4 DEF AccountingOf
<1>9. CASE n = to
  <2>1. Sum(GPUs, At(n) \cup {r}) = Sum(GPUs, At(n)) + GPUs[r]
    BY <1>1, <1>4, <1>5, <1>9, SumAdd
  <2>2. Sum(GPUs, At(n)') = Sum(GPUs, At(n)) + GPUs[r]
    BY <1>4, <1>9, <2>1, ZenonT(30)
  <2>3. alloc'[n] = alloc[n] + GPUs[r]
    BY <1>1, <1>2, <1>9
  <2>4. Unseen(n)' = Unseen(n)
    BY <1>1, <1>6, <2>2, <2>3 DEF Unseen
  <2>5. QED
    BY <1>7, <2>4 DEF AccountingOf
<1>10. CASE n # where[r] /\ n # to
  <2>1. Sum(GPUs, At(n)') = Sum(GPUs, At(n))
    BY <1>4, <1>10
  <2>2. alloc'[n] = alloc[n]
    BY <1>1, <1>2, <1>10
  <2>3. QED
    BY <1>7, <2>1, <2>2 DEF Unseen, AccountingOf
<1>11. QED
  BY <1>8, <1>9, <1>10

(* Every call keeps the accounting of a node that stays, but for the       *)
(* announcement of that node.                                              *)
LEMMA StepKeepsAccounting ==
    ASSUME TypeOK, TypeOK', [Next]_vars, NEW n \in nodes, n \in nodes'
    PROVE  AccountingOf(n) \/ UpsertNode(n)
<1>0. n \in Nodes /\ ClusterOf[n] \in known
  BY DEF TypeOK
<1>1. ASSUME alloc'[n] = alloc[n], pods'[n] = pods[n], where' = where
      PROVE  AccountingOf(n)
  BY <1>1 DEF AccountingOf, Unseen, UnseenPods, At
<1>2. ASSUME NEW c \in Clusters, NEW ns \in SUBSET {m \in Nodes : ClusterOf[m] = c},
             UpsertCluster(c, ns)
      PROVE  AccountingOf(n)
  <2>1. n \notin ns
    BY <1>0, <1>2 DEF UpsertCluster
  <2>2. QED
    BY <1>0, <1>1, <1>2, <2>1 DEF UpsertCluster, PutNodes, replicaVars
<1>3. ASSUME NEW m \in Nodes, UpsertNode(m), m # n PROVE AccountingOf(n)
  BY <1>0, <1>1, <1>3 DEF UpsertNode, PutNodes, replicaVars
<1>4. ASSUME NEW m \in Nodes, RemoveNode(m) PROVE AccountingOf(n)
  <2>1. n # m
    BY <1>4 DEF RemoveNode
  <2>2. QED
    BY <1>0, <1>1, <1>4, <2>1 DEF RemoveNode, replicaVars, TypeOK
<1>5. ASSUME NEW r \in Replicas, NEW m \in Nodes, NEW st \in Statuses, UpsertReplica(r, m, st)
      PROVE  AccountingOf(n)
  <2>1. CASE where[r] = m
    <3>1. where' = where
      BY <1>5, <2>1 DEF UpsertReplica, TypeOK
    <3>2. QED
      BY <1>1, <1>5, <2>1, <3>1 DEF UpsertReplica
  <2>2. CASE where[r] # m
    BY <1>5, <2>2, MoveKeepsAccounting DEF UpsertReplica
  <2>3. QED
    BY <2>1, <2>2
<1>6. ASSUME NEW r \in Replicas, DeleteReplica(r) PROVE AccountingOf(n)
  BY <1>6, MoveKeepsAccounting DEF DeleteReplica, Tracked
<1>7. CASE UNCHANGED <<nodes, free, alloc, pods, where>>
  BY <1>1, <1>7
<1>8. QED
  BY <1>2, <1>3, <1>4, <1>5, <1>6, <1>7, ReservationSteps DEF Next

(* The statement of AccountingKept: only the announcement of a node puts   *)
(* its accounting out of step with the replicas tracked on it, whatever    *)
(* order replicas and nodes come, move and go in.                          *)
THEOREM AccountingKeptHolds == Spec => AccountingKept
<1>1. TypeOK /\ TypeOK' /\ [Next]_vars =>
        [\A n \in nodes \cap nodes' :
            \/ Unseen(n)' = Unseen(n) /\ UnseenPods(n)' \subseteq UnseenPods(n)
            \/ UpsertNode(n)]_vars
  BY StepKeepsAccounting DEF AccountingOf
<1>2. QED
  BY <1>1, TypeOKHolds, PTL DEF Spec, AccountingKept

(* The statement of NoGPUsLost: no node ever shows fewer free GPUs than    *)
(* the replicas tracked on it leave, also when replicas are tracked before *)
(* their node, and when a node is announced with replicas on it.           *)
THEOREM NoGPUsLostHolds == Spec => []NoGPUsLost
<1>1. Init => NoGPUsLost
  BY DEF Init, NoGPUsLost
<1>2. TypeOK /\ TypeOK' /\ NoGPUsLost /\ [Next]_vars => NoGPUsLost'
  <2> SUFFICES ASSUME TypeOK, TypeOK', NoGPUsLost, [Next]_vars, NEW n \in nodes'
               PROVE  Unseen(n)' >= 0
    BY DEF NoGPUsLost, Unseen, At
  <2>0. n \in Nodes /\ Sum(GPUs, At(n)') \in Nat
    BY SumAtIsNat DEF TypeOK
  <2>1. CASE alloc'[n] = 0
    BY <2>0, <2>1 DEF Unseen
  <2>2. CASE AccountingOf(n) /\ n \in nodes
    BY <2>2 DEF AccountingOf, NoGPUsLost
  <2>3. ASSUME UpsertNode(n) PROVE alloc'[n] = 0
    BY <2>0, <2>3 DEF UpsertNode, PutNodes
  <2>4. ASSUME n \notin nodes PROVE alloc'[n] = 0
    <3>1. ASSUME NEW ns, PutNodes(ns) PROVE alloc'[n] = 0
      BY <2>0, <2>4, <3>1 DEF PutNodes
    <3>2. QED
      BY <2>4, <3>1, ReservationSteps
         DEF Next, UpsertCluster, UpsertNode, RemoveNode, UpsertReplica, DeleteReplica
  <2>5. QED
    BY <2>1, <2>2, <2>3, <2>4, StepKeepsAccounting
<1>3. QED
  BY <1>1, <1>2, TypeOKHolds, PTL DEF Spec

-----------------------------------------------------------------------------
(* Reservations. *)

(* The statement of EndedStaysEnded: no call changes a reservation that is *)
(* fulfilled or expired.                                                   *)
THEOREM EndedStaysEndedHolds == Spec => EndedStaysEnded
<1>1. TypeOK /\ [Next]_vars =>
        [\A i \in Reservations : reservation[i] \in {"fulfilled", "expired"}
            => reservation'[i] = reservation[i]]_vars
  <2> SUFFICES ASSUME TypeOK, [Next]_vars, NEW i \in Reservations,
                      reservation[i] \in {"fulfilled", "expired"}
               PROVE  reservation'[i] = reservation[i]
    OBVIOUS
  <2>1. ASSUME NEW j \in Reservations,
               CreateReservation(j) \/ FulfillReservation(j) \/ ExpireReservation(j)
        PROVE  reservation'[i] = reservation[i]
    BY <2>1 DEF CreateReservation, FulfillReservation, ExpireReservation, TypeOK
  <2>2. CASE ExpireStaleReservations
    BY <2>2 DEF ExpireStaleReservations, Stale
  <2>3. CASE UNCHANGED reservation
    BY <2>3
  <2>4. QED
    BY <2>1, <2>2, <2>3
       DEF Next, UpsertCluster, UpsertNode, RemoveNode, UpsertReplica, DeleteReplica,
           Tick, reservationVars, vars
<1>2. QED
  BY <1>1, TypeOKHolds, PTL DEF Spec, EndedStaysEnded

-----------------------------------------------------------------------------
(* What is derived from the maps. *)

FragFresh   == \A c \in Clusters : frag[c] = Fragmentation(c, nodes, free)
WithStatus(st) == {r \in Tracked : phase[r] = st}
ReplicasCounted == \A st \in Statuses : replicasGauge[st] = Cardinality(WithStatus(st))
Active == {i \in Reservations : reservation[i] = "active"}
ReservationsCounted == reservationsGauge = Cardinality(Active)

LEMMA SumFunctionOfNothing == ASSUME NEW f, DOMAIN f = {} PROVE SumFunction(f) = 0
<1> DEFINE step(g, s) == IF s = {} THEN 0
                         ELSE LET x == CHOOSE y \in s : TRUE IN f[x] + g[s \ {x}]
           Folds(g) == g = [s \in SUBSET {} |-> step(g, s)]
<1>1. Folds([s \in SUBSET {} |-> 0])
  OBVIOUS
<1>2. Folds(CHOOSE g : Folds(g))
  BY <1>1
<1>3. (CHOOSE g : Folds(g))[{}] = 0
  BY <1>2
<1>4. QED
  BY <1>3 DEF SumFunction, SumFunctionOnSet, FoldFunctionOnSet, MapThenFoldSet

(* The score of c only looks at the nodes of c.                            *)
LEMMA FragmentationLocal ==
    ASSUME NEW c, NEW ns, NEW ms, NEW f, NEW g,
           {n \in ns : ClusterOf[n] = c} = {n \in ms : ClusterOf[n] = c},
           \A n \in ns : ClusterOf[n] = c => f[n] = g[n]
    PROVE  Fragmentation(c, ns, f) = Fragmentation(c, ms, g)
<1> DEFINE own == {n \in ns : ClusterOf[n] = c}
<1>1. Restrict(f, own) = Restrict(g, own)
  BY DEF Restrict
<1>2. QED
  BY <1>1, Zenon DEF Fragmentation

LEMMA FragFreshInvariant == Spec => []FragFresh
<1>1. Init => FragFresh
  <2>1. \A f : SumFunction(Restrict(f, {})) = 0
    BY SumFunctionOfNothing DEF Restrict
  <2>2. QED
    BY <2>1 DEF Init, FragFresh, Fragmentation
<1>2. TypeOK /\ FragFresh /\ [Next]_vars => FragFresh'
  <2> SUFFICES ASSUME TypeOK, FragFresh, [Next]_vars, NEW c \in Clusters
               PROVE  frag'[c] = Fragmentation(c, nodes', free')
    BY DEF FragFresh, Fragmentation
  <2>0. frag[c] = Fragmentation(c, nodes, free) /\ DOMAIN frag = Clusters
    BY DEF FragFresh, TypeOK
  <2>1. ASSUME NEW d \in Clusters, NEW ns \in SUBSET {n \in Nodes : ClusterOf[n] = d},
               UpsertCluster(d, ns)
        PROVE  frag'[c] = Fragmentation(c, nodes', free')
    <3>1. /\ nodes' = nodes \cup ns
          /\ \A n \in Nodes : free'[n] = IF n \in ns THEN TotalGPUs[n] ELSE free[n]
      BY <2>1 DEF UpsertCluster, PutNodes
    <3>2. CASE c = d
      <4>1. frag'[c] = Fragmentation(c, ns, TotalGPUs)
        BY <2>0, <2>1, <3>2 DEF UpsertCluster
      <4>2. {n \in nodes' : ClusterOf[n] = c} = {n \in ns : ClusterOf[n] = c}
        BY <2>1, <3>1, <3>2 DEF UpsertCluster, TypeOK
      <4>3. \A n \in ns : free'[n] = TotalGPUs[n]
        BY <3>1
      <4>4. QED
        BY <4>1, <4>2, <4>3, FragmentationLocal
    <3>3. CASE c # d
      <4>1. frag'[c] = frag[c]
        BY <2>0, <2>1, <3>3 DEF UpsertCluster
      <4>2. {n \in nodes : ClusterOf[n] = c} = {n \in nodes' : ClusterOf[n] = c}
        BY <3>1, <3>3
      <4>3. \A n \in nodes : ClusterOf[n] = c => free[n] = free'[n]
        BY <3>1, <3>3 DEF TypeOK
      <4>4. QED
        BY <2>0, <4>1, <4>2, <4>3, FragmentationLocal
    <3>4. QED
      BY <3>2, <3>3
  <2>2. ASSUME NEW m \in Nodes, UpsertNode(m) PROVE frag'[c] = Fragmentation(c, nodes', free')
    <3>1. CASE c = ClusterOf[m]
      BY <2>0, <2>2, <3>1 DEF UpsertNode
    <3>2. CASE c # ClusterOf[m]
      <4>1. frag'[c] = frag[c]
        BY <2>0, <2>2, <3>2 DEF UpsertNode
      <4>2. {n \in nodes : ClusterOf[n] = c} = {n \in nodes' : ClusterOf[n] = c}
        BY <2>2, <3>2 DEF UpsertNode, PutNodes
      <4>3. \A n \in nodes : ClusterOf[n] = c => free[n] = free'[n]
        BY <2>2, <3>2 DEF UpsertNode, PutNodes, TypeOK
      <4>4. QED
        BY <2>0, <4>1, <4>2, <4>3, FragmentationLocal
    <3>3. QED
      BY <3>1, <3>2
  <2>3. ASSUME NEW m \in Nodes, RemoveNode(m) PROVE frag'[c] = Fragmentation(c, nodes', free')
    <3>1. nodes' = nodes \ {m} /\ \A n \in Nodes : n # m => free'[n] = free[n]
      BY <2>3 DEF RemoveNode, TypeOK
    <3>2. CASE c = ClusterOf[m]
      <4>1. frag'[c] = Fragmentation(c, nodes', free)
        BY <2>0, <2>3, <3>2 DEF RemoveNode
      <4>2. \A n \in nodes' : free[n] = free'[n]
        BY <3>1 DEF TypeOK
      <4>3. QED
        BY <4>1, <4>2, FragmentationLocal
    <3>3. CASE c # ClusterOf[m]
      <4>1. frag'[c] = frag[c]
        BY <2>0, <2>3, <3>3 DEF RemoveNode
      <4>2. {n \in nodes : ClusterOf[n] = c} = {n \in nodes' : ClusterOf[n] = c}
        BY <3>1, <3>3
      <4>3. \A n \in nodes : ClusterOf[n] = c => free[n] = free'[n]
        BY <3>1, <3>3 DEF TypeOK
      <4>4. QED
        BY <2>0, <4>1, <4>2, <4>3, FragmentationLocal
    <3>4. QED
      BY <3>2, <3>3
  <2>4. ASSUME NEW from, NEW to, UNCHANGED nodes, Refragment({from, to}),
               \A n \in Nodes : n # from /\ n # to => free'[n] = free[n]
        PROVE  frag'[c] = Fragmentation(c, nodes', free')
    <3>1. CASE c \in known /\ \E n \in {from, to} : n \in Nodes /\ ClusterOf[n] = c
      BY <2>4, <3>1 DEF Refragment
    <3>2. CASE ~(c \in known /\ \E n \in {from, to} : n \in Nodes /\ ClusterOf[n] = c)
      <4>1. frag'[c] = frag[c]
        BY <2>4, <3>2 DEF Refragment
      <4>2. \A n \in nodes : ClusterOf[n] = c => n # from /\ n # to
        BY <3>2 DEF TypeOK
      <4>3. \A n \in nodes : ClusterOf[n] = c => free[n] = free'[n]
        BY <2>4, <4>2 DEF TypeOK
      <4>4. QED
        BY <2>0, <2>4, <4>1, <4>3, FragmentationLocal
    <3>3. QED
      BY <3>1, <3>2
  <2>5. ASSUME NEW r \in Replicas, NEW m \in Nodes, NEW st \in Statuses,
               UpsertReplica(r, m, st)
        PROVE  frag'[c] = Fragmentation(c, nodes', free')
    <3>1. \A n \in Nodes : n # m /\ n # where[r] => free'[n] = free[n]
      BY <2>5, WorldAssumption DEF UpsertReplica, MoveGPUs, TypeOK
    <3>2. QED
      BY <2>4, <2>5, <3>1 DEF UpsertReplica
  <2>6. ASSUME NEW r \in Replicas, DeleteReplica(r)
        PROVE  frag'[c] = Fragmentation(c, nodes', free')
    <3>1. \A n \in Nodes : n # where[r] => free'[n] = free[n]
      BY <2>6, WorldAssumption DEF DeleteReplica, MoveGPUs, TypeOK
    <3>2. Refragment({where[r], where[r]})
      BY <2>6 DEF DeleteReplica
    <3>3. QED
      BY <2>4, <2>6, <3>1, <3>2 DEF DeleteReplica
  <2>7. CASE UNCHANGED nodeVars
    BY <2>0, <2>7 DEF nodeVars
  <2>8. QED
    BY <2>1, <2>2, <2>3, <2>5, <2>6, <2>7
       DEF Next, CreateReservation, FulfillReservation, ExpireReservation,
           ExpireStaleReservations, Tick, vars
<1>3. QED
  BY <1>1, <1>2, TypeOKHolds, PTL DEF Spec

(* A replica that is added, updated or deleted is counted once, by the     *)
(* status it has.                                                          *)
LEMMA ReplicasCountedInvariant == Spec => []ReplicasCounted
<1>1. Init => ReplicasCounted
  <2> SUFFICES ASSUME Init, NEW st \in Statuses PROVE replicasGauge[st] = Cardinality(WithStatus(st))
    BY DEF ReplicasCounted
  <2>1. WithStatus(st) = {}
    BY DEF Init, WithStatus, Tracked
  <2>2. QED
    BY <2>1, FS_EmptySet DEF Init
<1>2. TypeOK /\ ReplicasCounted /\ [Next]_vars => ReplicasCounted'
  <2> SUFFICES ASSUME TypeOK, ReplicasCounted, [Next]_vars, NEW st \in Statuses
               PROVE  replicasGauge'[st] = Cardinality(WithStatus(st)')
    BY DEF ReplicasCounted, WithStatus, Tracked
  <2>0. /\ replicasGauge[st] = Cardinality(WithStatus(st))
        /\ IsFiniteSet(WithStatus(st)) /\ Cardinality(WithStatus(st)) \in Nat
    <3>1. IsFiniteSet(WithStatus(st))
      BY WorldAssumption, FS_Subset DEF WithStatus, Tracked
    <3>2. QED
      BY <3>1, FS_CardinalityType DEF ReplicasCounted
  <2>1. ASSUME NEW r \in Replicas, NEW left, left = WithStatus(st) \ {r}
        PROVE  /\ IsFiniteSet(left) /\ Cardinality(left) \in Int
               /\ Cardinality(left) = replicasGauge[st] - (IF r \in WithStatus(st) THEN 1 ELSE 0)
               /\ Cardinality(left \cup {r}) = Cardinality(left) + 1
    <3>1. IsFiniteSet(left) /\ r \notin left
      BY <2>0, <2>1, FS_RemoveElement
    <3>2. Cardinality(left) \in Int
      BY <3>1, FS_CardinalityType
    <3>3. Cardinality(left \cup {r}) = Cardinality(left) + 1
      BY <3>1, FS_AddElement
    <3>4. CASE r \in WithStatus(st)
      <4>1. Cardinality(WithStatus(st) \ {r}) = Cardinality(WithStatus(st)) - 1
        BY <2>0, <3>4, FS_RemoveElement
      <4>2. QED
        BY <2>0, <2>1, <3>1, <3>2, <3>3, <3>4, <4>1
    <3>5. CASE r \notin WithStatus(st)
      <4>1. left = WithStatus(st)
        BY <2>1, <3>5
      <4>2. QED
        BY <2>0, <3>1, <3>2, <3>3, <3>5, <4>1
    <3>6. QED
      BY <3>4, <3>5
  <2>2. ASSUME NEW r \in Replicas, NEW n \in Nodes, NEW new \in Statuses,
               UpsertReplica(r, n, new)
        PROVE  replicasGauge'[st] = Cardinality(WithStatus(st)')
    <3> DEFINE left == WithStatus(st) \ {r}
    <3>1. WithStatus(st)' = IF st = new THEN left \cup {r} ELSE left
      BY <2>2, WorldAssumption DEF UpsertReplica, WithStatus, Tracked, TypeOK
    <3>2. replicasGauge'[st] = replicasGauge[st] - (IF r \in WithStatus(st) THEN 1 ELSE 0)
                                                 + (IF st = new THEN 1 ELSE 0)
      BY <2>2 DEF UpsertReplica, Inc, Dec, WithStatus, Tracked, TypeOK
    <3>3. /\ Cardinality(left) \in Int
          /\ Cardinality(left) = replicasGauge[st] - (IF r \in WithStatus(st) THEN 1 ELSE 0)
          /\ Cardinality(left \cup {r}) = Cardinality(left) + 1
      BY <2>1
    <3>4. CASE st = new
      BY <3>1, <3>2, <3>3, <3>4
    <3>5. CASE st # new
      <4>1. replicasGauge'[st] = replicasGauge[st] - (IF r \in WithStatus(st) THEN 1 ELSE 0)
        BY <2>0, <3>2, <3>5
      <4>2. QED
        BY <3>1, <3>3, <3>5, <4>1
    <3>6. QED
      BY <3>4, <3>5
  <2>3. ASSUME NEW r \in Replicas, DeleteReplica(r)
        PROVE  replicasGauge'[st] = Cardinality(WithStatus(st)')
    <3> DEFINE left == WithStatus(st) \ {r}
    <3>1. WithStatus(st)' = left
      BY <2>3, WorldAssumption DEF DeleteReplica, WithStatus, Tracked, TypeOK
    <3>2. replicasGauge'[st] = replicasGauge[st] - (IF r \in WithStatus(st) THEN 1 ELSE 0)
      BY <2>3 DEF DeleteReplica, Dec, WithStatus, Tracked, TypeOK
    <3>3. QED
      BY <2>1, <3>1, <3>2
  <2>4. CASE UNCHANGED replicaVars
    BY <2>0, <2>4 DEF replicaVars, WithStatus, Tracked
  <2>5. QED
    BY <2>2, <2>3, <2>4
       DEF Next, UpsertCluster, UpsertNode, RemoveNode, CreateReservation,
           FulfillReservation, ExpireReservation, ExpireStaleReservations, Tick, vars
<1>3. QED
  BY <1>1, <1>2, TypeOKHolds, PTL DEF Spec

(* A sweep ends several reservations at once, and counts each.             *)
LEMMA ReservationsCountedInvariant == Spec => []ReservationsCounted
<1>1. Init => ReservationsCounted
  <2> SUFFICES ASSUME Init PROVE ReservationsCounted
    OBVIOUS
  <2>1. Active = {}
    BY DEF Init, Active
  <2>2. QED
    BY <2>1, FS_EmptySet DEF Init, ReservationsCounted
<1>2. TypeOK /\ ReservationsCounted /\ [Next]_vars => ReservationsCounted'
  <2> SUFFICES ASSUME TypeOK, ReservationsCounted, [Next]_vars
               PROVE  reservationsGauge' = Cardinality(Active')
    BY DEF ReservationsCounted
  <2>0. reservationsGauge = Cardinality(Active) /\ IsFiniteSet(Active)
    BY WorldAssumption, FS_Subset DEF ReservationsCounted, Active
  <2>1. ASSUME NEW i \in Reservations, CreateReservation(i)
        PROVE  reservationsGauge' = Cardinality(Active')
    <3>1. Active' = Active \cup {i} /\ i \notin Active
      BY <2>1 DEF CreateReservation, Active, TypeOK
    <3>2. QED
      BY <2>0, <2>1, <3>1, FS_AddElement DEF CreateReservation
  <2>2. ASSUME NEW i \in Reservations, FulfillReservation(i) \/ ExpireReservation(i)
        PROVE  reservationsGauge' = Cardinality(Active')
    <3>1. Active' = Active \ {i} /\ i \in Active
      BY <2>2 DEF FulfillReservation, ExpireReservation, Active, TypeOK
    <3>2. QED
      BY <2>0, <2>2, <3>1, FS_RemoveElement DEF FulfillReservation, ExpireReservation
  <2>3. CASE ExpireStaleReservations
    <3>1. Active' = Active \ Stale /\ Stale \subseteq Active
      BY <2>3 DEF ExpireStaleReservations, Active, Stale
    <3>2. Cardinality(Active \ Stale) = Cardinality(Active) - Cardinality(Active \cap Stale)
      BY <2>0, FS_Difference
    <3>3. Active \cap Stale = Stale
      BY <3>1
    <3>4. QED
      BY <2>0, <2>3, <3>1, <3>2, <3>3 DEF ExpireStaleReservations
  <2>4. CASE UNCHANGED <<reservation, reservationsGauge>>
    BY <2>0, <2>4 DEF Active
  <2>5. QED
    BY <2>1, <2>2, <2>3, <2>4
       DEF Next, UpsertCluster, UpsertNode, RemoveNode, UpsertReplica, DeleteReplica,
           Tick, reservationVars, vars
<1>3. QED
  BY <1>1, <1>2, TypeOKHolds, PTL DEF Spec

(* The statement of DerivedFresh: after any sequence of calls the          *)
(* fragmentation scores are those of the nodes now in the maps, and the    *)
(* gauges count what is in the maps.                                       *)
THEOREM DerivedFreshHolds == Spec => []DerivedFresh
<1>1. FragFresh /\ ReplicasCounted /\ ReservationsCounted => DerivedFresh
  BY DEF FragFresh, ReplicasCounted, ReservationsCounted, WithStatus, Active, DerivedFresh
<1>2. QED
  BY <1>1, FragFreshInvariant, ReplicasCountedInvariant, ReservationsCountedInvariant, PTL

=============================================================================
