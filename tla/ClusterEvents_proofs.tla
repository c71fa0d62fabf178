------------------------ MODULE ClusterEvents_proofs -------------------------
(***************************************************************************)
(* Theorems about what the world state gets to know of the clusters, for   *)
(* any nodes and pods, any changes of theirs and any order of the events.  *)
(***************************************************************************)
EXTENDS ClusterEvents, WorldState_proofs

-----------------------------------------------------------------------------
(* Types. *)

NodeEventType == [kind : {"NodeUp", "NodeDown"}, node : Nodes]
PodEventType  == [kind : {"PodRunning", "PodTerminated"}, replica : Replicas, node : Nodes]

CETypeOK ==
    /\ startup \in {"listNodes", "listPods", "seedClusters", "seedReplicas", "watching"}
    /\ informers \in SUBSET {"nodes", "pods"}
    /\ nodeList \in SUBSET Nodes
    /\ podList \in SUBSET [replica : Replicas, node : Nodes, status : Statuses]
    /\ node \in [Nodes -> {"absent", "notReady", "ready"}]
    /\ pod \in [Pods -> {NoPod} \cup
                  [node : Nodes, phase : {"pending", "running", "terminating", "failed"}]]
    /\ nodeEvents \in Seq(NodeEventType)
    /\ podEvents \in Seq(PodEventType)
    /\ changes \in Nat
    /\ missed \in SUBSET Replicas

LEMMA PodType ==
    ASSUME CETypeOK, NEW p \in Existing
    PROVE  /\ p \in Pods /\ p[1] \in Replicas /\ pod[p].node \in Nodes
           /\ pod[p].phase \in {"pending", "running", "terminating", "failed"}
BY DEF CETypeOK, Existing, Pods

LEMMA EmitType ==
    ASSUME NEW p \in Pods,
           NEW st \in [node : Nodes, phase : {"pending", "running", "terminating", "failed"}]
    PROVE  EmitPodEvent(p, st) \in PodEventType /\ EmitPodEvent(p, st).replica = p[1]
BY DEF EmitPodEvent, PodEvent, PodEventType, Pods

(* A set is listed in sequences of its elements.                           *)
LEMMA ListedInSeq ==
    ASSUME NEW S, IsFiniteSet(S), NEW s \in Listings(S)
    PROVE  s \in Seq(S)
<1>1. Cardinality(S) \in Nat
    BY FS_CardinalityType
<1>2. s \in [1 .. Cardinality(S) -> S]
    BY DEF Listings, Bijection, Injection
<1> QED BY <1>1, <1>2

LEMMA ExistingFinite == ASSUME NEW S \in SUBSET Pods PROVE IsFiniteSet(S)
<1>1. IsFiniteSet(Pods)
    BY WorldAssumption, ClusterEventsAssumption, FS_Product DEF Pods
<1> QED BY <1>1, FS_Subset

(* What the pod informer lists are events of existing pods.                *)
LEMMA EmitAllType ==
    ASSUME CETypeOK, NEW es \in EmitAll
    PROVE  /\ es \in Seq(PodEventType)
           /\ \A i \in DOMAIN es : PodsOf(es[i].replica) # {}
<1> DEFINE listed == {p \in Existing : pod[p].phase # "pending"}
<1>1. PICK ps \in Listings(listed) : es = [i \in DOMAIN ps |-> EmitPodEvent(ps[i], pod[ps[i]])]
    BY DEF EmitAll
<1>2. listed \in SUBSET Existing /\ Existing \in SUBSET Pods
    BY DEF Existing
<1>3. ps \in Seq(listed)
    <2>1. IsFiniteSet(listed)
        BY <1>2, ExistingFinite
    <2> HIDE DEF listed
    <2> QED BY <1>1, <2>1, ListedInSeq
<1>4. Len(ps) \in Nat /\ DOMAIN ps = 1 .. Len(ps) /\ \A i \in DOMAIN ps : ps[i] \in Existing
    <2> HIDE DEF listed
    <2> QED BY <1>2, <1>3
<1>5. ASSUME NEW i \in DOMAIN ps
      PROVE  es[i] \in PodEventType /\ PodsOf(es[i].replica) # {}
    <2>1. ps[i] \in Existing /\ ps[i] \in Pods /\ es[i] = EmitPodEvent(ps[i], pod[ps[i]])
        BY <1>1, <1>2, <1>4, <1>5
    <2>2. pod[ps[i]] \in [node : Nodes, phase : {"pending", "running", "terminating", "failed"}]
        BY <2>1 DEF CETypeOK, Existing
    <2>3. es[i] \in PodEventType /\ es[i].replica = ps[i][1]
        BY <2>1, <2>2, EmitType
    <2> QED BY <2>1, <2>3 DEF PodsOf
<1>6. DOMAIN es = 1 .. Len(ps) /\ es = [i \in 1 .. Len(ps) |-> es[i]]
    BY <1>1, <1>4
<1>7. \A i \in 1 .. Len(ps) : es[i] \in PodEventType
    BY <1>4, <1>5
<1>8. es \in Seq(PodEventType)
    <2>1. es \in [1 .. Len(ps) -> PodEventType]
        BY <1>6, <1>7
    <2> QED BY <1>4, <2>1
<1> QED BY <1>4, <1>5, <1>6, <1>8

LEMMA CETypesInit == CEInit => CETypeOK
BY DEF CEInit, CETypeOK

LEMMA ReportsType ==
    ASSUME NEW S, NEW q \in Seq(S), NEW e \in S, NEW informer
    PROVE  Reports(informer, q, <<e>>) \in Seq(S) /\ Reports(informer, q, <<>>) \in Seq(S)
BY DEF Reports

LEMMA PodEventsStep ==
    ASSUME CETypeOK, NEW p \in Pods, NEW e \in PodEventType,
           podEvents' = Reports("pods", podEvents, <<e>>)
    PROVE  podEvents' \in Seq(PodEventType)
<1>1. podEvents \in Seq(PodEventType)
    BY DEF CETypeOK
<1> QED BY <1>1, ReportsType

LEMMA CETypesStep ==
    ASSUME CETypeOK, [CENext]_ceVars
    PROVE  CETypeOK'
<1> USE DEF startVars, clusterVars, channelVars
<1>1. CASE ListNodes
    BY <1>1 DEF ListNodes, CETypeOK
<1>2. CASE ListPods
    <2>1. podList' \in SUBSET [replica : Replicas, node : Nodes, status : Statuses]
        BY <1>2, PodType DEF ListPods, Statuses
    <2> QED BY <1>2, <2>1 DEF ListPods, CETypeOK
<1>3. CASE SyncFails
    BY <1>3 DEF SyncFails, Changes, CETypeOK
<1>4. CASE SeedClusters
    BY <1>4 DEF SeedClusters, CETypeOK
<1>5. CASE SeedReplicas
    BY <1>5 DEF SeedReplicas, CETypeOK
<1>6. CASE StartNodeInformer
    <2> DEFINE up == {n \in Nodes : node[n] = "ready"}
    <2>1. PICK ns \in Listings(up) : nodeEvents' = [i \in DOMAIN ns |-> NodeEvent("NodeUp", ns[i])]
        BY <1>6 DEF StartNodeInformer
    <2>2. IsFiniteSet(up) /\ up \in SUBSET Nodes
        BY ClusterEventsAssumption, FS_Subset
    <2>3. ns \in Seq(up)
        <3> HIDE DEF up
        <3> QED BY <2>1, <2>2, ListedInSeq
    <2>4. Len(ns) \in Nat /\ DOMAIN ns = 1 .. Len(ns) /\ \A i \in DOMAIN ns : ns[i] \in Nodes
        <3> HIDE DEF up
        <3> QED BY <2>2, <2>3
    <2>5. nodeEvents' \in [1 .. Len(ns) -> NodeEventType]
        BY <2>1, <2>4 DEF NodeEvent, NodeEventType
    <2>6. nodeEvents' \in Seq(NodeEventType)
        BY <2>4, <2>5
    <2> QED BY <1>6, <2>6 DEF StartNodeInformer, CETypeOK
<1>7. CASE StartPodInformer
    BY <1>7, EmitAllType DEF StartPodInformer, CETypeOK
<1>8. ASSUME NEW n \in Nodes, NEW st \in {"absent", "notReady", "ready"}, NodeChanges(n, st)
      PROVE  CETypeOK'
    <2>1. /\ NodeEvent("NodeUp", n) \in NodeEventType /\ NodeEvent("NodeDown", n) \in NodeEventType
          /\ nodeEvents \in Seq(NodeEventType)
        BY DEF NodeEvent, NodeEventType, CETypeOK
    <2>2. \/ nodeEvents' = Reports("nodes", nodeEvents, <<NodeEvent("NodeUp", n)>>)
          \/ nodeEvents' = Reports("nodes", nodeEvents, <<NodeEvent("NodeDown", n)>>)
          \/ nodeEvents' = Reports("nodes", nodeEvents, <<>>)
        BY <1>8 DEF NodeChanges
    <2>3. nodeEvents' \in Seq(NodeEventType)
        BY <2>1, <2>2, ReportsType
    <2> QED BY <1>8, <2>3 DEF NodeChanges, Changes, CETypeOK
<1>9. ASSUME NEW p \in Pods, NEW n \in Nodes, PodScheduled(p, n)
      PROVE  CETypeOK'
    BY <1>9 DEF PodScheduled, Becomes, Changes, CETypeOK
<1>10. ASSUME NEW p \in Pods, NEW from \in {"pending", "running"},
              NEW to \in {"running", "terminating", "failed"}, PodMoves(p, from, to)
       PROVE  CETypeOK'
    <2>1. pod[p] \in [node : Nodes, phase : {"pending", "running", "terminating", "failed"}]
        BY <1>10 DEF PodMoves, CETypeOK, NoPod
    <2>2. /\ [pod[p] EXCEPT !.phase = to]
               \in [node : Nodes, phase : {"pending", "running", "terminating", "failed"}]
          /\ pod' = [pod EXCEPT ![p] = [pod[p] EXCEPT !.phase = to]]
        BY <1>10, <2>1 DEF PodMoves, Becomes
    <2>3. pod'[p] = [pod[p] EXCEPT !.phase = to]
        BY <2>2 DEF CETypeOK
    <2>4. EmitPodEvent(p, pod'[p]) \in PodEventType
        BY <2>2, <2>3, EmitType
    <2>5. podEvents' \in Seq(PodEventType)
        BY <1>10, <2>4, PodEventsStep DEF PodMoves
    <2> QED BY <1>10, <2>2, <2>5 DEF PodMoves, Becomes, Changes, CETypeOK
<1>11. ASSUME NEW p \in Pods, PodGone(p)
       PROVE  CETypeOK'
    <2>1. PodEvent("PodTerminated", p[1], pod[p].node) \in PodEventType
        BY <1>11, PodType DEF PodGone, PodEvent, PodEventType
    <2>2. podEvents' \in Seq(PodEventType)
        BY <1>11, <2>1, PodEventsStep DEF PodGone
    <2> QED BY <1>11, <2>2 DEF PodGone, Pods, Becomes, Changes, CETypeOK
<1>12. CASE Resync
    BY <1>12, EmitAllType DEF Resync, CETypeOK
<1>13. CASE ApplyNodeEvent
    BY <1>13 DEF ApplyNodeEvent, CETypeOK
<1>14. CASE ApplyPodEvent
    BY <1>14 DEF ApplyPodEvent, CETypeOK
<1>15. CASE UNCHANGED ceVars
    BY <1>15 DEF ceVars, CETypeOK
<1> QED BY <1>1, <1>2, <1>3, <1>4, <1>5, <1>6, <1>7, <1>8, <1>9, <1>10, <1>11, <1>12, <1>13, <1>14,
           <1>15 DEF CENext, Startup, Informer

(* Types of what is known of the clusters and of what is on its way.       *)
THEOREM CETypeOKHolds == CESpec => []CETypeOK
<1>1. CEInit => CETypeOK
    BY CETypesInit
<1>2. CETypeOK /\ [CENext]_ceVars => CETypeOK'
    BY CETypesStep
<1> QED BY <1>1, <1>2, PTL DEF CESpec

-----------------------------------------------------------------------------
(* ClusterEvents drives WorldState: each of its steps is one of the world  *)
(* state's or leaves it alone.                                             *)

LEMMA WorldStep ==
    ASSUME CETypeOK, [CENext]_ceVars
    PROVE  [Next]_vars
<1>1. CASE SeedClusters
    <2>1. CASE UNCHANGED vars
        BY <2>1
    <2>2. ASSUME NEW c \in Clusters,
                 UpsertCluster(c, {n \in nodeList : ClusterOf[n] = c})
          PROVE  Next
        <3>1. {n \in nodeList : ClusterOf[n] = c} \in SUBSET {n \in Nodes : ClusterOf[n] = c}
            BY DEF CETypeOK
        <3> QED BY <2>2, <3>1 DEF Next
    <2> QED BY <1>1, <2>1, <2>2 DEF SeedClusters
<1>2. CASE SeedReplicas
    <2>1. CASE UNCHANGED vars
        BY <2>1
    <2>2. ASSUME NEW s \in podList, UpsertReplica(s.replica, s.node, s.status)
          PROVE  Next
        <3>1. s.replica \in Replicas /\ s.node \in Nodes /\ s.status \in Statuses
            BY DEF CETypeOK
        <3> QED BY <2>2, <3>1 DEF Next
    <2> QED BY <1>2, <2>1, <2>2 DEF SeedReplicas
<1>3. CASE ApplyNodeEvent
    <2>1. Head(nodeEvents).node \in Nodes
        <3>1. nodeEvents \in Seq(NodeEventType) /\ nodeEvents # <<>>
            BY <1>3 DEF ApplyNodeEvent, CETypeOK
        <3>2. Head(nodeEvents) \in NodeEventType
            BY <3>1, RangeOfTail
        <3> QED BY <3>2 DEF NodeEventType
    <2>2. \/ UpsertNode(Head(nodeEvents).node)
          \/ RemoveNode(Head(nodeEvents).node)
          \/ UNCHANGED vars
        BY <1>3 DEF ApplyNodeEvent
    <2> QED BY <2>1, <2>2 DEF Next
<1>4. CASE ApplyPodEvent
    <2> DEFINE e == Head(podEvents)
    <2>1. e.replica \in Replicas /\ e.node \in Nodes /\ "Running" \in Statuses
        <3>1. podEvents \in Seq(PodEventType) /\ podEvents # <<>>
            BY <1>4 DEF ApplyPodEvent, CETypeOK
        <3>2. e \in PodEventType
            BY <3>1, RangeOfTail
        <3> QED BY <3>2 DEF PodEventType, Statuses
    <2>2. \/ UpsertReplica(e.replica, e.node, "Running")
          \/ DeleteReplica(e.replica)
          \/ UNCHANGED vars
        BY <1>4 DEF ApplyPodEvent
    <2> QED BY <2>1, <2>2 DEF Next
<1>5. CASE \/ ListNodes \/ ListPods \/ SyncFails \/ Informer \/ Resync
           \/ \E n \in Nodes, st \in {"absent", "notReady", "ready"} : NodeChanges(n, st)
           \/ \E p \in Pods, n \in Nodes : PodScheduled(p, n)
           \/ \E p \in Pods : \/ PodMoves(p, "pending", "running")
                              \/ PodMoves(p, "running", "terminating")
                              \/ PodMoves(p, "running", "failed")
                              \/ PodGone(p)
           \/ UNCHANGED ceVars
    <2>1. UNCHANGED vars
        BY <1>5 DEF ListNodes, ListPods, SyncFails, Informer, StartNodeInformer, StartPodInformer,
                    Resync, NodeChanges, PodScheduled, PodMoves, PodGone, Becomes, ceVars
    <2> QED BY <2>1
<1> QED BY <1>1, <1>2, <1>3, <1>4, <1>5 DEF CENext, Startup

(* What the informers and the start of main do to the world state is what  *)
(* WorldState lets its callers do, so its theorems hold of it here too.    *)
THEOREM ClusterEventsDriveWorldStateHolds == CESpec => Spec
<1>1. CEInit => Init
    BY DEF CEInit
<1>2. CETypeOK /\ [CENext]_ceVars => [Next]_vars
    BY WorldStep
<1> QED BY <1>1, <1>2, CETypeOKHolds, PTL DEF CESpec, Spec

-----------------------------------------------------------------------------
(* No ghosts: what is tracked without a pod is about to be forgotten.      *)

IsEvent(e, kind, r) == e.kind = kind /\ e.replica = r

(* The termination of r is on its way in q ...                             *)
Ends(r, q) == \E j \in DOMAIN q : IsEvent(q[j], "PodTerminated", r)

(* ... and nothing in q brings r back for good.                            *)
Settled(r, q) ==
    \A i \in DOMAIN q : IsEvent(q[i], "PodRunning", r) =>
        \E j \in DOMAIN q : j > i /\ IsEvent(q[j], "PodTerminated", r)

Listing == startup \in {"listNodes", "listPods"}

(* A replica without a pod that the informers cannot have missed.          *)
Departed(r) == PodsOf(r) = {} /\ r \notin missed

Forgotten(r) ==
    IF "pods" \in informers
    THEN Settled(r, podEvents) /\ (r \in Tracked => Ends(r, podEvents))
    ELSE Listing \/ (r \notin Tracked /\ \A s \in podList : s.replica # r)

NoGhostsInv ==
    /\ "pods" \notin informers => podEvents = <<>>
    /\ "pods" \in informers => startup = "watching"
    /\ startup = "watching" => podList = {}
    /\ Listing => Tracked = {} /\ podList = {}
    /\ \A r \in Replicas : Departed(r) => Forgotten(r)

LEMMA EventAdded ==
    ASSUME NEW q \in Seq(PodEventType), NEW e \in PodEventType, NEW r,
           Settled(r, q), ~IsEvent(e, "PodRunning", r)
    PROVE  Settled(r, q \o <<e>>) /\ (Ends(r, q) => Ends(r, q \o <<e>>))
<1>1. /\ Len(q) \in Nat /\ DOMAIN q = 1 .. Len(q) /\ DOMAIN (q \o <<e>>) = 1 .. Len(q) + 1
      /\ \A i \in 1 .. Len(q) : (q \o <<e>>)[i] = q[i]
      /\ (q \o <<e>>)[Len(q) + 1] = e
    OBVIOUS
<1>2. Ends(r, q) => Ends(r, q \o <<e>>)
    BY <1>1 DEF Ends
<1>3. Settled(r, q \o <<e>>)
    BY <1>1 DEF Settled
<1> QED BY <1>2, <1>3

LEMMA EndAdded ==
    ASSUME NEW q \in Seq(PodEventType), NEW e \in PodEventType, NEW r,
           IsEvent(e, "PodTerminated", r)
    PROVE  Settled(r, q \o <<e>>) /\ Ends(r, q \o <<e>>)
<1>1. /\ Len(q) \in Nat /\ DOMAIN (q \o <<e>>) = 1 .. Len(q) + 1
      /\ (q \o <<e>>)[Len(q) + 1] = e
    OBVIOUS
<1>2. Ends(r, q \o <<e>>)
    BY <1>1 DEF Ends
<1>3. ~IsEvent(e, "PodRunning", r)
    BY DEF IsEvent
<1>4. Settled(r, q \o <<e>>)
    BY <1>1, <1>3 DEF Settled
<1> QED BY <1>2, <1>4

LEMMA EventTaken ==
    ASSUME NEW q \in Seq(PodEventType), q # <<>>, NEW r, Settled(r, q)
    PROVE  /\ Settled(r, Tail(q))
           /\ IsEvent(Head(q), "PodRunning", r) => Ends(r, Tail(q))
           /\ Ends(r, q) => IsEvent(Head(q), "PodTerminated", r) \/ Ends(r, Tail(q))
<1> DEFINE t == Tail(q)
<1>1. /\ Len(q) \in Nat /\ Len(q) > 0 /\ DOMAIN q = 1 .. Len(q)
      /\ DOMAIN t = 1 .. Len(q) - 1
      /\ \A i \in 1 .. Len(q) - 1 : t[i] = q[i + 1]
      /\ Head(q) = q[1]
    OBVIOUS
<1> HIDE DEF t
<1>2. ASSUME NEW j \in DOMAIN q, j > 1, IsEvent(q[j], "PodTerminated", r)
      PROVE  j - 1 \in DOMAIN t /\ IsEvent(t[j - 1], "PodTerminated", r)
    <2>1. j - 1 \in 1 .. Len(q) - 1 /\ t[j - 1] = q[(j - 1) + 1] /\ (j - 1) + 1 = j
        BY <1>1, <1>2
    <2> QED BY <1>1, <1>2, <2>1
<1>3. ASSUME NEW i \in DOMAIN t, IsEvent(t[i], "PodRunning", r)
      PROVE  \E j \in DOMAIN t : j > i /\ IsEvent(t[j], "PodTerminated", r)
    <2>1. i \in 1 .. Len(q) - 1 /\ i + 1 \in DOMAIN q /\ IsEvent(q[i + 1], "PodRunning", r)
        BY <1>1, <1>3
    <2>2. PICK j \in DOMAIN q : j > i + 1 /\ IsEvent(q[j], "PodTerminated", r)
        BY <2>1 DEF Settled
    <2>3. j \in Nat /\ j > 1 /\ j - 1 > i
        BY <1>1, <2>1, <2>2
    <2> QED BY <1>2, <2>2, <2>3
<1>4. ASSUME IsEvent(Head(q), "PodRunning", r)
      PROVE  Ends(r, t)
    <2>1. PICK j \in DOMAIN q : j > 1 /\ IsEvent(q[j], "PodTerminated", r)
        BY <1>1, <1>4 DEF Settled
    <2> QED BY <1>2, <2>1 DEF Ends
<1>5. ASSUME Ends(r, q), ~IsEvent(Head(q), "PodTerminated", r)
      PROVE  Ends(r, t)
    <2>1. PICK j \in DOMAIN q : IsEvent(q[j], "PodTerminated", r)
        BY <1>5 DEF Ends
    <2>2. j # 1
        BY <1>1, <1>5, <2>1
    <2>3. j > 1
        BY <1>1, <2>2
    <2> QED BY <1>2, <2>1, <2>3 DEF Ends
<1> QED BY <1>3, <1>4, <1>5 DEF t, Settled

(* What the pod informer lists brings nobody back that has no pod.         *)
LEMMA ListSettled ==
    ASSUME CETypeOK, NEW es \in EmitAll, NEW r, PodsOf(r) = {}
    PROVE  Settled(r, es)
BY EmitAllType DEF Settled, IsEvent

(* A pod changes: the other replicas keep their pods.                      *)
LEMMA OtherPods ==
    ASSUME CETypeOK, NEW p \in Pods, NEW st, pod' = [pod EXCEPT ![p] = st]
    PROVE  /\ \A r : r # p[1] => PodsOf(r)' = PodsOf(r)
           /\ st # NoPod => p \in PodsOf(p[1])'
<1>1. pod'[p] = st /\ \A q \in Pods : q # p => pod'[q] = pod[q]
    BY DEF CETypeOK
<1> QED BY <1>1 DEF PodsOf, Existing

(* A replica is tracked, or forgotten: the others are tracked as before.   *)
LEMMA TrackedStep ==
    ASSUME TypeOK, NEW r \in Replicas
    PROVE  /\ \A n \in Nodes : \A st : UpsertReplica(r, n, st) => Tracked' = Tracked \cup {r}
           /\ DeleteReplica(r) => Tracked' = Tracked \ {r}
           /\ UNCHANGED vars => Tracked' = Tracked
<1>1. where \in [Replicas -> Nodes \cup {NoNode}] /\ NoNode \notin Nodes
    BY WorldAssumption DEF TypeOK
<1>2. ASSUME NEW n \in Nodes, NEW st, UpsertReplica(r, n, st)
      PROVE  Tracked' = Tracked \cup {r}
    BY <1>1, <1>2 DEF UpsertReplica, Tracked
<1>3. DeleteReplica(r) => Tracked' = Tracked \ {r}
    BY <1>1 DEF DeleteReplica, Tracked
<1>4. UNCHANGED vars => Tracked' = Tracked
    BY DEF vars, replicaVars, Tracked
<1> QED BY <1>2, <1>3, <1>4

LEMMA NoGhostsInit == CEInit => NoGhostsInv
BY DEF CEInit, Init, NoGhostsInv, Listing, Forgotten, Tracked

(* A step that neither pods nor the world state take part in.              *)
LEMMA QuietStep ==
    ASSUME NoGhostsInv, Tracked' = Tracked, UNCHANGED <<pod, missed, podEvents, podList>>,
           startup' = startup, ("pods" \in informers') <=> ("pods" \in informers)
    PROVE  NoGhostsInv'
BY DEF NoGhostsInv, Listing, Departed, Forgotten, PodsOf, Existing

LEMMA StartNoGhosts ==
    ASSUME TypeOK, CETypeOK, NoGhostsInv, Startup
    PROVE  NoGhostsInv'
<1> USE DEF clusterVars, channelVars
<1>0. UNCHANGED <<pod, missed, podEvents, informers>> \/ SyncFails
    BY DEF Startup, ListNodes, ListPods, SeedClusters, SeedReplicas
<1>1. CASE ListNodes
    <2>1. Tracked' = Tracked /\ Tracked = {} /\ podList' = {} /\ Listing' /\ startup' = "listPods"
        BY <1>1, TrackedStep DEF ListNodes, NoGhostsInv, Listing, vars, replicaVars, Tracked
    <2>2. "pods" \notin informers' /\ podEvents' = <<>>
        BY <1>1 DEF ListNodes, NoGhostsInv
    <2> QED BY <2>1, <2>2 DEF NoGhostsInv, Forgotten
<1>2. CASE ListPods
    <2>1. Tracked' = {} /\ startup' = "seedClusters"
        BY <1>2 DEF ListPods, NoGhostsInv, Listing, vars, replicaVars, Tracked
    <2>2. "pods" \notin informers' /\ podEvents' = <<>> /\ ~Listing'
        BY <1>2 DEF ListPods, NoGhostsInv, Listing
    <2>3. ASSUME NEW r \in Replicas, Departed(r)', NEW s \in podList'
          PROVE  s.replica # r
        BY <1>2, <2>3 DEF ListPods, Departed, PodsOf, Existing
    <2> QED BY <2>1, <2>2, <2>3 DEF NoGhostsInv, Forgotten
<1>3. CASE SyncFails
    <2>1. Tracked' = {} /\ podList' = {} /\ startup' = "watching"
        BY <1>3 DEF SyncFails, NoGhostsInv, Listing, vars, replicaVars, Tracked
    <2>2. "pods" \notin informers' /\ podEvents' = <<>> /\ ~Listing'
        BY <1>3 DEF SyncFails, NoGhostsInv, Listing
    <2> QED BY <2>1, <2>2 DEF NoGhostsInv, Forgotten
<1>4. CASE SeedClusters
    <2>1. /\ Tracked' = Tracked /\ podList' = podList /\ ~Listing /\ ~Listing'
          /\ startup = "seedClusters" /\ startup' \in {"seedClusters", "seedReplicas"}
        BY <1>4 DEF SeedClusters, UpsertCluster, Listing, vars, replicaVars, Tracked
    <2> QED BY <1>0, <1>4, <2>1
            DEF SyncFails, SeedClusters, NoGhostsInv, Departed, Forgotten, PodsOf, Existing
<1>5. CASE SeedReplicas
    <2>1. /\ ~Listing /\ ~Listing' /\ "pods" \notin informers' /\ podEvents' = <<>>
          /\ UNCHANGED <<pod, missed, informers>>
        BY <1>5 DEF SeedReplicas, NoGhostsInv, Listing
    <2>2. ASSUME NEW r \in Replicas, Departed(r)'
          PROVE  r \notin Tracked /\ \A s \in podList : s.replica # r
        BY <2>1, <2>2, <1>5
           DEF SeedReplicas, NoGhostsInv, Departed, Forgotten, PodsOf, Existing
    <2>3. ASSUME NEW s \in podList, UpsertReplica(s.replica, s.node, s.status),
                 podList' = podList \ {s}, startup' = startup
          PROVE  NoGhostsInv'
        <3>1. s.replica \in Replicas /\ s.node \in Nodes
            BY DEF CETypeOK
        <3>2. Tracked' = Tracked \cup {s.replica}
            BY <2>3, <3>1, TrackedStep
        <3>3. startup' = "seedReplicas"
            BY <1>5, <2>3 DEF SeedReplicas
        <3> QED BY <2>1, <2>2, <2>3, <3>2, <3>3 DEF NoGhostsInv, Forgotten
    <2>4. ASSUME podList = {}, podList' = podList, UNCHANGED vars, startup' = "watching"
          PROVE  NoGhostsInv'
        <3>1. Tracked' = Tracked
            BY <2>4 DEF vars, replicaVars, Tracked
        <3> QED BY <2>1, <2>2, <2>4, <3>1 DEF NoGhostsInv, Forgotten
    <2> QED BY <1>5, <2>3, <2>4 DEF SeedReplicas
<1> QED BY <1>1, <1>2, <1>3, <1>4, <1>5 DEF Startup

LEMMA ListNoGhosts ==
    ASSUME TypeOK, CETypeOK, NoGhostsInv, StartPodInformer \/ Resync
    PROVE  NoGhostsInv'
<1>1. /\ Tracked' = Tracked /\ podEvents' \in EmitAll /\ "pods" \in informers'
      /\ UNCHANGED <<startup, podList, pod, missed>>
    BY DEF StartPodInformer, Resync, clusterVars, startVars, vars, replicaVars, Tracked
<1>2. startup = "watching" /\ podEvents = <<>>
    BY DEF StartPodInformer, Resync, NoGhostsInv
<1>3. ASSUME NEW r \in Replicas, Departed(r)'
      PROVE  Settled(r, podEvents') /\ r \notin Tracked'
    <2>1. Departed(r) /\ PodsOf(r) = {}
        BY <1>1, <1>3 DEF Departed, PodsOf, Existing
    <2>2. r \notin Tracked
        <3>1. Forgotten(r) /\ ~Listing
            BY <1>2, <2>1 DEF NoGhostsInv, Listing
        <3>2. ~Ends(r, podEvents)
            BY <1>2 DEF Ends
        <3> QED BY <3>1, <3>2 DEF Forgotten
    <2> QED BY <1>1, <2>1, <2>2, ListSettled
<1> QED BY <1>1, <1>2, <1>3 DEF NoGhostsInv, Listing, Forgotten

(* A pod changes, and the pod informer sees it if it watches.              *)
LEMMA PodNoGhosts ==
    ASSUME CETypeOK, NoGhostsInv, NEW p \in Pods,
           \/ \E n \in Nodes : PodScheduled(p, n)
           \/ PodMoves(p, "pending", "running")
           \/ PodMoves(p, "running", "terminating")
           \/ PodMoves(p, "running", "failed")
           \/ PodGone(p)
    PROVE  NoGhostsInv'
<1>1. /\ UNCHANGED <<startup, informers, podList>> /\ Tracked' = Tracked
      /\ Listing' = Listing
    BY DEF PodScheduled, PodMoves, PodGone, Becomes, startVars, vars, replicaVars, Tracked, Listing
<1>2. podEvents \in Seq(PodEventType)
    BY DEF CETypeOK
(* A step after which the pod is there, whatever the informer reports.     *)
<1>3. ASSUME NEW st, st # NoPod, pod' = [pod EXCEPT ![p] = st], UNCHANGED missed,
             NEW e \in PodEventType, e.replica = p[1],
             podEvents' = Reports("pods", podEvents, <<e>>) \/ podEvents' = podEvents
      PROVE  NoGhostsInv'
    <2>1. PodsOf(p[1])' # {} /\ \A r : r # p[1] => PodsOf(r)' = PodsOf(r)
        BY <1>3, OtherPods
    <2>2. "pods" \notin informers' => podEvents' = <<>>
        BY <1>1, <1>3 DEF Reports, NoGhostsInv
    <2>3. ASSUME NEW r \in Replicas, Departed(r)'
          PROVE  Forgotten(r)'
        <3>1. r # p[1] /\ Departed(r) /\ Forgotten(r)
            BY <1>3, <2>1, <2>3 DEF Departed, NoGhostsInv
        <3>2. ~IsEvent(e, "PodRunning", r)
            BY <1>3, <3>1 DEF IsEvent
        <3>3. CASE "pods" \in informers
            <4>1. Settled(r, podEvents) /\ (r \in Tracked => Ends(r, podEvents))
                BY <3>1, <3>3 DEF Forgotten
            <4>2. podEvents' = podEvents \o <<e>> \/ podEvents' = podEvents
                BY <1>3, <3>3 DEF Reports
            <4>3. Settled(r, podEvents') /\ (r \in Tracked => Ends(r, podEvents'))
                BY <1>2, <3>2, <4>1, <4>2, EventAdded
            <4> QED BY <1>1, <3>3, <4>3 DEF Forgotten
        <3>4. CASE "pods" \notin informers
            BY <1>1, <3>1, <3>4 DEF Forgotten
        <3> QED BY <3>3, <3>4
    <2> QED BY <1>1, <2>2, <2>3 DEF NoGhostsInv
<1>4. ASSUME NEW n \in Nodes, PodScheduled(p, n)
      PROVE  NoGhostsInv'
    <2> DEFINE st == [node |-> n, phase |-> "pending"]
               e  == PodEvent("PodRunning", p[1], n)
    <2>1. /\ st # NoPod /\ pod' = [pod EXCEPT ![p] = st]
          /\ UNCHANGED missed /\ podEvents' = podEvents
        BY <1>4 DEF PodScheduled, Becomes, NoPod
    <2>2. e \in PodEventType /\ e.replica = p[1]
        BY DEF PodEvent, PodEventType, Pods
    <2> HIDE DEF st, e
    <2> QED BY <1>3, <2>1, <2>2
<1>5. ASSUME NEW from \in {"pending", "running"}, NEW to \in {"running", "terminating", "failed"},
             PodMoves(p, from, to)
      PROVE  NoGhostsInv'
    <2> DEFINE st == [pod[p] EXCEPT !.phase = to]
               e  == EmitPodEvent(p, pod'[p])
    <2>1. pod[p] \in [node : Nodes, phase : {"pending", "running", "terminating", "failed"}]
        BY <1>5 DEF PodMoves, CETypeOK, NoPod
    <2>2. /\ st \in [node : Nodes, phase : {"pending", "running", "terminating", "failed"}]
          /\ pod' = [pod EXCEPT ![p] = st] /\ UNCHANGED missed
          /\ podEvents' = Reports("pods", podEvents, <<e>>)
        BY <1>5, <2>1 DEF PodMoves, Becomes
    <2>3. pod'[p] = st /\ st # NoPod
        BY <2>2 DEF CETypeOK, NoPod
    <2>4. e \in PodEventType /\ e.replica = p[1]
        BY <2>2, <2>3, EmitType
    <2> HIDE DEF st, e
    <2> QED BY <1>3, <2>2, <2>3, <2>4
<1>6. CASE PodGone(p)
    <2> DEFINE e == PodEvent("PodTerminated", p[1], pod[p].node)
    <2>1. /\ p \in Existing /\ pod' = [pod EXCEPT ![p] = NoPod]
          /\ podEvents' = Reports("pods", podEvents, <<e>>)
          /\ missed' = IF ~Listing /\ "pods" \notin informers
                       THEN missed \cup {p[1]} ELSE missed
        BY <1>6 DEF PodGone, Becomes, Listing
    <2>2. e \in PodEventType /\ IsEvent(e, "PodTerminated", p[1])
        BY <2>1, PodType DEF PodEvent, PodEventType, IsEvent
    <2> HIDE DEF e
    <2>3. "pods" \notin informers' => podEvents' = <<>>
        BY <1>1, <2>1 DEF Reports, NoGhostsInv
    <2>4. ASSUME NEW r \in Replicas, Departed(r)'
          PROVE  Forgotten(r)'
        <3>1. CASE "pods" \in informers
            <4>1. podEvents' = podEvents \o <<e>>
                BY <2>1, <3>1 DEF Reports
            <4>2. CASE r = p[1]
                <5>1. Settled(r, podEvents') /\ Ends(r, podEvents')
                    BY <1>2, <2>2, <4>1, <4>2, EndAdded
                <5> QED BY <1>1, <3>1, <5>1 DEF Forgotten
            <4>3. CASE r # p[1]
                <5>1. Departed(r)
                    BY <2>1, <2>4, <3>1, <4>3, OtherPods DEF Departed
                <5>2. Settled(r, podEvents) /\ (r \in Tracked => Ends(r, podEvents))
                    BY <3>1, <5>1 DEF NoGhostsInv, Forgotten
                <5>3. ~IsEvent(e, "PodRunning", r)
                    BY <2>2 DEF IsEvent
                <5>4. Settled(r, podEvents') /\ (r \in Tracked => Ends(r, podEvents'))
                    BY <1>2, <2>2, <4>1, <5>2, <5>3, EventAdded
                <5> QED BY <1>1, <3>1, <5>4 DEF Forgotten
            <4> QED BY <4>2, <4>3
        <3>2. CASE "pods" \notin informers
            <4>1. CASE Listing
                BY <1>1, <3>2, <4>1 DEF Forgotten
            <4>2. CASE ~Listing
                <5>1. r # p[1] /\ r \notin missed
                    BY <2>1, <2>4, <3>2, <4>2 DEF Departed
                <5>2. Departed(r)
                    BY <2>1, <2>4, <5>1, OtherPods DEF Departed
                <5> QED BY <1>1, <3>2, <4>2, <5>2 DEF NoGhostsInv, Forgotten
            <4> QED BY <4>1, <4>2
        <3> QED BY <3>1, <3>2
    <2> QED BY <1>1, <2>3, <2>4 DEF NoGhostsInv
<1> QED BY <1>4, <1>5, <1>6

LEMMA ApplyNoGhosts ==
    ASSUME TypeOK, CETypeOK, NoGhostsInv, ApplyPodEvent
    PROVE  NoGhostsInv'
<1> DEFINE e == Head(podEvents)
<1>1. /\ podEvents # <<>> /\ podEvents' = Tail(podEvents)
      /\ UNCHANGED <<startup, informers, podList, pod, missed>>
    BY DEF ApplyPodEvent, startVars, clusterVars
<1>2. podEvents \in Seq(PodEventType) /\ "pods" \in informers
    BY <1>1 DEF CETypeOK, NoGhostsInv
<1>3. e \in PodEventType
    BY <1>1, <1>2, RangeOfTail
<1>4. /\ e.kind \in {"PodRunning", "PodTerminated"}
      /\ e.replica \in Replicas /\ e.node \in Nodes
    BY <1>3 DEF PodEventType
<1>5. \/ e.kind = "PodRunning" /\ UpsertReplica(e.replica, e.node, "Running")
      \/ e.kind = "PodTerminated" /\ e.replica \in Tracked /\ DeleteReplica(e.replica)
      \/ e.kind = "PodTerminated" /\ e.replica \notin Tracked /\ UNCHANGED vars
    BY <1>4 DEF ApplyPodEvent
<1> HIDE DEF e
<1>6. \/ e.kind = "PodRunning" /\ Tracked' = Tracked \cup {e.replica}
      \/ e.kind = "PodTerminated" /\ Tracked' = Tracked \ {e.replica}
    BY <1>4, <1>5, TrackedStep
<1>7. ASSUME NEW r \in Replicas, Departed(r)'
      PROVE  Settled(r, podEvents') /\ (r \in Tracked' => Ends(r, podEvents'))
    <2>1. Departed(r)
        BY <1>1, <1>7 DEF Departed, PodsOf, Existing
    <2>2. Settled(r, podEvents) /\ (r \in Tracked => Ends(r, podEvents))
        BY <1>2, <2>1 DEF NoGhostsInv, Forgotten
    <2>3. /\ Settled(r, podEvents')
          /\ IsEvent(e, "PodRunning", r) => Ends(r, podEvents')
          /\ Ends(r, podEvents) => IsEvent(e, "PodTerminated", r) \/ Ends(r, podEvents')
        BY <1>1, <1>2, <2>2, EventTaken DEF e
    <2>4. ASSUME r \in Tracked'
          PROVE  Ends(r, podEvents')
        <3>1. ~IsEvent(e, "PodTerminated", r)
            BY <1>6, <2>4 DEF IsEvent
        <3>2. r \in Tracked \/ IsEvent(e, "PodRunning", r)
            BY <1>6, <2>4 DEF IsEvent
        <3> QED BY <2>2, <2>3, <3>1, <3>2
    <2> QED BY <2>3, <2>4
<1>8. /\ "pods" \in informers' /\ startup' = "watching" /\ podList' = {} /\ ~Listing'
    BY <1>1, <1>2 DEF NoGhostsInv, Listing
<1> QED BY <1>7, <1>8 DEF NoGhostsInv, Forgotten

LEMMA NoGhostsStep ==
    ASSUME TypeOK, CETypeOK, NoGhostsInv, [CENext]_ceVars
    PROVE  NoGhostsInv'
<1>1. CASE StartNodeInformer
    <2>1. /\ UNCHANGED <<pod, missed, podEvents, podList, startup>> /\ Tracked' = Tracked
          /\ ("pods" \in informers') <=> ("pods" \in informers)
        BY <1>1 DEF StartNodeInformer, clusterVars, vars, replicaVars, Tracked
    <2> QED BY <2>1, QuietStep
<1>2. ASSUME NEW n \in Nodes, NEW st, NodeChanges(n, st)
      PROVE  NoGhostsInv'
    <2>1. UNCHANGED <<pod, missed, podEvents, podList, startup, informers>> /\ Tracked' = Tracked
        BY <1>2 DEF NodeChanges, startVars, vars, replicaVars, Tracked
    <2> QED BY <2>1, QuietStep
<1>3. CASE ApplyNodeEvent
    <2>1. UNCHANGED <<pod, missed, podEvents, podList, startup, informers>>
        BY <1>3 DEF ApplyNodeEvent, startVars, clusterVars
    <2>2. UNCHANGED replicaVars
        BY <1>3 DEF ApplyNodeEvent, UpsertNode, RemoveNode, vars
    <2>3. Tracked' = Tracked
        BY <2>2 DEF replicaVars, Tracked
    <2> QED BY <2>1, <2>3, QuietStep
<1>4. CASE UNCHANGED ceVars
    <2>1. UNCHANGED <<pod, missed, podEvents, podList, startup, informers>> /\ Tracked' = Tracked
        BY <1>4 DEF ceVars, startVars, clusterVars, channelVars, vars, replicaVars, Tracked
    <2> QED BY <2>1, QuietStep
<1> QED BY <1>1, <1>2, <1>3, <1>4, StartNoGhosts, ListNoGhosts, PodNoGhosts, ApplyNoGhosts
        DEF CENext, Informer

(* No replica without a pod stays tracked: the event of its termination is *)
(* on the way, and no event of it comes after that one.                    *)
THEOREM NoGhostsHolds == CESpec => []NoGhosts
<1>1. CEInit => NoGhostsInv
    BY NoGhostsInit
<1>2. TypeOK /\ CETypeOK /\ NoGhostsInv /\ [CENext]_ceVars => NoGhostsInv'
    BY NoGhostsStep
<1>3. NoGhostsInv => NoGhosts
    <2> SUFFICES ASSUME NoGhostsInv, "pods" \in informers, NEW r \in Tracked,
                        PodsOf(r) = {}, r \notin missed
                 PROVE  Ends(r, podEvents)
        BY DEF NoGhosts, Ends, IsEvent
    <2>1. r \in Replicas /\ Departed(r)
        BY DEF Tracked, Departed
    <2> QED BY <2>1 DEF NoGhostsInv, Forgotten
<1> QED BY <1>1, <1>2, <1>3, CETypeOKHolds, ClusterEventsDriveWorldStateHolds, TypeOKHolds, PTL
        DEF CESpec

-----------------------------------------------------------------------------
(* Ready nodes. *)

IsUp(e, n) == e.kind = "NodeUp" /\ e.node = n

(* The last event about n says that it is up. *)
Announced(n, q) ==
    \E i \in DOMAIN q : IsUp(q[i], n) /\ \A j \in DOMAIN q : j > i => q[j].node # n
NotInQueue(n, q) == \A i \in DOMAIN q : q[i].node # n

ReadyNodesAnnounced ==
    "nodes" \in informers => \A n \in Nodes : node[n] = "ready" =>
        Announced(n, nodeEvents) \/ (n \in nodes /\ NotInQueue(n, nodeEvents))

LEMMA NodeEventAdded ==
    ASSUME NEW q \in Seq(NodeEventType), NEW e \in NodeEventType, NEW n
    PROVE  /\ IsUp(e, n) => Announced(n, q \o <<e>>)
           /\ e.node # n => /\ Announced(n, q) => Announced(n, q \o <<e>>)
                            /\ NotInQueue(n, q) => NotInQueue(n, q \o <<e>>)
<1>1. /\ Len(q) \in Nat /\ DOMAIN q = 1 .. Len(q) /\ DOMAIN (q \o <<e>>) = 1 .. Len(q) + 1
      /\ \A i \in 1 .. Len(q) : (q \o <<e>>)[i] = q[i]
      /\ (q \o <<e>>)[Len(q) + 1] = e
    OBVIOUS
<1>2. ASSUME IsUp(e, n) PROVE Announced(n, q \o <<e>>)
    <2>1. \A j \in DOMAIN (q \o <<e>>) : ~(j > Len(q) + 1)
        BY <1>1
    <2> QED BY <1>1, <1>2, <2>1 DEF Announced
<1>3. \A j \in DOMAIN (q \o <<e>>) : (j \in DOMAIN q /\ (q \o <<e>>)[j] = q[j])
                                     \/ (q \o <<e>>)[j] = e
    BY <1>1
<1>4. \A i \in DOMAIN q : i \in DOMAIN (q \o <<e>>) /\ (q \o <<e>>)[i] = q[i]
    BY <1>1
<1>5. ASSUME e.node # n, Announced(n, q) PROVE Announced(n, q \o <<e>>)
    BY <1>3, <1>4, <1>5 DEF Announced
<1>6. ASSUME e.node # n, NotInQueue(n, q) PROVE NotInQueue(n, q \o <<e>>)
    BY <1>3, <1>6 DEF NotInQueue
<1> QED BY <1>2, <1>5, <1>6

LEMMA NodeEventTaken ==
    ASSUME NEW q \in Seq(NodeEventType), q # <<>>, NEW n
    PROVE  /\ Head(q) \in NodeEventType
           /\ Announced(n, q) => \/ Announced(n, Tail(q))
                                 \/ IsUp(Head(q), n) /\ NotInQueue(n, Tail(q))
           /\ NotInQueue(n, q) => Head(q).node # n /\ NotInQueue(n, Tail(q))
<1> DEFINE t == Tail(q)
<1>1. /\ Len(q) \in Nat /\ Len(q) > 0 /\ DOMAIN q = 1 .. Len(q)
      /\ DOMAIN t = 1 .. Len(q) - 1 /\ Head(q) = q[1] /\ q[1] \in NodeEventType
      /\ \A i \in 1 .. Len(q) - 1 : t[i] = q[i + 1]
    OBVIOUS
<1> HIDE DEF t
<1>2. \A i \in DOMAIN t : i + 1 \in DOMAIN q /\ t[i] = q[i + 1] /\ i + 1 > 1
    BY <1>1
<1>3. 1 \in DOMAIN q
    BY <1>1
<1>4. ASSUME NotInQueue(n, q) PROVE Head(q).node # n /\ NotInQueue(n, t)
    BY <1>1, <1>2, <1>3, <1>4 DEF NotInQueue
<1>5. ASSUME NEW i \in DOMAIN q, IsUp(q[i], n), \A j \in DOMAIN q : j > i => q[j].node # n
      PROVE  Announced(n, t) \/ (IsUp(Head(q), n) /\ NotInQueue(n, t))
    <2>1. CASE i = 1
        BY <1>1, <1>2, <1>5, <2>1 DEF NotInQueue
    <2>2. CASE i # 1
        <3>1. i - 1 \in DOMAIN t /\ t[i - 1] = q[i]
            BY <1>1, <2>2
        <3>2. \A j \in DOMAIN t : j > i - 1 => j + 1 > i
            BY <1>1
        <3>3. \A j \in DOMAIN t : j > i - 1 => t[j].node # n
            BY <1>2, <1>5, <3>2
        <3> QED BY <1>5, <3>1, <3>3 DEF Announced
    <2> QED BY <2>1, <2>2
<1> QED BY <1>1, <1>4, <1>5 DEF Announced, t

LEMMA ReadyNodesStep ==
    ASSUME TypeOK, CETypeOK, ReadyNodesAnnounced, [CENext]_ceVars
    PROVE  ReadyNodesAnnounced'
<1> USE DEF startVars, clusterVars, channelVars
<1>1. ASSUME UNCHANGED <<node, nodeEvents>>, ("nodes" \in informers') <=> ("nodes" \in informers),
             nodes \subseteq nodes'
      PROVE  ReadyNodesAnnounced'
    BY <1>1 DEF ReadyNodesAnnounced
<1>2. CASE Startup \/ StartPodInformer \/ Resync \/ ApplyPodEvent \/ UNCHANGED ceVars
           \/ \E p \in Pods :
                 \/ \E n \in Nodes : PodScheduled(p, n)
                 \/ PodMoves(p, "pending", "running") \/ PodMoves(p, "running", "terminating")
                 \/ PodMoves(p, "running", "failed") \/ PodGone(p)
    <2>1. UNCHANGED <<node, nodeEvents>> /\ (("nodes" \in informers') <=> ("nodes" \in informers))
        BY <1>2 DEF Startup, ListNodes, ListPods, SyncFails, SeedClusters, SeedReplicas,
                    StartPodInformer, Resync, ApplyPodEvent, ceVars, PodScheduled, PodMoves,
                    PodGone, Becomes
    <2>2. UNCHANGED nodes \/ SeedClusters
        BY <1>2 DEF Startup, ListNodes, ListPods, SyncFails, SeedReplicas,
                    StartPodInformer, Resync, ApplyPodEvent, ceVars, PodScheduled, PodMoves,
                    PodGone, Becomes, UpsertReplica, DeleteReplica, vars, nodeVars
    <2>3. nodes \subseteq nodes'
        BY <2>2 DEF SeedClusters, UpsertCluster, PutNodes, vars, nodeVars
    <2> QED BY <1>1, <2>1, <2>3
<1>3. CASE StartNodeInformer
    <2> SUFFICES ASSUME NEW n \in Nodes, node[n] = "ready"
                 PROVE  Announced(n, nodeEvents')
        BY <1>3 DEF StartNodeInformer, ReadyNodesAnnounced
    <2> DEFINE R == {m \in Nodes : node[m] = "ready"}
    <2>1. PICK ns \in Listings(R) : nodeEvents' = [i \in DOMAIN ns |-> NodeEvent("NodeUp", ns[i])]
        BY <1>3 DEF StartNodeInformer
    <2>2. n \in R
        OBVIOUS
    <2> HIDE DEF R
    <2>3. /\ \A i, j \in DOMAIN ns : ns[i] = ns[j] => i = j
          /\ \E i \in DOMAIN ns : ns[i] = n
        BY <2>2 DEF Listings, Bijection, Injection, Surjection, IsInjective
    <2>4. DOMAIN ns \subseteq Nat
        BY DEF Listings, Bijection, Injection
    <2>5. PICK i \in DOMAIN ns : ns[i] = n
        BY <2>3
    <2>6. \A j \in DOMAIN ns : j > i => ns[j] # n
        BY <2>3, <2>4, <2>5
    <2> QED BY <2>1, <2>5, <2>6 DEF Announced, IsUp, NodeEvent
<1>4. ASSUME NEW m \in Nodes, NEW st \in {"absent", "notReady", "ready"}, NodeChanges(m, st)
      PROVE  ReadyNodesAnnounced'
    <2> SUFFICES ASSUME "nodes" \in informers, NEW n \in Nodes, node'[n] = "ready"
                 PROVE  Announced(n, nodeEvents') \/ (n \in nodes' /\ NotInQueue(n, nodeEvents'))
        BY <1>4 DEF NodeChanges, ReadyNodesAnnounced
    <2>1. /\ node' = [node EXCEPT ![m] = st] /\ nodes' = nodes
          /\ \/ st # "ready" /\ nodeEvents' = nodeEvents \o <<NodeEvent("NodeDown", m)>>
             \/ st = "ready" /\ nodeEvents' = nodeEvents \o <<NodeEvent("NodeUp", m)>>
             \/ st # "ready" /\ nodeEvents' = nodeEvents \o <<>>
        BY <1>4 DEF NodeChanges, Reports, vars, nodeVars
    <2>2. nodeEvents \in Seq(NodeEventType) /\ nodeEvents \o <<>> = nodeEvents
        BY DEF CETypeOK
    <2>3. /\ NodeEvent("NodeDown", m) \in NodeEventType /\ NodeEvent("NodeDown", m).node = m
          /\ NodeEvent("NodeUp", m) \in NodeEventType /\ NodeEvent("NodeUp", m).node = m
          /\ IsUp(NodeEvent("NodeUp", m), m)
        BY DEF NodeEvent, NodeEventType, IsUp
    <2>4. CASE n = m
        <3>1. st = "ready"
            BY <2>1, <2>4 DEF CETypeOK
        <3> QED BY <2>1, <2>2, <2>3, <2>4, <3>1, NodeEventAdded
    <2>5. CASE n # m
        <3>1. node[n] = "ready"
            BY <2>1, <2>5 DEF CETypeOK
        <3>2. Announced(n, nodeEvents) \/ (n \in nodes /\ NotInQueue(n, nodeEvents))
            BY <3>1 DEF ReadyNodesAnnounced
        <3> QED BY <2>1, <2>2, <2>3, <2>5, <3>2, NodeEventAdded
    <2> QED BY <2>4, <2>5
<1>5. CASE ApplyNodeEvent
    <2> DEFINE e == Head(nodeEvents)
    <2>1. /\ nodeEvents # <<>> /\ nodeEvents' = Tail(nodeEvents)
          /\ UNCHANGED <<node, informers>>
          /\ e.kind = "NodeUp" => nodes' = nodes \cup {e.node}
          /\ nodes \ {e.node} \subseteq nodes'
        BY <1>5 DEF ApplyNodeEvent, UpsertNode, PutNodes, RemoveNode, vars, nodeVars
    <2>2. nodeEvents \in Seq(NodeEventType)
        BY DEF CETypeOK
    <2> SUFFICES ASSUME "nodes" \in informers, NEW n \in Nodes, node[n] = "ready"
                 PROVE  Announced(n, nodeEvents') \/ (n \in nodes' /\ NotInQueue(n, nodeEvents'))
        BY <2>1 DEF ReadyNodesAnnounced
    <2>3. Announced(n, nodeEvents) \/ (n \in nodes /\ NotInQueue(n, nodeEvents))
        BY DEF ReadyNodesAnnounced
    <2>4. /\ Announced(n, nodeEvents) => \/ Announced(n, nodeEvents')
                                         \/ IsUp(e, n) /\ NotInQueue(n, nodeEvents')
          /\ NotInQueue(n, nodeEvents) => e.node # n /\ NotInQueue(n, nodeEvents')
        BY <2>1, <2>2, NodeEventTaken
    <2>5. IsUp(e, n) => n \in nodes'
        BY <2>1 DEF IsUp
    <2>6. n \in nodes /\ e.node # n => n \in nodes'
        BY <2>1
    <2> HIDE DEF e
    <2> QED BY <2>3, <2>4, <2>5, <2>6
<1> QED BY <1>2, <1>3, <1>4, <1>5 DEF CENext, Informer

(* The safety half of ReadyNodesKnown: from the moment the node informer   *)
(* watches, a ready node is known to the world state, or the last of the   *)
(* events on the way says that it is up, however often nodes come and go   *)
(* and whatever the full sync saw of them.                                 *)
THEOREM ReadyNodesAnnouncedHolds == CESpec => []ReadyNodesAnnounced
<1>1. CEInit => ReadyNodesAnnounced
    BY DEF CEInit, ReadyNodesAnnounced
<1>2. TypeOK /\ CETypeOK /\ ReadyNodesAnnounced /\ [CENext]_ceVars => ReadyNodesAnnounced'
    BY ReadyNodesStep
<1> QED BY <1>1, <1>2, CETypeOKHolds, ClusterEventsDriveWorldStateHolds, TypeOKHolds, PTL
        DEF CESpec

=============================================================================
