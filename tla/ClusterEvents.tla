--------------------------- MODULE ClusterEvents ---------------------------
(***************************************************************************)
(* internal/k8saggregator and the start of cmd/schedulator: how the world  *)
(* state gets to know the clusters.  At start-up a full sync lists nodes   *)
(* and pods and main seeds the world state with them; then a node and a    *)
(* pod informer list them again and report every change, each in its own   *)
(* order, and every 30 seconds once more what they know.  The control loop *)
(* applies the events to WorldState.                                       *)
(*                                                                         *)
(* Kubernetes is external.  A replica is a Deployment of one pod; all its  *)
(* pods carry its replica id, and a new one comes up beside one that is    *)
(* still terminating, or that failed and was not collected yet.            *)
(***************************************************************************)
EXTENDS WorldState, Sequences

CONSTANTS
    Incarnations,   \* the pods of r are <<r, i>>, i in Incarnations
    MaxChanges      \* how often the clusters change or do not answer

VARIABLES
    startup,        \* where main is: "listNodes" ... "watching"
    informers,      \* the informers that have listed and watch: "nodes", "pods"
    nodeList,       \* what the full sync found: nodes and ...
    podList,        \* ... pods that are not in the world state yet
    node,           \* node[n]: "absent", "notReady" or "ready"
    pod,            \* pod[p]: its node and phase, or NoPod
    nodeEvents,     \* events of the node informer on their way ...
    podEvents,      \* ... and those of the pod informer
    changes,        \* how often they have done so
    missed          \* replicas that lost a pod between the two listings

startVars   == <<startup, informers, nodeList, podList>>
clusterVars == <<node, pod, changes, missed>>
channelVars == <<nodeEvents, podEvents>>
ceVars == <<vars, startVars, clusterVars, channelVars>>

ASSUME ClusterEventsAssumption == IsFiniteSet(Nodes) /\ IsFiniteSet(Incarnations)

Pods == Replicas \X Incarnations
NoPod == [node |-> NoNode, phase |-> "none"]
Existing == {p \in Pods : pod[p] # NoPod}
PodsOf(r) == {p \in Existing : p[1] = r}

(* A terminating pod still has the phase Running. *)
IsRunning(p) == pod[p].phase \in {"running", "terminating"}

NodeEvent(kind, n) == [kind |-> kind, node |-> n]
PodEvent(kind, r, n) == [kind |-> kind, replica |-> r, node |-> n]

(* emitPodEvent, of a pod that is not pending: a pending one has no event. *)
EmitPodEvent(p, st) ==
    PodEvent(IF st.phase = "failed" THEN "PodTerminated" ELSE "PodRunning", p[1], st.node)

(* Every change, and every failure, counts. *)
Changes == changes < MaxChanges /\ changes' = changes + 1

(* A set as an informer lists it: its elements in some order. *)
Listings(S) == Bijection(1 .. Cardinality(S), S)

(* What the pod informer reports when it lists, or looks at, every pod it  *)
(* knows, in some order.                                                   *)
EmitAll ==
    {[i \in DOMAIN ps |-> EmitPodEvent(ps[i], pod[ps[i]])] :
        ps \in Listings({p \in Existing : pod[p].phase # "pending"})}

CEInit ==
    /\ Init
    /\ startup = "listNodes" /\ informers = {}
    /\ nodeList = {} /\ podList = {}
    /\ node = [n \in Nodes |-> "ready"]
    /\ pod \in [Pods -> {NoPod} \cup [node : Nodes, phase : {"running"}]]
    /\ \A r \in Replicas : Cardinality(PodsOf(r)) <= 1
    /\ nodeEvents = <<>> /\ podEvents = <<>>
    /\ changes = 0 /\ missed = {}

-----------------------------------------------------------------------------
(* Start-up. *)

(* syncCluster lists the nodes, ready or not ... *)
ListNodes ==
    /\ startup = "listNodes"
    /\ nodeList' = {n \in Nodes : node[n] # "absent"}
    /\ startup' = "listPods"
    /\ UNCHANGED <<vars, informers, podList, clusterVars, channelVars>>

(* ... and then the pods, of which those without a node are left out. *)
ListPods ==
    /\ startup = "listPods"
    /\ podList' = {[replica |-> p[1], node |-> pod[p].node,
                    status |-> IF IsRunning(p) THEN "Running" ELSE "Pending"] : p \in Existing}
    /\ startup' = "seedClusters"
    /\ UNCHANGED <<vars, informers, nodeList, clusterVars, channelVars>>

(* A list fails, and main starts with an empty world state. *)
SyncFails ==
    /\ startup \in {"listNodes", "listPods"}
    /\ startup' = "watching"
    /\ Changes
    /\ UNCHANGED <<vars, informers, nodeList, podList, node, pod, missed, channelVars>>

SeedClusters ==
    /\ startup = "seedClusters"
    /\ \/ \E c \in Clusters \ known :
            /\ UpsertCluster(c, {n \in nodeList : ClusterOf[n] = c})
            /\ UNCHANGED startup
       \/ /\ known = Clusters
          /\ startup' = "seedReplicas"
          /\ UNCHANGED vars
    /\ UNCHANGED <<informers, nodeList, podList, clusterVars, channelVars>>

SeedReplicas ==
    /\ startup = "seedReplicas"
    /\ \/ \E s \in podList :
            /\ UpsertReplica(s.replica, s.node, s.status)
            /\ podList' = podList \ {s}
            /\ UNCHANGED startup
       \/ /\ podList = {}
          /\ startup' = "watching"
          /\ UNCHANGED <<vars, podList>>
    /\ UNCHANGED <<informers, nodeList, clusterVars, channelVars>>

(* Slip: what the informer lists at first is not reported. *)
StartNodeInformer_silently ==
    /\ startup = "watching" /\ "nodes" \notin informers
    /\ informers' = informers \cup {"nodes"}
    /\ UNCHANGED <<vars, startup, nodeList, podList, clusterVars, channelVars>>

(* Each informer lists what there is when it gets to it, and reports it.   *)
StartNodeInformer ==
    /\ startup = "watching" /\ "nodes" \notin informers
    /\ informers' = informers \cup {"nodes"}
    /\ \E ns \in Listings({n \in Nodes : node[n] = "ready"}) :
            nodeEvents' = [i \in DOMAIN ns |-> NodeEvent("NodeUp", ns[i])]
    /\ UNCHANGED <<vars, startup, nodeList, podList, clusterVars, podEvents>>

StartPodInformer ==
    /\ startup = "watching" /\ "pods" \notin informers
    /\ informers' = informers \cup {"pods"}
    /\ podEvents' \in EmitAll
    /\ UNCHANGED <<vars, startup, nodeList, podList, clusterVars, nodeEvents>>

-----------------------------------------------------------------------------
(* The clusters change, and the informers see it once they watch. *)

Reports(informer, queue, es) == IF informer \in informers THEN queue \o es ELSE queue

(* A node comes, goes, becomes ready or stops being ready. *)
NodeChanges(n, st) ==
    /\ st # node[n]
    /\ Changes
    /\ node' = [node EXCEPT ![n] = st]
    /\ nodeEvents' = Reports("nodes", nodeEvents,
            CASE st = "ready"                            -> <<NodeEvent("NodeUp", n)>>
              [] node[n] = "ready" \/ st = "absent"      -> <<NodeEvent("NodeDown", n)>>
              [] OTHER                                   -> <<>>)
    /\ UNCHANGED <<vars, startVars, pod, missed, podEvents>>

Becomes(p, st) ==
    /\ Changes
    /\ pod' = [pod EXCEPT ![p] = st]
    /\ UNCHANGED <<vars, startVars, node, nodeEvents>>

(* The Deployment makes a pod when no other pod of it is or will be up. *)
PodScheduled(p, n) ==
    /\ pod[p] = NoPod /\ node[n] = "ready"
    /\ \A q \in PodsOf(p[1]) : pod[q].phase \in {"terminating", "failed"}
    /\ Becomes(p, [node |-> n, phase |-> "pending"])
    /\ UNCHANGED <<missed, podEvents>>

PodMoves(p, from, to) ==
    /\ pod[p].phase = from
    /\ Becomes(p, [pod[p] EXCEPT !.phase = to])
    /\ podEvents' = Reports("pods", podEvents, <<EmitPodEvent(p, pod'[p])>>)
    /\ UNCHANGED missed

PodGone(p) ==
    /\ p \in Existing
    /\ Becomes(p, NoPod)
    /\ podEvents' = Reports("pods", podEvents, <<PodEvent("PodTerminated", p[1], pod[p].node)>>)
    /\ missed' = IF startup \notin {"listNodes", "listPods"} /\ "pods" \notin informers
                 THEN missed \cup {p[1]} ELSE missed

(* Slip: only changes are reported, never once more what is known. *)
Resync_never ==
    /\ "pods" \in informers /\ podEvents = <<>>
    /\ UNCHANGED ceVars

(* The informer's resync: once more for every pod.  The node handler sends *)
(* nothing for a node that is as ready as it was.                          *)
Resync ==
    /\ "pods" \in informers /\ podEvents = <<>>
    /\ podEvents' \in EmitAll
    /\ UNCHANGED <<vars, startVars, clusterVars, nodeEvents>>

-----------------------------------------------------------------------------
(* The control loop applies the events, in the order of each informer. *)

ApplyNodeEvent ==
    /\ nodeEvents # <<>>
    /\ LET e == Head(nodeEvents) IN
         CASE e.kind = "NodeUp"               -> UpsertNode(e.node)
           [] e.kind = "NodeDown" /\ e.node \in nodes -> RemoveNode(e.node)
           [] OTHER                           -> UNCHANGED vars
    /\ nodeEvents' = Tail(nodeEvents)
    /\ UNCHANGED <<startVars, clusterVars, podEvents>>

(* Slip: a termination is only looked at when its pod's node is known. *)
ApplyPodEvent_knownNode ==
    /\ podEvents # <<>>
    /\ LET e == Head(podEvents) IN
         CASE e.kind = "PodRunning"    -> UpsertReplica(e.replica, e.node, "Running")
           [] e.kind = "PodTerminated" /\ e.replica \in Tracked /\ e.node \in nodes
                                       -> DeleteReplica(e.replica)
           [] OTHER                    -> UNCHANGED vars
    /\ podEvents' = Tail(podEvents)
    /\ UNCHANGED <<startVars, clusterVars, nodeEvents>>

ApplyPodEvent ==
    /\ podEvents # <<>>
    /\ LET e == Head(podEvents) IN
         CASE e.kind = "PodRunning"    -> UpsertReplica(e.replica, e.node, "Running")
           [] e.kind = "PodTerminated" /\ e.replica \in Tracked
                                       -> DeleteReplica(e.replica)
           [] OTHER                    -> UNCHANGED vars
    /\ podEvents' = Tail(podEvents)
    /\ UNCHANGED <<startVars, clusterVars, nodeEvents>>

-----------------------------------------------------------------------------

Startup == ListNodes \/ ListPods \/ SyncFails \/ SeedClusters \/ SeedReplicas
Informer == StartNodeInformer \/ StartPodInformer

CENext ==
    \/ Startup \/ Informer
    \/ \E n \in Nodes, st \in {"absent", "notReady", "ready"} : NodeChanges(n, st)
    \/ \E p \in Pods, n \in Nodes : PodScheduled(p, n)
    \/ \E p \in Pods :
          \/ PodMoves(p, "pending", "running")
          \/ PodMoves(p, "running", "terminating")
          \/ PodMoves(p, "running", "failed")
          \/ PodGone(p)
    \/ Resync
    \/ ApplyNodeEvent
    \/ ApplyPodEvent

CESpec == CEInit /\ [][CENext]_ceVars

(* main goes on, the informers list, the resync period passes and the loop *)
(* applies what comes.                                                     *)
CEFairSpec ==
    CESpec /\ WF_ceVars(Startup) /\ WF_ceVars(Informer) /\ WF_ceVars(Resync)
           /\ WF_ceVars(ApplyNodeEvent) /\ WF_ceVars(ApplyPodEvent)

-----------------------------------------------------------------------------
(* Properties. *)

(* Once the pods of a replica are down to one that runs, the replica is    *)
(* tracked for good, on that pod's node, whatever the events of its other  *)
(* pods did to it: the resync heals what a late termination removed.  A    *)
(* failed pod that stays would report its termination again and again.     *)
CatchesUp ==
    \A r \in Replicas, n \in Nodes :
        <>[](\E p \in Pods : PodsOf(r) = {p} /\ pod[p] = [node |-> n, phase |-> "running"])
            => <>[](where[r] = n)

(* No replica without a pod stays tracked: the event of its termination is *)
(* on the way, whatever events of nodes and other pods come before it.     *)
(* Only one that lost its pod between the full sync and the pod informer's *)
(* first list, which nothing ever reports, may stay for ever.              *)
NoGhosts ==
    "pods" \in informers => \A r \in Tracked :
        \/ PodsOf(r) # {}
        \/ \E i \in DOMAIN podEvents :
              podEvents[i].kind = "PodTerminated" /\ podEvents[i].replica = r
        \/ r \in missed

(* A node that is ready for good is known for good, even one that came     *)
(* between the full sync and the informer's first list.                    *)
ReadyNodesKnown == \A n \in Nodes : <>[](node[n] = "ready") => <>[](n \in nodes)

=============================================================================
