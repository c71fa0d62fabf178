--------------------------- MODULE Executor_proofs ---------------------------
(***************************************************************************)
(* Proofs about Executor, for every plan, every cluster behaviour and      *)
(* every combination of failures.  TypeInv and Links describe how the      *)
(* main loop's bookkeeping relates to the goroutines and to the channel;   *)
(* each later invariant is inductive relative to the earlier ones.         *)
(***************************************************************************)
EXTENDS Executor, TLAPS, FiniteSetTheorems

Busy == Waiting \cup {"create", "expire", "cleanup", "fulfill", "label", "delete", "send"}

(* TypeOK, except that the counters are only integers so far. *)
TypeInv ==
    /\ mainPC \in {"dispatch", "select", "drain", "returned"}
    /\ status \in [Ops -> {"pending", "inflight", "completed", "failed", "aborted"}]
    /\ pending \in Int /\ inflight \in Int
    /\ results \in Seq(Ops)
    /\ wpc \in [Ops -> Busy \cup {"idle", "exited"}]
    /\ werr \in [Ops -> BOOLEAN]
    /\ waitDone \in SUBSET Ops
    /\ ctxDone \in BOOLEAN
    /\ reservation \in [Ops -> {"none", "active", "fulfilled", "expired"}]
    /\ cluster \in [Replicas -> {"absent", "pending", "running", "terminating"}]

InSeq(o, s) == \E i \in 1 .. Len(s) : s[i] = o
Distinct(s) == \A i, j \in 1 .. Len(s) : s[i] = s[j] => i = j

(* Who knows what about an operation: the main loop, its worker and the    *)
(* results channel.                                                        *)
Links ==
    /\ \A o \in Ops : wpc[o] = "idle" <=> status[o] \in {"pending", "aborted"}
    /\ \A o \in Ops : status[o] \in {"completed", "failed"} => wpc[o] = "exited"
    /\ \A o \in Ops : InSeq(o, results) <=> status[o] = "inflight" /\ wpc[o] = "exited"
    /\ Distinct(results)
    /\ mainPC = "drain" => \A o \in Ops : status[o] # "pending"

-----------------------------------------------------------------------------
(* Types. *)

(* A step of a worker moves that worker only, between busy places. *)
LEMMA WorkerStep ==
    ASSUME TypeInv, NEW o \in Ops, Step(o)
    PROVE  /\ wpc[o] \in Busy
           /\ \E pc \in Busy : wpc' = [wpc EXCEPT ![o] = pc]
           /\ werr' \in [Ops -> BOOLEAN]
           /\ reservation' \in [Ops -> {"none", "active", "fulfilled", "expired"}]
           /\ cluster' \in [Replicas -> {"absent", "pending", "running", "terminating"}]
<1>0. Target[o] \in Replicas
  BY PlanAssumption
<1>1. CASE CreateReplica(o)
  BY <1>0, <1>1 DEF CreateReplica, Call, Goto, Report, TypeInv, Busy, Waiting
<1>2. CASE PollRunning(o)
  BY <1>0, <1>2 DEF PollRunning, Goto, Report, TypeInv, Busy, Waiting
<1>3. CASE SleepRunning(o)
  BY <1>0, <1>3 DEF SleepRunning, Goto, Report, TypeInv, Busy, Waiting
<1>4. CASE ExpireReservation(o)
  BY <1>0, <1>4 DEF ExpireReservation, Goto, Report, TypeInv, Busy, Waiting
<1>5. CASE FulfillReservation(o)
  BY <1>0, <1>5 DEF FulfillReservation, Goto, Report, TypeInv, Busy, Waiting
<1>6. CASE CleanupReplica(o)
  BY <1>0, <1>6 DEF CleanupReplica, Call, Deleted, Goto, Report, TypeInv, Busy, Waiting
<1>7. CASE LabelReplica(o)
  BY <1>0, <1>7 DEF LabelReplica, Goto, Report, TypeInv, Busy, Waiting
<1>8. CASE DeleteReplica(o)
  BY <1>0, <1>8 DEF DeleteReplica, Call, Deleted, Goto, Report, TypeInv, Busy, Waiting
<1>9. CASE PollDeleted(o)
  BY <1>0, <1>9 DEF PollDeleted, Goto, Report, TypeInv, Busy, Waiting
<1>10. CASE SleepDeleted(o)
  BY <1>0, <1>10 DEF SleepDeleted, Goto, Report, TypeInv, Busy, Waiting
<1>11. QED
  BY <1>1, <1>2, <1>3, <1>4, <1>5, <1>6, <1>7, <1>8, <1>9, <1>10 DEF Step

LEMMA FirstStepType == \A o \in Ops : FirstStep(o) \in Busy
  BY PlanAssumption DEF FirstStep, Busy

LEMMA TypeInvariant == Spec => []TypeInv
<1>1. Init => TypeInv
  <2> SUFFICES ASSUME Init PROVE TypeInv
    OBVIOUS
  <2>1. Cardinality(Ops) \in Int
    BY FS_CardinalityType, PlanAssumption
  <2>2. cluster \in [Replicas -> {"absent", "pending", "running", "terminating"}]
    BY Zenon DEF Init
  <2>3. reservation \in [Ops -> {"none", "active", "fulfilled", "expired"}]
    BY Zenon DEF Init
  <2>4. wpc \in [Ops -> Busy \cup {"idle", "exited"}] /\ werr \in [Ops -> BOOLEAN]
    BY Zenon DEF Init
  <2>5. status \in [Ops -> {"pending", "inflight", "completed", "failed", "aborted"}]
    BY Zenon DEF Init
  <2>6. results \in Seq(Ops) /\ pending \in Int /\ inflight \in Int
    BY <2>1 DEF Init
  <2>7. mainPC \in {"dispatch", "select", "drain", "returned"}
    BY DEF Init
  <2>8. waitDone \in SUBSET Ops /\ ctxDone \in BOOLEAN
    BY DEF Init
  <2>9. QED
    BY <2>2, <2>3, <2>4, <2>5, <2>6, <2>7, <2>8, Zenon DEF TypeInv
<1>2. TypeInv /\ [Next]_vars => TypeInv'
  <2> SUFFICES ASSUME TypeInv, [Next]_vars PROVE TypeInv'
    OBVIOUS
  <2>1. ASSUME NEW o \in Ops, Dispatch(o) PROVE TypeInv'
    BY <2>1, FirstStepType DEF Dispatch, TypeInv
  <2>2. CASE EndDispatch
    BY <2>2 DEF EndDispatch, TypeInv, workerVars
  <2>3. CASE TakeResult
    <3> DEFINE o == Head(results)
    <3>1. o \in Ops /\ Tail(results) \in Seq(Ops)
      BY <2>3 DEF TakeResult, TypeInv
    <3>2. AbortedBy(o) \in SUBSET Ops
      BY <3>1 DEF AbortedBy, Descendants
    <3>3. Cardinality(AbortedBy(o)) \in Int
      BY <3>2, FS_Subset, FS_CardinalityType, PlanAssumption
    <3> HIDE DEF o
    <3>4. QED
      BY <2>3, <3>1, <3>3 DEF TakeResult, TypeInv, workerVars, o
  <2>4. CASE SelectCancelled
    <3>1. Cardinality({p \in Ops : status[p] = "pending"}) \in Int
      BY FS_Subset, FS_CardinalityType, PlanAssumption
    <3>2. QED
      BY <2>4, <3>1 DEF SelectCancelled, TypeInv, workerVars
  <2>5. CASE DrainResult
    BY <2>5 DEF DrainResult, TypeInv, workerVars
  <2>6. CASE EndDrain
    BY <2>6 DEF EndDrain, TypeInv, workerVars
  <2>7. ASSUME NEW o \in Ops, Worker(o) PROVE TypeInv'
    <3>1. CASE Step(o) /\ UNCHANGED results
      BY <2>7, <3>1, WorkerStep DEF Worker, TypeInv, mainVars
    <3>2. CASE Send(o)
      BY <2>7, <3>2 DEF Worker, Send, Goto, TypeInv, mainVars
    <3>3. QED
      BY <2>7, <3>1, <3>2 DEF Worker
  <2>8. ASSUME NEW o \in Ops, Deadline(o) PROVE TypeInv'
    BY <2>8 DEF Deadline, TypeInv, mainVars, workerVars
  <2>9. CASE Cancel
    BY <2>9 DEF Cancel, TypeInv, mainVars, workerVars
  <2>10. CASE Sweep
    BY <2>10 DEF Sweep, TypeInv, mainVars, workerVars
  <2>11. ASSUME NEW r \in Replicas, ClusterStep(r) PROVE TypeInv'
    BY <2>11 DEF ClusterStep, TypeInv, mainVars, workerVars
  <2>12. CASE UNCHANGED vars
    BY <2>12 DEF vars, TypeInv, mainVars, workerVars
  <2>13. QED
    BY <2>1, <2>2, <2>3, <2>4, <2>5, <2>6, <2>7, <2>8, <2>9, <2>10, <2>11, <2>12
       DEF Next, Main
<1>3. QED
  BY <1>1, <1>2, PTL DEF Spec

-----------------------------------------------------------------------------
(* The plan and the channel. *)

(* Descendants are closed under "depends on". *)
LEMMA DescendantsClosed ==
    ASSUME NEW o \in Ops, NEW p \in Ops, NEW q \in Ops
    PROVE  /\ Descendants[o] \subseteq Ops
           /\ o \in Deps[p] => p \in Descendants[o]
           /\ p \in Descendants[o] /\ p \in Deps[q] => q \in Descendants[o]
<1>1. Descendants[o] \subseteq Ops
  BY DEF Descendants
<1>2. o \in Deps[p] => p \in Descendants[o]
  BY DEF Descendants
<1>3. ASSUME p \in Descendants[o], p \in Deps[q] PROVE q \in Descendants[o]
  <2>1. SUFFICES ASSUME NEW S \in SUBSET Ops,
                        \A x \in Ops : o \in Deps[x] => x \in S,
                        Closed(S)
                 PROVE  q \in S
    BY DEF Descendants
  <2>2. p \in S
    BY <1>3, <2>1 DEF Descendants
  <2>3. QED
    BY <1>3, <2>1, <2>2 DEF Closed
<1>4. QED
  BY <1>1, <1>2, <1>3

LEMMA AppendResult ==
    ASSUME NEW s \in Seq(Ops), NEW o \in Ops, Distinct(s), ~InSeq(o, s)
    PROVE  /\ \A p \in Ops : InSeq(p, Append(s, o)) <=> InSeq(p, s) \/ p = o
           /\ Distinct(Append(s, o))
<1>1. /\ Len(Append(s, o)) = Len(s) + 1
      /\ Len(s) \in Nat
      /\ \A i \in 1 .. Len(s) : Append(s, o)[i] = s[i]
      /\ Append(s, o)[Len(s) + 1] = o
  OBVIOUS
<1>2. \A i \in 1 .. Len(s) + 1 : i \in 1 .. Len(s) \/ i = Len(s) + 1
  BY <1>1
<1>3. \A p \in Ops : InSeq(p, Append(s, o)) <=> InSeq(p, s) \/ p = o
  BY <1>1, <1>2 DEF InSeq
<1>4. Distinct(Append(s, o))
  BY <1>1, <1>2 DEF InSeq, Distinct
<1>5. QED
  BY <1>3, <1>4

LEMMA TakeHead ==
    ASSUME NEW s \in Seq(Ops), s # <<>>, Distinct(s)
    PROVE  /\ Head(s) \in Ops
           /\ InSeq(Head(s), s)
           /\ \A p \in Ops : InSeq(p, Tail(s)) <=> InSeq(p, s) /\ p # Head(s)
           /\ Distinct(Tail(s))
<1>1. /\ Len(s) \in Nat /\ Len(s) >= 1
      /\ Len(Tail(s)) = Len(s) - 1
      /\ \A i \in 1 .. Len(s) - 1 : Tail(s)[i] = s[i + 1]
      /\ Head(s) = s[1] /\ Head(s) \in Ops
  OBVIOUS
<1>2. InSeq(Head(s), s)
  BY <1>1 DEF InSeq
<1>3. ASSUME NEW p \in Ops, InSeq(p, Tail(s)) PROVE InSeq(p, s) /\ p # Head(s)
  BY <1>1, <1>3 DEF InSeq, Distinct
<1>4. ASSUME NEW p \in Ops, InSeq(p, s), p # Head(s) PROVE InSeq(p, Tail(s))
  <2>1. PICK i \in 1 .. Len(s) : s[i] = p
    BY <1>4 DEF InSeq
  <2>2. i - 1 \in 1 .. Len(s) - 1 /\ Tail(s)[i - 1] = p
    BY <1>1, <1>4, <2>1
  <2>3. QED
    BY <1>1, <2>2 DEF InSeq
<1>5. Distinct(Tail(s))
  BY <1>1 DEF Distinct
<1>6. QED
  BY <1>1, <1>2, <1>3, <1>4, <1>5

-----------------------------------------------------------------------------
(* The main loop, the workers and the channel agree. *)

LEMMA LinksInvariant == Spec => []Links
<1>1. Init => Links
  <2> SUFFICES ASSUME Init PROVE Links
    OBVIOUS
  <2>1. /\ \A o \in Ops : status[o] = "pending" /\ wpc[o] = "idle"
        /\ Len(results) = 0 /\ mainPC = "dispatch"
    BY DEF Init
  <2>2. QED
    BY <2>1 DEF Links, InSeq, Distinct
<1>2. TypeInv /\ TypeInv' /\ Links /\ [Next]_vars => Links'
  <2> SUFFICES ASSUME TypeInv, TypeInv', Links, [Next]_vars PROVE Links'
    OBVIOUS
  <2>1. ASSUME NEW o \in Ops, Dispatch(o) PROVE Links'
    <3>1. FirstStep(o) \notin {"idle", "exited"}
      BY FirstStepType DEF Busy, Waiting
    <3>2. QED
      BY <2>1, <3>1 DEF Dispatch, Ready, TypeInv, Links
  <2>2. CASE EndDispatch
    BY <2>2 DEF EndDispatch, Links, workerVars
  <2>3. CASE TakeResult
    <3> DEFINE h == Head(results)
    <3>1. /\ h \in Ops /\ InSeq(h, results) /\ Distinct(results')
          /\ \A p \in Ops : InSeq(p, results') <=> InSeq(p, results) /\ p # h
      BY <2>3, TakeHead DEF TakeResult, TypeInv, Links
    <3> HIDE DEF h
    <3>2. /\ status'[h] \in {"completed", "failed"}
          /\ \A p \in Ops : p # h =>
                status'[p] = status[p] \/ (status[p] = "pending" /\ status'[p] = "aborted")
      <4>1. CASE werr[h]
        <5>1. status' = [p \in Ops |-> IF p = h THEN "failed"
                           ELSE IF p \in AbortedBy(h) THEN "aborted" ELSE status[p]]
          BY <2>3, <4>1 DEF TakeResult, h
        <5>2. QED
          BY <3>1, <5>1 DEF AbortedBy
      <4>2. CASE ~werr[h]
        <5>1. status' = [status EXCEPT ![h] = "completed"]
          BY <2>3, <4>2 DEF TakeResult, h
        <5>2. QED
          BY <3>1, <5>1 DEF TypeInv
      <4>3. QED
        BY <4>1, <4>2
    <3>3. UNCHANGED wpc /\ mainPC' = "dispatch"
      BY <2>3 DEF TakeResult, workerVars
    <3>4. QED
      BY <3>1, <3>2, <3>3 DEF Links, TypeInv
  <2>4. CASE SelectCancelled
    BY <2>4 DEF SelectCancelled, TypeInv, Links, workerVars
  <2>5. CASE DrainResult
    <3> DEFINE h == Head(results)
    <3>1. /\ h \in Ops /\ InSeq(h, results) /\ Distinct(results')
          /\ \A p \in Ops : InSeq(p, results') <=> InSeq(p, results) /\ p # h
      BY <2>5, TakeHead DEF DrainResult, TypeInv, Links
    <3>2. /\ status'[h] \in {"completed", "failed"}
          /\ \A p \in Ops : p # h => status'[p] = status[p]
      BY <2>5, <3>1 DEF DrainResult, TypeInv
    <3>3. UNCHANGED <<wpc, mainPC>>
      BY <2>5 DEF DrainResult, workerVars
    <3> HIDE DEF h
    <3>4. wpc[h] = "exited" /\ status[h] = "inflight"
      BY <3>1 DEF Links
    <3>5. ASSUME NEW p \in Ops
          PROVE  /\ wpc[p]' = "idle" <=> status[p]' \in {"pending", "aborted"}
                 /\ status[p]' \in {"completed", "failed"} => wpc[p]' = "exited"
                 /\ InSeq(p, results)' <=> status[p]' = "inflight" /\ wpc[p]' = "exited"
                 /\ mainPC' = "drain" => status[p]' # "pending"
      <4>1. CASE p = h
        BY <3>1, <3>2, <3>3, <3>4, <4>1 DEF InSeq
      <4>2. CASE p # h
        BY <3>1, <3>2, <3>3, <4>2 DEF Links, InSeq
      <4>3. QED
        BY <4>1, <4>2
    <3>6. QED
      BY <3>1, <3>5 DEF Links
  <2>6. CASE EndDrain
    BY <2>6 DEF EndDrain, Links, workerVars
  <2>7. ASSUME NEW o \in Ops, Worker(o) PROVE Links'
    <3>1. CASE Step(o) /\ UNCHANGED results
      <4>1. wpc[o] \notin {"idle", "exited"} /\ wpc'[o] \notin {"idle", "exited"}
        BY <3>1, WorkerStep DEF TypeInv, Busy, Waiting
      <4>2. \A p \in Ops : p # o => wpc'[p] = wpc[p]
        BY <3>1, WorkerStep DEF TypeInv
      <4>3. UNCHANGED <<mainPC, status, results>>
        BY <2>7, <3>1 DEF Worker, mainVars
      <4>4. QED
        BY <4>1, <4>2, <4>3 DEF Links
    <3>2. CASE Send(o)
      <4>1. wpc[o] = "send" /\ wpc' = [wpc EXCEPT ![o] = "exited"]
        BY <3>2 DEF Send, Goto
      <4>2. status[o] = "inflight" /\ ~InSeq(o, results)
        BY <4>1 DEF Links, TypeInv
      <4>3. /\ \A p \in Ops : InSeq(p, results') <=> InSeq(p, results) \/ p = o
            /\ Distinct(results')
        BY <3>2, <4>2, AppendResult DEF Send, Links, TypeInv
      <4>4. UNCHANGED <<mainPC, status>>
        BY <2>7 DEF Worker, mainVars
      <4>5. QED
        BY <4>1, <4>2, <4>3, <4>4 DEF Links, TypeInv
    <3>3. QED
      BY <2>7, <3>1, <3>2 DEF Worker
  <2>8. ASSUME NEW o \in Ops, Deadline(o) PROVE Links'
    BY <2>8 DEF Deadline, Links, mainVars, workerVars
  <2>9. CASE Cancel
    BY <2>9 DEF Cancel, Links, mainVars, workerVars
  <2>10. CASE Sweep
    BY <2>10 DEF Sweep, Links, mainVars, workerVars
  <2>11. ASSUME NEW r \in Replicas, ClusterStep(r) PROVE Links'
    BY <2>11 DEF ClusterStep, Links, mainVars, workerVars
  <2>12. CASE UNCHANGED vars
    BY <2>12 DEF vars, Links, mainVars, workerVars
  <2>13. QED
    BY <2>1, <2>2, <2>3, <2>4, <2>5, <2>6, <2>7, <2>8, <2>9, <2>10, <2>11, <2>12
       DEF Next, Main
<1>3. QED
  BY <1>1, <1>2, TypeInvariant, PTL DEF Spec

-----------------------------------------------------------------------------
(* Results change the status of one operation in flight, and failures of   *)
(* pending ones.                                                           *)

LEMMA TakeResultStep ==
    ASSUME TypeInv, Links, TakeResult
    PROVE  \E h \in Ops :
             /\ status[h] = "inflight" /\ wpc[h] = "exited"
             /\ \/ ~werr[h] /\ status' = [status EXCEPT ![h] = "completed"]
                            /\ pending' = pending
                \/ werr[h] /\ status' = [p \in Ops |-> IF p = h THEN "failed"
                                  ELSE IF p \in AbortedBy(h) THEN "aborted" ELSE status[p]]
                           /\ pending' = pending - Cardinality(AbortedBy(h))
<1> DEFINE h == Head(results)
<1>1. h \in Ops /\ InSeq(h, results)
  BY TakeHead DEF TakeResult, TypeInv, Links
<1>2. status[h] = "inflight" /\ wpc[h] = "exited"
  BY <1>1 DEF Links
<1>3. \/ ~werr[h] /\ status' = [status EXCEPT ![h] = "completed"]
                  /\ pending' = pending
      \/ werr[h] /\ status' = [p \in Ops |-> IF p = h THEN "failed"
                        ELSE IF p \in AbortedBy(h) THEN "aborted" ELSE status[p]]
                 /\ pending' = pending - Cardinality(AbortedBy(h))
  BY DEF TakeResult
<1>4. QED
  BY <1>1, <1>2, <1>3

LEMMA DrainResultStep ==
    ASSUME TypeInv, Links, DrainResult
    PROVE  \E h \in Ops :
             /\ status[h] = "inflight" /\ wpc[h] = "exited"
             /\ status' = [status EXCEPT ![h] = IF werr[h] THEN "failed" ELSE "completed"]
<1> DEFINE h == Head(results)
<1>1. h \in Ops /\ InSeq(h, results)
  BY TakeHead DEF DrainResult, TypeInv, Links
<1>2. status[h] = "inflight" /\ wpc[h] = "exited"
  BY <1>1 DEF Links
<1>3. status' = [status EXCEPT ![h] = IF werr[h] THEN "failed" ELSE "completed"]
  BY DEF DrainResult
<1>4. QED
  BY <1>1, <1>2, <1>3

(* Only the main loop writes statuses and counters, and only a dispatch    *)
(* wakes a worker that is idle.                                            *)
LEMMA OutsideMain ==
    ASSUME TypeInv, [Next]_vars, ~Main
    PROVE  /\ UNCHANGED <<mainPC, status, pending, inflight>>
           /\ \A o \in Ops : wpc[o] = "idle" => wpc'[o] = "idle"
<1>1. ASSUME NEW o \in Ops, Worker(o)
      PROVE  \A p \in Ops : wpc[p] = "idle" => wpc'[p] = "idle"
  <2>1. CASE Step(o)
    <3>1. PICK pc \in Busy : wpc' = [wpc EXCEPT ![o] = pc]
      BY <2>1, WorkerStep
    <3>2. wpc[o] # "idle"
      BY <2>1, WorkerStep DEF Busy, Waiting
    <3>3. QED
      BY <3>1, <3>2 DEF TypeInv
  <2>2. CASE Send(o)
    BY <2>2 DEF Send, Goto, TypeInv
  <2>3. QED
    BY <1>1, <2>1, <2>2 DEF Worker
<1>2. ASSUME NEW o \in Ops, Worker(o) PROVE UNCHANGED <<mainPC, status, pending, inflight>>
  BY <1>2 DEF Worker, mainVars
<1>3. ASSUME NEW o \in Ops, Deadline(o)
      PROVE  UNCHANGED <<mainPC, status, pending, inflight, wpc>>
  BY <1>3 DEF Deadline, mainVars, workerVars
<1>4. CASE Cancel
  BY <1>4 DEF Cancel, mainVars, workerVars
<1>5. CASE Sweep
  BY <1>5 DEF Sweep, mainVars, workerVars
<1>6. ASSUME NEW r \in Replicas, ClusterStep(r)
      PROVE  UNCHANGED <<mainPC, status, pending, inflight, wpc>>
  BY <1>6 DEF ClusterStep, mainVars, workerVars
<1>7. CASE UNCHANGED vars
  BY <1>7 DEF vars, mainVars, workerVars
<1>8. QED
  BY <1>1, <1>2, <1>3, <1>4, <1>5, <1>6, <1>7 DEF Next

(* A final status is final, and a worker is woken when its operation's     *)
(* dependencies have completed.                                            *)
LEMMA FinalIsFinal ==
    ASSUME TypeInv, Links, [Next]_vars, NEW o \in Ops,
           status[o] \in {"completed", "failed", "aborted"}
    PROVE  status'[o] = status[o]
<1>0. status \in [Ops -> {"pending", "inflight", "completed", "failed", "aborted"}]
  BY DEF TypeInv
<1>1. CASE TakeResult
  <2>1. PICK h \in Ops :
           /\ status[h] = "inflight"
           /\ \/ status' = [status EXCEPT ![h] = "completed"]
              \/ status' = [p \in Ops |-> IF p = h THEN "failed"
                              ELSE IF p \in AbortedBy(h) THEN "aborted" ELSE status[p]]
    BY <1>1, TakeResultStep
  <2>2. o # h /\ o \notin AbortedBy(h)
    BY <2>1 DEF AbortedBy
  <2>3. QED
    BY <1>0, <2>1, <2>2
<1>2. CASE DrainResult
  BY <1>0, <1>2, DrainResultStep
<1>3. CASE SelectCancelled
  BY <1>3 DEF SelectCancelled
<1>4. ASSUME NEW p \in Ops, Dispatch(p) PROVE status'[o] = status[o]
  BY <1>4 DEF Dispatch, Ready, TypeInv
<1>5. CASE EndDispatch \/ EndDrain
  BY <1>5 DEF EndDispatch, EndDrain
<1>6. QED
  BY <1>1, <1>2, <1>3, <1>4, <1>5, OutsideMain DEF Main

(* The statement of DependenciesFirst: an operation that was started has   *)
(* seen everything it depends on complete.                                 *)
THEOREM DependenciesFirstHolds == Spec => []DependenciesFirst
<1>1. Init => DependenciesFirst
  BY DEF Init, DependenciesFirst
<1>2. TypeInv /\ Links /\ DependenciesFirst /\ [Next]_vars => DependenciesFirst'
  <2> SUFFICES ASSUME TypeInv, Links, DependenciesFirst, [Next]_vars,
                      NEW o \in Ops, wpc'[o] # "idle", NEW d \in Deps[o]
               PROVE  status'[d] = "completed"
    BY DEF DependenciesFirst
  <2>0. d \in Ops
    BY PlanAssumption
  <2>1. CASE wpc[o] # "idle"
    BY <2>0, <2>1, FinalIsFinal DEF DependenciesFirst
  <2>2. CASE wpc[o] = "idle"
    <3>1. PICK p \in Ops : Dispatch(p)
      BY <2>2, OutsideMain DEF Main, EndDispatch, TakeResult, SelectCancelled,
                              DrainResult, EndDrain, workerVars
    <3>2. p = o
      BY <2>2, <3>1 DEF Dispatch, TypeInv
    <3>3. status[d] = "completed"
      BY <3>1, <3>2 DEF Dispatch, Ready, depsCompleted
    <3>4. QED
      BY <2>0, <3>3, FinalIsFinal
  <2>3. QED
    BY <2>1, <2>2
<1>3. QED
  BY <1>1, <1>2, TypeInvariant, LinksInvariant, PTL DEF Spec

(* The statement of NoneWaitsInVain: when an operation fails or is         *)
(* aborted, what depends on it is aborted in the same step.                *)
THEOREM NoneWaitsInVainHolds == Spec => []NoneWaitsInVain
<1>1. Init => NoneWaitsInVain
  BY DEF Init, NoneWaitsInVain
<1>2. TypeInv /\ Links /\ DependenciesFirst /\ NoneWaitsInVain /\ [Next]_vars
        => NoneWaitsInVain'
  <2> SUFFICES ASSUME TypeInv, Links, DependenciesFirst, NoneWaitsInVain, [Next]_vars,
                      NEW o \in Ops, NEW d \in Ops, d \in Deps[o],
                      status'[d] \in {"failed", "aborted"}
               PROVE  status'[o] = "aborted"
    BY DEF NoneWaitsInVain
  <2>1. CASE status[d] \in {"failed", "aborted"}
    BY <2>1, FinalIsFinal DEF NoneWaitsInVain
  <2>2. CASE status[d] \notin {"failed", "aborted"}
    <3>1. status[d] # "completed"
      BY <2>2, FinalIsFinal
    <3>2. status[o] \in {"pending", "aborted"}
      BY <3>1 DEF DependenciesFirst, Links
    <3>3. CASE status[o] = "aborted"
      BY <3>3, FinalIsFinal
    <3>4. CASE status[o] = "pending"
      <4>1. CASE TakeResult
        <5>1. PICK h \in Ops :
                /\ status[h] = "inflight"
                /\ \/ status' = [status EXCEPT ![h] = "completed"]
                   \/ status' = [p \in Ops |-> IF p = h THEN "failed"
                                   ELSE IF p \in AbortedBy(h) THEN "aborted" ELSE status[p]]
          BY <4>1, TakeResultStep
        <5>2. status' = [p \in Ops |-> IF p = h THEN "failed"
                           ELSE IF p \in AbortedBy(h) THEN "aborted" ELSE status[p]]
          BY <2>2, <5>1 DEF TypeInv
        <5>3. d = h \/ d \in Descendants[h]
          BY <2>2, <5>2 DEF AbortedBy
        <5>4. o \in Descendants[h]
          BY <5>3, DescendantsClosed
        <5>5. o # h /\ o \in AbortedBy(h)
          BY <3>4, <5>1, <5>4 DEF AbortedBy
        <5>6. QED
          BY <5>2, <5>5
      <4>2. CASE SelectCancelled
        BY <3>4, <4>2 DEF SelectCancelled
      <4>3. CASE DrainResult
        BY <3>4, <4>3 DEF DrainResult, Links
      <4>4. ASSUME NEW p \in Ops, Dispatch(p) PROVE FALSE
        BY <2>2, <4>4 DEF Dispatch, TypeInv
      <4>5. CASE EndDispatch \/ EndDrain
        BY <2>2, <4>5 DEF EndDispatch, EndDrain
      <4>6. QED
        BY <2>2, <4>1, <4>2, <4>3, <4>4, <4>5, OutsideMain DEF Main
    <3>5. QED
      BY <3>2, <3>3, <3>4
  <2>3. QED
    BY <2>1, <2>2
<1>3. QED
  BY <1>1, <1>2, TypeInvariant, LinksInvariant, DependenciesFirstHolds, PTL DEF Spec

-----------------------------------------------------------------------------
(* The counters. *)

WithStatus(st) == {o \in Ops : status[o] = st}

Counts ==
    /\ pending = Cardinality(WithStatus("pending"))
    /\ inflight = Cardinality(WithStatus("inflight"))

LEMMA WithStatusFinite ==
    \A st : IsFiniteSet(WithStatus(st)) /\ Cardinality(WithStatus(st)) \in Nat
  BY FS_Subset, FS_CardinalityType, PlanAssumption DEF WithStatus

LEMMA CountsInvariant == Spec => []Counts
<1>1. Init => Counts
  <2> SUFFICES ASSUME Init PROVE Counts
    OBVIOUS
  <2>1. WithStatus("pending") = Ops /\ WithStatus("inflight") = {}
    BY DEF Init, WithStatus
  <2>2. QED
    BY <2>1, FS_EmptySet DEF Init, Counts
<1>2. TypeInv /\ Links /\ Counts /\ [Next]_vars => Counts'
  <2> SUFFICES ASSUME TypeInv, Links, Counts, [Next]_vars PROVE Counts'
    OBVIOUS
  <2>1. ASSUME NEW o \in Ops, Dispatch(o) PROVE Counts'
    <3>1. /\ o \in WithStatus("pending") /\ o \notin WithStatus("inflight")
          /\ WithStatus("pending")' = WithStatus("pending") \ {o}
          /\ WithStatus("inflight")' = WithStatus("inflight") \cup {o}
      BY <2>1 DEF Dispatch, Ready, TypeInv, WithStatus
    <3>2. pending' = pending - 1 /\ inflight' = inflight + 1
      BY <2>1 DEF Dispatch
    <3>3. /\ IsFiniteSet(WithStatus("pending"))
          /\ IsFiniteSet(WithStatus("inflight"))
      BY WithStatusFinite
    <3>4. Cardinality(WithStatus("pending") \ {o}) = Cardinality(WithStatus("pending")) - 1
      BY <3>1, <3>3, FS_RemoveElement
    <3>5. Cardinality(WithStatus("inflight") \cup {o}) = Cardinality(WithStatus("inflight")) + 1
      BY <3>1, <3>3, FS_AddElement
    <3>6. pending' = Cardinality(WithStatus("pending"))'
      BY <3>1, <3>2, <3>4 DEF Counts
    <3>7. inflight' = Cardinality(WithStatus("inflight"))'
      BY <3>1, <3>2, <3>5 DEF Counts
    <3>8. QED
      BY <3>6, <3>7 DEF Counts
  <2>2. CASE TakeResult
    <3>0. inflight' = inflight - 1
      BY <2>2 DEF TakeResult
    <3>1. PICK h \in Ops :
             /\ status[h] = "inflight"
             /\ \/ status' = [status EXCEPT ![h] = "completed"] /\ pending' = pending
                \/ /\ status' = [p \in Ops |-> IF p = h THEN "failed"
                                  ELSE IF p \in AbortedBy(h) THEN "aborted" ELSE status[p]]
                   /\ pending' = pending - Cardinality(AbortedBy(h))
      BY <2>2, TakeResultStep
    <3>2. /\ h \in WithStatus("inflight")
          /\ WithStatus("inflight")' = WithStatus("inflight") \ {h}
      BY <3>1 DEF WithStatus, TypeInv, AbortedBy
    <3>3. inflight' = Cardinality(WithStatus("inflight"))'
      BY <3>0, <3>2, WithStatusFinite, FS_RemoveElement DEF Counts
    <3>4. CASE status' = [status EXCEPT ![h] = "completed"] /\ pending' = pending
      <4>1. WithStatus("pending")' = WithStatus("pending")
        BY <3>1, <3>4 DEF WithStatus, TypeInv
      <4>2. QED
        BY <3>3, <3>4, <4>1 DEF Counts
    <3>5. CASE /\ status' = [p \in Ops |-> IF p = h THEN "failed"
                               ELSE IF p \in AbortedBy(h) THEN "aborted" ELSE status[p]]
               /\ pending' = pending - Cardinality(AbortedBy(h))
      <4>1. /\ WithStatus("pending")' = WithStatus("pending") \ AbortedBy(h)
            /\ WithStatus("pending") \cap AbortedBy(h) = AbortedBy(h)
        BY <3>1, <3>5, DescendantsClosed DEF WithStatus, AbortedBy
      <4>2. Cardinality(WithStatus("pending") \ AbortedBy(h))
              = Cardinality(WithStatus("pending")) - Cardinality(AbortedBy(h))
        BY <4>1, WithStatusFinite, FS_Difference
      <4>3. QED
        BY <3>3, <3>5, <4>1, <4>2 DEF Counts
    <3>6. QED
      BY <3>1, <3>4, <3>5
  <2>3. CASE SelectCancelled
    <3>1. WithStatus("pending")' = {} /\ WithStatus("inflight")' = WithStatus("inflight")
      BY <2>3 DEF SelectCancelled, WithStatus
    <3>2. pending' = 0 /\ inflight' = inflight
      <4>1. /\ pending' = pending - Cardinality(WithStatus("pending"))
            /\ inflight' = inflight
        BY <2>3 DEF SelectCancelled, WithStatus
      <4>2. QED
        BY <4>1, WithStatusFinite DEF Counts
    <3>3. QED
      BY <3>1, <3>2, FS_EmptySet DEF Counts
  <2>4. CASE DrainResult
    <3>1. PICK h \in Ops :
             /\ status[h] = "inflight"
             /\ status' = [status EXCEPT ![h] = IF werr[h] THEN "failed" ELSE "completed"]
      BY <2>4, DrainResultStep
    <3>2. /\ h \in WithStatus("inflight")
          /\ WithStatus("inflight")' = WithStatus("inflight") \ {h}
          /\ WithStatus("pending")' = WithStatus("pending")
      BY <3>1 DEF WithStatus, TypeInv
    <3>3. inflight' = inflight - 1 /\ pending' = pending
      BY <2>4 DEF DrainResult
    <3>4. QED
      BY <3>2, <3>3, WithStatusFinite, FS_RemoveElement DEF Counts
  <2>5. CASE UNCHANGED <<status, pending, inflight>>
    BY <2>5 DEF Counts, WithStatus
  <2>6. QED
    BY <2>1, <2>2, <2>3, <2>4, <2>5, OutsideMain DEF Main, EndDispatch, EndDrain
<1>3. QED
  BY <1>1, <1>2, TypeInvariant, LinksInvariant, PTL DEF Spec

(* The statement of CountersAgree: the counters that end Execute's loop    *)
(* count what they are meant to, and every operation in flight has a       *)
(* worker or a result on the channel.                                      *)
THEOREM CountersAgreeHolds == Spec => []CountersAgree
<1>1. TypeInv /\ Links /\ Counts => CountersAgree
  <2> SUFFICES ASSUME TypeInv, Links, Counts PROVE CountersAgree
    OBVIOUS
  <2>1. \A o \in Ops :
          status[o] = "inflight" <=> wpc[o] \notin {"idle", "exited"} \/ InSeq(o, results)
    BY DEF Links, TypeInv
  <2>2. DOMAIN results = 1 .. Len(results)
    BY DEF TypeInv
  <2>3. QED
    BY <2>1, <2>2 DEF CountersAgree, Counts, WithStatus, InSeq
<1>2. QED
  BY <1>1, TypeInvariant, LinksInvariant, CountsInvariant, PTL

(* The statement of TypeOK; the counters are never negative. *)
THEOREM TypeOKHolds == Spec => []TypeOK
<1>1. TypeInv /\ Counts => TypeOK
  BY WithStatusFinite DEF TypeInv, Counts, TypeOK, Busy
<1>2. QED
  BY <1>1, TypeInvariant, CountsInvariant, PTL

-----------------------------------------------------------------------------
(* The end of Execute, and the refinement. *)

(* The loop is left when nothing runs and nothing can be started. *)
LoopOver ==
    mainPC = "returned" => \A o \in Ops : status[o] # "inflight" /\ ~Ready(o)

LEMMA LoopOverInvariant == Spec => []LoopOver
<1>1. Init => LoopOver
  BY DEF Init, LoopOver
<1>2. TypeInv /\ Counts /\ LoopOver /\ [Next]_vars => LoopOver'
  <2> SUFFICES ASSUME TypeInv, Counts, LoopOver, [Next]_vars PROVE LoopOver'
    OBVIOUS
  <2>1. CASE EndDispatch
    <3>1. inflight = 0 => WithStatus("inflight") = {}
      BY WithStatusFinite, FS_EmptySet DEF Counts
    <3>2. QED
      BY <2>1, <3>1 DEF EndDispatch, LoopOver, Ready, depsCompleted, WithStatus
  <2>2. CASE Main /\ ~EndDispatch
    BY <2>2 DEF Main, Dispatch, TakeResult, SelectCancelled, DrainResult, EndDrain, LoopOver
  <2>3. CASE UNCHANGED <<mainPC, status>>
    BY <2>3 DEF LoopOver, Ready, depsCompleted
  <2>4. QED
    BY <2>1, <2>2, <2>3, OutsideMain
<1>3. QED
  BY <1>1, <1>2, TypeInvariant, CountsInvariant, PTL DEF Spec

(* The operation that comes first among those still pending would be ready *)
(* or would have been aborted: so none is pending.                         *)
LEMMA NothingIsLeft ==
    ASSUME TypeInv, NoneWaitsInVain, NEW o \in Ops, status[o] = "pending",
           \A p \in Ops : status[p] # "inflight"
    PROVE  \E p \in Ops : Ready(p)
<1>1. PICK p \in WithStatus("pending") : Deps[p] \cap WithStatus("pending") = {}
  BY PlanAssumption DEF WithStatus
<1>2. ASSUME NEW d \in Deps[p] PROVE status[d] = "completed"
  <2>1. d \in Ops /\ status[d] # "pending"
    BY <1>1, PlanAssumption DEF WithStatus
  <2>2. status[d] \notin {"failed", "aborted"}
    BY <1>1, <2>1 DEF NoneWaitsInVain, WithStatus
  <2>3. QED
    BY <2>1, <2>2 DEF TypeInv
<1>3. QED
  BY <1>1, <1>2 DEF Ready, depsCompleted, WithStatus

(* The statement of ReturnDecidesAll: Execute returns with one outcome for *)
(* every operation of any acyclic plan, and no goroutine is left.          *)
THEOREM ReturnDecidesAllHolds == Spec => []ReturnDecidesAll
<1>1. TypeInv /\ Links /\ NoneWaitsInVain /\ LoopOver => ReturnDecidesAll
  <2> SUFFICES ASSUME TypeInv, Links, NoneWaitsInVain, LoopOver,
                      mainPC = "returned", NEW o \in Ops
               PROVE  /\ status[o] \in {"completed", "failed", "aborted"}
                      /\ wpc[o] = IF status[o] = "aborted" THEN "idle" ELSE "exited"
    BY DEF ReturnDecidesAll
  <2>1. status[o] \in {"completed", "failed", "aborted"}
    BY NothingIsLeft DEF LoopOver, TypeInv
  <2>2. QED
    BY <2>1 DEF Links
<1>2. QED
  BY <1>1, TypeInvariant, LinksInvariant, NoneWaitsInVainHolds, LoopOverInvariant, PTL

(* The safety half of Terminates: no goroutine of Execute waits for        *)
(* nobody.  A worker that reports finds room in the results channel; the   *)
(* main loop waits for a result only while an operation is in flight, and  *)
(* then its result is there or its worker runs.                            *)
NobodyWaitsForNobody ==
    /\ \A o \in Ops : wpc[o] = "send" => Len(results) < Cardinality(Ops)
    /\ mainPC = "select" => inflight > 0
    /\ mainPC \in {"select", "drain"} /\ inflight > 0 =>
          results # <<>> \/ \E o \in Ops : wpc[o] \in Busy

LEMMA RoomForResult ==
    ASSUME TypeInv, Links, NEW o \in Ops, wpc[o] = "send"
    PROVE  Len(results) < Cardinality(Ops)
<1> DEFINE n == Len(results)
           others == Ops \ {o}
<1>1. /\ n \in Nat /\ results \in [1 .. n -> Ops]
  BY DEF TypeInv
<1>2. IsFiniteSet(Ops) /\ Cardinality(Ops) \in Nat
  BY PlanAssumption, FS_CardinalityType
<1>3. IsFiniteSet(others) /\ Cardinality(others) = Cardinality(Ops) - 1
  BY <1>2, FS_RemoveElement
<1>4. ~InSeq(o, results)
  BY DEF Links
<1>5. results \in [1 .. n -> others]
  BY <1>1, <1>4 DEF InSeq
<1>6. \A i, j \in 1 .. n : results[i] = results[j] => i = j
  BY DEF Links, Distinct
<1> HIDE DEF n, others
<1>7. IsFiniteSet(1 .. n) /\ Cardinality(1 .. n) = n
  BY <1>1, FS_Interval
<1>8. Cardinality(1 .. n) <= Cardinality(others)
  <2>1. results \in Injection(1 .. n, others)
    BY <1>5, <1>6 DEF Injection, IsInjective
  <2>2. QED
    BY <1>3, <2>1, FS_Injection
<1>9. n < Cardinality(Ops)
  BY <1>1, <1>2, <1>3, <1>7, <1>8
<1>10. QED
  BY <1>9 DEF n

(* Execute cannot deadlock, whatever the plan, the calls and the clusters. *)
THEOREM NobodyWaitsForNobodyHolds == Spec => []NobodyWaitsForNobody
<1> DEFINE Waits == mainPC = "select" => inflight > 0
<1>1. Init => Waits
  BY DEF Init
<1>2. TypeInv /\ Counts /\ Waits /\ [Next]_vars => Waits'
  <2> SUFFICES ASSUME TypeInv, Counts, Waits, [Next]_vars PROVE Waits'
    OBVIOUS
  <2>1. CASE EndDispatch
    <3>1. inflight \in Nat
      BY WithStatusFinite DEF Counts
    <3>2. QED
      BY <2>1, <3>1 DEF EndDispatch
  <2>2. CASE Main /\ ~EndDispatch
    BY <2>2 DEF Main, Dispatch, TakeResult, SelectCancelled, DrainResult, EndDrain
  <2>3. CASE UNCHANGED <<mainPC, inflight>>
    BY <2>3
  <2>4. QED
    BY <2>1, <2>2, <2>3, OutsideMain
<1>3. TypeInv /\ Links /\ Counts /\ Waits => NobodyWaitsForNobody
  <2> SUFFICES ASSUME TypeInv, Links, Counts, inflight > 0
               PROVE  results # <<>> \/ \E o \in Ops : wpc[o] \in Busy
    BY RoomForResult DEF NobodyWaitsForNobody
  <2>1. WithStatus("inflight") # {}
    BY FS_EmptySet DEF Counts
  <2>2. PICK o \in Ops : status[o] = "inflight"
    BY <2>1 DEF WithStatus
  <2>3. CASE wpc[o] = "exited"
    <3>1. InSeq(o, results)
      BY <2>2, <2>3 DEF Links
    <3>2. QED
      BY <3>1 DEF InSeq
  <2>4. CASE wpc[o] # "exited"
    BY <2>2, <2>4 DEF Links, TypeInv
  <2>5. QED
    BY <2>3, <2>4
<1>4. QED
  BY <1>1, <1>2, <1>3, TypeInvariant, LinksInvariant, CountsInvariant, PTL DEF Spec

(* How much Execute has left to do at most: an operation is dispatched,    *)
(* then its result taken; a drain looks at results only.                   *)
LoopMeasure ==
    CASE mainPC = "drain"    -> 2 * inflight + 2
      [] mainPC = "dispatch" -> 6 * pending + 5 * inflight + 1
      [] OTHER               -> 6 * pending + 5 * inflight

(* How far a worker is from its end. *)
Distance ==
    [pc \in Busy \cup {"idle", "exited"} |->
        CASE pc = "label" -> 7
          [] pc \in {"create", "delete"} -> 6
          [] pc \in {"sleepRunning", "sleepDeleted"} -> 5
          [] pc \in {"pollRunning", "pollDeleted"} -> 4
          [] pc = "expire" -> 3
          [] pc \in {"cleanup", "fulfill"} -> 2
          [] pc = "send" -> 1
          [] OTHER -> 0]

(* What else Terminates rests on: only polls before their deadline may go  *)
(* on and on.  All else that Execute and its workers do brings them nearer *)
(* to the end, and nobody takes them further from it: a worker is started  *)
(* once, and not by another.                                               *)
StepsRunOut ==
    /\ [][Main => LoopMeasure \in Nat /\ LoopMeasure' \in Nat /\ LoopMeasure' < LoopMeasure]_vars
    /\ [][\A o \in Ops : Worker(o) =>
            \/ Distance[wpc'[o]] < Distance[wpc[o]]
            \/ wpc[o] \in {"pollRunning", "pollDeleted"} /\ ~Expired(o)]_vars
    /\ [][~Main => UNCHANGED LoopMeasure]_vars
    /\ [][\A o \in Ops : wpc'[o] # wpc[o] => Worker(o) \/ (Main /\ wpc[o] = "idle")]_vars

LEMMA MainDescends ==
    ASSUME TypeInv, Links, Counts, Counts', NobodyWaitsForNobody, Main
    PROVE  LoopMeasure \in Nat /\ LoopMeasure' \in Nat /\ LoopMeasure' < LoopMeasure
<1>1. pending \in Nat /\ inflight \in Nat
  BY WithStatusFinite DEF Counts
<1>2. pending' \in Nat /\ inflight' \in Nat
  <2>1. \A st : Cardinality(WithStatus(st))' \in Nat
    <3>1. \A st : WithStatus(st)' \in SUBSET Ops
      BY DEF WithStatus
    <3>2. QED
      BY <3>1, FS_Subset, FS_CardinalityType, PlanAssumption
  <2>2. QED
    BY <2>1 DEF Counts
<1>3. ASSUME NEW o \in Ops, Dispatch(o)
      PROVE  LoopMeasure \in Nat /\ LoopMeasure' \in Nat /\ LoopMeasure' < LoopMeasure
  <2>1. /\ mainPC = "dispatch" /\ mainPC' = "dispatch"
        /\ pending' = pending - 1 /\ inflight' = inflight + 1
    BY <1>3 DEF Dispatch
  <2>2. /\ LoopMeasure = 6 * pending + 5 * inflight + 1
        /\ LoopMeasure' = 6 * pending' + 5 * inflight' + 1
    BY <2>1 DEF LoopMeasure
  <2>3. QED
    BY <1>1, <1>2, <2>1, <2>2
<1>4. CASE EndDispatch
  <2>1. /\ mainPC = "dispatch" /\ mainPC' \in {"returned", "select"}
        /\ pending' = pending /\ inflight' = inflight
    BY <1>4 DEF EndDispatch
  <2>2. /\ LoopMeasure = 6 * pending + 5 * inflight + 1
        /\ LoopMeasure' = 6 * pending' + 5 * inflight'
    BY <2>1 DEF LoopMeasure
  <2>3. QED
    BY <1>1, <1>2, <2>1, <2>2
<1>5. CASE TakeResult
  <2>1. /\ mainPC = "select" /\ mainPC' = "dispatch" /\ inflight' = inflight - 1
    BY <1>5 DEF TakeResult
  <2>2. pending' <= pending
    <3>1. AbortedBy(Head(results)) \in SUBSET Ops
      BY <1>5 DEF TakeResult, TypeInv, AbortedBy, Descendants
    <3>2. PICK k : k = Cardinality(AbortedBy(Head(results)))
      OBVIOUS
    <3>3. k \in Nat
      BY <3>1, <3>2, FS_Subset, FS_CardinalityType, PlanAssumption
    <3>4. pending' = pending - k \/ pending' = pending
      BY <1>5, <3>2 DEF TakeResult
    <3>5. QED
      BY <1>1, <3>3, <3>4
  <2>3. /\ LoopMeasure = 6 * pending + 5 * inflight
        /\ LoopMeasure' = 6 * pending' + 5 * inflight' + 1
    BY <2>1 DEF LoopMeasure
  <2>4. \A a, b, c, d \in Nat : c <= a /\ d = b - 1 => 6 * c + 5 * d + 1 < 6 * a + 5 * b
    OBVIOUS
  <2>5. LoopMeasure' < LoopMeasure
    BY <1>1, <1>2, <2>1, <2>2, <2>3, <2>4
  <2>6. \A a, b \in Nat : 6 * a + 5 * b \in Nat /\ 6 * a + 5 * b + 1 \in Nat
    OBVIOUS
  <2>7. QED
    BY <1>1, <1>2, <2>3, <2>5, <2>6
<1>6. CASE SelectCancelled
  <2>1. mainPC = "select" /\ mainPC' = "drain" /\ inflight' = inflight /\ inflight > 0
    BY <1>6 DEF SelectCancelled, NobodyWaitsForNobody
  <2>2. /\ LoopMeasure = 6 * pending + 5 * inflight
        /\ LoopMeasure' = 2 * inflight' + 2
    BY <2>1 DEF LoopMeasure
  <2>3. QED
    BY <1>1, <1>2, <2>1, <2>2
<1>7. CASE DrainResult
  <2>1. mainPC = "drain" /\ mainPC' = "drain" /\ inflight' = inflight - 1
    BY <1>7 DEF DrainResult
  <2>2. LoopMeasure = 2 * inflight + 2 /\ LoopMeasure' = 2 * inflight' + 2
    BY <2>1 DEF LoopMeasure
  <2>3. QED
    BY <1>1, <1>2, <2>1, <2>2
<1>8. CASE EndDrain
  <2>1. /\ mainPC = "drain" /\ mainPC' = "dispatch" /\ inflight = 0
        /\ inflight' = inflight /\ pending' = pending
    BY <1>8 DEF EndDrain
  <2>2. pending = 0
    <3>1. WithStatus("pending") = {}
      BY <2>1 DEF Links, WithStatus
    <3>2. QED
      BY <3>1, FS_EmptySet DEF Counts
  <2>3. LoopMeasure = 2 * inflight + 2 /\ LoopMeasure' = 6 * pending' + 5 * inflight' + 1
    BY <2>1 DEF LoopMeasure
  <2>4. QED
    BY <1>1, <1>2, <2>1, <2>2, <2>3
<1>9. QED
  BY <1>3, <1>4, <1>5, <1>6, <1>7, <1>8 DEF Main

LEMMA WorkerDescends ==
    ASSUME TypeInv, NEW o \in Ops, Worker(o)
    PROVE  \/ Distance[wpc'[o]] < Distance[wpc[o]]
           \/ wpc[o] \in {"pollRunning", "pollDeleted"} /\ ~Expired(o)
<1>1. /\ Distance["label"] = 7 /\ Distance["create"] = 6 /\ Distance["delete"] = 6
      /\ Distance["sleepRunning"] = 5 /\ Distance["sleepDeleted"] = 5
      /\ Distance["pollRunning"] = 4 /\ Distance["pollDeleted"] = 4
      /\ Distance["expire"] = 3 /\ Distance["cleanup"] = 2 /\ Distance["fulfill"] = 2
      /\ Distance["send"] = 1 /\ Distance["exited"] = 0
  BY DEF Distance, Busy, Waiting
<1>2. \A pc : Goto(o, pc) => wpc'[o] = pc
  BY DEF Goto, TypeInv
<1>3. wpc' = [wpc EXCEPT ![o] = "send"] => wpc'[o] = "send"
  BY DEF TypeInv
<1>4. CASE CreateReplica(o)
  <2>1. Goto(o, "pollRunning") \/ Report(o, TRUE)
    BY <1>4 DEF CreateReplica
  <2>2. wpc[o] = "create" /\ wpc'[o] \in {"pollRunning", "send"}
    BY <1>2, <1>3, <1>4, <2>1 DEF CreateReplica, Report
  <2>3. QED
    BY <1>1, <2>2
<1>5. CASE PollRunning(o)
  BY <1>1, <1>2, <1>5 DEF PollRunning
<1>6. CASE SleepRunning(o)
  BY <1>1, <1>2, <1>6 DEF SleepRunning
<1>7. CASE ExpireReservation(o)
  BY <1>1, <1>2, <1>7 DEF ExpireReservation
<1>8. CASE FulfillReservation(o)
  BY <1>1, <1>3, <1>8 DEF FulfillReservation, Report
<1>9. CASE CleanupReplica(o)
  BY <1>1, <1>3, <1>9 DEF CleanupReplica, Report
<1>10. CASE LabelReplica(o)
  BY <1>1, <1>2, <1>3, <1>10 DEF LabelReplica, Report
<1>11. CASE DeleteReplica(o)
  <2>1. Goto(o, "pollDeleted") \/ Report(o, TRUE)
    BY <1>11 DEF DeleteReplica
  <2>2. wpc[o] = "delete" /\ wpc'[o] \in {"pollDeleted", "send"}
    BY <1>2, <1>3, <1>11, <2>1 DEF DeleteReplica, Report
  <2>3. QED
    BY <1>1, <2>2
<1>12. CASE PollDeleted(o)
  BY <1>1, <1>3, <1>12 DEF PollDeleted, Report
<1>13. CASE SleepDeleted(o)
  BY <1>1, <1>2, <1>3, <1>13 DEF SleepDeleted, Report
<1>14. CASE Send(o)
  BY <1>1, <1>2, <1>14 DEF Send
<1>15. QED
  BY <1>4, <1>5, <1>6, <1>7, <1>8, <1>9, <1>10, <1>11, <1>12, <1>13, <1>14 DEF Worker, Step

LEMMA OthersKeep ==
    ASSUME TypeInv, Links, Next
    PROVE  /\ ~Main => UNCHANGED LoopMeasure
           /\ \A o \in Ops : wpc'[o] # wpc[o] => Worker(o) \/ (Main /\ wpc[o] = "idle")
<1>1. CASE Main
  <2>1. ASSUME NEW o \in Ops, wpc'[o] # wpc[o] PROVE wpc[o] = "idle"
    <3>1. PICK p \in Ops : Dispatch(p)
      BY <1>1, <2>1 DEF Main, EndDispatch, TakeResult, SelectCancelled, DrainResult, EndDrain, workerVars
    <3>2. wpc' = [wpc EXCEPT ![p] = FirstStep(p)] /\ status[p] = "pending"
      BY <3>1 DEF Dispatch, Ready
    <3>3. o = p
      BY <2>1, <3>2 DEF TypeInv
    <3>4. QED
      BY <3>2, <3>3 DEF Links
  <2>2. QED
    BY <1>1, <2>1
<1>2. ASSUME NEW p \in Ops, Worker(p)
      PROVE  /\ UNCHANGED LoopMeasure
             /\ \A o \in Ops : wpc'[o] # wpc[o] => o = p
  <2>1. UNCHANGED LoopMeasure
    BY <1>2 DEF Worker, mainVars, LoopMeasure
  <2>2. \E pc : wpc' = [wpc EXCEPT ![p] = pc]
    BY <1>2 DEF Worker, Step, Send, CreateReplica, PollRunning, SleepRunning, ExpireReservation,
                FulfillReservation, CleanupReplica, LabelReplica, DeleteReplica, PollDeleted,
                SleepDeleted, Goto, Report
  <2>3. QED
    BY <2>1, <2>2 DEF TypeInv
<1>3. CASE \/ \E o \in Ops : Deadline(o)
           \/ Cancel
           \/ Sweep
           \/ \E r \in Replicas : ClusterStep(r)
  <2>1. UNCHANGED <<mainVars, wpc>>
    BY <1>3 DEF Deadline, Cancel, Sweep, ClusterStep, mainVars, workerVars
  <2>2. QED
    BY <2>1 DEF mainVars, LoopMeasure
<1>4. CASE \E p \in Ops : Worker(p)
  <2>1. PICK p \in Ops : Worker(p)
    BY <1>4
  <2>2. UNCHANGED LoopMeasure /\ \A o \in Ops : wpc'[o] # wpc[o] => o = p
    BY <1>2, <2>1
  <2>3. QED
    BY <2>1, <2>2
<1>5. QED
  <2>1. \/ Main
        \/ \E p \in Ops : Worker(p)
        \/ \E o \in Ops : Deadline(o)
        \/ Cancel \/ Sweep \/ \E r \in Replicas : ClusterStep(r)
    BY DEF Next
  <2>2. QED
    BY <1>1, <1>3, <1>4, <2>1

(* With NobodyWaitsForNobody, why Execute returns for every plan: it takes *)
(* a bounded number of steps, and the deadlines of waitForRunning and      *)
(* waitForDeletion bound those of its workers.                             *)
THEOREM StepsRunOutHolds == Spec => StepsRunOut
<1> DEFINE MainDown == Main => LoopMeasure \in Nat /\ LoopMeasure' \in Nat
                                 /\ LoopMeasure' < LoopMeasure
           WorkersDown == \A o \in Ops : Worker(o) =>
                             \/ Distance[wpc'[o]] < Distance[wpc[o]]
                             \/ wpc[o] \in {"pollRunning", "pollDeleted"} /\ ~Expired(o)
           LoopKept    == ~Main => UNCHANGED LoopMeasure
           WorkersKept == \A o \in Ops : wpc'[o] # wpc[o] =>
                             Worker(o) \/ (Main /\ wpc[o] = "idle")
<1>1. TypeInv /\ Links /\ Counts /\ Counts' /\ NobodyWaitsForNobody /\ [Next]_vars
        => [MainDown]_vars
  BY MainDescends
<1>2. TypeInv /\ [Next]_vars => [WorkersDown]_vars
  BY WorkerDescends
<1>3. TypeInv /\ Links /\ [Next]_vars => [LoopKept]_vars /\ [WorkersKept]_vars
  BY OthersKeep
<1>4. QED
  BY <1>1, <1>2, <1>3, TypeInvariant, LinksInvariant, CountsInvariant, NobodyWaitsForNobodyHolds,
     PTL DEF Spec, StepsRunOut

LEMMA SameDescendants == Plan!Descendants = Descendants
  BY DEF Plan!Descendants, Plan!Closed, Descendants, Closed

(* The statement of PlanSteps: Execute implements PlanExecution, that is,  *)
(* each step of the main loop, of a worker, of a cluster or of the sweeper *)
(* is one step of the plan or invisible.                                   *)
THEOREM PlanStepsHolds == Spec => PlanSteps
<1>1. Init => Plan!Init
  BY DEF Init, Plan!Init
<1>2. /\ TypeInv /\ Links /\ ReturnDecidesAll /\ ReturnDecidesAll'
      /\ [Next]_vars
      => [Plan!Next]_(Plan!vars)
  <2> SUFFICES ASSUME TypeInv, Links, ReturnDecidesAll, ReturnDecidesAll', [Next]_vars
               PROVE  Plan!Next \/ UNCHANGED Plan!vars
    OBVIOUS
  <2>1. ASSUME NEW o \in Ops, Dispatch(o) PROVE Plan!Start(o)
    BY <2>1 DEF Dispatch, Ready, depsCompleted, Plan!Start
  <2>2. CASE EndDispatch
    <3>1. CASE inflight = 0
      <4>1. \A o \in Ops : status[o] \in Plan!Final
        BY <2>2, <3>1 DEF EndDispatch, ReturnDecidesAll, Plan!Final
      <4>2. Plan!Return
        BY <2>2, <3>1, <4>1 DEF EndDispatch, Plan!Return
      <4>3. QED
        BY <4>2 DEF Plan!Next
    <3>2. CASE inflight # 0
      BY <2>2, <3>2 DEF EndDispatch, Plan!vars
    <3>3. QED
      BY <3>1, <3>2
  <2>3. CASE TakeResult
    <3>1. PICK h \in Ops :
             /\ status[h] = "inflight"
             /\ \/ status' = [status EXCEPT ![h] = "completed"]
                \/ status' = [p \in Ops |-> IF p = h THEN "failed"
                                ELSE IF p \in AbortedBy(h) THEN "aborted" ELSE status[p]]
      BY <2>3, TakeResultStep
    <3>2. (mainPC' = "returned") = (mainPC = "returned")
      BY <2>3 DEF TakeResult
    <3>3. CASE status' = [status EXCEPT ![h] = "completed"]
      <4>1. Plan!Succeed(h)
        BY <3>1, <3>2, <3>3 DEF Plan!Succeed
      <4>2. QED
        BY <4>1 DEF Plan!Next
    <3>4. CASE status' = [p \in Ops |-> IF p = h THEN "failed"
                            ELSE IF p \in AbortedBy(h) THEN "aborted" ELSE status[p]]
      <4>1. \A p \in Ops : p \in AbortedBy(h)
                             <=> p \in Plan!Descendants[h] /\ status[p] = "pending"
        BY SameDescendants DEF AbortedBy
      <4>2. Plan!Fail(h)
        BY <3>1, <3>2, <3>4, <4>1 DEF Plan!Fail
      <4>3. QED
        BY <4>2 DEF Plan!Next
    <3>5. QED
      BY <3>1, <3>3, <3>4
  <2>4. CASE SelectCancelled
    <3>1. Plan!Cancel
      BY <2>4 DEF SelectCancelled, Plan!Cancel
    <3>2. QED
      BY <3>1 DEF Plan!Next
  <2>5. CASE DrainResult
    <3>1. PICK h \in Ops :
             /\ status[h] = "inflight"
             /\ status' = [status EXCEPT ![h] = IF werr[h] THEN "failed" ELSE "completed"]
      BY <2>5, DrainResultStep
    <3>2. \A p \in Ops : status[p] # "pending"
      BY <2>5 DEF DrainResult, Links
    <3>3. UNCHANGED (mainPC = "returned")
      BY <2>5 DEF DrainResult
    <3>4. CASE werr[h]
      <4>1. status' = [p \in Ops |-> IF p = h THEN "failed"
                         ELSE IF p \in Plan!Descendants[h] /\ status[p] = "pending"
                              THEN "aborted" ELSE status[p]]
        BY <3>1, <3>2, <3>4 DEF TypeInv
      <4>2. Plan!Fail(h)
        BY <3>1, <3>3, <4>1 DEF Plan!Fail
      <4>3. QED
        BY <4>2 DEF Plan!Next
    <3>5. CASE ~werr[h]
      <4>1. Plan!Succeed(h)
        BY <3>1, <3>3, <3>5 DEF Plan!Succeed
      <4>2. QED
        BY <4>1 DEF Plan!Next
    <3>6. QED
      BY <3>4, <3>5
  <2>6. CASE EndDrain
    BY <2>6 DEF EndDrain, Plan!vars
  <2>7. CASE UNCHANGED <<mainPC, status>>
    BY <2>7 DEF Plan!vars
  <2>8. QED
    BY <2>1, <2>2, <2>3, <2>4, <2>5, <2>6, <2>7, OutsideMain DEF Main, Plan!Next
<1>3. QED
  BY <1>1, <1>2, TypeInvariant, LinksInvariant, ReturnDecidesAllHolds, PTL
     DEF Spec, PlanSteps

-----------------------------------------------------------------------------
(* What the workers do to replicas and reservations. *)

(* The worker of o has an outcome, sent or not.                            *)
Decided(o)   == wpc[o] \in {"send", "exited"}
Succeeded(o) == Decided(o) /\ ~werr[o]
Failed(o)    == Decided(o) /\ werr[o]
Gone(o)      == cluster[Target[o]] \in {"terminating", "absent"}

(* The worker of an operation only ever is in the code for its kind.       *)
Placed(o) ==
    wpc[o] \in {"idle", "send", "exited"}
                 \cup IF o \in ScaleUps
                      THEN {"create", "pollRunning", "sleepRunning",
                            "expire", "cleanup", "fulfill"}
                      ELSE {"label", "delete", "pollDeleted", "sleepDeleted"}

(* A replica is created by its own scale-up, once that was started; what   *)
(* a preemption or scale-down has had deleted stays so.                    *)
Released(o) ==
    IF o \in ScaleUps
    THEN wpc[o] = "idle" => cluster[Target[o]] = "absent"
    ELSE wpc[o] \in {"pollDeleted", "sleepDeleted"} \/ Succeeded(o) => Gone(o)

(* A reservation is fulfilled by an operation that succeeds, and by no     *)
(* other; the sweeper may expire it first.                                 *)
ReservationEnds(o) ==
    o \in Reserved =>
        /\ reservation[o] # "none"
        /\ reservation[o] = "fulfilled" => Succeeded(o)
        /\ Succeeded(o) => reservation[o] \in {"fulfilled", "expired"}

(* While no call fails, what did not start in time is deleted.             *)
Cleaned(o) ==
    o \in ScaleUps /\ ~ApiErrors /\ ~ctxDone => (Failed(o) => Gone(o))

(* While nobody else deletes replicas: one that is waited for is there,    *)
(* and one that was reported running runs.                                 *)
Kept(o) ==
    o \in ScaleUps /\ ~ExternalDeletes =>
        /\ wpc[o] \in {"pollRunning", "sleepRunning"} =>
              cluster[Target[o]] \in {"pending", "running"}
        /\ wpc[o] = "fulfill" \/ Succeeded(o) => cluster[Target[o]] = "running"

Consistent(o) == Placed(o) /\ Released(o) /\ ReservationEnds(o) /\ Cleaned(o) /\ Kept(o)

WorkersConsistent == \A o \in Ops : Consistent(o)

(* A step of the worker of o leaves the state of other workers and other   *)
(* replicas alone.                                                         *)
LEMMA StepIsLocal ==
    ASSUME TypeInv, NEW o \in Ops, Step(o)
    PROVE  /\ \A p \in Ops : p # o => /\ wpc'[p] = wpc[p] /\ werr'[p] = werr[p]
                                      /\ reservation'[p] = reservation[p]
           /\ \A r \in Replicas : r # Target[o] => cluster'[r] = cluster[r]
<1>0. Target[o] \in Replicas
  BY PlanAssumption
<1>1. CASE CreateReplica(o)
  BY <1>0, <1>1 DEF CreateReplica, Call, Goto, Report, TypeInv
<1>2. CASE PollRunning(o)
  BY <1>0, <1>2 DEF PollRunning, Goto, Report, TypeInv
<1>3. CASE SleepRunning(o)
  BY <1>0, <1>3 DEF SleepRunning, Goto, Report, TypeInv
<1>4. CASE ExpireReservation(o)
  BY <1>0, <1>4 DEF ExpireReservation, Goto, Report, TypeInv
<1>5. CASE FulfillReservation(o)
  BY <1>0, <1>5 DEF FulfillReservation, Goto, Report, TypeInv
<1>6. CASE CleanupReplica(o)
  BY <1>0, <1>6 DEF CleanupReplica, Call, Goto, Report, TypeInv
<1>7. CASE LabelReplica(o)
  BY <1>0, <1>7 DEF LabelReplica, Goto, Report, TypeInv
<1>8. CASE DeleteReplica(o)
  BY <1>0, <1>8 DEF DeleteReplica, Call, Goto, Report, TypeInv
<1>9. CASE PollDeleted(o)
  BY <1>0, <1>9 DEF PollDeleted, Goto, Report, TypeInv
<1>10. CASE SleepDeleted(o)
  BY <1>0, <1>10 DEF SleepDeleted, Goto, Report, TypeInv
<1>11. QED
  BY <1>1, <1>2, <1>3, <1>4, <1>5, <1>6, <1>7, <1>8, <1>9, <1>10 DEF Step

(* The worker of o keeps what is said of o.                                *)
LEMMA OwnStep ==
    ASSUME TypeInv, NEW o \in Ops, Consistent(o), Step(o), UNCHANGED ctxDone
    PROVE  Consistent(o)'
<1>0. /\ Target[o] \in Replicas
      /\ o \in Reserved => o \in ScaleUps
  BY PlanAssumption
<1> USE <1>0 DEF Consistent, Placed, Released, ReservationEnds, Cleaned, Kept,
                 Succeeded, Failed, Decided, Gone
<1>1. CASE CreateReplica(o)
  <2>0. wpc[o] = "create" /\ UNCHANGED reservation
    BY <1>1 DEF CreateReplica
  <2>1. CASE /\ wpc' = [wpc EXCEPT ![o] = "pollRunning"] /\ UNCHANGED werr
             /\ cluster' = [cluster EXCEPT ![Target[o]] = "pending"]
    BY <2>0, <2>1 DEF TypeInv
  <2>2. CASE /\ wpc' = [wpc EXCEPT ![o] = "send"] /\ werr' = [werr EXCEPT ![o] = TRUE]
             /\ ApiErrors \/ ctxDone
    BY <2>0, <2>2 DEF TypeInv
  <2>3. QED
    BY <1>1, <2>1, <2>2 DEF CreateReplica, Call, CallMayFail, Goto, Report
<1>2. CASE PollRunning(o)
  BY <1>2 DEF PollRunning, Answers, Goto, TypeInv
<1>3. CASE SleepRunning(o)
  BY <1>3 DEF SleepRunning, Goto, TypeInv
<1>4. CASE ExpireReservation(o)
  BY <1>4 DEF ExpireReservation, Goto, TypeInv
<1>5. CASE FulfillReservation(o)
  BY <1>5 DEF FulfillReservation, Report, TypeInv
<1>6. CASE CleanupReplica(o)
  <2>0. /\ wpc[o] = "cleanup" /\ UNCHANGED reservation
        /\ wpc' = [wpc EXCEPT ![o] = "send"] /\ werr' = [werr EXCEPT ![o] = TRUE]
    BY <1>6 DEF CleanupReplica, Report
  <2>1. CASE cluster' = [cluster EXCEPT ![Target[o]] = Deleted(Target[o])]
    BY <2>0, <2>1 DEF Deleted, TypeInv
  <2>2. CASE ApiErrors \/ ctxDone
    BY <2>0, <2>2 DEF TypeInv
  <2>3. QED
    BY <1>6, <2>1, <2>2 DEF CleanupReplica, Call, CallMayFail
<1>7. CASE LabelReplica(o)
  BY <1>7 DEF LabelReplica, Goto, Report, TypeInv
<1>8. CASE DeleteReplica(o)
  <2>0. wpc[o] = "delete" /\ UNCHANGED reservation
    BY <1>8 DEF DeleteReplica
  <2>1. CASE /\ wpc' = [wpc EXCEPT ![o] = "pollDeleted"] /\ UNCHANGED werr
             /\ cluster' = [cluster EXCEPT ![Target[o]] = Deleted(Target[o])]
    BY <2>0, <2>1 DEF Deleted, TypeInv
  <2>2. CASE wpc' = [wpc EXCEPT ![o] = "send"] /\ werr' = [werr EXCEPT ![o] = TRUE]
    BY <2>0, <2>2 DEF TypeInv
  <2>3. QED
    BY <1>8, <2>1, <2>2 DEF DeleteReplica, Call, Goto, Report
<1>9. CASE PollDeleted(o)
  <2>0. wpc[o] = "pollDeleted" /\ UNCHANGED <<reservation, cluster>>
    BY <1>9 DEF PollDeleted
  <2>1. CASE wpc' = [wpc EXCEPT ![o] = "sleepDeleted"] /\ UNCHANGED werr
    BY <2>0, <2>1 DEF TypeInv
  <2>2. CASE wpc' = [wpc EXCEPT ![o] = "send"] /\ werr' = [werr EXCEPT ![o] = FALSE]
    BY <2>0, <2>2 DEF TypeInv
  <2>3. QED
    BY <1>9, <2>1, <2>2 DEF PollDeleted, Goto, Report
<1>10. CASE SleepDeleted(o)
  BY <1>10 DEF SleepDeleted, Goto, Report, TypeInv
<1>11. QED
  BY <1>1, <1>2, <1>3, <1>4, <1>5, <1>6, <1>7, <1>8, <1>9, <1>10 DEF Step

(* The worker of p does so too: only two operations that stop replicas can *)
(* share one, and neither brings it back.                                  *)
LEMMA OtherStep ==
    ASSUME TypeInv, NEW o \in Ops, NEW p \in Ops, p # o, Consistent(o), Placed(p), Step(p),
           UNCHANGED ctxDone
    PROVE  Consistent(o)'
<1>0. wpc'[o] = wpc[o] /\ werr'[o] = werr[o] /\ reservation'[o] = reservation[o]
  BY StepIsLocal
<1>1. Target[o] \in Replicas /\ Target[p] \in Replicas
  BY PlanAssumption
<1>2. CASE cluster'[Target[o]] = cluster[Target[o]]
  BY <1>0, <1>2 DEF Consistent, Placed, Released, ReservationEnds, Cleaned, Kept,
                    Succeeded, Failed, Decided, Gone
<1>3. CASE cluster'[Target[o]] # cluster[Target[o]]
  <2>1. Target[p] = Target[o]
    BY <1>1, <1>3, StepIsLocal
  <2>2. o \notin ScaleUps /\ p \notin ScaleUps
    BY <2>1, PlanAssumption
  <2>3. wpc[p] = "delete" /\ cluster' = [cluster EXCEPT ![Target[p]] = Deleted(Target[p])]
    BY <1>3, <2>2
       DEF Placed, Step, CreateReplica, PollRunning, SleepRunning, ExpireReservation,
           FulfillReservation, CleanupReplica, LabelReplica, DeleteReplica, Call,
           PollDeleted, SleepDeleted
  <2>4. Gone(o)'
    BY <1>1, <2>1, <2>3 DEF Deleted, Gone, TypeInv
  <2>5. QED
    BY <1>0, <2>2, <2>4, PlanAssumption
       DEF Consistent, Placed, Released, ReservationEnds, Cleaned, Kept,
           Succeeded, Failed, Decided
<1>4. QED
  BY <1>2, <1>3

LEMMA WorkersConsistentInvariant == Spec => []WorkersConsistent
<1>1. Init => WorkersConsistent
  <2> SUFFICES ASSUME Init, NEW o \in Ops PROVE Consistent(o)
    BY DEF WorkersConsistent
  <2>1. wpc[o] = "idle"
    BY DEF Init
  <2>2. o \in ScaleUps => cluster[Target[o]] = "absent"
    BY PlanAssumption DEF Init
  <2>3. o \in Reserved => reservation[o] = "active"
    BY DEF Init
  <2>4. QED
    BY <2>1, <2>2, <2>3 DEF Consistent, Placed, Released, ReservationEnds, Cleaned, Kept,
                            Succeeded, Failed, Decided
<1>2. TypeInv /\ Links /\ WorkersConsistent /\ [Next]_vars => WorkersConsistent'
  <2> SUFFICES ASSUME TypeInv, Links, WorkersConsistent, [Next]_vars, NEW o \in Ops
               PROVE  Consistent(o)'
    BY DEF WorkersConsistent
  <2>0. Consistent(o) /\ Target[o] \in Replicas
    BY PlanAssumption DEF WorkersConsistent
  <2> DEFINE Same == /\ wpc'[o] = wpc[o] /\ werr'[o] = werr[o]
                     /\ reservation'[o] = reservation[o]
                     /\ cluster'[Target[o]] = cluster[Target[o]]
                     /\ ctxDone => ctxDone'
  <2>1. CASE Same
    BY <2>0, <2>1 DEF Consistent, Placed, Released, ReservationEnds, Cleaned, Kept,
                      Succeeded, Failed, Decided, Gone
  <2>2. ASSUME NEW p \in Ops, Dispatch(p) PROVE Consistent(o)'
    <3>1. CASE p # o
      BY <2>1, <2>2, <3>1 DEF Dispatch, TypeInv
    <3>2. CASE p = o
      <4>1. wpc[o] = "idle"
        BY <2>2, <3>2 DEF Dispatch, Ready, Links
      <4>2. /\ wpc'[o] = FirstStep(o) /\ werr'[o] = (o \notin Routable)
            /\ UNCHANGED <<reservation, cluster, ctxDone>>
        BY <2>2, <3>2 DEF Dispatch, TypeInv
      <4>3. CASE o \notin Routable
        <5>1. wpc'[o] = "send"
          BY <4>2, <4>3 DEF FirstStep
        <5>2. werr'[o]
          BY <4>2, <4>3, Zenon
        <5>3. QED
          BY <2>0, <4>1, <4>2, <5>1, <5>2, PlanAssumption
             DEF Consistent, Placed, Released, ReservationEnds, Cleaned, Kept,
                 Succeeded, Failed, Decided, Gone
      <4>4. CASE o \in Routable
        <5>1. wpc'[o] \in IF o \in ScaleUps THEN {"create"} ELSE {"label", "delete"}
          BY <4>2, <4>4, PlanAssumption DEF FirstStep, ScaleUps
        <5>2. QED
          BY <2>0, <4>1, <4>2, <5>1
             DEF Consistent, Placed, Released, ReservationEnds, Cleaned, Kept,
                 Succeeded, Failed, Decided
      <4>5. QED
        BY <4>3, <4>4
    <3>3. QED
      BY <3>1, <3>2
  <2>3. CASE Main /\ \A p \in Ops : ~Dispatch(p)
    BY <2>1, <2>3 DEF Main, EndDispatch, TakeResult, SelectCancelled, DrainResult, EndDrain,
                      workerVars
  <2>4. ASSUME NEW p \in Ops, Worker(p) PROVE Consistent(o)'
    <3>1. CASE Step(p)
      <4>1. UNCHANGED ctxDone
        BY <2>4 DEF Worker
      <4>2. Placed(p)
        BY DEF WorkersConsistent, Consistent
      <4>3. QED
        BY <2>0, <3>1, <4>1, <4>2, OwnStep, OtherStep
    <3>2. CASE Send(p)
      <4>1. CASE p # o
        BY <2>1, <2>4, <3>2, <4>1 DEF Worker, Send, Goto, TypeInv
      <4>2. CASE p = o
        BY <2>0, <2>4, <3>2, <4>2
           DEF Worker, Send, Goto, TypeInv, Consistent, Placed, Released, ReservationEnds,
               Cleaned, Kept, Succeeded, Failed, Decided, Gone
      <4>3. QED
        BY <4>1, <4>2
    <3>3. QED
      BY <2>4, <3>1, <3>2 DEF Worker
  <2>5. ASSUME NEW p \in Ops, Deadline(p) PROVE Consistent(o)'
    BY <2>1, <2>5 DEF Deadline, workerVars
  <2>6. CASE Cancel
    BY <2>1, <2>6 DEF Cancel, workerVars
  <2>7. CASE Sweep
    <3>1. /\ reservation'[o] = reservation[o] \/ reservation'[o] = "expired"
          /\ UNCHANGED <<wpc, werr, cluster, ctxDone>>
      BY <2>7 DEF Sweep, workerVars
    <3>2. reservation[o] = "fulfilled" => reservation'[o] = "fulfilled"
      BY <2>7 DEF Sweep
    <3>3. QED
      BY <2>0, <3>1, <3>2
         DEF Consistent, Placed, Released, ReservationEnds, Cleaned, Kept,
             Succeeded, Failed, Decided, Gone
  <2>8. ASSUME NEW r \in Replicas, ClusterStep(r) PROVE Consistent(o)'
    <3>1. UNCHANGED <<wpc, werr, reservation, ctxDone>>
      BY <2>8 DEF ClusterStep, workerVars
    <3>2. /\ cluster[Target[o]] = "absent" => cluster'[Target[o]] = "absent"
          /\ Gone(o) => Gone(o)'
          /\ ~ExternalDeletes => /\ cluster[Target[o]] \in {"pending", "running"}
                                      => cluster'[Target[o]] \in {"pending", "running"}
                                 /\ cluster[Target[o]] = "running"
                                      => cluster'[Target[o]] = "running"
      BY <2>0, <2>8 DEF ClusterStep, Gone, TypeInv
    <3>3. QED
      BY <2>0, <3>1, <3>2
         DEF Consistent, Placed, Released, ReservationEnds, Cleaned, Kept,
             Succeeded, Failed, Decided
  <2>9. CASE UNCHANGED vars
    BY <2>1, <2>9 DEF vars, workerVars
  <2>10. QED
    BY <2>2, <2>3, <2>4, <2>5, <2>6, <2>7, <2>8, <2>9 DEF Next
<1>3. QED
  BY <1>1, <1>2, TypeInvariant, LinksInvariant, PTL DEF Spec

(* The main loop reports what the workers did. *)
Outcomes ==
    \A o \in Ops : /\ status[o] = "completed" => Succeeded(o)
                   /\ status[o] = "failed" => Failed(o)

(* What a worker reports stands once it has sent its result.               *)
LEMMA OutcomesInvariant == Spec => []Outcomes
<1>1. Init => Outcomes
  BY DEF Init, Outcomes
<1>2. TypeInv /\ Links /\ Outcomes /\ [Next]_vars => Outcomes'
  <2> SUFFICES ASSUME TypeInv, Links, Outcomes, [Next]_vars, NEW o \in Ops
               PROVE  /\ status'[o] = "completed" => Succeeded(o)'
                      /\ status'[o] = "failed" => Failed(o)'
    BY DEF Outcomes
  <2>1. CASE status[o] \in {"completed", "failed"}
    <3>1. wpc[o] = "exited" /\ status'[o] = status[o]
      BY <2>1, FinalIsFinal DEF Links
    <3>2. wpc'[o] = wpc[o] /\ werr'[o] = werr[o]
      <4>1. ASSUME NEW p \in Ops, Worker(p) PROVE wpc'[o] = wpc[o] /\ werr'[o] = werr[o]
        <5>1. CASE Step(p)
          BY <3>1, <5>1, WorkerStep, StepIsLocal DEF Busy, Waiting
        <5>2. CASE Send(p)
          BY <3>1, <5>2 DEF Send, Goto, TypeInv
        <5>3. QED
          BY <4>1, <5>1, <5>2 DEF Worker
      <4>2. ASSUME NEW p \in Ops, Dispatch(p) PROVE wpc'[o] = wpc[o] /\ werr'[o] = werr[o]
        BY <2>1, <4>2 DEF Dispatch, Ready, TypeInv
      <4>3. CASE UNCHANGED workerVars
        BY <4>3 DEF workerVars
      <4>4. QED
        BY <4>1, <4>2, <4>3
           DEF Next, Main, EndDispatch, TakeResult, SelectCancelled, DrainResult, EndDrain,
               Deadline, Cancel, Sweep, ClusterStep, vars
    <3>3. QED
      BY <2>1, <3>1, <3>2 DEF Outcomes, Succeeded, Failed, Decided
  <2>2. CASE status[o] \notin {"completed", "failed"}
    <3>1. CASE TakeResult
      <4>1. PICK h \in Ops :
               /\ wpc[h] = "exited"
               /\ \/ ~werr[h] /\ status' = [status EXCEPT ![h] = "completed"]
                  \/ werr[h] /\ status' = [p \in Ops |-> IF p = h THEN "failed"
                                  ELSE IF p \in AbortedBy(h) THEN "aborted" ELSE status[p]]
        BY <3>1, TakeResultStep
      <4>2. /\ status'[o] = "completed" => wpc[o] = "exited" /\ ~werr[o]
            /\ status'[o] = "failed" => wpc[o] = "exited" /\ werr[o]
        BY <2>2, <4>1 DEF TypeInv
      <4>3. UNCHANGED <<wpc, werr>>
        BY <3>1 DEF TakeResult, workerVars
      <4>4. QED
        BY <4>2, <4>3 DEF Succeeded, Failed, Decided
    <3>2. CASE DrainResult
      <4>1. PICK h \in Ops :
               /\ wpc[h] = "exited"
               /\ status' = [status EXCEPT ![h] = IF werr[h] THEN "failed" ELSE "completed"]
        BY <3>2, DrainResultStep
      <4>2. /\ status'[o] = "completed" => wpc[o] = "exited" /\ ~werr[o]
            /\ status'[o] = "failed" => wpc[o] = "exited" /\ werr[o]
        BY <2>2, <4>1 DEF TypeInv
      <4>3. UNCHANGED <<wpc, werr>>
        BY <3>2 DEF DrainResult, workerVars
      <4>4. QED
        BY <4>2, <4>3 DEF Succeeded, Failed, Decided
    <3>3. CASE ~TakeResult /\ ~DrainResult
      <4>1. status'[o] \notin {"completed", "failed"}
        <5>1. ASSUME NEW p \in Ops, Dispatch(p)
              PROVE  status'[o] \notin {"completed", "failed"}
          BY <2>2, <5>1 DEF Dispatch, TypeInv
        <5>2. CASE SelectCancelled
          BY <2>2, <5>2 DEF SelectCancelled
        <5>3. CASE UNCHANGED status
          BY <2>2, <5>3
        <5>4. QED
          BY <3>3, <5>1, <5>2, <5>3, OutsideMain DEF Main, EndDispatch, EndDrain
      <4>2. QED
        BY <4>1
    <3>4. QED
      BY <3>1, <3>2, <3>3
  <2>3. QED
    BY <2>1, <2>2
<1>3. QED
  BY <1>1, <1>2, TypeInvariant, LinksInvariant, PTL DEF Spec

(* The statement of ReservationFitsOutcome: only an operation that         *)
(* completes has its reservation fulfilled, and then it holds no GPUs back *)
(* any more, whoever of worker and sweeper ended it.                       *)
THEOREM ReservationFitsOutcomeHolds == Spec => []ReservationFitsOutcome
<1>1. TypeInv /\ Links /\ WorkersConsistent /\ Outcomes => ReservationFitsOutcome
  <2> SUFFICES ASSUME TypeInv, Links, WorkersConsistent, Outcomes, NEW o \in Reserved
               PROVE  /\ reservation[o] = "fulfilled" => status[o] \in {"inflight", "completed"}
                      /\ status[o] = "completed" => reservation[o] \in {"fulfilled", "expired"}
    BY DEF ReservationFitsOutcome
  <2>1. o \in Ops /\ ReservationEnds(o)
    BY PlanAssumption DEF WorkersConsistent, Consistent, ScaleUps
  <2>2. Succeeded(o) => status[o] \in {"inflight", "completed"}
    BY <2>1 DEF TypeInv, Links, Outcomes, Succeeded, Failed, Decided
  <2>3. QED
    BY <2>1, <2>2 DEF Outcomes, ReservationEnds
<1>2. QED
  BY <1>1, TypeInvariant, LinksInvariant, WorkersConsistentInvariant, OutcomesInvariant, PTL

(* The statement of VictimsReleasedFirst: no replica of a scale-up exists  *)
(* before the deletion of all victims it waits for was accepted, however   *)
(* many operations share a victim and whatever calls fail.                 *)
THEOREM VictimsReleasedFirstHolds == Spec => []VictimsReleasedFirst
<1>1. DependenciesFirst /\ WorkersConsistent /\ Outcomes => VictimsReleasedFirst
  <2> SUFFICES ASSUME DependenciesFirst, WorkersConsistent, Outcomes,
                      NEW o \in ScaleUps, cluster[Target[o]] # "absent",
                      NEW d \in Deps[o], Kind[d] # "scaleUp"
               PROVE  Gone(d)
    BY DEF VictimsReleasedFirst, Gone
  <2>1. o \in Ops /\ d \in Ops /\ d \notin ScaleUps
    BY PlanAssumption DEF ScaleUps
  <2>2. wpc[o] # "idle"
    BY <2>1 DEF WorkersConsistent, Consistent, Released
  <2>3. Succeeded(d)
    BY <2>1, <2>2 DEF DependenciesFirst, Outcomes
  <2>4. QED
    BY <2>1, <2>3 DEF WorkersConsistent, Consistent, Released
<1>2. QED
  BY <1>1, DependenciesFirstHolds, WorkersConsistentInvariant, OutcomesInvariant, PTL

(* The statement of NoOrphanBeforeCancel, where the clusters' calls do not *)
(* fail by themselves: a scale-up that fails leaves no replica behind,     *)
(* however its deadline, the start of the replica, others who delete it    *)
(* and a cancellation that is yet to come race.                            *)
THEOREM NoOrphanBeforeCancelHolds == ASSUME ~ApiErrors PROVE Spec => []NoOrphanBeforeCancel
<1>1. WorkersConsistent => NoOrphanBeforeCancel
  BY DEF WorkersConsistent, Consistent, Cleaned, Failed, Decided, Gone,
         NoOrphanBeforeCancel, ScaleUps
<1>2. QED
  BY <1>1, WorkersConsistentInvariant, PTL

(* What Cycle promises of a migration (NoPreemptedMigration): no other     *)
(* operation of the plan stops the replica that it replaces.               *)
MigrationsOwnReplicas ==
    \A o, p \in Ops :
        Kind[o] = "scaleDown" /\ Deps[o] \cap ScaleUps # {} /\ Target[p] = Target[o] => p = o

(* The second half of a migration not yet started, the old replica runs.   *)
OldKept ==
    \A o \in Ops :
        Kind[o] = "scaleDown" /\ Deps[o] \cap ScaleUps # {} /\ wpc[o] = "idle"
            => cluster[Target[o]] = "running"

LEMMA OldKeptInvariant ==
    ASSUME ~ExternalDeletes, MigrationsOwnReplicas
    PROVE  Spec => []OldKept
<1>1. Init => OldKept
  BY PlanAssumption DEF Init, OldKept, ScaleUps
<1>2. TypeInv /\ OldKept /\ [Next]_vars => OldKept'
  <2> SUFFICES ASSUME TypeInv, OldKept, [Next]_vars, NEW o \in Ops,
                      Kind[o] = "scaleDown", Deps[o] \cap ScaleUps # {}, wpc'[o] = "idle"
               PROVE  cluster'[Target[o]] = "running"
    BY DEF OldKept
  <2>0. Target[o] \in Replicas
    BY PlanAssumption
  <2>1. ASSUME NEW p \in Ops, Worker(p) PROVE cluster'[Target[o]] = "running"
    <3>1. p # o /\ wpc[o] = "idle"
      <4>1. CASE Step(p)
        BY <4>1, WorkerStep, StepIsLocal DEF TypeInv, Busy, Waiting
      <4>2. CASE Send(p)
        BY <4>2 DEF Send, Goto, TypeInv
      <4>3. QED
        BY <2>1, <4>1, <4>2 DEF Worker
    <3>2. cluster[Target[o]] = "running" /\ Target[p] # Target[o]
      BY <3>1 DEF OldKept, MigrationsOwnReplicas
    <3>3. QED
      BY <2>0, <2>1, <3>2, StepIsLocal DEF Worker, Send
  <2>2. ASSUME NEW r \in Replicas, ClusterStep(r) PROVE cluster'[Target[o]] = "running"
    BY <2>0, <2>2 DEF ClusterStep, workerVars, TypeInv, OldKept
  <2>3. ASSUME NEW p \in Ops, Dispatch(p) PROVE cluster'[Target[o]] = "running"
    <3>1. FirstStep(p) # "idle"
      BY FirstStepType DEF Busy, Waiting
    <3>2. QED
      BY <2>3, <3>1 DEF Dispatch, TypeInv, OldKept
  <2>4. CASE UNCHANGED <<wpc, cluster>>
    BY <2>4 DEF OldKept
  <2>5. QED
    BY <2>1, <2>2, <2>3, <2>4
       DEF Next, Main, EndDispatch, TakeResult, SelectCancelled, DrainResult, EndDrain,
           Deadline, Cancel, Sweep, vars, workerVars
<1>3. QED
  BY <1>1, <1>2, TypeInvariant, PTL DEF Spec

(* The statement of BlueGreen, for plans as Cycle makes them and while     *)
(* nobody else deletes replicas: the old replica of a migration is         *)
(* not touched before the new one runs, which then keeps running, although *)
(* the status of a replica is read long before it is acted upon.           *)
THEOREM BlueGreenHolds ==
    ASSUME ~ExternalDeletes, MigrationsOwnReplicas
    PROVE  Spec => []BlueGreen
<1>1. DependenciesFirst /\ WorkersConsistent /\ Outcomes /\ OldKept => BlueGreen
  <2> SUFFICES ASSUME DependenciesFirst, WorkersConsistent, Outcomes, OldKept,
                      NEW o \in Ops, Kind[o] = "scaleDown",
                      cluster[Target[o]] \in {"terminating", "absent"},
                      NEW d \in Deps[o] \cap ScaleUps
               PROVE  cluster[Target[d]] = "running"
    BY DEF BlueGreen
  <2>1. wpc[o] # "idle"
    BY DEF OldKept
  <2>2. d \in Ops /\ Succeeded(d)
    BY <2>1 DEF DependenciesFirst, Outcomes, ScaleUps
  <2>3. QED
    BY <2>2 DEF WorkersConsistent, Consistent, Kept
<1>2. QED
  BY <1>1, DependenciesFirstHolds, WorkersConsistentInvariant, OutcomesInvariant,
     OldKeptInvariant, PTL
=============================================================================
