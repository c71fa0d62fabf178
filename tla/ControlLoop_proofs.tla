------------------------- MODULE ControlLoop_proofs -------------------------
(***************************************************************************)
(* Facts about ControlLoop and Scaling for every value of the constants:   *)
(* types, that the events on the way lead from the replicas tracked to     *)
(* those that run, and that nothing is ever scaled down.                   *)
(***************************************************************************)
EXTENDS ControlLoop, FiniteSetTheorems, TLAPS

-----------------------------------------------------------------------------
(* The scaling engine.                                                     *)

(* What a pressed metric asks for is a number of replicas.                 *)
LEMMA RequiredType ==
    ASSUME NEW current \in Nat, NEW pressed \in BOOLEAN, NEW value \in Nat,
           NEW target \in Nat, pressed => target # 0
    PROVE  Required(current, pressed, value, target) \in Int
<1>1. CASE ~pressed
  <2>1. Required(current, pressed, value, target) = current
    BY <1>1, Zenon DEF Required
  <2>2. QED
    BY <2>1
<1>2. CASE pressed /\ current = 0
  <2>1. Required(current, pressed, value, target) = 1
    BY <1>2, Zenon DEF Required
  <2>2. QED
    BY <2>1
<1>3. CASE pressed /\ current # 0
  <2>1. Required(current, pressed, value, target) = CeilScaled(current, value, target)
    BY <1>3, Zenon DEF Required
  <2>2. CeilScaled(current, value, target) \in Int
    <3> DEFINE p == current * value + target - 1
    <3>1. p \in Int
        OBVIOUS
    <3>2. target \in Nat \ {0}
        BY <1>3
    <3> HIDE DEF p
    <3>3. p \div target \in Int
        BY <3>1, <3>2
    <3>4. QED
        BY <3>3 DEF CeilScaled, p
  <2>3. QED
    BY <2>1, <2>2
<1>4. QED
    BY <1>1, <1>2, <1>3

LEMMA MaxIntType ==
    ASSUME NEW x \in Int, NEW y \in Int
    PROVE  /\ maxInt(x, y) \in Int /\ maxInt(x, y) >= x /\ maxInt(x, y) >= y
           /\ minInt(x, y) \in Int
BY DEF maxInt, minInt

(* The signals and limits give an integer, whatever the metrics.           *)
LEMMA RawTargetType ==
    ASSUME NEW a \in Apps, NEW m \in Readings, NEW current \in Nat
    PROVE  RawTarget(a, m, current) \in Int
<1>1. /\ m.queue \in Nat /\ m.batch \in Nat /\ m.maxKVCache \in Nat
      /\ m.avgKVCache \in Nat /\ m.ttft \in Nat
    BY ScalingAssumption
<1>2. /\ QueueTarget \in Nat \ {0} /\ KVCacheTarget \in Nat \ {0}
      /\ MaxP99TTFT[a] \in Nat /\ MinReplicas[a] \in Nat
      /\ MaxScaleDownPerCycle \in Nat /\ MaxScaleUpPerCycle \in Nat
    BY ScalingAssumption
<1> DEFINE q == Required(current, m.queue > QueueHighWatermark, m.queue, QueueTarget)
           k == Required(current, m.maxKVCache > KVCacheHighWatermark, m.maxKVCache, KVCacheTarget)
           s == Required(current, IsSLABreach(a, m), m.ttft, MaxP99TTFT[a])
           e == DesiredForEfficiency(a, m, current)
           u == ScaleUpTarget(a, m, current)
<1>3. q \in Int
  <2>1. (m.queue > QueueHighWatermark) \in BOOLEAN /\ QueueTarget \in Nat /\ QueueTarget # 0
    BY <1>2
  <2>2. QED
    BY <1>1, <2>1, RequiredType, ZenonT(60)
<1>4. k \in Int
  <2>1. (m.maxKVCache > KVCacheHighWatermark) \in BOOLEAN /\ KVCacheTarget \in Nat /\ KVCacheTarget # 0
    BY <1>2
  <2>2. QED
    BY <1>1, <2>1, RequiredType, ZenonT(60)
<1>5. s \in Int
  <2>1. IsSLABreach(a, m) \in BOOLEAN /\ (IsSLABreach(a, m) => MaxP99TTFT[a] # 0)
    BY DEF IsSLABreach
  <2>2. QED
    BY <1>1, <1>2, <2>1, RequiredType, ZenonT(60)
<1>6. u \in Int
  <2> HIDE DEF q, k, s
  <2>1. maxInt(k, s) \in Int
    BY <1>4, <1>5, MaxIntType
  <2>2. maxInt(q, maxInt(k, s)) \in Int
    BY <1>3, <2>1, MaxIntType
  <2>3. QED
    BY <2>2 DEF ScaleUpTarget, q, k, s
<1>7. e \in Int
  <2> DEFINE x == CeilScaled(current, m.queue, QueueTarget)
             y == CeilScaled(current, m.batch, 100)
             z == CeilScaled(current, m.avgKVCache, 100)
  <2>1. ASSUME NEW v \in Nat, NEW t \in Nat \ {0}
        PROVE  CeilScaled(current, v, t) \in Int
    <3> DEFINE p == current * v + t - 1
    <3>1. p \in Int
        OBVIOUS
    <3> HIDE DEF p
    <3>2. p \div t \in Int
        BY <3>1
    <3>3. QED
        BY <3>2 DEF CeilScaled, p
  <2>2. x \in Int /\ y \in Int /\ z \in Int
    BY <1>1, <1>2, <2>1
  <2> HIDE DEF x, y, z
  <2>3. maxInt(y, z) \in Int
    BY <2>2, MaxIntType
  <2>4. maxInt(x, maxInt(y, z)) \in Int
    BY <2>2, <2>3, MaxIntType
  <2> DEFINE w == maxInt(x, maxInt(y, z))
  <2> HIDE DEF w
  <2>5. maxInt(w, MinReplicas[a]) \in Int
    BY <2>4, <1>2 DEF maxInt, w
  <2>6. QED
    BY <2>5 DEF DesiredForEfficiency, w, x, y, z
<1> DEFINE wanted == IF u > current THEN u ELSE e
           floored == maxInt(wanted, MinReplicas[a])
           capped == maxInt(floored, current - MaxScaleDownPerCycle)
<1> HIDE DEF q, k, s, e, u
<1>8. wanted \in Int
    BY <1>6, <1>7
<1> HIDE DEF wanted
<1>9. floored \in Int
    BY <1>8, <1>2 DEF maxInt
<1> HIDE DEF floored
<1>10. capped \in Int
    BY <1>9, <1>2, MaxIntType
<1> HIDE DEF capped
<1>11. minInt(capped, current + MaxScaleUpPerCycle) \in Int
    BY <1>10, <1>2, MaxIntType
<1>12. QED
    BY <1>11 DEF RawTarget, capped, floored, wanted, u, e

(* computeEffectiveTarget adds what is missing to what is there, so that   *)
(* the target is never below what an application has: the engine's branch  *)
(* for target < current is dead.                                           *)
THEOREM NeverAsksForFewer ==
    ASSUME NEW a \in Apps, NEW m \in Readings, NEW current \in Nat
    PROVE  EffectiveTarget(a, m, current) \in Nat /\ EffectiveTarget(a, m, current) >= current
<1> DEFINE raw == RawTarget(a, m, current)
<1>1. raw \in Int
    BY RawTargetType
<1> HIDE DEF raw
<1>2. maxInt(0, raw - current) \in Int /\ maxInt(0, raw - current) >= 0
    BY <1>1, MaxIntType
<1>3. QED
    BY <1>2 DEF EffectiveTarget, raw

(* No decision is one to scale down, and none observes the signal for it.  *)
LEMMA DecisionIsUp ==
    ASSUME NEW a \in Apps, NEW m \in Readings, NEW current \in Nat, NEW h
    PROVE  /\ ~ScalingDecision(a, m, current, h).observed
           /\ ScalingDecision(a, m, current, h).direction # "down"
<1> DEFINE t == EffectiveTarget(a, m, current)
           no == [target |-> current, direction |-> "unchanged",
                  approved |-> FALSE, observed |-> FALSE]
           up == [target |-> t, direction |-> "up", approved |-> TRUE, observed |-> "up" = "down"]
<1>1. t \in Nat /\ t >= current
    BY NeverAsksForFewer
<1> HIDE DEF t
<1>2. ~(t < current)
    BY <1>1
<1>3. ScalingDecision(a, m, current, h) \in {no, up}
  <2>1. CASE t > current
    <3>1. ScalingDecision(a, m, current, h) = IF h.up /\ ~IsSLABreach(a, m) THEN no ELSE up
        BY <2>1, <1>2, ZenonT(60) DEF ScalingDecision, t
    <3>2. QED
        BY <3>1, Zenon
  <2>2. CASE ~(t > current)
    <3>1. ScalingDecision(a, m, current, h) = no
        BY <2>2, <1>2, ZenonT(60) DEF ScalingDecision, t
    <3>2. QED
        BY <3>1, Zenon
  <2>3. QED
    BY <2>1, <2>2
<1>4. no.observed = FALSE /\ no.direction = "unchanged" /\ up.direction = "up"
    OBVIOUS
<1>5. ~up.observed
    OBVIOUS
<1> HIDE DEF no, up
<1>6. "unchanged" # "down" /\ "up" # "down"
    OBVIOUS
<1>7. QED
    BY <1>3, <1>4, <1>5, <1>6, Zenon

-----------------------------------------------------------------------------
(* The events on the way.                                                  *)

Events == [kind : {"PodRunning", "PodTerminated"}, replica : Replicas]

(* Whether a replica is tracked after the events es is up to its last one. *)
LastOf(es, q, i) ==
    /\ i \in 1 .. Len(es) /\ es[i].replica = q
    /\ \A j \in 1 .. Len(es) : es[j].replica = q => j <= i

LEMMA AfterEventsMember ==
    ASSUME NEW S, NEW es \in Seq(Events), NEW q \in Replicas
    PROVE  q \in AfterEvents(S, es) <=>
              \/ q \in S /\ \A i \in 1 .. Len(es) : es[i].replica # q
              \/ \E i \in 1 .. Len(es) : LastOf(es, q, i) /\ es[i].kind = "PodRunning"
<1>1. DOMAIN es = 1 .. Len(es)
    OBVIOUS
<1>2. EventsOf(es, q) = {i \in 1 .. Len(es) : es[i].replica = q}
    BY <1>1 DEF EventsOf
<1>3. CASE EventsOf(es, q) = {}
  <2>1. \A i \in 1 .. Len(es) : es[i].replica # q
    BY <1>2, <1>3, Zenon
  <2>2. q \in AfterEvents(S, es) <=> q \in S
    BY <1>3, Zenon DEF AfterEvents
  <2>3. QED
    BY <2>1, <2>2, Zenon DEF LastOf
<1>4. CASE EventsOf(es, q) # {}
  <2>1. ~\A i \in 1 .. Len(es) : es[i].replica # q
    BY <1>2, <1>4, Zenon
  <2>2. q \in AfterEvents(S, es) <=>
            \E i \in EventsOf(es, q) : /\ \A j \in EventsOf(es, q) : j <= i
                                      /\ es[i].kind = "PodRunning"
    BY <1>4, Zenon DEF AfterEvents
  <2>3. \A i : LastOf(es, q, i) <=> (i \in EventsOf(es, q) /\ \A j \in EventsOf(es, q) : j <= i)
    BY <1>2, Zenon DEF LastOf
  <2>4. \A i \in EventsOf(es, q) : i \in 1 .. Len(es)
    BY <1>2, Zenon
  <2>5. QED
    BY <2>1, <2>2, <2>3, <2>4, Zenon
<1>5. QED
    BY <1>3, <1>4

(* One more event decides on its own replica, and on no other.             *)
LEMMA AfterOneMore ==
    ASSUME NEW S, NEW es \in Seq(Events), NEW r \in Replicas,
           NEW kind \in {"PodRunning", "PodTerminated"}
    PROVE  AfterEvents(S, Append(es, Event(kind, r))) =
              IF kind = "PodRunning" THEN AfterEvents(S, es) \cup {r}
              ELSE AfterEvents(S, es) \ {r}
<1> DEFINE e == Event(kind, r)
           fs == Append(es, e)
           n == Len(es)
<1>1. e \in Events /\ e.replica = r /\ e.kind = kind
    BY DEF Event, Events
<1> HIDE DEF e
<1>2. /\ fs \in Seq(Events) /\ Len(fs) = n + 1 /\ n \in Nat
      /\ fs[n + 1] = e /\ \A i \in 1 .. n : fs[i] = es[i]
    BY <1>1
<1> HIDE DEF fs, n
<1>3. AfterEvents(S, fs) \subseteq Replicas /\ AfterEvents(S, es) \subseteq Replicas
    BY DEF AfterEvents
<1>4. ASSUME NEW q \in Replicas, q # r
      PROVE  q \in AfterEvents(S, fs) <=> q \in AfterEvents(S, es)
  <2>1. \A i \in 1 .. n + 1 : fs[i].replica = q <=> (i \in 1 .. n /\ es[i].replica = q)
    BY <1>1, <1>2, <1>4
  <2>2. \A i \in 1 .. n + 1 : LastOf(fs, q, i) <=> (i \in 1 .. n /\ LastOf(es, q, i))
    BY <1>2, <2>1 DEF LastOf, n
  <2>3. (\A i \in 1 .. n + 1 : fs[i].replica # q) <=> (\A i \in 1 .. n : es[i].replica # q)
    BY <1>2, <2>1
  <2>4. (\E i \in 1 .. n + 1 : LastOf(fs, q, i) /\ fs[i].kind = "PodRunning")
            <=> (\E i \in 1 .. n : LastOf(es, q, i) /\ es[i].kind = "PodRunning")
    BY <1>2, <2>2
  <2> fs \in Seq(Events)
    BY <1>2
  <2>5. q \in AfterEvents(S, fs) <=>
              \/ q \in S /\ \A i \in 1 .. Len(fs) : fs[i].replica # q
              \/ \E i \in 1 .. Len(fs) : LastOf(fs, q, i) /\ fs[i].kind = "PodRunning"
    BY AfterEventsMember, Zenon
  <2>6. q \in AfterEvents(S, es) <=>
              \/ q \in S /\ \A i \in 1 .. n : es[i].replica # q
              \/ \E i \in 1 .. n : LastOf(es, q, i) /\ es[i].kind = "PodRunning"
    BY AfterEventsMember, Zenon DEF n
  <2>7. Len(fs) = n + 1
    BY <1>2
  <2>8. QED
    BY <2>3, <2>4, <2>5, <2>6, <2>7, Zenon
<1>5. r \in AfterEvents(S, fs) <=> kind = "PodRunning"
  <2>1. LastOf(fs, r, n + 1)
    BY <1>1, <1>2 DEF LastOf
  <2>2. \A i \in 1 .. n + 1 : LastOf(fs, r, i) => i = n + 1
    BY <1>1, <1>2 DEF LastOf
  <2>3. n + 1 \in 1 .. n + 1
    BY <1>2
  <2>4. ~\A i \in 1 .. n + 1 : fs[i].replica # r
    BY <1>1, <1>2, <2>3, Zenon
  <2>5. QED
    BY <1>1, <1>2, <2>1, <2>2, <2>3, <2>4, AfterEventsMember, Zenon
<1>6. QED
    BY <1>3, <1>4, <1>5 DEF fs, e

(* Applying the first k events, and the others later, comes to the same.   *)
LEMMA AfterPieces ==
    ASSUME NEW S, NEW es \in Seq(Events), NEW k \in 0 .. Len(es)
    PROVE  AfterEvents(AfterEvents(S, SubSeq(es, 1, k)), SubSeq(es, k + 1, Len(es)))
              = AfterEvents(S, es)
<1> DEFINE n == Len(es)
           p == SubSeq(es, 1, k)
           t == SubSeq(es, k + 1, n)
           T == AfterEvents(S, p)
<1>1. /\ n \in Nat /\ k \in Nat /\ k <= n
      /\ p \in Seq(Events) /\ Len(p) = k /\ \A i \in 1 .. k : p[i] = es[i]
    OBVIOUS
<1>2. /\ t \in Seq(Events) /\ Len(t) = n - k
      /\ \A i \in 1 .. n - k : t[i] = es[k + i]
    OBVIOUS
<1> HIDE DEF p, t, n
<1>3. AfterEvents(T, t) \subseteq Replicas /\ AfterEvents(S, es) \subseteq Replicas
    BY DEF AfterEvents
<1>4. ASSUME NEW q \in Replicas PROVE q \in AfterEvents(T, t) <=> q \in AfterEvents(S, es)
  <2> DEFINE late == \E i \in 1 .. n - k : t[i].replica = q
  <2>1. q \in AfterEvents(S, es) <=>
              \/ q \in S /\ \A i \in 1 .. n : es[i].replica # q
              \/ \E i \in 1 .. n : LastOf(es, q, i) /\ es[i].kind = "PodRunning"
    BY AfterEventsMember, Zenon DEF n
  <2>2. q \in AfterEvents(T, t) <=>
              \/ q \in T /\ \A i \in 1 .. n - k : t[i].replica # q
              \/ \E i \in 1 .. n - k : LastOf(t, q, i) /\ t[i].kind = "PodRunning"
    <3> HIDE DEF T
    <3>0. t \in Seq(Events)
      BY <1>2
    <3>1. q \in AfterEvents(T, t) <=>
                \/ q \in T /\ \A i \in 1 .. Len(t) : t[i].replica # q
                \/ \E i \in 1 .. Len(t) : LastOf(t, q, i) /\ t[i].kind = "PodRunning"
      BY <3>0, AfterEventsMember, ZenonT(30)
    <3>2. Len(t) = n - k
      BY <1>2
    <3>3. QED
      BY <3>1, <3>2, Zenon
  <2>3. q \in T <=>
              \/ q \in S /\ \A i \in 1 .. k : p[i].replica # q
              \/ \E i \in 1 .. k : LastOf(p, q, i) /\ p[i].kind = "PodRunning"
    BY <1>1, AfterEventsMember, Zenon
  <2> HIDE DEF T
  <2>4. CASE late
    <3>1. PICK x \in 1 .. n - k : t[x].replica = q
        BY <2>4
    <3>2. k + x \in 1 .. n /\ es[k + x].replica = q
        BY <1>1, <1>2, <3>1
    <3>3. ASSUME NEW i \in 1 .. n - k, LastOf(t, q, i)
          PROVE  k + i \in 1 .. n /\ LastOf(es, q, k + i) /\ es[k + i] = t[i]
      <4>1. k + i \in 1 .. n /\ es[k + i] = t[i]
        BY <1>1, <1>2
      <4>2. t[i].replica = q /\ \A j \in 1 .. n - k : t[j].replica = q => j <= i
        BY <3>3, <1>2 DEF LastOf
      <4>3. ASSUME NEW j \in 1 .. n, es[j].replica = q PROVE j <= k + i
        <5>1. CASE j <= k
            BY <5>1, <1>1
        <5>2. CASE j > k
          <6>1. j - k \in 1 .. n - k /\ k + (j - k) = j
            BY <5>2, <1>1
          <6>2. t[j - k] = es[j]
            BY <6>1, <1>2
          <6>3. j - k <= i
            BY <4>2, <4>3, <6>1, <6>2
          <6>4. QED
            BY <6>3, <1>1
        <5>3. QED
            BY <5>1, <5>2, <1>1
      <4>4. QED
        BY <4>1, <4>2, <4>3 DEF LastOf, n
    <3>4. ASSUME NEW i \in 1 .. n, LastOf(es, q, i)
          PROVE  i - k \in 1 .. n - k /\ LastOf(t, q, i - k) /\ t[i - k] = es[i]
      <4>1. es[i].replica = q /\ \A j \in 1 .. n : es[j].replica = q => j <= i
        BY <3>4 DEF LastOf, n
      <4>2. k + x <= i
        BY <3>2, <4>1
      <4>3. i - k \in 1 .. n - k /\ k + (i - k) = i
        BY <4>2, <1>1
      <4>4. t[i - k] = es[i]
        BY <4>3, <1>2
      <4>5. ASSUME NEW j \in 1 .. n - k, t[j].replica = q PROVE j <= i - k
        <5>1. k + j \in 1 .. n /\ es[k + j].replica = q
            BY <4>5, <1>1, <1>2
        <5>2. k + j <= i
            BY <5>1, <4>1
        <5>3. QED
            BY <5>2, <1>1
      <4>6. QED
        BY <4>1, <4>3, <4>4, <4>5, <1>2 DEF LastOf
    <3>5. ~(\A i \in 1 .. n : es[i].replica # q) /\ ~(\A i \in 1 .. n - k : t[i].replica # q)
        BY <3>1, <3>2
    <3>6. (\E i \in 1 .. n - k : LastOf(t, q, i) /\ t[i].kind = "PodRunning")
            => \E i \in 1 .. n : LastOf(es, q, i) /\ es[i].kind = "PodRunning"
        BY <3>3, Zenon
    <3>7. (\E i \in 1 .. n : LastOf(es, q, i) /\ es[i].kind = "PodRunning")
            => \E i \in 1 .. n - k : LastOf(t, q, i) /\ t[i].kind = "PodRunning"
        BY <3>4, Zenon
    <3>8. QED
        BY <2>1, <2>2, <3>5, <3>6, <3>7, Zenon
  <2>5. CASE ~late
    <3>1. \A i \in 1 .. n - k : t[i].replica # q
        BY <2>5
    <3>2. ASSUME NEW j \in 1 .. n, es[j].replica = q PROVE j \in 1 .. k
      <4>1. CASE j > k
        <5>1. j - k \in 1 .. n - k /\ k + (j - k) = j
            BY <4>1, <1>1
        <5>2. t[j - k] = es[j]
            BY <5>1, <1>2
        <5>3. QED
            BY <5>1, <5>2, <3>1, <3>2
      <4>2. QED
        BY <4>1, <1>1
    <3>3. \A j \in 1 .. k : j \in 1 .. n /\ p[j] = es[j]
        BY <1>1
    <3>4. (\A i \in 1 .. k : p[i].replica # q) <=> (\A i \in 1 .. n : es[i].replica # q)
        BY <3>2, <3>3, Zenon
    <3>5. \A i : LastOf(es, q, i) <=> LastOf(p, q, i)
        BY <1>1, <3>2, <3>3, Zenon DEF LastOf, n
    <3>6. (\E i \in 1 .. k : LastOf(p, q, i) /\ p[i].kind = "PodRunning")
            <=> \E i \in 1 .. n : LastOf(es, q, i) /\ es[i].kind = "PodRunning"
      <4>1. \A i : LastOf(p, q, i) => i \in 1 .. k
        BY <1>1, Zenon DEF LastOf
      <4>2. QED
        BY <3>3, <3>5, <4>1, Zenon
    <3>7. \A i : ~(i \in 1 .. n - k /\ LastOf(t, q, i))
        BY <3>1, Zenon DEF LastOf
    <3>8. QED
        BY <2>1, <2>2, <2>3, <3>1, <3>4, <3>6, <3>7, Zenon
  <2>6. QED
    BY <2>4, <2>5
<1>5. QED
    BY <1>3, <1>4 DEF p, t, n, T

-----------------------------------------------------------------------------
(* The inductive invariant.                                                *)

(* A replica that is still to be created is not in the cluster.            *)
IdleIsAbsent == \A r \in Replicas : worker[r] = "idle" => cluster[r] = "absent"

(* The history of an application knows scale-ups only.                     *)
NothingScaledDown == \A a \in Apps : ~history[a].down /\ history[a].signals = 0

IInv == TypeOK /\ IdleIsAbsent /\ ViewFollowsCluster /\ NothingScaledDown

(* What a cycle writes into the history of an application.                 *)
LEMMA RecordedType ==
    ASSUME TypeOK, NothingScaledDown, NEW a \in Apps
    PROVE  /\ Recorded(history[a], Decision(a)) \in [up : BOOLEAN, down : BOOLEAN, signals : Nat]
           /\ ~Recorded(history[a], Decision(a)).down
           /\ Recorded(history[a], Decision(a)).signals = 0
<1> DEFINE H == [up : BOOLEAN, down : BOOLEAN, signals : Nat]
           d == Decision(a)
           h == history[a]
           g == [h EXCEPT !.up = TRUE]
<1>1. Count(a) \in Nat
  <2>1. IsFiniteSet(Replicas)
    BY ControlLoopAssumption, FS_Product DEF Replicas
  <2>2. ReplicasForApp(tracked, a) \subseteq Replicas
    BY DEF TypeOK, ReplicasForApp
  <2>3. QED
    BY <2>1, <2>2, FS_Subset, FS_CardinalityType DEF Count
<1>2. metrics[a] \in Readings
    BY DEF TypeOK
<1>3. ~d.observed /\ d.direction # "down"
    BY <1>1, <1>2, DecisionIsUp DEF Decision
<1>4. h \in H /\ ~h.down /\ h.signals = 0
    BY DEF TypeOK, NothingScaledDown
<1> HIDE DEF d, h
<1>5. g \in H /\ ~g.down
    BY <1>4
<1> HIDE DEF g
<1>6. [g EXCEPT !.signals = 0] \in H /\ ~[g EXCEPT !.signals = 0].down /\ [g EXCEPT !.signals = 0].signals = 0
    BY <1>5
<1>7. Recorded(h, d) = h \/ Recorded(h, d) = [g EXCEPT !.signals = 0]
  <2>1. CASE d.approved /\ d.direction = "up"
    BY <1>3, <2>1, ZenonT(60) DEF Recorded, g
  <2>2. CASE ~(d.approved /\ d.direction = "up")
    BY <1>3, <2>2, ZenonT(60) DEF Recorded
  <2>3. QED
    BY <2>1, <2>2
<1> HIDE DEF H
<1>8. Recorded(h, d) \in H /\ ~Recorded(h, d).down /\ Recorded(h, d).signals = 0
    BY <1>4, <1>6, <1>7, Zenon
<1>9. QED
    BY <1>8, Zenon DEF d, h, H

(* The start.                                                              *)
LEMMA InitIInv == Init => IInv
<1> SUFFICES ASSUME Init PROVE IInv
    OBVIOUS
<1>1. TypeOK
  <2>1. tracked \subseteq Replicas
    BY DEF Init
  <2>2. history \in [Apps -> [up : BOOLEAN, down : BOOLEAN, signals : Nat]]
    BY DEF Init
  <2>3. events \in Seq([kind : {"PodRunning", "PodTerminated"}, replica : Replicas])
    BY DEF Init
  <2>4. failures \in 0 .. MaxFailures
    BY ControlLoopAssumption DEF Init
  <2>5. /\ reservation \in [Replicas -> {"none", "active"}]
        /\ worker \in [Replicas -> {"none", "idle", "waiting", "done"}]
        /\ cluster \in [Replicas -> {"absent", "starting", "running"}]
    BY DEF Init
  <2>6. pc \in {"select", "applied", "planned", "executing"} /\ metrics \in [Apps -> Readings]
    BY DEF Init
  <2>7. QED
    BY <2>1, <2>2, <2>3, <2>4, <2>5, <2>6, Zenon DEF TypeOK
<1>2. IdleIsAbsent
    BY DEF Init, IdleIsAbsent
<1>3. ViewFollowsCluster
  <2>1. InState("running") = {}
    BY DEF Init, InState
  <2>2. \A r : EventsOf(events, r) = {}
    BY DEF Init, EventsOf
  <2>3. AfterEvents(tracked, events) = {}
    BY <2>2 DEF Init, AfterEvents
  <2>4. QED
    BY <2>1, <2>3 DEF ViewFollowsCluster
<1>4. NothingScaledDown
    BY DEF Init, NothingScaledDown
<1>5. QED
    BY <1>1, <1>2, <1>3, <1>4 DEF IInv

(* A deletion and its event keep the view right.                           *)
LEMMA DeleteKeepsView ==
    ASSUME TypeOK, ViewFollowsCluster, NEW r \in Replicas, Delete(r), UNCHANGED tracked
    PROVE  /\ ViewFollowsCluster'
           /\ cluster' \in [Replicas -> {"absent", "starting", "running"}]
           /\ events' \in Seq(Events)
<1>1. events \in Seq(Events)
    BY Zenon DEF TypeOK, Events
<1>2. events' = Append(events, Event("PodTerminated", r))
    BY DEF Delete
<1>3. Event("PodTerminated", r) \in Events
    BY DEF Event, Events
<1>4. events' \in Seq(Events)
    BY <1>1, <1>2, <1>3
<1>5. cluster' \in [Replicas -> {"absent", "starting", "running"}]
    BY DEF Delete, TypeOK
<1>6. AfterEvents(tracked, events)' = AfterEvents(tracked, events) \ {r}
  <2>1. AfterEvents(tracked, Append(events, Event("PodTerminated", r)))
            = IF "PodTerminated" = "PodRunning" THEN AfterEvents(tracked, events) \cup {r}
              ELSE AfterEvents(tracked, events) \ {r}
    BY <1>1, AfterOneMore
  <2>2. AfterEvents(tracked, events)' = AfterEvents(tracked, Append(events, Event("PodTerminated", r)))
    BY <1>2, Zenon DEF AfterEvents
  <2>3. QED
    BY <2>1, <2>2
<1>7. InState("running")' = InState("running") \ {r}
    BY DEF Delete, TypeOK, InState
<1>8. QED
    BY <1>4, <1>5, <1>6, <1>7 DEF ViewFollowsCluster

(* Steps that leave events and replicas alone keep the view.               *)
LEMMA SameView ==
    ASSUME ViewFollowsCluster, UNCHANGED <<tracked, events, cluster>>
    PROVE  ViewFollowsCluster'
BY Zenon DEF ViewFollowsCluster, AfterEvents, InState

(* A creation, which makes no replica run, keeps it, too.                  *)
LEMMA CreationKeepsView ==
    ASSUME TypeOK, ViewFollowsCluster, UNCHANGED <<tracked, events>>,
           NEW r \in Replicas, cluster[r] = "absent",
           NEW st \in {"absent", "starting"}, cluster' = [cluster EXCEPT ![r] = st]
    PROVE  ViewFollowsCluster'
<1>1. InState("running")' = InState("running")
    BY DEF TypeOK, InState
<1>2. QED
    BY <1>1, Zenon DEF ViewFollowsCluster, AfterEvents

(* A cycle: batches, decisions, plans.                                     *)
LEMMA CycleIInv == ASSUME IInv, Cycle PROVE IInv'
<1> USE DEF IInv
<1>1. ASSUME NEW k \in 0 .. Len(events), NEW m \in [Apps -> Readings], ApplyEvents(k, m)
      PROVE  IInv'
  <2>1. events \in Seq(Events)
    BY Zenon DEF TypeOK, Events
  <2>2. events' = SubSeq(events, k + 1, Len(events)) /\ tracked' = AfterEvents(tracked, SubSeq(events, 1, k))
    BY <1>1 DEF ApplyEvents
  <2>3. events' \in Seq(Events)
    BY <2>1, <2>2
  <2>4. tracked' \subseteq Replicas
    BY <2>2, Zenon DEF AfterEvents
  <2>5. TypeOK'
    BY <1>1, <2>3, <2>4 DEF ApplyEvents, TypeOK, Events
  <2>6. ViewFollowsCluster'
    <3>1. AfterEvents(AfterEvents(tracked, SubSeq(events, 1, k)), SubSeq(events, k + 1, Len(events)))
            = AfterEvents(tracked, events)
        BY <2>1, AfterPieces
    <3>2. AfterEvents(tracked, events)' = AfterEvents(tracked', events')
        BY Zenon DEF AfterEvents
    <3>3. InState("running")' = InState("running")
        BY <1>1, Zenon DEF ApplyEvents, InState
    <3>4. QED
        BY <2>2, <3>1, <3>2, <3>3, Zenon DEF ViewFollowsCluster
  <2>7. IdleIsAbsent' /\ NothingScaledDown'
    BY <1>1, Zenon DEF ApplyEvents, IdleIsAbsent, NothingScaledDown
  <2>8. QED
    BY <2>5, <2>6, <2>7
<1>2. ASSUME NEW P \in SUBSET Replicas, Decide(P) PROVE IInv'
  <2>1. P \subseteq Fresh
    BY <1>2 DEF Decide, Placements
  <2>2. history' = [a \in Apps |-> Recorded(history[a], Decision(a))]
    BY <1>2, Zenon DEF Decide
  <2>3. ASSUME NEW a \in Apps
        PROVE  /\ history'[a] \in [up : BOOLEAN, down : BOOLEAN, signals : Nat]
               /\ ~history'[a].down /\ history'[a].signals = 0
    BY <2>2, RecordedType, Zenon
  <2>4. history' \in [Apps -> [up : BOOLEAN, down : BOOLEAN, signals : Nat]]
    BY <2>2, <2>3, Zenon
  <2>5. NothingScaledDown'
    BY <2>3, Zenon DEF NothingScaledDown
  <2>6. reservation' \in [Replicas -> {"none", "active"}]
    BY <1>2 DEF Decide, TypeOK
  <2>7. worker' \in [Replicas -> {"none", "idle", "waiting", "done"}]
    BY <1>2 DEF Decide
  <2>8. TypeOK'
    BY <1>2, <2>4, <2>6, <2>7 DEF Decide, TypeOK
  <2>9. IdleIsAbsent'
    BY <1>2, <2>1 DEF Decide, IdleIsAbsent, Fresh
  <2>10. ViewFollowsCluster'
    BY <1>2, SameView DEF Decide
  <2>11. QED
    BY <2>5, <2>8, <2>9, <2>10
<1>3. CASE Execute
  <2>1. TypeOK' /\ IdleIsAbsent' /\ NothingScaledDown'
    BY <1>3 DEF Execute, TypeOK, IdleIsAbsent, NothingScaledDown
  <2>2. ViewFollowsCluster'
    BY <1>3, SameView DEF Execute
  <2>3. QED
    BY <2>1, <2>2
<1>4. CASE DropPlan
  <2>1. failures' \in 0 .. MaxFailures
    BY <1>4, ControlLoopAssumption DEF DropPlan, TypeOK
  <2>2. TypeOK' /\ IdleIsAbsent' /\ NothingScaledDown'
    BY <1>4, <2>1 DEF DropPlan, TypeOK, IdleIsAbsent, NothingScaledDown
  <2>3. ViewFollowsCluster'
    BY <1>4, SameView DEF DropPlan
  <2>4. QED
    BY <2>2, <2>3
<1>5. CASE EndExecute
  <2>1. TypeOK' /\ IdleIsAbsent' /\ NothingScaledDown'
    BY <1>5 DEF EndExecute, TypeOK, IdleIsAbsent, NothingScaledDown
  <2>2. ViewFollowsCluster'
    BY <1>5, SameView DEF EndExecute
  <2>3. QED
    BY <2>1, <2>2
<1>6. QED
    BY <1>1, <1>2, <1>3, <1>4, <1>5, Zenon DEF Cycle

(* The workers of Execute.                                                 *)
LEMMA WorkerIInv == ASSUME IInv, NEW r \in Replicas, Worker(r) PROVE IInv'
<1> USE DEF IInv
<1>0. ASSUME UNCHANGED history PROVE NothingScaledDown'
    BY <1>0, Zenon DEF NothingScaledDown
<1>1. CASE CreateReplica(r)
  <2>1. TypeOK' /\ IdleIsAbsent'
    BY <1>1 DEF CreateReplica, TypeOK, IdleIsAbsent
  <2>2. ViewFollowsCluster'
    BY <1>1, CreationKeepsView DEF CreateReplica, IdleIsAbsent
  <2>3. QED
    BY <1>0, <1>1, <2>1, <2>2 DEF CreateReplica
<1>2. CASE CreateFails(r)
  <2>1. PICK st \in {"absent", "starting"} : cluster' = [cluster EXCEPT ![r] = st]
    BY <1>2 DEF CreateFails
  <2>2. failures' \in 0 .. MaxFailures
    BY <1>2, ControlLoopAssumption DEF CreateFails, TypeOK
  <2>3. TypeOK' /\ IdleIsAbsent'
    BY <1>2, <2>1, <2>2 DEF CreateFails, TypeOK, IdleIsAbsent
  <2>4. ViewFollowsCluster'
    BY <1>2, <2>1, CreationKeepsView DEF CreateFails, IdleIsAbsent
  <2>5. QED
    BY <1>0, <1>2, <2>3, <2>4 DEF CreateFails
<1>3. CASE Fulfill(r)
  <2>1. TypeOK' /\ IdleIsAbsent'
    BY <1>3 DEF Fulfill, TypeOK, IdleIsAbsent
  <2>2. ViewFollowsCluster'
    BY <1>3, SameView DEF Fulfill
  <2>3. QED
    BY <1>0, <1>3, <2>1, <2>2 DEF Fulfill
<1>4. CASE GiveUp(r)
  <2>1. /\ worker' = [worker EXCEPT ![r] = "done"]
        /\ reservation' = [reservation EXCEPT ![r] = "none"]
        /\ UNCHANGED <<pc, tracked, metrics, history>>
        /\ failures' \in 0 .. MaxFailures
    BY <1>4, ControlLoopAssumption DEF GiveUp, TypeOK
  <2>2. Delete(r) \/ UNCHANGED <<cluster, events>>
    BY <1>4 DEF GiveUp
  <2>3. /\ ViewFollowsCluster'
        /\ cluster' \in [Replicas -> {"absent", "starting", "running"}]
        /\ events' \in Seq(Events)
    <3>1. CASE Delete(r)
        BY <2>1, <3>1, DeleteKeepsView
    <3>2. CASE UNCHANGED <<cluster, events>>
        BY <2>1, <3>2, SameView DEF TypeOK, Events
    <3>3. QED
        BY <2>2, <3>1, <3>2
  <2>4. TypeOK'
    BY <2>1, <2>3 DEF TypeOK, Events
  <2>5. IdleIsAbsent'
    BY <2>1, <2>2 DEF IdleIsAbsent, Delete, TypeOK
  <2>6. QED
    BY <1>0, <2>1, <2>3, <2>4, <2>5
<1>5. QED
    BY <1>1, <1>2, <1>3, <1>4 DEF Worker

(* The cluster, time and the sweeper.                                      *)
LEMMA OthersIInv ==
    ASSUME IInv, \/ \E r \in Replicas : Start(r) \/ Vanish(r)
                 \/ \E a \in Apps : Cools(a)
                 \/ \E S \in SUBSET Replicas : Sweep(S)
                 \/ UNCHANGED vars
    PROVE  IInv'
<1> USE DEF IInv
<1>1. ASSUME NEW r \in Replicas, Start(r) PROVE IInv'
  <2>1. events \in Seq(Events)
    BY Zenon DEF TypeOK, Events
  <2>2. /\ events' = Append(events, Event("PodRunning", r)) /\ UNCHANGED <<tracked, history>>
        /\ cluster[r] = "starting" /\ cluster' = [cluster EXCEPT ![r] = "running"]
    BY <1>1 DEF Start
  <2>3. Event("PodRunning", r) \in Events
    BY DEF Event, Events
  <2>4. events' \in Seq(Events)
    BY <2>1, <2>2, <2>3
  <2>5. TypeOK'
    BY <1>1, <2>2, <2>4 DEF Start, TypeOK, Events
  <2>6. IdleIsAbsent'
    BY <1>1, <2>2 DEF Start, IdleIsAbsent, TypeOK
  <2>7. ViewFollowsCluster'
    <3>1. AfterEvents(tracked, Append(events, Event("PodRunning", r))) = AfterEvents(tracked, events) \cup {r}
        BY <2>1, AfterOneMore
    <3>2. AfterEvents(tracked, events)' = AfterEvents(tracked, Append(events, Event("PodRunning", r)))
        BY <2>2, Zenon DEF AfterEvents
    <3>3. InState("running")' = InState("running") \cup {r}
        BY <2>2 DEF InState, TypeOK
    <3>4. QED
        BY <3>1, <3>2, <3>3, Zenon DEF ViewFollowsCluster
  <2>8. QED
    BY <2>2, <2>5, <2>6, <2>7 DEF NothingScaledDown
<1>2. ASSUME NEW r \in Replicas, Vanish(r) PROVE IInv'
  <2>1. /\ Delete(r) /\ UNCHANGED <<pc, tracked, metrics, history, reservation, worker>>
        /\ cluster[r] # "absent"
    BY <1>2 DEF Vanish
  <2>2. failures' \in 0 .. MaxFailures
    BY <1>2, ControlLoopAssumption DEF Vanish, TypeOK
  <2>3. /\ ViewFollowsCluster'
        /\ cluster' \in [Replicas -> {"absent", "starting", "running"}]
        /\ events' \in Seq(Events)
    BY <2>1, DeleteKeepsView
  <2>4. TypeOK'
    BY <2>1, <2>2, <2>3 DEF TypeOK, Events
  <2>5. IdleIsAbsent'
    BY <2>1 DEF IdleIsAbsent, Delete, TypeOK
  <2>6. QED
    BY <2>1, <2>3, <2>4, <2>5 DEF NothingScaledDown
<1>3. ASSUME NEW a \in Apps, Cools(a) PROVE IInv'
  <2> DEFINE H == [up : BOOLEAN, down : BOOLEAN, signals : Nat]
             h == [history[a] EXCEPT !.up = FALSE]
  <2>1. history' = [history EXCEPT ![a] = [h EXCEPT !.down = FALSE]]
    BY <1>3 DEF Cools, TypeOK
  <2>2. history[a] \in H /\ history[a].signals = 0
    BY DEF TypeOK, NothingScaledDown
  <2>3. h \in H /\ h.signals = 0
    BY <2>2
  <2> HIDE DEF h
  <2>4. [h EXCEPT !.down = FALSE] \in H /\ ~[h EXCEPT !.down = FALSE].down /\ [h EXCEPT !.down = FALSE].signals = 0
    BY <2>3
  <2> DEFINE g == [h EXCEPT !.down = FALSE]
  <2> HIDE DEF g, H
  <2>5. history' \in [Apps -> H] /\ NothingScaledDown'
    <3>1. history \in [Apps -> H]
        BY Zenon DEF TypeOK, H
    <3>2. history' = [history EXCEPT ![a] = g] /\ g \in H /\ ~g.down /\ g.signals = 0
        BY <2>1, <2>4, Zenon DEF g
    <3>3. QED
        BY <3>1, <3>2 DEF NothingScaledDown
  <2>6. UNCHANGED <<pc, tracked, metrics, reservation, worker, cluster, events, failures>>
    BY <1>3 DEF Cools
  <2>7. TypeOK'
    BY <2>5, <2>6, Zenon DEF TypeOK, H
  <2>8. IdleIsAbsent'
    BY <2>6, Zenon DEF IdleIsAbsent
  <2>9. ViewFollowsCluster'
    BY <2>6, SameView
  <2>10. QED
    BY <2>5, <2>7, <2>8, <2>9
<1>4. ASSUME NEW S \in SUBSET Replicas, Sweep(S) PROVE IInv'
  <2>1. reservation' \in [Replicas -> {"none", "active"}]
    BY <1>4 DEF Sweep, TypeOK
  <2>2. TypeOK' /\ IdleIsAbsent' /\ NothingScaledDown'
    BY <1>4, <2>1 DEF Sweep, TypeOK, IdleIsAbsent, NothingScaledDown
  <2>3. ViewFollowsCluster'
    BY <1>4, SameView DEF Sweep
  <2>4. QED
    BY <2>2, <2>3
<1>5. CASE UNCHANGED vars
  <2>1. TypeOK' /\ IdleIsAbsent' /\ NothingScaledDown'
    BY <1>5 DEF vars, TypeOK, IdleIsAbsent, NothingScaledDown
  <2>2. ViewFollowsCluster'
    BY <1>5, SameView DEF vars
  <2>3. QED
    BY <2>1, <2>2
<1>6. QED
    BY <1>1, <1>2, <1>3, <1>4, <1>5

LEMMA IInvHolds == Spec => []IInv
<1>1. IInv /\ [Next]_vars => IInv'
    BY CycleIInv, WorkerIInv, OthersIInv, Zenon DEF Next
<1>2. QED
    BY InitIInv, <1>1, PTL DEF Spec

-----------------------------------------------------------------------------
(* The theorems.                                                           *)

(* However late the loop reads its batches, and in whatever pieces, the    *)
(* events on the way lead from the replicas of the world state to those    *)
(* that run.                                                               *)
THEOREM ViewFollowsClusterHolds == Spec => []ViewFollowsCluster
<1>1. IInv => ViewFollowsCluster
    BY DEF IInv
<1>2. QED
    BY IInvHolds, <1>1, PTL

(* In no cycle of any run is a scale-down approved, or even its signal     *)
(* counted: cooldown and stabilization window are never used.              *)
THEOREM NothingScaledDownHolds == Spec => []NothingScaledDown
<1>1. IInv => NothingScaledDown
    BY DEF IInv
<1>2. QED
    BY IInvHolds, <1>1, PTL

(* Types of the loop over many cycles.                                     *)
THEOREM TypeOKHolds == Spec => []TypeOK
<1>1. IInv => TypeOK
    BY DEF IInv
<1>2. QED
    BY IInvHolds, <1>1, PTL

=============================================================================
