------------------------------ MODULE Scaling ------------------------------
(***************************************************************************)
(* internal/engine/scaling: from the metrics of an application, the number *)
(* of its replicas and its scaling history to a target.  The engine keeps  *)
(* no state: everything here is an operator.                               *)
(*                                                                         *)
(* A reading holds the metrics the engine looks at, and watermarks and     *)
(* targets are in the unit of their metric: queued requests for the queue, *)
(* percent for the utilizations, milliseconds for the time to first token. *)
(* Products are rounded up in integers where the code uses float64.        *)
(***************************************************************************)
EXTENDS Integers

CONSTANTS
    Apps,
    MinReplicas,    \* MinReplicas[a] of an application
    MaxP99TTFT,     \* MaxP99TTFT[a] of its SLA; 0: it has none
    Readings,       \* the metrics an application may show
    QueueHighWatermark, QueueTarget, QueueLowWatermark,
    KVCacheHighWatermark, KVCacheTarget, KVCacheLowWatermark,
    BatchLowWatermark,
    MaxScaleUpPerCycle, MaxScaleDownPerCycle,
    StabilizationCycles

ASSUME ScalingAssumption ==
    /\ MinReplicas \in [Apps -> Nat] /\ MaxP99TTFT \in [Apps -> Nat]
    /\ Readings \subseteq [queue : Nat, batch : 0 .. 100,
                           maxKVCache : 0 .. 100, avgKVCache : 0 .. 100, ttft : Nat]
    /\ QueueTarget \in Nat \ {0} /\ KVCacheTarget \in Nat \ {0}
    /\ {QueueHighWatermark, QueueLowWatermark, KVCacheHighWatermark,
        KVCacheLowWatermark, BatchLowWatermark} \subseteq Nat
    /\ MaxScaleUpPerCycle \in Nat /\ MaxScaleDownPerCycle \in Nat
    /\ StabilizationCycles \in Nat

maxInt(x, y) == IF x > y THEN x ELSE y
minInt(x, y) == IF x < y THEN x ELSE y

(* The ceiling of n * value / target. *)
CeilScaled(n, value, target) == (n * value + target - 1) \div target

-----------------------------------------------------------------------------

(* What a pressed metric asks for: the count scaled by how far the metric  *)
(* is above its target, and one replica where there is none.               *)
Required(current, pressed, value, target) ==
    CASE ~pressed    -> current
      [] pressed /\ current = 0 -> 1
      [] OTHER       -> CeilScaled(current, value, target)

IsSLABreach(a, m) == MaxP99TTFT[a] # 0 /\ m.ttft > MaxP99TTFT[a]

ScaleUpTarget(a, m, current) ==
    maxInt(Required(current, m.queue > QueueHighWatermark, m.queue, QueueTarget),
    maxInt(Required(current, m.maxKVCache > KVCacheHighWatermark, m.maxKVCache, KVCacheTarget),
           Required(current, IsSLABreach(a, m), m.ttft, MaxP99TTFT[a])))

(* Every metric is low, and the application has replicas to spare. *)
IsIdle(a, m, current) ==
    /\ m.queue < QueueLowWatermark
    /\ m.batch < BatchLowWatermark
    /\ m.avgKVCache < KVCacheLowWatermark
    /\ current > MinReplicas[a]

DesiredForEfficiency(a, m, current) ==
    IF IsIdle(a, m, current)
    THEN maxInt(maxInt(CeilScaled(current, m.queue, QueueTarget),
                maxInt(CeilScaled(current, m.batch, 100),
                       CeilScaled(current, m.avgKVCache, 100))), MinReplicas[a])
    ELSE current

(* Slip: the target is not floored at min_replicas. *)
RawTarget_noFloor(a, m, current) ==
    LET up == ScaleUpTarget(a, m, current)
        wanted == IF up > current THEN up ELSE DesiredForEfficiency(a, m, current)
    IN  minInt(maxInt(wanted, current - MaxScaleDownPerCycle), current + MaxScaleUpPerCycle)

(* computeTargetReplicas: pressure wins over efficiency; then the floor,   *)
(* and the limit of a step in either direction.                            *)
RawTarget(a, m, current) ==
    LET up == ScaleUpTarget(a, m, current)
        wanted == IF up > current THEN up ELSE DesiredForEfficiency(a, m, current)
        floored == maxInt(wanted, MinReplicas[a])
    IN  minInt(maxInt(floored, current - MaxScaleDownPerCycle), current + MaxScaleUpPerCycle)

(* computeEffectiveTarget: what is missing is added to what is there.  The *)
(* override for replicas that are pending too long needs a performance     *)
(* profile, and nothing in the program ever stores one.                    *)
EffectiveTarget(a, m, current) == current + maxInt(0, RawTarget(a, m, current) - current)

(* applyStabilityControls, for a history h: is the last scale-up (h.up) or *)
(* scale-down (h.down) still cooling down, and how many scale-down signals *)
(* were counted?                                                           *)
ScalingDecision(a, m, current, h) ==
    LET target == EffectiveTarget(a, m, current)
        suppressed == [target |-> current, direction |-> "unchanged",
                       approved |-> FALSE, observed |-> FALSE]
        approved(d) == [target |-> target, direction |-> d,
                        approved |-> TRUE, observed |-> d = "down"]
    IN  CASE target > current ->
               IF h.up /\ ~IsSLABreach(a, m) THEN suppressed ELSE approved("up")
          [] target < current ->
               IF h.down THEN suppressed
               ELSE IF ~IsSLABreach(a, m) /\ h.signals + 1 < StabilizationCycles
                    THEN [suppressed EXCEPT !.observed = TRUE]
                    ELSE approved("down")
          [] OTHER -> suppressed

=============================================================================
