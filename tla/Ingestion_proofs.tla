-------------------------- MODULE Ingestion_proofs --------------------------
(***************************************************************************)
(* Proofs about Ingestion, for any applications, listeners, capacity of    *)
(* the raw channel and number of events.                                   *)
(***************************************************************************)
EXTENDS Ingestion, DataLemmas

-----------------------------------------------------------------------------
(* Types. *)

LEMMA KeysOfBursts ==
    /\ ClusterKey \in Keys /\ ClusterKey \notin MergeKeys
    /\ \A a \in Apps : /\ <<"MetricsUpdate", a>> \in Keys
                       /\ <<"SLABreach", a>> \in Keys
                       /\ <<"AppConfigUpdate", a>> \in Keys
    /\ <<"PeriodicEval">> \in Keys
    /\ MergeKeys \subseteq Keys /\ Keys = MergeKeys \cup {ClusterKey}
<1>1. /\ ClusterKey \in Keys /\ MergeKeys \subseteq Keys
      /\ Keys = MergeKeys \cup {ClusterKey}
  BY DEF Keys
<1>2. ClusterKey \notin MergeKeys
  <2>1. ClusterKey # <<"PeriodicEval">>
    BY DEF ClusterKey
  <2>2. ClusterKey \notin {"MetricsUpdate", "SLABreach", "AppConfigUpdate"} \X Apps
    BY DEF ClusterKey
  <2>3. QED
    BY <2>1, <2>2 DEF MergeKeys
<1>3. \A a \in Apps : /\ <<"MetricsUpdate", a>> \in Keys
                      /\ <<"SLABreach", a>> \in Keys
                      /\ <<"AppConfigUpdate", a>> \in Keys
  BY DEF MergeKeys, Keys
<1>4. <<"PeriodicEval">> \in Keys
  BY DEF MergeKeys, Keys
<1>5. QED
  BY <1>1, <1>2, <1>3, <1>4

LEMMA BurstsOfMetrics == \A a \in Apps : MetricsOf(a) \subseteq Seq(Keys)
<1> SUFFICES ASSUME NEW a \in Apps, NEW b \in 0 .. 2
             PROVE  << <<"MetricsUpdate", a>> >> \o [i \in 1 .. b |-> <<"SLABreach", a>>]
                        \in Seq(Keys)
  BY DEF MetricsOf
<1>1. << <<"MetricsUpdate", a>> >> \in Seq(Keys)
  <2>1. \A k \in Keys : <<k>> \in Seq(Keys)
    OBVIOUS
  <2>2. QED
    BY <2>1, KeysOfBursts
<1>2. [i \in 1 .. b |-> <<"SLABreach", a>>] \in Seq(Keys)
  <2>1. [i \in 1 .. b |-> <<"SLABreach", a>>] \in [1 .. b -> Keys]
    BY KeysOfBursts
  <2>2. b \in Nat
    OBVIOUS
  <2>3. QED
    BY <2>1, <2>2
<1>3. QED
  BY <1>1, <1>2, ConcatProperties

LEMMA BurstsAreKeys ==
    ASSUME NEW l \in Listeners, NEW burst \in Inputs(l)
    PROVE  burst \in Seq(Keys)
<1>1. \A k \in Keys : <<k>> \in Seq(Keys)
  OBVIOUS
<1>2. CASE l = "clusterEvents"
  BY <1>1, <1>2, KeysOfBursts DEF Inputs
<1>3. CASE l = "appConfig"
  BY <1>1, <1>3, KeysOfBursts DEF Inputs
<1>4. CASE l = "metricsConfig"
  BY <1>4, BurstsOfMetrics DEF Inputs
<1>5. CASE l = "injected"
  <2>1. burst \in UNION {MetricsOf(a) : a \in Apps} \/ burst \in {<<k>> : k \in Keys}
    BY <1>5 DEF Inputs
  <2>2. QED
    BY <1>1, <2>1, BurstsOfMetrics
<1>6. CASE l = "periodic"
  BY <1>1, <1>6, KeysOfBursts DEF Inputs
<1>7. CASE l = "poll"
  BY <1>7 DEF Inputs
<1>8. QED
  BY <1>2, <1>3, <1>4, <1>5, <1>6, <1>7, IngestionAssumption

(* The statement of TypeOK; a channel is never filled beyond its capacity. *)
THEOREM TypeOKHolds == Spec => []TypeOK
<1>1. Init => TypeOK
  <2> SUFFICES ASSUME Init PROVE TypeOK
    OBVIOUS
  <2>1. \A S : <<>> \in Seq(S) /\ Len(<<>>) = 0
    BY EmptySeq
  <2>2. NothingMerged \in [MergeKeys -> Nat] /\ NothingMerged \in [MergeKeys -> 0 .. 0]
    BY DEF NothingMerged
  <2>3. /\ ctxDone \in BOOLEAN /\ rawClosed \in BOOLEAN /\ outClosed \in BOOLEAN
        /\ todo \in [Listeners -> Seq(Keys)]
        /\ polling \subseteq Apps /\ gone \subseteq Listeners
    BY <2>1 DEF Init
  <2>4. /\ accepted \in Nat /\ sent \in Nat /\ clusterSent \subseteq 1 .. sent
        /\ last \in [MergeKeys -> 0 .. sent]
        /\ rawCh \in Seq(RawEvent) /\ Len(rawCh) <= RawCap
    BY <2>1, <2>2, IngestionAssumption DEF Init
  <2>5. QED
    BY <2>1, <2>2, <2>3, <2>4 DEF Init, TypeOK
<1>2. TypeOK /\ [Next]_vars => TypeOK'
  <2> SUFFICES ASSUME TypeOK, [Next]_vars PROVE TypeOK'
    OBVIOUS
  <2> USE IngestionAssumption
  <2>1. ASSUME NEW l \in Listeners,
               Receive(l) \/ StartPoll(l) \/ Poll(l) \/ Exit(l),
               UNCHANGED <<ctxDone, rawClosed, debouncerVars, dbCh, held, outCh, outClosed,
                           readerVars>>
        PROVE  TypeOK'
    <3>1. ASSUME NEW burst \in Seq(Keys), Accept(l, burst)
          PROVE  todo' \in [Listeners -> Seq(Keys)] /\ accepted' \in Nat
      BY <3>1 DEF Accept, TypeOK
    <3>2. /\ todo' \in [Listeners -> Seq(Keys)] /\ accepted' \in Nat
          /\ polling' \subseteq Apps /\ gone' \subseteq Listeners
          /\ UNCHANGED <<rawCh, historyVars>>
      <4>1. CASE Receive(l)
        BY <3>1, <4>1, BurstsAreKeys DEF Receive, TypeOK
      <4>2. CASE StartPoll(l)
        BY <4>2 DEF StartPoll, TypeOK
      <4>3. CASE Poll(l)
        BY <3>1, <4>3, BurstsOfMetrics DEF Poll, TypeOK
      <4>4. CASE Exit(l)
        BY <4>4 DEF Exit, TypeOK
      <4>5. QED
        BY <2>1, <4>1, <4>2, <4>3, <4>4
    <3>3. QED
      BY <2>1, <3>2 DEF TypeOK, historyVars, debouncerVars, readerVars
  <2>2. ASSUME NEW l \in Listeners, Send(l),
               UNCHANGED <<ctxDone, rawClosed, debouncerVars, dbCh, held, outCh, outClosed,
                           readerVars>>
        PROVE  TypeOK'
    <3>1. /\ Head(todo[l]) \in Keys /\ todo' \in [Listeners -> Seq(Keys)]
          /\ sent' \in Nat /\ sent' = sent + 1
      BY <2>2, HeadTailProperties DEF Send, TypeOK
    <3>2. [key |-> Head(todo[l]), n |-> sent + 1] \in RawEvent
      BY <3>1 DEF RawEvent
    <3>3. rawCh' \in Seq(RawEvent) /\ Len(rawCh') <= RawCap
      BY <2>2, <3>2 DEF Send, TypeOK
    <3>4. clusterSent' \subseteq 1 .. sent' /\ last' \in [MergeKeys -> 0 .. sent']
      <4>1. /\ clusterSent \subseteq 1 .. sent' /\ last \in [MergeKeys -> 0 .. sent']
            /\ sent + 1 \in 1 .. sent' /\ sent + 1 \in 0 .. sent'
        <5>1. /\ sent \in Nat /\ clusterSent \subseteq 1 .. sent
              /\ last \in [MergeKeys -> 0 .. sent]
          BY DEF TypeOK
        <5>2. 1 .. sent \subseteq 1 .. sent' /\ 0 .. sent \subseteq 0 .. sent'
          BY <3>1, <5>1
        <5>3. sent + 1 \in 1 .. sent' /\ sent + 1 \in 0 .. sent'
          BY <3>1, <5>1
        <5>4. \A k \in MergeKeys : last[k] \in 0 .. sent'
          BY <5>1, <5>2
        <5>5. QED
          BY <5>1, <5>2, <5>3, <5>4
      <4>2. CASE Head(todo[l]) = ClusterKey
        BY <2>2, <4>1, <4>2 DEF Send
      <4>3. CASE Head(todo[l]) # ClusterKey
        <5>1. Head(todo[l]) \in MergeKeys
          BY <3>1, <4>3, KeysOfBursts
        <5>2. clusterSent' = clusterSent /\ last' = [last EXCEPT ![Head(todo[l])] = sent + 1]
          BY <2>2, <4>3 DEF Send
        <5>3. QED
          BY <4>1, <5>1, <5>2
      <4>4. QED
        BY <4>2, <4>3
    <3>5. QED
      BY <2>2, <3>1, <3>3, <3>4 DEF Send, TypeOK, debouncerVars, readerVars
  <2>3. CASE CloseRaw
    BY <2>3 DEF CloseRaw, TypeOK, listenerVars, historyVars, debouncerVars, readerVars
  <2>4. CASE Debouncer
    <3> SUFFICES /\ dpc' \in {"select", "emit", "final", "closed"}
                 /\ timer' \in {"off", "running", "fired"}
                 /\ merged' \in [MergeKeys -> Nat] /\ ordered' \in Seq(Nat)
                 /\ rawCh' \in Seq(RawEvent) /\ Len(rawCh') <= RawCap
                 /\ dbCh' \in Seq(BatchType) /\ Len(dbCh') <= 1
      BY <2>4 DEF Debouncer, TypeOK, listenerVars, historyVars, readerVars
    <3>1. NothingMerged \in [MergeKeys -> Nat] /\ <<>> \in Seq(Nat)
      BY EmptySeq DEF NothingMerged
    <3>2. Batch \in BatchType
      BY DEF Batch, BatchType, TypeOK
    <3>3. <<Batch>> \in Seq(BatchType) /\ Len(<<Batch>>) = 1
      BY <3>2
    <3>4. CASE TakeEvent
      <4>1. /\ Head(rawCh) \in RawEvent /\ Tail(rawCh) \in Seq(RawEvent)
            /\ Len(Tail(rawCh)) = Len(rawCh) - 1 /\ Len(rawCh) \in Nat
        BY <3>4, HeadTailProperties, LenProperties DEF TakeEvent, TypeOK
      <4>2. Head(rawCh).n \in Nat
        BY <4>1 DEF RawEvent
      <4>3. Len(Tail(rawCh)) <= RawCap
        BY <4>1 DEF TypeOK
      <4>4. merged' \in [MergeKeys -> Nat] /\ ordered' \in Seq(Nat)
        <5>1. CASE Head(rawCh).key \in MergeKeys
          <6>1. /\ merged' = [merged EXCEPT ![Head(rawCh).key] = Head(rawCh).n]
                /\ ordered' = ordered
            BY <3>4, <5>1 DEF TakeEvent
          <6>2. QED
            BY <4>2, <6>1 DEF TypeOK
        <5>2. CASE Head(rawCh).key \notin MergeKeys
          <6>1. ordered' = Append(ordered, Head(rawCh).n) /\ merged' = merged
            BY <3>4, <5>2 DEF TakeEvent
          <6>2. QED
            BY <4>2, <6>1, AppendProperties DEF TypeOK
        <5>3. QED
          BY <5>1, <5>2
      <4>5. QED
        BY <3>4, <4>1, <4>3, <4>4 DEF TakeEvent, TypeOK
    <3>5. CASE WindowEnds \/ EndOfInput
      BY <3>5 DEF WindowEnds, EndOfInput, TypeOK
    <3>6. CASE Emit
      <4>1. dbCh' \in Seq(BatchType) /\ Len(dbCh') <= 1
        <5>1. dbCh' = <<Batch>> \/ dbCh' = dbCh
          BY <3>6 DEF Emit
        <5>2. CASE dbCh' = dbCh
          BY <5>2 DEF TypeOK
        <5>3. CASE dbCh' = <<Batch>>
          BY <3>3, <5>3
        <5>4. QED
          BY <5>1, <5>2, <5>3
      <4>2. QED
        BY <3>1, <3>6, <4>1 DEF Emit, Clear, TypeOK
    <3>7. CASE FinalFlush
      <4>1. dbCh' \in Seq(BatchType) /\ Len(dbCh') <= 1
        BY <3>3, <3>7 DEF FinalFlush
      <4>2. QED
        BY <3>1, <3>7, <4>1 DEF FinalFlush, Clear, TypeOK
    <3>8. QED
      BY <2>4, <3>4, <3>5, <3>6, <3>7 DEF Debouncer
  <2>5. CASE TimerFires
    BY <2>5 DEF TimerFires, TypeOK, listenerVars, historyVars, readerVars
  <2>6. CASE Instrument
    <3> SUFFICES /\ dbCh' \in Seq(BatchType) /\ Len(dbCh') <= 1
                 /\ held' \in Seq(BatchType) /\ Len(held') <= 1
                 /\ outCh' \in Seq(BatchType) /\ Len(outCh') <= 1
                 /\ outClosed' \in BOOLEAN
      BY <2>6 DEF Instrument, TypeOK, listenerVars, historyVars, debouncerVars, readerVars
    <3>1. <<>> \in Seq(BatchType) /\ Len(<<>>) = 0
      BY EmptySeq
    <3>2. CASE TakeBatch
      <4>1. /\ dbCh = <<Head(dbCh)>> /\ Tail(dbCh) = <<>> /\ Head(dbCh) \in BatchType
        BY <3>2, OneIn DEF TakeBatch, TypeOK
      <4>2. QED
        BY <3>1, <3>2, <4>1 DEF TakeBatch, TypeOK
    <3>3. CASE PassBatch
      BY <3>1, <3>3 DEF PassBatch, TypeOK
    <3>4. CASE CloseOut
      BY <3>1, <3>4 DEF CloseOut, TypeOK
    <3>5. QED
      BY <2>6, <3>2, <3>3, <3>4 DEF Instrument
  <2>7. CASE Reader
    <3> SUFFICES /\ outCh' \in Seq(BatchType) /\ Len(outCh') <= 1
                 /\ rpc' \in {"select", "cycle", "returned"}
                 /\ seen' \in Seq(Nat) /\ current' \in [MergeKeys -> Nat]
      BY <2>7 DEF Reader, TypeOK, listenerVars, historyVars, debouncerVars
    <3>1. CASE ReadBatch
      <4>1. Tail(outCh) = <<>> /\ Head(outCh) \in BatchType
        BY <3>1, OneIn DEF ReadBatch, TypeOK
      <4>2. <<>> \in Seq(BatchType) /\ Len(<<>>) = 0
        BY EmptySeq
      <4>3. seen' \in Seq(Nat)
        BY <3>1, <4>1, ConcatProperties DEF ReadBatch, TypeOK, BatchType
      <4>4. current' \in [MergeKeys -> Nat]
        BY <3>1, <4>1 DEF ReadBatch, TypeOK, BatchType
      <4>5. outCh' = <<>> /\ rpc' = "cycle"
        BY <3>1, <4>1 DEF ReadBatch
      <4>6. QED
        BY <4>2, <4>3, <4>4, <4>5
    <3>2. CASE EndCycle \/ Return
      BY <3>2 DEF EndCycle, Return, TypeOK
    <3>3. QED
      BY <2>7, <3>1, <3>2 DEF Reader
  <2>8. CASE Cancel
    BY <2>8 DEF Cancel, TypeOK, listenerVars, historyVars, debouncerVars, readerVars
  <2>9. CASE UNCHANGED vars
    BY <2>9 DEF vars, TypeOK, listenerVars, historyVars, debouncerVars, readerVars
  <2>10. QED
    BY <2>1, <2>2, <2>3, <2>4, <2>5, <2>6, <2>7, <2>8, <2>9 DEF Next, Listener, Proceed
<1>3. QED
  BY <1>1, <1>2, PTL DEF Spec

-----------------------------------------------------------------------------
(* What the steps do to the events under way; most do nothing to them. *)

pipe == <<rawCh, merged, ordered, dbCh, held, outCh, seen, current, historyVars>>

LEMMA PipeSteps ==
    ASSUME [Next]_vars
    PROVE  \/ UNCHANGED pipe
           \/ /\ \E l \in Listeners : Send(l)
              /\ UNCHANGED <<merged, ordered, dbCh, held, outCh, seen, current>>
           \/ TakeEvent /\ UNCHANGED <<held, outCh, seen, current, historyVars>>
           \/ Emit /\ UNCHANGED <<held, outCh, seen, current, historyVars, ctxDone>>
           \/ FinalFlush /\ UNCHANGED <<held, outCh, seen, current, historyVars>>
           \/ TakeBatch /\ UNCHANGED <<rawCh, merged, ordered, seen, current, historyVars>>
           \/ PassBatch /\ UNCHANGED <<rawCh, merged, ordered, seen, current, historyVars>>
           \/ /\ CloseOut
              /\ UNCHANGED <<rawCh, merged, ordered, seen, current, historyVars, ctxDone>>
           \/ ReadBatch /\ UNCHANGED <<rawCh, merged, ordered, dbCh, held, historyVars>>
<1> USE DEF pipe, listenerVars, historyVars, debouncerVars, readerVars
<1>1. ASSUME NEW l \in Listeners, Listener(l)
      PROVE  \/ UNCHANGED pipe
             \/ Send(l) /\ UNCHANGED <<merged, ordered, dbCh, held, outCh, seen, current>>
  BY <1>1 DEF Listener, Proceed, Receive, StartPoll, Poll, Exit
<1>2. CASE CloseRaw \/ TimerFires \/ Cancel
  BY <1>2 DEF CloseRaw, TimerFires, Cancel
<1>3. CASE Debouncer
  BY <1>3 DEF Debouncer, WindowEnds, EndOfInput
<1>4. CASE Instrument
  BY <1>4 DEF Instrument
<1>5. CASE Reader
  BY <1>5 DEF Reader, EndCycle, Return
<1>6. CASE UNCHANGED vars
  BY <1>6 DEF vars
<1>7. QED
  BY <1>1, <1>2, <1>3, <1>4, <1>5, <1>6 DEF Next

LEMMA CancelledForGood == [Next]_vars /\ ~ctxDone' => ~ctxDone
  BY DEF Next, Listener, Proceed, CloseRaw, Debouncer, TimerFires, Instrument, Reader,
         Cancel, vars

-----------------------------------------------------------------------------
(* Order.  An event passes six places, and whatever is in one of them is   *)
(* newer than all that is ahead of it.                                     *)

Numbers(b) == Range(b.ordered) \cup ({b.merged[k] : k \in MergeKeys} \ {0})
In(ch)     == UNION {Numbers(b) : b \in Range(ch)}
Applied    == Range(seen) \cup ({current[k] : k \in MergeKeys} \ {0})
RawNumbers == {e.n : e \in Range(rawCh)}

Ascending(A, B, C, D, E, F, m) ==
    /\ A \cup B \cup C \cup D \cup E \cup F \subseteq 1 .. m
    /\ \A x \in A, y \in B \cup C \cup D \cup E \cup F : x < y
    /\ \A x \in B, y \in C \cup D \cup E \cup F : x < y
    /\ \A x \in C, y \in D \cup E \cup F : x < y
    /\ \A x \in D, y \in E \cup F : x < y
    /\ \A x \in E, y \in F : x < y

InOrder ==
    /\ Ascending(Applied, In(outCh), In(held), In(dbCh), Numbers(Batch), RawNumbers, sent)
    /\ Increasing(seen) /\ Increasing(ordered)
    /\ \A b \in OnTheWay : Increasing(b.ordered)
    /\ Increasing([i \in DOMAIN rawCh |-> rawCh[i].n])

LEMMA InNothing == In(<<>>) = {}
  BY RangeOfEmpty DEF In

LEMMA InOne == ASSUME NEW b PROVE In(<<b>>) = Numbers(b)
<1>1. {Numbers(x) : x \in {b}} = {Numbers(b)}
  OBVIOUS
<1>2. QED
  BY <1>1, RangeOfOne DEF In

(* The head of the raw channel is its oldest event. *)
LEMMA HeadIsOldest ==
    ASSUME TypeOK, rawCh # <<>>, Increasing([i \in DOMAIN rawCh |-> rawCh[i].n])
    PROVE  /\ Head(rawCh) \in RawEvent
           /\ Range(rawCh) = {Head(rawCh)} \cup Range(Tail(rawCh))
           /\ \A e \in Range(Tail(rawCh)) : Head(rawCh).n < e.n
           /\ Increasing([i \in DOMAIN Tail(rawCh) |-> Tail(rawCh)[i].n])
<1>1. /\ DOMAIN rawCh = 1 .. Len(rawCh) /\ DOMAIN Tail(rawCh) = 1 .. Len(rawCh) - 1
      /\ Len(rawCh) \in Nat /\ Len(rawCh) > 0 /\ Head(rawCh) = rawCh[1]
      /\ \A i \in 1 .. Len(rawCh) - 1 : Tail(rawCh)[i] = rawCh[i + 1]
  BY DEF TypeOK
<1>2. \A i \in 1 .. Len(rawCh) - 1 : i + 1 \in 1 .. Len(rawCh) /\ 1 < i + 1
  BY <1>1
<1>3. \A i, j \in 1 .. Len(rawCh) : i < j => rawCh[i].n < rawCh[j].n
  BY <1>1 DEF Increasing
<1>4. \A e \in Range(Tail(rawCh)) : Head(rawCh).n < e.n
  BY <1>1, <1>2, <1>3 DEF Range
<1>5. Increasing([i \in DOMAIN Tail(rawCh) |-> Tail(rawCh)[i].n])
  BY <1>1, <1>2, <1>3 DEF Increasing
<1>6. QED
  BY <1>4, <1>5, RangeOfTail DEF TypeOK

LEMMA InOrderHolds == Spec => []InOrder
<1>1. Init => InOrder
  <2> SUFFICES ASSUME Init PROVE InOrder
    OBVIOUS
  <2>1. Range(rawCh) = {} /\ Range(outCh) = {} /\ Range(held) = {} /\ Range(dbCh) = {}
        /\ Range(seen) = {} /\ Range(ordered) = {}
    BY RangeOfEmpty DEF Init
  <2>2. /\ {current[k] : k \in MergeKeys} \ {0} = {}
        /\ {merged[k] : k \in MergeKeys} \ {0} = {}
    BY DEF Init, NothingMerged
  <2>3. /\ Applied = {} /\ In(outCh) = {} /\ In(held) = {} /\ In(dbCh) = {}
        /\ Numbers(Batch) = {} /\ RawNumbers = {} /\ OnTheWay = {}
    BY <2>1, <2>2 DEF Applied, In, Numbers, Batch, RawNumbers, OnTheWay
  <2>4. Increasing(<<>>)
    BY DEF Increasing
  <2>5. Increasing([i \in DOMAIN rawCh |-> rawCh[i].n])
    BY DEF Init, Increasing
  <2>6. QED
    BY <2>3, <2>4, <2>5 DEF Init, InOrder, Ascending
<1>2. TypeOK /\ InOrder /\ [Next]_vars => InOrder'
  <2> SUFFICES ASSUME TypeOK, InOrder, [Next]_vars PROVE InOrder'
    OBVIOUS
  <2>1. CASE UNCHANGED pipe
    BY <2>1 DEF InOrder, Applied, In, Numbers, Batch, RawNumbers, OnTheWay, pipe, historyVars
  <2>2. ASSUME NEW l \in Listeners, Send(l),
               UNCHANGED <<merged, ordered, dbCh, held, outCh, seen, current>>
        PROVE  InOrder'
    <3> DEFINE e == [key |-> Head(todo[l]), n |-> sent + 1]
    <3>1. e \in RawEvent /\ e.n = sent + 1 /\ rawCh' = Append(rawCh, e) /\ sent' = sent + 1
          /\ sent \in Nat
      BY <2>2, HeadTailProperties DEF Send, TypeOK, RawEvent
    <3> HIDE DEF e
    <3>2. RawNumbers' = RawNumbers \cup {sent + 1}
      <4>1. Range(rawCh') = Range(rawCh) \cup {e}
        BY <3>1, RangeOfAppend DEF TypeOK
      <4>2. QED
        BY <3>1, <4>1 DEF RawNumbers
    <3>3. UNCHANGED <<Applied, In(outCh), In(held), In(dbCh), Numbers(Batch), OnTheWay>>
      BY <2>2 DEF Applied, In, Numbers, Batch, OnTheWay
    <3>4. Ascending(Applied, In(outCh), In(held), In(dbCh), Numbers(Batch), RawNumbers, sent)'
      BY <3>1, <3>2, <3>3 DEF InOrder, Ascending
    <3>5. Increasing([i \in DOMAIN rawCh' |-> rawCh'[i].n])
      <4>1. /\ DOMAIN rawCh' = 1 .. Len(rawCh) + 1 /\ DOMAIN rawCh = 1 .. Len(rawCh)
            /\ Len(rawCh) \in Nat /\ rawCh'[Len(rawCh) + 1] = e
            /\ \A i \in 1 .. Len(rawCh) : rawCh'[i] = rawCh[i]
        BY <3>1 DEF TypeOK
      <4>2. \A i \in 1 .. Len(rawCh) : rawCh[i].n <= sent
        BY <4>1 DEF InOrder, Ascending, RawNumbers, Range
      <4>3. \A i, j \in 1 .. Len(rawCh) : i < j => rawCh[i].n < rawCh[j].n
        BY <4>1 DEF InOrder, Increasing
      <4>4. ASSUME NEW i \in 1 .. Len(rawCh) + 1, NEW j \in 1 .. Len(rawCh) + 1, i < j
            PROVE  rawCh'[i].n < rawCh'[j].n
        <5>1. i \in 1 .. Len(rawCh) /\ (j \in 1 .. Len(rawCh) \/ j = Len(rawCh) + 1)
          BY <4>1, <4>4
        <5>2. rawCh[i] \in RawEvent
          BY <4>1, <5>1 DEF TypeOK
        <5>3. rawCh[i].n \in Nat
          BY <5>2 DEF RawEvent
        <5>4. QED
          BY <3>1, <4>1, <4>2, <4>3, <4>4, <5>1, <5>3
      <4>5. QED
        BY <4>1, <4>4 DEF Increasing
    <3>6. QED
      BY <2>2, <3>3, <3>4, <3>5 DEF InOrder, Increasing
  <2>3. CASE TakeEvent /\ UNCHANGED <<held, outCh, seen, current, historyVars>>
    <3>1. /\ Head(rawCh) \in RawEvent
          /\ Range(rawCh) = {Head(rawCh)} \cup Range(Tail(rawCh))
          /\ \A e \in Range(Tail(rawCh)) : Head(rawCh).n < e.n
          /\ Increasing([i \in DOMAIN Tail(rawCh) |-> Tail(rawCh)[i].n])
          /\ rawCh' = Tail(rawCh) /\ dbCh' = dbCh /\ sent' = sent
      BY <2>3, HeadIsOldest DEF TakeEvent, InOrder, historyVars
    <3>2. /\ RawNumbers = {Head(rawCh).n} \cup RawNumbers'
          /\ \A y \in RawNumbers' : Head(rawCh).n < y
          /\ Head(rawCh).n \in Nat
      BY <3>1 DEF RawNumbers, RawEvent
    <3>3. /\ Numbers(Batch)' \subseteq Numbers(Batch) \cup {Head(rawCh).n}
          /\ Increasing(ordered')
      <4>1. CASE Head(rawCh).key \in MergeKeys
        <5>1. /\ merged' = [merged EXCEPT ![Head(rawCh).key] = Head(rawCh).n]
              /\ ordered' = ordered
          BY <2>3, <4>1 DEF TakeEvent
        <5>2. QED
          BY <5>1 DEF Numbers, Batch, TypeOK, InOrder
      <4>2. CASE Head(rawCh).key \notin MergeKeys
        <5>1. ordered' = Append(ordered, Head(rawCh).n) /\ merged' = merged
          BY <2>3, <4>2 DEF TakeEvent
        <5>2. Range(ordered') = Range(ordered) \cup {Head(rawCh).n}
          BY <3>2, <5>1, RangeOfAppend DEF TypeOK
        <5>3. \A x \in Range(ordered) : x < Head(rawCh).n
          BY <3>2 DEF InOrder, Ascending, Numbers, Batch
        <5>4. Increasing(ordered')
          BY <3>2, <5>1, <5>3, IncreasingAppend DEF TypeOK, InOrder
        <5>5. QED
          BY <5>1, <5>2, <5>4 DEF Numbers, Batch
      <4>3. QED
        BY <4>1, <4>2
    <3>4. UNCHANGED <<Applied, In(outCh), In(held), In(dbCh), OnTheWay>>
      BY <2>3, <3>1 DEF Applied, In, Numbers, OnTheWay
    <3>5. Ascending(Applied, In(outCh), In(held), In(dbCh), Numbers(Batch), RawNumbers, sent)'
      BY <3>1, <3>2, <3>3, <3>4 DEF InOrder, Ascending
    <3>6. QED
      BY <2>3, <3>1, <3>3, <3>4, <3>5 DEF InOrder
  <2>4. ASSUME Emit \/ FinalFlush, UNCHANGED <<held, outCh, seen, current, historyVars>>
        PROVE  InOrder'
    <3>1. /\ \/ dbCh = <<>> /\ dbCh' = <<Batch>>
             \/ dbCh' = dbCh
          /\ merged' = NothingMerged /\ ordered' = <<>> /\ UNCHANGED <<rawCh, sent>>
      BY <2>4 DEF Emit, FinalFlush, Clear, historyVars
    <3>2. Numbers(Batch)' = {} /\ Increasing(ordered')
      <4>1. {merged'[k] : k \in MergeKeys} \ {0} = {} /\ Range(ordered') = {}
        BY <3>1, RangeOfEmpty DEF NothingMerged
      <4>2. Numbers(Batch)' = {}
        BY <4>1 DEF Numbers, Batch
      <4>3. QED
        BY <3>1, <4>2 DEF Increasing
    <3>3. UNCHANGED <<Applied, In(outCh), In(held), RawNumbers>>
      BY <2>4, <3>1 DEF Applied, In, Numbers, RawNumbers
    <3>4. \/ In(dbCh) = {} /\ In(dbCh)' = Numbers(Batch)
          \/ In(dbCh)' = In(dbCh)
      <4>1. CASE dbCh' = dbCh
        BY <4>1 DEF In, Numbers
      <4>2. CASE dbCh = <<>> /\ dbCh' = <<Batch>>
        BY <4>2, InNothing, InOne DEF In, Numbers
      <4>3. QED
        BY <3>1, <4>1, <4>2
    <3>5. Ascending(Applied, In(outCh), In(held), In(dbCh), Numbers(Batch), RawNumbers, sent)'
      BY <3>1, <3>2, <3>3, <3>4 DEF InOrder, Ascending
    <3>6. \A b \in OnTheWay' : Increasing(b.ordered)
      <4>1. Increasing(Batch.ordered)
        BY DEF InOrder, Batch
      <4>2. Range(dbCh') \subseteq Range(dbCh) \cup {Batch}
        BY <3>1, RangeOfOne
      <4>3. QED
        BY <2>4, <4>1, <4>2 DEF InOrder, OnTheWay
    <3>7. QED
      BY <2>4, <3>1, <3>2, <3>5, <3>6 DEF InOrder
  <2>5. ASSUME TakeBatch \/ PassBatch \/ CloseOut,
               UNCHANGED <<rawCh, merged, ordered, seen, current, historyVars>>
        PROVE  InOrder'
    <3>1. UNCHANGED <<Applied, Numbers(Batch), RawNumbers, sent>>
      BY <2>5 DEF Applied, Numbers, Batch, RawNumbers, historyVars
    <3>2. /\ OnTheWay' \subseteq OnTheWay
          /\ \/ /\ In(held) = {} /\ In(held)' = In(dbCh) /\ In(dbCh)' = {}
                /\ In(outCh)' = In(outCh)
             \/ /\ In(outCh) = {} /\ In(outCh)' = In(held) /\ In(held)' = {}
                /\ In(dbCh)' = In(dbCh)
             \/ /\ In(held)' = {} /\ In(outCh)' = In(outCh) /\ In(dbCh)' = In(dbCh)
      <4>1. CASE TakeBatch
        <5>1. held = <<>> /\ held' = dbCh /\ dbCh' = <<>> /\ outCh' = outCh
          BY <4>1, OneIn DEF TakeBatch, TypeOK
        <5>2. QED
          BY <5>1, InNothing, RangeOfEmpty DEF In, Numbers, OnTheWay
      <4>2. CASE PassBatch
        <5>1. outCh = <<>> /\ outCh' = held /\ held' = <<>> /\ dbCh' = dbCh
          BY <4>2 DEF PassBatch
        <5>2. QED
          BY <5>1, InNothing, RangeOfEmpty DEF In, Numbers, OnTheWay
      <4>3. CASE CloseOut
        <5>1. held' = <<>> /\ outCh' = outCh /\ dbCh' = dbCh
          BY <4>3 DEF CloseOut
        <5>2. QED
          BY <5>1, InNothing, RangeOfEmpty DEF In, Numbers, OnTheWay
      <4>4. QED
        BY <2>5, <4>1, <4>2, <4>3
    <3>3. Ascending(Applied, In(outCh), In(held), In(dbCh), Numbers(Batch), RawNumbers, sent)'
      BY <3>1, <3>2 DEF InOrder, Ascending
    <3>4. QED
      BY <2>5, <3>2, <3>3 DEF InOrder
  <2>6. CASE ReadBatch /\ UNCHANGED <<rawCh, merged, ordered, dbCh, held, historyVars>>
    <3> DEFINE b == Head(outCh)
    <3>1. /\ outCh = <<b>> /\ outCh' = <<>> /\ b \in BatchType
          /\ Range(outCh) = {b} /\ seen' = seen \o b.ordered
          /\ current' = [k \in MergeKeys |->
                            IF b.merged[k] # 0 THEN b.merged[k] ELSE current[k]]
      BY <2>6, OneIn DEF ReadBatch, TypeOK
    <3> HIDE DEF b
    <3>2. b.ordered \in Seq(Nat) /\ b.merged \in [MergeKeys -> Nat]
      BY <3>1 DEF BatchType
    <3>3. In(outCh) = Numbers(b) /\ In(outCh)' = {}
      <4>1. In(<<b>>) = Numbers(b) /\ In(<<>>) = {}
        BY InOne, InNothing
      <4>2. QED
        BY <3>1, <4>1 DEF In, Numbers
    <3>4. Range(seen') = Range(seen) \cup Range(b.ordered)
      BY <3>1, <3>2, RangeOfConcat DEF TypeOK
    <3>5. {current'[k] : k \in MergeKeys} \ {0} \subseteq
            ({current[k] : k \in MergeKeys} \ {0}) \cup ({b.merged[k] : k \in MergeKeys} \ {0})
      BY <3>1
    <3>6. Applied' \subseteq Applied \cup In(outCh)
      BY <3>3, <3>4, <3>5 DEF Applied, Numbers
    <3>7. UNCHANGED <<In(held), In(dbCh), Numbers(Batch), RawNumbers, sent>>
          /\ OnTheWay' \subseteq OnTheWay
      BY <2>6, <3>1, RangeOfEmpty DEF In, Numbers, Batch, RawNumbers, OnTheWay, historyVars
    <3>8. Ascending(Applied, In(outCh), In(held), In(dbCh), Numbers(Batch), RawNumbers, sent)'
      BY <3>3, <3>6, <3>7 DEF InOrder, Ascending
    <3>9. Increasing(seen')
      <4>1. \A x \in Range(seen), y \in Range(b.ordered) : x < y
        BY <3>3 DEF InOrder, Ascending, Applied, Numbers
      <4>2. Increasing(seen) /\ Increasing(b.ordered)
        BY <3>1 DEF InOrder, OnTheWay
      <4>3. QED
        BY <3>1, <3>2, <4>1, <4>2, IncreasingConcat DEF TypeOK
    <3>10. QED
      BY <2>6, <3>7, <3>8, <3>9 DEF InOrder
  <2>7. QED
    BY <2>1, <2>2, <2>3, <2>4, <2>5, <2>6, PipeSteps
<1>3. QED
  BY <1>1, <1>2, TypeOKHolds, PTL DEF Spec

(* The statement of ClusterEventsInOrder: the world state sees cluster     *)
(* events in the order they entered the raw channel, whatever is merged,   *)
(* dropped or cancelled in between.                                        *)
THEOREM ClusterEventsInOrderHolds == Spec => []ClusterEventsInOrder
<1>1. InOrder => ClusterEventsInOrder
  BY DEF InOrder, Increasing, ClusterEventsInOrder
<1>2. QED
  BY <1>1, InOrderHolds, PTL

(* The statement of UpdatesNeverGoBack: what a batch says of a key is      *)
(* newer than what was applied before.                                     *)
THEOREM UpdatesNeverGoBackHolds == Spec => UpdatesNeverGoBack
<1>1. TypeOK /\ InOrder /\ [Next]_vars => [\A k \in MergeKeys : current'[k] >= current[k]]_vars
  <2> SUFFICES ASSUME TypeOK, InOrder, [Next]_vars, NEW k \in MergeKeys
               PROVE  current'[k] >= current[k]
    OBVIOUS
  <2>1. current[k] \in Nat
    BY DEF TypeOK
  <2>2. CASE UNCHANGED current
    BY <2>1, <2>2
  <2>3. CASE ReadBatch
    <3> DEFINE b == Head(outCh)
    <3>1. b \in BatchType /\ Range(outCh) = {b}
          /\ current'[k] = IF b.merged[k] # 0 THEN b.merged[k] ELSE current[k]
      BY <2>3, OneIn DEF ReadBatch, TypeOK
    <3> HIDE DEF b
    <3>2. b.merged[k] \in Nat
      BY <3>1 DEF BatchType
    <3>3. CASE b.merged[k] # 0 /\ current[k] # 0
      <4>1. b.merged[k] \in In(outCh) /\ current[k] \in Applied
        BY <3>1, <3>3 DEF In, Numbers, Applied
      <4>2. current[k] < b.merged[k]
        BY <4>1 DEF InOrder, Ascending
      <4>3. QED
        BY <2>1, <3>1, <3>2, <4>2
    <3>4. QED
      BY <2>1, <3>1, <3>2, <3>3
  <2>4. QED
    BY <2>2, <2>3, PipeSteps DEF pipe
<1>2. QED
  BY <1>1, TypeOKHolds, InOrderHolds, PTL DEF Spec, UpdatesNeverGoBack

-----------------------------------------------------------------------------
(* Nothing is lost before the context is cancelled. *)

ClusterIn(ch)  == UNION {Range(b.ordered) : b \in Range(ch)}
ClusterInRaw   == {e.n : e \in {f \in Range(rawCh) : f.key = ClusterKey}}

LEMMA OrderedOfAll ==
    \A A, B, C : UNION {Range(b.ordered) : b \in A \cup B \cup C}
                  = (UNION {Range(b.ordered) : b \in A}) \cup (UNION {Range(b.ordered) : b \in B})
                      \cup (UNION {Range(b.ordered) : b \in C})
  OBVIOUS

LEMMA KeptByPlace ==
    /\ ClusterEventsKept = Range(seen) \cup ClusterIn(outCh) \cup ClusterIn(held)
                               \cup ClusterIn(dbCh) \cup Range(ordered) \cup ClusterInRaw
    /\ ClusterIn(<<>>) = {}
    /\ \A b : ClusterIn(<<b>>) = Range(b.ordered)
<1>1. ClusterIn(<<>>) = {}
  BY RangeOfEmpty DEF ClusterIn
<1>2. ASSUME NEW b PROVE ClusterIn(<<b>>) = Range(b.ordered)
  <2>1. {Range(x.ordered) : x \in {b}} = {Range(b.ordered)}
    OBVIOUS
  <2>2. QED
    BY <2>1, RangeOfOne DEF ClusterIn
<1>3. ClusterEventsKept = Range(seen) \cup ClusterIn(outCh) \cup ClusterIn(held)
                             \cup ClusterIn(dbCh) \cup Range(ordered) \cup ClusterInRaw
  BY OrderedOfAll DEF ClusterEventsKept, OnTheWay, ClusterIn, ClusterInRaw
<1>4. QED
  BY <1>1, <1>2, <1>3

(* The statement of NoClusterEventLost. *)
THEOREM NoClusterEventLostHolds == Spec => []NoClusterEventLost
<1>1. Init => NoClusterEventLost
  BY DEF Init, NoClusterEventLost
<1>2. TypeOK /\ InOrder /\ NoClusterEventLost /\ [Next]_vars => NoClusterEventLost'
  <2> SUFFICES ASSUME TypeOK, InOrder, NoClusterEventLost, [Next]_vars, ~ctxDone'
               PROVE  clusterSent' \subseteq ClusterEventsKept'
    BY DEF NoClusterEventLost
  <2>1. ~ctxDone /\ clusterSent \subseteq ClusterEventsKept
    BY CancelledForGood DEF NoClusterEventLost
  <2>2. ClusterEventsKept' = (Range(seen) \cup ClusterIn(outCh) \cup ClusterIn(held)
                               \cup ClusterIn(dbCh) \cup Range(ordered) \cup ClusterInRaw)'
    BY OrderedOfAll DEF ClusterEventsKept, OnTheWay, ClusterIn, ClusterInRaw
  <2>3. CASE UNCHANGED pipe
    BY <2>1, <2>3 DEF pipe, historyVars, ClusterEventsKept, OnTheWay
  <2>4. ASSUME NEW l \in Listeners, Send(l),
               UNCHANGED <<merged, ordered, dbCh, held, outCh, seen, current>>
        PROVE  clusterSent' \subseteq ClusterEventsKept'
    <3> DEFINE e == [key |-> Head(todo[l]), n |-> sent + 1]
    <3>1. /\ e \in RawEvent /\ e.key = Head(todo[l]) /\ e.n = sent + 1
          /\ rawCh' = Append(rawCh, e)
          /\ clusterSent' = IF e.key = ClusterKey THEN clusterSent \cup {e.n} ELSE clusterSent
      BY <2>4, HeadTailProperties DEF Send, TypeOK, RawEvent
    <3> HIDE DEF e
    <3>2. Range(rawCh') = Range(rawCh) \cup {e}
      BY <3>1, RangeOfAppend DEF TypeOK
    <3>3. ClusterInRaw' = ClusterInRaw \cup (IF e.key = ClusterKey THEN {e.n} ELSE {})
      BY <3>2 DEF ClusterInRaw
    <3>4. UNCHANGED <<ClusterIn(outCh), ClusterIn(held), ClusterIn(dbCh)>>
      BY <2>4 DEF ClusterIn
    <3>5. QED
      BY <2>1, <2>2, <2>4, <3>1, <3>3, <3>4, KeptByPlace
  <2>5. CASE TakeEvent /\ UNCHANGED <<held, outCh, seen, current, historyVars>>
    <3>1. /\ Range(rawCh) = {Head(rawCh)} \cup Range(Tail(rawCh)) /\ Head(rawCh) \in RawEvent
          /\ rawCh' = Tail(rawCh) /\ dbCh' = dbCh
      BY <2>5, HeadIsOldest DEF TakeEvent, InOrder
    <3>2. ClusterInRaw \subseteq
            ClusterInRaw' \cup (IF Head(rawCh).key = ClusterKey THEN {Head(rawCh).n} ELSE {})
      BY <3>1 DEF ClusterInRaw
    <3>3. Range(ordered) \cup (IF Head(rawCh).key = ClusterKey THEN {Head(rawCh).n} ELSE {})
            \subseteq Range(ordered')
      <4>1. CASE Head(rawCh).key = ClusterKey
        <5> DEFINE n == Head(rawCh).n
        <5>1. ordered' = Append(ordered, n) /\ n \in Nat /\ ordered \in Seq(Nat)
          BY <2>5, <3>1, <4>1, KeysOfBursts DEF TakeEvent, RawEvent, TypeOK
        <5> HIDE DEF n
        <5>2. Range(Append(ordered, n)) = Range(ordered) \cup {n}
          BY <5>1, RangeOfAppend
        <5> USE DEF n
        <5>3. QED
          BY <4>1, <5>1, <5>2
      <4>2. CASE Head(rawCh).key # ClusterKey
        <5>1. Head(rawCh).key \in MergeKeys
          BY <3>1, <4>2, KeysOfBursts DEF RawEvent
        <5>2. ordered' = ordered
          BY <2>5, <5>1 DEF TakeEvent
        <5>3. QED
          BY <4>2, <5>2
      <4>3. QED
        BY <4>1, <4>2
    <3>4. UNCHANGED <<ClusterIn(outCh), ClusterIn(held), ClusterIn(dbCh), seen, clusterSent>>
      BY <2>5, <3>1 DEF ClusterIn, historyVars
    <3>5. QED
      BY <2>1, <2>2, <3>2, <3>3, <3>4, KeptByPlace
  <2>6. CASE /\ (Emit /\ UNCHANGED ctxDone) \/ FinalFlush
             /\ UNCHANGED <<held, outCh, seen, current, historyVars>>
    <3>1. dbCh' = <<Batch>> /\ dbCh = <<>> /\ rawCh' = rawCh
      BY <2>1, <2>6 DEF Emit, FinalFlush
    <3>2. ClusterIn(dbCh)' = Range(ordered) /\ ClusterIn(dbCh) = {}
      BY <3>1, KeptByPlace DEF Batch, ClusterIn
    <3>3. UNCHANGED <<ClusterIn(outCh), ClusterIn(held), ClusterInRaw, seen, clusterSent>>
      BY <2>6, <3>1 DEF ClusterIn, ClusterInRaw, historyVars
    <3>4. QED
      BY <2>1, <2>2, <3>2, <3>3, KeptByPlace
  <2>7. CASE /\ TakeBatch \/ PassBatch \/ (CloseOut /\ UNCHANGED ctxDone)
             /\ UNCHANGED <<rawCh, merged, ordered, seen, current, historyVars>>
    <3>1. \/ held = <<>> /\ held' = dbCh /\ dbCh' = <<>> /\ outCh' = outCh
          \/ outCh = <<>> /\ outCh' = held /\ held' = <<>> /\ dbCh' = dbCh
          \/ UNCHANGED <<held, dbCh, outCh>>
      <4>1. CASE TakeBatch
        BY <4>1, OneIn DEF TakeBatch, TypeOK
      <4>2. CASE PassBatch
        BY <4>2 DEF PassBatch
      <4>3. CASE CloseOut
        BY <2>1, <2>7, <4>3 DEF CloseOut
      <4>4. QED
        BY <2>7, <4>1, <4>2, <4>3
    <3>2. Range(outCh) \cup Range(held) \cup Range(dbCh)
            \subseteq Range(outCh') \cup Range(held') \cup Range(dbCh')
      BY <3>1, RangeOfEmpty
    <3>3. QED
      BY <2>1, <2>7, <3>2 DEF ClusterEventsKept, OnTheWay, historyVars
  <2>8. CASE ReadBatch /\ UNCHANGED <<rawCh, merged, ordered, dbCh, held, historyVars>>
    <3>1. /\ outCh = <<Head(outCh)>> /\ outCh' = <<>> /\ Head(outCh) \in BatchType
          /\ seen' = seen \o Head(outCh).ordered
      BY <2>8, OneIn DEF ReadBatch, TypeOK
    <3>2. Head(outCh).ordered \in Seq(Nat)
      BY <3>1 DEF BatchType
    <3>3. Range(seen') = Range(seen) \cup Range(Head(outCh).ordered)
      BY <3>1, <3>2, RangeOfConcat DEF TypeOK
    <3>4. ClusterIn(outCh) = Range(Head(outCh).ordered)
      BY <3>1, KeptByPlace
    <3>5. UNCHANGED <<ClusterIn(held), ClusterIn(dbCh), ClusterInRaw, ordered, clusterSent>>
      BY <2>8 DEF ClusterIn, ClusterInRaw, historyVars
    <3>6. QED
      BY <2>1, <2>2, <3>3, <3>4, <3>5, KeptByPlace
  <2>9. QED
    BY <2>3, <2>4, <2>5, <2>6, <2>7, <2>8, PipeSteps
<1>3. QED
  BY <1>1, <1>2, TypeOKHolds, InOrderHolds, PTL DEF Spec

(* No place holds an event of a key that is newer than the last one sent.  *)
ByLast ==
    \A k \in MergeKeys :
        /\ current[k] <= last[k] /\ merged[k] <= last[k]
        /\ \A b \in OnTheWay : b.merged[k] <= last[k]
        /\ \A e \in Range(rawCh) : e.key = k => e.n <= last[k]

LEMMA ByLastHolds == Spec => []ByLast
<1>1. Init => ByLast
  BY RangeOfEmpty DEF Init, ByLast, NothingMerged, OnTheWay
<1>2. TypeOK /\ InOrder /\ ByLast /\ [Next]_vars => ByLast'
  <2> SUFFICES ASSUME TypeOK, InOrder, ByLast, [Next]_vars PROVE ByLast'
    OBVIOUS
  <2>1. CASE UNCHANGED pipe
    BY <2>1 DEF pipe, historyVars, ByLast, OnTheWay
  <2>2. ASSUME NEW l \in Listeners, Send(l),
               UNCHANGED <<merged, ordered, dbCh, held, outCh, seen, current>>
        PROVE  ByLast'
    <3> DEFINE e == [key |-> Head(todo[l]), n |-> sent + 1]
    <3>1. /\ e \in RawEvent /\ e.key \in Keys /\ e.n = sent + 1
          /\ rawCh' = Append(rawCh, e)
          /\ last' = IF e.key = ClusterKey THEN last ELSE [last EXCEPT ![e.key] = e.n]
      BY <2>2, HeadTailProperties DEF Send, TypeOK, RawEvent
    <3> HIDE DEF e
    <3>2. Range(rawCh') = Range(rawCh) \cup {e}
      BY <3>1, RangeOfAppend DEF TypeOK
    <3>3. \A k \in MergeKeys : last[k] \in 0 .. sent /\ sent \in Nat
      BY DEF TypeOK
    <3>4. \A k \in MergeKeys : last'[k] >= last[k] /\ (e.key = k => last'[k] = e.n)
                               /\ last'[k] \in Nat
      <4>1. last \in [MergeKeys -> 0 .. sent] /\ sent \in Nat /\ e.n \in Nat
        BY <3>1 DEF TypeOK
      <4>2. \A k \in MergeKeys : last'[k] = IF e.key = k THEN e.n ELSE last[k]
        BY <3>1, <4>1, KeysOfBursts
      <4>3. QED
        BY <3>1, <3>3, <4>1, <4>2
    <3>5. OnTheWay' = OnTheWay
      BY <2>2 DEF OnTheWay
    <3>6. ASSUME NEW k \in MergeKeys
          PROVE  /\ current'[k] <= last'[k] /\ merged'[k] <= last'[k]
                 /\ \A b \in OnTheWay' : b.merged[k] <= last'[k]
                 /\ \A f \in Range(rawCh') : f.key = k => f.n <= last'[k]
      <4>1. current[k] \in Nat /\ merged[k] \in Nat /\ last[k] \in Nat
            /\ current[k] <= last[k] /\ merged[k] <= last[k]
        BY <3>3 DEF TypeOK, ByLast
      <4>2. \A b \in OnTheWay : b.merged[k] \in Nat /\ b.merged[k] <= last[k]
        <5>1. OnTheWay \subseteq BatchType
          BY RangeInSet DEF TypeOK, OnTheWay
        <5>2. QED
          BY <5>1 DEF ByLast, BatchType
      <4>3. \A f \in Range(rawCh) : f.n \in Nat /\ (f.key = k => f.n <= last[k])
        <5>1. Range(rawCh) \subseteq RawEvent
          BY RangeInSet DEF TypeOK
        <5>2. QED
          BY <5>1 DEF ByLast, RawEvent
      <4>4. QED
        BY <2>2, <3>1, <3>2, <3>4, <3>5, <4>1, <4>2, <4>3
    <3>7. QED
      BY <3>6 DEF ByLast
  <2>3. CASE TakeEvent /\ UNCHANGED <<held, outCh, seen, current, historyVars>>
    <3>1. /\ Range(rawCh) = {Head(rawCh)} \cup Range(Tail(rawCh)) /\ rawCh' = Tail(rawCh)
          /\ UNCHANGED <<OnTheWay, current, last>>
      BY <2>3, HeadIsOldest DEF TakeEvent, InOrder, OnTheWay, historyVars
    <3>2. \A k \in MergeKeys :
             merged'[k] = merged[k] \/ (k = Head(rawCh).key /\ merged'[k] = Head(rawCh).n)
      BY <2>3 DEF TakeEvent, TypeOK
    <3>3. QED
      BY <3>1, <3>2 DEF ByLast
  <2>4. ASSUME Emit \/ FinalFlush, UNCHANGED <<held, outCh, seen, current, historyVars>>
        PROVE  ByLast'
    <3>1. /\ dbCh' = <<Batch>> \/ dbCh' = dbCh
          /\ merged' = NothingMerged /\ UNCHANGED <<rawCh, last, current>>
      BY <2>4 DEF Emit, FinalFlush, Clear, historyVars
    <3>2. OnTheWay' \subseteq OnTheWay \cup {Batch}
      BY <2>4, <3>1, RangeOfOne DEF OnTheWay
    <3>3. \A k \in MergeKeys : 0 <= last[k]
      BY DEF TypeOK
    <3>4. \A k \in MergeKeys : Batch.merged[k] <= last[k] /\ merged'[k] <= last[k]
      BY <3>1, <3>3 DEF Batch, ByLast, NothingMerged
    <3>5. QED
      BY <3>1, <3>2, <3>4 DEF ByLast
  <2>5. ASSUME TakeBatch \/ PassBatch \/ CloseOut,
               UNCHANGED <<rawCh, merged, ordered, seen, current, historyVars>>
        PROVE  ByLast'
    <3>1. OnTheWay' \subseteq OnTheWay
      <4>1. CASE TakeBatch
        BY <4>1, OneIn, RangeOfEmpty DEF TakeBatch, TypeOK, OnTheWay
      <4>2. CASE PassBatch
        BY <4>2, RangeOfEmpty DEF PassBatch, OnTheWay
      <4>3. CASE CloseOut
        BY <4>3, RangeOfEmpty DEF CloseOut, OnTheWay
      <4>4. QED
        BY <2>5, <4>1, <4>2, <4>3
    <3>2. QED
      BY <2>5, <3>1 DEF ByLast, historyVars
  <2>6. CASE ReadBatch /\ UNCHANGED <<rawCh, merged, ordered, dbCh, held, historyVars>>
    <3>1. /\ Range(outCh) = {Head(outCh)} /\ outCh' = <<>>
          /\ current' = [k \in MergeKeys |-> IF Head(outCh).merged[k] # 0
                                              THEN Head(outCh).merged[k] ELSE current[k]]
      BY <2>6, OneIn DEF ReadBatch, TypeOK
    <3>2. Head(outCh) \in OnTheWay /\ OnTheWay' \subseteq OnTheWay
      BY <2>6, <3>1, RangeOfEmpty DEF OnTheWay
    <3>3. QED
      BY <2>6, <3>1, <3>2 DEF ByLast, historyVars
  <2>7. QED
    BY <2>1, <2>2, <2>3, <2>4, <2>5, <2>6, PipeSteps
<1>3. QED
  BY <1>1, <1>2, TypeOKHolds, InOrderHolds, PTL DEF Spec

(* The statement of NewestUpdateKept.  Merging keeps the later of two      *)
(* events of a key, and by InOrder it is the later one that comes second.  *)
THEOREM NewestUpdateKeptHolds == Spec => []NewestUpdateKept
<1>1. Init => NewestUpdateKept
  BY DEF Init, NewestUpdateKept, NothingMerged
<1>2. TypeOK /\ InOrder /\ ByLast /\ NewestUpdateKept /\ [Next]_vars => NewestUpdateKept'
  <2> SUFFICES ASSUME TypeOK, InOrder, ByLast, NewestUpdateKept, [Next]_vars, ~ctxDone',
                      NEW k \in MergeKeys, last'[k] # 0
               PROVE  \/ last'[k] \in {current'[k], merged'[k]}
                      \/ \E b \in OnTheWay' : b.merged[k] = last'[k]
                      \/ [key |-> k, n |-> last'[k]] \in Range(rawCh')
    BY DEF NewestUpdateKept
  <2> DEFINE Kept == \/ last[k] \in {current[k], merged[k]}
                     \/ \E b \in OnTheWay : b.merged[k] = last[k]
                     \/ [key |-> k, n |-> last[k]] \in Range(rawCh)
  <2>1. ~ctxDone /\ (last[k] # 0 => Kept)
    BY CancelledForGood DEF NewestUpdateKept
  <2>2. CASE UNCHANGED pipe
    BY <2>1, <2>2 DEF pipe, historyVars, OnTheWay
  <2>3. ASSUME NEW l \in Listeners, Send(l),
               UNCHANGED <<merged, ordered, dbCh, held, outCh, seen, current>>
        PROVE  Kept'
    <3> DEFINE e == [key |-> Head(todo[l]), n |-> sent + 1]
    <3>1. /\ e \in RawEvent /\ rawCh' = Append(rawCh, e)
          /\ last' = IF e.key = ClusterKey THEN last ELSE [last EXCEPT ![e.key] = e.n]
          /\ e = [key |-> e.key, n |-> e.n]
      <4>1. Head(todo[l]) \in Keys /\ sent + 1 \in Nat
        BY <2>3, HeadTailProperties DEF Send, TypeOK
      <4>2. e \in RawEvent
        BY <4>1 DEF RawEvent
      <4>3. rawCh' = Append(rawCh, e)
        BY <2>3 DEF Send
      <4>4. last' = IF e.key = ClusterKey THEN last ELSE [last EXCEPT ![e.key] = e.n]
        BY <2>3 DEF Send
      <4>5. QED
        BY <4>2, <4>3, <4>4
    <3> HIDE DEF e
    <3>2. Range(rawCh') = Range(rawCh) \cup {e}
      BY <3>1, RangeOfAppend DEF TypeOK
    <3>3. CASE e.key = k
      <4>1. last'[k] = e.n
        BY <3>1, <3>3, KeysOfBursts DEF TypeOK
      <4>2. QED
        BY <3>1, <3>2, <3>3, <4>1
    <3>4. CASE e.key # k
      <4>1. last'[k] = last[k] /\ OnTheWay' = OnTheWay
        BY <2>3, <3>1, <3>4 DEF TypeOK, OnTheWay
      <4>2. QED
        BY <2>1, <2>3, <3>2, <4>1
    <3>5. QED
      BY <3>3, <3>4
  <2>4. CASE TakeEvent /\ UNCHANGED <<held, outCh, seen, current, historyVars>>
    <3>1. /\ Range(rawCh) = {Head(rawCh)} \cup Range(Tail(rawCh)) /\ Head(rawCh) \in RawEvent
          /\ rawCh' = Tail(rawCh) /\ UNCHANGED <<OnTheWay, current, last>>
      BY <2>4, HeadIsOldest DEF TakeEvent, InOrder, OnTheWay, historyVars
    <3>2. merged'[k] = IF Head(rawCh).key = k THEN Head(rawCh).n ELSE merged[k]
      BY <2>4 DEF TakeEvent, TypeOK
    <3>3. CASE last[k] = merged[k] /\ Head(rawCh).key = k
      <4>1. merged[k] \in Numbers(Batch) /\ Head(rawCh).n \in RawNumbers
        BY <3>1, <3>3 DEF Numbers, Batch, RawNumbers
      <4>2. merged[k] < Head(rawCh).n
        BY <4>1 DEF InOrder, Ascending
      <4>3. Head(rawCh).n <= last[k]
        BY <3>1, <3>3 DEF ByLast
      <4>4. merged[k] \in Nat /\ Head(rawCh).n \in Nat
        BY <3>1 DEF TypeOK, RawEvent
      <4>5. QED
        BY <3>3, <4>2, <4>3, <4>4
    <3>4. CASE [key |-> k, n |-> last[k]] = Head(rawCh)
      BY <3>1, <3>2, <3>4
    <3>5. QED
      BY <2>1, <3>1, <3>2, <3>3, <3>4
  <2>5. CASE /\ (Emit /\ UNCHANGED ctxDone) \/ FinalFlush
             /\ UNCHANGED <<held, outCh, seen, current, historyVars>>
    <3>1. dbCh' = <<Batch>> /\ dbCh = <<>> /\ UNCHANGED <<rawCh, last, current>>
      BY <2>1, <2>5 DEF Emit, FinalFlush, historyVars
    <3>2. OnTheWay' = OnTheWay \cup {Batch}
      BY <2>5, <3>1, RangeOfOne, RangeOfEmpty DEF OnTheWay
    <3>3. Batch.merged[k] = merged[k]
      BY DEF Batch
    <3>4. QED
      BY <2>1, <3>1, <3>2, <3>3
  <2>6. CASE /\ TakeBatch \/ PassBatch \/ (CloseOut /\ UNCHANGED ctxDone)
             /\ UNCHANGED <<rawCh, merged, ordered, seen, current, historyVars>>
    <3>1. OnTheWay \subseteq OnTheWay'
      <4>1. CASE TakeBatch
        BY <4>1, OneIn, RangeOfEmpty DEF TakeBatch, TypeOK, OnTheWay
      <4>2. CASE PassBatch
        BY <4>2, RangeOfEmpty DEF PassBatch, OnTheWay
      <4>3. CASE CloseOut
        BY <2>1, <2>6, <4>3, RangeOfEmpty DEF CloseOut, OnTheWay
      <4>4. QED
        BY <2>6, <4>1, <4>2, <4>3
    <3>2. QED
      BY <2>1, <2>6, <3>1 DEF historyVars
  <2>7. CASE ReadBatch /\ UNCHANGED <<rawCh, merged, ordered, dbCh, held, historyVars>>
    <3> DEFINE b == Head(outCh)
    <3>1. /\ Range(outCh) = {b} /\ outCh' = <<>> /\ b \in BatchType
          /\ current'[k] = IF b.merged[k] # 0 THEN b.merged[k] ELSE current[k]
      BY <2>7, OneIn DEF ReadBatch, TypeOK
    <3> HIDE DEF b
    <3>2. OnTheWay = OnTheWay' \cup {b} /\ UNCHANGED <<rawCh, merged, last>>
      BY <2>7, <3>1, RangeOfEmpty DEF OnTheWay, historyVars
    <3>3. CASE last[k] = current[k] /\ b.merged[k] # 0
      <4>1. current[k] \in Applied /\ b.merged[k] \in In(outCh)
        BY <3>1, <3>2, <3>3 DEF Applied, In, Numbers
      <4>2. current[k] < b.merged[k]
        BY <4>1 DEF InOrder, Ascending
      <4>3. b.merged[k] <= last[k]
        BY <3>2 DEF ByLast
      <4>4. current[k] \in Nat /\ b.merged[k] \in Nat
        BY <3>1 DEF TypeOK, BatchType
      <4>5. QED
        BY <3>3, <4>2, <4>3, <4>4
    <3>4. QED
      BY <2>1, <3>1, <3>2, <3>3
  <2>8. QED
    BY <2>2, <2>3, <2>4, <2>5, <2>6, <2>7, PipeSteps
<1>3. QED
  BY <1>1, <1>2, TypeOKHolds, InOrderHolds, ByLastHolds, PTL DEF Spec

-----------------------------------------------------------------------------
(* Together with their order: until the context is cancelled the cluster   *)
(* events applied are the first of those sent.  ControlLoop reads its      *)
(* events this way: a batch is a prefix of what is on its way.             *)
AppliedIsPrefix ==
    ~ctxDone =>
        \A x \in Range(seen), y \in clusterSent : y < x => y \in Range(seen)

(* No cluster event is passed over by a newer one while applySignals works *)
(* through batches: what is applied is gapless.                            *)
THEOREM AppliedIsPrefixHolds == Spec => []AppliedIsPrefix
<1>1. TypeOK /\ InOrder /\ NoClusterEventLost => AppliedIsPrefix
  <2> SUFFICES ASSUME TypeOK, InOrder, NoClusterEventLost, ~ctxDone,
                      NEW x \in Range(seen), NEW y \in clusterSent, y < x
               PROVE  y \in Range(seen)
    BY DEF AppliedIsPrefix
  <2>1. y \in Range(seen) \cup ClusterIn(outCh) \cup ClusterIn(held)
                \cup ClusterIn(dbCh) \cup Range(ordered) \cup ClusterInRaw
    BY KeptByPlace DEF NoClusterEventLost
  <2>2. ClusterIn(outCh) \subseteq In(outCh) /\ ClusterIn(held) \subseteq In(held)
          /\ ClusterIn(dbCh) \subseteq In(dbCh)
    BY DEF ClusterIn, In, Numbers
  <2>3. Range(ordered) \subseteq Numbers(Batch) /\ ClusterInRaw \subseteq RawNumbers
    BY DEF Numbers, Batch, ClusterInRaw, RawNumbers
  <2>4. x \in Applied
    BY DEF Applied
  <2>5. \A z \in In(outCh) \cup In(held) \cup In(dbCh) \cup Numbers(Batch) \cup RawNumbers :
            x < z
    BY <2>4 DEF InOrder, Ascending
  <2>6. sent \in Nat /\ y \in Nat /\ x \in 1 .. sent
    BY <2>4 DEF TypeOK, InOrder, Ascending
  <2>7. ~(x < y)
    BY <2>6
  <2>8. QED
    BY <2>1, <2>2, <2>3, <2>5, <2>7
<1>2. QED
  BY <1>1, TypeOKHolds, InOrderHolds, NoClusterEventLostHolds, PTL

-----------------------------------------------------------------------------
(* The safety half of Delivered: until the context is cancelled every      *)
(* goroutine of the pipeline is still there to take what comes its way,    *)
(* and the debouncer holds nothing that no timer will flush.               *)
UpUntilCancelled ==
    ~ctxDone /\ Listeners # {} =>
        /\ gone = {} /\ ~rawClosed
        /\ dpc \in {"select", "emit"} /\ ~outClosed /\ rpc # "returned"
        /\ Buffered /\ dpc = "select" => timer # "off"

(* Whatever the sources do and however full the channels are: the window   *)
(* of runDebouncer is open whenever something is buffered.                 *)
THEOREM UpUntilCancelledHolds == Spec => []UpUntilCancelled
<1>1. Init => UpUntilCancelled
  BY DEF Init, UpUntilCancelled, Buffered
<1>2. UpUntilCancelled /\ [Next]_vars => UpUntilCancelled'
  <2> SUFFICES ASSUME UpUntilCancelled, [Next]_vars, ~ctxDone', Listeners # {}
               PROVE  (/\ gone = {} /\ ~rawClosed
                       /\ dpc \in {"select", "emit"} /\ ~outClosed /\ rpc # "returned"
                       /\ Buffered /\ dpc = "select" => timer # "off")'
    BY DEF UpUntilCancelled
  <2>1. /\ ~ctxDone /\ gone = {} /\ ~rawClosed
        /\ dpc \in {"select", "emit"} /\ ~outClosed /\ rpc # "returned"
        /\ Buffered /\ dpc = "select" => timer # "off"
    BY CancelledForGood DEF UpUntilCancelled
  <2>2. ASSUME NEW l \in Listeners, Listener(l)
        PROVE  UNCHANGED <<gone, rawClosed, dpc, outClosed, rpc, merged, ordered, timer>>
    BY <2>1, <2>2 DEF Listener, Proceed, Poll, Send, Exit, Receive, StartPoll, debouncerVars,
                      readerVars
  <2>3. CASE Debouncer
    <3>1. CASE TakeEvent
      BY <2>1, <2>3, <3>1 DEF TakeEvent, Debouncer, listenerVars, readerVars
    <3>2. CASE WindowEnds
      BY <2>1, <2>3, <3>2 DEF WindowEnds, Debouncer, listenerVars, readerVars, Buffered
    <3>3. CASE Emit
      BY <2>1, <2>3, <3>3 DEF Emit, Clear, Debouncer, listenerVars, readerVars, Buffered
    <3>4. CASE EndOfInput
      BY <2>1, <3>4 DEF EndOfInput
    <3>5. CASE FinalFlush
      BY <2>1, <3>5 DEF FinalFlush
    <3>6. QED
      BY <2>3, <3>1, <3>2, <3>3, <3>4, <3>5 DEF Debouncer
  <2>4. CASE TimerFires
    BY <2>1, <2>4 DEF TimerFires, listenerVars, readerVars, Buffered
  <2>5. CASE Instrument
    BY <2>1, <2>5 DEF Instrument, TakeBatch, PassBatch, CloseOut, listenerVars, debouncerVars,
                      readerVars, Buffered
  <2>6. CASE Reader
    BY <2>1, <2>6 DEF Reader, ReadBatch, EndCycle, Return, listenerVars, debouncerVars, Buffered
  <2>7. CASE CloseRaw
    BY <2>1, <2>7 DEF CloseRaw
  <2>8. CASE Cancel
    BY <2>8 DEF Cancel
  <2>9. CASE UNCHANGED vars
    BY <2>1, <2>9 DEF vars, listenerVars, debouncerVars, readerVars, Buffered
  <2>10. QED
    BY <2>1, <2>2, <2>3, <2>4, <2>5, <2>6, <2>7, <2>8, <2>9 DEF Next, Buffered
<1>3. QED
  BY <1>1, <1>2, PTL DEF Spec

=============================================================================
