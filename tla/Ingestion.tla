----------------------------- MODULE Ingestion -----------------------------
(***************************************************************************)
(* internal/ingestion: listeners turn what clusters, configuration, API    *)
(* and tickers tell them into events on a bounded raw channel; the         *)
(* debouncer collects what arrives within a window into a batch, keeping   *)
(* only the last event of a merge key and all cluster events in order; a   *)
(* third goroutine passes batches on to the control loop, over two         *)
(* channels with room for one batch.                                       *)
(*                                                                         *)
(* Events are numbered in the order they enter the raw channel: what an    *)
(* event says is not modelled.  The registry of applications only decides  *)
(* which polls are made and which SLAs are checked; both are free here.    *)
(***************************************************************************)
EXTENDS Naturals, Sequences, Functions

CONSTANTS
    Apps,           \* applications in the registry
    Listeners,      \* the listeners that run, of the six there are
    RawCap,         \* capacity of the raw channel (rawChSize)
    MaxEvents       \* bound: how many events the sources have

VARIABLES
    ctxDone,        \* is the context of Start cancelled?
    todo,           \* todo[l]: keys of the events listener l still has to send
    polling,        \* applications the current poll has not come to
    gone,           \* listeners that have exited
    rawCh,          \* the raw channel
    rawClosed,
    dpc,            \* where the debouncer is
    merged,         \* merged[k]: number of the event kept for k, or 0
    ordered,        \* nonMergeable: numbers of cluster events
    timer,          \* the window's timer: "off", "running" or "fired"
    dbCh,           \* channel of batches from the debouncer ...
    held,           \* ... to instrumentBatches, the batch it holds ...
    outCh,          \* ... and its channel to the control loop
    outClosed,
    rpc,            \* where the control loop is
    seen,           \* cluster events it has applied
    current,        \* current[k]: last event with key k it has applied, or 0
    accepted,       \* how many events the listeners have accepted
    sent, last, clusterSent \* history: events sent, the last of a key, cluster events

listenerVars  == <<todo, polling, gone, accepted>>
historyVars   == <<sent, last, clusterSent>>
debouncerVars == <<dpc, merged, ordered, timer>>
readerVars    == <<rpc, seen, current>>
vars == <<ctxDone, listenerVars, historyVars, rawCh, rawClosed, debouncerVars,
          dbCh, held, outCh, outClosed, readerVars>>

ClusterKey == <<"ClusterEvent">>
MergeKeys  == ({"MetricsUpdate", "SLABreach", "AppConfigUpdate"} \X Apps)
                \cup {<<"PeriodicEval">>}
Keys == MergeKeys \cup {ClusterKey}

ASSUME IngestionAssumption ==
    /\ Listeners \subseteq {"clusterEvents", "appConfig", "metricsConfig",
                            "injected", "poll", "periodic"}
    /\ RawCap \in Nat \ {0}
    /\ MaxEvents \in Nat

NothingMerged == [k \in MergeKeys |-> 0]

Init ==
    /\ ctxDone = FALSE
    /\ todo = [l \in Listeners |-> <<>>]
    /\ polling = IF "poll" \in Listeners THEN Apps ELSE {}
    /\ gone = {} /\ accepted = 0
    /\ rawCh = <<>> /\ rawClosed = FALSE
    /\ dpc = "select" /\ merged = NothingMerged /\ ordered = <<>> /\ timer = "off"
    /\ dbCh = <<>> /\ held = <<>> /\ outCh = <<>> /\ outClosed = FALSE
    /\ rpc = "select" /\ seen = <<>> /\ current = NothingMerged
    /\ sent = 0 /\ last = NothingMerged /\ clusterSent = {}

-----------------------------------------------------------------------------
(* The listeners. *)

(* A metrics update may be followed by a breach of either SLA. *)
MetricsOf(a) ==
    {<< <<"MetricsUpdate", a>> >> \o [i \in 1 .. b |-> <<"SLABreach", a>>] : b \in 0 .. 2}

(* What one input of a listener makes it send; anything may be injected. *)
Inputs(l) ==
    CASE l = "clusterEvents" -> {<<ClusterKey>>}
      [] l = "appConfig"     -> {<< <<"AppConfigUpdate", a>> >> : a \in Apps}
      [] l = "metricsConfig" -> UNION {MetricsOf(a) : a \in Apps}
      [] l = "injected"      -> (UNION {MetricsOf(a) : a \in Apps}) \cup {<<k>> : k \in Keys}
      [] l = "periodic"      -> {<< <<"PeriodicEval">> >>}
      [] l = "poll"          -> {}

Accept(l, burst) ==
    /\ accepted + Len(burst) <= MaxEvents
    /\ accepted' = accepted + Len(burst)
    /\ todo' = [todo EXCEPT ![l] = burst]

Idle(l) == l \notin gone /\ todo[l] = <<>>

Receive(l) ==
    /\ Idle(l)
    /\ \E burst \in Inputs(l) : Accept(l, burst)
    /\ UNCHANGED <<polling, gone, rawCh, historyVars>>

StartPoll(l) ==
    /\ l = "poll" /\ Idle(l) /\ polling = {}
    /\ accepted < MaxEvents
    /\ polling' = Apps
    /\ UNCHANGED <<todo, gone, accepted, rawCh, historyVars>>

(* An application whose metrics cannot be read is passed over. *)
Poll(l) ==
    /\ l = "poll" /\ Idle(l)
    /\ \E a \in polling :
         /\ polling' = polling \ {a}
         /\ \/ \E burst \in MetricsOf(a) : Accept(l, burst)
            \/ UNCHANGED <<todo, accepted>>
    /\ UNCHANGED <<gone, rawCh, historyVars>>

(* Sending does not look at the context. *)
Send(l) ==
    /\ todo[l] # <<>>
    /\ Len(rawCh) < RawCap
    /\ LET k == Head(todo[l]) IN
         /\ rawCh' = Append(rawCh, [key |-> k, n |-> sent + 1])
         /\ IF k = ClusterKey
            THEN clusterSent' = clusterSent \cup {sent + 1} /\ UNCHANGED last
            ELSE last' = [last EXCEPT ![k] = sent + 1] /\ UNCHANGED clusterSent
    /\ sent' = sent + 1
    /\ todo' = [todo EXCEPT ![l] = Tail(@)]
    /\ UNCHANGED <<polling, gone, accepted>>

Exit(l) ==
    /\ ctxDone
    /\ Idle(l)
    /\ l = "poll" => polling = {}
    /\ gone' = gone \cup {l}
    /\ UNCHANGED <<todo, polling, accepted, rawCh, historyVars>>

(* Start's goroutine waits for all of them. *)
CloseRaw ==
    /\ gone = Listeners /\ ~rawClosed
    /\ rawClosed' = TRUE
    /\ UNCHANGED <<ctxDone, listenerVars, historyVars, rawCh, debouncerVars,
                   dbCh, held, outCh, outClosed, readerVars>>

(* What a listener does without further input. *)
Proceed(l) ==
    /\ Poll(l) \/ Send(l) \/ Exit(l)
    /\ UNCHANGED <<ctxDone, rawClosed, debouncerVars, dbCh, held, outCh, outClosed,
                   readerVars>>

Listener(l) ==
    \/ Proceed(l)
    \/ /\ Receive(l) \/ StartPoll(l)
       /\ UNCHANGED <<ctxDone, rawClosed, debouncerVars, dbCh, held, outCh, outClosed,
                      readerVars>>

-----------------------------------------------------------------------------
(* The debouncer. *)

Buffered == merged # NothingMerged \/ ordered # <<>>
Batch    == [merged |-> merged, ordered |-> ordered]

(* Slips: the first event of a key is kept; cluster events are stacked;    *)
(* they are merged like all others; the window is opened once only.        *)
TakeEvent_firstWins ==
    /\ dpc = "select" /\ rawCh # <<>>
    /\ LET e == Head(rawCh) IN
         IF e.key \in MergeKeys
         THEN /\ merged' = [merged EXCEPT ![e.key] = IF @ = 0 THEN e.n ELSE @]
              /\ UNCHANGED ordered
         ELSE ordered' = Append(ordered, e.n) /\ UNCHANGED merged
    /\ rawCh' = Tail(rawCh)
    /\ timer' = IF timer = "off" THEN "running" ELSE timer
    /\ UNCHANGED <<dpc, dbCh>>
TakeEvent_stacks ==
    /\ dpc = "select" /\ rawCh # <<>>
    /\ LET e == Head(rawCh) IN
         IF e.key \in MergeKeys
         THEN merged' = [merged EXCEPT ![e.key] = e.n] /\ UNCHANGED ordered
         ELSE ordered' = <<e.n>> \o ordered /\ UNCHANGED merged
    /\ rawCh' = Tail(rawCh)
    /\ timer' = IF timer = "off" THEN "running" ELSE timer
    /\ UNCHANGED <<dpc, dbCh>>
TakeEvent_mergesAll ==
    /\ dpc = "select" /\ rawCh # <<>>
    /\ LET e == Head(rawCh) IN
         IF e.key \in MergeKeys
         THEN merged' = [merged EXCEPT ![e.key] = e.n] /\ UNCHANGED ordered
         ELSE ordered' = <<e.n>> /\ UNCHANGED merged
    /\ rawCh' = Tail(rawCh)
    /\ timer' = IF timer = "off" THEN "running" ELSE timer
    /\ UNCHANGED <<dpc, dbCh>>
TakeEvent_timerOnce ==
    /\ dpc = "select" /\ rawCh # <<>>
    /\ LET e == Head(rawCh) IN
         IF e.key \in MergeKeys
         THEN merged' = [merged EXCEPT ![e.key] = e.n] /\ UNCHANGED ordered
         ELSE ordered' = Append(ordered, e.n) /\ UNCHANGED merged
    /\ rawCh' = Tail(rawCh)
    /\ timer' = IF timer = "off" /\ Head(rawCh).n = 1 THEN "running" ELSE timer
    /\ UNCHANGED <<dpc, dbCh>>

(* The first event after a flush opens a window. *)
TakeEvent ==
    /\ dpc = "select" /\ rawCh # <<>>
    /\ LET e == Head(rawCh) IN
         IF e.key \in MergeKeys
         THEN merged' = [merged EXCEPT ![e.key] = e.n] /\ UNCHANGED ordered
         ELSE ordered' = Append(ordered, e.n) /\ UNCHANGED merged
    /\ rawCh' = Tail(rawCh)
    /\ timer' = IF timer = "off" THEN "running" ELSE timer
    /\ UNCHANGED <<dpc, dbCh>>

WindowEnds ==
    /\ dpc = "select" /\ timer = "fired"
    /\ dpc' = IF Buffered THEN "emit" ELSE "select"
    /\ timer' = "off"
    /\ UNCHANGED <<merged, ordered, rawCh, dbCh>>

Clear == merged' = NothingMerged /\ ordered' = <<>>

(* Slip: every batch is sent by a goroutine of its own, so that batches    *)
(* may overtake each other.                                                *)
Emit_goroutine ==
    /\ dpc = "emit"
    /\ \/ dbCh' = Append(dbCh, Batch)
       \/ dbCh' = <<Batch>> \o dbCh
    /\ Clear
    /\ dpc' = "select"
    /\ UNCHANGED <<timer, rawCh>>

(* A batch that cannot be sent before the cancellation is dropped. *)
Emit ==
    /\ dpc = "emit"
    /\ \/ dbCh = <<>> /\ dbCh' = <<Batch>>
       \/ ctxDone /\ UNCHANGED dbCh
    /\ Clear
    /\ dpc' = "select"
    /\ UNCHANGED <<timer, rawCh>>

EndOfInput ==
    /\ dpc = "select"
    /\ ctxDone \/ (rawClosed /\ rawCh = <<>>)
    /\ dpc' = IF Buffered THEN "final" ELSE "closed"
    /\ timer' = "off"
    /\ UNCHANGED <<merged, ordered, rawCh, dbCh>>

(* finalFlush sends "without a ctx guard". *)
FinalFlush ==
    /\ dpc = "final"
    /\ dbCh = <<>> /\ dbCh' = <<Batch>>
    /\ Clear
    /\ dpc' = "closed"
    /\ UNCHANGED <<timer, rawCh>>

Debouncer ==
    /\ TakeEvent \/ WindowEnds \/ Emit \/ EndOfInput \/ FinalFlush
    /\ UNCHANGED <<ctxDone, listenerVars, historyVars, rawClosed, held, outCh,
                   outClosed, readerVars>>

TimerFires ==
    /\ timer = "running"
    /\ timer' = "fired"
    /\ UNCHANGED <<ctxDone, listenerVars, historyVars, rawCh, rawClosed, dpc, merged,
                   ordered, dbCh, held, outCh, outClosed, readerVars>>

-----------------------------------------------------------------------------
(* instrumentBatches. *)

TakeBatch ==
    /\ held = <<>> /\ dbCh # <<>>
    /\ held' = <<Head(dbCh)>>
    /\ dbCh' = Tail(dbCh)
    /\ UNCHANGED <<outCh, outClosed>>

PassBatch ==
    /\ held # <<>> /\ outCh = <<>>
    /\ outCh' = held
    /\ held' = <<>>
    /\ UNCHANGED <<dbCh, outClosed>>

(* Slip: only the end of the input ends it. *)
CloseOut_inputOnly ==
    /\ held = <<>> /\ dpc = "closed" /\ dbCh = <<>>
    /\ outClosed' = TRUE
    /\ UNCHANGED <<held, dbCh, outCh>>

(* In either select ctx.Done() may be taken; a batch held is lost. *)
CloseOut ==
    /\ ctxDone \/ (held = <<>> /\ dpc = "closed" /\ dbCh = <<>>)
    /\ outClosed' = TRUE
    /\ held' = <<>>
    /\ UNCHANGED <<dbCh, outCh>>

Instrument ==
    /\ ~outClosed
    /\ TakeBatch \/ PassBatch \/ CloseOut
    /\ UNCHANGED <<ctxDone, listenerVars, historyVars, rawCh, rawClosed,
                   debouncerVars, readerVars>>

-----------------------------------------------------------------------------
(* The control loop: a batch is applied first thing in its cycle. *)

ReadBatch ==
    /\ rpc = "select" /\ outCh # <<>>
    /\ LET b == Head(outCh) IN
         /\ seen' = seen \o b.ordered
         /\ current' = [k \in MergeKeys |->
                          IF b.merged[k] # 0 THEN b.merged[k] ELSE current[k]]
    /\ outCh' = Tail(outCh)
    /\ rpc' = "cycle"

EndCycle == rpc = "cycle" /\ rpc' = "select" /\ UNCHANGED <<seen, current, outCh>>

Return ==
    /\ rpc = "select"
    /\ ctxDone \/ (outClosed /\ outCh = <<>>)
    /\ rpc' = "returned"
    /\ UNCHANGED <<seen, current, outCh>>

Reader ==
    /\ ReadBatch \/ EndCycle \/ Return
    /\ UNCHANGED <<ctxDone, listenerVars, historyVars, rawCh, rawClosed,
                   debouncerVars, dbCh, held, outClosed>>

Cancel ==
    /\ ~ctxDone
    /\ ctxDone' = TRUE
    /\ UNCHANGED <<listenerVars, historyVars, rawCh, rawClosed, debouncerVars,
                   dbCh, held, outCh, outClosed, readerVars>>

Next ==
    \/ \E l \in Listeners : Listener(l)
    \/ CloseRaw
    \/ Debouncer
    \/ TimerFires
    \/ Instrument
    \/ Reader
    \/ Cancel

Spec == Init /\ [][Next]_vars

(* Goroutines are scheduled, the timer fires, and a cycle of the control   *)
(* loop ends, since Execute does.  Nothing says that a source has events   *)
(* or that the context is ever cancelled.                                  *)
Fairness ==
    /\ \A l \in Listeners : WF_vars(Proceed(l))
    /\ WF_vars(CloseRaw) /\ WF_vars(Debouncer) /\ WF_vars(TimerFires)
    /\ WF_vars(Instrument) /\ WF_vars(Reader)

FairSpec == Spec /\ Fairness

-----------------------------------------------------------------------------
(* Properties. *)

(* The batches between the debouncer and the control loop. *)
OnTheWay == Range(outCh) \cup Range(held) \cup Range(dbCh)

RawEvent  == [key : Keys, n : Nat]
BatchType == [merged : [MergeKeys -> Nat], ordered : Seq(Nat)]

TypeOK ==
    /\ ctxDone \in BOOLEAN /\ rawClosed \in BOOLEAN /\ outClosed \in BOOLEAN
    /\ todo \in [Listeners -> Seq(Keys)]
    /\ polling \subseteq Apps /\ gone \subseteq Listeners
    /\ accepted \in Nat /\ sent \in Nat
    /\ clusterSent \subseteq 1 .. sent /\ last \in [MergeKeys -> 0 .. sent]
    /\ rawCh \in Seq(RawEvent) /\ Len(rawCh) <= RawCap
    /\ dpc \in {"select", "emit", "final", "closed"}
    /\ timer \in {"off", "running", "fired"}
    /\ merged \in [MergeKeys -> Nat] /\ ordered \in Seq(Nat)
    /\ dbCh \in Seq(BatchType) /\ Len(dbCh) <= 1
    /\ held \in Seq(BatchType) /\ Len(held) <= 1
    /\ outCh \in Seq(BatchType) /\ Len(outCh) <= 1
    /\ rpc \in {"select", "cycle", "returned"}
    /\ seen \in Seq(Nat) /\ current \in [MergeKeys -> Nat]

(* Cluster events reach the world state in the order the aggregator sent   *)
(* them and none twice, although batches are merged, buffered, dropped at  *)
(* a cancellation and passed on by three goroutines.                       *)
ClusterEventsInOrder ==
    \A i, j \in DOMAIN seen : i < j => seen[i] < seen[j]

(* "ClusterEvents are never merged because each represents a distinct      *)
(* state change": until the context is cancelled each has been applied or  *)
(* is in one of the places the goroutines will take it from.               *)
ClusterEventsKept ==
    Range(seen) \cup (UNION {Range(b.ordered) : b \in OnTheWay}) \cup Range(ordered)
        \cup {e.n : e \in {f \in Range(rawCh) : f.key = ClusterKey}}
NoClusterEventLost == ~ctxDone => clusterSent \subseteq ClusterEventsKept

(* Last-write-wins: merging may drop the older events of a key but never   *)
(* the newest; it has been applied or is under way.                        *)
NewestUpdateKept ==
    ~ctxDone =>
        \A k \in MergeKeys : last[k] # 0 =>
            \/ last[k] \in {current[k], merged[k]}
            \/ \E b \in OnTheWay : b.merged[k] = last[k]
            \/ [key |-> k, n |-> last[k]] \in Range(rawCh)

(* No older update overwrites a newer one, the last flush after a          *)
(* cancellation included.                                                  *)
UpdatesNeverGoBack == [][\A k \in MergeKeys : current'[k] >= current[k]]_vars

(* An event that entered the raw channel reaches the world state, or is    *)
(* replaced by a newer one that does, as long as nobody cancels: bounded   *)
(* channels and a busy control loop delay it but never block it for good.  *)
Delivered ==
    \A n \in 1 .. MaxEvents :
        /\ n \in clusterSent ~> n \in Range(seen) \/ ctxDone
        /\ \A k \in MergeKeys : last[k] = n ~> current[k] >= n \/ ctxDone

(* Start: "The caller should read from the returned channel until it is    *)
(* closed (which happens when ctx is cancelled)."                          *)
OutputCloses == ctxDone ~> outClosed

=============================================================================
