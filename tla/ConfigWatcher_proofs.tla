------------------------ MODULE ConfigWatcher_proofs -------------------------
(***************************************************************************)
(* Theorems about the watcher of the configuration file, for any           *)
(* applications, any number of writes and any room of the channel.         *)
(***************************************************************************)
EXTENDS ConfigWatcher, DataLemmas

UpdateType == [app : Named, version : Nat]

TypeOK ==
    /\ file \in 0 .. MaxWrites /\ notified \in Nat
    /\ watched \in BOOLEAN
    /\ watcher \in {"starting", "running", "returned", "failed"}
    /\ timer \in Nat
    /\ callback \in [0 .. MaxWrites -> {"unset", "armed", "stopped", "reading", "sending",
                                        "done", "panicked"}]
    /\ content \in [0 .. MaxWrites -> Nat]
    /\ next \in [0 .. MaxWrites -> Nat \ {0}]
    /\ ch \in Seq(UpdateType) /\ Len(ch) <= Buffer
    /\ closed \in BOOLEAN /\ ctxDone \in BOOLEAN /\ disturbed \in BOOLEAN
    /\ applied \in [Named -> Nat]

-----------------------------------------------------------------------------
(* Types of the watcher, and a channel that never holds more than its room *)
(* (each callback is a goroutine, and the initial sends have no reader).   *)
THEOREM TypeOKHolds == Spec => []TypeOK
<1>1. Init => TypeOK
    BY ConfigWatcherAssumption DEF Init, TypeOK
<1>2. ASSUME TypeOK, [Next]_vars
      PROVE  TypeOK'
    <2> USE DEF sourceVars, callbackVars, readerVars
    <2>1. CASE Write \/ Replace
        <3>1. file \in 0 .. MaxWrites /\ notified \in Nat /\ MaxWrites \in Nat
            BY <1>2, ConfigWatcherAssumption DEF TypeOK
        <3>2. /\ file < MaxWrites /\ file' = file + 1
              /\ notified' = notified \/ notified' = notified + 1
            BY <2>1 DEF Write, Replace
        <3>3. file' \in 0 .. MaxWrites /\ notified' \in Nat
            BY <3>1, <3>2
        <3> QED BY <1>2, <2>1, <3>3 DEF Write, Replace, TypeOK
    <2>2. CASE StartWatching \/ WatchFails
        BY <1>2, <2>2 DEF StartWatching, WatchFails, TypeOK
    <2>3. CASE TakeNotification
        <3>1. notified' \in Nat /\ timer' \in Nat
            BY <1>2, <2>3 DEF TakeNotification, TypeOK
        <3>2. callback' \in [0 .. MaxWrites -> {"unset", "armed", "stopped", "reading", "sending",
                                               "done", "panicked"}]
            BY <1>2, <2>3 DEF TakeNotification, TypeOK
        <3> QED BY <1>2, <2>3, <3>1, <3>2 DEF TakeNotification, TypeOK
    <2>4. CASE WatcherReturns
        BY <1>2, <2>4 DEF WatcherReturns, TypeOK
    <2>5. CASE Cancel
        BY <1>2, <2>5 DEF Cancel, TypeOK
    <2>6. CASE Receive
        <3>1. ch \in Seq(UpdateType) /\ ch # <<>>
            BY <1>2, <2>6 DEF Receive, TypeOK
        <3>2. Head(ch) \in UpdateType /\ Tail(ch) \in Seq(UpdateType) /\ Len(Tail(ch)) <= Len(ch)
            BY <3>1, RangeOfTail
        <3>3. applied' \in [Named -> Nat]
            BY <1>2, <2>6, <3>2 DEF Receive, TypeOK, UpdateType
        <3>4. Len(ch') <= Buffer
            <4>1. ch' = Tail(ch) /\ Len(ch) \in Nat /\ Len(ch) <= Buffer
                BY <1>2, <2>6, <3>1 DEF Receive, TypeOK
            <4>2. Len(Tail(ch)) \in Nat
                BY <3>2
            <4> QED BY <3>2, <4>1, <4>2, ConfigWatcherAssumption
        <3> QED BY <1>2, <2>6, <3>2, <3>3, <3>4 DEF Receive, TypeOK
    <2>7. ASSUME NEW i \in 0 .. MaxWrites, Fire(i) \/ Read(i) \/ ReadFails(i)
          PROVE  TypeOK'
        <3>1. CASE Fire(i)
            BY <1>2, <3>1 DEF Fire, TypeOK
        <3>2. CASE Read(i)
            <4>1. /\ content \in [0 .. MaxWrites -> Nat] /\ file \in Nat /\ disturbed \in BOOLEAN
                  /\ callback \in [0 .. MaxWrites -> {"unset", "armed", "stopped", "reading",
                                                       "sending", "done", "panicked"}]
                BY <1>2 DEF TypeOK
            <4>2. content' \in [0 .. MaxWrites -> Nat]
                BY <3>2, <4>1 DEF Read
            <4>3. callback' \in [0 .. MaxWrites -> {"unset", "armed", "stopped", "reading",
                                                    "sending", "done", "panicked"}]
                BY <3>2, <4>1 DEF Read
            <4>4. disturbed' \in BOOLEAN
                BY <3>2, <4>1 DEF Read
            <4> QED BY <1>2, <3>2, <4>2, <4>3, <4>4 DEF Read, TypeOK
        <3>3. CASE ReadFails(i)
            BY <1>2, <3>3 DEF ReadFails, TypeOK
        <3> QED BY <2>7, <3>1, <3>2, <3>3
    <2>8. ASSUME NEW i \in 0 .. MaxWrites, Send(i)
          PROVE  TypeOK'
        <3>1. CASE UNCHANGED <<next, ch>>
            BY <1>2, <2>8, <3>1 DEF Send, TypeOK
        <3>2. CASE ~UNCHANGED <<next, ch>>
            <4> DEFINE u == [app |-> Applications[next[i]], version |-> content[i]]
            <4>1. /\ ~(next[i] > Len(Applications)) /\ Len(ch) < Buffer
                  /\ ch' = Append(ch, u) /\ next' = [next EXCEPT ![i] = @ + 1]
                  /\ UNCHANGED callback
                BY <2>8, <3>2 DEF Send
            <4>2. next[i] \in DOMAIN Applications
                BY <1>2, <4>1, ConfigWatcherAssumption DEF TypeOK
            <4>3. u \in UpdateType
                BY <1>2, <4>2 DEF Named, UpdateType, TypeOK
            <4>4. ch \in Seq(UpdateType)
                BY <1>2 DEF TypeOK
            <4> HIDE DEF u
            <4>5. ch' \in Seq(UpdateType) /\ Len(ch') = Len(ch) + 1
                BY <4>1, <4>3, <4>4
            <4>6. next' \in [0 .. MaxWrites -> Nat \ {0}]
                <5>1. next \in [0 .. MaxWrites -> Nat \ {0}]
                    BY <1>2 DEF TypeOK
                <5> QED BY <4>1, <5>1
            <4>7. Len(ch') <= Buffer
                BY <4>1, <4>4, <4>5, ConfigWatcherAssumption
            <4> QED BY <1>2, <2>8, <4>1, <4>5, <4>6, <4>7 DEF Send, TypeOK
        <3> QED BY <3>1, <3>2
    <2>9. CASE UNCHANGED vars
        BY <1>2, <2>9 DEF vars, TypeOK
    <2> QED BY <1>2, <2>1, <2>2, <2>3, <2>4, <2>5, <2>6, <2>7, <2>8, <2>9 DEF Next, Callback
<1> QED BY <1>1, <1>2, PTL DEF Spec

-----------------------------------------------------------------------------
(* The initial sends are over before the first notification is taken: a    *)
(* callback never reads the file while they go on.                         *)
InitialFirst ==
    /\ callback[0] \notin {"armed", "reading"}
    /\ watcher = "starting" => \A i \in Callbacks : callback[i] = "unset"
    /\ watcher # "starting" => callback[0] # "sending"

LEMMA InitialFirstInvariant == Spec => []InitialFirst
<1>1. Init => InitialFirst
    BY ConfigWatcherAssumption DEF Init, InitialFirst, Callbacks
<1>2. ASSUME TypeOK, InitialFirst, [Next]_vars
      PROVE  InitialFirst'
    <2> USE DEF sourceVars, callbackVars, readerVars, Callbacks
    <2>1. CASE TakeNotification
        <3>1. timer \in Nat /\ timer' = timer + 1 /\ watcher = "running" /\ UNCHANGED watcher
            BY <1>2, <2>1 DEF TakeNotification, TypeOK
        <3>2. 0 \in 0 .. MaxWrites /\ timer' # 0
            BY <3>1, ConfigWatcherAssumption
        <3>3. callback'[0] \in {callback[0], "stopped"}
            BY <1>2, <2>1, <3>1, <3>2 DEF TakeNotification, TypeOK
        <3> QED BY <1>2, <3>1, <3>3 DEF InitialFirst
    <2>2. ASSUME NEW i \in 0 .. MaxWrites, Callback(i)
          PROVE  InitialFirst'
        <3>1. /\ UNCHANGED watcher /\ callback[i] \in {"armed", "reading", "sending"}
              /\ \/ callback' = [callback EXCEPT ![i] = "reading"] /\ callback[i] = "armed"
                 \/ callback' = [callback EXCEPT ![i] = "sending"] /\ callback[i] = "reading"
                 \/ callback' = [callback EXCEPT ![i] = "done"]
                 \/ callback' = [callback EXCEPT ![i] = "panicked"]
                 \/ callback' = callback /\ callback[i] = "sending"
            BY <2>2 DEF Callback, Fire, Read, ReadFails, Send
        <3>2. i # 0 => watcher # "starting"
            BY <1>2, <3>1 DEF InitialFirst
        <3>3. callback \in [0 .. MaxWrites -> {"unset", "armed", "stopped", "reading", "sending",
                                              "done", "panicked"}]
            BY <1>2 DEF TypeOK
        <3>4. /\ \A j \in 0 .. MaxWrites : j # i => callback'[j] = callback[j]
              /\ callback'[i] \in {"armed", "reading"} => callback[i] = "armed"
              /\ callback'[i] = "sending" => callback[i] \in {"reading", "sending"}
            BY <3>1, <3>3
        <3>5. 0 \in 0 .. MaxWrites
            BY ConfigWatcherAssumption
        <3>6. CASE i = 0
            <4>1. callback'[0] \notin {"armed", "reading"}
                BY <1>2, <3>4, <3>6 DEF InitialFirst
            <4>2. callback'[0] = "sending" => callback[0] = "sending"
                BY <1>2, <3>4, <3>6 DEF InitialFirst
            <4>3. \A j \in 1 .. MaxWrites : j \in 0 .. MaxWrites /\ j # i
                BY <3>6
            <4> QED BY <1>2, <3>1, <3>4, <4>1, <4>2, <4>3 DEF InitialFirst
        <3>7. CASE i # 0
            BY <1>2, <3>1, <3>2, <3>4, <3>5, <3>7 DEF InitialFirst
        <3> QED BY <3>6, <3>7
    <2>3. CASE Write \/ Replace \/ StartWatching \/ WatchFails \/ WatcherReturns \/ Cancel
                 \/ Receive \/ UNCHANGED vars
        BY <1>2, <2>3 DEF Write, Replace, StartWatching, WatchFails, WatcherReturns, Cancel,
                          Receive, vars, InitialFirst
    <2> QED BY <1>2, <2>1, <2>2, <2>3 DEF Next
<1> QED BY <1>1, <1>2, TypeOKHolds, PTL DEF Spec

(* While callbacks do not overlap one of them sends, versions get newer on *)
(* their way from the file through it and the channel to what is applied.  *)
InOrder ==
    ~disturbed =>
        /\ \A i, j \in 0 .. MaxWrites : callback[i] = "sending" /\ callback[j] = "sending" => i = j
        /\ \A k, l \in DOMAIN ch : k <= l => ch[k].version <= ch[l].version
        /\ \A k \in DOMAIN ch : ch[k].version <= file
        /\ \A a \in Named : applied[a] <= file
        /\ \A a \in Named, k \in DOMAIN ch : applied[a] <= ch[k].version
        /\ \A i \in 0 .. MaxWrites : callback[i] = "sending" =>
              /\ content[i] <= file
              /\ \A k \in DOMAIN ch : ch[k].version <= content[i]
              /\ \A a \in Named : applied[a] <= content[i]

LEMMA ReceiveInOrder ==
    ASSUME TypeOK, InOrder, Receive
    PROVE  InOrder' /\ (~disturbed' => \A a \in Named : applied'[a] >= applied[a])
<1> DEFINE e == Head(ch)
           t == Tail(ch)
<1>1. /\ applied' = [applied EXCEPT ![e.app] = e.version] /\ ch' = t /\ ch # <<>>
      /\ UNCHANGED <<file, content, callback, disturbed>>
    BY DEF Receive, sourceVars, callbackVars
<1>2. ch \in Seq(UpdateType) /\ applied \in [Named -> Nat]
    BY DEF TypeOK
<1>3. /\ Len(ch) \in Nat /\ Len(ch) > 0 /\ DOMAIN ch = 1 .. Len(ch)
      /\ DOMAIN t = 1 .. Len(ch) - 1 /\ e = ch[1]
      /\ \A k \in 1 .. Len(ch) - 1 : t[k] = ch[k + 1]
    BY <1>1, <1>2
<1>4. e \in UpdateType
    BY <1>1, <1>2, RangeOfTail
<1> HIDE DEF e, t
<1>5. e.app \in Named /\ e.version \in Nat
    BY <1>4 DEF UpdateType
<1>6. \A a \in Named : applied'[a] = IF a = e.app THEN e.version ELSE applied[a]
    BY <1>1, <1>2
<1>7. \A k \in DOMAIN t : k + 1 \in DOMAIN ch /\ t[k] = ch[k + 1] /\ k \in Nat
    BY <1>3
<1>8. 1 \in DOMAIN ch
    BY <1>3
<1>9. ASSUME ~disturbed
      PROVE  \A a \in Named : applied'[a] >= applied[a]
    BY <1>2, <1>3, <1>5, <1>6, <1>8, <1>9 DEF InOrder
<1>10. ASSUME ~disturbed
       PROVE  /\ \A k, l \in DOMAIN t : k <= l => t[k].version <= t[l].version
              /\ \A k \in DOMAIN t : e.version <= t[k].version
    <2>1. ASSUME NEW k \in DOMAIN t, NEW l \in DOMAIN t, k <= l
          PROVE  t[k].version <= t[l].version
        <3>1. k + 1 <= l + 1
            BY <1>7, <2>1
        <3> QED BY <1>7, <1>10, <3>1 DEF InOrder
    <2>2. ASSUME NEW k \in DOMAIN t
          PROVE  e.version <= t[k].version
        <3>1. 1 <= k + 1
            BY <1>7
        <3> QED BY <1>3, <1>7, <1>8, <1>10, <3>1 DEF InOrder
    <2> QED BY <2>1, <2>2
<1>11. ASSUME ~disturbed'
       PROVE  /\ \A i, j \in 0 .. MaxWrites :
                    callback'[i] = "sending" /\ callback'[j] = "sending" => i = j
              /\ \A k, l \in DOMAIN ch' : k <= l => ch'[k].version <= ch'[l].version
              /\ \A k \in DOMAIN ch' : ch'[k].version <= file'
              /\ \A a \in Named : applied'[a] <= file'
              /\ \A a \in Named, k \in DOMAIN ch' : applied'[a] <= ch'[k].version
              /\ \A i \in 0 .. MaxWrites : callback'[i] = "sending" =>
                    /\ content'[i] <= file'
                    /\ \A k \in DOMAIN ch' : ch'[k].version <= content'[i]
                    /\ \A a \in Named : applied'[a] <= content'[i]
    <2>1. ~disturbed
        BY <1>1, <1>11
    <2>2. \A i, j \in 0 .. MaxWrites : callback'[i] = "sending" /\ callback'[j] = "sending" => i = j
        BY <1>1, <2>1 DEF InOrder
    <2>3. \A k \in DOMAIN ch' : ch'[k].version <= file'
        BY <1>1, <1>7, <2>1 DEF InOrder
    <2>4. \A a \in Named : applied'[a] <= file'
        BY <1>1, <1>3, <1>6, <1>8, <2>1 DEF InOrder
    <2>5. \A a \in Named, k \in DOMAIN ch' : applied'[a] <= ch'[k].version
        BY <1>1, <1>6, <1>7, <1>10, <2>1 DEF InOrder
    <2>6. ASSUME NEW i \in 0 .. MaxWrites, callback'[i] = "sending"
          PROVE  /\ content'[i] <= file'
                 /\ \A k \in DOMAIN ch' : ch'[k].version <= content'[i]
                 /\ \A a \in Named : applied'[a] <= content'[i]
        BY <1>1, <1>3, <1>6, <1>7, <1>8, <2>1, <2>6 DEF InOrder
    <2> QED BY <1>1, <1>10, <2>1, <2>2, <2>3, <2>4, <2>5, <2>6
<1> QED BY <1>1, <1>9, <1>11 DEF InOrder

LEMMA SendInOrder ==
    ASSUME TypeOK, InOrder, NEW i \in 0 .. MaxWrites, Send(i)
    PROVE  InOrder'
<1>1. /\ UNCHANGED <<file, content, applied, disturbed>> /\ callback[i] = "sending"
      /\ \/ ch' = ch /\ \E st \in {"done", "panicked"} : callback' = [callback EXCEPT ![i] = st]
         \/ /\ ch' = Append(ch, [app |-> Applications[next[i]], version |-> content[i]])
            /\ UNCHANGED callback
    BY DEF Send, sourceVars
<1>2. CASE ch' = ch
    <2>1. \A j \in 0 .. MaxWrites : callback'[j] = "sending" => callback[j] = "sending"
        BY <1>1 DEF TypeOK
    <2> QED BY <1>1, <1>2, <2>1 DEF InOrder
<1>3. CASE /\ ch' = Append(ch, [app |-> Applications[next[i]], version |-> content[i]])
           /\ UNCHANGED callback
    <2> DEFINE u == [app |-> Applications[next[i]], version |-> content[i]]
    <2>1. ch \in Seq(UpdateType) /\ u.version = content[i] /\ content[i] \in Nat
        BY DEF TypeOK
    <2>2. ch' = Append(ch, u)
        BY <1>3
    <2> HIDE DEF u
    <2>3. /\ Len(ch) \in Nat /\ DOMAIN ch = 1 .. Len(ch) /\ DOMAIN ch' = 1 .. Len(ch) + 1
          /\ \A k \in 1 .. Len(ch) : ch'[k] = ch[k]
          /\ ch'[Len(ch) + 1] = u
        BY <2>1, <2>2
    <2>4. \A k \in DOMAIN ch' : (k \in DOMAIN ch /\ ch'[k] = ch[k]) \/ (k = Len(ch) + 1 /\ ch'[k] = u)
        BY <2>3
    <2>5. ASSUME ~disturbed, NEW k \in DOMAIN ch'
          PROVE  ch'[k].version <= content[i]
        BY <1>1, <2>1, <2>4, <2>5 DEF InOrder
    <2>6. ASSUME ~disturbed, NEW k \in DOMAIN ch', NEW l \in DOMAIN ch', k <= l
          PROVE  ch'[k].version <= ch'[l].version
        <3>1. CASE l \in DOMAIN ch
            BY <2>3, <2>6, <3>1 DEF InOrder
        <3>2. CASE l = Len(ch) + 1
            BY <2>1, <2>3, <2>5, <2>6, <3>2
        <3> QED BY <2>4, <3>1, <3>2
    <2>7. ASSUME ~disturbed, NEW a \in Named, NEW k \in DOMAIN ch'
          PROVE  applied[a] <= ch'[k].version
        BY <1>1, <2>1, <2>4, <2>7 DEF InOrder
    <2>8. ASSUME ~disturbed, NEW j \in 0 .. MaxWrites, callback[j] = "sending"
          PROVE  j = i
        BY <1>1, <2>8 DEF InOrder
    <2>9. ASSUME ~disturbed
          PROVE  content[i] <= file /\ \A a \in Named : applied[a] <= content[i]
        BY <1>1, <2>9 DEF InOrder
    <2>10. ASSUME ~disturbed, NEW k \in DOMAIN ch'
           PROVE  ch'[k].version <= file
        BY <1>1, <2>1, <2>4, <2>9, <2>10 DEF InOrder
    <2> QED BY <1>1, <1>3, <2>5, <2>6, <2>7, <2>8, <2>9, <2>10 DEF InOrder
<1> QED BY <1>1, <1>2, <1>3

LEMMA StepInOrder ==
    ASSUME TypeOK, InitialFirst, InOrder, [Next]_vars
    PROVE  InOrder' /\ (~disturbed' => \A a \in Named : applied'[a] >= applied[a])
<1> USE ConfigWatcherAssumption DEF sourceVars, callbackVars, readerVars
<1>0. ASSUME applied' = applied
      PROVE  \A a \in Named : applied'[a] >= applied[a]
    BY <1>0 DEF TypeOK
<1>1. CASE Write \/ Replace
    <2>1. /\ file \in Nat /\ file' = file + 1
          /\ UNCHANGED <<callback, content, ch, applied, disturbed>>
        BY <1>1 DEF Write, Replace, TypeOK
    <2>2. /\ \A k \in DOMAIN ch : ch[k].version \in Nat
          /\ \A a \in Named : applied[a] \in Nat
          /\ \A i \in 0 .. MaxWrites : content[i] \in Nat
        <3>1. ch \in Seq(UpdateType)
            BY DEF TypeOK
        <3>2. \A k \in DOMAIN ch : ch[k] \in UpdateType
            BY <3>1
        <3> QED BY <3>2 DEF TypeOK, UpdateType
    <2>3. \A v \in Nat : v <= file => v <= file'
        BY <2>1
    <2> QED BY <1>0, <2>1, <2>2, <2>3 DEF InOrder
<1>2. CASE TakeNotification
    <2>1. \A j \in 0 .. MaxWrites : callback'[j] = "sending" => callback[j] = "sending"
        BY <1>2 DEF TakeNotification, TypeOK
    <2>2. UNCHANGED <<file, content, applied, ch, disturbed>>
        BY <1>2 DEF TakeNotification
    <2> QED BY <1>0, <2>1, <2>2 DEF InOrder
<1>3. CASE StartWatching \/ WatchFails \/ WatcherReturns \/ Cancel \/ UNCHANGED vars
    BY <1>0, <1>3 DEF StartWatching, WatchFails, WatcherReturns, Cancel, vars, InOrder
<1>4. ASSUME NEW i \in 0 .. MaxWrites, Fire(i) \/ ReadFails(i)
      PROVE  InOrder' /\ applied' = applied
    <2>1. \A j \in 0 .. MaxWrites : callback'[j] = "sending" => callback[j] = "sending"
        BY <1>4 DEF Fire, ReadFails, TypeOK
    <2>2. UNCHANGED <<file, content, applied, ch>> /\ (~disturbed' => ~disturbed)
        BY <1>4 DEF Fire, ReadFails
    <2> QED BY <2>1, <2>2 DEF InOrder
<1>5. ASSUME NEW i \in 0 .. MaxWrites, Read(i)
      PROVE  InOrder' /\ applied' = applied
    <2>1. /\ UNCHANGED <<file, applied, ch>> /\ content' = [content EXCEPT ![i] = file]
          /\ callback' = [callback EXCEPT ![i] = "sending"] /\ callback[i] = "reading"
          /\ ~disturbed' => ~disturbed /\ Sending = {}
        BY <1>5 DEF Read
    <2>2. callback[0] # "sending"
        BY <2>1 DEF InitialFirst, Callbacks
    <2>3. ASSUME ~disturbed', NEW j \in 0 .. MaxWrites, callback'[j] = "sending"
          PROVE  j = i
        <3>1. ~(\E k \in Callbacks : callback[k] = "sending")
            BY <2>1, <2>3 DEF Sending
        <3>2. callback[j] # "sending"
            BY <2>2, <3>1 DEF Callbacks
        <3> QED BY <2>1, <2>3, <3>2 DEF TypeOK
    <2>4. content'[i] = file
        BY <2>1 DEF TypeOK
    <2>5. file <= file
        BY DEF TypeOK
    <2> QED BY <2>1, <2>3, <2>4, <2>5 DEF InOrder
<1>6. ASSUME NEW i \in 0 .. MaxWrites, Send(i)
      PROVE  InOrder' /\ applied' = applied
    BY <1>6, SendInOrder DEF Send
<1>7. CASE Receive
    BY <1>7, ReceiveInOrder
<1> QED BY <1>0, <1>1, <1>2, <1>3, <1>4, <1>5, <1>6, <1>7 DEF Next, Callback

(* While callbacks do not overlap no older version of an application's     *)
(* configuration replaces a newer one, for any writes, however late the    *)
(* timers are stopped and however full the channel is.                     *)
THEOREM NeverBackHolds == Spec => NeverBack
<1> DEFINE Forward == ~disturbed' => \A a \in Named : applied'[a] >= applied[a]
<1>1. Init => InOrder
    BY ConfigWatcherAssumption DEF Init, InOrder
<1>2. TypeOK /\ InitialFirst /\ InOrder /\ [Next]_vars => InOrder' /\ Forward
    BY StepInOrder
<1>3. Spec => [](TypeOK /\ InitialFirst /\ InOrder)
    BY <1>1, <1>2, TypeOKHolds, InitialFirstInvariant, PTL DEF Spec
<1>4. TypeOK /\ InitialFirst /\ InOrder /\ [Next]_vars => [Forward]_vars
    BY <1>2
<1>5. Spec => [][Forward]_vars
    BY <1>3, <1>4, PTL DEF Spec
<1> QED BY <1>5 DEF NeverBack

-----------------------------------------------------------------------------
(* When nothing is left to do. *)

BeforeSends == {"unset", "armed", "stopped", "reading"}

(* Timers are numbered as they are set, each for a notification of its own *)
(* write; the channel is closed and the watcher returns only after the     *)
(* cancellation.                                                           *)
Watched ==
    /\ timer + notified <= file
    /\ watcher \in {"starting", "failed"} => timer = 0
    /\ watcher = "returned" => ctxDone
    /\ closed => ctxDone
    /\ \A i \in 0 .. MaxWrites : callback[i] \in BeforeSends => next[i] = 1
    /\ \A i \in 0 .. MaxWrites : i > timer => callback[i] = "unset"

LEMMA WatchedInvariant == Spec => []Watched
<1>1. Init => Watched
    BY ConfigWatcherAssumption DEF Init, Watched
<1>2. ASSUME TypeOK, Watched, [Next]_vars
      PROVE  Watched'
    <2> USE DEF sourceVars, callbackVars, readerVars
    <2>0. timer \in Nat /\ notified \in Nat /\ file \in 0 .. MaxWrites
        BY <1>2 DEF TypeOK
    <2>1. CASE Write \/ Replace
        <3>1. /\ timer' = timer /\ file' = file + 1
              /\ notified' = notified \/ notified' = notified + 1
            BY <2>1 DEF Write, Replace
        <3>2. file \in Nat /\ timer + notified <= file
            BY <1>2, <2>0, ConfigWatcherAssumption DEF Watched
        <3>3. timer' + notified' <= file'
            BY <2>0, <3>1, <3>2
        <3> QED BY <1>2, <2>1, <3>3 DEF Write, Replace, Watched
    <2>2. CASE TakeNotification
        <3>1. /\ timer' = timer + 1 /\ notified' = notified - 1 /\ notified > 0
              /\ watcher = "running"
              /\ UNCHANGED <<file, watcher, closed, ctxDone, next>>
              /\ callback' = [i \in 0 .. MaxWrites |->
                               IF i = timer' THEN "armed"
                               ELSE IF i = timer /\ callback[i] = "armed" THEN "stopped"
                               ELSE callback[i]]
            BY <2>2 DEF TakeNotification
        <3>2. timer' + notified' <= file'
            BY <1>2, <2>0, <3>1 DEF Watched
        <3>3. ASSUME NEW i \in 0 .. MaxWrites, callback'[i] \in BeforeSends
              PROVE  next'[i] = 1
            <4>1. callback[i] \in BeforeSends
                BY <1>2, <2>0, <3>1, <3>3 DEF Watched, BeforeSends
            <4> QED BY <1>2, <3>1, <4>1 DEF Watched
        <3>4. ASSUME NEW i \in 0 .. MaxWrites, i > timer'
              PROVE  callback'[i] = "unset"
            <4>1. i > timer /\ i # timer /\ i # timer'
                BY <2>0, <3>1, <3>4
            <4> QED BY <1>2, <3>1, <4>1 DEF Watched
        <3> QED BY <1>2, <3>1, <3>2, <3>3, <3>4 DEF Watched
    <2>3. ASSUME NEW i \in 0 .. MaxWrites, Callback(i)
          PROVE  Watched'
        <3>1. /\ UNCHANGED <<file, notified, timer, watcher, closed, ctxDone>>
              /\ callback[i] # "unset"
              /\ \E st \in {"reading", "sending", "done", "panicked"} :
                    callback' = [callback EXCEPT ![i] = st] \/ callback' = callback
              /\ \A j \in 0 .. MaxWrites : j # i => next'[j] = next[j]
              /\ callback'[i] \in BeforeSends => callback[i] \in BeforeSends /\ next'[i] = next[i]
            <4>0. /\ callback \in [0 .. MaxWrites -> {"unset", "armed", "stopped", "reading",
                                                      "sending", "done", "panicked"}]
                  /\ next \in [0 .. MaxWrites -> Nat \ {0}]
                BY <1>2 DEF TypeOK
            <4>1. CASE Fire(i)
                BY <4>0, <4>1 DEF Fire, BeforeSends
            <4>2. CASE Read(i)
                BY <4>0, <4>2 DEF Read, BeforeSends
            <4>3. CASE ReadFails(i)
                BY <4>0, <4>3 DEF ReadFails, BeforeSends
            <4>4. CASE Send(i)
                BY <4>0, <4>4 DEF Send, BeforeSends
            <4> QED BY <2>3, <4>1, <4>2, <4>3, <4>4 DEF Callback
        <3>2. callback \in [0 .. MaxWrites -> {"unset", "armed", "stopped", "reading",
                                              "sending", "done", "panicked"}]
            BY <1>2 DEF TypeOK
        <3>3. \A j \in 0 .. MaxWrites : j # i => callback'[j] = callback[j]
            BY <3>1, <3>2
        <3>4. ~(i > timer)
            BY <1>2, <3>1 DEF Watched
        <3>5. \A j \in 0 .. MaxWrites : callback'[j] \in BeforeSends => next'[j] = 1
            BY <1>2, <3>1, <3>3 DEF Watched
        <3>6. \A j \in 0 .. MaxWrites : j > timer' => callback'[j] = "unset"
            BY <1>2, <3>1, <3>3, <3>4 DEF Watched
        <3> QED BY <1>2, <3>1, <3>5, <3>6 DEF Watched
    <2>4. CASE StartWatching \/ WatchFails \/ WatcherReturns \/ Cancel \/ Receive \/ UNCHANGED vars
        BY <1>2, <2>4 DEF StartWatching, WatchFails, WatcherReturns, Cancel, Receive, vars, Watched
    <2> QED BY <1>2, <2>1, <2>2, <2>3, <2>4 DEF Next
<1> QED BY <1>1, <1>2, TypeOKHolds, PTL DEF Spec

(* What the file says of a has been applied, or is in the channel.         *)
Delivered(a) ==
    \/ applied[a] = file
    \/ \E k \in DOMAIN ch : ch[k].app = a /\ ch[k].version = file

LEMMA DeliveredKept ==
    ASSUME TypeOK, ~disturbed, InOrder, file' = file,
           Receive \/ (UNCHANGED <<applied, ch>>) \/ (\E i \in 0 .. MaxWrites : Send(i)),
           NEW a \in Named, Delivered(a)
    PROVE  Delivered(a)'
<1>1. CASE UNCHANGED <<applied, ch>>
    BY <1>1 DEF Delivered
<1>2. ASSUME NEW u \in UpdateType, ch' = Append(ch, u), applied' = applied
      PROVE  Delivered(a)'
    <2>1. ch \in Seq(UpdateType)
        BY DEF TypeOK
    <2>2. \A k \in DOMAIN ch : k \in DOMAIN ch' /\ ch'[k] = ch[k]
        BY <1>2, <2>1
    <2> QED BY <1>2, <2>2 DEF Delivered
<1>3. ASSUME NEW i \in 0 .. MaxWrites, Send(i)
      PROVE  Delivered(a)'
    <2>1. applied' = applied
        BY <1>3 DEF Send
    <2>2. \/ ch' = ch
          \/ /\ ~(next[i] > Len(Applications))
             /\ ch' = Append(ch, [app |-> Applications[next[i]], version |-> content[i]])
        BY <1>3 DEF Send
    <2>3. CASE /\ ~(next[i] > Len(Applications))
               /\ ch' = Append(ch, [app |-> Applications[next[i]], version |-> content[i]])
        <3>1. next[i] \in Nat \ {0} /\ content[i] \in Nat
            BY DEF TypeOK
        <3>2. next[i] \in DOMAIN Applications
            BY <2>3, <3>1, ConfigWatcherAssumption
        <3>3. [app |-> Applications[next[i]], version |-> content[i]] \in UpdateType
            BY <3>1, <3>2 DEF Named, UpdateType
        <3> QED BY <1>2, <2>1, <2>3, <3>3
    <2> QED BY <1>1, <2>1, <2>2, <2>3
<1>4. CASE Receive
    <2> DEFINE e == Head(ch)
               t == Tail(ch)
    <2>1. /\ applied' = [applied EXCEPT ![e.app] = e.version] /\ ch' = t /\ ch # <<>>
        BY <1>4 DEF Receive
    <2>2. ch \in Seq(UpdateType) /\ applied \in [Named -> Nat]
        BY DEF TypeOK
    <2>3. /\ Len(ch) \in Nat /\ Len(ch) > 0 /\ DOMAIN ch = 1 .. Len(ch)
          /\ DOMAIN t = 1 .. Len(ch) - 1 /\ e = ch[1]
          /\ \A k \in 1 .. Len(ch) - 1 : t[k] = ch[k + 1]
        BY <2>1, <2>2
    <2>4. e \in UpdateType
        BY <2>1, <2>2, RangeOfTail
    <2> HIDE DEF e, t
    <2>5. e.app \in Named /\ e.version \in Nat
        BY <2>4 DEF UpdateType
    <2>6. applied'[a] = IF a = e.app THEN e.version ELSE applied[a]
        BY <2>1, <2>2
    <2>7. 1 \in DOMAIN ch /\ e.version <= file /\ applied[a] <= e.version /\ file \in Nat
        BY <2>3 DEF InOrder, TypeOK
    <2>8. CASE applied[a] = file
        <3>1. applied'[a] = file
            BY <2>5, <2>6, <2>7, <2>8
        <3> QED BY <3>1 DEF Delivered
    <2>9. ASSUME NEW k \in DOMAIN ch, ch[k].app = a, ch[k].version = file
          PROVE  Delivered(a)'
        <3>1. CASE k = 1
            BY <2>3, <2>6, <2>9, <3>1 DEF Delivered
        <3>2. CASE k # 1
            <4>1. k - 1 \in DOMAIN t /\ t[k - 1] = ch[k]
                BY <2>3, <3>2
            <4> QED BY <2>1, <2>9, <4>1 DEF Delivered
        <3> QED BY <3>1, <3>2
    <2> QED BY <2>8, <2>9 DEF Delivered
<1> QED BY <1>1, <1>3, <1>4

(* As long as no callback overlapped another, every read succeeded and     *)
(* nothing is cancelled, the callback of the last timer brings what the    *)
(* file says, unless a notification is still to be taken.                  *)
NewestOnItsWay ==
    ~disturbed /\ ~ctxDone /\ timer # 0 /\ watched /\ notified = 0 =>
        \/ callback[timer] \in {"armed", "reading"}
        \/ /\ callback[timer] = "sending" /\ content[timer] = file
           /\ \A k \in DOMAIN Applications : k < next[timer] => Delivered(Applications[k])
        \/ /\ callback[timer] = "done"
           /\ \A k \in DOMAIN Applications : Delivered(Applications[k])

LEMMA NewestOnItsWayStep ==
    ASSUME TypeOK, Watched, InOrder, NewestOnItsWay, [Next]_vars
    PROVE  NewestOnItsWay'
<1> USE DEF sourceVars, callbackVars, readerVars
<1>0. /\ callback \in [0 .. MaxWrites -> {"unset", "armed", "stopped", "reading",
                                          "sending", "done", "panicked"}]
      /\ next \in [0 .. MaxWrites -> Nat \ {0}] /\ content \in [0 .. MaxWrites -> Nat]
      /\ timer \in 0 .. MaxWrites /\ notified \in Nat /\ file \in Nat /\ MaxWrites \in Nat
    <2>1. /\ timer \in Nat /\ notified \in Nat /\ file \in Nat /\ MaxWrites \in Nat
          /\ file <= MaxWrites /\ timer + notified <= file
        BY ConfigWatcherAssumption DEF TypeOK, Watched
    <2>2. timer \in 0 .. MaxWrites
        BY <2>1
    <2> QED BY <2>1, <2>2 DEF TypeOK
<1>1. \A k \in DOMAIN Applications : Applications[k] \in Named
    BY DEF Named
<1>2. CASE Write \/ Replace
    <2>1. /\ UNCHANGED <<timer, ctxDone, disturbed>>
          /\ watched' /\ watcher = "running" => notified' = notified + 1
        BY <1>2 DEF Write, Replace
    <2>2. watcher # "running" => timer = 0 \/ ctxDone
        BY DEF TypeOK, Watched
    <2>3. notified + 1 # 0
        BY <1>0
    <2> QED BY <2>1, <2>2, <2>3 DEF NewestOnItsWay
<1>3. CASE TakeNotification
    <2>1. /\ timer' = timer + 1 /\ notified > 0 /\ timer + notified <= file
          /\ callback' = [i \in 0 .. MaxWrites |->
                           IF i = timer' THEN "armed"
                           ELSE IF i = timer /\ callback[i] = "armed" THEN "stopped"
                           ELSE callback[i]]
        BY <1>3 DEF TakeNotification, Watched
    <2>2. timer' \in 0 .. MaxWrites
        <3>1. file <= MaxWrites
            BY ConfigWatcherAssumption DEF TypeOK
        <3> QED BY <1>0, <2>1, <3>1
    <2> QED BY <2>1, <2>2 DEF NewestOnItsWay
<1>4. CASE WatcherReturns \/ Cancel
    <2>1. ctxDone'
        BY <1>4 DEF WatcherReturns, Cancel
    <2> QED BY <2>1 DEF NewestOnItsWay
<1>5. CASE StartWatching \/ WatchFails
    <2>1. timer = 0 /\ timer' = timer
        BY <1>5 DEF StartWatching, WatchFails, Watched
    <2> QED BY <2>1 DEF NewestOnItsWay
<1>11. CASE UNCHANGED vars
    BY <1>11 DEF vars, NewestOnItsWay, Delivered
<1>6. ASSUME NEW i \in 0 .. MaxWrites, Fire(i)
      PROVE  NewestOnItsWay'
    <2>1. /\ callback[i] = "armed" /\ callback' = [callback EXCEPT ![i] = "reading"]
          /\ UNCHANGED <<file, notified, watched, timer, content, next, ch, applied, ctxDone, disturbed>>
        BY <1>6 DEF Fire
    <2>2. CASE i = timer
        BY <1>0, <2>1, <2>2 DEF NewestOnItsWay
    <2>3. CASE i # timer
        <3>1. callback'[timer] = callback[timer]
            BY <1>0, <2>1, <2>3
        <3> QED BY <2>1, <3>1 DEF NewestOnItsWay, Delivered
    <2> QED BY <2>2, <2>3
<1>7. ASSUME NEW i \in 0 .. MaxWrites, Read(i)
      PROVE  NewestOnItsWay'
    <2>1. /\ callback[i] = "reading" /\ callback' = [callback EXCEPT ![i] = "sending"]
          /\ content' = [content EXCEPT ![i] = file]
          /\ UNCHANGED <<file, notified, watched, timer, next, ch, applied, ctxDone>>
          /\ ~disturbed' => ~disturbed
        BY <1>7 DEF Read
    <2>2. CASE i = timer
        <3>1. next'[timer] = 1
            BY <2>1, <2>2 DEF Watched, BeforeSends
        <3>2. \A k \in DOMAIN Applications : ~(k < 1)
            BY ConfigWatcherAssumption
        <3>3. callback'[timer] = "sending" /\ content'[timer] = file'
            BY <1>0, <2>1, <2>2
        <3> QED BY <2>1, <3>1, <3>2, <3>3 DEF NewestOnItsWay
    <2>3. CASE i # timer
        <3>1. callback'[timer] = callback[timer] /\ content'[timer] = content[timer]
            BY <1>0, <2>1, <2>3
        <3> QED BY <2>1, <3>1 DEF NewestOnItsWay, Delivered
    <2> QED BY <2>2, <2>3
<1>8. ASSUME NEW i \in 0 .. MaxWrites, ReadFails(i)
      PROVE  NewestOnItsWay'
    BY <1>8 DEF ReadFails, NewestOnItsWay
<1>9. ASSUME NEW i \in 0 .. MaxWrites, Send(i)
      PROVE  NewestOnItsWay'
    <2>1. /\ UNCHANGED <<file, notified, watched, timer, content, ctxDone, disturbed>>
          /\ callback[i] = "sending"
        BY <1>9 DEF Send
    <2> SUFFICES ASSUME ~disturbed, ~ctxDone, timer # 0, watched, notified = 0
                 PROVE  NewestOnItsWay'
        BY <2>1 DEF NewestOnItsWay
    <2>2. ~closed
        BY DEF Watched
    <2>3. \A k \in DOMAIN Applications : Delivered(Applications[k]) => Delivered(Applications[k])'
        BY <1>1, <1>9, <2>1, DeliveredKept
    <2>4. CASE i # timer
        <3>1. callback'[timer] = callback[timer] /\ next'[timer] = next[timer]
            BY <1>0, <1>9, <2>4 DEF Send
        <3> QED BY <2>1, <2>3, <3>1 DEF NewestOnItsWay
    <2>5. CASE i = timer
        <3>1. /\ content[timer] = file
              /\ \A k \in DOMAIN Applications : k < next[timer] => Delivered(Applications[k])
            BY <2>1, <2>5 DEF NewestOnItsWay
        <3>2. CASE next[timer] > Len(Applications)
            <4>1. callback'[timer] = "done"
                BY <1>0, <1>9, <2>5, <3>2 DEF Send
            <4>2. \A k \in DOMAIN Applications : k < next[timer]
                BY <1>0, <3>2, ConfigWatcherAssumption
            <4> QED BY <2>3, <3>1, <4>1, <4>2, <2>1 DEF NewestOnItsWay
        <3>3. CASE ~(next[timer] > Len(Applications))
            <4>0. PICK n : n = next[timer]
                OBVIOUS
            <4> DEFINE u == [app |-> Applications[n], version |-> content[timer]]
            <4>1. /\ callback' = callback /\ next' = [next EXCEPT ![timer] = @ + 1]
                  /\ ch' = Append(ch, u) /\ applied' = applied
                BY <1>9, <2>2, <2>5, <3>3, <4>0 DEF Send
            <4>2. n \in DOMAIN Applications /\ n \in Nat /\ next'[timer] = n + 1
                <5>1. n \in Nat \ {0} /\ next'[timer] = n + 1
                    BY <1>0, <4>0, <4>1
                <5>2. DOMAIN Applications = 1 .. Len(Applications) /\ Len(Applications) \in Nat
                    BY ConfigWatcherAssumption
                <5> QED BY <3>3, <4>0, <5>1, <5>2
            <4>3. u \in UpdateType /\ ch \in Seq(UpdateType)
                  /\ u.app = Applications[n] /\ u.version = file
                BY <1>0, <1>1, <3>1, <4>2 DEF UpdateType, TypeOK
            <4> HIDE DEF u
            <4>4. Len(ch) + 1 \in DOMAIN ch' /\ ch'[Len(ch) + 1] = u
                BY <4>1, <4>3
            <4>5. Delivered(Applications[n])'
                BY <2>1, <4>3, <4>4 DEF Delivered
            <4>6. \A k \in DOMAIN Applications : k < n + 1 => k < n \/ k = n
                BY <4>2, ConfigWatcherAssumption
            <4>7. \A k \in DOMAIN Applications : k < next'[timer] => Delivered(Applications[k])'
                BY <2>3, <3>1, <4>0, <4>2, <4>5, <4>6
            <4> QED BY <2>1, <2>5, <3>1, <4>1, <4>7 DEF NewestOnItsWay
        <3> QED BY <3>2, <3>3
    <2> QED BY <2>4, <2>5
<1>10. CASE Receive
    <2>1. UNCHANGED <<file, notified, watched, timer, callback, content, next, ctxDone, disturbed>>
        BY <1>10 DEF Receive
    <2>2. ~disturbed => \A k \in DOMAIN Applications :
                           Delivered(Applications[k]) => Delivered(Applications[k])'
        BY <1>1, <1>10, <2>1, DeliveredKept
    <2> QED BY <2>1, <2>2 DEF NewestOnItsWay
<1> QED BY <1>2, <1>3, <1>4, <1>5, <1>6, <1>7, <1>8, <1>9, <1>10, <1>11 DEF Next, Callback

(* The safety half of SettlesOnNewest: whenever no notification and no     *)
(* timer or callback is left and the channel is empty, what was received   *)
(* last of every application is what the file says, for any burst of       *)
(* writes in place, any applications and however small the channel.        *)
QuietIsNewest ==
    /\ ~disturbed /\ ~ctxDone /\ timer # 0 /\ watched
    /\ notified = 0 /\ ch = <<>>
    /\ \A i \in 0 .. MaxWrites : callback[i] \notin {"armed", "reading", "sending"}
    => \A a \in Named : applied[a] = file

THEOREM QuietIsNewestHolds == Spec => []QuietIsNewest
<1>1. Init => InOrder /\ NewestOnItsWay
    BY ConfigWatcherAssumption DEF Init, InOrder, NewestOnItsWay
<1>2. TypeOK /\ InitialFirst /\ InOrder /\ [Next]_vars => InOrder'
    BY StepInOrder
<1>3. TypeOK /\ Watched /\ InOrder /\ NewestOnItsWay /\ [Next]_vars => NewestOnItsWay'
    BY NewestOnItsWayStep
<1>4. ASSUME TypeOK, Watched, NewestOnItsWay
      PROVE  QuietIsNewest
    <2> SUFFICES ASSUME ~disturbed, ~ctxDone, timer # 0, watched, notified = 0, ch = <<>>,
                        \A i \in 0 .. MaxWrites : callback[i] \notin {"armed", "reading", "sending"},
                        NEW k \in DOMAIN Applications
                 PROVE  applied[Applications[k]] = file
        BY DEF QuietIsNewest, Named
    <2>1. timer \in 0 .. MaxWrites
        BY <1>4, ConfigWatcherAssumption DEF TypeOK, Watched
    <2>2. Delivered(Applications[k])
        BY <1>4, <2>1 DEF NewestOnItsWay
    <2>3. DOMAIN ch = {}
        OBVIOUS
    <2> QED BY <2>2, <2>3 DEF Delivered
<1> QED BY <1>1, <1>2, <1>3, <1>4, TypeOKHolds, InitialFirstInvariant, WatchedInvariant, PTL DEF Spec

=============================================================================
