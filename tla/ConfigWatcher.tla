--------------------------- MODULE ConfigWatcher ---------------------------
(***************************************************************************)
(* internal/configstore: a watcher of the configuration file.  A goroutine *)
(* takes the notifications of the file system and, 500 ms after the last   *)
(* of a burst, a timer starts a callback that reads the file and sends one *)
(* update per application on a channel with room for 16.  Each callback    *)
(* is a goroutine of its own: Stop does not reach one that has started,    *)
(* and nothing joins them when the watcher closes the channel.             *)
(*                                                                         *)
(* The file holds version 0, 1, ... of the configuration, written in place *)
(* or by a new file in its stead; the listener of Ingestion reads the      *)
(* channel.  Notifications and the file system are external.               *)
(***************************************************************************)
EXTENDS Naturals, Sequences, FiniteSets

CONSTANTS
    Applications,   \* applications in the order of the file
    Buffer,         \* room of the channel
    EmitsInitially, \* does the watcher start with the file's content (WatchMetrics)?
    MaxWrites       \* how often the file changes, which bounds the callbacks

VARIABLES
    file,           \* version of the file
    notified,       \* its Write and Create notifications not taken yet
    watched,        \* does the kernel watch it?
    watcher,        \* "starting", "running", "returned" or "failed"
    timer,          \* the callback debounceTimer was last set for; 0: nil
    callback,       \* callback[i]: "unset", "armed", "stopped", "reading", "sending",
                    \* "done" or "panicked"
    content,        \* content[i]: the version callback i has read
    next,           \* next[i]: the application it sends next
    ch, closed,     \* the channel
    ctxDone,        \* is the context cancelled?
    applied,        \* applied[a]: the version last received of application a
    disturbed       \* did callbacks overlap, or a read fail?

sourceVars   == <<file, notified, watched>>
callbackVars == <<callback, content, next>>
readerVars   == <<ch, closed, applied>>
vars == <<sourceVars, watcher, timer, callbackVars, readerVars, ctxDone, disturbed>>

Callbacks == 1 .. MaxWrites
Named == {Applications[k] : k \in DOMAIN Applications}

ASSUME ConfigWatcherAssumption ==
    /\ Applications \in Seq(Named)
    /\ Buffer \in Nat /\ MaxWrites \in Nat /\ EmitsInitially \in BOOLEAN

Sending == {i \in Callbacks : callback[i] = "sending"}

(* Callback 0 stands for the caller of WatchMetrics, who sends the initial *)
(* content on the channel before anybody can read it.                      *)
Init ==
    /\ file = 0 /\ notified = 0 /\ watched = FALSE
    /\ watcher = "starting"
    /\ timer = 0
    /\ callback = [i \in 0 .. MaxWrites |-> IF i = 0 /\ EmitsInitially THEN "sending" ELSE "unset"]
    /\ content = [i \in 0 .. MaxWrites |-> 0]
    /\ next = [i \in 0 .. MaxWrites |-> 1]
    /\ ch = <<>> /\ closed = FALSE
    /\ ctxDone = FALSE
    /\ applied = [a \in Named |-> 0]
    /\ disturbed = FALSE

-----------------------------------------------------------------------------

(* The file is written in place. *)
Write ==
    /\ file < MaxWrites
    /\ file' = file + 1
    /\ notified' = IF watched /\ watcher = "running" THEN notified + 1 ELSE notified
    /\ UNCHANGED <<watched, watcher, timer, callbackVars, readerVars, ctxDone, disturbed>>

(* A new file is renamed to its name, as many editors save.  The watch was *)
(* on the old one and goes with it; the notifications of that are neither  *)
(* Write nor Create, which the goroutine skips.                            *)
Replace ==
    /\ file < MaxWrites
    /\ file' = file + 1
    /\ watched' = FALSE
    /\ UNCHANGED <<notified, watcher, timer, callbackVars, readerVars, ctxDone, disturbed>>

(* The initial content is on the channel: the file is watched from now on, *)
StartWatching ==
    /\ watcher = "starting" /\ callback[0] # "sending"
    /\ watcher' = "running"
    /\ watched' = TRUE
    /\ UNCHANGED <<file, notified, timer, callbackVars, readerVars, ctxDone, disturbed>>

(* ... or it cannot be: the caller gets a channel that nobody closes.      *)
WatchFails ==
    /\ watcher = "starting" /\ callback[0] # "sending"
    /\ watcher' = "failed"
    /\ UNCHANGED <<sourceVars, timer, callbackVars, readerVars, ctxDone, disturbed>>

(* Slip: while a timer is set, no other is. *)
TakeNotification_once ==
    /\ watcher = "running" /\ notified > 0
    /\ notified' = notified - 1
    /\ IF timer # 0 THEN UNCHANGED <<timer, callback>>
       ELSE /\ timer' = timer + 1
            /\ callback' = [callback EXCEPT ![timer'] = "armed"]
    /\ UNCHANGED <<file, watched, watcher, content, next, readerVars, ctxDone, disturbed>>

(* A notification stops the timer, if it has not fired yet, and sets a new *)
(* one.                                                                    *)
TakeNotification ==
    /\ watcher = "running" /\ notified > 0
    /\ notified' = notified - 1
    /\ timer' = timer + 1
    /\ callback' = [i \in 0 .. MaxWrites |->
                        IF i = timer' THEN "armed"
                        ELSE IF i = timer /\ callback[i] = "armed" THEN "stopped"
                        ELSE callback[i]]
    /\ UNCHANGED <<file, watched, watcher, content, next, readerVars, ctxDone, disturbed>>

Fire(i) ==
    /\ callback[i] = "armed"
    /\ callback' = [callback EXCEPT ![i] = "reading"]
    /\ UNCHANGED <<sourceVars, watcher, timer, content, next, readerVars, ctxDone, disturbed>>

(* Slip: what is sent was read when the notification came. *)
Read_atNotification(i) ==
    /\ callback[i] = "reading"
    /\ content' = [content EXCEPT ![i] = i]
    /\ callback' = [callback EXCEPT ![i] = "sending"]
    /\ disturbed' = (disturbed \/ Sending # {})
    /\ UNCHANGED <<sourceVars, watcher, timer, next, readerVars, ctxDone>>

Read(i) ==
    /\ callback[i] = "reading"
    /\ content' = [content EXCEPT ![i] = file]
    /\ callback' = [callback EXCEPT ![i] = "sending"]
    /\ disturbed' = (disturbed \/ Sending # {})
    /\ UNCHANGED <<sourceVars, watcher, timer, next, readerVars, ctxDone>>

(* The file cannot be read or parsed: the callback logs it and returns.    *)
ReadFails(i) ==
    /\ callback[i] = "reading"
    /\ callback' = [callback EXCEPT ![i] = "done"]
    /\ disturbed' = TRUE
    /\ UNCHANGED <<sourceVars, watcher, timer, content, next, readerVars, ctxDone>>

(* The loop over the applications: a send waits for room or for the        *)
(* cancellation; on the closed channel it panics, if it is chosen.  The    *)
(* initial sends only wait for room.                                       *)
Send(i) ==
    /\ callback[i] = "sending"
    /\ IF next[i] > Len(Applications)
       THEN /\ callback' = [callback EXCEPT ![i] = "done"]
            /\ UNCHANGED <<next, ch>>
       ELSE \/ /\ ~closed /\ Len(ch) < Buffer
               /\ ch' = Append(ch, [app |-> Applications[next[i]], version |-> content[i]])
               /\ next' = [next EXCEPT ![i] = @ + 1]
               /\ UNCHANGED callback
            \/ /\ i # 0 /\ ctxDone
               /\ callback' = [callback EXCEPT ![i] = "done"]
               /\ UNCHANGED <<next, ch>>
            \/ /\ closed
               /\ callback' = [callback EXCEPT ![i] = "panicked"]
               /\ UNCHANGED <<next, ch>>
    /\ UNCHANGED <<sourceVars, watcher, timer, content, closed, applied, ctxDone, disturbed>>

Cancel ==
    /\ ~ctxDone
    /\ ctxDone' = TRUE
    /\ UNCHANGED <<sourceVars, watcher, timer, callbackVars, readerVars, disturbed>>

(* The deferred calls close the channel; the timer is left as it is.       *)
WatcherReturns ==
    /\ watcher = "running" /\ ctxDone
    /\ watcher' = "returned"
    /\ closed' = TRUE
    /\ UNCHANGED <<sourceVars, timer, callbackVars, ch, applied, ctxDone, disturbed>>

(* The listener gets the channel once the watcher is there, and reads it   *)
(* until the cancellation.                                                 *)
Receive ==
    /\ watcher # "starting" /\ ~ctxDone
    /\ ch # <<>>
    /\ applied' = [applied EXCEPT ![Head(ch).app] = Head(ch).version]
    /\ ch' = Tail(ch)
    /\ UNCHANGED <<sourceVars, watcher, timer, callbackVars, closed, ctxDone, disturbed>>

Callback(i) == Fire(i) \/ Read(i) \/ ReadFails(i) \/ Send(i)

Next ==
    \/ Write \/ Replace
    \/ StartWatching \/ WatchFails \/ TakeNotification \/ WatcherReturns
    \/ \E i \in 0 .. MaxWrites : Callback(i)
    \/ Cancel
    \/ Receive

Spec == Init /\ [][Next]_vars

(* The timer fires some time after it was set, and every goroutine runs.   *)
FairSpec ==
    /\ Spec
    /\ WF_vars(StartWatching \/ WatchFails) /\ WF_vars(TakeNotification) /\ WF_vars(WatcherReturns)
    /\ \A i \in 0 .. MaxWrites : WF_vars(Callback(i))
    /\ WF_vars(Receive)

-----------------------------------------------------------------------------
(* Properties. *)

(* A burst of writes and timers stopped in time or too late: what is       *)
(* received last of every application is what the file says, when the file *)
(* is left alone - as long as no callback had to wait for room until the   *)
(* next one read a newer file, every read succeeded, and the file was      *)
(* written in place.  (A write before the watch is set, after the initial  *)
(* content was read, is missed, and so is a file that is replaced.)        *)
SettlesOnNewest ==
    <>[](~ctxDone /\ ~disturbed /\ timer # 0 /\ watched)
        => <>[](\A a \in Named : applied[a] = file)

(* While callbacks do not overlap, a newer version is never replaced by an *)
(* older one.                                                              *)
NeverBack == [][~disturbed' => \A a \in Named : applied'[a] >= applied[a]]_vars

=============================================================================
