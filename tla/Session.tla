------------------------------- MODULE Session -------------------------------
(***************************************************************************)
(* A Session of the library (session.rs) with its watch loop (watch.rs):   *)
(* the warm state behind a read-write lock, the single initial evaluation, *)
(* and the jobs that callers start on the session - stream, watch and      *)
(* diff_once - which run concurrently and share that state. One evaluation *)
(* (run.rs) visits the paths in some order and records what it finds; the  *)
(* inputs may change under it. That the evaluation itself reports          *)
(* everything, and when it returns, is Coordinator.tla's subject: it does  *)
(* unless it is cancelled and has more than one worker.                    *)
(*                                                                         *)
(* An operator named X_Y is X with a mistake in it, kept to show that the  *)
(* properties notice.                                                      *)
(*                                                                         *)
(* stream_bounded and watch_bounded give the caller a channel of limited   *)
(* capacity, whose sender waits while more than that is unread. Results of *)
(* the unbounded calls are not counted.                                    *)
(*                                                                         *)
(* A scenario says what the caller and the environment may do. Its faults: *)
(*   "fail"       an evaluation returns an error                           *)
(*   "cancel"     cancel() is called, or the Session is dropped            *)
(*   "close"      the receiver of a stream is dropped                      *)
(*   "unwatched"  the file watcher cannot be set up                        *)
(*   "misnotify"  the file watcher delivers an error                       *)
(*   "noruntime"  stream or watch is called outside a Tokio runtime        *)
(***************************************************************************)
EXTENDS WarmGraph, Integers, Sequences, FiniteSets

CONSTANTS
  Job,         \* the calls of stream, watch and diff_once
  Kind,        \* Kind[j]: "stream", "watch" or "diff"
  Content,     \* Content[v]: the derivations in version v of the inputs
  MaxVersion,  \* bound: versions of the inputs there can be
  Scenarios    \* the scenarios: records of
               \*   calls: the jobs that may be called
               \*   buffer: the capacity each asks for, or Unbounded
               \*   faults: what may go wrong
               \*   changes: bound: the inputs change that many times
               \*   readers: bound: queries that hold the read lock at one time
               \*   workers: how many each evaluation has

Unbounded == -1

FaultNames == {"fail", "cancel", "close", "unwatched", "misnotify", "noruntime"}

ASSUME SessionAssumption ==
  /\ Kind \in [Job -> {"stream", "watch", "diff"}]
  /\ MaxVersion \in Nat
  /\ Content \in [0..MaxVersion -> Graph]
  /\ Scenarios \subseteq
       [calls : SUBSET Job, buffer : [Job -> Nat \cup {Unbounded}],
        faults : SUBSET FaultNames, changes : 0..MaxVersion, readers : Nat,
        workers : Nat \ {0}]
  /\ \A sc \in Scenarios : \A j \in Job :
       Kind[j] = "diff" => sc.buffer[j] = Unbounded

VARIABLES
  scenario, \* the scenario, which does not change
  version,  \* the version of the inputs on disk
  graph, completed, error,
            \* WarmState, whose error is only Some (TRUE) or None
  initial,  \* InitialEvaluation: "Idle", "Running" or "Finished"
  cancel,   \* the cancel flag
  readers,  \* queries that hold the read lock
  pc,       \* pc[j]: where j is; "unused" before the call, "done" at the end
  first,    \* first[j]: it runs the session's initial evaluation
  todo, seen,
            \* its evaluation's paths to visit, and its accumulator
  previous, \* the graph its evaluation will be compared with
  woken,    \* completed was notified since it created its notified()
  queue,    \* its file watcher's channel
  since,    \* the version at which that watcher was registered, or -1
  view,     \* what a client has that applies the diffs it receives
  open,     \* the receiver of its stream exists
  unread,   \* results in the channel of its bounded stream
  next      \* where it goes on once its sender need not wait

warmVars    == <<graph, completed, error>>
sessionVars == <<version, warmVars, initial, cancel, readers>>
evalVars    == <<first, todo, seen, previous>>
watchVars   == <<queue, since, view>>
sendVars    == <<open, unread, next>>
jobVars     == <<pc, evalVars, woken, watchVars, sendVars>>
vars        == <<scenario, sessionVars, jobVars>>

Fault(f) == f \in scenario.faults

Init ==
  /\ scenario \in Scenarios
  /\ version = 0
  /\ graph = EmptyGraph /\ completed = FALSE /\ error = FALSE
  /\ initial = "Idle"
  /\ cancel = FALSE
  /\ readers = 0
  /\ pc = [j \in Job |-> "unused"] /\ next = [j \in Job |-> "unused"]
  /\ first = [j \in Job |-> FALSE] /\ woken = [j \in Job |-> FALSE]
  /\ todo = [j \in Job |-> {}] /\ seen = [j \in Job |-> EmptyGraph]
  /\ previous = [j \in Job |-> EmptyGraph]
  /\ queue = [j \in Job |-> << >>] /\ since = [j \in Job |-> -1]
  /\ view = [j \in Job |-> EmptyGraph]
  /\ open = [j \in Job |-> TRUE] /\ unread = [j \in Job |-> 0]

At(j, place) == pc[j] = place

Goto(j, place) == pc' = [pc EXCEPT ![j] = place]

(* run::evaluate and evaluate_async: a fresh accumulator, everything yet   *)
(* to visit.                                                               *)
Evaluating(j) ==
  /\ Goto(j, "eval")
  /\ todo' = [todo EXCEPT ![j] = Path]
  /\ seen' = [seen EXCEPT ![j] = EmptyGraph]

(* The warm graph is cloned.                                               *)
Previous(j) == previous' = [previous EXCEPT ![j] = graph]

Notified_Sleepers == woken' = [j \in Job |-> woken[j] \/ At(j, "asleep")]

(* completed.notify_waiters(): wakes whoever has created its notified().   *)
Notified ==
  woken' = [j \in Job |-> woken[j] \/ pc[j] \in {"read", "await", "asleep"}]

-----------------------------------------------------------------------------
(* The channel of a stream or a watch.                                     *)

Bounded(j) == scenario.buffer[j] # Unbounded

(* bounded_capacity: a capacity of zero is one.                            *)
Capacity(j) == IF scenario.buffer[j] = 0 THEN 1 ELSE scenario.buffer[j]

(* A result is put into the channel of j without waiting: try_send, or     *)
(* unbounded_send.                                                         *)
TrySent(j) ==
  unread' = IF Bounded(j) /\ open[j] THEN [unread EXCEPT ![j] = @ + 1] ELSE unread

Sent_Unflushed(j, place) == TrySent(j) /\ Goto(j, place) /\ UNCHANGED <<open, next>>

(* send(..).await, or unbounded_send, before going on at place. Each       *)
(* sender has a slot of its own, so that the result is accepted at once;   *)
(* then the sender waits as long as there is more in the channel than it   *)
(* holds.                                                                  *)
Sent(j, place) ==
  /\ TrySent(j)
  /\ IF Bounded(j) /\ open[j]
       THEN Goto(j, "flush") /\ next' = [next EXCEPT ![j] = place]
       ELSE Goto(j, place) /\ UNCHANGED next
  /\ UNCHANGED open

(* The wait ends when the receiver has made room, or is dropped.           *)
Flush(j) ==
  /\ At(j, "flush")
  /\ unread[j] <= Capacity(j) \/ ~open[j]
  /\ Goto(j, next[j])
  /\ UNCHANGED <<sessionVars, evalVars, woken, watchVars, sendVars>>

(* The receiver takes a result.                                            *)
Receive(j) ==
  /\ open[j] /\ unread[j] > 0
  /\ unread' = [unread EXCEPT ![j] = @ - 1]
  /\ UNCHANGED <<sessionVars, pc, evalVars, woken, watchVars, open, next>>

-----------------------------------------------------------------------------
(* The calls.                                                              *)

Claims_Twice == initial # "Finished"

(* start_initial_evaluation returns true.                                  *)
Claims == initial = "Idle"

Claim == initial' = IF Claims THEN "Running" ELSE initial

(* The caller that claims it runs the initial evaluation.                  *)
EvaluateFirst(j) ==
  /\ Claims
  /\ first' = [first EXCEPT ![j] = TRUE]
  /\ Evaluating(j)
  /\ UNCHANGED <<previous, sendVars>>

(* What is sent to a caller that gets no more than that.                   *)
Refused(j) == TrySent(j) /\ Goto(j, "done") /\ UNCHANGED <<evalVars, open, next>>

(* stream, stream_bounded: SessionStreamConsumed unless it is the first.   *)
Stream(j) ==
  /\ At(j, "unused") /\ Kind[j] = "stream"
  /\ Claim
  /\ \/ EvaluateFirst(j)
     \/ ~Claims /\ Refused(j)
  /\ UNCHANGED <<version, warmVars, cancel, readers, woken, watchVars>>

(* watch, watch_bounded: run the initial evaluation, or wait for it.       *)
Watch(j) ==
  /\ At(j, "unused") /\ Kind[j] = "watch"
  /\ Claim
  /\ \/ EvaluateFirst(j)
     \/ ~Claims /\ Goto(j, "check") /\ UNCHANGED <<evalVars, sendVars>>
  /\ UNCHANGED <<version, warmVars, cancel, readers, woken, watchVars>>

(* diff_once, up to its first await after the read lock is released.       *)
DiffOnce(j) ==
  /\ At(j, "unused") /\ Kind[j] = "diff"
  /\ IF completed
       THEN Evaluating(j) /\ Previous(j) /\ UNCHANGED first
       ELSE Goto(j, "done") /\ UNCHANGED evalVars
  /\ UNCHANGED <<sessionVars, woken, watchVars, sendVars>>

(* spawn_session_task finds no runtime: the error is recorded if the lock  *)
(* happens to be free (try_write), and the initial evaluation is called    *)
(* finished, whoever started it.                                           *)
CallWithoutRuntime(j) ==
  /\ Fault("noruntime")
  /\ At(j, "unused") /\ Kind[j] \in {"stream", "watch"}
  /\ IF Kind[j] = "stream" /\ ~Claims
       THEN UNCHANGED <<error, initial, woken>>
       ELSE /\ error' = (error \/ readers = 0)
            /\ initial' = "Finished"
            /\ Notified
  /\ Refused(j)
  /\ UNCHANGED <<version, graph, completed, cancel, readers, watchVars>>

(* query_snapshot holds the read lock while it filters and clones.         *)
QueryBegin ==
  /\ readers < scenario.readers
  /\ readers' = readers + 1
  /\ UNCHANGED <<version, warmVars, initial, cancel, jobVars>>

QueryEnd ==
  /\ readers > 0
  /\ readers' = readers - 1
  /\ UNCHANGED <<version, warmVars, initial, cancel, jobVars>>

(* cancel(), also called when the Session is dropped.                      *)
Cancel ==
  /\ Fault("cancel")
  /\ ~cancel
  /\ cancel' = TRUE
  /\ Notified
  /\ UNCHANGED <<version, warmVars, initial, readers, pc, evalVars, watchVars, sendVars>>

Close(j) ==
  /\ Fault("close")
  /\ Kind[j] # "diff" /\ open[j]
  /\ open' = [open EXCEPT ![j] = FALSE]
  /\ unread' = [unread EXCEPT ![j] = 0]
  /\ UNCHANGED <<sessionVars, pc, evalVars, woken, watchVars, next>>

-----------------------------------------------------------------------------
(* One evaluation.                                                         *)

(* on_event, before the evaluation goes on: that of a stream sends every   *)
(* event, and fails once nobody can receive it; the other callers' accepts *)
(* everything.                                                             *)
Reported(j) ==
  IF Kind[j] = "stream"
    THEN IF open[j] THEN Sent(j, "eval") ELSE Goto(j, "fail") /\ UNCHANGED sendVars
    ELSE UNCHANGED <<pc, sendVars>>

(* What the evaluation has recorded after it has visited p, in the inputs  *)
(* as they are now.                                                        *)
Found(j, p) ==
  IF p \in DOMAIN Content[version]
    THEN Recorded(seen[j], p, Content[version][p])
    ELSE seen[j]

(* One path is evaluated.                                                  *)
Visit(j) ==
  /\ At(j, "eval")
  /\ \E p \in todo[j] :
       /\ todo' = [todo EXCEPT ![j] = @ \ {p}]
       /\ seen' = [seen EXCEPT ![j] = Found(j, p)]
  /\ Reported(j)
  /\ UNCHANGED <<sessionVars, first, previous, woken, watchVars>>

EvalReturns_Early(j) == Cardinality(todo[j]) <= 1 \/ cancel

(* async_master::run can return Ok: everything has been visited, or the    *)
(* coordinator sees that the session was cancelled.                        *)
EvalReturns(j) == todo[j] = {} \/ cancel

(* A worker that sees it first drops the item it was handed, and ends.     *)
ItemsDropped(j) == At(j, "eval") /\ cancel /\ todo[j] # {}

EvalOk_Finished(j) ==
  /\ At(j, "eval")
  /\ EvalReturns(j)
  /\ initial' = IF first[j] THEN "Finished" ELSE initial
  /\ Goto(j, "store")
  /\ UNCHANGED <<version, warmVars, cancel, readers>>
  /\ UNCHANGED <<evalVars, woken, watchVars, sendVars>>

EvalOk(j) ==
  /\ At(j, "eval")
  /\ EvalReturns(j)
  /\ Goto(j, "store")
  /\ UNCHANGED <<sessionVars, evalVars, woken, watchVars, sendVars>>

(* run returns an error: a failure, or every worker has ended.             *)
EvalErr(j) ==
  /\ At(j, "eval")
  /\ Fault("fail") \/ ItemsDropped(j)
  /\ Goto(j, "fail")
  /\ UNCHANGED <<sessionVars, evalVars, woken, watchVars, sendVars>>

(* The only items under way have been dropped while another worker waits   *)
(* for work: the coordinator waits for a result, and run never returns.    *)
EvalHangs(j) ==
  /\ ItemsDropped(j)
  /\ scenario.workers > 1
  /\ Goto(j, "lost")
  /\ UNCHANGED <<sessionVars, evalVars, woken, watchVars, sendVars>>

-----------------------------------------------------------------------------
(* What each job does with the outcome. A write waits for the readers.     *)

AfterStore(j) ==
  IF first[j] THEN "finish"
  ELSE IF Kind[j] = "watch" THEN "send"
  ELSE "done"

(* The warm state is replaced; evaluate_initial also notifies.             *)
Store(j) ==
  /\ At(j, "store")
  /\ readers = 0
  /\ graph' = seen[j] /\ completed' = TRUE /\ error' = FALSE
  /\ Goto(j, AfterStore(j))
  /\ IF first[j] THEN Notified ELSE UNCHANGED woken
  /\ UNCHANGED <<version, initial, cancel, readers, evalVars, watchVars, sendVars>>

(* finish_initial_evaluation.                                              *)
Finish(j) ==
  /\ At(j, "finish")
  /\ initial' = "Finished"
  /\ first' = [first EXCEPT ![j] = FALSE]
  /\ Goto(j, IF Kind[j] = "watch" THEN "check" ELSE "done")
  /\ UNCHANGED <<version, warmVars, cancel, readers>>
  /\ UNCHANGED <<todo, seen, previous, woken, watchVars, sendVars>>

(* evaluate_initial records the error and notifies. The error of a watch   *)
(* loop only goes into its stream, that of diff_once to the caller.        *)
Failed(j) ==
  /\ At(j, "fail")
  /\ IF first[j]
       THEN /\ readers = 0
            /\ error' = TRUE
            /\ Notified
            /\ Goto(j, "record")
            /\ UNCHANGED sendVars
       ELSE UNCHANGED <<error, woken>> /\ Sent(j, "done")
  /\ UNCHANGED <<version, graph, completed, initial, cancel, readers, evalVars, watchVars>>

(* record_initial_error does so once more, then finishes; the error goes   *)
(* into the stream.                                                        *)
RecordError(j) ==
  /\ At(j, "record")
  /\ readers = 0
  /\ error' = TRUE
  /\ initial' = "Finished"
  /\ Notified
  /\ first' = [first EXCEPT ![j] = FALSE]
  /\ Sent(j, "done")
  /\ UNCHANGED <<version, graph, completed, cancel, readers>>
  /\ UNCHANGED <<todo, seen, previous, watchVars>>

-----------------------------------------------------------------------------
(* wait_for_initial_evaluation.                                            *)

(* The cancel flag is read.                                                *)
WaitCheck(j) ==
  /\ At(j, "check")
  /\ IF cancel THEN Sent(j, "done") ELSE Goto(j, "notified") /\ UNCHANGED sendVars
  /\ UNCHANGED <<sessionVars, evalVars, woken, watchVars>>

(* completed.notified() is created: from here on a notification counts.    *)
WaitNotified(j) ==
  /\ At(j, "notified")
  /\ Goto(j, "read")
  /\ woken' = [woken EXCEPT ![j] = FALSE]
  /\ UNCHANGED <<sessionVars, evalVars, watchVars, sendVars>>

WaitRead(j) ==
  /\ At(j, "read")
  /\ \/ completed /\ Goto(j, "register") /\ UNCHANGED sendVars
     \/ ~completed /\ error /\ Sent(j, "done")
     \/ ~completed /\ ~error /\ Goto(j, "await") /\ UNCHANGED sendVars
  /\ UNCHANGED <<sessionVars, evalVars, woken, watchVars>>

(* notified.await.                                                         *)
WaitAwait(j) ==
  /\ At(j, "await")
  /\ Goto(j, "asleep")
  /\ UNCHANGED <<sessionVars, evalVars, woken, watchVars, sendVars>>

WaitWake(j) ==
  /\ At(j, "asleep")
  /\ woken[j]
  /\ Goto(j, "check")
  /\ UNCHANGED <<sessionVars, evalVars, woken, watchVars, sendVars>>

-----------------------------------------------------------------------------
(* watch_loop_with_sender.                                                 *)

(* The watcher is created and told the paths.                              *)
Register(j) ==
  /\ At(j, "register")
  /\ \/ /\ Goto(j, "loop")
        /\ since' = [since EXCEPT ![j] = version]
        /\ view' = [view EXCEPT ![j] = graph]
        /\ UNCHANGED sendVars
     \/ Fault("unwatched") /\ Sent(j, "done") /\ UNCHANGED <<since, view>>
  /\ UNCHANGED <<sessionVars, evalVars, woken, queue>>

LoopCheck_Never(j) ==
  /\ At(j, "loop")
  /\ Goto(j, "recv")
  /\ UNCHANGED <<sessionVars, evalVars, woken, watchVars, sendVars>>

(* The loop's condition.                                                   *)
LoopCheck(j) ==
  /\ At(j, "loop")
  /\ Goto(j, IF cancel THEN "done" ELSE "recv")
  /\ UNCHANGED <<sessionVars, evalVars, woken, watchVars, sendVars>>

(* Something is sent in the loop; a dropped receiver ends it.              *)
SentInLoop(j) == open[j] /\ Sent(j, "loop")

LoopEnds(j) == ~open[j] /\ Goto(j, "done") /\ UNCHANGED sendVars

(* recv returns a change, or an error that is passed on.                   *)
LoopReceives(j) ==
  /\ At(j, "recv")
  /\ queue[j] # << >>
  /\ queue' = [queue EXCEPT ![j] = Tail(@)]
  /\ IF Head(queue[j]) = "change"
       THEN Goto(j, "debounce") /\ UNCHANGED sendVars
       ELSE SentInLoop(j) \/ LoopEnds(j)
  /\ UNCHANGED <<sessionVars, evalVars, woken, since, view>>

(* 200 ms have passed with nothing received.                               *)
LoopTimesOut(j) ==
  /\ At(j, "recv")
  /\ queue[j] = << >>
  /\ Goto(j, "loop")
  /\ UNCHANGED <<sessionVars, evalVars, woken, watchVars, sendVars>>

(* debounce_watch_events drops what has arrived within 100 ms.             *)
Debounce(j) ==
  /\ At(j, "debounce")
  /\ Goto(j, "previous")
  /\ queue' = [queue EXCEPT ![j] = << >>]
  /\ UNCHANGED <<sessionVars, evalVars, woken, since, view, sendVars>>

(* The previous graph is cloned, and a fresh evaluation begins.            *)
ReadPrevious(j) ==
  /\ At(j, "previous")
  /\ Evaluating(j)
  /\ Previous(j)
  /\ UNCHANGED <<sessionVars, first, woken, watchVars, sendVars>>

Applied(j) ==
  view' = [view EXCEPT ![j] = Apply(@, DiffGraphs(previous[j], seen[j]))]

Send_Drains(j) ==
  /\ At(j, "send")
  /\ \/ SentInLoop(j) /\ Applied(j) /\ queue' = [queue EXCEPT ![j] = << >>]
     \/ LoopEnds(j) /\ UNCHANGED <<view, queue>>
  /\ UNCHANGED <<sessionVars, evalVars, woken, since>>

(* The diff is sent, and a client applies it.                              *)
Send(j) ==
  /\ At(j, "send")
  /\ \/ SentInLoop(j) /\ Applied(j)
     \/ LoopEnds(j) /\ UNCHANGED view
  /\ UNCHANGED <<sessionVars, evalVars, woken, queue, since>>

-----------------------------------------------------------------------------
(* The environment. A change reaches every registered watcher.             *)

Watching(j) == since[j] >= 0 /\ ~At(j, "done")

Queued(item) ==
  queue' = [j \in Job |-> IF Watching(j) THEN Append(queue[j], item) ELSE queue[j]]

Change ==
  /\ version < scenario.changes
  /\ version' = version + 1
  /\ Queued("change")
  /\ UNCHANGED <<warmVars, initial, cancel, readers, pc, evalVars, woken, since, view>>
  /\ UNCHANGED sendVars

(* At most one error at a time in a watcher's channel is enough.           *)
Misnotify ==
  /\ Fault("misnotify")
  /\ \A j \in Job : \A k \in 1..Len(queue[j]) : queue[j][k] # "error"
  /\ Queued("error")
  /\ UNCHANGED <<sessionVars, pc, evalVars, woken, since, view, sendVars>>

-----------------------------------------------------------------------------
Call(j) == Stream(j) \/ Watch(j) \/ DiffOnce(j) \/ CallWithoutRuntime(j)

(* What a spawned task, or the future of diff_once, does by itself.        *)
Run(j) ==
  \/ Visit(j) \/ EvalOk(j)
  \/ Flush(j)
  \/ Finish(j)
  \/ WaitCheck(j) \/ WaitNotified(j) \/ WaitRead(j)
  \/ WaitAwait(j) \/ WaitWake(j)
  \/ Register(j)
  \/ LoopCheck(j) \/ LoopReceives(j) \/ LoopTimesOut(j)
  \/ Debounce(j) \/ ReadPrevious(j) \/ Send(j)

Write(j) == Store(j) \/ Failed(j) \/ RecordError(j)

Next ==
  /\ \/ \E j \in scenario.calls :
          \/ Call(j) \/ Run(j) \/ Write(j)
          \/ EvalErr(j) \/ EvalHangs(j)
          \/ Receive(j) \/ Close(j)
     \/ QueryBegin \/ QueryEnd
     \/ Cancel
     \/ Change \/ Misnotify
  /\ UNCHANGED scenario

Spec == Init /\ [][Next]_vars

(* The executor polls every task that can go on; an evaluation goes on,    *)
(* and returns unless it hangs; the lock is fair, so a writer's turn comes *)
(* though readers come and go. Nothing has to be called, changed,          *)
(* cancelled or closed, and no evaluation has to fail.                     *)
UnreadSpec ==
  /\ Spec
  /\ \A j \in Job : /\ WF_vars(Run(j) /\ UNCHANGED scenario)
                    /\ SF_vars(Write(j) /\ UNCHANGED scenario)
  /\ WF_vars(QueryEnd /\ UNCHANGED scenario)

(* In addition, whoever keeps the receiver of a bounded stream reads on.   *)
FairSpec ==
  UnreadSpec /\ \A j \in Job : WF_vars(Receive(j) /\ UNCHANGED scenario)

-----------------------------------------------------------------------------
(* Properties.                                                             *)

(* Where a job of each kind can be.                                        *)
Places(kind) ==
  {"unused", "done", "eval", "store", "fail", "lost"} \cup
    CASE kind = "stream" -> {"flush", "finish", "record"}
      [] kind = "watch"  -> {"flush", "finish", "record", "check", "notified",
                             "read", "await", "asleep", "register", "loop",
                             "recv", "debounce", "previous", "send"}
      [] kind = "diff"   -> {}

Steps == Places("stream") \cup Places("watch") \cup Places("diff")

STypeOK ==
  /\ scenario \in Scenarios
  /\ version \in 0..scenario.changes
  /\ graph \in Graph /\ completed \in BOOLEAN /\ error \in BOOLEAN
  /\ initial \in {"Idle", "Running", "Finished"}
  /\ cancel \in BOOLEAN
  /\ readers \in 0..scenario.readers
  /\ pc \in [Job -> Steps] /\ next \in [Job -> Steps]
  /\ \A j \in Job : pc[j] \in Places(Kind[j]) /\ next[j] \in Places(Kind[j])
  /\ first \in [Job -> BOOLEAN] /\ woken \in [Job -> BOOLEAN]
  /\ todo \in [Job -> SUBSET Path] /\ seen \in [Job -> Graph]
  /\ previous \in [Job -> Graph] /\ view \in [Job -> Graph]
  /\ queue \in [Job -> Seq({"change", "error"})]
  /\ since \in [Job -> -1..version]
  /\ open \in [Job -> BOOLEAN] /\ unread \in [Job -> Nat]

(* There is one initial evaluation per session, however many streams and   *)
(* watches are started at once, and "Running" is said exactly while a job  *)
(* is at it. (A call without a runtime may say "Finished" too early.)      *)
OneInitial ==
  /\ \A i, j \in Job : first[i] /\ first[j] => i = j
  /\ initial = "Running" => \E j \in Job : first[j]
  /\ (\E j \in Job : first[j]) =>
       initial = "Running" \/ Fault("noruntime")

(* Once the initial evaluation is called finished, whoever asks is told    *)
(* how it went: require_completed never again says "still evaluating".     *)
OutcomeKnown == initial = "Finished" => completed \/ error

Watches == {j \in Job : Kind[j] = "watch"}

(* j waits for ever for an evaluation that was cancelled and has not       *)
(* returned: its own, or the initial one.                                  *)
Abandoned(j) ==
  \/ At(j, "lost")
  \/ At(j, "asleep") /\ \E i \in Job : first[i] /\ At(i, "lost")

(* Whoever waits for the initial evaluation is woken: no notification is   *)
(* lost between reading the state and going to sleep.                      *)
WaitersWake ==
  \A j \in Watches : At(j, "asleep") ~> ~At(j, "asleep") \/ Abandoned(j)

(* A completed session's graph is a whole one: every derivation that was   *)
(* there all the time is in it, unless the session was cancelled; and      *)
(* everything in it was there once.                                        *)
FoundOnce ==
  completed =>
    \A p \in DOMAIN graph :
      \E v \in 0..version :
        p \in DOMAIN Content[v] /\ Content[v][p] = graph[p]

NothingMissing ==
  completed =>
    \A p \in Path :
      (\A v \in 0..version : p \in DOMAIN Content[v]) => p \in DOMAIN graph

SnapshotWhole == FoundOnce /\ (NothingMissing \/ cancel)

(* The calls that replace a completed graph.                               *)
Replacers == {j \in scenario.calls : Kind[j] # "stream"}

OneReplacer == \A i, j \in Replacers : i = j

(* A diff is the difference from the warm graph that it replaces: nobody   *)
(* has stored another one since the previous graph was read.               *)
AgainstReplaced ==
  \A j \in Job :
    At(j, "store") /\ ~first[j] => previous[j] = graph

DiffAgainstReplaced == OneReplacer => AgainstReplaced

(* A client that starts from the warm graph at registration and applies    *)
(* every diff it is sent has the warm graph, unless a second call replaces *)
(* it.                                                                     *)
ViewIsWarm ==
  OneReplacer =>
    \A j \in Job : pc[j] \in {"loop", "recv"} => view[j] = graph

(* After the inputs have changed under a registered watcher the warm graph *)
(* catches up with them, although changes that come in close succession    *)
(* are dropped from the channel and others arrive during an evaluation, or *)
(* while the receiver of a bounded watch lets it wait.                     *)
WatchConverges ==
  \A j \in Watches :
    Watching(j) /\ version > since[j] /\ OneReplacer ~>
      At(j, "done") \/ graph = Content[version] \/ Abandoned(j)

(* A bounded stream holds back the evaluation: never more than its         *)
(* capacity is unread, and one result whose sender is waiting.             *)
Backpressure ==
  \A j \in Job :
    Bounded(j) =>
      /\ unread[j] <= Capacity(j) + 1
      /\ unread[j] > Capacity(j) => pc[j] \in {"flush", "done"}

(* README.md says less: "These variants keep at most `capacity` pending    *)
(* results".                                                               *)
AtMostCapacity == \A j \in Job : Bounded(j) => unread[j] <= Capacity(j)

(* cancel ends every stream, watch and diff of the session, also one that  *)
(* is waiting for the initial evaluation or for the receiver of a bounded  *)
(* stream, as long as that one reads on. With one worker there is no       *)
(* exception; with more there is one, an evaluation that hangs.            *)
CancelEnds ==
  \A j \in Job :
    cancel /\ ~At(j, "unused") ~>
      At(j, "done") \/ (scenario.workers > 1 /\ Abandoned(j))

(* Without that exception.                                                 *)
CancelAlwaysEnds == \A j \in Job : cancel /\ ~At(j, "unused") ~> At(j, "done")
=============================================================================
