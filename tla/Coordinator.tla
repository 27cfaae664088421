----------------------------- MODULE Coordinator -----------------------------
(***************************************************************************)
(* async_master.rs as the tasks it runs: the coordinator (run, coordinate, *)
(* dispatch_available, shutdown_workers) and one worker_task per worker,   *)
(* joined by a work channel of capacity 1 per worker and one result        *)
(* channel of capacity N. Every await is a place where the other tasks may *)
(* run, so every await ends a step here. It implements Scheduler.tla.      *)
(*                                                                         *)
(* An operator named X_Y is X with a mistake in it, kept to show that the  *)
(* properties notice.                                                      *)
(*                                                                         *)
(* Faults is the set of things the environment may do to the run:          *)
(*   "connect" a worker process or remote cannot be started                *)
(*   "work"    a worker dies or breaks the protocol while evaluating       *)
(*   "sink"    on_event returns an error                                   *)
(*   "cancel"  the session's cancel flag is set                            *)
(*   "drop"    the future of run is dropped (its task is aborted)          *)
(***************************************************************************)
EXTENDS Evaluation

CONSTANTS
  NoItem,       \* no work item
  StopCommand,  \* WorkerCommand::Stop; a Work command is its item
  Faults

ASSUME FaultsAssumption ==
  Faults \subseteq {"connect", "work", "sink", "cancel", "drop"}

VARIABLES
  todo, active, error,  \* struct Scheduler
  cpc,        \* where the coordinator is
  idle,       \* coordinate: the queue of idle worker ids
  offers,     \* dispatch_available: iterations of its loop still to do
  handing,    \* dispatch_available: the item being sent, with its worker
  got,        \* coordinate: the worker result being handled
  outbox,     \* coordinate: the path whose event is at on_event
  result,     \* how coordinate returned, "running" until it has
  closing,    \* shutdown_workers: the worker its loop is at
  returned,   \* what run returned: "none", "ok" or "err"
  work,       \* work[w]: the work channel of w
  results,    \* the result channel
  tpc,        \* tpc[w]: where the task of worker w is; "ok", "err" or
              \* "panicked" at its end
  item,       \* item[w]: the item it has received
  good,       \* good[w]: that item's event is Ok
  spent,      \* spent[w]: its process's stderr_task has been awaited already
  cancel,     \* the cancel flag
  delivered   \* delivered[p]: events for p that on_event accepted

schedulerVars == <<todo, active, error>>
dispatchVars  == <<idle, offers, handing>>
eventVars     == <<got, outbox, delivered>>
runVars       == <<result, closing, returned>>
channelVars   == <<work, results>>
taskVars      == <<tpc, item, good, spent>>
masterVars    == <<schedulerVars, cpc, dispatchVars, eventVars, runVars>>
cvars         == <<masterVars, taskVars, channelVars, cancel>>

-----------------------------------------------------------------------------
(* Where an item is. One that is lost stays where it was last seen: in the *)
(* channel of a task that has ended, or with a task that gave up on it.    *)

(* The items for w in a sequence of records.                               *)
For(w, s) == {s[k].item : k \in {k \in 1..Len(s) : s[k].worker = w}}

(* The items among commands.                                               *)
Commanded(s) == {s[k] : k \in {k \in 1..Len(s) : s[k] # StopCommand}}

Places(w) ==
  For(w, handing) \cup Commanded(work[w]) \cup ({item[w]} \ {NoItem})
  \cup For(w, results) \cup For(w, got)

AnyOf(items) == IF items = {} THEN NoItem ELSE CHOOSE x \in items : TRUE

Held == [w \in Worker |-> AnyOf(Places(w))]

Emitted == [p \in Tree |-> delivered[p] + IF outbox = <<p>> THEN 1 ELSE 0]

Verdict == CASE result \in {"running", "complete", "failed"} -> result
             [] OTHER -> "stopped"

S == INSTANCE Scheduler WITH
       held <- Held, emitted <- Emitted, verdict <- Verdict

ASSUME CommandAssumption ==
  /\ NoItem \notin S!Item
  /\ StopCommand \notin S!Item /\ StopCommand # NoItem

Ended(w) == tpc[w] \in {"ok", "err", "panicked"}

(* The future of run no longer exists: senders and receiver are dropped.   *)
Dropped == cpc = "dropped"

-----------------------------------------------------------------------------
CInit ==
  /\ todo = <<S!NewItem(Root)>>
  /\ active = 0
  /\ error = "none"
  /\ cpc = "top"
  /\ idle = [k \in 1..N |-> k - 1]
  /\ offers = 0
  /\ handing = << >>
  /\ got = << >>
  /\ outbox = << >>
  /\ result = "running"
  /\ closing = 0
  /\ returned = "none"
  /\ work = [w \in Worker |-> << >>]
  /\ results = << >>
  /\ tpc = [w \in Worker |-> "connecting"]
  /\ item = [w \in Worker |-> NoItem]
  /\ good = [w \in Worker |-> FALSE]
  /\ spent = [w \in Worker |-> FALSE]
  /\ cancel = FALSE
  /\ delivered = [p \in Tree |-> 0]

-----------------------------------------------------------------------------
(* The coordinator.                                                        *)

Fault(f) == f \in Faults

Return(how) ==
  /\ result' = how
  /\ cpc' = "shutdown"

(* dispatch_available offers work once to every worker that is idle now.   *)
Rounds == Len(idle)

(* The top of coordinate's loop: the cancel flag, then dispatch_available. *)
Top ==
  /\ cpc = "top"
  /\ IF cancel
       THEN Return("cancelled") /\ UNCHANGED offers
       ELSE cpc' = "dispatch" /\ offers' = Rounds /\ UNCHANGED result
  /\ UNCHANGED <<schedulerVars, idle, handing, eventVars, closing, returned,
                  taskVars, channelVars, cancel>>

Offering(w) ==
  /\ cpc = "dispatch"
  /\ offers > 0
  /\ w = Head(idle)
  /\ offers' = offers - 1

(* next_for(w) = Dispatch(item).                                           *)
OfferItem(w) ==
  /\ Offering(w)
  /\ error = "none"
  /\ \E i \in 1..Len(todo) :
       /\ S!FirstFor(w, i)
       /\ handing' = <<[worker |-> w, item |-> todo[i]]>>
       /\ todo' = S!RemoveIndex(todo, i)
  /\ active' = active + 1
  /\ idle' = Tail(idle)
  /\ cpc' = "send"
  /\ UNCHANGED <<error, eventVars, runVars, taskVars, channelVars, cancel>>

(* next_for(w) = Done or Fatal: the queue has been drained, or next_for    *)
(* reports the error it holds or the exhausted item it finds.              *)
OfferEnds(w) ==
  /\ Offering(w)
  /\ error # "none" \/ S!NothingFor(w)
  /\ LET exhausted == \E i \in 1..Len(todo) : S!Exhausted(todo[i]) IN
       /\ error # "none" \/ exhausted \/ S!IsDone
       /\ error' = IF error = "none" /\ exhausted THEN "unowned" ELSE error
       /\ Return(IF error = "none" /\ ~exhausted THEN "complete" ELSE "failed")
  /\ idle' = Tail(idle)
  /\ UNCHANGED <<todo, active, handing, eventVars, closing, returned,
                  taskVars, channelVars, cancel>>

(* idle.push_back(worker_id).                                              *)
Rotated == Append(Tail(idle), Head(idle))

(* next_for(w) = Wait.                                                     *)
OfferWaits(w) ==
  /\ Offering(w)
  /\ error = "none"
  /\ S!NothingFor(w)
  /\ ~S!IsDone
  /\ \A i \in 1..Len(todo) : ~S!Exhausted(todo[i])
  /\ idle' = Rotated
  /\ UNCHANGED <<cpc, schedulerVars, handing, eventVars, runVars, taskVars,
                  channelVars, cancel>>

(* work_tx.send(Work(item)).await: it waits while the channel is full, and *)
(* fails, the item lost, once the worker's task has ended.                 *)
SendWork ==
  /\ cpc = "send"
  /\ LET w == handing[1].worker IN
       /\ ~Ended(w)
       /\ Len(work[w]) < 1
       /\ work' = [work EXCEPT ![w] = Append(@, handing[1].item)]
  /\ handing' = << >>
  /\ cpc' = "dispatch"
  /\ UNCHANGED <<schedulerVars, idle, offers, eventVars, runVars, taskVars,
                 results, cancel>>

SendFails ==
  /\ cpc = "send"
  /\ Ended(handing[1].worker)
  /\ Return("broken")
  /\ UNCHANGED <<schedulerVars, dispatchVars, eventVars, closing, returned,
                 taskVars, channelVars, cancel>>

(* dispatch_available is through; the two checks before recv.              *)
Check ==
  /\ cpc = "dispatch"
  /\ offers = 0
  /\ CASE S!IsDone -> Return("complete")
       [] ~S!IsDone /\ active = 0 /\ Len(idle) = N -> Return("broken")
       [] OTHER -> cpc' = "recv" /\ UNCHANGED result
  /\ UNCHANGED <<schedulerVars, dispatchVars, eventVars, closing, returned,
                  taskVars, channelVars, cancel>>

(* result_rx.recv().await.                                                 *)
Receive ==
  /\ cpc = "recv"
  /\ results # << >>
  /\ got' = <<Head(results)>>
  /\ results' = Tail(results)
  /\ idle' = Append(idle, Head(results).worker)
  /\ cpc' = "handle"
  /\ UNCHANGED <<schedulerVars, offers, handing, outbox, delivered, runVars,
                  taskVars, work, cancel>>

(* recv returns None: every task has dropped its sender, as run has.       *)
AllGone == results = << >> /\ \A w \in Worker : Ended(w)

(* coordinate gives up: every task has ended and recv returns None, the    *)
(* result's event is an error ("worker ... failed"), or on_event fails.    *)
Break ==
  /\ \/ cpc = "recv" /\ AllGone
     \/ cpc = "handle" /\ ~got[1].ok
     \/ cpc = "deliver" /\ outbox # << >> /\ Fault("sink")
  /\ Return("broken")
  /\ UNCHANGED <<schedulerVars, dispatchVars, eventVars, closing, returned,
                 taskVars, channelVars, cancel>>

Kept_Always(w, x) == TRUE

(* event_disposition = Emit.                                               *)
Kept(w, x) == IsDerivation(x.path) => Accepts(w, Answer[x.path].system)

(* scheduler.complete(spec, result.item, &event).                          *)
Handle ==
  /\ cpc = "handle"
  /\ got[1].ok
  /\ LET w == got[1].worker
         x == got[1].item
         kept == Kept(w, x)
         again == S!Rejected(x, w)
     IN /\ active' = active - 1
        /\ outbox' = IF kept THEN <<x.path>> ELSE << >>
        /\ todo' = CASE IsAttrSet(x.path) -> todo \o S!ChildItems(x)
                     [] ~kept /\ ~S!Exhausted(again) -> Append(todo, again)
                     [] OTHER -> todo
        /\ error' = CASE IsError(x.path) /\ Answer[x.path].fatal -> "fatal"
                      [] ~kept /\ S!Exhausted(again) -> "unowned"
                      [] OTHER -> error
  /\ got' = << >>
  /\ cpc' = "deliver"
  /\ UNCHANGED <<dispatchVars, delivered, runVars, taskVars, channelVars,
                  cancel>>

(* on_event(event).await, when complete said emit, and the bail after it.  *)
Deliver ==
  /\ cpc = "deliver"
  /\ delivered' =
       [p \in Tree |-> delivered[p] + IF outbox = <<p>> THEN 1 ELSE 0]
  /\ outbox' = << >>
  /\ IF error # "none"
       THEN Return("failed")
       ELSE cpc' = "top" /\ UNCHANGED result
  /\ UNCHANGED <<schedulerVars, dispatchVars, got, closing, returned,
                  taskVars, channelVars, cancel>>

StopIgnored_Full(w) == Ended(w) \/ Len(work[w]) >= 1

(* let _ = work_tx.send(Stop).await: its error is ignored.                 *)
StopIgnored(w) == Ended(w)

(* shutdown_workers, first loop: a Stop for every worker. A send to an     *)
(* ended task fails and is ignored; one to a full channel waits.           *)
SendStop ==
  /\ cpc = "shutdown"
  /\ IF StopIgnored(closing)
       THEN UNCHANGED work
       ELSE /\ Len(work[closing]) < 1
            /\ work' = [work EXCEPT ![closing] = Append(@, StopCommand)]
  /\ IF closing = N - 1
       THEN closing' = 0 /\ cpc' = "join"
       ELSE closing' = closing + 1 /\ UNCHANGED cpc
  /\ UNCHANGED <<schedulerVars, dispatchVars, eventVars, result, returned,
                 taskVars, results, cancel>>

Succeeded_Lenient == result # "failed"

(* coordinate returned Ok(()).                                             *)
Succeeded == result \in {"complete", "cancelled"}

(* Second loop: every task is awaited in order, and the first that ended   *)
(* in an error or a panic ends run with it, whatever coordinate returned.  *)
(* Otherwise run returns coordinate's result.                              *)
Join ==
  /\ cpc = "join"
  /\ Ended(closing)
  /\ IF tpc[closing] = "ok" /\ closing < N - 1
       THEN closing' = closing + 1 /\ UNCHANGED <<cpc, returned>>
       ELSE /\ returned' = IF tpc[closing] = "ok" /\ Succeeded
                           THEN "ok" ELSE "err"
            /\ cpc' = "returned"
            /\ UNCHANGED closing
  /\ UNCHANGED <<schedulerVars, dispatchVars, eventVars, result, taskVars,
                 channelVars, cancel>>

Coordinate ==
  \/ Top \/ SendWork \/ SendFails \/ Check \/ Receive \/ Break
  \/ Handle \/ Deliver \/ SendStop \/ Join
  \/ \E w \in Worker : OfferItem(w) \/ OfferEnds(w) \/ OfferWaits(w)

-----------------------------------------------------------------------------
(* worker_task.                                                            *)

MoveTo(w, place) == tpc' = [tpc EXCEPT ![w] = place]

(* WorkerClient::connect; when it fails the task ends there.               *)
Connect(w) ==
  /\ tpc[w] = "connecting"
  /\ MoveTo(w, "recv") \/ (Fault("connect") /\ MoveTo(w, "err"))
  /\ UNCHANGED <<masterVars, item, good, spent, channelVars, cancel>>

(* work_rx.recv().await, and what follows it: the cancel flag first, then  *)
(* the kind of command.                                                    *)
Take(w) ==
  /\ tpc[w] = "recv"
  /\ work[w] # << >>
  /\ LET command == Head(work[w]) IN
       /\ item' = IF command = StopCommand
                    THEN item ELSE [item EXCEPT ![w] = command]
       /\ MoveTo(w, IF cancel \/ command = StopCommand
                      THEN "stopping" ELSE "evaluating")
  /\ work' = [work EXCEPT ![w] = Tail(@)]
  /\ UNCHANGED <<masterVars, good, spent, results, cancel>>

(* The sender is gone and the channel is empty: the loop ends.             *)
TakeNone(w) ==
  /\ tpc[w] = "recv"
  /\ work[w] = << >>
  /\ Dropped
  /\ MoveTo(w, "stopping")
  /\ UNCHANGED <<masterVars, item, good, spent, channelVars, cancel>>

(* The result of worker.work, Ok or Err, is sent to the coordinator.       *)
AfterWork(ok) == "sending"

(* worker.work(...).await returns an event, or an error. With a local      *)
(* process's error, stderr_task may have been awaited: by exit_error, or   *)
(* by wait_for_restart before a respawn that failed.                       *)
Evaluate(w) ==
  /\ tpc[w] = "evaluating"
  /\ \E ok, awaited \in BOOLEAN :
       /\ ~ok => Fault("work")
       /\ awaited => ~ok /\ Kind[w] = "local"
       /\ MoveTo(w, AfterWork(ok))
       /\ good' = [good EXCEPT ![w] = ok]
       /\ spent' = [spent EXCEPT ![w] = awaited]
  /\ UNCHANGED <<masterVars, item, channelVars, cancel>>

ResultCapacity_One == 1

(* mpsc::channel(specs.len()).                                             *)
ResultCapacity == N

(* result_tx.send(...).await: an error once the receiver is dropped.       *)
SendResult(w) ==
  /\ tpc[w] = "sending"
  /\ IF Dropped
       THEN MoveTo(w, "stopping") /\ UNCHANGED <<item, results>>
       ELSE /\ Len(results) < ResultCapacity
            /\ results' = Append(results, [worker |-> w, item |-> item[w],
                                           ok |-> good[w]])
            /\ MoveTo(w, "recv")
            /\ item' = [item EXCEPT ![w] = NoItem]
  /\ UNCHANGED <<masterVars, good, spent, work, cancel>>

(* worker.stop().await: awaiting stderr_task a second time panics.         *)
StopWorker(w) ==
  /\ tpc[w] = "stopping"
  /\ MoveTo(w, IF spent[w] THEN "panicked" ELSE "ok")
  /\ UNCHANGED <<masterVars, item, good, spent, channelVars, cancel>>

WorkerTask(w) ==
  \/ Connect(w) \/ Take(w) \/ TakeNone(w)
  \/ Evaluate(w) \/ SendResult(w) \/ StopWorker(w)

-----------------------------------------------------------------------------
(* The environment.                                                        *)

Cancel ==
  /\ "cancel" \in Faults
  /\ ~cancel
  /\ cpc \notin {"returned", "dropped"}
  /\ cancel' = TRUE
  /\ UNCHANGED <<masterVars, taskVars, channelVars>>

(* run's task is aborted at one of its awaits.                             *)
DropRun ==
  /\ "drop" \in Faults
  /\ cpc \in {"send", "recv", "deliver", "shutdown", "join"}
  /\ cpc' = "dropped"
  /\ UNCHANGED <<schedulerVars, dispatchVars, eventVars, runVars, taskVars,
                  channelVars, cancel>>

CNext ==
  \/ Coordinate
  \/ \E w \in Worker : WorkerTask(w)
  \/ Cancel
  \/ DropRun

CSpec == CInit /\ [][CNext]_cvars

(* tokio polls every task that can make progress, on_event returns, and a  *)
(* worker either answers or fails; no fault is ever forced.                *)
CFairness ==
  /\ WF_cvars(Coordinate)
  /\ \A w \in Worker : WF_cvars(WorkerTask(w))

CFairSpec == CSpec /\ CFairness
-----------------------------------------------------------------------------
(* Properties.                                                             *)

Result == [worker : Worker, item : S!Item, ok : BOOLEAN]

CTypeOK ==
  /\ todo \in Seq(S!Item)
  /\ active \in Nat
  /\ error \in {"none", "fatal", "unowned"}
  /\ cpc \in {"top", "dispatch", "send", "recv", "handle", "deliver",
              "shutdown", "join", "returned", "dropped"}
  /\ idle \in Seq(Worker)
  /\ offers \in 0..Len(idle)
  /\ handing \in Seq([worker : Worker, item : S!Item]) /\ Len(handing) <= 1
  /\ got \in Seq(Result) /\ Len(got) <= 1
  /\ outbox \in Seq(Tree) /\ Len(outbox) <= 1
  /\ result \in {"running", "complete", "failed", "cancelled", "broken"}
  /\ closing \in 0..N
  /\ returned \in {"none", "ok", "err"}
  /\ work \in [Worker -> Seq(S!Item \cup {StopCommand})]
  /\ \A w \in Worker : Len(work[w]) <= 1
  /\ results \in Seq(Result)
  /\ tpc \in [Worker -> {"connecting", "recv", "evaluating", "sending",
                          "stopping", "ok", "err", "panicked"}]
  /\ item \in [Worker -> S!Item \cup {NoItem}]
  /\ good \in [Worker -> BOOLEAN] /\ spent \in [Worker -> BOOLEAN]
  /\ cancel \in BOOLEAN
  /\ delivered \in [Tree -> Nat]

(* The tasks and channels together behave as Scheduler says, so what holds *)
(* of it holds here, whatever the faults: results are completed by the     *)
(* worker that was handed the item, each once, and none is made up.        *)
ImplementsScheduler == S!Spec

(* While coordinate runs, each worker is in the idle queue once or has one *)
(* item under way, never both and never neither: the idle queue hands no   *)
(* busy worker out and forgets none.                                       *)
OneJobEach ==
  result = "running" =>
    \A w \in Worker :
      /\ Cardinality(Places(w)) <= 1
      /\ Cardinality({k \in 1..Len(idle) : idle[k] = w}) =
           IF Places(w) = {} \/ (cpc = "handle" /\ got[1].worker = w)
             THEN 1 ELSE 0

(* The capacities 1 and N are enough: dispatching never waits on a full    *)
(* work channel, and a worker never waits to hand in its result, not even  *)
(* during shutdown when nobody reads results any more.                     *)
ChannelsSuffice ==
  /\ cpc = "send" => work[handing[1].worker] = << >>
  /\ \A w \in Worker : tpc[w] = "sending" => Len(results) < ResultCapacity

(* run returns Ok, without having been cancelled, only when on_event has   *)
(* accepted the event of every reachable attribute once and no other, and  *)
(* every worker task has ended cleanly.                                    *)
OkMeansAll ==
  returned = "ok" =>
    /\ \A w \in Worker : tpc[w] = "ok"
    /\ ~cancel => \A p \in Tree :
                    delivered[p] = IF p \in Reachable THEN 1 ELSE 0

(* A path has been left with a task that has ended, and the coordinator    *)
(* waits for results. (A worker that cannot be connected leaves it in its  *)
(* channel, one that sees the cancel flag drops it.)                       *)
Starved ==
  /\ cpc = "recv"
  /\ \E w \in Worker :
       Ended(w) /\ (Commanded(work[w]) # {} \/ item[w] # NoItem)

Over == cpc \in {"returned", "dropped"} /\ \A w \in Worker : Ended(w)

(* Nothing hangs, however workers and sink fail, and whenever the run is   *)
(* cancelled or dropped: run returns, and no worker task outlives it for   *)
(* ever, not even after an early return from shutdown_workers. There is    *)
(* one exception, and no other: the coordinator is Starved.                *)
RunEnds == <>Over \/ <>[]Starved

(* README, "The queue": each worker pulls the next path, evaluates it, and *)
(* returns one event. A path a worker has been handed is given back to the *)
(* scheduler, or the run ends.                                             *)
EveryItemAnswered ==
  \A w \in Worker :
    Held[w] # NoItem ~> (Held[w] = NoItem \/ result # "running" \/ Dropped)

(* Session::cancel requests cancellation of the active evaluation: once it *)
(* is called, run returns.                                                 *)
CancelReturns == cancel ~> (cpc \in {"returned", "dropped"})

(* A run of a covered graph returns Ok, unless it is broken off, dropped   *)
(* or cancelled, or a worker cannot be connected.                          *)
CoveredReturnsOk ==
  Covered => <>(\/ returned = "ok"
                \/ result = "broken" \/ Dropped \/ cancel
                \/ \E w \in Worker : tpc[w] = "err")
=============================================================================
