------------------------------ MODULE Scheduler ------------------------------
(***************************************************************************)
(* The evaluation master's scheduler: struct Scheduler of async_master.rs  *)
(* with next_for and complete, driven as coordinate drives it, one call at *)
(* a time. A worker is a place that holds at most one work item; how items *)
(* and answers travel between the coordinator task and the worker tasks is *)
(* Coordinator.tla's subject, which implements this module.                *)
(*                                                                         *)
(* An operator named X_Y is X with a mistake in it, kept to show that the  *)
(* properties notice.                                                      *)
(***************************************************************************)
EXTENDS Evaluation

CONSTANT NoItem  \* what an idle worker holds

VARIABLES
  todo,     \* Scheduler.todo: the queued work items
  active,   \* Scheduler.active: the number of dispatched, unfinished items
  error,    \* Scheduler.error: "none", "fatal" or "unowned"
  held,     \* held[w]: the item worker w has been handed
  emitted,  \* emitted[p]: the events for path p handed to on_event
  verdict   \* "running" until coordinate returns, then how it returned

vars == <<todo, active, error, held, emitted, verdict>>

-----------------------------------------------------------------------------
(* Work items.                                                             *)

Item == [path : Tree, rejected_by : Seq(Worker)]

ASSUME NoItemAssumption == NoItem \notin Item

NewItem(p) == [path |-> p, rejected_by |-> << >>]

Rejecters(item) ==
  {item.rejected_by[k] : k \in 1..Len(item.rejected_by)}

(* "Requeue" of complete: worker w adds itself to the rejecters.           *)
Rejected(item, w) ==
  [item EXCEPT !.rejected_by = Append(item.rejected_by, w)]

Exhausted_Early(item) == Len(item.rejected_by) >= N - 1
Exhausted_Late(item)  == Len(item.rejected_by) > N

(* item.rejected_by.len() >= self.worker_count.                            *)
Exhausted(item) == Len(item.rejected_by) >= N

(* The items an AttrSet event pushes to the back of the queue.             *)
ChildItems(item) ==
  LET attrs == Answer[item.path].attrs
  IN  [i \in 1..Len(attrs) |-> NewItem(Append(item.path, attrs[i]))]

-----------------------------------------------------------------------------
(* The queue.                                                              *)

RemoveIndex_Front(s, i) == Tail(s)

(* VecDeque::remove(index).                                                *)
RemoveIndex(s, i) ==
  [j \in 1..(Len(s) - 1) |-> IF j < i THEN s[j] ELSE s[j + 1]]

(* The position next_for takes for w: the first item w has not rejected.   *)
FirstFor(w, i) ==
  /\ i \in 1..Len(todo)
  /\ w \notin Rejecters(todo[i])
  /\ \A j \in 1..(i - 1) : w \in Rejecters(todo[j])

NothingFor(w) == \A i \in 1..Len(todo) : w \in Rejecters(todo[i])

IsDone_QueueOnly == todo = << >>

(* Scheduler::is_done.                                                     *)
IsDone == todo = << >> /\ active = 0

-----------------------------------------------------------------------------
Init ==
  /\ todo = <<NewItem(Root)>>
  /\ active = 0
  /\ error = "none"
  /\ held = [w \in Worker |-> NoItem]
  /\ emitted = [p \in Tree |-> 0]
  /\ verdict = "running"

(* next_for(w) = Dispatch(item), and dispatch_available hands it over.     *)
Dispatch(w) ==
  /\ verdict = "running"
  /\ error = "none"
  /\ held[w] = NoItem
  /\ \E i \in 1..Len(todo) :
       /\ FirstFor(w, i)
       /\ held' = [held EXCEPT ![w] = todo[i]]
       /\ todo' = RemoveIndex(todo, i)
  /\ active' = active + 1
  /\ UNCHANGED <<error, emitted, verdict>>

(* next_for(w) = Done: the queue is empty and nobody is busy.              *)
Done(w) ==
  /\ verdict = "running"
  /\ error = "none"
  /\ held[w] = NoItem
  /\ IsDone
  /\ verdict' = "complete"
  /\ UNCHANGED <<todo, active, error, held, emitted>>

(* complete(w, item, event) begins the same way for every event.           *)
Finishing(w) ==
  /\ verdict = "running"
  /\ error = "none"
  /\ held[w] # NoItem
  /\ active' = active - 1
  /\ held' = [held EXCEPT ![w] = NoItem]
  /\ UNCHANGED verdict

Emit(p) == emitted' = [emitted EXCEPT ![p] = @ + 1]

CompleteAttrSet(w) ==
  /\ Finishing(w)
  /\ IsAttrSet(held[w].path)
  /\ todo' = todo \o ChildItems(held[w])
  /\ Emit(held[w].path)
  /\ UNCHANGED error

CompleteError(w) ==
  /\ Finishing(w)
  /\ IsError(held[w].path)
  /\ error' = IF Answer[held[w].path].fatal THEN "fatal" ELSE error
  /\ Emit(held[w].path)
  /\ UNCHANGED todo

CompleteDerivation(w) ==
  /\ Finishing(w)
  /\ IsDerivation(held[w].path)
  /\ Accepts(w, Answer[held[w].path].system)
  /\ Emit(held[w].path)
  /\ UNCHANGED <<todo, error>>

(* The worker does not own the derivation's system: the item goes back to  *)
(* the queue with the worker on its list of rejecters, or, once every      *)
(* worker is on it, the evaluation fails.                                  *)
CompleteRejected(w) ==
  /\ Finishing(w)
  /\ IsDerivation(held[w].path)
  /\ ~Accepts(w, Answer[held[w].path].system)
  /\ LET item == Rejected(held[w], w) IN
       IF Exhausted(item)
         THEN error' = "unowned" /\ UNCHANGED todo
         ELSE todo' = Append(todo, item) /\ UNCHANGED error
  /\ UNCHANGED emitted

Complete(w) ==
  \/ CompleteAttrSet(w)
  \/ CompleteError(w)
  \/ CompleteDerivation(w)
  \/ CompleteRejected(w)

(* coordinate bails out with the scheduler's error.                        *)
Fail ==
  /\ verdict = "running"
  /\ error # "none"
  /\ verdict' = "failed"
  /\ UNCHANGED <<todo, active, error, held, emitted>>

(* coordinate returns for a reason outside the scheduler: cancellation, a  *)
(* worker that failed, an event sink that returned an error.               *)
Stop ==
  /\ verdict = "running"
  /\ verdict' = "stopped"
  /\ UNCHANGED <<todo, active, error, held, emitted>>

Next ==
  \/ \E w \in Worker : Dispatch(w) \/ Done(w) \/ Complete(w)
  \/ Fail
  \/ Stop

Spec == Init /\ [][Next]_vars

(* The coordinator's loop keeps offering work to idle workers and handling *)
(* answers, and every worker answers: each item is evaluated by a process  *)
(* of its own that returns one event. Stop is never forced.                *)
Fairness ==
  /\ \A w \in Worker : WF_vars(Dispatch(w)) /\ WF_vars(Complete(w))
  /\ WF_vars(\E w \in Worker : Done(w))
  /\ WF_vars(Fail)

FairSpec == Spec /\ Fairness

-----------------------------------------------------------------------------
(* Properties.                                                             *)

TypeOK ==
  /\ todo \in Seq(Item)
  /\ active \in Nat
  /\ error \in {"none", "fatal", "unowned"}
  /\ held \in [Worker -> Item \cup {NoItem}]
  /\ emitted \in [Tree -> Nat]
  /\ verdict \in {"running", "complete", "failed", "stopped"}

Busy == {w \in Worker : held[w] # NoItem}

(* The counter that complete decrements is the number of busy workers, so  *)
(* it never wraps below zero and is_done is not true with work in flight.  *)
ActiveCountsBusy == active = Cardinality(Busy)

Queued(p) == \E i \in 1..Len(todo) : todo[i].path = p
HeldPath(p) == \E w \in Busy : held[w].path = p

(* A path is in one place only: queued once, or held by one worker, or     *)
(* reported once. Pushing children, requeueing a rejected item and         *)
(* removing from the middle of the queue all have to keep this.            *)
OnePlace ==
  /\ \A i, j \in 1..Len(todo) : todo[i].path = todo[j].path => i = j
  /\ \A v, w \in Busy : held[v].path = held[w].path => v = w
  /\ \A p \in Tree : emitted[p] <= 1
  /\ \A p \in Tree : Queued(p) => ~HeldPath(p) /\ emitted[p] = 0
  /\ \A p \in Tree : HeldPath(p) => emitted[p] = 0

(* An item's rejecters are distinct workers, each of which really does not *)
(* own the system of the derivation at that path; only the count of them   *)
(* is compared with worker_count.                                          *)
SoundlyRejected(item) ==
  \A k \in 1..Len(item.rejected_by) :
    /\ IsDerivation(item.path)
    /\ ~Accepts(item.rejected_by[k], Answer[item.path].system)
    /\ \A l \in 1..Len(item.rejected_by) :
         item.rejected_by[k] = item.rejected_by[l] => k = l

RejectionsSound ==
  /\ \A i \in 1..Len(todo) : SoundlyRejected(todo[i])
  /\ \A w \in Busy : SoundlyRejected(held[w])

(* "No worker accepted derivation" is only ever said when that is true of  *)
(* some reachable derivation.                                              *)
UnownedIsReal ==
  error = "unowned" => \E p \in Reachable : IsDerivation(p) /\ ~Owned(p)

(* Returning Ok without cancellation means the whole graph was reported,   *)
(* each attribute exactly once, and nothing else.                          *)
CompleteMeansAll ==
  verdict = "complete" =>
    \A p \in Tree : emitted[p] = IF p \in Reachable THEN 1 ELSE 0

(* Whatever the coordinator finds at the top of its loop, it can go on:    *)
(* with work queued and nobody busy, some worker may take an item. So      *)
(* "scheduler stalled with no active workers" and the exhausted_error      *)
(* branch of next_for are unreachable, and Wait is never every answer.     *)
NeverStalled ==
  verdict = "running" /\ error = "none" /\ active = 0 /\ todo # << >> =>
    \E w \in Worker : held[w] = NoItem /\ ~NothingFor(w)

(* A graph with a fatal error or with a derivation nobody owns is never    *)
(* reported as complete: the derivation is not silently lost.              *)
UncoveredNeverCompletes == verdict = "complete" => Covered

(* The evaluation ends: an item returns to the queue at most once per      *)
(* worker, so requeueing cannot go on for ever.                            *)
Terminates == <>(verdict # "running")

T == INSTANCE Traversal WITH reported <- emitted

(* The scheduler keeps the promise of Traversal.                           *)
ImplementsTraversal == T!Spec
=============================================================================
