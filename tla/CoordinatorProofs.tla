-------------------------- MODULE CoordinatorProofs --------------------------
(***************************************************************************)
(* Proofs about Coordinator, for any graph, any pool of workers and any    *)
(* faults: it implements Scheduler, what is proved of Scheduler holds of   *)
(* it therefore, and its channels are large enough.                        *)
(***************************************************************************)
EXTENDS Coordinator, SequenceTheorems, FiniteSetTheorems, TLAPS

(* The proofs about Scheduler, of the state that Coordinator's stands for. *)
P == INSTANCE SchedulerProofs WITH
       held <- Held, emitted <- Emitted, verdict <- Verdict

-----------------------------------------------------------------------------
(* The inductive invariant.                                                *)

(* Where an item of w can be.                                              *)
Handed(w)   == handing # << >> /\ handing[1].worker = w
Waiting(w)  == work[w] # << >> /\ work[w][1] # StopCommand
Doing(w)    == item[w] # NoItem
From(w, s)  == \E k \in 1..Len(s) : s[k].worker = w
Answered(w) == From(w, results)
Coming(w)   == got # << >> /\ got[1].worker = w

(* It is in one place,                                                     *)
Exclusive(w) ==
  /\ Handed(w)  => ~Waiting(w) /\ ~Doing(w) /\ ~Answered(w) /\ ~Coming(w)
  /\ Waiting(w) => ~Doing(w) /\ ~Answered(w) /\ ~Coming(w)
  /\ Doing(w)   => ~Answered(w) /\ ~Coming(w)
  /\ Answered(w)    => ~Coming(w)

(* and there once.                                                         *)
Apart(s) == \A k, l \in 1..Len(s) : s[k].worker = s[l].worker => k = l

Placed == Apart(results) /\ \A w \in Worker : Exclusive(w)

(* Where the coordinator is says what it holds, and until coordinate       *)
(* returns nobody has been told to stop.                                   *)
Coordinating ==
  cpc \in {"top", "dispatch", "send", "recv", "handle", "deliver"}

Coordinated ==
  /\ Coordinating =>
       /\ result = "running" /\ closing = 0
       /\ handing # << >> <=> cpc = "send"
       /\ outbox # << >> => cpc = "deliver"
       /\ error # "none" => cpc = "deliver"
  /\ result = "running" =>
       /\ got # << >> <=> cpc = "handle"
       /\ \A w \in Worker : work[w] # << >> => work[w][1] # StopCommand

(* The idle queue has everyone who has nothing to do, once.                *)
In(x, s) == \E k \in 1..Len(s) : s[k] = x
Once(s)  == \A k, l \in 1..Len(s) : s[k] = s[l] => k = l

IsIdle(w) == In(w, idle)

Rested ==
  result = "running" =>
    /\ Once(idle)
    /\ \A w \in Worker :
         IsIdle(w) <=> ~Handed(w) /\ ~Waiting(w) /\ ~Doing(w) /\ ~Answered(w)

(* A task has an item while it evaluates it and hands the result in.       *)
Tasked ==
  \A w \in Worker :
    /\ tpc[w] \in {"evaluating", "sending"} => Doing(w)
    /\ tpc[w] \in {"connecting", "recv"} => ~Doing(w)

(* Afterwards.                                                             *)
Closed ==
  /\ cpc \in {"shutdown", "join"} => closing \in Worker
  /\ cpc \in {"shutdown", "join", "returned"} => result # "running"
  /\ cpc = "join" => \A w \in 0..(closing - 1) : tpc[w] = "ok"
  /\ returned # "none" => cpc = "returned"
  /\ returned = "ok" =>
       result \in {"complete", "cancelled"} /\ \A w \in Worker : tpc[w] = "ok"
  /\ result = "complete" => outbox = << >>
  /\ result = "cancelled" => cancel

CInv ==
  /\ CTypeOK /\ Placed /\ Coordinated /\ Rested /\ Tasked /\ Closed
  /\ P!IInv

(* The types in four parts, so that a step need not look at them all.      *)
SchedulerTypes ==
  /\ todo \in Seq(S!Item)
  /\ active \in Nat
  /\ error \in {"none", "fatal", "unowned"}

MasterTypes ==
  /\ cpc \in {"top", "dispatch", "send", "recv", "handle", "deliver",
              "shutdown", "join", "returned", "dropped"}
  /\ idle \in Seq(Worker)
  /\ offers \in 0..Len(idle)
  /\ outbox \in Seq(Tree) /\ Len(outbox) <= 1
  /\ result \in {"running", "complete", "failed", "cancelled", "broken"}
  /\ closing \in 0..N
  /\ returned \in {"none", "ok", "err"}
  /\ cancel \in BOOLEAN
  /\ delivered \in [Tree -> Nat]

ChannelTypes ==
  /\ handing \in Seq([worker : Worker, item : S!Item]) /\ Len(handing) <= 1
  /\ got \in Seq(Result) /\ Len(got) <= 1
  /\ work \in [Worker -> Seq(S!Item \cup {StopCommand})]
  /\ \A w \in Worker : Len(work[w]) <= 1
  /\ results \in Seq(Result)

TaskTypes ==
  /\ tpc \in [Worker -> {"connecting", "recv", "evaluating", "sending",
                         "stopping", "ok", "err", "panicked"}]
  /\ item \in [Worker -> S!Item \cup {NoItem}]
  /\ good \in [Worker -> BOOLEAN] /\ spent \in [Worker -> BOOLEAN]

(* The four parts are the type invariant.                                  *)
LEMMA TypesAre == CTypeOK <=> SchedulerTypes /\ MasterTypes /\ ChannelTypes /\ TaskTypes
  BY DEF CTypeOK, SchedulerTypes, MasterTypes, ChannelTypes, TaskTypes

-----------------------------------------------------------------------------
(* Items in sequences.                                                     *)

(* Something is for w when a record says so.                               *)
LEMMA ForIs ==
  ASSUME NEW s, NEW w, NEW x
  PROVE  x \in For(w, s) <=> \E k \in 1..Len(s) : s[k].worker = w /\ s[k].item = x
BY DEF For

(* An empty sequence has nothing,                                          *)
LEMMA NoneIn ==
  (\A w : For(w, << >>) = {}) /\ Commanded(<< >>) = {}
BY DEF For, Commanded

(* one that got longer has the new record's item as well,                  *)
LEMMA ForAppend ==
  ASSUME NEW T, NEW s \in Seq(T), NEW e \in T, NEW w
  PROVE  For(w, Append(s, e)) = For(w, s) \cup (IF e.worker = w THEN {e.item} ELSE {})
<1> DEFINE t == Append(s, e)
<1>1. Len(s) \in Nat /\ Len(t) = Len(s) + 1 /\ t[Len(s) + 1] = e
      /\ \A k \in 1..Len(s) : t[k] = s[k]
  OBVIOUS
<1> HIDE DEF t
<1>2. \A k \in 1..Len(t) : k \in 1..Len(s) \/ k = Len(s) + 1
  BY <1>1
<1>3. 1..Len(s) \subseteq 1..Len(t) /\ Len(s) + 1 \in 1..Len(t)
  BY <1>1
<1>4. ASSUME NEW x
      PROVE  x \in For(w, t) <=> x \in For(w, s) \/ (e.worker = w /\ x = e.item)
  BY <1>1, <1>2, <1>3, ForIs
<1> QED BY <1>4 DEF t

(* and its head's item is what its tail has not.                           *)
LEMMA ForTail ==
  ASSUME NEW T, NEW s \in Seq(T), s # << >>, NEW w
  PROVE  For(w, s) = For(w, Tail(s)) \cup (IF Head(s).worker = w THEN {Head(s).item} ELSE {})
<1> DEFINE t == Tail(s)
<1>1. /\ Len(s) \in Nat /\ Len(s) > 0 /\ Len(t) = Len(s) - 1 /\ s[1] = Head(s)
      /\ \A k \in 1..Len(t) : t[k] = s[k + 1]
  OBVIOUS
<1> HIDE DEF t
<1>2. \A k \in 1..Len(s) : k = 1 \/ (k - 1 \in 1..Len(t) /\ t[k - 1] = s[k])
  BY <1>1
<1>3. 1 \in 1..Len(s) /\ \A k \in 1..Len(t) : k + 1 \in 1..Len(s)
  BY <1>1
<1>4. ASSUME NEW x
      PROVE  x \in For(w, s) <=>
               x \in For(w, t) \/ (Head(s).worker = w /\ x = Head(s).item)
  <2>1. x \in For(w, s) => x \in For(w, t) \/ (Head(s).worker = w /\ x = Head(s).item)
    BY <1>1, <1>2, ForIs
  <2>2. x \in For(w, t) => x \in For(w, s)
    BY <1>1, <1>3, ForIs
  <2>3. Head(s).worker = w /\ x = Head(s).item => x \in For(w, s)
    BY <1>1, <1>3, ForIs
  <2> QED BY <2>1, <2>2, <2>3
<1> QED BY <1>4 DEF t

(* A single record, or a single command, has one item.                     *)
LEMMA OneIn ==
  ASSUME NEW T, NEW s \in Seq(T), s # << >>, Len(s) <= 1
  PROVE  /\ Len(s) = 1 /\ Head(s) = s[1] /\ Tail(s) = << >> /\ s[1] \in T
         /\ \A w : For(w, s) = IF s[1].worker = w THEN {s[1].item} ELSE {}
         /\ Commanded(s) = IF s[1] = StopCommand THEN {} ELSE {s[1]}
<1>0. Len(s) = 1 /\ Head(s) = s[1] /\ s[1] \in T
  OBVIOUS
<1>1. Len(s) = 1 /\ Head(s) = s[1] /\ Tail(s) = << >> /\ s[1] \in T
  <2>1. Tail(s) \in Seq(T) /\ Len(Tail(s)) = 0
    BY <1>0
  <2> QED BY <1>0, <2>1, EmptySeq
<1>2. 1..Len(s) = {1}
  BY <1>1
<1> QED BY <1>1, <1>2 DEF For, Commanded

-----------------------------------------------------------------------------
(* The worker that holds an item, and the item.                            *)

(* An item is neither of the two other values.                             *)
LEMMA ItemsAre == NoItem \notin S!Item /\ StopCommand \notin S!Item /\ StopCommand # NoItem
BY CommandAssumption

(* If nobody's places change, what is held does not.                       *)
LEMMA HeldSame ==
  ASSUME \A w \in Worker : Places(w)' = Places(w)
  PROVE  Held' = Held
BY DEF Held

(* A worker with one item in its places holds it,                          *)
LEMMA HeldIs ==
  ASSUME NEW w \in Worker
  PROVE  /\ Places(w) = {} => Held[w] = NoItem
         /\ \A x : Places(w) = {x} => Held[w] = x
<1>1. AnyOf({}) = NoItem /\ \A x : AnyOf({x}) = x
  BY DEF AnyOf
<1> QED BY <1>1 DEF Held

(* and what is held changes with the places of one worker.                 *)
LEMMA HeldNext ==
  ASSUME NEW w \in Worker, \A v \in Worker \ {w} : Places(v)' = Places(v)
  PROVE  /\ Places(w)' = {} => Held' = [Held EXCEPT ![w] = NoItem]
         /\ \A x : Places(w)' = {x} => Held' = [Held EXCEPT ![w] = x]
<1>1. AnyOf({}) = NoItem /\ \A x : AnyOf({x}) = x
  BY DEF AnyOf
<1> QED BY <1>1 DEF Held

-----------------------------------------------------------------------------
(* The two instances of Scheduler are about the same graph, pool and       *)
(* items.                                                                  *)
LEMMA SameGraph ==
  /\ S!Worker = Worker /\ P!Worker = Worker /\ S!Root = Root /\ P!Root = Root
  /\ P!AnswerAssumption /\ P!Item = S!Item
  /\ S!Item = [path : Tree, rejected_by : Seq(Worker)]
  /\ \A p : /\ S!IsAttrSet(p) <=> IsAttrSet(p)
            /\ S!IsDerivation(p) <=> IsDerivation(p)
            /\ S!IsError(p) <=> IsError(p)
  /\ \A w, s : S!Accepts(w, s) <=> Accepts(w, s)
<1>1. S!Worker = Worker /\ P!Worker = Worker /\ S!Root = Root /\ P!Root = Root
  BY DEF S!Worker, P!Worker, Worker, S!Root, P!Root, Root
<1>2. P!AnswerAssumption
  BY GraphAssumption
  DEF P!AnswerAssumption, AnswerAssumption, P!Root, Root, P!Event, Event, P!AttrSetEvent,
      AttrSetEvent, P!DerivationEvent, DerivationEvent, P!ErrorEvent, ErrorEvent,
      P!IsAttrSet, IsAttrSet
<1>3. P!Item = S!Item /\ S!Item = [path : Tree, rejected_by : Seq(Worker)]
  BY <1>1 DEF P!Item, S!Item
<1>4. \A p : /\ S!IsAttrSet(p) <=> IsAttrSet(p)
             /\ S!IsDerivation(p) <=> IsDerivation(p)
             /\ S!IsError(p) <=> IsError(p)
  BY DEF S!IsAttrSet, IsAttrSet, S!IsDerivation, IsDerivation, S!IsError, IsError
<1>5. \A w, s : S!Accepts(w, s) <=> Accepts(w, s)
  BY DEF S!Accepts, Accepts
<1> QED BY <1>1, <1>2, <1>3, <1>4, <1>5

(* They are the same scheduler.                                            *)
LEMMA SameScheduler ==
  /\ S!Init <=> P!Init
  /\ [S!Next]_(S!vars) <=> [P!Next]_(P!vars)
<1>1. S!Init <=> P!Init
  BY DEF S!Init, P!Init, S!NewItem, P!NewItem, S!Root, P!Root, S!Worker, P!Worker
<1>2. S!Next <=> P!Next
  BY
  DEF S!Next, P!Next, S!Worker, P!Worker, S!Dispatch, P!Dispatch, S!FirstFor, P!FirstFor,
      S!Rejecters, P!Rejecters, S!RemoveIndex, P!RemoveIndex, S!Done, P!Done, S!IsDone,
      P!IsDone, S!Complete, P!Complete, S!CompleteAttrSet, P!CompleteAttrSet,
      S!CompleteError, P!CompleteError, S!CompleteDerivation, P!CompleteDerivation,
      S!CompleteRejected, P!CompleteRejected, S!Finishing, P!Finishing, S!Emit, P!Emit,
      S!IsAttrSet, P!IsAttrSet, S!IsError, P!IsError, S!IsDerivation, P!IsDerivation,
      S!Accepts, P!Accepts, S!ChildItems, P!ChildItems, S!NewItem, P!NewItem, S!Rejected,
      P!Rejected, S!Exhausted, P!Exhausted, S!Fail, P!Fail, S!Stop, P!Stop
<1> QED BY <1>1, <1>2 DEF S!vars, P!vars

(* What Scheduler's invariant says that the steps rely on: no item in the  *)
(* queue is exhausted, and with a count of zero nobody holds anything.     *)
LEMMA SchedulerSays ==
  ASSUME P!IInv
  PROVE  /\ \A i \in 1..Len(todo) : ~S!Exhausted(todo[i])
         /\ active = 0 => \A w \in Worker : Held[w] = NoItem
         /\ \A w \in Worker : Held[w] # NoItem => active - 1 \in Nat
<1>1. /\ \A i \in 1..Len(todo) : ~P!Exhausted(todo[i])
      /\ active = 0 => \A w \in Worker : Held[w] = NoItem
      /\ \A w \in Worker : Held[w] # NoItem => active - 1 \in Nat
  BY P!InvSays, SameGraph, PoolAssumption, CommandAssumption DEF P!InvSays
<1>2. \A x : S!Exhausted(x) <=> P!Exhausted(x)
  BY DEF S!Exhausted, P!Exhausted
<1> QED BY <1>1, <1>2

(* A step of the scheduler keeps its invariant, and with it the types of   *)
(* the coordinator's three variables of that name.                         *)
LEMMA SchedulerKeeps ==
  ASSUME P!IInv, [S!Next]_(S!vars)
  PROVE  /\ P!IInv'
         /\ todo' \in Seq(S!Item) /\ active' \in Nat
         /\ error' \in {"none", "fatal", "unowned"}
<1>1. [P!Next]_(P!vars)
  BY SameScheduler
<1>2. P!IInv'
  BY <1>1, P!InvStep, SameGraph, PoolAssumption, CommandAssumption DEF P!InvStep
<1> QED BY <1>2, SameGraph DEF P!IInv, P!TypeInv, P!TypeOK

-----------------------------------------------------------------------------
(* The idle queue and the result channel.                                  *)

(* The parts of a queue that is not empty.                                 *)
LEMMA TailIs ==
  ASSUME NEW T, NEW s \in Seq(T), s # << >>
  PROVE  /\ Len(s) \in Nat /\ Len(s) > 0 /\ 1 \in 1..Len(s)
         /\ Tail(s) \in Seq(T) /\ Head(s) \in T /\ Head(s) = s[1]
         /\ Len(Tail(s)) = Len(s) - 1
         /\ \A k \in 1..Len(Tail(s)) : k + 1 \in 1..Len(s) /\ Tail(s)[k] = s[k + 1]
         /\ \A k \in 1..Len(s) : k = 1 \/ k - 1 \in 1..Len(Tail(s))
OBVIOUS

(* A queue that has everything once has its head once.                     *)
LEMMA OnceTail ==
  ASSUME NEW T, NEW s \in Seq(T), s # << >>, Once(s)
  PROVE  /\ Once(Tail(s)) /\ Head(s) \in T /\ In(Head(s), s)
         /\ \A x : In(x, Tail(s)) <=> In(x, s) /\ x # Head(s)
<1> DEFINE t == Tail(s)
<1>1. /\ Len(s) \in Nat /\ Len(s) > 0 /\ Head(s) = s[1] /\ Head(s) \in T
      /\ Len(t) = Len(s) - 1 /\ 1 \in 1..Len(s)
      /\ \A k \in 1..Len(t) : k + 1 \in 1..Len(s) /\ t[k] = s[k + 1]
      /\ \A k \in 1..Len(s) : k = 1 \/ k - 1 \in 1..Len(t)
  BY TailIs
<1> HIDE DEF t
<1>2. Once(t)
  BY <1>1 DEF Once
<1>3. In(Head(s), s)
  BY <1>1 DEF In
<1>4. ASSUME NEW x PROVE In(x, t) <=> In(x, s) /\ x # Head(s)
  <2>1. In(x, t) => In(x, s) /\ x # Head(s)
    BY <1>1 DEF In, Once
  <2>2. In(x, s) /\ x # Head(s) => In(x, t)
    <3> SUFFICES ASSUME In(x, s), x # Head(s) PROVE In(x, t)
      OBVIOUS
    <3>1. PICK k \in 1..Len(s) : s[k] = x
      BY DEF In
    <3>2. k - 1 \in 1..Len(t) /\ t[k - 1] = s[k]
      BY <1>1, <3>1
    <3> QED BY <3>1, <3>2 DEF In
  <2> QED BY <2>1, <2>2
<1> QED BY <1>1, <1>2, <1>3, <1>4 DEF t

(* It may be appended what it has not.                                     *)
LEMMA OnceAppend ==
  ASSUME NEW T, NEW s \in Seq(T), NEW e \in T, Once(s), ~In(e, s)
  PROVE  /\ Once(Append(s, e))
         /\ \A x : In(x, Append(s, e)) <=> In(x, s) \/ x = e
<1> DEFINE t == Append(s, e)
<1>1. /\ Len(s) \in Nat /\ Len(t) = Len(s) + 1 /\ t[Len(s) + 1] = e
      /\ \A k \in 1..Len(s) : k \in 1..Len(t) /\ t[k] = s[k]
      /\ \A k \in 1..Len(t) : k \in 1..Len(s) \/ k = Len(s) + 1
      /\ Len(s) + 1 \in 1..Len(t)
  OBVIOUS
<1> HIDE DEF t
<1>2. Once(t)
  BY <1>1 DEF Once, In
<1>3. ASSUME NEW x PROVE In(x, t) <=> In(x, s) \/ x = e
  BY <1>1 DEF In
<1> QED BY <1>2, <1>3 DEF t

(* The same of a channel of records of different workers.                  *)
LEMMA ApartTail ==
  ASSUME NEW T, NEW s \in Seq(T), s # << >>, Apart(s)
  PROVE  /\ Apart(Tail(s)) /\ Head(s) \in T /\ From(Head(s).worker, s)
         /\ \A x : From(x, Tail(s)) <=> From(x, s) /\ x # Head(s).worker
<1> DEFINE t == Tail(s)
<1>1. /\ Len(s) \in Nat /\ Len(s) > 0 /\ Head(s) = s[1] /\ Head(s) \in T
      /\ Len(t) = Len(s) - 1 /\ 1 \in 1..Len(s)
      /\ \A k \in 1..Len(t) : k + 1 \in 1..Len(s) /\ t[k] = s[k + 1]
      /\ \A k \in 1..Len(s) : k = 1 \/ k - 1 \in 1..Len(t)
  BY TailIs
<1> HIDE DEF t
<1>2. Apart(t)
  BY <1>1 DEF Apart
<1>3. From(Head(s).worker, s)
  BY <1>1 DEF From
<1>4. ASSUME NEW x PROVE From(x, t) <=> From(x, s) /\ x # Head(s).worker
  <2>1. From(x, t) => From(x, s) /\ x # Head(s).worker
    BY <1>1 DEF From, Apart
  <2>2. From(x, s) /\ x # Head(s).worker => From(x, t)
    <3> SUFFICES ASSUME From(x, s), x # Head(s).worker PROVE From(x, t)
      OBVIOUS
    <3>1. PICK k \in 1..Len(s) : s[k].worker = x
      BY DEF From
    <3>2. k - 1 \in 1..Len(t) /\ t[k - 1] = s[k]
      BY <1>1, <3>1
    <3> QED BY <3>1, <3>2 DEF From
  <2> QED BY <2>1, <2>2
<1> QED BY <1>1, <1>2, <1>3, <1>4 DEF t

(* A result that is sent behind those in the channel is the only one of    *)
(* its worker's if there was none; nothing else changes.                   *)
LEMMA ApartAppend ==
  ASSUME NEW T, NEW s \in Seq(T), NEW e \in T, Apart(s), ~From(e.worker, s)
  PROVE  /\ Apart(Append(s, e))
         /\ \A x : From(x, Append(s, e)) <=> From(x, s) \/ x = e.worker
<1> DEFINE t == Append(s, e)
<1>1. /\ Len(s) \in Nat /\ Len(t) = Len(s) + 1 /\ t[Len(s) + 1] = e
      /\ \A k \in 1..Len(s) : k \in 1..Len(t) /\ t[k] = s[k]
      /\ \A k \in 1..Len(t) : k \in 1..Len(s) \/ k = Len(s) + 1
      /\ Len(s) + 1 \in 1..Len(t)
  OBVIOUS
<1> HIDE DEF t
<1>2. Apart(t)
  BY <1>1 DEF Apart, From
<1>3. ASSUME NEW x PROVE From(x, t) <=> From(x, s) \/ x = e.worker
  BY <1>1 DEF From
<1> QED BY <1>2, <1>3 DEF t

-----------------------------------------------------------------------------
(* Steps that move no item.                                                *)

Unmoved ==
  \A w \in Worker :
    /\ Handed(w)' <=> Handed(w)
    /\ Waiting(w)' <=> Waiting(w)
    /\ Doing(w)' <=> Doing(w)
    /\ Answered(w)' <=> Answered(w)

(* When nothing is moved, everything is in its place still, and held by    *)
(* the same worker.                                                        *)
LEMMA NothingMoves ==
  ASSUME Placed, UNCHANGED <<handing, work, item, results, got>>
  PROVE  Placed' /\ Held' = Held /\ Unmoved
<1>1. \A w \in Worker : Places(w)' = Places(w)
  BY DEF Places, For, Commanded
<1>2. Held' = Held
  BY <1>1, HeldSame
<1>3. \A w \in Worker :
              /\ Handed(w)' <=> Handed(w)
              /\ Waiting(w)' <=> Waiting(w)
              /\ Doing(w)' <=> Doing(w)
              /\ Answered(w)' <=> Answered(w)
              /\ Coming(w)' <=> Coming(w)
  BY DEF Handed, Waiting, Doing, Answered, From, Coming
<1>4. Apart(results)' <=> Apart(results)
  BY DEF Apart
<1> QED BY <1>2, <1>3, <1>4 DEF Placed, Exclusive, Unmoved

(* A step that Scheduler does not see.                                     *)
LEMMA Unseen ==
  ASSUME Held' = Held, UNCHANGED <<todo, active, error, delivered, outbox, result>>
  PROVE  UNCHANGED (S!vars)
BY DEF S!vars, Emitted, Verdict

(* A coordinator that gives up stops the scheduler.                        *)
LEMMA GivesUp ==
  ASSUME Coordinated, Coordinating, Held' = Held, result' \in {"cancelled", "broken"},
         UNCHANGED <<todo, active, error, delivered, outbox>>
  PROVE  S!Stop
<1>1. Verdict = "running" /\ Verdict' = "stopped" /\ Emitted' = Emitted
  BY DEF Verdict, Coordinated, Emitted
<1> QED BY <1>1 DEF S!Stop

(* One whose scheduler is done completes it.                               *)
LEMMA Completes ==
  ASSUME P!IInv, Coordinated, Coordinating, cpc # "deliver", S!IsDone,
         Held' = Held, result' = "complete",
         UNCHANGED <<todo, active, error, delivered, outbox>>
  PROVE  \E w \in Worker : S!Done(w)
<1>1. Verdict = "running" /\ Verdict' = "complete" /\ Emitted' = Emitted /\ error = "none"
  BY DEF Verdict, Coordinated, Emitted
<1>2. \A w \in Worker : Held[w] = NoItem
  BY SchedulerSays DEF S!IsDone
<1>3. 0 \in Worker
  BY PoolAssumption DEF Worker
<1>4. S!Done(0)
  BY <1>1, <1>2, <1>3 DEF S!Done
<1> QED BY <1>3, <1>4

(* The top of the loop.                                                    *)
LEMMA TopKeeps ==
  ASSUME CInv, Top
  PROVE  CInv' /\ [S!Next]_(S!vars)
<1>0. UNCHANGED <<handing, work, item, results, got, todo, active, error, delivered, outbox,
                  idle, closing, returned, tpc, cancel, good, spent>>
  BY DEF Top, schedulerVars, eventVars, taskVars, channelVars
<1>1. Placed' /\ Held' = Held /\ Unmoved
  BY <1>0, NothingMoves DEF CInv
<1>2. [S!Next]_(S!vars)
  <2>1. CASE cancel
    BY <2>1, <1>0, <1>1, GivesUp DEF CInv, Coordinating, Top, Return, S!Next
  <2>2. CASE ~cancel
    BY <2>2, <1>0, <1>1, Unseen DEF Top
  <2> QED BY <2>1, <2>2
<1>3. P!IInv'
  BY <1>2, SchedulerKeeps DEF CInv
<1>4. CTypeOK'
  <2>1. SchedulerTypes'
    BY <1>0, TypesAre DEF CInv, SchedulerTypes, Top, Return, Rounds
  <2>2. MasterTypes'
    BY <1>0, TypesAre DEF CInv, MasterTypes, Top, Return, Rounds
  <2>3. ChannelTypes'
    BY <1>0, TypesAre DEF CInv, ChannelTypes, Top, Return, Rounds
  <2>4. TaskTypes'
    BY <1>0, TypesAre DEF CInv, TaskTypes, Top, Return, Rounds
  <2> QED BY <2>1, <2>2, <2>3, <2>4, TypesAre, PTL
<1>5. Coordinated'
  BY <1>0 DEF CInv, Coordinated, Coordinating, Top, Return
<1>6. Rested'
  BY <1>0, <1>1 DEF CInv, Rested, Coordinating, Top, Return, IsIdle, In, Once, Unmoved
<1>7. Tasked'
  BY <1>0, <1>1 DEF CInv, Tasked, Unmoved
<1>8. Closed'
  BY <1>0, PoolAssumption DEF CInv, Closed, Coordinated, Coordinating, Top, Return, Worker
<1> QED BY <1>1, <1>2, <1>3, <1>4, <1>5, <1>6, <1>7, <1>8 DEF CInv

(* next_for has no more work.                                              *)
LEMMA OfferEndsKeeps ==
  ASSUME CInv, NEW w \in Worker, OfferEnds(w)
  PROVE  CInv' /\ [S!Next]_(S!vars)
<1>0. UNCHANGED <<handing, work, item, results, got, todo, active, delivered, outbox,
                  closing, returned, tpc, cancel, good, spent>>
  BY DEF OfferEnds, eventVars, taskVars, channelVars
<1>1. Placed' /\ Held' = Held /\ Unmoved
  BY <1>0, NothingMoves DEF CInv
<1>2. cpc = "dispatch" /\ error = "none" /\ idle # << >> /\ idle \in Seq(Worker)
      /\ offers \in 0..Len(idle) /\ offers > 0
  BY DEF CInv, CTypeOK, Coordinated, Coordinating, OfferEnds, Offering
<1>3. S!IsDone /\ error' = "none" /\ result' = "complete" /\ cpc' = "shutdown"
      /\ idle' = Tail(idle) /\ offers' = offers - 1
  BY <1>2, SchedulerSays DEF CInv, OfferEnds, Offering, Return
<1>4. [S!Next]_(S!vars)
  BY <1>0, <1>1, <1>2, <1>3, Completes, SameGraph DEF CInv, Coordinating, S!Next
<1>5. P!IInv'
  BY <1>4, SchedulerKeeps DEF CInv
<1>6. Len(idle') = Len(idle) - 1 /\ idle' \in Seq(Worker) /\ Len(idle) \in Nat
  BY <1>2, <1>3, TailIs
<1>7. CTypeOK'
  <2>1. SchedulerTypes'
    BY <1>0, <1>2, <1>3, <1>6, TypesAre DEF CInv, SchedulerTypes
  <2>2. MasterTypes'
    BY <1>0, <1>2, <1>3, <1>6, TypesAre DEF CInv, MasterTypes
  <2>3. ChannelTypes'
    BY <1>0, <1>2, <1>3, <1>6, TypesAre DEF CInv, ChannelTypes
  <2>4. TaskTypes'
    BY <1>0, <1>2, <1>3, <1>6, TypesAre DEF CInv, TaskTypes
  <2> QED BY <2>1, <2>2, <2>3, <2>4, TypesAre, PTL
<1>8. Coordinated' /\ Rested'
  BY <1>3 DEF Coordinated, Rested, Coordinating
<1>9. Tasked'
  BY <1>0, <1>1 DEF CInv, Tasked, Unmoved
<1>10. Closed'
  BY <1>0, <1>2, <1>3, PoolAssumption
  DEF CInv, Closed, Coordinated, Coordinating, Worker
<1> QED BY <1>1, <1>4, <1>5, <1>7, <1>8, <1>9, <1>10 DEF CInv

(* next_for says wait.                                                     *)
LEMMA OfferWaitsKeeps ==
  ASSUME CInv, NEW w \in Worker, OfferWaits(w)
  PROVE  CInv' /\ [S!Next]_(S!vars)
<1>0. UNCHANGED <<handing, work, item, results, got, todo, active, error, delivered, outbox,
                  cpc, result, closing, returned, tpc, cancel, good, spent>>
  BY DEF OfferWaits, schedulerVars, eventVars, runVars, taskVars, channelVars
<1>1. Placed' /\ Held' = Held /\ Unmoved
  BY <1>0, NothingMoves DEF CInv
<1>2. cpc = "dispatch" /\ idle # << >> /\ idle \in Seq(Worker)
      /\ offers \in 0..Len(idle) /\ offers > 0 /\ offers' = offers - 1 /\ idle' = Rotated
  BY DEF CInv, CTypeOK, OfferWaits, Offering
<1>3. UNCHANGED (S!vars)
  BY <1>0, <1>1, Unseen
<1>4. P!IInv'
  BY <1>3, SchedulerKeeps DEF CInv
<1>5. Once(idle) /\ Len(idle) \in Nat
  BY <1>2 DEF CInv, Coordinated, Rested, Coordinating
<1>6. /\ Once(Tail(idle)) /\ Tail(idle) \in Seq(Worker) /\ Head(idle) \in Worker
      /\ Len(Tail(idle)) = Len(idle) - 1 /\ In(Head(idle), idle)
      /\ \A x : In(x, Tail(idle)) <=> In(x, idle) /\ x # Head(idle)
  BY <1>2, <1>5, OnceTail, TailIs
<1>7. idle' \in Seq(Worker) /\ Len(idle') = Len(idle)
  BY <1>2, <1>5, <1>6 DEF Rotated
<1>8. Once(idle') /\ \A x : In(x, idle') <=> In(x, idle)
  <2>1. idle' = Append(Tail(idle), Head(idle))
    BY <1>2 DEF Rotated
  <2>2. ~In(Head(idle), Tail(idle))
    BY <1>6
  <2>3. /\ Once(idle')
        /\ \A x : In(x, idle') <=> In(x, Tail(idle)) \/ x = Head(idle)
    BY <1>6, <2>1, <2>2, OnceAppend
  <2> QED BY <1>6, <2>3
<1>9. CTypeOK'
  <2>1. SchedulerTypes'
    BY <1>0, <1>2, <1>5, <1>7, TypesAre DEF CInv, SchedulerTypes
  <2>2. MasterTypes'
    BY <1>0, <1>2, <1>5, <1>7, TypesAre DEF CInv, MasterTypes
  <2>3. ChannelTypes'
    BY <1>0, <1>2, <1>5, <1>7, TypesAre DEF CInv, ChannelTypes
  <2>4. TaskTypes'
    BY <1>0, <1>2, <1>5, <1>7, TypesAre DEF CInv, TaskTypes
  <2> QED BY <2>1, <2>2, <2>3, <2>4, TypesAre, PTL
<1>10. Coordinated'
  BY <1>0 DEF CInv, Coordinated, Coordinating
<1>11. Rested'
  BY <1>0, <1>1, <1>8 DEF CInv, Rested, Coordinating, IsIdle, Unmoved
<1>12. Tasked'
  BY <1>0, <1>1 DEF CInv, Tasked, Unmoved
<1>13. Closed'
  BY <1>0 DEF CInv, Closed
<1> QED BY <1>1, <1>3, <1>4, <1>9, <1>10, <1>11, <1>12, <1>13 DEF CInv

(* The work channel is closed, the run is broken off.                      *)
LEMMA BreakKeeps ==
  ASSUME CInv, SendFails \/ Break
  PROVE  CInv' /\ [S!Next]_(S!vars)
<1>0. UNCHANGED <<handing, work, item, results, got, todo, active, error, delivered, outbox,
                  idle, offers, closing, returned, tpc, cancel, good, spent>>
  BY DEF SendFails, Break, schedulerVars, dispatchVars, eventVars, taskVars, channelVars
<1>1. Placed' /\ Held' = Held /\ Unmoved
  BY <1>0, NothingMoves DEF CInv
<1>2. Coordinating /\ cpc' = "shutdown" /\ result' = "broken"
  BY DEF SendFails, Break, Coordinating, Return
<1>3. [S!Next]_(S!vars)
  BY <1>0, <1>1, <1>2, GivesUp DEF CInv, S!Next
<1>4. P!IInv'
  BY <1>3, SchedulerKeeps DEF CInv
<1>5. CTypeOK'
  BY <1>0, <1>2 DEF CInv, CTypeOK
<1>6. Coordinated' /\ Rested'
  BY <1>2 DEF Coordinated, Rested, Coordinating
<1>7. Tasked'
  BY <1>0, <1>1 DEF CInv, Tasked, Unmoved
<1>8. Closed'
  BY <1>0, <1>2, PoolAssumption DEF CInv, Closed, Coordinated, Coordinating, Worker
<1> QED BY <1>1, <1>3, <1>4, <1>5, <1>6, <1>7, <1>8 DEF CInv

(* dispatch_available is through.                                          *)
LEMMA CheckKeeps ==
  ASSUME CInv, Check
  PROVE  CInv' /\ [S!Next]_(S!vars)
<1>0. UNCHANGED <<handing, work, item, results, got, todo, active, error, delivered, outbox,
                  idle, offers, closing, returned, tpc, cancel, good, spent>>
  BY DEF Check, schedulerVars, dispatchVars, eventVars, taskVars, channelVars
<1>1. Placed' /\ Held' = Held /\ Unmoved
  BY <1>0, NothingMoves DEF CInv
<1>2. Coordinating /\ cpc = "dispatch"
  BY DEF Check, Coordinating
<1>3. \/ S!IsDone /\ cpc' = "shutdown" /\ result' = "complete"
      \/ cpc' = "shutdown" /\ result' = "broken"
      \/ cpc' = "recv" /\ result' = result
  BY DEF Check, Return
<1>4. [S!Next]_(S!vars)
  <2>1. CASE S!IsDone /\ result' = "complete"
    BY <2>1, <1>0, <1>1, <1>2, Completes, SameGraph DEF CInv, S!Next
  <2>2. CASE result' = "broken"
    BY <2>2, <1>0, <1>1, <1>2, GivesUp DEF CInv, S!Next
  <2>3. CASE result' = result
    BY <2>3, <1>0, <1>1, Unseen
  <2> QED BY <1>3, <2>1, <2>2, <2>3
<1>5. P!IInv'
  BY <1>4, SchedulerKeeps DEF CInv
<1>6. CTypeOK'
  BY <1>0, <1>3 DEF CInv, CTypeOK
<1>7. Coordinated'
  BY <1>0, <1>2, <1>3 DEF CInv, Coordinated, Coordinating
<1>8. Rested'
  BY <1>0, <1>1, <1>3 DEF CInv, Rested, IsIdle, Unmoved
<1>9. Tasked'
  BY <1>0, <1>1 DEF CInv, Tasked, Unmoved
<1>10. Closed'
  BY <1>0, <1>2, <1>3, PoolAssumption DEF CInv, Closed, Coordinated, Coordinating, Worker
<1> QED BY <1>1, <1>4, <1>5, <1>6, <1>7, <1>8, <1>9, <1>10 DEF CInv

(* on_event has accepted the event.                                        *)
LEMMA DeliverKeeps ==
  ASSUME CInv, Deliver
  PROVE  CInv' /\ [S!Next]_(S!vars)
<1>0. /\ UNCHANGED <<handing, work, item, results, got, todo, active, error,
                     idle, offers, closing, returned, tpc, cancel, good, spent>>
      /\ cpc = "deliver" /\ outbox' = << >>
      /\ delivered' = [p \in Tree |-> delivered[p] + IF outbox = <<p>> THEN 1 ELSE 0]
  BY DEF Deliver, schedulerVars, dispatchVars, taskVars, channelVars
<1>1. Placed' /\ Held' = Held /\ Unmoved
  BY <1>0, NothingMoves DEF CInv
<1>2. /\ Coordinating /\ result = "running" /\ Verdict = "running"
      /\ \/ error # "none" /\ cpc' = "shutdown" /\ result' = "failed"
         \/ error = "none" /\ cpc' = "top" /\ result' = result
  BY <1>0 DEF CInv, Coordinated, Coordinating, Deliver, Return, Verdict
<1>3. delivered \in [Tree -> Nat] /\ delivered' \in [Tree -> Nat]
  BY <1>0 DEF CInv, CTypeOK
<1>4. Emitted' = Emitted
  <2>1. \A p : outbox' # <<p>>
    BY <1>0
  <2>2. \A p \in Tree : delivered'[p] + 0 = delivered[p] + IF outbox = <<p>> THEN 1 ELSE 0
    BY <1>0, <1>3
  <2>3. \A p \in Tree : delivered'[p] + (IF outbox' = <<p>> THEN 1 ELSE 0)
                          = delivered[p] + IF outbox = <<p>> THEN 1 ELSE 0
    BY <2>1, <2>2
  <2> QED BY <2>3 DEF Emitted
<1>5. [S!Next]_(S!vars)
  <2>1. CASE result' = "failed"
    BY <2>1, <1>0, <1>1, <1>2, <1>4 DEF S!Next, S!Fail, Verdict
  <2>2. CASE result' = result
    BY <2>2, <1>0, <1>1, <1>4 DEF S!vars, Verdict
  <2> QED BY <1>2, <2>1, <2>2
<1>6. P!IInv'
  BY <1>5, SchedulerKeeps DEF CInv
<1>7. CTypeOK'
  BY <1>0, <1>2, <1>3 DEF CInv, CTypeOK
<1>8. Coordinated'
  BY <1>0, <1>2 DEF CInv, Coordinated, Coordinating
<1>9. Rested'
  BY <1>0, <1>1, <1>2 DEF CInv, Rested, IsIdle, Unmoved
<1>10. Tasked'
  BY <1>0, <1>1 DEF CInv, Tasked, Unmoved
<1>11. Closed'
  BY <1>0, <1>2, PoolAssumption DEF CInv, Closed, Coordinated, Coordinating, Worker
<1> QED BY <1>1, <1>5, <1>6, <1>7, <1>8, <1>9, <1>10, <1>11 DEF CInv

(* A task is awaited, or run returns.                                      *)
LEMMA JoinKeeps ==
  ASSUME CInv, Join
  PROVE  CInv' /\ UNCHANGED (S!vars)
<1>0. /\ UNCHANGED <<handing, work, item, results, got, todo, active, error, delivered, outbox,
                     idle, offers, result, tpc, cancel, good, spent>>
      /\ cpc = "join"
  BY DEF Join, schedulerVars, dispatchVars, eventVars, taskVars, channelVars
<1>1. Placed' /\ Held' = Held /\ Unmoved
  BY <1>0, NothingMoves DEF CInv
<1>2. UNCHANGED (S!vars)
  BY <1>0, <1>1, Unseen
<1>3. P!IInv'
  BY <1>2, SchedulerKeeps DEF CInv
<1>4. closing \in Worker /\ \A w \in 0..(closing - 1) : tpc[w] = "ok"
  BY <1>0 DEF CInv, Closed
<1>5. N \in Nat /\ N > 0 /\ Worker = 0..(N - 1)
  BY PoolAssumption DEF Worker
<1>6. \/ /\ tpc[closing] = "ok" /\ closing < N - 1 /\ closing' = closing + 1
         /\ cpc' = "join" /\ returned' = returned
      \/ /\ closing' = closing /\ cpc' = "returned"
         /\ returned' = "ok" => result \in {"complete", "cancelled"}
                                /\ tpc[closing] = "ok" /\ ~(closing < N - 1)
         /\ returned' \in {"ok", "err"}
  BY <1>0 DEF Join, Succeeded
<1>7. CTypeOK'
  <2>1. closing' \in 0..N
    BY <1>4, <1>5, <1>6
  <2>2. returned' \in {"none", "ok", "err"} /\ cpc' \in {"join", "returned"}
    BY <1>6 DEF CInv, CTypeOK
  <2> QED BY <1>0, <2>1, <2>2 DEF CInv, CTypeOK
<1>8. Coordinated' /\ Rested'
  BY <1>0, <1>6 DEF CInv, Closed, Coordinated, Rested, Coordinating
<1>9. Tasked'
  BY <1>0, <1>1 DEF CInv, Tasked, Unmoved
<1>10. Closed'
  <2>1. result # "running" /\ returned = "none"
    BY <1>0 DEF CInv, CTypeOK, Closed
  <2>2. CASE cpc' = "join" /\ tpc[closing] = "ok" /\ closing < N - 1 /\ closing' = closing + 1
             /\ returned' = returned
    <3>1. closing' \in Worker
      BY <2>2, <1>4, <1>5
    <3>2. \A w \in 0..(closing' - 1) : w \in 0..(closing - 1) \/ w = closing
      BY <2>2, <1>4, <1>5
    <3> QED BY <2>1, <2>2, <1>0, <1>4, <3>1, <3>2 DEF CInv, Closed
  <2>3. CASE /\ closing' = closing /\ cpc' = "returned"
             /\ returned' = "ok" => result \in {"complete", "cancelled"}
                                    /\ tpc[closing] = "ok" /\ ~(closing < N - 1)
    <3>1. ~(closing < N - 1) => \A w \in Worker : w \in 0..(closing - 1) \/ w = closing
      BY <1>4, <1>5
    <3> QED BY <2>1, <2>3, <1>0, <1>4, <3>1 DEF CInv, Closed
  <2> QED BY <1>6, <2>2, <2>3
<1> QED BY <1>1, <1>2, <1>3, <1>7, <1>8, <1>9, <1>10 DEF CInv

(* The flag is set, or the future of run is dropped.                       *)
LEMMA OutsideKeeps ==
  ASSUME CInv, Cancel \/ DropRun
  PROVE  CInv' /\ UNCHANGED (S!vars)
<1>0. /\ UNCHANGED <<handing, work, item, results, got, todo, active, error, delivered, outbox,
                     idle, offers, result, closing, returned, tpc, good, spent>>
      /\ \/ cpc' = cpc /\ cancel' = TRUE
         \/ cpc' = "dropped" /\ cancel' = cancel /\ cpc \notin {"handle", "returned"}
  BY DEF Cancel, DropRun, masterVars, schedulerVars, dispatchVars, eventVars, runVars,
         taskVars, channelVars
<1>1. Placed' /\ Held' = Held /\ Unmoved
  BY <1>0, NothingMoves DEF CInv
<1>2. UNCHANGED (S!vars)
  BY <1>0, <1>1, Unseen
<1>3. P!IInv'
  BY <1>2, SchedulerKeeps DEF CInv
<1>4. CTypeOK'
  <2>1. SchedulerTypes'
    BY <1>0, TypesAre DEF CInv, SchedulerTypes
  <2>2. MasterTypes'
    BY <1>0, TypesAre DEF CInv, MasterTypes
  <2>3. ChannelTypes'
    BY <1>0, TypesAre DEF CInv, ChannelTypes
  <2>4. TaskTypes'
    BY <1>0, TypesAre DEF CInv, TaskTypes
  <2> QED BY <2>1, <2>2, <2>3, <2>4, TypesAre, PTL
<1>5. Coordinated'
  BY <1>0 DEF CInv, Coordinated, Coordinating
<1>6. Rested'
  BY <1>0, <1>1 DEF CInv, Rested, Coordinating, IsIdle, Unmoved
<1>7. Tasked'
  BY <1>0, <1>1 DEF CInv, Tasked, Unmoved
<1>8. Closed'
  BY <1>0 DEF CInv, Closed
<1> QED BY <1>1, <1>2, <1>3, <1>4, <1>5, <1>6, <1>7, <1>8 DEF CInv

(* A worker task goes on without an item changing its place: it connects,  *)
(* finds no more work, has its answer, or ends.                            *)
LEMMA TaskKeeps ==
  ASSUME CInv, NEW w \in Worker, Connect(w) \/ TakeNone(w) \/ Evaluate(w) \/ StopWorker(w)
  PROVE  CInv' /\ UNCHANGED (S!vars)
<1>0. UNCHANGED <<handing, work, item, results, got, todo, active, error, delivered, outbox,
                  cpc, idle, offers, result, closing, returned, cancel>>
  BY DEF Connect, TakeNone, Evaluate, StopWorker, masterVars, schedulerVars, dispatchVars,
         eventVars, runVars, channelVars
<1>1. Placed' /\ Held' = Held /\ Unmoved
  BY <1>0, NothingMoves DEF CInv
<1>2. UNCHANGED (S!vars)
  BY <1>0, <1>1, Unseen
<1>3. P!IInv'
  BY <1>2, SchedulerKeeps DEF CInv
<1>4. /\ good' \in [Worker -> BOOLEAN] /\ spent' \in [Worker -> BOOLEAN]
      /\ \E place \in {"recv", "err", "stopping", "sending", "ok", "panicked"} :
           /\ tpc' = [tpc EXCEPT ![w] = place]
           /\ place = "recv" => tpc[w] = "connecting"
           /\ place = "sending" => tpc[w] = "evaluating"
      /\ tpc[w] # "ok"
  BY DEF CInv, CTypeOK, Connect, TakeNone, Evaluate, StopWorker, MoveTo, AfterWork
<1>5. PICK place \in {"recv", "err", "stopping", "sending", "ok", "panicked"} :
        /\ tpc' = [tpc EXCEPT ![w] = place]
        /\ place = "recv" => tpc[w] = "connecting"
        /\ place = "sending" => tpc[w] = "evaluating"
  BY <1>4
<1>6. CTypeOK'
  <2>1. SchedulerTypes'
    BY <1>0, <1>4, <1>5, TypesAre DEF CInv, SchedulerTypes
  <2>2. MasterTypes'
    BY <1>0, <1>4, <1>5, TypesAre DEF CInv, MasterTypes
  <2>3. ChannelTypes'
    BY <1>0, <1>4, <1>5, TypesAre DEF CInv, ChannelTypes
  <2>4. TaskTypes'
    BY <1>0, <1>4, <1>5, TypesAre DEF CInv, TaskTypes
  <2> QED BY <2>1, <2>2, <2>3, <2>4, TypesAre, PTL
<1>7. Coordinated'
  BY <1>0 DEF CInv, Coordinated, Coordinating
<1>8. Rested'
  BY <1>0, <1>1 DEF CInv, Rested, Coordinating, IsIdle, Unmoved
<1>9. /\ tpc'[w] = place
      /\ \A v \in Worker : v # w => tpc'[v] = tpc[v]
  BY <1>5 DEF CInv, CTypeOK
<1>10. Tasked'
  BY <1>1, <1>5, <1>9 DEF CInv, Tasked, Unmoved
<1>11. Closed'
  <2>1. \A v \in Worker : tpc[v] = "ok" => tpc'[v] = "ok"
    BY <1>4, <1>9
  <2>2. closing \in Worker => \A v \in 0..(closing - 1) : v \in Worker
    BY PoolAssumption DEF Worker
  <2> QED BY <1>0, <2>1, <2>2 DEF CInv, Closed
<1> QED BY <1>1, <1>2, <1>3, <1>6, <1>7, <1>8, <1>10, <1>11 DEF CInv

-----------------------------------------------------------------------------
(* Steps that pass Stop on.                                                *)

(* A Stop command is nobody's item.                                        *)
LEMMA StopMoves ==
  ASSUME Placed, UNCHANGED <<handing, item, results, got>>,
         \A w \in Worker : /\ Commanded(work'[w]) = Commanded(work[w])
                           /\ Waiting(w)' <=> Waiting(w)
  PROVE  Placed' /\ Held' = Held /\ Unmoved
<1>1. \A w \in Worker : Places(w)' = Places(w)
  BY DEF Places, For
<1>2. Held' = Held
  BY <1>1, HeldSame
<1>3. \A w \in Worker :
              /\ Handed(w)' <=> Handed(w)
              /\ Doing(w)' <=> Doing(w)
              /\ Answered(w)' <=> Answered(w)
              /\ Coming(w)' <=> Coming(w)
  BY DEF Handed, Doing, Answered, From, Coming
<1>4. Apart(results)' <=> Apart(results)
  BY DEF Apart
<1> QED BY <1>2, <1>3, <1>4 DEF Placed, Exclusive, Unmoved

(* What a channel with one command in it says.                             *)
LEMMA OneCommand ==
  ASSUME CTypeOK, NEW w \in Worker
  PROVE  /\ work[w] \in Seq(S!Item \cup {StopCommand})
         /\ Len(work[w]) < 1 => work[w] = << >>
         /\ work[w] # << >> =>
              /\ Len(work[w]) = 1 /\ Head(work[w]) = work[w][1]
              /\ Tail(work[w]) = << >>
              /\ work[w][1] \in S!Item \cup {StopCommand}
              /\ Commanded(work[w]) = IF work[w][1] = StopCommand THEN {} ELSE {work[w][1]}
<1>1. work[w] \in Seq(S!Item \cup {StopCommand}) /\ Len(work[w]) <= 1
  BY DEF CTypeOK
<1>2. Len(work[w]) < 1 => work[w] = << >>
  BY <1>1, EmptySeq
<1> QED BY <1>1, <1>2, OneIn

(* An element appended to an empty channel is alone in it.                 *)
LEMMA Alone ==
  \A x : /\ Append(<< >>, x) = <<x>> /\ <<x>> # << >>
         /\ Len(<<x>>) = 1 /\ <<x>>[1] = x
OBVIOUS

(* shutdown_workers sends a Stop.                                          *)
LEMMA SendStopKeeps ==
  ASSUME CInv, SendStop
  PROVE  CInv' /\ UNCHANGED (S!vars)
<1>0. /\ UNCHANGED <<handing, item, results, got, todo, active, error, delivered, outbox,
                     idle, offers, result, returned, tpc, cancel, good, spent>>
      /\ cpc = "shutdown"
  BY DEF SendStop, schedulerVars, dispatchVars, eventVars, taskVars
<1>1. closing \in Worker /\ N \in Nat /\ N > 0 /\ Worker = 0..(N - 1)
  BY <1>0, PoolAssumption DEF CInv, Closed, Worker
<1>2. \/ work' = work
      \/ work[closing] = << >> /\ work' = [work EXCEPT ![closing] = <<StopCommand>>]
  <2>1. CASE StopIgnored(closing)
    BY <2>1 DEF SendStop
  <2>2. CASE ~StopIgnored(closing)
    <3>1. Len(work[closing]) < 1 /\ work' = [work EXCEPT ![closing] = Append(@, StopCommand)]
      BY <2>2 DEF SendStop
    <3>2. work[closing] = << >>
      BY <3>1, <1>1, OneCommand DEF CInv
    <3> QED BY <3>1, <3>2, Alone
  <2> QED BY <2>1, <2>2
<1>3. <<StopCommand>> \in Seq(S!Item \cup {StopCommand})
  OBVIOUS
<1>4. /\ work' \in [Worker -> Seq(S!Item \cup {StopCommand})]
      /\ \A w \in Worker : Len(work'[w]) <= 1
      /\ \A w \in Worker :
           work'[w] # work[w] => work'[w] = <<StopCommand>> /\ work[w] = << >>
  <2> DEFINE Command == S!Item \cup {StopCommand}
             sent == <<StopCommand>>
  <2>1. work \in [Worker -> Seq(Command)] /\ \A w \in Worker : Len(work[w]) <= 1
    BY DEF CInv, CTypeOK
  <2>2. sent \in Seq(Command) /\ Len(sent) <= 1
    BY <1>3, Alone
  <2>3. work' = work \/ (work[closing] = << >> /\ work' = [work EXCEPT ![closing] = sent])
    BY <1>2
  <2> HIDE DEF Command, sent
  <2>4. /\ work' \in [Worker -> Seq(Command)]
        /\ \A w \in Worker : Len(work'[w]) <= 1
        /\ \A w \in Worker : work'[w] # work[w] => work'[w] = sent /\ work[w] = << >>
    BY <1>1, <2>1, <2>2, <2>3
  <2> QED BY <2>4 DEF Command, sent
<1>5. Commanded(<<StopCommand>>) = {}
  BY Alone DEF Commanded
<1>6. Placed' /\ Held' = Held /\ Unmoved
  <2>1. \A w \in Worker : Commanded(work'[w]) = Commanded(work[w])
    BY <1>4, <1>5, NoneIn
  <2>2. \A w \in Worker : Waiting(w)' <=> Waiting(w)
    BY <1>4, Alone DEF Waiting
  <2> QED BY <1>0, <2>1, <2>2, StopMoves DEF CInv
<1>7. UNCHANGED (S!vars)
  BY <1>0, <1>6, Unseen
<1>8. P!IInv'
  BY <1>7, SchedulerKeeps DEF CInv
<1>9. \/ closing' = 0 /\ cpc' = "join"
      \/ closing' = closing + 1 /\ closing # N - 1 /\ cpc' = cpc
  BY DEF SendStop
<1>10. closing' \in Worker
  BY <1>1, <1>9
<1>11. CTypeOK'
  <2>1. closing' \in 0..N
    BY <1>1, <1>10
  <2>2. SchedulerTypes'
    BY <1>0, <1>4, <1>9, <2>1, TypesAre DEF CInv, SchedulerTypes
  <2>3. MasterTypes'
    BY <1>0, <1>4, <1>9, <2>1, TypesAre DEF CInv, MasterTypes
  <2>4. ChannelTypes'
    BY <1>0, <1>4, <1>9, <2>1, TypesAre DEF CInv, ChannelTypes
  <2>5. TaskTypes'
    BY <1>0, <1>4, <1>9, <2>1, TypesAre DEF CInv, TaskTypes
  <2> QED BY <2>2, <2>3, <2>4, <2>5, TypesAre, PTL
<1>12. Coordinated' /\ Rested'
  BY <1>0, <1>9 DEF CInv, Closed, Coordinated, Rested, Coordinating
<1>13. Tasked'
  BY <1>0, <1>6 DEF CInv, Tasked, Unmoved
<1>14. Closed'
  BY <1>0, <1>9, <1>10 DEF CInv, Closed
<1> QED BY <1>6, <1>7, <1>8, <1>11, <1>12, <1>13, <1>14 DEF CInv

(* A task takes it.                                                        *)
LEMMA TakeStopKeeps ==
  ASSUME CInv, NEW w \in Worker, Take(w), Head(work[w]) = StopCommand
  PROVE  CInv' /\ UNCHANGED (S!vars)
<1>0. /\ UNCHANGED <<handing, item, results, got, todo, active, error, delivered, outbox,
                     cpc, idle, offers, result, closing, returned, good, spent, cancel>>
      /\ tpc[w] = "recv" /\ tpc' = [tpc EXCEPT ![w] = "stopping"]
      /\ work' = [work EXCEPT ![w] = Tail(@)] /\ work[w] # << >>
  BY DEF Take, MoveTo, masterVars, schedulerVars, dispatchVars, eventVars, runVars
<1>1. work[w][1] = StopCommand /\ Commanded(work[w]) = {} /\ Tail(work[w]) = << >>
  BY <1>0, OneCommand DEF CInv
<1>2. work \in [Worker -> Seq(S!Item \cup {StopCommand})] /\ \A v \in Worker : Len(work[v]) <= 1
  BY DEF CInv, CTypeOK
<1>3. /\ work' = [work EXCEPT ![w] = << >>]
      /\ work' \in [Worker -> Seq(S!Item \cup {StopCommand})]
      /\ \A v \in Worker : Len(work'[v]) <= 1
      /\ \A v \in Worker : v # w => work'[v] = work[v]
      /\ work'[w] = << >>
  <2>1. work' = [work EXCEPT ![w] = << >>]
    BY <1>0, <1>1, <1>2
  <2>2. << >> \in Seq(S!Item \cup {StopCommand}) /\ Len(<< >>) = 0
    OBVIOUS
  <2> QED BY <1>2, <2>1, <2>2
<1>4. Placed' /\ Held' = Held /\ Unmoved
  <2>1. \A v \in Worker : Commanded(work'[v]) = Commanded(work[v])
    BY <1>1, <1>3, NoneIn
  <2>2. \A v \in Worker : Waiting(v)' <=> Waiting(v)
    BY <1>1, <1>3 DEF Waiting
  <2> QED BY <1>0, <2>1, <2>2, StopMoves DEF CInv
<1>5. UNCHANGED (S!vars)
  BY <1>0, <1>4, Unseen
<1>6. P!IInv'
  BY <1>5, SchedulerKeeps DEF CInv
<1>7. CTypeOK'
  <2>1. SchedulerTypes'
    BY <1>0, <1>3, TypesAre DEF CInv, SchedulerTypes
  <2>2. MasterTypes'
    BY <1>0, <1>3, TypesAre DEF CInv, MasterTypes
  <2>3. ChannelTypes'
    BY <1>0, <1>3, TypesAre DEF CInv, ChannelTypes
  <2>4. TaskTypes'
    BY <1>0, <1>3, TypesAre DEF CInv, TaskTypes
  <2> QED BY <2>1, <2>2, <2>3, <2>4, TypesAre, PTL
<1>8. ~Coordinating /\ result # "running"
  BY <1>0, <1>1 DEF CInv, Coordinated
<1>9. Coordinated' /\ Rested'
  BY <1>0, <1>8 DEF Coordinated, Rested, Coordinating
<1>10. tpc'[w] = "stopping" /\ \A v \in Worker : v # w => tpc'[v] = tpc[v]
  BY <1>0 DEF CInv, CTypeOK
<1>11. Tasked'
  BY <1>4, <1>10 DEF CInv, Tasked, Unmoved
<1>12. Closed'
  <2>1. \A v \in Worker : tpc[v] = "ok" => tpc'[v] = "ok"
    BY <1>0, <1>10
  <2>2. closing \in Worker => \A v \in 0..(closing - 1) : v \in Worker
    BY PoolAssumption DEF Worker
  <2> QED BY <1>0, <2>1, <2>2 DEF CInv, Closed
<1> QED BY <1>4, <1>5, <1>6, <1>7, <1>9, <1>11, <1>12 DEF CInv

-----------------------------------------------------------------------------
(* Steps that move an item from one place of its worker to the next.       *)

(* What a queue of one record says.                                        *)
LEMMA OneRecord ==
  ASSUME CTypeOK
  PROVE  /\ handing # << >> =>
              /\ handing[1].worker \in Worker /\ handing[1].item \in S!Item
              /\ \A w : For(w, handing) =
                          IF handing[1].worker = w THEN {handing[1].item} ELSE {}
         /\ got # << >> =>
              /\ got[1].worker \in Worker /\ got[1].item \in S!Item /\ got[1] \in Result
              /\ \A w : For(w, got) = IF got[1].worker = w THEN {got[1].item} ELSE {}
<1>1. /\ handing \in Seq([worker : Worker, item : S!Item]) /\ Len(handing) <= 1
      /\ got \in Seq(Result) /\ Len(got) <= 1
  BY DEF CTypeOK
<1>2. handing # << >> =>
              /\ handing[1].worker \in Worker /\ handing[1].item \in S!Item
              /\ \A w : For(w, handing) =
                          IF handing[1].worker = w THEN {handing[1].item} ELSE {}
  <2> DEFINE R == [worker : Worker, item : S!Item]
  <2>1. handing \in Seq(R) /\ Len(handing) <= 1
    BY <1>1
  <2> HIDE DEF R
  <2>2. handing # << >> =>
              /\ handing[1] \in R
              /\ \A w : For(w, handing) =
                          IF handing[1].worker = w THEN {handing[1].item} ELSE {}
    BY <2>1, OneIn
  <2> QED BY <2>2 DEF R
<1>3. got # << >> =>
        /\ got[1] \in Result
        /\ \A w : For(w, got) = IF got[1].worker = w THEN {got[1].item} ELSE {}
  BY <1>1, OneIn
<1> QED BY <1>2, <1>3 DEF Result

(* What a queue made of one record has.                                    *)
LEMMA ForOne ==
  ASSUME NEW e, NEW w
  PROVE  For(w, <<e>>) = IF e.worker = w THEN {e.item} ELSE {}
<1>1. /\ Len(<<e>>) = 1 /\ <<e>>[1] = e
  OBVIOUS
<1>2. 1..Len(<<e>>) = {1}
  BY <1>1
<1> QED BY <1>1, <1>2 DEF For

(* The channel takes the item that dispatch_available sends.               *)
LEMMA SendWorkKeeps ==
  ASSUME CInv, SendWork
  PROVE  CInv' /\ UNCHANGED (S!vars)
<1>0. handing # << >> /\ Coordinating /\ cpc = "send"
  BY DEF CInv, SendWork, Coordinated, Coordinating
<1>1. PICK w \in Worker, x \in S!Item : w = handing[1].worker /\ x = handing[1].item
  BY <1>0, OneRecord DEF CInv
<1>2. /\ x # StopCommand
      /\ \A v : For(v, handing) = IF w = v THEN {x} ELSE {}
  BY <1>0, <1>1, OneRecord, ItemsAre DEF CInv
<1>3. /\ UNCHANGED <<item, results, got, todo, active, error, delivered, outbox, idle, offers,
                     result, closing, returned, tpc, good, spent, cancel>>
      /\ cpc' = "dispatch" /\ handing' = << >>
      /\ Len(work[w]) < 1 /\ work' = [work EXCEPT ![w] = Append(@, x)]
  BY <1>1 DEF SendWork, schedulerVars, eventVars, runVars, taskVars
<1>4. work[w] = << >>
  BY <1>3, OneCommand DEF CInv
<1>5. /\ work' = [work EXCEPT ![w] = <<x>>]
      /\ <<x>> \in Seq(S!Item \cup {StopCommand})
  BY <1>2, <1>3, <1>4
<1>6. /\ work' \in [Worker -> Seq(S!Item \cup {StopCommand})]
      /\ \A v \in Worker : Len(work'[v]) <= 1
      /\ work'[w] = <<x>>
      /\ \A v \in Worker : v # w => work'[v] = work[v]
  <2> DEFINE sent == <<x>>
             Command == S!Item \cup {StopCommand}
  <2>1. work \in [Worker -> Seq(Command)] /\ (\A v \in Worker : Len(work[v]) <= 1)
        /\ sent \in Seq(Command) /\ Len(sent) <= 1 /\ work' = [work EXCEPT ![w] = sent]
    BY <1>5, Alone DEF CInv, CTypeOK
  <2> HIDE DEF sent, Command
  <2>2. /\ work' \in [Worker -> Seq(Command)]
        /\ \A v \in Worker : Len(work'[v]) <= 1
        /\ work'[w] = sent
        /\ \A v \in Worker : v # w => work'[v] = work[v]
    BY <2>1
  <2> QED BY <2>2 DEF sent, Command
<1>7. /\ work'[w] # << >> /\ work'[w][1] = x /\ Commanded(work'[w]) = {x}
      /\ Commanded(work[w]) = {}
  BY <1>2, <1>4, <1>6, Alone, NoneIn DEF Commanded
<1>8. Held' = Held
  <2>1. \A v \in Worker : Places(v)' = Places(v)
    BY <1>2, <1>3, <1>6, <1>7, NoneIn DEF Places
  <2> QED BY <2>1, HeldSame
<1>9. /\ Handed(w) /\ ~Waiting(w) /\ ~Handed(w)' /\ Waiting(w)'
      /\ \A v \in Worker : v # w =>
           /\ Handed(v)' <=> Handed(v)
           /\ Waiting(v)' <=> Waiting(v)
      /\ \A v \in Worker :
           /\ Doing(v)' <=> Doing(v)
           /\ Answered(v)' <=> Answered(v)
           /\ Coming(v)' <=> Coming(v)
  <2>1. Handed(w) /\ ~Waiting(w) /\ Waiting(w)' /\ \A v \in Worker : v # w => ~Handed(v)
    BY <1>0, <1>1, <1>4, <1>7, <1>2 DEF Handed, Waiting
  <2>2. \A v \in Worker : ~Handed(v)'
    BY <1>3 DEF Handed
  <2>3. \A v \in Worker : v # w => (Waiting(v)' <=> Waiting(v))
    BY <1>6 DEF Waiting
  <2> QED BY <1>3, <2>1, <2>2, <2>3 DEF Doing, Answered, From, Coming
<1>10. Placed'
  <2>1. Exclusive(w)'
    BY <1>9 DEF CInv, Placed, Exclusive
  <2>2. \A v \in Worker : v # w => Exclusive(v)'
    BY <1>9 DEF CInv, Placed, Exclusive
  <2>3. Apart(results)'
    BY <1>3 DEF CInv, Placed, Apart
  <2> QED BY <2>1, <2>2, <2>3 DEF Placed
<1>11. UNCHANGED (S!vars)
  BY <1>3, <1>8, Unseen
<1>12. P!IInv'
  BY <1>11, SchedulerKeeps DEF CInv
<1>13. CTypeOK'
  BY <1>3, <1>6 DEF CInv, CTypeOK
<1>14. Coordinated'
  <2>1. \A v \in Worker : work'[v] # << >> => work'[v][1] # StopCommand
    BY <1>0, <1>2, <1>6, <1>7 DEF CInv, Coordinated
  <2> QED BY <1>0, <1>3, <2>1 DEF CInv, Coordinated
<1>15. Rested'
  <2>1. Once(idle)' /\ \A v \in Worker : IsIdle(v)' <=> IsIdle(v)
    BY <1>0, <1>3 DEF CInv, Coordinated, Rested, IsIdle, Once, In
  <2> QED BY <1>0, <1>9, <2>1 DEF CInv, Coordinated, Rested
<1>16. Tasked'
  BY <1>3, <1>9 DEF CInv, Tasked
<1>17. Closed'
  BY <1>0, <1>3 DEF CInv, Closed, Coordinated
<1> QED BY <1>8, <1>10, <1>11, <1>12, <1>13, <1>14, <1>15, <1>16, <1>17 DEF CInv

(* A task takes the item out of its channel.                               *)
LEMMA TakeItemKeeps ==
  ASSUME CInv, NEW w \in Worker, Take(w), Head(work[w]) # StopCommand
  PROVE  CInv' /\ UNCHANGED (S!vars)
<1>0. /\ UNCHANGED <<handing, results, got, todo, active, error, delivered, outbox, cpc, idle,
                     offers, result, closing, returned, good, spent, cancel>>
      /\ tpc[w] = "recv" /\ work[w] # << >>
  BY DEF Take, MoveTo, masterVars, schedulerVars, dispatchVars, eventVars, runVars
<1>1. PICK x \in S!Item \cup {StopCommand} : x = work[w][1]
  BY <1>0, OneCommand DEF CInv
<1>2. /\ x \in S!Item /\ x # NoItem /\ x # StopCommand
      /\ Head(work[w]) = x /\ Tail(work[w]) = << >> /\ Commanded(work[w]) = {x}
  BY <1>0, <1>1, OneCommand, ItemsAre DEF CInv
<1>3. /\ item' = [item EXCEPT ![w] = x]
      /\ work' = [work EXCEPT ![w] = << >>]
      /\ \/ tpc' = [tpc EXCEPT ![w] = "stopping"]
         \/ tpc' = [tpc EXCEPT ![w] = "evaluating"]
  <2>1. item' = [item EXCEPT ![w] = x]
    BY <1>2 DEF Take
  <2>2. work' = [work EXCEPT ![w] = << >>]
    BY <1>2 DEF Take
  <2>3. tpc' = [tpc EXCEPT ![w] = "stopping"] \/ tpc' = [tpc EXCEPT ![w] = "evaluating"]
    BY DEF Take, MoveTo
  <2> QED BY <2>1, <2>2, <2>3
<1>4. /\ work' \in [Worker -> Seq(S!Item \cup {StopCommand})]
      /\ \A v \in Worker : Len(work'[v]) <= 1
      /\ work'[w] = << >>
      /\ \A v \in Worker : v # w => work'[v] = work[v]
  <2>1. /\ work \in [Worker -> Seq(S!Item \cup {StopCommand})]
        /\ \A v \in Worker : Len(work[v]) <= 1
    BY DEF CInv, CTypeOK
  <2>2. << >> \in Seq(S!Item \cup {StopCommand}) /\ Len(<< >>) = 0
    OBVIOUS
  <2> QED BY <1>3, <2>1, <2>2
<1>5. /\ item' \in [Worker -> S!Item \cup {NoItem}] /\ item[w] = NoItem
      /\ item'[w] = x /\ \A v \in Worker : v # w => item'[v] = item[v]
      /\ tpc'[w] \in {"stopping", "evaluating"} /\ \A v \in Worker : v # w => tpc'[v] = tpc[v]
  BY <1>0, <1>2, <1>3 DEF CInv, CTypeOK, Tasked, Doing
<1>6. Held' = Held
  <2>1. \A v \in Worker : v # w => Places(v)' = Places(v)
    BY <1>0, <1>4, <1>5 DEF Places
  <2>2. Places(w)' = Places(w)
    BY <1>0, <1>2, <1>4, <1>5, NoneIn DEF Places
  <2> QED BY <2>1, <2>2, HeldSame
<1>7. /\ Waiting(w) /\ ~Doing(w) /\ ~Waiting(w)' /\ Doing(w)'
      /\ \A v \in Worker : v # w =>
           /\ Waiting(v)' <=> Waiting(v)
           /\ Doing(v)' <=> Doing(v)
      /\ \A v \in Worker :
           /\ Handed(v)' <=> Handed(v)
           /\ Answered(v)' <=> Answered(v)
           /\ Coming(v)' <=> Coming(v)
  <2>1. Waiting(w) /\ ~Doing(w) /\ ~Waiting(w)' /\ Doing(w)'
    BY <1>0, <1>1, <1>2, <1>4, <1>5 DEF Waiting, Doing
  <2>2. \A v \in Worker : v # w => (Waiting(v)' <=> Waiting(v)) /\ (Doing(v)' <=> Doing(v))
    BY <1>4, <1>5 DEF Waiting, Doing
  <2> QED BY <1>0, <2>1, <2>2 DEF Handed, Answered, From, Coming
<1>8. Placed'
  <2>1. Exclusive(w)'
    BY <1>7 DEF CInv, Placed, Exclusive
  <2>2. \A v \in Worker : v # w => Exclusive(v)'
    BY <1>7 DEF CInv, Placed, Exclusive
  <2>3. Apart(results)'
    BY <1>0 DEF CInv, Placed, Apart
  <2> QED BY <2>1, <2>2, <2>3 DEF Placed
<1>9. UNCHANGED (S!vars)
  BY <1>0, <1>6, Unseen
<1>10. P!IInv'
  BY <1>9, SchedulerKeeps DEF CInv
<1>11. CTypeOK'
  <2>1. tpc' \in [Worker -> {"connecting", "recv", "evaluating", "sending",
                             "stopping", "ok", "err", "panicked"}]
    BY <1>3 DEF CInv, CTypeOK
  <2> QED BY <1>0, <1>4, <1>5, <2>1 DEF CInv, CTypeOK
<1>12. Coordinated'
  BY <1>0, <1>4 DEF CInv, Coordinated, Coordinating
<1>13. Rested'
  <2>1. Once(idle)' <=> Once(idle)
    BY <1>0 DEF Once
  <2>2. \A v \in Worker : IsIdle(v)' <=> IsIdle(v)
    BY <1>0 DEF IsIdle, In
  <2> QED BY <1>0, <1>7, <2>1, <2>2 DEF CInv, Rested, Coordinating
<1>14. Tasked'
  BY <1>5, <1>7 DEF CInv, Tasked
<1>15. Closed'
  <2>1. \A v \in Worker : tpc[v] = "ok" => tpc'[v] = "ok"
    BY <1>0, <1>5
  <2>2. closing \in Worker => \A v \in 0..(closing - 1) : v \in Worker
    BY PoolAssumption DEF Worker
  <2> QED BY <1>0, <2>1, <2>2 DEF CInv, Closed
<1> QED BY <1>8, <1>9, <1>10, <1>11, <1>12, <1>13, <1>14, <1>15 DEF CInv

(* It sends the result, or finds the receiver gone.                        *)
LEMMA SendResultKeeps ==
  ASSUME CInv, NEW w \in Worker, SendResult(w)
  PROVE  CInv' /\ UNCHANGED (S!vars)
<1>0. /\ UNCHANGED <<handing, work, got, todo, active, error, delivered, outbox, cpc, idle,
                     offers, result, closing, returned, good, spent, cancel>>
      /\ tpc[w] = "sending"
  BY DEF SendResult, masterVars, schedulerVars, dispatchVars, eventVars, runVars
<1>1. Doing(w) /\ item[w] \in S!Item
  BY <1>0 DEF CInv, CTypeOK, Tasked, Doing
<1>2. \/ tpc' = [tpc EXCEPT ![w] = "stopping"] /\ UNCHANGED <<item, results>>
      \/ /\ results' = Append(results, [worker |-> w, item |-> item[w], ok |-> good[w]])
         /\ tpc' = [tpc EXCEPT ![w] = "recv"]
         /\ item' = [item EXCEPT ![w] = NoItem]
  BY DEF SendResult, MoveTo
<1>3. /\ tpc' \in [Worker -> {"connecting", "recv", "evaluating", "sending",
                              "stopping", "ok", "err", "panicked"}]
      /\ tpc'[w] \in {"recv", "stopping"} /\ \A v \in Worker : v # w => tpc'[v] = tpc[v]
  BY <1>2 DEF CInv, CTypeOK
<1>4. Closed'
  <2>1. \A v \in Worker : tpc[v] = "ok" => tpc'[v] = "ok"
    BY <1>0, <1>3
  <2>2. closing \in Worker => \A v \in 0..(closing - 1) : v \in Worker
    BY PoolAssumption DEF Worker
  <2> QED BY <1>0, <2>1, <2>2 DEF CInv, Closed
<1>5. Once(idle)' <=> Once(idle)
  BY <1>0 DEF Once
<1>6. \A v \in Worker : IsIdle(v)' <=> IsIdle(v)
  BY <1>0 DEF IsIdle, In
<1>7. Coordinated'
  BY <1>0 DEF CInv, Coordinated, Coordinating
<1>8. CASE tpc' = [tpc EXCEPT ![w] = "stopping"] /\ UNCHANGED <<item, results>>
  <2>1. Placed' /\ Held' = Held /\ Unmoved
    BY <1>0, <1>8, NothingMoves DEF CInv
  <2>2. UNCHANGED (S!vars)
    BY <1>0, <2>1, Unseen
  <2>3. P!IInv'
    BY <2>2, SchedulerKeeps DEF CInv
  <2>4. CTypeOK'
    <3>1. SchedulerTypes'
      BY <1>0, <1>3, <1>8, TypesAre DEF CInv, SchedulerTypes
    <3>2. MasterTypes'
      BY <1>0, <1>3, <1>8, TypesAre DEF CInv, MasterTypes
    <3>3. ChannelTypes'
      BY <1>0, <1>3, <1>8, TypesAre DEF CInv, ChannelTypes
    <3>4. TaskTypes'
      BY <1>0, <1>3, <1>8, TypesAre DEF CInv, TaskTypes
    <3> QED BY <3>1, <3>2, <3>3, <3>4, TypesAre, PTL
  <2>5. Rested'
    BY <1>0, <1>5, <1>6, <2>1 DEF CInv, Rested, Coordinating, Unmoved
  <2>6. tpc'[w] = "stopping"
    BY <1>8 DEF CInv, CTypeOK
  <2>7. Tasked'
    BY <1>3, <2>1, <2>6 DEF CInv, Tasked, Unmoved
  <2> QED BY <1>4, <1>7, <2>1, <2>2, <2>3, <2>4, <2>5, <2>7 DEF CInv
<1>9. CASE /\ results' = Append(results, [worker |-> w, item |-> item[w], ok |-> good[w]])
           /\ tpc' = [tpc EXCEPT ![w] = "recv"]
           /\ item' = [item EXCEPT ![w] = NoItem]
  <2>1. PICK r \in Result : r = [worker |-> w, item |-> item[w], ok |-> good[w]]
    BY <1>1 DEF CInv, CTypeOK, Result
  <2>2. /\ results \in Seq(Result) /\ results' = Append(results, r)
        /\ r.worker = w /\ r.item = item[w]
    BY <1>9, <2>1 DEF CInv, CTypeOK
  <2>3. Apart(results) /\ ~From(w, results)
    BY <1>1 DEF CInv, Placed, Exclusive, Answered
  <2>4. /\ Apart(results') /\ results' \in Seq(Result)
        /\ \A v : From(v, results') <=> From(v, results) \/ v = w
        /\ \A v : For(v, results') =
                    For(v, results) \cup (IF w = v THEN {item[w]} ELSE {})
    BY <2>2, <2>3, ApartAppend, ForAppend
  <2>5. /\ item' \in [Worker -> S!Item \cup {NoItem}] /\ item'[w] = NoItem
        /\ \A v \in Worker : v # w => item'[v] = item[v]
        /\ tpc'[w] = "recv"
    BY <1>9 DEF CInv, CTypeOK
  <2>6. Held' = Held
    <3>1. \A v \in Worker : Places(v)' = Places(v)
      BY <1>0, <1>1, <2>4, <2>5, ItemsAre DEF Places
    <3> QED BY <3>1, HeldSame
  <2>7. /\ ~Answered(w) /\ ~Doing(w)' /\ Answered(w)'
        /\ \A v \in Worker : v # w =>
             /\ Answered(v)' <=> Answered(v)
             /\ Doing(v)' <=> Doing(v)
        /\ \A v \in Worker :
             /\ Handed(v)' <=> Handed(v)
             /\ Waiting(v)' <=> Waiting(v)
             /\ Coming(v)' <=> Coming(v)
    <3>1. ~Doing(w)' /\ \A v \in Worker : v # w => (Doing(v)' <=> Doing(v))
      BY <2>5 DEF Doing
    <3>2. \A v : Answered(v)' <=> From(v, results')
      BY DEF Answered
    <3>3. /\ ~Answered(w) /\ Answered(w)'
          /\ \A v \in Worker : v # w => (Answered(v)' <=> Answered(v))
      BY <2>3, <2>4, <3>2 DEF Answered
    <3> QED BY <1>0, <3>1, <3>3 DEF Handed, Waiting, Coming
  <2>8. Placed'
    <3>1. Exclusive(w)'
      BY <1>1, <2>7 DEF CInv, Placed, Exclusive
    <3>2. \A v \in Worker : v # w => Exclusive(v)'
      BY <2>7 DEF CInv, Placed, Exclusive
    <3> QED BY <2>4, <3>1, <3>2 DEF Placed
  <2>9. UNCHANGED (S!vars)
    BY <1>0, <2>6, Unseen
  <2>10. P!IInv'
    BY <2>9, SchedulerKeeps DEF CInv
  <2>11. CTypeOK'
    <3>1. SchedulerTypes'
      BY <1>0, <1>3, <2>4, <2>5, TypesAre DEF CInv, SchedulerTypes
    <3>2. MasterTypes'
      BY <1>0, <1>3, <2>4, <2>5, TypesAre DEF CInv, MasterTypes
    <3>3. ChannelTypes'
      BY <1>0, <1>3, <2>4, <2>5, TypesAre DEF CInv, ChannelTypes
    <3>4. TaskTypes'
      BY <1>0, <1>3, <2>4, <2>5, TypesAre DEF CInv, TaskTypes
    <3> QED BY <3>1, <3>2, <3>3, <3>4, TypesAre, PTL
  <2>12. Rested'
    BY <1>0, <1>1, <1>5, <1>6, <2>7 DEF CInv, Rested, Coordinating
  <2>13. Tasked'
    BY <1>3, <2>5, <2>7 DEF CInv, Tasked
  <2> QED BY <1>4, <1>7, <2>8, <2>9, <2>10, <2>11, <2>12, <2>13 DEF CInv
<1> QED BY <1>2, <1>8, <1>9

(* coordinate takes a result out of the channel: its worker is idle again. *)
LEMMA ReceiveKeeps ==
  ASSUME CInv, Receive
  PROVE  CInv' /\ UNCHANGED (S!vars)
<1>0. /\ UNCHANGED <<handing, work, item, todo, active, error, delivered, outbox, offers,
                     result, closing, returned, tpc, good, spent, cancel>>
      /\ cpc = "recv" /\ cpc' = "handle" /\ Coordinating
      /\ results # << >> /\ results \in Seq(Result)
  BY DEF Receive, schedulerVars, runVars, taskVars, Coordinating, CInv, CTypeOK
<1>1. PICK r \in Result : r = Head(results)
  BY <1>0, TailIs
<1>2. PICK w \in Worker : w = r.worker
  BY DEF Result
<1>3. results' = Tail(results) /\ got' = <<r>> /\ idle' = Append(idle, w)
  BY <1>1, <1>2 DEF Receive
<1>4. got = << >> /\ Apart(results) /\ Once(idle) /\ idle \in Seq(Worker)
  BY <1>0 DEF CInv, CTypeOK, Coordinated, Rested, Placed
<1>5. /\ Apart(results') /\ From(w, results) /\ results' \in Seq(Result)
      /\ \A v : From(v, results') <=> From(v, results) /\ v # w
      /\ \A v : For(v, results) = For(v, results') \cup (IF w = v THEN {r.item} ELSE {})
  BY <1>0, <1>1, <1>2, <1>3, <1>4, ApartTail, ForTail, TailIs
<1>6. /\ got' \in Seq(Result) /\ Len(got') <= 1
      /\ \A v : For(v, got') = IF w = v THEN {r.item} ELSE {}
  <2>1. got' \in Seq(Result) /\ Len(got') = 1 /\ got' # << >> /\ got'[1] = r
    BY <1>3
  <2>2. \A v : For(v, got') = IF w = v THEN {r.item} ELSE {}
    BY <1>2, <1>3, ForOne
  <2> QED BY <2>1, <2>2
<1>7. ~IsIdle(w)
  BY <1>0, <1>5 DEF CInv, Coordinated, Rested, Answered
<1>8. /\ Once(idle') /\ idle' \in Seq(Worker) /\ Len(idle') = Len(idle) + 1 /\ Len(idle) \in Nat
      /\ \A v : In(v, idle') <=> In(v, idle) \/ v = w
  BY <1>3, <1>4, <1>7, OnceAppend DEF IsIdle
<1>9. Held' = Held
  <2>1. \A v \in Worker : Places(v)' = Places(v)
    BY <1>0, <1>4, <1>5, <1>6, NoneIn DEF Places
  <2> QED BY <2>1, HeldSame
<1>10. /\ Answered(w) /\ ~Answered(w)' /\ Coming(w)' /\ \A v \in Worker : ~Coming(v)
       /\ \A v \in Worker : v # w => (Answered(v)' <=> Answered(v)) /\ ~Coming(v)'
       /\ \A v \in Worker :
            /\ Handed(v)' <=> Handed(v)
            /\ Waiting(v)' <=> Waiting(v)
            /\ Doing(v)' <=> Doing(v)
  <2>1. \A v : Answered(v)' <=> From(v, results')
    BY DEF Answered
  <2>2. /\ Answered(w) /\ ~Answered(w)'
        /\ \A v \in Worker : v # w => (Answered(v)' <=> Answered(v))
    BY <1>5, <2>1 DEF Answered
  <2>3. Coming(w)' /\ (\A v \in Worker : ~Coming(v)) /\ \A v \in Worker : v # w => ~Coming(v)'
    BY <1>2, <1>3, <1>4, Alone DEF Coming
  <2> QED BY <1>0, <2>2, <2>3 DEF Handed, Waiting, Doing
<1>11. Placed'
  <2>1. Exclusive(w)'
    BY <1>10 DEF CInv, Placed, Exclusive
  <2>2. \A v \in Worker : v # w => Exclusive(v)'
    BY <1>10 DEF CInv, Placed, Exclusive
  <2> QED BY <1>5, <2>1, <2>2 DEF Placed
<1>12. UNCHANGED (S!vars)
  BY <1>0, <1>9, Unseen
<1>13. P!IInv'
  BY <1>12, SchedulerKeeps DEF CInv
<1>14. CTypeOK'
  <2>1. SchedulerTypes'
    BY <1>0, <1>5, <1>6, <1>8, TypesAre DEF CInv, SchedulerTypes
  <2>2. MasterTypes'
    BY <1>0, <1>5, <1>6, <1>8, TypesAre DEF CInv, MasterTypes
  <2>3. ChannelTypes'
    BY <1>0, <1>5, <1>6, <1>8, TypesAre DEF CInv, ChannelTypes
  <2>4. TaskTypes'
    BY <1>0, <1>5, <1>6, <1>8, TypesAre DEF CInv, TaskTypes
  <2> QED BY <2>1, <2>2, <2>3, <2>4, TypesAre, PTL
<1>15. Coordinated'
  <2>1. got' # << >>
    BY <1>3, Alone
  <2> QED BY <1>0, <2>1 DEF CInv, Coordinated
<1>16. Rested'
  <2>1. \A v \in Worker : IsIdle(v)' <=> IsIdle(v) \/ v = w
    BY <1>8 DEF IsIdle
  <2>2. ~Handed(w) /\ ~Waiting(w) /\ ~Doing(w)
    BY <1>10 DEF CInv, Placed, Exclusive
  <2> QED BY <1>0, <1>8, <1>10, <2>1, <2>2 DEF CInv, Rested
<1>17. Tasked'
  BY <1>0, <1>10 DEF CInv, Tasked
<1>18. Closed'
  BY <1>0 DEF CInv, Closed, Coordinated
<1> QED BY <1>11, <1>12, <1>13, <1>14, <1>15, <1>16, <1>17, <1>18 DEF CInv

-----------------------------------------------------------------------------
(* Steps of the scheduler.                                                 *)

(* What is in no place is not in the places' contents.                     *)
LEMMA PlacesAre ==
  ASSUME CTypeOK, NEW w \in Worker
  PROVE  /\ ~Handed(w) => For(w, handing) = {}
         /\ ~Waiting(w) => Commanded(work[w]) = {}
         /\ ~Doing(w) => {item[w]} \ {NoItem} = {}
         /\ ~Answered(w) => For(w, results) = {}
         /\ ~Coming(w) => For(w, got) = {}
<1>1. ~Handed(w) => For(w, handing) = {}
  BY OneRecord, NoneIn DEF Handed
<1>2. ~Waiting(w) => Commanded(work[w]) = {}
  BY OneCommand, NoneIn DEF Waiting
<1>3. ~Answered(w) => For(w, results) = {}
  BY ForIs DEF Answered, From
<1>4. ~Coming(w) => For(w, got) = {}
  BY OneRecord, NoneIn DEF Coming
<1> QED BY <1>1, <1>2, <1>3, <1>4 DEF Doing

(* dispatch_available takes an item for a worker: Scheduler's Dispatch.    *)
LEMMA OfferItemKeeps ==
  ASSUME CInv, NEW w \in Worker, OfferItem(w)
  PROVE  CInv' /\ S!Dispatch(w)
<1>0. /\ UNCHANGED <<error, got, delivered, outbox, result, closing, returned, tpc, item, good,
                     spent, work, results, cancel>>
      /\ cpc = "dispatch" /\ error = "none" /\ offers > 0 /\ w = Head(idle) /\ cpc' = "send"
      /\ active' = active + 1 /\ idle' = Tail(idle) /\ offers' = offers - 1 /\ Coordinating
  BY DEF OfferItem, Offering, eventVars, runVars, taskVars, channelVars, Coordinating
<1>1. PICK i \in 1..Len(todo) :
        /\ S!FirstFor(w, i)
        /\ handing' = <<[worker |-> w, item |-> todo[i]]>>
        /\ todo' = S!RemoveIndex(todo, i)
  BY DEF OfferItem
<1>2. PICK x \in S!Item : x = todo[i]
  BY DEF CInv, CTypeOK
<1>3. /\ handing = << >> /\ got = << >> /\ result = "running"
      /\ idle \in Seq(Worker) /\ idle # << >> /\ Once(idle)
      /\ offers \in 0..Len(idle)
  BY <1>0 DEF CInv, CTypeOK, Coordinated, Rested
<1>4. /\ Once(idle') /\ IsIdle(w) /\ idle' \in Seq(Worker) /\ Len(idle') = Len(idle) - 1
      /\ \A v : In(v, idle') <=> In(v, idle) /\ v # w
      /\ Len(idle) \in Nat
  BY <1>0, <1>3, OnceTail, TailIs DEF IsIdle
<1>5. /\ ~Handed(w) /\ ~Waiting(w) /\ ~Doing(w) /\ ~Answered(w)
      /\ \A v \in Worker : ~Handed(v) /\ ~Coming(v)
  BY <1>0, <1>3, <1>4 DEF CInv, Rested, Handed, Coming
<1>6. /\ handing' \in Seq([worker : Worker, item : S!Item]) /\ Len(handing') = 1
      /\ handing' # << >> /\ handing'[1].worker = w
      /\ \A v : For(v, handing') = IF w = v THEN {x} ELSE {}
  <2> DEFINE R == [worker : Worker, item : S!Item]
             h == [worker |-> w, item |-> x]
  <2>1. h \in R /\ handing' = <<h>> /\ h.worker = w /\ h.item = x
    BY <1>1, <1>2
  <2> HIDE DEF R, h
  <2>2. handing' \in Seq(R) /\ Len(handing') = 1 /\ handing' # << >> /\ handing'[1] = h
    BY <2>1
  <2>3. \A v : For(v, handing') = IF w = v THEN {x} ELSE {}
    BY <2>1, ForOne
  <2> QED BY <2>1, <2>2, <2>3 DEF R
<1>7. Held[w] = NoItem /\ Held' = [Held EXCEPT ![w] = x]
  <2>1. Places(w) = {} /\ Places(w)' = {x}
    BY <1>0, <1>5, <1>6, PlacesAre DEF CInv, Places
  <2>2. \A v \in Worker \ {w} : Places(v)' = Places(v)
    BY <1>0, <1>3, <1>6, NoneIn DEF Places
  <2> QED BY <2>1, <2>2, HeldIs, HeldNext
<1>8. S!Dispatch(w)
  <2>1. Verdict = "running" /\ UNCHANGED <<error, Emitted, Verdict>>
    BY <1>0, <1>3 DEF Verdict, Emitted
  <2> QED BY <1>0, <1>1, <1>2, <1>7, <2>1 DEF S!Dispatch
<1>9. [S!Next]_(S!vars)
  BY <1>8, SameGraph DEF S!Next
<1>10. /\ P!IInv'
       /\ todo' \in Seq(S!Item) /\ active' \in Nat
  BY <1>9, SchedulerKeeps DEF CInv
<1>11. /\ Handed(w)' /\ \A v \in Worker : v # w => ~Handed(v)'
       /\ \A v \in Worker :
            /\ Waiting(v)' <=> Waiting(v)
            /\ Doing(v)' <=> Doing(v)
            /\ Answered(v)' <=> Answered(v)
            /\ ~Coming(v)'
  BY <1>0, <1>3, <1>6 DEF Handed, Waiting, Doing, Answered, From, Coming
<1>12. Placed'
  <2>1. Exclusive(w)'
    BY <1>5, <1>11 DEF Exclusive
  <2>2. \A v \in Worker : v # w => Exclusive(v)'
    BY <1>11 DEF CInv, Placed, Exclusive
  <2>3. Apart(results)'
    BY <1>0 DEF CInv, Placed, Apart
  <2> QED BY <2>1, <2>2, <2>3 DEF Placed
<1>13. CTypeOK'
  <2>1. SchedulerTypes'
    BY <1>0, <1>3, <1>4, <1>6, <1>10, TypesAre DEF CInv, SchedulerTypes
  <2>2. MasterTypes'
    BY <1>0, <1>3, <1>4, <1>6, <1>10, TypesAre DEF CInv, MasterTypes
  <2>3. ChannelTypes'
    BY <1>0, <1>3, <1>4, <1>6, <1>10, TypesAre DEF CInv, ChannelTypes
  <2>4. TaskTypes'
    BY <1>0, <1>3, <1>4, <1>6, <1>10, TypesAre DEF CInv, TaskTypes
  <2> QED BY <2>1, <2>2, <2>3, <2>4, TypesAre, PTL
<1>14. Coordinated'
  BY <1>0, <1>3, <1>6 DEF CInv, Coordinated
<1>15. Rested'
  <2>1. \A v \in Worker : IsIdle(v)' <=> IsIdle(v) /\ v # w
    BY <1>4 DEF IsIdle
  <2> QED BY <1>0, <1>4, <1>5, <1>11, <2>1 DEF CInv, Rested
<1>16. Tasked'
  BY <1>0, <1>11 DEF CInv, Tasked
<1>17. Closed'
  BY <1>0 DEF CInv, Closed, Coordinated
<1> QED BY <1>8, <1>10, <1>12, <1>13, <1>14, <1>15, <1>16, <1>17 DEF CInv

(* An answer is of one kind.                                               *)
LEMMA OneKind ==
  ASSUME NEW p \in Tree
  PROVE  \/ IsAttrSet(p) /\ ~IsError(p) /\ ~IsDerivation(p)
         \/ IsError(p) /\ ~IsAttrSet(p) /\ ~IsDerivation(p)
         \/ IsDerivation(p) /\ ~IsAttrSet(p) /\ ~IsError(p)
BY GraphAssumption
DEF AnswerAssumption, Event, AttrSetEvent, DerivationEvent, ErrorEvent, IsAttrSet, IsError,
    IsDerivation

(* complete(item, event): Scheduler's Complete, by the worker that was     *)
(* handed the item.                                                        *)
LEMMA HandleCompletes ==
  ASSUME CInv, Handle
  PROVE  \E w \in Worker :
           /\ S!Complete(w)
           /\ Coming(w) /\ Held' = [Held EXCEPT ![w] = NoItem]
<1>0. cpc = "handle" /\ Coordinating /\ got # << >> /\ outbox = << >> /\ error = "none"
      /\ Verdict = "running" /\ result' = result /\ delivered' = delivered
      /\ UNCHANGED <<handing, work, item, results>>
  BY DEF Handle, CInv, Coordinated, Coordinating, Verdict, runVars, dispatchVars, taskVars,
         channelVars
<1>1. PICK w \in Worker, x \in S!Item : w = got[1].worker /\ x = got[1].item
  BY <1>0, OneRecord DEF CInv
<1>2. /\ Coming(w) /\ ~Handed(w) /\ ~Waiting(w) /\ ~Doing(w) /\ ~Answered(w)
      /\ \A v : For(v, got) = IF w = v THEN {x} ELSE {}
      /\ got' = << >> /\ x \in S!Item /\ x # NoItem /\ x.path \in Tree
  <2>1. Coming(w)
    BY <1>0, <1>1 DEF Coming
  <2>2. ~Handed(w) /\ ~Waiting(w) /\ ~Doing(w) /\ ~Answered(w)
    BY <2>1 DEF CInv, Placed, Exclusive
  <2>3. \A v : For(v, got) = IF w = v THEN {x} ELSE {}
    BY <1>0, <1>1, OneRecord DEF CInv
  <2>4. x # NoItem /\ x.path \in Tree
    BY ItemsAre, SameGraph
  <2>5. got' = << >>
    BY DEF Handle
  <2> QED BY <2>1, <2>2, <2>3, <2>4, <2>5
<1>3. Held[w] = x /\ Held' = [Held EXCEPT ![w] = NoItem]
  <2>1. Places(w) = {x} /\ Places(w)' = {}
    BY <1>0, <1>2, PlacesAre, NoneIn DEF CInv, Places
  <2>2. \A v \in Worker \ {w} : Places(v)' = Places(v)
    BY <1>0, <1>2, NoneIn DEF Places
  <2> QED BY <2>1, <2>2, HeldIs, HeldNext
<1>4. /\ active' = active - 1
      /\ outbox' = IF Kept(w, x) THEN <<x.path>> ELSE << >>
      /\ todo' = CASE IsAttrSet(x.path) -> todo \o S!ChildItems(x)
                   [] ~Kept(w, x) /\ ~S!Exhausted(S!Rejected(x, w)) ->
                        Append(todo, S!Rejected(x, w))
                   [] OTHER -> todo
      /\ error' = CASE IsError(x.path) /\ Answer[x.path].fatal -> "fatal"
                    [] ~Kept(w, x) /\ S!Exhausted(S!Rejected(x, w)) -> "unowned"
                    [] OTHER -> error
  BY <1>1 DEF Handle
<1>5. S!Finishing(w)
  BY <1>0, <1>2, <1>3, <1>4 DEF S!Finishing, Verdict
<1>6. /\ Kept(w, x) => S!Emit(x.path)
      /\ ~Kept(w, x) => Emitted' = Emitted
  <2>1. delivered \in [Tree -> Nat]
    BY DEF CInv, CTypeOK
  <2>2. Emitted = [p \in Tree |-> delivered[p]]
    <3>1. \A p : outbox # <<p>>
      BY <1>0
    <3>2. \A p \in Tree : delivered[p] + (IF outbox = <<p>> THEN 1 ELSE 0) = delivered[p]
      BY <2>1, <3>1
    <3> QED BY <3>2 DEF Emitted
  <2>3. CASE ~Kept(w, x)
    <3>1. outbox' = outbox
      BY <1>0, <1>4, <2>3
    <3> QED BY <1>0, <2>3, <3>1 DEF Emitted
  <2>4. CASE Kept(w, x)
    <3>1. \A p : outbox' = <<p>> <=> p = x.path
      BY <1>4, <2>4
    <3>2. \A p \in Tree : delivered'[p] + (IF outbox' = <<p>> THEN 1 ELSE 0) =
                            IF p = x.path THEN delivered[p] + 1 ELSE delivered[p]
      BY <1>0, <2>1, <3>1
    <3>3. Emitted' = [p \in Tree |-> IF p = x.path THEN delivered[p] + 1 ELSE delivered[p]]
      BY <3>2 DEF Emitted
    <3>4. Emitted' = [Emitted EXCEPT ![x.path] = @ + 1]
      BY <1>2, <2>1, <2>2, <3>3
    <3> QED BY <2>4, <3>4 DEF S!Emit
  <2> QED BY <2>3, <2>4
<1>7. S!Complete(w)
  <2>1. CASE IsAttrSet(x.path) /\ ~IsError(x.path) /\ ~IsDerivation(x.path)
    <3>1. Kept(w, x) /\ todo' = todo \o S!ChildItems(x) /\ error' = error
      BY <1>4, <2>1 DEF Kept
    <3>2. S!CompleteAttrSet(w)
      BY <1>3, <1>5, <1>6, <2>1, <3>1, SameGraph DEF S!CompleteAttrSet
    <3> QED BY <3>2 DEF S!Complete
  <2>2. CASE IsError(x.path) /\ ~IsAttrSet(x.path) /\ ~IsDerivation(x.path)
    <3>1. /\ Kept(w, x) /\ todo' = todo
          /\ error' = IF Answer[x.path].fatal THEN "fatal" ELSE error
      BY <1>4, <2>2 DEF Kept
    <3>2. S!CompleteError(w)
      BY <1>3, <1>5, <1>6, <2>2, <3>1, SameGraph DEF S!CompleteError
    <3> QED BY <3>2 DEF S!Complete
  <2>3. CASE IsDerivation(x.path) /\ ~IsAttrSet(x.path) /\ ~IsError(x.path)
    <3>1. Kept(w, x) <=> S!Accepts(w, Answer[x.path].system)
      BY <2>3, SameGraph DEF Kept
    <3>2. CASE Kept(w, x)
      <4>1. todo' = todo /\ error' = error
        BY <1>4, <2>3, <3>2
      <4>2. S!CompleteDerivation(w)
        BY <1>3, <1>5, <1>6, <2>3, <3>1, <3>2, <4>1, SameGraph DEF S!CompleteDerivation
      <4> QED BY <4>2 DEF S!Complete
    <3>3. CASE ~Kept(w, x)
      <4>1. IF S!Exhausted(S!Rejected(x, w))
              THEN error' = "unowned" /\ todo' = todo
              ELSE todo' = Append(todo, S!Rejected(x, w)) /\ error' = error
        BY <1>4, <2>3, <3>3
      <4>2. S!CompleteRejected(w)
        BY <1>3, <1>5, <1>6, <2>3, <3>1, <3>3, <4>1, SameGraph DEF S!CompleteRejected
      <4> QED BY <4>2 DEF S!Complete
    <3> QED BY <3>2, <3>3
  <2> QED BY <1>2, <2>1, <2>2, <2>3, OneKind
<1> QED BY <1>2, <1>3, <1>7

(* To handle a result keeps the invariant, and is a step of Scheduler: the *)
(* item leaves got, and goes where Scheduler's complete puts it.           *)
LEMMA HandleKeeps ==
  ASSUME CInv, Handle
  PROVE  CInv' /\ [S!Next]_(S!vars)
<1>0. /\ UNCHANGED <<handing, work, item, results, delivered, idle, offers, result, closing,
                     returned, tpc, good, spent, cancel>>
      /\ got' = << >> /\ cpc' = "deliver" /\ cpc = "handle" /\ Coordinating
  BY DEF Handle, runVars, dispatchVars, taskVars, channelVars, Coordinating
<1>1. [S!Next]_(S!vars)
  BY HandleCompletes, SameGraph DEF S!Next
<1>2. /\ P!IInv'
      /\ todo' \in Seq(S!Item) /\ active' \in Nat
      /\ error' \in {"none", "fatal", "unowned"}
  BY <1>1, SchedulerKeeps DEF CInv
<1>3. /\ \A v \in Worker :
            /\ Handed(v)' <=> Handed(v)
            /\ Waiting(v)' <=> Waiting(v)
            /\ Doing(v)' <=> Doing(v)
            /\ Answered(v)' <=> Answered(v)
            /\ ~Coming(v)'
      /\ Apart(results)' <=> Apart(results)
  BY <1>0 DEF Handed, Waiting, Doing, Answered, From, Coming, Apart
<1>4. Placed'
  BY <1>3 DEF CInv, Placed, Exclusive
<1>5. outbox' \in Seq(Tree) /\ Len(outbox') <= 1
  <2>1. got # << >>
    BY <1>0 DEF CInv, Coordinated
  <2>2. PICK p \in Tree : p = got[1].item.path
    BY <2>1, OneRecord, SameGraph DEF CInv
  <2>3. outbox' = <<p>> \/ outbox' = << >>
    BY <2>2 DEF Handle
  <2>4. <<p>> \in Seq(Tree) /\ Len(<<p>>) <= 1 /\ << >> \in Seq(Tree) /\ Len(<< >>) <= 1
    OBVIOUS
  <2> QED BY <2>3, <2>4
<1>6. CTypeOK'
  <2>1. got' \in Seq(Result) /\ Len(got') <= 1
    BY <1>0
  <2> QED BY <1>0, <1>2, <1>5, <2>1 DEF CInv, CTypeOK
<1>7. Coordinated'
  BY <1>0 DEF CInv, Coordinated
<1>8. Rested'
  BY <1>0, <1>3 DEF CInv, Rested, IsIdle, Once, In
<1>9. Tasked'
  BY <1>0, <1>3 DEF CInv, Tasked
<1>10. Closed'
  BY <1>0 DEF CInv, Closed, Coordinated
<1> QED BY <1>1, <1>2, <1>4, <1>6, <1>7, <1>8, <1>9, <1>10 DEF CInv

-----------------------------------------------------------------------------
(* The invariant holds at first,                                           *)
LEMMA CInvInit ==
  CInit => CInv /\ S!Init
<1> SUFFICES ASSUME CInit PROVE CInv /\ S!Init
  OBVIOUS
<1>0. N \in Nat /\ N > 0 /\ Worker = 0..(N - 1)
  BY PoolAssumption DEF Worker
<1>1. /\ \A w \in Worker :
            ~Handed(w) /\ ~Waiting(w) /\ ~Doing(w) /\ ~Answered(w) /\ ~Coming(w)
      /\ Apart(results)
  BY DEF CInit, Handed, Waiting, Doing, Answered, From, Coming, Apart
<1>2. Placed
  BY <1>1 DEF Placed, Exclusive
<1>3. /\ idle \in Seq(Worker) /\ Len(idle) = N /\ Once(idle)
      /\ \A w \in Worker : IsIdle(w)
  <2>1. /\ idle = [k \in 1..N |-> k - 1] /\ \A k \in 1..N : k - 1 \in Worker
    BY <1>0 DEF CInit
  <2>2. idle \in Seq(Worker) /\ Len(idle) = N
    BY <1>0, <2>1
  <2>3. Once(idle)
    BY <1>0, <2>1, <2>2 DEF Once
  <2>4. \A w \in Worker : w + 1 \in 1..Len(idle) /\ idle[w + 1] = w
    BY <1>0, <2>1, <2>2
  <2> QED BY <2>2, <2>3, <2>4 DEF IsIdle, In
<1>4. Held = [w \in Worker |-> NoItem]
  <2>1. \A w \in Worker : Places(w) = {}
    BY NoneIn DEF CInit, Places
  <2>2. \A w \in Worker : Held[w] = NoItem
    BY <2>1, HeldIs
  <2> QED BY <2>2 DEF Held
<1>5. S!Init
  <2>1. Emitted = [p \in Tree |-> 0]
    BY DEF CInit, Emitted
  <2>2. Verdict = "running"
    BY DEF CInit, Verdict
  <2> QED BY <1>4, <2>1, <2>2, SameGraph DEF CInit, S!Init
<1>6. P!IInv
  <2>1. P!Init
    BY <1>5, SameScheduler
  <2> QED BY <2>1, P!InvInit, SameGraph, PoolAssumption, CommandAssumption DEF P!InvInit
<1>7. CTypeOK
  <2>1. todo \in Seq(S!Item)
    BY <1>6, SameGraph DEF P!IInv, P!TypeInv, P!TypeOK
  <2>2. /\ << >> \in Seq(S!Item \cup {StopCommand}) /\ Len(<< >>) = 0
        /\ << >> \in Seq([worker : Worker, item : S!Item]) /\ << >> \in Seq(Result)
        /\ << >> \in Seq(Tree)
    OBVIOUS
  <2>3. /\ work \in [Worker -> Seq(S!Item \cup {StopCommand})]
        /\ \A w \in Worker : Len(work[w]) <= 1
    BY <2>2 DEF CInit
  <2>4. /\ item \in [Worker -> S!Item \cup {NoItem}]
        /\ good \in [Worker -> BOOLEAN] /\ spent \in [Worker -> BOOLEAN]
        /\ tpc \in [Worker -> {"connecting", "recv", "evaluating", "sending",
                               "stopping", "ok", "err", "panicked"}]
        /\ delivered \in [Tree -> Nat]
    BY DEF CInit
  <2>5. /\ active = 0 /\ offers = 0 /\ closing = 0 /\ cancel = FALSE /\ error = "none"
        /\ cpc = "top" /\ result = "running" /\ returned = "none"
        /\ handing = << >> /\ got = << >> /\ outbox = << >> /\ results = << >>
    BY DEF CInit
  <2>6. offers \in 0..Len(idle) /\ closing \in 0..N
    BY <1>0, <1>3, <2>5
  <2>7. /\ handing \in Seq([worker : Worker, item : S!Item]) /\ Len(handing) <= 1
        /\ got \in Seq(Result) /\ Len(got) <= 1 /\ results \in Seq(Result)
        /\ outbox \in Seq(Tree) /\ Len(outbox) <= 1
    BY <2>2, <2>5
  <2>8. /\ active \in Nat /\ cancel \in BOOLEAN /\ error \in {"none", "fatal", "unowned"}
        /\ cpc \in {"top", "dispatch", "send", "recv", "handle", "deliver",
                    "shutdown", "join", "returned", "dropped"}
        /\ result \in {"running", "complete", "failed", "cancelled", "broken"}
        /\ returned \in {"none", "ok", "err"}
    BY <2>5
  <2> QED BY <1>3, <2>1, <2>3, <2>4, <2>6, <2>7, <2>8 DEF CTypeOK
<1>8. Coordinated
  BY DEF CInit, Coordinated
<1>9. Rested
  BY <1>1, <1>3 DEF Rested
<1>10. Tasked
  BY <1>1 DEF CInit, Tasked
<1>11. Closed
  BY DEF CInit, Closed
<1> QED BY <1>2, <1>5, <1>6, <1>7, <1>8, <1>9, <1>10, <1>11 DEF CInv

(* and is kept by every step, which is one of Scheduler's or none.         *)
LEMMA CInvStep ==
  CInv /\ [CNext]_cvars => CInv' /\ [S!Next]_(S!vars)
<1> SUFFICES ASSUME CInv, [CNext]_cvars PROVE CInv' /\ [S!Next]_(S!vars)
  OBVIOUS
<1>1. CASE Coordinate
  <2>1. ASSUME NEW w \in Worker, OfferItem(w) PROVE CInv' /\ [S!Next]_(S!vars)
    BY <2>1, OfferItemKeeps, SameGraph DEF S!Next
  <2>2. ASSUME NEW w \in Worker, OfferEnds(w) \/ OfferWaits(w)
        PROVE  CInv' /\ [S!Next]_(S!vars)
    BY <2>2, OfferEndsKeeps, OfferWaitsKeeps
  <2> QED
    BY <1>1, <2>1, <2>2, TopKeeps, SendWorkKeeps, BreakKeeps, CheckKeeps, ReceiveKeeps,
       HandleKeeps, DeliverKeeps, SendStopKeeps, JoinKeeps
    DEF Coordinate
<1>2. ASSUME NEW w \in Worker, WorkerTask(w) PROVE CInv' /\ [S!Next]_(S!vars)
  BY <1>2, TaskKeeps, TakeStopKeeps, TakeItemKeeps, SendResultKeeps DEF WorkerTask
<1>3. CASE Cancel \/ DropRun
  BY <1>3, OutsideKeeps
<1>4. CASE UNCHANGED cvars
  <2>0. UNCHANGED <<todo, active, error, cpc, idle, offers, handing, got, outbox, result,
                    closing, returned, work, results, tpc, item, good, spent, cancel,
                    delivered>>
    BY <1>4 DEF cvars, masterVars, schedulerVars, dispatchVars, eventVars, runVars, taskVars,
                channelVars
  <2>1. Placed' /\ Held' = Held /\ Unmoved
    BY <2>0, NothingMoves DEF CInv
  <2>2. UNCHANGED (S!vars)
    BY <2>0, <2>1, Unseen
  <2>3. P!IInv'
    BY <2>2, SchedulerKeeps DEF CInv
  <2>4. CTypeOK' /\ Coordinated' /\ Closed'
    BY <2>0 DEF CInv, CTypeOK, Coordinated, Coordinating, Closed
  <2>5. Rested' /\ Tasked'
    BY <2>0, <2>1 DEF CInv, Rested, IsIdle, Tasked, Unmoved
  <2> QED BY <2>1, <2>2, <2>3, <2>4, <2>5 DEF CInv
<1> QED BY <1>1, <1>2, <1>3, <1>4 DEF CNext

-----------------------------------------------------------------------------
(* The theorems.                                                           *)

(* The inductive invariant holds of every run.                             *)
THEOREM CoordinatorInvariance == CSpec => []CInv
BY CInvInit, CInvStep, PTL DEF CSpec

(* Every variable of the coordinator, its tasks and its channels has its   *)
(* type.                                                                   *)
THEOREM CoordinatorTypes == CSpec => []CTypeOK
<1>1. CInv => CTypeOK
  BY DEF CInv
<1> QED BY <1>1, CoordinatorInvariance, PTL

(* The tasks and channels implement Scheduler: every step of theirs is a   *)
(* step of the scheduler, or one that it does not see.                     *)
THEOREM SchedulerImplemented == CSpec => ImplementsScheduler
<1>1. CInit => S!Init
  BY CInvInit
<1>2. CInv /\ [CNext]_cvars => [S!Next]_(S!vars)
  BY CInvStep
<1>3. CSpec => S!Spec
  BY <1>1, <1>2, CoordinatorInvariance, PTL DEF CSpec, S!Spec
<1> QED BY <1>3 DEF ImplementsScheduler

(* Fewer results are in their channel than there are workers, while one of *)
(* them has yet to send its own.                                           *)
LEMMA RoomForOne ==
  ASSUME CTypeOK, Apart(results), NEW w \in Worker, ~Answered(w)
  PROVE  Len(results) < N
<1>1. results \in Seq(Result) /\ Len(results) \in Nat
      /\ \A k \in 1..Len(results) : results[k].worker \in Worker \ {w}
  <2>1. results \in Seq(Result)
    BY DEF CTypeOK
  <2>2. Len(results) \in Nat /\ \A k \in 1..Len(results) : results[k] \in Result
    BY <2>1
  <2>3. \A k \in 1..Len(results) : results[k].worker \in Worker /\ results[k].worker # w
    BY <2>2 DEF Result, Answered, From
  <2> QED BY <2>1, <2>2, <2>3
<1>2. /\ IsFiniteSet(Worker) /\ Cardinality(Worker) = N /\ N \in Nat
  <2>1. N \in Nat /\ N > 0 /\ 0 \in Int /\ N - 1 \in Int
    BY PoolAssumption
  <2>2. /\ IsFiniteSet(0..(N - 1))
        /\ Cardinality(0..(N - 1)) = IF 0 > N - 1 THEN 0 ELSE (N - 1) - 0 + 1
    BY <2>1, FS_Interval, Zenon
  <2> QED BY <2>1, <2>2 DEF Worker
<1>3. IsFiniteSet(Worker \ {w}) /\ Cardinality(Worker \ {w}) = N - 1
  BY <1>2, FS_RemoveElement
<1>4. /\ IsFiniteSet(1..Len(results)) /\ Cardinality(1..Len(results)) = Len(results)
  <2>1. Len(results) \in Nat /\ 1 \in Int /\ Len(results) \in Int
    BY <1>1
  <2>2. /\ IsFiniteSet(1..Len(results))
        /\ Cardinality(1..Len(results)) =
              IF 1 > Len(results) THEN 0 ELSE Len(results) - 1 + 1
    BY <2>1, FS_Interval, Zenon
  <2> QED BY <2>1, <2>2
<1> DEFINE f == [k \in 1..Len(results) |-> results[k].worker]
<1>5. f \in Injection(1..Len(results), Worker \ {w})
  BY <1>1 DEF Injection, IsInjective, Apart
<1>6. Cardinality(1..Len(results)) <= Cardinality(Worker \ {w})
  BY <1>3, <1>5, FS_Injection, ZenonT(60)
<1> QED BY <1>1, <1>2, <1>3, <1>4, <1>6

(* Dispatching never waits on a full work channel, and a worker never      *)
(* waits to hand in its result.                                            *)
THEOREM ChannelsAreEnough == CSpec => []ChannelsSuffice
<1>1. CInv => ChannelsSuffice
  <2> SUFFICES ASSUME CInv PROVE ChannelsSuffice
    OBVIOUS
  <2>1. ASSUME cpc = "send" PROVE work[handing[1].worker] = << >>
    <3>1. handing # << >> /\ result = "running"
      BY <2>1 DEF CInv, Coordinated, Coordinating
    <3>2. PICK w \in Worker : w = handing[1].worker
      BY <3>1, OneRecord DEF CInv
    <3>3. Handed(w)
      BY <3>1, <3>2 DEF Handed
    <3>4. ~Waiting(w)
      BY <3>3 DEF CInv, Placed, Exclusive
    <3> QED BY <3>1, <3>2, <3>4 DEF Waiting, CInv, Coordinated
  <2>2. ASSUME NEW w \in Worker, tpc[w] = "sending" PROVE Len(results) < ResultCapacity
    <3>1. Doing(w)
      BY <2>2 DEF CInv, Tasked
    <3>2. Apart(results) /\ ~Answered(w)
      BY <3>1 DEF CInv, Placed, Exclusive
    <3> QED BY <3>2, RoomForOne DEF CInv, ResultCapacity
  <2> QED BY <2>1, <2>2 DEF ChannelsSuffice
<1> QED BY <1>1, CoordinatorInvariance, PTL

(* Once a run has returned Ok without being cancelled, on_event has        *)
(* accepted the event of every reachable attribute once and no other, and  *)
(* every worker task has ended cleanly.                                    *)
THEOREM OkIsAll == CSpec => []OkMeansAll
<1>1. CInv => OkMeansAll
  <2> SUFFICES ASSUME CInv, returned = "ok" PROVE OkMeansAll
    BY DEF OkMeansAll
  <2>1. /\ result \in {"complete", "cancelled"} /\ \A w \in Worker : tpc[w] = "ok"
        /\ result = "complete" => outbox = << >>
        /\ result = "cancelled" => cancel
    BY DEF CInv, Closed
  <2>2. ASSUME ~cancel, NEW p \in Tree
        PROVE  delivered[p] = IF p \in Reachable THEN 1 ELSE 0
    <3>1. result = "complete" /\ outbox = << >> /\ Verdict = "complete"
      BY <2>1, <2>2 DEF Verdict
    <3>2. P!IInv /\ P!IsDone /\ error = "none"
      BY <3>1 DEF CInv, P!IInv, P!VerdictSound
    <3>3. \A q \in Tree : Emitted[q] = IF q \in P!Reachable THEN 1 ELSE 0
      BY <3>2, P!DoneMeansAll, SameGraph, PoolAssumption, CommandAssumption
      DEF P!DoneMeansAll
    <3>4. P!Reachable = Reachable
      BY DEF P!Reachable, Reachable, P!ClosedUnderChildren, ClosedUnderChildren, P!Children,
             Children, P!Root, Root, P!IsAttrSet, IsAttrSet
    <3>5. delivered \in [Tree -> Nat] /\ outbox # <<p>>
      BY <3>1 DEF CInv, CTypeOK
    <3>6. Emitted[p] = delivered[p] + 0 /\ delivered[p] \in Nat
      BY <3>5 DEF Emitted
    <3> QED BY <3>3, <3>4, <3>6
  <2> QED BY <2>1, <2>2 DEF OkMeansAll
<1> QED BY <1>1, CoordinatorInvariance, PTL

(* While coordinate runs, each worker is in the idle queue once or has one *)
(* item under way, never both and never neither.                           *)
THEOREM OneJobForEach == CSpec => []OneJobEach
<1>1. CInv => OneJobEach
  <2> SUFFICES ASSUME CInv, result = "running", NEW w \in Worker
               PROVE  /\ Cardinality(Places(w)) <= 1
                      /\ Cardinality({k \in 1..Len(idle) : idle[k] = w}) =
                           IF Places(w) = {} \/ (cpc = "handle" /\ got[1].worker = w)
                             THEN 1 ELSE 0
    BY DEF OneJobEach
  <2> DEFINE Free == ~Handed(w) /\ ~Waiting(w) /\ ~Doing(w) /\ ~Answered(w)
  <2>1. CTypeOK /\ Exclusive(w) /\ Apart(results) /\ Once(idle) /\ (IsIdle(w) <=> Free)
    BY DEF CInv, Placed, Rested
  <2>2. /\ Handed(w) => \E x : For(w, handing) = {x}
        /\ Waiting(w) => \E x : Commanded(work[w]) = {x}
        /\ Doing(w) => {item[w]} \ {NoItem} = {item[w]}
        /\ Coming(w) => \E x : For(w, got) = {x}
    BY <2>1, OneRecord, OneCommand DEF Handed, Waiting, Doing, Coming
  <2>3. Answered(w) => \E x : For(w, results) = {x}
    <3> SUFFICES ASSUME Answered(w) PROVE \E x : For(w, results) = {x}
      OBVIOUS
    <3>1. PICK k \in 1..Len(results) : results[k].worker = w
      BY DEF Answered, From
    <3>2. \A x : x \in For(w, results) <=> x = results[k].item
      BY <2>1, <3>1, ForIs DEF Apart
    <3>3. For(w, results) = {results[k].item}
      BY <3>2
    <3> QED BY <3>3
  <2>4. /\ Free /\ ~Coming(w) => Places(w) = {}
        /\ ~(Free /\ ~Coming(w)) => \E x : Places(w) = {x}
    BY <2>1, <2>2, <2>3, PlacesAre DEF Exclusive, Places
  <2>5. Cardinality(Places(w)) <= 1
    <3>1. Places(w) = {} \/ \E x : Places(w) = {x}
      BY <2>4
    <3>2. Cardinality(Places(w)) = 0 \/ Cardinality(Places(w)) = 1
      BY <3>1, FS_EmptySet, FS_Singleton, Zenon
    <3> QED BY <3>2
  <2>6. Coming(w) <=> cpc = "handle" /\ got[1].worker = w
    BY DEF CInv, Coordinated, Coming
  <2>7. Coming(w) => Free
    BY <2>1 DEF Exclusive
  <2>8. Cardinality({k \in 1..Len(idle) : idle[k] = w}) = IF Free THEN 1 ELSE 0
    <3>1. CASE Free
      <4>1. PICK k \in 1..Len(idle) : idle[k] = w
        BY <2>1, <3>1 DEF IsIdle, In
      <4>2. {l \in 1..Len(idle) : idle[l] = w} = {k}
        BY <2>1, <4>1 DEF Once
      <4> QED BY <3>1, <4>2, FS_Singleton
    <3>2. CASE ~Free
      <4>1. {k \in 1..Len(idle) : idle[k] = w} = {}
        BY <2>1, <3>2 DEF IsIdle, In
      <4> QED BY <3>2, <4>1, FS_EmptySet
    <3> QED BY <3>1, <3>2
  <2>9. Places(w) = {} \/ Coming(w) <=> Free
    BY <2>4, <2>7
  <2> QED BY <2>5, <2>6, <2>8, <2>9
<1> QED BY <1>1, CoordinatorInvariance, PTL
=============================================================================
