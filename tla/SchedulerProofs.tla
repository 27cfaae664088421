--------------------------- MODULE SchedulerProofs ---------------------------
(***************************************************************************)
(* Proofs about Scheduler, for every graph, pool of workers and number of  *)
(* workers.                                                                *)
(***************************************************************************)
EXTENDS Scheduler, FiniteSetTheorems, TLAPS

-----------------------------------------------------------------------------
(* Facts about the operators the scheduler is built from.                  *)

(* A function on 1..n is a sequence.                                       *)
LEMMA FunctionIsSeq ==
  ASSUME NEW S, NEW n \in Nat, NEW f \in [1..n -> S]
  PROVE  f \in Seq(S) /\ Len(f) = n /\ DOMAIN f = 1..n
  OBVIOUS

(* Taking an item out of the queue keeps the others, in order.             *)
LEMMA RemoveIndexFacts ==
  ASSUME NEW S, NEW s \in Seq(S), NEW i \in 1..Len(s)
  PROVE  /\ RemoveIndex(s, i) \in Seq(S)
         /\ Len(RemoveIndex(s, i)) = Len(s) - 1
         /\ \A j \in 1..(Len(s) - 1) :
              RemoveIndex(s, i)[j] = IF j < i THEN s[j] ELSE s[j + 1]
<1> DEFINE n == Len(s) - 1
           f == [j \in 1..n |-> IF j < i THEN s[j] ELSE s[j + 1]]
<1>1. n \in Nat /\ \A j \in 1..n : j \in 1..Len(s) /\ j + 1 \in 1..Len(s)
  OBVIOUS
<1>2. \A j \in 1..Len(s) : s[j] \in S
  OBVIOUS
<1>3. f \in [1..n -> S]
  BY <1>1, <1>2
<1>4. f \in Seq(S) /\ Len(f) = n
  BY <1>1, <1>3, FunctionIsSeq
<1> QED
  BY <1>4 DEF RemoveIndex

(* What stands where in a concatenation.                                   *)
LEMMA ConcatFacts ==
  ASSUME NEW S, NEW s \in Seq(S), NEW t \in Seq(S)
  PROVE  /\ Len(s) \in Nat /\ Len(t) \in Nat
         /\ Len(s \o t) = Len(s) + Len(t)
         /\ \A i \in 1..Len(s) : (s \o t)[i] = s[i]
         /\ \A k \in 1..Len(t) : (s \o t)[Len(s) + k] = t[k]
<1>1. Len(s) \in Nat /\ Len(t) \in Nat /\ Len(s \o t) = Len(s) + Len(t)
  OBVIOUS
<1>2. \A i \in 1..(Len(s) + Len(t)) :
        (s \o t)[i] = IF i <= Len(s) THEN s[i] ELSE t[i - Len(s)]
  OBVIOUS
<1>3. \A i \in 1..Len(s) : (s \o t)[i] = s[i]
  BY <1>1, <1>2
<1>4. ASSUME NEW k \in 1..Len(t) PROVE (s \o t)[Len(s) + k] = t[k]
  <2>1. /\ Len(s) + k \in 1..(Len(s) + Len(t))
        /\ ~(Len(s) + k <= Len(s))
        /\ (Len(s) + k) - Len(s) = k
    BY <1>1
  <2> QED
    BY <2>1, <1>2
<1> QED
  BY <1>1, <1>3, <1>4

(* The children of an attribute set are queued with no rejecters.          *)
LEMMA ChildItemsFacts ==
  ASSUME NEW x \in Item, IsAttrSet(x.path)
  PROVE  /\ Answer[x.path].attrs \in Seq(Name)
         /\ ChildItems(x) \in Seq(Item)
         /\ Len(ChildItems(x)) = Len(Answer[x.path].attrs)
         /\ \A k \in 1..Len(Answer[x.path].attrs) :
              ChildItems(x)[k] = NewItem(Append(x.path, Answer[x.path].attrs[k]))
<1> DEFINE a == Answer[x.path].attrs
           f == [k \in 1..Len(a) |-> NewItem(Append(x.path, a[k]))]
<1>1. x.path \in Tree
  BY DEF Item
<1>2. Answer[x.path] \in AttrSetEvent
  BY <1>1, GraphAssumption DEF AnswerAssumption, Event, IsAttrSet,
     DerivationEvent, ErrorEvent
<1>3. a \in Seq(Name)
  BY <1>2 DEF AttrSetEvent
<1>4. \A k \in 1..Len(a) : Append(x.path, a[k]) \in Tree
  BY <1>1, GraphAssumption DEF AnswerAssumption
<1>5. << >> \in Seq(Worker)
  OBVIOUS
<1>6. f \in [1..Len(a) -> Item]
  BY <1>4, <1>5 DEF NewItem, Item
<1>7. Len(a) \in Nat
  BY <1>3
<1>8. f \in Seq(Item) /\ Len(f) = Len(a)
  BY <1>6, <1>7, FunctionIsSeq
<1> QED
  BY <1>3, <1>8 DEF ChildItems

(* How many numbers there are from 1 to n.                                 *)
LEMMA IntervalCardinality ==
  ASSUME NEW n \in Nat
  PROVE  IsFiniteSet(1..n) /\ Cardinality(1..n) = n
<1>1. 1 \in Int /\ n \in Int
  OBVIOUS
<1>2. IsFiniteSet(1..n) /\ Cardinality(1..n) = IF 1 > n THEN 0 ELSE n - 1 + 1
  BY <1>1, FS_Interval, Zenon
<1> QED
  BY <1>2

(* The pool has N workers.                                                 *)
LEMMA WorkerCardinality ==
  IsFiniteSet(Worker) /\ Cardinality(Worker) = N
<1>1. N \in Nat /\ N > 0 /\ 0 \in Int /\ N - 1 \in Int
  BY PoolAssumption
<1>2. /\ IsFiniteSet(0..(N - 1))
      /\ Cardinality(0..(N - 1)) = IF 0 > N - 1 THEN 0 ELSE (N - 1) - 0 + 1
  BY <1>1, FS_Interval, Zenon
<1> QED
  BY <1>1, <1>2 DEF Worker

(* Fewer rejecters than workers leave a worker to offer the item to.       *)
LEMMA SomeoneLeft ==
  ASSUME NEW x \in Item, ~Exhausted(x)
  PROVE  \E w \in Worker : w \notin Rejecters(x)
<1> DEFINE r == x.rejected_by
<1>1. r \in Seq(Worker) /\ Len(r) \in Nat
  BY DEF Item
<1>2. N \in Nat /\ N > 0 /\ Len(r) < N
  BY <1>1, PoolAssumption DEF Exhausted
<1>3. IsFiniteSet(Worker) /\ Cardinality(Worker) = N
  BY WorkerCardinality
<1>4. SUFFICES ASSUME Worker \subseteq Rejecters(x) PROVE FALSE
  OBVIOUS
<1>5. Rejecters(x) = Worker
  BY <1>1, <1>4 DEF Rejecters
<1>6. r \in [1..Len(r) -> Worker]
  BY <1>1
<1>7. \A w \in Worker : \E k \in 1..Len(r) : r[k] = w
  BY <1>5 DEF Rejecters
<1>8. ExistsSurjection(1..Len(r), Worker)
  BY <1>6, <1>7 DEF ExistsSurjection, Surjection
<1>9. Cardinality(Worker) <= Len(r)
  BY <1>1, <1>8, FS_SurjCardinalityBound
<1> QED
  BY <1>1, <1>2, <1>3, <1>9

(* Distinct rejecters, as many as there are workers, are all the workers.  *)
LEMMA EveryoneRejected ==
  ASSUME NEW x \in Item, SoundlyRejected(x), Exhausted(x)
  PROVE  /\ IsDerivation(x.path)
         /\ ~Owned(x.path)
<1> DEFINE r == x.rejected_by
<1>1. r \in Seq(Worker) /\ Len(r) \in Nat
  BY DEF Item
<1>2. N \in Nat /\ N > 0 /\ Len(r) >= N
  BY <1>1, PoolAssumption DEF Exhausted
<1>3. IsFiniteSet(Worker) /\ Cardinality(Worker) = N
  BY WorkerCardinality
<1>4. r \in [1..Len(r) -> Worker]
  BY <1>1
<1>5. r \in Injection(1..Len(r), Worker)
  BY <1>4 DEF SoundlyRejected, Injection, IsInjective
<1>6. IsFiniteSet(1..Len(r)) /\ Cardinality(1..Len(r)) = Len(r)
  BY <1>1, IntervalCardinality
<1>7. /\ Cardinality(1..Len(r)) <= Cardinality(Worker)
      /\ Cardinality(1..Len(r)) = Cardinality(Worker) <=>
           r \in Surjection(1..Len(r), Worker)
  BY <1>3, <1>5, FS_Injection
<1>8. r \in Surjection(1..Len(r), Worker)
  BY <1>1, <1>2, <1>3, <1>6, <1>7
<1>9. \A w \in Worker : \E k \in 1..Len(r) : r[k] = w
  BY <1>8 DEF Surjection
<1>10. 1 \in 1..Len(r)
  BY <1>1, <1>2
<1>11. IsDerivation(x.path)
  BY <1>10 DEF SoundlyRejected
<1>12. \A w \in Worker : ~Accepts(w, Answer[x.path].system)
  BY <1>9 DEF SoundlyRejected
<1> QED
  BY <1>11, <1>12 DEF Owned

-----------------------------------------------------------------------------
(* Type correctness, with the counter of busy workers it rests on.         *)

TypeInv == TypeOK /\ ActiveCountsBusy

(* The number of busy workers is a natural number.                         *)
LEMMA BusyFinite ==
  IsFiniteSet(Busy) /\ Cardinality(Busy) \in Nat
<1>1. Busy \subseteq Worker
  BY DEF Busy
<1> QED
  BY <1>1, WorkerCardinality, FS_Subset, FS_CardinalityType, Zenon

(* What the queue holds at first is an item.                               *)
LEMMA RootItem ==
  Root \in Tree /\ NewItem(Root) \in Item
BY GraphAssumption DEF AnswerAssumption, NewItem, Item

(* An item is still one for the same path when a worker has rejected it.   *)
LEMMA RejectedItem ==
  ASSUME NEW x \in Item, NEW w \in Worker
  PROVE  /\ Rejected(x, w) \in Item
         /\ Rejected(x, w).path = x.path
         /\ Rejected(x, w).rejected_by = Append(x.rejected_by, w)
BY DEF Rejected, Item

(* What handing an item out does.                                          *)
LEMMA DispatchType ==
  ASSUME TypeInv, NEW w \in Worker, Dispatch(w)
  PROVE  TypeInv'
<1>1. PICK i \in 1..Len(todo) :
        held' = [held EXCEPT ![w] = todo[i]] /\ todo' = RemoveIndex(todo, i)
  BY DEF Dispatch
<1>2. todo[i] \in Item /\ todo[i] # NoItem
  BY NoItemAssumption DEF TypeInv, TypeOK
<1>3. todo' \in Seq(Item)
  BY <1>1, RemoveIndexFacts DEF TypeInv, TypeOK
<1>4. held' \in [Worker -> Item \cup {NoItem}]
  BY <1>1, <1>2 DEF TypeInv, TypeOK
<1>5. Busy' = Busy \cup {w} /\ w \notin Busy
  BY <1>1, <1>2 DEF TypeInv, TypeOK, Busy, Dispatch
<1>6. Cardinality(Busy') = Cardinality(Busy) + 1
  BY <1>5, BusyFinite, FS_AddElement, Zenon
<1>7. active' = active + 1 /\ active \in Nat
  BY DEF Dispatch, TypeInv, TypeOK
<1>8. ActiveCountsBusy'
  BY <1>6, <1>7 DEF ActiveCountsBusy, TypeInv
<1>9. UNCHANGED <<error, emitted, verdict>>
  BY DEF Dispatch
<1> QED
  BY <1>3, <1>4, <1>7, <1>8, <1>9 DEF TypeInv, TypeOK

(* What every completion does to the workers and the counter.              *)
LEMMA FinishingType ==
  ASSUME TypeInv, NEW w \in Worker, Finishing(w)
  PROVE  /\ active' \in Nat
         /\ held' \in [Worker -> Item \cup {NoItem}]
         /\ ActiveCountsBusy'
         /\ Busy' = Busy \ {w}
         /\ w \in Busy
         /\ held[w] \in Item
         /\ held[w].path \in Tree
         /\ \A v \in Worker \ {w} : held'[v] = held[v]
<1>1. w \in Busy /\ held[w] \in Item
  BY DEF Finishing, Busy, TypeInv, TypeOK
<1>2. Busy' = Busy \ {w} /\ held' \in [Worker -> Item \cup {NoItem}]
  BY DEF Finishing, Busy, TypeInv, TypeOK
<1>3. Cardinality(Busy') = Cardinality(Busy) - 1
  BY <1>1, <1>2, BusyFinite, FS_RemoveElement, Zenon
<1>4. active' = active - 1 /\ active = Cardinality(Busy)
  BY DEF Finishing, TypeInv, ActiveCountsBusy
<1>5. active' = Cardinality(Busy')
  BY <1>3, <1>4
<1>6. IsFiniteSet(Busy')
  BY <1>2, BusyFinite, FS_RemoveElement, Zenon
<1>7. active' \in Nat
  BY <1>5, <1>6, FS_CardinalityType, Zenon
<1>8. \A v \in Worker \ {w} : held'[v] = held[v]
  BY DEF Finishing, TypeInv, TypeOK
<1> QED
  BY <1>1, <1>2, <1>5, <1>7, <1>8 DEF ActiveCountsBusy, Item

(* Types and the count of busy workers survive a completion.               *)
LEMMA CompleteType ==
  ASSUME TypeInv, NEW w \in Worker, Complete(w)
  PROVE  TypeInv'
<1>1. Finishing(w)
  BY DEF Complete, CompleteAttrSet, CompleteError, CompleteDerivation,
     CompleteRejected
<1>2. /\ active' \in Nat
      /\ held' \in [Worker -> Item \cup {NoItem}]
      /\ ActiveCountsBusy'
      /\ held[w] \in Item
      /\ held[w].path \in Tree
  BY <1>1, FinishingType
<1>3. verdict' = verdict
  BY <1>1 DEF Finishing
<1>4. todo \in Seq(Item) /\ emitted \in [Tree -> Nat]
      /\ error \in {"none", "fatal", "unowned"}
  BY DEF TypeInv, TypeOK
<1>5. Emit(held[w].path) => emitted' \in [Tree -> Nat]
  BY <1>2, <1>4 DEF Emit
<1>6. todo' \in Seq(Item) /\ emitted' \in [Tree -> Nat]
      /\ error' \in {"none", "fatal", "unowned"}
  <2>1. CASE CompleteAttrSet(w)
    <3>1. ChildItems(held[w]) \in Seq(Item)
      BY <2>1, <1>2, ChildItemsFacts DEF CompleteAttrSet
    <3> QED
      BY <2>1, <3>1, <1>4, <1>5 DEF CompleteAttrSet
  <2>2. CASE CompleteError(w)
    BY <2>2, <1>4, <1>5 DEF CompleteError
  <2>3. CASE CompleteDerivation(w)
    BY <2>3, <1>4, <1>5 DEF CompleteDerivation
  <2>4. CASE CompleteRejected(w)
    <3>1. Rejected(held[w], w) \in Item
      BY <1>2, RejectedItem
    <3>2. Append(todo, Rejected(held[w], w)) \in Seq(Item)
      BY <3>1, <1>4
    <3>3. CASE Exhausted(Rejected(held[w], w))
      BY <2>4, <3>3, <1>4 DEF CompleteRejected
    <3>4. CASE ~Exhausted(Rejected(held[w], w))
      BY <2>4, <3>2, <3>4, <1>4 DEF CompleteRejected
    <3> QED
      BY <3>3, <3>4
  <2> QED
    BY <2>1, <2>2, <2>3, <2>4 DEF Complete
<1> QED
  BY <1>2, <1>3, <1>6 DEF TypeInv, TypeOK

(* Types and the count of busy workers hold at first,                      *)
LEMMA TypeInvInit ==
  Init => TypeInv
<1> SUFFICES ASSUME Init PROVE TypeInv
  OBVIOUS
<1>1. todo \in Seq(Item)
  BY RootItem DEF Init
<1>2. Busy = {}
  BY DEF Init, Busy
<1>3. active = Cardinality(Busy)
  BY <1>2, FS_EmptySet DEF Init
<1> QED
  BY <1>1, <1>3 DEF Init, TypeInv, TypeOK, ActiveCountsBusy

(* and after every step.                                                   *)
LEMMA TypeInvStep ==
  TypeInv /\ [Next]_vars => TypeInv'
<1> SUFFICES ASSUME TypeInv, [Next]_vars PROVE TypeInv'
  OBVIOUS
<1>1. CASE \E w \in Worker : Dispatch(w)
  BY <1>1, DispatchType
<1>2. CASE \E w \in Worker : Complete(w)
  BY <1>2, CompleteType
<1>3. CASE (\E w \in Worker : Done(w)) \/ Fail \/ Stop
  BY <1>3 DEF Done, Fail, Stop, TypeInv, TypeOK, ActiveCountsBusy, Busy
<1>4. CASE UNCHANGED vars
  BY <1>4 DEF vars, TypeInv, TypeOK, ActiveCountsBusy, Busy
<1> QED
  BY <1>1, <1>2, <1>3, <1>4 DEF Next

(* Every variable keeps its type: complete never decrements a counter that *)
(* is zero, and the queue only ever holds work items for paths of the      *)
(* graph.                                                                  *)
THEOREM TypeCorrect == Spec => []TypeOK
<1>1. TypeInv => TypeOK
  BY DEF TypeInv
<1> QED
  BY <1>1, TypeInvInit, TypeInvStep, PTL DEF Spec

(* The counter active is the number of workers that hold an item.          *)
THEOREM ActiveCorrect == Spec => []ActiveCountsBusy
<1>1. TypeInv => ActiveCountsBusy
  BY DEF TypeInv
<1> QED
  BY <1>1, TypeInvInit, TypeInvStep, PTL DEF Spec

-----------------------------------------------------------------------------
(* The inductive invariant. The properties alone are not inductive: that a *)
(* path is in one place only after its parent is expanded needs to know    *)
(* that nothing is in play before its parent is reported (Grounded), and   *)
(* completeness that no reported set has a child that is in no place       *)
(* (NothingForgotten).                                                     *)

Known(p) == Queued(p) \/ HeldPath(p) \/ emitted[p] > 0

(* An item that is still about has not been rejected by everybody, and     *)
(* nobody holds an item that it has itself rejected.                       *)
StillOpen ==
  /\ \A i \in 1..Len(todo) : ~Exhausted(todo[i])
  /\ \A w \in Busy : ~Exhausted(held[w]) /\ w \notin Rejecters(held[w])

(* Only reachable paths are in play, and each after its parent.            *)
Grounded ==
  \A p \in Tree : Known(p) =>
    /\ p \in Reachable
    /\ \/ p = Root
       \/ \E q \in Tree : emitted[q] > 0 /\ IsAttrSet(q) /\ p \in Children(q)

(* Until an error is set, the root and the children of every reported set  *)
(* are in play.                                                            *)
NothingForgotten ==
  error = "none" =>
    /\ Known(Root)
    /\ \A q \in Tree : emitted[q] > 0 /\ IsAttrSet(q) =>
         \A c \in Children(q) : Known(c)

(* The error and the verdict say what happened.                            *)
VerdictSound ==
  /\ UnownedIsReal
  /\ error = "fatal" =>
       \E p \in Tree : IsError(p) /\ Answer[p].fatal /\ emitted[p] > 0
  /\ \A p \in Tree : emitted[p] > 0 =>
       /\ IsDerivation(p) => Owned(p)
       /\ IsError(p) /\ Answer[p].fatal => error # "none"
  /\ verdict = "complete" => IsDone /\ error = "none"

IInv ==
  /\ TypeInv
  /\ OnePlace
  /\ RejectionsSound
  /\ StillOpen
  /\ Grounded
  /\ NothingForgotten
  /\ VerdictSound

-----------------------------------------------------------------------------
(* The graph.                                                              *)

(* The reachable paths are paths, and contain the root and their children. *)
LEMMA ReachableClosed ==
  /\ Reachable \subseteq Tree
  /\ Root \in Reachable
  /\ \A p \in Reachable : IsAttrSet(p) => Children(p) \subseteq Reachable
<1>1. \A p \in Tree : IsAttrSet(p) => Children(p) \subseteq Tree
  BY GraphAssumption DEF AnswerAssumption, Children
<1>2. Root \in Tree
  BY GraphAssumption DEF AnswerAssumption
<1> QED
  BY <1>1, <1>2 DEF Reachable, ClosedUnderChildren

(* No smaller set of paths does.                                           *)
LEMMA ReachableLeast ==
  ASSUME NEW S \in SUBSET Tree, ClosedUnderChildren(S)
  PROVE  Reachable \subseteq S
BY DEF Reachable

(* A path is a child of one path only, under one name only.                *)
LEMMA ChildrenDistinct ==
  ASSUME NEW p \in Tree, NEW q \in Tree, IsAttrSet(p), IsAttrSet(q),
         NEW j \in 1..Len(Answer[p].attrs), NEW k \in 1..Len(Answer[q].attrs),
         Append(p, Answer[p].attrs[j]) = Append(q, Answer[q].attrs[k])
  PROVE  p = q /\ j = k
<1>1. p \in Seq(Name) /\ q \in Seq(Name)
  BY GraphAssumption DEF AnswerAssumption
<1>2. Answer[p] \in AttrSetEvent /\ Answer[q] \in AttrSetEvent
  BY GraphAssumption DEF AnswerAssumption, Event, IsAttrSet,
     DerivationEvent, ErrorEvent
<1>3. Answer[p].attrs[j] \in Name /\ Answer[q].attrs[k] \in Name
  BY <1>2 DEF AttrSetEvent
<1>4. \A s, t \in Seq(Name) : \A a, b \in Name :
        Append(s, a) = Append(t, b) => s = t /\ a = b
  <2> SUFFICES ASSUME NEW s \in Seq(Name), NEW t \in Seq(Name),
                      NEW a \in Name, NEW b \in Name, Append(s, a) = Append(t, b)
               PROVE  s = t /\ a = b
    OBVIOUS
  <2>1. Len(s) = Len(t)
    OBVIOUS
  <2>2. \A m \in 1..Len(s) : s[m] = t[m]
    <3> SUFFICES ASSUME NEW m \in 1..Len(s) PROVE s[m] = t[m]
      OBVIOUS
    <3>1. Append(s, a)[m] = s[m]
      BY SMTT(30)
    <3>2. Append(t, b)[m] = t[m]
      BY <2>1
    <3> QED
      BY <3>1, <3>2
  <2>3. Append(s, a)[Len(s) + 1] = a /\ Append(t, b)[Len(t) + 1] = b
    OBVIOUS
  <2>4. s = [m \in 1..Len(s) |-> s[m]] /\ t = [m \in 1..Len(t) |-> t[m]]
    OBVIOUS
  <2>5. s = t
    BY <2>1, <2>2, <2>4
  <2> QED
    BY <2>1, <2>3, <2>5
<1>5. p = q /\ Answer[p].attrs[j] = Answer[q].attrs[k]
  BY <1>1, <1>3, <1>4
<1> QED
  BY <1>5, GraphAssumption DEF AnswerAssumption

(* The root is nobody's child.                                             *)
LEMMA RootIsNoChild ==
  ASSUME NEW p \in Tree, NEW a \in Name
  PROVE  Append(p, a) # Root
<1>1. p \in Seq(Name)
  BY GraphAssumption DEF AnswerAssumption
<1>2. Len(Append(p, a)) = Len(p) + 1 /\ Len(p) \in Nat
  BY <1>1
<1> QED
  BY <1>2 DEF Root

-----------------------------------------------------------------------------
(* What each action does to the places a path can be in.                   *)

(* Dispatch moves one path from the queue to a worker.                     *)
LEMMA DispatchPlaces ==
  ASSUME IInv, NEW w \in Worker, Dispatch(w)
  PROVE  /\ OnePlace'
         /\ RejectionsSound'
         /\ StillOpen'
         /\ emitted' = emitted
         /\ \A p \in Tree : Known(p)' <=> Known(p)
<1>0. /\ todo \in Seq(Item) /\ held \in [Worker -> Item \cup {NoItem}]
      /\ emitted \in [Tree -> Nat] /\ OnePlace
      /\ RejectionsSound /\ StillOpen
  BY DEF IInv, TypeInv, TypeOK
<1>1. PICK i \in 1..Len(todo) :
        /\ held' = [held EXCEPT ![w] = todo[i]]
        /\ todo' = RemoveIndex(todo, i)
        /\ w \notin Rejecters(todo[i])
  BY DEF Dispatch, FirstFor
<1> DEFINE n == Len(todo)
           from(j) == IF j < i THEN j ELSE j + 1
<1>2. /\ Len(todo') = n - 1
      /\ \A j \in 1..(n - 1) : /\ todo'[j] = todo[from(j)]
                              /\ from(j) \in 1..n
                              /\ from(j) # i
      /\ n \in Nat
  <2>1. /\ Len(RemoveIndex(todo, i)) = n - 1
        /\ \A j \in 1..(n - 1) : RemoveIndex(todo, i)[j] = todo[from(j)]
    BY <1>0, RemoveIndexFacts
  <2>2. n \in Nat
    BY <1>0
  <2> QED
    BY <1>1, <2>1, <2>2
<1>3. \A k \in 1..n : k # i => \E j \in 1..(n - 1) : from(j) = k
  <2> SUFFICES ASSUME NEW k \in 1..n, k # i
               PROVE  \E j \in 1..(n - 1) : from(j) = k
    OBVIOUS
  <2>1. CASE k < i
    <3>1. k \in 1..(n - 1) /\ from(k) = k
      BY <2>1, <1>2
    <3> QED
      BY <3>1
  <2>2. CASE k > i
    <3>1. k - 1 \in 1..(n - 1) /\ from(k - 1) = k
      BY <2>2, <1>2
    <3> QED
      BY <3>1
  <2> QED
    BY <2>1, <2>2, <1>2
<1>4. \A j, k \in 1..(n - 1) : from(j) = from(k) => j = k
  BY <1>2
<1>5. todo[i] \in Item /\ todo[i] # NoItem /\ todo[i].path \in Tree
  <2>1. todo[i] \in Item
    BY <1>0
  <2> QED
    BY <2>1, NoItemAssumption DEF Item
<1>6. /\ Busy' = Busy \cup {w} /\ w \notin Busy
      /\ held'[w] = todo[i]
      /\ \A v \in Busy : held'[v] = held[v]
  BY <1>0, <1>1, <1>5 DEF Busy, Dispatch
<1>7. emitted' = emitted
  BY DEF Dispatch
<1> DEFINE x == todo[i].path
<1>8. Queued(x) /\ ~HeldPath(x) /\ emitted[x] = 0
  BY <1>0, <1>5 DEF Queued, OnePlace
<1>9. \A p \in Tree : Queued(p)' <=> (Queued(p) /\ p # x)
  <2> SUFFICES ASSUME NEW p \in Tree PROVE Queued(p)' <=> (Queued(p) /\ p # x)
    OBVIOUS
  <2>1. ASSUME Queued(p)' PROVE Queued(p) /\ p # x
    <3>1. PICK j \in 1..(n - 1) : todo'[j].path = p
      BY <2>1, <1>2 DEF Queued
    <3>2. todo[from(j)].path = p /\ from(j) \in 1..n /\ from(j) # i
      BY <3>1, <1>2
    <3>3. Queued(p)
      BY <3>2 DEF Queued
    <3>4. p # x
      BY <1>0, <3>2 DEF OnePlace
    <3> QED
      BY <3>3, <3>4
  <2>2. ASSUME Queued(p), p # x PROVE Queued(p)'
    <3>1. PICK k \in 1..n : todo[k].path = p
      BY <2>2 DEF Queued
    <3>2. PICK j \in 1..(n - 1) : from(j) = k
      BY <3>1, <2>2, <1>3
    <3>3. todo'[j].path = p /\ j \in 1..Len(todo')
      BY <3>1, <3>2, <1>2
    <3> QED
      BY <3>3 DEF Queued
  <2> QED
    BY <2>1, <2>2
<1>10. \A p \in Tree : HeldPath(p)' <=> (HeldPath(p) \/ p = x)
  BY <1>6 DEF HeldPath
<1>11. \A p \in Tree : Known(p)' <=> Known(p)
  BY <1>7, <1>8, <1>9, <1>10 DEF Known
<1>12. OnePlace'
  <2>1. \A j, k \in 1..Len(todo') : todo'[j].path = todo'[k].path => j = k
    BY <1>0, <1>2, <1>4, SMTT(30) DEF OnePlace
  <2>2. \A u, v \in Busy' : held'[u].path = held'[v].path => u = v
    BY <1>0, <1>6, <1>8 DEF HeldPath, OnePlace
  <2>3. \A p \in Tree : emitted'[p] <= 1
    BY <1>0, <1>7 DEF OnePlace
  <2>4. \A p \in Tree : Queued(p)' => ~HeldPath(p)' /\ emitted'[p] = 0
    BY <1>0, <1>7, <1>9, <1>10 DEF OnePlace
  <2>5. \A p \in Tree : HeldPath(p)' => emitted'[p] = 0
    BY <1>0, <1>7, <1>8, <1>10 DEF OnePlace
  <2> QED
    BY <2>1, <2>2, <2>3, <2>4, <2>5 DEF OnePlace
<1>13. RejectionsSound'
  <2>1. \A j \in 1..Len(todo') : SoundlyRejected(todo'[j])
    BY <1>0, <1>2 DEF RejectionsSound
  <2>2. \A v \in Busy' : SoundlyRejected(held'[v])
    BY <1>0, <1>6 DEF RejectionsSound
  <2> QED
    BY <2>1, <2>2 DEF RejectionsSound, SoundlyRejected
<1>14. StillOpen'
  <2>1. \A j \in 1..Len(todo') : ~Exhausted(todo'[j])
    BY <1>0, <1>2 DEF StillOpen
  <2>2. \A v \in Busy' : ~Exhausted(held'[v]) /\ v \notin Rejecters(held'[v])
    BY <1>0, <1>1, <1>6 DEF StillOpen
  <2> QED
    BY <2>1, <2>2 DEF StillOpen, Exhausted, Rejecters
<1> QED
  BY <1>7, <1>11, <1>12, <1>13, <1>14

(* Finishing takes one path from its worker; until the rest of complete    *)
(* has put it somewhere it is in no place at all.                          *)
LEMMA FinishingPlaces ==
  ASSUME IInv, NEW w \in Worker, Finishing(w)
  PROVE  /\ w \in Busy
         /\ held[w] \in Item /\ held[w].path \in Tree
         /\ HeldPath(held[w].path)
         /\ ~Queued(held[w].path)
         /\ emitted[held[w].path] = 0
         /\ SoundlyRejected(held[w]) /\ ~Exhausted(held[w])
         /\ w \notin Rejecters(held[w])
         /\ Busy' = Busy \ {w}
         /\ \A v \in Busy' : v \in Busy /\ held'[v] = held[v]
         /\ \A p \in Tree : HeldPath(p)' <=> HeldPath(p) /\ p # held[w].path
<1>0. /\ held \in [Worker -> Item \cup {NoItem}]
      /\ OnePlace /\ RejectionsSound /\ StillOpen
  BY DEF IInv, TypeInv, TypeOK
<1>1. held[w] # NoItem /\ held' = [held EXCEPT ![w] = NoItem]
  BY DEF Finishing
<1>2. w \in Busy /\ held[w] \in Item /\ held[w].path \in Tree
  BY <1>0, <1>1 DEF Busy, Item
<1>3. /\ Busy' = Busy \ {w}
      /\ \A v \in Busy' : v \in Busy /\ held'[v] = held[v]
      /\ \A v \in Busy \ {w} : held'[v] = held[v]
  BY <1>0, <1>1 DEF Busy
<1>4. HeldPath(held[w].path)
  BY <1>2 DEF HeldPath
<1>5. ~Queued(held[w].path) /\ emitted[held[w].path] = 0
  BY <1>0, <1>2, <1>4 DEF OnePlace
<1>6. /\ SoundlyRejected(held[w]) /\ ~Exhausted(held[w])
      /\ w \notin Rejecters(held[w])
  BY <1>0, <1>2 DEF RejectionsSound, StillOpen
<1>7. \A p \in Tree : HeldPath(p)' <=> HeldPath(p) /\ p # held[w].path
  BY <1>0, <1>2, <1>3 DEF HeldPath, OnePlace
<1> QED
  BY <1>2, <1>3, <1>4, <1>5, <1>6, <1>7

(* What the workers other than w hold is as it should be afterwards.       *)
LEMMA FinishingKeepsHeld ==
  ASSUME IInv, NEW w \in Worker, Finishing(w)
  PROVE  /\ \A u, v \in Busy' : held'[u].path = held'[v].path => u = v
         /\ \A v \in Busy' : SoundlyRejected(held'[v])
         /\ \A v \in Busy' : ~Exhausted(held'[v]) /\ v \notin Rejecters(held'[v])
<1>1. OnePlace /\ RejectionsSound /\ StillOpen
  BY DEF IInv
<1>2. \A v \in Busy' : v \in Busy /\ held'[v] = held[v]
  BY FinishingPlaces
<1> QED
  BY <1>1, <1>2 DEF OnePlace, RejectionsSound, StillOpen

(* An error or a derivation that is kept: the path moves from its worker   *)
(* to the reported ones.                                                   *)
LEMMA EmitPlaces ==
  ASSUME IInv, NEW w \in Worker, Finishing(w), Emit(held[w].path),
         UNCHANGED todo
  PROVE  /\ OnePlace'
         /\ RejectionsSound'
         /\ StillOpen'
         /\ \A p \in Tree :
              emitted'[p] = IF p = held[w].path THEN 1 ELSE emitted[p]
         /\ \A p \in Tree : Known(p)' <=> Known(p)
<1> DEFINE x == held[w].path
<1>0. /\ emitted \in [Tree -> Nat]
      /\ OnePlace /\ RejectionsSound /\ StillOpen
  BY DEF IInv, TypeInv, TypeOK
<1>1. /\ x \in Tree /\ HeldPath(x) /\ ~Queued(x) /\ emitted[x] = 0
      /\ \A p \in Tree : HeldPath(p)' <=> HeldPath(p) /\ p # x
  BY FinishingPlaces
<1>2. \A p \in Tree : emitted'[p] = IF p = x THEN 1 ELSE emitted[p]
  BY <1>0, <1>1 DEF Emit
<1>3. \A p \in Tree : Queued(p)' <=> Queued(p)
  BY DEF Queued
<1>4. \A p \in Tree : Known(p)' <=> Known(p)
  BY <1>1, <1>2, <1>3 DEF Known
<1>5. OnePlace'
  <2>1. \A i, j \in 1..Len(todo') : todo'[i].path = todo'[j].path => i = j
    BY <1>0 DEF OnePlace
  <2>2. \A u, v \in Busy' : held'[u].path = held'[v].path => u = v
    BY FinishingKeepsHeld
  <2>3. \A p \in Tree : emitted'[p] <= 1
    BY <1>0, <1>2 DEF OnePlace
  <2>4. \A p \in Tree : Queued(p)' => ~HeldPath(p)' /\ emitted'[p] = 0
    BY <1>0, <1>1, <1>2, <1>3 DEF OnePlace
  <2>5. \A p \in Tree : HeldPath(p)' => emitted'[p] = 0
    BY <1>0, <1>1, <1>2 DEF OnePlace
  <2> QED
    BY <2>1, <2>2, <2>3, <2>4, <2>5 DEF OnePlace
<1>6. RejectionsSound'
  <2>1. \A i \in 1..Len(todo') : SoundlyRejected(todo'[i])
    BY <1>0 DEF RejectionsSound
  <2>2. \A v \in Busy' : SoundlyRejected(held'[v])
    BY FinishingKeepsHeld
  <2> QED
    BY <2>1, <2>2 DEF RejectionsSound, SoundlyRejected
<1>7. StillOpen'
  <2>1. \A i \in 1..Len(todo') : ~Exhausted(todo'[i])
    BY <1>0 DEF StillOpen
  <2>2. \A v \in Busy' : ~Exhausted(held'[v]) /\ v \notin Rejecters(held'[v])
    BY FinishingKeepsHeld
  <2> QED
    BY <2>1, <2>2 DEF StillOpen, Exhausted, Rejecters
<1> QED
  BY <1>2, <1>4, <1>5, <1>6, <1>7

(* The children of the set that w has evaluated are in no place yet: they  *)
(* would need a reported parent, and their only parent is not reported.    *)
LEMMA ChildrenUnknown ==
  ASSUME IInv, NEW w \in Worker, Finishing(w), IsAttrSet(held[w].path)
  PROVE  \A p \in Children(held[w].path) : p \in Tree /\ ~Known(p)
<1> DEFINE x == held[w].path
<1>0. Grounded /\ x \in Tree /\ emitted[x] = 0
  BY FinishingPlaces DEF IInv
<1>1. /\ \A k \in 1..Len(Answer[x].attrs) : Append(x, Answer[x].attrs[k]) \in Tree
      /\ Answer[x] \in AttrSetEvent
  BY <1>0, GraphAssumption DEF AnswerAssumption, Event, IsAttrSet,
     DerivationEvent, ErrorEvent
<1> SUFFICES ASSUME NEW k \in 1..Len(Answer[x].attrs),
                    Known(Append(x, Answer[x].attrs[k]))
             PROVE  FALSE
  BY <1>1 DEF Children
<1> DEFINE p == Append(x, Answer[x].attrs[k])
<1>2. p \in Tree /\ Answer[x].attrs[k] \in Name
  BY <1>1 DEF AttrSetEvent
<1>3. p # Root
  BY <1>0, <1>2, RootIsNoChild
<1>4. PICK q \in Tree : emitted[q] > 0 /\ IsAttrSet(q) /\ p \in Children(q)
  BY <1>0, <1>2, <1>3 DEF Grounded
<1>5. PICK j \in 1..Len(Answer[q].attrs) : p = Append(q, Answer[q].attrs[j])
  BY <1>4 DEF Children
<1>6. q = x
  BY <1>0, <1>4, <1>5, ChildrenDistinct
<1> QED
  BY <1>0, <1>4, <1>6

(* An attribute set: its path moves to the reported ones, and its children *)
(* to the queue.                                                           *)
LEMMA AttrSetPlaces ==
  ASSUME IInv, NEW w \in Worker, CompleteAttrSet(w)
  PROVE  /\ OnePlace'
         /\ RejectionsSound'
         /\ StillOpen'
         /\ \A p \in Tree :
              emitted'[p] = IF p = held[w].path THEN 1 ELSE emitted[p]
         /\ \A p \in Tree :
              Known(p)' <=> Known(p) \/ p \in Children(held[w].path)
<1> DEFINE x == held[w].path
           n == Len(todo)
           c == ChildItems(held[w])
           m == Len(c)
<1>0. /\ emitted \in [Tree -> Nat] /\ todo \in Seq(Item)
      /\ OnePlace /\ RejectionsSound /\ StillOpen
      /\ Finishing(w) /\ IsAttrSet(x)
  BY DEF IInv, TypeInv, TypeOK, CompleteAttrSet
<1>1. /\ held[w] \in Item /\ x \in Tree
      /\ HeldPath(x) /\ ~Queued(x) /\ emitted[x] = 0
      /\ \A p \in Tree : HeldPath(p)' <=> HeldPath(p) /\ p # x
  BY <1>0, FinishingPlaces
<1>2. \A p \in Tree : emitted'[p] = IF p = x THEN 1 ELSE emitted[p]
  BY <1>0, <1>1 DEF Emit, CompleteAttrSet
<1>3. /\ c \in Seq(Item) /\ m = Len(Answer[x].attrs)
      /\ \A k \in 1..m : /\ c[k].path = Append(x, Answer[x].attrs[k])
                         /\ c[k].rejected_by = << >>
  <2>1. /\ c \in Seq(Item) /\ m = Len(Answer[x].attrs)
        /\ \A k \in 1..m : c[k] = NewItem(Append(x, Answer[x].attrs[k]))
    BY <1>0, <1>1, ChildItemsFacts
  <2>2. \A p : NewItem(p).path = p /\ NewItem(p).rejected_by = << >>
    BY DEF NewItem
  <2> QED
    BY <2>1, <2>2, ZenonT(60)
<1>4. \A j, k \in 1..m : c[j].path = c[k].path => j = k
  <2> SUFFICES ASSUME NEW j \in 1..m, NEW k \in 1..m, c[j].path = c[k].path
               PROVE  j = k
    OBVIOUS
  <2>1. Append(x, Answer[x].attrs[j]) = Append(x, Answer[x].attrs[k])
    BY <1>3
  <2>2. j \in 1..Len(Answer[x].attrs) /\ k \in 1..Len(Answer[x].attrs)
    BY <1>3
  <2>3. IsAttrSet(x) /\ x \in Tree
    BY <1>0, <1>1
  <2> QED
    BY <2>1, <2>2, <2>3, ChildrenDistinct, ZenonT(60)
<1>5. \A p : p \in Children(x) <=> \E k \in 1..m : c[k].path = p
  BY <1>3 DEF Children
<1>6. \A k \in 1..m : c[k].path \in Tree /\ ~Known(c[k].path)
  BY <1>0, <1>5, ChildrenUnknown
<1>7. /\ n \in Nat /\ m \in Nat
      /\ Len(todo') = n + m
      /\ \A i \in 1..n : todo'[i] = todo[i]
      /\ \A k \in 1..m : todo'[n + k] = c[k]
  <2>1. todo' = todo \o c
    BY DEF CompleteAttrSet
  <2> QED
    BY <2>1, <1>0, <1>3, ConcatFacts
<1>8. \A i \in 1..(n + m) :
        i \in 1..n \/ \E k \in 1..m : i = n + k
  <2> SUFFICES ASSUME NEW i \in 1..(n + m), i \notin 1..n
               PROVE  \E k \in 1..m : i = n + k
    OBVIOUS
  <2>1. i - n \in 1..m /\ i = n + (i - n)
    BY <1>7
  <2> QED
    BY <2>1
<1>9. \A p \in Tree : Queued(p)' <=> Queued(p) \/ p \in Children(x)
  <2> SUFFICES ASSUME NEW p \in Tree
               PROVE  Queued(p)' <=> Queued(p) \/ p \in Children(x)
    OBVIOUS
  <2>1. ASSUME Queued(p)' PROVE Queued(p) \/ p \in Children(x)
    <3>1. PICK i \in 1..(n + m) : todo'[i].path = p
      BY <2>1, <1>7 DEF Queued
    <3>2. CASE i \in 1..n
      BY <3>1, <3>2, <1>7 DEF Queued
    <3>3. CASE \E k \in 1..m : i = n + k
      BY <3>1, <3>3, <1>5, <1>7
    <3> QED
      BY <3>2, <3>3, <1>8
  <2>2. ASSUME Queued(p) PROVE Queued(p)'
    <3>1. PICK i \in 1..n : todo[i].path = p
      BY <2>2 DEF Queued
    <3>2. i \in 1..Len(todo') /\ todo'[i].path = p
      BY <3>1, <1>7
    <3> QED
      BY <3>2 DEF Queued
  <2>3. ASSUME p \in Children(x) PROVE Queued(p)'
    <3>1. PICK k \in 1..m : c[k].path = p
      BY <2>3, <1>5
    <3>2. n + k \in 1..Len(todo') /\ todo'[n + k].path = p
      BY <3>1, <1>7
    <3> QED
      BY <3>2 DEF Queued
  <2> QED
    BY <2>1, <2>2, <2>3
<1>10. \A p \in Tree : Known(p)' <=> Known(p) \/ p \in Children(x)
  BY <1>1, <1>2, <1>9 DEF Known
<1>11. OnePlace'
  <2>1. ASSUME NEW i \in 1..(n + m), NEW j \in 1..(n + m),
               todo'[i].path = todo'[j].path
        PROVE  i = j
    <3>1. CASE i \in 1..n /\ j \in 1..n
      BY <2>1, <3>1, <1>0, <1>7 DEF OnePlace
    <3>2. ASSUME NEW k \in 1..m, NEW l \in 1..n, c[k].path = todo[l].path
          PROVE  FALSE
      BY <3>2, <1>6 DEF Known, Queued
    <3>3. ASSUME NEW k \in 1..m, NEW l \in 1..m, i = n + k, j = n + l
          PROVE  i = j
      BY <3>3, <2>1, <1>4, <1>7
    <3>4. CASE i \in 1..n /\ j \notin 1..n
      <4>1. PICK l \in 1..m : j = n + l
        BY <3>4, <1>8
      <4> QED
        BY <4>1, <3>2, <3>4, <2>1, <1>7
    <3>5. CASE i \notin 1..n /\ j \in 1..n
      <4>1. PICK k \in 1..m : i = n + k
        BY <3>5, <1>8
      <4> QED
        BY <4>1, <3>2, <3>5, <2>1, <1>7
    <3>6. CASE i \notin 1..n /\ j \notin 1..n
      BY <3>6, <3>3, <1>8
    <3> QED
      BY <3>1, <3>4, <3>5, <3>6
  <2>2. \A u, v \in Busy' : held'[u].path = held'[v].path => u = v
    BY <1>0, FinishingKeepsHeld
  <2>3. \A p \in Tree : emitted'[p] <= 1
    BY <1>0, <1>2 DEF OnePlace
  <2>4. \A p \in Tree : Queued(p)' => ~HeldPath(p)' /\ emitted'[p] = 0
    <3> SUFFICES ASSUME NEW p \in Tree, Queued(p)'
                 PROVE  ~HeldPath(p)' /\ emitted'[p] = 0
      OBVIOUS
    <3>1. CASE Queued(p)
      BY <3>1, <1>0, <1>1, <1>2 DEF OnePlace
    <3>2. CASE p \in Children(x)
      <4>1. ~Known(p)
        BY <3>2, <1>5, <1>6
      <4> QED
        BY <4>1, <1>0, <1>1, <1>2 DEF Known
    <3> QED
      BY <3>1, <3>2, <1>9
  <2>5. \A p \in Tree : HeldPath(p)' => emitted'[p] = 0
    BY <1>0, <1>1, <1>2 DEF OnePlace
  <2> QED
    BY <2>1, <2>2, <2>3, <2>4, <2>5, <1>7 DEF OnePlace
<1>12. \A k \in 1..m : SoundlyRejected(c[k]) /\ ~Exhausted(c[k])
  <2> SUFFICES ASSUME NEW k \in 1..m
               PROVE  SoundlyRejected(c[k]) /\ ~Exhausted(c[k])
    OBVIOUS
  <2>1. c[k].rejected_by = << >>
    BY <1>3
  <2> QED
    BY <2>1, PoolAssumption DEF SoundlyRejected, Exhausted
<1>13. RejectionsSound'
  <2>1. \A i \in 1..n : SoundlyRejected(todo[i])
    BY <1>0 DEF RejectionsSound
  <2>2. \A v \in Busy' : SoundlyRejected(held'[v])
    BY <1>0, FinishingKeepsHeld
  <2>3. ASSUME NEW i \in 1..(n + m) PROVE SoundlyRejected(todo'[i])
    <3>1. CASE i \in 1..n
      BY <3>1, <2>1, <1>7
    <3>2. CASE \E k \in 1..m : i = n + k
      BY <3>2, <1>7, <1>12
    <3> QED
      BY <3>1, <3>2, <1>8
  <2> QED
    BY <2>2, <2>3, <1>7 DEF RejectionsSound, SoundlyRejected
<1>14. StillOpen'
  <2>1. \A i \in 1..n : ~Exhausted(todo[i])
    BY <1>0 DEF StillOpen
  <2>3. ASSUME NEW i \in 1..(n + m) PROVE ~Exhausted(todo'[i])
    <3>1. CASE i \in 1..n
      BY <3>1, <2>1, <1>7
    <3>2. CASE \E k \in 1..m : i = n + k
      BY <3>2, <1>7, <1>12
    <3> QED
      BY <3>1, <3>2, <1>8
  <2>2. \A v \in Busy' : ~Exhausted(held'[v]) /\ v \notin Rejecters(held'[v])
    BY <1>0, FinishingKeepsHeld
  <2> QED
    BY <2>2, <2>3, <1>7 DEF StillOpen, Exhausted, Rejecters
<1> QED
  BY <1>2, <1>10, <1>11, <1>13, <1>14

(* What rejecting adds to an item.                                         *)
LEMMA RejectedSound ==
  ASSUME NEW x \in Item, NEW w \in Worker, SoundlyRejected(x),
         w \notin Rejecters(x),
         IsDerivation(x.path), ~Accepts(w, Answer[x.path].system)
  PROVE  /\ Rejected(x, w) \in Item
         /\ Rejected(x, w).path = x.path
         /\ SoundlyRejected(Rejected(x, w))
<1> DEFINE r == x.rejected_by
           y == Rejected(x, w)
<1>1. r \in Seq(Worker) /\ Len(r) \in Nat
  BY DEF Item
<1>2. y \in Item /\ y.path = x.path /\ y.rejected_by = Append(r, w)
  BY RejectedItem DEF Rejected, Item
<1>3. /\ Len(y.rejected_by) = Len(r) + 1
      /\ \A k \in 1..Len(r) : y.rejected_by[k] = r[k]
      /\ y.rejected_by[Len(r) + 1] = w
  BY <1>1, <1>2
<1>4. \A k \in 1..Len(r) : r[k] # w
  BY DEF Rejecters
<1>5. \A k \in 1..(Len(r) + 1) : k \in 1..Len(r) \/ k = Len(r) + 1
  BY <1>1
<1>6. ASSUME NEW k \in 1..(Len(r) + 1)
      PROVE  /\ ~Accepts(y.rejected_by[k], Answer[x.path].system)
             /\ \A l \in 1..(Len(r) + 1) :
                  y.rejected_by[k] = y.rejected_by[l] => k = l
  BY <1>3, <1>4, <1>5 DEF SoundlyRejected
<1> QED
  BY <1>2, <1>3, <1>6 DEF SoundlyRejected

(* A rejected derivation: its path goes back to the queue, or, when nobody *)
(* is left to offer it to, the error is set and it is in no place.         *)
LEMMA RejectedPlaces ==
  ASSUME IInv, NEW w \in Worker, CompleteRejected(w)
  PROVE  /\ OnePlace'
         /\ RejectionsSound'
         /\ StillOpen'
         /\ emitted' = emitted
         /\ \A p \in Tree : Known(p)' => Known(p)
         /\ \/ error' = error /\ \A p \in Tree : Known(p) => Known(p)'
            \/ /\ error' = "unowned"
               /\ IsDerivation(held[w].path) /\ ~Owned(held[w].path)
<1> DEFINE x == held[w].path
           y == Rejected(held[w], w)
           n == Len(todo)
<1>0. /\ emitted \in [Tree -> Nat] /\ todo \in Seq(Item) /\ n \in Nat
      /\ OnePlace /\ RejectionsSound /\ StillOpen
      /\ Finishing(w) /\ emitted' = emitted
      /\ IsDerivation(x) /\ ~Accepts(w, Answer[x].system)
  BY DEF IInv, TypeInv, TypeOK, CompleteRejected
<1>1. /\ held[w] \in Item /\ x \in Tree
      /\ HeldPath(x) /\ ~Queued(x) /\ emitted[x] = 0
      /\ SoundlyRejected(held[w]) /\ w \notin Rejecters(held[w])
      /\ \A p \in Tree : HeldPath(p)' <=> HeldPath(p) /\ p # x
  BY <1>0, FinishingPlaces
<1>2. y \in Item /\ y.path = x /\ SoundlyRejected(y)
  BY <1>0, <1>1, RejectedSound
<1>3. /\ \A u, v \in Busy' : held'[u].path = held'[v].path => u = v
      /\ \A v \in Busy' : SoundlyRejected(held'[v])
      /\ \A v \in Busy' : ~Exhausted(held'[v]) /\ v \notin Rejecters(held'[v])
  BY <1>0, FinishingKeepsHeld
<1>4. CASE Exhausted(y)
  <2>1. error' = "unowned" /\ todo' = todo
    BY <1>4 DEF CompleteRejected
  <2>2. ~Owned(x)
    BY <1>2, <1>4, EveryoneRejected
  <2>3. \A p \in Tree : Queued(p)' <=> Queued(p)
    BY <2>1 DEF Queued
  <2>4. OnePlace'
    <3>1. \A i, j \in 1..Len(todo') : todo'[i].path = todo'[j].path => i = j
      BY <1>0, <2>1 DEF OnePlace
    <3>2. \A p \in Tree : emitted'[p] <= 1
      BY <1>0 DEF OnePlace
    <3>3. \A p \in Tree : Queued(p)' => ~HeldPath(p)' /\ emitted'[p] = 0
      BY <1>0, <1>1, <2>3 DEF OnePlace
    <3>4. \A p \in Tree : HeldPath(p)' => emitted'[p] = 0
      BY <1>0, <1>1 DEF OnePlace
    <3> QED
      BY <3>1, <3>2, <3>3, <3>4, <1>3 DEF OnePlace
  <2>5. RejectionsSound'
    <3>1. \A i \in 1..Len(todo') : SoundlyRejected(todo'[i])
      BY <1>0, <2>1 DEF RejectionsSound
    <3> QED
      BY <3>1, <1>3 DEF RejectionsSound, SoundlyRejected
  <2>6. StillOpen'
    <3>1. \A i \in 1..Len(todo') : ~Exhausted(todo'[i])
      BY <1>0, <2>1 DEF StillOpen
    <3> QED
      BY <3>1, <1>3 DEF StillOpen, Exhausted, Rejecters
  <2>7. \A p \in Tree : Known(p)' => Known(p)
    BY <1>0, <1>1, <2>3 DEF Known
  <2> QED
    BY <1>0, <2>1, <2>2, <2>4, <2>5, <2>6, <2>7
<1>5. CASE ~Exhausted(y)
  <2>1. error' = error /\ todo' = Append(todo, y)
    BY <1>5 DEF CompleteRejected
  <2>2. /\ Len(todo') = n + 1
        /\ \A i \in 1..n : todo'[i] = todo[i]
        /\ todo'[n + 1] = y
        /\ \A i \in 1..(n + 1) : i \in 1..n \/ i = n + 1
        /\ \A i \in 1..n : i \in 1..(n + 1) /\ n + 1 \in 1..(n + 1)
    BY <1>0, <1>2, <2>1
  <2>3. \A p \in Tree : Queued(p)' <=> Queued(p) \/ p = x
    <3> SUFFICES ASSUME NEW p \in Tree
                 PROVE  Queued(p)' <=> Queued(p) \/ p = x
      OBVIOUS
    <3>1. ASSUME Queued(p)' PROVE Queued(p) \/ p = x
      BY <3>1, <1>2, <2>2 DEF Queued
    <3>2. ASSUME Queued(p) PROVE Queued(p)'
      BY <3>2, <2>2 DEF Queued
    <3>3. ASSUME p = x PROVE Queued(p)'
      <4>1. n + 1 \in 1..Len(todo') /\ todo'[n + 1].path = p
        BY <3>3, <1>0, <1>2, <2>2
      <4> QED
        BY <4>1 DEF Queued
    <3> QED
      BY <3>1, <3>2, <3>3
  <2>4. OnePlace'
    <3>1. \A i \in 1..n : todo[i].path # x
      BY <1>1 DEF Queued
    <3>2. \A i, j \in 1..Len(todo') : todo'[i].path = todo'[j].path => i = j
      BY <3>1, <1>0, <1>2, <2>2 DEF OnePlace
    <3>3. \A p \in Tree : emitted'[p] <= 1
      BY <1>0 DEF OnePlace
    <3>4. \A p \in Tree : Queued(p)' => ~HeldPath(p)' /\ emitted'[p] = 0
      BY <1>0, <1>1, <2>3 DEF OnePlace
    <3>5. \A p \in Tree : HeldPath(p)' => emitted'[p] = 0
      BY <1>0, <1>1 DEF OnePlace
    <3> QED
      BY <3>2, <3>3, <3>4, <3>5, <1>3 DEF OnePlace
  <2>5. RejectionsSound'
    <3>1. \A i \in 1..Len(todo') : SoundlyRejected(todo'[i])
      BY <1>0, <1>2, <2>2 DEF RejectionsSound
    <3> QED
      BY <3>1, <1>3 DEF RejectionsSound, SoundlyRejected
  <2>6. StillOpen'
    <3>1. \A i \in 1..n : ~Exhausted(todo[i])
      BY <1>0 DEF StillOpen
    <3>2. \A i \in 1..(n + 1) : ~Exhausted(todo'[i])
      BY <3>1, <1>5, <2>2
    <3> QED
      BY <3>2, <2>2, <1>3 DEF StillOpen, Exhausted, Rejecters
  <2>7. \A p \in Tree : Known(p)' <=> Known(p)
    BY <1>0, <1>1, <2>3 DEF Known
  <2> QED
    BY <1>0, <2>1, <2>4, <2>5, <2>6, <2>7
<1> QED
  BY <1>4, <1>5

-----------------------------------------------------------------------------
(* The invariant is inductive.                                             *)

(* Grounded is kept by a step that brings no path into play but children   *)
(* of a set reported by the end of it, and that takes back no report.      *)
LEMMA GroundedKept ==
  ASSUME IInv,
         \A p \in Tree : emitted[p] > 0 => emitted'[p] > 0,
         \A p \in Tree : Known(p)' => Known(p) \/
           \E q \in Tree : /\ emitted'[q] > 0 /\ IsAttrSet(q)
                          /\ q \in Reachable /\ p \in Children(q)
  PROVE  Grounded'
<1>1. Grounded
  BY DEF IInv
<1> SUFFICES ASSUME NEW p \in Tree, Known(p)'
             PROVE  /\ p \in Reachable
                    /\ \/ p = Root
                       \/ \E q \in Tree : /\ emitted'[q] > 0 /\ IsAttrSet(q)
                                         /\ p \in Children(q)
  BY DEF Grounded, Reachable, ClosedUnderChildren, IsAttrSet, Children
<1>2. CASE Known(p)
  BY <1>1, <1>2 DEF Grounded
<1>3. CASE \E q \in Tree : /\ emitted'[q] > 0 /\ IsAttrSet(q)
                           /\ q \in Reachable /\ p \in Children(q)
  BY <1>3, ReachableClosed
<1> QED
  BY <1>2, <1>3

(* NothingForgotten is kept by a step that, unless it sets the error,      *)
(* takes nothing out of play and brings the children of each newly         *)
(* reported set into play.                                                 *)
LEMMA NothingForgottenKept ==
  ASSUME IInv,
         error' = "none" =>
           /\ error = "none"
           /\ \A p \in Tree : Known(p) => Known(p)'
           /\ \A q \in Tree : emitted'[q] > 0 /\ IsAttrSet(q) =>
                emitted[q] > 0 \/ \A c \in Children(q) : Known(c)'
  PROVE  NothingForgotten'
<1>1. NothingForgotten
  BY DEF IInv
<1>2. /\ Root \in Tree
      /\ \A q \in Tree : IsAttrSet(q) => Children(q) \subseteq Tree
  BY GraphAssumption, ZenonT(60) DEF AnswerAssumption, Children
<1> SUFFICES ASSUME error' = "none"
             PROVE  /\ Known(Root)'
                    /\ \A q \in Tree : emitted'[q] > 0 /\ IsAttrSet(q) =>
                         \A c \in Children(q) : Known(c)'
  BY DEF NothingForgotten, IsAttrSet, Children
<1>3. Known(Root)'
  BY <1>1, <1>2 DEF NothingForgotten
<1>4. ASSUME NEW q \in Tree, emitted'[q] > 0, IsAttrSet(q),
             NEW c \in Children(q)
      PROVE  Known(c)'
  <2>1. CASE emitted[q] > 0
    BY <2>1, <1>1, <1>2, <1>4 DEF NothingForgotten
  <2>2. CASE \A d \in Children(q) : Known(d)'
    BY <2>2, <1>4
  <2> QED
    BY <2>1, <2>2, <1>4
<1> QED
  BY <1>3, <1>4

(* What a step that moves no path and sets no error keeps.                 *)
LEMMA SamePlaces ==
  ASSUME IInv, UNCHANGED <<todo, held, emitted>>
  PROVE  /\ OnePlace' /\ RejectionsSound' /\ StillOpen' /\ Grounded'
         /\ \A p \in Tree : Known(p)' <=> Known(p)
<1>1. OnePlace /\ RejectionsSound /\ StillOpen /\ Grounded
  BY DEF IInv
<1>2. Busy' = Busy
  BY DEF Busy
<1>3. \A p \in Tree : /\ Queued(p)' <=> Queued(p)
                      /\ HeldPath(p)' <=> HeldPath(p)
  BY <1>2 DEF Queued, HeldPath
<1>4. \A p \in Tree : Known(p)' <=> Known(p)
  BY <1>3 DEF Known
<1>5. OnePlace'
  BY <1>1, <1>2, <1>3 DEF OnePlace
<1>6. RejectionsSound' /\ StillOpen'
  BY <1>1, <1>2 DEF RejectionsSound, SoundlyRejected, StillOpen, Exhausted,
     Rejecters
<1>7. Grounded'
  BY <1>4, GroundedKept
<1> QED
  BY <1>4, <1>5, <1>6, <1>7

(* The inductive invariant holds at first.                                 *)
LEMMA InvInit ==
  Init => IInv
<1> SUFFICES ASSUME Init PROVE IInv
  OBVIOUS
<1>1. TypeInv
  BY TypeInvInit
<1>2. /\ Len(todo) = 1 /\ todo[1] = NewItem(Root)
      /\ todo[1].path = Root /\ todo[1].rejected_by = << >>
      /\ Busy = {} /\ emitted = [p \in Tree |-> 0]
      /\ error = "none" /\ verdict = "running"
  BY DEF Init, Busy, NewItem
<1>3. \A p \in Tree : /\ Queued(p) <=> p = Root
                      /\ ~HeldPath(p) /\ emitted[p] = 0
                      /\ Known(p) <=> p = Root
  BY <1>2 DEF Queued, HeldPath, Known
<1>4. OnePlace
  BY <1>2, <1>3 DEF OnePlace
<1>5. RejectionsSound /\ StillOpen
  BY <1>2, PoolAssumption DEF RejectionsSound, StillOpen, SoundlyRejected,
     Exhausted
<1>6. Grounded /\ NothingForgotten
  BY <1>3, ReachableClosed DEF Grounded, NothingForgotten
<1>7. VerdictSound
  BY <1>2, <1>3 DEF VerdictSound, UnownedIsReal
<1> QED
  BY <1>1, <1>4, <1>5, <1>6, <1>7 DEF IInv

(* What has been found and reported does not change when work is handed out. *)
LEMMA DispatchInv ==
  ASSUME IInv, NEW w \in Worker, Dispatch(w)
  PROVE  Grounded' /\ NothingForgotten' /\ VerdictSound'
<1>1. /\ emitted' = emitted
      /\ \A p \in Tree : Known(p)' <=> Known(p)
  BY DispatchPlaces
<1>2. error' = error /\ verdict' = verdict /\ verdict = "running"
  BY DEF Dispatch
<1>3. Grounded'
  BY <1>1, GroundedKept
<1>4. NothingForgotten'
  BY <1>1, <1>2, NothingForgottenKept
<1>5. VerdictSound'
  BY <1>1, <1>2 DEF IInv, VerdictSound, UnownedIsReal
<1> QED
  BY <1>3, <1>4, <1>5

(* A path that is reported moves from the workers to the reports.          *)
LEMMA EmitInv ==
  ASSUME IInv, NEW w \in Worker, CompleteError(w) \/ CompleteDerivation(w)
  PROVE  Grounded' /\ NothingForgotten' /\ VerdictSound'
<1> DEFINE x == held[w].path
<1>1. /\ Finishing(w) /\ Emit(x) /\ todo' = todo
      /\ ~IsAttrSet(x) /\ error = "none"
      /\ verdict' = verdict /\ verdict = "running"
  BY DEF CompleteError, CompleteDerivation, Finishing, IsAttrSet, IsError,
     IsDerivation
<1>2. /\ \A p \in Tree : emitted'[p] = IF p = x THEN 1 ELSE emitted[p]
      /\ \A p \in Tree : Known(p)' <=> Known(p)
      /\ x \in Tree /\ emitted[x] = 0
  BY <1>1, EmitPlaces, FinishingPlaces
<1>3. Grounded'
  BY <1>2, GroundedKept
<1>4. NothingForgotten'
  BY <1>1, <1>2, NothingForgottenKept
<1>5. VerdictSound /\ error' # "unowned"
  BY <1>1 DEF IInv, CompleteError, CompleteDerivation
<1>6. /\ IsDerivation(x) => Owned(x)
      /\ IsError(x) /\ Answer[x].fatal => error' = "fatal"
      /\ error' = "fatal" => IsError(x) /\ Answer[x].fatal
  BY <1>1 DEF CompleteError, CompleteDerivation, IsError, IsDerivation, Owned
<1>7. \A p \in Tree : emitted'[p] > 0 => p = x \/ emitted[p] > 0
  BY <1>2
<1>8. /\ error' = "fatal" =>
           \E p \in Tree : IsError(p) /\ Answer[p].fatal /\ emitted'[p] > 0
      /\ \A p \in Tree : emitted'[p] > 0 =>
           /\ IsDerivation(p) => Owned(p)
           /\ IsError(p) /\ Answer[p].fatal => error' # "none"
  BY <1>1, <1>2, <1>5, <1>6, <1>7 DEF VerdictSound
<1>9. VerdictSound'
  BY <1>1, <1>5, <1>8 DEF VerdictSound, UnownedIsReal, IsError, IsDerivation,
     Owned
<1> QED
  BY <1>3, <1>4, <1>9

(* An attribute set is replaced by its children.                           *)
LEMMA AttrSetInv ==
  ASSUME IInv, NEW w \in Worker, CompleteAttrSet(w)
  PROVE  Grounded' /\ NothingForgotten' /\ VerdictSound'
<1> DEFINE x == held[w].path
<1>1. /\ Finishing(w) /\ IsAttrSet(x) /\ error' = error /\ error = "none"
      /\ verdict' = verdict /\ verdict = "running"
  BY DEF CompleteAttrSet, Finishing
<1>2. /\ \A p \in Tree : emitted'[p] = IF p = x THEN 1 ELSE emitted[p]
      /\ \A p \in Tree : Known(p)' <=> Known(p) \/ p \in Children(x)
      /\ x \in Tree /\ emitted[x] = 0 /\ HeldPath(x)
  BY <1>1, AttrSetPlaces, FinishingPlaces
<1>3. x \in Reachable
  BY <1>2 DEF IInv, Grounded, Known
<1>4. Grounded'
  BY <1>1, <1>2, <1>3, GroundedKept
<1>5. Children(x) \subseteq Tree
  BY <1>1, ChildrenUnknown
<1>6. NothingForgotten'
  BY <1>1, <1>2, <1>5, NothingForgottenKept
<1>7. VerdictSound
  BY DEF IInv
<1>8. /\ ~IsDerivation(x) /\ ~IsError(x)
      /\ \A p \in Tree : emitted'[p] > 0 => p = x \/ emitted[p] > 0
  BY <1>1, <1>2 DEF IsAttrSet, IsDerivation, IsError
<1>9. VerdictSound'
  BY <1>1, <1>7, <1>8 DEF VerdictSound, UnownedIsReal, IsError, IsDerivation,
     Owned
<1> QED
  BY <1>4, <1>6, <1>9

(* A rejected item is queued again, or refused if everyone has rejected it. *)
LEMMA RejectedInv ==
  ASSUME IInv, NEW w \in Worker, CompleteRejected(w)
  PROVE  Grounded' /\ NothingForgotten' /\ VerdictSound'
<1> DEFINE x == held[w].path
<1>1. /\ Finishing(w) /\ error = "none"
      /\ verdict' = verdict /\ verdict = "running"
      /\ error' \in {"none", "unowned"}
  BY DEF CompleteRejected, Finishing
<1>2. /\ emitted' = emitted
      /\ \A p \in Tree : Known(p)' => Known(p)
      /\ \/ error' = error /\ \A p \in Tree : Known(p) => Known(p)'
         \/ error' = "unowned" /\ IsDerivation(x) /\ ~Owned(x)
  BY RejectedPlaces
<1>3. x \in Reachable
  BY <1>1, FinishingPlaces DEF IInv, Grounded, Known
<1>4. Grounded'
  BY <1>2, GroundedKept
<1>5. NothingForgotten'
  BY <1>1, <1>2, NothingForgottenKept
<1>6. VerdictSound
  BY DEF IInv
<1>7. VerdictSound'
  BY <1>1, <1>2, <1>3, <1>6 DEF VerdictSound, UnownedIsReal, IsError,
     IsDerivation, Owned
<1> QED
  BY <1>4, <1>5, <1>7

(* When the loop ends, it ends for a reason.                               *)
LEMMA EndInv ==
  ASSUME IInv, (\E w \in Worker : Done(w)) \/ Fail \/ Stop \/ UNCHANGED vars
  PROVE  /\ OnePlace' /\ RejectionsSound' /\ StillOpen'
         /\ Grounded' /\ NothingForgotten' /\ VerdictSound'
<1>1. /\ UNCHANGED <<todo, active, error, held, emitted>>
      /\ verdict' = "complete" =>
           (IsDone /\ error = "none") \/ verdict = "complete"
  BY DEF Done, Fail, Stop, vars
<1>2. /\ OnePlace' /\ RejectionsSound' /\ StillOpen' /\ Grounded'
      /\ \A p \in Tree : Known(p)' <=> Known(p)
  BY <1>1, SamePlaces
<1>3. NothingForgotten'
  BY <1>1, <1>2, NothingForgottenKept
<1>4. VerdictSound
  BY DEF IInv
<1>5. VerdictSound'
  BY <1>1, <1>4 DEF VerdictSound, UnownedIsReal, IsError, IsDerivation, Owned,
     IsDone
<1> QED
  BY <1>2, <1>3, <1>5

(* The inductive invariant holds after every step,                         *)
LEMMA InvStep ==
  IInv /\ [Next]_vars => IInv'
<1> SUFFICES ASSUME IInv, [Next]_vars PROVE IInv'
  OBVIOUS
<1>1. TypeInv'
  BY TypeInvStep DEF IInv
<1>2. ASSUME NEW w \in Worker, Dispatch(w) PROVE IInv'
  BY <1>1, <1>2, DispatchPlaces, DispatchInv DEF IInv
<1>3. ASSUME NEW w \in Worker, CompleteAttrSet(w) PROVE IInv'
  BY <1>1, <1>3, AttrSetPlaces, AttrSetInv DEF IInv
<1>4. ASSUME NEW w \in Worker, CompleteError(w) \/ CompleteDerivation(w)
      PROVE  IInv'
  <2>1. Finishing(w) /\ Emit(held[w].path) /\ UNCHANGED todo
    BY <1>4 DEF CompleteError, CompleteDerivation
  <2> QED
    BY <2>1, <1>1, <1>4, EmitPlaces, EmitInv DEF IInv
<1>5. ASSUME NEW w \in Worker, CompleteRejected(w) PROVE IInv'
  BY <1>1, <1>5, RejectedPlaces, RejectedInv DEF IInv
<1>6. CASE (\E w \in Worker : Done(w)) \/ Fail \/ Stop \/ UNCHANGED vars
  BY <1>1, <1>6, EndInv DEF IInv
<1> QED
  BY <1>2, <1>3, <1>4, <1>5, <1>6 DEF Next, Complete

(* and so in every reachable state.                                        *)
LEMMA InvCorrect ==
  Spec => []IInv
BY InvInit, InvStep, PTL DEF Spec

-----------------------------------------------------------------------------
(* The safety properties.                                                  *)

(* No path is ever queued twice, evaluated by two workers, evaluated again *)
(* after it was reported, or reported twice.                               *)
THEOREM OnePlaceCorrect == Spec => []OnePlace
<1>1. IInv => OnePlace
  BY DEF IInv
<1> QED
  BY <1>1, InvCorrect, PTL

(* The list of rejecters that complete measures against worker_count has   *)
(* no duplicates, and only workers that really do not own the derivation.  *)
THEOREM RejectionsCorrect == Spec => []RejectionsSound
<1>1. IInv => RejectionsSound
  BY DEF IInv
<1> QED
  BY <1>1, InvCorrect, PTL

(* "No worker accepted derivation" is only said of a reachable derivation  *)
(* that indeed no worker of the pool owns.                                 *)
THEOREM UnownedCorrect == Spec => []UnownedIsReal
<1>1. IInv => UnownedIsReal
  BY DEF IInv, VerdictSound
<1> QED
  BY <1>1, InvCorrect, PTL

(* The branches of the scheduler that answer a stall are dead code: with   *)
(* work queued and nobody busy there is a worker that takes an item.       *)
THEOREM NeverStalls == Spec => []NeverStalled
<1>1. IInv => NeverStalled
  <2> SUFFICES ASSUME IInv, active = 0, todo # << >>
               PROVE  \E w \in Worker : held[w] = NoItem /\ ~NothingFor(w)
    BY DEF NeverStalled
  <2>1. /\ todo \in Seq(Item) /\ active = Cardinality(Busy) /\ StillOpen
    BY DEF IInv, TypeInv, TypeOK, ActiveCountsBusy
  <2>2. Busy = {}
    BY <2>1, BusyFinite, FS_EmptySet
  <2>3. 1 \in 1..Len(todo) /\ todo[1] \in Item
    BY <2>1
  <2>4. ~Exhausted(todo[1])
    BY <2>1, <2>3 DEF StillOpen
  <2>5. PICK w \in Worker : w \notin Rejecters(todo[1])
    BY <2>3, <2>4, SomeoneLeft
  <2> QED
    BY <2>2, <2>3, <2>5 DEF Busy, NothingFor
<1> QED
  BY <1>1, InvCorrect, PTL

(* What the invariant says of the counter and of the queue: no queued item *)
(* is exhausted, an idle scheduler has no busy worker, and with a busy     *)
(* worker the counter can be decremented.                                  *)
LEMMA InvSays ==
  ASSUME IInv
  PROVE  /\ \A i \in 1..Len(todo) : ~Exhausted(todo[i])
         /\ active = 0 => \A w \in Worker : held[w] = NoItem
         /\ \A w \in Worker : held[w] # NoItem => active - 1 \in Nat
<1>1. StillOpen /\ active \in Nat /\ active = Cardinality(Busy) /\ IsFiniteSet(Busy)
  BY BusyFinite DEF IInv, TypeInv, TypeOK, ActiveCountsBusy
<1>2. active = 0 => Busy = {}
  BY <1>1, FS_EmptySet
<1>3. \A w \in Worker : w \in Busy <=> held[w] # NoItem
  BY DEF Busy
<1>4. active # 0 => active - 1 \in Nat
  BY <1>1
<1>5. active = 0 => \A w \in Worker : held[w] = NoItem
  BY <1>2, <1>3
<1>6. \A w \in Worker : held[w] # NoItem => active - 1 \in Nat
  BY <1>4, <1>5
<1> QED
  BY <1>1, <1>5, <1>6 DEF StillOpen

(* When the queue is empty and nobody is busy, the reported paths are      *)
(* closed under children, so they are everything reachable.                *)
LEMMA DoneMeansAll ==
  ASSUME IInv, IsDone, error = "none"
  PROVE  \A p \in Tree : emitted[p] = IF p \in Reachable THEN 1 ELSE 0
<1> DEFINE S == {p \in Tree : emitted[p] > 0}
<1>1. /\ emitted \in [Tree -> Nat] /\ active = Cardinality(Busy)
      /\ OnePlace /\ Grounded /\ NothingForgotten
  BY DEF IInv, TypeInv, TypeOK, ActiveCountsBusy
<1>2. Busy = {} /\ Len(todo) = 0
  BY <1>1, BusyFinite, FS_EmptySet DEF IsDone
<1>3. \A p \in Tree : Known(p) <=> p \in S
  BY <1>2 DEF Known, Queued, HeldPath
<1>4. /\ Root \in Tree
      /\ \A q \in Tree : IsAttrSet(q) => Children(q) \subseteq Tree
  BY GraphAssumption DEF AnswerAssumption, Children
<1>5. Root \in S
  BY <1>1, <1>3, <1>4 DEF NothingForgotten
<1>6. \A q \in S : IsAttrSet(q) => Children(q) \subseteq S
  BY <1>1, <1>3, <1>4 DEF NothingForgotten
<1>7. Reachable \subseteq S
  BY <1>5, <1>6, ReachableLeast DEF ClosedUnderChildren
<1>8. S \subseteq Reachable
  BY <1>1, <1>3 DEF Grounded
<1>9. \A p \in S : emitted[p] = 1
  BY <1>1 DEF OnePlace
<1>10. \A p \in Tree \ S : emitted[p] = 0
  BY <1>1
<1> QED
  BY <1>7, <1>8, <1>9, <1>10

(* An evaluation that returns Ok by itself has reported every reachable    *)
(* attribute once, and nothing that is not reachable.                      *)
THEOREM CompletenessCorrect == Spec => []CompleteMeansAll
<1>1. IInv => CompleteMeansAll
  BY DoneMeansAll DEF CompleteMeansAll, IInv, VerdictSound
<1> QED
  BY <1>1, InvCorrect, PTL

(* A graph with a fatal error, or with a derivation that nobody owns, is   *)
(* never called complete.                                                  *)
THEOREM UncoveredCorrect == Spec => []UncoveredNeverCompletes
<1>1. IInv => UncoveredNeverCompletes
  <2> SUFFICES ASSUME IInv, verdict = "complete" PROVE Covered
    BY DEF UncoveredNeverCompletes
  <2>1. VerdictSound /\ IsDone /\ error = "none"
    BY DEF IInv, VerdictSound
  <2>2. \A p \in Reachable : p \in Tree /\ emitted[p] > 0
    BY <2>1, DoneMeansAll, ReachableClosed
  <2> QED
    BY <2>1, <2>2 DEF VerdictSound, Covered
<1> QED
  BY <1>1, InvCorrect, PTL

-----------------------------------------------------------------------------
(* Refinement.                                                             *)

(* The graph of the abstract specification is the same graph.              *)
LEMMA SameGraph ==
  /\ T!Root = Root /\ T!Reachable = Reachable
  /\ \A p : /\ T!IsAttrSet(p) <=> IsAttrSet(p)
            /\ T!IsDerivation(p) <=> IsDerivation(p)
            /\ T!IsError(p) <=> IsError(p)
            /\ T!Owned(p) <=> Owned(p)
            /\ T!Children(p) = Children(p)
<1>1. /\ T!Root = Root
      /\ \A p : /\ T!IsAttrSet(p) <=> IsAttrSet(p)
                /\ T!IsDerivation(p) <=> IsDerivation(p)
                /\ T!IsError(p) <=> IsError(p)
                /\ T!Children(p) = Children(p)
  BY DEF T!Root, Root, T!IsAttrSet, IsAttrSet, T!IsDerivation, IsDerivation,
     T!IsError, IsError, T!Children, Children
<1>2. \A p : T!Owned(p) <=> Owned(p)
  BY DEF T!Owned, Owned, T!Accepts, Accepts, T!Worker, Worker
<1>3. \A S \in SUBSET Tree : T!ClosedUnderChildren(S) <=> ClosedUnderChildren(S)
  BY <1>1 DEF T!ClosedUnderChildren, ClosedUnderChildren
<1>4. T!Reachable = Reachable
  BY <1>3 DEF T!Reachable, Reachable
<1> QED
  BY <1>1, <1>2, <1>4

(* An item whose answer is emitted is reported in the abstract too.        *)
LEMMA ReportStep ==
  ASSUME IInv, NEW w \in Worker,
         CompleteAttrSet(w) \/ CompleteError(w) \/ CompleteDerivation(w)
  PROVE  \E p \in Tree : T!Report(p)
<1> DEFINE x == held[w].path
<1>1. /\ Finishing(w) /\ Emit(x)
      /\ verdict = "running" /\ verdict' = verdict
      /\ IsDerivation(x) => Owned(x)
  BY DEF CompleteAttrSet, CompleteError, CompleteDerivation, Finishing, Owned,
     IsAttrSet, IsError, IsDerivation
<1>2. x \in Tree /\ emitted[x] = 0 /\ HeldPath(x)
  BY <1>1, FinishingPlaces
<1>3. \/ x = Root
      \/ \E q \in Tree : emitted[q] > 0 /\ IsAttrSet(q) /\ x \in Children(q)
  BY <1>2 DEF IInv, Grounded, Known
<1>4. T!Discovered(x)
  BY <1>3, SameGraph DEF T!Discovered
<1>5. emitted' = [emitted EXCEPT ![x] = 1]
  BY <1>1, <1>2 DEF Emit
<1>6. T!Report(x)
  BY <1>1, <1>2, <1>4, <1>5, SameGraph DEF T!Report
<1> QED
  BY <1>2, <1>6

(* The traversal starts when the scheduler does,                           *)
LEMMA TraversalInit ==
  Init => T!Init
BY DEF Init, T!Init

(* and every step of the scheduler is one of the traversal, or none.       *)
LEMMA TraversalStep ==
  IInv /\ [Next]_vars => [T!Next]_(T!vars)
<1> SUFFICES ASSUME IInv, [Next]_vars PROVE [T!Next]_(T!vars)
  OBVIOUS
<1>1. ASSUME NEW w \in Worker, Dispatch(w) \/ CompleteRejected(w)
      PROVE  UNCHANGED T!vars
  BY <1>1 DEF Dispatch, CompleteRejected, Finishing, T!vars
<1>2. ASSUME NEW w \in Worker,
             CompleteAttrSet(w) \/ CompleteError(w) \/ CompleteDerivation(w)
      PROVE  T!Next
  BY <1>2, ReportStep DEF T!Next
<1>3. ASSUME NEW w \in Worker, Done(w) PROVE T!Next
  <2>1. IsDone /\ error = "none" /\ verdict = "running"
        /\ verdict' = "complete" /\ UNCHANGED emitted
    BY <1>3 DEF Done
  <2>2. \A p \in Reachable : emitted[p] = 1
    BY <2>1, DoneMeansAll, ReachableClosed
  <2> QED
    BY <2>1, <2>2, SameGraph DEF T!Next, T!Complete
<1>4. CASE Fail
  <2>1. /\ error \in {"fatal", "unowned"} /\ verdict = "running"
        /\ verdict' = "failed" /\ UNCHANGED emitted
        /\ emitted \in [Tree -> Nat] /\ OnePlace /\ VerdictSound
    BY <1>4 DEF Fail, IInv, TypeInv, TypeOK
  <2>2. CASE error = "fatal"
    <3>1. PICK p \in Tree : IsError(p) /\ Answer[p].fatal /\ emitted[p] > 0
      BY <2>1, <2>2 DEF VerdictSound
    <3>2. emitted[p] = 1
      BY <2>1, <3>1 DEF OnePlace
    <3> QED
      BY <2>1, <3>1, <3>2, SameGraph DEF T!Next, T!Fail
  <2>3. CASE error = "unowned"
    BY <2>1, <2>3, SameGraph DEF T!Next, T!Fail, VerdictSound, UnownedIsReal
  <2> QED
    BY <2>1, <2>2, <2>3
<1>5. CASE Stop
  BY <1>5 DEF Stop, T!Next, T!Stop
<1>6. CASE UNCHANGED vars
  BY <1>6 DEF vars, T!vars
<1> QED
  BY <1>1, <1>2, <1>3, <1>4, <1>5, <1>6 DEF Next, Complete

(* The scheduler keeps the promise of Traversal: each of its steps reports *)
(* one newly discovered path, ends the evaluation for a reason that holds  *)
(* of the graph, or shows nothing to the caller.                           *)
THEOREM TraversalImplemented == Spec => ImplementsTraversal
<1>1. Spec => T!Spec
  BY TraversalInit, TraversalStep, InvCorrect, PTL DEF Spec, T!Spec
<1> QED
  BY <1>1 DEF ImplementsTraversal
=============================================================================
