-------------------------- MODULE AttributesProofs --------------------------
(***************************************************************************)
(* Proofs about Attributes: for any graph of values, any set of workers    *)
(* and any scenario. What walks along a path or into a value is defined by *)
(* recursive functions; they are reasoned about by induction, which is     *)
(* first derived from the natural numbers being well-founded.              *)
(***************************************************************************)
EXTENDS Attributes, SequenceTheorems, WellFoundedInduction, TLAPS

-----------------------------------------------------------------------------
(* Induction, as a fact about sets of numbers.                             *)

(* A set of numbers that has one has a least one.                          *)
LEMMA Least ==
  ASSUME NEW T \in SUBSET Nat, T # {}
  PROVE  \E n \in T : \A m \in T : n <= m
<1> DEFINE R == {ss \in Nat \X Nat : ss[1] < ss[2]}
<1>1. IsWellFoundedOn(R, Nat)
  BY NatLessThanWellFounded DEF OpToRel
<1>2. PICK n \in T : \A m \in T : ~(<<m, n>> \in R)
  <2> HIDE DEF R
  <2> QED BY <1>1, WFMin
<1>3. ASSUME NEW m \in T PROVE n <= m
  <2>1. m \in Nat /\ n \in Nat /\ <<m, n>> \in Nat \X Nat
    OBVIOUS
  <2>2. ~(m < n)
    BY <1>2, <2>1
  <2> QED BY <2>1, <2>2
<1> QED BY <1>3

(* What has 0, and with a number the next, has all of them.                *)
LEMMA Induction ==
  ASSUME NEW S, 0 \in S, \A n \in Nat : n \in S => n + 1 \in S
  PROVE  \A n \in Nat : n \in S
<1> SUFFICES ASSUME Nat \ S # {} PROVE FALSE
  OBVIOUS
<1>1. PICK n \in Nat \ S : \A m \in Nat \ S : n <= m
  BY Least
<1>2. n # 0 /\ n - 1 \in Nat /\ n - 1 \notin Nat \ S /\ n = (n - 1) + 1
  BY <1>1
<1> QED BY <1>2

-----------------------------------------------------------------------------
(* Values that have been forced.                                           *)
Had == {v \in Values : Type(v) # "throws"} \union {Failed}

(* What is read from a value has been forced.                              *)
LEMMA AttrIsHad ==
  ASSUME NEW v \in Had, NEW name
  PROVE  GetAttr(v, name) \in Had
BY AttributesAssumption DEF GraphAssumption, Had, GetAttr, Keys, Forced

(* The result of a call has been forced too.                               *)
LEMMA CallIsHad ==
  ASSUME NEW v \in Had
  PROVE  Called(v) \in Had
BY AttributesAssumption DEF GraphAssumption, Had, Called, Forced

(* The root too.                                                           *)
LEMMA RootIsHad ==
  ASSUME NEW s \in Scenarios
  PROVE  RootOf(s) \in Had
<1>1. s.root \in Had
  BY AttributesAssumption DEF Had
<1> QED BY <1>1, CallIsHad DEF RootOf

-----------------------------------------------------------------------------
(* Walks.                                                                  *)

(* A walk of any length can be made, step by step,                         *)
LEMMA WalkExists ==
  ASSUME NEW start, NEW path, NEW n \in Nat
  PROVE  \E f : f = [k \in 0..n |->
                       IF k = 0 THEN start ELSE Called(GetAttr(f[k - 1], path[k]))]
<1> DEFINE IsWalk(f, m) ==
             f = [k \in 0..m |-> IF k = 0 THEN start ELSE Called(GetAttr(f[k - 1], path[k]))]
           S == {m \in Nat : \E f : IsWalk(f, m)}
<1>1. 0 \in S
  <2>1. IsWalk([k \in 0..0 |-> start], 0)
    OBVIOUS
  <2> QED BY <2>1
<1>2. ASSUME NEW m \in Nat, m \in S PROVE m + 1 \in S
  <2>1. PICK f : IsWalk(f, m)
    BY <1>2
  <2> DEFINE g == [k \in 0..(m + 1) |-> IF k <= m THEN f[k] ELSE Called(GetAttr(f[m], path[m + 1]))]
  <2>2. ASSUME NEW k \in 0..(m + 1)
        PROVE  g[k] = IF k = 0 THEN start ELSE Called(GetAttr(g[k - 1], path[k]))
    <3>1. CASE k = 0
      BY <2>1, <3>1
    <3>2. CASE k \in 1..m
      <4>1. g[k] = f[k] /\ g[k - 1] = f[k - 1] /\ k \in 0..m /\ k # 0
        BY <3>2
      <4> QED BY <2>1, <4>1
    <3>3. CASE k = m + 1
      <4>1. g[k] = Called(GetAttr(f[m], path[m + 1])) /\ g[k - 1] = f[m] /\ k # 0
        BY <3>3
      <4> QED BY <3>3, <4>1
    <3> QED BY <3>1, <3>2, <3>3
  <2>3. IsWalk(g, m + 1)
    <3> DEFINE h == [k \in 0..(m + 1) |->
                       IF k = 0 THEN start ELSE Called(GetAttr(g[k - 1], path[k]))]
    <3>1. \A k \in 0..(m + 1) : g[k] = h[k]
      BY <2>2
    <3> QED BY <3>1
  <2> HIDE DEF g, IsWalk
  <2> QED BY <2>3
<1> HIDE DEF S
<1>3. n \in S
  BY <1>1, <1>2, Induction
<1> QED BY <1>3 DEF S

(* so that Walk is one.                                                    *)
LEMMA WalkIs ==
  ASSUME NEW start, NEW path, Len(path) \in Nat
  PROVE  Walk(start, path) =
           [k \in 0..Len(path) |->
              IF k = 0 THEN start
              ELSE Called(GetAttr(Walk(start, path)[k - 1], path[k]))]
BY WalkExists DEF Walk

-----------------------------------------------------------------------------
(* Paths.                                                                  *)

(* A path is a sequence of names of bounded length,                        *)
LEMMA PathsAre ==
  /\ << >> \in Paths
  /\ \A p \in Paths : p \in Seq(Names \ {Marker}) /\ Len(p) \in 0..MaxLength
  /\ \A p \in Seq(Names \ {Marker}) : Len(p) <= MaxLength => p \in Paths
<1> DEFINE N == Names \ {Marker}
<1> HIDE DEF N
<1>1. MaxLength \in Nat
  BY AttributesAssumption
<1>2. ASSUME NEW p \in UNION {[1..n -> N] : n \in 0..MaxLength}
      PROVE  p \in Seq(N) /\ Len(p) \in 0..MaxLength
  <2>1. PICK n \in 0..MaxLength : p \in [1..n -> N]
    OBVIOUS
  <2>2. n \in Nat
    BY <1>1
  <2> QED BY <2>1, <2>2
<1>3. ASSUME NEW p \in Seq(N), Len(p) <= MaxLength
      PROVE  p \in UNION {[1..n -> N] : n \in 0..MaxLength}
  <2>1. p \in [1..Len(p) -> N] /\ Len(p) \in 0..MaxLength
    BY <1>1, <1>3, LenProperties
  <2> QED BY <2>1
<1>4. << >> \in UNION {[1..n -> N] : n \in 0..MaxLength}
  BY <1>1, <1>3, EmptySeq
<1> QED BY <1>2, <1>3, <1>4 DEF Paths, N

(* that may get longer by a name while the bound allows it.                *)
LEMMA PathAppend ==
  ASSUME NEW p \in Paths, Len(p) < MaxLength, NEW name \in Names \ {Marker}
  PROVE  Append(p, name) \in Paths
<1>1. p \in Seq(Names \ {Marker}) /\ Len(p) \in Nat /\ MaxLength \in Nat
  BY PathsAre, AttributesAssumption
<1>2. Append(p, name) \in Seq(Names \ {Marker}) /\ Len(Append(p, name)) = Len(p) + 1
  BY <1>1, AppendProperties
<1> DEFINE q == Append(p, name)
<1>3. q \in Seq(Names \ {Marker}) /\ Len(q) <= MaxLength
  BY <1>1, <1>2
<1> HIDE DEF q
<1>4. q \in Paths
  BY <1>3, PathsAre
<1> QED BY <1>4 DEF q

-----------------------------------------------------------------------------
(* Answers.                                                                *)

(* The value that navigate finds is one that has been forced.              *)
LEMMA WalkIsHad ==
  ASSUME NEW start \in Had, NEW path, Len(path) \in Nat, NEW k \in 0..Len(path)
  PROVE  Walk(start, path)[k] \in Had
<1> DEFINE W == Walk(start, path)
           S == {n \in Nat : n <= Len(path) => W[n] \in Had}
<1>0. /\ W[0] = start
      /\ \A n \in 1..Len(path) : W[n] = Called(GetAttr(W[n - 1], path[n]))
  BY WalkIs
<1> HIDE DEF W
<1>1. 0 \in S
  BY <1>0
<1>2. ASSUME NEW n \in Nat, n \in S PROVE n + 1 \in S
  <2> SUFFICES ASSUME n + 1 <= Len(path) PROVE W[n + 1] \in Had
    OBVIOUS
  <2>1. W[n] \in Had /\ W[n + 1] = Called(GetAttr(W[n], path[n + 1]))
    BY <1>0, <1>2
  <2> QED BY <2>1, AttrIsHad, CallIsHad
<1> HIDE DEF S
<1>3. k \in S
  BY <1>1, <1>2, Induction
<1> QED BY <1>3 DEF S, W

(* What navigate returns is one of the graph's values.                     *)
LEMMA NavigateIsHad ==
  ASSUME scenario \in Scenarios, NEW path \in Paths
  PROVE  Navigate(path) \in Had
<1>1. Root \in Had
  BY RootIsHad DEF Root
<1>2. Len(path) \in Nat
  BY PathsAre, AttributesAssumption
<1> QED BY <1>1, <1>2, CallIsHad, WalkIsHad DEF Navigate

(* A job is a record of what was read.                                     *)
LEMMA JobIs ==
  ASSUME NEW v, NEW drv, Is(GetAttr(v, "name"), "string")
  PROVE  \E name, system, outputs, meta, inputDrvs, constituents :
           /\ Job(v, drv) =
                [kind |-> "Derivation", drv |-> drv, name |-> name, system |-> system,
                 outputs |-> outputs, meta |-> meta, inputDrvs |-> inputDrvs,
                 constituents |-> constituents, gcRootError |-> None]
           /\ outputs = Outputs(v)
           /\ meta = IF scenario.meta THEN ReadMeta(v) ELSE None
BY DEF Job

(* What the answer to a path says of the value that is found.              *)
Named(v)     == Is(GetAttr(v, "name"), "string")
IsJob(v)     == Is(v, "attrs") /\ Drv(v) \notin {None, Failed} /\ Named(v)
Recurses(path, v) ==
  path = << >> \/ scenario.forceRecurse \/ Is(GetAttr(v, Marker), "true")

(* What process_attr answers for a path, by what is found there: a         *)
(* derivation with what make_job reads, or a set with the names to go on   *)
(* with.                                                                   *)
LEMMA ProcessIs ==
  ASSUME scenario \in Scenarios, NEW path \in Paths, NEW e, e = ProcessAttr(path),
         NEW v, v = Navigate(path)
  PROVE  /\ e.kind \in {"AttrSet", "Derivation", "Error"}
         /\ e.kind = "Derivation" <=> IsJob(v)
         /\ e.kind = "Derivation" =>
              e = Job(v, Drv(v)) /\ Drv(v) \in Drvs /\ e.drv = Drv(v) /\ e.gcRootError = None
         /\ e.kind = "AttrSet" =>
              /\ e = AttrSetEvent(e.attrs) /\ e.attrs \subseteq Names \ {Marker}
              /\ \A name : name \in e.attrs <=>
                   /\ Is(v, "attrs") /\ Drv(v) = None /\ Recurses(path, v)
                   /\ name \in Keys(v) \ {Marker}
         /\ e.kind = "Error" => e = ErrorEvent
<1>1. v \in Had
  BY NavigateIsHad
<1>2. CASE v = Failed
  <2>1. e = ErrorEvent
    BY <1>2 DEF ProcessAttr, Is
  <2> QED BY <1>2, <2>1 DEF ErrorEvent, IsJob, Is
<1>3. CASE v # Failed /\ Type(v) # "attrs"
  <2>1. e = AttrSetEvent({})
    BY <1>3 DEF ProcessAttr, Is
  <2> QED BY <1>3, <2>1 DEF AttrSetEvent, IsJob, Is
<1>4. CASE Is(v, "attrs") /\ Drv(v) = Failed
  <2>1. e = ErrorEvent
    BY <1>4, AttributesAssumption DEF ProcessAttr, Is
  <2> QED BY <1>4, <2>1 DEF ErrorEvent, IsJob, Is
<1>5. CASE Is(v, "attrs") /\ Drv(v) = None
  <2>1. e = AttrSetEvent(CollectRecurse(v, path))
    BY <1>5, AttributesAssumption DEF ProcessAttr, Is
  <2>2. v \in Values /\ Type(v) = "attrs" /\ Keys(v) \subseteq Names
    BY <1>1, <1>5 DEF Had, Is, Keys, Names
  <2>3. e.kind = "AttrSet" /\ e.attrs = CollectRecurse(v, path)
    BY <2>1 DEF AttrSetEvent
  <2> QED BY <1>5, <2>1, <2>2, <2>3 DEF CollectRecurse, Recurses, IsJob
<1>6. CASE Is(v, "attrs") /\ Drv(v) \notin {None, Failed}
  <2>1. e = Job(v, Drv(v))
    BY <1>6 DEF ProcessAttr, Is
  <2>2. v \in Values /\ Type(v) = "attrs" /\ Drv(v) \in Drvs
    BY <1>1, <1>6 DEF Had, Is, Drvs
  <2>3. CASE ~Named(v)
    <3>1. e = ErrorEvent
      BY <2>1, <2>3 DEF Job, Named
    <3> QED BY <2>3, <3>1 DEF ErrorEvent, IsJob
  <2>4. CASE Named(v)
    <3>1. e.kind = "Derivation" /\ e.drv = Drv(v) /\ e.gcRootError = None
      BY <2>1, <2>4, JobIs DEF Named
    <3> QED BY <1>6, <2>1, <2>2, <2>4, <3>1 DEF IsJob
  <2> QED BY <2>3, <2>4
<1> QED BY <1>2, <1>3, <1>4, <1>5, <1>6 DEF Is

(* A scenario does not change, and so no answer does.                      *)
LEMMA SameAnswer ==
  ASSUME scenario' = scenario, NEW path
  PROVE  ProcessAttr(path)' = ProcessAttr(path)
BY DEF ProcessAttr, Job, Navigate, Root, CollectRecurse

-----------------------------------------------------------------------------
(* The invariant.                                                          *)

(* What is reported of a path is the answer to it, as it would be at any   *)
(* time, but for what came of its registration.                            *)
Reported ==
  \A p \in DOMAIN events :
    \/ events[p] = ProcessAttr(p)
    \/ /\ ProcessAttr(p).kind = "Derivation" /\ scenario.dir # None
       /\ events[p] = [ProcessAttr(p) EXCEPT !.gcRootError = "symlink"]

(* Two workers register a derivation only in a race, and only one that has *)
(* lost a race finds a link after it had found none.                       *)
Registered ==
  /\ \A w \in Workers :
       work[w] # None /\ stage[w] # "evaluate" =>
         ProcessAttr(work[w]).kind = "Derivation" /\ scenario.dir # None
  /\ \A d : \A w, x \in Registering(d) : w = x \/ d \in raced
  /\ \A d \in links : \A w \in Registering(d) : stage[w] = "symlink" => d \in raced
  /\ scenario.dir = "missing" => links = {}

(* A path that has been found is asked for, under way or answered; the     *)
(* root is, and what the answer to one that is lists, and nothing else.    *)
Found(p) ==
  p \in todo \/ p \in DOMAIN events \/ \E w \in Workers : work[w] = p

Lists(p, name) ==
  p \in DOMAIN events /\ events[p].kind = "AttrSet" /\ name \in events[p].attrs

Traversed ==
  /\ Found(<< >>)
  /\ \A p \in Paths : \A name : Lists(p, name) /\ Len(p) < MaxLength => Found(Append(p, name))
  /\ \A p \in Paths : Found(p) =>
       \/ p = << >>
       \/ \E q \in Paths : \E name : Lists(q, name) /\ p = Append(q, name)

AInv == AttrTypeOK /\ Reported /\ Registered /\ Traversed /\ LinkOrError

(* Nothing is reported, the root is asked for.                             *)
LEMMA AInvInit == AInit => AInv
<1> SUFFICES ASSUME AInit PROVE AInv
  OBVIOUS
<1>1. DOMAIN events = {} /\ links \subseteq Drvs /\ \A w \in Workers : work[w] = None
  BY DEF AInit
<1>2. AttrTypeOK
  BY <1>1, PathsAre DEF AInit, AttrTypeOK
<1>3. Reported /\ LinkOrError
  BY <1>1 DEF Reported, LinkOrError
<1>4. Registered
  BY <1>1 DEF AInit, Registered, Registering
<1>5. Traversed
  BY <1>1, AttributesAssumption DEF AInit, Traversed, Found, Lists
<1> QED BY <1>2, <1>3, <1>4, <1>5 DEF AInv

(* An answer is put with the others, and what it lists is asked for.       *)
LEMMA AnswerKeeps ==
  ASSUME AInv, NEW w \in Workers, NEW p, p = work[w], p # None,
         NEW e, e = ProcessAttr(p), NEW event, Answer(w, event), scenario' = scenario,
         \/ event = e
         \/ /\ e.kind = "Derivation" /\ scenario.dir # None
            /\ event = [e EXCEPT !.gcRootError = "symlink"],
         links \subseteq links', links' \subseteq Drvs,
         raced \subseteq raced', raced' \subseteq Drvs,
         event.kind = "Derivation" /\ scenario.dir # None =>
           IF event.gcRootError # None
             THEN scenario.dir = "missing" \/ event.drv \in raced'
             ELSE event.drv \in links'
  PROVE  AttrTypeOK' /\ Reported' /\ Traversed' /\ LinkOrError'
<1>1. /\ scenario \in Scenarios /\ todo \subseteq Paths /\ DOMAIN events \subseteq Paths
      /\ work \in [Workers -> Paths \union {None}] /\ p \in Paths
      /\ \A q \in DOMAIN events : events[q].kind \in {"AttrSet", "Derivation", "Error"}
  BY DEF AInv, AttrTypeOK
<1>2. /\ DOMAIN events' = DOMAIN events \union {p} /\ events'[p] = event
      /\ \A q \in DOMAIN events : q # p => events'[q] = events[q]
      /\ work' = [work EXCEPT ![w] = None] /\ stage' = stage
  BY DEF Answer
<1>3. /\ event.kind = e.kind /\ e.kind \in {"AttrSet", "Derivation", "Error"}
      /\ e.kind = "AttrSet" => event.attrs = e.attrs /\ e.attrs \subseteq Names \ {Marker}
  <2>1. /\ e.kind \in {"AttrSet", "Derivation", "Error"}
        /\ e.kind = "AttrSet" => e.attrs \subseteq Names \ {Marker}
    BY <1>1, ProcessIs
  <2>2. CASE event = e
    BY <2>1, <2>2
  <2>3. CASE e.kind = "Derivation" /\ event = [e EXCEPT !.gcRootError = "symlink"]
    <3>1. PICK v : e = Job(v, Drv(v)) /\ Is(GetAttr(v, "name"), "string")
      BY <1>1, <2>3, ProcessIs DEF IsJob, Named
    <3>2. event.kind = "Derivation"
      BY <2>3, <3>1, JobIs
    <3> QED BY <2>3, <3>2
  <2> QED BY <2>1, <2>2, <2>3
<1>4. todo' = todo \union (IF event.kind = "AttrSet" /\ Len(p) < MaxLength
                            THEN {Append(p, name) : name \in event.attrs} ELSE {})
  BY DEF Answer
<1>5. todo' \subseteq Paths
  BY <1>1, <1>3, <1>4, PathAppend
<1>6. AttrTypeOK'
  BY <1>1, <1>2, <1>3, <1>5 DEF AInv, AttrTypeOK
<1>7. Reported'
  <2>1. \A q : ProcessAttr(q)' = ProcessAttr(q)
    BY SameAnswer
  <2> QED BY <1>2, <2>1 DEF AInv, Reported
<1>8. LinkOrError'
  BY <1>2 DEF AInv, LinkOrError
<1>9. Traversed'
  <2>1. \A q : Found(q) => Found(q)'
    BY <1>1, <1>2, <1>4 DEF Found
  <2>2. \A q, name : Lists(q, name) => Lists(q, name)'
    <3>1. p \in DOMAIN events => \A name : Lists(p, name) => Lists(p, name)'
      <4>1. p \in DOMAIN events => (events[p].kind = e.kind /\ (e.kind = "AttrSet" => events[p] = e))
        <5> SUFFICES ASSUME p \in DOMAIN events
                     PROVE  events[p].kind = e.kind /\ (e.kind = "AttrSet" => events[p] = e)
          OBVIOUS
        <5>1. CASE events[p] = e
          BY <5>1
        <5>2. CASE e.kind = "Derivation" /\ events[p] = [e EXCEPT !.gcRootError = "symlink"]
          <6>1. PICK v : e = Job(v, Drv(v)) /\ Is(GetAttr(v, "name"), "string")
            BY <1>1, <5>2, ProcessIs DEF IsJob, Named
          <6>2. events[p].kind = "Derivation"
            BY <5>2, <6>1, JobIs
          <6> QED BY <5>2, <6>2
        <5> QED BY <5>1, <5>2 DEF AInv, Reported
      <4> QED BY <1>2, <1>3, <4>1 DEF Lists
    <3> QED BY <1>2, <3>1 DEF Lists
  <2>3. \A q, name : Lists(q, name)' => Lists(q, name) \/ (q = p /\ e.kind = "AttrSet" /\ name \in e.attrs)
    BY <1>2, <1>3 DEF Lists
  <2>4. \A name : Len(p) < MaxLength /\ e.kind = "AttrSet" /\ name \in e.attrs => Found(Append(p, name))'
    BY <1>3, <1>4 DEF Found
  <2>5. ASSUME NEW q \in Paths, Found(q)'
        PROVE  Found(q) \/ \E name : Lists(p, name)' /\ q = Append(p, name)
    <3>1. CASE q \in todo'
      BY <1>2, <1>3, <1>4, <3>1 DEF Found, Lists
    <3>2. CASE q \in DOMAIN events'
      BY <1>2, <3>2 DEF Found
    <3>3. CASE \E x \in Workers : work'[x] = q
      BY <1>1, <1>2, <3>3, AttributesAssumption DEF Found
    <3> QED BY <2>5, <3>1, <3>2, <3>3 DEF Found
  <2> QED BY <1>1, <2>1, <2>2, <2>3, <2>4, <2>5 DEF AInv, Traversed
<1> QED BY <1>6, <1>7, <1>8, <1>9

(* Steps that do not report anything: what has been found is still found.  *)
LEMMA SilentKeeps ==
  ASSUME AInv, UNCHANGED <<scenario, events>>, links' = links, raced \subseteq raced',
         \A p \in Paths : Found(p)' <=> Found(p)
  PROVE  Reported' /\ Traversed' /\ LinkOrError'
<1>1. Reported'
  <2>1. \A q : ProcessAttr(q)' = ProcessAttr(q)
    BY SameAnswer
  <2> QED BY <2>1 DEF AInv, Reported
<1>2. \A p, name : Lists(p, name)' <=> Lists(p, name)
  BY DEF Lists
<1>3. \A p \in Paths : \A name : Lists(p, name) /\ Len(p) < MaxLength => Append(p, name) \in Paths
  <2> SUFFICES ASSUME NEW p \in Paths, NEW name, Lists(p, name), Len(p) < MaxLength
               PROVE  name \in Names \ {Marker}
    BY PathAppend
  <2>1. scenario \in Scenarios /\ p \in DOMAIN events /\ events[p].kind = "AttrSet" /\ name \in events[p].attrs
    BY DEF AInv, AttrTypeOK, Lists
  <2>2. CASE events[p] = ProcessAttr(p)
    BY <2>1, <2>2, ProcessIs
  <2>3. CASE ProcessAttr(p).kind = "Derivation"
             /\ events[p] = [ProcessAttr(p) EXCEPT !.gcRootError = "symlink"]
    <3>1. PICK v : ProcessAttr(p) = Job(v, Drv(v)) /\ Is(GetAttr(v, "name"), "string")
      BY <2>1, <2>3, ProcessIs DEF IsJob, Named
    <3>2. events[p].kind = "Derivation"
      BY <2>3, <3>1, JobIs
    <3> QED BY <2>1, <3>2
  <2> QED BY <2>1, <2>2, <2>3 DEF AInv, Reported
<1>4. Traversed'
  BY <1>2, <1>3, PathsAre DEF AInv, Traversed
<1>5. LinkOrError'
  BY DEF AInv, LinkOrError
<1> QED BY <1>1, <1>4, <1>5

(* A worker takes a path.                                                  *)
LEMMA TakeKeeps ==
  ASSUME AInv, NEW w \in Workers, NEW path \in todo, Take(w, path)
  PROVE  AInv'
<1>1. /\ work[w] = None /\ work' = [work EXCEPT ![w] = path] /\ todo' = todo \ {path}
      /\ stage' = [stage EXCEPT ![w] = "evaluate"]
      /\ UNCHANGED <<scenario, links, events, raced>>
  BY DEF Take
<1>2. /\ work \in [Workers -> Paths \union {None}] /\ path \in Paths /\ todo \subseteq Paths
      /\ stage \in [Workers -> {"evaluate", "exists", "symlink"}]
  BY DEF AInv, AttrTypeOK
<1>3. AttrTypeOK'
  BY <1>1, <1>2 DEF AInv, AttrTypeOK
<1>4. \A p \in Paths : Found(p)' <=> Found(p)
  BY <1>1, <1>2, AttributesAssumption DEF Found
<1>5. Reported' /\ Traversed' /\ LinkOrError'
  BY <1>1, <1>4, SilentKeeps
<1>6. Registered'
  <2>1. \A p : ProcessAttr(p)' = ProcessAttr(p)
    BY <1>1, SameAnswer
  <2>2. \A d : Registering(d)' \subseteq Registering(d) /\ w \notin Registering(d)'
    BY <1>1, <1>2, <2>1 DEF Registering
  <2>3. \A x \in Workers : \A p : work'[x] = p /\ p # None /\ stage'[x] # "evaluate" =>
           ProcessAttr(p)'.kind = "Derivation" /\ scenario'.dir # None
    BY <1>1, <1>2, <2>1 DEF AInv, Registered
  <2>4. \A d \in links' : \A x \in Registering(d)' : stage'[x] = "symlink" => d \in raced'
    BY <1>1, <1>2, <2>2 DEF AInv, Registered
  <2> QED BY <1>1, <2>2, <2>3, <2>4 DEF AInv, Registered
<1> QED BY <1>3, <1>5, <1>6 DEF AInv

(* Answering ends the registration, if there was one.                      *)
LEMMA AnswerRegisters ==
  ASSUME AInv, NEW w \in Workers, work[w] # None, NEW event, Answer(w, event),
         scenario' = scenario, raced \subseteq raced',
         scenario.dir = "missing" => links' = {},
         \A d \in links' \ links : \A x \in Registering(d) \ {w} : d \in raced'
  PROVE  Registered'
<1>1. work' = [work EXCEPT ![w] = None] /\ stage' = stage /\ work \in [Workers -> Paths \union {None}]
  BY DEF Answer, AInv, AttrTypeOK
<1>2. \A p : ProcessAttr(p)' = ProcessAttr(p)
  BY SameAnswer
<1>3. \A d : Registering(d)' \subseteq Registering(d) \ {w}
  BY <1>1, <1>2 DEF Registering
<1>4. \A x \in Workers : \A p : work'[x] = p /\ p # None /\ stage'[x] # "evaluate" =>
         ProcessAttr(p)'.kind = "Derivation" /\ scenario'.dir # None
  BY <1>1, <1>2 DEF AInv, Registered
<1>5. \A d \in links' : \A x \in Registering(d)' : stage'[x] = "symlink" => d \in raced'
  BY <1>1, <1>3 DEF AInv, Registered
<1>6. \A d : \A x, y \in Registering(d)' : x = y \/ d \in raced'
  BY <1>3 DEF AInv, Registered
<1> QED BY <1>4, <1>5, <1>6 DEF Registered

(* What a worker that is at work has in hand.                              *)
LEMMA AtWork ==
  ASSUME AInv, NEW w \in Workers, work[w] # None
  PROVE  \E p, e :
           /\ p \in Paths /\ p = work[w] /\ e = ProcessAttr(p)
           /\ scenario \in Scenarios
           /\ e.kind = "Derivation" => e.drv \in Drvs /\ e.gcRootError = None
           /\ e.kind = "Derivation" => w \in Registering(e.drv) \/ stage[w] = "evaluate"
           /\ stage[w] # "evaluate" => e.kind = "Derivation" /\ scenario.dir # None
<1>1. work[w] \in Paths /\ scenario \in Scenarios
  BY DEF AInv, AttrTypeOK
<1>2. \A p \in Paths : ProcessAttr(p).kind = "Derivation" =>
         ProcessAttr(p).drv \in Drvs /\ ProcessAttr(p).gcRootError = None
  BY <1>1, ProcessIs
<1>3. stage[w] # "evaluate" => ProcessAttr(work[w]).kind = "Derivation" /\ scenario.dir # None
  BY DEF AInv, Registered
<1> QED BY <1>1, <1>2, <1>3 DEF Registering

(* A worker evaluates a path: it answers, or goes on to register.          *)
LEMMA EvaluateKeeps ==
  ASSUME AInv, NEW w \in Workers, Evaluate(w)
  PROVE  AInv'
<1>0. work[w] # None /\ stage[w] = "evaluate" /\ UNCHANGED <<scenario, links>>
  BY DEF Evaluate
<1>1. PICK p, e :
         /\ p \in Paths /\ p = work[w] /\ e = ProcessAttr(p)
         /\ scenario \in Scenarios
         /\ e.kind = "Derivation" => e.drv \in Drvs /\ e.gcRootError = None
  BY <1>0, AtWork
<1>2. links \subseteq Drvs /\ raced \subseteq Drvs /\ (scenario.dir = "missing" => links = {})
  BY DEF AInv, AttrTypeOK, Registered
<1>3. CASE e.kind = "Derivation" /\ scenario.dir # None
  <2>1. /\ stage' = [stage EXCEPT ![w] = "exists"]
        /\ raced' = IF Registering(e.drv) = {} THEN raced ELSE raced \union {e.drv}
        /\ UNCHANGED <<todo, work, events>>
    BY <1>1, <1>3 DEF Evaluate
  <2>2. raced \subseteq raced' /\ raced' \subseteq Drvs
    BY <1>1, <1>2, <1>3, <2>1
  <2>3. AttrTypeOK'
    BY <1>0, <2>1, <2>2 DEF AInv, AttrTypeOK
  <2>4. \A q \in Paths : Found(q)' <=> Found(q)
    BY <2>1 DEF Found
  <2>5. Reported' /\ Traversed' /\ LinkOrError'
    BY <1>0, <2>1, <2>2, <2>4, SilentKeeps
  <2>6. stage \in [Workers -> {"evaluate", "exists", "symlink"}]
    BY DEF AInv, AttrTypeOK
  <2>7. Registered'
    <3>1. \A q : ProcessAttr(q)' = ProcessAttr(q)
      BY <1>0, SameAnswer
    <3>2. \A d : Registering(d)' \subseteq Registering(d) \union (IF d = e.drv THEN {w} ELSE {})
      BY <1>1, <2>1, <2>6, <3>1 DEF Registering
    <3>3. \A x \in Workers : \A q : work'[x] = q /\ q # None /\ stage'[x] # "evaluate" =>
             ProcessAttr(q)'.kind = "Derivation" /\ scenario'.dir # None
      BY <1>0, <1>1, <1>3, <2>1, <2>6, <3>1 DEF AInv, Registered
    <3>4. \A d : \A x, y \in Registering(d)' : x = y \/ d \in raced'
      BY <2>1, <3>2 DEF AInv, Registered
    <3>5. \A d \in links' : \A x \in Registering(d)' : stage'[x] = "symlink" => d \in raced'
      BY <1>0, <2>1, <2>2, <2>6, <3>2 DEF AInv, Registered
    <3> QED BY <1>0, <1>2, <3>3, <3>4, <3>5 DEF Registered
  <2> QED BY <2>3, <2>5, <2>7 DEF AInv
<1>4. CASE ~(e.kind = "Derivation" /\ scenario.dir # None)
  <2>1. Answer(w, e) /\ raced' = raced
    BY <1>1, <1>4 DEF Evaluate
  <2>2. AttrTypeOK' /\ Reported' /\ Traversed' /\ LinkOrError'
    BY <1>0, <1>1, <1>2, <1>4, <2>1, AnswerKeeps
  <2>3. Registered'
    BY <1>0, <1>2, <2>1, AnswerRegisters
  <2> QED BY <2>2, <2>3 DEF AInv
<1> QED BY <1>3, <1>4

(* A worker looks for the link: it answers, or goes on to make it.         *)
LEMMA ExistsKeeps ==
  ASSUME AInv, NEW w \in Workers, Exists(w)
  PROVE  AInv'
<1>0. work[w] # None /\ stage[w] = "exists" /\ UNCHANGED <<scenario, links, raced>>
  BY DEF Exists
<1>1. PICK p, e :
         /\ p \in Paths /\ p = work[w] /\ e = ProcessAttr(p)
         /\ scenario \in Scenarios
         /\ e.kind = "Derivation" /\ e.drv \in Drvs /\ e.gcRootError = None
  BY <1>0, AtWork
<1>2. links \subseteq Drvs /\ raced \subseteq Drvs /\ (scenario.dir = "missing" => links = {})
  BY DEF AInv, AttrTypeOK, Registered
<1>3. CASE e.drv \in links
  <2>1. Answer(w, e)
    BY <1>1, <1>3 DEF Exists
  <2>2. AttrTypeOK' /\ Reported' /\ Traversed' /\ LinkOrError'
    BY <1>0, <1>1, <1>2, <1>3, <2>1, AnswerKeeps
  <2>3. Registered'
    BY <1>0, <1>2, <2>1, AnswerRegisters
  <2> QED BY <2>2, <2>3 DEF AInv
<1>4. CASE e.drv \notin links
  <2>1. stage' = [stage EXCEPT ![w] = "symlink"] /\ UNCHANGED <<todo, work, events>>
    BY <1>1, <1>4 DEF Exists
  <2>2. AttrTypeOK'
    BY <1>0, <2>1 DEF AInv, AttrTypeOK
  <2>3. \A q \in Paths : Found(q)' <=> Found(q)
    BY <2>1 DEF Found
  <2>4. Reported' /\ Traversed' /\ LinkOrError'
    BY <1>0, <2>1, <2>3, SilentKeeps
  <2>5. stage \in [Workers -> {"evaluate", "exists", "symlink"}]
    BY DEF AInv, AttrTypeOK
  <2>6. Registered'
    <3>1. \A q : ProcessAttr(q)' = ProcessAttr(q)
      BY <1>0, SameAnswer
    <3>2. \A d : Registering(d)' = Registering(d)
      BY <1>0, <2>1, <2>5, <3>1 DEF Registering
    <3>3. \A x \in Workers : \A q : work'[x] = q /\ q # None /\ stage'[x] # "evaluate" =>
             ProcessAttr(q)'.kind = "Derivation" /\ scenario'.dir # None
      BY <1>0, <2>1, <2>5, <3>1 DEF AInv, Registered
    <3>4. \A d : w \in Registering(d) => d = e.drv
      BY <1>1 DEF Registering
    <3>5. \A d \in links' : \A x \in Registering(d)' : stage'[x] = "symlink" => d \in raced'
      BY <1>0, <1>4, <2>1, <2>5, <3>2, <3>4 DEF AInv, Registered
    <3> QED BY <1>0, <1>2, <3>2, <3>3, <3>5 DEF AInv, Registered
  <2> QED BY <2>2, <2>4, <2>6 DEF AInv
<1> QED BY <1>3, <1>4

(* A worker makes the link, or fails to.                                   *)
LEMMA SymlinkKeeps ==
  ASSUME AInv, NEW w \in Workers, Symlink(w)
  PROVE  AInv'
<1>0. work[w] # None /\ stage[w] = "symlink" /\ UNCHANGED <<scenario, raced>>
  BY DEF Symlink
<1>1. PICK p, e :
         /\ p \in Paths /\ p = work[w] /\ e = ProcessAttr(p)
         /\ scenario \in Scenarios
         /\ e.kind = "Derivation" /\ e.drv \in Drvs /\ e.gcRootError = None
         /\ w \in Registering(e.drv) /\ scenario.dir # None
  BY <1>0, AtWork
<1>2. links \subseteq Drvs /\ raced \subseteq Drvs /\ (scenario.dir = "missing" => links = {})
  BY DEF AInv, AttrTypeOK, Registered
<1>3. \E v : e = Job(v, Drv(v)) /\ Is(GetAttr(v, "name"), "string")
  BY <1>1, ProcessIs DEF IsJob, Named
<1>4. [e EXCEPT !.gcRootError = None] = e
  BY <1>3, JobIs
<1>5. LET lost == [e EXCEPT !.gcRootError = "symlink"]
      IN  lost.kind = "Derivation" /\ lost.gcRootError = "symlink" /\ lost.drv = e.drv
  BY <1>3, JobIs
<1>6. CASE scenario.dir = "missing" \/ e.drv \in links
  <2> DEFINE event == [e EXCEPT !.gcRootError = "symlink"]
  <2>1. Answer(w, event) /\ links' = links
    BY <1>1, <1>6 DEF Symlink
  <2>2. scenario.dir = "missing" \/ e.drv \in raced'
    BY <1>0, <1>1, <1>6 DEF AInv, Registered
  <2>3. event.drv = e.drv
    BY <1>5
  <2> HIDE DEF event
  <2>4. event.gcRootError # None =>
          scenario.dir = "missing" \/ event.drv \in raced'
    BY <2>2, <2>3
  <2>5. event.gcRootError # None
    BY <1>5, AttributesAssumption DEF event
  <2>6. AttrTypeOK' /\ Reported' /\ Traversed' /\ LinkOrError'
    BY <1>0, <1>1, <1>2, <2>1, <2>4, <2>5, AnswerKeeps DEF event
  <2>7. Registered'
    BY <1>0, <1>2, <2>1, AnswerRegisters
  <2> QED BY <2>6, <2>7 DEF AInv
<1>7. CASE ~(scenario.dir = "missing" \/ e.drv \in links)
  <2>1. Answer(w, e) /\ links' = links \union {e.drv}
    BY <1>1, <1>4, <1>7 DEF Symlink
  <2>2. AttrTypeOK' /\ Reported' /\ Traversed' /\ LinkOrError'
    BY <1>0, <1>1, <1>2, <2>1, AnswerKeeps
  <2>3. \A x \in Registering(e.drv) \ {w} : e.drv \in raced'
    BY <1>0, <1>1 DEF AInv, Registered
  <2>4. Registered'
    BY <1>0, <1>2, <1>7, <2>1, <2>3, AnswerRegisters
  <2> QED BY <2>2, <2>4 DEF AInv
<1> QED BY <1>6, <1>7

(* Every step keeps the invariant.                                         *)
LEMMA AInvStep == AInv /\ [ANext]_avars => AInv'
<1> SUFFICES ASSUME AInv, [ANext]_avars PROVE AInv'
  OBVIOUS
<1>1. ASSUME NEW w \in Workers, \E path \in todo : Take(w, path) PROVE AInv'
  BY <1>1, TakeKeeps
<1>2. ASSUME NEW w \in Workers, Evaluate(w) PROVE AInv'
  BY <1>2, EvaluateKeeps
<1>3. ASSUME NEW w \in Workers, Exists(w) PROVE AInv'
  BY <1>3, ExistsKeeps
<1>4. ASSUME NEW w \in Workers, Symlink(w) PROVE AInv'
  BY <1>4, SymlinkKeeps
<1>5. CASE UNCHANGED avars
  <2>1. \A p \in Paths : Found(p)' <=> Found(p)
    BY <1>5 DEF avars, Found
  <2>2. Reported' /\ Traversed' /\ LinkOrError'
    BY <1>5, <2>1, SilentKeeps DEF avars
  <2>3. AttrTypeOK'
    BY <1>5 DEF avars, AInv, AttrTypeOK
  <2>4. Registered'
    <3>1. \A p : ProcessAttr(p)' = ProcessAttr(p)
      BY <1>5, SameAnswer DEF avars
    <3>2. \A d : Registering(d)' = Registering(d)
      BY <1>5, <3>1 DEF avars, Registering
    <3> QED BY <1>5, <3>1, <3>2 DEF avars, AInv, Registered
  <2> QED BY <2>2, <2>3, <2>4 DEF AInv
<1> QED BY <1>1, <1>2, <1>3, <1>4, <1>5 DEF ANext

(* What is reported, traversed and registered, at any time.                *)
THEOREM AttributesInvariance == ASpec => []AInv
<1>1. AInit => AInv
  BY AInvInit
<1>2. AInv /\ [ANext]_avars => AInv'
  BY AInvStep
<1> QED BY <1>1, <1>2, PTL DEF ASpec

(* Workers have paths, and answers have paths and one of three kinds.      *)
THEOREM AttributesTypes == ASpec => []AttrTypeOK
<1>1. AInv => AttrTypeOK
  BY DEF AInv
<1> QED BY <1>1, AttributesInvariance, PTL

(* What register_gc_root says is true: without an error there is a link,   *)
(* and an error means that there is no directory, or that two workers came *)
(* to the derivation at a time.                                            *)
THEOREM GcRootsAreTrue == ASpec => []LinkOrError
<1>1. AInv => LinkOrError
  BY DEF AInv
<1> QED BY <1>1, AttributesInvariance, PTL

-----------------------------------------------------------------------------
(* Lines.                                                                  *)

(* The line for a job, and what is read back from it.                      *)
LEMMA JobLine ==
  ASSUME NEW path, NEW drv, NEW name, NEW system, NEW outputs, NEW meta, NEW inputDrvs,
         NEW constituents, NEW gcRootError,
         \A o \in outputs : o = <<o[1], o[2]>> /\ o[2] # Null,
         NEW e, e = [kind |-> "Derivation", drv |-> drv, name |-> name, system |-> system,
                     outputs |-> outputs, meta |-> meta, inputDrvs |-> inputDrvs,
                     constituents |-> constituents, gcRootError |-> gcRootError]
  PROVE  ParseEventValue(EventValue(path, e)) = e
<1> DEFINE line == EventValue(path, e)
           pairs == {<<o[1], OrNull(o[2])>> : o \in outputs}
           K(key, value, there) == Key(key, value, there)
           rest == Merged(Key("meta", meta, meta # None),
                     Merged(Key("inputDrvs", inputDrvs, inputDrvs # {}),
                       Merged(Key("constituents", constituents, constituents # None),
                              Key("gcRootError", gcRootError, gcRootError # None))))
           always == [attr |-> path, attrPath |-> path, name |-> name, system |-> system,
                      drvPath |-> drv, outputs |-> pairs]
<1>1. line = Merged(always, rest)
  BY DEF EventValue, DerivationValue
<1>2. /\ DOMAIN always = {"attr", "attrPath", "name", "system", "drvPath", "outputs"}
      /\ always.name = name /\ always.system = system /\ always.drvPath = drv
      /\ always.outputs = pairs
  OBVIOUS
<1>3. /\ DOMAIN rest = {k \in {"meta", "inputDrvs", "constituents", "gcRootError"} :
                          \/ k = "meta" /\ meta # None
                          \/ k = "inputDrvs" /\ inputDrvs # {}
                          \/ k = "constituents" /\ constituents # None
                          \/ k = "gcRootError" /\ gcRootError # None}
      /\ meta # None => rest["meta"] = meta
      /\ inputDrvs # {} => rest["inputDrvs"] = inputDrvs
      /\ constituents # None => rest["constituents"] = constituents
      /\ gcRootError # None => rest["gcRootError"] = gcRootError
  BY DEF Merged, Key
<1> HIDE DEF always, rest, pairs
<1>4. DOMAIN line = DOMAIN always \union DOMAIN rest
  BY <1>1 DEF Merged
<1>5. /\ \A k \in DOMAIN always : line[k] = always[k]
      /\ \A k \in DOMAIN rest : k \notin DOMAIN always => line[k] = rest[k]
  BY <1>1 DEF Merged
<1> HIDE DEF line
<1>6. /\ "drvPath" \in DOMAIN line /\ line.name = name /\ line.drvPath = drv /\ line.system = system
      /\ "outputs" \in DOMAIN line /\ line.outputs = pairs
  BY <1>2, <1>4, <1>5
<1>7. /\ Field(line, "meta", None) = meta
      /\ Field(line, "inputDrvs", {}) = inputDrvs
      /\ Field(line, "constituents", None) = constituents
      /\ Field(line, "gcRootError", None) = gcRootError
  BY <1>2, <1>3, <1>4, <1>5 DEF Field
<1>8. {<<o[1], IF o[2] = Null THEN None ELSE o[2]>> : o \in pairs} = outputs
  <2>1. \A o \in outputs :
           /\ OrNull(o[2]) = Null => o[2] = None
           /\ OrNull(o[2]) # Null => OrNull(o[2]) = o[2]
    BY DEF OrNull
  <2> DEFINE back(x) == <<x[1], IF x[2] = Null THEN None ELSE x[2]>>
  <2>2. \A o \in outputs : back(<<o[1], OrNull(o[2])>>) = o
    <3> SUFFICES ASSUME NEW o \in outputs
                 PROVE  <<o[1], IF OrNull(o[2]) = Null THEN None ELSE OrNull(o[2])>> = o
      OBVIOUS
    <3>1. (IF OrNull(o[2]) = Null THEN None ELSE OrNull(o[2])) = o[2]
      BY <2>1
    <3> QED BY <3>1
  <2> HIDE DEF back
  <2>3. {back(x) : x \in pairs} = outputs
    BY <2>2 DEF pairs
  <2> QED BY <2>3 DEF back
<1>9. ParseEventValue(line) = ParseDerivation(line)
  BY <1>6 DEF ParseEventValue
<1>10. ParseDerivation(line) = e
  BY <1>6, <1>7, <1>8 DEF ParseDerivation, Field
<1> QED BY <1>9, <1>10 DEF line

(* Those for the other events.                                             *)
LEMMA OtherLines ==
  ASSUME NEW path
  PROVE  /\ ParseEventValue(EventValue(path, ErrorEvent)) = ErrorEvent
         /\ \A names : ParseEventValue(EventValue(path, AttrSetEvent(names))) = AttrSetEvent(names)
BY DEF ParseEventValue, EventValue, ErrorEvent, AttrSetEvent, Field

(* The path of an output is a value, or None.                              *)
LEMMA OutputsAre ==
  ASSUME NEW v \in Had
  PROVE  \A o \in Outputs(v) : o = <<o[1], o[2]>> /\ o[2] # Null
<1>1. \A name : OutputPath(v, name) # Null
  <2> SUFFICES ASSUME NEW name PROVE OutputPath(v, name) # Null
    OBVIOUS
  <2> DEFINE out == GetAttr(v, name)
  <2>1. out \in Had /\ GetAttr(out, "outPath") \in Had
    BY AttrIsHad
  <2>2. OutputPath(v, name) \in Values \union {None}
    BY <2>1 DEF OutputPath, Had, Is
  <2> QED BY <2>2, AttributesAssumption
<1> QED BY <1>1 DEF Outputs

(* A subscriber gets from the line of an event the event that it was.      *)
LEMMA ReadBack == AInv => LineReadBack
<1> SUFFICES ASSUME AInv, NEW p \in DOMAIN events
             PROVE  ParseEventValue(EventValue(p, events[p])) = events[p]
  BY DEF LineReadBack
<1>1. p \in Paths /\ scenario \in Scenarios
  BY DEF AInv, AttrTypeOK
<1>2. PICK e, v : e = ProcessAttr(p) /\ v = Navigate(p) /\ v \in Had
  BY <1>1, NavigateIsHad
<1>3. CASE e.kind = "Derivation"
  <2>1. e = Job(v, Drv(v)) /\ Is(GetAttr(v, "name"), "string")
    BY <1>1, <1>2, <1>3, ProcessIs DEF IsJob, Named
  <2>2. PICK name, system, outputs, meta, inputDrvs, constituents :
           /\ e = [kind |-> "Derivation", drv |-> Drv(v), name |-> name, system |-> system,
                   outputs |-> outputs, meta |-> meta, inputDrvs |-> inputDrvs,
                   constituents |-> constituents, gcRootError |-> None]
           /\ outputs = Outputs(v)
    BY <2>1, JobIs
  <2>3. \A o \in outputs : o = <<o[1], o[2]>> /\ o[2] # Null
    BY <1>2, <2>2, OutputsAre
  <2>4. \E gcRootError :
           events[p] = [kind |-> "Derivation", drv |-> Drv(v), name |-> name, system |-> system,
                        outputs |-> outputs, meta |-> meta, inputDrvs |-> inputDrvs,
                        constituents |-> constituents, gcRootError |-> gcRootError]
    <3>1. events[p] = e \/ events[p] = [e EXCEPT !.gcRootError = "symlink"]
      BY <1>2 DEF AInv, Reported
    <3> QED BY <2>2, <3>1
  <2> QED BY <2>3, <2>4, JobLine
<1>4. CASE e.kind # "Derivation"
  <2>1. events[p] = e /\ (e = ErrorEvent \/ e = AttrSetEvent(e.attrs))
    BY <1>1, <1>2, <1>4, ProcessIs DEF AInv, Reported
  <2> QED BY <2>1, OtherLines
<1> QED BY <1>3, <1>4

(* So it is in every reachable state, whatever is missing from the event.  *)
THEOREM EventLines == ASpec => []LineReadBack
BY ReadBack, AttributesInvariance, PTL

-----------------------------------------------------------------------------
(* Completeness.                                                           *)

(* A walk along two paths is the same for as long as the paths are.        *)
LEMMA SameWalk ==
  ASSUME NEW start, NEW p, NEW q, Len(p) \in Nat, Len(q) \in Nat,
         NEW n \in Nat, n <= Len(p), n <= Len(q), \A i \in 1..n : p[i] = q[i]
  PROVE  Walk(start, p)[n] = Walk(start, q)[n]
<1> DEFINE P == Walk(start, p)
           Q == Walk(start, q)
           S == {m \in Nat : m <= n => P[m] = Q[m]}
<1>1. /\ P[0] = start /\ \A m \in 1..n : P[m] = Called(GetAttr(P[m - 1], p[m]))
      /\ Q[0] = start /\ \A m \in 1..n : Q[m] = Called(GetAttr(Q[m - 1], q[m]))
  <2>1. P = [k \in 0..Len(p) |-> IF k = 0 THEN start ELSE Called(GetAttr(P[k - 1], p[k]))]
    BY WalkIs
  <2>2. Q = [k \in 0..Len(q) |-> IF k = 0 THEN start ELSE Called(GetAttr(Q[k - 1], q[k]))]
    BY WalkIs
  <2> HIDE DEF P, Q
  <2>3. P[0] = start /\ Q[0] = start
    BY <2>1, <2>2
  <2>4. \A m \in 1..n : m \in 0..Len(p) /\ m \in 0..Len(q) /\ m # 0
    OBVIOUS
  <2> QED BY <2>1, <2>2, <2>3, <2>4
<1> HIDE DEF P, Q
<1>2. 0 \in S
  BY <1>1
<1>3. ASSUME NEW m \in Nat, m \in S PROVE m + 1 \in S
  <2> SUFFICES ASSUME m + 1 <= n PROVE P[m + 1] = Q[m + 1]
    OBVIOUS
  <2>1. P[m] = Q[m] /\ m + 1 \in 1..n /\ (m + 1) - 1 = m
    BY <1>3
  <2> QED BY <1>1, <2>1
<1> HIDE DEF S
<1>4. n \in S
  BY <1>2, <1>3, Induction
<1> QED BY <1>4 DEF S, P, Q

(* Where a walk ends up, if it does, every name on it was in the set that  *)
(* had been come to.                                                       *)
LEMMA WalkFound ==
  ASSUME NEW start \in Had, NEW p \in Paths, Walk(start, p)[Len(p)] # Failed
  PROVE  \A k \in 0..(Len(p) - 1) : p[k + 1] \in Keys(Walk(start, p)[k]) \ {Marker}
<1> DEFINE W == Walk(start, p)
           S == {m \in Nat : m <= Len(p) => W[Len(p) - m] # Failed}
<1>0. Len(p) \in Nat /\ p \in Seq(Names \ {Marker})
  BY PathsAre, AttributesAssumption
<1>1. \A k \in 0..(Len(p) - 1) : W[k + 1] = Called(GetAttr(W[k], p[k + 1]))
  <2> SUFFICES ASSUME NEW k \in 0..(Len(p) - 1) PROVE W[k + 1] = Called(GetAttr(W[k], p[k + 1]))
    OBVIOUS
  <2>1. W = [j \in 0..Len(p) |-> IF j = 0 THEN start ELSE Called(GetAttr(W[j - 1], p[j]))]
    BY <1>0, WalkIs
  <2> HIDE DEF W
  <2>2. k + 1 \in 0..Len(p) /\ k + 1 # 0 /\ (k + 1) - 1 = k
    BY <1>0
  <2> QED BY <2>1, <2>2
<1>2. W[Len(p)] # Failed
  OBVIOUS
<1> HIDE DEF W
<1>3. \A k \in 0..(Len(p) - 1) : W[k + 1] # Failed =>
         W[k] # Failed /\ p[k + 1] \in Keys(W[k])
  BY <1>1 DEF Called, GetAttr
<1>4. 0 \in S
  BY <1>0, <1>2
<1>5. ASSUME NEW m \in Nat, m \in S PROVE m + 1 \in S
  <2> SUFFICES ASSUME m + 1 <= Len(p) PROVE W[Len(p) - (m + 1)] # Failed
    OBVIOUS
  <2> DEFINE k == Len(p) - (m + 1)
  <2>1. k \in 0..(Len(p) - 1) /\ k + 1 = Len(p) - m /\ m <= Len(p)
    BY <1>0
  <2>2. W[k + 1] # Failed
    BY <1>5, <2>1
  <2> HIDE DEF k
  <2>3. W[k] # Failed
    BY <1>3, <2>1, <2>2
  <2> QED BY <2>3 DEF k
<1> HIDE DEF S
<1>6. \A m \in Nat : m \in S
  BY <1>4, <1>5, Induction
<1>7. ASSUME NEW k \in 0..(Len(p) - 1) PROVE p[k + 1] \in Keys(W[k]) \ {Marker}
  <2>1. Len(p) - (k + 1) \in Nat /\ Len(p) - (Len(p) - (k + 1)) = k + 1
    BY <1>0
  <2>2. W[k + 1] # Failed
    BY <1>0, <1>6, <2>1 DEF S
  <2>3. k + 1 \in 1..Len(p)
    BY <1>0
  <2>4. p[k + 1] \in Names \ {Marker}
    BY <1>0, <2>3, ElementOfSeq
  <2> QED BY <1>3, <2>2, <2>4
<1> QED BY <1>7 DEF W

(* The root is not a function again: what evaluating it has called is not  *)
(* called a second time by navigate. (Where it is, what an attribute set   *)
(* lists need not be found: see ListedAreFound.)                           *)
OneCall == Called(Root) = Root

(* Then a path leads to what it means.                                     *)
LEMMA NavigateMeant ==
  ASSUME OneCall, NEW p \in Paths
  PROVE  Navigate(p) = Meant(p)
<1>1. CASE p = << >>
  <2>1. Len(p) = 0
    BY <1>1
  <2>2. Walk(Called(Root), p)[0] = Called(Root)
    BY <2>1, WalkIs
  <2> QED BY <1>1, <2>1, <2>2 DEF Navigate, Meant
<1>2. CASE p # << >>
  BY <1>2 DEF OneCall, Navigate, Meant
<1> QED BY <1>1, <1>2

(* Nothing is left to do.                                                  *)
Done == todo = {} /\ \A w \in Workers : work[w] = None

(* What an answer lists, by what its path means.                           *)
LEMMA ListsEntered ==
  ASSUME AInv, OneCall, NEW p \in Paths, NEW name
  PROVE  Lists(p, name) <=>
           p \in DOMAIN events /\ Entered(p) /\ name \in Keys(Meant(p)) \ {Marker}
<1>1. PICK e, v : e = ProcessAttr(p) /\ v = Navigate(p) /\ v = Meant(p)
  BY NavigateMeant
<1>2. scenario \in Scenarios
  BY DEF AInv, AttrTypeOK
<1>3. /\ e.kind = "Derivation" <=> IsJob(v)
      /\ e.kind = "AttrSet" =>
           \A x : x \in e.attrs <=>
             Is(v, "attrs") /\ Drv(v) = None /\ Recurses(p, v) /\ x \in Keys(v) \ {Marker}
  BY <1>1, <1>2, ProcessIs
<1>4. Entered(p) <=> Is(v, "attrs") /\ Drv(v) = None /\ Recurses(p, v)
  BY <1>1 DEF Entered, Recurses
<1>5. Entered(p) => e.kind = "AttrSet"
  BY <1>1, <1>4, AttributesAssumption DEF ProcessAttr, AttrSetEvent, Is
<1>6. p \in DOMAIN events => (events[p].kind = e.kind /\ (e.kind = "AttrSet" => events[p] = e))
  <2> SUFFICES ASSUME p \in DOMAIN events
               PROVE  events[p].kind = e.kind /\ (e.kind = "AttrSet" => events[p] = e)
    OBVIOUS
  <2>1. CASE events[p] = e
    BY <2>1
  <2>2. CASE e.kind = "Derivation" /\ events[p] = [e EXCEPT !.gcRootError = "symlink"]
    <3>1. e = Job(v, Drv(v)) /\ Is(GetAttr(v, "name"), "string")
      BY <1>1, <1>2, <2>2, ProcessIs DEF IsJob, Named
    <3>2. events[p].kind = "Derivation"
      BY <2>2, <3>1, JobIs
    <3> QED BY <2>2, <3>2
  <2> QED BY <1>1, <2>1, <2>2 DEF AInv, Reported
<1> QED BY <1>1, <1>3, <1>4, <1>5, <1>6 DEF Lists

(* At the end a path has been answered if all the sets on the way to it    *)
(* have been entered, and only then.                                       *)
LEMMA AnsweredAre ==
  ASSUME AInv, OneCall, Done
  PROVE  \A p \in Paths :
           p \in DOMAIN events <=>
             \A k \in 0..(Len(p) - 1) :
               Entered(SubSeq(p, 1, k)) /\ p[k + 1] \in Keys(Meant(SubSeq(p, 1, k))) \ {Marker}
<1> DEFINE On(p, k) ==
             Entered(SubSeq(p, 1, k)) /\ p[k + 1] \in Keys(Meant(SubSeq(p, 1, k))) \ {Marker}
           S == {n \in Nat : \A p \in Paths : Len(p) = n =>
                   (p \in DOMAIN events <=> \A k \in 0..(n - 1) : On(p, k))}
<1>0. \A p \in Paths : Len(p) \in Nat /\ Len(p) <= MaxLength /\ p \in Seq(Names \ {Marker})
  BY PathsAre, AttributesAssumption
<1>1. \A p \in Paths : Found(p) <=> p \in DOMAIN events
  BY AttributesAssumption DEF Done, Found
<1>2. 0 \in S
  <2>1. << >> \in DOMAIN events
    BY <1>1, PathsAre DEF AInv, Traversed
  <2>2. \A p \in Paths : Len(p) = 0 => p = << >>
    BY <1>0, EmptySeq
  <2>3. \A k : k \notin 0..(0 - 1)
    OBVIOUS
  <2> HIDE DEF On
  <2> QED BY <2>1, <2>2, <2>3
<1>3. ASSUME NEW n \in Nat, n \in S PROVE n + 1 \in S
  <2> SUFFICES ASSUME NEW p \in Paths, Len(p) = n + 1
               PROVE  p \in DOMAIN events <=> \A k \in 0..n : On(p, k)
    OBVIOUS
  <2> DEFINE q == SubSeq(p, 1, n)
  <2>1. /\ p \in Seq(Names \ {Marker}) /\ n + 1 <= MaxLength
        /\ p[n + 1] \in Names \ {Marker}
    BY <1>0, ElementOfSeq
  <2>2. q \in Seq(Names \ {Marker}) /\ Len(q) = n /\ (\A i \in 1..n : q[i] = p[i])
    BY <2>1, SubSeqProperties
  <2>3. p = Append(q, p[n + 1])
    <3>1. Append(q, p[n + 1]) \in Seq(Names \ {Marker}) /\ Len(Append(q, p[n + 1])) = n + 1
          /\ (\A i \in 1..n : Append(q, p[n + 1])[i] = q[i]) /\ Append(q, p[n + 1])[n + 1] = p[n + 1]
      BY <2>1, <2>2, AppendProperties
    <3>2. \A i \in 1..(n + 1) : p[i] = Append(q, p[n + 1])[i]
      BY <2>2, <3>1
    <3> HIDE DEF q
    <3> QED BY <2>1, <3>1, <3>2, SeqEqual
  <2>4. q \in Paths
    <3> HIDE DEF q
    <3>1. Len(q) <= MaxLength
      BY <2>1, <2>2, AttributesAssumption
    <3> QED BY <2>2, <3>1, PathsAre
  <2>5. \A k \in 0..(n - 1) : On(p, k) <=> On(q, k)
    <3> SUFFICES ASSUME NEW k \in 0..(n - 1) PROVE On(p, k) <=> On(q, k)
      OBVIOUS
    <3>1. SubSeq(q, 1, k) = SubSeq(p, 1, k)
      <4>1. /\ SubSeq(q, 1, k) \in Seq(Names \ {Marker}) /\ Len(SubSeq(q, 1, k)) = k
            /\ \A i \in 1..k : SubSeq(q, 1, k)[i] = q[i]
        BY <2>2, SubSeqProperties
      <4>2. /\ SubSeq(p, 1, k) \in Seq(Names \ {Marker}) /\ Len(SubSeq(p, 1, k)) = k
            /\ \A i \in 1..k : SubSeq(p, 1, k)[i] = p[i]
        BY <2>1, SubSeqProperties
      <4>3. \A i \in 1..k : q[i] = p[i]
        BY <2>2
      <4> HIDE DEF q
      <4> QED BY <4>1, <4>2, <4>3, SeqEqual
    <3>2. q[k + 1] = p[k + 1]
      BY <2>2
    <3> QED BY <3>1, <3>2
  <2>6. q \in DOMAIN events <=> \A k \in 0..(n - 1) : On(q, k)
    BY <1>3, <2>2, <2>4
  <2>7. Lists(q, p[n + 1]) <=> q \in DOMAIN events /\ On(p, n)
    BY <2>4, ListsEntered
  <2>8. p \in DOMAIN events <=> Lists(q, p[n + 1])
    <3>1. Lists(q, p[n + 1]) => p \in DOMAIN events
      <4> HIDE DEF q
      <4>1. Len(q) < MaxLength
        BY <2>1, <2>2, AttributesAssumption
      <4>2. Lists(q, p[n + 1]) => Found(Append(q, p[n + 1]))
        BY <2>4, <4>1 DEF AInv, Traversed
      <4>3. Found(p) <=> p \in DOMAIN events
        BY <1>1
      <4> QED BY <2>3, <4>2, <4>3
    <3>2. ASSUME p \in DOMAIN events PROVE Lists(q, p[n + 1])
      <4>1. p # << >>
        OBVIOUS
      <4>2. PICK r \in Paths : \E name : Lists(r, name) /\ p = Append(r, name)
        BY <1>1, <3>2, <4>1 DEF AInv, Traversed
      <4>3. PICK name : Lists(r, name) /\ p = Append(r, name)
        BY <4>2
      <4>4. r = q /\ name = p[n + 1]
        <5>1. r \in Seq(Names \ {Marker})
          BY <1>0
        <5>2. /\ Len(p) = Len(r) + 1 /\ (\A i \in 1..Len(r) : p[i] = r[i]) /\ p[Len(r) + 1] = name
          BY <4>3, <5>1
        <5>3. Len(r) = n
          BY <5>1, <5>2
        <5> HIDE DEF q
        <5> QED BY <2>2, <5>1, <5>2, <5>3, SeqEqual
      <4> QED BY <4>3, <4>4
    <3> QED BY <3>1, <3>2
  <2> HIDE DEF On, q
  <2>9. \A k \in 0..n : k \in 0..(n - 1) \/ k = n
    OBVIOUS
  <2>10. \A k \in 0..(n - 1) : k \in 0..n
    OBVIOUS
  <2> QED BY <2>5, <2>6, <2>7, <2>8, <2>9, <2>10
<1> HIDE DEF S
<1>4. \A n \in Nat : n \in S
  BY <1>2, <1>3, Induction
<1> QED BY <1>0, <1>4 DEF S

(* What is reported at the end is what there is.                           *)
LEMMA AllJobs == AInv /\ OneCall => JobsComplete
<1> SUFFICES ASSUME AInv, OneCall, Done, NEW p \in Paths, NEW v, v = Meant(p)
             PROVE  p \in {q \in DOMAIN events : events[q].kind = "Derivation"} <=>
                      /\ \A k \in 0..(Len(p) - 1) : Entered(SubSeq(p, 1, k))
                      /\ Is(v, "attrs") /\ Drv(v) \in Drvs /\ Is(GetAttr(v, "name"), "string")
  BY DEF JobsComplete, Done
<1>1. scenario \in Scenarios /\ v = Navigate(p) /\ v \in Had
  BY NavigateMeant, NavigateIsHad DEF AInv, AttrTypeOK
<1>2. Is(v, "attrs") => (Drv(v) \in Drvs <=> Drv(v) \notin {None, Failed})
  BY <1>1 DEF Drvs, Is, Had
<1>3. ProcessAttr(p).kind = "Derivation" <=> IsJob(v)
  BY <1>1, ProcessIs
<1>4. p \in DOMAIN events => (events[p].kind = "Derivation" <=> IsJob(v))
  <2> SUFFICES ASSUME p \in DOMAIN events
               PROVE  events[p].kind = "Derivation" <=> ProcessAttr(p).kind = "Derivation"
    BY <1>3
  <2>1. CASE events[p] = ProcessAttr(p)
    BY <2>1
  <2>2. CASE /\ ProcessAttr(p).kind = "Derivation"
             /\ events[p] = [ProcessAttr(p) EXCEPT !.gcRootError = "symlink"]
    <3>1. ProcessAttr(p) = Job(v, Drv(v)) /\ Is(GetAttr(v, "name"), "string")
      BY <1>1, <2>2, ProcessIs DEF IsJob, Named
    <3>2. events[p].kind = "Derivation"
      BY <2>2, <3>1, JobIs
    <3> QED BY <2>2, <3>2
  <2> QED BY <2>1, <2>2 DEF AInv, Reported
<1>5. IsJob(v) => \A k \in 0..(Len(p) - 1) : p[k + 1] \in Keys(Meant(SubSeq(p, 1, k))) \ {Marker}
  <2> SUFFICES ASSUME v # Failed, NEW k \in 0..(Len(p) - 1)
               PROVE  p[k + 1] \in Keys(Meant(SubSeq(p, 1, k))) \ {Marker}
    BY DEF IsJob, Is
  <2>1. Called(Root) \in Had
    BY <1>1, RootIsHad, CallIsHad DEF Root
  <2>2. p[k + 1] \in Keys(Walk(Called(Root), p)[k]) \ {Marker}
    BY <2>1, WalkFound DEF Meant
  <2> DEFINE q == SubSeq(p, 1, k)
  <2>3. Len(p) \in Nat /\ p \in Seq(Names \ {Marker})
    BY PathsAre, AttributesAssumption
  <2>4. Len(q) = k /\ \A i \in 1..k : q[i] = p[i]
    BY <2>3, SubSeqProperties
  <2> HIDE DEF q
  <2>5. Walk(Called(Root), q)[k] = Walk(Called(Root), p)[k]
    BY <2>3, <2>4, SameWalk
  <2>6. Meant(q) = Walk(Called(Root), p)[k]
    BY <2>4, <2>5 DEF Meant
  <2> QED BY <2>2, <2>6 DEF q
<1>6. p \in DOMAIN events <=>
         \A k \in 0..(Len(p) - 1) :
           Entered(SubSeq(p, 1, k)) /\ p[k + 1] \in Keys(Meant(SubSeq(p, 1, k))) \ {Marker}
  BY AnsweredAre
<1> HIDE DEF Done
<1>7. IsJob(v) <=> Is(v, "attrs") /\ Drv(v) \in Drvs /\ Is(GetAttr(v, "name"), "string")
  BY <1>2 DEF IsJob, Named
<1> QED BY <1>4, <1>5, <1>6, <1>7

(* When nothing is left to do, the derivations that have been reported are *)
(* those behind attribute sets that are entered, neither more nor fewer,   *)
(* whichever workers answered and in what order; as long as the root is    *)
(* not a function again.                                                   *)
THEOREM JobsAreComplete == ASpec => [](OneCall => JobsComplete)
BY AllJobs, AttributesInvariance, PTL

-----------------------------------------------------------------------------
(* JSON.                                                                   *)

(* The JSON values to any depth can be made, from those to one less,       *)
LEMMA JsonExists ==
  ASSUME NEW n \in Nat
  PROVE  \E f : f = [d \in 0..n |->
                       [v \in Values |-> IF d = 0 THEN {} ELSE JsonOf(v, f[d - 1])]]
<1> DEFINE IsJson(f, m) ==
             f = [d \in 0..m |-> [v \in Values |-> IF d = 0 THEN {} ELSE JsonOf(v, f[d - 1])]]
           S == {m \in Nat : \E f : IsJson(f, m)}
<1>1. 0 \in S
  <2>1. IsJson([d \in 0..0 |-> [v \in Values |-> {}]], 0)
    OBVIOUS
  <2> QED BY <2>1
<1>2. ASSUME NEW m \in Nat, m \in S PROVE m + 1 \in S
  <2>1. PICK f : IsJson(f, m)
    BY <1>2
  <2> DEFINE g == [d \in 0..(m + 1) |->
                     IF d <= m THEN f[d] ELSE [v \in Values |-> JsonOf(v, f[m])]]
             next(h, d) == [v \in Values |-> IF d = 0 THEN {} ELSE JsonOf(v, h[d - 1])]
  <2>2. ASSUME NEW d \in 0..(m + 1) PROVE g[d] = next(g, d)
    <3>1. CASE d = 0
      <4>1. g[d] = f[0] /\ f[0] = next(f, 0)
        BY <2>1, <3>1
      <4> QED BY <3>1, <4>1
    <3>2. CASE d \in 1..m
      <4>1. g[d] = f[d] /\ g[d - 1] = f[d - 1] /\ d \in 0..m
        BY <3>2
      <4>2. f[d] = next(f, d)
        <5> HIDE DEF g
        <5> QED BY <2>1, <4>1
      <4> QED BY <4>1, <4>2
    <3>3. CASE d = m + 1
      <4>1. g[d] = [v \in Values |-> JsonOf(v, f[m])] /\ g[d - 1] = f[m] /\ d # 0
        BY <3>3
      <4> QED BY <4>1
    <3> QED BY <3>1, <3>2, <3>3
  <2>3. IsJson(g, m + 1)
    <3> DEFINE h == [d \in 0..(m + 1) |-> next(g, d)]
    <3>1. \A d \in 0..(m + 1) : g[d] = h[d]
      BY <2>2
    <3> HIDE DEF next
    <3>2. g = h
      BY <3>1
    <3> QED BY <3>2 DEF next
  <2> HIDE DEF g, IsJson
  <2> QED BY <2>3
<1> HIDE DEF S
<1>3. n \in S
  BY <1>1, <1>2, Induction
<1> QED BY <1>3 DEF S

(* and Json is them.                                                       *)
LEMMA JsonIs ==
  ASSUME NEW d \in 0..Depth, NEW v \in Values
  PROVE  Json[d][v] = IF d = 0 THEN {} ELSE JsonOf(v, Json[d - 1])
<1>1. Depth \in Nat
  BY AttributesAssumption
<1>2. Json = [k \in 0..Depth |-> [u \in Values |-> IF k = 0 THEN {} ELSE JsonOf(u, Json[k - 1])]]
  BY <1>1, JsonExists DEF Json
<1>3. Json[d] = [u \in Values |-> IF d = 0 THEN {} ELSE JsonOf(u, Json[d - 1])]
  BY <1>2
<1> QED BY <1>3

(* The same for a descent.                                                 *)
LEMMA DescentExists ==
  ASSUME NEW start, NEW place, NEW n \in Nat
  PROVE  \E f : f = [k \in 0..n |-> IF k = 0 THEN start ELSE Inside(f[k - 1], place[k])]
<1> DEFINE IsDescent(f, m) ==
             f = [k \in 0..m |-> IF k = 0 THEN start ELSE Inside(f[k - 1], place[k])]
           S == {m \in Nat : \E f : IsDescent(f, m)}
<1>1. 0 \in S
  <2>1. IsDescent([k \in 0..0 |-> start], 0)
    OBVIOUS
  <2> QED BY <2>1
<1>2. ASSUME NEW m \in Nat, m \in S PROVE m + 1 \in S
  <2>1. PICK f : IsDescent(f, m)
    BY <1>2
  <2> DEFINE g == [k \in 0..(m + 1) |-> IF k <= m THEN f[k] ELSE Inside(f[m], place[m + 1])]
  <2>2. ASSUME NEW k \in 0..(m + 1)
        PROVE  g[k] = IF k = 0 THEN start ELSE Inside(g[k - 1], place[k])
    <3>1. CASE k = 0
      BY <2>1, <3>1
    <3>2. CASE k \in 1..m
      <4>1. g[k] = f[k] /\ g[k - 1] = f[k - 1] /\ k \in 0..m /\ k # 0
        BY <3>2
      <4> QED BY <2>1, <4>1
    <3>3. CASE k = m + 1
      <4>1. g[k] = Inside(f[m], place[m + 1]) /\ g[k - 1] = f[m] /\ k # 0
        BY <3>3
      <4> QED BY <3>3, <4>1
    <3> QED BY <3>1, <3>2, <3>3
  <2>3. IsDescent(g, m + 1)
    <3> DEFINE h == [k \in 0..(m + 1) |-> IF k = 0 THEN start ELSE Inside(g[k - 1], place[k])]
    <3>1. \A k \in 0..(m + 1) : g[k] = h[k]
      BY <2>2
    <3> QED BY <3>1
  <2> HIDE DEF g, IsDescent
  <2> QED BY <2>3
<1> HIDE DEF S
<1>3. n \in S
  BY <1>1, <1>2, Induction
<1> QED BY <1>3 DEF S

(* Reading down a place step by step: what is reached at each step is      *)
(* inside what was reached at the one before.                              *)
LEMMA DescentIs ==
  ASSUME NEW start, NEW place, Len(place) \in Nat
  PROVE  /\ Descent(start, place)[0] = start
         /\ \A k \in 0..(Len(place) - 1) :
              Descent(start, place)[k + 1] = Inside(Descent(start, place)[k], place[k + 1])
<1> DEFINE D == Descent(start, place)
<1>1. D = [k \in 0..Len(place) |-> IF k = 0 THEN start ELSE Inside(D[k - 1], place[k])]
  BY DescentExists DEF Descent
<1> HIDE DEF D
<1>2. D[0] = start
  BY <1>1
<1>3. ASSUME NEW k \in 0..(Len(place) - 1) PROVE D[k + 1] = Inside(D[k], place[k + 1])
  <2>1. k + 1 \in 0..Len(place) /\ k + 1 # 0 /\ (k + 1) - 1 = k
    OBVIOUS
  <2> QED BY <1>1, <2>1
<1> QED BY <1>2, <1>3 DEF D

-----------------------------------------------------------------------------
(* Places.                                                                 *)

(* A place that is not the top one is a step and a place inside.           *)
LEMMA PlaceIs ==
  ASSUME NEW place \in Seq(Steps), place # << >>
  PROVE  /\ place[1] \in Steps /\ Tail(place) \in Seq(Steps)
         /\ Len(place) = Len(Tail(place)) + 1 /\ Len(Tail(place)) \in Nat
         /\ \A k \in 1..Len(Tail(place)) : Tail(place)[k] = place[k + 1]
         /\ place = <<place[1]>> \o Tail(place)
<1>1. Len(place) \in Nat \ {0} /\ place[1] \in Steps
  BY EmptySeq, ElementOfSeq
<1>2. /\ Tail(place) \in Seq(Steps) /\ Len(Tail(place)) = Len(place) - 1
      /\ \A k \in 1..Len(Tail(place)) : Tail(place)[k] = place[k + 1]
  BY HeadTailProperties
<1> DEFINE q == <<place[1]>> \o Tail(place)
<1>3. /\ <<place[1]>> \in Seq(Steps) /\ Len(<<place[1]>>) = 1 /\ <<place[1]>>[1] = place[1]
  BY <1>1
<1>4. /\ q \in Seq(Steps) /\ Len(q) = 1 + Len(Tail(place))
      /\ \A i \in 1..(1 + Len(Tail(place))) :
           q[i] = IF i <= 1 THEN <<place[1]>>[i] ELSE Tail(place)[i - 1]
  BY <1>2, <1>3, ConcatProperties
<1> HIDE DEF q
<1>5. \A i \in 1..Len(place) : place[i] = q[i]
  <2> SUFFICES ASSUME NEW i \in 1..Len(place) PROVE place[i] = q[i]
    OBVIOUS
  <2>1. CASE i = 1
    BY <1>1, <1>2, <1>3, <1>4, <2>1
  <2>2. CASE i # 1
    <3>1. i - 1 \in 1..Len(Tail(place)) /\ ~(i <= 1) /\ (i - 1) + 1 = i
      BY <1>1, <1>2, <2>2
    <3>2. q[i] = Tail(place)[i - 1]
      BY <1>1, <1>2, <1>4, <3>1
    <3> QED BY <1>2, <3>1, <3>2
  <2> QED BY <2>1, <2>2
<1>6. place = q
  BY <1>1, <1>2, <1>4, <1>5, SeqEqual
<1> QED BY <1>1, <1>2, <1>6 DEF q

(* And a step and a place inside make one.                                 *)
LEMMA StepIn ==
  ASSUME NEW step \in Steps, NEW rest \in Seq(Steps)
  PROVE  /\ <<step>> \o rest \in Seq(Steps) /\ <<step>> \o rest # << >>
         /\ Len(<<step>> \o rest) = Len(rest) + 1
         /\ (<<step>> \o rest)[1] = step /\ Tail(<<step>> \o rest) = rest
<1> DEFINE q == <<step>> \o rest
<1>1. <<step>> \in Seq(Steps) /\ Len(<<step>>) = 1 /\ <<step>>[1] = step /\ Len(rest) \in Nat
  BY LenProperties
<1>2. /\ q \in Seq(Steps) /\ Len(q) = 1 + Len(rest)
      /\ \A i \in 1..(1 + Len(rest)) : q[i] = IF i <= 1 THEN <<step>>[i] ELSE rest[i - 1]
  BY <1>1, ConcatProperties
<1> HIDE DEF q
<1>3. q # << >> /\ q[1] = step
  BY <1>1, <1>2, EmptySeq
<1>4. /\ Tail(q) \in Seq(Steps) /\ Len(Tail(q)) = Len(rest)
      /\ \A i \in 1..Len(rest) : Tail(q)[i] = rest[i]
  <2>1. /\ Tail(q) \in Seq(Steps) /\ Len(Tail(q)) = Len(q) - 1
        /\ \A i \in 1..Len(Tail(q)) : Tail(q)[i] = q[i + 1]
    BY <1>2, <1>3, HeadTailProperties
  <2>2. ASSUME NEW i \in 1..Len(rest) PROVE q[i + 1] = rest[i]
    <3>1. i + 1 \in 1..(1 + Len(rest)) /\ ~(i + 1 <= 1) /\ (i + 1) - 1 = i
      BY <1>1
    <3> QED BY <1>2, <3>1
  <2> QED BY <1>1, <1>2, <2>1, <2>2
<1>5. Tail(q) = rest
  BY <1>1, <1>4, SeqEqual
<1> QED BY <1>1, <1>2, <1>3, <1>5 DEF q

(* The places of a JSON value.                                             *)
Places(json) == {j[1] : j \in json}

(* The places below a step are those of the JSON value there, with the     *)
(* step before them.                                                       *)
LEMMA PlacesUnder ==
  ASSUME NEW step, NEW json, NEW place
  PROVE  place \in Places(Under(step, json)) <=> \E rest \in Places(json) : place = <<step>> \o rest
<1>1. ASSUME place \in Places(Under(step, json))
      PROVE  \E rest \in Places(json) : place = <<step>> \o rest
  <2>1. PICK p \in json : place = << <<step>> \o p[1], p[2] >>[1]
    BY <1>1 DEF Places, Under
  <2>2. p[1] \in Places(json) /\ place = <<step>> \o p[1]
    BY <2>1 DEF Places
  <2> QED BY <2>2
<1>2. ASSUME NEW rest \in Places(json), place = <<step>> \o rest
      PROVE  place \in Places(Under(step, json))
  <2>1. PICK p \in json : rest = p[1]
    BY DEF Places
  <2> DEFINE j == << <<step>> \o p[1], p[2] >>
  <2>2. j \in Under(step, json)
    BY DEF Under
  <2>3. j[1] = place
    BY <1>2, <2>1
  <2> HIDE DEF j
  <2> QED BY <2>2, <2>3 DEF Places
<1> QED BY <1>1, <1>2

(* A list or an object has its own place and those of its contents.        *)
LEMMA PlacesBelow ==
  ASSUME NEW kind, NEW inner, NEW place
  PROVE  place \in Places({<< << >>, kind >>} \union inner) <=> place = << >> \/ place \in Places(inner)
<1> DEFINE top == << << >>, kind >>
<1>1. top[1] = << >>
  OBVIOUS
<1> HIDE DEF top
<1>2. place \in Places({top} \union inner) <=> place = << >> \/ place \in Places(inner)
  BY <1>1 DEF Places
<1> QED BY <1>2 DEF top

(* A place in what an attribute set or a list holds.                       *)
InSet(v, below, place) ==
  /\ Type(v) = "attrs"
  /\ \E k \in Keys(v) : \E rest \in Places(below[Attr(v)[k]]) : place = <<k>> \o rest

InList(v, below, place) ==
  /\ Type(v) = "list"
  /\ \E i \in DOMAIN Items(v) :
       \E rest \in Places(InArray(below[Items(v)[i]])) : place = <<Index(i)>> \o rest

(* A value that can be read at some depth has a JSON value, and only it:   *)
(* what is in it is under the steps to it.                                 *)
LEMMA JsonPlaces ==
  ASSUME NEW v \in Had, v # Failed, NEW below, NEW d, d > 0
  PROVE  /\ (JsonOf(v, below) # {}) <=> Shown(v, d)
         /\ \A place : place \in Places(JsonOf(v, below)) <=>
              Shown(v, d) /\ (place = << >> \/ InSet(v, below, place) \/ InList(v, below, place))
<1>0. v \in Values /\ Type(v) # "throws"
  BY DEF Had
<1>1. CASE Type(v) \in {"function", "lambda"}
  <2>1. JsonOf(v, below) = {} /\ ~Shown(v, d)
    BY <1>1 DEF JsonOf, Shown
  <2> QED BY <2>1 DEF Places
<1>2. CASE Type(v) = "attrs"
  <2> DEFINE inner == UNION {Under(k, below[Attr(v)[k]]) : k \in Keys(v)}
  <2>1. JsonOf(v, below) = {<< << >>, "object" >>} \union inner
    BY <1>2 DEF JsonOf
  <2>2. Shown(v, d)
    BY <1>2 DEF Shown, Is
  <2>3. \A place : place \in Places(inner) <=>
           \E k \in Keys(v) : place \in Places(Under(k, below[Attr(v)[k]]))
    BY DEF Places
  <2> HIDE DEF inner
  <2>4. \A place : place \in Places(JsonOf(v, below)) <=> place = << >> \/ place \in Places(inner)
    BY <2>1, PlacesBelow
  <2>5. JsonOf(v, below) # {}
    BY <2>1
  <2>6. \A place : place \in Places(inner) <=>
           \E k \in Keys(v) : \E rest \in Places(below[Attr(v)[k]]) : place = <<k>> \o rest
    <3> TAKE place
    <3>1. \A k \in Keys(v) : place \in Places(Under(k, below[Attr(v)[k]])) <=>
             \E rest \in Places(below[Attr(v)[k]]) : place = <<k>> \o rest
      BY PlacesUnder
    <3> QED BY <2>3, <3>1
  <2>7. \A place : InSet(v, below, place) <=> place \in Places(inner)
    BY <1>2, <2>6 DEF InSet
  <2>8. \A place : ~InList(v, below, place)
    BY <1>2 DEF InList
  <2> QED BY <2>2, <2>4, <2>5, <2>7, <2>8
<1>3. CASE Type(v) = "list" /\ ~Listable(v)
  <2>1. JsonOf(v, below) = {} /\ ~Shown(v, d)
    BY <1>0, <1>3 DEF JsonOf, Shown, Is
  <2> QED BY <2>1 DEF Places
<1>4. CASE Type(v) = "list" /\ Listable(v)
  <2> DEFINE inner == UNION {Under(Index(i), InArray(below[Items(v)[i]])) : i \in DOMAIN Items(v)}
  <2>1. JsonOf(v, below) = {<< << >>, "array" >>} \union inner
    BY <1>4 DEF JsonOf
  <2>2. Shown(v, d)
    BY <1>4 DEF Shown, Is
  <2>3. \A place : place \in Places(inner) <=>
           \E i \in DOMAIN Items(v) : place \in Places(Under(Index(i), InArray(below[Items(v)[i]])))
    BY DEF Places
  <2> HIDE DEF inner
  <2>4. \A place : place \in Places(JsonOf(v, below)) <=> place = << >> \/ place \in Places(inner)
    BY <2>1, PlacesBelow
  <2>5. JsonOf(v, below) # {}
    BY <2>1
  <2>6. \A place : place \in Places(inner) <=>
           \E i \in DOMAIN Items(v) :
             \E rest \in Places(InArray(below[Items(v)[i]])) : place = <<Index(i)>> \o rest
    <3> TAKE place
    <3>1. \A i \in DOMAIN Items(v) : place \in Places(Under(Index(i), InArray(below[Items(v)[i]]))) <=>
             \E rest \in Places(InArray(below[Items(v)[i]])) : place = <<Index(i)>> \o rest
      BY PlacesUnder
    <3> QED BY <2>3, <3>1
  <2>7. \A place : InList(v, below, place) <=> place \in Places(inner)
    BY <1>4, <2>6 DEF InList
  <2>8. \A place : ~InSet(v, below, place)
    BY <1>4 DEF InSet
  <2> QED BY <2>2, <2>4, <2>5, <2>7, <2>8
<1>5. CASE Type(v) \notin {"function", "lambda", "attrs", "list"}
  <2>1. JsonOf(v, below) = {<< << >>, Type(v) >>}
    BY <1>0, <1>5 DEF JsonOf
  <2>2. Shown(v, d)
    BY <1>5 DEF Shown, Is
  <2>3. \A place : place \in Places(JsonOf(v, below)) <=> place = << >>
    BY <2>1 DEF Places
  <2> QED BY <1>5, <2>1, <2>2, <2>3 DEF InSet, InList
<1> QED BY <1>1, <1>2, <1>3, <1>4, <1>5

(* The JSON value of a value that has been forced.                         *)
JsonAt(d, v) == IF v = Failed THEN {} ELSE Json[d][v]

(* Whether a place is shown, by what is on the way to it.                  *)
ShownAt(d, v, place) ==
  LET n  == Len(place)
      at == Descent(v, place)
  IN  /\ \A k \in 0..(n - 1) : Shown(at[k], d - k)
      /\ \/ Shown(at[n], d - n)
         \/ n > 0 /\ Is(at[n - 1], "list") /\ at[n] # Failed

(* It is so for a place inside what the first step leads to, if what the   *)
(* step is made from is shown.                                             *)
LEMMA ShownInside ==
  ASSUME NEW v, NEW place \in Seq(Steps), place # << >>, NEW d \in Nat
  PROVE  LET u    == Inside(v, place[1])
             rest == Tail(place)
         IN  ShownAt(d + 1, v, place) <=>
               /\ Shown(v, d + 1)
               /\ \/ ShownAt(d, u, rest)
                  \/ rest = << >> /\ Is(v, "list") /\ u # Failed
<1> DEFINE u    == Inside(v, place[1])
           rest == Tail(place)
           m    == Len(rest)
           A    == Descent(v, place)
           B    == Descent(u, rest)
           S    == {k \in Nat : k <= m => A[k + 1] = B[k]}
<1>0. /\ rest \in Seq(Steps) /\ m \in Nat /\ Len(place) = m + 1
      /\ \A k \in 1..m : rest[k] = place[k + 1]
  BY PlaceIs
<1>1. A[0] = v /\ \A k \in 0..m : A[k + 1] = Inside(A[k], place[k + 1])
  BY <1>0, DescentIs
<1>2. B[0] = u /\ \A k \in 0..(m - 1) : B[k + 1] = Inside(B[k], rest[k + 1])
  <2> HIDE DEF u, rest
  <2> QED BY <1>0, DescentIs
<1>3. ShownAt(d + 1, v, place) <=>
        /\ \A k \in 0..m : Shown(A[k], (d + 1) - k)
        /\ Shown(A[m + 1], (d + 1) - (m + 1)) \/ (Is(A[m], "list") /\ A[m + 1] # Failed)
  <2>1. Len(place) - 1 = m /\ Len(place) = m + 1 /\ Len(place) > 0
    BY <1>0
  <2> HIDE DEF m, A
  <2> QED BY <2>1 DEF ShownAt, A
<1>4. ShownAt(d, u, rest) <=>
        /\ \A k \in 0..(m - 1) : Shown(B[k], d - k)
        /\ Shown(B[m], d - m) \/ (m > 0 /\ Is(B[m - 1], "list") /\ B[m] # Failed)
  BY DEF ShownAt
<1>5. rest = << >> <=> m = 0
  BY <1>0, EmptySeq
<1> HIDE DEF A, B, u, rest, m
<1>6. 0 \in S
  <2>1. A[0 + 1] = Inside(A[0], place[0 + 1])
    BY <1>0, <1>1
  <2> QED BY <1>1, <1>2, <2>1 DEF u
<1>7. ASSUME NEW k \in Nat, k \in S PROVE k + 1 \in S
  <2> SUFFICES ASSUME k + 1 <= m PROVE A[(k + 1) + 1] = B[k + 1]
    OBVIOUS
  <2>1. A[k + 1] = B[k] /\ k + 1 \in 0..m /\ k \in 0..(m - 1) /\ k + 1 \in 1..m
    BY <1>0, <1>7
  <2>2. A[(k + 1) + 1] = Inside(A[k + 1], place[(k + 1) + 1])
    BY <1>1, <2>1
  <2>3. B[k + 1] = Inside(B[k], rest[k + 1]) /\ rest[k + 1] = place[(k + 1) + 1]
    BY <1>0, <1>2, <2>1
  <2> QED BY <2>1, <2>2, <2>3
<1> HIDE DEF S
<1>8. \A k \in Nat : k \in S
  BY <1>6, <1>7, Induction
<1>9. \A k \in 0..m : A[k + 1] = B[k]
  BY <1>0, <1>8 DEF S
<1>10. (\A k \in 0..m : Shown(A[k], (d + 1) - k)) <=>
         Shown(v, d + 1) /\ \A k \in 0..(m - 1) : Shown(B[k], d - k)
  <2>1. ASSUME \A k \in 0..m : Shown(A[k], (d + 1) - k), NEW k \in 0..(m - 1)
        PROVE  Shown(B[k], d - k)
    <3>1. k + 1 \in 0..m /\ k \in 0..m /\ (d + 1) - (k + 1) = d - k
      BY <1>0
    <3>2. Shown(A[k + 1], (d + 1) - (k + 1))
      BY <2>1, <3>1
    <3> QED BY <1>9, <3>1, <3>2
  <2>2. ASSUME \A k \in 0..m : Shown(A[k], (d + 1) - k)
        PROVE  Shown(v, d + 1)
    <3>1. 0 \in 0..m /\ (d + 1) - 0 = d + 1
      BY <1>0
    <3>2. Shown(A[0], (d + 1) - 0)
      BY <2>2, <3>1
    <3> QED BY <1>1, <3>1, <3>2
  <2>3. ASSUME Shown(v, d + 1), \A k \in 0..(m - 1) : Shown(B[k], d - k), NEW k \in 0..m
        PROVE  Shown(A[k], (d + 1) - k)
    <3>1. CASE k = 0
      <4>1. (d + 1) - 0 = d + 1
        OBVIOUS
      <4> QED BY <1>1, <2>3, <3>1, <4>1
    <3>2. CASE k # 0
      <4>1. k - 1 \in 0..(m - 1) /\ k - 1 \in 0..m /\ (k - 1) + 1 = k /\ d - (k - 1) = (d + 1) - k
        BY <1>0, <3>2
      <4>2. Shown(B[k - 1], d - (k - 1)) /\ A[(k - 1) + 1] = B[k - 1]
        BY <1>9, <2>3, <4>1
      <4> QED BY <4>1, <4>2
    <3> QED BY <3>1, <3>2
  <2> QED BY <2>1, <2>2, <2>3
<1>11. A[m + 1] = B[m] /\ (d + 1) - (m + 1) = d - m
  BY <1>0, <1>9
<1> DEFINE Goal ==
             ShownAt(d + 1, v, place) <=>
               /\ Shown(v, d + 1)
               /\ \/ ShownAt(d, u, rest)
                  \/ rest = << >> /\ Is(v, "list") /\ u # Failed
<1>12. ASSUME m = 0 PROVE Goal
  <2>1. A[m] = v /\ B[m] = u
    BY <1>1, <1>2, <1>12
  <2> QED BY <1>3, <1>4, <1>5, <1>10, <1>11, <1>12, <2>1
<1>13. ASSUME m # 0 PROVE Goal
  <2>1. A[m] = B[m - 1] /\ m > 0
    <3>1. m - 1 \in 0..m /\ (m - 1) + 1 = m /\ m > 0
      BY <1>0, <1>13
    <3> QED BY <1>9, <3>1
  <2> QED BY <1>3, <1>4, <1>5, <1>10, <1>11, <2>1
<1>14. Goal
  BY <1>12, <1>13
<1> QED BY <1>14 DEF u, rest

(* What throws has no JSON value.                                          *)
LEMMA JsonOfForced ==
  ASSUME NEW d \in 0..Depth, NEW v \in Values
  PROVE  Json[d][v] = JsonAt(d, Forced(v)) /\ Forced(v) \in Had
<1>1. CASE Type(v) = "throws"
  <2>1. JsonOf(v, Json[d - 1]) = {}
    BY <1>1 DEF JsonOf
  <2> QED BY <1>1, <2>1, JsonIs DEF Forced, JsonAt, Had
<1>2. CASE Type(v) # "throws"
  <2>1. v # Failed
    BY AttributesAssumption
  <2> QED BY <1>2, <2>1 DEF Forced, JsonAt, Had
<1> QED BY <1>1, <1>2

(* In an array, null stands for what has no JSON value.                    *)
LEMMA PlacesInArray ==
  ASSUME NEW json, NEW place
  PROVE  place \in Places(InArray(json)) <=> place \in Places(json) \/ (json = {} /\ place = << >>)
<1>1. CASE json = {}
  <2>1. InArray(json) = {<< << >>, "null" >>} \union json
    BY <1>1 DEF InArray
  <2>2. Places(json) = {}
    BY <1>1 DEF Places
  <2> QED BY <1>1, <2>1, <2>2, PlacesBelow
<1>2. CASE json # {}
  BY <1>2 DEF InArray
<1> QED BY <1>1, <1>2

(* What is in a value of the graph is one.                                 *)
LEMMA InGraph ==
  ASSUME NEW v \in Values
  PROVE  /\ Type(v) = "attrs" => \A k \in Keys(v) : k \in Steps /\ Attr(v)[k] \in Values
         /\ Type(v) = "list" =>
              /\ \A i \in DOMAIN Items(v) : Index(i) \in Steps /\ Items(v)[i] \in Values
              /\ \A i, j \in DOMAIN Items(v) : Index(i) = Index(j) => i = j
<1>1. CASE Type(v) = "attrs"
  <2>1. Attr(v) \in [DOMAIN Attr(v) -> Values] /\ Keys(v) = DOMAIN Attr(v)
    BY <1>1, AttributesAssumption DEF GraphAssumption, Keys
  <2>2. DOMAIN Attr(v) \subseteq Names
    BY <1>1 DEF Names
  <2> QED BY <1>1, <2>1, <2>2 DEF Steps
<1>2. CASE Type(v) = "list"
  <2>1. /\ Items(v) \in Seq(Values)
        /\ \A i, j \in DOMAIN Items(v) : Index(i) = Index(j) => i = j
    BY <1>2, AttributesAssumption DEF GraphAssumption
  <2>2. \A i \in DOMAIN Items(v) : Items(v)[i] \in Values
    BY <2>1
  <2>3. \A i \in DOMAIN Items(v) : Index(i) \in Steps
    BY <1>2 DEF Steps
  <2> QED BY <1>2, <2>1, <2>2, <2>3
<1> QED BY <1>1, <1>2

(* A place in a JSON value to some depth is at most that deep.             *)
LEMMA PlacesDeep ==
  ASSUME NEW n \in 0..Depth, NEW w \in Values
  PROVE  \A place \in Places(Json[n][w]) : place \in Seq(Steps) /\ Len(place) <= n
<1> DEFINE S == {d \in Nat : d <= Depth =>
                   \A v \in Values : \A place \in Places(Json[d][v]) :
                     place \in Seq(Steps) /\ Len(place) <= d}
<1>0. Depth \in Nat
  BY AttributesAssumption
<1>1. 0 \in S
  <2>1. \A v \in Values : Places(Json[0][v]) = {}
    BY <1>0, JsonIs DEF Places
  <2> QED BY <2>1
<1>2. ASSUME NEW d \in Nat, d \in S PROVE d + 1 \in S
  <2> SUFFICES ASSUME d + 1 <= Depth, NEW v \in Values, NEW place \in Places(Json[d + 1][v])
               PROVE  place \in Seq(Steps) /\ Len(place) <= d + 1
    OBVIOUS
  <2>1. \A x \in Values : \A rest \in Places(Json[d][x]) : rest \in Seq(Steps) /\ Len(rest) <= d
    BY <1>0, <1>2
  <2>2. d \in 0..Depth /\ d + 1 \in 0..Depth /\ d + 1 # 0 /\ (d + 1) - 1 = d /\ d + 1 > 0
    BY <1>0
  <2>3. Json[d + 1][v] = JsonOf(v, Json[d])
    BY <2>2, JsonIs
  <2>4. v \in Had /\ v # Failed
    <3>1. Type(v) # "throws"
      BY <2>3 DEF JsonOf, Places
    <3> QED BY <3>1, AttributesAssumption DEF Had
  <2>5. place = << >> \/ InSet(v, Json[d], place) \/ InList(v, Json[d], place)
    BY <2>2, <2>3, <2>4, JsonPlaces
  <2>6. CASE place = << >>
    BY <2>6, EmptySeq
  <2>7. ASSUME Type(v) = "attrs", NEW k \in Keys(v), NEW rest \in Places(Json[d][Attr(v)[k]]),
               place = <<k>> \o rest
        PROVE  place \in Seq(Steps) /\ Len(place) <= d + 1
    <3>1. k \in Steps /\ rest \in Seq(Steps) /\ Len(rest) <= d /\ Len(rest) \in Nat
      BY <2>1, <2>7, InGraph, LenProperties
    <3>2. place \in Seq(Steps) /\ Len(place) = Len(rest) + 1
      BY <2>7, <3>1, StepIn
    <3> QED BY <3>1, <3>2
  <2>8. ASSUME Type(v) = "list", NEW i \in DOMAIN Items(v),
               NEW rest \in Places(InArray(Json[d][Items(v)[i]])), place = <<Index(i)>> \o rest
        PROVE  place \in Seq(Steps) /\ Len(place) <= d + 1
    <3>1. Index(i) \in Steps /\ Items(v)[i] \in Values
      BY <2>8, InGraph
    <3>2. rest \in Places(Json[d][Items(v)[i]]) \/ rest = << >>
      BY PlacesInArray
    <3>3. rest \in Seq(Steps) /\ Len(rest) <= d /\ Len(rest) \in Nat
      <4>1. CASE rest = << >>
        <5>1. rest \in Seq(Steps) /\ Len(rest) = 0
          BY <4>1, EmptySeq
        <5> QED BY <5>1
      <4>2. CASE rest \in Places(Json[d][Items(v)[i]])
        <5>1. rest \in Seq(Steps) /\ Len(rest) <= d
          BY <2>1, <3>1, <4>2
        <5> QED BY <5>1, LenProperties
      <4> QED BY <3>2, <4>1, <4>2
    <3>4. place \in Seq(Steps) /\ Len(place) = Len(rest) + 1
      BY <2>8, <3>1, <3>3, StepIn
    <3> QED BY <3>3, <3>4
  <2> QED BY <2>5, <2>6, <2>7, <2>8 DEF InSet, InList
<1> HIDE DEF S
<1>3. n \in S /\ n <= Depth
  BY <1>0, <1>1, <1>2, Induction
<1> QED BY <1>3 DEF S

(* Behind a failure nothing is shown.                                      *)
LEMMA FailedHidden ==
  ASSUME NEW d \in Nat, NEW place \in Seq(Steps)
  PROVE  ~ShownAt(d, Failed, place)
<1>1. Len(place) \in Nat
  BY LenProperties
<1>2. Descent(Failed, place)[0] = Failed
  BY <1>1, DescentIs
<1>3. \A k : ~Shown(Failed, k)
  BY DEF Shown
<1>4. CASE Len(place) = 0
  BY <1>2, <1>3, <1>4 DEF ShownAt
<1>5. CASE Len(place) # 0
  <2>1. 0 \in 0..(Len(place) - 1)
    BY <1>1, <1>5
  <2> QED BY <1>2, <1>3, <2>1 DEF ShownAt
<1> QED BY <1>4, <1>5

(* Where there is a JSON value, there is its top.                          *)
LEMMA TopPlace ==
  ASSUME NEW d \in 0..Depth, NEW v \in Had, JsonAt(d, v) # {}
  PROVE  << >> \in Places(JsonAt(d, v))
<1>1. v # Failed /\ v \in Values
  BY DEF JsonAt, Had
<1>2. d \in Nat /\ d # 0 /\ JsonAt(d, v) = JsonOf(v, Json[d - 1])
  <2>1. d \in Nat
    BY AttributesAssumption
  <2> QED BY <1>1, <2>1, JsonIs DEF JsonAt
<1> DEFINE below == Json[d - 1]
<1>3. d > 0 /\ JsonOf(v, below) # {} /\ JsonAt(d, v) = JsonOf(v, below)
  BY <1>2
<1> HIDE DEF below
<1>4. << >> \in Places(JsonOf(v, below))
  BY <1>1, <1>3, JsonPlaces
<1> QED BY <1>3, <1>4

(* At any depth the places of the JSON value are those that are shown.     *)
LEMMA PlacesShown ==
  ASSUME NEW n \in 0..Depth, NEW w \in Had, NEW q \in Seq(Steps)
  PROVE  q \in Places(JsonAt(n, w)) <=> ShownAt(n, w, q)
<1> DEFINE S == {d \in Nat : d <= Depth =>
                   \A v \in Had : \A place \in Seq(Steps) :
                     place \in Places(JsonAt(d, v)) <=> ShownAt(d, v, place)}
<1>0. Depth \in Nat /\ Failed \notin Values
  BY AttributesAssumption
<1>1. 0 \in S
  <2> SUFFICES ASSUME NEW v \in Had, NEW place \in Seq(Steps)
               PROVE  place \notin Places(JsonAt(0, v)) /\ ~ShownAt(0, v, place)
    OBVIOUS
  <2>1. JsonAt(0, v) = {}
    BY <1>0, JsonIs DEF JsonAt, Had
  <2>2. ~ShownAt(0, v, place)
    <3>1. \A x, k : ~(k > 0) => ~Shown(x, k)
      BY DEF Shown
    <3>2. Len(place) \in Nat
      BY LenProperties
    <3>3. CASE Len(place) = 0
      BY <3>1, <3>3 DEF ShownAt
    <3>4. CASE Len(place) # 0
      <4>1. 0 \in 0..(Len(place) - 1) /\ ~(0 - 0 > 0)
        BY <3>2, <3>4
      <4> QED BY <3>1, <4>1 DEF ShownAt
    <3> QED BY <3>3, <3>4
  <2> QED BY <2>1, <2>2 DEF Places
<1>2. ASSUME NEW d \in Nat, d \in S PROVE d + 1 \in S
  <2> SUFFICES ASSUME d + 1 <= Depth, NEW v \in Had, NEW place \in Seq(Steps)
               PROVE  place \in Places(JsonAt(d + 1, v)) <=> ShownAt(d + 1, v, place)
    OBVIOUS
  <2>1. \A x \in Had : \A rest \in Seq(Steps) :
           rest \in Places(JsonAt(d, x)) <=> ShownAt(d, x, rest)
    BY <1>0, <1>2
  <2>2. d \in 0..Depth /\ d + 1 \in 0..Depth /\ d + 1 # 0 /\ (d + 1) - 1 = d /\ d + 1 > 0
    BY <1>0
  <2>3. CASE v = Failed
    <3>1. Places(JsonAt(d + 1, v)) = {}
      BY <2>3 DEF JsonAt, Places
    <3>2. ~ShownAt(d + 1, v, place)
      BY <2>3, FailedHidden
    <3> QED BY <3>1, <3>2
  <2>4. ASSUME v # Failed
        PROVE  place \in Places(JsonAt(d + 1, v)) <=> ShownAt(d + 1, v, place)
    <3> DEFINE below == Json[d]
               e     == d + 1
    <3>1. v \in Values /\ JsonAt(e, v) = JsonOf(v, below) /\ e > 0
      <4>1. v \in Values
        BY <2>4 DEF Had
      <4>2. Json[d + 1][v] = JsonOf(v, Json[d])
        BY <2>2, <4>1, JsonIs
      <4> QED BY <2>2, <2>4, <4>1, <4>2 DEF JsonAt
    <3>2. \A x \in Values : below[x] = JsonAt(d, Forced(x)) /\ Forced(x) \in Had
      BY <2>2, JsonOfForced
    <3>3. \A step, rest : step \in Steps /\ rest \in Seq(Steps) /\ place = <<step>> \o rest =>
             place # << >> /\ place[1] = step /\ Tail(place) = rest
      BY StepIn
    <3>4. \A x \in Values : \A rest \in Places(below[x]) : rest \in Seq(Steps)
      BY <2>2, PlacesDeep
    <3> HIDE DEF below
    <3>5. CASE place = << >>
      <4>1. ShownAt(e, v, place) <=> Shown(v, e)
        <5>1. Len(place) = 0 /\ Descent(v, place)[0] = v /\ e - 0 = e
          BY <3>5, DescentIs
        <5> HIDE DEF e
        <5> QED BY <5>1 DEF ShownAt
      <4> HIDE DEF e
      <4>2. place \in Places(JsonOf(v, below)) <=> Shown(v, e)
        BY <2>4, <3>1, <3>5, JsonPlaces
      <4> QED BY <3>1, <4>1, <4>2 DEF e
    <3>6. ASSUME place # << >>
          PROVE  place \in Places(JsonAt(e, v)) <=> ShownAt(e, v, place)
      <4> DEFINE s    == place[1]
                 rest == Tail(place)
                 u    == Inside(v, s)
      <4>1. s \in Steps /\ rest \in Seq(Steps) /\ place = <<s>> \o rest
        BY <3>6, PlaceIs
      <4>2. ShownAt(e, v, place) <=>
              /\ Shown(v, e)
              /\ ShownAt(d, u, rest) \/ (rest = << >> /\ Is(v, "list") /\ u # Failed)
        BY <3>6, ShownInside
      <4> HIDE DEF e, s, rest, u
      <4>3. place \in Places(JsonOf(v, below)) <=>
             Shown(v, e) /\ (InSet(v, below, place) \/ InList(v, below, place))
        BY <2>4, <3>1, <3>6, JsonPlaces
      <4>4. CASE Type(v) = "attrs"
        <5>1. InSet(v, below, place) <=> s \in Keys(v) /\ rest \in Places(below[Attr(v)[s]])
          <6>1. ASSUME NEW k \in Keys(v), NEW r \in Places(below[Attr(v)[k]]), place = <<k>> \o r
                PROVE  k = s /\ r = rest
            <7>1. k \in Steps /\ r \in Seq(Steps)
              BY <3>1, <3>4, <4>4, InGraph
            <7> QED BY <3>3, <6>1, <7>1 DEF s, rest
          <6> QED BY <4>1, <4>4, <6>1 DEF InSet
        <5>2. u = GetAttr(v, s)
          BY <2>4, <4>4 DEF u, Inside, Is
        <5>3. CASE s \in Keys(v)
          <6>1. Attr(v)[s] \in Values
            BY <3>1, <4>4, <5>3, InGraph
          <6>2. u = Forced(Attr(v)[s])
            BY <2>4, <5>2, <5>3 DEF GetAttr
          <6>3. rest \in Places(below[Attr(v)[s]]) <=> ShownAt(d, u, rest)
            BY <2>1, <3>2, <4>1, <6>1, <6>2
          <6>4. ~Is(v, "list") /\ ~InList(v, below, place)
            BY <4>4 DEF Is, InList
          <6> QED BY <3>1, <4>2, <4>3, <5>1, <5>3, <6>3, <6>4
        <5>4. CASE s \notin Keys(v)
          <6>1. u = Failed
            BY <5>2, <5>4 DEF GetAttr
          <6>2. ~ShownAt(d, u, rest)
            BY <4>1, <6>1, FailedHidden
          <6>3. ~InSet(v, below, place) /\ ~InList(v, below, place)
            BY <4>4, <5>1, <5>4 DEF InList
          <6> QED BY <3>1, <4>2, <4>3, <6>1, <6>2, <6>3
        <5> QED BY <5>3, <5>4
      <4>5. CASE Type(v) = "list"
        <5>0. /\ \A i \in DOMAIN Items(v) : Index(i) \in Steps /\ Items(v)[i] \in Values
              /\ \A i, j \in DOMAIN Items(v) : Index(i) = Index(j) => i = j
              /\ Is(v, "list") /\ u = Item(v, s)
          <6>1. Is(v, "list") /\ ~Is(v, "attrs")
            BY <2>4, <4>5 DEF Is
          <6> QED BY <3>1, <4>5, <6>1, InGraph DEF u, Inside
        <5>1. InList(v, below, place) <=> \E i \in DOMAIN Items(v) : Index(i) = s /\ rest \in Places(InArray(below[Items(v)[i]]))
          <6>1. ASSUME NEW i \in DOMAIN Items(v), NEW r \in Places(InArray(below[Items(v)[i]])),
                       place = <<Index(i)>> \o r
                PROVE  Index(i) = s /\ r = rest
            <7>1. r \in Places(below[Items(v)[i]]) \/ r = << >>
              BY PlacesInArray
            <7>2. r \in Seq(Steps) /\ Index(i) \in Steps
              BY <3>4, <5>0, <7>1, EmptySeq
            <7> QED BY <3>3, <6>1, <7>2 DEF s, rest
          <6> QED BY <4>1, <4>5, <6>1 DEF InList
        <5>2. CASE \E i \in DOMAIN Items(v) : Index(i) = s
          <6>1. PICK i \in DOMAIN Items(v) : Index(i) = s
            BY <5>2
          <6>2. Items(v)[i] \in Values /\ u = Forced(Items(v)[i])
            <7>1. \A j \in DOMAIN Items(v) : Index(j) = s => j = i
              BY <5>0, <6>1
            <7>2. (CHOOSE j \in DOMAIN Items(v) : Index(j) = s) = i
              BY <6>1, <7>1
            <7> QED BY <5>0, <5>2, <7>2 DEF Item
          <6>3. InList(v, below, place) <=> rest \in Places(InArray(below[Items(v)[i]]))
            BY <5>0, <5>1, <6>1
          <6>4. below[Items(v)[i]] = JsonAt(d, u) /\ u \in Had
            BY <3>2, <6>2
          <6>5. InList(v, below, place) <=> ShownAt(d, u, rest) \/ (JsonAt(d, u) = {} /\ rest = << >>)
            BY <2>1, <4>1, <6>3, <6>4, PlacesInArray
          <6>6. Shown(v, e) => u # Failed
            BY <5>0, <6>1, <6>2 DEF Shown, Listable
          <6>7. JsonAt(d, u) # {} /\ rest = << >> => ShownAt(d, u, rest)
            <7>1. JsonAt(d, u) # {} => << >> \in Places(JsonAt(d, u))
              BY <2>2, <6>4, TopPlace
            <7> QED BY <2>1, <4>1, <6>4, <7>1
          <6>8. ~InSet(v, below, place)
            BY <4>5 DEF InSet
          <6> QED BY <3>1, <4>2, <4>3, <5>0, <6>5, <6>6, <6>7, <6>8
        <5>3. CASE ~\E i \in DOMAIN Items(v) : Index(i) = s
          <6>1. u = Failed
            BY <5>0, <5>3 DEF Item
          <6>2. ~ShownAt(d, u, rest)
            BY <4>1, <6>1, FailedHidden
          <6>3. ~InSet(v, below, place) /\ ~InList(v, below, place)
            BY <4>5, <5>1, <5>3 DEF InSet
          <6> QED BY <3>1, <4>2, <4>3, <6>1, <6>2, <6>3
        <5> QED BY <5>2, <5>3
      <4>6. CASE Type(v) \notin {"attrs", "list"}
        <5>1. u = Failed
          BY <4>6 DEF u, Inside, Is
        <5>2. ~ShownAt(d, u, rest)
          BY <4>1, <5>1, FailedHidden
        <5>3. ~InSet(v, below, place) /\ ~InList(v, below, place)
          BY <4>6 DEF InSet, InList
        <5> QED BY <3>1, <4>2, <4>3, <5>1, <5>2, <5>3
      <4> QED BY <4>4, <4>5, <4>6
    <3> QED BY <3>5, <3>6
  <2> QED BY <2>3, <2>4
<1> HIDE DEF S
<1>3. n \in S /\ n <= Depth
  BY <1>0, <1>1, <1>2, Induction
<1> QED BY <1>3 DEF S

(* What an event says of its metadata is all there is to say.              *)
LEMMA AllMeta == AInv /\ OneCall => MetaComplete
<1> DEFINE bounded    == UNION {[1..n -> Steps] : n \in 0..Depth}
           json(m)    == IF m = None THEN {} ELSE m
<1> SUFFICES ASSUME AInv, OneCall, NEW p \in DOMAIN events,
                    events[p].kind = "Derivation", scenario.meta,
                    NEW meta, meta = GetAttr(Meant(p), "meta")
             PROVE  Places(json(events[p].meta)) = {place \in bounded : ShownAt(Depth, meta, place)}
  BY DEF MetaComplete, Places, ShownAt
<1>0. Depth \in Nat /\ Depth \in 0..Depth
  BY AttributesAssumption
<1>1. scenario \in Scenarios /\ p \in Paths
  BY DEF AInv, AttrTypeOK
<1>2. PICK v : v = Meant(p) /\ v = Navigate(p) /\ v \in Had
  BY <1>1, NavigateMeant, NavigateIsHad
<1>3. events[p].meta = ReadMeta(v)
  <2> DEFINE e == ProcessAttr(p)
  <2>1. events[p] = e \/ (e.kind = "Derivation" /\ events[p] = [e EXCEPT !.gcRootError = "symlink"])
    BY DEF AInv, Reported
  <2>2. e.kind = "Derivation"
    BY <2>1
  <2>3. e = Job(v, Drv(v)) /\ Is(GetAttr(v, "name"), "string")
    BY <1>1, <1>2, <2>2, ProcessIs DEF IsJob, Named
  <2> HIDE DEF e
  <2>4. PICK name, system, outputs, inputDrvs, constituents :
           e = [kind |-> "Derivation", drv |-> Drv(v), name |-> name, system |-> system,
                outputs |-> outputs, meta |-> ReadMeta(v), inputDrvs |-> inputDrvs,
                constituents |-> constituents, gcRootError |-> None]
    BY <2>3, JobIs
  <2> QED BY <2>1, <2>4
<1>4. json(events[p].meta) = JsonAt(Depth, meta)
  <2>1. meta \in Had
    BY <1>2, AttrIsHad
  <2>2. CASE meta = Failed
    <3>1. ReadMeta(v) = None
      BY <1>2, <2>2 DEF ReadMeta
    <3> QED BY <1>3, <2>2, <3>1 DEF JsonAt
  <2>3. CASE meta # Failed
    <3>1. meta \in Values /\ Json[Depth][meta] # None
      BY <2>1, <2>3, JsonAssumption DEF Had
    <3>2. ReadMeta(v) = IF Json[Depth][meta] = {} THEN None ELSE Json[Depth][meta]
      BY <1>2, <2>3 DEF ReadMeta
    <3> QED BY <1>3, <2>3, <3>1, <3>2 DEF JsonAt
  <2> QED BY <2>2, <2>3
<1>5. meta \in Had
  BY <1>2, AttrIsHad
<1>6. \A place \in Seq(Steps) : place \in Places(JsonAt(Depth, meta)) <=> ShownAt(Depth, meta, place)
  BY <1>0, <1>5, PlacesShown
<1>7. \A place \in Places(JsonAt(Depth, meta)) : place \in Seq(Steps) /\ Len(place) <= Depth
  BY <1>0, <1>5, PlacesDeep DEF JsonAt, Had, Places
<1>8. \A place : place \in bounded <=> place \in Seq(Steps) /\ Len(place) <= Depth
  <2>1. ASSUME NEW place \in bounded PROVE place \in Seq(Steps) /\ Len(place) <= Depth
    <3>1. PICK n \in 0..Depth : place \in [1..n -> Steps]
      OBVIOUS
    <3> QED BY <1>0, <3>1
  <2>2. ASSUME NEW place \in Seq(Steps), Len(place) <= Depth PROVE place \in bounded
    <3>1. Len(place) \in 0..Depth /\ place \in [1..Len(place) -> Steps]
      BY <1>0, <2>2, LenProperties
    <3> QED BY <3>1
  <2> QED BY <2>1, <2>2
<1> HIDE DEF bounded, json
<1> QED BY <1>4, <1>6, <1>7, <1>8

(* A reported derivation has the metadata that its attributes have, at     *)
(* every place that is not too deep or behind what cannot be read, and     *)
(* nowhere else: also in a graph that has cycles.                          *)
THEOREM MetaIsComplete == ASpec => [](OneCall => MetaComplete)
BY AllMeta, AttributesInvariance, PTL
=============================================================================
