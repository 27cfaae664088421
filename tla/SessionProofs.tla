--------------------------- MODULE SessionProofs ---------------------------
(***************************************************************************)
(* Proofs about Session, for any jobs and scenarios, any contents of the   *)
(* inputs and any number of changes and of queries.                        *)
(***************************************************************************)
EXTENDS Session, SequenceTheorems, TLAPS

-----------------------------------------------------------------------------
(* The inductive invariant.                                                *)

(* Where a job is, apart from waiting for its receiver.                    *)
Place(j) == IF At(j, "flush") THEN next[j] ELSE pc[j]

(* Only what is called does anything.                                      *)
Uncalled ==
  /\ \A j \in Job \ scenario.calls : Place(j) = "unused"
  /\ \A j \in Job : next[j] # "flush"

(* The initial evaluation is claimed once, and its job is known by it.     *)
Claimed ==
  /\ OneInitial
  /\ initial = "Idle" => \A j \in Job : ~first[j]
  /\ \A j \in Job :
       first[j] => /\ Kind[j] # "diff"
                   /\ Place(j) \in {"eval", "store", "fail", "lost", "record", "finish"}
  /\ \A j \in Job :
       Kind[j] = "stream" /\ Place(j) \in {"eval", "store", "fail"} => first[j]
  /\ \A j \in Job : Place(j) \in {"record", "finish"} => first[j]

(* Everything but the initial evaluation happens after it.                 *)
Completed ==
  /\ initial = "Idle" => ~completed
  /\ \A j \in Job : first[j] => (completed <=> Place(j) = "finish")
  /\ \A j \in Job :
       Place(j) \in {"eval", "store", "fail", "send", "register", "loop", "recv",
                     "debounce", "previous"} /\ ~first[j]
       => completed

(* A call without a runtime finds the lock free, if there are no queries.  *)
Recordable == ~Fault("noruntime") \/ scenario.readers = 0

(* What is in g was in one of the versions up to n.                        *)
Once(g, n) ==
  \A p \in DOMAIN g :
    \E v \in 0..n : p \in DOMAIN Content[v] /\ Content[v][p] = g[p]

(* What was in all of them is in g, apart from the paths in P.             *)
Covers(g, P, n) ==
  \A p \in Path \ P :
    (\A v \in 0..n : p \in DOMAIN Content[v]) => p \in DOMAIN g

Evaluated ==
  /\ \A j \in Job :
       Place(j) \in {"eval", "store"} =>
         Once(seen[j], version) /\ Covers(seen[j], todo[j], version)
  /\ \A j \in Job : Place(j) = "store" => todo[j] = {} \/ cancel
  /\ completed => Once(graph, version) /\ (Covers(graph, {}, version) \/ cancel)

(* What the only replacer has read, and what its client has.               *)
Followed(j) ==
  /\ Place(j) \in {"loop", "recv", "debounce", "previous"} => view[j] = graph
  /\ Place(j) \in {"eval", "store"} /\ ~first[j] =>
       previous[j] = graph /\ (Kind[j] = "watch" => view[j] = graph)
  /\ Place(j) = "send" => view[j] = previous[j] /\ seen[j] = graph

Followers == OneReplacer => \A j \in Job : Followed(j)

Held ==
  /\ Backpressure
  /\ \A j \in Job : ~open[j] => unread[j] = 0

Inv ==
  /\ STypeOK /\ Uncalled /\ Claimed /\ Completed
  /\ (Recordable => OutcomeKnown)
  /\ Evaluated /\ Followers /\ Held

-----------------------------------------------------------------------------
(* Graphs.                                                                 *)

(* What a graph is.                                                        *)
LEMMA GraphIs ==
  ASSUME NEW g
  PROVE  g \in Graph <=>
           /\ DOMAIN g \subseteq Path /\ g = [p \in DOMAIN g |-> g[p]]
           /\ \A p \in DOMAIN g : g[p] \in Drv
<1>1. ASSUME g \in Graph
      PROVE  /\ DOMAIN g \subseteq Path /\ g = [p \in DOMAIN g |-> g[p]]
             /\ \A p \in DOMAIN g : g[p] \in Drv
  <2>1. PICK D \in SUBSET Path : g \in [D -> Drv]
    BY <1>1 DEF Graph
  <2> QED BY <2>1
<1>2. ASSUME DOMAIN g \subseteq Path, g = [p \in DOMAIN g |-> g[p]],
             \A p \in DOMAIN g : g[p] \in Drv
      PROVE  g \in Graph
  <2>1. g \in [DOMAIN g -> Drv]
    BY <1>2
  <2> QED BY <1>2, <2>1 DEF Graph
<1> QED BY <1>1, <1>2

(* The empty graph is one,                                                 *)
LEMMA EmptyIs == EmptyGraph \in Graph /\ DOMAIN EmptyGraph = {}
<1>1. DOMAIN EmptyGraph = {}
  BY DEF EmptyGraph
<1>2. EmptyGraph = [p \in DOMAIN EmptyGraph |-> EmptyGraph[p]]
  BY DEF EmptyGraph
<1> QED BY <1>1, <1>2, GraphIs

(* so is what a version contains,                                          *)
LEMMA ContentIs ==
  ASSUME NEW v \in 0..MaxVersion, NEW p \in DOMAIN Content[v]
  PROVE  Content[v] \in Graph /\ p \in Path /\ Content[v][p] \in Drv
<1>1. Content[v] \in Graph
  BY SessionAssumption
<1> QED BY <1>1, GraphIs

(* a graph with one derivation more,                                       *)
LEMMA RecordedIs ==
  ASSUME NEW g \in Graph, NEW p \in Path, NEW d \in Drv
  PROVE  /\ Recorded(g, p, d) \in Graph
         /\ DOMAIN Recorded(g, p, d) = DOMAIN g \cup {p}
         /\ \A q \in DOMAIN g \cup {p} :
              Recorded(g, p, d)[q] = IF q = p THEN d ELSE g[q]
<1> DEFINE h == Recorded(g, p, d)
<1>1. DOMAIN h = DOMAIN g \cup {p}
  BY DEF Recorded
<1>2. \A q \in DOMAIN g \cup {p} : h[q] = IF q = p THEN d ELSE g[q]
  BY DEF Recorded
<1>3. h = [q \in DOMAIN h |-> h[q]]
  BY DEF Recorded
<1>4. DOMAIN g \subseteq Path /\ \A q \in DOMAIN g : g[q] \in Drv
  BY GraphIs
<1>5. DOMAIN h \subseteq Path /\ \A q \in DOMAIN h : h[q] \in Drv
  BY <1>1, <1>2, <1>4
<1>6. h \in Graph
  BY <1>3, <1>5, GraphIs
<1> QED BY <1>1, <1>2, <1>6

(* What is added and removed.                                              *)
LEMMA DiffIs ==
  ASSUME NEW g, NEW h, NEW p
  PROVE  /\ p \in {e.path : e \in DiffGraphs(g, h).added} <=>
              p \in DOMAIN h /\ ~Unchanged(g, h, p)
         /\ p \in DOMAIN g =>
              ([path |-> p, drv |-> g[p]] \notin DiffGraphs(g, h).removed <=>
                 Unchanged(g, h, p))
         /\ \A e \in DiffGraphs(g, h).added : e.drv = h[e.path]
<1>1. \A q, x : [path |-> q, drv |-> x].path = q /\ [path |-> q, drv |-> x].drv = x
  OBVIOUS
<1>2. DiffGraphs(g, h).added =
        {[path |-> q, drv |-> h[q]] : q \in {q \in DOMAIN h : ~Unchanged(g, h, q)}}
  BY DEF DiffGraphs, Entries
<1>3. DiffGraphs(g, h).removed =
        {[path |-> q, drv |-> g[q]] : q \in {q \in DOMAIN g : ~Unchanged(g, h, q)}}
  BY DEF DiffGraphs, Entries
<1>4. \A e \in DiffGraphs(g, h).added :
        \E q \in DOMAIN h : ~Unchanged(g, h, q) /\ e = [path |-> q, drv |-> h[q]]
  BY <1>2
<1>5. \A e \in DiffGraphs(g, h).added :
        e.path \in DOMAIN h /\ ~Unchanged(g, h, e.path) /\ e.drv = h[e.path]
  BY <1>1, <1>4
<1>6. ASSUME p \in DOMAIN h, ~Unchanged(g, h, p)
      PROVE  p \in {e.path : e \in DiffGraphs(g, h).added}
  <2>1. [path |-> p, drv |-> h[p]] \in DiffGraphs(g, h).added
    BY <1>2, <1>6
  <2> QED BY <1>1, <2>1
<1>7. ASSUME p \in DOMAIN g
      PROVE  [path |-> p, drv |-> g[p]] \in DiffGraphs(g, h).removed <=>
               ~Unchanged(g, h, p)
  BY <1>1, <1>3, <1>7
<1> QED BY <1>5, <1>6, <1>7

(* Whatever a client has, it has a graph after it has applied a difference.*)
LEMMA ApplyIs ==
  ASSUME NEW g \in Graph, NEW h \in Graph, NEW k \in Graph
  PROVE  Apply(k, DiffGraphs(g, h)) \in Graph
<1> DEFINE d == DiffGraphs(g, h)
           kept == {p \in DOMAIN k : [path |-> p, drv |-> k[p]] \notin d.removed}
           new == {e.path : e \in d.added}
           value(p) == IF p \in new
                         THEN (CHOOSE e \in d.added : e.path = p).drv
                         ELSE k[p]
<1>1. \A e \in d.added : e.drv = h[e.path]
  BY DiffIs, Zenon
<1>2. \A p \in new : p \in DOMAIN h
  BY DiffIs
<1>3. /\ DOMAIN k \subseteq Path /\ \A p \in DOMAIN k : k[p] \in Drv
      /\ DOMAIN h \subseteq Path /\ \A p \in DOMAIN h : h[p] \in Drv
  BY GraphIs
<1>4. ASSUME NEW p \in kept \cup new PROVE p \in Path /\ value(p) \in Drv
  <2>1. CASE p \in new
    <3> DEFINE c == CHOOSE e \in d.added : e.path = p
    <3>1. \E e \in d.added : e.path = p
      BY <2>1
    <3>2. c \in d.added /\ c.path = p
      BY <3>1
    <3>3. c.drv = h[p]
      <4> HIDE DEF c, d
      <4> QED BY <1>1, <3>2
    <3>4. p \in DOMAIN h
      BY <1>2, <2>1
    <3> QED BY <1>3, <2>1, <3>3, <3>4
  <2>2. CASE p \notin new
    BY <1>3, <1>4, <2>2
  <2> QED BY <2>1, <2>2
<1>5. Apply(k, d) = [p \in kept \cup new |-> value(p)]
  BY DEF Apply
<1> HIDE DEF kept, new, value, d
<1>6. \A p \in DOMAIN Apply(k, d) : Apply(k, d)[p] \in Drv
  BY <1>4, <1>5
<1>7. DOMAIN Apply(k, d) \subseteq Path
  BY <1>4, <1>5
<1>8. Apply(k, d) = [p \in DOMAIN Apply(k, d) |-> Apply(k, d)[p]]
  BY <1>5
<1>9. Apply(k, d) \in Graph
  BY <1>6, <1>7, <1>8, GraphIs
<1> QED BY <1>9 DEF d

(* A client that has the graph g, and applies the difference from g to h,  *)
(* then has h.                                                             *)
LEMMA ApplyDiff ==
  ASSUME NEW g \in Graph, NEW h \in Graph
  PROVE  Apply(g, DiffGraphs(g, h)) = h
<1> DEFINE d == DiffGraphs(g, h)
           kept == {p \in DOMAIN g : [path |-> p, drv |-> g[p]] \notin d.removed}
           new == {e.path : e \in d.added}
           value(p) == IF p \in new
                         THEN (CHOOSE e \in d.added : e.path = p).drv
                         ELSE g[p]
<1>1. \A p : p \in new <=> p \in DOMAIN h /\ ~Unchanged(g, h, p)
  BY DiffIs
<1>2. \A p : p \in kept <=> Unchanged(g, h, p)
  BY DiffIs DEF Unchanged
<1>0. \A e \in d.added : e.drv = h[e.path]
  BY DiffIs, Zenon
<1>3. kept \cup new = DOMAIN h
  BY <1>1, <1>2 DEF Unchanged
<1>4. ASSUME NEW p \in DOMAIN h PROVE value(p) = h[p]
  <2>1. CASE p \in new
    <3> DEFINE c == CHOOSE e \in d.added : e.path = p
    <3>1. \E e \in d.added : e.path = p
      BY <2>1
    <3>2. c \in d.added /\ c.path = p
      BY <3>1
    <3>3. c.drv = h[p]
      <4> HIDE DEF c, d
      <4> QED BY <1>0, <3>2
    <3> QED BY <2>1, <3>3
  <2>2. CASE p \notin new
    BY <1>1, <2>2 DEF Unchanged
  <2> QED BY <2>1, <2>2
<1>5. Apply(g, d) = [p \in kept \cup new |-> value(p)]
  BY DEF Apply
<1>6. h = [p \in DOMAIN h |-> h[p]]
  BY GraphIs
<1> QED BY <1>3, <1>4, <1>5, <1>6

-----------------------------------------------------------------------------
(* Where the jobs go, and what that does to their channels.                *)

(* Where a job of each kind can be.                                        *)
LEMMA PlacesAre ==
  /\ \A k \in {"stream", "watch", "diff"} :
       /\ Places(k) \subseteq Steps
       /\ \A q \in {"unused", "done", "eval", "store", "fail", "lost"} : q \in Places(k)
  /\ \A k \in {"stream", "watch"}, q \in {"flush", "finish", "record"} : q \in Places(k)
  /\ \A q \in {"check", "notified", "read", "await", "asleep", "register", "loop",
               "recv", "debounce", "previous", "send"} :
       q \in Places("watch") /\ q \notin Places("stream") /\ q \notin Places("diff")
  /\ \A q \in {"flush", "finish", "record"} : q \notin Places("diff")
<1>1. /\ Places("stream") = {"unused", "done", "eval", "store", "fail", "lost", "flush",
                             "finish", "record"}
      /\ Places("watch") = {"unused", "done", "eval", "store", "fail", "lost", "flush",
                            "finish", "record", "check", "notified", "read", "await", "asleep",
                            "register", "loop", "recv", "debounce", "previous", "send"}
      /\ Places("diff") = {"unused", "done", "eval", "store", "fail", "lost"}
  BY DEF Places
<1>2. Steps = Places("stream") \cup Places("watch") \cup Places("diff")
  BY DEF Steps
<1> QED BY <1>1, <1>2

(* What the invariant says about where the jobs are and their channels.    *)
Channels ==
  /\ pc \in [Job -> Steps] /\ next \in [Job -> Steps]
  /\ open \in [Job -> BOOLEAN] /\ unread \in [Job -> Nat]
  /\ \A j \in Job :
       pc[j] \in Places(Kind[j]) /\ next[j] \in Places(Kind[j]) /\ next[j] # "flush"
  /\ Held

(* What is called are jobs; the changes and the queries are bounded.       *)
LEMMA ScenarioIs ==
  ASSUME STypeOK
  PROVE  /\ scenario.calls \subseteq Job /\ scenario.readers \in Nat
         /\ scenario.changes \in 0..MaxVersion /\ MaxVersion \in Nat
         /\ scenario.buffer \in [Job -> Nat \cup {-1}]
<1>1. scenario \in
        [calls : SUBSET Job, buffer : [Job -> Nat \cup {Unbounded}],
         faults : SUBSET FaultNames, changes : 0..MaxVersion, readers : Nat,
         workers : Nat \ {0}]
  BY SessionAssumption DEF STypeOK
<1> QED BY <1>1, SessionAssumption DEF Unbounded

(* Each job is of a kind, and asks for a buffer.                           *)
LEMMA Kinds ==
  ASSUME STypeOK, NEW j \in Job
  PROVE  /\ Kind[j] \in {"stream", "watch", "diff"}
         /\ scenario.buffer[j] \in Nat \cup {-1} /\ (Kind[j] = "diff" => ~Bounded(j))
         /\ Bounded(j) => Capacity(j) \in Nat /\ Capacity(j) >= 1
<1>1. scenario \in Scenarios /\ scenario.buffer[j] \in Nat \cup {-1}
  BY ScenarioIs DEF STypeOK
<1>2. Kind[j] \in {"stream", "watch", "diff"} /\ (Kind[j] = "diff" => ~Bounded(j))
  BY <1>1, SessionAssumption DEF Bounded
<1>3. Bounded(j) => Capacity(j) \in Nat /\ Capacity(j) >= 1
  BY <1>1 DEF Bounded, Capacity, Unbounded
<1> QED BY <1>1, <1>2, <1>3

(* j goes to q, in whatever way; nobody else goes anywhere.                *)
Moved(j, q) ==
  Channels' /\ Place(j)' = q /\ \A i \in Job \ {j} : Place(i)' = Place(i)

Stays == Channels' /\ \A i \in Job : Place(i)' = Place(i)

(* A job that does not wait for its receiver has room in its channel.      *)
LEMMA Moves ==
  ASSUME STypeOK, Channels, UNCHANGED scenario, NEW j \in Job, pc[j] \notin {"flush", "done"},
         NEW q \in Places(Kind[j]) \ {"flush"},
         \/ Goto(j, q) /\ UNCHANGED sendVars
         \/ Sent(j, q)
         \/ q = "done" /\ TrySent(j) /\ Goto(j, q) /\ UNCHANGED <<open, next>>
  PROVE  Moved(j, q)
<1> USE PlacesAre, Kinds
<1>1. /\ pc \in [Job -> Steps] /\ next \in [Job -> Steps]
      /\ open \in [Job -> BOOLEAN] /\ unread \in [Job -> Nat]
      /\ \A i \in Job : /\ pc[i] \in Places(Kind[i]) /\ next[i] \in Places(Kind[i])
                        /\ next[i] # "flush" /\ q \in Steps
      /\ \A i \in Job : Bounded(i)' = Bounded(i) /\ Capacity(i)' = Capacity(i)
      /\ Bounded(j) => unread[j] <= Capacity(j)
      /\ \A i \in Job : ~open[i] => unread[i] = 0
  BY DEF Channels, Held, Backpressure, Bounded, Capacity
<1>2. CASE Goto(j, q) /\ UNCHANGED sendVars
  <2>1. /\ next' = next /\ open' = open /\ unread' = unread
        /\ pc' = [pc EXCEPT ![j] = q]
    BY <1>2 DEF Goto, sendVars
  <2>2. Held'
    BY <1>1, <2>1 DEF Channels, Held, Backpressure
  <2> QED BY <1>1, <2>1, <2>2 DEF Moved, Place, At, Channels
<1>3. CASE /\ unread' = [unread EXCEPT ![j] = @ + 1] /\ Bounded(j) /\ open[j] /\ open' = open
           /\ \/ pc' = [pc EXCEPT ![j] = "flush"] /\ next' = [next EXCEPT ![j] = q]
              \/ pc' = [pc EXCEPT ![j] = q] /\ next' = next /\ q = "done"
  <2>1. Kind[j] # "diff" /\ "flush" \in Places(Kind[j])
    BY <1>3
  <2>2. Held'
    <3>1. unread'[j] <= Capacity(j) + 1 /\ pc'[j] \in {"flush", "done"}
      BY <1>1, <1>3
    <3> QED BY <1>1, <1>3, <3>1 DEF Channels, Held, Backpressure
  <2>3. /\ pc' \in [Job -> Steps] /\ next' \in [Job -> Steps]
        /\ open' \in [Job -> BOOLEAN] /\ unread' \in [Job -> Nat]
    BY <1>1, <1>3, <2>1
  <2> QED BY <1>1, <1>3, <2>1, <2>2, <2>3 DEF Moved, Place, At, Channels
<1>4. ASSUME \/ Sent(j, q)
             \/ q = "done" /\ TrySent(j) /\ Goto(j, q) /\ UNCHANGED <<open, next>>
      PROVE  Moved(j, q)
  <2>1. CASE Bounded(j) /\ open[j]
    BY <1>3, <1>4, <2>1 DEF Sent, TrySent, Goto
  <2>2. CASE ~(Bounded(j) /\ open[j])
    BY <1>2, <1>4, <2>2 DEF Sent, TrySent, sendVars
  <2> QED BY <2>1, <2>2
<1> QED BY <1>2, <1>4

(* Nobody goes anywhere when a wait for a receiver ends, when a receiver   *)
(* takes something or goes away, or when nothing happens to a channel.     *)
LEMMA StaysHere ==
  ASSUME STypeOK, Channels, UNCHANGED scenario,
         \/ UNCHANGED <<pc, sendVars>>
         \/ \E j \in Job : Flush(j) \/ Receive(j) \/ Close(j)
  PROVE  Stays
<1> USE Kinds DEF At
<1>1. /\ pc \in [Job -> Steps] /\ next \in [Job -> Steps]
      /\ open \in [Job -> BOOLEAN] /\ unread \in [Job -> Nat]
      /\ \A i \in Job : /\ pc[i] \in Places(Kind[i]) /\ next[i] \in Places(Kind[i])
                        /\ next[i] # "flush"
      /\ \A i \in Job : Bounded(i)' = Bounded(i) /\ Capacity(i)' = Capacity(i)
      /\ \A i \in Job : ~open[i] => unread[i] = 0
  BY DEF Channels, Held, Bounded, Capacity
<1>2. CASE UNCHANGED <<pc, sendVars>>
  BY <1>1, <1>2 DEF sendVars, Stays, Channels, Held, Backpressure, Place
<1>3. ASSUME NEW j \in Job, Flush(j) PROVE Stays
  <2>1. /\ pc[j] = "flush" /\ pc' = [pc EXCEPT ![j] = next[j]]
        /\ next' = next /\ open' = open /\ unread' = unread
        /\ unread[j] <= Capacity(j) \/ ~open[j]
    BY <1>3 DEF Flush, Goto, sendVars
  <2>2. Bounded(j) => unread[j] <= Capacity(j)
    BY <1>1, <2>1
  <2>3. Held'
    BY <1>1, <2>1, <2>2 DEF Channels, Held, Backpressure
  <2> QED BY <1>1, <2>1, <2>3 DEF Stays, Channels, Place
<1>4. ASSUME NEW j \in Job, Receive(j) PROVE Stays
  <2>1. /\ pc' = pc /\ next' = next /\ open' = open /\ open[j] /\ unread[j] > 0
        /\ unread' = [unread EXCEPT ![j] = @ - 1]
    BY <1>4 DEF Receive
  <2>2. unread' \in [Job -> Nat] /\ unread'[j] <= unread[j]
    BY <1>1, <2>1
  <2>3. Held'
    BY <1>1, <2>1, <2>2 DEF Channels, Held, Backpressure
  <2> QED BY <1>1, <2>1, <2>2, <2>3 DEF Stays, Channels, Place
<1>5. ASSUME NEW j \in Job, Close(j) PROVE Stays
  <2>1. /\ pc' = pc /\ next' = next /\ open' = [open EXCEPT ![j] = FALSE]
        /\ unread' = [unread EXCEPT ![j] = 0]
    BY <1>5 DEF Close
  <2>2. Held'
    BY <1>1, <2>1 DEF Channels, Held, Backpressure
  <2> QED BY <1>1, <2>1, <2>2 DEF Stays, Channels, Place
<1> QED BY <1>2, <1>3, <1>4, <1>5

-----------------------------------------------------------------------------
(* The effects that steps have.                                            *)

(* No job goes on.                                                         *)
Around ==
  /\ Stays
  /\ UNCHANGED <<warmVars, initial, evalVars, view>>
  /\ version' \in {version, version + 1} /\ version' <= scenario.changes
  /\ cancel' \in {cancel, TRUE}

(* j goes on to q, and nothing else happens that the other parts of the    *)
(* invariant are about.                                                    *)
Leads(j, q) ==
  \/ /\ \/ Place(j) \in {"unused", "check", "notified", "read", "await", "asleep",
                          "register", "loop", "recv", "send"}
        \/ Place(j) = "fail" /\ ~first[j]
     /\ q \in {"done", "check", "notified", "read", "await", "asleep"}
  \/ Place(j) = "read" /\ q = "register" /\ completed
  \/ /\ Place(j) \in {"loop", "recv", "debounce"}
     /\ q \in {"loop", "recv", "debounce", "previous"}
  \/ Place(j) = "eval" /\ q = "store" /\ EvalReturns(j)
  \/ Place(j) = "eval" /\ q \in {"fail", "lost"}

Forward(j, q) ==
  /\ Moved(j, q) /\ Leads(j, q)
  /\ UNCHANGED <<version, warmVars, initial, cancel, evalVars, view>>

(* j starts the initial evaluation.                                        *)
Starts(j) ==
  /\ Moved(j, "eval") /\ Place(j) = "unused" /\ Kind[j] # "diff"
  /\ EvaluateFirst(j) /\ initial' = "Running"
  /\ UNCHANGED <<version, warmVars, cancel, view>>

(* j starts another evaluation.                                            *)
Restarts(j) ==
  /\ Moved(j, "eval")
  /\ \/ Place(j) = "unused" /\ Kind[j] = "diff"
     \/ Place(j) = "previous" /\ Kind[j] = "watch"
  /\ completed /\ Evaluating(j) /\ Previous(j) /\ first' = first
  /\ UNCHANGED <<version, warmVars, initial, cancel, view>>

(* j is called without a runtime.                                          *)
Aborted(j) ==
  /\ Moved(j, "done") /\ Place(j) = "unused" /\ Fault("noruntime")
  /\ error' \in {error, TRUE} /\ initial' \in {initial, "Finished"}
  /\ initial' = "Finished" => initial = "Finished" \/ error' \/ readers # 0
  /\ UNCHANGED <<version, graph, completed, cancel, evalVars, view>>

(* j visits a path.                                                        *)
Visits(j) ==
  /\ Place(j) = "eval" /\ (Moved(j, "eval") \/ Moved(j, "fail"))
  /\ \E p \in todo[j] : /\ todo' = [todo EXCEPT ![j] = @ \ {p}]
                        /\ seen' = [seen EXCEPT ![j] = Found(j, p)]
  /\ UNCHANGED <<version, warmVars, initial, cancel, first, previous, view>>

(* j stores its graph,                                                     *)
Stores(j) ==
  /\ Moved(j, AfterStore(j)) /\ Place(j) = "store"
  /\ graph' = seen[j] /\ completed' = TRUE /\ error' = FALSE
  /\ UNCHANGED <<version, initial, cancel, evalVars, view>>

(* and finishes the initial evaluation,                                    *)
Finishes(j) ==
  /\ \E q \in {"check", "done"} : Moved(j, q)
  /\ Place(j) = "finish"
  /\ initial' = "Finished" /\ first' = [first EXCEPT ![j] = FALSE]
  /\ UNCHANGED <<version, warmVars, cancel, todo, seen, previous, view>>

(* or the initial evaluation fails.                                        *)
Fails(j) ==
  /\ Moved(j, "record") /\ Place(j) = "fail" /\ first[j] /\ error' = TRUE
  /\ UNCHANGED <<version, graph, completed, initial, cancel, evalVars, view>>

Records(j) ==
  /\ Moved(j, "done") /\ Place(j) = "record" /\ error' = TRUE
  /\ initial' = "Finished" /\ first' = [first EXCEPT ![j] = FALSE]
  /\ UNCHANGED <<version, graph, completed, cancel, todo, seen, previous, view>>

(* j begins to follow the warm graph,                                      *)
Registers(j) ==
  /\ Moved(j, "loop") /\ Place(j) = "register"
  /\ view' = [view EXCEPT ![j] = graph]
  /\ UNCHANGED <<version, warmVars, initial, cancel, evalVars>>

(* and its client applies a diff.                                          *)
Follows(j) ==
  /\ Moved(j, "loop") /\ Place(j) = "send" /\ Applied(j)
  /\ UNCHANGED <<version, warmVars, initial, cancel, evalVars>>

Effect(j) ==
  \/ (\E q \in Places(Kind[j]) : Forward(j, q)) \/ Starts(j) \/ Restarts(j)
  \/ Aborted(j) \/ Visits(j) \/ Stores(j) \/ Finishes(j) \/ Fails(j) \/ Records(j)
  \/ Registers(j) \/ Follows(j)

(* A call has one of them,                                                 *)
LEMMA CallEffect ==
  ASSUME STypeOK, Channels, UNCHANGED scenario, NEW j \in Job, Call(j)
  PROVE  Effect(j)
<1> USE PlacesAre, Kinds
<1>1. pc[j] = "unused" /\ Place(j) = "unused"
  BY DEF Call, Stream, Watch, DiffOnce, CallWithoutRuntime, At, Place
<1>2. CASE Stream(j) \/ Watch(j)
  <2>1. CASE EvaluateFirst(j)
    <3>1. Moved(j, "eval")
      BY <1>1, <2>1, Moves DEF EvaluateFirst, Evaluating
    <3>2. Claims /\ initial' = "Running" /\ UNCHANGED <<version, warmVars, cancel, view>>
      BY <1>2, <2>1 DEF Stream, Watch, Claim, EvaluateFirst, watchVars
    <3>3. Starts(j)
      BY <1>1, <1>2, <2>1, <3>1, <3>2 DEF Starts, Stream, Watch
    <3> QED BY <3>3 DEF Effect
  <2>2. CASE ~EvaluateFirst(j)
    <3>1. /\ UNCHANGED <<version, warmVars, initial, cancel, evalVars, view>>
          /\ \/ Refused(j)
             \/ Kind[j] = "watch" /\ Goto(j, "check") /\ UNCHANGED sendVars
      BY <1>2, <2>2 DEF Stream, Watch, Claim, Refused, watchVars
    <3>2. \E q \in {"done", "check"} : q \in Places(Kind[j]) /\ Moved(j, q)
      BY <1>1, <3>1, Moves DEF Refused
    <3>3. \E q \in Places(Kind[j]) : Forward(j, q)
      BY <1>1, <3>1, <3>2 DEF Forward, Leads
    <3> QED BY <3>3 DEF Effect
  <2> QED BY <2>1, <2>2
<1>3. CASE DiffOnce(j)
  <2>1. CASE completed
    <3>1. Moved(j, "eval")
      BY <1>1, <1>3, <2>1, Moves DEF DiffOnce, Evaluating
    <3> QED
      BY <1>1, <1>3, <2>1, <3>1
      DEF DiffOnce, Restarts, Effect, watchVars, sessionVars
  <2>2. CASE ~completed
    <3>1. Moved(j, "done")
      BY <1>1, <1>3, <2>2, Moves DEF DiffOnce
    <3> QED
      BY <1>1, <1>3, <2>2, <3>1
      DEF DiffOnce, Forward, Leads, Effect, watchVars, sessionVars
  <2> QED BY <2>1, <2>2
<1>4. CASE CallWithoutRuntime(j)
  <2>1. Moved(j, "done")
    BY <1>1, <1>4, Moves DEF CallWithoutRuntime, Refused
  <2>2. error \in BOOLEAN
    BY DEF STypeOK
  <2> QED
    BY <1>1, <1>4, <2>1, <2>2 DEF CallWithoutRuntime, Refused, Aborted, Effect, watchVars
<1> QED BY <1>2, <1>3, <1>4 DEF Call

(* so does what a job does by itself unless it only stops to wait,         *)
LEMMA RunEffect ==
  ASSUME STypeOK, Channels, Claimed, Completed, UNCHANGED scenario, NEW j \in Job,
         Run(j) \/ EvalErr(j) \/ EvalHangs(j)
  PROVE  Around \/ Effect(j)
<1> USE PlacesAre, Kinds DEF At
<1>1. CASE Flush(j)
  <2>1. Stays /\ version' = version /\ cancel' = cancel
    BY <1>1, StaysHere DEF Flush, sessionVars
  <2>2. version <= scenario.changes
    BY ScenarioIs DEF STypeOK
  <2>3. UNCHANGED <<warmVars, initial, evalVars, view>>
    BY <1>1 DEF Flush, sessionVars, watchVars
  <2> QED BY <2>1, <2>2, <2>3 DEF Around
<1>2. CASE Visit(j)
  <2>1. pc[j] = "eval" /\ Place(j) = "eval"
    BY <1>2 DEF Visit, Place
  <2>2. CASE UNCHANGED <<pc, sendVars>>
    <3>1. Moved(j, "eval")
      BY <2>1, <2>2, StaysHere DEF Stays, Moved
    <3> QED BY <1>2, <2>1, <3>1 DEF Visit, Visits, Effect, sessionVars, watchVars
  <2>3. CASE ~UNCHANGED <<pc, sendVars>>
    <3>1. Sent(j, "eval") \/ (Goto(j, "fail") /\ UNCHANGED sendVars)
      BY <1>2, <2>3 DEF Visit, Reported
    <3>2. Moved(j, "eval") \/ Moved(j, "fail")
      BY <2>1, <3>1, Moves
    <3> QED BY <1>2, <2>1, <3>2 DEF Visit, Visits, Effect, sessionVars, watchVars
  <2> QED BY <2>2, <2>3
<1>3. CASE Finish(j)
  <2>1. pc[j] = "finish" /\ Place(j) = "finish"
    BY <1>3 DEF Finish, Place
  <2>2. \E q \in {"check", "done"} : Moved(j, q)
    BY <1>3, <2>1, Moves DEF Finish
  <2> QED BY <1>3, <2>1, <2>2 DEF Finish, Finishes, Effect, watchVars
<1>4. ASSUME NEW q \in Places(Kind[j]) \ {"flush"}, pc[j] \notin {"flush", "done"},
             UNCHANGED <<sessionVars, evalVars, view>>, Leads(j, q),
             (Goto(j, q) /\ UNCHANGED sendVars) \/ Sent(j, q)
      PROVE  Effect(j)
  BY <1>4, Moves DEF Forward, Effect, sessionVars
<1>5. CASE ReadPrevious(j)
  <2>1. pc[j] = "previous" /\ Place(j) = "previous" /\ Kind[j] = "watch"
    BY <1>5 DEF ReadPrevious, Place, Channels
  <2>2. Moved(j, "eval")
    BY <1>5, <2>1, Moves DEF ReadPrevious, Evaluating
  <2>3. ~first[j]
    BY <2>1 DEF Claimed
  <2>4. completed
    BY <2>1, <2>3 DEF Completed
  <2> QED
    BY <1>5, <2>1, <2>2, <2>4 DEF ReadPrevious, Restarts, Effect, sessionVars, watchVars
<1>6. CASE Send(j) /\ SentInLoop(j) /\ Applied(j)
  <2>1. pc[j] = "send" /\ Place(j) = "send"
    BY <1>6 DEF Send, Place
  <2>2. Kind[j] = "watch"
    BY <2>1 DEF Channels
  <2>3. Moved(j, "loop")
    BY <1>6, <2>1, <2>2, Moves DEF SentInLoop
  <2> QED BY <1>6, <2>1, <2>3 DEF Send, Follows, Effect, sessionVars
<1>7. CASE EvalOk(j)
  BY <1>4, <1>7 DEF EvalOk, Place, Leads, watchVars
<1>8. CASE EvalErr(j) \/ EvalHangs(j)
  BY <1>4, <1>8 DEF EvalErr, EvalHangs, ItemsDropped, Place, Leads, watchVars
<1>9. CASE WaitCheck(j)
  <2>1. pc[j] = "check" /\ Kind[j] = "watch"
    BY <1>9 DEF WaitCheck, Channels
  <2> QED BY <1>4, <1>9, <2>1 DEF WaitCheck, Place, Leads, watchVars
<1>10. CASE WaitNotified(j)
  <2>1. pc[j] = "notified" /\ Kind[j] = "watch"
    BY <1>10 DEF WaitNotified, Channels
  <2> QED BY <1>4, <1>10, <2>1 DEF WaitNotified, Place, Leads, watchVars
<1>11. CASE WaitRead(j)
  <2>1. pc[j] = "read" /\ Kind[j] = "watch"
    BY <1>11 DEF WaitRead, Channels
  <2> QED BY <1>4, <1>11, <2>1 DEF WaitRead, Place, Leads, watchVars
<1>12. CASE WaitAwait(j) \/ WaitWake(j)
  <2>1. pc[j] \in {"await", "asleep"} /\ Kind[j] = "watch"
    BY <1>12 DEF WaitAwait, WaitWake, Channels
  <2> QED BY <1>4, <1>12, <2>1 DEF WaitAwait, WaitWake, Place, Leads, watchVars
<1>13. CASE Register(j)
  <2>1. pc[j] = "register" /\ Place(j) = "register" /\ Kind[j] = "watch"
    BY <1>13 DEF Register, Place, Channels
  <2>2. CASE Goto(j, "loop") /\ view' = [view EXCEPT ![j] = graph] /\ UNCHANGED sendVars
    <3>1. Moved(j, "loop")
      BY <2>1, <2>2, Moves
    <3> QED BY <1>13, <2>1, <2>2, <3>1 DEF Register, Registers, Effect, sessionVars
  <2>3. CASE Sent(j, "done") /\ UNCHANGED view
    BY <1>4, <1>13, <2>1, <2>3 DEF Register, Leads
  <2> QED BY <1>13, <2>2, <2>3 DEF Register
<1>14. CASE LoopCheck(j)
  <2>1. pc[j] = "loop" /\ Kind[j] = "watch"
    BY <1>14 DEF LoopCheck, Channels
  <2> QED BY <1>4, <1>14, <2>1 DEF LoopCheck, Place, Leads, watchVars
<1>15. CASE LoopReceives(j)
  <2>1. pc[j] = "recv" /\ Kind[j] = "watch"
    BY <1>15 DEF LoopReceives, Channels
  <2> QED
    BY <1>4, <1>15, <2>1 DEF LoopReceives, SentInLoop, LoopEnds, Place, Leads
<1>16. CASE LoopTimesOut(j) \/ Debounce(j)
  <2>1. pc[j] \in {"recv", "debounce"} /\ Kind[j] = "watch"
    BY <1>16 DEF LoopTimesOut, Debounce, Channels
  <2> QED BY <1>4, <1>16, <2>1 DEF LoopTimesOut, Debounce, Place, Leads, watchVars
<1>17. CASE Send(j) /\ LoopEnds(j) /\ UNCHANGED view
  <2>1. pc[j] = "send" /\ Kind[j] = "watch"
    BY <1>17 DEF Send, Channels
  <2> QED BY <1>4, <1>17, <2>1 DEF Send, LoopEnds, Place, Leads
<1> QED
  BY <1>1, <1>2, <1>3, <1>5, <1>6, <1>7, <1>8, <1>9, <1>10, <1>11, <1>12, <1>13, <1>14,
     <1>15, <1>16, <1>17
  DEF Run, Send

(* what it does under the lock,                                            *)
LEMMA WriteEffect ==
  ASSUME STypeOK, Channels, Claimed, UNCHANGED scenario, NEW j \in Job, Write(j)
  PROVE  Effect(j)
<1> USE PlacesAre, Kinds DEF At
<1>1. CASE Store(j)
  <2>1. pc[j] = "store" /\ Place(j) = "store"
    BY <1>1 DEF Store, Place
  <2>2. AfterStore(j) \in Places(Kind[j]) \ {"flush"}
    BY <2>1 DEF AfterStore, Claimed, OneInitial
  <2>3. Moved(j, AfterStore(j))
    BY <1>1, <2>1, <2>2, Moves DEF Store
  <2> QED BY <1>1, <2>1, <2>3 DEF Store, Stores, Effect, watchVars
<1>2. CASE Failed(j) /\ first[j]
  <2>1. pc[j] = "fail" /\ Place(j) = "fail"
    BY <1>2 DEF Failed, Place
  <2>2. "record" \in Places(Kind[j])
    BY <1>2 DEF Claimed
  <2>3. Moved(j, "record")
    BY <1>2, <2>1, <2>2, Moves DEF Failed
  <2> QED BY <1>2, <2>1, <2>3 DEF Failed, Fails, Effect, watchVars
<1>3. CASE Failed(j) /\ ~first[j]
  <2>1. pc[j] = "fail" /\ Place(j) = "fail"
    BY <1>3 DEF Failed, Place
  <2>2. Moved(j, "done")
    BY <1>3, <2>1, Moves DEF Failed
  <2>3. Forward(j, "done")
    BY <1>3, <2>1, <2>2 DEF Failed, Forward, Leads, watchVars, warmVars
  <2> QED BY <2>3 DEF Effect
<1>4. CASE RecordError(j)
  <2>1. pc[j] = "record" /\ Place(j) = "record"
    BY <1>4 DEF RecordError, Place
  <2>2. Moved(j, "done")
    BY <1>4, <2>1, Moves DEF RecordError
  <2> QED BY <1>4, <2>1, <2>2 DEF RecordError, Records, Effect, watchVars
<1> QED BY <1>1, <1>2, <1>3, <1>4 DEF Write

(* and what happens around the jobs.                                       *)
LEMMA AroundEffect ==
  ASSUME STypeOK, Channels, UNCHANGED scenario,
         \/ \E j \in Job : Receive(j) \/ Close(j)
         \/ QueryBegin \/ QueryEnd \/ Cancel \/ Change \/ Misnotify
         \/ UNCHANGED <<sessionVars, jobVars>>
  PROVE  Around
<1>1. Stays
  BY StaysHere
  DEF QueryBegin, QueryEnd, Cancel, Change, Misnotify, jobVars
<1>2. version \in Int /\ scenario.changes \in Int /\ version <= scenario.changes
  BY ScenarioIs DEF STypeOK
<1>3. /\ UNCHANGED <<warmVars, initial, evalVars, view>>
      /\ cancel' \in {cancel, TRUE} /\ version' \in {version, version + 1}
      /\ version' = version \/ version < scenario.changes
  BY DEF Receive, Close, QueryBegin, QueryEnd, Cancel, Change, Misnotify, sessionVars,
     jobVars, watchVars
<1>4. version' <= scenario.changes
  BY <1>2, <1>3
<1> QED BY <1>1, <1>3, <1>4 DEF Around

-----------------------------------------------------------------------------
(* Each part of the invariant is preserved by each effect.                 *)

(* Whatever happens has one of the effects, for a job that was called.     *)
LEMMA StepEffect ==
  ASSUME Inv, [Next]_vars
  PROVE  UNCHANGED scenario /\ (Around \/ \E j \in scenario.calls : Effect(j))
<1>1. Channels
  BY DEF Inv, STypeOK, Uncalled, Channels
<1>2. UNCHANGED scenario
  BY DEF Next, vars
<1>3. STypeOK /\ Claimed /\ Completed
  BY DEF Inv
<1>4. ASSUME \/ \E j \in Job : Receive(j) \/ Close(j)
             \/ QueryBegin \/ QueryEnd \/ Cancel \/ Change \/ Misnotify
             \/ UNCHANGED <<sessionVars, jobVars>>
      PROVE  Around
  BY <1>1, <1>2, <1>3, <1>4, AroundEffect
<1>5. ASSUME NEW j \in scenario.calls,
             \/ Call(j) \/ Run(j) \/ Write(j)
             \/ EvalErr(j) \/ EvalHangs(j)
             \/ Receive(j) \/ Close(j)
      PROVE  Around \/ Effect(j)
  <2>1. j \in Job
    BY <1>3, ScenarioIs
  <2> QED BY <1>1, <1>2, <1>3, <1>4, <1>5, <2>1, CallEffect, RunEffect, WriteEffect
<1> QED BY <1>2, <1>4, <1>5 DEF Next, vars

(* The types of what the effects are about.                                *)
EffectTypes ==
  /\ version \in 0..scenario.changes
  /\ graph \in Graph /\ completed \in BOOLEAN /\ error \in BOOLEAN
  /\ initial \in {"Idle", "Running", "Finished"} /\ cancel \in BOOLEAN
  /\ first \in [Job -> BOOLEAN]
  /\ todo \in [Job -> SUBSET Path] /\ seen \in [Job -> Graph]
  /\ previous \in [Job -> Graph] /\ view \in [Job -> Graph]

(* What an evaluation has found is a graph.                                *)
LEMMA FoundIs ==
  ASSUME STypeOK, NEW j \in Job, NEW p \in Path
  PROVE  /\ Found(j, p) \in Graph
         /\ DOMAIN Found(j, p) =
              DOMAIN seen[j] \cup ({p} \cap DOMAIN Content[version])
         /\ \A q \in DOMAIN Found(j, p) :
              Found(j, p)[q] = IF q = p /\ p \in DOMAIN Content[version]
                                 THEN Content[version][p]
                                 ELSE seen[j][q]
<1>1. version \in 0..MaxVersion /\ seen[j] \in Graph
  BY ScenarioIs, SMTT(30) DEF STypeOK
<1>2. CASE p \in DOMAIN Content[version]
  <2>1. Content[version][p] \in Drv
    BY <1>1, <1>2, ContentIs
  <2>2. Found(j, p) = Recorded(seen[j], p, Content[version][p])
    BY <1>2 DEF Found
  <2>3. {p} \cap DOMAIN Content[version] = {p}
    BY <1>2
  <2>4. Found(j, p) = [q \in DOMAIN seen[j] \cup {p} |->
                         IF q = p THEN Content[version][p] ELSE seen[j][q]]
    BY <2>2 DEF Recorded
  <2>5. \A g \in Graph, d \in Drv : Recorded(g, p, d) \in Graph
    BY RecordedIs, Zenon
  <2>6. Recorded(seen[j], p, Content[version][p]) \in Graph
    BY <1>1, <2>1, <2>5, Zenon
  <2> QED BY <1>2, <2>2, <2>3, <2>4, <2>6
<1>3. CASE p \notin DOMAIN Content[version]
  BY <1>1, <1>3 DEF Found
<1> QED BY <1>2, <1>3

(* The effects keep those types.                                           *)
LEMMA EffectTyped ==
  ASSUME STypeOK, UNCHANGED scenario, NEW j \in Job, Effect(j)
  PROVE  EffectTypes'
<1>1. EffectTypes
  BY DEF STypeOK, EffectTypes
<1> USE DEF EffectTypes
<1>3. ASSUME NEW q \in Places(Kind[j]), Forward(j, q) PROVE EffectTypes'
  BY <1>1, <1>3 DEF Forward, warmVars, evalVars
<1>4. CASE Starts(j)
  BY <1>1, <1>4, EmptyIs DEF Starts, EvaluateFirst, Evaluating, warmVars
<1>5. CASE Restarts(j)
  BY <1>1, <1>5, EmptyIs DEF Restarts, Evaluating, Previous, warmVars
<1>6. CASE Aborted(j)
  BY <1>1, <1>6 DEF Aborted, evalVars
<1>7. CASE Visits(j)
  <2>1. PICK p \in todo[j] : /\ todo' = [todo EXCEPT ![j] = @ \ {p}]
                             /\ seen' = [seen EXCEPT ![j] = Found(j, p)]
    BY <1>7 DEF Visits
  <2>2. Found(j, p) \in Graph
    BY <1>1, FoundIs
  <2>3. todo' \in [Job -> SUBSET Path] /\ seen' \in [Job -> Graph]
    BY <1>1, <2>1, <2>2
  <2> QED BY <1>1, <1>7, <2>3 DEF Visits, warmVars
<1>8. CASE Stores(j)
  BY <1>1, <1>8 DEF Stores, evalVars
<1>9. CASE Finishes(j)
  BY <1>1, <1>9 DEF Finishes, warmVars
<1>10. CASE Fails(j)
  BY <1>1, <1>10 DEF Fails, evalVars
<1>11. CASE Records(j)
  BY <1>1, <1>11 DEF Records
<1>12. CASE Registers(j)
  BY <1>1, <1>12 DEF Registers, warmVars, evalVars
<1>13. CASE Follows(j)
  <2>1. Apply(view[j], DiffGraphs(previous[j], seen[j])) \in Graph
    BY <1>1, ApplyIs
  <2> QED BY <1>1, <1>13, <2>1 DEF Follows, Applied, warmVars, evalVars
<1> QED
  BY <1>3, <1>4, <1>5, <1>6, <1>7, <1>8, <1>9, <1>10, <1>11, <1>12, <1>13
  DEF Effect

(* Only what was called has gone anywhere.                                 *)
LEMMA UncalledKept ==
  ASSUME Inv, UNCHANGED scenario,
         Around \/ \E j \in scenario.calls : Effect(j)
  PROVE  Uncalled' /\ Channels'
<1>1. Uncalled
  BY DEF Inv
<1>2. CASE Around
  BY <1>1, <1>2 DEF Around, Stays, Uncalled, Channels
<1>3. ASSUME NEW j \in scenario.calls, NEW q, Moved(j, q) PROVE Uncalled' /\ Channels'
  BY <1>1, <1>3 DEF Moved, Uncalled, Channels
<1>4. ASSUME NEW j \in scenario.calls, Effect(j) PROVE \E q : Moved(j, q)
  BY <1>4
  DEF Effect, Forward, Starts, Restarts, Aborted, Visits, Stores, Finishes, Fails, Records,
      Registers, Follows
<1> QED BY <1>2, <1>3, <1>4

(* There stays one initial evaluation.                                     *)
LEMMA ClaimedKept ==
  ASSUME STypeOK, Claimed, UNCHANGED scenario, NEW j \in Job, Effect(j), EffectTypes'
  PROVE  Claimed'
<1>1. /\ first \in [Job -> BOOLEAN] /\ initial \in {"Idle", "Running", "Finished"}
      /\ first' \in [Job -> BOOLEAN] /\ initial' \in {"Idle", "Running", "Finished"}
      /\ Kind[j] \in {"stream", "watch", "diff"}
      /\ Fault("noruntime")' = Fault("noruntime")
  BY Kinds DEF STypeOK, EffectTypes, Fault
<1> USE DEF Claimed, OneInitial
<1>3. ASSUME NEW q \in Places(Kind[j]), Forward(j, q) PROVE Claimed'
  <2>1. q \in {"store", "fail"} => Place(j) = "eval"
    BY <1>3 DEF Forward, Leads
  <2>2. q \notin {"eval", "record", "finish"} /\ (first[j] => q \in {"store", "fail", "lost"})
    BY <1>3 DEF Forward, Leads
  <2>3. first' = first /\ initial' = initial
    BY <1>3 DEF Forward, evalVars
  <2> QED BY <1>1, <1>3, <2>1, <2>2, <2>3 DEF Forward, Moved
<1>4. CASE Starts(j)
  <2>1. initial = "Idle" /\ initial' = "Running" /\ first' = [first EXCEPT ![j] = TRUE]
    BY <1>4 DEF Starts, EvaluateFirst, Claims
  <2> QED BY <1>1, <1>4, <2>1 DEF Starts, Moved
<1>5. CASE Restarts(j)
  BY <1>1, <1>5 DEF Restarts, Moved
<1>6. CASE Aborted(j)
  BY <1>1, <1>6 DEF Aborted, Moved, evalVars
<1>7. CASE Visits(j)
  BY <1>1, <1>7 DEF Visits, Moved
<1>8. CASE Stores(j)
  BY <1>1, <1>8 DEF Stores, Moved, AfterStore, evalVars
<1>9. CASE Finishes(j)
  BY <1>1, <1>9 DEF Finishes, Moved
<1>10. CASE Fails(j)
  BY <1>1, <1>10 DEF Fails, Moved, evalVars
<1>11. CASE Records(j)
  BY <1>1, <1>11 DEF Records, Moved
<1>12. CASE Registers(j) \/ Follows(j)
  BY <1>1, <1>12 DEF Registers, Follows, Moved, evalVars
<1> QED
  BY <1>3, <1>4, <1>5, <1>6, <1>7, <1>8, <1>9, <1>10, <1>11, <1>12 DEF Effect

(* Everything else stays behind it,                                        *)
LEMMA CompletedKept ==
  ASSUME STypeOK, Claimed, Completed, NEW j \in Job, Effect(j), EffectTypes'
  PROVE  Completed'
<1>1. /\ first \in [Job -> BOOLEAN] /\ completed \in BOOLEAN
      /\ first' \in [Job -> BOOLEAN] /\ completed' \in BOOLEAN
  BY DEF STypeOK, EffectTypes
<1> USE DEF Claimed, OneInitial, Completed
<1>3. ASSUME NEW q \in Places(Kind[j]), Forward(j, q) PROVE Completed'
  <2>1. first' = first /\ initial' = initial /\ completed' = completed
    BY <1>3 DEF Forward, warmVars, evalVars
  <2>2. first[j] => ~completed /\ q # "finish"
    BY <1>3 DEF Forward, Leads
  <2>3. q \in {"eval", "store", "fail", "send", "register", "loop", "recv",
                "debounce", "previous"} /\ ~first[j] => completed
    BY <1>3 DEF Forward, Leads
  <2> QED BY <1>1, <1>3, <2>1, <2>2, <2>3 DEF Forward, Moved
<1>4. CASE Starts(j)
  <2>1. /\ initial = "Idle" /\ initial' = "Running" /\ first' = [first EXCEPT ![j] = TRUE]
        /\ completed' = completed
    BY <1>4 DEF Starts, EvaluateFirst, Claims, warmVars
  <2> QED BY <1>1, <1>4, <2>1 DEF Starts, Moved
<1>5. CASE Restarts(j)
  BY <1>1, <1>5 DEF Restarts, Moved, warmVars
<1>6. CASE Aborted(j)
  BY <1>1, <1>6 DEF Aborted, Moved, evalVars
<1>7. CASE Visits(j)
  BY <1>1, <1>7 DEF Visits, Moved, warmVars
<1>8. CASE Stores(j)
  BY <1>1, <1>8 DEF Stores, Moved, AfterStore, evalVars
<1>9. CASE Finishes(j)
  BY <1>1, <1>9 DEF Finishes, Moved, warmVars
<1>10. CASE Fails(j)
  BY <1>1, <1>10 DEF Fails, Moved, evalVars
<1>11. CASE Records(j)
  BY <1>1, <1>11 DEF Records, Moved
<1>12. CASE Registers(j) \/ Follows(j)
  BY <1>1, <1>12 DEF Registers, Follows, Moved, evalVars, warmVars
<1> QED
  BY <1>3, <1>4, <1>5, <1>6, <1>7, <1>8, <1>9, <1>10, <1>11, <1>12 DEF Effect

(* and once it is finished its outcome is known.                           *)
LEMMA OutcomeKept ==
  ASSUME STypeOK, Claimed, Completed, OutcomeKnown, Recordable, UNCHANGED scenario,
         NEW j \in Job, Effect(j)
  PROVE  OutcomeKnown'
<1>1. Fault("noruntime") => readers = 0
  BY DEF STypeOK, Recordable
<1> USE DEF OutcomeKnown
<1>2. CASE Finishes(j)
  <2>1. completed
    BY <1>2 DEF Finishes, Claimed, Completed
  <2> QED BY <1>2, <2>1 DEF Finishes, warmVars
<1>3. CASE Aborted(j)
  <2>1. error' \in {error, TRUE} /\ completed' = completed
    BY <1>3 DEF Aborted
  <2>2. initial' = "Finished" => initial = "Finished" \/ error'
    BY <1>1, <1>3 DEF Aborted
  <2>3. (initial = "Finished" /\ ~completed) => error
    OBVIOUS
  <2> QED BY <2>1, <2>2, <2>3
<1>4. CASE Starts(j)
  BY <1>4 DEF Starts
<1> QED
  BY <1>2, <1>3, <1>4
  DEF Effect, Forward, Restarts, Visits, Stores, Fails, Records, Registers, Follows,
      warmVars

(* What was there once, or all the time, is so in later versions too.      *)
LEMMA Grows ==
  ASSUME NEW g, NEW P, NEW n \in Nat, NEW m \in {n, n + 1}
  PROVE  /\ Once(g, n) => Once(g, m)
         /\ Covers(g, P, n) => Covers(g, P, m)
<1>1. \A v \in 0..n : v \in 0..m
  OBVIOUS
<1> QED BY <1>1 DEF Once, Covers

(* A visit finds what is there, and leaves less to visit.                  *)
LEMMA VisitFinds ==
  ASSUME STypeOK, NEW j \in Job, NEW p \in todo[j],
         Once(seen[j], version), Covers(seen[j], todo[j], version)
  PROVE  /\ Once(Found(j, p), version)
         /\ Covers(Found(j, p), todo[j] \ {p}, version)
<1>1. p \in Path /\ version \in Nat
  BY ScenarioIs DEF STypeOK
<1>2. version \in 0..version
  BY <1>1
<1> DEFINE f == Found(j, p)
<1>3. /\ DOMAIN f = DOMAIN seen[j] \cup ({p} \cap DOMAIN Content[version])
      /\ \A q \in DOMAIN f :
           f[q] = IF q = p /\ p \in DOMAIN Content[version]
                    THEN Content[version][p]
                    ELSE seen[j][q]
  BY <1>1, FoundIs
<1> HIDE DEF f
<1>4. ASSUME NEW q \in DOMAIN f
      PROVE  \E v \in 0..version : q \in DOMAIN Content[v] /\ Content[v][q] = f[q]
  <2>1. CASE q = p /\ p \in DOMAIN Content[version]
    BY <1>2, <1>3, <2>1
  <2>2. CASE ~(q = p /\ p \in DOMAIN Content[version])
    <3>1. q \in DOMAIN seen[j] /\ f[q] = seen[j][q]
      BY <1>3, <1>4, <2>2
    <3> QED BY <3>1 DEF Once
  <2> QED BY <2>1, <2>2
<1>5. ASSUME NEW q \in Path \ (todo[j] \ {p}), \A v \in 0..version : q \in DOMAIN Content[v]
      PROVE  q \in DOMAIN f
  <2>1. CASE q = p
    BY <1>2, <1>3, <1>5, <2>1
  <2>2. CASE q # p
    BY <1>3, <1>5, <2>2 DEF Covers
  <2> QED BY <2>1, <2>2
<1>6. Once(f, version)
  BY <1>4 DEF Once
<1>7. Covers(f, todo[j] \ {p}, version)
  BY <1>5 DEF Covers
<1> QED BY <1>6, <1>7 DEF f

(* An evaluation that has not begun has found nothing, and has to visit    *)
(* everything.                                                             *)
LEMMA NothingFound ==
  Once(EmptyGraph, version) /\ Covers(EmptyGraph, Path, version)
BY EmptyIs DEF Once, Covers

(* Graphs stay what the evaluations can have found.                        *)
LEMMA EvaluatedKept ==
  ASSUME STypeOK, Evaluated, NEW j \in Job, Effect(j), EffectTypes'
  PROVE  Evaluated'
<1>1. /\ todo \in [Job -> SUBSET Path] /\ seen \in [Job -> Graph] /\ version \in Nat
      /\ cancel \in BOOLEAN /\ completed \in BOOLEAN
  BY ScenarioIs DEF STypeOK
<1> USE DEF Evaluated
<1>3. ASSUME NEW q \in Places(Kind[j]), Forward(j, q) PROVE Evaluated'
  <2>1. UNCHANGED <<version, graph, completed, cancel, todo, seen>>
    BY <1>3 DEF Forward, warmVars, evalVars
  <2>2. q \in {"eval", "store"} => q = "store" /\ Place(j) = "eval" /\ EvalReturns(j)
    BY <1>3 DEF Forward, Leads
  <2> QED BY <1>1, <1>3, <2>1, <2>2 DEF Forward, Moved, EvalReturns
<1>4. CASE Starts(j) \/ Restarts(j)
  <2>1. /\ UNCHANGED <<version, graph, completed, cancel>> /\ Moved(j, "eval")
        /\ todo' = [todo EXCEPT ![j] = Path] /\ seen' = [seen EXCEPT ![j] = EmptyGraph]
    BY <1>4 DEF Starts, Restarts, EvaluateFirst, Evaluating, warmVars
  <2> QED BY <1>1, <2>1, NothingFound DEF Moved
<1>5. CASE Visits(j)
  <2>1. PICK p \in todo[j] : /\ todo' = [todo EXCEPT ![j] = @ \ {p}]
                             /\ seen' = [seen EXCEPT ![j] = Found(j, p)]
    BY <1>5 DEF Visits
  <2>2. Once(seen[j], version) /\ Covers(seen[j], todo[j], version)
    BY <1>5 DEF Visits
  <2>3. /\ Once(Found(j, p), version) /\ Covers(Found(j, p), todo[j] \ {p}, version)
    BY <2>2, VisitFinds
  <2>4. /\ UNCHANGED <<version, graph, completed, cancel>>
        /\ Place(j)' # "store" /\ \A i \in Job \ {j} : Place(i)' = Place(i)
    BY <1>5 DEF Visits, Moved, warmVars
  <2> QED BY <1>1, <2>1, <2>3, <2>4
<1>6. CASE Stores(j)
  <2>1. /\ UNCHANGED <<version, cancel, todo, seen>> /\ graph' = seen[j]
        /\ Place(j)' \notin {"eval", "store"} /\ Place(j) = "store"
        /\ \A i \in Job \ {j} : Place(i)' = Place(i)
    BY <1>6 DEF Stores, Moved, AfterStore, evalVars
  <2> QED BY <1>1, <2>1
<1>7. CASE Aborted(j) \/ Finishes(j) \/ Fails(j) \/ Records(j) \/ Registers(j) \/ Follows(j)
  <2>1. /\ UNCHANGED <<version, graph, completed, cancel, todo, seen>>
        /\ Place(j)' \notin {"eval", "store"}
        /\ \A i \in Job \ {j} : Place(i)' = Place(i)
    BY <1>7
    DEF Aborted, Finishes, Fails, Records, Registers, Follows, Moved, evalVars, warmVars
  <2> QED BY <2>1
<1> QED BY <1>3, <1>4, <1>5, <1>6, <1>7 DEF Effect

(* The only replacer, and its client, have followed the warm graph.        *)
LEMMA FollowersKept ==
  ASSUME STypeOK, Uncalled, Uncalled', Channels', Claimed, Completed, OneReplacer,
         \A i \in Job : Followed(i), UNCHANGED scenario, NEW j \in scenario.calls, Effect(j),
         NEW i \in Job
  PROVE  Followed(i)'
<1> USE DEF Followed
<1>1. /\ first \in [Job -> BOOLEAN] /\ seen \in [Job -> Graph] /\ previous \in [Job -> Graph]
      /\ view \in [Job -> Graph] /\ j \in Job
  BY ScenarioIs DEF STypeOK
<1>2. ASSUME ~Stores(j), j # i
      PROVE  UNCHANGED <<graph, seen[i], previous[i], view[i], first[i], Place(i)>>
  <2>1. CASE \E q \in Places(Kind[j]) : Forward(j, q)
    BY <1>2, <2>1 DEF Forward, Moved, warmVars, evalVars
  <2>2. CASE Starts(j) \/ Restarts(j)
    BY <1>1, <1>2, <2>2
    DEF Starts, Restarts, Moved, EvaluateFirst, Evaluating, Previous, warmVars
  <2>3. CASE Visits(j) \/ Finishes(j)
    BY <1>1, <1>2, <2>3 DEF Visits, Finishes, Moved, warmVars
  <2>4. CASE Aborted(j) \/ Fails(j) \/ Records(j)
    BY <1>1, <1>2, <2>4 DEF Aborted, Fails, Records, Moved, evalVars
  <2>5. CASE Registers(j) \/ Follows(j)
    BY <1>1, <1>2, <2>5 DEF Registers, Follows, Applied, Moved, evalVars, warmVars
  <2> QED BY <1>2, <2>1, <2>2, <2>3, <2>4, <2>5 DEF Effect
<1>3. CASE ~Stores(j) /\ j # i
  BY <1>2, <1>3
<1>4. CASE Stores(j)
  <2>1. /\ UNCHANGED <<first, seen, previous, view>> /\ graph' = seen[j] /\ Place(j) = "store"
        /\ Place(j)' = AfterStore(j) /\ \A k \in Job \ {j} : Place(k)' = Place(k)
    BY <1>4 DEF Stores, Moved, evalVars
  <2>2. CASE i = j
    BY <1>1, <2>1, <2>2 DEF AfterStore
  <2>3. CASE i # j
    <3>1. SUFFICES ASSUME \/ Place(i) \in {"loop", "recv", "debounce", "previous", "send"}
                          \/ Place(i) \in {"eval", "store"} /\ ~first[i]
                   PROVE  FALSE
      BY <1>1, <2>1, <2>3
    <3>2. ~first[i]
      BY <3>1 DEF Claimed
    <3>3. completed
      BY <3>1, <3>2 DEF Completed
    <3>4. ~first[j]
      BY <1>1, <2>1, <3>3 DEF Completed
    <3>5. Kind[i] # "stream" /\ Kind[j] # "stream"
      <4>1. Place(i) \in Places(Kind[i])
        BY DEF STypeOK, Place
      <4>2. Kind[i] \in {"stream", "watch", "diff"}
        BY Kinds
      <4> QED BY <1>1, <2>1, <3>1, <3>2, <3>4, <4>1, <4>2, PlacesAre DEF Claimed
    <3>6. i \in scenario.calls
      BY <3>1 DEF Uncalled
    <3> QED BY <2>3, <3>5, <3>6 DEF OneReplacer, Replacers
  <2> QED BY <2>2, <2>3
<1>5. CASE ~Stores(j) /\ i = j
  <2>2. ASSUME NEW q \in Places(Kind[j]), Forward(j, q) PROVE Followed(i)'
    BY <1>1, <1>5, <2>2 DEF Forward, Leads, Moved, warmVars, evalVars
  <2>3. CASE Starts(j)
    BY <1>1, <1>5, <2>3 DEF Starts, EvaluateFirst, Moved, warmVars
  <2>4. CASE Restarts(j)
    BY <1>1, <1>5, <2>4 DEF Restarts, Previous, Moved, warmVars
  <2>5. CASE Visits(j)
    BY <1>1, <1>5, <2>5 DEF Visits, Moved, warmVars
  <2>6. CASE Aborted(j) \/ Finishes(j) \/ Fails(j) \/ Records(j)
    BY <1>5, <2>6 DEF Aborted, Finishes, Fails, Records, Moved
  <2>7. CASE Registers(j)
    BY <1>1, <1>5, <2>7 DEF Registers, Moved, warmVars, evalVars
  <2>8. CASE Follows(j)
    <3>1. view[j] = previous[j] /\ seen[j] = graph
      BY <1>1, <2>8 DEF Follows
    <3>2. Apply(view[j], DiffGraphs(previous[j], seen[j])) = graph
      BY <1>1, <3>1, ApplyDiff
    <3> QED BY <1>1, <1>5, <2>8, <3>2 DEF Follows, Applied, Moved, warmVars, evalVars
  <2> QED BY <1>5, <2>2, <2>3, <2>4, <2>5, <2>6, <2>7, <2>8 DEF Effect
<1> QED BY <1>3, <1>4, <1>5

(* When no job goes on, nothing of this changes.                           *)
LEMMA AroundKept ==
  ASSUME Inv, UNCHANGED scenario, Around
  PROVE  /\ EffectTypes' /\ Claimed' /\ Completed' /\ Evaluated' /\ Followers'
         /\ (Recordable => OutcomeKnown)'
<1>1. /\ STypeOK /\ Claimed /\ Completed /\ (Recordable => OutcomeKnown)
      /\ Evaluated /\ Followers
  BY DEF Inv
<1>2. /\ UNCHANGED <<graph, completed, error, initial, first, todo, seen, previous, view>>
      /\ scenario' = scenario /\ \A i \in Job : Place(i)' = Place(i)
  BY DEF Around, Stays, warmVars, evalVars
<1>3. EffectTypes'
  <2>1. version' \in 0..scenario'.changes
    BY <1>1, <1>2, ScenarioIs DEF STypeOK, Around
  <2> QED BY <1>1, <1>2, <2>1 DEF STypeOK, Around, EffectTypes
<1>4. Claimed' /\ Completed'
  BY <1>1, <1>2 DEF Claimed, OneInitial, Completed, Fault
<1>5. Evaluated'
  <2>1. version' \in {version, version + 1} /\ version \in Nat
    BY <1>1, ScenarioIs DEF Around, STypeOK
  <2>2. \A g, P : /\ Once(g, version) => Once(g, version')
                  /\ Covers(g, P, version) => Covers(g, P, version')
    BY <2>1, Grows
  <2>3. cancel' = cancel \/ cancel' = TRUE
    BY DEF Around
  <2>4. cancel => cancel'
    BY <2>3, Zenon
  <2> QED BY <1>1, <1>2, <2>2, <2>4 DEF Evaluated
<1>6. Followers'
  BY <1>1, <1>2 DEF Followers, Followed, OneReplacer, Replacers
<1>7. (Recordable => OutcomeKnown)'
  BY <1>1, <1>2 DEF Recordable, Fault, OutcomeKnown
<1> QED BY <1>3, <1>4, <1>5, <1>6, <1>7

(* The types of the rest.                                                  *)
RestTypes ==
  /\ scenario \in Scenarios /\ readers \in 0..scenario.readers
  /\ woken \in [Job -> BOOLEAN] /\ queue \in [Job -> Seq({"change", "error"})]
  /\ since \in [Job -> -1..version]

(* A step keeps them.                                                      *)
LEMMA RestTyped ==
  ASSUME STypeOK, [Next]_vars
  PROVE  RestTypes'
<1>1. /\ scenario' = scenario /\ scenario \in Scenarios
      /\ version \in Nat /\ scenario.readers \in Nat /\ readers \in 0..scenario.readers
  BY ScenarioIs DEF STypeOK, Next, vars
<1>2. readers' \in {readers, readers + 1, readers - 1} /\ readers' \in 0..scenario.readers
  <2>1. CASE QueryBegin \/ QueryEnd
    BY <1>1, <2>1 DEF QueryBegin, QueryEnd
  <2>2. CASE ~(QueryBegin \/ QueryEnd)
    <3>1. readers' = readers
      BY <2>2
      DEF Next, vars, sessionVars, Call, Stream, Watch, DiffOnce, CallWithoutRuntime, Cancel,
          Close, Receive, Change, Misnotify, Run, Visit, EvalOk, Flush, Finish, WaitCheck,
          WaitNotified, WaitRead, WaitAwait, WaitWake, Register, LoopCheck, LoopReceives,
          LoopTimesOut, Debounce, ReadPrevious, Send, Write, Store, Failed, RecordError,
          EvalErr, EvalHangs
    <3> QED BY <1>1, <3>1
  <2> QED BY <2>1, <2>2
<1>3. woken' \in [Job -> BOOLEAN]
  <2>1. woken \in [Job -> BOOLEAN]
    BY DEF STypeOK
  <2>2. CASE Notified
    BY <2>1, <2>2 DEF Notified
  <2>3. CASE \E j \in Job : woken' = [woken EXCEPT ![j] = FALSE]
    BY <2>1, <2>3
  <2>4. Notified \/ (\E j \in Job : woken' = [woken EXCEPT ![j] = FALSE]) \/ woken' = woken
    BY ScenarioIs
    DEF Next, vars, jobVars, Call, Stream, Watch, DiffOnce, CallWithoutRuntime, Cancel,
        Close, Receive, Change, Misnotify, Run, Visit, EvalOk, Flush, Finish, WaitCheck,
        WaitNotified, WaitRead, WaitAwait, WaitWake, Register, LoopCheck, LoopReceives,
        LoopTimesOut, Debounce, ReadPrevious, Send, Write, Store, Failed, RecordError,
        EvalErr, EvalHangs, QueryBegin, QueryEnd
  <2> QED BY <2>1, <2>2, <2>3, <2>4
<1>4. queue' \in [Job -> Seq({"change", "error"})]
  <2>1. queue \in [Job -> Seq({"change", "error"})]
    BY DEF STypeOK
  <2>2. ASSUME NEW item \in {"change", "error"}, Queued(item)
        PROVE  queue' \in [Job -> Seq({"change", "error"})]
    <3>1. \A j \in Job : Append(queue[j], item) \in Seq({"change", "error"})
      BY <2>1
    <3> QED BY <2>1, <2>2, <3>1 DEF Queued
  <2>3. ASSUME NEW j \in Job, LoopReceives(j)
        PROVE  queue' \in [Job -> Seq({"change", "error"})]
    <3>1. queue' = [queue EXCEPT ![j] = Tail(@)] /\ queue[j] # << >>
      BY <2>3 DEF LoopReceives
    <3>2. Tail(queue[j]) \in Seq({"change", "error"})
      BY <2>1, <3>1
    <3> QED BY <2>1, <3>1, <3>2
  <2>4. ASSUME NEW j \in Job, Debounce(j)
        PROVE  queue' \in [Job -> Seq({"change", "error"})]
    <3>1. << >> \in Seq({"change", "error"})
      OBVIOUS
    <3> QED BY <2>1, <2>4, <3>1 DEF Debounce
  <2>5. \/ \E item \in {"change", "error"} : Queued(item)
        \/ \E j \in Job : LoopReceives(j) \/ Debounce(j)
        \/ queue' = queue
    BY ScenarioIs
    DEF Next, vars, sessionVars, jobVars, watchVars, Call, Stream, Watch, DiffOnce,
        CallWithoutRuntime, Cancel, Close, Receive, Change, Misnotify, Run, Visit, EvalOk,
        Flush, Finish, WaitCheck, WaitNotified, WaitRead, WaitAwait, WaitWake, Register,
        LoopCheck, LoopTimesOut, ReadPrevious, Send, Write, Store,
        Failed, RecordError, EvalErr, EvalHangs, QueryBegin, QueryEnd
  <2> QED BY <2>1, <2>2, <2>3, <2>4, <2>5
<1>5. since' \in [Job -> -1..version']
  <2>1. since \in [Job -> -1..version]
    BY DEF STypeOK
  <2>2. version' = version \/ version' = version + 1
    BY
    DEF Next, vars, sessionVars, jobVars, watchVars, Call, Stream, Watch, DiffOnce,
        CallWithoutRuntime, Cancel, Close, Receive, Change, Misnotify, Run, Visit, EvalOk,
        Flush, Finish, WaitCheck, WaitNotified, WaitRead, WaitAwait, WaitWake, Register,
        LoopCheck, LoopReceives, LoopTimesOut, Debounce, ReadPrevious, Send, Write, Store,
        Failed, RecordError, EvalErr, EvalHangs, QueryBegin, QueryEnd
  <2>3. since' \in [Job -> -1..version]
    <3>1. CASE \E j \in Job : since' = [since EXCEPT ![j] = version]
      BY <1>1, <2>1, <3>1
    <3>2. (\E j \in Job : since' = [since EXCEPT ![j] = version]) \/ since' = since
      BY ScenarioIs
      DEF Next, vars, sessionVars, jobVars, watchVars, Call, Stream, Watch, DiffOnce,
          CallWithoutRuntime, Cancel, Close, Receive, Change, Misnotify, Run, Visit, EvalOk,
          Flush, Finish, WaitCheck, WaitNotified, WaitRead, WaitAwait, WaitWake, Register,
          LoopCheck, LoopReceives, LoopTimesOut, Debounce, ReadPrevious, Send, Write, Store,
          Failed, RecordError, EvalErr, EvalHangs, QueryBegin, QueryEnd
    <3> QED BY <2>1, <3>1, <3>2
  <2>4. \A n \in -1..version : n \in -1..version'
    BY <1>1, <2>2
  <2> QED BY <2>3, <2>4
<1> QED BY <1>1, <1>2, <1>3, <1>4, <1>5 DEF RestTypes

(* It holds initially.                                                     *)
LEMMA InitInv == Init => Inv
<1> SUFFICES ASSUME Init PROVE Inv
  OBVIOUS
<1> USE DEF Init
<1>1. STypeOK
  <2>1. \A j \in Job : Kind[j] \in {"stream", "watch", "diff"}
    BY SessionAssumption
  <2>2. scenario \in [calls : SUBSET Job, buffer : [Job -> Nat \cup {Unbounded}],
                      faults : SUBSET FaultNames, changes : 0..MaxVersion, readers : Nat,
                      workers : Nat \ {0}]
    BY SessionAssumption
  <2>3. scenario.changes \in 0..MaxVersion /\ scenario.readers \in Nat
    BY <2>2
  <2>4. \A j \in Job : "unused" \in Places(Kind[j]) /\ "unused" \in Steps
    BY <2>1, PlacesAre
  <2>5. pc \in [Job -> Steps] /\ next \in [Job -> Steps]
    BY <2>4
  <2>6. queue \in [Job -> Seq({"change", "error"})]
    <3>1. << >> \in Seq({"change", "error"})
      OBVIOUS
    <3> QED BY <3>1
  <2>7. /\ version \in 0..scenario.changes /\ readers \in 0..scenario.readers
        /\ since \in [Job -> -1..version] /\ unread \in [Job -> Nat]
    BY <2>3, SessionAssumption
  <2>8. /\ graph \in Graph /\ seen \in [Job -> Graph]
        /\ previous \in [Job -> Graph] /\ view \in [Job -> Graph]
    BY EmptyIs
  <2> QED BY <2>4, <2>5, <2>6, <2>7, <2>8 DEF STypeOK
<1>2. \A j \in Job : Place(j) = "unused" /\ ~first[j]
  BY DEF Place, At
<1>3. Uncalled /\ Claimed /\ Completed
  BY <1>2 DEF Uncalled, Claimed, OneInitial, Completed
<1>4. OutcomeKnown /\ Evaluated
  BY <1>2 DEF OutcomeKnown, Evaluated
<1>5. Followers
  BY <1>2 DEF Followers, Followed
<1>6. Held
  <2>1. \A j \in Job : Bounded(j) => Capacity(j) \in Nat
    BY <1>1, Kinds
  <2> QED BY <2>1 DEF Held, Backpressure
<1> QED BY <1>1, <1>3, <1>4, <1>5, <1>6 DEF Inv

(* Every step preserves it.                                                *)
LEMMA NextInv == Inv /\ [Next]_vars => Inv'
<1> SUFFICES ASSUME Inv, [Next]_vars PROVE Inv'
  OBVIOUS
<1>1. UNCHANGED scenario /\ (Around \/ \E j \in scenario.calls : Effect(j))
  BY StepEffect
<1>2. /\ STypeOK /\ Uncalled /\ Claimed /\ Completed /\ (Recordable => OutcomeKnown)
      /\ Evaluated /\ Followers
  BY DEF Inv
<1>3. Uncalled' /\ Channels'
  BY <1>1, UncalledKept
<1>4. RestTypes'
  BY <1>2, RestTyped
<1>5. CASE \E j \in scenario.calls : Effect(j)
  <2>1. PICK j \in scenario.calls : Effect(j)
    BY <1>5
  <2>2. j \in Job
    BY <1>2, ScenarioIs
  <2>3. EffectTypes'
    BY <1>1, <1>2, <2>1, <2>2, EffectTyped
  <2>4. STypeOK'
    BY <1>3, <1>4, <2>3 DEF STypeOK, EffectTypes, RestTypes, Channels
  <2>5. Claimed' /\ Completed' /\ Evaluated'
    BY <1>1, <1>2, <2>1, <2>2, <2>3, ClaimedKept, CompletedKept, EvaluatedKept
  <2>6. ASSUME Recordable' PROVE OutcomeKnown'
    <3>1. Recordable
      BY <1>1, <2>6 DEF Recordable, Fault
    <3> QED BY <1>1, <1>2, <2>1, <2>2, <3>1, OutcomeKept
  <2>7. ASSUME OneReplacer' PROVE \A i \in Job : Followed(i)'
    <3>1. OneReplacer
      BY <1>1, <2>7 DEF OneReplacer, Replacers
    <3>2. \A i \in Job : Followed(i)
      BY <1>2, <3>1 DEF Followers
    <3> QED BY <1>1, <1>2, <1>3, <2>1, <3>1, <3>2, FollowersKept
  <2> QED BY <1>3, <2>4, <2>5, <2>6, <2>7 DEF Inv, Followers, Channels
<1>6. CASE Around
  <2>1. /\ EffectTypes' /\ Claimed' /\ Completed' /\ Evaluated' /\ Followers'
        /\ (Recordable => OutcomeKnown)'
    BY <1>1, <1>6, AroundKept
  <2>2. STypeOK'
    BY <1>3, <1>4, <2>1 DEF STypeOK, EffectTypes, RestTypes, Channels
  <2> QED BY <1>3, <2>1, <2>2 DEF Inv, Channels
<1> QED BY <1>1, <1>5, <1>6

(* So it is an invariant.                                                  *)
THEOREM Invariance == Spec => []Inv
BY InitInv, NextInv, PTL DEF Spec

-----------------------------------------------------------------------------
(* What follows from it.                                                   *)

(* Every variable keeps its type; in particular the number of changes and  *)
(* of queries, and the places a call of each kind can be at.               *)
THEOREM SessionTypes == Spec => []STypeOK
<1>1. Inv => STypeOK
  BY DEF Inv
<1> QED BY <1>1, Invariance, PTL

(* However many streams and watches are started, whenever, one of them     *)
(* runs the initial evaluation of the session.                             *)
THEOREM InitialOnce == Spec => []OneInitial
<1>1. Inv => OneInitial
  BY DEF Inv, Claimed
<1> QED BY <1>1, Invariance, PTL

(* When the initial evaluation is called finished its outcome can be       *)
(* asked for, if every call is made inside a runtime, or there are no      *)
(* queries: SessionGaps.cfg has what happens otherwise.                    *)
THEOREM OutcomeIsKnown == Spec => [](Recordable => OutcomeKnown)
<1>1. Inv => (Recordable => OutcomeKnown)
  BY DEF Inv
<1> QED BY <1>1, Invariance, PTL

(* What a completed session has was there, and what was there all the time *)
(* is not missing unless the session was cancelled.                        *)
THEOREM Snapshots == Spec => []SnapshotWhole
<1>1. Inv => SnapshotWhole
  BY DEF Inv, Evaluated, Once, Covers, SnapshotWhole, FoundOnce, NothingMissing
<1> QED BY <1>1, Invariance, PTL

(* Diffs are against the graph they replace, if one call replaces graphs.  *)
THEOREM DiffsChain == Spec => []DiffAgainstReplaced
<1>1. ASSUME Inv PROVE DiffAgainstReplaced
  <2>1. \A j \in Job : At(j, "store") => Place(j) = "store"
    BY DEF Place, At
  <2> QED
    BY <1>1, <2>1
    DEF Inv, Followers, Followed, DiffAgainstReplaced, AgainstReplaced
<1> QED BY <1>1, Invariance, PTL

(* A client that applies the diffs it is sent keeps up with that graph.    *)
THEOREM ClientsFollow == Spec => []ViewIsWarm
<1>1. ASSUME Inv PROVE ViewIsWarm
  <2>1. \A j \in Job : pc[j] \in {"loop", "recv"} => Place(j) = pc[j]
    BY DEF Place, At
  <2> QED BY <1>1, <2>1 DEF Inv, Followers, Followed, ViewIsWarm
<1> QED BY <1>1, Invariance, PTL

(* A bounded stream or watch never has more unread results than its        *)
(* capacity and the one whose sender waits, whatever the capacity.         *)
THEOREM StreamsHoldBack == Spec => []Backpressure
<1>1. Inv => Backpressure
  BY DEF Inv, Held
<1> QED BY <1>1, Invariance, PTL
=============================================================================
