----------------------------- MODULE MCSession -----------------------------
(* Instances of Session for TLC: two paths, and three versions of the      *)
(* inputs in which one derivation changes and the other goes away.         *)
EXTENDS Session

CONSTANTS s, w, d, a, b, d1, d2

MCContent ==
  [k \in 0..MaxVersion |->
     CASE k = 0 -> [p \in {a, b} |-> d1]
       [] k = 1 -> [p \in {a, b} |-> IF p = a THEN d2 ELSE d1]
       [] k = 2 -> [p \in {a} |-> d2]]

MCKind ==
  [j \in Job |-> CASE j = s -> "stream"
                   [] j = w -> "watch"
                   [] j = d -> "diff"]

Scenario(calls, faults, changes, queries) ==
  [calls |-> calls, buffer |-> [j \in Job |-> Unbounded],
   faults |-> faults, changes |-> changes, readers |-> queries, workers |-> 1]

Shared ==
  Scenario({s, w}, {"fail", "close", "unwatched", "misnotify"}, 2, 1)

Cancelled == Scenario({s, w, d}, {"cancel", "fail", "noruntime"}, 1, 0)

(* The stream asks for no capacity at all, and gets one.                   *)
Bounding(sc) ==
  [sc EXCEPT !.buffer = [j \in Job |-> CASE j = s -> 0
                                         [] j = w -> 1
                                         [] j = d -> Unbounded]]

(* With two workers a cancelled evaluation may hang.                       *)
TwoWorkers(sc) == [sc EXCEPT !.workers = 2]

Hanging == TwoWorkers(Scenario({s, w, d}, {"cancel"}, 1, 0))

Limited == Bounding(Scenario({s, w}, {"cancel", "fail", "close"}, 1, 0))

MCScenarios == {Shared, Cancelled, Hanging, Limited}

(* What Session does not keep shows in each of these.                      *)
Gaps ==
  {Scenario({w, d}, {}, 1, 0), Scenario({s}, {"cancel"}, 0, 0),
   Scenario({s}, {"noruntime"}, 0, 1), TwoWorkers(Scenario({s}, {"cancel"}, 0, 0))}

Unread == {Bounding(Scenario({s}, {"cancel"}, 0, 0))}

(* Two bounded streams, of capacity 1, that may be read late.              *)
Pending == {Bounding(Scenario({s, w}, {"close"}, 2, 0))}
=============================================================================
