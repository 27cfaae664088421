------------------------------ MODULE Traversal ------------------------------
(***************************************************************************)
(* What one evaluation promises its caller, whatever the pool of workers   *)
(* and however their answers interleave: every reachable attribute is      *)
(* reported at most once, never before the attribute set that contains it; *)
(* a derivation that no worker owns is never reported; the evaluation is   *)
(* complete exactly when everything reachable has been reported; and it    *)
(* fails by its own decision only when a fatal error was reported or a     *)
(* derivation has no owner. This is the "Distributed Evaluation" chapter   *)
(* of the README as a state machine; Scheduler.tla implements it.          *)
(***************************************************************************)
EXTENDS Evaluation

VARIABLES
  reported,  \* reported[p]: how often p was reported to the caller
  verdict    \* "running", "complete", "failed" or "stopped"

vars == <<reported, verdict>>

TypeOK ==
  /\ reported \in [Tree -> Nat]
  /\ verdict \in {"running", "complete", "failed", "stopped"}

Init ==
  /\ reported = [p \in Tree |-> 0]
  /\ verdict = "running"

(* p may be reported now: it is the root, or a child of an attribute set   *)
(* that has been reported.                                                 *)
Discovered(p) ==
  \/ p = Root
  \/ \E q \in Tree : reported[q] > 0 /\ IsAttrSet(q) /\ p \in Children(q)

Report(p) ==
  /\ verdict = "running"
  /\ reported[p] = 0
  /\ Discovered(p)
  /\ IsDerivation(p) => Owned(p)
  /\ reported' = [reported EXCEPT ![p] = 1]
  /\ UNCHANGED verdict

Complete ==
  /\ verdict = "running"
  /\ \A p \in Reachable : reported[p] = 1
  /\ verdict' = "complete"
  /\ UNCHANGED reported

(* The evaluation itself gives up.                                         *)
Fail ==
  /\ verdict = "running"
  /\ \/ \E p \in Tree : IsError(p) /\ Answer[p].fatal /\ reported[p] = 1
     \/ \E p \in Reachable : IsDerivation(p) /\ ~Owned(p)
  /\ verdict' = "failed"
  /\ UNCHANGED reported

(* Something outside ends it: cancellation, a lost worker, a failing sink. *)
Stop ==
  /\ verdict = "running"
  /\ verdict' = "stopped"
  /\ UNCHANGED reported

Next == (\E p \in Tree : Report(p)) \/ Complete \/ Fail \/ Stop

Spec == Init /\ [][Next]_vars
=============================================================================
