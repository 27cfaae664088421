------------------------------ MODULE WarmGraph ------------------------------
(***************************************************************************)
(* The derivation graph that a session keeps warm (state.rs) and the       *)
(* difference of two such graphs. A graph maps an attribute path to the    *)
(* drv_path of the derivation there; the other fields of a derivation are  *)
(* carried along and never compared. The code collects the added and the   *)
(* removed derivations in the order a HashMap yields them: here they are   *)
(* sets.                                                                   *)
(*                                                                         *)
(* An operator named X_Y is X with a mistake in it, kept to show that the  *)
(* properties notice.                                                      *)
(***************************************************************************)
CONSTANTS
  Path,  \* attribute paths
  Drv    \* drv_paths

Graph == UNION {[D -> Drv] : D \in SUBSET Path}

EmptyGraph == [p \in {} |-> {}]

(* EvalAccumulator::record, for a derivation: HashMap::insert.             *)
Recorded(g, p, d) ==
  [q \in DOMAIN g \cup {p} |-> IF q = p THEN d ELSE g[q]]

(* p has the same derivation in both graphs.                               *)
Unchanged(g, h, p) == p \in DOMAIN g /\ p \in DOMAIN h /\ g[p] = h[p]

Entries(g, P) == {[path |-> p, drv |-> g[p]] : p \in P}

DiffGraphs_NewPathsOnly(previous, current) ==
  [removed |-> Entries(previous, DOMAIN previous \ DOMAIN current),
   added   |-> Entries(current, DOMAIN current \ DOMAIN previous)]

(* diff_graphs: a derivation that changed is removed and added.            *)
DiffGraphs(previous, current) ==
  [removed |-> Entries(previous,
                 {p \in DOMAIN previous : ~Unchanged(previous, current, p)}),
   added   |-> Entries(current,
                 {p \in DOMAIN current : ~Unchanged(previous, current, p)})]

(* What somebody who holds the graph g and receives the diff d then has:   *)
(* take the removed entries out, put the added ones in.                    *)
Apply(g, d) ==
  LET kept == {p \in DOMAIN g : [path |-> p, drv |-> g[p]] \notin d.removed}
      new  == {e.path : e \in d.added}
  IN  [p \in kept \cup new |->
         IF p \in new
           THEN (CHOOSE e \in d.added : e.path = p).drv
           ELSE g[p]]
=============================================================================
