----------------------------- MODULE Evaluation -----------------------------
(***************************************************************************)
(* What every module about one evaluation shares: the attribute graph that *)
(* is evaluated, the answer an evaluator gives for each attribute path     *)
(* (lib.rs, enum Event), and the pool of workers (async_master.rs,         *)
(* WorkerSpec and WorkerKind) with the rule that says which worker may     *)
(* keep which derivation.                                                  *)
(*                                                                         *)
(* A path is a sequence of names, as Vec<String> is in the code. The graph *)
(* itself lives in Nix expressions, outside the program: here it is the    *)
(* constant Answer. It may be infinite; only the reachable part matters.   *)
(***************************************************************************)
EXTENDS Integers, Sequences, FiniteSets

CONSTANTS
  Name,     \* attribute names
  System,   \* Nix system strings
  Tree,     \* the paths an evaluator can be asked for
  Answer,   \* Answer[p]: the event evaluating p produces
  N,        \* the number of workers in the pool
  Kind,     \* Kind[w]: "local" or "remote"
  Systems   \* Systems[w]: the systems a remote worker's entry lists

Root == << >>

-----------------------------------------------------------------------------
(* Events: what a worker returns for one path.                             *)

AttrSetEvent    == [kind : {"AttrSet"}, attrs : Seq(Name)]
DerivationEvent == [kind : {"Derivation"}, system : System]
ErrorEvent      == [kind : {"Error"}, fatal : BOOLEAN]
Event           == AttrSetEvent \cup DerivationEvent \cup ErrorEvent

IsAttrSet(p)    == Answer[p].kind = "AttrSet"
IsDerivation(p) == Answer[p].kind = "Derivation"
IsError(p)      == Answer[p].kind = "Error"

(* The names of one attribute set are distinct: they are the keys of a Nix *)
(* attribute set (eval.rs, collect_recurse).                               *)
AnswerAssumption ==
  /\ Root \in Tree
  /\ Tree \subseteq Seq(Name)
  /\ Answer \in [Tree -> Event]
  /\ \A p \in Tree : IsAttrSet(p) =>
       \A i, j \in 1..Len(Answer[p].attrs) :
         /\ Append(p, Answer[p].attrs[i]) \in Tree
         /\ Answer[p].attrs[i] = Answer[p].attrs[j] => i = j

ASSUME GraphAssumption == AnswerAssumption

-----------------------------------------------------------------------------
(* The worker pool. Worker ids are positions in the vector of specs.       *)

Worker == 0 .. (N - 1)

ASSUME PoolAssumption ==
  /\ N \in Nat \ {0}
  /\ Kind \in [Worker -> {"local", "remote"}]
  /\ Systems \in [Worker -> SUBSET System]

(* Whether worker w keeps a derivation for system s. A local worker, and a *)
(* remote whose list of systems is empty, keeps every derivation.          *)
Accepts(w, s) ==
  \/ Kind[w] = "local"
  \/ Systems[w] = {}
  \/ s \in Systems[w]

Owned(p) == \E w \in Worker : Accepts(w, Answer[p].system)

-----------------------------------------------------------------------------
(* The part of the graph an evaluation has to report: the root, and the    *)
(* children of every reachable attribute set. It is the least such set,    *)
(* stated without recursion so that proofs can use it.                     *)

Children(p) == {Append(p, Answer[p].attrs[i]) : i \in 1..Len(Answer[p].attrs)}

ClosedUnderChildren(S) ==
  /\ Root \in S
  /\ \A p \in S : IsAttrSet(p) => Children(p) \subseteq S

Reachable ==
  {p \in Tree : \A S \in SUBSET Tree : ClosedUnderChildren(S) => p \in S}

(* Every derivation of the graph has an owner, and nothing in it is fatal. *)
Covered ==
  \A p \in Reachable :
    /\ IsDerivation(p) => Owned(p)
    /\ IsError(p) => ~Answer[p].fatal
=============================================================================
