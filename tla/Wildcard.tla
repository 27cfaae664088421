------------------------------ MODULE Wildcard ------------------------------
(***************************************************************************)
(* wildcard_matches (state.rs), with which a query's include and exclude   *)
(* patterns are matched against the name of an attribute: the table that   *)
(* the code fills, cell by cell, and what it means for a pattern to match. *)
(*                                                                         *)
(* An operator named X_Y is X with a mistake in it, kept to show that the  *)
(* properties notice.                                                      *)
(***************************************************************************)
EXTENDS Integers, Sequences

CONSTANTS
  Char,      \* characters, of a value as well as of a pattern
  Star, Any, \* the characters `*` and `?`
  Patterns,  \* the patterns, and
  Values     \* the values, that may be asked about

ASSUME WildcardAssumption ==
  /\ Star \in Char /\ Any \in Char /\ Star # Any
  /\ Patterns \subseteq Seq(Char) /\ Values \subseteq Seq(Char)

VARIABLES
  pattern, value,  \* the arguments
  matches,         \* the table: matches[i][j] for the first i characters of
                   \* the pattern and the first j of the value
  pc,              \* "column", "table" or "done"
  i, j,            \* the loop variables
  result           \* what is returned

vars == <<pattern, value, matches, pc, i, j, result>>

M == Len(pattern)
N == Len(value)

Init ==
  /\ pattern \in Patterns
  /\ value \in Values
  /\ matches = [x \in 0..M |-> [y \in 0..N |-> x = 0 /\ y = 0]]
  /\ pc = "column"
  /\ i = 1 /\ j = 0
  /\ result = FALSE

Set(x, y, b) == matches' = [matches EXCEPT ![x][y] = b]

(* matches[i][0] stays false unless the pattern has a star there.          *)
ColumnCell == pattern[i] = Star /\ matches[i - 1][0]

(* The first loop.                                                         *)
FirstColumn ==
  /\ pc = "column"
  /\ i <= M
  /\ Set(i, 0, ColumnCell)
  /\ i' = i + 1
  /\ UNCHANGED <<pattern, value, pc, j, result>>

ColumnEnds ==
  /\ pc = "column"
  /\ i > M
  /\ pc' = "table"
  /\ i' = 1 /\ j' = 1
  /\ UNCHANGED <<pattern, value, matches, result>>

Cell ==
  IF pattern[i] = Star THEN matches[i - 1][j] \/ matches[i][j - 1]
  ELSE (pattern[i] = Any \/ pattern[i] = value[j]) /\ matches[i - 1][j - 1]

(* The inner loop of the second loop.                                      *)
Fill ==
  /\ pc = "table"
  /\ i <= M /\ j <= N
  /\ Set(i, j, Cell)
  /\ j' = j + 1
  /\ UNCHANGED <<pattern, value, pc, i, result>>

RowEnds ==
  /\ pc = "table"
  /\ i <= M /\ j > N
  /\ i' = i + 1 /\ j' = 1
  /\ UNCHANGED <<pattern, value, matches, pc, result>>

Return ==
  /\ pc = "table"
  /\ i > M
  /\ pc' = "done"
  /\ result' = matches[M][N]
  /\ UNCHANGED <<pattern, value, matches, i, j>>

Next == FirstColumn \/ ColumnEnds \/ Fill \/ RowEnds \/ Return

Spec == Init /\ [][Next]_vars

-----------------------------------------------------------------------------
(* What matching means. A pattern matches a value if the value can be cut  *)
(* so that each character of the pattern has its piece, cut[x] being where *)
(* the piece of the x-th one ends: any piece for a star, a character for   *)
(* `?`, and for any other character that one.                              *)

Piece(p, v, cut, x) ==
  IF p[x] = Star
    THEN cut[x - 1] <= cut[x]
    ELSE cut[x] = cut[x - 1] + 1 /\ (p[x] = Any \/ p[x] = v[cut[x]])

IsCut(p, v, x, y, cut) ==
  /\ cut[0] = 0
  /\ cut[x] = y
  /\ \A k \in 1..x : Piece(p, v, cut, k)

(* The first x characters of p match the first y of v.                     *)
Glob(p, v, x, y) == \E cut \in [0..x -> 0..Len(v)] : IsCut(p, v, x, y, cut)

-----------------------------------------------------------------------------
(* Properties.                                                             *)

WTypeOK ==
  /\ pattern \in Seq(Char) /\ value \in Seq(Char)
  /\ matches \in [0..M -> [0..N -> BOOLEAN]]
  /\ pc \in {"column", "table", "done"}
  /\ i \in 1..(M + 1) /\ j \in 0..(N + 1)
  /\ result \in BOOLEAN

(* The cells that the loops have passed.                                   *)
Passed(x, y) ==
  \/ x = 0
  \/ pc = "column" /\ x < i /\ y = 0
  \/ pc # "column" /\ (y = 0 \/ x < i \/ (x = i /\ y < j))

(* Every cell that has been filled says whether that much of the pattern   *)
(* matches that much of the value.                                         *)
TableRight ==
  \A x \in 0..M : \A y \in 0..N :
    Passed(x, y) => (matches[x][y] <=> Glob(pattern, value, x, y))

(* wildcard_matches returns whether the pattern matches the value.         *)
ResultRight == pc = "done" => (result <=> Glob(pattern, value, M, N))
=============================================================================
