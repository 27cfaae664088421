------------------------------- MODULE Filter -------------------------------
(***************************************************************************)
(* matches_filter (state.rs): whether a query's filter lets a derivation   *)
(* through. Each populated field is decided, and all of them have to       *)
(* agree; the patterns are tried one after the other, each by a call of    *)
(* wildcard_matches, which is the module Wildcard. They are matched        *)
(* against the derivation's attr, which process_attr (eval.rs) makes of    *)
(* the attribute path.                                                     *)
(*                                                                         *)
(* An operator named X_Y is X with a mistake in it, kept to show that the  *)
(* properties notice.                                                      *)
(***************************************************************************)
EXTENDS Wildcard

CONSTANTS
  Questions,  \* what may be asked: records of
              \*   drv: a derivation, with system, attr, attr_path, name,
              \*     drv_path
              \*   filter: each field is None or a sequence
  None,       \* Option::None
  Dot         \* the character between the names of a rendered path

Fields == {"systems", "attr_prefix", "attr_prefixes", "attrs", "names",
           "drv_paths", "include_patterns", "exclude_patterns"}

(* attr_path.join(".")                                                     *)
Rendered(path) ==
  LET upTo[n \in 0..Len(path)] ==
        IF n = 0 THEN << >>
        ELSE IF n = 1 THEN path[1]
        ELSE upTo[n - 1] \o <<Dot>> \o path[n]
  IN  upTo[Len(path)]

Strings == Seq(Char)

ASSUME FilterAssumption ==
  /\ Dot \in Char
  /\ \A q \in Questions :
       /\ DOMAIN q = {"drv", "filter"}
       /\ q.drv.attr \in Strings /\ q.drv.attr = Rendered(q.drv.attr_path)
       /\ q.drv.attr_path \in Seq(Strings)
       /\ DOMAIN q.filter = Fields
       /\ q.filter.attr_prefix \in Seq(Strings) \cup {None}
       /\ q.filter.attr_prefixes \in Seq(Seq(Strings)) \cup {None}
       /\ q.filter.include_patterns \in Seq(Strings) \cup {None}
       /\ q.filter.exclude_patterns \in Seq(Strings) \cup {None}

VARIABLES
  question,  \* the arguments
  stage,     \* the patterns being tried, a field, then "decide" and "return"
  at,        \* the next of them
  found,     \* found[stage]: one of them has matched
  answer     \* what is returned

fvars == <<question, stage, at, found, answer>>

drv == question.drv

filter == question.filter

(* A call that has not begun; its arguments are of no interest.            *)
FInit ==
  /\ question \in Questions
  /\ stage = "include_patterns" /\ at = 1
  /\ found = [f \in {"include_patterns", "exclude_patterns"} |-> FALSE]
  /\ answer = FALSE
  /\ pc = "idle"
  /\ pattern = << >> /\ value = << >> /\ result = FALSE
  /\ matches = << >> /\ i = 1 /\ j = 0

-----------------------------------------------------------------------------
(* patterns.iter().any(|pattern| wildcard_matches(pattern, &drv.attr)).    *)

Tried == IF filter[stage] = None THEN << >> ELSE filter[stage]

Trying == stage \in {"include_patterns", "exclude_patterns"}

Call ==
  /\ Trying /\ pc = "idle"
  /\ at <= Len(Tried)
  /\ pattern' = Tried[at] /\ value' = drv.attr
  /\ matches' = [x \in 0..M' |-> [y \in 0..N' |-> x = 0 /\ y = 0]]
  /\ pc' = "column" /\ i' = 1 /\ j' = 0 /\ result' = FALSE
  /\ UNCHANGED fvars

Match == Next /\ UNCHANGED fvars

(* One that matches is enough.                                             *)
Returned ==
  /\ Trying /\ pc = "done"
  /\ pc' = "idle"
  /\ found' = [found EXCEPT ![stage] = result]
  /\ at' = IF result THEN Len(Tried) + 1 ELSE at + 1
  /\ UNCHANGED <<question, stage, answer, pattern, value, matches, i, j, result>>

Exhausted ==
  /\ Trying /\ pc = "idle"
  /\ at > Len(Tried)
  /\ stage' = IF stage = "include_patterns" THEN "exclude_patterns" ELSE "decide"
  /\ at' = 1
  /\ UNCHANGED <<question, found, answer, vars>>

-----------------------------------------------------------------------------
(* The other fields.                                                       *)

Lists(field, x) ==
  filter[field] # None => \E n \in DOMAIN filter[field] : filter[field][n] = x

StartsWith_Zip(path, prefix) ==
  \A n \in DOMAIN path \cap DOMAIN prefix : path[n] = prefix[n]

(* attr_path_starts_with.                                                  *)
StartsWith(path, prefix) ==
  /\ Len(path) >= Len(prefix)
  /\ \A n \in DOMAIN path \cap DOMAIN prefix : path[n] = prefix[n]

Included == filter.include_patterns # None => found["include_patterns"]

Excluded == filter.exclude_patterns # None /\ found["exclude_patterns"]

Decide ==
  /\ stage = "decide"
  /\ stage' = "return"
  /\ answer' =
       /\ Lists("systems", drv.system)
       /\ filter.attr_prefix # None =>
            StartsWith(drv.attr_path, filter.attr_prefix)
       /\ filter.attr_prefixes # None =>
            \E n \in DOMAIN filter.attr_prefixes :
              StartsWith(drv.attr_path, filter.attr_prefixes[n])
       /\ Lists("attrs", drv.attr_path)
       /\ Lists("names", drv.name)
       /\ Lists("drv_paths", drv.drv_path)
       /\ Included
       /\ ~Excluded
  /\ UNCHANGED <<question, at, found, vars>>

FNext == Call \/ Match \/ Returned \/ Exhausted \/ Decide

FSpec == FInit /\ [][FNext]_<<vars, fvars>>

-----------------------------------------------------------------------------
(* What a filter means: each populated field selects derivations, and all  *)
(* have to select this one.                                                *)

Globs(p) ==
  LET attr == Rendered(drv.attr_path) IN Glob(p, attr, Len(p), Len(attr))

(* A value of a field selects the derivation.                            *)
Selects(field, x) ==
  CASE field = "systems"   -> drv.system = x
    [] field = "attrs"     -> drv.attr_path = x
    [] field = "names"     -> drv.name = x
    [] field = "drv_paths" -> drv.drv_path = x
    [] field = "attr_prefixes" ->
         \E n \in 0..Len(drv.attr_path) : x = SubSeq(drv.attr_path, 1, n)
    [] field \in {"include_patterns", "exclude_patterns"} -> Globs(x)

(* The values of a populated field.                                        *)
Populated(field) ==
  IF field = "attr_prefix" THEN {filter[field]}
  ELSE {filter[field][n] : n \in DOMAIN filter[field]}

Admitted ==
  \A field \in Fields :
    filter[field] # None =>
      CASE field = "exclude_patterns" ->
             \A x \in Populated(field) : ~Selects(field, x)
        [] field = "attr_prefix" ->
             Selects("attr_prefixes", filter[field])
        [] OTHER -> \E x \in Populated(field) : Selects(field, x)

(* README: multiple populated filter fields are combined as intersections. *)
(* matches_filter returns TRUE for exactly the derivations that every      *)
(* populated field selects, whichever of the patterns it has stopped at;   *)
(* a field that is populated with nothing selects nothing.                 *)
FilterRight == stage = "return" => (answer <=> Admitted)
=============================================================================
