----------------------------- MODULE Attributes -----------------------------
(***************************************************************************)
(* What workers do with the attribute paths they are given (eval.rs): they *)
(* walk from the root along the path, calling functions on the way, and    *)
(* tell an attribute set, whose names are asked for next, from a           *)
(* derivation, whose attributes are read and whose gc root is registered   *)
(* in a directory that all workers share.                                  *)
(*                                                                         *)
(* Nix values form a graph, which may have cycles; forcing one of them may *)
(* throw. The order in which paths are handed out is Scheduler's; here any *)
(* worker takes any of them.                                               *)
(*                                                                         *)
(* An operator named X_Y is X with a mistake in it, kept to show that the  *)
(* properties notice.                                                      *)
(***************************************************************************)
EXTENDS SequencesExt, EventJson

CONSTANTS
  Values,     \* the values of the graph
  Type(_),    \* "attrs", "list", "string", "true", "false", "null",
              \* "function" (with formals), "lambda" (without) or "throws"
  Attr(_),    \* of an attribute set: names to values
  Items(_),   \* of a list: the values in it
  Text(_),    \* of a string: what it says
  Result(_),  \* of a function with formals: what a call returns
  Lacks(_),   \* of a function with formals: --arg and --argstr do not do
  Drv(_),     \* of an attribute set: the derivation it is, None, or Failed
              \* (get_derivation, or print_path of what it returns)
  InputDrvs(_),  \* what a derivation's file says: pairs of an input and
              \* its outputs, which may be Failed; or Failed
  Failed,     \* what could not be had
  Scenarios,  \* records of input ("flake", "expr" or "file"), root (what it
              \* evaluates to), forceRecurse, meta, inputDrvs, and dir:
              \* gc_roots_dir is None, "missing" or "there"
  Workers,
  Depth,      \* how deep read_meta goes; 64 in the code
  MaxLength   \* longest path that is asked for; the code has no bound

VARIABLES
  scenario,  \* the one of Scenarios that this behaviour is in
  todo,      \* the paths that are waiting for a worker
  work,      \* of a worker: the path it evaluates, or None
  stage,     \* of a worker: "evaluate", "exists" or "symlink"
  links,     \* the derivations that have a link in the directory
  events,    \* the answers, by path
  raced      \* history: derivations two workers registered at a time

avars == <<scenario, todo, work, stage, links, events, raced>>

Names == UNION {DOMAIN Attr(v) : v \in {u \in Values : Type(u) = "attrs"}}

Drvs ==
  {Drv(v) : v \in {u \in Values : Type(u) = "attrs"}} \ {None, Failed}

Marker == "recurseForDerivations"

(* The paths that can be asked for.                                        *)
Paths == UNION {[1..n -> Names \ {Marker}] : n \in 0..MaxLength}

(* A place in a list, as it is written in that of a value in it.           *)
Index(i) == ToString(i)

(* What is in a value is a value; the places in a list have texts of their *)
(* own.                                                                    *)
GraphAssumption ==
  \A v \in Values :
    /\ Type(v) = "attrs" => Attr(v) \in [DOMAIN Attr(v) -> Values]
    /\ Type(v) = "function" => Result(v) \in Values
    /\ Type(v) = "list" =>
         /\ Items(v) \in Seq(Values)
         /\ \A i, j \in DOMAIN Items(v) : Index(i) = Index(j) => i = j

ASSUME AttributesAssumption ==
  /\ GraphAssumption
  /\ {None, Failed, Null} \cap Values = {} /\ None \notin {Null, Failed, "symlink"}
  /\ None \notin Paths
  /\ \A s \in Scenarios : s.root \in Values /\ Type(s.root) # "throws"
  /\ Depth \in Nat /\ MaxLength \in Nat

-----------------------------------------------------------------------------
(* The Nix evaluator, as eval.rs uses it. get_attr and list_get force what *)
(* they return; auto_call_function calls once.                             *)

Forced(v) == IF v = Failed \/ Type(v) = "throws" THEN Failed ELSE v

Keys(v) == IF Type(v) = "attrs" THEN DOMAIN Attr(v) ELSE {}

GetAttr(v, name) ==
  IF v # Failed /\ name \in Keys(v) THEN Forced(Attr(v)[name]) ELSE Failed

Called(v) ==
  IF v = Failed \/ Type(v) # "function" THEN v
  ELSE IF Lacks(v) THEN Failed
  ELSE Forced(Result(v))

Is(v, type) == v # Failed /\ Type(v) = type

(* eval_root. A flake's outputs are not called.                            *)
RootOf(s) == IF s.input = "flake" THEN s.root ELSE Called(s.root)

Root == RootOf(scenario)

(* A worker for which it fails ends before it is Ready, and is handed no   *)
(* path (that is the fault "init" of WorkerProcess).                       *)
ASSUME RootAssumption == \A s \in Scenarios : RootOf(s) # Failed

(* The values on a path, from the one that it begins at.                   *)
Walk(start, path) ==
  LET at[k \in 0..Len(path)] ==
        IF k = 0 THEN start ELSE Called(GetAttr(at[k - 1], path[k]))
  IN  at

(* navigate: the path without a name is the root, called once more.        *)
Navigate(path) ==
  IF path = << >> THEN Called(Root) ELSE Walk(Root, path)[Len(path)]

(* collect_recurse.                                                        *)
CollectRecurse_Top(v, path) ==
  IF scenario.forceRecurse \/ Is(GetAttr(v, Marker), "true")
    THEN Keys(v) \ {Marker} ELSE {}

CollectRecurse(v, path) ==
  IF scenario.forceRecurse \/ path = << >> \/ Is(GetAttr(v, Marker), "true")
    THEN Keys(v) \ {Marker} ELSE {}

(* value_to_json: the places of the JSON value and what is there, no place *)
(* at all when there is no JSON value. What cannot be read is left out of  *)
(* an object and null in an array.                                         *)
Listable(v) == \A i \in DOMAIN Items(v) : Forced(Items(v)[i]) # Failed

InArray_Omitted(json) == json

InArray(json) == IF json = {} THEN {<< << >>, "null" >>} ELSE json

Under(place, json) == {<< <<place>> \o p[1], p[2] >> : p \in json}

(* Of a value, given the JSON values of what is in it.                     *)
JsonOf(v, below) ==
  CASE Type(v) \in {"function", "lambda", "throws"} -> {}
    [] Type(v) = "attrs" ->
         {<< << >>, "object" >>} \union
         UNION {Under(k, below[Attr(v)[k]]) : k \in Keys(v)}
    [] Type(v) = "list" ->
         IF ~Listable(v) THEN {}
         ELSE {<< << >>, "array" >>} \union
              UNION {Under(Index(i), InArray(below[Items(v)[i]])) : i \in DOMAIN Items(v)}
    [] OTHER -> {<< << >>, Type(v) >>}

Json[d \in 0..Depth] ==
  [v \in Values |-> IF d = 0 THEN {} ELSE JsonOf(v, Json[d - 1])]

ASSUME JsonAssumption == \A v \in Values : Json[Depth][v] # None

(* read_meta.                                                              *)
ReadMeta(v) ==
  LET meta == GetAttr(v, "meta")
      json == IF meta = Failed THEN {} ELSE Json[Depth][meta]
  IN  IF json = {} THEN None ELSE json

(* read_input_drvs: an input whose outputs cannot be read is left out.     *)
ReadInputDrvs(drv) ==
  IF InputDrvs(drv) = Failed THEN {}
  ELSE {input \in InputDrvs(drv) : input[2] # Failed}

(* read_constituents, output_paths, output_path_for: what cannot be read   *)
(* is left out, and an output without a path is None.                      *)
Strings(v) == SelectSeq(Items(v), LAMBDA w : Is(Forced(w), "string"))

Constituents(v) ==
  LET list == GetAttr(v, "constituents")
  IN  IF Is(list, "list") THEN Strings(list) ELSE None

OutputPath(v, name) ==
  LET out == GetAttr(v, name)
  IN  CASE Is(GetAttr(out, "outPath"), "string") -> GetAttr(out, "outPath")
        [] ~Is(GetAttr(out, "outPath"), "string") /\ Is(out, "string") -> out
        [] OTHER -> None

Outputs(v) ==
  LET list == GetAttr(v, "outputs")
  IN  IF Is(list, "list")
        THEN {<<w, OutputPath(v, Text(w))>> : w \in Range(Strings(list))}
        ELSE {}

-----------------------------------------------------------------------------
(* process_attr and make_job, up to the gc root.                           *)
ErrorEvent == [kind |-> "Error", error |-> "eval", fatal |-> FALSE]

AttrSetEvent(names) == [kind |-> "AttrSet", attrs |-> names]

Job(v, drv) ==
  IF ~Is(GetAttr(v, "name"), "string") THEN ErrorEvent
  ELSE [kind         |-> "Derivation",
        drv          |-> drv,
        name         |-> GetAttr(v, "name"),
        system       |-> IF Is(GetAttr(v, "system"), "string")
                           THEN GetAttr(v, "system") ELSE "",
        outputs      |-> Outputs(v),
        meta         |-> IF scenario.meta THEN ReadMeta(v) ELSE None,
        inputDrvs    |-> IF scenario.inputDrvs THEN ReadInputDrvs(drv) ELSE {},
        constituents |-> Constituents(v),
        gcRootError  |-> None]

ProcessAttr(path) ==
  LET v == Navigate(path)
  IN  CASE v = Failed -> ErrorEvent
        [] v # Failed /\ Type(v) # "attrs" -> AttrSetEvent({})
        [] Is(v, "attrs") /\ Drv(v) = Failed -> ErrorEvent
        [] Is(v, "attrs") /\ Drv(v) = None -> AttrSetEvent(CollectRecurse(v, path))
        [] OTHER -> Job(v, Drv(v))

AInit ==
  /\ scenario \in Scenarios
  /\ todo = {<< >>}
  /\ work = [w \in Workers |-> None]
  /\ stage = [w \in Workers |-> "evaluate"]
  /\ links \in SUBSET (IF scenario.dir = "there" THEN Drvs ELSE {})
  /\ events = << >>
  /\ raced = {}

Take(w, path) ==
  /\ work[w] = None
  /\ work' = [work EXCEPT ![w] = path]
  /\ stage' = [stage EXCEPT ![w] = "evaluate"]
  /\ todo' = todo \ {path}
  /\ UNCHANGED <<scenario, links, events, raced>>

Answer(w, event) ==
  /\ events' = [p \in DOMAIN events \union {work[w]} |->
                  IF p = work[w] THEN event ELSE events[p]]
  /\ todo' = todo \union
       (IF event.kind = "AttrSet" /\ Len(work[w]) < MaxLength
          THEN {Append(work[w], name) : name \in event.attrs} ELSE {})
  /\ work' = [work EXCEPT ![w] = None]
  /\ stage' = stage

(* The workers that are about to register drv.                             *)
Registering(drv) ==
  {w \in Workers : work[w] # None /\ stage[w] # "evaluate"
                   /\ ProcessAttr(work[w]).drv = drv}

Evaluate(w) ==
  /\ work[w] # None /\ stage[w] = "evaluate"
  /\ \E event \in {ProcessAttr(work[w])} :
       IF event.kind = "Derivation" /\ scenario.dir # None
         THEN /\ stage' = [stage EXCEPT ![w] = "exists"]
              /\ raced' = IF Registering(event.drv) = {} THEN raced
                                            ELSE raced \union {event.drv}
              /\ UNCHANGED <<todo, work, events>>
         ELSE Answer(w, event) /\ UNCHANGED raced
  /\ UNCHANGED <<scenario, links>>

(* register_gc_root: link.exists(), then symlink.                          *)
Exists(w) ==
  /\ work[w] # None /\ stage[w] = "exists"
  /\ \E event \in {ProcessAttr(work[w])} :
       IF event.drv \in links THEN Answer(w, event)
         ELSE /\ stage' = [stage EXCEPT ![w] = "symlink"]
              /\ UNCHANGED <<todo, work, events>>
  /\ UNCHANGED <<scenario, links, raced>>

(* An error of the registration that nobody is told of.                    *)
Symlink_Silent(w) ==
  /\ work[w] # None /\ stage[w] = "symlink"
  /\ \E event \in {ProcessAttr(work[w])} :
       LET fails == scenario.dir = "missing" \/ event.drv \in links
       IN  /\ links' = IF fails THEN links ELSE links \union {event.drv}
           /\ Answer(w, event)
  /\ UNCHANGED <<scenario, raced>>

Symlink(w) ==
  /\ work[w] # None /\ stage[w] = "symlink"
  /\ \E event \in {ProcessAttr(work[w])} :
       LET fails == scenario.dir = "missing" \/ event.drv \in links
       IN  /\ links' = IF fails THEN links ELSE links \union {event.drv}
           /\ Answer(w, [event EXCEPT !.gcRootError = IF fails THEN "symlink" ELSE None])
  /\ UNCHANGED <<scenario, raced>>

ANext ==
  \E w \in Workers :
    \/ \E path \in todo : Take(w, path)
    \/ Evaluate(w) \/ Exists(w) \/ Symlink(w)

ASpec == AInit /\ [][ANext]_avars

-----------------------------------------------------------------------------
AttrTypeOK ==
  /\ scenario \in Scenarios
  /\ todo \subseteq Paths
  /\ work \in [Workers -> Paths \union {None}]
  /\ stage \in [Workers -> {"evaluate", "exists", "symlink"}]
  /\ links \subseteq Drvs /\ raced \subseteq Drvs
  /\ DOMAIN events \subseteq Paths
  /\ \A p \in DOMAIN events : events[p].kind \in {"AttrSet", "Derivation", "Error"}

(* The value a path means, with every function on the way called.          *)
Meant(path) == Walk(Called(Root), path)[Len(path)]

(* A name that an attribute set lists is found: the answer to its path is  *)
(* an error only if the value itself is one (collect_recurse lists what    *)
(* navigate has to find again from the root).                              *)
ListedAreFound ==
  \A p \in DOMAIN events :
    events[p].kind = "Error" =>
      LET v == Meant(p)
      IN  \/ v = Failed
          \/ Drv(v) = Failed
          \/ Drv(v) # None /\ ~Is(GetAttr(v, "name"), "string")

(* When nothing is left to do, the derivations that have been reported are *)
(* those that can be reached through attribute sets, each of which is the  *)
(* root, asks for it, or is entered because of --force-recurse.            *)
Entered(path) ==
  LET v == Meant(path)
  IN  /\ Is(v, "attrs") /\ Drv(v) = None
      /\ \/ path = << >> \/ scenario.forceRecurse
         \/ Is(GetAttr(v, Marker), "true")

JobsComplete ==
  todo = {} /\ (\A w \in Workers : work[w] = None) =>
    \A p \in Paths :
      LET v == Meant(p)
      IN  p \in {q \in DOMAIN events : events[q].kind = "Derivation"} <=>
            /\ \A k \in 0..(Len(p) - 1) : Entered(SubSeq(p, 1, k))
            /\ Is(v, "attrs") /\ Drv(v) \in Drvs
            /\ Is(GetAttr(v, "name"), "string")

(* What an event says of its metadata: the places of meta that are at most *)
(* Depth deep, behind values that can be read, and nothing beyond a        *)
(* failure (value_to_json; a cycle ends at the limit).                     *)
Item(list, index) ==
  IF \E i \in DOMAIN Items(list) : Index(i) = index
    THEN Forced(Items(list)[CHOOSE i \in DOMAIN Items(list) : Index(i) = index])
    ELSE Failed

Inside(v, step) ==
  CASE Is(v, "attrs") -> GetAttr(v, step)
    [] Is(v, "list")  -> Item(v, step)
    [] OTHER          -> Failed

Descent(meta, place) ==
  LET at[k \in 0..Len(place)] ==
        IF k = 0 THEN meta ELSE Inside(at[k - 1], place[k])
  IN  at

Shown(v, depth) ==
  /\ depth > 0 /\ v # Failed
  /\ Type(v) \notin {"function", "lambda"}
  /\ Is(v, "list") => Listable(v)

Steps ==
  Names \union
  UNION {{Index(i) : i \in DOMAIN Items(v)} : v \in {u \in Values : Type(u) = "list"}}

MetaComplete ==
  \A p \in DOMAIN events :
    events[p].kind = "Derivation" /\ scenario.meta =>
      LET meta == GetAttr(Meant(p), "meta")
      IN  {j[1] : j \in IF events[p].meta = None THEN {} ELSE events[p].meta} =
            {place \in UNION {[1..n -> Steps] : n \in 0..Depth} :
               LET n  == Len(place)
                   at == Descent(meta, place)
               IN  /\ \A k \in 0..(n - 1) : Shown(at[k], Depth - k)
                   /\ \/ Shown(at[n], Depth - n)
                      \/ n > 0 /\ Is(at[n - 1], "list") /\ at[n] # Failed}

(* The line that is printed for an event is read back as that event, also  *)
(* when most of it is missing (event_value, parse_event_value).            *)
LineReadBack ==
  \A p \in DOMAIN events : ParseEventValue(EventValue(p, events[p])) = events[p]

(* A derivation that is reported without an error has its link; with an    *)
(* error only if the directory is not there or two workers came to the     *)
(* same derivation at the same time (register_gc_root).                    *)
LinkOrError ==
  \A p \in DOMAIN events :
    events[p].kind = "Derivation" /\ scenario.dir # None =>
      IF events[p].gcRootError # None
        THEN scenario.dir = "missing" \/ events[p].drv \in raced
        ELSE events[p].drv \in links

(* What one might expect, and the code does not keep: an error means that  *)
(* there is no link. The loser of a race finds the winner's.               *)
ErrorMeansUnlinked ==
  \A p \in DOMAIN events :
    events[p].kind = "Derivation" /\ events[p].gcRootError # None =>
      events[p].drv \notin links
=============================================================================
