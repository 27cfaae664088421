--------------------------- MODULE MCAttributes ---------------------------
(***************************************************************************)
(* A small Nix graph for Attributes.                                       *)
(***************************************************************************)
EXTENDS Attributes

CONSTANTS w1, w2, null

Value(type, attr, items, drv) ==
  [type |-> type, attr |-> attr, items |-> items, drv |-> drv,
   result |-> None, lacks |-> FALSE, text |-> None]

Plain(type)    == Value(type, << >>, << >>, None)
Set(attr)      == Value("attrs", attr, << >>, None)
List(items)    == Value("list", << >>, items, None)
Derivation(drv, attr) == Value("attrs", attr, << >>, drv)
String(text)   == [Plain("string") EXCEPT !.text = text]
Function(result, lacks) ==
  [Plain("function") EXCEPT !.result = result, !.lacks = lacks]

Graph ==
  [ top     |-> Set([a |-> "inner", b |-> "job", c |-> "broken"]),
    flat    |-> Set([a |-> "job", b |-> "twin", c |-> "nameless", d |-> "other"]),
    inner   |-> Function("nested", FALSE),
    nested  |-> Set(("recurseForDerivations" :> "yes") @@ [a |-> "twin", b |-> "quiet", c |-> "wants"]),
    quiet   |-> Set(("recurseForDerivations" :> "no") @@ [a |-> "job"]),
    wants   |-> Function("job", TRUE),
    broken  |-> Plain("throws"),
    yes     |-> Plain("true"),
    no      |-> Plain("false"),
    name    |-> String("name"),
    out     |-> String("out"),
    path    |-> String("path"),
    lambda  |-> Plain("lambda"),
    job     |-> Derivation("x", [name |-> "name", outputs |-> "outs", out |-> "self",
                          meta |-> "meta", constituents |-> "mixed"]),
    twin    |-> Derivation("x", [name |-> "name", system |-> "path", outputs |-> "outs"]),
    other   |-> Derivation("y", [name |-> "name", meta |-> "lambda"]),
    nameless |-> Derivation("y", [system |-> "path"]),
    self    |-> Set([outPath |-> "path"]),
    outs    |-> List(<<"out", "name">>),
    mixed   |-> List(<<"yes", "name">>),
    bad     |-> List(<<"broken", "name">>),
    items   |-> List(<<"lambda", "path">>),
    meta    |-> Set([a |-> "meta", b |-> "broken", c |-> "items", name |-> "bad"]),
    call    |-> Function("top", FALSE),
    curried |-> Function("call", FALSE) ]

MCValues    == DOMAIN Graph
MCType(v)   == Graph[v].type
MCAttr(v)   == Graph[v].attr
MCItems(v)  == Graph[v].items
MCResult(v) == Graph[v].result
MCLacks(v)  == Graph[v].lacks
MCText(v)   == Graph[v].text
MCDrv(v)    == Graph[v].drv

MCInputDrvs(drv) ==
  IF drv = "x" THEN {<<"y", {"out"}>>, <<"z", Failed>>} ELSE Failed

Eval(input, root, force, meta, dir) ==
  [input |-> input, root |-> root, forceRecurse |-> force, meta |-> meta,
   inputDrvs |-> meta, dir |-> dir]

MCScenarios ==
  {Eval("expr", "call", f, m, d) : f, m \in BOOLEAN, d \in {None, "there"}}
  \union {Eval("flake", "flat", FALSE, FALSE, d) : d \in {"missing", "there"}}

Alike == Permutations(Workers)

(* What Attributes does not keep shows in one or the other of these.       *)
Gaps ==
  {Eval("file", "curried", FALSE, FALSE, None), Eval("expr", "call", FALSE, FALSE, "there")}
=============================================================================
