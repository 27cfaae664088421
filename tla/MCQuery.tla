------------------------------ MODULE MCQuery ------------------------------
(* Questions for Query. First every pattern of up to three characters for *)
(* every path of one name of up to three, over two letters and the two     *)
(* wildcards (a name may contain a star too). Then every filter with at    *)
(* most two populated fields, each in up to three ways.                    *)
EXTENDS Query

CONSTANTS a, b, x86, arm, none, two

UpTo(n, S) == UNION {[1..m -> S] : m \in 0..n}

ThePatterns == UpTo(3, {a, b, Star, Any})

TheValues == UpTo(3, {a, b}) \cup UpTo(2, {a, Star})

Drv(system, path) ==
  [system |-> system, attr |-> Rendered(path), attr_path |-> path, name |-> "job", drv_path |-> "job.drv"]

Only(field, x) == [Anything EXCEPT ![field] = x]

PatternQuestions ==
  {[drv |-> Drv(<<x86>>, <<v>>), filter |-> Only("include_patterns", <<p>>)] :
     v \in TheValues, p \in ThePatterns}

Drvs == {Drv(<<x86>>, <<<<a>>, <<b>>>>), Drv(<<arm>>, <<<<a>>>>)}

(* How a field may be populated.                                           *)
Ways(field) ==
  CASE field = "systems"          -> {<< >>, <<<<x86>>>>, <<<<x86>>, <<arm>>>>}
    [] field = "attr_prefix"      -> {<< >>, <<<<a>>>>, <<<<a>>, <<b>>>>}
    [] field = "attr_prefixes"    -> {<< >>, <<<<<<b>>>>, <<<<a>>>>>>, <<<<<<a>>, <<a>>>>>>}
    [] field = "attrs"            -> {<< >>, <<<<<<a>>>>>>}
    [] field = "names"            -> {<<"job">>, <<"other">>}
    [] field = "drv_paths"        -> {<<"job.drv">>, <<"other.drv">>}
    [] field = "include_patterns" -> {<< >>, <<<<b>>, <<a, Star>>>>, <<<<a, Any, b>>>>}
    [] field = "exclude_patterns" -> {<< >>, <<<<a>>, <<b>>>>, <<<<b>>, <<Star, b>>>>}

Filters ==
  {Anything} \cup
  UNION {{[Anything EXCEPT ![f] = x, ![g] = y] : x \in Ways(f), y \in Ways(g)} :
           f, g \in Fields}

FieldQuestions == [drv : Drvs, filter : Filters]

MCQuestions == PatternQuestions \cup FieldQuestions

MCAnything == [f \in Fields |-> None]

(* Words, and how the settings of a command line may be written.           *)
MCNumber(word) ==
  CASE word = <<none>> -> 0 [] word = <<two>> -> 2 [] OTHER -> Invalid

Setting(flag, values) ==
  {[flag |-> flag, values |-> values, joined |-> x] : x \in {values # << >>, FALSE}}

MCPieces ==
  Subcommands \cup Flags \cup
  {a, b, x86, arm, none, two, Equals, Separator, Comma, Dot}

Words == {<<a>>, << >>, <<a, Equals>>, <<"--arg">>, <<"--remote", Equals, a>>, <<Separator>>}

Input(flag) == {[flag |-> flag, values |-> <<<<a>>>>, joined |-> TRUE]}

PairSettings ==
  UNION {Setting(flag, <<v, w>>) : flag \in {"--arg", "--option"}, v \in Words, w \in Words}

RemoteSettings ==
  UNION {Setting("--remote", <<v, s, w>>) : v \in {<<a>>, <<"--meta">>},
           s \in {<< >>, <<x86, Comma, arm>>, <<Comma, x86>>},
           w \in {<<none>>, <<two>>, <<a>>}}

Cut == UNION {Setting("--argstr", <<<<a>>>>), Setting("--remote", <<<<a>>, <<b>>>>),
              Setting("--override-input", << >>)}

Others ==
  UNION {Setting("--argstr", <<<<b>>, <<a>>>>), Setting("--override-input", <<<<b>>, <<a>>>>),
         Setting("--meta", << >>), Setting("--no-daemon", << >>),
         Setting("--workers", <<<<two>>>>), Setting("--file", <<<<b>>>>),
         Setting("--max-memory", <<<<two>>>>), Setting("--gc-roots-dir", <<<<b>>>>),
         Setting("--socket", <<<<b>>>>), Setting("--force-recurse", << >>)}

Line(commands, inputs, more, last) ==
  {[command |-> c, settings |-> <<i1, m, l>>] : c \in commands, i1 \in inputs, m \in more, l \in last}

QuerySettings ==
  UNION {Setting("--system", <<<<x>>>>) : x \in {x86, arm}} \cup
  UNION {Setting("--attr-prefix", <<p>>) :
           p \in {<< >>, <<a>>, <<b>>, <<a, Dot, b>>, <<Dot, a, Dot>>}}

MCCommandLines == {line \in UNION {
  Line({"eval", "query"}, Input("--expr"), PairSettings, Others),
  Line({"eval", "query"}, Input("--file"), RemoteSettings, Setting("--arg", <<<<a>>, <<b>>>>)),
  Line({"watch", "diff"}, Input("--expr") \cup Input("--flake"), Others, Cut \cup Others),
  Line({"query"}, Input("--flake"), QuerySettings, QuerySettings),
  Line({"daemon"}, Setting("--socket", <<<<a>>>>), Setting("--foreground", << >>), Others),
  [command : {"daemon", "worker", "eval", "query"},
   settings : {<< >>} \cup {<<s>> : s \in Setting("--listen", <<<<a>>>>)
                                       \cup Setting("--foreground", << >>) \cup Input("--file")}]} :
  Regular(line.settings)}
=============================================================================
