----------------------------- MODULE MCStartup -----------------------------
EXTENDS Startup

CONSTANTS d1, d2, d3, eval, query, guest

MCKind(c) == IF c = query THEN "query" ELSE "eval"

Every == {"fork", "setsid", "refork", "pid", "directory", "metadata",
          "probe", "remove", "bind", "listen"}

Meeting(starts, foreground, commands, leftovers, faults, kills) ==
  {[starts |-> starts, foreground |-> foreground, commands |-> commands,
    leftover |-> l, faults |-> faults, kills |-> kills] : l \in leftovers}

(* Anything may happen to one start that meets another; two that are       *)
(* killed; and three that only race.                                       *)
MCScenarios == UNION {
  Meeting({d1, d2}, {d2}, {query}, {"file", "stale"}, Every, {"parent", "daemon"}),
  Meeting({d1, d2}, {}, {eval}, {"nothing", "stale"}, {}, {"parent", "daemon"}),
  Meeting({d1, d2, d3}, {d1, d2, d3}, {guest}, {"stale"}, {}, {"daemon"}),
  Meeting({d1, guest}, {guest}, {query}, {"nothing"}, {}, {})}

Race == Meeting({d1, d2}, {}, {}, {"stale"}, {}, {})
=============================================================================
