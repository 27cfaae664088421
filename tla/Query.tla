------------------------------- MODULE Query -------------------------------
(***************************************************************************)
(* A query from the command line to the answer for one derivation:         *)
(* Arguments makes a plan of the words, filter (args.rs) makes a Filter of *)
(* the plan, and matches_filter, which is the module Filter, decides. The  *)
(* library's callers come with a Filter of their own. What lies between    *)
(* the two, the daemon and its sessions, is in the module Daemon.          *)
(***************************************************************************)
EXTENDS Arguments, Filter

CONSTANT Anything  \* the filter without a populated field

ASSUME QueryAssumption ==
  /\ Anything = [f \in Fields |-> None]
  /\ None \notin CommandLines \union Seq(Seq(Pieces))

qvars == <<argvars, fvars, vars>>

FilterOf_Empty(systems, prefixes) ==
  [Anything EXCEPT
     !.systems     = systems,
     !.attr_prefix = X!FlattenSeq([n \in DOMAIN prefixes |-> Parts(prefixes[n], Dot)])]

(* filter: all prefixes together become one, name after name.              *)
FilterOf(systems, prefixes) ==
  [Anything EXCEPT
     !.systems     = IF systems = << >> THEN None ELSE systems,
     !.attr_prefix = IF prefixes = << >> THEN None
                     ELSE X!FlattenSeq([n \in DOMAIN prefixes |-> Parts(prefixes[n], Dot)])]

FromLibrary ==
  /\ phase = "asked"
  /\ meant = None /\ args = << >> /\ index = 1 /\ normalized = << >> /\ plan = Absent

QInit ==
  /\ FInit
  /\ \/ filter = Anything /\ ArgInit
     \/ FromLibrary

Ask ==
  /\ phase = "planned" /\ plan.command = "query"
  /\ phase' = "asked"
  /\ question' = [question EXCEPT !.filter = FilterOf(plan.systems, plan.prefixes)]
  /\ UNCHANGED <<meant, args, index, normalized, plan, stage, at, found, answer, vars>>

QNext ==
  \/ ArgNext /\ UNCHANGED <<fvars, vars>>
  \/ Ask
  \/ phase = "asked" /\ FNext /\ UNCHANGED argvars

QSpec == QInit /\ [][QNext]_qvars

-----------------------------------------------------------------------------
(* `evix query` prints the derivations of one of the systems that are      *)
(* named, if any is, whose path begins with the names of the prefixes, if  *)
(* any is given; empty names do not count. (args.rs and matches_filter.)   *)
QueryIsMeant ==
  stage = "return" /\ meant # None =>
    LET Names(word) == Parts(word, Dot)
        prefix == X!FlattenSeq([n \in DOMAIN Said("--attr-prefix") |->
                                Names(Said("--attr-prefix")[n][1])])
    IN  answer <=>
          /\ Said("--system") # << >> => <<drv.system>> \in X!Range(Said("--system"))
          /\ X!IsPrefix(prefix, drv.attr_path)
=============================================================================
