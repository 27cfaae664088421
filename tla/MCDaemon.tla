------------------------------ MODULE MCDaemon ------------------------------
(* Instances of Daemon for TLC. With one configuration every request meets *)
(* every other; with two, one session must not be taken for another.       *)
EXTENDS Daemon

CONSTANTS c1, c2, c3, k1, k2

Asks(kind, key) == [kind |-> kind, key |-> key]

(* Two evals of one configuration, and a query of it.                      *)
SameKey ==
  [c \in Conn |-> Asks(IF c = c3 THEN "query" ELSE "eval", k1)]

(* A watch and a diff of one configuration, a query of another.            *)
TwoKeys ==
  [c \in Conn |-> CASE c = c1 -> Asks("watch", k1)
                    [] c = c2 -> Asks("diff", k1)
                    [] c = c3 -> Asks("query", k2)]

MCSameKey  == {SameKey}
MCRequests == {SameKey, TwoKeys}
=============================================================================
