----------------------------- MODULE MCScheduler -----------------------------
(***************************************************************************)
(* Small graphs and pools for Scheduler.                                   *)
(***************************************************************************)
EXTENDS Scheduler, WorkerPool, TLC

AttrSet(names) == [kind |-> "AttrSet", attrs |-> names]
Derivation(s)  == [kind |-> "Derivation", system |-> s]
EvalFault(b)   == [kind |-> "Error", fatal |-> b]

(* A set with a set in it, a derivation for each system and an error.      *)
MixedAnswer ==
  << >>             :> AttrSet(<<"a", "b", "c">>) @@
  <<"a">>           :> AttrSet(<<"a", "b">>) @@
  <<"b">>           :> Derivation("x86") @@
  <<"c">>           :> EvalFault(FALSE) @@
  <<"a", "a">>      :> Derivation("arm") @@
  <<"a", "b">>      :> AttrSet(<< >>)

(* The same graph, but the error is fatal.                                 *)
FatalAnswer == [MixedAnswer EXCEPT ![<<"c">>] = EvalFault(TRUE)]

MixedTree == DOMAIN MixedAnswer

TheNames   == {"a", "b", "c"}
TheSystems == {"x86", "arm", "riscv"}

(* Only worker 2 keeps arm derivations, or nobody does; worker 0 keeps    *)
(* nothing in the graph but attribute sets and errors.                     *)
Remotes(a, b, c) == [workers |-> 0,
                     remotes |-> <<[workers |-> 1, systems |-> a],
                                   [workers |-> 1, systems |-> b],
                                   [workers |-> 1, systems |-> c]>>]
Routed  == Remotes({"riscv"}, {"x86"}, {"arm"})
Unowned == Remotes({"riscv"}, {"x86"}, {"x86"})

RoutedSize     == PoolSize(Routed)
RoutedKinds    == KindsOf(Routed)
RoutedSystems  == SystemsOf(Routed)
UnownedSize    == PoolSize(Unowned)
UnownedKinds   == KindsOf(Unowned)
UnownedSystems == SystemsOf(Unowned)

-----------------------------------------------------------------------------
(* What Evaluation assumes of a pool, for each configuration with up to    *)
(* two local workers and two remote entries: there is a worker; a local    *)
(* one only if it is asked for or there is no other; as many for an entry  *)
(* as it says, one entry after the other.                                  *)
SmallConfigs ==
  [workers : 0..2,
   remotes : UNION {[1..k -> [workers : 1..2, systems : SUBSET {"x86", "arm"}]]
                      : k \in 0..2}]

ASSUME PoolIsSound ==
  \A config \in SmallConfigs :
    LET size   == PoolSize(config)
        kinds  == KindsOf(config)
        lists  == SystemsOf(config)
        Owns(w, k) ==
          /\ kinds[w] = "remote"
          /\ lists[w] = config.remotes[k].systems
        local  == {w \in 0..size-1 : kinds[w] = "local"}
        first  == Cardinality(local)
    IN  /\ Valid(config)
        /\ size > 0
        /\ local = 0..first-1
        /\ first = IF config.remotes = << >> /\ config.workers = 0
                     THEN 1 ELSE config.workers
        /\ size = first + (IF Len(config.remotes) >= 1
                             THEN config.remotes[1].workers ELSE 0)
                        + (IF Len(config.remotes) = 2
                             THEN config.remotes[2].workers ELSE 0)
        /\ \A w \in first..size-1 :
             IF w < first + config.remotes[1].workers THEN Owns(w, 1)
                                                      ELSE Owns(w, 2)
=============================================================================
