---------------------------- MODULE MCCoordinator ----------------------------
(***************************************************************************)
(* Small graphs, pools and sets of faults for Coordinator.                 *)
(***************************************************************************)
EXTENDS Coordinator, WorkerPool, TLC

AttrSet(names) == [kind |-> "AttrSet", attrs |-> names]
Derivation(s)  == [kind |-> "Derivation", system |-> s]
EvalFault(b)   == [kind |-> "Error", fatal |-> b]

TheNames   == {"a", "b"}
TheSystems == {"x86", "arm"}

(* A nested set, one derivation for each system.                           *)
NestedAnswer ==
  << >>        :> AttrSet(<<"a", "b">>) @@
  <<"a">>      :> AttrSet(<<"b">>) @@
  <<"b">>      :> Derivation("arm") @@
  <<"a", "b">> :> Derivation("x86")

(* A derivation that has to be routed beside an error.                     *)
FlatAnswer ==
  << >>   :> AttrSet(<<"a", "b">>) @@
  <<"a">> :> Derivation("arm") @@
  <<"b">> :> EvalFault(FALSE)

NestedTree == DOMAIN NestedAnswer
FlatTree   == DOMAIN FlatAnswer

(* A local worker and a remote entry for each list of systems; or none.    *)
Entries(lists) ==
  [k \in 1..Len(lists) |-> [workers |-> 1, systems |-> lists[k]]]
WithLocal(lists)   == [workers |-> 1, remotes |-> Entries(lists)]
RemoteOnly(lists)  == [workers |-> 0, remotes |-> Entries(lists)]

(* The workers take turns, so that worker 1 of two, or worker 2 of three,  *)
(* is the first to be handed the arm derivation: it does not own it. In    *)
(* Crossed no remote does, and both may refuse it before the local worker, *)
(* which has to keep it.                                                   *)
Crossed == WithLocal(<<{"x86"}, {"x86"}>>)
OnlyX86 == WithLocal(<<{"x86"}>>)
Split   == RemoteOnly(<<{"x86"}, {"arm"}>>)

CrossedSize    == PoolSize(Crossed)
CrossedKinds   == KindsOf(Crossed)
CrossedSystems == SystemsOf(Crossed)
OnlyX86Size    == PoolSize(OnlyX86)
OnlyX86Kinds   == KindsOf(OnlyX86)
OnlyX86Systems == SystemsOf(OnlyX86)
SplitSize      == PoolSize(Split)
SplitKinds     == KindsOf(Split)
SplitSystems   == SystemsOf(Split)

AllFaults    == {"connect", "work", "sink", "cancel", "drop"}
ConnectFault == {"connect"}
CancelFault  == {"cancel"}
=============================================================================
