---------------------------- MODULE WorkerService ----------------------------
(***************************************************************************)
(* What a worker task of the evaluation master expects of its WorkerClient *)
(* (async_master.rs): a connection is made or not; each call of work is    *)
(* answered by the event for the path it was asked about, or fails; after  *)
(* a failure no work is asked for; and stop ends it. LocalWorker and       *)
(* RemoteWorker both implement it, which is what makes them                *)
(* interchangeable in the pool.                                            *)
(***************************************************************************)
EXTENDS Integers, Sequences

CONSTANTS
  Path,     \* attribute paths
  MaxWork   \* bound: calls of work

VARIABLES
  phase,    \* "connecting", "idle", "busy", "broken" or "gone"
  asked,    \* the paths work was called with, in order
  answers   \* what the calls returned: the path the event is for, or Failed

serviceVars == <<phase, asked, answers>>

Failed == "failed"

ServiceInit == phase = "connecting" /\ asked = << >> /\ answers = << >>

Connect ==
  /\ phase = "connecting"
  /\ phase' = "idle"
  /\ UNCHANGED <<asked, answers>>

Ask(p) ==
  /\ phase = "idle"
  /\ Len(asked) < MaxWork
  /\ phase' = "busy"
  /\ asked' = Append(asked, p)
  /\ UNCHANGED answers

Answer ==
  /\ phase = "busy"
  /\ phase' = "idle"
  /\ answers' = Append(answers, asked[Len(asked)])
  /\ UNCHANGED asked

Fail ==
  /\ phase = "busy"
  /\ phase' = "broken"
  /\ answers' = Append(answers, Failed)
  /\ UNCHANGED asked

(* stop, a connection that cannot be made, or the end of the master.       *)
Leave ==
  /\ phase # "gone"
  /\ phase' = "gone"
  /\ UNCHANGED <<asked, answers>>

ServiceNext == Connect \/ (\E p \in Path : Ask(p)) \/ Answer \/ Fail \/ Leave

ServiceSpec == ServiceInit /\ [][ServiceNext]_serviceVars
=============================================================================
