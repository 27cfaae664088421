----------------------------- MODULE WorkerPool -----------------------------
(***************************************************************************)
(* The pool that a configuration asks for (async_master.rs, worker_specs   *)
(* and validate_config): local workers first, then each remote entry as    *)
(* often as it has workers. A worker's id is its position.                 *)
(*                                                                         *)
(* A configuration is a record [workers, remotes]; an entry of remotes is  *)
(* a record [workers, systems]. Labels and endpoints are dropped.          *)
(***************************************************************************)
EXTENDS Integers, Sequences
LOCAL INSTANCE SequencesExt

(* validate_config refuses any other.                                      *)
Valid(config) ==
  \A k \in 1..Len(config.remotes) : config.remotes[k].workers > 0

LocalSpec == [kind |-> "local", systems |-> {}]
RemoteSpecs(remote) ==
  [i \in 1..remote.workers |-> [kind |-> "remote", systems |-> remote.systems]]

WorkerSpecs(config) ==
  LET remotes == FlattenSeq([k \in 1..Len(config.remotes) |->
                               RemoteSpecs(config.remotes[k])])
      locals  == IF config.workers = 0 /\ remotes = << >> THEN 1
                                                           ELSE config.workers
  IN  [i \in 1..locals |-> LocalSpec] \o remotes

(* The constants of Evaluation that a configuration stands for.            *)
PoolSize(config)  == Len(WorkerSpecs(config))
KindsOf(config)   == [w \in 0 .. PoolSize(config) - 1 |->
                        WorkerSpecs(config)[w + 1].kind]
SystemsOf(config) == [w \in 0 .. PoolSize(config) - 1 |->
                        WorkerSpecs(config)[w + 1].systems]
=============================================================================
