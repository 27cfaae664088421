---------------------------- MODULE WorkerProcess ----------------------------
(***************************************************************************)
(* An evaluator subprocess (worker.rs), its two pipes, and the methods of  *)
(* the WorkerProcess struct that owns one (worker_process.rs). Whoever     *)
(* owns the struct is in LocalWorker or RemoteWorker: it starts a method   *)
(* by setting call.at, and goes on when call.at is "ok" or "err".          *)
(*                                                                         *)
(* Each write of a message ends in a flush, so a message is in the pipe    *)
(* whole or not at all. Dropping the struct closes the owner's end of the  *)
(* pipes and leaves the process alone.                                     *)
(*                                                                         *)
(* An operator named X_Y is X with a mistake in it, kept to show that the  *)
(* properties notice.                                                      *)
(*                                                                         *)
(* Faults is the set of things that may happen:                            *)
(*   "spawn"       a process cannot be started                             *)
(*   "init"        it fails before it says Ready                           *)
(*   "crash"       it dies at any point                                    *)
(*   "unreadable"  the reader rejects its Event (over the reader's limits) *)
(*   "vanish"      the owner of the struct dies                            *)
(*   "connect", "lost"  see RemoteWorker                                   *)
(***************************************************************************)
EXTENDS Integers, Sequences, FiniteSets

CONSTANTS
  Path,       \* attribute paths
  MaxWork,    \* bound: calls of work
  MaxSpawns,  \* bound: processes started
  Faults

ASSUME WorkerAssumption ==
  /\ MaxWork \in Nat
  /\ MaxSpawns \in Nat \ {0}
  /\ Faults \subseteq
       {"spawn", "init", "crash", "unreadable", "vanish", "connect", "lost"}

VARIABLES
  pc,      \* pc[k]: where the k-th process is; "none" before it is spawned,
           \* "exited" after
  task,    \* task[k]: the path it evaluates
  in, out, \* in[k] and out[k]: what is in its stdin and stdout pipes
  handle,  \* the WorkerProcess: its process, or NoPid when there is none
  spent,   \* its stderr_task has been awaited to its end
  method,  \* the method that runs: where it is,
  arg,     \* the path it was called with,
  child,   \* the process it is spawning, and
  result, status   \* the event and the status it will return

processVars == <<pc, task, in, out>>
handleVars  == <<handle, spent>>
callVars    == <<method, arg, child, result, status>>
workerVars  == <<processVars, handleVars, callVars>>

Pid == 1..MaxSpawns

NoPid == 0

NoPath == "no path"

Fault(f) == f \in Faults

Msg(type, path) == [type |-> type, path |-> path]

Setup == Msg("setup", NoPath)
Shutdown == Msg("shutdown", NoPath)
Work(p) == Msg("work", p)
Ready == Msg("ready", NoPath)
Event(p) == Msg("event", p)
Unreadable == Msg("unreadable", NoPath)
Status(how) == Msg(how, NoPath)   \* how: "statusReady" or "statusRestart"

ProcessInit ==
  /\ pc = [k \in Pid |-> "none"]
  /\ task = [k \in Pid |-> NoPath]
  /\ in = [k \in Pid |-> << >>] /\ out = [k \in Pid |-> << >>]
  /\ handle = NoPid /\ spent = FALSE
  /\ arg = NoPath /\ child = NoPid /\ result = NoPath /\ status = "none"

-----------------------------------------------------------------------------
(* The process: worker::run.                                               *)

(* Somebody can still use the owner's end of k's pipes.                    *)
Owned(k) == handle = k \/ child = k

Exited(k) == pc[k] = "exited"

Alive(k) == pc[k] \notin {"none", "exited"}

Become(k, place) == pc' = [pc EXCEPT ![k] = place]

Exit(k) == Become(k, "exited") /\ UNCHANGED <<task, in, out>>

(* write_server, which fails when nobody can read: run returns the error.  *)
Write(k, message, then) ==
  IF Owned(k)
    THEN /\ out' = [out EXCEPT ![k] = Append(@, message)]
         /\ Become(k, then)
         /\ UNCHANGED <<task, in>>
    ELSE Exit(k)

(* The owner's end of the pipe is closed and nothing is left in it.        *)
InputEnds(k) == in[k] = << >> /\ ~Owned(k)

(* Setup is expected first, then work.                                     *)
Understood(k, m) ==
  CASE pc[k] = "setup" /\ m = Setup        -> "init"
    [] pc[k] = "read" /\ m.type = "work" -> "eval"
    [] OTHER -> "exited"

(* The process waits for a message; at the end of input read_client fails  *)
(* and so does run.                                                        *)
ProcReads(k) ==
  /\ pc[k] \in {"setup", "read"}
  /\ \/ /\ in[k] # << >>
        /\ in' = [in EXCEPT ![k] = Tail(@)]
        /\ task' = [task EXCEPT ![k] = Head(in[k]).path]
        /\ Become(k, Understood(k, Head(in[k])))
        /\ UNCHANGED out
     \/ InputEnds(k) /\ Exit(k)
  /\ UNCHANGED <<handleVars, callVars>>

(* Settings, store, evaluation state and root, then Ready.                 *)
ProcInit(k) ==
  /\ pc[k] = "init"
  /\ \/ Write(k, Ready, "read")
     \/ Fault("init") /\ Exit(k)
  /\ UNCHANGED <<handleVars, callVars>>

(* process_attr always gives an event.                                     *)
ProcEvaluates(k) ==
  /\ pc[k] = "eval"
  /\ \/ Write(k, Event(task[k]), "memory")
     \/ Fault("unreadable") /\ Write(k, Unreadable, "memory")
  /\ UNCHANGED <<handleVars, callVars>>

AfterRestart_Stays == "read"

(* After Status(Restart) run returns.                                      *)
AfterRestart == "leaving"

(* should_restart. While the bound allows another process.                 *)
ProcReports(k) ==
  /\ pc[k] = "memory"
  /\ \/ Write(k, Status("statusReady"), "read")
     \/ k < MaxSpawns /\ Write(k, Status("statusRestart"), AfterRestart)
  /\ UNCHANGED <<handleVars, callVars>>

ProcLeaves(k) ==
  /\ pc[k] = "leaving"
  /\ Exit(k)
  /\ UNCHANGED <<handleVars, callVars>>

Crash(k) ==
  /\ Fault("crash")
  /\ Alive(k)
  /\ Exit(k)
  /\ UNCHANGED <<handleVars, callVars>>

Process(k) ==
  \/ ProcReads(k) \/ ProcInit(k) \/ ProcEvaluates(k)
  \/ ProcReports(k) \/ ProcLeaves(k)

-----------------------------------------------------------------------------
(* The methods.                                                            *)

Running(at) == method = at

CallAt(at) == method' = at /\ UNCHANGED <<arg, child, result, status>>

Call(at, path) ==
  /\ method' = at /\ arg' = path
  /\ child' = NoPid /\ result' = NoPath /\ status' = "none"

EndCall == Call("none", NoPath)

(* write_client into the pipe of k: an error once the process has exited.  *)
Written(k, message) ==
  /\ in' = IF Exited(k) THEN in ELSE [in EXCEPT ![k] = Append(@, message)]
  /\ UNCHANGED <<pc, task, out>>

(* spawn_local, as far as command.spawn().                                 *)
SpawnChild ==
  /\ Running("spawn")
  /\ \/ \E k \in Pid :
          /\ pc[k] = "none"
          /\ \A i \in 1..(k - 1) : pc[i] # "none"
          /\ Become(k, "setup")
          /\ child' = k
          /\ method' = "setup"
          /\ UNCHANGED <<task, in, out, arg, result, status>>
     \/ Fault("spawn") /\ CallAt("err") /\ UNCHANGED processVars
  /\ UNCHANGED handleVars

(* Whatever fails, what spawn_local has of the new process is dropped.     *)
SpawnFails == method' = "err" /\ child' = NoPid /\ UNCHANGED <<arg, result, status>>

WriteSetup ==
  /\ Running("setup")
  /\ Written(child, Setup)
  /\ IF Exited(child) THEN SpawnFails ELSE CallAt("handshake")
  /\ UNCHANGED handleVars

(* What there is to read from k: a message, or the end of its output.      *)
Message(k) == Head(out[k])

Reads(k) ==
  /\ out[k] # << >>
  /\ out' = [out EXCEPT ![k] = Tail(@)]
  /\ UNCHANGED <<pc, task, in>>

AtEnd(k) == out[k] = << >> /\ Exited(k) /\ UNCHANGED processVars

(* read_ready. At the end of output exit_error finds the process gone.     *)
ReadReady ==
  /\ Running("handshake")
  /\ \/ /\ Reads(child) /\ Message(child) = Ready
        /\ handle' = child /\ spent' = FALSE
        /\ method' = "ok" /\ child' = NoPid
        /\ UNCHANGED <<arg, result, status>>
     \/ AtEnd(child) /\ SpawnFails /\ UNCHANGED handleVars

(* work, up to its first read.                                             *)
WriteWork ==
  /\ Running("write")
  /\ Written(handle, Work(arg))
  /\ CallAt(IF Exited(handle) THEN "err" ELSE "event")
  /\ UNCHANGED handleVars

(* work reads the status next.                                             *)
AfterEvent == "status"

(* read_event and read_status. A read error leads to exit_error, a message *)
(* of another kind is an error at once.                                    *)
ReadEvent ==
  /\ Running("event")
  /\ \/ /\ Reads(handle)
        /\ \/ Message(handle) = Unreadable /\ CallAt("exit")
           \/ /\ Message(handle).type = "event"
              /\ method' = AfterEvent /\ result' = Message(handle).path
              /\ UNCHANGED <<arg, child, status>>
           \/ /\ Message(handle).type \notin {"event", "unreadable"}
              /\ CallAt("err")
     \/ AtEnd(handle) /\ CallAt("exit")
  /\ UNCHANGED handleVars

ReadStatus ==
  /\ Running("status")
  /\ \/ /\ Reads(handle)
        /\ IF Message(handle).type \in {"statusReady", "statusRestart"}
             THEN /\ method' = "ok" /\ status' = Message(handle).type
                  /\ UNCHANGED <<arg, child, result>>
             ELSE CallAt("err")
     \/ AtEnd(handle) /\ CallAt("exit")
  /\ UNCHANGED handleVars

(* exit_error: the process is waited for, then what it wrote to stderr.    *)
ExitError ==
  /\ Running("exit")
  /\ Exited(handle)
  /\ spent' = TRUE
  /\ CallAt("err")
  /\ UNCHANGED <<processVars, handle>>

RestartReady_Early == TRUE

(* proc.wait() has returned.                                               *)
RestartReady == Exited(handle)

(* wait_for_restart; both owners call spawn_local next.                    *)
WaitForRestart ==
  /\ Running("restart")
  /\ RestartReady
  /\ spent' = TRUE
  /\ CallAt("spawn")
  /\ UNCHANGED <<processVars, handle>>

(* The error of this write is ignored.                                     *)
StopMessage(k) == Written(k, Shutdown)

WriteShutdown ==
  /\ Running("stop")
  /\ StopMessage(handle)
  /\ CallAt("stopwait")
  /\ UNCHANGED handleVars

(* The rest of stop. To await stderr_task once more is a panic.            *)
WaitForExit ==
  /\ Running("stopwait")
  /\ Exited(handle)
  /\ CallAt(IF spent THEN "panicked" ELSE "ok")
  /\ spent' = TRUE
  /\ UNCHANGED <<processVars, handle>>

Method ==
  \/ SpawnChild \/ WriteSetup \/ ReadReady
  \/ WriteWork \/ ReadEvent \/ ReadStatus \/ ExitError
  \/ WaitForRestart \/ WriteShutdown \/ WaitForExit

(* The struct, or what spawn_local has of it, is dropped.                  *)
DropWorker == handle' = NoPid /\ spent' = FALSE /\ EndCall

-----------------------------------------------------------------------------
(* Properties of either owner's worker.                                    *)

Places == {"none", "setup", "init", "read", "eval", "memory", "leaving", "exited"}

Methods ==
  {"none", "spawn", "setup", "handshake", "write", "event", "status", "exit",
   "restart", "stop", "stopwait", "ok", "err", "panicked"}

Messages ==
  {Msg(type, p) : type \in {"setup", "shutdown", "work", "ready", "event",
                            "unreadable", "statusReady", "statusRestart"},
                  p \in Path \cup {NoPath}}

ProcessTypeOK ==
  /\ pc \in [Pid -> Places]
  /\ task \in [Pid -> Path \cup {NoPath}]
  /\ in \in [Pid -> Seq(Messages)] /\ out \in [Pid -> Seq(Messages)]
  /\ handle \in Pid \cup {NoPid} /\ spent \in BOOLEAN
  /\ method \in Methods
  /\ arg \in Path \cup {NoPath} /\ child \in Pid \cup {NoPid}
  /\ result \in Path \cup {NoPath}

(* One worker of the pool is one evaluator: the process that reached its   *)
(* memory limit is gone before the next one takes memory.                  *)
OneProcess ==
  Cardinality({k \in Pid : Alive(k)}) <= 1
=============================================================================
