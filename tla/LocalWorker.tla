----------------------------- MODULE LocalWorker -----------------------------
(***************************************************************************)
(* WorkerClient::Local as worker_task uses it (async_master.rs): it spawns *)
(* a WorkerProcess, passes one path at a time to work, replaces the        *)
(* process when its status asks for it, and stops it at the end.           *)
(***************************************************************************)
EXTENDS WorkerProcess

VARIABLES
  client,   \* "connect", "idle", "work", "respawn", "broken", "stop", "gone"
            \* or "panicked"
  asked,    \* the paths work was called with, in order
  answers   \* what the calls returned: the path the event is for, or Failed

localVars == <<client, asked, answers>>

vars == <<workerVars, localVars>>

Failed == "failed"

LocalInit ==
  /\ ProcessInit
  /\ method = "spawn"
  /\ client = "connect"
  /\ asked = << >>
  /\ answers = << >>

Returned(how) == method = how

(* connect ends the task if it fails.                                      *)
Connected ==
  /\ client = "connect"
  /\ \/ Returned("ok") /\ client' = "idle"
     \/ Returned("err") /\ client' = "gone"
  /\ EndCall
  /\ UNCHANGED <<processVars, handleVars, asked, answers>>

(* worker.work(&item.path), if there is work. A failure ends the run: no   *)
(* more work is sent to this worker.                                       *)
AskLocal(p) ==
  /\ client = "idle"
  /\ Len(asked) < MaxWork
  /\ asked' = Append(asked, p)
  /\ Call("write", p)
  /\ client' = "work"
  /\ UNCHANGED <<processVars, handleVars, answers>>

Reply_Stale == asked[1]

(* The event that work hands on.                                           *)
Reply == result

Restarting == status = "statusRestart"

(* WorkerProcess::work has returned.                                       *)
WorkReturns ==
  /\ client = "work"
  /\ \/ /\ Returned("ok") /\ ~Restarting
        /\ answers' = Append(answers, Reply)
        /\ client' = "idle"
        /\ EndCall
     \/ /\ Returned("ok") /\ Restarting
        /\ client' = "respawn"
        /\ CallAt("restart")
        /\ UNCHANGED answers
     \/ /\ Returned("err")
        /\ answers' = Append(answers, Failed)
        /\ client' = "broken"
        /\ EndCall
  /\ UNCHANGED <<processVars, handleVars, asked>>

(* The new process is ready, and the event of the old one is returned; or  *)
(* it is not, and `?` returns the error instead.                           *)
Respawned ==
  /\ client = "respawn"
  /\ \/ /\ Returned("ok")
        /\ answers' = Append(answers, Reply)
        /\ client' = "idle"
     \/ /\ Returned("err")
        /\ answers' = Append(answers, Failed)
        /\ client' = "broken"
  /\ EndCall
  /\ UNCHANGED <<processVars, handleVars, asked>>

(* Stop, a closed work channel, or cancel.                                 *)
StopLocal ==
  /\ client \in {"idle", "broken"}
  /\ client' = "stop"
  /\ Call("stop", NoPath)
  /\ UNCHANGED <<processVars, handleVars, asked, answers>>

Stopped ==
  /\ client = "stop"
  /\ \/ Returned("ok") /\ client' = "gone"
     \/ Returned("panicked") /\ client' = "panicked"
  /\ DropWorker
  /\ UNCHANGED <<processVars, asked, answers>>

(* The master dies, or its runtime is shut down with the task in it.       *)
VanishLocal ==
  /\ Fault("vanish")
  /\ client \notin {"gone", "panicked"}
  /\ client' = "gone"
  /\ DropWorker
  /\ UNCHANGED <<processVars, asked, answers>>

Client == Connected \/ WorkReturns \/ Respawned \/ Stopped

LocalNext ==
  \/ (Method \/ \E k \in Pid : Process(k) \/ Crash(k)) /\ UNCHANGED localVars
  \/ Client \/ (\E p \in Path : AskLocal(p)) \/ StopLocal \/ VanishLocal

LocalSpec == LocalInit /\ [][LocalNext]_vars

(* Every started process and every method goes on as long as it can, an    *)
(* evaluation ends, and the task is polled. Nobody has to ask or stop.     *)
LocalFairSpec ==
  /\ LocalSpec
  /\ \A k \in Pid : WF_vars(Process(k) /\ UNCHANGED localVars)
  /\ WF_vars(Method /\ UNCHANGED localVars)
  /\ WF_vars(Client)

-----------------------------------------------------------------------------
(* Properties.                                                             *)

Phase ==
  CASE client = "connect" -> "connecting"
    [] client \in {"work", "respawn"} -> "busy"
    [] client \in {"stop", "panicked"} -> "gone"
    [] OTHER -> client

Service == INSTANCE WorkerService WITH phase <- Phase

(* Each answer is for the path that was asked about, also when the process *)
(* was replaced, or died, in between; nothing is answered after a failure. *)
LocalImplementsService == Service!ServiceSpec

(* A call of work returns, whatever happens to the process.                *)
LocalAnswers == client \in {"work", "respawn"} ~> client \notin {"work", "respawn"}

(* The stop of a worker returns, or panics: run can join its task.         *)
LocalStops == client = "stop" ~> client \in {"gone", "panicked"}

(* No process outlives its worker for long: the closed pipe ends it.       *)
NoOrphans ==
  client \in {"gone", "panicked"} ~> \A k \in Pid : ~Alive(k)

(* Every call of a local worker's owner returns, and leaves no process.    *)
LocalEnds == LocalAnswers /\ LocalStops /\ NoOrphans

(* README: each worker evaluates the path it pulls and returns one event.  *)
(* What the process has answered is what work returns, also when the       *)
(* process had to be replaced after it.                                    *)
AnswerDelivered ==
  [][client = "respawn" /\ answers' # answers =>
       answers' = Append(answers, result)]_vars
=============================================================================
