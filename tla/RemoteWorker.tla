---------------------------- MODULE RemoteWorker ----------------------------
(***************************************************************************)
(* A connection to a remote worker (remote_worker.rs): the RemoteWorker    *)
(* that a worker task of the master holds as WorkerClient::Remote, the     *)
(* serve_connection at the other end, which owns a WorkerProcess, and the  *)
(* TCP connection between them. A connection that goes dead without either *)
(* end noticing is not modelled: neither end has a timeout.                *)
(***************************************************************************)
EXTENDS WorkerProcess

VARIABLES
  client,   \* RemoteWorker: "connect", "handshake", "idle", "event", "status",
            \* "broken" or "gone"
  server,   \* serve_connection: "setup", "spawn", "serve", "work", "event",
            \* "status", "error", "respawn", "stop" or "closed"
  up, down, \* what is on its way to the server and to the client
  lost,     \* the connection has been reset
  event,    \* the event work has read, when it waits for the status
  asked,    \* the paths work was called with, in order
  answers   \* what the calls returned: the path the event is for, or Failed

clientVars == <<client, event, asked, answers>>
remoteVars == <<clientVars, server, up, down, lost>>

vars == <<workerVars, remoteVars>>

Failed == "failed"

Error == Msg("error", NoPath)

RemoteInit ==
  /\ ProcessInit
  /\ method = "none"
  /\ client = "connect"
  /\ server = "setup"
  /\ up = << >> /\ down = << >>
  /\ lost = FALSE
  /\ event = NoPath
  /\ asked = << >>
  /\ answers = << >>

ClientLeft == client = "gone"

ServerLeft == server = "closed"

-----------------------------------------------------------------------------
(* The client.                                                             *)

(* RemoteWorker::connect, as far as Setup. A connection that is not made   *)
(* starts nothing at the other end.                                        *)
ConnectRemote ==
  /\ client = "connect"
  /\ \/ /\ up' = <<Setup>>
        /\ client' = "handshake"
        /\ UNCHANGED server
     \/ /\ Fault("connect")
        /\ client' = "gone"
        /\ server' = "closed"
        /\ UNCHANGED up
  /\ UNCHANGED <<workerVars, event, asked, answers, down, lost>>

(* What the client reads next: a message, or an error when the connection  *)
(* is closed or reset.                                                     *)
Incoming(m) == down # << >> /\ m = Head(down) /\ down' = Tail(down)

NothingComes == down = << >> /\ (ServerLeft \/ lost) /\ UNCHANGED down

(* expect_ready.                                                           *)
ReadyRemote ==
  /\ client = "handshake"
  /\ \/ Incoming(Ready) /\ client' = "idle"
     \/ NothingComes /\ client' = "gone"
  /\ UNCHANGED <<workerVars, event, asked, answers, server, up, lost>>

(* work: Work is sent. When the peer has left, this fails or the reading   *)
(* does: NothingComes.                                                     *)
AskRemote(p) ==
  /\ client = "idle"
  /\ Len(asked) < MaxWork
  /\ asked' = Append(asked, p)
  /\ client' = "event"
  /\ up' = IF lost \/ ServerLeft THEN up ELSE Append(up, Work(p))
  /\ UNCHANGED <<workerVars, event, answers, server, down, lost>>

FailWork_Reused ==
  /\ answers' = Append(answers, Failed)
  /\ client' = "idle"

(* work returns an error.                                                  *)
FailWork ==
  /\ answers' = Append(answers, Failed)
  /\ client' = "broken"

(* The event; or an error message of the server, or the end.               *)
ReadEventRemote ==
  /\ client = "event"
  /\ \/ /\ \E p \in Path : Incoming(Event(p)) /\ event' = p
        /\ client' = "status"
        /\ UNCHANGED answers
     \/ (Incoming(Error) \/ NothingComes) /\ FailWork /\ UNCHANGED event
  /\ UNCHANGED <<workerVars, asked, server, up, lost>>

(* The status, whatever it says; or the end.                               *)
ReadStatusRemote ==
  /\ client = "status"
  /\ \/ /\ Incoming(Status("statusReady")) \/ Incoming(Status("statusRestart"))
        /\ answers' = Append(answers, event)
        /\ client' = "idle"
     \/ NothingComes /\ FailWork
  /\ UNCHANGED <<workerVars, event, asked, server, up, lost>>

(* stop sends Shutdown, if it can, and the connection is closed.           *)
StopRemote ==
  /\ client \in {"idle", "broken"}
  /\ up' = IF lost \/ ServerLeft THEN up ELSE Append(up, Shutdown)
  /\ client' = "gone"
  /\ UNCHANGED <<workerVars, event, asked, answers, server, down, lost>>

(* The master dies.                                                        *)
VanishMaster ==
  /\ Fault("vanish")
  /\ ~ClientLeft
  /\ client' = "gone"
  /\ UNCHANGED <<workerVars, event, asked, answers, server, up, down, lost>>

-----------------------------------------------------------------------------
(* serve_connection.                                                       *)

Goto(place) == server' = place

(* The stream and the WorkerProcess are dropped.                           *)
Close == Goto("closed") /\ DropWorker

Request(m) == up # << >> /\ m = Head(up) /\ up' = Tail(up)

(* read_client fails: the client has left, or the connection is lost.      *)
RequestsEnd == up = << >> /\ (ClientLeft \/ lost) /\ UNCHANGED up

(* Setup comes first.                                                      *)
ServeSetup ==
  /\ server = "setup"
  /\ \/ Request(Setup) /\ Goto("spawn") /\ Call("spawn", NoPath)
     \/ RequestsEnd /\ Goto("closed") /\ UNCHANGED callVars
  /\ UNCHANGED <<processVars, handleVars, clientVars, down, lost>>

(* write_server: an error when the client has left.                        *)
Sent(m) == ~ClientLeft /\ ~lost /\ down' = Append(down, m)

SendFails == (ClientLeft \/ lost) /\ Close /\ UNCHANGED down

(* The first process is ready, and Ready is sent; or it is not.            *)
ServeReady ==
  /\ server = "spawn"
  /\ \/ method = "ok" /\ Sent(Ready) /\ Goto("serve")
        /\ EndCall /\ UNCHANGED handleVars
     \/ method = "ok" /\ SendFails
     \/ method = "err" /\ Close /\ UNCHANGED down
  /\ UNCHANGED <<processVars, clientVars, up, lost>>

(* Work, Shutdown, or the end, which stops the worker as well.             *)
ServeRequest ==
  /\ server = "serve"
  /\ \/ \E p \in Path :
          Request(Work(p)) /\ Goto("work") /\ Call("write", p)
     \/ (Request(Shutdown) \/ RequestsEnd)
          /\ Goto("stop") /\ Call("stop", NoPath)
  /\ UNCHANGED <<processVars, handleVars, clientVars, down, lost>>

ServeWorked_Silent ==
  /\ server = "work"
  /\ \/ method = "ok" /\ Goto("event")
     \/ method = "err" /\ Goto("serve")
  /\ UNCHANGED <<workerVars, clientVars, up, down, lost>>

(* worker.work has returned: on with its event, or with its error.         *)
ServeWorked ==
  /\ server = "work"
  /\ \/ method = "ok" /\ Goto("event")
     \/ method = "err" /\ Goto("error")
  /\ UNCHANGED <<workerVars, clientVars, up, down, lost>>

ServeError_Stops ==
  /\ server = "error"
  /\ \/ Sent(Error)
     \/ (ClientLeft \/ lost) /\ UNCHANGED down
  /\ Goto("stop")
  /\ Call("stop", NoPath)
  /\ UNCHANGED <<processVars, handleVars, clientVars, up, lost>>

(* The error is sent, and the connection ends.                             *)
ServeError ==
  /\ server = "error"
  /\ \/ Sent(Error)
     \/ (ClientLeft \/ lost) /\ UNCHANGED down
  /\ Close
  /\ UNCHANGED <<processVars, clientVars, up, lost>>

ServeEvent ==
  /\ server = "event"
  /\ \/ Sent(Event(result)) /\ Goto("status") /\ UNCHANGED <<handleVars, callVars>>
     \/ SendFails
  /\ UNCHANGED <<processVars, clientVars, up, lost>>

(* The status is passed on. Only then is a process that asked for it       *)
(* replaced.                                                               *)
ServeStatus ==
  /\ server = "status"
  /\ \/ /\ Sent(Status(status))
        /\ IF status = "statusRestart"
             THEN Goto("respawn") /\ CallAt("restart")
             ELSE Goto("serve") /\ EndCall
        /\ UNCHANGED handleVars
     \/ SendFails
  /\ UNCHANGED <<processVars, clientVars, up, lost>>

ServeRespawned ==
  /\ server = "respawn"
  /\ \/ method = "ok" /\ Goto("serve") /\ EndCall /\ UNCHANGED handleVars
     \/ method = "err" /\ Close
  /\ UNCHANGED <<processVars, clientVars, up, down, lost>>

ServeStopped ==
  /\ server = "stop"
  /\ method \in {"ok", "panicked"}
  /\ Close
  /\ UNCHANGED <<processVars, clientVars, up, down, lost>>

(* The remote machine's `evix worker` dies.                                *)
VanishServer ==
  /\ Fault("vanish")
  /\ ~ServerLeft
  /\ Close
  /\ UNCHANGED <<processVars, clientVars, up, down, lost>>

(* The connection is reset: what was on its way is gone.                   *)
Lose ==
  /\ Fault("lost")
  /\ ~lost
  /\ client # "connect"
  /\ lost' = TRUE
  /\ up' = << >> /\ down' = << >>
  /\ UNCHANGED <<workerVars, clientVars, server>>

-----------------------------------------------------------------------------
Client == ReadyRemote \/ ReadEventRemote \/ ReadStatusRemote

Server ==
  \/ ServeSetup \/ ServeReady \/ ServeRequest \/ ServeWorked \/ ServeError
  \/ ServeEvent \/ ServeStatus \/ ServeRespawned \/ ServeStopped

RemoteNext ==
  \/ (Method \/ \E k \in Pid : Process(k) \/ Crash(k)) /\ UNCHANGED remoteVars
  \/ ConnectRemote \/ Client \/ (\E p \in Path : AskRemote(p)) \/ StopRemote
  \/ VanishMaster
  \/ Server \/ VanishServer \/ Lose

RemoteSpec == RemoteInit /\ [][RemoteNext]_vars

(* Both ends are polled, processes and methods go on as long as they can,  *)
(* and what is sent arrives unless the connection is reset.                *)
RemoteFairSpec ==
  /\ RemoteSpec
  /\ \A k \in Pid : WF_vars(Process(k) /\ UNCHANGED remoteVars)
  /\ WF_vars(Method /\ UNCHANGED remoteVars)
  /\ WF_vars(ConnectRemote) /\ WF_vars(Client) /\ WF_vars(Server)

-----------------------------------------------------------------------------
(* Properties.                                                             *)

RemoteTypeOK ==
  /\ ProcessTypeOK
  /\ client \in {"connect", "handshake", "idle", "event", "status", "broken",
                 "gone"}
  /\ server \in {"setup", "spawn", "serve", "work", "event", "status",
                 "error", "respawn", "stop", "closed"}
  /\ Len(up) <= 2 /\ Len(down) <= 2
  /\ \A i \in 1..Len(down) :
       down[i] \in {Ready, Error, Status("statusReady"), Status("statusRestart")}
                   \cup {Event(p) : p \in Path}
  /\ lost \in BOOLEAN
  /\ event \in Path \cup {NoPath}
  /\ Len(answers) <= Len(asked) /\ Len(asked) <= MaxWork

Phase ==
  CASE client \in {"connect", "handshake"} -> "connecting"
    [] client \in {"event", "status"} -> "busy"
    [] OTHER -> client

Service == INSTANCE WorkerService WITH phase <- Phase

(* README: a remote connection behaves exactly like a local worker. Each   *)
(* answer is for the path that was asked about, although the server has a  *)
(* request waiting while it replaces its process; nothing is answered      *)
(* after a failure.                                                        *)
RemoteImplementsService == Service!ServiceSpec

(* A call of work returns, whatever happens to the process, the server or  *)
(* the connection.                                                         *)
RemoteAnswers ==
  client \in {"event", "status"} ~> client \notin {"event", "status"}

(* When the master is done with a connection, or lost it, the other        *)
(* machine ends its process and the connection.                            *)
RemoteCleansUp ==
  ClientLeft \/ lost ~> ServerLeft /\ \A k \in Pid : ~Alive(k)

(* Neither machine waits for the other for ever.                           *)
RemoteEnds == RemoteAnswers /\ RemoteCleansUp

(* The server never stops a worker whose stderr it has read already: a     *)
(* failed worker is dropped, a replaced one is replaced first.             *)
ServerNeverPanics == method # "panicked"

(* README: a Restart status tells the master that the remote respawned its *)
(* subprocess.                                                             *)
RestartMeansRespawned ==
  \A i \in 1..Len(down) :
    down[i] = Status("statusRestart") =>
      handle # NoPid /\ ~spent /\ method # "restart"
=============================================================================
