---------------------------- MODULE RemoteProofs ----------------------------
(***************************************************************************)
(* Proofs about RemoteWorker. The server treats its process as a local     *)
(* worker's task does, so what LocalProofs shows of that task's invariant  *)
(* is used here for the server; the rest is about the connection.          *)
(***************************************************************************)
EXTENDS RemoteWorker, FiniteSetTheorems, TLAPS

(* The server as the task of a local worker, which it is from Setup on:    *)
(* where that task would be, and what it would have been asked.            *)
Task ==
  CASE server \in {"setup", "closed"} -> "gone"
    [] server = "spawn" -> "connect"
    [] server = "serve" -> "idle"
    [] server \in {"work", "event", "status", "error"} -> "work"
    [] server = "respawn" -> "respawn"
    [] server = "stop" -> "stop"

Current == IF arg \in Path THEN <<arg>> ELSE << >>

L == INSTANCE LocalProofs WITH
       client <- Task, asked <- Current, answers <- << >>

-----------------------------------------------------------------------------
(* The inductive invariant.                                                *)

Replies ==
  {Ready, Error, Status("statusReady"), Status("statusRestart")}
    \cup {Event(p) : p \in Path}

Statuses == {"statusReady", "statusRestart"}

(* Both ends of the connection.                                            *)
EndsTypeOK ==
  /\ client \in {"connect", "handshake", "idle", "event", "status", "broken", "gone"}
  /\ server \in {"setup", "spawn", "serve", "work", "event", "status", "error",
                 "respawn", "stop", "closed"}
  /\ up \in Seq(Messages) /\ down \in Seq(Replies) /\ lost \in BOOLEAN
  /\ Len(up) <= 1 /\ Len(down) <= 2
  /\ event \in Path \cup {NoPath}
  /\ asked \in Seq(Path) /\ answers \in Seq(Path \cup {Failed})
  /\ Len(answers) <= Len(asked) /\ Len(asked) <= MaxWork
  /\ client \in {"event", "status"} => Len(answers) < Len(asked)

(* The server has no process before Setup, and hands on only what work has *)
(* returned.                                                               *)
ServerHolds ==
  /\ server = "setup" => \A k \in Pid : pc[k] = "none"
  /\ server \in {"event", "status"} => method = "ok"
  /\ server = "error" => method = "err"
  /\ server \in {"work", "event", "status"} /\ method = "ok" => status \in Statuses

(* The stderr of the process that the server may still stop is unread.     *)
Unspent ==
  /\ server \in {"serve", "event", "status"} => ~spent
  /\ server = "work" /\ method \in {"write", "event", "status", "ok"} => ~spent
  /\ server \in {"spawn", "respawn"} /\ method = "ok" => ~spent
  /\ server = "stop" => method # "panicked"
  /\ server = "stop" /\ method \in {"stop", "stopwait"} => ~spent

LastAsked == asked[Len(asked)]

(* How far the server is with the path p that the client was asked about,  *)
(* before the client has read the event,                                   *)
Requested(p) ==
  \/ up = <<Work(p)>> /\ down = << >> /\ server \in {"serve", "respawn", "closed"}
  \/ /\ up = << >> /\ down = << >>
     /\ \/ server \in {"work", "event"} /\ arg = p
        \/ server \in {"error", "closed"}
  \/ up = << >> /\ down = <<Error>> /\ server = "closed"
  \/ up = << >> /\ down = <<Event(p)>> /\ server \in {"status", "closed"}
  \/ /\ up = << >> /\ server \in {"serve", "respawn", "closed"}
     /\ \E h \in Statuses : down = <<Event(p), Status(h)>>

(* and after it.                                                           *)
Announced ==
  /\ up = << >>
  /\ \/ down = << >> /\ server \in {"status", "closed"}
     \/ /\ server \in {"serve", "respawn", "closed"}
        /\ \E h \in Statuses : down = <<Status(h)>>

(* What is on its way, until the connection is lost or the client leaves.  *)
Wire ==
  /\ client = "connect" =>
       up = << >> /\ down = << >> /\ server \in {"setup", "closed"}
  /\ client = "handshake" =>
       \/ up = <<Setup>> /\ down = << >> /\ server \in {"setup", "closed"}
       \/ up = << >> /\ down = << >> /\ server \in {"spawn", "closed"}
       \/ up = << >> /\ down = <<Ready>> /\ server \in {"serve", "closed"}
  /\ client = "idle" =>
       up = << >> /\ down = << >> /\ server \in {"serve", "respawn", "closed"}
  /\ client = "event" => Requested(LastAsked)
  /\ client = "status" => Announced
  /\ client = "broken" => server = "closed"

Connection ==
  /\ lost => up = << >> /\ down = << >> /\ client # "connect"
  /\ ~lost => Wire
  /\ client = "status" => event = LastAsked

ROwn == L!Inv /\ ServerHolds /\ Unspent

RInv == EndsTypeOK /\ ROwn /\ Connection

-----------------------------------------------------------------------------
(* The server's process, its methods and its messages are those of L.      *)

(* A step of the server's subprocess, or its crash, is one in L.           *)
LEMMA SameProcess ==
  ASSUME NEW k \in Pid, Process(k) \/ Crash(k)
  PROVE  L!Process(k) \/ L!Crash(k)
BY DEF Process, L!Process, ProcReads, L!ProcReads, ProcInit, L!ProcInit,
   ProcEvaluates, L!ProcEvaluates, ProcReports, L!ProcReports, ProcLeaves, L!ProcLeaves,
   Crash, L!Crash, Fault, L!Fault, Alive, L!Alive, Exit, L!Exit, Become, L!Become,
   Write, L!Write, Owned, L!Owned, Event, L!Event, Ready, L!Ready, Msg, L!Msg,
   Unreadable, L!Unreadable, Status, L!Status, AfterRestart, L!AfterRestart,
   Understood, L!Understood, Setup, L!Setup, NoPath, L!NoPath,
   InputEnds, L!InputEnds, handleVars, L!handleVars, callVars, L!callVars

(* A step of the method that the server has called is one in L.            *)
LEMMA SameMethod == Method => L!Method
BY DEF Method, L!Method, SpawnChild, L!SpawnChild, WriteSetup, L!WriteSetup,
   ReadReady, L!ReadReady, WriteWork, L!WriteWork, ReadEvent, L!ReadEvent,
   ReadStatus, L!ReadStatus, ExitError, L!ExitError, WaitForRestart, L!WaitForRestart,
   WriteShutdown, L!WriteShutdown, WaitForExit, L!WaitForExit,
   Running, L!Running, Fault, L!Fault, Become, L!Become, CallAt, L!CallAt,
   Written, L!Written, Exited, L!Exited, SpawnFails, L!SpawnFails, Reads, L!Reads,
   Message, L!Message, AtEnd, L!AtEnd, StopMessage, L!StopMessage,
   AfterEvent, L!AfterEvent, RestartReady, L!RestartReady,
   Setup, L!Setup, Shutdown, L!Shutdown, Work, L!Work, Ready, L!Ready,
   Unreadable, L!Unreadable, Msg, L!Msg, NoPath, L!NoPath, NoPid, L!NoPid, Pid, L!Pid,
   handleVars, L!handleVars, processVars, L!processVars

(* To call a method, to end the call and to drop the process are the same. *)
LEMMA SameCalls ==
  /\ EndCall => L!EndCall
  /\ DropWorker => L!DropWorker
  /\ \A at, p : Call(at, p) => L!Call(at, p)
  /\ \A at : CallAt(at) => L!CallAt(at)
  /\ UNCHANGED processVars => UNCHANGED L!processVars
  /\ UNCHANGED handleVars => UNCHANGED L!handleVars
  /\ NoPath = L!NoPath /\ NoPid = L!NoPid /\ Pid = L!Pid
BY DEF EndCall, L!EndCall, DropWorker, L!DropWorker, Call, L!Call, CallAt, L!CallAt,
   processVars, L!processVars, handleVars, L!handleVars, NoPath, L!NoPath,
   NoPid, L!NoPid, Pid, L!Pid

(* L's invariant types the process as WorkerProcess does.                  *)
LEMMA SameTypes == L!Inv => ProcessTypeOK
<1>1. Messages = L!Messages
  BY DEF L!Messages, Messages, L!Msg, Msg, L!NoPath, NoPath
<1>2. Places = L!Places /\ Methods = L!Methods
  BY DEF L!Places, Places, L!Methods, Methods
<1>3. L!ProcessTypeOK => ProcessTypeOK
  BY <1>1, <1>2, SameCalls DEF L!ProcessTypeOK, ProcessTypeOK
<1> QED BY <1>3 DEF L!Inv, L!LocalTypeOK

(* A channel that holds one message, or two: its head, its tail, and what *)
(* a write makes of it.                                                    *)
LEMMA Queues ==
  ASSUME NEW x, NEW y
  PROVE  /\ Head(<<x>>) = x /\ Tail(<<x>>) = << >> /\ <<x>> # << >>
         /\ Head(<<x, y>>) = x /\ Tail(<<x, y>>) = <<y>> /\ <<x, y>> # << >>
         /\ Append(<< >>, x) = <<x>> /\ Append(<<x>>, y) = <<x, y>>
BY L!Short, WorkerAssumption DEF L!Short

(* The messages differ in their types, and carry the path they are for.    *)
LEMMA Kinds ==
  /\ Setup.type = "setup" /\ Ready.type = "ready" /\ Shutdown.type = "shutdown"
  /\ Error.type = "error"
  /\ \A p : Work(p).type = "work" /\ Work(p).path = p
  /\ \A p : Event(p).type = "event" /\ Event(p).path = p
  /\ \A h : Status(h).type = h
BY DEF Setup, Ready, Shutdown, Error, Work, Event, Status, Msg

(* Where the server is, and what the worker task would be called there.    *)
LEMMA Tasks ==
  ASSUME EndsTypeOK
  PROVE  /\ Task = "gone" <=> server \in {"setup", "closed"}
         /\ Task = "connect" <=> server = "spawn"
         /\ Task = "idle" <=> server = "serve"
         /\ Task = "work" <=> server \in {"work", "event", "status", "error"}
         /\ Task = "respawn" <=> server = "respawn"
         /\ Task = "stop" <=> server = "stop"
BY DEF Task, EndsTypeOK

(* What L's invariant says of the server.                                  *)
LEMMA Owns ==
  ASSUME EndsTypeOK, L!Inv
  PROVE  /\ server \in {"setup", "closed", "serve"} => method = "none"
         /\ server = "spawn" => method \in {"spawn", "setup", "handshake", "ok", "err"}
         /\ server \in {"work", "event", "status", "error"} =>
              /\ method \in {"write", "event", "status", "exit", "ok", "err"}
              /\ handle \in Pid /\ arg \in Path
              /\ method = "ok" => result = arg /\ L!Quiet(handle)
         /\ server = "respawn" =>
              method \in {"restart", "spawn", "setup", "handshake", "ok", "err"}
         /\ server = "stop" => method \in {"stop", "stopwait", "ok", "panicked"}
         /\ server \in {"spawn", "respawn"} /\ method = "ok" => handle \in Pid /\ L!Quiet(handle)
         /\ server = "serve" => handle \in Pid /\ L!Quiet(handle)
         /\ server \in {"respawn", "stop"} => handle \in Pid
<1>1. method \in L!Doing(Task) /\ L!Faithful
  BY DEF L!Inv, L!LocalTypeOK
<1>2. Task \in {"work", "respawn"} => arg \in Path
  BY <1>1 DEF L!Faithful, Current
<1>3. arg \in Path => L!LastAsked = arg
  BY DEF L!LastAsked, Current
<1>4. server \in {"setup", "spawn", "serve", "work", "event", "status", "error",
                  "respawn", "stop", "closed"}
  BY DEF EndsTypeOK
<1>5. /\ server \in {"setup", "closed", "serve"} => method = "none"
      /\ server = "spawn" => method \in {"spawn", "setup", "handshake", "ok", "err"}
      /\ server \in {"work", "event", "status", "error"} =>
           method \in {"write", "event", "status", "exit", "ok", "err"}
      /\ server = "respawn" =>
           method \in {"restart", "spawn", "setup", "handshake", "ok", "err"}
      /\ server = "stop" => method \in {"stop", "stopwait", "ok", "panicked"}
  BY <1>1, <1>4, Tasks DEF L!Doing
<1> QED
  BY <1>1, <1>2, <1>3, <1>5, Tasks, SameCalls DEF L!Faithful, L!Running

-----------------------------------------------------------------------------
(* The process and the methods.                                            *)

(* They leave the ends of the connection alone.                            *)
LEMMA Inside ==
  ASSUME Method \/ (\E k \in Pid : Process(k) \/ Crash(k)), UNCHANGED remoteVars
  PROVE  UNCHANGED <<client, event, asked, answers, server, up, down, lost, arg>>
<1>1. UNCHANGED <<client, event, asked, answers, server, up, down, lost>>
  BY DEF remoteVars, clientVars
<1>2. ASSUME Method PROVE arg' = arg
  BY <1>2 DEF Method, SpawnChild, WriteSetup, ReadReady, WriteWork, ReadEvent, ReadStatus,
     ExitError, WaitForRestart, WriteShutdown, WaitForExit, CallAt, SpawnFails
<1>3. ASSUME NEW k \in Pid, Process(k) \/ Crash(k) PROVE UNCHANGED callVars
  BY <1>3 DEF Process, ProcReads, ProcInit, ProcEvaluates, ProcReports, ProcLeaves, Crash
<1> QED BY <1>1, <1>2, <1>3 DEF callVars

(* The status that is read is Ready or Restart.                            *)
LEMMA StatusRead ==
  ASSUME EndsTypeOK, L!Inv, ReadStatus, method' = "ok"
  PROVE  status' \in Statuses
<1>1. L!Reported(handle) /\ method = "status"
  BY DEF L!Inv, L!Conversation, L!Running, ReadStatus, Running
<1>2. out[handle] # << >> /\ status' = Head(out[handle]).type
  BY DEF ReadStatus, Reads, Message, CallAt
<1>3. PICK h \in Statuses : out[handle] = <<L!Status(h)>>
  BY <1>1, <1>2 DEF L!Reported, Statuses
<1>4. L!Status(h).type = h
  BY DEF L!Status, L!Msg
<1> QED BY <1>2, <1>3, <1>4, Queues

(* A process or a method preserves the invariant.                          *)
LEMMA InsideInv ==
  ASSUME RInv, Method \/ (\E k \in Pid : Process(k) \/ Crash(k)), UNCHANGED remoteVars
  PROVE  RInv'
<1>1. UNCHANGED <<client, event, asked, answers, server, up, down, lost, arg>>
  BY Inside
<1>2. EndsTypeOK /\ L!Inv
  BY DEF RInv, ROwn
<1>3. L!Inv'
  <2>1. UNCHANGED L!localVars
    BY <1>1 DEF L!localVars, Task, Current
  <2>2. L!Method \/ \E k \in L!Pid : L!Process(k) \/ L!Crash(k)
    BY SameMethod, SameProcess, SameCalls
  <2>3. L!LocalNext
    BY <2>1, <2>2 DEF L!LocalNext
  <2> QED BY <1>2, <2>3, L!NextInv, WorkerAssumption DEF L!NextInv
<1>4. EndsTypeOK' /\ Connection'
  BY <1>1 DEF RInv, EndsTypeOK, Connection, Wire, Requested, Announced, LastAsked
<1>5. CASE \E k \in Pid : Process(k) \/ Crash(k)
  <2>1. PICK k \in Pid : Process(k) \/ Crash(k)
    BY <1>5
  <2>2. pc[k] # "none" /\ UNCHANGED <<method, status, spent>>
    BY <2>1 DEF Process, ProcReads, ProcInit, ProcEvaluates, ProcReports, ProcLeaves,
       Crash, Alive, callVars, handleVars
  <2>3. ServerHolds' /\ Unspent'
    BY <1>1, <2>2 DEF RInv, ROwn, ServerHolds, Unspent
  <2> QED BY <1>3, <1>4, <2>3 DEF RInv, ROwn
<1>6. CASE Method
  <2>1. /\ server \in {"spawn", "work", "respawn", "stop"}
        /\ method \notin {"none", "ok", "err", "panicked"}
    BY <1>2, <1>6, Owns DEF RInv, ROwn, ServerHolds, EndsTypeOK, Method, SpawnChild,
       WriteSetup, ReadReady, WriteWork, ReadEvent, ReadStatus, ExitError,
       WaitForRestart, WriteShutdown, WaitForExit, Running
  <2>2. ASSUME SpawnChild \/ WriteSetup \/ ReadReady PROVE ServerHolds' /\ Unspent'
    <3>1. /\ method \in {"spawn", "setup", "handshake"}
          /\ method' \in {"setup", "handshake", "ok", "err"}
          /\ method' = "ok" => spent' = FALSE
      BY <2>2 DEF SpawnChild, WriteSetup, ReadReady, Running, CallAt, SpawnFails
    <3>2. server \in {"spawn", "respawn"}
      BY <1>2, <2>1, <3>1, Owns
    <3> QED BY <1>1, <3>1, <3>2 DEF ServerHolds, Unspent
  <2>3. ASSUME WriteWork \/ ReadEvent \/ ReadStatus \/ ExitError PROVE ServerHolds' /\ Unspent'
    <3>1. /\ method \in {"write", "event", "status", "exit"}
          /\ method' \in {"event", "status", "ok", "exit", "err"}
          /\ method' \in {"event", "status", "ok"} => spent' = spent /\ method # "exit"
          /\ method' = "ok" => status' \in Statuses
      BY <1>2, <2>3, StatusRead DEF WriteWork, ReadEvent, ReadStatus, ExitError, Running, CallAt,
         AfterEvent, handleVars
    <3>2. server = "work"
      BY <1>2, <2>1, <3>1, Owns
    <3> QED BY <1>1, <3>1, <3>2 DEF RInv, ROwn, ServerHolds, Unspent
  <2>4. ASSUME WaitForRestart PROVE ServerHolds' /\ Unspent'
    <3>1. method = "restart" /\ method' = "spawn"
      BY <2>4 DEF WaitForRestart, Running, CallAt
    <3>2. server = "respawn"
      BY <1>2, <2>1, <3>1, Owns
    <3> QED BY <1>1, <3>1, <3>2 DEF ServerHolds, Unspent
  <2>5. ASSUME WriteShutdown \/ WaitForExit PROVE ServerHolds' /\ Unspent'
    <3>1. /\ method \in {"stop", "stopwait"} /\ method' \in {"stopwait", "ok", "panicked"}
          /\ method' = "stopwait" => spent' = spent
          /\ method' = "panicked" => spent
      BY <2>5 DEF WriteShutdown, WaitForExit, Running, CallAt, handleVars
    <3>2. server = "stop"
      BY <1>2, <2>1, <3>1, Owns
    <3> QED BY <1>1, <3>1, <3>2 DEF RInv, ROwn, ServerHolds, Unspent
  <2>6. ServerHolds' /\ Unspent'
    BY <1>6, <2>2, <2>3, <2>4, <2>5 DEF Method
  <2> QED BY <1>3, <1>4, <2>6 DEF RInv, ROwn
<1> QED BY <1>5, <1>6

-----------------------------------------------------------------------------
(* The connection.                                                         *)

(* A step that leaves all that the server has and where it is with it.     *)
LEMMA TaskStays ==
  ASSUME L!Inv, UNCHANGED workerVars, Task' = Task
  PROVE  L!Inv'
<1>1. /\ UNCHANGED <<pc, task, in, out, handle, spent, method, arg, child, result, status>>
      /\ Current' = Current
  BY DEF workerVars, processVars, handleVars, callVars, Current
<1>2. UNCHANGED L!vars
  BY <1>1 DEF L!vars, L!workerVars, L!processVars, L!handleVars, L!callVars, L!localVars
<1> QED BY <1>2, L!NextInv, WorkerAssumption DEF L!NextInv

(* The server may also close before Setup.                                 *)
LEMMA OwnStays ==
  ASSUME RInv, UNCHANGED workerVars,
         server' = server \/ (server = "setup" /\ server' = "closed")
  PROVE  ROwn'
<1>1. Task' = Task
  BY DEF Task
<1>2. L!Inv'
  BY <1>1, TaskStays DEF RInv, ROwn
<1>3. ServerHolds' /\ Unspent'
  BY DEF workerVars, processVars, handleVars, callVars, RInv, ROwn, ServerHolds, Unspent
<1> QED BY <1>2, <1>3 DEF ROwn

(* What can be on its way.                                                 *)
LEMMA AreReplies ==
  /\ Ready \in Replies /\ Error \in Replies
  /\ \A p \in Path : Event(p) \in Replies
  /\ \A h \in Statuses : Status(h) \in Replies
  /\ Setup \in Messages /\ Shutdown \in Messages
  /\ \A p \in Path : Work(p) \in Messages
BY DEF Replies, Statuses, Messages, Setup, Shutdown, Work

(* Reading takes the first of what is on its way, which is then shorter.   *)
LEMMA Received ==
  ASSUME EndsTypeOK, NEW m, Incoming(m)
  PROVE  down # << >> /\ down' \in Seq(Replies) /\ Len(down') <= 1
BY DEF EndsTypeOK, Incoming

(* Setup is the first message, on a connection that nobody has used.       *)
LEMMA ConnectInv ==
  ASSUME RInv, ConnectRemote
  PROVE  RInv'
<1>1. /\ client = "connect" /\ client' \in {"handshake", "gone"} /\ ~lost
      /\ UNCHANGED <<event, asked, answers, down, lost, arg>>
      /\ up = << >> /\ down = << >> /\ server \in {"setup", "closed"}
      /\ \/ up' = <<Setup>> /\ server' = server
         \/ client' = "gone" /\ server' = "closed" /\ up' = up
  BY DEF ConnectRemote, workerVars, callVars, RInv, Connection, Wire
<1>2. up' \in Seq(Messages) /\ Len(up') <= 1
  <2>1. <<Setup>> \in Seq(Messages) /\ Len(<<Setup>>) = 1
    BY AreReplies
  <2>2. up \in Seq(Messages) /\ Len(up) <= 1
    BY DEF RInv, EndsTypeOK
  <2>3. up' = <<Setup>> \/ up' = up
    BY <1>1
  <2>4. CASE up' = <<Setup>>
    <3>1. 1 <= 1
      OBVIOUS
    <3> QED BY <2>1, <2>4, <3>1, Zenon
  <2> QED BY <2>2, <2>3, <2>4
<1>3. EndsTypeOK'
  BY <1>1, <1>2 DEF RInv, EndsTypeOK
<1>4. Connection'
  BY <1>1 DEF Connection, Wire
<1> QED BY <1>1, <1>3, <1>4, OwnStays DEF RInv, ConnectRemote

(* The client reads Ready, or that there is no server.                     *)
LEMMA ReadyInv ==
  ASSUME RInv, ReadyRemote
  PROVE  RInv'
<1>1. /\ client = "handshake" /\ client' \in {"idle", "gone"}
      /\ UNCHANGED <<event, asked, answers, server, up, lost, arg>>
      /\ client' = "idle" => Incoming(Ready)
      /\ Incoming(Ready) \/ down' = down
  BY DEF ReadyRemote, workerVars, callVars, NothingComes
<1>2. down' \in Seq(Replies) /\ Len(down') <= 2
  BY <1>1, Received DEF RInv, EndsTypeOK
<1>3. EndsTypeOK'
  BY <1>1, <1>2 DEF RInv, EndsTypeOK
<1>4. lost => down' = << >>
  BY <1>1 DEF RInv, Connection, Incoming
<1>5. client' = "idle" /\ ~lost =>
        up' = << >> /\ down' = << >> /\ server' \in {"serve", "closed"}
  BY <1>1, Queues DEF RInv, Connection, Wire, Incoming
<1>6. Connection'
  BY <1>1, <1>4, <1>5 DEF RInv, Connection, Wire
<1> QED BY <1>1, <1>3, <1>6, OwnStays DEF RInv, ReadyRemote

(* The client is asked about a path, when nothing is on its way.           *)
LEMMA AskInv ==
  ASSUME RInv, NEW p \in Path, AskRemote(p)
  PROVE  RInv'
<1>1. /\ client = "idle" /\ client' = "event" /\ Len(asked) < MaxWork
      /\ asked' = Append(asked, p) /\ UNCHANGED <<event, answers, server, down, lost, arg>>
      /\ up' = IF lost \/ server = "closed" THEN up ELSE Append(up, Work(p))
  BY DEF AskRemote, workerVars, callVars, ServerLeft
<1>2. /\ asked' \in Seq(Path) /\ Len(asked') = Len(asked) + 1 /\ LastAsked' = p
      /\ asked \in Seq(Path) /\ answers \in Seq(Path \cup {Failed})
  BY <1>1 DEF RInv, EndsTypeOK, LastAsked
<1>3. /\ up = << >> /\ down = << >>
      /\ ~lost => server \in {"serve", "respawn", "closed"}
  BY <1>1 DEF RInv, Connection, Wire
<1>4. <<Work(p)>> \in Seq(Messages) /\ Len(<<Work(p)>>) = 1
  BY AreReplies
<1>5. up' = IF lost \/ server = "closed" THEN << >> ELSE <<Work(p)>>
  BY <1>1, <1>3, Queues
<1>6. EndsTypeOK'
  <2>1. Len(answers) <= Len(asked) /\ Len(answers) \in Nat /\ Len(asked) \in Nat /\ MaxWork \in Nat
    BY <1>2, WorkerAssumption DEF RInv, EndsTypeOK
  <2>2. Len(answers) < Len(asked') /\ Len(asked') <= MaxWork
    BY <1>1, <1>2, <2>1
  <2>3. Len(answers) <= Len(asked')
    BY <1>2, <2>1
  <2>4. up' \in Seq(Messages) /\ Len(up') <= 1
    BY <1>3, <1>4, <1>5 DEF RInv, EndsTypeOK
  <2> QED BY <1>1, <1>2, <2>2, <2>3, <2>4 DEF RInv, EndsTypeOK
<1>7. ~lost => Requested(p)'
  BY <1>1, <1>3, <1>5 DEF Requested
<1>8. Connection'
  BY <1>1, <1>2, <1>3, <1>5, <1>7 DEF Connection, Wire
<1> QED BY <1>1, <1>6, <1>8, OwnStays DEF RInv, AskRemote

(* The call of work returns.                                               *)
LEMMA AnswerType ==
  ASSUME EndsTypeOK, client \in {"event", "status"}, NEW e \in Path \cup {Failed},
         answers' = Append(answers, e), asked' = asked
  PROVE  answers' \in Seq(Path \cup {Failed}) /\ Len(answers') <= Len(asked')
BY DEF EndsTypeOK

(* The event is the one for the path that the client was asked about.      *)
LEMMA ReadEventInv ==
  ASSUME RInv, ReadEventRemote
  PROVE  RInv'
<1>1. /\ client = "event" /\ UNCHANGED <<asked, server, up, lost, arg>>
      /\ EndsTypeOK
      /\ lost => up = << >> /\ down = << >>
  BY DEF ReadEventRemote, workerVars, callVars, RInv, Connection
<1>2. LastAsked' = LastAsked
  BY <1>1 DEF LastAsked
<1>3. ASSUME NEW p \in Path, Incoming(Event(p)), event' = p, client' = "status",
             answers' = answers
      PROVE  EndsTypeOK' /\ Connection'
  <2>1. EndsTypeOK'
    <3>1. down' \in Seq(Replies) /\ Len(down') <= 2
      BY <1>3, Received DEF RInv, EndsTypeOK
    <3> QED BY <1>1, <1>3, <3>1 DEF EndsTypeOK
  <2>2. down # << >> /\ Head(down) = Event(p) /\ down' = Tail(down)
    BY <1>3 DEF Incoming
  <2>3. ~lost /\ Requested(LastAsked)
    BY <1>1, <2>2 DEF RInv, Connection, Wire
  <2>4. down # <<Error>>
    BY <2>2, Queues, Kinds
  <2>5. CASE down = <<Event(LastAsked)>>
    <3>1. p = LastAsked /\ down' = << >>
      BY <2>2, <2>5, Queues, Kinds
    <3>2. up = << >> /\ server \in {"status", "closed"}
      <4>1. Event(LastAsked) # Error
        BY Kinds
      <4>2. \A h : down # <<Event(LastAsked), Status(h)>>
        BY <2>5
      <4> QED BY <2>3, <2>4, <2>5, <4>1, <4>2, Queues DEF Requested
    <3>3. Announced'
      BY <1>1, <3>1, <3>2 DEF Announced
    <3> QED BY <1>1, <1>2, <1>3, <2>1, <2>3, <3>1, <3>3 DEF Connection, Wire
  <2>6. CASE \E h \in Statuses : down = <<Event(LastAsked), Status(h)>>
    <3>1. PICK h \in Statuses : down = <<Event(LastAsked), Status(h)>>
      BY <2>6
    <3>2. p = LastAsked /\ down' = <<Status(h)>>
      BY <2>2, <3>1, Queues, Kinds
    <3>3. up = << >> /\ server \in {"serve", "respawn", "closed"}
      <4>1. down # <<Event(LastAsked)>>
        BY <3>1
      <4> QED BY <2>2, <2>3, <2>4, <4>1 DEF Requested
    <3>4. Announced'
      BY <1>1, <3>2, <3>3 DEF Announced
    <3> QED BY <1>1, <1>2, <1>3, <2>1, <2>3, <3>2, <3>4 DEF Connection, Wire
  <2> QED BY <2>2, <2>3, <2>4, <2>5, <2>6 DEF Requested
<1>4. ASSUME Incoming(Error) \/ NothingComes, FailWork, event' = event
      PROVE  EndsTypeOK' /\ Connection'
  <2>1. down' \in Seq(Replies) /\ Len(down') <= 2
    BY <1>4, Received DEF RInv, EndsTypeOK, NothingComes
  <2>2. answers' \in Seq(Path \cup {Failed}) /\ Len(answers') <= Len(asked')
    BY <1>1, <1>4, AnswerType DEF FailWork
  <2>3. EndsTypeOK'
    BY <1>1, <1>4, <2>1, <2>2 DEF EndsTypeOK, FailWork
  <2>4. ~lost => server = "closed"
    <3>1. CASE NothingComes
      BY <3>1 DEF NothingComes, ServerLeft
    <3>2. CASE Incoming(Error) /\ ~lost
      <4>1. Requested(LastAsked) /\ down # << >> /\ Head(down) = Error
        BY <1>1, <3>2 DEF RInv, Connection, Wire, Incoming
      <4>2. Event(LastAsked) # Error
        BY Kinds
      <4> QED BY <4>1, <4>2, Queues DEF Requested
    <3> QED BY <1>4, <3>1, <3>2
  <2>5. lost => down' = << >>
    BY <1>1, <1>4 DEF Incoming, NothingComes
  <2> QED BY <1>1, <1>4, <2>3, <2>4, <2>5 DEF Connection, Wire, FailWork
<1>5. EndsTypeOK' /\ Connection'
  BY <1>3, <1>4 DEF ReadEventRemote
<1> QED BY <1>1, <1>5, OwnStays DEF RInv, ReadEventRemote

(* With the status the call returns the event.                             *)
LEMMA ReadStatusInv ==
  ASSUME RInv, ReadStatusRemote
  PROVE  RInv'
<1>1. /\ client = "status" /\ UNCHANGED <<event, asked, server, up, lost, arg>>
      /\ EndsTypeOK
      /\ lost => up = << >> /\ down = << >>
      /\ event = LastAsked
      /\ ~lost => Announced
  BY DEF ReadStatusRemote, workerVars, callVars, RInv, Connection, Wire
<1>2. LastAsked \in Path
  BY <1>1 DEF LastAsked, EndsTypeOK
<1>3. ASSUME Incoming(Status("statusReady")) \/ Incoming(Status("statusRestart")),
             answers' = Append(answers, event), client' = "idle"
      PROVE  EndsTypeOK' /\ Connection'
  <2>1. down' \in Seq(Replies) /\ Len(down') <= 2
    BY <1>3, Received DEF RInv, EndsTypeOK
  <2>2. answers' \in Seq(Path \cup {Failed}) /\ Len(answers') <= Len(asked')
    BY <1>1, <1>2, <1>3, AnswerType
  <2>3. EndsTypeOK'
    BY <1>1, <1>3, <2>1, <2>2 DEF EndsTypeOK
  <2>4. down # << >> /\ down' = Tail(down)
    BY <1>3 DEF Incoming
  <2>5. ~lost => /\ up = << >> /\ down' = << >>
                 /\ server \in {"serve", "respawn", "closed"}
    BY <1>1, <2>4, Queues DEF Announced
  <2> QED BY <1>1, <1>3, <2>3, <2>4, <2>5 DEF Connection, Wire
<1>4. ASSUME NothingComes, FailWork PROVE EndsTypeOK' /\ Connection'
  <2>1. answers' \in Seq(Path \cup {Failed}) /\ Len(answers') <= Len(asked')
    BY <1>1, <1>4, AnswerType DEF FailWork
  <2>2. EndsTypeOK'
    BY <1>1, <1>4, <2>1 DEF EndsTypeOK, FailWork, NothingComes
  <2> QED BY <1>1, <1>4, <2>2 DEF Connection, Wire, FailWork, NothingComes, ServerLeft
<1>5. EndsTypeOK' /\ Connection'
  BY <1>3, <1>4 DEF ReadStatusRemote
<1> QED BY <1>1, <1>5, OwnStays DEF RInv, ReadStatusRemote

(* The client leaves, or the connection is lost.                           *)
LEMMA LeaveInv ==
  ASSUME RInv, StopRemote \/ VanishMaster \/ Lose
  PROVE  RInv'
<1>1. UNCHANGED <<event, asked, answers, server, arg>> /\ EndsTypeOK
  BY DEF StopRemote, VanishMaster, Lose, workerVars, callVars, clientVars, RInv
<1>2. CASE StopRemote \/ VanishMaster
  <2>1. client' = "gone" /\ lost' = lost /\ down' = down
    BY <1>2 DEF StopRemote, VanishMaster
  <2>2. \/ up' = up
        \/ ~lost /\ up' = <<Shutdown>>
    <3>1. CASE StopRemote /\ client = "idle" /\ ~lost
      <4>1. up = << >>
        BY <3>1 DEF RInv, Connection, Wire
      <4> QED BY <3>1, <4>1, Queues DEF StopRemote
    <3>2. CASE StopRemote /\ client = "broken" /\ ~lost
      BY <3>2 DEF StopRemote, RInv, Connection, Wire, ServerLeft
    <3> QED BY <1>2, <3>1, <3>2 DEF StopRemote, VanishMaster
  <2>3. up' \in Seq(Messages) /\ Len(up') <= 1
    <3>1. <<Shutdown>> \in Seq(Messages) /\ Len(<<Shutdown>>) = 1
      BY AreReplies
    <3>2. 1 <= 1
      OBVIOUS
    <3>3. CASE up' = <<Shutdown>>
      BY <3>1, <3>2, <3>3, Zenon
    <3> QED BY <1>1, <2>2, <3>3 DEF EndsTypeOK
  <2>4. EndsTypeOK'
    BY <1>1, <2>1, <2>3 DEF EndsTypeOK
  <2>5. Connection'
    BY <2>1, <2>2 DEF RInv, Connection, Wire
  <2> QED BY <1>1, <1>2, <2>4, <2>5, OwnStays DEF RInv, StopRemote, VanishMaster
<1>3. CASE Lose
  <2>1. /\ lost' /\ up' = << >> /\ down' = << >> /\ client' = client /\ client # "connect"
        /\ lost' \in BOOLEAN
    BY <1>3 DEF Lose, clientVars
  <2>2. EndsTypeOK'
    BY <1>1, <2>1 DEF EndsTypeOK
  <2>3. Connection'
    BY <1>1, <2>1 DEF RInv, Connection, LastAsked
  <2> QED BY <1>1, <1>3, <2>2, <2>3, OwnStays DEF RInv, Lose
<1> QED BY <1>2, <1>3

-----------------------------------------------------------------------------
(* The server.                                                             *)

(* Its steps take a request, or add a reply to at most one.                *)
LEMMA ServerTypes ==
  ASSUME EndsTypeOK, UNCHANGED <<clientVars, lost>>,
         server' \in {"setup", "spawn", "serve", "work", "event", "status", "error",
                      "respawn", "stop", "closed"},
         up' = up \/ (up # << >> /\ up' = Tail(up)),
         \/ down' = down
         \/ Len(down) <= 1 /\ \E m \in Replies : down' = Append(down, m)
  PROVE  EndsTypeOK'
<1>1. UNCHANGED <<client, event, asked, answers, lost>>
  BY DEF clientVars
<1>2. up' \in Seq(Messages) /\ Len(up') <= 1
  BY DEF EndsTypeOK
<1>3. down' \in Seq(Replies) /\ Len(down') <= 2
  <2>1. down \in Seq(Replies) /\ Len(down) <= 2 /\ Len(down) \in Nat
    BY DEF EndsTypeOK
  <2>2. ASSUME NEW m \in Replies, Len(down) <= 1
        PROVE  Append(down, m) \in Seq(Replies) /\ Len(Append(down, m)) <= 2
    BY <2>1, <2>2
  <2> QED BY <2>1, <2>2
<1> QED BY <1>1, <1>2, <1>3 DEF EndsTypeOK

(* When the client has left or the connection is lost, nothing is said of  *)
(* what the server does.                                                   *)
LEMMA Deaf ==
  ASSUME RInv, UNCHANGED <<clientVars, lost>>, client = "gone" \/ lost,
         lost => up' = up /\ down' = down
  PROVE  Connection'
<1>1. UNCHANGED <<client, event, asked, answers, lost>>
  BY DEF clientVars
<1> QED BY <1>1 DEF RInv, Connection, Wire, LastAsked

(* The server may always close the connection.                             *)
LEMMA CloseConnection ==
  ASSUME RInv, server' = "closed", UNCHANGED <<clientVars, lost, up, down>>
  PROVE  Connection'
<1>1. UNCHANGED <<client, event, asked, answers, lost>>
  BY DEF clientVars
<1>2. \A p : Requested(p) => Requested(p)'
  BY DEF Requested
<1>3. Announced => Announced'
  BY DEF Announced
<1>4. LastAsked' = LastAsked
  BY <1>1 DEF LastAsked
<1> QED BY <1>1, <1>2, <1>3, <1>4 DEF RInv, Connection, Wire

(* What L says of what the server is asked.                                *)
LEMMA CurrentType == L!Asking
BY DEF L!Asking, Current

(* It drops its worker.                                                    *)
LEMMA CloseOwn ==
  ASSUME RInv, Close, UNCHANGED processVars
  PROVE  ROwn'
<1>1. server' = "closed" /\ L!DropWorker /\ UNCHANGED L!processVars
  BY SameCalls DEF Close, Goto
<1>2. Task' = "gone"
  BY <1>1 DEF Task
<1>3. L!Inv'
  BY <1>1, <1>2, CurrentType, L!LeavesInv, WorkerAssumption DEF L!LeavesInv, RInv, ROwn
<1> QED BY <1>1, <1>3 DEF ROwn, ServerHolds, Unspent

(* So the connection is closed, whatever the reason.                       *)
LEMMA CloseInv ==
  ASSUME RInv, Close, UNCHANGED <<processVars, clientVars, lost, up, down>>
  PROVE  RInv'
<1>1. server' = "closed"
  BY DEF Close, Goto
<1>2. EndsTypeOK'
  BY <1>1, ServerTypes DEF RInv
<1> QED BY <1>1, <1>2, CloseOwn, CloseConnection DEF RInv

(* It goes idle.                                                           *)
LEMMA ServeOwn ==
  ASSUME RInv, server \in {"spawn", "status", "respawn"}, method = "ok", server' = "serve",
         EndCall, UNCHANGED <<processVars, handleVars>>
  PROVE  ROwn'
<1>1. /\ L!EndCall /\ UNCHANGED <<L!processVars, L!handleVars>> /\ Task' = "idle"
      /\ handle \in L!Pid /\ L!Quiet(handle) /\ Task \notin {"gone", "panicked"}
      /\ EndsTypeOK /\ L!Inv
  BY SameCalls, Owns, Tasks DEF RInv, ROwn, Task
<1>2. L!Inv'
  BY <1>1, CurrentType, L!IdleInv, WorkerAssumption DEF L!IdleInv, L!Spawning
<1> QED BY <1>2 DEF RInv, ROwn, ServerHolds, Unspent, handleVars

(* Setup is answered by starting a process, the first of this server.      *)
LEMMA ServeSetupInv ==
  ASSUME RInv, ServeSetup
  PROVE  RInv'
<1>1. /\ server = "setup" /\ EndsTypeOK /\ L!Inv /\ method = "none"
      /\ UNCHANGED <<clientVars, lost, down>> /\ UNCHANGED <<processVars, handleVars>>
  BY Owns DEF ServeSetup, RInv, ROwn
<1>2. CASE RequestsEnd /\ Goto("closed") /\ UNCHANGED callVars
  <2>1. /\ server' = "closed" /\ up' = up /\ UNCHANGED workerVars
        /\ client = "gone" \/ lost
    BY <1>1, <1>2 DEF RequestsEnd, Goto, ClientLeft, workerVars
  <2>2. EndsTypeOK'
    BY <1>1, <2>1, ServerTypes
  <2> QED BY <1>1, <2>1, <2>2, OwnStays, Deaf DEF RInv
<1>3. CASE Request(Setup) /\ Goto("spawn") /\ Call("spawn", NoPath)
  <2>1. /\ server' = "spawn" /\ up # << >> /\ up' = Tail(up) /\ ~lost
        /\ method' = "spawn" /\ arg' = NoPath /\ child' = NoPid /\ result' = NoPath
    BY <1>3 DEF Request, Goto, Call, RInv, Connection
  <2>2. EndsTypeOK'
    BY <1>1, <2>1, ServerTypes
  <2>3. /\ \A k \in Pid : pc[k] = "none"
        /\ UNCHANGED <<pc, task, in, out, handle, spent>>
    BY <1>1 DEF RInv, ROwn, ServerHolds, processVars, handleVars
  <2>4. L!Inv'
    <3>1. Task' = "connect" /\ "connect" \in L!Clients /\ "spawn" \in L!Doing("connect")
      BY <2>1 DEF Task, L!Clients, L!Doing
    <3>2. L!LocalTypeOK'
      <4>1. L!ProcessTypeOK'
        <5>1. L!ProcessTypeOK
          BY <1>1 DEF L!Inv, L!LocalTypeOK
        <5>2. "spawn" \in L!Methods
          BY DEF L!Methods
        <5> QED BY <2>1, <2>3, <5>1, <5>2, SameCalls DEF L!ProcessTypeOK
      <4> QED
        BY <2>1, <3>1, <4>1, CurrentType, SameCalls
        DEF L!LocalTypeOK, L!Spawning, L!Asking
    <3>3. \A k \in L!Pid : ~L!Alive(k)
      BY <2>3, SameCalls DEF L!Alive
    <3>4. L!Solo' /\ L!Fresh'
      <4>1. NoPid \notin Pid
        BY DEF NoPid, Pid
      <4> QED
        BY <1>1, <2>1, <2>3, <3>3, <4>1, SameCalls DEF L!Inv, L!Solo, L!Fresh, L!Alive
    <3>5. L!Conversation' /\ L!Faithful'
      BY <2>1, <3>1 DEF L!Conversation, L!Faithful, L!Running
    <3> QED BY <3>2, <3>4, <3>5 DEF L!Inv
  <2>5. ROwn'
    BY <2>1, <2>4 DEF ROwn, ServerHolds, Unspent
  <2>6. CASE client = "handshake"
    <3>1. up = <<Setup>> /\ down = << >>
      BY <1>1, <2>1, <2>6 DEF RInv, Connection, Wire
    <3>2. up' = << >>
      BY <2>1, <3>1, Queues
    <3>3. client' = "handshake" /\ lost' = lost /\ down' = << >>
      BY <1>1, <2>6, <3>1 DEF clientVars
    <3> QED BY <2>1, <2>2, <2>5, <3>2, <3>3 DEF RInv, Connection, Wire
  <2>7. CASE client = "gone"
    BY <1>1, <2>1, <2>2, <2>5, <2>7, Deaf DEF RInv
  <2>8. client \in {"handshake", "gone"}
    BY <1>1, <2>1 DEF RInv, Connection, Wire, EndsTypeOK, Requested, Announced
  <2> QED BY <2>6, <2>7, <2>8
<1> QED BY <1>2, <1>3 DEF ServeSetup

(* Ready is the first reply.                                               *)
LEMMA ServeReadyInv ==
  ASSUME RInv, ServeReady
  PROVE  RInv'
<1>1. /\ server = "spawn" /\ EndsTypeOK
      /\ UNCHANGED <<processVars, clientVars, up, lost>>
  BY DEF ServeReady, RInv
<1>2. CASE Close /\ UNCHANGED down
  BY <1>1, <1>2, CloseInv
<1>3. CASE /\ method = "ok" /\ Sent(Ready) /\ Goto("serve")
           /\ EndCall /\ UNCHANGED handleVars
  <2>1. /\ server' = "serve" /\ client # "gone" /\ ~lost /\ down' = Append(down, Ready)
        /\ client' = client /\ lost' = lost /\ up' = up
    BY <1>1, <1>3 DEF Sent, Goto, ClientLeft, clientVars
  <2>2. client = "handshake" /\ up = << >> /\ down = << >>
    BY <1>1, <2>1 DEF RInv, Connection, Wire, EndsTypeOK, Requested, Announced
  <2>3. down' = <<Ready>>
    BY <2>1, <2>2, Queues
  <2>4. EndsTypeOK'
    BY <1>1, <2>1, <2>2, AreReplies, ServerTypes
  <2>5. Connection'
    BY <2>1, <2>2, <2>3 DEF Connection, Wire
  <2>6. ROwn'
    BY <1>1, <1>3, <2>1, ServeOwn
  <2> QED BY <2>4, <2>5, <2>6 DEF RInv
<1> QED BY <1>2, <1>3 DEF ServeReady, SendFails

(* A request for work is for the path that the client was asked about; a   *)
(* client that sent Shutdown has left.                                     *)
LEMMA ServeRequestInv ==
  ASSUME RInv, ServeRequest
  PROVE  RInv'
<1>1. /\ server = "serve" /\ EndsTypeOK /\ L!Inv /\ method = "none" /\ ~spent
      /\ UNCHANGED <<processVars, handleVars, clientVars, down, lost>>
      /\ UNCHANGED <<client, event, asked, answers>>
      /\ handle \in Pid /\ L!Quiet(handle)
      /\ Task = "idle" /\ UNCHANGED <<L!processVars, L!handleVars>>
  BY Owns, Tasks, SameCalls DEF ServeRequest, RInv, ROwn, Unspent, clientVars
<1>2. ASSUME NEW p \in Path, Request(Work(p)), Goto("work"), Call("write", p)
      PROVE  RInv'
  <2>1. /\ server' = "work" /\ up # << >> /\ Head(up) = Work(p) /\ up' = Tail(up) /\ ~lost
        /\ method' = "write" /\ arg' = p
    BY <1>2 DEF Request, Goto, Call, RInv, Connection
  <2>2. EndsTypeOK'
    BY <1>1, <2>1, ServerTypes
  <2>3. L!Inv'
    <3>1. Task' = "work" /\ Current' = <<p>>
      BY <2>1 DEF Task, Current
    <3>2. Current' # << >> /\ L!LastAsked' = p
      BY <3>1 DEF L!LastAsked
    <3> QED
      BY <1>1, <1>2, <3>1, <3>2, SameCalls, CurrentType, L!AsksInv, WorkerAssumption
      DEF L!AsksInv
  <2>4. ROwn'
    BY <1>1, <2>1, <2>3 DEF ROwn, ServerHolds, Unspent, handleVars
  <2>5. CASE client = "event"
    <3>1. Requested(LastAsked)
      BY <1>1, <2>1, <2>5 DEF RInv, Connection, Wire
    <3>2. up = <<Work(LastAsked)>> /\ down = << >>
      BY <1>1, <2>1, <3>1 DEF Requested
    <3>3. p = LastAsked /\ up' = << >>
      BY <2>1, <3>2, Queues, Kinds
    <3>4. LastAsked' = LastAsked
      BY <1>1 DEF LastAsked
    <3>5. Requested(LastAsked)'
      BY <1>1, <2>1, <3>2, <3>3, <3>4 DEF Requested
    <3>6. Connection'
      BY <1>1, <2>1, <2>5, <3>5 DEF Connection, Wire
    <3> QED BY <2>2, <2>4, <3>6 DEF RInv
  <2>6. CASE client = "gone"
    BY <1>1, <2>1, <2>2, <2>4, <2>6, Deaf DEF RInv
  <2>7. client \in {"event", "gone"}
    <3>1. client # "handshake"
      BY <1>1, <2>1, Queues, Kinds DEF RInv, Connection, Wire
    <3> QED BY <1>1, <2>1, <3>1 DEF RInv, Connection, Wire, EndsTypeOK, Announced
  <2> QED BY <2>5, <2>6, <2>7
<1>3. CASE (Request(Shutdown) \/ RequestsEnd) /\ Goto("stop") /\ Call("stop", NoPath)
  <2>1. /\ server' = "stop" /\ method' = "stop"
        /\ up' = up \/ (up # << >> /\ up' = Tail(up))
        /\ lost => up' = up
    BY <1>3 DEF Request, RequestsEnd, Goto, Call, RInv, Connection
  <2>2. EndsTypeOK'
    BY <1>1, <2>1, ServerTypes
  <2>3. L!Inv'
    <3>1. Task' = "stop"
      BY <2>1 DEF Task
    <3> QED
      BY <1>1, <1>3, <3>1, SameCalls, CurrentType, L!StopsInv, WorkerAssumption
      DEF L!StopsInv, L!Spawning
  <2>4. ROwn'
    BY <1>1, <2>1, <2>3 DEF ROwn, ServerHolds, Unspent, handleVars
  <2>5. client = "gone" \/ lost
    <3>1. CASE RequestsEnd
      BY <3>1 DEF RequestsEnd, ClientLeft
    <3>2. CASE Request(Shutdown) /\ ~lost
      <4>1. up # << >> /\ Head(up) = Shutdown
        BY <3>2 DEF Request
      <4>2. client # "event"
        BY <1>1, <3>2, <4>1, Queues, Kinds DEF RInv, Connection, Wire, Requested
      <4> QED
        BY <1>1, <3>2, <4>1, <4>2, Queues, Kinds
        DEF RInv, Connection, Wire, EndsTypeOK, Announced
    <3> QED BY <1>3, <3>1, <3>2
  <2> QED BY <1>1, <2>1, <2>2, <2>4, <2>5, Deaf DEF RInv
<1> QED BY <1>2, <1>3 DEF ServeRequest

(* work has returned.                                                      *)
LEMMA ServeWorkedInv ==
  ASSUME RInv, ServeWorked
  PROVE  RInv'
<1>1. /\ server = "work" /\ EndsTypeOK /\ L!Inv
      /\ UNCHANGED <<clientVars, up, down, lost>> /\ UNCHANGED workerVars
      /\ UNCHANGED <<client, event, asked, answers, method, arg, spent, status>>
      /\ \/ method = "ok" /\ server' = "event"
         \/ method = "err" /\ server' = "error"
  BY DEF ServeWorked, Goto, RInv, ROwn, clientVars, workerVars, callVars, handleVars
<1>2. EndsTypeOK'
  BY <1>1, ServerTypes
<1>3. Task' = Task
  BY <1>1 DEF Task
<1>4. ROwn'
  BY <1>1, <1>3, TaskStays DEF RInv, ROwn, ServerHolds, Unspent
<1>5. \A p : Requested(p) => Requested(p)'
  BY <1>1 DEF Requested
<1>6. LastAsked' = LastAsked
  BY <1>1 DEF LastAsked
<1>7. Connection'
  BY <1>1, <1>5, <1>6 DEF RInv, Connection, Wire, Announced
<1> QED BY <1>2, <1>4, <1>7 DEF RInv

(* Its error is the reply, and the connection ends.                        *)
LEMMA ServeErrorInv ==
  ASSUME RInv, ServeError
  PROVE  RInv'
<1>1. /\ server = "error" /\ EndsTypeOK /\ Close /\ server' = "closed"
      /\ UNCHANGED <<processVars, clientVars, up, lost>>
      /\ UNCHANGED <<client, event, asked, answers, up, lost>>
  BY DEF ServeError, Close, Goto, RInv, clientVars
<1>2. CASE down' = down
  BY <1>1, <1>2, CloseInv
<1>3. CASE Sent(Error)
  <2>1. client # "gone" /\ ~lost /\ down' = Append(down, Error)
    BY <1>3 DEF Sent, ClientLeft
  <2>2. client = "event" /\ Requested(LastAsked)
    BY <1>1, <2>1 DEF RInv, Connection, Wire, EndsTypeOK, Announced
  <2>3. up = << >> /\ down = << >>
    BY <1>1, <2>2 DEF Requested
  <2>4. down' = <<Error>>
    BY <2>1, <2>3, Queues
  <2>5. EndsTypeOK'
    BY <1>1, <2>1, <2>3, AreReplies, ServerTypes
  <2>6. Requested(LastAsked)'
    BY <1>1, <2>3, <2>4 DEF Requested
  <2>7. Connection'
    BY <1>1, <2>1, <2>2, <2>6 DEF Connection, Wire
  <2> QED BY <1>1, <2>5, <2>7, CloseOwn DEF RInv
<1> QED BY <1>2, <1>3 DEF ServeError

(* The event that work returned is the one that was asked for.             *)
LEMMA ServeEventInv ==
  ASSUME RInv, ServeEvent
  PROVE  RInv'
<1>1. /\ server = "event" /\ EndsTypeOK /\ L!Inv
      /\ UNCHANGED <<processVars, clientVars, up, lost>>
      /\ UNCHANGED <<client, event, asked, answers>>
      /\ method = "ok" /\ result = arg /\ arg \in Path
  BY Owns DEF ServeEvent, RInv, ROwn, ServerHolds, clientVars
<1>2. CASE SendFails
  BY <1>1, <1>2, CloseInv DEF SendFails
<1>3. CASE Sent(Event(result)) /\ Goto("status") /\ UNCHANGED <<handleVars, callVars>>
  <2>1. /\ client # "gone" /\ ~lost /\ down' = Append(down, Event(arg))
        /\ server' = "status" /\ UNCHANGED workerVars
        /\ UNCHANGED <<method, arg, spent, status>>
    BY <1>1, <1>3 DEF Sent, ClientLeft, Goto, workerVars, callVars, handleVars
  <2>2. client = "event" /\ Requested(LastAsked)
    BY <1>1, <2>1 DEF RInv, Connection, Wire, EndsTypeOK, Announced
  <2>3. up = << >> /\ down = << >> /\ arg = LastAsked
    BY <1>1, <2>2 DEF Requested
  <2>4. down' = <<Event(LastAsked)>>
    BY <2>1, <2>3, Queues
  <2>5. EndsTypeOK'
    BY <1>1, <2>1, <2>3, AreReplies, ServerTypes
  <2>6. Requested(LastAsked)' /\ LastAsked' = LastAsked
    BY <1>1, <2>1, <2>3, <2>4 DEF Requested, LastAsked
  <2>7. Connection'
    BY <1>1, <2>1, <2>2, <2>6 DEF Connection, Wire
  <2>8. Task' = Task
    BY <1>1, <2>1 DEF Task
  <2>9. ROwn'
    BY <1>1, <2>1, <2>8, TaskStays DEF RInv, ROwn, ServerHolds, Unspent
  <2> QED BY <2>5, <2>7, <2>9 DEF RInv
<1> QED BY <1>2, <1>3 DEF ServeEvent

(* The status follows its event.                                           *)
LEMMA ServeStatusInv ==
  ASSUME RInv, ServeStatus
  PROVE  RInv'
<1>1. /\ server = "status" /\ EndsTypeOK /\ L!Inv
      /\ UNCHANGED <<processVars, clientVars, up, lost>>
      /\ UNCHANGED <<client, event, asked, answers>>
      /\ method = "ok" /\ status \in Statuses /\ ~spent
  BY Owns DEF ServeStatus, RInv, ROwn, ServerHolds, Unspent, clientVars
<1>2. CASE SendFails
  BY <1>1, <1>2, CloseInv DEF SendFails
<1>3. CASE /\ Sent(Status(status))
           /\ IF status = "statusRestart"
                THEN Goto("respawn") /\ CallAt("restart")
                ELSE Goto("serve") /\ EndCall
           /\ UNCHANGED handleVars
  <2>1. /\ client # "gone" /\ ~lost /\ down' = Append(down, Status(status))
        /\ server' \in {"serve", "respawn"}
    BY <1>1, <1>3 DEF Sent, ClientLeft, Goto
  <2>2. Status(status) \in Replies
    BY <1>1, AreReplies
  <2>3. Len(down) <= 1 /\ Connection'
    <3>1. CASE client = "event"
      <4>1. up = << >> /\ down = <<Event(LastAsked)>>
        BY <1>1, <2>1, <3>1 DEF RInv, Connection, Wire, Requested
      <4>2. down' = <<Event(LastAsked), Status(status)>> /\ Len(down) = 1
        BY <2>1, <4>1, Queues
      <4>3. Requested(LastAsked)' /\ LastAsked' = LastAsked
        BY <1>1, <2>1, <4>1, <4>2 DEF Requested, LastAsked
      <4> QED BY <1>1, <2>1, <3>1, <4>2, <4>3 DEF Connection, Wire
    <3>2. CASE client = "status"
      <4>1. up = << >> /\ down = << >>
        BY <1>1, <2>1, <3>2 DEF RInv, Connection, Wire, Announced
      <4>2. down' = <<Status(status)>> /\ Len(down) = 0
        BY <2>1, <4>1, Queues
      <4>3. Announced' /\ LastAsked' = LastAsked
        BY <1>1, <2>1, <4>1, <4>2 DEF Announced, LastAsked
      <4> QED BY <1>1, <2>1, <3>2, <4>2, <4>3 DEF RInv, Connection, Wire
    <3>3. client \in {"event", "status"}
      BY <1>1, <2>1 DEF RInv, Connection, Wire, EndsTypeOK
    <3> QED BY <3>1, <3>2, <3>3
  <2>4. EndsTypeOK'
    BY <1>1, <2>1, <2>2, <2>3, ServerTypes
  <2>5. CASE status = "statusRestart"
    <3>1. /\ server' = "respawn" /\ L!CallAt("restart") /\ method' = "restart"
          /\ UNCHANGED <<L!processVars, L!handleVars>> /\ arg' = arg /\ spent' = spent
      BY <1>1, <1>3, <2>5, SameCalls DEF Goto, CallAt, handleVars
    <3>2. Task = "work" /\ Task' = "respawn" /\ Current' = Current
      BY <1>1, <3>1 DEF Task, Current
    <3>3. L!Inv'
      BY <1>1, <3>1, <3>2, L!ReplacesInv, WorkerAssumption DEF L!ReplacesInv
    <3>4. ROwn'
      BY <3>1, <3>3 DEF ROwn, ServerHolds, Unspent
    <3> QED BY <2>3, <2>4, <3>4 DEF RInv
  <2>6. CASE status # "statusRestart"
    <3>1. ROwn'
      BY <1>1, <1>3, <2>6, ServeOwn DEF Goto
    <3> QED BY <2>3, <2>4, <3>1 DEF RInv
  <2> QED BY <2>5, <2>6
<1> QED BY <1>2, <1>3 DEF ServeStatus

(* The new process is ready, or it is not.                                 *)
LEMMA ServeRespawnedInv ==
  ASSUME RInv, ServeRespawned
  PROVE  RInv'
<1>1. /\ server = "respawn" /\ EndsTypeOK
      /\ UNCHANGED <<processVars, clientVars, up, down, lost>>
      /\ UNCHANGED <<client, event, asked, answers>>
  BY DEF ServeRespawned, RInv, clientVars
<1>2. CASE Close
  BY <1>1, <1>2, CloseInv
<1>3. CASE method = "ok" /\ Goto("serve") /\ EndCall /\ UNCHANGED handleVars
  <2>1. server' = "serve"
    BY <1>3 DEF Goto
  <2>2. EndsTypeOK'
    BY <1>1, <2>1, ServerTypes
  <2>3. ROwn'
    BY <1>1, <1>3, <2>1, ServeOwn
  <2>4. \A p : Requested(p) => Requested(p)'
    BY <1>1, <2>1 DEF Requested
  <2>5. Announced => Announced'
    BY <1>1, <2>1 DEF Announced
  <2>6. LastAsked' = LastAsked
    BY <1>1 DEF LastAsked
  <2>7. Connection'
    BY <1>1, <2>1, <2>4, <2>5, <2>6 DEF RInv, Connection, Wire
  <2> QED BY <2>2, <2>3, <2>7 DEF RInv
<1> QED BY <1>2, <1>3 DEF ServeRespawned

(* Every step of the server preserves the invariant.                       *)
LEMMA ServerInv ==
  ASSUME RInv, Server \/ VanishServer
  PROVE  RInv'
<1>1. CASE ServeStopped \/ VanishServer
  BY <1>1, CloseInv DEF ServeStopped, VanishServer
<1> QED
  BY <1>1, ServeSetupInv, ServeReadyInv, ServeRequestInv, ServeWorkedInv, ServeErrorInv,
     ServeEventInv, ServeStatusInv, ServeRespawnedInv DEF Server

-----------------------------------------------------------------------------
(* The theorems.                                                           *)

(* The invariant holds at first.                                           *)
LEMMA InitInv == RemoteInit => RInv
<1> SUFFICES ASSUME RemoteInit PROVE RInv
  OBVIOUS
<1>1. /\ handle = NoPid /\ child = NoPid /\ method = "none" /\ server = "setup"
      /\ arg = NoPath /\ result = NoPath /\ spent = FALSE
      /\ pc = [k \in Pid |-> "none"] /\ task = [k \in Pid |-> NoPath]
      /\ in = [k \in Pid |-> << >>] /\ out = [k \in Pid |-> << >>]
  BY DEF RemoteInit, ProcessInit
<1>2. EndsTypeOK
  <2>1. << >> \in Seq(Messages) /\ << >> \in Seq(Replies) /\ Len(<< >>) = 0
    OBVIOUS
  <2>2. << >> \in Seq(Path) /\ << >> \in Seq(Path \cup {Failed})
    OBVIOUS
  <2>3. /\ client = "connect" /\ up = << >> /\ down = << >> /\ lost = FALSE
        /\ event = NoPath /\ asked = << >> /\ answers = << >>
    BY DEF RemoteInit
  <2>4. /\ up \in Seq(Messages) /\ down \in Seq(Replies)
        /\ asked \in Seq(Path) /\ answers \in Seq(Path \cup {Failed})
    BY <2>1, <2>2, <2>3
  <2>5. /\ Len(up) <= 1 /\ Len(down) <= 2
        /\ Len(answers) <= Len(asked) /\ Len(asked) <= MaxWork
    BY <2>1, <2>3, WorkerAssumption
  <2> QED BY <1>1, <2>3, <2>4, <2>5 DEF EndsTypeOK
<1>3. Task = "gone"
  BY <1>1 DEF Task
<1>4. L!LocalTypeOK
  <2>1. << >> \in Seq(L!Messages)
    OBVIOUS
  <2>2. "none" \in L!Places /\ "none" \in L!Methods
    BY DEF L!Places, L!Methods
  <2>3. L!ProcessTypeOK
    BY <1>1, <2>1, <2>2, SameCalls DEF L!ProcessTypeOK
  <2>4. "gone" \in L!Clients /\ method \in L!Doing("gone") /\ ~L!Spawning
    BY <1>1 DEF L!Clients, L!Doing, L!Spawning
  <2>5. Current \in Seq(Path) /\ << >> \in Seq(Path \cup {L!Failed})
    BY DEF Current
  <2> QED BY <1>1, <1>3, <2>3, <2>4, <2>5, SameCalls DEF L!LocalTypeOK
<1>5. L!Solo /\ L!Fresh
  <2>1. NoPid \notin Pid
    BY DEF NoPid, Pid
  <2> QED BY <1>1, <2>1, SameCalls DEF L!Solo, L!Fresh, L!Alive
<1>6. L!Conversation /\ L!Faithful
  BY <1>1, <1>3 DEF L!Conversation, L!Faithful, L!Running
<1>7. ServerHolds /\ Unspent
  BY <1>1 DEF ServerHolds, Unspent
<1>8. Connection
  BY DEF RemoteInit, Connection, Wire
<1> QED BY <1>2, <1>4, <1>5, <1>6, <1>7, <1>8 DEF RInv, ROwn, L!Inv

(* Every step preserves it.                                                *)
LEMMA NextInv == RInv /\ [RemoteNext]_vars => RInv'
<1> SUFFICES ASSUME RInv, [RemoteNext]_vars PROVE RInv'
  OBVIOUS
<1>1. CASE UNCHANGED vars
  <2>1. /\ UNCHANGED <<client, event, asked, answers, server, up, down, lost, arg>>
        /\ UNCHANGED workerVars
    BY <1>1 DEF vars, workerVars, callVars, remoteVars, clientVars
  <2>2. EndsTypeOK' /\ Connection'
    BY <2>1 DEF RInv, EndsTypeOK, Connection, Wire, Requested, Announced, LastAsked
  <2> QED BY <2>1, <2>2, OwnStays DEF RInv
<1>2. CASE (Method \/ \E k \in Pid : Process(k) \/ Crash(k)) /\ UNCHANGED remoteVars
  BY <1>2, InsideInv
<1>3. CASE ConnectRemote \/ Client \/ (\E p \in Path : AskRemote(p))
  BY <1>3, ConnectInv, ReadyInv, ReadEventInv, ReadStatusInv, AskInv DEF Client
<1>4. CASE StopRemote \/ VanishMaster \/ Lose
  BY <1>4, LeaveInv
<1>5. CASE Server \/ VanishServer
  BY <1>5, ServerInv
<1> QED BY <1>1, <1>2, <1>3, <1>4, <1>5 DEF RemoteNext

(* The invariant always holds.                                             *)
LEMMA InvCorrect == RemoteSpec => []RInv
BY InitInv, NextInv, PTL DEF RemoteSpec

(* Every variable keeps its type; at most one request and two replies are  *)
(* on their way, and no call is answered twice.                            *)
THEOREM RemoteTypes == RemoteSpec => []RemoteTypeOK
<1>1. ASSUME RInv PROVE RemoteTypeOK
  <2>1. ProcessTypeOK /\ EndsTypeOK
    BY <1>1, SameTypes DEF RInv, ROwn
  <2>2. Len(up) <= 2
    BY <2>1 DEF EndsTypeOK
  <2>3. \A i \in 1..Len(down) : down[i] \in Replies
    BY <2>1 DEF EndsTypeOK
  <2> QED BY <2>1, <2>2, <2>3 DEF RemoteTypeOK, EndsTypeOK, Replies
<1> QED BY <1>1, InvCorrect, PTL

(* However its processes and the connection fail, the server never awaits  *)
(* the stderr of a process a second time.                                  *)
THEOREM NeverPanics == RemoteSpec => []ServerNeverPanics
<1>1. ASSUME RInv PROVE ServerNeverPanics
  <2>1. EndsTypeOK /\ L!Inv /\ Unspent
    BY <1>1 DEF RInv, ROwn
  <2>2. server # "stop" => method # "panicked"
    BY <2>1, Owns DEF EndsTypeOK
  <2> QED BY <2>1, <2>2 DEF Unspent, ServerNeverPanics
<1> QED BY <1>1, InvCorrect, PTL

(* The remote machine runs one evaluator for each connection, also while   *)
(* it replaces one that reached its memory limit.                          *)
THEOREM OneServed == RemoteSpec => []OneProcess
<1>1. ASSUME RInv PROVE OneProcess
  <2> DEFINE Living == {k \in Pid : Alive(k)}
  <2>1. \A i, j \in Living : i = j
    BY <1>1, SameCalls DEF RInv, ROwn, L!Inv, L!Solo, L!Alive, Alive
  <2>2. CASE Living = {}
    BY <2>2, FS_EmptySet DEF OneProcess
  <2>3. ASSUME NEW k \in Living PROVE OneProcess
    <3>1. Living = {k}
      BY <2>1, <2>3
    <3>2. Cardinality(Living) = 1
      BY <3>1, FS_Singleton
    <3> QED BY <3>2 DEF OneProcess
  <2> QED BY <2>2, <2>3
<1> QED BY <1>1, InvCorrect, PTL

(* The phase in which each state of the client is.                         *)
LEMMA Phases ==
  /\ client \in {"connect", "handshake"} => Phase = "connecting"
  /\ client = "idle" => Phase = "idle"
  /\ client \in {"event", "status"} => Phase = "busy"
  /\ client = "broken" => Phase = "broken"
  /\ client = "gone" => Phase = "gone"
BY DEF Phase

(* The same after a step.                                                  *)
LEMMA PhasesNext ==
  /\ client' \in {"connect", "handshake"} => Phase' = "connecting"
  /\ client' = "idle" => Phase' = "idle"
  /\ client' \in {"event", "status"} => Phase' = "busy"
  /\ client' = "broken" => Phase' = "broken"
  /\ client' = "gone" => Phase' = "gone"
BY DEF Phase

(* The service starts when the client does,                                *)
LEMMA ServiceInit == RemoteInit => Service!ServiceInit
BY Phases DEF RemoteInit, Service!ServiceInit

(* and every step of either end is one of the service, or none.            *)
LEMMA ServiceStep ==
  RInv /\ [RemoteNext]_vars => [Service!ServiceNext]_(Service!serviceVars)
<1> SUFFICES ASSUME RInv, [RemoteNext]_vars
             PROVE  [Service!ServiceNext]_(Service!serviceVars)
  OBVIOUS
<1> USE Phases, PhasesNext DEF Service!ServiceNext, Service!Failed, Failed
<1>1. CASE UNCHANGED clientVars
  BY <1>1 DEF clientVars, Phase, Service!serviceVars
<1>2. CASE ConnectRemote
  BY <1>2 DEF ConnectRemote, Service!Leave, Service!serviceVars
<1>3. CASE ReadyRemote
  BY <1>3 DEF ReadyRemote, Service!Connect, Service!Leave
<1>4. ASSUME NEW p \in Path, AskRemote(p) PROVE Service!Ask(p)
  BY <1>4 DEF AskRemote, Service!Ask
<1>5. CASE ReadEventRemote
  BY <1>5 DEF ReadEventRemote, FailWork, Service!Fail, Service!serviceVars
<1>6. CASE ReadStatusRemote
  <2>1. client = "status" => event = LastAsked
    BY DEF RInv, Connection
  <2> QED
    BY <1>6, <2>1
    DEF ReadStatusRemote, FailWork, LastAsked, Service!Answer, Service!Fail
<1>7. CASE StopRemote
  BY <1>7 DEF StopRemote, Service!Leave
<1>8. CASE VanishMaster
  <2>1. client \in {"connect", "handshake", "idle", "event", "status", "broken"}
    BY <1>8 DEF VanishMaster, ClientLeft, RInv, EndsTypeOK
  <2> QED BY <1>8, <2>1 DEF VanishMaster, Service!Leave
<1>9. CASE Server \/ VanishServer \/ Lose
  BY <1>1, <1>9 DEF Server, ServeSetup, ServeReady, ServeRequest, ServeWorked, ServeError,
     ServeEvent, ServeStatus, ServeRespawned, ServeStopped, VanishServer, Lose
<1> QED
  BY <1>1, <1>2, <1>3, <1>4, <1>5, <1>6, <1>7, <1>8, <1>9
  DEF RemoteNext, Client, vars, remoteVars

(* A remote connection behaves exactly as a local worker does: whatever    *)
(* dies or is lost on either machine, each call is answered by the event   *)
(* for its own path or fails, in the order of the calls, and nothing is    *)
(* answered after a failure.                                               *)
THEOREM RemoteServes == RemoteSpec => RemoteImplementsService
<1>1. RemoteSpec => Service!ServiceSpec
  BY ServiceInit, ServiceStep, InvCorrect, PTL DEF RemoteSpec, Service!ServiceSpec
<1> QED BY <1>1 DEF RemoteImplementsService
=============================================================================
