---------------------------- MODULE LocalProofs ----------------------------
(***************************************************************************)
(* Proofs about LocalWorker, for any number of paths, calls and processes, *)
(* whatever fails, crashes or vanishes.                                    *)
(***************************************************************************)
EXTENDS LocalWorker, FiniteSetTheorems, SequenceTheorems, TLAPS

-----------------------------------------------------------------------------
(* The inductive invariant.                                                *)

(* Which methods may run for each state of the worker task.                *)
Doing(c) ==
  CASE c = "connect" -> {"spawn", "setup", "handshake", "ok", "err"}
    [] c = "work"    -> {"write", "event", "status", "exit", "ok", "err"}
    [] c = "respawn" -> {"restart", "spawn", "setup", "handshake", "ok", "err"}
    [] c = "stop"    -> {"stop", "stopwait", "ok", "panicked"}
    [] c \in {"idle", "broken", "gone", "panicked"} -> {"none"}

Clients == {"connect", "idle", "work", "respawn", "broken", "stop", "gone", "panicked"}

Spawning == method \in {"setup", "handshake"}

LocalTypeOK ==
  /\ ProcessTypeOK
  /\ client \in Clients /\ method \in Doing(client)
  /\ asked \in Seq(Path) /\ answers \in Seq(Path \cup {Failed})
  /\ IF Spawning THEN child \in Pid ELSE child = NoPid

(* At most one process is alive; while one is being spawned, it is that    *)
(* one, and until the task ends it is the one that the task holds.         *)
Solo ==
  /\ \A i, j \in Pid : Alive(i) /\ Alive(j) => i = j
  /\ \A k \in Pid : Alive(k) =>
       CASE Running("spawn") -> FALSE
         [] Spawning         -> k = child
         [] ~Running("spawn") /\ ~Spawning ->
              k = handle \/ client \in {"gone", "panicked"}

(* The pipes of a process that was never started are empty.                *)
Fresh ==
  /\ \A k \in Pid : pc[k] = "none" => in[k] = << >> /\ out[k] = << >>
  /\ \A k \in Pid : k \in {handle, child} => pc[k] # "none"

(* What is in the pipes of k, and what it does,                            *)
(* before it is ready,                                                     *)
Starting(k) ==
  \/ pc[k] = "setup" /\ in[k] = <<Setup>> /\ out[k] = << >>
  \/ pc[k] = "init" /\ in[k] = << >> /\ out[k] = << >>
  \/ pc[k] = "read" /\ in[k] = << >> /\ out[k] = <<Ready>>
  \/ pc[k] = "exited" /\ out[k] \in {<< >>, <<Ready>>}

(* when it has nothing to do, or leaves,                                   *)
Quiet(k) ==
  /\ out[k] = << >>
  /\ \/ pc[k] \in {"read", "leaving"} /\ in[k] = << >>
     \/ pc[k] = "exited"

(* when it was asked about p,                                              *)
EventFor(p) == {Event(p), Unreadable}

Waiting(k, p) ==
  \/ pc[k] \in {"read", "leaving"} /\ in[k] = <<Work(p)>> /\ out[k] = << >>
  \/ pc[k] = "eval" /\ task[k] = p /\ in[k] = << >> /\ out[k] = << >>
  \/ /\ pc[k] = "memory" /\ in[k] = << >>
     /\ \E m \in EventFor(p) : out[k] = <<m>>
  \/ /\ pc[k] \in {"read", "leaving"} /\ in[k] = << >>
     /\ \E m \in EventFor(p), h \in {"statusReady", "statusRestart"} :
          out[k] = <<m, Status(h)>>
  \/ /\ pc[k] = "exited"
     /\ \/ out[k] = << >>
        \/ \E m \in EventFor(p) : out[k] = <<m>>
        \/ \E m \in EventFor(p), h \in {"statusReady", "statusRestart"} :
             out[k] = <<m, Status(h)>>

(* and when its event has been read.                                       *)
Reported(k) ==
  \/ pc[k] = "memory" /\ in[k] = << >> /\ out[k] = << >>
  \/ /\ pc[k] \in {"read", "leaving"} /\ in[k] = << >>
     /\ \E h \in {"statusReady", "statusRestart"} : out[k] = <<Status(h)>>
  \/ /\ pc[k] = "exited"
     /\ \/ out[k] = << >>
        \/ \E h \in {"statusReady", "statusRestart"} : out[k] = <<Status(h)>>

Conversation ==
  /\ Running("setup") =>
       pc[child] \in {"setup", "exited"} /\ in[child] = << >> /\ out[child] = << >>
  /\ Running("handshake") => Starting(child)
  /\ Running("write") => Quiet(handle)
  /\ Running("event") => Waiting(handle, arg)
  /\ Running("status") => Reported(handle)

LastAsked == asked[Len(asked)]

(* What the task has been told is what it asked.                           *)
Faithful ==
  /\ client \in {"connect", "respawn"} /\ Running("ok") => handle \in Pid /\ Quiet(handle)
  /\ client = "idle" => handle \in Pid /\ Quiet(handle)
  /\ client = "work" => handle \in Pid /\ arg = LastAsked
  /\ client = "work" /\ method \in {"status", "ok"} => result = LastAsked
  /\ client = "work" /\ Running("ok") => Quiet(handle)
  /\ client = "respawn" => result = LastAsked
  /\ client \in {"respawn", "broken", "stop"} => handle \in Pid
  /\ client \in {"work", "respawn"} => asked # << >>

Inv == LocalTypeOK /\ Solo /\ Fresh /\ Conversation /\ Faithful

-----------------------------------------------------------------------------
(* Sequences and messages.                                                 *)

(* Short queues.                                                           *)
LEMMA Short ==
  ASSUME NEW x, NEW y
  PROVE  /\ Head(<<x>>) = x /\ Tail(<<x>>) = << >> /\ <<x>> # << >>
         /\ Head(<<x, y>>) = x /\ Tail(<<x, y>>) = <<y>> /\ <<x, y>> # << >>
         /\ Append(<< >>, x) = <<x>> /\ Append(<<x>>, y) = <<x, y>>
<1>1. Head(<<x>>) = x /\ Head(<<x, y>>) = x
  OBVIOUS
<1>2. Tail(<<x>>) = << >>
  OBVIOUS
<1>3. Tail(<<x, y>>) = <<y>>
  OBVIOUS
<1>4. <<x>> # << >> /\ <<x, y>> # << >>
  OBVIOUS
<1>5. Append(<< >>, x) = <<x>>
  OBVIOUS
<1>6. Append(<<x>>, y) = <<x, y>>
  <2>1. <<x>> \in Seq({x, y}) /\ <<x, y>> \in Seq({x, y})
    OBVIOUS
  <2>2. Append(<<x>>, y) \in Seq({x, y}) /\ Len(Append(<<x>>, y)) = 2
    BY <2>1
  <2>3. Append(<<x>>, y)[1] = x /\ Append(<<x>>, y)[2] = y
    OBVIOUS
  <2>4. Len(<<x, y>>) = 2 /\ <<x, y>>[1] = x /\ <<x, y>>[2] = y
    OBVIOUS
  <2>5. \A i \in 1..2 : Append(<<x>>, y)[i] = <<x, y>>[i]
    <3>1. \A i \in 1..2 : i = 1 \/ i = 2
      OBVIOUS
    <3> QED BY <3>1, <2>3, <2>4, Zenon
  <2> QED BY <2>1, <2>2, <2>4, <2>5, SeqEqual, Zenon
<1> QED BY <1>1, <1>2, <1>3, <1>4, <1>5, <1>6

(* What Append does.                                                       *)
LEMMA Appended ==
  ASSUME NEW S, NEW s \in Seq(S), NEW e \in S
  PROVE  /\ Append(s, e) \in Seq(S) /\ Append(s, e) # << >>
         /\ Append(s, e)[Len(Append(s, e))] = e
OBVIOUS

(* What Head and Tail are.                                                 *)
LEMMA Taken ==
  ASSUME NEW S, NEW s \in Seq(S), s # << >>
  PROVE  Head(s) \in S /\ Tail(s) \in Seq(S)
OBVIOUS

(* Messages are told apart by their types.                                 *)
LEMMA Types ==
  /\ Setup.type = "setup" /\ Ready.type = "ready" /\ Unreadable.type = "unreadable"
  /\ \A p : Work(p).type = "work" /\ Work(p).path = p
  /\ \A p : Event(p).type = "event" /\ Event(p).path = p
  /\ \A h : Status(h).type = h
BY DEF Setup, Ready, Unreadable, Work, Event, Status, Msg

(* What is written and read are messages.                                  *)
LEMMA AreMessages ==
  /\ Setup \in Messages /\ Ready \in Messages /\ Unreadable \in Messages
  /\ Shutdown \in Messages
  /\ \A p \in Path \cup {NoPath} : Work(p) \in Messages /\ Event(p) \in Messages
  /\ Status("statusReady") \in Messages /\ Status("statusRestart") \in Messages
  /\ << >> \in Seq(Messages)
  /\ \A m \in Messages : m.path \in Path \cup {NoPath}
<1>1. ASSUME NEW t \in {"setup", "shutdown", "work", "ready", "event", "unreadable",
                       "statusReady", "statusRestart"},
             NEW p \in Path \cup {NoPath}
      PROVE  Msg(t, p) \in Messages
  BY DEF Messages
<1>2. \A m \in Messages : m.path \in Path \cup {NoPath}
  BY DEF Messages, Msg
<1>3. << >> \in Seq(Messages)
  OBVIOUS
<1> QED BY <1>1, <1>2, <1>3 DEF Setup, Ready, Unreadable, Shutdown, Work, Event, Status

(* What the sets of places and methods contain.                            *)
LEMMA Members ==
  /\ \A q \in {"setup", "init", "read", "eval", "memory", "leaving", "exited"} :
       q \in Places /\ q # "none"
  /\ "none" \in Places
  /\ \A m \in {"none", "spawn", "setup", "handshake", "write", "event", "status",
               "exit", "restart", "stop", "stopwait", "ok", "err", "panicked"} :
       m \in Methods
BY DEF Places, Methods

(* NoPid is not a process.                                                 *)
LEMMA NoProcess == NoPid \notin Pid
BY DEF NoPid, Pid

-----------------------------------------------------------------------------
(* The processes.                                                          *)

(* What a process writes is a message, in its own pipe.                    *)
LEMMA Writes ==
  ASSUME ProcessTypeOK, NEW k \in Pid, NEW m \in Messages, NEW q \in Places \ {"none"},
         Write(k, m, q)
  PROVE  /\ task' = task /\ in' = in /\ out' \in [Pid -> Seq(Messages)]
         /\ \A j \in Pid \ {k} : out'[j] = out[j]
         /\ \E r \in Places \ {"none"} : pc' = [pc EXCEPT ![k] = r]
<1>1. CASE ~Owned(k)
  BY <1>1, Members DEF Write, Exit, Become, ProcessTypeOK
<1>2. CASE Owned(k)
  <2>1. Append(out[k], m) \in Seq(Messages)
    BY Appended DEF ProcessTypeOK
  <2> QED BY <1>2, <2>1 DEF Write, Become, ProcessTypeOK
<1> QED BY <1>1, <1>2

(* A process that does something is alive, and touches its own state only. *)
LEMMA ProcessMoves ==
  ASSUME ProcessTypeOK, NEW k \in Pid, Process(k) \/ Crash(k)
  PROVE  /\ Alive(k) /\ ProcessTypeOK' /\ UNCHANGED <<handleVars, callVars>>
         /\ \E r \in Places \ {"none"} : pc' = [pc EXCEPT ![k] = r]
         /\ \A j \in Pid \ {k} :
              task'[j] = task[j] /\ in'[j] = in[j] /\ out'[j] = out[j]
<1> USE Members, AreMessages
<1>1. CASE ProcReads(k)
  <2>1. CASE in[k] # << >>
    <3>1. Head(in[k]) \in Messages /\ Tail(in[k]) \in Seq(Messages)
      BY <2>1, Taken DEF ProcessTypeOK
    <3>2. Understood(k, Head(in[k])) \in Places \ {"none"}
      BY DEF Understood
    <3>3. in' = [in EXCEPT ![k] = Tail(in[k])] \/ in' = in
      BY <1>1 DEF ProcReads, Exit
    <3>4. \/ task' = [task EXCEPT ![k] = Head(in[k]).path]
          \/ task' = task
      BY <1>1 DEF ProcReads, Exit
    <3>5. \E r \in Places \ {"none"} : pc' = [pc EXCEPT ![k] = r]
      BY <1>1, <3>2 DEF ProcReads, Exit, Become
    <3>6. out' = out /\ Alive(k) /\ UNCHANGED <<handleVars, callVars>>
      BY <1>1 DEF ProcReads, Exit, Alive
    <3> QED
      BY <3>1, <3>3, <3>4, <3>5, <3>6, ZenonT(60) DEF ProcessTypeOK, handleVars, callVars
  <2>2. CASE Exit(k)
    BY <1>1, <2>2
    DEF ProcReads, Exit, Become, Alive, ProcessTypeOK, handleVars, callVars
  <2> QED BY <1>1, <2>1, <2>2 DEF ProcReads
<1>2. CASE ProcInit(k) \/ ProcEvaluates(k) \/ ProcReports(k)
  <2>1. Alive(k) /\ UNCHANGED <<handleVars, callVars>>
    BY <1>2 DEF ProcInit, ProcEvaluates, ProcReports, Alive
  <2>2. \/ Exit(k)
        \/ \E m \in Messages, q \in Places \ {"none"} : Write(k, m, q)
    BY <1>2 DEF ProcInit, ProcEvaluates, ProcReports, AfterRestart, ProcessTypeOK
  <2>3. CASE Exit(k)
    BY <2>1, <2>3 DEF Exit, Become, ProcessTypeOK, handleVars, callVars
  <2>4. ASSUME NEW m \in Messages, NEW q \in Places \ {"none"}, Write(k, m, q)
        PROVE  /\ task' = task /\ in' = in /\ out' \in [Pid -> Seq(Messages)]
               /\ \A j \in Pid \ {k} : out'[j] = out[j]
               /\ \E r \in Places \ {"none"} : pc' = [pc EXCEPT ![k] = r]
    BY <2>4, Writes
  <2> QED BY <2>1, <2>2, <2>3, <2>4, ZenonT(60) DEF ProcessTypeOK, handleVars, callVars
<1>3. CASE ProcLeaves(k) \/ Crash(k)
  BY <1>3 DEF ProcLeaves, Crash, Exit, Become, Alive, ProcessTypeOK, handleVars,
     callVars
<1> QED BY <1>1, <1>2, <1>3 DEF Process

(* An owned process keeps to the protocol, whatever it does.               *)
LEMMA ProcessTalks ==
  ASSUME ProcessTypeOK, NEW k \in Pid, Owned(k), Process(k) \/ Crash(k), NEW p
  PROVE  /\ Starting(k) => Starting(k)'
         /\ Quiet(k) => Quiet(k)'
         /\ Waiting(k, p) => Waiting(k, p)'
         /\ Reported(k) => Reported(k)'
<1> USE DEF ProcessTypeOK
<1>1. CASE Exit(k)
  BY <1>1 DEF Exit, Become, Starting, Quiet, Waiting, Reported
<1>2. CASE ProcReads(k) /\ ~Exit(k)
  <2>1. /\ in[k] # << >> /\ pc[k] \in {"setup", "read"}
        /\ in'[k] = Tail(in[k]) /\ out'[k] = out[k]
        /\ task'[k] = Head(in[k]).path /\ pc'[k] = Understood(k, Head(in[k]))
    BY <1>2 DEF ProcReads, Become
  <2>2. ASSUME Starting(k) PROVE Starting(k)'
    <3>1. pc[k] = "setup" /\ in[k] = <<Setup>> /\ out[k] = << >>
      BY <2>1, <2>2 DEF Starting
    <3>2. pc'[k] = "init" /\ in'[k] = << >> /\ out'[k] = << >>
      BY <2>1, <3>1, Short DEF Understood
    <3> QED BY <3>2 DEF Starting
  <2>3. ASSUME Waiting(k, p) PROVE Waiting(k, p)'
    <3>1. pc[k] = "read" /\ in[k] = <<Work(p)>> /\ out[k] = << >>
      BY <2>1, <2>3 DEF Waiting
    <3>2. Head(in[k]) = Work(p) /\ Tail(in[k]) = << >>
      BY <3>1, Short
    <3>3. pc'[k] = "eval" /\ task'[k] = p /\ in'[k] = << >> /\ out'[k] = << >>
      BY <2>1, <3>1, <3>2, Types DEF Understood
    <3> QED BY <3>3 DEF Waiting
  <2> QED BY <2>1, <2>2, <2>3 DEF Quiet, Reported
<1>3. CASE ProcInit(k) /\ ~Exit(k)
  <2>1. /\ pc[k] = "init" /\ pc'[k] = "read" /\ in'[k] = in[k]
        /\ out'[k] = Append(out[k], Ready)
    BY <1>3 DEF ProcInit, Write, Become
  <2> QED BY <2>1, Short DEF Starting, Quiet, Waiting, Reported
<1>4. CASE ProcEvaluates(k) /\ ~Exit(k)
  <2>1. PICK m \in EventFor(task[k]) :
          /\ pc[k] = "eval" /\ pc'[k] = "memory" /\ in'[k] = in[k]
          /\ out'[k] = Append(out[k], m)
    BY <1>4 DEF ProcEvaluates, Write, Become, EventFor
  <2>2. ASSUME Waiting(k, p) PROVE Waiting(k, p)'
    <3>1. task[k] = p /\ in[k] = << >> /\ out[k] = << >>
      BY <2>1, <2>2 DEF Waiting
    <3>2. out'[k] = <<m>> /\ m \in EventFor(p)
      BY <2>1, <3>1, Short
    <3> QED BY <2>1, <3>1, <3>2 DEF Waiting
  <2> QED BY <2>1, <2>2 DEF Starting, Quiet, Reported
<1>5. CASE ProcReports(k) /\ ~Exit(k)
  <2>1. PICK h \in {"statusReady", "statusRestart"} :
          /\ pc[k] = "memory" /\ pc'[k] \in {"read", "leaving"} /\ in'[k] = in[k]
          /\ out'[k] = Append(out[k], Status(h))
    BY <1>5 DEF ProcReports, Write, Become, AfterRestart
  <2>2. ASSUME Waiting(k, p) PROVE Waiting(k, p)'
    <3>1. PICK m \in EventFor(p) : out[k] = <<m>> /\ in[k] = << >>
      BY <2>1, <2>2 DEF Waiting
    <3>2. out'[k] = <<m, Status(h)>>
      BY <2>1, <3>1, Short
    <3> QED BY <2>1, <3>1, <3>2 DEF Waiting
  <2> QED BY <2>1, <2>2, Short DEF Starting, Quiet, Reported
<1>6. CASE ProcLeaves(k) \/ Crash(k)
  BY <1>1, <1>6 DEF ProcLeaves, Crash
<1> QED BY <1>1, <1>2, <1>3, <1>4, <1>5, <1>6 DEF Process

(* A process that does something preserves the invariant.                  *)
LEMMA ProcessInv ==
  ASSUME Inv, NEW k \in Pid, Process(k) \/ Crash(k), UNCHANGED localVars
  PROVE  Inv'
<1>1. /\ Alive(k) /\ ProcessTypeOK' /\ UNCHANGED <<handleVars, callVars>>
      /\ \A j \in Pid \ {k} :
           task'[j] = task[j] /\ in'[j] = in[j] /\ out'[j] = out[j]
  BY ProcessMoves DEF Inv, LocalTypeOK
<1>2. PICK r \in Places \ {"none"} : pc' = [pc EXCEPT ![k] = r]
  BY ProcessMoves DEF Inv, LocalTypeOK
<1>3. /\ pc'[k] # "none" /\ pc[k] # "none" /\ \A j \in Pid \ {k} : pc'[j] = pc[j]
      /\ \A j \in Pid : Alive(j)' => Alive(j)
  BY <1>1, <1>2 DEF Inv, LocalTypeOK, ProcessTypeOK, Alive
<1>4. /\ handle' = handle /\ spent' = spent /\ method' = method /\ arg' = arg
      /\ child' = child /\ result' = result /\ status' = status
      /\ client' = client /\ asked' = asked /\ answers' = answers
  BY <1>1 DEF handleVars, callVars, localVars
<1>5. LocalTypeOK'
  BY <1>1, <1>4 DEF Inv, LocalTypeOK, Spawning
<1>6. Solo'
  BY <1>3, <1>4 DEF Inv, Solo, Running, Spawning
<1>7. Fresh'
  BY <1>1, <1>3, <1>4 DEF Inv, Fresh
<1>8. ASSUME NEW j \in Pid, NEW p, j \in {handle, child}
      PROVE  /\ Starting(j) => Starting(j)'
             /\ Quiet(j) => Quiet(j)'
             /\ Waiting(j, p) => Waiting(j, p)'
             /\ Reported(j) => Reported(j)'
  <2>1. CASE j = k
    BY <1>8, <2>1, ProcessTalks DEF Inv, LocalTypeOK, Owned
  <2>2. CASE j # k
    BY <1>1, <1>3, <2>2 DEF Starting, Quiet, Waiting, Reported
  <2> QED BY <2>1, <2>2
<1>9. Conversation'
  <2>1. ASSUME Running("setup")
        PROVE  pc'[child] \in {"setup", "exited"} /\ in'[child] = << >> /\ out'[child] = << >>
    <3>1. /\ child \in Pid /\ pc[child] \in {"setup", "exited"}
          /\ in[child] = << >> /\ out[child] = << >>
      BY <2>1 DEF Inv, LocalTypeOK, Spawning, Running, Conversation
    <3>2. CASE k = child
      <4>1. pc[k] = "setup" /\ in[k] = << >> /\ Owned(k)
        BY <1>1, <3>1, <3>2 DEF Alive, Owned
      <4>2. Exit(k)
        BY <4>1 DEF Process, ProcReads, InputEnds, ProcInit, ProcEvaluates, ProcReports,
           ProcLeaves, Crash
      <4> QED BY <3>1, <3>2, <4>2 DEF Exit, Become, Inv, LocalTypeOK, ProcessTypeOK
    <3>3. CASE k # child
      BY <1>1, <1>3, <3>1, <3>3
    <3> QED BY <3>2, <3>3
  <2>2. Running("handshake") => child \in Pid
    BY DEF Inv, LocalTypeOK, Spawning, Running
  <2>3. method \in {"write", "event", "status"} => handle \in Pid
    BY DEF Inv, LocalTypeOK, Faithful, Doing, Clients
  <2> QED BY <1>4, <1>8, <2>1, <2>2, <2>3, SMTT(30) DEF Inv, Conversation, Running
<1>10. Faithful'
  BY <1>4, <1>8 DEF Inv, Faithful, Running, LastAsked
<1> QED BY <1>5, <1>6, <1>7, <1>9, <1>10 DEF Inv

-----------------------------------------------------------------------------
(* The methods.                                                            *)

(* What an owner writes is a message, and goes into that pipe only.        *)
LEMMA OwnerWrites ==
  ASSUME ProcessTypeOK, NEW k \in Pid, NEW m \in Messages, Written(k, m)
  PROVE  /\ in' \in [Pid -> Seq(Messages)] /\ UNCHANGED <<pc, task, out>>
         /\ in'[k] = IF Exited(k) THEN in[k] ELSE Append(in[k], m)
         /\ \A j \in Pid \ {k} : in'[j] = in[j]
<1>1. Append(in[k], m) \in Seq(Messages)
  BY Appended DEF ProcessTypeOK
<1> QED BY <1>1 DEF Written, ProcessTypeOK

(* What an owner reads it takes from that pipe only.                       *)
LEMMA OwnerReads ==
  ASSUME ProcessTypeOK, NEW k \in Pid, Reads(k)
  PROVE  /\ out' \in [Pid -> Seq(Messages)] /\ UNCHANGED <<pc, task, in>>
         /\ out[k] # << >> /\ Message(k) \in Messages /\ out'[k] = Tail(out[k])
         /\ \A j \in Pid \ {k} : out'[j] = out[j]
<1>1. Head(out[k]) \in Messages /\ Tail(out[k]) \in Seq(Messages) /\ out[k] # << >>
  BY Taken DEF Reads, ProcessTypeOK
<1> QED BY <1>1 DEF Reads, Message, ProcessTypeOK

(* A new process is the only one.                                          *)
LEMMA SpawnChildInv ==
  ASSUME Inv, SpawnChild, UNCHANGED localVars
  PROVE  Inv'
<1> USE DEF Running
<1>1. /\ method = "spawn" /\ child = NoPid /\ client \in {"connect", "respawn"}
      /\ \A j \in Pid : ~Alive(j)
  BY DEF Inv, LocalTypeOK, Solo, Spawning, SpawnChild, Doing, Clients
<1>2. UNCHANGED <<handle, spent, arg, result, status, client, asked, answers, task, in, out>>
  BY DEF SpawnChild, CallAt, handleVars, processVars, localVars
<1>3. CASE CallAt("err") /\ UNCHANGED processVars
  <2>1. method' = "err" /\ child' = child /\ pc' = pc
    BY <1>3 DEF CallAt, processVars
  <2>2. LocalTypeOK'
    BY <1>1, <1>2, <2>1, Members DEF Inv, LocalTypeOK, ProcessTypeOK, Doing, Spawning
  <2> QED
    BY <1>1, <1>2, <2>1, <2>2 DEF Inv, Solo, Alive, Fresh, Conversation, Faithful, LastAsked
<1>4. ASSUME NEW k \in Pid, pc[k] = "none", Become(k, "setup"), child' = k,
             method' = "setup"
      PROVE  Inv'
  <2>1. /\ pc' \in [Pid -> Places] /\ pc'[k] = "setup"
        /\ \A j \in Pid \ {k} : pc'[j] = pc[j]
    BY <1>4, Members DEF Become, Inv, LocalTypeOK, ProcessTypeOK
  <2>2. LocalTypeOK'
    BY <1>1, <1>2, <1>4, <2>1, Members DEF Inv, LocalTypeOK, ProcessTypeOK, Doing, Spawning
  <2>3. Solo'
    BY <1>1, <1>2, <1>4, <2>1 DEF Solo, Alive, Spawning
  <2>4. Fresh'
    BY <1>1, <1>2, <1>4, <2>1 DEF Inv, Fresh
  <2>5. Conversation'
    BY <1>2, <1>4, <2>1 DEF Inv, Fresh, Conversation
  <2>6. Faithful'
    BY <1>1, <1>2, <1>4 DEF Inv, Faithful, LastAsked
  <2> QED BY <2>2, <2>3, <2>4, <2>5, <2>6 DEF Inv
<1> QED BY <1>3, <1>4 DEF SpawnChild

(* Spawning fails: the process that was being spawned is gone.             *)
LEMMA SpawnFailsInv ==
  ASSUME Inv, Spawning, Exited(child), SpawnFails, UNCHANGED <<handleVars, localVars>>,
         UNCHANGED processVars
  PROVE  Inv'
<1> USE DEF Running
<1>1. /\ child \in Pid /\ client \in {"connect", "respawn"}
      /\ \A j \in Pid : ~Alive(j)
  BY DEF Inv, LocalTypeOK, Solo, Spawning, Doing, Clients, Alive, Exited
<1>2. /\ UNCHANGED <<handle, spent, arg, result, status, client, asked, answers>>
      /\ UNCHANGED <<pc, task, in, out>> /\ method' = "err" /\ child' = NoPid
  BY DEF SpawnFails, handleVars, processVars, localVars
<1>3. LocalTypeOK'
  BY <1>1, <1>2, Members DEF Inv, LocalTypeOK, ProcessTypeOK, Doing, Spawning
<1>4. Fresh'
  BY <1>2, NoProcess DEF Inv, Fresh
<1> QED
  BY <1>1, <1>2, <1>3, <1>4 DEF Inv, Solo, Alive, Conversation, Faithful, LastAsked

(* Setup is what the new process expects first.                            *)
LEMMA WriteSetupInv ==
  ASSUME Inv, WriteSetup, UNCHANGED localVars
  PROVE  Inv'
<1> USE DEF Running
<1>1. /\ method = "setup" /\ child \in Pid /\ client \in {"connect", "respawn"}
      /\ pc[child] \in {"setup", "exited"} /\ in[child] = << >> /\ out[child] = << >>
  BY DEF Inv, LocalTypeOK, Spawning, WriteSetup, Doing, Clients, Conversation
<1>2. /\ in' \in [Pid -> Seq(Messages)] /\ UNCHANGED <<pc, task, out>>
      /\ in'[child] = IF Exited(child) THEN in[child] ELSE Append(in[child], Setup)
      /\ \A j \in Pid \ {child} : in'[j] = in[j]
  BY <1>1, OwnerWrites, AreMessages DEF WriteSetup, Inv, LocalTypeOK
<1>3. CASE Exited(child)
  <2>1. in' = in
    BY <1>3 DEF WriteSetup, Written
  <2> QED
    BY <1>1, <1>2, <1>3, <2>1, SpawnFailsInv
    DEF WriteSetup, Spawning, processVars, localVars, handleVars
<1>4. CASE ~Exited(child)
  <2>1. /\ UNCHANGED <<handle, spent, arg, result, status, client, asked, answers, child>>
        /\ method' = "handshake"
    BY <1>4 DEF WriteSetup, CallAt, handleVars, localVars
  <2>2. Starting(child)'
    BY <1>1, <1>2, <1>4, <2>1, Short DEF Exited, Starting
  <2>3. LocalTypeOK'
    BY <1>1, <1>2, <2>1, Members DEF Inv, LocalTypeOK, ProcessTypeOK, Doing, Spawning
  <2>4. Fresh'
    BY <1>1, <1>2, <2>1 DEF Inv, Fresh
  <2>5. Solo'
    BY <1>1, <1>2, <2>1 DEF Inv, Solo, Alive, Spawning
  <2> QED
    BY <1>1, <2>1, <2>2, <2>3, <2>4, <2>5 DEF Inv, Conversation, Faithful, LastAsked
<1> QED BY <1>3, <1>4

(* Ready is the first thing the process says, and it is all it says.       *)
LEMMA ReadReadyInv ==
  ASSUME Inv, ReadReady, UNCHANGED localVars
  PROVE  Inv'
<1> USE DEF Running
<1>1. /\ method = "handshake" /\ child \in Pid /\ client \in {"connect", "respawn"}
      /\ Starting(child) /\ Spawning
  BY DEF Inv, LocalTypeOK, Spawning, ReadReady, Doing, Clients, Conversation
<1>2. CASE AtEnd(child) /\ SpawnFails /\ UNCHANGED handleVars
  BY <1>1, <1>2, SpawnFailsInv DEF AtEnd
<1>3. CASE /\ Reads(child) /\ Message(child) = Ready
           /\ handle' = child /\ spent' = FALSE
           /\ method' = "ok" /\ child' = NoPid
           /\ UNCHANGED <<arg, result, status>>
  <2>1. /\ out' \in [Pid -> Seq(Messages)] /\ UNCHANGED <<pc, task, in>>
        /\ out[child] # << >> /\ out'[child] = Tail(out[child])
        /\ \A j \in Pid \ {child} : out'[j] = out[j]
    BY <1>1, <1>3, OwnerReads DEF Inv, LocalTypeOK
  <2>2. UNCHANGED <<client, asked, answers>>
    BY DEF localVars
  <2>3. /\ out'[child] = << >>
        /\ \/ pc[child] = "read" /\ in[child] = << >>
           \/ pc[child] = "exited"
    BY <1>1, <2>1, Short DEF Starting
  <2>4. Quiet(handle)'
    BY <1>3, <2>1, <2>3 DEF Quiet
  <2>5. LocalTypeOK'
    BY <1>1, <1>3, <2>1, <2>2, Members
    DEF Inv, LocalTypeOK, ProcessTypeOK, Doing, Spawning
  <2>6. Fresh'
    BY <1>1, <1>3, <2>1, <2>3, NoProcess DEF Inv, Fresh
  <2>7. Solo'
    BY <1>1, <1>3, <2>1 DEF Inv, Solo, Alive, Spawning
  <2> QED
    BY <1>1, <1>3, <2>2, <2>4, <2>5, <2>6, <2>7 DEF Inv, Conversation, Faithful, LastAsked
<1> QED BY <1>2, <1>3 DEF ReadReady

(* A path is written to a process that has nothing to do.                  *)
LEMMA WriteWorkInv ==
  ASSUME Inv, WriteWork, UNCHANGED localVars
  PROVE  Inv'
<1> USE DEF Running
<1>1. /\ method = "write" /\ client = "work" /\ handle \in Pid /\ Quiet(handle)
      /\ arg \in Path \cup {NoPath} /\ child = NoPid
  BY DEF Inv, LocalTypeOK, ProcessTypeOK, Spawning, WriteWork, Doing, Clients, Conversation,
     Faithful
<1>2. /\ in' \in [Pid -> Seq(Messages)] /\ UNCHANGED <<pc, task, out>>
      /\ in'[handle] = IF Exited(handle) THEN in[handle] ELSE Append(in[handle], Work(arg))
      /\ \A j \in Pid \ {handle} : in'[j] = in[j]
  BY <1>1, OwnerWrites, AreMessages DEF WriteWork, Inv, LocalTypeOK
<1>3. /\ UNCHANGED <<handle, spent, arg, result, status, client, asked, answers, child>>
      /\ method' = IF Exited(handle) THEN "err" ELSE "event"
  BY DEF WriteWork, CallAt, handleVars, localVars
<1>4. ~Exited(handle) => Waiting(handle, arg)'
  BY <1>1, <1>2, <1>3, Short DEF Exited, Waiting, Quiet
<1>5. LocalTypeOK'
  BY <1>1, <1>2, <1>3, Members DEF Inv, LocalTypeOK, ProcessTypeOK, Doing, Spawning
<1>6. Fresh'
  BY <1>1, <1>2, <1>3 DEF Inv, Fresh
<1>7. Solo'
  BY <1>1, <1>2, <1>3 DEF Inv, Solo, Alive, Spawning
<1> QED
  BY <1>1, <1>3, <1>4, <1>5, <1>6, <1>7 DEF Inv, Conversation, Faithful, LastAsked

(* The rest of work only reads, and ends its call with what it has read.   *)
LEMMA WorkStepInv ==
  ASSUME Inv, client = "work", UNCHANGED <<pc, task, in, handle, arg, child, localVars>>,
         out' \in [Pid -> Seq(Messages)], spent' \in BOOLEAN,
         \A k \in Pid : out[k] = << >> => out'[k] = << >>,
         result' \in Path \cup {NoPath}, method' \in {"status", "exit", "err", "ok"},
         method' = "status" => Reported(handle)' /\ result' = LastAsked,
         method' = "ok" => Quiet(handle)' /\ result' = LastAsked
  PROVE  Inv'
<1> USE DEF Running
<1>1. /\ UNCHANGED <<client, asked, answers>> /\ child = NoPid /\ handle \in Pid
      /\ ~Spawning /\ method # "spawn"
  BY DEF localVars, Inv, LocalTypeOK, Spawning, Doing, Clients, Faithful
<1>2. LocalTypeOK'
  BY <1>1, Members DEF Inv, LocalTypeOK, ProcessTypeOK, Doing, Spawning
<1>3. Solo'
  BY <1>1 DEF Inv, Solo, Alive, Spawning
<1>4. Fresh'
  BY DEF Inv, Fresh
<1>5. Conversation' /\ Faithful'
  BY <1>1 DEF Inv, Conversation, Faithful, LastAsked
<1> QED BY <1>2, <1>3, <1>4, <1>5 DEF Inv

(* The event that is read is the one for the last path asked about.        *)
LEMMA ReadEventInv ==
  ASSUME Inv, ReadEvent, UNCHANGED localVars
  PROVE  Inv'
<1> USE DEF Running
<1>1. /\ method = "event" /\ client = "work" /\ handle \in Pid /\ Waiting(handle, arg)
      /\ arg \in Path \cup {NoPath} /\ arg = LastAsked
      /\ result \in Path \cup {NoPath} /\ spent \in BOOLEAN
      /\ out \in [Pid -> Seq(Messages)]
  BY DEF Inv, LocalTypeOK, ProcessTypeOK, ReadEvent, Doing, Clients, Conversation, Faithful
<1>2. UNCHANGED <<handle, spent, arg, child>>
  BY DEF ReadEvent, CallAt, handleVars
<1>3. CASE AtEnd(handle) /\ CallAt("exit")
  BY <1>1, <1>2, <1>3, WorkStepInv DEF AtEnd, CallAt, processVars
<1>4. CASE Reads(handle)
  <2>1. /\ out' \in [Pid -> Seq(Messages)] /\ UNCHANGED <<pc, task, in>>
        /\ out[handle] # << >> /\ Message(handle) \in Messages
        /\ out'[handle] = Tail(out[handle])
        /\ \A j \in Pid \ {handle} : out'[j] = out[j]
    BY <1>1, <1>4, OwnerReads DEF Inv, LocalTypeOK
  <2>2. CASE Message(handle).type = "event" /\ method' = AfterEvent
             /\ result' = Message(handle).path
    <3>1. PICK m \in EventFor(arg) :
            \/ out[handle] = <<m>>
            \/ \E h \in {"statusReady", "statusRestart"} : out[handle] = <<m, Status(h)>>
      BY <1>1, <2>1 DEF Waiting
    <3>2. Message(handle) = m /\ m = Event(arg)
      BY <2>2, <3>1, Short, Types DEF Message, EventFor
    <3>3. Reported(handle)'
      <4>1. CASE out[handle] = <<m>>
        <5>1. out'[handle] = << >>
          BY <2>1, <4>1, Short
        <5>2. \/ pc[handle] = "memory" /\ in[handle] = << >>
              \/ pc[handle] = "exited"
          BY <1>1, <4>1, Short DEF Waiting
        <5> QED BY <1>2, <2>1, <5>1, <5>2 DEF Reported
      <4>2. ASSUME NEW h \in {"statusReady", "statusRestart"}, out[handle] = <<m, Status(h)>>
            PROVE  Reported(handle)'
        <5>1. out'[handle] = <<Status(h)>>
          BY <2>1, <4>2, Short
        <5>2. \/ pc[handle] \in {"read", "leaving"} /\ in[handle] = << >>
              \/ pc[handle] = "exited"
          BY <1>1, <4>2, Short DEF Waiting
        <5> QED BY <1>2, <2>1, <5>1, <5>2 DEF Reported
      <4> QED BY <3>1, <4>1, <4>2
    <3>4. result' = LastAsked
      BY <1>1, <2>2, <3>2, Types
    <3> QED BY <1>1, <1>2, <2>1, <2>2, <3>3, <3>4, WorkStepInv DEF AfterEvent
  <2>3. CASE CallAt("exit") \/ CallAt("err")
    BY <1>1, <1>2, <2>1, <2>3, WorkStepInv DEF CallAt
  <2> QED BY <1>4, <2>2, <2>3 DEF ReadEvent, AtEnd, Reads
<1> QED BY <1>3, <1>4 DEF ReadEvent

(* After the status the process has nothing to do.                         *)
LEMMA ReadStatusInv ==
  ASSUME Inv, ReadStatus, UNCHANGED localVars
  PROVE  Inv'
<1> USE DEF Running
<1>1. /\ method = "status" /\ client = "work" /\ handle \in Pid /\ Reported(handle)
      /\ result = LastAsked
      /\ result \in Path \cup {NoPath} /\ spent \in BOOLEAN
      /\ out \in [Pid -> Seq(Messages)]
  BY DEF Inv, LocalTypeOK, ProcessTypeOK, ReadStatus, Doing, Clients, Conversation, Faithful
<1>2. UNCHANGED <<handle, spent, arg, child, result>>
  BY DEF ReadStatus, CallAt, handleVars
<1>3. CASE AtEnd(handle) /\ CallAt("exit")
  BY <1>1, <1>2, <1>3, WorkStepInv DEF AtEnd, CallAt, processVars
<1>4. CASE Reads(handle)
  <2>1. /\ out' \in [Pid -> Seq(Messages)] /\ UNCHANGED <<pc, task, in>>
        /\ out[handle] # << >> /\ out'[handle] = Tail(out[handle])
        /\ \A j \in Pid \ {handle} : out'[j] = out[j]
    BY <1>1, <1>4, OwnerReads DEF Inv, LocalTypeOK
  <2>2. /\ out'[handle] = << >>
        /\ Message(handle).type \in {"statusReady", "statusRestart"}
        /\ \/ pc[handle] \in {"read", "leaving"} /\ in[handle] = << >>
           \/ pc[handle] = "exited"
    BY <1>1, <2>1, Short DEF Reported, Message, Status, Msg
  <2>3. method' = "ok" /\ UNCHANGED <<client, asked, answers>>
    BY <1>4, <2>1, <2>2 DEF ReadStatus, AtEnd, localVars
  <2>4. Quiet(handle)'
    BY <1>2, <2>1, <2>2 DEF Quiet
  <2> QED BY <1>1, <1>2, <2>1, <2>3, <2>4, WorkStepInv
<1> QED BY <1>3, <1>4 DEF ReadStatus

(* The methods that wait for the process, and the write of Shutdown.       *)
LEMMA WaitsInv ==
  ASSUME Inv, ExitError \/ WaitForRestart \/ WriteShutdown \/ WaitForExit,
         UNCHANGED localVars
  PROVE  Inv'
<1> USE DEF Running
<1>1. CASE ExitError
  BY <1>1, WorkStepInv
  DEF ExitError, CallAt, processVars, Inv, LocalTypeOK, ProcessTypeOK, Doing, Clients
<1>2. CASE WaitForRestart
  <2>1. /\ method = "restart" /\ client = "respawn" /\ Exited(handle) /\ handle \in Pid
        /\ method' = "spawn" /\ spent' \in BOOLEAN /\ child = NoPid
        /\ UNCHANGED <<pc, task, in, out, handle, arg, child, result, status>>
        /\ UNCHANGED <<client, asked, answers>>
    BY <1>2 DEF WaitForRestart, RestartReady, CallAt, processVars, localVars, Inv,
       LocalTypeOK, Doing, Clients, Spawning, Faithful
  <2>2. \A k \in Pid : ~Alive(k)
    BY <2>1 DEF Inv, Solo, Alive, Exited, Spawning
  <2>3. LocalTypeOK'
    BY <2>1, Members DEF Inv, LocalTypeOK, ProcessTypeOK, Doing, Spawning
  <2>4. Solo' /\ Fresh'
    BY <2>1, <2>2 DEF Inv, Solo, Fresh, Alive
  <2> QED BY <2>1, <2>3, <2>4 DEF Inv, Conversation, Faithful, LastAsked
<1>3. CASE WriteShutdown \/ WaitForExit
  <2>1. /\ method \in {"stop", "stopwait"} /\ client = "stop" /\ child = NoPid
        /\ handle \in Pid
        /\ UNCHANGED <<pc, task, out, handle, arg, child, result, status>>
        /\ UNCHANGED <<client, asked, answers>>
        /\ method' \in {"stopwait", "panicked", "ok"} /\ spent' \in BOOLEAN
    BY <1>3 DEF WriteShutdown, WaitForExit, StopMessage, Written, CallAt, processVars,
       handleVars, localVars, Inv, LocalTypeOK, ProcessTypeOK, Doing, Clients, Spawning,
       Faithful
  <2>2. in' \in [Pid -> Seq(Messages)] /\ \A j \in Pid \ {handle} : in'[j] = in[j]
    BY <1>3, <2>1, OwnerWrites, AreMessages
    DEF WriteShutdown, WaitForExit, StopMessage, processVars, Inv, LocalTypeOK, ProcessTypeOK
  <2>3. LocalTypeOK'
    BY <2>1, <2>2, Members DEF Inv, LocalTypeOK, ProcessTypeOK, Doing, Spawning
  <2>4. Solo'
    BY <2>1 DEF Inv, Solo, Alive, Spawning
  <2>5. Fresh'
    BY <2>1, <2>2 DEF Inv, Fresh
  <2> QED BY <2>1, <2>3, <2>4, <2>5 DEF Inv, Conversation, Faithful, LastAsked
<1> QED BY <1>1, <1>2, <1>3

-----------------------------------------------------------------------------
(* The worker task, or another owner that goes from one call to the next   *)
(* as it does: its steps leave the processes alone.                        *)

Asking == asked' \in Seq(Path) /\ answers' \in Seq(Path \cup {Failed})

(* It goes idle with a process that has nothing to do.                     *)
LEMMA IdleInv ==
  ASSUME Inv, UNCHANGED <<processVars, handleVars>>, EndCall, client' = "idle", Asking,
         client \notin {"gone", "panicked"}, ~Spawning, method # "spawn",
         handle \in Pid, Quiet(handle)
  PROVE  Inv'
<1>1. /\ UNCHANGED <<pc, task, in, out, handle, spent>>
      /\ method' = "none" /\ arg' = NoPath /\ child' = NoPid /\ result' = NoPath
  BY DEF processVars, handleVars, EndCall, Call
<1>2. LocalTypeOK'
  BY <1>1, Members DEF Inv, LocalTypeOK, ProcessTypeOK, Doing, Spawning, Clients, Asking
<1>3. Solo' /\ Fresh'
  BY <1>1, NoProcess DEF Inv, Solo, Fresh, Alive, Running, Spawning
<1>4. Conversation' /\ Faithful'
  BY <1>1 DEF Conversation, Faithful, Running, Quiet
<1> QED BY <1>2, <1>3, <1>4 DEF Inv

(* It asks about a path.                                                   *)
LEMMA AsksInv ==
  ASSUME Inv, UNCHANGED <<processVars, handleVars>>, client = "idle", client' = "work",
         NEW p \in Path, Call("write", p), Asking, asked' # << >>, LastAsked' = p
  PROVE  Inv'
<1>1. /\ UNCHANGED <<pc, task, in, out, handle, spent>> /\ method = "none"
      /\ method' = "write" /\ arg' = p /\ child' = NoPid /\ result' = NoPath
  BY DEF processVars, handleVars, Call, Inv, LocalTypeOK, Doing
<1>2. LocalTypeOK'
  BY <1>1, Members DEF Inv, LocalTypeOK, ProcessTypeOK, Doing, Spawning, Clients, Asking
<1>3. Solo' /\ Fresh'
  BY <1>1, NoProcess DEF Inv, Solo, Fresh, Alive, Running, Spawning
<1>4. Conversation' /\ Faithful'
  BY <1>1 DEF Inv, Conversation, Faithful, Running, Quiet
<1> QED BY <1>2, <1>3, <1>4 DEF Inv

(* It replaces the process, whose answer it keeps.                         *)
LEMMA ReplacesInv ==
  ASSUME Inv, UNCHANGED <<processVars, handleVars>>, client = "work", method = "ok",
         client' = "respawn", CallAt("restart"), UNCHANGED <<asked, answers>>
  PROVE  Inv'
<1>1. /\ UNCHANGED <<pc, task, in, out, handle, spent>> /\ child = NoPid
      /\ method' = "restart" /\ UNCHANGED <<arg, child, result>>
  BY DEF processVars, handleVars, CallAt, Inv, LocalTypeOK, Spawning
<1>2. LocalTypeOK'
  BY <1>1, Members DEF Inv, LocalTypeOK, ProcessTypeOK, Doing, Spawning, Clients
<1>3. Solo' /\ Fresh'
  BY <1>1 DEF Inv, Solo, Fresh, Alive, Running, Spawning
<1>4. Conversation' /\ Faithful'
  BY <1>1 DEF Inv, Conversation, Faithful, LastAsked, Running
<1> QED BY <1>2, <1>3, <1>4 DEF Inv

(* It stops the process, or gives up after a failure.                      *)
LEMMA StopsInv ==
  ASSUME Inv, UNCHANGED <<processVars, handleVars>>, Asking,
         client \notin {"gone", "panicked"}, ~Spawning, method # "spawn",
         \/ Call("stop", NoPath) /\ client' = "stop" /\ handle \in Pid
         \/ EndCall /\ client' = "broken" /\ handle \in Pid
         \/ EndCall /\ client' = "gone"
  PROVE  Inv'
<1>1. /\ UNCHANGED <<pc, task, in, out, handle, spent>>
      /\ arg' = NoPath /\ child' = NoPid /\ result' = NoPath
      /\ \/ method' = "stop" /\ client' = "stop" /\ handle \in Pid
         \/ method' = "none" /\ client' = "broken" /\ handle \in Pid
         \/ method' = "none" /\ client' = "gone"
  BY DEF processVars, handleVars, EndCall, Call
<1>2. LocalTypeOK'
  BY <1>1, Members DEF Inv, LocalTypeOK, ProcessTypeOK, Doing, Spawning, Clients, Asking
<1>3. Solo' /\ Fresh'
  BY <1>1, NoProcess DEF Inv, Solo, Fresh, Alive, Running, Spawning
<1>4. Conversation' /\ Faithful'
  BY <1>1 DEF Conversation, Faithful, Running
<1> QED BY <1>2, <1>3, <1>4 DEF Inv

(* It ends, and drops what it has.                                         *)
LEMMA LeavesInv ==
  ASSUME Inv, UNCHANGED processVars, DropWorker, client' \in {"gone", "panicked"}, Asking
  PROVE  Inv'
<1>1. /\ UNCHANGED <<pc, task, in, out>> /\ handle' = NoPid /\ spent' = FALSE
      /\ method' = "none" /\ arg' = NoPath /\ child' = NoPid /\ result' = NoPath
  BY DEF processVars, DropWorker, EndCall, Call
<1>2. LocalTypeOK'
  BY <1>1, Members DEF Inv, LocalTypeOK, ProcessTypeOK, Doing, Spawning, Clients, Asking
<1>3. Solo' /\ Fresh'
  BY <1>1, NoProcess DEF Inv, Solo, Fresh, Alive, Running, Spawning
<1>4. Conversation' /\ Faithful'
  BY <1>1 DEF Conversation, Faithful, Running
<1> QED BY <1>2, <1>3, <1>4 DEF Inv

(* So do the steps of the worker task.                                     *)
LEMMA TaskInv ==
  ASSUME Inv, Client \/ (\E p \in Path : AskLocal(p)) \/ StopLocal \/ VanishLocal
  PROVE  Inv'
<1> USE DEF Running, Returned, Asking
<1>1. /\ asked \in Seq(Path) /\ answers \in Seq(Path \cup {Failed})
      /\ \A e \in Path \cup {Failed} : Append(answers, e) \in Seq(Path \cup {Failed})
  BY Appended DEF Inv, LocalTypeOK
<1>2. CASE Connected \/ Respawned
  <2>1. /\ client \in {"connect", "respawn"} /\ method \in {"ok", "err"} /\ EndCall
        /\ UNCHANGED <<processVars, handleVars, asked>> /\ ~Spawning
        /\ method = "ok" => client' = "idle" /\ handle \in Pid /\ Quiet(handle)
    BY <1>2 DEF Connected, Respawned, Spawning, Inv, Faithful
  <2>2. client = "respawn" => Reply \in Path /\ handle \in Pid
    BY DEF Inv, Faithful, LastAsked, LocalTypeOK, Reply
  <2>3. Asking
    BY <1>1, <1>2, <2>1, <2>2 DEF Connected, Respawned
  <2>4. CASE method = "ok"
    BY <2>1, <2>3, <2>4, IdleInv
  <2>5. CASE method = "err"
    <3>1. (client' = "broken" /\ handle \in Pid) \/ client' = "gone"
      BY <1>2, <2>2, <2>5 DEF Connected, Respawned
    <3> QED BY <2>1, <2>3, <2>5, <3>1, StopsInv
  <2> QED BY <2>1, <2>4, <2>5
<1>3. ASSUME NEW p \in Path, AskLocal(p) PROVE Inv'
  <2>1. asked' \in Seq(Path) /\ LastAsked' = p /\ asked' # << >>
    BY <1>1, <1>3, Appended DEF AskLocal, LastAsked
  <2> QED BY <1>1, <1>3, <2>1, AsksInv DEF AskLocal
<1>4. CASE WorkReturns
  <2>1. /\ client = "work" /\ handle \in Pid /\ ~Spawning
        /\ UNCHANGED <<processVars, handleVars, asked>>
        /\ method = "ok" => Quiet(handle) /\ Reply \in Path
    BY <1>4 DEF WorkReturns, Inv, LocalTypeOK, Doing, Faithful, Spawning, Reply, LastAsked
  <2>2. CASE client' = "respawn"
    BY <1>4, <2>1, <2>2, ReplacesInv DEF WorkReturns
  <2>3. CASE client' = "idle"
    BY <1>1, <1>4, <2>1, <2>3, IdleInv DEF WorkReturns
  <2>4. CASE client' = "broken"
    BY <1>1, <1>4, <2>1, <2>4, StopsInv DEF WorkReturns
  <2> QED BY <1>4, <2>2, <2>3, <2>4 DEF WorkReturns
<1>5. CASE StopLocal
  <2>1. handle \in Pid /\ method = "none"
    BY <1>5 DEF StopLocal, Inv, LocalTypeOK, Doing, Faithful
  <2> QED BY <1>1, <1>5, <2>1, StopsInv DEF StopLocal, Spawning
<1>6. CASE Stopped \/ VanishLocal
  BY <1>1, <1>6, LeavesInv DEF Stopped, VanishLocal
<1> QED BY <1>2, <1>3, <1>4, <1>5, <1>6 DEF Client

-----------------------------------------------------------------------------
(* The theorems.                                                           *)

(* The invariant holds at first.                                           *)
LEMMA InitInv == LocalInit => Inv
<1> SUFFICES ASSUME LocalInit PROVE Inv
  OBVIOUS
<1>1. /\ handle = NoPid /\ child = NoPid /\ method = "spawn" /\ client = "connect"
      /\ \A k \in Pid : pc[k] = "none" /\ in[k] = << >> /\ out[k] = << >>
  BY DEF LocalInit, ProcessInit
<1>2. ProcessTypeOK
  BY <1>1, Members, AreMessages DEF LocalInit, ProcessInit, ProcessTypeOK
<1>3. LocalTypeOK
  BY <1>1, <1>2 DEF LocalInit, LocalTypeOK, Doing, Spawning, Clients
<1> QED
  BY <1>1, <1>3, NoProcess
  DEF Inv, Solo, Fresh, Alive, Conversation, Faithful, Running

(* Every step preserves it.                                                *)
LEMMA NextInv == Inv /\ [LocalNext]_vars => Inv'
<1> SUFFICES ASSUME Inv, [LocalNext]_vars PROVE Inv'
  OBVIOUS
<1>1. CASE UNCHANGED vars
  <2>1. /\ UNCHANGED <<pc, task, in, out, handle, spent, method, arg, child, result, status>>
        /\ UNCHANGED <<client, asked, answers>>
    BY <1>1 DEF vars, workerVars, processVars, handleVars, callVars, localVars
  <2>2. LocalTypeOK'
    BY <2>1 DEF Inv, LocalTypeOK, ProcessTypeOK, Spawning
  <2>3. Solo' /\ Fresh'
    BY <2>1 DEF Inv, Solo, Fresh, Alive, Running, Spawning
  <2>4. \A k, p : /\ Starting(k)' = Starting(k) /\ Quiet(k)' = Quiet(k)
                  /\ Waiting(k, p)' = Waiting(k, p) /\ Reported(k)' = Reported(k)
    BY <2>1 DEF Starting, Quiet, Waiting, Reported
  <2>5. Conversation' /\ Faithful'
    BY <2>1, <2>4 DEF Inv, Conversation, Faithful, Running, LastAsked
  <2> QED BY <2>2, <2>3, <2>5 DEF Inv
<1>2. CASE Method /\ UNCHANGED localVars
  BY <1>2, SpawnChildInv, WriteSetupInv, ReadReadyInv, WriteWorkInv, ReadEventInv,
     ReadStatusInv, WaitsInv DEF Method
<1>3. CASE (\E k \in Pid : Process(k) \/ Crash(k)) /\ UNCHANGED localVars
  BY <1>3, ProcessInv
<1>4. CASE Client \/ (\E p \in Path : AskLocal(p)) \/ StopLocal \/ VanishLocal
  BY <1>4, TaskInv
<1> QED BY <1>1, <1>2, <1>3, <1>4 DEF LocalNext

(* Every variable keeps its type, and each method runs only where          *)
(* worker_task calls it.                                                   *)
THEOREM LocalTypes == LocalSpec => []LocalTypeOK
<1>1. Inv => LocalTypeOK
  BY DEF Inv
<1> QED BY <1>1, InitInv, NextInv, PTL DEF LocalSpec

(* Whatever dies and is replaced, one worker is one process: the process   *)
(* that asked to be replaced has exited before the next one is started.    *)
THEOREM OneAtATime == LocalSpec => []OneProcess
<1>1. ASSUME Inv PROVE OneProcess
  <2> DEFINE Living == {k \in Pid : Alive(k)}
  <2>1. CASE Living = {}
    BY <2>1, FS_EmptySet DEF OneProcess
  <2>2. ASSUME NEW k \in Living PROVE OneProcess
    <3>1. Living = {k}
      BY <1>1, <2>2 DEF Inv, Solo
    <3>2. Cardinality(Living) = 1
      BY <3>1, FS_Singleton
    <3> QED BY <3>2 DEF OneProcess
  <2> QED BY <2>1, <2>2
<1> QED BY <1>1, InitInv, NextInv, PTL DEF LocalSpec

(* The invariant always holds.                                             *)
LEMMA InvCorrect == LocalSpec => []Inv
BY InitInv, NextInv, PTL DEF LocalSpec

(* The phase in which each state of the worker task is.                    *)
LEMMA Phases ==
  /\ client = "connect" => Phase = "connecting"
  /\ client = "idle" => Phase = "idle"
  /\ client \in {"work", "respawn"} => Phase = "busy"
  /\ client = "broken" => Phase = "broken"
  /\ client \in {"stop", "panicked", "gone"} => Phase = "gone"
BY DEF Phase

(* The same after a step.                                                  *)
LEMMA PhasesNext ==
  /\ client' = "connect" => Phase' = "connecting"
  /\ client' = "idle" => Phase' = "idle"
  /\ client' \in {"work", "respawn"} => Phase' = "busy"
  /\ client' = "broken" => Phase' = "broken"
  /\ client' \in {"stop", "panicked", "gone"} => Phase' = "gone"
BY DEF Phase

(* The service starts when the worker does,                                *)
LEMMA ServiceInit == LocalInit => Service!ServiceInit
BY Phases DEF LocalInit, Service!ServiceInit

(* and every step of the worker is one of the service, or none.            *)
LEMMA ServiceStep ==
  Inv /\ [LocalNext]_vars => [Service!ServiceNext]_(Service!serviceVars)
<1> SUFFICES ASSUME Inv, [LocalNext]_vars
             PROVE  [Service!ServiceNext]_(Service!serviceVars)
  OBVIOUS
<1> USE Phases, PhasesNext DEF Service!ServiceNext, Service!Failed, Failed
<1>1. CASE UNCHANGED localVars
  BY <1>1 DEF localVars, Phase, Service!serviceVars
<1>2. CASE Connected
  BY <1>2 DEF Connected, Service!Connect, Service!Leave
<1>3. ASSUME NEW p \in Path, AskLocal(p) PROVE Service!Ask(p)
  BY <1>3 DEF AskLocal, Service!Ask
<1>4. CASE WorkReturns
  <2>1. client = "work" /\ Returned("ok") => result = LastAsked
    BY DEF Inv, Faithful, Returned
  <2> QED
    BY <1>4, <2>1
    DEF WorkReturns, Reply, LastAsked, Service!Answer, Service!Fail, Service!serviceVars
<1>5. CASE Respawned
  <2>1. client = "respawn" => result = LastAsked
    BY DEF Inv, Faithful
  <2> QED
    BY <1>5, <2>1 DEF Respawned, Reply, LastAsked, Service!Answer, Service!Fail
<1>6. CASE StopLocal
  BY <1>6 DEF StopLocal, Service!Leave
<1>7. CASE Stopped
  BY <1>7 DEF Stopped, Service!serviceVars
<1>8. CASE VanishLocal
  <2>1. client \in {"connect", "idle", "work", "respawn", "broken", "stop"}
    BY <1>8 DEF VanishLocal, Inv, LocalTypeOK, Clients
  <2> QED BY <1>8, <2>1 DEF VanishLocal, Service!Leave, Service!serviceVars
<1> QED
  BY <1>1, <1>2, <1>3, <1>4, <1>5, <1>6, <1>7, <1>8 DEF LocalNext, Client, vars

(* Whatever happens to its processes, a local worker answers each path it  *)
(* was asked about with the event for that path or with a failure, in the  *)
(* order of the calls, and nothing after a failure.                        *)
THEOREM ServiceImplemented == LocalSpec => LocalImplementsService
<1>1. LocalSpec => Service!ServiceSpec
  BY ServiceInit, ServiceStep, InvCorrect, PTL DEF LocalSpec, Service!ServiceSpec
<1> QED BY <1>1 DEF LocalImplementsService
=============================================================================
