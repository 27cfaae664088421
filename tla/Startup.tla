------------------------------ MODULE Startup ------------------------------
(***************************************************************************)
(* How a daemon comes up (evix-daemon/src/lib.rs, run to pid_path), and    *)
(* how a command finds it or does without it (evix-cli/src/main.rs).       *)
(*                                                                         *)
(* A start is up to three processes: the one the user waits for (parent),  *)
(* the session leader it forks (child) and the daemon that forks in turn.  *)
(* The last two hold the writing end of the readiness pipe, the first      *)
(* reads one line of it. All starts work on one socket path and one pid    *)
(* file, and nothing locks either of them.                                 *)
(*                                                                         *)
(* An operator named X_Y is X with a mistake in it, kept to show that the  *)
(* properties notice.                                                      *)
(***************************************************************************)
EXTENDS Naturals, FiniteSets

CONSTANTS
  Starts,       \* runs of `evix daemon` or evixd
  Scenarios,    \* what a behaviour may meet: records of
                \*   starts: the starts there are
                \*   foreground: those with --foreground
                \*   commands: the commands that are run
                \*   leftover: what is at the socket path at first
                \*   faults: the calls that may fail
                \*   kills: the processes that may be killed
  Commands,     \* other runs of evix, a command each
  Kind(_),      \* of a command: "eval", "watch", "query" or "diff"
  Denied,       \* the starts and commands of users who may not connect
  Nobody        \* no start

ASSUME StartupAssumption ==
  /\ Starts \cap {Nobody, "nothing", "file", "stale"} = {}
  /\ \A s \in Scenarios :
       /\ s.foreground \subseteq s.starts /\ s.starts \subseteq Starts
       /\ s.commands \subseteq Commands
       /\ s.leftover \in {"nothing", "file", "stale"}
       /\ s.faults \subseteq
            {"fork", "setsid", "refork", "pid", "directory", "metadata",
             "probe", "remove", "bind", "listen"}
       /\ s.kills \subseteq {"parent", "daemon"}
  /\ \A c \in Commands : Kind(c) \in {"eval", "watch", "query", "diff"}

VARIABLES
  scenario,    \* the one of Scenarios that this behaviour is in
  parent,      \* of a start: "idle", "waiting", then how it exited
  child,       \* "none", then what it does next
  daemon,      \* "none", then what it does next
  line,        \* what the readiness pipe holds: "", "Done" or "Error"
  path,        \* what is at the socket path: a start is its socket
  pid,         \* whose number the pid file holds
  command,     \* of a command: "idle", a start, "local" or "refused"
  met,         \* history: the other starts under way during a start
  older,       \* history: the daemons that could be reached as it began
  excuse       \* history: the starts that met a fault or were killed

files == <<path, pid>>

processes == <<parent, child, daemon, line>>

svars == <<scenario, processes, files, command, met, older, excuse>>

Listening(d) == daemon[d] \in {"ready", "serving"}

(* What a connect to the socket path meets. A socket that nobody listens   *)
(* on any more, or not yet, refuses.                                       *)
Connect(user) ==
  IF path = "nothing" THEN "NotFound"
  ELSE IF user \in Denied THEN "PermissionDenied"
  ELSE IF path \in Starts /\ Listening(path) THEN "Ok"
  ELSE "ConnectionRefused"

(* The daemons that a command reaches.                                     *)
Reachable == {d \in Starts : path = d /\ Listening(d)}

Over(d) ==
  \/ daemon[d] \in {"serving", "failed", "dead"}
  \/ daemon[d] = "none" /\ child[d] = "gone"
  \/ parent[d] = "failed"

UnderWay(d) == parent[d] # "idle" /\ ~Over(d)

SInit ==
  /\ scenario \in Scenarios
  /\ parent = [d \in Starts |-> "idle"]
  /\ child = [d \in Starts |-> "none"]
  /\ daemon = [d \in Starts |-> "none"]
  /\ line = [d \in Starts |-> ""]
  /\ path = scenario.leftover
  /\ pid = Nobody
  /\ command = [c \in Commands |-> "idle"]
  /\ met = [d \in Starts |-> {}]
  /\ older = [d \in Starts |-> {}]
  /\ excuse = {}

-----------------------------------------------------------------------------
(* run, daemonize: the pair of sockets and the first fork. A foreground    *)
(* start is the daemon itself and has nobody to report to.                 *)
Begin(d) ==
  /\ d \in scenario.starts
  /\ parent[d] = "idle"
  /\ LET others == {e \in Starts \ {d} : UnderWay(e)}
     IN  met' = [e \in Starts |-> CASE e = d      -> others
                                    [] e \in others -> met[e] \union {d}
                                    [] OTHER      -> met[e]]
  /\ older' = [older EXCEPT ![d] = Reachable]
  /\ \/ /\ d \in scenario.foreground
        /\ parent' = [parent EXCEPT ![d] = "none"]
        /\ daemon' = [daemon EXCEPT ![d] = "directory"]
        /\ UNCHANGED <<child, excuse>>
     \/ /\ d \notin scenario.foreground
        /\ parent' = [parent EXCEPT ![d] = "waiting"]
        /\ child' = [child EXCEPT ![d] = "setsid"]
        /\ UNCHANGED <<daemon, excuse>>
     \/ /\ d \notin scenario.foreground /\ "fork" \in scenario.faults
        /\ parent' = [parent EXCEPT ![d] = "failed"]
        /\ excuse' = excuse \union {d}
        /\ UNCHANGED <<child, daemon>>
  /\ UNCHANGED <<scenario, line, files, command>>

(* exit_after_startup_error, in the child.                                 *)
ChildFails(d, call) ==
  /\ call \in scenario.faults
  /\ line' = [line EXCEPT ![d] = "Error"]
  /\ child' = [child EXCEPT ![d] = "gone"]
  /\ excuse' = excuse \union {d}
  /\ UNCHANGED daemon

Child(d) ==
  /\ \/ /\ child[d] = "setsid"
        /\ \/ child' = [child EXCEPT ![d] = "fork"]
              /\ UNCHANGED <<daemon, line, excuse>>
           \/ ChildFails(d, "setsid")
     \/ /\ child[d] = "fork"
        /\ \/ /\ child' = [child EXCEPT ![d] = "exit"]
              /\ daemon' = [daemon EXCEPT ![d] = "pid"]
              /\ UNCHANGED <<line, excuse>>
           \/ ChildFails(d, "refork")
     \/ /\ child[d] = "exit"
        /\ child' = [child EXCEPT ![d] = "gone"]
        /\ UNCHANGED <<daemon, line, excuse>>
  /\ UNCHANGED <<scenario, parent, files, command, met, older>>

-----------------------------------------------------------------------------
Goto(d, step) ==
  /\ daemon' = [daemon EXCEPT ![d] = step]
  /\ UNCHANGED <<line, excuse>>

(* The error is reported, if somebody is there to read it, and the process *)
(* ends.                                                                   *)
Fail(d) ==
  /\ daemon' = [daemon EXCEPT ![d] = "failed"]
  /\ line' = IF parent[d] = "waiting" THEN [line EXCEPT ![d] = "Error"] ELSE line

Breaks(d, call) ==
  /\ call \in scenario.faults
  /\ Fail(d)
  /\ excuse' = excuse \union {d}

GiveUp(d) == Fail(d) /\ UNCHANGED excuse

(* daemonize: the pid file is written before the socket is looked at.      *)
WritePid(d) ==
  /\ daemon[d] = "pid"
  /\ \/ pid' = d /\ Goto(d, "directory")
     \/ pid' = pid /\ Breaks(d, "pid")
  /\ UNCHANGED path

(* prepare_socket_path: the directory, what is there, and who answers.     *)
Directory(d) ==
  /\ daemon[d] = "directory"
  /\ Goto(d, "metadata") \/ Breaks(d, "directory")
  /\ UNCHANGED files

(* The report before there is anything to report.                          *)
Metadata_Ready(d) ==
  /\ daemon[d] = "metadata"
  /\ \/ /\ path \notin {"file"}
        /\ line' = IF parent[d] = "waiting" THEN [line EXCEPT ![d] = "Done"] ELSE line
        /\ daemon' = [daemon EXCEPT ![d] = IF path = "nothing" THEN "bind" ELSE "probe"]
        /\ UNCHANGED excuse
     \/ path = "file" /\ GiveUp(d)
     \/ Breaks(d, "metadata")
  /\ UNCHANGED files

Metadata(d) ==
  /\ daemon[d] = "metadata"
  /\ \/ path = "nothing" /\ Goto(d, "bind")
     \/ path = "file" /\ GiveUp(d)
     \/ path \notin {"nothing", "file"} /\ Goto(d, "probe")
     \/ Breaks(d, "metadata")
  /\ UNCHANGED files

Probe_Skipped(d) ==
  /\ daemon[d] = "probe"
  /\ Goto(d, "remove")
  /\ UNCHANGED files

Probe(d) ==
  /\ daemon[d] = "probe"
  /\ \/ Connect(d) = "ConnectionRefused" /\ Goto(d, "remove")
     \/ Connect(d) = "NotFound" /\ Goto(d, "bind")
     \/ Connect(d) \in {"Ok", "PermissionDenied"} /\ GiveUp(d)
     \/ Breaks(d, "probe")
  /\ UNCHANGED files

Remove_Kept(d) ==
  /\ daemon[d] = "remove"
  /\ Goto(d, "bind")
  /\ UNCHANGED files

(* Whatever is at the path by now is what is removed.                      *)
Remove(d) ==
  /\ daemon[d] = "remove"
  /\ \/ path = "nothing" /\ GiveUp(d) /\ UNCHANGED path
     \/ path # "nothing" /\ path' = "nothing" /\ Goto(d, "bind")
     \/ Breaks(d, "remove") /\ UNCHANGED path
  /\ UNCHANGED pid

(* UnixListener::bind: two system calls. Connects are refused in between.  *)
Bind(d) ==
  /\ daemon[d] = "bind"
  /\ \/ path # "nothing" /\ GiveUp(d) /\ UNCHANGED path
     \/ path = "nothing" /\ path' = d /\ Goto(d, "listen")
     \/ Breaks(d, "bind") /\ UNCHANGED path
  /\ UNCHANGED pid

Listen(d) ==
  /\ daemon[d] = "listen"
  /\ Goto(d, "ready") \/ Breaks(d, "listen")
  /\ UNCHANGED files

(* reporter.ready. Without a reader the write fails; the listener is       *)
(* dropped then, and its socket stays behind.                              *)
Ready(d) ==
  /\ daemon[d] = "ready"
  /\ \/ parent[d] = "none" /\ Goto(d, "serving")
     \/ /\ parent[d] = "waiting"
        /\ line' = [line EXCEPT ![d] = "Done"]
        /\ daemon' = [daemon EXCEPT ![d] = "serving"]
        /\ UNCHANGED excuse
     \/ parent[d] \notin {"none", "waiting"} /\ GiveUp(d)
  /\ UNCHANGED files

Daemon(d) ==
  /\ \/ WritePid(d) \/ Directory(d) \/ Metadata(d) \/ Probe(d)
     \/ Remove(d) \/ Bind(d) \/ Listen(d) \/ Ready(d)
  /\ UNCHANGED <<scenario, parent, child, command, met, older>>

-----------------------------------------------------------------------------
Writers_Kept(d) == {"parent"}

(* The processes that can still write to the readiness pipe. The parent    *)
(* has dropped its own copy.                                               *)
Writers(d) ==
  {p \in {"child", "daemon"} :
     IF p = "child" THEN child[d] \notin {"none", "gone"}
                    ELSE daemon[d] \notin {"none", "failed", "dead"}}

(* wait_for_readiness: a line, or the end of the pipe without one.         *)
Wait(d) ==
  /\ parent[d] = "waiting"
  /\ \/ line[d] = "Done" /\ parent' = [parent EXCEPT ![d] = "ok"]
     \/ line[d] = "Error" /\ parent' = [parent EXCEPT ![d] = "failed"]
     \/ /\ line[d] = "" /\ Writers(d) = {}
        /\ parent' = [parent EXCEPT ![d] = "failed"]
  /\ UNCHANGED <<scenario, child, daemon, line, files, command, met, older, excuse>>

(* run_client_or_local, run_daemon_only: eval and watch do without a       *)
(* daemon, query and diff do not.                                          *)
Run(c) ==
  /\ c \in scenario.commands
  /\ command[c] = "idle"
  /\ command' = [command EXCEPT ![c] =
       IF Connect(c) = "Ok" THEN path
       ELSE IF Kind(c) \in {"eval", "watch"} THEN "local"
       ELSE "refused"]
  /\ UNCHANGED <<scenario, processes, files, met, older, excuse>>

KillParent(d) ==
  /\ "parent" \in scenario.kills
  /\ parent[d] = "waiting"
  /\ parent' = [parent EXCEPT ![d] = "killed"]
  /\ excuse' = excuse \union {d}
  /\ UNCHANGED <<scenario, child, daemon, line, files, command, met, older>>

KillDaemon(d) ==
  /\ "daemon" \in scenario.kills
  /\ daemon[d] \notin {"none", "failed", "dead"}
  /\ daemon' = [daemon EXCEPT ![d] = "dead"]
  /\ excuse' = excuse \union {d}
  /\ UNCHANGED <<scenario, parent, child, line, files, command, met, older>>

Act(d) == Child(d) \/ Daemon(d) \/ Wait(d)

SNext ==
  \/ \E d \in Starts :
       \/ Begin(d) \/ Child(d) \/ Daemon(d) \/ Wait(d)
       \/ KillParent(d) \/ KillDaemon(d)
  \/ \E c \in Commands : Run(c)

SSpec == SInit /\ [][SNext]_svars

(* A process that can go on does; nobody has to start one.                 *)
SFairSpec == SSpec /\ \A d \in Starts : WF_svars(Act(d))

-----------------------------------------------------------------------------
ParentStates == {"idle", "none", "waiting", "ok", "failed", "killed"}
ChildSteps   == {"none", "setsid", "fork", "exit", "gone"}
DaemonSteps  == {"none", "pid", "directory", "metadata", "probe", "remove",
                 "bind", "listen", "ready", "serving", "failed", "dead"}
Lines        == {"", "Done", "Error"}
Places       == {"nothing", "file", "stale"} \union Starts
Outcomes     == {"idle", "local", "refused"} \union Starts

StartTypeOK ==
  /\ scenario \in Scenarios
  /\ parent \in [Starts -> ParentStates]
  /\ child \in [Starts -> ChildSteps]
  /\ daemon \in [Starts -> DaemonSteps]
  /\ line \in [Starts -> Lines]
  /\ path \in Places
  /\ pid \in Starts \union {Nobody}
  /\ command \in [Commands -> Outcomes]
  /\ met \in [Starts -> SUBSET Starts] /\ older \in [Starts -> SUBSET Starts]
  /\ excuse \subseteq Starts

(* The exit code of a background start is about the daemon: success says   *)
(* that it came to serve, failure that there is none and will be none      *)
(* (wait_for_readiness with every report and every early exit).            *)
ExitTellsTheTruth ==
  \A d \in Starts :
    /\ parent[d] = "ok" => daemon[d] \in {"serving", "dead"}
    /\ parent[d] = "failed" => /\ daemon[d] \in {"none", "failed", "dead"}
                               /\ child[d] \notin {"setsid", "fork"}

(* A start that nothing went wrong with fails only for one of the reasons  *)
(* the code has: something else than a socket is in the way, another start *)
(* is under way, or a daemon answers already. So after a crash, whatever   *)
(* socket it left, the next start comes up (prepare_socket_path).          *)
FailsForAReason ==
  \A d \in Starts :
    daemon[d] = "failed" /\ d \notin excuse \union Denied =>
      path = "file" \/ met[d] # {} \/ older[d] # {}

(* A daemon that could be reached before another start began is not robbed *)
(* of its socket by that start (the probe of prepare_socket_path).         *)
Keeps ==
  \A d \in Starts : path = d /\ Listening(d) /\ path' # d =>
    \E e \in Starts : daemon[e] = "remove" /\ daemon'[e] = "bind" /\ d \notin older[e]

OlderKept == [][Keeps]_svars

(* Once a start has exited with success, and no other start was under way  *)
(* meanwhile, every command of a user who may connect reaches that daemon  *)
(* until it dies: no eval runs without its warm sessions, and no query is  *)
(* turned away (Ready after bind, the probe, run_client_or_local).         *)
Reaches ==
  \A c \in Commands \ Denied, d \in Starts :
    /\ parent[d] = "ok" /\ daemon[d] # "dead" /\ met[d] = {}
    /\ command[c] = "idle" /\ command'[c] # "idle"
    => command'[c] = d

ReadyIsReached == [][Reaches]_svars

(* Every start comes to an end for the user who waits for it, also when    *)
(* the daemon dies without a word (the ends of the readiness pipe).        *)
StartsEnd ==
  \A d \in Starts : parent[d] = "waiting" ~> parent[d] \in {"ok", "failed", "killed"}

(* What one might expect, and the code does not keep.                      *)

(* "live daemon socket already exists": a daemon that listens keeps its    *)
(* socket. Two starts on a stale socket both find it dead, and the second  *)
(* removes what the first has bound since.                                 *)
SocketKept ==
  [][\A d \in Starts : path = d /\ Listening(d) => path' = d]_svars

(* The pid file names the daemon that serves: it is written before the     *)
(* start knows whether it may serve.                                       *)
PidServes ==
  \A d \in Starts : parent[d] = "ok" /\ daemon[d] = "serving" => pid = d
=============================================================================
