------------------------------- MODULE Daemon -------------------------------
(***************************************************************************)
(* evixd (evix-daemon/src/lib.rs) and the clients that evix runs for its   *)
(* subcommands (run_daemon_request in evix-cli/src/main.rs). Each          *)
(* connection has a thread of its own, with a runtime of its own, on which *)
(* the evaluation that the request starts runs; the sessions are shared,   *)
(* through a registry with one session per configuration.                  *)
(*                                                                         *)
(* A session is called by the connection that opened it. What happens in   *)
(* it is Session.tla's subject: here its evaluation finds Size derivations *)
(* and completes, or fails. All that is known of an event or a diff is     *)
(* that it is one.                                                         *)
(*                                                                         *)
(* An operator named X_Y is X with a mistake in it, kept to show that the  *)
(* properties notice.                                                      *)
(*                                                                         *)
(* Faults is the set of things that may happen:                            *)
(*   "fail"       an evaluation fails                                      *)
(*   "leave"      a client closes its connection before it is done         *)
(*   "malformed"  no request is read: the line is something else, or empty, *)
(*                or cannot be read; or there is no runtime to serve it     *)
(*   "die"        the daemon dies                                          *)
(***************************************************************************)
EXTENDS Integers, Sequences, FiniteSets

CONSTANTS
  Conn,     \* connections
  Key,      \* configurations
  Requests, \* the assignments of requests to connections that may be made: a
            \* request has a kind, "eval", "watch", "query" or "diff", and a
            \* key, the configuration
  Size,     \* bound: derivations that an evaluation finds
  MaxDiffs, \* bound: diffs that a watch sends
  MaxRoom,  \* bound: responses a socket holds before a write waits
  Faults

ASSUME DaemonAssumption ==
  /\ Requests \subseteq
       [Conn -> [kind : {"eval", "watch", "query", "diff"}, key : Key]]
  /\ Size \in Nat /\ MaxDiffs \in Nat /\ MaxRoom \in Nat \ {0}
  /\ Faults \subseteq {"fail", "leave", "malformed", "die"}

VARIABLES
  request,   \* request[c]: what the client of c asks for
  pc,        \* pc[c], where the thread of c is: "read", "open", "stream",
             \* "lookup", "check", "diff", "error" or "closed"
  held,      \* held[c]: the session that the thread holds, or None
  items,     \* items[c]: what next() of its stream, or its loop, has yet to give
  state,     \* state[c], of the session that c opened: "none", "evaluating",
             \* "completed" or "failed"
  found,     \* found[c]: how many derivations are in its graph, or about to be
  diffs,     \* diffs[c]: how many diffs its watch has sent
  registry,  \* DaemonState.sessions: the session of each key, or None
  socket,    \* socket[c]: responses on their way to the client
  outcome,   \* outcome[c] of the client: "reading", "ok" or "failed" (how evix
             \* exits), or "left"
  printed    \* printed[c]: how many events the client has printed

thread  == <<pc, held, items>>
session == <<state, found, diffs>>
client  == <<outcome, printed>>
vars == <<request, thread, session, registry, socket, client>>

None == "no session"

Fault(f) == f \in Faults

Kind(c) == request[c].kind

KeyOf(c) == request[c].key

Init ==
  /\ request \in Requests
  /\ pc = [c \in Conn |-> "read"]
  /\ held = [c \in Conn |-> None]
  /\ items = [c \in Conn |-> << >>]
  /\ state = [c \in Conn |-> "none"]
  /\ found = [c \in Conn |-> 0]
  /\ diffs = [c \in Conn |-> 0]
  /\ registry = [k \in Key |-> None]
  /\ socket = [c \in Conn |-> << >>]
  /\ outcome = [c \in Conn |-> "reading"]
  /\ printed = [c \in Conn |-> 0]

-----------------------------------------------------------------------------
(* A connection's thread.                                                  *)

At(c, p) == pc[c] = p

Move(c, p) == pc' = [pc EXCEPT ![c] = p]

Goto(c, p) == Move(c, p) /\ UNCHANGED <<held, items>>

Reading(c) == outcome[c] = "reading"

(* The thread ends: the stream is closed, the runtime is dropped, with     *)
(* every task that runs on it, and the Arc<Session> is given back.         *)
End(c) ==
  /\ Move(c, "closed")
  /\ held' = [held EXCEPT ![c] = None]
  /\ items' = [items EXCEPT ![c] = << >>]

(* write_response, blocking the thread while the socket is full.           *)
CanWrite(c) == Reading(c) /\ Len(socket[c]) < MaxRoom

WriteResponse(c, m) ==
  CanWrite(c) /\ socket' = [socket EXCEPT ![c] = Append(@, m)]

(* handle_connection, as far as the request is known. Only a line that     *)
(* cannot be parsed is answered with an error; otherwise the connection is *)
(* closed without a word.                                                  *)
ReadRequest(c) ==
  /\ At(c, "read")
  /\ \/ Goto(c, IF Kind(c) \in {"eval", "watch"} THEN "open" ELSE "lookup")
     \/ Fault("malformed") /\ (Goto(c, "error") \/ End(c))
  /\ UNCHANGED <<session, registry, socket, client>>

SessionKey_Coarse(config) == CHOOSE k \in Key : TRUE

(* session_key: all of the configuration.                                  *)
SessionKey(config) == config

(* replace_session, then session.stream() or session.watch(), which spawns *)
(* the evaluation on this connection's runtime.                            *)
ReplaceSession(c) ==
  /\ At(c, "open")
  /\ registry' = [registry EXCEPT ![SessionKey(KeyOf(c))] = c]
  /\ state' = [state EXCEPT ![c] = "evaluating"]
  /\ Move(c, "stream")
  /\ held' = [held EXCEPT ![c] = c]
  /\ UNCHANGED <<items, found, diffs, socket, client>>

(* The spawned task runs while the thread waits for next(). What it gives  *)
(* is forwarded before it goes on: the channel between them is unbounded   *)
(* (session.rs:67), but nobody else sees what is in it, and a client that  *)
(* reads more slowly meets the bound of the socket instead.                *)
Runs(c) ==
  /\ At(c, "stream")
  /\ held[c] = c
  /\ items[c] = << >>

Yield(c, s) ==
  /\ items' = [items EXCEPT ![c] = s]
  /\ UNCHANGED <<pc, held>>

(* The initial evaluation finds a derivation; only eval passes it on.      *)
Find(c) ==
  /\ Runs(c)
  /\ state[c] = "evaluating" /\ found[c] < Size
  /\ found' = [found EXCEPT ![c] = @ + 1]
  /\ Yield(c, IF Kind(c) = "eval" THEN <<"event">> ELSE << >>)
  /\ UNCHANGED <<state, diffs, registry, socket, client>>

EvaluationDone(c) == found[c] = Size

Complete_Unstored(c) ==
  /\ Runs(c)
  /\ state[c] = "evaluating" /\ EvaluationDone(c)
  /\ Yield(c, IF Kind(c) = "eval" THEN <<"end">> ELSE << >>)
  /\ UNCHANGED <<session, registry, socket, client>>

(* The graph is stored before the stream ends.                             *)
Complete(c) ==
  /\ Runs(c)
  /\ state[c] = "evaluating" /\ EvaluationDone(c)
  /\ state' = [state EXCEPT ![c] = "completed"]
  /\ Yield(c, IF Kind(c) = "eval" THEN <<"end">> ELSE << >>)
  /\ UNCHANGED <<found, diffs, registry, socket, client>>

(* The error goes into the stream, which then ends.                        *)
FailEvaluation(c) ==
  /\ Fault("fail")
  /\ Runs(c)
  /\ state[c] = "evaluating"
  /\ state' = [state EXCEPT ![c] = "failed"]
  /\ Yield(c, <<"error", "end">>)
  /\ UNCHANGED <<found, diffs, registry, socket, client>>

(* The watch loop of a completed session goes on until it fails.           *)
Diff(c) ==
  /\ Runs(c)
  /\ state[c] = "completed" /\ Kind(c) = "watch"
  /\ \/ /\ diffs[c] < MaxDiffs
        /\ diffs' = [diffs EXCEPT ![c] = @ + 1]
        /\ Yield(c, <<"diff">>)
     \/ Fault("fail") /\ Yield(c, <<"error", "end">>) /\ UNCHANGED diffs
  /\ UNCHANGED <<state, found, registry, socket, client>>

(* The loops of the handlers: each item is written; at the end Done is,    *)
(* except by handle_watch. A write to a client that has left is an error,  *)
(* and so is the attempt to report it.                                     *)
Forward(c) ==
  /\ At(c, "stream")
  /\ items[c] # << >>
  /\ LET m == Head(items[c]) IN
       \/ m = "end" /\ Kind(c) = "watch" /\ End(c) /\ UNCHANGED socket
       \/ m = "end" /\ Kind(c) # "watch" /\ WriteResponse(c, "done") /\ End(c)
       \/ /\ m # "end"
          /\ WriteResponse(c, m)
          /\ items' = [items EXCEPT ![c] = Tail(@)]
          /\ UNCHANGED <<pc, held>>
       \/ ~Reading(c) /\ End(c) /\ UNCHANGED socket
  /\ UNCHANGED <<session, registry, client>>

(* warm_session.                                                           *)
Lookup(c) ==
  /\ At(c, "lookup")
  /\ LET s == registry[SessionKey(KeyOf(c))] IN
       IF s = None
         THEN Goto(c, "error")
         ELSE /\ Move(c, "check")
              /\ held' = [held EXCEPT ![c] = s]
              /\ UNCHANGED items
  /\ UNCHANGED <<session, registry, socket, client>>

Required_NotFailed(s) == state[s] # "failed"

(* require_completed.                                                      *)
Required(s) == state[s] = "completed"

Stream(c, s) ==
  /\ Move(c, "stream")
  /\ items' = [items EXCEPT ![c] = s]
  /\ UNCHANGED held

(* What query_snapshot finds in a graph of n derivations.                  *)
Answer(n) == [i \in 1..n |-> "event"] \o <<"end">>

Check_Waits(c) ==
  /\ At(c, "check")
  /\ Required(held[c])
  /\ IF Kind(c) = "diff"
       THEN Goto(c, "diff")
       ELSE Stream(c, Answer(found[held[c]]))
  /\ UNCHANGED <<session, registry, socket, client>>

(* query_snapshot clones what the answer needs; diff_once evaluates.       *)
Check(c) ==
  /\ At(c, "check")
  /\ \/ ~Required(held[c]) /\ Goto(c, "error")
     \/ Required(held[c]) /\ Kind(c) = "diff" /\ Goto(c, "diff")
     \/ Required(held[c]) /\ Kind(c) = "query" /\ Stream(c, Answer(found[held[c]]))
  /\ UNCHANGED <<session, registry, socket, client>>

(* diff_once returns.                                                      *)
DiffOnce(c) ==
  /\ At(c, "diff")
  /\ \/ Stream(c, <<"diff", "end">>)
     \/ Fault("fail") /\ Goto(c, "error")
  /\ UNCHANGED <<session, registry, socket, client>>

(* handle_connection reports what its handler returned.                    *)
ReportError(c) ==
  /\ At(c, "error")
  /\ \/ WriteResponse(c, "error")
     \/ ~Reading(c) /\ UNCHANGED socket
  /\ End(c)
  /\ UNCHANGED <<session, registry, client>>

Thread(c) ==
  \/ ReadRequest(c) \/ ReplaceSession(c)
  \/ Find(c) \/ Complete(c) \/ FailEvaluation(c) \/ Diff(c)
  \/ Forward(c) \/ Lookup(c) \/ Check(c) \/ DiffOnce(c) \/ ReportError(c)

-----------------------------------------------------------------------------
(* The client: run_daemon_request.                                         *)

Exit(c, how) == outcome' = [outcome EXCEPT ![c] = how] /\ UNCHANGED printed

ReadResponse(c) ==
  /\ Reading(c)
  /\ socket[c] # << >>
  /\ socket' = [socket EXCEPT ![c] = Tail(@)]
  /\ LET m == Head(socket[c]) IN
       \/ /\ m \in {"event", "diff"}
          /\ printed' = [printed EXCEPT ![c] = @ + 1]
          /\ UNCHANGED outcome
       \/ m = "done"  /\ Exit(c, "ok")
       \/ m = "error" /\ Exit(c, "failed")
  /\ UNCHANGED <<thread, session, registry>>

ExpectDone(c) == Kind(c) # "watch"

(* The connection ends before Done, which only a watch never gets.         *)
ReadEnd(c) ==
  /\ Reading(c)
  /\ socket[c] = << >> /\ At(c, "closed")
  /\ Exit(c, IF ExpectDone(c) THEN "failed" ELSE "ok")
  /\ UNCHANGED <<thread, session, registry, socket>>

Leave(c) ==
  /\ Fault("leave")
  /\ Reading(c)
  /\ Exit(c, "left")
  /\ UNCHANGED <<thread, session, registry, socket>>

Client(c) == ReadResponse(c) \/ ReadEnd(c)

(* Every connection ends, and the sessions are gone.                       *)
Die ==
  /\ Fault("die")
  /\ \E c \in Conn : ~At(c, "closed")
  /\ pc' = [c \in Conn |-> "closed"]
  /\ held' = [c \in Conn |-> None]
  /\ items' = [c \in Conn |-> << >>]
  /\ registry' = [k \in Key |-> None]
  /\ UNCHANGED <<session, socket, client>>

Next ==
  /\ \/ \E c \in Conn : Thread(c) \/ Client(c) \/ Leave(c)
     \/ Die
  /\ UNCHANGED request

Spec == Init /\ [][Next]_vars

(* Every thread and every client goes on as long as it can. No evaluation  *)
(* has to fail, nobody has to leave.                                       *)
FairSpec ==
  Spec /\ \A c \in Conn :
            /\ WF_vars(Thread(c) /\ UNCHANGED request)
            /\ WF_vars(Client(c) /\ UNCHANGED request)

-----------------------------------------------------------------------------
(* Properties.                                                             *)

Steps == {"read", "open", "stream", "lookup", "check", "diff", "error", "closed"}
Items == {"event", "diff", "error", "end"}
States == {"none", "evaluating", "completed", "failed"}
Responses == {"event", "diff", "error", "done"}
Outcomes == {"reading", "ok", "failed", "left"}

DTypeOK ==
  /\ request \in Requests
  /\ pc \in [Conn -> Steps]
  /\ held \in [Conn -> Conn \cup {None}]
  /\ items \in [Conn -> Seq(Items)]
  /\ state \in [Conn -> States]
  /\ found \in [Conn -> 0..Size]
  /\ diffs \in [Conn -> 0..MaxDiffs]
  /\ registry \in [Key -> Conn \cup {None}]
  /\ socket \in [Conn -> Seq(Responses)]
  /\ \A c \in Conn : Len(socket[c]) <= MaxRoom
  /\ outcome \in [Conn -> Outcomes]
  /\ printed \in [Conn -> Nat]

(* An evix that exits with success has printed everything: a connection    *)
(* that ends early, for whatever reason, is never taken for a short answer.*)
SuccessIsWhole ==
  \A c \in Conn :
    outcome[c] = "ok" =>
      CASE Kind(c) \in {"eval", "query"} -> printed[c] = Size
        [] Kind(c) = "diff" -> printed[c] = 1
        [] Kind(c) = "watch" -> At(c, "closed")

Died == \A c \in Conn : At(c, "closed") /\ \A k \in Key : registry[k] = None

(* README: eval stores a warm session for later queries. When evix eval    *)
(* has exited with success, the session of its configuration is completed, *)
(* or another eval or watch of the same configuration has taken its place, *)
(* as long as the daemon lives.                                            *)
EvalLeavesWarm ==
  \A c \in Conn :
    Kind(c) = "eval" /\ outcome[c] = "ok" =>
      \/ registry[KeyOf(c)] = c /\ state[c] = "completed"
      \/ registry[KeyOf(c)] \in Conn \ {c}
      \/ Died

(* The registry only has sessions under the configuration they were opened *)
(* with, and an answer is made from one of them.                           *)
SameConfiguration ==
  /\ \A k \in Key : registry[k] # None => KeyOf(registry[k]) = k
  /\ \A c \in Conn :
       held[c] # None => KeyOf(held[c]) = KeyOf(c)

(* Every request ends, the client's side and the daemon's; a watch ends    *)
(* when it fails or its client's absence is noticed, and may go on.        *)
RequestsEnd ==
  <>(\A c \in Conn :
       Kind(c) # "watch" => At(c, "closed") /\ ~Reading(c))

(* error.rs: SessionStillEvaluating says that the evaluation is running.   *)
StillEvaluating ==
  \A k \in Key :
    registry[k] # None /\ state[registry[k]] = "evaluating" =>
      held[registry[k]] = registry[k]

(* README: evaluate once, query forever.                                   *)
QueryForever ==
  \A c \in Conn :
    Kind(c) = "eval" /\ outcome[c] = "ok" =>
      registry[KeyOf(c)] # None /\ Required(registry[KeyOf(c)])
=============================================================================
