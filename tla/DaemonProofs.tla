---------------------------- MODULE DaemonProofs ----------------------------
(***************************************************************************)
(* Proofs about Daemon, for any number of connections, configurations and  *)
(* derivations, whatever fails, leaves or dies.                            *)
(***************************************************************************)
EXTENDS Daemon, TLAPS

-----------------------------------------------------------------------------
(* The inductive invariant.                                                *)

(* Only eval and watch open a session, once. A completed one has found     *)
(* everything.                                                             *)
Opened(c) ==
  /\ At(c, "read") \/ At(c, "open") =>
       state[c] = "none" /\ found[c] = 0
  /\ At(c, "open") => Kind(c) \in {"eval", "watch"}
  /\ At(c, "lookup") \/ At(c, "check") \/ At(c, "diff") =>
       Kind(c) \in {"query", "diff"}
  /\ At(c, "diff") => Kind(c) = "diff"
  /\ At(c, "check") => held[c] \in Conn
  /\ Kind(c) \in {"query", "diff"} => state[c] = "none"
  /\ state[c] = "completed" => found[c] = Size

(* An opened session is in the registry, or a later one of the same        *)
(* configuration is, until the daemon dies.                                *)
Registered(c) ==
  state[c] # "none" => registry[KeyOf(c)] \in Conn \/ Died

(* How many responses come before Done.                                    *)
Goal(c) == IF Kind(c) = "diff" THEN 1 ELSE Size

(* An error is on its way to the client.                                   *)
Spoiled(c) == \E i \in 1..Len(socket[c]) : socket[c][i] = "error"

(* What has been printed or sent, and what the thread still has to send.   *)
Owed(c) ==
  \/ items[c] = <<"error", "end">>
  \/ /\ Kind(c) = "eval" /\ items[c] = << >>
     /\ printed[c] + Len(socket[c]) = found[c]
  \/ /\ Kind(c) = "eval" /\ items[c] = <<"event">>
     /\ printed[c] + Len(socket[c]) + 1 = found[c]
  \/ /\ items[c] # << >>
     /\ \A i \in 1..Len(items[c]) :
          /\ items[c][i] # "error"
          /\ items[c][i] = "end" <=> i = Len(items[c])
     /\ printed[c] + Len(socket[c]) + Len(items[c]) = Goal(c) + 1
     /\ Kind(c) = "eval" => state[c] = "completed"

(* Done comes last, and only for a whole answer.                           *)
DoneLast(c) ==
  \A i \in 1..Len(socket[c]) :
    socket[c][i] = "done" => i = Len(socket[c]) /\ At(c, "closed")

DoneIsWhole(c) ==
  /\ Reading(c) /\ ~Spoiled(c)
  /\ \E i \in 1..Len(socket[c]) : socket[c][i] = "done"
  => /\ printed[c] + Len(socket[c]) = Goal(c) + 1
     /\ Kind(c) = "eval" => state[c] = "completed"

OkIsWhole(c) ==
  outcome[c] = "ok" =>
    /\ printed[c] = Goal(c)
    /\ Kind(c) = "eval" => state[c] = "completed"

(* A watch never sees Done; what other clients see.                        *)
Watched(c) ==
  /\ \A i \in 1..Len(socket[c]) : socket[c][i] # "done"
  /\ outcome[c] = "ok" => At(c, "closed")

Asked(c) ==
  /\ ~At(c, "stream") /\ ~At(c, "closed") => socket[c] = << >> /\ printed[c] = 0
  /\ ~At(c, "stream") => items[c] = << >>
  /\ At(c, "stream") /\ Reading(c) /\ ~Spoiled(c) => Owed(c)
  /\ DoneLast(c) /\ DoneIsWhole(c) /\ OkIsWhole(c)

Answered(c) == IF Kind(c) = "watch" THEN Watched(c) ELSE Asked(c)

Inv ==
  /\ DTypeOK /\ SameConfiguration
  /\ \A c \in Conn : Opened(c) /\ Registered(c) /\ Answered(c)

-----------------------------------------------------------------------------
(* Sequences.                                                              *)

(* What Append does.                                                       *)
LEMMA Appended ==
  ASSUME NEW S, NEW s \in Seq(S), NEW e \in S
  PROVE  /\ Append(s, e) \in Seq(S)
         /\ Len(s) \in Nat /\ Len(Append(s, e)) = Len(s) + 1
         /\ \A i \in 1..Len(s) : Append(s, e)[i] = s[i]
         /\ Append(s, e)[Len(s) + 1] = e
         /\ Append(s, e) # << >>
OBVIOUS

(* What Head and Tail are.                                                 *)
LEMMA Taken ==
  ASSUME NEW S, NEW s \in Seq(S), s # << >>
  PROVE  /\ Head(s) = s[1] /\ Head(s) \in S
         /\ Tail(s) \in Seq(S)
         /\ Len(s) \in Nat /\ Len(s) >= 1 /\ Len(Tail(s)) = Len(s) - 1
         /\ \A i \in 1..Len(s) - 1 : Tail(s)[i] = s[i + 1]
OBVIOUS

(* The responses to a query.                                               *)
LEMMA Listed ==
  ASSUME NEW n \in Nat
  PROVE  LET s == Answer(n) IN
           /\ s \in Seq(Items)
           /\ Len(s) = n + 1 /\ s # << >>
           /\ \A i \in 1..n : s[i] = "event"
           /\ s[n + 1] = "end"
BY DEF Answer, Items

(* What the sets of values contain, so that proofs need not expand them.   *)
LEMMA Members ==
  /\ \A p \in {"read", "open", "stream", "lookup", "check", "diff", "error",
             "closed"} : p \in Steps
  /\ << >> \in Seq(Items) /\ <<"event">> \in Seq(Items)
  /\ <<"end">> \in Seq(Items) /\ <<"diff">> \in Seq(Items)
  /\ <<"error", "end">> \in Seq(Items) /\ <<"diff", "end">> \in Seq(Items)
  /\ \A s \in {"none", "evaluating", "completed", "failed"} : s \in States
  /\ << >> \in Seq(Responses) /\ "done" \in Responses /\ "error" \in Responses
  /\ \A m \in Items : m # "end" => m \in Responses
  /\ \A o \in {"reading", "ok", "failed", "left"} : o \in Outcomes
  /\ 0 \in 0..Size /\ 0 \in 0..MaxDiffs
BY DaemonAssumption DEF Steps, Items, States, Responses, Outcomes

-----------------------------------------------------------------------------
(* The types.                                                              *)

(* At first every variable has its type.                                   *)
LEMMA InitType == Init => DTypeOK
BY Members, DaemonAssumption DEF Init, DTypeOK

(* A connection's request is one.                                          *)
LEMMA Requested ==
  ASSUME DTypeOK, NEW c \in Conn
  PROVE  Kind(c) \in {"eval", "watch", "query", "diff"} /\ KeyOf(c) \in Key
<1>1. request \in [Conn -> [kind : {"eval", "watch", "query", "diff"}, key : Key]]
  BY DaemonAssumption DEF DTypeOK
<1> QED BY <1>1 DEF Kind, KeyOf

SocketOK == /\ socket \in [Conn -> Seq(Responses)]
            /\ \A c \in Conn : Len(socket[c]) <= MaxRoom

(* What a write does to the sockets.                                       *)
LEMMA Written ==
  ASSUME SocketOK, NEW c \in Conn, NEW m \in Responses, WriteResponse(c, m)
  PROVE  /\ SocketOK'
         /\ \A d \in Conn \ {c} : socket'[d] = socket[d]
         /\ Len(socket[c]) \in Nat /\ Len(socket'[c]) = Len(socket[c]) + 1
         /\ \A i \in 1..Len(socket[c]) : socket'[c][i] = socket[c][i]
         /\ socket'[c][Len(socket[c]) + 1] = m
<1> DEFINE s == Append(socket[c], m)
<1>1. /\ socket' = [socket EXCEPT ![c] = s] /\ Len(socket[c]) < MaxRoom
      /\ socket \in [Conn -> Seq(Responses)]
  BY DEF WriteResponse, CanWrite, SocketOK
<1>2. /\ s \in Seq(Responses)
      /\ Len(socket[c]) \in Nat /\ Len(s) = Len(socket[c]) + 1
      /\ \A i \in 1..Len(socket[c]) : s[i] = socket[c][i]
      /\ s[Len(socket[c]) + 1] = m
  BY <1>1, Appended
<1> HIDE DEF s
<1>3. socket'[c] = s /\ \A d \in Conn \ {c} : socket'[d] = socket[d]
  BY <1>1
<1>4. socket' \in [Conn -> Seq(Responses)]
  BY <1>1, <1>2
<1>5. ASSUME NEW d \in Conn PROVE Len(socket'[d]) <= MaxRoom
  BY <1>1, <1>2, <1>3, DaemonAssumption DEF SocketOK
<1> QED BY <1>2, <1>3, <1>4, <1>5 DEF SocketOK

(* What a read takes from the sockets.                                     *)
LEMMA Received ==
  ASSUME SocketOK, NEW c \in Conn, ReadResponse(c)
  PROVE  /\ SocketOK'
         /\ \A d \in Conn \ {c} : socket'[d] = socket[d]
         /\ Len(socket[c]) \in Nat /\ Len(socket[c]) >= 1
         /\ Len(socket'[c]) = Len(socket[c]) - 1
         /\ \A i \in 1..Len(socket[c]) - 1 : socket'[c][i] = socket[c][i + 1]
         /\ Head(socket[c]) = socket[c][1] /\ Head(socket[c]) \in Responses
<1> DEFINE s == Tail(socket[c])
<1>1. /\ socket' = [socket EXCEPT ![c] = s] /\ socket[c] # << >>
      /\ socket \in [Conn -> Seq(Responses)]
  BY DEF ReadResponse, SocketOK
<1>2. /\ s \in Seq(Responses)
      /\ Len(socket[c]) \in Nat /\ Len(socket[c]) >= 1
      /\ Len(s) = Len(socket[c]) - 1
      /\ \A i \in 1..Len(socket[c]) - 1 : s[i] = socket[c][i + 1]
      /\ Head(socket[c]) = socket[c][1] /\ Head(socket[c]) \in Responses
  BY <1>1, Taken
<1> HIDE DEF s
<1>3. socket'[c] = s /\ \A d \in Conn \ {c} : socket'[d] = socket[d]
  BY <1>1
<1>4. socket' \in [Conn -> Seq(Responses)]
  BY <1>1, <1>2
<1>5. ASSUME NEW d \in Conn PROVE Len(socket'[d]) <= MaxRoom
  BY <1>2, <1>3, DaemonAssumption DEF SocketOK
<1> QED BY <1>2, <1>3, <1>4, <1>5 DEF SocketOK

(* The variables keep their types.                                         *)
LEMMA TypeStep == Inv /\ [Next]_vars => DTypeOK'
<1> SUFFICES ASSUME DTypeOK, \A c \in Conn : Opened(c), [Next]_vars
             PROVE  DTypeOK'
  BY DEF Inv
<1> USE Members DEF DTypeOK, Move, Goto, End, Yield, Stream, Exit,
        thread, session, client
<1>1. ASSUME NEW c \in Conn, UNCHANGED request, Thread(c) PROVE DTypeOK'
  <2>1. CASE ReadRequest(c)
    BY <1>1, <2>1, ZenonT(60) DEF ReadRequest
  <2>2. CASE ReplaceSession(c)
    BY <1>1, <2>2 DEF ReplaceSession
  <2>3. CASE Find(c)
    <3>1. found[c] \in 0..Size /\ found[c] < Size
      BY <2>3 DEF Find
    <3>2. found' \in [Conn -> 0..Size]
      BY DaemonAssumption, <2>3, <3>1 DEF Find
    <3>3. items' \in [Conn -> Seq(Items)]
      BY <2>3 DEF Find
    <3> QED BY <3>2, <3>3, <1>1, <2>3 DEF Find
  <2>4. CASE Complete(c)
    BY <1>1, <2>4 DEF Complete
  <2>5. CASE FailEvaluation(c)
    BY <1>1, <2>5 DEF FailEvaluation
  <2>6. CASE Diff(c)
    <3>1. items' \in [Conn -> Seq(Items)]
      BY <2>6 DEF Diff
    <3>2. diffs' \in [Conn -> 0..MaxDiffs]
      <4>1. CASE UNCHANGED diffs
        BY <4>1
      <4>2. CASE diffs[c] < MaxDiffs /\ diffs' = [diffs EXCEPT ![c] = @ + 1]
        <5>1. diffs[c] + 1 \in 0..MaxDiffs
          BY <4>2, DaemonAssumption
        <5> QED BY <4>2, <5>1
      <4> QED BY <4>1, <4>2, <2>6 DEF Diff
    <3> QED BY <3>1, <3>2, <1>1, <2>6 DEF Diff
  <2>7. CASE Forward(c)
    <3>0. items[c] \in Seq(Items) /\ items[c] # << >>
      BY <2>7 DEF Forward
    <3>1. /\ Head(items[c]) \in Items
          /\ Tail(items[c]) \in Seq(Items)
      BY <3>0, Taken
    <3>2. CASE WriteResponse(c, "done") /\ End(c)
      BY <3>2, Written, <1>1, <2>7 DEF Forward, SocketOK
    <3>3. CASE End(c) /\ UNCHANGED socket
      BY <3>3, <1>1, <2>7 DEF Forward
    <3>4. CASE /\ Head(items[c]) # "end" /\ WriteResponse(c, Head(items[c]))
               /\ items' = [items EXCEPT ![c] = Tail(@)]
               /\ UNCHANGED <<pc, held>>
      BY <3>1, <3>4, Written, <1>1, <2>7 DEF Forward, SocketOK
    <3> QED BY <3>2, <3>3, <3>4, <2>7 DEF Forward
  <2>8. CASE Lookup(c)
    <3>1. registry[SessionKey(KeyOf(c))] \in Conn \cup {None}
      BY Requested DEF SessionKey
    <3> QED BY <3>1, <1>1, <2>8, ZenonT(60) DEF Lookup
  <2>9. CASE Check(c)
    <3>1. held[c] \in Conn
      BY <2>9 DEF Check, Opened
    <3>2. Answer(found[held[c]]) \in Seq(Items)
      BY <3>1, Listed, SMTT(30)
    <3> QED BY <3>2, <1>1, <2>9, ZenonT(60) DEF Check
  <2>10. CASE DiffOnce(c)
    BY <1>1, <2>10, ZenonT(60) DEF DiffOnce
  <2>11. CASE ReportError(c)
    BY <1>1, <2>11, Written DEF ReportError, SocketOK
  <2> QED
    BY <1>1, <2>1, <2>2, <2>3, <2>4, <2>5, <2>6, <2>7, <2>8, <2>9, <2>10, <2>11
    DEF Thread
<1>2. ASSUME NEW c \in Conn, UNCHANGED request, ReadResponse(c) PROVE DTypeOK'
  <2>1. SocketOK'
    BY <1>2, Received DEF SocketOK
  <2>2. printed' \in [Conn -> Nat] /\ outcome' \in [Conn -> Outcomes]
    <3>1. CASE printed' = [printed EXCEPT ![c] = @ + 1] /\ UNCHANGED outcome
      <4>1. printed[c] + 1 \in Nat
        OBVIOUS
      <4> QED BY <3>1, <4>1
    <3>2. CASE Exit(c, "ok") \/ Exit(c, "failed")
      BY <3>2
    <3> QED BY <3>1, <3>2, <1>2 DEF ReadResponse
  <2> QED BY <2>1, <2>2, <1>2 DEF ReadResponse, SocketOK
<1>3. ASSUME NEW c \in Conn, UNCHANGED request, ReadEnd(c) \/ Leave(c) PROVE DTypeOK'
  BY <1>3, ZenonT(60) DEF ReadEnd, Leave
<1>4. ASSUME UNCHANGED request, Die PROVE DTypeOK'
  BY <1>4 DEF Die
<1> QED
  BY <1>1, <1>2, <1>3, <1>4 DEF Next, Client, vars


(* A step of a connection or its client leaves the others alone.           *)
LEMMA Frame ==
  ASSUME DTypeOK, NEW c \in Conn, Thread(c) \/ Client(c) \/ Leave(c),
         NEW d \in Conn \ {c}
  PROVE  /\ pc'[d] = pc[d] /\ held'[d] = held[d] /\ items'[d] = items[d]
         /\ state'[d] = state[d] /\ found'[d] = found[d]
         /\ socket'[d] = socket[d]
         /\ outcome'[d] = outcome[d] /\ printed'[d] = printed[d]
<1> USE DEF DTypeOK, Move, Goto, End, Yield, Stream, Exit, thread, session, client
<1>1. CASE ReadRequest(c) \/ ReplaceSession(c)
  BY <1>1 DEF ReadRequest, ReplaceSession
<1>2. CASE Find(c) \/ Complete(c) \/ FailEvaluation(c) \/ Diff(c)
  BY <1>2 DEF Find, Complete, FailEvaluation, Diff
<1>3. CASE Forward(c)
  BY <1>3 DEF Forward, WriteResponse
<1>4. CASE Lookup(c) \/ Check(c) \/ DiffOnce(c)
  BY <1>4 DEF Lookup, Check, DiffOnce
<1>5. CASE ReportError(c)
  BY <1>5 DEF ReportError, WriteResponse
<1>6. CASE ReadResponse(c)
  BY <1>6 DEF ReadResponse
<1>7. CASE ReadEnd(c) \/ Leave(c)
  BY <1>7 DEF ReadEnd, Leave
<1> QED
  BY <1>1, <1>2, <1>3, <1>4, <1>5, <1>6, <1>7 DEF Thread, Client

-----------------------------------------------------------------------------
(* The sessions.                                                           *)

(* Only ReplaceSession and Die change the registry, and only ReplaceSession*)
(* and Lookup give a thread a session.                                     *)
LEMMA SessionMoves ==
  ASSUME DTypeOK, NEW c \in Conn, Thread(c) \/ Client(c) \/ Leave(c)
  PROVE  \/ ReplaceSession(c)
         \/ Lookup(c) /\ registry' = registry
         \/ registry' = registry /\ held'[c] \in {held[c], None}
<1> USE DEF DTypeOK, Move, Goto, End, Yield, Stream, Exit, thread, session, client
<1>1. CASE ReadRequest(c)
  BY <1>1 DEF ReadRequest
<1>2. CASE Find(c) \/ Complete(c) \/ FailEvaluation(c) \/ Diff(c)
  BY <1>2 DEF Find, Complete, FailEvaluation, Diff
<1>3. CASE Forward(c)
  BY <1>3 DEF Forward
<1>4. CASE Lookup(c) \/ Check(c) \/ DiffOnce(c)
  BY <1>4 DEF Lookup, Check, DiffOnce
<1>5. CASE ReportError(c)
  BY <1>5 DEF ReportError
<1>6. CASE ReadResponse(c)
  BY <1>6 DEF ReadResponse
<1>7. CASE ReadEnd(c) \/ Leave(c)
  BY <1>7 DEF ReadEnd, Leave
<1> QED
  BY <1>1, <1>2, <1>3, <1>4, <1>5, <1>6, <1>7 DEF Thread, Client

(* A session stays with its configuration.                                 *)
LEMMA ConfigurationStep == Inv /\ [Next]_vars => SameConfiguration'
<1> SUFFICES ASSUME DTypeOK, SameConfiguration, [Next]_vars
             PROVE  SameConfiguration'
  BY DEF Inv
<1>1. UNCHANGED request
  BY DEF Next, vars
<1>2. ASSUME NEW c \in Conn PROVE KeyOf(c)' = KeyOf(c)
  BY <1>1 DEF KeyOf
<1>3. ASSUME NEW c \in Conn, Thread(c) \/ Client(c) \/ Leave(c)
      PROVE  SameConfiguration'
  <2>1. \A d \in Conn \ {c} : held'[d] = held[d]
    BY <1>3, Frame
  <2>2. CASE ReplaceSession(c)
    <3>1. registry' = [registry EXCEPT ![KeyOf(c)] = c] /\ held'[c] = c
      BY <2>2 DEF ReplaceSession, SessionKey, DTypeOK
    <3> QED BY <2>1, <3>1, <1>1 DEF SameConfiguration, DTypeOK, KeyOf
  <2>3. CASE Lookup(c) /\ registry' = registry
    <3>1. held'[c] = held[c] \/ held'[c] = registry[KeyOf(c)]
      BY <2>3 DEF Lookup, SessionKey, Goto, DTypeOK
    <3> QED BY <2>1, <2>3, <3>1, <1>1, Requested DEF SameConfiguration, KeyOf
  <2>4. CASE registry' = registry /\ held'[c] \in {held[c], None}
    BY <2>1, <2>4, <1>1 DEF SameConfiguration, KeyOf
  <2> QED BY <2>2, <2>3, <2>4, <1>3, SessionMoves
<1>4. CASE Die
  BY <1>4 DEF Die, SameConfiguration
<1>5. CASE UNCHANGED vars
  BY <1>5 DEF vars, thread, SameConfiguration, KeyOf
<1> QED BY <1>3, <1>4, <1>5 DEF Next


(* What is known of a connection's session stays so.                       *)
LEMMA OpenedStep ==
  ASSUME Inv, [Next]_vars, NEW d \in Conn
  PROVE  Opened(d)'
<1>0. /\ DTypeOK /\ Opened(d) /\ Kind(d)' = Kind(d) /\ Size \in Nat
      /\ held'[d] \in Conn \cup {None} /\ found[d] \in 0..Size
  <2>1. UNCHANGED request /\ DTypeOK'
    BY TypeStep DEF Next, vars
  <2> QED BY <2>1, DaemonAssumption DEF Kind, Inv, DTypeOK
<1>1. ASSUME NEW c \in Conn \ {d}, Thread(c) \/ Client(c) \/ Leave(c)
      PROVE  Opened(d)'
  BY <1>0, <1>1, Frame DEF Opened, At
<1>2. ASSUME Thread(d) PROVE Opened(d)'
  <2> USE DEF Opened, At, DTypeOK, Move, Goto, End, Yield, Stream, thread,
          session, Runs
  <2>1. CASE ReadRequest(d)
    BY <1>0, <2>1, Requested DEF ReadRequest
  <2>2. CASE ReplaceSession(d)
    BY <1>0, <2>2 DEF ReplaceSession
  <2>3. CASE Find(d) \/ FailEvaluation(d)
    BY <1>0, <2>3 DEF Find, FailEvaluation
  <2>4. CASE Complete(d)
    BY <1>0, <2>4 DEF Complete, EvaluationDone
  <2>5. CASE Diff(d) \/ Forward(d)
    BY <1>0, <2>5 DEF Diff, Forward
  <2>6. CASE Lookup(d)
    <3>1. registry[KeyOf(d)] \in Conn \cup {None}
      BY <1>0, Requested
    <3> QED BY <1>0, <2>6, <3>1 DEF Lookup, SessionKey
  <2>7. CASE Check(d)
    BY <1>0, <2>7 DEF Check
  <2>8. CASE DiffOnce(d) \/ ReportError(d)
    BY <1>0, <2>8 DEF DiffOnce, ReportError
  <2> QED
    BY <1>2, <2>1, <2>2, <2>3, <2>4, <2>5, <2>6, <2>7, <2>8 DEF Thread
<1>3. CASE Client(d) \/ Leave(d)
  BY <1>0, <1>3
  DEF Client, Leave, ReadResponse, ReadEnd, Opened, At, thread, session
<1>4. CASE Die
  BY <1>0, <1>4 DEF Die, Opened, At, session, DTypeOK
<1>5. CASE UNCHANGED vars
  BY <1>0, <1>5 DEF vars, thread, session, Opened, At
<1> QED BY <1>1, <1>2, <1>3, <1>4, <1>5 DEF Next

(* A session that was opened is in the registry, or another is.            *)
LEMMA RegisteredStep ==
  ASSUME Inv, [Next]_vars, NEW d \in Conn
  PROVE  Registered(d)'
<1>0. /\ DTypeOK /\ Registered(d) /\ KeyOf(d)' = KeyOf(d) /\ KeyOf(d) \in Key
      /\ state[d] # "none" \/ state[d] = "none"
  <2>1. UNCHANGED request
    BY DEF Next, vars
  <2> QED BY <2>1, Requested DEF KeyOf, Inv
<1>1. ASSUME NEW c \in Conn, ReplaceSession(c) PROVE Registered(d)'
  <2>1. registry' = [registry EXCEPT ![KeyOf(c)] = c] /\ At(c, "open")
    BY <1>1 DEF ReplaceSession, SessionKey
  <2>2. d # c => state'[d] = state[d]
    BY <1>0, <1>1 DEF ReplaceSession, DTypeOK
  <2>3. ~Died
    BY <2>1 DEF Died, At
  <2> QED BY <1>0, <2>1, <2>2, <2>3 DEF Registered, DTypeOK
<1>2. ASSUME NEW c \in Conn, Thread(c) \/ Client(c) \/ Leave(c), ~ReplaceSession(c)
      PROVE  Registered(d)'
  <2>1. registry' = registry
    BY <1>0, <1>2, SessionMoves
  <2>2. state'[d] # "none" => state[d] # "none"
    <3>1. CASE d # c
      BY <1>0, <1>2, <3>1, Frame
    <3>2. CASE d = c /\ (Find(c) \/ Complete(c) \/ FailEvaluation(c))
      BY <3>2 DEF Find, Complete, FailEvaluation
    <3>3. CASE ReadRequest(c) \/ Diff(c) \/ Forward(c) \/ Lookup(c) \/ Check(c)
      BY <3>3 DEF ReadRequest, Diff, Forward, Lookup, Check, session
    <3>4. CASE DiffOnce(c) \/ ReportError(c) \/ Client(c) \/ Leave(c)
      BY <3>4 DEF DiffOnce, ReportError, Client, ReadResponse, ReadEnd, Leave, session
    <3> QED BY <1>2, <3>1, <3>2, <3>3, <3>4 DEF Thread
  <2>3. Died => Died'
    <3>1. ASSUME Died PROVE pc' = pc
      <4>1. At(c, "closed")
        BY <3>1 DEF Died
      <4>2. ~Thread(c)
        BY <4>1 DEF At, Thread, ReadRequest, ReplaceSession, Find, Complete,
           FailEvaluation, Diff, Runs, Forward, Lookup, Check, DiffOnce, ReportError
      <4> QED BY <4>2, <1>2 DEF Client, ReadResponse, ReadEnd, Leave, thread
    <3> QED BY <3>1, <2>1 DEF Died, At
  <2> QED BY <1>0, <2>1, <2>2, <2>3 DEF Registered
<1>3. CASE Die
  BY <1>3 DEF Die, Registered, Died, At
<1>4. CASE UNCHANGED vars
  BY <1>0, <1>4 DEF vars, thread, session, Registered, Died, At
<1> QED BY <1>1, <1>2, <1>3, <1>4 DEF Next


-----------------------------------------------------------------------------
(* The answers.                                                            *)

(* A watch's client never reads Done.                                      *)
LEMMA WatchedStep ==
  ASSUME DTypeOK, NEW c \in Conn, Watched(c), Kind(c) = "watch",
         Thread(c) \/ Client(c) \/ Leave(c)
  PROVE  Watched(c)'
<1>1. ASSUME socket' = socket, outcome' = outcome, ~At(c, "closed")
      PROVE  Watched(c)'
  BY <1>1 DEF Watched
<1>2. ASSUME NEW m \in Responses, m # "done", WriteResponse(c, m),
             outcome' = outcome, ~At(c, "closed")
      PROVE  Watched(c)'
  <2>1. /\ Len(socket[c]) \in Nat /\ Len(socket'[c]) = Len(socket[c]) + 1
        /\ \A i \in 1..Len(socket[c]) : socket'[c][i] = socket[c][i]
        /\ socket'[c][Len(socket[c]) + 1] = m
    BY <1>2, Written DEF SocketOK, DTypeOK
  <2> QED BY <1>2, <2>1 DEF Watched
<1>3. CASE Forward(c)
  <2>1. items[c] \in Seq(Items) /\ items[c] # << >> /\ ~At(c, "closed")
    BY <1>3 DEF Forward, DTypeOK, At
  <2>2. Head(items[c]) \in Items
    BY <2>1, Taken
  <2>3. Head(items[c]) # "end" => /\ Head(items[c]) \in Responses
                                  /\ Head(items[c]) # "done"
    BY <2>2 DEF Items, Responses
  <2> QED BY <1>1, <1>2, <1>3, <2>1, <2>3 DEF Forward, client
<1>4. CASE ReportError(c)
  BY <1>1, <1>2, <1>4 DEF ReportError, client, Responses, At
<1>5. CASE ReadRequest(c) \/ ReplaceSession(c) \/ Find(c) \/ Complete(c)
  BY <1>1, <1>5
  DEF ReadRequest, ReplaceSession, Find, Complete, Runs, At, client
<1>6. CASE FailEvaluation(c) \/ Diff(c) \/ Lookup(c) \/ Check(c) \/ DiffOnce(c)
  BY <1>1, <1>6 DEF FailEvaluation, Diff, Lookup, Check, DiffOnce, Runs, At, client
<1>7. CASE ReadResponse(c)
  <2>1. /\ Len(socket[c]) \in Nat /\ Len(socket[c]) >= 1
        /\ Len(socket'[c]) = Len(socket[c]) - 1
        /\ \A i \in 1..Len(socket[c]) - 1 : socket'[c][i] = socket[c][i + 1]
        /\ Head(socket[c]) = socket[c][1]
    BY <1>7, Received DEF SocketOK, DTypeOK
  <2>2. Head(socket[c]) # "done"
    BY <2>1 DEF Watched
  <2>3. outcome'[c] # "ok" /\ \A i \in 1..Len(socket'[c]) : socket'[c][i] # "done"
    BY <1>7, <2>1, <2>2 DEF ReadResponse, Reading, Exit, DTypeOK, Watched
  <2> QED BY <2>3 DEF Watched
<1>8. CASE ReadEnd(c) \/ Leave(c)
  BY <1>8 DEF ReadEnd, Leave, Exit, Watched, At, DTypeOK, thread
<1> QED
  BY <1>3, <1>4, <1>5, <1>6, <1>7, <1>8 DEF Thread, Client


(* A thread that does not write keeps what was said so far.                *)
LEMMA StillSaid ==
  ASSUME NEW c \in Conn, Asked(c), socket' = socket, outcome' = outcome,
         printed' = printed, Kind(c)' = Kind(c), At(c, "closed") => At(c, "closed")',
         Kind(c) = "eval" /\ state[c] = "completed" => state'[c] = "completed"
  PROVE  DoneLast(c)' /\ DoneIsWhole(c)' /\ OkIsWhole(c)'
BY DEF Asked, DoneLast, DoneIsWhole, OkIsWhole, Reading, Spoiled, Goal, At

(* Before the answer.                                                      *)
LEMMA AskedBefore ==
  ASSUME DTypeOK, NEW c \in Conn, Asked(c), Opened(c), Kind(c) # "watch",
         Kind(c)' = Kind(c), \A s \in Conn : Opened(s),
         \/ ReadRequest(c) \/ ReplaceSession(c) \/ Lookup(c)
         \/ Check(c) \/ DiffOnce(c)
  PROVE  Asked(c)'
<1> USE DEF DTypeOK, Move, Goto, End, Stream, thread, session, client
<1>1. /\ ~At(c, "stream") /\ ~At(c, "closed")
      /\ socket' = socket /\ outcome' = outcome /\ printed' = printed
      /\ state[c] # "completed" \/ state' = state
      /\ Kind(c) \in {"eval", "query", "diff"}
  BY Requested
  DEF ReadRequest, ReplaceSession, Lookup, Check, DiffOnce, Opened, At
<1>2. DoneLast(c)' /\ DoneIsWhole(c)' /\ OkIsWhole(c)'
  BY <1>1, StillSaid
<1>3. socket[c] = << >> /\ Len(socket[c]) = 0 /\ printed[c] = 0 /\ items[c] = << >>
  BY <1>1 DEF Asked
<1>4. CASE ReadRequest(c) \/ Lookup(c)
  <2>1. items'[c] = << >> /\ ~At(c, "stream")'
    BY <1>3, <1>4 DEF ReadRequest, Lookup, At
  <2> QED BY <1>1, <1>2, <1>3, <2>1 DEF Asked
<1>5. CASE ReplaceSession(c)
  <2>1. /\ At(c, "stream")' /\ items' = items /\ found' = found
        /\ found[c] = 0 /\ Kind(c) = "eval"
    BY <1>1, <1>5 DEF ReplaceSession, Opened, At
  <2> QED BY <1>1, <1>2, <1>3, <2>1 DEF Asked, Owed
<1>6. CASE Check(c)
  <2>1. CASE Goto(c, "error") \/ Goto(c, "diff")
    BY <1>1, <1>2, <1>3, <2>1 DEF Asked, At
  <2>2. CASE Required(held[c]) /\ Kind(c) = "query" /\ Stream(c, Answer(found[held[c]]))
    <3>1. held[c] \in Conn
      BY <1>6 DEF Check, Opened
    <3>2. found[held[c]] = Size
      BY <2>2, <3>1 DEF Required, Opened
    <3>3. At(c, "stream")' /\ items'[c] = Answer(Size)
      BY <2>2, <3>2 DEF At
    <3>4. /\ Len(items'[c]) = Size + 1 /\ items'[c] # << >> /\ Size \in Nat
          /\ \A i \in 1..Size : items'[c][i] = "event"
          /\ items'[c][Size + 1] = "end"
      BY <3>3, Listed, DaemonAssumption
    <3>5. Owed(c)'
      BY <1>1, <1>3, <2>2, <3>4 DEF Owed, Goal
    <3> QED BY <1>1, <1>2, <1>3, <3>3, <3>5 DEF Asked, At
  <2> QED BY <1>6, <2>1, <2>2 DEF Check
<1>7. CASE DiffOnce(c)
  <2>1. CASE Goto(c, "error")
    BY <1>1, <1>2, <1>3, <2>1 DEF Asked, At
  <2>2. CASE Stream(c, <<"diff", "end">>)
    <3>1. Kind(c) = "diff"
      BY <1>7 DEF DiffOnce, Opened
    <3>2. At(c, "stream")' /\ items'[c] = <<"diff", "end">>
      BY <2>2 DEF At
    <3>3. Owed(c)'
      BY <1>1, <1>3, <3>1, <3>2 DEF Owed, Goal
    <3> QED BY <1>1, <1>2, <1>3, <3>2, <3>3 DEF Asked, At
  <2> QED BY <1>7, <2>1, <2>2 DEF DiffOnce
<1> QED
  BY <1>4, <1>5, <1>6, <1>7

(* While the evaluation runs.                                              *)
LEMMA AskedWhileRunning ==
  ASSUME DTypeOK, NEW c \in Conn, Asked(c), Opened(c), Kind(c) # "watch",
         Kind(c)' = Kind(c), Find(c) \/ Complete(c) \/ FailEvaluation(c)
  PROVE  Asked(c)'
<1> USE DEF DTypeOK, Yield, thread, session, client, Runs
<1>1. /\ At(c, "stream") /\ At(c, "stream")' /\ items[c] = << >>
      /\ state[c] = "evaluating" /\ Kind(c) = "eval"
      /\ socket' = socket /\ outcome' = outcome /\ printed' = printed
  BY Requested DEF Find, Complete, FailEvaluation, At, Opened
<1>2. DoneLast(c)' /\ DoneIsWhole(c)' /\ OkIsWhole(c)'
  BY <1>1, StillSaid DEF At
<1>3. Reading(c)' = Reading(c) /\ Spoiled(c)' = Spoiled(c) /\ Size \in Nat
  BY <1>1, DaemonAssumption DEF Reading, Spoiled
<1>4. ASSUME Reading(c), ~Spoiled(c) PROVE Owed(c)'
  <2>1. printed[c] + Len(socket[c]) = found[c]
    BY <1>1, <1>4 DEF Asked, Owed
  <2>2. printed[c] \in Nat /\ Len(socket[c]) \in Nat /\ found[c] \in Nat
    BY <1>3
  <2>3. CASE Find(c)
    <3>1. items'[c] = <<"event">> /\ found'[c] = found[c] + 1
      BY <1>1, <2>3 DEF Find
    <3> QED BY <1>1, <2>1, <2>2, <3>1 DEF Owed
  <2>4. CASE Complete(c)
    <3>1. items'[c] = <<"end">> /\ state'[c] = "completed" /\ found[c] = Size
      BY <1>1, <2>4 DEF Complete, EvaluationDone
    <3> QED BY <1>1, <2>1, <2>2, <3>1 DEF Owed, Goal
  <2>5. CASE FailEvaluation(c)
    <3>1. items'[c] = <<"error", "end">>
      BY <2>5 DEF FailEvaluation
    <3> QED BY <3>1 DEF Owed
  <2> QED BY <2>3, <2>4, <2>5
<1> QED BY <1>1, <1>2, <1>3, <1>4 DEF Asked, At


(* An item is passed on, Done is written, or nobody listens.               *)
LEMMA AskedForward ==
  ASSUME DTypeOK, NEW c \in Conn, Asked(c), Kind(c) # "watch",
         Kind(c)' = Kind(c), Forward(c)
  PROVE  Asked(c)'
<1> USE DEF thread, session, client
<1> DEFINE n == Len(socket[c])
           k == Len(items[c])
           m == Head(items[c])
<1>1. /\ At(c, "stream") /\ items[c] # << >> /\ items[c] \in Seq(Items)
      /\ outcome' = outcome /\ printed' = printed /\ state' = state /\ found' = found
      /\ n \in Nat /\ printed[c] \in Nat /\ Size \in Nat
  BY DaemonAssumption DEF Forward, DTypeOK
<1>2. /\ m = items[c][1] /\ m \in Items /\ k \in Nat /\ k >= 1
      /\ Tail(items[c]) \in Seq(Items) /\ Len(Tail(items[c])) = k - 1
      /\ \A i \in 1..k - 1 : Tail(items[c])[i] = items[c][i + 1]
  BY <1>1, Taken
<1>3. /\ \A i \in 1..n : socket[c][i] # "done"
      /\ OkIsWhole(c)' /\ Reading(c)' = Reading(c)
  <2>1. \A i \in 1..n : socket[c][i] # "done"
    BY <1>1 DEF Asked, DoneLast, At
  <2>2. OkIsWhole(c)'
    BY <1>1 DEF Asked, OkIsWhole, Goal
  <2> QED BY <2>1, <2>2, <1>1 DEF Reading
<1>4. CASE m = "end" /\ WriteResponse(c, "done") /\ End(c)
  <2>1. /\ Len(socket'[c]) = n + 1 /\ socket'[c][n + 1] = "done"
        /\ \A i \in 1..n : socket'[c][i] = socket[c][i]
    BY <1>4, Written DEF SocketOK, DTypeOK, Responses
  <2>2. At(c, "closed")' /\ items'[c] = << >>
    BY <1>4 DEF End, Move, At, DTypeOK
  <2>3. DoneLast(c)'
    BY <1>1, <1>3, <2>1, <2>2 DEF DoneLast
  <2>4. ASSUME Reading(c), ~Spoiled(c)'
        PROVE  printed[c] + n = Goal(c) /\ (Kind(c) = "eval" => state[c] = "completed")
    <3>1. ~Spoiled(c)
      <4>1. \A i \in 1..n : i \in 1..Len(socket'[c])
        BY <2>1, <1>1
      <4> QED BY <2>1, <2>4, <4>1 DEF Spoiled
    <3>2. Owed(c)
      BY <3>1, <2>4, <1>1 DEF Asked
    <3>3. \A i \in 1..k : items[c][i] = "end" => i = k
      BY <3>2, <1>2, <1>4 DEF Owed
    <3>4. k = 1
      <4>1. 1 \in 1..k /\ items[c][1] = "end"
        BY <1>2, <1>4
      <4> QED BY <3>3, <4>1
    <3>5. Goal(c) \in Nat
      BY <1>1 DEF Goal
    <3>6. /\ items[c] # <<"error", "end">> /\ items[c] # << >>
          /\ items[c] # <<"event">>
      BY <1>2, <1>4
    <3>7. /\ printed[c] + n + k = Goal(c) + 1
          /\ Kind(c) = "eval" => state[c] = "completed"
      BY <3>2, <3>6 DEF Owed
    <3> QED BY <3>4, <3>5, <3>7, <1>1
  <2>5. DoneIsWhole(c)'
    <3>1. Goal(c) \in Nat /\ Goal(c)' = Goal(c)
      BY <1>1 DEF Goal
    <3> QED BY <1>1, <1>3, <2>1, <2>4, <3>1 DEF DoneIsWhole
  <2> QED BY <1>3, <2>2, <2>3, <2>5 DEF Asked, At
<1>5. CASE /\ m # "end" /\ WriteResponse(c, m)
           /\ items' = [items EXCEPT ![c] = Tail(@)] /\ UNCHANGED <<pc, held>>
  <2>1. m \in Responses /\ m # "done"
    BY <1>2, <1>5 DEF Items, Responses
  <2>2. /\ Len(socket'[c]) = n + 1 /\ socket'[c][n + 1] = m
        /\ \A i \in 1..n : socket'[c][i] = socket[c][i]
    BY <1>5, <2>1, Written DEF SocketOK, DTypeOK
  <2>3. At(c, "stream")' /\ items'[c] = Tail(items[c])
    BY <1>1, <1>5 DEF At, DTypeOK
  <2>4. \A i \in 1..Len(socket'[c]) : socket'[c][i] # "done"
    BY <1>1, <1>3, <2>1, <2>2, SMTT(30)
  <2>5. DoneLast(c)' /\ DoneIsWhole(c)'
    BY <2>4 DEF DoneLast, DoneIsWhole
  <2>6. ASSUME Reading(c), ~Spoiled(c)' PROVE Owed(c)'
    <3>1. ~Spoiled(c) /\ m # "error"
      <4>1. n + 1 \in 1..Len(socket'[c]) /\ \A i \in 1..n : i \in 1..Len(socket'[c])
        BY <2>2, <1>1
      <4> QED BY <2>2, <2>6, <4>1 DEF Spoiled
    <3>2. Owed(c) /\ items[c] # <<"error", "end">>
      BY <3>1, <2>6, <1>1 DEF Asked
    <3>3. CASE Kind(c) = "eval" /\ items[c] = <<"event">>
               /\ printed[c] + n + 1 = found[c]
      BY <3>3, <1>1, <2>2, <2>3 DEF Owed
    <3>4. CASE /\ \A i \in 1..k : /\ items[c][i] # "error"
                                  /\ items[c][i] = "end" <=> i = k
               /\ printed[c] + n + k = Goal(c) + 1
               /\ Kind(c) = "eval" => state[c] = "completed"
      <4>0. k # 1
        <5>1. 1 \in 1..k /\ items[c][1] # "end"
          BY <1>2, <1>5
        <5> QED BY <3>4, <5>1
      <4>1. k > 1 /\ Len(items'[c]) = k - 1 /\ items'[c] # << >>
        <5>1. Len(items'[c]) = k - 1
          BY <1>2, <2>3
        <5>2. k > 1
          <6>1. k \in Nat /\ k >= 1
            BY <1>2
          <6>2. \A x \in Nat : x >= 1 => x = 1 \/ x > 1
            OBVIOUS
          <6> QED BY <4>0, <6>1, <6>2, Zenon
        <5>3. items'[c] = << >> => Len(items'[c]) = 0
          OBVIOUS
        <5> QED BY <5>1, <5>2, <5>3, <1>2
      <4>2. \A i \in 1..k - 1 : /\ items'[c][i] # "error"
                                /\ items'[c][i] = "end" <=> i = k - 1
        BY <3>4, <1>2, <2>3
      <4>3. Goal(c)' = Goal(c) /\ Goal(c) \in Nat
        BY <1>1 DEF Goal
      <4>4. printed[c] + (n + 1) + (k - 1) = Goal(c) + 1
        BY <3>4, <4>3, <1>1, <1>2, SMTT(30)
      <4> QED BY <3>4, <4>1, <4>2, <4>3, <4>4, <1>1, <2>2 DEF Owed
    <3> QED BY <3>2, <3>3, <3>4, <1>1 DEF Owed
  <2> QED BY <1>3, <2>3, <2>5, <2>6 DEF Asked, At
<1>6. CASE ~Reading(c) /\ End(c) /\ UNCHANGED socket
  <2>1. At(c, "closed")' /\ items'[c] = << >>
    BY <1>6 DEF End, Move, At, DTypeOK
  <2> QED BY <1>3, <1>6, <2>1 DEF Asked, At, DoneLast, DoneIsWhole
<1> QED BY <1>4, <1>5, <1>6 DEF Forward

(* An error is written, or nobody listens.                                 *)
LEMMA AskedError ==
  ASSUME DTypeOK, NEW c \in Conn, Asked(c), Kind(c)' = Kind(c), ReportError(c)
  PROVE  Asked(c)'
<1> USE DEF thread, session, client
<1>1. /\ socket[c] = << >> /\ At(c, "closed")' /\ items'[c] = << >>
      /\ OkIsWhole(c)' /\ Reading(c)' = Reading(c)
  BY DEF ReportError, End, Move, At, Asked, DTypeOK, OkIsWhole, Goal, Reading
<1>2. \A i \in 1..Len(socket'[c]) : socket'[c][i] # "done"
  <2>1. CASE WriteResponse(c, "error")
    BY <1>1, <2>1, Written DEF SocketOK, DTypeOK, Responses
  <2> QED BY <1>1, <2>1 DEF ReportError
<1> QED BY <1>1, <1>2 DEF Asked, At, DoneLast, DoneIsWhole

(* The client reads a response.                                            *)
LEMMA AskedRead ==
  ASSUME DTypeOK, NEW c \in Conn, Asked(c), Kind(c)' = Kind(c), ReadResponse(c)
  PROVE  Asked(c)'
<1> USE DEF thread, session, client
<1> DEFINE n == Len(socket[c])
           m == Head(socket[c])
<1>1. /\ n \in Nat /\ n >= 1 /\ Len(socket'[c]) = n - 1
      /\ \A i \in 1..n - 1 : socket'[c][i] = socket[c][i + 1]
      /\ m = socket[c][1]
  BY Received DEF SocketOK, DTypeOK
<1>2. /\ pc' = pc /\ items' = items /\ state' = state /\ found' = found
      /\ Reading(c) /\ printed[c] \in Nat /\ Size \in Nat /\ Goal(c) \in Nat
      /\ Goal(c)' = Goal(c)
  BY DaemonAssumption DEF ReadResponse, DTypeOK, Goal
<1>3. DoneLast(c)'
  BY <1>1, <1>2 DEF Asked, DoneLast, At
<1>4. At(c, "stream") \/ At(c, "closed")
  BY <1>1 DEF Asked
<1>8. ASSUME NEW i \in 1..n, socket[c][i] # m
      PROVE  i - 1 \in 1..Len(socket'[c]) /\ socket'[c][i - 1] = socket[c][i]
  <2>1. i # 1 /\ i - 1 \in 1..n - 1
    BY <1>1, <1>8
  <2>2. socket'[c][i - 1] = socket[c][(i - 1) + 1]
    BY <1>1, <2>1
  <2> QED BY <1>1, <2>1, <2>2
<1>5. CASE m \in {"event", "diff"} /\ printed' = [printed EXCEPT ![c] = @ + 1]
           /\ UNCHANGED outcome
  <2>1. Spoiled(c) => Spoiled(c)'
    BY <1>8, <1>5 DEF Spoiled
  <2>2. printed'[c] + Len(socket'[c]) = printed[c] + n /\ outcome'[c] = "reading"
    BY <1>1, <1>2, <1>5 DEF DTypeOK, Reading
  <2>3. Owed(c) => Owed(c)'
    BY <1>1, <1>2, <2>2 DEF Owed
  <2>4. DoneIsWhole(c)'
    <3>1. ASSUME NEW i \in 1..n - 1, socket'[c][i] = "done"
          PROVE  i + 1 \in 1..n /\ socket[c][i + 1] = "done"
      BY <1>1, <3>1
    <3> QED BY <1>1, <1>2, <2>1, <2>2, <3>1 DEF Asked, DoneIsWhole
  <2>5. OkIsWhole(c)'
    BY <2>2 DEF OkIsWhole
  <2> QED BY <1>2, <1>3, <1>4, <2>1, <2>3, <2>4, <2>5 DEF Asked, At
<1>6. CASE m = "done" /\ Exit(c, "ok")
  <2>1. n = 1 /\ ~Spoiled(c)
    <3>1. 1 \in 1..n /\ socket[c][1] = "done"
      BY <1>1, <1>6
    <3>2. n = 1
      BY <3>1 DEF Asked, DoneLast
    <3> QED BY <3>1, <3>2 DEF Spoiled
  <2>2. printed[c] = Goal(c) /\ (Kind(c) = "eval" => state[c] = "completed")
    <3>1. \E i \in 1..n : socket[c][i] = "done"
      BY <1>1, <1>6
    <3>2. printed[c] + n = Goal(c) + 1 /\ (Kind(c) = "eval" => state[c] = "completed")
      BY <2>1, <3>1, <1>2 DEF Asked, DoneIsWhole
    <3> QED BY <2>1, <3>2, <1>2
  <2>3. outcome'[c] = "ok" /\ printed' = printed
    BY <1>6 DEF Exit, DTypeOK
  <2> QED
    BY <1>2, <1>3, <1>4, <2>2, <2>3 DEF Asked, At, Reading, DoneIsWhole, OkIsWhole
<1>7. CASE m = "error" /\ Exit(c, "failed")
  <2>1. outcome'[c] = "failed" /\ printed' = printed
    BY <1>7 DEF Exit, DTypeOK
  <2> QED
    BY <1>2, <1>3, <1>4, <2>1 DEF Asked, At, Reading, DoneIsWhole, OkIsWhole
<1> QED BY <1>5, <1>6, <1>7 DEF ReadResponse

(* A client of anything but a watch gets a whole answer, or none.          *)
LEMMA AnsweredStep ==
  ASSUME Inv, [Next]_vars, NEW d \in Conn
  PROVE  Answered(d)'
<1>0. /\ DTypeOK /\ Answered(d) /\ Opened(d) /\ Kind(d)' = Kind(d)
  <2>1. UNCHANGED request
    BY DEF Next, vars
  <2> QED BY <2>1 DEF Kind, Inv
<1>1. ASSUME NEW c \in Conn \ {d}, Thread(c) \/ Client(c) \/ Leave(c)
      PROVE  Answered(d)'
  <2>1. /\ pc'[d] = pc[d] /\ items'[d] = items[d]
        /\ state'[d] = state[d] /\ found'[d] = found[d]
        /\ socket'[d] = socket[d]
        /\ outcome'[d] = outcome[d] /\ printed'[d] = printed[d]
    BY <1>0, <1>1, Frame
  <2>2. Watched(d)' = Watched(d)
    BY <2>1 DEF Watched, At
  <2>3. /\ Owed(d)' = Owed(d) /\ Spoiled(d)' = Spoiled(d)
        /\ DoneLast(d)' = DoneLast(d) /\ OkIsWhole(d)' = OkIsWhole(d)
    BY <1>0, <2>1 DEF At, Spoiled, Owed, DoneLast, OkIsWhole, Goal
  <2>4. DoneIsWhole(d)' = DoneIsWhole(d)
    BY <1>0, <2>1, <2>3 DEF DoneIsWhole, Reading, Goal
  <2>5. Asked(d)' = Asked(d)
    BY <2>1, <2>3, <2>4 DEF Asked, At, Reading
  <2> QED BY <1>0, <2>2, <2>5 DEF Answered
<1>2. ASSUME Kind(d) = "watch", Thread(d) \/ Client(d) \/ Leave(d)
      PROVE  Answered(d)'
  BY <1>0, <1>2, WatchedStep DEF Answered
<1>3. ASSUME Kind(d) # "watch", Asked(d), Thread(d) \/ Client(d) \/ Leave(d)
      PROVE  Asked(d)'
  <2>1. \A s \in Conn : Opened(s)
    BY DEF Inv
  <2>2. CASE \/ ReadRequest(d) \/ ReplaceSession(d) \/ Lookup(d)
             \/ Check(d) \/ DiffOnce(d)
    BY <1>0, <1>3, <2>1, <2>2, AskedBefore
  <2>3. CASE Find(d) \/ Complete(d) \/ FailEvaluation(d)
    BY <1>0, <1>3, <2>3, AskedWhileRunning
  <2>4. CASE Forward(d)
    BY <1>0, <1>3, <2>4, AskedForward
  <2>5. CASE ReportError(d)
    BY <1>0, <1>3, <2>5, AskedError
  <2>6. CASE ReadResponse(d)
    BY <1>0, <1>3, <2>6, AskedRead
  <2>7. CASE ReadEnd(d) \/ Leave(d)
    <3>1. /\ pc' = pc /\ items' = items /\ socket' = socket /\ printed' = printed
          /\ outcome'[d] \in {"failed", "left"}
      BY <1>0, <1>3, <2>7
      DEF ReadEnd, Leave, Exit, ExpectDone, DTypeOK, thread
    <3> QED
      BY <1>3, <3>1 DEF Asked, At, Reading, DoneLast, DoneIsWhole, OkIsWhole
  <2> QED
    BY <1>3, <2>2, <2>3, <2>4, <2>5, <2>6, <2>7 DEF Thread, Client, Diff
<1>4. CASE Die
  <2>1. /\ At(d, "closed")' /\ items'[d] = << >> /\ socket' = socket
        /\ outcome' = outcome /\ printed' = printed /\ state' = state
    BY <1>4 DEF Die, At, client, session
  <2>2. Watched(d) => Watched(d)'
    BY <2>1 DEF Watched
  <2>3. Asked(d) => DoneLast(d)' /\ DoneIsWhole(d)' /\ OkIsWhole(d)'
    BY <1>0, <2>1, StillSaid
  <2> QED BY <1>0, <2>1, <2>2, <2>3 DEF Answered, Asked, At
<1>5. CASE UNCHANGED vars
  <2>1. UNCHANGED <<pc, items, state, found, socket, outcome, printed>>
    BY <1>5 DEF vars, thread, session, client
  <2> QED
    BY <1>0, <2>1 DEF Answered, Watched, Asked, At, Reading, Spoiled, Owed,
       DoneLast, DoneIsWhole, OkIsWhole, Goal
<1>6. Kind(d) # "watch" => Asked(d)
  BY <1>0 DEF Answered
<1> QED
  BY <1>0, <1>1, <1>2, <1>3, <1>4, <1>5, <1>6 DEF Next, Answered


-----------------------------------------------------------------------------
(* The theorems.                                                           *)

(* At first everything holds.                                              *)
LEMMA InitInv == Init => Inv
<1> SUFFICES ASSUME Init PROVE Inv
  OBVIOUS
<1>1. DTypeOK
  BY InitType
<1>2. SameConfiguration
  BY DEF Init, SameConfiguration
<1>3. ASSUME NEW c \in Conn PROVE Opened(c) /\ Registered(c) /\ Answered(c)
  <2>1. /\ At(c, "read") /\ state[c] = "none" /\ found[c] = 0
        /\ socket[c] = << >> /\ items[c] = << >> /\ printed[c] = 0
        /\ Reading(c)
    BY <1>3 DEF Init, At, Reading
  <2>2. Kind(c) \in {"eval", "watch", "query", "diff"}
    BY <1>1, Requested
  <2> QED
    BY <2>1, <2>2 DEF Opened, Registered, Answered, Watched, Asked, At, Reading,
       DoneLast, DoneIsWhole, OkIsWhole
<1> QED BY <1>1, <1>2, <1>3 DEF Inv

(* Every step keeps it.                                                    *)
LEMMA StepInv == Inv /\ [Next]_vars => Inv'
BY TypeStep, ConfigurationStep, OpenedStep, RegisteredStep, AnsweredStep DEF Inv

(* It always holds.                                                        *)
LEMMA Invariance == Spec => []Inv
BY InitInv, StepInv, PTL DEF Spec

(* The variables of the daemon and its clients always have their types; no *)
(* socket holds more than MaxRoom responses.                               *)
THEOREM DaemonTypes == Spec => []DTypeOK
BY Invariance, PTL DEF Inv

(* Sessions stay with their configuration: replace_session and warm_session*)
(* never mix two of them up, whoever leaves or dies.                       *)
THEOREM NoMixUp == Spec => []SameConfiguration
BY Invariance, PTL DEF Inv

(* evix exits with success only when it has printed the whole answer, at   *)
(* whatever point its connection, the evaluation or the daemon ends.       *)
THEOREM WholeAnswers == Spec => []SuccessIsWhole
<1>1. Inv => SuccessIsWhole
  <2> SUFFICES ASSUME Inv, NEW c \in Conn, outcome[c] = "ok"
               PROVE  CASE Kind(c) \in {"eval", "query"} -> printed[c] = Size
                        [] Kind(c) = "diff" -> printed[c] = 1
                        [] Kind(c) = "watch" -> At(c, "closed")
    BY DEF SuccessIsWhole
  <2>1. Kind(c) \in {"eval", "watch", "query", "diff"}
    BY Requested DEF Inv
  <2>2. Kind(c) = "watch" => At(c, "closed")
    BY DEF Inv, Answered, Watched
  <2>3. Kind(c) # "watch" => printed[c] = Goal(c)
    BY DEF Inv, Answered, Asked, OkIsWhole
  <2> QED BY <2>1, <2>2, <2>3 DEF Goal
<1> QED BY <1>1, Invariance, PTL

(* When evix eval has exited with success, its session is completed and    *)
(* registered, or a later one of the same configuration is registered.     *)
THEOREM EvalLeavesSession == Spec => []EvalLeavesWarm
<1>1. Inv => EvalLeavesWarm
  <2> SUFFICES ASSUME Inv, NEW c \in Conn, Kind(c) = "eval", outcome[c] = "ok"
               PROVE  \/ registry[KeyOf(c)] = c /\ state[c] = "completed"
                      \/ registry[KeyOf(c)] \in Conn \ {c}
                      \/ Died
    BY DEF EvalLeavesWarm
  <2>1. state[c] = "completed"
    BY DEF Inv, Answered, Asked, OkIsWhole
  <2> QED BY <2>1 DEF Inv, Registered
<1> QED BY <1>1, Invariance, PTL
=============================================================================
