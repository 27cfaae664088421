# Specifications of evix

TLA+ models of evix, the configurations that check them with TLC, and proofs
checked by TLAPS. Paths are relative to `src/crates/` of the repository unless
they begin with `README.md`, which is the repository's own.

Check a configuration with `tlc -config SchedulerRouted.cfg MCScheduler`, and the
proofs with `tlapm SchedulerProofs.tla` and the same for the seven other modules
whose names end in `Proofs`.

## 1. The system

evix evaluates a Nix expression attribute by attribute. A master (in the library
crate `evix`) hands attribute paths to a pool of workers; a worker is a
subprocess that holds the Nix evaluator, or a TCP connection to another machine
that owns such a subprocess. A session wraps evaluations into a warm derivation
graph that can be queried, watched and diffed. `evixd` keeps sessions for
clients on a Unix socket; `evix` is the command line.

| Part | Source | State | Operations |
|---|---|---|---|
| Scheduler | `evix/src/async_master.rs` (`Scheduler`) | queue `todo`, counter `active`, `error` | `next_for`, `complete`, `is_done` |
| Coordinator, worker tasks | `async_master.rs` (`run`, `coordinate`, `dispatch_available`, `worker_task`, `shutdown_workers`) | idle queue, a work channel per worker, one result channel, join handles, cancel flag | dispatch, receive, complete, deliver, stop, join |
| Worker process and its owners | `worker.rs`, `worker_process.rs`, `remote_worker.rs`, `WorkerClient` in `async_master.rs` | subprocess and pipes, `stderr_task`, TCP connection | spawn, handshake, work, restart, stop, serve |
| Session | `session.rs`, `watch.rs`, `run.rs`, `state.rs` | warm state under a read-write lock, `InitialEvaluation`, cancel flag, `completed` notifier, the watcher's channel, the result channels | `stream`, `watch` and their bounded forms, `query_snapshot`, `diff_once`, `cancel`, the watch loop |
| Query filter | `state.rs` (`matches_filter`, `wildcard_matches`) | none | match |
| Daemon and client | `evix-daemon/src/lib.rs`, `evix-cli/src/main.rs` | registry of sessions by configuration; a thread and a runtime per connection | eval, watch, query, diff |
| Daemon start-up | `evix-daemon/src/lib.rs` (`run` to `pid_path`), `evix-cli/src/main.rs` (`run_client_or_local`) | socket file, pid file, up to three processes and a readiness pipe per start | fork, bind, replace a stale socket, report; connect or fall back |
| Evaluation of one attribute | `evix/src/eval.rs` | the gc roots directory | `process_attr`: navigate, call, list, read meta, register a root |
| Arguments | `evix-cli/src/args.rs` | none | `normalize_args`, `command_plan`, `config`, `filter` |
| JSON lines | `evix/src/json.rs` | none | `event_value`, `parse_event_line` |
| Codec, configuration files | `remote_proto.rs`, `serde_config.rs` | none | encode, decode |

How they interact. A session calls `run::evaluate_async`, which calls
`async_master::run` with a callback that receives each event in turn. `run`
spawns a task per worker and drives the scheduler from what they send back. A
worker task calls its `WorkerClient`, which owns a `WorkerProcess` or a
`RemoteWorker`; at the other end of the latter `serve_connection` owns a
`WorkerProcess` again. A daemon connection opens a session on a runtime of its
own, registers it, and forwards its stream to the client.

What is hard, and what has to be true:

* **Scheduler.** A derivation belongs to the workers that list its system, but
  its system is known only once somebody has evaluated it. A worker that does
  not own it sends it back, and the item goes round until an owner has it, or
  everybody has refused. Nothing may be lost, reported twice or refused although
  it has an owner; the counter of work in flight must not wrap; the loop must
  end, and not before the last expanding answer is in.
* **Coordinator.** The tasks interleave at every `await`. Workers die, the sink
  fails, the session is cancelled, the whole future is dropped. Channels are
  bounded and nobody reads results during shutdown. `run` has to return, leave
  no task behind, and say `Ok` only if everything was delivered.
* **Workers.** A subprocess asks to be replaced when it has used too much
  memory, and can die at any point; a remote connection can be lost. Each answer
  must be for the path that was asked about, calls have to return, and no process
  may be left.
* **Session.** Jobs share the warm state with no lock held over an evaluation,
  inputs change under way, notifications are dropped while debouncing. There is
  one initial evaluation, everybody learns its outcome, diffs rebuild the graph.
* **Daemon.** Clients leave, sessions are replaced while others use them. A
  client must not take a broken connection for a short answer, or get the answer
  of another configuration.
* **Start-up.** A start forks twice and answers through a pipe that three
  processes hold; several starts share one socket path and one pid file without
  a lock, after crashes that leave a socket behind. The exit code has to be true,
  a start must neither fail without a reason nor rob a daemon that answers, and a
  command after a successful start has to find the daemon.
* **One attribute.** Nix values are cyclic, throw anywhere, and are functions
  that have to be called on the way; what was listed for a path has to be found
  again from the root. Workers register gc roots in one directory.
* **Command line and filter.** Values look like flags, packed or not; eight
  filter fields are combined. What was meant has to be what is planned and
  answered.

## 2. The modules

```
Evaluation            graph of attributes, events, pool, ownership
  Traversal           what one evaluation promises            (abstract)
  Scheduler           implements Traversal
    SchedulerProofs   theorems
  Coordinator         tasks and channels; implements Scheduler
    CoordinatorProofs theorems, with those of SchedulerProofs
WorkerPool            the pool of a configuration
WorkerService         what a worker task expects of a client  (abstract)
WorkerProcess         subprocess, pipes, methods of the struct
  LocalWorker         implements WorkerService
    LocalProofs       theorems
  RemoteWorker        implements WorkerService over TCP
    RemoteProofs      theorems, with those of LocalProofs
EventJson             events as JSON objects, and back
  Attributes          what a worker does with a path; gc roots
    AttributesProofs  theorems of both
WarmGraph             graphs, diffs
  Session             the jobs of one session, and their channels
    SessionProofs     theorems
Daemon                connections, registry, clients
  DaemonProofs        theorems
Startup               starts, readiness, stale sockets; fallback of commands
Wildcard              wildcard_matches against what matching means
  Filter              matches_filter, which calls it
Arguments             from the words of a command line to a plan
  Query               Arguments and Filter: a query to its answer
CliProofs             theorems of Wildcard, Filter, Startup, Arguments and Query
```

Each `MCx` module has the instances for `x`. An operator named `X_Y` is `X` with
a plausible mistake in it (a missing decrement, a swapped order); `PROJECT.json`
names, for every property, one that makes TLC report it violated, and maps every
definition to the lines it models.

**Evaluation, Scheduler.** `todo`, `active` and `error` are the fields of
`Scheduler`. `Dispatch` and `Done` are the answers of `next_for`; `Complete` is
`complete` with its four cases (an attribute set pushes its children to the back,
an error is reported and may be fatal, a derivation is reported or sent back).
`held` is where an item is while a worker has it, `emitted` counts what reached
the callback. Nix expressions are outside these two: `Answer` maps paths to
events (Attributes says where they come from). `error.clone()` and the labels are
dropped.

**Coordinator.** One step is what happens between two awaits. `cpc` is the
coordinator's program counter, `tpc[w]` that of each `worker_task`, with the item
it has received (`item[w]`), whether that item's event is `Ok` (`good[w]`) and
whether its process's stderr has been read (`spent[w]`); `work` and `results` are
the channels with their capacities 1 and N. `Held`, `Emitted` and `Verdict` map
this state to Scheduler's: what a worker holds is the item in the places between
the queue and the handled result (`Places`). `Faults` says what the environment may
do, so that a run can ask for everything or for a particular trouble.

**WorkerProcess, LocalWorker, RemoteWorker.** `pc`, `task`, `in` and `out` are
the processes with what they are at and their pipes; `handle` is the process the
struct has, `spent` says that its stderr has been read; `method`, `arg`, `child`,
`result` and `status` are the method of the struct that runs, the place it has
reached and its local variables. `worker_process.rs` is the section "The methods"; `worker.rs::run` is
"The process"; `WorkerClient::Local` is LocalWorker; `RemoteWorker` and
`serve_connection` are the two halves of RemoteWorker. Cap'n Proto messages are
records with a type and a path. Whether a process has used too much memory is a
free choice.

**WorkerPool.** `WorkerSpecs` is `worker_specs`, without labels and endpoints. Every
pool of MCScheduler and MCCoordinator is made by it from a configuration, so
that none is checked that the program cannot have (local workers come first,
for instance). `PoolIsSound` in MCScheduler says what a pool has to be, for all
small configurations; TLC evaluates it when `scheduler_routed` starts.

**Attributes, EventJson.** `todo` are the paths nobody has been given, `work[w]`
what worker `w` does with its path, `links` the gc roots. `ProcessAttr` is
`process_attr` up to `register_gc_root`; that function looks for the link and
then makes it, two steps between which another worker may do the same. The graph
of Nix values is a constant; `Force` and the accessors are the external calls.
An event carries its metadata as the set of the places that were read.
`EventValue` and `ParseEventValue` are the two directions of `json.rs`.

**Session.** `graph`, `completed` and `error` are the warm state, `initial` and
`cancel` the session's other fields; `readers` counts queries that hold the read
lock, for which a writer waits; `pc[j]`, `todo[j]` and the others are where a call
of `stream`, `watch` or `diff_once`, and the task it spawns, has got to. An evaluation
visits its paths in any order, in the version of the inputs of that moment. The
wait for the initial evaluation is taken apart (`WaitCheck` to `WaitWake`),
since whether a notification can be missed depends on that order. A bounded
channel is its number of unread results and the job whose sender waits (`pc` is
`flush`); `Receive` is the caller's. Of the pool an evaluation runs on, the module
keeps what becomes of it under `cancel`: a worker drops what it was doing, and the
evaluation returns, or, if another worker is idle, never does (`EvalHangs`; the job is
`lost`). `Abandoned(j)` says that `j` waits for such an evaluation. Coordinator has
the tasks this comes from.

**Daemon.** `pc[c]`, `held[c]` and `items[c]` are a connection's thread, the
session it holds and what its stream has yet to give; `state[c]`, `found[c]` and
`diffs[c]` the session it opened (an abstraction of Session: it finds `Size`
derivations and completes, or fails); `registry` the map of `DaemonState`;
`socket[c]`, `outcome[c]` and `printed[c]` the client's side,
`run_daemon_request`. The stream between a session and its connection is unbounded in
the code; one item that waits to be forwarded stands for it, which bounds the model and
hides nothing of the client's side, where a socket's room is what limits. A malformed request also
stands for one that could not be read, to which there is no answer. What is spawned on a connection's runtime
runs only while its thread waits for it.

**Startup.** `parent[d]`, `child[d]` and `daemon[d]` are the processes of one
start, each with its place in the code; with `--foreground` there is only the
last. `line[d]` is what is in the readiness pipe, whose end the parent sees when
both writers are gone. `path` is what is at the socket path: nothing, a file, a
stale socket, or the socket of a start. `met`, `older` and `excuse` are history:
which other starts were under way at the same time, which daemons answered when
this one began, and which starts had a call fail.

**Wildcard, Filter, Arguments, Query.** The two loops of `wildcard_matches`, a cell
per step; `Glob` says independently what it means to match: the value can be cut
into one piece for each character of the pattern. Filter tries the patterns one
after the other by calls of it, and decides the other fields. Arguments packs
and plans; the parser between the two is the crate `pound`, modelled by how its
options are declared: a word that is none of the command's options is one that cannot be read
(`Invalid`), and the whole is then refused. `meant` is the command line before it was
written down, and the properties compare the outcome with it. Which words tell what was
meant is `Regular`, an assumption on what may be meant: before another setting no
value is missing (the next flag would be the value, rightly), a word behind an
option that takes one value does not look like a packed option (`normalize_args`
looks at every word, and would take it for one), and only an option that collects its
values is given more than once (what `pound` makes of another is not in the repository).

## 3. What is checked

Every configuration sets `CHECK_DEADLOCK FALSE` because the system may stop: an
evaluation ends, a client exits, a match is decided.

| Run | States | Bounds, and why they are enough | Shows |
|---|---|---|---|
| `scheduler_routed` | 2005 | three remotes with a system each, one of which nothing has; nested sets, an error, two derivations. An item can be refused by two workers and then kept. | `OnePlace`, `CompleteMeansAll`; it implements Traversal |
| `scheduler_unowned` | 1161 | the same, but nobody has `arm`: the item is refused by all three | `NeverStalled`, `Terminates` |
| `coordinator` | 83525 | a local worker and two remotes in the order in which both may refuse an `arm` derivation before the local worker keeps it; all five faults | `ChannelsSuffice`, `OkMeansAll`; it implements Scheduler; `RunEnds` (run returns and no task is left, or the coordinator waits for an item that is left with a task that has ended: `Starved`), `CoveredReturnsOk` |
| `coordinator_connect` | 291 | two remotes, either may be unreachable | violated: `EveryItemAnswered` (section 5) |
| `session` | 106337 | four scenarios: a stream and a watch with two changes, failures, dropped receivers, watcher errors and a query; a stream, a watch and a diff with cancel and calls without a runtime; a bounded stream of capacity 0, which becomes 1, and a bounded watch, with cancel; a stream, a watch and a diff on two workers, with cancel. Two paths, three versions in which a derivation changes and one goes. | `OneInitial`, `OutcomeKnown`, `SnapshotWhole`, `ViewIsWarm`, `Backpressure`; `WaitersWake`, `WatchConverges`, `CancelEnds` |
| `session_capacity` | 93 when it is found | a stream of capacity 1 whose results are left unread | violated: `AtMostCapacity` (section 5) |
| `worker_local` | 4486 | three calls of `work`, three processes: a restart after a restart; spawn, handshake and crash failures, the owner dies | it implements WorkerService; `OneProcess`, `LocalEnds` (calls return, stop returns, no orphan) |
| `worker_remote` | 42708 | the same over a connection that may not be made or be reset | it implements WorkerService; `ServerNeverPanics`, `RemoteEnds` |
| `daemon` | 227955 | two evals and a query of one configuration, or a watch and a diff of one and a query of another; failures, clients that leave, malformed requests, the daemon may die | `SuccessIsWhole`, `EvalLeavesWarm`, `SameConfiguration`; `RequestsEnd` |
| `query` | 136097 | patterns of up to three characters over two letters, `*` and `?` for values of up to three; every filter with at most two populated fields, each empty, with one value or with two; command lines of up to three settings with values that are empty, flags, or contain `=`, `,` and the separator | `FilterRight`, `PlanIsMeant`, `QueryIsMeant` |
| `startup` | 133769 | two starts, one of which may meet every fault and every kill, on a file, a stale socket or nothing; three that race; a command, and a user who may not connect | `ExitTellsTheTruth`, `FailsForAReason`, `OlderKept`, `ReadyIsReached`, `StartsEnd` |
| `attributes` | 15613 | two workers; a graph of 25 values with a cycle, functions that can and cannot be called, throws, and a derivation under two paths; meta to a depth of 3 | `JobsComplete`, `MetaComplete`, `LineReadBack`, `LinkOrError` |

Some invariants are proved (section 4) and in no listed run: `TypeOK`,
`ActiveCountsBusy`, `RejectionsSound`, `UnownedIsReal` and `UncoveredNeverCompletes` of
Scheduler, `OneJobEach` of Coordinator, `WTypeOK`, `TableRight` and `ResultRight` of
Wildcard (`FilterRight`, which is checked and proved, rests on their answers),
`DiffAgainstReplaced` of Session, and
the type invariants `CTypeOK`, `LocalTypeOK`, `RemoteTypeOK`, `STypeOK`, `DTypeOK`,
`StartTypeOK` and `AttrTypeOK`. A fatal error ends the
evaluation before much else can happen, so that graph has a configuration of its
own, `SchedulerFatal` (MCScheduler, 1027 states).

Bounds that are not in the code: `MaxWork`, `MaxSpawns` (calls and processes of a
worker), `MaxVersion` and a scenario's `changes` and `readers` (changes of the inputs,
queries at one time), `Size`, `MaxDiffs`, `MaxRoom` (derivations, diffs, and what a
socket holds; one response is enough for a write to wait), `MaxLength` (paths that
are asked for; the graph of the instance is cyclic), `Depth` (64 in the code: the
instance has a cycle, so that any limit is met).

In Attributes the workers are symmetric: the module never tells them apart.

**Fairness.** Scheduler: an idle worker that could take an item gets one and
every answer comes; `Stop` is never forced. Coordinator: tokio polls every task
that can go on, so the coordinator and each worker task are weakly fair; no fault
is. All five faults may happen in `coordinator`, so that `RunEnds` states the exception
there is: the coordinator may be left waiting for a result of a task that has ended with
the item in its hands or in its channel (`Starved`). Session: every job's task is weakly fair, so
an evaluation returns unless it hangs as described; `CancelEnds` excepts only calls on
a pool of several workers that wait for such an evaluation; a write of the warm state is
strongly fair, since tokio's lock is queued and a writer's turn comes though
queries come and go; and whoever keeps the receiver of a bounded stream reads
from it (`FairSpec`; `UnreadSpec` does without, section 5). Workers: processes run,
methods go on while they can, an evaluation of one attribute ends (Nix has no
timeout here: an expression that loops for ever is outside these properties).
Daemon: threads and clients go on while they can. Startup: the processes of a
start go on while they can; none of them waits for anything but the pipe. Nothing
is forced that a caller decides.

## 4. What is proved

SchedulerProofs holds for every graph, also an infinite one, every pool and
every list of systems. It assumes what Evaluation and Scheduler assume of their constants:
`GraphAssumption` (the children of an attribute set are paths, and its names are
distinct, as keys of a Nix attribute set are), `PoolAssumption` (the pool is not
empty, as WorkerPool shows of `worker_specs`) and `NoItemAssumption`.

* `TypeCorrect`, `ActiveCorrect`: from `TypeInv`, the type and the count, which
  is inductive by itself. `active` is the cardinality of the busy workers, so
  `active -= 1` never wraps.
* The other theorems come from one inductive invariant `IInv`. The properties
  alone are not inductive. `OnePlace` survives the pushing of children only if
  nothing is in play before its parent has been reported (`Grounded`) and names
  lead to one parent (`ChildrenDistinct`). `UnownedIsReal` needs that rejecters
  are distinct (`RejectionsSound`), which needs that nobody holds an item it has
  rejected (`StillOpen`): N distinct rejecters out of N workers are all of them.
  `CompleteMeansAll` needs that no reported set has a child in no place
  (`NothingForgotten`): with an empty queue and nobody busy, what has been
  reported is closed under children, and `Reachable` is the least such set.
* `TraversalImplemented`: `Spec => T!Spec`. A completion that is reported is a
  `Report` of Traversal, the end is `Complete`, `Fail` or `Stop`, anything else
  is a stutter.

CliProofs has three parts. That of Filter holds for every pattern, value, filter
and derivation. `Glob` is shown to satisfy the
equations that the code computes by (`GlobNone`, `GlobEmpty`, `GlobStar`,
`GlobChar`), by extending a cut by a piece and taking its last one away; the
inductive invariant adds to the properties that the cells not yet reached in the
first column are as they were initialised, which the code relies on where
`matches[i][0]` is not written. `TypeCorrect`, `TableCorrect` and
`ResultCorrect` follow. `FilterCorrect` is `FilterRight`, about the whole of
`matches_filter`. It assumes `FilterAssumption`: names, patterns and prefixes are
strings of characters, and a derivation's `attr` is its rendered path, as the worker
makes it (eval.rs:37). A call of `wildcard_matches` is many steps of the model, so the
invariant `FInv` contains, besides the invariant of the call under way, that the
field's patterns tried before it do not match (`Searched`: `any` stops at the first
that does), and that what has been decided is right (`Settled`).

That of Startup holds for any set of starts, commands, denied users and scenarios. Its
invariant `Inv` has six parts besides the properties' own terms. `ProcessInv` ties the
three processes and the pipe together: which combinations of places are possible,
and what a line in the pipe says of the daemon. `ExitTellsTheTruth` follows from it,
but is not inductive: that the parent has read `Done` is only known to be true
because `Done` is written by a daemon that has bound. `OlderInv` says that a start never comes to remove the socket of a daemon that
could be reached when it began, `AloneInv` that a start which met no other is alone
while it lasts and keeps what it bound; both are about two starts, and make
`OlderKept` and `ReadyIsReached` follow for any number of them. `FileInv` (nobody
probes or removes what is not a socket) and `FailsForAReason` are about why a start
fails. `StartTypes`, `ExitCode`, `Reasons`, `Kept` and `Reached` are the results.

That of Arguments and Query holds for every command line, of any number of settings, with
any words as values: empty, like flags, with `=` in them. It assumes
`ArgumentsAssumption`: the commands and flags are pieces that words may have, other than
`=` and the separator; the empty word is no number; and what is meant is `Regular`
(section 2). The invariant `ArgInv` says where `normalize_args` is: behind one setting and
before the next (`Behind`), having told the option parser what the settings so far come
to (`ToldUpTo`), or before the value of an option that is not packed (`Within`); so
a value is never looked at as a flag, and the index is never past a setting. Under it
are the lemmas about words: `split_once` gets back what `pack` joined (`PackedPair`,
`PackedTriple`), which needs that the values hold no separator, and `pack` refuses those
that do; where in all the words those of a setting are (`Placing`, `Sitting`); that the
parser finds the option of each setting and goes on behind it (`Continuing`, and by induction
`OptionsAre`), whichever way it was written; and that what is found of a flag is what
was said with it, in that order (`Speaking`, `ValuesAsSaid`). `FlattenSeq`, `Pack`,
`Options` and `Parts` are recursive functions: that there is one, and only one,
is proved for each (`Recursion`), before anything can be said of its values.
`PlansAreMeant` is the result: the whole plan is as meant, with its remotes and their systems,
its numbers and switches (under it `OneAsSaid`, `AmountAsSaid` and `RemotesAsSaid`); and after it `QueriesAreMeant`: `filter` makes of the
plan's prefixes one sequence of names, and `matches_filter` compares the derivation's
path with it. It assumes `QueryAssumption` (`None` is no command line and no sequence of
words). `QueriesAreFiltered` is `FilterRight` of the composition, in which a filter comes
from a plan or from a caller of the library.

DaemonProofs holds for any number of connections, configurations, derivations
and responses in a socket. `SameConfiguration` is nearly inductive; what a client
may be told is not. `SuccessIsWhole` is about the end of a request, so the
invariant follows it from the beginning: what has been printed, what is in the
socket and what the thread still has to send add up to the answer (`Owed`), `Done`
comes last and only where they do (`DoneLast`, `DoneIsWhole`), unless an error is
on its way. `EvalLeavesWarm` needs that an opened session stays in the registry or
is replaced there by one of its configuration (`Registered`). `DaemonTypes`, `NoMixUp`,
`WholeAnswers` and `EvalLeavesSession` are the results.

SessionProofs holds for any jobs, scenarios, contents of the inputs, changes
and queries. `Claimed` says which places a job can be at that runs the initial evaluation,
and gives `OneInitial`; `Completed` ties the warm state to them. `Evaluated` is
`SnapshotWhole` for the graph that is still being collected: everything in it was
there once, and nothing is missing but what has yet to be visited. `Followers`
says of the only replacer what it has read and what its client has, so that
`ViewIsWarm` and `DiffAgainstReplaced` follow; under it is the lemma that applying
`DiffGraphs(g, h)` to `g` gives `h`, for all graphs. `Held` bounds what a bounded
channel has. `OutcomeKnown` is proved for the scenarios that are `Recordable`: no
call is made outside a runtime, or there are no queries. Otherwise the code does
not keep it (section 5).

LocalProofs holds for any paths, calls and processes. The invariant `Inv` is about
the pipes: for each place at which the task and the method can be, it lists what
the process can be doing and what can be in its pipes (`Starting`, `Quiet`,
`Waiting`, `Reported`), so that what is read next is what the code expects, and is for the path that
was asked about. `Solo` says that whoever is alive is the process that is held or being
spawned; `OneProcess` follows. With these, `ServiceImplemented`: each step is one of
WorkerService, or a stutter.

RemoteProofs uses that invariant a second time. `serve_connection` treats its
process as a local worker's task does, so `Task` and `Current` map the server's
state to that task's, LocalProofs is instantiated with them, and its lemmas are cited for the
process and the methods. The rest of `RInv` is about the connection: what may be
on its way between the two ends for each place of the client (`Wire`), as long as
the connection is not lost, and where the server may be when a stderr has been
read (`Unspent`), from which `ServerNeverPanics` follows. `RemoteServes` is the
refinement of WorkerService, of the same kind as for a local worker.

CoordinatorProofs uses SchedulerProofs, instantiated at the refinement mapping:
`P!IInv`, Scheduler's inductive invariant of `Held`, `Emitted` and `Verdict`, is a
part of `CInv`, and a step that is one of Scheduler's keeps it by the theorem
there. What `CInv` adds is where things are. `Placed` says that an item of a
worker is in one of its places only (being handed over, in its channel, with its
task, among the results, or being handled), `Rested` that the idle queue has whoever has none,
once, `Coordinated` and `Closed` what the coordinator's place says of the rest.
`SchedulerImplemented` is that every step is one of Scheduler's or a stutter;
`ChannelsAreEnough` counts: a worker that has something to hand in has nothing in the result channel yet, so
at most N - 1 others have. `OkIsAll` takes `CompleteMeansAll` from SchedulerProofs.
It assumes `CommandAssumption`: items, `StopCommand` and `NoItem` are different.

AttributesProofs holds for any graph of Nix values, finite or not, with cycles or
without, any number of workers, any depth limit and any `MaxLength` of the paths. It assumes `GraphAssumption`
(what is in a value is a value, and the places in a list have texts of their own), `RootAssumption`
(the root is a value, for otherwise the worker ends before it is asked for anything) and
`JsonAssumption` (JSON is never `None`, which stands for no JSON). `AInv` adds to the
type and to `LinkOrError` what an event says of its path (`Reported`: each is
`process_attr`'s answer, but for the error of a gc root), what the traversal has still to do
(`Traversed`: a path was asked for if and only if its parent's answer lists it)
and who is registering what (`Registered`: a worker that has not seen a link which
is there now is one of those that raced for it). `GcRootsAreTrue`, `EventLines`
and `AttributesTypes` follow at once. `JobsAreComplete` and `MetaIsComplete` need
inductions: over the length of a path, that a path leads by `navigate` to what it
means and that it is asked for if all the sets above it are entered; over the depth, that a
place is in the JSON of a value exactly if the descent to it stays readable
(`Json` against `Descent`, which go in opposite directions). The library's induction
theorems cannot be used here, since they take an operator as a parameter; `Least` and
`Induction` derive from the well-foundedness of `Nat` what is needed, for a set
instead of an operator. Both theorems are for a root that is not called a second time by
being called once (`OneCall`): otherwise every listed name is an error (`ListedAreFound`,
section 5), and the instances that TLC checks leave such a root to `AttributesGaps` too.

Only model-checked is liveness (termination, convergence, that calls return), which is
outside the prover: `Terminates`, `RunEnds`, `CoveredReturnsOk`, `WaitersWake`,
`WatchConverges`, `CancelEnds`, `LocalEnds`, `RemoteEnds`, `RequestsEnd` and `StartsEnd`.
Every other property of a run is stated by a theorem.

## 5. Where the code and its documentation part

Met while modelling. The first two are listed runs; the others have configurations
that show them. Those named `...Gaps` have several properties that are violated:
with `tlc -continue` TLC reports each of them. The listed runs leave the
circumstance out, and so check the property for everything else.

| Configuration (module) | Property | What happens |
|---|---|---|
| `CoordinatorConnect` (MCCoordinator) | `EveryItemAnswered` | `dispatch_available` puts an item into the channel of a worker that is still connecting. If the connection fails, the task ends and the item is gone; with a second worker alive `coordinate` waits for its result for ever. README.md:222 says that each worker returns one event for the path it pulls. |
| `SessionCapacity` (MCSession) | `AtMostCapacity` | README.md:386 says that a bounded stream holds at most `capacity` pending results. Every clone of the sender has a slot of its own and one is cloned for each event, so that `capacity + 1` are pending while the evaluation waits. What does hold is `Backpressure`: one more, and only while its sender waits. |
| `CoordinatorCancel` (MCCoordinator) | `CancelReturns` | A worker that sees the cancel flag drops its item; the coordinator reads the flag only at the top of its loop, and waits in `recv`. |
| `SessionGaps` (MCSession) | `AgainstReplaced` | `diff_once` beside a watch: either may replace the graph the other is comparing with, and an older evaluation may overwrite a newer. `evix/src/session.rs:318` says the diff is against the warm graph. |
| `SessionGaps` (MCSession) | `NothingMissing` | A cancelled run returns `Ok`, so what it has is stored as a completed graph. |
| `SessionGaps` (MCSession) | `OutcomeKnown` | Without a runtime the error is stored with `try_write`, which a query makes fail; the evaluation counts as finished with no outcome. |
| `SessionGaps` (MCSession) | `CancelAlwaysEnds` | With two workers, one drops its item when it sees the cancel flag (`async_master.rs:429`) while the coordinator waits for a result (`:347`) and the other worker keeps the channel open: the evaluation never returns, and the session's jobs wait for it. |
| `SessionUnread` (MCSession) | `CancelEnds` | A bounded stream whose receiver is kept but not read: the sender waits for it and does not look at the cancel flag. |
| `WorkerDiscards` (MCLocalWorker) | `AnswerDelivered` | The process answered and asked to be replaced; the respawn fails and the answer is not returned. |
| `WorkerRestart` (MCRemoteWorker) | `RestartMeansRespawned` | README.md says that the remote has respawned when it sends `Restart`; it sends it before. |
| `WorkerUnreadable` (MCLocalWorker) | `LocalAnswers` | An event that the reader's limits reject: `exit_error` waits for a process that waits for its next request. |
| `DaemonGaps` (MCDaemon) | `StillEvaluating` | The client of an eval leaves, the evaluation ends with the connection's runtime; the session stays registered and "still evaluating" (`evix/src/error.rs:12`). |
| `DaemonGaps` (MCDaemon) | `QueryForever` | A second eval of a configuration takes the warm session out of the registry when it starts (README.md:33, "Evaluate once, query forever"). |
| `StartupGaps` (MCStartup) | `SocketKept` | Two starts find the same stale socket dead; the second removes the socket the first has bound since, and both report success. |
| `StartupGaps` (MCStartup) | `PidServes` | The pid file is written before the probe: a start that is refused has replaced the number of the daemon that serves. |
| `AttributesGaps` (MCAttributes) | `ListedAreFound` | A root that is a function of a function: `eval_root` calls it once and listing calls it again, entering a child of it does not, so that every listed name is an error. |
| `AttributesGaps` (MCAttributes) | `ErrorMeansUnlinked` | Two workers come to one derivation by two paths; the second `symlink` fails, and `gcRootError` is reported for a root that is there. |

## 6. What is not modelled

Left out for good:

* what the Nix C API does: forcing, calling, `apply_nix_options`,
  `build_eval_state`, `build_auto_args`, `eval_flake`; the graph of values is a
  constant, numbers and paths in meta are like strings;
* the encoding of messages (`remote_proto.rs`): a loop over fields without state;
  the models of the workers use its messages, and its limits only where they
  reject one (`WorkerUnreadable`);
* configuration files (`serde_config.rs`) and the public types, whose JSON is
  derived; packaging, the Nix module, the benchmarks;
* which paths of a flake are watched (`watched_paths`): what the `notify` crate
  reports for a path is outside the repository, so no property could be about it;
  the model's watcher reports every change;
* of the command line, the option parser itself, the verbosity flags and the second name
  of `--max-memory` (`--max-memory-size`), which is one more spelling of the same option; printing;
* a connection that goes dead unnoticed: neither end has a timeout, so nothing
  would ever end.

What is left is liveness, which only the model checker can reach, and the parts above,
which are outside the repository or have no state.
