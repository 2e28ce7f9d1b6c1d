# Specifications of the nate_ntm swarm runtime

nate_ntm runs a *swarm*: a set of coding agents of one project, supervised by one
runtime process. The process loads or creates the swarm's metadata, launches the
agents, keeps a bounded stream of events per agent, and offers a JSON-RPC control
API over WebSockets through which clients read the state, subscribe to events and
ask for a shutdown. This directory holds TLA+ specifications of it, the TLC
configurations that check them on small instances, and TLAPS proofs.

Source paths below are relative to `src/src/nate_ntm/` unless they start with `src/`.

## 1. Inventory

| Component | State | Operations | Hard behaviours |
|---|---|---|---|
| Agent event streams, `runtime/events.py` | a list of events per agent, at most `max_events` (200) | `append` (with trimming), `get_events(limit)` | numbering by position, wrap-around, limits 0 / negative / None |
| Agent supervisor, `runtime/agents.py` | writes `RuntimeState.agents`: status, last error, handle, stream; a callback per event | `ensure_agent_runtime_state`, `launch_all_agents`, `mark_agent_failed`, `restart_agent`, `_append_runtime_event` | any order of failures and restarts, before and after start and stop |
| Scheduler, `runtime/scheduler.py` | `running` | `start` (register, launch, poll mail), `stop` (called by tests only) | idempotence, one mail report per start |
| Daemon, `runtime/daemon.py`, `runtime/state.py` | `RuntimeState.status`, `shutdown_requested` | `create`, `resume`, `start`, `request_shutdown`, `mark_stopped`, `get_swarm_overview`, `get_agent_detail`, `_compute_agent_counts` | lifecycle under calls in any order; views computed from two sources (metadata and runtime state) |
| Metadata store, `runtime/metadata_store.py` | `swarm.json`, `agents/*.json` | `_atomic_write_json`, `save_swarm_metadata`, `save_all_agent_metadata`, `load_swarm_metadata` | kills, write errors and power failures between file operations; several processes |
| Control API server, `api/server.py` | subscription registry and id counter | `subscribe_events`, `unsubscribe_events`, `shutdown_runtime`, `build_agent_event_notifications`, reads | racing shutdowns, routing by filter |
| WebSocket transport, `api/jsonrpc_ws.py` | id -> connection, connection -> ids | `_handle_client`, `_cleanup_client`, `publish_event`, `start`, `stop` | three tables kept by handlers of different connections; sends that wait or raise in the middle of a publication |
| Serve loop and bridge, `runtime/runner.py` | the polling loop, one publish task per event | `create_runtime_control_context`, `serve_runtime_control_api` | bind failure, shutdown request, signal, cancellation while stopping |
| JSON-RPC dispatch, `api/jsonrpc.py` | none | `dispatch_request`, `build_events_notify_messages` | error classification |
| JSON-RPC client, `api/client.py` | one connection per call | `call_async`, `call_for_result` | first frame taken for the response, no time limit on it, lost answers |
| Configuration, `config/runtime_config.py` | none | path, port and option resolution | precedence rules, paths with `..`, the same options resolved again by the client |
| Agent Mail and ACP adapters, `runtime/agent_mail_client.py`, `runtime/acp_client.py` | unread flags, identities and conversations (in memory) | `ensure_project`, `ensure_agent_identity`, `ensure_conversation`, `get_unread_mail_flags`, `start_turn` | identifiers must come out the same in every process |
| Command line, `cli.py` | none | `runtime start`, `api call` | refusals in the right order, starts that fail half-way, exit codes |

How they interact. `cli.py` builds a config and calls `runner.py`, which creates or
resumes a daemon (reading and writing the store), builds the API server and the
WebSocket server, and sets the supervisor's event callback to the *bridge*: every event
the supervisor appends becomes an asyncio task that runs `publish_event`. The WebSocket
handlers call the API server synchronously; the API server calls the daemon
synchronously. Everything runs on one asyncio thread, so interleaving happens at
awaits only: receiving and sending frames, the polling sleep, and closing the server.
Runtimes meet on disk, where two projects may share a metadata directory, and at the
address of the control API, which is the same for all projects by default.

The correctness properties of each component are the ones of section 3; the hazards they
are aimed at are listed in `PROJECT.json` at their lines.

## 2. Modules

| Module | What it is |
|---|---|
| `EventStreamOps` | trimming append, limited read and event numbering as operators |
| `EventStream` | the state machine of one stream with its reader, over `EventStreamOps` |
| `EventLog` | abstract: an unbounded log of which a reader is shown a window |
| `EventStreamOpsProofs` | lemmas on the operators of `EventStreamOps` |
| `EventStreamProofs` | theorems of `EventStream` |
| `Lifecycle` | abstract: a daemon that is started once, asked to shut down, and stopped |
| `Runtime` | daemon lifecycle, supervisor, scheduler and views, over `EventStreamOps` |
| `RuntimeProofs` | theorems of `Runtime` |
| `ControlApi` | connections, subscriptions, publication and the serve loop |
| `PubSub` | abstract: a publish/subscribe service without connections, handlers or tasks |
| `PubSubProofs` | what `PubSub` promises, proved of it |
| `ControlApiProofs` | theorems of `ControlApi`: tables, lifecycle, what clients receive; the refinement of `PubSub` |
| `JsonRpc` | the judgement of a frame: carried out, or which error code |
| `Calls` | callers of the control API, their connections and the server's end, over `JsonRpc` |
| `CallsProofs` | theorems of `Calls` |
| `MetadataStore` | files, processes that create and resume, failures |
| `AtomicStore` | abstract: each path is a register of whole records |
| `MetadataStoreProofs` | theorems of `MetadataStore` |
| `RuntimeConfig` | the resolution of a configuration as operators |
| `Startup` | processes that run `nate-ntm runtime start`, over `RuntimeConfig` |
| `StartupProofs` | theorems of `Startup` |
| `MC*` | instances for TLC |

### EventStream
One action per method: `AppendRuntimeEvent` is `AgentSupervisor._append_runtime_event`
(number the event, append, trim), `Read` is `AgentEventStream.get_events`. An event is its
id and its type; the timestamp and the data are left out. `log` records every append,
so that "the newest" has a meaning; it is the log of `EventLog`.

### Runtime
None of the modelled functions awaits, so each public call is one step, and calls come in
any order, before the start too: the serve loop, the command line, handlers and embedding code
all hold the daemon, its scheduler and its supervisor. `EnsureAgentRuntimeState` and
`EnsureAgentsRegistered` make entries that are Starting and have no handle (`Fresh`);
`LaunchAllAgents` gives a handle to the agents that it registers itself (`Launched`) and skips those that
have an entry, so that agents registered before the start are not launched by it; a restart is what
gives them a handle. `BringUp` is what
`scheduler.start` does unless it runs: launch, then the poll of unread mail. `SchedulerStart`
is that call on its own and `Start` is `daemon.start` with the call in it; `SchedulerStop` only
clears the flag, so the next start polls again. `mark_stopped`
does not stop the scheduler, and all other calls are still possible after it; the
model keeps both. `RuntimeStatus` has a value `Failed` in the source that nothing assigns;
it is left out. The three views are operators over a state: what the API returns in it.
The Agent Mail service is external: its unread flags change at will.

`Runtime` and `ControlApi` both model the daemon's status and its request to shut down, the one among
agents, the other behind the server. That they model the same daemon is what
`Lifecycle` is for: both implement it (`ImplementsLifecycle`).

### ControlApi
A step is the run of one coroutine between two awaits that are not ready. A publish task
that sends to several connections is cut into one step per send; `current` names the task
that has the thread, and while it does nothing else steps.
* `Serve`, `BindFails`, `PollSeesRequest`, `Cancel`, `FinishStop`, `InterruptStop` are the
  serve loop. Bind and `daemon.start` are one step because `websockets.serve` returns
  without yielding after the bind and `daemon.start` is synchronous. `InterruptStop` is a second
  cancellation that arrives in `wait_closed()`.
* `Subscribe`, `Unsubscribe`, `Shutdown`, `OtherRequest` are `_handle_client` with what it
  calls. The response may be written at once, have to wait for the transport (`Drained`) or
  raise (`EndHandler` runs the `finally`). A request received before a close is handled
  after it. `HandlerRaises` is a frame whose bytes are not UTF-8: `json.loads` raises what the
  handler does not catch, its `finally` cleans up and the library closes the connection.
* `Emit` is the bridge, `StartTask` ... `FinishTask` are `publish_event`: the list of messages
  is built when the task first runs, and each send looks up the connection again.
* `sent` is a history of what was written to each connection, without the answers to
  requests that change nothing.

Of the websockets library the model assumes what the module's header lists; it merges the
connection states CLOSING and CLOSED. It allows more than asyncio does in two places: a
queued task may be delayed at will, and tasks that wait for the same transport may resume in
any order. Both only add behaviours. Events emitted by `daemon.start` itself (mail found at
startup) are left out here: no connection exists yet, so their publication sends nothing.
So are events emitted after the serve loop has ended (`Emit` needs it to serve or to close): the code
would still create publish tasks for them if the event loop went on, as it does in tests; after
a complete stop there is no subscription left that they could match.

`ImplementsPubSub` maps this to `PubSub`: the registry is what subscriptions exist, the
connection a subscription is mapped to is its owner, the list of messages a task builds is
the audience of its event, and the frames written are what was delivered. Whatever handlers,
tables, slow transports and lost connections do, each step is a step of that service or
changes nothing it shows. In particular a subscriber gets an event at most once, only if it
subscribed before the publication started, in the publication's audience, and not after its
subscription has ended; and a publication that completes has reached every member of its audience
whose subscription still exists (`PubSub!Promise`, which is proved of `PubSub` and carried over).
`PubSub` has a step `Lose` because the code has one (see
`lost_notification`).

### JsonRpc and Calls
`JsonRpc` has one operator per method of `dispatch_request` that says which error a request
gets, with the checks in the code's order. Of parameters it keeps what decides: whether they are there,
whether a list is one, and what `int()` makes of a number (a value, a `ValueError` or
`TypeError`, or the `OverflowError` of an infinite one, which is not caught for parameters).

`Calls` is the use of the API by `call_async`: `Call`, then `Receive` or `ReceiveRaises`. The server's
`Handle` judges a frame, carries it out and writes the answer in one step: whether the write has to wait
is in `ControlApi` and cannot be told by a caller. `Break` loses a connection
with the request or any end of the answers still on their way; `Die` kills the server. `did` is a
history of what each caller's request has changed.

### RuntimeConfig and Startup
`RuntimeConfig` translates `load_runtime_config` helper by helper. A given path is
absolute or not and a sequence of names, among them `..` and `~`; `Resolve`, `ExpandUser` and
`AsPath` are what `pathlib` does with it. Where the code tests "is None" and where it tests truth is
kept: an empty variable is no value for a path, host or swarm, but is one (and an error) for the port.

`Startup` composes it with the command line, `RuntimeDaemon.create` and `.resume` and the bind.
`Invoke` is the command up to the startup checks, with the refusals in the order in which Typer, the
configuration and the command make them. `BeginCreate`, `SaveSwarm`, `SaveAgent` and
`SaveFails` are `create`, a save being one step as `MetadataStore` justifies. `BeginResume` and
`LoadSwarm` are `resume`: load, validation against the configuration, and the check of recorded
identifiers against those the adapters derive. `RunOnce`, `Serve` and `BindFails` are what follows. The
start of the daemon comes after the bind; `ran` is what it launched. `fresh` is a history
of which directories were empty at first.

### MetadataStore
A process is `create` or `resume` up to a running daemon, and ends at any time (`Exit`).
Each save is the code's sequence: create a temporary file, write, fsync, `os.replace`; any of
them may fail (`SaveFails`). `now` is the file visible under a path and `disk` the one that the
directory on disk names: a rename changes `now` only, as the code never syncs a directory, and the
file system writes an entry back whenever it likes (`FlushDir`). `PowerFailure` stops the
machine: each path shows what the disk names, so that all renames since the last write-back
are undone, however many there were and whoever made them, and data that was not synced may be lost. Temporary files that are left behind are not modelled: no load
reads them. What a create writes is told apart by its author and its number of agents, as
ids, identities and conversations are functions of the configuration; the checks of `resume`,
which files of another project or swarm fail, are in `Startup`. `Overlap` states an operating assumption:
whether two processes of one project may be alive at once.

`AtomicStore` is what remains of this for the user of a path: a register that holds nothing or a whole
record, whose record reaches the disk later, unseen (`Settle`), and which falls back to the record on disk when
the power fails. Nothing is promised of how old that record is.

## 3. Runs

| Run | Instance | What it shows |
|---|---|---|
| `event_stream` | a stream of 3, 6 appends, limits -1..4 and None | the stream holds the newest events; reads answer like a window of an unbounded log; exact numbering |
| `event_ids` | same | **violated**: ids are not unique once the stream is full |
| `runtime` | 2 agents, streams of 2, 4 events each, all calls in any order | a runtime that is up has all agents registered; status, error and events agree; mail is reported once per start of the scheduler; the views agree with each other and with all that was ever appended |
| `control_api` | 2 clients (one slow), 1 agent, filters for it and for another, 2 subscriptions, 2 events, 3 requests that change something | the three tables agree, complete stop is clean, notifications only to whom they are due and once, one accepted shutdown, only a publication that waited is overtaken; the server implements `PubSub` |
| `control_api_liveness` | 2 clients (one slow), 2 subscriptions, 1 event, 3 requests | shutdown completes, lost clients are cleaned up, publications end |
| `lost_notification` | 2 fast clients | **violated**: a closed connection costs the clients behind it their notification |
| `signal_stop` | 2 clients | **violated**: a signal goes from Running to Stopped |
| `store_overlap` | 3 processes at once, 1 agent | files are whole, also when a power failure undoes the renames of several processes; complete after a create; the store implements `AtomicStore` |
| `store_one_at_a_time` | 3 processes one after another, 2 agents | nothing is overwritten; a running daemon agrees with the disk. Says nothing of racing creates |
| `create_race` | 2 processes at once | **violated**: the second create replaces the first one's swarm |
| `startup` | 2 processes, 70 command lines: 2 projects, own or shared metadata directories, 2 swarm ids and one with spaces around it, odd directories, ports, hosts | a failed create is recovered by a resume, agents are those created for the project, failed starts launch nothing, the configuration is stable and the client finds its server |
| `calls` | 2 callers, one frame of each of 26 kinds, 2 events | answers are the caller's own, tell what happened and blame the right party; every call ends |

**Why the bounds are enough.** `MaxEvents` 3 with 6 appends fills and wraps the stream
completely; limits pass both of its ends. Two agents are enough for counts and views, which treat
agents alike (the run uses that symmetry). With two clients, one slow, and two subscriptions
there is a client that owns both, one each, and one that drops the other's; a task can wait
in front of, between and behind sends; two events give every overtaking of a pair of
publications. The order properties speak of pairs of frames. In `startup` two processes give
every race that a property speaks of, and as a process can end anywhere, the second one is also
the retry of the first; the environments differ from the empty one in one variable each, since
each option is resolved from its own variable. In `calls` a property relates at most two callers
(two shutdowns, or an event caused while another one subscribes). Three store processes give
two creates and a resume in any overlap; files of different agents are handled alike. The
bounds of the models (`MaxAppends`, `MaxSubs`, `MaxEvents`, `MaxRequests`) are guards of the
actions that name them and limit nothing else.

**Deadlock** is checked in `EventStream` (which can always read) and `Runtime`. `ControlApi`
and `MetadataStore` really may stop (the server has stopped, every process has ended), so their
configurations turn the check off; that the server does not stop early is a liveness property.
So may `Startup` (every process has ended) and `Calls` (every call has ended), where `CallsEnd` says
that no call is left behind.

**Fairness** (`ControlApi!FairSpec`). The event loop runs every ready coroutine: weak fairness
of `PollSeesRequest`, `FinishStop`, `CloseConn` and `EndHandler`. A stalled transport drains or
loses its connection, since the library pings its peers and fails those that do not answer
(`StallEnds`), and closing is bounded by the library's close timeout. Publish tasks get strong
fairness: a transport may fill again and again, but the sends that wait for it do so in a
first-come first-served lock, so none is passed over for ever. Nothing is assumed about
clients, signals or the emission of events.

In `Calls!FairSpec` the client's event loop runs (weak fairness of `Receive` and
`ReceiveRaises`), the server handles what it has received and its closing goes on. Nothing makes
a server close, a network break or an event happen. A machine that vanishes without a trace is seen
by the library's keepalive as a broken connection, and is `Break` here; that it is
noticed in the end is not needed, since a live server answers.

**What the violated runs say.**
* Event ids are `len(stream) + 1`, and the length stops at the bound; `runtime/events.py` calls the
  id unique within the stream. `IdFollowsPosition` states what the ids are instead.
* `publish_event` has no error handling around a send. Between the close of a connection and
  the clean-up of its handler, the send raises and the rest of the loop is lost.
* A signal cancels the serve loop, whose `finally` stops the server and marks the daemon stopped;
  `data-model.md` has Running go to ShuttingDown.
* The existence check of `create` and its later rename are not atomic.

A create that dies between `swarm.json` and the agent files leaves a swarm without
some of them. That is harmless so far: nothing but tests reads an agent's file, and
`AgentsAsCreated` shows that a resume runs all the agents nevertheless.

**Corners that the properties name.** `UpMeansRegistered` says that a runtime that is up has all its agents
registered, not that they are launched: `launch_all_agents` launches only agents that had no entry when
it was called, where its docstring says all that are Starting without a handle. In the program the
scheduler is its only caller and the entries are its own. Tests of the scheduler and the
supervisor have entries before the launch and rely on it to leave them as they are. Where a test writes such an entry
by hand (`test_start_and_status_us1.py` starts a runtime with an Idle agent that has no handle), it is in a
state that no sequence of calls reaches and the model does not have.
`RetryRecovers` excepts swarm ids with spaces around
them: the id is stripped on load only, so such a swarm is created and can never be resumed.
`MetadataNotAbove` excepts the root of the file system, which is its own parent and so counts as
"adjacent" to every project right under it. `CodeFitsFault` excepts infinite numbers, a
client's mistake that is reported as an internal error.

## 4. Proofs

Each theorem holds for every value of the constants. The argument is always the same: an
invariant that is inductive, proved for `Init` and for each action, of which the property is a
consequence; refinements and action properties are proved step by step from that invariant.

**`EventStreamProofs`** (assumes `MaxEvents > 0`, which `__post_init__` enforces).
`TypeCorrect`, `StreamHoldsNewest`, `IdsFollowPosition`, `StreamImplementsLog`. The invariant
is `TypeOK`, `HoldsNewest` and `IdFollowsPosition` together: the length of the stream, from which
the next id is computed, is known only because the stream is known to hold the newest events,
and the ids stay typed only because they follow the positions. The lemma `AppendKeepsNewest`
carries it: appending to the newest entries of a log, with the trim, gives the newest entries of
the longer log.

**`RuntimeProofs`** (the same assumption, that "no error" is not an error, and that the configured agents
are finitely many). `RuntimeTypeCorrect`, `RuntimeUpMeansRegistered`, `RuntimeStatusFollowsEvents`,
`RuntimeErrorMeansFailed`, `RuntimeMailReportedAtStart`, `RuntimeViewsAgree`, `RuntimeOnlyForward`,
`RuntimeImplementsLifecycle`. The strengthening is
`AllRegistered` (a runtime that is up, or whose scheduler is, knows all its agents) and, for every registered
agent, `AgentInv`, which ties it to its history: `AgentOK` (typed, stream within its bound, handle, status and
error in agreement), `Told` (what all events ever appended say of its status), and that its stream
holds the newest of them. An agent that is not registered has no history. The status is followed in the whole
history and not in the stream, because what was trimmed matters: a stream that mail has filled no longer
shows the failure. `KeptPositions` carries the claim over to the stream, and `AppendKeepsNewest`, the lemma that
carries `EventStream`, keeps stream and history together. `RuntimeViewsAgree` also needs that a total is a sum of
cardinalities of disjoint sets (`ThreeParts`), for which the number of agents must be finite.

**`ControlApiProofs`** (assumes that the bounds are natural numbers and slow clients are clients).
`SubscriptionTablesAgree` and `StopLeavesNothing` rest on `TablesInv`: ids in
any table were issued before (`TablesTyped`), which makes a new id fresh; and after a complete stop
no connection is left whose handler could register again (`StoppedHasNoHandler`). All steps that
leave the tables alone share one lemma. `StatusForward` needs that nobody can ask for a shutdown
before the server is up (`LifecycleInv`), and so does `ControlApiImplementsLifecycle`: a start
finds a runtime that is still Starting.

Its second half is about what clients are sent:
`ControlApiTypeCorrect`, `OneShutdown`, `OnlyWantedNotifications`, `OnlyWaitersOvertaken`,
`ControlApiImplementsPubSub` and `SubscribersMayRely`. `PublicationInv` adds to the invariants above what links the tasks, the
frames and the tables. `TasksInv`: the task that has the thread is the running one, what a
task still has to send is part of what it matched, which was issued before, and a suspended task has
waited. `DeliveriesInv`: a delivery is of a task that has started, to one of its
matches, and is not among those still to be sent, which gives "at most once".
`AnnouncedInv`: an open client was told of each of its subscriptions and not of its
end, without which a notification might come first. `AcceptedInv`: whoever was told "accepted", a
shutdown was requested; with `LifecycleInv` no second one is. Order is proved by
the queue of tasks: they start in the order of their events, so a later one that
runs finds the earlier one finished or waiting. `SubscribersMayRely` combines the
refinement with `PromiseKept`: what is proved once of the small service holds of the server.

**`PubSubProofs`** (no assumptions). `PromiseKept`, from four parts that need each other: numbers are not
used again, so who is in an audience and still exists is who wanted the event (`AudienceWants`);
hence what was delivered was due (`DeliveriesDue`), and what a publication has reached when it completes
stays all there is to reach, whoever comes later (`CompleteReachesAll`). `PubInv` adds the types.

**`MetadataStoreProofs`** (assumes that "no file" is neither a record nor a file).
`StoreTypeCorrect`, `FilesNeverTorn`, `CreateIsComplete` and `StoreImplementsRegisters` rest on
`StoreInv`: every file that is visible or that the disk names was synced before its rename (`FilesDurable`),
whoever renamed it and however many renames the disk lags behind, and a creating process
still has to save exactly the last paths of its list (`SavesInOrder`). `StoreImplementsRegisters` maps a rename to
`Save`, a write-back to `Settle`, and a power failure to one that may lose any number of saves. `DaemonAgreesWithDisk` and
`SwarmNeverOverwritten` assume `~Overlap` and rest on `AloneInv`: at most one process is alive, and it
knows whether `swarm.json` exists. With overlap the second one fails (run `create_race`).

**`StartupProofs`** (assumes that the marks for "no file" and "malformed" are no records, that an agent
count is a number or not given, that the working and the home directory are resolved paths, that what
is not given or empty is no path, number or default, and that commands are of the form described). `StartupTypeCorrect`,
`RetriesRecover`, `LaunchedAgentsAsCreated`, `NothingLaunchedInVain`, `ClientsReachServers`,
`ConfigsAreStable`, `MetadataNeverAbove`. The invariant: a
creating process works with what it has made from its own configuration (`CreatesItsOwn`); in a directory
that was empty the file, and what a process has loaded, stem from some create
(`FilesMade`, `AgentsMade`); agents are launched last (`LaunchedLast`). The lemma
`ResumedIsMade` is the heart: what a resume accepts in such a directory was made for its own
project and swarm, because the mail project's name, made of both, is compared.
The last two are about paths: resolving leaves no ".." (`NormalIsResolved`), a path without ".."
resolves to itself (`NormalOfResolved`), and what `_validate_metadata_dir_location` admits is above the project
only at the root (`LocatedAbove`). `Normal` is a recursive function over the length of a path; the
induction is by the least length at which the claim would fail (`LeastExists`), since the
library's induction theorems take an operator.

**`CallsProofs`** (assumes that where a number belongs there is one of the three kinds that `int()`
tells apart). `CallsTypeCorrect`, `AnswersAreOwn`, `AnswersTellEffect`,
`CodesFitFaults`. The invariant follows a call: before its message is handled nothing was sent to it
and nothing done for it, so the first frame on its connection is its answer, which fits what was done.
The lemma `ErrorsFit` goes through `dispatch_request` once for every frame.

Only model-checked: the liveness properties (`ShutdownCompletes`, `LostClientsCleanedUp`,
`PublicationsEnd`, `CallsEnd`), since fairness and ENABLED are out of the prover's reach. Every other property
of the passing runs is a theorem. `ImplementsLifecycle` and `PubSub!Promise` are proved and not
part of a run of their own, since properties that are (`StatusMovesForward` and `OnlyForward`;
`ImplementsPubSub` and `NotificationsWanted`) break with the same code. No RECURSIVE operator is used.

## 5. Not modelled

* Symbolic links in paths, and a `HOME` that cannot be found.
* Of the command line: the parsing of `--param key=value` pairs and all output.
* Which field makes a metadata file malformed: a file is whole, foreign or malformed.
* `load_agent_metadata` and `load_all_agent_metadata`, which only tests call;
  `start_turn`, which nothing calls.
* Entries and statuses that tests write into `RuntimeState` by hand, `RuntimeState.set_agent_status`, and
  `record_unread_mail` called by anything but the scheduler.
* `call_for_result`, which turns the answer of a call into an exception or its result and keeps no state.
* `util.py` (no behaviour) and the development hook under `src/.openhands` (tooling of the
  development process, not part of the program).

## 6. Plan

Done: the event stream, the in-process runtime, the control API, the store, the start of
runtimes with their configuration, and the calls of clients; abstract specifications for the stream, the
store, the daemon and the control API; proofs of everything the runs check but liveness. Next,
as the code grows: the real Agent Mail and ACP adapters (calls that fail, time out and
repeat, for which `ensure_*` promise idempotence), the event loop of the scheduler with
repeated polling, and a shutdown that honours `timeout_seconds`, which the server ignores today.
