------------------------------ MODULE ControlApi ------------------------------
(***************************************************************************)
(* The WebSocket control API of a runtime: JsonRpcWebSocketServer          *)
(* (api/jsonrpc_ws.py), the subscription registry of RuntimeApiServer      *)
(* (api/server.py), the publication of agent events and the serve loop     *)
(* that owns the server's lifetime (runtime/runner.py).                    *)
(*                                                                         *)
(* Everything runs on one asyncio thread.  A coroutine runs alone until it *)
(* awaits something that is not ready, so a step of the model is the run   *)
(* of one coroutine between two such points.  A publish that sends to      *)
(* several connections is cut into one step per send; `current` then names *)
(* the task that holds the thread, and nothing else may step.              *)
(*                                                                         *)
(* Of the websockets library (external) the model keeps: send on an open   *)
(* connection writes the frame at once and then waits if the transport is  *)
(* above its high-water mark; send on a closed connection raises; messages *)
(* received before the close are still handed to the handler; closing the  *)
(* server closes every connection and waits for every handler.             *)
(***************************************************************************)
EXTENDS Integers, Sequences, FiniteSets

CONSTANTS
    Conns,      \* WebSocket connections, each opened at most once
    Slow,       \* the connections whose transport may fill up
    Agents,     \* agents of the swarm
    Filters,    \* agent_ids of a subscription, never checked against the
                \* swarm's agents; {} stands for all agents
    MaxSubs,     \* bound of the model: subscriptions ever made
    MaxEvents,   \* bound of the model: events ever emitted
    MaxRequests  \* bound of the model: requests answered that change something

ASSUME SlowAssumption == Slow \subseteq Conns
ASSUME BoundsAssumption == MaxSubs \in Nat /\ MaxEvents \in Nat /\ MaxRequests \in Nat

VARIABLES
    main,       \* where serve_runtime_control_api is
    status,     \* RuntimeState.status
    requested,  \* RuntimeState.shutdown_requested
    conn,       \* life of each connection
    handler,    \* where _handle_client of each connection is
    blocked,    \* connections whose transport is above the high-water mark
    nextSub,    \* RuntimeApiServer._next_subscription_id
    subs,       \* RuntimeApiServer._subscriptions: id -> agent_ids
    subClient,  \* _subscription_clients: id -> connection
    clientSubs, \* _client_subscriptions: connection -> set of ids
    tasks,      \* publish_event tasks in creation order, one per event
    current,    \* the publish task that is running, or NoTask
    sent        \* history: the frames written to each connection, but for the
                \* answers to requests that change nothing

daemonVars   == <<main, status, requested>>
connVars     == <<conn, handler, blocked, sent>>
registryVars == <<nextSub, subs, subClient, clientSubs>>
taskVars     == <<tasks, current>>
vars == <<daemonVars, connVars, registryVars, taskVars>>

SubIds == 1..MaxSubs
NoTask == 0

\* A mutant of Matches: the filter is ignored.
MatchesAll(filter, agent) == TRUE

\* "all agents" when the filter is empty (build_agent_event_notifications).
Matches(filter, agent) == filter = {} \/ agent \in filter

\* dict.pop(key, None) for every key in S.
Without(f, S) == [x \in DOMAIN f \ S |-> f[x]]

\* d[key] = value.
With(f, key, value) ==
    [x \in DOMAIN f \union {key} |-> IF x = key THEN value ELSE f[x]]

\* _client_subscriptions.get(c, set())
SubsOf(c) == IF c \in DOMAIN clientSubs THEN clientSubs[c] ELSE {}

Empty == [x \in {} |-> x]

\* The publish task of an event: its subscriptions still to be sent to and all
\* it was built for, and the connection it waits or waited for last.
Queued(agent) == [agent |-> agent, stage |-> "queued", todo |-> {},
                  matched |-> {}, at |-> {}]

InitFrom(first) ==
    /\ main = "constructed" /\ status = "Starting" /\ requested = FALSE
    /\ conn = [c \in Conns |-> "none"]
    /\ handler = [c \in Conns |-> "none"]
    /\ blocked = {}
    /\ sent = [c \in Conns |-> << >>]
    /\ nextSub = first
    /\ subs = Empty /\ subClient = Empty /\ clientSubs = Empty
    /\ tasks = << >> /\ current = NoTask

\* A mutant of Init: subscription ids start at 0.
InitFromZero == InitFrom(0)

\* create_runtime_control_context has built daemon, API server and bridge.
Init == InitFrom(1)

\* No publish task holds the event loop's thread.
Idle == current = NoTask

-----------------------------------------------------------------------------
(* The serve loop. *)

\* The listening socket is bound and the daemon started.  No request can be
\* read between the two: the await of start() does not yield after the bind.
Serve ==
    /\ main = "constructed"
    /\ main' = "serving"
    /\ status' = "Running"
    /\ UNCHANGED <<requested, connVars, registryVars, taskVars>>

\* The bind raises outside the try block, so nothing is cleaned up.
BindFails ==
    /\ main = "constructed"
    /\ main' = "failed"
    /\ UNCHANGED <<status, requested, connVars, registryVars, taskVars>>

\* A mutant of PollSeesRequest: the loop only looks while Running.
PollWhileRunning ==
    /\ Idle /\ main = "serving" /\ requested /\ status = "Running"
    /\ main' = "closing"
    /\ UNCHANGED <<status, requested, connVars, registryVars, taskVars>>

\* The polling loop wakes up and finds shutdown_requested; server.close().
PollSeesRequest ==
    /\ Idle /\ main = "serving" /\ requested
    /\ main' = "closing"
    /\ UNCHANGED <<status, requested, connVars, registryVars, taskVars>>

\* SIGINT or the caller cancels the polling loop; the finally block runs.
Cancel ==
    /\ Idle /\ main = "serving"
    /\ main' = "closing"
    /\ UNCHANGED <<status, requested, connVars, registryVars, taskVars>>

\* A mutant of FinishStop: stop() does not wait for the handlers.
FinishStopEarly ==
    /\ Idle /\ main = "closing"
    /\ main' = "stopped"
    /\ status' = "Stopped"
    /\ subClient' = Empty /\ clientSubs' = Empty
    /\ UNCHANGED <<requested, connVars, nextSub, subs, taskVars>>

\* wait_closed() has seen every handler end: stop() clears the routing maps
\* and the daemon is marked stopped.
FinishStop ==
    /\ Idle /\ main = "closing"
    /\ \A c \in Conns : conn[c] \in {"none", "gone"}
    /\ main' = "stopped"
    /\ status' = "Stopped"
    /\ subClient' = Empty /\ clientSubs' = Empty
    /\ UNCHANGED <<requested, connVars, nextSub, subs, taskVars>>

\* A cancellation during wait_closed() skips the clearing of the maps; the
\* inner finally still marks the daemon stopped.
InterruptStop ==
    /\ Idle /\ main = "closing"
    /\ main' = "interrupted"
    /\ status' = "Stopped"
    /\ UNCHANGED <<requested, connVars, registryVars, taskVars>>

-----------------------------------------------------------------------------
(* Connections. *)

Connect(c) ==
    /\ Idle /\ main = "serving" /\ conn[c] = "none"
    /\ conn' = [conn EXCEPT ![c] = "open"]
    /\ handler' = [handler EXCEPT ![c] = "recv"]
    /\ UNCHANGED <<daemonVars, blocked, sent, registryVars, taskVars>>

\* The peer closes, the network fails or a ping is not answered in time.
Disconnect(c) ==
    /\ Idle /\ conn[c] = "open"
    /\ conn' = [conn EXCEPT ![c] = "closed"]
    /\ blocked' = blocked \ {c}
    /\ UNCHANGED <<daemonVars, handler, sent, registryVars, taskVars>>

\* server.close() closes every open connection.
CloseConn(c) ==
    /\ main \in {"closing", "interrupted"}
    /\ Disconnect(c)

\* The peer reads and the transport falls below its low-water mark.
Unblock(c) ==
    /\ Idle /\ c \in blocked
    /\ blocked' = blocked \ {c}
    /\ UNCHANGED <<daemonVars, conn, handler, sent, registryVars, taskVars>>

\* websocket.send on an open connection: the frames are written, and the
\* transport of a slow connection may now be above the high-water mark.
Write(c, frames) ==
    /\ sent' = [sent EXCEPT ![c] = @ \o frames]
    /\ \E full \in SUBSET (Slow \intersect {c}) : blocked' = blocked \union full

\* The handler sends its response: at once, after the transport has drained,
\* or never, because send raises on a closed connection.
Respond(c, frames) ==
    \/ /\ conn[c] = "open"
       /\ Write(c, frames)
       /\ handler' = [handler EXCEPT ![c] = IF c \in blocked' THEN "drain" ELSE "recv"]
    \/ /\ conn[c] = "closed"
       /\ handler' = [handler EXCEPT ![c] = "raise"]
       /\ UNCHANGED <<sent, blocked>>

\* The handler is free to take the next message, also one that was received
\* before the connection closed.
Receives(c) == Idle /\ conn[c] \in {"open", "closed"} /\ handler[c] = "recv"

\* The bound MaxRequests: answers to requests that changed something.
Answers(c) == {i \in DOMAIN sent[c] : sent[c][i].kind # "notify"}
Recordable ==
    Cardinality(UNION {{<<c, i>> : i \in Answers(c)} : c \in Conns}) < MaxRequests

\* events.subscribe
Subscribe(c, filter) ==
    /\ Receives(c) /\ nextSub \in SubIds /\ Recordable
    /\ nextSub' = nextSub + 1
    /\ subs' = With(subs, nextSub, filter)
    /\ subClient' = With(subClient, nextSub, c)
    /\ clientSubs' = With(clientSubs, c, SubsOf(c) \union {nextSub})
    /\ Respond(c, <<[kind |-> "subscribed", sub |-> nextSub, filter |-> filter]>>)
    /\ UNCHANGED <<daemonVars, conn, taskVars>>

\* events.unsubscribe: any client may name any id that was ever issued.
Unsubscribe(c, s) ==
    /\ Receives(c) /\ s < nextSub /\ Recordable
    /\ subs' = Without(subs, {s})
    /\ subClient' = Without(subClient, {s})
    /\ clientSubs' = IF c \in DOMAIN clientSubs
                     THEN [clientSubs EXCEPT ![c] = @ \ {s}] ELSE clientSubs
    /\ Respond(c, <<[kind |-> "unsubscribed", sub |-> s]>>)
    /\ UNCHANGED <<daemonVars, conn, nextSub, taskVars>>

\* A mutant of Shutdown: the status is not checked.
ShutdownAnytime(c) ==
    /\ Receives(c) /\ Recordable
    /\ requested' = TRUE
    /\ status' = "ShuttingDown"
    /\ Respond(c, <<[kind |-> "accepted"]>>)
    /\ UNCHANGED <<main, conn, registryVars, taskVars>>

\* runtime.shutdown while Running: the daemon starts to shut down.
Shutdown(c) ==
    /\ Receives(c) /\ status = "Running" /\ Recordable
    /\ requested' = TRUE
    /\ status' = "ShuttingDown"
    /\ Respond(c, <<[kind |-> "accepted"]>>)
    /\ UNCHANGED <<main, conn, registryVars, taskVars>>

\* Every request that changes nothing is answered all the same: the reads of
\* the runtime's state, unsubscribe for an id never issued, runtime.shutdown
\* outside Running (error 1100), malformed requests and unknown methods.
OtherRequest(c) ==
    /\ Receives(c)
    /\ Respond(c, << >>)
    /\ UNCHANGED <<daemonVars, conn, registryVars, taskVars>>

\* The response has drained, or the connection was lost without an error,
\* which wakes the waiting send as if it had.
Drained(c) ==
    /\ Idle /\ conn[c] \in {"open", "closed"}
    /\ handler[c] = "drain" /\ c \notin blocked
    /\ handler' = [handler EXCEPT ![c] = "recv"]
    /\ UNCHANGED <<daemonVars, conn, blocked, sent, registryVars, taskVars>>

\* A mutant of EndHandler: the registry of the API server is not tidied.
EndHandlerKeepsRegistry(c) ==
    /\ Idle /\ conn[c] = "closed"
    /\ conn' = [conn EXCEPT ![c] = "gone"]
    /\ handler' = [handler EXCEPT ![c] = "ended"]
    /\ subClient' = Without(subClient, SubsOf(c))
    /\ clientSubs' = Without(clientSubs, {c})
    /\ UNCHANGED <<daemonVars, blocked, sent, nextSub, subs, taskVars>>

\* A mutant of EndHandler: a send that raises is not covered by the finally.
EndHandlerAtRecvOnly(c) ==
    /\ Idle /\ conn[c] = "closed" /\ handler[c] = "recv"
    /\ conn' = [conn EXCEPT ![c] = "gone"]
    /\ handler' = [handler EXCEPT ![c] = "ended"]
    /\ subs' = Without(subs, SubsOf(c))
    /\ subClient' = Without(subClient, SubsOf(c))
    /\ clientSubs' = Without(clientSubs, {c})
    /\ UNCHANGED <<daemonVars, blocked, sent, nextSub, taskVars>>

\* recv() or send() raises ConnectionClosed: the handler ends and
\* _cleanup_client removes the client's subscriptions from all three tables.
EndHandler(c) ==
    /\ Idle /\ conn[c] = "closed"
    /\ conn' = [conn EXCEPT ![c] = "gone"]
    /\ handler' = [handler EXCEPT ![c] = "ended"]
    /\ subs' = Without(subs, SubsOf(c))
    /\ subClient' = Without(subClient, SubsOf(c))
    /\ clientSubs' = Without(clientSubs, {c})
    /\ UNCHANGED <<daemonVars, blocked, sent, nextSub, taskVars>>

\* A frame that is neither text nor valid UTF-8: json.loads raises what the
\* handler does not catch.  Its finally block cleans up, and the library then
\* closes the connection.
HandlerRaises(c) ==
    /\ Receives(c)
    /\ conn' = [conn EXCEPT ![c] = "closed"]
    /\ handler' = [handler EXCEPT ![c] = "raise"]
    /\ blocked' = blocked \ {c}
    /\ subs' = Without(subs, SubsOf(c))
    /\ subClient' = Without(subClient, SubsOf(c))
    /\ clientSubs' = Without(clientSubs, {c})
    /\ UNCHANGED <<daemonVars, sent, nextSub, taskVars>>

-----------------------------------------------------------------------------
(* Publication of events. *)

\* The supervisor appends an event; the bridge creates a publish task.
Emit(agent) ==
    /\ Idle /\ main \in {"serving", "closing"} /\ Len(tasks) < MaxEvents
    /\ tasks' = Append(tasks, Queued(agent))
    /\ UNCHANGED <<daemonVars, connVars, registryVars, current>>

Tasks == DOMAIN tasks

\* Every task created before t has run at least once.
OldestQueued(t) == \A u \in 1..(t - 1) : tasks[u].stage # "queued"

\* Tasks first run in the order of their creation.
IsNext(t) == tasks[t].stage = "queued" /\ OldestQueued(t)

\* A mutant of StartTask: the event loop gets a turn before the first send.
StartTaskYields(t) ==
    /\ Idle /\ IsNext(t)
    /\ LET matching == {s \in DOMAIN subs : Matches(subs[s], tasks[t].agent)}
       IN  tasks' = [tasks EXCEPT ![t].stage = "suspended", ![t].todo = matching,
                                  ![t].matched = matching]
    /\ UNCHANGED <<daemonVars, connVars, registryVars, current>>

\* All messages are built before the first is sent.
StartTask(t) ==
    /\ Idle /\ IsNext(t)
    /\ LET matching == {s \in DOMAIN subs : Matches(subs[s], tasks[t].agent)}
       IN  tasks' = [tasks EXCEPT ![t].stage = "running", ![t].todo = matching,
                                  ![t].matched = matching]
    /\ current' = t
    /\ UNCHANGED <<daemonVars, connVars, registryVars>>

\* The next subscription in the registry's (insertion, hence id) order.
NextTodo(t) ==
    CHOOSE s \in tasks[t].todo : \A r \in tasks[t].todo : s <= r

\* A mutant of SkipRemoved: the task waits for the subscription to return.
SkipRemovedWaits(t) ==
    /\ current = t /\ tasks[t].todo # {}
    /\ NextTodo(t) \notin DOMAIN subClient
    /\ tasks' = [tasks EXCEPT ![t].stage = "suspended", ![t].at = {}]
    /\ current' = NoTask
    /\ UNCHANGED <<daemonVars, connVars, registryVars>>

\* The subscription was removed since the messages were built.
SkipRemoved(t) ==
    /\ current = t /\ tasks[t].todo # {}
    /\ NextTodo(t) \notin DOMAIN subClient
    /\ tasks' = [tasks EXCEPT ![t].todo = @ \ {NextTodo(t)}]
    /\ UNCHANGED <<daemonVars, connVars, registryVars, current>>

\* ws.send on an open connection; the task keeps running unless it must wait.
SendNext(t) ==
    /\ current = t /\ tasks[t].todo # {}
    /\ LET s == NextTodo(t) IN
       /\ s \in DOMAIN subClient
       /\ LET c == subClient[s] IN
          /\ conn[c] = "open"
          /\ Write(c, <<[kind |-> "notify", sub |-> s, event |-> t]>>)
          /\ IF c \in blocked'
             THEN /\ tasks' = [tasks EXCEPT ![t].todo = @ \ {s}, ![t].stage = "suspended",
                                            ![t].at = {c}]
                  /\ current' = NoTask
             ELSE /\ tasks' = [tasks EXCEPT ![t].todo = @ \ {s}]
                  /\ UNCHANGED current
    /\ UNCHANGED <<daemonVars, conn, handler, registryVars>>

\* A mutant of SendRaises: the error is swallowed around the whole loop.
SendGivesUp(t) ==
    /\ current = t /\ tasks[t].todo # {}
    /\ NextTodo(t) \in DOMAIN subClient
    /\ conn[subClient[NextTodo(t)]] # "open"
    /\ tasks' = [tasks EXCEPT ![t].stage = "done"]
    /\ current' = NoTask
    /\ UNCHANGED <<daemonVars, connVars, registryVars>>

\* ws.send raises ConnectionClosed; nothing catches it and the task ends.
SendRaises(t) ==
    /\ current = t /\ tasks[t].todo # {}
    /\ NextTodo(t) \in DOMAIN subClient
    /\ conn[subClient[NextTodo(t)]] # "open"
    /\ tasks' = [tasks EXCEPT ![t].stage = "aborted"]
    /\ current' = NoTask
    /\ UNCHANGED <<daemonVars, connVars, registryVars>>

FinishTask(t) ==
    /\ current = t /\ tasks[t].todo = {}
    /\ tasks' = [tasks EXCEPT ![t].stage = "done"]
    /\ current' = NoTask
    /\ UNCHANGED <<daemonVars, connVars, registryVars>>

\* The transport drained, or the connection was lost without an error, which
\* wakes a waiting send as if it had drained.
ResumeTask(t) ==
    /\ Idle /\ tasks[t].stage = "suspended" /\ tasks[t].at \intersect blocked = {}
    /\ tasks' = [tasks EXCEPT ![t].stage = "running"]
    /\ current' = t
    /\ UNCHANGED <<daemonVars, connVars, registryVars>>

\* The connection was lost with an error while the send waited.
AbortTask(t) ==
    /\ Idle /\ tasks[t].stage = "suspended"
    /\ \A c \in tasks[t].at : conn[c] # "open"
    /\ tasks' = [tasks EXCEPT ![t].stage = "aborted"]
    /\ UNCHANGED <<daemonVars, connVars, registryVars, current>>

-----------------------------------------------------------------------------
ServeNext == Serve \/ BindFails \/ PollSeesRequest \/ Cancel \/ FinishStop \/ InterruptStop

ConnNext(c) ==
    \/ Connect(c) \/ Disconnect(c) \/ CloseConn(c) \/ Unblock(c)
    \/ \E filter \in Filters : Subscribe(c, filter)
    \/ \E s \in SubIds : Unsubscribe(c, s)
    \/ Shutdown(c) \/ OtherRequest(c) \/ Drained(c) \/ EndHandler(c)
    \/ HandlerRaises(c)

RunTask(t) ==
    StartTask(t) \/ SkipRemoved(t) \/ SendNext(t) \/ SendRaises(t) \/ FinishTask(t)
        \/ ResumeTask(t)

Next ==
    \/ ServeNext
    \/ \E c \in Conns : ConnNext(c)
    \/ \E agent \in Agents : Emit(agent)
    \/ \E t \in Tasks : RunTask(t) \/ AbortTask(t)

Spec == Init /\ [][Next]_vars

\* A full transport drains, or its peer fails to answer a ping in time.
StallEnds(c) == c \in blocked /\ (Unblock(c) \/ Disconnect(c))

\* The event loop runs every coroutine that is ready: the polling loop, the
\* server's closing (bounded by the close timeout of each connection), the
\* handlers and the publish tasks; the library's keepalive bounds a stall.
\* A task is treated fairly even if the transport fills again and again: the
\* sends that wait for it go through a first-come first-served lock.
\* Nothing is assumed of what clients ask or of whoever emits events.
Fairness ==
    /\ WF_vars(PollSeesRequest) /\ WF_vars(FinishStop)
    /\ \A c \in Conns :
          WF_vars(CloseConn(c)) /\ WF_vars(EndHandler(c)) /\ WF_vars(StallEnds(c))
    /\ \A t \in 1..MaxEvents : SF_vars(t \in Tasks /\ (RunTask(t) \/ AbortTask(t)))

FairSpec == Spec /\ Fairness

-----------------------------------------------------------------------------
(* Properties. *)

Stages == {"queued", "running", "suspended", "done", "aborted"}

Frame ==
    [kind : {"subscribed"}, sub : SubIds, filter : Filters]
    \union [kind : {"unsubscribed"}, sub : SubIds]
    \union [kind : {"notify"}, sub : SubIds, event : 1..MaxEvents]
    \union [kind : {"accepted"}]

Task == [agent : Agents, stage : Stages, todo : SUBSET SubIds,
         matched : SUBSET SubIds, at : SUBSET Conns]

\* Type correctness of the server's and the daemon's state.
TypeOK ==
    /\ main \in {"constructed", "serving", "closing", "stopped", "interrupted", "failed"}
    /\ status \in {"Starting", "Running", "ShuttingDown", "Stopped"}
    /\ requested \in BOOLEAN
    /\ conn \in [Conns -> {"none", "open", "closed", "gone"}]
    /\ handler \in [Conns -> {"none", "recv", "drain", "raise", "ended"}]
    /\ blocked \in SUBSET Conns
    /\ nextSub \in 1..(MaxSubs + 1)
    /\ DOMAIN subs \subseteq SubIds /\ \A s \in DOMAIN subs : subs[s] \in Filters
    /\ DOMAIN subClient \subseteq SubIds
    /\ \A s \in DOMAIN subClient : subClient[s] \in Conns
    /\ DOMAIN clientSubs \subseteq Conns
    /\ \A c \in DOMAIN clientSubs : clientSubs[c] \subseteq SubIds
    /\ tasks \in Seq(Task) /\ Len(tasks) <= MaxEvents
    /\ current \in Tasks \union {NoTask}
    /\ sent \in [Conns -> Seq(Frame)]

\* The registry of the API server and the two routing maps of the WebSocket
\* server describe the same subscriptions at every step, whoever unsubscribes
\* whose: each has one owner, whose handler will clean it up, and a closed
\* and cleaned-up connection owns none.
TablesAgree ==
    /\ DOMAIN subs = DOMAIN subClient
    /\ \A s \in DOMAIN subClient :
          /\ conn[subClient[s]] \in {"open", "closed"}
          /\ s \in SubsOf(subClient[s])
    /\ \A c \in DOMAIN clientSubs : \A s \in clientSubs[c] :
          s \in DOMAIN subClient => subClient[s] = c

\* After a complete stop() no subscription is left in any table, although
\* stop() itself does not clear the registry of the API server.
StoppedIsClean == main = "stopped" => subs = Empty /\ clientSubs = Empty

\* The frames of subscription s in what client c received.
Is(c, i, kind, s) == sent[c][i].kind = kind /\ sent[c][i].sub = s

\* A notification is written only to the connection that made the
\* subscription, after the response that names it, for an event its filter
\* admits, and never after that client's own unsubscription was answered nor a
\* second time.
NotificationsWanted ==
    \A c \in Conns : \A i \in DOMAIN sent[c] :
        sent[c][i].kind = "notify" =>
            /\ \A k \in 1..(i - 1) : sent[c][k] # sent[c][i]
            /\ \E j \in 1..(i - 1) :
                  /\ Is(c, j, "subscribed", sent[c][i].sub)
                  /\ LET wanted == sent[c][j].filter
                     IN  wanted # {} => tasks[sent[c][i].event].agent \in wanted
                  /\ \A k \in j..i : ~Is(c, k, "unsubscribed", sent[c][i].sub)

\* A subscription gets events in the order of their emission, but for those
\* whose publication had to wait for a slow connection: only such a task is
\* overtaken by the tasks of later events.
OvertakenOnlyAfterWaiting ==
    \A c \in Conns : \A i, j \in DOMAIN sent[c] :
        /\ i < j
        /\ sent[c][i].kind = "notify" /\ sent[c][j].kind = "notify"
        /\ sent[c][i].sub = sent[c][j].sub
        /\ sent[c][i].event > sent[c][j].event
        => tasks[sent[c][j].event].at # {}

\* However many clients ask at once, one shutdown request is accepted.
OneShutdownAccepted ==
    \A c, d \in Conns : \A i \in DOMAIN sent[c], j \in DOMAIN sent[d] :
        sent[c][i].kind = "accepted" /\ sent[d][j].kind = "accepted" => c = d /\ i = j

\* The server is the publish/subscribe service of PubSub: handlers, tables,
\* tasks, slow transports and lost connections hide behind it.
Notes(c) == {i \in DOMAIN sent[c] : sent[c][i].kind = "notify"}
Got == UNION {{<<c, sent[c][i].sub, sent[c][i].event>> : i \in Notes(c)} : c \in Conns}

PubState(stage) ==
    CASE stage = "queued" -> "waiting" [] stage \in {"running", "suspended"} -> "open"
      [] stage = "done" -> "complete" [] stage = "aborted" -> "lost"

Abstract == INSTANCE PubSub WITH
    Owners <- Conns, Topics <- Agents, Wishes <- Filters, Ids <- SubIds, Pending <- NoTask,
    next <- nextSub,
    active <- [s \in DOMAIN subs |-> [owner |-> subClient[s], wish |-> subs[s]]],
    events <- [t \in Tasks |->
                 [topic |-> tasks[t].agent, state |-> PubState(tasks[t].stage),
                  audience |-> IF tasks[t].stage = "queued" THEN NoTask ELSE tasks[t].matched]],
    got <- Got

ImplementsPubSub == Abstract!PubSpec

\* The daemon behind the server is the daemon of Runtime, as far as its
\* holders can tell: the serve loop and the clients only start, ask and stop.
Daemon == INSTANCE Lifecycle

ImplementsLifecycle == Daemon!LifeSpec

Rank(st) == CASE st = "Starting" -> 0 [] st = "Running" -> 1
              [] st = "ShuttingDown" -> 2 [] st = "Stopped" -> 3

\* The runtime's status only moves forward, and a client that was told
\* "accepted" never sees a running runtime again.
StatusMovesForward ==
    [][/\ Rank(status) <= Rank(status')
       /\ (requested => requested' /\ status' # "Running")]_vars

\* An accepted shutdown ends with a stopped runtime, whatever the clients do
\* and also when the stop is interrupted.
ShutdownCompletes == requested ~> status = "Stopped"

\* The subscriptions of a lost connection are eventually removed.
LostClientsCleanedUp ==
    \A c \in Conns : conn[c] = "closed" ~> \A s \in DOMAIN subClient : subClient[s] # c

\* Every publication comes to an end: no client that is slow, gets lost or
\* drops subscriptions meanwhile holds it up for ever.
PublicationsEnd ==
    \A t \in 1..MaxEvents :
        t \in Tasks ~> t \in Tasks /\ tasks[t].stage \in {"done", "aborted"}

-----------------------------------------------------------------------------
(* What the repository says of the program and the code does not do. *)

\* "Send each notification to the WebSocket associated with its subscription,
\* if still connected." (jsonrpc_ws.py, publish_event)
AbortLosesNothing ==
    \A t \in Tasks : tasks[t].stage = "aborted" =>
        \A s \in tasks[t].todo : s \in DOMAIN subClient => conn[subClient[s]] # "open"

\* Running goes to ShuttingDown on a request by the control API or a signal
\* (data-model.md, RuntimeState): a stopped runtime was shutting down.
StopsThroughShuttingDown ==
    [][status' = "Stopped" => status \in {"ShuttingDown", "Stopped"}]_vars
=============================================================================
