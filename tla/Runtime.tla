-------------------------------- MODULE Runtime --------------------------------
(***************************************************************************)
(* The in-process runtime: RuntimeState (runtime/state.py), AgentSupervisor *)
(* (runtime/agents.py), RuntimeScheduler (runtime/scheduler.py) and the    *)
(* lifecycle and introspection of RuntimeDaemon (runtime/daemon.py).       *)
(*                                                                         *)
(* None of these functions awaits, so each public operation is one step.   *)
(* The operations come in any order: the serve loop, the CLI, the control  *)
(* API and embedding code (the tests) all hold the daemon, its scheduler   *)
(* and its supervisor, and use them before the start too.  What the tests  *)
(* write into RuntimeState.agents by hand is not modelled, and             *)
(* record_unread_mail is called by the scheduler only, as in the program.  *)
(***************************************************************************)
EXTENDS EventStreamOps, FiniteSets

CONSTANTS
    Configured,  \* agents in SwarmMetadata.agents
    Errors,      \* error summaries a failure may carry
    NoError,     \* last_error None
    MaxAppends   \* bound of the model: events appended for one agent

ASSUME ConfiguredAssumption == IsFiniteSet(Configured)
ASSUME ErrorsAssumption == NoError \notin Errors
ASSUME MaxAppendsAssumption == MaxAppends \in Nat

VARIABLES
    status,        \* RuntimeState.status
    requested,     \* RuntimeState.shutdown_requested
    schedRunning,  \* RuntimeScheduler.running
    agents,        \* RuntimeState.agents: registered agents only
    unread,        \* agents with unread mail, at the Agent Mail service
    log            \* history: every event appended for each agent

vars == <<status, requested, schedRunning, agents, unread, log>>

RuntimeStatus == {"Starting", "Running", "ShuttingDown", "Stopped"}
AgentStatus == {"Starting", "Idle", "Failed"}
EventType == {"AgentFailed", "AgentRestarted", "MailReceived"}

Registered == DOMAIN agents

-----------------------------------------------------------------------------
(* Helpers. *)

\* The AgentRuntimeState that ensure_agent_runtime_state makes.
Fresh == [status |-> "Starting", handle |-> FALSE, lastError |-> NoError, stream |-> << >>]

\* One that launch_all_agents has registered and launched.
Launched == [Fresh EXCEPT !.status = "Idle", !.handle = TRUE]

\* _append_runtime_event on the stream of one agent.
RuntimeEvent(agent, type) == [id |-> NextId(agent.stream), type |-> type]
Recorded(agent, type) ==
    [agent EXCEPT !.stream = AppendBounded(@, RuntimeEvent(agent, type))]

\* launch_all_agents: an agent that is registered already is left alone, also
\* when it was registered without being launched.
AfterLaunch(a) == IF a \in Registered THEN agents[a] ELSE Launched

\* Launch and poll of unread mail: every configured agent with unread mail
\* gets an event.
AfterStart(a) ==
    IF a \in unread THEN Recorded(AfterLaunch(a), "MailReceived") ELSE AfterLaunch(a)

\* One supervisor operation on agent a: its new state and the event it emits.
Supervise(a, agent, type) ==
    /\ Len(log[a]) < MaxAppends
    /\ agents' = [agents EXCEPT ![a] = Recorded(agent, type)]
    /\ log' = [log EXCEPT ![a] = Append(@, RuntimeEvent(agent, type))]
    /\ UNCHANGED <<status, requested, schedRunning, unread>>

-----------------------------------------------------------------------------
Init ==
    /\ status = "Starting" /\ requested = FALSE /\ schedRunning = FALSE
    /\ agents = [a \in {} |-> Fresh]
    /\ unread \in SUBSET Configured
    /\ log = [a \in Configured |-> << >>]

\* ensure_agent_runtime_state for each agent of a set: an existing entry is
\* returned as it is.
Register(those) ==
    /\ agents' = [a \in Registered \union those |->
                    IF a \in Registered THEN agents[a] ELSE Fresh]
    /\ UNCHANGED <<status, requested, schedRunning, unread, log>>

EnsureAgentRuntimeState(a) == Register({a})
EnsureAgentsRegistered == Register(Configured)

\* launch_all_agents() on its own.
LaunchAllAgents ==
    /\ agents' = [a \in Registered \union Configured |-> AfterLaunch(a)]
    /\ UNCHANGED <<status, requested, schedRunning, unread, log>>

\* The scheduler comes up: it registers and launches the configured agents
\* and polls their mail.
BringUp ==
    /\ \A a \in unread : Len(log[a]) < MaxAppends
    /\ agents' = [a \in Registered \union Configured |-> AfterStart(a)]
    /\ log' = [a \in Configured |->
                 IF a \in unread THEN Append(log[a], RuntimeEvent(AfterLaunch(a), "MailReceived"))
                 ELSE log[a]]
    /\ schedRunning' = TRUE

\* A mutant of StartScheduler: it does not ask whether it runs.
StartSchedulerAgain == BringUp

\* A scheduler that is running returns at once.
StartScheduler ==
    \/ ~schedRunning /\ BringUp
    \/ schedRunning /\ UNCHANGED <<agents, log, schedRunning>>

\* scheduler.start() and scheduler.stop(), which only sets the flag.
SchedulerStart == StartScheduler /\ UNCHANGED <<status, requested, unread>>
SchedulerStop ==
    /\ schedRunning' = FALSE
    /\ UNCHANGED <<status, requested, agents, unread, log>>

\* daemon.start(): the scheduler is up before the runtime is Running.  A
\* second call returns or raises and changes nothing.
Start ==
    /\ status = "Starting"
    /\ StartScheduler
    /\ status' = "Running"
    /\ UNCHANGED <<requested, unread>>

\* A mutant of RequestShutdown: a stopped runtime is not left alone.
RequestShutdownAnytime ==
    /\ requested' = TRUE
    /\ status' = IF status = "Starting" THEN status ELSE "ShuttingDown"
    /\ UNCHANGED <<schedRunning, agents, unread, log>>

\* daemon.request_shutdown(): idempotent, also before the start.
RequestShutdown ==
    /\ status # "Stopped"
    /\ requested' = TRUE
    /\ status' = IF status = "Running" THEN "ShuttingDown" ELSE status
    /\ UNCHANGED <<schedRunning, agents, unread, log>>

\* daemon.mark_stopped(): from any status; the scheduler is not stopped.
MarkStopped ==
    /\ status' = "Stopped"
    /\ UNCHANGED <<requested, schedRunning, agents, unread, log>>

\* mark_agent_failed, from the scheduler or its owner; error may be None.
MarkAgentFailed(a, error) ==
    /\ a \in Registered
    /\ Supervise(a, [agents[a] EXCEPT !.status = "Failed", !.lastError = error],
                 "AgentFailed")

\* A mutant of RestartAgent: the error is not cleared.
RestartAgentKeepsError(a) ==
    /\ a \in Registered
    /\ Supervise(a, [agents[a] EXCEPT !.status = "Idle", !.handle = TRUE],
                 "AgentRestarted")

\* A mutant of RestartAgent: the handle is left as it is.
RestartAgentKeepsHandle(a) ==
    /\ a \in Registered
    /\ Supervise(a, [agents[a] EXCEPT !.status = "Idle", !.lastError = NoError],
                 "AgentRestarted")

\* restart_agent, whatever the agent's status: Starting and then Idle, also
\* for an agent that was never launched.
RestartAgent(a) ==
    /\ a \in Registered
    /\ Supervise(a, [agents[a] EXCEPT !.status = "Idle", !.lastError = NoError,
                                      !.handle = TRUE],
                 "AgentRestarted")

\* The Agent Mail service (external): mail arrives or is read.
MailChanges(a) ==
    /\ unread' = IF a \in unread THEN unread \ {a} ELSE unread \union {a}
    /\ UNCHANGED <<status, requested, schedRunning, agents, log>>

Next ==
    \/ EnsureAgentsRegistered \/ LaunchAllAgents \/ SchedulerStart \/ SchedulerStop
    \/ Start \/ RequestShutdown \/ MarkStopped
    \/ \E a \in Configured, error \in Errors \union {NoError} : MarkAgentFailed(a, error)
    \/ \E a \in Configured : EnsureAgentRuntimeState(a) \/ RestartAgent(a) \/ MailChanges(a)

Spec == Init /\ [][Next]_vars

-----------------------------------------------------------------------------
(* Introspection: what the control API returns in a state. *)

\* AgentMetadata.last_known_status: nothing in the program writes another.
LastKnownStatus == "Idle"

\* The agent rows of get_swarm_overview.
Overview ==
    [a \in Configured \union Registered |->
        [status    |-> IF a \in Registered THEN agents[a].status ELSE "Starting",
         lastError |-> IF a \in Registered THEN agents[a].lastError ELSE NoError,
         unread    |-> a \in unread]]

\* A mutant of AgentCounts: the failed agents are those that show an error.
AgentCountsByError ==
    [st \in AgentStatus |->
        Cardinality({a \in Registered :
            st = IF agents[a].lastError # NoError THEN "Failed" ELSE "Idle"})]

\* _compute_agent_counts
AgentCounts ==
    [st \in AgentStatus |-> Cardinality({a \in Registered : agents[a].status = st})]
AgentTotal == AgentCounts["Starting"] + AgentCounts["Idle"] + AgentCounts["Failed"]

\* get_agent_detail, with the events a reader with this limit is shown.
AgentDetail(a, limit) ==
    IF a \in Registered
    THEN [status |-> agents[a].status, lastError |-> agents[a].lastError,
          events |-> GetEvents(agents[a].stream, limit)]
    ELSE [status |-> LastKnownStatus, lastError |-> NoError, events |-> << >>]

-----------------------------------------------------------------------------
(* Properties. *)

\* Ids never pass MaxEvents + 1, the length of a full stream plus one.
Event == [id : 1..(MaxEvents + 1), type : EventType]

Agent == [status : AgentStatus, handle : BOOLEAN, lastError : Errors \union {NoError},
          stream : Seq(Event)]

\* Type correctness of the runtime's state.
TypeOK ==
    /\ status \in RuntimeStatus
    /\ requested \in BOOLEAN
    /\ schedRunning \in BOOLEAN
    /\ Registered \subseteq Configured
    /\ \A a \in Registered : agents[a] \in Agent
    /\ unread \subseteq Configured
    /\ log \in [Configured -> Seq(Event)]

\* A runtime that is or was up, and a scheduler that runs, has an entry for
\* every configured agent, whatever was registered, launched, failed or
\* restarted first.  An agent is Idle only with a subprocess handle; one that
\* is still Starting has none, and nothing but mail ever happened to it.
UpMeansRegistered ==
    /\ schedRunning \/ status \in {"Running", "ShuttingDown"} => Registered = Configured
    /\ \A a \in Registered :
          /\ agents[a].status = "Idle" => agents[a].handle
          /\ agents[a].status = "Starting" =>
                ~agents[a].handle /\ \A i \in 1..Len(log[a]) : log[a][i].type = "MailReceived"

\* The newest event in s that is not a mail report is at position i.
NewestButMail(s, i) ==
    s[i].type # "MailReceived" /\ \A j \in (i + 1)..Len(s) : s[j].type = "MailReceived"

\* The newest event in an agent's stream, mail reports aside, tells whether it
\* has failed: a reader of the events alone can follow failures and restarts,
\* before and after the start and across trimming.  Where a stream that was
\* never full has mail reports only, the agent has not failed.
StatusFollowsEvents ==
    \A a \in Registered :
        LET s == agents[a].stream IN
        /\ \A i \in 1..Len(s) : NewestButMail(s, i) =>
              (agents[a].status = "Failed" <=> s[i].type = "AgentFailed")
        /\ Len(s) < MaxEvents /\ (\A i \in 1..Len(s) : s[i].type = "MailReceived") =>
              agents[a].status # "Failed"

\* Only a failed agent shows an error, and a failure whose error was given
\* shows it until the agent is restarted.
ErrorMeansFailed ==
    \A a \in Registered : agents[a].lastError # NoError => agents[a].status = "Failed"

\* An agent's unread mail is reported when a scheduler that did not run comes
\* up, once, whichever call brings it up (daemon.start() or scheduler.start(),
\* in any order and number); every other step reports no mail.
MailReportedAtStart ==
    [][\A a \in Configured :
          LET n == Len(log[a]) IN
          /\ Len(log'[a]) <= n + 1
          /\ (Len(log'[a]) = n + 1 /\ log'[a][n + 1].type = "MailReceived")
                <=> (~schedRunning /\ schedRunning' /\ a \in unread)]_vars

\* The three views agree once every configured agent is registered, as it is
\* when the runtime is up (UpMeansRegistered): the counts and
\* their total are those of the overview's rows, and the detail of an agent
\* agrees with its row and shows, if asked for all events, the newest of
\* everything that was ever appended for it.
ViewsAgree ==
    Registered = Configured =>
        /\ \A st \in AgentStatus :
              AgentCounts[st] = Cardinality({a \in DOMAIN Overview : Overview[a].status = st})
        /\ AgentTotal = Cardinality(DOMAIN Overview)
        /\ \A a \in DOMAIN Overview :
              /\ AgentDetail(a, NoLimit).status = Overview[a].status
              /\ AgentDetail(a, NoLimit).lastError = Overview[a].lastError
              /\ AgentDetail(a, NoLimit).events = Kept(log[a])

Rank(st) == CASE st = "Starting" -> 0 [] st = "Running" -> 1
              [] st = "ShuttingDown" -> 2 [] st = "Stopped" -> 3

\* Under any sequence of calls the status only moves forward, a shutdown
\* request is never withdrawn, and no agent is forgotten.
OnlyForward ==
    [][/\ Rank(status) <= Rank(status')
       /\ requested => requested'
       /\ DOMAIN agents \subseteq DOMAIN agents']_vars

\* The runtime is the daemon that its holders know: agents, mail and the
\* scheduler hide behind it.
Daemon == INSTANCE Lifecycle

ImplementsLifecycle == Daemon!LifeSpec
=============================================================================
