----------------------------- MODULE RuntimeProofs -----------------------------
(***************************************************************************)
(* What TLAPS proves of the in-process runtime, for every set of agents,   *)
(* every set of error summaries and every bound of the streams.            *)
(***************************************************************************)
EXTENDS Runtime, EventStreamOpsProofs, FiniteSetTheorems

-----------------------------------------------------------------------------
(* The inductive invariant. *)

\* What holds of a registered agent on its own.
AgentOK(agent) ==
    /\ agent \in Agent
    /\ Len(agent.stream) <= MaxEvents
    /\ agent.status = "Idle" => agent.handle
    /\ agent.status = "Starting" => ~agent.handle
    /\ agent.lastError # NoError => agent.status = "Failed"

OnlyMail(s) == \A i \in 1..Len(s) : s[i].type = "MailReceived"

\* What all the events that were ever appended for an agent tell of it.
Told(agent, events) ==
    /\ \A i \in 1..Len(events) : NewestButMail(events, i) =>
          (agent.status = "Failed" <=> events[i].type = "AgentFailed")
    /\ OnlyMail(events) => agent.status # "Failed"
    /\ agent.status = "Starting" => OnlyMail(events)

\* An agent and its history: the stream holds the newest of it, whatever
\* failed and restarted meanwhile.
AgentInv(agent, events) ==
    /\ AgentOK(agent)
    /\ events \in Seq(Event)
    /\ Told(agent, events)
    /\ agent.stream = Kept(events)

\* A runtime that is up, or whose scheduler is, knows all its agents.
AllRegistered ==
    schedRunning \/ status \in {"Running", "ShuttingDown"} => Registered = Configured

\* The invariant that is inductive: nothing was recorded for an agent before
\* it was registered.
IInv ==
    /\ TypeOK
    /\ AllRegistered
    /\ \A a \in Registered : AgentInv(agents[a], log[a])
    /\ \A a \in Configured \ Registered : log[a] = << >>

-----------------------------------------------------------------------------
(* Lemmas about the operations on one agent. *)

\* Recording an event on a well-behaved stream: the result is typed, bounded
\* and leaves the rest of the agent as it was.
LEMMA RecordedProperties ==
    ASSUME NEW agent \in Agent, Len(agent.stream) <= MaxEvents, NEW type \in EventType
    PROVE  LET r == Recorded(agent, type)
           IN  /\ r \in Agent
               /\ Len(r.stream) <= MaxEvents
               /\ r.status = agent.status /\ r.lastError = agent.lastError
               /\ r.handle = agent.handle
               /\ r.stream = AppendBounded(agent.stream, RuntimeEvent(agent, type))
               /\ RuntimeEvent(agent, type) \in Event
               /\ RuntimeEvent(agent, type).type = type
<1> DEFINE e == RuntimeEvent(agent, type)
           s == agent.stream
           r == Recorded(agent, type)
<1>1. s \in Seq(Event) /\ Len(s) \in Nat /\ MaxEvents \in Nat
  BY LenProperties, MaxEventsAssumption DEF Agent
<1>2. e \in Event /\ e.type = type
  BY <1>1 DEF RuntimeEvent, NextId, Event
<1> HIDE DEF e
<1>3. /\ AppendBounded(s, e) \in Seq(Event)
      /\ Len(AppendBounded(s, e)) \in 1..MaxEvents
  BY <1>1, <1>2, AppendBoundedProperties
<1>4. r = [agent EXCEPT !.stream = AppendBounded(s, e)]
  BY DEF Recorded, e
<1>5. /\ r.stream = AppendBounded(s, e) /\ r.status = agent.status
      /\ r.lastError = agent.lastError /\ r.handle = agent.handle
      /\ r \in Agent
  BY <1>3, <1>4 DEF Agent
<1> QED
  BY <1>1, <1>2, <1>3, <1>5 DEF e

\* An agent that has just been registered, launched or not, has no history.
LEMMA NewAgentInv == AgentInv(Fresh, << >>) /\ AgentInv(Launched, << >>)
<1>1. << >> \in Seq(Event) /\ Len(<< >>) = 0 /\ MaxEvents \in Nat
  BY EmptySeq, MaxEventsAssumption
<1>2. Kept(<< >>) = << >>
  BY <1>1, KeptProperties
<1>3. ASSUME NEW agent \in {Fresh, Launched}
      PROVE  /\ AgentOK(agent) /\ agent.stream = << >> /\ agent.status # "Failed"
  <2>1. CASE agent = Fresh
    BY <1>1, <2>1 DEF AgentOK, Fresh, Agent, AgentStatus
  <2>2. CASE agent = Launched
    <3>1. Fresh \in Agent /\ Fresh.stream = << >> /\ Fresh.lastError = NoError
      BY <1>1 DEF Fresh, Agent, AgentStatus
    <3>2. /\ Launched \in Agent /\ Launched.stream = << >> /\ Launched.lastError = NoError
          /\ Launched.status = "Idle" /\ Launched.handle
      <4> HIDE DEF Fresh
      <4> QED
        BY <3>1 DEF Launched, Agent, AgentStatus
    <3> QED
      BY <1>1, <2>2, <3>2 DEF AgentOK
  <2> QED
    BY <2>1, <2>2
<1>4. ASSUME NEW agent, agent.status # "Failed" PROVE Told(agent, << >>)
  BY <1>1, <1>4 DEF Told, OnlyMail
<1> QED
  BY <1>1, <1>2, <1>3, <1>4 DEF AgentInv

\* An event that fits what happens to an agent: a mail report changes nothing,
\* a failure and a restart say what the new status is.
LEMMA RecordedInv ==
    ASSUME NEW agent, NEW events \in Seq(Event), NEW type \in EventType,
           AgentOK(agent), agent.stream = Kept(events),
           \/ type = "MailReceived" /\ Told(agent, events)
           \/ /\ type # "MailReceived" /\ agent.status # "Starting"
              /\ agent.status = "Failed" <=> type = "AgentFailed"
    PROVE  LET e == RuntimeEvent(agent, type)
           IN  /\ AgentInv(Recorded(agent, type), Append(events, e))
               /\ Len(Append(events, e)) = Len(events) + 1
               /\ Append(events, e)[Len(events) + 1].type = type
<1> DEFINE e == RuntimeEvent(agent, type)
           r == Recorded(agent, type)
           n == Len(events)
           grown == Append(events, e)
<1>1. /\ r \in Agent /\ Len(r.stream) <= MaxEvents
      /\ r.status = agent.status /\ r.lastError = agent.lastError /\ r.handle = agent.handle
      /\ r.stream = AppendBounded(agent.stream, e)
      /\ e \in Event /\ e.type = type
  BY RecordedProperties DEF AgentOK
<1> HIDE DEF e, r
<1>2. /\ n \in Nat /\ grown \in Seq(Event) /\ Len(grown) = n + 1 /\ grown[n + 1] = e
      /\ \A i \in 1..n : grown[i] = events[i]
  BY <1>1, AppendProperties, LenProperties
<1>3. AgentOK(r)
  BY <1>1 DEF AgentOK
<1>4. r.stream = Kept(grown)
  BY <1>1, AppendKeepsNewest
<1> HIDE DEF grown, n
<1>5. Told(r, grown)
  <2>1. CASE type = "MailReceived" /\ Told(agent, events)
    <3>1. OnlyMail(grown) <=> OnlyMail(events)
      BY <1>1, <1>2, <2>1 DEF OnlyMail, n
    <3>2. ASSUME NEW i \in 1..Len(grown), NewestButMail(grown, i)
          PROVE  r.status = "Failed" <=> grown[i].type = "AgentFailed"
      <4>1. i \in 1..n
        BY <1>1, <1>2, <2>1, <3>2 DEF NewestButMail
      <4>2. NewestButMail(events, i)
        BY <1>2, <3>2, <4>1 DEF NewestButMail, n
      <4> QED
        BY <1>1, <1>2, <2>1, <4>1, <4>2 DEF Told, n
    <3> QED
      BY <1>1, <2>1, <3>1, <3>2 DEF Told
  <2>2. CASE /\ type # "MailReceived" /\ agent.status # "Starting"
             /\ agent.status = "Failed" <=> type = "AgentFailed"
    <3>1. ~OnlyMail(grown)
      BY <1>1, <1>2, <2>2 DEF OnlyMail
    <3>2. ASSUME NEW i \in 1..Len(grown), NewestButMail(grown, i) PROVE i = n + 1
      BY <1>1, <1>2, <2>2, <3>2 DEF NewestButMail
    <3> QED
      BY <1>1, <1>2, <2>2, <3>1, <3>2 DEF Told
  <2> QED
    BY <2>1, <2>2
<1> QED
  BY <1>1, <1>2, <1>3, <1>4, <1>5 DEF AgentInv, e, r, n, grown

-----------------------------------------------------------------------------
(* The steps. *)

LEMMA InitIInv == Init => IInv
<1> SUFFICES ASSUME Init PROVE IInv
  OBVIOUS
<1>1. Registered = {}
  BY DEF Init, Registered
<1>2. \A a \in Configured : log[a] = << >> /\ log[a] \in Seq(Event)
  BY EmptySeq DEF Init
<1>3. TypeOK
  BY <1>1, <1>2 DEF Init, TypeOK, RuntimeStatus
<1> QED
  BY <1>1, <1>2, <1>3 DEF Init, IInv, AllRegistered

\* The registration of agents, launched or not.
LEMMA RegisteringIInv ==
    ASSUME IInv, NEW those \in SUBSET Configured, NEW new, AgentInv(new, << >>),
           agents' = [a \in Registered \union those |->
                        IF a \in Registered THEN agents[a] ELSE new],
           UNCHANGED <<status, requested, schedRunning, unread, log>>
    PROVE  IInv'
<1>1. TypeOK /\ Registered' = Registered \union those /\ Registered' \subseteq Configured
  BY DEF IInv, TypeOK, Registered
<1>2. \A a \in Registered' : AgentInv(agents'[a], log'[a])
  BY <1>1 DEF IInv
<1>3. TypeOK'
  BY <1>1, <1>2 DEF TypeOK, AgentInv, AgentOK
<1>4. AllRegistered'
  BY <1>1 DEF IInv, AllRegistered
<1> QED
  BY <1>1, <1>2, <1>3, <1>4 DEF IInv

\* What bringing the scheduler up does to one agent and its history.
LEMMA BringUpOne ==
    ASSUME IInv, BringUp, NEW a \in Configured
    PROVE  /\ AgentInv(agents'[a], log'[a])
           /\ a \in unread => /\ Len(log'[a]) = Len(log[a]) + 1
                              /\ log'[a][Len(log[a]) + 1].type = "MailReceived"
           /\ a \notin unread => log'[a] = log[a]
<1>1. AgentInv(AfterLaunch(a), log[a])
  BY NewAgentInv DEF IInv, AfterLaunch
<1>2. /\ agents'[a] = AfterStart(a)
      /\ log'[a] = IF a \in unread
                   THEN Append(log[a], RuntimeEvent(AfterLaunch(a), "MailReceived"))
                   ELSE log[a]
  BY DEF BringUp
<1>3. CASE a \in unread
  <2>1. "MailReceived" \in EventType
    BY DEF EventType
  <2> QED
    BY <1>1, <1>2, <1>3, <2>1, RecordedInv DEF AgentInv, AfterStart
<1>4. CASE a \notin unread
  BY <1>1, <1>2, <1>4 DEF AfterStart
<1> QED
  BY <1>3, <1>4

\* The scheduler comes up, or was up.
LEMMA StartSchedulerIInv ==
    ASSUME IInv, StartScheduler, UNCHANGED <<requested, unread>>,
           status' \in {status, "Running"}
    PROVE  IInv'
<1>1. CASE BringUp
  <2>1. Registered' = Configured
    BY <1>1 DEF BringUp, Registered, IInv, TypeOK
  <2>2. \A a \in Configured : AgentInv(agents'[a], log'[a])
    BY <1>1, BringUpOne
  <2>3. log' \in [Configured -> Seq(Event)]
    BY <1>1, <2>2 DEF BringUp, AgentInv
  <2>4. TypeOK'
    BY <1>1, <2>1, <2>2, <2>3 DEF IInv, TypeOK, RuntimeStatus, BringUp, AgentInv, AgentOK
  <2> QED
    BY <2>1, <2>2, <2>4 DEF IInv, AllRegistered
<1>2. CASE schedRunning /\ UNCHANGED <<agents, log, schedRunning>>
  <2>1. Registered' = Registered /\ Registered = Configured
    BY <1>2 DEF Registered, IInv, AllRegistered
  <2>2. TypeOK'
    BY <1>2, <2>1 DEF IInv, TypeOK, RuntimeStatus
  <2> QED
    BY <1>2, <2>1, <2>2 DEF IInv, AllRegistered
<1> QED
  BY <1>1, <1>2 DEF StartScheduler

\* A supervisor operation on a registered agent whose event fits its status.
LEMMA SuperviseIInv ==
    ASSUME IInv, NEW a \in Registered, NEW agent, AgentOK(agent),
           NEW type \in {"AgentFailed", "AgentRestarted"},
           agent.stream = agents[a].stream, agent.status # "Starting",
           agent.status = "Failed" <=> type = "AgentFailed",
           Supervise(a, agent, type)
    PROVE  /\ IInv'
           /\ Len(log'[a]) = Len(log[a]) + 1
           /\ log'[a][Len(log[a]) + 1].type # "MailReceived"
           /\ \A b \in Configured : b # a => log'[b] = log[b]
<1>1. /\ TypeOK /\ a \in Configured /\ type \in EventType /\ type # "MailReceived"
      /\ AgentInv(agents[a], log[a])
  BY DEF IInv, TypeOK, EventType
<1> DEFINE e == RuntimeEvent(agent, type)
<1>2. /\ agents' = [agents EXCEPT ![a] = Recorded(agent, type)]
      /\ log' = [log EXCEPT ![a] = Append(log[a], e)]
      /\ UNCHANGED <<status, requested, schedRunning, unread>>
  BY DEF Supervise
<1>3. /\ AgentInv(Recorded(agent, type), Append(log[a], e))
      /\ Len(Append(log[a], e)) = Len(log[a]) + 1
      /\ Append(log[a], e)[Len(log[a]) + 1].type = type
  <2>1. log[a] \in Seq(Event) /\ agent.stream = Kept(log[a])
    BY <1>1 DEF AgentInv
  <2> QED
    BY <1>1, <2>1, RecordedInv
<1> HIDE DEF e
<1>4. /\ Registered' = Registered
      /\ agents'[a] = Recorded(agent, type) /\ log'[a] = Append(log[a], e)
      /\ \A b \in Registered : b # a => agents'[b] = agents[b]
      /\ \A b \in Configured : b # a => log'[b] = log[b]
  BY <1>1, <1>2 DEF Registered, TypeOK
<1>5. \A b \in Registered' : AgentInv(agents'[b], log'[b])
  BY <1>1, <1>3, <1>4 DEF IInv, TypeOK
<1>6. TypeOK'
  <2>1. log' \in [Configured -> Seq(Event)]
    BY <1>1, <1>2, <1>3 DEF TypeOK, AgentInv
  <2> QED
    BY <1>1, <1>2, <1>4, <1>5, <2>1 DEF TypeOK, AgentInv, AgentOK
<1> QED
  BY <1>1, <1>2, <1>3, <1>4, <1>5, <1>6 DEF IInv, AllRegistered

\* A failure, with or without an error summary, of an agent in any status.
LEMMA MarkAgentFailedIInv ==
    ASSUME IInv, NEW a, NEW error \in Errors \union {NoError}, MarkAgentFailed(a, error)
    PROVE  /\ IInv' /\ a \in Registered
           /\ Len(log'[a]) = Len(log[a]) + 1
           /\ log'[a][Len(log[a]) + 1].type # "MailReceived"
           /\ \A b \in Configured : b # a => log'[b] = log[b]
<1> DEFINE agent == [agents[a] EXCEPT !.status = "Failed", !.lastError = error]
<1>1. a \in Registered /\ Supervise(a, agent, "AgentFailed")
  BY DEF MarkAgentFailed
<1>2. agents[a] \in Agent /\ Len(agents[a].stream) <= MaxEvents
  BY <1>1 DEF IInv, AgentInv, AgentOK
<1>3. /\ agent \in Agent /\ agent.stream = agents[a].stream
      /\ agent.status = "Failed"
  BY <1>2 DEF Agent, AgentStatus
<1> HIDE DEF agent
<1>4. AgentOK(agent)
  BY <1>2, <1>3 DEF AgentOK
<1> QED
  BY <1>1, <1>3, <1>4, SuperviseIInv

\* A restart, from any status.
LEMMA RestartAgentIInv ==
    ASSUME IInv, NEW a, RestartAgent(a)
    PROVE  /\ IInv' /\ a \in Registered
           /\ Len(log'[a]) = Len(log[a]) + 1
           /\ log'[a][Len(log[a]) + 1].type # "MailReceived"
           /\ \A b \in Configured : b # a => log'[b] = log[b]
<1> DEFINE agent == [agents[a] EXCEPT !.status = "Idle", !.lastError = NoError, !.handle = TRUE]
<1>1. a \in Registered /\ Supervise(a, agent, "AgentRestarted")
  BY DEF RestartAgent
<1>2. agents[a] \in Agent /\ Len(agents[a].stream) <= MaxEvents
  BY <1>1 DEF IInv, AgentInv, AgentOK
<1>3. /\ agent \in Agent /\ agent.stream = agents[a].stream /\ agent.handle
      /\ agent.status = "Idle" /\ agent.lastError = NoError
  BY <1>2 DEF Agent, AgentStatus
<1> HIDE DEF agent
<1>4. AgentOK(agent)
  BY <1>2, <1>3 DEF AgentOK
<1> QED
  BY <1>1, <1>3, <1>4, SuperviseIInv

LEMMA NextIInv == IInv /\ [Next]_vars => IInv'
<1> SUFFICES ASSUME IInv, [Next]_vars PROVE IInv'
  OBVIOUS
<1>1. TypeOK
  BY DEF IInv
<1>2. CASE EnsureAgentsRegistered
  BY <1>2, RegisteringIInv, NewAgentInv DEF EnsureAgentsRegistered, Register
<1>3. ASSUME NEW a \in Configured, EnsureAgentRuntimeState(a) PROVE IInv'
  BY <1>3, RegisteringIInv, NewAgentInv DEF EnsureAgentRuntimeState, Register
<1>4. CASE LaunchAllAgents
  BY <1>4, RegisteringIInv, NewAgentInv DEF LaunchAllAgents, AfterLaunch
<1>5. CASE SchedulerStart
  BY <1>5, StartSchedulerIInv DEF SchedulerStart
<1>6. CASE Start
  BY <1>6, StartSchedulerIInv DEF Start
<1>7. CASE SchedulerStop \/ RequestShutdown \/ MarkStopped
  <2>1. UNCHANGED <<agents, unread, log, Registered>>
    BY <1>7 DEF SchedulerStop, RequestShutdown, MarkStopped, Registered
  <2>2. TypeOK'
    BY <1>1, <1>7, <2>1 DEF SchedulerStop, RequestShutdown, MarkStopped, TypeOK, RuntimeStatus
  <2>3. AllRegistered'
    BY <1>7, <2>1 DEF SchedulerStop, RequestShutdown, MarkStopped, IInv, AllRegistered
  <2> QED
    BY <2>1, <2>2, <2>3 DEF IInv
<1>8. ASSUME NEW a \in Configured, NEW error \in Errors \union {NoError},
             MarkAgentFailed(a, error)
      PROVE  IInv'
  BY <1>8, MarkAgentFailedIInv
<1>9. ASSUME NEW a \in Configured, RestartAgent(a)
      PROVE  IInv'
  BY <1>9, RestartAgentIInv
<1>10. ASSUME NEW a \in Configured, MailChanges(a)
      PROVE  IInv'
  BY <1>1, <1>10 DEF MailChanges, IInv, TypeOK, AllRegistered, Registered
<1>11. CASE UNCHANGED vars
  BY <1>11 DEF vars, IInv, TypeOK, AllRegistered, Registered
<1> QED
  BY <1>2, <1>3, <1>4, <1>5, <1>6, <1>7, <1>8, <1>9, <1>10, <1>11 DEF Next

-----------------------------------------------------------------------------
(* The theorems. *)

\* Every reachable state satisfies the inductive invariant.
THEOREM RuntimeInvariant == Spec => []IInv
<1> QED
  BY InitIInv, NextIInv, PTL DEF Spec

\* The runtime's state is well typed after any sequence of calls.
THEOREM RuntimeTypeCorrect == Spec => []TypeOK
<1>1. IInv => TypeOK
  BY DEF IInv
<1> QED
  BY <1>1, RuntimeInvariant, PTL

\* A runtime that is or was up knows every configured agent, an Idle agent has
\* a handle and a Starting one has none and no past, in whatever order agents
\* were registered, launched, failed and restarted, before the start or after.
THEOREM RuntimeUpMeansRegistered == Spec => []UpMeansRegistered
<1>1. IInv => UpMeansRegistered
  BY DEF IInv, UpMeansRegistered, AllRegistered, AgentInv, AgentOK, Told, OnlyMail
<1> QED
  BY <1>1, RuntimeInvariant, PTL

\* The newest event that is no mail report tells whether the agent has failed,
\* across trimming: the stream is the end of the history, of which this holds.
THEOREM RuntimeStatusFollowsEvents == Spec => []StatusFollowsEvents
<1>1. IInv => StatusFollowsEvents
  <2> SUFFICES ASSUME IInv, NEW a \in Registered
               PROVE  LET s == agents[a].stream IN
                      /\ \A i \in 1..Len(s) : NewestButMail(s, i) =>
                            (agents[a].status = "Failed" <=> s[i].type = "AgentFailed")
                      /\ Len(s) < MaxEvents /\ OnlyMail(s) => agents[a].status # "Failed"
    BY DEF StatusFollowsEvents, OnlyMail
  <2> DEFINE s == agents[a].stream
             l == log[a]
             back == Len(l) - Len(s)
  <2>1. s = Kept(l) /\ l \in Seq(Event) /\ Told(agents[a], l)
    BY DEF IInv, AgentInv
  <2>2. /\ Len(l) \in Nat /\ Len(s) \in 0..Len(l)
        /\ \A i \in 1..Len(s) : s[i] = l[back + i]
        /\ Len(s) < MaxEvents => Len(s) = Len(l)
    BY <2>1, KeptPositions
  <2> HIDE DEF s, l
  <2>3. ASSUME NEW i \in 1..Len(s), NewestButMail(s, i)
        PROVE  agents[a].status = "Failed" <=> s[i].type = "AgentFailed"
    <3>1. back + i \in 1..Len(l) /\ s[i] = l[back + i]
      BY <2>2
    <3>2. ASSUME NEW j \in (back + i + 1)..Len(l) PROVE l[j].type = "MailReceived"
      <4>1. j - back \in (i + 1)..Len(s) /\ j - back \in 1..Len(s) /\ back + (j - back) = j
        BY <2>2
      <4>2. s[j - back].type = "MailReceived"
        BY <2>3, <4>1 DEF NewestButMail
      <4>3. s[j - back] = l[back + (j - back)]
        BY <2>2, <4>1
      <4> QED
        BY <4>1, <4>2, <4>3
    <3>3. NewestButMail(l, back + i)
      BY <2>3, <3>1, <3>2 DEF NewestButMail
    <3> QED
      BY <2>1, <3>1, <3>3 DEF Told
  <2>4. ASSUME Len(s) < MaxEvents, OnlyMail(s) PROVE agents[a].status # "Failed"
    <3>1. \A i \in 1..Len(l) : s[i] = l[i]
      BY <2>2, <2>4
    <3>2. OnlyMail(l)
      BY <2>2, <2>4, <3>1 DEF OnlyMail
    <3> QED
      BY <2>1, <3>2 DEF Told
  <2> QED
    BY <2>3, <2>4 DEF s
<1> QED
  BY <1>1, RuntimeInvariant, PTL

\* Only a failed agent shows an error.
THEOREM RuntimeErrorMeansFailed == Spec => []ErrorMeansFailed
<1>1. IInv => ErrorMeansFailed
  BY DEF IInv, ErrorMeansFailed, AgentInv, AgentOK
<1> QED
  BY <1>1, RuntimeInvariant, PTL

\* What a step may do to the mail reports.
ReportsMail ==
    \A a \in Configured :
        LET n == Len(log[a]) IN
        /\ Len(log'[a]) <= n + 1
        /\ (Len(log'[a]) = n + 1 /\ log'[a][n + 1].type = "MailReceived")
              <=> (~schedRunning /\ schedRunning' /\ a \in unread)

LEMMA LengthsOfLogs == IInv => \A a \in Configured : Len(log[a]) \in Nat
BY LenProperties DEF IInv, TypeOK

\* A step that appends nothing and starts no scheduler, or appends one other
\* event for one agent.
LEMMA NoMailReported ==
    ASSUME IInv, schedRunning' = schedRunning,
           \/ log' = log
           \/ \E a \in Configured :
                 /\ Len(log'[a]) = Len(log[a]) + 1
                 /\ log'[a][Len(log[a]) + 1].type # "MailReceived"
                 /\ \A b \in Configured : b # a => log'[b] = log[b]
    PROVE  ReportsMail
<1>1. \A a \in Configured : Len(log[a]) \in Nat
  BY LengthsOfLogs
<1> QED
  BY <1>1 DEF ReportsMail

LEMMA StartReportsMail ==
    ASSUME IInv, StartScheduler
    PROVE  ReportsMail
<1>1. \A a \in Configured : Len(log[a]) \in Nat
  BY LengthsOfLogs
<1>2. CASE ~schedRunning /\ BringUp
  <2>1. schedRunning'
    BY <1>2 DEF BringUp
  <2>2. \A a \in Configured :
           /\ a \in unread => /\ Len(log'[a]) = Len(log[a]) + 1
                              /\ log'[a][Len(log[a]) + 1].type = "MailReceived"
           /\ a \notin unread => log'[a] = log[a]
    BY <1>2, BringUpOne
  <2> QED
    BY <1>1, <1>2, <2>1, <2>2 DEF ReportsMail
<1>3. CASE schedRunning /\ UNCHANGED <<agents, log, schedRunning>>
  BY <1>3, NoMailReported
<1> QED
  BY <1>2, <1>3 DEF StartScheduler

\* Mail is reported by the step that brings a scheduler up, once for each agent
\* that has some, and by no other step.
THEOREM RuntimeMailReportedAtStart == Spec => MailReportedAtStart
<1>1. IInv /\ [Next]_vars => [ReportsMail]_vars
  <2> SUFFICES ASSUME IInv, Next PROVE ReportsMail
    BY DEF vars
  <2>1. CASE EnsureAgentsRegistered \/ LaunchAllAgents
    BY <2>1, NoMailReported DEF EnsureAgentsRegistered, Register, LaunchAllAgents
  <2>2. ASSUME NEW a \in Configured, EnsureAgentRuntimeState(a) \/ MailChanges(a)
        PROVE  ReportsMail
    BY <2>2, NoMailReported DEF EnsureAgentRuntimeState, Register, MailChanges
  <2>3. CASE SchedulerStart \/ Start
    BY <2>3, StartReportsMail DEF SchedulerStart, Start
  <2>4. CASE SchedulerStop
    <3>1. log' = log /\ ~schedRunning' /\ \A a \in Configured : Len(log[a]) \in Nat
      BY <2>4, LengthsOfLogs DEF SchedulerStop
    <3> QED
      BY <3>1 DEF ReportsMail
  <2>5. CASE RequestShutdown \/ MarkStopped
    BY <2>5, NoMailReported DEF RequestShutdown, MarkStopped
  <2>6. ASSUME NEW a \in Configured, NEW error \in Errors \union {NoError},
               MarkAgentFailed(a, error)
        PROVE  ReportsMail
    <3>1. schedRunning' = schedRunning
      BY <2>6 DEF MarkAgentFailed, Supervise
    <3> QED
      BY <2>6, <3>1, MarkAgentFailedIInv, NoMailReported
  <2>7. ASSUME NEW a \in Configured, RestartAgent(a)
        PROVE  ReportsMail
    <3>1. schedRunning' = schedRunning
      BY <2>7 DEF RestartAgent, Supervise
    <3> QED
      BY <2>7, <3>1, RestartAgentIInv, NoMailReported
  <2> QED
    BY <2>1, <2>2, <2>3, <2>4, <2>5, <2>6, <2>7 DEF Next
<1> QED
  BY <1>1, RuntimeInvariant, PTL DEF Spec, MailReportedAtStart, ReportsMail

\* The size of a set of agents that falls into three parts.
LEMMA ThreeParts ==
    ASSUME NEW A \in SUBSET Configured, NEW B \in SUBSET Configured, NEW C \in SUBSET Configured,
           A \intersect B = {}, (A \union B) \intersect C = {}
    PROVE  Cardinality((A \union B) \union C)
             = Cardinality(A) + Cardinality(B) + Cardinality(C)
<1>1. IsFiniteSet(A) /\ IsFiniteSet(B) /\ IsFiniteSet(C) /\ IsFiniteSet(A \union B)
  <2>1. (A \union B) \in SUBSET Configured
    OBVIOUS
  <2> QED
    BY <2>1, ConfiguredAssumption, FS_Subset
<1>2. /\ Cardinality(A) \in Nat /\ Cardinality(B) \in Nat /\ Cardinality(C) \in Nat
      /\ Cardinality(A \union B) \in Nat /\ Cardinality({}) = 0
  BY <1>1, FS_CardinalityType, FS_EmptySet
<1>3. Cardinality(A \union B) = Cardinality(A) + Cardinality(B) - Cardinality({})
  BY <1>1, FS_Union
<1>4. Cardinality((A \union B) \union C)
        = Cardinality(A \union B) + Cardinality(C) - Cardinality({})
  BY <1>1, FS_Union
<1> QED
  BY <1>2, <1>3, <1>4

\* Counts, total, rows and details describe the same agents, and a detail shows
\* the newest of all the events that were ever appended.
THEOREM RuntimeViewsAgree == Spec => []ViewsAgree
<1>1. IInv => ViewsAgree
  <2> SUFFICES ASSUME IInv, Registered = Configured PROVE ViewsAgree
    BY DEF ViewsAgree
  <2>1. /\ TypeOK /\ Registered = Configured /\ DOMAIN Overview = Registered
        /\ \A a \in Registered : AgentOK(agents[a])
    BY DEF IInv, AgentInv, Overview
  <2>2. \A a \in Registered : Overview[a].status = agents[a].status
    BY DEF Overview
  <2> DEFINE With(st) == {a \in Registered : agents[a].status = st}
  <2>3. \A st \in AgentStatus : AgentCounts[st] = Cardinality(With(st))
    BY DEF AgentCounts
  <2>4. ASSUME NEW st \in AgentStatus
        PROVE  AgentCounts[st] = Cardinality({a \in DOMAIN Overview : Overview[a].status = st})
    <3>1. With(st) = {a \in DOMAIN Overview : Overview[a].status = st}
      BY <2>1, <2>2
    <3> QED
      BY <2>3, <3>1
  <2>5. AgentTotal = Cardinality(DOMAIN Overview)
    <3> DEFINE A == With("Starting")
               B == With("Idle")
               C == With("Failed")
    <3>1. /\ (A \union B) \union C = Registered
          /\ A \intersect B = {} /\ (A \union B) \intersect C = {}
      BY <2>1 DEF AgentOK, Agent, AgentStatus
    <3>2. /\ AgentCounts["Starting"] = Cardinality(A)
          /\ AgentCounts["Idle"] = Cardinality(B)
          /\ AgentCounts["Failed"] = Cardinality(C)
      BY <2>3 DEF AgentStatus
    <3>3. A \in SUBSET Configured /\ B \in SUBSET Configured /\ C \in SUBSET Configured
      BY <2>1
    <3> HIDE DEF A, B, C, With
    <3>4. Cardinality((A \union B) \union C) = Cardinality(A) + Cardinality(B) + Cardinality(C)
      BY <3>1, <3>3, ThreeParts
    <3> QED
      BY <2>1, <3>1, <3>2, <3>4 DEF AgentTotal
  <2>6. ASSUME NEW a \in DOMAIN Overview
        PROVE  /\ AgentDetail(a, NoLimit).status = Overview[a].status
               /\ AgentDetail(a, NoLimit).lastError = Overview[a].lastError
               /\ AgentDetail(a, NoLimit).events = Kept(log[a])
    <3>1. a \in Registered /\ agents[a].stream = Kept(log[a]) /\ agents[a].stream \in Seq(Event)
      BY <2>1 DEF IInv, AgentInv, AgentOK, Agent
    <3>2. GetEvents(agents[a].stream, NoLimit) = agents[a].stream
      BY <3>1, AllEventsReturned
    <3> QED
      BY <3>1, <3>2 DEF AgentDetail, Overview
  <2> QED
    BY <2>4, <2>5, <2>6 DEF ViewsAgree
<1> QED
  BY <1>1, RuntimeInvariant, PTL

\* The status only moves forward, requests are not withdrawn and agents are
\* not forgotten, under any sequence of calls.
THEOREM RuntimeOnlyForward == Spec => OnlyForward
<1> DEFINE Forward == /\ Rank(status) <= Rank(status')
                      /\ requested => requested'
                      /\ DOMAIN agents \subseteq DOMAIN agents'
<1>1. IInv /\ [Next]_vars => [Forward]_vars
  <2> SUFFICES ASSUME IInv, Next PROVE Forward
    BY DEF vars
  <2>1. status \in RuntimeStatus
    BY DEF IInv, TypeOK
  <2>2. CASE Start \/ SchedulerStart
    <3>1. DOMAIN agents \subseteq DOMAIN agents'
      BY <2>2 DEF Start, SchedulerStart, StartScheduler, BringUp, Registered
    <3> QED
      BY <2>1, <2>2, <3>1 DEF Start, SchedulerStart, Rank, RuntimeStatus
  <2>3. CASE RequestShutdown
    BY <2>1, <2>3 DEF RequestShutdown, Rank, RuntimeStatus
  <2>4. CASE MarkStopped
    BY <2>1, <2>4 DEF MarkStopped, Rank, RuntimeStatus
  <2>5. ASSUME NEW a \in Configured, NEW error \in Errors \union {NoError},
               MarkAgentFailed(a, error)
        PROVE  Forward
    BY <2>1, <2>5 DEF MarkAgentFailed, Supervise, Rank, RuntimeStatus
  <2>6. ASSUME NEW a \in Configured, RestartAgent(a)
        PROVE  Forward
    BY <2>1, <2>6 DEF RestartAgent, Supervise, Rank, RuntimeStatus
  <2>7. ASSUME NEW a \in Configured, EnsureAgentRuntimeState(a) \/ MailChanges(a)
        PROVE  Forward
    BY <2>1, <2>7 DEF EnsureAgentRuntimeState, Register, MailChanges, Registered, Rank,
                      RuntimeStatus
  <2>8. CASE EnsureAgentsRegistered \/ LaunchAllAgents \/ SchedulerStop
    BY <2>1, <2>8 DEF EnsureAgentsRegistered, Register, LaunchAllAgents, SchedulerStop,
                      Registered, Rank, RuntimeStatus
  <2> QED
    BY <2>2, <2>3, <2>4, <2>5, <2>6, <2>7, <2>8 DEF Next
<1> QED
  BY <1>1, RuntimeInvariant, PTL DEF Spec, OnlyForward

\* The runtime is the daemon its holders know: it is started once, asked, and
\* stopped, and nothing its agents go through touches that.
THEOREM RuntimeImplementsLifecycle == Spec => ImplementsLifecycle
<1>1. Init => Daemon!LifeInit
  BY DEF Init, Daemon!LifeInit
<1>2. [Next]_vars => [Daemon!LifeNext]_<<status, requested>>
  <2> SUFFICES ASSUME [Next]_vars PROVE Daemon!LifeNext \/ UNCHANGED <<status, requested>>
    OBVIOUS
  <2>1. CASE Start
    BY <2>1 DEF Start, Daemon!LifeNext, Daemon!StartUp
  <2>2. CASE RequestShutdown
    BY <2>2 DEF RequestShutdown, Daemon!LifeNext, Daemon!Request
  <2>3. CASE MarkStopped
    BY <2>3 DEF MarkStopped, Daemon!LifeNext, Daemon!Stop
  <2>4. ASSUME \/ EnsureAgentsRegistered \/ LaunchAllAgents \/ SchedulerStart \/ SchedulerStop
               \/ \E a \in Configured, error \in Errors \union {NoError} :
                     MarkAgentFailed(a, error)
               \/ \E a \in Configured :
                     EnsureAgentRuntimeState(a) \/ RestartAgent(a) \/ MailChanges(a)
        PROVE  UNCHANGED <<status, requested>>
    BY <2>4 DEF EnsureAgentsRegistered, EnsureAgentRuntimeState, Register, LaunchAllAgents,
                SchedulerStart, SchedulerStop, MarkAgentFailed, RestartAgent, MailChanges,
                Supervise
  <2>5. CASE UNCHANGED vars
    BY <2>5 DEF vars
  <2> QED
    BY <2>1, <2>2, <2>3, <2>4, <2>5 DEF Next
<1> QED
  BY <1>1, <1>2, PTL DEF Spec, ImplementsLifecycle, Daemon!LifeSpec
=============================================================================
