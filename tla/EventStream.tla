------------------------------ MODULE EventStream ------------------------------
(***************************************************************************)
(* One agent's AgentEventStream (runtime/events.py) as AgentSupervisor     *)
(* feeds it (runtime/agents.py, _append_runtime_event) and as              *)
(* agent.get_detail reads it.  Everything runs on one asyncio thread with  *)
(* no await inside, so an append and a read are each one step.             *)
(***************************************************************************)
EXTENDS EventStreamOps

CONSTANTS
    Types,       \* event types the runtime emits
    Limits,      \* limits a reader asks for: integers or NoLimit
    MaxAppends   \* bound of the model on the number of appended events

ASSUME LimitsAssumption == Limits \subseteq Int \union {NoLimit}
ASSUME MaxAppendsAssumption == MaxAppends \in Nat

VARIABLES
    events,      \* AgentEventStream._events
    log,         \* history: every event ever appended
    answer       \* what the last get_events returned

vars == <<events, log, answer>>

\* Ids never pass MaxEvents + 1: see IdFollowsPosition.
Event == [id : 1..(MaxEvents + 1), type : Types]

Init ==
    /\ events = <<>>
    /\ log = <<>>
    /\ answer = <<>>

\* _append_runtime_event: the id is read off the length, then append trims.
AppendRuntimeEvent(type) ==
    LET event == [id |-> NextId(events), type |-> type]
    IN  /\ Len(log) < MaxAppends
        /\ events' = AppendBounded(events, event)
        /\ log' = Append(log, event)
        /\ UNCHANGED answer

\* get_events on behalf of a reader.
Read(limit) ==
    /\ answer' = GetEvents(events, limit)
    /\ UNCHANGED <<events, log>>

Next ==
    \/ \E type \in Types : AppendRuntimeEvent(type)
    \/ \E limit \in Limits : Read(limit)

Spec == Init /\ [][Next]_vars

(***************************************************************************)
(* Properties.                                                             *)
(***************************************************************************)

\* The state stays well typed, and a stream never outgrows its bound
\* ("enforcing the stream's agent and size bound").
TypeOK ==
    /\ events \in Seq(Event)
    /\ log \in Seq(Event)
    /\ answer \in Seq(Event)

\* However many appends came before, the stream holds exactly the newest
\* MaxEvents events in arrival order: trimming drops only the oldest ones.
HoldsNewest == events = Kept(log)

\* The id of the i-th event is i until the stream has filled up; from then on
\* the length no longer grows and every event gets the number MaxEvents + 1.
IdFollowsPosition ==
    \A i \in 1..Len(log) : log[i].id = Smaller(i, MaxEvents + 1)

\* Readers of the bounded stream see what the unbounded log promises.
Log == INSTANCE EventLog WITH Window <- MaxEvents
ImplementsLog == Log!LogSpec

\* "Unique identifier for the event within the stream." (events.py, AgentEvent)
IdsUnique ==
    \A i, j \in 1..Len(events) : i # j => events[i].id # events[j].id
=============================================================================
