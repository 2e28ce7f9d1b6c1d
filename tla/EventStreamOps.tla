---------------------------- MODULE EventStreamOps ----------------------------
(***************************************************************************)
(* The pure operations of AgentEventStream (runtime/events.py): a list of  *)
(* events that keeps the newest MaxEvents of them.  They are operators on  *)
(* sequences, so that the stream on its own (EventStream) and the runtime  *)
(* that holds one stream per agent (Runtime) use the same definitions.     *)
(***************************************************************************)
EXTENDS Integers, Sequences

CONSTANTS
    MaxEvents,  \* AgentEventStream.max_events (200 in the program)
    NoLimit     \* the limit None of get_events

\* __post_init__ refuses a non-positive bound.
ASSUME MaxEventsAssumption == MaxEvents \in Nat \ {0}
ASSUME NoLimitAssumption == NoLimit \notin Int

\* The newest n entries of s.
Newest(s, n) == SubSeq(s, Len(s) - n + 1, Len(s))

Smaller(m, n) == IF m <= n THEN m ELSE n

\* What a stream holds after the appends in s: the newest MaxEvents of them.
Kept(s) == Newest(s, Smaller(Len(s), MaxEvents))

\* A mutant of AppendBounded: a full stream drops the newcomer.
AppendBoundedDropsNewest(s, e) ==
    IF Len(s) >= MaxEvents THEN s ELSE Append(s, e)

\* A mutant of AppendBounded: the trim starts one event too late.
AppendBoundedKeepsOneMore(s, e) ==
    IF Len(s) > MaxEvents THEN Append(Tail(s), e) ELSE Append(s, e)

\* append(): add at the end, then drop the oldest entries beyond the bound.
AppendBounded(s, e) ==
    LET grown    == Append(s, e)
        overflow == Len(grown) - MaxEvents
    IN  IF overflow > 0 THEN Newest(grown, Len(grown) - overflow) ELSE grown

\* A mutant of GetEvents: the oldest events of the stream are returned.
GetEventsOldest(s, limit) ==
    SubSeq(s, 1, IF limit = NoLimit \/ limit >= Len(s) THEN Len(s)
                 ELSE IF limit <= 0 THEN 0 ELSE limit)

\* How many of size events get_events(limit) returns.
Returned(limit, size) ==
    IF limit = NoLimit \/ limit >= size THEN size
    ELSE IF limit <= 0 THEN 0 ELSE limit

\* get_events(): the most recent events, up to limit.
GetEvents(s, limit) == Newest(s, Returned(limit, Len(s)))

\* A mutant of NextId: numbering from zero.
NextIdFromZero(s) == Len(s)

\* The number in the event_id "<agent>:<n>" that _append_runtime_event makes
\* from the current length of the stream.
NextId(s) == Len(s) + 1
=============================================================================
