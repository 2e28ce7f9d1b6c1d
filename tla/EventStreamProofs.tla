--------------------------- MODULE EventStreamProofs ---------------------------
(***************************************************************************)
(* What TLAPS proves of one agent's event stream, for every bound, every   *)
(* set of event types and every set of read limits.                        *)
(***************************************************************************)
EXTENDS EventStream, EventStreamOpsProofs

-----------------------------------------------------------------------------
(* The invariant. *)

\* The strengthening: types, contents and ids together.  The id of the next
\* event is read off the length of the stream, which HoldsNewest ties to the
\* length of the log.
IInv == TypeOK /\ HoldsNewest /\ IdFollowsPosition

LEMMA InitInv == Init => IInv
<1> SUFFICES ASSUME Init PROVE IInv
  OBVIOUS
<1>1. events = <<>> /\ log = <<>> /\ answer = <<>>
  BY DEF Init
<1>2. TypeOK
  BY <1>1, EmptySeq DEF TypeOK
<1>3. HoldsNewest
  BY <1>1, <1>2, KeptProperties DEF HoldsNewest, TypeOK
<1>4. IdFollowsPosition
  BY <1>1 DEF IdFollowsPosition
<1> QED
  BY <1>2, <1>3, <1>4 DEF IInv

\* The length of the stream under the invariant.
LEMMA StreamLength ==
    ASSUME TypeOK, HoldsNewest
    PROVE  /\ Len(log) \in Nat
           /\ Smaller(Len(log), MaxEvents) \in 0..Len(log)
           /\ Len(events) = Smaller(Len(log), MaxEvents)
<1>1. Len(log) \in Nat /\ log \in Seq(Event)
  BY LenProperties DEF TypeOK
<1> QED
  BY <1>1, KeptProperties DEF HoldsNewest

LEMMA AppendInv ==
    ASSUME IInv, NEW type \in Types, AppendRuntimeEvent(type)
    PROVE  IInv'
<1> DEFINE e == [id |-> NextId(events), type |-> type]
<1>1. /\ events' = AppendBounded(events, e)
      /\ log' = Append(log, e)
      /\ answer' = answer
  BY DEF AppendRuntimeEvent
<1>2. /\ Len(log) \in Nat
      /\ Smaller(Len(log), MaxEvents) \in 0..Len(log)
      /\ Len(events) = Smaller(Len(log), MaxEvents)
  BY StreamLength DEF IInv
<1>3. NextId(events) = Smaller(Len(log) + 1, MaxEvents + 1)
  BY <1>2, MaxEventsAssumption DEF NextId, Smaller
<1>4. NextId(events) \in 1..(MaxEvents + 1)
  BY <1>2, <1>3, MaxEventsAssumption DEF Smaller
<1>5. e \in Event
  BY <1>4 DEF Event
<1>6. /\ log \in Seq(Event) /\ answer \in Seq(Event)
      /\ events = Kept(log)
  BY DEF IInv, TypeOK, HoldsNewest
<1>7. /\ log' \in Seq(Event)
      /\ Len(log') = Len(log) + 1
      /\ \A i \in 1..Len(log) : log'[i] = log[i]
      /\ log'[Len(log) + 1] = e
  BY <1>1, <1>5, <1>6, AppendProperties
<1>8. HoldsNewest'
  BY <1>1, <1>5, <1>6, AppendKeepsNewest DEF HoldsNewest
<1>9. TypeOK'
  <2>1. events' \in Seq(Event)
    BY <1>7, <1>8, KeptProperties DEF HoldsNewest
  <2> QED
    BY <1>1, <1>6, <1>7, <2>1 DEF TypeOK
<1>10. IdFollowsPosition'
  <2> SUFFICES ASSUME NEW i \in 1..Len(log')
               PROVE  log'[i].id = Smaller(i, MaxEvents + 1)
    BY DEF IdFollowsPosition
  <2>1. CASE i \in 1..Len(log)
    BY <1>7, <2>1 DEF IInv, IdFollowsPosition
  <2>2. CASE i = Len(log) + 1
    <3>1. log'[i].id = NextId(events)
      BY <1>7, <2>2
    <3> QED
      BY <1>3, <2>2, <3>1
  <2> QED
    BY <1>2, <1>7, <2>1, <2>2
<1> QED
  BY <1>8, <1>9, <1>10 DEF IInv

LEMMA ReadInv ==
    ASSUME IInv, NEW limit \in Limits, Read(limit)
    PROVE  IInv'
<1>1. /\ answer' = GetEvents(events, limit)
      /\ UNCHANGED <<events, log>>
  BY DEF Read
<1>2. events \in Seq(Event) /\ Len(events) \in Nat
  BY LenProperties DEF IInv, TypeOK
<1>3. Returned(limit, Len(events)) \in 0..Len(events)
  BY <1>2, LimitsAssumption, ReturnedBound
<1>4. GetEvents(events, limit) \in Seq(Event)
  BY <1>2, <1>3, NewestProperties DEF GetEvents
<1> QED
  BY <1>1, <1>4 DEF IInv, TypeOK, HoldsNewest, IdFollowsPosition

LEMMA NextInv == IInv /\ [Next]_vars => IInv'
<1> SUFFICES ASSUME IInv, [Next]_vars PROVE IInv'
  OBVIOUS
<1>1. ASSUME NEW type \in Types, AppendRuntimeEvent(type) PROVE IInv'
  BY <1>1, AppendInv
<1>2. ASSUME NEW limit \in Limits, Read(limit) PROVE IInv'
  BY <1>2, ReadInv
<1>3. CASE UNCHANGED vars
  BY <1>3 DEF vars, IInv, TypeOK, HoldsNewest, IdFollowsPosition
<1> QED
  BY <1>1, <1>2, <1>3 DEF Next

\* The invariant holds in every reachable state.
THEOREM StreamInvariant == Spec => []IInv
BY InitInv, NextInv, PTL DEF Spec

\* Type correctness of the stream, the log and the answers.
THEOREM TypeCorrect == Spec => []TypeOK
<1>1. IInv => TypeOK
  BY DEF IInv
<1> QED
  BY <1>1, StreamInvariant, PTL

\* AgentEventStream.append drops nothing but the oldest events, for every
\* bound and any number of appends.
THEOREM StreamHoldsNewest == Spec => []HoldsNewest
<1>1. IInv => HoldsNewest
  BY DEF IInv
<1> QED
  BY <1>1, StreamInvariant, PTL

\* _append_runtime_event numbers events 1, 2, ... until the stream has been
\* full once, and gives every later event the same number.
THEOREM IdsFollowPosition == Spec => []IdFollowsPosition
<1>1. IInv => IdFollowsPosition
  BY DEF IInv
<1> QED
  BY <1>1, StreamInvariant, PTL

-----------------------------------------------------------------------------
(* The stream implements the log. *)

\* What a reader of the stream gets is the newest part of the log.
LEMMA ReadsNewestOfLog ==
    ASSUME IInv, NEW n \in 0..Len(events)
    PROVE  /\ n \in 0..MaxEvents /\ n \in 0..Len(log)
           /\ Newest(events, n) = Newest(log, n)
<1> DEFINE k == Smaller(Len(log), MaxEvents)
<1>1. Len(log) \in Nat /\ k \in 0..Len(log) /\ Len(events) = k /\ k <= MaxEvents
  BY StreamLength, MaxEventsAssumption DEF IInv, Smaller
<1>2. events \in Seq(Event) /\ log \in Seq(Event) /\ events = Newest(log, k)
  BY DEF IInv, TypeOK, HoldsNewest, Kept
<1>3. n \in 0..MaxEvents /\ n \in 0..Len(log)
  BY <1>1, MaxEventsAssumption
<1>4. /\ Newest(events, n) \in Seq(Event) /\ Len(Newest(events, n)) = n
      /\ \A i \in 1..n : Newest(events, n)[i] = events[k - n + i]
  BY <1>1, <1>2, NewestProperties
<1>5. /\ Newest(log, n) \in Seq(Event) /\ Len(Newest(log, n)) = n
      /\ \A i \in 1..n : Newest(log, n)[i] = log[Len(log) - n + i]
  BY <1>2, <1>3, NewestProperties
<1>6. \A i \in 1..k : events[i] = log[Len(log) - k + i]
  BY <1>1, <1>2, NewestProperties
<1>7. ASSUME NEW i \in 1..n PROVE Newest(events, n)[i] = Newest(log, n)[i]
  <2>1. k - n + i \in 1..k
    BY <1>1
  <2>2. events[k - n + i] = log[Len(log) - k + (k - n + i)]
    BY <1>6, <2>1
  <2>3. Len(log) - k + (k - n + i) = Len(log) - n + i
    BY <1>1
  <2> QED
    BY <1>4, <1>5, <2>2, <2>3
<1>8. Newest(events, n) = Newest(log, n)
  BY <1>4, <1>5, <1>7, SeqEqual
<1> QED
  BY <1>3, <1>8

\* The bounded stream implements EventLog: a reader cannot tell that older
\* events were dropped, except that it may not look back further than
\* MaxEvents.
THEOREM StreamImplementsLog == Spec => ImplementsLog
<1>1. Init => Log!LogInit
  BY DEF Init, Log!LogInit
<1>2. IInv /\ IInv' /\ [Next]_vars => [Log!LogNext]_<<log, answer>>
  <2> SUFFICES ASSUME IInv, IInv', [Next]_vars
               PROVE  [Log!LogNext]_<<log, answer>>
    OBVIOUS
  <2>1. ASSUME NEW type \in Types, AppendRuntimeEvent(type)
        PROVE  Log!LogAppend
    <3> DEFINE e == [id |-> NextId(events), type |-> type]
    <3>1. log' = Append(log, e) /\ answer' = answer
      BY <2>1 DEF AppendRuntimeEvent
    <3>2. log \in Seq(Event) /\ log' \in Seq(Event)
      BY DEF IInv, TypeOK
    <3>3. Len(events) \in Nat /\ Len(events) <= MaxEvents
      BY StreamLength, MaxEventsAssumption DEF IInv, Smaller
    <3>4. NextId(events) \in 1..(MaxEvents + 1)
      BY <3>3, MaxEventsAssumption DEF NextId
    <3>5. e \in Event
      BY <3>4 DEF Event
    <3> QED
      BY <3>1, <3>5 DEF Log!LogAppend
  <2>2. ASSUME NEW limit \in Limits, Read(limit)
        PROVE  Log!LogRead
    <3> DEFINE n == Returned(limit, Len(events))
    <3>1. answer' = Newest(events, n) /\ log' = log
      BY <2>2 DEF Read, GetEvents
    <3>2. Len(events) \in Nat
      BY LenProperties DEF IInv, TypeOK
    <3>3. n \in 0..Len(events)
      BY <3>2, LimitsAssumption, ReturnedBound
    <3>4. n \in 0..MaxEvents /\ n \in 0..Len(log) /\ answer' = Newest(log, n)
      BY <3>1, <3>3, ReadsNewestOfLog
    <3>5. n <= Len(log)
      BY <3>4
    <3> QED
      BY <3>1, <3>4, <3>5 DEF Log!LogRead, Newest
  <2>3. CASE UNCHANGED vars
    BY <2>3 DEF vars
  <2> QED
    BY <2>1, <2>2, <2>3 DEF Next, Log!LogNext
<1> QED
  BY <1>1, <1>2, StreamInvariant, PTL DEF Spec, ImplementsLog, Log!LogSpec
=============================================================================
