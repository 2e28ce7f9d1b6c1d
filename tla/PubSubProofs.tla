------------------------------ MODULE PubSubProofs ------------------------------
(***************************************************************************)
(* What TLAPS proves of the publish/subscribe service, for every set of    *)
(* owners, topics, wishes and numbers.                                     *)
(***************************************************************************)
EXTENDS PubSub, SequenceTheorems, TLAPS

States == {"waiting", "open", "complete", "lost"}
PubEvent == [topic : Topics, audience : (SUBSET Ids) \union {Pending}, state : States]

\* Type correctness: numbers of subscriptions are issued in order, and events
\* are what PubSub says they are.
PubTypeOK ==
    /\ next \in Nat
    /\ \A s \in DOMAIN active : s \in Ids \intersect Nat /\ s < next /\ active[s].owner \in Owners
    /\ events \in Seq(PubEvent)

\* The invariant that is inductive.
PubInv == PubTypeOK /\ Promise

LEMMA PubInitInv == PubInit => PubInv
<1> SUFFICES ASSUME PubInit PROVE PubInv
  OBVIOUS
<1>1. events = << >> /\ DOMAIN events = {} /\ << >> \in Seq(PubEvent)
  BY EmptySeq DEF PubInit
<1>2. DOMAIN active = {} /\ got = {} /\ next = 1
  BY DEF PubInit
<1>3. PubTypeOK
  BY <1>1, <1>2 DEF PubTypeOK
<1>4. Promise
  BY <1>1, <1>2 DEF Promise, SettledInOrder, AudienceWants, DeliveriesDue, CompleteReachesAll
<1> QED
  BY <1>3, <1>4 DEF PubInv

\* The position of an event.
LEMMA Positions ==
    ASSUME PubTypeOK
    PROVE  /\ Len(events) \in Nat /\ DOMAIN events = 1..Len(events)
           /\ \A e \in DOMAIN events : e \in Nat /\ events[e] \in PubEvent
  BY LenProperties, ElementOfSeq DEF PubTypeOK

\* Subscriptions come, with a new number, and go.
LEMMA SubscriptionsInv ==
    ASSUME PubInv, UNCHANGED <<events, got>>, next' \in Nat, next <= next',
           \A s \in DOMAIN active' :
              /\ s \in Ids \intersect Nat /\ s < next' /\ active'[s].owner \in Owners
              /\ s < next => s \in DOMAIN active /\ active'[s] = active[s]
    PROVE  PubInv'
<1>1. PubTypeOK'
  BY DEF PubInv, PubTypeOK
<1>2. SettledInOrder'
  BY DEF PubInv, Promise, SettledInOrder
<1>3. AudienceWants'
  BY DEF PubInv, PubTypeOK, Promise, AudienceWants
<1>4. DeliveriesDue'
  BY DEF PubInv, PubTypeOK, Promise, DeliveriesDue, AudienceWants
<1>5. CompleteReachesAll'
  BY DEF PubInv, PubTypeOK, Promise, CompleteReachesAll, AudienceWants, Reached
<1> QED
  BY <1>1, <1>2, <1>3, <1>4, <1>5 DEF PubInv, Promise

LEMMA OpenInv ==
    ASSUME PubInv, NEW owner \in Owners, NEW wish, Open(owner, wish)
    PROVE  PubInv'
<1>1. /\ next \in Ids \intersect Nat /\ next' = next + 1 /\ UNCHANGED <<events, got>>
      /\ DOMAIN active' = DOMAIN active \union {next}
      /\ active'[next] = [owner |-> owner, wish |-> wish]
      /\ \A s \in DOMAIN active : s # next => active'[s] = active[s]
  BY DEF Open, PubInv, PubTypeOK
<1>2. \A s \in DOMAIN active' :
         /\ s \in Ids \intersect Nat /\ s < next' /\ active'[s].owner \in Owners
         /\ s < next => s \in DOMAIN active /\ active'[s] = active[s]
  BY <1>1 DEF PubInv, PubTypeOK
<1> QED
  BY <1>1, <1>2, SubscriptionsInv

LEMMA CloseInv ==
    ASSUME PubInv, NEW ended, Close(ended)
    PROVE  PubInv'
<1>1. /\ DOMAIN active' = DOMAIN active \ ended
      /\ \A s \in DOMAIN active' : active'[s] = active[s]
      /\ UNCHANGED <<next, events, got>>
  BY DEF Close
<1>2. \A s \in DOMAIN active' :
         /\ s \in Ids \intersect Nat /\ s < next' /\ active'[s].owner \in Owners
         /\ s < next => s \in DOMAIN active /\ active'[s] = active[s]
  BY <1>1 DEF PubInv, PubTypeOK
<1> QED
  BY <1>1, <1>2, SubscriptionsInv DEF PubInv, PubTypeOK

\* A new event waits.
LEMMA PublishInv ==
    ASSUME PubInv, NEW topic \in Topics, Publish(topic)
    PROVE  PubInv'
<1> DEFINE new == [topic |-> topic, audience |-> Pending, state |-> "waiting"]
<1>1. /\ events' = Append(events, new) /\ UNCHANGED <<next, active, got>>
  BY DEF Publish
<1>2. new \in PubEvent /\ new.state = "waiting"
  <2>1. Pending \in (SUBSET Ids) \union {Pending} /\ "waiting" \in States
    BY DEF States
  <2> QED
    BY <2>1, Zenon DEF PubEvent
<1> HIDE DEF new
<1>3. /\ Len(events) \in Nat /\ DOMAIN events = 1..Len(events)
      /\ \A e \in DOMAIN events : e \in Nat
  BY Positions DEF PubInv
<1>4. /\ events' \in Seq(PubEvent) /\ Len(events') = Len(events) + 1
      /\ \A e \in 1..Len(events) : events'[e] = events[e]
      /\ events'[Len(events) + 1] = new
  <2>1. events \in Seq(PubEvent)
    BY DEF PubInv, PubTypeOK
  <2> HIDE DEF PubEvent
  <2> QED
    BY <1>1, <1>2, <2>1, AppendProperties
<1>5. DOMAIN events' = DOMAIN events \union {Len(events) + 1}
      /\ \A e \in DOMAIN events : events'[e] = events[e]
  BY <1>3, <1>4, LenProperties
<1>6. PubTypeOK'
  BY <1>1, <1>4 DEF PubInv, PubTypeOK
<1>7. SettledInOrder'
  BY <1>2, <1>3, <1>4, <1>5 DEF PubInv, Promise, SettledInOrder
<1>8. AudienceWants'
  BY <1>1, <1>2, <1>4, <1>5 DEF PubInv, Promise, AudienceWants
<1>9. DeliveriesDue'
  BY <1>1, <1>4, <1>5 DEF PubInv, Promise, DeliveriesDue
<1>10. CompleteReachesAll'
  BY <1>1, <1>2, <1>4, <1>5 DEF PubInv, Promise, CompleteReachesAll, Reached
<1> QED
  BY <1>6, <1>7, <1>8, <1>9, <1>10 DEF PubInv, Promise

\* An event goes on to another state.
LEMMA GoesOn ==
    ASSUME PubInv, NEW e \in DOMAIN events, NEW event \in PubEvent,
           events' = [events EXCEPT ![e] = event]
    PROVE  /\ events' \in Seq(PubEvent) /\ DOMAIN events' = DOMAIN events
           /\ events'[e] = event /\ \A d \in DOMAIN events : d # e => events'[d] = events[d]
           /\ DOMAIN events \subseteq Nat
  BY Positions, ExceptSeq DEF PubInv, PubTypeOK

LEMMA BeginInv ==
    ASSUME PubInv, NEW e \in DOMAIN events, Begin(e)
    PROVE  PubInv'
<1> DEFINE audience == {s \in DOMAIN active :
                           active[s].wish = {} \/ events[e].topic \in active[s].wish}
           event == [events[e] EXCEPT !.state = "open", !.audience = audience]
<1>1. /\ events[e].state = "waiting" /\ \A d \in 1..(e - 1) : events[d].state # "waiting"
      /\ events' = [events EXCEPT ![e] = event] /\ UNCHANGED <<next, active, got>>
  BY DEF Begin
<1>2. events[e] \in PubEvent /\ audience \subseteq Ids
  BY Positions DEF PubInv, PubTypeOK
<1>3. event \in PubEvent /\ event.state = "open" /\ event.audience = audience
      /\ event.topic = events[e].topic
  BY <1>2 DEF PubEvent, States
<1> HIDE DEF event
<1>4. /\ events' \in Seq(PubEvent) /\ DOMAIN events' = DOMAIN events
      /\ events'[e] = event /\ \A d \in DOMAIN events : d # e => events'[d] = events[d]
      /\ DOMAIN events \subseteq Nat
  BY <1>1, <1>3, GoesOn
<1>5. PubTypeOK'
  BY <1>1, <1>4 DEF PubInv, PubTypeOK
<1>6. SettledInOrder'
  <2>1. \A d \in DOMAIN events : d < e => d \in 1..(e - 1)
    BY Positions DEF PubInv
  <2> QED
    BY <1>1, <1>3, <1>4, <2>1 DEF PubInv, Promise, SettledInOrder
<1>7. AudienceWants'
  BY <1>1, <1>3, <1>4 DEF PubInv, PubTypeOK, Promise, AudienceWants
<1>8. DeliveriesDue'
  BY <1>1, <1>4 DEF PubInv, Promise, DeliveriesDue
<1>9. CompleteReachesAll'
  BY <1>1, <1>3, <1>4 DEF PubInv, Promise, CompleteReachesAll, Reached
<1> QED
  BY <1>5, <1>6, <1>7, <1>8, <1>9 DEF PubInv, Promise

LEMMA DeliverInv ==
    ASSUME PubInv, NEW e \in DOMAIN events, NEW s \in Ids, Deliver(s, e)
    PROVE  PubInv'
<1> DEFINE owner == active[s].owner
<1>1. /\ events[e].state = "open" /\ s \in events[e].audience /\ s \in DOMAIN active
      /\ got' = got \union {<<owner, s, e>>} /\ UNCHANGED <<next, active, events>>
  BY DEF Deliver
<1>2. owner \in Owners /\ e \in Nat
  BY <1>1, Positions DEF PubInv, PubTypeOK
<1> HIDE DEF owner
<1>3. PubTypeOK'
  BY <1>1, <1>2 DEF PubInv, PubTypeOK
<1>4. SettledInOrder' /\ AudienceWants'
  BY <1>1 DEF PubInv, Promise, SettledInOrder, AudienceWants
<1>5. DeliveriesDue'
  BY <1>1, <1>2 DEF PubInv, Promise, DeliveriesDue, owner
<1>6. CompleteReachesAll'
  BY <1>1 DEF PubInv, Promise, CompleteReachesAll, Reached
<1> QED
  BY <1>3, <1>4, <1>5, <1>6 DEF PubInv, Promise

\* A publication ends.
LEMMA EndInv ==
    ASSUME PubInv, NEW e \in DOMAIN events, Complete(e) \/ Lose(e)
    PROVE  PubInv'
<1> PICK state \in {"complete", "lost"} :
        /\ events' = [events EXCEPT ![e].state = state]
        /\ state = "complete" => events[e].audience \intersect DOMAIN active \subseteq Reached(e)
  BY DEF Complete, Lose
<1> DEFINE event == [events[e] EXCEPT !.state = state]
<1>1. /\ events[e].state = "open" /\ events' = [events EXCEPT ![e] = event]
      /\ UNCHANGED <<next, active, got>>
  BY DEF Complete, Lose
<1>2. events[e] \in PubEvent
  BY Positions DEF PubInv
<1>3. event \in PubEvent /\ event.state = state /\ event.audience = events[e].audience
      /\ event.topic = events[e].topic
  BY <1>2 DEF PubEvent, States
<1> HIDE DEF event
<1>4. /\ events' \in Seq(PubEvent) /\ DOMAIN events' = DOMAIN events
      /\ events'[e] = event /\ \A d \in DOMAIN events : d # e => events'[d] = events[d]
      /\ DOMAIN events \subseteq Nat
  BY <1>1, <1>3, GoesOn
<1>5. PubTypeOK'
  BY <1>1, <1>4 DEF PubInv, PubTypeOK
<1>6. SettledInOrder'
  BY <1>1, <1>3, <1>4 DEF PubInv, Promise, SettledInOrder
<1>7. AudienceWants'
  BY <1>1, <1>3, <1>4 DEF PubInv, PubTypeOK, Promise, AudienceWants
<1>8. DeliveriesDue'
  BY <1>1, <1>3, <1>4 DEF PubInv, Promise, DeliveriesDue
<1>9. CompleteReachesAll'
  BY <1>1, <1>3, <1>4 DEF PubInv, Promise, CompleteReachesAll, Reached
<1> QED
  BY <1>5, <1>6, <1>7, <1>8, <1>9 DEF PubInv, Promise

LEMMA PubNextInv == PubInv /\ [PubNext]_pubVars => PubInv'
<1> SUFFICES ASSUME PubInv, [PubNext]_pubVars PROVE PubInv'
  OBVIOUS
<1>1. ASSUME NEW owner \in Owners, NEW wish \in Wishes, Open(owner, wish) PROVE PubInv'
  BY <1>1, OpenInv
<1>2. ASSUME NEW ended \in SUBSET Ids, Close(ended) PROVE PubInv'
  BY <1>2, CloseInv
<1>3. ASSUME NEW topic \in Topics, Publish(topic) PROVE PubInv'
  BY <1>3, PublishInv
<1>4. ASSUME NEW e \in DOMAIN events, NEW s \in Ids, Deliver(s, e) PROVE PubInv'
  BY <1>4, DeliverInv
<1>5. ASSUME NEW e \in DOMAIN events, Begin(e) \/ Complete(e) \/ Lose(e) PROVE PubInv'
  BY <1>5, BeginInv, EndInv
<1>6. CASE UNCHANGED pubVars
  BY <1>6 DEF pubVars, PubInv, PubTypeOK, Promise, SettledInOrder, AudienceWants, DeliveriesDue,
              CompleteReachesAll, Reached
<1> QED
  BY <1>1, <1>2, <1>3, <1>4, <1>5, <1>6 DEF PubNext

\* The service keeps what it promises.
THEOREM PromiseKept == PubSpec => []Promise
<1>1. PubInv => Promise
  BY DEF PubInv
<1> QED
  BY <1>1, PubInitInv, PubNextInv, PTL DEF PubSpec
=============================================================================
