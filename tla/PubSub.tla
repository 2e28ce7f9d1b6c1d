-------------------------------- MODULE PubSub --------------------------------
(***************************************************************************)
(* What the control API promises its subscribers (events.subscribe,        *)
(* events.unsubscribe and events.notify), with no connection, handler,     *)
(* task or table in sight: an event gets an audience, the subscriptions    *)
(* that exist and want it when its publication starts, and goes to members *)
(* of its audience that still exist, to each of them at most once.  A      *)
(* publication may be lost half-way, but one that completes has reached    *)
(* everyone in its audience who is still there.                            *)
(***************************************************************************)
EXTENDS Integers, Sequences

CONSTANTS
    Owners,     \* those who subscribe
    Topics,     \* what an event is about
    Wishes,     \* the topics a subscription asks for; {} stands for all
    Ids,        \* numbers of subscriptions
    Pending     \* the audience of an event whose publication has not started

VARIABLES
    next,       \* the number of the next subscription
    active,     \* the subscriptions that exist: number -> [owner, wish]
    events,     \* what was published: [topic, audience, state]
    got         \* history: <<owner, subscription, position of the event>>

pubVars == <<next, active, events, got>>

PubInit ==
    /\ next = 1
    /\ active = [s \in {} |-> s]
    /\ events = << >>
    /\ got = {}

Open(owner, wish) ==
    /\ next \in Ids
    /\ next' = next + 1
    /\ active' = [s \in DOMAIN active \union {next} |->
                    IF s = next THEN [owner |-> owner, wish |-> wish] ELSE active[s]]
    /\ UNCHANGED <<events, got>>

\* One subscription is given up, or all those of an owner who left.
Close(ended) ==
    /\ active' = [s \in DOMAIN active \ ended |-> active[s]]
    /\ UNCHANGED <<next, events, got>>

Publish(topic) ==
    /\ events' = Append(events, [topic |-> topic, audience |-> Pending, state |-> "waiting"])
    /\ UNCHANGED <<next, active, got>>

\* Audiences are settled in the order of the events.
Begin(e) ==
    /\ events[e].state = "waiting"
    /\ \A d \in 1..(e - 1) : events[d].state # "waiting"
    /\ events' = [events EXCEPT ![e].state = "open", ![e].audience =
           {s \in DOMAIN active : active[s].wish = {} \/ events[e].topic \in active[s].wish}]
    /\ UNCHANGED <<next, active, got>>

Reached(e) == {s \in Ids : \E owner \in Owners : <<owner, s, e>> \in got}

Deliver(s, e) ==
    /\ events[e].state = "open"
    /\ s \in (events[e].audience \intersect DOMAIN active) \ Reached(e)
    /\ got' = got \union {<<active[s].owner, s, e>>}
    /\ UNCHANGED <<next, active, events>>

Complete(e) ==
    /\ events[e].state = "open"
    /\ events[e].audience \intersect DOMAIN active \subseteq Reached(e)
    /\ events' = [events EXCEPT ![e].state = "complete"]
    /\ UNCHANGED <<next, active, got>>

Lose(e) ==
    /\ events[e].state = "open"
    /\ events' = [events EXCEPT ![e].state = "lost"]
    /\ UNCHANGED <<next, active, got>>

PubNext ==
    \/ \E owner \in Owners, wish \in Wishes : Open(owner, wish)
    \/ \E ended \in SUBSET Ids : Close(ended)
    \/ \E topic \in Topics : Publish(topic)
    \/ \E e \in DOMAIN events :
          Begin(e) \/ Complete(e) \/ Lose(e) \/ \E s \in Ids : Deliver(s, e)

PubSpec == PubInit /\ [][PubNext]_pubVars

-----------------------------------------------------------------------------
(* What subscribers may rely on. *)

\* An event that has its audience comes before those that have none.
SettledInOrder ==
    \A d, e \in DOMAIN events :
        d < e /\ events[e].state # "waiting" => events[d].state # "waiting"

\* Numbers are not used again: whoever of an audience still exists is the one
\* that wanted the event when its publication started.
AudienceWants ==
    \A e \in DOMAIN events : events[e].state # "waiting" =>
        \A s \in events[e].audience : s \in Ids \intersect Nat /\ s < next
            /\ (s \in DOMAIN active => active[s].wish = {} \/ events[e].topic \in active[s].wish)

\* Only members of the audience get an event, and all that is sent for one
\* subscription goes to one owner, the subscription's own while it exists.
DeliveriesDue ==
    /\ got \subseteq Owners \X Ids \X DOMAIN events
    /\ \A owner \in Owners, s \in Ids, e \in DOMAIN events : <<owner, s, e>> \in got =>
          /\ events[e].state # "waiting" /\ s \in events[e].audience
          /\ s \in DOMAIN active => active[s].owner = owner
          /\ \A other \in Owners, d \in DOMAIN events :
                <<other, s, d>> \in got => other = owner

\* A publication that completes has reached everyone in its audience who is
\* still there, whoever comes and goes afterwards.
CompleteReachesAll ==
    \A e \in DOMAIN events : events[e].state = "complete" =>
        events[e].audience \intersect DOMAIN active \subseteq Reached(e)

Promise == SettledInOrder /\ AudienceWants /\ DeliveriesDue /\ CompleteReachesAll
=============================================================================
