-------------------------------- MODULE MCCalls --------------------------------
(***************************************************************************)
(* Calls with one frame of each kind that the dispatch tells apart.        *)
(***************************************************************************)
EXTENDS Calls, TLC

CONSTANTS a1

Request(method, params) == [version |-> "2.0", method |-> method, params |-> params]

NoParams == << >>

Numbers == {"whole", "word", "infinite"}

MCFrames ==
    {Garbage, NotJson, NotAnObject,
     [Request("runtime.shutdown", NoParams) EXCEPT !.version = "1.0"],
     Request(NoMethod, NoParams), Request("runtime.start", NoParams),
     Request("events.subscribe", NotAMapping),
     Request("runtime.get_status", NoParams), Request("swarm.get_overview", NoParams),
     Request("runtime.shutdown", NoParams),
     Request("agent.get_detail", NoParams), Request("events.unsubscribe", NoParams),
     Request("events.subscribe", NoParams),
     Request("events.unsubscribe", [subscription_id |-> 1])}
    \union {Request("runtime.shutdown", [timeout_seconds |-> n]) : n \in Numbers}
    \union {Request("agent.get_detail", [agent_id |-> a, max_events |-> n]) :
               a \in {a1, "nobody"}, n \in Numbers}
    \union {Request("agent.get_detail", [agent_id |-> a1])}
    \union {Request("events.subscribe", [agent_ids |-> v]) : v \in {"list", "text"}}
=============================================================================
