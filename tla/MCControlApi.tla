----------------------------- MODULE MCControlApi -----------------------------
(***************************************************************************)
(* ControlApi with a few clients, agents, subscriptions and events.        *)
(***************************************************************************)
EXTENDS ControlApi, TLC

CONSTANTS c1, c2, a1, a2

MCConns   == {c1, c2}
MCSlow    == {c1}
MCAgents  == {a1}
MCFilters == {{}, {a2}}  \* all agents, and one that has no events
MCNoFilter == {{}}
=============================================================================
