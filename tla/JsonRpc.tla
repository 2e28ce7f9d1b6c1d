-------------------------------- MODULE JsonRpc --------------------------------
(***************************************************************************)
(* How a frame that a client sends is judged (api/jsonrpc_ws.py,           *)
(* _handle_client, and api/jsonrpc.py, dispatch_request): which error it   *)
(* is answered with, or that it is carried out.                            *)
(*                                                                         *)
(* A frame is Garbage (bytes that are not UTF-8), NotJson, NotAnObject or  *)
(* a request [version, method, params].  Of a parameter it matters whether *)
(* it is there and what int() or isinstance make of it: a number is given  *)
(* as "whole", "word" (int() raises ValueError or TypeError) or "infinite" *)
(* (int() raises OverflowError; 1e999 is valid JSON).                      *)
(***************************************************************************)
EXTENDS Integers

CONSTANTS
    Agents,       \* agents of the swarm
    Garbage,      \* a frame whose bytes json.loads cannot decode
    NotJson,      \* a frame that is not JSON
    NotAnObject,  \* JSON that is not an object
    NoMethod,     \* a method that is missing or not a string
    NotAMapping   \* params that are given and not an object

NoError == 0

Reads == {"runtime.get_status", "swarm.get_overview", "agent.get_detail"}
Methods == Reads \union {"runtime.shutdown", "events.subscribe", "events.unsubscribe"}

Has(params, key) == key \in DOMAIN params
Get(params, key, default) == IF Has(params, key) THEN params[key] ELSE default

\* A mutant of NumberError: an internal error has JSON-RPC's own code for it.
NumberErrorStandard(value) ==
    CASE value = "whole" -> NoError [] value = "word" -> 1000 [] value = "infinite" -> -32603

\* What int(value) raises in dispatch_request, and so the code: a ValueError
\* is the client's, an OverflowError is taken for an internal error.
NumberError(value) ==
    CASE value = "whole" -> NoError [] value = "word" -> 1000 [] value = "infinite" -> 1200

First(error, other) == IF error # NoError THEN error ELSE other

\* A mutant of ShutdownError: the state is looked at first.
ShutdownErrorStateFirst(params, status) ==
    First(IF status = "Running" THEN NoError ELSE 1100,
          NumberError(Get(params, "timeout_seconds", "whole")))

\* runtime.shutdown: the parameter first, then the state.
ShutdownError(params, status) ==
    First(NumberError(Get(params, "timeout_seconds", "whole")),
          IF status = "Running" THEN NoError ELSE 1100)

\* agent.get_detail
DetailError(params) ==
    IF ~Has(params, "agent_id") THEN 1000
    ELSE First(NumberError(Get(params, "max_events", "whole")),
               IF params.agent_id \in Agents THEN NoError ELSE 1001)

MethodError(method, params, status) ==
    CASE method \in {"runtime.get_status", "swarm.get_overview"} -> NoError
      [] method = "runtime.shutdown" -> ShutdownError(params, status)
      [] method = "agent.get_detail" -> DetailError(params)
      [] method = "events.subscribe" ->
           IF Get(params, "agent_ids", "list") = "list" THEN NoError ELSE 1000
      [] method = "events.unsubscribe" ->
           IF Has(params, "subscription_id") THEN NoError ELSE 1000
      [] OTHER -> 1000

\* The code that a frame is answered with while the runtime has this status.
ErrorOf(frame, status) ==
    IF \/ frame \in {NotJson, NotAnObject}
       \/ frame.version # "2.0" \/ frame.method = NoMethod \/ frame.params = NotAMapping
    THEN 1000 ELSE MethodError(frame.method, frame.params, status)

\* The requests that the contract (contracts/runtime-api.md) describes, by
\* method: parameters with the types it gives, and an agent that exists.
Described(frame) ==
    /\ frame \notin {Garbage, NotJson, NotAnObject}
    /\ frame.version = "2.0" /\ frame.params # NotAMapping
    /\ \/ frame.method \in {"runtime.get_status", "swarm.get_overview"}
       \/ /\ frame.method = "runtime.shutdown"
          /\ Get(frame.params, "timeout_seconds", "whole") = "whole"
       \/ /\ frame.method = "agent.get_detail"
          /\ Has(frame.params, "agent_id") /\ frame.params.agent_id \in Agents
          /\ Get(frame.params, "max_events", "whole") = "whole"
       \/ /\ frame.method = "events.subscribe"
          /\ Get(frame.params, "agent_ids", "list") = "list"
       \/ /\ frame.method = "events.unsubscribe"
          /\ Has(frame.params, "subscription_id")

\* A number that int() cannot take because it is infinite, where one is read.
Infinite(frame) ==
    /\ frame \notin {Garbage, NotJson, NotAnObject}
    /\ frame.params # NotAMapping
    /\ \E key \in DOMAIN frame.params : frame.params[key] = "infinite"
=============================================================================
