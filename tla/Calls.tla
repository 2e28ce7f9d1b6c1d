--------------------------------- MODULE Calls ---------------------------------
(***************************************************************************)
(* Calls of the control API by clients that come and go: the client        *)
(* (api/client.py, call_async) opens a connection, sends one request,      *)
(* takes the first frame it receives for the answer and closes; `nate-ntm  *)
(* api call` (cli.py) turns that into an exit code.  Each direction of a   *)
(* connection is a queue, a connection may be lost with what is on its     *)
(* way, and the server may close or die.                                   *)
(*                                                                         *)
(* The server is that of ControlApi as far as a caller can tell it: one    *)
(* message is handled, with the answer written, in one step.               *)
(***************************************************************************)
EXTENDS JsonRpc, Sequences, FiniteSets

CONSTANTS
    Callers,   \* calls, one connection each
    Frames,    \* what a caller may send
    MaxEvents, \* bound of the model: events ever published
    None       \* nothing yet, or nothing any more

ASSUME NoneAssumption == None \notin Frames

\* Where a number belongs there is one of the three that int() tells apart.
ASSUME FramesAssumption ==
    /\ NoMethod \notin Methods
    /\ \A f \in Frames \ {Garbage, NotJson, NotAnObject} : f.params # NotAMapping =>
          \A key \in {"timeout_seconds", "max_events"} \intersect DOMAIN f.params :
              f.params[key] \in {"whole", "word", "infinite"}

VARIABLES
    server,  \* "up", "closing" (server.close()) or "down"
    status,  \* RuntimeState.status
    nextSub, \* the number of the next subscription
    subs,    \* the subscriptions that exist: <<number, caller>>
    link,    \* connection of each caller: "none", "open" or "closed"
    phase,   \* "new", "waiting" in recv() or "done"
    frame,   \* the frame each caller has sent
    unread,  \* the callers whose frame the server has still to handle
    out,     \* what the server has sent that the caller has still to receive
    answer,  \* what each call returned: a frame, or None if it raised
    did,     \* history: what each caller's request has changed
    events   \* history: how many events were published

callerVars == <<link, phase, frame, unread, out, answer>>
serverVars == <<server, status, nextSub, subs, did>>
vars == <<callerVars, serverVars, events>>

Init ==
    /\ server = "up" /\ status = "Running" /\ nextSub = 1 /\ subs = {}
    /\ link = [c \in Callers |-> "none"]
    /\ phase = [c \in Callers |-> "new"]
    /\ frame = [c \in Callers |-> None]
    /\ unread = {}
    /\ out = [c \in Callers |-> << >>]
    /\ answer = [c \in Callers |-> None]
    /\ did = [c \in Callers |-> {}]
    /\ events = 0

SubsOf(c) == {s \in subs : s[2] = c}

-----------------------------------------------------------------------------
(* The client. *)

\* websockets.connect, and the request is sent.
Call(c, f) ==
    /\ phase[c] = "new" /\ server = "up"
    /\ link' = [link EXCEPT ![c] = "open"]
    /\ phase' = [phase EXCEPT ![c] = "waiting"]
    /\ frame' = [frame EXCEPT ![c] = f]
    /\ unread' = unread \union {c}
    /\ UNCHANGED <<out, answer, serverVars, events>>

\* Nobody listens, or the opening handshake takes longer than the timeout.
CannotConnect(c) ==
    /\ phase[c] = "new"
    /\ phase' = [phase EXCEPT ![c] = "done"]
    /\ UNCHANGED <<link, frame, unread, out, answer, serverVars, events>>

\* recv() returns the first frame, whatever it is, and the connection is
\* closed.
Receive(c) ==
    /\ phase[c] = "waiting" /\ out[c] # << >>
    /\ answer' = [answer EXCEPT ![c] = Head(out[c])]
    /\ out' = [out EXCEPT ![c] = << >>]
    /\ link' = [link EXCEPT ![c] = "closed"]
    /\ phase' = [phase EXCEPT ![c] = "done"]
    /\ UNCHANGED <<frame, unread, serverVars, events>>

\* recv() raises ConnectionClosed; there is no timeout but the keepalive's.
ReceiveRaises(c) ==
    /\ phase[c] = "waiting" /\ out[c] = << >> /\ link[c] = "closed"
    /\ phase' = [phase EXCEPT ![c] = "done"]
    /\ UNCHANGED <<link, frame, unread, out, answer, serverVars, events>>

\* The exit code of `nate-ntm api call`: 0 for anything without an error.
ExitCode(c) == IF answer[c] # None /\ answer[c].kind # "error" THEN 0 ELSE 1

-----------------------------------------------------------------------------
(* The server. *)

Error(code) == [kind |-> "error", code |-> code]
Result(c) == [kind |-> "result", to |-> c]

\* A frame that is written reaches the caller unless its connection is closed.
Send(c, answered) ==
    out' = [out EXCEPT ![c] = IF link[c] = "open" THEN Append(@, answered) ELSE @]

\* The next message of a connection, which may have been closed since.
Takes(c) == c \in unread /\ server # "down"

\* A mutant of HandleGarbage: the error is swallowed and the next message
\* waited for.
HandleGarbageSilently(c) ==
    /\ Takes(c) /\ frame[c] = Garbage
    /\ unread' = unread \ {c}
    /\ UNCHANGED <<link, phase, frame, out, answer, serverVars, events>>

\* json.loads raises what the handler does not catch: the connection is closed.
HandleGarbage(c) ==
    /\ Takes(c) /\ frame[c] = Garbage
    /\ unread' = unread \ {c}
    /\ subs' = subs \ SubsOf(c)
    /\ link' = [link EXCEPT ![c] = "closed"]
    /\ UNCHANGED <<phase, frame, out, answer, server, status, nextSub, did, events>>

\* Carry out a request that is answered with a result.
Perform(c, f) ==
    \/ /\ f.method = "runtime.shutdown"
       /\ status' = "ShuttingDown"
       /\ did' = [did EXCEPT ![c] = @ \union {"shutdown"}]
       /\ UNCHANGED <<nextSub, subs>>
    \/ /\ f.method = "events.subscribe"
       /\ subs' = subs \union {<<nextSub, c>>} /\ nextSub' = nextSub + 1
       /\ did' = [did EXCEPT ![c] = @ \union {"subscribe"}]
       /\ UNCHANGED status
    \/ /\ f.method = "events.unsubscribe"
       /\ subs' = {s \in subs : s[1] # f.params.subscription_id}
       /\ did' = [did EXCEPT ![c] = IF subs' # subs THEN {"unsubscribe"} ELSE @]
       /\ UNCHANGED <<status, nextSub>>
    \/ f.method \in Reads /\ UNCHANGED <<status, nextSub, subs, did>>

\* A mutant of Handle: a subscription is made before agent_ids is looked at.
HandleHasty(c) ==
    /\ Takes(c) /\ frame[c] # Garbage
    /\ unread' = unread \ {c}
    /\ LET error == ErrorOf(frame[c], status) IN
       \/ /\ error # NoError /\ Send(c, Error(error))
          /\ IF frame[c] \notin {NotJson, NotAnObject} /\ frame[c].method = "events.subscribe"
             THEN Perform(c, frame[c]) ELSE UNCHANGED <<status, nextSub, subs, did>>
       \/ /\ error = NoError /\ Send(c, Result(c)) /\ Perform(c, frame[c])
    /\ UNCHANGED <<link, phase, frame, answer, server, events>>

\* A mutant of Handle: the answer is sent by a task of its own, so that an
\* event may come first.
HandleDetached(c) ==
    /\ Takes(c) /\ frame[c] # Garbage
    /\ unread' = unread \ {c}
    /\ LET error == ErrorOf(frame[c], status) IN
       \/ /\ error # NoError /\ Send(c, Error(error))
          /\ UNCHANGED <<status, nextSub, subs, did>>
       \/ /\ error = NoError /\ Perform(c, frame[c])
          /\ \/ Send(c, Result(c))
             \/ frame[c].method = "events.subscribe" /\ Send(c, [kind |-> "notify"])
    /\ UNCHANGED <<link, phase, frame, answer, server, events>>

\* An error changes nothing; a result is sent once its request is carried out.
Handle(c) ==
    /\ Takes(c) /\ frame[c] # Garbage
    /\ unread' = unread \ {c}
    /\ LET error == ErrorOf(frame[c], status) IN
       \/ /\ error # NoError /\ Send(c, Error(error))
          /\ UNCHANGED <<status, nextSub, subs, did>>
       \/ /\ error = NoError /\ Send(c, Result(c)) /\ Perform(c, frame[c])
    /\ UNCHANGED <<link, phase, frame, answer, server, events>>

\* The handler of a closed connection ends and drops its subscriptions.
CleanUp(c) ==
    /\ link[c] = "closed" /\ c \notin unread /\ SubsOf(c) # {} /\ server # "down"
    /\ subs' = subs \ SubsOf(c)
    /\ UNCHANGED <<callerVars, server, status, nextSub, did, events>>

\* An event is published to a subscription; ControlApi tells which ones an
\* event reaches.
Notify(c) ==
    /\ server # "down" /\ events < MaxEvents /\ SubsOf(c) # {}
    /\ events' = events + 1
    /\ Send(c, [kind |-> "notify"])
    /\ UNCHANGED <<link, phase, frame, unread, answer, serverVars>>

-----------------------------------------------------------------------------
(* The end of connections and of the server. *)

\* The serve loop has seen the request, or was cancelled: no new connections.
BeginClose ==
    /\ server = "up"
    /\ server' = "closing"
    /\ UNCHANGED <<callerVars, status, nextSub, subs, did, events>>

\* server.close() closes a connection; what was sent before arrives.
CloseServer(c) ==
    /\ server = "closing" /\ link[c] = "open"
    /\ link' = [link EXCEPT ![c] = "closed"]
    /\ UNCHANGED <<phase, frame, unread, out, answer, serverVars, events>>

\* Every handler has ended; mark_stopped().
Stopped ==
    /\ server = "closing" /\ unread = {}
    /\ \A c \in Callers : link[c] # "open" /\ SubsOf(c) = {}
    /\ server' = "down" /\ status' = "Stopped"
    /\ UNCHANGED <<callerVars, nextSub, subs, did, events>>

\* The connection breaks: what is on its way in either direction may be lost.
Break(c) ==
    /\ link[c] = "open"
    /\ link' = [link EXCEPT ![c] = "closed"]
    /\ \E n \in 0..Len(out[c]) : out' = [out EXCEPT ![c] = SubSeq(@, 1, n)]
    /\ unread' \in {unread, unread \ {c}}
    /\ UNCHANGED <<phase, frame, answer, serverVars, events>>

\* The runtime's process is killed and its connections break.
Die ==
    /\ server # "down"
    /\ server' = "down" /\ subs' = {} /\ unread' = {}
    /\ link' = [c \in Callers |-> IF link[c] = "open" THEN "closed" ELSE link[c]]
    /\ UNCHANGED <<phase, frame, out, answer, status, nextSub, did, events>>

CallerNext(c) ==
    \/ \E f \in Frames : Call(c, f)
    \/ CannotConnect(c) \/ Receive(c) \/ ReceiveRaises(c)

ServerNext(c) == HandleGarbage(c) \/ Handle(c) \/ CleanUp(c) \/ CloseServer(c)

Next ==
    \/ \E c \in Callers : CallerNext(c) \/ ServerNext(c) \/ Notify(c) \/ Break(c)
    \/ BeginClose \/ Stopped \/ Die

Spec == Init /\ [][Next]_vars

\* The client's event loop runs, and the server's handlers run and its closing
\* goes on for as long as it lives.  Nothing makes the server close, a network
\* break, or an event happen.
Fairness ==
    \A c \in Callers :
        /\ WF_vars(Receive(c) \/ ReceiveRaises(c))
        /\ WF_vars(HandleGarbage(c) \/ Handle(c)) /\ WF_vars(CloseServer(c))

FairSpec == Spec /\ Fairness

-----------------------------------------------------------------------------
(* Properties. *)

Codes == {1000, 1001, 1100, 1200}
Answers == {Error(code) : code \in Codes} \union {Result(c) : c \in Callers}
           \union {[kind |-> "notify"]}

\* Type correctness of connections, calls and the server.
TypeOK ==
    /\ server \in {"up", "closing", "down"}
    /\ status \in {"Running", "ShuttingDown", "Stopped"}
    /\ nextSub \in Nat \ {0} /\ events \in Nat
    /\ subs \subseteq (1..(nextSub - 1)) \X Callers
    /\ link \in [Callers -> {"none", "open", "closed"}]
    /\ phase \in [Callers -> {"new", "waiting", "done"}]
    /\ frame \in [Callers -> Frames \union {None}]
    /\ unread \subseteq Callers
    /\ out \in [Callers -> Seq(Answers)]
    /\ answer \in [Callers -> Answers \union {None}]
    /\ did \in [Callers -> SUBSET {"shutdown", "subscribe", "unsubscribe"}]

\* What a call returns is the answer to its own request: the client compares
\* no ids, and no notification gets there first, not even on the connection
\* that has just subscribed.
AnswerIsOwn == \A c \in Callers :
    answer[c] # None => answer[c] = Result(c) \/ answer[c].kind = "error"

Effect(f) ==
    CASE f.method = "runtime.shutdown" -> {"shutdown"}
      [] f.method = "events.subscribe" -> {"subscribe"}
      [] OTHER -> {}

\* An error means that nothing was changed, exit code 0 that the request was
\* carried out, and however many callers ask for the shutdown, try again after
\* an answer that was lost or give up, it is carried out once.
AnswerTellsEffect ==
    /\ \A c \in Callers : answer[c] # None =>
          /\ answer[c].kind = "error" => did[c] = {}
          /\ ExitCode(c) = 0 => Effect(frame[c]) \subseteq did[c]
    /\ \A c, d \in Callers : "shutdown" \in did[c] \intersect did[d] => c = d

\* An error's code tells whose fault it was (the contract's ranges): that of a
\* request the contract does not describe, whatever the state, or else that of
\* the state.  Only an infinite number passes for an internal error.
CodeFitsFault ==
    \A c \in Callers : answer[c] # None /\ answer[c].kind # "notify" =>
        /\ Described(frame[c]) <=> answer[c] \in {Result(c), Error(1100)}
        /\ answer[c] = Error(1100) => status # "Running"
        /\ answer[c] = Error(1200) => Infinite(frame[c])

\* Every call comes back, although the client waits for its answer without a
\* time limit: each message is answered or its connection closed.
CallsEnd == \A c \in Callers : phase[c] = "waiting" ~> phase[c] = "done"
=============================================================================
