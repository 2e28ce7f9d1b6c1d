--------------------------- MODULE ControlApiProofs ---------------------------
(***************************************************************************)
(* What TLAPS proves of the control API, for every set of connections,     *)
(* agents and filters and every bound: its tables agree, its lifecycle     *)
(* moves forward, its clients are sent the frames they should be, and it   *)
(* implements the publish/subscribe service of PubSub.                     *)
(***************************************************************************)
EXTENDS ControlApi, SequenceTheorems, WellFoundedInduction, TLAPS

-----------------------------------------------------------------------------
(* The inductive invariant of the subscription tables. *)

\* What the proof needs to know of the types, in particular that the tables
\* are functions and that an id is only used after it was issued.
TablesTyped ==
    /\ conn \in [Conns -> {"none", "open", "closed", "gone"}]
    /\ nextSub \in Nat
    /\ subs = [s \in DOMAIN subs |-> subs[s]]
    /\ clientSubs = [c \in DOMAIN clientSubs |-> clientSubs[c]]
    /\ \A s \in DOMAIN subClient : s \in Nat /\ s < nextSub /\ subClient[s] \in Conns
    /\ \A c \in DOMAIN clientSubs : \A s \in clientSubs[c] : s \in Nat /\ s < nextSub

\* After a complete stop no connection is left whose handler could still
\* register a subscription.
StoppedHasNoHandler ==
    main = "stopped" => \A c \in Conns : conn[c] \in {"none", "gone"}

\* The invariant that is inductive.
TablesInv ==
    /\ TablesTyped
    /\ TablesAgree
    /\ StoppedHasNoHandler
    /\ StoppedIsClean

\* The steps that leave the tables alone: connections may close, or open
\* while the server is up, and anything else may happen.
TablesKept ==
    /\ UNCHANGED registryVars
    /\ conn' \in [Conns -> {"none", "open", "closed", "gone"}]
    /\ \A c \in Conns : conn[c] \in {"open", "closed"} => conn'[c] \in {"open", "closed"}
    /\ main' = "stopped" => /\ main = "stopped"
                            /\ \A c \in Conns : conn'[c] \in {"none", "gone"}

LEMMA TablesKeptInv == TablesInv /\ TablesKept => TablesInv'
<1> SUFFICES ASSUME TablesInv, TablesKept PROVE TablesInv'
  OBVIOUS
<1>1. /\ subs' = subs /\ subClient' = subClient /\ clientSubs' = clientSubs
      /\ nextSub' = nextSub
  BY DEF TablesKept, registryVars
<1>2. TablesTyped'
  BY <1>1 DEF TablesInv, TablesTyped, TablesKept
<1>3. TablesAgree'
  BY <1>1 DEF TablesInv, TablesTyped, TablesAgree, TablesKept, SubsOf
<1>4. StoppedHasNoHandler' /\ StoppedIsClean'
  BY <1>1 DEF TablesInv, StoppedHasNoHandler, StoppedIsClean, TablesKept
<1> QED
  BY <1>2, <1>3, <1>4 DEF TablesInv

-----------------------------------------------------------------------------
(* The steps that change the tables. *)

\* A new subscription gets an id that no table knows yet.
LEMMA SubscribeInv ==
    ASSUME TablesInv, NEW c \in Conns, NEW filter, Subscribe(c, filter)
    PROVE  TablesInv'
<1> DEFINE s0 == nextSub
<1>1. /\ TablesTyped /\ TablesAgree /\ StoppedHasNoHandler
      /\ conn[c] \in {"open", "closed"} /\ conn' = conn /\ main' = main
      /\ nextSub' = nextSub + 1
  BY DEF TablesInv, Subscribe, Receives, daemonVars
<1>2. s0 \in Nat /\ s0 \notin DOMAIN subClient
  BY <1>1 DEF TablesTyped
<1>3. \A d \in DOMAIN clientSubs : s0 \notin clientSubs[d]
  BY <1>1 DEF TablesTyped
<1>4. /\ DOMAIN subs' = DOMAIN subs \union {s0}
      /\ subs' = [s \in DOMAIN subs' |-> subs'[s]]
      /\ DOMAIN subClient' = DOMAIN subClient \union {s0}
      /\ subClient'[s0] = c
      /\ \A s \in DOMAIN subClient : subClient'[s] = subClient[s]
  BY <1>2 DEF With, Subscribe
<1>5. /\ DOMAIN clientSubs' = DOMAIN clientSubs \union {c}
      /\ clientSubs' = [d \in DOMAIN clientSubs' |-> clientSubs'[d]]
      /\ clientSubs'[c] = SubsOf(c) \union {s0}
      /\ \A d \in DOMAIN clientSubs : d # c => clientSubs'[d] = clientSubs[d]
  BY DEF With, Subscribe
<1>6. \A s \in SubsOf(c) : c \in DOMAIN clientSubs /\ s \in clientSubs[c]
  BY DEF SubsOf
<1>7. TablesTyped'
  <2>0. nextSub' = s0 + 1 /\ \A s \in Nat : s < s0 => s < nextSub'
    BY <1>1, <1>2
  <2>1. ASSUME NEW s \in DOMAIN subClient'
        PROVE  s \in Nat /\ s < nextSub' /\ subClient'[s] \in Conns
    <3>1. CASE s = s0
      BY <1>2, <1>4, <2>0, <3>1
    <3>2. CASE s \in DOMAIN subClient
      BY <1>1, <1>4, <2>0, <3>2 DEF TablesTyped
    <3> QED
      BY <1>4, <2>1, <3>1, <3>2
  <2>2. ASSUME NEW d \in DOMAIN clientSubs', NEW s \in clientSubs'[d]
        PROVE  s \in Nat /\ s < nextSub'
    <3>1. CASE s = s0
      BY <1>2, <2>0, <3>1
    <3>2. CASE s # s0
      <4>1. d \in DOMAIN clientSubs /\ s \in clientSubs[d]
        BY <1>5, <1>6, <2>2, <3>2
      <4> QED
        BY <1>1, <2>0, <4>1 DEF TablesTyped
    <3> QED
      BY <3>1, <3>2
  <2> QED
    BY <1>1, <1>2, <1>4, <1>5, <2>1, <2>2 DEF TablesTyped
<1>8. TablesAgree'
  <2>1. DOMAIN subs' = DOMAIN subClient'
    BY <1>1, <1>4 DEF TablesAgree
  <2>2. \A s \in DOMAIN subClient' :
          conn'[subClient'[s]] \in {"open", "closed"} /\ s \in SubsOf(subClient[s])'
    <3> SUFFICES ASSUME NEW s \in DOMAIN subClient'
                 PROVE  /\ conn'[subClient'[s]] \in {"open", "closed"}
                        /\ subClient'[s] \in DOMAIN clientSubs'
                        /\ s \in clientSubs'[subClient'[s]]
      BY DEF SubsOf
    <3>1. CASE s = s0
      BY <1>1, <1>4, <1>5, <3>1
    <3>2. CASE s \in DOMAIN subClient
      <4>1. /\ conn[subClient[s]] \in {"open", "closed"}
            /\ subClient[s] \in DOMAIN clientSubs /\ s \in clientSubs[subClient[s]]
        BY <1>1, <3>2 DEF TablesAgree, SubsOf
      <4> QED
        BY <1>1, <1>4, <1>5, <3>2, <4>1 DEF SubsOf
    <3> QED
      BY <1>4, <3>1, <3>2
  <2>3. ASSUME NEW d \in DOMAIN clientSubs', NEW s \in clientSubs'[d],
               s \in DOMAIN subClient'
        PROVE  subClient'[s] = d
    <3>1. CASE s = s0
      BY <1>3, <1>4, <1>5, <2>3, <3>1
    <3>2. CASE s # s0
      <4>1. s \in DOMAIN subClient /\ d \in DOMAIN clientSubs /\ s \in clientSubs[d]
        BY <1>4, <1>5, <1>6, <2>3, <3>2
      <4> QED
        BY <1>1, <1>4, <4>1 DEF TablesAgree
    <3> QED
      BY <3>1, <3>2
  <2> QED
    BY <2>1, <2>2, <2>3 DEF TablesAgree
<1>9. main' # "stopped"
  BY <1>1 DEF StoppedHasNoHandler
<1> QED
  BY <1>7, <1>8, <1>9 DEF TablesInv, StoppedHasNoHandler, StoppedIsClean

\* Any client may drop any id: its owner's set may keep it, but then it is in
\* no other table any more.
LEMMA UnsubscribeInv ==
    ASSUME TablesInv, NEW c \in Conns, NEW s0, Unsubscribe(c, s0)
    PROVE  TablesInv'
<1>1. /\ TablesTyped /\ TablesAgree /\ StoppedHasNoHandler
      /\ conn[c] \in {"open", "closed"} /\ conn' = conn /\ main' = main
      /\ nextSub' = nextSub
      /\ subs' = Without(subs, {s0})
      /\ subClient' = Without(subClient, {s0})
      /\ clientSubs' = IF c \in DOMAIN clientSubs
                       THEN [clientSubs EXCEPT ![c] = @ \ {s0}] ELSE clientSubs
  BY DEF TablesInv, Unsubscribe, Receives, daemonVars
<1>2. /\ DOMAIN subs' = DOMAIN subs \ {s0}
      /\ subs' = [s \in DOMAIN subs' |-> subs'[s]]
      /\ DOMAIN subClient' = DOMAIN subClient \ {s0}
      /\ \A s \in DOMAIN subClient' : subClient'[s] = subClient[s]
  BY <1>1 DEF Without
<1>3. /\ DOMAIN clientSubs' = DOMAIN clientSubs
      /\ clientSubs' = [d \in DOMAIN clientSubs' |-> clientSubs'[d]]
      /\ \A d \in DOMAIN clientSubs :
            clientSubs'[d] \subseteq clientSubs[d] /\ clientSubs[d] \ {s0} \subseteq clientSubs'[d]
  BY <1>1 DEF TablesTyped
<1>4. TablesTyped'
  BY <1>1, <1>2, <1>3 DEF TablesTyped
<1>5. TablesAgree'
  <2>1. DOMAIN subs' = DOMAIN subClient'
    BY <1>1, <1>2 DEF TablesAgree
  <2>2. \A s \in DOMAIN subClient' :
          conn'[subClient'[s]] \in {"open", "closed"} /\ s \in SubsOf(subClient[s])'
    BY <1>1, <1>2, <1>3 DEF TablesAgree, SubsOf
  <2>3. \A d \in DOMAIN clientSubs' : \A s \in clientSubs'[d] :
          s \in DOMAIN subClient' => subClient'[s] = d
    BY <1>1, <1>2, <1>3 DEF TablesAgree
  <2> QED
    BY <2>1, <2>2, <2>3 DEF TablesAgree
<1>6. main' # "stopped"
  BY <1>1 DEF StoppedHasNoHandler
<1> QED
  BY <1>4, <1>5, <1>6 DEF TablesInv, StoppedHasNoHandler, StoppedIsClean

\* The clean-up removes exactly the subscriptions that the lost connection
\* owns, and ids in its set that were dropped before.
LEMMA EndHandlerInv ==
    ASSUME TablesInv, NEW c \in Conns, EndHandler(c) \/ HandlerRaises(c)
    PROVE  TablesInv'
<1>1. /\ TablesTyped /\ TablesAgree /\ StoppedHasNoHandler
      /\ conn[c] \in {"open", "closed"} /\ main' = main /\ nextSub' = nextSub
      /\ \E after \in {"closed", "gone"} : conn' = [conn EXCEPT ![c] = after]
      /\ subs' = Without(subs, SubsOf(c))
      /\ subClient' = Without(subClient, SubsOf(c))
      /\ clientSubs' = Without(clientSubs, {c})
  BY DEF TablesInv, EndHandler, HandlerRaises, Receives, daemonVars
<1>2. /\ DOMAIN subs' = DOMAIN subs \ SubsOf(c)
      /\ subs' = [s \in DOMAIN subs' |-> subs'[s]]
      /\ DOMAIN subClient' = DOMAIN subClient \ SubsOf(c)
      /\ \A s \in DOMAIN subClient' : subClient'[s] = subClient[s]
  BY <1>1 DEF Without
<1>3. /\ DOMAIN clientSubs' = DOMAIN clientSubs \ {c}
      /\ clientSubs' = [d \in DOMAIN clientSubs' |-> clientSubs'[d]]
      /\ \A d \in DOMAIN clientSubs' : clientSubs'[d] = clientSubs[d]
  BY <1>1 DEF Without
<1>4. conn' \in [Conns -> {"none", "open", "closed", "gone"}]
  BY <1>1 DEF TablesTyped
<1>5. TablesTyped'
  BY <1>1, <1>2, <1>3, <1>4 DEF TablesTyped
<1>6. \A s \in DOMAIN subClient' : subClient[s] # c
  BY <1>1, <1>2 DEF TablesAgree
<1>7. TablesAgree'
  <2>1. DOMAIN subs' = DOMAIN subClient'
    BY <1>1, <1>2 DEF TablesAgree
  <2>2. \A s \in DOMAIN subClient' : conn'[subClient'[s]] \in {"open", "closed"}
    BY <1>1, <1>2, <1>6 DEF TablesAgree, TablesTyped
  <2>3. \A s \in DOMAIN subClient' : s \in SubsOf(subClient[s])'
    BY <1>1, <1>2, <1>3, <1>6 DEF TablesAgree, SubsOf
  <2>4. \A d \in DOMAIN clientSubs' : \A s \in clientSubs'[d] :
          s \in DOMAIN subClient' => subClient'[s] = d
    BY <1>1, <1>2, <1>3 DEF TablesAgree
  <2> QED
    BY <2>1, <2>2, <2>3, <2>4 DEF TablesAgree
<1>8. main' # "stopped"
  BY <1>1 DEF StoppedHasNoHandler
<1> QED
  BY <1>5, <1>7, <1>8 DEF TablesInv, StoppedHasNoHandler, StoppedIsClean

\* The server has waited for every handler, so the registry that it does not
\* clear itself is empty already.
LEMMA FinishStopInv == TablesInv /\ FinishStop => TablesInv'
<1> SUFFICES ASSUME TablesInv, FinishStop PROVE TablesInv'
  OBVIOUS
<1>1. /\ TablesTyped /\ TablesAgree
      /\ \A c \in Conns : conn[c] \in {"none", "gone"}
      /\ conn' = conn /\ nextSub' = nextSub /\ subs' = subs
      /\ subClient' = Empty /\ clientSubs' = Empty
  BY DEF TablesInv, FinishStop, connVars
<1>2. DOMAIN Empty = {} /\ Empty = [x \in DOMAIN Empty |-> Empty[x]]
  BY DEF Empty
<1>3. DOMAIN subClient = {} /\ DOMAIN subs = {}
  BY <1>1 DEF TablesTyped, TablesAgree
<1>4. subs = Empty
  BY <1>1, <1>3 DEF TablesTyped, Empty
<1>5. TablesTyped'
  BY <1>1, <1>2 DEF TablesTyped
<1>6. TablesAgree'
  BY <1>1, <1>2, <1>3 DEF TablesAgree
<1> QED
  BY <1>1, <1>4, <1>5, <1>6 DEF TablesInv, StoppedHasNoHandler, StoppedIsClean

-----------------------------------------------------------------------------
(* All steps. *)

LEMMA InitTablesInv == Init => TablesInv
<1> SUFFICES ASSUME Init PROVE TablesInv
  OBVIOUS
<1>1. /\ main = "constructed" /\ conn = [c \in Conns |-> "none"] /\ nextSub = 1
      /\ subs = Empty /\ subClient = Empty /\ clientSubs = Empty
  BY DEF Init, InitFrom
<1>2. DOMAIN Empty = {} /\ Empty = [x \in DOMAIN Empty |-> Empty[x]]
  BY DEF Empty
<1> QED
  BY <1>1, <1>2 DEF TablesInv, TablesTyped, TablesAgree, StoppedHasNoHandler, StoppedIsClean

\* The serve loop, the publish tasks and the other events of a connection.
LEMMA OtherStepsKeepTables ==
    ASSUME TablesInv
    PROVE  /\ Serve \/ BindFails \/ PollSeesRequest \/ Cancel \/ InterruptStop => TablesKept
           /\ \A c \in Conns :
                 Connect(c) \/ Disconnect(c) \/ CloseConn(c) \/ Unblock(c) \/ Shutdown(c)
                   \/ OtherRequest(c) \/ Drained(c) => TablesKept
           /\ \A agent \in Agents : Emit(agent) => TablesKept
           /\ \A t \in Tasks : RunTask(t) \/ AbortTask(t) => TablesKept
           /\ UNCHANGED vars => TablesKept
<1>1. TablesTyped /\ StoppedHasNoHandler
  BY DEF TablesInv
<1>2. ASSUME UNCHANGED <<conn, registryVars>>, main' = main \/ main' # "stopped"
      PROVE  TablesKept
  BY <1>1, <1>2 DEF TablesKept, TablesTyped, StoppedHasNoHandler
<1>3. Serve \/ BindFails \/ PollSeesRequest \/ Cancel \/ InterruptStop => TablesKept
  BY <1>2 DEF Serve, BindFails, PollSeesRequest, Cancel, InterruptStop, connVars
<1>4. ASSUME NEW c \in Conns, Connect(c) \/ Disconnect(c) \/ CloseConn(c)
      PROVE  TablesKept
  <2>1. CASE Connect(c)
    BY <1>1, <2>1 DEF Connect, TablesKept, TablesTyped, daemonVars
  <2>2. CASE Disconnect(c)
    BY <1>1, <2>2 DEF Disconnect, TablesKept, TablesTyped, StoppedHasNoHandler, daemonVars
  <2> QED
    BY <1>4, <2>1, <2>2 DEF CloseConn
<1>5. ASSUME NEW c \in Conns, Unblock(c) \/ Shutdown(c) \/ OtherRequest(c) \/ Drained(c)
      PROVE  TablesKept
  BY <1>2, <1>5 DEF Unblock, Shutdown, OtherRequest, Drained, daemonVars
<1>6. ASSUME NEW agent \in Agents, Emit(agent) PROVE TablesKept
  BY <1>2, <1>6 DEF Emit, daemonVars, connVars
<1>7. ASSUME NEW t \in Tasks, RunTask(t) \/ AbortTask(t) PROVE TablesKept
  BY <1>2, <1>7 DEF RunTask, StartTask, SkipRemoved, SendNext, SendRaises, FinishTask,
                    ResumeTask, AbortTask, daemonVars, connVars
<1>8. UNCHANGED vars => TablesKept
  BY <1>2 DEF vars, daemonVars, connVars
<1> QED
  BY <1>3, <1>4, <1>5, <1>6, <1>7, <1>8

LEMMA NextTablesInv == TablesInv /\ [Next]_vars => TablesInv'
<1> SUFFICES ASSUME TablesInv, [Next]_vars PROVE TablesInv'
  OBVIOUS
<1>1. CASE ServeNext
  BY <1>1, OtherStepsKeepTables, TablesKeptInv, FinishStopInv DEF ServeNext
<1>2. ASSUME NEW c \in Conns, ConnNext(c) PROVE TablesInv'
  <2>1. ASSUME NEW filter \in Filters, Subscribe(c, filter) PROVE TablesInv'
    BY <2>1, SubscribeInv
  <2>2. ASSUME NEW s \in SubIds, Unsubscribe(c, s) PROVE TablesInv'
    BY <2>2, UnsubscribeInv
  <2>3. CASE EndHandler(c) \/ HandlerRaises(c)
    BY <2>3, EndHandlerInv
  <2>4. CASE Connect(c) \/ Disconnect(c) \/ CloseConn(c) \/ Unblock(c) \/ Shutdown(c)
               \/ OtherRequest(c) \/ Drained(c)
    BY <2>4, OtherStepsKeepTables, TablesKeptInv
  <2> QED
    BY <1>2, <2>1, <2>2, <2>3, <2>4 DEF ConnNext
<1>3. ASSUME NEW agent \in Agents, Emit(agent) PROVE TablesInv'
  BY <1>3, OtherStepsKeepTables, TablesKeptInv
<1>4. ASSUME NEW t \in Tasks, RunTask(t) \/ AbortTask(t) PROVE TablesInv'
  BY <1>4, OtherStepsKeepTables, TablesKeptInv
<1>5. CASE UNCHANGED vars
  BY <1>5, OtherStepsKeepTables, TablesKeptInv
<1> QED
  BY <1>1, <1>2, <1>3, <1>4, <1>5 DEF Next

-----------------------------------------------------------------------------
(* The theorems. *)

\* Every reachable state satisfies the inductive invariant.
THEOREM TablesInvariant == Spec => []TablesInv
<1> QED
  BY InitTablesInv, NextTablesInv, PTL DEF Spec

\* The registry and the two routing maps always describe the same
\* subscriptions, whoever unsubscribes whose and however connections end.
THEOREM SubscriptionTablesAgree == Spec => []TablesAgree
<1>1. TablesInv => TablesAgree
  BY DEF TablesInv
<1> QED
  BY <1>1, TablesInvariant, PTL

\* A complete stop leaves no subscription behind in any table.
THEOREM StopLeavesNothing == Spec => []StoppedIsClean
<1>1. TablesInv => StoppedIsClean
  BY DEF TablesInv
<1> QED
  BY <1>1, TablesInvariant, PTL

-----------------------------------------------------------------------------
(* The lifecycle. *)

\* Before the server is up the runtime is Starting and nobody has asked for a
\* shutdown, and a runtime that was asked to shut down is not Running.
LifecycleInv ==
    /\ status \in {"Starting", "Running", "ShuttingDown", "Stopped"}
    /\ main = "constructed" => status = "Starting" /\ ~requested
    /\ requested => status # "Running"

\* What a step may do to the status and to an accepted request.
Forward ==
    /\ Rank(status) <= Rank(status')
    /\ (requested => requested' /\ status' # "Running")

LEMMA InitLifecycle == Init => LifecycleInv
BY DEF Init, InitFrom, LifecycleInv

\* Only the serve loop and runtime.shutdown touch the daemon.
LEMMA OthersLeaveDaemon ==
    ASSUME [Next]_vars, ~ServeNext, \A c \in Conns : ~Shutdown(c)
    PROVE  UNCHANGED daemonVars
<1>1. ASSUME NEW c \in Conns, ConnNext(c) PROVE UNCHANGED daemonVars
  BY <1>1 DEF ConnNext, Connect, Disconnect, CloseConn, Unblock, Subscribe, Unsubscribe,
              OtherRequest, Drained, EndHandler, HandlerRaises
<1>2. ASSUME NEW agent \in Agents, Emit(agent) PROVE UNCHANGED daemonVars
  BY <1>2 DEF Emit
<1>3. ASSUME NEW t \in Tasks, RunTask(t) \/ AbortTask(t) PROVE UNCHANGED daemonVars
  BY <1>3 DEF RunTask, StartTask, SkipRemoved, SendNext, SendRaises, FinishTask,
              ResumeTask, AbortTask
<1>4. CASE UNCHANGED vars
  BY <1>4 DEF vars, daemonVars
<1> QED
  BY <1>1, <1>2, <1>3, <1>4 DEF Next

LEMMA NextLifecycle == LifecycleInv /\ [Next]_vars => LifecycleInv' /\ Forward
<1> SUFFICES ASSUME LifecycleInv, [Next]_vars PROVE LifecycleInv' /\ Forward
  OBVIOUS
<1>1. CASE UNCHANGED daemonVars
  BY <1>1 DEF daemonVars, LifecycleInv, Forward, Rank
<1>2. CASE Serve
  BY <1>2 DEF Serve, LifecycleInv, Forward, Rank
<1>3. CASE BindFails \/ PollSeesRequest \/ Cancel
  BY <1>3 DEF BindFails, PollSeesRequest, Cancel, LifecycleInv, Forward, Rank
<1>4. CASE FinishStop \/ InterruptStop
  BY <1>4 DEF FinishStop, InterruptStop, LifecycleInv, Forward, Rank
<1>5. ASSUME NEW c \in Conns, Shutdown(c) PROVE LifecycleInv' /\ Forward
  BY <1>5 DEF Shutdown, LifecycleInv, Forward, Rank
<1> QED
  BY <1>1, <1>2, <1>3, <1>4, <1>5, OthersLeaveDaemon DEF ServeNext

\* The status of the runtime only moves forward, and a client that was told
\* "accepted" never sees a running runtime again.
THEOREM StatusForward == Spec => StatusMovesForward
<1>1. LifecycleInv /\ [Next]_vars => [Forward]_vars
  BY NextLifecycle
<1> QED
  BY <1>1, InitLifecycle, NextLifecycle, PTL DEF Spec, StatusMovesForward, Forward

LEMMA NextDaemon ==
    LifecycleInv /\ [Next]_vars => [Daemon!LifeNext]_<<status, requested>>
<1> SUFFICES ASSUME LifecycleInv, [Next]_vars
             PROVE  Daemon!LifeNext \/ UNCHANGED <<status, requested>>
  OBVIOUS
<1>1. CASE UNCHANGED daemonVars
  BY <1>1 DEF daemonVars
<1>2. CASE Serve
  BY <1>2 DEF Serve, LifecycleInv, Daemon!LifeNext, Daemon!StartUp
<1>3. CASE BindFails \/ PollSeesRequest \/ Cancel
  BY <1>3 DEF BindFails, PollSeesRequest, Cancel
<1>4. CASE FinishStop \/ InterruptStop
  BY <1>4 DEF FinishStop, InterruptStop, Daemon!LifeNext, Daemon!Stop
<1>5. ASSUME NEW c \in Conns, Shutdown(c) PROVE Daemon!LifeNext
  BY <1>5 DEF Shutdown, Daemon!LifeNext, Daemon!Request
<1> QED
  BY <1>1, <1>2, <1>3, <1>4, <1>5, OthersLeaveDaemon DEF ServeNext

\* The daemon behind the server changes as the daemon of Runtime does: it is
\* started once, asked, and stopped, whatever clients and signals do.
THEOREM ControlApiImplementsLifecycle == Spec => ImplementsLifecycle
<1>1. Init => Daemon!LifeInit
  BY DEF Init, InitFrom, Daemon!LifeInit
<1> QED
  BY <1>1, InitLifecycle, NextLifecycle, NextDaemon, PTL
     DEF Spec, ImplementsLifecycle, Daemon!LifeSpec

-----------------------------------------------------------------------------
(* What clients are sent. *)

\* A set of numbers that is not empty has a least one.
LEMMA LeastExists ==
    ASSUME NEW T \in SUBSET Nat, T # {}
    PROVE  \E s \in T : \A r \in T : s <= r
<1>1. \E s \in T : \A r \in T : <<r, s>> \notin OpToRel(<, Nat)
  BY NatLessThanWellFounded, WFMin
<1>2. PICK s \in T : \A r \in T : <<r, s>> \notin OpToRel(<, Nat)
  BY <1>1
<1>3. \A r \in T : ~(r < s)
  BY <1>2 DEF OpToRel
<1> QED
  BY <1>3

-----------------------------------------------------------------------------
(* Types. *)

LEMMA InitType == Init => TypeOK
<1> SUFFICES ASSUME Init PROVE TypeOK
  OBVIOUS
<1>1. DOMAIN Empty = {}
  BY DEF Empty
<1>2. << >> \in Seq(Frame) /\ << >> \in Seq(Task) /\ Len(<< >>) = 0
  OBVIOUS
<1>3. /\ main = "constructed" /\ status = "Starting" /\ requested = FALSE
      /\ conn = [c \in Conns |-> "none"] /\ handler = [c \in Conns |-> "none"]
      /\ blocked = {} /\ sent = [c \in Conns |-> << >>] /\ nextSub = 1
      /\ subs = Empty /\ subClient = Empty /\ clientSubs = Empty
      /\ tasks = << >> /\ current = NoTask
  BY DEF Init, InitFrom
<1>4. sent \in [Conns -> Seq(Frame)]
  BY <1>2, <1>3
<1>5. tasks \in Seq(Task) /\ Len(tasks) <= MaxEvents
  BY <1>2, <1>3, BoundsAssumption
<1>6. nextSub \in 1..(MaxSubs + 1)
  BY <1>3, BoundsAssumption
<1> QED
  BY <1>1, <1>3, <1>4, <1>5, <1>6 DEF TypeOK

\* What is written are frames.
LEMMA RespondType ==
    ASSUME TypeOK, NEW c \in Conns, NEW frames \in Seq(Frame), Respond(c, frames)
    PROVE  /\ sent' \in [Conns -> Seq(Frame)] /\ blocked' \in SUBSET Conns
           /\ handler' \in [Conns -> {"none", "recv", "drain", "raise", "ended"}]
<1>1. sent[c] \in Seq(Frame)
  BY DEF TypeOK
<1>2. sent[c] \o frames \in Seq(Frame)
  BY <1>1
<1>3. Slow \intersect {c} \subseteq Conns
  BY SlowAssumption
<1> HIDE DEF Frame
<1> QED
  BY <1>2, <1>3 DEF TypeOK, Respond, Write

LEMMA ServeType == TypeOK /\ ServeNext => TypeOK'
<1> SUFFICES ASSUME TypeOK, ServeNext PROVE TypeOK'
  OBVIOUS
<1>1. DOMAIN Empty = {}
  BY DEF Empty
<1> QED
  BY <1>1 DEF TypeOK, ServeNext, Serve, BindFails, PollSeesRequest, Cancel, FinishStop, InterruptStop,
              connVars, registryVars, taskVars, Tasks

LEMMA ConnType ==
    ASSUME TypeOK, NEW c \in Conns,
           Connect(c) \/ Disconnect(c) \/ CloseConn(c) \/ Unblock(c) \/ Drained(c)
    PROVE  TypeOK'
  BY DEF TypeOK, Connect, Disconnect, CloseConn, Unblock, Drained, daemonVars, registryVars,
         taskVars, Tasks

LEMMA CleanUpType ==
    ASSUME TypeOK, NEW c \in Conns, EndHandler(c) \/ HandlerRaises(c)
    PROVE  TypeOK'
<1>1. /\ subs' = Without(subs, SubsOf(c)) /\ subClient' = Without(subClient, SubsOf(c))
      /\ clientSubs' = Without(clientSubs, {c})
      /\ conn' \in [Conns -> {"none", "open", "closed", "gone"}]
      /\ handler' \in [Conns -> {"none", "recv", "drain", "raise", "ended"}]
      /\ blocked' \subseteq blocked
      /\ UNCHANGED <<daemonVars, sent, nextSub, taskVars>>
  BY DEF EndHandler, HandlerRaises, TypeOK
<1>2. DOMAIN subs' \subseteq SubIds /\ \A s \in DOMAIN subs' : subs'[s] \in Filters
  BY <1>1 DEF TypeOK, Without
<1>3. DOMAIN subClient' \subseteq SubIds /\ \A s \in DOMAIN subClient' : subClient'[s] \in Conns
  BY <1>1 DEF TypeOK, Without
<1>4. DOMAIN clientSubs' \subseteq Conns /\ \A d \in DOMAIN clientSubs' : clientSubs'[d] \subseteq SubIds
  BY <1>1 DEF TypeOK, Without
<1> QED
  BY <1>1, <1>2, <1>3, <1>4 DEF TypeOK, daemonVars, taskVars, Tasks

LEMMA RequestType ==
    ASSUME TypeOK, NEW c \in Conns,
           \/ \E filter \in Filters : Subscribe(c, filter)
           \/ \E s \in SubIds : Unsubscribe(c, s)
           \/ Shutdown(c) \/ OtherRequest(c)
    PROVE  TypeOK'
<1>1. ASSUME NEW filter \in Filters, Subscribe(c, filter) PROVE TypeOK'
  <2>1. nextSub \in SubIds /\ nextSub' = nextSub + 1 /\ nextSub' \in 1..(MaxSubs + 1)
    BY <1>1, BoundsAssumption DEF Subscribe, SubIds
  <2>2. <<[kind |-> "subscribed", sub |-> nextSub, filter |-> filter]>> \in Seq(Frame)
    BY <2>1 DEF Frame
  <2>3. /\ sent' \in [Conns -> Seq(Frame)] /\ blocked' \in SUBSET Conns
        /\ handler' \in [Conns -> {"none", "recv", "drain", "raise", "ended"}]
    BY <1>1, <2>2, RespondType DEF Subscribe
  <2>4. /\ subs' = With(subs, nextSub, filter) /\ subClient' = With(subClient, nextSub, c)
        /\ clientSubs' = With(clientSubs, c, SubsOf(c) \union {nextSub})
        /\ UNCHANGED <<daemonVars, conn, taskVars>>
    BY <1>1 DEF Subscribe
  <2>5. SubsOf(c) \subseteq SubIds
    BY DEF TypeOK, SubsOf
  <2>6. DOMAIN subs' \subseteq SubIds /\ \A s \in DOMAIN subs' : subs'[s] \in Filters
    BY <2>1, <2>4 DEF TypeOK, With
  <2>7. DOMAIN subClient' \subseteq SubIds /\ \A s \in DOMAIN subClient' : subClient'[s] \in Conns
    BY <2>1, <2>4 DEF TypeOK, With
  <2>8. DOMAIN clientSubs' \subseteq Conns
        /\ \A d \in DOMAIN clientSubs' : clientSubs'[d] \subseteq SubIds
    BY <2>1, <2>4, <2>5 DEF TypeOK, With
  <2> QED
    BY <2>1, <2>3, <2>4, <2>6, <2>7, <2>8 DEF TypeOK, daemonVars, taskVars, Tasks
<1>2. ASSUME NEW s \in SubIds, Unsubscribe(c, s) PROVE TypeOK'
  <2>1. <<[kind |-> "unsubscribed", sub |-> s]>> \in Seq(Frame)
    BY DEF Frame
  <2>2. /\ sent' \in [Conns -> Seq(Frame)] /\ blocked' \in SUBSET Conns
        /\ handler' \in [Conns -> {"none", "recv", "drain", "raise", "ended"}]
    BY <1>2, <2>1, RespondType DEF Unsubscribe
  <2>3. /\ subs' = Without(subs, {s}) /\ subClient' = Without(subClient, {s})
        /\ clientSubs' = IF c \in DOMAIN clientSubs
                         THEN [clientSubs EXCEPT ![c] = @ \ {s}] ELSE clientSubs
        /\ UNCHANGED <<daemonVars, conn, nextSub, taskVars>>
    BY <1>2 DEF Unsubscribe
  <2>4. DOMAIN subs' \subseteq SubIds /\ \A r \in DOMAIN subs' : subs'[r] \in Filters
    BY <2>3 DEF TypeOK, Without
  <2>5. DOMAIN subClient' \subseteq SubIds /\ \A r \in DOMAIN subClient' : subClient'[r] \in Conns
    BY <2>3 DEF TypeOK, Without
  <2>6. DOMAIN clientSubs' \subseteq Conns
        /\ \A d \in DOMAIN clientSubs' : clientSubs'[d] \subseteq SubIds
    BY <2>3 DEF TypeOK
  <2> QED
    BY <2>2, <2>3, <2>4, <2>5, <2>6 DEF TypeOK, daemonVars, taskVars, Tasks
<1>3. CASE Shutdown(c)
  <2>1. <<[kind |-> "accepted"]>> \in Seq(Frame)
    BY DEF Frame
  <2> QED
    BY <1>3, <2>1, RespondType DEF Shutdown, TypeOK, registryVars, taskVars, Tasks
<1>4. CASE OtherRequest(c)
  <2>1. << >> \in Seq(Frame)
    OBVIOUS
  <2> QED
    BY <1>4, <2>1, RespondType DEF OtherRequest, TypeOK, daemonVars, registryVars, taskVars, Tasks
<1> QED
  BY <1>1, <1>2, <1>3, <1>4

LEMMA EmitType ==
    ASSUME TypeOK, NEW agent \in Agents, Emit(agent)
    PROVE  TypeOK' /\ tasks' = Append(tasks, Queued(agent)) /\ Tasks' = 1..(Len(tasks) + 1)
<1>1. Queued(agent) \in Task
  BY DEF Queued, Task, Stages
<1>2. /\ tasks' = Append(tasks, Queued(agent)) /\ Len(tasks) < MaxEvents
      /\ UNCHANGED <<daemonVars, connVars, registryVars, current>>
  BY DEF Emit
<1>3. tasks \in Seq(Task) /\ Len(tasks) \in Nat /\ Tasks = 1..Len(tasks)
  BY DEF TypeOK, Tasks
<1> HIDE DEF Task
<1>4. /\ tasks' \in Seq(Task) /\ Len(tasks') = Len(tasks) + 1
      /\ Tasks' = 1..(Len(tasks) + 1)
  BY <1>1, <1>2, <1>3 DEF Tasks
<1>5. Len(tasks') <= MaxEvents /\ current' \in Tasks' \union {NoTask}
  BY <1>2, <1>3, <1>4, BoundsAssumption DEF TypeOK
<1> QED
  BY <1>2, <1>4, <1>5 DEF TypeOK, daemonVars, connVars, registryVars

\* What a step of a publish task does to the tasks.
Moved(t, stage, todo, matched, at) ==
    /\ tasks' \in Seq(Task) /\ Len(tasks') = Len(tasks) /\ Tasks' = Tasks
    /\ tasks'[t].agent = tasks[t].agent /\ tasks'[t].stage = stage
    /\ tasks'[t].todo = todo /\ tasks'[t].matched = matched /\ tasks'[t].at = at
    /\ \A u \in Tasks : u # t => tasks'[u] = tasks[u]

LEMMA MovedType ==
    ASSUME TypeOK, NEW t \in Tasks, NEW new \in Task, tasks' = [tasks EXCEPT ![t] = new],
           new.agent = tasks[t].agent
    PROVE  Moved(t, new.stage, new.todo, new.matched, new.at)
<1>1. tasks \in Seq(Task) /\ t \in DOMAIN tasks
  BY DEF TypeOK, Tasks
<1> HIDE DEF Task
<1> QED
  BY <1>1 DEF Tasks, Moved

LEMMA TaskType ==
    ASSUME TypeOK, NEW t \in Tasks
    PROVE  /\ tasks[t] \in Task /\ t \in Nat /\ t \in 1..MaxEvents /\ t # NoTask
           /\ tasks[t].agent \in Agents /\ tasks[t].stage \in Stages
           /\ tasks[t].todo \in SUBSET SubIds /\ tasks[t].matched \in SUBSET SubIds
           /\ tasks[t].at \in SUBSET Conns
<1>1. tasks[t] \in Task
  BY DEF TypeOK, Tasks
<1>2. t \in 1..Len(tasks) /\ Len(tasks) \in Nat /\ Len(tasks) <= MaxEvents
  BY DEF TypeOK, Tasks
<1> QED
  BY <1>1, <1>2, BoundsAssumption DEF Task, NoTask

\* The subscriptions an event is for.
Matching(t) == {s \in DOMAIN subs : Matches(subs[s], tasks[t].agent)}

LEMMA StartMoves ==
    ASSUME TypeOK, NEW t \in Tasks, StartTask(t)
    PROVE  Moved(t, "running", Matching(t), Matching(t), tasks[t].at)
<1>1. tasks[t] \in Task
  BY TaskType
<1>2. tasks' = [tasks EXCEPT ![t].stage = "running", ![t].todo = Matching(t),
                             ![t].matched = Matching(t)]
  BY DEF StartTask, Matching
<1>3. Matching(t) \in SUBSET SubIds
  BY DEF Matching, TypeOK
<1> DEFINE new == [tasks[t] EXCEPT !.stage = "running", !.todo = Matching(t),
                                   !.matched = Matching(t)]
<1>4. /\ new \in Task /\ new.agent = tasks[t].agent /\ new.stage = "running"
      /\ new.todo = Matching(t) /\ new.matched = Matching(t) /\ new.at = tasks[t].at
  BY <1>1, <1>3 DEF Task, Stages
<1>5. tasks' = [tasks EXCEPT ![t] = new]
  BY <1>1, <1>2 DEF TypeOK, Tasks
<1> QED
  BY <1>4, <1>5, MovedType

\* Steps that only change the stage.
LEMMA StageMoves ==
    ASSUME TypeOK, NEW t \in Tasks, NEW stage \in Stages,
           tasks' = [tasks EXCEPT ![t].stage = stage]
    PROVE  Moved(t, stage, tasks[t].todo, tasks[t].matched, tasks[t].at)
<1>1. tasks[t] \in Task
  BY TaskType
<1> DEFINE new == [tasks[t] EXCEPT !.stage = stage]
<1>2. /\ new \in Task /\ new.agent = tasks[t].agent /\ new.stage = stage
      /\ new.todo = tasks[t].todo /\ new.matched = tasks[t].matched /\ new.at = tasks[t].at
  BY <1>1 DEF Task
<1>3. tasks' = [tasks EXCEPT ![t] = new]
  OBVIOUS
<1> QED
  BY <1>2, <1>3, MovedType

\* Steps that take a subscription off the list.
LEMMA TodoMoves ==
    ASSUME TypeOK, NEW t \in Tasks, NEW s, tasks' = [tasks EXCEPT ![t].todo = @ \ {s}]
    PROVE  Moved(t, tasks[t].stage, tasks[t].todo \ {s}, tasks[t].matched, tasks[t].at)
<1>1. tasks[t] \in Task
  BY TaskType
<1> DEFINE new == [tasks[t] EXCEPT !.todo = @ \ {s}]
<1>2. /\ new \in Task /\ new.agent = tasks[t].agent /\ new.stage = tasks[t].stage
      /\ new.todo = tasks[t].todo \ {s} /\ new.matched = tasks[t].matched
      /\ new.at = tasks[t].at
  BY <1>1 DEF Task
<1>3. tasks' = [tasks EXCEPT ![t] = new]
  OBVIOUS
<1> QED
  BY <1>2, <1>3, MovedType

LEMMA SuspendMoves ==
    ASSUME TypeOK, NEW t \in Tasks, NEW s, NEW c \in Conns,
           tasks' = [tasks EXCEPT ![t].todo = @ \ {s}, ![t].stage = "suspended", ![t].at = {c}]
    PROVE  Moved(t, "suspended", tasks[t].todo \ {s}, tasks[t].matched, {c})
<1>1. tasks[t] \in Task
  BY TaskType
<1> DEFINE new == [tasks[t] EXCEPT !.todo = @ \ {s}, !.stage = "suspended", !.at = {c}]
<1>2. /\ new \in Task /\ new.agent = tasks[t].agent /\ new.stage = "suspended"
      /\ new.todo = tasks[t].todo \ {s} /\ new.matched = tasks[t].matched /\ new.at = {c}
  BY <1>1 DEF Task, Stages
<1>3. tasks' = [tasks EXCEPT ![t] = new]
  BY <1>1 DEF TypeOK, Tasks
<1> HIDE DEF new
<1> QED
  BY <1>2, <1>3, MovedType

LEMMA MovedTypeOK ==
    ASSUME TypeOK, NEW t \in Tasks, NEW stage, NEW todo, NEW matched, NEW at,
           Moved(t, stage, todo, matched, at),
           UNCHANGED <<daemonVars, conn, handler, registryVars>>,
           blocked' \in SUBSET Conns, sent' \in [Conns -> Seq(Frame)],
           current' \in {t, NoTask, current}
    PROVE  TypeOK'
<1>1. tasks' \in Seq(Task) /\ Len(tasks') <= MaxEvents /\ current' \in Tasks' \union {NoTask}
  BY DEF TypeOK, Moved
<1> QED
  BY <1>1 DEF TypeOK, daemonVars, registryVars

LEMMA NextTodoIn ==
    ASSUME TypeOK, NEW t \in Tasks, tasks[t].todo # {}
    PROVE  NextTodo(t) \in tasks[t].todo /\ NextTodo(t) \in SubIds
<1>1. tasks[t].todo \in SUBSET SubIds
  BY TaskType
<1>2. tasks[t].todo \in SUBSET Nat
  BY <1>1 DEF SubIds
<1>3. \E s \in tasks[t].todo : \A r \in tasks[t].todo : s <= r
  BY <1>2, LeastExists
<1> QED
  BY <1>1, <1>3 DEF NextTodo

\* The step that sends: what it writes and how the task goes on.
Sends(t, s, c, at) ==
    /\ s = NextTodo(t) /\ s \in tasks[t].todo /\ s \in SubIds /\ s \in DOMAIN subClient
    /\ c = subClient[s] /\ c \in Conns /\ conn[c] = "open" /\ current = t
    /\ sent' = [sent EXCEPT ![c] = @ \o <<[kind |-> "notify", sub |-> s, event |-> t]>>]
    /\ \/ /\ current' = t /\ at = tasks[t].at
          /\ Moved(t, tasks[t].stage, tasks[t].todo \ {s}, tasks[t].matched, at)
       \/ /\ current' = NoTask /\ at = {c}
          /\ Moved(t, "suspended", tasks[t].todo \ {s}, tasks[t].matched, at)

LEMMA SendMoves ==
    ASSUME TypeOK, NEW t \in Tasks, SendNext(t)
    PROVE  \E s \in SubIds, c \in Conns, at \in SUBSET Conns : Sends(t, s, c, at)
<1> DEFINE s == NextTodo(t)
           c == subClient[s]
<1>1. /\ tasks[t].todo # {} /\ s \in DOMAIN subClient /\ conn[c] = "open" /\ current = t
      /\ Write(c, <<[kind |-> "notify", sub |-> s, event |-> t]>>)
      /\ \/ /\ tasks' = [tasks EXCEPT ![t].todo = @ \ {s}, ![t].stage = "suspended",
                                      ![t].at = {c}]
            /\ current' = NoTask
         \/ tasks' = [tasks EXCEPT ![t].todo = @ \ {s}] /\ current' = current
  BY DEF SendNext
<1>2. s \in tasks[t].todo /\ s \in SubIds
  BY <1>1, NextTodoIn
<1>3. c \in Conns
  BY <1>1 DEF TypeOK
<1>4. tasks[t].at \in SUBSET Conns /\ {c} \in SUBSET Conns
  BY <1>3, TaskType
<1>5. sent' = [sent EXCEPT ![c] = @ \o <<[kind |-> "notify", sub |-> s, event |-> t]>>]
  BY <1>1 DEF Write
<1>6. CASE tasks' = [tasks EXCEPT ![t].todo = @ \ {s}] /\ current' = current
  <2>1. Moved(t, tasks[t].stage, tasks[t].todo \ {s}, tasks[t].matched, tasks[t].at)
    BY <1>6, TodoMoves
  <2>2. Sends(t, s, c, tasks[t].at)
    BY <1>1, <1>2, <1>3, <1>5, <1>6, <2>1 DEF Sends
  <2> QED
    BY <1>2, <1>3, <1>4, <2>2
<1>7. CASE /\ tasks' = [tasks EXCEPT ![t].todo = @ \ {s}, ![t].stage = "suspended",
                                     ![t].at = {c}]
           /\ current' = NoTask
  <2>1. Moved(t, "suspended", tasks[t].todo \ {s}, tasks[t].matched, {c})
    BY <1>3, <1>7, SuspendMoves
  <2>2. Sends(t, s, c, {c})
    BY <1>1, <1>2, <1>3, <1>5, <1>7, <2>1 DEF Sends
  <2> QED
    BY <1>2, <1>3, <1>4, <2>2
<1> QED
  BY <1>1, <1>6, <1>7

\* The steps of publish tasks that send nothing.
LEMMA SilentMoves ==
    ASSUME TypeOK, NEW t \in Tasks
    PROVE  /\ SkipRemoved(t) =>
                 /\ tasks[t].todo # {} /\ NextTodo(t) \in tasks[t].todo
                 /\ Moved(t, tasks[t].stage, tasks[t].todo \ {NextTodo(t)}, tasks[t].matched, tasks[t].at)
           /\ SendRaises(t) \/ AbortTask(t) =>
                 Moved(t, "aborted", tasks[t].todo, tasks[t].matched, tasks[t].at)
           /\ FinishTask(t) => Moved(t, "done", tasks[t].todo, tasks[t].matched, tasks[t].at)
           /\ ResumeTask(t) => Moved(t, "running", tasks[t].todo, tasks[t].matched, tasks[t].at)
<1>1. SkipRemoved(t) =>
         /\ tasks[t].todo # {} /\ NextTodo(t) \in tasks[t].todo
         /\ Moved(t, tasks[t].stage, tasks[t].todo \ {NextTodo(t)}, tasks[t].matched, tasks[t].at)
  BY NextTodoIn, TodoMoves DEF SkipRemoved
<1>2. SendRaises(t) \/ AbortTask(t) =>
         Moved(t, "aborted", tasks[t].todo, tasks[t].matched, tasks[t].at)
  BY StageMoves DEF SendRaises, AbortTask, Stages
<1>3. FinishTask(t) => Moved(t, "done", tasks[t].todo, tasks[t].matched, tasks[t].at)
  BY StageMoves DEF FinishTask, Stages
<1>4. ResumeTask(t) => Moved(t, "running", tasks[t].todo, tasks[t].matched, tasks[t].at)
  BY StageMoves DEF ResumeTask, Stages
<1> QED
  BY <1>1, <1>2, <1>3, <1>4

LEMMA PublishType ==
    ASSUME TypeOK, NEW t \in Tasks, RunTask(t) \/ AbortTask(t)
    PROVE  TypeOK'
<1>1. CASE StartTask(t)
  BY <1>1, StartMoves, MovedTypeOK DEF StartTask, connVars, TypeOK
<1>2. CASE SkipRemoved(t)
  BY <1>2, SilentMoves, MovedTypeOK DEF SkipRemoved, connVars, TypeOK
<1>3. CASE SendNext(t)
  <2>1. PICK s \in SubIds, c \in Conns, at \in SUBSET Conns : Sends(t, s, c, at)
    BY <1>3, SendMoves
  <2>2. <<[kind |-> "notify", sub |-> s, event |-> t]>> \in Seq(Frame)
    BY TaskType DEF Frame
  <2>3. sent' \in [Conns -> Seq(Frame)]
    <3>1. sent[c] \in Seq(Frame)
      BY DEF TypeOK
    <3> HIDE DEF Frame
    <3>2. sent[c] \o <<[kind |-> "notify", sub |-> s, event |-> t]>> \in Seq(Frame)
      BY <2>2, <3>1
    <3> QED
      BY <2>1, <3>2 DEF Sends, TypeOK
  <2>4. blocked' \in SUBSET Conns /\ UNCHANGED <<daemonVars, conn, handler, registryVars>>
    BY <1>3, SlowAssumption DEF SendNext, Write, TypeOK
  <2> QED
    BY <2>1, <2>3, <2>4, MovedTypeOK DEF Sends
<1>4. CASE SendRaises(t) \/ FinishTask(t) \/ ResumeTask(t) \/ AbortTask(t)
  BY <1>4, SilentMoves, MovedTypeOK DEF SendRaises, FinishTask, ResumeTask, AbortTask, connVars, TypeOK
<1> QED
  BY <1>1, <1>2, <1>3, <1>4 DEF RunTask

LEMMA NextType == TypeOK /\ [Next]_vars => TypeOK'
<1> SUFFICES ASSUME TypeOK, [Next]_vars PROVE TypeOK'
  OBVIOUS
<1>1. ASSUME NEW c \in Conns, ConnNext(c) PROVE TypeOK'
  BY <1>1, ConnType, RequestType, CleanUpType DEF ConnNext
<1>2. CASE UNCHANGED vars
  BY <1>2 DEF vars, daemonVars, connVars, registryVars, taskVars, TypeOK, Tasks
<1> QED
  BY <1>1, <1>2, ServeType, EmitType, PublishType DEF Next

-----------------------------------------------------------------------------
(* The publish tasks. *)

\* What holds of one task: only the task that holds the thread is running, it
\* still has to send to some of those it was built for, those exist no more
\* or want the event, and it has waited if it is suspended.  Later tasks have
\* not started before it has, nor while it runs without having waited.
TaskInv(t) ==
    /\ tasks[t].stage = "running" <=> current = t
    /\ tasks[t].todo \subseteq tasks[t].matched
    /\ \A s \in tasks[t].matched :
          s < nextSub /\ (s \in DOMAIN subs => Matches(subs[s], tasks[t].agent))
    /\ tasks[t].stage = "suspended" => tasks[t].at # {}
    /\ tasks[t].stage = "queued" => tasks[t].at = {}
    /\ tasks[t].stage \in {"queued", "running"} /\ tasks[t].at = {} =>
          \A u \in Tasks : u > t => tasks[u].stage = "queued"

TasksInv == \A t \in Tasks : TaskInv(t)

\* The registry loses subscriptions or gains one with the next number.
LEMMA RegistryTasks ==
    ASSUME TypeOK, TasksInv, UNCHANGED taskVars, nextSub <= nextSub', nextSub' \in Int,
           \A s \in DOMAIN subs' : s < nextSub => s \in DOMAIN subs /\ subs'[s] = subs[s]
    PROVE  TasksInv'
<1>1. tasks' = tasks /\ current' = current /\ Tasks' = Tasks
  BY DEF taskVars, Tasks
<1>2. ASSUME NEW t \in Tasks PROVE TaskInv(t)'
  <2>1. TaskInv(t) /\ tasks[t].matched \subseteq Int /\ nextSub \in Int
    BY TaskType DEF TasksInv, SubIds, TypeOK
  <2>2. \A s \in tasks[t].matched :
          s < nextSub' /\ (s \in DOMAIN subs' => Matches(subs'[s], tasks[t].agent))
    BY <2>1 DEF TaskInv
  <2> QED
    BY <1>1, <2>1, <2>2 DEF TaskInv
<1> QED
  BY <1>1, <1>2 DEF TasksInv

LEMMA OtherTasks ==
    ASSUME TypeOK, TasksInv, ServeNext \/ (\E c \in Conns : ConnNext(c)) \/ UNCHANGED vars
    PROVE  TasksInv'
<1>0. nextSub \in Int /\ DOMAIN subs \subseteq Int
  BY DEF TypeOK, SubIds
<1>1. ASSUME UNCHANGED <<nextSub, subs, taskVars>> PROVE TasksInv'
  BY <1>0, <1>1, RegistryTasks
<1>2. CASE ServeNext
  BY <1>1, <1>2 DEF ServeNext, Serve, BindFails, PollSeesRequest, Cancel, FinishStop,
                    InterruptStop, registryVars, taskVars
<1>3. ASSUME NEW c \in Conns, NEW filter, Subscribe(c, filter) PROVE TasksInv'
  <2>1. subs' = With(subs, nextSub, filter) /\ nextSub' = nextSub + 1 /\ UNCHANGED taskVars
    BY <1>3 DEF Subscribe
  <2>2. \A s \in DOMAIN subs' : s < nextSub => s \in DOMAIN subs /\ subs'[s] = subs[s]
    BY <1>0, <2>1 DEF With
  <2> QED
    BY <1>0, <2>1, <2>2, RegistryTasks
<1>4. ASSUME NEW c \in Conns, NEW S, subs' = Without(subs, S), UNCHANGED <<nextSub, taskVars>>
      PROVE  TasksInv'
  <2>1. \A s \in DOMAIN subs' : s < nextSub => s \in DOMAIN subs /\ subs'[s] = subs[s]
    BY <1>4 DEF Without
  <2> QED
    BY <1>0, <1>4, <2>1, RegistryTasks
<1>5. ASSUME NEW c \in Conns, ConnNext(c) PROVE TasksInv'
  <2>1. ASSUME NEW s \in SubIds, Unsubscribe(c, s) PROVE TasksInv'
    BY <1>4, <2>1 DEF Unsubscribe
  <2>2. CASE EndHandler(c) \/ HandlerRaises(c)
    BY <1>4, <2>2 DEF EndHandler, HandlerRaises
  <2>3. CASE Connect(c) \/ Disconnect(c) \/ CloseConn(c) \/ Unblock(c) \/ Shutdown(c)
               \/ OtherRequest(c) \/ Drained(c)
    BY <1>1, <2>3 DEF Connect, Disconnect, CloseConn, Unblock, Shutdown, OtherRequest,
                      Drained, registryVars, taskVars
  <2> QED
    BY <1>3, <1>5, <2>1, <2>2, <2>3 DEF ConnNext
<1>6. CASE UNCHANGED vars
  BY <1>1, <1>6 DEF vars, registryVars
<1> QED
  BY <1>2, <1>5, <1>6

\* A new task is last, and queued.
LEMMA EmitTasks ==
    ASSUME TypeOK, TasksInv, NEW agent \in Agents, Emit(agent)
    PROVE  TasksInv'
<1>0. PICK n \in Nat : n = Len(tasks)
  BY DEF TypeOK
<1>1. /\ tasks' = Append(tasks, Queued(agent)) /\ Tasks' = 1..(n + 1)
      /\ current = NoTask /\ current' = current /\ nextSub' = nextSub /\ subs' = subs
  BY <1>0, EmitType DEF Emit, Idle, registryVars
<1>2. Len(tasks) = n /\ Tasks = 1..n /\ tasks \in Seq(Task)
  BY <1>0 DEF TypeOK, Tasks
<1>3. tasks'[n + 1] = Queued(agent) /\ \A t \in Tasks : tasks'[t] = tasks[t]
  <2> HIDE DEF Task
  <2> QED
    BY <1>1, <1>2
<1>4. TaskInv(n + 1)'
  BY <1>1, <1>2, <1>3 DEF TaskInv, Queued, NoTask
<1>5. ASSUME NEW t \in Tasks PROVE TaskInv(t)'
  <2>1. TaskInv(t)
    BY DEF TasksInv
  <2>2. tasks'[t] = tasks[t]
    BY <1>3
  <2>3. (\A u \in Tasks : u > t => tasks[u].stage = "queued")
          => \A u \in Tasks' : u > t => tasks'[u].stage = "queued"
    BY <1>1, <1>2, <1>3 DEF Queued
  <2> QED
    BY <1>1, <2>1, <2>2, <2>3 DEF TaskInv
<1>6. \A t \in Tasks' : t = n + 1 \/ t \in Tasks
  BY <1>1, <1>2
<1> QED
  BY <1>4, <1>5, <1>6 DEF TasksInv

\* One task moves on; none is queued before it if it was.
LEMMA MovedTasks ==
    ASSUME TypeOK, TasksInv, UNCHANGED <<nextSub, subs>>,
           NEW t \in Tasks, NEW stage, NEW todo, NEW matched, NEW at,
           Moved(t, stage, todo, matched, at),
           current \in {t, NoTask}, current' \in {t, NoTask},
           stage = "running" <=> current' = t, stage # "queued",
           todo \subseteq matched,
           \A s \in matched :
              s < nextSub /\ (s \in DOMAIN subs => Matches(subs[s], tasks[t].agent)),
           stage = "suspended" => at # {},
           stage = "running" /\ at = {} =>
              \A u \in Tasks : u > t => tasks[u].stage = "queued",
           tasks[t].stage = "queued" => OldestQueued(t)
    PROVE  TasksInv'
<1>1. /\ Tasks' = Tasks /\ tasks'[t].agent = tasks[t].agent /\ tasks'[t].stage = stage
      /\ tasks'[t].todo = todo /\ tasks'[t].matched = matched /\ tasks'[t].at = at
      /\ \A u \in Tasks : u # t => tasks'[u] = tasks[u]
  BY DEF Moved
<1>2. \A u \in Tasks : u \in Nat /\ u # NoTask /\ u >= 1
  BY TaskType
<1>3. TaskInv(t)'
  BY <1>1, <1>2 DEF TaskInv
<1>4. ASSUME NEW u \in Tasks, u # t PROVE TaskInv(u)'
  <2>1. TaskInv(u) /\ TaskInv(t) /\ tasks'[u] = tasks[u]
    BY <1>1, <1>4 DEF TasksInv
  <2>2. tasks[u].stage # "running" /\ current' # u
    BY <1>2, <1>4, <2>1 DEF TaskInv
  <2>3. ASSUME tasks[u].stage = "queued" PROVE ~(t > u)
    <3>1. SUFFICES ASSUME t > u PROVE FALSE
      OBVIOUS
    <3>2. tasks[t].stage = "queued"
      BY <2>1, <2>3, <3>1 DEF TaskInv
    <3>3. u \in 1..(t - 1)
      BY <1>2, <3>1
    <3> QED
      BY <2>3, <3>2, <3>3 DEF OldestQueued
  <2>4. ASSUME tasks[u].stage = "queued", NEW v \in Tasks, v > u
        PROVE  tasks'[v].stage = "queued"
    BY <1>1, <2>1, <2>3, <2>4 DEF TaskInv
  <2> QED
    BY <1>1, <2>1, <2>2, <2>4 DEF TaskInv
<1> QED
  BY <1>1, <1>3, <1>4 DEF TasksInv

LEMMA PublishTasks ==
    ASSUME TypeOK, TablesInv, TasksInv, NEW t \in Tasks, RunTask(t) \/ AbortTask(t)
    PROVE  TasksInv'
<1>1. TaskInv(t) /\ t # NoTask
  BY TaskType DEF TasksInv
<1>2. CASE StartTask(t)
  <2>1. /\ Moved(t, "running", Matching(t), Matching(t), tasks[t].at)
        /\ current = NoTask /\ current' = t /\ UNCHANGED <<nextSub, subs>>
        /\ tasks[t].stage = "queued" /\ OldestQueued(t)
    BY <1>2, StartMoves DEF StartTask, Idle, IsNext, registryVars
  <2>2. \A s \in Matching(t) :
          s < nextSub /\ (s \in DOMAIN subs => Matches(subs[s], tasks[t].agent))
    BY <1>2 DEF Matching, TablesInv, TablesTyped, TablesAgree
  <2>3. \A u \in Tasks : u > t => tasks[u].stage = "queued"
    BY <1>1, <2>1 DEF TaskInv
  <2> QED
    BY <2>1, <2>2, <2>3, MovedTasks
<1>3. CASE SkipRemoved(t)
  <2>1. /\ Moved(t, tasks[t].stage, tasks[t].todo \ {NextTodo(t)}, tasks[t].matched, tasks[t].at)
        /\ current = t /\ current' = t /\ UNCHANGED <<nextSub, subs>>
    BY <1>3, SilentMoves DEF SkipRemoved, registryVars
  <2> QED
    BY <1>1, <2>1, MovedTasks DEF TaskInv
<1>4. CASE SendNext(t)
  <2>1. PICK s \in SubIds, c \in Conns, at \in SUBSET Conns : Sends(t, s, c, at)
    BY <1>4, SendMoves
  <2>2. UNCHANGED <<nextSub, subs>> /\ current = t /\ tasks[t].stage = "running"
    BY <1>1, <1>4 DEF SendNext, registryVars, TaskInv
  <2>3. CASE current' = t /\ at = tasks[t].at
             /\ Moved(t, tasks[t].stage, tasks[t].todo \ {s}, tasks[t].matched, at)
    BY <1>1, <2>2, <2>3, MovedTasks DEF TaskInv
  <2>4. CASE current' = NoTask /\ at = {c}
             /\ Moved(t, "suspended", tasks[t].todo \ {s}, tasks[t].matched, at)
    BY <1>1, <2>2, <2>4, MovedTasks DEF TaskInv
  <2> QED
    BY <2>1, <2>3, <2>4 DEF Sends
<1>5. CASE SendRaises(t) \/ AbortTask(t)
  <2>1. /\ Moved(t, "aborted", tasks[t].todo, tasks[t].matched, tasks[t].at)
        /\ current \in {t, NoTask} /\ current' = NoTask /\ UNCHANGED <<nextSub, subs>>
        /\ tasks[t].stage # "queued"
    BY <1>1, <1>5, SilentMoves DEF SendRaises, AbortTask, Idle, registryVars, TaskInv
  <2> QED
    BY <1>1, <2>1, MovedTasks DEF TaskInv
<1>6. CASE FinishTask(t)
  <2>1. /\ Moved(t, "done", tasks[t].todo, tasks[t].matched, tasks[t].at)
        /\ current = t /\ current' = NoTask /\ UNCHANGED <<nextSub, subs>>
        /\ tasks[t].stage = "running"
    BY <1>1, <1>6, SilentMoves DEF FinishTask, registryVars, TaskInv
  <2> QED
    BY <1>1, <2>1, MovedTasks DEF TaskInv
<1>7. CASE ResumeTask(t)
  <2>1. /\ Moved(t, "running", tasks[t].todo, tasks[t].matched, tasks[t].at)
        /\ current = NoTask /\ current' = t /\ UNCHANGED <<nextSub, subs>>
        /\ tasks[t].stage = "suspended"
    BY <1>7, SilentMoves DEF ResumeTask, Idle, registryVars
  <2> QED
    BY <1>1, <2>1, MovedTasks DEF TaskInv
<1> QED
  BY <1>2, <1>3, <1>4, <1>5, <1>6, <1>7 DEF RunTask

LEMMA InitTasks == Init => TasksInv
  BY DEF Init, InitFrom, TasksInv, Tasks

LEMMA NextTasks == TypeOK /\ TablesInv /\ TasksInv /\ [Next]_vars => TasksInv'
<1> SUFFICES ASSUME TypeOK, TablesInv, TasksInv, [Next]_vars PROVE TasksInv'
  OBVIOUS
<1> QED
  BY OtherTasks, EmitTasks, PublishTasks DEF Next

-----------------------------------------------------------------------------
(* The frames. *)

\* A step that writes one frame, the n-th on its connection.
Appended(c, n, frame) ==
    /\ DOMAIN sent[c] = 1..(n - 1) /\ DOMAIN sent'[c] = 1..n /\ sent'[c][n] = frame
    /\ \A i \in 1..(n - 1) : sent'[c][i] = sent[c][i]
    /\ \A d \in Conns : d # c => sent'[d] = sent[d]

LEMMA AppendedBy ==
    ASSUME TypeOK, NEW c \in Conns, NEW frame \in Frame,
           sent' = [sent EXCEPT ![c] = @ \o <<frame>>]
    PROVE  \E n \in Nat \ {0} : Appended(c, n, frame)
<1> HIDE DEF Frame
<1>1. sent \in [Conns -> Seq(Frame)] /\ sent[c] \in Seq(Frame)
  BY DEF TypeOK
<1>2. PICK n \in Nat \ {0} : n - 1 = Len(sent[c])
  <2>1. Len(sent[c]) + 1 \in Nat \ {0} /\ (Len(sent[c]) + 1) - 1 = Len(sent[c])
    BY <1>1
  <2> QED
    BY <2>1
<1>3. sent'[c] = sent[c] \o <<frame>> /\ \A d \in Conns : d # c => sent'[d] = sent[d]
  BY <1>1
<1>4. /\ DOMAIN sent[c] = 1..(n - 1) /\ DOMAIN sent'[c] = 1..n /\ sent'[c][n] = frame
      /\ \A i \in 1..(n - 1) : sent'[c][i] = sent[c][i]
  BY <1>1, <1>2, <1>3
<1> QED
  BY <1>3, <1>4 DEF Appended

\* A response is written if the connection is open, and lost if it is not.
LEMMA RespondAppends ==
    ASSUME TypeOK, NEW c \in Conns, NEW frame \in Frame, Respond(c, <<frame>>)
    PROVE  \/ conn[c] = "open" /\ \E n \in Nat \ {0} : Appended(c, n, frame)
           \/ conn[c] = "closed" /\ sent' = sent
  BY AppendedBy DEF Respond, Write

LEMMA RespondNothing ==
    ASSUME TypeOK, NEW c \in Conns, Respond(c, << >>)
    PROVE  sent' = sent
<1>1. sent[c] \o << >> = sent[c] /\ sent = [sent EXCEPT ![c] = sent[c]]
  BY DEF TypeOK
<1> QED
  BY <1>1 DEF Respond, Write

\* The frames a request or a publish task may write.
LEMMA AnswerFrames ==
    ASSUME TypeOK
    PROVE  /\ \A filter \in Filters : nextSub \in SubIds =>
                 [kind |-> "subscribed", sub |-> nextSub, filter |-> filter] \in Frame
           /\ \A s \in SubIds : [kind |-> "unsubscribed", sub |-> s] \in Frame
           /\ [kind |-> "accepted"] \in Frame
           /\ \A s \in SubIds, t \in Tasks : [kind |-> "notify", sub |-> s, event |-> t] \in Frame
  BY TaskType DEF Frame

\* Whatever happens, at most one frame is written, and an acceptance only
\* while the runtime is running, and a notification only by a publish task.
LEMMA SentSteps ==
    ASSUME TypeOK, [Next]_vars
    PROVE  \/ sent' = sent
           \/ \E c \in Conns, n \in Nat \ {0}, frame \in Frame :
                 /\ Appended(c, n, frame)
                 /\ frame.kind = "accepted" => status = "Running" /\ requested'
                 /\ frame.kind = "notify" => \E t \in Tasks : SendNext(t)
<1> DEFINE Good == \/ sent' = sent
                   \/ \E c \in Conns, n \in Nat \ {0}, frame \in Frame :
                         /\ Appended(c, n, frame)
                         /\ frame.kind = "accepted" => status = "Running" /\ requested'
                         /\ frame.kind = "notify" => \E t \in Tasks : SendNext(t)
<1>1. CASE ServeNext \/ (\E agent \in Agents : Emit(agent)) \/ UNCHANGED vars
  BY <1>1 DEF ServeNext, Serve, BindFails, PollSeesRequest, Cancel, FinishStop, InterruptStop,
              Emit, vars, connVars
<1>2. ASSUME NEW c \in Conns, ConnNext(c) PROVE Good
  <2>1. ASSUME NEW filter \in Filters, Subscribe(c, filter) PROVE Good
    <3> DEFINE frame == [kind |-> "subscribed", sub |-> nextSub, filter |-> filter]
    <3>1. frame \in Frame /\ frame.kind \notin {"accepted", "notify"} /\ Respond(c, <<frame>>)
      BY <2>1, AnswerFrames DEF Subscribe
    <3> HIDE DEF frame, Frame
    <3> QED
      BY <3>1, RespondAppends
  <2>2. ASSUME NEW s \in SubIds, Unsubscribe(c, s) PROVE Good
    <3> DEFINE frame == [kind |-> "unsubscribed", sub |-> s]
    <3>1. frame \in Frame /\ frame.kind \notin {"accepted", "notify"} /\ Respond(c, <<frame>>)
      BY <2>2, AnswerFrames DEF Unsubscribe
    <3> HIDE DEF frame, Frame
    <3> QED
      BY <3>1, RespondAppends
  <2>3. CASE Shutdown(c)
    <3> DEFINE frame == [kind |-> "accepted"]
    <3>1. /\ frame \in Frame /\ frame.kind # "notify" /\ Respond(c, <<frame>>)
          /\ status = "Running" /\ requested'
      BY <2>3, AnswerFrames DEF Shutdown
    <3> HIDE DEF frame, Frame
    <3> QED
      BY <3>1, RespondAppends
  <2>4. CASE OtherRequest(c)
    BY <2>4, RespondNothing DEF OtherRequest
  <2>5. CASE Connect(c) \/ Disconnect(c) \/ CloseConn(c) \/ Unblock(c) \/ Drained(c)
               \/ EndHandler(c) \/ HandlerRaises(c)
    BY <2>5 DEF Connect, Disconnect, CloseConn, Unblock, Drained, EndHandler, HandlerRaises
  <2> QED
    BY <1>2, <2>1, <2>2, <2>3, <2>4, <2>5 DEF ConnNext
<1>3. ASSUME NEW t \in Tasks, RunTask(t) \/ AbortTask(t) PROVE Good
  <2>1. CASE SendNext(t)
    <3>1. PICK s \in SubIds, c \in Conns, at \in SUBSET Conns : Sends(t, s, c, at)
      BY <2>1, SendMoves
    <3> DEFINE frame == [kind |-> "notify", sub |-> s, event |-> t]
    <3>2. frame \in Frame /\ frame.kind # "accepted"
      BY AnswerFrames
    <3>3. sent' = [sent EXCEPT ![c] = @ \o <<frame>>]
      BY <3>1 DEF Sends
    <3> HIDE DEF frame, Frame
    <3> QED
      BY <2>1, <3>2, <3>3, AppendedBy
  <2>2. CASE ~SendNext(t)
    BY <1>3, <2>2 DEF RunTask, StartTask, SkipRemoved, SendRaises, FinishTask, ResumeTask,
                      AbortTask, connVars
  <2> QED
    BY <2>1, <2>2
<1> QED
  BY <1>1, <1>2, <1>3 DEF Next

\* Whoever was told "accepted" was told so because of a request.
AcceptedInv ==
    /\ \A c \in Conns : \A i \in DOMAIN sent[c] : sent[c][i].kind = "accepted" => requested
    /\ OneShutdownAccepted

LEMMA InitAccepted == Init => AcceptedInv
  BY DEF Init, InitFrom, AcceptedInv, OneShutdownAccepted

LEMMA NextAccepted == TypeOK /\ LifecycleInv /\ AcceptedInv /\ [Next]_vars => AcceptedInv'
<1> SUFFICES ASSUME TypeOK, LifecycleInv, AcceptedInv, [Next]_vars PROVE AcceptedInv'
  OBVIOUS
<1>1. requested => requested' /\ status # "Running"
  BY NextLifecycle DEF Forward, LifecycleInv
<1>2. CASE sent' = sent
  BY <1>1, <1>2 DEF AcceptedInv, OneShutdownAccepted
<1>3. ASSUME NEW c \in Conns, NEW n \in Nat \ {0}, NEW frame \in Frame,
             Appended(c, n, frame), frame.kind = "accepted" => status = "Running" /\ requested'
      PROVE  AcceptedInv'
  <2>1. ASSUME NEW d \in Conns, NEW i \in DOMAIN sent'[d], d # c \/ i # n
        PROVE  i \in DOMAIN sent[d] /\ sent'[d][i] = sent[d][i]
    BY <1>3, <2>1 DEF Appended
  <2>2. sent'[c][n] = frame
    BY <1>3 DEF Appended
  <2>3. ASSUME NEW d \in Conns, NEW i \in DOMAIN sent'[d], sent'[d][i].kind = "accepted"
        PROVE  requested'
    BY <1>1, <1>3, <2>1, <2>2, <2>3 DEF AcceptedInv
  <2>4. ASSUME NEW d \in Conns, NEW e \in Conns, NEW i \in DOMAIN sent'[d], NEW j \in DOMAIN sent'[e],
               sent'[d][i].kind = "accepted", sent'[e][j].kind = "accepted"
        PROVE  d = e /\ i = j
    <3>1. CASE frame.kind = "accepted"
      <4>1. \A b \in Conns : \A k \in DOMAIN sent[b] : sent[b][k].kind # "accepted"
        BY <1>1, <1>3, <3>1 DEF AcceptedInv
      <4> QED
        BY <2>1, <2>4, <4>1
    <3>2. CASE frame.kind # "accepted"
      <4>1. (d # c \/ i # n) /\ (e # c \/ j # n)
        BY <2>2, <2>4, <3>2
      <4> QED
        BY <2>1, <2>4, <4>1 DEF AcceptedInv, OneShutdownAccepted
    <3> QED
      BY <3>1, <3>2
  <2> QED
    BY <2>3, <2>4 DEF AcceptedInv, OneShutdownAccepted
<1> QED
  BY <1>2, <1>3, SentSteps

-----------------------------------------------------------------------------
(* What was delivered. *)

LEMMA InGot ==
    ASSUME NEW c, NEW s, NEW t
    PROVE  <<c, s, t>> \in Got <=>
             c \in Conns /\ \E i \in Notes(c) : sent[c][i].sub = s /\ sent[c][i].event = t
  BY DEF Got

\* Whatever was delivered has these types.
GotTyped == Got \subseteq Conns \X SubIds \X (1..MaxEvents)

LEMMA GotType == TypeOK => GotTyped
<1> SUFFICES ASSUME TypeOK, NEW g \in Got PROVE g \in Conns \X SubIds \X (1..MaxEvents)
  BY DEF GotTyped
<1>0. PICK c \in Conns : g \in {<<c, sent[c][i].sub, sent[c][i].event>> : i \in Notes(c)}
  BY DEF Got
<1>1. PICK i \in Notes(c) : g = <<c, sent[c][i].sub, sent[c][i].event>>
  BY <1>0
<1>2. sent[c][i] \in Frame /\ sent[c][i].kind = "notify"
  <2>1. sent[c] \in Seq(Frame) /\ i \in DOMAIN sent[c]
    BY DEF TypeOK, Notes
  <2>2. sent[c][i] \in Frame
    <3> HIDE DEF Frame
    <3> QED
      BY <2>1
  <2> QED
    BY <2>2 DEF Notes
<1>3. sent[c][i].sub \in SubIds /\ sent[c][i].event \in 1..MaxEvents
  BY <1>2 DEF Frame
<1> QED
  BY <1>1, <1>3

\* A frame of another kind delivers nothing, a notification one event.
LEMMA AppendedGot ==
    ASSUME NEW c \in Conns, NEW n \in Nat \ {0}, NEW frame, Appended(c, n, frame)
    PROVE  /\ frame.kind # "notify" => Got' = Got
           /\ frame.kind = "notify" => Got' = Got \union {<<c, frame.sub, frame.event>>}
<1>1. \A d \in Conns : d # c => Notes(d)' = Notes(d) /\ sent'[d] = sent[d]
  BY DEF Appended, Notes
<1>2. \A i \in Notes(c) : i # n /\ i \in Notes(c)' /\ sent'[c][i] = sent[c][i]
  BY DEF Appended, Notes
<1>3. \A i \in Notes(c)' : i # n => i \in Notes(c) /\ sent'[c][i] = sent[c][i]
  BY DEF Appended, Notes
<1>4. n \in Notes(c)' <=> frame.kind = "notify"
  BY DEF Appended, Notes
<1>5. sent'[c][n] = frame
  BY DEF Appended
<1>6. Got \subseteq Got'
  BY <1>1, <1>2 DEF Got
<1>7. ASSUME NEW g \in Got', g \notin Got
      PROVE  frame.kind = "notify" /\ g = <<c, frame.sub, frame.event>>
  <2>0. PICK d \in Conns : g \in {<<d, sent'[d][i].sub, sent'[d][i].event>> : i \in Notes(d)'}
    BY <1>7 DEF Got
  <2>1. PICK i \in Notes(d)' : g = <<d, sent'[d][i].sub, sent'[d][i].event>>
    BY <2>0
  <2>2. d = c /\ i = n
    BY <1>1, <1>3, <1>7, <2>1 DEF Got
  <2> QED
    BY <1>4, <1>5, <2>1, <2>2
<1>8. frame.kind = "notify" => <<c, frame.sub, frame.event>> \in Got'
  BY <1>4, <1>5 DEF Got
<1> QED
  BY <1>6, <1>7, <1>8

LEMMA KeptGot == sent' = sent => Got' = Got
  BY DEF Got, Notes

\* Only publish tasks deliver.
LEMMA OtherGot ==
    ASSUME TypeOK, ServeNext \/ (\E c \in Conns : ConnNext(c)) \/ (\E agent \in Agents : Emit(agent))
                   \/ UNCHANGED vars
    PROVE  Got' = Got
<1>1. CASE ServeNext \/ (\E agent \in Agents : Emit(agent)) \/ UNCHANGED vars
  BY <1>1, KeptGot DEF ServeNext, Serve, BindFails, PollSeesRequest, Cancel, FinishStop,
                       InterruptStop, Emit, vars, connVars
<1>2. ASSUME NEW c \in Conns, NEW frame \in Frame, frame.kind # "notify", Respond(c, <<frame>>)
      PROVE  Got' = Got
  <2> HIDE DEF Frame
  <2> QED
    BY <1>2, RespondAppends, AppendedGot, KeptGot
<1>3. ASSUME NEW c \in Conns, ConnNext(c) PROVE Got' = Got
  <2>1. ASSUME NEW filter \in Filters, Subscribe(c, filter) PROVE Got' = Got
    BY <1>2, <2>1, AnswerFrames DEF Subscribe
  <2>2. ASSUME NEW s \in SubIds, Unsubscribe(c, s) PROVE Got' = Got
    BY <1>2, <2>2, AnswerFrames DEF Unsubscribe
  <2>3. CASE Shutdown(c)
    BY <1>2, <2>3, AnswerFrames DEF Shutdown
  <2>4. CASE OtherRequest(c)
    BY <2>4, RespondNothing, KeptGot DEF OtherRequest
  <2>5. CASE Connect(c) \/ Disconnect(c) \/ CloseConn(c) \/ Unblock(c) \/ Drained(c)
               \/ EndHandler(c) \/ HandlerRaises(c)
    BY <2>5, KeptGot DEF Connect, Disconnect, CloseConn, Unblock, Drained, EndHandler,
                         HandlerRaises
  <2> QED
    BY <1>3, <2>1, <2>2, <2>3, <2>4, <2>5 DEF ConnNext
<1> QED
  BY <1>1, <1>3

\* The registry loses subscriptions or gains the next; numbers only grow.
LEMMA RegistrySteps ==
    ASSUME TypeOK, ServeNext \/ (\E c \in Conns : ConnNext(c)) \/ UNCHANGED vars
    PROVE  /\ UNCHANGED taskVars
           /\ \A s \in DOMAIN subs' : s < nextSub => s \in DOMAIN subs /\ subs'[s] = subs[s]
<1>0. nextSub \in Int /\ DOMAIN subs \subseteq Int
  BY DEF TypeOK, SubIds
<1>1. CASE ServeNext \/ UNCHANGED vars
  BY <1>1 DEF ServeNext, Serve, BindFails, PollSeesRequest, Cancel, FinishStop,
              InterruptStop, vars, registryVars
<1>2. ASSUME NEW S, subs' = Without(subs, S)
      PROVE  \A s \in DOMAIN subs' : s \in DOMAIN subs /\ subs'[s] = subs[s]
  BY <1>2 DEF Without
<1>3. ASSUME NEW c \in Conns, NEW filter, Subscribe(c, filter)
      PROVE  /\ UNCHANGED taskVars
             /\ \A s \in DOMAIN subs' : s < nextSub => s \in DOMAIN subs /\ subs'[s] = subs[s]
  BY <1>0, <1>3 DEF Subscribe, With
<1>4. ASSUME NEW c \in Conns, ConnNext(c)
      PROVE  /\ UNCHANGED taskVars
             /\ \A s \in DOMAIN subs' : s < nextSub => s \in DOMAIN subs /\ subs'[s] = subs[s]
  <2>1. ASSUME NEW s \in SubIds, Unsubscribe(c, s)
        PROVE  UNCHANGED taskVars /\ subs' = Without(subs, {s})
    BY <2>1 DEF Unsubscribe
  <2>2. CASE EndHandler(c) \/ HandlerRaises(c)
    BY <1>2, <2>2 DEF EndHandler, HandlerRaises
  <2>3. CASE Connect(c) \/ Disconnect(c) \/ CloseConn(c) \/ Unblock(c) \/ Shutdown(c)
               \/ OtherRequest(c) \/ Drained(c)
    BY <2>3 DEF Connect, Disconnect, CloseConn, Unblock, Shutdown, OtherRequest, Drained,
                registryVars
  <2> QED
    BY <1>2, <1>3, <1>4, <2>1, <2>2, <2>3 DEF ConnNext
<1> QED
  BY <1>1, <1>4

\* Deliveries are made by tasks that have started, and a subscription that
\* still exists and is not on the list any more has got its event.
DeliveriesInv ==
    /\ \A c \in Conns, s \in SubIds, t \in 1..MaxEvents :
          <<c, s, t>> \in Got => /\ t \in Tasks /\ tasks[t].stage # "queued"
                                 /\ s \in tasks[t].matched /\ s \notin tasks[t].todo
    /\ \A t \in Tasks : tasks[t].stage # "queued" =>
          \A s \in tasks[t].matched : s \in DOMAIN subs /\ s \notin tasks[t].todo =>
              \E c \in Conns : <<c, s, t>> \in Got

LEMMA MovedDeliveries ==
    ASSUME TypeOK, DeliveriesInv, UNCHANGED subs, Got \subseteq Got',
           NEW t \in Tasks, NEW stage, NEW todo, NEW matched, NEW at,
           Moved(t, stage, todo, matched, at), stage # "queued",
           \A c \in Conns, s \in SubIds, u \in 1..MaxEvents :
              <<c, s, u>> \in Got' /\ u # t => <<c, s, u>> \in Got,
           \A c \in Conns, s \in SubIds :
              <<c, s, t>> \in Got' => s \in matched /\ s \notin todo,
           \A s \in matched : s \in DOMAIN subs /\ s \notin todo =>
              \E c \in Conns : <<c, s, t>> \in Got'
    PROVE  DeliveriesInv'
<1>1. /\ Tasks' = Tasks /\ tasks'[t].stage = stage /\ tasks'[t].todo = todo
      /\ tasks'[t].matched = matched /\ \A u \in Tasks : u # t => tasks'[u] = tasks[u]
  BY DEF Moved
<1>2. ASSUME NEW c \in Conns, NEW s \in SubIds, NEW u \in 1..MaxEvents, <<c, s, u>> \in Got'
      PROVE  /\ u \in Tasks' /\ tasks'[u].stage # "queued"
             /\ s \in tasks'[u].matched /\ s \notin tasks'[u].todo
  <2>1. CASE u = t
    BY <1>1, <1>2, <2>1
  <2>2. CASE u # t
    BY <1>1, <1>2, <2>2 DEF DeliveriesInv
  <2> QED
    BY <2>1, <2>2
<1>3. ASSUME NEW u \in Tasks, tasks'[u].stage # "queued",
             NEW s \in tasks'[u].matched, s \in DOMAIN subs, s \notin tasks'[u].todo
      PROVE  \E c \in Conns : <<c, s, u>> \in Got'
  <2>1. CASE u = t
    BY <1>1, <1>3, <2>1
  <2>2. CASE u # t
    BY <1>1, <1>3, <2>2 DEF DeliveriesInv
  <2> QED
    BY <2>1, <2>2
<1> QED
  BY <1>1, <1>2, <1>3 DEF DeliveriesInv

LEMMA OtherDeliveries ==
    ASSUME TypeOK, TasksInv, DeliveriesInv,
           ServeNext \/ (\E c \in Conns : ConnNext(c)) \/ UNCHANGED vars
    PROVE  DeliveriesInv'
<1>1. Got' = Got /\ tasks' = tasks /\ Tasks' = Tasks
  BY OtherGot, RegistrySteps DEF taskVars, Tasks
<1>2. \A t \in Tasks : \A s \in tasks[t].matched : s \in DOMAIN subs' => s \in DOMAIN subs
  BY RegistrySteps DEF TasksInv, TaskInv
<1> QED
  BY <1>1, <1>2 DEF DeliveriesInv

LEMMA EmitDeliveries ==
    ASSUME TypeOK, DeliveriesInv, NEW agent \in Agents, Emit(agent)
    PROVE  DeliveriesInv'
<1>1. Got' = Got /\ subs' = subs
  BY OtherGot DEF Emit, registryVars
<1>2. PICK n \in Nat : n = Len(tasks)
  BY DEF TypeOK
<1>3. /\ tasks' = Append(tasks, Queued(agent)) /\ Tasks' = 1..(n + 1)
      /\ Tasks = 1..n /\ Len(tasks) = n /\ tasks \in Seq(Task)
  BY <1>2, EmitType DEF TypeOK, Tasks
<1>4. tasks'[n + 1] = Queued(agent) /\ \A t \in Tasks : tasks'[t] = tasks[t]
  <2> HIDE DEF Task
  <2> QED
    BY <1>3
<1>5. \A t \in Tasks' : t \in Tasks \/ tasks'[t].stage = "queued"
  BY <1>3, <1>4 DEF Queued
<1>6. \A t \in Tasks : t \in Tasks'
  BY <1>3
<1> QED
  BY <1>1, <1>4, <1>5, <1>6 DEF DeliveriesInv

\* What a send delivers.
LEMMA SendGot ==
    ASSUME TypeOK, NEW t \in Tasks, NEW s \in SubIds, NEW c \in Conns, NEW at, Sends(t, s, c, at)
    PROVE  /\ Got' = Got \union {<<c, s, t>>}
           /\ \E n \in Nat \ {0} : Appended(c, n, [kind |-> "notify", sub |-> s, event |-> t])
<1> DEFINE frame == [kind |-> "notify", sub |-> s, event |-> t]
<1>1. frame \in Frame /\ frame.kind = "notify" /\ frame.sub = s /\ frame.event = t
  BY AnswerFrames
<1>2. sent' = [sent EXCEPT ![c] = @ \o <<frame>>]
  BY DEF Sends
<1> HIDE DEF frame, Frame
<1>3. PICK n \in Nat \ {0} : Appended(c, n, frame)
  BY <1>1, <1>2, AppendedBy
<1>4. Got' = Got \union {<<c, frame.sub, frame.event>>}
  BY <1>1, <1>3, AppendedGot
<1> QED
  BY <1>1, <1>3, <1>4 DEF frame

\* All steps of publish tasks but sends leave the frames alone.
LEMMA SilentGot ==
    ASSUME NEW t \in Tasks, RunTask(t) \/ AbortTask(t), ~SendNext(t)
    PROVE  sent' = sent /\ Got' = Got
<1>1. sent' = sent
  BY DEF RunTask, StartTask, SkipRemoved, SendRaises, FinishTask, ResumeTask, AbortTask, connVars
<1> QED
  BY <1>1, KeptGot

LEMMA PublishDeliveries ==
    ASSUME TypeOK, TablesInv, TasksInv, DeliveriesInv, NEW t \in Tasks, RunTask(t) \/ AbortTask(t)
    PROVE  DeliveriesInv'
<1>1. TaskInv(t) /\ t # NoTask /\ t \in 1..MaxEvents
  BY TaskType DEF TasksInv
<1>2. subs' = subs
  BY DEF RunTask, StartTask, SkipRemoved, SendNext, SendRaises, FinishTask, ResumeTask, AbortTask,
         registryVars
<1>3. CASE StartTask(t)
  <2>1. Moved(t, "running", Matching(t), Matching(t), tasks[t].at) /\ tasks[t].stage = "queued"
    BY <1>3, StartMoves DEF StartTask, IsNext
  <2>2. Got' = Got
    BY <1>3, KeptGot DEF StartTask, connVars
  <2>3. \A c \in Conns, s \in SubIds : <<c, s, t>> \notin Got
    BY <1>1, <2>1 DEF DeliveriesInv
  <2> QED
    BY <1>2, <2>1, <2>2, <2>3, MovedDeliveries
<1>4. CASE SendNext(t)
  <2>1. PICK s \in SubIds, c \in Conns, at \in SUBSET Conns : Sends(t, s, c, at)
    BY <1>4, SendMoves
  <2>2. Got' = Got \union {<<c, s, t>>}
    BY <2>1, SendGot
  <2>3. PICK stage \in {"running", "suspended"} :
           Moved(t, stage, tasks[t].todo \ {s}, tasks[t].matched, at)
    BY <1>1, <2>1 DEF Sends, TaskInv
  <2>4. s \in tasks[t].matched /\ tasks[t].stage = "running"
    BY <1>1, <2>1 DEF Sends, TaskInv
  <2>5. \A d \in Conns, r \in SubIds :
           <<d, r, t>> \in Got' => r \in tasks[t].matched /\ r \notin tasks[t].todo \ {s}
    BY <1>1, <2>2, <2>4 DEF DeliveriesInv
  <2>6. \A r \in tasks[t].matched : r \in DOMAIN subs /\ r \notin tasks[t].todo \ {s} =>
           \E d \in Conns : <<d, r, t>> \in Got'
    BY <2>2, <2>4 DEF DeliveriesInv
  <2>7. \A d \in Conns, r \in SubIds, u \in 1..MaxEvents :
           <<d, r, u>> \in Got' /\ u # t => <<d, r, u>> \in Got
    BY <2>2
  <2> QED
    BY <1>2, <2>2, <2>3, <2>5, <2>6, <2>7, MovedDeliveries
<1>5. CASE SkipRemoved(t)
  <2>1. /\ Moved(t, tasks[t].stage, tasks[t].todo \ {NextTodo(t)}, tasks[t].matched, tasks[t].at)
        /\ tasks[t].stage = "running" /\ NextTodo(t) \notin DOMAIN subs
    BY <1>1, <1>5, SilentMoves DEF SkipRemoved, TaskInv, TablesInv, TablesAgree
  <2>2. Got' = Got
    BY <1>5, KeptGot DEF SkipRemoved, connVars
  <2>3. \A c \in Conns, s \in SubIds :
           <<c, s, t>> \in Got' => s \in tasks[t].matched /\ s \notin tasks[t].todo \ {NextTodo(t)}
    BY <1>1, <2>2 DEF DeliveriesInv
  <2>4. \A s \in tasks[t].matched : s \in DOMAIN subs /\ s \notin tasks[t].todo \ {NextTodo(t)} =>
           \E c \in Conns : <<c, s, t>> \in Got'
    BY <2>1, <2>2 DEF DeliveriesInv
  <2> QED
    BY <1>2, <2>1, <2>2, <2>3, <2>4, MovedDeliveries
<1>6. CASE SendRaises(t) \/ AbortTask(t) \/ FinishTask(t) \/ ResumeTask(t)
  <2>1. PICK stage \in Stages \ {"queued"} :
           Moved(t, stage, tasks[t].todo, tasks[t].matched, tasks[t].at)
    BY <1>6, SilentMoves DEF Stages
  <2>2. Got' = Got /\ tasks[t].stage # "queued"
    BY <1>1, <1>6, KeptGot DEF SendRaises, AbortTask, FinishTask, ResumeTask, connVars, TaskInv
  <2>3. /\ \A c \in Conns, s \in SubIds :
              <<c, s, t>> \in Got' => s \in tasks[t].matched /\ s \notin tasks[t].todo
        /\ \A s \in tasks[t].matched : s \in DOMAIN subs /\ s \notin tasks[t].todo =>
              \E c \in Conns : <<c, s, t>> \in Got'
    BY <1>1, <2>2 DEF DeliveriesInv
  <2> QED
    BY <1>2, <2>1, <2>2, <2>3, MovedDeliveries
<1> QED
  BY <1>3, <1>4, <1>5, <1>6 DEF RunTask

LEMMA InitDeliveries == Init => DeliveriesInv
<1> SUFFICES ASSUME Init PROVE DeliveriesInv
  OBVIOUS
<1>1. Got = {} /\ Tasks = {}
  BY DEF Init, InitFrom, Got, Notes, Tasks
<1> QED
  BY <1>1 DEF DeliveriesInv

LEMMA NextDeliveries ==
    TypeOK /\ TablesInv /\ TasksInv /\ DeliveriesInv /\ [Next]_vars => DeliveriesInv'
<1> SUFFICES ASSUME TypeOK, TablesInv, TasksInv, DeliveriesInv, [Next]_vars PROVE DeliveriesInv'
  OBVIOUS
<1> QED
  BY OtherDeliveries, EmitDeliveries, PublishDeliveries DEF Next

-----------------------------------------------------------------------------
(* The refinement. *)

\* The abstract state, under the names the steps below use.
Active == [s \in DOMAIN subs |-> [owner |-> subClient[s], wish |-> subs[s]]]
Event(t) == [topic |-> tasks[t].agent, state |-> PubState(tasks[t].stage),
             audience |-> IF tasks[t].stage = "queued" THEN NoTask ELSE tasks[t].matched]
Events == [t \in Tasks |-> Event(t)]

\* The steps of PubSub, read through the mapping.
LEMMA AbstractStutter ==
    ASSUME nextSub' = nextSub, Active' = Active, Events' = Events, Got' = Got
    PROVE  UNCHANGED Abstract!pubVars
BY DEF Abstract!pubVars, Active, Events, Event

LEMMA AbstractOpen ==
    ASSUME NEW c \in Conns, NEW filter \in Filters, nextSub \in SubIds, nextSub' = nextSub + 1,
           Active' = [s \in DOMAIN Active \union {nextSub} |->
                IF s = nextSub THEN [owner |-> c, wish |-> filter] ELSE Active[s]],
           Events' = Events, Got' = Got
    PROVE  Abstract!PubNext
<1>1. Abstract!Open(c, filter)
  BY DEF Abstract!Open, Active, Events, Event
<1> QED
  BY <1>1 DEF Abstract!PubNext

LEMMA AbstractClose ==
    ASSUME NEW S \in SUBSET SubIds, nextSub' = nextSub, Events' = Events, Got' = Got,
           Active' = [s \in DOMAIN Active \ S |-> Active[s]]
    PROVE  Abstract!PubNext
<1>1. Abstract!Close(S)
  BY DEF Abstract!Close, Active, Events, Event
<1> QED
  BY <1>1 DEF Abstract!PubNext

LEMMA AbstractPublish ==
    ASSUME NEW agent \in Agents, nextSub' = nextSub, Active' = Active, Got' = Got,
           Events' = Append(Events, [topic |-> agent, audience |-> NoTask, state |-> "waiting"])
    PROVE  Abstract!PubNext
<1>1. Abstract!Publish(agent)
  BY DEF Abstract!Publish, Active, Events, Event
<1> QED
  BY <1>1 DEF Abstract!PubNext

LEMMA AbstractBegin ==
    ASSUME NEW t \in DOMAIN Events, nextSub' = nextSub, Active' = Active, Got' = Got,
           Events[t].state = "waiting", \A u \in 1..(t - 1) : Events[u].state # "waiting",
           Events' = [Events EXCEPT ![t].state = "open", ![t].audience =
                {s \in DOMAIN Active : Active[s].wish = {} \/ Events[t].topic \in Active[s].wish}]
    PROVE  Abstract!PubNext
<1>1. Abstract!Begin(t)
  BY DEF Abstract!Begin, Active, Events, Event
<1> QED
  BY <1>1 DEF Abstract!PubNext, Events, Event

LEMMA AbstractDeliver ==
    ASSUME NEW t \in DOMAIN Events, NEW s \in SubIds,
           nextSub' = nextSub, Active' = Active, Events' = Events, Events[t].state = "open",
           s \in Events[t].audience, s \in DOMAIN Active,
           \A c \in Conns : <<c, s, t>> \notin Got,
           Got' = Got \union {<<Active[s].owner, s, t>>}
    PROVE  Abstract!PubNext
<1>1. Abstract!Deliver(s, t)
  BY DEF Abstract!Deliver, Abstract!Reached, Active, Events, Event
<1> QED
  BY <1>1 DEF Abstract!PubNext, Events, Event

LEMMA AbstractComplete ==
    ASSUME NEW t \in DOMAIN Events, nextSub' = nextSub, Active' = Active, Got' = Got,
           Events[t].state = "open",
           \A s \in Events[t].audience : s \in DOMAIN Active =>
              s \in SubIds /\ \E c \in Conns : <<c, s, t>> \in Got,
           Events' = [Events EXCEPT ![t].state = "complete"]
    PROVE  Abstract!PubNext
<1>1. Abstract!Complete(t)
  BY DEF Abstract!Complete, Abstract!Reached, Active, Events, Event
<1> QED
  BY <1>1 DEF Abstract!PubNext, Events, Event

LEMMA AbstractLose ==
    ASSUME NEW t \in DOMAIN Events, nextSub' = nextSub, Active' = Active, Got' = Got,
           Events[t].state = "open", Events' = [Events EXCEPT ![t].state = "lost"]
    PROVE  Abstract!PubNext
<1>1. Abstract!Lose(t)
  BY DEF Abstract!Lose, Active, Events, Event
<1> QED
  BY <1>1 DEF Abstract!PubNext, Events, Event

LEMMA InitAbstract == Init => Abstract!PubInit
<1> SUFFICES ASSUME Init PROVE Abstract!PubInit
  OBVIOUS
<1>1. nextSub = 1 /\ DOMAIN subs = {} /\ Got = {} /\ Tasks = {}
  BY DEF Init, InitFrom, Got, Notes, Tasks, Empty
<1>2. << >> = [t \in {} |-> Event(t)] /\ << >> = [t \in {} |-> t]
  OBVIOUS
<1> QED
  BY <1>1, <1>2 DEF Abstract!PubInit, Active, Events, Event

\* How the steps of the server look from there.
LEMMA MovedEvents ==
    ASSUME NEW t \in Tasks, NEW stage, NEW todo, NEW matched, NEW at,
           Moved(t, stage, todo, matched, at)
    PROVE  Events' = [Events EXCEPT ![t] = [topic |-> tasks[t].agent, state |-> PubState(stage),
                        audience |-> IF stage = "queued" THEN NoTask ELSE matched]]
<1>1. /\ Tasks' = Tasks /\ tasks'[t].agent = tasks[t].agent /\ tasks'[t].stage = stage
      /\ tasks'[t].matched = matched /\ \A u \in Tasks : u # t => tasks'[u] = tasks[u]
  BY DEF Moved
<1>2. DOMAIN Events = Tasks /\ \A u \in Tasks : Events[u] = Event(u)
  BY DEF Events
<1>3. Event(t)' = [topic |-> tasks[t].agent, state |-> PubState(stage),
                   audience |-> IF stage = "queued" THEN NoTask ELSE matched]
  BY <1>1 DEF Event
<1>4. \A u \in Tasks : u # t => Event(u)' = Event(u)
  BY <1>1 DEF Event
<1>5. Events' = [u \in Tasks |-> Event(u)']
  BY <1>1 DEF Events
<1> QED
  BY <1>2, <1>3, <1>4, <1>5

LEMMA SameEvents == UNCHANGED taskVars => Events' = Events
  BY DEF taskVars, Events, Event, Tasks

LEMMA SameActive == subs' = subs /\ subClient' = subClient => Active' = Active
  BY DEF Active

LEMMA SubscribeAbstract ==
    ASSUME TypeOK, TablesInv, NEW c \in Conns, NEW filter \in Filters, Subscribe(c, filter)
    PROVE  Abstract!PubNext
<1>1. /\ nextSub \in SubIds /\ nextSub' = nextSub + 1 /\ UNCHANGED taskVars
      /\ subs' = With(subs, nextSub, filter) /\ subClient' = With(subClient, nextSub, c)
  BY DEF Subscribe
<1>2. Got' = Got /\ Events' = Events
  BY <1>1, OtherGot, SameEvents DEF ConnNext
<1>3. DOMAIN subs = DOMAIN subClient /\ nextSub \notin DOMAIN subs
  BY DEF TablesInv, TablesTyped, TablesAgree
<1>4. /\ DOMAIN subs' = DOMAIN subs \union {nextSub}
      /\ subs'[nextSub] = filter /\ subClient'[nextSub] = c
      /\ \A s \in DOMAIN subs : subs'[s] = subs[s] /\ subClient'[s] = subClient[s]
  BY <1>1, <1>3 DEF With
<1>5. Active' = [s \in DOMAIN Active \union {nextSub} |->
                   IF s = nextSub THEN [owner |-> c, wish |-> filter] ELSE Active[s]]
  BY <1>3, <1>4 DEF Active
<1> QED
  BY <1>1, <1>2, <1>5, AbstractOpen

LEMMA CloseAbstract ==
    ASSUME TablesInv, NEW S \in SUBSET SubIds, Got' = Got,
           subs' = Without(subs, S), subClient' = Without(subClient, S),
           UNCHANGED <<nextSub, taskVars>>
    PROVE  Abstract!PubNext
<1>1. DOMAIN subs = DOMAIN subClient
  BY DEF TablesInv, TablesAgree
<1>2. Active' = [s \in DOMAIN Active \ S |-> Active[s]]
  BY <1>1 DEF Active, Without
<1> QED
  BY <1>2, AbstractClose, SameEvents

LEMMA ConnAbstract ==
    ASSUME TypeOK, TablesInv, NEW c \in Conns, ConnNext(c)
    PROVE  Abstract!PubNext \/ UNCHANGED Abstract!pubVars
<1>1. Got' = Got
  BY OtherGot
<1>2. ASSUME NEW filter \in Filters, Subscribe(c, filter) PROVE Abstract!PubNext
  BY <1>2, SubscribeAbstract
<1>3. ASSUME NEW s \in SubIds, Unsubscribe(c, s) PROVE Abstract!PubNext
  <2>1. {s} \in SUBSET SubIds
    OBVIOUS
  <2> QED
    BY <1>1, <1>3, <2>1, CloseAbstract DEF Unsubscribe
<1>4. CASE EndHandler(c) \/ HandlerRaises(c)
  <2>1. SubsOf(c) \in SUBSET SubIds
    BY DEF TypeOK, SubsOf
  <2> QED
    BY <1>1, <1>4, <2>1, CloseAbstract DEF EndHandler, HandlerRaises
<1>5. CASE Connect(c) \/ Disconnect(c) \/ CloseConn(c) \/ Unblock(c) \/ Shutdown(c)
             \/ OtherRequest(c) \/ Drained(c)
  <2>1. UNCHANGED <<registryVars, taskVars>>
    BY <1>5 DEF Connect, Disconnect, CloseConn, Unblock, Shutdown, OtherRequest, Drained
  <2> QED
    BY <1>1, <2>1, AbstractStutter, SameActive, SameEvents DEF registryVars
<1> QED
  BY <1>2, <1>3, <1>4, <1>5 DEF ConnNext

LEMMA ServeAbstract ==
    ASSUME TypeOK, TablesInv, ServeNext
    PROVE  UNCHANGED Abstract!pubVars
<1>1. Got' = Got /\ UNCHANGED <<nextSub, subs, taskVars>>
  BY OtherGot DEF ServeNext, Serve, BindFails, PollSeesRequest, Cancel, FinishStop, InterruptStop,
                  registryVars
<1>2. subClient' = subClient \/ DOMAIN subs = {}
  BY DEF ServeNext, Serve, BindFails, PollSeesRequest, Cancel, FinishStop, InterruptStop,
         registryVars, TablesInv, TablesTyped, TablesAgree
<1>3. Active' = Active
  BY <1>1, <1>2 DEF Active
<1> QED
  BY <1>1, <1>3, AbstractStutter, SameEvents

LEMMA EmitAbstract ==
    ASSUME TypeOK, NEW agent \in Agents, Emit(agent)
    PROVE  Abstract!PubNext
<1> DEFINE new == [topic |-> agent, audience |-> NoTask, state |-> "waiting"]
<1>1. Got' = Got /\ UNCHANGED registryVars
  BY OtherGot DEF Emit
<1>2. PICK n \in Nat : n = Len(tasks)
  BY DEF TypeOK
<1>3. /\ tasks' = Append(tasks, Queued(agent)) /\ Tasks' = 1..(n + 1)
      /\ Tasks = 1..n /\ Len(tasks) = n /\ tasks \in Seq(Task)
  BY <1>2, EmitType DEF TypeOK, Tasks
<1>4. tasks'[n + 1] = Queued(agent) /\ \A t \in Tasks : tasks'[t] = tasks[t]
  <2> HIDE DEF Task
  <2> QED
    BY <1>3
<1>5. Event(n + 1)' = new /\ \A t \in Tasks : Event(t)' = Event(t)
  <2>1. Event(n + 1)' = new
    <3>1. Queued(agent).agent = agent /\ Queued(agent).stage = "queued"
      BY DEF Queued
    <3>2. PubState("queued") = "waiting"
      BY DEF PubState
    <3> QED
      BY <1>4, <3>1, <3>2 DEF Event
  <2>2. ASSUME NEW t \in Tasks PROVE Event(t)' = Event(t)
    BY <1>4 DEF Event
  <2> QED
    BY <2>1, <2>2
<1>6. Events' = [t \in 1..(n + 1) |-> IF t = n + 1 THEN new ELSE Events[t]]
  BY <1>3, <1>5 DEF Events
<1>7. Events' = Append(Events, new)
  <2>1. Events = [t \in 1..n |-> Events[t]] /\ Len(Events) = n
    BY <1>3 DEF Events
  <2>2. Append(Events, new) = [t \in 1..(Len(Events) + 1) |->
                                  IF t = Len(Events) + 1 THEN new ELSE Events[t]]
    BY <2>1
  <2> QED
    BY <1>6, <2>1, <2>2
<1> QED
  BY <1>1, <1>7, AbstractPublish, SameActive DEF registryVars

LEMMA PubStates ==
    /\ PubState("queued") = "waiting" /\ PubState("running") = "open"
    /\ PubState("suspended") = "open" /\ PubState("done") = "complete"
    /\ PubState("aborted") = "lost"
  BY DEF PubState

LEMMA EventIs ==
    ASSUME NEW t \in Tasks
    PROVE  /\ t \in DOMAIN Events /\ DOMAIN Events = Tasks
           /\ Events[t] = [topic |-> tasks[t].agent, state |-> PubState(tasks[t].stage),
                 audience |-> IF tasks[t].stage = "queued" THEN NoTask ELSE tasks[t].matched]
  BY DEF Events, Event

\* The audience that PubSub settles is the one the task is built for.
LEMMA StartAbstract ==
    ASSUME TypeOK, NEW t \in Tasks, StartTask(t)
    PROVE  Abstract!PubNext
<1>1. /\ Moved(t, "running", Matching(t), Matching(t), tasks[t].at)
      /\ tasks[t].stage = "queued" /\ OldestQueued(t)
      /\ UNCHANGED <<connVars, registryVars>>
  BY StartMoves DEF StartTask, IsNext
<1>2. Got' = Got /\ Active' = Active /\ nextSub' = nextSub
  BY <1>1, KeptGot, SameActive DEF connVars, registryVars
<1>3. Events[t] = [topic |-> tasks[t].agent, state |-> "waiting", audience |-> NoTask]
  BY <1>1, EventIs, PubStates
<1>4. ASSUME NEW u \in 1..(t - 1) PROVE Events[u].state # "waiting"
  <2>1. u \in Tasks
    BY DEF TypeOK, Tasks
  <2>2. tasks[u].stage \in Stages \ {"queued"}
    BY <1>1, <2>1, TaskType DEF OldestQueued
  <2>3. Events[u].state = PubState(tasks[u].stage)
    BY <2>1 DEF Events, Event
  <2> QED
    BY <2>2, <2>3, PubStates DEF Stages
<1> DEFINE M == {s \in DOMAIN Active : Active[s].wish = {} \/ Events[t].topic \in Active[s].wish}
<1>5. M = Matching(t)
  BY <1>3 DEF Matching, Matches, Active
<1>6. Events' = [Events EXCEPT ![t] = [topic |-> tasks[t].agent, state |-> "open",
                                       audience |-> Matching(t)]]
  BY <1>1, MovedEvents, PubStates
<1>7. t \in DOMAIN Events
  BY EventIs
<1>8. Events' = [Events EXCEPT ![t].state = "open", ![t].audience = Matching(t)]
  <2> DEFINE opened == [Events[t] EXCEPT !.state = "open"]
  <2>1. opened = [topic |-> tasks[t].agent, state |-> "open", audience |-> NoTask]
    BY <1>3
  <2>3. [[Events EXCEPT ![t].state = "open"] EXCEPT ![t].audience = Matching(t)]
          = [Events EXCEPT ![t].state = "open", ![t].audience = Matching(t)]
    OBVIOUS
  <2>4. [Events EXCEPT ![t].state = "open"] = [Events EXCEPT ![t] = opened]
    OBVIOUS
  <2> HIDE DEF opened
  <2>2. [opened EXCEPT !.audience = Matching(t)]
          = [topic |-> tasks[t].agent, state |-> "open", audience |-> Matching(t)]
    BY <2>1
  <2>5. [[Events EXCEPT ![t] = opened] EXCEPT ![t].audience = Matching(t)]
          = [Events EXCEPT ![t] = [topic |-> tasks[t].agent, state |-> "open",
                                   audience |-> Matching(t)]]
    BY <1>7, <2>2
  <2> QED
    BY <1>6, <2>3, <2>4, <2>5
<1>9. Events[t].state = "waiting"
  BY <1>3
<1> QED
  BY <1>2, <1>4, <1>5, <1>8, <1>7, <1>9, AbstractBegin

LEMMA SendAbstract ==
    ASSUME TypeOK, TablesInv, TasksInv, DeliveriesInv, NEW t \in Tasks, SendNext(t)
    PROVE  Abstract!PubNext
<1>1. PICK s \in SubIds, c \in Conns, at \in SUBSET Conns : Sends(t, s, c, at)
  BY SendMoves
<1>2. TaskInv(t) /\ tasks[t].stage = "running" /\ t \in 1..MaxEvents
  BY <1>1, TaskType DEF TasksInv, TaskInv, Sends
<1>3. Got' = Got \union {<<c, s, t>>} /\ Active' = Active /\ nextSub' = nextSub
  BY <1>1, SendGot, SameActive DEF SendNext, registryVars
<1>4. Events[t] = [topic |-> tasks[t].agent, state |-> "open", audience |-> tasks[t].matched]
  BY <1>2, EventIs, PubStates
<1>5. Events' = [Events EXCEPT ![t] = Events[t]]
  <2>1. PICK stage \in {"running", "suspended"} :
           Moved(t, stage, tasks[t].todo \ {s}, tasks[t].matched, at)
    BY <1>1, <1>2 DEF Sends
  <2> QED
    BY <1>4, <2>1, MovedEvents, PubStates
<1>6. Events' = Events
  BY <1>5 DEF Events
<1>7. s \in DOMAIN Active /\ Active[s].owner = c
  BY <1>1 DEF Sends, Active, TablesInv, TablesAgree
<1>8. s \in tasks[t].matched /\ \A d \in Conns : <<d, s, t>> \notin Got
  BY <1>1, <1>2 DEF Sends, TaskInv, DeliveriesInv
<1>9. t \in DOMAIN Events
  BY EventIs
<1>10. Events[t].state = "open" /\ s \in Events[t].audience
  BY <1>4, <1>8
<1>11. Got' = Got \union {<<Active[s].owner, s, t>>}
  BY <1>3, <1>7
<1> QED
  BY <1>3, <1>6, <1>7, <1>8, <1>9, <1>11, <1>10, AbstractDeliver

LEMMA FinishAbstract ==
    ASSUME TypeOK, TasksInv, DeliveriesInv, NEW t \in Tasks, FinishTask(t)
    PROVE  Abstract!PubNext
<1>1. /\ Moved(t, "done", tasks[t].todo, tasks[t].matched, tasks[t].at)
      /\ tasks[t].stage = "running" /\ tasks[t].todo = {} /\ UNCHANGED <<connVars, registryVars>>
  BY SilentMoves DEF FinishTask, TasksInv, TaskInv
<1>2. Got' = Got /\ Active' = Active /\ nextSub' = nextSub
  BY <1>1, KeptGot, SameActive DEF connVars, registryVars
<1>3. Events[t] = [topic |-> tasks[t].agent, state |-> "open", audience |-> tasks[t].matched]
  BY <1>1, EventIs, PubStates
<1>4. Events' = [Events EXCEPT ![t] = [topic |-> tasks[t].agent, state |-> "complete",
                                       audience |-> tasks[t].matched]]
  BY <1>1, MovedEvents, PubStates
<1>5. Events[t].state = "open" /\ Events[t].audience = tasks[t].matched
  BY <1>3
<1>6. t \in DOMAIN Events
  BY EventIs
<1>7. Events' = [Events EXCEPT ![t].state = "complete"]
  <2>1. [Events[t] EXCEPT !.state = "complete"]
          = [topic |-> tasks[t].agent, state |-> "complete", audience |-> tasks[t].matched]
    BY <1>3
  <2> QED
    BY <1>4, <1>6, <2>1
<1>8. \A s \in tasks[t].matched : s \in DOMAIN Active =>
         s \in SubIds /\ \E c \in Conns : <<c, s, t>> \in Got
  BY <1>1, TaskType DEF Active, DeliveriesInv
<1> QED
  BY <1>2, <1>7, <1>8, <1>5, <1>6, AbstractComplete

LEMMA LoseAbstract ==
    ASSUME TypeOK, TasksInv, NEW t \in Tasks, SendRaises(t) \/ AbortTask(t)
    PROVE  Abstract!PubNext
<1>1. /\ Moved(t, "aborted", tasks[t].todo, tasks[t].matched, tasks[t].at)
      /\ tasks[t].stage \in {"running", "suspended"} /\ UNCHANGED <<connVars, registryVars>>
  BY SilentMoves DEF SendRaises, AbortTask, TasksInv, TaskInv
<1>2. Got' = Got /\ Active' = Active /\ nextSub' = nextSub
  BY <1>1, KeptGot, SameActive DEF connVars, registryVars
<1>3. Events[t] = [topic |-> tasks[t].agent, state |-> "open", audience |-> tasks[t].matched]
  BY <1>1, EventIs, PubStates
<1>4. Events' = [Events EXCEPT ![t] = [topic |-> tasks[t].agent, state |-> "lost",
                                       audience |-> tasks[t].matched]]
  BY <1>1, MovedEvents, PubStates
<1>5. Events[t].state = "open"
  BY <1>3
<1>6. t \in DOMAIN Events
  BY EventIs
<1>7. Events' = [Events EXCEPT ![t].state = "lost"]
  <2>1. [Events[t] EXCEPT !.state = "lost"]
          = [topic |-> tasks[t].agent, state |-> "lost", audience |-> tasks[t].matched]
    BY <1>3
  <2> QED
    BY <1>4, <1>6, <2>1
<1> QED
  BY <1>2, <1>7, <1>5, <1>6, AbstractLose

\* Skipping a subscription that is gone, and resuming, cannot be seen.
LEMMA HiddenAbstract ==
    ASSUME TypeOK, TasksInv, NEW t \in Tasks, SkipRemoved(t) \/ ResumeTask(t)
    PROVE  UNCHANGED Abstract!pubVars
<1>1. UNCHANGED <<connVars, registryVars>> /\ tasks[t].stage \in {"running", "suspended"}
  BY DEF SkipRemoved, ResumeTask, TasksInv, TaskInv
<1>2. PICK stage \in {"running", "suspended"}, todo \in {tasks[t].todo, tasks[t].todo \ {NextTodo(t)}} :
         Moved(t, stage, todo, tasks[t].matched, tasks[t].at)
  BY <1>1, SilentMoves
<1>3. Got' = Got /\ Active' = Active /\ nextSub' = nextSub
  BY <1>1, KeptGot, SameActive DEF connVars, registryVars
<1>4. Events[t] = [topic |-> tasks[t].agent, state |-> "open", audience |-> tasks[t].matched]
  BY <1>1, EventIs, PubStates
<1>5. Events' = [Events EXCEPT ![t] = Events[t]]
  BY <1>2, <1>4, MovedEvents, PubStates
<1>6. Events' = Events
  BY <1>5 DEF Events
<1> QED
  BY <1>3, <1>6, AbstractStutter

LEMMA NextAbstract ==
    TypeOK /\ TablesInv /\ TasksInv /\ DeliveriesInv /\ [Next]_vars
      => [Abstract!PubNext]_(Abstract!pubVars)
<1> SUFFICES ASSUME TypeOK, TablesInv, TasksInv, DeliveriesInv, [Next]_vars
             PROVE  Abstract!PubNext \/ UNCHANGED Abstract!pubVars
  OBVIOUS
<1>1. CASE UNCHANGED vars
  <2>1. UNCHANGED <<registryVars, taskVars>> /\ Got' = Got
    BY <1>1, OtherGot DEF vars
  <2> QED
    BY <2>1, AbstractStutter, SameActive, SameEvents DEF registryVars
<1>2. ASSUME NEW t \in Tasks, RunTask(t) \/ AbortTask(t)
      PROVE  Abstract!PubNext \/ UNCHANGED Abstract!pubVars
  BY <1>2, StartAbstract, SendAbstract, FinishAbstract, LoseAbstract, HiddenAbstract DEF RunTask
<1> QED
  BY <1>1, <1>2, ServeAbstract, ConnAbstract, EmitAbstract DEF Next

-----------------------------------------------------------------------------
(* Who is sent what. *)

\* The client was told of its subscription s and not that it has ended.
Announced(c, s) ==
    \E j \in DOMAIN sent[c] :
        /\ Is(c, j, "subscribed", s) /\ sent[c][j].filter = subs[s]
        /\ \A k \in DOMAIN sent[c] : k >= j => ~Is(c, k, "unsubscribed", s)

AnnouncedInv ==
    \A s \in DOMAIN subs : conn[subClient[s]] = "open" => Announced(subClient[s], s)

\* At most one frame is written, and none that ends one of the subscriptions S.
Harmless(S) ==
    \/ sent' = sent
    \/ \E c \in Conns, n \in Nat \ {0}, frame \in Frame :
          /\ Appended(c, n, frame)
          /\ \A s \in S : ~(frame.kind = "unsubscribed" /\ frame.sub = s)

LEMMA AnnouncedKept ==
    ASSUME NEW c \in Conns, NEW s, Announced(c, s), subs'[s] = subs[s], NEW S, s \in S, Harmless(S)
    PROVE  Announced(c, s)'
<1>1. CASE sent' = sent
  BY <1>1 DEF Announced, Is
<1>2. ASSUME NEW d \in Conns, NEW n \in Nat \ {0}, NEW frame, Appended(d, n, frame),
             ~(frame.kind = "unsubscribed" /\ frame.sub = s)
      PROVE  Announced(c, s)'
  <2>1. CASE d # c
    BY <1>2, <2>1 DEF Announced, Is, Appended
  <2>2. CASE d = c
    <3>1. PICK j \in DOMAIN sent[c] :
             /\ Is(c, j, "subscribed", s) /\ sent[c][j].filter = subs[s]
             /\ \A k \in DOMAIN sent[c] : k >= j => ~Is(c, k, "unsubscribed", s)
      BY DEF Announced
    <3>2. /\ j \in DOMAIN sent'[c] /\ sent'[c][j] = sent[c][j] /\ sent'[c][n] = frame
          /\ \A k \in DOMAIN sent'[c] : k = n \/ (k \in DOMAIN sent[c] /\ sent'[c][k] = sent[c][k])
      BY <1>2, <2>2 DEF Appended
    <3> QED
      BY <1>2, <3>1, <3>2 DEF Announced, Is
  <2> QED
    BY <2>1, <2>2
<1> QED
  BY <1>1, <1>2 DEF Harmless

\* Steps that may end subscriptions and close connections, but begin none.
LEMMA AnnouncedInvKept ==
    ASSUME TablesInv, AnnouncedInv, Harmless(DOMAIN subs'),
           \A s \in DOMAIN subs' :
              /\ s \in DOMAIN subs /\ subs'[s] = subs[s] /\ subClient'[s] = subClient[s]
              /\ conn'[subClient[s]] = "open" => conn[subClient[s]] = "open"
    PROVE  AnnouncedInv'
<1> SUFFICES ASSUME NEW s \in DOMAIN subs', conn'[subClient'[s]] = "open"
             PROVE  Announced(subClient[s], s)'
  BY DEF AnnouncedInv
<1>1. PICK c \in Conns : c = subClient[s]
  BY DEF TablesInv, TablesTyped, TablesAgree
<1>2. Announced(c, s) /\ subs'[s] = subs[s] /\ subClient'[s] = c
  BY <1>1 DEF AnnouncedInv
<1>3. Announced(c, s)'
  BY <1>2, AnnouncedKept
<1> QED
  BY <1>2, <1>3 DEF Announced, Is

\* The response that names the new subscription comes before any notification
\* for it, or is lost with the connection.
LEMMA SubscribeAnnounced ==
    ASSUME TypeOK, TablesInv, AnnouncedInv, NEW c \in Conns, NEW filter \in Filters,
           Subscribe(c, filter)
    PROVE  AnnouncedInv'
<1> DEFINE frame == [kind |-> "subscribed", sub |-> nextSub, filter |-> filter]
<1>1. /\ nextSub \in SubIds /\ Respond(c, <<frame>>) /\ conn' = conn
      /\ subs' = With(subs, nextSub, filter) /\ subClient' = With(subClient, nextSub, c)
  BY DEF Subscribe
<1>2. frame \in Frame
  BY <1>1, AnswerFrames
<1>3. \/ conn[c] = "open" /\ \E n \in Nat \ {0} : Appended(c, n, frame)
      \/ conn[c] = "closed" /\ sent' = sent
  <2> HIDE DEF frame, Frame
  <2> QED
    BY <1>1, <1>2, RespondAppends
<1>4. Harmless(DOMAIN subs)
  BY <1>2, <1>3 DEF Harmless
<1>5. DOMAIN subs = DOMAIN subClient /\ nextSub \notin DOMAIN subs
  BY DEF TablesInv, TablesTyped, TablesAgree
<1>6. /\ DOMAIN subs' = DOMAIN subs \union {nextSub}
      /\ subs'[nextSub] = filter /\ subClient'[nextSub] = c
      /\ \A s \in DOMAIN subs : subs'[s] = subs[s] /\ subClient'[s] = subClient[s]
  BY <1>1, <1>5 DEF With
<1>7. PICK s0 \in SubIds : s0 = nextSub
  BY <1>1
<1>8. ASSUME conn[c] = "open" PROVE Announced(c, s0)'
  <2>1. PICK n \in Nat \ {0} : Appended(c, n, frame)
    BY <1>3, <1>8
  <2>2. DOMAIN sent'[c] = 1..n /\ sent'[c][n] = frame
    BY <2>1 DEF Appended
  <2>3. \A k \in DOMAIN sent'[c] : k >= n => k = n
    BY <2>2
  <2> QED
    BY <1>6, <1>7, <2>2, <2>3 DEF Announced, Is
<1>9. ASSUME NEW s \in DOMAIN subs, conn[subClient[s]] = "open" PROVE Announced(subClient[s], s)'
  <2>1. PICK d \in Conns : d = subClient[s]
    BY <1>5 DEF TablesInv, TablesTyped
  <2>2. Announced(d, s)'
    BY <1>4, <1>6, <1>9, <2>1, AnnouncedKept DEF AnnouncedInv
  <2> QED
    BY <1>6, <2>1, <2>2 DEF Announced, Is
<1>10. ASSUME NEW s \in DOMAIN subs', conn'[subClient'[s]] = "open" PROVE Announced(subClient[s], s)'
  <2>1. CASE s = s0
    <3>1. subClient'[s] = c /\ Announced(c, s)'
      BY <1>1, <1>6, <1>7, <1>8, <1>10, <2>1
    <3> QED
      BY <3>1 DEF Announced, Is
  <2>2. CASE s \in DOMAIN subs
    BY <1>1, <1>6, <1>9, <1>10, <2>2
  <2> QED
    BY <1>6, <1>7, <2>1, <2>2
<1> QED
  BY <1>10 DEF AnnouncedInv

LEMMA SomeAnnounced ==
    ASSUME TypeOK, TablesInv, AnnouncedInv, NEW c \in Conns, ConnNext(c)
    PROVE  AnnouncedInv'
<1>1. \A s \in DOMAIN subs : conn[subClient[s]] \in {"open", "closed"} /\ DOMAIN subs = DOMAIN subClient
  BY DEF TablesInv, TablesAgree
<1>2. ASSUME NEW s \in SubIds, Unsubscribe(c, s) PROVE AnnouncedInv'
  <2> DEFINE frame == [kind |-> "unsubscribed", sub |-> s]
  <2>1. frame \in Frame /\ Respond(c, <<frame>>) /\ conn' = conn
        /\ subs' = Without(subs, {s}) /\ subClient' = Without(subClient, {s})
    BY <1>2, AnswerFrames DEF Unsubscribe
  <2>2. \A r \in DOMAIN subs' :
           r # s /\ r \in DOMAIN subs /\ subs'[r] = subs[r] /\ subClient'[r] = subClient[r]
    BY <1>1, <2>1 DEF Without
  <2>3. Harmless(DOMAIN subs')
    <3>1. \A r \in DOMAIN subs' : ~(frame.kind = "unsubscribed" /\ frame.sub = r)
      BY <2>2
    <3> HIDE DEF frame, Frame
    <3> QED
      BY <2>1, <3>1, RespondAppends DEF Harmless
  <2> QED
    BY <2>1, <2>2, <2>3, AnnouncedInvKept
<1>3. CASE EndHandler(c) \/ HandlerRaises(c)
  <2>1. /\ sent' = sent /\ subs' = Without(subs, SubsOf(c))
        /\ subClient' = Without(subClient, SubsOf(c))
    BY <1>3 DEF EndHandler, HandlerRaises
  <2>2. \A d \in Conns : conn'[d] = "open" => conn[d] = "open"
    BY <1>3 DEF EndHandler, HandlerRaises, TypeOK
  <2>3. \A r \in DOMAIN subs' :
           r \in DOMAIN subs /\ subs'[r] = subs[r] /\ subClient'[r] = subClient[r]
    BY <1>1, <2>1 DEF Without
  <2>4. \A r \in DOMAIN subs : subClient[r] \in Conns
    BY <1>1 DEF TypeOK
  <2> QED
    BY <2>1, <2>2, <2>3, <2>4, AnnouncedInvKept DEF Harmless
<1>4. CASE Connect(c) \/ Disconnect(c) \/ CloseConn(c) \/ Unblock(c) \/ Drained(c)
  <2>1. sent' = sent /\ subs' = subs /\ subClient' = subClient
    BY <1>4 DEF Connect, Disconnect, CloseConn, Unblock, Drained, registryVars
  <2>2. \A d \in Conns : conn'[d] = "open" => conn[d] \in {"none", "open"}
    BY <1>4 DEF Connect, Disconnect, CloseConn, Unblock, Drained, TypeOK
  <2>3. \A r \in DOMAIN subs : subClient[r] \in Conns
    BY <1>1 DEF TypeOK
  <2> QED
    BY <1>1, <2>1, <2>2, <2>3, AnnouncedInvKept DEF Harmless
<1>5. CASE Shutdown(c)
  <2> DEFINE frame == [kind |-> "accepted"]
  <2>1. frame \in Frame /\ frame.kind # "unsubscribed" /\ Respond(c, <<frame>>)
        /\ conn' = conn /\ subs' = subs /\ subClient' = subClient
    BY <1>5, AnswerFrames DEF Shutdown, registryVars
  <2>2. Harmless(DOMAIN subs')
    <3> HIDE DEF frame, Frame
    <3> QED
      BY <2>1, RespondAppends DEF Harmless
  <2> QED
    BY <2>1, <2>2, AnnouncedInvKept
<1>6. CASE OtherRequest(c)
  BY <1>6, RespondNothing, AnnouncedInvKept DEF OtherRequest, Harmless, registryVars
<1> QED
  BY <1>2, <1>3, <1>4, <1>5, <1>6, SubscribeAnnounced DEF ConnNext

LEMMA NextAnnounced == TypeOK /\ TablesInv /\ AnnouncedInv /\ [Next]_vars => AnnouncedInv'
<1> SUFFICES ASSUME TypeOK, TablesInv, AnnouncedInv, [Next]_vars PROVE AnnouncedInv'
  OBVIOUS
<1>1. ASSUME UNCHANGED <<conn, registryVars>>, Harmless(DOMAIN subs) PROVE AnnouncedInv'
  BY <1>1, AnnouncedInvKept DEF registryVars
<1>2. CASE Serve \/ BindFails \/ PollSeesRequest \/ Cancel \/ InterruptStop \/ UNCHANGED vars
           \/ (\E agent \in Agents : Emit(agent))
  BY <1>1, <1>2 DEF Serve, BindFails, PollSeesRequest, Cancel, InterruptStop, Emit, vars,
                    connVars, Harmless
<1>3. CASE FinishStop
  BY <1>3 DEF FinishStop, AnnouncedInv, TablesInv, TablesTyped, TablesAgree
<1>4. ASSUME NEW t \in Tasks, RunTask(t) \/ AbortTask(t) PROVE AnnouncedInv'
  <2>1. UNCHANGED <<conn, registryVars>>
    BY <1>4 DEF RunTask, StartTask, SkipRemoved, SendNext, SendRaises, FinishTask, ResumeTask,
                AbortTask, connVars
  <2>2. CASE SendNext(t)
    <3>1. PICK s \in SubIds, c \in Conns, at \in SUBSET Conns : Sends(t, s, c, at)
      BY <2>2, SendMoves
    <3> DEFINE frame == [kind |-> "notify", sub |-> s, event |-> t]
    <3>2. frame \in Frame /\ frame.kind # "unsubscribed"
      BY AnswerFrames
    <3>3. PICK n \in Nat \ {0} : Appended(c, n, frame)
      BY <3>1, SendGot
    <3> HIDE DEF frame, Frame
    <3> QED
      BY <1>1, <2>1, <3>2, <3>3 DEF Harmless
  <2>3. CASE ~SendNext(t)
    BY <1>1, <1>4, <2>1, <2>3, SilentGot DEF Harmless
  <2> QED
    BY <2>2, <2>3
<1> QED
  BY <1>2, <1>3, <1>4, SomeAnnounced DEF Next, ServeNext

LEMMA InitAnnounced == Init => AnnouncedInv
<1>1. DOMAIN Empty = {}
  BY DEF Empty
<1> QED
  BY <1>1 DEF Init, InitFrom, AnnouncedInv

-----------------------------------------------------------------------------
(* The order of notifications, and that each is wanted. *)

\* What a task is about does not change, nor that it has waited.
TasksKept ==
    \A t \in Tasks : /\ t \in Tasks' /\ tasks'[t].agent = tasks[t].agent
                     /\ tasks[t].at # {} => tasks'[t].at # {}

LEMMA NextTasksKept ==
    ASSUME TypeOK, [Next]_vars
    PROVE  TasksKept
<1>1. CASE ServeNext \/ (\E c \in Conns : ConnNext(c)) \/ UNCHANGED vars
  <2>1. tasks' = tasks
    BY <1>1, RegistrySteps DEF taskVars
  <2> QED
    BY <2>1 DEF TasksKept, Tasks
<1>2. ASSUME NEW agent \in Agents, Emit(agent) PROVE TasksKept
  <2>1. PICK n \in Nat : n = Len(tasks)
    BY DEF TypeOK
  <2>2. /\ tasks' = Append(tasks, Queued(agent)) /\ Tasks' = 1..(n + 1)
        /\ Tasks = 1..n /\ Len(tasks) = n /\ tasks \in Seq(Task)
    BY <1>2, <2>1, EmitType DEF TypeOK, Tasks
  <2>3. \A t \in Tasks : t \in Tasks' /\ tasks'[t] = tasks[t]
    <3> HIDE DEF Task
    <3> QED
      BY <2>2
  <2> QED
    BY <2>3 DEF TasksKept
<1>3. ASSUME NEW t \in Tasks, RunTask(t) \/ AbortTask(t) PROVE TasksKept
  <2>1. ASSUME NEW stage, NEW todo, NEW matched, NEW at,
               Moved(t, stage, todo, matched, at), tasks[t].at # {} => at # {}
        PROVE  TasksKept
    BY <2>1 DEF Moved, TasksKept
  <2>2. CASE SendNext(t)
    <3>1. PICK s \in SubIds, c \in Conns, at \in SUBSET Conns : Sends(t, s, c, at)
      BY <2>2, SendMoves
    <3> QED
      BY <2>1, <3>1 DEF Sends
  <2>3. CASE StartTask(t)
    BY <2>1, <2>3, StartMoves
  <2>4. CASE SkipRemoved(t)
    BY <2>1, <2>4, SilentMoves
  <2>5. CASE SendRaises(t) \/ AbortTask(t) \/ FinishTask(t) \/ ResumeTask(t)
    BY <2>1, <2>5, SilentMoves
  <2> QED
    BY <1>3, <2>2, <2>3, <2>4, <2>5 DEF RunTask
<1> QED
  BY <1>1, <1>2, <1>3 DEF Next

\* A notification is about a task that has started.
LEMMA NoteTask ==
    ASSUME TypeOK, DeliveriesInv, NEW c \in Conns, NEW i \in Notes(c)
    PROVE  sent[c][i].event \in Tasks /\ tasks[sent[c][i].event].stage # "queued"
<1>1. <<c, sent[c][i].sub, sent[c][i].event>> \in Got
  BY InGot
<1>2. sent[c][i].sub \in SubIds /\ sent[c][i].event \in 1..MaxEvents
  BY <1>1, GotType DEF GotTyped
<1> QED
  BY <1>1, <1>2 DEF DeliveriesInv

\* The i-th frame of client c, a notification, was wanted and is new.
Wanted(c, i) ==
    /\ \A k \in 1..(i - 1) : sent[c][k] # sent[c][i]
    /\ \E j \in 1..(i - 1) :
          /\ Is(c, j, "subscribed", sent[c][i].sub)
          /\ LET wanted == sent[c][j].filter
             IN  wanted # {} => tasks[sent[c][i].event].agent \in wanted
          /\ \A k \in j..i : ~Is(c, k, "unsubscribed", sent[c][i].sub)

LEMMA WantedAll ==
    NotificationsWanted <=>
        \A c \in Conns : \A i \in DOMAIN sent[c] : sent[c][i].kind = "notify" => Wanted(c, i)
  BY DEF NotificationsWanted, Wanted

\* A frame stays as it is when others follow.
LEMMA WantedKept ==
    ASSUME TypeOK, DeliveriesInv, TasksKept, NEW c \in Conns, NEW i \in Notes(c), Wanted(c, i),
           i \in Nat, \A k \in 1..i : sent'[c][k] = sent[c][k]
    PROVE  Wanted(c, i)'
<1>1. tasks'[sent[c][i].event].agent = tasks[sent[c][i].event].agent
  BY NoteTask DEF TasksKept
<1>2. PICK j \in 1..(i - 1) :
        /\ Is(c, j, "subscribed", sent[c][i].sub)
        /\ sent[c][j].filter # {} => tasks[sent[c][i].event].agent \in sent[c][j].filter
        /\ \A k \in j..i : ~Is(c, k, "unsubscribed", sent[c][i].sub)
  BY DEF Wanted
<1>3. i \in 1..i /\ j \in 1..i /\ \A k \in j..i : k \in 1..i
  BY <1>2
<1>4. \A k \in j..i : ~(sent'[c][k].kind = "unsubscribed" /\ sent'[c][k].sub = sent'[c][i].sub)
  BY <1>2, <1>3 DEF Is
<1>5. \A k \in 1..(i - 1) : sent'[c][k] # sent'[c][i]
  <2>1. \A k \in 1..(i - 1) : k \in 1..i /\ sent[c][k] # sent[c][i]
    BY DEF Wanted
  <2> QED
    BY <1>3, <2>1
<1> QED
  BY <1>1, <1>2, <1>3, <1>4, <1>5 DEF Wanted, Is

LEMMA NextWanted ==
    ASSUME TypeOK, TablesInv, TasksInv, DeliveriesInv, AnnouncedInv, NotificationsWanted,
           [Next]_vars
    PROVE  NotificationsWanted'
<1>0. TasksKept
  BY NextTasksKept
<1>1. \A c \in Conns : \A i \in DOMAIN sent[c] : i \in Nat
  BY DEF TypeOK
<1>2. ASSUME NEW c \in Conns, NEW i \in Notes(c), \A k \in 1..i : sent'[c][k] = sent[c][k]
      PROVE  Wanted(c, i)'
  <2>1. Wanted(c, i) /\ i \in Nat
    BY <1>1, WantedAll DEF Notes
  <2> QED
    BY <1>0, <1>2, <2>1, WantedKept
<1>3. CASE sent' = sent
  <2>1. \A c \in Conns : \A i \in DOMAIN sent'[c] : sent'[c][i].kind = "notify" => Wanted(c, i)'
    BY <1>2, <1>3 DEF Notes
  <2> QED
    BY <2>1 DEF NotificationsWanted, Wanted
<1>4. ASSUME NEW c \in Conns, NEW n \in Nat \ {0}, NEW frame, Appended(c, n, frame),
             frame.kind = "notify" => Wanted(c, n)'
      PROVE  NotificationsWanted'
  <2>1. ASSUME NEW d \in Conns, NEW i \in DOMAIN sent'[d], sent'[d][i].kind = "notify"
        PROVE  Wanted(d, i)'
    <3>1. CASE d = c /\ i = n
      <4>1. Wanted(c, n)'
        BY <1>4, <2>1, <3>1 DEF Appended
      <4> QED
        BY <3>1, <4>1 DEF Wanted, Is
    <3>2. CASE d = c /\ i # n
      <4>1. i \in 1..(n - 1) /\ i \in Notes(c)
        BY <1>4, <2>1, <3>2 DEF Appended, Notes
      <4>2. \A k \in 1..i : sent'[c][k] = sent[c][k]
        BY <1>4, <4>1 DEF Appended
      <4>3. Wanted(c, i)'
        BY <1>2, <4>1, <4>2
      <4> QED
        BY <3>2, <4>3 DEF Wanted, Is
    <3>3. CASE d # c
      <4>1. sent'[d] = sent[d] /\ i \in Notes(d)
        BY <1>4, <2>1, <3>3 DEF Appended, Notes
      <4> QED
        BY <1>2, <4>1
    <3> QED
      BY <3>1, <3>2, <3>3
  <2> QED
    BY <2>1 DEF NotificationsWanted, Wanted
<1>5. ASSUME NEW t \in Tasks, SendNext(t) PROVE NotificationsWanted'
  <2>1. PICK s \in SubIds, c \in Conns, at \in SUBSET Conns : Sends(t, s, c, at)
    BY <1>5, SendMoves
  <2> DEFINE frame == [kind |-> "notify", sub |-> s, event |-> t]
  <2>2. PICK n \in Nat \ {0} : Appended(c, n, frame)
    BY <2>1, SendGot
  <2>3. s \in DOMAIN subs /\ Announced(c, s)
    <3>1. s \in DOMAIN subs /\ c = subClient[s] /\ conn[c] = "open"
      BY <2>1 DEF Sends, TablesInv, TablesAgree
    <3> QED
      BY <3>1 DEF AnnouncedInv
  <2>4. Matches(subs[s], tasks[t].agent)
    BY <2>1, <2>3 DEF Sends, TasksInv, TaskInv
  <2>5. PICK j \in DOMAIN sent[c] :
           /\ Is(c, j, "subscribed", s) /\ sent[c][j].filter = subs[s]
           /\ \A k \in DOMAIN sent[c] : k >= j => ~Is(c, k, "unsubscribed", s)
    BY <2>3 DEF Announced
  <2>6. j \in 1..(n - 1) /\ sent'[c][j] = sent[c][j] /\ sent'[c][n] = frame
    BY <2>2, <2>5 DEF Appended
  <2>7. ASSUME NEW k \in j..n
        PROVE  ~(sent'[c][k].kind = "unsubscribed" /\ sent'[c][k].sub = s)
    <3>1. CASE k = n
      BY <2>6, <3>1
    <3>2. CASE k # n
      <4>1. k \in DOMAIN sent[c] /\ k >= j /\ sent'[c][k] = sent[c][k]
        BY <2>2, <2>6, <3>2 DEF Appended
      <4> QED
        BY <2>5, <4>1 DEF Is
    <3> QED
      BY <3>1, <3>2
  <2>8. tasks'[t].agent = tasks[t].agent
    BY <1>0 DEF TasksKept
  <2>9. \A k \in 1..(n - 1) : sent'[c][k] # sent'[c][n]
    <3> SUFFICES ASSUME NEW k \in 1..(n - 1), sent'[c][k] = frame PROVE FALSE
      BY <2>6
    <3>1. k \in Notes(c) /\ sent[c][k].sub = s /\ sent[c][k].event = t
      BY <2>2 DEF Appended, Notes
    <3>2. <<c, s, t>> \in Got /\ t \in 1..MaxEvents
      BY <3>1, InGot, TaskType
    <3> QED
      BY <2>1, <3>2 DEF DeliveriesInv, Sends
  <2>10. Wanted(c, n)'
    BY <2>4, <2>5, <2>6, <2>7, <2>8, <2>9 DEF Wanted, Is, Matches
  <2> QED
    BY <1>4, <2>2, <2>10
<1>6. CASE \E c \in Conns, n \in Nat \ {0}, frame \in Frame :
              Appended(c, n, frame) /\ frame.kind # "notify"
  BY <1>4, <1>6
<1>7. sent' = sent \/ (\E t \in Tasks : SendNext(t))
        \/ \E c \in Conns, n \in Nat \ {0}, frame \in Frame :
              Appended(c, n, frame) /\ frame.kind # "notify"
  BY SentSteps
<1> QED
  BY <1>3, <1>5, <1>6, <1>7

\* Two notifications of one subscription, the second for the earlier event:
\* the task of that event has waited.
Excused(c, i, j) ==
    sent[c][i].sub = sent[c][j].sub /\ sent[c][i].event > sent[c][j].event
        => tasks[sent[c][j].event].at # {}

LEMMA OvertakenAll ==
    OvertakenOnlyAfterWaiting <=>
        \A c \in Conns : \A i, j \in Notes(c) : i < j => Excused(c, i, j)
  BY DEF OvertakenOnlyAfterWaiting, Excused, Notes

LEMMA NextOvertaken ==
    ASSUME TypeOK, TasksInv, DeliveriesInv, OvertakenOnlyAfterWaiting, [Next]_vars
    PROVE  OvertakenOnlyAfterWaiting'
<1>0. TasksKept
  BY NextTasksKept
<1>1. ASSUME NEW c \in Conns, NEW i \in Notes(c), NEW j \in Notes(c), i < j,
             sent'[c][i] = sent[c][i], sent'[c][j] = sent[c][j]
      PROVE  Excused(c, i, j)'
  <2>1. Excused(c, i, j) /\ sent[c][j].event \in Tasks
    BY <1>1, OvertakenAll, NoteTask
  <2> QED
    BY <1>0, <1>1, <2>1 DEF Excused, TasksKept
<1>2. SUFFICES \A c \in Conns : \A i, j \in Notes(c)' : i < j => Excused(c, i, j)'
  BY DEF OvertakenOnlyAfterWaiting, Excused, Notes
<1>3. CASE sent' = sent
  BY <1>1, <1>3 DEF Notes
<1>4. ASSUME NEW c \in Conns, NEW n \in Nat \ {0}, NEW frame, Appended(c, n, frame),
             frame.kind = "notify" => \A i \in Notes(c) : Excused(c, i, n)',
             NEW d \in Conns, NEW i \in Notes(d)', NEW j \in Notes(d)', i < j
      PROVE  Excused(d, i, j)'
  <2>1. CASE d # c
    <3>1. sent'[d] = sent[d] /\ i \in Notes(d) /\ j \in Notes(d)
      BY <1>4, <2>1 DEF Appended, Notes
    <3> QED
      BY <1>1, <1>4, <3>1
  <2>2. CASE d = c
    <3>1. /\ i \in 1..n /\ j \in 1..n /\ i # n /\ i \in Notes(c) /\ sent'[c][i] = sent[c][i]
          /\ j # n => j \in Notes(c) /\ sent'[c][j] = sent[c][j]
          /\ j = n => frame.kind = "notify"
      BY <1>4, <2>2 DEF Appended, Notes
    <3>2. Excused(c, i, j)'
      <4>1. CASE j = n
        <5>1. Excused(c, i, n)'
          BY <1>4, <3>1, <4>1
        <5> QED
          BY <4>1, <5>1 DEF Excused
      <4>2. CASE j # n
        BY <1>1, <1>4, <3>1, <4>2
      <4> QED
        BY <4>1, <4>2
    <3> QED
      BY <2>2, <3>2 DEF Excused
  <2> QED
    BY <2>1, <2>2
<1>5. ASSUME NEW t \in Tasks, SendNext(t), NEW c \in Conns, NEW n \in Nat \ {0}, NEW frame,
             Appended(c, n, frame), NEW i \in Notes(c)
      PROVE  Excused(c, i, n)'
  <2>1. PICK s \in SubIds, d \in Conns, at \in SUBSET Conns : Sends(t, s, d, at)
    BY <1>5, SendMoves
  <2>2. PICK m \in Nat \ {0} : Appended(d, m, [kind |-> "notify", sub |-> s, event |-> t])
    BY <2>1, SendGot
  <2>3. d = c /\ m = n
    <3>1. d = c
      <4>1. d # c => sent'[c] = sent[c]
        BY <2>2 DEF Appended
      <4>2. DOMAIN sent[c] # DOMAIN sent'[c]
        <5>1. n \in 1..n /\ n \notin 1..(n - 1)
          OBVIOUS
        <5> QED
          BY <1>5, <5>1 DEF Appended
      <4> QED
        BY <4>1, <4>2
    <3>2. 1..m = 1..n
      BY <1>5, <2>2, <3>1 DEF Appended
    <3>3. m \in 1..m /\ n \in 1..n
      OBVIOUS
    <3>4. m \in 1..n /\ n \in 1..m
      BY <3>2, <3>3
    <3> QED
      BY <3>1, <3>4
  <2>4. i \in 1..(n - 1) /\ sent'[c][i] = sent[c][i]
        /\ sent'[c][n] = [kind |-> "notify", sub |-> s, event |-> t]
    BY <1>5, <2>2, <2>3 DEF Appended, Notes
  <2>5. sent[c][i].event \in Tasks /\ tasks[sent[c][i].event].stage # "queued"
    BY NoteTask
  <2>6. sent[c][i].event > t => tasks[t].at # {}
    BY <2>1, <2>5 DEF Sends, TasksInv, TaskInv
  <2>7. tasks[t].at # {} => tasks'[t].at # {}
    BY <1>0 DEF TasksKept
  <2> QED
    BY <2>4, <2>6, <2>7 DEF Excused
<1> QED
  BY <1>3, <1>4, <1>5, SentSteps

-----------------------------------------------------------------------------
(* The theorems. *)

\* The invariant that is inductive.
PublicationInv ==
    /\ TypeOK /\ TablesInv /\ LifecycleInv /\ AcceptedInv /\ TasksInv /\ DeliveriesInv
    /\ AnnouncedInv /\ NotificationsWanted /\ OvertakenOnlyAfterWaiting

LEMMA InitPublication == Init => PublicationInv
<1>1. Init => NotificationsWanted /\ OvertakenOnlyAfterWaiting
  BY DEF Init, InitFrom, NotificationsWanted, OvertakenOnlyAfterWaiting
<1> QED
  BY <1>1, InitType, InitTablesInv, InitLifecycle, InitAccepted, InitTasks, InitDeliveries,
     InitAnnounced DEF PublicationInv

LEMMA NextPublication == PublicationInv /\ [Next]_vars => PublicationInv'
  BY NextType, NextTablesInv, NextLifecycle, NextAccepted, NextTasks, NextDeliveries,
     NextAnnounced, NextWanted, NextOvertaken DEF PublicationInv

\* Every reachable state satisfies the inductive invariant.
THEOREM PublicationInvariant == Spec => []PublicationInv
<1> QED
  BY InitPublication, NextPublication, PTL DEF Spec

\* The state of the server, the registry and the tasks is always well typed.
THEOREM ControlApiTypeCorrect == Spec => []TypeOK
<1>1. PublicationInv => TypeOK
  BY DEF PublicationInv
<1> QED
  BY <1>1, PublicationInvariant, PTL

\* However many clients ask at once, one shutdown request is accepted.
THEOREM OneShutdown == Spec => []OneShutdownAccepted
<1>1. PublicationInv => OneShutdownAccepted
  BY DEF PublicationInv, AcceptedInv
<1> QED
  BY <1>1, PublicationInvariant, PTL

\* A client is only sent events it asked for, after it was told of the
\* subscription and not after it was told that it has ended.
THEOREM OnlyWantedNotifications == Spec => []NotificationsWanted
<1>1. PublicationInv => NotificationsWanted
  BY DEF PublicationInv
<1> QED
  BY <1>1, PublicationInvariant, PTL

\* Events reach a subscription in order, but for those whose task had to wait.
THEOREM OnlyWaitersOvertaken == Spec => []OvertakenOnlyAfterWaiting
<1>1. PublicationInv => OvertakenOnlyAfterWaiting
  BY DEF PublicationInv
<1> QED
  BY <1>1, PublicationInvariant, PTL

\* The control API is a publish/subscribe service: its initial states are
\* initial states of PubSub, and every step is one of PubSub or cannot be seen.
THEOREM ControlApiImplementsPubSub == Spec => ImplementsPubSub
<1>1. PublicationInv /\ [Next]_vars => [Abstract!PubNext]_(Abstract!pubVars)
  BY NextAbstract DEF PublicationInv
<1> QED
  BY <1>1, InitAbstract, PublicationInvariant, PTL DEF Spec, ImplementsPubSub, Abstract!PubSpec

\* The same instance of PubSub as ControlApi's, with what is proved of it.
Service == INSTANCE PubSubProofs WITH
    Owners <- Conns, Topics <- Agents, Wishes <- Filters, Ids <- SubIds, Pending <- NoTask,
    next <- nextSub,
    active <- [s \in DOMAIN subs |-> [owner |-> subClient[s], wish |-> subs[s]]],
    events <- [t \in Tasks |->
                 [topic |-> tasks[t].agent, state |-> PubState(tasks[t].stage),
                  audience |-> IF tasks[t].stage = "queued" THEN NoTask ELSE tasks[t].matched]],
    got <- Got

\* What PubSub promises its subscribers, the control API keeps: audiences are
\* settled in the order of emission, a notification is due to whoever gets it,
\* and a publish task that completes has reached every matching subscription
\* that still exists.
THEOREM SubscribersMayRely == Spec => []Abstract!Promise
<1>1. Abstract!PubInit <=> Service!PubInit
  BY DEF Abstract!PubInit, Service!PubInit
<1>2. [Abstract!PubNext]_(Abstract!pubVars) <=> [Service!PubNext]_(Service!pubVars)
  BY DEF Abstract!PubNext, Service!PubNext, Abstract!pubVars, Service!pubVars,
         Abstract!Open, Service!Open, Abstract!Close, Service!Close,
         Abstract!Publish, Service!Publish, Abstract!Begin, Service!Begin,
         Abstract!Deliver, Service!Deliver, Abstract!Reached, Service!Reached,
         Abstract!Complete, Service!Complete, Abstract!Lose, Service!Lose
<1>3. Service!Promise <=> Abstract!Promise
  BY DEF Abstract!Promise, Service!Promise, Abstract!SettledInOrder, Service!SettledInOrder,
         Abstract!AudienceWants, Service!AudienceWants, Abstract!DeliveriesDue,
         Service!DeliveriesDue, Abstract!CompleteReachesAll, Service!CompleteReachesAll,
         Abstract!Reached, Service!Reached
<1> QED
  BY <1>1, <1>2, <1>3, ControlApiImplementsPubSub, Service!PromiseKept, PTL
     DEF ImplementsPubSub, Abstract!PubSpec, Service!PubSpec
=============================================================================
