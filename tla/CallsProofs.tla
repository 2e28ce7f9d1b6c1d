------------------------------ MODULE CallsProofs ------------------------------
(***************************************************************************)
(* What TLAPS proves of calls, for every number of callers, every set of   *)
(* frames that they may send and every set of agents.                      *)
(***************************************************************************)
EXTENDS Calls, TLAPS

-----------------------------------------------------------------------------
(* How frames are judged. *)

\* The errors are those of the contract, and they are about what it says: an
\* accepted request is one that is described, 1100 is about the state and 1200
\* about an infinite number only.
LEMMA ErrorsFit ==
    ASSUME NEW f \in Frames \ {Garbage}, NEW st
    PROVE  /\ ErrorOf(f, st) \in Codes \union {NoError}
           /\ Described(f) <=> ErrorOf(f, st) \in {NoError, 1100}
           /\ ErrorOf(f, st) = 1100 => st # "Running"
           /\ ErrorOf(f, st) = 1200 => Infinite(f)
<1> USE DEF Codes, NoError, ErrorOf, Described
<1>1. CASE f \in {NotJson, NotAnObject}
  BY <1>1
<1>2. CASE f \notin {NotJson, NotAnObject} /\ (f.version # "2.0" \/ f.params = NotAMapping)
  BY <1>2
<1>3. CASE /\ f \notin {NotJson, NotAnObject} /\ f.version = "2.0" /\ f.params # NotAMapping
           /\ f.method \notin Methods
  BY <1>3 DEF MethodError, Methods, Reads
<1>4. CASE /\ f \notin {NotJson, NotAnObject} /\ f.version = "2.0" /\ f.params # NotAMapping
           /\ f.method \in Methods
  <2>1. ErrorOf(f, st) = MethodError(f.method, f.params, st)
    BY <1>4, FramesAssumption
  <2>2. \A key \in {"timeout_seconds", "max_events"} :
            /\ Get(f.params, key, "whole") \in {"whole", "word", "infinite"}
            /\ Get(f.params, key, "whole") = "infinite" => Infinite(f)
    BY <1>4, FramesAssumption DEF Get, Has, Infinite
  <2>3. \A key \in {"timeout_seconds", "max_events"} :
            LET value == Get(f.params, key, "whole")
            IN  /\ NumberError(value) \in {0, 1000, 1200}
                /\ NumberError(value) = 0 <=> value = "whole"
                /\ NumberError(value) = 1200 <=> value = "infinite"
    BY <2>2 DEF NumberError
  <2>4. CASE f.method = "runtime.shutdown"
    BY <1>4, <2>1, <2>2, <2>3, <2>4 DEF MethodError, ShutdownError, First
  <2>5. CASE f.method = "agent.get_detail"
    BY <1>4, <2>1, <2>2, <2>3, <2>5 DEF MethodError, DetailError, First
  <2>6. CASE f.method \in Methods \ {"runtime.shutdown", "agent.get_detail"}
    BY <1>4, <2>1, <2>6 DEF MethodError, Methods, Reads
  <2> QED
    BY <1>4, <2>4, <2>5, <2>6
<1> QED
  BY <1>1, <1>2, <1>3, <1>4

\* A request that is carried out has a method, and a shutdown comes while the
\* runtime is running.
LEMMA CarriedOut ==
    ASSUME NEW f \in Frames \ {Garbage}, NEW st, ErrorOf(f, st) = NoError
    PROVE  /\ f.method \in Methods
           /\ f.method = "runtime.shutdown" => st = "Running"
<1> USE DEF NoError, ErrorOf, MethodError, Methods, Reads
<1>1. f.method \in Methods
  OBVIOUS
<1>2. ASSUME f.method = "runtime.shutdown" PROVE st = "Running"
  BY <1>2 DEF ShutdownError, First
<1> QED
  BY <1>1, <1>2

-----------------------------------------------------------------------------
(* The inductive invariant. *)

\* What may be returned to a caller.
Fits(c, a) ==
    /\ a = Result(c) \/ \E code \in Codes : a = Error(code)
    /\ a.kind = "error" => did[c] = {}
    /\ a = Result(c) => Effect(frame[c]) \subseteq did[c]
    /\ Described(frame[c]) <=> a \in {Result(c), Error(1100)}
    /\ a = Error(1100) => status # "Running"
    /\ a = Error(1200) => Infinite(frame[c])

\* The first frame on its way to a caller is the answer to its request, for a
\* connection has subscriptions only once its request was answered.
CallOK(c) ==
    /\ phase[c] = "new" => link[c] = "none"
    /\ link[c] = "none" => c \notin unread /\ answer[c] = None /\ did[c] = {}
                           /\ out[c] = << >> /\ SubsOf(c) = {}
    /\ c \in unread => /\ frame[c] \in Frames /\ answer[c] = None /\ did[c] = {}
                       /\ out[c] = << >> /\ SubsOf(c) = {}
    /\ link[c] = "open" /\ SubsOf(c) # {} => out[c] # << >>
    /\ out[c] # << >> => Fits(c, Head(out[c]))
    /\ answer[c] # None => Fits(c, answer[c])
    /\ "shutdown" \in did[c] => status # "Running"

OneShutdown == \A c, d \in Callers : "shutdown" \in did[c] \intersect did[d] => c = d

CallsInv == TypeOK /\ OneShutdown /\ \A c \in Callers : CallOK(c)

LEMMA CallsInit == Init => CallsInv
  BY DEF Init, CallsInv, TypeOK, OneShutdown, CallOK, SubsOf

-----------------------------------------------------------------------------
(* Steps that carry out no request. *)

\* What has been done and what it was done for stay, the status does not go
\* back and nobody gets a subscription.
NothingDone ==
    /\ UNCHANGED did
    /\ status # "Running" => status' # "Running"
    /\ subs' \subseteq subs

\* A caller whose own state is left alone, but for its connection that may
\* have been closed and its message that may have been lost.
LEMMA OthersKept ==
    ASSUME CallsInv, NothingDone, NEW c \in Callers,
           phase'[c] = phase[c] \/ phase'[c] # "new", frame'[c] = frame[c],
           answer'[c] = answer[c], out'[c] = out[c],
           link'[c] = link[c] \/ (link[c] = "open" /\ link'[c] = "closed"),
           c \in unread' => c \in unread
    PROVE  CallOK(c)'
<1>1. SubsOf(c)' \subseteq SubsOf(c)
  BY DEF NothingDone, SubsOf
<1>2. \A a : Fits(c, a) => Fits(c, a)'
  BY DEF NothingDone, Fits
<1> QED
  BY <1>1, <1>2 DEF CallsInv, CallOK, NothingDone

\* The steps of one caller, of its connection and of the server that carry out
\* no request.
LEMMA QuietType ==
    ASSUME TypeOK, NEW c \in Callers,
           \/ CannotConnect(c) \/ Receive(c) \/ ReceiveRaises(c) \/ HandleGarbage(c)
           \/ CleanUp(c) \/ CloseServer(c) \/ Notify(c)
    PROVE  TypeOK'
<1> USE DEF TypeOK, callerVars, serverVars, SubsOf
<1>1. CASE CannotConnect(c)
  BY <1>1 DEF CannotConnect
<1>2. CASE Receive(c)
  <2>1. Head(out[c]) \in Answers
    BY <1>2 DEF Receive
  <2> QED
    BY <1>2, <2>1 DEF Receive
<1>3. CASE ReceiveRaises(c)
  BY <1>3 DEF ReceiveRaises
<1>4. CASE HandleGarbage(c)
  BY <1>4 DEF HandleGarbage, Takes
<1>5. CASE CleanUp(c)
  BY <1>5 DEF CleanUp
<1>6. CASE CloseServer(c)
  BY <1>6 DEF CloseServer
<1>7. CASE Notify(c)
  <2>1. [kind |-> "notify"] \in Answers
    BY DEF Answers
  <2> QED
    BY <1>7, <2>1 DEF Notify, Send
<1> QED
  BY <1>1, <1>2, <1>3, <1>4, <1>5, <1>6, <1>7

LEMMA QuietInv ==
    ASSUME CallsInv, NEW c \in Callers,
           \/ CannotConnect(c) \/ Receive(c) \/ ReceiveRaises(c) \/ HandleGarbage(c)
           \/ CleanUp(c) \/ CloseServer(c) \/ Notify(c)
    PROVE  CallsInv'
<1> USE DEF callerVars, serverVars
<1>1. TypeOK /\ TypeOK'
  BY QuietType DEF CallsInv
<1>2. NothingDone
  BY DEF NothingDone, CannotConnect, Receive, ReceiveRaises, HandleGarbage, CleanUp,
         CloseServer, Notify
<1>3. OneShutdown'
  BY <1>2 DEF CallsInv, OneShutdown, NothingDone
<1>4. ASSUME NEW d \in Callers \ {c} PROVE CallOK(d)'
  <2>1. /\ phase'[d] = phase[d] /\ frame'[d] = frame[d] /\ answer'[d] = answer[d]
        /\ out'[d] = out[d] /\ link'[d] = link[d] /\ (d \in unread' => d \in unread)
    BY <1>1, <1>4 DEF TypeOK, CannotConnect, Receive, ReceiveRaises, HandleGarbage, CleanUp,
                      CloseServer, Notify, Send
  <2> QED
    BY <1>2, <1>4, <2>1, OthersKept
<1>5. CallOK(c)'
  <2>1. CASE CannotConnect(c) \/ ReceiveRaises(c) \/ CleanUp(c) \/ CloseServer(c)
    <3>1. /\ phase'[c] = phase[c] \/ phase'[c] # "new"
          /\ frame' = frame /\ answer' = answer /\ out' = out /\ unread' = unread
          /\ link'[c] = link[c] \/ (link[c] = "open" /\ link'[c] = "closed")
      BY <1>1, <2>1 DEF TypeOK, CannotConnect, ReceiveRaises, CleanUp, CloseServer
    <3> QED
      BY <1>2, <3>1, OthersKept
  <2>2. CASE HandleGarbage(c)
    <3>1. /\ phase' = phase /\ frame' = frame /\ answer' = answer /\ out' = out
          /\ c \notin unread' /\ c \in unread /\ link'[c] = "closed" /\ did' = did
      BY <1>1, <2>2 DEF TypeOK, HandleGarbage, Takes
    <3>2. out[c] = << >> /\ answer[c] = None /\ did[c] = {} /\ link[c] # "none"
      BY <3>1 DEF CallsInv, CallOK
    <3>3. phase[c] # "new"
      BY <3>2 DEF CallsInv, CallOK
    <3> QED
      BY <3>1, <3>2, <3>3 DEF CallOK
  <2>3. CASE Receive(c)
    <3>1. /\ phase'[c] = "done" /\ frame' = frame /\ answer'[c] = Head(out[c]) /\ out'[c] = << >>
          /\ unread' = unread /\ out[c] # << >> /\ link'[c] = "closed"
          /\ did' = did /\ status' = status /\ subs' = subs
      BY <1>1, <2>3 DEF TypeOK, Receive
    <3>2. c \notin unread /\ Fits(c, Head(out[c]))
      BY <3>1 DEF CallsInv, CallOK
    <3>3. \A a : Fits(c, a) => Fits(c, a)'
      BY <3>1 DEF Fits
    <3>4. SubsOf(c)' = SubsOf(c)
      BY <3>1 DEF SubsOf
    <3> QED
      BY <3>1, <3>2, <3>3, <3>4 DEF CallsInv, CallOK
  <2>4. CASE Notify(c)
    <3>1. /\ phase' = phase /\ frame' = frame /\ answer' = answer /\ unread' = unread
          /\ link' = link /\ did' = did /\ status' = status /\ subs' = subs /\ SubsOf(c) # {}
          /\ out'[c] = IF link[c] = "open" THEN Append(out[c], [kind |-> "notify"]) ELSE out[c]
      BY <1>1, <2>4 DEF TypeOK, Notify, Send
    <3>2. CASE link[c] # "open"
      BY <1>2, <3>1, <3>2, OthersKept
    <3>3. CASE link[c] = "open"
      <4>1. out[c] # << >> /\ c \notin unread
        BY <3>1, <3>3 DEF CallsInv, CallOK
      <4>2. out'[c] # << >> /\ Head(out'[c]) = Head(out[c])
        <5>1. out[c] \in Seq(Answers) /\ [kind |-> "notify"] \in Answers
          BY <1>1 DEF TypeOK, Answers
        <5> HIDE DEF Answers
        <5>2. Len(out[c]) > 0
          BY <4>1, <5>1
        <5> QED
          BY <3>1, <3>3, <5>1, <5>2
      <4>3. \A a : Fits(c, a) => Fits(c, a)'
        BY <3>1 DEF Fits
      <4>4. SubsOf(c)' = SubsOf(c)
        BY <3>1 DEF SubsOf
      <4> QED
        BY <3>1, <3>3, <4>1, <4>2, <4>3, <4>4 DEF CallsInv, CallOK
    <3> QED
      BY <3>2, <3>3
  <2> QED
    BY <2>1, <2>2, <2>3, <2>4
<1> QED
  BY <1>1, <1>3, <1>4, <1>5 DEF CallsInv

LEMMA BreakInv == ASSUME CallsInv, NEW c \in Callers, Break(c) PROVE CallsInv'
<1> USE DEF serverVars
<1>1. PICK n \in 0..Len(out[c]) : out' = [out EXCEPT ![c] = SubSeq(@, 1, n)]
  BY DEF Break
<1>2. /\ link[c] = "open" /\ link' = [link EXCEPT ![c] = "closed"]
      /\ unread' \subseteq unread /\ UNCHANGED <<phase, frame, answer, serverVars, events>>
  BY DEF Break
<1>3. out[c] \in Seq(Answers)
  BY DEF CallsInv, TypeOK
<1>4. SubSeq(out[c], 1, n) \in Seq(Answers)
  BY <1>3
<1>5. TypeOK'
  BY <1>1, <1>2, <1>4 DEF CallsInv, TypeOK
<1>6. NothingDone
  BY <1>2 DEF NothingDone
<1>7. OneShutdown'
  BY <1>2 DEF CallsInv, OneShutdown
<1>8. ASSUME NEW d \in Callers \ {c} PROVE CallOK(d)'
  <2>1. out'[d] = out[d] /\ link'[d] = link[d]
    BY <1>1, <1>2 DEF CallsInv, TypeOK
  <2> QED
    BY <1>2, <1>6, <2>1, OthersKept
<1>9. CallOK(c)'
  <2>1. out'[c] = SubSeq(out[c], 1, n) /\ link'[c] = "closed"
    BY <1>1, <1>2 DEF CallsInv, TypeOK
  <2>2. out'[c] # << >> => out[c] # << >> /\ Head(out'[c]) = Head(out[c])
    BY <1>3, <2>1
  <2>3. \A a : Fits(c, a) => Fits(c, a)'
    BY <1>2 DEF Fits
  <2>4. SubsOf(c)' = SubsOf(c)
    BY <1>2 DEF SubsOf
  <2>5. out[c] = << >> => out'[c] = << >>
    BY <2>1, <1>3
  <2> QED
    BY <1>2, <2>1, <2>2, <2>3, <2>4, <2>5 DEF CallsInv, CallOK
<1> QED
  BY <1>5, <1>7, <1>8, <1>9 DEF CallsInv

LEMMA ServerEndsInv == ASSUME CallsInv, BeginClose \/ Stopped \/ Die PROVE CallsInv'
<1> USE DEF callerVars
<1>1. TypeOK'
  BY DEF CallsInv, TypeOK, BeginClose, Stopped, Die
<1>2. NothingDone
  BY DEF NothingDone, BeginClose, Stopped, Die
<1>3. OneShutdown'
  BY <1>2 DEF CallsInv, OneShutdown, NothingDone
<1>4. ASSUME NEW c \in Callers PROVE CallOK(c)'
  <2>1. /\ phase'[c] = phase[c] /\ frame'[c] = frame[c] /\ answer'[c] = answer[c]
        /\ out'[c] = out[c] /\ (c \in unread' => c \in unread)
        /\ link'[c] = link[c] \/ (link[c] = "open" /\ link'[c] = "closed")
    BY <1>4 DEF CallsInv, TypeOK, BeginClose, Stopped, Die
  <2> QED
    BY <1>2, <2>1, OthersKept
<1> QED
  BY <1>1, <1>3, <1>4 DEF CallsInv

LEMMA CallInv ==
    ASSUME CallsInv, NEW c \in Callers, NEW f \in Frames, Call(c, f)
    PROVE  CallsInv'
<1> USE DEF serverVars
<1>1. /\ phase[c] = "new" /\ link' = [link EXCEPT ![c] = "open"]
      /\ phase' = [phase EXCEPT ![c] = "waiting"] /\ frame' = [frame EXCEPT ![c] = f]
      /\ unread' = unread \union {c} /\ UNCHANGED <<out, answer, serverVars, events>>
  BY DEF Call
<1>2. TypeOK'
  BY <1>1 DEF CallsInv, TypeOK
<1>3. NothingDone
  BY <1>1 DEF NothingDone
<1>4. OneShutdown'
  BY <1>1 DEF CallsInv, OneShutdown
<1>5. ASSUME NEW d \in Callers \ {c} PROVE CallOK(d)'
  BY <1>1, <1>3, <1>5, OthersKept DEF CallsInv, TypeOK
<1>6. CallOK(c)'
  <2>1. answer[c] = None /\ did[c] = {} /\ out[c] = << >> /\ SubsOf(c) = {}
    BY <1>1 DEF CallsInv, CallOK
  <2>2. SubsOf(c)' = SubsOf(c)
    BY <1>1 DEF SubsOf
  <2> QED
    BY <1>1, <2>1, <2>2 DEF CallsInv, TypeOK, CallOK
<1> QED
  BY <1>2, <1>4, <1>5, <1>6 DEF CallsInv

-----------------------------------------------------------------------------
(* The step that carries out a request. *)

\* Frames of different kinds and errors of different codes are not the same.
LEMMA FramesDiffer ==
    ASSUME NEW c, NEW x, NEW y
    PROVE  /\ Error(x).kind = "error" /\ Result(c).kind = "result"
           /\ Error(x) # Result(c) /\ (Error(x) = Error(y) => x = y)
<1>1. Error(x).kind = "error" /\ Result(c).kind = "result"
  BY DEF Error, Result
<1>2. Error(x).code = x /\ Error(y).code = y
  BY DEF Error
<1>3. Error(x) = Error(y) => x = y
  BY <1>2
<1> QED
  BY <1>1, <1>3

\* A new number keeps the numbers below the next one.
LEMMA SubsGrow ==
    ASSUME NEW n \in Nat \ {0}, NEW S, S \subseteq (1..(n - 1)) \X Callers,
           NEW c \in Callers, NEW T, T = S \union {<<n, c>>}
    PROVE  T \subseteq (1..n) \X Callers
<1> SUFFICES ASSUME NEW s \in T PROVE s \in (1..n) \X Callers
  OBVIOUS
<1>1. CASE s \in S
  <2>1. PICK i \in 1..(n - 1), d \in Callers : s = <<i, d>>
    BY <1>1
  <2> QED
    BY <2>1
<1>2. CASE s = <<n, c>>
  BY <1>2
<1> QED
  BY <1>1, <1>2

\* What carrying out a request does to the server.
LEMMA PerformDoes ==
    ASSUME CallsInv, NEW c \in Callers, NEW f \in Frames \ {Garbage}, frame[c] = f,
           ErrorOf(f, status) = NoError, did[c] = {}, Perform(c, f)
    PROVE  /\ status' \in {"Running", "ShuttingDown", "Stopped"}
           /\ nextSub' \in Nat \ {0} /\ subs' \subseteq (1..(nextSub' - 1)) \X Callers
           /\ did' \in [Callers -> SUBSET {"shutdown", "subscribe", "unsubscribe"}]
           /\ status # "Running" => status' # "Running"
           /\ \A d \in Callers \ {c} : did'[d] = did[d] /\ SubsOf(d)' \subseteq SubsOf(d)
           /\ Effect(f) \subseteq did'[c]
           /\ "shutdown" \in did'[c] => status = "Running" /\ status' # "Running"
<1>1. f.method \in Methods /\ (f.method = "runtime.shutdown" => status = "Running")
  BY CarriedOut
<1>2. /\ status \in {"Running", "ShuttingDown", "Stopped"} /\ nextSub \in Nat \ {0}
      /\ subs \subseteq (1..(nextSub - 1)) \X Callers
      /\ did \in [Callers -> SUBSET {"shutdown", "subscribe", "unsubscribe"}]
  BY DEF CallsInv, TypeOK
<1>3. CASE f.method = "runtime.shutdown"
  <2>1. /\ status' = "ShuttingDown" /\ UNCHANGED <<nextSub, subs>>
        /\ did' = [did EXCEPT ![c] = @ \union {"shutdown"}]
    BY <1>3 DEF Perform, Reads
  <2>2. \A d : SubsOf(d)' = SubsOf(d)
    BY <2>1 DEF SubsOf
  <2>3. Effect(f) = {"shutdown"}
    BY <1>3 DEF Effect
  <2> QED
    BY <1>1, <1>2, <1>3, <2>1, <2>2, <2>3
<1>4. CASE f.method = "events.subscribe"
  <2>1. /\ subs' = subs \union {<<nextSub, c>>} /\ nextSub' = nextSub + 1
        /\ did' = [did EXCEPT ![c] = @ \union {"subscribe"}] /\ UNCHANGED status
    BY <1>4 DEF Perform, Reads
  <2>2. \A d \in Callers \ {c} : SubsOf(d)' \subseteq SubsOf(d)
    BY <2>1 DEF SubsOf
  <2>3. Effect(f) = {"subscribe"}
    BY <1>4 DEF Effect
  <2>4. nextSub' \in Nat \ {0} /\ subs' \subseteq (1..(nextSub' - 1)) \X Callers
    BY <1>2, <2>1, SubsGrow
  <2>5. did'[c] = {"subscribe"} /\ \A d \in Callers \ {c} : did'[d] = did[d]
    BY <1>2, <2>1
  <2>6. did' \in [Callers -> SUBSET {"shutdown", "subscribe", "unsubscribe"}]
    BY <1>2, <2>1
  <2> QED
    BY <1>2, <2>1, <2>2, <2>3, <2>4, <2>5, <2>6
<1>5. CASE f.method = "events.unsubscribe"
  <2>1. UNCHANGED <<status, nextSub>> /\ subs' \subseteq subs
    BY <1>5 DEF Perform
  <2>2. did' = [did EXCEPT ![c] = {"unsubscribe"}] \/ did' = did
    BY <1>2, <1>5 DEF Perform
  <2>3. Effect(f) = {}
    BY <1>5 DEF Effect
  <2>4. \A d : SubsOf(d)' \subseteq SubsOf(d)
    BY <2>1 DEF SubsOf
  <2>5. /\ did' \in [Callers -> SUBSET {"shutdown", "subscribe", "unsubscribe"}]
        /\ "shutdown" \notin did'[c] /\ \A d \in Callers \ {c} : did'[d] = did[d]
    BY <1>2, <2>2
  <2> QED
    BY <1>2, <2>1, <2>3, <2>4, <2>5
<1>6. CASE f.method \in Reads
  <2>1. UNCHANGED <<status, nextSub, subs, did>>
    BY <1>6 DEF Perform, Reads
  <2>2. Effect(f) = {}
    BY <1>6 DEF Effect, Reads
  <2>3. \A d : SubsOf(d)' = SubsOf(d)
    BY <2>1 DEF SubsOf
  <2> QED
    BY <1>2, <2>1, <2>2, <2>3
<1> QED
  BY <1>1, <1>3, <1>4, <1>5, <1>6 DEF Methods

LEMMA HandleInv == ASSUME CallsInv, NEW c \in Callers, Handle(c) PROVE CallsInv'
<1> DEFINE f == frame[c]
           error == ErrorOf(f, status)
           sent == IF error # NoError THEN Error(error) ELSE Result(c)
<1>1. /\ c \in unread /\ f # Garbage /\ unread' = unread \ {c} /\ Send(c, sent)
      /\ UNCHANGED <<link, phase, frame, answer, server, events>>
      /\ \/ error # NoError /\ UNCHANGED <<status, nextSub, subs, did>>
         \/ error = NoError /\ Perform(c, f)
  BY DEF Handle, Takes
<1>2. /\ f \in Frames \ {Garbage} /\ answer[c] = None /\ did[c] = {} /\ out[c] = << >>
      /\ link[c] # "none" /\ phase[c] # "new"
  BY <1>1 DEF CallsInv, CallOK
<1>3. /\ error \in Codes \union {NoError} /\ (Described(f) <=> error \in {NoError, 1100})
      /\ (error = 1100 => status # "Running") /\ (error = 1200 => Infinite(f))
  BY <1>2, ErrorsFit
<1>4. sent \in Answers
  BY <1>3 DEF Answers
<1>5. /\ status' \in {"Running", "ShuttingDown", "Stopped"}
      /\ nextSub' \in Nat \ {0} /\ subs' \subseteq (1..(nextSub' - 1)) \X Callers
      /\ did' \in [Callers -> SUBSET {"shutdown", "subscribe", "unsubscribe"}]
      /\ status # "Running" => status' # "Running"
      /\ \A d \in Callers \ {c} : did'[d] = did[d] /\ SubsOf(d)' \subseteq SubsOf(d)
      /\ error # NoError => did' = did
      /\ error = NoError => Effect(f) \subseteq did'[c]
      /\ "shutdown" \in did'[c] => status = "Running" /\ status' # "Running"
  <2>1. CASE error # NoError
    BY <1>1, <1>2, <2>1 DEF CallsInv, TypeOK, SubsOf
  <2>2. CASE error = NoError
    BY <1>1, <1>2, <2>2, PerformDoes
  <2> QED
    BY <2>1, <2>2
<1>6. /\ out' \in [Callers -> Seq(Answers)]
      /\ \A d \in Callers \ {c} : out'[d] = out[d]
      /\ out'[c] = IF link[c] = "open" THEN <<sent>> ELSE << >>
  BY <1>1, <1>2, <1>4 DEF Send, CallsInv, TypeOK
<1> HIDE DEF error, sent
<1>7. TypeOK'
  BY <1>1, <1>5, <1>6 DEF CallsInv, TypeOK
<1>8. OneShutdown'
  <2>1. \A d \in Callers \ {c} : "shutdown" \in did[d] => status # "Running"
    BY DEF CallsInv, CallOK
  <2> QED
    BY <1>5, <2>1 DEF CallsInv, OneShutdown
<1>9. ASSUME NEW d \in Callers \ {c} PROVE CallOK(d)'
  <2>1. \A a : Fits(d, a) => Fits(d, a)'
    BY <1>1, <1>5 DEF Fits
  <2> QED
    BY <1>1, <1>5, <1>6, <1>9, <2>1 DEF CallsInv, CallOK
<1>10. ASSUME NEW a, a = sent PROVE Fits(c, a)'
  <2>1. frame'[c] = f
    BY <1>1
  <2>2. CASE error = NoError
    <3>1. a = Result(c) /\ a.kind = "result" /\ \A x : a # Error(x)
      BY <1>10, <2>2, FramesDiffer DEF sent
    <3>2. Described(f) /\ Effect(f) \subseteq did'[c]
      BY <1>3, <1>5, <2>2
    <3> QED
      BY <2>1, <3>1, <3>2 DEF Fits
  <2>3. CASE error # NoError
    <3>1. a = Error(error) /\ error \in Codes /\ a # Result(c)
      BY <1>3, <1>10, <2>3, FramesDiffer DEF sent
    <3>2. did'[c] = {} /\ status' = status
      BY <1>1, <1>2, <2>3
    <3>3. \A x : Error(x) = Error(error) => x = error
      BY FramesDiffer
    <3>4. (a = Error(1100) => error = 1100) /\ (a = Error(1200) => error = 1200)
      BY <3>1, <3>3
    <3>5. error = 1100 => a = Error(1100)
      BY <3>1
    <3> QED
      BY <1>3, <2>1, <2>3, <3>1, <3>2, <3>3, <3>4, <3>5 DEF Fits
  <2> QED
    BY <2>2, <2>3
<1>11. CallOK(c)'
  <2>1. out'[c] # << >> => Head(out'[c]) = sent
    BY <1>6
  <2>2. out'[c] # << >> => Fits(c, Head(out[c]))'
    BY <1>10, <2>1
  <2>3. c \notin unread' /\ link'[c] = link[c] /\ phase'[c] = phase[c] /\ answer'[c] = None
    BY <1>1, <1>2
  <2>4. link'[c] = "open" => out'[c] # << >>
    BY <1>6, <2>3
  <2> QED
    BY <1>2, <1>5, <2>2, <2>3, <2>4 DEF CallOK
<1> QED
  BY <1>7, <1>8, <1>9, <1>11 DEF CallsInv

LEMMA CallsNext == CallsInv /\ [Next]_vars => CallsInv'
<1> SUFFICES ASSUME CallsInv, [Next]_vars PROVE CallsInv'
  OBVIOUS
<1>1. CASE UNCHANGED vars
  BY <1>1 DEF vars, callerVars, serverVars, CallsInv, TypeOK, OneShutdown, CallOK, Fits, SubsOf
<1>2. CASE Next
  BY <1>2, CallInv, QuietInv, HandleInv, BreakInv, ServerEndsInv DEF Next, CallerNext, ServerNext
<1> QED
  BY <1>1, <1>2

-----------------------------------------------------------------------------
(* The theorems. *)

\* The invariant holds in every reachable state.
THEOREM CallsInvariant == Spec => []CallsInv
  BY CallsInit, CallsNext, PTL DEF Spec

\* Connections, calls and the server have their types; in particular every
\* error that is ever sent has one of the contract's codes.
THEOREM CallsTypeCorrect == Spec => []TypeOK
  BY CallsInvariant, PTL DEF CallsInv

\* No call returns what is not the answer to its own request, although
\* notifications share the connection and ids are not compared.
THEOREM AnswersAreOwn == Spec => []AnswerIsOwn
<1>1. CallsInv => AnswerIsOwn
  BY FramesDiffer DEF CallsInv, CallOK, Fits, AnswerIsOwn
<1> QED
  BY <1>1, CallsInvariant, PTL

\* An error means that nothing was changed, exit code 0 that the request was
\* carried out, and a shutdown is carried out once.
THEOREM AnswersTellEffect == Spec => []AnswerTellsEffect
<1>1. ASSUME CallsInv, NEW c \in Callers, answer[c] # None
      PROVE  /\ answer[c].kind = "error" => did[c] = {}
             /\ ExitCode(c) = 0 => Effect(frame[c]) \subseteq did[c]
  <2>1. Fits(c, answer[c])
    BY <1>1 DEF CallsInv, CallOK
  <2>2. ExitCode(c) = 0 => answer[c] = Result(c)
    BY <1>1, <2>1, FramesDiffer DEF Fits, ExitCode
  <2> QED
    BY <2>1, <2>2 DEF Fits
<1>2. CallsInv => AnswerTellsEffect
  BY <1>1 DEF CallsInv, OneShutdown, AnswerTellsEffect
<1> QED
  BY <1>2, CallsInvariant, PTL

\* The code of an error tells whether the request was at fault, the state, or
\* an infinite number, whatever happens to the status meanwhile.
THEOREM CodesFitFaults == Spec => []CodeFitsFault
<1>1. CallsInv => CodeFitsFault
  BY DEF CallsInv, CallOK, Fits, CodeFitsFault
<1> QED
  BY <1>1, CallsInvariant, PTL
=============================================================================
