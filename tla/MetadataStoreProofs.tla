-------------------------- MODULE MetadataStoreProofs --------------------------
(***************************************************************************)
(* What TLAPS proves of the metadata on disk, for every set of processes   *)
(* and every number of agents.                                             *)
(***************************************************************************)
EXTENDS MetadataStore, SequenceTheorems, TLAPS

-----------------------------------------------------------------------------
(* The inductive invariant. *)

\* Every visible file was written and synced before it got its name.
FilesDurable ==
    \A path \in Paths : \A file \in {now[path], disk[path]} :
        file # Absent => file.whole /\ file.synced

\* A process that creates or runs a swarm knows it.
HasMetadata ==
    \A p \in Procs : pc[p] \in {"checked", "saving", "created", "resumed"} =>
        meta[p] \in Records

\* A creating process still has to save the last paths of 0..count, in order,
\* and has saved all others.
SavesInOrder(p) ==
    /\ Len(todo[p]) <= meta[p].count + 1
    /\ \A i \in 1..Len(todo[p]) : todo[p][i] = meta[p].count + i - Len(todo[p])
    /\ \A path \in 0..(meta[p].count - Len(todo[p])) : Exists(path)

\* The invariant that is inductive, however processes overlap.
StoreInv ==
    /\ TypeOK
    /\ FilesDurable
    /\ HasMetadata
    /\ \A p \in Procs : pc[p] = "saving" => SavesInOrder(p)
    /\ CreatedIsComplete

-----------------------------------------------------------------------------
(* Facts about the definitions. *)

LEMMA PathFacts == /\ SwarmPath \in Paths /\ SwarmPath = 0
                   /\ Paths = 0..MaxAgents /\ MaxAgents \in Nat
BY MaxAgentsAssumption DEF Paths, SwarmPath, AgentPaths

\* A renamed file is a typed file, and whole and durable if it was synced.
LEMMA FileFacts ==
    ASSUME NEW record \in Records
    PROVE  /\ File(record, "synced") \in Files
           /\ File(record, "synced") # Absent
           /\ File(record, "synced").whole /\ File(record, "synced").synced
           /\ File(record, "synced").record = record
<1>1. ("synced" \in {"written", "synced"}) = TRUE /\ ("synced" = "synced") = TRUE
  OBVIOUS
<1>2. File(record, "synced") = [record |-> record, whole |-> TRUE, synced |-> TRUE]
  BY <1>1, Zenon DEF File
<1> DEFINE f == [record |-> record, whole |-> TRUE, synced |-> TRUE]
<1>3. f \in Files
  BY DEF Files
<1>4. f.whole /\ f.synced /\ f.record = record
  OBVIOUS
<1> HIDE DEF f
<1>5. f # Absent
  BY <1>3, AbsentAssumption
<1>6. File(record, "synced") = f
  BY <1>2, Zenon DEF f
<1> QED
  BY <1>3, <1>4, <1>5, <1>6, Zenon

\* A power failure leaves durable files as they are.
LEMMA TornFacts ==
    ASSUME NEW file, file # Absent => file.synced
    PROVE  Torn(file) = file
BY DEF Torn

\* The path saved next, and what is left afterwards.
LEMMA TodoFacts ==
    ASSUME StoreInv, NEW p \in Procs, pc[p] = "saving", todo[p] # << >>
    PROVE  LET path == Head(todo[p])
               n    == Len(todo[p])
               rest == Tail(todo[p])
           IN  /\ n \in Nat /\ n >= 1 /\ meta[p] \in Records /\ meta[p].count \in Nat
               /\ path \in Paths /\ path = meta[p].count + 1 - n
               /\ rest \in Seq(Paths) /\ Len(rest) = n - 1
               /\ \A i \in 1..(n - 1) : rest[i] = todo[p][i + 1]
<1>1. todo[p] \in Seq(Paths) /\ meta[p] \in Records /\ SavesInOrder(p)
  BY DEF StoreInv, TypeOK, HasMetadata
<1>2. meta[p].count \in Nat
  BY <1>1, MaxAgentsAssumption DEF Records
<1>3. /\ Len(todo[p]) \in Nat /\ Len(todo[p]) >= 1
      /\ Head(todo[p]) \in Paths /\ Head(todo[p]) = todo[p][1]
      /\ Tail(todo[p]) \in Seq(Paths) /\ Len(Tail(todo[p])) = Len(todo[p]) - 1
      /\ \A i \in 1..(Len(todo[p]) - 1) : Tail(todo[p])[i] = todo[p][i + 1]
  BY <1>1, HeadTailProperties, EmptySeq, LenProperties
<1>4. todo[p][1] = meta[p].count + 1 - Len(todo[p])
  BY <1>1, <1>3 DEF SavesInOrder
<1> QED
  BY <1>1, <1>2, <1>3, <1>4

\* The paths of a swarm, as a create is going to save them.
LEMMA PathListFacts ==
    ASSUME NEW count \in 0..MaxAgents
    PROVE  LET paths == [i \in 1..(count + 1) |-> i - 1]
           IN  paths \in Seq(Paths) /\ Len(paths) = count + 1
<1> DEFINE n == count + 1
           paths == [i \in 1..n |-> i - 1]
<1>1. n \in Nat /\ \A i \in 1..n : i - 1 \in Paths
  BY PathFacts
<1>2. paths \in [1..n -> Paths] /\ DOMAIN paths = 1..n
  BY <1>1
<1> HIDE DEF paths, n
<1>3. paths \in Seq(Paths)
  BY <1>1, <1>2, SeqDef
<1>4. DOMAIN paths = 1..Len(paths) /\ Len(paths) \in Nat
  BY <1>3, LenProperties
<1>5. Len(paths) = n
  BY <1>1, <1>2, <1>4
<1> QED
  BY <1>3, <1>5 DEF paths, n

-----------------------------------------------------------------------------
(* The steps. *)

LEMMA InitStoreInv == Init => StoreInv
<1> SUFFICES ASSUME Init PROVE StoreInv
  OBVIOUS
<1>1. << >> \in Seq(Paths)
  BY EmptySeq
<1>2. TypeOK
  BY <1>1 DEF Init, TypeOK, Places, Value
<1> QED
  BY <1>2 DEF Init, StoreInv, FilesDurable, HasMetadata, CreatedIsComplete

\* The steps that change no file and put a process in a place where nothing
\* is asked of it but its metadata.
LEMMA ProcessStepInv ==
    ASSUME StoreInv, NEW p \in Procs, UNCHANGED <<todo, fileVars>>,
           NEW place \in Places \ {"saving", "created"},
           pc' = [pc EXCEPT ![p] = place],
           NEW m \in Records \union {Absent}, meta' = [meta EXCEPT ![p] = m],
           place \in {"checked", "resumed"} => m \in Records,
           tmp' \in [Procs -> {"none", "empty", "written", "synced"}]
    PROVE  StoreInv'
<1>1. TypeOK /\ TypeOK'
  BY DEF StoreInv, TypeOK, fileVars
<1>2. FilesDurable' /\ HasMetadata'
  BY <1>1 DEF StoreInv, FilesDurable, HasMetadata, TypeOK, fileVars
<1>3. \A q \in Procs : pc'[q] \in {"saving", "created"} => /\ pc'[q] = pc[q] /\ meta'[q] = meta[q]
                                                           /\ todo'[q] = todo[q]
  BY <1>1 DEF TypeOK
<1>4. CreatedIsComplete'
  BY <1>3 DEF StoreInv, CreatedIsComplete, Exists, fileVars
<1>5. \A q \in Procs : pc'[q] = "saving" => SavesInOrder(q)'
  BY <1>3 DEF StoreInv, SavesInOrder, Exists, fileVars
<1> QED
  BY <1>1, <1>2, <1>4, <1>5 DEF StoreInv

LEMMA CheckCreateInv ==
    ASSUME StoreInv, NEW p \in Procs, NEW count \in 0..MaxAgents, CheckCreate(p, count)
    PROVE  StoreInv'
<1> DEFINE m == [by |-> p, count |-> count]
<1>1. m \in Records /\ TypeOK
  BY DEF Records, StoreInv
<1>2. CASE Exists(SwarmPath)
  <2>1. meta' = [meta EXCEPT ![p] = meta[p]] /\ meta[p] \in Records \union {Absent}
    BY <1>1, <1>2 DEF CheckCreate, TypeOK
  <2> QED
    BY <1>1, <1>2, <2>1, ProcessStepInv DEF CheckCreate, Goto, Places, TypeOK
<1>3. CASE ~Exists(SwarmPath)
  BY <1>1, <1>3, ProcessStepInv DEF CheckCreate, Goto, Places, Live, TypeOK
<1> QED
  BY <1>2, <1>3

LEMMA BeginSavesInv ==
    ASSUME StoreInv, NEW p \in Procs, BeginSaves(p)
    PROVE  StoreInv'
<1> DEFINE n == meta[p].count + 1
           paths == [i \in 1..n |-> i - 1]
<1>1. TypeOK /\ meta[p] \in Records
  BY DEF StoreInv, HasMetadata, BeginSaves
<1>2. meta[p].count \in 0..MaxAgents /\ n \in Nat /\ n = meta[p].count + 1
  BY <1>1, MaxAgentsAssumption DEF Records
<1>3. /\ pc' = [pc EXCEPT ![p] = "saving"] /\ todo' = [todo EXCEPT ![p] = paths]
      /\ UNCHANGED <<meta, tmp, now, disk>>
  BY DEF BeginSaves, Goto, fileVars
<1>4. \A i \in 1..n : paths[i] = i - 1
  OBVIOUS
<1>5. paths \in Seq(Paths) /\ Len(paths) = n
  BY <1>2, PathListFacts
<1> HIDE DEF n, paths
<1>6. TypeOK'
  BY <1>1, <1>3, <1>5 DEF TypeOK, Places, Live
<1>7. FilesDurable' /\ HasMetadata'
  BY <1>1, <1>3 DEF StoreInv, FilesDurable, HasMetadata, TypeOK
<1>8. CreatedIsComplete'
  BY <1>1, <1>3 DEF StoreInv, CreatedIsComplete, Exists, TypeOK
<1>9. \A q \in Procs : pc'[q] = "saving" => SavesInOrder(q)'
  <2>1. SavesInOrder(p)'
    <3>1. todo'[p] = paths /\ meta'[p] = meta[p]
      BY <1>1, <1>3 DEF TypeOK
    <3>2. \A i \in 1..Len(paths) : paths[i] = meta[p].count + i - Len(paths)
      BY <1>2, <1>4, <1>5
    <3>3. meta[p].count - Len(paths) < 0
      BY <1>2, <1>5
    <3> QED
      BY <1>2, <1>5, <3>1, <3>2, <3>3 DEF SavesInOrder
  <2>2. ASSUME NEW q \in Procs, q # p, pc'[q] = "saving" PROVE SavesInOrder(q)'
    BY <1>1, <1>3, <2>2 DEF StoreInv, SavesInOrder, Exists, TypeOK
  <2> QED
    BY <2>1, <2>2
<1> QED
  BY <1>6, <1>7, <1>8, <1>9 DEF StoreInv

\* The rename: the next path gets a whole and durable file.
LEMMA ReplaceInv ==
    ASSUME StoreInv, NEW p \in Procs, Replace(p)
    PROVE  StoreInv'
<1> DEFINE path0 == Head(todo[p])
           n == Len(todo[p])
           file == File(meta[p], "synced")
<1>1. /\ TypeOK /\ FilesDurable /\ pc[p] = "saving" /\ todo[p] # << >>
      /\ now' = [now EXCEPT ![path0] = file]
      /\ tmp' = [tmp EXCEPT ![p] = "none"]
      /\ todo' = [todo EXCEPT ![p] = Tail(todo[p])]
      /\ UNCHANGED <<pc, meta, disk>>
  BY DEF StoreInv, Replace, ReplaceAt, Saves
<1>2. /\ n \in Nat /\ n >= 1 /\ meta[p] \in Records /\ meta[p].count \in Nat
      /\ path0 \in Paths /\ path0 = meta[p].count + 1 - n
      /\ Tail(todo[p]) \in Seq(Paths) /\ Len(Tail(todo[p])) = n - 1
      /\ \A i \in 1..(n - 1) : Tail(todo[p])[i] = todo[p][i + 1]
  BY <1>1, TodoFacts
<1>3. file \in Files /\ file # Absent /\ file.whole /\ file.synced
  BY <1>2, FileFacts
<1>4. SavesInOrder(p)
  BY <1>1 DEF StoreInv
<1> HIDE DEF path0, file
<1>5. TypeOK'
  BY <1>1, <1>2, <1>3 DEF TypeOK, Value
<1>6. FilesDurable'
  BY <1>1, <1>2, <1>3 DEF TypeOK, FilesDurable
<1>7. HasMetadata'
  BY <1>1 DEF StoreInv, HasMetadata
<1>8. \A path \in Paths : Exists(path) => Exists(path)'
  BY <1>1, <1>3 DEF TypeOK, Exists
<1>9. now'[path0] # Absent
  BY <1>1, <1>2, <1>3 DEF TypeOK
<1>10. \A q \in Procs : meta[q] \in Records => 0..meta[q].count \subseteq Paths
  BY PathFacts DEF Records
<1>11. CreatedIsComplete'
  <2> SUFFICES ASSUME NEW q \in Procs, pc[q] = "created", NEW path \in 0..meta[q].count
               PROVE  Exists(path)'
    BY <1>1 DEF CreatedIsComplete
  <2>1. path \in Paths /\ Exists(path)
    BY <1>10 DEF StoreInv, CreatedIsComplete, HasMetadata
  <2> QED
    BY <1>8, <2>1
<1>12. SavesInOrder(p)'
  <2>1. todo'[p] = Tail(todo[p]) /\ meta'[p] = meta[p]
    BY <1>1 DEF TypeOK
  <2>2. Len(todo'[p]) = n - 1 /\ n - 1 <= meta[p].count + 1
    BY <1>2, <1>4, <2>1 DEF SavesInOrder
  <2>3. ASSUME NEW i \in 1..(n - 1) PROVE todo'[p][i] = meta[p].count + i - (n - 1)
    <3>1. i + 1 \in 1..n /\ todo'[p][i] = todo[p][i + 1]
      BY <1>2, <2>1
    <3>2. todo[p][i + 1] = meta[p].count + (i + 1) - n
      BY <1>4, <3>1 DEF SavesInOrder
    <3> QED
      BY <1>2, <3>1, <3>2
  <2>4. ASSUME NEW path \in 0..(meta[p].count - (n - 1)) PROVE Exists(path)'
    <3>1. path = path0 \/ path \in 0..(meta[p].count - n)
      BY <1>2
    <3>2. CASE path \in 0..(meta[p].count - n)
      <4>1. Exists(path)
        BY <1>4, <3>2 DEF SavesInOrder
      <4>2. path \in 0..meta[p].count
        BY <1>2, <3>2
      <4> QED
        BY <1>2, <1>8, <1>10, <4>1, <4>2
    <3> QED
      BY <1>9, <3>1, <3>2 DEF Exists
  <2> QED
    BY <2>1, <2>2, <2>3, <2>4 DEF SavesInOrder
<1>13. ASSUME NEW q \in Procs, q # p, pc'[q] = "saving" PROVE SavesInOrder(q)'
  <2>1. /\ SavesInOrder(q) /\ meta[q] \in Records /\ meta'[q] = meta[q] /\ todo'[q] = todo[q]
        /\ Len(todo[q]) \in Nat
    BY <1>1, <1>13, LenProperties DEF StoreInv, HasMetadata, TypeOK
  <2>2. ASSUME NEW path \in 0..(meta[q].count - Len(todo[q])) PROVE Exists(path)'
    <3>1. Exists(path)
      BY <2>1 DEF SavesInOrder
    <3>2. path \in 0..meta[q].count
      BY <2>1, MaxAgentsAssumption DEF Records
    <3> QED
      BY <1>8, <1>10, <2>1, <3>1, <3>2
  <2> QED
    BY <2>1, <2>2 DEF SavesInOrder
<1> QED
  BY <1>1, <1>5, <1>6, <1>7, <1>11, <1>12, <1>13 DEF StoreInv

LEMMA CreatedInv ==
    ASSUME StoreInv, NEW p \in Procs, Created(p)
    PROVE  StoreInv'
<1>1. /\ TypeOK /\ pc[p] = "saving" /\ todo[p] = << >> /\ SavesInOrder(p) /\ meta[p] \in Records
      /\ pc' = [pc EXCEPT ![p] = "created"] /\ UNCHANGED <<meta, todo, tmp, now, disk>>
  BY DEF StoreInv, HasMetadata, Created, Goto, fileVars
<1>2. meta[p].count \in Nat /\ Len(todo[p]) = 0
  BY <1>1, MaxAgentsAssumption, EmptySeq DEF Records
<1>3. \A path \in 0..meta[p].count : Exists(path)
  BY <1>1, <1>2 DEF SavesInOrder
<1>4. TypeOK' /\ FilesDurable' /\ HasMetadata'
  BY <1>1 DEF StoreInv, TypeOK, FilesDurable, HasMetadata, Places, Live
<1>5. CreatedIsComplete'
  BY <1>1, <1>3 DEF StoreInv, CreatedIsComplete, Exists, TypeOK
<1>6. \A q \in Procs : pc'[q] = "saving" => SavesInOrder(q)'
  BY <1>1 DEF StoreInv, SavesInOrder, Exists, TypeOK
<1> QED
  BY <1>4, <1>5, <1>6 DEF StoreInv

\* The disk survives a power failure whole, and no process does.
LEMMA PowerFailureInv == StoreInv /\ PowerFailure => StoreInv'
<1> SUFFICES ASSUME StoreInv, PowerFailure PROVE StoreInv'
  OBVIOUS
<1>1. /\ TypeOK /\ FilesDurable
      /\ pc' = [p \in Procs |-> IF pc[p] \in Live THEN "dead" ELSE pc[p]]
      /\ tmp' = [p \in Procs |-> "none"] /\ disk' = now' /\ UNCHANGED <<meta, todo>>
  BY DEF StoreInv, PowerFailure
<1>2. now' = [path \in Paths |-> Torn(disk[path])]
  BY DEF PowerFailure
<1>3. \A path \in Paths : now'[path] = disk[path]
  BY <1>1, <1>2, TornFacts DEF FilesDurable
<1>4. \A p \in Procs : pc'[p] \notin Live
  BY <1>1 DEF Live
<1>5. TypeOK'
  BY <1>1, <1>2, <1>3 DEF TypeOK, Places
<1>6. FilesDurable'
  BY <1>1, <1>3 DEF FilesDurable
<1> QED
  BY <1>4, <1>5, <1>6 DEF StoreInv, HasMetadata, CreatedIsComplete, Live

LEMMA NextStoreInv == StoreInv /\ [Next]_vars => StoreInv'
<1> SUFFICES ASSUME StoreInv, [Next]_vars PROVE StoreInv'
  OBVIOUS
<1>1. TypeOK
  BY DEF StoreInv
<1>2. ASSUME NEW p \in Procs, NEW count \in 0..MaxAgents, CheckCreate(p, count) PROVE StoreInv'
  BY <1>2, CheckCreateInv
<1>3. ASSUME NEW p \in Procs, BeginSaves(p) PROVE StoreInv'
  BY <1>3, BeginSavesInv
<1>4. ASSUME NEW p \in Procs, MkTemp(p) \/ WriteTmp(p) \/ Fsync(p) PROVE StoreInv'
  <2>1. /\ tmp' \in [Procs -> {"none", "empty", "written", "synced"}]
        /\ UNCHANGED <<pc, meta, todo, now, disk>>
    BY <1>1, <1>4 DEF MkTemp, WriteTmp, Fsync, Stage, TypeOK, fileVars
  <2> QED
    BY <1>1, <2>1 DEF StoreInv, TypeOK, FilesDurable, HasMetadata, SavesInOrder,
                      CreatedIsComplete, Exists
<1>5. ASSUME NEW p \in Procs, Replace(p) PROVE StoreInv'
  BY <1>5, ReplaceInv
<1>6. ASSUME NEW p \in Procs, SaveFails(p) \/ Exit(p) PROVE StoreInv'
  <2>1. PICK place \in {"failed", "dead"} : pc' = [pc EXCEPT ![p] = place]
    BY <1>6 DEF SaveFails, Exit, Goto
  <2>2. /\ tmp' \in [Procs -> {"none", "empty", "written", "synced"}]
        /\ UNCHANGED <<meta, todo, fileVars>>
    BY <1>1, <1>6 DEF SaveFails, Exit, TypeOK
  <2>3. meta' = [meta EXCEPT ![p] = meta[p]] /\ meta[p] \in Records \union {Absent}
    BY <1>1, <2>2 DEF TypeOK
  <2> QED
    BY <2>1, <2>2, <2>3, ProcessStepInv DEF Places
<1>7. ASSUME NEW p \in Procs, Created(p) PROVE StoreInv'
  BY <1>7, CreatedInv
<1>8. ASSUME NEW p \in Procs, CheckResume(p) PROVE StoreInv'
  <2>1. meta' = [meta EXCEPT ![p] = meta[p]] /\ meta[p] \in Records \union {Absent}
    BY <1>1, <1>8 DEF CheckResume, TypeOK
  <2>2. PICK place \in {"resuming", "refused"} : pc' = [pc EXCEPT ![p] = place]
    BY <1>8 DEF CheckResume, Goto
  <2>3. UNCHANGED <<todo, fileVars>> /\ tmp' \in [Procs -> {"none", "empty", "written", "synced"}]
    BY <1>1, <1>8 DEF CheckResume, TypeOK
  <2> QED
    BY <2>1, <2>2, <2>3, ProcessStepInv DEF Places, Live
<1>9. ASSUME NEW p \in Procs, LoadSwarm(p) PROVE StoreInv'
  <2>1. UNCHANGED <<todo, fileVars>> /\ tmp' \in [Procs -> {"none", "empty", "written", "synced"}]
    BY <1>1, <1>9 DEF LoadSwarm, TypeOK
  <2>2. CASE Exists(SwarmPath) /\ now[SwarmPath].whole
    <3>1. now[SwarmPath].record \in Records
      BY <1>1, <2>2, PathFacts DEF Exists, TypeOK, Value, Files
    <3> QED
      BY <1>9, <2>1, <2>2, <3>1, ProcessStepInv DEF LoadSwarm, Goto, Places, Live
  <2>3. CASE ~(Exists(SwarmPath) /\ now[SwarmPath].whole)
    <3>1. meta' = [meta EXCEPT ![p] = meta[p]] /\ meta[p] \in Records \union {Absent}
      BY <1>1, <1>9, <2>3 DEF LoadSwarm, TypeOK
    <3> QED
      BY <1>9, <2>1, <2>3, <3>1, ProcessStepInv DEF LoadSwarm, Goto, Places
  <2> QED
    BY <2>2, <2>3
<1>10. ASSUME NEW path \in Paths, FlushDir(path) PROVE StoreInv'
  BY <1>1, <1>10 DEF FlushDir, StoreInv, TypeOK, FilesDurable, HasMetadata, SavesInOrder,
                     CreatedIsComplete, Exists
<1>11. CASE PowerFailure
  BY <1>11, PowerFailureInv
<1>12. CASE UNCHANGED vars
  BY <1>12 DEF vars, fileVars, StoreInv, TypeOK, FilesDurable, HasMetadata, SavesInOrder,
               CreatedIsComplete, Exists
<1> QED
  BY <1>2, <1>3, <1>4, <1>5, <1>6, <1>7, <1>8, <1>9, <1>10, <1>11, <1>12 DEF Next

-----------------------------------------------------------------------------
(* The theorems. *)

\* Every reachable state satisfies the inductive invariant.
THEOREM StoreInvariant == Spec => []StoreInv
<1> QED
  BY InitStoreInv, NextStoreInv, PTL DEF Spec

\* Files and processes are well typed.
THEOREM StoreTypeCorrect == Spec => []TypeOK
<1>1. StoreInv => TypeOK
  BY DEF StoreInv
<1> QED
  BY <1>1, StoreInvariant, PTL

\* A reader finds no file or a whole one, whatever is killed, fails or loses
\* power and however many processes write.
THEOREM FilesNeverTorn == Spec => []NeverTorn
<1>1. StoreInv => NeverTorn
  BY DEF StoreInv, FilesDurable, NeverTorn
<1> QED
  BY <1>1, StoreInvariant, PTL

\* A create that succeeded has left a file for the swarm and for every agent.
THEOREM CreateIsComplete == Spec => []CreatedIsComplete
<1>1. StoreInv => CreatedIsComplete
  BY DEF StoreInv
<1> QED
  BY <1>1, StoreInvariant, PTL

-----------------------------------------------------------------------------
(* The files are registers of whole records. *)

LEMMA InitImplements == Init => Store!StoreInit
BY DEF Init, Store!StoreInit, Registers, Register

\* What the registers show of a path.
LEMMA RegisterFacts ==
    ASSUME StoreInv, NEW path \in Paths
    PROVE  /\ Register(now[path]) = IF Exists(path) THEN now[path].record ELSE Absent
           /\ Exists(path) => now[path].record \in Records /\ now[path].whole
           /\ Registers[path] = [now |-> Register(now[path]), disk |-> Register(disk[path])]
<1>1. now[path] \in Value
  BY DEF StoreInv, TypeOK
<1>2. Exists(path) => now[path].whole /\ now[path].record \in Records
  BY <1>1 DEF StoreInv, FilesDurable, Exists, Value, Files
<1> QED
  BY <1>2 DEF Register, Registers, Exists

\* A rename is the save of one register.
LEMMA ReplaceImplements ==
    ASSUME StoreInv, NEW p \in Procs, Replace(p)
    PROVE  Store!Save(p, Head(todo[p]))
<1> DEFINE path0 == Head(todo[p])
           file == File(meta[p], "synced")
<1>1. /\ TypeOK /\ pc[p] = "saving" /\ todo[p] # << >>
      /\ now' = [now EXCEPT ![path0] = file]
      /\ disk' = disk /\ meta' = meta
  BY DEF StoreInv, Replace, ReplaceAt, Saves
<1>2. path0 \in Paths /\ meta[p] \in Records
  BY <1>1, TodoFacts
<1>3. Register(file) = meta[p]
  BY <1>2, FileFacts DEF Register
<1> HIDE DEF path0, file
<1>4. now'[path0] = file
  BY <1>1, <1>2 DEF TypeOK
<1>5. \A path \in Paths : path # path0 => now'[path] = now[path]
  BY <1>1 DEF TypeOK
<1>6. Registers' = [Registers EXCEPT ![path0].now = meta[p]]
  <2>1. Registers' = [path \in Paths |->
                        [now |-> Register(now'[path]), disk |-> Register(disk'[path])]]
    BY DEF Registers, Register
  <2> QED
    BY <1>1, <1>2, <1>3, <1>4, <1>5, <2>1 DEF Registers
<1> QED
  BY <1>1, <1>2, <1>6 DEF Store!Save, path0

\* Every step of the processes and of the world is a step of the registers,
\* or changes nothing that a user of the store can see.
LEMMA NextImplements == StoreInv /\ [Next]_vars => [Store!StoreNext]_<<Registers, meta>>
<1> SUFFICES ASSUME StoreInv, [Next]_vars
             PROVE  Store!StoreNext \/ UNCHANGED <<Registers, meta>>
  OBVIOUS
<1>1. TypeOK
  BY DEF StoreInv
<1>2. ASSUME UNCHANGED <<now, disk>> PROVE UNCHANGED Registers
  BY <1>2 DEF Registers, Register
<1>3. ASSUME NEW p \in Procs, NEW count \in 0..MaxAgents, CheckCreate(p, count)
      PROVE  Store!StoreNext \/ UNCHANGED <<Registers, meta>>
  <2>1. UNCHANGED Registers
    BY <1>2, <1>3 DEF CheckCreate, fileVars
  <2>2. CASE Exists(SwarmPath)
    BY <1>3, <2>1, <2>2 DEF CheckCreate
  <2>3. CASE ~Exists(SwarmPath)
    <3>1. [by |-> p, count |-> count] \in Records
      BY DEF Records
    <3>2. Store!Choose(p)
      BY <1>3, <2>1, <2>3, <3>1 DEF CheckCreate, Store!Choose
    <3> QED
      BY <3>2 DEF Store!StoreNext
  <2> QED
    BY <2>2, <2>3
<1>4. ASSUME NEW p \in Procs,
             BeginSaves(p) \/ MkTemp(p) \/ WriteTmp(p) \/ Fsync(p) \/ SaveFails(p)
               \/ Created(p) \/ CheckResume(p) \/ Exit(p)
      PROVE  UNCHANGED <<Registers, meta>>
  BY <1>2, <1>4 DEF BeginSaves, MkTemp, WriteTmp, Fsync, Stage, SaveFails, Created,
                    CheckResume, Exit, fileVars
<1>5. ASSUME NEW p \in Procs, Replace(p) PROVE Store!StoreNext
  <2>1. Head(todo[p]) \in Paths
    BY <1>5, TodoFacts DEF Replace, ReplaceAt, Saves
  <2>2. Store!Save(p, Head(todo[p]))
    BY <1>5, ReplaceImplements
  <2> QED
    BY <2>1, <2>2 DEF Store!StoreNext
<1>6. ASSUME NEW p \in Procs, LoadSwarm(p)
      PROVE  Store!StoreNext \/ UNCHANGED <<Registers, meta>>
  <2>1. UNCHANGED Registers
    BY <1>2, <1>6 DEF LoadSwarm, fileVars
  <2>2. CASE Exists(SwarmPath) /\ now[SwarmPath].whole
    <3>1. Registers[SwarmPath].now = now[SwarmPath].record /\ now[SwarmPath].record \in Records
      <4>1. SwarmPath \in Paths /\ Exists(SwarmPath)
        BY <2>2, PathFacts
      <4>2. /\ Register(now[SwarmPath]) = now[SwarmPath].record
            /\ now[SwarmPath].record \in Records
        BY <4>1, RegisterFacts
      <4>3. Registers[SwarmPath].now = Register(now[SwarmPath])
        BY <4>1 DEF Registers
      <4> QED
        BY <4>2, <4>3
    <3>2. Store!Load(p)
      BY <1>6, <2>1, <2>2, <3>1 DEF LoadSwarm, Store!Load
    <3> QED
      BY <3>2 DEF Store!StoreNext
  <2>3. CASE ~(Exists(SwarmPath) /\ now[SwarmPath].whole)
    BY <1>6, <2>1, <2>3 DEF LoadSwarm
  <2> QED
    BY <2>2, <2>3
<1>7. ASSUME NEW path0 \in Paths, FlushDir(path0) PROVE Store!StoreNext
  <2>1. /\ now' = now /\ meta' = meta /\ disk'[path0] = now[path0]
        /\ \A path \in Paths : path # path0 => disk'[path] = disk[path]
    BY <1>1, <1>7 DEF FlushDir, TypeOK
  <2>2. Registers' = [path \in Paths |->
                        [now |-> Register(now'[path]), disk |-> Register(disk'[path])]]
    BY DEF Registers, Register
  <2>3. Registers' = [Registers EXCEPT ![path0].disk = Registers[path0].now]
    BY <2>1, <2>2 DEF Registers
  <2>4. Store!Settle(path0)
    BY <2>1, <2>3 DEF Store!Settle
  <2> QED
    BY <2>4 DEF Store!StoreNext
<1>8. CASE PowerFailure
  <2>1. now' = [path \in Paths |-> Torn(disk[path])]
    BY <1>8 DEF PowerFailure
  <2>2. \A path \in Paths : now'[path] = disk[path]
    BY <2>1, TornFacts DEF StoreInv, FilesDurable
  <2>3. meta' = meta /\ disk' = now'
    BY <1>8 DEF PowerFailure
  <2>4. Registers' = [path \in Paths |->
                        [now |-> Register(now'[path]), disk |-> Register(disk'[path])]]
    BY DEF Registers, Register
  <2>5. Registers' = [path \in Paths |->
                        [now |-> Registers[path].disk, disk |-> Registers[path].disk]]
    BY <2>2, <2>3, <2>4 DEF Registers
  <2>6. Store!PowerFailure
    BY <2>3, <2>5 DEF Store!PowerFailure
  <2> QED
    BY <2>6 DEF Store!StoreNext
<1>9. CASE UNCHANGED vars
  BY <1>2, <1>9 DEF vars, fileVars
<1> QED
  BY <1>3, <1>4, <1>5, <1>6, <1>7, <1>8, <1>9 DEF Next

\* The file operations, with kills, failing writes and power failures between
\* any two of them, implement registers of whole records.
THEOREM StoreImplementsRegisters == Spec => ImplementsStore
<1> QED
  BY StoreInvariant, InitImplements, NextImplements, PTL
     DEF Spec, ImplementsStore, Store!StoreSpec

-----------------------------------------------------------------------------
(* Processes that do not overlap. *)

\* What a live process knows of swarm.json: a create finds it missing until it
\* saves it itself, and a daemon works with what it says.
DiskAgrees(p) ==
    /\ pc[p] = "checked" => ~Exists(SwarmPath)
    /\ pc[p] = "saving" /\ Len(todo[p]) = meta[p].count + 1 => ~Exists(SwarmPath)
    /\ \/ pc[p] = "saving" /\ Len(todo[p]) # meta[p].count + 1
       \/ pc[p] \in {"created", "resumed"}
       => Exists(SwarmPath) /\ now[SwarmPath].record = meta[p]

\* The invariant that is inductive when one process runs at a time.
AloneInv ==
    /\ \A p, q \in Procs : pc[p] \in Live /\ pc[q] \in Live => p = q
    /\ \A p \in Procs : DiskAgrees(p)

LEMMA InitAlone == Init => AloneInv
BY DEF Init, AloneInv, DiskAgrees, Live

\* While a process steps that is, or becomes, the only one alive, nothing has
\* to be shown of the others.
LEMMA OnlyProcess ==
    ASSUME TypeOK, AloneInv, NEW p \in Procs, NEW place, pc' = [pc EXCEPT ![p] = place],
           pc[p] \in Live \/ \A q \in Procs : pc[q] \notin Live,
           DiskAgrees(p)'
    PROVE  AloneInv'
<1>1. \A q \in Procs : q # p => pc'[q] \notin Live
  BY DEF AloneInv, TypeOK
<1>2. \A q \in Procs : q # p => DiskAgrees(q)'
  BY <1>1 DEF DiskAgrees, Live
<1> QED
  BY <1>1, <1>2 DEF AloneInv

LEMMA ReplaceAlone ==
    ASSUME StoreInv, AloneInv, NEW p \in Procs, Replace(p)
    PROVE  /\ DiskAgrees(p)'
           /\ Exists(SwarmPath) => now'[SwarmPath] = now[SwarmPath]
<1> DEFINE path0 == Head(todo[p])
           n == Len(todo[p])
           file == File(meta[p], "synced")
<1>1. /\ TypeOK /\ pc[p] = "saving" /\ todo[p] # << >> /\ pc' = pc /\ meta' = meta
      /\ now' = [now EXCEPT ![path0] = file]
      /\ todo' = [todo EXCEPT ![p] = Tail(todo[p])]
  BY DEF StoreInv, Replace, ReplaceAt, Saves
<1>2. /\ n \in Nat /\ n >= 1 /\ meta[p] \in Records /\ meta[p].count \in Nat
      /\ path0 \in Paths /\ path0 = meta[p].count + 1 - n
      /\ Len(Tail(todo[p])) = n - 1
  BY <1>1, TodoFacts
<1>3. file # Absent /\ file.record = meta[p]
  BY <1>2, FileFacts
<1>4. n <= meta[p].count + 1
  BY <1>1 DEF StoreInv, SavesInOrder
<1>5. DiskAgrees(p) /\ SwarmPath \in Paths /\ SwarmPath = 0
  BY PathFacts DEF AloneInv
<1> HIDE DEF path0, file, n
<1>6. todo'[p] = Tail(todo[p]) /\ Len(todo'[p]) # meta[p].count + 1
  BY <1>1, <1>2, <1>4 DEF TypeOK
<1>7. CASE n = meta[p].count + 1
  <2>1. path0 = SwarmPath
    BY <1>2, <1>5, <1>7
  <2>2. ~Exists(SwarmPath)
    BY <1>1, <1>5, <1>7 DEF DiskAgrees, n
  <2>3. now'[SwarmPath] = file
    BY <1>1, <1>5, <2>1 DEF TypeOK
  <2> QED
    BY <1>1, <1>3, <1>6, <2>2, <2>3 DEF DiskAgrees, Exists
<1>8. CASE n # meta[p].count + 1
  <2>1. path0 # SwarmPath
    BY <1>2, <1>5, <1>8
  <2>2. now'[SwarmPath] = now[SwarmPath]
    BY <1>1, <1>5, <2>1 DEF TypeOK
  <2>3. Exists(SwarmPath) /\ now[SwarmPath].record = meta[p]
    BY <1>1, <1>5, <1>8 DEF DiskAgrees, n
  <2> QED
    BY <1>1, <1>6, <2>2, <2>3 DEF DiskAgrees, Exists
<1> QED
  BY <1>7, <1>8

\* What a step may do to swarm.json.
KeepsSwarm == Exists(SwarmPath) => now'[SwarmPath] \in {now[SwarmPath], disk[SwarmPath]}

LEMMA NextAlone ==
    ASSUME ~Overlap
    PROVE  StoreInv /\ AloneInv /\ [Next]_vars => AloneInv' /\ KeepsSwarm
<1> SUFFICES ASSUME StoreInv, AloneInv, [Next]_vars PROVE AloneInv' /\ KeepsSwarm
  OBVIOUS
<1>1. TypeOK /\ \A p \in Procs : DiskAgrees(p)
  BY DEF StoreInv, AloneInv
<1>2. ASSUME NEW p \in Procs, NEW count \in 0..MaxAgents, CheckCreate(p, count)
      PROVE  AloneInv' /\ KeepsSwarm
  <2>1. (\A q \in Procs : pc[q] \notin Live) /\ now' = now
    BY <1>2 DEF CheckCreate, MayStart, fileVars
  <2>2. PICK place \in {"refused", "checked"} :
          /\ pc' = [pc EXCEPT ![p] = place]
          /\ place = "checked" => ~Exists(SwarmPath)
    BY <1>2 DEF CheckCreate, Goto
  <2>3. DiskAgrees(p)'
    BY <1>1, <2>1, <2>2 DEF DiskAgrees, Exists, TypeOK
  <2> QED
    BY <1>1, <2>1, <2>2, <2>3, OnlyProcess DEF KeepsSwarm
<1>3. ASSUME NEW p \in Procs, BeginSaves(p) PROVE AloneInv' /\ KeepsSwarm
  <2>1. /\ pc[p] = "checked" /\ pc' = [pc EXCEPT ![p] = "saving"] /\ now' = now
        /\ todo'[p] = [i \in 1..(meta[p].count + 1) |-> i - 1] /\ meta' = meta
    BY <1>1, <1>3 DEF BeginSaves, Goto, fileVars, TypeOK
  <2>2. meta[p].count \in 0..MaxAgents
    BY <2>1 DEF StoreInv, HasMetadata, Records
  <2>3. Len(todo'[p]) = meta[p].count + 1
    BY <2>1, <2>2, PathListFacts
  <2>4. DiskAgrees(p)'
    BY <1>1, <2>1, <2>3 DEF DiskAgrees, Exists, TypeOK
  <2> QED
    BY <1>1, <2>1, <2>4, OnlyProcess DEF KeepsSwarm, Live
<1>4. ASSUME NEW p \in Procs, MkTemp(p) \/ WriteTmp(p) \/ Fsync(p)
      PROVE  AloneInv' /\ KeepsSwarm
  <2>1. UNCHANGED <<pc, meta, todo, now>>
    BY <1>4 DEF MkTemp, WriteTmp, Fsync, Stage, fileVars
  <2> QED
    BY <2>1 DEF AloneInv, DiskAgrees, Exists, KeepsSwarm
<1>5. ASSUME NEW p \in Procs, Replace(p) PROVE AloneInv' /\ KeepsSwarm
  <2>1. /\ pc[p] = "saving" /\ pc' = pc
    BY <1>5 DEF Replace, ReplaceAt, Saves
  <2>2. pc' = [pc EXCEPT ![p] = "saving"]
    BY <1>1, <2>1 DEF TypeOK
  <2>3. DiskAgrees(p)' /\ KeepsSwarm
    BY <1>5, ReplaceAlone DEF KeepsSwarm
  <2> QED
    BY <1>1, <2>1, <2>2, <2>3, OnlyProcess DEF Live
<1>6. ASSUME NEW p \in Procs, SaveFails(p) \/ Exit(p) PROVE AloneInv' /\ KeepsSwarm
  <2>1. PICK place \in {"failed", "dead"} : pc' = [pc EXCEPT ![p] = place]
    BY <1>6 DEF SaveFails, Exit, Goto
  <2>2. pc[p] \in Live /\ now' = now
    BY <1>6 DEF SaveFails, Saves, Exit, Live, fileVars
  <2>3. DiskAgrees(p)'
    BY <1>1, <2>1 DEF DiskAgrees, TypeOK
  <2> QED
    BY <1>1, <2>1, <2>2, <2>3, OnlyProcess DEF KeepsSwarm
<1>7. ASSUME NEW p \in Procs, Created(p) PROVE AloneInv' /\ KeepsSwarm
  <2>1. /\ pc[p] = "saving" /\ todo[p] = << >> /\ pc' = [pc EXCEPT ![p] = "created"]
        /\ UNCHANGED <<meta, todo, now>>
    BY <1>7 DEF Created, Goto, fileVars
  <2>2. meta[p].count \in Nat
    BY <2>1, MaxAgentsAssumption DEF StoreInv, HasMetadata, Records
  <2>3. Len(todo[p]) # meta[p].count + 1
    BY <2>1, <2>2, EmptySeq
  <2>4. DiskAgrees(p)'
    BY <1>1, <2>1, <2>3 DEF DiskAgrees, Exists, TypeOK
  <2> QED
    BY <1>1, <2>1, <2>4, OnlyProcess DEF KeepsSwarm, Live
<1>8. ASSUME NEW p \in Procs, CheckResume(p) PROVE AloneInv' /\ KeepsSwarm
  <2>1. (\A q \in Procs : pc[q] \notin Live) /\ now' = now
    BY <1>8 DEF CheckResume, MayStart, fileVars
  <2>2. PICK place \in {"refused", "resuming"} : pc' = [pc EXCEPT ![p] = place]
    BY <1>8 DEF CheckResume, Goto
  <2>3. DiskAgrees(p)'
    BY <1>1, <2>2 DEF DiskAgrees, TypeOK
  <2> QED
    BY <1>1, <2>1, <2>2, <2>3, OnlyProcess DEF KeepsSwarm
<1>9. ASSUME NEW p \in Procs, LoadSwarm(p) PROVE AloneInv' /\ KeepsSwarm
  <2>1. pc[p] \in Live /\ now' = now
    BY <1>9 DEF LoadSwarm, Live, fileVars
  <2>2. CASE Exists(SwarmPath) /\ now[SwarmPath].whole
    <3>1. pc' = [pc EXCEPT ![p] = "resumed"] /\ meta'[p] = now[SwarmPath].record
      BY <1>1, <1>9, <2>2 DEF LoadSwarm, Goto, TypeOK
    <3>2. DiskAgrees(p)'
      BY <1>1, <2>1, <2>2, <3>1 DEF DiskAgrees, Exists, TypeOK
    <3> QED
      BY <1>1, <2>1, <3>1, <3>2, OnlyProcess DEF KeepsSwarm
  <2>3. CASE ~(Exists(SwarmPath) /\ now[SwarmPath].whole)
    <3>1. pc' = [pc EXCEPT ![p] = "failed"]
      BY <1>9, <2>3 DEF LoadSwarm, Goto
    <3>2. DiskAgrees(p)'
      BY <1>1, <3>1 DEF DiskAgrees, TypeOK
    <3> QED
      BY <1>1, <2>1, <3>1, <3>2, OnlyProcess DEF KeepsSwarm
  <2> QED
    BY <2>2, <2>3
<1>10. ASSUME NEW path \in Paths, FlushDir(path) PROVE AloneInv' /\ KeepsSwarm
  <2>1. UNCHANGED <<pc, meta, todo, now>>
    BY <1>10 DEF FlushDir
  <2> QED
    BY <2>1 DEF AloneInv, DiskAgrees, Exists, KeepsSwarm
<1>11. CASE PowerFailure
  <2>1. \A p \in Procs : pc'[p] \notin Live
    BY <1>11 DEF PowerFailure, Live
  <2>2. now' = [path \in Paths |-> Torn(disk[path])]
    BY <1>11 DEF PowerFailure
  <2>3. now'[SwarmPath] \in {now[SwarmPath], disk[SwarmPath]}
    BY <2>2, PathFacts, TornFacts DEF StoreInv, FilesDurable
  <2> QED
    BY <2>1, <2>3 DEF AloneInv, DiskAgrees, Live, KeepsSwarm
<1>12. CASE UNCHANGED vars
  BY <1>12 DEF vars, fileVars, AloneInv, DiskAgrees, Exists, KeepsSwarm
<1> QED
  BY <1>2, <1>3, <1>4, <1>5, <1>6, <1>7, <1>8, <1>9, <1>10, <1>11, <1>12 DEF Next

\* When one process runs at a time, the metadata a running daemon works with
\* is what swarm.json holds.
THEOREM DaemonAgreesWithDisk == ASSUME ~Overlap PROVE Spec => []RunsOnDiskState
<1>1. AloneInv => RunsOnDiskState
  BY DEF AloneInv, DiskAgrees, RunsOnDiskState
<1>2. StoreInv /\ AloneInv /\ [Next]_vars => AloneInv'
  BY NextAlone
<1> QED
  BY <1>1, <1>2, InitAlone, StoreInvariant, PTL DEF Spec

\* When one process runs at a time, no create replaces the swarm of another.
THEOREM SwarmNeverOverwritten == ASSUME ~Overlap PROVE Spec => NeverOverwritten
<1>1. StoreInv /\ AloneInv /\ [Next]_vars => AloneInv' /\ [KeepsSwarm]_vars
  BY NextAlone
<1> QED
  BY <1>1, InitAlone, StoreInvariant, PTL DEF Spec, NeverOverwritten, KeepsSwarm
=============================================================================
