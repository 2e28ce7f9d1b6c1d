----------------------------- MODULE MetadataStore -----------------------------
(***************************************************************************)
(* The project's metadata on disk (runtime/metadata_store.py) and the      *)
(* processes that create or resume a swarm from it (RuntimeDaemon.create   *)
(* and .resume, runtime/daemon.py).  A process may be killed between any   *)
(* two file operations, a write may fail, and the machine may lose power.  *)
(*                                                                         *)
(* A save goes through a temporary file with a fresh name: create it,      *)
(* write it, fsync it, rename it over the target.  Temporary files that    *)
(* are left behind are never read (loads name swarm.json, and agent files  *)
(* are found by *.json), so only the one being written is modelled.        *)
(***************************************************************************)
EXTENDS Integers, Sequences

CONSTANTS
    Procs,      \* operating-system processes, each started at most once
    MaxAgents,  \* most agents a create is asked for
    Absent,     \* no file
    Overlap     \* whether processes may run at the same time

ASSUME MaxAgentsAssumption == MaxAgents \in Nat
ASSUME OverlapAssumption == Overlap \in BOOLEAN

SwarmPath == 0                \* swarm.json
AgentPaths == 1..MaxAgents    \* agents/agent-<n>.json
Paths == {SwarmPath} \union AgentPaths

\* What create writes is told apart by its author and its number of agents:
\* ids, identities and conversations are functions of the configuration.
Records == [by : Procs, count : 0..MaxAgents]

\* A file: its record, whether it is whole, whether its data is on disk.
Files == [record : Records, whole : BOOLEAN, synced : BOOLEAN]

ASSUME AbsentAssumption == Absent \notin Records /\ Absent \notin Files

VARIABLES
    pc,       \* where each process is
    meta,     \* the SwarmMetadata in each process's memory
    todo,     \* the paths a creating process still has to save, in order
    tmp,      \* state of the temporary file a process is writing
    now,      \* path -> the file visible under that name
    disk      \* path -> the file the directory on disk names

fileVars == <<now, disk>>
vars == <<pc, meta, todo, tmp, fileVars>>

\* What a temporary file in this stage becomes when it is renamed.
File(record, stage) ==
    [record |-> record, whole |-> stage \in {"written", "synced"},
     synced |-> stage = "synced"]

Exists(path) == now[path] # Absent

Live == {"checked", "saving", "resuming", "created", "resumed"}

\* Without overlap a process starts only when no other one is alive.
MayStart(p) == pc[p] = "new" /\ (Overlap \/ \A q \in Procs : pc[q] \notin Live)

Goto(p, place) == pc' = [pc EXCEPT ![p] = place]

Init ==
    /\ pc = [p \in Procs |-> "new"]
    /\ meta = [p \in Procs |-> Absent]
    /\ todo = [p \in Procs |-> << >>]
    /\ tmp = [p \in Procs |-> "none"]
    /\ now = [path \in Paths |-> Absent]
    /\ disk = [path \in Paths |-> Absent]

-----------------------------------------------------------------------------
(* RuntimeDaemon.create *)

\* A mutant of CheckCreate: the existing swarm is not looked for.
CheckCreateNothing(p, count) ==
    /\ MayStart(p)
    /\ Goto(p, "checked") /\ meta' = [meta EXCEPT ![p] = [by |-> p, count |-> count]]
    /\ UNCHANGED <<todo, tmp, fileVars>>

\* check_startup_preconditions in create mode, and the metadata to be saved.
CheckCreate(p, count) ==
    /\ MayStart(p)
    /\ IF Exists(SwarmPath)
       THEN Goto(p, "refused") /\ UNCHANGED meta
       ELSE Goto(p, "checked") /\ meta' = [meta EXCEPT ![p] = [by |-> p, count |-> count]]
    /\ UNCHANGED <<todo, tmp, fileVars>>

\* A mutant of BeginSaves: the last agent is left out.
BeginSavesShort(p) ==
    /\ pc[p] = "checked"
    /\ Goto(p, "saving")
    /\ todo' = [todo EXCEPT ![p] = [i \in 1..(IF meta[p].count = 0 THEN 1 ELSE meta[p].count)
                                      |-> i - 1]]
    /\ UNCHANGED <<meta, tmp, fileVars>>

\* A mutant of BeginSaves: one agent too many.
BeginSavesOneMore(p) ==
    /\ pc[p] = "checked"
    /\ Goto(p, "saving")
    /\ todo' = [todo EXCEPT ![p] = [i \in 1..(meta[p].count + 2) |-> i - 1]]
    /\ UNCHANGED <<meta, tmp, fileVars>>

\* The swarm file comes first, then one file per agent.
BeginSaves(p) ==
    /\ pc[p] = "checked"
    /\ Goto(p, "saving")
    /\ todo' = [todo EXCEPT ![p] = [i \in 1..(meta[p].count + 1) |-> i - 1]]
    /\ UNCHANGED <<meta, tmp, fileVars>>

-----------------------------------------------------------------------------
(* _atomic_write_json *)

Saves(p) == pc[p] = "saving" /\ todo[p] # << >>

Stage(p, from, to) ==
    /\ Saves(p) /\ tmp[p] = from
    /\ tmp' = [tmp EXCEPT ![p] = to]
    /\ UNCHANGED <<pc, meta, todo, fileVars>>

MkTemp(p)   == Stage(p, "none", "empty")
WriteTmp(p) == Stage(p, "empty", "written")
Fsync(p)    == Stage(p, "written", "synced")

\* os.replace of the temporary file over the target.  The directory is not
\* synced, so the disk names the old file until the file system writes back.
ReplaceAt(p, stage) ==
    /\ Saves(p) /\ tmp[p] = stage
    /\ now' = [now EXCEPT ![Head(todo[p])] = File(meta[p], stage)]
    /\ tmp' = [tmp EXCEPT ![p] = "none"]
    /\ todo' = [todo EXCEPT ![p] = Tail(@)]
    /\ UNCHANGED <<pc, meta, disk>>

\* A mutant of Replace: the file is renamed before it was synced.
ReplaceUnsynced(p) == ReplaceAt(p, "written")

\* A mutant of Replace: the file is renamed before it was written.
ReplaceEmpty(p) == ReplaceAt(p, "empty")

Replace(p) == ReplaceAt(p, "synced")

\* A mutant of SaveFails: the error is logged and the next file is saved.
SaveErrorIgnored(p) ==
    /\ Saves(p)
    /\ tmp' = [tmp EXCEPT ![p] = "none"]
    /\ todo' = [todo EXCEPT ![p] = Tail(@)]
    /\ UNCHANGED <<pc, meta, fileVars>>

\* Any file operation may raise: the temporary file is unlinked and create
\* fails with what was saved so far left in place.
SaveFails(p) ==
    /\ Saves(p)
    /\ Goto(p, "failed")
    /\ tmp' = [tmp EXCEPT ![p] = "none"]
    /\ UNCHANGED <<meta, todo, fileVars>>

\* Everything is saved: the daemon exists.
Created(p) ==
    /\ pc[p] = "saving" /\ todo[p] = << >>
    /\ Goto(p, "created")
    /\ UNCHANGED <<meta, todo, tmp, fileVars>>

-----------------------------------------------------------------------------
(* RuntimeDaemon.resume *)

\* check_startup_preconditions in resume mode.
CheckResume(p) ==
    /\ MayStart(p)
    /\ Goto(p, IF Exists(SwarmPath) THEN "resuming" ELSE "refused")
    /\ UNCHANGED <<meta, todo, tmp, fileVars>>

\* load_swarm_metadata: a file that is not whole does not parse.  Only
\* swarm.json is read.
LoadSwarm(p) ==
    /\ pc[p] = "resuming"
    /\ IF Exists(SwarmPath) /\ now[SwarmPath].whole
       THEN Goto(p, "resumed") /\ meta' = [meta EXCEPT ![p] = now[SwarmPath].record]
       ELSE Goto(p, "failed") /\ UNCHANGED meta
    /\ UNCHANGED <<todo, tmp, fileVars>>

-----------------------------------------------------------------------------
(* The world. *)

\* The process is killed, or ends after its runtime stopped or could not bind.
Exit(p) ==
    /\ pc[p] \in Live
    /\ Goto(p, "dead")
    /\ tmp' = [tmp EXCEPT ![p] = "none"]
    /\ UNCHANGED <<meta, todo, fileVars>>

\* The file system writes a directory entry to disk, at any moment: nothing in
\* the code asks for it.
FlushDir(path) ==
    /\ disk[path] # now[path]
    /\ disk' = [disk EXCEPT ![path] = now[path]]
    /\ UNCHANGED <<pc, meta, todo, tmp, now>>

\* What is left of a file whose data may not have reached the disk.
Torn(file) == IF file = Absent \/ file.synced THEN file ELSE [file EXCEPT !.whole = FALSE]

\* The machine stops: every process dies and each path shows what the disk
\* names.  All renames since its last write-back are undone, however many.
PowerFailure ==
    /\ \E p \in Procs : pc[p] \in Live
    /\ pc' = [p \in Procs |-> IF pc[p] \in Live THEN "dead" ELSE pc[p]]
    /\ tmp' = [p \in Procs |-> "none"]
    /\ now' = [path \in Paths |-> Torn(disk[path])]
    /\ disk' = now'
    /\ UNCHANGED <<meta, todo>>

Next ==
    \/ \E p \in Procs :
          \/ \E count \in 0..MaxAgents : CheckCreate(p, count)
          \/ BeginSaves(p) \/ MkTemp(p) \/ WriteTmp(p) \/ Fsync(p) \/ Replace(p)
          \/ SaveFails(p) \/ Created(p) \/ CheckResume(p) \/ LoadSwarm(p) \/ Exit(p)
    \/ \E path \in Paths : FlushDir(path)
    \/ PowerFailure

Spec == Init /\ [][Next]_vars

-----------------------------------------------------------------------------
(* Properties. *)

Places == {"new", "refused", "failed", "dead"} \union Live
Value == Files \union {Absent}

\* Type correctness of files and processes.
TypeOK ==
    /\ pc \in [Procs -> Places]
    /\ meta \in [Procs -> Records \union {Absent}]
    /\ todo \in [Procs -> Seq(Paths)]
    /\ tmp \in [Procs -> {"none", "empty", "written", "synced"}]
    /\ now \in [Paths -> Value] /\ disk \in [Paths -> Value]

\* Whatever is killed, fails or loses power, and however many processes write
\* at once, a reader finds no file or a whole one.
NeverTorn ==
    \A path \in Paths : \A file \in {now[path], disk[path]} :
        file # Absent => file.whole

\* A create that succeeded has left a file for the swarm and for each of its
\* agents.
CreatedIsComplete ==
    \A p \in Procs : pc[p] = "created" =>
        \A path \in 0..meta[p].count : Exists(path)

\* The metadata a running daemon works with is what swarm.json holds, hence
\* what the next resume will find.
RunsOnDiskState ==
    \A p \in Procs : pc[p] \in {"created", "resumed"} =>
        Exists(SwarmPath) /\ now[SwarmPath].record = meta[p]

\* No process replaces the swarm.json of another: an existing file stays,
\* unless a power failure brings back what the disk names, which may be the
\* state before any number of renames.
\* ("In create mode, starting the runtime MUST fail if swarm metadata already
\* exists", daemon.py)
NeverOverwritten ==
    [][Exists(SwarmPath) => now'[SwarmPath] \in {now[SwarmPath], disk[SwarmPath]}]_vars

\* The files behave as registers of whole records; a file that is not whole
\* is no record.
Register(file) == IF file = Absent THEN Absent ELSE IF file.whole THEN file.record ELSE << >>
Registers ==
    [path \in Paths |-> [now |-> Register(now[path]), disk |-> Register(disk[path])]]
Store == INSTANCE AtomicStore WITH reg <- Registers, view <- meta
ImplementsStore == Store!StoreSpec
=============================================================================
