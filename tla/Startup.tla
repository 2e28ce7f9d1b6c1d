-------------------------------- MODULE Startup --------------------------------
(***************************************************************************)
(* Processes that run `nate-ntm runtime start` (cli.py) on one machine:    *)
(* each resolves its configuration, checks its command line, creates or    *)
(* resumes a swarm in a metadata directory that it may share with others   *)
(* (RuntimeDaemon.create and .resume), and then either goes through a      *)
(* short start and stop or binds the control API and serves (runner.py).   *)
(*                                                                         *)
(* A save is one step here: MetadataStore shows that its file operations   *)
(* implement registers of whole records.  What happens while a runtime     *)
(* serves is in ControlApi and Runtime.                                    *)
(***************************************************************************)
EXTENDS RuntimeConfig

CONSTANTS
    Procs,     \* operating-system processes, one command each
    Commands,  \* [project, env, mode, count, api] a process may be started with
    Contents,  \* what swarm.json may hold at the start
    Trimmed,   \* swarm id -> what is left of it after str.strip()
    Absent,    \* no file, no record
    Malformed  \* a swarm.json that does not parse or lacks a field

VARIABLES
    pc,     \* where each process is, at the end its exit code
    cmd,    \* the command of each process
    cfg,    \* its RuntimeConfig
    meta,   \* the SwarmMetadata in its memory
    todo,   \* the files it still has to save: 0 is swarm.json, n is agent n's
    ran,    \* the agents its daemon has launched, or Absent
    disk,   \* metadata directory -> what its swarm.json holds
    agents, \* metadata directory -> what its agents' files hold
    fresh   \* history: the directories that were empty at the start

vars == <<pc, cmd, cfg, meta, todo, ran, disk, agents, fresh>>

\* The command line gives the project only; the rest is the environment's.
NoArgs == [project |-> Unset, dir |-> Unset, host |-> Unset, port |-> Unset, swarm |-> Unset]
ConfigOf(c) == Load([NoArgs EXCEPT !.project = c.project], c.env)

Configs == {ConfigOf(c) : c \in Commands} \ {Invalid}
MetaDirs == {k.dir : k \in Configs}
Envs == {c.env : c \in Commands}

Init ==
    /\ pc = [p \in Procs |-> "new"]
    /\ cmd = [p \in Procs |-> Absent]
    /\ cfg = [p \in Procs |-> Invalid]
    /\ meta = [p \in Procs |-> Absent]
    /\ todo = [p \in Procs |-> << >>]
    /\ ran = [p \in Procs |-> Absent]
    /\ \E content \in Contents : disk = [d \in MetaDirs |-> content]
    /\ agents = [d \in MetaDirs |-> << >>]
    /\ fresh = {d \in MetaDirs : disk[d] = Absent}

Dir(p) == cfg[p].dir
Address(p) == <<cfg[p].host, cfg[p].port>>
Goto(p, place) == pc' = [pc EXCEPT ![p] = place]

\* agent_count; None makes no agents.
Count(c) == IF c.count = Unset THEN 0 ELSE c.count

-----------------------------------------------------------------------------
(* The command line. *)

\* --agents with --mode=resume, or not positive.
BadUsage(c) == c.count # Unset /\ (c.mode = "resume" \/ c.count <= 0)

\* Typer has looked for the project before load_runtime_config does, without
\* expanding "~"; the configuration is resolved before --agents is checked.
Invoke(p, c) ==
    /\ pc[p] = "new"
    /\ cmd' = [cmd EXCEPT ![p] = c]
    /\ IF Resolve(Cwd, c.project) \notin Dirs
       THEN Goto(p, "exit 2") /\ UNCHANGED cfg
       ELSE /\ cfg' = [cfg EXCEPT ![p] = ConfigOf(c)]
            /\ Goto(p, IF cfg'[p] = Invalid THEN "exit 1"
                       ELSE IF BadUsage(c) THEN "exit 2" ELSE "checking")
    /\ UNCHANGED <<meta, todo, ran, disk, agents, fresh>>

-----------------------------------------------------------------------------
(* RuntimeDaemon.create *)

\* FakeAgentMailClient and FakeAcpClient: identifiers are derived, each time
\* anew, from the configuration and the agent's number.
MailProject(k) == <<"fake-mail-project", k.swarm, k.project>>
Identity(n) == <<"fake-mail-identity", n>>
Conversation(n) == <<"fake-conversation", n>>

\* A mutant of NewAgent: create names the identity after the agent.
NewAgentByName(n) == [identity |-> <<"Agent", n>>, conversation |-> Conversation(n)]

NewAgent(n) == [identity |-> Identity(n), conversation |-> Conversation(n)]

NewSwarm(k, count) ==
    [swarm |-> k.swarm, project |-> k.project, mail |-> MailProject(k),
     agents |-> [n \in 1..count |-> NewAgent(n)]]

\* The check that there is no swarm yet, and the metadata to be saved, the
\* swarm's file first.  MetadataAlreadyExistsError is exit code 1.
BeginCreate(p) ==
    /\ pc[p] = "checking" /\ cmd[p].mode = "create"
    /\ IF disk[Dir(p)] = Absent
       THEN /\ Goto(p, "saving")
            /\ meta' = [meta EXCEPT ![p] = NewSwarm(cfg[p], Count(cmd[p]))]
            /\ todo' = [todo EXCEPT ![p] = [i \in 1..(Count(cmd[p]) + 1) |-> i - 1]]
       ELSE Goto(p, "exit 1") /\ UNCHANGED <<meta, todo>>
    /\ UNCHANGED <<cmd, cfg, ran, disk, agents, fresh>>

Saves(p) == pc[p] = "saving" /\ todo[p] # << >>

SaveSwarm(p) ==
    /\ Saves(p) /\ Head(todo[p]) = 0
    /\ disk' = [disk EXCEPT ![Dir(p)] = meta[p]]
    /\ todo' = [todo EXCEPT ![p] = Tail(@)]
    /\ UNCHANGED <<pc, cmd, cfg, meta, ran, agents, fresh>>

SaveAgent(p) ==
    /\ Saves(p) /\ Head(todo[p]) # 0
    /\ agents' = [agents EXCEPT ![Dir(p)] =
                    (Head(todo[p]) :> meta[p].agents[Head(todo[p])]) @@ @]
    /\ todo' = [todo EXCEPT ![p] = Tail(@)]
    /\ UNCHANGED <<pc, cmd, cfg, meta, ran, disk, fresh>>

\* A save raises: what was saved before stays.
SaveFails(p) ==
    /\ Saves(p)
    /\ Goto(p, "exit 1")
    /\ UNCHANGED <<cmd, cfg, meta, todo, ran, disk, agents, fresh>>

-----------------------------------------------------------------------------
(* RuntimeDaemon.resume *)

\* A mutant of BeginResume: the file that is there is not loaded.
BeginResumeUnloaded(p) ==
    /\ pc[p] = "checking" /\ cmd[p].mode = "resume"
    /\ Goto(p, IF disk[Dir(p)] = Absent THEN "exit 1" ELSE "resumed")
    /\ UNCHANGED <<cmd, cfg, meta, todo, ran, disk, agents, fresh>>

\* MetadataMissingError is exit code 1.
BeginResume(p) ==
    /\ pc[p] = "checking" /\ cmd[p].mode = "resume"
    /\ Goto(p, IF disk[Dir(p)] = Absent THEN "exit 1" ELSE "loading")
    /\ UNCHANGED <<cmd, cfg, meta, todo, ran, disk, agents, fresh>>

\* An identifier that was never recorded is not checked, any other must be
\* what the adapters derive.
Agrees(recorded, derived) == recorded \in {<< >>, derived}

\* SwarmMetadata.validate; the swarm's id has lost its spaces by then.
Valid(k, file) == Trimmed[file.swarm] = k.swarm /\ file.project = k.project

\* load_swarm_metadata and the checks of resume.  The mail project is only
\* checked if its name is one that create makes.
Resumable(k, file) ==
    /\ file \notin {Absent, Malformed} /\ Valid(k, file)
    /\ file.mail # << >> /\ file.mail[1] = "fake-mail-project" => file.mail = MailProject(k)
    /\ \A n \in DOMAIN file.agents :
          /\ Agrees(file.agents[n].identity, Identity(n))
          /\ Agrees(file.agents[n].conversation, Conversation(n))

\* A mutant of LoadSwarm: the agents are read from their own files.
LoadSwarmFromFiles(p) ==
    /\ pc[p] = "loading"
    /\ LET file == disk[Dir(p)] IN
       IF Resumable(cfg[p], file)
       THEN /\ Goto(p, "resumed")
            /\ meta' = [meta EXCEPT ![p] = [file EXCEPT !.swarm = Trimmed[@],
                                                        !.agents = agents[Dir(p)]]]
       ELSE Goto(p, "exit 1") /\ UNCHANGED meta
    /\ UNCHANGED <<cmd, cfg, todo, ran, disk, agents, fresh>>

Loaded(file) == [file EXCEPT !.swarm = Trimmed[@]]

\* A ValueError or RuntimeStartupError ends the command with a traceback.
LoadSwarm(p) ==
    /\ pc[p] = "loading"
    /\ LET file == disk[Dir(p)] IN
       IF Resumable(cfg[p], file)
       THEN /\ Goto(p, "resumed")
            /\ meta' = [meta EXCEPT ![p] = Loaded(file)]
       ELSE Goto(p, "exit 1") /\ UNCHANGED meta
    /\ UNCHANGED <<cmd, cfg, todo, ran, disk, agents, fresh>>

-----------------------------------------------------------------------------
(* Running. *)

Ready(p) == pc[p] = "resumed" \/ (pc[p] = "saving" /\ todo[p] = << >>)

\* daemon.start() launches the agents of the swarm's metadata.
Launch(p) == ran' = [ran EXCEPT ![p] = meta[p].agents]

\* Without --with-control-api: start, request_shutdown and mark_stopped.
RunOnce(p) ==
    /\ Ready(p) /\ ~cmd[p].api
    /\ Launch(p) /\ Goto(p, "exit 0")
    /\ UNCHANGED <<cmd, cfg, meta, todo, disk, agents, fresh>>

\* The bind comes before the start of the daemon (see ControlApi).  Two
\* sockets cannot listen at one address.
Serve(p) ==
    /\ Ready(p) /\ cmd[p].api
    /\ \A q \in Procs : pc[q] = "serving" => Address(q) # Address(p)
    /\ Launch(p) /\ Goto(p, "serving")
    /\ UNCHANGED <<cmd, cfg, meta, todo, disk, agents, fresh>>

\* A mutant of BindFails: the daemon is started before the bind.
BindFailsLate(p) ==
    /\ Ready(p) /\ cmd[p].api
    /\ Launch(p) /\ Goto(p, "exit 1")
    /\ UNCHANGED <<cmd, cfg, meta, todo, disk, agents, fresh>>

\* The address is taken, by a runtime or by anything else: the command ends
\* with a traceback, after a create has saved its swarm.
BindFails(p) ==
    /\ Ready(p) /\ cmd[p].api
    /\ Goto(p, "exit 1")
    /\ UNCHANGED <<cmd, cfg, meta, todo, ran, disk, agents, fresh>>

\* A client asked for the shutdown.
Stop(p) ==
    /\ pc[p] = "serving"
    /\ Goto(p, "exit 0")
    /\ UNCHANGED <<cmd, cfg, meta, todo, ran, disk, agents, fresh>>

\* A signal ends the process wherever it is.
Kill(p) ==
    /\ pc[p] \in {"checking", "saving", "loading", "resumed", "serving"}
    /\ Goto(p, "killed")
    /\ UNCHANGED <<cmd, cfg, meta, todo, ran, disk, agents, fresh>>

Next ==
    \E p \in Procs :
        \/ \E c \in Commands : Invoke(p, c)
        \/ BeginCreate(p) \/ SaveSwarm(p) \/ SaveAgent(p) \/ SaveFails(p)
        \/ BeginResume(p) \/ LoadSwarm(p)
        \/ RunOnce(p) \/ Serve(p) \/ BindFails(p) \/ Stop(p) \/ Kill(p)

Spec == Init /\ [][Next]_vars

-----------------------------------------------------------------------------
(* Properties. *)

\* What swarm.json may hold, and the records that a process may work with.
NewSwarms == {NewSwarm(k, Count(c)) : k \in Configs, c \in Commands}
SwarmFiles == Contents \union NewSwarms
Records == NewSwarms \union {Loaded(file) : file \in SwarmFiles \ {Absent, Malformed}}

ASSUME CountAssumption == \A c \in Commands : c.count \in Int \union {Unset}

\* The project is a path; a variable holds a path, or nothing.
ASSUME CommandsAssumption == \A c \in Commands :
    c.project \in Path /\ {c.env.project, c.env.dir} \subseteq Path \union {Unset, Blank}

ASSUME AbsentAssumption ==
    Absent \notin Records \union Commands /\ Malformed \notin NewSwarms

Places == {"new", "checking", "saving", "loading", "resumed", "serving", "killed",
           "exit 0", "exit 1", "exit 2"}

\* Type correctness: where processes are, what they know and what they may
\* still write.
TypeOK ==
    /\ pc \in [Procs -> Places]
    /\ cmd \in [Procs -> Commands \union {Absent}]
    /\ cfg \in [Procs -> Configs \union {Invalid}]
    /\ meta \in [Procs -> Records \union {Absent}]
    /\ \A p \in Procs : pc[p] \in {"saving", "resumed", "serving"} => meta[p] # Absent
    /\ todo \in [Procs -> Seq(Nat)] /\ DOMAIN ran = Procs
    /\ disk \in [MetaDirs -> SwarmFiles] /\ DOMAIN agents = MetaDirs
    /\ fresh \subseteq MetaDirs

Creates(p) == cmd[p] # Absent /\ cmd[p].mode = "create" /\ cfg[p] # Invalid

\* Once create has written swarm.json, and however it ended after that (a
\* failed save, a failed bind, a kill), a resume under the same configuration
\* passes every check and finds all the agents that were asked for, as long as
\* the file is still there and the swarm's id has no spaces around it.
RetryRecovers ==
    \A p \in Procs :
        /\ Creates(p) /\ meta[p] # Absent /\ disk[Dir(p)] = meta[p]
        /\ Trimmed[cfg[p].swarm] = cfg[p].swarm
        => /\ Resumable(cfg[p], disk[Dir(p)])
           /\ DOMAIN disk[Dir(p)].agents = 1..Count(cmd[p])

\* A runtime in a directory that was empty at first launches exactly the
\* agents that some create for its own project and swarm was asked for, each
\* with the identity and conversation it got then: neither another project's
\* swarm in the same directory, nor what a create that died left unwritten,
\* nor racing creates change that.
AgentsAsCreated ==
    \A p \in Procs : ran[p] # Absent /\ Dir(p) \in fresh =>
        \E q \in Procs :
            /\ Creates(q) /\ Dir(q) = Dir(p)
            /\ cfg[q].project = cfg[p].project /\ cfg[q].swarm = cfg[p].swarm
            /\ ran[p] = [n \in 1..Count(cmd[q]) |-> NewAgent(n)]

\* A start that comes to nothing has launched no agent: not one that is
\* refused, that could not save or load the swarm, or that lost its address to
\* a runtime started from the same defaults.  Runtimes that serve differ in
\* their addresses, and a client's command reaches the one it means.
FailedStartLaunchesNothing ==
    /\ \A p \in Procs : pc[p] \in {"exit 1", "exit 2"} => ran[p] = Absent
    /\ \A p, q \in Procs :
          pc[p] = "serving" /\ pc[q] = "serving" /\ Address(p) = Address(q) => p = q

\* A configuration that is passed on explicitly is resolved to itself,
\* whatever the environment says.
ConfigIsStable ==
    \A p \in Procs : cfg[p] # Invalid =>
        \A env \in Envs : Load(Explicit(cfg[p]), env) = cfg[p]

\* No metadata directory is above its project, however many ".." lead to it,
\* but for the root of the file system above a project right under it.
MetadataNotAbove ==
    \A p \in Procs : cfg[p] # Invalid /\ IsStrictPrefix(Normal(Dir(p)), cfg[p].project) =>
        Dir(p) = << >> /\ Len(cfg[p].project) = 1

\* Where `nate-ntm api call` looks for the runtime; Typer takes an empty
\* variable for one that is not set.
ClientAddress(env) == <<Or(env.host, DefaultHost), Or(env.port, DefaultPort)>>

\* The command line's client, which resolves the address by itself, finds the
\* runtime that was started in the same environment.
ClientReachesServer ==
    \A p \in Procs : pc[p] = "serving" => ClientAddress(cmd[p].env) = Address(p)
=============================================================================
