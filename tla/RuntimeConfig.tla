----------------------------- MODULE RuntimeConfig -----------------------------
(***************************************************************************)
(* How a runtime's configuration is resolved from explicit arguments, the  *)
(* environment and defaults (load_runtime_config).                         *)
(*                                                                         *)
(* A path that was given is [absolute, parts], its parts names, ".." or    *)
(* "~"; a resolved path is the sequence of names from the root, << >>.     *)
(* Symbolic links are left out.                                            *)
(***************************************************************************)
EXTENDS Integers, SequencesExt

CONSTANTS
    Unset,    \* an argument or a variable that was not given
    Blank,    \* the empty string
    NotAPort, \* a port that int() cannot convert
    Invalid,  \* load_runtime_config raises ValueError
    Cwd,      \* the working directory
    Home,     \* the home directory
    Dirs      \* the directories that exist

DefaultHost  == "127.0.0.1"
DefaultPort  == 8765
DefaultSwarm == "default"

\* A name of a resolved path, and a path that was given.
Name == STRING \ {".."}
Path == [absolute : BOOLEAN, parts : Seq(STRING)]

ASSUME PlacesAssumption == Cwd \in Seq(Name) /\ Home \in Seq(Name)

\* A fact about a literal that TLC evaluates and the provers do not know.
ASSUME DefaultDirAssumption == ".nate_ntm" \in Name

\* What was not given or is empty is no path, no number and no default.
ASSUME UnsetAssumption ==
    \A raw \in {Unset, Blank} : raw \notin Path \union Nat \union {DefaultHost, DefaultSwarm}

\* Python's `a or b`, for a string that may be missing or empty.
Or(a, b) == IF a \in {Unset, Blank} THEN b ELSE a

-----------------------------------------------------------------------------
(* Paths. *)

\* A mutant of Resolve: the names are not resolved.
ResolveKeepsDots(base, raw) == IF raw.absolute THEN raw.parts ELSE base \o raw.parts

Parent(path) == IF path = << >> THEN << >> ELSE Front(path)

\* "..", at the root too, and any other name.
Descend(path, name) == IF name = ".." THEN Parent(path) ELSE Append(path, name)
Normal(names) ==
    LET upTo[n \in 0..Len(names)] ==
            IF n = 0 THEN << >> ELSE Descend(upTo[n - 1], names[n])
    IN  upTo[Len(names)]

\* Path(raw).resolve()
Resolve(base, raw) == Normal(IF raw.absolute THEN raw.parts ELSE base \o raw.parts)

\* Path("") is the current directory, or the project where that is the base.
AsPath(raw) == IF raw = Blank THEN [absolute |-> FALSE, parts |-> << >>] ELSE raw

\* Path.expanduser: "~" stands for the home directory in front position only.
ExpandUser(raw) ==
    IF ~raw.absolute /\ raw.parts # << >> /\ raw.parts[1] = "~"
    THEN [absolute |-> TRUE, parts |-> Home \o Tail(raw.parts)] ELSE raw

\* An empty argument is a path, an empty variable counts as not set.
Chosen(arg, var) == IF arg # Unset THEN arg ELSE Or(var, Unset)

ProjectPath(arg, var) ==
    LET raw == Chosen(arg, var)
    IN  IF raw = Unset THEN Cwd ELSE Resolve(Cwd, ExpandUser(AsPath(raw)))

\* "~" is expanded in absolute paths only, where it has no meaning.
MetadataDir(arg, var, project) ==
    LET raw == Chosen(arg, var)
    IN  IF raw = Unset THEN Append(project, ".nate_ntm") ELSE Resolve(project, AsPath(raw))

\* _validate_metadata_dir_location: in the project or beside it.
Located(dir, project) == IsPrefix(project, dir) \/ Parent(dir) = Parent(project)

-----------------------------------------------------------------------------
(* Address and swarm. *)

\* A mutant of HostOf: the environment overrides the argument.
HostOfEnvironment(arg, var) == Or(var, Or(arg, DefaultHost))

HostOf(arg, var) == Or(arg, Or(var, DefaultHost))

\* A mutant of PortOf: an empty variable counts as not set and the default
\* port is another one.
PortOfMoved(arg, var) ==
    LET given == IF arg # Unset THEN arg ELSE var
    IN  IF given \in {Unset, Blank} THEN 8766 ELSE given

\* An empty variable counts as set, unlike everywhere else.
PortOf(arg, var) ==
    LET given == IF arg # Unset THEN arg ELSE var
    IN  IF given = Unset THEN DefaultPort ELSE given

\* Neither a word nor a privileged port nor one that does not exist.
PortAllowed(port) == port \in Nat /\ 1024 < port /\ port <= 65535

SwarmOf(arg, var) == Or(arg, Or(var, DefaultSwarm))

-----------------------------------------------------------------------------
\* load_runtime_config: what is not allowed raises a ValueError, and then
\* nothing of the rest matters.
Load(args, env) ==
    LET project == ProjectPath(args.project, env.project)
        dir     == MetadataDir(args.dir, env.dir, project)
        port    == PortOf(args.port, env.port)
    IN  IF project \in Dirs /\ Located(dir, project) /\ PortAllowed(port)
        THEN [project |-> project, dir |-> dir, host |-> HostOf(args.host, env.host),
              port |-> port, swarm |-> SwarmOf(args.swarm, env.swarm)]
        ELSE Invalid

\* The arguments that spell out a whole configuration.
Explicit(config) ==
    [project |-> [absolute |-> TRUE, parts |-> config.project],
     dir     |-> [absolute |-> TRUE, parts |-> config.dir],
     host    |-> config.host, port |-> config.port, swarm |-> config.swarm]
=============================================================================
