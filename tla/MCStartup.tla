------------------------------- MODULE MCStartup -------------------------------
(***************************************************************************)
(* Startup with two projects, /h/w/a and /h/w/b, one right under the root, *)
(* and environments that differ from the empty one in one variable.        *)
(***************************************************************************)
EXTENDS Startup

CONSTANTS p1, p2

Symmetry == Permutations(Procs)

MCCwd  == <<"h", "w">>
MCHome == <<"h">>
MCDirs == {<<"h">>, <<"h", "w">>, <<"h", "w", "a">>, <<"h", "w", "b">>}

Rel(parts) == [absolute |-> FALSE, parts |-> parts]
Abs(parts) == [absolute |-> TRUE, parts |-> parts]

Empty == NoArgs
InDir(raw) == [Empty EXCEPT !.dir = raw]
OnPort(raw) == [Empty EXCEPT !.port = raw]

Shared == Rel(<<"..", "shared">>)

\* Directories in, beside, above and away from the project, and one that
\* stays inside in spite of its "..".
OddDirs == {Blank, Shared, Rel(<<"..", "..">>), Rel(<<"..">>), Abs(<<"h", "w", "b">>),
            Abs(<<"h", "x">>), Rel(<<"m", "..", ".nate_ntm">>), Rel(<<"~", "m">>),
            Rel(<<"..", "..", "..", "..">>)}
OddPorts == {Blank, NotAPort, 0, 1024, 1025, 65535, 65536}
OddEnvs == {InDir(raw) : raw \in OddDirs} \union {OnPort(raw) : raw \in OddPorts}
           \union {[Empty EXCEPT !.host = h] : h \in {Blank, "localhost"}}
           \union {[Empty EXCEPT !.swarm = w] : w \in {Blank, "dev"}}

A == Rel(<<"a">>)
B == Abs(<<"h", "w", "a", "..", "b">>)

Command(project, env, mode, count, api) ==
    [project |-> project, env |-> env, mode |-> mode, count |-> count, api |-> api]

\* Creates and resumes in two projects that may share a directory and in two
\* swarms of one project; one swarm's id has spaces around it.
MainCommands ==
    {Command(project, env, mc[1], mc[2], api) :
        project \in {A, B}, env \in {Empty, InDir(Shared)}, api \in BOOLEAN,
        mc \in {<<"create", Unset>>, <<"create", 2>>, <<"resume", Unset>>}}
    \union {Command(A, [Empty EXCEPT !.swarm = w], mc[1], mc[2], TRUE) :
        w \in {"dev", " dev "}, mc \in {<<"create", 1>>, <<"resume", Unset>>}}
OddCommands ==
    {Command(project, env, "resume", Unset, TRUE) :
        project \in {A, Rel(<<"..">>)}, env \in OddEnvs}
    \union {Command(A, Empty, "create", 0, TRUE), Command(A, Empty, "resume", 1, FALSE),
            Command(Rel(<<"c">>), Empty, "create", 1, TRUE),
            Command(Rel(<<"~", "w", "a">>), Empty, "create", 1, TRUE)}
MCCommands == MainCommands \union OddCommands

MCTrimmed == "default" :> "default" @@ "dev" :> "dev" @@ " dev " :> "dev"

\* An empty directory, one whose swarm was made by hand, one whose swarm is
\* project a's but has an identity that is not the adapters', and a file that
\* is no swarm.
ByHand(identity) ==
    [swarm |-> "default", project |-> <<"h", "w", "a">>, mail |-> <<"mail-project-1">>,
     agents |-> 7 :> [identity |-> identity, conversation |-> << >>]]
MCContents == {Absent, Malformed, ByHand(<< >>), ByHand(<<"mail-7">>)}
=============================================================================
