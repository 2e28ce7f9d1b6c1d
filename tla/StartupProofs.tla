----------------------------- MODULE StartupProofs -----------------------------
(***************************************************************************)
(* What TLAPS proves of the start of runtimes, for every set of processes, *)
(* commands and files that are found.                                      *)
(***************************************************************************)
EXTENDS Startup, SequenceTheorems, WellFoundedInduction, TLAPS

-----------------------------------------------------------------------------
(* Paths.  What the names of a path lead to is defined name by name, so what *)
(* is said of it is proved for the least number of names that refutes it.    *)

\* A set of numbers that is not empty has a least one.
LEMMA LeastExists ==
    ASSUME NEW T \in SUBSET Nat, T # {}
    PROVE  \E s \in T : \A r \in T : s <= r
<1>1. \E s \in T : \A r \in T : <<r, s>> \notin OpToRel(<, Nat)
  BY NatLessThanWellFounded, WFMin
<1>2. PICK s \in T : \A r \in T : <<r, s>> \notin OpToRel(<, Nat)
  BY <1>1
<1>3. \A r \in T : ~(r < s)
  BY <1>2 DEF OpToRel
<1> QED
  BY <1>3

\* g holds where the first k of the names lead, for each k up to n.
Steps(g, names, n) ==
    g = [k \in 0..n |-> IF k = 0 THEN << >> ELSE Descend(g[k - 1], names[k])]

\* Such a function exists: the recursion of Normal is well founded.
LEMMA StepsExist ==
    ASSUME NEW names, NEW len \in Nat
    PROVE  \E g : Steps(g, names, len)
<1> DEFINE T == {n \in Nat : ~\E g : Steps(g, names, n)}
<1>1. CASE T = {}
  BY <1>1
<1>2. CASE T # {}
  <2>1. PICK n \in T : \A r \in T : n <= r
    BY <1>2, LeastExists
  <2>2. n # 0
    <3> DEFINE g == [k \in 0..0 |-> << >>]
    <3>1. g = [k \in 0..0 |-> IF k = 0 THEN << >> ELSE Descend(g[k - 1], names[k])]
      OBVIOUS
    <3>2. Steps(g, names, 0)
      BY <3>1 DEF Steps
    <3> QED
      BY <2>1, <3>2
  <2>3. n \in Nat /\ n - 1 \in Nat /\ n - 1 \notin T
    BY <2>1, <2>2
  <2>4. PICK h : Steps(h, names, n - 1)
    BY <2>3
  <2> DEFINE g == [k \in 0..n |-> IF k = n THEN Descend(h[n - 1], names[n]) ELSE h[k]]
  <2>5. \A k \in 0..(n-1) : h[k] = IF k = 0 THEN << >> ELSE Descend(h[k - 1], names[k])
    BY <2>4 DEF Steps
  <2>6. \A k \in 0..n : g[k] = IF k = 0 THEN << >> ELSE Descend(g[k - 1], names[k])
    <3> SUFFICES ASSUME NEW k \in 0..n PROVE g[k] = IF k = 0 THEN << >> ELSE Descend(g[k - 1], names[k])
      OBVIOUS
    <3>1. CASE k = n
      BY <2>2, <2>3, <3>1
    <3>2. CASE k # n
      <4>1. k \in 0..(n - 1)
        BY <2>3, <3>2
      <4>2. g[k] = h[k]
        BY <3>2
      <4>3. k # 0 => g[k-1] = h[k-1]
        BY <2>3, <3>2
      <4> QED
        BY <2>5, <4>1, <4>2, <4>3
    <3> QED
      BY <3>1, <3>2
  <2>7. g = [k \in 0..n |-> IF k = 0 THEN << >> ELSE Descend(g[k - 1], names[k])]
    <3>1. g = [k \in 0..n |-> g[k]]
      OBVIOUS
    <3> HIDE DEF g
    <3> QED
    BY <2>6, <3>1
  <2>8. Steps(g, names, n)
    <3> HIDE DEF g
    <3> QED
    BY <2>7 DEF Steps
  <2> QED
    BY <2>1, <2>8
<1> QED
  BY <1>1, <1>2

\* Normal is the end of such steps.
LEMMA NormalSteps ==
    ASSUME NEW names, Len(names) \in Nat
    PROVE  \E g : Steps(g, names, Len(names)) /\ Normal(names) = g[Len(names)]
<1> DEFINE up == CHOOSE upTo : upTo = [n \in 0..Len(names) |->
            IF n = 0 THEN << >> ELSE Descend(upTo[n - 1], names[n])]
<1>1. \E g : Steps(g, names, Len(names))
  BY StepsExist
<1>2. Steps(up, names, Len(names))
  BY <1>1 DEF Steps
<1>3. Normal(names) = up[Len(names)]
  BY DEF Normal
<1> QED
  BY <1>2, <1>3

\* What a step along the steps does.
LEMMA StepsUnfold ==
    ASSUME NEW g, NEW names, NEW n \in Nat, Steps(g, names, n)
    PROVE  /\ g[0] = << >>
           /\ \A k \in 1..n : g[k] = Descend(g[k - 1], names[k])
BY DEF Steps

\* The parent of a resolved path.
LEMMA ParentProperties ==
    ASSUME NEW path \in Seq(Name)
    PROVE  /\ Parent(path) \in Seq(Name)
           /\ Len(Parent(path)) = IF path = << >> THEN 0 ELSE Len(path) - 1
<1>1. CASE path = << >>
  BY <1>1, EmptySeq DEF Parent
<1>2. CASE path # << >>
  <2> DEFINE n == Len(path) - 1
  <2>1. n \in Nat /\ Parent(path) = SubSeq(path, 1, n)
    BY <1>2, LenProperties, EmptySeq DEF Parent, Front
  <2>2. \A i \in 1..n : path[i] \in Name
    BY <2>1, LenProperties, ElementOfSeq
  <2>3. SubSeq(path, 1, n) \in Seq(Name) /\ Len(SubSeq(path, 1, n)) = n
    <3> HIDE DEF n
    <3> QED
      BY <2>1, <2>2, SubSeqProperties
  <2> QED
    BY <1>2, <2>1, <2>3
<1> QED
  BY <1>1, <1>2

\* Wherever the names of a path lead, no ".." is left.
LEMMA NormalIsResolved ==
    ASSUME NEW names \in Seq(STRING)
    PROVE  Normal(names) \in Seq(Name)
<1> DEFINE N == Len(names)
<1>1. N \in Nat /\ \A k \in 1..N : names[k] \in STRING
  BY LenProperties, ElementOfSeq
<1>2. PICK g : Steps(g, names, N) /\ Normal(names) = g[N]
  BY <1>1, NormalSteps
<1>3. g[0] = << >> /\ \A k \in 1..N : g[k] = Descend(g[k - 1], names[k])
  BY <1>1, <1>2, StepsUnfold
<1> DEFINE T == {k \in 0..N : g[k] \notin Seq(Name)}
<1> HIDE DEF N
<1>4. CASE T = {}
  BY <1>1, <1>2, <1>4
<1>5. CASE T # {}
  <2>1. PICK k \in T : \A r \in T : k <= r
    <3>1. T \in SUBSET Nat
      BY <1>1
    <3> HIDE DEF T
    <3> QED
      BY <1>5, <3>1, LeastExists
  <2>2. k # 0
    BY <1>3, <2>1, EmptySeq
  <2>3. k \in 1..N /\ k - 1 \in 0..N /\ k - 1 \notin T
    BY <1>1, <2>1, <2>2
  <2>4. g[k - 1] \in Seq(Name) /\ g[k] = Descend(g[k - 1], names[k])
    BY <1>3, <2>3
  <2>5. CASE names[k] = ".."
    BY <2>1, <2>4, <2>5, ParentProperties DEF Descend
  <2>6. CASE names[k] # ".."
    <3>1. names[k] \in Name
      BY <1>1, <2>3, <2>6 DEF Name
    <3>2. Append(g[k - 1], names[k]) \in Seq(Name)
      BY <2>4, <3>1, AppendProperties
    <3> QED
      BY <2>1, <2>4, <2>6, <3>2 DEF Descend
  <2> QED
    BY <2>5, <2>6
<1> QED
  BY <1>4, <1>5

\* A resolved path leads to itself.
LEMMA NormalOfResolved ==
    ASSUME NEW path \in Seq(Name)
    PROVE  Normal(path) = path
<1> DEFINE N == Len(path)
           Start(k) == SubSeq(path, 1, k)
<1>1. N \in Nat /\ \A k \in 1..N : path[k] \in Name
  BY LenProperties, ElementOfSeq
<1>2. PICK g : Steps(g, path, N) /\ Normal(path) = g[N]
  BY <1>1, NormalSteps
<1>3. g[0] = << >> /\ \A k \in 1..N : g[k] = Descend(g[k - 1], path[k])
  BY <1>1, <1>2, StepsUnfold
<1>4. \A k \in 0..N : /\ Start(k) \in Seq(Name) /\ Len(Start(k)) = k
                      /\ \A i \in 1..k : Start(k)[i] = path[i]
  <2> SUFFICES ASSUME NEW k \in 0..N
               PROVE  /\ Start(k) \in Seq(Name) /\ Len(Start(k)) = k
                      /\ \A i \in 1..k : Start(k)[i] = path[i]
    OBVIOUS
  <2>1. \A i \in 1..k : path[i] \in Name
    BY <1>1
  <2>2. /\ Start(k) \in Seq(Name)
        /\ Len(Start(k)) = IF 1 <= k THEN k - 1 + 1 ELSE 0
        /\ \A i \in 1..(k - 1 + 1) : Start(k)[i] = path[1 + i - 1]
    BY <1>1, <2>1, SubSeqProperties
  <2>3. Len(Start(k)) = k
    BY <1>1, <2>2
  <2>4. k - 1 + 1 = k /\ \A i \in 1..k : 1 + i - 1 = i
    BY <1>1
  <2> HIDE DEF Start
  <2> QED
    BY <2>2, <2>3, <2>4
<1>5. Start(N) = path
  <2> HIDE DEF Start
  <2>1. \A i \in 1..Len(path) : Start(N)[i] = path[i]
    BY <1>1, <1>4
  <2> QED
    BY <1>1, <1>4, <2>1, SeqEqual
<1> DEFINE T == {k \in 0..N : g[k] # Start(k)}
<1> HIDE DEF N, Start
<1>6. CASE T = {}
  BY <1>1, <1>2, <1>5, <1>6
<1>7. CASE T # {}
  <2>1. PICK k \in T : \A r \in T : k <= r
    <3>1. T \in SUBSET Nat
      BY <1>1
    <3> HIDE DEF T
    <3> QED
      BY <1>7, <3>1, LeastExists
  <2>2. k # 0
    <3>1. Start(0) = << >>
      BY <1>1, <1>4, EmptySeq
    <3> QED
      BY <1>3, <2>1, <3>1
  <2>3. k \in 1..N /\ k - 1 \in 0..N /\ k - 1 \notin T
    BY <1>1, <2>1, <2>2
  <2>4. g[k] = Append(Start(k - 1), path[k])
    <3>1. path[k] # ".."
      BY <1>1, <2>3 DEF Name
    <3> QED
      BY <1>3, <2>3, <3>1 DEF Descend
  <2>5. Append(Start(k - 1), path[k]) = Start(k)
    <3> DEFINE a == Append(Start(k - 1), path[k])
    <3>1. Start(k - 1) \in Seq(Name) /\ path[k] \in Name /\ Len(Start(k - 1)) = k - 1
      BY <1>1, <1>4, <2>3
    <3>2. /\ a \in Seq(Name) /\ Len(a) = k - 1 + 1
          /\ \A i \in 1..(k - 1) : a[i] = Start(k - 1)[i]
          /\ a[k - 1 + 1] = path[k]
      BY <3>1, AppendProperties
    <3>3. k \in 0..N /\ k - 1 + 1 = k
      BY <2>3
    <3> HIDE DEF a
    <3>4. \A i \in 1..k : a[i] = Start(k)[i]
      BY <1>4, <2>3, <3>2, <3>3
    <3> DEFINE b == Start(k)
    <3>5. b \in Seq(Name) /\ Len(a) = Len(b) /\ \A i \in 1..Len(a) : a[i] = b[i]
      BY <1>4, <3>2, <3>3, <3>4
    <3> HIDE DEF b
    <3>6. a = b
      BY <3>2, <3>5, SeqEqual
    <3> QED
      BY <3>6 DEF a, b
  <2> QED
    BY <2>1, <2>4, <2>5
<1> QED
  BY <1>6, <1>7

\* Names of resolved paths are names.
LEMMA ResolvedIsSequence == Seq(Name) \subseteq Seq(STRING)
<1> SUFFICES ASSUME NEW s \in Seq(Name) PROVE s \in Seq(STRING)
  OBVIOUS
<1>1. Len(s) \in Nat /\ \A i \in 1..Len(s) : s[i] \in Name
  BY LenProperties, ElementOfSeq
<1>2. SubSeq(s, 1, Len(s)) = s
  BY SubSeqFull
<1>3. \A i \in 1..Len(s) : s[i] \in STRING
  BY <1>1 DEF Name
<1>4. SubSeq(s, 1, Len(s)) \in Seq(STRING)
  BY <1>1, <1>3, SubSeqProperties
<1> QED
  BY <1>2, <1>4

\* What paths and bases resolve to.
LEMMA ResolveIsResolved ==
    ASSUME NEW base \in Seq(Name), NEW raw \in Path
    PROVE  Resolve(base, raw) \in Seq(Name)
<1>1. raw.parts \in Seq(STRING) /\ base \in Seq(STRING)
  BY ResolvedIsSequence DEF Path
<1>2. base \o raw.parts \in Seq(STRING)
  BY <1>1, ConcatProperties
<1> QED
  BY <1>1, <1>2, NormalIsResolved DEF Resolve

LEMMA ExpandUserIsPath ==
    ASSUME NEW raw \in Path \union {Blank}
    PROVE  AsPath(raw) \in Path /\ ExpandUser(AsPath(raw)) \in Path
<1>1. AsPath(raw) \in Path
  BY EmptySeq DEF AsPath, Path
<1>2. ASSUME NEW path \in Path PROVE ExpandUser(path) \in Path
  <2>1. Home \in Seq(STRING) /\ path.parts \in Seq(STRING)
    BY PlacesAssumption, ResolvedIsSequence DEF Path
  <2>2. path.parts # << >> => Tail(path.parts) \in Seq(STRING)
    BY <2>1, HeadTailProperties
  <2>3. path.parts # << >> => Home \o Tail(path.parts) \in Seq(STRING)
    BY <2>1, <2>2, ConcatProperties
  <2> QED
    BY <2>3 DEF ExpandUser, Path
<1> QED
  BY <1>1, <1>2

\* A configuration of a command line has a project and a metadata directory
\* without "..", and names a host, a port and a swarm.
LEMMA ConfigProperties ==
    ASSUME NEW c \in Commands, ConfigOf(c) # Invalid
    PROVE  LET k == ConfigOf(c)
           IN  /\ k = [project |-> k.project, dir |-> k.dir, host |-> k.host,
                       port |-> k.port, swarm |-> k.swarm]
               /\ k.project \in Seq(Name) /\ k.dir \in Seq(Name)
               /\ k.project \in Dirs /\ Located(k.dir, k.project) /\ PortAllowed(k.port)
               /\ k.host \notin {Unset, Blank} /\ k.swarm \notin {Unset, Blank}
<1> DEFINE k == ConfigOf(c)
           env == c.env
           args == [NoArgs EXCEPT !.project = c.project]
           project == ProjectPath(args.project, env.project)
           dir == MetadataDir(args.dir, env.dir, project)
           port == PortOf(args.port, env.port)
<1>1. /\ args.project = c.project /\ args.dir = Unset /\ args.host = Unset
      /\ args.port = Unset /\ args.swarm = Unset
  BY DEF NoArgs
<1>2. /\ k = [project |-> project, dir |-> dir, host |-> HostOf(args.host, env.host),
              port |-> port, swarm |-> SwarmOf(args.swarm, env.swarm)]
      /\ project \in Dirs /\ Located(dir, project) /\ PortAllowed(port)
  BY DEF ConfigOf, Load
<1>3. project \in Seq(Name)
  <2>1. c.project \in Path /\ c.project # Unset
    BY CommandsAssumption, UnsetAssumption
  <2>2. project = Resolve(Cwd, ExpandUser(AsPath(c.project)))
    BY <1>1, <2>1 DEF ProjectPath, Chosen
  <2> QED
    BY <2>1, <2>2, PlacesAssumption, ExpandUserIsPath, ResolveIsResolved
<1>4. dir \in Seq(Name)
  <2> DEFINE raw == Or(env.dir, Unset)
  <2>1. dir = IF raw = Unset THEN Append(project, ".nate_ntm") ELSE Resolve(project, AsPath(raw))
    BY <1>1 DEF MetadataDir, Chosen
  <2>2. raw \in Path \union {Unset}
    BY CommandsAssumption DEF Or
  <2>3. CASE raw = Unset
    <3> HIDE DEF project
    <3> QED
      BY <1>3, <2>1, <2>3, DefaultDirAssumption, AppendProperties
  <2>4. CASE raw # Unset
    <3> HIDE DEF project, raw
    <3> QED
      BY <1>3, <2>1, <2>2, <2>4, ExpandUserIsPath, ResolveIsResolved
  <2> QED
    BY <2>3, <2>4
<1>5. HostOf(args.host, env.host) \notin {Unset, Blank}
  BY <1>1, UnsetAssumption DEF HostOf, Or
<1>6. SwarmOf(args.swarm, env.swarm) \notin {Unset, Blank}
  BY <1>1, UnsetAssumption DEF SwarmOf, Or
<1> HIDE DEF project, dir, port, k, args
<1>7. k.project = project /\ k.dir = dir /\ k.port = port
      /\ k.host = HostOf(args.host, env.host) /\ k.swarm = SwarmOf(args.swarm, env.swarm)
  BY <1>2
<1> QED
  BY <1>2, <1>3, <1>4, <1>5, <1>6, <1>7 DEF k

\* Passed on explicitly, such a configuration resolves to itself.
LEMMA ConfigReloads ==
    ASSUME NEW c \in Commands, ConfigOf(c) # Invalid, NEW env
    PROVE  Load(Explicit(ConfigOf(c)), env) = ConfigOf(c)
<1> DEFINE k == ConfigOf(c)
           args == Explicit(k)
<1>1. /\ k = [project |-> k.project, dir |-> k.dir, host |-> k.host,
              port |-> k.port, swarm |-> k.swarm]
      /\ k.project \in Seq(Name) /\ k.dir \in Seq(Name)
      /\ k.project \in Dirs /\ Located(k.dir, k.project) /\ PortAllowed(k.port)
      /\ k.host \notin {Unset, Blank} /\ k.swarm \notin {Unset, Blank}
  BY ConfigProperties
<1> HIDE DEF k
<1>2. /\ args.project = [absolute |-> TRUE, parts |-> k.project]
      /\ args.dir = [absolute |-> TRUE, parts |-> k.dir]
      /\ args.host = k.host /\ args.port = k.port /\ args.swarm = k.swarm
  BY DEF Explicit
<1> HIDE DEF args
<1>3. ASSUME NEW path \in Seq(Name)
      PROVE  LET raw == [absolute |-> TRUE, parts |-> path]
             IN  /\ raw \notin {Unset, Blank} /\ AsPath(raw) = raw /\ ExpandUser(raw) = raw
                 /\ \A base : Resolve(base, raw) = path
  <2> DEFINE raw == [absolute |-> TRUE, parts |-> path]
  <2>1. raw \in Path
    BY ResolvedIsSequence DEF Path
  <2>2. raw.absolute = TRUE /\ raw.parts = path
    OBVIOUS
  <2> HIDE DEF raw
  <2>3. raw # Unset /\ raw # Blank
    BY <2>1, UnsetAssumption
  <2>4. ASSUME NEW base PROVE Resolve(base, raw) = path
    BY <2>2, NormalOfResolved DEF Resolve
  <2> QED
    BY <2>2, <2>3, <2>4 DEF AsPath, ExpandUser, raw
<1>4. ProjectPath(args.project, env.project) = k.project
  BY <1>1, <1>2, <1>3 DEF ProjectPath, Chosen
<1>5. MetadataDir(args.dir, env.dir, k.project) = k.dir
  BY <1>1, <1>2, <1>3 DEF MetadataDir, Chosen
<1>6. PortOf(args.port, env.port) = k.port
  BY <1>1, <1>2, UnsetAssumption DEF PortOf, PortAllowed
<1>7. HostOf(args.host, env.host) = k.host /\ SwarmOf(args.swarm, env.swarm) = k.swarm
  BY <1>1, <1>2 DEF HostOf, SwarmOf, Or
<1>8. Load(args, env) = [project |-> k.project, dir |-> k.dir, host |-> k.host,
                         port |-> k.port, swarm |-> k.swarm]
  BY <1>1, <1>4, <1>5, <1>6, <1>7 DEF Load
<1> QED
  BY <1>1, <1>8 DEF args, k

\* A directory beside or in a project that is a proper part of the project's
\* own path is the root.
LEMMA LocatedAbove ==
    ASSUME NEW project \in Seq(Name), NEW dir \in Seq(Name),
           Located(dir, project), IsStrictPrefix(dir, project)
    PROVE  dir = << >> /\ Len(project) = 1
<1>1. Len(dir) \in Nat /\ Len(project) \in Nat
  BY LenProperties
<1>2. Len(dir) # Len(project)
  <2> SUFFICES ASSUME Len(dir) = Len(project) PROVE FALSE
    OBVIOUS
  <2>1. SubSeq(dir, 1, Len(dir)) = dir /\ SubSeq(project, 1, Len(project)) = project
    BY SubSeqFull
  <2> QED
    BY <2>1 DEF IsStrictPrefix, IsPrefix
<1>3. Len(dir) < Len(project)
  BY <1>1, <1>2 DEF IsStrictPrefix, IsPrefix
<1>4. Parent(dir) = Parent(project)
  BY <1>1, <1>3 DEF Located, IsPrefix
<1>5. project # << >>
  BY <1>1, <1>3, EmptySeq
<1>6. /\ Len(Parent(project)) = Len(project) - 1
      /\ Len(Parent(dir)) = IF dir = << >> THEN 0 ELSE Len(dir) - 1
  BY <1>5, ParentProperties
<1> QED
  BY <1>1, <1>3, <1>4, <1>6

-----------------------------------------------------------------------------
(* The inductive invariant. *)

Started == {"checking", "saving", "loading", "resumed", "serving"}

\* What is known of a process from where it is.
Phases == \A p \in Procs :
    /\ pc[p] = "new" => cfg[p] = Invalid /\ meta[p] = Absent
    /\ pc[p] \in Started => cfg[p] # Invalid /\ ~BadUsage(cmd[p])
    /\ cfg[p] # Invalid => cmd[p] \in Commands /\ cfg[p] = ConfigOf(cmd[p])
    /\ pc[p] \in {"checking", "loading"} => meta[p] = Absent
    /\ pc[p] = "loading" => cmd[p].mode = "resume"
    /\ pc[p] = "saving" => cmd[p].mode = "create"
    /\ meta[p] # Absent => cfg[p] # Invalid

\* Agents are launched last, and they are those of the metadata.
LaunchedLast == \A p \in Procs : ran[p] # Absent =>
    /\ pc[p] \in {"serving", "exit 0", "killed"}
    /\ meta[p] # Absent /\ ran[p] = meta[p].agents

Made(p) == NewSwarm(cfg[p], Count(cmd[p]))

\* A create works with what it has made, and so saves nothing else.
CreatesItsOwn == \A p \in Procs : Creates(p) /\ meta[p] # Absent => meta[p] = Made(p)

\* In a directory that was empty everything stems from a create: the file, and
\* from it the agents that a process works with.
FilesMade == \A d \in fresh :
    disk[d] # Absent => \E q \in Procs : Creates(q) /\ Dir(q) = d /\ disk[d] = Made(q)

MadeFor(q, k) ==
    Creates(q) /\ Dir(q) = k.dir /\ cfg[q].project = k.project /\ cfg[q].swarm = k.swarm

AgentsMade == \A p \in Procs : meta[p] # Absent /\ Dir(p) \in fresh =>
    \E q \in Procs : MadeFor(q, cfg[p]) /\ meta[p].agents = [n \in 1..Count(cmd[q]) |-> NewAgent(n)]

StartupInv == TypeOK /\ Phases /\ LaunchedLast /\ CreatesItsOwn /\ FilesMade /\ AgentsMade

LEMMA CountIsNat ==
    ASSUME NEW c \in Commands, ~BadUsage(c)
    PROVE  Count(c) \in Nat
  BY CountAssumption DEF BadUsage, Count

\* What create makes is a record that swarm.json may hold.
LEMMA MadeIsRecord ==
    ASSUME NEW k \in Configs, NEW c \in Commands
    PROVE  /\ NewSwarm(k, Count(c)) \in NewSwarms
           /\ NewSwarm(k, Count(c)) \in SwarmFiles \ {Absent, Malformed}
           /\ NewSwarm(k, Count(c)) \in Records \ {Absent}
<1>1. NewSwarm(k, Count(c)) \in NewSwarms
  BY DEF NewSwarms
<1>2. NewSwarm(k, Count(c)) \in Records /\ NewSwarm(k, Count(c)) \in SwarmFiles
  BY <1>1 DEF Records, SwarmFiles
<1> QED
  BY <1>1, <1>2, AbsentAssumption

LEMMA StartupInit == Init => StartupInv
<1> SUFFICES ASSUME Init PROVE StartupInv
  OBVIOUS
<1>1. TypeOK
  <2>1. disk \in [MetaDirs -> SwarmFiles]
    BY DEF Init, SwarmFiles
  <2>2. todo \in [Procs -> Seq(Nat)]
    BY DEF Init
  <2> QED
    BY <2>1, <2>2 DEF Init, TypeOK, Places
<1>2. Phases /\ LaunchedLast /\ CreatesItsOwn /\ FilesMade /\ AgentsMade
  BY DEF Init, Phases, LaunchedLast, CreatesItsOwn, FilesMade, AgentsMade, Started
<1> QED
  BY <1>1, <1>2 DEF StartupInv

-----------------------------------------------------------------------------
(* Steps that make or load no swarm. *)

\* Most steps only move processes on and leave memory and swarm.json alone.
MovesOn(p) ==
    \/ pc'[p] = pc[p]
    \/ pc[p] \in Started /\ pc'[p] \in {"exit 0", "killed"}
    \/ pc[p] \in Started \ {"serving"} /\ pc'[p] = "exit 1"
    \/ pc[p] = "checking" /\ cmd[p].mode = "resume" /\ pc'[p] = "loading"

Moves ==
    /\ UNCHANGED <<cmd, cfg, meta, ran, disk, fresh>>
    /\ todo' \in [Procs -> Seq(Nat)] /\ DOMAIN agents' = MetaDirs
    /\ pc' \in [Procs -> Places]
    /\ \A p \in Procs : MovesOn(p)

LEMMA MovesInv == StartupInv /\ Moves => StartupInv'
<1> SUFFICES ASSUME StartupInv, Moves PROVE StartupInv'
  OBVIOUS
<1>1. TypeOK'
  BY DEF Moves, MovesOn, StartupInv, TypeOK, Started
<1>2. Phases'
  BY DEF Moves, MovesOn, StartupInv, Phases, Started
<1>3. LaunchedLast'
  BY DEF Moves, MovesOn, StartupInv, LaunchedLast, Started
<1>4. CreatesItsOwn'
  BY DEF Moves, StartupInv, CreatesItsOwn, Creates, Made
<1>5. FilesMade' /\ AgentsMade'
  BY DEF Moves, StartupInv, FilesMade, AgentsMade, Creates, Made, MadeFor, Dir
<1> QED
  BY <1>1, <1>2, <1>3, <1>4, <1>5 DEF StartupInv

\* Going to a place that MovesOn allows is such a step.
LEMMA GotoMoves ==
    ASSUME TypeOK, NEW p \in Procs, NEW place \in Places, Goto(p, place),
           MovesOn(p), todo' \in [Procs -> Seq(Nat)], DOMAIN agents' = MetaDirs,
           UNCHANGED <<cmd, cfg, meta, ran, disk, fresh>>
    PROVE  Moves
  BY DEF TypeOK, Goto, Moves, MovesOn

LEMMA SaveAgentMoves == ASSUME TypeOK, NEW p \in Procs, SaveAgent(p) PROVE Moves
<1>1. todo[p] \in Seq(Nat) /\ todo[p] # << >>
  BY DEF TypeOK, SaveAgent, Saves
<1>2. Tail(todo[p]) \in Seq(Nat)
  BY <1>1
<1>3. todo' \in [Procs -> Seq(Nat)]
  BY <1>2 DEF TypeOK, SaveAgent
<1> QED
  BY <1>3 DEF TypeOK, SaveAgent, Moves, MovesOn

LEMMA ProcessMoves ==
    ASSUME TypeOK, NEW p \in Procs,
           SaveFails(p) \/ BeginResume(p) \/ BindFails(p) \/ Stop(p) \/ Kill(p)
    PROVE  Moves
<1> USE DEF MovesOn, Started, Places, Ready, Saves
<1>0. todo \in [Procs -> Seq(Nat)] /\ DOMAIN agents = MetaDirs
  BY DEF TypeOK
<1>1. CASE SaveFails(p)
  BY <1>0, <1>1, GotoMoves DEF SaveFails, Goto, TypeOK
<1>2. CASE BeginResume(p)
  <2> DEFINE place == IF disk[Dir(p)] = Absent THEN "exit 1" ELSE "loading"
  <2>1. Goto(p, place) /\ place \in {"exit 1", "loading"}
    BY <1>2 DEF BeginResume
  <2> HIDE DEF place
  <2> QED
    BY <1>0, <1>2, <2>1, GotoMoves DEF BeginResume, Goto, TypeOK
<1>3. CASE BindFails(p)
  BY <1>0, <1>3, GotoMoves DEF BindFails, Goto, TypeOK
<1>4. CASE Stop(p)
  BY <1>0, <1>4, GotoMoves DEF Stop, Goto, TypeOK
<1>5. CASE Kill(p)
  BY <1>0, <1>5, GotoMoves DEF Kill, Goto, TypeOK
<1> QED
  BY <1>1, <1>2, <1>3, <1>4, <1>5

-----------------------------------------------------------------------------
(* The steps of a process that make, save, load or launch something. *)

LEMMA InvokeInv ==
    ASSUME StartupInv, NEW p \in Procs, NEW c \in Commands, Invoke(p, c)
    PROVE  StartupInv'
<1> USE DEF StartupInv
<1>1. UNCHANGED <<meta, todo, ran, disk, agents, fresh>> /\ pc[p] = "new"
  BY DEF Invoke
<1>2. cmd' = [cmd EXCEPT ![p] = c]
  BY DEF Invoke
<1>3. \/ cfg' = cfg /\ Goto(p, "exit 2")
      \/ /\ cfg' = [cfg EXCEPT ![p] = ConfigOf(c)]
         /\ \/ Goto(p, "exit 1") \/ Goto(p, "exit 2")
            \/ ConfigOf(c) # Invalid /\ ~BadUsage(c) /\ Goto(p, "checking")
  BY DEF Invoke, TypeOK
<1>4. ConfigOf(c) \in Configs \union {Invalid}
  BY DEF Configs
<1>5. cfg[p] = Invalid /\ meta[p] = Absent
  BY <1>1 DEF Phases
<1>6. /\ cfg' \in [Procs -> Configs \union {Invalid}] /\ cfg'[p] \in {Invalid, ConfigOf(c)}
      /\ pc' \in [Procs -> Places] /\ pc'[p] \in {"checking", "exit 1", "exit 2"}
      /\ pc'[p] = "checking" => cfg'[p] = ConfigOf(c) /\ cfg'[p] # Invalid /\ ~BadUsage(c)
      /\ \A q \in Procs \ {p} : cmd'[q] = cmd[q] /\ cfg'[q] = cfg[q] /\ pc'[q] = pc[q]
      /\ cmd'[p] = c /\ cmd' \in [Procs -> Commands \union {Absent}]
  BY <1>2, <1>3, <1>4, <1>5 DEF Goto, TypeOK, Places
<1>7. TypeOK'
  BY <1>1, <1>6 DEF TypeOK
<1>8. Phases'
  BY <1>1, <1>5, <1>6 DEF Phases, Started
<1>9. LaunchedLast'
  BY <1>1, <1>5, <1>6 DEF LaunchedLast
<1>10. \A q \in Procs : Creates(q) => q # p /\ Creates(q)' /\ cfg'[q] = cfg[q] /\ cmd'[q] = cmd[q]
  BY <1>5, <1>6 DEF Creates
<1>11. CreatesItsOwn'
  BY <1>1, <1>5, <1>6 DEF CreatesItsOwn, Creates, Made
<1>12. FilesMade'
  BY <1>1, <1>10 DEF FilesMade, Made, Dir
<1>13. AgentsMade'
  <2> SUFFICES ASSUME NEW q \in Procs, meta'[q] # Absent, Dir(q)' \in fresh'
               PROVE  \E r \in Procs : MadeFor(r, cfg[q])'
                        /\ meta'[q].agents = [n \in 1..Count(cmd'[r]) |-> NewAgent(n)]
    BY DEF AgentsMade
  <2>1. q # p /\ meta[q] # Absent /\ Dir(q) \in fresh /\ cfg'[q] = cfg[q]
    BY <1>1, <1>5, <1>6 DEF Dir
  <2>2. PICK r \in Procs : MadeFor(r, cfg[q])
                            /\ meta[q].agents = [n \in 1..Count(cmd[r]) |-> NewAgent(n)]
    BY <2>1 DEF AgentsMade
  <2>3. MadeFor(r, cfg[q])' /\ cmd'[r] = cmd[r]
    BY <1>10, <2>1, <2>2 DEF MadeFor, Dir
  <2> QED
    BY <1>1, <2>2, <2>3
<1> QED
  BY <1>7, <1>8, <1>9, <1>11, <1>12, <1>13

LEMMA BeginCreateInv ==
    ASSUME StartupInv, NEW p \in Procs, BeginCreate(p), disk[Dir(p)] = Absent
    PROVE  StartupInv'
<1> USE DEF StartupInv
<1>1. /\ pc[p] = "checking" /\ cmd[p].mode = "create" /\ Goto(p, "saving")
      /\ meta' = [meta EXCEPT ![p] = Made(p)]
      /\ todo' = [todo EXCEPT ![p] = [i \in 1..(Count(cmd[p]) + 1) |-> i - 1]]
      /\ UNCHANGED <<cmd, cfg, ran, disk, agents, fresh>>
  BY DEF BeginCreate, Made
<1>2. cfg[p] \in Configs /\ cmd[p] \in Commands /\ ~BadUsage(cmd[p]) /\ cmd[p] # Absent
  BY <1>1, AbsentAssumption DEF TypeOK, Phases, Started
<1>3. Made(p) \in Records /\ Made(p) # Absent
  BY <1>2, MadeIsRecord DEF Made
<1>4. [i \in 1..(Count(cmd[p]) + 1) |-> i - 1] \in Seq(Nat)
  <2>1. Count(cmd[p]) + 1 \in Nat
    BY <1>2, CountIsNat
  <2>2. \A i \in 1..(Count(cmd[p]) + 1) : i - 1 \in Nat
    BY <2>1
  <2> QED
    BY <2>1, <2>2
<1>5. Creates(p) /\ cfg[p] # Invalid
  BY <1>1, <1>2 DEF Creates, Configs
<1>6. /\ pc' \in [Procs -> Places] /\ pc'[p] = "saving" /\ meta'[p] = Made(p)
      /\ \A q \in Procs \ {p} : pc'[q] = pc[q] /\ meta'[q] = meta[q]
  BY <1>1 DEF Goto, TypeOK, Places
<1>7. TypeOK'
  BY <1>1, <1>3, <1>4, <1>6 DEF TypeOK
<1>8. Phases'
  BY <1>1, <1>2, <1>5, <1>6 DEF Phases, Started
<1>9. LaunchedLast'
  BY <1>1, <1>6 DEF LaunchedLast
<1>10. CreatesItsOwn'
  BY <1>1, <1>6 DEF CreatesItsOwn, Creates, Made
<1>11. FilesMade'
  BY <1>1 DEF FilesMade, Creates, Made, Dir
<1>12. AgentsMade'
  <2>1. MadeFor(p, cfg[p]) /\ Made(p).agents = [n \in 1..Count(cmd[p]) |-> NewAgent(n)]
    BY <1>5 DEF MadeFor, Dir, Made, NewSwarm
  <2>2. \A q, r \in Procs : MadeFor(q, cfg[r]) => MadeFor(q, cfg[r])'
    BY <1>1 DEF MadeFor, Creates, Dir
  <2>3. Dir(p)' = Dir(p)
    BY <1>1 DEF Dir
  <2> SUFFICES ASSUME NEW q \in Procs, meta'[q] # Absent, Dir(q)' \in fresh'
               PROVE  \E r \in Procs : MadeFor(r, cfg[q])'
                        /\ meta'[q].agents = [n \in 1..Count(cmd'[r]) |-> NewAgent(n)]
    BY DEF AgentsMade
  <2>4. CASE q = p
    BY <1>1, <1>6, <2>1, <2>2, <2>4
  <2>5. CASE q # p
    <3>1. PICK r \in Procs : MadeFor(r, cfg[q])
                              /\ meta[q].agents = [n \in 1..Count(cmd[r]) |-> NewAgent(n)]
      BY <1>1, <1>6, <2>5 DEF AgentsMade, Dir
    <3> QED
      BY <1>1, <1>6, <2>2, <2>5, <3>1
  <2> QED
    BY <2>4, <2>5
<1> QED
  BY <1>7, <1>8, <1>9, <1>10, <1>11, <1>12

LEMMA SaveSwarmInv ==
    ASSUME StartupInv, NEW p \in Procs, SaveSwarm(p)
    PROVE  StartupInv'
<1> USE DEF StartupInv
<1>1. /\ pc[p] = "saving" /\ disk' = [disk EXCEPT ![Dir(p)] = meta[p]]
      /\ todo' = [todo EXCEPT ![p] = Tail(@)] /\ todo[p] # << >>
      /\ UNCHANGED <<pc, cmd, cfg, meta, ran, agents, fresh>>
  BY DEF SaveSwarm, Saves
<1>2. meta[p] # Absent /\ cfg[p] \in Configs /\ cmd[p] \in Commands
  BY <1>1 DEF TypeOK, Phases, Started
<1>3. Tail(todo[p]) \in Seq(Nat)
  BY <1>1 DEF TypeOK
<1>4. TypeOK'
  <2>1. meta[p] \in SwarmFiles
    BY <1>1, <1>2, MadeIsRecord, AbsentAssumption DEF Phases, CreatesItsOwn, Creates, Made
  <2> QED
    BY <1>1, <1>3, <2>1 DEF TypeOK
<1>5. Phases' /\ LaunchedLast'
  BY <1>1 DEF Phases, LaunchedLast
<1>6. CreatesItsOwn'
  BY <1>1 DEF CreatesItsOwn, Creates, Made
<1>7. FilesMade'
  <2>1. Creates(p)' /\ meta[p] = Made(p)'
    BY <1>1, <1>2, AbsentAssumption DEF Phases, Creates, CreatesItsOwn, Made, Configs
  <2>2. \A d \in MetaDirs : disk'[d] = IF d = Dir(p) THEN meta[p] ELSE disk[d]
    BY <1>1 DEF TypeOK
  <2>3. fresh \subseteq MetaDirs
    BY DEF TypeOK
  <2> SUFFICES ASSUME NEW d \in fresh, disk'[d] # Absent
               PROVE  \E q \in Procs : Creates(q)' /\ Dir(q)' = d /\ disk'[d] = Made(q)'
    BY <1>1 DEF FilesMade
  <2>4. CASE d = Dir(p)
    BY <1>1, <2>1, <2>2, <2>3, <2>4 DEF Dir
  <2>5. CASE d # Dir(p)
    BY <1>1, <2>2, <2>3, <2>5 DEF FilesMade, Creates, Dir, Made
  <2> QED
    BY <2>4, <2>5
<1>8. AgentsMade'
  BY <1>1 DEF AgentsMade, MadeFor, Creates, Dir
<1> QED
  BY <1>4, <1>5, <1>6, <1>7, <1>8

\* What resume accepts in a directory that was empty is what a create for the
\* same project and swarm has made: the name of the mail project tells both.
LEMMA ResumedIsMade ==
    ASSUME NEW k, NEW q \in Procs, Creates(q), Dir(q) = k.dir, Resumable(k, Made(q))
    PROVE  MadeFor(q, k)
<1>1. Made(q).mail = MailProject(cfg[q]) /\ Made(q).project = cfg[q].project
  BY DEF Made, NewSwarm
<1>2. Made(q).mail # << >> /\ Made(q).mail[1] = "fake-mail-project"
  BY <1>1 DEF MailProject
<1>3. MailProject(cfg[q]) = MailProject(k) /\ cfg[q].project = k.project
  BY <1>1, <1>2 DEF Resumable, Valid
<1>4. cfg[q].swarm = k.swarm
  BY <1>3 DEF MailProject
<1> QED
  BY <1>3, <1>4 DEF MadeFor

LEMMA LoadSwarmInv ==
    ASSUME StartupInv, NEW p \in Procs, LoadSwarm(p), Resumable(cfg[p], disk[Dir(p)])
    PROVE  StartupInv'
<1> USE DEF StartupInv
<1> DEFINE file == disk[Dir(p)]
<1>1. /\ pc[p] = "loading" /\ Goto(p, "resumed")
      /\ meta' = [meta EXCEPT ![p] = Loaded(file)]
      /\ UNCHANGED <<cmd, cfg, todo, ran, disk, agents, fresh>>
  BY DEF LoadSwarm
<1>2. cfg[p] \in Configs /\ cmd[p].mode = "resume" /\ Dir(p) \in MetaDirs
  BY <1>1 DEF TypeOK, Phases, Started, MetaDirs, Dir
<1>3. file \in SwarmFiles \ {Absent, Malformed}
  BY <1>2 DEF TypeOK, Resumable
<1>4. Loaded(file) \in Records /\ Loaded(file) # Absent
  BY <1>3, AbsentAssumption DEF Records
<1> HIDE DEF file
<1>5. /\ pc' \in [Procs -> Places] /\ pc'[p] = "resumed" /\ meta'[p] = Loaded(file)
      /\ \A q \in Procs \ {p} : pc'[q] = pc[q] /\ meta'[q] = meta[q]
  BY <1>1 DEF Goto, TypeOK, Places
<1>6. TypeOK'
  BY <1>1, <1>4, <1>5 DEF TypeOK
<1>7. Phases'
  BY <1>1, <1>2, <1>5 DEF Phases, Started, Configs
<1>8. LaunchedLast'
  BY <1>1, <1>5 DEF LaunchedLast
<1>9. CreatesItsOwn'
  BY <1>1, <1>2, <1>5 DEF CreatesItsOwn, Creates, Made
<1>10. FilesMade'
  BY <1>1 DEF FilesMade, Creates, Made, Dir
<1>11. AgentsMade'
  <2>1. \A q, r \in Procs : MadeFor(q, cfg[r]) => MadeFor(q, cfg[r])'
    BY <1>1 DEF MadeFor, Creates, Dir
  <2> SUFFICES ASSUME NEW q \in Procs, meta'[q] # Absent, Dir(q)' \in fresh'
               PROVE  \E r \in Procs : MadeFor(r, cfg[q])'
                        /\ meta'[q].agents = [n \in 1..Count(cmd'[r]) |-> NewAgent(n)]
    BY DEF AgentsMade
  <2>2. CASE q = p
    <3>1. PICK r \in Procs : Creates(r) /\ Dir(r) = Dir(p) /\ file = Made(r)
      BY <1>1, <1>3, <2>2 DEF FilesMade, Dir, file
    <3>2. MadeFor(r, cfg[p])
      BY <3>1, ResumedIsMade DEF Dir, file
    <3>3. Loaded(Made(r)).agents = Made(r).agents
      BY DEF Loaded, Made, NewSwarm
    <3>4. Made(r).agents = [n \in 1..Count(cmd[r]) |-> NewAgent(n)]
      BY DEF Made, NewSwarm
    <3> QED
      BY <1>1, <1>5, <2>1, <2>2, <3>1, <3>2, <3>3, <3>4
  <2>3. CASE q # p
    <3>1. PICK r \in Procs : MadeFor(r, cfg[q])
                              /\ meta[q].agents = [n \in 1..Count(cmd[r]) |-> NewAgent(n)]
      BY <1>1, <1>5, <2>3 DEF AgentsMade, Dir
    <3> QED
      BY <1>1, <1>5, <2>1, <2>3, <3>1
  <2> QED
    BY <2>2, <2>3
<1> QED
  BY <1>6, <1>7, <1>8, <1>9, <1>10, <1>11

LEMMA LaunchInv ==
    ASSUME StartupInv, NEW p \in Procs, RunOnce(p) \/ Serve(p)
    PROVE  StartupInv'
<1> USE DEF StartupInv
<1>1. /\ Ready(p) /\ Launch(p) /\ (Goto(p, "exit 0") \/ Goto(p, "serving"))
      /\ UNCHANGED <<cmd, cfg, meta, todo, disk, agents, fresh>>
  BY DEF RunOnce, Serve
<1>2. meta[p] # Absent /\ pc[p] \in Started
  BY <1>1 DEF Ready, TypeOK, Started
<1>3. /\ pc' \in [Procs -> Places] /\ pc'[p] \in {"serving", "exit 0"}
      /\ \A q \in Procs \ {p} : pc'[q] = pc[q] /\ ran'[q] = ran[q]
      /\ DOMAIN ran' = Procs /\ ran'[p] = meta[p].agents
  BY <1>1 DEF Goto, Launch, TypeOK, Places
<1>4. TypeOK'
  BY <1>1, <1>2, <1>3 DEF TypeOK
<1>5. Phases'
  BY <1>1, <1>2, <1>3 DEF Phases, Started
<1>6. LaunchedLast'
  BY <1>1, <1>2, <1>3 DEF LaunchedLast
<1>7. CreatesItsOwn'
  BY <1>1 DEF CreatesItsOwn, Creates, Made
<1>8. FilesMade' /\ AgentsMade'
  BY <1>1 DEF FilesMade, AgentsMade, Creates, Made, MadeFor, Dir
<1> QED
  BY <1>4, <1>5, <1>6, <1>7, <1>8

LEMMA StartupNext == StartupInv /\ [Next]_vars => StartupInv'
<1> SUFFICES ASSUME StartupInv, [Next]_vars PROVE StartupInv'
  OBVIOUS
<1> TypeOK
  BY DEF StartupInv
<1>1. CASE UNCHANGED vars
  <2>1. Moves
    BY <1>1 DEF vars, Moves, MovesOn, TypeOK
  <2> QED
    BY <2>1, MovesInv
<1>2. ASSUME NEW p \in Procs,
             \/ \E c \in Commands : Invoke(p, c)
             \/ BeginCreate(p) \/ SaveSwarm(p) \/ SaveAgent(p) \/ SaveFails(p)
             \/ BeginResume(p) \/ LoadSwarm(p)
             \/ RunOnce(p) \/ Serve(p) \/ BindFails(p) \/ Stop(p) \/ Kill(p)
      PROVE  StartupInv'
  <2>1. CASE \E c \in Commands : Invoke(p, c)
    BY <2>1, InvokeInv
  <2>2. CASE BeginCreate(p)
    <3>1. disk[Dir(p)] = Absent \/ Moves
      BY <2>2, GotoMoves DEF BeginCreate, TypeOK, MovesOn, Started, Places, Goto
    <3> QED
      BY <2>2, <3>1, BeginCreateInv, MovesInv
  <2>3. CASE LoadSwarm(p)
    <3>1. Resumable(cfg[p], disk[Dir(p)]) \/ Moves
      BY <2>3, GotoMoves DEF LoadSwarm, TypeOK, MovesOn, Started, Places, Goto
    <3> QED
      BY <2>3, <3>1, LoadSwarmInv, MovesInv
  <2> QED
    BY <1>2, <2>1, <2>2, <2>3, SaveSwarmInv, SaveAgentMoves, ProcessMoves, MovesInv, LaunchInv
<1> QED
  BY <1>1, <1>2 DEF Next

-----------------------------------------------------------------------------
(* The theorems. *)

\* The invariant holds in every reachable state.
THEOREM StartupInvariant == Spec => []StartupInv
  BY StartupInit, StartupNext, PTL DEF Spec

\* Processes, memory and files have their types, and a process that saves,
\* has resumed or serves knows its swarm.
THEOREM StartupTypeCorrect == Spec => []TypeOK
  BY StartupInvariant, PTL DEF StartupInv

\* What a create has saved can be resumed.
LEMMA MadeIsResumable ==
    ASSUME TypeOK, Phases, NEW p \in Procs, Creates(p),
           Trimmed[cfg[p].swarm] = cfg[p].swarm
    PROVE  Resumable(cfg[p], Made(p)) /\ DOMAIN Made(p).agents = 1..Count(cmd[p])
<1>1. Made(p) \notin {Absent, Malformed}
  BY MadeIsRecord DEF Made, Creates, TypeOK, Phases
<1>2. /\ Made(p).swarm = cfg[p].swarm /\ Made(p).project = cfg[p].project
      /\ Made(p).mail = MailProject(cfg[p])
      /\ Made(p).agents = [n \in 1..Count(cmd[p]) |-> NewAgent(n)]
  BY DEF Made, NewSwarm
<1>3. \A n \in 1..Count(cmd[p]) :
          NewAgent(n).identity = Identity(n) /\ NewAgent(n).conversation = Conversation(n)
  BY DEF NewAgent
<1> QED
  BY <1>1, <1>2, <1>3 DEF Resumable, Valid, Agrees

\* Whatever happened to a create after it had written swarm.json, a resume
\* under the same configuration takes it from there.
THEOREM RetriesRecover == Spec => []RetryRecovers
<1>1. StartupInv => RetryRecovers
  BY MadeIsResumable DEF StartupInv, RetryRecovers, CreatesItsOwn
<1> QED
  BY <1>1, StartupInvariant, PTL

\* A runtime in a directory that was empty at first launches the agents that a
\* create for its own project and swarm was asked for.
THEOREM LaunchedAgentsAsCreated == Spec => []AgentsAsCreated
<1>1. StartupInv => AgentsAsCreated
  <2> SUFFICES ASSUME StartupInv, NEW p \in Procs, ran[p] # Absent, Dir(p) \in fresh
               PROVE  \E q \in Procs :
                         /\ Creates(q) /\ Dir(q) = Dir(p)
                         /\ cfg[q].project = cfg[p].project /\ cfg[q].swarm = cfg[p].swarm
                         /\ ran[p] = [n \in 1..Count(cmd[q]) |-> NewAgent(n)]
    BY DEF AgentsAsCreated
  <2>1. meta[p] # Absent /\ ran[p] = meta[p].agents
    BY DEF StartupInv, LaunchedLast
  <2> QED
    BY <2>1 DEF StartupInv, AgentsMade, MadeFor, Dir
<1> QED
  BY <1>1, StartupInvariant, PTL

\* Two runtimes never serve at one address, and a start that fails has
\* launched nothing.
THEOREM NothingLaunchedInVain == Spec => []FailedStartLaunchesNothing
<1> DEFINE Apart == \A p, q \in Procs :
        pc[p] = "serving" /\ pc[q] = "serving" /\ Address(p) = Address(q) => p = q
<1>1. Init => Apart
  BY DEF Init
<1>2. StartupInv /\ Apart /\ [Next]_vars => Apart'
  <2> SUFFICES ASSUME StartupInv, Apart, [Next]_vars PROVE Apart'
    OBVIOUS
  <2>1. CASE UNCHANGED vars
    BY <2>1 DEF vars, Address
  <2>2. ASSUME NEW p \in Procs, NEW c \in Commands, Invoke(p, c) PROVE Apart'
    <3>1. \A q \in Procs \ {p} : pc'[q] = pc[q] /\ cfg'[q] = cfg[q]
      BY <2>2 DEF Invoke, Goto, StartupInv, TypeOK
    <3>2. pc'[p] # "serving"
      BY <2>2 DEF Invoke, Goto, StartupInv, TypeOK
    <3> QED
      BY <3>1, <3>2 DEF Address
  <2>3. ASSUME NEW p \in Procs, Serve(p) PROVE Apart'
    <3>1. cfg' = cfg /\ \A q \in Procs \ {p} : pc'[q] = pc[q]
      BY <2>3 DEF Serve, Goto, StartupInv, TypeOK
    <3>2. \A q \in Procs : pc[q] = "serving" => Address(q) # Address(p)
      BY <2>3 DEF Serve
    <3> QED
      BY <3>1, <3>2 DEF Address
  <2>4. ASSUME NEW p \in Procs,
               \/ BeginCreate(p) \/ SaveSwarm(p) \/ SaveAgent(p) \/ SaveFails(p)
               \/ BeginResume(p) \/ LoadSwarm(p)
               \/ RunOnce(p) \/ BindFails(p) \/ Stop(p) \/ Kill(p)
        PROVE  Apart'
    <3>1. cfg' = cfg /\ \A q \in Procs : pc'[q] = "serving" => pc[q] = "serving"
      BY <2>4 DEF StartupInv, TypeOK, Goto, BeginCreate, SaveSwarm, SaveAgent, SaveFails,
                  BeginResume, LoadSwarm, RunOnce, BindFails, Stop, Kill
    <3> QED
      BY <3>1 DEF Address
  <2> QED
    BY <2>1, <2>2, <2>3, <2>4 DEF Next
<1>3. StartupInv /\ Apart => FailedStartLaunchesNothing
  BY DEF StartupInv, LaunchedLast, FailedStartLaunchesNothing
<1> QED
  BY <1>1, <1>2, <1>3, StartupInvariant, PTL DEF Spec

\* The command line's client looks for a runtime where one that was started in
\* the same environment serves.
THEOREM ClientsReachServers == Spec => []ClientReachesServer
<1>1. StartupInv => ClientReachesServer
  <2> SUFFICES ASSUME StartupInv, NEW p \in Procs, pc[p] = "serving"
               PROVE  ClientAddress(cmd[p].env) = Address(p)
    BY DEF ClientReachesServer
  <2> DEFINE env == cmd[p].env
             args == [NoArgs EXCEPT !.project = cmd[p].project]
             port == PortOf(args.port, env.port)
  <2>1. cfg[p] = Load(args, env) /\ cfg[p] # Invalid
    BY DEF StartupInv, Phases, Started, ConfigOf
  <2>2. args.port = Unset /\ args.host = Unset
    BY DEF NoArgs
  <2>3. cfg[p].host = HostOf(args.host, env.host) /\ cfg[p].port = port /\ PortAllowed(port)
    BY <2>1 DEF Load
  <2>4. cfg[p].host = Or(env.host, DefaultHost)
    BY <2>2, <2>3 DEF HostOf, Or
  <2>5. port # Blank
    BY <2>3, UnsetAssumption DEF PortAllowed
  <2>6. cfg[p].port = Or(env.port, DefaultPort)
    BY <2>2, <2>3, <2>5 DEF PortOf, Or
  <2> QED
    BY <2>4, <2>6 DEF ClientAddress, Address
<1> QED
  BY <1>1, StartupInvariant, PTL

\* Handing a resolved configuration on explicitly changes nothing, whatever
\* the environment says and however its paths were written.
THEOREM ConfigsAreStable == Spec => []ConfigIsStable
<1>1. StartupInv => ConfigIsStable
  BY ConfigReloads DEF StartupInv, Phases, ConfigIsStable
<1> QED
  BY <1>1, StartupInvariant, PTL

\* No number of ".." puts the metadata directory above its project, but for a
\* project right under the root.
THEOREM MetadataNeverAbove == Spec => []MetadataNotAbove
<1>1. StartupInv => MetadataNotAbove
  <2> SUFFICES ASSUME StartupInv, NEW p \in Procs, cfg[p] # Invalid,
                      IsStrictPrefix(Normal(Dir(p)), cfg[p].project)
               PROVE  Dir(p) = << >> /\ Len(cfg[p].project) = 1
    BY DEF MetadataNotAbove
  <2>1. cmd[p] \in Commands /\ cfg[p] = ConfigOf(cmd[p])
    BY DEF StartupInv, Phases
  <2>2. /\ cfg[p].project \in Seq(Name) /\ Dir(p) \in Seq(Name)
        /\ Located(Dir(p), cfg[p].project)
    BY <2>1, ConfigProperties DEF Dir
  <2>3. Normal(Dir(p)) = Dir(p)
    BY <2>2, NormalOfResolved
  <2> QED
    BY <2>2, <2>3, LocatedAbove
<1> QED
  BY <1>1, StartupInvariant, PTL
=============================================================================
