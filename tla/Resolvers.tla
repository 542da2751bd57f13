------------------------------- MODULE Resolvers -------------------------------
(* From the files of repositories to the packages of an installation, for each   *)
(* package manager: load the index, resolve the seeds.  A world is what is on    *)
(* disk: [manager, files, status, docs, have, seeds], files being a sequence of  *)
(* [repo, stanzas] (apt), or [repo, packages].                                   *)
EXTENDS Visitor, FiniteSets, Functions

CONSTANTS
    HostArch,
    Worlds,
    Ranked          \* Debian version strings from the oldest to the newest

Apt == INSTANCE AptCache
Dnf == INSTANCE DnfCache
Apk == INSTANCE ApkIndex

\* An index has a file for each version; what dpkg's status keeps of a package that
\* was removed has a version and no file.
IsAptWorld(w) ==
    /\ w.files \in Seq([repo : STRING, stanzas : Seq(Apt!Stanza)])
    /\ w.status \in Seq(Apt!Stanza)
    /\ w.seeds \in Seq(STRING \X STRING)
    /\ \A s \in (UNION {Range(list.stanzas) : list \in Range(w.files)}) \cup Range(w.status) :
          s.version \in {<<>>} \cup Range(Ranked)
    /\ \A list \in Range(w.files) : \A s \in Range(list.stanzas) : s.version # <<>> => s.file # ""

\* The metadata say where each package is.
IsDnfWorld(w) ==
    /\ w.files \in Seq([repo : STRING, packages : Seq({p \in Dnf!Package : p.href # ""})])
    /\ w.have \subseteq STRING
    /\ w.seeds \in Seq(Dnf!Dependency)

IsApkWorld(w) ==
    /\ w.files \in Seq([repo : STRING, packages : Seq(Apk!Package)])
    /\ w.seeds \in Seq(Apk!Dependency)

\* The empty string stands for what is not there.
ASSUME ResolversAssumption ==
    /\ "" \in STRING
    /\ HostArch \in STRING \ {"", "all", "noarch", "src"}
    /\ \A w \in Worlds :
          \/ w.manager = "apt" /\ IsAptWorld(w)
          \/ w.manager = "dnf" /\ IsDnfWorld(w)
          \/ w.manager = "apk" /\ IsApkWorld(w)

\* Each is older than the next.
ASSUME RankedAssumption ==
    /\ Ranked \in Seq(Seq(Apt!Byte) \ {<<>>})
    /\ \A n \in 1..(Len(Ranked) - 1) : Apt!CompareDebVersion(Ranked[n], Ranked[n + 1]) < 0

VARIABLES
    world,
    todo,     \* files not parsed yet; apt and apk have one step for all
    fetched,  \* repositories that could be read
    cache,
    result    \* of ResolveDeps

vars == <<world, todo, fetched, cache, result>>

Repos(w) == {w.files[n].repo : n \in DOMAIN w.files}

None == [resolved |-> FALSE, order |-> <<>>, unresolved |-> <<>>]

Init ==
    /\ world \in Worlds
    /\ todo = IF world.manager = "dnf" THEN DOMAIN world.files ELSE {0}
    /\ fetched \in IF world.manager = "apk" THEN SUBSET Repos(world) ELSE {Repos(world)}
    /\ cache = CASE world.manager = "apt" -> Apt!NewEmptyCache
                 [] world.manager = "dnf" -> Dnf!NewCache(world.docs)
                 [] world.manager = "apk" -> Apk!NewIndex
    /\ result = None

\* The lists are parsed apart from each other and merged in their order.
LoadApt ==
    /\ world.manager = "apt" /\ todo # {}
    /\ cache' = Apt!LoadFromDisk(world.files, world.status)
    /\ todo' = {}
    /\ UNCHANGED <<world, fetched, result>>

\* The workers parse into one cache, a file at a time, in any order.
LoadDnf(f) ==
    /\ world.manager = "dnf"
    /\ cache' = Dnf!ParsePrimaryXML(cache, world.files[f].packages)
    /\ todo' = todo \ {f}
    /\ UNCHANGED <<world, fetched, result>>

\* Some repositories may not be reachable.
LoadApk ==
    /\ world.manager = "apk" /\ todo # {}
    /\ cache' = Apk!Update(world.files, fetched)
    /\ todo' = {}
    /\ UNCHANGED <<world, fetched, result>>

\* GetDepends asks apt for what is not installed, and for providers of what is virtual.
Seeds ==
    IF world.manager # "apt" THEN world.seeds
    ELSE LET missing == Apt!FilterInstalledDEB(cache, world.seeds)
         IN  [n \in DOMAIN missing |-> Apt!ResolveVirtual(cache, missing[n])]

Resolve ==
    /\ todo = {} /\ ~result.resolved
    /\ LET r == CASE world.manager = "apt" -> Apt!ResolveDeps(cache, Seeds)
                  [] world.manager = "dnf" -> Dnf!ResolveDeps(cache, world.have, Seeds)
                  [] world.manager = "apk" -> Apk!ResolveDeps(cache, Seeds)
           order == IF world.manager = "apt" THEN Apt!FilterForeignArchPackages(cache, r.order)
                    ELSE r.order
       IN  result' = [resolved |-> TRUE, order |-> order, unresolved |-> r.unresolved]
    /\ UNCHANGED <<world, fetched, todo, cache>>

Next ==
    \/ LoadApt
    \/ \E f \in todo : LoadDnf(f)
    \/ LoadApk
    \/ Resolve

Spec == Init /\ [][Next]_vars

--------------------------------------------------------------------------------

\* What each name, dependency or key leads to, and where the resolution starts.
Graph ==
    CASE world.manager = "apt" -> Apt!Graph(cache)
      [] world.manager = "dnf" -> Dnf!Graph(cache, world.have)
      [] world.manager = "apk" -> Apk!Graph(cache)

Start ==
    CASE world.manager = "apt" -> Seeds
      [] world.manager = "dnf" -> Dnf!Each(Seeds, FALSE)
      [] world.manager = "apk" -> Apk!Nodes(Seeds)

Closure == Reach(Graph, Range(Start))

\* What is installed for a node: of apt's packages, those that run here or may
\* stand beside the host's.
Planned(x) ==
    {p \in Range(Graph[x].adds) :
        world.manager = "apt" => \/ cache.entries[p].arch \in {"", "all", HostArch}
                                 \/ cache.entries[p].multiArch = "same"}

\* The depth-first visitors, which mark a node before they enter it, end with the
\* closure of the seeds under dependencies, providers, the inheritance of an
\* architecture and the redirection of multi-arch tools: nothing that is needed is
\* left out because of a cycle or of what was seen first, and nothing is added.
PlanIsTheClosure ==
    result.resolved => Range(result.order) = UNION {Planned(x) : x \in Closure}

\* Every package of the plan stands there for a node, and comes after all that is
\* installed for what the node leads to and for all that leads to in turn, unless that
\* leads back to the node, or to one the code knows by the same mark.
DependenciesFirst ==
    result.resolved =>
        \A i \in DOMAIN result.order : \E x \in Closure :
            /\ result.order[i] \in Planned(x)
            /\ \A y \in Range(Graph[x].next) :
                  (\A z \in Reach(Graph, {y}) : Graph[z].mark # Graph[x].mark) =>
                      \A p \in UNION {Planned(z) : z \in Reach(Graph, {y})} :
                          \E m \in 1..(i - 1) : result.order[m] = p

\* "Already-installed packages ... are skipped but their dependency edges are still walked
\* so transitive-only packages are pulled in": what an installed package of the closure
\* requires, by name, is installed or in the plan, if it is offered.
InstalledEdgesWalked ==
    result.resolved /\ world.manager = "dnf" =>
        \A x \in Closure :
            LET name == x[1].names[1] IN
            x[1].kind # "rich" /\ name \in world.have \cap DOMAIN cache.packages =>
                \A d \in Range(cache.packages[name].requires) :
                    d.kind = "plain" /\ d.names[1] \in DOMAIN cache.packages \ world.have =>
                        \E i \in DOMAIN result.order : result.order[i].name = d.names[1]

Rank(v) == CHOOSE n \in DOMAIN Ranked : Ranked[n] = v

\* What the lists offer for a key: stanzas with a version, and the URL of their
\* repository.
OffersOf(key) ==
    UNION {{[stanza |-> s, repo |-> list.repo] : s \in {t \in Range(list.stanzas) :
              Apt!EntryKey(t.name, t.arch) = key /\ t.version # <<>>}} : list \in Range(world.files)}

\* dpkg has the version of what is installed, and keeps that of a package that was
\* removed but for its configuration: the code takes it for one that is offered if it is
\* newer than all that are.
Overtaken(key) ==
    \E s \in Range(world.status) :
        /\ Apt!EntryKey(s.name, s.arch) = key /\ s.version # <<>>
        /\ \A o \in OffersOf(key) : Rank(o.stanza.version) < Rank(s.version)

\* In whatever order the files of the repositories are read, a package is offered in
\* the newest version there is (of the host's architecture if there is one, for dnf; of
\* the first repository that could be read, for apk), and, for apt, its file is a file of
\* that version, from the repository it is asked from.
NewestIsOffered ==
    todo = {} =>
      CASE world.manager = "apt" ->
             \A key \in DOMAIN cache.entries :
                LET e == cache.entries[key] IN
                OffersOf(key) # {} /\ ~Overtaken(key) =>
                  /\ \A o \in OffersOf(key) : Rank(o.stanza.version) <= Rank(e.version)
                  /\ \E o \in OffersOf(key) :
                        /\ o.stanza.version = e.version
                        /\ o.stanza.file = e.file
                        /\ e.arch \notin {"", "all"} /\ o.repo # "" => o.repo = e.repo
        [] world.manager = "dnf" ->
             \A n \in DOMAIN cache.packages :
                LET p == cache.packages[n]
                    offers == {o \in UNION {Range(f.packages) : f \in Range(world.files)} :
                                 /\ o.name = n /\ o.arch # "src"
                                 /\ ~Dnf!IsBlockedByModuleFilter(world.docs, o)}
                    Of(a) == {o \in offers : o.arch = a}
                IN  /\ Of(HostArch) # {} => p.arch = HostArch
                    /\ Of(HostArch) = {} /\ Of("noarch") # {} => p.arch = "noarch"
                    /\ \A o \in Of(p.arch) :
                          Dnf!Vercmp(Dnf!EVRString(o), Dnf!EVRString(p)) <= 0
        [] world.manager = "apk" ->
             \A n \in DOMAIN cache.packages :
                LET having == {i \in DOMAIN world.files :
                                 /\ world.files[i].repo \in fetched
                                 /\ \E p \in Range(world.files[i].packages) : p.name = n}
                IN  \E i \in having : /\ cache.packages[n].repo = world.files[i].repo
                                      /\ \A j \in having : i <= j
================================================================================
