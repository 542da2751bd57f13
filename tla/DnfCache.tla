------------------------------- MODULE DnfCache -------------------------------
(* dnfcache: repository metadata in memory and the resolution over it.  A       *)
(* package is a record [name, arch, epoch, version, release, modular, href,     *)
(* requires, recommends, provides]; version and release are the sequences of    *)
(* their numbers.  A dependency is a record [kind, names]: "plain" has one name,*)
(* "rich" is a boolean expression with the names that occur in it, "rpmlib" a   *)
(* feature of the format.                                                      *)
EXTENDS Visitor, Functions

CONSTANT HostArch

\* rpmutils.Vercmp passes over what separates the numbers of a string, the
\* hyphen between version and release included.
Vercmp(a, b) ==
    LET differ == {i \in DOMAIN a \cap DOMAIN b : a[i] # b[i]}
        i == CHOOSE j \in differ : \A m \in differ : j <= m
    IN  IF differ = {} THEN Len(a) - Len(b) ELSE a[i] - b[i]

EVRString(p) == <<p.epoch>> \o p.version \o p.release

NewerEVR(existing, candidate) == Vercmp(EVRString(candidate), EVRString(existing)) > 0

\* Downloadable, then of the host's architecture, then noarch, then newer.
ShouldReplace(existing, candidate) ==
    \/ existing.href = "" /\ candidate.href # ""
    \/ existing.arch # candidate.arch /\ candidate.arch = HostArch
    \/ existing.arch # candidate.arch /\ candidate.arch = "noarch" /\ existing.arch # HostArch
    \/ existing.arch = candidate.arch /\ NewerEVR(existing, candidate)

\* The documents of all modules.yaml files, [file, document, module, stream, rpms], file
\* by file; the first default of a module counts.
DefaultStream(docs) ==
    LET defaults == SelectSeq(docs, LAMBDA d : d.document = "modulemd-defaults") IN
    [m \in {defaults[n].module : n \in DOMAIN defaults} |->
        SelectSeq(defaults, LAMBDA d : d.module = m)[1].stream]

\* The builds of every stream that is not the default of its module, if the module's
\* default is known when the stream's file has been read.
BuildBlockedNVRA(docs) ==
    LET Known(file) == DefaultStream(SelectSeq(docs, LAMBDA d : d.file <= file)) IN
    UNION {docs[n].rpms : n \in {m \in DOMAIN docs :
        /\ docs[m].document = "modulemd"
        /\ docs[m].module \in DOMAIN Known(docs[m].file)
        /\ docs[m].stream # Known(docs[m].file)[docs[m].module]}}

PackageNVRA(p) == <<p.name, EVRString(p), p.arch>>

IsBlockedByModuleFilter(docs, p) ==
    /\ DOMAIN DefaultStream(docs) # {}
    /\ p.modular
    /\ PackageNVRA(p) \in BuildBlockedNVRA(docs)

NewCache(docs) == [packages |-> <<>>, providers |-> <<>>, modules |-> docs]

At(f, x) == IF x \in DOMAIN f THEN f[x] ELSE <<>>

\* The providers' lists keep what lost, and what does not provide its own name.
AddPackage(c, p) ==
    LET wins == p.name \notin DOMAIN c.packages \/ ShouldReplace(c.packages[p.name], p)
        caps == {p.provides[n] : n \in DOMAIN p.provides} \ {p.name}
    IN  IF IsBlockedByModuleFilter(c.modules, p) THEN c
        ELSE [c EXCEPT
                !.packages = [n \in DOMAIN @ \cup {p.name} |->
                                IF n = p.name /\ wins THEN p ELSE c.packages[n]],
                !.providers = [v \in DOMAIN @ \cup caps |->
                                IF v \in caps THEN Append(At(c.providers, v), p)
                                ELSE c.providers[v]]]

\* buildPackageInfo: sources are not packages, rpmlib features no dependencies.
BuildPackageInfo(pkg) ==
    LET Real(deps) == Kept(deps, {d \in Range(deps) : d.kind # "rpmlib"}) IN
    [pkg EXCEPT !.requires = Real(@), !.recommends = Real(@)]

\* A file of primary metadata, parsed under the cache's mutex.
ParsePrimaryXML(c, packages) ==
    LET parsed[n \in 0..Len(packages)] ==
          IF n = 0 THEN c
          ELSE IF packages[n].arch = "src" THEN parsed[n - 1]
          ELSE AddPackage(parsed[n - 1], BuildPackageInfo(packages[n]))
    IN  parsed[Len(packages)]

\* The first of the host's architecture, else the first noarch, else the first.
PickProvider(providers) ==
    LET Of(a) == Kept(providers, {p \in Range(providers) : p.arch = a}) IN
    (Of(HostArch) \o Of("noarch") \o providers)[1]

Dependency == [kind : {"plain", "rich", "rpmlib"}, names : Seq(STRING) \ {<<>>}]

Package ==
    [name : STRING, arch : STRING, epoch : Int, version : Seq(Int), release : Seq(Int),
     modular : BOOLEAN, href : STRING, requires : Seq(Dependency), recommends : Seq(Dependency),
     provides : Seq(STRING)]

VisitState == [seen : SUBSET Dependency, order : Seq(Package), unresolved : Seq(STRING)]

Plainly(name) == [kind |-> "plain", names |-> <<name>>]

\* The names of a boolean dependency, without operators and versions.
ExpandBooleanDep(dep) == [n \in DOMAIN dep.names |-> Plainly(dep.names[n])]

Each(deps, soft) == [n \in DOMAIN deps |-> <<deps[n], soft>>]

\* A node is a dependency, and whether it may be missing; have is what the rpmdb has
\* installed and provides.  What a boolean dependency names may be missing.  Nothing is
\* visited from what is installed, whatever the comment on ResolveDeps says.
Graph(c, have) ==
    [node \in Dependency \X BOOLEAN |->
        LET dep == node[1]   soft == node[2]
            name == dep.names[1]
            asked == dep.kind # "rich" /\ name \notin have
            found == asked /\ name \in DOMAIN c.packages
            provided == asked /\ ~found /\ At(c.providers, name) # <<>>
            p == c.packages[name]
        IN  [mark   |-> dep,
             next   |-> IF dep.kind = "rich" THEN Each(ExpandBooleanDep(dep), TRUE)
                        ELSE IF found THEN Each(p.requires, FALSE) \o Each(p.recommends, TRUE)
                        ELSE IF provided
                        THEN <<<<Plainly(PickProvider(c.providers[name]).name), soft>>>>
                        ELSE <<>>,
             adds   |-> IF found THEN <<p>> ELSE <<>>,
             misses |-> IF asked /\ ~found /\ ~provided /\ ~soft THEN <<name>> ELSE <<>>]]

\* Seeds are plain dependencies.
ResolveDeps(c, have, seeds) == VisitAll(VisitState, Graph(c, have), Each(seeds, FALSE))
================================================================================
