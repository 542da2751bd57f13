------------------------------- MODULE Manifest -------------------------------
(* A collection of projects, as pkg/project knows it once populateProjects has *)
(* parsed every PKGBUILD of a yap.json: what BuildAll schedules.  A project is *)
(* identified with the PkgName its PKGBUILD declares; dependencies on packages *)
(* outside the collection are left out, because processDependencies drops them.*)
EXTENDS Integers, Sequences, FiniteSets

CONSTANTS
    Project,     \* the packages that may appear in a collection
    NoProject,   \* the empty --from / --to flag
    Manifests    \* the collections (and flags) considered

\* mpc.Projects and the options of BuildOptions that BuildAll reads.
ManifestType ==
    [ order       : Seq(Project),                  \* mpc.Projects, file order
      depends     : [Project -> SUBSET Project],   \* PKGBUILD.Depends
      makeDepends : [Project -> SUBSET Project],   \* PKGBUILD.MakeDepends
      install     : SUBSET Project,                \* "install": true
      split       : SUBSET Project,                \* IsSplitPackage()
      from        : Project \cup {NoProject},      \* Opts.FromPkgName
      to          : Project \cup {NoProject},      \* Opts.ToPkgName
      noBuild     : BOOLEAN ]                      \* Opts.NoBuild

ASSUME ManifestAssumption ==
    /\ IsFiniteSet(Project)
    /\ NoProject \notin Project
    /\ Manifests \subseteq ManifestType
    /\ \A m \in Manifests : \A i, j \in 1 .. Len(m.order) :
          m.order[i] = m.order[j] => i = j

Listed(m) == {m.order[i] : i \in 1 .. Len(m.order)}

\* checkPkgsRange: both ends must exist, and in this order.
RangeIsValid(m) ==
    /\ {m.from, m.to} \subseteq Listed(m) \cup {NoProject}
    /\ \A i, j \in 1 .. Len(m.order) :
          m.order[i] = m.from /\ m.order[j] = m.to => i <= j

\* getProjectsInRange: from the first match of --from to the next of --to.
InRange(m) ==
    LET Started(i) == m.from = NoProject \/ \E j \in 1 .. i : m.order[j] = m.from
    IN  {m.order[i] : i \in {k \in 1 .. Len(m.order) :
            Started(k) /\ \A j \in 1 .. k - 1 : ~(Started(j) /\ m.order[j] = m.to)}}

\* What must be built before p, of either kind.
Needs(m, p) == m.depends[p] \cup m.makeDepends[p]

\* The package the other projects know p by, and the one InstallOrExtract finds
\* when it is to install p: the artifact of PkgName, which in a split project names
\* the last sub-package once they are packaged, and the first one before.
Own(p) == <<p, "own">>
Extracted(m, p) == IF p \in m.split THEN <<p, "last">> ELSE Own(p)
Artifacts == Project \X {"own", "last"}

\* The projects InstallOrExtract has been through.
OnRoot(m, root) == {p \in Project : Extracted(m, p) \in root}

\* calculateDependencyPopularity: a package named in both lists counts twice,
\* and the packages outside the range count as well.
Popularity(m, p) ==
    Cardinality({q \in Listed(m) : p \in m.depends[q]})
      + Cardinality({q \in Listed(m) : p \in m.makeDepends[q]})

\* buildRuntimeDependencyMap: what some project of the file needs at run time.
RuntimeDependencies(m) == (UNION {m.depends[q] : q \in Listed(m)}) \cap Listed(m)

\* The orders sort.Slice may leave a batch in: by decreasing popularity, with
\* ties as Go's map iteration happened to deliver them.
PopularityOrders(m, S) ==
    {s \in [1 .. Cardinality(S) -> S] :
        /\ {s[i] : i \in DOMAIN s} = S
        /\ \A i, j \in DOMAIN s :
              i < j => s[i] # s[j] /\ Popularity(m, s[i]) >= Popularity(m, s[j])}
================================================================================
