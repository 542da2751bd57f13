------------------------------ MODULE Installers ------------------------------
(* The three installers on their hosts, and what they promise.                 *)
EXTENDS AptInstall, DnfInstall, ApkInstall

Step(i) ==
    \/ Fetch(i) \/ ExtractFails(i) \/ OpenYapdb(i) \/ InitSchema(i)
    \/ RecordInstalled(i, IF format = "deb" THEN "writeStatus" ELSE "rpmdb")
    \/ AptStep(i) \/ DnfStep(i) \/ ApkStep(i)

Next ==
    \/ \E i \in Process : Step(i) \/ Crash(i) \/ \E names \in Request : Install(i, names)
    \/ RepositoryMoves

Spec == Init /\ [][Next]_vars

\* A process that is in a call goes on; flock is fair enough to serve one that
\* keeps asking, and a poller of the lock gives up after thirty seconds.
FairSpec == Spec /\ \A i \in Process : WF_vars(Step(i)) /\ SF_vars(AcquireDpkgLock(i))

--------------------------------------------------------------------------------

PCs == Ended \cup
    {"lock", "load", "fetch", "install", "preinst", "extract", "write", "status", "open",
     "schema", "insert", "writeStatus", "postinst", "verify", "pretrans", "prein",
     "postin", "rpmdb", "rpmdbSchema", "rpmdbInsert", "posttrans", "stanzas", "writeStanzas"}

NativeEntry == [state : {"none", "installed", "unpacked", "nameless"}, version : Version]

\* Every variable keeps its type.
TypeOK ==
    /\ format \in Formats /\ opts \in OptionSets
    /\ offered \in 1..MaxVersion /\ calls \in 0..MaxCalls
    /\ fs \in [Path -> {Absent, Torn} \cup [kind : {"file", "link"}, of : Package, version : Version]]
    /\ yapdb.tables \subseteq {"packages", "files", "caps", "meta"}
    /\ native \in [Package -> NativeEntry]
    /\ rpmdb \in {"missing", "new", "cut", "used"}
    /\ lock \in Process \cup {NoProcess}
    /\ pc \in [Process -> PCs]
    /\ plan \in [Process -> Seq(Package)]
    /\ recorded \in [Package -> Version]
    /\ unrecorded \subseteq Package /\ lost \subseteq Package

Holds(e, p, v) ==
    CASE e.type = "skip"    -> TRUE
      [] e.type = "symlink" -> fs[e.path] = Link(p, v)
      [] e.type = "conf"    -> IF format = "deb" THEN fs[e.path] # Absent ELSE fs[e.path] = File(p, v)
      [] OTHER              -> fs[e.path] = File(p, v)

\* Between two installations the state database and the disk agree: a package
\* that has been recorded since it was last unpacked is on disk, all of it, at
\* the version of the record, however the calls of two processes interleave and
\* whichever crashed before.  A conffile dpkg's rules kept need only exist.
RecordMatchesDisk ==
    \A p \in Package : recorded[p] # 0 /\ p \notin unrecorded =>
        \A n \in DOMAIN Contents[p] : Holds(Contents[p][n], p, recorded[p])

\* installed.db answers with what was recorded last: one version, the files and
\* capabilities of that version and none of an older record's, whose rows the
\* replacement of a package leaves behind.
RecordIsCurrent ==
    \A p \in Package : recorded[p] # 0 =>
        LET r == LookupByName(yapdb, p) IN
        /\ IsInstalled(yapdb, p) /\ [name |-> p, version |-> recorded[p]] \in List(yapdb)
        /\ r.versions = {recorded[p]} /\ r.caps = {<<p, recorded[p]>>}
        /\ r.files = Listed(Contents[p])
        /\ ProvidersOf(yapdb, p) = {p}

\* What the host's package manager knew of, and what an installer added under a
\* name, is never dropped from its database by the installation of another
\* package, in whatever order two processes read and write it.
NativeKept == lost = {}

InPlace(p) ==
    \A n \in DOMAIN Contents[p] :
        LET e == Contents[p][n] IN
        e.type # "skip" => fs[e.path].kind \in {"file", "link"} \/ (e.type = "conf" /\ fs[e.path] # Absent)

Scripts == {"preinst", "postinst", "pretrans", "prein", "postin", "posttrans"}

\* When a script of a package runs, all that the package requires is on disk: it
\* was there, or this call has put it there before, and no other process is in
\* the middle of replacing it.  Only a call that ended in the middle of unpacking
\* it (it is then in unrecorded) may have left less.
DependenciesInPlace ==
    \A i \in Process : pc[i] \in Scripts =>
        /\ \A q \in Requires[P(i)] \ unrecorded : InPlace(q)
        /\ \A j \in Process : pc[j] \in {"extract", "write"} => P(j) \notin Requires[P(i)]

\* A call that ends well leaves every package of its plan on disk, and recorded
\* unless it is an apk.
SuccessIsInstalled ==
    [][\A i \in Process : pc[i] = "install" /\ pc'[i] = "done" =>
          \A n \in DOMAIN plan[i] : LET p == plan[i][n] IN
              (p \notin unrecorded => InPlace(p)) /\ (format # "apk" => recorded[p] # 0)]_vars

\* Every call returns: nobody waits for ever for a lock whose holder failed,
\* crashed or is itself waiting.
CallsReturn == \A i \in Process : pc[i] \notin Ended ~> pc[i] \in Ended

--------------------------------------------------------------------------------

\* The comment on yapdb's Insert, "old files and caps are deleted via CASCADE":
\* every row of files belongs to a package.
ChildrenDeleted == \A f \in yapdb.files : \E r \in yapdb.rows : r.id = f.id

\* InstallPackages' comment, "updates /lib/apk/db/installed. Replaces apk add":
\* the packages of a call that succeeded are in it.
ApkRegistered ==
    [][\A i \in Process : format = "apk" /\ pc[i] = "install" /\ pc'[i] = "done" =>
          \A n \in DOMAIN plan[i] : native[plan[i][n]] # NotThere]_vars
================================================================================
