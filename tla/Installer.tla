------------------------------- MODULE Installer -------------------------------
(* What the package installers share: processes that call Install on one root,  *)
(* the files, the state database and the native database under it, the lock,    *)
(* and the package repository, which moves on to newer versions.  The steps of   *)
(* each format are in AptInstall, DnfInstall and ApkInstall.                    *)
EXTENDS Yapdb, Payload

CONSTANTS
    Process,      \* processes that install
    Package,
    Path,
    Contents,     \* the payload of each package
    Requires,     \* the packages each one depends on
    Request,      \* the names a call may be given
    Formats,      \* the package formats the host may have
    OptionSets,   \* the options a host's calls may be made with
    Resolve(_, _, _),   \* ResolveDeps of a format for names, given what is installed
    MaxVersion,   \* bound: versions a repository offers
    MaxCalls,     \* bound: calls of Install
    NoProcess

Options == {"root", "native", "strict", "unverified"}

ASSUME InstallerAssumption ==
    /\ MaxVersion \in Nat \ {0} /\ MaxCalls \in Nat
    /\ NoProcess \notin Process /\ NoPackage \notin Package
    /\ Request \subseteq Seq(Package)
    /\ Requires \in [Package -> SUBSET Package]
    /\ Formats \subseteq {"deb", "rpm", "apk"}
    /\ OptionSets \subseteq SUBSET Options
    /\ Contents \in [Package -> Seq([path : Path, type : EntryTypes, to : Path])]
    /\ \A p, q \in Package : p # q => Listed(Contents[p]) \cap Listed(Contents[q]) = {}

\* An archive holds a path once, and a hardlink of it names a regular file of the
\* same archive: an earlier one in a tar archive, any one in an rpm's cpio archive.
ASSUME PayloadAssumption ==
    \A p \in Package : LET c == Contents[p] IN
        /\ \A m, n \in DOMAIN c :
              c[m].type # "skip" /\ c[n].type # "skip" /\ c[m].path = c[n].path => m = n
        /\ \A n \in DOMAIN c : c[n].type = "hardlink" =>
              \E m \in DOMAIN c : /\ c[m].type = "reg" /\ c[m].path = c[n].to
                                 /\ (m < n \/ Formats \subseteq {"rpm"})

\* What Resolvers checks of ResolveDeps where no package requires itself: a plan
\* has what its packages require before them, unless it was installed.  A name dnf
\* cannot resolve is none of a package, and takes nothing from the plan.
ASSUME ResolveAssumption ==
    \A f \in Formats, names \in Request, installed \in SUBSET Package :
        LET r == Resolve(f, names, installed) IN
        /\ r.plan \in Seq(Package)
        /\ f = "rpm" \/ ~r.unresolved => \A n \in DOMAIN r.plan :
              \A q \in Requires[r.plan[n]] \ installed : \E m \in 1..(n - 1) : r.plan[m] = q

VARIABLES
    format,      \* the host's package format
    opts,        \* options of its calls: AllowRootInstall, WriteDpkgStatus or
                 \* WriteSystemRpmdb, StrictScriptlets, AllowUnverified...
    offered,     \* version of every package in the repository
    calls,       \* calls made so far
    fs,          \* the files
    yapdb,       \* var/lib/yap/installed.db
    native,      \* state and version of each package in the native database
    rpmdb,       \* rpmdb.sqlite: "missing", "new" (no table), "cut" (some tables) or "used"
    lock,        \* who holds the install lock
    pc,          \* where the call of each process is
    cache,       \* package cache of a process: its version and what was installed
    plan,        \* packages of the call, dependencies first
    k,           \* the package at hand
    at,          \* the payload entry at hand
    snap,        \* the native database as read
    phase,       \* of a deb: "unpacking", "installed" or, postinst failed, "unconfigured"
    recorded,    \* history: the version last recorded of each package
    unrecorded,  \* history: packages that were extracted since they were recorded
    lost         \* history: a version of a package vanished from the native database

vars == <<format, opts, offered, calls, fs, yapdb, native, rpmdb, lock, pc, cache,
          plan, k, at, snap, phase, recorded, unrecorded, lost>>

hostVars    == <<format, opts, offered, calls>>
diskVars    == <<fs, unrecorded>>
dbVars      == <<yapdb, recorded>>
nativeVars  == <<native, rpmdb, lost>>
callVars    == <<cache, plan>>

Version == 0..MaxVersion
NotThere == [state |-> "none", version |-> 0]
NoCache  == [version |-> 0, installed |-> {}]

Ended == {"idle", "done", "failed"}

P(i) == plan[i][k[i]]

Goto(i, l) == pc' = [pc EXCEPT ![i] = l]

Fail_KeepsLock(i) == Goto(i, "failed") /\ UNCHANGED lock

\* An error ends the call; a deferred Release or release() gives up the lock.
Fail(i) ==
    /\ Goto(i, "failed")
    /\ lock' = IF lock = i THEN NoProcess ELSE lock

\* Of a host some packages may be installed before, by its own package manager.
Init ==
    /\ format \in Formats
    /\ opts \in OptionSets
    /\ offered = 1 /\ calls = 0
    /\ native \in [Package -> {NotThere, [state |-> "installed", version |-> 0]}]
    /\ \A p \in Package : native[p] # NotThere =>
          \A q \in Requires[p] : native[q] # NotThere
    /\ fs = [f \in Path |->
               IF \E p \in Package : native[p] # NotThere /\ f \in Listed(Contents[p])
               THEN LET p == CHOOSE q \in Package : f \in Listed(Contents[q]) IN
                    IF \E n \in DOMAIN Contents[p] :
                          Contents[p][n].path = f /\ Contents[p][n].type = "symlink"
                    THEN Link(p, 0) ELSE File(p, 0)
               ELSE Absent]
    /\ rpmdb \in IF format = "rpm" THEN {"missing", "new", "used"} ELSE {"missing"}
    /\ yapdb = Blank
    /\ lock = NoProcess
    /\ pc = [i \in Process |-> "idle"]
    /\ cache = [i \in Process |-> NoCache]
    /\ plan = [i \in Process |-> <<>>]
    /\ k = [i \in Process |-> 1] /\ at = [i \in Process |-> 1]
    /\ snap = [i \in Process |-> native]
    /\ phase = [i \in Process |-> "unpacking"]
    /\ recorded = [p \in Package |-> 0]
    /\ unrecorded = {} /\ lost = {}

--------------------------------------------------------------------------------

\* A call of Install; resolveRootDir and the apk's check of its options come
\* first.  The apk installer has no lock: one call at a time.
Install(i, names) ==
    /\ pc[i] \in Ended /\ calls < MaxCalls
    /\ format = "apk" => \A j \in Process : pc[j] \in Ended
    /\ calls' = calls + 1
    /\ plan' = [plan EXCEPT ![i] = names]
    /\ LET allowed == IF format = "apk" THEN "unverified" \in opts ELSE "root" \in opts
       IN  Goto(i, IF names = <<>> THEN "done"
                   ELSE IF ~allowed THEN "failed"
                   ELSE IF format = "deb" THEN "lock" ELSE "load")
    /\ UNCHANGED <<format, opts, offered, diskVars, dbVars, nativeVars, lock, cache,
                   k, at, snap, phase>>

\* Load answers with the cache a process already has, if any.
Loaded(i) ==
    IF cache[i].version = 0
    THEN [version |-> offered, installed |-> {p \in Package : native[p].state = "installed"}]
    ELSE cache[i]

Prepared_Reversed(i, packages) ==
    /\ plan' = [plan EXCEPT ![i] = [n \in DOMAIN packages |-> packages[Len(packages) + 1 - n]]]
    /\ k' = [k EXCEPT ![i] = 1]
    /\ IF packages = <<>> THEN Goto(i, "done") /\ lock' = IF lock = i THEN NoProcess ELSE lock
                          ELSE Goto(i, "fetch") /\ UNCHANGED lock

\* The closure becomes the plan; an empty one is a success at once.
Prepared(i, packages) ==
    /\ plan' = [plan EXCEPT ![i] = packages]
    /\ k' = [k EXCEPT ![i] = 1]
    /\ IF packages = <<>> THEN Goto(i, "done") /\ lock' = IF lock = i THEN NoProcess ELSE lock
                          ELSE Goto(i, "fetch") /\ UNCHANGED lock

\* All archives are downloaded, and a deb's parsed, before the first is installed.
Fetch(i) ==
    /\ pc[i] = "fetch"
    /\ \/ Goto(i, "install") /\ UNCHANGED lock
       \/ Fail(i)
    /\ UNCHANGED <<hostVars, diskVars, dbVars, nativeVars, callVars, k, at, snap, phase>>

\* A script of the package runs; if it fails the call goes on or ends.
RunScript(i, here, next, fatal) ==
    /\ pc[i] = here
    /\ \/ Goto(i, next) /\ UNCHANGED lock
       \/ fatal /\ Fail(i)
    /\ at' = [at EXCEPT ![i] = 1]
    /\ UNCHANGED <<hostVars, diskVars, dbVars, nativeVars, callVars, k, snap, phase>>

\* A disk that is full, a damaged archive, a context that was cancelled.
ExtractFails(i) ==
    /\ pc[i] \in {"extract", "write"}
    /\ Fail(i)
    /\ UNCHANGED <<hostVars, diskVars, dbVars, nativeVars, callVars, k, at, snap, phase>>

\* The next entry of the payload brings the files to disk', or there is none.
Extract(i, disk, after) ==
    /\ pc[i] = "extract"
    /\ LET n == at[i] IN
       IF n > Len(Contents[P(i)])
       THEN Goto(i, after) /\ UNCHANGED <<at, diskVars>>
       ELSE /\ at' = [at EXCEPT ![i] = n + 1]
            /\ fs' = disk
            /\ unrecorded' = unrecorded \cup {P(i)}
            /\ UNCHANGED pc
    /\ UNCHANGED <<hostVars, dbVars, nativeVars, lock, callVars, k, snap, phase>>

\* yapdb.Open: the schema is complete, or is created, or can never be.
OpenYapdb(i) ==
    /\ pc[i] = "open"
    /\ \/ Initialized(yapdb) /\ Goto(i, "insert") /\ UNCHANGED lock
       \/ ~Initialized(yapdb) /\ CanInitialize(yapdb) /\ Goto(i, "schema") /\ UNCHANGED lock
       \/ ~Initialized(yapdb) /\ ~CanInitialize(yapdb) /\ Fail(i)
    /\ UNCHANGED <<hostVars, diskVars, dbVars, nativeVars, callVars, k, at, snap, phase>>

InitSchema(i) ==
    /\ pc[i] = "schema"
    /\ yapdb' = CreateTable(yapdb)
    /\ IF Initialized(yapdb') THEN Goto(i, "insert") ELSE UNCHANGED pc
    /\ UNCHANGED <<hostVars, diskVars, recorded, nativeVars, lock, callVars, k, at, snap, phase>>

\* RecordInstalled's transaction.
RecordInstalled(i, next) == LET p == P(i) v == cache[i].version IN
    /\ pc[i] = "insert"
    /\ yapdb' = Insert(yapdb, p, v, Listed(Contents[p]))
    /\ recorded' = [recorded EXCEPT ![p] = v]
    /\ unrecorded' = unrecorded \ {p}
    /\ Goto(i, next)
    /\ UNCHANGED <<hostVars, fs, nativeVars, lock, callVars, k, at, snap, phase>>

\* The native database becomes db; what it has lost is remembered.
SetNative(db, own) ==
    /\ native' = db
    /\ lost' = lost \cup {p \in Package \ {own} : native[p] # NotThere /\ db[p] = NotThere}

\* The process ends: its lock goes with it, and what it had read.
Crash(i) ==
    /\ pc[i] \notin Ended
    /\ Goto(i, "idle")
    /\ lock' = IF lock = i THEN NoProcess ELSE lock
    /\ cache' = [cache EXCEPT ![i] = NoCache]
    /\ plan' = [plan EXCEPT ![i] = <<>>]
    /\ UNCHANGED <<hostVars, diskVars, dbVars, nativeVars, k, at, snap, phase>>

\* The repository replaces its packages by newer ones.
RepositoryMoves ==
    /\ offered < MaxVersion
    /\ offered' = offered + 1
    /\ UNCHANGED <<format, opts, calls, diskVars, dbVars, nativeVars, lock, pc, callVars,
                   k, at, snap, phase>>
================================================================================
