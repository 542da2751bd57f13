# yap: TLA+ models, TLC checks and TLAPS proofs

yap builds Linux packages (deb, rpm, apk, pacman) from PKGBUILDs, for one
project or for a collection described by a `yap.json`. It resolves and installs
build dependencies itself, and its builds can be driven from the command line or
through an MCP server. This directory holds formal models of the parts of yap
whose correctness depends on orders of events, on what earlier runs and crashes
left, or on rules with many cases.

Paths below are relative to the repository's root.

## The system

| Component | State | Operations | Interacts with |
|---|---|---|---|
| Project scheduler (`pkg/project`) | projects of the collection, dependency maps, build order | `MultiProject`, `BuildAll` (parallel or in file order), `createPackage`, `Clean` | builder, package builders, dependency download, signing hooks |
| Builder (`pkg/builder`) | one PKGBUILD, its directories | `Compile`: sources, prepare, build, check, package, split packages | source retrieval, shell |
| Package builders (`pkg/builders`) | the package directory, the artifact being written | `PrepareFakeroot`, `BuildPackage`, `InstallOrExtract`, `Prepare`, the cross environment | installers, signing |
| PKGBUILD and parser (`pkg/pkgbuild`, `pkg/parser`) | one PKGBUILD; the process-wide version overrides | `ParseFile`, `AddItem`, split overrides | MCP server (shares the overrides) |
| Source retrieval (`pkg/source`, `pkg/download`, `pkg/git`) | source cache on disk, a process-wide single flight | `Get`: download, clone, verify, link, extract | builder workers, concurrently |
| HTTP client (`pkg/httpclient`) | none | `Do` with retries, downloads | every refresh and download |
| APT repository refresh (`pkg/aptrepo`) | `/var/lib/apt/lists` | `Update`: Release, signature, indexes | APT cache |
| APT cache (`pkg/aptcache`) | a process-wide cache pointer | `Load`, `Reload`, `ResolveDeps`, `DownloadClosure` | APT installer, repository refresh |
| APT installer (`pkg/aptinstall`) | files, dpkg status and info files, lock, yapdb | `Install` | aptcache, yapdb |
| DNF cache and installer (`pkg/dnfcache`, `pkg/dnfinstall`, `pkg/rpmdb`) | repository metadata, lock, rpmdb, yapdb | `Update`, `ResolveDeps`, `Install` | yapdb |
| APK index and installer (`pkg/apkindex`) | index, installed database | `Update`, `ResolveDeps`, `InstallPackages` | |
| Pacman database (`pkg/pacmandb`) | sync databases | `Update` | HTTP client |
| yapdb (`pkg/yapdb`) | a SQLite database of what yap installed | `Open`, `RecordInstalled`, queries | the installers |
| MCP server (`pkg/mcp`, `cmd/yap-mcp`) | session registry, build lock, process globals | `build`, `build_status`, `build_wait`, `build_cancel`, read-only tools | scheduler, containers |
| Containers (`pkg/container`) | none | run a command in an image | MCP server, command line |
| Signing, SBOM (`pkg/signing`, `pkg/sbom`) | files beside the artifact | post-build hooks | scheduler |

What is hard about it: worker pools with a shared context and a limit; a build
order cut into batches and pools, with installations between them; goroutines
and clients that meet in a bounded registry; process globals read by concurrent
tools; installers that record the same package in two databases, one after the
other, and may be killed in between; indexes that are published, mirrored and
fetched file by file; caches and downloads shared by concurrent workers; retries
of what was half done; directives whose variants override each other, and one
PKGBUILD in memory that every sub-package changes and restores.

What would make each part correct:

- scheduler: nothing is built before what it needs; success means everything was
  built and installed as asked; an error stops the build and leaves no worker
  behind; a build ends;
- MCP server: no outcome is lost, answers agree with outcomes, memory is bounded,
  builds do not influence each other or the other tools;
- sources: a build never sees a partial or unverified file; a failed download can
  be repeated;
- refresh: what is offered, counted and handed on is what a believed Release
  names, after any failure;
- resolution: the plan is what is missing, dependencies first, in the newest
  version;
- installers: what the databases say is what is on disk, after any crash; scripts
  find what their package requires;
- packaging: the variant that applies is the one used, every artifact says and
  holds its own, is for the target, and is delivered when the run succeeds.

## Modules

| Module | Models | Source |
|---|---|---|
| `Manifest` | a collection and its flags; ranges, popularity, runtime dependencies | `pkg/project/{project,project_loader,utils,topsort}.go` |
| `ParallelBuild` | `BuildAll` with `--parallel`: range check, Kahn's algorithm, batches, errgroup pools, installation, interrupt | `pkg/project/{topsort,scheduler,project}.go` |
| `OrderedBuild` | what a dependency-ordered build promises; `ParallelBuild` implements it | (abstract) |
| `BuildServer` | the MCP server's registry, build goroutines, lock, globals, `build_wait` | `pkg/mcp`, `cmd/yap-mcp/main.go` |
| `SourceFetch` | `getSources`: a worker per source entry, single flight, downloads with retries, clones, validation, links, over runs and crashes | `pkg/builder/builder.go`, `pkg/source`, `pkg/download`, `pkg/git` |
| `HttpClient` | which answers are retried, what of a response is kept | `pkg/httpclient` |
| `AptRelease` | keyrings, signatures and the opt-in: which Release is believed | `pkg/aptrepo/{release,verify}.go` |
| `Refresh` | the four refreshes over a repository that is republished and mirrored, then the download of packages | `pkg/aptrepo`, `pkg/dnfcache/repo.go`, `pkg/apkindex/fetch.go`, `pkg/pacmandb`, `pkg/aptcache/download.go` |
| `DebVersion` | the order of Debian versions | `pkg/aptcache/version.go` |
| `Visitor` | the depth-first visitor the three resolvers have in common, over the graph each makes of its index | `pkg/aptcache/aptcache.go`, and the like in `pkg/dnfcache`, `pkg/apkindex` |
| `AptCache`, `DnfCache`, `ApkIndex` | each index as a value, and the graph over it that is resolved | `pkg/aptcache`, `pkg/dnfcache`, `pkg/apkindex` |
| `Resolvers` | from the files of repositories to a plan, for the three managers | the same |
| `Yapdb` | the state database as a value: schema, rows, queries | `pkg/yapdb` |
| `Payload` | the entries of an archive and how they are put on disk | `pkg/aptinstall/extract.go`, `pkg/dnfinstall/extract.go`, `pkg/apkindex/install.go` |
| `Installer` | processes, files, databases, lock and repository; the steps all formats share | the same, and `pkg/yapdb` |
| `AptInstall`, `DnfInstall`, `ApkInstall` | the steps of each format's `Install` | `pkg/aptinstall`, `pkg/dnfinstall` and `pkg/rpmdb`, `pkg/apkindex/install.go` |
| `Installers` | the three composed, and what they promise | |
| `Pkgbuild` | directives, priorities, validation, overrides of sub-packages | `pkg/pkgbuild`, `pkg/parser` |
| `PackageFormats` | what the four builders make of a PKGBUILD and of a package's files | `pkg/builders`, `pkg/options` |
| `CrossDeps`, `CrossEnv` | dependencies and environment of a build for another architecture | `pkg/builders/common/{cross,toolchains}.go` |
| `Packaging` | one project from PKGBUILD to installed artifacts, run twice | `pkg/project/project.go`, `pkg/builder/builder.go` |
| `ParallelBuildProofs`, `BuildServerProofs`, `SourceFetchProofs`, `InstallersProofs`, `ResolversProofs`, `RefreshProofs`, `PackagingProofs` | inductive invariants and theorems | |
| `OrderedBuildProofs` | what "ok" says, and that `ParallelBuild` implements `OrderedBuild` | |
| `MCParallelBuild`, `MCBuildServer`, `MCSourceFetch`, `MCInstallers`, `MCResolvers`, `MCPackaging`, `MCRefresh` | collections, requests and worlds for TLC | |

A definition `X_Fault` is `X` with a plausible bug. The specifications never use
it; the properties are measured against it.

### ParallelBuild

`manifest` is chosen initially from the constant `Manifests`: `order` is the file
order, `depends` and `makeDepends` the edges inside the collection
(`processDependencies` drops the others), `install` the marked projects. `phase`
says where the main goroutine is: the range check, one round of the sort per
`CollectBatch`, one pool per `StartRuntimePool` / `StartRegularPool`, and the loop
that installs marked packages (`InstallRegular`, one turn each). `pc` says where
each worker is; `Launch` is one `g.Go`, blocked by `SetLimit`; `Enter` is the
select on `gctx.Done()`. `installed` holds artifacts, not projects: after a split
build `PKGBUILD.PkgName` names the last sub-package, so `InstallOrExtract` finds
that one's artifact only (`Extracted`), and a dependency on another sub-package's name
is not an edge of the graph at all. `OnRoot` are the projects that have been through
`InstallOrExtract`; `Own(p)` is the artifact of the name that other projects depend
on. A worker's stages `Compile`, `CreatePackage` and
`InstallPackageForWorker` can each `Fail`, which is also how a stage reports that
it noticed the cancelled context. `Cancelled` is derived: errgroup cancels its
context at the first error. Go's map iteration makes the order of a batch
nondeterministic up to popularity (`PopularityOrders`).

### BuildServer

One action per critical section of the registry's mutex and per step of a build
goroutine that others can observe. `state` and `endedAt` belong to the session
object, which outlives its eviction from `sessions` (a `build_wait` keeps a copy
of the object and its `done` channel). `override` stands for the three globals a
native build sets; `saved` for the copies it restores. The outcome of a build is
nondeterministic: a cancelled context may go unnoticed, because the parallel path
of `BuildAll` does not read it (`InterruptStopsBuild` below) and `MultiProject`
takes none.

### SourceFetch

The files of a package's start directory (`disk`) and the names in its src
directory (`link`) outlive a run of `getSources`; a run can crash, and the
PKGBUILD can be edited between runs (`EditPkgbuild`: what is on disk is then no
longer what is asked for). `pc` says where the worker of each entry is within
`Source.Get`; the checks of existence in `Look` and `Recheck`, the flight in
`Join`, and `ReadLink` and `Symlink` are separate steps because other workers can
come between them. `Landed` is the end of a flight, seen at once by its leader and
by all who wait. A transfer makes its file appear half-written (`Appears`) before
it completes or fails: grab and go-git write to the destination itself. The
contents of a file are told apart as far as the properties need (`Contents`); a
download may complete with other bytes than the PKGBUILD expects.
`ExtractFromBare` is one step. Backoff delays are left out; extraction may fail
at will. `copyProjects` and `--clean`, which also touch the directory, run outside
`getSources` and are left out.

### Refresh

`servers` is what each mirror has of the repository, file by file: `Publish` starts
a new generation on the first, `Synchronise` brings another up to date, and a
mirror that lags stays behind. `files` is what this host has on disk, and survives
`Restart`, which may come between any two steps. A job per index holds what the
client has read; each request takes one of `Answers`, sequences of the outcomes of
its attempts, which `HttpClient` turns into what the caller gets. apt: the Release
is fetched and believed (`AptRelease`), each component's index is compared with
it and written (`WriteList` is not atomic), `Load` reads whatever is in the
directory. dnf: mirrors of a list, `repomd.xml` with its conditional request, the
primary, renamed before it is compared (`RemoveMismatch`). A repository whose last
answer is a status of 4xx, that of a server that limits the rate (408, 429) included after
its retries, is "refused" and the update goes on without it (`isNonFatalRepoError`). apk and
pacman compare
nothing. A package is compared with what the index has of it: `checks` says whether that
is a size, a sum, both or neither; grab, which fetches for apt and apk, has no limit; the
mirrors dnf falls
back to are asked for once more and may then be missing (`PackageBaseURLs`). `vouched`
remembers, for the property only, which generations this host
has believed.

### Resolvers

Each index is a value, computed by the code's own steps: merging stanza by stanza
(a Debian entry belongs to a name and an architecture, and a newer stanza without
dependencies keeps the older one's), provider lists, module filters, the order of
versions. `Resolvers` loads the files of a world in every order in which the code
may read them and resolves the seeds. Each `ResolveDeps` is the recursive `visit` of
the code (`Visitor`) over a graph that says of a node (a name and an architecture, a
dependency and whether it may be missing, a name) the mark by which `seen` knows it,
the nodes visited from it, in order, what it adds to the plan and what it misses. The plans
are compared with what can be reached in that graph (`Reach`), which is defined
without reference to marks or to an order. `resolved` in the result tells an empty
plan from one that has not been made.

### Installers

`Installer` has one root with its files (`fs`), yapdb, the native database and
the rpmdb, and processes that install into it while the repository moves on to
newer versions. `pc` says where each process is; every write to the disk, to
yapdb (the schema's statements, then one transaction per package) and to the
native database is a step of its own, and `Crash` ends a process between any two.
A process keeps the cache it loaded (`Loaded`), so one call may install
what another has superseded. deb takes one lock for the whole call and waits for
ever; rpm polls a lock per package for thirty seconds; apk takes none, so that its calls
run one at a time in the model (two at once share the name of a temporary file).
`unrecorded` and `recorded` are history: packages unpacked and not recorded since,
and the version of the last record. What a dependency resolver returns is a constant here
(`Resolve`); `Resolvers` is where it is checked and proved.

### Packaging

`Pkgbuild` turns a sequence of statements into the directives in memory.
`Packaging` parses and validates, synchronises dependencies, runs the functions
(each may fail), and for each package applies the overrides of its function,
makes the package directory, applies the options, writes the artifact, signs,
installs and restores what was overridden; then everything runs a second time over
what what is left on disk and, for CMake, in the temporary directory. A host, for the
dependencies of a cross build, is what dpkg's status says is installed, which an
installation of yap leaves alone, and what yap has recorded in its own database; both
are asked before a foreign package goes over `/` (`HostInstalledNames`). A file of a
payload says whose function wrote it, in which run, for which architecture, and
whether it was stripped or compressed; that is what the properties tell
apart.

## Runs

| Run | Instance | Shows |
|---|---|---|
| `parallel` | all 512 graphs of runtime dependencies over 3 packages (loops and cycles included), with and without a make dependency, one marked package; 7 collections of 4 packages: a diamond, a package in both lists, `--from`, `--to`, `--no-build`, a split package, cycles, a bad range; 2 workers | the type and safety invariants; `ParallelBuild` implements `OrderedBuild`; `BuildAll` returns |
| `server_registry` | 3 builds (one with an override), a registry of 2, clock up to 2 (so that sessions can end at the same time or not) | no outcome is lost, eviction is bounded and oldest first, globals are not shared |
| `server_progress` | 2 builds, 1 wait, a registry of 1 | waits are answered although builds may hang, truthfully while the session is known; builds that do not hang all end |
| `sources` | 5 entries: a repository and a download, each named twice, and a local file; one of the download's entries has a checksum; 2 workers, 1 retry, 2 runs | one writer per file, no repeated download, behind a success nothing with a checksum is unverified and nothing fetched is truncated, every run returns |
| `installers` | 2 processes, an application with a conffile and its library with a symlink and a hardlink, 2 calls, 2 versions; deb, rpm and apk, with and without the native database | records, databases and disk agree after any interleaving and crash; scripts find what their package requires; every call returns |
| `resolvers` | thousands of worlds of packages a, b, c and a capability: cycles, alternatives, providers, two architectures, Multi-Arch classes, module streams, rich and weak dependencies; nine Debian versions in all combinations of three | the plan is the closure, in order, of the newest versions |
| `packaging` | thousands of projects: three statements with any variants, pairs of package functions with any overrides in four formats, epochs, architecture `any`, three packages in any Multi-Arch class, four build systems and pairs of targets, on hosts whose packages dpkg or yap itself knows; 2 runs | artifacts are their own, variants apply, the host's packages stay, success delivers |
| `refresh` | every signature and keyring, one or two compressions or components, lagging mirrors, hashed and plain names, packages listed with and without size and sum; 2 generations, 2 processes one after the other, up to 3 attempts per request | a chain from a believed Release to the package handed on, over failures, republication and crashes |

Why the bounds are enough. Three packages have a dependency of each kind, a chain, a diamond's
half and every cycle up to length 3; more workers than two add nothing to the
pools of at most three. A registry of one or two with three builds reaches every
case of the eviction: nothing to drop, one of several to drop, only running ones.
For the sources, a second entry of the same file is what a single flight is for,
two workers are a leader and one who waits or comes late, one retry reaches both
a resumed and a restarted download, and the second run is the one that meets what a crash,
a failure or an edited PKGBUILD left. For the installers, two processes and two
calls each are an upgrade over what the other left, and a library with its user is
the shortest order of dependencies; a third version would again be
an upgrade. For the resolvers, three packages have cycles, a shared dependency and
a provider that is not a name. For packaging, three statements of
one name have every order of a base, a more and a less specific variant; two sub-packages are
one whose overrides must not reach the other. For the refresh, two
generations are old and new files mixed in every way, and the second process is
the one that meets what a crash left. `MaxGen`, `MaxRuns`, `MaxCalls`, `MaxVersion`
and `MaxClock` are bounds of the models, `MaxSessions`, `MaxRetries` and `NumCPU`
parameters of the program. `CHECK_DEADLOCK FALSE` is set where those bounds
end a behaviour.

Runs that must find a violation, each a disagreement between the code and what
the repository says of it (quoted in `PROJECT.json`, `findings`):

| Run | The code |
|---|---|
| `split_dependency` | of a split project only the last sub-package is extracted, while other projects depend on it by the name of the first: what they need at run time is not there when they build |
| `apk_registered` | the stanza an apk installation adds has no `P:` line, and the next registration drops it |
| `deb_sums` | a deb's `md5sums` are taken before its binaries are stripped and files purged |
| `cmake_target` | the CMake toolchain file has one name for all targets; the second target is compiled with the first one's tools |

### Properties the models refute

These definitions are in the modules and state what a comment says or a reader
would expect; TLC finds each violated when it is added to the named configuration
(`INVARIANT`, or `PROPERTY` for a box).

| Definition | Configuration | The code |
|---|---|---|
| `MarkedDependenciesInstalled` and `SuccessIsComplete` | `ParallelBuild` with `Manifests <- ToRange` | with `--to`, the loop that installs a batch's marked packages stops at the target; later batches then build without a marked package |
| `InterruptStopsBuild` | `ParallelBuild` | the context of `BuildAll` does not reach the pools: an interrupt stops nothing |
| `WaitTellsOutcome` | `BuildServer_progress` | `build_wait` answers "running", not timed out, for a build that ended and was evicted between its two looks |
| `ParseAppliesNoOverride` | `BuildServer_registry` | `parse_pkgbuild` applies the overrides of a running native build |
| `ShutdownCancelsBuilds` | `BuildServer_registry` | stopping the server cancels no build |
| `ErrorStopsDownloads` | `SourceFetch_sources` | after the first error, workers in the middle of a download go on with their retries |
| `RepositoryAtReference` | `SourceFetch_sources` | a repository left by an earlier run is accepted at whatever reference it is |
| `InstalledEdgesWalked` | `Resolvers` | dnf's `ResolveDeps` says that of installed packages "their dependency edges are still walked" (`dnfcache.go:212`); its `visit` returns at an installed name (line 260), so what such a package misses is not planned |
| `ChildrenDeleted` | `Installers` | replacing a record leaves the rows of the old one's files and capabilities behind |
| `AnyStaysAny` | `Packaging` | architecture `any` is lost when the target is set a second time |
| `SubPackageVariantsApply` | `Packaging` | an override is cut at its last underscore, so that `x_x86_64` in a package function is ignored |
| `OptionsAreOwn` | `Packaging` | the options set for one sub-package stay for the next |
| `NothingLeftOver` | `Packaging` | the package directory is not emptied before a run |
| `InstallFindsArtifact` | `Packaging` | the name looked up for installation lacks what the builder put in (an rpm's epoch, a target's architecture) |
| `RepomdIsUsable` | `Refresh` | `repomd.xml` is stored before it is parsed: a proxy's page or a cut file is kept until the server has a newer one |
| `DnfOffersAreVouched` | `Refresh` | a primary is renamed into place before it is compared: a crash leaves it unverified, a mismatch loses the good one |
| `ApkDownloadsAreListed` | `Refresh` | of an apk only the size is compared |

Further behaviour met while modelling, which the models have where it changes state:

- A build cancelled while it waits for the build lock still runs when its turn
  comes, and may end `failed` or `succeeded` (`TakeLock`, `Verdict`;
  `pkg/mcp/sessions.go:64` reads otherwise). A connection that cannot be made is
  not retried by the source download (`Retryable`).
- Installers: a crash during the unpacking of an upgrade leaves a torn file while
  the database names the old version; a schema script cut by a crash leaves yapdb or
  the rpmdb unusable; a populated rpmdb is refused, so the second package of a call
  goes unrecorded there.
- Resolution: a dnf package first reached through a weak dependency and missing is not reported when a
  strong one reaches it later; the order of a capability's dnf providers depends on the order of
  repositories; apk picks a provider that may have lost against a package of its
  name, and downloads by name. For apt, the version of a removed package, which dpkg's
  status keeps, counts as available: if it is newer than all that is offered, it becomes
  the candidate, without a file of its own (`Overtaken`; `pkg/aptcache/parse.go:515`). A flat repository
  whose URL is not known leaves the URL of an older offer beside its newer version
  (`parse.go:537`).
- Packaging: a variable without suffix overwrites a variant that stands before it;
  option flags, architectures, groups and install scripts stay set from one
  sub-package to the next; split package functions and `prepare` run without the
  cross environment; a failure to set it up only warns; natively built packages of
  the MCP server are never signed; a failed signing leaves the artifact unsigned
  where it is.
- Refresh: an empty keyring directory makes the Release empty and believed; an
  InRelease that is not signed at all is fatal even with the opt-in; bodies are cut
  silently at the reader's limit; failures of components only lower the count;
  an older list or primary that stays on disk is loaded as well; apk's update succeeds
  when no repository was fetched.

## Fairness

`ParallelBuild`: weak fairness of the main goroutine and of every worker: Go
schedules both, and a stage is assumed to end, well or badly. An interrupt is never
assumed.
`BuildServer`: `WaitsAnswered` needs only that a wait's deadline (at most
50 s) is met, and holds even if builds hang; `BuildsEnd` has the premise that
builds come to an end (`BuildFairness`). Weak fairness of taking the lock is
enough because each build takes it once (Go's mutex hands over to starving waiters besides).
`SourceFetch`: the goroutines of a run are scheduled and servers answer or close;
grab sets no time limit, so a server that stalls for ever would hold a run, which
the model excludes. Runs, cancellations, edits and crashes are never assumed.
`Installers`: a process in a call goes on (weak fairness of its steps), and flock
serves a process that keeps waiting (strong fairness of taking dpkg's lock); crashes
and new versions are never assumed. `Resolvers`, `Packaging` and `Refresh` are
checked for safety only, without fairness: their code is sequential, and what
could hang is the network, the disk or a script.

## Proofs

`ParallelBuildProofs` proves, for every finite set of packages, every collection
that satisfies `ManifestAssumption` (no package twice in the file) and any number
of workers, that `IInv` is inductive and implies

- `TypeOK` (`TypeCorrect`): in particular in-degrees stay natural numbers;
- `DependenciesBuiltFirst` (`BuiltFirst`) and `RuntimeDependenciesInstalled`
  (`InstalledFirst`): what a worker needs at run time has been through
  `InstallOrExtract` (`OnRoot`), which of a split project extracts one sub-package;
- what that leaves of the promise of `scheduler.go:177`: `RuntimeDependenciesAvailable`
  holds in every collection where no project of the range depends at run time on a
  split one (`AvailableUnlessSplit`), and no sub-package of a split project but the last is ever
  extracted (`SplitIsPartial`), so that the premise cannot be dropped;
- `NoOrphanWorkers` (`NoOrphans`);
- `RuntimeSortIsFlat` (`RuntimeSortOrdersNothing`): the second topological sort, of
  the runtime dependencies of a batch, always finds one layer, and its error
  cannot occur.

The argument. `SortInv` says what Kahn's algorithm has done: batches are disjoint,
what a package needs is in an earlier batch, an in-degree counts the unplaced needs
(`DependentsFacts` shows that the subtraction keeps this). `PoolInv` says who is
waiting, who works and what finished workers left; `BatchInv` that earlier batches
have ended and how the current one is divided between packages waiting for a pool,
the pool, and finished ones. A worker that passes the gctx check is in the current
batch, so all it needs is in earlier batches (`BatchIsFlat`), which have ended
(`NeedsEnded`): built, and installed if something needs them at run time. None of
the properties is inductive without these.

`OrderedBuildProofs` adds to that invariant what the loop that installs marked
packages has done (`MarkedInv`: those of the batches behind have been through
`InstallOrExtract`, and of the
current batch those the loop is past) and what "ok" says (`SuccessInv`). It proves

- `SuccessIsBuilt`: after "ok" every selected package went through all its stages, and
  what others need at run time through `InstallOrExtract`;
- `SuccessInstallsAll` and `MarkedInstalledFirst`: `SuccessIsComplete` and
  `MarkedDependenciesInstalled`, as long as no package the loop visits is the target
  of `--to` (`NeverStopped`). Without that premise both are false (see
  the table of refuted properties), and `WithoutToNothingStops` shows that it holds
  whenever there is no `--to`;
- `Implements`: `ParallelBuild` refines `OrderedBuild`. `Status` is read off each
  worker's `pc`; a step either changes no status or is one step of `OrderedBuild`, whose
  guard (what a package needs is built) is what the invariant says.

`BuildServerProofs` proves, for any finite set of builds, any waits, overrides and
cap, under `ServerAssumption`: `TypeOK` (`TypeCorrectness`), `OutcomeIsRecorded`,
`OwnOverrides`, `GlobalsRestored`, `CanceledOnRequest`, `WaitAnswersFinalState`, and
the action properties `RegistryBounded` and `OldestDroppedFirst`. Its `IInv` adds to
the types: the build that is parsed or built holds the lock, and the holder is in
a native build (`LockInv`); the globals are the holder's or the server's own
(`OverrideInv`, with `saved` empty, without which restoring would not give the
server's own); a session runs exactly while its goroutine has yet to report, and
is then known (`RunnerInv`: `Finish` would otherwise drop the outcome), which
eviction keeps because it never removes a running session (`EvictedKeeps`); a
verdict of "canceled" comes from a cancelled context (`CancelInv`); and a call woken by
its build saw the end, which stays (`WaitInv`, `EndedStays`). The two action
properties follow from the definition of `Evicted` and the finiteness of the
registry. `WaitTellsOutcome`, the stronger reading, is false.

`SourceFetchProofs` proves, for every source array, assignment of files and kinds,
set of checksums, number of workers and of retries, that its `IInv` is inductive
and implies `TypeOK` (`TypeCorrect`), `OneWriter` (`OneWriterPerFile`),
`SuccessIsVerified` (`Verified`) and `FetchedCompletely` (`Fetched`). The worker
within a flight owns it (`FlightInv`), so a file has one writer, and what it
writes is not yet complete; hence no step changes a file that a checksum has
verified (`VerifiedInv`). A file that was missing is at any time absent, complete,
in transfer, or some worker has failed (`MissingInv`); when `getSources` succeeds
all workers are done and none has failed (`RunInv`), so only completeness is left.
From the same invariant follows the action property `NothingFetchedTwice`
(`FetchedOnce`): who begins a transfer has found nothing under its name.
The theorems assume what `SourceAssumption` states.

`InstallersProofs` proves, for any processes, packages, payloads and number of calls
and versions, on a host of each format, with any options and with crashes between
any two steps: `TypeOK` (`TypeCorrect`), `RecordMatchesDisk` (`RecordIsOnDisk`),
`RecordIsCurrent` (`RecordIsTheLast`), `NativeKept` (`NothingIsLost`),
`DependenciesInPlace` (`ScriptsFindDependencies`), and the action property
`SuccessIsInstalled` (`SuccessInstalls`). Its `IInv` says who may be where
(`LockInv`: a deb's call holds the lock from its first step, an rpm's while it works
on one package, apk calls come one at a time), what a call knows there (`CallInv`),
how far a payload is unpacked (`PlacingInv`, `PlaceInv`), that what is recorded and not
being unpacked is on the disk (`DiskInv`), which versions were recorded
(`RecordedInv`, `RowsInv`) and that no entry of the native database is lost. None of these
stands alone: a record can only be right because unpacking it was finished
(`PlacingInv`), which no other process disturbs because it holds the lock and because
packages have no paths in common. Payloads are unpacked with folds in the code's
order; `PlacedTo` is what such a prefix has done, and a hardlink of an rpm may come
before its file, which is why the clause on it speaks of `DataWritten`.
The theorems assume, besides `InstallerAssumption`, that an archive holds a path
once and that a hardlink names a regular file of the same archive
(`PayloadAssumption`), and of the resolver only what the property needs: what
a planned package requires comes before it or is installed (`ResolveAssumption`, which
`Resolvers` says of the code's resolvers, cycles aside).

`RefreshProofs` proves, for every configuration (`WorldAssumption`: a repository has a
server, the names of an index's files are those the model has), any number of indexes,
mirrors, generations and processes, and any answers to the attempts of a request,
`RefreshIsGenuine` (`Genuine`): the chain from a believed Release to the package
handed on, as far as the index has its size or sum, and that an update of dnf that
succeeds lacks a repository only if its last server refused. `AptInv` is what makes it
inductive: whatever is on the disk under
apt's names, half-written or not, belongs to a generation that a believed
Release has named, so that a file a crash left, or an older list, breaks nothing when it
is loaded; and the file a job is writing, or has written, is the one under its
name. `PhaseInv` says that jobs and downloads of an earlier process are gone when the next one starts.

`PackagingProofs` proves, for every project, options, targets of the runs, installed
files and number of runs under `PackagingAssumption` (a file and the body of a package
function are sequences of statements, a body holds no function, no variable has the
name of a stage - both would share one entry of `priorities` - and the targets of
the runs do not change the names of a project), `ArtifactsAreOwn` (`OwnArtifacts`):
whatever was packaged before it, an artifact has the fields, scriptlets, release and
files of its own package. The property compares with a PKGBUILD parsed anew;
`PkgInv` is what relates the one in memory to that: it is the file's, but for what
overrides, architectures and a release rewritten once may have changed
(`Fits`). Restoring the snapshot makes the overridable fields and their priorities the file's
again (`RestoreFacts`), the overrides of a body have the same effect on two PKGBUILDs
that agree there (`OverridesAgree`), and each format makes of such a PKGBUILD what the
property asks (`DebMadeWell` and its like, with what an option may remove from the files). `DirInv` says
whose files are in a package directory that an earlier run may have left.

`VariantsApply` (`VariantsAreApplied`) is proved of the file as parsed (`ParsedInv`: until
packaging starts the PKGBUILD is what parsing made of it). The pass over the variables
ranks no stage (`VariablePass`), and the pass over the functions keeps, statement by
statement, the body of the highest rank met so far and of equal ranks the later one
(`FunctionPassStep`). Sources and their sums are two variables with ranks of their own:
where the file has a list of sums for each list of sources, in the same order
(`InOneOrder`), both stand at the same rank after each statement, so that the sums
kept are those of the sources kept (`SourcesMatch`).

`SuccessIsDelivered` (`SuccessDelivers`) needs to know, at each phase, how far the run is
(`Well`): what is compiled is for the target (`CompiledWell`; `ToolsCompile` and
`ToolsTell` say which tools a script sees, and of which architecture), the PKGBUILD
names the host's architecture until packages are made (`PkgWell`), and of the
sub-packages the first are installed, then made (`PackagesWell`), each from a directory
and to a file that no other uses. It holds under `DeliveryAssumption`: a package function
that ends well has installed a program; targets have a toolchain, and the prefix of a
toolchain tells its architecture; the names of sub-packages differ; and `build` exists
in a split project that compiles there. Of the architectures of `toolchains.go` the
prefix does not tell armv6 from armv7, whose tools are the same
(`toolchains.go:284`): for a project with these two targets nothing is claimed.

`CrossDepsStayApart` (`CrossDepsAreApart`) is about the host of a deb build over any
number of runs for different targets, each of which installs, downloads and
unpacks over `/`. `HostFits` is the invariant. `PathsFit`: a path with a foreign
package's files is of a name whose packages are not `Multi-Arch: same` and of which the host has
none of its own. `SysrootFits`: what the sysroot has of an architecture comes from
the lists, and each package of that architecture it depends on is there, is installed,
or is one the host's serves for. That an installation keeps the first is because what is installed
for another architecture is `same` and shares no paths (`PlanIs`, `UnpackIs`); that an
extraction keeps the second is a fact of the closure (`ClosureNeedsNothing` in
`ResolversProofs`: with a package, what it depends on of its architecture) and of
what the indexes say when read again for each run (`DiskTells`: name,
class and dependencies of a key are those of the lists). The proof takes both
from an instance of `ResolversProofs` for the build's host; the lemmas from
`SameSplit` to `SameLoad` show that the two instances of `AptCache` compute the same.
`CrossAssumption` states what it needs of a world: names are strings, the packages of a name
are of one Multi-Arch class, a list gives each stanza an architecture, a version and a
file, dpkg's status and the lists agree on what a package the host may have depends
on (the entry that `Reload` merges from both would otherwise have other dependencies than the
list says), and at first there is no sysroot and no foreign path.

`ResolversProofs` proves of the three resolvers, for every world under
`ResolversAssumption` (what the parsers can make of files: an index has a file for each
version, the metadata of dnf say where each package is, and the empty string stands for what is
not there) and
`RankedAssumption` (the versions that occur can be listed so that each is older than the
next; for those that compare as equal but are written differently nothing is
claimed),
`PlanIsTheClosure` (`ResolversPlanTheClosure`), `DependenciesFirst`
(`ResolversOrder`) and `NewestIsOffered` (`ResolversOfferTheNewest`). It has four
parts.

The visitor, on any graph. A graph has finitely many nodes behind each node
(`LocallyFinite`), but as a whole it is as large as all names, so that the recursion of
`visit` ends for no reason of its type. `Fuel` is the visitor with a number of
levels; with more levels than there are marks left to be seen, one more changes nothing
(`FuelSettles`), and the limit satisfies the code's recursion (`VisitDefined`). `VisitorIsCorrect` then
follows by induction over the marks left. What holds between two visits (`Good`) is that
of every mark seen and not pending all that it leads to is seen, and
planned before it as far as it does not lead back to it (`Placed`); a
pending mark is one whose node is entered and not left, and everything visited meanwhile is
behind it (`LeadTo`). A cycle is the case in which a next node is marked
but pending: then its mark can be reached from the node, and nothing is claimed of their order. Two
nodes may share a mark (`MarksAgree`) if they add the same and lead to the same marks.

The graphs. That names the index does not have lead nowhere makes the graphs locally
finite, and what the code uses as `seen` makes marks agree: for apt the normalised
key, where an unqualified name and one of the host's architecture are the same; for dnf
the dependency without its weakness (`AptFit`, `DnfFit`, `ApkFit`). `AptPlan`, `DnfPlan`
and `ApkPlan` carry the order over to what `FilterForeignArchPackages` leaves.

The indexes. `IInv` says that the cache is what was loaded makes of it, and the
result what the resolver makes of the cache. For dnf, whose files are parsed one by one in
any order, it is `DnfBest` of the files read so far: what stays of a name
stands for every package of that name met before (`Stands`, which is transitive because
versions compare lexicographically: `VercmpLess`). For apt a merged entry is the
newest of all stanzas merged into it with that stanza's own file (`EntryIs`), through three levels
of merging: stanzas into a list, lists into the cache, dpkg's status over it
(`ParseListIs`, `LoadListsIs`, `LoadFromDiskIs`).

The order of versions. That the newest version can be told by comparing two at a
time needs more than a code reader sees at a glance: the loop of `compareVersionPart`
compares chunks of two alphabets in two ways (by the weights of `debCharOrder`, with `~`
before the end of the string, or by length and then digit by digit without leading
zeros), and chunks of different length are cut off together. `VersionsAreOrdered` says
for all strings of bytes, well-formed or not, that `CompareDebVersion` is transitive, that what
compares as equal can be exchanged, and that exchanging the arguments exchanges the answer. Each of the
two comparisons of chunks is decided by the first place where two sequences of integers differ
(`Decides`, `ChunksOrder`); one such order after another is one (`ChainThen`); and what is left
of a string after two chunks is shorter unless nothing was there (`ChunksAre`), so that
`PartsAreOrdered` follows by induction over the length of the three strings together. That the
loop is defined
at all (`PartDefined`) has the same reason. `RankedIsOrdered` then gets from each version being older
than the next that all are in order; TLC evaluates `RankedAssumption` for the versions of the run.

Induction where data has to be followed step by step (`InstallersProofs`,
`PackagingProofs`, `ResolversProofs`) is done without the library's induction theorems: a set of
naturals has a least element (from `WFMin` and `NatLessThanWellFounded`), so a set
that holds 0 and, with a number, the next one, holds all. What recursive functions
over other data compute is out of reach in this way unless something counts its steps, as
the marks left do for the visitor.

Only liveness (out of the prover's reach) and what the sections above refute are left to
TLC alone: every invariant and every action property of the passing runs is a theorem.

## Not modelled

- The sequential path of `BuildAll`: one loop over the projects in file order that
  ends at the first error; the stages of each project are in `Packaging`.
- The copying of projects, `Clean` and `--zap`; the choice by name of which
  dependencies to download; tools of the server that keep no state.
- The parts that are input and output: containers, shell, archive and header formats,
  signing algorithms, the text of PKGBUILDs, of sources lists, repository files and
  indexes (what they say is modelled, as records).
- Fallbacks that the model of the installers leaves out: `acquireDpkgLock` goes on without a
  lock when the lock file cannot be opened (`status.go:514`, for processes that are not
  root), and an apk without `.PKGINFO` gets a stanza written field by field, which does
  name its package (`apkindex/install.go:512`); every archive of the model has one.
- Two apk installations at the same time, and two refreshes at the same time: no
  lock keeps them apart and they write the same temporary names.
- Repository setup, checksums of sources, the command line and the support
  packages: no protocol of their own.

Every component, modelled or not, and the reason is listed in `PROJECT.json`.

## Plan

1. Two refreshes at the same time, and the sequential path.
