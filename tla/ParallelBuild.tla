----------------------------- MODULE ParallelBuild -----------------------------
(* MultipleProject.BuildAll with Opts.Parallel: Kahn's algorithm cuts the      *)
(* projects in range into batches; each batch is built by errgroup worker      *)
(* pools, first the packages others need at run time (installed as soon as     *)
(* they are built), then the others (installed after their pool, if marked).   *)
(* A definition X_Fault is X with a plausible bug, against which the properties *)
(* are measured; nothing uses it.                                              *)
EXTENDS Manifest

CONSTANT NumCPU
ASSUME NumCPUAssumption == NumCPU \in Nat \ {0}

VARIABLES
    manifest,     \* the collection being built; never changes
    phase,        \* where BuildAll is
    inDegree,     \* topologicalSort: unmet dependencies of the unplaced packages
    plan,         \* topologicalSort: the batches found so far
    batch,        \* buildProjectsInOrder: number of the current batch
    runtimeLeft,  \* runtime dependencies of the batch no pool has taken yet
    regular,      \* the batch's other packages, in the batch's order
    pool,         \* the projects of the current errgroup
    queue,        \* those of them g.Go was not called for yet, in order
    toInstall,    \* regular packages whose installation is still to be decided
    pc,           \* per project: where its worker is
    ctx,          \* the context given to BuildAll: "live" or "cancelled"
    built,        \* artifacts present in mpc.Output
    installed,    \* artifacts extracted to the root filesystem
    result        \* what BuildAll returned

vars == <<manifest, phase, inDegree, plan, batch, runtimeLeft, regular, pool,
          queue, toInstall, pc, ctx, built, installed, result>>

planVars   == <<inDegree, plan>>
batchVars  == <<batch, runtimeLeft, regular>>
poolVars   == <<pool, queue>>
effectVars == <<built, installed>>

Selected  == InRange(manifest)
onRoot    == OnRoot(manifest, installed)
ActiveStates == {"launched", "compiling", "packaging", "installing"}
Active == {p \in Project : pc[p] \in ActiveStates}

\* gctx, the context of the current errgroup: its first error cancels it.
Cancelled == \E p \in pool : pc[p] = "failed"

Return(r) == phase' = "returned" /\ result' = r

Init ==
    /\ manifest \in Manifests
    /\ phase = "check"
    /\ inDegree = <<>> /\ plan = <<>>
    /\ batch = 0 /\ runtimeLeft = {} /\ regular = <<>>
    /\ pool = {} /\ queue = <<>> /\ toInstall = <<>>
    /\ pc = [p \in Project |-> "waiting"]
    /\ ctx = "live"
    /\ built = {} /\ installed = {}
    /\ result = "none"

--------------------------------------------------------------------------------
(* BuildAll's preamble, resolveDependencies and topologicalSort.              *)

\* BuildAll: refuse a bad range, else index the dependencies inside the range.
\* A package listed in depends and in makeDepends is counted twice.
ResolveDependencies ==
    /\ phase = "check"
    /\ IF RangeIsValid(manifest)
       THEN /\ phase' = "sort"
            /\ inDegree' = [p \in Selected |->
                   Cardinality(manifest.depends[p] \cap Selected)
                     + Cardinality(manifest.makeDepends[p] \cap Selected)]
            /\ UNCHANGED result
       ELSE Return("bad range") /\ UNCHANGED inDegree
    /\ UNCHANGED <<manifest, plan, batchVars, poolVars, toInstall, pc, ctx, effectVars>>

Unplaced == DOMAIN inDegree
Candidates_OffByOne == {p \in Unplaced : inDegree[p] <= 1}
Candidates == {p \in Unplaced : inDegree[p] = 0}

\* How often q appears in the dependedBy lists of the packages of S.
Dependents_EdgeTwice(S, q) ==
    Cardinality(manifest.depends[q] \cap S) + 2 * Cardinality(manifest.makeDepends[q] \cap S)
Dependents(S, q) ==
    Cardinality(manifest.depends[q] \cap S) + Cardinality(manifest.makeDepends[q] \cap S)

\* One round of Kahn's algorithm: every package without unmet dependencies.
CollectBatch ==
    /\ phase = "sort" /\ Unplaced # {} /\ Candidates # {}
    /\ plan' = Append(plan, Candidates)
    /\ inDegree' = [q \in Unplaced \ Candidates |->
                       inDegree[q] - Dependents(Candidates, q)]
    /\ UNCHANGED <<manifest, phase, batchVars, poolVars, toInstall, pc, ctx,
                   effectVars, result>>

CircularDependency ==
    /\ phase = "sort" /\ Unplaced # {} /\ Candidates = {}
    /\ Return("circular dependency")
    /\ UNCHANGED <<manifest, planVars, batchVars, poolVars, toInstall, pc, ctx,
                   effectVars>>

OrderDetermined ==
    /\ phase = "sort" /\ Unplaced = {}
    /\ phase' = "batch"
    /\ UNCHANGED <<manifest, planVars, batchVars, poolVars, toInstall, pc, ctx,
                   effectVars, result>>

--------------------------------------------------------------------------------
(* buildProjectsInOrder and buildBatchWithDependencyInstall.                  *)

HasCycle(S) == \E T \in SUBSET S : T # {} /\ \A p \in T : Needs(manifest, p) \cap T # {}

\* Split the batch; topologicalSortRuntimeDeps refuses a cycle among its
\* runtime dependencies before any of them is built.
SelectBatch ==
    /\ phase = "batch" /\ batch < Len(plan)
    /\ batch' = batch + 1
    /\ LET S == plan[batch + 1]
           R == S \cap RuntimeDependencies(manifest)
       IN  /\ runtimeLeft' = R
           /\ regular' \in PopularityOrders(manifest, S \ R)
           /\ IF HasCycle(R)
              THEN Return("circular runtime dependency")
              ELSE phase' = "runtime" /\ UNCHANGED result
    /\ UNCHANGED <<manifest, planVars, poolVars, toInstall, pc, ctx, effectVars>>

\* The next batch of buildAndInstallRuntimeBatches.
StartRuntimePool ==
    /\ phase = "runtime" /\ pool = {} /\ runtimeLeft # {}
    /\ LET layer == {p \in runtimeLeft : Needs(manifest, p) \cap runtimeLeft = {}}
       IN  /\ pool' = layer
           /\ queue' \in PopularityOrders(manifest, layer)
           /\ runtimeLeft' = runtimeLeft \ layer
    /\ UNCHANGED <<manifest, phase, planVars, batch, regular, toInstall, pc, ctx,
                   effectVars, result>>

\* All runtime dependencies are installed: buildAndInstallRegularPackages.
StartRegularPool ==
    /\ phase = "runtime" /\ pool = {} /\ runtimeLeft = {}
    /\ IF regular = <<>>
       THEN phase' = "batch" /\ UNCHANGED poolVars
       ELSE /\ phase' = "regular"
            /\ pool' = {regular[i] : i \in DOMAIN regular}
            /\ queue' = regular
    /\ UNCHANGED <<manifest, planVars, batchVars, toInstall, pc, ctx, effectVars,
                   result>>

\* g.Wait: every g.Go was called and every worker has ended.
WorkersEnded_LaunchedOnly == queue = <<>>
WorkersEnded == queue = <<>> /\ Active = {}

PoolDone ==
    /\ pool # {} /\ WorkersEnded
    /\ pool' = {}
    /\ IF Cancelled
       THEN Return("error") /\ UNCHANGED toInstall
       ELSE /\ phase' = IF phase = "regular" THEN "install" ELSE phase
            /\ toInstall' = IF phase = "regular" THEN regular ELSE toInstall
            /\ UNCHANGED result
    /\ UNCHANGED <<manifest, planVars, batchVars, queue, pc, ctx, effectVars>>

\* PKGBUILD.PkgName after the build; compileSplitPackages leaves the name of
\* the last sub-package there, which is no longer the --to name.
IsTarget(p) == p = manifest.to /\ (p \in manifest.split => manifest.noBuild)

Wanted_RuntimeOnly(p) ==
    ~manifest.noBuild /\ p \in manifest.install \cap RuntimeDependencies(manifest)
Wanted(p) == ~manifest.noBuild /\ p \in manifest.install

\* What the loop over regularPackages still has to visit after p: nothing, if p
\* is the --to package.
Rest_Stuck(p) == IF IsTarget(p) THEN <<>> ELSE toInstall
Rest(p) == IF IsTarget(p) THEN <<>> ELSE Tail(toInstall)

\* One turn of the loop over regularPackages: install it if it is marked.
InstallRegular ==
    /\ phase = "install" /\ toInstall # <<>>
    /\ LET p == Head(toInstall)
       IN  \/ /\ installed' = IF Wanted(p) THEN installed \cup {Extracted(manifest, p)}
                             ELSE installed
              /\ toInstall' = Rest(p)
              /\ UNCHANGED <<phase, result>>
           \/ /\ Wanted(p)
              /\ Return("error")
              /\ UNCHANGED <<installed, toInstall>>
    /\ UNCHANGED <<manifest, planVars, batchVars, poolVars, pc, ctx, built>>

BatchDone ==
    /\ phase = "install" /\ toInstall = <<>>
    /\ phase' = "batch"
    /\ UNCHANGED <<manifest, planVars, batchVars, poolVars, toInstall, pc, ctx,
                   effectVars, result>>

AllBatchesDone_OffByOne ==
    /\ phase = "batch" /\ batch + 1 >= Len(plan)
    /\ Return("ok")
    /\ UNCHANGED <<manifest, planVars, batchVars, poolVars, toInstall, pc, ctx,
                   effectVars>>

AllBatchesDone ==
    /\ phase = "batch" /\ batch = Len(plan)
    /\ Return("ok")
    /\ UNCHANGED <<manifest, planVars, batchVars, poolVars, toInstall, pc, ctx,
                   effectVars>>

--------------------------------------------------------------------------------
(* buildProjectsParallel: the loop that calls g.Go, and the workers.          *)

\* g.Go blocks while SetLimit(maxWorkers) workers run; it goes on launching
\* after a failure.
Launch ==
    /\ queue # <<>> /\ Cardinality(Active) < NumCPU
    /\ pc' = [pc EXCEPT ![Head(queue)] = "launched"]
    /\ queue' = Tail(queue)
    /\ UNCHANGED <<manifest, phase, planVars, batchVars, pool, toInstall,
                   ctx, effectVars, result>>

workerUnchanged == <<manifest, phase, planVars, batchVars, pool, queue, toInstall,
                     ctx, result>>

Enter_NoCheck(p) ==
    /\ pc[p] = "launched"
    /\ pc' = [pc EXCEPT ![p] = "compiling"]
    /\ UNCHANGED <<workerUnchanged, effectVars>>

\* The select on gctx.Done() before any work.
Enter(p) ==
    /\ pc[p] = "launched"
    /\ pc' = [pc EXCEPT ![p] = IF Cancelled THEN "skipped" ELSE "compiling"]
    /\ UNCHANGED <<workerUnchanged, effectVars>>

Compile(p) ==
    /\ pc[p] = "compiling"
    /\ pc' = [pc EXCEPT ![p] = IF manifest.noBuild THEN "done" ELSE "packaging"]
    /\ UNCHANGED <<workerUnchanged, effectVars>>

CreatePackage_NeverInstall(p) ==
    /\ pc[p] = "packaging"
    /\ pc' = [pc EXCEPT ![p] = "done"]
    /\ built' = built \cup {p}
    /\ UNCHANGED <<workerUnchanged, installed>>

CreatePackage(p) ==
    /\ pc[p] = "packaging"
    /\ pc' = [pc EXCEPT ![p] = IF phase = "runtime" THEN "installing" ELSE "done"]
    /\ built' = built \cup {p}
    /\ UNCHANGED <<workerUnchanged, installed>>

InstallPackageForWorker(p) ==
    /\ pc[p] = "installing"
    /\ pc' = [pc EXCEPT ![p] = "done"]
    /\ installed' = installed \cup {Extracted(manifest, p)}
    /\ UNCHANGED <<workerUnchanged, built>>

\* Any stage fails, or notices the cancelled context: the first error cancels
\* gctx.  Packaging may fail after the artifact is written (signing does).
Fail(p) ==
    /\ pc[p] \in {"compiling", "packaging", "installing"}
    /\ pc' = [pc EXCEPT ![p] = "failed"]
    /\ built' \in {built, IF pc[p] = "packaging" THEN built \cup {p} ELSE built}
    /\ UNCHANGED <<workerUnchanged, installed>>

Worker(p) ==
    Enter(p) \/ Compile(p) \/ CreatePackage(p) \/ InstallPackageForWorker(p) \/ Fail(p)

--------------------------------------------------------------------------------
\* Ctrl-C reaches the context BuildAll was given; nothing on this path reads it.
Interrupt ==
    /\ phase # "returned" /\ ctx = "live"
    /\ ctx' = "cancelled"
    /\ UNCHANGED <<manifest, phase, planVars, batchVars, poolVars, toInstall, pc,
                   effectVars, result>>

Terminated == phase = "returned" /\ UNCHANGED vars

Main ==
    \/ ResolveDependencies \/ CollectBatch \/ CircularDependency \/ OrderDetermined
    \/ SelectBatch \/ StartRuntimePool \/ StartRegularPool \/ PoolDone
    \/ InstallRegular \/ BatchDone \/ AllBatchesDone \/ Launch

Next == Main \/ (\E p \in Project : Worker(p)) \/ Interrupt \/ Terminated

Spec == Init /\ [][Next]_vars

\* The main goroutine and every worker keep running, and a stage that was
\* started ends; an interrupt need never come.
Fairness == WF_vars(Main) /\ \A p \in Project : WF_vars(Worker(p))

FairSpec == Spec /\ Fairness

--------------------------------------------------------------------------------
(* Properties *)

TypeOK ==
    /\ manifest \in Manifests
    /\ phase \in {"check", "sort", "batch", "runtime", "regular", "install", "returned"}
    /\ DOMAIN inDegree \subseteq Project /\ \A p \in DOMAIN inDegree : inDegree[p] \in Nat
    /\ plan \in Seq(SUBSET Project)
    /\ batch \in 0 .. Len(plan)
    /\ runtimeLeft \subseteq Project
    /\ regular \in Seq(Project) /\ queue \in Seq(Project) /\ toInstall \in Seq(Project)
    /\ pool \subseteq Project
    /\ pc \in [Project -> ActiveStates \cup {"waiting", "done", "failed", "skipped"}]
    /\ ctx \in {"live", "cancelled"}
    /\ built \subseteq Project /\ installed \subseteq Artifacts
    /\ result \in {"none", "ok", "error", "bad range", "circular dependency",
                   "circular runtime dependency"}

\* A worker past the gctx check finds every package of the range it depends
\* on, of either kind, already built by an earlier pool.
Working(p) == pc[p] \in {"compiling", "packaging", "installing", "done", "failed"}

DependenciesBuiltFirst ==
    \A p \in Project : Working(p) =>
        \A d \in Needs(manifest, p) \cap Selected :
            pc[d] = "done" /\ (~manifest.noBuild => d \in built)

\* ... and what it needs at run time has been through InstallOrExtract: it is on
\* the root filesystem, or, of a split project, its last sub-package is.
RuntimeDependenciesInstalled ==
    ~manifest.noBuild =>
        \A p \in Project : Working(p) =>
            manifest.depends[p] \cap Selected \subseteq onRoot

\* What the code promises is more: installing "ensures that runtime dependencies
\* (depends) are available during the build phase".  A split project is depended
\* on by the name of its first sub-package, which is never extracted.
RuntimeDependenciesAvailable ==
    ~manifest.noBuild =>
        \A p \in Project : Working(p) =>
            \A d \in manifest.depends[p] \cap Selected : Own(d) \in installed

\* "If true, the built package is installed immediately after building, before
\* subsequent projects build": a worker finds the marked packages it depends on
\* extracted, a split one as far as InstallOrExtract does it.
MarkedDependenciesInstalled ==
    ~manifest.noBuild =>
        \A p \in Project : Working(p) =>
            Needs(manifest, p) \cap Selected \cap manifest.install \subseteq onRoot

\* BuildAll says "ok" only when everything in range was built, and nothing it
\* should have installed was left out.
SuccessIsComplete ==
    result = "ok" =>
        /\ \A p \in Selected : pc[p] = "done"
        /\ ~manifest.noBuild =>
              /\ Selected \subseteq built
              /\ Selected \cap (RuntimeDependencies(manifest) \cup manifest.install)
                    \subseteq onRoot

\* Whatever BuildAll returns, no worker outlives it.
NoOrphanWorkers == phase = "returned" => Active = {}

\* The runtime dependencies of one batch never depend on each other: their own
\* topological sort is one layer and ErrCircularRuntimeDependency cannot occur.
RuntimeSortIsFlat ==
    /\ result # "circular runtime dependency"
    /\ pool # {} => runtimeLeft = {}

\* "The context is used for cancellation (e.g., Ctrl-C / SIGTERM)": once it is
\* cancelled, no worker starts to compile.
InterruptStopsBuild ==
    [][ctx = "cancelled" => \A p \in Project : pc'[p] = "compiling" => pc[p] = "compiling"]_vars

\* BuildAll returns.
BuildReturns == <>(phase = "returned")

\* The build this module details: a worker's stages are one building step.
StatusOf(stage) ==
    CASE stage \in {"waiting", "launched", "skipped"} -> "pending"
      [] stage \in {"compiling", "packaging", "installing"} -> "building"
      [] stage = "done" -> "built"
      [] stage = "failed" -> "failed"
Status == [p \in Project |-> StatusOf(pc[p])]

Ordered == INSTANCE OrderedBuild WITH status <- Status, outcome <- result

\* Batches, pools and workers keep the promise of a dependency-ordered build.
ImplementsOrderedBuild == Ordered!AbstractSpec
================================================================================
