--------------------------- MODULE OrderedBuildProofs --------------------------
(* What BuildAll promises as a whole: what "ok" says of what is built and extracted, *)
(* and that batches, pools and workers implement OrderedBuild.                  *)
EXTENDS ParallelBuildProofs

\* The loop over the regular packages visits them all: none is the --to package.
NeverStopped == \A p \in Selected \ RuntimeDependencies(manifest) : ~IsTarget(p)

\* The packages still to be visited are regular ones of the batch.
VisitInv ==
    /\ phase = "regular" => Elems(regular) = pool
    /\ phase = "install" => Elems(toInstall) \subseteq plan[batch] \ RuntimePart(batch)

Marked(S) == S \cap manifest.install

\* The marked packages of the earlier batches are installed, and so are those of
\* the current one the loop is past.
MarkedInv ==
    ~manifest.noBuild /\ NeverStopped =>
        /\ phase # "returned" => \A i \in 1 .. batch - 1 : Marked(plan[i]) \subseteq onRoot
        /\ phase = "batch" /\ batch > 0 => Marked(plan[batch]) \subseteq onRoot
        /\ phase = "install" => Marked(plan[batch]) \subseteq onRoot \cup Elems(toInstall)

\* What "ok" says.
SuccessInv ==
    result = "ok" =>
        /\ \A p \in Selected : Ended(p)
        /\ ~manifest.noBuild /\ NeverStopped => Marked(Selected) \subseteq onRoot

FullInv == IInv /\ VisitInv /\ MarkedInv /\ SuccessInv /\ (NeverStopped => MarkedDependenciesInstalled)
--------------------------------------------------------------------------------
(* "ok" says all is built and installed. *)

\* Every step keeps the packages still to be visited regular ones.
LEMMA VisitStep ==
    ASSUME IInv, VisitInv, [Next]_vars
    PROVE  VisitInv'
<1> USE DEF planVars, batchVars, poolVars, effectVars, onRoot, Return
<1>0. /\ toInstall \in Seq(Project) /\ regular \in Seq(Project)
      /\ \A i : RuntimePart(i) = plan[i] \cap RuntimeDependencies(manifest)
  BY DEF IInv, TypeOK, RuntimePart
<1>1. CASE StartRegularPool
  BY <1>1 DEF StartRegularPool, VisitInv, Elems
<1>2. CASE PoolDone
  <2>1. phase = "regular" => pool = plan[batch] \ RuntimePart(batch)
    BY DEF IInv, BatchInv
  <2>2. /\ phase' = "install" => phase = "regular" /\ toInstall' = regular
        /\ phase' # "regular" /\ UNCHANGED <<plan, batch, manifest>>
    BY <1>2 DEF PoolDone, IInv, PoolInv
  <2> QED
    BY <2>1, <2>2 DEF VisitInv, Elems, RuntimePart
<1>3. CASE InstallRegular
  <2>1. toInstall # <<>> /\ phase = "install" /\ phase' \in {"install", "returned"}
    BY <1>3 DEF InstallRegular
  <2>2. toInstall' \in {toInstall, <<>>, Tail(toInstall)} /\ UNCHANGED <<plan, batch, manifest>>
    BY <1>3 DEF InstallRegular, Rest
  <2>3. Elems(toInstall') \subseteq Elems(toInstall)
    BY <1>0, <2>1, <2>2 DEF Elems
  <2> QED
    BY <2>1, <2>2, <2>3 DEF VisitInv, RuntimePart, Elems
<1>4. CASE \/ ResolveDependencies \/ CollectBatch \/ CircularDependency \/ OrderDetermined
           \/ SelectBatch \/ StartRuntimePool \/ BatchDone \/ AllBatchesDone
  <2>1. phase' \notin {"regular", "install"}
    BY <1>4 DEF ResolveDependencies, CollectBatch, CircularDependency, OrderDetermined,
       SelectBatch, StartRuntimePool, BatchDone, AllBatchesDone
  <2> QED
    BY <2>1 DEF VisitInv
<1>5. CASE Launch \/ Interrupt \/ (\E p \in Project : Worker(p)) \/ UNCHANGED vars
  <2>1. UNCHANGED <<manifest, phase, plan, batch, regular, pool, toInstall>>
    BY <1>5 DEF Launch, Interrupt, Worker, Enter, Compile, CreatePackage,
       InstallPackageForWorker, Fail, workerUnchanged, vars
  <2> QED
    BY <2>1 DEF VisitInv, Elems, RuntimePart
<1> QED
  BY <1>1, <1>2, <1>3, <1>4, <1>5 DEF Next, Main, Terminated

\* The packages of a batch and of the range are projects.
LEMMA PlanFacts ==
    ASSUME IInv
    PROVE  /\ plan \in Seq(SUBSET Project) /\ batch \in Nat /\ Len(plan) \in Nat /\ batch <= Len(plan)
           /\ Selected \subseteq Project
           /\ \A i \in 1 .. Len(plan) : plan[i] \subseteq Selected
           /\ phase \in {"runtime", "regular", "install"} => batch \in 1 .. Len(plan)
<1>1. plan \in Seq(SUBSET Project) /\ batch \in 0 .. Len(plan)
  BY DEF IInv, TypeOK
<1>2. Selected \subseteq Project
  BY ManifestFacts DEF IInv, TypeOK
<1>3. batch \in Nat /\ Len(plan) \in Nat /\ batch <= Len(plan)
  BY <1>1
<1>4. phase \in {"runtime", "regular", "install"} => batch \in 1 .. Len(plan)
  BY <1>3 DEF IInv, PoolInv
<1> QED
  BY <1>1, <1>2, <1>3, <1>4 DEF IInv, SortInv

\* A runtime dependency that has ended is installed.
LEMMA EndedIsInstalled ==
    ASSUME ~manifest.noBuild, NEW S, \A p \in S \cap RuntimeDependencies(manifest) : Ended(p)
    PROVE  S \cap RuntimeDependencies(manifest) \subseteq onRoot
BY DEF Ended

\* Every step keeps the marked packages of what is past installed.
LEMMA MarkedStep ==
    ASSUME IInv, VisitInv, MarkedInv, [Next]_vars
    PROVE  MarkedInv'
<1> USE DEF planVars, batchVars, poolVars, effectVars, onRoot, Return
<1>0. manifest' = manifest /\ Selected' = Selected /\ onRoot \subseteq onRoot'
  BY Monotone DEF IInv, Selected
<1>a. NeverStopped' <=> NeverStopped
  BY <1>0 DEF NeverStopped, IsTarget
<1> SUFFICES ASSUME ~manifest.noBuild, NeverStopped
             PROVE  /\ phase' # "returned" =>
                          \A i \in 1 .. batch' - 1 : Marked(plan'[i]) \subseteq onRoot'
                    /\ phase' = "batch" /\ batch' > 0 => Marked(plan'[batch']) \subseteq onRoot'
                    /\ phase' = "install" =>
                          Marked(plan'[batch']) \subseteq onRoot' \cup Elems(toInstall')
  BY <1>0, <1>a DEF MarkedInv, Marked, Elems
<1>b. /\ phase # "returned" => \A i \in 1 .. batch - 1 : Marked(plan[i]) \subseteq onRoot
      /\ phase = "batch" /\ batch > 0 => Marked(plan[batch]) \subseteq onRoot
      /\ phase = "install" => Marked(plan[batch]) \subseteq onRoot \cup Elems(toInstall)
  BY DEF MarkedInv
<1>c. /\ batch \in Nat /\ (phase \in {"check", "sort"} => batch = 0)
      /\ plan \in Seq(SUBSET Project) /\ toInstall \in Seq(Project)
  BY PlanFacts DEF IInv, PoolInv, TypeOK
<1>1. CASE ResolveDependencies \/ CollectBatch \/ CircularDependency \/ OrderDetermined
  <2>1. batch' = 0 /\ phase' # "install"
    BY <1>1, <1>c DEF ResolveDependencies, CollectBatch, CircularDependency, OrderDetermined
  <2> QED
    BY <2>1
<1>2. CASE SelectBatch
  <2>1. phase = "batch" /\ batch' = batch + 1 /\ plan' = plan /\ phase' \in {"runtime", "returned"}
    BY <1>2 DEF SelectBatch
  <2>2. \A i \in 1 .. batch : (i = batch /\ batch > 0) \/ i \in 1 .. batch - 1
    BY <1>c
  <2>3. batch' - 1 = batch
    BY <1>c, <2>1
  <2> QED
    BY <1>0, <1>b, <2>1, <2>2, <2>3
<1>3. CASE StartRuntimePool
  BY <1>0, <1>3, <1>b DEF StartRuntimePool
<1>4. CASE StartRegularPool
  <2>1. /\ UNCHANGED <<plan, batch, onRoot>> /\ phase = "runtime" /\ pool = {} /\ runtimeLeft = {}
        /\ (phase' = "batch" /\ regular = <<>>) \/ phase' = "regular"
    BY <1>4 DEF StartRegularPool
  <2>2. ASSUME phase' = "batch" PROVE Marked(plan[batch]) \subseteq onRoot
    <3>1. Elems(regular) = {}
      BY <2>1, <2>2 DEF Elems
    <3>2. plan[batch] \subseteq RuntimePart(batch) /\ \A p \in RuntimePart(batch) : Ended(p)
      BY <2>1, <3>1 DEF IInv, BatchInv
    <3> QED
      BY <3>2 DEF RuntimePart, Ended, Marked
  <2> QED
    BY <1>b, <2>1, <2>2
<1>5. CASE PoolDone
  <2>1. /\ UNCHANGED <<plan, batch, onRoot>>
        /\ phase' # "batch" /\ phase # "returned"
        /\ phase' = "install" => phase = "regular" /\ toInstall' = regular
    BY <1>5 DEF PoolDone, IInv, PoolInv
  <2>2. ASSUME phase' = "install" PROVE Marked(plan[batch]) \subseteq onRoot \cup Elems(toInstall')
    <3>1. Elems(toInstall') = plan[batch] \ RuntimePart(batch)
      BY <2>1, <2>2 DEF VisitInv, IInv, BatchInv
    <3>2. \A p \in RuntimePart(batch) : Ended(p)
      BY <2>1, <2>2 DEF IInv, BatchInv
    <3> QED
      BY <3>1, <3>2 DEF RuntimePart, Ended, Marked
  <2> QED
    BY <1>b, <2>1, <2>2
<1>6. CASE InstallRegular
  <2> DEFINE p == Head(toInstall)
  <2>1. phase = "install" /\ toInstall # <<>> /\ UNCHANGED <<plan, batch>>
    BY <1>6 DEF InstallRegular
  <2>2. CASE phase' = "returned"
    BY <2>2
  <2>3. CASE phase' # "returned"
    <3>1. /\ phase' = phase /\ onRoot' = IF Wanted(p) THEN onRoot \cup {p} ELSE onRoot
          /\ toInstall' = Rest(p)
      <4>1. p \in Project
        BY <1>c, <2>1
      <4>2. OnRoot(manifest, installed \cup {Extracted(manifest, p)})
               = OnRoot(manifest, installed) \cup {p}
        BY <4>1, RootGrows
      <4> QED
        BY <1>0, <1>6, <2>3, <4>2 DEF InstallRegular
    <3>2. Elems(toInstall) \subseteq Elems(Tail(toInstall)) \cup {p} /\ p \in Elems(toInstall)
      <4>1. /\ 1 \in DOMAIN toInstall /\ p = toInstall[1]
            /\ \A i \in DOMAIN toInstall : i = 1 \/
                  (i - 1 \in DOMAIN Tail(toInstall) /\ toInstall[i] = Tail(toInstall)[i - 1])
        BY <1>c, <2>1
      <4> QED
        BY <4>1 DEF Elems
    <3>3. ~IsTarget(p)
      <4>1. p \in plan[batch] \ RuntimePart(batch)
        BY <2>1, <3>2 DEF VisitInv
      <4>2. batch \in 1 .. Len(plan) /\ \A i \in 1 .. Len(plan) : plan[i] \subseteq Selected
        BY <2>1, PlanFacts
      <4>3. p \in Selected \ RuntimeDependencies(manifest)
        BY <4>1, <4>2 DEF RuntimePart
      <4> QED
        BY <4>3 DEF NeverStopped
    <3>4. toInstall' = Tail(toInstall)
      BY <3>1, <3>3 DEF Rest
    <3>5. p \in manifest.install => p \in onRoot'
      BY <3>1 DEF Wanted
    <3>6. Marked(plan[batch]) \subseteq onRoot' \cup Elems(toInstall')
      BY <1>0, <1>b, <2>1, <3>2, <3>4, <3>5 DEF Marked
    <3> QED
      BY <1>0, <1>b, <2>1, <3>1, <3>6
  <2> QED
    BY <2>2, <2>3
<1>7. CASE BatchDone
  <2>1. /\ phase = "install" /\ Elems(toInstall) = {} /\ phase' = "batch"
        /\ UNCHANGED <<plan, batch, onRoot>>
    BY <1>7 DEF BatchDone, Elems
  <2> QED
    BY <1>b, <2>1
<1>8. CASE AllBatchesDone
  BY <1>8 DEF AllBatchesDone
<1>9. CASE Launch \/ Interrupt \/ (\E p \in Project : Worker(p)) \/ UNCHANGED vars
  <2>1. UNCHANGED <<phase, plan, batch, toInstall>>
    BY <1>9 DEF Launch, Interrupt, Worker, Enter, Compile, CreatePackage,
       InstallPackageForWorker, Fail, workerUnchanged, vars
  <2> QED
    BY <1>0, <1>b, <2>1
<1> QED
  BY <1>1, <1>2, <1>3, <1>4, <1>5, <1>6, <1>7, <1>8, <1>9 DEF Next, Main, Terminated

\* Every step keeps what "ok" says.
LEMMA SuccessStep ==
    ASSUME IInv, VisitInv, MarkedInv, SuccessInv, [Next]_vars
    PROVE  SuccessInv'
<1> USE DEF planVars, batchVars, poolVars, effectVars, onRoot, Return
<1>0. manifest' = manifest /\ Selected' = Selected /\ onRoot \subseteq onRoot'
  BY Monotone DEF IInv, Selected
<1>1. CASE AllBatchesDone
  <2>1. /\ phase = "batch" /\ batch = Len(plan)
        /\ UNCHANGED <<manifest, plan, batch, pc, built, onRoot>>
    BY <1>1 DEF AllBatchesDone
  <2>2. \A p \in Selected : \E i \in 1 .. batch : p \in plan[i]
    BY <2>1 DEF IInv, SortInv
  <2>3. \A i \in 1 .. batch : (i = batch /\ batch > 0) \/ i \in 1 .. batch - 1
    BY PlanFacts
  <2>4. \A i \in 1 .. batch : \A p \in plan[i] : Ended(p)
    BY <2>1, <2>3 DEF IInv, BatchInv
  <2>5. ~manifest.noBuild /\ NeverStopped =>
            \A i \in 1 .. batch : Marked(plan[i]) \subseteq onRoot
    BY <2>1, <2>3 DEF MarkedInv
  <2>6. /\ \A p \in Selected : Ended(p)
        /\ ~manifest.noBuild /\ NeverStopped => Marked(Selected) \subseteq onRoot
    BY <2>2, <2>4, <2>5 DEF Marked
  <2> QED
    BY <1>0, <2>1, <2>6 DEF SuccessInv, Ended, Marked, NeverStopped, IsTarget
<1>2. CASE result' # "ok"
  BY <1>2 DEF SuccessInv
<1>3. CASE result' = "ok" /\ ~AllBatchesDone
  <2>1. result = "ok"
    BY <1>3 DEF Next, Main, Terminated, ResolveDependencies, CollectBatch, CircularDependency,
       OrderDetermined, SelectBatch, StartRuntimePool, StartRegularPool, PoolDone, InstallRegular,
       BatchDone, Launch, Worker, Enter, Compile, CreatePackage, InstallPackageForWorker, Fail,
       workerUnchanged, Interrupt, vars
  <2>2. \A p \in Selected : p \in Project /\ Ended(p)
    BY <2>1, PlanFacts DEF SuccessInv
  <2>3. \A p \in Selected : Ended(p)'
    BY <2>2, EndedIsStable DEF IInv
  <2> QED
    BY <1>0, <2>1, <2>3 DEF SuccessInv, Marked, NeverStopped, IsTarget
<1> QED
  BY <1>1, <1>2, <1>3

\* Every step keeps a worker's marked dependencies installed.
LEMMA MarkedDependencyStep ==
    ASSUME IInv, MarkedInv, NeverStopped => MarkedDependenciesInstalled, [Next]_vars
    PROVE  (NeverStopped => MarkedDependenciesInstalled)'
<1>1. /\ manifest' = manifest /\ Selected' = Selected /\ onRoot \subseteq onRoot'
      /\ \A p \in Project : Working(p)' => Working(p) \/ Enter(p)
  BY Monotone DEF IInv, Selected
<1>2. NeverStopped' <=> NeverStopped
  BY <1>1 DEF NeverStopped, IsTarget
<1> SUFFICES ASSUME NeverStopped, ~manifest.noBuild, NEW p \in Project, Working(p)',
                    NEW d \in Needs(manifest, p) \cap Selected \cap manifest.install
             PROVE  d \in onRoot
  BY <1>1, <1>2 DEF MarkedDependenciesInstalled
<1>3. CASE Working(p)
  BY <1>3 DEF MarkedDependenciesInstalled
<1>4. CASE Enter(p)
  <2>1. p \in pool
    BY <1>4 DEF Enter, Active, ActiveStates, IInv, PoolInv
  <2>2. phase \in {"runtime", "regular"} /\ p \in plan[batch]
    BY <2>1 DEF IInv, PoolInv
  <2>3. batch \in 1 .. Len(plan)
    BY <2>2, PlanFacts
  <2>4. \E j \in 1 .. batch - 1 : d \in plan[j]
    BY <2>2, <2>3, BatchIsFlat DEF IInv
  <2>5. \A j \in 1 .. batch - 1 : Marked(plan[j]) \subseteq onRoot
    BY <2>2 DEF MarkedInv
  <2> QED
    BY <2>4, <2>5 DEF Marked
<1> QED
  BY <1>1, <1>3, <1>4

\* The invariant of this module, by way of the one of ParallelBuildProofs.
THEOREM FullInvariance == Spec => []FullInv
<1>1. Init => FullInv
  <2> SUFFICES ASSUME Init PROVE FullInv
    OBVIOUS
  <2>1. /\ phase = "check" /\ batch = 0 /\ result = "none" /\ \A p \in Project : pc[p] = "waiting"
    BY DEF Init
  <2>2. VisitInv /\ MarkedInv /\ SuccessInv /\ MarkedDependenciesInstalled
    BY <2>1 DEF VisitInv, MarkedInv, SuccessInv, MarkedDependenciesInstalled, Working
  <2> QED
    BY <2>2, InitInvariant DEF FullInv
<1>2. FullInv /\ [Next]_vars => FullInv'
  <2> SUFFICES ASSUME FullInv, [Next]_vars PROVE FullInv'
    OBVIOUS
  <2>1. IInv'
    BY InvariantStep DEF FullInv
  <2>2. VisitInv' /\ MarkedInv' /\ SuccessInv' /\ (NeverStopped => MarkedDependenciesInstalled)'
    BY VisitStep, MarkedStep, SuccessStep, MarkedDependencyStep DEF FullInv
  <2> QED
    BY <2>1, <2>2 DEF FullInv
<1> QED
  BY <1>1, <1>2, PTL DEF Spec

\* Whatever the flags, "ok" says that every project in range is built, and that what
\* some project of the file needs at run time has been through InstallOrExtract: a split
\* one is then on the root with its last sub-package only.
THEOREM SuccessIsBuilt ==
    Spec => [](result = "ok" =>
                  /\ \A p \in Selected : pc[p] = "done"
                  /\ ~manifest.noBuild =>
                        /\ Selected \subseteq built
                        /\ Selected \cap RuntimeDependencies(manifest) \subseteq onRoot)
<1>1. FullInv =>
        (result = "ok" =>
            /\ \A p \in Selected : pc[p] = "done"
            /\ ~manifest.noBuild =>
                  /\ Selected \subseteq built
                  /\ Selected \cap RuntimeDependencies(manifest) \subseteq onRoot)
  BY DEF FullInv, SuccessInv, Ended
<1> QED
  BY <1>1, FullInvariance, PTL

\* ... and, unless --to names a package whose turn ends the loop that installs the
\* marked ones, every marked package has been through it too.
THEOREM SuccessInstallsAll == Spec => [](NeverStopped => SuccessIsComplete)
<1>1. FullInv => (NeverStopped => SuccessIsComplete)
  <2> SUFFICES ASSUME FullInv, NeverStopped, result = "ok" PROVE SuccessIsComplete
    BY DEF SuccessIsComplete
  <2>1. /\ \A p \in Selected : Ended(p)
        /\ ~manifest.noBuild => Marked(Selected) \subseteq onRoot
    BY DEF FullInv, SuccessInv
  <2> QED
    BY <2>1 DEF SuccessIsComplete, Ended, Marked
<1> QED
  BY <1>1, FullInvariance, PTL

\* On the same condition a marked package has been extracted, as far as the code does
\* it, before any project that needs it is built.
THEOREM MarkedInstalledFirst == Spec => [](NeverStopped => MarkedDependenciesInstalled)
<1>1. FullInv => (NeverStopped => MarkedDependenciesInstalled)
  BY DEF FullInv
<1> QED
  BY <1>1, FullInvariance, PTL

\* Without --to the condition holds.
THEOREM WithoutToNothingStops == Spec => [](manifest.to = NoProject => NeverStopped)
<1>1. FullInv => (manifest.to = NoProject => NeverStopped)
  <2> SUFFICES ASSUME FullInv, manifest.to = NoProject, NEW p \in Selected PROVE ~IsTarget(p)
    BY DEF NeverStopped
  <2>1. p \in Project /\ NoProject \notin Project
    BY PlanFacts, ManifestAssumption DEF FullInv
  <2> QED
    BY <2>1 DEF IsTarget
<1> QED
  BY <1>1, FullInvariance, PTL
--------------------------------------------------------------------------------
(* BuildAll implements OrderedBuild. *)

\* What a stage of a worker is in the abstract build.
LEMMA StatusFacts ==
    ASSUME NEW stage \in ActiveStates \cup {"waiting", "done", "failed", "skipped"}
    PROVE  /\ StatusOf(stage) = "pending" <=> stage \in {"waiting", "launched", "skipped"}
           /\ StatusOf(stage) = "building" <=> stage \in {"compiling", "packaging", "installing"}
           /\ StatusOf(stage) = "built" <=> stage = "done"
           /\ StatusOf(stage) = "failed" <=> stage = "failed"
BY DEF StatusOf, ActiveStates

\* ... of every project.
LEMMA StatusIs ==
    ASSUME TypeOK, NEW p \in Project
    PROVE  /\ Status[p] = "pending" <=> pc[p] \in {"waiting", "launched", "skipped"}
           /\ Status[p] = "building" <=> pc[p] \in {"compiling", "packaging", "installing"}
           /\ Status[p] = "built" <=> pc[p] = "done"
           /\ Status[p] = "failed" <=> pc[p] = "failed"
<1>1. pc[p] \in ActiveStates \cup {"waiting", "done", "failed", "skipped"}
  BY DEF TypeOK
<1>2. Status[p] = StatusOf(pc[p])
  BY DEF Status
<1> QED
  BY <1>1, <1>2, StatusFacts

\* The state of a project changes with its stage only.
LEMMA StatusUpdate ==
    ASSUME TypeOK, NEW p \in Project, NEW s,
           pc' = [pc EXCEPT ![p] = s]
    PROVE  Status' = [Status EXCEPT ![p] = StatusOf(s)]
BY DEF Status, TypeOK

\* Both modules mean the same range.
LEMMA SameManifest ==
    /\ \A m : Ordered!InRange(m) = InRange(m)
    /\ \A m, p : Ordered!Needs(m, p) = Needs(m, p)
    /\ \A m, p : Ordered!Extracted(m, p) = Extracted(m, p)
    /\ \A m, root : Ordered!OnRoot(m, root) = OnRoot(m, root)
BY DEF Ordered!InRange, InRange, Ordered!Needs, Needs, Ordered!Extracted, Extracted,
   Ordered!OnRoot, OnRoot, Ordered!Own, Own

\* While no worker has failed no project at all has.
LEMMA NoneFailed ==
    ASSUME IInv, phase \in {"runtime", "regular"}, ~Cancelled
    PROVE  \A q \in Project : pc[q] # "failed"
<1> SUFFICES ASSUME NEW q \in Project, pc[q] = "failed" PROVE FALSE
  OBVIOUS
<1>1. batch \in Nat /\ batch > 0
  BY PlanFacts DEF IInv, PoolInv
<1>2. PICK i \in 1 .. batch : q \in plan[i]
  BY DEF IInv, PoolInv
<1>3. \A p \in plan[batch] : Ended(p) \/ pc[p] = "waiting" \/ p \in pool
  BY DEF IInv, BatchInv
<1>4. i = batch \/ i \in 1 .. batch - 1
  BY <1>1
<1>5. i \in 1 .. batch - 1 => Ended(q)
  BY <1>2 DEF IInv, BatchInv
<1>6. q \notin pool
  BY DEF Cancelled
<1> QED
  BY <1>2, <1>3, <1>4, <1>5, <1>6 DEF Ended

\* Outside the pools nothing is being built.
LEMMA NothingBuilding ==
    ASSUME IInv, pool = {} \/ Active = {}
    PROVE  \A p \in Project : Status[p] # "building"
<1>1. Active = {} /\ TypeOK
  BY DEF IInv, PoolInv
<1> QED
  BY <1>1, StatusIs DEF Active, ActiveStates

\* A step of a worker begins, finishes or breaks the building of its project, or is
\* one stage of it.
LEMMA WorkerImplements ==
    ASSUME IInv, IInv', NEW p \in Project, Worker(p)
    PROVE  [Ordered!AbstractNext]_(Ordered!abstractVars)
<1> USE DEF workerUnchanged, effectVars
<1>0. TypeOK /\ TypeOK'
  BY DEF IInv
<1>1. UNCHANGED <<manifest, phase, pool, result>>
  BY DEF Worker, Enter, Compile, CreatePackage, InstallPackageForWorker, Fail
<1>2. \A s : pc' = [pc EXCEPT ![p] = s] => Status' = [Status EXCEPT ![p] = StatusOf(s)]
  BY <1>0, StatusUpdate
<1>3. /\ StatusOf("skipped") = "pending" /\ StatusOf("compiling") = "building"
      /\ StatusOf("packaging") = "building" /\ StatusOf("installing") = "building"
      /\ StatusOf("done") = "built" /\ StatusOf("failed") = "failed"
  BY DEF StatusOf
<1>4. \A s : Status[p] = s => Status = [Status EXCEPT ![p] = s]
  BY DEF Status
<1>5. CASE Enter(p)
  <2>1. Status[p] = "pending" /\ p \in Active
    BY <1>0, <1>5, StatusIs DEF Enter, Active, ActiveStates
  <2>2. CASE Cancelled
    <3>1. Status' = [Status EXCEPT ![p] = "pending"]
      BY <1>2, <1>3, <1>5, <2>2 DEF Enter
    <3> QED
      BY <1>1, <1>4, <1>5, <2>1, <3>1 DEF Enter, Ordered!abstractVars
  <2>3. CASE ~Cancelled
    <3>1. Status' = [Status EXCEPT ![p] = "building"]
      BY <1>2, <1>3, <1>5, <2>3 DEF Enter
    <3>2. p \in pool /\ phase \in {"runtime", "regular"} /\ pool \subseteq plan[batch] /\ result = "none"
      BY <2>1 DEF IInv, PoolInv, ResultInv
    <3>3. p \in InRange(manifest)
      BY <3>2, PlanFacts DEF Selected
    <3>4. \A q \in Project : Status[q] # "failed"
      BY <1>0, <2>3, <3>2, NoneFailed, StatusIs
    <3>5. \A d \in Needs(manifest, p) \cap InRange(manifest) : Status[d] = "built"
      BY <1>0, <1>5, NeedsEnded, StatusIs DEF IInv, Ended, Selected
    <3>6. Working(p)'
      BY <1>0, <1>5, <2>3 DEF Enter, Working, TypeOK
    <3>7. ~manifest.noBuild => manifest.depends[p] \cap InRange(manifest) \subseteq onRoot
      BY <1>1, <1>5, <3>6 DEF IInv, RuntimeDependenciesInstalled, Enter, Selected, onRoot, effectVars
    <3>8. Ordered!Ready(p)
      BY <3>5, <3>7, SameManifest DEF Ordered!Ready, onRoot
    <3>9. Ordered!Begin(p)
      BY <1>1, <1>5, <2>1, <3>1, <3>2, <3>3, <3>4, <3>8, SameManifest DEF Ordered!Begin, Enter
    <3> QED
      BY <3>9 DEF Ordered!AbstractNext
  <2> QED
    BY <2>2, <2>3
<1>6. CASE Compile(p) \/ CreatePackage(p) \/ InstallPackageForWorker(p)
  <2>1. Status[p] = "building" /\ installed' \in {installed, installed \cup {Extracted(manifest, p)}}
    BY <1>0, <1>6, StatusIs DEF Compile, CreatePackage, InstallPackageForWorker
  <2>2. \/ Status' = [Status EXCEPT ![p] = "built"]
        \/ Status' = [Status EXCEPT ![p] = "building"] /\ installed' = installed
    BY <1>2, <1>3, <1>6 DEF Compile, CreatePackage, InstallPackageForWorker
  <2>3. CASE Status' = [Status EXCEPT ![p] = "built"]
    <3>1. Ordered!Finish(p)
      BY <1>1, <2>1, <2>3, SameManifest DEF Ordered!Finish
    <3> QED
      BY <3>1 DEF Ordered!AbstractNext
  <2>4. CASE Status' = [Status EXCEPT ![p] = "building"] /\ installed' = installed
    BY <1>1, <1>4, <2>1, <2>4 DEF Ordered!abstractVars
  <2> QED
    BY <2>2, <2>3, <2>4
<1>7. CASE Fail(p)
  <2>1. Status[p] = "building" /\ installed' = installed
    BY <1>0, <1>7, StatusIs DEF Fail
  <2>2. Status' = [Status EXCEPT ![p] = "failed"]
    BY <1>2, <1>3, <1>7 DEF Fail
  <2>3. Ordered!Break(p)
    BY <1>1, <2>1, <2>2 DEF Ordered!Break
  <2> QED
    BY <2>3 DEF Ordered!AbstractNext
<1> QED
  BY <1>5, <1>6, <1>7 DEF Worker

\* A step that ends the build while nothing is being built concludes it.
LEMMA ReturnImplements ==
    ASSUME IInv, result = "none", pool = {} \/ Active = {},
           UNCHANGED <<manifest, pc, installed>>,
           result' \in {"ok", "error", "bad range", "circular dependency"},
           result' = "ok" => \A p \in Selected : Ended(p)
    PROVE  Ordered!AbstractNext
<1>1. Status' = Status
  BY DEF Status
<1>2. \A p \in Project : Status[p] # "building"
  BY NothingBuilding
<1>3. result' = "ok" => \A p \in InRange(manifest) : Status[p] = "built"
  BY PlanFacts, StatusIs DEF Ended, Selected, IInv
<1>4. Ordered!Conclude
  BY <1>1, <1>2, <1>3, SameManifest DEF Ordered!Conclude
<1> QED
  BY <1>4 DEF Ordered!AbstractNext

\* A step of BuildAll itself installs a package that is built, ends the build, or is
\* one the abstract build does not see.
LEMMA MainImplements ==
    ASSUME IInv, IInv', VisitInv, SuccessInv', Main
    PROVE  [Ordered!AbstractNext]_(Ordered!abstractVars)
<1> USE DEF planVars, batchVars, poolVars, effectVars, Return
<1>s. pc' = pc => Status' = Status
  BY DEF Status
<1>0. /\ phase # "returned" => result = "none"
      /\ phase \in {"check", "sort", "batch", "install"} => pool = {}
  BY DEF IInv, PoolInv, ResultInv
<1>1. CASE ResolveDependencies
  <2>1. /\ UNCHANGED <<manifest, pc, installed>> /\ phase = "check"
        /\ result' = "bad range" \/ result' = result
    BY <1>1 DEF ResolveDependencies
  <2> QED
    BY <1>0, <1>s, <2>1, ReturnImplements DEF Ordered!abstractVars
<1>2. CASE CircularDependency
  <2>1. /\ UNCHANGED <<manifest, pc, installed>> /\ phase = "sort" /\ result' = "circular dependency"
    BY <1>2 DEF CircularDependency
  <2> QED
    BY <1>0, <2>1, ReturnImplements
<1>3. CASE CollectBatch \/ OrderDetermined \/ StartRuntimePool \/ StartRegularPool \/ BatchDone
  <2>1. UNCHANGED <<manifest, pc, installed, result>>
    BY <1>3 DEF CollectBatch, OrderDetermined, StartRuntimePool, StartRegularPool, BatchDone
  <2> QED
    BY <1>s, <2>1 DEF Ordered!abstractVars
<1>4. CASE SelectBatch
  <2>1. UNCHANGED <<manifest, pc, installed>> /\ (result' = "circular runtime dependency" \/ result' = result)
    BY <1>4 DEF SelectBatch
  <2>2. result' # "circular runtime dependency"
    BY DEF IInv, ResultInv
  <2> QED
    BY <1>s, <2>1, <2>2 DEF Ordered!abstractVars
<1>5. CASE PoolDone
  <2>1. /\ UNCHANGED <<manifest, pc, installed>> /\ Active = {} /\ phase # "returned"
        /\ result' = "error" \/ result' = result
    BY <1>5 DEF PoolDone, WorkersEnded, IInv, PoolInv
  <2> QED
    BY <1>0, <1>s, <2>1, ReturnImplements DEF Ordered!abstractVars
<1>6. CASE InstallRegular
  <2> DEFINE p == Head(toInstall)
  <2>1. /\ UNCHANGED <<manifest, pc>> /\ phase = "install" /\ toInstall # <<>>
        /\ \/ installed' \in {installed, installed \cup {Extracted(manifest, p)}} /\ result' = result
           \/ installed' = installed /\ result' = "error"
    BY <1>6 DEF InstallRegular
  <2>2. p \in Elems(toInstall) /\ p \in Project
    <3>1. toInstall \in Seq(Project)
      BY DEF IInv, TypeOK
    <3>2. 1 \in DOMAIN toInstall /\ p = toInstall[1] /\ p \in Project
      BY <2>1, <3>1
    <3> QED
      BY <3>2 DEF Elems
  <2>3. Status[p] = "built"
    <3>1. Ended(p)
      BY <2>1, <2>2, PlanFacts DEF VisitInv, IInv, BatchInv
    <3> QED
      BY <2>2, <3>1, StatusIs DEF Ended, IInv
  <2>4. CASE installed' = installed \cup {Extracted(manifest, p)} /\ result' = result
    <3>1. Ordered!Install(p)
      BY <1>0, <1>s, <2>1, <2>3, <2>4, SameManifest DEF Ordered!Install
    <3> QED
      BY <2>2, <3>1 DEF Ordered!AbstractNext
  <2>5. CASE installed' = installed /\ result' = result
    BY <1>s, <2>1, <2>5 DEF Ordered!abstractVars
  <2>6. CASE installed' = installed /\ result' = "error"
    BY <1>0, <2>1, <2>6, ReturnImplements
  <2> QED
    BY <2>1, <2>4, <2>5, <2>6
<1>7. CASE AllBatchesDone
  <2>1. /\ UNCHANGED <<manifest, pc, built, installed>> /\ phase = "batch" /\ result' = "ok"
    BY <1>7 DEF AllBatchesDone
  <2>2. \A q \in Selected : Ended(q)
    BY <2>1 DEF SuccessInv, Ended, Selected, onRoot
  <2> QED
    BY <1>0, <2>1, <2>2, ReturnImplements
<1>8. CASE Launch
  <2>1. /\ UNCHANGED <<manifest, installed, result>> /\ queue # <<>>
        /\ pc' = [pc EXCEPT ![Head(queue)] = "launched"]
    BY <1>8 DEF Launch
  <2>2. Head(queue) \in Project /\ pc[Head(queue)] = "waiting"
    <3>1. queue \in Seq(Project) /\ Head(queue) \in Elems(queue)
      BY <2>1, ListFacts DEF IInv, TypeOK, PoolInv
    <3> QED
      BY <3>1 DEF IInv, TypeOK, PoolInv
  <2>3. Status' = Status
    <3>1. StatusOf("launched") = StatusOf("waiting")
      BY DEF StatusOf
    <3>2. Status' = [Status EXCEPT ![Head(queue)] = StatusOf("launched")]
      BY <2>1, <2>2, StatusUpdate DEF IInv
    <3> QED
      BY <2>2, <3>1, <3>2 DEF Status
  <2> QED
    BY <2>1, <2>3 DEF Ordered!abstractVars
<1> QED
  BY <1>1, <1>2, <1>3, <1>4, <1>5, <1>6, <1>7, <1>8 DEF Main

\* Batches, errgroup pools and workers keep the promise of OrderedBuild: a project
\* begins only when all it needs is there and nothing has failed, and the build ends
\* with nothing being built.
THEOREM Implements == Spec => ImplementsOrderedBuild
<1>1. Init => Ordered!AbstractInit
  BY DEF Init, Ordered!AbstractInit, Status, StatusOf
<1>2. FullInv /\ FullInv' /\ [Next]_vars => [Ordered!AbstractNext]_(Ordered!abstractVars)
  <2> SUFFICES ASSUME FullInv, FullInv', [Next]_vars
               PROVE  [Ordered!AbstractNext]_(Ordered!abstractVars)
    OBVIOUS
  <2>1. CASE Main
    BY <2>1, MainImplements DEF FullInv
  <2>2. ASSUME NEW p \in Project, Worker(p)
        PROVE  [Ordered!AbstractNext]_(Ordered!abstractVars)
    BY <2>2, WorkerImplements DEF FullInv
  <2>3. CASE Interrupt \/ UNCHANGED vars
    BY <2>3 DEF Interrupt, vars, poolVars, effectVars, Status, Ordered!abstractVars
  <2> QED
    BY <2>1, <2>2, <2>3 DEF Next, Terminated
<1> QED
  BY <1>1, <1>2, FullInvariance, PTL DEF Spec, ImplementsOrderedBuild, Ordered!AbstractSpec
================================================================================
