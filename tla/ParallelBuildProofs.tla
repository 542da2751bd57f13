-------------------------- MODULE ParallelBuildProofs --------------------------
(* Proofs about ParallelBuild, for every collection and number of workers.    *)
EXTENDS ParallelBuild, FiniteSetTheorems, TLAPS

Elems(s) == {s[i] : i \in DOMAIN s}

\* The runtime dependencies (R) and the other packages (G) of batch i.
RuntimePart(i) == plan[i] \cap RuntimeDependencies(manifest)

\* topologicalSort: the batches are disjoint, hold packages of the range only,
\* and whatever a package needs is in an earlier batch; an in-degree is the
\* number of needs that are not placed yet.
SortInv ==
    /\ \A i \in 1 .. Len(plan) : plan[i] \subseteq Selected /\ plan[i] \cap Unplaced = {}
    /\ \A i, j \in 1 .. Len(plan) : i # j => plan[i] \cap plan[j] = {}
    /\ \A i \in 1 .. Len(plan) : \A p \in plan[i] :
          \A d \in Needs(manifest, p) \cap Selected : \E j \in 1 .. i - 1 : d \in plan[j]
    /\ Unplaced \subseteq Selected
    /\ \A p \in Unplaced : inDegree[p] = Dependents(Unplaced, p)
    /\ phase = "check" => plan = <<>> /\ Unplaced = {}
    /\ phase = "sort" =>
          \A p \in Selected : p \in Unplaced \/ \E i \in 1 .. Len(plan) : p \in plan[i]
    /\ phase \in {"batch", "runtime", "regular", "install"} =>
          \A p \in Selected : \E i \in 1 .. Len(plan) : p \in plan[i]

\* What a project of an earlier batch has become.
Ended(p) ==
    /\ pc[p] = "done"
    /\ ~manifest.noBuild =>
          p \in built /\ (p \in RuntimeDependencies(manifest) => p \in onRoot)

\* The pools: who is waiting, who is working, and what the finished ones left.
PoolInv ==
    /\ phase \in {"check", "sort"} => batch = 0
    /\ phase \in {"runtime", "regular", "install"} => batch > 0
    /\ pool # {} => phase \in {"runtime", "regular"} /\ pool \subseteq plan[batch]
    /\ pool = {} => queue = <<>>
    /\ Active \subseteq pool /\ Elems(queue) \subseteq pool
    /\ \A i, j \in DOMAIN queue : i # j => queue[i] # queue[j]
    /\ \A p \in pool : pc[p] = "waiting" <=> p \in Elems(queue)
    /\ \A p \in pool : pc[p] \in {"failed", "skipped"} => Cancelled
    /\ \A p \in Project : pc[p] # "waiting" => \E i \in 1 .. batch : p \in plan[i]
    /\ \A p \in Active : pc[p] \in {"packaging", "installing"} => ~manifest.noBuild
    /\ \A p \in Active : pc[p] = "installing" => p \in built /\ phase = "runtime"
    /\ \A p \in pool : pc[p] = "done" /\ ~manifest.noBuild =>
          p \in built /\ (phase = "runtime" => p \in onRoot)

\* The batches: the earlier ones are complete, the current one is divided
\* between the packages waiting for a pool, the pool and the finished ones.
BatchInv ==
    /\ phase # "returned" => \A i \in 1 .. batch - 1 : \A p \in plan[i] : Ended(p)
    /\ phase \in {"batch", "install"} /\ batch > 0 => \A p \in plan[batch] : Ended(p)
    /\ phase = "runtime" =>
          /\ Elems(regular) = plan[batch] \ RuntimePart(batch)
          /\ \A i, j \in DOMAIN regular : i # j => regular[i] # regular[j]
          /\ runtimeLeft \cup pool \subseteq RuntimePart(batch)
          /\ \A p \in runtimeLeft \cup Elems(regular) : pc[p] = "waiting"
          /\ pool # {} => runtimeLeft = {}
          /\ \A p \in RuntimePart(batch) \ (runtimeLeft \cup pool) : Ended(p)
    /\ phase = "regular" =>
          /\ pool = plan[batch] \ RuntimePart(batch) /\ pool # {} /\ runtimeLeft = {}
          /\ \A p \in RuntimePart(batch) : Ended(p)

ResultInv ==
    /\ result # "circular runtime dependency"
    /\ phase = "returned" <=> result # "none"

IInv ==
    /\ TypeOK /\ SortInv /\ PoolInv /\ BatchInv /\ ResultInv
    /\ DependenciesBuiltFirst /\ RuntimeDependenciesInstalled

--------------------------------------------------------------------------------
(* Facts about the collection and the degrees.                                *)

\* What a manifest names is among the projects.
LEMMA ManifestFacts ==
    ASSUME manifest \in Manifests
    PROVE  /\ manifest \in ManifestType
           /\ Selected \subseteq Project
           /\ RuntimeDependencies(manifest) \subseteq Project
           /\ \A p \in Project : Needs(manifest, p) \subseteq Project
<1>1. manifest \in ManifestType
  BY ManifestAssumption
<1>2. Selected \subseteq Project
  BY <1>1 DEF ManifestType, Selected, InRange
<1>3. RuntimeDependencies(manifest) \subseteq Project
  BY <1>1 DEF ManifestType, RuntimeDependencies, Listed
<1>4. \A p \in Project : Needs(manifest, p) \subseteq Project
  BY <1>1 DEF ManifestType, Needs
<1> QED
  BY <1>1, <1>2, <1>3, <1>4

\* Extracting what InstallOrExtract finds of p is what puts p on the root.
LEMMA RootGrows ==
    ASSUME NEW m, NEW root, NEW p \in Project
    PROVE  /\ OnRoot(m, root \cup {Extracted(m, p)}) = OnRoot(m, root) \cup {p}
           /\ Extracted(m, p) \in Artifacts
<1>1. \A q \in Project : Extracted(m, q) = Extracted(m, p) <=> q = p
  BY DEF Extracted, Own
<1>2. Extracted(m, p) \in Artifacts
  BY DEF Extracted, Own, Artifacts
<1> QED
  BY <1>1, <1>2 DEF OnRoot

\* What in-degrees count is finite, and adds up over disjoint sets.
LEMMA CardinalitySplit ==
    ASSUME NEW D, NEW U, NEW S \in SUBSET U, IsFiniteSet(D)
    PROVE  /\ Cardinality(D \cap U) \in Nat
           /\ Cardinality(D \cap S) \in Nat
           /\ Cardinality(D \cap U) - Cardinality(D \cap S) = Cardinality(D \cap (U \ S))
           /\ Cardinality(D \cap (U \ S)) \in Nat
           /\ Cardinality(D \cap U) = 0 => D \cap U = {}
<1>1. /\ IsFiniteSet(D \cap U) /\ IsFiniteSet(D \cap S) /\ IsFiniteSet(D \cap (U \ S))
  BY FS_Subset
<1>2. D \cap (U \ S) = (D \cap U) \ (D \cap S)
  OBVIOUS
<1>3. Cardinality((D \cap U) \ (D \cap S))
         = Cardinality(D \cap U) - Cardinality((D \cap U) \cap (D \cap S))
  BY <1>1, FS_Difference
<1>4. (D \cap U) \cap (D \cap S) = D \cap S
  OBVIOUS
<1>5. /\ Cardinality(D \cap U) \in Nat /\ Cardinality(D \cap S) \in Nat
      /\ Cardinality(D \cap (U \ S)) \in Nat
  BY <1>1, FS_CardinalityType
<1>6. Cardinality(D \cap U) = 0 => D \cap U = {}
  BY <1>1, FS_EmptySet
<1> QED
  BY <1>2, <1>3, <1>4, <1>5, <1>6

\* How many of a set a project needs, without a part of it, and when none.
LEMMA DependentsFacts ==
    ASSUME manifest \in Manifests, NEW q \in Project,
           NEW U \in SUBSET Project, NEW S \in SUBSET U
    PROVE  /\ Dependents(U, q) \in Nat
           /\ Dependents(U, q) - Dependents(S, q) = Dependents(U \ S, q)
           /\ Dependents(U \ S, q) \in Nat
           /\ Dependents(U, q) = 0 => Needs(manifest, q) \cap U = {}
<1>1. manifest.depends[q] \subseteq Project /\ manifest.makeDepends[q] \subseteq Project
  BY ManifestFacts DEF ManifestType
<1>2. IsFiniteSet(manifest.depends[q]) /\ IsFiniteSet(manifest.makeDepends[q])
  BY <1>1, ManifestAssumption, FS_Subset
<1>3. /\ Cardinality(manifest.depends[q] \cap U) \in Nat
      /\ Cardinality(manifest.depends[q] \cap S) \in Nat
      /\ Cardinality(manifest.depends[q] \cap U) - Cardinality(manifest.depends[q] \cap S)
           = Cardinality(manifest.depends[q] \cap (U \ S))
      /\ Cardinality(manifest.depends[q] \cap (U \ S)) \in Nat
      /\ Cardinality(manifest.depends[q] \cap U) = 0 => manifest.depends[q] \cap U = {}
  BY <1>2, CardinalitySplit
<1>4. /\ Cardinality(manifest.makeDepends[q] \cap U) \in Nat
      /\ Cardinality(manifest.makeDepends[q] \cap S) \in Nat
      /\ Cardinality(manifest.makeDepends[q] \cap U) - Cardinality(manifest.makeDepends[q] \cap S)
           = Cardinality(manifest.makeDepends[q] \cap (U \ S))
      /\ Cardinality(manifest.makeDepends[q] \cap (U \ S)) \in Nat
      /\ Cardinality(manifest.makeDepends[q] \cap U) = 0 => manifest.makeDepends[q] \cap U = {}
  BY <1>2, CardinalitySplit
<1>5. Needs(manifest, q) \cap U
        = (manifest.depends[q] \cap U) \cup (manifest.makeDepends[q] \cap U)
  BY DEF Needs
<1>6. /\ Dependents(U, q) \in Nat
      /\ Dependents(U, q) - Dependents(S, q) = Dependents(U \ S, q)
      /\ Dependents(U \ S, q) \in Nat
  BY <1>3, <1>4 DEF Dependents
<1>7. Dependents(U, q) = 0 =>
         /\ Cardinality(manifest.depends[q] \cap U) = 0
         /\ Cardinality(manifest.makeDepends[q] \cap U) = 0
  BY <1>3, <1>4 DEF Dependents
<1> QED
  BY <1>3, <1>4, <1>5, <1>6, <1>7

\* The orders sort.Slice may choose are lists of the batch without repetition.
LEMMA OrderFacts ==
    ASSUME manifest \in Manifests, NEW S \in SUBSET Project,
           NEW s \in PopularityOrders(manifest, S)
    PROVE  /\ s \in Seq(Project)
           /\ Elems(s) = S
           /\ \A i, j \in DOMAIN s : i # j => s[i] # s[j]
<1>1. IsFiniteSet(S) /\ Cardinality(S) \in Nat
  BY ManifestAssumption, FS_Subset, FS_CardinalityType
<1>2. s \in [1 .. Cardinality(S) -> S]
  BY DEF PopularityOrders
<1>3. s \in Seq(Project)
  BY <1>1, <1>2
<1>4. Elems(s) = S
  BY DEF PopularityOrders, Elems
<1>5. \A i, j \in DOMAIN s : i < j => s[i] # s[j]
  BY DEF PopularityOrders
<1>6. \A i, j \in DOMAIN s : i \in Int /\ j \in Int
  BY <1>1, <1>2
<1> QED
  BY <1>3, <1>4, <1>5, <1>6
--------------------------------------------------------------------------------
(* Type correctness. *)

\* Nothing is counted or built at first.
LEMMA InitType == Init => TypeOK
<1> SUFFICES ASSUME Init PROVE TypeOK
  OBVIOUS
<1>1. DOMAIN inDegree = {}
  BY DEF Init
<1> QED
  BY <1>1 DEF Init, TypeOK, ActiveStates

\* Every step keeps the types.
LEMMA TypeStep ==
    ASSUME TypeOK, SortInv, [Next]_vars
    PROVE  TypeOK'
<1> USE DEF planVars, batchVars, poolVars, effectVars, onRoot, Return
<1>a. /\ Selected \subseteq Project
      /\ RuntimeDependencies(manifest) \subseteq Project
  BY ManifestFacts DEF TypeOK
<1>b. plan \in Seq(SUBSET Project) /\ batch \in 0 .. Len(plan)
  BY DEF TypeOK
<1>c. regular \in Seq(Project) /\ queue \in Seq(Project) /\ toInstall \in Seq(Project)
  BY DEF TypeOK
<1>1. CASE ResolveDependencies
  <2>1. ASSUME NEW p \in Selected
        PROVE  Cardinality(manifest.depends[p] \cap Selected)
                 + Cardinality(manifest.makeDepends[p] \cap Selected) \in Nat
    BY <1>a, <2>1, DependentsFacts DEF Dependents, TypeOK
  <2> QED
    BY <1>a, <1>1, <2>1 DEF ResolveDependencies, TypeOK
<1>2. CASE CollectBatch
  <2>1. Candidates \subseteq Unplaced /\ Unplaced \subseteq Project
    BY DEF Candidates, Unplaced, TypeOK
  <2>2. ASSUME NEW q \in Unplaced \ Candidates
        PROVE  inDegree[q] - Dependents(Candidates, q) \in Nat
    <3>1. Unplaced \in SUBSET Project /\ Candidates \in SUBSET Unplaced /\ q \in Project
      BY <2>1
    <3>2. /\ Dependents(Unplaced, q) - Dependents(Candidates, q)
               = Dependents(Unplaced \ Candidates, q)
          /\ Dependents(Unplaced \ Candidates, q) \in Nat
      BY <3>1, DependentsFacts DEF TypeOK
    <3>3. inDegree[q] = Dependents(Unplaced, q)
      BY DEF SortInv
    <3> QED
      BY <3>2, <3>3
  <2>3. plan' = Append(plan, Candidates)
    BY <1>2 DEF CollectBatch
  <2>4. plan' \in Seq(SUBSET Project) /\ batch \in 0 .. Len(plan')
    BY <1>b, <2>1, <2>3
  <2>5. /\ DOMAIN inDegree' = Unplaced \ Candidates
        /\ \A q \in DOMAIN inDegree' : inDegree'[q] \in Nat
    BY <1>2, <2>2 DEF CollectBatch
  <2> QED
    BY <1>2, <2>1, <2>4, <2>5 DEF CollectBatch, TypeOK
<1>3. CASE CircularDependency
  BY <1>3 DEF CircularDependency, TypeOK
<1>4. CASE OrderDetermined
  BY <1>4 DEF OrderDetermined, TypeOK
<1>5. CASE SelectBatch
  <2> DEFINE R == plan[batch + 1] \cap RuntimeDependencies(manifest)
  <2>1. plan[batch + 1] \subseteq Project /\ batch + 1 \in 0 .. Len(plan)
    <3>1. batch < Len(plan)
      BY <1>5 DEF SelectBatch
    <3> QED
      BY <1>b, <3>1
  <2>2. regular' \in PopularityOrders(manifest, plan[batch + 1] \ R)
    BY <1>5 DEF SelectBatch
  <2>3. regular' \in Seq(Project)
    BY <2>1, <2>2, OrderFacts DEF TypeOK
  <2>4. runtimeLeft' \subseteq Project
    BY <1>a, <1>5, <2>1 DEF SelectBatch
  <2> QED
    BY <1>5, <2>1, <2>3, <2>4 DEF SelectBatch, TypeOK
<1>6. CASE StartRuntimePool
  <2> DEFINE layer == {p \in runtimeLeft : Needs(manifest, p) \cap runtimeLeft = {}}
  <2>1. queue' \in PopularityOrders(manifest, layer) /\ layer \subseteq Project
    BY <1>6 DEF StartRuntimePool, TypeOK
  <2>2. queue' \in Seq(Project)
    BY <2>1, OrderFacts DEF TypeOK
  <2> QED
    BY <1>6, <2>1, <2>2 DEF StartRuntimePool, TypeOK
<1>7. CASE StartRegularPool
  <2>1. {regular[i] : i \in DOMAIN regular} \subseteq Project
    BY <1>c
  <2> QED
    BY <1>7, <2>1 DEF StartRegularPool, TypeOK
<1>8. CASE PoolDone
  BY <1>8 DEF PoolDone, WorkersEnded, TypeOK
<1>9. CASE InstallRegular
  <2>1. Head(toInstall) \in Project /\ Tail(toInstall) \in Seq(Project)
    BY <1>c, <1>9 DEF InstallRegular
  <2>2. Rest(Head(toInstall)) \in Seq(Project)
    BY <2>1 DEF Rest
  <2>3. Extracted(manifest, Head(toInstall)) \in Artifacts
    BY <2>1, RootGrows
  <2>4. installed' \subseteq Artifacts
    BY <1>9, <2>3 DEF InstallRegular, TypeOK
  <2> QED
    BY <1>9, <2>1, <2>2, <2>4 DEF InstallRegular, TypeOK
<1>10. CASE BatchDone
  BY <1>10 DEF BatchDone, TypeOK
<1>11. CASE AllBatchesDone
  BY <1>11 DEF AllBatchesDone, TypeOK
<1>12. CASE Launch
  <2>1. Head(queue) \in Project /\ Tail(queue) \in Seq(Project)
    BY <1>c, <1>12 DEF Launch
  <2> QED
    BY <1>12, <2>1 DEF Launch, TypeOK, ActiveStates
<1>13. ASSUME NEW p \in Project, Worker(p) PROVE TypeOK'
  <2> USE DEF workerUnchanged, TypeOK, ActiveStates
  <2>1. CASE Enter(p)
    BY <2>1 DEF Enter
  <2>2. CASE Compile(p)
    BY <2>2 DEF Compile
  <2>3. CASE CreatePackage(p)
    BY <2>3 DEF CreatePackage
  <2>4. CASE InstallPackageForWorker(p)
    <3>1. Extracted(manifest, p) \in Artifacts
      BY RootGrows
    <3> QED
      BY <2>4, <3>1 DEF InstallPackageForWorker
  <2>5. CASE Fail(p)
    BY <2>5 DEF Fail
  <2> QED
    BY <1>13, <2>1, <2>2, <2>3, <2>4, <2>5 DEF Worker
<1>14. CASE Interrupt
  BY <1>14 DEF Interrupt, TypeOK
<1>15. CASE UNCHANGED vars
  BY <1>15 DEF vars, TypeOK
<1> QED
  BY <1>1, <1>2, <1>3, <1>4, <1>5, <1>6, <1>7, <1>8, <1>9, <1>10, <1>11, <1>12,
     <1>13, <1>14, <1>15 DEF Next, Main, Terminated

--------------------------------------------------------------------------------
(* The sort: what it has placed, in which order, and what it has left.        *)

LateScheduling == {"batch", "runtime", "regular", "install"}

\* Once the order is determined nothing touches it.
LEMMA SortFrame ==
    ASSUME SortInv, UNCHANGED <<manifest, plan, inDegree>>,
           \/ phase' = phase
           \/ /\ phase' \notin {"check", "sort"}
              /\ phase' \in LateScheduling => phase \in LateScheduling
    PROVE  SortInv'
<1>1. Unplaced' = Unplaced /\ Selected' = Selected
  BY DEF Unplaced, Selected
<1>2. \A q : Needs(manifest', q) = Needs(manifest, q)
  OBVIOUS
<1>3. \A p \in Unplaced' : inDegree'[p] = Dependents(Unplaced, p)'
  BY <1>1 DEF Dependents, SortInv
<1> QED
  BY <1>1, <1>2, <1>3 DEF SortInv, LateScheduling

\* Every step keeps what is said of the sort.
LEMMA SortStep ==
    ASSUME TypeOK, SortInv, [Next]_vars
    PROVE  SortInv'
<1> USE DEF planVars, batchVars, poolVars, effectVars, onRoot, Return
<1>a. Selected \subseteq Project
  BY ManifestFacts DEF TypeOK
<1>0. plan \in Seq(SUBSET Project)
  BY DEF TypeOK
<1>b. plan \in Seq(SUBSET Project) /\ Len(plan) \in Nat
  BY <1>0
<1>1. CASE ResolveDependencies
  <2>1. plan' = <<>> /\ manifest' = manifest /\ Selected' = Selected
    BY <1>1 DEF ResolveDependencies, SortInv, Selected
  <2>2. CASE RangeIsValid(manifest)
    <3>1. Unplaced' = Selected
      BY <1>1, <2>2 DEF ResolveDependencies, Unplaced
    <3>2. \A p \in Unplaced' : inDegree'[p] = Dependents(Unplaced, p)'
      BY <1>1, <2>1, <2>2, <3>1 DEF ResolveDependencies, Dependents
    <3>3. phase' = "sort"
      BY <1>1, <2>2 DEF ResolveDependencies
    <3> QED
      BY <2>1, <3>1, <3>2, <3>3 DEF SortInv
  <2>3. CASE ~RangeIsValid(manifest)
    BY <1>1, <2>3, SortFrame DEF ResolveDependencies, LateScheduling
  <2> QED
    BY <2>2, <2>3
<1>2. CASE CollectBatch
  <2> DEFINE n == Len(plan)
  <2>1. Candidates \subseteq Unplaced /\ Unplaced \subseteq Selected
    BY DEF Candidates, SortInv
  <2>2. /\ Unplaced' = Unplaced \ Candidates
        /\ plan' = Append(plan, Candidates)
        /\ manifest' = manifest /\ Selected' = Selected
        /\ phase = "sort" /\ phase' = "sort"
    BY <1>2 DEF CollectBatch, Unplaced, Selected
  <2>3. /\ Len(plan') = n + 1
        /\ \A i \in 1 .. n : plan'[i] = plan[i]
        /\ plan'[n + 1] = Candidates
    BY <1>a, <1>b, <2>1, <2>2
  <2>4. \A i \in 1 .. Len(plan') : plan'[i] \subseteq Selected' /\ plan'[i] \cap Unplaced' = {}
    <3>1. \A i \in 1 .. n : plan[i] \subseteq Selected /\ plan[i] \cap Unplaced = {}
      BY DEF SortInv
    <3> QED
      BY <1>b, <2>1, <2>2, <2>3, <3>1
  <2>5. \A i, j \in 1 .. Len(plan') : i # j => plan'[i] \cap plan'[j] = {}
    <3>1. \A i, j \in 1 .. n : i # j => plan[i] \cap plan[j] = {}
      BY DEF SortInv
    <3>2. \A i \in 1 .. n : plan[i] \cap Candidates = {}
      BY <2>1 DEF SortInv
    <3> QED
      BY <1>b, <2>3, <3>1, <3>2
  <2>6. \A p \in Selected : p \in Unplaced \/ \E i \in 1 .. n : p \in plan[i]
    BY <2>2 DEF SortInv
  <2>7. ASSUME NEW p \in Candidates, NEW d \in Needs(manifest, p) \cap Selected
        PROVE  \E j \in 1 .. n : d \in plan[j]
    <3>1. inDegree[p] = 0 /\ inDegree[p] = Dependents(Unplaced, p) /\ p \in Project
      BY <1>a, <2>1, <2>7 DEF Candidates, SortInv
    <3>2. Needs(manifest, p) \cap Unplaced = {}
      BY <1>a, <2>1, <3>1, DependentsFacts DEF TypeOK
    <3> QED
      BY <2>6, <2>7, <3>2
  <2>8. \A i \in 1 .. Len(plan') : \A p \in plan'[i] :
           \A d \in Needs(manifest', p) \cap Selected' : \E j \in 1 .. i - 1 : d \in plan'[j]
    <3>1. \A i \in 1 .. n : \A p \in plan[i] :
             \A d \in Needs(manifest, p) \cap Selected : \E j \in 1 .. i - 1 : d \in plan[j]
      BY DEF SortInv
    <3>2. ASSUME NEW i \in 1 .. n, NEW p \in plan'[i], NEW d \in Needs(manifest', p) \cap Selected'
          PROVE  \E j \in 1 .. i - 1 : d \in plan'[j]
      <4>1. PICK j \in 1 .. i - 1 : d \in plan[j]
        BY <2>2, <2>3, <3>1, <3>2
      <4> QED
        BY <1>b, <2>3, <4>1
    <3>3. ASSUME NEW p \in plan'[n + 1], NEW d \in Needs(manifest', p) \cap Selected'
          PROVE  \E j \in 1 .. (n + 1) - 1 : d \in plan'[j]
      <4>1. PICK j \in 1 .. n : d \in plan[j]
        BY <2>2, <2>3, <2>7, <3>3
      <4> QED
        BY <1>b, <2>3, <4>1
    <3> QED
      BY <1>b, <2>3, <3>2, <3>3
  <2>9. \A p \in Unplaced' : inDegree'[p] = Dependents(Unplaced, p)'
    <3> SUFFICES ASSUME NEW p \in Unplaced \ Candidates
                 PROVE  inDegree'[p] = Dependents(Unplaced \ Candidates, p)
      BY <2>2 DEF Dependents
    <3>1. Unplaced \in SUBSET Project /\ Candidates \in SUBSET Unplaced /\ p \in Project
      BY <1>a, <2>1
    <3>2. Dependents(Unplaced, p) - Dependents(Candidates, p)
            = Dependents(Unplaced \ Candidates, p)
      BY <3>1, DependentsFacts DEF TypeOK
    <3>3. inDegree[p] = Dependents(Unplaced, p)
      BY DEF SortInv
    <3> QED
      BY <1>2, <3>2, <3>3 DEF CollectBatch
  <2>10. \A p \in Selected' : p \in Unplaced' \/ \E i \in 1 .. Len(plan') : p \in plan'[i]
    BY <1>b, <2>2, <2>3, <2>6
  <2> QED
    BY <2>1, <2>2, <2>4, <2>5, <2>8, <2>9, <2>10 DEF SortInv
<1>3. CASE CircularDependency
  BY <1>3, SortFrame DEF CircularDependency, LateScheduling
<1>4. CASE OrderDetermined
  <2>1. /\ UNCHANGED <<manifest, plan, inDegree>> /\ phase = "sort" /\ phase' = "batch"
        /\ Unplaced = {}
    BY <1>4 DEF OrderDetermined
  <2>2. Unplaced' = {} /\ Selected' = Selected
    BY <2>1 DEF Unplaced, Selected
  <2>3. \A p \in Selected : \E i \in 1 .. Len(plan) : p \in plan[i]
    BY <2>1 DEF SortInv
  <2> QED
    BY <2>1, <2>2, <2>3 DEF SortInv
<1>5. CASE SelectBatch
  BY <1>5, SortFrame DEF SelectBatch, LateScheduling
<1>6. CASE StartRuntimePool
  BY <1>6, SortFrame DEF StartRuntimePool, LateScheduling
<1>7. CASE StartRegularPool
  BY <1>7, SortFrame DEF StartRegularPool, LateScheduling
<1>8. CASE PoolDone
  BY <1>8, SortFrame DEF PoolDone, LateScheduling
<1>9. CASE InstallRegular
  BY <1>9, SortFrame DEF InstallRegular, LateScheduling
<1>10. CASE BatchDone
  BY <1>10, SortFrame DEF BatchDone, LateScheduling
<1>11. CASE AllBatchesDone
  BY <1>11, SortFrame DEF AllBatchesDone, LateScheduling
<1>12. CASE Launch \/ Interrupt
  BY <1>12, SortFrame DEF Launch, Interrupt
<1>13. ASSUME NEW p \in Project, Worker(p) PROVE SortInv'
  <2>1. UNCHANGED <<manifest, plan, inDegree, phase>>
    BY <1>13 DEF Worker, Enter, Compile, CreatePackage, InstallPackageForWorker, Fail,
       workerUnchanged
  <2> QED
    BY <2>1, SortFrame
<1>14. CASE UNCHANGED vars
  BY <1>14, SortFrame DEF vars
<1> QED
  BY <1>1, <1>2, <1>3, <1>4, <1>5, <1>6, <1>7, <1>8, <1>9, <1>10, <1>11, <1>12,
     <1>13, <1>14 DEF Next, Main, Terminated

--------------------------------------------------------------------------------
(* The pools. *)

\* Lists without repetition: g.Go takes their packages one by one.
LEMMA ListFacts ==
    ASSUME NEW s \in Seq(Project), \A i, j \in DOMAIN s : i # j => s[i] # s[j]
    PROVE  /\ s = <<>> <=> Elems(s) = {}
           /\ s # <<>> =>
                /\ Head(s) \in Elems(s)
                /\ Elems(Tail(s)) = Elems(s) \ {Head(s)}
                /\ \A i, j \in DOMAIN Tail(s) : i # j => Tail(s)[i] # Tail(s)[j]
<1>1. s = <<>> <=> Elems(s) = {}
  BY DEF Elems
<1>2. ASSUME s # <<>>
      PROVE  /\ Head(s) = s[1] /\ Len(s) \in Nat /\ 1 \in DOMAIN s
             /\ DOMAIN s = 1 .. Len(s)
             /\ DOMAIN Tail(s) = 1 .. Len(s) - 1
             /\ \A i \in 1 .. Len(s) - 1 : Tail(s)[i] = s[i + 1] /\ i + 1 \in DOMAIN s
  BY <1>2
<1>3. ASSUME s # <<>> PROVE Elems(Tail(s)) = Elems(s) \ {Head(s)}
  <2>1. ASSUME NEW x \in Elems(Tail(s)) PROVE x \in Elems(s) \ {Head(s)}
    BY <1>2, <1>3, <2>1 DEF Elems
  <2>2. ASSUME NEW x \in Elems(s) \ {Head(s)} PROVE x \in Elems(Tail(s))
    <3>1. PICK i \in 1 .. Len(s) : x = s[i] /\ i # 1
      BY <1>2, <1>3, <2>2 DEF Elems
    <3>2. i - 1 \in 1 .. Len(s) - 1 /\ Tail(s)[i - 1] = x
      BY <1>2, <1>3, <3>1
    <3> QED
      BY <1>2, <1>3, <3>2 DEF Elems
  <2> QED
    BY <2>1, <2>2
<1>4. ASSUME s # <<>>
      PROVE  \A i, j \in DOMAIN Tail(s) : i # j => Tail(s)[i] # Tail(s)[j]
  BY <1>2, <1>4
<1> QED
  BY <1>1, <1>2, <1>3, <1>4 DEF Elems

\* Nothing a step does undoes what a finished project left, and a worker begins
\* to work at the gctx check only.
LEMMA Monotone ==
    ASSUME TypeOK, PoolInv, [Next]_vars
    PROVE  /\ manifest' = manifest
           /\ built \subseteq built' /\ onRoot \subseteq onRoot'
           /\ \A p \in Project : pc[p] = "done" => pc'[p] = "done"
           /\ \A p \in Project : Working(p)' => Working(p) \/ Enter(p)
<1> USE DEF planVars, batchVars, poolVars, effectVars, onRoot, Return
<1>1. CASE Launch
  <2>1. Head(queue) \in Elems(queue)
    BY <1>1, ListFacts DEF Launch, TypeOK, PoolInv
  <2>2. pc[Head(queue)] = "waiting"
    BY <2>1 DEF PoolInv
  <2> QED
    BY <1>1, <2>2 DEF Launch, TypeOK, Working
<1>2. ASSUME NEW p \in Project, Worker(p)
      PROVE  /\ manifest' = manifest
             /\ built \subseteq built' /\ onRoot \subseteq onRoot'
             /\ \A q \in Project : pc[q] = "done" => pc'[q] = "done"
             /\ \A q \in Project : Working(q)' => Working(q) \/ Enter(q)
  <2> USE DEF workerUnchanged, Working
  <2>0. pc \in [Project -> ActiveStates \cup {"waiting", "done", "failed", "skipped"}]
    BY DEF TypeOK
  <2>1. CASE Enter(p)
    BY <2>0, <2>1 DEF Enter
  <2>2. CASE Compile(p)
    BY <2>0, <2>2 DEF Compile
  <2>3. CASE CreatePackage(p)
    BY <2>0, <2>3 DEF CreatePackage
  <2>4. CASE InstallPackageForWorker(p)
    BY <2>0, <2>4, RootGrows DEF InstallPackageForWorker
  <2>5. CASE Fail(p)
    BY <2>0, <2>5 DEF Fail
  <2> QED
    BY <1>2, <2>1, <2>2, <2>3, <2>4, <2>5 DEF Worker
<1>3. CASE \/ ResolveDependencies \/ CollectBatch \/ CircularDependency \/ OrderDetermined
           \/ SelectBatch \/ StartRuntimePool \/ StartRegularPool \/ PoolDone
           \/ BatchDone \/ AllBatchesDone \/ Interrupt \/ UNCHANGED vars
  BY <1>3 DEF ResolveDependencies, CollectBatch, CircularDependency, OrderDetermined,
     SelectBatch, StartRuntimePool, StartRegularPool, PoolDone, BatchDone,
     AllBatchesDone, Interrupt, vars, Working
<1>4. CASE InstallRegular
  <2>1. UNCHANGED <<manifest, built, pc>>
    BY <1>4 DEF InstallRegular
  <2>2. PICK q \in Project :
            installed' = installed \/ installed' = installed \cup {Extracted(manifest, q)}
    <3>1. toInstall # <<>> /\ toInstall \in Seq(Project)
      BY <1>4 DEF InstallRegular, TypeOK
    <3>2. Head(toInstall) \in Project
      BY <3>1
    <3> QED
      BY <1>4, <3>2 DEF InstallRegular
  <2>3. OnRoot(manifest, installed \cup {Extracted(manifest, q)})
           = OnRoot(manifest, installed) \cup {q}
    BY RootGrows
  <2>4. onRoot \subseteq onRoot'
    BY <2>1, <2>2, <2>3
  <2> QED
    BY <2>1, <2>4 DEF Working
<1> QED
  BY <1>1, <1>2, <1>3, <1>4 DEF Next, Main, Terminated

\* The packages of one batch need nothing of it: what they need is in an
\* earlier batch, and the batches are disjoint.
LEMMA BatchIsFlat ==
    ASSUME TypeOK, SortInv, NEW i \in 1 .. Len(plan), NEW p \in plan[i]
    PROVE  /\ p \in Project /\ p \in Selected
           /\ Needs(manifest, p) \cap plan[i] = {}
           /\ \A d \in Needs(manifest, p) \cap Selected : \E j \in 1 .. i - 1 : d \in plan[j]
<1>1. p \in Project /\ plan[i] \subseteq Selected
  BY ManifestFacts DEF TypeOK, SortInv
<1>2. \A d \in Needs(manifest, p) \cap Selected : \E j \in 1 .. i - 1 : d \in plan[j]
  BY DEF SortInv
<1>3. ASSUME NEW d \in Needs(manifest, p) \cap plan[i] PROVE FALSE
  <2>1. PICK j \in 1 .. i - 1 : d \in plan[j]
    BY <1>1, <1>2, <1>3
  <2>2. plan \in Seq(SUBSET Project)
    BY DEF TypeOK
  <2>3. j \in 1 .. Len(plan) /\ i # j
    BY <2>2
  <2> QED
    BY <1>3, <2>1, <2>3 DEF SortInv
<1> QED
  BY <1>1, <1>2, <1>3

\* Every action keeps the pools in order.
LEMMA PoolStep ==
    ASSUME TypeOK, SortInv, PoolInv, BatchInv, [Next]_vars
    PROVE  PoolInv'
<1> USE DEF planVars, batchVars, poolVars, effectVars, onRoot, Return
<1>0. /\ plan \in Seq(SUBSET Project) /\ batch \in 0 .. Len(plan)
      /\ pc \in [Project -> ActiveStates \cup {"waiting", "done", "failed", "skipped"}]
  BY DEF TypeOK
<1>a. batch \in Nat /\ Len(plan) \in Nat
  BY <1>0
<1>b. Active \subseteq Project
  BY DEF Active
<1>1. CASE ResolveDependencies
  BY <1>1 DEF ResolveDependencies, PoolInv, Active, Cancelled
<1>2. CASE CollectBatch
  <2>1. /\ batch = 0 /\ phase = "sort" /\ pool = {} /\ queue = <<>>
        /\ \A p \in Project : pc[p] = "waiting"
    BY <1>2 DEF CollectBatch, PoolInv
  <2> QED
    BY <1>2, <2>1 DEF CollectBatch, PoolInv, Active, Cancelled, ActiveStates
<1>3. CASE CircularDependency
  BY <1>3 DEF CircularDependency, PoolInv, Active, Cancelled
<1>4. CASE OrderDetermined
  BY <1>4 DEF OrderDetermined, PoolInv, Active, Cancelled
<1>5. CASE SelectBatch
  <2>1. /\ batch' = batch + 1 /\ phase = "batch" /\ pool = {} /\ plan' = plan
        /\ phase' \in {"returned", "runtime"}
        /\ UNCHANGED <<manifest, pool, queue, pc, built, onRoot>>
    BY <1>5 DEF SelectBatch, PoolInv
  <2>0. batch' > 0
    BY <1>a, <2>1
  <2>2. \A p \in Project : pc[p] # "waiting" => \E i \in 1 .. batch + 1 : p \in plan[i]
    BY <1>a DEF PoolInv
  <2>3. Active' = Active /\ Active = {} /\ queue = <<>>
    BY <2>1 DEF Active, PoolInv
  <2> QED
    BY <2>0, <2>1, <2>2, <2>3 DEF PoolInv, Elems
<1>6. CASE StartRuntimePool
  <2> DEFINE layer == {p \in runtimeLeft : Needs(manifest, p) \cap runtimeLeft = {}}
  <2>1. /\ queue' \in PopularityOrders(manifest, layer) /\ layer \subseteq Project
        /\ pool' = layer /\ pool = {} /\ phase = "runtime" /\ phase' = phase
        /\ layer \subseteq plan[batch]
        /\ \A p \in layer : pc[p] = "waiting"
    BY <1>6 DEF StartRuntimePool, TypeOK, BatchInv, RuntimePart
  <2>2. /\ Elems(queue') = layer
        /\ \A i, j \in DOMAIN queue' : i # j => queue'[i] # queue'[j]
    BY <2>1, OrderFacts DEF TypeOK
  <2>3. layer = {} => queue' = <<>>
    BY <2>1, <2>2, OrderFacts, ListFacts DEF TypeOK
  <2> QED
    BY <1>6, <2>1, <2>2, <2>3 DEF StartRuntimePool, PoolInv, Active, Cancelled, Elems
<1>7. CASE StartRegularPool
  <2>1. CASE regular = <<>>
    BY <1>7, <2>1 DEF StartRegularPool, PoolInv, Active, Cancelled
  <2>2. CASE regular # <<>>
    <3>1. /\ pool' = Elems(regular) /\ queue' = regular /\ pool = {}
          /\ phase = "runtime" /\ phase' = "regular"
          /\ Elems(regular) \subseteq plan[batch]
          /\ \A p \in Elems(regular) : pc[p] = "waiting"
          /\ \A i, j \in DOMAIN regular : i # j => regular[i] # regular[j]
      BY <1>7, <2>2 DEF StartRegularPool, BatchInv, Elems
    <3>2. Elems(regular) # {}
      BY <2>2, <3>1, ListFacts DEF TypeOK
    <3> QED
      BY <1>7, <2>2, <3>1, <3>2 DEF StartRegularPool, PoolInv, Active, Cancelled, Elems
  <2> QED
    BY <2>1, <2>2
<1>8. CASE PoolDone
  <2>1. /\ UNCHANGED <<manifest, plan, batch, queue, pc, built, onRoot>>
        /\ pool' = {} /\ queue = <<>> /\ Active = {} /\ Active' = Active
        /\ phase \in {"runtime", "regular"}
        /\ phase' \in {"returned", "runtime", "install"}
    BY <1>8 DEF PoolDone, WorkersEnded, PoolInv, Active
  <2> QED
    BY <2>1 DEF PoolInv, Elems
<1>9. CASE InstallRegular
  BY <1>9 DEF InstallRegular, PoolInv, Active, Cancelled
<1>10. CASE BatchDone \/ AllBatchesDone \/ Interrupt \/ UNCHANGED vars
  BY <1>10 DEF BatchDone, AllBatchesDone, Interrupt, vars, PoolInv, Active, Cancelled
<1>11. CASE Launch
  <2>1. /\ Head(queue) \in Elems(queue)
        /\ Elems(Tail(queue)) = Elems(queue) \ {Head(queue)}
        /\ \A i, j \in DOMAIN Tail(queue) : i # j => Tail(queue)[i] # Tail(queue)[j]
    BY <1>11, ListFacts DEF Launch, TypeOK, PoolInv
  <2> DEFINE h == Head(queue)
  <2>2. h \in pool /\ h \in Project /\ pc[h] = "waiting"
    BY <2>1 DEF PoolInv, TypeOK
  <2>3. /\ pc' = [pc EXCEPT ![h] = "launched"] /\ queue' = Tail(queue)
        /\ UNCHANGED <<manifest, phase, plan, batch, pool, built, onRoot>>
    BY <1>11 DEF Launch
  <2>4. Active' = Active \cup {h}
    BY <1>0, <2>2, <2>3 DEF Active, ActiveStates
  <2>5. \A p \in Project : pc'[p] = IF p = h THEN "launched" ELSE pc[p]
    BY <1>0, <2>3
  <2>6. Cancelled' = Cancelled
    BY <2>2, <2>3, <2>5 DEF Cancelled, TypeOK
  <2>7. Elems(queue') = Elems(queue) \ {h} /\ h \in Elems(queue)
    BY <2>1, <2>3
  <2>8. pool \subseteq Project
    BY DEF TypeOK
  <2>9. \E i \in 1 .. batch : h \in plan[i]
    BY <1>a, <2>2 DEF PoolInv
  <2>10. \A p \in Project : pc'[p] # "waiting" => \E i \in 1 .. batch : p \in plan[i]
    BY <2>5, <2>9 DEF PoolInv
  <2> QED
    BY <1>b, <2>1, <2>2, <2>3, <2>4, <2>5, <2>6, <2>7, <2>8, <2>10 DEF PoolInv
<1>12. ASSUME NEW p \in Project, Worker(p) PROVE PoolInv'
  <2> USE DEF workerUnchanged
  <2>1. /\ UNCHANGED <<manifest, phase, plan, batch, pool, queue>>
        /\ p \in Active
        /\ built \subseteq built' /\ onRoot \subseteq onRoot'
    BY <1>12, RootGrows DEF Worker, Enter, Compile, CreatePackage, InstallPackageForWorker, Fail,
       Active, ActiveStates
  <2>2. pool \subseteq Project /\ p \in pool /\ pc[p] # "waiting"
    BY <2>1 DEF TypeOK, PoolInv, Active, ActiveStates
  <2>3. \A q \in Project : q # p => pc'[q] = pc[q]
    BY <1>0, <1>12 DEF Worker, Enter, Compile, CreatePackage, InstallPackageForWorker, Fail
  <2>4. /\ pc'[p] # "waiting"
        /\ pc'[p] = "skipped" => Cancelled
        /\ pc'[p] = "packaging" => ~manifest.noBuild
        /\ pc'[p] = "installing" => p \in built' /\ phase = "runtime" /\ ~manifest.noBuild
        /\ pc'[p] = "done" /\ ~manifest.noBuild =>
              p \in built' /\ (phase = "runtime" => p \in onRoot')
    <3> USE DEF ActiveStates
    <3>1. CASE Enter(p)
      BY <1>0, <3>1 DEF Enter
    <3>2. CASE Compile(p)
      BY <1>0, <3>2 DEF Compile
    <3>3. CASE CreatePackage(p)
      BY <1>0, <2>1, <3>3 DEF CreatePackage, PoolInv
    <3>4. CASE InstallPackageForWorker(p)
      BY <1>0, <2>1, <3>4, RootGrows DEF InstallPackageForWorker, PoolInv
    <3>5. CASE Fail(p)
      BY <1>0, <3>5 DEF Fail
    <3> QED
      BY <1>12, <3>1, <3>2, <3>3, <3>4, <3>5 DEF Worker
  <2>5. pc[p] \in ActiveStates /\ Active' \subseteq Active
    BY <2>1, <2>3 DEF Active
  <2>6. Cancelled => Cancelled'
    <3>1. pc[p] # "failed"
      BY <2>5 DEF ActiveStates
    <3> QED
      BY <2>1, <2>2, <2>3, <3>1 DEF Cancelled
  <2>7. pc'[p] = "failed" => Cancelled'
    BY <2>1, <2>2 DEF Cancelled
  <2>8. \A q \in Project : pc'[q] # "waiting" => pc[q] # "waiting"
    BY <2>2, <2>3
  <2> QED
    BY <2>1, <2>2, <2>3, <2>4, <2>5, <2>6, <2>7, <2>8 DEF PoolInv
<1> QED
  BY <1>1, <1>2, <1>3, <1>4, <1>5, <1>6, <1>7, <1>8, <1>9, <1>10, <1>11, <1>12
     DEF Next, Main, Terminated

--------------------------------------------------------------------------------
(* The batches. *)

\* A project that has ended stays so.
LEMMA EndedIsStable ==
    ASSUME TypeOK, PoolInv, [Next]_vars, NEW p \in Project, Ended(p)
    PROVE  Ended(p)'
BY Monotone DEF Ended

\* Every step keeps what is said of the batches and the pool.
LEMMA BatchStep ==
    ASSUME TypeOK, SortInv, PoolInv, BatchInv, [Next]_vars
    PROVE  BatchInv'
<1> USE DEF planVars, batchVars, poolVars, effectVars, onRoot, Return
<1>0. /\ plan \in Seq(SUBSET Project) /\ batch \in 0 .. Len(plan)
      /\ pc \in [Project -> ActiveStates \cup {"waiting", "done", "failed", "skipped"}]
  BY DEF TypeOK
<1>a. batch \in Nat /\ Len(plan) \in Nat /\ batch <= Len(plan)
  BY <1>0
<1>b. \A i \in 1 .. Len(plan) : plan[i] \subseteq Project
  BY <1>0
<1>c. \A i \in 1 .. batch : plan[i] \subseteq Project
  BY <1>a, <1>b
<1>d. ASSUME UNCHANGED <<manifest, plan, batch>>, phase # "returned"
      PROVE  \A i \in 1 .. batch' - 1 : \A p \in plan'[i] : Ended(p)'
  BY <1>a, <1>c, <1>d, EndedIsStable DEF BatchInv
<1>1. CASE ResolveDependencies
  BY <1>1, <1>d DEF ResolveDependencies, BatchInv, PoolInv
<1>2. CASE CollectBatch
  <2>1. batch = 0 /\ batch' = 0 /\ phase' = "sort"
    BY <1>2 DEF CollectBatch, PoolInv
  <2> QED
    BY <2>1 DEF BatchInv
<1>3. CASE CircularDependency
  BY <1>3 DEF CircularDependency, BatchInv
<1>4. CASE OrderDetermined
  <2>1. batch = 0 /\ batch' = 0 /\ phase' = "batch"
    BY <1>4 DEF OrderDetermined, PoolInv
  <2> QED
    BY <2>1 DEF BatchInv
<1>5. CASE SelectBatch
  <2> DEFINE n == batch + 1
             R == plan[n] \cap RuntimeDependencies(manifest)
  <2>1. /\ batch' = n /\ phase = "batch" /\ pool = {} /\ batch < Len(plan)
        /\ runtimeLeft' = R
        /\ regular' \in PopularityOrders(manifest, plan[n] \ R)
        /\ phase' \in {"returned", "runtime"}
        /\ UNCHANGED <<manifest, plan, pool, pc, built, onRoot>>
    BY <1>5 DEF SelectBatch, PoolInv
  <2>2. n \in 1 .. Len(plan) /\ plan[n] \subseteq Project
    BY <1>0, <1>a, <2>1
  <2>3. \A i \in 1 .. batch : \A p \in plan[i] : Ended(p)
    BY <1>a, <2>1 DEF BatchInv
  <2>4. \A i \in 1 .. batch' - 1 : \A p \in plan'[i] : Ended(p)'
    <3>1. batch' - 1 = batch /\ plan' = plan
      BY <1>a, <2>1
    <3>2. \A p : Ended(p)' <=> Ended(p)
      BY <2>1 DEF Ended
    <3> QED
      BY <2>3, <3>1, <3>2
  <2>5. ASSUME NEW p \in plan[n] PROVE pc[p] = "waiting"
    <3>1. p \in Project
      BY <2>2, <2>5
    <3>2. \A i \in 1 .. batch : plan[i] \cap plan[n] = {}
      BY <1>a, <2>2 DEF SortInv
    <3> QED
      BY <2>5, <3>1, <3>2 DEF PoolInv
  <2>6. /\ Elems(regular') = plan[n] \ R
        /\ \A i, j \in DOMAIN regular' : i # j => regular'[i] # regular'[j]
    BY <2>1, <2>2, OrderFacts DEF TypeOK
  <2>7. RuntimePart(batch)' = R
    BY <2>1 DEF RuntimePart
  <2>8. plan'[batch'] = plan[n]
    BY <2>1
  <2>9. Elems(regular)' = plan[n] \ R
    BY <2>6 DEF Elems
  <2> QED
    BY <2>1, <2>4, <2>5, <2>6, <2>7, <2>8, <2>9 DEF BatchInv
<1>6. CASE StartRuntimePool
  <2> DEFINE layer == {p \in runtimeLeft : Needs(manifest, p) \cap runtimeLeft = {}}
  <2>1. /\ pool' = layer /\ pool = {} /\ phase = "runtime" /\ phase' = phase
        /\ runtimeLeft' = runtimeLeft \ layer
        /\ UNCHANGED <<manifest, plan, batch, regular, pc, built, onRoot>>
    BY <1>6 DEF StartRuntimePool
  <2>2. batch \in 1 .. Len(plan) /\ runtimeLeft \subseteq plan[batch]
    BY <1>a, <2>1 DEF PoolInv, BatchInv, RuntimePart
  <2>3. layer = runtimeLeft
    BY <2>2, BatchIsFlat
  <2>4. RuntimePart(batch)' = RuntimePart(batch) /\ Elems(regular)' = Elems(regular)
    BY <2>1 DEF RuntimePart, Elems
  <2>5. \A p : Ended(p)' <=> Ended(p)
    BY <2>1 DEF Ended
  <2> QED
    BY <1>d, <2>1, <2>3, <2>4, <2>5 DEF BatchInv
<1>7. CASE StartRegularPool
  <2>1. /\ pool = {} /\ runtimeLeft = {} /\ phase = "runtime"
        /\ UNCHANGED <<manifest, plan, batch, runtimeLeft, regular, pc, built, onRoot>>
    BY <1>7 DEF StartRegularPool
  <2>2. \A p : Ended(p)' <=> Ended(p)
    BY <2>1 DEF Ended
  <2>3. RuntimePart(batch)' = RuntimePart(batch)
    BY <2>1 DEF RuntimePart
  <2>4. /\ \A p \in RuntimePart(batch) : Ended(p)
        /\ Elems(regular) = plan[batch] \ RuntimePart(batch)
    BY <2>1 DEF BatchInv
  <2>5. CASE regular = <<>>
    <3>1. phase' = "batch" /\ Elems(regular) = {}
      BY <1>7, <2>5 DEF StartRegularPool, Elems
    <3> QED
      BY <1>d, <2>1, <2>2, <2>4, <3>1 DEF BatchInv
  <2>6. CASE regular # <<>>
    <3>1. phase' = "regular" /\ pool' = Elems(regular)
      BY <1>7, <2>6 DEF StartRegularPool, Elems
    <3>2. Elems(regular) # {}
      BY <2>1, <2>6, ListFacts DEF BatchInv, TypeOK
    <3> QED
      BY <1>d, <2>1, <2>2, <2>3, <2>4, <3>1, <3>2 DEF BatchInv
  <2> QED
    BY <2>5, <2>6
<1>8. CASE PoolDone
  <2>1. /\ UNCHANGED <<manifest, plan, batch, runtimeLeft, regular, pc, built, onRoot>>
        /\ pool' = {} /\ pool # {} /\ queue = <<>> /\ Active = {}
        /\ phase \in {"runtime", "regular"}
    BY <1>8 DEF PoolDone, WorkersEnded, PoolInv
  <2>2. CASE Cancelled
    BY <1>8, <2>2 DEF PoolDone, BatchInv
  <2>3. CASE ~Cancelled
    <3>1. phase' = IF phase = "regular" THEN "install" ELSE phase
      BY <1>8, <2>3 DEF PoolDone
    <3>2. ASSUME NEW p \in pool
          PROVE  pc[p] = "done" /\ p \in plan[batch] /\ p \in Project
      <4>1. p \in Project /\ pc[p] # "waiting"
        <5>1. p \in Project
          BY DEF TypeOK
        <5>2. Elems(queue) = {}
          BY <2>1 DEF Elems
        <5> QED
          BY <5>1, <5>2 DEF PoolInv
      <4>2. pc[p] \notin ActiveStates /\ pc[p] \notin {"failed", "skipped"}
        BY <2>1, <2>3, <4>1 DEF PoolInv, Active
      <4>3. pc \in [Project -> ActiveStates \cup {"waiting", "done", "failed", "skipped"}]
        BY <1>0
      <4>4. pc[p] = "done"
        BY <4>1, <4>2, <4>3
      <4> QED
        BY <2>1, <4>1, <4>4 DEF PoolInv
    <3>3. \A p : Ended(p)' <=> Ended(p)
      BY <2>1 DEF Ended
    <3>4. RuntimePart(batch)' = RuntimePart(batch) /\ Elems(regular)' = Elems(regular)
      BY <2>1 DEF RuntimePart, Elems
    <3>5. CASE phase = "runtime"
      <4>1. \A p \in pool : Ended(p)
        BY <3>2, <3>5 DEF PoolInv, Ended
      <4>2. phase' = "runtime"
        BY <3>1, <3>5
      <4> QED
        BY <1>d, <2>1, <3>3, <3>4, <3>5, <4>1, <4>2 DEF BatchInv
    <3>6. CASE phase = "regular"
      <4>1. \A p \in pool : Ended(p)
        <5>1. \A p \in pool : p \notin RuntimeDependencies(manifest)
          BY <3>2, <3>6 DEF BatchInv, RuntimePart
        <5> QED
          BY <3>2, <5>1 DEF PoolInv, Ended
      <4>2. phase' = "install"
        BY <3>1, <3>6
      <4>3. \A p \in plan[batch] : Ended(p)
        BY <3>6, <4>1 DEF BatchInv
      <4> QED
        BY <1>d, <2>1, <3>3, <4>2, <4>3 DEF BatchInv
    <3> QED
      BY <2>1, <3>5, <3>6
  <2> QED
    BY <2>2, <2>3
<1>9. CASE InstallRegular
  <2>1. /\ UNCHANGED <<manifest, plan, batch>> /\ phase = "install"
        /\ phase' \in {"returned", "install"}
    BY <1>9 DEF InstallRegular
  <2>2. batch \in 1 .. batch /\ \A p \in plan[batch] : Ended(p)'
    <3>1. batch \in 1 .. batch
      BY <1>a, <2>1 DEF PoolInv
    <3>2. \A p \in plan[batch] : Ended(p) /\ p \in Project
      BY <1>c, <2>1, <3>1 DEF BatchInv
    <3> QED
      BY <3>1, <3>2, EndedIsStable
  <2> QED
    BY <1>d, <2>1, <2>2 DEF BatchInv
<1>10. CASE BatchDone
  <2>1. /\ UNCHANGED <<manifest, plan, batch, pc, built, onRoot>>
        /\ phase = "install" /\ phase' = "batch"
    BY <1>10 DEF BatchDone
  <2>2. \A p : Ended(p)' <=> Ended(p)
    BY <2>1 DEF Ended
  <2> QED
    BY <1>d, <2>1, <2>2 DEF BatchInv, PoolInv
<1>11. CASE AllBatchesDone
  BY <1>11 DEF AllBatchesDone, BatchInv
<1>12. CASE Interrupt \/ UNCHANGED vars
  BY <1>12 DEF Interrupt, vars, BatchInv, Ended, RuntimePart, Elems
<1>13. CASE Launch \/ (\E p \in Project : Worker(p))
  <2>1. /\ UNCHANGED <<manifest, phase, plan, batch, runtimeLeft, regular, pool>>
        /\ \A q \in Project : q \notin pool => pc'[q] = pc[q]
    <3>1. CASE Launch
      <4>1. Head(queue) \in pool
        BY <3>1, ListFacts DEF Launch, TypeOK, PoolInv
      <4> QED
        BY <1>0, <3>1, <4>1 DEF Launch
    <3>2. ASSUME NEW p \in Project, Worker(p)
          PROVE  /\ UNCHANGED <<manifest, phase, plan, batch, runtimeLeft, regular, pool>>
                 /\ \A q \in Project : q \notin pool => pc'[q] = pc[q]
      <4>1. p \in Active /\ p \in pool
        BY <3>2 DEF Worker, Enter, Compile, CreatePackage, InstallPackageForWorker, Fail,
           Active, ActiveStates, PoolInv
      <4> QED
        BY <1>0, <3>2, <4>1 DEF Worker, Enter, Compile, CreatePackage,
           InstallPackageForWorker, Fail, workerUnchanged
    <3> QED
      BY <1>13, <3>1, <3>2
  <2>2. \A p \in Project : Ended(p) => Ended(p)'
    BY EndedIsStable
  <2>3. RuntimePart(batch)' = RuntimePart(batch) /\ Elems(regular)' = Elems(regular)
    BY <2>1 DEF RuntimePart, Elems
  <2>4. CASE phase = "runtime"
    <3>1. /\ batch \in 1 .. Len(plan) /\ plan[batch] \subseteq Project
      BY <1>a, <1>b, <2>4 DEF PoolInv
    <3>2. \A p \in runtimeLeft \cup Elems(regular) : p \notin pool /\ p \in Project
      BY <2>4, <3>1 DEF BatchInv, RuntimePart
    <3>3. \A p \in RuntimePart(batch) : p \in Project
      BY <3>1 DEF RuntimePart
    <3> QED
      BY <1>d, <2>1, <2>2, <2>3, <2>4, <3>2, <3>3 DEF BatchInv
  <2>5. CASE phase = "regular"
    <3>1. \A p \in RuntimePart(batch) : p \in Project
      BY <1>a, <1>b, <2>5 DEF PoolInv, RuntimePart
    <3> QED
      BY <1>d, <2>1, <2>2, <2>3, <2>5, <3>1 DEF BatchInv
  <2>6. CASE phase \notin {"runtime", "regular"}
    <3>1. pool = {} /\ Active = {} /\ queue = <<>>
      BY <2>6 DEF PoolInv
    <3>2. ~Launch /\ \A p \in Project : ~Worker(p)
      BY <3>1 DEF Launch, Worker, Enter, Compile, CreatePackage, InstallPackageForWorker,
         Fail, Active, ActiveStates
    <3> QED
      BY <1>13, <3>2
  <2> QED
    BY <2>4, <2>5, <2>6
<1> QED
  BY <1>1, <1>2, <1>3, <1>4, <1>5, <1>6, <1>7, <1>8, <1>9, <1>10, <1>11, <1>12, <1>13
     DEF Next, Main, Terminated

--------------------------------------------------------------------------------
(* What a working project finds. *)

\* At the gctx check of a worker, everything its project needs has ended.
LEMMA NeedsEnded ==
    ASSUME TypeOK, SortInv, PoolInv, BatchInv, NEW p \in Project, Enter(p)
    PROVE  \A d \in Needs(manifest, p) \cap Selected : Ended(d) /\ d \in Project
<1>0. plan \in Seq(SUBSET Project) /\ batch \in 0 .. Len(plan)
  BY DEF TypeOK
<1>1. p \in pool
  BY DEF Enter, Active, ActiveStates, PoolInv
<1>2. phase \in {"runtime", "regular"} /\ p \in plan[batch] /\ batch > 0
  BY <1>1 DEF PoolInv
<1>3. batch \in 1 .. Len(plan)
  BY <1>0, <1>2
<1>4. \A d \in Needs(manifest, p) \cap Selected : \E j \in 1 .. batch - 1 : d \in plan[j]
  BY <1>2, <1>3, BatchIsFlat
<1>5. \A j \in 1 .. batch - 1 : \A d \in plan[j] : Ended(d)
  BY <1>2 DEF BatchInv
<1>6. Selected \subseteq Project
  BY ManifestFacts DEF TypeOK
<1> QED
  BY <1>4, <1>5, <1>6

\* Every step keeps what is said of dependencies.
LEMMA DependencyStep ==
    ASSUME TypeOK, SortInv, PoolInv, BatchInv, [Next]_vars,
           DependenciesBuiltFirst, RuntimeDependenciesInstalled
    PROVE  DependenciesBuiltFirst' /\ RuntimeDependenciesInstalled'
<1>1. /\ manifest' = manifest /\ Selected' = Selected
      /\ built \subseteq built' /\ onRoot \subseteq onRoot'
      /\ \A p \in Project : pc[p] = "done" => pc'[p] = "done"
      /\ \A p \in Project : Working(p)' => Working(p) \/ Enter(p)
  BY Monotone DEF Selected
<1>2. /\ Selected \subseteq Project /\ manifest.depends \in [Project -> SUBSET Project]
      /\ \A p \in Project : Needs(manifest, p) \subseteq Project
  BY ManifestFacts DEF TypeOK, ManifestType
<1>3. ASSUME NEW p \in Project, Enter(p)
      PROVE  /\ \A d \in Needs(manifest, p) \cap Selected :
                   pc[d] = "done" /\ (~manifest.noBuild => d \in built)
             /\ ~manifest.noBuild => manifest.depends[p] \cap Selected \subseteq onRoot
  <2>1. \A d \in Needs(manifest, p) \cap Selected :
           pc[d] = "done" /\ (~manifest.noBuild => d \in built)
    BY <1>3, NeedsEnded DEF Ended
  <2>2. ASSUME ~manifest.noBuild, NEW d \in manifest.depends[p] \cap Selected
        PROVE  d \in onRoot
    <3>1. d \in RuntimeDependencies(manifest)
      <4>1. Selected \subseteq Listed(manifest)
        BY DEF Selected, InRange, Listed
      <4>2. p \in Listed(manifest)
        <5>1. p \in pool /\ pool \subseteq plan[batch] /\ batch > 0
          BY <1>3 DEF Enter, Active, ActiveStates, PoolInv
        <5>2. plan \in Seq(SUBSET Project) /\ batch \in 0 .. Len(plan)
          BY DEF TypeOK
        <5>3. batch \in 1 .. Len(plan)
          BY <5>1, <5>2
        <5>4. p \in Selected
          BY <5>1, <5>3, BatchIsFlat
        <5> QED
          BY <4>1, <5>4
      <4>3. d \in UNION {manifest.depends[q] : q \in Listed(manifest)}
        BY <2>2, <4>2
      <4>4. d \in Listed(manifest)
        BY <2>2, <4>1
      <4> QED
        BY <4>3, <4>4 DEF RuntimeDependencies
    <3>2. d \in Needs(manifest, p) \cap Selected
      BY DEF Needs
    <3> QED
      BY <1>3, <2>2, <3>1, <3>2, NeedsEnded DEF Ended
  <2> QED
    BY <2>1, <2>2
<1>4. DependenciesBuiltFirst'
  <2> SUFFICES ASSUME NEW p \in Project, Working(p)',
                      NEW d \in Needs(manifest, p) \cap Selected
               PROVE  pc'[d] = "done" /\ (~manifest.noBuild => d \in built')
    BY <1>1 DEF DependenciesBuiltFirst
  <2>1. pc[d] = "done" /\ (~manifest.noBuild => d \in built)
    BY <1>1, <1>3 DEF DependenciesBuiltFirst
  <2> QED
    BY <1>1, <1>2, <2>1
<1>5. RuntimeDependenciesInstalled'
  <2> SUFFICES ASSUME ~manifest.noBuild, NEW p \in Project, Working(p)'
               PROVE  manifest.depends[p] \cap Selected \subseteq onRoot'
    BY <1>1 DEF RuntimeDependenciesInstalled
  <2>1. manifest.depends[p] \cap Selected \subseteq onRoot
    BY <1>1, <1>3 DEF RuntimeDependenciesInstalled
  <2> QED
    BY <1>1, <2>1
<1> QED
  BY <1>4, <1>5

\* topologicalSortRuntimeDeps finds no cycle among packages of one batch.
LEMMA ResultStep ==
    ASSUME TypeOK, SortInv, PoolInv, ResultInv, [Next]_vars
    PROVE  ResultInv'
<1> USE DEF planVars, batchVars, poolVars, effectVars, onRoot, Return
<1>0. plan \in Seq(SUBSET Project) /\ batch \in 0 .. Len(plan)
  BY DEF TypeOK
<1>1. CASE SelectBatch
  <2> DEFINE R == plan[batch + 1] \cap RuntimeDependencies(manifest)
  <2>1. batch + 1 \in 1 .. Len(plan)
    <3>1. batch < Len(plan)
      BY <1>1 DEF SelectBatch
    <3>2. batch \in Nat /\ Len(plan) \in Nat
      BY <1>0
    <3> QED
      BY <3>1, <3>2
  <2>2. ASSUME HasCycle(R) PROVE FALSE
    <3>1. PICK T \in SUBSET R : T # {} /\ \A p \in T : Needs(manifest, p) \cap T # {}
      BY <2>2 DEF HasCycle
    <3>2. \A p \in T : Needs(manifest, p) \cap plan[batch + 1] = {}
      BY <2>1, BatchIsFlat
    <3> QED
      BY <3>1, <3>2
  <2>3. phase = "batch" /\ phase' = "runtime" /\ UNCHANGED result
    BY <1>1, <2>2 DEF SelectBatch
  <2> QED
    BY <2>3 DEF ResultInv
<1>2. CASE ResolveDependencies \/ CollectBatch \/ CircularDependency \/ OrderDetermined
  BY <1>2 DEF ResolveDependencies, CollectBatch, CircularDependency, OrderDetermined,
     ResultInv
<1>3. CASE StartRuntimePool \/ StartRegularPool \/ PoolDone
  BY <1>3 DEF StartRuntimePool, StartRegularPool, PoolDone, PoolInv, ResultInv
<1>4. CASE InstallRegular \/ BatchDone \/ AllBatchesDone \/ Launch \/ Interrupt
  BY <1>4 DEF InstallRegular, BatchDone, AllBatchesDone, Launch, Interrupt,
     ResultInv
<1>5. ASSUME NEW p \in Project, Worker(p) PROVE UNCHANGED <<phase, result>>
  BY <1>5 DEF Worker, Enter, Compile, CreatePackage, InstallPackageForWorker, Fail,
     workerUnchanged
<1>6. CASE UNCHANGED vars
  BY <1>6 DEF vars, ResultInv
<1> QED
  BY <1>1, <1>2, <1>3, <1>4, <1>5, <1>6 DEF Next, Main, Terminated, ResultInv

--------------------------------------------------------------------------------
(* The theorems. *)

\* The invariant holds at first.
LEMMA InitInvariant == Init => IInv
<1> SUFFICES ASSUME Init PROVE IInv
  OBVIOUS
<1>1. /\ Unplaced = {} /\ plan = <<>> /\ Len(plan) = 0 /\ batch = 0 /\ phase = "check"
      /\ pool = {} /\ queue = <<>> /\ result = "none"
      /\ \A p \in Project : pc[p] = "waiting"
  BY DEF Init, Unplaced
<1>2. SortInv
  BY <1>1 DEF SortInv
<1>3. Active = {} /\ Elems(queue) = {}
  BY <1>1 DEF Active, ActiveStates, Elems
<1>4. PoolInv /\ BatchInv
  BY <1>1, <1>3 DEF PoolInv, BatchInv, Elems
<1>5. DependenciesBuiltFirst /\ RuntimeDependenciesInstalled
  BY <1>1 DEF DependenciesBuiltFirst, RuntimeDependenciesInstalled, Working
<1> QED
  BY <1>1, <1>2, <1>4, <1>5, InitType DEF IInv, ResultInv

\* Every step keeps it.
LEMMA InvariantStep == IInv /\ [Next]_vars => IInv'
<1> SUFFICES ASSUME IInv, [Next]_vars PROVE IInv'
  OBVIOUS
<1>1. TypeOK' /\ SortInv'
  BY TypeStep, SortStep DEF IInv
<1>2. PoolInv' /\ BatchInv'
  BY PoolStep, BatchStep DEF IInv
<1>3. DependenciesBuiltFirst' /\ RuntimeDependenciesInstalled'
  BY DependencyStep DEF IInv
<1>4. ResultInv'
  BY ResultStep DEF IInv
<1> QED
  BY <1>1, <1>2, <1>3, <1>4 DEF IInv

\* The inductive invariant holds in every run.
THEOREM Invariance == Spec => []IInv
BY InitInvariant, InvariantStep, PTL DEF Spec

\* The state of a build is always of its type; in particular the in-degrees of
\* Kahn's algorithm never drop below zero.
THEOREM TypeCorrect == Spec => []TypeOK
<1>1. IInv => TypeOK
  BY DEF IInv
<1> QED
  BY <1>1, Invariance, PTL

\* For every collection and any number of workers, a worker past the gctx check
\* finds what its project needs built.
THEOREM BuiltFirst == Spec => []DependenciesBuiltFirst
<1>1. IInv => DependenciesBuiltFirst
  BY DEF IInv
<1> QED
  BY <1>1, Invariance, PTL

\* ... and what it needs at run time extracted.
THEOREM InstalledFirst == Spec => []RuntimeDependenciesInstalled
<1>1. IInv => RuntimeDependenciesInstalled
  BY DEF IInv
<1> QED
  BY <1>1, Invariance, PTL

\* Where no project in range depends at run time on a split one, that is what the
\* code promises: what a worker needs at run time is available.
THEOREM AvailableUnlessSplit ==
    Spec => []((\A p \in Project : manifest.depends[p] \cap Selected \cap manifest.split = {})
                  => RuntimeDependenciesAvailable)
<1>1. IInv => ((\A p \in Project : manifest.depends[p] \cap Selected \cap manifest.split = {})
                  => RuntimeDependenciesAvailable)
  <2> SUFFICES ASSUME RuntimeDependenciesInstalled, ~manifest.noBuild,
                      NEW p \in Project, Working(p), NEW d \in manifest.depends[p] \cap Selected,
                      d \notin manifest.split
               PROVE  Own(d) \in installed
    BY DEF RuntimeDependenciesAvailable, IInv
  <2>1. d \in onRoot
    BY DEF RuntimeDependenciesInstalled
  <2>2. Extracted(manifest, d) \in installed
    BY <2>1 DEF onRoot, OnRoot
  <2> QED
    BY <2>2 DEF Extracted
<1> QED
  BY <1>1, Invariance, PTL

\* What is on the root filesystem is what InstallOrExtract finds.
OnlyExtracted == installed \subseteq {Extracted(manifest, p) : p \in Project}

\* Every step keeps it so.
LEMMA OnlyExtractedStep ==
    ASSUME TypeOK, OnlyExtracted, [Next]_vars
    PROVE  OnlyExtracted'
<1>1. manifest' = manifest
  BY DEF Next, Main, Terminated, Worker, ResolveDependencies, CollectBatch, CircularDependency,
     OrderDetermined, SelectBatch, StartRuntimePool, StartRegularPool, PoolDone, InstallRegular,
     BatchDone, AllBatchesDone, Launch, Enter, Compile, CreatePackage, InstallPackageForWorker,
     Fail, Interrupt, workerUnchanged, vars
<1>2. \/ \E q \in Project : installed' = installed \cup {Extracted(manifest, q)}
      \/ installed' = installed
  <2>1. CASE InstallRegular
    <3>1. toInstall # <<>> /\ toInstall \in Seq(Project)
      BY <2>1 DEF InstallRegular, TypeOK
    <3>2. Head(toInstall) \in Project
      BY <3>1
    <3> QED
      BY <2>1, <3>2 DEF InstallRegular
  <2>2. ASSUME NEW p \in Project, Worker(p)
        PROVE  \/ installed' = installed \cup {Extracted(manifest, p)}
               \/ installed' = installed
    BY <2>2 DEF Worker, Enter, Compile, CreatePackage, InstallPackageForWorker, Fail,
       workerUnchanged, effectVars
  <2>3. CASE ~InstallRegular /\ ~(\E p \in Project : Worker(p))
    BY <2>3 DEF Next, Main, Terminated, ResolveDependencies, CollectBatch, CircularDependency,
       OrderDetermined, SelectBatch, StartRuntimePool, StartRegularPool, PoolDone,
       BatchDone, AllBatchesDone, Launch, Interrupt, vars, effectVars
  <2> QED
    BY <2>1, <2>2, <2>3
<1> QED
  BY <1>1, <1>2 DEF OnlyExtracted

\* ... and where one does, it never is: no sub-package but the last of a split project
\* is ever extracted, whatever is marked or needed.
THEOREM SplitIsPartial == Spec => [](\A p \in manifest.split : Own(p) \notin installed)
<1>1. Init => TypeOK /\ OnlyExtracted
  <2>1. Init => IInv
    BY InitInvariant
  <2> QED
    BY <2>1 DEF IInv, Init, OnlyExtracted
<1>2. IInv /\ OnlyExtracted /\ [Next]_vars => OnlyExtracted'
  BY OnlyExtractedStep DEF IInv
<1>3. OnlyExtracted => \A p \in manifest.split : Own(p) \notin installed
  <2> SUFFICES ASSUME OnlyExtracted, NEW p \in manifest.split, Own(p) \in installed PROVE FALSE
    OBVIOUS
  <2>1. PICK q \in Project : Own(p) = Extracted(manifest, q)
    BY DEF OnlyExtracted
  <2>2. q \notin manifest.split
    BY <2>1 DEF Extracted, Own
  <2> QED
    BY <2>1, <2>2 DEF Extracted, Own
<1> QED
  BY <1>1, <1>2, <1>3, Invariance, PTL DEF Spec

\* BuildAll never returns with workers behind it.
THEOREM NoOrphans == Spec => []NoOrphanWorkers
<1>1. IInv => NoOrphanWorkers
  BY DEF IInv, PoolInv, NoOrphanWorkers
<1> QED
  BY <1>1, Invariance, PTL

\* The runtime dependencies of a batch are one layer, and no build ends with
\* ErrCircularRuntimeDependency: the second sort orders nothing.
THEOREM RuntimeSortOrdersNothing == Spec => []RuntimeSortIsFlat
<1>1. IInv => RuntimeSortIsFlat
  <2> SUFFICES ASSUME IInv PROVE RuntimeSortIsFlat
    OBVIOUS
  <2>1. ASSUME pool # {}, phase = "regular" PROVE runtimeLeft = {}
    BY <2>1 DEF IInv, BatchInv
  <2> QED
    BY <2>1 DEF IInv, ResultInv, PoolInv, BatchInv, RuntimeSortIsFlat
<1> QED
  BY <1>1, Invariance, PTL
================================================================================
