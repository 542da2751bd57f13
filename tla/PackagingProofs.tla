---------------------------- MODULE PackagingProofs ----------------------------
(* Proofs about Packaging, for every PKGBUILD, format and target.               *)
EXTENDS Packaging, FiniteSetTheorems, WellFoundedInduction, TLAPS

--------------------------------------------------------------------------------
(* The invariant. *)

Keys == {"distro", "targetArch", "priorities", "strings", "arrays", "functions", "flags", "pkgName",
         "pkgNames", "sourceURI", "hashSums", "archSourceURI", "archHashSums", "topLevelSnap",
         "archComputed", "suffix"}

\* Two PKGBUILDs agree on all that overrides leave alone but the name.
Alike(p, q) ==
    /\ DOMAIN p = Keys
    /\ p.distro = q.distro /\ p.targetArch = q.targetArch
    /\ p.functions = q.functions
    /\ p.pkgNames = q.pkgNames /\ p.topLevelSnap = q.topLevelSnap

\* And they agree on what is overridden.
SameOverrides(p, q) == SnapshotSplitOverrides(p) = SnapshotSplitOverrides(q)

\* What the file says in a run, and the project's name, the same in all.
Top(n) == ParseFile(world.distro, world.targets[n], world.file)
Name == Top(1).pkgName
Makes(n) == IsSplitPackage(Top(n))

\* What is added to the release.
Suffix(format, own) == FormatRelease(format, own).suffix

\* The PKGBUILD in memory is that of the file, but for a package that was made: the
\* name, what is overridden and the release, which the format may have marked.
Stages == {"sync", "prepare", "build", "check", "package", "create"}

Fits(p) ==
    /\ Alike(p, Top(run))
    /\ p.suffix \in {"", Suffix(world.format, Top(run))}
    /\ ~Makes(run) => SameOverrides(p, Top(run)) /\ p.pkgName = Name

PkgInv == phase \in Stages => Fits(pkgbuild)

\* All files of a payload were installed for one package.
Owned(payload, name) == \A f \in DOMAIN payload : "of" \in DOMAIN payload[f] /\ payload[f].of = name

\* A file in a package directory was installed for the package of that directory.
DirOwner(dir) == IF Makes(1) \/ world.distro[1] = "alpine" THEN dir ELSE Name

DirInv == \A dir \in DOMAIN dirs : Owned(dirs[dir], DirOwner(dir))

IInv == world \in Worlds /\ run \in 1..MaxRuns /\ PkgInv /\ DirInv /\ ArtifactsAreOwn
--------------------------------------------------------------------------------
(* Induction over the statements of a file. *)

\* Every set of naturals has a least element.
LEMMA LeastElement ==
    ASSUME NEW T \in SUBSET Nat, T # {}
    PROVE  \E x \in T : \A y \in T : x <= y
<1> DEFINE R == OpToRel(<, Nat)
<1>1. IsWellFoundedOn(R, Nat)
  BY NatLessThanWellFounded
<1>2. \A x, y \in Nat : y < x => <<y, x>> \in R
  BY DEF R, OpToRel
<1> HIDE DEF R
<1>3. PICK x \in T : \A y \in T : ~(<<y, x>> \in R)
  BY <1>1, WFMin
<1>4. \A y \in T : ~(y < x)
  BY Zenon, <1>2, <1>3
<1> QED
  BY <1>4

\* Induction up to a number, for the set of the numbers that have a property.
LEMMA UpTo ==
    ASSUME NEW N \in Nat, NEW T, 0 \in T, \A n \in 0..N : n < N /\ n \in T => n + 1 \in T
    PROVE  0..N \subseteq T
<1> SUFFICES ASSUME ~(0..N \subseteq T) PROVE FALSE
  OBVIOUS
<1> DEFINE U == (0..N) \ T
<1>1. U \in SUBSET Nat /\ U # {}
  OBVIOUS
<1>2. PICK x \in U : \A y \in U : x <= y
  BY <1>1, LeastElement
<1>3. x # 0 /\ x - 1 \in 0..N /\ x - 1 \notin U
  BY <1>2
<1> QED
  BY <1>3

\* What becomes of a PKGBUILD with the statements that are chosen, one by one.
Trace(f, p, statements, chosen) ==
    /\ f[0] = p
    /\ \A n \in 0..Len(statements) : n < Len(statements) =>
          f[n + 1] = IF n + 1 \in chosen THEN AddItem(f[n], statements[n + 1]) ELSE f[n]

\* The recursion of AddItems has such a trace.
LEMMA AddItemsTrace ==
    ASSUME NEW p, NEW statements, Len(statements) \in Nat, NEW chosen
    PROVE  \E f : Trace(f, p, statements, chosen) /\ AddItems(p, statements, chosen) = f[Len(statements)]
<1> DEFINE N == Len(statements)
           Rule(f, m) == f = [n \in 0..m |->
               IF n = 0 THEN p
               ELSE IF n \in chosen THEN AddItem(f[n - 1], statements[n]) ELSE f[n - 1]]
           T == {m \in 0..N : \E f : Rule(f, m)}
<1>1. 0 \in T
  <2> DEFINE g == [n \in 0..0 |-> p]
  <2>1. Rule(g, 0)
    OBVIOUS
  <2> HIDE DEF g, Rule
  <2>2. \E h : Rule(h, 0)
    BY <2>1
  <2> QED
    BY <2>2
<1>2. ASSUME NEW m \in 0..N, m < N, m \in T PROVE m + 1 \in T
  <2>1. PICK f : Rule(f, m)
    BY <1>2
  <2> DEFINE g == [n \in 0..(m + 1) |->
                IF n = m + 1
                THEN IF n \in chosen THEN AddItem(f[m], statements[n]) ELSE f[m]
                ELSE f[n]]
  <2>2. \A n \in 0..(m + 1) : g[n] =
               IF n = 0 THEN p
               ELSE IF n \in chosen THEN AddItem(g[n - 1], statements[n]) ELSE g[n - 1]
    BY <2>1
  <2>3. Rule(g, m + 1)
    BY <2>2
  <2> HIDE DEF g, Rule
  <2>4. \E h : Rule(h, m + 1)
    BY <2>3
  <2>5. m + 1 \in 0..N
    BY <1>2
  <2> QED
    BY <2>4, <2>5
<1>3. N \in T
  <2> HIDE DEF T
  <2>1. 0..N \subseteq T
    BY <1>1, <1>2, UpTo
  <2> QED
    BY <2>1
<1>4. \E f : Rule(f, N)
  BY <1>3
<1> DEFINE f == CHOOSE f : Rule(f, N)
<1>5. Rule(f, N)
  BY <1>4
<1>6. AddItems(p, statements, chosen) = f[N]
  BY DEF AddItems
<1> HIDE DEF f
<1>7. Trace(f, p, statements, chosen)
  BY <1>5 DEF Trace
<1> QED
  BY <1>6, <1>7
--------------------------------------------------------------------------------
(* What a statement does. *)

\* The overridable fields after one of them, or another, was set.
LEMMA FieldsAfterSet ==
    ASSUME NEW f, NEW g, NEW keys, NEW zero, Fields(f, keys, zero) = Fields(g, keys, zero), NEW x, NEW v
    PROVE  Fields(Set(f, x, v), keys, zero) = Fields(Set(g, x, v), keys, zero)
<1>1. \A k \in keys : Get(f, k, zero) = Fields(f, keys, zero)[k] /\ Get(g, k, zero) = Fields(g, keys, zero)[k]
  BY DEF Fields
<1>2. \A k \in keys : Get(Set(f, x, v), k, zero) = IF k = x THEN v ELSE Get(f, k, zero)
  BY DEF Get, Set
<1>3. \A k \in keys : Get(Set(g, x, v), k, zero) = IF k = x THEN v ELSE Get(g, k, zero)
  BY DEF Get, Set
<1> QED
  BY <1>1, <1>2, <1>3 DEF Fields

\* Setting something else leaves them.
LEMMA FieldsOfOthers ==
    ASSUME NEW f, NEW keys, NEW zero, NEW x, x \notin keys, NEW v
    PROVE  Fields(Set(f, x, v), keys, zero) = Fields(f, keys, zero)
<1>1. \A k \in keys : Get(Set(f, x, v), k, zero) = Get(f, k, zero)
  BY DEF Get, Set
<1> QED
  BY <1>1 DEF Fields

\* A snapshot holds three kinds of fields.
LEMMA SnapshotFacts ==
    ASSUME NEW p, NEW q
    PROVE  SameOverrides(p, q) <=>
              /\ Fields(p.strings, OverrideStrings, "") = Fields(q.strings, OverrideStrings, "")
              /\ Fields(p.arrays, OverrideArrays, <<>>) = Fields(q.arrays, OverrideArrays, <<>>)
              /\ Fields(p.priorities, SplitOverrideKeys, 0) = Fields(q.priorities, SplitOverrideKeys, 0)
BY DEF SameOverrides, SnapshotSplitOverrides

\* A PKGBUILD whose statement is more specific than what it had of that name.
Specified(p, s) ==
    IF ParseDirective(p, s) > Get(p.priorities, s.name, 0)
    THEN [p EXCEPT !.priorities = Set(@, s.name, ParseDirective(p, s))] ELSE p

Passed(p, s) ==
    LET priority == ParseDirective(p, s)
        old      == Get(p.priorities, s.name, 0)
    IN  DirectiveFails(s) \/ priority = Skip \/ (priority < old /\ priority # Base)

Mapped(p, s) == MapArrays(MapVariables(Specified(p, s), s), s, ParseDirective(p, s))

\* AddItem in these words.
LEMMA AddItemIs ==
    ASSUME NEW p, NEW s
    PROVE  AddItem(p, s) = IF Passed(p, s) THEN p
                           ELSE IF ParseDirective(p, s) >= Get(p.priorities, s.name, 0)
                           THEN MapFunctions(Mapped(p, s), s) ELSE Mapped(p, s)
BY Zenon DEF AddItem, Passed, Mapped, Specified

\* What no statement changes.
LEMMA VariablesKeep ==
    ASSUME NEW p, DOMAIN p = Keys, NEW s
    PROVE  LET q == MapVariables(p, s) IN
           /\ DOMAIN q = Keys
           /\ q.distro = p.distro /\ q.suffix = p.suffix /\ q.topLevelSnap = p.topLevelSnap
           /\ q.functions = p.functions /\ q.pkgNames = p.pkgNames
           /\ q.priorities = p.priorities /\ q.arrays = p.arrays
           /\ s.name \in SplitOverrideKeys =>
                 /\ q.targetArch = p.targetArch /\ q.pkgName = p.pkgName
                 /\ q.strings = IF s.kind = "string" THEN Set(p.strings, s.name, s.value) ELSE p.strings
<1>1. CASE s.kind = "string" /\ s.name = "pkgname"
  <2>1. MapVariables(p, s) = [p EXCEPT !.pkgName = s.value]
    BY <1>1 DEF MapVariables
  <2> QED
    BY <1>1, <2>1 DEF Keys, SplitOverrideKeys
<1>2. CASE s.kind = "string" /\ s.name = "target_arch"
  <2>1. MapVariables(p, s) = [p EXCEPT !.targetArch = IF @ = "" THEN s.value ELSE @]
    BY <1>2 DEF MapVariables
  <2> QED
    BY <1>2, <2>1 DEF Keys, SplitOverrideKeys
<1>3. CASE s.kind = "string" /\ s.name \notin {"pkgname", "target_arch"}
  <2>1. MapVariables(p, s) = [p EXCEPT !.strings = Set(@, s.name, s.value)]
    BY <1>3 DEF MapVariables
  <2> QED
    BY <1>3, <2>1 DEF Keys
<1>4. CASE s.kind # "string"
  <2>1. MapVariables(p, s) = p
    BY <1>4 DEF MapVariables
  <2> QED
    BY <1>4, <2>1
<1> QED
  BY <1>1, <1>2, <1>3, <1>4

\* What no array changes.
LEMMA ArraysKeep ==
    ASSUME NEW p, DOMAIN p = Keys, NEW s, NEW priority
    PROVE  LET q == MapArrays(p, s, priority) IN
           /\ DOMAIN q = Keys
           /\ q.distro = p.distro /\ q.suffix = p.suffix /\ q.topLevelSnap = p.topLevelSnap
           /\ q.functions = p.functions /\ q.targetArch = p.targetArch
           /\ q.priorities = p.priorities /\ q.strings = p.strings
           /\ s.name \in SplitOverrideKeys =>
                 /\ q.pkgNames = p.pkgNames /\ q.pkgName = p.pkgName
                 /\ q.arrays = IF s.kind = "array" THEN Set(p.arrays, s.name, s.value) ELSE p.arrays
<1>1. CASE s.kind # "array"
  <2>1. MapArrays(p, s, priority) = p
    BY <1>1 DEF MapArrays
  <2> QED
    BY <1>1, <2>1
<1>2. CASE s.kind = "array" /\ s.name \in Checksums
  <2>1. MapArrays(p, s, priority) \in
            {[p EXCEPT !.archHashSums = @ \o s.value], [p EXCEPT !.hashSums = s.value]}
    BY <1>2 DEF MapArrays, MapChecksumsArrays, Checksums
  <2> QED
    BY <1>2, <2>1 DEF Keys, SplitOverrideKeys, Checksums
<1>3. CASE s.kind = "array" /\ s.name = "source"
  <2>1. MapArrays(p, s, priority) \in
            {[p EXCEPT !.archSourceURI = @ \o s.value], [p EXCEPT !.sourceURI = s.value],
             [p EXCEPT !.arrays = Set(@, s.name, s.value)]}
    BY <1>3 DEF MapArrays, Checksums
  <2> QED
    BY <1>3, <2>1 DEF Keys, SplitOverrideKeys
<1>4. CASE s.kind = "array" /\ s.name = "pkgname"
  <2>1. MapArrays(p, s, priority) =
            [p EXCEPT !.pkgNames = s.value, !.pkgName = IF s.value = <<>> THEN @ ELSE s.value[1]]
    BY <1>4 DEF MapArrays, Checksums
  <2> QED
    BY <1>4, <2>1 DEF Keys, SplitOverrideKeys
<1>5. CASE s.kind = "array" /\ s.name = "options"
  <2>1. MapArrays(p, s, priority) =
            [p EXCEPT !.arrays = Set(@, "options", s.value), !.flags = ProcessOptions(s.value)]
    BY <1>5 DEF MapArrays, Checksums
  <2> QED
    BY <1>5, <2>1 DEF Keys, SplitOverrideKeys
<1>6. CASE s.kind = "array" /\ s.name \notin Checksums \cup {"source", "pkgname", "options"}
  <2>1. MapArrays(p, s, priority) = [p EXCEPT !.arrays = Set(@, s.name, s.value)]
    BY <1>6 DEF MapArrays
  <2> QED
    BY <1>6, <2>1 DEF Keys
<1> QED
  BY <1>1, <1>2, <1>3, <1>4, <1>5, <1>6

\* A statement's rank is the same for PKGBUILDs of one distribution and target.
LEMMA DirectiveIsSame ==
    ASSUME NEW p, NEW q, p.distro = q.distro, p.targetArch = q.targetArch, NEW s
    PROVE  ParseDirective(p, s) = ParseDirective(q, s)
<1>1. EffectiveArch(p) = EffectiveArch(q)
  BY DEF EffectiveArch
<1>2. \A x : GetDistributionPriority(p, x) = GetDistributionPriority(q, x)
  BY DEF GetDistributionPriority
<1>3. ParseCombinedArchDistro(p, s) = ParseCombinedArchDistro(q, s)
  BY Zenon, <1>1, <1>2 DEF ParseCombinedArchDistro
<1>4. ParseArchitectureOnly(p, s) = ParseArchitectureOnly(q, s)
  BY Zenon, <1>1 DEF ParseArchitectureOnly
<1>5. ParseDistributionOnly(p, s) = ParseDistributionOnly(q, s)
  BY Zenon, <1>2 DEF ParseDistributionOnly
<1> QED
  BY Zenon, <1>3, <1>4, <1>5 DEF ParseDirective

\* The rank changes nothing else.
LEMMA RankedKeeps ==
    ASSUME NEW p, DOMAIN p = Keys, NEW s
    PROVE  LET q == Specified(p, s) IN
           /\ DOMAIN q = Keys
           /\ \A k \in Keys : k # "priorities" => q[k] = p[k]
           /\ q.priorities = IF ParseDirective(p, s) > Get(p.priorities, s.name, 0)
                             THEN Set(p.priorities, s.name, ParseDirective(p, s)) ELSE p.priorities
BY DEF Specified, Keys

\* What a statement changes before functions are looked at.
LEMMA MappedIs ==
    ASSUME NEW p, DOMAIN p = Keys, NEW s
    PROVE  LET q == Mapped(p, s) IN
           /\ DOMAIN q = Keys
           /\ q.distro = p.distro /\ q.suffix = p.suffix /\ q.topLevelSnap = p.topLevelSnap
           /\ q.functions = p.functions
           /\ q.priorities = IF ParseDirective(p, s) > Get(p.priorities, s.name, 0)
                             THEN Set(p.priorities, s.name, ParseDirective(p, s)) ELSE p.priorities
           /\ s.name \in SplitOverrideKeys =>
                 /\ q.targetArch = p.targetArch /\ q.pkgName = p.pkgName /\ q.pkgNames = p.pkgNames
                 /\ q.strings = IF s.kind = "string" THEN Set(p.strings, s.name, s.value) ELSE p.strings
                 /\ q.arrays = IF s.kind = "array" THEN Set(p.arrays, s.name, s.value) ELSE p.arrays
<1> DEFINE r == Specified(p, s)
           v == MapVariables(r, s)
<1>1. /\ DOMAIN r = Keys
      /\ r.distro = p.distro /\ r.suffix = p.suffix /\ r.topLevelSnap = p.topLevelSnap
      /\ r.functions = p.functions /\ r.targetArch = p.targetArch /\ r.pkgName = p.pkgName
      /\ r.pkgNames = p.pkgNames /\ r.strings = p.strings /\ r.arrays = p.arrays
      /\ r.priorities = IF ParseDirective(p, s) > Get(p.priorities, s.name, 0)
                        THEN Set(p.priorities, s.name, ParseDirective(p, s)) ELSE p.priorities
  BY ZenonT(60), RankedKeeps DEF Keys
<1> HIDE DEF r
<1>2. /\ DOMAIN v = Keys
      /\ v.distro = r.distro /\ v.suffix = r.suffix /\ v.topLevelSnap = r.topLevelSnap
      /\ v.functions = r.functions /\ v.pkgNames = r.pkgNames
      /\ v.priorities = r.priorities /\ v.arrays = r.arrays
      /\ s.name \in SplitOverrideKeys =>
            /\ v.targetArch = r.targetArch /\ v.pkgName = r.pkgName
            /\ v.strings = IF s.kind = "string" THEN Set(r.strings, s.name, s.value) ELSE r.strings
  BY <1>1, VariablesKeep
<1>3. Mapped(p, s) = MapArrays(v, s, ParseDirective(p, s))
  BY DEF Mapped, r
<1> HIDE DEF v
<1> DEFINE w == MapArrays(v, s, ParseDirective(p, s))
<1>4. /\ DOMAIN w = Keys
      /\ w.distro = v.distro /\ w.suffix = v.suffix /\ w.topLevelSnap = v.topLevelSnap
      /\ w.functions = v.functions /\ w.targetArch = v.targetArch
      /\ w.priorities = v.priorities /\ w.strings = v.strings
      /\ s.name \in SplitOverrideKeys =>
            /\ w.pkgNames = v.pkgNames /\ w.pkgName = v.pkgName
            /\ w.arrays = IF s.kind = "array" THEN Set(v.arrays, s.name, s.value) ELSE v.arrays
  BY <1>2, ArraysKeep
<1> HIDE DEF w
<1>5. Mapped(p, s) = w
  BY <1>3 DEF w
<1> QED
  BY <1>1, <1>2, <1>4, <1>5

\* What a statement leaves alone.
LEMMA AddItemKeeps ==
    ASSUME NEW p, DOMAIN p = Keys, NEW s
    PROVE  LET q == AddItem(p, s) IN
           /\ DOMAIN q = Keys
           /\ q.distro = p.distro /\ q.suffix = p.suffix /\ q.topLevelSnap = p.topLevelSnap
           /\ \/ q.functions = p.functions
              \/ s.kind = "function" /\ q.functions = Set(p.functions, s.name, s.value)
           /\ s.name \in SplitOverrideKeys =>
                 q.targetArch = p.targetArch /\ q.pkgName = p.pkgName /\ q.pkgNames = p.pkgNames
<1> DEFINE m == Mapped(p, s)
<1>1. /\ DOMAIN m = Keys
      /\ m.distro = p.distro /\ m.suffix = p.suffix /\ m.topLevelSnap = p.topLevelSnap
      /\ m.functions = p.functions
      /\ s.name \in SplitOverrideKeys =>
            m.targetArch = p.targetArch /\ m.pkgName = p.pkgName /\ m.pkgNames = p.pkgNames
  BY MappedIs
<1>2. \/ AddItem(p, s) \in {p, m}
      \/ s.kind = "function" /\ AddItem(p, s) = [m EXCEPT !.functions = Set(m.functions, s.name, s.value)]
  BY AddItemIs DEF MapFunctions
<1> HIDE DEF m
<1> QED
  BY <1>1, <1>2 DEF Keys

\* An override has the same effect on PKGBUILDs that agree on what is overridden.
LEMMA AddItemAgrees ==
    ASSUME NEW p, DOMAIN p = Keys, NEW q, DOMAIN q = Keys,
           p.distro = q.distro, p.targetArch = q.targetArch, SameOverrides(p, q),
           NEW s, s.name \in SplitOverrideKeys
    PROVE  SameOverrides(AddItem(p, s), AddItem(q, s))
<1>1. ParseDirective(p, s) = ParseDirective(q, s)
  BY DirectiveIsSame
<1>2. Get(p.priorities, s.name, 0) = Get(q.priorities, s.name, 0)
  <2>1. Fields(p.priorities, SplitOverrideKeys, 0)[s.name] = Fields(q.priorities, SplitOverrideKeys, 0)[s.name]
    BY SnapshotFacts
  <2> QED
    BY <2>1 DEF Fields
<1>3. Passed(p, s) <=> Passed(q, s)
  BY <1>1, <1>2 DEF Passed
<1>4. SameOverrides(Mapped(p, s), Mapped(q, s))
  <2> DEFINE m == Mapped(p, s)
             n == Mapped(q, s)
  <2>1. /\ Fields(p.strings, OverrideStrings, "") = Fields(q.strings, OverrideStrings, "")
        /\ Fields(p.arrays, OverrideArrays, <<>>) = Fields(q.arrays, OverrideArrays, <<>>)
        /\ Fields(p.priorities, SplitOverrideKeys, 0) = Fields(q.priorities, SplitOverrideKeys, 0)
    BY SnapshotFacts
  <2>2. /\ m.strings = IF s.kind = "string" THEN Set(p.strings, s.name, s.value) ELSE p.strings
        /\ m.arrays = IF s.kind = "array" THEN Set(p.arrays, s.name, s.value) ELSE p.arrays
        /\ m.priorities = IF ParseDirective(p, s) > Get(p.priorities, s.name, 0)
                          THEN Set(p.priorities, s.name, ParseDirective(p, s)) ELSE p.priorities
    BY MappedIs
  <2>3. /\ n.strings = IF s.kind = "string" THEN Set(q.strings, s.name, s.value) ELSE q.strings
        /\ n.arrays = IF s.kind = "array" THEN Set(q.arrays, s.name, s.value) ELSE q.arrays
        /\ n.priorities = IF ParseDirective(p, s) > Get(p.priorities, s.name, 0)
                          THEN Set(q.priorities, s.name, ParseDirective(p, s)) ELSE q.priorities
    BY <1>1, <1>2, MappedIs
  <2>4. \A x, v : Fields(Set(p.strings, x, v), OverrideStrings, "") = Fields(Set(q.strings, x, v), OverrideStrings, "")
    <3> DEFINE zero == ""
               f == p.strings
               g == q.strings
    <3>1. Fields(f, OverrideStrings, zero) = Fields(g, OverrideStrings, zero)
      BY <2>1
    <3> HIDE DEF zero, f, g
    <3>2. \A x, v : Fields(Set(f, x, v), OverrideStrings, zero) = Fields(Set(g, x, v), OverrideStrings, zero)
      BY <3>1, FieldsAfterSet
    <3> QED
      BY <3>2 DEF zero, f, g
  <2>5. \A x, v : Fields(Set(p.arrays, x, v), OverrideArrays, <<>>) = Fields(Set(q.arrays, x, v), OverrideArrays, <<>>)
    <3> DEFINE zero == <<>>
               f == p.arrays
               g == q.arrays
    <3>1. Fields(f, OverrideArrays, zero) = Fields(g, OverrideArrays, zero)
      BY <2>1
    <3> HIDE DEF zero, f, g
    <3>2. \A x, v : Fields(Set(f, x, v), OverrideArrays, zero) = Fields(Set(g, x, v), OverrideArrays, zero)
      BY <3>1, FieldsAfterSet
    <3> QED
      BY <3>2 DEF zero, f, g
  <2>6. \A x, v : Fields(Set(p.priorities, x, v), SplitOverrideKeys, 0) = Fields(Set(q.priorities, x, v), SplitOverrideKeys, 0)
    <3> DEFINE zero == 0
               f == p.priorities
               g == q.priorities
    <3>1. Fields(f, SplitOverrideKeys, zero) = Fields(g, SplitOverrideKeys, zero)
      BY <2>1
    <3> HIDE DEF zero, f, g
    <3>2. \A x, v : Fields(Set(f, x, v), SplitOverrideKeys, zero) = Fields(Set(g, x, v), SplitOverrideKeys, zero)
      BY <3>1, FieldsAfterSet
    <3> QED
      BY <3>2 DEF zero, f, g
  <2> HIDE DEF m, n
  <2>7. Fields(m.strings, OverrideStrings, "") = Fields(n.strings, OverrideStrings, "")
    BY ZenonT(60), <2>1, <2>2, <2>3, <2>4
  <2>8. Fields(m.arrays, OverrideArrays, <<>>) = Fields(n.arrays, OverrideArrays, <<>>)
    BY ZenonT(60), <2>1, <2>2, <2>3, <2>5
  <2>9. Fields(m.priorities, SplitOverrideKeys, 0) = Fields(n.priorities, SplitOverrideKeys, 0)
    BY <2>1, <2>2, <2>3, <2>6
  <2>10. SameOverrides(m, n)
    BY Zenon, <2>7, <2>8, <2>9 DEF SameOverrides, SnapshotSplitOverrides
  <2> QED
    BY Zenon, <2>10 DEF m, n
<1>5. ASSUME NEW m, DOMAIN m = Keys PROVE SameOverrides(MapFunctions(m, s), m)
  BY <1>5 DEF SameOverrides, SnapshotSplitOverrides, MapFunctions, Keys
<1>6. SameOverrides(MapFunctions(Mapped(p, s), s), MapFunctions(Mapped(q, s), s))
  BY <1>4, <1>5, MappedIs DEF SameOverrides
<1>7. CASE Passed(p, s)
  BY <1>3, <1>7, AddItemIs
<1>8. CASE ~Passed(p, s) /\ ParseDirective(p, s) >= Get(p.priorities, s.name, 0)
  BY <1>1, <1>2, <1>3, <1>6, <1>8, AddItemIs
<1>9. CASE ~Passed(p, s) /\ ~(ParseDirective(p, s) >= Get(p.priorities, s.name, 0))
  BY <1>1, <1>2, <1>3, <1>4, <1>9, AddItemIs
<1> QED
  BY <1>7, <1>8, <1>9
--------------------------------------------------------------------------------
(* What a file says, and what the function of a sub-package adds. *)

\* What no override changes.
Kept(p, q) == Alike(p, q) /\ p.pkgName = q.pkgName /\ p.suffix = q.suffix

\* An override leaves it as it is.
LEMMA OverrideKeeps ==
    ASSUME NEW p, DOMAIN p = Keys, NEW s, s.name \in SplitOverrideKeys, s.kind # "function"
    PROVE  Kept(AddItem(p, s), p)
BY AddItemKeeps DEF Kept, Alike

\* What two changes after the other leave alone.
LEMMA KeptTransitive ==
    ASSUME NEW p, NEW q, NEW r, Kept(p, q), Kept(q, r)
    PROVE  Kept(p, r)
BY DEF Kept, Alike

\* Two PKGBUILDs on which overrides have the same effect.
Agree(p, q) ==
    /\ DOMAIN p = Keys /\ DOMAIN q = Keys
    /\ p.distro = q.distro /\ p.targetArch = q.targetArch /\ SameOverrides(p, q)

\* A statement of an override, for two PKGBUILDs on which overrides have one effect.
LEMMA OverrideAgrees ==
    ASSUME NEW p, NEW q, Agree(p, q), NEW s, s.name \in SplitOverrideKeys
    PROVE  Agree(AddItem(p, s), AddItem(q, s))
BY AddItemKeeps, AddItemAgrees DEF Agree

\* A file and a body are sequences.
LEMMA SequenceFacts ==
    ASSUME NEW s, s \in Seq(Range(s))
    PROVE  Len(s) \in Nat /\ DOMAIN s = 1..Len(s)
OBVIOUS

\* The overrides of a function leave the rest as it is.
LEMMA OverridesKeep ==
    ASSUME NEW p, DOMAIN p = Keys,
           NEW body, body \in Seq(Range(body)), \A m \in DOMAIN body : body[m].kind # "function"
    PROVE  Kept(ParseSplitOverrides(p, body), p)
<1> DEFINE chosen == {n \in DOMAIN body : ApplyOverrideAssign(body[n])}
           N == Len(body)
<1>1. N \in Nat /\ DOMAIN body = 1..N
  BY SequenceFacts
<1>2. \A n \in chosen : body[n].name \in SplitOverrideKeys /\ body[n].kind # "function"
  BY DEF ApplyOverrideAssign
<1>3. ParseSplitOverrides(p, body) = AddItems(p, body, chosen)
  BY DEF ParseSplitOverrides
<1> HIDE DEF chosen
<1>4. PICK f : Trace(f, p, body, chosen) /\ AddItems(p, body, chosen) = f[N]
  BY <1>1, AddItemsTrace
<1> DEFINE T == {n \in 0..N : Kept(f[n], p)}
<1>5. 0 \in T
  BY <1>1, <1>4 DEF Trace, Kept, Alike
<1>6. ASSUME NEW n \in 0..N, n < N, n \in T PROVE n + 1 \in T
  <2>1. n + 1 \in 0..N
    BY <1>1, <1>6
  <2>2. f[n + 1] = IF n + 1 \in chosen THEN AddItem(f[n], body[n + 1]) ELSE f[n]
    BY <1>4, <1>6 DEF Trace
  <2>3. Kept(f[n], p)
    BY <1>6
  <2>4. DOMAIN f[n] = Keys
    BY <2>3 DEF Kept, Alike
  <2>5. n + 1 \in chosen => Kept(AddItem(f[n], body[n + 1]), f[n])
    BY <1>2, <2>4, OverrideKeeps
  <2>6. n + 1 \in chosen => Kept(AddItem(f[n], body[n + 1]), p)
    BY <2>3, <2>5, KeptTransitive
  <2>7. Kept(f[n + 1], p)
    BY <2>2, <2>3, <2>6
  <2> QED
    BY <2>1, <2>7
<1>7. 0..N \subseteq T
  <2> HIDE DEF T
  <2> QED
    BY <1>1, <1>5, <1>6, UpTo
<1> QED
  BY <1>1, <1>3, <1>4, <1>7

\* They have the same effect on PKGBUILDs that agree on what is overridden.
LEMMA OverridesAgree ==
    ASSUME NEW p, NEW q, Agree(p, q), NEW body, body \in Seq(Range(body))
    PROVE  Agree(ParseSplitOverrides(p, body), ParseSplitOverrides(q, body))
<1> DEFINE chosen == {n \in DOMAIN body : ApplyOverrideAssign(body[n])}
           N == Len(body)
<1>1. N \in Nat /\ DOMAIN body = 1..N
  BY SequenceFacts
<1>2. \A n \in chosen : body[n].name \in SplitOverrideKeys
  BY DEF ApplyOverrideAssign
<1>3. /\ ParseSplitOverrides(p, body) = AddItems(p, body, chosen)
      /\ ParseSplitOverrides(q, body) = AddItems(q, body, chosen)
  BY DEF ParseSplitOverrides
<1> HIDE DEF chosen
<1>4. PICK f : Trace(f, p, body, chosen) /\ AddItems(p, body, chosen) = f[N]
  BY <1>1, AddItemsTrace
<1>5. PICK g : Trace(g, q, body, chosen) /\ AddItems(q, body, chosen) = g[N]
  BY <1>1, AddItemsTrace
<1> DEFINE T == {n \in 0..N : Agree(f[n], g[n])}
<1>6. 0 \in T
  BY <1>1, <1>4, <1>5 DEF Trace
<1>7. ASSUME NEW n \in 0..N, n < N, n \in T PROVE n + 1 \in T
  <2>1. n + 1 \in 0..N
    BY <1>1, <1>7
  <2>2. /\ f[n + 1] = IF n + 1 \in chosen THEN AddItem(f[n], body[n + 1]) ELSE f[n]
        /\ g[n + 1] = IF n + 1 \in chosen THEN AddItem(g[n], body[n + 1]) ELSE g[n]
    BY <1>4, <1>5, <1>7 DEF Trace
  <2>3. Agree(f[n], g[n])
    BY <1>7
  <2>4. n + 1 \in chosen => Agree(AddItem(f[n], body[n + 1]), AddItem(g[n], body[n + 1]))
    BY <1>2, <2>3, OverrideAgrees
  <2>5. Agree(f[n + 1], g[n + 1])
    BY <2>2, <2>3, <2>4
  <2> QED
    BY <2>1, <2>5
<1>8. 0..N \subseteq T
  <2> HIDE DEF T
  <2> QED
    BY <1>1, <1>6, <1>7, UpTo
<1> QED
  BY <1>1, <1>3, <1>4, <1>5, <1>8

\* A function of the file.
InFile(file, name, body) ==
    \E n \in DOMAIN file : file[n].kind = "function" /\ file[n].name = name /\ file[n].value = body

\* A PKGBUILD that parsing has come to: what a target does not change, and whose
\* functions are those of the file.
FromFile(p, distro, file) ==
    /\ DOMAIN p = Keys
    /\ p.distro = distro /\ p.suffix = "" /\ p.topLevelSnap = <<>>
    /\ \A name \in DOMAIN p.functions : InFile(file, name, p.functions[name])

\* A statement of the file leaves that so.
LEMMA StatementFacts ==
    ASSUME NEW distro, NEW file, NEW p, FromFile(p, distro, file), NEW n \in DOMAIN file
    PROVE  FromFile(AddItem(p, file[n]), distro, file)
<1> DEFINE s == file[n]
           q == AddItem(p, s)
<1>1. /\ DOMAIN q = Keys
      /\ q.distro = p.distro /\ q.suffix = p.suffix /\ q.topLevelSnap = p.topLevelSnap
      /\ \/ q.functions = p.functions
         \/ s.kind = "function" /\ q.functions = Set(p.functions, s.name, s.value)
  <2> HIDE DEF s
  <2>1. DOMAIN p = Keys
    BY DEF FromFile
  <2> QED
    BY <2>1, AddItemKeeps
<1> HIDE DEF q
<1>2. \A name \in DOMAIN q.functions : InFile(file, name, q.functions[name])
  <2>1. CASE q.functions = p.functions
    BY <2>1 DEF FromFile
  <2>2. CASE s.kind = "function" /\ q.functions = Set(p.functions, s.name, s.value)
    <3> SUFFICES ASSUME NEW name \in DOMAIN q.functions PROVE InFile(file, name, q.functions[name])
      OBVIOUS
    <3>1. CASE name = s.name
      <4>1. q.functions[name] = s.value
        BY <2>2, <3>1 DEF Set
      <4> QED
        BY <2>2, <3>1, <4>1 DEF InFile
    <3>2. CASE name # s.name
      <4>1. name \in DOMAIN p.functions /\ q.functions[name] = p.functions[name]
        BY <2>2, <3>2 DEF Set
      <4> QED
        BY <4>1 DEF FromFile
    <3> QED
      BY <3>1, <3>2
  <2> QED
    BY <1>1, <2>1, <2>2
<1>3. q.distro = distro /\ q.suffix = "" /\ q.topLevelSnap = <<>>
  BY <1>1 DEF FromFile
<1>4. FromFile(q, distro, file)
  BY <1>1, <1>2, <1>3 DEF FromFile
<1> QED
  BY <1>4 DEF q

\* And so does one of the two passes over it.
LEMMA PassFacts ==
    ASSUME NEW distro, NEW file, file \in Seq(Range(file)), NEW p, FromFile(p, distro, file),
           NEW chosen
    PROVE  FromFile(AddItems(p, file, chosen), distro, file)
<1> DEFINE N == Len(file)
<1>1. N \in Nat /\ DOMAIN file = 1..N
  BY SequenceFacts
<1>2. PICK f : Trace(f, p, file, chosen) /\ AddItems(p, file, chosen) = f[N]
  BY <1>1, AddItemsTrace
<1> DEFINE T == {n \in 0..N : FromFile(f[n], distro, file)}
<1>3. 0 \in T
  BY <1>1, <1>2 DEF Trace
<1>4. ASSUME NEW n \in 0..N, n < N, n \in T PROVE n + 1 \in T
  <2>1. n + 1 \in 0..N /\ n + 1 \in DOMAIN file
    BY <1>1, <1>4
  <2>2. f[n + 1] = IF n + 1 \in chosen THEN AddItem(f[n], file[n + 1]) ELSE f[n]
    BY <1>2, <1>4 DEF Trace
  <2>3. FromFile(f[n], distro, file)
    BY <1>4
  <2>4. FromFile(AddItem(f[n], file[n + 1]), distro, file)
    BY <2>1, <2>3, StatementFacts
  <2>5. FromFile(f[n + 1], distro, file)
    BY <2>2, <2>3, <2>4
  <2> QED
    BY <2>1, <2>5
<1>5. 0..N \subseteq T
  <2> HIDE DEF T
  <2> QED
    BY <1>1, <1>3, <1>4, UpTo
<1> QED
  BY <1>1, <1>2, <1>5

\* A PKGBUILD as it is parsed has kept the top level if there are several packages.
LEMMA ParseFacts ==
    ASSUME NEW distro, NEW targetArch, NEW file, file \in Seq(Range(file))
    PROVE  LET p == ParseFile(distro, targetArch, file) IN
           /\ DOMAIN p = Keys /\ p.distro = distro /\ p.suffix = ""
           /\ \A name \in DOMAIN p.functions : InFile(file, name, p.functions[name])
           /\ IsSplitPackage(p) => p.topLevelSnap = <<SnapshotSplitOverrides(p)>>
<1> DEFINE functions == {n \in DOMAIN file : file[n].kind = "function"}
           variables == DOMAIN file \ functions
           one == AddItems(New(distro, targetArch), file, variables)
           two == AddItems(one, file, functions)
           p == ParseFile(distro, targetArch, file)
<1>1. FromFile(New(distro, targetArch), distro, file)
  BY DEF FromFile, New, Keys
<1>2. FromFile(two, distro, file)
  <2> HIDE DEF functions, variables
  <2>1. FromFile(one, distro, file)
    BY <1>1, PassFacts
  <2> HIDE DEF one
  <2> QED
    BY <2>1, PassFacts
<1>3. p = Finalize(two)
  BY DEF ParseFile
<1> HIDE DEF two, p
<1> DEFINE merged == [two EXCEPT !.sourceURI = @ \o two.archSourceURI, !.hashSums = @ \o two.archHashSums,
                                 !.archSourceURI = <<>>, !.archHashSums = <<>>]
<1>4. p = IF IsSplitPackage(two) THEN [merged EXCEPT !.topLevelSnap = <<SnapshotSplitOverrides(two)>>] ELSE merged
  BY <1>3 DEF Finalize
<1>5. /\ DOMAIN merged = Keys
      /\ merged.distro = two.distro /\ merged.suffix = two.suffix /\ merged.functions = two.functions
      /\ merged.pkgNames = two.pkgNames /\ merged.strings = two.strings /\ merged.arrays = two.arrays
      /\ merged.priorities = two.priorities
  BY <1>2 DEF FromFile, Keys
<1> HIDE DEF merged
<1>6. /\ DOMAIN p = Keys
      /\ p.distro = two.distro /\ p.suffix = two.suffix /\ p.functions = two.functions
      /\ p.pkgNames = two.pkgNames /\ p.strings = two.strings /\ p.arrays = two.arrays
      /\ p.priorities = two.priorities
      /\ IsSplitPackage(two) => p.topLevelSnap = <<SnapshotSplitOverrides(two)>>
  BY <1>4, <1>5 DEF Keys
<1>7. SnapshotSplitOverrides(p) = SnapshotSplitOverrides(two) /\ (IsSplitPackage(p) <=> IsSplitPackage(two))
  BY <1>6 DEF SnapshotSplitOverrides, IsSplitPackage
<1>8. /\ DOMAIN p = Keys /\ p.distro = distro /\ p.suffix = ""
      /\ \A name \in DOMAIN p.functions : InFile(file, name, p.functions[name])
      /\ IsSplitPackage(p) => p.topLevelSnap = <<SnapshotSplitOverrides(p)>>
  BY <1>2, <1>6, <1>7 DEF FromFile
<1> QED
  BY <1>8 DEF p

\* Restored, a PKGBUILD agrees with the one its snapshot was taken of.
LEMMA RestoreFacts ==
    ASSUME NEW p, DOMAIN p = Keys, NEW q, p.topLevelSnap = <<SnapshotSplitOverrides(q)>>
    PROVE  LET r == RestoreTopLevelOverrides(p) IN Kept(r, p) /\ SameOverrides(r, q)
<1> DEFINE snap == SnapshotSplitOverrides(q)
           strings == [x \in DOMAIN p.strings \cup OverrideStrings |->
                          IF x \in OverrideStrings THEN Get(snap.strings, x, "") ELSE p.strings[x]]
           arrays == [x \in DOMAIN p.arrays \cup OverrideArrays |->
                          IF x \in OverrideArrays THEN Get(snap.arrays, x, <<>>) ELSE p.arrays[x]]
           priorities == [x \in DOMAIN p.priorities \cup SplitOverrideKeys |->
                          IF x \in SplitOverrideKeys THEN Get(snap.priorities, x, 0) ELSE p.priorities[x]]
           r == [p EXCEPT !.strings = strings, !.arrays = arrays, !.priorities = priorities]
<1>1. RestoreTopLevelOverrides(p) = r
  <2>1. p.topLevelSnap # <<>> /\ p.topLevelSnap[1] = snap
    OBVIOUS
  <2> QED
    BY <2>1 DEF RestoreTopLevelOverrides, CopySplitOverrideFields
<1>2. /\ snap.strings = Fields(q.strings, OverrideStrings, "")
      /\ snap.arrays = Fields(q.arrays, OverrideArrays, <<>>)
      /\ snap.priorities = Fields(q.priorities, SplitOverrideKeys, 0)
  BY DEF SnapshotSplitOverrides
<1> HIDE DEF snap
<1>3. Fields(strings, OverrideStrings, "") = snap.strings
  BY <1>2 DEF Fields, Get
<1>4. Fields(arrays, OverrideArrays, <<>>) = snap.arrays
  BY <1>2 DEF Fields, Get
<1>5. Fields(priorities, SplitOverrideKeys, 0) = snap.priorities
  BY <1>2 DEF Fields, Get
<1> HIDE DEF strings, arrays, priorities
<1>6. /\ DOMAIN r = Keys /\ r.strings = strings /\ r.arrays = arrays /\ r.priorities = priorities
      /\ r.distro = p.distro /\ r.targetArch = p.targetArch /\ r.functions = p.functions
      /\ r.pkgNames = p.pkgNames /\ r.topLevelSnap = p.topLevelSnap
      /\ r.pkgName = p.pkgName /\ r.suffix = p.suffix
  BY DEF Keys
<1> HIDE DEF r
<1>7. Kept(r, p)
  BY <1>6 DEF Kept, Alike
<1>8. SameOverrides(r, q)
  BY <1>2, <1>3, <1>4, <1>5, <1>6, SnapshotFacts
<1> QED
  BY <1>1, <1>7, <1>8
--------------------------------------------------------------------------------
(* What the package builders make of a PKGBUILD and a payload. *)

\* Taking files out keeps that.
LEMMA WithoutOwned ==
    ASSUME NEW payload, NEW name, Owned(payload, name), NEW files
    PROVE  Owned(Without(payload, files), name)
BY DEF Owned, Without, Restrict

\* Stripping leaves the files the files of their package.
LEMMA StripOwned ==
    ASSUME NEW payload, NEW name, Owned(payload, name), NEW cross
    PROVE  Owned(StripWithEnv(payload, cross), name)
BY DEF Owned, StripWithEnv

\* And so does compressing pages under other names.
LEMMA ZipOwned ==
    ASSUME NEW payload, NEW name, Owned(payload, name)
    PROVE  Owned(ZipMan(payload), name)
<1>1. CASE "man" \notin DOMAIN payload
  BY <1>1 DEF ZipMan
<1>2. CASE "man" \in DOMAIN payload
  <2> DEFINE rest == Without(payload, {"man"})
             page == [payload["man"] EXCEPT !.state = "compressed"]
  <2>1. Owned(rest, name)
    BY WithoutOwned
  <2>2. "of" \in DOMAIN page /\ page.of = name
    BY <1>2 DEF Owned
  <2>3. ZipMan(payload) = Set(rest, "man.gz", page)
    BY <1>2 DEF ZipMan
  <2> HIDE DEF rest, page
  <2> QED
    BY <2>1, <2>2, <2>3 DEF Owned, Set
<1> QED
  BY <1>1, <1>2

\* And so do all the options.
LEMMA OptionsOwned ==
    ASSUME NEW payload, NEW name, Owned(payload, name), NEW flags, NEW cross
    PROVE  Owned(ApplyWithEnv(flags, payload, cross), name)
<1> DEFINE stripped == IF flags.strip THEN StripWithEnv(payload, cross) ELSE payload
           gone == (IF flags.docs THEN {} ELSE {"doc"}) \cup (IF flags.libtool THEN {} ELSE {"la"})
                      \cup (IF flags.staticlibs THEN {} ELSE {"lib.a"})
                      \cup (IF flags.purge THEN {"pod"} ELSE {})
                      \cup (IF flags.emptydirs THEN {} ELSE {"emptydir"})
           kept == Without(stripped, gone)
<1>1. Owned(stripped, name)
  BY StripOwned
<1>2. Owned(kept, name)
  <2> HIDE DEF stripped, gone
  <2> QED
    BY <1>1, WithoutOwned
<1>3. ApplyWithEnv(flags, payload, cross) = IF flags.zipman THEN ZipMan(kept) ELSE kept
  BY DEF ApplyWithEnv
<1> HIDE DEF kept
<1> QED
  BY <1>2, <1>3, ZipOwned

\* What is made of a PKGBUILD is the package's own if it agrees with own.
Suits(format, p, own) ==
    /\ Alike(p, own) /\ DOMAIN own = Keys /\ own.suffix = ""
    /\ SameOverrides(p, own)
    /\ p.suffix \in {"", Suffix(format, own)}

\* A PKGBUILD whose release or architecture was set.
Released(q, p, suffix) ==
    DOMAIN q = Keys /\ (\A k \in Keys : k # "suffix" => q[k] = p[k]) /\ q.suffix = suffix

Targeted(q, p) == DOMAIN q = Keys /\ \A k \in Keys : k # "archComputed" => q[k] = p[k]

\* The release is marked by what the distribution says alone, and only once.
LEMMA ReleaseFacts ==
    ASSUME NEW format, NEW p, NEW own, Suits(format, p, own)
    PROVE  Released(FormatRelease(format, p), p, Suffix(format, own))
<1> USE DEF Suffix
<1>0. /\ DOMAIN p = Keys /\ DOMAIN own = Keys /\ own.suffix = "" /\ p.distro = own.distro
      /\ p.suffix \in {"", Suffix(format, own)}
  BY DEF Suits, Alike
<1>1. ASSUME NEW v PROVE Released([p EXCEPT !.suffix = v], p, v)
  BY <1>0 DEF Keys, Released
<1>2. CASE format = "deb"
  <2> DEFINE v == IF p.distro[2] # "" THEN p.distro[2] ELSE p.distro[1]
  <2>1. FormatRelease(format, p) = [p EXCEPT !.suffix = v] /\ FormatRelease(format, own) = [own EXCEPT !.suffix = v]
    BY <1>0, <1>2 DEF FormatRelease
  <2> HIDE DEF v
  <2>2. FormatRelease(format, own).suffix = v
    BY <1>0, <2>1 DEF Keys
  <2> QED
    BY <1>1, <2>1, <2>2
<1>3. CASE format = "rpm" /\ p.distro[2] # "" /\ p.distro[1] \in RPMDistros
  <2> DEFINE v == p.distro[2]
  <2>1. FormatRelease(format, p) = [p EXCEPT !.suffix = v] /\ FormatRelease(format, own) = [own EXCEPT !.suffix = v]
    BY <1>0, <1>3 DEF FormatRelease
  <2> HIDE DEF v
  <2>2. FormatRelease(format, own).suffix = v
    BY <1>0, <2>1 DEF Keys
  <2> QED
    BY <1>1, <2>1, <2>2
<1>4. CASE format # "deb" /\ ~(format = "rpm" /\ p.distro[2] # "" /\ p.distro[1] \in RPMDistros)
  <2>1. FormatRelease(format, p) = p /\ FormatRelease(format, own) = own
    BY <1>0, <1>4 DEF FormatRelease
  <2> QED
    BY <1>0, <2>1 DEF Released
<1> QED
  BY <1>2, <1>3, <1>4

\* A PKGBUILD with all its fields.
WellFormed(p) == DOMAIN p = Keys

\* The architecture is all a target changes.
LEMMA TargetKeeps ==
    ASSUME NEW format, NEW p, WellFormed(p), NEW target
    PROVE  Targeted(SetTargetArchitecture(format, p, target), p)
BY DEF SetTargetArchitecture, Keys, Targeted, WellFormed

\* Some arrays rewritten, and the overridable ones of those.
Rewritten(format, arrays, some) ==
    [k \in DOMAIN arrays |-> IF k \in some THEN ProcessDependencies(format, arrays[k]) ELSE arrays[k]]

RewrittenOverrides(format, arrays, some) ==
    [k \in OverrideArrays |->
        IF k \in some THEN ProcessDependencies(format, Get(arrays, k, <<>>)) ELSE Get(arrays, k, <<>>)]

Overridable(arrays) == Fields(arrays, OverrideArrays, <<>>)

\* No dependencies are none however they are written.
LEMMA RewrittenFields ==
    ASSUME NEW format, NEW arrays, NEW some
    PROVE  Overridable(Rewritten(format, arrays, some)) = RewrittenOverrides(format, arrays, some)
<1>1. ProcessDependencies(format, <<>>) = <<>>
  BY DEF ProcessDependencies
<1> QED
  BY <1>1 DEF Fields, Get, Overridable, Rewritten, RewrittenOverrides

\* The PKGBUILD the metadata is written from.
Carries(q, format, p, own) ==
    /\ Alike(q, p) /\ q.pkgName = p.pkgName
    /\ q.suffix = Suffix(format, own)
    /\ Fields(q.strings, OverrideStrings, "") = Fields(own.strings, OverrideStrings, "")

MetadataButArrays(m, format, name, own) ==
    /\ DOMAIN m = {"name", "arch", "suffix", "scriptlets", "strings", "arrays"}
    /\ m.name = name
    /\ m.suffix = Suffix(format, own)
    /\ m.scriptlets = AddScriptlets(own)
    /\ m.strings = Fields(own.strings, OverrideStrings, "")

MetadataIsOwn(m, format, name, own) ==
    /\ m.name = name
    /\ m.suffix = Suffix(format, own)
    /\ m.scriptlets = AddScriptlets(own)
    /\ m.strings = Fields(own.strings, OverrideStrings, "")
    /\ m.arrays = WithForm(format, Overridable(own.arrays))

MadeWell(made, format, p, own) ==
    /\ made.file[1] = p.pkgName
    /\ MetadataIsOwn(made.metadata, format, p.pkgName, own)
    /\ Owned(made.payload, p.pkgName)
    /\ Alike(made.pkgbuild, p)
    /\ made.pkgbuild.suffix \in {"", Suffix(format, own)}

\* The metadata but for the arrays.
LEMMA MetadataFacts ==
    ASSUME NEW format, NEW p, NEW own, Suits(format, p, own), NEW q, Carries(q, format, p, own)
    PROVE  MetadataButArrays(Metadata(q), format, p.pkgName, own)
<1>1. q.functions = own.functions
  BY DEF Carries, Suits, Alike
<1> QED
  BY <1>1 DEF Metadata, MetadataButArrays, AddScriptlets, Carries

\* The name of a file begins with the package's.
Called(file, name) == file[1] = name
Bears(q, name) == q.pkgName = name

\* That of BuildPackageName does, with the epoch or without.
LEMMA NameFirst ==
    ASSUME NEW format, NEW q, NEW x, Bears(q, x)
    PROVE  /\ Called(BuildPackageName(format, q), x)
           /\ Called([BuildPackageName(format, q) EXCEPT ![2] = ""], x)
<1> DEFINE name == BuildPackageName(format, q)
<1>1. name[1] = q.pkgName /\ DOMAIN name = 1..5
  BY DEF BuildPackageName
<1> HIDE DEF name
<1>2. [name EXCEPT ![2] = ""][1] = name[1]
  BY <1>1
<1> QED
  BY <1>1, <1>2 DEF name, Called, Bears

\* Where a format has forms for none of the arrays they are as they were.
LEMMA NoForm ==
    ASSUME NEW format \in {"apk", "pacman"}, NEW arrays
    PROVE  WithForm(format, Overridable(arrays)) = Overridable(arrays)
BY DEF WithForm, Fields, Overridable

\* deb: dependencies are rewritten in the PKGBUILD itself.
LEMMA DebIsOwn ==
    ASSUME NEW format, format = "deb", NEW p, NEW own, Suits(format, p, own),
           NEW target, NEW payload, Owned(payload, p.pkgName)
    PROVE  MadeWell(BuildPackage(format, target, PrepareFakeroot(format, p, target, payload)), format, p, own)
<1> DEFINE r == FormatRelease(format, p)
           t == SetTargetArchitecture(format, r, target)
           q == DebResources(t)
           rewritten == {"depends", "makedepends", "optdepends"}
           sums == <<CreateMd5sums(payload)>>
           files == ApplyWithEnv(q.flags, payload, BuildCrossStripEnvSlice(q, target))
           made == BuildPackage(format, target, PrepareFakeroot(format, p, target, payload))
<1> USE DEF WellFormed
<1>1. Released(r, p, Suffix(format, own))
  BY ReleaseFacts
<1>2. Targeted(t, r)
  <2> HIDE DEF r
  <2>1. WellFormed(r)
    BY <1>1 DEF Released
  <2> HIDE DEF WellFormed
  <2> QED
    BY <2>1, TargetKeeps
<1>3. /\ DOMAIN q = Keys /\ \A k \in Keys : k # "arrays" => q[k] = t[k]
      /\ q.arrays = Rewritten(format, t.arrays, rewritten)
  <2> HIDE DEF t
  <2> QED
    BY <1>2 DEF DebResources, Keys, Rewritten, Targeted
<1>4. made = [pkgbuild |-> q, file |-> BuildPackageName(format, q),
              metadata |-> Metadata(q), sums |-> sums[1], payload |-> files]
  <2>1. PrepareFakeroot(format, p, target, payload) =
           [pkgbuild |-> q, control |-> [metadata |-> <<Metadata(q)>>, sums |-> sums], payload |-> files]
    BY DEF PrepareFakeroot, DebPrepareFakeroot
  <2> HIDE DEF q, sums, files
  <2> QED
    BY <2>1 DEF BuildPackage, DebBuildPackage, CreateDeb
<1>5. Owned(files, p.pkgName)
  BY OptionsOwned
<1> HIDE DEF r, t, q, sums, files, made
<1>6. /\ made.pkgbuild = q /\ made.file = BuildPackageName(format, q) /\ made.metadata = Metadata(q)
      /\ made.payload = files
  BY <1>4
<1>7. /\ q.distro = p.distro /\ q.targetArch = p.targetArch /\ q.functions = p.functions
      /\ q.pkgNames = p.pkgNames /\ q.topLevelSnap = p.topLevelSnap /\ q.pkgName = p.pkgName
      /\ q.strings = p.strings /\ q.suffix = Suffix(format, own)
      /\ t.arrays = p.arrays
  BY <1>1, <1>2, <1>3 DEF Keys, Released, Targeted
<1>8. /\ Fields(p.strings, OverrideStrings, "") = Fields(own.strings, OverrideStrings, "")
      /\ Overridable(p.arrays) = Overridable(own.arrays)
  BY SnapshotFacts DEF Suits, Overridable
<1>9. Carries(q, format, p, own)
  BY <1>3, <1>7, <1>8 DEF Carries, Suits, Alike
<1>10. MetadataButArrays(Metadata(q), format, p.pkgName, own)
  BY <1>9, MetadataFacts
<1>11. Metadata(q).arrays = WithForm(format, Overridable(own.arrays))
  <2>1. Metadata(q).arrays = Overridable(q.arrays)
    BY DEF Metadata, Overridable
  <2>2. Overridable(q.arrays) = RewrittenOverrides(format, p.arrays, rewritten)
    <3> HIDE DEF rewritten
    <3> QED
      BY <1>3, <1>7, RewrittenFields
  <2>3. RewrittenOverrides(format, p.arrays, rewritten) = WithForm(format, Overridable(p.arrays))
    BY DEF WithForm, Fields, OverrideArrays, Overridable, RewrittenOverrides
  <2> QED
    BY <1>8, <2>1, <2>2, <2>3
<1>12. MetadataIsOwn(made.metadata, format, p.pkgName, own)
  BY <1>6, <1>10, <1>11 DEF MetadataIsOwn, MetadataButArrays
<1>13. Called(made.file, p.pkgName)
  <2>1. Bears(q, p.pkgName)
    BY <1>7 DEF Bears
  <2> QED
    BY ZenonT(60), <1>6, <2>1, NameFirst
<1>14. MadeWell(made, format, p, own)
  BY <1>5, <1>6, <1>7, <1>9, <1>12, <1>13 DEF MadeWell, Carries, Called
<1> QED
  BY <1>14 DEF made

\* RpmBuildPackage for the format's name.
RpmPackage(format, p, target, payload) ==
    LET q == SetTargetArchitecture(format, p, target)
        m == Metadata(q)
    IN  [pkgbuild |-> q, file |-> [BuildPackageName(format, q) EXCEPT ![2] = ""],
         metadata |-> [m EXCEPT !.arrays =
            [k \in DOMAIN m.arrays |-> IF k \in {"depends", "optdepends", "provides", "conflicts", "replaces"}
                                      THEN ProcessDependencies(format, m.arrays[k]) ELSE m.arrays[k]]],
         sums |-> Without(payload, Directories), payload |-> payload]

\* rpm: the group is set, and the dependencies are rewritten in the metadata only.
LEMMA RpmIsOwn ==
    ASSUME NEW format, format = "rpm", NEW p, NEW own, Suits(format, p, own),
           NEW target, NEW payload, Owned(payload, p.pkgName)
    PROVE  MadeWell(BuildPackage(format, target, PrepareFakeroot(format, p, target, payload)), format, p, own)
<1> DEFINE g == GetGroup(p)
           r == FormatRelease(format, g)
           t == SetTargetArchitecture(format, r, target)
           q == SetTargetArchitecture(format, t, target)
           rewritten == {"depends", "optdepends", "provides", "conflicts", "replaces"}
           files == ApplyWithEnv(t.flags, payload, BuildCrossStripEnvSlice(t, target))
           m == Metadata(q)
           arrays == [k \in DOMAIN m.arrays |->
                         IF k \in rewritten THEN ProcessDependencies(format, m.arrays[k]) ELSE m.arrays[k]]
           made == BuildPackage(format, target, PrepareFakeroot(format, p, target, payload))
<1>1. /\ DOMAIN g = Keys /\ \A k \in Keys : k # "strings" => g[k] = p[k]
      /\ Fields(g.strings, OverrideStrings, "") = Fields(p.strings, OverrideStrings, "")
  <2>1. DOMAIN p = Keys
    BY DEF Suits, Alike
  <2>2. PICK v : g = [p EXCEPT !.strings = Set(p.strings, "section", v)]
    BY DEF GetGroup
  <2>3. \A k \in OverrideStrings : Get(Set(p.strings, "section", v), k, "") = Get(p.strings, k, "")
    BY DEF OverrideStrings, Get, Set
  <2>4. Fields(Set(p.strings, "section", v), OverrideStrings, "") = Fields(p.strings, OverrideStrings, "")
    BY <2>3 DEF Fields
  <2> HIDE DEF g
  <2> QED
    BY <2>1, <2>2, <2>4 DEF Keys
<1>2. Suits(format, g, own)
  <2> HIDE DEF g
  <2>1. /\ g.distro = p.distro /\ g.targetArch = p.targetArch /\ g.functions = p.functions
        /\ g.pkgNames = p.pkgNames /\ g.topLevelSnap = p.topLevelSnap /\ g.pkgName = p.pkgName
        /\ g.arrays = p.arrays /\ g.suffix = p.suffix /\ g.priorities = p.priorities
    BY <1>1 DEF Keys
  <2>2. Alike(g, own)
    BY <1>1, <2>1 DEF Suits, Alike
  <2>3. SameOverrides(g, own)
    BY <1>1, <2>1 DEF Suits, SameOverrides, SnapshotSplitOverrides
  <2> QED
    BY <2>1, <2>2, <2>3 DEF Suits
<1>3. Released(r, g, Suffix(format, own))
  <2> HIDE DEF g
  <2> QED
    BY <1>2, ReleaseFacts
<1>4. Targeted(t, r)
  <2> HIDE DEF r
  <2>1. WellFormed(r)
    BY <1>3 DEF Released, WellFormed
  <2> QED
    BY <2>1, TargetKeeps
<1>5. Targeted(q, t)
  <2> HIDE DEF t
  <2>1. WellFormed(t)
    BY <1>4 DEF Targeted, WellFormed
  <2> QED
    BY <2>1, TargetKeeps
<1>6. /\ made.pkgbuild = q /\ made.file = [BuildPackageName(format, q) EXCEPT ![2] = ""]
      /\ made.metadata = [m EXCEPT !.arrays = arrays]
      /\ made.payload = files
  <2>1. PrepareFakeroot(format, p, target, payload) = [pkgbuild |-> t, control |-> NoControl, payload |-> files]
    BY DEF PrepareFakeroot, RpmPrepareFakeroot
  <2> HIDE DEF t, files
  <2>2. made = RpmBuildPackage(t, target, files)
    BY <2>1 DEF BuildPackage
  <2>3. RpmBuildPackage(t, target, files) = RpmPackage("rpm", t, target, files)
    BY Zenon DEF RpmBuildPackage, CreateFilesInsideRPM, RpmPackage
  <2>4. RpmPackage(format, t, target, files) =
           [pkgbuild |-> q, file |-> [BuildPackageName(format, q) EXCEPT ![2] = ""],
            metadata |-> [m EXCEPT !.arrays = arrays],
            sums |-> Without(files, Directories), payload |-> files]
    BY Zenon DEF RpmPackage
  <2> DEFINE file == [BuildPackageName(format, q) EXCEPT ![2] = ""]
             metadata == [m EXCEPT !.arrays = arrays]
  <2>5. made = [pkgbuild |-> q, file |-> file, metadata |-> metadata,
                sums |-> Without(files, Directories), payload |-> files]
    <3> HIDE DEF q, arrays, m, made
    <3> QED
      BY Zenon, <2>2, <2>3, <2>4
  <2> HIDE DEF made, q, file, metadata
  <2>6. made.pkgbuild = q /\ made.file = file /\ made.metadata = metadata /\ made.payload = files
    BY <2>5
  <2> QED
    BY Zenon, <2>6 DEF file, metadata
<1>7. Owned(files, p.pkgName)
  BY OptionsOwned
<1> HIDE DEF g, r, t, q, files, made, arrays, rewritten, m
<1>8. /\ q.distro = p.distro /\ q.targetArch = p.targetArch /\ q.functions = p.functions
      /\ q.pkgNames = p.pkgNames /\ q.topLevelSnap = p.topLevelSnap /\ q.pkgName = p.pkgName
      /\ q.strings = g.strings /\ q.suffix = Suffix(format, own)
      /\ q.arrays = p.arrays /\ DOMAIN q = Keys
  BY <1>1, <1>3, <1>4, <1>5 DEF Keys, Released, Targeted
<1>9. /\ Fields(p.strings, OverrideStrings, "") = Fields(own.strings, OverrideStrings, "")
      /\ Overridable(p.arrays) = Overridable(own.arrays)
  BY SnapshotFacts DEF Suits, Overridable
<1>10. Carries(q, format, p, own)
  BY <1>1, <1>8, <1>9 DEF Carries, Suits, Alike
<1>11. MetadataButArrays(m, format, p.pkgName, own) /\ m.arrays = Overridable(p.arrays)
  <2>1. MetadataButArrays(m, format, p.pkgName, own)
    BY <1>10, MetadataFacts DEF m
  <2>2. m.arrays = Overridable(p.arrays)
    BY <1>8 DEF m, Metadata, Overridable
  <2> QED
    BY <2>1, <2>2
<1>12. arrays = WithForm(format, Overridable(own.arrays))
  BY <1>9, <1>11 DEF arrays, rewritten, WithForm
<1>13. MetadataIsOwn(made.metadata, format, p.pkgName, own)
  BY <1>6, <1>11, <1>12 DEF MetadataIsOwn, MetadataButArrays
<1>14. Called(made.file, p.pkgName)
  <2> DEFINE name == p.pkgName
  <2>1. Bears(q, name)
    BY <1>8 DEF Bears
  <2> HIDE DEF name
  <2>2. Called([BuildPackageName(format, q) EXCEPT ![2] = ""], name)
    BY <2>1, NameFirst
  <2> QED
    BY <1>6, <2>2 DEF name
<1>15. MadeWell(made, format, p, own)
  BY <1>6, <1>7, <1>8, <1>10, <1>13, <1>14 DEF MadeWell, Carries, Called
<1> QED
  BY <1>15 DEF made

\* Those formats leave the release as it is.
LEMMA ReleaseStays ==
    ASSUME NEW format \in {"apk", "pacman"}, NEW p, NEW own, Suits(format, p, own)
    PROVE  p.suffix = Suffix(format, own)
<1>1. FormatRelease(format, p) = p
  BY DEF FormatRelease
<1>2. Released(p, p, Suffix(format, own))
  BY Zenon, <1>1, ReleaseFacts
<1> QED
  BY <1>2 DEF Released

\* apk: the origin is set, which no package overrides.
LEMMA ApkIsOwn ==
    ASSUME NEW format, format = "apk", NEW p, NEW own, Suits(format, p, own),
           NEW target, NEW payload, Owned(payload, p.pkgName)
    PROVE  MadeWell(BuildPackage(format, target, PrepareFakeroot(format, p, target, payload)), format, p, own)
<1> DEFINE t == SetTargetArchitecture(format, p, target)
           o == [t EXCEPT !.strings = IF Get(@, "origin", "") = "" THEN Set(@, "origin", t.pkgName) ELSE @]
           q == SetTargetArchitecture(format, o, target)
           made == BuildPackage(format, target, PrepareFakeroot(format, p, target, payload))
<1>1. Targeted(t, p)
  <2>1. WellFormed(p)
    BY DEF Suits, Alike, WellFormed
  <2> QED
    BY <2>1, TargetKeeps
<1>2. /\ DOMAIN o = Keys /\ \A k \in Keys : k # "strings" => o[k] = t[k]
      /\ Fields(o.strings, OverrideStrings, "") = Fields(t.strings, OverrideStrings, "")
  <2> HIDE DEF t
  <2>1. DOMAIN t = Keys
    BY <1>1 DEF Targeted
  <2>2. \A k \in OverrideStrings : Get(Set(t.strings, "origin", t.pkgName), k, "") = Get(t.strings, k, "")
    BY DEF OverrideStrings, Get, Set
  <2>3. Fields(Set(t.strings, "origin", t.pkgName), OverrideStrings, "") = Fields(t.strings, OverrideStrings, "")
    BY <2>2 DEF Fields
  <2> QED
    BY <2>1, <2>3 DEF Keys
<1>3. Targeted(q, o)
  <2> HIDE DEF o
  <2>1. WellFormed(o)
    BY <1>2 DEF WellFormed
  <2> QED
    BY <2>1, TargetKeeps
<1>4. /\ made.pkgbuild = q /\ made.file = BuildPackageName(format, q)
      /\ made.metadata = Metadata(q) /\ made.payload = payload
  <2>1. PrepareFakeroot(format, p, target, payload) = [pkgbuild |-> o, control |-> NoControl, payload |-> payload]
    BY DEF PrepareFakeroot, ApkPrepareFakeroot
  <2> HIDE DEF o
  <2>2. made = ApkBuildPackage(o, target, payload)
    BY <2>1 DEF BuildPackage
  <2> QED
    BY <2>2 DEF ApkBuildPackage, CreateTarGzWithChecksums
<1> HIDE DEF t, o, q, made
<1>5. /\ q.distro = p.distro /\ q.targetArch = p.targetArch /\ q.functions = p.functions
      /\ q.pkgNames = p.pkgNames /\ q.topLevelSnap = p.topLevelSnap /\ q.pkgName = p.pkgName
      /\ q.strings = o.strings /\ t.strings = p.strings
      /\ q.arrays = p.arrays /\ q.suffix = p.suffix /\ DOMAIN q = Keys
  BY <1>1, <1>2, <1>3 DEF Keys, Targeted
<1>6. /\ Fields(p.strings, OverrideStrings, "") = Fields(own.strings, OverrideStrings, "")
      /\ Overridable(p.arrays) = Overridable(own.arrays)
  BY SnapshotFacts DEF Suits, Overridable
<1>7. p.suffix = Suffix(format, own)
  BY ReleaseStays
<1>8. Carries(q, format, p, own)
  BY <1>2, <1>5, <1>6, <1>7 DEF Carries, Suits, Alike
<1>9. MetadataButArrays(Metadata(q), format, p.pkgName, own)
  BY <1>8, MetadataFacts
<1>10. Metadata(q).arrays = WithForm(format, Overridable(own.arrays))
  <2>1. Metadata(q).arrays = Overridable(own.arrays)
    BY <1>5, <1>6 DEF Metadata, Overridable
  <2> QED
    BY <2>1, NoForm
<1>11. MetadataIsOwn(made.metadata, format, p.pkgName, own)
  BY <1>4, <1>9, <1>10 DEF MetadataIsOwn, MetadataButArrays
<1>12. Called(made.file, p.pkgName)
  <2>1. Bears(q, p.pkgName)
    BY <1>5 DEF Bears
  <2> QED
    BY ZenonT(60), <1>4, <2>1, NameFirst
<1>13. MadeWell(made, format, p, own)
  BY <1>4, <1>5, <1>7, <1>8, <1>11, <1>12 DEF MadeWell, Carries, Called
<1> QED
  BY <1>13 DEF made

\* pacman: the metadata is written before the architecture is set.
LEMMA PacmanIsOwn ==
    ASSUME NEW format, format = "pacman", NEW p, NEW own, Suits(format, p, own),
           NEW target, NEW payload, Owned(payload, p.pkgName)
    PROVE  MadeWell(BuildPackage(format, target, PrepareFakeroot(format, p, target, payload)), format, p, own)
<1> DEFINE q == SetTargetArchitecture(format, p, target)
           files == ApplyWithEnv(p.flags, payload, BuildCrossStripEnvSlice(p, target))
           made == BuildPackage(format, target, PrepareFakeroot(format, p, target, payload))
<1>1. Targeted(q, p)
  <2>1. WellFormed(p)
    BY DEF Suits, Alike, WellFormed
  <2> QED
    BY <2>1, TargetKeeps
<1>2. Owned(files, p.pkgName)
  BY OptionsOwned
<1>3. /\ made.pkgbuild = q /\ made.file = BuildPackageName(format, q)
      /\ made.metadata = Metadata(p) /\ made.payload = files
  <2> DEFINE sums == <<WriteMTREE(files)>>
  <2>1. PrepareFakeroot(format, p, target, payload) =
           [pkgbuild |-> p, payload |-> files, control |-> [metadata |-> <<Metadata(p)>>, sums |-> sums]]
    BY DEF PrepareFakeroot, PacmanPrepareFakeroot
  <2> HIDE DEF files, sums
  <2>2. made = PacmanBuildPackage(p, [metadata |-> <<Metadata(p)>>, sums |-> sums], target, files)
    BY <2>1 DEF BuildPackage
  <2> QED
    BY <2>2 DEF PacmanBuildPackage
<1> HIDE DEF q, files, made
<1>4. /\ q.distro = p.distro /\ q.targetArch = p.targetArch /\ q.functions = p.functions
      /\ q.pkgNames = p.pkgNames /\ q.topLevelSnap = p.topLevelSnap /\ q.pkgName = p.pkgName
      /\ q.suffix = p.suffix /\ DOMAIN q = Keys
  BY <1>1 DEF Keys, Targeted
<1>5. /\ Fields(p.strings, OverrideStrings, "") = Fields(own.strings, OverrideStrings, "")
      /\ Overridable(p.arrays) = Overridable(own.arrays)
  BY SnapshotFacts DEF Suits, Overridable
<1>6. p.suffix = Suffix(format, own)
  BY ReleaseStays
<1>7. Carries(p, format, p, own)
  BY <1>5, <1>6 DEF Carries, Suits, Alike
<1>8. MetadataButArrays(Metadata(p), format, p.pkgName, own)
  BY <1>7, MetadataFacts
<1>9. Metadata(p).arrays = WithForm(format, Overridable(own.arrays))
  <2>1. Metadata(p).arrays = Overridable(own.arrays)
    BY <1>5 DEF Metadata, Overridable
  <2> QED
    BY <2>1, NoForm
<1>10. MetadataIsOwn(made.metadata, format, p.pkgName, own)
  BY <1>3, <1>8, <1>9 DEF MetadataIsOwn, MetadataButArrays
<1>11. Called(made.file, p.pkgName)
  <2>1. Bears(q, p.pkgName)
    BY <1>4 DEF Bears
  <2> QED
    BY ZenonT(60), <1>3, <2>1, NameFirst
<1>12. MadeWell(made, format, p, own)
  BY <1>2, <1>3, <1>4, <1>6, <1>10, <1>11 DEF MadeWell, Alike, Called
<1> QED
  BY <1>12 DEF made

\* Whatever the format, the package that is made is its own.
LEMMA BuildIsOwn ==
    ASSUME NEW format \in {"deb", "rpm", "apk", "pacman"}, NEW p, NEW own, Suits(format, p, own),
           NEW target, NEW payload, Owned(payload, p.pkgName)
    PROVE  MadeWell(BuildPackage(format, target, PrepareFakeroot(format, p, target, payload)), format, p, own)
<1>1. CASE format = "deb"
  BY <1>1, DebIsOwn
<1>2. CASE format = "rpm"
  BY <1>2, RpmIsOwn
<1>3. CASE format = "apk"
  BY <1>3, ApkIsOwn
<1>4. CASE format = "pacman"
  BY <1>4, PacmanIsOwn
<1> QED
  BY <1>1, <1>2, <1>3, <1>4
--------------------------------------------------------------------------------
(* A project in a world. *)

\* A body of a package function is a sequence of assignments.
Body(b) == b \in Seq(Range(b)) /\ \A m \in DOMAIN b : b[m].kind # "function"

\* Every run is of the same packages.
LEMMA RunsAgree ==
    ASSUME world \in Worlds, NEW n \in 1..MaxRuns
    PROVE  Top(n).pkgName = Name /\ (Makes(n) <=> Makes(1))
<1>1. /\ ParseFile(world.distro, world.targets[n], world.file).pkgName =
            ParseFile(world.distro, world.targets[1], world.file).pkgName
      /\ ParseFile(world.distro, world.targets[n], world.file).pkgNames =
            ParseFile(world.distro, world.targets[1], world.file).pkgNames
  BY Zenon, PackagingAssumption
<1>2. Top(n).pkgName = Top(1).pkgName /\ Top(n).pkgNames = Top(1).pkgNames
  BY Zenon, <1>1 DEF Top
<1> QED
  BY Zenon, <1>2 DEF Name, Makes, IsSplitPackage

\* The package functions of the file have such bodies.
LEMMA BodyFacts ==
    ASSUME world \in Worlds, NEW name \in PackageFunctions, NEW b, InFile(world.file, name, b)
    PROVE  Body(b)
<1>1. PICK n \in DOMAIN world.file : /\ world.file[n].kind = "function" /\ world.file[n].name = name
                                     /\ world.file[n].value = b
  BY DEF InFile
<1>2. world.file[n].kind = "function" /\ world.file[n].name \in PackageFunctions =>
          /\ world.file[n].value \in Seq(Range(world.file[n].value))
          /\ \A m \in DOMAIN world.file[n].value : world.file[n].value[m].kind # "function"
  BY Zenon, PackagingAssumption
<1> QED
  BY Zenon, <1>1, <1>2 DEF Body

\* What the file says in a run.
LEMMA TopFacts ==
    ASSUME world \in Worlds, NEW n \in 1..MaxRuns
    PROVE  /\ DOMAIN Top(n) = Keys /\ Top(n).distro = world.distro /\ Top(n).suffix = ""
           /\ \A name \in DOMAIN Top(n).functions : name \in PackageFunctions => Body(Top(n).functions[name])
           /\ Makes(n) => Top(n).topLevelSnap = <<SnapshotSplitOverrides(Top(n))>>
<1>1. world.file \in Seq(Range(world.file))
  BY Zenon, PackagingAssumption
<1>2. /\ DOMAIN Top(n) = Keys /\ Top(n).distro = world.distro /\ Top(n).suffix = ""
      /\ \A name \in DOMAIN Top(n).functions : InFile(world.file, name, Top(n).functions[name])
      /\ IsSplitPackage(Top(n)) => Top(n).topLevelSnap = <<SnapshotSplitOverrides(Top(n))>>
  <2> DEFINE distro == world.distro
             target == world.targets[n]
             file == world.file
             p == ParseFile(distro, target, file)
  <2>1. /\ DOMAIN p = Keys /\ p.distro = distro /\ p.suffix = ""
        /\ \A name \in DOMAIN p.functions : InFile(file, name, p.functions[name])
        /\ IsSplitPackage(p) => p.topLevelSnap = <<SnapshotSplitOverrides(p)>>
    <3>1. file \in Seq(Range(file))
      BY <1>1
    <3> HIDE DEF file, target, distro
    <3> QED
      BY ZenonT(60), <3>1, ParseFacts
  <2>2. p = Top(n)
    BY DEF Top
  <2> HIDE DEF p
  <2> QED
    BY <2>1, <2>2
<1>3. \A name \in DOMAIN Top(n).functions : name \in PackageFunctions => Body(Top(n).functions[name])
  BY <1>2, BodyFacts
<1> QED
  BY <1>2, <1>3 DEF Makes

\* The release that is marked is the same for PKGBUILDs of one distribution.
LEMMA SameSuffix ==
    ASSUME NEW format, NEW p, NEW q, WellFormed(p), WellFormed(q), p.distro = q.distro, p.suffix = q.suffix
    PROVE  Suffix(format, p) = Suffix(format, q)
BY DEF Suffix, FormatRelease, WellFormed, Keys

\* Where a package is installed to tells which one it is.
LEMMA DirIsOwn ==
    ASSUME world \in Worlds, run \in 1..MaxRuns,
           NEW p, Alike(p, Top(run)), ~Makes(run) => p.pkgName = Name
    PROVE  DirOwner(SetPackageDir(p, p.pkgName)) = p.pkgName
<1>1. IsSplitPackage(p) <=> Makes(1)
  BY RunsAgree DEF Alike, Makes, IsSplitPackage
<1>2. p.distro = world.distro
  BY TopFacts DEF Alike
<1>3. ~Makes(1) => p.pkgName = Name
  BY RunsAgree
<1> QED
  BY <1>1, <1>2, <1>3 DEF DirOwner, SetPackageDir

\* A sub-package before its function is looked at, and then.
Restored(name) == RestoreTopLevelOverrides([pkgbuild EXCEPT !.pkgName = name])

SubPackage(name) ==
    IF OwnFunction(name) \in DOMAIN pkgbuild.functions
    THEN ParseSplitOverrides(Restored(name), pkgbuild.functions[OwnFunction(name)]) ELSE Restored(name)

\* What it is then.
LEMMA RestoredFacts ==
    ASSUME world \in Worlds, run \in 1..MaxRuns, Makes(run), Alike(pkgbuild, Top(run)), NEW name
    PROVE  /\ Alike(Restored(name), Top(run))
           /\ Restored(name).pkgName = name /\ Restored(name).suffix = pkgbuild.suffix
           /\ Agree(Restored(name), Top(run))
<1> DEFINE p == [pkgbuild EXCEPT !.pkgName = name]
           r == RestoreTopLevelOverrides(p)
           top == Top(run)
<1>1. DOMAIN top = Keys /\ top.topLevelSnap = <<SnapshotSplitOverrides(top)>>
  BY TopFacts
<1>2. Alike(pkgbuild, top)
  OBVIOUS
<1> HIDE DEF top
<1>3. /\ DOMAIN p = Keys /\ p.pkgName = name /\ p.suffix = pkgbuild.suffix
      /\ p.distro = top.distro /\ p.targetArch = top.targetArch /\ p.functions = top.functions
      /\ p.pkgNames = top.pkgNames /\ p.topLevelSnap = top.topLevelSnap
  BY <1>2 DEF Alike, Keys
<1> HIDE DEF p
<1>4. p.topLevelSnap = <<SnapshotSplitOverrides(top)>>
  BY <1>1, <1>3
<1>5. Kept(r, p) /\ SameOverrides(r, top)
  BY <1>3, <1>4, RestoreFacts
<1> HIDE DEF r
<1>6. Alike(r, top) /\ r.pkgName = name /\ r.suffix = pkgbuild.suffix
  BY <1>3, <1>5 DEF Kept, Alike
<1>7. Agree(r, top)
  BY <1>1, <1>5, <1>6 DEF Agree, Alike
<1>8. r = Restored(name)
  BY DEF Restored, r, p
<1> QED
  BY <1>6, <1>7, <1>8 DEF top

\* The function of a package is in the file, and its body a sequence of assignments.
LEMMA FunctionFacts ==
    ASSUME world \in Worlds, run \in 1..MaxRuns, Alike(pkgbuild, Top(run)),
           NEW name \in DOMAIN pkgbuild.functions, name \in PackageFunctions
    PROVE  Body(pkgbuild.functions[name]) /\ pkgbuild.functions[name] = Top(run).functions[name]
<1>1. pkgbuild.functions = Top(run).functions
  BY DEF Alike
<1> QED
  BY <1>1, TopFacts

\* The function of a sub-package is a package function.
LEMMA OwnFunctionFacts ==
    ASSUME NEW name
    PROVE  OwnFunction(name) \in PackageFunctions
BY DEF OwnFunction, PackageFunctions, Get, Range

\* A sub-package with its overrides is what it would be alone.
LEMMA SubPackageFacts ==
    ASSUME world \in Worlds, run \in 1..MaxRuns, Makes(run), Alike(pkgbuild, Top(run)),
           pkgbuild.suffix \in {"", Suffix(world.format, Top(run))}, NEW name
    PROVE  /\ Suits(world.format, SubPackage(name), Own(name, Target))
           /\ Alike(SubPackage(name), Top(run)) /\ SubPackage(name).pkgName = name
           /\ Suffix(world.format, Own(name, Target)) = Suffix(world.format, Top(run))
<1> DEFINE top == Top(run)
           function == OwnFunction(name)
           own == Own(name, Target)
           sub1 == SubPackage(name)
           r == Restored(name)
<1>1. DOMAIN top = Keys /\ top.suffix = "" /\ pkgbuild.functions = top.functions
  BY TopFacts DEF Alike
<1>2. Alike(r, top) /\ r.pkgName = name /\ r.suffix = pkgbuild.suffix /\ Agree(r, top)
  BY RestoredFacts
<1>3. own = IF function \in DOMAIN top.functions THEN ParseSplitOverrides(top, top.functions[function]) ELSE top
  BY DEF Own, Top, Makes, Target
<1>4. sub1 = IF function \in DOMAIN top.functions THEN ParseSplitOverrides(r, top.functions[function]) ELSE r
  BY <1>1 DEF SubPackage
<1>5. Kept(sub1, r) /\ Kept(own, top) /\ Agree(sub1, own)
  <2>1. CASE function \notin DOMAIN top.functions
    <3>1. sub1 = r /\ own = top
      BY <1>3, <1>4, <2>1
    <3> HIDE DEF sub1, own, r, top
    <3> QED
      BY <1>1, <1>2, <3>1 DEF Kept, Alike
  <2>2. CASE function \in DOMAIN top.functions
    <3> DEFINE body == top.functions[function]
    <3>1. Body(body)
      BY <1>1, <2>2, FunctionFacts, OwnFunctionFacts
    <3>2. sub1 = ParseSplitOverrides(r, body) /\ own = ParseSplitOverrides(top, body)
      BY <1>3, <1>4, <2>2
    <3> HIDE DEF sub1, own, r, top, body
    <3>3. DOMAIN r = Keys
      BY <1>2 DEF Alike
    <3>4. body \in Seq(Range(body)) /\ \A m \in DOMAIN body : body[m].kind # "function"
      BY <3>1 DEF Body
    <3>5. Kept(ParseSplitOverrides(r, body), r)
      BY <3>3, <3>4, OverridesKeep
    <3>6. Kept(ParseSplitOverrides(top, body), top)
      BY <1>1, <3>4, OverridesKeep
    <3>7. Agree(ParseSplitOverrides(r, body), ParseSplitOverrides(top, body))
      BY <1>2, <3>4, OverridesAgree
    <3> QED
      BY <3>2, <3>5, <3>6, <3>7
  <2> QED
    BY <2>1, <2>2
<1> HIDE DEF sub1, own, r, top
<1>6. Alike(sub1, own) /\ Alike(sub1, top) /\ sub1.pkgName = name /\ sub1.suffix = pkgbuild.suffix
  BY <1>2, <1>5 DEF Kept, Alike
<1>7. DOMAIN own = Keys /\ own.suffix = "" /\ SameOverrides(sub1, own)
  BY <1>1, <1>5 DEF Kept, Alike, Agree
<1>8. Suffix(world.format, own) = Suffix(world.format, top)
  <2> DEFINE format == world.format
  <2>1. WellFormed(own) /\ WellFormed(top) /\ own.distro = top.distro /\ own.suffix = top.suffix
    BY <1>1, <1>5, <1>7 DEF WellFormed, Kept, Alike
  <2> HIDE DEF format
  <2>2. Suffix(format, own) = Suffix(format, top)
    BY <2>1, SameSuffix
  <2> QED
    BY <2>2 DEF format
<1>9. Suits(world.format, sub1, own)
  BY <1>6, <1>7, <1>8 DEF Suits, top
<1> QED
  BY <1>6, <1>8, <1>9 DEF sub1, own, top

\* And so is a package that is the only one.
LEMMA SinglePackageFacts ==
    ASSUME world \in Worlds, run \in 1..MaxRuns, ~Makes(run), Alike(pkgbuild, Top(run)),
           SameOverrides(pkgbuild, Top(run)), pkgbuild.suffix \in {"", Suffix(world.format, Top(run))},
           NEW name
    PROVE  Suits(world.format, pkgbuild, Own(name, Target))
<1>1. Own(name, Target) = Top(run)
  BY DEF Own, Top, Makes, Target
<1> QED
  BY <1>1, TopFacts DEF Suits
--------------------------------------------------------------------------------
(* The steps. *)

\* What is written over the files of a package is the package's too.
LEMMA WrittenOwned ==
    ASSUME NEW p, NEW body, NEW files, NEW old, NEW name, Bears(p, name), Owned(old, name)
    PROVE  Owned(Written(p, body, files, old), name)
BY DEF Owned, Written, Bears

\* Another payload in a directory, of the package of that directory.
LEMMA PayloadSet ==
    ASSUME DirInv, world' = world, NEW dir, NEW payload, Owned(payload, DirOwner(dir)),
           dirs' = Set(dirs, dir, payload)
    PROVE  DirInv'
<1>1. \A x : DirOwner(x)' = DirOwner(x)
  BY DEF DirOwner, Makes, Name, Top
<1>2. \A x \in DOMAIN dirs' : Owned(dirs'[x], DirOwner(x))
  BY DEF DirInv, Set
<1> QED
  BY Zenon, <1>1, <1>2 DEF DirInv

\* One directory less.
LEMMA PayloadTaken ==
    ASSUME DirInv, world' = world, NEW some, dirs' = dirs \/ dirs' = Restrict(dirs, DOMAIN dirs \ some)
    PROVE  DirInv'
<1>1. \A x : DirOwner(x)' = DirOwner(x)
  BY DEF DirOwner, Makes, Name, Top
<1>2. \A x \in DOMAIN dirs' : Owned(dirs'[x], DirOwner(x))
  BY DEF DirInv, Restrict
<1> QED
  BY Zenon, <1>1, <1>2 DEF DirInv

\* An artifact that is the package's own.
OwnArtifact(file, a, format, own) ==
    /\ a.metadata.name = file[1]
    /\ a.metadata.suffix = FormatRelease(format, own).suffix
    /\ a.metadata.scriptlets = AddScriptlets(own)
    /\ a.metadata.strings = Fields(own.strings, OverrideStrings, "")
    /\ a.metadata.arrays = WithForm(format, Fields(own.arrays, OverrideArrays, <<>>))
    /\ \A f \in DOMAIN a.payload : a.payload[f].of = a.metadata.name

\* What ArtifactsAreOwn says of one, in a world.
OwnIn(w, name, target) ==
    LET top == ParseFile(w.distro, target, w.file)
        own == OwnFunction(name)
    IN  IF IsSplitPackage(top) /\ own \in DOMAIN top.functions
        THEN ParseSplitOverrides(top, top.functions[own]) ELSE top

IsOwn(w, file, a) == OwnArtifact(file, a, w.format, OwnIn(w, a.metadata.name, w.targets[a.run]))

\* The invariant in these words.
LEMMA ArtifactsAreOwnIs ==
    ArtifactsAreOwn <=> \A file \in DOMAIN output : IsOwn(world, file, output[file])
BY Zenon DEF ArtifactsAreOwn, IsOwn, OwnArtifact, Own, OwnIn

\* What is made well for a package is an artifact of its own.
LEMMA MadeIsOwn ==
    ASSUME NEW made, NEW p, NEW name, p.pkgName = name,
           MadeWell(made, world.format, p, Own(name, Target)), NEW signed
    PROVE  IsOwn(world, made.file, Artifact(made, signed))
<1> DEFINE a == Artifact(made, signed)
           own == Own(name, Target)
<1>1. a.metadata = made.metadata /\ a.payload = made.payload /\ a.run = run
  BY DEF Artifact
<1>2. a.metadata.name = name
  BY <1>1 DEF MadeWell, MetadataIsOwn
<1>3. OwnIn(world, a.metadata.name, world.targets[a.run]) = own
  BY <1>1, <1>2 DEF Target, Own, OwnIn
<1> HIDE DEF own, a
<1>4. MadeWell(made, world.format, p, own)
  BY DEF own
<1>5. OwnArtifact(made.file, a, world.format, own)
  BY <1>1, <1>2, <1>4 DEF MadeWell, MetadataIsOwn, Suffix, Owned, OwnArtifact, Overridable
<1>6. IsOwn(world, made.file, a)
  BY Zenon, <1>3, <1>5 DEF IsOwn
<1> QED
  BY <1>6 DEF a

\* One more of them.
LEMMA ArtifactSet ==
    ASSUME ArtifactsAreOwn, world' = world, NEW file, NEW a, IsOwn(world, file, a), output' = Set(output, file, a)
    PROVE  ArtifactsAreOwn'
<1>1. (\A x \in DOMAIN output : IsOwn(world, x, output[x]))'
  BY ArtifactsAreOwnIs DEF Set
<1>2. ArtifactsAreOwn' <=> (\A x \in DOMAIN output : IsOwn(world, x, output[x]))'
  BY Zenon DEF ArtifactsAreOwn, IsOwn, OwnArtifact, Own, OwnIn
<1> QED
  BY <1>1, <1>2

\* None more.
LEMMA ArtifactsStay ==
    ASSUME ArtifactsAreOwn, world' = world, output' = output
    PROVE  ArtifactsAreOwn'
<1>1. (\A x \in DOMAIN output : IsOwn(world, x, output[x]))'
  BY ArtifactsAreOwnIs
<1>2. ArtifactsAreOwn' <=> (\A x \in DOMAIN output : IsOwn(world, x, output[x]))'
  BY Zenon DEF ArtifactsAreOwn, IsOwn, OwnArtifact, Own, OwnIn
<1> QED
  BY <1>1, <1>2

\* A PKGBUILD that fits takes the place of another.
LEMMA PkgSet ==
    ASSUME world' = world, run' = run, phase' \in Stages => Fits(pkgbuild')
    PROVE  PkgInv'
<1>1. Top(run)' = Top(run) /\ Makes(run)' = Makes(run) /\ Name' = Name
  BY DEF Top, Makes, Name
<1> QED
  BY <1>1 DEF PkgInv, Fits

\* A script leaves files of its package.
LEMMA ScriptOwned ==
    ASSUME world \in Worlds, run \in 1..MaxRuns, DirInv, world' = world,
           NEW p, Alike(p, Top(run)), ~Makes(run) => p.pkgName = Name, NEW body, NEW files,
           dirs' = Set(dirs, SetPackageDir(p, p.pkgName),
                       Written(p, body, files, Get(dirs, SetPackageDir(p, p.pkgName), <<>>)))
    PROVE  DirInv'
<1> DEFINE dir == SetPackageDir(p, p.pkgName)
           old == Get(dirs, dir, <<>>)
           name == p.pkgName
<1>1. DirOwner(dir) = name
  BY DirIsOwn
<1> HIDE DEF dir
<1>2. Owned(old, name)
  BY <1>1 DEF DirInv, Get, Owned
<1>3. Bears(p, name)
  BY DEF Bears
<1> DEFINE payload == Written(p, body, files, old)
<1>4. Owned(payload, name)
  <2> HIDE DEF old, name
  <2> QED
    BY <1>2, <1>3, WrittenOwned
<1>5. dirs' = Set(dirs, dir, payload)
  BY DEF dir
<1>6. Owned(payload, DirOwner(dir))
  BY <1>1, <1>4
<1> HIDE DEF payload
<1> QED
  BY <1>5, <1>6, PayloadSet

\* The package that is made of a directory.
LEMMA MakeFacts ==
    ASSUME world \in Worlds, run \in 1..MaxRuns, DirInv,
           NEW p, Alike(p, Top(run)), ~Makes(run) => p.pkgName = Name,
           Suits(world.format, p, Own(p.pkgName, Target))
    PROVE  MadeWell(Make(p, SetPackageDir(p, p.pkgName)), world.format, p, Own(p.pkgName, Target))
<1> DEFINE dir == SetPackageDir(p, p.pkgName)
           payload == Get(dirs, dir, <<>>)
           format == world.format
           own == Own(p.pkgName, Target)
           target == Target
<1>1. DirOwner(dir) = p.pkgName
  BY DirIsOwn
<1>2. Owned(payload, p.pkgName)
  <2> HIDE DEF dir
  <2> QED
    BY <1>1 DEF DirInv, Get, Owned
<1>3. format \in {"deb", "rpm", "apk", "pacman"}
  BY Zenon, PackagingAssumption
<1>4. Suits(format, p, own)
  OBVIOUS
<1>5. Make(p, dir) = BuildPackage(format, target, PrepareFakeroot(format, p, target, payload))
  BY Zenon DEF Make
<1> HIDE DEF dir, payload, format, own, target
<1>6. MadeWell(BuildPackage(format, target, PrepareFakeroot(format, p, target, payload)), format, p, own)
  BY <1>2, <1>3, <1>4, BuildIsOwn
<1>7. MadeWell(Make(p, dir), format, p, own)
  BY Zenon, <1>5, <1>6
<1> QED
  BY <1>7 DEF dir, format, own

\* What is parsed fits.
LEMMA PopulateFits ==
    ASSUME world \in Worlds, run \in 1..MaxRuns
    PROVE  Fits(ComputeArchitecture(ParseFile(world.distro, Target, world.file)))
<1> DEFINE top == Top(run)
           q == ComputeArchitecture(top)
<1>1. DOMAIN top = Keys /\ top.suffix = ""
  BY TopFacts
<1>2. top.pkgName = Name
  BY RunsAgree
<1>3. PICK arch : q = [top EXCEPT !.archComputed = arch]
  BY DEF ComputeArchitecture
<1>4. ParseFile(world.distro, Target, world.file) = top
  BY Zenon DEF Top, Target
<1> HIDE DEF q, top
<1>5. /\ DOMAIN q = Keys /\ q.distro = top.distro /\ q.targetArch = top.targetArch
      /\ q.functions = top.functions /\ q.pkgNames = top.pkgNames /\ q.topLevelSnap = top.topLevelSnap
      /\ q.pkgName = top.pkgName /\ q.suffix = top.suffix
      /\ q.strings = top.strings /\ q.arrays = top.arrays /\ q.priorities = top.priorities
  BY <1>1, <1>3 DEF Keys
<1>6. Alike(q, top) /\ SameOverrides(q, top) /\ q.suffix = ""
  BY <1>1, <1>5 DEF Alike, SameOverrides, SnapshotSplitOverrides
<1>7. Fits(q)
  BY <1>2, <1>5, <1>6 DEF Fits, top
<1> QED
  BY Zenon, <1>4, <1>7 DEF q

\* A package function runs: the script writes into its directory.
LEMMA ScriptStep ==
    ASSUME world \in Worlds, run \in 1..MaxRuns, DirInv, world' = world,
           NEW p, Alike(p, Top(run)), ~Makes(run) => p.pkgName = Name, NEW body,
           \E files : dirs' = Set(dirs, SetPackageDir(p, p.pkgName),
                                  Written(p, body, files, Get(dirs, SetPackageDir(p, p.pkgName), <<>>)))
    PROVE  DirInv'
<1>1. PICK files : dirs' = Set(dirs, SetPackageDir(p, p.pkgName),
                               Written(p, body, files, Get(dirs, SetPackageDir(p, p.pkgName), <<>>)))
  OBVIOUS
<1> QED
  BY <1>1, ScriptOwned

\* The single package's.
LEMMA CompileSingleStep ==
    ASSUME IInv, CompileSinglePackage
    PROVE  IInv'
<1>1. /\ world \in Worlds /\ run \in 1..MaxRuns /\ DirInv /\ ArtifactsAreOwn /\ phase = "package"
      /\ world' = world /\ run' = run /\ pkgbuild' = pkgbuild /\ output' = output
  BY DEF IInv, CompileSinglePackage
<1>2. Fits(pkgbuild)
  BY <1>1 DEF IInv, PkgInv, Stages
<1>3. \E files : dirs' = Set(dirs, SetPackageDir(pkgbuild, pkgbuild.pkgName),
              Written(pkgbuild, "package", files, Get(dirs, SetPackageDir(pkgbuild, pkgbuild.pkgName), <<>>)))
  BY Zenon DEF CompileSinglePackage, RunScriptInFakeroot
<1>4. DirInv'
  BY <1>1, <1>2, <1>3, ScriptStep DEF Fits
<1>5. PkgInv'
  BY <1>1, <1>2, PkgSet
<1>6. ArtifactsAreOwn'
  BY <1>1, ArtifactsStay
<1> QED
  BY <1>1, <1>4, <1>5, <1>6 DEF IInv

\* That of a sub-package, whose overrides are those of the function that runs.
LEMMA CompileSplitStep ==
    ASSUME IInv, CompileSplitPackages
    PROVE  IInv'
<1> DEFINE own  == OwnFunction(SubName)
           body == IF own \in DOMAIN pkgbuild.functions THEN own ELSE "package"
           r    == Restored(SubName)
           p    == ParseSplitOverrides(r, pkgbuild.functions[body])
<1>1. /\ world \in Worlds /\ run \in 1..MaxRuns /\ DirInv /\ ArtifactsAreOwn /\ phase = "package"
      /\ world' = world /\ run' = run /\ output' = output /\ IsSplitPackage(pkgbuild)
  BY DEF IInv, CompileSplitPackages
<1>2. Fits(pkgbuild)
  BY <1>1 DEF IInv, PkgInv, Stages
<1>3. Makes(run) /\ Alike(pkgbuild, Top(run)) /\ pkgbuild.suffix \in {"", Suffix(world.format, Top(run))}
  BY <1>1, <1>2 DEF Fits, Alike, Makes, IsSplitPackage
<1>4. ArtifactsAreOwn'
  BY <1>1, ArtifactsStay
<1>5. CASE body \notin DOMAIN pkgbuild.functions
  <2>1. pkgbuild' = pkgbuild /\ dirs' = dirs
    BY Zenon, <1>5 DEF CompileSplitPackages
  <2>2. DirInv'
    BY <1>1, <2>1, PayloadTaken
  <2>3. PkgInv'
    BY <1>1, <1>2, <2>1, PkgSet
  <2> QED
    BY <1>1, <1>4, <2>2, <2>3 DEF IInv
<1>6. CASE body \in DOMAIN pkgbuild.functions
  <2>1. pkgbuild' = p /\ \E files : dirs' = Set(dirs, SetPackageDir(p, p.pkgName),
              Written(p, body, files, Get(dirs, SetPackageDir(p, p.pkgName), <<>>)))
    BY Zenon, <1>6 DEF CompileSplitPackages, RunScriptInFakeroot, Restored
  <2>2. Body(pkgbuild.functions[body])
    <3>1. body \in PackageFunctions
      BY OwnFunctionFacts DEF PackageFunctions
    <3> HIDE DEF body
    <3> QED
      BY <1>1, <1>3, <1>6, <3>1, FunctionFacts
  <2>3. Alike(r, Top(run)) /\ r.suffix = pkgbuild.suffix
    BY <1>1, <1>3, RestoredFacts
  <2>4. Kept(p, r)
    <3> DEFINE b == pkgbuild.functions[body]
    <3>1. b \in Seq(Range(b)) /\ \A m \in DOMAIN b : b[m].kind # "function"
      BY <2>2 DEF Body
    <3>2. DOMAIN r = Keys
      BY <2>3 DEF Alike
    <3> HIDE DEF b, r
    <3>3. Kept(ParseSplitOverrides(r, b), r)
      BY <3>1, <3>2, OverridesKeep
    <3> QED
      BY <3>3 DEF b
  <2> HIDE DEF p, r, body, own
  <2>5. Alike(p, Top(run)) /\ p.suffix = pkgbuild.suffix
    BY <2>3, <2>4 DEF Kept, Alike
  <2>6. DirInv'
    BY <1>1, <1>3, <2>1, <2>5, ScriptStep
  <2>7. Fits(p)
    BY <1>3, <2>5 DEF Fits
  <2>8. PkgInv'
    BY <1>1, <2>1, <2>7, PkgSet
  <2> QED
    BY <1>1, <1>4, <2>6, <2>8 DEF IInv
<1> QED
  BY <1>5, <1>6

\* The single package is made: whatever its PKGBUILD is then, it fits no stage.
LEMMA CreateSingleStep ==
    ASSUME IInv, CreateSinglePackage
    PROVE  IInv'
<1> DEFINE name == pkgbuild.pkgName
           dir  == SetPackageDir(pkgbuild, name)
           made == Make(pkgbuild, dir)
<1>1. /\ world \in Worlds /\ run \in 1..MaxRuns /\ DirInv /\ ArtifactsAreOwn /\ phase = "create"
      /\ world' = world /\ run' = run /\ ~IsSplitPackage(pkgbuild)
      /\ dirs' = Restrict(dirs, DOMAIN dirs \ {dir})
  BY DEF IInv, CreateSinglePackage
<1>2. Fits(pkgbuild)
  BY <1>1 DEF IInv, PkgInv, Stages
<1>3. ~Makes(run)
  BY <1>1, <1>2 DEF Fits, Alike, Makes, IsSplitPackage
<1>4. Suits(world.format, pkgbuild, Own(name, Target))
  BY <1>1, <1>2, <1>3, SinglePackageFacts DEF Fits
<1>5. MadeWell(made, world.format, pkgbuild, Own(name, Target))
  BY <1>1, <1>2, <1>4, MakeFacts DEF Fits
<1>6. phase' \notin Stages
  BY DEF CreateSinglePackage, RunPostBuildHooks, Fail, Stages
<1>7. PICK signed : output' = Set(output, made.file, Artifact(made, signed))
  BY Zenon DEF CreateSinglePackage, RunPostBuildHooks
<1>8. IsOwn(world, made.file, Artifact(made, signed))
  <2> HIDE DEF made
  <2> QED
    BY <1>5, MadeIsOwn
<1> DEFINE file == made.file
           a == Artifact(made, signed)
<1>9. ArtifactsAreOwn'
  <2>1. IsOwn(world, file, a) /\ output' = Set(output, file, a)
    BY Zenon, <1>7, <1>8
  <2> HIDE DEF file, a
  <2> QED
    BY <1>1, <2>1, ArtifactSet
<1>10. DirInv'
  BY <1>1, PayloadTaken
<1>11. PkgInv'
  BY <1>6 DEF PkgInv
<1> QED
  BY <1>1, <1>9, <1>10, <1>11 DEF IInv

\* A sub-package is made, after the overrides of its own function.
LEMMA CreateSplitStep ==
    ASSUME IInv, CreateSplitPackages
    PROVE  IInv'
<1> DEFINE p    == SubPackage(SubName)
           dir  == SetPackageDir(p, SubName)
           made == Make(p, dir)
           own  == Own(SubName, Target)
<1>1. /\ world \in Worlds /\ run \in 1..MaxRuns /\ DirInv /\ ArtifactsAreOwn /\ phase = "create"
      /\ world' = world /\ run' = run /\ IsSplitPackage(pkgbuild)
  BY DEF IInv, CreateSplitPackages
<1>2. Fits(pkgbuild)
  BY <1>1 DEF IInv, PkgInv, Stages
<1>3. Makes(run) /\ Alike(pkgbuild, Top(run)) /\ pkgbuild.suffix \in {"", Suffix(world.format, Top(run))}
  BY <1>1, <1>2 DEF Fits, Alike, Makes, IsSplitPackage
<1>4. /\ Suits(world.format, p, own) /\ Alike(p, Top(run)) /\ p.pkgName = SubName
      /\ Suffix(world.format, own) = Suffix(world.format, Top(run))
  BY <1>1, <1>3, SubPackageFacts
<1>5. CASE DirFails(dir)
  <2>1. dirs' = dirs /\ output' = output /\ phase' = "failed"
    BY Zenon, <1>5 DEF CreateSplitPackages, SubPackage, Restored, Fail
  <2>2. DirInv'
    BY <1>1, <2>1, PayloadTaken
  <2>3. ArtifactsAreOwn'
    BY <1>1, <2>1, ArtifactsStay
  <2>4. PkgInv'
    BY <2>1 DEF PkgInv, Stages
  <2> QED
    BY <1>1, <2>2, <2>3, <2>4 DEF IInv
<1>6. CASE ~DirFails(dir)
  <2>1. /\ pkgbuild' = made.pkgbuild
        /\ dirs' = dirs \/ dirs' = Restrict(dirs, DOMAIN dirs \ {dir})
        /\ \E signed : output' = Set(output, made.file, Artifact(made, signed))
    <3>1. /\ pkgbuild' = made.pkgbuild
          /\ RunPostBuildHooks(made, NextSub("install"))
          /\ dirs' = IF phase' = "failed" /\ world.format # "deb" THEN dirs
                     ELSE Restrict(dirs, DOMAIN dirs \ {dir})
      BY Zenon, <1>6 DEF CreateSplitPackages, SubPackage, Restored
    <3> HIDE DEF made, dir
    <3>2. \E signed : output' = Set(output, made.file, Artifact(made, signed))
      BY Zenon, <3>1 DEF RunPostBuildHooks
    <3> QED
      BY <3>1, <3>2
  <2>2. MadeWell(made, world.format, p, own)
    <3> HIDE DEF p
    <3> QED
      BY <1>1, <1>3, <1>4, MakeFacts
  <2> HIDE DEF p, dir, made, own
  <2>3. PICK signed : output' = Set(output, made.file, Artifact(made, signed))
    BY <2>1
  <2>4. IsOwn(world, made.file, Artifact(made, signed))
    <3>1. MadeWell(made, world.format, p, Own(SubName, Target))
      BY <2>2 DEF own
    <3> QED
      BY <1>4, <3>1, MadeIsOwn
  <2>5. ArtifactsAreOwn'
    <3> DEFINE file == made.file
               a == Artifact(made, signed)
    <3>1. IsOwn(world, file, a) /\ output' = Set(output, file, a)
      BY Zenon, <2>3, <2>4
    <3> HIDE DEF file, a
    <3> QED
      BY <1>1, <3>1, ArtifactSet
  <2>6. DirInv'
    BY <1>1, <2>1, PayloadTaken
  <2>7. Fits(made.pkgbuild)
    BY <1>3, <1>4, <2>2 DEF Fits, MadeWell, Alike
  <2>8. PkgInv'
    BY <1>1, <2>1, <2>7, PkgSet
  <2> QED
    BY <1>1, <2>5, <2>6, <2>8 DEF IInv
<1> QED
  BY <1>5, <1>6

\* A stage passes, or fails, and the dependencies are synchronised.
LEMMA OtherStep ==
    ASSUME IInv, world' = world, run' = run, dirs' = dirs, output' = output, pkgbuild' = pkgbuild,
           phase' \in Stages => phase \in Stages
    PROVE  IInv'
<1>1. world \in Worlds /\ run \in 1..MaxRuns /\ DirInv /\ ArtifactsAreOwn
  BY DEF IInv
<1>2. DirInv'
  BY <1>1, PayloadTaken
<1>3. ArtifactsAreOwn'
  BY <1>1, ArtifactsStay
<1>4. PkgInv'
  BY PkgSet DEF IInv, PkgInv
<1> QED
  BY <1>1, <1>2, <1>3, <1>4 DEF IInv

\* The PKGBUILD is parsed.
LEMMA PopulateStep ==
    ASSUME IInv, PopulateProjects
    PROVE  IInv'
<1>1. /\ world \in Worlds /\ run \in 1..MaxRuns /\ DirInv /\ ArtifactsAreOwn
      /\ world' = world /\ run' = run /\ dirs' = dirs /\ output' = output
      /\ pkgbuild' = ComputeArchitecture(ParseFile(world.distro, Target, world.file))
  BY Zenon DEF IInv, PopulateProjects
<1>2. Fits(ComputeArchitecture(ParseFile(world.distro, Target, world.file)))
  BY <1>1, PopulateFits
<1>3. Fits(pkgbuild')
  BY Zenon, <1>1, <1>2
<1>4. PkgInv'
  BY <1>1, <1>3, PkgSet
<1>5. DirInv'
  BY <1>1, PayloadTaken
<1>6. ArtifactsAreOwn'
  BY <1>1, ArtifactsStay
<1> QED
  BY <1>1, <1>4, <1>5, <1>6 DEF IInv

\* Another run begins with what the last has left.
LEMMA RunAgainStep ==
    ASSUME IInv, RunAgain
    PROVE  IInv'
<1>1. /\ world \in Worlds /\ run \in 1..MaxRuns /\ DirInv /\ ArtifactsAreOwn
      /\ world' = world /\ run' = run + 1 /\ run < MaxRuns /\ dirs' = dirs /\ output' = output
      /\ phase' = "parse"
  BY DEF IInv, RunAgain
<1>2. run' \in 1..MaxRuns
  BY <1>1, PackagingAssumption
<1>3. PkgInv'
  BY <1>1 DEF PkgInv, Stages
<1>4. DirInv'
  BY <1>1, PayloadTaken
<1>5. ArtifactsAreOwn'
  BY <1>1, ArtifactsStay
<1> QED
  BY <1>1, <1>2, <1>3, <1>4, <1>5 DEF IInv

\* Every step keeps the invariant.
LEMMA StepKeepsInvariant ==
    ASSUME IInv, [Next]_vars
    PROVE  IInv'
<1>1. CASE PopulateProjects
  BY <1>1, PopulateStep
<1>2. CASE SyncDependencies
  BY <1>2, OtherStep DEF SyncDependencies, Stages
<1>3. ASSUME NEW stage \in Stages, NEW next, ProcessFunction(stage, next) PROVE IInv'
  BY <1>3, OtherStep DEF ProcessFunction, Fail, Stages
<1>4. CASE CompileSinglePackage
  BY <1>4, CompileSingleStep
<1>5. CASE CompileSplitPackages
  BY <1>5, CompileSplitStep
<1>6. CASE CreateSinglePackage
  BY <1>6, CreateSingleStep
<1>7. CASE CreateSplitPackages
  BY <1>7, CreateSplitStep
<1>8. CASE InstallPackage
  BY <1>8, OtherStep DEF InstallPackage, Fail, Stages
<1>9. CASE RunAgain
  BY <1>9, RunAgainStep
<1>10. CASE UNCHANGED vars
  BY <1>10, OtherStep DEF vars
<1> QED
  BY <1>1, <1>2, <1>3, <1>4, <1>5, <1>6, <1>7, <1>8, <1>9, <1>10 DEF Next, Stages

\* Initially nothing is parsed, installed or made.
LEMMA BeginsInvariant == Init => IInv
<1> SUFFICES ASSUME Init PROVE IInv
  OBVIOUS
<1>1. world \in Worlds /\ run = 1 /\ phase = "parse" /\ dirs = <<>> /\ output = <<>>
  BY DEF Init
<1>2. run \in 1..MaxRuns
  BY <1>1, PackagingAssumption
<1>3. PkgInv
  BY <1>1 DEF PkgInv, Stages
<1>4. DirInv
  BY <1>1 DEF DirInv
<1>5. ArtifactsAreOwn
  BY <1>1, ArtifactsAreOwnIs
<1> QED
  BY <1>1, <1>2, <1>3, <1>4, <1>5 DEF IInv

\* The PKGBUILD in memory is that of the file, and directories and artifacts are the packages' own.
THEOREM Invariance == Spec => []IInv
<1>1. Init => IInv
  BY BeginsInvariant
<1>2. IInv /\ [Next]_vars => IInv'
  BY StepKeepsInvariant
<1> QED
  BY <1>1, <1>2, PTL DEF Spec

\* Whatever was packaged before it, an artifact has what its own function sets over
\* the file, its release and dependencies rewritten once, and files of its own.
THEOREM OwnArtifacts == Spec => []ArtifactsAreOwn
<1>1. IInv => ArtifactsAreOwn
  BY DEF IInv
<1> QED
  BY <1>1, Invariance, PTL
--------------------------------------------------------------------------------
(* Which variants a file's statements leave. *)

\* A statement that is not passed over for its suffixes.
Counts(p, s) == ~DirectiveFails(s) /\ ParseDirective(p, s) # Skip

\* Ranks are small integers.
LEMMA DirectiveIsInt ==
    ASSUME NEW p, NEW s
    PROVE  ParseDirective(p, s) \in -1..7
<1>1. ASSUME NEW x PROVE GetDistributionPriority(p, x) \in -1..3
  <2> DEFINE a == p.distro
             b == <<p.distro[1], "">>
             c == <<Get(PackageManagerOf, p.distro[1], "?"), "">>
             rank == CASE x = a -> 3
                       [] x # a /\ x = b -> 2
                       [] x # a /\ x # b /\ x = c -> 1
                       [] OTHER -> -1
  <2>1. GetDistributionPriority(p, x) = rank
    BY Zenon DEF GetDistributionPriority, Skip
  <2> HIDE DEF a, b, c
  <2>2. CASE x = a
    BY <2>2, rank = 3, <2>1
  <2>3. CASE x # a /\ x = b
    BY <2>3, rank = 2, <2>1
  <2>4. CASE x # a /\ x # b /\ x = c
    BY <2>4, rank = 1, <2>1
  <2>5. CASE x # a /\ x # b /\ x # c
    BY <2>5, rank = -1, <2>1
  <2> QED
    BY <2>2, <2>3, <2>4, <2>5
<1>2. ParseCombinedArchDistro(p, s) \in -1..7
  <2>1. GetDistributionPriority(p, s.distros[1]) \in -1..3
    BY <1>1
  <2> QED
    BY <2>1 DEF ParseCombinedArchDistro, Skip
<1>3. ParseArchitectureOnly(p, s) \in -1..7
  BY DEF ParseArchitectureOnly, Skip
<1>4. ParseDistributionOnly(p, s) \in -1..7
  <2>1. GetDistributionPriority(p, s.distros[1]) \in -1..3
    BY <1>1
  <2> QED
    BY <2>1 DEF ParseDistributionOnly, Base
<1> QED
  BY <1>2, <1>3, <1>4 DEF ParseDirective

\* What is got of a function after it was set somewhere.
LEMMA GetSet ==
    ASSUME NEW f, NEW x, NEW v, NEW y, NEW zero
    PROVE  Get(Set(f, x, v), y, zero) = IF y = x THEN v ELSE Get(f, y, zero)
BY DEF Get, Set

\* A statement that is no function, in the words of Mapped.
LEMMA VariableIs ==
    ASSUME NEW p, NEW s, s.kind # "function"
    PROVE  AddItem(p, s) = IF Passed(p, s) THEN p ELSE Mapped(p, s)
<1>1. MapFunctions(Mapped(p, s), s) = Mapped(p, s)
  BY Zenon DEF MapFunctions
<1> QED
  BY <1>1, AddItemIs

\* A function changes the functions and the ranks.
LEMMA FunctionIs ==
    ASSUME NEW p, DOMAIN p = Keys, NEW s, s.kind = "function", Get(p.priorities, s.name, 0) \in Int
    PROVE  LET q     == AddItem(p, s)
               rank  == ParseDirective(p, s)
               old   == Get(p.priorities, s.name, 0)
           IN  /\ DOMAIN q = Keys
               /\ \A k \in Keys : k \notin {"priorities", "functions"} => q[k] = p[k]
               /\ q.priorities = IF Counts(p, s) /\ rank > old THEN Set(p.priorities, s.name, rank)
                                 ELSE p.priorities
               /\ q.functions = IF Counts(p, s) /\ rank >= old THEN Set(p.functions, s.name, s.value)
                                ELSE p.functions
<1> DEFINE rank == ParseDirective(p, s)
           old  == Get(p.priorities, s.name, 0)
           r    == Specified(p, s)
<1>1. rank \in Int /\ old \in Int
  BY DirectiveIsInt
<1>2. Mapped(p, s) = r
  <2>1. MapVariables(r, s) = r
    BY DEF MapVariables
  <2>2. MapArrays(r, s, rank) = r
    BY DEF MapArrays
  <2> QED
    BY Zenon, <2>1, <2>2 DEF Mapped
<1>3. /\ DOMAIN r = Keys
      /\ \A k \in Keys : k # "priorities" => r[k] = p[k]
      /\ r.priorities = IF rank > old THEN Set(p.priorities, s.name, rank) ELSE p.priorities
  BY RankedKeeps
<1>4. AddItem(p, s) = IF Passed(p, s) THEN p
                      ELSE IF rank >= old THEN [r EXCEPT !.functions = Set(r.functions, s.name, s.value)] ELSE r
  <2>1. MapFunctions(r, s) = [r EXCEPT !.functions = Set(r.functions, s.name, s.value)]
    BY DEF MapFunctions
  <2> HIDE DEF r
  <2> QED
    BY <1>2, <2>1, AddItemIs
<1>5. Passed(p, s) <=> ~Counts(p, s) \/ (rank < old /\ rank # Base)
  BY DEF Passed, Counts
<1> HIDE DEF rank, old, r
<1>6. CASE Passed(p, s)
  <2>1. AddItem(p, s) = p
    BY <1>4, <1>6
  <2>2. ~(Counts(p, s) /\ rank > old) /\ ~(Counts(p, s) /\ rank >= old)
    BY <1>1, <1>5, <1>6
  <2> QED
    BY <2>1, <2>2 DEF rank, old
<1>7. CASE ~Passed(p, s) /\ rank >= old
  <2>1. AddItem(p, s) = [r EXCEPT !.functions = Set(r.functions, s.name, s.value)]
    BY <1>4, <1>7
  <2>2. Counts(p, s) /\ r.functions = p.functions
    BY <1>3, <1>5, <1>7 DEF Keys
  <2>3. /\ DOMAIN AddItem(p, s) = Keys
        /\ \A k \in Keys : k # "functions" => AddItem(p, s)[k] = r[k]
        /\ AddItem(p, s).functions = Set(p.functions, s.name, s.value)
    BY <1>3, <2>1, <2>2 DEF Keys
  <2>4. /\ \A k \in Keys : k \notin {"priorities", "functions"} => AddItem(p, s)[k] = p[k]
        /\ AddItem(p, s).priorities = IF rank > old THEN Set(p.priorities, s.name, rank) ELSE p.priorities
    BY <1>3, <2>3 DEF Keys
  <2> QED
    BY <1>7, <2>2, <2>3, <2>4 DEF rank, old
<1>8. CASE ~Passed(p, s) /\ ~(rank >= old)
  <2>1. AddItem(p, s) = r
    BY <1>4, <1>8
  <2>2. ~(rank > old)
    BY <1>1, <1>8
  <2>3. r.priorities = p.priorities /\ r.functions = p.functions
    BY <1>3, <2>2 DEF Keys
  <2>4. /\ DOMAIN AddItem(p, s) = Keys
        /\ \A k \in Keys : k \notin {"priorities", "functions"} => AddItem(p, s)[k] = p[k]
        /\ AddItem(p, s).priorities = p.priorities /\ AddItem(p, s).functions = p.functions
    BY <1>3, <2>1, <2>3
  <2> QED
    BY <1>8, <2>2, <2>4 DEF rank, old
<1> QED
  BY <1>6, <1>7, <1>8

\* Ranks are integers, 0 for none.
WellRanked(p) == \A x : Get(p.priorities, x, 0) \in Int

\* A statement changes no rank, or that of its name.
LEMMA RanksAre ==
    ASSUME NEW p, DOMAIN p = Keys, NEW s
    PROVE  LET q == AddItem(p, s) IN
           /\ DOMAIN q = Keys
           /\ q.priorities \in {p.priorities, Set(p.priorities, s.name, ParseDirective(p, s))}
           /\ WellRanked(p) => WellRanked(q)
           /\ \A x : x # s.name => Get(q.priorities, x, 0) = Get(p.priorities, x, 0)
<1> DEFINE m == Mapped(p, s)
           q == AddItem(p, s)
           rank == ParseDirective(p, s)
<1>1. DOMAIN m = Keys /\ m.priorities \in {p.priorities, Set(p.priorities, s.name, rank)}
  BY MappedIs
<1>2. q \in {p, m, [m EXCEPT !.functions = Set(m.functions, s.name, s.value)]}
  BY AddItemIs DEF MapFunctions
<1> HIDE DEF m, q
<1>3. DOMAIN q = Keys /\ q.priorities \in {p.priorities, Set(p.priorities, s.name, rank)}
  BY <1>1, <1>2 DEF Keys
<1>4. rank \in Int
  BY DirectiveIsInt
<1> HIDE DEF rank
<1>5. \A x : Get(Set(p.priorities, s.name, rank), x, 0) = IF x = s.name THEN rank ELSE Get(p.priorities, x, 0)
  BY GetSet
<1>6. \A x : Get(q.priorities, x, 0) = Get(p.priorities, x, 0) \/ (x = s.name /\ Get(q.priorities, x, 0) = rank)
  BY <1>3, <1>5
<1>7. WellRanked(p) => WellRanked(q)
  BY <1>4, <1>6 DEF WellRanked
<1> QED
  BY <1>3, <1>6, <1>7 DEF q, rank

\* The statements for the function of a name among the first ones of a file.
Declared(p, file, name, n) ==
    {m \in 1..n : file[m].kind = "function" /\ file[m].name = name /\ Counts(p, file[m])}

\* The last of the most specific of some statements.
Wins(p, file, C, b) ==
    \A m \in C : \/ ParseDirective(p, file[m]) < ParseDirective(p, file[b])
                 \/ ParseDirective(p, file[m]) = ParseDirective(p, file[b]) /\ m <= b

\* What is stored for a name, and its rank, are those of one that wins.
Stored(q, p, file, name, C) ==
    /\ C = {} => Get(q.priorities, name, 0) = 0
    /\ C # {} => \E b \in C : /\ Wins(p, file, C, b)
                              /\ Get(q.priorities, name, 0) = ParseDirective(p, file[b])
                              /\ name \in DOMAIN q.functions /\ q.functions[name] = file[b].value

\* A PKGBUILD that differs in functions and ranks only.
SameVariables(q, p) ==
    DOMAIN q = Keys /\ \A k \in Keys : k \notin {"priorities", "functions"} => q[k] = p[k]

\* One more function, in terms of what it is and of what was stored.
LEMMA StoredNext ==
    ASSUME NEW p, NEW file, NEW n \in Nat, NEW C, C \subseteq 1..n, NEW name,
           \A m \in C : Counts(p, file[m]),
           NEW q, Stored(q, p, file, name, C), Counts(p, file[n + 1]),
           NEW r,
           r.priorities = IF ParseDirective(p, file[n + 1]) > Get(q.priorities, name, 0)
                          THEN Set(q.priorities, name, ParseDirective(p, file[n + 1])) ELSE q.priorities,
           r.functions = IF ParseDirective(p, file[n + 1]) >= Get(q.priorities, name, 0)
                         THEN Set(q.functions, name, file[n + 1].value) ELSE q.functions
    PROVE  Stored(r, p, file, name, C \cup {n + 1})
<1> DEFINE rank(m) == ParseDirective(p, file[m])
           old     == Get(q.priorities, name, 0)
           D       == C \cup {n + 1}
<1>1. \A m : rank(m) \in Int /\ (Counts(p, file[m]) => rank(m) >= 0)
  <2>1. \A m : ParseDirective(p, file[m]) \in -1..7
    BY DirectiveIsInt
  <2> QED
    BY <2>1 DEF Counts, Skip
<1>2. r.priorities = IF rank(n + 1) > old THEN Set(q.priorities, name, rank(n + 1)) ELSE q.priorities
  OBVIOUS
<1>3. r.functions = IF rank(n + 1) >= old THEN Set(q.functions, name, file[n + 1].value) ELSE q.functions
  OBVIOUS
<1>4. /\ C = {} => old = 0
      /\ C # {} => \E b \in C : /\ \A m \in C : (rank(m) < rank(b) \/ (rank(m) = rank(b) /\ m <= b))
                                /\ old = rank(b)
                                /\ name \in DOMAIN q.functions /\ q.functions[name] = file[b].value
  BY DEF Stored, Wins
<1>5. ASSUME NEW b \in D,
             \A m \in D : (rank(m) < rank(b) \/ (rank(m) = rank(b) /\ m <= b)),
             Get(r.priorities, name, 0) = rank(b),
             name \in DOMAIN r.functions, r.functions[name] = file[b].value
      PROVE  Stored(r, p, file, name, D)
  BY <1>5 DEF Stored, Wins
<1>6. rank(n + 1) \in Int /\ old \in Int /\ rank(n + 1) >= 0
  BY <1>1, <1>4
<1>7. \A m \in C : m \in Int /\ m <= n
  <2>1. \A m \in C : m \in 1..n
    BY Zenon
  <2>2. \A m \in 1..n : m \in Int /\ m <= n
    OBVIOUS
  <2> QED
    BY Zenon, <2>1, <2>2
<1>8. \A v : Get(Set(q.priorities, name, v), name, 0) = v
  BY GetSet
<1>9. \A v : name \in DOMAIN Set(q.functions, name, v) /\ Set(q.functions, name, v)[name] = v
  BY DEF Set
<1> HIDE DEF rank, old
<1>10. CASE rank(n + 1) >= old
  <2>1. Get(r.priorities, name, 0) = rank(n + 1)
    <3>1. CASE rank(n + 1) > old
      BY <1>2, <1>8, <3>1
    <3>2. CASE ~(rank(n + 1) > old)
      <4>1. rank(n + 1) = old
        BY <1>6, <1>10, <3>2
      <4> QED
        BY <1>2, <3>2, <4>1 DEF old
    <3> QED
      BY <3>1, <3>2
  <2>2. name \in DOMAIN r.functions /\ r.functions[name] = file[n + 1].value
    BY <1>3, <1>9, <1>10
  <2>3. \A m \in C : rank(m) <= old
    BY <1>1, <1>4
  <2>4. \A m \in D : (rank(m) < rank(n + 1) \/ (rank(m) = rank(n + 1) /\ m <= n + 1))
    BY <1>1, <1>6, <1>7, <1>10, <2>3
  <2> QED
    BY <1>5, <2>1, <2>2, <2>4
<1>11. CASE ~(rank(n + 1) >= old)
  <2>1. C # {}
    BY <1>4, <1>6, <1>11
  <2>2. PICK b \in C : /\ \A m \in C : (rank(m) < rank(b) \/ (rank(m) = rank(b) /\ m <= b))
                       /\ old = rank(b)
                       /\ name \in DOMAIN q.functions /\ q.functions[name] = file[b].value
    BY <1>4, <2>1
  <2>3. r.priorities = q.priorities /\ r.functions = q.functions
    BY <1>2, <1>3, <1>6, <1>11
  <2>4. \A m \in D : (rank(m) < rank(b) \/ (rank(m) = rank(b) /\ m <= b))
    BY <1>6, <1>11, <2>2
  <2> QED
    BY <1>5, <2>2, <2>3, <2>4 DEF old
<1> QED
  BY <1>10, <1>11

\* One more statement of the pass over the functions.
LEMMA FunctionPassStep ==
    ASSUME NEW p, DOMAIN p = Keys, NEW q, SameVariables(q, p), WellRanked(q),
           NEW file, NEW n \in Nat, file[n + 1].kind = "function",
           NEW name, Stored(q, p, file, name, Declared(p, file, name, n))
    PROVE  LET r == AddItem(q, file[n + 1]) IN
           SameVariables(r, p) /\ WellRanked(r) /\ Stored(r, p, file, name, Declared(p, file, name, n + 1))
<1> DEFINE s == file[n + 1]
           r == AddItem(q, s)
           C == Declared(p, file, name, n)
           D == Declared(p, file, name, n + 1)
           rank == ParseDirective(p, s)
           old == Get(q.priorities, s.name, 0)
<1>1. D = IF s.name = name /\ Counts(p, s) THEN C \cup {n + 1} ELSE C
  <2>1. 1..(n + 1) = (1..n) \cup {n + 1}
    OBVIOUS
  <2> QED
    BY <2>1 DEF Declared
<1>2. C \subseteq 1..n /\ \A m \in C : Counts(p, file[m])
  BY DEF Declared
<1>3. ParseDirective(q, s) = rank /\ (Counts(q, s) <=> Counts(p, s))
  <2>1. q.distro = p.distro /\ q.targetArch = p.targetArch
    BY DEF SameVariables, Keys
  <2>2. ParseDirective(q, s) = ParseDirective(p, s)
    BY <2>1, DirectiveIsSame
  <2> QED
    BY <2>2 DEF Counts
<1>4. /\ DOMAIN r = Keys
      /\ \A k \in Keys : k \notin {"priorities", "functions"} => r[k] = q[k]
      /\ r.priorities = IF Counts(p, s) /\ rank > old THEN Set(q.priorities, s.name, rank) ELSE q.priorities
      /\ r.functions = IF Counts(p, s) /\ rank >= old THEN Set(q.functions, s.name, s.value) ELSE q.functions
  <2>1. DOMAIN q = Keys /\ old \in Int
    BY DEF SameVariables, WellRanked
  <2> HIDE DEF s
  <2>2. s.kind = "function"
    BY DEF s
  <2> QED
    BY <1>3, <2>1, <2>2, FunctionIs
<1>5. SameVariables(r, p)
  BY <1>4 DEF SameVariables
<1>6. WellRanked(r) /\ \A x : x # s.name => Get(r.priorities, x, 0) = Get(q.priorities, x, 0)
  <2>1. DOMAIN q = Keys
    BY DEF SameVariables
  <2> HIDE DEF s
  <2> QED
    BY <2>1, RanksAre
<1> HIDE DEF r, s
<1>7. CASE s.name = name /\ Counts(p, s)
  <2>1. D = C \cup {n + 1}
    BY <1>1, <1>7
  <2>2. /\ r.priorities = IF rank > Get(q.priorities, name, 0) THEN Set(q.priorities, name, rank) ELSE q.priorities
        /\ r.functions = IF rank >= Get(q.priorities, name, 0) THEN Set(q.functions, name, s.value) ELSE q.functions
    BY <1>4, <1>7
  <2> HIDE DEF C, D
  <2>3. Stored(r, p, file, name, C \cup {n + 1})
    BY <1>2, <1>7, <2>2, StoredNext DEF s, C
  <2> QED
    BY <1>5, <1>6, <2>1, <2>3 DEF r, s, D
<1>8. CASE ~Counts(p, s)
  <2>1. D = C
    BY <1>1, <1>8
  <2>2. r.priorities = q.priorities /\ r.functions = q.functions
    BY <1>4, <1>8
  <2>3. Stored(r, p, file, name, C)
    BY <2>2 DEF Stored
  <2> QED
    BY <1>5, <1>6, <2>1, <2>3 DEF r, s
<1>9. CASE s.name # name
  <2>1. D = C
    BY <1>1, <1>9
  <2>2. Get(r.priorities, name, 0) = Get(q.priorities, name, 0)
    BY <1>6, <1>9
  <2>3. name \in DOMAIN q.functions => name \in DOMAIN r.functions /\ r.functions[name] = q.functions[name]
    <3>1. r.functions \in {q.functions, Set(q.functions, s.name, s.value)}
      BY <1>4
    <3> QED
      BY <1>9, <3>1 DEF Set
  <2>4. Stored(r, p, file, name, C)
    BY <2>2, <2>3 DEF Stored
  <2> QED
    BY <1>5, <1>6, <2>1, <2>4 DEF r, s
<1> QED
  BY <1>7, <1>8, <1>9

\* The pass over the functions stores what wins.
LEMMA FunctionPass ==
    ASSUME NEW file, file \in Seq(Range(file)), NEW p, DOMAIN p = Keys, WellRanked(p),
           NEW name, Get(p.priorities, name, 0) = 0
    PROVE  LET q == AddItems(p, file, {n \in DOMAIN file : file[n].kind = "function"}) IN
           SameVariables(q, p) /\ Stored(q, p, file, name, Declared(p, file, name, Len(file)))
<1> DEFINE chosen == {n \in DOMAIN file : file[n].kind = "function"}
           N == Len(file)
<1>1. N \in Nat /\ DOMAIN file = 1..N
  BY SequenceFacts
<1>2. \A n \in 1..N : n \in chosen <=> file[n].kind = "function"
  BY <1>1
<1> HIDE DEF chosen
<1>3. PICK f : Trace(f, p, file, chosen) /\ AddItems(p, file, chosen) = f[N]
  BY <1>1, AddItemsTrace
<1> DEFINE Good(n) == /\ SameVariables(f[n], p) /\ WellRanked(f[n])
                      /\ Stored(f[n], p, file, name, Declared(p, file, name, n))
           T == {n \in 0..N : Good(n)}
<1>4. 0 \in T
  <2>1. f[0] = p
    BY <1>3 DEF Trace
  <2>2. Declared(p, file, name, 0) = {}
    BY DEF Declared
  <2>3. Stored(p, p, file, name, {})
    BY DEF Stored
  <2>4. SameVariables(p, p)
    BY DEF SameVariables
  <2>5. Good(0)
    BY Zenon, <2>1, <2>2, <2>3, <2>4
  <2> HIDE DEF Good
  <2> QED
    BY <1>1, <2>5
<1>5. ASSUME NEW n \in 0..N, n < N, n \in T PROVE n + 1 \in T
  <2>1. n + 1 \in 0..N /\ n + 1 \in 1..N /\ n \in Nat
    BY <1>1, <1>5
  <2>2. f[n + 1] = IF n + 1 \in chosen THEN AddItem(f[n], file[n + 1]) ELSE f[n]
    BY <1>3, <1>5 DEF Trace
  <2>3. Good(n)
    BY <1>5
  <2>4. CASE n + 1 \in chosen
    <3>1. file[n + 1].kind = "function"
      BY <1>2, <2>1, <2>4
    <3>2. LET r == AddItem(f[n], file[n + 1]) IN
          SameVariables(r, p) /\ WellRanked(r) /\ Stored(r, p, file, name, Declared(p, file, name, n + 1))
      BY <2>1, <2>3, <3>1, FunctionPassStep
    <3>3. Good(n + 1)
      BY <2>2, <2>4, <3>2
    <3> QED
      BY <2>1, <3>3
  <2>5. CASE n + 1 \notin chosen
    <3>1. file[n + 1].kind # "function" /\ 1..(n + 1) = (1..n) \cup {n + 1}
      BY <1>2, <2>1, <2>5
    <3>2. Declared(p, file, name, n + 1) = Declared(p, file, name, n)
      BY <3>1 DEF Declared
    <3>3. Good(n + 1)
      BY <2>2, <2>3, <2>5, <3>2
    <3> QED
      BY <2>1, <3>3
  <2> QED
    BY <2>4, <2>5
<1>6. 0..N \subseteq T
  <2> HIDE DEF T
  <2> QED
    BY <1>1, <1>4, <1>5, UpTo
<1>7. Good(N)
  BY <1>1, <1>6
<1> QED
  BY <1>3, <1>7 DEF chosen

\* No variable has the name of a stage.
NoStageVariables(file) ==
    \A n \in DOMAIN file : file[n].name \in StageFunctions => file[n].kind = "function"

\* The pass over the variables ranks no stage.
LEMMA VariablePass ==
    ASSUME NEW file, file \in Seq(Range(file)), NoStageVariables(file), NEW distro, NEW targetArch
    PROVE  LET q == AddItems(New(distro, targetArch), file,
                             DOMAIN file \ {n \in DOMAIN file : file[n].kind = "function"})
           IN  DOMAIN q = Keys /\ WellRanked(q) /\ \A name \in StageFunctions : Get(q.priorities, name, 0) = 0
<1> DEFINE chosen == DOMAIN file \ {n \in DOMAIN file : file[n].kind = "function"}
           N == Len(file)
           p == New(distro, targetArch)
<1>1. N \in Nat /\ DOMAIN file = 1..N
  BY SequenceFacts
<1>2. \A n \in chosen : file[n].name \notin StageFunctions
  BY DEF NoStageVariables
<1> HIDE DEF chosen
<1>3. DOMAIN p = Keys /\ p.priorities = <<>>
  BY DEF New, Keys
<1> HIDE DEF p
<1>4. PICK f : Trace(f, p, file, chosen) /\ AddItems(p, file, chosen) = f[N]
  BY <1>1, AddItemsTrace
<1> DEFINE Good(n) == /\ DOMAIN f[n] = Keys /\ WellRanked(f[n])
                      /\ \A name \in StageFunctions : Get(f[n].priorities, name, 0) = 0
           T == {n \in 0..N : Good(n)}
<1>5. 0 \in T
  <2>1. f[0] = p
    BY <1>4 DEF Trace
  <2>2. \A x : Get(p.priorities, x, 0) = 0
    BY <1>3 DEF Get
  <2> QED
    BY <1>1, <1>3, <2>1, <2>2 DEF WellRanked
<1>6. ASSUME NEW n \in 0..N, n < N, n \in T PROVE n + 1 \in T
  <2>1. n + 1 \in 0..N
    BY <1>1, <1>6
  <2>2. f[n + 1] = IF n + 1 \in chosen THEN AddItem(f[n], file[n + 1]) ELSE f[n]
    BY <1>4, <1>6 DEF Trace
  <2>3. Good(n)
    BY <1>6
  <2>4. CASE n + 1 \in chosen
    <3>1. LET r == AddItem(f[n], file[n + 1]) IN
          /\ DOMAIN r = Keys
          /\ WellRanked(f[n]) => WellRanked(r)
          /\ \A x : x # file[n + 1].name => Get(r.priorities, x, 0) = Get(f[n].priorities, x, 0)
      BY <2>3, RanksAre
    <3>2. Good(n + 1)
      BY <1>2, <2>2, <2>3, <2>4, <3>1
    <3> QED
      BY <2>1, <3>2
  <2>5. CASE n + 1 \notin chosen
    BY <2>1, <2>2, <2>3, <2>5
  <2> QED
    BY <2>4, <2>5
<1>7. 0..N \subseteq T
  <2> HIDE DEF T
  <2> QED
    BY <1>1, <1>5, <1>6, UpTo
<1>8. Good(N)
  BY <1>1, <1>7
<1> QED
  BY <1>4, <1>8 DEF chosen, p
--------------------------------------------------------------------------------
(* Sources and their sums. *)

\* What is known of the sources, and of the sums of a kind.
Src(p)     == <<p.sourceURI, p.archSourceURI, Get(p.priorities, "source", 0)>>
Sums(p, k) == <<p.hashSums, p.archHashSums, Get(p.priorities, k, 0)>>

\* What an array of a rank adds to either.
Added(t, fails, rank, value) ==
    IF fails \/ rank = Skip \/ (rank < t[3] /\ rank # Base) THEN t
    ELSE <<IF rank > Base THEN t[1] ELSE value,
           IF rank > Base THEN t[2] \o value ELSE t[2],
           IF rank > t[3] THEN rank ELSE t[3]>>

\* A variable's effect on them.
LEMMA MappedSources ==
    ASSUME NEW p, DOMAIN p = Keys, NEW s
    PROVE  LET q    == Mapped(p, s)
               rank == ParseDirective(p, s)
           IN  /\ s.name # "target_arch" => q.targetArch = p.targetArch
               /\ s.name # "source" => q.sourceURI = p.sourceURI /\ q.archSourceURI = p.archSourceURI
               /\ s.name \notin Checksums => q.hashSums = p.hashSums /\ q.archHashSums = p.archHashSums
               /\ s.kind = "array" /\ s.name = "source" =>
                     /\ q.sourceURI = IF rank > Base THEN p.sourceURI ELSE s.value
                     /\ q.archSourceURI = IF rank > Base THEN p.archSourceURI \o s.value ELSE p.archSourceURI
               /\ s.kind = "array" /\ s.name \in Checksums =>
                     /\ q.hashSums = IF rank > Base THEN p.hashSums ELSE s.value
                     /\ q.archHashSums = IF rank > Base THEN p.archHashSums \o s.value ELSE p.archHashSums
<1> DEFINE r == Specified(p, s)
           v == MapVariables(r, s)
           rank == ParseDirective(p, s)
           q == MapArrays(v, s, rank)
<1>1. /\ DOMAIN r = Keys /\ r.targetArch = p.targetArch
      /\ r.sourceURI = p.sourceURI /\ r.archSourceURI = p.archSourceURI
      /\ r.hashSums = p.hashSums /\ r.archHashSums = p.archHashSums
  BY RankedKeeps DEF Keys
<1>2. rank \in Int
  BY DirectiveIsInt
<1>3. Mapped(p, s) = q
  BY Zenon DEF Mapped
<1> HIDE DEF r, rank
<1>4. /\ DOMAIN v = Keys
      /\ s.name # "target_arch" => v.targetArch = r.targetArch
      /\ v.sourceURI = r.sourceURI /\ v.archSourceURI = r.archSourceURI
      /\ v.hashSums = r.hashSums /\ v.archHashSums = r.archHashSums
  <2>1. CASE s.kind = "string" /\ s.name = "pkgname"
    BY <1>1, <2>1, v = [r EXCEPT !.pkgName = s.value] DEF MapVariables, Keys
  <2>2. CASE s.kind = "string" /\ s.name = "target_arch"
    BY <1>1, <2>2, v = [r EXCEPT !.targetArch = IF @ = "" THEN s.value ELSE @] DEF MapVariables, Keys
  <2>3. CASE s.kind = "string" /\ s.name \notin {"pkgname", "target_arch"}
    BY <1>1, <2>3, v = [r EXCEPT !.strings = Set(@, s.name, s.value)] DEF MapVariables, Keys
  <2>4. CASE s.kind # "string"
    BY <1>1, <2>4, v = r DEF MapVariables
  <2> QED
    BY <2>1, <2>2, <2>3, <2>4
<1> HIDE DEF v
<1>5. /\ q.targetArch = v.targetArch
      /\ s.name # "source" => q.sourceURI = v.sourceURI /\ q.archSourceURI = v.archSourceURI
      /\ s.name \notin Checksums => q.hashSums = v.hashSums /\ q.archHashSums = v.archHashSums
      /\ s.kind = "array" /\ s.name = "source" =>
            /\ q.sourceURI = IF rank > Base THEN v.sourceURI ELSE s.value
            /\ q.archSourceURI = IF rank > Base THEN v.archSourceURI \o s.value ELSE v.archSourceURI
      /\ s.kind = "array" /\ s.name \in Checksums =>
            /\ q.hashSums = IF rank > Base THEN v.hashSums ELSE s.value
            /\ q.archHashSums = IF rank > Base THEN v.archHashSums \o s.value ELSE v.archHashSums
  <2>1. CASE s.kind # "array"
    BY <2>1, q = v DEF MapArrays
  <2>2. CASE s.kind = "array" /\ s.name \in Checksums
    <3>1. q = IF rank > Base THEN [v EXCEPT !.archHashSums = @ \o s.value] ELSE [v EXCEPT !.hashSums = s.value]
      BY <2>2 DEF MapArrays, MapChecksumsArrays, Checksums
    <3>2. s.name # "source"
      BY <2>2 DEF Checksums
    <3> HIDE DEF q
    <3>3. CASE rank > Base
      BY <1>4, <2>2, <3>1, <3>2, <3>3 DEF Keys
    <3>4. CASE ~(rank > Base)
      BY <1>4, <2>2, <3>1, <3>2, <3>4 DEF Keys
    <3> QED
      BY <3>3, <3>4
  <2>3. CASE s.kind = "array" /\ s.name = "source"
    <3>1. s.name \notin Checksums
      BY <2>3 DEF Checksums
    <3>2. CASE rank > Base
      <4>1. ~(rank <= Base)
        BY <1>2, <3>2 DEF Base
      <4>2. q = [v EXCEPT !.archSourceURI = @ \o s.value]
        BY <2>3, <3>1, <3>2, <4>1 DEF MapArrays
      <4> HIDE DEF q
      <4> QED
        BY <1>4, <2>3, <3>1, <3>2, <4>2 DEF Keys
    <3>3. CASE ~(rank > Base)
      <4>1. rank <= Base
        BY <1>2, <3>3 DEF Base
      <4>2. q = [v EXCEPT !.sourceURI = s.value]
        BY <2>3, <3>1, <3>3, <4>1 DEF MapArrays
      <4> HIDE DEF q
      <4> QED
        BY <1>4, <2>3, <3>1, <3>3, <4>2 DEF Keys
    <3> QED
      BY <3>2, <3>3
  <2>4. CASE s.kind = "array" /\ s.name = "pkgname"
    <3>1. q = [v EXCEPT !.pkgNames = s.value, !.pkgName = IF s.value = <<>> THEN @ ELSE s.value[1]]
      BY <2>4 DEF MapArrays, Checksums
    <3> HIDE DEF q
    <3> QED
      BY <1>4, <2>4, <3>1 DEF Keys, Checksums
  <2>5. CASE s.kind = "array" /\ s.name = "options"
    <3>1. q = [v EXCEPT !.arrays = Set(@, "options", s.value), !.flags = ProcessOptions(s.value)]
      BY <2>5 DEF MapArrays, Checksums
    <3> HIDE DEF q
    <3> QED
      BY <1>4, <2>5, <3>1 DEF Keys, Checksums
  <2>6. CASE s.kind = "array" /\ s.name \notin Checksums \cup {"source", "pkgname", "options"}
    <3>1. q = [v EXCEPT !.arrays = Set(@, s.name, s.value)]
      BY <2>6 DEF MapArrays
    <3> HIDE DEF q
    <3> QED
      BY <1>4, <2>6, <3>1 DEF Keys
  <2> QED
    BY <2>1, <2>2, <2>3, <2>4, <2>5, <2>6
<1> HIDE DEF q
<1> QED
  BY <1>1, <1>3, <1>4, <1>5 DEF rank

\* A statement of the pass over the variables adds to the sources, to the sums, or
\* to neither.
LEMMA SourcesAdded ==
    ASSUME NEW p, DOMAIN p = Keys, NEW s, s.kind # "function", s.name # "target_arch", NEW k \in Checksums
    PROVE  LET q     == AddItem(p, s)
               rank  == ParseDirective(p, s)
           IN  /\ DOMAIN q = Keys /\ q.distro = p.distro /\ q.targetArch = p.targetArch
               /\ s.name # "source" => Src(q) = Src(p)
               /\ s.name \notin Checksums => Sums(q, k) = Sums(p, k)
               /\ s.kind = "array" /\ s.name = "source" => Src(q) = Added(Src(p), DirectiveFails(s), rank, s.value)
               /\ s.kind = "array" /\ s.name = k => Sums(q, k) = Added(Sums(p, k), DirectiveFails(s), rank, s.value)
<1> DEFINE rank == ParseDirective(p, s)
           m == Mapped(p, s)
           q == AddItem(p, s)
<1>1. q = IF Passed(p, s) THEN p ELSE m
  BY VariableIs
<1>2. Passed(p, s) <=> DirectiveFails(s) \/ rank = Skip \/ (rank < Get(p.priorities, s.name, 0) /\ rank # Base)
  BY DEF Passed
<1>3. /\ DOMAIN m = Keys /\ m.distro = p.distro
      /\ m.priorities = IF rank > Get(p.priorities, s.name, 0) THEN Set(p.priorities, s.name, rank) ELSE p.priorities
  BY MappedIs
<1>4. /\ m.targetArch = p.targetArch
      /\ s.name # "source" => m.sourceURI = p.sourceURI /\ m.archSourceURI = p.archSourceURI
      /\ s.name \notin Checksums => m.hashSums = p.hashSums /\ m.archHashSums = p.archHashSums
      /\ s.kind = "array" /\ s.name = "source" =>
            /\ m.sourceURI = IF rank > Base THEN p.sourceURI ELSE s.value
            /\ m.archSourceURI = IF rank > Base THEN p.archSourceURI \o s.value ELSE p.archSourceURI
      /\ s.kind = "array" /\ s.name \in Checksums =>
            /\ m.hashSums = IF rank > Base THEN p.hashSums ELSE s.value
            /\ m.archHashSums = IF rank > Base THEN p.archHashSums \o s.value ELSE p.archHashSums
  BY MappedSources
<1> HIDE DEF rank, m, q
<1>5. \A x : Get(m.priorities, x, 0) =
                IF x = s.name /\ rank > Get(p.priorities, s.name, 0) THEN rank ELSE Get(p.priorities, x, 0)
  <2>1. \A x : Get(Set(p.priorities, s.name, rank), x, 0) = IF x = s.name THEN rank ELSE Get(p.priorities, x, 0)
    BY GetSet
  <2> QED
    BY <1>3, <2>1
<1>6. DOMAIN q = Keys /\ q.distro = p.distro /\ q.targetArch = p.targetArch
  BY <1>1, <1>3, <1>4
<1>7. s.name # "source" => Src(q) = Src(p)
  BY <1>1, <1>4, <1>5 DEF Src
<1>8. s.name \notin Checksums => Sums(q, k) = Sums(p, k)
  BY <1>1, <1>4, <1>5 DEF Sums
<1>9. s.kind = "array" /\ s.name = "source" => Src(q) = Added(Src(p), DirectiveFails(s), rank, s.value)
  <2> SUFFICES ASSUME s.kind = "array", s.name = "source"
               PROVE  Src(q) = Added(Src(p), DirectiveFails(s), rank, s.value)
    OBVIOUS
  <2>1. Src(p)[1] = p.sourceURI /\ Src(p)[2] = p.archSourceURI /\ Src(p)[3] = Get(p.priorities, s.name, 0)
    BY DEF Src
  <2>2. CASE Passed(p, s)
    BY <1>1, <1>2, <2>1, <2>2 DEF Added
  <2>3. CASE ~Passed(p, s)
    <3>1. Src(q) = <<m.sourceURI, m.archSourceURI, Get(m.priorities, s.name, 0)>>
      BY <1>1, <2>3 DEF Src
    <3>2. Added(Src(p), DirectiveFails(s), rank, s.value) =
             <<IF rank > Base THEN p.sourceURI ELSE s.value,
               IF rank > Base THEN p.archSourceURI \o s.value ELSE p.archSourceURI,
               IF rank > Get(p.priorities, s.name, 0) THEN rank ELSE Get(p.priorities, s.name, 0)>>
      BY <1>2, <2>1, <2>3 DEF Added
    <3> QED
      BY <1>4, <1>5, <3>1, <3>2
  <2> QED
    BY <2>2, <2>3
<1>10. s.kind = "array" /\ s.name = k => Sums(q, k) = Added(Sums(p, k), DirectiveFails(s), rank, s.value)
  <2> SUFFICES ASSUME s.kind = "array", s.name = k
               PROVE  Sums(q, k) = Added(Sums(p, k), DirectiveFails(s), rank, s.value)
    OBVIOUS
  <2>1. Sums(p, k)[1] = p.hashSums /\ Sums(p, k)[2] = p.archHashSums /\ Sums(p, k)[3] = Get(p.priorities, s.name, 0)
    BY DEF Sums
  <2>2. CASE Passed(p, s)
    BY <1>1, <1>2, <2>1, <2>2 DEF Added
  <2>3. CASE ~Passed(p, s)
    <3>1. Sums(q, k) = <<m.hashSums, m.archHashSums, Get(m.priorities, s.name, 0)>>
      BY <1>1, <2>3 DEF Sums
    <3>2. Added(Sums(p, k), DirectiveFails(s), rank, s.value) =
             <<IF rank > Base THEN p.hashSums ELSE s.value,
               IF rank > Base THEN p.archHashSums \o s.value ELSE p.archHashSums,
               IF rank > Get(p.priorities, s.name, 0) THEN rank ELSE Get(p.priorities, s.name, 0)>>
      BY <1>2, <2>1, <2>3 DEF Added
    <3> QED
      BY <1>4, <1>5, <3>1, <3>2
  <2> QED
    BY <2>2, <2>3
<1> QED
  BY <1>6, <1>7, <1>8, <1>9, <1>10 DEF rank, q

\* A rank depends on a statement's suffixes only.
LEMMA SuffixesRank ==
    ASSUME NEW p, NEW s, NEW t, s.arch = t.arch, s.distros = t.distros
    PROVE  ParseDirective(p, s) = ParseDirective(p, t) /\ (DirectiveFails(s) <=> DirectiveFails(t))
<1>1. ParseCombinedArchDistro(p, s) = ParseCombinedArchDistro(p, t)
  BY Zenon DEF ParseCombinedArchDistro
<1>2. ParseArchitectureOnly(p, s) = ParseArchitectureOnly(p, t)
  BY Zenon DEF ParseArchitectureOnly
<1>3. ParseDistributionOnly(p, s) = ParseDistributionOnly(p, t)
  BY Zenon DEF ParseDistributionOnly
<1> QED
  BY Zenon, <1>1, <1>2, <1>3 DEF ParseDirective, DirectiveFails

\* Ranks of the members of a set of positions grow by one.
LEMMA RankFacts ==
    ASSUME NEW N \in Nat, NEW S, S \subseteq 1..N
    PROVE  /\ Rank(S, 1) = 0
           /\ \A n \in 1..N : /\ Rank(S, n) \in Nat
                              /\ Rank(S, n + 1) = IF n \in S THEN Rank(S, n) + 1 ELSE Rank(S, n)
           /\ Rank(S, N + 1) = Cardinality(S)
<1>0. \A m \in S : m \in Int /\ 1 <= m /\ m <= N
  <2>1. \A m \in S : m \in 1..N
    BY Zenon
  <2>2. \A m \in 1..N : m \in Int /\ 1 <= m /\ m <= N
    OBVIOUS
  <2> QED
    BY Zenon, <2>1, <2>2
<1>1. \A n \in 1..(N + 1) : IsFiniteSet({m \in S : m < n})
  <2> SUFFICES ASSUME NEW n \in 1..(N + 1) PROVE IsFiniteSet({m \in S : m < n})
    OBVIOUS
  <2>1. IsFiniteSet(1..N)
    BY FS_Interval
  <2>2. {m \in S : m < n} \in SUBSET (1..N)
    OBVIOUS
  <2> QED
    BY <2>1, <2>2, FS_Subset
<1>2. Rank(S, 1) = 0
  <2>0. \A m \in S : ~(m < 1)
    BY <1>0
  <2>1. {m \in S : m < 1} = {}
    BY Zenon, <2>0
  <2> QED
    BY <2>1, FS_EmptySet DEF Rank
<1>3. Rank(S, N + 1) = Cardinality(S)
  <2>0. \A m \in S : m < N + 1
    BY <1>0
  <2>1. {m \in S : m < N + 1} = S
    BY Zenon, <2>0
  <2> QED
    BY <2>1 DEF Rank
<1>4. ASSUME NEW n \in 1..N
      PROVE  Rank(S, n) \in Nat /\ Rank(S, n + 1) = IF n \in S THEN Rank(S, n) + 1 ELSE Rank(S, n)
  <2> DEFINE before == {m \in S : m < n}
             after  == {m \in S : m < n + 1}
  <2>1. IsFiniteSet(before)
    BY <1>1
  <2>0. \A m \in S : (m < n + 1 <=> m < n \/ m = n) /\ ~(n < n)
    BY <1>0
  <2>2. n \notin before /\ after = IF n \in S THEN before \cup {n} ELSE before
    <3>1. CASE n \in S
      <4>1. after = before \cup {n} /\ n \notin before
        BY Zenon, <2>0, <3>1
      <4> QED
        BY Zenon, <3>1, <4>1
    <3>2. CASE n \notin S
      <4>1. after = before /\ n \notin before
        BY Zenon, <2>0, <3>2
      <4> QED
        BY Zenon, <3>2, <4>1
    <3> QED
      BY Zenon, <3>1, <3>2
  <2>3. Rank(S, n) = Cardinality(before) /\ Rank(S, n + 1) = Cardinality(after)
    BY DEF Rank
  <2> HIDE DEF before, after
  <2>4. Cardinality(before) \in Nat /\ Cardinality(before \cup {n}) = Cardinality(before) + 1
    BY <2>1, <2>2, FS_CardinalityType, FS_AddElement
  <2> QED
    BY <2>2, <2>3, <2>4
<1> QED
  BY <1>2, <1>3, <1>4

\* Where the sources and the sums of a file stand.
SourcesOf(file) == {n \in DOMAIN file : file[n].name = "source"}
SumsOf(file)    == {n \in DOMAIN file : file[n].name \in Checksums}

\* InOneOrder in these words.
LEMMA OneOrderIs ==
    ASSUME NEW file, InOneOrder(file)
    PROVE  /\ \A n \in DOMAIN file : file[n].name # "target_arch"
           /\ \A n \in SourcesOf(file) : file[n].kind = "array"
           /\ \A n \in SumsOf(file) : file[n].kind = "array"
           /\ \A m, n \in SumsOf(file) : file[m].name = file[n].name
           /\ Cardinality(SourcesOf(file)) = Cardinality(SumsOf(file))
           /\ \A m \in SourcesOf(file), n \in SumsOf(file) : Rank(SourcesOf(file), m) = Rank(SumsOf(file), n) =>
                 file[m].arch = file[n].arch /\ file[m].distros = file[n].distros /\ file[m].value = file[n].value
BY Zenon DEF InOneOrder, SourcesOf, SumsOf

\* What each statement of the pass over the variables does to sources and sums.
LEMMA VariableStep ==
    ASSUME NEW file, file \in Seq(Range(file)), InOneOrder(file),
           NEW k \in Checksums, \A n \in SumsOf(file) : file[n].name = k,
           NEW p, DOMAIN p = Keys,
           NEW f, Trace(f, p, file, DOMAIN file \ {n \in DOMAIN file : file[n].kind = "function"}),
           NEW n \in 1..Len(file),
           DOMAIN f[n - 1] = Keys, f[n - 1].distro = p.distro, f[n - 1].targetArch = p.targetArch
    PROVE  /\ DOMAIN f[n] = Keys /\ f[n].distro = p.distro /\ f[n].targetArch = p.targetArch
           /\ n \notin SourcesOf(file) => Src(f[n]) = Src(f[n - 1])
           /\ n \notin SumsOf(file) => Sums(f[n], k) = Sums(f[n - 1], k)
           /\ n \in SourcesOf(file) =>
                 Src(f[n]) = Added(Src(f[n - 1]), DirectiveFails(file[n]), ParseDirective(p, file[n]), file[n].value)
           /\ n \in SumsOf(file) =>
                 Sums(f[n], k) = Added(Sums(f[n - 1], k), DirectiveFails(file[n]), ParseDirective(p, file[n]), file[n].value)
<1> DEFINE chosen == DOMAIN file \ {x \in DOMAIN file : file[x].kind = "function"}
           q == f[n - 1]
           s == file[n]
<1>1. Len(file) \in Nat /\ DOMAIN file = 1..Len(file)
  BY SequenceFacts
<1>2. n - 1 \in 0..Len(file) /\ n - 1 < Len(file) /\ (n - 1) + 1 = n /\ n \in DOMAIN file
  BY <1>1
<1>3. n \in chosen <=> s.kind # "function"
  BY <1>2
<1>4. f[n] = IF n \in chosen THEN AddItem(q, s) ELSE q
  <2> HIDE DEF chosen
  <2>1. \A x \in 0..Len(file) : x < Len(file) =>
           f[x + 1] = IF x + 1 \in chosen THEN AddItem(f[x], file[x + 1]) ELSE f[x]
    BY DEF Trace, chosen
  <2> QED
    BY <1>2, <2>1
<1>5. /\ s.name # "target_arch"
      /\ n \in SourcesOf(file) => s.kind = "array" /\ s.name = "source"
      /\ n \notin SourcesOf(file) => s.name # "source"
      /\ n \in SumsOf(file) => s.kind = "array" /\ s.name = k
      /\ n \notin SumsOf(file) => s.name \notin Checksums
  BY <1>2, OneOrderIs DEF SourcesOf, SumsOf
<1>6. ParseDirective(q, s) = ParseDirective(p, s)
  BY DirectiveIsSame
<1> HIDE DEF chosen, q, s
<1>7. CASE n \in chosen
  <2>1. s.kind # "function"
    BY <1>3, <1>7
  <2>2. DOMAIN q = Keys /\ q.distro = p.distro /\ q.targetArch = p.targetArch
    BY DEF q
  <2> DEFINE r == AddItem(q, s)
             rank == ParseDirective(q, s)
  <2>3. /\ DOMAIN r = Keys /\ r.distro = q.distro /\ r.targetArch = q.targetArch
        /\ s.name # "source" => Src(r) = Src(q)
        /\ s.name \notin Checksums => Sums(r, k) = Sums(q, k)
        /\ s.kind = "array" /\ s.name = "source" => Src(r) = Added(Src(q), DirectiveFails(s), rank, s.value)
        /\ s.kind = "array" /\ s.name = k => Sums(r, k) = Added(Sums(q, k), DirectiveFails(s), rank, s.value)
    BY <1>5, <2>1, <2>2, SourcesAdded
  <2> HIDE DEF r, rank
  <2>4. f[n] = r /\ rank = ParseDirective(p, s)
    BY <1>4, <1>6, <1>7 DEF r, rank
  <2> QED
    BY <1>5, <2>2, <2>3, <2>4 DEF q, s
<1>8. CASE n \notin chosen
  <2>1. s.kind = "function"
    BY <1>3, <1>8
  <2>2. n \notin SourcesOf(file) /\ n \notin SumsOf(file)
    BY <1>5, <2>1
  <2>3. f[n] = q
    BY <1>4, <1>8
  <2> QED
    BY <2>2, <2>3 DEF q
<1> QED
  BY <1>7, <1>8

\* After the pass over the variables sources and sums are the same.
LEMMA SourcesMatch ==
    ASSUME NEW file, file \in Seq(Range(file)), InOneOrder(file), NEW distro, NEW targetArch
    PROVE  LET q == AddItems(New(distro, targetArch), file,
                             DOMAIN file \ {n \in DOMAIN file : file[n].kind = "function"})
           IN  q.sourceURI = q.hashSums /\ q.archSourceURI = q.archHashSums
<1> DEFINE chosen  == DOMAIN file \ {n \in DOMAIN file : file[n].kind = "function"}
           sources == SourcesOf(file)
           sums    == SumsOf(file)
           p       == New(distro, targetArch)
           N       == Len(file)
<1>1. N \in Nat /\ DOMAIN file = 1..N
  BY SequenceFacts
<1>2. PICK k \in Checksums : \A n \in sums : file[n].name = k
  <2>1. CASE sums = {}
    BY <2>1 DEF Checksums
  <2>2. CASE sums # {}
    <3>1. PICK m \in sums : TRUE
      BY <2>2
    <3>2. file[m].name \in Checksums /\ \A n \in sums : file[n].name = file[m].name
      BY <3>1, OneOrderIs DEF SumsOf
    <3> QED
      BY <3>2
  <2> QED
    BY <2>1, <2>2
<1>3. DOMAIN p = Keys /\ Src(p) = <<<<>>, <<>>, 0>> /\ Sums(p, k) = <<<<>>, <<>>, 0>>
  BY DEF New, Keys, Src, Sums, Get
<1> HIDE DEF p
<1>4. PICK f : Trace(f, p, file, chosen) /\ AddItems(p, file, chosen) = f[N]
  BY <1>1, AddItemsTrace
<1>5. f[0] = p
  BY <1>4 DEF Trace
<1> DEFINE Same(n) == DOMAIN f[n] = Keys /\ f[n].distro = p.distro /\ f[n].targetArch = p.targetArch
           rank(n) == ParseDirective(p, file[n])
<1>6. ASSUME NEW n \in 1..N, Same(n - 1)
      PROVE  /\ Same(n)
             /\ n \notin sources => Src(f[n]) = Src(f[n - 1])
             /\ n \notin sums => Sums(f[n], k) = Sums(f[n - 1], k)
             /\ n \in sources => Src(f[n]) = Added(Src(f[n - 1]), DirectiveFails(file[n]), rank(n), file[n].value)
             /\ n \in sums => Sums(f[n], k) = Added(Sums(f[n - 1], k), DirectiveFails(file[n]), rank(n), file[n].value)
  BY <1>2, <1>3, <1>4, <1>6, VariableStep
<1>7. \A n \in 0..N : Same(n)
  <2> DEFINE T == {n \in 0..N : Same(n)}
  <2> HIDE DEF Same
  <2>1. 0 \in T
    BY <1>1, <1>3, <1>5 DEF Same
  <2>2. ASSUME NEW n \in 0..N, n < N, n \in T PROVE n + 1 \in T
    <3>1. n + 1 \in 1..N /\ n + 1 \in 0..N /\ (n + 1) - 1 = n
      BY <1>1, <2>2
    <3>2. Same(n + 1)
      BY <1>6, <2>2, <3>1
    <3> QED
      BY <3>1, <3>2
  <2>3. 0..N \subseteq T
    <3> HIDE DEF T
    <3> QED
      BY <1>1, <2>1, <2>2, UpTo
  <2> QED
    BY <2>3
<1>8. \A n \in 1..N : /\ n \notin sources => Src(f[n]) = Src(f[n - 1])
                      /\ n \notin sums => Sums(f[n], k) = Sums(f[n - 1], k)
                      /\ n \in sources => Src(f[n]) = Added(Src(f[n - 1]), DirectiveFails(file[n]), rank(n), file[n].value)
                      /\ n \in sums => Sums(f[n], k) = Added(Sums(f[n - 1], k), DirectiveFails(file[n]), rank(n), file[n].value)
  <2> SUFFICES ASSUME NEW n \in 1..N
               PROVE  /\ n \notin sources => Src(f[n]) = Src(f[n - 1])
                      /\ n \notin sums => Sums(f[n], k) = Sums(f[n - 1], k)
                      /\ n \in sources => Src(f[n]) = Added(Src(f[n - 1]), DirectiveFails(file[n]), rank(n), file[n].value)
                      /\ n \in sums => Sums(f[n], k) = Added(Sums(f[n - 1], k), DirectiveFails(file[n]), rank(n), file[n].value)
    OBVIOUS
  <2>1. n - 1 \in 0..N
    BY <1>1
  <2> HIDE DEF Same
  <2>2. Same(n - 1)
    BY <1>7, <2>1
  <2> QED
    BY <1>6, <2>2
<1>9. sources \subseteq 1..N /\ sums \subseteq 1..N
  BY <1>1 DEF SourcesOf, SumsOf
<1>10. \A m \in sources, n \in sums : Rank(sources, m) = Rank(sums, n) =>
          rank(m) = rank(n) /\ (DirectiveFails(file[m]) <=> DirectiveFails(file[n])) /\ file[m].value = file[n].value
  BY OneOrderIs, SuffixesRank
<1> DEFINE before(n) == Rank(sources, n + 1)
           behind(n) == Rank(sums, n + 1)
<1>11. /\ before(0) = 0 /\ behind(0) = 0 /\ before(N) = behind(N)
       /\ \A n \in 1..N : /\ before(n - 1) \in Nat /\ behind(n - 1) \in Nat
                          /\ before(n - 1) = Rank(sources, n) /\ behind(n - 1) = Rank(sums, n)
                          /\ before(n) = IF n \in sources THEN before(n - 1) + 1 ELSE before(n - 1)
                          /\ behind(n) = IF n \in sums THEN behind(n - 1) + 1 ELSE behind(n - 1)
  <2>1. Cardinality(sources) = Cardinality(sums)
    BY OneOrderIs
  <2> HIDE DEF sources, sums
  <2>2. /\ Rank(sources, 1) = 0 /\ Rank(sources, N + 1) = Cardinality(sources)
        /\ \A n \in 1..N : /\ Rank(sources, n) \in Nat
                           /\ Rank(sources, n + 1) = IF n \in sources THEN Rank(sources, n) + 1 ELSE Rank(sources, n)
    BY ZenonT(60), <1>1, <1>9, RankFacts
  <2>3. /\ Rank(sums, 1) = 0 /\ Rank(sums, N + 1) = Cardinality(sums)
        /\ \A n \in 1..N : /\ Rank(sums, n) \in Nat
                           /\ Rank(sums, n + 1) = IF n \in sums THEN Rank(sums, n) + 1 ELSE Rank(sums, n)
    BY ZenonT(60), <1>1, <1>9, RankFacts
  <2>4. 0 + 1 = 1 /\ \A n \in 1..N : (n - 1) + 1 = n
    BY <1>1
  <2> QED
    BY <2>1, <2>2, <2>3, <2>4
<1> HIDE DEF before, behind, rank, sources, sums, Same
<1> DEFINE Agrees(n, m) == before(n) = behind(m) => Src(f[n]) = Sums(f[m], k)
           T == {j \in 0..(N + N) : \A n, m \in 0..N : n + m <= j => Agrees(n, m)}
<1>12. 0 \in T
  <2>1. \A n, m \in 0..N : n + m <= 0 => n = 0 /\ m = 0
    BY <1>1
  <2>2. Agrees(0, 0)
    BY <1>3, <1>5
  <2> HIDE DEF Agrees
  <2> QED
    BY <1>1, <2>1, <2>2
<1>13. ASSUME NEW j \in 0..(N + N), j < N + N, j \in T PROVE j + 1 \in T
  <2>1. j + 1 \in 0..(N + N)
    BY <1>1, <1>13
  <2>2. ASSUME NEW n \in 0..N, NEW m \in 0..N, n + m <= j + 1 PROVE Agrees(n, m)
    <3>1. \A x, y \in 0..N : x + y <= j => Agrees(x, y)
      BY <1>13
    <3>2. SUFFICES ASSUME n + m = j + 1, before(n) = behind(m) PROVE Src(f[n]) = Sums(f[m], k)
      BY <1>1, <2>2, <3>1
    <3>3. CASE n # 0 /\ n \notin sources
      <4>1. n \in 1..N /\ n - 1 \in 0..N /\ (n - 1) + m <= j
        BY <1>1, <3>2, <3>3
      <4>2. Agrees(n - 1, m)
        BY <3>1, <4>1
      <4> QED
        BY <1>8, <1>11, <3>2, <3>3, <4>1, <4>2
    <3>4. CASE m # 0 /\ m \notin sums
      <4>1. m \in 1..N /\ m - 1 \in 0..N /\ n + (m - 1) <= j
        BY <1>1, <3>2, <3>4
      <4>2. Agrees(n, m - 1)
        BY <3>1, <4>1
      <4> QED
        BY <1>8, <1>11, <3>2, <3>4, <4>1, <4>2
    <3>5. CASE n \in sources /\ m \in sums
      <4>1. n \in 1..N /\ m \in 1..N /\ n - 1 \in 0..N /\ m - 1 \in 0..N /\ (n - 1) + (m - 1) <= j
        BY <1>1, <1>9, <3>2, <3>5
      <4>2. before(n - 1) = behind(m - 1) /\ Rank(sources, n) = Rank(sums, m)
        BY <1>11, <3>2, <3>5, <4>1
      <4>3. Src(f[n - 1]) = Sums(f[m - 1], k)
        BY <3>1, <4>1, <4>2
      <4>4. rank(n) = rank(m) /\ (DirectiveFails(file[n]) <=> DirectiveFails(file[m])) /\ file[n].value = file[m].value
        BY <1>10, <3>5, <4>2
      <4>5. /\ Src(f[n]) = Added(Src(f[n - 1]), DirectiveFails(file[n]), rank(n), file[n].value)
            /\ Sums(f[m], k) = Added(Sums(f[m - 1], k), DirectiveFails(file[m]), rank(m), file[m].value)
        BY <1>8, <3>5, <4>1
      <4>6. ASSUME NEW t, NEW a, NEW b, a <=> b, NEW c, NEW v PROVE Added(t, a, c, v) = Added(t, b, c, v)
        BY <4>6 DEF Added
      <4> QED
        BY <4>3, <4>4, <4>5, <4>6
    <3>6. CASE n = 0 /\ m \in sums
      <4>1. m \in 1..N /\ behind(m) = behind(m - 1) + 1 /\ behind(m - 1) \in Nat
        BY <1>9, <1>11, <3>6
      <4> QED
        BY <1>11, <3>2, <3>6, <4>1
    <3>7. CASE m = 0 /\ n \in sources
      <4>1. n \in 1..N /\ before(n) = before(n - 1) + 1 /\ before(n - 1) \in Nat
        BY <1>9, <1>11, <3>7
      <4> QED
        BY <1>11, <3>2, <3>7, <4>1
    <3>8. ~(n = 0 /\ m = 0)
      BY <3>2, <1>13
    <3> QED
      BY <3>3, <3>4, <3>5, <3>6, <3>7, <3>8
  <2> HIDE DEF Agrees
  <2> QED
    BY <2>1, <2>2
<1>14. 0..(N + N) \subseteq T
  <2> HIDE DEF T
  <2>1. N + N \in Nat
    BY <1>1
  <2> QED
    BY <1>12, <1>13, <2>1, UpTo
<1>15. Src(f[N]) = Sums(f[N], k)
  <2>1. N \in 0..N /\ N + N \in 0..(N + N) /\ N + N <= N + N
    BY <1>1
  <2> HIDE DEF Agrees
  <2>2. Agrees(N, N)
    BY <1>14, <2>1
  <2> QED
    BY <1>11, <2>2 DEF Agrees
<1>16. f[N].sourceURI = f[N].hashSums /\ f[N].archSourceURI = f[N].archHashSums
  BY <1>15 DEF Src, Sums
<1> QED
  BY <1>4, <1>16 DEF p

--------------------------------------------------------------------------------
(* Variants apply. *)

\* The statements that win, in terms of the PKGBUILD as it is parsed.
StageApplies(p, file, name) ==
    LET C == Declared(p, file, name, Len(file)) IN
    C # {} => \E b \in C : /\ Wins(p, file, C, b)
                           /\ name \in DOMAIN p.functions /\ p.functions[name] = file[b].value

\* Which they are depends on the distribution and the target only.
LEMMA StageAppliesTo ==
    ASSUME NEW p, NEW q, p.distro = q.distro, p.targetArch = q.targetArch, p.functions = q.functions,
           NEW file, NEW name, StageApplies(p, file, name)
    PROVE  StageApplies(q, file, name)
<1>1. \A s : ParseDirective(p, s) = ParseDirective(q, s)
  BY DirectiveIsSame
<1>2. \A s : Counts(p, s) <=> Counts(q, s)
  BY <1>1 DEF Counts
<1>3. Declared(p, file, name, Len(file)) = Declared(q, file, name, Len(file))
  BY <1>2 DEF Declared
<1>4. \A C, b : Wins(p, file, C, b) <=> Wins(q, file, C, b)
  BY <1>1 DEF Wins
<1> QED
  BY <1>3, <1>4 DEF StageApplies

\* A PKGBUILD that was parsed runs, for every stage, the function that wins, and its
\* sources match its sums.
LEMMA ParsedVariants ==
    ASSUME NEW file, file \in Seq(Range(file)), NoStageVariables(file), NEW distro, NEW targetArch
    PROVE  LET p == ComputeArchitecture(ParseFile(distro, targetArch, file)) IN
           /\ \A name \in StageFunctions : StageApplies(p, file, name)
           /\ InOneOrder(file) => p.sourceURI = p.hashSums
<1> DEFINE functions == {n \in DOMAIN file : file[n].kind = "function"}
           variables == DOMAIN file \ functions
           one == AddItems(New(distro, targetArch), file, variables)
           two == AddItems(one, file, functions)
           three == ParseFile(distro, targetArch, file)
           p == ComputeArchitecture(three)
<1>1. DOMAIN one = Keys /\ WellRanked(one) /\ \A name \in StageFunctions : Get(one.priorities, name, 0) = 0
  BY VariablePass
<1>2. InOneOrder(file) => one.sourceURI = one.hashSums /\ one.archSourceURI = one.archHashSums
  BY SourcesMatch
<1>3. three = Finalize(two)
  BY DEF ParseFile
<1> HIDE DEF one
<1>4. \A name \in StageFunctions :
         SameVariables(two, one) /\ Stored(two, one, file, name, Declared(one, file, name, Len(file)))
  BY <1>1, FunctionPass
<1> HIDE DEF two, three
<1>5. /\ DOMAIN two = Keys /\ two.distro = one.distro /\ two.targetArch = one.targetArch
      /\ two.sourceURI = one.sourceURI /\ two.archSourceURI = one.archSourceURI
      /\ two.hashSums = one.hashSums /\ two.archHashSums = one.archHashSums
  BY <1>4 DEF StageFunctions, SameVariables, Keys
<1>6. \A name \in StageFunctions : StageApplies([one EXCEPT !.functions = two.functions], file, name)
  <2> SUFFICES ASSUME NEW name \in StageFunctions
               PROVE  StageApplies([one EXCEPT !.functions = two.functions], file, name)
    OBVIOUS
  <2> DEFINE q == [one EXCEPT !.functions = two.functions]
             C == Declared(one, file, name, Len(file))
  <2>1. q.distro = one.distro /\ q.targetArch = one.targetArch /\ q.functions = two.functions
    BY <1>1 DEF Keys
  <2> HIDE DEF q
  <2>2. \A s : ParseDirective(q, s) = ParseDirective(one, s)
    BY <2>1, DirectiveIsSame
  <2>3. \A s : Counts(q, s) <=> Counts(one, s)
    BY <2>2 DEF Counts
  <2>4. Declared(q, file, name, Len(file)) = C
    BY <2>3 DEF Declared
  <2>5. \A b : Wins(q, file, C, b) <=> Wins(one, file, C, b)
    BY <2>2 DEF Wins
  <2>6. Stored(two, one, file, name, C)
    BY <1>4
  <2> HIDE DEF C
  <2>7. StageApplies(q, file, name)
    BY <2>1, <2>4, <2>5, <2>6 DEF StageApplies, Stored
  <2> QED
    BY <2>7 DEF q
<1>7. /\ DOMAIN three = Keys /\ three.distro = two.distro /\ three.targetArch = two.targetArch
      /\ three.functions = two.functions
      /\ three.sourceURI = two.sourceURI \o two.archSourceURI /\ three.hashSums = two.hashSums \o two.archHashSums
  <2> DEFINE merged == [two EXCEPT !.sourceURI = @ \o two.archSourceURI, !.hashSums = @ \o two.archHashSums,
                                   !.archSourceURI = <<>>, !.archHashSums = <<>>]
  <2>1. three = IF IsSplitPackage(two) THEN [merged EXCEPT !.topLevelSnap = <<SnapshotSplitOverrides(two)>>] ELSE merged
    BY <1>3 DEF Finalize
  <2>2. /\ DOMAIN merged = Keys /\ merged.distro = two.distro /\ merged.targetArch = two.targetArch
        /\ merged.functions = two.functions
        /\ merged.sourceURI = two.sourceURI \o two.archSourceURI /\ merged.hashSums = two.hashSums \o two.archHashSums
    BY <1>5 DEF Keys
  <2> HIDE DEF merged
  <2> QED
    BY <2>1, <2>2 DEF Keys
<1>8. /\ p.distro = three.distro /\ p.targetArch = three.targetArch /\ p.functions = three.functions
      /\ p.sourceURI = three.sourceURI /\ p.hashSums = three.hashSums
  BY <1>7 DEF ComputeArchitecture, Keys
<1> HIDE DEF p
<1>9. \A name \in StageFunctions : StageApplies(p, file, name)
  <2> DEFINE q == [one EXCEPT !.functions = two.functions]
  <2>1. q.distro = p.distro /\ q.targetArch = p.targetArch /\ q.functions = p.functions
    BY <1>1, <1>5, <1>7, <1>8 DEF Keys
  <2>2. \A name \in StageFunctions : StageApplies(q, file, name)
    BY <1>6
  <2> HIDE DEF q
  <2> QED
    BY <2>1, <2>2, StageAppliesTo
<1>10. InOneOrder(file) => p.sourceURI = p.hashSums
  BY <1>2, <1>5, <1>7, <1>8
<1> QED
  BY <1>9, <1>10 DEF p, three

\* Before a package is made the PKGBUILD is as it was parsed.
ParsedInv ==
    /\ world \in Worlds
    /\ phase \in {"sync", "prepare", "build", "check"} =>
          pkgbuild = ComputeArchitecture(ParseFile(world.distro, Target, world.file))

\* The most specific function runs, and sources match their sums, in a PKGBUILD as
\* it was parsed.
LEMMA ParsedApplies ==
    ASSUME ParsedInv
    PROVE  VariantsApply
<1> SUFFICES ASSUME phase \in {"sync", "prepare", "build", "check"}
             PROVE  /\ \A name \in StageFunctions : Applicable(name) # {} =>
                          LET best == {n \in Applicable(name) :
                                          \A m \in Applicable(name) :
                                              PriorityAt(m) < PriorityAt(n)
                                                \/ (PriorityAt(m) = PriorityAt(n) /\ m <= n)}
                          IN  \A n \in best : pkgbuild.functions[name] = world.file[n].value
                    /\ InOneOrder(world.file) => pkgbuild.sourceURI = pkgbuild.hashSums
  BY Zenon DEF VariantsApply
<1> DEFINE file == world.file
           p == pkgbuild
<1>1. file \in Seq(Range(file)) /\ NoStageVariables(file)
  <2>1. world \in Worlds
    BY DEF ParsedInv
  <2> QED
    BY Zenon, <2>1, PackagingAssumption DEF NoStageVariables
<1>2. DOMAIN file = 1..Len(file) /\ Len(file) \in Nat
  BY <1>1, SequenceFacts
<1>3. p = ComputeArchitecture(ParseFile(world.distro, Target, file))
  BY DEF ParsedInv
<1> HIDE DEF file, p
<1>4. /\ \A name \in StageFunctions : StageApplies(p, file, name)
      /\ InOneOrder(file) => p.sourceURI = p.hashSums
  BY <1>1, <1>3, ParsedVariants
<1>5. ASSUME NEW name \in StageFunctions, NEW n \in Applicable(name),
             \A m \in Applicable(name) :
                 PriorityAt(m) < PriorityAt(n) \/ (PriorityAt(m) = PriorityAt(n) /\ m <= n)
      PROVE  pkgbuild.functions[name] = world.file[n].value
  <2> DEFINE C == Declared(p, file, name, Len(file))
  <2>1. Applicable(name) = C
    BY <1>1, <1>2 DEF Applicable, Declared, Counts, NoStageVariables, file, p
  <2>2. PICK b \in C : Wins(p, file, C, b) /\ p.functions[name] = file[b].value
    BY <1>4, <1>5, <2>1 DEF StageApplies
  <2>3. \A m : PriorityAt(m) = ParseDirective(p, file[m]) /\ PriorityAt(m) \in Int
    <3>1. \A m : ParseDirective(p, file[m]) \in -1..7
      BY DirectiveIsInt
    <3> QED
      BY <3>1 DEF PriorityAt, p, file
  <2>4. /\ PriorityAt(b) < PriorityAt(n) \/ (PriorityAt(b) = PriorityAt(n) /\ b <= n)
        /\ PriorityAt(n) < PriorityAt(b) \/ (PriorityAt(n) = PriorityAt(b) /\ n <= b)
    BY <1>5, <2>1, <2>2, <2>3 DEF Wins
  <2>5. b \in Int /\ n \in Int
    BY <1>5, <2>1, <2>2 DEF Declared
  <2>6. b = n
    BY <2>3, <2>4, <2>5
  <2> QED
    BY <2>2, <2>6 DEF p, file
<1> QED
  BY <1>4, <1>5 DEF file, p

\* Where the PKGBUILD is as it was parsed.
Unpackaged == {"sync", "prepare", "build", "check"}

\* It stays so while nothing is packaged.
LEMMA ParsedStays ==
    ASSUME ParsedInv, world' = world,
           phase' \in Unpackaged => phase \in Unpackaged /\ run' = run /\ pkgbuild' = pkgbuild
    PROVE  ParsedInv'
BY DEF ParsedInv, Unpackaged, Target

\* Every step keeps that.
LEMMA StepKeepsParsed ==
    ASSUME ParsedInv, [Next]_vars
    PROVE  ParsedInv'
<1>1. CASE PopulateProjects
  <2>1. /\ world' = world /\ run' = run
        /\ pkgbuild' = ComputeArchitecture(ParseFile(world.distro, Target, world.file))
    BY <1>1 DEF PopulateProjects
  <2> QED
    BY <2>1 DEF ParsedInv, Target
<1>2. CASE SyncDependencies
  BY <1>2, ParsedStays DEF SyncDependencies, Unpackaged
<1>3. ASSUME NEW stage \in Unpackaged, NEW next, ProcessFunction(stage, next) PROVE ParsedInv'
  BY <1>3, ParsedStays DEF ProcessFunction
<1>4. CASE CompileSinglePackage
  <2>1. world' = world /\ phase' \in {"create", "failed"}
    BY <1>4 DEF CompileSinglePackage, RunScriptInFakeroot, Fail
  <2> QED
    BY <2>1, ParsedStays DEF Unpackaged
<1>5. CASE CompileSplitPackages
  <2>1. world' = world /\ phase' \in {"package", "create", "failed"}
    BY <1>5 DEF CompileSplitPackages, RunScriptInFakeroot, NextSub, Fail
  <2> QED
    BY <2>1, ParsedStays DEF Unpackaged
<1>6. CASE CreateSinglePackage
  <2>1. world' = world /\ phase' \in {"install", "failed"}
    BY <1>6 DEF CreateSinglePackage, RunPostBuildHooks, Fail
  <2> QED
    BY <2>1, ParsedStays DEF Unpackaged
<1>7. CASE CreateSplitPackages
  <2>1. world' = world /\ phase' \in {"create", "install", "failed"}
    BY <1>7 DEF CreateSplitPackages, RunPostBuildHooks, NextSub, Fail
  <2> QED
    BY <2>1, ParsedStays DEF Unpackaged
<1>8. CASE InstallPackage
  <2>1. world' = world /\ phase' \in {"done", "failed"}
    BY <1>8 DEF InstallPackage, Fail
  <2> QED
    BY <2>1, ParsedStays DEF Unpackaged
<1>9. CASE RunAgain
  BY <1>9, ParsedStays DEF RunAgain, Unpackaged
<1>10. CASE UNCHANGED vars
  BY <1>10, ParsedStays DEF vars
<1> QED
  BY <1>1, <1>2, <1>3, <1>4, <1>5, <1>6, <1>7, <1>8, <1>9, <1>10 DEF Next, Unpackaged

\* Whenever stages run, the function of each is the last of the most specific ones
\* of the file, and sources have the sums of their variants.
THEOREM VariantsAreApplied == Spec => []VariantsApply
<1>1. Init => ParsedInv
  BY DEF Init, ParsedInv
<1>2. ParsedInv /\ [Next]_vars => ParsedInv'
  BY StepKeepsParsed
<1> QED
  BY <1>1, <1>2, ParsedApplies, PTL DEF Spec
--------------------------------------------------------------------------------
(* What a run that ends well has delivered. *)

\* What the file says in a run of a world, and the packages that are made of it.
TopOf(w, n) == ParseFile(w.distro, w.targets[n], w.file)
Names(w, n) == TopOf(w, n).pkgNames
Splits(w, n) == IsSplitPackage(TopOf(w, n))

\* A package that something is installed for.
HasFunction(w, n, name) ==
    LET functions == TopOf(w, n).functions IN OwnFunction(name) \in DOMAIN functions \/ "package" \in DOMAIN functions

\* What it is compiled for, where SuccessIsDelivered says so.
RightArch(w, n) == EffectiveArch(TopOf(w, n))
AnyArch(w, n) == w.system = "cmake" \/ (Splits(w, n) /\ w.compiles # "build")

\* The payload of a package has the program that this run has installed.
HasProgram(w, n, payload) ==
    /\ "bin" \in DOMAIN payload /\ {"run", "arch"} \subseteq DOMAIN payload["bin"]
    /\ payload["bin"].run = n
    /\ AnyArch(w, n) \/ payload["bin"].arch = RightArch(w, n)

\* Where a package installs to.
DirOf(w, n, name) == IF Splits(w, n) \/ w.distro[1] = "alpine" THEN name ELSE "pkg"

\* It is in the package directory.
InstalledFor(w, n, there, name) ==
    HasFunction(w, n, name) =>
        DirOf(w, n, name) \in DOMAIN there /\ HasProgram(w, n, there[DirOf(w, n, name)])

\* And in an artifact, signed if that was asked for.
DeliveredTo(w, n, out, name) ==
    HasFunction(w, n, name) =>
        \E file \in DOMAIN out : /\ out[file].metadata.name = name
                                 /\ out[file].signed = w.sign
                                 /\ HasProgram(w, n, out[file].payload)

\* The compiler's architecture is set by build(), or by the first package function.
CompiledWell(w, n, at, c) ==
    ~AnyArch(w, n) =>
        /\ at \in {"parse", "sync", "prepare", "build"} => c = ""
        /\ at \in {"check", "package"} =>
              c \in {"", RightArch(w, n)} /\ (Splits(w, n) => c = RightArch(w, n))

\* The PKGBUILD names the host's architecture until packages are made, and the packages
\* to the end.
PkgWell(w, n, at, p) ==
    /\ at \in {"sync", "prepare", "build", "check"} \/ (at = "package" /\ ~Splits(w, n)) =>
          p.archComputed \in {"any", HostArch}
    /\ at \in {"install", "done"} => Alike(p, TopOf(w, n)) /\ (~Splits(w, n) => p.pkgName = TopOf(w, n).pkgName)

\* Which package a run is at: the first ones are installed, made, and so on.
PackagesWell(w, n, at, s, there, out) ==
    LET names == Names(w, n) IN
    /\ at \in {"parse", "sync", "prepare", "build", "check"} => s = 1
    /\ at = "package" /\ Splits(w, n) =>
          s \in 1..Len(names) /\ \A k \in 1..(s - 1) : InstalledFor(w, n, there, names[k])
    /\ at = "create" /\ Splits(w, n) =>
          /\ s \in 1..Len(names)
          /\ \A k \in s..Len(names) : InstalledFor(w, n, there, names[k])
          /\ \A k \in 1..(s - 1) : DeliveredTo(w, n, out, names[k])
    /\ at = "create" /\ ~Splits(w, n) => InstalledFor(w, n, there, TopOf(w, n).pkgName)
    /\ at \in {"install", "done"} =>
          \A name \in (IF Splits(w, n) THEN ToSet(names) ELSE {TopOf(w, n).pkgName}) : DeliveredTo(w, n, out, name)

\* The prefixes of an architecture's tools.
ToolsOf(arch) == {arch} \cup {Tools!ArchPattern(arch, d) : d \in Tools!Distros}

\* A prefix tells the architecture.
LEMMA ToolsTell ==
    ASSUME NEW arch \in DOMAIN Triplet, NEW prefix \in ToolsOf(arch)
    PROVE  Tools!ArchOf(prefix, HostArch) = arch
<1>1. prefix # Tools!HostTools /\ \A other \in DOMAIN Triplet : Tools!Emits(prefix, other) => other = arch
  BY Zenon, DeliveryAssumption DEF ToolsOf
<1>2. Tools!Emits(prefix, arch)
  BY Zenon DEF ToolsOf, Tools!Emits
<1>3. (CHOOSE other \in DOMAIN Triplet : Tools!Emits(prefix, other)) = arch
  BY Zenon, <1>1, <1>2
<1> QED
  BY Zenon, <1>1, <1>3 DEF Tools!ArchOf

\* The toolchains for an architecture are its own.
LEMMA ToolchainFacts ==
    ASSUME NEW format \in {"deb", "rpm", "apk", "pacman"}, NEW target
    PROVE  /\ target \in DOMAIN Triplet => Tools!ResolveToolchainPackages(format, target) # {}
           /\ target \notin DOMAIN Triplet => Tools!ResolveToolchainPackages(format, target) = {}
           /\ \A t \in Tools!ResolveToolchainPackages(format, target) :
                 Tools!GetExecutableName(t.gcc) \in ToolsOf(target)
<1> DEFINE chains == Tools!CrossToolchainMap[target]
           own == Tools!FormatToDistro[format]
<1>1. DOMAIN Tools!CrossToolchainMap = DOMAIN Triplet
  BY DEF Tools!CrossToolchainMap
<1>2. CASE target \notin DOMAIN Triplet
  <2>1. Tools!ResolveToolchainPackages(format, target) = {}
    BY Zenon, <1>1, <1>2 DEF Tools!ResolveToolchainPackages
  <2> QED
    BY Zenon, <1>2, <2>1
<1>3. CASE target \in DOMAIN Triplet
  <2>1. /\ DOMAIN chains = Tools!Distros
        /\ \A d \in Tools!Distros : chains[d].gcc = <<"gcc", Tools!ArchPattern(target, d)>>
    BY <1>3 DEF Tools!CrossToolchainMap
  <2>2. \A d \in Tools!Distros : Tools!GetExecutableName(chains[d].gcc) \in ToolsOf(target)
    <3> SUFFICES ASSUME NEW d \in Tools!Distros PROVE Tools!GetExecutableName(chains[d].gcc) \in ToolsOf(target)
      OBVIOUS
    <3>1. chains[d].gcc = <<"gcc", Tools!ArchPattern(target, d)>>
      BY <2>1
    <3> HIDE DEF chains
    <3>2. Tools!GetExecutableName(chains[d].gcc) = Tools!ArchPattern(target, d)
      BY <3>1 DEF Tools!GetExecutableName
    <3> QED
      BY Zenon, <3>2 DEF ToolsOf
  <2>3. Tools!ResolveToolchainPackages(format, target) =
           IF own \in Tools!Distros THEN {chains[own]} ELSE {chains[d] : d \in Tools!Distros}
    <3>1. Tools!ResolveToolchainPackages(format, target) =
             IF own \in Tools!Distros THEN {chains[own]} ELSE {chains[d] : d \in DOMAIN chains}
      BY Zenon, <1>1, <1>3 DEF Tools!ResolveToolchainPackages, Tools!Range
    <3> QED
      BY <2>1, <3>1
  <2>4. "debian" \in Tools!Distros
    BY DEF Tools!Distros
  <2> HIDE DEF chains, own
  <2>5. Tools!ResolveToolchainPackages(format, target) # {}
    BY Zenon, <2>3, <2>4
  <2>6. \A t \in Tools!ResolveToolchainPackages(format, target) : Tools!GetExecutableName(t.gcc) \in ToolsOf(target)
    BY Zenon, <2>2, <2>3
  <2> QED
    BY Zenon, <1>3, <2>5, <2>6
<1> QED
  BY <1>2, <1>3

\* What the tools are chosen from, and whom a compiler knows.
CrossBuild(format, arch, target, system) ==
    /\ format \in {"deb", "rpm", "apk", "pacman"} /\ arch \in {"any", HostArch}
    /\ target \in {"", HostArch} \cup DOMAIN Triplet
    /\ system \in {"make", "go", "cargo"}

\* Without a target, the host's.
TargetOrHost(target) == IF target = "" THEN HostArch ELSE target

\* Without a foreign target all tools are the host's, and otherwise those of the target.
LEMMA ToolsCompile ==
    ASSUME NEW format, NEW arch, NEW target, NEW system, CrossBuild(format, arch, target, system),
           NEW existing, NEW env, env \in Tools!BuildCrossEnvSlice(format, arch, target, existing)
    PROVE  Tools!Compiled(system, env, HostArch) = TargetOrHost(target)
<1> USE DEF CrossBuild, TargetOrHost
<1> DEFINE chains == Tools!ResolveToolchainPackages(format, target)
           native == Tools!BuildCcacheEnvSlice(Tools!NativeEnv)
<1>1. HostArch # "any" /\ "any" \notin DOMAIN Triplet
  BY Zenon, DeliveryAssumption
<1>2. \A e : Tools!Compiled(system, e, HostArch) =
          IF system = "make" THEN Tools!ArchOf(e.cc, HostArch)
          ELSE IF system = "go" THEN Tools!ArchOf(e.go, HostArch) ELSE Tools!ArchOf(e.rust, HostArch)
  BY DEF Tools!Compiled
<1>3. CASE target \in {"", arch} \/ chains = {}
  <2>1. target \in {"", HostArch}
    BY <1>1, <1>3, ToolchainFacts
  <2>2. env = native
    BY Zenon, <1>3 DEF Tools!BuildCrossEnvSlice
  <2>3. native.cc = Tools!HostTools /\ native.go = Tools!HostTools /\ native.rust = Tools!HostTools
    BY DEF Tools!BuildCcacheEnvSlice, Tools!NativeEnv
  <2>4. Tools!ArchOf(Tools!HostTools, HostArch) = HostArch
    BY Zenon DEF Tools!ArchOf
  <2> HIDE DEF native
  <2>5. Tools!Compiled(system, env, HostArch) = HostArch
    BY <1>2, <2>2, <2>3, <2>4
  <2> QED
    BY Zenon, <2>1, <2>5
<1>4. CASE ~(target \in {"", arch} \/ chains = {})
  <2>1. target \in DOMAIN Triplet /\ target # ""
    BY Zenon, <1>4, ToolchainFacts
  <2> DEFINE Params(t) == Tools!BuildCrossParams(target, t)
             Env(t) == Tools!CrossAutotoolsEnv(Tools!CrossGoEnv(Tools!CrossRustEnv(
                          Tools!CrossCCEnv(native, Params(t), existing), Params(t)), Params(t)), Params(t))
  <2>2. PICK t \in chains : env = Env(t)
    BY Zenon, <1>4 DEF Tools!BuildCrossEnvSlice
  <2> DEFINE params == Params(t)
             cc == Tools!GetExecutableName(t.gcc)
  <2>3. params.cc = cc /\ params.go = target /\ params.rust = target
    BY DEF Tools!BuildCrossParams
  <2>4. DOMAIN native = {"cc", "ar", "cmake", "go", "rust", "configure"}
    BY DEF Tools!BuildCcacheEnvSlice, Tools!NativeEnv
  <2>5. env.cc = params.cc /\ env.go = params.go /\ env.rust = params.rust
    <3> HIDE DEF native, Params
    <3> QED
      BY <2>2, <2>4 DEF Tools!CrossAutotoolsEnv, Tools!CrossGoEnv, Tools!CrossRustEnv, Tools!CrossCCEnv
  <2>6. cc \in ToolsOf(target) /\ target \in ToolsOf(target)
    <3>1. Tools!GetExecutableName(t.gcc) \in ToolsOf(target)
      BY Zenon, <2>2, ToolchainFacts
    <3> QED
      BY Zenon, <3>1 DEF ToolsOf
  <2> HIDE DEF params, cc, Params, Env, native, chains
  <2>7. Tools!ArchOf(cc, HostArch) = target /\ Tools!ArchOf(target, HostArch) = target
    BY Zenon, <2>1, <2>6, ToolsTell
  <2>8. env.cc = cc /\ env.go = target /\ env.rust = target
    BY Zenon, <2>3, <2>5
  <2>9. Tools!Compiled(system, env, HostArch) = target
    BY Zenon, <1>2, <2>7, <2>8
  <2> QED
    BY Zenon, <2>1, <2>9
<1> QED
  BY <1>3, <1>4

\* What a project in a world is.
LEMMA WorldFacts ==
    ASSUME NEW w \in Worlds, NEW n \in 1..MaxRuns
    PROVE  /\ w.format \in {"deb", "rpm", "apk", "pacman"}
           /\ w.system \in {"make", "cmake", "go", "cargo"} /\ w.compiles \in {"build", "package"}
           /\ TopOf(w, n).targetArch \in {"", HostArch} \cup DOMAIN Triplet
           /\ Splits(w, n) => Names(w, n) \in Seq(Range(Names(w, n))) /\ IsInjective(Names(w, n))
           /\ Splits(w, n) /\ w.compiles = "build" => "build" \in DOMAIN TopOf(w, n).functions
<1>1. /\ ParseFile(w.distro, w.targets[n], w.file).targetArch \in {"", HostArch} \cup DOMAIN Triplet
      /\ IsSplitPackage(ParseFile(w.distro, w.targets[n], w.file)) =>
            /\ ParseFile(w.distro, w.targets[n], w.file).pkgNames
                  \in Seq(Range(ParseFile(w.distro, w.targets[n], w.file).pkgNames))
            /\ IsInjective(ParseFile(w.distro, w.targets[n], w.file).pkgNames)
      /\ IsSplitPackage(ParseFile(w.distro, w.targets[n], w.file)) /\ w.compiles = "build" =>
            "build" \in DOMAIN ParseFile(w.distro, w.targets[n], w.file).functions
      /\ w.system \in {"make", "cmake", "go", "cargo"} /\ w.compiles \in {"build", "package"}
  BY Zenon, DeliveryAssumption
<1>2. w.format \in {"deb", "rpm", "apk", "pacman"}
  BY Zenon, PackagingAssumption
<1> QED
  BY Zenon, <1>1, <1>2 DEF TopOf, Names, Splits

\* The architecture that is built for is a name.
LEMMA RightArchFacts ==
    ASSUME NEW w, NEW n
    PROVE  RightArch(w, n) # "" /\ RightArch(w, n) = IF TopOf(w, n).targetArch = "" THEN HostArch
                                                     ELSE TopOf(w, n).targetArch
<1>1. HostArch # ""
  BY Zenon, DeliveryAssumption
<1> QED
  BY <1>1 DEF RightArch, EffectiveArch

\* The first script that sees the cross tools compiles for it, and later ones leave
\* what is compiled.
LEMMA CompileFacts ==
    ASSUME world \in Worlds, run \in 1..MaxRuns, NEW p, NEW withCross, Compile(p, withCross)
    PROVE  /\ compiled # "" => compiled' = compiled
           /\ /\ compiled = "" /\ withCross = TRUE /\ world.system # "cmake"
              /\ p.archComputed \in {"any", HostArch} /\ p.targetArch = TopOf(world, run).targetArch
              => compiled' = RightArch(world, run)
<1> DEFINE shown == IF withCross THEN p.targetArch ELSE ""
           slice == Tools!BuildCrossEnvSlice(world.format, p.archComputed, shown, toolchainFile)
<1>0. \E env \in slice : compiled' = IF compiled = "" THEN Tools!Compiled(world.system, env, HostArch) ELSE compiled
  BY Zenon DEF Compile
<1>3. withCross = TRUE => slice = Tools!BuildCrossEnvSlice(world.format, p.archComputed, p.targetArch, toolchainFile)
  OBVIOUS
<1> HIDE DEF slice
<1>1. PICK env \in slice : compiled' = IF compiled = "" THEN Tools!Compiled(world.system, env, HostArch) ELSE compiled
  BY Zenon, <1>0
<1>2. ASSUME compiled = "", withCross = TRUE, world.system # "cmake",
             p.archComputed \in {"any", HostArch}, p.targetArch = TopOf(world, run).targetArch
      PROVE  compiled' = RightArch(world, run)
  <2> DEFINE format == world.format
             arch   == p.archComputed
             target == p.targetArch
             system == world.system
  <2>1. env \in Tools!BuildCrossEnvSlice(format, arch, target, toolchainFile)
    BY Zenon, <1>3, <1>1, <1>2
  <2>2. CrossBuild(format, arch, target, system)
    <3>1. TopOf(world, run).targetArch \in {"", HostArch} \cup DOMAIN Triplet
      BY WorldFacts
    <3>2. world.system \in {"make", "cmake", "go", "cargo"} /\ world.format \in {"deb", "rpm", "apk", "pacman"}
      BY WorldFacts
    <3> QED
      BY <1>2, <3>1, <3>2 DEF CrossBuild
  <2>3. compiled' = Tools!Compiled(system, env, HostArch)
    BY Zenon, <1>1, <1>2
  <2>4. RightArch(world, run) = TargetOrHost(target)
    BY Zenon, <1>2, RightArchFacts DEF TargetOrHost
  <2> HIDE DEF format, arch, target, system
  <2>5. Tools!Compiled(system, env, HostArch) = TargetOrHost(target)
    BY <2>1, <2>2, ToolsCompile
  <2> QED
    BY <2>3, <2>4, <2>5
<1> QED
  BY Zenon, <1>1, <1>2

\* A program stays what it is under the options.
LEMMA OptionsKeepProgram ==
    ASSUME NEW w, NEW n, NEW payload, HasProgram(w, n, payload), NEW flags, NEW cross
    PROVE  HasProgram(w, n, ApplyWithEnv(flags, payload, cross))
<1> DEFINE stripped == IF flags.strip THEN StripWithEnv(payload, cross) ELSE payload
           gone == (IF flags.docs THEN {} ELSE {"doc"}) \cup (IF flags.libtool THEN {} ELSE {"la"})
                      \cup (IF flags.staticlibs THEN {} ELSE {"lib.a"})
                      \cup (IF flags.purge THEN {"pod"} ELSE {})
                      \cup (IF flags.emptydirs THEN {} ELSE {"emptydir"})
           kept == Without(stripped, gone)
           bin == payload["bin"]
<1>1. "bin" \in DOMAIN payload /\ {"run", "arch"} \subseteq DOMAIN bin
  BY DEF HasProgram
<1> DEFINE Same(q) == /\ "bin" \in DOMAIN q /\ DOMAIN q["bin"] = DOMAIN bin
                      /\ q["bin"].run = bin.run /\ q["bin"].arch = bin.arch
<1>2. Same(stripped)
  <2>1. DOMAIN stripped = DOMAIN payload
    BY DEF StripWithEnv
  <2>2. stripped["bin"] = bin \/ stripped["bin"] = [bin EXCEPT !.state = "stripped"]
    BY <1>1 DEF StripWithEnv
  <2> HIDE DEF stripped, bin
  <2>3. \A b : b = bin \/ b = [bin EXCEPT !.state = "stripped"] =>
           DOMAIN b = DOMAIN bin /\ b.run = bin.run /\ b.arch = bin.arch
    BY <1>1
  <2> QED
    BY <1>1, <2>1, <2>2, <2>3
<1>3. "bin" \notin gone
  OBVIOUS
<1>4. Same(kept)
  <2>1. "bin" \in DOMAIN kept /\ kept["bin"] = stripped["bin"]
    <3> HIDE DEF stripped, gone
    <3> QED
      BY <1>2, <1>3 DEF Without, Restrict
  <2> HIDE DEF kept, stripped, bin
  <2> QED
    BY <1>2, <2>1
<1>5. Same(ZipMan(kept))
  <2> DEFINE rest == Without(kept, {"man"})
             page == [kept["man"] EXCEPT !.state = "compressed"]
  <2> HIDE DEF kept, bin
  <2>1. ZipMan(kept) = kept \/ ZipMan(kept) = Set(rest, "man.gz", page)
    BY DEF ZipMan
  <2>2. "bin" \in DOMAIN rest /\ rest["bin"] = kept["bin"]
    BY <1>4 DEF Without, Restrict
  <2> HIDE DEF rest, page
  <2>3. "bin" \in DOMAIN Set(rest, "man.gz", page) /\ Set(rest, "man.gz", page)["bin"] = rest["bin"]
    BY <2>2 DEF Set
  <2>4. "bin" \in DOMAIN ZipMan(kept) /\ ZipMan(kept)["bin"] = kept["bin"]
    BY <1>4, <2>1, <2>2, <2>3
  <2> QED
    BY <1>4, <2>4
<1>6. ApplyWithEnv(flags, payload, cross) = IF flags.zipman THEN ZipMan(kept) ELSE kept
  BY DEF ApplyWithEnv
<1> HIDE DEF kept
<1>7. Same(ApplyWithEnv(flags, payload, cross))
  BY <1>4, <1>5, <1>6
<1> QED
  BY <1>1, <1>7 DEF HasProgram

\* And so it does in what a format makes of a payload.
LEMMA BuildKeepsProgram ==
    ASSUME NEW w, NEW n, NEW payload, HasProgram(w, n, payload),
           NEW format \in {"deb", "rpm", "apk", "pacman"}, NEW p, NEW target
    PROVE  HasProgram(w, n, BuildPackage(format, target, PrepareFakeroot(format, p, target, payload)).payload)
<1> DEFINE prepared == PrepareFakeroot(format, p, target, payload)
           made == BuildPackage(format, target, prepared)
<1>1. \/ prepared.payload = payload
      \/ \E flags, cross : prepared.payload = ApplyWithEnv(flags, payload, cross)
  <2>1. CASE format = "deb"
    BY <2>1 DEF PrepareFakeroot, DebPrepareFakeroot
  <2>2. CASE format = "rpm"
    BY <2>2 DEF PrepareFakeroot, RpmPrepareFakeroot
  <2>3. CASE format = "apk"
    BY <2>3 DEF PrepareFakeroot, ApkPrepareFakeroot
  <2>4. CASE format = "pacman"
    BY <2>4 DEF PrepareFakeroot, PacmanPrepareFakeroot
  <2> QED
    BY <2>1, <2>2, <2>3, <2>4
<1> HIDE DEF prepared
<1>2. made.payload = prepared.payload
  <2>1. CASE format = "deb"
    BY <2>1 DEF BuildPackage, DebBuildPackage, CreateDeb
  <2>2. CASE format = "rpm"
    BY <2>2 DEF BuildPackage, RpmBuildPackage, CreateFilesInsideRPM
  <2>3. CASE format = "apk"
    BY <2>3 DEF BuildPackage, ApkBuildPackage, CreateTarGzWithChecksums
  <2>4. CASE format = "pacman"
    BY <2>4 DEF BuildPackage, PacmanBuildPackage
  <2> QED
    BY <2>1, <2>2, <2>3, <2>4
<1>3. HasProgram(w, n, prepared.payload)
  BY <1>1, OptionsKeepProgram
<1> QED
  BY <1>2, <1>3 DEF prepared

\* A package directory gets a program: its own package has it, and others keep theirs.
LEMMA InstalledSet ==
    ASSUME NEW w, NEW n, NEW there, NEW dir, NEW payload, HasProgram(w, n, payload), NEW name,
           InstalledFor(w, n, there, name) \/ DirOf(w, n, name) = dir
    PROVE  InstalledFor(w, n, Set(there, dir, payload), name)
<1> DEFINE own == DirOf(w, n, name)
           after == Set(there, dir, payload)
<1>1. HasFunction(w, n, name) => own \in DOMAIN after /\ (after[own] = payload \/ HasProgram(w, n, after[own]))
  <2> HIDE DEF own
  <2> QED
    BY DEF InstalledFor, Set, own
<1> HIDE DEF after
<1> QED
  BY <1>1 DEF InstalledFor, after

\* A package directory that is taken is missing only for its own package.
LEMMA InstalledTaken ==
    ASSUME NEW w, NEW n, NEW there, NEW dir, NEW name, InstalledFor(w, n, there, name), DirOf(w, n, name) # dir
    PROVE  InstalledFor(w, n, Restrict(there, DOMAIN there \ {dir}), name)
BY DEF InstalledFor, Restrict

\* The name of an artifact's file begins with the package's.
Keyed(out) == \A file \in DOMAIN out : out[file].metadata.name = file[1]

\* One more artifact, signed as it was asked for and with the program.
LEMMA DeliveredSet ==
    ASSUME NEW w, NEW n, NEW out, NEW file, NEW a, NEW name, a.metadata.name = name, a.signed = w.sign,
           HasFunction(w, n, name) => HasProgram(w, n, a.payload)
    PROVE  DeliveredTo(w, n, Set(out, file, a), name)
BY DEF DeliveredTo, Set

\* Artifacts of other packages are no less delivered.
LEMMA DeliveredStays ==
    ASSUME NEW w, NEW n, NEW out, Keyed(out), NEW file, NEW a, NEW name, DeliveredTo(w, n, out, name),
           file[1] # name
    PROVE  DeliveredTo(w, n, Set(out, file, a), name)
<1> SUFFICES ASSUME HasFunction(w, n, name)
             PROVE  \E x \in DOMAIN Set(out, file, a) :
                        /\ Set(out, file, a)[x].metadata.name = name
                        /\ Set(out, file, a)[x].signed = w.sign
                        /\ HasProgram(w, n, Set(out, file, a)[x].payload)
  BY Zenon DEF DeliveredTo
<1>1. PICK x \in DOMAIN out : /\ out[x].metadata.name = name /\ out[x].signed = w.sign
                              /\ HasProgram(w, n, out[x].payload)
  BY DEF DeliveredTo
<1>2. x # file
  BY <1>1 DEF Keyed
<1>3. x \in DOMAIN Set(out, file, a) /\ Set(out, file, a)[x] = out[x]
  BY <1>1, <1>2 DEF Set
<1> QED
  BY <1>1, <1>3

\* What a package function writes when it ends well.
LEMMA WrittenProgram ==
    ASSUME run \in 1..MaxRuns, NEW p, NEW body, NEW old,
           AnyArch(world, run) \/ compiled' = RightArch(world, run)
    PROVE  HasProgram(world, run, Written(p, body, Installs[run], old))
<1>1. "bin" \in Installs[run]
  BY Zenon, DeliveryAssumption
<1> QED
  BY <1>1 DEF Written, HasProgram

\* Names of the file and of the PKGBUILD in memory.
LEMMA NameFacts ==
    ASSUME NEW p, Alike(p, Top(run))
    PROVE  /\ IsSplitPackage(p) <=> Splits(world, run)
           /\ p.pkgNames = Names(world, run)
           /\ p.functions = TopOf(world, run).functions
           /\ p.targetArch = TopOf(world, run).targetArch
           /\ Makes(run) <=> Splits(world, run)
BY DEF Alike, IsSplitPackage, Splits, Names, TopOf, Top, Makes

\* Sub-packages are numbered.
LEMMA NumberFacts ==
    ASSUME world \in Worlds, run \in 1..MaxRuns, Splits(world, run)
    PROVE  /\ Len(Names(world, run)) \in Nat /\ Len(Names(world, run)) > 1
           /\ DOMAIN Names(world, run) = 1..Len(Names(world, run))
           /\ \A j, k \in 1..Len(Names(world, run)) : Names(world, run)[j] = Names(world, run)[k] => j = k
<1> DEFINE names == Names(world, run)
<1>1. names \in Seq(Range(names)) /\ IsInjective(names)
  BY WorldFacts
<1>2. Len(names) > 1
  BY DEF Splits, IsSplitPackage, Names
<1> HIDE DEF names
<1>3. Len(names) \in Nat /\ DOMAIN names = 1..Len(names)
  BY <1>1, SequenceFacts
<1>4. \A j, k \in 1..Len(names) : names[j] = names[k] => j = k
  BY <1>1, <1>3 DEF IsInjective
<1> QED
  BY <1>2, <1>3, <1>4 DEF names

\* Where a package installs to.
LEMMA DirFacts ==
    ASSUME world \in Worlds, run \in 1..MaxRuns, NEW p, Alike(p, Top(run)), NEW name
    PROVE  SetPackageDir(p, name) = DirOf(world, run, name)
<1>1. p.distro = world.distro
  BY TopFacts DEF Alike
<1>2. IsSplitPackage(p) <=> Splits(world, run)
  BY NameFacts
<1> QED
  BY <1>1, <1>2 DEF SetPackageDir, DirOf

\* The rest of the invariant, of the variables it speaks of.
Well(w, n, at, p, s, there, out, c) ==
    CompiledWell(w, n, at, c) /\ PkgWell(w, n, at, p) /\ PackagesWell(w, n, at, s, there, out)

\* After a failure nothing is left to say.
LEMMA FailedWell ==
    ASSUME NEW w, NEW n, NEW p, NEW s, NEW there, NEW out, NEW c
    PROVE  Well(w, n, "failed", p, s, there, out, c)
BY DEF Well, CompiledWell, PkgWell, PackagesWell

\* Before the first there is none.
LEMMA NumberOne ==
    (\A k : k \notin 1..(1 - 1)) /\ \A N : N \in Nat /\ N > 1 => 1 \in 1..N
OBVIOUS

\* The phase after a stage.
Passes(at, next) ==
    \/ (at = "sync" /\ next = "prepare")
    \/ (at = "prepare" /\ next = "build")
    \/ (at = "build" /\ next = "check")
    \/ (at = "check" /\ next = "package")

\* Stages before package functions: only what is compiled changes.
LEMMA StageWell ==
    ASSUME NEW w \in Worlds, NEW n \in 1..MaxRuns, NEW at, NEW p, NEW s, NEW there, NEW out, NEW c, NEW d, NEW next,
           Passes(at, next),
           at # "build" => d = c,
           at = "build" /\ ~AnyArch(w, n) =>
               d \in {"", RightArch(w, n)} /\ (Splits(w, n) => d = RightArch(w, n)),
           Well(w, n, at, p, s, there, out, c),
           Splits(w, n) => Len(Names(w, n)) \in Nat /\ Len(Names(w, n)) > 1
    PROVE  Well(w, n, next, p, s, there, out, d)
<1>1. CompiledWell(w, n, next, d)
  BY DEF Well, CompiledWell, Passes
<1>2. PkgWell(w, n, next, p)
  BY DEF Well, PkgWell, Passes
<1>3. s = 1
  BY DEF Well, PackagesWell, Passes
<1>4. PackagesWell(w, n, next, s, there, out)
  <2>1. next \in {"prepare", "build", "check", "package"}
    BY DEF Passes
  <2>2. Splits(w, n) => 1 \in 1..Len(Names(w, n))
    BY Zenon, NumberOne
  <2>3. \A k : k \notin 1..(1 - 1)
    BY Zenon, NumberOne
  <2> QED
    BY <1>3, <2>1, <2>2, <2>3 DEF PackagesWell
<1> QED
  BY <1>1, <1>2, <1>4 DEF Well

\* The stages that pass, or fail.
LEMMA ProcessWell ==
    ASSUME IInv, Well(world, run, phase, pkgbuild, sub, dirs, output, compiled),
           NEW stage, NEW next, ProcessFunction(stage, next),
           stage \in {"prepare", "build", "check"}, Passes(stage, next)
    PROVE  Well(world, run, phase, pkgbuild, sub, dirs, output, compiled)'
<1>1. /\ world \in Worlds /\ run \in 1..MaxRuns /\ phase = stage
      /\ world' = world /\ run' = run /\ pkgbuild' = pkgbuild /\ sub' = sub /\ dirs' = dirs /\ output' = output
      /\ phase' \in {next, "failed"}
      /\ IF stage \in DOMAIN pkgbuild.functions
         THEN IF stage = world.compiles THEN Compile(pkgbuild, stage = "build") ELSE compiled' = compiled
         ELSE compiled' = compiled
  BY DEF IInv, ProcessFunction, Fail
<1>2. Alike(pkgbuild, Top(run))
  BY <1>1 DEF IInv, PkgInv, Fits, Stages
<1>3. world.compiles \in {"build", "package"}
  BY <1>1, WorldFacts
<1>4. stage # "build" => compiled' = compiled
  BY <1>1, <1>3
<1>5. ASSUME stage = "build", ~AnyArch(world, run)
      PROVE  /\ compiled' \in {"", RightArch(world, run)}
             /\ Splits(world, run) => compiled' = RightArch(world, run)
  <2>1. compiled = "" /\ pkgbuild.archComputed \in {"any", HostArch}
    BY <1>1, <1>5 DEF Well, CompiledWell, PkgWell
  <2>2. world.system # "cmake" /\ (Splits(world, run) => world.compiles = "build")
    BY <1>5 DEF AnyArch
  <2>3. Splits(world, run) => "build" \in DOMAIN pkgbuild.functions
    BY <1>1, <1>2, <2>2, NameFacts, WorldFacts
  <2>4. pkgbuild.targetArch = TopOf(world, run).targetArch
    BY <1>2, NameFacts
  <2>5. CASE "build" \in DOMAIN pkgbuild.functions /\ world.compiles = "build"
    <3>1. Compile(pkgbuild, TRUE)
      <4>1. Compile(pkgbuild, stage = "build")
        BY Zenon, <1>1, <1>5, <2>5
      <4>2. (stage = "build") = TRUE
        BY <1>5
      <4> QED
        BY Zenon, <4>1, <4>2
    <3>2. compiled' = RightArch(world, run)
      BY <1>1, <2>1, <2>2, <2>4, <3>1, CompileFacts
    <3> QED
      BY <3>2
  <2>6. CASE ~("build" \in DOMAIN pkgbuild.functions /\ world.compiles = "build")
    <3>1. compiled' = ""
      BY <1>1, <1>5, <2>1, <2>6
    <3> QED
      BY <2>2, <2>3, <2>6, <3>1
  <2> QED
    BY <2>5, <2>6
<1>6. CASE phase' = "failed"
  BY Zenon, <1>6, FailedWell
<1>7. CASE phase' = next
  <2>1. Splits(world, run) => Len(Names(world, run)) \in Nat /\ Len(Names(world, run)) > 1
    BY <1>1, NumberFacts
  <2>2. Well(world, run, next, pkgbuild, sub, dirs, output, compiled')
    BY <1>1, <1>4, <1>5, <2>1, StageWell
  <2> QED
    BY Zenon, <1>1, <1>7, <2>2
<1> QED
  BY <1>1, <1>6, <1>7

\* The file is parsed.
LEMMA PopulateWell ==
    ASSUME IInv, Well(world, run, phase, pkgbuild, sub, dirs, output, compiled), PopulateProjects
    PROVE  Well(world, run, phase, pkgbuild, sub, dirs, output, compiled)'
<1> DEFINE p == ParseFile(world.distro, Target, world.file)
<1>1. /\ world \in Worlds /\ run \in 1..MaxRuns /\ phase = "parse"
      /\ world' = world /\ run' = run /\ sub' = sub /\ dirs' = dirs /\ output' = output /\ compiled' = compiled
      /\ phase' \in {"sync", "failed"} /\ pkgbuild' = ComputeArchitecture(p)
  BY DEF IInv, PopulateProjects, Fail
<1>2. CASE phase' = "failed"
  BY Zenon, <1>2, FailedWell
<1>3. CASE phase' = "sync"
  <2>1. "archComputed" \in DOMAIN p
    <3>1. DOMAIN Top(run) = Keys
      BY <1>1, TopFacts
    <3> QED
      BY <3>1 DEF Top, Target, Keys
  <2> HIDE DEF p
  <2>2. pkgbuild'.archComputed \in {"any", HostArch}
    BY <1>1, <2>1 DEF ComputeArchitecture
  <2>3. Well(world, run, "sync", pkgbuild', sub, dirs, output, compiled)
    BY <1>1, <2>2 DEF Well, CompiledWell, PkgWell, PackagesWell
  <2> QED
    BY Zenon, <1>1, <1>3, <2>3
<1> QED
  BY <1>1, <1>2, <1>3

\* The dependencies are synchronised.
LEMMA SyncWell ==
    ASSUME IInv, Well(world, run, phase, pkgbuild, sub, dirs, output, compiled), SyncDependencies
    PROVE  Well(world, run, phase, pkgbuild, sub, dirs, output, compiled)'
<1>1. /\ world \in Worlds /\ run \in 1..MaxRuns /\ phase = "sync" /\ phase' = "prepare"
      /\ world' = world /\ run' = run /\ pkgbuild' = pkgbuild /\ sub' = sub /\ dirs' = dirs /\ output' = output
      /\ compiled' = compiled
  BY DEF IInv, SyncDependencies
<1>2. Splits(world, run) => Len(Names(world, run)) \in Nat /\ Len(Names(world, run)) > 1
  BY <1>1, NumberFacts
<1>3. Well(world, run, "prepare", pkgbuild, sub, dirs, output, compiled)
  BY <1>1, <1>2, StageWell DEF Passes
<1> QED
  BY Zenon, <1>1, <1>3

\* The PKGBUILD a package function of a sub-package runs with.
LEMMA FunctionRuns ==
    ASSUME world \in Worlds, run \in 1..MaxRuns, Makes(run), Alike(pkgbuild, Top(run)),
           NEW name, NEW body \in DOMAIN pkgbuild.functions, body \in PackageFunctions
    PROVE  LET p == ParseSplitOverrides(Restored(name), pkgbuild.functions[body]) IN
           Alike(p, Top(run)) /\ p.pkgName = name
<1> DEFINE r == Restored(name)
           b == pkgbuild.functions[body]
           p == ParseSplitOverrides(r, b)
<1>1. Alike(r, Top(run)) /\ r.pkgName = name
  BY RestoredFacts
<1>2. Body(b)
  BY FunctionFacts
<1>3. b \in Seq(Range(b)) /\ \A m \in DOMAIN b : b[m].kind # "function"
  BY <1>2 DEF Body
<1>4. DOMAIN r = Keys
  BY <1>1 DEF Alike
<1> HIDE DEF b, r
<1>5. Kept(p, r)
  BY <1>3, <1>4, OverridesKeep
<1> HIDE DEF p
<1>6. Alike(p, Top(run)) /\ p.pkgName = name
  BY <1>1, <1>5 DEF Kept, Alike
<1> QED
  BY Zenon, <1>6 DEF p, r, b

\* The package function of a single package.
LEMMA CompileSingleWell ==
    ASSUME IInv, Well(world, run, phase, pkgbuild, sub, dirs, output, compiled), CompileSinglePackage
    PROVE  Well(world, run, phase, pkgbuild, sub, dirs, output, compiled)'
<1> DEFINE dir == SetPackageDir(pkgbuild, pkgbuild.pkgName)
           payload == Written(pkgbuild, "package", Installs[run], Get(dirs, dir, <<>>))
<1>1. /\ world \in Worlds /\ run \in 1..MaxRuns /\ phase = "package" /\ ~IsSplitPackage(pkgbuild)
      /\ world' = world /\ run' = run /\ pkgbuild' = pkgbuild /\ output' = output
      /\ Compile(pkgbuild, TRUE)
      /\ \/ dirs' = Set(dirs, dir, payload) /\ phase' = "create" /\ sub' = sub
         \/ phase' = "failed"
  BY DEF IInv, CompileSinglePackage, RunScriptInFakeroot, Fail
<1>2. Alike(pkgbuild, Top(run)) /\ (~Makes(run) => pkgbuild.pkgName = Name)
  BY <1>1 DEF IInv, PkgInv, Fits, Stages
<1>3. ~Splits(world, run) /\ pkgbuild.targetArch = TopOf(world, run).targetArch
  BY <1>1, <1>2, NameFacts
<1>4. pkgbuild.pkgName = TopOf(world, run).pkgName
  <2>1. Name = Top(run).pkgName
    BY <1>1, RunsAgree
  <2> QED
    BY <1>2, <1>3, <2>1, NameFacts DEF Top, TopOf
<1>5. AnyArch(world, run) \/ compiled' = RightArch(world, run)
  <2> SUFFICES ASSUME ~AnyArch(world, run) PROVE compiled' = RightArch(world, run)
    OBVIOUS
  <2>1. /\ compiled \in {"", RightArch(world, run)} /\ pkgbuild.archComputed \in {"any", HostArch}
        /\ world.system # "cmake"
    BY <1>1, <1>3 DEF Well, CompiledWell, PkgWell, AnyArch
  <2> QED
    BY <1>1, <1>3, <2>1, CompileFacts
<1>6. CASE phase' = "failed"
  BY Zenon, <1>6, FailedWell
<1>7. CASE dirs' = Set(dirs, dir, payload) /\ phase' = "create" /\ sub' = sub
  <2>1. HasProgram(world, run, payload)
    BY <1>1, <1>5, WrittenProgram
  <2>2. dir = DirOf(world, run, pkgbuild.pkgName)
    BY <1>1, <1>2, DirFacts
  <2> HIDE DEF dir, payload
  <2>3. InstalledFor(world, run, dirs', pkgbuild.pkgName)
    <3> DEFINE after == Set(dirs, dir, payload)
               name == pkgbuild.pkgName
    <3>1. DirOf(world, run, name) = dir
      BY <2>2
    <3> HIDE DEF name
    <3>2. InstalledFor(world, run, after, name)
      BY <2>1, <3>1, InstalledSet
    <3> QED
      BY Zenon, <1>7, <3>2 DEF name
  <2>4. InstalledFor(world, run, dirs', TopOf(world, run).pkgName)
    BY Zenon, <1>4, <2>3
  <2>5. Well(world, run, "create", pkgbuild, sub, dirs', output, compiled')
    BY <1>3, <2>4 DEF Well, CompiledWell, PkgWell, PackagesWell
  <2> QED
    BY Zenon, <1>1, <1>7, <2>5
<1> QED
  BY <1>1, <1>6, <1>7

\* The next sub-package, whose place follows, or a new phase.
LEMMA InstalledNext ==
    ASSUME NEW w, NEW n, Splits(w, n), NEW names, names = Names(w, n), Len(names) \in Nat,
           NEW s \in 1..Len(names), NEW there, NEW after, NEW p, NEW q, NEW out, NEW c, NEW d,
           Well(w, n, "package", p, s, there, out, c), CompiledWell(w, n, "package", d),
           \A k \in 1..(s - 1) : InstalledFor(w, n, there, names[k]) => InstalledFor(w, n, after, names[k]),
           InstalledFor(w, n, after, names[s])
    PROVE  /\ s < Len(names) => Well(w, n, "package", q, s + 1, after, out, d)
           /\ ~(s < Len(names)) => Well(w, n, "create", q, 1, after, out, d)
<1>1. \A k \in 1..s : InstalledFor(w, n, after, names[k])
  <2>1. \A k \in 1..(s - 1) : InstalledFor(w, n, there, names[k])
    BY DEF Well, PackagesWell
  <2> QED
    BY <2>1
<1>2. ASSUME s < Len(names) PROVE Well(w, n, "package", q, s + 1, after, out, d)
  <2>1. s + 1 \in 1..Len(names) /\ (s + 1) - 1 = s
    BY <1>2
  <2>2. PackagesWell(w, n, "package", s + 1, after, out)
    BY <1>1, <2>1 DEF PackagesWell
  <2>3. PkgWell(w, n, "package", q)
    BY DEF PkgWell
  <2> QED
    BY <2>2, <2>3 DEF Well
<1>3. ASSUME ~(s < Len(names)) PROVE Well(w, n, "create", q, 1, after, out, d)
  <2>1. s = Len(names) /\ 1 \in 1..Len(names) /\ 1..(1 - 1) = {}
    BY <1>3
  <2>2. PackagesWell(w, n, "create", 1, after, out)
    BY <1>1, <2>1 DEF PackagesWell
  <2>3. PkgWell(w, n, "create", q) /\ CompiledWell(w, n, "create", d)
    BY DEF PkgWell, CompiledWell
  <2> QED
    BY <2>2, <2>3 DEF Well
<1> QED
  BY <1>2, <1>3

\* The package function of a sub-package, its own or that of all, or none.
LEMMA CompileSplitWell ==
    ASSUME IInv, Well(world, run, phase, pkgbuild, sub, dirs, output, compiled), CompileSplitPackages
    PROVE  Well(world, run, phase, pkgbuild, sub, dirs, output, compiled)'
<1> DEFINE names == Names(world, run)
           own  == OwnFunction(SubName)
           body == IF own \in DOMAIN pkgbuild.functions THEN own ELSE "package"
           r    == Restored(SubName)
           p    == ParseSplitOverrides(r, pkgbuild.functions[body])
           dir  == SetPackageDir(p, p.pkgName)
           payload == Written(p, body, Installs[run], Get(dirs, dir, <<>>))
<1>1. /\ world \in Worlds /\ run \in 1..MaxRuns /\ phase = "package" /\ IsSplitPackage(pkgbuild)
      /\ world' = world /\ run' = run /\ output' = output
  BY DEF IInv, CompileSplitPackages
<1>2. Alike(pkgbuild, Top(run))
  BY <1>1 DEF IInv, PkgInv, Fits, Stages
<1>3. /\ Splits(world, run) /\ Makes(run) /\ pkgbuild.pkgNames = names
      /\ pkgbuild.functions = TopOf(world, run).functions
  BY <1>1, <1>2, NameFacts
<1>4. Len(names) \in Nat /\ sub \in 1..Len(names) /\ SubName = names[sub]
  BY <1>1, <1>3, NumberFacts DEF Well, PackagesWell, SubName
<1>5. AnyArch(world, run) \/ (compiled = RightArch(world, run) /\ compiled # "")
  BY <1>1, <1>3, RightArchFacts DEF Well, CompiledWell
<1>6. /\ phase' = "failed" \/ NextSub("create")
      /\ body \notin DOMAIN pkgbuild.functions => dirs' = dirs /\ compiled' = compiled
      /\ body \in DOMAIN pkgbuild.functions =>
            Compile(p, FALSE) /\ (phase' = "failed" \/ dirs' = Set(dirs, dir, payload))
  <2>1. IF body \notin DOMAIN pkgbuild.functions
        THEN NextSub("create") /\ UNCHANGED <<pkgbuild, dirs, compiled, toolchainFile>>
        ELSE pkgbuild' = p /\ RunScriptInFakeroot(p, body, FALSE, NextSub("create"))
    BY Zenon DEF CompileSplitPackages, Restored
  <2> HIDE DEF body, p
  <2>2. RunScriptInFakeroot(p, body, FALSE, NextSub("create")) =>
           /\ Compile(p, FALSE)
           /\ \/ dirs' = Set(dirs, dir, payload) /\ NextSub("create")
              \/ phase' = "failed"
    BY Zenon DEF RunScriptInFakeroot, Fail
  <2> QED
    BY <2>1, <2>2
<1>7. CASE phase' = "failed"
  BY Zenon, <1>7, FailedWell
<1>8. CASE phase' # "failed"
  <2>1. InstalledFor(world, run, dirs', names[sub]) /\ compiled' = (IF compiled = "" THEN compiled' ELSE compiled)
        /\ \A name : InstalledFor(world, run, dirs, name) => InstalledFor(world, run, dirs', name)
    <3>1. CASE body \notin DOMAIN pkgbuild.functions
      <4>1. ~HasFunction(world, run, SubName)
        BY <1>3, <3>1 DEF HasFunction
      <4> QED
        BY <1>4, <1>6, <3>1, <4>1 DEF InstalledFor
    <3>2. CASE body \in DOMAIN pkgbuild.functions
      <4>1. Alike(p, Top(run)) /\ p.pkgName = SubName
        <5>1. body \in PackageFunctions
          BY OwnFunctionFacts DEF PackageFunctions
        <5> HIDE DEF body
        <5> QED
          BY Zenon, <1>1, <1>2, <1>3, <3>2, <5>1, FunctionRuns
      <4>2. compiled # "" => compiled' = compiled
        BY <1>1, <1>6, <3>2, CompileFacts
      <4>3. HasProgram(world, run, payload)
        <5>1. AnyArch(world, run) \/ compiled' = RightArch(world, run)
          BY <1>5, <4>2
        <5> HIDE DEF p, body, dir
        <5> QED
          BY <1>1, <5>1, WrittenProgram
      <4>4. dir = DirOf(world, run, SubName)
        <5> HIDE DEF p
        <5> QED
          BY <1>1, <4>1, DirFacts
      <4>5. dirs' = Set(dirs, dir, payload)
        BY <1>6, <1>8, <3>2
      <4> DEFINE name == SubName
      <4> HIDE DEF dir, payload, p, name
      <4>6. \A x : InstalledFor(world, run, dirs, x) => InstalledFor(world, run, Set(dirs, dir, payload), x)
        BY <4>3, InstalledSet
      <4>7. InstalledFor(world, run, Set(dirs, dir, payload), name)
        BY <4>3, <4>4, InstalledSet DEF name
      <4> QED
        BY <1>4, <4>2, <4>5, <4>6, <4>7 DEF name
    <3> QED
      BY <3>1, <3>2
  <2>2. CompiledWell(world, run, "package", compiled')
    BY <1>5, <2>1 DEF CompiledWell
  <2>3. NextSub("create")
    BY <1>6, <1>8
  <2> HIDE DEF names, p, body, dir, payload
  <2>4. /\ sub < Len(names) => Well(world, run, "package", pkgbuild', sub + 1, dirs', output, compiled')
        /\ ~(sub < Len(names)) => Well(world, run, "create", pkgbuild', 1, dirs', output, compiled')
    <3>1. names = Names(world, run)
      BY DEF names
    <3>2. Well(world, run, "package", pkgbuild, sub, dirs, output, compiled)
      BY <1>1
    <3> QED
      BY <1>3, <1>4, <2>1, <2>2, <3>1, <3>2, InstalledNext
  <2>5. \/ sub < Len(names) /\ sub' = sub + 1 /\ phase' = "package"
        \/ ~(sub < Len(names)) /\ sub' = 1 /\ phase' = "create"
    BY <1>1, <1>3, <2>3 DEF NextSub
  <2> QED
    BY Zenon, <1>1, <2>4, <2>5
<1> QED
  BY <1>7, <1>8

\* An artifact's file bears the name the PKGBUILD has when it is made.
LEMMA FileBearsName ==
    ASSUME NEW format \in {"deb", "rpm", "apk", "pacman"}, NEW target, NEW prepared
    PROVE  LET made == BuildPackage(format, target, prepared) IN made.file[1] = made.pkgbuild.pkgName
<1> DEFINE made == BuildPackage(format, target, prepared)
           q == made.pkgbuild
<1>1. made.file \in {BuildPackageName(format, q), [BuildPackageName(format, q) EXCEPT ![2] = ""]}
  <2>1. CASE format = "deb"
    BY <2>1 DEF BuildPackage, DebBuildPackage
  <2>2. CASE format = "rpm"
    BY <2>2 DEF BuildPackage, RpmBuildPackage
  <2>3. CASE format = "apk"
    BY <2>3 DEF BuildPackage, ApkBuildPackage
  <2>4. CASE format = "pacman"
    BY <2>4 DEF BuildPackage, PacmanBuildPackage
  <2> QED
    BY <2>1, <2>2, <2>3, <2>4
<1> DEFINE x == q.pkgName
<1>2. Bears(q, x)
  BY DEF Bears
<1> HIDE DEF made, q, x
<1>3. Called(BuildPackageName(format, q), x) /\ Called([BuildPackageName(format, q) EXCEPT ![2] = ""], x)
  BY <1>2, NameFirst
<1>4. made.file[1] = x
  BY <1>1, <1>3 DEF Called
<1> QED
  BY <1>4 DEF x, q, made

\* What is made for a package.
MadeFor(made, name) ==
    /\ Alike(made.pkgbuild, Top(run)) /\ made.pkgbuild.pkgName = name
    /\ made.file[1] = name /\ made.metadata.name = name
    /\ HasFunction(world, run, name) => HasProgram(world, run, made.payload)

\* That is what is made of its package directory.
LEMMA MadeForIs ==
    ASSUME world \in Worlds, run \in 1..MaxRuns, DirInv,
           NEW p, Alike(p, Top(run)), ~Makes(run) => p.pkgName = Name,
           Suits(world.format, p, Own(p.pkgName, Target)), InstalledFor(world, run, dirs, p.pkgName)
    PROVE  MadeFor(Make(p, SetPackageDir(p, p.pkgName)), p.pkgName)
<1> DEFINE name == p.pkgName
           dir == SetPackageDir(p, name)
           payload == Get(dirs, dir, <<>>)
           format == world.format
           target == Target
           prepared == PrepareFakeroot(format, p, target, payload)
           made == Make(p, dir)
<1>1. MadeWell(made, format, p, Own(name, target))
  BY MakeFacts
<1>2. made = BuildPackage(format, target, prepared)
  BY Zenon DEF Make
<1>3. format \in {"deb", "rpm", "apk", "pacman"}
  BY Zenon, PackagingAssumption
<1>4. dir = DirOf(world, run, name)
  BY DirFacts
<1>5. HasFunction(world, run, name) => HasProgram(world, run, payload)
  <2> HIDE DEF name, dir
  <2> QED
    BY <1>4 DEF InstalledFor, Get, name
<1>6. HasFunction(world, run, name) => HasProgram(world, run, made.payload)
  <2> HIDE DEF name, payload, format, target, made
  <2> QED
    BY <1>2, <1>3, <1>5, BuildKeepsProgram DEF prepared
<1>7. made.file[1] = made.pkgbuild.pkgName
  <2> HIDE DEF format, target, prepared, made
  <2> QED
    BY <1>2, <1>3, FileBearsName
<1> HIDE DEF made, dir, format
<1>8. made.file[1] = name /\ made.metadata.name = name /\ Alike(made.pkgbuild, p)
  BY <1>1 DEF MadeWell, MetadataIsOwn
<1>9. Alike(made.pkgbuild, Top(run))
  BY <1>8 DEF Alike
<1>10. MadeFor(made, name)
  BY <1>6, <1>7, <1>8, <1>9 DEF MadeFor
<1> QED
  BY <1>10 DEF made, dir

\* The artifacts' files begin with the names of their packages.
LEMMA OutputKeyed ==
    ASSUME ArtifactsAreOwn
    PROVE  Keyed(output)
BY ArtifactsAreOwnIs DEF Keyed, IsOwn, OwnArtifact

\* The artifact that is signed if that is asked for, and ends nothing.
LEMMA HooksFacts ==
    ASSUME NEW made, NEW name, MadeFor(made, name), output' = Set(output, made.file, Artifact(made, world.sign)),
           Keyed(output)
    PROVE  /\ DeliveredTo(world, run, output', name)
           /\ \A other : other # name /\ DeliveredTo(world, run, output, other)
                           => DeliveredTo(world, run, output', other)
<1> DEFINE a == Artifact(made, world.sign)
           file == made.file
<1>1. a.metadata.name = name /\ a.signed = world.sign
      /\ (HasFunction(world, run, name) => HasProgram(world, run, a.payload))
  BY DEF Artifact, MadeFor
<1>2. file[1] = name
  BY DEF MadeFor
<1>3. output' = Set(output, file, a)
  OBVIOUS
<1> HIDE DEF a, file
<1>4. DeliveredTo(world, run, output', name)
  BY <1>1, <1>3, DeliveredSet
<1>5. \A other : other # name /\ DeliveredTo(world, run, output, other) => DeliveredTo(world, run, output', other)
  BY <1>2, <1>3, DeliveredStays
<1> QED
  BY <1>4, <1>5

\* The single package is made.
LEMMA CreateSingleWell ==
    ASSUME IInv, Well(world, run, phase, pkgbuild, sub, dirs, output, compiled), CreateSinglePackage
    PROVE  Well(world, run, phase, pkgbuild, sub, dirs, output, compiled)'
<1> DEFINE name == pkgbuild.pkgName
           made == Make(pkgbuild, SetPackageDir(pkgbuild, name))
<1>1. /\ world \in Worlds /\ run \in 1..MaxRuns /\ DirInv /\ ArtifactsAreOwn /\ phase = "create"
      /\ world' = world /\ run' = run /\ ~IsSplitPackage(pkgbuild) /\ pkgbuild' = made.pkgbuild
      /\ \/ output' = Set(output, made.file, Artifact(made, world.sign)) /\ phase' = "install"
         \/ phase' = "failed"
  BY Zenon DEF IInv, CreateSinglePackage, RunPostBuildHooks, Fail
<1>2. Fits(pkgbuild)
  BY <1>1 DEF IInv, PkgInv, Stages
<1>3. ~Makes(run) /\ ~Splits(world, run)
  BY <1>1, <1>2, NameFacts DEF Fits
<1>4. Suits(world.format, pkgbuild, Own(name, Target))
  BY <1>1, <1>2, <1>3, SinglePackageFacts DEF Fits
<1>5. name = TopOf(world, run).pkgName
  <2>1. Name = Top(run).pkgName
    BY <1>1, RunsAgree
  <2> QED
    BY <1>2, <1>3, <2>1 DEF Fits, Top, TopOf
<1>6. MadeFor(made, name)
  <2>1. InstalledFor(world, run, dirs, name)
    BY <1>1, <1>3, <1>5 DEF Well, PackagesWell
  <2> QED
    BY <1>1, <1>2, <1>4, <2>1, MadeForIs DEF Fits
<1>7. CASE phase' = "failed"
  BY Zenon, <1>7, FailedWell
<1>8. CASE output' = Set(output, made.file, Artifact(made, world.sign)) /\ phase' = "install"
  <2> HIDE DEF made, name
  <2>1. DeliveredTo(world, run, output', name)
    BY <1>1, <1>6, <1>8, OutputKeyed, HooksFacts
  <2>2. Alike(pkgbuild', TopOf(world, run)) /\ pkgbuild'.pkgName = TopOf(world, run).pkgName
    BY <1>1, <1>5, <1>6 DEF MadeFor, Top, TopOf
  <2>3. Well(world, run, "install", pkgbuild', sub', dirs', output', compiled')
    BY <1>3, <1>5, <2>1, <2>2 DEF Well, CompiledWell, PkgWell, PackagesWell
  <2> QED
    BY Zenon, <1>1, <1>8, <2>3
<1> QED
  BY <1>1, <1>7, <1>8

\* The one that none follows is the last.
LEMMA NumberLast ==
    ASSUME NEW N \in Nat, NEW k \in 1..N, ~(k < N)
    PROVE  k = N
OBVIOUS

\* A sub-package is delivered: the next one's turn, or all are.
LEMMA DeliveredNext ==
    ASSUME NEW w, NEW n, Splits(w, n), NEW names, names = Names(w, n),
           Len(names) \in Nat, DOMAIN names = 1..Len(names),
           NEW s \in 1..Len(names), NEW there, NEW after, NEW p, NEW q, Alike(q, TopOf(w, n)),
           NEW out, NEW made, NEW c, NEW d,
           Well(w, n, "create", p, s, there, out, c),
           \A k \in (s + 1)..Len(names) : InstalledFor(w, n, there, names[k]) => InstalledFor(w, n, after, names[k]),
           \A k \in 1..(s - 1) : DeliveredTo(w, n, out, names[k]) => DeliveredTo(w, n, made, names[k]),
           DeliveredTo(w, n, made, names[s])
    PROVE  /\ s < Len(names) => Well(w, n, "create", q, s + 1, after, made, d)
           /\ ~(s < Len(names)) => Well(w, n, "install", q, 1, after, made, d)
<1>1. /\ \A k \in s..Len(names) : InstalledFor(w, n, there, names[k])
      /\ \A k \in 1..(s - 1) : DeliveredTo(w, n, out, names[k])
  BY DEF Well, PackagesWell
<1>2. \A k \in 1..s : DeliveredTo(w, n, made, names[k])
  BY <1>1
<1>3. \A k \in (s + 1)..Len(names) : InstalledFor(w, n, after, names[k])
  BY <1>1
<1>4. ASSUME s < Len(names) PROVE Well(w, n, "create", q, s + 1, after, made, d)
  <2>1. s + 1 \in 1..Len(names) /\ (s + 1) - 1 = s
    BY <1>4
  <2>2. PackagesWell(w, n, "create", s + 1, after, made)
    BY <1>2, <1>3, <2>1 DEF PackagesWell
  <2>3. PkgWell(w, n, "create", q) /\ CompiledWell(w, n, "create", d)
    BY DEF PkgWell, CompiledWell
  <2> QED
    BY <2>2, <2>3 DEF Well
<1>5. ASSUME ~(s < Len(names)) PROVE Well(w, n, "install", q, 1, after, made, d)
  <2>1. s = Len(names)
    BY Zenon, <1>5, NumberLast
  <2>2. \A name \in ToSet(names) : DeliveredTo(w, n, made, name)
    BY <1>2, <2>1 DEF ToSet
  <2>3. PackagesWell(w, n, "install", 1, after, made)
    BY <2>2 DEF PackagesWell
  <2>4. PkgWell(w, n, "install", q) /\ CompiledWell(w, n, "install", d)
    BY DEF PkgWell, CompiledWell
  <2> QED
    BY <2>3, <2>4 DEF Well
<1> QED
  BY <1>4, <1>5

\* A sub-package is made; its directory is no other's.
LEMMA CreateSplitWell ==
    ASSUME IInv, Well(world, run, phase, pkgbuild, sub, dirs, output, compiled), CreateSplitPackages
    PROVE  Well(world, run, phase, pkgbuild, sub, dirs, output, compiled)'
<1> DEFINE names == Names(world, run)
           p    == SubPackage(SubName)
           dir  == SetPackageDir(p, SubName)
           made == Make(p, dir)
<1>1. /\ world \in Worlds /\ run \in 1..MaxRuns /\ DirInv /\ ArtifactsAreOwn /\ phase = "create"
      /\ world' = world /\ run' = run /\ IsSplitPackage(pkgbuild)
  BY DEF IInv, CreateSplitPackages
<1>2. Alike(pkgbuild, Top(run)) /\ pkgbuild.suffix \in {"", Suffix(world.format, Top(run))}
  BY <1>1 DEF IInv, PkgInv, Fits, Stages
<1>3. Splits(world, run) /\ Makes(run) /\ pkgbuild.pkgNames = names
  BY <1>1, <1>2, NameFacts
<1>4. /\ Len(names) \in Nat /\ DOMAIN names = 1..Len(names) /\ sub \in 1..Len(names) /\ SubName = names[sub]
      /\ \A j, k \in 1..Len(names) : names[j] = names[k] => j = k
  BY <1>1, <1>3, NumberFacts DEF Well, PackagesWell, SubName
<1>5. Suits(world.format, p, Own(SubName, Target)) /\ Alike(p, Top(run)) /\ p.pkgName = SubName
  BY <1>1, <1>2, <1>3, SubPackageFacts
<1>6. MadeFor(made, SubName)
  <2>1. InstalledFor(world, run, dirs, SubName)
    BY <1>1, <1>3, <1>4 DEF Well, PackagesWell
  <2> HIDE DEF p
  <2> QED
    BY <1>1, <1>3, <1>5, <2>1, MadeForIs
<1>7. dir = DirOf(world, run, SubName)
  <2> HIDE DEF p
  <2> QED
    BY <1>1, <1>5, DirFacts
<1>8. \/ phase' = "failed"
      \/ /\ pkgbuild' = made.pkgbuild /\ NextSub("install")
         /\ output' = Set(output, made.file, Artifact(made, world.sign))
         /\ dirs' = Restrict(dirs, DOMAIN dirs \ {dir})
  <2>1. CASE DirFails(dir)
    BY Zenon, <2>1 DEF CreateSplitPackages, SubPackage, Restored, Fail
  <2>2. CASE ~DirFails(dir)
    <3>1. /\ pkgbuild' = made.pkgbuild
          /\ RunPostBuildHooks(made, NextSub("install"))
          /\ dirs' = IF phase' = "failed" /\ world.format # "deb" THEN dirs
                     ELSE Restrict(dirs, DOMAIN dirs \ {dir})
      BY Zenon, <2>2 DEF CreateSplitPackages, SubPackage, Restored
    <3> HIDE DEF made, dir
    <3>2. \/ output' = Set(output, made.file, Artifact(made, world.sign)) /\ NextSub("install")
          \/ phase' = "failed"
      BY Zenon, <3>1 DEF RunPostBuildHooks, Fail
    <3> QED
      BY <3>1, <3>2
  <2> QED
    BY <2>1, <2>2
<1>9. CASE phase' = "failed"
  BY Zenon, <1>9, FailedWell
<1>10. CASE phase' # "failed"
  <2> HIDE DEF names, p, dir, made
  <2>1. /\ pkgbuild' = made.pkgbuild /\ NextSub("install")
        /\ output' = Set(output, made.file, Artifact(made, world.sign))
        /\ dirs' = Restrict(dirs, DOMAIN dirs \ {dir})
    BY <1>8, <1>10
  <2>2. /\ DeliveredTo(world, run, output', names[sub])
        /\ \A other : other # names[sub] /\ DeliveredTo(world, run, output, other)
                        => DeliveredTo(world, run, output', other)
    <3> DEFINE name == SubName
    <3>1. MadeFor(made, name) /\ Keyed(output)
      BY <1>1, <1>6, OutputKeyed
    <3> HIDE DEF name
    <3>2. /\ DeliveredTo(world, run, output', name)
          /\ \A other : other # name /\ DeliveredTo(world, run, output, other)
                          => DeliveredTo(world, run, output', other)
      BY <2>1, <3>1, HooksFacts
    <3> QED
      BY <1>4, <3>2 DEF name
  <2>3. \A k \in 1..(sub - 1) : DeliveredTo(world, run, output, names[k]) => DeliveredTo(world, run, output', names[k])
    <3> SUFFICES ASSUME NEW k \in 1..(sub - 1) PROVE names[k] # names[sub]
      BY <2>2
    <3> QED
      BY <1>4
  <2>4. \A k \in (sub + 1)..Len(names) : InstalledFor(world, run, dirs, names[k]) => InstalledFor(world, run, dirs', names[k])
    <3> SUFFICES ASSUME NEW k \in (sub + 1)..Len(names), InstalledFor(world, run, dirs, names[k])
                 PROVE  InstalledFor(world, run, dirs', names[k])
      OBVIOUS
    <3>1. names[k] # names[sub]
      BY <1>4
    <3>2. DirOf(world, run, names[k]) # dir
      BY <1>3, <1>4, <1>7, <3>1 DEF DirOf
    <3> DEFINE name == names[k]
    <3>3. InstalledFor(world, run, dirs, name) /\ DirOf(world, run, name) # dir
      BY <3>2
    <3> HIDE DEF name
    <3>4. InstalledFor(world, run, Restrict(dirs, DOMAIN dirs \ {dir}), name)
      BY <3>3, InstalledTaken
    <3> QED
      BY Zenon, <2>1, <3>4 DEF name
  <2>5. Alike(pkgbuild', TopOf(world, run))
    BY <1>6, <2>1 DEF MadeFor, Top, TopOf
  <2>6. /\ sub < Len(names) => Well(world, run, "create", pkgbuild', sub + 1, dirs', output', compiled')
        /\ ~(sub < Len(names)) => Well(world, run, "install", pkgbuild', 1, dirs', output', compiled')
    <3>1. names = Names(world, run)
      BY DEF names
    <3>2. Well(world, run, "create", pkgbuild, sub, dirs, output, compiled)
      BY <1>1
    <3> QED
      BY <1>3, <1>4, <2>2, <2>3, <2>4, <2>5, <3>1, <3>2, DeliveredNext
  <2>7. \/ sub < Len(names) /\ sub' = sub + 1 /\ phase' = "create"
        \/ ~(sub < Len(names)) /\ sub' = 1 /\ phase' = "install"
    BY <1>1, <1>3, <2>1 DEF NextSub
  <2> QED
    BY Zenon, <1>1, <2>6, <2>7
<1> QED
  BY <1>9, <1>10

\* What was delivered stays through the installation.
LEMMA InstallWell ==
    ASSUME Well(world, run, phase, pkgbuild, sub, dirs, output, compiled), InstallPackage
    PROVE  Well(world, run, phase, pkgbuild, sub, dirs, output, compiled)'
<1>1. /\ phase = "install" /\ phase' \in {"done", "failed"} /\ world' = world /\ run' = run
      /\ pkgbuild' = pkgbuild /\ sub' = sub /\ dirs' = dirs /\ output' = output /\ compiled' = compiled
  BY DEF InstallPackage, Fail
<1>2. CASE phase' = "failed"
  BY Zenon, <1>2, FailedWell
<1>3. CASE phase' = "done"
  <2>1. Well(world, run, "done", pkgbuild, sub, dirs, output, compiled)
    BY <1>1 DEF Well, CompiledWell, PkgWell, PackagesWell
  <2> QED
    BY Zenon, <1>1, <1>3, <2>1
<1> QED
  BY <1>1, <1>2, <1>3

\* A run begins with nothing compiled.
LEMMA BeginsWell ==
    ASSUME NEW w, NEW n, NEW p, NEW there, NEW out
    PROVE  Well(w, n, "parse", p, 1, there, out, "")
BY DEF Well, CompiledWell, PkgWell, PackagesWell

\* Every step keeps that.
LEMMA StepKeepsWell ==
    ASSUME IInv, Well(world, run, phase, pkgbuild, sub, dirs, output, compiled), [Next]_vars
    PROVE  Well(world, run, phase, pkgbuild, sub, dirs, output, compiled)'
<1>1. CASE PopulateProjects
  BY <1>1, PopulateWell
<1>2. CASE SyncDependencies
  BY <1>2, SyncWell
<1>3. CASE ProcessFunction("prepare", "build")
  BY <1>3, ProcessWell DEF Passes
<1>4. CASE ProcessFunction("build", "check")
  BY <1>4, ProcessWell DEF Passes
<1>5. CASE ProcessFunction("check", "package")
  BY <1>5, ProcessWell DEF Passes
<1>6. CASE CompileSinglePackage
  BY <1>6, CompileSingleWell
<1>7. CASE CompileSplitPackages
  BY <1>7, CompileSplitWell
<1>8. CASE CreateSinglePackage
  BY <1>8, CreateSingleWell
<1>9. CASE CreateSplitPackages
  BY <1>9, CreateSplitWell
<1>10. CASE InstallPackage
  BY <1>10, InstallWell
<1>11. CASE RunAgain
  <2>1. phase' = "parse" /\ sub' = 1 /\ compiled' = ""
    BY <1>11 DEF RunAgain
  <2> QED
    BY Zenon, <2>1, BeginsWell
<1>12. CASE UNCHANGED vars
  <2>1. /\ world' = world /\ run' = run /\ phase' = phase /\ pkgbuild' = pkgbuild /\ sub' = sub
        /\ dirs' = dirs /\ output' = output /\ compiled' = compiled
    BY <1>12 DEF vars
  <2> QED
    BY Zenon, <2>1
<1> QED
  BY <1>1, <1>2, <1>3, <1>4, <1>5, <1>6, <1>7, <1>8, <1>9, <1>10, <1>11, <1>12 DEF Next

\* What the invariant says of a run that ended well.
LEMMA DoneIsDelivered ==
    ASSUME Well(world, run, phase, pkgbuild, sub, dirs, output, compiled)
    PROVE  SuccessIsDelivered
<1> SUFFICES ASSUME phase = "done",
                    NEW name \in (IF IsSplitPackage(pkgbuild) THEN ToSet(pkgbuild.pkgNames) ELSE {pkgbuild.pkgName}),
                    OwnFunction(name) \in DOMAIN pkgbuild.functions \/ "package" \in DOMAIN pkgbuild.functions
             PROVE  \E file \in DOMAIN output :
                        /\ output[file].metadata.name = name
                        /\ output[file].signed = world.sign
                        /\ \E f \in DOMAIN output[file].payload :
                              /\ output[file].payload[f].run = run
                              /\ \/ world.system = "cmake"
                                 \/ IsSplitPackage(pkgbuild) /\ world.compiles # "build"
                                 \/ output[file].payload[f].arch = EffectiveArch(pkgbuild)
  BY Zenon DEF SuccessIsDelivered
<1>1. /\ Alike(pkgbuild, TopOf(world, run))
      /\ ~Splits(world, run) => pkgbuild.pkgName = TopOf(world, run).pkgName
  BY DEF Well, PkgWell
<1>2. /\ IsSplitPackage(pkgbuild) <=> Splits(world, run)
      /\ pkgbuild.pkgNames = Names(world, run)
      /\ pkgbuild.functions = TopOf(world, run).functions
      /\ EffectiveArch(pkgbuild) = RightArch(world, run)
  BY <1>1 DEF Alike, IsSplitPackage, Splits, Names, RightArch, EffectiveArch
<1>3. HasFunction(world, run, name)
  BY <1>2 DEF HasFunction
<1>4. DeliveredTo(world, run, output, name)
  BY <1>1, <1>2 DEF Well, PackagesWell
<1>5. PICK file \in DOMAIN output : /\ output[file].metadata.name = name
                                    /\ output[file].signed = world.sign
                                    /\ HasProgram(world, run, output[file].payload)
  BY <1>3, <1>4 DEF DeliveredTo
<1>6. /\ "bin" \in DOMAIN output[file].payload /\ output[file].payload["bin"].run = run
      /\ AnyArch(world, run) \/ output[file].payload["bin"].arch = EffectiveArch(pkgbuild)
  BY <1>2, <1>5 DEF HasProgram
<1>7. AnyArch(world, run) => world.system = "cmake" \/ (IsSplitPackage(pkgbuild) /\ world.compiles # "build")
  BY <1>2 DEF AnyArch
<1> QED
  BY <1>5, <1>6, <1>7

\* A run that ends well has delivered each package that has a function: signed if that was
\* asked for, with the program it installed, compiled for the target but for CMake and
\* for what package functions of sub-packages compile.
THEOREM SuccessDelivers == Spec => []SuccessIsDelivered
<1>1. Init => IInv /\ Well(world, run, phase, pkgbuild, sub, dirs, output, compiled)
  <2> SUFFICES ASSUME Init PROVE IInv /\ Well(world, run, phase, pkgbuild, sub, dirs, output, compiled)
    OBVIOUS
  <2>1. phase = "parse" /\ sub = 1 /\ compiled = ""
    BY DEF Init
  <2>2. Well(world, run, phase, pkgbuild, sub, dirs, output, compiled)
    BY Zenon, <2>1, BeginsWell
  <2>3. IInv
    BY BeginsInvariant
  <2> QED
    BY <2>2, <2>3
<1>2. IInv /\ Well(world, run, phase, pkgbuild, sub, dirs, output, compiled) /\ [Next]_vars
        => IInv' /\ Well(world, run, phase, pkgbuild, sub, dirs, output, compiled)'
  BY StepKeepsInvariant, StepKeepsWell
<1>3. Well(world, run, phase, pkgbuild, sub, dirs, output, compiled) => SuccessIsDelivered
  BY DoneIsDelivered
<1> QED
  BY <1>1, <1>2, <1>3, PTL DEF Spec

--------------------------------------------------------------------------------
(* The dependencies of a cross build, from what is proved of the resolvers. *)

\* The resolvers, of the host of a deb build.
Deb == INSTANCE ResolversProofs WITH HostArch <- HostDebArch, Worlds <- {}, Ranked <- <<>>,
        todo <- {}, fetched <- {}, cache <- <<>>, result <- <<>>

\* Chunks without digits are compared the same way by both copies of the order.
LEMMA SameNonDigits ==
    ASSUME NEW s, NEW t
    PROVE  Cross!CompareNonDigit(s, t) = Deb!Apt!CompareNonDigit(s, t)
<1>1. ASSUME NEW S PROVE Cross!Min(S) = Deb!Apt!Min(S) /\ Cross!Max(S) = Deb!Apt!Max(S)
  BY DEF Cross!Min, Deb!Apt!Min, Cross!Max, Deb!Apt!Max
<1>2. ASSUME NEW m, NEW n PROVE Cross!CompareInt(m, n) = Deb!Apt!CompareInt(m, n)
  BY DEF Cross!CompareInt, Deb!Apt!CompareInt
<1>3. ASSUME NEW c PROVE Cross!DebCharOrder(c) = Deb!Apt!DebCharOrder(c)
  <2>1. Cross!Tilde = Deb!Apt!Tilde /\ (Cross!IsLetter(c) <=> Deb!Apt!IsLetter(c))
    BY DEF Cross!Tilde, Deb!Apt!Tilde, Cross!IsLetter, Deb!Apt!IsLetter
  <2> QED
    BY <2>1 DEF Cross!DebCharOrder, Deb!Apt!DebCharOrder
<1> DEFINE AtA(z, i) == Cross!DebCharOrder(IF i <= Len(z) THEN z[i] ELSE 0)
           AtB(z, i) == Deb!Apt!DebCharOrder(IF i <= Len(z) THEN z[i] ELSE 0)
           a == {i \in 1..Cross!Max({Len(s), Len(t)}) : AtA(s, i) # AtA(t, i)}
           b == {i \in 1..Deb!Apt!Max({Len(s), Len(t)}) : AtB(s, i) # AtB(t, i)}
<1>4. Cross!CompareNonDigit(s, t) =
          IF a = {} THEN 0 ELSE Cross!CompareInt(AtA(s, Cross!Min(a)), AtA(t, Cross!Min(a)))
  BY DEF Cross!CompareNonDigit, Cross!CompareBytes
<1>5. Deb!Apt!CompareNonDigit(s, t) =
          IF b = {} THEN 0 ELSE Deb!Apt!CompareInt(AtB(s, Deb!Apt!Min(b)), AtB(t, Deb!Apt!Min(b)))
  BY DEF Deb!Apt!CompareNonDigit, Deb!Apt!CompareBytes
<1>6. ASSUME NEW z, NEW i PROVE AtA(z, i) = AtB(z, i)
  BY <1>3
<1>7. Cross!Max({Len(s), Len(t)}) = Deb!Apt!Max({Len(s), Len(t)})
  BY <1>1
<1> HIDE DEF AtA, AtB
<1>8. a = b
  BY <1>6, <1>7
<1> HIDE DEF a, b
<1>9. Cross!Min(a) = Deb!Apt!Min(b)
  BY <1>1, <1>8
<1> QED
  BY <1>2, <1>4, <1>5, <1>6, <1>8, <1>9

\* Digits are compared the same way by both copies of the order.
LEMMA SameDigits ==
    ASSUME NEW s, NEW t
    PROVE  Cross!CompareDigit(s, t) = Deb!Apt!CompareDigit(s, t)
<1>1. ASSUME NEW S PROVE Cross!Min(S) = Deb!Apt!Min(S) /\ Cross!Max(S) = Deb!Apt!Max(S)
  BY DEF Cross!Min, Deb!Apt!Min, Cross!Max, Deb!Apt!Max
<1>2. ASSUME NEW m, NEW n PROVE Cross!CompareInt(m, n) = Deb!Apt!CompareInt(m, n)
  BY DEF Cross!CompareInt, Deb!Apt!CompareInt
<1>3. Cross!Zero = Deb!Apt!Zero
  BY DEF Cross!Zero, Deb!Apt!Zero
<1> DEFINE TrimA(z) == SubSeq(z, 1 + Cross!Max({n \in 0..Len(z) : \A i \in 1..n : z[i] = Cross!Zero}), Len(z))
           TrimB(z) == SubSeq(z, 1 + Deb!Apt!Max({n \in 0..Len(z) : \A i \in 1..n : z[i] = Deb!Apt!Zero}), Len(z))
           ByA(x, y) == LET at(z, i) == IF i <= Len(z) THEN z[i] ELSE 0
                          differ == {i \in 1..Cross!Max({Len(x), Len(y)}) : at(x, i) # at(y, i)}
                      IN  IF differ = {} THEN 0
                          ELSE Cross!CompareInt(at(x, Cross!Min(differ)), at(y, Cross!Min(differ)))
           ByB(x, y) == LET at(z, i) == IF i <= Len(z) THEN z[i] ELSE 0
                          differ == {i \in 1..Deb!Apt!Max({Len(x), Len(y)}) : at(x, i) # at(y, i)}
                      IN  IF differ = {} THEN 0
                          ELSE Deb!Apt!CompareInt(at(x, Deb!Apt!Min(differ)), at(y, Deb!Apt!Min(differ)))
<1>4. ASSUME NEW z PROVE TrimA(z) = TrimB(z)
  BY <1>1, <1>3
<1>5. ASSUME NEW x, NEW y PROVE ByA(x, y) = ByB(x, y)
  BY <1>1, <1>2
<1>6. Cross!CompareDigit(s, t) =
          IF Cross!CompareInt(Len(TrimA(s)), Len(TrimA(t))) # 0
          THEN Cross!CompareInt(Len(TrimA(s)), Len(TrimA(t))) ELSE ByA(TrimA(s), TrimA(t))
  BY DEF Cross!CompareDigit, Cross!CompareBytes
<1>7. Deb!Apt!CompareDigit(s, t) =
          IF Deb!Apt!CompareInt(Len(TrimB(s)), Len(TrimB(t))) # 0
          THEN Deb!Apt!CompareInt(Len(TrimB(s)), Len(TrimB(t))) ELSE ByB(TrimB(s), TrimB(t))
  BY DEF Deb!Apt!CompareDigit, Deb!Apt!CompareBytes
<1> HIDE DEF TrimA, TrimB, ByA, ByB
<1> QED
  BY <1>2, <1>4, <1>5, <1>6, <1>7

\* A number is read the same way.
LEMMA SameNumber ==
    ASSUME NEW s
    PROVE  /\ Cross!IsNumber(s) <=> Deb!Apt!IsNumber(s)
           /\ Cross!Atoi(s) = Deb!Apt!Atoi(s)
<1>1. ASSUME NEW n PROVE Cross!Decimal(n) = Deb!Apt!Decimal(n)
  BY DEF Cross!Decimal, Deb!Apt!Decimal, Cross!Zero, Deb!Apt!Zero
<1>2. Cross!Hyphen = Deb!Apt!Hyphen /\ Cross!Plus = Deb!Apt!Plus
  BY DEF Cross!Hyphen, Deb!Apt!Hyphen, Cross!Plus, Deb!Apt!Plus
<1>3. Cross!Negative(s) <=> Deb!Apt!Negative(s)
  BY <1>2 DEF Cross!Negative, Deb!Apt!Negative
<1>4. Cross!Unsigned(s) = Deb!Apt!Unsigned(s)
  BY <1>2 DEF Cross!Unsigned, Deb!Apt!Unsigned, Cross!Signed, Deb!Apt!Signed
<1>5. Cross!Largest(s) = Deb!Apt!Largest(s)
  BY <1>3 DEF Cross!Largest, Deb!Apt!Largest
<1>6. ASSUME NEW n PROVE Cross!IsDigit(n) <=> Deb!Apt!IsDigit(n)
  BY DEF Cross!IsDigit, Deb!Apt!IsDigit
<1>7. Cross!CompareDigit(Cross!Unsigned(s), Cross!Largest(s))
          = Deb!Apt!CompareDigit(Deb!Apt!Unsigned(s), Deb!Apt!Largest(s))
  BY <1>4, <1>5, SameDigits
<1>8. Cross!IsNumber(s) <=> Deb!Apt!IsNumber(s)
  BY <1>4, <1>6, <1>7 DEF Cross!IsNumber, Deb!Apt!IsNumber, Cross!AtMost, Deb!Apt!AtMost
<1>9. Cross!Atoi(s) = Deb!Apt!Atoi(s)
  BY <1>1, <1>3, <1>4 DEF Cross!Atoi, Deb!Apt!Atoi
<1> QED
  BY <1>8, <1>9

\* A version is split the same way.
LEMMA SameSplit ==
    ASSUME NEW v
    PROVE  Cross!SplitDebVersion(v) = Deb!Apt!SplitDebVersion(v)
<1>1. ASSUME NEW n PROVE Cross!Atoi(n) = Deb!Apt!Atoi(n) /\ (Cross!IsNumber(n) <=> Deb!Apt!IsNumber(n))
  BY SameNumber
<1>2. ASSUME NEW S PROVE Cross!Min(S) = Deb!Apt!Min(S) /\ Cross!Max(S) = Deb!Apt!Max(S)
  BY DEF Cross!Min, Deb!Apt!Min, Cross!Max, Deb!Apt!Max
<1>3. Cross!Colon = Deb!Apt!Colon /\ Cross!Hyphen = Deb!Apt!Hyphen
  BY DEF Cross!Colon, Deb!Apt!Colon, Cross!Hyphen, Deb!Apt!Hyphen
<1>4. ASSUME NEW e, NEW w PROVE Cross!SplitRevision(e, w) = Deb!Apt!SplitRevision(e, w)
  BY <1>2, <1>3 DEF Cross!SplitRevision, Deb!Apt!SplitRevision
<1> QED
  BY <1>1, <1>2, <1>3, <1>4 DEF Cross!SplitDebVersion, Deb!Apt!SplitDebVersion

\* Its parts are compared the same way.
LEMMA SamePart == Cross!CompareVersionPart = Deb!Apt!CompareVersionPart
<1> DEFINE NextA(f, a, b) ==
               LET na == Cross!SplitNonDigit(a)   nb == Cross!SplitNonDigit(b)
                   da == Cross!SplitDigit(Cross!After(a, na))
                   db == Cross!SplitDigit(Cross!After(b, nb))
                   ra == Cross!After(a, na \o da)   rb == Cross!After(b, nb \o db)
               IN  IF Cross!CompareNonDigit(na, nb) # 0 THEN Cross!CompareNonDigit(na, nb)
                   ELSE IF Cross!CompareDigit(da, db) # 0 THEN Cross!CompareDigit(da, db)
                   ELSE IF ra = <<>> /\ rb = <<>> THEN 0
                   ELSE f[<<ra, rb>>]
           A(f) == f = [p \in Seq(Deb!Apt!Byte) \X Seq(Deb!Apt!Byte) |-> NextA(f, p[1], p[2])]
           NextB(f, a, b) ==
               LET na == Deb!Apt!SplitNonDigit(a)   nb == Deb!Apt!SplitNonDigit(b)
                   da == Deb!Apt!SplitDigit(Deb!Apt!After(a, na))
                   db == Deb!Apt!SplitDigit(Deb!Apt!After(b, nb))
                   ra == Deb!Apt!After(a, na \o da)   rb == Deb!Apt!After(b, nb \o db)
               IN  IF Deb!Apt!CompareNonDigit(na, nb) # 0 THEN Deb!Apt!CompareNonDigit(na, nb)
                   ELSE IF Deb!Apt!CompareDigit(da, db) # 0 THEN Deb!Apt!CompareDigit(da, db)
                   ELSE IF ra = <<>> /\ rb = <<>> THEN 0
                   ELSE f[<<ra, rb>>]
           B(f) == f = [p \in Seq(Deb!Apt!Byte) \X Seq(Deb!Apt!Byte) |-> NextB(f, p[1], p[2])]
<1>1. ASSUME NEW S PROVE Cross!Min(S) = Deb!Apt!Min(S) /\ Cross!Max(S) = Deb!Apt!Max(S)
  BY DEF Cross!Min, Deb!Apt!Min, Cross!Max, Deb!Apt!Max
<1>2. ASSUME NEW s
      PROVE  Cross!SplitDigit(s) = Deb!Apt!SplitDigit(s) /\ Cross!SplitNonDigit(s) = Deb!Apt!SplitNonDigit(s)
  BY <1>1 DEF Cross!SplitDigit, Deb!Apt!SplitDigit, Cross!SplitNonDigit, Deb!Apt!SplitNonDigit, Cross!IsDigit, Deb!Apt!IsDigit
<1>3. ASSUME NEW s, NEW t PROVE Cross!After(s, t) = Deb!Apt!After(s, t)
  BY DEF Cross!After, Deb!Apt!After
<1>4. ASSUME NEW s, NEW t PROVE Cross!CompareNonDigit(s, t) = Deb!Apt!CompareNonDigit(s, t)
  BY SameNonDigits
<1>5. ASSUME NEW s, NEW t PROVE Cross!CompareDigit(s, t) = Deb!Apt!CompareDigit(s, t)
  BY SameDigits
<1>6. Cross!Byte = Deb!Apt!Byte
  BY DEF Cross!Byte, Deb!Apt!Byte
<1>7. ASSUME NEW f PROVE A(f) <=> B(f)
  <2>1. ASSUME NEW a, NEW b PROVE NextA(f, a, b) = NextB(f, a, b)
    <3> DEFINE na == Deb!Apt!SplitNonDigit(a)   nb == Deb!Apt!SplitNonDigit(b)
               da == Deb!Apt!SplitDigit(Deb!Apt!After(a, na))   db == Deb!Apt!SplitDigit(Deb!Apt!After(b, nb))
    <3>1. Cross!SplitNonDigit(a) = na /\ Cross!SplitNonDigit(b) = nb
      BY <1>2
    <3>2. Cross!SplitDigit(Cross!After(a, na)) = da /\ Cross!SplitDigit(Cross!After(b, nb)) = db
      BY <1>2, <1>3
    <3>3. /\ Cross!CompareNonDigit(na, nb) = Deb!Apt!CompareNonDigit(na, nb)
          /\ Cross!CompareDigit(da, db) = Deb!Apt!CompareDigit(da, db)
          /\ Cross!After(a, na \o da) = Deb!Apt!After(a, na \o da)
          /\ Cross!After(b, nb \o db) = Deb!Apt!After(b, nb \o db)
      BY <1>3, <1>4, <1>5
    <3>4. /\ Deb!Apt!SplitNonDigit(a) = na /\ Deb!Apt!SplitNonDigit(b) = nb
          /\ Deb!Apt!SplitDigit(Deb!Apt!After(a, na)) = da /\ Deb!Apt!SplitDigit(Deb!Apt!After(b, nb)) = db
      OBVIOUS
    <3> DEFINE n == Deb!Apt!CompareNonDigit(na, nb)   d == Deb!Apt!CompareDigit(da, db)
               ra == Deb!Apt!After(a, na \o da)   rb == Deb!Apt!After(b, nb \o db)
               next == IF n # 0 THEN n ELSE IF d # 0 THEN d
                       ELSE IF ra = <<>> /\ rb = <<>> THEN 0 ELSE f[<<ra, rb>>]
    <3> HIDE DEF na, nb, da, db
    <3>5. NextB(f, a, b) = next
      BY <3>4
    <3>6. NextA(f, a, b) = next
      <4> DEFINE m == Cross!CompareNonDigit(na, nb)   e == Cross!CompareDigit(da, db)
                 qa == Cross!After(a, na \o da)   qb == Cross!After(b, nb \o db)
      <4>1. NextA(f, a, b) = IF m # 0 THEN m ELSE IF e # 0 THEN e
                             ELSE IF qa = <<>> /\ qb = <<>> THEN 0 ELSE f[<<qa, qb>>]
        BY <3>1, <3>2
      <4>2. m = n /\ e = d /\ qa = ra /\ qb = rb
        BY <3>3
      <4> HIDE DEF m, e, qa, qb, n, d, ra, rb, NextA
      <4> QED
        BY <4>1, <4>2
    <3> QED
      BY <3>5, <3>6
  <2> HIDE DEF NextA, NextB
  <2> QED
    BY <2>1
<1>8. Cross!CompareVersionPart = CHOOSE f : A(f)
  BY <1>6 DEF Cross!CompareVersionPart
<1>9. Deb!Apt!CompareVersionPart = CHOOSE f : B(f)
  BY DEF Deb!Apt!CompareVersionPart
<1> HIDE DEF A, B
<1>10. (CHOOSE f : A(f)) = (CHOOSE f : B(f))
  BY <1>7
<1> QED
  BY <1>8, <1>9, <1>10

\* And so are versions.
LEMMA SameCompare ==
    ASSUME NEW v, NEW w
    PROVE  Cross!CompareDebVersion(v, w) = Deb!Apt!CompareDebVersion(v, w)
<1>1. Cross!SplitDebVersion(v) = Deb!Apt!SplitDebVersion(v) /\ Cross!SplitDebVersion(w) = Deb!Apt!SplitDebVersion(w)
  BY SameSplit
<1> QED
  BY <1>1, SamePart DEF Cross!CompareDebVersion, Deb!Apt!CompareDebVersion, Cross!CompareInt, Deb!Apt!CompareInt

\* A stanza is merged the same way.
LEMMA SameMerge ==
    ASSUME NEW e, NEW s, NEW dpkg, NEW repo
    PROVE  Cross!MergePackageInfo(e, s, dpkg, repo) = Deb!Apt!MergePackageInfo(e, s, dpkg, repo)
<1>1. Cross!CompareDebVersion(s.version, e.version) = Deb!Apt!CompareDebVersion(s.version, e.version)
  BY SameCompare
<1> QED
  BY <1>1 DEF Cross!MergePackageInfo, Deb!Apt!MergePackageInfo,
       Cross!CopyStanzaArtifacts, Deb!Apt!CopyStanzaArtifacts, Cross!ParseDependsField, Deb!Apt!ParseDependsField

\* An entry is merged the same way.
LEMMA SameMergeFields ==
    ASSUME NEW e, NEW i
    PROVE  Cross!MergeEntryFields(e, i) = Deb!Apt!MergeEntryFields(e, i)
<1>1. Cross!InfoArtifactsWin(e, i) = Deb!Apt!InfoArtifactsWin(e, i)
  <2>1. Cross!CompareDebVersion(i.version, e.version) = Deb!Apt!CompareDebVersion(i.version, e.version)
    BY SameCompare
  <2> QED
    BY <2>1 DEF Cross!InfoArtifactsWin, Deb!Apt!InfoArtifactsWin
<1> QED
  BY <1>1 DEF Cross!MergeEntryFields, Deb!Apt!MergeEntryFields, Cross!CopyInfoArtifacts, Deb!Apt!CopyInfoArtifacts

\* And so is a cache.
LEMMA SameMergeFrom ==
    ASSUME NEW c, NEW d
    PROVE  Cross!MergeFrom(c, d) = Deb!Apt!MergeFrom(c, d)
<1> DEFINE new == DOMAIN d.entries \ DOMAIN c.entries
           A == [key \in DOMAIN c.entries \cup new |->
                    IF key \in new THEN d.entries[key]
                    ELSE IF key \in DOMAIN d.entries
                    THEN Cross!MergeEntryFields(c.entries[key], d.entries[key])
                    ELSE c.entries[key]]
           B == [key \in DOMAIN c.entries \cup new |->
                    IF key \in new THEN d.entries[key]
                    ELSE IF key \in DOMAIN d.entries
                    THEN Deb!Apt!MergeEntryFields(c.entries[key], d.entries[key])
                    ELSE c.entries[key]]
<1>1. A = B
  BY SameMergeFields
<1> HIDE DEF A, B
<1> QED
  BY <1>1 DEF Cross!MergeFrom, Deb!Apt!MergeFrom, Cross!At, Deb!Apt!At, A, B

\* A stanza is added the same way.
LEMMA SameFlush ==
    ASSUME NEW c, NEW s, NEW dpkg, NEW repo
    PROVE  Cross!FlushStanza(c, s, dpkg, repo) = Deb!Apt!FlushStanza(c, s, dpkg, repo)
<1> DEFINE key == Deb!Apt!EntryKey(s.name, s.arch)
           old == IF key \in DOMAIN c.entries THEN c.entries[key] ELSE Deb!Apt!Fresh(s.name)
           A == Cross!MergePackageInfo(old, s, dpkg, repo)
           B == Deb!Apt!MergePackageInfo(old, s, dpkg, repo)
           new(m) == [c EXCEPT !.entries = Deb!Apt!Put(@, key, m)]
<1>1. A = B
  BY SameMerge
<1>2. /\ Cross!EntryKey(s.name, s.arch) = key /\ Cross!Fresh(s.name) = Deb!Apt!Fresh(s.name)
      /\ \A f, x, y : Cross!Put(f, x, y) = Deb!Apt!Put(f, x, y)
  BY DEF Cross!EntryKey, Deb!Apt!EntryKey, Cross!Fresh, Deb!Apt!Fresh, Cross!Put, Deb!Apt!Put
<1>3. ASSUME NEW d PROVE Cross!FlushProvides(d, s) = Deb!Apt!FlushProvides(d, s)
  BY DEF Cross!FlushProvides, Deb!Apt!FlushProvides, Cross!Kept, Deb!Apt!Kept, Cross!Range, Deb!Apt!Range,
         Cross!At, Deb!Apt!At
<1>4. ASSUME NEW d PROVE Cross!AddToBareName(d, s.name, key) = Deb!Apt!AddToBareName(d, s.name, key)
  BY DEF Cross!AddToBareName, Deb!Apt!AddToBareName, Cross!Put, Deb!Apt!Put, Cross!At, Deb!Apt!At
<1>5. Cross!FlushStanza(c, s, dpkg, repo) = Cross!AddToBareName(Cross!FlushProvides(new(A), s), s.name, key)
  BY <1>2 DEF Cross!FlushStanza
<1>6. Deb!Apt!FlushStanza(c, s, dpkg, repo) = Deb!Apt!AddToBareName(Deb!Apt!FlushProvides(new(B), s), s.name, key)
  BY DEF Deb!Apt!FlushStanza
<1> HIDE DEF A, B, new
<1> QED
  BY <1>1, <1>3, <1>4, <1>5, <1>6

\* A file is parsed the same way.
LEMMA SameParse ==
    ASSUME NEW c, NEW stanzas, NEW dpkg, NEW repo
    PROVE  Cross!ParseFile(c, stanzas, dpkg, repo) = Deb!Apt!ParseFile(c, stanzas, dpkg, repo)
<1> DEFINE N == Len(stanzas)
           A(f) == f = [n \in 0..N |-> IF n = 0 THEN c ELSE Cross!FlushStanza(f[n - 1], stanzas[n], dpkg, repo)]
           B(f) == f = [n \in 0..N |-> IF n = 0 THEN c ELSE Deb!Apt!FlushStanza(f[n - 1], stanzas[n], dpkg, repo)]
<1>1. ASSUME NEW f PROVE A(f) <=> B(f)
  BY SameFlush
<1>2. Cross!ParseFile(c, stanzas, dpkg, repo) = (CHOOSE f : A(f))[N]
  BY DEF Cross!ParseFile
<1>3. Deb!Apt!ParseFile(c, stanzas, dpkg, repo) = (CHOOSE f : B(f))[N]
  BY DEF Deb!Apt!ParseFile
<1> HIDE DEF A, B
<1>4. (CHOOSE f : A(f)) = (CHOOSE f : B(f))
  BY <1>1
<1> QED
  BY <1>2, <1>3, <1>4

\* The lists are read the same way.
LEMMA SameLists ==
    ASSUME NEW c, NEW lists
    PROVE  Cross!LoadAptLists(c, lists) = Deb!Apt!LoadAptLists(c, lists)
<1> DEFINE N == Len(lists)
           none == Deb!Apt!NewEmptyCache
           A(f) == f = [n \in 0..N |->
                           IF n = 0 THEN c
                           ELSE Cross!MergeFrom(f[n - 1], Cross!ParseFile(none, lists[n].stanzas, FALSE, lists[n].repo))]
           B(f) == f = [n \in 0..N |->
                           IF n = 0 THEN c
                           ELSE Deb!Apt!MergeFrom(f[n - 1], Deb!Apt!ParseFile(none, lists[n].stanzas, FALSE, lists[n].repo))]
<1>1. ASSUME NEW f PROVE A(f) <=> B(f)
  BY SameParse, SameMergeFrom
<1>2. Cross!NewEmptyCache = none
  BY DEF Cross!NewEmptyCache, Deb!Apt!NewEmptyCache
<1>3. Cross!LoadAptLists(c, lists) = (CHOOSE f : A(f))[N]
  BY <1>2 DEF Cross!LoadAptLists
<1>4. Deb!Apt!LoadAptLists(c, lists) = (CHOOSE f : B(f))[N]
  BY DEF Deb!Apt!LoadAptLists
<1> HIDE DEF A, B
<1>5. (CHOOSE f : A(f)) = (CHOOSE f : B(f))
  BY <1>1
<1> QED
  BY <1>3, <1>4, <1>5

\* The same is read from the disk.
LEMMA SameLoad ==
    ASSUME NEW lists, NEW status
    PROVE  /\ Cross!LoadAptLists(Cross!NewEmptyCache, lists) = Deb!Apt!LoadAptLists(Deb!Apt!NewEmptyCache, lists)
           /\ Cross!LoadFromDisk(lists, status) = Deb!Apt!LoadFromDisk(lists, status)
<1>1. Cross!NewEmptyCache = Deb!Apt!NewEmptyCache
  BY DEF Cross!NewEmptyCache, Deb!Apt!NewEmptyCache
<1>2. Cross!LoadAptLists(Cross!NewEmptyCache, lists) = Deb!Apt!LoadAptLists(Deb!Apt!NewEmptyCache, lists)
  BY <1>1, SameLists
<1> QED
  BY <1>2, SameParse DEF Cross!LoadFromDisk, Deb!Apt!LoadFromDisk, Cross!LoadDpkgStatus, Deb!Apt!LoadDpkgStatus

\* What is said of the resolvers is said of them for the host of a build.
LEMMA ResolversApply == Deb!ResolversAssumption /\ Deb!RankedAssumption
<1>1. Deb!ResolversAssumption
  BY CrossAssumption DEF CrossAssumption, Deb!ResolversAssumption
<1>2. <<>> \in Seq(Seq(Deb!Apt!Byte) \ {<<>>})
  OBVIOUS
<1>3. Deb!RankedAssumption
  BY <1>2 DEF Deb!RankedAssumption
<1> QED
  BY <1>1, <1>3

\* Ranges are the same everywhere.
LEMMA SameRanges ==
    ASSUME NEW s
    PROVE  Range(s) = Deb!Range(s) /\ ToSet(s) = Deb!Range(s) /\ Cross!Range(s) = Deb!Range(s)
BY DEF Range, ToSet, Cross!Range, Deb!Range

\* And what is kept of a sequence.
LEMMA SameKept ==
    ASSUME NEW s, NEW T
    PROVE  Cross!Kept(s, T) = Deb!Kept(s, T)
BY DEF Cross!Kept, Deb!Kept

\* The closure is resolved the same way.
LEMMA SameResolve ==
    ASSUME NEW c, NEW seeds
    PROVE  Cross!ResolveDeps(c, seeds) = Deb!Apt!ResolveDeps(c, seeds)
<1>1. Cross!Graph(c) = Deb!Apt!Graph(c)
  BY DEF Cross!Graph, Deb!Apt!Graph, Cross!EntryKey, Deb!Apt!EntryKey, Cross!Candidates, Deb!Apt!Candidates,
         Cross!RedirectForeignToHost, Deb!Apt!RedirectForeignToHost, Cross!At, Deb!Apt!At,
         Cross!Kept, Deb!Apt!Kept, Cross!ScanEntryByName, Deb!Apt!ScanEntryByName
<1>2. Cross!VisitState = Deb!Apt!VisitState
  BY DEF Cross!VisitState, Deb!Apt!VisitState
<1>3. ASSUME NEW S, NEW g PROVE Cross!VisitAll(S, g, seeds) = Deb!Apt!VisitAll(S, g, seeds)
  BY DEF Cross!VisitAll, Cross!Visit, Cross!Walk, Cross!NothingSeen,
         Deb!Apt!VisitAll, Deb!Apt!Visit, Deb!Apt!Walk, Deb!Apt!NothingSeen
<1> QED
  BY <1>1, <1>2, <1>3 DEF Cross!ResolveDeps, Deb!Apt!ResolveDeps

\* What is asked for is found the same way.
LEMMA SameSeeds ==
    ASSUME NEW c, NEW deps
    PROVE  Cross!FilterInstalledDEB(c, deps) = Deb!Apt!FilterInstalledDEB(c, deps)
<1> DEFINE A == {seed \in Cross!Range(deps) :
                    \/ seed[2] \notin {"", HostDebArch}
                    \/ Cross!Lookup(c, seed[1]) = <<>>
                    \/ ~c.entries[Cross!Lookup(c, seed[1])[1]].installed}
           B == {seed \in Deb!Apt!Range(deps) :
                    \/ seed[2] \notin {"", HostDebArch}
                    \/ Deb!Apt!Lookup(c, seed[1]) = <<>>
                    \/ ~c.entries[Deb!Apt!Lookup(c, seed[1])[1]].installed}
<1>1. ASSUME NEW n PROVE Cross!Lookup(c, n) = Deb!Apt!Lookup(c, n)
  BY DEF Cross!Lookup, Deb!Apt!Lookup, Cross!Kept, Deb!Apt!Kept, Cross!ScanEntryByName, Deb!Apt!ScanEntryByName,
         Cross!At, Deb!Apt!At
<1>2. Cross!Range(deps) = Deb!Apt!Range(deps)
  BY DEF Cross!Range, Deb!Apt!Range
<1>3. A = B
  BY <1>1, <1>2
<1>4. Cross!FilterInstalledDEB(c, deps) = Cross!Kept(deps, A)
  BY DEF Cross!FilterInstalledDEB
<1>5. Deb!Apt!FilterInstalledDEB(c, deps) = Deb!Apt!Kept(deps, B)
  BY DEF Deb!Apt!FilterInstalledDEB
<1> HIDE DEF A, B
<1>6. Cross!Kept(deps, A) = Deb!Apt!Kept(deps, A)
  BY DEF Cross!Kept, Deb!Apt!Kept
<1> QED
  BY <1>3, <1>4, <1>5, <1>6

\* And a virtual package stands for the same provider.
LEMMA SameVirtual ==
    ASSUME NEW c, NEW seed
    PROVE  Cross!ResolveVirtual(c, seed) = Deb!Apt!ResolveVirtual(c, seed)
BY DEF Cross!ResolveVirtual, Deb!Apt!ResolveVirtual, Cross!At, Deb!Apt!At

\* What a plan for the host has is in the cache, and runs on the host or can be installed
\* beside it.
LEMMA PlanIs ==
    ASSUME NEW c \in Deb!AptCaches, NEW deps \in Seq(Deb!Keys)
    PROVE  LET plan == Cross!InstallPlan(c, deps)
           IN  /\ plan \in Seq(Deb!Keys)
               /\ \A p \in Deb!Range(plan) :
                     /\ p \in DOMAIN c.entries
                     /\ c.entries[p].arch \in {"", "all", HostDebArch} \/ c.entries[p].multiArch = "same"
<1> DEFINE seeds == Deb!AptSeeds(c, deps)
           order == Deb!Apt!ResolveDeps(c, seeds).order
           T == {key \in Cross!Range(order) : \/ c.entries[key].arch \in {"", "all", HostDebArch}
                                              \/ c.entries[key].multiArch = "same"}
           plan == Cross!InstallPlan(c, deps)
<1>1. seeds \in Seq(Deb!Keys)
  BY ResolversApply, Deb!AptSeedsAre
<1>2. seeds = [n \in DOMAIN Cross!FilterInstalledDEB(c, deps) |->
                  Cross!ResolveVirtual(c, Cross!FilterInstalledDEB(c, deps)[n])]
  BY SameSeeds, SameVirtual DEF Deb!AptSeeds
<1> HIDE DEF seeds
<1>3. plan = Cross!FilterForeignArchPackages(c, order)
  BY <1>2, SameResolve DEF Cross!InstallPlan
<1> HIDE DEF order
<1>4. plan = Cross!Kept(order, T)
  BY <1>3 DEF Cross!FilterForeignArchPackages
<1> HIDE DEF T, plan
<1>5. order \in Seq(Deb!Keys) /\ Deb!Range(order) \subseteq DOMAIN c.entries
  BY <1>1, ResolversApply, Deb!ResolvedAreThere DEF order
<1>6. plan \in Seq(Deb!Keys) /\ Deb!Range(plan) = Deb!Range(order) \cap T
  BY <1>4, <1>5, SameKept, ResolversApply, Deb!KeptElements
<1>7. \A p \in Deb!Range(plan) :
         /\ p \in DOMAIN c.entries
         /\ c.entries[p].arch \in {"", "all", HostDebArch} \/ c.entries[p].multiArch = "same"
  BY <1>5, <1>6 DEF T
<1> QED
  BY <1>6, <1>7 DEF plan

\* What is unpacked at the paths of a name: the last package of it that shares no
\* paths, or what was there.
LEMMA UnpackIs ==
    ASSUME NEW c, NEW paths, NEW S, NEW plan \in Seq(S)
    PROVE  LET u == Cross!Unpack(c, paths, plan)
           IN  \A name \in DOMAIN u :
                  \/ \E p \in Deb!Range(plan) : /\ p[1] = name /\ c.entries[p].multiArch # "same"
                                              /\ u[name] = c.entries[p].arch
                  \/ /\ name \in DOMAIN paths /\ u[name] = paths[name]
                     /\ \A p \in Deb!Range(plan) : c.entries[p].multiArch # "same" => p[1] # name
<1> DEFINE T == {key \in Cross!Range(plan) : c.entries[key].multiArch # "same"}
           own == Cross!Kept(plan, T)
           Of(name) == {n \in DOMAIN own : own[n][1] = name}
           Latest(name) == CHOOSE n \in DOMAIN own :
                            own[n][1] = name /\ \A m \in DOMAIN own : own[m][1] = name => m <= n
           names == {own[n][1] : n \in DOMAIN own}
           u == Cross!Unpack(c, paths, plan)
<1>1. u = [name \in DOMAIN paths \cup names |->
              IF name \in names THEN c.entries[own[Latest(name)]].arch ELSE paths[name]]
  BY DEF Cross!Unpack
<1>2. own \in Seq(S) /\ Deb!Range(own) = Deb!Range(plan) \cap T
  BY SameKept, ResolversApply, Deb!KeptElements
<1>3. Deb!Range(own) = {key \in Deb!Range(plan) : c.entries[key].multiArch # "same"}
  BY <1>2, SameRanges
<1> HIDE DEF own, u, T
<1>4. DOMAIN own = 1..Len(own) /\ Len(own) \in Nat
  BY <1>2
<1>5. ASSUME NEW name \in names
      PROVE  Latest(name) \in DOMAIN own /\ own[Latest(name)][1] = name
  <2> DEFINE U == {Len(own) - n : n \in Of(name)}
  <2>1. PICK k \in DOMAIN own : own[k][1] = name
    OBVIOUS
  <2>2. U \in SUBSET Nat /\ U # {}
    BY <1>4, <2>1
  <2>3. PICK x \in U : \A y \in U : x <= y
    <3> HIDE DEF U
    <3> QED
      BY <2>2, LeastElement
  <2>4. PICK n \in Of(name) : x = Len(own) - n
    BY <2>3
  <2>5. \A m \in DOMAIN own : own[m][1] = name => m <= n
    <3> SUFFICES ASSUME NEW m \in DOMAIN own, own[m][1] = name PROVE m <= n
      OBVIOUS
    <3>1. Len(own) - m \in U
      OBVIOUS
    <3>2. Len(own) - n <= Len(own) - m
      BY <2>3, <2>4, <3>1
    <3>3. m \in Int /\ n \in Int
      BY <1>4
    <3> QED
      BY <1>4, <3>2, <3>3
  <2>6. n \in DOMAIN own /\ own[n][1] = name
    OBVIOUS
  <2> QED
    BY <2>5, <2>6
<1> HIDE DEF Latest
<1>6. ASSUME NEW name \in DOMAIN u
      PROVE  \/ \E p \in Deb!Range(plan) : /\ p[1] = name /\ c.entries[p].multiArch # "same"
                                         /\ u[name] = c.entries[p].arch
             \/ /\ name \in DOMAIN paths /\ u[name] = paths[name]
                /\ \A p \in Deb!Range(plan) : c.entries[p].multiArch # "same" => p[1] # name
  <2>1. CASE name \in names
    <3> DEFINE p == own[Latest(name)]
    <3>1. p \in Deb!Range(own) /\ p[1] = name
      BY <1>5, <2>1 DEF Deb!Range
    <3>2. u[name] = c.entries[p].arch
      BY <1>1, <2>1
    <3> HIDE DEF p
    <3> QED
      BY <1>3, <3>1, <3>2
  <2>2. CASE name \notin names
    <3>1. name \in DOMAIN paths /\ u[name] = paths[name]
      BY <1>1, <2>2
    <3>2. ASSUME NEW p \in Deb!Range(plan), c.entries[p].multiArch # "same" PROVE p[1] # name
      <4>1. p \in Deb!Range(own)
        BY <1>3, <3>2
      <4>2. PICK n \in DOMAIN own : own[n] = p
        BY <4>1 DEF Deb!Range
      <4> QED
        BY <2>2, <4>2
    <3> QED
      BY <3>1, <3>2
  <2> QED
    BY <2>1, <2>2
<1> QED
  BY <1>6 DEF u

\* What the lists offer, and the class of the packages of each name.
Offered(w) == Deb!Apt!LoadAptLists(Deb!Apt!NewEmptyCache, w.lists).entries
ListedIn(w) == UNION {Range(list.stanzas) : list \in Range(w.lists)}
StanzasOf(w) == ListedIn(w) \cup Range(w.stanzas)
ClassOf(w) == [name \in STRING |-> CHOOSE m : \E s \in StanzasOf(w) : s.name = name /\ s.multiArch = m]

\* The elements of a sequence.
LEMMA ElementsAre ==
    ASSUME NEW S, NEW s \in Seq(S)
    PROVE  /\ Len(s) \in Nat /\ DOMAIN s = 1..Len(s) /\ \A n \in 1..Len(s) : s[n] \in S
           /\ \A x \in Deb!Range(s) : x \in S
BY DEF Deb!Range

\* What is known of the lists and the stanzas of a world.
LEMMA WorldTells ==
    ASSUME NEW w \in Worlds
    PROVE  /\ Len(w.lists) \in Nat /\ DOMAIN w.lists = 1..Len(w.lists)
           /\ \A n \in 1..Len(w.lists) : Deb!IsListOf(w.lists[n])
           /\ \A s \in Deb!ListedOf(w.lists) : Deb!InList(s, ClassOf(w))
           /\ w.stanzas \in Seq(Deb!Apt!Stanza)
           /\ \A s \in Deb!Range(w.stanzas) :
                 Deb!Classed(s, ClassOf(w)) /\ s.file = "" /\ Deb!Same(Offered(w), s)
<1> DEFINE Listed == ListedIn(w)
           L == [repo : STRING, stanzas : Seq(Deb!Apt!Stanza)]
           lists == w.lists
           stanzas == w.stanzas
           entries == Cross!LoadAptLists(Cross!NewEmptyCache, w.lists).entries
<1>1. /\ w.lists \in Seq([repo : STRING, stanzas : Seq(Cross!Stanza)])
      /\ w.stanzas \in Seq(Cross!Stanza)
      /\ \A s, t \in Listed \cup Range(w.stanzas) : s.name = t.name => s.multiArch = t.multiArch
      /\ \A s \in Listed : s.arch # "" /\ s.version # <<>> /\ s.file # ""
      /\ \A s \in Range(w.stanzas) :
            /\ s.file = ""
            /\ Cross!EntryKey(s.name, s.arch) \in DOMAIN entries =>
                  Cross!ParseDependsField(s.depends) = entries[Cross!EntryKey(s.name, s.arch)].depends
  BY CrossAssumption DEF CrossAssumption, ListedIn
<1>2. Cross!Stanza = Deb!Apt!Stanza
  BY DEF Cross!Stanza, Deb!Apt!Stanza, Cross!Byte, Deb!Apt!Byte, Cross!Dependency, Deb!Apt!Dependency
<1>3. entries = Offered(w)
  BY SameLoad DEF Offered
<1> HIDE DEF entries
<1>4. /\ Len(w.lists) \in Nat /\ DOMAIN w.lists = 1..Len(w.lists)
      /\ \A n \in 1..Len(w.lists) : w.lists[n] \in [repo : STRING, stanzas : Seq(Deb!Apt!Stanza)]
  <2>1. lists \in Seq(L)
    BY <1>1, <1>2
  <2> HIDE DEF lists, L
  <2>2. Len(lists) \in Nat /\ DOMAIN lists = 1..Len(lists) /\ \A n \in 1..Len(lists) : lists[n] \in L
    BY <2>1, ElementsAre
  <2> QED
    BY <2>2 DEF lists, L
<1>5. \A n \in 1..Len(w.lists) : Deb!IsListOf(w.lists[n])
  BY <1>4 DEF Deb!IsListOf
<1>6. Listed = Deb!ListedOf(w.lists)
  BY SameRanges DEF Deb!ListedOf, ListedIn, Range
<1>7. StanzasOf(w) = Listed \cup Range(w.stanzas)
  BY DEF StanzasOf
<1> HIDE DEF Listed
<1>8. \A s \in Deb!ListedOf(w.lists) : s \in Deb!Apt!Stanza
  <2> SUFFICES ASSUME NEW n \in DOMAIN w.lists, NEW s \in Deb!Range(w.lists[n].stanzas)
               PROVE  s \in Deb!Apt!Stanza
    BY DEF Deb!ListedOf
  <2>1. w.lists[n].stanzas \in Seq(Deb!Apt!Stanza)
    BY <1>4
  <2> QED
    BY <2>1 DEF Deb!Range
<1>9. w.stanzas \in Seq(Deb!Apt!Stanza) /\ \A s \in Deb!Range(w.stanzas) : s \in Deb!Apt!Stanza
  <2>1. stanzas \in Seq(Deb!Apt!Stanza)
    BY <1>1, <1>2
  <2> HIDE DEF stanzas
  <2>2. \A s \in Deb!Range(stanzas) : s \in Deb!Apt!Stanza
    BY <2>1, ElementsAre
  <2> QED
    BY <2>1, <2>2 DEF stanzas
<1>10. \A s \in StanzasOf(w) : s \in Deb!Apt!Stanza
  BY <1>6, <1>7, <1>8, <1>9, SameRanges
<1>11. ASSUME NEW s \in StanzasOf(w) PROVE Deb!Classed(s, ClassOf(w))
  <2>1. s \in Deb!Apt!Stanza /\ s.name \in STRING
    BY <1>10, ResolversApply, Deb!StanzaFields
  <2>2. ClassOf(w)[s.name] = CHOOSE m : \E t \in StanzasOf(w) : t.name = s.name /\ t.multiArch = m
    BY <2>1 DEF ClassOf
  <2>3. \E t \in StanzasOf(w) : t.name = s.name /\ t.multiArch = ClassOf(w)[s.name]
    BY <2>2
  <2>4. PICK t \in StanzasOf(w) : t.name = s.name /\ t.multiArch = ClassOf(w)[s.name]
    BY <2>3
  <2>5. s.multiArch = t.multiArch
    BY <1>1, <1>7, <2>4
  <2> QED
    BY <2>1, <2>4, <2>5 DEF Deb!Classed
<1>12. \A s \in Deb!ListedOf(w.lists) : Deb!InList(s, ClassOf(w))
  BY <1>1, <1>6, <1>7, <1>11 DEF Deb!InList
<1>13. ASSUME NEW s \in Deb!Range(w.stanzas)
       PROVE  Deb!Classed(s, ClassOf(w)) /\ s.file = "" /\ Deb!Same(Offered(w), s)
  <2>1. s \in Range(w.stanzas) /\ s \in StanzasOf(w)
    BY <1>7, SameRanges
  <2>2. Cross!EntryKey(s.name, s.arch) = Deb!KeyOfStanza(s)
    BY DEF Cross!EntryKey, Deb!Apt!EntryKey, Deb!KeyOfStanza
  <2>3. Cross!ParseDependsField(s.depends) = Deb!Apt!ParseDependsField(s.depends)
    BY DEF Cross!ParseDependsField, Deb!Apt!ParseDependsField
  <2>4. Deb!Same(Offered(w), s)
    BY <1>1, <1>3, <2>1, <2>2, <2>3 DEF Deb!Same
  <2> QED
    BY <1>1, <1>11, <2>1, <2>4
<1> QED
  BY <1>4, <1>5, <1>9, <1>12, <1>13

\* What the indexes tell when they are read.
LEMMA ReloadTells ==
    ASSUME NEW w \in Worlds, NEW h
    PROVE  LET c == Cross!Reload(w.lists, h, w.stanzas)
           IN  /\ c \in Deb!AptCaches
               /\ DOMAIN Offered(w) \subseteq DOMAIN c.entries
               /\ \A key \in DOMAIN c.entries :
                     Deb!OnDisk(key, c.entries[key], ClassOf(w), Offered(w), h.installed)
<1> DEFINE T == {s \in Cross!Range(w.stanzas) : Cross!EntryKey(s.name, s.arch) \in h.installed}
           status == Deb!Kept(w.stanzas, T)
           c == Deb!Apt!LoadFromDisk(w.lists, status)
<1>1. Cross!Reload(w.lists, h, w.stanzas) = c
  <2>1. Cross!Reload(w.lists, h, w.stanzas) = Cross!LoadFromDisk(w.lists, Cross!Kept(w.stanzas, T))
    BY DEF Cross!Reload
  <2> HIDE DEF T
  <2> QED
    BY <2>1, SameKept, SameLoad
<1>2. T = {s \in Deb!Range(w.stanzas) : Deb!KeyOfStanza(s) \in h.installed}
  <2>1. \A s : Cross!EntryKey(s.name, s.arch) = Deb!KeyOfStanza(s)
    BY DEF Cross!EntryKey, Deb!Apt!EntryKey, Deb!KeyOfStanza
  <2> QED
    BY <2>1, SameRanges
<1> HIDE DEF T
<1>3. status \in Seq(Deb!Apt!Stanza) /\ Deb!Range(status) = Deb!Range(w.stanzas) \cap T
  <2> DEFINE stanzas == w.stanzas
  <2>1. stanzas \in Seq(Deb!Apt!Stanza)
    BY WorldTells
  <2> HIDE DEF stanzas
  <2>2. Deb!Kept(stanzas, T) \in Seq(Deb!Apt!Stanza) /\ Deb!Range(Deb!Kept(stanzas, T)) = Deb!Range(stanzas) \cap T
    BY <2>1, ResolversApply, Deb!KeptElements
  <2> QED
    BY <2>2 DEF stanzas
<1> HIDE DEF status
<1>4. \A s \in Deb!Range(status) : Deb!InStatus(s, ClassOf(w), Offered(w), h.installed)
  BY <1>2, <1>3, WorldTells DEF Deb!InStatus
<1>5. Offered(w) = Deb!Apt!LoadAptLists(Deb!Apt!NewEmptyCache, w.lists).entries
  BY DEF Offered
<1>6. /\ c \in Deb!AptCaches
      /\ DOMAIN Offered(w) \subseteq DOMAIN c.entries
      /\ \A key \in DOMAIN c.entries :
            Deb!OnDisk(key, c.entries[key], ClassOf(w), Offered(w), h.installed)
  BY <1>3, <1>4, <1>5, WorldTells, ResolversApply, Deb!DiskTells
<1> HIDE DEF c
<1> QED
  BY <1>1, <1>6

HostHas(h) == {"installed", "recorded", "sysroot", "paths"} \subseteq DOMAIN h

\* What the host has of dpkg and of yap.
Had(h) == h.installed \cup h.recorded

\* A path is a package's of the host, or of a name that has no such package there.
PathsFit(w, h) ==
    \A name \in DOMAIN h.paths :
        \/ h.paths[name] \in {"", "all", HostDebArch}
        \/ /\ ClassOf(w)[name] # "same"
           /\ \A key \in Had(h) : key[2] \in {"", HostDebArch} => key[1] # name

\* What the sysroot has of an architecture has what it depends on.
NeedsMet(w, h, key) ==
    \A need \in DOMAIN Offered(w) :
        need[1] \in Deb!Range(Offered(w)[key].depends) /\ need[2] = key[2] =>
            \/ need \in h.sysroot \cup h.installed
            \/ ClassOf(w)[need[1]] \in {"foreign", "allowed"}

SysrootFits(w, h) ==
    \A key \in h.sysroot : key \in DOMAIN Offered(w) /\ (key[2] # "" => NeedsMet(w, h, key))

HostFits(w, h) == HostHas(h) /\ PathsFit(w, h) /\ SysrootFits(w, h)

\* The parts of the dependencies are asked for by keys.
LEMMA PartsAre ==
    ASSUME NEW c, NEW deps \in Seq(Deb!Keys), NEW mode, NEW target \in STRING
    PROVE  LET parts == Cross!PartitionArchAllDeps(c, deps, mode)
           IN  /\ parts.archAll \in Seq(Deb!Keys)
               /\ Cross!QualifyDepsForTargetArch(parts.archSpecific, target) \in Seq(Deb!Keys)
<1> DEFINE served == {d \in Cross!Range(deps) : Cross!ServedByHost(c, d[1], mode)}
           all == Cross!Kept(deps, served)
           specific == Cross!Kept(deps, Cross!Range(deps) \ served)
           parts == Cross!PartitionArchAllDeps(c, deps, mode)
           qualified == Cross!QualifyDepsForTargetArch(specific, target)
<1>1. parts.archAll = all /\ parts.archSpecific = specific
  BY DEF Cross!PartitionArchAllDeps
<1>2. all \in Seq(Deb!Keys) /\ specific \in Seq(Deb!Keys)
  BY SameKept, ResolversApply, Deb!KeptElements
<1> HIDE DEF all, specific, parts
<1>3. qualified = [n \in DOMAIN specific |->
                      IF specific[n][2] = "" THEN <<specific[n][1], target>> ELSE specific[n]]
  BY DEF Cross!QualifyDepsForTargetArch
<1>4. Len(specific) \in Nat /\ DOMAIN specific = 1..Len(specific) /\ \A n \in 1..Len(specific) : specific[n] \in Deb!Keys
  BY <1>2, ElementsAre
<1>5. ASSUME NEW n \in 1..Len(specific)
      PROVE  (IF specific[n][2] = "" THEN <<specific[n][1], target>> ELSE specific[n]) \in Deb!Keys
  <2>1. specific[n] \in Deb!Keys /\ specific[n][1] \in STRING
    BY <1>4, ResolversApply, Deb!KeysAre
  <2>2. <<specific[n][1], target>> \in Deb!Keys
    BY <2>1, ResolversApply, Deb!KeysAre
  <2> QED
    BY <2>1, <2>2
<1>6. qualified \in Seq(Deb!Keys)
  <2> DEFINE el(n) == IF specific[n][2] = "" THEN <<specific[n][1], target>> ELSE specific[n]
             L == Len(specific)
  <2>1. qualified = [n \in 1..L |-> el(n)]
    BY <1>3, <1>4
  <2>2. L \in Nat /\ \A n \in 1..L : el(n) \in Deb!Keys
    BY <1>4, <1>5
  <2> HIDE DEF el, L, qualified
  <2> QED
    BY <2>1, <2>2
<1> QED
  BY <1>1, <1>2, <1>6 DEF parts

\* An entry of what is on disk is of the class of its name.
LEMMA DiskClass ==
    ASSUME NEW w \in Worlds, NEW h
    PROVE  LET c == Cross!Reload(w.lists, h, w.stanzas)
           IN  \A key \in DOMAIN c.entries :
                  /\ c.entries[key].name = key[1]
                  /\ Cross!EntryKey(c.entries[key].name, c.entries[key].arch) = key
                  /\ c.entries[key].multiArch = ClassOf(w)[key[1]]
                  /\ c.entries[key].installed => key \in h.installed
                  /\ key \in DOMAIN Offered(w) =>
                        /\ c.entries[key].arch # "" /\ c.entries[key].file # ""
                        /\ c.entries[key].depends = Offered(w)[key].depends
                  /\ key \notin DOMAIN Offered(w) => c.entries[key].file = "" /\ key \in h.installed
<1> DEFINE c == Cross!Reload(w.lists, h, w.stanzas)
<1>1. \A key \in DOMAIN c.entries : Deb!OnDisk(key, c.entries[key], ClassOf(w), Offered(w), h.installed)
  BY ReloadTells
<1>2. \A n, a : Cross!EntryKey(n, a) = Deb!Apt!EntryKey(n, a)
  BY DEF Cross!EntryKey, Deb!Apt!EntryKey
<1> HIDE DEF c
<1> SUFFICES ASSUME NEW key \in DOMAIN c.entries
             PROVE  /\ c.entries[key].name = key[1]
                    /\ Cross!EntryKey(c.entries[key].name, c.entries[key].arch) = key
                    /\ c.entries[key].multiArch = ClassOf(w)[key[1]]
                    /\ c.entries[key].installed => key \in h.installed
                    /\ key \in DOMAIN Offered(w) =>
                         /\ c.entries[key].arch # "" /\ c.entries[key].file # ""
                         /\ c.entries[key].depends = Offered(w)[key].depends
                    /\ key \notin DOMAIN Offered(w) => c.entries[key].file = "" /\ key \in h.installed
  BY DEF c
<1> QED
  BY <1>1, <1>2 DEF Deb!OnDisk, Deb!Named

\* Installing keeps that.
LEMMA InstallFits ==
    ASSUME NEW w \in Worlds, NEW h, HostFits(w, h), NEW deps \in Seq(Deb!Keys), NEW target \in STRING
    PROVE  HostFits(w, Cross!InstallCrossDeps(Cross!Reload(w.lists, h, w.stanzas), h, deps, target))
<1> DEFINE c == Cross!Reload(w.lists, h, w.stanzas)
           parts == Cross!PartitionArchAllDeps(c, deps, "install")
           A == Cross!InstallPlan(c, parts.archAll)
           B == Cross!InstallPlan(c, Cross!QualifyDepsForTargetArch(parts.archSpecific, target))
           plan == A \o B
           u == Cross!Unpack(c, h.paths, plan)
           next == Cross!InstallCrossDeps(c, h, deps, target)
<1>1. next = [h EXCEPT !.recorded = @ \cup Deb!Range(plan), !.paths = u]
  BY SameRanges DEF Cross!InstallCrossDeps
<1>2. c \in Deb!AptCaches
  BY ReloadTells
<1>3. \A key \in DOMAIN c.entries : c.entries[key].multiArch = ClassOf(w)[key[1]]
  BY DiskClass
<1> HIDE DEF c, next
<1>4. /\ A \in Seq(Deb!Keys) /\ B \in Seq(Deb!Keys)
      /\ \A p \in Deb!Range(A) \cup Deb!Range(B) :
            /\ p \in DOMAIN c.entries
            /\ c.entries[p].arch \in {"", "all", HostDebArch} \/ c.entries[p].multiArch = "same"
  <2>1. parts.archAll \in Seq(Deb!Keys) /\ Cross!QualifyDepsForTargetArch(parts.archSpecific, target) \in Seq(Deb!Keys)
    BY PartsAre
  <2> HIDE DEF parts
  <2> QED
    BY <1>2, <2>1, PlanIs
<1> HIDE DEF A, B
<1>5. plan \in Seq(Deb!Keys) /\ Deb!Range(plan) = Deb!Range(A) \cup Deb!Range(B)
  <2>1. \A s, t \in Seq(Deb!Keys) : s \o t \in Seq(Deb!Keys) /\ Deb!Range(s \o t) = Deb!Range(s) \cup Deb!Range(t)
    BY ZenonT(60), ResolversApply, Deb!RangeOfConcat
  <2> QED
    BY <1>4, <2>1
<1> HIDE DEF plan
<1>6. \A name \in DOMAIN u :
         \/ \E p \in Deb!Range(plan) : /\ p[1] = name /\ c.entries[p].multiArch # "same"
                                     /\ u[name] = c.entries[p].arch
         \/ /\ name \in DOMAIN h.paths /\ u[name] = h.paths[name]
            /\ \A p \in Deb!Range(plan) : c.entries[p].multiArch # "same" => p[1] # name
  BY <1>5, UnpackIs
<1> HIDE DEF u
<1>7. /\ HostHas(next) /\ next.sysroot = h.sysroot /\ next.paths = u
      /\ next.installed = h.installed /\ Had(next) = Had(h) \cup Deb!Range(plan)
  BY <1>1 DEF HostFits, HostHas, Had
<1>8. PathsFit(w, h) /\ SysrootFits(w, h)
  BY DEF HostFits
<1>9. PathsFit(w, next)
  <2> SUFFICES ASSUME NEW name \in DOMAIN u, u[name] \notin {"", "all", HostDebArch}
               PROVE  /\ ClassOf(w)[name] # "same"
                      /\ \A key \in Had(h) \cup Deb!Range(plan) : key[2] \in {"", HostDebArch} => key[1] # name
    BY <1>7 DEF PathsFit
  <2>1. ~\E p \in Deb!Range(plan) : /\ p[1] = name /\ c.entries[p].multiArch # "same"
                                  /\ u[name] = c.entries[p].arch
    BY <1>4, <1>5
  <2>2. /\ name \in DOMAIN h.paths /\ u[name] = h.paths[name]
        /\ \A p \in Deb!Range(plan) : c.entries[p].multiArch # "same" => p[1] # name
    BY <1>6, <2>1
  <2>3. /\ ClassOf(w)[name] # "same"
        /\ \A key \in Had(h) : key[2] \in {"", HostDebArch} => key[1] # name
    BY <1>8, <2>2 DEF PathsFit
  <2>4. \A p \in Deb!Range(plan) : p[1] # name
    BY <1>3, <1>4, <1>5, <2>2, <2>3
  <2> QED
    BY <2>3, <2>4
<1>10. SysrootFits(w, next)
  BY <1>7, <1>8 DEF SysrootFits, NeedsMet
<1> QED
  BY <1>7, <1>9, <1>10 DEF HostFits, next, c

\* Where the files of a package go.
LEMMA DestinationsAre ==
    ASSUME NEW info, NEW isSeed \in BOOLEAN, NEW names
    PROVE  LET to == Cross!CrossDepDestinations(info, isSeed, names)
           IN  /\ "sysroot" \in to => info.arch # HostDebArch
               /\ "root" \in to => info.name \notin names
               /\ info.arch \notin {"all", HostDebArch} => "sysroot" \in to
BY DEF Cross!CrossDepDestinations

\* The architecture a key is of is that of its entry.
LEMMA ArchOfKey ==
    ASSUME NEW n, NEW a
    PROVE  Cross!EntryKey(n, a)[2] # "" => a \notin {"", "all"} /\ a = Cross!EntryKey(n, a)[2]
<1> DEFINE k == Cross!EntryKey(n, a)
<1>1. k[2] = IF a \in {"", "all"} THEN "" ELSE a
  BY DEF Cross!EntryKey
<1> HIDE DEF k
<1>2. k[2] # "" => a \notin {"", "all"} /\ a = k[2]
  BY <1>1
<1> QED
  BY <1>2 DEF k

\* What is kept of a sequence of keys is one.
LEMMA KeptKeys ==
    ASSUME NEW s \in Seq(Deb!Keys), NEW U
    PROVE  Deb!Kept(s, U) \in Seq(Deb!Keys) /\ Deb!Range(Deb!Kept(s, U)) = Deb!Range(s) \cap U
BY ResolversApply, Deb!KeptElements

\* Extracting a closure keeps that.
LEMMA ExtractFits ==
    ASSUME NEW w \in Worlds, NEW h, HostFits(w, h), NEW seeds \in Seq(Deb!Keys), NEW seedNames
    PROVE  LET c == Cross!Reload(w.lists, h, w.stanzas)
           IN  HostFits(w, Cross!ExtractCrossDeps(c, h, Deb!Apt!ResolveDeps(c, seeds).order, seedNames))
<1> DEFINE c == Cross!Reload(w.lists, h, w.stanzas)
           order == Deb!Apt!ResolveDeps(c, seeds).order
           here == Cross!HostInstalledNames(h)
           To(key) == IF c.entries[key].file = "" THEN {}
                      ELSE Cross!CrossDepDestinations(c.entries[key], key[1] \in seedNames, here)
           S == {key \in Deb!Range(order) : "sysroot" \in To(key)}
           T == {key \in Deb!Range(order) : "root" \in To(key)}
           plan == Deb!Kept(order, T)
           u == Cross!Unpack(c, h.paths, plan)
           next == Cross!ExtractCrossDeps(c, h, order, seedNames)
<1>1. next = [h EXCEPT !.sysroot = @ \cup S, !.paths = u]
  <2>1. Cross!Range(order) = Deb!Range(order)
    BY SameRanges
  <2>2. Cross!Kept(order, T) = Deb!Kept(order, T)
    BY SameKept
  <2>3. next = [h EXCEPT !.sysroot = @ \cup {key \in Cross!Range(order) : "sysroot" \in To(key)},
                         !.paths = Cross!Unpack(c, @, Cross!Kept(order, {key \in Cross!Range(order) : "root" \in To(key)}))]
    BY DEF Cross!ExtractCrossDeps
  <2> HIDE DEF next, To, order, c
  <2> QED
    BY <2>1, <2>2, <2>3
<1>2. c \in Deb!AptCaches /\ DOMAIN Offered(w) \subseteq DOMAIN c.entries
  BY ReloadTells
<1>3. \A key \in DOMAIN c.entries :
         /\ c.entries[key].name = key[1]
         /\ Cross!EntryKey(c.entries[key].name, c.entries[key].arch) = key
         /\ c.entries[key].multiArch = ClassOf(w)[key[1]]
         /\ c.entries[key].installed => key \in h.installed
         /\ key \in DOMAIN Offered(w) =>
               /\ c.entries[key].arch # "" /\ c.entries[key].file # ""
               /\ c.entries[key].depends = Offered(w)[key].depends
         /\ key \notin DOMAIN Offered(w) => c.entries[key].file = "" /\ key \in h.installed
  BY DiskClass
<1> HIDE DEF c, next
<1>4. \A key \in DOMAIN c.entries : Deb!Apt!EntryKey(c.entries[key].name, c.entries[key].arch) = key
  <2>1. \A n, a : Cross!EntryKey(n, a) = Deb!Apt!EntryKey(n, a)
    BY DEF Cross!EntryKey, Deb!Apt!EntryKey
  <2> QED
    BY <1>3, <2>1
<1>5. /\ order \in Seq(Deb!Keys)
      /\ Deb!Range(order) \subseteq DOMAIN c.entries
      /\ \A p \in Deb!Range(order), y \in DOMAIN c.entries :
            p[2] # "" /\ y[1] \in Deb!Range(c.entries[p].depends) /\ y[2] = p[2] =>
                \/ y \in Deb!Range(order)
                \/ c.entries[y].installed
                \/ c.entries[y].multiArch \in {"foreign", "allowed"}
  BY <1>2, <1>4, ResolversApply, Deb!ClosureNeedsNothing
<1> HIDE DEF order
<1>6. ASSUME NEW key
      PROVE  /\ "sysroot" \in To(key) => c.entries[key].arch # HostDebArch /\ c.entries[key].file # ""
             /\ "root" \in To(key) => c.entries[key].name \notin here
             /\ c.entries[key].file # "" /\ c.entries[key].arch \notin {"all", HostDebArch} => "sysroot" \in To(key)
  <2> DEFINE seed == key[1] \in seedNames   e == c.entries[key]
             to == Cross!CrossDepDestinations(e, seed, here)
  <2>1. seed \in BOOLEAN
    OBVIOUS
  <2>2. /\ "sysroot" \in to => e.arch # HostDebArch
        /\ "root" \in to => e.name \notin here
        /\ e.arch \notin {"all", HostDebArch} => "sysroot" \in to
    BY <2>1, DestinationsAre
  <2>3. To(key) = IF e.file = "" THEN {} ELSE to
    OBVIOUS
  <2> HIDE DEF to, To, here
  <2> QED
    BY <2>2, <2>3
<1> HIDE DEF To
<1>7. plan \in Seq(Deb!Keys) /\ Deb!Range(plan) = T
  <2>1. T \subseteq Deb!Range(order)
    OBVIOUS
  <2> HIDE DEF T
  <2>2. order \in Seq(Deb!Keys)
    BY <1>5
  <2>3. \A U : Deb!Kept(order, U) \in Seq(Deb!Keys) /\ Deb!Range(Deb!Kept(order, U)) = Deb!Range(order) \cap U
    BY <2>2, KeptKeys
  <2>4. plan \in Seq(Deb!Keys) /\ Deb!Range(plan) = Deb!Range(order) \cap T
    BY <2>3
  <2> QED
    BY <2>1, <2>4
<1> HIDE DEF plan
<1>8. \A name \in DOMAIN u :
         \/ \E p \in Deb!Range(plan) : /\ p[1] = name /\ c.entries[p].multiArch # "same"
                                     /\ u[name] = c.entries[p].arch
         \/ /\ name \in DOMAIN h.paths /\ u[name] = h.paths[name]
            /\ \A p \in Deb!Range(plan) : c.entries[p].multiArch # "same" => p[1] # name
  BY <1>7, UnpackIs
<1> HIDE DEF u, S
<1>9. /\ HostHas(next) /\ next.sysroot = h.sysroot \cup S /\ next.paths = u
      /\ next.installed = h.installed /\ Had(next) = Had(h)
  BY <1>1 DEF HostFits, HostHas, Had
<1>10. PathsFit(w, h) /\ SysrootFits(w, h)
  BY DEF HostFits
<1>11. \A key \in Had(h) : key[1] \in here
  BY DEF Cross!HostInstalledNames, Had
<1> HIDE DEF here
<1>12. PathsFit(w, next)
  <2> SUFFICES ASSUME NEW name \in DOMAIN u, u[name] \notin {"", "all", HostDebArch}
               PROVE  /\ ClassOf(w)[name] # "same"
                      /\ \A key \in Had(h) : key[2] \in {"", HostDebArch} => key[1] # name
    BY <1>9 DEF PathsFit
  <2>1. CASE \E p \in Deb!Range(plan) : p[1] = name /\ c.entries[p].multiArch # "same"
    <3>1. PICK p \in Deb!Range(plan) : p[1] = name /\ c.entries[p].multiArch # "same"
      BY <2>1
    <3>2. p \in DOMAIN c.entries /\ "root" \in To(p)
      BY <1>5, <1>7, <3>1
    <3>3. ClassOf(w)[name] # "same" /\ name \notin here
      BY <1>3, <1>6, <3>1, <3>2
    <3> QED
      BY <1>11, <3>3
  <2>2. CASE ~\E p \in Deb!Range(plan) : p[1] = name /\ c.entries[p].multiArch # "same"
    <3>1. name \in DOMAIN h.paths /\ u[name] = h.paths[name]
      BY <1>8, <2>2
    <3> QED
      BY <1>10, <3>1 DEF PathsFit
  <2> QED
    BY <2>1, <2>2
<1>13. SysrootFits(w, next)
  <2> SUFFICES ASSUME NEW key \in h.sysroot \cup S
               PROVE  key \in DOMAIN Offered(w) /\ (key[2] # "" => NeedsMet(w, next, key))
    BY <1>9 DEF SysrootFits
  <2>1. CASE key \in h.sysroot
    BY <1>9, <1>10, <2>1 DEF SysrootFits, NeedsMet
  <2>2. CASE key \in S
    <3>1. key \in Deb!Range(order) /\ key \in DOMAIN c.entries /\ "sysroot" \in To(key)
      BY <1>5, <2>2 DEF S
    <3>2. c.entries[key].arch # HostDebArch /\ c.entries[key].file # ""
      BY <1>6, <3>1
    <3>3. key \in DOMAIN Offered(w) /\ c.entries[key].depends = Offered(w)[key].depends
      BY <1>3, <3>1, <3>2
    <3>4. ASSUME key[2] # "", NEW need \in DOMAIN Offered(w),
                 need[1] \in Deb!Range(Offered(w)[key].depends), need[2] = key[2]
          PROVE  need \in next.sysroot \cup next.installed \/ ClassOf(w)[need[1]] \in {"foreign", "allowed"}
      <4>1. need \in DOMAIN c.entries
        BY <1>2
      <4>2. \/ need \in Deb!Range(order)
            \/ c.entries[need].installed
            \/ c.entries[need].multiArch \in {"foreign", "allowed"}
        BY <1>5, <3>1, <3>3, <3>4, <4>1
      <4>3. CASE need \in Deb!Range(order)
        <5>1. c.entries[key].arch = key[2]
          <6>1. Cross!EntryKey(c.entries[key].name, c.entries[key].arch)[2] = key[2]
            BY <1>3, <3>1
          <6> QED
            BY <3>4, <6>1, ArchOfKey
        <5>2. c.entries[need].arch = need[2] /\ c.entries[need].arch \notin {"", "all"}
          <6>1. Cross!EntryKey(c.entries[need].name, c.entries[need].arch)[2] = need[2]
            BY <1>3, <4>1
          <6> QED
            BY <3>4, <6>1, ArchOfKey
        <5>3. c.entries[need].file # ""
          BY <1>3, <4>1
        <5>4. "sysroot" \in To(need)
          BY <1>6, <3>2, <3>4, <5>1, <5>2, <5>3
        <5> QED
          BY <1>9, <4>3, <5>4 DEF S
      <4>4. CASE c.entries[need].installed
        BY <1>3, <1>9, <4>1, <4>4
      <4>5. CASE c.entries[need].multiArch \in {"foreign", "allowed"}
        BY <1>3, <4>1, <4>5
      <4> QED
        BY <4>2, <4>3, <4>4, <4>5
    <3> QED
      BY <3>3, <3>4 DEF NeedsMet
  <2> QED
    BY <2>1, <2>2
<1> QED
  BY <1>9, <1>12, <1>13 DEF HostFits, next, c, order

\* So does a download.
LEMMA DownloadFits ==
    ASSUME NEW w \in Worlds, NEW h, HostFits(w, h), NEW deps \in Seq(Deb!Keys), NEW target \in STRING
    PROVE  HostFits(w, Cross!DownloadAndExtractCrossDeps(Cross!Reload(w.lists, h, w.stanzas), h, deps, target))
<1> DEFINE c == Cross!Reload(w.lists, h, w.stanzas)
           parts == Cross!PartitionArchAllDeps(c, deps, "extract")
           A == parts.archAll
           B == Cross!QualifyDepsForTargetArch(parts.archSpecific, target)
           seeds == A \o B
           seedNames == {seeds[n][1] : n \in DOMAIN seeds}
           next == Cross!DownloadAndExtractCrossDeps(c, h, deps, target)
<1>1. \/ next = h
      \/ next = Cross!ExtractCrossDeps(c, h, Cross!ResolveDeps(c, seeds).order, seedNames)
  BY DEF Cross!DownloadAndExtractCrossDeps
<1>2. A \in Seq(Deb!Keys) /\ B \in Seq(Deb!Keys)
  BY PartsAre
<1> HIDE DEF A, B, next
<1>3. seeds \in Seq(Deb!Keys)
  <2>1. \A s, t \in Seq(Deb!Keys) : s \o t \in Seq(Deb!Keys)
    BY ResolversApply, Deb!RangeOfConcat
  <2> QED
    BY <1>2, <2>1
<1> HIDE DEF seeds, seedNames
<1>4. HostFits(w, Cross!ExtractCrossDeps(c, h, Deb!Apt!ResolveDeps(c, seeds).order, seedNames))
  BY <1>3, ExtractFits
<1>5. Cross!ResolveDeps(c, seeds) = Deb!Apt!ResolveDeps(c, seeds)
  BY SameResolve
<1> HIDE DEF c
<1>6. HostFits(w, next)
  BY <1>1, <1>4, <1>5
<1> QED
  BY SMTT(40), <1>6 DEF next, c

\* The target of a run is a name.
LEMMA TargetIs ==
    ASSUME world \in Worlds, run \in 1..MaxRuns
    PROVE  TranslateArch("deb", Target) \in STRING
BY CrossAssumption DEF CrossAssumption, Target

\* The dependencies are synchronised.
LEMMA SyncFits ==
    ASSUME world \in Worlds, run \in 1..MaxRuns, HostFits(world, host), SyncDependencies
    PROVE  HostFits(world', host')
<1> DEFINE target == TranslateArch("deb", Target)
           before == Cross!Reload(world.lists, host, world.stanzas)
           built == Cross!InstallCrossDeps(before, host, world.makeDepends, target)
           after == Cross!Reload(world.lists, built, world.stanzas)
           done == Cross!DownloadAndExtractCrossDeps(after, built, world.depends, target)
<1>1. world' = world /\ (host' = host \/ host' = done)
  BY DEF SyncDependencies
<1>2. world.makeDepends \in Seq(Deb!Keys) /\ world.depends \in Seq(Deb!Keys)
  BY CrossAssumption DEF CrossAssumption, Deb!Keys
<1>3. target \in STRING
  BY TargetIs
<1> HIDE DEF target
<1>4. HostFits(world, built)
  BY <1>2, <1>3, InstallFits
<1> HIDE DEF built
<1>5. HostFits(world, done)
  BY <1>2, <1>3, <1>4, DownloadFits
<1> HIDE DEF done
<1> QED
  BY <1>1, <1>5

\* In the beginning there is no sysroot, and no path is a foreign package's.
LEMMA BeginsFit ==
    ASSUME NEW w \in Worlds
    PROVE  HostFits(w, w.host)
<1>1. /\ {"installed", "recorded", "sysroot", "paths"} \subseteq DOMAIN w.host
      /\ w.host.sysroot = {}
      /\ \A name \in DOMAIN w.host.paths : w.host.paths[name] \in {"", "all", HostDebArch}
  BY CrossAssumption DEF CrossAssumption
<1> QED
  BY <1>1 DEF HostFits, HostHas, PathsFit, SysrootFits

\* What the invariant says of the host and the sysroot.
LEMMA FitsApart ==
    ASSUME world \in Worlds, run \in 1..MaxRuns, HostFits(world, host)
    PROVE  CrossDepsStayApart
<1> DEFINE target == TranslateArch("deb", Target)
           Needs(c, key) == {<<d, target>> : d \in ToSet(c.entries[key].depends)} \cap DOMAIN c.entries
           disk == Cross!Reload(world.lists, host, world.stanzas)
<1>1. PathsFit(world, host) /\ SysrootFits(world, host)
  BY DEF HostFits
<1>2. ASSUME NEW key \in host.installed \cup host.recorded, key[2] \in {"", HostDebArch},
             key[1] \in DOMAIN host.paths
      PROVE  host.paths[key[1]] \in {"", "all", HostDebArch}
  BY <1>1, <1>2 DEF PathsFit, Had
<1>3. /\ DOMAIN Offered(world) \subseteq DOMAIN disk.entries
      /\ \A k \in DOMAIN disk.entries :
            /\ disk.entries[k].name = k[1]
            /\ Cross!EntryKey(disk.entries[k].name, disk.entries[k].arch) = k
            /\ disk.entries[k].multiArch = ClassOf(world)[k[1]]
            /\ disk.entries[k].installed => k \in host.installed
            /\ k \in DOMAIN Offered(world) =>
                  /\ disk.entries[k].arch # "" /\ disk.entries[k].file # ""
                  /\ disk.entries[k].depends = Offered(world)[k].depends
            /\ k \notin DOMAIN Offered(world) => disk.entries[k].file = "" /\ k \in host.installed
  <2>1. DOMAIN Offered(world) \subseteq DOMAIN disk.entries
    BY ReloadTells
  <2> QED
    BY <2>1, DiskClass
<1> HIDE DEF disk
<1>4. ASSUME NEW key \in host.sysroot, disk.entries[key].arch = target,
             NEW need \in Needs(disk, key)
      PROVE  need \in host.sysroot \cup host.installed \/ disk.entries[need].multiArch \in {"foreign", "allowed"}
  <2>3. key \in DOMAIN Offered(world) /\ key \in DOMAIN disk.entries /\ (key[2] # "" => NeedsMet(world, host, key))
    BY <1>1, <1>3 DEF SysrootFits
  <2>4. target # "" /\ disk.entries[key].depends = Offered(world)[key].depends
    BY <1>3, <1>4, <2>3
  <2>5. PICK d \in Deb!Range(disk.entries[key].depends) : need = <<d, target>>
    BY SameRanges
  <2>6. need \in DOMAIN disk.entries /\ need[1] = d /\ need[2] = target
    BY <2>5
  <2> HIDE DEF target
  <2>7. target \notin {"", "all"}
    <3>1. Cross!EntryKey(disk.entries[need].name, disk.entries[need].arch)[2] = target
      BY <1>3, <2>6
    <3> QED
      BY <2>4, <3>1, ArchOfKey
  <2>8. key[2] = target
    <3>1. Cross!EntryKey(disk.entries[key].name, target)[2] = key[2]
      BY <1>3, <1>4, <2>3
    <3> QED
      BY <2>7, <3>1 DEF Cross!EntryKey
  <2>9. CASE need \in DOMAIN Offered(world)
    <3>1. NeedsMet(world, host, key)
      BY <2>3, <2>7, <2>8
    <3>2. need[1] \in Deb!Range(Offered(world)[key].depends) /\ need[2] = key[2]
      BY <2>4, <2>5, <2>6, <2>8
    <3>3. need \in host.sysroot \cup host.installed \/ ClassOf(world)[need[1]] \in {"foreign", "allowed"}
      BY <2>9, <3>1, <3>2 DEF NeedsMet
    <3> QED
      BY <1>3, <2>6, <3>3
  <2>10. CASE need \notin DOMAIN Offered(world)
    BY <1>3, <2>6, <2>10
  <2> QED
    BY <2>9, <2>10
<1> HIDE DEF disk, target
<1> QED
  BY <1>2, <1>4 DEF CrossDepsStayApart, disk, target

\* Only the dependencies change the host.
LEMMA StepKeepsFit ==
    ASSUME world \in Worlds, run \in 1..MaxRuns, HostFits(world, host), [Next]_vars
    PROVE  HostFits(world, host)'
<1>1. CASE PopulateProjects
  BY <1>1 DEF PopulateProjects
<1>2. CASE SyncDependencies
  BY <1>2, SyncFits
<1>3. CASE ProcessFunction("prepare", "build")
  BY <1>3 DEF ProcessFunction
<1>4. CASE ProcessFunction("build", "check")
  BY <1>4 DEF ProcessFunction
<1>5. CASE ProcessFunction("check", "package")
  BY <1>5 DEF ProcessFunction
<1>6. CASE CompileSinglePackage
  BY <1>6 DEF CompileSinglePackage
<1>7. CASE CompileSplitPackages
  BY <1>7 DEF CompileSplitPackages
<1>8. CASE CreateSinglePackage
  BY <1>8 DEF CreateSinglePackage
<1>9. CASE CreateSplitPackages
  BY <1>9 DEF CreateSplitPackages
<1>10. CASE InstallPackage
  BY <1>10 DEF InstallPackage
<1>11. CASE RunAgain
  BY <1>11 DEF RunAgain
<1>12. CASE UNCHANGED vars
  BY <1>12 DEF vars
<1> QED
  BY <1>1, <1>2, <1>3, <1>4, <1>5, <1>6, <1>7, <1>8, <1>9, <1>10, <1>11, <1>12 DEF Next

\* The dependencies of a cross build stay apart from those of the host: no path of a
\* package the host has becomes a foreign package's, and the sysroot has what its
\* packages of the target depend on.
THEOREM CrossDepsAreApart == Spec => []CrossDepsStayApart
<1>1. Init => IInv /\ HostFits(world, host)
  <2> SUFFICES ASSUME Init PROVE IInv /\ HostFits(world, host)
    OBVIOUS
  <2>1. IInv
    BY BeginsInvariant
  <2>2. world \in Worlds /\ host = world.host
    BY DEF Init
  <2>3. HostFits(world, host)
    BY <2>2, BeginsFit
  <2> QED
    BY <2>1, <2>3
<1>2. IInv /\ HostFits(world, host) /\ [Next]_vars => IInv' /\ HostFits(world, host)'
  <2>1. IInv => world \in Worlds /\ run \in 1..MaxRuns
    BY DEF IInv
  <2> QED
    BY <2>1, StepKeepsInvariant, StepKeepsFit
<1>3. IInv /\ HostFits(world, host) => CrossDepsStayApart
  <2>1. IInv => world \in Worlds /\ run \in 1..MaxRuns
    BY DEF IInv
  <2> QED
    BY <2>1, FitsApart
<1> QED
  BY <1>1, <1>2, <1>3, PTL DEF Spec
================================================================================
