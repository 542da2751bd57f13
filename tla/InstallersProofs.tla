---------------------------- MODULE InstallersProofs ----------------------------
(* Proofs about Installers, for every set of processes, packages and payloads,  *)
(* on a host of each format.                                                    *)
EXTENDS Installers, FiniteSetTheorems, WellFoundedInduction, TLAPS

--------------------------------------------------------------------------------
(* The invariant.                                                               *)

CacheType == [version : Version, installed : SUBSET Package]
YapdbType ==
    [tables : SUBSET {"packages", "files", "caps", "meta"},
     rows   : SUBSET [id : Nat, name : Package, version : Version],
     files  : SUBSET [id : Nat, path : Path],
     caps   : SUBSET [id : Nat, name : Package, version : Version],
     next   : Nat]

\* TypeOK, and the types of what it leaves out.
TypeInv ==
    /\ TypeOK
    /\ yapdb \in YapdbType
    /\ cache \in [Process -> CacheType]
    /\ k \in [Process -> Nat \ {0}] /\ at \in [Process -> Nat \ {0}]
    /\ snap \in [Process -> [Package -> NativeEntry]]
    /\ phase \in [Process -> {"unpacking", "installed", "unconfigured"}]

\* Where a call works on one package, and where it has unpacked that.
Placing == {"extract", "write"}
Placed ==
    {"status", "open", "schema", "insert", "writeStatus", "postinst", "postin", "rpmdb",
     "rpmdbSchema", "rpmdbInsert", "posttrans", "stanzas", "writeStanzas"}
Critical == Placing \cup Placed \cup {"preinst", "verify", "pretrans", "prein"}
Planned  == Critical \cup {"fetch", "install"}

DebPCs == Ended \cup
    {"lock", "load", "fetch", "install", "preinst", "extract", "write", "status", "open",
     "schema", "insert", "writeStatus", "postinst"}
RpmPCs == Ended \cup
    {"load", "fetch", "install", "verify", "pretrans", "prein", "extract", "postin", "open",
     "schema", "insert", "rpmdb", "rpmdbSchema", "rpmdbInsert", "posttrans"}
ApkPCs == Ended \cup {"load", "fetch", "install", "extract", "stanzas", "writeStanzas"}

\* Who may be where: a deb's call holds the lock from its first step on, an rpm's
\* while it works on a package, and apk calls come one at a time.
LockInv ==
    \A i \in Process :
        /\ format = "deb" => pc[i] \in DebPCs /\ (pc[i] \notin Ended \cup {"lock"} => lock = i)
        /\ format = "rpm" => pc[i] \in RpmPCs /\ (pc[i] \in Critical => lock = i)
        /\ format = "apk" => /\ pc[i] \in ApkPCs
                             /\ \A j \in Process : pc[i] \in Ended \/ pc[j] \in Ended \/ i = j

\* What a call knows where it is.
CallInv ==
    \A i \in Process :
        /\ pc[i] \in {"lock", "load"} => plan[i] \in Request
        /\ pc[i] \in Planned => cache[i].version # 0
        /\ pc[i] \in Critical => k[i] \in DOMAIN plan[i]
        /\ pc[i] \in Placing => at[i] \in 1..(Len(Contents[P(i)]) + 1)
        /\ pc[i] = "write" => at[i] \in DOMAIN Contents[P(i)] /\ P(i) \in unrecorded
                              /\ IsData(Contents[P(i)][at[i]])
        /\ pc[i] = "schema" => "meta" \notin yapdb.tables
        /\ format = "deb" /\ pc[i] \in {"open", "schema", "insert", "writeStatus"} => snap[i] = native
        /\ format = "apk" /\ pc[i] = "writeStanzas" => snap[i] = Named(native)

EntryInPlace(e) ==
    e.type # "skip" =>
        fs[e.path].kind \in {"file", "link"} \/ (e.type = "conf" /\ fs[e.path] # Absent)

\* What an entry has become: apk keeps the symlinks it finds.
EntryPlaced(e, p, v) == IF format = "apk" THEN EntryInPlace(e) ELSE Holds(e, p, v)

\* The entries of a payload before the a-th are placed, but for the hardlinks of an
\* rpm whose file has not come yet.
PlacedTo(p, v, a) ==
    \A n \in 1..(a - 1) : LET e == Contents[p][n] IN
        (e.type = "hardlink" => DataWritten(Contents[p], a, e.to)) => EntryPlaced(e, p, v)

\* While a package is unpacked the entries before the one at hand are placed, and
\* then all.
PlacingInv ==
    \A i \in Process :
        /\ pc[i] \in Placing => PlacedTo(P(i), cache[i].version, at[i])
        /\ pc[i] \in Placed =>
              \A n \in DOMAIN Contents[P(i)] :
                 EntryPlaced(Contents[P(i)][n], P(i), cache[i].version)

\* Only a deb can be torn; an apk is never recorded.
DiskInv ==
    /\ format # "deb" => \A f \in Path : fs[f] # Torn
    /\ format = "apk" => \A p \in Package : recorded[p] = 0
    /\ \A i \in Process : pc[i] \in Placing /\ at[i] > 1 => P(i) \in unrecorded
    /\ RecordMatchesDisk

\* A package that is in place, unless a call ended in the middle of it.
Good(q) == q \notin unrecorded => InPlace(q)

\* What was installed, by the host or by a call, is in place; so is what a call
\* has been through, and what the rest of its plan requires is that or comes first.
PlaceInv ==
    /\ \A q \in Package : native[q].state = "installed" => Good(q)
    /\ \A i \in Process : \A q \in cache[i].installed : Good(q)
    /\ \A i \in Process : pc[i] \in Planned =>
          /\ \A n \in DOMAIN plan[i] : n < k[i] => Good(plan[i][n])
          /\ format # "apk" => \A n \in DOMAIN plan[i] : \A q \in Requires[plan[i][n]] :
                Good(q) \/ \E m \in 1..(n - 1) : plan[i][m] = q

\* ... and recorded.
RecordedInv ==
    \A i \in Process : format # "apk" =>
        /\ pc[i] \in Planned => \A n \in DOMAIN plan[i] : n < k[i] => recorded[plan[i][n]] # 0
        /\ pc[i] \in {"writeStatus", "postinst", "rpmdb", "rpmdbSchema", "rpmdbInsert", "posttrans"}
              => recorded[P(i)] # 0

\* The rows of the state database: ids are never used again, a package has the
\* one row of its record, and a row has the files and the capability of that.
RowsInv ==
    /\ \A r \in yapdb.rows \cup yapdb.files \cup yapdb.caps : r.id < yapdb.next
    /\ \A r, s \in yapdb.rows : r.id = s.id \/ r.name = s.name => r = s
    /\ \A r \in yapdb.rows :
          /\ recorded[r.name] # 0 /\ r.version = recorded[r.name]
          /\ \A x \in Path : [id |-> r.id, path |-> x] \in yapdb.files <=> x \in Listed(Contents[r.name])
          /\ r \in yapdb.caps
          /\ \A c \in yapdb.caps : c.id = r.id => c = r
    /\ \A p \in Package : recorded[p] # 0 => \E r \in yapdb.rows : r.name = p

IInv ==
    /\ TypeInv /\ LockInv /\ CallInv /\ PlacingInv /\ DiskInv /\ PlaceInv /\ RecordedInv
    /\ RowsInv /\ NativeKept

--------------------------------------------------------------------------------
(* Types. *)

PayloadType == Seq([path : Path, type : EntryTypes, to : Path])

\* What the assumptions say of one package.
LEMMA PayloadFacts ==
    ASSUME NEW p \in Package
    PROVE  /\ Contents[p] \in PayloadType
           /\ Listed(Contents[p]) \subseteq Path
           /\ \A n \in DOMAIN Contents[p] :
                 /\ Contents[p][n].path \in Path /\ Contents[p][n].to \in Path
                 /\ Contents[p][n].type \in EntryTypes
                 /\ Contents[p][n].type # "skip" => Contents[p][n].path \in Listed(Contents[p])
<1>1. Contents[p] \in PayloadType
  BY InstallerAssumption DEF PayloadType
<1>2. \A n \in DOMAIN Contents[p] : Contents[p][n] \in [path : Path, type : EntryTypes, to : Path]
  <2> DEFINE Entries == [path : Path, type : EntryTypes, to : Path]
  <2>1. ASSUME NEW S, NEW c \in Seq(S), NEW n \in DOMAIN c PROVE c[n] \in S
    OBVIOUS
  <2>2. Contents[p] \in Seq(Entries)
    BY <1>1 DEF PayloadType
  <2> HIDE DEF Entries
  <2>3. \A n \in DOMAIN Contents[p] : Contents[p][n] \in Entries
    BY <2>1, <2>2
  <2> QED
    BY <2>3 DEF Entries
<1>3. Listed(Contents[p]) \subseteq Path
  BY <1>2 DEF Listed
<1>4. \A n \in DOMAIN Contents[p] :
         Contents[p][n].type # "skip" => Contents[p][n].path \in Listed(Contents[p])
  BY DEF Listed
<1> QED
  BY <1>1, <1>2, <1>3, <1>4

\* The package at hand.
LEMMA AtHand ==
    ASSUME TypeInv, CallInv, NEW i \in Process, pc[i] \in Critical
    PROVE  P(i) \in Package /\ cache[i].version \in Version \ {0} /\ k[i] \in DOMAIN plan[i]
<1>1. plan[i] \in Seq(Package) /\ k[i] \in DOMAIN plan[i]
  BY DEF TypeInv, TypeOK, CallInv
<1>2. P(i) \in Package
  BY <1>1 DEF P
<1>3. cache[i] \in CacheType
  BY DEF TypeInv
<1>4. cache[i].version \in Version
  BY <1>3 DEF CacheType
<1>5. pc[i] \in Planned
  BY DEF Planned
<1>6. cache[i].version # 0
  BY <1>5 DEF CallInv
<1> QED
  BY <1>1, <1>2, <1>4, <1>6

\* A parsed cache has a type, and offers a version.
LEMMA LoadedType ==
    ASSUME TypeInv, NEW i \in Process
    PROVE  Loaded(i) \in CacheType /\ Loaded(i).version # 0
<1>1. offered \in Version \ {0}
  BY InstallerAssumption DEF TypeInv, TypeOK, Version
<1>2. cache[i] \in CacheType
  BY DEF TypeInv
<1>3. [version |-> offered, installed |-> {p \in Package : native[p].state = "installed"}] \in CacheType
  BY <1>1 DEF CacheType
<1>4. CASE cache[i].version = 0
  BY <1>1, <1>3, <1>4 DEF Loaded
<1>5. CASE cache[i].version # 0
  BY <1>2, <1>5 DEF Loaded
<1> QED
  BY <1>4, <1>5

\* What Resolve's answer makes of a call.
LEMMA ResolvedType ==
    ASSUME TypeInv, CallInv, NEW i \in Process, pc[i] = "load",
           NEW installed \in SUBSET Package
    PROVE  Resolve(format, plan[i], installed).plan \in Seq(Package)
<1>1. format \in Formats /\ plan[i] \in Request
  BY DEF TypeInv, TypeOK, CallInv
<1> QED
  BY <1>1, ResolveAssumption

FsType == [Path -> {Absent, Torn} \cup [kind : {"file", "link"}, of : Package, version : Version]]

\* The disk with an entry of a payload placed, or opened, is a disk.
LEMMA DiskTypes ==
    ASSUME TypeInv, NEW p \in Package, NEW v \in Version, NEW n \in DOMAIN Contents[p]
    PROVE  /\ DebLinks(fs, p, v, Contents[p][n]) \in FsType
           /\ RpmPlace(fs, p, v, Contents[p], n) \in FsType
           /\ ApkPlace(fs, p, v, Contents[p][n]) \in FsType
           /\ [fs EXCEPT ![Contents[p][n].path] = Torn] \in FsType
           /\ [fs EXCEPT ![Contents[p][n].path] = File(p, v)] \in FsType
<1> DEFINE e == Contents[p][n]
           F == {Absent, Torn} \cup [kind : {"file", "link"}, of : Package, version : Version]
           T == [Path -> F]
<1>1. e.path \in Path /\ e.to \in Path
  BY PayloadFacts
<1>2. File(p, v) \in F /\ Link(p, v) \in F /\ Torn \in F
  BY DEF File, Link
<1>3. fs \in T
  BY DEF TypeInv, TypeOK
<1> HIDE DEF F, e
<1>4. DebLinks(fs, p, v, e) \in T
  BY <1>1, <1>2, <1>3 DEF DebLinks
<1>5. ApkPlace(fs, p, v, e) \in T
  BY <1>1, <1>2, <1>3 DEF ApkPlace
<1>6. RpmPlace(fs, p, v, Contents[p], n) \in T
  BY <1>1, <1>2, <1>3 DEF RpmPlace, e
<1>7. [fs EXCEPT ![e.path] = Torn] \in T /\ [fs EXCEPT ![e.path] = File(p, v)] \in T
  BY <1>1, <1>2, <1>3
<1> QED
  BY <1>4, <1>5, <1>6, <1>7 DEF e, F, FsType

--------------------------------------------------------------------------------
(* Without, by induction over the places of a sequence.                         *)

\* Every set of naturals has a least element.
LEMMA LeastElement ==
    ASSUME NEW T \in SUBSET Nat, T # {}
    PROVE  \E x \in T : \A y \in T : x <= y
<1> DEFINE R == OpToRel(<, Nat)
<1>1. IsWellFoundedOn(R, Nat)
  BY NatLessThanWellFounded
<1>2. \A x, y \in Nat : y < x => <<y, x>> \in R
  BY DEF R, OpToRel
<1> HIDE DEF R
<1>3. PICK x \in T : \A y \in T : ~(<<y, x>> \in R)
  BY <1>1, WFMin
<1>4. \A y \in T : ~(y < x)
  BY Zenon, <1>2, <1>3
<1> QED
  BY <1>4

\* Induction, for the set of the numbers that have a property.
LEMMA SetInduction ==
    ASSUME NEW T \in SUBSET Nat, 0 \in T, \A n \in T : n + 1 \in T
    PROVE  T = Nat
<1> SUFFICES ASSUME T # Nat PROVE FALSE
  OBVIOUS
<1> DEFINE U == Nat \ T
<1>1. U \in SUBSET Nat /\ U # {}
  OBVIOUS
<1>2. PICK x \in U : \A y \in U : x <= y
  BY <1>1, LeastElement
<1>3. x # 0 /\ x - 1 \in Nat /\ x - 1 \notin U
  BY <1>2
<1> QED
  BY <1>3

\* The members of a set up to a number, and up to the next.
LEMMA UpToFacts ==
    ASSUME NEW S, \A x \in S : x \in Nat /\ 1 <= x, NEW j \in Nat
    PROVE  /\ {x \in S : x <= 0} = {}
           /\ j + 1 \notin S => {x \in S : x <= j + 1} = {x \in S : x <= j}
           /\ j + 1 \in S => {x \in S : x <= j + 1} = {x \in S : x <= j} \cup {j + 1}
           /\ j + 1 \notin {x \in S : x <= j}
<1>1. {x \in S : x <= 0} = {}
  OBVIOUS
<1>2. j + 1 \notin S => {x \in S : x <= j + 1} = {x \in S : x <= j}
  OBVIOUS
<1>3. j + 1 \in S => {x \in S : x <= j + 1} = {x \in S : x <= j} \cup {j + 1}
  OBVIOUS
<1> QED
  BY <1>1, <1>2, <1>3

\* The members of a set up to a place count every number up to their number.
LEMMA PlacesCount ==
    ASSUME NEW N \in Nat, NEW S \in SUBSET (1..N),
           NEW m \in 1..Cardinality(S)
    PROVE  \E n \in S : Cardinality({x \in S : x <= n}) = m
<1> DEFINE UpTo(j) == {x \in S : x <= j}
           Reached(j) == \A l \in 1..Cardinality(UpTo(j)) :
                            \E n \in S : Cardinality(UpTo(n)) = l
           T == {j \in Nat : Reached(j)}
<1> HIDE DEF Reached, T
<1>0. \A x \in S : x \in Nat /\ 1 <= x /\ x <= N
  <2>1. \A x \in 1..N : x \in Nat /\ 1 <= x /\ x <= N
    OBVIOUS
  <2> QED
    BY <2>1
<1>a. /\ UpTo(0) = {}
      /\ \A j \in Nat : /\ j + 1 \notin S => UpTo(j + 1) = UpTo(j)
                        /\ j + 1 \in S => UpTo(j + 1) = UpTo(j) \cup {j + 1}
                        /\ j + 1 \notin UpTo(j)
  <2>1. \A x \in S : x \in Nat /\ 1 <= x
    BY <1>0
  <2>2. ASSUME NEW j \in Nat
        PROVE  /\ UpTo(0) = {}
               /\ j + 1 \notin S => UpTo(j + 1) = UpTo(j)
               /\ j + 1 \in S => UpTo(j + 1) = UpTo(j) \cup {j + 1}
               /\ j + 1 \notin UpTo(j)
    BY Zenon, <2>1, UpToFacts
  <2> QED
    BY Zenon, <2>2
<1>1. IsFiniteSet(S)
  <2>1. IsFiniteSet(1..N)
    BY FS_Interval
  <2> QED
    BY <2>1, FS_Subset
<1>2. \A j \in Nat : IsFiniteSet(UpTo(j)) /\ Cardinality(UpTo(j)) \in Nat
  BY <1>1, FS_Subset, FS_CardinalityType
<1>3. 0 \in T
  <2>1. UpTo(0) = {}
    BY <1>a
  <2>2. Cardinality(UpTo(0)) = 0
    BY <2>1, FS_EmptySet
  <2> HIDE DEF UpTo
  <2>3. 1..Cardinality(UpTo(0)) = {}
    BY <2>2
  <2> QED
    BY <2>3 DEF T, Reached
<1>4. ASSUME NEW j \in T PROVE j + 1 \in T
  <2>0. j \in Nat /\ Reached(j)
    BY DEF T
  <2>1. CASE j + 1 \notin S
    <3>1. UpTo(j + 1) = UpTo(j)
      BY Zenon, <1>a, <2>0, <2>1
    <3> QED
      BY <2>0, <3>1 DEF T, Reached
  <2>2. CASE j + 1 \in S
    <3>1. UpTo(j + 1) = UpTo(j) \cup {j + 1} /\ j + 1 \notin UpTo(j)
      BY Zenon, <1>a, <2>0, <2>2
    <3>2. Cardinality(UpTo(j + 1)) = Cardinality(UpTo(j)) + 1
      BY <1>2, <2>0, <3>1, FS_AddElement
    <3>3. Cardinality(UpTo(j)) \in Nat
      BY <1>2, <2>0
    <3>4. \A l \in 1..Cardinality(UpTo(j + 1)) :
             l \in 1..Cardinality(UpTo(j)) \/ l = Cardinality(UpTo(j + 1))
      BY <3>2, <3>3
    <3> HIDE DEF UpTo
    <3>5. Reached(j + 1)
      BY <2>0, <2>2, <3>4 DEF Reached
    <3> QED
      BY <2>0, <3>5 DEF T
  <2> QED
    BY <2>1, <2>2
<1>5. T = Nat
  <2>1. T \in SUBSET Nat
    BY DEF T
  <2> QED
    BY <1>3, <1>4, <2>1, SetInduction
<1>6. UpTo(N) = S
  BY <1>0
<1>7. Reached(N)
  BY <1>5 DEF T
<1> QED
  BY <1>6, <1>7 DEF Reached

\* A sequence without some of its members is one of the others, in order.
LEMMA WithoutType ==
    ASSUME NEW packages \in Seq(Package), NEW S
    PROVE  /\ Without(packages, S) \in Seq(Package)
           /\ \A n \in DOMAIN Without(packages, S) : Without(packages, S)[n] \notin S
<1> DEFINE kept == {n \in DOMAIN packages : packages[n] \notin S}
           c == Cardinality(kept)
           Place(n) == CHOOSE m \in kept : Cardinality({x \in kept : x <= m}) = n
<1>1. kept \in SUBSET (1..Len(packages)) /\ Len(packages) \in Nat
  OBVIOUS
<1>2. \A n \in 1..c : \E m \in kept : Cardinality({x \in kept : x <= m}) = n
  BY <1>1, PlacesCount
<1>3. \A n \in 1..c : Place(n) \in kept
  BY <1>2
<1>4. c \in Nat
  <2>1. IsFiniteSet(1..Len(packages))
    BY <1>1, FS_Interval
  <2>2. IsFiniteSet(kept)
    BY <1>1, <2>1, FS_Subset
  <2> QED
    BY <2>2, FS_CardinalityType
<1>5. Without(packages, S) = [n \in 1..c |-> packages[Place(n)]]
  BY DEF Without
<1> HIDE DEF Place, c
<1>6. \A n \in 1..c : packages[Place(n)] \in Package /\ packages[Place(n)] \notin S
  BY <1>3
<1> QED
  BY <1>4, <1>5, <1>6

--------------------------------------------------------------------------------
(* Every step keeps the types.  *)

\* initSchema leaves tables and rows.
LEMMA SchemaType ==
    ASSUME NEW db \in YapdbType, "meta" \notin db.tables
    PROVE  /\ CreateTable(db) \in YapdbType
           /\ CreateTable(db) = [db EXCEPT !.tables = CreateTable(db).tables]
<1> DEFINE Due(n) == Schema[n] \notin db.tables /\ \A m \in 1..(n - 1) : Schema[m] \in db.tables
<1>1. DOMAIN Schema = 1..4 /\ \A n \in 1..4 : Schema[n] \in {"packages", "files", "caps", "meta"}
  BY DEF Schema
<1>2. \E n \in DOMAIN Schema : Due(n)
  <2>1. Schema[1] = "packages" /\ Schema[2] = "files" /\ Schema[3] = "caps" /\ Schema[4] = "meta"
    BY DEF Schema
  <2>2. CASE Schema[1] \notin db.tables
    BY <1>1, <2>2
  <2>3. CASE Schema[1] \in db.tables /\ Schema[2] \notin db.tables
    BY <1>1, <2>3
  <2>4. CASE Schema[1] \in db.tables /\ Schema[2] \in db.tables /\ Schema[3] \notin db.tables
    BY <1>1, <2>4
  <2>5. CASE Schema[1] \in db.tables /\ Schema[2] \in db.tables /\ Schema[3] \in db.tables
    BY <1>1, <2>1, <2>5
  <2> QED
    BY <2>2, <2>3, <2>4, <2>5
<1> DEFINE n == CHOOSE x \in DOMAIN Schema : Due(x)
<1>3. n \in DOMAIN Schema
  BY <1>2
<1>4. CreateTable(db) = [db EXCEPT !.tables = @ \cup {Schema[n]}]
  BY DEF CreateTable
<1> HIDE DEF n
<1>5. Schema[n] \in {"packages", "files", "caps", "meta"}
  BY <1>1, <1>3
<1> QED
  BY <1>4, <1>5 DEF YapdbType

\* RecordInstalled's transaction leaves tables and rows.
LEMMA InsertType ==
    ASSUME NEW db \in YapdbType, NEW p \in Package, NEW v \in Version, NEW paths \in SUBSET Path
    PROVE  Insert(db, p, v, paths) \in YapdbType
<1>1. /\ (db.rows \ RowsOf(db, p)) \cup {[id |-> db.next, name |-> p, version |-> v]}
           \in SUBSET [id : Nat, name : Package, version : Version]
      /\ db.files \cup {[id |-> db.next, path |-> x] : x \in paths} \in SUBSET [id : Nat, path : Path]
      /\ db.caps \cup {[id |-> db.next, name |-> p, version |-> v]}
           \in SUBSET [id : Nat, name : Package, version : Version]
      /\ db.next + 1 \in Nat
  BY DEF YapdbType
<1> QED
  BY <1>1 DEF Insert, YapdbType

\* A script leaves versions in the native database.
LEMMA ScriptType ==
    ASSUME TypeInv, NEW i \in Process, NEW next \in PCs, NEW here, NEW fatal,
           RunScript(i, here, next, fatal)
    PROVE  TypeInv'
<1>0. "failed" \in PCs
  BY DEF PCs, Ended
<1>1. pc' \in [Process -> PCs] /\ lock' \in Process \cup {NoProcess}
  <2>1. (Goto(i, next) /\ UNCHANGED lock) \/ Fail(i)
    BY DEF RunScript
  <2>2. pc \in [Process -> PCs] /\ lock \in Process \cup {NoProcess}
    BY DEF TypeInv, TypeOK
  <2> QED
    BY <1>0, <2>1, <2>2 DEF Fail, Goto
<1>2. at' \in [Process -> Nat \ {0}]
  BY DEF RunScript, TypeInv
<1>3. UNCHANGED <<hostVars, diskVars, dbVars, nativeVars, callVars, k, snap, phase>>
  BY DEF RunScript
<1> QED
  BY <1>1, <1>2, <1>3 DEF TypeInv, TypeOK, hostVars, diskVars, dbVars, nativeVars, callVars

\* What a call keeps of its own has its type after every step.
LEMMA ControlTypes ==
    ASSUME TypeInv, NEW i \in Process
    PROVE  /\ Fail(i) => pc' \in [Process -> PCs] /\ lock' \in Process \cup {NoProcess}
           /\ \A s \in Seq(Package) : Prepared(i, s) =>
                 /\ pc' \in [Process -> PCs] /\ lock' \in Process \cup {NoProcess}
                 /\ plan' \in [Process -> Seq(Package)] /\ k' \in [Process -> Nat \ {0}]
<1>1. pc \in [Process -> PCs] /\ lock \in Process \cup {NoProcess} /\ {"failed", "done", "fetch"} \subseteq PCs
  BY DEF TypeInv, TypeOK, PCs, Ended
<1>2. plan \in [Process -> Seq(Package)] /\ k \in [Process -> Nat \ {0}]
  BY DEF TypeInv, TypeOK
<1>3. Fail(i) => pc' \in [Process -> PCs] /\ lock' \in Process \cup {NoProcess}
  BY <1>1 DEF Fail, Goto
<1>4. ASSUME NEW s \in Seq(Package), Prepared(i, s)
      PROVE  /\ pc' \in [Process -> PCs] /\ lock' \in Process \cup {NoProcess}
             /\ plan' \in [Process -> Seq(Package)] /\ k' \in [Process -> Nat \ {0}]
  <2>1. pc' \in [Process -> PCs] /\ lock' \in Process \cup {NoProcess}
    BY <1>1, <1>4 DEF Prepared, Goto
  <2>2. plan' \in [Process -> Seq(Package)] /\ k' \in [Process -> Nat \ {0}]
    BY <1>2, <1>4 DEF Prepared
  <2> QED
    BY <2>1, <2>2
<1> QED
  BY <1>3, <1>4

\* What unpacking and opening change has its type.
LEMMA ExtractTypes ==
    ASSUME TypeInv, CallInv, NEW i \in Process, NEW disk,
           NEW after \in {"status", "postin", "stanzas"}, Extract(i, disk, after),
           P(i) \in Package /\ cache[i].version \in Version /\ at[i] \in DOMAIN Contents[P(i)]
             => disk \in FsType
    PROVE  TypeInv'
<1>1. pc[i] = "extract" /\ P(i) \in Package /\ cache[i].version \in Version
  BY AtHand DEF Extract, Critical, Placing
<1>2. Contents[P(i)] \in PayloadType /\ at[i] \in Nat \ {0}
  BY <1>1, PayloadFacts DEF TypeInv
<1>3. fs' \in FsType
  <2>1. CASE at[i] > Len(Contents[P(i)])
    BY <2>1 DEF Extract, TypeInv, TypeOK, FsType, diskVars
  <2>2. CASE ~(at[i] > Len(Contents[P(i)]))
    <3>1. at[i] \in DOMAIN Contents[P(i)]
      BY <1>2, <2>2 DEF PayloadType
    <3>2. fs' = disk
      BY <2>2 DEF Extract
    <3> QED
      BY <1>1, <3>1, <3>2
  <2> QED
    BY <2>1, <2>2
<1>4. pc' \in [Process -> PCs]
  BY DEF Extract, Goto, TypeInv, TypeOK, PCs
<1>5. at' \in [Process -> Nat \ {0}]
  BY DEF Extract, TypeInv
<1>6. unrecorded' \subseteq Package
  BY <1>1 DEF Extract, TypeInv, TypeOK, diskVars
<1>7. UNCHANGED <<hostVars, dbVars, nativeVars, lock, callVars, k, snap, phase>>
  BY DEF Extract
<1> QED
  BY <1>3, <1>4, <1>5, <1>6, <1>7
  DEF TypeInv, TypeOK, FsType, hostVars, dbVars, nativeVars, callVars

\* Every step keeps the types.
LEMMA TypeStep ==
    ASSUME TypeInv, CallInv, LockInv, [Next]_vars
    PROVE  TypeInv'
<1> USE DEF hostVars, diskVars, dbVars, nativeVars, callVars
<1>1. ASSUME NEW i \in Process, Fetch(i) \/ ExtractFails(i) \/ OpenYapdb(i)
      PROVE  TypeInv'
  BY <1>1 DEF Fetch, ExtractFails, OpenYapdb, Fail, Goto, TypeInv, TypeOK, PCs, Ended
<1>2. ASSUME NEW i \in Process, AcquireDpkgLock(i) \/ AptNext(i) PROVE TypeInv'
  BY <1>2 DEF AcquireDpkgLock, AptNext, Fail, Goto, TypeInv, TypeOK, PCs, Ended
<1>3. ASSUME NEW i \in Process, Preinst(i) \/ Pretrans(i) \/ Prein(i) \/ Postin(i)
      PROVE  TypeInv'
  <2>1. {"extract", "prein", "open"} \subseteq PCs
    BY DEF PCs
  <2> QED
    BY <1>3, <2>1, ScriptType DEF Preinst, Pretrans, Prein, Postin
<1>4. ASSUME NEW i \in Process,
             DnfDone(i) \/ AcquireLock(i) \/ LockTimesOut(i) \/ VerifySignature(i)
      PROVE  TypeInv'
  BY <1>4 DEF DnfDone, AcquireLock, LockTimesOut, VerifySignature, Fail, Goto, TypeInv, TypeOK,
     PCs, Ended
<1>5. ASSUME NEW i \in Process, OpenWriter(i) \/ NoSystemRpmdb(i) PROVE TypeInv'
  BY <1>5 DEF OpenWriter, NoSystemRpmdb, Fail, Goto, TypeInv, TypeOK, PCs, Ended
<1>6. ASSUME NEW i \in Process, Posttrans(i) PROVE TypeInv'
  <2>1. k' \in [Process -> Nat \ {0}]
    BY <1>6 DEF Posttrans, TypeInv
  <2> QED
    BY <1>6, <2>1 DEF Posttrans, Fail, Goto, TypeInv, TypeOK, PCs, Ended
<1>7. ASSUME NEW i \in Process, ReadPkgInfo(i) PROVE TypeInv'
  <2>1. at' \in [Process -> Nat \ {0}]
    BY <1>7 DEF ReadPkgInfo, TypeInv
  <2>2. pc' \in [Process -> PCs] /\ lock' \in Process \cup {NoProcess}
    BY <1>7, ControlTypes DEF ReadPkgInfo, Goto, TypeInv, TypeOK, PCs, Ended
  <2> QED
    BY <1>7, <2>1, <2>2 DEF ReadPkgInfo, TypeInv, TypeOK
<1>8. ASSUME NEW i \in Process, Postinst(i) PROVE TypeInv'
  <2>1. phase' \in [Process -> {"unpacking", "installed", "unconfigured"}]
    BY <1>8 DEF Postinst, TypeInv
  <2>2. pc' \in [Process -> PCs]
    BY <1>8 DEF Postinst, Goto, TypeInv, TypeOK, PCs
  <2> QED
    BY <1>8, <2>1, <2>2 DEF Postinst, TypeInv, TypeOK
<1>9. ASSUME NEW i \in Process, InitSchema(i) PROVE TypeInv'
  <2>1. yapdb' \in YapdbType
    BY <1>9, SchemaType DEF InitSchema, CallInv, TypeInv
  <2> QED
    BY <1>9, <2>1 DEF InitSchema, Goto, YapdbType, TypeInv, TypeOK, PCs, Ended
<1>10. ASSUME NEW i \in Process, NEW next \in {"writeStatus", "rpmdb"}, RecordInstalled(i, next)
       PROVE  TypeInv'
  <2>2. P(i) \in Package /\ cache[i].version \in Version
    BY <1>10, AtHand DEF RecordInstalled, Critical, Placed
  <2>1. yapdb' \in YapdbType
    BY <1>10, <2>2, InsertType, PayloadFacts DEF RecordInstalled, TypeInv
  <2> QED
    BY <1>10, <2>1, <2>2 DEF RecordInstalled, Goto, YapdbType, TypeInv, TypeOK, PCs, Ended
<1>11. ASSUME NEW i \in Process, ResolveAndPrepare(i) PROVE TypeInv'
  <2> DEFINE r == Resolve("deb", plan[i], cache'[i].installed)
  <2>1. cache' = [cache EXCEPT ![i] = Loaded(i)] /\ cache' \in [Process -> CacheType]
    BY <1>11, LoadedType DEF ResolveAndPrepare, TypeInv
  <2>2. cache'[i].installed \in SUBSET Package
    BY <2>1 DEF CacheType
  <2>3. r.plan \in Seq(Package)
    BY <1>11, <2>2, ResolvedType DEF ResolveAndPrepare
  <2> HIDE DEF r
  <2>4. (Fail(i) /\ UNCHANGED <<plan, k>>) \/ Prepared(i, r.plan)
    BY <1>11 DEF ResolveAndPrepare, r
  <2> QED
    <3>1. pc' \in [Process -> PCs] /\ lock' \in Process \cup {NoProcess}
      BY <2>3, <2>4, ControlTypes
    <3>2. plan' \in [Process -> Seq(Package)] /\ k' \in [Process -> Nat \ {0}]
      BY <2>3, <2>4, ControlTypes DEF TypeInv, TypeOK
    <3> QED
      BY <1>11, <2>1, <3>1, <3>2 DEF ResolveAndPrepare, TypeInv, TypeOK
<1>12. ASSUME NEW i \in Process, DnfResolve(i) \/ ApkResolve(i) PROVE TypeInv'
  <2>1. cache' = [cache EXCEPT ![i] = Loaded(i)] /\ cache' \in [Process -> CacheType]
    BY <1>12, LoadedType DEF DnfResolve, ApkResolve, TypeInv
  <2>2. \E s \in Seq(Package) : Prepared(i, s)
    <3>1. \A S \in SUBSET Package : Resolve(format, plan[i], S).plan \in Seq(Package)
      BY <1>12, ResolvedType DEF DnfResolve, ApkResolve
    <3>2. CASE DnfResolve(i)
      BY <3>1, <3>2 DEF DnfResolve
    <3>3. CASE ApkResolve(i)
      BY <3>1, <3>3, WithoutType DEF ApkResolve
    <3> QED
      BY <1>12, <3>2, <3>3
  <2>3. UNCHANGED <<hostVars, diskVars, dbVars, nativeVars, at, snap, phase>>
    BY <1>12 DEF DnfResolve, ApkResolve
  <2> QED
    BY <2>1, <2>2, <2>3, ControlTypes DEF TypeInv, TypeOK
<1>13. ASSUME NEW i \in Process, OpenForWriting(i) \/ WriteFile(i) PROVE TypeInv'
  <2>1. P(i) \in Package /\ cache[i].version \in Version /\ at[i] \in DOMAIN Contents[P(i)]
    <3>1. pc[i] \in Critical
      BY <1>13 DEF OpenForWriting, WriteFile, Critical, Placing
    <3>2. P(i) \in Package /\ cache[i].version \in Version
      BY <3>1, AtHand
    <3>3. Contents[P(i)] \in PayloadType
      BY <3>2, PayloadFacts
    <3>4. at[i] \in Nat \ {0}
      BY DEF TypeInv
    <3>5. WriteFile(i) => at[i] \in DOMAIN Contents[P(i)]
      BY DEF WriteFile, CallInv
    <3>6. OpenForWriting(i) => at[i] <= Len(Contents[P(i)])
      BY DEF OpenForWriting
    <3> QED
      BY <1>13, <3>2, <3>3, <3>4, <3>5, <3>6 DEF PayloadType
  <2>2. fs' \in FsType
    <3> DEFINE path == Contents[P(i)][at[i]].path
    <3>1. \/ fs' = [fs EXCEPT ![path] = Torn]
          \/ fs' = [fs EXCEPT ![path] = File(P(i), cache[i].version)]
      BY <1>13 DEF OpenForWriting, WriteFile
    <3>2. /\ [fs EXCEPT ![path] = Torn] \in FsType
          /\ [fs EXCEPT ![path] = File(P(i), cache[i].version)] \in FsType
      BY <2>1, DiskTypes
    <3> QED
      BY <3>1, <3>2
  <2>3. pc' \in [Process -> PCs]
    BY <1>13 DEF OpenForWriting, WriteFile, Goto, TypeInv, TypeOK, PCs
  <2>4. at' \in [Process -> Nat \ {0}]
    BY <1>13 DEF OpenForWriting, WriteFile, TypeInv
  <2>5. unrecorded' \subseteq Package
    BY <1>13, <2>1 DEF OpenForWriting, WriteFile, TypeInv, TypeOK
  <2>6. UNCHANGED <<hostVars, dbVars, nativeVars, lock, callVars, k, snap, phase>>
    BY <1>13 DEF OpenForWriting, WriteFile
  <2> QED
    BY <2>2, <2>3, <2>4, <2>5, <2>6 DEF TypeInv, TypeOK, FsType
<1>14. ASSUME NEW i \in Process, ExtractDataTar(i) \/ ExtractRPM(i) \/ ExtractAPKData(i)
       PROVE  TypeInv'
  <2>1. CASE ExtractDataTar(i)
    <3>1. Extract(i, DebLinks(fs, P(i), cache[i].version, Contents[P(i)][at[i]]), "status")
      BY <2>1 DEF ExtractDataTar
    <3> QED
      BY <3>1, ExtractTypes, DiskTypes
  <2>2. CASE ExtractRPM(i)
    <3>1. Extract(i, RpmPlace(fs, P(i), cache[i].version, Contents[P(i)], at[i]), "postin")
      BY <2>2 DEF ExtractRPM
    <3> QED
      BY <3>1, ExtractTypes, DiskTypes
  <2>3. CASE ExtractAPKData(i)
    <3>1. Extract(i, ApkPlace(fs, P(i), cache[i].version, Contents[P(i)][at[i]]), "stanzas")
      BY <2>3 DEF ExtractAPKData
    <3> QED
      BY <3>1, ExtractTypes, DiskTypes
  <2> QED
    BY <1>14, <2>1, <2>2, <2>3
<1>15. ASSUME NEW i \in Process, ReadDpkgStatus(i) \/ ReadInstalledStanzas(i) PROVE TypeInv'
  <2>1. native \in [Package -> NativeEntry] /\ Named(native) \in [Package -> NativeEntry]
    <3>1. native \in [Package -> NativeEntry]
      BY DEF TypeInv, TypeOK
    <3>2. NotThere \in NativeEntry
      BY InstallerAssumption DEF NotThere, NativeEntry, Version
    <3> QED
      BY <3>1, <3>2 DEF Named
  <2>2. snap' \in [Process -> [Package -> NativeEntry]]
    BY <1>15, <2>1 DEF ReadDpkgStatus, ReadInstalledStanzas, TypeInv
  <2>3. pc' \in [Process -> PCs]
    BY <1>15 DEF ReadDpkgStatus, ReadInstalledStanzas, Goto, TypeInv, TypeOK, PCs
  <2> QED
    BY <1>15, <2>2, <2>3 DEF ReadDpkgStatus, ReadInstalledStanzas, TypeInv, TypeOK
<1>16. ASSUME NEW i \in Process,
              WriteDpkgStatus(i) \/ WriterInstall(i) \/ WriteInstalledStanzas(i)
       PROVE  TypeInv'
  <2>1. P(i) \in Package /\ cache[i].version \in Version
    <3>1. pc[i] \in Critical
      BY <1>16 DEF WriteDpkgStatus, WriterInstall, WriteInstalledStanzas, Critical, Placed
    <3> QED
      BY <3>1, AtHand
  <2>2. \A s \in {"installed", "unpacked", "nameless"} :
           [state |-> s, version |-> cache[i].version] \in NativeEntry
    BY <2>1 DEF NativeEntry
  <2>3. native \in [Package -> NativeEntry] /\ snap[i] \in [Package -> NativeEntry]
    BY DEF TypeInv, TypeOK
  <2>4. native' \in [Package -> NativeEntry]
    BY <1>16, <2>1, <2>2, <2>3 DEF WriteDpkgStatus, WriterInstall, WriteInstalledStanzas, SetNative
  <2>5. lost' \subseteq Package /\ unrecorded' \subseteq Package
    BY <1>16, <2>1 DEF WriteDpkgStatus, WriterInstall, WriteInstalledStanzas, SetNative, TypeInv, TypeOK
  <2>6. pc' \in [Process -> PCs]
    BY <1>16 DEF WriteDpkgStatus, WriterInstall, WriteInstalledStanzas, Goto, TypeInv, TypeOK, PCs
  <2>7. k' \in [Process -> Nat \ {0}]
    BY <1>16 DEF WriteDpkgStatus, WriterInstall, WriteInstalledStanzas, TypeInv
  <2>8. UNCHANGED <<hostVars, fs, dbVars, rpmdb, lock, callVars, at, snap, phase>>
    BY <1>16 DEF WriteDpkgStatus, WriterInstall, WriteInstalledStanzas
  <2> QED
    BY <2>4, <2>5, <2>6, <2>7, <2>8 DEF TypeInv, TypeOK
<1>17. ASSUME NEW i \in Process, InitRpmdbSchema(i) PROVE TypeInv'
  BY <1>17 DEF InitRpmdbSchema, Goto, TypeInv, TypeOK, PCs
<1>18. ASSUME NEW i \in Process, Crash(i) PROVE TypeInv'
  <2>1. NoCache \in CacheType /\ <<>> \in Seq(Package)
    BY InstallerAssumption DEF NoCache, CacheType, Version
  <2>2. cache' \in [Process -> CacheType] /\ plan' \in [Process -> Seq(Package)]
    BY <1>18, <2>1 DEF Crash, TypeInv, TypeOK
  <2> QED
    BY <1>18, <2>2 DEF Crash, Goto, TypeInv, TypeOK, PCs, Ended
<1>19. ASSUME NEW i \in Process, NEW names \in Request, Install(i, names) PROVE TypeInv'
  <2>1. names \in Seq(Package)
    BY InstallerAssumption
  <2>2. calls' \in 0..MaxCalls
    BY <1>19, InstallerAssumption DEF Install, TypeInv, TypeOK
  <2>3. pc' \in [Process -> PCs]
    BY <1>19 DEF Install, Goto, TypeInv, TypeOK, PCs, Ended
  <2> QED
    BY <1>19, <2>1, <2>2, <2>3 DEF Install, TypeInv, TypeOK
<1>20. CASE RepositoryMoves
  <2>1. offered' \in 1..MaxVersion
    BY <1>20, InstallerAssumption DEF RepositoryMoves, TypeInv, TypeOK
  <2> QED
    BY <1>20, <2>1 DEF RepositoryMoves, TypeInv, TypeOK
<1>21. CASE UNCHANGED vars
  BY <1>21 DEF vars, TypeInv, TypeOK
<1> QED
  BY <1>1, <1>2, <1>3, <1>4, <1>5, <1>6, <1>7, <1>8, <1>9, <1>10, <1>11, <1>12, <1>13, <1>14,
     <1>15, <1>16, <1>17, <1>18, <1>19, <1>20, <1>21 DEF Next, Step, AptStep, DnfStep, ApkStep

--------------------------------------------------------------------------------
(* What a step changes: of the calls, the one of its process; of what they      *)
(* share, one thing at a time.                                                  *)

Act(i) == Step(i) \/ Crash(i) \/ \E names \in Request : Install(i, names)

Still ==
    UNCHANGED <<format, opts, calls, fs, unrecorded, yapdb, recorded, native, rpmdb, lost,
                lock, pc, cache, plan, k, at, snap, phase>>

\* A step is one of a process, or leaves all but the repository as it is.
LEMMA StepCases ==
    ASSUME [Next]_vars
    PROVE  (\E i \in Process : Act(i)) \/ Still
<1>1. CASE RepositoryMoves
  BY <1>1 DEF RepositoryMoves, Still, diskVars, dbVars, nativeVars, callVars
<1>2. CASE UNCHANGED vars
  BY <1>2 DEF vars, Still
<1>3. CASE \E i \in Process : Step(i) \/ Crash(i) \/ \E names \in Request : Install(i, names)
  BY <1>3 DEF Act
<1> QED
  BY <1>1, <1>2, <1>3 DEF Next

\* The calls of the other processes.
Others(i) ==
    \A j \in Process \ {i} :
        /\ pc'[j] = pc[j] /\ plan'[j] = plan[j] /\ k'[j] = k[j] /\ at'[j] = at[j]
        /\ cache'[j] = cache[j] /\ snap'[j] = snap[j] /\ phase'[j] = phase[j]

\* A step of one call leaves what the others keep of their own.
LEMMA OthersKeep ==
    ASSUME TypeInv, NEW i \in Process, Act(i)
    PROVE  Others(i) /\ UNCHANGED <<format, opts>>
<1> USE DEF hostVars, diskVars, dbVars, nativeVars, callVars
<1>0. /\ DOMAIN pc = Process /\ DOMAIN plan = Process /\ DOMAIN k = Process
      /\ DOMAIN at = Process /\ DOMAIN cache = Process /\ DOMAIN snap = Process
      /\ DOMAIN phase = Process
  BY DEF TypeInv, TypeOK
<1>1. CASE Fetch(i) \/ ExtractFails(i) \/ OpenYapdb(i) \/ InitSchema(i)
  BY <1>0, <1>1 DEF Fetch, ExtractFails, OpenYapdb, InitSchema, Fail, Goto, Others
<1>2. ASSUME NEW next, RecordInstalled(i, next) PROVE Others(i) /\ UNCHANGED <<format, opts>>
  BY <1>0, <1>2 DEF RecordInstalled, Goto, Others
<1>3. CASE AcquireDpkgLock(i) \/ AptNext(i) \/ OpenForWriting(i) \/ WriteFile(i)
  BY <1>0, <1>3 DEF AcquireDpkgLock, AptNext, OpenForWriting, WriteFile, Fail, Goto, Others
<1>4. CASE ResolveAndPrepare(i) \/ DnfResolve(i) \/ ApkResolve(i)
  BY <1>0, <1>4 DEF ResolveAndPrepare, DnfResolve, ApkResolve, Prepared, Fail, Goto, Others
<1>5. ASSUME NEW here, NEW next, NEW fatal, RunScript(i, here, next, fatal)
      PROVE  Others(i) /\ UNCHANGED <<format, opts>>
  BY <1>0, <1>5 DEF RunScript, Fail, Goto, Others
<1>6. ASSUME NEW disk, NEW after, Extract(i, disk, after)
      PROVE  Others(i) /\ UNCHANGED <<format, opts>>
  BY <1>0, <1>6 DEF Extract, Goto, Others
<1>7. CASE ReadDpkgStatus(i) \/ WriteDpkgStatus(i) \/ Postinst(i)
  BY <1>0, <1>7 DEF ReadDpkgStatus, WriteDpkgStatus, Postinst, Goto, Others
<1>8. CASE DnfDone(i) \/ AcquireLock(i) \/ LockTimesOut(i) \/ VerifySignature(i)
  BY <1>0, <1>8 DEF DnfDone, AcquireLock, LockTimesOut, VerifySignature, Fail, Goto, Others
<1>9. CASE OpenWriter(i) \/ InitRpmdbSchema(i) \/ WriterInstall(i) \/ NoSystemRpmdb(i)
           \/ Posttrans(i)
  BY <1>0, <1>9 DEF OpenWriter, InitRpmdbSchema, WriterInstall, NoSystemRpmdb, Posttrans,
     Fail, Goto, Others
<1>10. CASE ReadPkgInfo(i) \/ ReadInstalledStanzas(i) \/ WriteInstalledStanzas(i)
  BY <1>0, <1>10 DEF ReadPkgInfo, ReadInstalledStanzas, WriteInstalledStanzas, Fail, Goto, Others
<1>11. CASE Crash(i)
  BY <1>0, <1>11 DEF Crash, Goto, Others
<1>12. ASSUME NEW names, Install(i, names) PROVE Others(i) /\ UNCHANGED <<format, opts>>
  BY <1>0, <1>12 DEF Install, Goto, Others
<1>13. CASE Preinst(i) \/ Pretrans(i) \/ Prein(i) \/ Postin(i)
  BY <1>5, <1>13 DEF Preinst, Pretrans, Prein, Postin
<1>14. CASE ExtractDataTar(i) \/ ExtractRPM(i) \/ ExtractAPKData(i)
  BY <1>6, <1>14 DEF ExtractDataTar, ExtractRPM, ExtractAPKData
<1> QED
  BY <1>1, <1>2, <1>3, <1>4, <1>7, <1>8, <1>9, <1>10, <1>11, <1>12, <1>13, <1>14
  DEF Act, Step, AptStep, DnfStep, ApkStep

Quiet == UNCHANGED <<fs, unrecorded, yapdb, recorded, native, lost>>

Unpacks(i) ==
    /\ pc[i] \in Placing
    /\ \A f \in Path \ Listed(Contents[P(i)]) : fs'[f] = fs[f]
    /\ unrecorded' = unrecorded \cup {P(i)}
    /\ UNCHANGED <<yapdb, recorded, native, lost>>

CreatesTable(i) ==
    /\ pc[i] = "schema" /\ yapdb' = CreateTable(yapdb)
    /\ UNCHANGED <<fs, unrecorded, recorded, native, lost>>

Records(i) ==
    /\ pc[i] = "insert"
    /\ yapdb' = Insert(yapdb, P(i), cache[i].version, Listed(Contents[P(i)]))
    /\ recorded' = [recorded EXCEPT ![P(i)] = cache[i].version]
    /\ unrecorded' = unrecorded \ {P(i)}
    /\ UNCHANGED <<fs, native, lost>>

Registers(i) ==
    /\ pc[i] \in {"writeStatus", "rpmdbInsert", "writeStanzas"}
    /\ \A q \in Package \ {P(i)} :
          native'[q].state = "installed" => native[q].state = "installed"
    /\ unrecorded' = IF format = "apk" THEN unrecorded \ {P(i)} ELSE unrecorded
    /\ UNCHANGED <<fs, yapdb, recorded, lost>>

Effect(i) == Quiet \/ Unpacks(i) \/ CreatesTable(i) \/ Records(i) \/ Registers(i)

\* An entry of a payload that comes to disk changes nothing outside the payload.
LEMMA PlaceFrame ==
    ASSUME TypeInv, NEW p \in Package, NEW v, NEW n \in DOMAIN Contents[p],
           NEW f \in Path \ Listed(Contents[p])
    PROVE  /\ DebLinks(fs, p, v, Contents[p][n])[f] = fs[f]
           /\ RpmPlace(fs, p, v, Contents[p], n)[f] = fs[f]
           /\ ApkPlace(fs, p, v, Contents[p][n])[f] = fs[f]
           /\ IsData(Contents[p][n]) => f # Contents[p][n].path
<1> DEFINE e == Contents[p][n]
<1>1. DOMAIN fs = Path
  BY DEF TypeInv, TypeOK
<1>2. e.type # "skip" => f # e.path
  BY PayloadFacts
<1>3. f \notin Placeholders(Contents[p], n)
  <2>1. n \in Nat /\ DOMAIN Contents[p] = 1..Len(Contents[p]) /\ Len(Contents[p]) \in Nat
    BY PayloadFacts DEF PayloadType
  <2>2. \A m \in 1..(n - 1) : m \in DOMAIN Contents[p]
    BY <2>1
  <2> QED
    BY <2>2, PayloadFacts DEF Placeholders
<1> HIDE DEF e
<1>4. IsData(e) => f # e.path
  BY <1>2 DEF IsData
<1>5. DebLinks(fs, p, v, e)[f] = fs[f] /\ ApkPlace(fs, p, v, e)[f] = fs[f]
  BY <1>1, <1>2, <1>4 DEF DebLinks, ApkPlace
<1>6. RpmPlace(fs, p, v, Contents[p], n)[f] = fs[f]
  BY <1>1, <1>2, <1>3, <1>4 DEF RpmPlace, e
<1> QED
  BY <1>4, <1>5, <1>6 DEF e

\* While entries are placed, the one at hand is one of the payload or past it.
LEMMA AtEntry ==
    ASSUME TypeInv, CallInv, NEW i \in Process, pc[i] \in Placing
    PROVE  /\ P(i) \in Package /\ cache[i].version \in Version \ {0}
           /\ Contents[P(i)] \in PayloadType
           /\ at[i] <= Len(Contents[P(i)]) => at[i] \in DOMAIN Contents[P(i)]
           /\ at[i] > Len(Contents[P(i)]) => at[i] = Len(Contents[P(i)]) + 1
<1>1. P(i) \in Package /\ cache[i].version \in Version \ {0}
  BY AtHand DEF Critical
<1>2. Contents[P(i)] \in PayloadType
  BY <1>1, PayloadFacts
<1>3. at[i] \in 1..(Len(Contents[P(i)]) + 1)
  BY DEF CallInv
<1>4. Len(Contents[P(i)]) \in Nat /\ DOMAIN Contents[P(i)] = 1..Len(Contents[P(i)])
  BY <1>2 DEF PayloadType
<1> QED
  BY <1>1, <1>2, <1>3, <1>4

\* A step of Extract on the entry at hand, or past the last one.
LEMMA ExtractCases ==
    ASSUME TypeInv, CallInv, NEW i \in Process, NEW disk, NEW after, Extract(i, disk, after)
    PROVE  /\ pc[i] = "extract" /\ pc[i] \in Placing
           /\ UNCHANGED <<hostVars, dbVars, nativeVars, lock, callVars, k, snap, phase>>
           /\ \/ /\ at[i] \in DOMAIN Contents[P(i)] /\ at' = [at EXCEPT ![i] = at[i] + 1]
                 /\ fs' = disk /\ unrecorded' = unrecorded \cup {P(i)} /\ UNCHANGED pc
              \/ /\ at[i] = Len(Contents[P(i)]) + 1 /\ pc' = [pc EXCEPT ![i] = after]
                 /\ UNCHANGED <<at, fs, unrecorded>>
<1>1. pc[i] = "extract" /\ pc[i] \in Placing
  BY DEF Extract, Placing
<1>2. /\ at[i] <= Len(Contents[P(i)]) => at[i] \in DOMAIN Contents[P(i)]
      /\ at[i] > Len(Contents[P(i)]) => at[i] = Len(Contents[P(i)]) + 1
      /\ at[i] \in Nat /\ Len(Contents[P(i)]) \in Nat
  BY <1>1, AtEntry DEF TypeInv, PayloadType
<1> QED
  BY <1>1, <1>2 DEF Extract, Goto, diskVars

\* What each step does to what the calls share.
LEMMA EffectStep ==
    ASSUME TypeInv, CallInv, NEW i \in Process, Act(i)
    PROVE  Effect(i)
<1> USE DEF hostVars, diskVars, dbVars, nativeVars, callVars
<1>1. CASE Fetch(i) \/ ExtractFails(i) \/ OpenYapdb(i)
  BY <1>1 DEF Fetch, ExtractFails, OpenYapdb, Effect, Quiet
<1>2. CASE InitSchema(i)
  BY <1>2 DEF InitSchema, Effect, CreatesTable
<1>3. ASSUME NEW next, RecordInstalled(i, next) PROVE Effect(i)
  BY <1>3 DEF RecordInstalled, Effect, Records
<1>4. CASE AcquireDpkgLock(i) \/ ResolveAndPrepare(i) \/ AptNext(i) \/ ReadDpkgStatus(i) \/ Postinst(i)
  BY <1>4 DEF AcquireDpkgLock, ResolveAndPrepare, AptNext, ReadDpkgStatus, Postinst, Effect, Quiet
<1>5. CASE DnfResolve(i) \/ DnfDone(i) \/ AcquireLock(i) \/ LockTimesOut(i) \/ VerifySignature(i)
  BY <1>5 DEF DnfResolve, DnfDone, AcquireLock, LockTimesOut, VerifySignature, Effect, Quiet
<1>6. CASE Preinst(i) \/ Pretrans(i) \/ Prein(i) \/ Postin(i)
  BY <1>6 DEF Preinst, Pretrans, Prein, Postin, RunScript, Effect, Quiet
<1>7. CASE OpenWriter(i) \/ InitRpmdbSchema(i) \/ NoSystemRpmdb(i) \/ Posttrans(i)
  BY <1>7 DEF OpenWriter, InitRpmdbSchema, NoSystemRpmdb, Posttrans, Effect, Quiet
<1>8. CASE ApkResolve(i) \/ ReadPkgInfo(i) \/ ReadInstalledStanzas(i) \/ Crash(i)
  BY <1>8 DEF ApkResolve, ReadPkgInfo, ReadInstalledStanzas, Crash, Effect, Quiet
<1>9. ASSUME NEW names, Install(i, names) PROVE Effect(i)
  BY <1>9 DEF Install, Effect, Quiet
<1>10. ASSUME NEW disk, NEW after, Extract(i, disk, after),
              at[i] \in DOMAIN Contents[P(i)] =>
                 \A f \in Path \ Listed(Contents[P(i)]) : disk[f] = fs[f]
       PROVE  Effect(i)
  BY <1>10, ExtractCases DEF Effect, Unpacks, Quiet
<1>11. CASE ExtractDataTar(i) \/ ExtractRPM(i) \/ ExtractAPKData(i)
  <2>0. pc[i] \in Placing
    BY <1>11 DEF ExtractDataTar, ExtractRPM, ExtractAPKData, Extract, Placing
  <2>1. P(i) \in Package
    BY <2>0, AtEntry
  <2>2. CASE ExtractDataTar(i)
    BY <1>10, <2>1, <2>2, PlaceFrame DEF ExtractDataTar
  <2>3. CASE ExtractRPM(i)
    BY <1>10, <2>1, <2>3, PlaceFrame DEF ExtractRPM
  <2>4. CASE ExtractAPKData(i)
    BY <1>10, <2>1, <2>4, PlaceFrame DEF ExtractAPKData
  <2> QED
    BY <1>11, <2>2, <2>3, <2>4
<1>12. CASE OpenForWriting(i) \/ WriteFile(i)
  <2> DEFINE e == Contents[P(i)][at[i]]
  <2>1. pc[i] \in Placing
    BY <1>12 DEF OpenForWriting, WriteFile, Placing
  <2>2. P(i) \in Package /\ at[i] \in DOMAIN Contents[P(i)] /\ IsData(e)
    BY <1>12, <2>1, AtEntry DEF OpenForWriting, WriteFile, CallInv
  <2>3. \A f \in Path \ Listed(Contents[P(i)]) : f # e.path
    BY <2>2, PlaceFrame
  <2>4. \/ fs' = [fs EXCEPT ![e.path] = Torn]
        \/ fs' = [fs EXCEPT ![e.path] = File(P(i), cache[i].version)]
    BY <1>12 DEF OpenForWriting, WriteFile
  <2>5. DOMAIN fs = Path
    BY DEF TypeInv, TypeOK
  <2> HIDE DEF e
  <2>6. \A f \in Path \ Listed(Contents[P(i)]) : fs'[f] = fs[f]
    BY <2>3, <2>4, <2>5
  <2>7. unrecorded' = unrecorded \cup {P(i)}
    BY <1>12 DEF OpenForWriting, WriteFile, CallInv
  <2>8. UNCHANGED <<dbVars, nativeVars>>
    BY <1>12 DEF OpenForWriting, WriteFile
  <2> QED
    BY <2>1, <2>6, <2>7, <2>8 DEF Effect, Unpacks
<1>13. CASE WriteDpkgStatus(i) \/ WriterInstall(i) \/ WriteInstalledStanzas(i)
  <2>1. P(i) \in Package
    BY <1>13, AtHand DEF WriteDpkgStatus, WriterInstall, WriteInstalledStanzas, Critical, Placed
  <2>2. native \in [Package -> NativeEntry] /\ lost \subseteq Package
    BY DEF TypeInv, TypeOK
  <2>3. CASE WriteDpkgStatus(i)
    <3>1. pc[i] = "writeStatus" /\ format = "deb" /\ snap[i] = native
      BY <2>3 DEF WriteDpkgStatus, CallInv
    <3>2. /\ \A q \in Package \ {P(i)} : native'[q] = native[q]
          /\ lost' = lost
      BY <2>1, <2>2, <2>3, <3>1 DEF WriteDpkgStatus, SetNative
    <3> QED
      BY <2>3, <3>1, <3>2 DEF WriteDpkgStatus, Effect, Registers
  <2>4. CASE WriterInstall(i)
    <3>1. pc[i] = "rpmdbInsert" /\ format = "rpm"
      BY <2>4 DEF WriterInstall
    <3>2. /\ \A q \in Package \ {P(i)} : native'[q] = native[q]
          /\ lost' = lost
      BY <2>1, <2>2, <2>4 DEF WriterInstall, SetNative
    <3> QED
      BY <2>4, <3>1, <3>2 DEF WriterInstall, Effect, Registers
  <2>5. CASE WriteInstalledStanzas(i)
    <3>1. pc[i] = "writeStanzas" /\ format = "apk" /\ snap[i] = Named(native)
      BY <2>5 DEF WriteInstalledStanzas, CallInv
    <3>2. \A q \in Package \ {P(i)} : native'[q] = Named(native)[q]
      BY <2>1, <2>5, <3>1 DEF WriteInstalledStanzas, Named
    <3>3. \A q \in Package \ {P(i)} :
             /\ native[q].state = "installed" => native'[q] = native[q]
             /\ native'[q].state = "installed" => native[q].state = "installed"
             /\ native[q].state = "installed" => native'[q] # NotThere
      BY <3>2 DEF Named, NotThere
    <3>4. lost' = lost
      BY <2>2, <2>5, <3>3 DEF WriteInstalledStanzas
    <3>5. UNCHANGED <<fs, dbVars>> /\ unrecorded' = unrecorded \ {P(i)}
      BY <2>5 DEF WriteInstalledStanzas
    <3> QED
      BY <3>1, <3>3, <3>4, <3>5 DEF Effect, Registers
  <2> QED
    BY <1>13, <2>3, <2>4, <2>5
<1> QED
  BY <1>1, <1>2, <1>3, <1>4, <1>5, <1>6, <1>7, <1>8, <1>9, <1>11, <1>12, <1>13
  DEF Act, Step, AptStep, DnfStep, ApkStep

--------------------------------------------------------------------------------
(* The lock. *)

\* Two calls are never at work on a package at once.
LEMMA Alone ==
    ASSUME TypeInv, LockInv, NEW i \in Process, NEW j \in Process, i # j, pc[i] \in Critical
    PROVE  pc[j] \notin Critical
<1>1. format \in {"deb", "rpm", "apk"}
  BY InstallerAssumption DEF TypeInv, TypeOK
<1>2. Critical \cap (Ended \cup {"lock"}) = {}
  BY DEF Critical, Placing, Placed, Ended
<1>3. CASE format = "deb"
  BY <1>2, <1>3 DEF LockInv
<1>4. CASE format = "rpm"
  BY <1>4 DEF LockInv
<1>5. CASE format = "apk"
  BY <1>2, <1>5 DEF LockInv
<1> QED
  BY <1>1, <1>3, <1>4, <1>5

\* A call that moves to where it may be, and takes the lock from nobody, keeps LockInv.
LEMMA LockMove ==
    ASSUME TypeInv, LockInv, NEW i \in Process, NEW l, pc' = [pc EXCEPT ![i] = l],
           UNCHANGED format,
           \A j \in Process \ {i} : lock = j => lock' = j,
           format = "deb" => l \in DebPCs /\ (l \notin Ended \cup {"lock"} => lock' = i),
           format = "rpm" => l \in RpmPCs /\ (l \in Critical => lock' = i),
           format = "apk" => /\ l \in ApkPCs
                             /\ l \in Ended \/ pc[i] \notin Ended \/ \A j \in Process : pc[j] \in Ended
    PROVE  LockInv'
<1>0. DOMAIN pc = Process
  BY DEF TypeInv, TypeOK
<1>1. pc'[i] = l /\ \A j \in Process \ {i} : pc'[j] = pc[j]
  BY <1>0
<1>2. ASSUME NEW j \in Process, format = "deb"
      PROVE  pc'[j] \in DebPCs /\ (pc'[j] \notin Ended \cup {"lock"} => lock' = j)
  BY <1>1, <1>2 DEF LockInv
<1>3. ASSUME NEW j \in Process, format = "rpm"
      PROVE  pc'[j] \in RpmPCs /\ (pc'[j] \in Critical => lock' = j)
  BY <1>1, <1>3 DEF LockInv
<1>4. ASSUME NEW j \in Process, format = "apk"
      PROVE  /\ pc'[j] \in ApkPCs
             /\ \A m \in Process : pc'[j] \in Ended \/ pc'[m] \in Ended \/ j = m
  BY <1>1, <1>4 DEF LockInv
<1> QED
  BY <1>2, <1>3, <1>4 DEF LockInv

\* Every step keeps the lock with the call that works.
LEMMA LockStep ==
    ASSUME TypeInv, LockInv, CallInv, [Next]_vars
    PROVE  LockInv'
<1> USE DEF hostVars, diskVars, dbVars, nativeVars, callVars
<1>a. CASE Still
  BY <1>a DEF Still, LockInv
<1>b. ASSUME NEW i \in Process, Act(i) PROVE LockInv'
  <2> USE <1>b
  <2> DEFINE Move(l) ==
        /\ pc' = [pc EXCEPT ![i] = l]
        /\ \A j \in Process \ {i} : lock = j => lock' = j
        /\ format = "deb" => l \in DebPCs /\ (l \notin Ended \cup {"lock"} => lock' = i)
        /\ format = "rpm" => l \in RpmPCs /\ (l \in Critical => lock' = i)
        /\ format = "apk" => /\ l \in ApkPCs
                             /\ \/ l \in Ended \/ pc[i] \notin Ended
                                \/ \A j \in Process : pc[j] \in Ended
  <2>0. ASSUME NEW l, Move(l) PROVE LockInv'
    BY <2>0, LockMove, OthersKeep
  <2>n. NoProcess \notin Process
    BY InstallerAssumption
  <2>w. /\ format = "deb" /\ pc[i] \notin Ended \cup {"lock"} => lock = i
        /\ format = "rpm" /\ pc[i] \in Critical => lock = i
        /\ format = "deb" => pc[i] \in DebPCs
        /\ format = "rpm" => pc[i] \in RpmPCs
        /\ format = "apk" => pc[i] \in ApkPCs
    BY DEF LockInv
  <2>f. ASSUME Fail(i) PROVE LockInv'
    <3>1. pc' = [pc EXCEPT ![i] = "failed"]
      BY <2>f DEF Fail, Goto
    <3>2. \A j \in Process \ {i} : lock = j => lock' = j
      BY <2>f DEF Fail
    <3>3. Move("failed")
      BY <3>1, <3>2 DEF DebPCs, RpmPCs, ApkPCs, Ended, Critical, Placing, Placed
    <3> QED
      BY <2>0, <3>3
  <2>s. ASSUME NEW s, Prepared(i, s), pc[i] = "load" PROVE LockInv'
    <3>1. CASE s = <<>>
      <4>1. Move("done")
        BY <2>s, <3>1 DEF Prepared, Goto, DebPCs, RpmPCs, ApkPCs, Ended, Critical, Placing, Placed
      <4> QED
        BY <2>0, <4>1
    <3>2. CASE s # <<>>
      <4>1. Move("fetch")
        BY <2>s, <2>w, <3>2 DEF Prepared, Goto, DebPCs, RpmPCs, ApkPCs, Ended, Critical, Placing, Placed
      <4> QED
        BY <2>0, <4>1
    <3> QED
      BY <3>1, <3>2
  <2> DEFINE Stays(l) == pc' = [pc EXCEPT ![i] = l] /\ UNCHANGED lock
  \* Both places need the lock, or the new one does not.
  <2>k. ASSUME NEW l, Stays(l), pc[i] \notin Ended,
               format = "deb" => l \in DebPCs /\ (l \notin Ended \cup {"lock"} => pc[i] # "lock"),
               format = "rpm" => l \in RpmPCs /\ (l \in Critical => pc[i] \in Critical),
               format = "apk" => l \in ApkPCs
        PROVE  LockInv'
    <3>1. Move(l)
      BY <2>k, <2>w
    <3> QED
      BY <2>0, <3>1
  <2>u. ASSUME UNCHANGED <<pc, lock>> PROVE LockInv'
    BY <2>u, OthersKeep DEF LockInv
  <2> HIDE DEF Move
  <2>1. CASE Fetch(i)
    <3>1. CASE Stays("install")
      BY <2>1, <2>k, <3>1 DEF Fetch, DebPCs, RpmPCs, ApkPCs, Ended, Critical, Placing, Placed
    <3> QED
      BY <2>1, <2>f, <3>1 DEF Fetch, Goto
  <2>2. CASE ExtractFails(i) \/ LockTimesOut(i)
    BY <2>2, <2>f DEF ExtractFails, LockTimesOut
  <2>3. CASE OpenYapdb(i)
    <3>1. pc[i] = "open"
      BY <2>3 DEF OpenYapdb
    <3>2. CASE Stays("insert") \/ Stays("schema")
      BY <2>k, <2>w, <3>1, <3>2 DEF DebPCs, RpmPCs, ApkPCs, Ended, Critical, Placing, Placed
    <3> QED
      BY <2>3, <2>f, <3>2 DEF OpenYapdb, Goto
  <2>4. CASE InitSchema(i)
    <3>1. pc[i] = "schema"
      BY <2>4 DEF InitSchema
    <3>2. CASE Stays("insert")
      BY <2>k, <2>w, <3>1, <3>2 DEF DebPCs, RpmPCs, ApkPCs, Ended, Critical, Placing, Placed
    <3> QED
      BY <2>4, <2>u, <3>2 DEF InitSchema, Goto
  <2>5. CASE RecordInstalled(i, IF format = "deb" THEN "writeStatus" ELSE "rpmdb")
    <3>1. pc[i] = "insert" /\ Stays(IF format = "deb" THEN "writeStatus" ELSE "rpmdb")
      BY <2>5 DEF RecordInstalled, Goto
    <3> QED
      BY <2>k, <2>w, <3>1 DEF DebPCs, RpmPCs, ApkPCs, Ended, Critical, Placing, Placed
  <2>6. CASE AcquireDpkgLock(i)
    <3>1. Move("load")
      BY <2>6, <2>n DEF AcquireDpkgLock, Goto, DebPCs, Move
    <3> QED
      BY <2>0, <3>1
  <2>7. CASE ResolveAndPrepare(i) \/ DnfResolve(i) \/ ApkResolve(i)
    BY <2>7, <2>f, <2>s DEF ResolveAndPrepare, DnfResolve, ApkResolve
  <2>8. CASE AptNext(i)
    <3>1. format = "deb" /\ pc[i] = "install" /\ lock = i
      BY <2>8, <2>w DEF AptNext, Ended
    <3>2. CASE Goto(i, "done") /\ lock' = NoProcess
      <4>1. Move("done")
        BY <3>1, <3>2 DEF Goto, DebPCs, Ended, Move
      <4> QED
        BY <2>0, <4>1
    <3>3. CASE Stays("preinst")
      BY <2>k, <3>1, <3>3 DEF DebPCs, Ended
    <3> QED
      BY <2>8, <2>f, <3>2, <3>3 DEF AptNext, Goto
  <2>9. CASE Preinst(i) \/ Pretrans(i) \/ Prein(i) \/ Postin(i)
    <3>1. CASE Fail(i)
      BY <2>f, <3>1
    <3>2. CASE Preinst(i) /\ Stays("extract")
      BY <2>k, <3>2 DEF Preinst, RunScript, DebPCs, Ended
    <3>3. CASE Pretrans(i) /\ Stays("prein")
      BY <2>k, <3>3 DEF Pretrans, RunScript, RpmPCs, Ended, Critical
    <3>4. CASE Prein(i) /\ Stays("extract")
      BY <2>k, <3>4 DEF Prein, RunScript, RpmPCs, Ended, Critical
    <3>5. CASE Postin(i) /\ Stays("open")
      BY <2>k, <3>5 DEF Postin, RunScript, RpmPCs, Ended, Critical, Placed
    <3> QED
      BY <2>9, <3>1, <3>2, <3>3, <3>4, <3>5 DEF Preinst, Pretrans, Prein, Postin, RunScript, Goto
  <2>10. CASE OpenForWriting(i)
    <3>1. format = "deb" /\ pc[i] = "extract" /\ Stays("write")
      BY <2>10 DEF OpenForWriting, Goto
    <3> QED
      BY <2>k, <3>1 DEF DebPCs, Ended
  <2>11. CASE WriteFile(i)
    <3>1. format = "deb" /\ pc[i] = "write" /\ Stays("extract")
      BY <2>11 DEF WriteFile, Goto
    <3> QED
      BY <2>k, <3>1 DEF DebPCs, Ended
  <2>12. CASE ExtractDataTar(i) \/ ExtractRPM(i) \/ ExtractAPKData(i)
    <3>1. ASSUME NEW disk, NEW after, Extract(i, disk, after)
          PROVE  pc[i] = "extract" /\ (Stays(after) \/ UNCHANGED <<pc, lock>>)
      BY <3>1, ExtractCases
    <3>2. CASE ExtractDataTar(i)
      <4>1. format = "deb" /\ pc[i] = "extract" /\ (Stays("status") \/ UNCHANGED <<pc, lock>>)
        BY <3>1, <3>2 DEF ExtractDataTar
      <4> QED
        BY <2>k, <2>u, <4>1 DEF DebPCs, Ended
    <3>3. CASE ExtractRPM(i)
      <4>1. format = "rpm" /\ pc[i] = "extract" /\ (Stays("postin") \/ UNCHANGED <<pc, lock>>)
        BY <3>1, <3>3 DEF ExtractRPM
      <4> QED
        BY <2>k, <2>u, <4>1 DEF RpmPCs, Ended, Critical, Placing
    <3>4. CASE ExtractAPKData(i)
      <4>1. format = "apk" /\ pc[i] = "extract" /\ (Stays("stanzas") \/ UNCHANGED <<pc, lock>>)
        BY <3>1, <3>4 DEF ExtractAPKData
      <4> QED
        BY <2>k, <2>u, <4>1 DEF ApkPCs, Ended
    <3> QED
      BY <2>12, <3>2, <3>3, <3>4
  <2>13. CASE ReadDpkgStatus(i) \/ WriteDpkgStatus(i) \/ Postinst(i)
    <3>1. /\ format = "deb" /\ pc[i] \in {"status", "writeStatus", "postinst"}
          /\ Stays("open") \/ Stays("postinst") \/ Stays("install") \/ Stays("status")
      BY <2>13 DEF ReadDpkgStatus, WriteDpkgStatus, Postinst, Goto
    <3> QED
      BY <2>k, <3>1 DEF DebPCs, Ended
  <2>14. CASE DnfDone(i)
    <3>1. format = "rpm" /\ pc[i] = "install" /\ Stays("done")
      BY <2>14 DEF DnfDone, Goto
    <3> QED
      BY <2>k, <3>1 DEF RpmPCs, Ended, Critical, Placing, Placed
  <2>15. CASE AcquireLock(i)
    <3>1. Move("verify")
      BY <2>15, <2>n DEF AcquireLock, Goto, RpmPCs, Move
    <3> QED
      BY <2>0, <3>1
  <2>16. CASE VerifySignature(i)
    <3>1. format = "rpm" /\ pc[i] = "verify" /\ (Stays("pretrans") \/ Fail(i))
      BY <2>16 DEF VerifySignature, Goto
    <3> QED
      BY <2>f, <2>k, <3>1 DEF RpmPCs, Ended, Critical
  <2>17. CASE OpenWriter(i) \/ InitRpmdbSchema(i) \/ WriterInstall(i) \/ NoSystemRpmdb(i)
    <3>1. /\ format = "rpm" /\ pc[i] \in {"rpmdb", "rpmdbSchema", "rpmdbInsert"}
          /\ Stays("rpmdbSchema") \/ Stays("rpmdbInsert") \/ Stays("posttrans") \/ Fail(i)
      BY <2>17 DEF OpenWriter, InitRpmdbSchema, WriterInstall, NoSystemRpmdb, Goto
    <3> QED
      BY <2>f, <2>k, <3>1 DEF RpmPCs, Ended, Critical, Placed
  <2>18. CASE Posttrans(i)
    <3>1. format = "rpm" /\ pc[i] = "posttrans" /\ lock = i
      BY <2>18, <2>w DEF Posttrans, Critical, Placed
    <3>2. CASE Goto(i, "install") /\ lock' = NoProcess
      <4>1. Move("install")
        BY <3>1, <3>2 DEF Goto, RpmPCs, Critical, Placing, Placed, Move
      <4> QED
        BY <2>0, <4>1
    <3> QED
      BY <2>18, <2>f, <3>2 DEF Posttrans
  <2>19. CASE ReadPkgInfo(i)
    <3>1. /\ format = "apk" /\ pc[i] = "install"
          /\ Stays("done") \/ Stays("extract") \/ Fail(i)
      BY <2>19 DEF ReadPkgInfo, Goto
    <3> QED
      BY <2>f, <2>k, <3>1 DEF ApkPCs, Ended
  <2>20. CASE ReadInstalledStanzas(i) \/ WriteInstalledStanzas(i)
    <3>1. /\ format = "apk" /\ pc[i] \in {"stanzas", "writeStanzas"}
          /\ Stays("writeStanzas") \/ Stays("install")
      BY <2>20 DEF ReadInstalledStanzas, WriteInstalledStanzas, Goto
    <3> QED
      BY <2>k, <3>1 DEF ApkPCs, Ended
  <2>21. CASE Crash(i)
    <3>1. Move("idle")
      BY <2>21 DEF Crash, Goto, DebPCs, RpmPCs, ApkPCs, Ended, Critical, Placing, Placed, Move
    <3> QED
      BY <2>0, <3>1
  <2>22. ASSUME NEW names, Install(i, names) PROVE LockInv'
    <3>1. /\ \E l \in {"done", "failed", "lock", "load"} :
                /\ pc' = [pc EXCEPT ![i] = l] /\ (format = "deb" => l # "load")
                /\ format # "deb" => l # "lock"
          /\ UNCHANGED lock /\ (format = "apk" => \A j \in Process : pc[j] \in Ended)
      BY <2>22 DEF Install, Goto
    <3>2. \E l : Move(l)
      BY <3>1 DEF DebPCs, RpmPCs, ApkPCs, Ended, Critical, Placing, Placed, Move
    <3> QED
      BY <2>0, <3>2
  <2> QED
    BY <2>1, <2>2, <2>3, <2>4, <2>5, <2>6, <2>7, <2>8, <2>9, <2>10, <2>11, <2>12, <2>13, <2>14,
       <2>15, <2>16, <2>17, <2>18, <2>19, <2>20, <2>21, <2>22
    DEF Act, Step, AptStep, DnfStep, ApkStep
<1> QED
  BY <1>a, <1>b, StepCases

--------------------------------------------------------------------------------
(* How a call goes on.                                                          *)

Ends(i) == pc'[i] \in Ended /\ cache'[i] \in {cache[i], NoCache, Loaded(i)}

Starts(i) ==
    /\ pc'[i] \in {"lock", "load"} /\ plan'[i] \in Request
    /\ UNCHANGED cache

Resolves(i) ==
    /\ pc[i] = "load" /\ pc'[i] = "fetch"
    /\ cache'[i] = Loaded(i) /\ k'[i] = 1

\* It has been fetched, takes up a package, works on it, or is through with it.
Continues(i) ==
    /\ pc[i] \in Planned /\ pc'[i] \in Planned
    /\ UNCHANGED <<plan, cache>>
    /\ \/ pc[i] = "fetch" /\ pc'[i] = "install" /\ UNCHANGED k
       \/ pc[i] = "install" /\ pc'[i] \in {"preinst", "verify", "extract"} /\ UNCHANGED k
            /\ k[i] \in DOMAIN plan[i]
       \/ pc[i] \in Critical /\ pc'[i] \in Critical /\ UNCHANGED k
       \/ pc[i] \in {"writeStatus", "posttrans", "writeStanzas"} /\ pc'[i] = "install"
            /\ k'[i] = k[i] + 1

\* Every step of a call is one of these.
LEMMA FlowStep ==
    ASSUME TypeInv, CallInv, NEW i \in Process, Act(i)
    PROVE  Ends(i) \/ Starts(i) \/ Resolves(i) \/ Continues(i)
<1> USE DEF hostVars, diskVars, dbVars, nativeVars, callVars
<1>0. /\ DOMAIN pc = Process /\ DOMAIN plan = Process /\ DOMAIN k = Process
      /\ DOMAIN cache = Process /\ plan[i] \in Seq(Package) /\ k[i] \in Nat \ {0}
  BY DEF TypeInv, TypeOK
<1>a. k[i] <= Len(plan[i]) => k[i] \in DOMAIN plan[i]
  BY <1>0
<1>f. ASSUME Fail(i), UNCHANGED cache \/ cache' = [cache EXCEPT ![i] = Loaded(i)]
      PROVE  Ends(i)
  BY <1>0, <1>f DEF Fail, Goto, Ends, Ended
<1>k. ASSUME NEW l \in Critical, Goto(i, l), pc[i] \in Critical, UNCHANGED <<plan, cache, k>>
      PROVE  Continues(i)
  BY <1>0, <1>k DEF Goto, Continues, Planned
<1>1. CASE Fetch(i)
  <2>1. CASE Goto(i, "install")
    BY <1>0, <1>1, <2>1 DEF Fetch, Goto, Continues, Planned
  <2> QED
    BY <1>1, <1>f, <2>1 DEF Fetch
<1>2. CASE ExtractFails(i) \/ LockTimesOut(i)
  BY <1>2, <1>f DEF ExtractFails, LockTimesOut
<1>3. CASE OpenYapdb(i) \/ InitSchema(i)
  <2>1. /\ pc[i] \in {"open", "schema"} /\ UNCHANGED <<plan, cache, k>>
        /\ Goto(i, "insert") \/ Goto(i, "schema") \/ Fail(i) \/ (pc[i] = "schema" /\ UNCHANGED pc)
    BY <1>3 DEF OpenYapdb, InitSchema
  <2>2. {"open", "schema", "insert"} \subseteq Critical
    BY DEF Critical, Placed
  <2>3. CASE pc[i] = "schema" /\ UNCHANGED pc
    BY <2>1, <2>2, <2>3 DEF Continues, Planned
  <2> QED
    BY <1>f, <1>k, <2>1, <2>2, <2>3
<1>4. CASE RecordInstalled(i, IF format = "deb" THEN "writeStatus" ELSE "rpmdb")
  <2>1. {"insert", "writeStatus", "rpmdb"} \subseteq Critical
    BY DEF Critical, Placed
  <2>2. /\ pc[i] = "insert" /\ UNCHANGED <<plan, cache, k>>
        /\ Goto(i, IF format = "deb" THEN "writeStatus" ELSE "rpmdb")
    BY <1>4 DEF RecordInstalled
  <2> QED
    BY <1>k, <2>1, <2>2
<1>5. CASE AcquireDpkgLock(i)
  BY <1>0, <1>5 DEF AcquireDpkgLock, CallInv, Goto, Starts
<1>6. CASE ResolveAndPrepare(i) \/ DnfResolve(i) \/ ApkResolve(i)
  <2>1. ASSUME NEW s, Prepared(i, s), pc[i] = "load", cache' = [cache EXCEPT ![i] = Loaded(i)]
        PROVE  Ends(i) \/ Resolves(i)
    BY <1>0, <2>1 DEF Prepared, Goto, Ends, Resolves, Ended
  <2> QED
    BY <1>6, <1>f, <2>1 DEF ResolveAndPrepare, DnfResolve, ApkResolve
<1>7. CASE AptNext(i)
  <2>1. pc[i] = "install" /\ UNCHANGED <<plan, cache, k>>
    BY <1>7 DEF AptNext
  <2>2. CASE Goto(i, "done")
    BY <1>0, <2>1, <2>2 DEF Goto, Ends, Ended
  <2>3. CASE k[i] <= Len(plan[i]) /\ Goto(i, "preinst")
    BY <1>0, <1>a, <2>1, <2>3 DEF Goto, Continues, Planned, Critical
  <2> QED
    BY <1>0, <1>7, <1>f, <2>1, <2>2, <2>3 DEF AptNext
<1>8. CASE Preinst(i) \/ Pretrans(i) \/ Prein(i) \/ Postin(i)
  <2>1. {"preinst", "pretrans", "prein", "postin", "extract", "open"} \subseteq Critical
    BY DEF Critical, Placing, Placed
  <2>2. /\ pc[i] \in {"preinst", "pretrans", "prein", "postin"} /\ UNCHANGED <<plan, cache, k>>
        /\ Goto(i, "extract") \/ Goto(i, "prein") \/ Goto(i, "open") \/ Fail(i)
    BY <1>8 DEF Preinst, Pretrans, Prein, Postin, RunScript
  <2> QED
    BY <1>f, <1>k, <2>1, <2>2
<1>9. CASE OpenForWriting(i) \/ WriteFile(i)
  <2>1. /\ pc[i] \in {"extract", "write"} /\ UNCHANGED <<plan, cache, k>>
        /\ Goto(i, "write") \/ Goto(i, "extract")
    BY <1>9 DEF OpenForWriting, WriteFile
  <2> QED
    BY <1>k, <2>1 DEF Critical, Placing
<1>10. CASE ExtractDataTar(i) \/ ExtractRPM(i) \/ ExtractAPKData(i)
  <2>1. ASSUME NEW disk, NEW after \in {"status", "postin", "stanzas"}, Extract(i, disk, after)
        PROVE  Continues(i)
    <3>1. /\ pc[i] = "extract" /\ UNCHANGED <<plan, cache, k>>
          /\ Goto(i, after) \/ UNCHANGED pc
      BY <2>1, ExtractCases DEF Goto
    <3>2. after \in Critical /\ "extract" \in Critical
      BY DEF Critical, Placing, Placed
    <3>3. CASE UNCHANGED pc
      BY <3>1, <3>2, <3>3 DEF Continues, Planned
    <3> QED
      BY <1>k, <3>1, <3>2, <3>3
  <2> QED
    BY <1>10, <2>1 DEF ExtractDataTar, ExtractRPM, ExtractAPKData
<1>11. CASE ReadDpkgStatus(i) \/ Postinst(i) \/ NoSystemRpmdb(i) \/ WriterInstall(i)
            \/ ReadInstalledStanzas(i)
  <2>1. /\ pc[i] \in {"status", "postinst", "rpmdb", "rpmdbInsert", "stanzas"}
        /\ Goto(i, "open") \/ Goto(i, "status") \/ Goto(i, "posttrans") \/ Goto(i, "writeStanzas")
        /\ UNCHANGED <<plan, cache, k>>
    BY <1>11 DEF ReadDpkgStatus, Postinst, NoSystemRpmdb, WriterInstall, ReadInstalledStanzas
  <2>2. {"status", "postinst", "rpmdb", "rpmdbInsert", "stanzas", "open", "posttrans",
         "writeStanzas"} \subseteq Critical
    BY DEF Critical, Placed
  <2> QED
    BY <1>k, <2>1, <2>2
<1>12. CASE WriteDpkgStatus(i) \/ Posttrans(i) \/ WriteInstalledStanzas(i)
  <2>1. /\ pc[i] \in {"writeStatus", "posttrans", "writeStanzas"} /\ UNCHANGED <<plan, cache>>
        /\ \/ pc[i] = "writeStatus" /\ Goto(i, "postinst") /\ UNCHANGED k
           \/ Goto(i, "install") /\ k' = [k EXCEPT ![i] = @ + 1]
           \/ Fail(i)
    BY <1>12 DEF WriteDpkgStatus, Posttrans, WriteInstalledStanzas
  <2>2. {"writeStatus", "posttrans", "writeStanzas", "postinst"} \subseteq Critical
    BY DEF Critical, Placed
  <2>3. CASE Goto(i, "install") /\ k' = [k EXCEPT ![i] = @ + 1]
    BY <1>0, <2>1, <2>2, <2>3 DEF Goto, Continues, Planned
  <2> QED
    BY <1>f, <1>k, <2>1, <2>2, <2>3
<1>13. CASE DnfDone(i)
  BY <1>0, <1>13 DEF DnfDone, Goto, Ends, Ended
<1>14. CASE AcquireLock(i)
  BY <1>0, <1>a, <1>14 DEF AcquireLock, Goto, Continues, Planned, Critical
<1>15. CASE VerifySignature(i)
  <2>1. pc[i] = "verify" /\ UNCHANGED <<plan, cache, k>> /\ (Goto(i, "pretrans") \/ Fail(i))
    BY <1>15 DEF VerifySignature
  <2> QED
    BY <1>f, <1>k, <2>1 DEF Critical
<1>16. CASE OpenWriter(i) \/ InitRpmdbSchema(i)
  <2>1. /\ pc[i] \in {"rpmdb", "rpmdbSchema"} /\ UNCHANGED <<plan, cache, k>>
        /\ Goto(i, "rpmdbSchema") \/ Goto(i, "rpmdbInsert") \/ Fail(i)
    BY <1>16 DEF OpenWriter, InitRpmdbSchema
  <2>2. {"rpmdb", "rpmdbSchema", "rpmdbInsert"} \subseteq Critical
    BY DEF Critical, Placed
  <2> QED
    BY <1>f, <1>k, <2>1, <2>2
<1>17. CASE ReadPkgInfo(i)
  <2>1. pc[i] = "install" /\ UNCHANGED <<plan, cache, k>>
    BY <1>17 DEF ReadPkgInfo
  <2>2. CASE Goto(i, "done")
    BY <1>0, <2>1, <2>2 DEF Goto, Ends, Ended
  <2>3. CASE k[i] <= Len(plan[i]) /\ Goto(i, "extract")
    BY <1>0, <1>a, <2>1, <2>3 DEF Goto, Continues, Planned, Critical, Placing
  <2> QED
    BY <1>0, <1>17, <1>f, <2>1, <2>2, <2>3 DEF ReadPkgInfo
<1>18. CASE Crash(i)
  BY <1>0, <1>18 DEF Crash, Goto, Ends, Ended
<1>19. ASSUME NEW names \in Request, Install(i, names) PROVE Ends(i) \/ Starts(i)
  BY <1>0, <1>19 DEF Install, Goto, Ends, Starts, Ended
<1> QED
  BY <1>1, <1>2, <1>3, <1>4, <1>5, <1>6, <1>7, <1>8, <1>9, <1>10, <1>11, <1>12, <1>13, <1>14,
     <1>15, <1>16, <1>17, <1>18, <1>19
  DEF Act, Step, AptStep, DnfStep, ApkStep

\* While a call works on a package no step of another touches what they share.
LEMMA Undisturbed ==
    ASSUME TypeInv, LockInv, CallInv, NEW i \in Process, Act(i),
           NEW j \in Process \ {i}, pc[j] \in Critical
    PROVE  Quiet
<1>1. pc[i] \notin Critical
  BY Alone
<1>2. /\ Placing \subseteq Critical
      /\ {"schema", "insert", "writeStatus", "rpmdbInsert", "writeStanzas"} \subseteq Critical
  BY DEF Critical, Placed
<1>3. Effect(i)
  BY EffectStep
<1> QED
  BY <1>1, <1>2, <1>3 DEF Effect, Unpacks, CreatesTable, Records, Registers

\* The steps by which a call gets a plan and to where it works on a package.
Entering(i) ==
    /\ pc'[i] = "fetch" => ResolveAndPrepare(i) \/ DnfResolve(i) \/ ApkResolve(i)
    /\ pc'[i] = "write" => OpenForWriting(i)
    /\ pc'[i] = "extract" =>
          \/ Preinst(i) \/ Prein(i) \/ ReadPkgInfo(i) \/ WriteFile(i)
          \/ ExtractDataTar(i) \/ ExtractRPM(i) \/ ExtractAPKData(i)
    /\ pc'[i] = "status" => ExtractDataTar(i) \/ Postinst(i)
    /\ pc'[i] = "postin" => ExtractRPM(i)
    /\ pc'[i] = "stanzas" => ExtractAPKData(i)
    /\ pc'[i] = "open" => ReadDpkgStatus(i) \/ Postin(i)
    /\ pc'[i] \in {"schema", "insert"} => OpenYapdb(i) \/ InitSchema(i)
    /\ pc'[i] \in {"writeStatus", "rpmdb"} =>
          RecordInstalled(i, IF format = "deb" THEN "writeStatus" ELSE "rpmdb")
    /\ pc'[i] = "postinst" => WriteDpkgStatus(i)
    /\ pc'[i] \in {"rpmdbSchema", "rpmdbInsert", "posttrans"} =>
          pc[i] \in {"rpmdb", "rpmdbSchema", "rpmdbInsert"}
    /\ pc'[i] = "writeStanzas" => ReadInstalledStanzas(i)
    /\ pc[i] = "install" /\ pc'[i] = "done" => k[i] > Len(plan[i])

\* A step that enters a later part of a call leaves there what CallInv says.
LEMMA EnteringStep ==
    ASSUME TypeInv, CallInv, NEW i \in Process, Act(i)
    PROVE  Entering(i)
<1> USE DEF hostVars, diskVars, dbVars, nativeVars, callVars
<1>0. DOMAIN pc = Process
  BY DEF TypeInv, TypeOK
<1>f. Fail(i) => pc'[i] = "failed"
  BY <1>0 DEF Fail, Goto
<1>1. CASE Fetch(i) \/ ExtractFails(i) \/ LockTimesOut(i)
  <2>1. pc'[i] \in {"failed", "install"}
    BY <1>0, <1>1, <1>f DEF Fetch, ExtractFails, LockTimesOut, Goto
  <2> QED
    BY <2>1 DEF Entering
<1>2. CASE OpenYapdb(i) \/ InitSchema(i)
  <2>1. pc'[i] \in {"failed", "schema", "insert"}
    BY <1>0, <1>2, <1>f DEF OpenYapdb, InitSchema, Goto
  <2> QED
    BY <1>2, <2>1 DEF Entering
<1>3. CASE RecordInstalled(i, IF format = "deb" THEN "writeStatus" ELSE "rpmdb")
  <2>1. pc'[i] \in {"writeStatus", "rpmdb"}
    BY <1>0, <1>3 DEF RecordInstalled, Goto
  <2> QED
    BY <1>3, <2>1 DEF Entering
<1>4. CASE AcquireDpkgLock(i) \/ AptNext(i)
  <2>1. pc'[i] \in {"load", "failed", "done", "preinst"}
    BY <1>0, <1>4, <1>f DEF AcquireDpkgLock, AptNext, Goto
  <2>2. pc[i] = "install" /\ pc'[i] = "done" => k[i] > Len(plan[i])
    BY <1>0, <1>4, <1>f DEF AcquireDpkgLock, AptNext, Goto
  <2> QED
    BY <2>1, <2>2 DEF Entering
<1>5. CASE ResolveAndPrepare(i) \/ DnfResolve(i) \/ ApkResolve(i)
  <2>1. pc'[i] \in {"failed", "done", "fetch"} /\ pc[i] = "load"
    BY <1>0, <1>5, <1>f DEF ResolveAndPrepare, DnfResolve, ApkResolve, Prepared, Goto
  <2> QED
    BY <1>5, <2>1 DEF Entering
<1>6. CASE Preinst(i) \/ Prein(i)
  <2>1. pc'[i] \in {"failed", "extract"}
    BY <1>0, <1>6, <1>f DEF Preinst, Prein, RunScript, Goto
  <2> QED
    BY <1>6, <2>1 DEF Entering
<1>7. CASE Pretrans(i) \/ VerifySignature(i)
  <2>1. pc'[i] \in {"failed", "prein", "pretrans"}
    BY <1>0, <1>7, <1>f DEF Pretrans, VerifySignature, RunScript, Goto
  <2> QED
    BY <2>1 DEF Entering
<1>8. CASE Postin(i)
  <2>1. pc'[i] \in {"failed", "open"}
    BY <1>0, <1>8, <1>f DEF Postin, RunScript, Goto
  <2> QED
    BY <1>8, <2>1 DEF Entering
<1>9. CASE OpenForWriting(i)
  <2>1. pc'[i] = "write"
    BY <1>0, <1>9 DEF OpenForWriting, Goto
  <2> QED
    BY <1>9, <2>1 DEF Entering
<1>10. CASE WriteFile(i)
  <2>1. pc'[i] = "extract"
    BY <1>0, <1>10 DEF WriteFile, Goto
  <2> QED
    BY <1>10, <2>1 DEF Entering
<1>11. ASSUME NEW disk, NEW after, Extract(i, disk, after)
       PROVE  pc'[i] \in {"extract", after}
  BY <1>0, <1>11, ExtractCases
<1>12. CASE ExtractDataTar(i)
  <2>1. pc'[i] \in {"extract", "status"}
    BY <1>11, <1>12 DEF ExtractDataTar
  <2> QED
    BY <1>12, <2>1 DEF Entering
<1>13. CASE ExtractRPM(i)
  <2>1. pc'[i] \in {"extract", "postin"}
    BY <1>11, <1>13 DEF ExtractRPM
  <2> QED
    BY <1>13, <2>1 DEF Entering
<1>14. CASE ExtractAPKData(i)
  <2>1. pc'[i] \in {"extract", "stanzas"}
    BY <1>11, <1>14 DEF ExtractAPKData
  <2> QED
    BY <1>14, <2>1 DEF Entering
<1>15. CASE ReadDpkgStatus(i)
  <2>1. pc'[i] = "open"
    BY <1>0, <1>15 DEF ReadDpkgStatus, Goto
  <2> QED
    BY <1>15, <2>1 DEF Entering
<1>16. CASE WriteDpkgStatus(i)
  <2>1. pc'[i] \in {"postinst", "install"}
    BY <1>0, <1>16 DEF WriteDpkgStatus, Goto
  <2> QED
    BY <1>16, <2>1 DEF Entering
<1>17. CASE Postinst(i)
  <2>1. pc'[i] = "status"
    BY <1>0, <1>17 DEF Postinst, Goto
  <2> QED
    BY <1>17, <2>1 DEF Entering
<1>18. CASE DnfDone(i) \/ AcquireLock(i) \/ Posttrans(i) \/ WriteInstalledStanzas(i)
  <2>1. pc'[i] \in {"done", "verify", "install", "failed"}
    BY <1>0, <1>18, <1>f DEF DnfDone, AcquireLock, Posttrans, WriteInstalledStanzas, Goto
  <2>2. pc[i] = "install" /\ pc'[i] = "done" => k[i] > Len(plan[i])
    BY <1>0, <1>18, <1>f DEF DnfDone, AcquireLock, Posttrans, WriteInstalledStanzas, Goto
  <2> QED
    BY <2>1, <2>2 DEF Entering
<1>19. CASE OpenWriter(i) \/ InitRpmdbSchema(i) \/ WriterInstall(i) \/ NoSystemRpmdb(i)
  <2>1. /\ pc[i] \in {"rpmdb", "rpmdbSchema", "rpmdbInsert"}
        /\ pc'[i] \in {"rpmdbSchema", "rpmdbInsert", "posttrans", "failed"}
    BY <1>0, <1>19, <1>f DEF OpenWriter, InitRpmdbSchema, WriterInstall, NoSystemRpmdb, Goto
  <2> QED
    BY <2>1 DEF Entering
<1>20. CASE ReadPkgInfo(i)
  <2>1. pc'[i] \in {"done", "extract", "failed"}
    BY <1>0, <1>20, <1>f DEF ReadPkgInfo, Goto
  <2>2. pc'[i] = "done" => k[i] > Len(plan[i])
    BY <1>0, <1>20, <1>f DEF ReadPkgInfo, Goto
  <2> QED
    BY <1>20, <2>1, <2>2 DEF Entering
<1>21. CASE ReadInstalledStanzas(i)
  <2>1. pc'[i] = "writeStanzas"
    BY <1>0, <1>21 DEF ReadInstalledStanzas, Goto
  <2> QED
    BY <1>21, <2>1 DEF Entering
<1>22. ASSUME NEW names, Crash(i) \/ Install(i, names) PROVE Entering(i)
  <2>1. pc'[i] \in {"idle", "done", "failed", "lock", "load"} /\ (pc'[i] = "idle" \/ pc[i] # "install")
    BY <1>0, <1>22 DEF Crash, Install, Goto, Ended
  <2> QED
    BY <2>1 DEF Entering
<1> QED
  BY <1>1, <1>2, <1>3, <1>4, <1>5, <1>6, <1>7, <1>8, <1>9, <1>10, <1>12, <1>13, <1>14,
     <1>15, <1>16, <1>17, <1>18, <1>19, <1>20, <1>21, <1>22
  DEF Act, Step, AptStep, DnfStep, ApkStep

\* Every step keeps what is known of the rest of the plan of a call.
LEMMA CallStep ==
    ASSUME TypeInv, LockInv, CallInv, [Next]_vars
    PROVE  CallInv'
<1> USE DEF hostVars, diskVars, dbVars, nativeVars, callVars
<1>a. CASE Still
  BY <1>a DEF Still, CallInv, P, Named
<1>b. ASSUME NEW i \in Process, Act(i) PROVE CallInv'
  <2> USE <1>b
  <2>o. Others(i) /\ UNCHANGED <<format, opts>>
    BY OthersKeep
  <2>f. Ends(i) \/ Starts(i) \/ Resolves(i) \/ Continues(i)
    BY FlowStep
  <2>e. Entering(i)
    BY EnteringStep
  <2>t. /\ DOMAIN at = Process /\ DOMAIN snap = Process /\ at[i] \in Nat \ {0} /\ DOMAIN pc = Process
    BY DEF TypeInv, TypeOK
  <2>d. /\ Ended \cap ({"lock", "load"} \cup Planned) = {} /\ {"lock", "load"} \cap Planned = {}
        /\ Critical \subseteq Planned /\ "fetch" \notin Critical /\ "install" \notin Critical
        /\ Placing \subseteq Critical
        /\ {"write", "schema", "open", "insert", "writeStatus", "writeStanzas"} \subseteq Critical
    BY DEF Ended, Planned, Critical, Placing, Placed
  <2>p. UNCHANGED <<plan, k>> => P(i)' = P(i)
    BY DEF P
  <2>q. \A j \in Process \ {i} : P(j)' = P(j)
    BY <2>o DEF Others, P
  <2>u. \A j \in Process \ {i} : pc[j] \in Critical => Quiet
    BY Undisturbed
  <2>1. ASSUME NEW j \in Process, pc'[j] \in {"lock", "load"} PROVE plan'[j] \in Request
    <3>1. CASE j # i
      BY <2>o, <2>1, <3>1 DEF Others, CallInv
    <3>2. CASE j = i
      BY <2>f, <2>d, <2>1, <3>2 DEF Ends, Starts, Resolves, Continues, Planned
    <3> QED
      BY <3>1, <3>2
  <2>2. ASSUME NEW j \in Process, pc'[j] \in Planned PROVE cache'[j].version # 0
    <3>1. CASE j # i
      BY <2>o, <2>2, <3>1 DEF Others, CallInv
    <3>2. CASE j = i
      BY <2>f, <2>d, <2>2, <3>2, LoadedType DEF Ends, Starts, Resolves, Continues, CallInv
    <3> QED
      BY <3>1, <3>2
  <2>3. ASSUME NEW j \in Process, pc'[j] \in Critical PROVE k'[j] \in DOMAIN plan'[j]
    <3>1. CASE j # i
      BY <2>o, <2>3, <3>1 DEF Others, CallInv
    <3>2. CASE j = i
      BY <2>f, <2>d, <2>3, <3>2 DEF Ends, Starts, Resolves, Continues, CallInv
    <3> QED
      BY <3>1, <3>2
  <2>4. ASSUME NEW j \in Process, pc'[j] \in Placing
        PROVE  at'[j] \in 1..(Len(Contents[P(j)']) + 1)
    <3>1. CASE j # i
      BY <2>o, <2>q, <2>4, <3>1 DEF Others, CallInv
    <3>2. CASE j = i
      <4>1. pc'[i] = "write" \/ pc'[i] = "extract"
        BY <2>4, <3>2 DEF Placing
      <4>2. P(i)' \in Package /\ Len(Contents[P(i)']) \in Nat
        <5>1. plan'[i] \in Seq(Package)
          BY TypeStep DEF TypeInv, TypeOK
        <5>2. P(i)' \in Package
          BY <2>d, <2>3, <2>4, <3>2, <5>1 DEF P
        <5> QED
          BY <5>2, PayloadFacts DEF PayloadType
      <4>3. CASE Preinst(i) \/ Prein(i) \/ ReadPkgInfo(i)
        <5>1. at'[i] = 1
          BY <2>t, <4>3 DEF Preinst, Prein, RunScript, ReadPkgInfo
        <5> QED
          BY <3>2, <4>2, <5>1
      <4>4. CASE OpenForWriting(i)
        <5>1. UNCHANGED <<at, plan, k>> /\ pc[i] \in Placing
          BY <4>4 DEF OpenForWriting, Placing
        <5> QED
          BY <2>p, <3>2, <5>1 DEF CallInv
      <4>5. CASE WriteFile(i)
        <5>1. UNCHANGED <<plan, k>> /\ at'[i] = at[i] + 1 /\ at[i] \in DOMAIN Contents[P(i)]
          BY <2>t, <4>5 DEF WriteFile, CallInv
        <5>2. P(i)' = P(i)
          BY <2>p, <5>1
        <5>3. at[i] \in 1..Len(Contents[P(i)])
          BY <4>2, <5>1, <5>2, PayloadFacts DEF PayloadType
        <5> QED
          BY <3>2, <4>2, <5>1, <5>2, <5>3
      <4>6. ASSUME NEW disk, NEW after \in {"status", "postin", "stanzas"}, Extract(i, disk, after)
            PROVE  at'[i] \in 1..(Len(Contents[P(i)']) + 1)
        <5>1. UNCHANGED <<plan, k>>
          BY <4>6, ExtractCases
        <5>2. P(i)' = P(i)
          BY <2>p, <5>1
        <5>3. \/ at[i] \in DOMAIN Contents[P(i)] /\ at'[i] = at[i] + 1
              \/ at[i] = Len(Contents[P(i)]) + 1 /\ UNCHANGED at
          BY <2>t, <4>6, ExtractCases
        <5>4. at[i] \in DOMAIN Contents[P(i)] => at[i] \in 1..Len(Contents[P(i)])
          BY <4>2, <5>2, PayloadFacts DEF PayloadType
        <5> QED
          BY <4>2, <5>2, <5>3, <5>4
      <4>7. CASE ExtractDataTar(i) \/ ExtractRPM(i) \/ ExtractAPKData(i)
        BY <3>2, <4>6, <4>7 DEF ExtractDataTar, ExtractRPM, ExtractAPKData
      <4> QED
        BY <2>e, <4>1, <4>3, <4>4, <4>5, <4>7 DEF Entering
    <3> QED
      BY <3>1, <3>2
  <2>5. ASSUME NEW j \in Process, pc'[j] = "write"
        PROVE  /\ at'[j] \in DOMAIN Contents[P(j)'] /\ P(j)' \in unrecorded'
               /\ IsData(Contents[P(j)'][at'[j]])
    <3>1. CASE j # i
      <4>1. pc[j] = "write" /\ at'[j] = at[j]
        BY <2>o, <2>5, <3>1 DEF Others
      <4>2. Quiet
        BY <2>u, <2>d, <3>1, <4>1
      <4> QED
        BY <2>q, <3>1, <4>1, <4>2 DEF CallInv, Quiet
    <3>2. CASE j = i
      <4>1. OpenForWriting(i)
        BY <2>e, <2>5, <3>2 DEF Entering
      <4>2. /\ pc[i] \in Placing /\ at[i] <= Len(Contents[P(i)]) /\ IsData(Contents[P(i)][at[i]])
            /\ UNCHANGED <<plan, k, at>> /\ unrecorded' = unrecorded \cup {P(i)}
        BY <4>1 DEF OpenForWriting, Placing
      <4>3. at[i] \in DOMAIN Contents[P(i)] /\ P(i)' = P(i)
        BY <2>p, <4>2, AtEntry
      <4> QED
        BY <3>2, <4>2, <4>3
    <3> QED
      BY <3>1, <3>2
  <2>6. ASSUME NEW j \in Process, pc'[j] = "schema" PROVE "meta" \notin yapdb'.tables
    <3>1. CASE j # i
      <4>1. pc[j] = "schema"
        BY <2>o, <2>6, <3>1 DEF Others
      <4>2. Quiet
        BY <2>u, <2>d, <3>1, <4>1
      <4> QED
        BY <4>1, <4>2 DEF CallInv, Quiet
    <3>2. CASE j = i
      <4>1. OpenYapdb(i) \/ InitSchema(i)
        BY <2>e, <2>6, <3>2 DEF Entering
      <4>2. CASE OpenYapdb(i)
        BY <2>t, <2>6, <3>2, <4>2 DEF OpenYapdb, Goto, Initialized, Fail
      <4>3. CASE InitSchema(i)
        BY <2>t, <2>6, <3>2, <4>3 DEF InitSchema, Goto, Initialized
      <4> QED
        BY <4>1, <4>2, <4>3
    <3> QED
      BY <3>1, <3>2
  <2>7. ASSUME NEW j \in Process, format' = "deb",
               pc'[j] \in {"open", "schema", "insert", "writeStatus"}
        PROVE  snap'[j] = native'
    <3>1. CASE j # i
      <4>1. pc[j] \in {"open", "schema", "insert", "writeStatus"} /\ snap'[j] = snap[j]
        BY <2>o, <2>7, <3>1 DEF Others
      <4>2. Quiet
        BY <2>u, <2>d, <3>1, <4>1
      <4> QED
        BY <2>o, <2>7, <4>1, <4>2 DEF CallInv, Quiet
    <3>2. CASE j = i
      <4>1. CASE ReadDpkgStatus(i)
        BY <2>t, <3>2, <4>1 DEF ReadDpkgStatus
      <4>2. CASE OpenYapdb(i) \/ InitSchema(i)
        <5>1. UNCHANGED <<snap, native>> /\ pc[i] \in {"open", "schema"}
          BY <4>2 DEF OpenYapdb, InitSchema
        <5> QED
          BY <2>o, <2>7, <3>2, <5>1 DEF CallInv
      <4>3. CASE RecordInstalled(i, IF format = "deb" THEN "writeStatus" ELSE "rpmdb")
        <5>1. UNCHANGED <<snap, native>> /\ pc[i] = "insert"
          BY <4>3 DEF RecordInstalled
        <5> QED
          BY <2>o, <2>7, <3>2, <5>1 DEF CallInv
      <4>4. ~Postin(i)
        BY <2>o, <2>7 DEF Postin
      <4> QED
        BY <2>e, <2>7, <3>2, <4>1, <4>2, <4>3, <4>4 DEF Entering
    <3> QED
      BY <3>1, <3>2
  <2>8. ASSUME NEW j \in Process, format' = "apk", pc'[j] = "writeStanzas"
        PROVE  snap'[j] = Named(native)'
    <3>1. CASE j # i
      <4>1. pc[j] = "writeStanzas" /\ snap'[j] = snap[j]
        BY <2>o, <2>8, <3>1 DEF Others
      <4>2. Quiet
        BY <2>u, <2>d, <3>1, <4>1
      <4> QED
        BY <2>o, <2>8, <4>1, <4>2 DEF CallInv, Quiet, Named
    <3>2. CASE j = i
      <4>1. ReadInstalledStanzas(i)
        BY <2>e, <2>8, <3>2 DEF Entering
      <4> QED
        BY <2>t, <3>2, <4>1 DEF ReadInstalledStanzas, Named
    <3> QED
      BY <3>1, <3>2
  <2> QED
    BY <2>1, <2>2, <2>3, <2>4, <2>5, <2>6, <2>7, <2>8 DEF CallInv
<1> QED
  BY <1>a, <1>b, StepCases

--------------------------------------------------------------------------------
(* The payload on disk. *)

\* What the assumptions say of the paths of an archive.
LEMMA PathFacts ==
    ASSUME TypeInv, NEW p \in Package
    PROVE  /\ DOMAIN Contents[p] = 1..Len(Contents[p]) /\ Len(Contents[p]) \in Nat
           /\ \A m, n \in DOMAIN Contents[p] :
                 Contents[p][m].type # "skip" /\ Contents[p][n].type # "skip" /\ m # n
                   => Contents[p][m].path # Contents[p][n].path
           /\ \A n \in DOMAIN Contents[p] : Contents[p][n].type = "hardlink" =>
                 \E m \in DOMAIN Contents[p] :
                    /\ Contents[p][m].type = "reg" /\ Contents[p][m].path = Contents[p][n].to
                    /\ format # "rpm" => m < n
<1>1. Contents[p] \in PayloadType
  BY PayloadFacts
<1>2. DOMAIN Contents[p] = 1..Len(Contents[p]) /\ Len(Contents[p]) \in Nat
  BY <1>1 DEF PayloadType
<1>3. format # "rpm" => ~(Formats \subseteq {"rpm"})
  BY DEF TypeInv, TypeOK
<1> QED
  BY <1>2, <1>3, PayloadAssumption

\* A step that changes the disk at no path but an entry's keeps those before it.
LEMMA BeforeKept ==
    ASSUME TypeInv, format # "rpm", UNCHANGED format,
           NEW p \in Package, NEW v, NEW n \in DOMAIN Contents[p], PlacedTo(p, v, n),
           \A f \in Path : Contents[p][n].type = "skip" \/ f # Contents[p][n].path => fs'[f] = fs[f]
    PROVE  \A m \in 1..(n - 1) :
              EntryPlaced(Contents[p][m], p, v) /\ EntryPlaced(Contents[p][m], p, v)'
<1> SUFFICES ASSUME NEW m \in 1..(n - 1)
             PROVE  EntryPlaced(Contents[p][m], p, v) /\ EntryPlaced(Contents[p][m], p, v)'
  OBVIOUS
<1>1. n \in 1..Len(Contents[p]) /\ Len(Contents[p]) \in Nat /\ m \in DOMAIN Contents[p]
  BY PathFacts
<1>2. Contents[p][m].type = "hardlink" => DataWritten(Contents[p], n, Contents[p][m].to)
  <2>1. ASSUME Contents[p][m].type = "hardlink"
        PROVE  \E x \in 1..(n - 1) : IsData(Contents[p][x]) /\ Contents[p][x].path = Contents[p][m].to
    <3>1. PICK x \in DOMAIN Contents[p] :
             Contents[p][x].type = "reg" /\ Contents[p][x].path = Contents[p][m].to /\ x < m
      BY <1>1, <2>1, PathFacts
    <3>2. x \in 1..(n - 1)
      BY <1>1, <3>1, PathFacts
    <3> QED
      BY <3>1, <3>2 DEF IsData
  <2> QED
    BY <2>1 DEF DataWritten
<1>3. EntryPlaced(Contents[p][m], p, v)
  BY <1>2 DEF PlacedTo
<1>4. Contents[p][m].type # "skip" => fs'[Contents[p][m].path] = fs[Contents[p][m].path]
  BY <1>1, PathFacts, PayloadFacts
<1>5. EntryPlaced(Contents[p][m], p, v)'
  <2>1. CASE format = "apk"
    BY <1>3, <1>4, <2>1 DEF EntryPlaced, EntryInPlace
  <2>2. CASE format # "apk"
    BY <1>3, <1>4, <2>2 DEF EntryPlaced, Holds
  <2> QED
    BY <2>1, <2>2
<1> QED
  BY <1>3, <1>5

\* The file a deb's or an apk's hardlink names has been placed.
LEMMA TargetPlaced ==
    ASSUME TypeInv, format # "rpm",
           NEW p \in Package, NEW v, NEW n \in DOMAIN Contents[p], Contents[p][n].type = "hardlink",
           \A m \in 1..(n - 1) : EntryPlaced(Contents[p][m], p, v)
    PROVE  /\ format = "deb" => fs[Contents[p][n].to] = File(p, v)
           /\ fs[Contents[p][n].to].kind \in {"file", "link"}
<1>1. PICK m \in DOMAIN Contents[p] :
         Contents[p][m].type = "reg" /\ Contents[p][m].path = Contents[p][n].to /\ m < n
  BY PathFacts
<1>2. m \in 1..(n - 1)
  BY <1>1, PathFacts
<1>3. EntryPlaced(Contents[p][m], p, v)
  BY <1>2
<1>4. CASE format = "apk"
  BY <1>1, <1>3, <1>4 DEF EntryPlaced, EntryInPlace
<1>5. CASE format # "apk"
  BY <1>1, <1>3, <1>5 DEF EntryPlaced, Holds, File
<1> QED
  BY <1>4, <1>5

\* A deb's entry that is not written, or one that is.
LEMMA DebPlaces ==
    ASSUME TypeInv, format = "deb", UNCHANGED format,
           NEW p \in Package, NEW v \in Version, NEW n \in DOMAIN Contents[p], PlacedTo(p, v, n),
           \/ /\ IsData(Contents[p][n]) => KeptByDpkg(fs, Contents[p][n])
              /\ fs' = DebLinks(fs, p, v, Contents[p][n])
           \/ IsData(Contents[p][n]) /\ fs' = [fs EXCEPT ![Contents[p][n].path] = File(p, v)]
    PROVE  PlacedTo(p, v, n + 1)'
<1> DEFINE e == Contents[p][n]
<1>1. DOMAIN fs = Path
  BY DEF TypeInv, TypeOK
<1>2. e.path \in Path /\ e.to \in Path /\ e.type \in EntryTypes
  BY PayloadFacts
<1>3. n \in Nat
  BY PathFacts
<1> HIDE DEF e
<1>4. \A f \in Path : e.type = "skip" \/ f # e.path => fs'[f] = fs[f]
  BY <1>1, <1>2 DEF DebLinks, IsData, e
<1>5. \A m \in 1..(n - 1) :
         EntryPlaced(Contents[p][m], p, v) /\ EntryPlaced(Contents[p][m], p, v)'
  BY <1>4, BeforeKept DEF e
<1>6. EntryPlaced(e, p, v)'
  <2>1. CASE e.type = "hardlink"
    <3>1. fs[e.to] = File(p, v)
      BY <1>5, <2>1, TargetPlaced DEF e
    <3>2. fs' = [fs EXCEPT ![e.path] = fs[e.to]]
      BY <2>1 DEF DebLinks, IsData, e
    <3> QED
      BY <1>1, <1>2, <2>1, <3>1, <3>2 DEF EntryPlaced, Holds
  <2>2. CASE e.type = "symlink"
    <3>1. fs' = [fs EXCEPT ![e.path] = Link(p, v)]
      BY <2>2 DEF DebLinks, IsData, e
    <3> QED
      BY <1>1, <1>2, <2>2, <3>1 DEF EntryPlaced, Holds
  <2>3. CASE IsData(e) /\ fs' = [fs EXCEPT ![e.path] = File(p, v)]
    <3>1. fs'[e.path] = File(p, v)
      BY <1>1, <1>2, <2>3
    <3>2. File(p, v) # Absent
      BY DEF File, Absent
    <3> QED
      BY <2>3, <3>1, <3>2 DEF EntryPlaced, Holds, IsData
  <2>4. CASE IsData(e) /\ KeptByDpkg(fs, e) /\ fs' = DebLinks(fs, p, v, e)
    BY <2>4 DEF EntryPlaced, Holds, IsData, KeptByDpkg, DebLinks
  <2>5. CASE e.type = "skip"
    BY <2>5 DEF EntryPlaced, Holds
  <2> QED
    BY <1>2, <2>1, <2>2, <2>3, <2>4, <2>5 DEF EntryTypes, IsData, e
<1>7. \A m \in 1..n : m \in 1..(n - 1) \/ m = n
  BY <1>3
<1> QED
  BY <1>3, <1>5, <1>6, <1>7 DEF PlacedTo, e

\* An apk's entry.
LEMMA ApkPlaces ==
    ASSUME TypeInv, DiskInv, format = "apk", UNCHANGED format,
           NEW p \in Package, NEW v \in Version, NEW n \in DOMAIN Contents[p], PlacedTo(p, v, n),
           fs' = ApkPlace(fs, p, v, Contents[p][n])
    PROVE  PlacedTo(p, v, n + 1)'
<1> DEFINE e == Contents[p][n]
<1>1. DOMAIN fs = Path
  BY DEF TypeInv, TypeOK
<1>2. e.path \in Path /\ e.to \in Path /\ e.type \in EntryTypes
  BY PayloadFacts
<1>3. n \in Nat
  BY PathFacts
<1> HIDE DEF e
<1>4. \A f \in Path : e.type = "skip" \/ f # e.path => fs'[f] = fs[f]
  BY <1>1, <1>2 DEF ApkPlace, IsData, e
<1>5. \A m \in 1..(n - 1) :
         EntryPlaced(Contents[p][m], p, v) /\ EntryPlaced(Contents[p][m], p, v)'
  BY <1>4, BeforeKept DEF e
<1>6. EntryPlaced(e, p, v)'
  <2>1. CASE e.type = "hardlink"
    <3>1. fs[e.to].kind \in {"file", "link"}
      BY <1>5, <2>1, TargetPlaced DEF e
    <3>2. fs' = [fs EXCEPT ![e.path] = fs[e.to]]
      BY <2>1 DEF ApkPlace, IsData, e
    <3>3. fs'[e.path] = fs[e.to]
      BY <1>1, <1>2, <3>2
    <3> QED
      BY <3>1, <3>3 DEF EntryPlaced, EntryInPlace
  <2>2. CASE e.type = "symlink"
    <3>1. fs'[e.path] = IF fs[e.path] = Absent THEN Link(p, v) ELSE fs[e.path]
      BY <1>1, <1>2, <2>2 DEF ApkPlace, IsData, e
    <3>2. fs[e.path] # Absent => fs[e.path].kind \in {"file", "link"}
      <4>1. fs[e.path] \in {Absent, Torn} \cup [kind : {"file", "link"}, of : Package, version : Version]
        BY <1>2 DEF TypeInv, TypeOK
      <4>2. fs[e.path] # Torn
        BY <1>2 DEF DiskInv
      <4> QED
        BY <4>1, <4>2
    <3>3. Link(p, v).kind = "link"
      BY DEF Link
    <3> QED
      BY <3>1, <3>2, <3>3 DEF EntryPlaced, EntryInPlace
  <2>3. CASE IsData(e)
    <3>1. fs'[e.path] = File(p, v)
      BY <1>1, <1>2, <2>3 DEF ApkPlace, IsData, e
    <3>2. File(p, v).kind = "file"
      BY DEF File
    <3> QED
      BY <3>1, <3>2 DEF EntryPlaced, EntryInPlace
  <2>4. CASE e.type = "skip"
    BY <2>4 DEF EntryPlaced, EntryInPlace
  <2> QED
    BY <1>2, <2>1, <2>2, <2>3, <2>4 DEF EntryTypes, IsData
<1>7. \A m \in 1..n : m \in 1..(n - 1) \/ m = n
  BY <1>3
<1> QED
  BY <1>3, <1>5, <1>6, <1>7 DEF PlacedTo, e

\* An rpm's entry: a file brings the hardlinks to it that came before.
LEMMA RpmPlaces ==
    ASSUME TypeInv, format = "rpm", UNCHANGED format,
           NEW p \in Package, NEW v \in Version, NEW n \in DOMAIN Contents[p], PlacedTo(p, v, n),
           fs' = RpmPlace(fs, p, v, Contents[p], n)
    PROVE  PlacedTo(p, v, n + 1)'
<1> DEFINE e == Contents[p][n]
           c(m) == Contents[p][m]
<1>1. DOMAIN fs = Path /\ n \in Nat
  BY PathFacts DEF TypeInv, TypeOK
<1>2. e.path \in Path /\ e.to \in Path /\ e.type \in EntryTypes
  BY PayloadFacts
<1>3. /\ \A m \in 1..(n - 1) : m \in DOMAIN Contents[p] /\ m # n
      /\ n \notin 1..(n - 1) /\ \A m \in 1..n : m \in 1..(n - 1) \/ m = n
  BY PathFacts
<1>4. \A m \in 1..(n - 1) : c(m).type # "skip" =>
         c(m).path \in Path /\ (e.type # "skip" => c(m).path # e.path)
  BY <1>3, PathFacts, PayloadFacts
<1>5. \A to : DataWritten(Contents[p], n + 1, to) <=>
                 DataWritten(Contents[p], n, to) \/ (IsData(e) /\ e.path = to)
  <2>1. /\ \A m \in 1..((n + 1) - 1) : m \in 1..(n - 1) \/ m = n
        /\ \A m \in 1..(n - 1) : m \in 1..((n + 1) - 1)
        /\ n \in 1..((n + 1) - 1)
    BY <1>1, PathFacts
  <2> QED
    BY <2>1 DEF DataWritten
<1> HIDE DEF e
<1>6. CASE IsData(e)
  <2>1. \A f \in Path : fs'[f] = IF f = e.path \/ f \in Placeholders(Contents[p], n)
                                 THEN File(p, v) ELSE fs[f]
    BY <1>1, <1>6 DEF RpmPlace, IsData, e
  <2>2. fs'[e.path] = File(p, v)
    BY <1>2, <2>1
  <2>3. ASSUME NEW m \in 1..(n - 1), c(m).type = "hardlink" => DataWritten(Contents[p], n + 1, c(m).to)
        PROVE  EntryPlaced(c(m), p, v)'
    <3>1. CASE c(m).type # "skip" /\ c(m).path \in Placeholders(Contents[p], n)
      <4>1. PICK x \in 1..(n - 1) : c(x).type = "hardlink" /\ c(x).path = c(m).path
        BY <3>1 DEF Placeholders
      <4>2. x = m
        BY <1>3, <3>1, <4>1, PathFacts
      <4>3. fs'[c(m).path] = File(p, v)
        BY <1>4, <2>1, <3>1
      <4> QED
        BY <4>1, <4>2, <4>3 DEF EntryPlaced, Holds
    <3>2. CASE c(m).type # "skip" /\ c(m).path \notin Placeholders(Contents[p], n)
      <4>1. c(m).type = "hardlink" => c(m).to # e.path
        BY <3>2 DEF Placeholders, e
      <4>2. EntryPlaced(c(m), p, v)
        BY <1>5, <2>3, <4>1 DEF PlacedTo
      <4>3. e.type # "skip"
        BY <1>6 DEF IsData
      <4>4. fs'[c(m).path] = fs[c(m).path]
        BY <1>4, <2>1, <3>2, <4>3
      <4> QED
        BY <4>2, <4>4 DEF EntryPlaced, Holds
    <3>3. CASE c(m).type = "skip"
      BY <3>3 DEF EntryPlaced, Holds
    <3> QED
      BY <3>1, <3>2, <3>3
  <2>4. EntryPlaced(e, p, v)'
    BY <1>6, <2>2 DEF EntryPlaced, Holds, IsData
  <2> QED
    BY <1>1, <1>3, <2>3, <2>4 DEF PlacedTo, e
<1>7. CASE ~IsData(e)
  <2>1. \A to : DataWritten(Contents[p], n + 1, to) <=> DataWritten(Contents[p], n, to)
    BY <1>5, <1>7
  <2>2. \A f \in Path : e.type = "skip" \/ f # e.path => fs'[f] = fs[f]
    BY <1>1, <1>2, <1>7 DEF RpmPlace, e
  <2>3. ASSUME NEW m \in 1..(n - 1), c(m).type = "hardlink" => DataWritten(Contents[p], n, c(m).to)
        PROVE  EntryPlaced(c(m), p, v) /\ EntryPlaced(c(m), p, v)'
    <3>1. EntryPlaced(c(m), p, v)
      BY <2>3 DEF PlacedTo
    <3>2. c(m).type # "skip" => fs'[c(m).path] = fs[c(m).path]
      BY <1>4, <2>2
    <3> QED
      BY <3>1, <3>2 DEF EntryPlaced, Holds
  <2>4. ASSUME e.type = "hardlink" => DataWritten(Contents[p], n, e.to)
        PROVE  EntryPlaced(e, p, v)'
    <3>1. CASE e.type = "hardlink"
      <4>1. PICK m \in 1..(n - 1) : IsData(c(m)) /\ c(m).path = e.to
        BY <2>4, <3>1 DEF DataWritten
      <4>2. EntryPlaced(c(m), p, v)
        BY <2>3, <4>1 DEF IsData
      <4>3. fs[e.to] = File(p, v)
        BY <4>1, <4>2 DEF EntryPlaced, Holds, IsData
      <4>4. fs' = [fs EXCEPT ![e.path] = fs[e.to]]
        BY <1>7, <2>4, <3>1 DEF RpmPlace, e
      <4> QED
        BY <1>1, <1>2, <3>1, <4>3, <4>4 DEF EntryPlaced, Holds
    <3>2. CASE e.type = "symlink"
      <4>1. fs' = [fs EXCEPT ![e.path] = Link(p, v)]
        BY <1>7, <3>2 DEF RpmPlace, e
      <4> QED
        BY <1>1, <1>2, <3>2, <4>1 DEF EntryPlaced, Holds
    <3>3. CASE e.type = "skip"
      BY <3>3 DEF EntryPlaced, Holds
    <3> QED
      BY <1>2, <1>7, <3>1, <3>2, <3>3 DEF EntryTypes, IsData
  <2> QED
    BY <1>1, <1>3, <2>1, <2>3, <2>4 DEF PlacedTo, e
<1> QED
  BY <1>6, <1>7

\* Once all entries have been at hand all are placed.
LEMMA AllPlaced ==
    ASSUME TypeInv, NEW p \in Package, NEW v, PlacedTo(p, v, Len(Contents[p]) + 1)
    PROVE  \A n \in DOMAIN Contents[p] : EntryPlaced(Contents[p][n], p, v)
<1> SUFFICES ASSUME NEW n \in DOMAIN Contents[p] PROVE EntryPlaced(Contents[p][n], p, v)
  OBVIOUS
<1>1. n \in 1..((Len(Contents[p]) + 1) - 1) /\ Len(Contents[p]) \in Nat
  BY PathFacts
<1>2. Contents[p][n].type = "hardlink" =>
         DataWritten(Contents[p], Len(Contents[p]) + 1, Contents[p][n].to)
  BY <1>1, PathFacts DEF DataWritten, IsData
<1> QED
  BY <1>1, <1>2 DEF PlacedTo

\* A call comes past the unpacking by Extract only.
LEMMA PlacedFrom ==
    ASSUME TypeInv, CallInv, NEW i \in Process, Act(i), pc'[i] \in Placed
    PROVE  pc[i] \in Placed \/ ExtractDataTar(i) \/ ExtractRPM(i) \/ ExtractAPKData(i)
<1>1. Entering(i)
  BY EnteringStep
<1>2. ReadDpkgStatus(i) \/ Postinst(i) \/ Postin(i) \/ OpenYapdb(i) \/ InitSchema(i)
        \/ WriteDpkgStatus(i) \/ ReadInstalledStanzas(i) => pc[i] \in Placed
  BY DEF ReadDpkgStatus, Postinst, Postin, RunScript, OpenYapdb, InitSchema, WriteDpkgStatus,
     ReadInstalledStanzas, Placed
<1>3. RecordInstalled(i, IF format = "deb" THEN "writeStatus" ELSE "rpmdb") => pc[i] \in Placed
  BY DEF RecordInstalled, Placed
<1>4. pc[i] \in {"rpmdb", "rpmdbSchema", "rpmdbInsert"} => pc[i] \in Placed
  BY DEF Placed
<1> QED
  BY <1>1, <1>2, <1>3, <1>4 DEF Entering, Placed

\* Every step keeps what is placed of the package at hand.
LEMMA PlacingStep ==
    ASSUME TypeInv, LockInv, CallInv, PlacingInv, DiskInv, [Next]_vars
    PROVE  PlacingInv'
<1>a. CASE Still
  <2>1. UNCHANGED <<fs, format, pc, plan, k, at, cache>>
    BY <1>a DEF Still
  <2>2. \A i \in Process : P(i)' = P(i)
    BY <2>1 DEF P
  <2>3. ASSUME NEW i \in Process, pc[i] \in Placing
        PROVE  PlacedTo(P(i), cache[i].version, at[i])'
    BY <2>1, <2>2, <2>3 DEF PlacingInv, PlacedTo, EntryPlaced, EntryInPlace, Holds
  <2>4. ASSUME NEW i \in Process, pc[i] \in Placed
        PROVE  \A n \in DOMAIN Contents[P(i)] :
                  EntryPlaced(Contents[P(i)][n], P(i), cache[i].version)'
    BY <2>1, <2>2, <2>4 DEF PlacingInv, EntryPlaced, EntryInPlace, Holds
  <2> QED
    BY <2>1, <2>2, <2>3, <2>4 DEF PlacingInv
<1>b. ASSUME NEW i \in Process, Act(i) PROVE PlacingInv'
  <2> USE <1>b
  <2>o. Others(i) /\ UNCHANGED <<format, opts>>
    BY OthersKeep
  <2>c. Placing \subseteq Critical /\ Placed \subseteq Critical
    BY DEF Critical
  <2>1. ASSUME NEW j \in Process \ {i}
        PROVE  /\ pc'[j] \in Placing => PlacedTo(P(j), cache[j].version, at[j])'
               /\ pc'[j] \in Placed =>
                     \A n \in DOMAIN Contents[P(j)'] :
                        EntryPlaced(Contents[P(j)][n], P(j), cache[j].version)'
    <3>1. pc'[j] = pc[j] /\ P(j)' = P(j) /\ cache'[j] = cache[j] /\ at'[j] = at[j]
      BY <2>o DEF Others, P
    <3>2. pc[j] \in Critical => Quiet
      BY Undisturbed
    <3>3. pc[j] \in Placing \cup Placed => UNCHANGED <<fs, format>>
      BY <2>c, <2>o, <3>2 DEF Quiet
    <3>4. pc[j] \in Placing => PlacedTo(P(j), cache[j].version, at[j])'
      BY <3>1, <3>3 DEF PlacingInv, PlacedTo, EntryPlaced, EntryInPlace, Holds
    <3>5. pc[j] \in Placed => \A n \in DOMAIN Contents[P(j)] :
                                 EntryPlaced(Contents[P(j)][n], P(j), cache[j].version)'
      BY <3>1, <3>3 DEF PlacingInv, EntryPlaced, EntryInPlace, Holds
    <3> QED
      BY <3>1, <3>4, <3>5
  <2>t. DOMAIN at = Process /\ at[i] \in Nat \ {0} /\ DOMAIN pc = Process
    BY DEF TypeInv, TypeOK
  <2>2. ASSUME UNCHANGED <<plan, k, cache>> PROVE P(i)' = P(i) /\ cache'[i] = cache[i]
    BY <2>2 DEF P
  <2>3. ASSUME pc[i] = "extract", NEW disk, NEW after \in Placed, Extract(i, disk, after),
               \A p \in Package, v \in Version : \A n \in DOMAIN Contents[p] :
                  p = P(i) /\ v = cache[i].version /\ n = at[i] /\ PlacedTo(p, v, n) /\ fs' = disk
                  => PlacedTo(p, v, n + 1)'
        PROVE  /\ pc'[i] \in Placing => PlacedTo(P(i), cache[i].version, at[i])'
               /\ pc'[i] \in Placed => \A n \in DOMAIN Contents[P(i)'] :
                     EntryPlaced(Contents[P(i)][n], P(i), cache[i].version)'
    <3>1. /\ pc[i] \in Placing /\ UNCHANGED <<plan, k, cache>>
          /\ \/ /\ at[i] \in DOMAIN Contents[P(i)] /\ at'[i] = at[i] + 1
                /\ fs' = disk /\ UNCHANGED pc
             \/ /\ at[i] = Len(Contents[P(i)]) + 1 /\ pc'[i] = after
                /\ UNCHANGED fs
      BY <2>t, <2>3, ExtractCases DEF callVars
    <3>2. P(i)' = P(i) /\ cache'[i] = cache[i] /\ PlacedTo(P(i), cache[i].version, at[i])
      BY <2>2, <3>1 DEF PlacingInv
    <3>3. P(i) \in Package /\ cache[i].version \in Version
      BY <3>1, AtEntry
    <3>4. Placing \cap Placed = {} /\ "extract" \notin Placed
      BY DEF Placing, Placed
    <3>5. CASE at[i] \in DOMAIN Contents[P(i)] /\ at'[i] = at[i] + 1 /\ fs' = disk /\ UNCHANGED pc
      <4>1. PICK p \in Package, v \in Version, n \in DOMAIN Contents[P(i)] :
               p = P(i) /\ v = cache[i].version /\ n = at[i]
        BY <3>3, <3>5
      <4>2. PlacedTo(p, v, n + 1)'
        BY <2>3, <3>2, <3>5, <4>1
      <4>3. P(i)' = p /\ cache'[i].version = v /\ at'[i] = n + 1
        BY <3>2, <3>5, <4>1
      <4>4. PlacedTo(P(i), cache[i].version, at[i])'
        BY <4>2, <4>3 DEF PlacedTo, EntryPlaced, EntryInPlace, Holds
      <4> QED
        BY <2>3, <3>4, <3>5, <4>4
    <3>6. CASE at[i] = Len(Contents[P(i)]) + 1 /\ pc'[i] = after /\ UNCHANGED fs
      <4>1. \A n \in DOMAIN Contents[P(i)] :
               EntryPlaced(Contents[P(i)][n], P(i), cache[i].version)
        BY <3>2, <3>3, <3>6, AllPlaced
      <4>2. \A n \in DOMAIN Contents[P(i)] :
               EntryPlaced(Contents[P(i)][n], P(i), cache[i].version)'
        BY <2>o, <3>2, <3>6, <4>1 DEF EntryPlaced, EntryInPlace, Holds
      <4> QED
        BY <3>2, <3>4, <3>6, <4>2
    <3> QED
      BY <3>1, <3>5, <3>6
  <2>4. CASE ExtractDataTar(i) \/ ExtractRPM(i) \/ ExtractAPKData(i)
    <3>1. {"status", "postin", "stanzas"} \subseteq Placed
      BY DEF Placed
    <3>2. CASE ExtractDataTar(i)
      <4>1. /\ format = "deb" /\ pc[i] = "extract"
            /\ Extract(i, DebLinks(fs, P(i), cache[i].version, Contents[P(i)][at[i]]), "status")
            /\ at[i] <= Len(Contents[P(i)]) =>
                 (IsData(Contents[P(i)][at[i]]) => KeptByDpkg(fs, Contents[P(i)][at[i]]))
        BY <3>2 DEF ExtractDataTar
      <4>2. \A p \in Package : \A n \in DOMAIN Contents[p] : n <= Len(Contents[p])
        BY PathFacts
      <4>3. \A p \in Package, v \in Version : \A n \in DOMAIN Contents[p] :
               p = P(i) /\ v = cache[i].version /\ n = at[i] /\ PlacedTo(p, v, n)
                 /\ fs' = DebLinks(fs, P(i), cache[i].version, Contents[P(i)][at[i]])
               => PlacedTo(p, v, n + 1)'
        BY <2>o, <4>1, <4>2, DebPlaces
      <4> QED
        BY <2>1, <2>3, <3>1, <4>1, <4>3 DEF PlacingInv
    <3>3. CASE ExtractRPM(i)
      <4>1. /\ format = "rpm" /\ pc[i] = "extract"
            /\ Extract(i, RpmPlace(fs, P(i), cache[i].version, Contents[P(i)], at[i]), "postin")
        BY <3>3, ExtractCases DEF ExtractRPM
      <4>2. \A p \in Package, v \in Version : \A n \in DOMAIN Contents[p] :
               p = P(i) /\ v = cache[i].version /\ n = at[i] /\ PlacedTo(p, v, n)
                 /\ fs' = RpmPlace(fs, P(i), cache[i].version, Contents[P(i)], at[i])
               => PlacedTo(p, v, n + 1)'
        BY <2>o, <4>1, RpmPlaces
      <4> QED
        BY <2>1, <2>3, <3>1, <4>1, <4>2 DEF PlacingInv
    <3>4. CASE ExtractAPKData(i)
      <4>1. /\ format = "apk" /\ pc[i] = "extract"
            /\ Extract(i, ApkPlace(fs, P(i), cache[i].version, Contents[P(i)][at[i]]), "stanzas")
        BY <3>4 DEF ExtractAPKData
      <4>2. \A p \in Package, v \in Version : \A n \in DOMAIN Contents[p] :
               p = P(i) /\ v = cache[i].version /\ n = at[i] /\ PlacedTo(p, v, n)
                 /\ fs' = ApkPlace(fs, P(i), cache[i].version, Contents[P(i)][at[i]])
               => PlacedTo(p, v, n + 1)'
        BY <2>o, <4>1, ApkPlaces
      <4> QED
        BY <2>1, <2>3, <3>1, <4>1, <4>2 DEF PlacingInv
    <3> QED
      BY <2>4, <3>2, <3>3, <3>4
  <2>5. CASE OpenForWriting(i) \/ WriteFile(i)
    <3>1. /\ format = "deb" /\ pc[i] \in Placing /\ UNCHANGED <<plan, k, cache>>
          /\ pc'[i] \in {"extract", "write"}
      BY <2>5, <2>t DEF OpenForWriting, WriteFile, Placing, Goto, callVars
    <3>2. P(i)' = P(i) /\ cache'[i] = cache[i] /\ PlacedTo(P(i), cache[i].version, at[i])
      BY <2>2, <3>1 DEF PlacingInv
    <3>3. /\ P(i) \in Package /\ cache[i].version \in Version
          /\ at[i] \in DOMAIN Contents[P(i)] /\ IsData(Contents[P(i)][at[i]])
      BY <2>5, <3>1, AtEntry DEF OpenForWriting, WriteFile, CallInv
    <3>4. PICK p \in Package, v \in Version, n \in DOMAIN Contents[P(i)] :
             p = P(i) /\ v = cache[i].version /\ n = at[i]
      BY <3>3
    <3>5. CASE OpenForWriting(i)
      <4>1. at'[i] = n /\ fs' = [fs EXCEPT ![Contents[p][n].path] = Torn]
        BY <3>4, <3>5 DEF OpenForWriting
      <4>2. \A f \in Path : Contents[p][n].type = "skip" \/ f # Contents[p][n].path => fs'[f] = fs[f]
        BY <3>3, <3>4, <4>1 DEF IsData, TypeInv, TypeOK
      <4>3. PlacedTo(p, v, n)
        BY <3>2, <3>4
      <4>4. \A m \in 1..(n - 1) : EntryPlaced(Contents[p][m], p, v)'
        BY <2>o, <3>1, <3>4, <4>2, <4>3, BeforeKept
      <4>5. PlacedTo(P(i), cache[i].version, at[i])'
        BY <3>2, <3>4, <4>1, <4>4 DEF PlacedTo, EntryPlaced, EntryInPlace, Holds
      <4> QED
        BY <2>1, <3>1, <4>5 DEF PlacingInv, Placed
    <3>6. CASE WriteFile(i)
      <4>1. at'[i] = n + 1 /\ fs' = [fs EXCEPT ![Contents[p][n].path] = File(p, v)]
        BY <2>t, <3>4, <3>6 DEF WriteFile
      <4>2. PlacedTo(p, v, n) /\ IsData(Contents[p][n])
        BY <3>2, <3>3, <3>4
      <4>3. PlacedTo(p, v, n + 1)'
        BY <2>o, <3>1, <3>4, <4>1, <4>2, DebPlaces
      <4>4. PlacedTo(P(i), cache[i].version, at[i])'
        BY <3>2, <3>4, <4>1, <4>3 DEF PlacedTo, EntryPlaced, EntryInPlace, Holds
      <4> QED
        BY <2>1, <3>1, <4>4 DEF PlacingInv, Placed
    <3> QED
      BY <2>5, <3>5, <3>6
  <2>6. CASE Preinst(i) \/ Prein(i) \/ ReadPkgInfo(i)
    <3>1. at'[i] = 1
      BY <2>6, <2>t DEF Preinst, Prein, RunScript, ReadPkgInfo
    <3>2. PlacedTo(P(i), cache[i].version, at[i])'
      BY <3>1 DEF PlacedTo
    <3>3. pc'[i] \notin Placed
      BY <2>6, <2>t DEF Preinst, Prein, RunScript, ReadPkgInfo, Goto, Fail, Placed
    <3> QED
      BY <2>1, <3>2, <3>3 DEF PlacingInv
  <2>7. CASE pc'[i] \in Placed /\ pc[i] \in Placed
    <3>1. Continues(i)
      BY <2>7, FlowStep DEF Ends, Starts, Resolves, Ended, Placed
    <3>2. UNCHANGED <<plan, k, cache>>
      BY <2>7, <2>c, <3>1 DEF Continues, Critical, Placing, Placed
    <3>3. P(i)' = P(i) /\ cache'[i] = cache[i]
      BY <2>2, <3>2
    <3>4. UNCHANGED fs
      BY <2>7, EffectStep DEF Effect, Quiet, Unpacks, CreatesTable, Records, Registers,
         Placing, Placed
    <3>5. \A n \in DOMAIN Contents[P(i)'] :
             EntryPlaced(Contents[P(i)][n], P(i), cache[i].version)'
      BY <2>7, <2>o, <3>3, <3>4 DEF PlacingInv, EntryPlaced, EntryInPlace, Holds
    <3>6. pc'[i] \notin Placing
      BY <2>7 DEF Placing, Placed
    <3> QED
      BY <2>1, <3>5, <3>6 DEF PlacingInv
  <2>8. CASE pc'[i] \notin Placing \cup Placed
    BY <2>1, <2>8 DEF PlacingInv
  <2>9. pc'[i] \in Placing => \/ OpenForWriting(i) \/ WriteFile(i)
                              \/ Preinst(i) \/ Prein(i) \/ ReadPkgInfo(i)
                              \/ ExtractDataTar(i) \/ ExtractRPM(i) \/ ExtractAPKData(i)
    BY EnteringStep DEF Entering, Placing
  <2> QED
    BY <2>4, <2>5, <2>6, <2>7, <2>8, <2>9, PlacedFrom
<1> QED
  BY <1>a, <1>b, StepCases

\* Only these steps touch the files.
LEMMA DiskChanges ==
    ASSUME NEW i \in Process, Act(i), ~UNCHANGED fs
    PROVE  OpenForWriting(i) \/ WriteFile(i) \/ ExtractDataTar(i) \/ ExtractRPM(i) \/ ExtractAPKData(i)
<1> USE DEF hostVars, diskVars, dbVars, nativeVars, callVars
<1>1. Fetch(i) \/ ExtractFails(i) \/ OpenYapdb(i) \/ InitSchema(i) => UNCHANGED fs
  BY DEF Fetch, ExtractFails, OpenYapdb, InitSchema
<1>2. \A next : RecordInstalled(i, next) => UNCHANGED fs
  BY DEF RecordInstalled
<1>3. AcquireDpkgLock(i) \/ ResolveAndPrepare(i) \/ AptNext(i) \/ Preinst(i) => UNCHANGED fs
  BY DEF AcquireDpkgLock, ResolveAndPrepare, AptNext, Preinst, RunScript
<1>4. ReadDpkgStatus(i) \/ WriteDpkgStatus(i) \/ Postinst(i) => UNCHANGED fs
  BY DEF ReadDpkgStatus, WriteDpkgStatus, Postinst
<1>5. DnfResolve(i) \/ DnfDone(i) \/ AcquireLock(i) \/ LockTimesOut(i) \/ VerifySignature(i)
        => UNCHANGED fs
  BY DEF DnfResolve, DnfDone, AcquireLock, LockTimesOut, VerifySignature
<1>6. Pretrans(i) \/ Prein(i) \/ Postin(i) \/ OpenWriter(i) \/ InitRpmdbSchema(i) => UNCHANGED fs
  BY DEF Pretrans, Prein, Postin, RunScript, OpenWriter, InitRpmdbSchema
<1>7. WriterInstall(i) \/ NoSystemRpmdb(i) \/ Posttrans(i) => UNCHANGED fs
  BY DEF WriterInstall, NoSystemRpmdb, Posttrans
<1>8. ApkResolve(i) \/ ReadPkgInfo(i) \/ ReadInstalledStanzas(i) \/ WriteInstalledStanzas(i)
        => UNCHANGED fs
  BY DEF ApkResolve, ReadPkgInfo, ReadInstalledStanzas, WriteInstalledStanzas
<1>9. Crash(i) => UNCHANGED fs
  BY DEF Crash
<1>10. \A names : Install(i, names) => UNCHANGED fs
  BY DEF Install
<1> QED
  BY <1>1, <1>2, <1>3, <1>4, <1>5, <1>6, <1>7, <1>8, <1>9, <1>10
  DEF Act, Step, AptStep, DnfStep, ApkStep

\* rpm and apk rename finished files into place.
LEMMA NothingTorn ==
    ASSUME TypeInv, CallInv, DiskInv, NEW i \in Process, Act(i), format # "deb"
    PROVE  \A f \in Path : fs'[f] # Torn
<1>1. \A f \in Path : fs[f] # Torn
  BY DEF DiskInv
<1>2. CASE UNCHANGED fs
  BY <1>1, <1>2
<1>3. CASE ~UNCHANGED fs
  <2>1. ExtractRPM(i) \/ ExtractAPKData(i)
    BY <1>3, DiskChanges DEF OpenForWriting, WriteFile, ExtractDataTar
  <2>2. \E disk \in {RpmPlace(fs, P(i), cache[i].version, Contents[P(i)], at[i]),
                     ApkPlace(fs, P(i), cache[i].version, Contents[P(i)][at[i]])} :
           \E after : Extract(i, disk, after)
    BY <2>1 DEF ExtractRPM, ExtractAPKData
  <2>3. /\ pc[i] \in Placing /\ at[i] \in DOMAIN Contents[P(i)]
        /\ \/ fs' = RpmPlace(fs, P(i), cache[i].version, Contents[P(i)], at[i])
           \/ fs' = ApkPlace(fs, P(i), cache[i].version, Contents[P(i)][at[i]])
    BY <1>3, <2>2, ExtractCases
  <2>4. PICK p \in Package, v \in Version, n \in DOMAIN Contents[P(i)] :
           p = P(i) /\ v = cache[i].version /\ n = at[i]
    BY <2>3, AtEntry
  <2> DEFINE e == Contents[p][n]
  <2>5. e.path \in Path /\ e.to \in Path /\ DOMAIN fs = Path
    BY <2>4, PayloadFacts DEF TypeInv, TypeOK
  <2>6. File(p, v) # Torn /\ Link(p, v) # Torn
    BY DEF File, Link, Torn
  <2>7. fs' = RpmPlace(fs, p, v, Contents[p], n) \/ fs' = ApkPlace(fs, p, v, e)
    BY <2>3, <2>4
  <2> HIDE DEF e
  <2>8. CASE fs' = ApkPlace(fs, p, v, e)
    BY <1>1, <2>5, <2>6, <2>8 DEF ApkPlace, IsData
  <2>9. CASE fs' = RpmPlace(fs, p, v, Contents[p], n)
    <3>1. CASE IsData(e)
      <4>1. fs' = [f \in Path |-> IF f = e.path \/ f \in Placeholders(Contents[p], n)
                                  THEN File(p, v) ELSE fs[f]]
        BY <2>5, <2>9, <3>1 DEF RpmPlace, IsData, e
      <4> QED
        BY <1>1, <2>6, <4>1
    <3>2. CASE ~IsData(e)
      <4>1. \/ fs' = [fs EXCEPT ![e.path] = Link(p, v)]
            \/ fs' = [fs EXCEPT ![e.path] = fs[e.to]]
            \/ fs' = fs
        BY <2>9, <3>2 DEF RpmPlace, IsData, e
      <4> QED
        BY <1>1, <2>5, <2>6, <4>1
    <3> QED
      BY <3>1, <3>2
  <2> QED
    BY <2>7, <2>8, <2>9
<1> QED
  BY <1>2, <1>3

\* Every step keeps the disk and the record of it together.
LEMMA DiskStep ==
    ASSUME TypeInv, LockInv, CallInv, PlacingInv, DiskInv, [Next]_vars
    PROVE  DiskInv'
<1>a. CASE Still
  <2>1. UNCHANGED <<fs, format, pc, plan, k, at, recorded, unrecorded>>
    BY <1>a DEF Still
  <2>2. \A i \in Process : P(i)' = P(i)
    BY <2>1 DEF P
  <2> QED
    BY <2>1, <2>2 DEF DiskInv, RecordMatchesDisk, Holds
<1>b. ASSUME NEW i \in Process, Act(i) PROVE DiskInv'
  <2> USE <1>b
  <2>o. Others(i) /\ UNCHANGED <<format, opts>>
    BY OthersKeep
  <2>e. Effect(i)
    BY EffectStep
  <2>1. format' # "deb" => \A f \in Path : fs'[f] # Torn
    BY <2>o, NothingTorn
  <2>2. format' = "apk" => \A p \in Package : recorded'[p] = 0
    <3>1. format = "apk" => pc[i] # "insert"
      BY DEF LockInv, ApkPCs, Ended
    <3>2. format = "apk" => recorded' = recorded
      BY <2>e, <3>1 DEF Effect, Quiet, Unpacks, CreatesTable, Records, Registers
    <3> QED
      BY <2>o, <3>2 DEF DiskInv
  <2>3. ASSUME NEW j \in Process, pc'[j] \in Placing, at'[j] > 1 PROVE P(j)' \in unrecorded'
    <3>1. CASE j # i
      <4>1. pc'[j] = pc[j] /\ P(j)' = P(j) /\ at'[j] = at[j]
        BY <2>o, <3>1 DEF Others, P
      <4>2. Quiet
        BY <2>3, <3>1, <4>1, Undisturbed DEF Critical
      <4> QED
        BY <2>3, <4>1, <4>2 DEF DiskInv, Quiet
    <3>2. CASE j = i
      <4>t. DOMAIN at = Process /\ DOMAIN pc = Process
        BY DEF TypeInv, TypeOK
      <4>1. CASE Preinst(i) \/ Prein(i) \/ ReadPkgInfo(i)
        <5>1. at'[i] = 1
          BY <4>1, <4>t DEF Preinst, Prein, RunScript, ReadPkgInfo
        <5> QED
          BY <2>3, <3>2, <5>1
      <4>2. CASE OpenForWriting(i) \/ WriteFile(i)
        <5>1. UNCHANGED <<plan, k>> /\ P(i) \in unrecorded'
          BY <4>2 DEF OpenForWriting, WriteFile, CallInv, callVars
        <5> QED
          BY <3>2, <5>1 DEF P
      <4>3. ASSUME NEW disk, NEW after \in Placed, Extract(i, disk, after) PROVE P(i)' \in unrecorded'
        <5>1. "extract" \notin Placed /\ Placed \cap Placing = {}
          BY DEF Placing, Placed
        <5>2. UNCHANGED <<plan, k>> /\ P(i) \in unrecorded'
          BY <2>3, <3>2, <4>3, <4>t, <5>1, ExtractCases DEF callVars
        <5> QED
          BY <5>2 DEF P
      <4>4. CASE ExtractDataTar(i) \/ ExtractRPM(i) \/ ExtractAPKData(i)
        BY <3>2, <4>3, <4>4 DEF ExtractDataTar, ExtractRPM, ExtractAPKData, Placed
      <4>5. \/ OpenForWriting(i) \/ WriteFile(i) \/ Preinst(i) \/ Prein(i) \/ ReadPkgInfo(i)
            \/ ExtractDataTar(i) \/ ExtractRPM(i) \/ ExtractAPKData(i)
        BY <2>3, <3>2, EnteringStep DEF Entering, Placing
      <4> QED
        BY <4>1, <4>2, <4>4, <4>5
    <3> QED
      BY <3>1, <3>2
  <2>4. ASSUME NEW p \in Package, recorded'[p] # 0, p \notin unrecorded', NEW n \in DOMAIN Contents[p]
        PROVE  Holds(Contents[p][n], p, recorded[p])'
    <3>t. /\ recorded \in [Package -> Version]
          /\ pc[i] \in Critical => P(i) \in Package
      BY AtHand DEF TypeInv, TypeOK
    <3>1. CASE Records(i) /\ p = P(i)
      <4>1. pc[i] \in Placed /\ pc[i] = "insert"
        BY <3>1 DEF Records, Placed
      <4>2. EntryPlaced(Contents[p][n], p, cache[i].version)
        BY <3>1, <4>1 DEF PlacingInv
      <4>3. format # "apk"
        BY <4>1 DEF LockInv, ApkPCs, Ended
      <4>4. recorded'[p] = cache[i].version /\ UNCHANGED fs
        BY <3>1, <3>t DEF Records
      <4> QED
        BY <2>o, <4>2, <4>3, <4>4 DEF EntryPlaced, Holds
    <3>2. CASE ~(Records(i) /\ p = P(i))
      <4>1. recorded'[p] = recorded[p]
        BY <2>e, <3>2, <3>t DEF Effect, Quiet, Unpacks, CreatesTable, Records, Registers
      <4>2. format # "apk"
        BY <2>2, <2>4, <2>o
      <4>3. p \notin unrecorded
        BY <2>4, <2>e, <3>2, <4>2 DEF Effect, Quiet, Unpacks, CreatesTable, Records, Registers
      <4>4. Holds(Contents[p][n], p, recorded[p])
        BY <2>4, <4>1, <4>3 DEF DiskInv, RecordMatchesDisk
      <4>5. Contents[p][n].type # "skip" => fs'[Contents[p][n].path] = fs[Contents[p][n].path]
        <5>1. CASE Unpacks(i)
          <6>1. P(i) \in Package /\ p # P(i)
            BY <2>4, <3>t, <5>1 DEF Unpacks, Critical
          <6>2. Listed(Contents[p]) \cap Listed(Contents[P(i)]) = {}
            BY <6>1, InstallerAssumption
          <6>3. Contents[p][n].type # "skip" => Contents[p][n].path \in Path \ Listed(Contents[P(i)])
            BY <6>2, PayloadFacts
          <6> QED
            BY <5>1, <6>3 DEF Unpacks
        <5>2. CASE ~Unpacks(i)
          BY <2>e, <5>2 DEF Effect, Quiet, CreatesTable, Records, Registers
        <5> QED
          BY <5>1, <5>2
      <4> QED
        BY <2>o, <4>1, <4>4, <4>5 DEF Holds
    <3> QED
      BY <3>1, <3>2
  <2> QED
    BY <2>1, <2>2, <2>3, <2>4 DEF DiskInv, RecordMatchesDisk
<1> QED
  BY <1>a, <1>b, StepCases

--------------------------------------------------------------------------------
(* What is in place stays in place, and is recorded. *)

\* A package whose entries are all placed is in place.
LEMMA PlacedIsInPlace ==
    ASSUME TypeInv, PlacingInv, NEW i \in Process, pc[i] \in Placed
    PROVE  InPlace(P(i))
<1>1. ASSUME NEW n \in DOMAIN Contents[P(i)] PROVE EntryInPlace(Contents[P(i)][n])
  <2>1. EntryPlaced(Contents[P(i)][n], P(i), cache[i].version)
    BY DEF PlacingInv
  <2> QED
    BY <2>1 DEF EntryPlaced, EntryInPlace, Holds, File, Link
<1> QED
  BY <1>1 DEF InPlace, EntryInPlace

\* A package in place and recorded stays so while nobody unpacks it again.
LEMMA GoodStays ==
    ASSUME TypeInv, LockInv, CallInv, PlacingInv, NEW i \in Process, Act(i),
           NEW q \in Package, Good(q)
    PROVE  Good(q)'
<1> USE DEF Effect, Quiet, CreatesTable, Records, Registers
<1>1. Effect(i)
  BY EffectStep
<1>2. CASE Unpacks(i)
  <2>1. CASE q = P(i)
    BY <1>2, <2>1 DEF Unpacks, Good
  <2>2. CASE q # P(i)
    <3>1. P(i) \in Package
      BY <1>2, AtHand DEF Unpacks, Critical
    <3>2. Listed(Contents[q]) \cap Listed(Contents[P(i)]) = {}
      BY <2>2, <3>1, InstallerAssumption
    <3>3. \A n \in DOMAIN Contents[q] : Contents[q][n].type # "skip" =>
             fs'[Contents[q][n].path] = fs[Contents[q][n].path]
      BY <1>2, <3>2, PayloadFacts DEF Unpacks
    <3>4. InPlace(q) => InPlace(q)'
      BY <3>3 DEF InPlace
    <3> QED
      BY <1>2, <2>2, <3>4 DEF Unpacks, Good
  <2> QED
    BY <2>1, <2>2
<1>3. CASE ~Unpacks(i)
  <2>1. InPlace(q) <=> InPlace(q)'
    BY <1>1, <1>3 DEF InPlace
  <2>2. CASE unrecorded' = unrecorded
    BY <2>1, <2>2 DEF Good
  <2>3. CASE unrecorded' = unrecorded \ {P(i)} /\ q = P(i) /\ pc[i] \in Placed
    BY <2>1, <2>3, PlacedIsInPlace DEF Good
  <2>4. CASE unrecorded' = unrecorded \ {P(i)} /\ q # P(i)
    BY <2>1, <2>4 DEF Good
  <2> QED
    BY <1>1, <1>3, <2>2, <2>3, <2>4 DEF Placed
<1> QED
  BY <1>2, <1>3

\* The packages a plan brings require what was installed or comes before them.
LEMMA PlanIsOrdered ==
    ASSUME TypeInv, CallInv, NEW i \in Process, Act(i), pc'[i] = "fetch", format # "apk"
    PROVE  /\ plan'[i] \in Seq(Package)
           /\ \A n \in DOMAIN plan'[i] : \A q \in Requires[plan'[i][n]] :
                 \/ q \in Loaded(i).installed
                 \/ native[q].state = "installed" /\ q \in Package
                 \/ \E m \in 1..(n - 1) : plan'[i][m] = q
<1>0. pc[i] = "load" => plan[i] \in Request /\ format \in Formats
  BY DEF TypeInv, TypeOK, CallInv
<1>t. DOMAIN pc = Process /\ DOMAIN plan = Process /\ DOMAIN cache = Process
  BY DEF TypeInv, TypeOK
<1>1. ResolveAndPrepare(i) \/ DnfResolve(i)
  BY EnteringStep DEF Entering, ApkResolve
<1>2. CASE ResolveAndPrepare(i)
  <2> DEFINE r == Resolve("deb", plan[i], cache'[i].installed)
  <2>1. cache'[i] = Loaded(i) /\ pc[i] = "load" /\ format = "deb"
    BY <1>2, <1>t DEF ResolveAndPrepare
  <2>2. Loaded(i).installed \in SUBSET Package
    BY LoadedType DEF CacheType
  <2>3. /\ r.plan \in Seq(Package)
        /\ ~r.unresolved => \A n \in DOMAIN r.plan :
              \A q \in Requires[r.plan[n]] \ Loaded(i).installed : \E m \in 1..(n - 1) : r.plan[m] = q
    BY <1>0, <2>1, <2>2, ResolveAssumption
  <2>4. ~r.unresolved /\ Prepared(i, r.plan)
    BY <1>2, <1>t DEF ResolveAndPrepare, Fail, Goto
  <2> HIDE DEF r
  <2>5. plan'[i] = r.plan
    BY <1>t, <2>4 DEF Prepared
  <2> QED
    BY <2>3, <2>4, <2>5
<1>3. CASE DnfResolve(i)
  <2> DEFINE installed == {p \in Package : native[p].state = "installed"}
             r == Resolve("rpm", plan[i], installed)
  <2>1. pc[i] = "load" /\ format = "rpm" /\ Prepared(i, r.plan)
    BY <1>3 DEF DnfResolve
  <2>2. /\ r.plan \in Seq(Package)
        /\ \A n \in DOMAIN r.plan :
              \A q \in Requires[r.plan[n]] \ installed : \E m \in 1..(n - 1) : r.plan[m] = q
    <3>1. installed \in SUBSET Package
      OBVIOUS
    <3> HIDE DEF installed
    <3> QED
      BY <1>0, <2>1, <3>1, ResolveAssumption
  <2> HIDE DEF r
  <2>3. plan'[i] = r.plan
    BY <1>t, <2>1 DEF Prepared
  <2> QED
    BY <2>2, <2>3
<1> QED
  BY <1>1, <1>2, <1>3

\* Every step keeps in place what PlaceInv says is.
LEMMA PlaceStep ==
    ASSUME TypeInv, LockInv, CallInv, PlacingInv, PlaceInv, [Next]_vars
    PROVE  PlaceInv'
<1>a. CASE Still
  <2>1. UNCHANGED <<fs, format, pc, plan, k, cache, native, unrecorded>>
    BY <1>a DEF Still
  <2>2. \A q : Good(q)' <=> Good(q)
    BY <2>1 DEF Good, InPlace
  <2> QED
    BY <2>1, <2>2 DEF PlaceInv
<1>b. ASSUME NEW i \in Process, Act(i) PROVE PlaceInv'
  <2> USE <1>b
  <2>o. Others(i) /\ UNCHANGED <<format, opts>>
    BY OthersKeep
  <2>f. Ends(i) \/ Starts(i) \/ Resolves(i) \/ Continues(i)
    BY FlowStep
  <2>g. \A q \in Package : Good(q) => Good(q)'
    BY GoodStays
  <2>t. /\ cache \in [Process -> CacheType] /\ plan \in [Process -> Seq(Package)]
        /\ k \in [Process -> Nat \ {0}]
        /\ \A j \in Process : \A q \in cache[j].installed : q \in Package
    BY DEF TypeInv, TypeOK, CacheType
  <2>p. \A j \in Process : \A n \in DOMAIN plan[j] :
           plan[j][n] \in Package /\ \A q \in Requires[plan[j][n]] : q \in Package
    <3>1. \A j \in Process : \A n \in DOMAIN plan[j] : plan[j][n] \in Package
      BY <2>t
    <3> QED
      BY <3>1, InstallerAssumption
  <2>1. ASSUME NEW q \in Package, native'[q].state = "installed" PROVE Good(q)'
    <3>1. CASE native[q].state = "installed"
      BY <2>g, <3>1 DEF PlaceInv
    <3>2. CASE native[q].state # "installed"
      <4>1. Registers(i) /\ q = P(i)
        BY <2>1, <3>2, EffectStep
        DEF Effect, Quiet, Unpacks, CreatesTable, Records, Registers
      <4>2. InPlace(q)
        BY <4>1, PlacedIsInPlace DEF Registers, Placed
      <4> QED
        BY <4>1, <4>2 DEF Registers, Good, InPlace
    <3> QED
      BY <3>1, <3>2
  <2>2. ASSUME NEW j \in Process, NEW q \in cache'[j].installed PROVE Good(q)'
    <3>1. CASE q \in cache[j].installed
      BY <2>g, <2>t, <3>1 DEF PlaceInv
    <3>2. CASE q \notin cache[j].installed
      <4>1. j = i /\ cache'[i] \in {NoCache, Loaded(i)}
        BY <2>2, <2>f, <2>o, <3>2 DEF Others, Ends, Starts, Resolves, Continues
      <4>2. q \in Package /\ native[q].state = "installed"
        BY <2>2, <3>2, <4>1 DEF NoCache, Loaded
      <4> QED
        BY <2>g, <4>2 DEF PlaceInv
    <3> QED
      BY <3>1, <3>2
  <2>d. Ended \cap Planned = {} /\ {"lock", "load"} \cap Planned = {}
    BY DEF Ended, Planned, Critical, Placing, Placed
  <2>3. ASSUME NEW j \in Process, pc'[j] \in Planned, NEW n \in DOMAIN plan'[j], n < k'[j],
               NEW q \in Package, q = plan'[j][n]
        PROVE  Good(q)'
    <3>1. CASE j # i
      <4>1. pc[j] \in Planned /\ plan'[j] = plan[j] /\ k'[j] = k[j]
        BY <2>3, <2>o, <3>1 DEF Others
      <4>2. Good(q)
        BY <2>3, <4>1 DEF PlaceInv
      <4> QED
        BY <2>g, <4>1, <4>2
    <3>2. CASE j = i /\ Continues(i)
      <4>1. pc[i] \in Planned /\ plan'[i] = plan[i] /\ q = plan[i][n] /\ n \in DOMAIN plan[i]
        BY <2>3, <3>2 DEF Continues
      <4>2. CASE n < k[i]
        BY <2>g, <3>2, <4>1, <4>2 DEF PlaceInv
      <4>3. CASE ~(n < k[i])
        <5>1. /\ pc[i] \in {"writeStatus", "posttrans", "writeStanzas"}
              /\ k'[i] = k[i] + 1 /\ k[i] \in Nat /\ n \in Nat
          BY <2>3, <2>t, <3>2, <4>1, <4>3 DEF Continues
        <5>2. n = k[i]
          BY <2>3, <3>2, <4>3, <5>1
        <5>3. InPlace(q)
          BY <4>1, <5>1, <5>2, PlacedIsInPlace DEF Placed, P
        <5> QED
          BY <2>g, <3>2, <4>1, <5>3 DEF Good
      <4> QED
        BY <4>2, <4>3
    <3>3. CASE j = i /\ Resolves(i)
      <4>1. k'[i] = 1 /\ plan'[i] \in Seq(Package)
        BY <3>3, TypeStep DEF Resolves, TypeInv, TypeOK
      <4> QED
        BY <2>3, <3>3, <4>1
    <3> QED
      BY <2>3, <2>f, <2>d, <3>1, <3>2, <3>3 DEF Ends, Starts
  <2>4. ASSUME NEW j \in Process, pc'[j] \in Planned, format' # "apk",
               NEW n \in DOMAIN plan'[j], NEW q \in Requires[plan'[j][n]]
        PROVE  Good(q)' \/ \E m \in 1..(n - 1) : plan'[j][m] = q
    <3>1. CASE pc[j] \in Planned /\ plan'[j] = plan[j]
      <4>1. q \in Package
        BY <2>4, <2>p, <3>1
      <4>2. Good(q) \/ \E m \in 1..(n - 1) : plan[j][m] = q
        BY <2>4, <2>o, <3>1 DEF PlaceInv
      <4> QED
        BY <2>g, <3>1, <4>1, <4>2
    <3>2. CASE j = i /\ Resolves(i)
      <4>1. \/ q \in Loaded(i).installed
            \/ native[q].state = "installed" /\ q \in Package
            \/ \E m \in 1..(n - 1) : plan'[i][m] = q
        BY <2>4, <2>o, <3>2, PlanIsOrdered DEF Resolves
      <4>2. q \in Loaded(i).installed =>
               q \in cache[i].installed \/ (native[q].state = "installed" /\ q \in Package)
        BY DEF Loaded
      <4>3. q \in cache[i].installed \/ (native[q].state = "installed" /\ q \in Package) => Good(q)'
        BY <2>g, <2>t DEF PlaceInv
      <4> QED
        BY <3>2, <4>1, <4>2, <4>3
    <3>3. j # i => pc[j] \in Planned /\ plan'[j] = plan[j]
      BY <2>4, <2>o DEF Others
    <3> QED
      BY <2>4, <2>f, <2>d, <3>1, <3>2, <3>3 DEF Ends, Starts, Continues
  <2>5. \A j \in Process : pc'[j] \in Planned =>
           \A n \in DOMAIN plan'[j] : n < k'[j] => Good(plan[j][n])'
    <3>1. plan' \in [Process -> Seq(Package)]
      BY TypeStep DEF TypeInv, TypeOK
    <3>2. \A j \in Process : \A n \in DOMAIN plan'[j] : plan'[j][n] \in Package
      BY <3>1
    <3> QED
      BY <2>3, <3>2 DEF Good, InPlace
  <2> QED
    BY <2>1, <2>2, <2>4, <2>5 DEF PlaceInv
<1> QED
  BY <1>a, <1>b, StepCases

\* Every step keeps the packages installed so far recorded.
LEMMA RecordedStep ==
    ASSUME TypeInv, LockInv, CallInv, RecordedInv, [Next]_vars
    PROVE  RecordedInv'
<1>a. CASE Still
  BY <1>a DEF Still, RecordedInv, P
<1>b. ASSUME NEW i \in Process, Act(i) PROVE RecordedInv'
  <2> USE <1>b
  <2> DEFINE After == {"writeStatus", "postinst", "rpmdb", "rpmdbSchema", "rpmdbInsert", "posttrans"}
  <2>o. Others(i) /\ UNCHANGED <<format, opts>>
    BY OthersKeep
  <2>t. /\ recorded \in [Package -> Version] /\ plan \in [Process -> Seq(Package)]
        /\ k \in [Process -> Nat \ {0}]
    BY DEF TypeInv, TypeOK
  <2>g. \A q \in Package : recorded[q] # 0 => recorded'[q] # 0
    <3>1. CASE Records(i)
      <4>1. cache[i].version # 0
        BY <3>1, AtHand DEF Records, Critical, Placed
      <4> QED
        BY <2>t, <3>1, <4>1 DEF Records
    <3>2. CASE ~Records(i)
      BY <3>2, EffectStep DEF Effect, Quiet, Unpacks, CreatesTable, Registers
    <3> QED
      BY <3>1, <3>2
  <2>p. \A j \in Process : \A n \in DOMAIN plan[j] : plan[j][n] \in Package
    BY <2>t
  <2>d. /\ (Ended \cup {"lock", "load"}) \cap (Planned \cup After) = {}
        /\ After \subseteq Critical /\ Critical \subseteq Planned /\ "fetch" \notin After
    BY DEF Ended, Planned, Critical, Placing, Placed
  <2>1. ASSUME NEW j \in Process, format' # "apk", pc'[j] \in Planned, NEW n \in DOMAIN plan'[j],
               n < k'[j]
        PROVE  recorded'[plan'[j][n]] # 0
    <3>1. CASE pc[j] \in Planned /\ plan'[j] = plan[j] /\ n < k[j]
      <4>1. plan[j][n] \in Package /\ recorded[plan[j][n]] # 0
        BY <2>1, <2>o, <2>p, <3>1 DEF RecordedInv
      <4> QED
        BY <2>g, <3>1, <4>1
    <3>2. CASE j = i /\ Resolves(i)
      <4>1. k'[i] = 1 /\ plan'[i] \in Seq(Package)
        BY <3>2, TypeStep DEF Resolves, TypeInv, TypeOK
      <4> QED
        BY <2>1, <3>2, <4>1
    <3>3. CASE j = i /\ Continues(i) /\ ~(n < k[i])
      <4>1. /\ pc[i] \in {"writeStatus", "posttrans", "writeStanzas"} /\ plan'[i] = plan[i]
            /\ k'[i] = k[i] + 1 /\ k[i] \in Nat /\ n \in DOMAIN plan[i] /\ n \in Nat
        BY <2>1, <2>t, <3>3 DEF Continues
      <4>2. n = k[i] /\ plan[i][n] \in Package
        BY <2>1, <2>p, <3>3, <4>1
      <4>3. pc[i] # "writeStanzas"
        BY <2>1, <2>o, InstallerAssumption DEF LockInv, DebPCs, RpmPCs, Ended, TypeInv, TypeOK
      <4>4. recorded[plan[i][n]] # 0
        BY <2>1, <2>o, <4>1, <4>2, <4>3 DEF RecordedInv, P
      <4> QED
        BY <2>g, <3>3, <4>1, <4>2, <4>4
    <3>4. CASE j # i
      BY <2>1, <2>o, <3>1, <3>4 DEF Others
    <3> QED
      BY <2>1, <2>d, <3>1, <3>2, <3>3, <3>4, FlowStep DEF Ends, Starts, Continues
  <2>2. ASSUME NEW j \in Process, format' # "apk", pc'[j] \in After PROVE recorded'[P(j)'] # 0
    <3>1. CASE pc[j] \in After /\ P(j)' = P(j)
      <4>1. recorded[P(j)] # 0 /\ P(j) \in Package
        BY <2>2, <2>o, <2>d, <3>1, AtHand DEF RecordedInv
      <4> QED
        BY <2>g, <3>1, <4>1
    <3>2. CASE j # i
      <4>1. pc[j] \in After /\ P(j)' = P(j)
        BY <2>2, <2>o, <3>2 DEF Others, P
      <4> QED
        BY <3>1, <4>1
    <3>3. CASE j = i
      <4>1. CASE RecordInstalled(i, IF format = "deb" THEN "writeStatus" ELSE "rpmdb")
        <5>1. /\ pc[i] = "insert" /\ recorded' = [recorded EXCEPT ![P(i)] = cache[i].version]
              /\ UNCHANGED <<plan, k>>
          BY <4>1 DEF RecordInstalled, callVars
        <5>2. P(i) \in Package /\ cache[i].version # 0
          BY <5>1, AtHand DEF Critical, Placed
        <5>3. P(i)' = P(i)
          BY <5>1 DEF P
        <5> QED
          BY <2>t, <3>3, <5>1, <5>2, <5>3
      <4>2. CASE pc[i] \in After
        <5>1. Continues(i)
          BY <2>2, <2>d, <3>3, <4>2, FlowStep DEF Ends, Starts, Resolves
        <5>2. UNCHANGED <<plan, k>>
          BY <2>2, <2>d, <3>3, <5>1 DEF Continues, Critical, Placing, Placed
        <5> QED
          BY <3>1, <3>3, <4>2, <5>2 DEF P
      <4>3. WriteDpkgStatus(i) => pc[i] \in After
        BY DEF WriteDpkgStatus
      <4> QED
        BY <2>2, <3>3, <4>1, <4>2, <4>3, EnteringStep DEF Entering
    <3> QED
      BY <3>2, <3>3
  <2> QED
    BY <2>1, <2>2 DEF RecordedInv
<1> QED
  BY <1>a, <1>b, StepCases

--------------------------------------------------------------------------------
(* The state database. *)

\* RecordInstalled's transaction gives the package one row, with an id of its own.
LEMMA InsertKeepsRows ==
    ASSUME TypeInv, RowsInv, NEW p \in Package, NEW v \in Version \ {0},
           yapdb' = Insert(yapdb, p, v, Listed(Contents[p])),
           recorded' = [recorded EXCEPT ![p] = v]
    PROVE  RowsInv'
<1> DEFINE db == yapdb
           left == db.rows \ RowsOf(db, p)
           new == [id |-> db.next, name |-> p, version |-> v]
           brought == {[id |-> db.next, path |-> x] : x \in Listed(Contents[p])}
<1>1. /\ db.next \in Nat
      /\ db.rows \subseteq [id : Nat, name : Package, version : Version]
      /\ db.files \subseteq [id : Nat, path : Path]
      /\ db.caps \subseteq [id : Nat, name : Package, version : Version]
  BY DEF TypeInv, YapdbType
<1>2. /\ yapdb'.rows = left \cup {new} /\ yapdb'.files = db.files \cup brought
      /\ yapdb'.caps = db.caps \cup {new} /\ yapdb'.next = db.next + 1
  <2>1. DOMAIN yapdb = {"tables", "rows", "files", "caps", "next"}
    BY DEF TypeInv, YapdbType
  <2> QED
    BY <2>1 DEF Insert
<1>3. /\ recorded'[p] = v /\ v # 0
      /\ \A q \in Package \ {p} : recorded'[q] = recorded[q]
  BY DEF TypeInv, TypeOK
<1>4. /\ \A r \in db.rows \cup db.files \cup db.caps : r.id < db.next /\ r.id \in Nat
      /\ \A r, s \in db.rows : r.id = s.id \/ r.name = s.name => r = s
  BY <1>1 DEF RowsInv
<1>5. \A r \in db.rows :
         /\ r.name \in Package
         /\ recorded[r.name] # 0 /\ r.version = recorded[r.name]
         /\ \A x \in Path : [id |-> r.id, path |-> x] \in db.files <=> x \in Listed(Contents[r.name])
         /\ r \in db.caps
         /\ \A c \in db.caps : c.id = r.id => c = r
  BY <1>1 DEF RowsInv
<1>6. \A q \in Package : recorded[q] # 0 => \E r \in db.rows : r.name = q
  BY DEF RowsInv
<1>7. \A r \in left : r \in db.rows /\ r.name # p
  BY DEF RowsOf
<1>8. new.id = db.next /\ new.name = p /\ new.version = v
  OBVIOUS
<1>9. \A f \in brought : f.id = db.next
  OBVIOUS
<1>10. \A a, x : [id |-> a, path |-> x] \in brought <=> a = db.next /\ x \in Listed(Contents[p])
  OBVIOUS
<1> HIDE DEF left, new, brought
<1>11. \A r \in yapdb'.rows \cup yapdb'.files \cup yapdb'.caps : r.id < yapdb'.next
  BY <1>1, <1>2, <1>4, <1>7, <1>8, <1>9
<1>12. \A r, s \in yapdb'.rows : r.id = s.id \/ r.name = s.name => r = s
  BY <1>1, <1>2, <1>4, <1>7, <1>8
<1>13. ASSUME NEW r \in left
       PROVE  /\ recorded'[r.name] # 0 /\ r.version = recorded'[r.name]
              /\ \A x \in Path : [id |-> r.id, path |-> x] \in yapdb'.files
                                   <=> x \in Listed(Contents[r.name])
              /\ r \in yapdb'.caps
              /\ \A c \in yapdb'.caps : c.id = r.id => c = r
  <2>1. r \in db.rows /\ r.name # p /\ r.id # db.next
    BY <1>1, <1>4, <1>7
  <2>2. recorded'[r.name] # 0 /\ r.version = recorded'[r.name]
    BY <1>3, <1>5, <2>1
  <2>3. \A x \in Path : [id |-> r.id, path |-> x] \in yapdb'.files <=> x \in Listed(Contents[r.name])
    BY <1>2, <1>5, <1>10, <2>1
  <2>4. r \in yapdb'.caps /\ \A c \in yapdb'.caps : c.id = r.id => c = r
    BY <1>2, <1>5, <1>8, <2>1
  <2> QED
    BY <2>2, <2>3, <2>4
<1>14. /\ recorded'[new.name] # 0 /\ new.version = recorded'[new.name]
       /\ \A x \in Path : [id |-> new.id, path |-> x] \in yapdb'.files
                            <=> x \in Listed(Contents[new.name])
       /\ new \in yapdb'.caps
       /\ \A c \in yapdb'.caps : c.id = new.id => c = new
  <2>1. \A f \in db.files \cup db.caps : f.id # db.next
    BY <1>1, <1>4
  <2>2. \A x \in Path : [id |-> db.next, path |-> x] \in yapdb'.files <=> x \in Listed(Contents[p])
    <3>1. \A x \in Path : [id |-> db.next, path |-> x] \notin db.files
      BY <2>1
    <3> QED
      BY <1>2, <1>10, <3>1
  <2>3. new \in yapdb'.caps /\ \A c \in yapdb'.caps : c.id = new.id => c = new
    BY <1>2, <1>8, <2>1
  <2> QED
    BY <1>3, <1>8, <2>2, <2>3
<1>15. \A q \in Package : recorded'[q] # 0 => \E r \in yapdb'.rows : r.name = q
  <2>1. ASSUME NEW q \in Package, q # p, recorded'[q] # 0 PROVE \E r \in yapdb'.rows : r.name = q
    <3>1. PICK r \in db.rows : r.name = q
      BY <1>3, <1>6, <2>1
    <3>2. r \in left
      BY <2>1, <3>1 DEF left, RowsOf
    <3> QED
      BY <1>2, <3>1, <3>2
  <2>2. new \in yapdb'.rows /\ new.name = p
    BY <1>2, <1>8
  <2> QED
    BY <2>1, <2>2
<1> QED
  BY <1>2, <1>11, <1>12, <1>13, <1>14, <1>15 DEF RowsInv

\* Every step keeps the rows of the state database.
LEMMA RowsStep ==
    ASSUME TypeInv, CallInv, RowsInv, [Next]_vars
    PROVE  RowsInv'
<1>a. CASE Still
  BY <1>a DEF Still, RowsInv
<1>b. ASSUME NEW i \in Process, Act(i) PROVE RowsInv'
  <2> USE <1>b
  <2>1. CASE Records(i)
    <3>1. P(i) \in Package /\ cache[i].version \in Version \ {0}
      BY <2>1, AtHand DEF Records, Critical, Placed
    <3>2. PICK p \in Package, v \in Version \ {0} : p = P(i) /\ v = cache[i].version
      BY <3>1
    <3> QED
      BY <2>1, <3>2, InsertKeepsRows DEF Records
  <2>2. CASE CreatesTable(i)
    <3>1. "meta" \notin yapdb.tables /\ yapdb \in YapdbType
      BY <2>2 DEF CreatesTable, CallInv, TypeInv
    <3>2. yapdb' = [yapdb EXCEPT !.tables = CreateTable(yapdb).tables]
      BY <2>2, <3>1, SchemaType DEF CreatesTable
    <3>3. /\ yapdb'.rows = yapdb.rows /\ yapdb'.files = yapdb.files /\ yapdb'.caps = yapdb.caps
          /\ yapdb'.next = yapdb.next /\ recorded' = recorded
      BY <2>2, <3>1, <3>2 DEF CreatesTable, YapdbType
    <3> QED
      BY <3>3 DEF RowsInv
  <2>3. CASE ~Records(i) /\ ~CreatesTable(i)
    <3>1. UNCHANGED <<yapdb, recorded>>
      BY <2>3, EffectStep DEF Effect, Quiet, Unpacks, Registers
    <3> QED
      BY <3>1 DEF RowsInv
  <2> QED
    BY <2>1, <2>2, <2>3
<1> QED
  BY <1>a, <1>b, StepCases

\* What the invariant of the rows makes of the answers.
LEMMA RowsAnswer ==
    ASSUME TypeInv, RowsInv
    PROVE  RecordIsCurrent
<1> SUFFICES ASSUME NEW p \in Package, recorded[p] # 0
             PROVE  LET r == LookupByName(yapdb, p) IN
                    /\ IsInstalled(yapdb, p) /\ [name |-> p, version |-> recorded[p]] \in List(yapdb)
                    /\ r.versions = {recorded[p]} /\ r.caps = {<<p, recorded[p]>>}
                    /\ r.files = Listed(Contents[p])
                    /\ ProvidersOf(yapdb, p) = {p}
  BY DEF RecordIsCurrent
<1> DEFINE db == yapdb
<1>1. /\ db.files \subseteq [id : Nat, path : Path]
      /\ db.caps \subseteq [id : Nat, name : Package, version : Version]
  BY DEF TypeInv, YapdbType
<1>2. PICK r \in db.rows : r.name = p
  BY DEF RowsInv
<1>3. /\ r.version = recorded[p]
      /\ \A x \in Path : [id |-> r.id, path |-> x] \in db.files <=> x \in Listed(Contents[p])
      /\ r \in db.caps /\ \A c \in db.caps : c.id = r.id => c = r
  BY <1>2 DEF RowsInv
<1>4. RowsOf(db, p) = {r}
  BY <1>2 DEF RowsInv, RowsOf
<1> DEFINE ids == {s.id : s \in RowsOf(db, p)}
           files == {g \in db.files : g.id \in ids}
           caps == {d \in db.caps : d.id \in ids}
<1>5. ids = {r.id}
  BY <1>4
<1>6. LookupByName(db, p) =
         [versions |-> {s.version : s \in RowsOf(db, p)},
          files    |-> {f.path : f \in files},
          caps     |-> {<<c.name, c.version>> : c \in caps}]
  BY DEF LookupByName
<1>7. caps = {r}
  BY <1>3, <1>5
<1>8. {f.path : f \in files} = Listed(Contents[p])
  <2>1. ASSUME NEW f \in files PROVE f.path \in Listed(Contents[p])
    <3>1. f \in db.files /\ f.id = r.id
      BY <1>5
    <3>2. f = [id |-> r.id, path |-> f.path] /\ f.path \in Path
      BY <1>1, <3>1
    <3> QED
      BY <1>3, <3>1, <3>2
  <2>2. ASSUME NEW x \in Listed(Contents[p]) PROVE \E f \in files : f.path = x
    <3>1. x \in Path
      BY PayloadFacts
    <3>2. [id |-> r.id, path |-> x] \in db.files
      BY <1>3, <3>1
    <3>3. [id |-> r.id, path |-> x] \in files
      BY <1>5, <3>2
    <3> QED
      BY <3>3
  <2> QED
    BY <2>1, <2>2
<1> HIDE DEF ids, files, caps
<1>9. /\ LookupByName(db, p).versions = {recorded[p]}
      /\ LookupByName(db, p).caps = {<<p, recorded[p]>>}
      /\ LookupByName(db, p).files = Listed(Contents[p])
  <2>1. {s.version : s \in RowsOf(db, p)} = {recorded[p]}
    BY <1>3, <1>4
  <2>2. {<<c.name, c.version>> : c \in caps} = {<<p, recorded[p]>>}
    BY <1>2, <1>3, <1>7
  <2> QED
    BY <1>6, <1>8, <2>1, <2>2
<1>10. IsInstalled(db, p) /\ [name |-> p, version |-> recorded[p]] \in List(db)
  BY <1>2, <1>3, <1>4 DEF IsInstalled, List
<1>11. ProvidersOf(db, p) = {p}
  <2>1. ASSUME NEW q \in db.rows, NEW c \in db.caps, c.id = q.id, c.name = p PROVE q.name = p
    BY <2>1 DEF RowsInv
  <2>2. r \in {q \in db.rows : \E c \in db.caps : c.id = q.id /\ c.name = p}
    BY <1>2, <1>3
  <2> QED
    BY <1>2, <2>1, <2>2 DEF ProvidersOf
<1> QED
  BY <1>9, <1>10, <1>11

\* Every step keeps the native database as it was written.
LEMMA NativeStep ==
    ASSUME TypeInv, CallInv, NativeKept, [Next]_vars
    PROVE  NativeKept'
<1>a. CASE Still
  BY <1>a DEF Still, NativeKept
<1>b. ASSUME NEW i \in Process, Act(i) PROVE NativeKept'
  BY <1>b, EffectStep DEF Effect, Quiet, Unpacks, CreatesTable, Records, Registers, NativeKept
<1> QED
  BY <1>a, <1>b, StepCases

--------------------------------------------------------------------------------
(* The theorems. *)

\* The host before the first call has the invariant.
LEMMA InitInv ==
    ASSUME Init
    PROVE  IInv
<1> USE DEF Init
<1>1. TypeInv
  <2>1. /\ format \in Formats /\ opts \in OptionSets /\ offered \in 1..MaxVersion
        /\ calls \in 0..MaxCalls /\ rpmdb \in {"missing", "new", "cut", "used"}
        /\ lock \in Process \cup {NoProcess} /\ unrecorded \subseteq Package /\ lost \subseteq Package
    BY InstallerAssumption
  <2>2. fs \in [Path -> {Absent, Torn} \cup [kind : {"file", "link"}, of : Package, version : Version]]
    <3> DEFINE F == {Absent, Torn} \cup [kind : {"file", "link"}, of : Package, version : Version]
               There(f) == \E p \in Package : native[p] # NotThere /\ f \in Listed(Contents[p])
               Owner(f) == CHOOSE q \in Package : f \in Listed(Contents[q])
               IsLink(f) == \E n \in DOMAIN Contents[Owner(f)] :
                               /\ Contents[Owner(f)][n].path = f
                               /\ Contents[Owner(f)][n].type = "symlink"
    <3>1. fs = [f \in Path |-> IF There(f) THEN IF IsLink(f) THEN Link(Owner(f), 0)
                                               ELSE File(Owner(f), 0) ELSE Absent]
      BY Zenon
    <3>2. \A f : There(f) => Owner(f) \in Package
      OBVIOUS
    <3>3. \A p \in Package : Link(p, 0) \in F /\ File(p, 0) \in F
      BY InstallerAssumption DEF Link, File, Version
    <3>4. Absent \in F
      OBVIOUS
    <3> HIDE DEF F, There, Owner, IsLink
    <3>5. fs \in [Path -> F]
      BY <3>1, <3>2, <3>3, <3>4
    <3> QED
      BY <3>5 DEF F
  <2>3. /\ native \in [Package -> NativeEntry] /\ recorded \in [Package -> Version]
        /\ snap \in [Process -> [Package -> NativeEntry]]
    <3>1. {NotThere, [state |-> "installed", version |-> 0]} \subseteq NativeEntry
      BY InstallerAssumption DEF NotThere, NativeEntry, Version
    <3>2. native \in [Package -> NativeEntry]
      BY <3>1
    <3>3. 0 \in Version
      BY InstallerAssumption DEF Version
    <3> QED
      BY <3>2, <3>3
  <2>4. yapdb \in YapdbType /\ yapdb.tables \subseteq {"packages", "files", "caps", "meta"}
    BY DEF Blank, YapdbType
  <2>5. pc \in [Process -> PCs] /\ plan \in [Process -> Seq(Package)]
    BY DEF PCs, Ended
  <2>6. cache \in [Process -> CacheType]
    <3>1. NoCache \in CacheType
      BY InstallerAssumption DEF NoCache, CacheType, Version
    <3> QED
      BY <3>1
  <2>7. /\ k \in [Process -> Nat \ {0}] /\ at \in [Process -> Nat \ {0}]
        /\ phase \in [Process -> {"unpacking", "installed", "unconfigured"}]
    OBVIOUS
  <2> QED
    BY <2>1, <2>2, <2>3, <2>4, <2>5, <2>6, <2>7 DEF TypeInv, TypeOK
<1>2. \A i \in Process : pc[i] = "idle" /\ cache[i].installed = {}
  BY DEF NoCache
<1>3. LockInv
  BY <1>2 DEF LockInv, DebPCs, RpmPCs, ApkPCs, Ended, Critical, Placing, Placed
<1>4. \A i \in Process : /\ pc[i] \notin {"lock", "load", "schema", "open", "insert", "writeStatus", "write"}
                         /\ pc[i] \notin Planned \cup Critical \cup Placing \cup Placed
                         /\ pc[i] # "writeStanzas"
  BY <1>2 DEF Planned, Critical, Placing, Placed
<1>5. CallInv /\ PlacingInv
  BY <1>4 DEF CallInv, PlacingInv
<1>6. \A f \in Path :
         /\ fs[f] # Torn
         /\ (\E p \in Package : native[p] # NotThere /\ f \in Listed(Contents[p]))
              => fs[f].kind \in {"file", "link"}
  <2>1. \A p, v : /\ File(p, v) # Torn /\ Link(p, v) # Torn
                  /\ File(p, v).kind = "file" /\ Link(p, v).kind = "link"
    BY DEF File, Link, Torn
  <2>2. Absent # Torn
    BY DEF Absent, Torn
  <2>3. ASSUME NEW f \in Path
        PROVE  /\ fs[f] = Absent \/ (\E p, v : fs[f] = File(p, v) \/ fs[f] = Link(p, v))
               /\ (\E p \in Package : native[p] # NotThere /\ f \in Listed(Contents[p]))
                    => \E p, v : fs[f] = File(p, v) \/ fs[f] = Link(p, v)
    BY Zenon
  <2> QED
    BY <2>1, <2>2, <2>3
<1>7. DiskInv
  BY <1>4, <1>6 DEF DiskInv, RecordMatchesDisk
<1>8. PlaceInv
  <2>1. ASSUME NEW q \in Package, native[q].state = "installed" PROVE Good(q)
    <3>1. native[q] # NotThere
      BY <2>1 DEF NotThere
    <3>2. \A n \in DOMAIN Contents[q] : Contents[q][n].type # "skip" =>
             fs[Contents[q][n].path].kind \in {"file", "link"}
      BY <1>6, <3>1, PayloadFacts
    <3> QED
      BY <3>2 DEF Good, InPlace
  <2> QED
    BY <1>2, <1>4, <2>1 DEF PlaceInv
<1>9. RecordedInv
  BY <1>2, <1>4 DEF RecordedInv
<1>10. RowsInv
  BY DEF RowsInv, Blank
<1>11. NativeKept
  BY DEF NativeKept
<1> QED
  BY <1>1, <1>3, <1>5, <1>7, <1>8, <1>9, <1>10, <1>11 DEF IInv

\* Every step keeps the invariant.
LEMMA InvariantStep ==
    ASSUME IInv, [Next]_vars
    PROVE  IInv'
BY TypeStep, LockStep, CallStep, PlacingStep, DiskStep, PlaceStep, RecordedStep, RowsStep, NativeStep
DEF IInv

\* IInv is an invariant of the installers.
THEOREM Invariance == Spec => []IInv
<1>1. Init => IInv
  BY InitInv
<1>2. IInv /\ [Next]_vars => IInv'
  BY InvariantStep
<1> QED
  BY <1>1, <1>2, PTL DEF Spec

\* Every variable keeps its type.
THEOREM TypeCorrect == Spec => []TypeOK
<1>1. IInv => TypeOK
  BY DEF IInv, TypeInv
<1> QED
  BY <1>1, Invariance, PTL

\* However the calls of any number of processes interleave, and wherever they
\* crash, what was recorded of a package since it was last unpacked is on disk.
THEOREM RecordIsOnDisk == Spec => []RecordMatchesDisk
<1>1. IInv => RecordMatchesDisk
  BY DEF IInv, DiskInv
<1> QED
  BY <1>1, Invariance, PTL

\* installed.db answers with the record of the last installation of a package,
\* though nothing ever deletes the files and capabilities of an older one.
THEOREM RecordIsTheLast == Spec => []RecordIsCurrent
<1>1. IInv => RecordIsCurrent
  BY RowsAnswer DEF IInv
<1> QED
  BY <1>1, Invariance, PTL

\* No installation drops another package from the host's database: what it writes
\* back is what it has read, since nobody else has written in between.
THEOREM NothingIsLost == Spec => []NativeKept
<1>1. IInv => NativeKept
  BY DEF IInv
<1> QED
  BY <1>1, Invariance, PTL

\* A script finds all that its package requires on disk, and nobody replacing it.
THEOREM ScriptsFindDependencies == Spec => []DependenciesInPlace
<1>1. ASSUME IInv, NEW i \in Process, pc[i] \in Scripts
      PROVE  /\ \A q \in Requires[P(i)] \ unrecorded : InPlace(q)
             /\ \A j \in Process : pc[j] \in {"extract", "write"} => P(j) \notin Requires[P(i)]
  <2> USE <1>1 DEF IInv
  <2>1. pc[i] \in Critical /\ pc[i] \in Planned /\ pc[i] \notin Placing
    BY DEF Scripts, Planned, Critical, Placing, Placed
  <2>2. k[i] \in DOMAIN plan[i] /\ plan[i] \in Seq(Package)
    BY <2>1, AtHand DEF TypeInv, TypeOK
  <2>3. format # "apk"
    BY DEF LockInv, ApkPCs, Ended, Scripts
  <2>4. ASSUME NEW q \in Requires[P(i)], q \notin unrecorded PROVE InPlace(q)
    <3>1. Good(q) \/ \E m \in 1..(k[i] - 1) : plan[i][m] = q
      BY <2>1, <2>2, <2>3 DEF PlaceInv, P
    <3>2. \A m \in 1..(k[i] - 1) : m \in DOMAIN plan[i] /\ m < k[i]
      BY <2>2
    <3>3. \A m \in 1..(k[i] - 1) : Good(plan[i][m])
      BY <2>1, <3>2 DEF PlaceInv
    <3>4. Good(q)
      BY <3>1, <3>3
    <3> QED
      BY <2>4, <3>4 DEF Good
  <2>5. ASSUME NEW j \in Process, pc[j] \in {"extract", "write"} PROVE P(j) \notin Requires[P(i)]
    <3>1. pc[j] \in Placing /\ pc[j] \in Critical
      BY <2>5 DEF Critical, Placing
    <3> QED
      BY <2>1, <3>1, Alone
  <2> QED
    BY <2>4, <2>5
<1>2. IInv => DependenciesInPlace
  BY <1>1 DEF DependenciesInPlace
<1> QED
  BY <1>2, Invariance, PTL

\* A call that ends well leaves every package of its plan on disk and recorded.
THEOREM SuccessInstalls == Spec => SuccessIsInstalled
<1> DEFINE Installed(i) ==
        pc[i] = "install" /\ pc'[i] = "done" =>
          \A n \in DOMAIN plan[i] : LET p == plan[i][n] IN
              (p \notin unrecorded => InPlace(p)) /\ (format # "apk" => recorded[p] # 0)
<1>1. ASSUME IInv, [Next]_vars, NEW i \in Process PROVE Installed(i)
  <2> SUFFICES ASSUME pc[i] = "install", pc'[i] = "done", NEW n \in DOMAIN plan[i]
               PROVE  Good(plan[i][n]) /\ (format # "apk" => recorded[plan[i][n]] # 0)
    BY DEF Good
  <2> USE <1>1 DEF IInv
  <2>1. PICK j \in Process : Act(j)
    BY StepCases DEF Still
  <2>2. j = i
    BY <2>1, OthersKeep DEF Others
  <2>3. k[i] > Len(plan[i])
    BY <2>1, <2>2, EnteringStep DEF Entering
  <2>4. n < k[i]
    BY <2>3 DEF TypeInv, TypeOK
  <2>5. pc[i] \in Planned
    BY DEF Planned
  <2> QED
    BY <2>4, <2>5 DEF PlaceInv, RecordedInv
<1>2. IInv /\ [Next]_vars => [\A i \in Process : Installed(i)]_vars
  BY <1>1
<1> QED
  BY <1>2, Invariance, PTL DEF Spec, SuccessIsInstalled
================================================================================
