------------------------------- MODULE Pkgbuild -------------------------------
(* The PKGBUILD file in memory: its directives with their variants by           *)
(* architecture and distribution, and the overrides of sub-packages.  A         *)
(* statement of the file is a record [name, arch, distros, kind, value]: the    *)
(* name without its suffixes, the suffix "_arch" ("" for none), the suffixes    *)
(* "__distro" as a sequence, its kind "string", "array" or "function", and what *)
(* it assigns.  The value of a function is a sequence whose elements are the    *)
(* assignments of its body, in order.                                           *)
EXTENDS Integers, Sequences, Functions, SequencesExt

CONSTANT
    HostArch,           \* the architecture yap runs on
    PackageManagerOf    \* distribution -> its package manager

\* The valid architectures with an underscore in their names.
WithUnderscore == {"x86_64"}

\* A distribution is a pair of its name and its codename, "" for none; full names
\* are such pairs in the suffixes too.
NoDistro == <<"", "">>

Skip == -1
Base == 0

Get(f, x, default) == IF x \in DOMAIN f THEN f[x] ELSE default
Set(f, x, v) == [y \in DOMAIN f \cup {x} |-> IF y = x THEN v ELSE f[y]]

OptionDefaults == [debug |-> FALSE, docs |-> TRUE, emptydirs |-> TRUE, libtool |-> TRUE,
                   purge |-> FALSE, staticlibs |-> TRUE, strip |-> TRUE, zipman |-> FALSE]

\* Options are pairs of a name and whether it is wanted; later ones count.
ProcessOptions(options) ==
    FoldLeft(LAMBDA flags, o : IF o[1] \in DOMAIN flags THEN Set(flags, o[1], o[2]) ELSE flags,
             OptionDefaults, options)

\* Init: nothing is set but the defaults of the options.
New(distro, targetArch) ==
    [distro |-> distro, targetArch |-> targetArch, priorities |-> <<>>,
     strings |-> <<>>, arrays |-> <<>>, functions |-> <<>>, flags |-> ProcessOptions(<<>>),
     pkgName |-> "", pkgNames |-> <<>>, sourceURI |-> <<>>, hashSums |-> <<>>,
     archSourceURI |-> <<>>, archHashSums |-> <<>>, topLevelSnap |-> <<>>, archComputed |-> "",
     suffix |-> ""]   \* what FormatRelease adds to pkgrel

EffectiveArch(p) == IF p.targetArch = "" THEN HostArch ELSE p.targetArch

GetDistributionPriority(p, suffix) ==
    CASE suffix = p.distro -> 3
      [] suffix # p.distro /\ suffix = <<p.distro[1], "">> -> 2
      [] suffix # p.distro /\ suffix # <<p.distro[1], "">>
           /\ suffix = <<Get(PackageManagerOf, p.distro[1], "?"), "">> -> 1
      [] OTHER -> Skip

ParseCombinedArchDistro(p, s) ==
    IF s.arch # EffectiveArch(p) \/ Len(s.distros) > 1 \/ GetDistributionPriority(p, s.distros[1]) <= Base
    THEN Skip ELSE GetDistributionPriority(p, s.distros[1]) + 4

ParseArchitectureOnly(p, s) == IF s.arch = EffectiveArch(p) THEN 4 ELSE Skip

\* Without a distribution every suffix counts as none.
ParseDistributionOnly(p, s) ==
    IF s.distros = <<>> \/ p.distro = NoDistro THEN Base
    ELSE GetDistributionPriority(p, s.distros[1])

ParseDirective(p, s) ==
    IF s.arch # "" /\ s.distros # <<>> THEN ParseCombinedArchDistro(p, s)
    ELSE IF s.arch # "" THEN ParseArchitectureOnly(p, s)
    ELSE ParseDistributionOnly(p, s)

\* Two suffixes of distributions without an architecture are an error.
DirectiveFails(s) == s.arch = "" /\ Len(s.distros) > 1

\* A scalar replaces, target_arch only where none is set yet; an unknown name is a
\* variable of the script.
MapVariables(p, s) ==
    CASE s.kind = "string" /\ s.name = "pkgname" -> [p EXCEPT !.pkgName = s.value]
      [] s.kind = "string" /\ s.name = "target_arch" ->
            [p EXCEPT !.targetArch = IF @ = "" THEN s.value ELSE @]
      [] s.kind = "string" /\ s.name \notin {"pkgname", "target_arch"} ->
            [p EXCEPT !.strings = Set(@, s.name, s.value)]
      [] s.kind # "string" -> p

Checksums == {"sha512sums", "sha384sums", "sha256sums", "sha224sums", "b2sums", "cksums"}

MapChecksumsArrays(p, s, priority) ==
    IF priority > Base THEN [p EXCEPT !.archHashSums = @ \o s.value]
    ELSE [p EXCEPT !.hashSums = s.value]

\* An array replaces; variants of the sources and of their sums are put aside.
MapArrays(p, s, priority) ==
    CASE s.kind # "array" -> p
      [] s.kind = "array" /\ s.name \in Checksums -> MapChecksumsArrays(p, s, priority)
      [] s.kind = "array" /\ s.name = "source" /\ priority > Base ->
            [p EXCEPT !.archSourceURI = @ \o s.value]
      [] s.kind = "array" /\ s.name = "source" /\ priority <= Base -> [p EXCEPT !.sourceURI = s.value]
      [] s.kind = "array" /\ s.name = "pkgname" ->
            [p EXCEPT !.pkgNames = s.value,
                      !.pkgName = IF s.value = <<>> THEN @ ELSE s.value[1]]
      [] s.kind = "array" /\ s.name = "options" ->
            [p EXCEPT !.arrays = Set(@, "options", s.value), !.flags = ProcessOptions(s.value)]
      [] OTHER -> [p EXCEPT !.arrays = Set(@, s.name, s.value)]

\* Stages, scriptlets, the functions of sub-packages and helpers, by their names.
MapFunctions(p, s) ==
    IF s.kind = "function" THEN [p EXCEPT !.functions = Set(@, s.name, s.value)] ELSE p

\* A later base function replaces a variant.
AddItem_BaseFunctions(p, s) ==
    LET priority == ParseDirective(p, s)
        old      == Get(p.priorities, s.name, 0)
        ranked   == IF priority > old THEN [p EXCEPT !.priorities = Set(@, s.name, priority)] ELSE p
    IN  IF DirectiveFails(s) \/ priority = Skip \/ (priority < old /\ priority # Base) THEN p
        ELSE MapFunctions(MapArrays(MapVariables(ranked, s), s, priority), s)

\* A base variable is stored whatever came before it, a base function is not.
AddItem(p, s) ==
    LET priority == ParseDirective(p, s)
        old      == Get(p.priorities, s.name, 0)
        ranked   == IF priority > old THEN [p EXCEPT !.priorities = Set(@, s.name, priority)] ELSE p
        mapped   == MapArrays(MapVariables(ranked, s), s, priority)
    IN  IF DirectiveFails(s) \/ priority = Skip \/ (priority < old /\ priority # Base) THEN p
        ELSE IF priority >= old THEN MapFunctions(mapped, s) ELSE mapped

SplitOverrideKeys == {"pkgdesc", "arch", "url", "license", "groups", "depends", "optdepends",
                      "provides", "conflicts", "replaces", "backup", "options", "install", "changelog"}

OverrideStrings == {"pkgdesc", "url"}
OverrideArrays  == {"license", "depends", "optdepends", "provides", "conflicts", "replaces",
                    "backup", "options"}

\* The overridable fields of a snapshot, absent ones as the zero value.
Fields(f, keys, zero) == [k \in keys |-> Get(f, k, zero)]

CopySplitOverrideFields_Fields(dst, src) ==
    [dst EXCEPT
        !.strings = [k \in DOMAIN @ \cup OverrideStrings |->
                        IF k \in OverrideStrings THEN Get(src.strings, k, "") ELSE dst.strings[k]],
        !.arrays = [k \in DOMAIN @ \cup OverrideArrays |->
                        IF k \in OverrideArrays THEN Get(src.arrays, k, <<>>) ELSE dst.arrays[k]]]

\* The fields and the priorities; the flags of the options, the architectures and
\* the install script are not among them.
CopySplitOverrideFields(dst, src) ==
    [dst EXCEPT
        !.strings = [k \in DOMAIN @ \cup OverrideStrings |->
                        IF k \in OverrideStrings THEN Get(src.strings, k, "") ELSE dst.strings[k]],
        !.arrays = [k \in DOMAIN @ \cup OverrideArrays |->
                        IF k \in OverrideArrays THEN Get(src.arrays, k, <<>>) ELSE dst.arrays[k]],
        !.priorities = [k \in DOMAIN @ \cup SplitOverrideKeys |->
                        IF k \in SplitOverrideKeys THEN Get(src.priorities, k, 0)
                        ELSE dst.priorities[k]]]

SnapshotSplitOverrides(p) ==
    [strings |-> Fields(p.strings, OverrideStrings, ""),
     arrays |-> Fields(p.arrays, OverrideArrays, <<>>),
     priorities |-> Fields(p.priorities, SplitOverrideKeys, 0)]

IsSplitPackage(p) == Len(p.pkgNames) > 1

\* The variants' sources and sums go behind those of every architecture.
Finalize(p) ==
    LET merged == [p EXCEPT !.sourceURI = @ \o p.archSourceURI, !.hashSums = @ \o p.archHashSums,
                            !.archSourceURI = <<>>, !.archHashSums = <<>>]
    IN  IF IsSplitPackage(p) THEN [merged EXCEPT !.topLevelSnap = <<SnapshotSplitOverrides(p)>>]
        ELSE merged

RestoreTopLevelOverrides(p) ==
    IF p.topLevelSnap = <<>> THEN p ELSE CopySplitOverrideFields(p, p.topLevelSnap[1])

\* Statements of a file or of a function, one after the other: those whose numbers
\* are chosen.
AddItems(p, statements, chosen) ==
    LET added[n \in 0..Len(statements)] ==
            IF n = 0 THEN p
            ELSE IF n \in chosen THEN AddItem(added[n - 1], statements[n]) ELSE added[n - 1]
    IN  added[Len(statements)]

\* Which assignments are overrides.  The name is cut at "__", or else at its last
\* underscore: an architecture whose name has one, or one before a distribution,
\* hides the key.
ApplyOverrideAssign(s) ==
    /\ s.name \in SplitOverrideKeys
    /\ s.arch # "" => s.distros = <<>> /\ s.arch \notin WithUnderscore

ParseSplitOverrides(p, body) == AddItems(p, body, {n \in DOMAIN body : ApplyOverrideAssign(body[n])})

\* A file is a sequence of statements: the variables first, then the functions.
\* Only the error of the last statement of a pass is seen.
ParseFile(distro, targetArch, file) ==
    LET functions == {n \in DOMAIN file : file[n].kind = "function"}
        variables == DOMAIN file \ functions
    IN  Finalize(AddItems(AddItems(New(distro, targetArch), file, variables), file, functions))

ParseFails(file) ==
    \E kinds \in {{"string", "array"}, {"function"}} :
        LET pass == SelectSeq(file, LAMBDA s : s.kind \in kinds) IN
        pass # <<>> /\ DirectiveFails(Last(pass))

\* ComputeArchitecture fails for a file that does not name the host.
ArchitectureFits(p) == \E arch \in {"any", HostArch} : Contains(Get(p.arrays, "arch", <<>>), arch)

ComputeArchitecture(p) ==
    [p EXCEPT !.archComputed = IF Contains(Get(p.arrays, "arch", <<>>), "any") THEN "any" ELSE HostArch]

ValidateGeneral(p) ==
    /\ Len(p.sourceURI) = Len(p.hashSums)
    /\ "package" \in DOMAIN p.functions \/ IsSplitPackage(p)

ValidateMandatoryItems(p) ==
    p.pkgName # "" /\ \A k \in {"pkgdesc", "pkgver", "pkgrel"} : Get(p.strings, k, "") # ""
===============================================================================
