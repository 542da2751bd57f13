------------------------------- MODULE Packaging ------------------------------
(* One project on its way from the PKGBUILD to its artifacts: parsed and        *)
(* validated, its dependencies synchronised, its functions run, its packages    *)
(* made, signed and installed.  A failed run may be followed by another one     *)
(* over what it left.                                                           *)
EXTENDS PackageFormats, FiniteSets

CONSTANTS
    Worlds,             \* the projects and the options of a run
    PackageFunction,    \* name of a sub-package -> name of its function
    Installs,           \* run -> what a package function installs in it
    HostDebArch,        \* the host's architecture as deb names it
    PerlModules, Essential,
    Triplet,            \* architecture -> the triplet of its tools
    MaxRuns

Cross == INSTANCE CrossDeps WITH HostArch <- HostDebArch
Tools == INSTANCE CrossEnv

\* A world is a record [file, distro, format, targets, system, compiles, sign,
\* install, lists, stanzas, host, makeDepends, depends]: the PKGBUILD, the
\* distribution, the format, the target architecture of each run, the build system
\* and the function that runs it, the options of the command line, and for a deb
\* build the indexes, the stanzas of the packages the host may have, the host, and
\* the dependencies.

PackageFunctions == Range(PackageFunction) \cup {"package", "package_"}
StageFunctions == {"prepare", "build", "check"}

\* Files and the bodies of package functions are sequences of statements, those of
\* a body assignments; no variable has the name of a stage; no target changes the names of a project, as a pkgname
\* without suffix never does.
ASSUME PackagingAssumption ==
    /\ MaxRuns \in Nat \ {0}
    /\ \A w \in Worlds :
          /\ w.format \in {"deb", "rpm", "apk", "pacman"}
          /\ w.file \in Seq(Range(w.file))
          /\ \A n \in DOMAIN w.file : w.file[n].name \in StageFunctions => w.file[n].kind = "function"
          /\ \A n \in DOMAIN w.file :
                LET body == w.file[n].value IN
                w.file[n].kind = "function" /\ w.file[n].name \in PackageFunctions =>
                    body \in Seq(Range(body)) /\ \A m \in DOMAIN body : body[m].kind # "function"
          /\ \A n \in 1..MaxRuns :
                LET p == ParseFile(w.distro, w.targets[n], w.file)
                    q == ParseFile(w.distro, w.targets[1], w.file)
                IN  p.pkgName = q.pkgName /\ p.pkgNames = q.pkgNames

\* What a run needs to deliver: programs are installed, and the tools of an
\* architecture are known by their prefix, which those for armv6 and armv7 are not
\* together (toolchains.go:284); targets have tools, sub-packages have names of their own,
\* and the function that compiles is there.
ASSUME DeliveryAssumption ==
    /\ HostArch \notin {"", "any"}
    /\ "any" \notin DOMAIN Triplet
    /\ \A n \in 1..MaxRuns : "bin" \in Installs[n]
    /\ \A arch \in DOMAIN Triplet : \A prefix \in {arch} \cup {Tools!ArchPattern(arch, d) : d \in Tools!Distros} :
          prefix # Tools!HostTools /\ \A other \in DOMAIN Triplet : Tools!Emits(prefix, other) => other = arch
    /\ \A w \in Worlds :
          /\ w.system \in {"make", "cmake", "go", "cargo"}
          /\ w.compiles \in {"build", "package"}
          /\ \A n \in 1..MaxRuns :
                LET p == ParseFile(w.distro, w.targets[n], w.file) IN
                /\ p.targetArch \in {"", HostArch} \cup DOMAIN Triplet
                /\ IsSplitPackage(p) => p.pkgNames \in Seq(Range(p.pkgNames)) /\ IsInjective(p.pkgNames)
                /\ IsSplitPackage(p) /\ w.compiles = "build" => "build" \in DOMAIN p.functions

\* The project and the dependencies of a deb build are named by strings.  Of one name
\* all packages are of one Multi-Arch class.  A list says of each package what its
\* architecture is and where its file is, and of one the host may have what dpkg
\* would say it depends on.  There is no sysroot yet, and no path is a foreign
\* package's.
ASSUME CrossAssumption ==
    /\ "" \in STRING
    /\ HostDebArch \in STRING \ {"", "all", "noarch", "src"}
    /\ \A w \in Worlds :
          LET Listed == UNION {Range(list.stanzas) : list \in Range(w.lists)}
              offered == Cross!LoadAptLists(Cross!NewEmptyCache, w.lists).entries
          IN  /\ w.lists \in Seq([repo : STRING, stanzas : Seq(Cross!Stanza)])
              /\ w.stanzas \in Seq(Cross!Stanza)
              /\ w.makeDepends \in Seq(STRING \X STRING) /\ w.depends \in Seq(STRING \X STRING)
              /\ \A n \in 1..MaxRuns : TranslateArch("deb", w.targets[n]) \in STRING
              /\ \A s, t \in Listed \cup Range(w.stanzas) : s.name = t.name => s.multiArch = t.multiArch
              /\ \A s \in Listed : s.arch # "" /\ s.version # <<>> /\ s.file # ""
              /\ \A s \in Range(w.stanzas) :
                    /\ s.file = ""
                    /\ LET key == Cross!EntryKey(s.name, s.arch) IN
                       key \in DOMAIN offered => Cross!ParseDependsField(s.depends) = offered[key].depends
              /\ {"installed", "recorded", "sysroot", "paths"} \subseteq DOMAIN w.host
              /\ w.host.sysroot = {}
              /\ \A name \in DOMAIN w.host.paths : w.host.paths[name] \in {"", "all", HostDebArch}

VARIABLES
    world,
    pkgbuild,   \* the PKGBUILD in memory
    phase,      \* where the run is
    sub,        \* the sub-package it is at
    dirs,       \* package directory -> payload
    output,     \* file name -> artifact
    host,       \* the host of a deb build
    installed,  \* file names extracted to "/"
    compiled,   \* the architecture the run has compiled for, "" for not yet
    toolchainFile,  \* the toolchain file of CMake, <<>> for none
    run         \* number of the run

vars == <<world, pkgbuild, phase, sub, dirs, output, host, installed, compiled, toolchainFile, run>>

Target == world.targets[run]

Init ==
    /\ world \in Worlds
    /\ pkgbuild = New(world.distro, world.targets[1])
    /\ phase = "parse"
    /\ sub = 1
    /\ dirs = <<>>
    /\ output = <<>>
    /\ host = world.host
    /\ installed = {}
    /\ compiled = ""
    /\ toolchainFile = <<>>
    /\ run = 1

Fail == phase' = "failed"

\* populateProjects: parsed, then checked in this order.
PopulateProjects ==
    /\ phase = "parse"
    /\ LET p == ParseFile(world.distro, Target, world.file) IN
       /\ pkgbuild' = ComputeArchitecture(p)
       /\ IF ParseFails(world.file) \/ ~ArchitectureFits(p) \/ ~ValidateMandatoryItems(p)
             \/ ~ValidateGeneral(p)
          THEN Fail ELSE phase' = "sync"
    /\ UNCHANGED <<world, sub, dirs, output, host, installed, compiled, toolchainFile, run>>

\* Prepare and installRuntimeDeps of a cross build for deb, the indexes read anew
\* between them; the architectures are compared as Go and as yap name them, so any
\* target is a foreign one.
SyncDependencies ==
    /\ phase = "sync"
    /\ phase' = "prepare"
    /\ IF world.format # "deb" \/ Target = "" THEN UNCHANGED host
       ELSE LET target == TranslateArch("deb", Target) IN
            \E before \in {Cross!Reload(world.lists, host, world.stanzas)} :
            \E built \in {Cross!InstallCrossDeps(before, host, world.makeDepends, target)} :
            \E after \in {Cross!Reload(world.lists, built, world.stanzas)} :
                host' = Cross!DownloadAndExtractCrossDeps(after, built, world.depends, target)
    /\ UNCHANGED <<world, pkgbuild, sub, dirs, output, installed, compiled, toolchainFile, run>>

\* The variables a stage has: those of a cross build only where withCross says so;
\* they are made when a script is run, with the toolchain file.
Compile(p, withCross) ==
    \E env \in Tools!BuildCrossEnvSlice(world.format, p.archComputed,
                                        IF withCross THEN p.targetArch ELSE "", toolchainFile) :
        /\ toolchainFile' = IF env.cmake # <<>> THEN env.cmake ELSE toolchainFile
        /\ compiled' = IF compiled = "" THEN Tools!Compiled(world.system, env, HostArch) ELSE compiled

\* A stage without a function is passed over; its script may fail.
ProcessFunction(stage, next) ==
    /\ phase = stage
    /\ IF stage \in DOMAIN pkgbuild.functions
       THEN /\ phase' = next \/ Fail
            /\ IF stage = world.compiles THEN Compile(pkgbuild, stage = "build")
               ELSE UNCHANGED <<compiled, toolchainFile>>
       ELSE phase' = next /\ UNCHANGED <<compiled, toolchainFile>>
    /\ UNCHANGED <<world, pkgbuild, sub, dirs, output, host, installed, run>>

\* Where a package function of a name installs to.
SetPackageDir(p, name) == IF IsSplitPackage(p) \/ p.distro[1] = "alpine" THEN name ELSE "pkg"

\* What the script writes over what is there: it sees the name of the package, and
\* what is compiled.
Written(p, body, files, old) ==
    [f \in files \cup DOMAIN old |->
        IF f \in files THEN [of |-> p.pkgName, by |-> body, run |-> run, arch |-> compiled', state |-> "built"]
        ELSE old[f]]

\* A script that fails has written some of the files.
RunScriptInFakeroot(p, body, withCross, next) ==
    LET dir == SetPackageDir(p, p.pkgName)
        old == Get(dirs, dir, <<>>)
    IN  /\ Compile(p, withCross)
        /\ \/ /\ dirs' = Set(dirs, dir, Written(p, body, Installs[run], old))
              /\ next
           \/ /\ \E some \in SUBSET Installs[run] : dirs' = Set(dirs, dir, Written(p, body, some, old))
              /\ Fail /\ UNCHANGED sub

\* The package function of a project that makes one package.
CompileSinglePackage ==
    /\ phase = "package"
    /\ ~IsSplitPackage(pkgbuild)
    /\ RunScriptInFakeroot(pkgbuild, "package", TRUE, phase' = "create" /\ UNCHANGED sub)
    /\ UNCHANGED <<world, pkgbuild, output, host, installed, run>>

SubName == pkgbuild.pkgNames[sub]
OwnFunction(name) == Get(PackageFunction, name, "package_" )

NextSub(last) ==
    IF sub < Len(pkgbuild.pkgNames) THEN sub' = sub + 1 /\ UNCHANGED phase
    ELSE sub' = 1 /\ phase' = last

\* A sub-package without function of its own uses package(), or is passed over.
\* The overrides are those of the function that runs, which sees no cross tools.
CompileSplitPackages ==
    /\ phase = "package"
    /\ IsSplitPackage(pkgbuild)
    /\ LET own  == OwnFunction(SubName)
           body == IF own \in DOMAIN pkgbuild.functions THEN own ELSE "package"
           p    == ParseSplitOverrides(RestoreTopLevelOverrides([pkgbuild EXCEPT !.pkgName = SubName]),
                                       pkgbuild.functions[body])
       IN  IF body \notin DOMAIN pkgbuild.functions
           THEN NextSub("create") /\ UNCHANGED <<pkgbuild, dirs, compiled, toolchainFile>>
           ELSE pkgbuild' = p /\ RunScriptInFakeroot(p, body, FALSE, NextSub("create"))
    /\ UNCHANGED <<world, output, host, installed, run>>

\* Everything but deb stops at a package directory that is not there.
DirFails(dir) == dir \notin DOMAIN dirs /\ world.format # "deb"

\* One package from its directory: the artifact, or an error.
Make(p, dir) ==
    BuildPackage(world.format, Target,
                 PrepareFakeroot(world.format, p, Target, Get(dirs, dir, <<>>)))

\* What is in the output directory; run says which run has made it.
Artifact(made, signed) ==
    [metadata |-> made.metadata, sums |-> made.sums, payload |-> made.payload, signed |-> signed, run |-> run]

RunPostBuildHooks_Ignored(made, next) ==
    \E signed \in {world.sign, FALSE} :
        /\ output' = Set(output, made.file, Artifact(made, signed))
        /\ next

\* Signing that fails ends the run and leaves the artifact.
RunPostBuildHooks(made, next) ==
    \/ /\ output' = Set(output, made.file, Artifact(made, world.sign))
       /\ next
    \/ /\ world.sign
       /\ output' = Set(output, made.file, Artifact(made, FALSE))
       /\ Fail /\ UNCHANGED sub

CreateSinglePackage ==
    /\ phase = "create"
    /\ ~IsSplitPackage(pkgbuild)
    /\ LET dir  == SetPackageDir(pkgbuild, pkgbuild.pkgName)
           made == Make(pkgbuild, dir)
       IN  /\ pkgbuild' = made.pkgbuild
           /\ RunPostBuildHooks(made, phase' = "install" /\ UNCHANGED sub)
           /\ dirs' = Restrict(dirs, DOMAIN dirs \ {dir})
    /\ UNCHANGED <<world, host, installed, compiled, toolchainFile, run>>

\* The overrides of a sub-package that has a function, before its package is made.
CreateSplitPackages ==
    /\ phase = "create"
    /\ IsSplitPackage(pkgbuild)
    /\ LET own  == OwnFunction(SubName)
           top  == RestoreTopLevelOverrides([pkgbuild EXCEPT !.pkgName = SubName])
           p    == IF own \in DOMAIN pkgbuild.functions
                   THEN ParseSplitOverrides(top, pkgbuild.functions[own]) ELSE top
           dir  == SetPackageDir(p, SubName)
           made == Make(p, dir)
           kept == Restrict(dirs, DOMAIN dirs \ {dir})
       IN  IF DirFails(dir) THEN Fail /\ pkgbuild' = p /\ UNCHANGED <<sub, dirs, output>>
           ELSE /\ pkgbuild' = made.pkgbuild
                /\ RunPostBuildHooks(made, NextSub("install"))
                /\ dirs' = IF phase' = "failed" /\ world.format # "deb" THEN dirs ELSE kept
    /\ UNCHANGED <<world, host, installed, compiled, toolchainFile, run>>

\* InstallOrExtract looks for the name the PKGBUILD has now: that of the last one.
InstallPackage ==
    /\ phase = "install"
    /\ LET file == BuildPackageName(world.format, pkgbuild) IN
       IF ~world.install THEN phase' = "done" /\ UNCHANGED installed
       ELSE IF file \in DOMAIN output THEN phase' = "done" /\ installed' = installed \cup {file}
       ELSE Fail /\ UNCHANGED installed
    /\ UNCHANGED <<world, pkgbuild, sub, dirs, output, host, compiled, toolchainFile, run>>

\* Another run over the build and output directories of the last; the project may
\* have been edited to install other files.
RunAgain ==
    /\ phase \in {"failed", "done"}
    /\ run < MaxRuns
    /\ run' = run + 1
    /\ phase' = "parse"
    /\ sub' = 1
    /\ pkgbuild' = New(world.distro, world.targets[run + 1])
    /\ compiled' = ""
    /\ UNCHANGED <<world, dirs, output, host, installed, toolchainFile>>

Next ==
    \/ PopulateProjects
    \/ SyncDependencies
    \/ ProcessFunction("prepare", "build")
    \/ ProcessFunction("build", "check")
    \/ ProcessFunction("check", "package")
    \/ CompileSinglePackage
    \/ CompileSplitPackages
    \/ CreateSinglePackage
    \/ CreateSplitPackages
    \/ InstallPackage
    \/ RunAgain

Spec == Init /\ [][Next]_vars
-------------------------------------------------------------------------------
\* The PKGBUILD as a package alone would have it, for a target.
Own(name, target) ==
    LET top == ParseFile(world.distro, target, world.file)
        own == OwnFunction(name)
    IN  IF IsSplitPackage(top) /\ own \in DOMAIN top.functions
        THEN ParseSplitOverrides(top, top.functions[own]) ELSE top

WithForm(format, arrays) ==
    [k \in DOMAIN arrays |->
        IF \/ format = "deb" /\ k \in {"depends", "optdepends"}
           \/ format = "rpm" /\ k \in {"depends", "optdepends", "provides", "conflicts", "replaces"}
        THEN ProcessDependencies(format, arrays[k]) ELSE arrays[k]]

\* Whatever was packaged before it, in this run or another, an artifact carries the name, description,
\* dependencies, and so on that its own package function sets over those of the
\* file, its dependencies and its release are rewritten once, and its files were
\* installed for it (pkgbuild.go:558, project.go:546).
ArtifactsAreOwn ==
    \A file \in DOMAIN output :
        LET a == output[file]
            p == Own(a.metadata.name, world.targets[a.run])
        IN  /\ a.metadata.name = file[1]
            /\ a.metadata.suffix = FormatRelease(world.format, p).suffix
            /\ a.metadata.scriptlets = AddScriptlets(p)
            /\ a.metadata.strings = Fields(p.strings, OverrideStrings, "")
            /\ a.metadata.arrays = WithForm(world.format, Fields(p.arrays, OverrideArrays, <<>>))
            /\ \A f \in DOMAIN a.payload : a.payload[f].of = a.metadata.name

\* The statements of a name that count for the project.
Applicable(name) ==
    {n \in DOMAIN world.file : /\ world.file[n].name = name
                               /\ ~DirectiveFails(world.file[n])
                               /\ ParseDirective(pkgbuild, world.file[n]) # Skip}

PriorityAt(n) == ParseDirective(pkgbuild, world.file[n])

\* How many of some statements stand before one.
Rank(S, n) == Cardinality({m \in S : m < n})

\* The sources and their sums, of one kind, are declared in one order; the values of
\* a source and of its sum are the same here.
InOneOrder(file) ==
    LET sources == {n \in DOMAIN file : file[n].name = "source"}
        sums    == {n \in DOMAIN file : file[n].name \in Checksums}
    IN  /\ \A n \in DOMAIN file : file[n].name # "target_arch"
        /\ \A n \in sources \cup sums : file[n].kind = "array"
        /\ \A m, n \in sums : file[m].name = file[n].name
        /\ Cardinality(sources) = Cardinality(sums)
        /\ \A m \in sources, n \in sums : Rank(sources, m) = Rank(sums, n) =>
              file[m].arch = file[n].arch /\ file[m].distros = file[n].distros /\ file[m].value = file[n].value

\* Of the variants of a function the last of the most specific ones is run,
\* wherever it stands in the file, and every source has the checksum of its own
\* variant if both are declared in one order (pkgbuild.go:202).
VariantsApply ==
    phase \in {"sync", "prepare", "build", "check"} =>
        /\ \A name \in StageFunctions : Applicable(name) # {} =>
              LET best == {n \in Applicable(name) :
                              \A m \in Applicable(name) :
                                  PriorityAt(m) < PriorityAt(n) \/ (PriorityAt(m) = PriorityAt(n) /\ m <= n)}
              IN  \A n \in best : pkgbuild.functions[name] = world.file[n].value
        /\ InOneOrder(world.file) => pkgbuild.sourceURI = pkgbuild.hashSums

\* What is installed on the host for the host, by dpkg or by yap, before or in a run,
\* stays at its paths, unless packages of its name share none with each other.  What the sysroot has of the target has what it
\* depends on in the sysroot or installed, if there is such a package for the target
\* (cross.go:643).
CrossDepsStayApart ==
    LET target == TranslateArch("deb", Target)
        Needs(c, key) == {<<d, target>> : d \in ToSet(c.entries[key].depends)} \cap DOMAIN c.entries
    IN  /\ \A key \in host.installed \cup host.recorded :
              key[2] \in {"", HostDebArch} /\ key[1] \in DOMAIN host.paths =>
                  host.paths[key[1]] \in {"", "all", HostDebArch}
        /\ target # HostDebArch =>
              \A c \in {Cross!Reload(world.lists, host, world.stanzas)} :
                  \A key \in host.sysroot : c.entries[key].arch = target =>
                      \A need \in Needs(c, key) :
                          \/ need \in host.sysroot \cup host.installed
                          \/ c.entries[need].multiArch \in {"foreign", "allowed"}

\* A run that ends well leaves the artifact of every package that has a function,
\* signed if that was asked for, with what was installed for it in this run, which
\* build(), or package() of a single package, compiled for the target; but for
\* CMake see BuiltForTarget (builder.go:130, cross.go:982).
SuccessIsDelivered ==
    phase = "done" =>
        \A name \in (IF IsSplitPackage(pkgbuild) THEN ToSet(pkgbuild.pkgNames) ELSE {pkgbuild.pkgName}) :
            OwnFunction(name) \in DOMAIN pkgbuild.functions \/ "package" \in DOMAIN pkgbuild.functions =>
                \E file \in DOMAIN output :
                    /\ output[file].metadata.name = name
                    /\ output[file].signed = world.sign
                    /\ \E f \in DOMAIN output[file].payload :
                          /\ output[file].payload[f].run = run
                          /\ \/ world.system = "cmake"
                             \/ IsSplitPackage(pkgbuild) /\ world.compiles # "build"
                             \/ output[file].payload[f].arch = EffectiveArch(pkgbuild)

\* What CMake compiles in build() is for the target, in each of two runs with
\* different targets (cross.go:1252).
BuiltForTarget ==
    phase = "done" /\ world.system = "cmake" /\ world.compiles = "build" =>
        \A file \in DOMAIN output : \A f \in DOMAIN output[file].payload :
            output[file].payload[f].run = run => output[file].payload[f].arch = EffectiveArch(pkgbuild)

\* A package for any architecture is one for every target: it says so in the name
\* the format has for it (interface.go:131).
AnyStaysAny ==
    Contains(Get(pkgbuild.arrays, "arch", <<>>), "any") =>
        \A file \in DOMAIN output : file[4] = TranslateArch(world.format, "any")

\* The sums a deb carries are those of the files it carries (dpkg.go:483).
SumsMatchFiles ==
    \A file \in DOMAIN output : \A f \in DOMAIN output[file].sums :
        f \in DOMAIN output[file].payload /\ output[file].sums[f] = output[file].payload[f]

\* An override with a suffix applies wherever the suffix does (pkgbuild.go:608).
SubPackageVariantsApply ==
    \A file \in DOMAIN output :
        LET own == OwnFunction(output[file].metadata.name) IN
        own \in DOMAIN pkgbuild.functions =>
            \A n \in DOMAIN pkgbuild.functions[own] :
                LET s == pkgbuild.functions[own][n] IN
                s.name = "pkgdesc" /\ ParseDirective(pkgbuild, s) > Base =>
                    output[file].metadata.strings["pkgdesc"] = s.value

\* The options of a sub-package are those it and the file set (pkgbuild.go:578).
OptionsAreOwn ==
    \A file \in DOMAIN output :
        LET p == Own(output[file].metadata.name, world.targets[output[file].run]) IN
        "bin" \in DOMAIN output[file].payload /\ output[file].payload["bin"].arch = HostArch =>
            (output[file].payload["bin"].state = "stripped") = p.flags.strip

\* No file of an earlier run is packaged (project.go:516).
NothingLeftOver ==
    \A file \in DOMAIN output :
        Cardinality({output[file].payload[f].run : f \in DOMAIN output[file].payload}) <= 1

\* What was built can be installed (interface.go:101).
InstallFindsArtifact ==
    [][phase = "install" => phase' # "failed"]_vars
===============================================================================
