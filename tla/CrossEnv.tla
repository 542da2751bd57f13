------------------------------- MODULE CrossEnv -------------------------------
(* What a script sees when it builds for another architecture: the toolchain of *)
(* the format's representative distribution, the variables for compilers and    *)
(* build systems, and the toolchain file of CMake, which stays in the temporary *)
(* directory.  A tool stands for the architecture it emits code for.            *)
EXTENDS FiniteSets, Sequences, Functions

CONSTANT Triplet    \* architecture -> the triplet of its tools

HostTools == "host"

Distros == {"debian", "ubuntu", "fedora", "arch"}

\* The prefix in the names of the packages.
ArchPattern(arch, distro) ==
    CASE distro = "arch" /\ arch = "i686" -> "multilib"
      [] distro = "fedora" /\ arch = "s390x" -> "s390x-redhat-linux"
      [] OTHER -> Triplet[arch]

\* No distribution's are for Alpine.
CrossToolchainMap ==
    [arch \in DOMAIN Triplet |->
        [distro \in Distros |->
            [gcc |-> <<"gcc", ArchPattern(arch, distro)>>, gpp |-> <<"g++", ArchPattern(arch, distro)>>,
             binutils |-> <<"binutils", ArchPattern(arch, distro)>>,
             additional |-> IF distro \in {"debian", "ubuntu"} THEN {<<"libc6-dev", arch>>} ELSE {}]]]

FormatToDistro == [deb |-> "debian", rpm |-> "fedora", apk |-> "alpine", pacman |-> "arch"]

\* The toolchains it may be: any one for a distribution without its own.
ResolveToolchainPackages(format, targetArch) ==
    IF targetArch \notin DOMAIN CrossToolchainMap THEN {}
    ELSE IF FormatToDistro[format] \in Distros
    THEN {CrossToolchainMap[targetArch][FormatToDistro[format]]}
    ELSE Range(CrossToolchainMap[targetArch])

GetAllPackages(toolchain) == {toolchain.gcc, toolchain.gpp, toolchain.binutils} \cup toolchain.additional

GetCrossCompilerDependencies(format, targetArch) ==
    IF FormatToDistro[format] \in Distros /\ targetArch \in DOMAIN CrossToolchainMap
    THEN GetAllPackages(CrossToolchainMap[targetArch][FormatToDistro[format]]) ELSE {}

\* The prefix is that of the executable.
GetExecutableName(package) == package[2]
BinutilsPrefix(toolchain) == toolchain.binutils[2]

BuildCrossParams(targetArch, toolchain) ==
    [cc |-> GetExecutableName(toolchain.gcc), ar |-> BinutilsPrefix(toolchain),
     rust |-> targetArch, go |-> targetArch, host |-> Triplet[targetArch]]

\* A file that is there stays, whatever architecture it is for.
WriteCMakeToolchainFile(existing, params) == IF existing = <<>> THEN <<params.cc>> ELSE existing

NativeEnv == [cc |-> HostTools, ar |-> HostTools, cmake |-> <<>>, go |-> HostTools, rust |-> HostTools,
              configure |-> HostTools]

\* ccache takes the place of the host's compilers.
BuildCcacheEnvSlice(env) == [env EXCEPT !.cc = HostTools]

CrossCCEnv(env, params, toolchainFile) ==
    [env EXCEPT !.cc = params.cc, !.ar = params.ar,
                !.cmake = WriteCMakeToolchainFile(toolchainFile, params)]
CrossRustEnv(env, params) == [env EXCEPT !.rust = params.rust]
CrossGoEnv(env, params) == [env EXCEPT !.go = params.go]
CrossAutotoolsEnv(env, params) == [env EXCEPT !.configure = params.host]

\* The variables of a script, one set for each toolchain it may be.
BuildCrossEnvSlice(format, archComputed, targetArch, toolchainFile) ==
    IF targetArch \in {"", archComputed} \/ ResolveToolchainPackages(format, targetArch) = {}
    THEN {BuildCcacheEnvSlice(NativeEnv)}
    ELSE {LET params == BuildCrossParams(targetArch, t) IN
          CrossAutotoolsEnv(CrossGoEnv(CrossRustEnv(
              CrossCCEnv(BuildCcacheEnvSlice(NativeEnv), params, toolchainFile), params), params), params) :
              t \in ResolveToolchainPackages(format, targetArch)}

\* The architecture a build system compiles for.
Emits(prefix, arch) == prefix = arch \/ \E distro \in Distros : prefix = ArchPattern(arch, distro)

ArchOf(prefix, HostArch) ==
    IF prefix = HostTools THEN HostArch ELSE CHOOSE arch \in DOMAIN Triplet : Emits(prefix, arch)

Compiled(system, env, HostArch) ==
    CASE system = "make" -> ArchOf(env.cc, HostArch)
      [] system = "cmake" -> ArchOf(IF env.cmake = <<>> THEN HostTools ELSE env.cmake[1], HostArch)
      [] system = "go" -> ArchOf(env.go, HostArch)
      [] system = "cargo" -> ArchOf(env.rust, HostArch)
===============================================================================
