---------------------------- MODULE PackageFormats ----------------------------
(* The four package builders: what PrepareFakeroot and BuildPackage make of a   *)
(* PKGBUILD and of the files its package function installed.  A payload is a    *)
(* function from files to records [of, run, arch, state]: whose function wrote  *)
(* the file, in which run, for which architecture, and what was done to it.     *)
EXTENDS Pkgbuild

ArchMapping ==
    [apk |-> [x86_64 |-> "x86_64", i686 |-> "x86", aarch64 |-> "aarch64", any |-> "all"],
     deb |-> [x86_64 |-> "amd64", i686 |-> "i386", aarch64 |-> "arm64", any |-> "all"],
     rpm |-> [x86_64 |-> "x86_64", i686 |-> "i686", aarch64 |-> "aarch64", any |-> "noarch"],
     pacman |-> [x86_64 |-> "x86_64", i686 |-> "i686", aarch64 |-> "aarch64", any |-> "any"]]

\* A name without translation stays.
TranslateArch(format, arch) == Get(ArchMapping[format], arch, arch)

\* "any" is kept, what it is translated to is not.
SetTargetArchitecture(format, p, targetArch) ==
    [p EXCEPT !.archComputed =
        TranslateArch(format, IF targetArch # "" /\ @ # "any" THEN targetArch ELSE @)]

\* Distributions whose rpm releases are marked.
RPMDistros == {"fedora", "rocky"}

\* The codename, or the distribution, is added to the release, and only once.
FormatRelease(format, p) ==
    CASE format = "deb" ->
            [p EXCEPT !.suffix = IF p.distro[2] # "" THEN p.distro[2] ELSE p.distro[1]]
      [] format = "rpm" /\ p.distro[2] # "" /\ p.distro[1] \in RPMDistros ->
            [p EXCEPT !.suffix = p.distro[2]]
      [] OTHER -> p

\* A dependency is a record [name, versioned, form]; form counts how often it was
\* rewritten as the format writes constraints.
ProcessDependencies(format, depends) ==
    [n \in DOMAIN depends |->
        IF depends[n].versioned /\ format \in {"deb", "rpm"}
        THEN [depends[n] EXCEPT !.form = @ + 1] ELSE depends[n]]

\* Epochs are part of the names of some formats.
BuildPackageName(format, p) ==
    <<p.pkgName, IF format \in {"rpm", "pacman"} THEN Get(p.strings, "epoch", "") ELSE "",
      p.suffix, p.archComputed, format>>

\* Without a foreign target, by the name the format gives it, the host's tools are used.
BuildCrossStripEnvSlice(p, targetArch) == targetArch \notin {"", p.archComputed}

\* Without cross tools a binary of another architecture stays as it is.
StripWithEnv(payload, cross) ==
    [f \in DOMAIN payload |->
        IF f = "bin" /\ (cross \/ payload[f].arch = HostArch)
        THEN [payload[f] EXCEPT !.state = "stripped"] ELSE payload[f]]

Without(payload, files) == Restrict(payload, DOMAIN payload \ files)

\* A page is compressed under a new name.
ZipMan(payload) ==
    IF "man" \notin DOMAIN payload THEN payload
    ELSE Set(Without(payload, {"man"}), "man.gz", [payload["man"] EXCEPT !.state = "compressed"])

\* The options in the order they are applied.
ApplyWithEnv(flags, payload, cross) ==
    LET stripped == IF flags.strip THEN StripWithEnv(payload, cross) ELSE payload
        gone     == (IF flags.docs THEN {} ELSE {"doc"}) \cup (IF flags.libtool THEN {} ELSE {"la"})
                      \cup (IF flags.staticlibs THEN {} ELSE {"lib.a"})
                      \cup (IF flags.purge THEN {"pod"} ELSE {})
                      \cup (IF flags.emptydirs THEN {} ELSE {"emptydir"})
        kept     == Without(stripped, gone)
    IN  IF flags.zipman THEN ZipMan(kept) ELSE kept

\* The scripts of the maintainer: those of the file, whichever package it is.
Scriptlets == {"preinst", "postinst", "prerm", "postrm"}

AddScriptlets(p) == Fields(p.functions, Scriptlets, <<>>)

\* What the metadata of a package says.
Metadata(p) ==
    [name |-> p.pkgName, arch |-> p.archComputed, suffix |-> p.suffix,
     scriptlets |-> AddScriptlets(p),
     strings |-> Fields(p.strings, OverrideStrings, ""), arrays |-> Fields(p.arrays, OverrideArrays, <<>>)]

NoControl == [metadata |-> <<>>, sums |-> <<>>]

Directories == {"emptydir"}

\* A checksum stands for the file it was taken of; directories have none.
CreateMd5sums(payload) == Without(payload, Directories)

\* deb: the control files are written, with the sums of all files, before the
\* options are applied.
DebResources(p) ==
    [p EXCEPT !.arrays =
        [k \in DOMAIN @ |-> IF k \in {"depends", "makedepends", "optdepends"}
                            THEN ProcessDependencies("deb", p.arrays[k]) ELSE p.arrays[k]]]

DebPrepareFakeroot(p, targetArch, payload) ==
    LET q == DebResources(SetTargetArchitecture("deb", FormatRelease("deb", p), targetArch)) IN
    [pkgbuild |-> q, control |-> [metadata |-> <<Metadata(q)>>, sums |-> <<CreateMd5sums(payload)>>],
     payload |-> ApplyWithEnv(q.flags, payload, BuildCrossStripEnvSlice(q, targetArch))]

CreateDeb(control, payload) ==
    [metadata |-> control.metadata[1], sums |-> control.sums[1], payload |-> payload]

DebBuildPackage(p, control, payload) ==
    LET deb == CreateDeb(control, payload) IN
    [pkgbuild |-> p, file |-> BuildPackageName("deb", p),
     metadata |-> deb.metadata, sums |-> deb.sums, payload |-> deb.payload]

\* rpm: the section becomes the group of that name, "" for an unknown one.
RPMGroups == [devel |-> "Development", net |-> "Networking"]

GetGroup(p) == [p EXCEPT !.strings = Set(@, "section", Get(RPMGroups, Get(@, "section", ""), ""))]

RpmPrepareFakeroot(p, targetArch, payload) ==
    LET q == SetTargetArchitecture("rpm", FormatRelease("rpm", GetGroup(p)), targetArch) IN
    [pkgbuild |-> q, control |-> NoControl, payload |-> ApplyWithEnv(q.flags, payload, BuildCrossStripEnvSlice(q, targetArch))]

\* An entry for each file and each empty directory, the files with their digests.
CreateFilesInsideRPM(payload) == [payload |-> payload, sums |-> Without(payload, Directories)]

\* Its file name is its own, without the epoch; the digests are those of the files.
RpmBuildPackage(p, targetArch, payload) ==
    LET q   == SetTargetArchitecture("rpm", p, targetArch)
        m   == Metadata(q)
        rpm == CreateFilesInsideRPM(payload)
    IN  [pkgbuild |-> q, file |-> [BuildPackageName("rpm", q) EXCEPT ![2] = ""],
         metadata |-> [m EXCEPT !.arrays =
            [k \in DOMAIN @ |-> IF k \in {"depends", "optdepends", "provides", "conflicts", "replaces"}
                                THEN ProcessDependencies("rpm", m.arrays[k]) ELSE m.arrays[k]]],
         sums |-> rpm.sums, payload |-> rpm.payload]

\* apk: the first package of a file is the origin of all; no options are applied.
ApkPrepareFakeroot(p, targetArch, payload) ==
    LET q == SetTargetArchitecture("apk", p, targetArch) IN
    [pkgbuild |-> [q EXCEPT !.strings = IF Get(@, "origin", "") = "" THEN Set(@, "origin", q.pkgName) ELSE @],
     control |-> NoControl, payload |-> payload]

\* Every regular file goes into the archive with its checksum, then .PKGINFO is
\* written again with the hash of the data.
WriteFileWithChecksum(payload) == Without(payload, Directories)

CreateTarGzWithChecksums(payload) == [sums |-> WriteFileWithChecksum(payload), payload |-> payload]

ApkBuildPackage(p, targetArch, payload) ==
    LET q    == SetTargetArchitecture("apk", p, targetArch)
        data == CreateTarGzWithChecksums(payload)
    IN  [pkgbuild |-> q, file |-> BuildPackageName("apk", q), metadata |-> Metadata(q),
         sums |-> data.sums, payload |-> data.payload]

\* .MTREE lists directories too.
WriteMTREE(payload) == payload

\* pacman: .PKGINFO is written before the architecture is set, .MTREE after the
\* options are applied.
PacmanPrepareFakeroot(p, targetArch, payload) ==
    LET made == ApplyWithEnv(p.flags, payload, BuildCrossStripEnvSlice(p, targetArch)) IN
    [pkgbuild |-> p, payload |-> made, control |-> [metadata |-> <<Metadata(p)>>, sums |-> <<WriteMTREE(made)>>]]

PacmanBuildPackage(p, control, targetArch, payload) ==
    LET q == SetTargetArchitecture("pacman", p, targetArch) IN
    [pkgbuild |-> q, file |-> BuildPackageName("pacman", q), metadata |-> control.metadata[1],
     sums |-> control.sums[1], payload |-> payload]

PrepareFakeroot(format, p, targetArch, payload) ==
    CASE format = "deb" -> DebPrepareFakeroot(p, targetArch, payload)
      [] format = "rpm" -> RpmPrepareFakeroot(p, targetArch, payload)
      [] format = "apk" -> ApkPrepareFakeroot(p, targetArch, payload)
      [] format = "pacman" -> PacmanPrepareFakeroot(p, targetArch, payload)

\* After PrepareFakeroot has returned made.
BuildPackage(format, targetArch, made) ==
    CASE format = "deb" -> DebBuildPackage(made.pkgbuild, made.control, made.payload)
      [] format = "rpm" -> RpmBuildPackage(made.pkgbuild, targetArch, made.payload)
      [] format = "apk" -> ApkBuildPackage(made.pkgbuild, targetArch, made.payload)
      [] format = "pacman" ->
            PacmanBuildPackage(made.pkgbuild, made.control, targetArch, made.payload)
===============================================================================
