------------------------------- MODULE CrossDeps ------------------------------
(* The dependencies of a deb build for another architecture: which of them are  *)
(* installed on the host, which are asked for in the target's architecture, and *)
(* where the packages of the closure are extracted to.  A seed is a pair of a   *)
(* name and an architecture, "" for none.                                       *)
EXTENDS AptCache

CONSTANTS
    PerlModules,    \* names that end in "-perl"
    Essential       \* names of essential packages

\* What a single copy on the host serves.
ServedByHost(c, name, mode) ==
    \/ name \in PerlModules
    \/ /\ Lookup(c, name) # <<>>
       /\ LET info == c.entries[Lookup(c, name)[1]] IN
          \/ info.arch = "all" \/ name \in Essential
          \/ info.multiArch \in {"foreign", "allowed"}
          \/ mode = "install" /\ info.multiArch # "same" /\ info.installed

PartitionArchAllDeps(c, deps, mode) ==
    LET served == {d \in Range(deps) : ServedByHost(c, d[1], mode)} IN
    [archSpecific |-> Kept(deps, Range(deps) \ served), archAll |-> Kept(deps, served)]

\* A dependency that names its architecture keeps it.
QualifyDepsForTargetArch(deps, targetArch) ==
    [n \in DOMAIN deps |-> IF deps[n][2] = "" THEN <<deps[n][1], targetArch>> ELSE deps[n]]

\* GetDepends: the plan of an installation, in order.
InstallPlan(c, deps) ==
    FilterForeignArchPackages(c,
        ResolveDeps(c, [n \in DOMAIN FilterInstalledDEB(c, deps) |->
                            ResolveVirtual(c, FilterInstalledDEB(c, deps)[n])]).order)

\* A host is what dpkg's status says is installed, what yap has recorded in its own
\* database, both by key, and whose files are at the paths of a name in "/" and in the
\* sysroot.
\* Packages of several architectures at once share no paths; of others of one name
\* the last is there.
Unpack(c, paths, plan) ==
    LET own == Kept(plan, {key \in Range(plan) : c.entries[key].multiArch # "same"})
        Last(name) == CHOOSE n \in DOMAIN own :
            own[n][1] = name /\ \A m \in DOMAIN own : own[m][1] = name => m <= n
        names == {own[n][1] : n \in DOMAIN own}
    IN  [name \in DOMAIN paths \cup names |->
            IF name \in names THEN c.entries[own[Last(name)]].arch ELSE paths[name]]

\* The unqualified dependencies are installed first, both lists as packages.  They are
\* recorded in yap's database only: dpkg's status stays as it is (aptinstall.go:51).
InstallCrossDeps(c, host, makeDepends, targetArch) ==
    LET parts == PartitionArchAllDeps(c, makeDepends, "install")
        plan  == InstallPlan(c, parts.archAll)
                   \o InstallPlan(c, QualifyDepsForTargetArch(parts.archSpecific, targetArch))
    IN  [host EXCEPT !.recorded = @ \cup Range(plan), !.paths = Unpack(c, @, plan)]

HostInstalledNames_StatusOnly(host) == {key[1] : key \in host.installed}

\* Names from dpkg and from yap's own database, which keeps of a name the row that
\* was recorded last.
HostInstalledNames(host) == {key[1] : key \in host.installed \cup host.recorded}

\* Never over a package of the host.
CrossDepDestinations(info, isSeed, installedNames) ==
    IF info.arch = HostArch \/ (info.arch = "all" /\ ~isSeed) THEN {}
    ELSE IF info.name \in installedNames THEN {"sysroot"} ELSE {"sysroot", "root"}

\* What has no file is passed over.
ExtractCrossDeps(c, host, resolved, seedNames) ==
    LET To(key) == IF c.entries[key].file = "" THEN {}
                   ELSE CrossDepDestinations(c.entries[key], key[1] \in seedNames, HostInstalledNames(host))
    IN  [host EXCEPT
            !.sysroot = @ \cup {key \in Range(resolved) : "sysroot" \in To(key)},
            !.paths = Unpack(c, @, Kept(resolved, {key \in Range(resolved) : "root" \in To(key)}))]

\* The closure of the qualified and the unqualified dependencies is downloaded;
\* what cannot be resolved is only reported.
DownloadAndExtractCrossDeps(c, host, deps, targetArch) ==
    LET parts == PartitionArchAllDeps(c, deps, "extract")
        seeds == parts.archAll \o QualifyDepsForTargetArch(parts.archSpecific, targetArch)
    IN  IF seeds = <<>> THEN host
        ELSE ExtractCrossDeps(c, host, ResolveDeps(c, seeds).order,
                              {seeds[n][1] : n \in DOMAIN seeds})

\* Reload: the status is dpkg's, which does not know what yap has recorded.
Reload(lists, host, stanzas) ==
    LoadFromDisk(lists, Kept(stanzas, {s \in Range(stanzas) : EntryKey(s.name, s.arch) \in host.installed}))
===============================================================================
