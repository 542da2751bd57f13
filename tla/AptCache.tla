------------------------------- MODULE AptCache -------------------------------
(* aptcache: the index apt's lists and dpkg's status are read into, and the     *)
(* resolution of dependencies over it.  A stanza is a record [name, arch,       *)
(* version, depends, preDepends, provides, multiArch, installed, file]; file    *)
(* stands for Filename, SHA256 and Size, and is "" in dpkg's status; a version  *)
(* is a string of bytes, <<>> if there is none; a dependency is a record        *)
(* [kind, names] whose names are alternatives.                                  *)
EXTENDS DebVersion, Visitor

CONSTANT HostArch

Dependency == [kind : {"plain", "or"}, names : Seq(STRING) \ {<<>>}]

Stanza ==
    [name : STRING, arch : STRING, version : Seq(Byte), depends : Seq(Dependency),
     preDepends : Seq(Dependency), provides : Seq(STRING), multiArch : STRING,
     installed : BOOLEAN, file : STRING]

EntryKey(name, arch) == <<name, IF arch \in {"", "all"} THEN "" ELSE arch>>

Fresh(name) ==
    [name |-> name, arch |-> "", multiArch |-> "", installed |-> FALSE, candidate |-> FALSE,
     version |-> <<>>, file |-> "", repo |-> "", depends |-> <<>>, preDepends |-> <<>>]

NewEmptyCache == [entries |-> <<>>, providers |-> <<>>, byBareName |-> <<>>]

\* f[x], or the empty sequence.
At(f, x) == IF x \in DOMAIN f THEN f[x] ELSE <<>>
Put(f, x, y) == [z \in DOMAIN f \cup {x} |-> IF z = x THEN y ELSE f[z]]

\* The first alternative of each, without constraint or architecture.
ParseDependsField(field) == [n \in DOMAIN field |-> field[n].names[1]]

\* A field the newer stanza does not have stays as it was.
CopyStanzaArtifacts(e, s, repo) ==
    [e EXCEPT !.version = s.version,
              !.file = IF s.file # "" THEN s.file ELSE @,
              !.repo = IF repo # "" THEN repo ELSE @,
              !.depends = IF s.depends # <<>> THEN ParseDependsField(s.depends) ELSE @,
              !.preDepends = IF s.preDepends # <<>> THEN ParseDependsField(s.preDepends) ELSE @]

MergePackageInfo(e, s, dpkgStatus, repo) ==
    LET seen == [e EXCEPT !.name = s.name,
                          !.arch = IF s.arch # "" THEN s.arch ELSE @,
                          !.multiArch = IF s.multiArch # "" THEN s.multiArch ELSE @,
                          !.installed = @ \/ (dpkgStatus /\ s.installed),
                          !.candidate = @ \/ s.version # <<>>]
    IN  IF s.version = <<>> \/ (e.version # <<>> /\ CompareDebVersion(s.version, e.version) <= 0)
        THEN seen ELSE CopyStanzaArtifacts(seen, s, repo)

FlushProvides(c, s) ==
    [c EXCEPT !.providers =
        [virtual \in DOMAIN @ \cup Range(s.provides) |->
            At(@, virtual) \o [n \in DOMAIN Kept(s.provides, {virtual}) |-> s.name]]]

AddToBareName(c, name, key) ==
    IF key[2] = "" THEN c
    ELSE [c EXCEPT !.byBareName = Put(@, name, Append(At(@, name), key))]

FlushStanza(c, s, dpkgStatus, repo) ==
    LET key == EntryKey(s.name, s.arch)
        old == IF key \in DOMAIN c.entries THEN c.entries[key] ELSE Fresh(s.name)
        new == [c EXCEPT !.entries = Put(@, key, MergePackageInfo(old, s, dpkgStatus, repo))]
    IN  AddToBareName(FlushProvides(new, s), s.name, key)

\* parseFile and parseDeb822; what cannot be read is passed over.
ParseFile(c, stanzas, dpkgStatus, repo) ==
    LET parsed[n \in 0..Len(stanzas)] ==
          IF n = 0 THEN c ELSE FlushStanza(parsed[n - 1], stanzas[n], dpkgStatus, repo)
    IN  parsed[Len(stanzas)]

InfoArtifactsWin(existing, info) ==
    CASE existing.version = <<>> /\ info.version = <<>> ->
            info.file # "" \/ info.depends # <<>> \/ info.preDepends # <<>>
      [] existing.version = <<>> /\ info.version # <<>> -> TRUE
      [] existing.version # <<>> /\ info.version = <<>> -> FALSE
      [] OTHER -> CompareDebVersion(info.version, existing.version) >= 0

\* The repository's URL follows the file only if the package has an architecture.
CopyInfoArtifacts(existing, info) ==
    [existing EXCEPT
        !.version = IF info.version # <<>> THEN info.version ELSE @,
        !.file = IF info.file # "" THEN info.file ELSE @,
        !.repo = IF info.file # "" /\ info.repo # "" /\ info.arch \notin {"", "all"}
                 THEN info.repo ELSE @,
        !.depends = IF info.depends # <<>> THEN info.depends ELSE @,
        !.preDepends = IF info.preDepends # <<>> THEN info.preDepends ELSE @]

MergeEntryFields_AnyVersion(existing, info) ==
    LET merged == [existing EXCEPT
                     !.arch = IF info.arch # "" THEN info.arch ELSE @,
                     !.multiArch = IF info.multiArch # "" THEN info.multiArch ELSE @,
                     !.candidate = @ \/ info.candidate]
    IN  CopyInfoArtifacts(merged, info)

MergeEntryFields(existing, info) ==
    LET merged == [existing EXCEPT
                     !.arch = IF info.arch # "" THEN info.arch ELSE @,
                     !.multiArch = IF info.multiArch # "" THEN info.multiArch ELSE @,
                     !.candidate = @ \/ info.candidate]
    IN  IF InfoArtifactsWin(existing, info) THEN CopyInfoArtifacts(merged, info) ELSE merged

\* Entries the cache has are merged, others are taken over with their bare names.
MergeFrom(c, other) ==
    LET new == DOMAIN other.entries \ DOMAIN c.entries IN
    [entries |-> [key \in DOMAIN c.entries \cup new |->
                    IF key \in new THEN other.entries[key]
                    ELSE IF key \in DOMAIN other.entries
                    THEN MergeEntryFields(c.entries[key], other.entries[key])
                    ELSE c.entries[key]],
     providers |-> [v \in DOMAIN c.providers \cup DOMAIN other.providers |->
                      At(c.providers, v) \o At(other.providers, v)],
     byBareName |-> [n \in DOMAIN c.byBareName \cup {key[1] : key \in {x \in new : x[2] # ""}} |->
                       At(c.byBareName, n)
                         \o (IF \E key \in new : key[1] = n THEN At(other.byBareName, n) ELSE <<>>)]]

\* Each file is parsed into a cache of its own, in any order and at once; they are
\* merged in the order of the directory.
LoadAptLists(c, lists) ==
    LET merged[n \in 0..Len(lists)] ==
          IF n = 0 THEN c
          ELSE MergeFrom(merged[n - 1], ParseFile(NewEmptyCache, lists[n].stanzas, FALSE, lists[n].repo))
    IN  merged[Len(lists)]

LoadDpkgStatus(c, status) == ParseFile(c, status, TRUE, "")

LoadFromDisk(lists, status) == LoadDpkgStatus(LoadAptLists(NewEmptyCache, lists), status)

\* The keys a name may be found under, the first that exists counts.
ScanEntryByName(c, name) == IF At(c.byBareName, name) = <<>> THEN <<>> ELSE <<c.byBareName[name][1]>>
Candidates(c, name, arch) ==
    Kept(<<EntryKey(name, arch), <<name, "">>, <<name, HostArch>>>> \o ScanEntryByName(c, name),
         DOMAIN c.entries)

\* Lookup tries the bare name before the host's architecture.
Lookup(c, name) ==
    Kept(<<<<name, "">>, <<name, HostArch>>>> \o ScanEntryByName(c, name), DOMAIN c.entries)

\* A package that serves every architecture is taken from the host's.
RedirectForeignToHost(c, key, name, arch) ==
    IF c.entries[key].multiArch \in {"foreign", "allowed"} /\ arch # HostArch
       /\ EntryKey(name, HostArch) \in DOMAIN c.entries
    THEN [key |-> EntryKey(name, HostArch), arch |-> HostArch]
    ELSE [key |-> key, arch |-> arch]

VisitState ==
    [seen : SUBSET (STRING \X STRING), order : Seq(STRING \X STRING), unresolved : Seq(STRING)]

\* A node is a name and the architecture it is asked for, "" for the host's.  What a
\* package needs is asked for its own architecture.
Graph(c) ==
    [node \in STRING \X STRING |->
        LET name  == node[1]
            arch  == IF node[2] = "" THEN HostArch ELSE node[2]
            found == Candidates(c, name, arch)
            to    == RedirectForeignToHost(c, found[1], name, arch)
            info  == c.entries[to.key]
            below == IF info.arch \notin {"", "all"} THEN info.arch ELSE to.arch
            deps  == info.preDepends \o info.depends
        IN  [mark   |-> EntryKey(name, arch),
             next   |-> IF found # <<>> THEN [n \in DOMAIN deps |-> <<deps[n], below>>]
                        ELSE IF At(c.providers, name) # <<>> THEN <<<<c.providers[name][1], arch>>>>
                        ELSE <<>>,
             adds   |-> IF found # <<>> /\ ~info.installed THEN <<to.key>> ELSE <<>>,
             misses |-> IF found = <<>> /\ At(c.providers, name) = <<>> THEN <<name>> ELSE <<>>]]

ResolveDeps(c, seeds) == VisitAll(VisitState, Graph(c), seeds)

FilterForeignArchPackages_HostOnly(c, order) ==
    Kept(order, {key \in Range(order) : c.entries[key].arch \in {"", "all", HostArch}})

\* What aptinstall keeps of the closure: what runs on the host, and libraries
\* that can be installed for several architectures.
FilterForeignArchPackages(c, order) ==
    Kept(order, {key \in Range(order) : \/ c.entries[key].arch \in {"", "all", HostArch}
                                        \/ c.entries[key].multiArch = "same"})

\* A seed without architecture that has no candidate stands for its first provider.
ResolveVirtual(c, seed) ==
    LET own == {<<seed[1], "">>, <<seed[1], HostArch>>} \cap DOMAIN c.entries IN
    IF seed[2] # "" \/ (\E key \in own : c.entries[key].candidate) \/ At(c.providers, seed[1]) = <<>>
    THEN seed ELSE <<c.providers[seed[1]][1], "">>

\* filterInstalledDEB: the names, with architecture, that an installation must be
\* asked for; a foreign one always.
FilterInstalledDEB(c, seeds) ==
    Kept(seeds, {seed \in Range(seeds) :
        \/ seed[2] \notin {"", HostArch}
        \/ Lookup(c, seed[1]) = <<>>
        \/ ~c.entries[Lookup(c, seed[1])[1]].installed})
================================================================================
