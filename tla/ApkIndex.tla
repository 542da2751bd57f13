------------------------------- MODULE ApkIndex -------------------------------
(* apkindex: the indexes of Alpine repositories and the resolution over them.   *)
(* A package is a record [name, version, repo, depends, provides]; a dependency *)
(* is a record [kind, names], "conflict" for "!name" and "path" for "/file".    *)
EXTENDS Visitor, Functions

NewIndex == [packages |-> <<>>, providers |-> <<>>]

At(f, x) == IF x \in DOMAIN f THEN f[x] ELSE <<>>

\* The first of a name wins, all that provide a capability are kept, in order.
FlushAPKPackage(idx, p) ==
    LET caps == {p.provides[n] : n \in DOMAIN p.provides} IN
    [packages  |-> [n \in DOMAIN idx.packages \cup {p.name} |->
                      IF n \in DOMAIN idx.packages THEN idx.packages[n] ELSE p],
     providers |-> [v \in DOMAIN idx.providers \cup caps |->
                      IF v \in caps THEN Append(At(idx.providers, v), p) ELSE idx.providers[v]]]

\* Every package carries the URL of the repository it was found in.
ParseIndex(idx, packages, repo) ==
    LET parsed[n \in 0..Len(packages)] ==
          IF n = 0 THEN idx ELSE FlushAPKPackage(parsed[n - 1], [packages[n] EXCEPT !.repo = repo])
    IN  parsed[Len(packages)]

\* Update: whatever order the indexes are fetched in, they are parsed in the order
\* of the repositories; one that could not be fetched is left out.
Update(repos, fetched) ==
    LET updated[n \in 0..Len(repos)] ==
          IF n = 0 THEN NewIndex
          ELSE IF repos[n].repo \in fetched
          THEN ParseIndex(updated[n - 1], repos[n].packages, repos[n].repo) ELSE updated[n - 1]
    IN  updated[Len(repos)]

Dependency == [kind : {"plain", "conflict", "path"}, names : Seq(STRING) \ {<<>>}]

Package ==
    [name : STRING, version : Nat, repo : STRING, depends : Seq(Dependency),
     provides : Seq(STRING)]

VisitState == [seen : SUBSET STRING, order : Seq(Package), unresolved : Seq(STRING)]

\* The package of the name, else the first that provides it.
Found(idx, name) ==
    IF name \in DOMAIN idx.packages THEN <<idx.packages[name]>> ELSE At(idx.providers, name)

\* Conflicts and paths are no dependencies; a name is visited once, but a package
\* again under each name it provides.
Graph(idx) ==
    [name \in STRING |->
        LET p == Found(idx, name)[1]
            needed == Kept(p.depends, {d \in Range(p.depends) : d.kind \notin {"conflict", "path"}})
            found == Found(idx, name) # <<>>
        IN  [mark   |-> name,
             next   |-> IF found THEN [n \in DOMAIN needed |-> needed[n].names[1]] ELSE <<>>,
             adds   |-> IF found THEN <<p>> ELSE <<>>,
             misses |-> IF found THEN <<>> ELSE <<name>>]]

Nodes(seeds) == [n \in DOMAIN seeds |-> seeds[n].names[1]]

\* The unresolved are only counted by the code.
ResolveDeps(idx, seeds) == VisitAll(VisitState, Graph(idx), Nodes(seeds))
================================================================================
