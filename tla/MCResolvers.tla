----------------------------- MODULE MCResolvers -----------------------------
(* Worlds of three packages a, b and c, of which a is asked for, and a          *)
(* capability v: dependencies with cycles, alternatives and providers, several  *)
(* versions in several repositories, two architectures.                        *)
EXTENDS Resolvers, TLC

Plain(n) == [kind |-> "plain", names |-> <<n>>]
Deps(names) == [n \in DOMAIN names |-> Plain(names[n])]

\* "1~" "1" "1-1" "1a" "1+" "1.2" "1.10" "1.10-2" "1:0"
MCRanked ==
    <<<<49, 126>>, <<49>>, <<49, 45, 49>>, <<49, 97>>, <<49, 43>>, <<49, 46, 50>>,
      <<49, 46, 49, 48>>, <<49, 46, 49, 48, 45, 50>>, <<49, 58, 48>>>>

Stanza(name, arch, version, depends, provides, file) ==
    [name |-> name, arch |-> arch, version |-> version, depends |-> depends, preDepends |-> <<>>,
     provides |-> provides, multiArch |-> "", installed |-> FALSE, file |-> file]

NoWorld == [files |-> <<>>, status |-> <<>>, docs |-> <<>>, have |-> {}]

\* What a, b and c may need.
NeedsOfA == {<<"b">>, <<"v">>, <<"b", "v">>, <<"c", "b">>}
NeedsOfB == {<<>>, <<"a">>, <<"c">>, <<"v">>}
NeedsOfC == {<<>>, <<"b">>}
Provided == {<<>>, <<"v">>}

AptWorld(na, nb, nc, vb, vc, archOfC, multi, status, seed) ==
    [NoWorld EXCEPT
        !.files = <<[repo |-> "main", stanzas |->
                       <<[Stanza("a", "amd64", <<49>>, Deps(na), <<>>, "a1") EXCEPT
                            !.depends = Append(@, [kind |-> "or", names |-> <<"b", "x">>])],
                         Stanza("c", archOfC, <<49>>, Deps(nc), vc, "c1")>>],
                    [repo |-> "extra", stanzas |->
                       <<Stanza("b", "amd64", <<49>>, Deps(nb), vb, "b1"),
                         [Stanza("a", "arm64", <<49>>, Deps(na), <<>>, "a2") EXCEPT !.multiArch = multi]>>]>>,
        !.status = status] @@ [manager |-> "apt", seeds |-> <<seed, <<"c", "">>>>]

InstalledC == [Stanza("c", "amd64", <<49>>, <<>>, <<>>, "") EXCEPT !.installed = TRUE]

AptWorlds ==
    {AptWorld(na, nb, nc, vb, vc, archOfC, multi, status, seed) :
        na \in NeedsOfA, nb \in NeedsOfB, nc \in NeedsOfC, vb \in Provided, vc \in Provided,
        archOfC \in {"amd64", "arm64", "all"}, multi \in {"", "foreign", "same"},
        status \in {<<>>, <<InstalledC>>}, seed \in {<<"a", "">>, <<"a", "arm64">>, <<"v", "">>}}

\* dpkg keeps the configuration, and the version, of a package that was removed.
RemovedA(v) == Stanza("a", "amd64", v, <<>>, <<>>, "")

\* One package in three repositories; the URL of a flat one is not known.
VersionWorlds ==
    {[NoWorld EXCEPT
        !.files = <<[repo |-> "main", stanzas |-> <<Stanza("a", "amd64", u, <<>>, <<>>, "a1")>>],
                    [repo |-> extra, stanzas |-> <<Stanza("a", "amd64", v, <<>>, <<>>, "a2"),
                                                   Stanza("a", "amd64", w, <<>>, <<>>, "a3")>>]>>,
        !.status = status] @@ [manager |-> "apt", seeds |-> <<<<"a", "">>>>] :
        u \in Range(Ranked), v \in Range(Ranked), w \in Range(Ranked), extra \in {"extra", ""},
        status \in {<<>>, <<RemovedA(Ranked[1])>>, <<RemovedA(Ranked[6])>>}}

Rpm(name, arch, version, requires, recommends, provides) ==
    [name |-> name, arch |-> arch, epoch |-> 0, version |-> version, release |-> <<1>>,
     modular |-> FALSE, href |-> "x", requires |-> requires, recommends |-> recommends,
     provides |-> provides]

Rich == [kind |-> "rich", names |-> <<"c", "x">>]

NoModules == <<>>
DefaultDoc(file) ==
    [file |-> file, document |-> "modulemd-defaults", module |-> "m", stream |-> "one", rpms |-> {}]
StreamDoc(file) ==
    [file |-> file, document |-> "modulemd", module |-> "m", stream |-> "two",
     rpms |-> {<<"b", <<0, 2, 1>>, "amd64">>}]
Modules == <<DefaultDoc(1), StreamDoc(1)>>
\* The stream's file is read before the default is known.
LateDefault == <<StreamDoc(1), DefaultDoc(2)>>

DnfWorlds ==
    {[NoWorld EXCEPT
        !.files = <<[repo |-> "main", packages |->
                       <<Rpm("a", "amd64", <<1>>, Append(Deps(na), [kind |-> "rpmlib", names |-> <<"f">>]), weak, <<>>),
                         Rpm("b", archOfB, <<1>>, Deps(nb), <<>>, <<"v">>)>>],
                    [repo |-> "extra", packages |->
                       <<[Rpm("b", "amd64", <<2>>, <<>>, <<>>, vb) EXCEPT !.modular = TRUE],
                         Rpm("a", "src", <<2>>, <<>>, <<>>, <<>>),
                         Rpm("c", "noarch", <<1>>, Deps(nc), <<>>, <<"v">>)>>]>>,
        !.docs = docs, !.have = have] @@ [manager |-> "dnf", seeds |-> <<Plain("a")>>] :
        na \in NeedsOfA, nb \in NeedsOfB, nc \in NeedsOfC, vb \in Provided,
        archOfB \in {"amd64", "i686", "noarch"}, weak \in {<<>>, <<Rich>>},
        docs \in {NoModules, Modules, LateDefault}, have \in {{}, {"c"}, {"v"}}}

Apks(name, depends, provides) ==
    [name |-> name, version |-> 1, repo |-> "", depends |-> depends, provides |-> provides]

ApkWorlds ==
    {[NoWorld EXCEPT
        !.files = <<[repo |-> "main", packages |->
                       <<Apks("a", Append(Deps(na), [kind |-> "conflict", names |-> <<"x">>]), <<>>),
                         Apks("b", Deps(nb), vb)>>],
                    [repo |-> "extra", packages |->
                       <<Apks("c", Deps(nc), vc), Apks("b", <<>>, <<"v">>)>>]>>]
        @@ [manager |-> "apk", seeds |-> <<Plain("a")>>] :
        na \in NeedsOfA, nb \in NeedsOfB, nc \in NeedsOfC, vb \in Provided, vc \in Provided}

MCWorlds == AptWorlds \cup VersionWorlds \cup DnfWorlds \cup ApkWorlds
================================================================================
