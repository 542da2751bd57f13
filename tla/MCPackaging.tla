------------------------------ MODULE MCPackaging -----------------------------
(* Projects with variants of sources and functions, split packages with         *)
(* overrides in the four formats, native and for another architecture, and deb  *)
(* builds with dependencies for another architecture.                           *)
EXTENDS Packaging

St(name, kind, value) == [name |-> name, arch |-> "", distros |-> <<>>, kind |-> kind, value |-> value]
Dep(n, v) == [name |-> n, versioned |-> v, form |-> 0]

Noble == <<"ubuntu", "noble">>
MCPackageManagerOf == [ubuntu |-> "apt", fedora |-> "yum", alpine |-> "apk", arch |-> "pacman"]
MCPackageFunction == [foo |-> "package_foo", bar |-> "package_bar"]

MCInstalls == <<{"bin", "man"}, {"bin", "emptydir"}>>

NoHost == [installed |-> {}, recorded |-> {}, paths |-> <<>>, sysroot |-> {}]

Project(file, distro, format, targetArch) ==
    [file |-> file, distro |-> distro, format |-> format, targets |-> <<targetArch, targetArch>>,
     system |-> "make", compiles |-> "build", sign |-> FALSE,
     install |-> FALSE, lists |-> <<>>, stanzas |-> <<>>, host |-> NoHost,
     makeDepends |-> <<>>, depends |-> <<>>]

Head_(arch) == <<St("pkgdesc", "string", "top"), St("pkgver", "string", "1"), St("pkgrel", "string", "1"),
                 St("arch", "array", <<arch>>)>>

\* Suffixes: of the architectures, the distribution, its codename and its package manager.
Variants ==
    {[arch |-> a, distros |-> d] : a \in {"", "x86_64", "aarch64"}, d \in {<<>>, <<Noble>>}}
    \cup {[arch |-> "", distros |-> <<d>>] : d \in {<<"ubuntu", "">>, <<"apt", "">>}}

Vary(s, v) == [s EXCEPT !.arch = v.arch, !.distros = v.distros]

VariantFile(u, v, w) ==
    LET three == <<u, v, w>> IN
    <<St("pkgname", "string", "foo")>> \o Head_("x86_64")
      \o [n \in 1..3 |-> Vary(St("source", "array", <<three[n]>>), three[n])]
      \o [n \in 1..3 |-> Vary(St("sha256sums", "array", <<three[n]>>), three[n])]
      \o [n \in 1..3 |-> Vary(St("prepare", "function", <<three[n]>>), three[n])]
      \o <<St("package", "function", <<>>)>>

VariantWorlds ==
    {Project(VariantFile(u, v, w), Noble, "deb", "") : u \in Variants, v \in Variants, w \in Variants}
    \cup
    {Project(VariantFile(u, v, [arch |-> "", distros |-> <<>>]), NoDistro, "deb", "") :
        u \in Variants, v \in Variants}

\* What package_foo and package_bar may set.
SomeOverride == <<St("depends", "array", <<Dep("x", TRUE)>>), St("pkgdesc", "string", "own")>>

Overrides ==
    {<<>>,
     SomeOverride,
     <<Vary(St("depends", "array", <<Dep("y", TRUE)>>), [arch |-> "", distros |-> <<<<"ubuntu", "">>>>])>>,
     <<Vary(St("depends", "array", <<Dep("w", FALSE)>>), [arch |-> "", distros |-> <<<<"apt", "">>>>])>>,
     <<Vary(St("pkgdesc", "string", "arm"), [arch |-> "aarch64", distros |-> <<>>]),
       Vary(St("pkgdesc", "string", "pc"), [arch |-> "x86_64", distros |-> <<>>])>>,
     <<St("options", "array", <<<<"strip", FALSE>>, <<"zipman", TRUE>>>>)>>}

SplitFile(arch, foo, bar, common) ==
    <<St("pkgname", "array", <<"foo", "bar">>)>> \o Head_(arch)
      \o <<St("depends", "array", <<Dep("z", TRUE)>>),
           Vary(St("depends", "array", <<Dep("v", FALSE)>>), [arch |-> "", distros |-> <<<<"apt", "">>>>]),
           St("build", "function", <<>>), St("postinst", "function", <<"ldconfig">>), St("package_foo", "function", foo)>>
      \o common \o bar

Bars == {<<St("package_bar", "function", o)>> : o \in Overrides} \cup {<<>>}
Commons == {<<>>, <<St("package", "function", <<>>)>>}

FormatsOf ==
    {<<Noble, "deb">>, <<<<"fedora", "42">>, "rpm">>, <<<<"alpine", "">>, "apk">>, <<<<"arch", "">>, "pacman">>}

\* Every pair of functions in every format, and some pairs under everything else.
SplitWorlds ==
    {Project(SplitFile("x86_64", foo, bar, <<>>), f[1], f[2], "") :
        foo \in Overrides, bar \in Bars, f \in FormatsOf}
    \cup
    {[Project(SplitFile(arch, SomeOverride, bar, common), f[1], f[2], target)
        EXCEPT !.sign = both, !.install = both] :
        arch \in {"x86_64", "any"}, bar \in {<<>>, <<St("package_bar", "function", <<>>)>>},
        common \in Commons, f \in FormatsOf, target \in {"", "aarch64"}, both \in BOOLEAN}

\* One package of a fedora project with an epoch.
EpochWorlds ==
    {[Project(<<St("pkgname", "string", "foo"), St("epoch", "string", "1")>> \o Head_("x86_64")
                \o <<St("package", "function", <<>>)>>,
              f[1], f[2], target) EXCEPT !.install = TRUE] :
        f \in FormatsOf, target \in {"", "aarch64"}}

\* A library, a tool and data, each in some Multi-Arch class, of which the host has
\* some from dpkg and some that yap has installed before.
Stanza(name, arch, depends, multi, file) ==
    [name |-> name, arch |-> arch, version |-> <<49>>, preDepends |-> <<>>, provides |-> <<>>,
     depends |-> [n \in DOMAIN depends |-> [kind |-> "plain", names |-> <<depends[n]>>]],
     multiArch |-> multi, installed |-> FALSE, file |-> file]

CrossWorld(lib, tool, data, have, made, depends) ==
    LET stanzas == <<Stanza("lib", "amd64", <<"tool", "data">>, lib, "l1"),
                     Stanza("lib", "arm64", <<"tool", "data">>, lib, "l2"),
                     Stanza("tool", "amd64", <<"data">>, tool, "t1"),
                     Stanza("tool", "arm64", <<"data">>, tool, "t2"),
                     Stanza("data", data, <<>>, "", "d")>>
    IN  [Project(<<St("pkgname", "string", "foo")>> \o Head_("x86_64") \o <<St("package", "function", <<>>)>>,
                 Noble, "deb", "aarch64")
            EXCEPT !.lists = <<[repo |-> "main", stanzas |-> stanzas]>>,
                   !.stanzas = [n \in DOMAIN stanzas |-> [stanzas[n] EXCEPT !.installed = TRUE, !.file = ""]],
                   !.host = [NoHost EXCEPT !.installed = {<<n, "amd64">> : n \in have},
                                           !.recorded = {<<n, "amd64">> : n \in made},
                                           !.paths = [n \in have \cup made |-> "amd64"]],
                   !.makeDepends = <<<<"tool", "">>>>,
                   !.depends = depends]

CrossWorlds ==
    {CrossWorld(lib, tool, data, has[1], has[2], depends) :
        lib \in {"", "same"}, tool \in {"", "foreign", "same"}, data \in {"all", "arm64"},
        has \in {<<{}, {}>>, <<{"lib"}, {}>>, <<{"tool"}, {}>>, <<{"lib", "tool"}, {}>>,
                 <<{}, {"lib"}>>, <<{}, {"tool"}>>, <<{"lib"}, {"tool"}>>},
        depends \in {<<<<"lib", "">>>>, <<<<"lib", "">>, <<"data", "">>>>, <<<<"tool", "">>, <<"data", "">>>>}}

\* Builds by four build systems, for one target and then another.
ToolWorlds ==
    {[Project(<<St("pkgname", "array", names)>> \o Head_("x86_64")
                \o <<St("build", "function", <<>>), St("package", "function", <<>>)>>,
              f[1], f[2], "") EXCEPT !.system = system, !.compiles = stage, !.targets = targets] :
        names \in {<<"foo">>, <<"foo", "bar">>},
        f \in FormatsOf \cap {<<Noble, "deb">>, <<<<"fedora", "42">>, "rpm">>}, system \in {"make", "cmake", "go", "cargo"},
        stage \in {"build", "package"},
        targets \in {<<"aarch64", "s390x">>, <<"", "aarch64">>, <<"x86_64", "s390x">>}}

MCTriplet == [x86_64 |-> "x86_64-linux-gnu", aarch64 |-> "aarch64-linux-gnu", s390x |-> "s390x-linux-gnu"]

MCWorlds == ToolWorlds \cup VariantWorlds \cup SplitWorlds \cup EpochWorlds \cup CrossWorlds
===============================================================================
