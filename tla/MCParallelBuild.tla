---------------------------- MODULE MCParallelBuild ----------------------------
(* Collections for ParallelBuild: every dependency graph over three projects   *)
(* without flags; hand-picked ranges, cycles and diamonds; a split project.    *)
EXTENDS ParallelBuild

CONSTANTS a, b, c, d

MC3 == {a, b, c}
None3(S) == [p \in Project |-> S]
Edges(E) == [p \in Project |-> {q \in Project : <<p, q>> \in E}]

Collection(order, dep, mdep, ins, spl, from, to, noBuild) ==
    [order |-> order, depends |-> Edges(dep), makeDepends |-> Edges(mdep),
     install |-> ins, split |-> spl, from |-> from, to |-> to, noBuild |-> noBuild]

\* Every graph of runtime dependencies over three packages (self-loops and
\* cycles included), with and without a make dependency; a is marked.
AllGraphs3 ==
    {Collection(<<a, b, c>>, E, M, {a}, {}, NoProject, NoProject, FALSE) :
        E \in SUBSET (MC3 \X MC3), M \in {{}, {<<c, a>>}}}

\* Four packages: a diamond, a package in both lists, a marked leaf that only a
\* make dependency needs, --from, and a build without packaging.
Picked ==
    { Collection(<<a, b, c, d>>, {<<b, a>>, <<c, a>>, <<d, b>>, <<d, c>>}, {},
                 {d}, {}, NoProject, NoProject, FALSE),
      Collection(<<d, c, b, a>>, {<<b, a>>, <<d, c>>}, {<<b, a>>, <<c, a>>, <<d, a>>},
                 {c}, {c}, NoProject, NoProject, FALSE),
      Collection(<<a, b, c, d>>, {<<d, a>>}, {<<c, b>>}, {b, d}, {}, b, NoProject, FALSE),
      Collection(<<a, b, c, d>>, {<<b, a>>}, {<<d, c>>}, {c}, {}, NoProject, NoProject, TRUE),
      Collection(<<a, b, c, d>>, {<<c, a>>}, {<<d, c>>}, {}, {}, NoProject, c, FALSE),
      Collection(<<a, b, c, d>>, {}, {}, {}, {}, c, b, FALSE),
      Collection(<<a, b, c, d>>, {<<a, b>>}, {<<b, c>>, <<c, b>>}, {}, {}, NoProject,
                 NoProject, FALSE) }

\* The collections of the first run.
Collections == AllGraphs3 \cup Picked

\* A project that is split and that another needs at run time: the smallest one.
SplitDependency ==
    { Collection(<<a, b>>, {<<b, a>>}, {}, {}, {a}, NoProject, NoProject, FALSE) }

\* --to b: the leaf a is marked, c (before b in the file) needs it to build, and
\* b is at least as popular as a because d, after b, needs b.
ToRange ==
    { Collection(<<a, c, b, d>>, {}, {<<c, a>>, <<d, b>>}, {a}, {}, NoProject, b, FALSE) }
================================================================================
