-------------------------------- MODULE Visitor --------------------------------
(* The depth-first visitor that the three resolvers have in common (aptcache,   *)
(* dnfcache, apkindex), over what each makes of a node: a graph g gives for a   *)
(* node the mark by which it is known when it comes again, the next nodes in    *)
(* their order, what it adds to the packages to install and the names it        *)
(* misses.                                                                     *)
EXTENDS Integers, Sequences

\* The elements of s that are in T, as SelectSeq gives them.
Kept(s, T) ==
    LET kept[n \in 0..Len(s)] ==
          IF n = 0 THEN <<>>
          ELSE IF s[n] \in T THEN Append(kept[n - 1], s[n]) ELSE kept[n - 1]
    IN  kept[Len(s)]

NothingSeen == [seen |-> {}, order |-> <<>>, unresolved |-> <<>>]

\* visit for one node after the other.
Walk(visit, st, nodes) ==
    LET walked[n \in 0..Len(nodes)] ==
          IF n = 0 THEN st ELSE visit[<<walked[n - 1], nodes[n]>>]
    IN  walked[Len(nodes)]

Visit_PreOrder(State, g) ==
    LET visit[call \in State \X DOMAIN g] ==
          LET st == call[1]   x == call[2]
              entered == [st EXCEPT !.seen = @ \cup {g[x].mark}, !.order = @ \o g[x].adds]
          IN  IF g[x].mark \in st.seen THEN st
              ELSE [Walk(visit, entered, g[x].next) EXCEPT !.unresolved = @ \o g[x].misses]
    IN  visit

\* A node is marked before what it leads to is visited, and added after that.
Visit(State, g) ==
    LET visit[call \in State \X DOMAIN g] ==
          LET st == call[1]   x == call[2]
              below == Walk(visit, [st EXCEPT !.seen = @ \cup {g[x].mark}], g[x].next)
          IN  IF g[x].mark \in st.seen THEN st
              ELSE [below EXCEPT !.order = @ \o g[x].adds, !.unresolved = @ \o g[x].misses]
    IN  visit

VisitAll(State, g, seeds) == Walk(Visit(State, g), NothingSeen, seeds)

\* The nodes that those of S lead to, themselves included.
Reach(g, S) ==
    LET grown[T \in SUBSET DOMAIN g] ==
          LET more == UNION {{g[x].next[n] : n \in DOMAIN g[x].next} : x \in T}
          IN  IF more \subseteq T THEN T ELSE grown[T \cup more]
    IN  grown[S]
================================================================================
