----------------------------- MODULE ResolversProofs -----------------------------
(* Proofs about the resolvers: that the depth-first visitor, on any graph whose  *)
(* parts are finite, plans the closure of its seeds with dependencies first;     *)
(* that the caches of apt, dnf and apk make such graphs; and that what each      *)
(* cache offers is the newest, or the first, of what its files hold.             *)
EXTENDS Resolvers, FiniteSetTheorems, WellFoundedInduction, TLAPS

--------------------------------------------------------------------------------
(* Induction. *)

\* A set of naturals that is not empty has a least element.
LEMMA LeastElement ==
    ASSUME NEW T \in SUBSET Nat, T # {}
    PROVE  \E x \in T : \A y \in T : x <= y
<1> DEFINE R == OpToRel(<, Nat)
<1>1. IsWellFoundedOn(R, Nat)
  BY NatLessThanWellFounded
<1>2. \A x, y \in Nat : y < x => <<y, x>> \in R
  BY DEF R, OpToRel
<1> HIDE DEF R
<1>3. PICK x \in T : \A y \in T : ~(<<y, x>> \in R)
  BY <1>1, WFMin
<1>4. \A y \in T : ~(y < x)
  BY Zenon, <1>2, <1>3
<1> QED
  BY <1>4

\* What holds of zero and, with a number, of the next one, holds of all.
LEMMA All ==
    ASSUME NEW T, 0 \in T, \A n \in Nat : n \in T => n + 1 \in T
    PROVE  Nat \subseteq T
<1> SUFFICES ASSUME ~(Nat \subseteq T) PROVE FALSE
  OBVIOUS
<1> DEFINE U == Nat \ T
<1>1. U \in SUBSET Nat /\ U # {}
  OBVIOUS
<1>2. PICK x \in U : \A y \in U : x <= y
  BY <1>1, LeastElement
<1>3. x # 0 /\ x - 1 \in Nat /\ x - 1 \notin U
  BY <1>2
<1> QED
  BY <1>3

\* The same up to a number.
LEMMA UpTo ==
    ASSUME NEW N \in Nat, NEW T, 0 \in T, \A n \in 0..N : n < N /\ n \in T => n + 1 \in T
    PROVE  0..N \subseteq T
<1> SUFFICES ASSUME ~(0..N \subseteq T) PROVE FALSE
  OBVIOUS
<1> DEFINE U == (0..N) \ T
<1>1. U \in SUBSET Nat /\ U # {}
  OBVIOUS
<1>2. PICK x \in U : \A y \in U : x <= y
  BY <1>1, LeastElement
<1>3. x # 0 /\ x - 1 \in 0..N /\ x - 1 \notin U
  BY <1>2
<1> QED
  BY <1>3

--------------------------------------------------------------------------------
(* The recursions over a sequence. *)

\* What becomes of a state in a walk, node by node.
WalkNext(visit, st, x) == visit[<<st, x>>]

WalkTrace(f, visit, st, nodes) ==
    /\ f[0] = st
    /\ \A n \in 0..Len(nodes) : n < Len(nodes) => f[n + 1] = WalkNext(visit, f[n], nodes[n + 1])

\* The recursion of Walk has such a trace.
LEMMA WalkHasTrace ==
    ASSUME NEW visit, NEW st, NEW nodes, Len(nodes) \in Nat
    PROVE  \E f : WalkTrace(f, visit, st, nodes) /\ Walk(visit, st, nodes) = f[Len(nodes)]
<1> DEFINE N == Len(nodes)
           Rule(f, m) == f = [n \in 0..m |-> IF n = 0 THEN st ELSE WalkNext(visit, f[n - 1], nodes[n])]
           T == {m \in 0..N : \E f : Rule(f, m)}
<1>1. 0 \in T
  <2> DEFINE g == [n \in 0..0 |-> st]
  <2>1. Rule(g, 0)
    OBVIOUS
  <2> HIDE DEF g, Rule
  <2>2. \E h : Rule(h, 0)
    BY <2>1
  <2> QED
    BY <2>2
<1>2. ASSUME NEW m \in 0..N, m < N, m \in T PROVE m + 1 \in T
  <2>1. PICK f : Rule(f, m)
    BY <1>2
  <2> DEFINE g == [n \in 0..(m + 1) |-> IF n = m + 1 THEN WalkNext(visit, f[m], nodes[n]) ELSE f[n]]
  <2>2. \A n \in 0..(m + 1) : g[n] = IF n = 0 THEN st ELSE WalkNext(visit, g[n - 1], nodes[n])
    BY <2>1
  <2>3. Rule(g, m + 1)
    BY <2>2
  <2> HIDE DEF g, Rule
  <2>4. \E h : Rule(h, m + 1)
    BY <2>3
  <2>5. m + 1 \in 0..N
    BY <1>2
  <2> QED
    BY <2>4, <2>5
<1>3. N \in T
  <2> HIDE DEF T
  <2>1. 0..N \subseteq T
    BY <1>1, <1>2, UpTo
  <2> QED
    BY <2>1
<1>4. \E f : Rule(f, N)
  BY <1>3
<1> DEFINE f == CHOOSE f : Rule(f, N)
<1>5. Rule(f, N)
  BY <1>4
<1>6. Walk(visit, st, nodes) = f[N]
  BY DEF Walk, WalkNext
<1> HIDE DEF f
<1>7. WalkTrace(f, visit, st, nodes)
  BY <1>5 DEF WalkTrace
<1> QED
  BY <1>6, <1>7

\* What a filter has kept, element by element.
KeepNext(t, x, T) == IF x \in T THEN Append(t, x) ELSE t

KeptTrace(f, s, T) ==
    /\ f[0] = <<>>
    /\ \A n \in 0..Len(s) : n < Len(s) => f[n + 1] = KeepNext(f[n], s[n + 1], T)

\* The recursion of Kept has such a trace.
LEMMA KeptHasTrace ==
    ASSUME NEW s, NEW T, Len(s) \in Nat
    PROVE  \E f : KeptTrace(f, s, T) /\ Kept(s, T) = f[Len(s)]
<1> DEFINE N == Len(s)
           Rule(f, m) == f = [n \in 0..m |->
               IF n = 0 THEN <<>> ELSE KeepNext(f[n - 1], s[n], T)]
           S == {m \in 0..N : \E f : Rule(f, m)}
<1>1. 0 \in S
  <2> DEFINE g == [n \in 0..0 |-> <<>>]
  <2>1. Rule(g, 0)
    OBVIOUS
  <2> HIDE DEF g, Rule
  <2>2. \E h : Rule(h, 0)
    BY <2>1
  <2> QED
    BY <2>2
<1>2. ASSUME NEW m \in 0..N, m < N, m \in S PROVE m + 1 \in S
  <2>1. PICK f : Rule(f, m)
    BY <1>2
  <2> DEFINE g == [n \in 0..(m + 1) |->
                IF n = m + 1 THEN KeepNext(f[m], s[n], T) ELSE f[n]]
  <2>2. \A n \in 0..(m + 1) : g[n] =
            IF n = 0 THEN <<>> ELSE KeepNext(g[n - 1], s[n], T)
    BY <2>1
  <2>3. Rule(g, m + 1)
    BY <2>2
  <2> HIDE DEF g, Rule
  <2>4. \E h : Rule(h, m + 1)
    BY <2>3
  <2>5. m + 1 \in 0..N
    BY <1>2
  <2> QED
    BY <2>4, <2>5
<1>3. N \in S
  <2> HIDE DEF S
  <2>1. 0..N \subseteq S
    BY <1>1, <1>2, UpTo
  <2> QED
    BY <2>1
<1>4. \E f : Rule(f, N)
  BY <1>3
<1> DEFINE f == CHOOSE f : Rule(f, N)
<1>5. Rule(f, N)
  BY <1>4
<1>6. Kept(s, T) = f[N]
  BY DEF Kept, KeepNext
<1> HIDE DEF f
<1>7. KeptTrace(f, s, T)
  BY <1>5 DEF KeptTrace
<1> QED
  BY <1>6, <1>7

\* A filter keeps the elements of the set, in their order: each comes after those that
\* came before it.
LEMMA KeptElements ==
    ASSUME NEW S, NEW s \in Seq(S), NEW T
    PROVE  /\ Kept(s, T) \in Seq(S)
           /\ Range(Kept(s, T)) = Range(s) \cap T
           /\ \A i \in DOMAIN Kept(s, T) : \E j \in DOMAIN s :
                 /\ Kept(s, T)[i] = s[j]
                 /\ \A m \in 1..(j - 1) : s[m] \in T => \E k \in 1..(i - 1) : Kept(s, T)[k] = s[m]
<1>1. PICK f : KeptTrace(f, s, T) /\ Kept(s, T) = f[Len(s)]
  BY KeptHasTrace
<1> DEFINE Good(n) ==
             /\ f[n] \in Seq(S)
             /\ \A i \in DOMAIN f[n] : \E j \in 1..n :
                   /\ f[n][i] = s[j]
                   /\ f[n][i] \in T
                   /\ \A m \in 1..(j - 1) : s[m] \in T => \E k \in 1..(i - 1) : f[n][k] = s[m]
             /\ \A j \in 1..n : s[j] \in T => \E i \in DOMAIN f[n] : f[n][i] = s[j]
<1>2. Good(0)
  BY <1>1 DEF KeptTrace
<1>3. ASSUME NEW n \in 0..Len(s), n < Len(s), Good(n) PROVE Good(n + 1)
  <2>1. s[n + 1] \in S /\ n + 1 \in 1..Len(s)
    BY <1>3
  <2>2. CASE s[n + 1] \notin T
    <3>1. f[n + 1] = f[n]
      BY <1>1, <1>3, <2>2 DEF KeptTrace, KeepNext
    <3> QED
      BY <3>1, <2>1, <2>2, <1>3
  <2>3. CASE s[n + 1] \in T
    <3>1. f[n + 1] = Append(f[n], s[n + 1])
      BY <1>1, <1>3, <2>3 DEF KeptTrace, KeepNext
    <3>2. /\ f[n + 1] \in Seq(S)
          /\ Len(f[n + 1]) = Len(f[n]) + 1
          /\ \A i \in 1..Len(f[n]) : f[n + 1][i] = f[n][i]
          /\ f[n + 1][Len(f[n]) + 1] = s[n + 1]
          /\ Len(f[n]) \in Nat
      BY <3>1, <2>1, <1>3
    <3>9. /\ DOMAIN f[n] = 1..Len(f[n])
          /\ DOMAIN f[n + 1] = 1..(Len(f[n]) + 1)
      BY <3>2, <1>3
    <3>8. \A j \in 1..n : s[j] \in T => \E i \in 1..Len(f[n]) : f[n][i] = s[j]
      BY <3>9, <1>3
    <3>7. \A i \in 1..Len(f[n]) : i \in 1..(Len(f[n]) + 1)
      BY <3>2
    <3>6. \A i \in DOMAIN f[n] : \E j \in 1..n :
             /\ f[n][i] = s[j]
             /\ f[n][i] \in T
             /\ \A m \in 1..(j - 1) : s[m] \in T => \E k \in 1..(i - 1) : f[n][k] = s[m]
      <4> DEFINE ComesAt(i) == \E j \in 1..n :
                   /\ f[n][i] = s[j]
                   /\ f[n][i] \in T
                   /\ \A m \in 1..(j - 1) : s[m] \in T => \E k \in 1..(i - 1) : f[n][k] = s[m]
      <4>1. Good(n) => \A i \in DOMAIN f[n] : ComesAt(i)
        OBVIOUS
      <4> HIDE DEF ComesAt, Good
      <4>2. \A i \in DOMAIN f[n] : ComesAt(i)
        BY <4>1, <1>3
      <4> QED
        BY <4>2 DEF ComesAt
    <3>3. ASSUME NEW i \in DOMAIN f[n + 1]
          PROVE  \E j \in 1..(n + 1) :
                   /\ f[n + 1][i] = s[j]
                   /\ f[n + 1][i] \in T
                   /\ \A m \in 1..(j - 1) : s[m] \in T => \E k \in 1..(i - 1) : f[n + 1][k] = s[m]
      <4>1. i \in 1..(Len(f[n]) + 1)
        BY <3>2
      <4>2. CASE i \in 1..Len(f[n])
        <5>1. PICK j \in 1..n :
                   /\ f[n][i] = s[j]
                   /\ f[n][i] \in T
                   /\ \A m \in 1..(j - 1) : s[m] \in T => \E k \in 1..(i - 1) : f[n][k] = s[m]
          BY <4>2, <3>6, <3>9
        <5>2. \A k \in 1..(i - 1) : f[n + 1][k] = f[n][k]
          BY <3>2, <4>2
        <5> QED
          BY <5>1, <5>2, <3>2, <4>2
      <4>3. CASE i = Len(f[n]) + 1
        <5>1. i - 1 = Len(f[n]) /\ (n + 1) - 1 = n /\ n + 1 \in 1..(n + 1)
          BY <3>2, <4>3, <1>3
        <5>2. ASSUME NEW m \in 1..n, s[m] \in T PROVE \E k \in 1..(i - 1) : f[n + 1][k] = s[m]
          <6>1. PICK k \in 1..Len(f[n]) : f[n][k] = s[m]
            BY <3>8, <5>2
          <6> QED
            BY <6>1, <3>2, <5>1
        <5>3. /\ f[n + 1][i] = s[n + 1] /\ f[n + 1][i] \in T
              /\ \A m \in 1..((n + 1) - 1) : s[m] \in T => \E k \in 1..(i - 1) : f[n + 1][k] = s[m]
          BY <5>1, <5>2, <3>2, <4>3, <2>3
        <5> HIDE DEF Good
        <5> QED
          BY <5>3, <5>1
      <4> QED
        BY <4>1, <4>2, <4>3, <3>2
    <3>4. ASSUME NEW j \in 1..(n + 1), s[j] \in T
          PROVE  \E i \in DOMAIN f[n + 1] : f[n + 1][i] = s[j]
      <4>1. CASE j = n + 1
        BY <4>1, <3>2
      <4>2. CASE j \in 1..n
        <5>1. PICK i \in 1..Len(f[n]) : f[n][i] = s[j]
          BY <4>2, <3>4, <3>8
        <5> QED
          BY <5>1, <3>2, <3>7, <3>9
      <4> QED
        BY <4>1, <4>2, <1>3
    <3> QED
      BY <3>2, <3>3, <3>4
  <2> QED
    BY <2>2, <2>3
<1>4. Good(Len(s))
  <2> DEFINE U == {n \in 0..Len(s) : Good(n)}
  <2> HIDE DEF Good
  <2>1. 0 \in U /\ \A n \in 0..Len(s) : n < Len(s) /\ n \in U => n + 1 \in U
    BY <1>2, <1>3
  <2> HIDE DEF U
  <2>2. 0..Len(s) \subseteq U
    BY <2>1, UpTo
  <2> QED
    BY <2>2 DEF U
<1> QED
  BY <1>1, <1>4 DEF Range

--------------------------------------------------------------------------------
(* What a node leads to. *)

ClosedUnder(g, U) == \A x \in U : Range(g[x].next) \subseteq U

\* A set is larger than what is properly in it.
LEMMA Smaller ==
    ASSUME NEW A, IsFiniteSet(A), NEW B \in SUBSET A
    PROVE  /\ IsFiniteSet(B) /\ Cardinality(A) \in Nat /\ Cardinality(B) \in Nat
           /\ Cardinality(B) <= Cardinality(A)
           /\ B # A => Cardinality(B) < Cardinality(A)
<1>1. IsFiniteSet(B) /\ Cardinality(B) <= Cardinality(A) /\ (Cardinality(A) = Cardinality(B) => A = B)
  BY FS_Subset
<1>2. Cardinality(A) \in Nat /\ Cardinality(B) \in Nat
  BY <1>1, FS_CardinalityType
<1> QED
  BY <1>1, <1>2

\* Nodes of a graph from which no other is reached.
Confined(g, U) == IsFiniteSet(U) /\ U \subseteq DOMAIN g /\ ClosedUnder(g, U)

\* What is in every set of nodes that contains S and all that it leads to.
Least(g, S) ==
    {x \in DOMAIN g : \A C \in SUBSET DOMAIN g : S \subseteq C /\ ClosedUnder(g, C) => x \in C}

More(g, T) == UNION {Range(g[x].next) : x \in T}

\* One step of Reach.
GrowRule(f, g) ==
    f = [T \in SUBSET DOMAIN g |-> IF More(g, T) \subseteq T THEN T ELSE f[T \cup More(g, T)]]

\* A set that has all its next nodes is closed.
LEMMA MoreIsClosed ==
    ASSUME NEW g, NEW T
    PROVE  More(g, T) \subseteq T <=> ClosedUnder(g, T)
BY DEF More, ClosedUnder

\* The least closed set contains what it is of.
LEMMA LeastContains ==
    ASSUME NEW g, NEW S \in SUBSET DOMAIN g
    PROVE  S \subseteq Least(g, S)
BY DEF Least

\* The least closed set of a closed one is itself.
LEMMA LeastOfClosed ==
    ASSUME NEW g, NEW S \in SUBSET DOMAIN g, ClosedUnder(g, S)
    PROVE  Least(g, S) = S
BY DEF Least

\* The least closed set is closed.
LEMMA LeastIsClosed ==
    ASSUME NEW g, ClosedUnder(g, DOMAIN g), NEW S
    PROVE  ClosedUnder(g, Least(g, S))
BY DEF Least, ClosedUnder

\* The next nodes do not change the least closed set.
LEMMA LeastOfMore ==
    ASSUME NEW g, NEW S \in SUBSET DOMAIN g
    PROVE  Least(g, S \cup More(g, S)) = Least(g, S)
<1>1. ASSUME NEW C, ClosedUnder(g, C)
      PROVE  S \cup More(g, S) \subseteq C <=> S \subseteq C
  BY <1>1 DEF More, ClosedUnder
<1> QED
  BY <1>1 DEF Least

\* The recursion of Reach has a solution: the function to the least closed set.
LEMMA GrowExists ==
    ASSUME NEW g, ClosedUnder(g, DOMAIN g)
    PROVE  \E f : GrowRule(f, g)
<1> DEFINE f == [T \in SUBSET DOMAIN g |-> Least(g, T)]
<1>1. ASSUME NEW T \in SUBSET DOMAIN g
      PROVE  f[T] = IF More(g, T) \subseteq T THEN T ELSE f[T \cup More(g, T)]
  <2>1. T \cup More(g, T) \in SUBSET DOMAIN g
    BY DEF More, ClosedUnder
  <2>2. CASE More(g, T) \subseteq T
    BY <2>2, MoreIsClosed, LeastOfClosed
  <2>3. CASE ~(More(g, T) \subseteq T)
    BY <2>3, <2>1, LeastOfMore
  <2> QED
    BY <2>2, <2>3
<1>2. GrowRule(f, g)
  BY <1>1 DEF GrowRule
<1> HIDE DEF f
<1> QED
  BY <1>2

\* Reach is what it should be, where the graph is closed and finite.
LEMMA ReachIsLeast ==
    ASSUME NEW g, ClosedUnder(g, DOMAIN g), NEW U, Confined(g, U), NEW S \in SUBSET U
    PROVE  Reach(g, S) = Least(g, S)
<1> DEFINE f == CHOOSE f : GrowRule(f, g)
<1>1. GrowRule(f, g)
  BY GrowExists
<1>2. Reach(g, S) = f[S]
  BY DEF Reach, GrowRule, More, Range
<1> HIDE DEF f
<1> DEFINE Left(T) == Cardinality(U \ T)
           Q(n) == \A T \in SUBSET U : Left(T) <= n => f[T] = Least(g, T)
           N == {n \in Nat : Q(n)}
<1>3. \A T \in SUBSET U : Left(T) \in Nat
  <2> SUFFICES ASSUME NEW T \in SUBSET U PROVE Cardinality(U \ T) \in Nat
    OBVIOUS
  <2>1. IsFiniteSet(U) /\ U \ T \in SUBSET U
    BY DEF Confined
  <2> QED
    BY <2>1, Smaller
<1>4. \A T \in SUBSET U : f[T] = IF More(g, T) \subseteq T THEN T ELSE f[T \cup More(g, T)]
  BY <1>1 DEF GrowRule, Confined
<1>5. \A T \in SUBSET U : T \cup More(g, T) \in SUBSET U
  BY DEF More, Confined, ClosedUnder
<1>6. ASSUME NEW T \in SUBSET U, More(g, T) \subseteq T PROVE f[T] = Least(g, T)
  BY <1>6, <1>4, MoreIsClosed, LeastOfClosed DEF Confined
<1>7. ASSUME NEW T \in SUBSET U, ~(More(g, T) \subseteq T)
      PROVE  Left(T \cup More(g, T)) < Left(T)
  <2> DEFINE A == U \ T   B == U \ (T \cup More(g, T))
  <2>1. B \in SUBSET A /\ B # A
    BY <1>7, <1>5
  <2>2. IsFiniteSet(A)
    <3>1. IsFiniteSet(U) /\ A \in SUBSET U
      BY DEF Confined
    <3> HIDE DEF A
    <3> QED
      BY <3>1, Smaller
  <2>3. Cardinality(B) < Cardinality(A)
    <3> HIDE DEF A, B
    <3> QED
      BY <2>1, <2>2, Smaller
  <2> QED
    BY <2>3
<1> HIDE DEF Left
<1>8. Q(0)
  <2> SUFFICES ASSUME NEW T \in SUBSET U, Left(T) <= 0 PROVE f[T] = Least(g, T)
    OBVIOUS
  <2>1. CASE More(g, T) \subseteq T
    BY <2>1, <1>6
  <2>2. CASE ~(More(g, T) \subseteq T)
    <3>1. T \cup More(g, T) \in SUBSET U
      BY <1>5
    <3>2. Left(T \cup More(g, T)) \in Nat /\ Left(T) \in Nat
      BY <1>3, <3>1
    <3>3. Left(T \cup More(g, T)) < Left(T)
      BY <1>7, <2>2
    <3> QED
      BY <3>2, <3>3
  <2> QED
    BY <2>1, <2>2
<1>9. ASSUME NEW n \in Nat, Q(n) PROVE Q(n + 1)
  <2> SUFFICES ASSUME NEW T \in SUBSET U, Left(T) <= n + 1 PROVE f[T] = Least(g, T)
    OBVIOUS
  <2>1. CASE More(g, T) \subseteq T
    BY <2>1, <1>6
  <2>2. CASE ~(More(g, T) \subseteq T)
    <3>5. T \cup More(g, T) \in SUBSET U
      BY <1>5
    <3>6. Left(T \cup More(g, T)) \in Nat /\ Left(T) \in Nat
      BY <1>3, <3>5
    <3>7. Left(T \cup More(g, T)) < Left(T)
      BY <1>7, <2>2
    <3>1. Left(T \cup More(g, T)) <= n
      BY <3>6, <3>7
    <3>2. f[T \cup More(g, T)] = Least(g, T \cup More(g, T))
      BY <3>1, <3>5, <1>9
    <3>3. T \in SUBSET DOMAIN g
      BY DEF Confined
    <3>4. f[T] = f[T \cup More(g, T)]
      BY <2>2, <1>4
    <3> QED
      BY <3>2, <3>3, <3>4, LeastOfMore
  <2> QED
    BY <2>1, <2>2
<1>10. Nat \subseteq N
  <2> HIDE DEF Q
  <2>1. 0 \in N /\ \A n \in Nat : n \in N => n + 1 \in N
    BY <1>8, <1>9
  <2> HIDE DEF N
  <2> QED
    BY <2>1, All
<1>11. Q(Left(S))
  <2>1. Left(S) \in Nat
    BY <1>3
  <2> HIDE DEF Q
  <2> QED
    BY <1>10, <2>1
<1>12. f[S] = Least(g, S)
  BY <1>11, <1>3
<1> QED
  BY <1>2, <1>12

\* So what is reached contains the start, is closed, and is within what is closed.
LEMMA Reached ==
    ASSUME NEW g, ClosedUnder(g, DOMAIN g), NEW U, Confined(g, U), NEW S \in SUBSET U
    PROVE  /\ S \subseteq Reach(g, S)
           /\ Confined(g, Reach(g, S))
           /\ \A C \in SUBSET DOMAIN g : S \subseteq C /\ ClosedUnder(g, C) => Reach(g, S) \subseteq C
<1>1. Reach(g, S) = Least(g, S)
  BY ReachIsLeast
<1>2. S \in SUBSET DOMAIN g
  BY DEF Confined
<1>3. S \subseteq Least(g, S)
  BY <1>2, LeastContains
<1>4. ClosedUnder(g, Least(g, S))
  BY LeastIsClosed
<1>5. \A C \in SUBSET DOMAIN g : S \subseteq C /\ ClosedUnder(g, C) => Least(g, S) \subseteq C
  BY DEF Least
<1>6. Least(g, S) \subseteq U
  BY <1>5 DEF Confined
<1>7. IsFiniteSet(Least(g, S))
  BY <1>6, FS_Subset DEF Confined
<1>8. Least(g, S) \subseteq DOMAIN g
  BY DEF Least
<1>9. Confined(g, Least(g, S))
  BY <1>4, <1>7, <1>8 DEF Confined
<1> QED
  BY <1>1, <1>3, <1>5, <1>9

--------------------------------------------------------------------------------
(* The recursion of the visitor. *)

\* The image of a finite set is finite.
LEMMA FiniteImage ==
    ASSUME NEW D, IsFiniteSet(D), NEW f, f = [x \in D |-> f[x]]
    PROVE  IsFiniteSet(Range(f))
<1>1. f \in Surjection(D, Range(f))
  BY DEF Surjection, Range
<1> QED
  BY <1>1, FS_Surjection

\* A sequence has finitely many elements.
LEMMA FiniteRange ==
    ASSUME NEW S, NEW s \in Seq(S)
    PROVE  IsFiniteSet(Range(s)) /\ Range(s) \subseteq S
<1>1. DOMAIN s = 1..Len(s) /\ Len(s) \in Nat /\ s = [x \in DOMAIN s |-> s[x]]
  OBVIOUS
<1>2. IsFiniteSet(DOMAIN s)
  <2>1. IsFiniteSet(1..Len(s))
    <3>1. 1 \in Int /\ Len(s) \in Int
      BY <1>1
    <3> QED
      BY <3>1, FS_Interval
  <2> QED
    BY <1>1, <2>1
<1>3. Range(s) \subseteq S
  BY <1>1 DEF Range
<1> QED
  BY <1>1, <1>2, <1>3, FiniteImage

States(M, O, N) == [seen : SUBSET M, order : Seq(O), unresolved : Seq(N)]

\* A graph whose marks are in M, whose packages are in O and whose names are in N.
GraphOver(g, M, O, N) ==
    \A x \in DOMAIN g :
        /\ g[x].mark \in M
        /\ g[x].next \in Seq(DOMAIN g)
        /\ g[x].adds \in Seq(O)
        /\ g[x].misses \in Seq(N)

\* The fields of a state and of a node, by name.
SeenIn(st) == st.seen
PlanOf(st) == st.order
Mark(g, x) == g[x].mark
NextOf(g, x) == g[x].next
Adds(g, x) == g[x].adds

Marks(g, U) == {Mark(g, x) : x \in U}

\* From no node can more than finitely many be reached.
LocallyFinite(g) == \A x \in DOMAIN g : \E U : Confined(g, U) /\ x \in U

Enter(g, st, x) == [st EXCEPT !.seen = @ \cup {g[x].mark}]
Leave(g, st, x) == [st EXCEPT !.order = @ \o g[x].adds, !.unresolved = @ \o g[x].misses]

\* What the visitor makes of a node, given itself.
Body(visit, g, st, x) ==
    IF g[x].mark \in st.seen THEN st ELSE Leave(g, Walk(visit, Enter(g, st, x), g[x].next), x)

\* What the visitor can be called with.
Calls(S, g) == S \X DOMAIN g

VisitRule(visit, State, g) ==
    visit = [call \in Calls(State, g) |-> Body(visit, g, call[1], call[2])]

\* Visit is some function with the rule of the visitor.
LEMMA VisitIsChosen ==
    ASSUME NEW State, NEW g
    PROVE  Visit(State, g) = CHOOSE visit : VisitRule(visit, State, g)
BY DEF Visit, VisitRule, Calls, Body, Enter, Leave

\* The visitor, by the names of the fields.
LEMMA BodyIs ==
    ASSUME NEW visit, NEW g, NEW st, NEW x
    PROVE  Body(visit, g, st, x) =
             IF Mark(g, x) \in SeenIn(st) THEN st
             ELSE Leave(g, Walk(visit, Enter(g, st, x), NextOf(g, x)), x)
BY DEF Body, Mark, SeenIn, NextOf

\* What a node has of its mark, next nodes and packages.
LEMMA GraphFields ==
    ASSUME NEW M, NEW O, NEW N, NEW g, GraphOver(g, M, O, N), NEW x \in DOMAIN g
    PROVE  Mark(g, x) \in M /\ NextOf(g, x) \in Seq(DOMAIN g) /\ Adds(g, x) \in Seq(O)
BY DEF GraphOver, Mark, NextOf, Adds

\* What a state of the visitor has of marks and plan.
LEMMA StateFields ==
    ASSUME NEW M, NEW O, NEW N, NEW st \in States(M, O, N)
    PROVE  SeenIn(st) \in SUBSET M /\ PlanOf(st) \in Seq(O)
BY DEF States, SeenIn, PlanOf

\* To enter a node marks it, to leave it adds its packages.
LEMMA EnterLeave ==
    ASSUME NEW M, NEW O, NEW N, NEW g, GraphOver(g, M, O, N), NEW x \in DOMAIN g,
           NEW st \in States(M, O, N)
    PROVE  /\ Enter(g, st, x) \in States(M, O, N)
           /\ \A m : m \in SeenIn(Enter(g, st, x)) <=> m \in SeenIn(st) \/ m = Mark(g, x)
           /\ PlanOf(Enter(g, st, x)) = PlanOf(st)
           /\ Leave(g, st, x) \in States(M, O, N)
           /\ SeenIn(Leave(g, st, x)) = SeenIn(st)
           /\ PlanOf(Leave(g, st, x)) = PlanOf(st) \o Adds(g, x)
<1> DEFINE adds == g[x].adds   misses == g[x].misses   seen == st.seen \cup {g[x].mark}
           order == st.order \o adds   unresolved == st.unresolved \o misses
<1>1. seen \in SUBSET M /\ adds \in Seq(O) /\ misses \in Seq(N)
  BY DEF GraphOver, States
<1>2. st.order \in Seq(O) /\ st.unresolved \in Seq(N)
  BY DEF States
<1>3. order \in Seq(O) /\ unresolved \in Seq(N)
  BY <1>1, <1>2
<1>4. Enter(g, st, x) = [st EXCEPT !.seen = seen]
  BY DEF Enter
<1>5. Leave(g, st, x) = [[st EXCEPT !.order = order] EXCEPT !.unresolved = unresolved]
  BY DEF Leave
<1> HIDE DEF adds, misses, seen, order, unresolved
<1>6. [st EXCEPT !.seen = seen] \in States(M, O, N)
  BY <1>1 DEF States
<1>7. [[st EXCEPT !.order = order] EXCEPT !.unresolved = unresolved] \in States(M, O, N)
  BY <1>3 DEF States
<1>8. [st EXCEPT !.seen = seen].seen = seen /\ [st EXCEPT !.seen = seen].order = st.order
  BY DEF States
<1>9. /\ [[st EXCEPT !.order = order] EXCEPT !.unresolved = unresolved].seen = st.seen
      /\ [[st EXCEPT !.order = order] EXCEPT !.unresolved = unresolved].order = order
  BY DEF States
<1>10. seen = st.seen \cup {g[x].mark} /\ order = st.order \o g[x].adds
  BY DEF seen, order, adds
<1> QED
  BY <1>4, <1>5, <1>6, <1>7, <1>8, <1>9, <1>10 DEF SeenIn, PlanOf, Mark, Adds

\* To enter a node marks it and no other.
LEMMA EnterSees ==
    ASSUME NEW M, NEW O, NEW N, NEW g, GraphOver(g, M, O, N), NEW x \in DOMAIN g,
           NEW st \in States(M, O, N), NEW m
    PROVE  m \in SeenIn(Enter(g, st, x)) <=> m \in SeenIn(st) \/ m = Mark(g, x)
BY DEF Enter, States, SeenIn, Mark

\* To enter a node plans nothing.
LEMMA EnterPlans ==
    ASSUME NEW M, NEW O, NEW N, NEW g, NEW x, NEW st \in States(M, O, N)
    PROVE  PlanOf(Enter(g, st, x)) = PlanOf(st)
BY DEF Enter, States, PlanOf

\* To leave a node marks nothing.
LEMMA LeaveSees ==
    ASSUME NEW M, NEW O, NEW N, NEW g, NEW x, NEW st \in States(M, O, N)
    PROVE  SeenIn(Leave(g, st, x)) = SeenIn(st)
BY DEF Leave, States, SeenIn

\* To leave a node plans its packages, after all others.
LEMMA LeavePlans ==
    ASSUME NEW M, NEW O, NEW N, NEW g, NEW x, NEW st \in States(M, O, N)
    PROVE  PlanOf(Leave(g, st, x)) = PlanOf(st) \o Adds(g, x)
BY DEF Leave, States, PlanOf, Adds

\* A walk stays where each of its visits stays, and two visitors that agree there
\* walk the same way.
LEMMA WalkWithin ==
    ASSUME NEW visit, NEW other, NEW B, NEW U, NEW nodes \in Seq(U), NEW st \in B,
           \A s \in B : \A x \in U : visit[<<s, x>>] \in B /\ other[<<s, x>>] = visit[<<s, x>>]
    PROVE  Walk(visit, st, nodes) \in B /\ Walk(other, st, nodes) = Walk(visit, st, nodes)
<1>1. PICK f : WalkTrace(f, visit, st, nodes) /\ Walk(visit, st, nodes) = f[Len(nodes)]
  BY WalkHasTrace
<1>2. PICK h : WalkTrace(h, other, st, nodes) /\ Walk(other, st, nodes) = h[Len(nodes)]
  BY WalkHasTrace
<1> DEFINE T == {n \in 0..Len(nodes) : f[n] \in B /\ h[n] = f[n]}
<1>3. 0 \in T
  BY <1>1, <1>2 DEF WalkTrace
<1>4. ASSUME NEW n \in 0..Len(nodes), n < Len(nodes), n \in T PROVE n + 1 \in T
  <2>1. nodes[n + 1] \in U /\ n + 1 \in 0..Len(nodes)
    BY <1>4
  <2>2. f[n + 1] = visit[<<f[n], nodes[n + 1]>>] /\ h[n + 1] = other[<<h[n], nodes[n + 1]>>]
    BY <1>1, <1>2, <1>4 DEF WalkTrace, WalkNext
  <2>3. f[n] \in B /\ h[n] = f[n]
    BY <1>4
  <2> QED
    BY <2>1, <2>2, <2>3
<1>5. 0..Len(nodes) \subseteq T
  <2> HIDE DEF T
  <2> QED
    BY SMTT(30), <1>3, <1>4, UpTo
<1> QED
  BY <1>1, <1>2, <1>5

--------------------------------------------------------------------------------
(* The visitor as it is after at most so many nested calls. *)

Deeper(visit, S, g) == [call \in S |-> Body(visit, g, call[1], call[2])]

FuelRule(f, S, g, n) ==
    f = [i \in 0..n |-> IF i = 0 THEN [call \in S |-> call[1]] ELSE Deeper(f[i - 1], S, g)]

Fuel(S, g, n) == (CHOOSE f : FuelRule(f, S, g, n))[n]

\* The visitor with n levels of recursion exists.
LEMMA FuelExists ==
    ASSUME NEW S, NEW g, NEW n \in Nat
    PROVE  \E f : FuelRule(f, S, g, n)
<1> DEFINE T == {m \in Nat : \E f : FuelRule(f, S, g, m)}
<1>1. 0 \in T
  <2> DEFINE h == [i \in 0..0 |-> [call \in S |-> call[1]]]
  <2>1. FuelRule(h, S, g, 0)
    BY DEF FuelRule
  <2> HIDE DEF h
  <2> QED
    BY <2>1
<1>2. ASSUME NEW m \in Nat, m \in T PROVE m + 1 \in T
  <2>1. PICK f : FuelRule(f, S, g, m)
    BY <1>2
  <2> DEFINE h == [i \in 0..(m + 1) |-> IF i = m + 1 THEN Deeper(f[m], S, g) ELSE f[i]]
  <2>2. \A i \in 0..m : f[i] = IF i = 0 THEN [call \in S |-> call[1]] ELSE Deeper(f[i - 1], S, g)
    BY <2>1 DEF FuelRule
  <2>3. ASSUME NEW i \in 0..(m + 1)
        PROVE  h[i] = IF i = 0 THEN [call \in S |-> call[1]] ELSE Deeper(h[i - 1], S, g)
    BY <2>2
  <2>4. FuelRule(h, S, g, m + 1)
    BY <2>3 DEF FuelRule
  <2> HIDE DEF h
  <2>5. \E k : FuelRule(k, S, g, m + 1)
    BY <2>4
  <2> QED
    BY <2>5
<1>3. Nat \subseteq T
  <2> HIDE DEF T
  <2> QED
    BY <1>1, <1>2, All
<1> QED
  BY <1>3

\* A level more is the visitor given the one with a level less.
LEMMA FuelSteps ==
    ASSUME NEW S, NEW g, NEW n \in Nat
    PROVE  Fuel(S, g, n + 1) = Deeper(Fuel(S, g, n), S, g)
<1> DEFINE f == CHOOSE f : FuelRule(f, S, g, n)
           h == CHOOSE h : FuelRule(h, S, g, n + 1)
<1>1. FuelRule(f, S, g, n)
  BY FuelExists
<1>2. FuelRule(h, S, g, n + 1)
  <2>1. n + 1 \in Nat
    OBVIOUS
  <2> QED
    BY <2>1, FuelExists
<1>3. Fuel(S, g, n) = f[n] /\ Fuel(S, g, n + 1) = h[n + 1]
  BY DEF Fuel
<1> HIDE DEF f, h
<1> DEFINE T == {i \in 0..n : h[i] = f[i]}
<1>4. 0 \in T
  BY <1>1, <1>2 DEF FuelRule
<1>5. ASSUME NEW i \in 0..n, i < n, i \in T PROVE i + 1 \in T
  <2>1. f[i + 1] = Deeper(f[i], S, g)
    BY <1>1, <1>5 DEF FuelRule
  <2>2. h[i + 1] = Deeper(h[i], S, g)
    BY <1>2, <1>5 DEF FuelRule
  <2> QED
    BY <2>1, <2>2, <1>5
<1>6. 0..n \subseteq T
  <2> HIDE DEF T
  <2> QED
    BY <1>4, <1>5, UpTo
<1>7. h[n] = f[n]
  BY <1>6
<1>8. h[n + 1] = Deeper(h[n], S, g)
  BY <1>2 DEF FuelRule
<1> QED
  BY <1>3, <1>7, <1>8

\* What is left to be seen of a part of the graph.
Left(g, U, st) == Cardinality(Marks(g, U) \ SeenIn(st))

\* Finitely many nodes have finitely many marks.
LEMMA MarksFinite ==
    ASSUME NEW g, NEW U, IsFiniteSet(U)
    PROVE  IsFiniteSet(Marks(g, U))
<1> DEFINE f == [x \in U |-> Mark(g, x)]
<1>1. Range(f) = Marks(g, U)
  BY DEF Range, Marks
<1>2. f = [x \in U |-> f[x]]
  OBVIOUS
<1> HIDE DEF f
<1> QED
  BY <1>1, <1>2, FiniteImage

\* It does not grow, and shrinks when a node is entered that was not seen.
LEMMA LeftShrinks ==
    ASSUME NEW g, NEW U, IsFiniteSet(U), NEW st, NEW to, SeenIn(st) \subseteq SeenIn(to)
    PROVE  /\ Left(g, U, st) \in Nat /\ Left(g, U, to) \in Nat
           /\ Left(g, U, to) <= Left(g, U, st)
           /\ (\E m \in Marks(g, U) : m \in SeenIn(to) /\ m \notin SeenIn(st)) =>
                 Left(g, U, to) < Left(g, U, st)
<1> DEFINE A == Marks(g, U) \ SeenIn(st)   B == Marks(g, U) \ SeenIn(to)
<1>1. B \in SUBSET A /\ A \in SUBSET Marks(g, U)
  OBVIOUS
<1>2. IsFiniteSet(A)
  BY <1>1, MarksFinite, Smaller
<1>3. (\E m \in Marks(g, U) : m \in SeenIn(to) /\ m \notin SeenIn(st)) => B # A
  OBVIOUS
<1>4. Left(g, U, st) = Cardinality(A) /\ Left(g, U, to) = Cardinality(B)
  BY DEF Left
<1> HIDE DEF A, B
<1>5. /\ Cardinality(A) \in Nat /\ Cardinality(B) \in Nat /\ Cardinality(B) <= Cardinality(A)
      /\ B # A => Cardinality(B) < Cardinality(A)
  BY <1>1, <1>2, Smaller
<1> QED
  BY <1>3, <1>4, <1>5

\* The states in which less than n marks are left.
Few(S, g, U, n) == {st \in S : Left(g, U, st) < n}

\* With fuel for what is left, the visitor is defined, and more does not change it.
Settled(S, g, U, n, visit, other) ==
    \A st \in Few(S, g, U, n) : \A x \in U :
        /\ visit[<<st, x>>] \in S
        /\ SeenIn(st) \subseteq SeenIn(visit[<<st, x>>])
        /\ other[<<st, x>>] = visit[<<st, x>>]

\* What a level more makes of a node.
LEMMA DeeperIs ==
    ASSUME NEW S, NEW g, NEW visit, NEW st \in S, NEW x \in DOMAIN g
    PROVE  Deeper(visit, Calls(S, g), g)[<<st, x>>] = Body(visit, g, st, x)
<1>1. <<st, x>> \in Calls(S, g)
  BY DEF Calls
<1> QED
  BY <1>1 DEF Deeper

\* One more level is settled if the levels below it are.
LEMMA BodySettles ==
    ASSUME NEW M, NEW O, NEW N, NEW g, GraphOver(g, M, O, N), NEW U, Confined(g, U),
           NEW n \in Nat, NEW visit, NEW other,
           Settled(States(M, O, N), g, U, n, visit, other),
           NEW st \in States(M, O, N), Left(g, U, st) < n + 1, NEW x \in DOMAIN g, x \in U
    PROVE  /\ Body(visit, g, st, x) \in States(M, O, N)
           /\ SeenIn(st) \subseteq SeenIn(Body(visit, g, st, x))
           /\ Body(other, g, st, x) = Body(visit, g, st, x)
<1> DEFINE S == States(M, O, N)
           in == Enter(g, st, x)
           B == {s \in Few(S, g, U, n) : SeenIn(in) \subseteq SeenIn(s)}
<1>1. st \in S /\ x \in DOMAIN g /\ IsFiniteSet(U) /\ Left(g, U, st) < n + 1
  BY DEF Confined
<1>2. CASE Mark(g, x) \in SeenIn(st)
  BY <1>1, <1>2, BodyIs
<1>3. CASE Mark(g, x) \notin SeenIn(st)
  <2>1. in \in S /\ SeenIn(st) \subseteq SeenIn(in) /\ Mark(g, x) \in SeenIn(in)
    <3>2. Enter(g, st, x) \in States(M, O, N) /\ \A m : m \in SeenIn(Enter(g, st, x)) <=> m \in SeenIn(st) \/ m = Mark(g, x)
      BY EnterLeave
    <3> QED
      BY <3>2
  <2>2. Mark(g, x) \in Marks(g, U) /\ SeenIn(st) \subseteq SeenIn(in) /\ Mark(g, x) \in SeenIn(in)
    BY <2>1 DEF Marks
  <2> HIDE DEF in
  <2>3. Left(g, U, in) < Left(g, U, st) /\ Left(g, U, in) \in Nat /\ Left(g, U, st) \in Nat
    BY <1>1, <1>3, <2>2, LeftShrinks
  <2>4. in \in B
    BY <2>1, <2>3, <1>1 DEF Few
  <2>5. ASSUME NEW s \in B, NEW y \in U
        PROVE  visit[<<s, y>>] \in B /\ other[<<s, y>>] = visit[<<s, y>>]
    <3>1. s \in Few(S, g, U, n) /\ SeenIn(in) \subseteq SeenIn(s)
      OBVIOUS
    <3> HIDE DEF B, S
    <3>2. visit[<<s, y>>] \in S /\ SeenIn(s) \subseteq SeenIn(visit[<<s, y>>])
          /\ other[<<s, y>>] = visit[<<s, y>>]
      BY <3>1 DEF Settled, S
    <3>3. /\ Left(g, U, visit[<<s, y>>]) <= Left(g, U, s)
          /\ Left(g, U, visit[<<s, y>>]) \in Nat /\ Left(g, U, s) \in Nat
      BY <3>2, <1>1, LeftShrinks
    <3>4. Left(g, U, s) < n
      BY <3>1 DEF Few
    <3>5. visit[<<s, y>>] \in Few(S, g, U, n)
      BY <3>2, <3>3, <3>4 DEF Few
    <3> QED
      BY <3>1, <3>2, <3>5 DEF B
  <2>6. NextOf(g, x) \in Seq(U)
    <3>1. NextOf(g, x) \in Seq(DOMAIN g) /\ Range(NextOf(g, x)) \subseteq U
      BY <1>1, GraphFields DEF NextOf, Confined, ClosedUnder
    <3> DEFINE next == NextOf(g, x)
    <3> HIDE DEF next
    <3>2. next \in Seq(DOMAIN g) /\ \A i \in 1..Len(next) : next[i] \in U
      BY <3>1 DEF next, Range
    <3>3. next \in Seq(U)
      BY <3>2
    <3> QED
      BY <3>3 DEF next
  <2> DEFINE below == Walk(visit, in, NextOf(g, x))
  <2>7. below \in B /\ Walk(other, in, NextOf(g, x)) = below
    <3> HIDE DEF B
    <3>1. \A s \in B : \A y \in U : visit[<<s, y>>] \in B /\ other[<<s, y>>] = visit[<<s, y>>]
      BY <2>5
    <3> QED
      BY ONLY <2>4, <3>1, <2>6, WalkWithin
  <2>8. below \in S /\ SeenIn(in) \subseteq SeenIn(below)
    BY <2>7 DEF Few
  <2> HIDE DEF below
  <2>9. Leave(g, below, x) \in S /\ SeenIn(Leave(g, below, x)) = SeenIn(below)
    <3>1. below \in States(M, O, N) /\ x \in DOMAIN g
      BY <1>1, <2>8
    <3> QED
      BY ONLY <3>1, EnterLeave, GraphOver(g, M, O, N)
  <2>10. Body(visit, g, st, x) = Leave(g, below, x)
    BY <1>3, BodyIs DEF below, in
  <2>11. Body(other, g, st, x) = Leave(g, below, x)
    BY <1>3, <2>7, BodyIs DEF in
  <2> QED
    BY <2>2, <2>8, <2>9, <2>10, <2>11
<1> QED
  BY <1>2, <1>3

\* More levels than there are marks left change nothing.
LEMMA FuelSettles ==
    ASSUME NEW M, NEW O, NEW N, NEW g, GraphOver(g, M, O, N), NEW U, Confined(g, U),
           NEW n \in Nat
    PROVE  LET S == States(M, O, N)
           IN  Settled(S, g, U, n, Fuel(Calls(S, g), g, n), Fuel(Calls(S, g), g, n + 1))
<1> DEFINE S == States(M, O, N)
           F(i) == Fuel(Calls(S, g), g, i)
           T == {i \in Nat : Settled(S, g, U, i, F(i), F(i + 1))}
<1> HIDE DEF S
<1>1. 0 \in T
  <2>1. \A st \in S : ~(Left(g, U, st) < 0)
    <3> SUFFICES ASSUME NEW st \in S PROVE ~(Left(g, U, st) < 0)
      OBVIOUS
    <3>1. IsFiniteSet(U)
      BY DEF Confined
    <3>2. Left(g, U, st) \in Nat
      BY <3>1, LeftShrinks
    <3> QED
      BY <3>2
  <2> QED
    BY <2>1 DEF Settled, Few
<1>2. ASSUME NEW i \in Nat, i \in T PROVE i + 1 \in T
  <2>1. F(i + 1) = Deeper(F(i), Calls(S, g), g)
    BY FuelSteps
  <2>2. F((i + 1) + 1) = Deeper(F(i + 1), Calls(S, g), g)
    <3>1. i + 1 \in Nat
      OBVIOUS
    <3> QED
      BY <3>1, FuelSteps
  <2>3. Settled(S, g, U, i, F(i), F(i + 1))
    BY <1>2
  <2> HIDE DEF F
  <2>4. ASSUME NEW st \in Few(S, g, U, i + 1), NEW x \in U
        PROVE  /\ F(i + 1)[<<st, x>>] \in S
               /\ SeenIn(st) \subseteq SeenIn(F(i + 1)[<<st, x>>])
               /\ F((i + 1) + 1)[<<st, x>>] = F(i + 1)[<<st, x>>]
    <3>1. st \in S /\ x \in DOMAIN g
      BY DEF Few, Confined
    <3>2. /\ Body(F(i), g, st, x) \in S
          /\ SeenIn(st) \subseteq SeenIn(Body(F(i), g, st, x))
          /\ Body(F(i + 1), g, st, x) = Body(F(i), g, st, x)
      <4>1. st \in States(M, O, N) /\ Left(g, U, st) < i + 1
        BY <2>4 DEF Few, S
      <4> QED
        BY <3>1, <4>1, <2>3, BodySettles DEF S
    <3>3. F(i + 1)[<<st, x>>] = Body(F(i), g, st, x)
      BY <2>1, <3>1, DeeperIs
    <3>4. F((i + 1) + 1)[<<st, x>>] = Body(F(i + 1), g, st, x)
      BY <2>2, <3>1, DeeperIs
    <3> QED
      BY <3>2, <3>3, <3>4
  <2>5. Settled(S, g, U, i + 1, F(i + 1), F((i + 1) + 1))
    BY <2>4 DEF Settled
  <2> QED
    BY <2>5
<1>3. Nat \subseteq T
  <2> HIDE DEF T
  <2> QED
    BY <1>1, <1>2, All
<1>4. Settled(S, g, U, n, F(n), F(n + 1))
  BY <1>3
<1> QED
  BY <1>4 DEF S

\* From some fuel on, more does not change what the visitor does.
Stable(S, g, p, k) ==
    \A j \in Nat : j >= k => Fuel(Calls(S, g), g, j)[p] = Fuel(Calls(S, g), g, k)[p]

\* The visitor with as much fuel as it takes.
Enough(S, g) ==
    [p \in Calls(S, g) |->
        Fuel(Calls(S, g), g, CHOOSE k \in Nat : Stable(S, g, p, k))[p]]

\* With enough levels the result of a visit stays the same.
LEMMA FuelStable ==
    ASSUME NEW M, NEW O, NEW N, NEW g, GraphOver(g, M, O, N), NEW U, Confined(g, U),
           NEW n \in Nat, NEW st \in States(M, O, N), Left(g, U, st) < n, NEW x \in U
    PROVE  /\ Stable(States(M, O, N), g, <<st, x>>, n)
           /\ Enough(States(M, O, N), g)[<<st, x>>]
                 = Fuel(Calls(States(M, O, N), g), g, n)[<<st, x>>]
<1> DEFINE S == States(M, O, N)
           F(i) == Fuel(Calls(S, g), g, i)
           p == <<st, x>>
<1>0. p \in Calls(S, g)
  BY DEF Confined, Calls
<1>1. IsFiniteSet(U) /\ Left(g, U, st) \in Nat
  <2>1. IsFiniteSet(U)
    BY DEF Confined
  <2> QED
    BY <2>1, LeftShrinks
<1>2. ASSUME NEW j \in Nat, j >= n PROVE F(j + 1)[p] = F(j)[p]
  <2>1. Settled(S, g, U, j, F(j), F(j + 1))
    BY FuelSettles
  <2>2. st \in Few(S, g, U, j)
    BY <1>1, <1>2 DEF Few
  <2> HIDE DEF F, S
  <2> QED
    BY <2>1, <2>2 DEF Settled
<1> HIDE DEF F
<1>3. \A j \in Nat : j >= n => F(j)[p] = F(n)[p]
  <2> DEFINE T == {j \in Nat : j >= n => F(j)[p] = F(n)[p]}
  <2> HIDE DEF p
  <2>1. 0 \in T
    OBVIOUS
  <2>2. ASSUME NEW j \in Nat, j \in T PROVE j + 1 \in T
    <3>1. CASE j >= n
      BY <2>2, <3>1, <1>2
    <3>2. CASE j + 1 = n
      BY <3>2
    <3>3. CASE j + 1 < n
      BY <3>3
    <3> QED
      BY <3>1, <3>2, <3>3
  <2>3. Nat \subseteq T
    <3> HIDE DEF T
    <3> QED
      BY <2>1, <2>2, All
  <2> QED
    BY <2>3
<1>4. Stable(S, g, p, n)
  BY <1>3 DEF Stable, F
<1> DEFINE k == CHOOSE k \in Nat : Stable(S, g, p, k)
<1>5. k \in Nat /\ Stable(S, g, p, k)
  <2> HIDE DEF p, S
  <2> QED
    BY <1>4
<1>6. Enough(S, g)[p] = F(k)[p]
  BY <1>0 DEF Enough, F
<1> HIDE DEF k, p, S
<1>7. \A j \in Nat : j >= k => F(j)[p] = F(k)[p]
  BY <1>5 DEF Stable, F
<1>8. F(k)[p] = F(n)[p]
  <2>1. CASE k >= n
    BY <2>1, <1>3, <1>5
  <2>2. CASE n >= k
    BY <2>2, <1>7
  <2> QED
    BY <2>1, <2>2, <1>5
<1> QED
  BY <1>4, <1>6, <1>8 DEF F, p, S

\* The limit of the levels is what any number of them gives that is enough.
LEMMA EnoughIs ==
    ASSUME NEW M, NEW O, NEW N, NEW g, GraphOver(g, M, O, N), NEW U, Confined(g, U),
           NEW n \in Nat, NEW st \in States(M, O, N), NEW x, x \in U, Left(g, U, st) < n
    PROVE  Enough(States(M, O, N), g)[<<st, x>>]
              = Fuel(Calls(States(M, O, N), g), g, n)[<<st, x>>]
BY FuelStable

\* So the visitor exists: it is what its definition says, and its visits only add to
\* what has been seen.
THEOREM VisitDefined ==
    ASSUME NEW M, NEW O, NEW N, NEW g, GraphOver(g, M, O, N), LocallyFinite(g)
    PROVE  VisitRule(Visit(States(M, O, N), g), States(M, O, N), g)
<1> DEFINE S == States(M, O, N)
           v == Enough(S, g)
<1>1. ASSUME NEW st \in S, NEW x \in DOMAIN g PROVE v[<<st, x>>] = Body(v, g, st, x)
  <2>1. PICK U : Confined(g, U) /\ x \in U
    BY DEF LocallyFinite
  <2>2. IsFiniteSet(U)
    BY <2>1 DEF Confined
  <2> DEFINE n == Left(g, U, st) + 1
             F(i) == Fuel(Calls(S, g), g, i)
  <2>3. Left(g, U, st) \in Nat
    BY <2>2, LeftShrinks
  <2>4. n \in Nat /\ n + 1 \in Nat /\ Left(g, U, st) < n /\ Left(g, U, st) < n + 1
    BY <2>3
  <2> HIDE DEF n
  <2>5. v[<<st, x>>] = F(n + 1)[<<st, x>>]
    BY <2>1, <2>4, EnoughIs
  <2>6. F(n + 1)[<<st, x>>] = Body(F(n), g, st, x)
    <3>1. F(n + 1) = Deeper(F(n), Calls(S, g), g)
      BY <2>4, FuelSteps
    <3> HIDE DEF F, S
    <3> QED
      BY <3>1, DeeperIs
  <2>7. Settled(S, g, U, n, F(n), v)
    <3>1. Settled(S, g, U, n, F(n), F(n + 1))
      BY <2>1, <2>4, FuelSettles
    <3>2. ASSUME NEW s \in Few(S, g, U, n), NEW y \in U PROVE v[<<s, y>>] = F(n)[<<s, y>>]
      <4>1. s \in S /\ Left(g, U, s) < n
        BY DEF Few
      <4> QED
        BY <4>1, <2>1, <2>4, EnoughIs
    <3> HIDE DEF S, F, v
    <3> QED
      BY <3>1, <3>2 DEF Settled
  <2>8. Body(v, g, st, x) = Body(F(n), g, st, x)
    <3> HIDE DEF F, v
    <3> QED
      BY <2>1, <2>4, <2>7, BodySettles
  <2> QED
    BY <2>5, <2>6, <2>8
<1>2. VisitRule(v, S, g)
  <2>1. v = [p \in Calls(S, g) |-> v[p]]
    BY DEF Enough
  <2> HIDE DEF v, S
  <2>2. ASSUME NEW p \in Calls(S, g) PROVE v[p] = Body(v, g, p[1], p[2])
    <3>1. p = <<p[1], p[2]>> /\ p[1] \in S /\ p[2] \in DOMAIN g
      BY DEF Calls
    <3> QED
      BY <3>1, <1>1
  <2> QED
    BY <2>1, <2>2 DEF VisitRule
<1>3. \E w : VisitRule(w, S, g)
  <2> HIDE DEF v, S
  <2> QED
    BY <1>2
<1> QED
  BY <1>3, VisitIsChosen

\* The visitor satisfies its recursion, on a graph whose parts are finite.
LEMMA VisitIs ==
    ASSUME NEW M, NEW O, NEW N, NEW g, GraphOver(g, M, O, N), LocallyFinite(g),
           NEW st \in States(M, O, N), NEW x \in DOMAIN g
    PROVE  Visit(States(M, O, N), g)[<<st, x>>] = Body(Visit(States(M, O, N), g), g, st, x)
<1> DEFINE S == States(M, O, N)   v == Visit(S, g)
<1>1. VisitRule(v, S, g)
  BY VisitDefined
<1> HIDE DEF v, S
<1>2. <<st, x>> \in Calls(S, g)
  BY DEF S, Calls
<1>3. v[<<st, x>>] = Body(v, g, st, x)
  BY <1>1, <1>2 DEF VisitRule
<1> QED
  BY <1>3 DEF v, S

--------------------------------------------------------------------------------
(* What the visitor does. *)

From(g, x) == Reach(g, {x})

\* Nodes that are known by the same mark add the same and lead to the same marks.
MarksAgree(g, U) ==
    \A x, y \in U : Mark(g, x) = Mark(g, y) =>
        /\ Range(Adds(g, x)) = Range(Adds(g, y))
        /\ \A z \in Range(NextOf(g, x)) : \E w \in Range(NextOf(g, y)) : Mark(g, w) = Mark(g, z)

\* order[i] stands for the node x, and what x leads to, unless it leads back to the
\* mark of x, comes before.
Placed(g, order, i, x) ==
    /\ order[i] \in Range(Adds(g, x))
    /\ \A y \in Range(NextOf(g, x)) :
          (\A z \in From(g, y) : Mark(g, z) # Mark(g, x)) =>
              \A z \in From(g, y) : \A p \in Range(Adds(g, z)) : \E m \in 1..(i - 1) : order[m] = p

\* The marks of P are those of the nodes that have been entered and not left.
Finished(g, U, st, P) ==
    \A x \in U : Mark(g, x) \in SeenIn(st) /\ Mark(g, x) \notin P =>
        /\ Range(Adds(g, x)) \subseteq Range(PlanOf(st))
        /\ \A y \in Range(NextOf(g, x)) : Mark(g, y) \in SeenIn(st)

Ordered(g, U, st) == \A i \in DOMAIN PlanOf(st) : \E x \in U : Placed(g, PlanOf(st), i, x)

Good(g, U, st, P) == Finished(g, U, st, P) /\ Ordered(g, U, st)

\* All of them lead to x.
LeadTo(g, U, P, x) == \A m \in P : \E w \in U : Mark(g, w) = m /\ x \in From(g, w)

\* The parts of a graph that are looked at.
Part(g, U) == ClosedUnder(g, DOMAIN g) /\ Confined(g, U)

\* What can be reached from a node of a part: the least closed set with it.
LEMMA FromIs ==
    ASSUME NEW g, NEW U, Part(g, U), NEW x \in U
    PROVE  /\ x \in From(g, x)
           /\ From(g, x) \subseteq U
           /\ \A z \in From(g, x) : Range(NextOf(g, z)) \subseteq From(g, x)
           /\ \A C \in SUBSET DOMAIN g : x \in C /\ ClosedUnder(g, C) => From(g, x) \subseteq C
<1>1. {x} \in SUBSET U
  OBVIOUS
<1>2. /\ {x} \subseteq Reach(g, {x})
      /\ Confined(g, Reach(g, {x}))
      /\ \A C \in SUBSET DOMAIN g : {x} \subseteq C /\ ClosedUnder(g, C) => Reach(g, {x}) \subseteq C
  BY <1>1, Reached DEF Part
<1>3. \A z \in Reach(g, {x}) : Range(NextOf(g, z)) \subseteq Reach(g, {x})
  BY <1>2 DEF Confined, ClosedUnder, NextOf
<1>4. Reach(g, {x}) \subseteq U
  BY <1>2 DEF Part, Confined
<1> QED
  BY <1>2, <1>3, <1>4 DEF From

\* A part of what is reached that contains the start and is closed is all of it.
LEMMA FromAll ==
    ASSUME NEW g, NEW U, Part(g, U), NEW x \in U, NEW C \in SUBSET From(g, x), x \in C,
           \A z \in C : \A y \in Range(NextOf(g, z)) : y \in C
    PROVE  C = From(g, x)
<1>1. C \in SUBSET DOMAIN g
  BY FromIs DEF Part, Confined
<1>2. ClosedUnder(g, C)
  BY DEF ClosedUnder, NextOf
<1>3. From(g, x) \subseteq C
  BY <1>1, <1>2, FromIs
<1> QED
  BY <1>3

\* What is reached from what is reached is reached.
LEMMA FromTwice ==
    ASSUME NEW g, NEW U, Part(g, U), NEW x \in U, NEW y \in From(g, x)
    PROVE  y \in U /\ From(g, y) \subseteq From(g, x)
<1>1. y \in U
  BY FromIs
<1> DEFINE C == From(g, y) \cap From(g, x)
<1>2. \A z \in From(g, x) : Range(NextOf(g, z)) \subseteq From(g, x)
  BY FromIs
<1>3. y \in From(g, y) /\ \A z \in From(g, y) : Range(NextOf(g, z)) \subseteq From(g, y)
  BY <1>1, FromIs
<1>4. y \in C /\ \A z \in C : \A w \in Range(NextOf(g, z)) : w \in C
  BY <1>2, <1>3
<1>5. C \in SUBSET From(g, y)
  OBVIOUS
<1> HIDE DEF C
<1>6. C = From(g, y)
  BY <1>1, <1>4, <1>5, FromAll
<1> QED
  BY <1>1, <1>6 DEF C

\* From nodes with the same mark the same marks are reached.
LEMMA SameMarksReached ==
    ASSUME NEW g, NEW U, Part(g, U), MarksAgree(g, U), NEW x \in U, NEW y \in U,
           Mark(g, x) = Mark(g, y), NEW z \in From(g, x)
    PROVE  \E w \in From(g, y) : Mark(g, w) = Mark(g, z)
<1> DEFINE C == {v \in From(g, x) : \E w \in From(g, y) : Mark(g, w) = Mark(g, v)}
<1>1. x \in C
  BY FromIs
<1>2. ASSUME NEW v \in C, NEW u \in Range(NextOf(g, v)) PROVE u \in C
  <2>1. PICK w \in From(g, y) : Mark(g, w) = Mark(g, v)
    OBVIOUS
  <2>2. v \in U /\ w \in U
    BY FromIs
  <2>3. PICK t \in Range(NextOf(g, w)) : Mark(g, t) = Mark(g, u)
    BY <2>1, <2>2 DEF MarksAgree
  <2>4. t \in From(g, y)
    BY FromIs
  <2>5. u \in From(g, x)
    BY FromIs
  <2> QED
    BY <2>3, <2>4, <2>5
<1>3. C \in SUBSET From(g, x)
  OBVIOUS
<1>4. \A v \in C : \A u \in Range(NextOf(g, v)) : u \in C
  BY <1>2
<1> HIDE DEF C
<1>5. C = From(g, x)
  BY <1>1, <1>3, <1>4, FromAll
<1> QED
  BY <1>5 DEF C

\* When the nodes that follow x have been walked, all they lead to is finished, unless
\* it leads back to x.
LEMMA BelowIsFinished ==
    ASSUME NEW g, NEW U, Part(g, U), MarksAgree(g, U), NEW P, NEW x \in U, LeadTo(g, U, P, x),
           NEW st, Finished(g, U, st, P \cup {Mark(g, x)}),
           NEW y \in Range(NextOf(g, x)), Mark(g, y) \in SeenIn(st),
           \A z \in From(g, y) : Mark(g, z) # Mark(g, x)
    PROVE  \A z \in From(g, y) : Range(Adds(g, z)) \subseteq Range(PlanOf(st))
<1>1. y \in U
  BY FromIs
<1>2. ASSUME NEW z \in From(g, y) PROVE Mark(g, z) \notin P
  <2> SUFFICES ASSUME Mark(g, z) \in P PROVE FALSE
    OBVIOUS
  <2>1. PICK w \in U : Mark(g, w) = Mark(g, z) /\ x \in From(g, w)
    BY DEF LeadTo
  <2>2. z \in U /\ From(g, z) \subseteq From(g, y)
    BY <1>1, FromTwice
  <2>3. PICK v \in From(g, z) : Mark(g, v) = Mark(g, x)
    BY <2>1, <2>2, SameMarksReached
  <2> QED
    BY <2>2, <2>3
<1> DEFINE C == {z \in From(g, y) : Mark(g, z) \in SeenIn(st)}
<1>3. y \in C
  BY <1>1, FromIs
<1>4. ASSUME NEW z \in From(g, y), Mark(g, z) \in SeenIn(st)
      PROVE  /\ Range(Adds(g, z)) \subseteq Range(PlanOf(st))
             /\ \A w \in Range(NextOf(g, z)) : Mark(g, w) \in SeenIn(st)
  <2>1. z \in U
    BY <1>1, FromIs
  <2>2. Mark(g, z) \notin P \cup {Mark(g, x)}
    BY <1>2
  <2> QED
    BY <1>4, <2>1, <2>2 DEF Finished
<1>5. \A z \in C : \A w \in Range(NextOf(g, z)) : w \in C
  <2> SUFFICES ASSUME NEW z \in C, NEW w \in Range(NextOf(g, z)) PROVE w \in C
    OBVIOUS
  <2>1. w \in From(g, y)
    BY <1>1, FromIs
  <2>2. Mark(g, w) \in SeenIn(st)
    BY <1>4
  <2> QED
    BY <2>1, <2>2
<1>6. C \in SUBSET From(g, y)
  OBVIOUS
<1>7. C = From(g, y)
  <2> HIDE DEF C
  <2> QED
    BY <1>1, <1>3, <1>5, <1>6, FromAll
<1> QED
  BY <1>4, <1>7

\* To enter a node keeps what is good but for the mark of the node, now pending.
LEMMA EnterKeepsGood ==
    ASSUME NEW M, NEW O, NEW N, NEW g, GraphOver(g, M, O, N), NEW U,
           NEW st \in States(M, O, N), NEW P, Good(g, U, st, P), NEW x \in DOMAIN g
    PROVE  Good(g, U, Enter(g, st, x), P \cup {Mark(g, x)})
<1> DEFINE in == Enter(g, st, x)
<1>1. PlanOf(in) = PlanOf(st) /\ \A m : m \in SeenIn(in) <=> m \in SeenIn(st) \/ m = Mark(g, x)
  BY EnterSees, EnterPlans
<1> HIDE DEF in
<1>2. Finished(g, U, in, P \cup {Mark(g, x)})
  BY <1>1 DEF Good, Finished
<1>3. Ordered(g, U, in)
  BY <1>1 DEF Good, Ordered
<1> QED
  BY <1>2, <1>3 DEF Good, in

\* The elements of one sequence after the other.
LEMMA RangeOfConcat ==
    ASSUME NEW O, NEW s \in Seq(O), NEW t \in Seq(O)
    PROVE  /\ s \o t \in Seq(O)
           /\ Range(s \o t) = Range(s) \cup Range(t)
           /\ \A i \in DOMAIN s : i \in DOMAIN (s \o t) /\ (s \o t)[i] = s[i]
           /\ \A i \in DOMAIN (s \o t) : i \in DOMAIN s \/ (i > Len(s) /\ (s \o t)[i] \in Range(t))
<1> DEFINE u == s \o t
<1>1. /\ u \in Seq(O) /\ Len(u) = Len(s) + Len(t) /\ Len(s) \in Nat /\ Len(t) \in Nat
      /\ DOMAIN s = 1..Len(s) /\ DOMAIN t = 1..Len(t) /\ DOMAIN u = 1..Len(u)
  OBVIOUS
<1>2. /\ \A i \in 1..Len(s) : u[i] = s[i]
      /\ \A i \in 1..(Len(s) + Len(t)) : i > Len(s) => u[i] = t[i - Len(s)]
  OBVIOUS
<1>3. \A i \in 1..Len(t) : u[i + Len(s)] = t[i] /\ i + Len(s) \in 1..Len(u)
  <2> SUFFICES ASSUME NEW i \in 1..Len(t) PROVE u[i + Len(s)] = t[i] /\ i + Len(s) \in 1..Len(u)
    OBVIOUS
  <2>1. i + Len(s) \in 1..(Len(s) + Len(t)) /\ i + Len(s) > Len(s) /\ (i + Len(s)) - Len(s) = i
    BY <1>1
  <2> QED
    BY <1>1, <1>2, <2>1
<1> HIDE DEF u
<1>4. Range(u) = {u[i] : i \in 1..Len(u)} /\ Range(s) = {s[i] : i \in 1..Len(s)}
      /\ Range(t) = {t[i] : i \in 1..Len(t)}
  BY <1>1 DEF Range
<1>5. \A i \in 1..Len(u) : i \in 1..Len(s) \/ (i > Len(s) /\ u[i] \in Range(t))
  <2> SUFFICES ASSUME NEW i \in 1..Len(u), i > Len(s) PROVE u[i] \in Range(t)
    BY <1>1
  <2>1. i - Len(s) \in 1..Len(t) /\ i \in 1..(Len(s) + Len(t))
    BY <1>1
  <2>2. u[i] = t[i - Len(s)]
    BY <2>1, <1>2
  <2> QED
    BY <2>1, <2>2, <1>4
<1>6. \A i \in 1..Len(s) : i \in 1..Len(u)
  BY <1>1
<1>7. Range(u) = Range(s) \cup Range(t)
  <2>1. Range(s) \subseteq Range(u)
    BY <1>2, <1>4, <1>6
  <2>2. Range(t) \subseteq Range(u)
    BY <1>3, <1>4
  <2>3. \A i \in 1..Len(u) : u[i] \in Range(s) \cup Range(t)
    BY <1>2, <1>4, <1>5
  <2> QED
    BY <1>4, <2>1, <2>2, <2>3
<1> QED
  BY <1>1, <1>2, <1>5, <1>6, <1>7 DEF u

\* What stands at a place depends on what is before it only.
LEMMA PlacedStays ==
    ASSUME NEW g, NEW O, NEW s \in Seq(O), NEW t, NEW i \in DOMAIN s, NEW x, Placed(g, s, i, x),
           \A j \in DOMAIN s : t[j] = s[j]
    PROVE  Placed(g, t, i, x)
<1>1. i \in 1..Len(s) /\ Len(s) \in Nat /\ DOMAIN s = 1..Len(s)
  OBVIOUS
<1>2. \A m \in 1..(i - 1) : t[m] = s[m]
  <2>1. \A m \in 1..(i - 1) : m \in 1..Len(s)
    BY <1>1
  <2> QED
    BY <1>1, <2>1
<1>3. t[i] = s[i]
  OBVIOUS
<1> QED
  BY <1>2, <1>3 DEF Placed

\* To leave a node whose next nodes have all been seen keeps what is good.
LEMMA LeaveKeepsGood ==
    ASSUME NEW M, NEW O, NEW N, NEW g, GraphOver(g, M, O, N), NEW U, Part(g, U), MarksAgree(g, U),
           NEW P, NEW x \in U, LeadTo(g, U, P, x),
           NEW st \in States(M, O, N), Good(g, U, st, P \cup {Mark(g, x)}),
           \A y \in Range(NextOf(g, x)) : Mark(g, y) \in SeenIn(st)
    PROVE  Good(g, U, Leave(g, st, x), P)
<1> DEFINE out == Leave(g, st, x)   s == PlanOf(st)   t == Adds(g, x)   u == s \o t
<1>0. x \in DOMAIN g
  BY DEF Part, Confined
<1>1. SeenIn(out) = SeenIn(st) /\ PlanOf(out) = u
  BY LeaveSees, LeavePlans
<1>2. s \in Seq(O) /\ t \in Seq(O)
  BY <1>0, GraphFields, StateFields
<1> HIDE DEF out
<1>3. /\ Range(u) = Range(s) \cup Range(t)
      /\ \A i \in DOMAIN s : u[i] = s[i]
      /\ \A i \in DOMAIN u : i \in DOMAIN s \/ (i > Len(s) /\ u[i] \in Range(t))
  <2> HIDE DEF s, t
  <2> QED
    BY <1>2, RangeOfConcat
<1> HIDE DEF u
<1>4. Finished(g, U, out, P)
  <2> SUFFICES ASSUME NEW z \in U, Mark(g, z) \in SeenIn(st), Mark(g, z) \notin P
               PROVE  /\ Range(Adds(g, z)) \subseteq Range(u)
                      /\ \A y \in Range(NextOf(g, z)) : Mark(g, y) \in SeenIn(st)
    BY <1>1 DEF Finished
  <2>1. CASE Mark(g, z) = Mark(g, x)
    <3>1. Range(Adds(g, z)) = Range(t)
      BY <2>1 DEF MarksAgree
    <3>2. \A y \in Range(NextOf(g, z)) : \E w \in Range(NextOf(g, x)) : Mark(g, w) = Mark(g, y)
      BY <2>1 DEF MarksAgree
    <3> QED
      BY <3>1, <3>2, <1>3
  <2>2. CASE Mark(g, z) # Mark(g, x)
    BY <2>2, <1>3 DEF Good, Finished
  <2> QED
    BY <2>1, <2>2
<1>5. ASSUME NEW i \in DOMAIN u PROVE \E z \in U : Placed(g, u, i, z)
  <2>1. CASE i \in DOMAIN s
    <3>1. PICK z \in U : Placed(g, s, i, z)
      BY <2>1 DEF Good, Ordered
    <3>2. Placed(g, u, i, z)
      <4> HIDE DEF s
      <4> QED
        BY <1>2, <1>3, <2>1, <3>1, PlacedStays
    <3> QED
      BY <3>2
  <2>2. CASE i > Len(s) /\ u[i] \in Range(t)
    <3>1. i \in Int /\ Len(s) \in Nat
      <4>1. u \in Seq(O)
        BY <1>2 DEF u
      <4> QED
        BY <4>1, <1>2
    <3>2. ASSUME NEW p \in Range(s) PROVE \E m \in 1..(i - 1) : u[m] = p
      <4>1. PICK m \in DOMAIN s : s[m] = p
        BY DEF Range
      <4>2. m \in 1..Len(s)
        BY <1>2, <4>1
      <4>3. m \in 1..(i - 1)
        BY <2>2, <3>1, <4>2
      <4> QED
        BY <4>1, <4>3, <1>3
    <3>3. ASSUME NEW y \in Range(NextOf(g, x)), \A z \in From(g, y) : Mark(g, z) # Mark(g, x),
                 NEW z \in From(g, y)
          PROVE  Range(Adds(g, z)) \subseteq Range(s)
      BY <3>3, BelowIsFinished DEF Good
    <3>4. Placed(g, u, i, x)
      <4> HIDE DEF s
      <4>1. \A y \in Range(NextOf(g, x)) :
              (\A z \in From(g, y) : Mark(g, z) # Mark(g, x)) =>
                \A z \in From(g, y) : \A p \in Range(Adds(g, z)) : \E m \in 1..(i - 1) : u[m] = p
        BY <3>2, <3>3
      <4> QED
        BY <2>2, <4>1 DEF Placed
    <3> QED
      BY <3>4
  <2> QED
    BY <2>1, <2>2, <1>3
<1>6. Ordered(g, U, out)
  BY <1>1, <1>5 DEF Ordered
<1> QED
  BY <1>4, <1>6 DEF Good, out

\* Visits with less than n marks left do what they should.
VisitsWell(visit, S, g, U, n) ==
    \A st \in Few(S, g, U, n) : \A x \in U : \A P \in SUBSET SeenIn(st) :
        Good(g, U, st, P) /\ LeadTo(g, U, P, x) =>
            LET to == visit[<<st, x>>]
            IN  /\ to \in S
                /\ SeenIn(st) \subseteq SeenIn(to)
                /\ Mark(g, x) \in SeenIn(to)
                /\ Good(g, U, to, P)

\* What a visitor that visits well does to a node.
LEMMA VisitingWell ==
    ASSUME NEW visit, NEW S, NEW g, NEW U, NEW n, VisitsWell(visit, S, g, U, n),
           NEW st \in S, Left(g, U, st) < n, NEW x \in U, NEW P \in SUBSET SeenIn(st),
           Good(g, U, st, P), LeadTo(g, U, P, x)
    PROVE  /\ visit[<<st, x>>] \in S
           /\ SeenIn(st) \subseteq SeenIn(visit[<<st, x>>])
           /\ Mark(g, x) \in SeenIn(visit[<<st, x>>])
           /\ Good(g, U, visit[<<st, x>>], P)
<1>1. st \in Few(S, g, U, n)
  BY DEF Few
<1> QED
  BY <1>1 DEF VisitsWell

\* So do walks.
LEMMA WalksWell ==
    ASSUME NEW visit, NEW S, NEW g, NEW U, IsFiniteSet(U), NEW n \in Nat,
           VisitsWell(visit, S, g, U, n),
           NEW st \in S, Left(g, U, st) < n, NEW P \in SUBSET SeenIn(st), Good(g, U, st, P),
           NEW nodes \in Seq(U), \A x \in Range(nodes) : LeadTo(g, U, P, x)
    PROVE  LET to == Walk(visit, st, nodes)
           IN  /\ to \in S
               /\ SeenIn(st) \subseteq SeenIn(to)
               /\ \A x \in Range(nodes) : Mark(g, x) \in SeenIn(to)
               /\ Good(g, U, to, P)
<1>1. PICK f : WalkTrace(f, visit, st, nodes) /\ Walk(visit, st, nodes) = f[Len(nodes)]
  BY WalkHasTrace
<1> DEFINE Fine(i) == /\ f[i] \in S
                      /\ SeenIn(st) \subseteq SeenIn(f[i])
                      /\ \A j \in 1..i : Mark(g, nodes[j]) \in SeenIn(f[i])
                      /\ Good(g, U, f[i], P)
           T == {i \in 0..Len(nodes) : Fine(i)}
<1>2. 0 \in T
  <2>1. f[0] = st
    BY <1>1 DEF WalkTrace
  <2>2. Fine(0)
    BY <2>1
  <2> HIDE DEF Fine
  <2> QED
    BY <2>2
<1>3. ASSUME NEW i \in 0..Len(nodes), i < Len(nodes), i \in T PROVE i + 1 \in T
  <2>1. f[i] \in S /\ SeenIn(st) \subseteq SeenIn(f[i]) /\ Good(g, U, f[i], P)
        /\ \A j \in 1..i : Mark(g, nodes[j]) \in SeenIn(f[i])
    BY <1>3
  <2> DEFINE x == nodes[i + 1]
  <2>2. i + 1 \in 1..Len(nodes) /\ DOMAIN nodes = 1..Len(nodes)
    BY <1>3
  <2>3. x \in U /\ x \in Range(nodes)
    BY <2>2 DEF Range
  <2>4. f[i + 1] = visit[<<f[i], x>>]
    BY <1>1, <1>3 DEF WalkTrace, WalkNext
  <2>5. Left(g, U, f[i]) < n
    <3>1. Left(g, U, f[i]) <= Left(g, U, st) /\ Left(g, U, f[i]) \in Nat /\ Left(g, U, st) \in Nat
      BY <2>1, LeftShrinks
    <3> QED
      BY <3>1
  <2> HIDE DEF x
  <2>6. P \in SUBSET SeenIn(f[i])
    BY <2>1
  <2>7. /\ visit[<<f[i], x>>] \in S
        /\ SeenIn(f[i]) \subseteq SeenIn(visit[<<f[i], x>>])
        /\ Mark(g, x) \in SeenIn(visit[<<f[i], x>>])
        /\ Good(g, U, visit[<<f[i], x>>], P)
    BY <2>1, <2>3, <2>5, <2>6, VisitingWell
  <2>8. \A j \in 1..(i + 1) : j \in 1..i \/ j = i + 1
    BY <1>3
  <2>9. \A j \in 1..(i + 1) : Mark(g, nodes[j]) \in SeenIn(f[i + 1])
    BY <2>1, <2>4, <2>7, <2>8 DEF x
  <2>10. Fine(i + 1)
    BY <2>1, <2>4, <2>7, <2>9
  <2> HIDE DEF Fine
  <2>11. i + 1 \in 0..Len(nodes)
    BY <2>2
  <2> QED
    BY <2>10, <2>11
<1>4. Len(nodes) \in T
  <2> HIDE DEF T
  <2>1. 0..Len(nodes) \subseteq T
    BY SMTT(30), <1>2, <1>3, UpTo
  <2>2. Len(nodes) \in 0..Len(nodes)
    OBVIOUS
  <2> QED
    BY <2>1, <2>2
<1>5. \A x \in Range(nodes) : \E j \in 1..Len(nodes) : x = nodes[j]
  BY DEF Range
<1> QED
  BY <1>1, <1>4, <1>5

\* The next nodes of one that all pending marks lead to are led to by its mark, too.
LEMMA NextLeads ==
    ASSUME NEW g, NEW U, Part(g, U), NEW P, NEW x \in U, LeadTo(g, U, P, x),
           NEW y \in Range(NextOf(g, x))
    PROVE  LeadTo(g, U, P \cup {Mark(g, x)}, y)
<1>1. y \in From(g, x)
  BY FromIs
<1>2. \A w \in U : x \in From(g, w) => y \in From(g, w)
  BY FromIs
<1> QED
  BY <1>1, <1>2 DEF LeadTo

\* The next nodes of a part are in it.
LEMMA NextIsThere ==
    ASSUME NEW M, NEW O, NEW N, NEW g, GraphOver(g, M, O, N), NEW U, Confined(g, U), NEW x \in U
    PROVE  NextOf(g, x) \in Seq(U)
<1> DEFINE next == NextOf(g, x)
<1>1. next \in Seq(DOMAIN g) /\ Range(next) \subseteq U
  BY GraphFields DEF NextOf, Confined, ClosedUnder
<1> HIDE DEF next
<1>2. \A i \in 1..Len(next) : next[i] \in U
  BY <1>1 DEF Range
<1>3. next \in Seq(U)
  BY <1>1, <1>2
<1> QED
  BY <1>3 DEF next

\* The visitor visits well, however many marks are left.
LEMMA VisitGood ==
    ASSUME NEW M, NEW O, NEW N, NEW g, GraphOver(g, M, O, N), LocallyFinite(g),
           NEW U, Part(g, U), MarksAgree(g, U), NEW n \in Nat
    PROVE  VisitsWell(Visit(States(M, O, N), g), States(M, O, N), g, U, n)
<1> DEFINE S == States(M, O, N)
           v == Visit(S, g)
           T == {i \in Nat : VisitsWell(v, S, g, U, i)}
<1>0. IsFiniteSet(U) /\ \A x \in U : x \in DOMAIN g
  BY DEF Part, Confined
<1>1. 0 \in T
  <2> HIDE DEF S, v
  <2>1. \A st \in S : ~(Left(g, U, st) < 0)
    <3> SUFFICES ASSUME NEW st \in S PROVE ~(Left(g, U, st) < 0)
      OBVIOUS
    <3>1. Left(g, U, st) \in Nat
      BY <1>0, LeftShrinks
    <3> QED
      BY <3>1
  <2> QED
    BY <2>1 DEF VisitsWell, Few
<1>2. ASSUME NEW i \in Nat, i \in T PROVE i + 1 \in T
  <2>0. VisitsWell(v, S, g, U, i)
    BY <1>2
  <2>1. ASSUME NEW st \in Few(S, g, U, i + 1), NEW x \in U, NEW P \in SUBSET SeenIn(st),
               Good(g, U, st, P), LeadTo(g, U, P, x)
        PROVE  /\ v[<<st, x>>] \in S
               /\ SeenIn(st) \subseteq SeenIn(v[<<st, x>>])
               /\ Mark(g, x) \in SeenIn(v[<<st, x>>])
               /\ Good(g, U, v[<<st, x>>], P)
    <3>1. st \in S /\ Left(g, U, st) < i + 1
      BY DEF Few
    <3>2. v[<<st, x>>] = IF Mark(g, x) \in SeenIn(st) THEN st
                         ELSE Leave(g, Walk(v, Enter(g, st, x), NextOf(g, x)), x)
      <4>1. v[<<st, x>>] = Body(v, g, st, x)
        BY <3>1, <1>0, VisitIs
      <4> HIDE DEF v, S
      <4> QED
        BY <4>1, BodyIs
    <3>3. CASE Mark(g, x) \in SeenIn(st)
      <4>1. v[<<st, x>>] = st
        BY <3>2, <3>3
      <4> HIDE DEF v, S
      <4> QED
        BY <4>1, <3>1, <3>3, <2>1
    <3>4. CASE Mark(g, x) \notin SeenIn(st)
      <4> DEFINE in == Enter(g, st, x)
                 Q == P \cup {Mark(g, x)}
                 out == Walk(v, in, NextOf(g, x))
      <4>1. in \in S
        BY <3>1, <1>0, EnterLeave
      <4>2. \A m : m \in SeenIn(in) <=> m \in SeenIn(st) \/ m = Mark(g, x)
        BY <3>1, <1>0, EnterSees
      <4>3. Q \in SUBSET SeenIn(in)
        BY <4>2
      <4>4. Good(g, U, in, Q)
        BY <3>1, <1>0, <2>1, EnterKeepsGood
      <4>5. NextOf(g, x) \in Seq(U)
        BY NextIsThere DEF Part
      <4>6. \A y \in Range(NextOf(g, x)) : LeadTo(g, U, Q, y)
        BY <2>1, NextLeads
      <4>7. Left(g, U, in) < i
        <5>1. Mark(g, x) \in Marks(g, U) /\ SeenIn(st) \subseteq SeenIn(in)
          BY <4>2 DEF Marks
        <5> HIDE DEF in
        <5>2. Left(g, U, in) < Left(g, U, st) /\ Left(g, U, in) \in Nat /\ Left(g, U, st) \in Nat
          BY <5>1, <4>2, <3>4, <1>0, LeftShrinks
        <5> QED
          BY <5>2, <3>1
      <4> HIDE DEF v, S, in, Q
      <4>8. /\ out \in S
            /\ SeenIn(in) \subseteq SeenIn(out)
            /\ \A y \in Range(NextOf(g, x)) : Mark(g, y) \in SeenIn(out)
            /\ Good(g, U, out, Q)
        BY <4>1, <4>3, <4>4, <4>5, <4>6, <4>7, <2>0, <1>0, WalksWell
      <4>9. v[<<st, x>>] = Leave(g, out, x)
        BY <3>2, <3>4 DEF in
      <4> HIDE DEF out
      <4>10. Leave(g, out, x) \in S
        BY <4>8, <1>0, EnterLeave DEF S
      <4>11. SeenIn(Leave(g, out, x)) = SeenIn(out)
        BY <4>8, LeaveSees DEF S
      <4>12. Good(g, U, Leave(g, out, x), P)
        BY <4>8, <2>1, LeaveKeepsGood DEF S, Q
      <4>13. SeenIn(st) \subseteq SeenIn(out) /\ Mark(g, x) \in SeenIn(out)
        BY <4>2, <4>8
      <4> QED
        BY <4>9, <4>10, <4>11, <4>12, <4>13
    <3> QED
      BY <3>3, <3>4
  <2>2. VisitsWell(v, S, g, U, i + 1)
    <3> HIDE DEF v, S
    <3> QED
      BY <2>1 DEF VisitsWell
  <2> HIDE DEF v, S
  <2> QED
    BY <2>2
<1>3. Nat \subseteq T
  <2> HIDE DEF T
  <2> QED
    BY <1>1, <1>2, All
<1> QED
  BY <1>3

\* Finitely many nodes reach finitely many.
LEMMA FinitelyMany ==
    ASSUME NEW g, LocallyFinite(g), NEW S, S \subseteq DOMAIN g, IsFiniteSet(S)
    PROVE  \E U : Confined(g, U) /\ S \subseteq U
<1> DEFINE f == [x \in S |-> CHOOSE U : Confined(g, U) /\ x \in U]
<1>1. \A x \in S : Confined(g, f[x]) /\ x \in f[x]
  BY DEF LocallyFinite
<1>2. IsFiniteSet(Range(f))
  <2>1. f = [x \in S |-> f[x]]
    OBVIOUS
  <2> HIDE DEF f
  <2> QED
    BY <2>1, FiniteImage
<1>3. \A U \in Range(f) : Confined(g, U)
  BY <1>1 DEF Range
<1>4. \A x \in S : f[x] \in Range(f)
  BY DEF Range
<1> HIDE DEF f
<1> DEFINE U == UNION Range(f)
<1>5. IsFiniteSet(U)
  BY <1>2, <1>3, FS_UNION DEF Confined
<1>6. U \subseteq DOMAIN g /\ ClosedUnder(g, U)
  BY <1>3 DEF Confined, ClosedUnder
<1>7. S \subseteq U
  BY <1>1, <1>4
<1>8. Confined(g, U)
  BY <1>5, <1>6 DEF Confined
<1> HIDE DEF U
<1> QED
  BY <1>7, <1>8

\* No edge leads out of a graph.
LEMMA DomainClosed ==
    ASSUME NEW M, NEW O, NEW N, NEW g, GraphOver(g, M, O, N)
    PROVE  ClosedUnder(g, DOMAIN g)
<1> SUFFICES ASSUME NEW x \in DOMAIN g PROVE Range(g[x].next) \subseteq DOMAIN g
  BY DEF ClosedUnder
<1>1. NextOf(g, x) \in Seq(DOMAIN g)
  BY GraphFields
<1>2. Range(NextOf(g, x)) \subseteq DOMAIN g
  BY <1>1, FiniteRange
<1> QED
  BY <1>2 DEF NextOf

\* What the resolution of seeds leads to.
LEMMA ClosureIsPart ==
    ASSUME NEW M, NEW O, NEW N, NEW g, GraphOver(g, M, O, N), LocallyFinite(g),
           NEW S \in SUBSET DOMAIN g, IsFiniteSet(S)
    PROVE  /\ Part(g, Reach(g, S))
           /\ S \subseteq Reach(g, S)
           /\ \A C \in SUBSET DOMAIN g : S \subseteq C /\ ClosedUnder(g, C) => Reach(g, S) \subseteq C
<1>1. ClosedUnder(g, DOMAIN g)
  BY DomainClosed
<1>2. PICK U : Confined(g, U) /\ S \subseteq U
  BY FinitelyMany
<1>3. /\ S \subseteq Reach(g, S)
      /\ Confined(g, Reach(g, S))
      /\ \A C \in SUBSET DOMAIN g : S \subseteq C /\ ClosedUnder(g, C) => Reach(g, S) \subseteq C
  BY <1>1, <1>2, Reached
<1> QED
  BY <1>1, <1>3 DEF Part

\* The visitor resolves the seeds to what is added in their closure, in order.
THEOREM VisitorIsCorrect ==
    ASSUME NEW M, NEW O, NEW N, NEW g, GraphOver(g, M, O, N), LocallyFinite(g),
           NEW seeds \in Seq(DOMAIN g), MarksAgree(g, Reach(g, Range(seeds)))
    PROVE  LET U == Reach(g, Range(seeds))
               order == PlanOf(VisitAll(States(M, O, N), g, seeds))
           IN  /\ order \in Seq(O)
               /\ \A p : p \in Range(order) <=> \E x \in U : p \in Range(Adds(g, x))
               /\ \A i \in DOMAIN order : \E x \in U : Placed(g, order, i, x)
<1> DEFINE S == States(M, O, N)
           U == Reach(g, Range(seeds))
           v == Visit(S, g)
           out == Walk(v, NothingSeen, seeds)
<1>1. IsFiniteSet(Range(seeds)) /\ Range(seeds) \in SUBSET DOMAIN g
  BY FiniteRange
<1>2. /\ Part(g, U)
      /\ Range(seeds) \subseteq U
      /\ \A C \in SUBSET DOMAIN g : Range(seeds) \subseteq C /\ ClosedUnder(g, C) => U \subseteq C
  BY <1>1, ClosureIsPart
<1>3. IsFiniteSet(U) /\ U \subseteq DOMAIN g
  BY <1>2 DEF Part, Confined
<1>4. seeds \in Seq(U)
  <2> HIDE DEF U
  <2>1. \A i \in 1..Len(seeds) : seeds[i] \in U
    BY <1>2 DEF Range
  <2> QED
    BY <2>1
<1>5. NothingSeen \in S /\ SeenIn(NothingSeen) = {} /\ PlanOf(NothingSeen) = <<>>
  BY DEF NothingSeen, States, SeenIn, PlanOf
<1>6. Good(g, U, NothingSeen, {})
  <2> HIDE DEF U
  <2>1. Finished(g, U, NothingSeen, {})
    BY <1>5 DEF Finished
  <2>2. Ordered(g, U, NothingSeen)
    <3>1. DOMAIN PlanOf(NothingSeen) = {}
      BY <1>5
    <3> QED
      BY <3>1 DEF Ordered
  <2> QED
    BY <2>1, <2>2 DEF Good
<1> DEFINE n == Left(g, U, NothingSeen) + 1
<1>7. n \in Nat /\ Left(g, U, NothingSeen) < n
  <2>1. Left(g, U, NothingSeen) \in Nat
    <3> HIDE DEF U
    <3> QED
      BY <1>3, LeftShrinks
  <2> QED
    BY <2>1
<1> HIDE DEF n
<1>8. VisitsWell(v, S, g, U, n)
  BY <1>2, <1>7, VisitGood
<1>9. \A x \in Range(seeds) : LeadTo(g, U, {}, x)
  BY DEF LeadTo
<1>10. VisitAll(S, g, seeds) = out
  BY DEF VisitAll
<1> HIDE DEF v, S, U
<1>11. /\ out \in S
       /\ \A x \in Range(seeds) : Mark(g, x) \in SeenIn(out)
       /\ Good(g, U, out, {})
  <2>1. {} \in SUBSET SeenIn(NothingSeen)
    OBVIOUS
  <2> QED
    BY ZenonT(30), <2>1, <1>3, <1>4, <1>5, <1>6, <1>7, <1>8, <1>9, WalksWell
<1> HIDE DEF out
<1>12. PlanOf(out) \in Seq(O)
  BY <1>11, StateFields DEF S
<1> DEFINE C == {x \in U : Mark(g, x) \in SeenIn(out)}
<1>13. ClosedUnder(g, C)
  <2> SUFFICES ASSUME NEW x \in C, NEW y \in Range(g[x].next) PROVE y \in C
    BY DEF ClosedUnder
  <2>1. y \in U
    BY <1>2 DEF Part, Confined, ClosedUnder
  <2>2. Mark(g, y) \in SeenIn(out)
    BY <1>11 DEF Good, Finished, NextOf
  <2> QED
    BY <2>1, <2>2
<1>14. C = U
  BY <1>2, <1>3, <1>11, <1>13
<1>15. \A x \in U : Range(Adds(g, x)) \subseteq Range(PlanOf(out))
  BY <1>11, <1>14 DEF Good, Finished
<1>16. \A i \in DOMAIN PlanOf(out) : \E x \in U : Placed(g, PlanOf(out), i, x)
  BY <1>11 DEF Good, Ordered
<1>17. ASSUME NEW p \in Range(PlanOf(out)) PROVE \E x \in U : p \in Range(Adds(g, x))
  <2>1. PICK i \in DOMAIN PlanOf(out) : p = PlanOf(out)[i]
    BY DEF Range
  <2> QED
    BY <2>1, <1>16 DEF Placed
<1> QED
  BY <1>10, <1>12, <1>15, <1>16, <1>17 DEF S, U

--------------------------------------------------------------------------------
(* The indexes of apk. *)

\* Functions from finitely many elements of A.
Finitely(A, B) == UNION {[D -> B] : D \in {D \in SUBSET A : IsFiniteSet(D)}}

\* Functions with a finite domain.
LEMMA FinitelyIs ==
    ASSUME NEW A, NEW B, NEW f
    PROVE  f \in Finitely(A, B) <=>
             /\ IsFiniteSet(DOMAIN f)
             /\ DOMAIN f \subseteq A
             /\ f \in [DOMAIN f -> B]
BY DEF Finitely

ApkCaches == [packages : Finitely(STRING, Apk!Package), providers : Finitely(STRING, Seq(Apk!Package))]

ApkNext(idx, p, repo) == Apk!FlushAPKPackage(idx, [p EXCEPT !.repo = repo])

\* The recursion of ParseIndex has a trace.
ApkTrace(f, idx, packages, repo) ==
    /\ f[0] = idx
    /\ \A n \in 0..Len(packages) : n < Len(packages) => f[n + 1] = ApkNext(f[n], packages[n + 1], repo)

\* ParseIndex goes from package to package.
LEMMA ParseIndexHasTrace ==
    ASSUME NEW idx, NEW packages, NEW repo, Len(packages) \in Nat
    PROVE  \E f : ApkTrace(f, idx, packages, repo) /\ Apk!ParseIndex(idx, packages, repo) = f[Len(packages)]
<1> DEFINE N == Len(packages)
           Rule(f, m) == f = [n \in 0..m |-> IF n = 0 THEN idx ELSE ApkNext(f[n - 1], packages[n], repo)]
           T == {m \in 0..N : \E f : Rule(f, m)}
<1>1. 0 \in T
  <2> DEFINE g == [n \in 0..0 |-> idx]
  <2>1. Rule(g, 0)
    OBVIOUS
  <2> HIDE DEF g, Rule
  <2>2. \E h : Rule(h, 0)
    BY <2>1
  <2> QED
    BY <2>2
<1>2. ASSUME NEW m \in 0..N, m < N, m \in T PROVE m + 1 \in T
  <2>1. PICK f : Rule(f, m)
    BY <1>2
  <2> DEFINE g == [n \in 0..(m + 1) |-> IF n = m + 1 THEN ApkNext(f[m], packages[n], repo) ELSE f[n]]
  <2>2. \A n \in 0..(m + 1) : g[n] = IF n = 0 THEN idx ELSE ApkNext(g[n - 1], packages[n], repo)
    BY <2>1
  <2>3. Rule(g, m + 1)
    BY <2>2
  <2> HIDE DEF g, Rule
  <2>4. \E h : Rule(h, m + 1)
    BY <2>3
  <2>5. m + 1 \in 0..N
    BY <1>2
  <2> QED
    BY <2>4, <2>5
<1>3. N \in T
  <2> HIDE DEF T
  <2>1. 0..N \subseteq T
    BY <1>1, <1>2, UpTo
  <2> QED
    BY <2>1
<1>4. \E f : Rule(f, N)
  BY <1>3
<1> DEFINE f == CHOOSE f : Rule(f, N)
<1>5. Rule(f, N)
  BY <1>4
<1>6. Apk!ParseIndex(idx, packages, repo) = f[N]
  BY DEF Apk!ParseIndex, ApkNext
<1> HIDE DEF f
<1>7. ApkTrace(f, idx, packages, repo)
  BY <1>5 DEF ApkTrace
<1> QED
  BY <1>6, <1>7

RepoNext(idx, r, from) ==
    IF r.repo \in from THEN Apk!ParseIndex(idx, r.packages, r.repo) ELSE idx

\* The recursion of Update has a trace.
UpdateTrace(f, repos, from) ==
    /\ f[0] = Apk!NewIndex
    /\ \A n \in 0..Len(repos) : n < Len(repos) => f[n + 1] = RepoNext(f[n], repos[n + 1], from)

\* Update goes from repository to repository.
LEMMA UpdateHasTrace ==
    ASSUME NEW repos, NEW from, Len(repos) \in Nat
    PROVE  \E f : UpdateTrace(f, repos, from) /\ Apk!Update(repos, from) = f[Len(repos)]
<1> DEFINE N == Len(repos)
           Rule(f, m) == f = [n \in 0..m |-> IF n = 0 THEN Apk!NewIndex ELSE RepoNext(f[n - 1], repos[n], from)]
           T == {m \in 0..N : \E f : Rule(f, m)}
<1>1. 0 \in T
  <2> DEFINE g == [n \in 0..0 |-> Apk!NewIndex]
  <2>1. Rule(g, 0)
    OBVIOUS
  <2> HIDE DEF g, Rule
  <2>2. \E h : Rule(h, 0)
    BY <2>1
  <2> QED
    BY <2>2
<1>2. ASSUME NEW m \in 0..N, m < N, m \in T PROVE m + 1 \in T
  <2>1. PICK f : Rule(f, m)
    BY <1>2
  <2> DEFINE g == [n \in 0..(m + 1) |-> IF n = m + 1 THEN RepoNext(f[m], repos[n], from) ELSE f[n]]
  <2>2. \A n \in 0..(m + 1) : g[n] = IF n = 0 THEN Apk!NewIndex ELSE RepoNext(g[n - 1], repos[n], from)
    BY <2>1
  <2>3. Rule(g, m + 1)
    BY <2>2
  <2> HIDE DEF g, Rule
  <2>4. \E h : Rule(h, m + 1)
    BY <2>3
  <2>5. m + 1 \in 0..N
    BY <1>2
  <2> QED
    BY <2>4, <2>5
<1>3. N \in T
  <2> HIDE DEF T
  <2>1. 0..N \subseteq T
    BY <1>1, <1>2, UpTo
  <2> QED
    BY <2>1
<1>4. \E f : Rule(f, N)
  BY <1>3
<1> DEFINE f == CHOOSE f : Rule(f, N)
<1>5. Rule(f, N)
  BY <1>4
<1>6. Apk!Update(repos, from) = f[N]
  BY DEF Apk!Update, RepoNext
<1> HIDE DEF f
<1>7. UpdateTrace(f, repos, from)
  BY <1>5 DEF UpdateTrace
<1> QED
  BY <1>6, <1>7

\* A package that is parsed: its name is there afterwards, with what was there before or
\* else with itself.
LEMMA ApkNextIs ==
    ASSUME NEW idx \in ApkCaches, NEW p \in Apk!Package, NEW repo \in STRING
    PROVE  LET next == ApkNext(idx, p, repo)
           IN  /\ next \in ApkCaches
               /\ DOMAIN next.packages = DOMAIN idx.packages \cup {p.name}
               /\ \A n \in DOMAIN idx.packages : next.packages[n] = idx.packages[n]
               /\ \A n \in DOMAIN next.packages :
                     n \in DOMAIN idx.packages \/ next.packages[n].repo = repo
<1> DEFINE q == [p EXCEPT !.repo = repo]
           caps == {q.provides[n] : n \in DOMAIN q.provides}
           packages == [n \in DOMAIN idx.packages \cup {q.name} |->
                          IF n \in DOMAIN idx.packages THEN idx.packages[n] ELSE q]
           providers == [v \in DOMAIN idx.providers \cup caps |->
                           IF v \in caps THEN Append(Apk!At(idx.providers, v), q) ELSE idx.providers[v]]
<1>1. ApkNext(idx, p, repo) = [packages |-> packages, providers |-> providers]
  BY DEF ApkNext, Apk!FlushAPKPackage
<1>2. q \in Apk!Package /\ q.name = p.name /\ q.name \in STRING /\ q.repo = repo /\ q.provides \in Seq(STRING)
  BY DEF Apk!Package
<1>3. idx.packages \in Finitely(STRING, Apk!Package) /\ idx.providers \in Finitely(STRING, Seq(Apk!Package))
  BY DEF ApkCaches
<1> HIDE DEF q
<1>4. /\ IsFiniteSet(DOMAIN idx.packages) /\ DOMAIN idx.packages \subseteq STRING
      /\ \A n \in DOMAIN idx.packages : idx.packages[n] \in Apk!Package
      /\ IsFiniteSet(DOMAIN idx.providers) /\ DOMAIN idx.providers \subseteq STRING
      /\ \A v \in DOMAIN idx.providers : idx.providers[v] \in Seq(Apk!Package)
  BY <1>3, FinitelyIs
<1>5. IsFiniteSet(caps) /\ caps \subseteq STRING
  <2>1. caps = Range(q.provides)
    BY DEF Range
  <2> QED
    BY <1>2, <2>1, FiniteRange
<1> HIDE DEF caps
<1>6. packages \in Finitely(STRING, Apk!Package)
  <2>1. IsFiniteSet(DOMAIN idx.packages \cup {q.name})
    BY <1>4, FS_AddElement
  <2>2. DOMAIN packages = DOMAIN idx.packages \cup {q.name}
    OBVIOUS
  <2>3. packages \in [DOMAIN packages -> Apk!Package]
    BY <1>2, <1>4
  <2> HIDE DEF packages
  <2> QED
    BY <1>2, <1>4, <2>1, <2>2, <2>3, FinitelyIs
<1>7. providers \in Finitely(STRING, Seq(Apk!Package))
  <2>1. IsFiniteSet(DOMAIN idx.providers \cup caps)
    BY <1>4, <1>5, FS_Union
  <2>2. DOMAIN providers = DOMAIN idx.providers \cup caps
    OBVIOUS
  <2>3. \A v \in caps : Apk!At(idx.providers, v) \in Seq(Apk!Package)
    BY <1>4 DEF Apk!At
  <2>4. \A v \in caps : Append(Apk!At(idx.providers, v), q) \in Seq(Apk!Package)
    BY <1>2, <2>3
  <2>5. providers \in [DOMAIN providers -> Seq(Apk!Package)]
    BY <1>4, <2>4
  <2> HIDE DEF providers
  <2> QED
    BY <1>4, <1>5, <2>1, <2>2, <2>5, FinitelyIs
<1>8. /\ DOMAIN packages = DOMAIN idx.packages \cup {q.name}
      /\ \A n \in DOMAIN idx.packages : packages[n] = idx.packages[n]
      /\ \A n \in DOMAIN packages : n \in DOMAIN idx.packages \/ packages[n] = q
  OBVIOUS
<1> HIDE DEF packages, providers
<1>9. [packages |-> packages, providers |-> providers] \in ApkCaches
  BY <1>6, <1>7 DEF ApkCaches
<1> QED
  BY <1>1, <1>2, <1>8, <1>9

\* The same for all packages of a repository.
LEMMA ParseIndexIs ==
    ASSUME NEW idx \in ApkCaches, NEW packages \in Seq(Apk!Package), NEW repo \in STRING
    PROVE  LET next == Apk!ParseIndex(idx, packages, repo)
           IN  /\ next \in ApkCaches
               /\ DOMAIN next.packages = DOMAIN idx.packages \cup {p.name : p \in Range(packages)}
               /\ \A n \in DOMAIN idx.packages : next.packages[n] = idx.packages[n]
               /\ \A n \in DOMAIN next.packages :
                     n \in DOMAIN idx.packages \/ next.packages[n].repo = repo
<1>1. PICK f : ApkTrace(f, idx, packages, repo) /\ Apk!ParseIndex(idx, packages, repo) = f[Len(packages)]
  <2>1. Len(packages) \in Nat
    OBVIOUS
  <2> QED
    BY <2>1, ParseIndexHasTrace
<1> DEFINE Names(i) == {packages[j].name : j \in 1..i}
           Fine(i) == /\ f[i] \in ApkCaches
                      /\ DOMAIN f[i].packages = DOMAIN idx.packages \cup Names(i)
                      /\ \A n \in DOMAIN idx.packages : f[i].packages[n] = idx.packages[n]
                      /\ \A n \in DOMAIN f[i].packages :
                            n \in DOMAIN idx.packages \/ f[i].packages[n].repo = repo
           T == {i \in 0..Len(packages) : Fine(i)}
<1>2. 0 \in T
  <2>1. f[0] = idx
    BY <1>1 DEF ApkTrace
  <2>2. Names(0) = {}
    OBVIOUS
  <2> HIDE DEF Names
  <2>3. Fine(0)
    BY <2>1, <2>2
  <2> HIDE DEF Fine
  <2> QED
    BY <2>3
<1>3. ASSUME NEW i \in 0..Len(packages), i < Len(packages), i \in T PROVE i + 1 \in T
  <2> DEFINE p == packages[i + 1]
  <2>1. p \in Apk!Package /\ i + 1 \in 0..Len(packages)
    BY <1>3
  <2>2. f[i + 1] = ApkNext(f[i], p, repo)
    BY <1>1, <1>3 DEF ApkTrace
  <2>3. Names(i + 1) = Names(i) \cup {p.name}
    <3>1. \A j \in 1..(i + 1) : j \in 1..i \/ j = i + 1
      BY <1>3
    <3>2. \A j \in 1..i : j \in 1..(i + 1)
      BY <1>3
    <3>3. i + 1 \in 1..(i + 1)
      BY <1>3
    <3> QED
      BY <3>1, <3>2, <3>3
  <2> HIDE DEF p, Names
  <2>4. Fine(i)
    BY <1>3
  <2>5. /\ f[i + 1] \in ApkCaches
        /\ DOMAIN f[i + 1].packages = DOMAIN f[i].packages \cup {p.name}
        /\ \A n \in DOMAIN f[i].packages : f[i + 1].packages[n] = f[i].packages[n]
        /\ \A n \in DOMAIN f[i + 1].packages :
              n \in DOMAIN f[i].packages \/ f[i + 1].packages[n].repo = repo
    BY <2>1, <2>2, <2>4, ApkNextIs
  <2>6. Fine(i + 1)
    BY <2>3, <2>4, <2>5
  <2> HIDE DEF Fine
  <2> QED
    BY <2>1, <2>6
<1>4. Len(packages) \in T
  <2> HIDE DEF T
  <2>1. 0..Len(packages) \subseteq T
    BY <1>2, <1>3, UpTo
  <2> QED
    BY <2>1
<1>5. Names(Len(packages)) = {p.name : p \in Range(packages)}
  BY DEF Range
<1> QED
  BY <1>1, <1>4, <1>5

\* What Update keeps of a name comes from the first repository it could read that has it.
ApkFirst(w, from, packages) ==
    \A n \in DOMAIN packages :
        LET having == {i \in DOMAIN w.files :
                          /\ w.files[i].repo \in from
                          /\ \E p \in Range(w.files[i].packages) : p.name = n}
        IN  \E i \in having : /\ packages[n].repo = w.files[i].repo
                              /\ \A j \in having : i <= j

\* Update gives a cache in which each name comes from the first that has it.
THEOREM UpdateIs ==
    ASSUME NEW w, IsApkWorld(w), NEW from
    PROVE  /\ Apk!Update(w.files, from) \in ApkCaches
           /\ ApkFirst(w, from, Apk!Update(w.files, from).packages)
<1> DEFINE files == w.files
           Has(i, n) == files[i].repo \in from /\ \E p \in Range(files[i].packages) : p.name = n
<1>1. files \in Seq([repo : STRING, packages : Seq(Apk!Package)])
  BY DEF IsApkWorld
<1>2. Len(files) \in Nat /\ DOMAIN files = 1..Len(files)
  <2> HIDE DEF files
  <2> QED
    BY <1>1
<1> DEFINE R == [repo : STRING, packages : Seq(Apk!Package)]
<1>20. \A n \in 1..Len(files) : files[n] \in R
  <2> HIDE DEF files, R
  <2>1. files \in Seq(R)
    BY <1>1 DEF R
  <2> QED
    BY <2>1
<1>21. \A r \in R : r.repo \in STRING /\ r.packages \in Seq(Apk!Package)
  OBVIOUS
<1> HIDE DEF R
<1>3. PICK f : UpdateTrace(f, files, from) /\ Apk!Update(files, from) = f[Len(files)]
  BY <1>2, UpdateHasTrace
<1> HIDE DEF files, Has
<1> DEFINE First(i, n) ==
               \E j \in 1..i : /\ Has(j, n)
                               /\ f[i].packages[n].repo = files[j].repo
                               /\ \A k \in 1..(j - 1) : ~Has(k, n)
           Fine(i) == /\ f[i] \in ApkCaches
                      /\ \A j \in 1..i : \A n : Has(j, n) => n \in DOMAIN f[i].packages
                      /\ \A n \in DOMAIN f[i].packages : First(i, n)
           T == {i \in 0..Len(files) : Fine(i)}
<1>4. 0 \in T
  <2>1. f[0] = Apk!NewIndex
    BY <1>3 DEF UpdateTrace
  <2>2. DOMAIN f[0].packages = {} /\ DOMAIN f[0].providers = {}
        /\ f[0] = [packages |-> f[0].packages, providers |-> f[0].providers]
    BY <2>1 DEF Apk!NewIndex
  <2>3. IsFiniteSet({})
    BY FS_EmptySet
  <2>4. f[0].packages \in Finitely(STRING, Apk!Package) /\ f[0].providers \in Finitely(STRING, Seq(Apk!Package))
    <3>1. <<>> \in Finitely(STRING, Apk!Package) /\ <<>> \in Finitely(STRING, Seq(Apk!Package))
      <4>1. DOMAIN <<>> = {} /\ <<>> \in [{} -> Apk!Package] /\ <<>> \in [{} -> Seq(Apk!Package)]
        OBVIOUS
      <4> QED
        BY <4>1, <2>3, FinitelyIs
    <3> QED
      BY <2>1, <3>1 DEF Apk!NewIndex
  <2>5. Fine(0)
    BY <2>2, <2>4 DEF ApkCaches
  <2> HIDE DEF Fine
  <2> QED
    BY <2>5
<1>5. ASSUME NEW i \in 0..Len(files), i < Len(files), i \in T PROVE i + 1 \in T
  <2> DEFINE r == files[i + 1]
  <2>0. i + 1 \in 0..Len(files) /\ i + 1 \in 1..Len(files)
    BY <1>2, <1>5
  <2>1. r \in R /\ i + 1 \in 0..Len(files)
    BY <1>20, <2>0
  <2>2. f[i + 1] = RepoNext(f[i], r, from)
    BY <1>3, <1>5 DEF UpdateTrace
  <2>3. Fine(i)
    BY <1>5
  <2>4. \A j \in 1..(i + 1) : j \in 1..i \/ j = i + 1
    BY <1>5
  <2>5. (\A j \in 1..i : j \in 1..(i + 1)) /\ i + 1 \in 1..(i + 1) /\ (i + 1) - 1 = i
    BY <1>5
  <2>6. CASE r.repo \notin from
    <3>1. f[i + 1] = f[i]
      BY <2>2, <2>6 DEF RepoNext
    <3>2. \A n : ~Has(i + 1, n)
      BY <2>6 DEF Has
    <3>3. \A n \in DOMAIN f[i + 1].packages : First(i + 1, n)
      BY <2>3, <2>5, <3>1
    <3>4. Fine(i + 1)
      BY <2>3, <2>4, <3>1, <3>2, <3>3
    <3> HIDE DEF Fine
    <3> QED
      BY <2>1, <3>4
  <2>7. CASE r.repo \in from
    <3> DEFINE new == {p.name : p \in Range(r.packages)}
    <3>1. f[i + 1] = Apk!ParseIndex(f[i], r.packages, r.repo)
      BY <2>2, <2>7 DEF RepoNext
    <3>2. r.packages \in Seq(Apk!Package) /\ r.repo \in STRING
      BY <1>21, <2>1
    <3>3. \A n : Has(i + 1, n) <=> n \in new
      BY <2>7 DEF Has
    <3> HIDE DEF r
    <3>4. /\ f[i + 1] \in ApkCaches
          /\ DOMAIN f[i + 1].packages = DOMAIN f[i].packages \cup new
          /\ \A n \in DOMAIN f[i].packages : f[i + 1].packages[n] = f[i].packages[n]
          /\ \A n \in DOMAIN f[i + 1].packages :
                n \in DOMAIN f[i].packages \/ f[i + 1].packages[n].repo = r.repo
      <4>1. f[i] \in ApkCaches
        BY <2>3
      <4>2. /\ Apk!ParseIndex(f[i], r.packages, r.repo) \in ApkCaches
            /\ DOMAIN Apk!ParseIndex(f[i], r.packages, r.repo).packages = DOMAIN f[i].packages \cup new
            /\ \A n \in DOMAIN f[i].packages :
                  Apk!ParseIndex(f[i], r.packages, r.repo).packages[n] = f[i].packages[n]
            /\ \A n \in DOMAIN Apk!ParseIndex(f[i], r.packages, r.repo).packages :
                  \/ n \in DOMAIN f[i].packages
                  \/ Apk!ParseIndex(f[i], r.packages, r.repo).packages[n].repo = r.repo
        BY <4>1, <3>2, ParseIndexIs
      <4> QED
        BY <3>1, <4>2
    <3> HIDE DEF new
    <3>5. ASSUME NEW n \in DOMAIN f[i + 1].packages PROVE First(i + 1, n)
      <4>1. CASE n \in DOMAIN f[i].packages
        BY <4>1, <2>3, <2>5, <3>4
      <4>2. CASE n \notin DOMAIN f[i].packages
        <5>1. n \in new /\ f[i + 1].packages[n].repo = r.repo
          BY <4>2, <3>4
        <5>2. \A j \in 1..i : ~Has(j, n)
          BY <4>2, <2>3
        <5> QED
          BY <5>1, <5>2, <2>5, <3>3 DEF r
      <4> QED
        BY <4>1, <4>2
    <3>6. Fine(i + 1)
      BY <2>3, <2>4, <3>3, <3>4, <3>5
    <3> HIDE DEF Fine
    <3> QED
      BY <2>1, <3>6
  <2> QED
    BY <2>6, <2>7
<1>6. Fine(Len(files))
  <2> HIDE DEF T, Fine
  <2>1. 0..Len(files) \subseteq T
    BY <1>4, <1>5, UpTo
  <2>2. Len(files) \in T
    BY <1>2, <2>1
  <2> QED
    BY <2>2 DEF T
<1>7. ApkFirst(w, from, f[Len(files)].packages)
  <2> SUFFICES ASSUME NEW n \in DOMAIN f[Len(files)].packages
               PROVE  \E i \in {j \in DOMAIN files : Has(j, n)} :
                         /\ f[Len(files)].packages[n].repo = files[i].repo
                         /\ \A j \in {k \in DOMAIN files : Has(k, n)} : i <= j
    BY DEF ApkFirst, Has, files
  <2>1. PICK i \in 1..Len(files) : /\ Has(i, n)
                                   /\ f[Len(files)].packages[n].repo = files[i].repo
                                   /\ \A k \in 1..(i - 1) : ~Has(k, n)
    BY <1>6
  <2>2. \A k \in 1..Len(files) : Has(k, n) => i <= k
    <3> SUFFICES ASSUME NEW k \in 1..Len(files), Has(k, n), k < i PROVE FALSE
      BY <1>2, <2>1
    <3>1. k \in 1..(i - 1)
      BY <2>1
    <3> QED
      BY <2>1, <3>1
  <2> QED
    BY <1>2, <2>1, <2>2
<1> QED
  BY <1>3, <1>6, <1>7 DEF files

\* Finitely many finite sets have a finite union.
LEMMA FiniteUnion ==
    ASSUME NEW D, IsFiniteSet(D), NEW f, f = [x \in D |-> f[x]], \A x \in D : IsFiniteSet(f[x])
    PROVE  IsFiniteSet(UNION Range(f))
<1>1. IsFiniteSet(Range(f))
  BY FiniteImage
<1>2. \A T \in Range(f) : IsFiniteSet(T)
  BY DEF Range
<1> QED
  BY <1>1, <1>2, FS_UNION

\* A filter, whatever module it is used in.
LEMMA SameKept ==
    ASSUME NEW s, NEW T
    PROVE  Apt!Kept(s, T) = Kept(s, T) /\ Dnf!Kept(s, T) = Kept(s, T) /\ Apk!Kept(s, T) = Kept(s, T)
BY DEF Apt!Kept, Dnf!Kept, Apk!Kept, Kept

\* The range of a function, whatever module it is used in.
LEMMA SameRange ==
    ASSUME NEW s
    PROVE  Apt!Range(s) = Range(s) /\ Dnf!Range(s) = Range(s) /\ Apk!Range(s) = Range(s)
BY DEF Apt!Range, Dnf!Range, Apk!Range, Range

\* Short sequences.
LEMMA ShortSeq ==
    ASSUME NEW S
    PROVE  <<>> \in Seq(S) /\ \A e \in S : <<e>> \in Seq(S)
OBVIOUS

\* Nothing is in the empty sequence.
LEMMA EmptyRange == Range(<<>>) = {}
BY DEF Range

\* What a cache knows, by name and by capability.
Known(packages, providers) == Range(packages) \cup UNION {Range(providers[v]) : v \in DOMAIN providers}

\* A cache knows finitely many packages.
LEMMA KnownIs ==
    ASSUME NEW P, NEW packages \in Finitely(STRING, P), NEW providers \in Finitely(STRING, Seq(P))
    PROVE  IsFiniteSet(Known(packages, providers)) /\ Known(packages, providers) \subseteq P
<1> DEFINE f == [v \in DOMAIN providers |-> Range(providers[v])]
<1>3. /\ IsFiniteSet(DOMAIN packages) /\ packages \in [DOMAIN packages -> P]
      /\ IsFiniteSet(DOMAIN providers) /\ providers \in [DOMAIN providers -> Seq(P)]
  BY FinitelyIs
<1>4. packages = [n \in DOMAIN packages |-> packages[n]]
  BY <1>3
<1>5. IsFiniteSet(Range(packages)) /\ Range(packages) \subseteq P
  <2>1. IsFiniteSet(Range(packages))
    BY <1>3, <1>4, FiniteImage
  <2>2. Range(packages) \subseteq P
    BY <1>3 DEF Range
  <2> QED
    BY <2>1, <2>2
<1>6. \A v \in DOMAIN providers : IsFiniteSet(f[v]) /\ f[v] \subseteq P
  BY <1>3, FiniteRange
<1>7. UNION {Range(providers[v]) : v \in DOMAIN providers} = UNION Range(f)
  BY DEF Range
<1>8. IsFiniteSet(UNION Range(f))
  <2>1. f = [v \in DOMAIN providers |-> f[v]]
    OBVIOUS
  <2> HIDE DEF f
  <2> QED
    BY <1>3, <1>6, <2>1, FiniteUnion
<1>9. UNION Range(f) \subseteq P
  BY <1>6 DEF Range
<1> DEFINE A == Range(packages)   B == UNION Range(f)
<1>10. IsFiniteSet(A) /\ IsFiniteSet(B) /\ A \subseteq P /\ B \subseteq P
  BY <1>5, <1>8, <1>9
<1>11. Known(packages, providers) = A \cup B
  BY <1>7 DEF Known
<1> HIDE DEF A, B
<1>12. IsFiniteSet(A \cup B)
  BY <1>10, FS_Union
<1> QED
  BY <1>10, <1>11, <1>12

\* A sequence that is not empty has a first element.
LEMMA FirstIs ==
    ASSUME NEW S, NEW s \in Seq(S), s # <<>>
    PROVE  s[1] \in Range(s) /\ s[1] \in S
<1>1. 1 \in DOMAIN s
  OBVIOUS
<1> QED
  BY <1>1 DEF Range

\* The packages an index knows, and the names they need.
ApkKnown(idx) == Known(idx.packages, idx.providers)
ApkNeeds(p) == {d.names[1] : d \in Range(p.depends)}
ApkNames(idx) == UNION {ApkNeeds(p) : p \in ApkKnown(idx)}

\* An index knows finitely many packages.
LEMMA ApkKnownIs ==
    ASSUME NEW idx \in ApkCaches
    PROVE  IsFiniteSet(ApkKnown(idx)) /\ ApkKnown(idx) \subseteq Apk!Package
<1>1. /\ idx.packages \in Finitely(STRING, Apk!Package)
      /\ idx.providers \in Finitely(STRING, Seq(Apk!Package))
  BY DEF ApkCaches
<1> QED
  BY <1>1, KnownIs DEF ApkKnown

\* They need finitely many names.
LEMMA ApkNamesFinite ==
    ASSUME NEW idx \in ApkCaches
    PROVE  IsFiniteSet(ApkNames(idx)) /\ ApkNames(idx) \subseteq STRING
<1>1. IsFiniteSet(ApkKnown(idx)) /\ ApkKnown(idx) \subseteq Apk!Package
  BY ApkKnownIs
<1>2. ASSUME NEW p \in Apk!Package PROVE IsFiniteSet(ApkNeeds(p)) /\ ApkNeeds(p) \subseteq STRING
  <2> DEFINE deps == p.depends   f == [n \in DOMAIN deps |-> deps[n].names[1]]
  <2>1. deps \in Seq(Apk!Dependency)
    BY DEF Apk!Package
  <2>2. ApkNeeds(p) = {deps[n].names[1] : n \in DOMAIN deps}
    BY DEF ApkNeeds, Range
  <2> HIDE DEF deps
  <2>3. \A d \in Apk!Dependency : d.names[1] \in STRING
    BY DEF Apk!Dependency
  <2>4. DOMAIN deps = 1..Len(deps) /\ Len(deps) \in Nat /\ \A n \in DOMAIN deps : deps[n] \in Apk!Dependency
    BY <2>1
  <2>5. IsFiniteSet(DOMAIN deps)
    <3>1. 1 \in Int /\ Len(deps) \in Int
      BY <2>4
    <3>2. IsFiniteSet(1..Len(deps))
      BY <3>1, FS_Interval
    <3> QED
      BY <3>2, <2>4
  <2>6. Range(f) = {deps[n].names[1] : n \in DOMAIN deps}
    BY DEF Range
  <2>7. IsFiniteSet(Range(f))
    <3>1. f = [n \in DOMAIN deps |-> f[n]]
      OBVIOUS
    <3> HIDE DEF f
    <3> QED
      BY <2>5, <3>1, FiniteImage
  <2> HIDE DEF f
  <2>8. {deps[n].names[1] : n \in DOMAIN deps} \subseteq STRING
    BY <2>3, <2>4
  <2> QED
    BY <2>2, <2>6, <2>7, <2>8
<1> DEFINE f == [p \in ApkKnown(idx) |-> ApkNeeds(p)]
<1>3. ApkNames(idx) = UNION Range(f)
  BY DEF ApkNames, Range
<1>4. \A p \in ApkKnown(idx) : IsFiniteSet(f[p]) /\ f[p] \subseteq STRING
  BY <1>1, <1>2
<1>5. IsFiniteSet(UNION Range(f))
  <2>1. f = [p \in ApkKnown(idx) |-> f[p]]
    OBVIOUS
  <2> HIDE DEF f
  <2> QED
    BY <1>1, <1>4, <2>1, FiniteUnion
<1>6. UNION Range(f) \subseteq STRING
  BY <1>4 DEF Range
<1> QED
  BY <1>3, <1>5, <1>6

\* What a name stands for.
LEMMA ApkFoundIs ==
    ASSUME NEW idx \in ApkCaches, NEW name \in STRING
    PROVE  /\ Apk!Found(idx, name) \in Seq(Apk!Package)
           /\ Apk!Found(idx, name) # <<>> => Apk!Found(idx, name)[1] \in ApkKnown(idx)
<1> DEFINE packages == idx.packages   providers == idx.providers
<1>1. packages \in Finitely(STRING, Apk!Package) /\ providers \in Finitely(STRING, Seq(Apk!Package))
  BY DEF ApkCaches
<1>2. Apk!Found(idx, name) = IF name \in DOMAIN packages THEN <<packages[name]>>
                             ELSE IF name \in DOMAIN providers THEN providers[name] ELSE <<>>
  BY DEF Apk!Found, Apk!At
<1>3. ApkKnown(idx) = Range(packages) \cup UNION {Range(providers[v]) : v \in DOMAIN providers}
  BY DEF ApkKnown, Known
<1> HIDE DEF packages, providers
<1>4. packages \in [DOMAIN packages -> Apk!Package] /\ providers \in [DOMAIN providers -> Seq(Apk!Package)]
  BY <1>1, FinitelyIs
<1>5. CASE name \in DOMAIN packages
  <2>1. Apk!Found(idx, name) = <<packages[name]>> /\ packages[name] \in Apk!Package
    BY <1>2, <1>4, <1>5
  <2>2. packages[name] \in Range(packages)
    BY <1>5 DEF Range
  <2> QED
    BY <2>1, <2>2, <1>3
<1>6. CASE name \notin DOMAIN packages /\ name \in DOMAIN providers
  <2>1. Apk!Found(idx, name) = providers[name] /\ providers[name] \in Seq(Apk!Package)
    BY <1>2, <1>4, <1>6
  <2>2. providers[name] # <<>> => providers[name][1] \in Range(providers[name])
    BY <2>1, FirstIs
  <2> QED
    BY <2>1, <2>2, <1>3, <1>6
<1>7. CASE name \notin DOMAIN packages /\ name \notin DOMAIN providers
  BY <1>2, <1>7
<1> QED
  BY <1>5, <1>6, <1>7

\* Distinct marks, and names: the graph of an index is over strings.
LEMMA ApkNode ==
    ASSUME NEW idx \in ApkCaches, NEW x \in STRING
    PROVE  /\ x \in DOMAIN Apk!Graph(idx)
           /\ Mark(Apk!Graph(idx), x) = x
           /\ NextOf(Apk!Graph(idx), x) \in Seq(STRING)
           /\ Range(NextOf(Apk!Graph(idx), x)) \subseteq ApkNames(idx)
           /\ Adds(Apk!Graph(idx), x) \in Seq(Apk!Package)
           /\ Apk!Graph(idx)[x].misses \in Seq(STRING)
<1> DEFINE s == Apk!Found(idx, x)
           found == s # <<>>
           p == s[1]
           deps == p.depends
           real == {d \in Apk!Range(deps) : d.kind \notin {"conflict", "path"}}
           needed == Apk!Kept(deps, real)
           next == IF found THEN [n \in DOMAIN needed |-> needed[n].names[1]] ELSE <<>>
           adds == IF found THEN <<p>> ELSE <<>>
           misses == IF found THEN <<>> ELSE <<x>>
<1>1. DOMAIN Apk!Graph(idx) = STRING
  BY DEF Apk!Graph
<1>10. Apk!Graph(idx)[x] = [mark |-> x, next |-> next, adds |-> adds, misses |-> misses]
  BY DEF Apk!Graph
<1>2. /\ Apk!Graph(idx)[x].mark = x
      /\ Apk!Graph(idx)[x].next = next
      /\ Apk!Graph(idx)[x].adds = adds
      /\ Apk!Graph(idx)[x].misses = misses
  <2> HIDE DEF next, adds, misses
  <2> QED
    BY <1>10
<1>3. s \in Seq(Apk!Package) /\ (found => p \in ApkKnown(idx) /\ p \in Apk!Package)
  BY ApkFoundIs, ApkKnownIs
<1> HIDE DEF s
<1>4. adds \in Seq(Apk!Package) /\ misses \in Seq(STRING)
  <2>1. CASE found
    <3>1. adds = <<p>> /\ misses = <<>> /\ p \in Apk!Package
      BY <1>3, <2>1
    <3> HIDE DEF adds, misses, p
    <3> QED
      BY <3>1, ShortSeq
  <2>2. CASE ~found
    <3>1. adds = <<>> /\ misses = <<x>>
      BY <2>2
    <3> HIDE DEF adds, misses
    <3> QED
      BY <3>1, ShortSeq
  <2> QED
    BY <2>1, <2>2
<1>5. next \in Seq(STRING) /\ Range(next) \subseteq ApkNames(idx)
  <2>1. CASE ~found
    <3>1. next = <<>>
      BY <2>1
    <3> HIDE DEF next
    <3> QED
      BY <3>1, EmptyRange
  <2>2. CASE found
    <3>1. deps \in Seq(Apk!Dependency) /\ p \in ApkKnown(idx)
      BY <1>3, <2>2 DEF Apk!Package
    <3>2. ApkNeeds(p) = {d.names[1] : d \in Range(deps)}
      BY DEF ApkNeeds
    <3>3. \A d \in Apk!Dependency : d.names[1] \in STRING
      BY DEF Apk!Dependency
    <3>4. next = [n \in DOMAIN needed |-> needed[n].names[1]]
      BY <2>2
    <3> HIDE DEF p
    <3> HIDE DEF deps, real
    <3>5. needed \in Seq(Apk!Dependency) /\ Range(needed) \subseteq Range(deps)
      <4>1. /\ Kept(deps, real) \in Seq(Apk!Dependency)
            /\ Range(Kept(deps, real)) = Range(deps) \cap real
        BY <3>1, KeptElements
      <4>2. needed = Kept(deps, real)
        BY SameKept
      <4> HIDE DEF needed
      <4> QED
        BY <4>1, <4>2
    <3> HIDE DEF needed, next
    <3>6. DOMAIN needed = 1..Len(needed) /\ Len(needed) \in Nat
          /\ \A n \in DOMAIN needed : needed[n] \in Apk!Dependency
      BY <3>5
    <3>7. next \in Seq(STRING)
      <4>1. \A n \in 1..Len(needed) : needed[n].names[1] \in STRING
        BY <3>3, <3>6
      <4>2. next = [n \in 1..Len(needed) |-> needed[n].names[1]]
        BY <3>4, <3>6
      <4> QED
        BY <4>1, <4>2, <3>6
    <3>8. \A n \in DOMAIN needed : needed[n] \in Range(deps)
      BY <3>5 DEF Range
    <3>9. Range(next) \subseteq ApkNeeds(p)
      BY <3>2, <3>4, <3>8 DEF Range
    <3>10. ApkNeeds(p) \subseteq ApkNames(idx)
      BY <3>1 DEF ApkNames
    <3> QED
      BY <3>7, <3>9, <3>10
  <2> QED
    BY <2>1, <2>2
<1> HIDE DEF next, adds, misses
<1> QED
  BY <1>1, <1>2, <1>4, <1>5 DEF Mark, NextOf, Adds

\* What the visitor needs of a graph.
Fit(g, M, O, N) ==
    /\ GraphOver(g, M, O, N)
    /\ LocallyFinite(g)
    /\ \A U \in SUBSET DOMAIN g : MarksAgree(g, U)

\* The graph of apk is one the visitor is right about.
THEOREM ApkFit ==
    ASSUME NEW idx \in ApkCaches
    PROVE  Fit(Apk!Graph(idx), STRING, Apk!Package, STRING)
<1> DEFINE g == Apk!Graph(idx)
<1>1. DOMAIN g = STRING
  BY DEF Apk!Graph
<1>2. \A x \in STRING :
        /\ Mark(g, x) = x
        /\ NextOf(g, x) \in Seq(STRING)
        /\ Range(NextOf(g, x)) \subseteq ApkNames(idx)
        /\ Adds(g, x) \in Seq(Apk!Package)
        /\ g[x].misses \in Seq(STRING)
  BY ApkNode
<1> HIDE DEF g
<1>3. GraphOver(g, STRING, Apk!Package, STRING)
  BY <1>1, <1>2 DEF GraphOver, Mark, NextOf, Adds
<1>4. LocallyFinite(g)
  <2> SUFFICES ASSUME NEW x \in STRING PROVE \E U : Confined(g, U) /\ x \in U
    BY <1>1 DEF LocallyFinite
  <2> DEFINE U == ApkNames(idx) \cup {x}
  <2>1. IsFiniteSet(ApkNames(idx)) /\ ApkNames(idx) \subseteq STRING
    BY ApkNamesFinite
  <2>2. IsFiniteSet(U) /\ U \subseteq STRING
    BY <2>1, FS_AddElement
  <2>3. ClosedUnder(g, U)
    BY <2>2, <1>2 DEF ClosedUnder, NextOf
  <2>4. Confined(g, U) /\ x \in U
    BY <2>2, <2>3, <1>1 DEF Confined
  <2> HIDE DEF U
  <2> QED
    BY <2>4
<1>5. ASSUME NEW U \in SUBSET DOMAIN g PROVE MarksAgree(g, U)
  <2>1. \A x \in U : Mark(g, x) = x
    BY <1>1, <1>2
  <2> QED
    BY <2>1 DEF MarksAgree
<1> QED
  BY <1>3, <1>4, <1>5 DEF Fit, g

--------------------------------------------------------------------------------
(* The order of versions of dnf. *)

\* a is before b at i.
LessAt(a, b, i) ==
    /\ i \in DOMAIN a \cap DOMAIN b
    /\ a[i] < b[i]
    /\ \A j \in 1..(i - 1) : a[j] = b[j]

\* Neither is before the other as far as both go.
Alike(a, b) == \A i \in DOMAIN a \cap DOMAIN b : a[i] = b[i]

\* Versions compare as the first numbers that differ.
LEMMA VercmpLess ==
    ASSUME NEW a \in Seq(Int), NEW b \in Seq(Int), NEW i, LessAt(a, b, i)
    PROVE  Dnf!Vercmp(a, b) = a[i] - b[i] /\ Dnf!Vercmp(b, a) = b[i] - a[i]
<1> DEFINE differ == {j \in DOMAIN a \cap DOMAIN b : a[j] # b[j]}
           other == {j \in DOMAIN b \cap DOMAIN a : b[j] # a[j]}
           k == CHOOSE j \in differ : \A m \in differ : j <= m
           l == CHOOSE j \in other : \A m \in other : j <= m
<1>1. DOMAIN a = 1..Len(a) /\ DOMAIN b = 1..Len(b) /\ Len(a) \in Nat /\ Len(b) \in Nat
  OBVIOUS
<1>2. i \in differ /\ \A m \in differ : i <= m
  <2>1. i \in DOMAIN a \cap DOMAIN b /\ a[i] < b[i] /\ \A j \in 1..(i - 1) : a[j] = b[j]
    BY DEF LessAt
  <2>2. a[i] \in Int /\ b[i] \in Int /\ i \in Nat
    BY <2>1, <1>1
  <2>3. i \in differ
    BY <2>1, <2>2
  <2>4. ASSUME NEW m \in differ PROVE i <= m
    <3>1. m \in Nat /\ m >= 1 /\ a[m] # b[m]
      BY <1>1
    <3>2. CASE m < i
      <4>1. m \in 1..(i - 1)
        BY <3>1, <3>2, <2>2
      <4> QED
        BY <4>1, <3>1, <2>1
    <3> QED
      BY <3>1, <3>2, <2>2
  <2> QED
    BY <2>3, <2>4
<1>3. \A j \in differ : (\A m \in differ : j <= m) => j = i
  <2>1. \A j \in differ : j \in Int
    BY <1>1
  <2> HIDE DEF differ
  <2> QED
    BY <1>2, <2>1
<1>4. other = differ
  OBVIOUS
<1>5. k = i /\ l = i
  <2> HIDE DEF differ, other
  <2> QED
    BY <1>2, <1>3, <1>4
<1>6. Dnf!Vercmp(a, b) = a[k] - b[k] /\ Dnf!Vercmp(b, a) = b[l] - a[l]
  BY <1>2, <1>4 DEF Dnf!Vercmp
<1> QED
  BY <1>5, <1>6

\* Two versions are the same as far as both go, or one is before the other somewhere.
LEMMA VercmpCases ==
    ASSUME NEW a \in Seq(Int), NEW b \in Seq(Int)
    PROVE  \/ Alike(a, b) /\ Dnf!Vercmp(a, b) = Len(a) - Len(b)
           \/ \E i : LessAt(a, b, i)
           \/ \E i : LessAt(b, a, i)
<1> DEFINE differ == {j \in DOMAIN a \cap DOMAIN b : a[j] # b[j]}
<1>1. DOMAIN a = 1..Len(a) /\ DOMAIN b = 1..Len(b) /\ Len(a) \in Nat /\ Len(b) \in Nat
  OBVIOUS
<1>2. CASE differ = {}
  <2>1. Alike(a, b)
    BY <1>2 DEF Alike
  <2>2. Dnf!Vercmp(a, b) = Len(a) - Len(b)
    BY <1>2 DEF Dnf!Vercmp
  <2> QED
    BY <2>1, <2>2
<1>3. CASE differ # {}
  <2>1. differ \in SUBSET Nat
    BY <1>1
  <2>2. PICK i \in differ : \A y \in differ : i <= y
    <3> HIDE DEF differ
    <3> QED
      BY <1>3, <2>1, LeastElement
  <2>3. i \in DOMAIN a \cap DOMAIN b /\ a[i] # b[i] /\ i \in Nat /\ a[i] \in Int /\ b[i] \in Int
    BY <2>1
  <2>4. \A j \in 1..(i - 1) : a[j] = b[j]
    <3> SUFFICES ASSUME NEW j \in 1..(i - 1), a[j] # b[j] PROVE FALSE
      OBVIOUS
    <3>1. j \in DOMAIN a \cap DOMAIN b /\ j < i /\ j \in Nat
      BY <1>1, <2>3
    <3>2. j \in differ
      BY <3>1
    <3> QED
      BY <2>2, <2>3, <3>1, <3>2
  <2>5. LessAt(a, b, i) \/ LessAt(b, a, i)
    BY <2>3, <2>4 DEF LessAt
  <2> QED
    BY <2>5
<1> QED
  BY <1>2, <1>3

\* What is not newer than a version is not newer than what is newer.
LEMMA VercmpTransitive ==
    ASSUME NEW o \in Seq(Int), NEW p \in Seq(Int), NEW q \in Seq(Int),
           Dnf!Vercmp(o, p) <= 0, Dnf!Vercmp(q, p) > 0
    PROVE  Dnf!Vercmp(o, q) <= 0
<1>1. /\ DOMAIN o = 1..Len(o) /\ DOMAIN p = 1..Len(p) /\ DOMAIN q = 1..Len(q)
      /\ Len(o) \in Nat /\ Len(p) \in Nat /\ Len(q) \in Nat
  OBVIOUS
<1>2. /\ \A i \in DOMAIN o : o[i] \in Int
      /\ \A i \in DOMAIN p : p[i] \in Int
      /\ \A i \in DOMAIN q : q[i] \in Int
  OBVIOUS
<1>3. \A i : LessAt(o, q, i) => Dnf!Vercmp(o, q) <= 0
  <2> SUFFICES ASSUME NEW i, LessAt(o, q, i) PROVE Dnf!Vercmp(o, q) <= 0
    OBVIOUS
  <2>1. Dnf!Vercmp(o, q) = o[i] - q[i]
    BY VercmpLess
  <2>2. o[i] < q[i] /\ o[i] \in Int /\ q[i] \in Int
    BY <1>2 DEF LessAt
  <2> QED
    BY <2>1, <2>2
<1>4. \A i : ~LessAt(p, o, i)
  <2> SUFFICES ASSUME NEW i, LessAt(p, o, i) PROVE FALSE
    OBVIOUS
  <2>1. Dnf!Vercmp(o, p) = o[i] - p[i]
    BY VercmpLess
  <2>2. p[i] < o[i] /\ o[i] \in Int /\ p[i] \in Int
    BY <1>2 DEF LessAt
  <2> QED
    BY <2>1, <2>2
<1>5. \A i : ~LessAt(q, p, i)
  <2> SUFFICES ASSUME NEW i, LessAt(q, p, i) PROVE FALSE
    OBVIOUS
  <2>1. Dnf!Vercmp(q, p) = q[i] - p[i]
    BY VercmpLess
  <2>2. q[i] < p[i] /\ q[i] \in Int /\ p[i] \in Int
    BY <1>2 DEF LessAt
  <2> QED
    BY <2>1, <2>2
<1>6. \/ Alike(o, p) /\ Len(o) <= Len(p)
      \/ \E k : LessAt(o, p, k)
  <2>1. \/ Alike(o, p) /\ Dnf!Vercmp(o, p) = Len(o) - Len(p)
        \/ \E k : LessAt(o, p, k)
    BY <1>4, VercmpCases
  <2>2. Dnf!Vercmp(o, p) = Len(o) - Len(p) => Len(o) <= Len(p)
    BY <1>1
  <2> QED
    BY <2>1, <2>2
<1>7. \/ Alike(q, p) /\ Len(q) > Len(p)
      \/ \E m : LessAt(p, q, m)
  <2>1. \/ Alike(q, p) /\ Dnf!Vercmp(q, p) = Len(q) - Len(p)
        \/ \E m : LessAt(p, q, m)
    BY <1>5, VercmpCases
  <2>2. Dnf!Vercmp(q, p) = Len(q) - Len(p) => Len(q) > Len(p)
    BY <1>1
  <2> QED
    BY <2>1, <2>2
<1>8. CASE Alike(o, p) /\ Len(o) <= Len(p) /\ Alike(q, p) /\ Len(q) > Len(p)
  <2>0. \A i \in 1..Len(o) : i \in 1..Len(p) /\ i \in 1..Len(q)
    BY <1>1, <1>8
  <2>1. \A i \in 1..Len(o) : i \in 1..Len(p) /\ i \in 1..Len(q) /\ o[i] = q[i]
    BY <1>1, <1>8, <2>0 DEF Alike
  <2>2. \A i : ~LessAt(o, q, i) /\ ~LessAt(q, o, i)
    BY <1>1, <1>2, <2>1 DEF LessAt
  <2>3. Dnf!Vercmp(o, q) = Len(o) - Len(q)
    BY <2>2, VercmpCases
  <2> QED
    BY <1>1, <1>8, <2>3
<1>9. ASSUME Alike(o, p), Len(o) <= Len(p), NEW m, LessAt(p, q, m) PROVE Dnf!Vercmp(o, q) <= 0
  <2>1. m \in 1..Len(p) /\ m \in 1..Len(q) /\ p[m] < q[m] /\ \A j \in 1..(m - 1) : p[j] = q[j]
    BY <1>1, <1>9 DEF LessAt
  <2>2. CASE m <= Len(o)
    <3>1. m \in 1..Len(o) /\ \A j \in 1..m : j \in 1..Len(o) /\ j \in 1..Len(p)
      BY <1>1, <2>1, <2>2
    <3>4. \A j \in 1..m : o[j] = p[j]
      BY <1>1, <1>9, <3>1 DEF Alike
    <3>5. m \in 1..m /\ \A j \in 1..(m - 1) : j \in 1..m
      BY <1>1, <2>1
    <3>2. o[m] = p[m] /\ \A j \in 1..(m - 1) : o[j] = p[j]
      BY <3>4, <3>5
    <3>3. LessAt(o, q, m)
      BY <1>1, <2>1, <3>1, <3>2 DEF LessAt
    <3> QED
      BY <3>3, <1>3
  <2>3. CASE m > Len(o)
    <3>1. \A i \in 1..Len(o) : i \in 1..Len(p) /\ i \in 1..Len(q) /\ i \in 1..(m - 1)
      BY <1>1, <2>1, <2>3
    <3>2. \A i \in 1..Len(o) : o[i] = q[i]
      BY <1>1, <1>9, <2>1, <3>1 DEF Alike
    <3>3. \A i : ~LessAt(o, q, i) /\ ~LessAt(q, o, i)
      BY <1>1, <1>2, <3>1, <3>2 DEF LessAt
    <3>4. Dnf!Vercmp(o, q) = Len(o) - Len(q)
      BY <3>3, VercmpCases
    <3>5. Len(o) < Len(q)
      BY <1>1, <2>1, <2>3
    <3> QED
      BY <1>1, <3>4, <3>5
  <2> QED
    BY <1>1, <2>1, <2>2, <2>3
<1>10. ASSUME NEW k, LessAt(o, p, k), Alike(q, p), Len(q) > Len(p) PROVE Dnf!Vercmp(o, q) <= 0
  <2>1. k \in 1..Len(o) /\ k \in 1..Len(p) /\ o[k] < p[k] /\ \A j \in 1..(k - 1) : o[j] = p[j]
    BY <1>1, <1>10 DEF LessAt
  <2>2. \A j \in 1..k : j \in 1..Len(p) /\ j \in 1..Len(q)
    BY <1>1, <1>10, <2>1
  <2>3. \A j \in 1..k : q[j] = p[j]
    BY <1>1, <1>10, <2>2 DEF Alike
  <2>4. k \in 1..k /\ \A j \in 1..(k - 1) : j \in 1..k
    BY <1>1, <2>1
  <2>5. LessAt(o, q, k)
    BY <1>1, <2>1, <2>2, <2>3, <2>4 DEF LessAt
  <2> QED
    BY <2>5, <1>3
<1>11. ASSUME NEW k, LessAt(o, p, k), NEW m, LessAt(p, q, m) PROVE Dnf!Vercmp(o, q) <= 0
  <2>1. /\ k \in 1..Len(o) /\ k \in 1..Len(p) /\ o[k] < p[k] /\ \A j \in 1..(k - 1) : o[j] = p[j]
        /\ m \in 1..Len(p) /\ m \in 1..Len(q) /\ p[m] < q[m] /\ \A j \in 1..(m - 1) : p[j] = q[j]
        /\ o[k] \in Int /\ p[k] \in Int /\ p[m] \in Int /\ q[m] \in Int
    BY <1>1, <1>2, <1>11 DEF LessAt
  <2>2. CASE k < m
    <3>1. k \in 1..(m - 1) /\ k \in 1..Len(q) /\ \A j \in 1..(k - 1) : j \in 1..(m - 1)
      BY <1>1, <2>1, <2>2
    <3>2. p[k] = q[k] /\ \A j \in 1..(k - 1) : o[j] = q[j]
      BY <2>1, <3>1
    <3>3. LessAt(o, q, k)
      BY <1>1, <2>1, <3>1, <3>2 DEF LessAt
    <3> QED
      BY <3>3, <1>3
  <2>3. CASE k = m
    <3>1. o[k] < q[k] /\ \A j \in 1..(k - 1) : o[j] = q[j]
      BY <2>1, <2>3
    <3>2. LessAt(o, q, k)
      BY <1>1, <2>1, <2>3, <3>1 DEF LessAt
    <3> QED
      BY <3>2, <1>3
  <2>4. CASE k > m
    <3>1. m \in 1..(k - 1) /\ m \in 1..Len(o) /\ \A j \in 1..(m - 1) : j \in 1..(k - 1)
      BY <1>1, <2>1, <2>4
    <3>2. o[m] = p[m] /\ \A j \in 1..(m - 1) : o[j] = q[j]
      BY <2>1, <3>1
    <3>3. LessAt(o, q, m)
      BY <1>1, <2>1, <3>1, <3>2 DEF LessAt
    <3> QED
      BY <3>3, <1>3
  <2>5. k \in Int /\ m \in Int
    BY <2>1
  <2> QED
    BY <2>2, <2>3, <2>4, <2>5
<1> QED
  BY <1>6, <1>7, <1>8, <1>9, <1>10, <1>11

\* No version is newer than itself.
LEMMA VercmpSelf ==
    ASSUME NEW a \in Seq(Int)
    PROVE  Dnf!Vercmp(a, a) <= 0
<1>1. \A i : ~LessAt(a, a, i)
  <2> SUFFICES ASSUME NEW i, LessAt(a, a, i) PROVE FALSE
    OBVIOUS
  <2>1. a[i] < a[i] /\ a[i] \in Int
    BY DEF LessAt
  <2> QED
    BY <2>1
<1>2. Dnf!Vercmp(a, a) = Len(a) - Len(a)
  BY <1>1, VercmpCases
<1>3. Len(a) \in Nat
  OBVIOUS
<1> QED
  BY <1>2, <1>3

DnfNext(c, o) ==
    IF o.arch = "src" THEN c ELSE Dnf!AddPackage(c, Dnf!BuildPackageInfo(o))

\* The recursion of ParsePrimaryXML has a trace.
DnfTrace(f, c, packages) ==
    /\ f[0] = c
    /\ \A n \in 0..Len(packages) : n < Len(packages) => f[n + 1] = DnfNext(f[n], packages[n + 1])

\* ParsePrimaryXML goes from package to package.
LEMMA ParsePrimaryHasTrace ==
    ASSUME NEW c, NEW packages, Len(packages) \in Nat
    PROVE  \E f : DnfTrace(f, c, packages) /\ Dnf!ParsePrimaryXML(c, packages) = f[Len(packages)]
<1> DEFINE N == Len(packages)
           Rule(f, m) == f = [n \in 0..m |-> IF n = 0 THEN c ELSE DnfNext(f[n - 1], packages[n])]
           T == {m \in 0..N : \E f : Rule(f, m)}
<1>1. 0 \in T
  <2> DEFINE g == [n \in 0..0 |-> c]
  <2>1. Rule(g, 0)
    OBVIOUS
  <2> HIDE DEF g, Rule
  <2>2. \E h : Rule(h, 0)
    BY <2>1
  <2> QED
    BY <2>2
<1>2. ASSUME NEW m \in 0..N, m < N, m \in T PROVE m + 1 \in T
  <2>1. PICK f : Rule(f, m)
    BY <1>2
  <2> DEFINE g == [n \in 0..(m + 1) |-> IF n = m + 1 THEN DnfNext(f[m], packages[n]) ELSE f[n]]
  <2>2. \A n \in 0..(m + 1) : g[n] = IF n = 0 THEN c ELSE DnfNext(g[n - 1], packages[n])
    BY <2>1
  <2>3. Rule(g, m + 1)
    BY <2>2
  <2> HIDE DEF g, Rule
  <2>4. \E h : Rule(h, m + 1)
    BY <2>3
  <2>5. m + 1 \in 0..N
    BY <1>2
  <2> QED
    BY <2>4, <2>5
<1>3. N \in T
  <2> HIDE DEF T
  <2>1. 0..N \subseteq T
    BY <1>1, <1>2, UpTo
  <2> QED
    BY <2>1
<1>4. \E f : Rule(f, N)
  BY <1>3
<1> DEFINE f == CHOOSE f : Rule(f, N)
<1>5. Rule(f, N)
  BY <1>4
<1>6. Dnf!ParsePrimaryXML(c, packages) = f[N]
  BY DEF Dnf!ParsePrimaryXML, DnfNext
<1> HIDE DEF f
<1>7. DnfTrace(f, c, packages)
  BY <1>5 DEF DnfTrace
<1> QED
  BY <1>6, <1>7

\* Packages that can be asked for, and what a cache holds of them.
Offered == {p \in Dnf!Package : p.href # ""}
DnfCaches(docs) ==
    [packages : Finitely(STRING, Offered), providers : Finitely(STRING, Seq(Offered)), modules : {docs}]

Epoch(p) == Dnf!EVRString(p)

\* An epoch, version and release are a sequence of numbers.
LEMMA EpochIs ==
    ASSUME NEW p \in Dnf!Package
    PROVE  Epoch(p) \in Seq(Int)
<1> DEFINE e == p.epoch   v == p.version   r == p.release
<1>1. e \in Int /\ v \in Seq(Int) /\ r \in Seq(Int)
  BY DEF Dnf!Package
<1>2. Epoch(p) = <<e>> \o v \o r
  BY DEF Epoch, Dnf!EVRString
<1> HIDE DEF e, v, r
<1>3. <<e>> \o v \o r \in Seq(Int)
  BY <1>1
<1> QED
  BY <1>2, <1>3

\* What is kept of a package is what is compared.
LEMMA BuildIs ==
    ASSUME NEW o \in Offered
    PROVE  LET p == Dnf!BuildPackageInfo(o)
           IN  /\ p \in Offered
               /\ p.name = o.name /\ p.arch = o.arch /\ p.href = o.href
               /\ p.modular = o.modular
               /\ Epoch(p) = Epoch(o)
<1> DEFINE Real(deps) == Dnf!Kept(deps, {d \in Dnf!Range(deps) : d.kind # "rpmlib"})
           p == [o EXCEPT !.requires = Real(o.requires), !.recommends = Real(o.recommends)]
<1>1. Dnf!BuildPackageInfo(o) = p
  BY DEF Dnf!BuildPackageInfo
<1>2. o \in Dnf!Package /\ o.requires \in Seq(Dnf!Dependency) /\ o.recommends \in Seq(Dnf!Dependency)
  BY DEF Offered, Dnf!Package
<1>3. \A deps \in Seq(Dnf!Dependency) : Real(deps) \in Seq(Dnf!Dependency)
  BY SameKept, KeptElements
<1>4. Real(o.requires) \in Seq(Dnf!Dependency) /\ Real(o.recommends) \in Seq(Dnf!Dependency)
  BY <1>2, <1>3
<1> HIDE DEF Real
<1>5. /\ p \in Dnf!Package /\ p.name = o.name /\ p.arch = o.arch /\ p.href = o.href
      /\ p.modular = o.modular /\ p.epoch = o.epoch /\ p.version = o.version /\ p.release = o.release
  BY <1>2, <1>4 DEF Dnf!Package
<1> HIDE DEF p
<1>6. Epoch(p) = Epoch(o)
  BY <1>5 DEF Epoch, Dnf!EVRString
<1>7. p \in Offered
  BY <1>5 DEF Offered
<1> QED
  BY <1>1, <1>5, <1>6, <1>7

\* p may stand for o: it is of an architecture that is at least as good, and not older
\* if it is the same.
Stands(p, o) ==
    /\ o.arch = HostArch => p.arch = HostArch
    /\ o.arch = "noarch" => p.arch \in {HostArch, "noarch"}
    /\ o.arch = p.arch => Dnf!Vercmp(Epoch(o), Epoch(p)) <= 0

\* What does not replace a package has it stand for itself; what replaces it stands for
\* all that it stood for.
LEMMA ReplacedStands ==
    ASSUME NEW p \in Offered, NEW q \in Offered
    PROVE  /\ ~Dnf!ShouldReplace(p, q) => Stands(p, q)
           /\ Stands(q, q)
           /\ \A o \in Offered : Dnf!ShouldReplace(p, q) /\ Stands(p, o) => Stands(q, o)
<1>1. /\ p.href # "" /\ q.href # "" /\ Epoch(p) \in Seq(Int) /\ Epoch(q) \in Seq(Int)
  BY EpochIs DEF Offered
<1>2. Dnf!ShouldReplace(p, q) <=>
        \/ p.arch # q.arch /\ q.arch = HostArch
        \/ p.arch # q.arch /\ q.arch = "noarch" /\ p.arch # HostArch
        \/ p.arch = q.arch /\ Dnf!Vercmp(Epoch(q), Epoch(p)) > 0
  BY <1>1 DEF Dnf!ShouldReplace, Dnf!NewerEVR, Epoch
<1>3. \A a, b \in Seq(Int) : Dnf!Vercmp(a, b) \in Int
  <2> SUFFICES ASSUME NEW a \in Seq(Int), NEW b \in Seq(Int) PROVE Dnf!Vercmp(a, b) \in Int
    OBVIOUS
  <2>1. CASE Dnf!Vercmp(a, b) = Len(a) - Len(b)
    BY <2>1
  <2>2. ASSUME NEW i, LessAt(a, b, i) PROVE Dnf!Vercmp(a, b) \in Int
    <3>1. Dnf!Vercmp(a, b) = a[i] - b[i]
      BY <2>2, VercmpLess
    <3>2. a[i] \in Int /\ b[i] \in Int
      BY <2>2 DEF LessAt
    <3> QED
      BY <3>1, <3>2
  <2>3. ASSUME NEW i, LessAt(b, a, i) PROVE Dnf!Vercmp(a, b) \in Int
    <3>1. Dnf!Vercmp(a, b) = a[i] - b[i]
      BY <2>3, VercmpLess
    <3>2. a[i] \in Int /\ b[i] \in Int
      BY <2>3 DEF LessAt
    <3> QED
      BY <3>1, <3>2
  <2> QED
    BY <2>1, <2>2, <2>3, VercmpCases
<1>4. Dnf!Vercmp(Epoch(q), Epoch(p)) \in Int /\ Dnf!Vercmp(Epoch(q), Epoch(q)) \in Int
  BY <1>1, <1>3
<1>5. Dnf!Vercmp(Epoch(q), Epoch(q)) <= 0
  BY <1>1, VercmpSelf
<1>6. ~Dnf!ShouldReplace(p, q) => Stands(p, q)
  <2> SUFFICES ASSUME ~Dnf!ShouldReplace(p, q) PROVE Stands(p, q)
    OBVIOUS
  <2>1. q.arch = p.arch => Dnf!Vercmp(Epoch(q), Epoch(p)) <= 0
    BY <1>2, <1>4
  <2> QED
    BY <1>2, <2>1 DEF Stands
<1>7. Stands(q, q)
  BY <1>5 DEF Stands
<1>8. ASSUME NEW o \in Offered, Dnf!ShouldReplace(p, q), Stands(p, o) PROVE Stands(q, o)
  <2>1. Epoch(o) \in Seq(Int)
    BY EpochIs DEF Offered
  <2>2. CASE p.arch = q.arch /\ Dnf!Vercmp(Epoch(q), Epoch(p)) > 0
    <3>1. o.arch = p.arch => Dnf!Vercmp(Epoch(o), Epoch(q)) <= 0
      BY <1>1, <1>8, <2>1, <2>2, VercmpTransitive DEF Stands
    <3> QED
      BY <1>8, <2>2, <3>1 DEF Stands
  <2>3. CASE p.arch # q.arch /\ q.arch = HostArch
    BY <1>8, <2>3 DEF Stands
  <2>4. CASE p.arch # q.arch /\ q.arch = "noarch" /\ p.arch # HostArch
    BY <1>8, <2>4 DEF Stands
  <2> QED
    BY <1>2, <1>8, <2>2, <2>3, <2>4
<1> QED
  BY <1>6, <1>7, <1>8

\* What DNF offers of a name, among the packages seen so far.
DnfOffers(docs, Seen, n) ==
    {o \in Seen : o.name = n /\ o.arch # "src" /\ ~Dnf!IsBlockedByModuleFilter(docs, o)}

\* What is kept of each name stands for all that is offered of it.
DnfBest(docs, packages, Seen) ==
    \A n : /\ DnfOffers(docs, Seen, n) # {} => n \in DOMAIN packages
           /\ n \in DOMAIN packages =>
                 /\ \E o \in DnfOffers(docs, Seen, n) : o.arch = packages[n].arch
                 /\ \A o \in DnfOffers(docs, Seen, n) : Stands(packages[n], o)

Wins(packages, p) == p.name \notin DOMAIN packages \/ Dnf!ShouldReplace(packages[p.name], p)

\* A package that is not blocked is kept if it wins, and its capabilities in any case.
LEMMA AddPackageIs ==
    ASSUME NEW docs, NEW c \in DnfCaches(docs), NEW p \in Offered
    PROVE  LET next == Dnf!AddPackage(c, p)
           IN  /\ next \in DnfCaches(docs)
               /\ Dnf!IsBlockedByModuleFilter(docs, p) => next = c
               /\ ~Dnf!IsBlockedByModuleFilter(docs, p) =>
                     /\ DOMAIN next.packages = DOMAIN c.packages \cup {p.name}
                     /\ \A n \in DOMAIN c.packages : n # p.name => next.packages[n] = c.packages[n]
                     /\ next.packages[p.name] = IF Wins(c.packages, p) THEN p ELSE c.packages[p.name]
<1> DEFINE caps == {p.provides[n] : n \in DOMAIN p.provides} \ {p.name}
           old == c.packages
           packages == [n \in DOMAIN old \cup {p.name} |->
                          IF n = p.name /\ Wins(old, p) THEN p ELSE old[n]]
           providers == [v \in DOMAIN c.providers \cup caps |->
                           IF v \in caps THEN Append(Dnf!At(c.providers, v), p) ELSE c.providers[v]]
<1>1. /\ c = [packages |-> c.packages, providers |-> c.providers, modules |-> c.modules]
      /\ c.modules = docs
      /\ old \in Finitely(STRING, Offered) /\ c.providers \in Finitely(STRING, Seq(Offered))
  BY DEF DnfCaches
<1>2. Dnf!AddPackage(c, p) = IF Dnf!IsBlockedByModuleFilter(docs, p) THEN c
                             ELSE [c EXCEPT !.packages = packages, !.providers = providers]
  BY <1>1 DEF Dnf!AddPackage, Wins
<1>3. p.name \in STRING /\ p.provides \in Seq(STRING)
  BY DEF Offered, Dnf!Package
<1>4. /\ IsFiniteSet(DOMAIN old) /\ DOMAIN old \subseteq STRING
      /\ \A n \in DOMAIN old : old[n] \in Offered
      /\ IsFiniteSet(DOMAIN c.providers) /\ DOMAIN c.providers \subseteq STRING
      /\ \A v \in DOMAIN c.providers : c.providers[v] \in Seq(Offered)
  BY <1>1, FinitelyIs
<1>5. IsFiniteSet(caps) /\ caps \subseteq STRING
  <2>1. {p.provides[n] : n \in DOMAIN p.provides} = Range(p.provides)
    BY DEF Range
  <2>2. IsFiniteSet(Range(p.provides)) /\ Range(p.provides) \subseteq STRING
    BY <1>3, FiniteRange
  <2>3. caps \subseteq Range(p.provides)
    BY <2>1
  <2> HIDE DEF caps
  <2> QED
    BY <2>2, <2>3, FS_Subset
<1> HIDE DEF caps, old
<1>6. packages \in Finitely(STRING, Offered)
  <2>1. IsFiniteSet(DOMAIN old \cup {p.name})
    BY <1>4, FS_AddElement
  <2>2. DOMAIN packages = DOMAIN old \cup {p.name}
    OBVIOUS
  <2>4. ~Wins(old, p) => p.name \in DOMAIN old
    BY DEF Wins
  <2>3. packages \in [DOMAIN packages -> Offered]
    BY <1>4, <2>4
  <2> HIDE DEF packages
  <2> QED
    BY <1>3, <1>4, <2>1, <2>2, <2>3, FinitelyIs
<1>7. providers \in Finitely(STRING, Seq(Offered))
  <2>1. IsFiniteSet(DOMAIN c.providers \cup caps)
    BY <1>4, <1>5, FS_Union
  <2>2. DOMAIN providers = DOMAIN c.providers \cup caps
    OBVIOUS
  <2>3. \A v \in caps : Dnf!At(c.providers, v) \in Seq(Offered)
    BY <1>4 DEF Dnf!At
  <2>4. \A v \in caps : Append(Dnf!At(c.providers, v), p) \in Seq(Offered)
    BY <2>3
  <2>5. providers \in [DOMAIN providers -> Seq(Offered)]
    BY <1>4, <2>4
  <2> HIDE DEF providers
  <2> QED
    BY <1>4, <1>5, <2>1, <2>2, <2>5, FinitelyIs
<1>8. /\ DOMAIN packages = DOMAIN old \cup {p.name}
      /\ \A n \in DOMAIN old : n # p.name => packages[n] = old[n]
      /\ packages[p.name] = IF Wins(old, p) THEN p ELSE old[p.name]
  OBVIOUS
<1> HIDE DEF packages, providers
<1> DEFINE next == [c EXCEPT !.packages = packages, !.providers = providers]
<1>9. next \in DnfCaches(docs) /\ next.packages = packages
  BY <1>1, <1>6, <1>7 DEF DnfCaches
<1> HIDE DEF next
<1>10. CASE Dnf!IsBlockedByModuleFilter(docs, p)
  BY <1>2, <1>10
<1>11. CASE ~Dnf!IsBlockedByModuleFilter(docs, p)
  <2>1. Dnf!AddPackage(c, p) = next
    BY <1>2, <1>11 DEF next
  <2> QED
    BY <1>8, <1>9, <1>11, <2>1 DEF old
<1> QED
  BY <1>10, <1>11

\* What blocks a package is seen in what is kept of it.
LEMMA BlockedBuild ==
    ASSUME NEW docs, NEW o \in Offered
    PROVE  Dnf!IsBlockedByModuleFilter(docs, Dnf!BuildPackageInfo(o))
             <=> Dnf!IsBlockedByModuleFilter(docs, o)
<1> DEFINE p == Dnf!BuildPackageInfo(o)
<1>1. p.name = o.name /\ p.arch = o.arch /\ p.modular = o.modular /\ Epoch(p) = Epoch(o)
  BY BuildIs
<1> HIDE DEF p
<1>2. Dnf!PackageNVRA(p) = Dnf!PackageNVRA(o)
  BY <1>1 DEF Dnf!PackageNVRA, Epoch
<1>3. Dnf!IsBlockedByModuleFilter(docs, p) <=> Dnf!IsBlockedByModuleFilter(docs, o)
  BY <1>1, <1>2 DEF Dnf!IsBlockedByModuleFilter
<1> QED
  BY <1>3 DEF p

\* A package that is read keeps the best of each name.
LEMMA DnfNextIs ==
    ASSUME NEW docs, NEW c \in DnfCaches(docs), NEW o \in Offered, NEW Seen \in SUBSET Offered,
           DnfBest(docs, c.packages, Seen)
    PROVE  LET next == DnfNext(c, o)
           IN  next \in DnfCaches(docs) /\ DnfBest(docs, next.packages, Seen \cup {o})
<1> DEFINE p == Dnf!BuildPackageInfo(o)
           T == Seen \cup {o}
           next == DnfNext(c, o)
<1>1. /\ p \in Offered /\ p.name = o.name /\ p.arch = o.arch /\ Epoch(p) = Epoch(o)
      /\ Dnf!IsBlockedByModuleFilter(docs, p) <=> Dnf!IsBlockedByModuleFilter(docs, o)
  BY BuildIs, BlockedBuild
<1>2. next = IF o.arch = "src" THEN c ELSE Dnf!AddPackage(c, p)
  BY DEF DnfNext
<1> HIDE DEF p, next
<1> DEFINE passed == o.arch = "src" \/ Dnf!IsBlockedByModuleFilter(docs, o)
<1>3. CASE passed
  <2>1. next = c
    <3>1. Dnf!IsBlockedByModuleFilter(docs, p) => Dnf!AddPackage(c, p) = c
      BY <1>1, AddPackageIs
    <3> QED
      BY <1>1, <1>2, <1>3, <3>1
  <2>2. \A n : DnfOffers(docs, T, n) = DnfOffers(docs, Seen, n)
    BY <1>3 DEF DnfOffers
  <2> QED
    BY <2>1, <2>2 DEF DnfBest, next
<1>4. CASE ~passed
  <2> DEFINE old == c.packages   new == next.packages
  <2>1. next = Dnf!AddPackage(c, p) /\ ~Dnf!IsBlockedByModuleFilter(docs, p)
    BY <1>1, <1>2, <1>4
  <2>2. /\ next \in DnfCaches(docs)
        /\ DOMAIN new = DOMAIN old \cup {p.name}
        /\ \A n \in DOMAIN old : n # p.name => new[n] = old[n]
        /\ new[p.name] = IF Wins(old, p) THEN p ELSE old[p.name]
    BY <1>1, <2>1, AddPackageIs
  <2>3. \A n : n # o.name => DnfOffers(docs, T, n) = DnfOffers(docs, Seen, n)
    BY DEF DnfOffers
  <2>4. /\ DnfOffers(docs, T, o.name) = DnfOffers(docs, Seen, o.name) \cup {o}
        /\ DnfOffers(docs, Seen, o.name) \subseteq Offered
    BY <1>4 DEF DnfOffers
  <2>5. \A q : Stands(q, o) <=> Stands(q, p)
    BY <1>1 DEF Stands
  <2>6. \A n \in DOMAIN old : old[n] \in Offered
    <3>1. old \in Finitely(STRING, Offered)
      BY DEF DnfCaches
    <3> HIDE DEF old
    <3> QED
      BY <3>1, FinitelyIs
  <2>7. \A n : /\ DnfOffers(docs, Seen, n) # {} => n \in DOMAIN old
               /\ n \in DOMAIN old =>
                     /\ \E q \in DnfOffers(docs, Seen, n) : q.arch = old[n].arch
                     /\ \A q \in DnfOffers(docs, Seen, n) : Stands(old[n], q)
    BY DEF DnfBest
  <2> HIDE DEF old, new
  <2>8. /\ \E q \in DnfOffers(docs, T, o.name) : q.arch = new[o.name].arch
        /\ \A q \in DnfOffers(docs, T, o.name) : Stands(new[o.name], q)
    <3>1. CASE o.name \notin DOMAIN old
      <4>1. DnfOffers(docs, Seen, o.name) = {}
        BY <2>7, <3>1
      <4>2. new[o.name] = p /\ Stands(p, p)
        BY <1>1, <2>2, <3>1, ReplacedStands DEF Wins
      <4> QED
        BY <1>1, <2>4, <2>5, <4>1, <4>2
    <3>2. CASE o.name \in DOMAIN old /\ Dnf!ShouldReplace(old[o.name], p)
      <4> DEFINE was == old[o.name]
      <4>1. new[o.name] = p
        BY <1>1, <2>2, <3>2 DEF Wins
      <4>2. was \in Offered
        BY <2>6, <3>2
      <4>3. \A q \in DnfOffers(docs, Seen, o.name) : Stands(was, q) /\ q \in Offered
        BY <2>4, <2>7, <3>2
      <4> HIDE DEF was
      <4>4. Stands(p, p) /\ \A q \in DnfOffers(docs, Seen, o.name) : Stands(p, q)
        BY <1>1, <3>2, <4>2, <4>3, ReplacedStands DEF was
      <4> QED
        BY <1>1, <2>4, <2>5, <4>1, <4>4
    <3>3. CASE o.name \in DOMAIN old /\ ~Dnf!ShouldReplace(old[o.name], p)
      <4>1. new[o.name] = old[o.name]
        BY <1>1, <2>2, <3>3 DEF Wins
      <4>2. Stands(old[o.name], p)
        BY <1>1, <2>6, <3>3, ReplacedStands
      <4>3. \A q \in DnfOffers(docs, Seen, o.name) : Stands(old[o.name], q)
        BY <2>7, <3>3
      <4>4. \E q \in DnfOffers(docs, Seen, o.name) : q.arch = old[o.name].arch
        BY <2>7, <3>3
      <4> QED
        BY <2>4, <2>5, <4>1, <4>2, <4>3, <4>4
    <3> QED
      BY <3>1, <3>2, <3>3
  <2>9. \A n : /\ DnfOffers(docs, T, n) # {} => n \in DOMAIN new
               /\ n \in DOMAIN new =>
                     /\ \E q \in DnfOffers(docs, T, n) : q.arch = new[n].arch
                     /\ \A q \in DnfOffers(docs, T, n) : Stands(new[n], q)
    <3> SUFFICES ASSUME NEW n
                 PROVE  /\ DnfOffers(docs, T, n) # {} => n \in DOMAIN new
                        /\ n \in DOMAIN new =>
                              /\ \E q \in DnfOffers(docs, T, n) : q.arch = new[n].arch
                              /\ \A q \in DnfOffers(docs, T, n) : Stands(new[n], q)
      OBVIOUS
    <3>1. CASE n = o.name
      BY <1>1, <2>2, <2>8, <3>1
    <3>2. CASE n # o.name
      BY <1>1, <2>2, <2>3, <2>7, <3>2
    <3> QED
      BY <3>1, <3>2
  <2>10. DnfBest(docs, next.packages, T)
    BY <2>9 DEF DnfBest, new
  <2> QED
    BY <2>2, <2>10 DEF next
<1> QED
  BY <1>3, <1>4

\* The same for all packages of a file.
THEOREM ParsePrimaryIs ==
    ASSUME NEW docs, NEW c \in DnfCaches(docs), NEW packages \in Seq(Offered), NEW Seen \in SUBSET Offered,
           DnfBest(docs, c.packages, Seen)
    PROVE  LET next == Dnf!ParsePrimaryXML(c, packages)
           IN  next \in DnfCaches(docs) /\ DnfBest(docs, next.packages, Seen \cup Range(packages))
<1>1. PICK f : DnfTrace(f, c, packages) /\ Dnf!ParsePrimaryXML(c, packages) = f[Len(packages)]
  <2>1. Len(packages) \in Nat
    OBVIOUS
  <2> QED
    BY <2>1, ParsePrimaryHasTrace
<1> DEFINE Read(i) == Seen \cup {packages[j] : j \in 1..i}
           Fine(i) == f[i] \in DnfCaches(docs) /\ DnfBest(docs, f[i].packages, Read(i))
           T == {i \in 0..Len(packages) : Fine(i)}
<1>2. 0 \in T
  <2>1. f[0] = c
    BY <1>1 DEF DnfTrace
  <2>2. Read(0) = Seen
    OBVIOUS
  <2> HIDE DEF Read
  <2>3. Fine(0)
    BY <2>1, <2>2
  <2> HIDE DEF Fine
  <2> QED
    BY <2>3
<1>3. ASSUME NEW i \in 0..Len(packages), i < Len(packages), i \in T PROVE i + 1 \in T
  <2> DEFINE o == packages[i + 1]
  <2>1. o \in Offered /\ i + 1 \in 0..Len(packages)
    BY <1>3
  <2>2. f[i + 1] = DnfNext(f[i], o)
    BY <1>1, <1>3 DEF DnfTrace
  <2>3. Read(i + 1) = Read(i) \cup {o}
    <3>1. \A j \in 1..(i + 1) : j \in 1..i \/ j = i + 1
      BY <1>3
    <3>2. \A j \in 1..i : j \in 1..(i + 1)
      BY <1>3
    <3>3. i + 1 \in 1..(i + 1)
      BY <1>3
    <3> QED
      BY <3>1, <3>2, <3>3
  <2>4. Read(i) \in SUBSET Offered
    <3>1. \A j \in 1..i : packages[j] \in Offered
      BY <1>3
    <3> QED
      BY <3>1
  <2> HIDE DEF o, Read
  <2>5. Fine(i)
    BY <1>3
  <2>6. f[i + 1] \in DnfCaches(docs) /\ DnfBest(docs, f[i + 1].packages, Read(i) \cup {o})
    <3>1. DnfNext(f[i], o) \in DnfCaches(docs) /\ DnfBest(docs, DnfNext(f[i], o).packages, Read(i) \cup {o})
      BY <2>1, <2>4, <2>5, DnfNextIs
    <3> QED
      BY <2>2, <3>1
  <2>7. Fine(i + 1)
    BY <2>3, <2>6
  <2> HIDE DEF Fine
  <2> QED
    BY <2>1, <2>7
<1>4. Len(packages) \in T
  <2> HIDE DEF T
  <2>1. 0..Len(packages) \subseteq T
    BY SMTT(40), <1>2, <1>3, UpTo
  <2> QED
    BY <2>1
<1>5. Read(Len(packages)) = Seen \cup Range(packages)
  BY DEF Range
<1> QED
  BY <1>1, <1>4, <1>5

\* The nodes of dnf: dependencies, and whether they may be missing.
DnfNodes == Dnf!Dependency \X BOOLEAN

\* Nodes of dnf are pairs.
LEMMA DnfNodesAre ==
    /\ \A d \in Dnf!Dependency, b \in BOOLEAN : <<d, b>> \in DnfNodes
    /\ \A x \in DnfNodes : x[1] \in Dnf!Dependency /\ x[2] \in BOOLEAN /\ x = <<x[1], x[2]>>
BY DEF DnfNodes

\* What a dependency stands for.
DnfAsked(have, d) == d.kind # "rich" /\ d.names[1] \notin have
DnfFound(c, have, d) == DnfAsked(have, d) /\ d.names[1] \in DOMAIN c.packages
DnfProvided(c, have, d) ==
    DnfAsked(have, d) /\ ~DnfFound(c, have, d) /\ Dnf!At(c.providers, d.names[1]) # <<>>
DnfVia(c, d) == Dnf!Plainly(Dnf!PickProvider(c.providers[d.names[1]]).name)
DnfBelow(p) == Dnf!Each(p.requires, FALSE) \o Dnf!Each(p.recommends, TRUE)

DnfNextOf(c, have, d, b) ==
    IF d.kind = "rich" THEN Dnf!Each(Dnf!ExpandBooleanDep(d), TRUE)
    ELSE IF DnfFound(c, have, d) THEN DnfBelow(c.packages[d.names[1]])
    ELSE IF DnfProvided(c, have, d) THEN <<<<DnfVia(c, d), b>>>> ELSE <<>>
DnfAdds(c, have, d) == IF DnfFound(c, have, d) THEN <<c.packages[d.names[1]]>> ELSE <<>>

\* A node of the graph, by these names.
LEMMA DnfGraphIs ==
    ASSUME NEW c, NEW have, NEW g, g = Dnf!Graph(c, have),
           NEW d \in Dnf!Dependency, NEW b \in BOOLEAN, NEW x, x = <<d, b>>
    PROVE  /\ DOMAIN g = DnfNodes
           /\ Mark(g, x) = d
           /\ NextOf(g, x) = DnfNextOf(c, have, d, b)
           /\ Adds(g, x) = DnfAdds(c, have, d)
           /\ g[x].misses \in {<<d.names[1]>>, <<>>}
<1> DEFINE next == DnfNextOf(c, have, d, b)
           adds == DnfAdds(c, have, d)
           misses == IF DnfAsked(have, d) /\ ~DnfFound(c, have, d) /\ ~DnfProvided(c, have, d) /\ ~b
                     THEN <<d.names[1]>> ELSE <<>>
<1>1. DOMAIN g = DnfNodes
  BY DEF Dnf!Graph, DnfNodes
<1>2. x \in DnfNodes /\ x[1] = d /\ x[2] = b
  BY SMTT(40) DEF DnfNodes
<1>3. g[x] = [mark |-> d, next |-> next, adds |-> adds, misses |-> misses]
  BY <1>2 DEF Dnf!Graph, DnfNodes, DnfAsked, DnfFound, DnfProvided, DnfVia, DnfBelow, DnfNextOf, DnfAdds
<1>4. misses \in {<<d.names[1]>>, <<>>}
  OBVIOUS
<1> HIDE DEF next, adds, misses
<1>5. g[x].mark = d /\ g[x].next = next /\ g[x].adds = adds /\ g[x].misses = misses
  BY <1>3
<1> QED
  BY <1>1, <1>4, <1>5 DEF Mark, NextOf, Adds, next, adds

\* Dependencies with the same softness.
LEMMA EachIs ==
    ASSUME NEW deps \in Seq(Dnf!Dependency), NEW b \in BOOLEAN
    PROVE  /\ Dnf!Each(deps, b) \in Seq(DnfNodes)
           /\ \A z \in Range(Dnf!Each(deps, b)) : z[1] \in Range(deps)
<1> DEFINE t == [n \in DOMAIN deps |-> <<deps[n], b>>]
<1>1. Dnf!Each(deps, b) = t
  BY DEF Dnf!Each
<1>2. DOMAIN deps = 1..Len(deps) /\ Len(deps) \in Nat /\ \A n \in DOMAIN deps : deps[n] \in Dnf!Dependency
  OBVIOUS
<1>3. \A n \in 1..Len(deps) : <<deps[n], b>> \in DnfNodes
  BY <1>2, DnfNodesAre
<1>4. t \in Seq(DnfNodes)
  <2>1. t = [n \in 1..Len(deps) |-> <<deps[n], b>>]
    BY <1>2
  <2> QED
    BY <1>2, <1>3, <2>1
<1>5. \A z \in Range(t) : z[1] \in Range(deps)
  BY DEF Range
<1> HIDE DEF t
<1> QED
  BY <1>1, <1>4, <1>5

\* The provider that is taken is one of them.
LEMMA PickedIs ==
    ASSUME NEW providers \in Seq(Offered), providers # <<>>
    PROVE  Dnf!PickProvider(providers) \in Range(providers)
<1> DEFINE Of(a) == Dnf!Kept(providers, {p \in Dnf!Range(providers) : p.arch = a})
<1>1. Dnf!PickProvider(providers) = (Of(HostArch) \o Of("noarch") \o providers)[1]
  BY DEF Dnf!PickProvider
<1>2. \A a : Of(a) \in Seq(Offered) /\ Range(Of(a)) \subseteq Range(providers)
  <2> SUFFICES ASSUME NEW a PROVE Of(a) \in Seq(Offered) /\ Range(Of(a)) \subseteq Range(providers)
    OBVIOUS
  <2> DEFINE T == {p \in Dnf!Range(providers) : p.arch = a}
  <2>1. Of(a) = Kept(providers, T)
    BY SameKept
  <2> HIDE DEF T
  <2>2. Kept(providers, T) \in Seq(Offered) /\ Range(Kept(providers, T)) = Range(providers) \cap T
    BY KeptElements
  <2> HIDE DEF Of
  <2> QED
    BY <2>1, <2>2
<1> DEFINE s == Of(HostArch)   t == Of("noarch")
<1>3. /\ s \in Seq(Offered) /\ t \in Seq(Offered)
      /\ Range(s) \subseteq Range(providers) /\ Range(t) \subseteq Range(providers)
  BY <1>2
<1> HIDE DEF s, t, Of
<1>4. s \o t \in Seq(Offered) /\ Range(s \o t) \subseteq Range(providers)
  BY <1>3, RangeOfConcat
<1> DEFINE u == s \o t
<1>9. u \in Seq(Offered) /\ Range(u) \subseteq Range(providers)
  BY <1>4
<1> HIDE DEF u
<1>5. u \o providers \in Seq(Offered) /\ Range(u \o providers) \subseteq Range(providers)
  BY <1>9, RangeOfConcat
<1>6. u \o providers # <<>>
  <2>1. u \in Seq(Offered)
    BY <1>9
  <2>2. Len(providers) > 0 /\ Len(u) \in Nat /\ Len(providers) \in Nat
    BY <2>1
  <2>3. Len(u \o providers) = Len(u) + Len(providers)
    BY <2>1
  <2> QED
    BY <2>2, <2>3
<1>7. (u \o providers)[1] \in Range(u \o providers)
  BY <1>5, <1>6, FirstIs
<1>8. Dnf!PickProvider(providers) = (u \o providers)[1]
  BY <1>1 DEF u, s, t
<1> QED
  BY <1>5, <1>7, <1>8

\* What a cache knows, and what that needs.
DnfKnown(c) == Known(c.packages, c.providers)
DnfNeeds(p) == Range(p.requires) \cup Range(p.recommends) \cup {Dnf!Plainly(p.name)}
DnfDeps(c) == UNION {DnfNeeds(p) : p \in DnfKnown(c)}
DnfParts(d) == Range(Dnf!ExpandBooleanDep(d))

\* A name is a plain dependency.
LEMMA PlainlyIs ==
    ASSUME NEW n \in STRING
    PROVE  Dnf!Plainly(n) \in Dnf!Dependency
<1> DEFINE names == <<n>>
<1>1. names \in Seq(STRING) /\ names # <<>>
  <2>1. names \in Seq(STRING)
    BY ShortSeq
  <2>2. names[1] = n /\ Len(names) = 1 /\ Len(<<>>) = 0
    OBVIOUS
  <2> QED
    BY <2>1, <2>2
<1>2. Dnf!Plainly(n) = [kind |-> "plain", names |-> names]
  BY DEF Dnf!Plainly
<1> HIDE DEF names
<1> QED
  BY <1>1, <1>2 DEF Dnf!Dependency

\* The fields of a package that a graph is made of.
LEMMA OfferedFields ==
    ASSUME NEW p \in Offered
    PROVE  /\ p \in Dnf!Package /\ p.name \in STRING
           /\ p.requires \in Seq(Dnf!Dependency) /\ p.recommends \in Seq(Dnf!Dependency)
           /\ Dnf!Plainly(p.name) \in Dnf!Dependency
<1>1. p \in Dnf!Package /\ p.name \in STRING
      /\ p.requires \in Seq(Dnf!Dependency) /\ p.recommends \in Seq(Dnf!Dependency)
  BY DEF Offered, Dnf!Package
<1>2. Dnf!Plainly(p.name) \in Dnf!Dependency
  BY <1>1, PlainlyIs
<1> QED
  BY <1>1, <1>2

\* The names of a dependency are plain dependencies.
LEMMA PartsAre ==
    ASSUME NEW d \in Dnf!Dependency
    PROVE  /\ Dnf!ExpandBooleanDep(d) \in Seq(Dnf!Dependency)
           /\ IsFiniteSet(DnfParts(d)) /\ DnfParts(d) \subseteq Dnf!Dependency
           /\ \A e \in DnfParts(d) : e.kind = "plain"
           /\ d.names[1] \in STRING
<1> DEFINE names == d.names   t == [n \in DOMAIN names |-> Dnf!Plainly(names[n])]
<1>1. names \in Seq(STRING) /\ names # <<>>
  BY DEF Dnf!Dependency
<1>2. Dnf!ExpandBooleanDep(d) = t
  BY DEF Dnf!ExpandBooleanDep
<1> HIDE DEF names
<1>3. DOMAIN names = 1..Len(names) /\ Len(names) \in Nat /\ \A n \in DOMAIN names : names[n] \in STRING
  BY <1>1
<1>4. \A n \in DOMAIN names : Dnf!Plainly(names[n]) \in Dnf!Dependency
  BY <1>3, PlainlyIs
<1>5. t \in Seq(Dnf!Dependency)
  <2>1. t = [n \in 1..Len(names) |-> Dnf!Plainly(names[n])]
    BY <1>3
  <2> QED
    BY <1>3, <1>4, <2>1
<1>6. \A e \in Range(t) : e.kind = "plain"
  <2>1. \A m : Dnf!Plainly(m).kind = "plain"
    BY DEF Dnf!Plainly
  <2> QED
    BY <2>1 DEF Range
<1> HIDE DEF t
<1>7. IsFiniteSet(Range(t)) /\ Range(t) \subseteq Dnf!Dependency
  BY <1>5, FiniteRange
<1>8. names[1] \in STRING
  BY <1>1, FirstIs
<1> QED
  BY <1>2, <1>5, <1>6, <1>7, <1>8 DEF DnfParts, names

\* A package of a cache, and what it needs.
LEMMA DnfKnownIs ==
    ASSUME NEW docs, NEW c \in DnfCaches(docs)
    PROVE  /\ IsFiniteSet(DnfKnown(c)) /\ DnfKnown(c) \subseteq Offered
           /\ \A n \in DOMAIN c.packages : c.packages[n] \in DnfKnown(c)
           /\ \A v \in DOMAIN c.providers :
                 c.providers[v] \in Seq(Offered) /\ Range(c.providers[v]) \subseteq DnfKnown(c)
<1>1. c.packages \in Finitely(STRING, Offered) /\ c.providers \in Finitely(STRING, Seq(Offered))
  BY DEF DnfCaches
<1>2. IsFiniteSet(DnfKnown(c)) /\ DnfKnown(c) \subseteq Offered
  BY <1>1, KnownIs DEF DnfKnown
<1>3. \A v \in DOMAIN c.providers : c.providers[v] \in Seq(Offered)
  BY <1>1, FinitelyIs
<1>4. \A n \in DOMAIN c.packages : c.packages[n] \in Range(c.packages)
  BY DEF Range
<1> QED
  BY <1>2, <1>3, <1>4 DEF DnfKnown, Known

\* A node leads to its parts or to what packages need, and adds a package.
LEMMA DnfNode ==
    ASSUME NEW docs, NEW c \in DnfCaches(docs), NEW have,
           NEW d \in Dnf!Dependency, NEW b \in BOOLEAN
    PROVE  LET g == Dnf!Graph(c, have)
               x == <<d, b>>
           IN  /\ NextOf(g, x) \in Seq(DnfNodes)
               /\ \A z \in Range(NextOf(g, x)) :
                     z[1] \in IF d.kind = "rich" THEN DnfParts(d) ELSE DnfDeps(c)
               /\ Adds(g, x) \in Seq(Dnf!Package)
               /\ g[x].misses \in Seq(STRING)
<1> DEFINE g == Dnf!Graph(c, have)
           x == <<d, b>>
           p == c.packages[d.names[1]]
           next == NextOf(g, x)
           adds == Adds(g, x)
           misses == g[x].misses
<1>0. /\ next = DnfNextOf(c, have, d, b)
      /\ adds = DnfAdds(c, have, d)
      /\ misses \in {<<d.names[1]>>, <<>>}
  BY DnfGraphIs
<1> HIDE DEF next, adds, misses
<1>1. /\ next = IF d.kind = "rich" THEN Dnf!Each(Dnf!ExpandBooleanDep(d), TRUE)
                ELSE IF DnfFound(c, have, d) THEN DnfBelow(p)
                ELSE IF DnfProvided(c, have, d) THEN <<<<DnfVia(c, d), b>>>> ELSE <<>>
      /\ adds = IF DnfFound(c, have, d) THEN <<p>> ELSE <<>>
      /\ misses \in {<<d.names[1]>>, <<>>}
  BY <1>0 DEF DnfNextOf, DnfAdds
<1>2. d.names[1] \in STRING
  BY PartsAre
<1>3. DnfFound(c, have, d) => d.kind # "rich" /\ p \in DnfKnown(c)
  BY DnfKnownIs DEF DnfFound, DnfAsked
<1>4. \A q \in DnfKnown(c) : q \in Offered /\ DnfNeeds(q) \subseteq DnfDeps(c)
  BY DnfKnownIs DEF DnfDeps
<1> HIDE DEF p
<1>5. misses \in Seq(STRING)
  <2> DEFINE m == d.names[1]
  <2>1. misses \in {<<m>>, <<>>} /\ m \in STRING
    BY <1>1, <1>2
  <2> HIDE DEF m
  <2> QED
    BY <2>1, ShortSeq
<1>6. adds \in Seq(Dnf!Package)
  <2>1. CASE DnfFound(c, have, d)
    <3>1. adds = <<p>> /\ p \in Dnf!Package
      BY <1>1, <1>3, <1>4, <2>1, OfferedFields
    <3> QED
      BY <3>1, ShortSeq
  <2>2. CASE ~DnfFound(c, have, d)
    <3>1. adds = <<>>
      BY <1>1, <2>2
    <3> QED
      BY <3>1, ShortSeq
  <2> QED
    BY <2>1, <2>2
<1>7. /\ next \in Seq(DnfNodes)
      /\ \A z \in Range(next) : z[1] \in IF d.kind = "rich" THEN DnfParts(d) ELSE DnfDeps(c)
  <2>1. CASE d.kind = "rich"
    <3>1. next = Dnf!Each(Dnf!ExpandBooleanDep(d), TRUE)
      BY <1>1, <2>1
    <3>2. Dnf!ExpandBooleanDep(d) \in Seq(Dnf!Dependency)
      BY PartsAre
    <3> QED
      BY <2>1, <3>1, <3>2, EachIs DEF DnfParts
  <2>2. CASE DnfFound(c, have, d)
    <3> DEFINE s == Dnf!Each(p.requires, FALSE)   t == Dnf!Each(p.recommends, TRUE)
    <3>1. next = s \o t /\ d.kind # "rich"
      BY <1>1, <1>3, <2>2 DEF DnfBelow
    <3>2. p.requires \in Seq(Dnf!Dependency) /\ p.recommends \in Seq(Dnf!Dependency)
      BY <1>3, <1>4, <2>2, OfferedFields
    <3>3. /\ s \in Seq(DnfNodes) /\ t \in Seq(DnfNodes)
          /\ \A z \in Range(s) : z[1] \in Range(p.requires)
          /\ \A z \in Range(t) : z[1] \in Range(p.recommends)
      BY <3>2, EachIs
    <3>4. Range(p.requires) \subseteq DnfDeps(c) /\ Range(p.recommends) \subseteq DnfDeps(c)
      BY <1>3, <1>4, <2>2 DEF DnfNeeds
    <3> HIDE DEF s, t
    <3>5. s \o t \in Seq(DnfNodes) /\ Range(s \o t) = Range(s) \cup Range(t)
      BY <3>3, RangeOfConcat
    <3> QED
      BY <3>1, <3>3, <3>4, <3>5
  <2>3. CASE d.kind # "rich" /\ ~DnfFound(c, have, d) /\ DnfProvided(c, have, d)
    <3> DEFINE all == c.providers[d.names[1]]
               q == Dnf!PickProvider(all)
               via == DnfVia(c, d)
               y == <<via, b>>
    <3>1. next = <<y>>
      BY <1>1, <2>3
    <3>2. all \in Seq(Offered) /\ all # <<>> /\ Range(all) \subseteq DnfKnown(c)
      BY <2>3, DnfKnownIs DEF DnfProvided, Dnf!At
    <3>3. via = Dnf!Plainly(q.name)
      BY DEF DnfVia
    <3> HIDE DEF all
    <3>4. q \in DnfKnown(c)
      BY <3>2, PickedIs
    <3> HIDE DEF q, via
    <3>5. via \in DnfDeps(c) /\ via \in Dnf!Dependency
      BY <1>4, <3>3, <3>4, OfferedFields DEF DnfNeeds
    <3>6. y \in DnfNodes /\ y[1] = via
      BY <3>5, DnfNodesAre
    <3> HIDE DEF y
    <3>7. next \in Seq(DnfNodes)
      BY <3>1, <3>6, ShortSeq
    <3>8. \A z \in Range(next) : z = y
      BY <3>1 DEF Range
    <3> QED
      BY <2>3, <3>5, <3>6, <3>7, <3>8
  <2>4. CASE d.kind # "rich" /\ ~DnfFound(c, have, d) /\ ~DnfProvided(c, have, d)
    <3>1. next = <<>>
      BY <1>1, <2>4
    <3> QED
      BY <3>1, ShortSeq, EmptyRange
  <2> QED
    BY <2>1, <2>2, <2>3, <2>4
<1> QED
  BY <1>5, <1>6, <1>7 DEF next, adds, misses

\* Whether a dependency may be missing does not change what it leads to.
LEMMA DnfSameMark ==
    ASSUME NEW docs, NEW c \in DnfCaches(docs), NEW have,
           NEW d \in Dnf!Dependency, NEW b \in BOOLEAN, NEW e \in BOOLEAN
    PROVE  LET g == Dnf!Graph(c, have)
           IN  /\ Adds(g, <<d, b>>) = Adds(g, <<d, e>>)
               /\ \A z \in Range(NextOf(g, <<d, b>>)) :
                     \E w \in Range(NextOf(g, <<d, e>>)) : w[1] = z[1]
<1> DEFINE g == Dnf!Graph(c, have)
           x == <<d, b>>
           y == <<d, e>>
           via == DnfVia(c, d)
<1>0. /\ Adds(g, x) = DnfAdds(c, have, d) /\ NextOf(g, x) = DnfNextOf(c, have, d, b)
      /\ Adds(g, y) = DnfAdds(c, have, d) /\ NextOf(g, y) = DnfNextOf(c, have, d, e)
  BY DnfGraphIs
<1> HIDE DEF g, x, y
<1>1. Adds(g, x) = Adds(g, y)
  BY <1>0
<1>2. CASE d.kind # "rich" /\ ~DnfFound(c, have, d) /\ DnfProvided(c, have, d)
  <2>1. NextOf(g, x) = <<<<via, b>>>> /\ NextOf(g, y) = <<<<via, e>>>>
    BY <1>0, <1>2 DEF DnfNextOf
  <2> HIDE DEF via
  <2>3. Range(NextOf(g, x)) = {<<via, b>>} /\ Range(NextOf(g, y)) = {<<via, e>>}
    BY <2>1 DEF Range
  <2>4. \A z \in Range(NextOf(g, x)) : \E w \in Range(NextOf(g, y)) : w[1] = z[1]
    <3> DEFINE z == <<via, b>>   w == <<via, e>>
    <3>1. w[1] = z[1]
      OBVIOUS
    <3> HIDE DEF w, z
    <3> QED
      BY <2>3, <3>1 DEF w, z
  <2> QED
    BY <1>1, <2>4 DEF g, x, y
<1>3. CASE ~(d.kind # "rich" /\ ~DnfFound(c, have, d) /\ DnfProvided(c, have, d))
  <2>1. DnfNextOf(c, have, d, b) = DnfNextOf(c, have, d, e)
    <3>1. CASE d.kind = "rich"
      BY <3>1 DEF DnfNextOf
    <3>2. CASE d.kind # "rich" /\ DnfFound(c, have, d)
      BY <3>2 DEF DnfNextOf
    <3>3. CASE d.kind # "rich" /\ ~DnfFound(c, have, d) /\ ~DnfProvided(c, have, d)
      BY <3>3 DEF DnfNextOf
    <3> QED
      BY <1>3, <3>1, <3>2, <3>3
  <2> QED
    BY <1>0, <1>1, <2>1 DEF g, x, y
<1> QED
  BY <1>2, <1>3

\* All that packages and a dependency need, in finitely many dependencies.
DnfAll(c, d) ==
    DnfDeps(c) \cup (UNION {DnfParts(e) : e \in DnfDeps(c)}) \cup DnfParts(d) \cup {d}

\* What the packages of a cache need is finite.
LEMMA DnfDepsFinite ==
    ASSUME NEW docs, NEW c \in DnfCaches(docs)
    PROVE  IsFiniteSet(DnfDeps(c)) /\ DnfDeps(c) \subseteq Dnf!Dependency
<1>1. IsFiniteSet(DnfKnown(c)) /\ DnfKnown(c) \subseteq Offered
  BY DnfKnownIs
<1>2. ASSUME NEW p \in Offered PROVE IsFiniteSet(DnfNeeds(p)) /\ DnfNeeds(p) \subseteq Dnf!Dependency
  <2> DEFINE A == Range(p.requires)   B == Range(p.recommends)   e == Dnf!Plainly(p.name)
  <2>1. IsFiniteSet(A) /\ A \subseteq Dnf!Dependency
    BY OfferedFields, FiniteRange
  <2>2. IsFiniteSet(B) /\ B \subseteq Dnf!Dependency
    BY OfferedFields, FiniteRange
  <2>3. e \in Dnf!Dependency
    BY OfferedFields
  <2>4. DnfNeeds(p) = (A \cup B) \cup {e}
    BY DEF DnfNeeds
  <2> HIDE DEF A, B, e
  <2>5. IsFiniteSet(A \cup B)
    BY <2>1, <2>2, FS_Union
  <2>6. IsFiniteSet((A \cup B) \cup {e})
    BY <2>5, FS_AddElement
  <2> QED
    BY <2>1, <2>2, <2>3, <2>4, <2>6
<1> DEFINE f == [p \in DnfKnown(c) |-> DnfNeeds(p)]
<1>3. DnfDeps(c) = UNION Range(f)
  BY DEF DnfDeps, Range
<1>4. \A p \in DnfKnown(c) : IsFiniteSet(f[p]) /\ f[p] \subseteq Dnf!Dependency
  BY <1>1, <1>2
<1>5. IsFiniteSet(UNION Range(f))
  <2>1. f = [p \in DnfKnown(c) |-> f[p]]
    OBVIOUS
  <2> HIDE DEF f
  <2> QED
    BY <1>1, <1>4, <2>1, FiniteUnion
<1>6. UNION Range(f) \subseteq Dnf!Dependency
  BY <1>4 DEF Range
<1> QED
  BY <1>3, <1>5, <1>6

\* Nothing else is reached from a dependency.
LEMMA DnfAllFinite ==
    ASSUME NEW docs, NEW c \in DnfCaches(docs), NEW d \in Dnf!Dependency
    PROVE  /\ IsFiniteSet(DnfAll(c, d)) /\ DnfAll(c, d) \subseteq Dnf!Dependency
           /\ \A e \in DnfAll(c, d) : e.kind = "rich" => DnfParts(e) \subseteq DnfAll(c, d)
<1> DEFINE A == DnfDeps(c)
           f == [e \in A |-> DnfParts(e)]
           B == UNION Range(f)
           P == DnfParts(d)
<1>1. IsFiniteSet(A) /\ A \subseteq Dnf!Dependency
  BY DnfDepsFinite
<1> HIDE DEF A
<1>2. \A e \in A : IsFiniteSet(f[e]) /\ f[e] \subseteq Dnf!Dependency /\ \A y \in f[e] : y.kind = "plain"
  BY <1>1, PartsAre
<1>3. IsFiniteSet(B)
  <2>1. f = [e \in A |-> f[e]]
    OBVIOUS
  <2> HIDE DEF f
  <2> QED
    BY <1>1, <1>2, <2>1, FiniteUnion
<1>4. B \subseteq Dnf!Dependency /\ \A y \in B : y.kind = "plain"
  BY <1>2 DEF Range
<1>5. IsFiniteSet(P) /\ P \subseteq Dnf!Dependency /\ \A y \in P : y.kind = "plain"
  BY PartsAre
<1>6. B = UNION {DnfParts(e) : e \in A}
  BY DEF Range
<1> HIDE DEF B
<1>7. DnfAll(c, d) = ((A \cup B) \cup P) \cup {d}
  BY <1>6 DEF DnfAll, A
<1> HIDE DEF P
<1>8. IsFiniteSet(A \cup B)
  BY <1>1, <1>3, FS_Union
<1>9. IsFiniteSet((A \cup B) \cup P)
  BY <1>5, <1>8, FS_Union
<1>10. IsFiniteSet(((A \cup B) \cup P) \cup {d})
  BY <1>9, FS_AddElement
<1>11. DnfAll(c, d) \subseteq Dnf!Dependency
  BY <1>1, <1>4, <1>5, <1>7
<1>12. ASSUME NEW e \in DnfAll(c, d), e.kind = "rich" PROVE DnfParts(e) \subseteq DnfAll(c, d)
  <2>1. e \in A \/ e = d
    BY <1>4, <1>5, <1>7, <1>12
  <2>2. e \in A => DnfParts(e) \subseteq B
    BY <1>6
  <2>3. DnfParts(d) = P
    BY DEF P
  <2> QED
    BY <1>7, <2>1, <2>2, <2>3
<1> QED
  BY <1>7, <1>10, <1>11, <1>12

\* The graph of dnf is one the visitor is right about.
THEOREM DnfFit ==
    ASSUME NEW docs, NEW c \in DnfCaches(docs), NEW have
    PROVE  Fit(Dnf!Graph(c, have), Dnf!Dependency, Dnf!Package, STRING)
<1> DEFINE g == Dnf!Graph(c, have)
<1>1. DOMAIN g = DnfNodes
  BY DEF Dnf!Graph, DnfNodes
<1>2. ASSUME NEW x \in DnfNodes
      PROVE  /\ Mark(g, x) = x[1]
             /\ NextOf(g, x) \in Seq(DnfNodes)
             /\ \A z \in Range(NextOf(g, x)) :
                   z[1] \in IF x[1].kind = "rich" THEN DnfParts(x[1]) ELSE DnfDeps(c)
             /\ Adds(g, x) \in Seq(Dnf!Package)
             /\ g[x].misses \in Seq(STRING)
  <2> DEFINE d == x[1]   b == x[2]
  <2>1. d \in Dnf!Dependency /\ b \in BOOLEAN /\ x = <<d, b>>
    BY DnfNodesAre
  <2> HIDE DEF d, b
  <2>2. Mark(g, x) = d
    BY DEF Dnf!Graph, Mark, DnfNodes, d
  <2>3. /\ NextOf(g, <<d, b>>) \in Seq(DnfNodes)
        /\ \A z \in Range(NextOf(g, <<d, b>>)) :
              z[1] \in IF d.kind = "rich" THEN DnfParts(d) ELSE DnfDeps(c)
        /\ Adds(g, <<d, b>>) \in Seq(Dnf!Package)
        /\ g[<<d, b>>].misses \in Seq(STRING)
    BY <2>1, DnfNode
  <2> HIDE DEF g
  <2> QED
    BY <2>1, <2>2, <2>3 DEF d
<1> HIDE DEF g
<1>3. GraphOver(g, Dnf!Dependency, Dnf!Package, STRING)
  <2>1. \A x \in DnfNodes : Mark(g, x) \in Dnf!Dependency
    BY <1>2, DnfNodesAre
  <2> QED
    BY <1>1, <1>2, <2>1 DEF GraphOver, Mark, NextOf, Adds
<1>4. LocallyFinite(g)
  <2> SUFFICES ASSUME NEW x \in DnfNodes PROVE \E U : Confined(g, U) /\ x \in U
    BY <1>1 DEF LocallyFinite
  <2> DEFINE D == DnfAll(c, x[1])
             U == D \X BOOLEAN
  <2>0. x[1] \in Dnf!Dependency /\ x[2] \in BOOLEAN /\ x = <<x[1], x[2]>>
    BY DnfNodesAre
  <2>1. /\ IsFiniteSet(D) /\ D \subseteq Dnf!Dependency
        /\ \A e \in D : e.kind = "rich" => DnfParts(e) \subseteq D
    BY <2>0, DnfAllFinite
  <2>2. x[1] \in D /\ DnfDeps(c) \subseteq D
    <3>1. \A d : d \in DnfAll(c, d) /\ DnfDeps(c) \subseteq DnfAll(c, d)
      BY DEF DnfAll
    <3> QED
      BY <3>1
  <2> HIDE DEF D
  <2>3. IsFiniteSet(BOOLEAN)
    <3>1. IsFiniteSet({TRUE})
      BY FS_Singleton
    <3>2. IsFiniteSet({TRUE} \cup {FALSE})
      BY <3>1, FS_AddElement
    <3>3. BOOLEAN = {TRUE} \cup {FALSE}
      OBVIOUS
    <3> QED
      BY <3>2, <3>3
  <2>4. IsFiniteSet(U)
    BY <2>1, <2>3, FS_Product
  <2>5. U \subseteq DnfNodes /\ x \in U
    BY <2>0, <2>1, <2>2 DEF DnfNodes
  <2>6. \A y \in DnfNodes : y[1] \in D => y \in U
    BY DnfNodesAre
  <2>7. \A y \in U : y[1] \in D /\ y \in DnfNodes
    BY <2>5
  <2> HIDE DEF U
  <2>8. ClosedUnder(g, U)
    <3> SUFFICES ASSUME NEW y \in U, NEW z \in Range(NextOf(g, y)) PROVE z \in U
      BY DEF ClosedUnder, NextOf
    <3>1. y \in DnfNodes /\ y[1] \in D
      BY <2>7
    <3>2. z \in DnfNodes
      BY <1>2, <3>1, FiniteRange
    <3>3. z[1] \in IF y[1].kind = "rich" THEN DnfParts(y[1]) ELSE DnfDeps(c)
      BY <1>2, <3>1
    <3>4. z[1] \in D
      BY <2>1, <2>2, <3>1, <3>3
    <3> QED
      BY <2>6, <3>2, <3>4
  <2>9. Confined(g, U)
    BY <1>1, <2>4, <2>5, <2>8 DEF Confined
  <2> QED
    BY <2>5, <2>9
<1>5. ASSUME NEW U \in SUBSET DOMAIN g PROVE MarksAgree(g, U)
  <2> SUFFICES ASSUME NEW x \in U, NEW y \in U, Mark(g, x) = Mark(g, y)
               PROVE  /\ Range(Adds(g, x)) = Range(Adds(g, y))
                      /\ \A z \in Range(NextOf(g, x)) :
                            \E w \in Range(NextOf(g, y)) : Mark(g, w) = Mark(g, z)
    BY DEF MarksAgree
  <2> DEFINE d == x[1]   b == x[2]   e == y[2]
  <2>1. x \in DnfNodes /\ y \in DnfNodes
    BY <1>1
  <2>2. d \in Dnf!Dependency /\ b \in BOOLEAN /\ x = <<d, b>>
    BY <2>1, DnfNodesAre
  <2>3. e \in BOOLEAN /\ y = <<d, e>>
    <3>1. y[1] = d
      BY <1>2, <2>1
    <3> QED
      BY <2>1, <3>1, DnfNodesAre
  <2> HIDE DEF d, b, e
  <2>4. /\ Adds(g, <<d, b>>) = Adds(g, <<d, e>>)
        /\ \A z \in Range(NextOf(g, <<d, b>>)) :
              \E w \in Range(NextOf(g, <<d, e>>)) : w[1] = z[1]
    BY <2>2, <2>3, DnfSameMark DEF g
  <2>5. \A z \in Range(NextOf(g, x)) \cup Range(NextOf(g, y)) : z \in DnfNodes
    BY <1>2, <2>1, FiniteRange
  <2>6. \A z \in Range(NextOf(g, x)) \cup Range(NextOf(g, y)) : Mark(g, z) = z[1]
    BY <1>2, <2>5
  <2> QED
    BY <2>2, <2>3, <2>4, <2>6
<1> QED
  BY <1>3, <1>4, <1>5 DEF Fit, g

--------------------------------------------------------------------------------
(* Debian versions are in order: chunk by chunk, and field by field. *)

\* The results p, q and r of comparing x with y, y with z, and x with z are of an
\* order: between two that are equal nothing is different, and what is not greater
\* than what is not greater is not greater.
Chain(p, q, r) ==
    /\ {p, q, r} \subseteq {-1, 0, 1}
    /\ p <= 0 /\ q <= 0 => r <= 0 /\ (r = 0 => p = 0 /\ q = 0)
    /\ p >= 0 /\ q >= 0 => r >= 0 /\ (r = 0 => p = 0 /\ q = 0)

Opposite(p, q) == {p, q} \subseteq {-1, 0, 1} /\ p + q = 0

Then(p, q) == IF p # 0 THEN p ELSE q

\* Orders one after the other are an order.
LEMMA ChainThen ==
    ASSUME NEW p, NEW q, NEW r, Chain(p, q, r), NEW s, NEW t, NEW u, Chain(s, t, u)
    PROVE  Chain(Then(p, s), Then(q, t), Then(r, u))
BY DEF Chain, Then

\* And what is opposite.
LEMMA OppositeThen ==
    ASSUME NEW p, NEW q, Opposite(p, q), NEW s, NEW t, Opposite(s, t)
    PROVE  Opposite(Then(p, s), Then(q, t))
BY DEF Opposite, Then

\* Integers are in order.
LEMMA IntOrder ==
    ASSUME NEW a \in Int, NEW b \in Int, NEW c \in Int
    PROVE  /\ Chain(Apt!CompareInt(a, b), Apt!CompareInt(b, c), Apt!CompareInt(a, c))
           /\ Opposite(Apt!CompareInt(a, b), Apt!CompareInt(b, a))
           /\ Apt!CompareInt(a, b) = 0 <=> a = b
           /\ Apt!CompareInt(a, b) < 0 <=> a < b
           /\ Apt!CompareInt(a, b) > 0 <=> a > b
BY DEF Apt!CompareInt, Chain, Opposite

\* A set of numbers up to one has a least and a greatest element.
LEMMA MinIs ==
    ASSUME NEW N \in Nat, NEW S \in SUBSET (0..N), S # {}
    PROVE  /\ Apt!Min(S) \in S /\ \A y \in S : Apt!Min(S) <= y
           /\ Apt!Max(S) \in S /\ \A y \in S : Apt!Max(S) >= y
<1>1. \E x \in S : \A y \in S : x <= y
  <2>1. S \in SUBSET Nat
    OBVIOUS
  <2> QED
    BY <2>1, LeastElement
<1>2. \E x \in S : \A y \in S : x >= y
  <2> DEFINE T == {N - y : y \in S}
  <2>1. T \in SUBSET Nat /\ T # {}
    <3>1. ASSUME NEW y \in S PROVE N - y \in Nat
      OBVIOUS
    <3>2. PICK y \in S : TRUE
      OBVIOUS
    <3>3. N - y \in T
      OBVIOUS
    <3>4. \A t \in T : t \in Nat
      BY <3>1
    <3> QED
      BY <3>3, <3>4
  <2>2. PICK t \in T : \A u \in T : t <= u
    BY <2>1, LeastElement
  <2>3. PICK x \in S : t = N - x
    BY <2>2
  <2>4. ASSUME NEW y \in S PROVE x >= y
    <3>1. N - y \in T
      OBVIOUS
    <3>2. N - x <= N - y
      BY <2>2, <2>3, <3>1
    <3>3. x \in Nat /\ y \in Nat
      OBVIOUS
    <3> QED
      BY <3>2, <3>3
  <2> QED
    BY <2>4
<1> QED
  BY <1>1, <1>2 DEF Apt!Min, Apt!Max

\* Where two sequences of numbers differ first decides.
Decides(f, g, v) ==
    /\ v \in {-1, 0, 1}
    /\ v = 0 => \A i \in Nat : f[i] = g[i]
    /\ v < 0 => \E m \in Nat : f[m] < g[m] /\ \A j \in Nat : j < m => f[j] = g[j]
    /\ v > 0 => \E m \in Nat : f[m] > g[m] /\ \A j \in Nat : j < m => f[j] = g[j]

\* What decides does not depend on how it is found.
LEMMA DecidesOnce ==
    ASSUME NEW f \in [Nat -> Int], NEW g \in [Nat -> Int], NEW v, Decides(f, g, v)
    PROVE  /\ (\A i \in Nat : f[i] = g[i]) => v = 0
           /\ \A m \in Nat : f[m] < g[m] /\ (\A j \in Nat : j < m => f[j] = g[j]) => v = -1
           /\ \A m \in Nat : f[m] > g[m] /\ (\A j \in Nat : j < m => f[j] = g[j]) => v = 1
<1>1. ASSUME NEW m \in Nat, NEW k \in Nat, f[m] # g[m], \A j \in Nat : j < m => f[j] = g[j],
             f[k] # g[k], \A j \in Nat : j < k => f[j] = g[j]
      PROVE  m = k
  BY <1>1
<1>2. CASE v = 0
  <2>1. \A i \in Nat : f[i] = g[i] /\ f[i] \in Int
    BY <1>2 DEF Decides
  <2> QED
    BY <1>2, <2>1
<1>3. CASE v = -1
  <2>1. PICK k \in Nat : f[k] < g[k] /\ \A j \in Nat : j < k => f[j] = g[j]
    BY <1>3 DEF Decides
  <2>2. f[k] \in Int /\ g[k] \in Int /\ f[k] # g[k]
    BY <2>1
  <2>3. ASSUME NEW m \in Nat, f[m] > g[m], \A j \in Nat : j < m => f[j] = g[j] PROVE FALSE
    <3>1. f[m] \in Int /\ g[m] \in Int /\ f[m] # g[m]
      BY <2>3
    <3>2. m = k
      BY <1>1, <2>1, <2>2, <2>3, <3>1
    <3> QED
      BY <2>1, <2>2, <2>3, <3>2
  <2> QED
    BY <1>3, <2>2, <2>3
<1>4. CASE v = 1
  <2>1. PICK k \in Nat : f[k] > g[k] /\ \A j \in Nat : j < k => f[j] = g[j]
    BY <1>4 DEF Decides
  <2>2. f[k] \in Int /\ g[k] \in Int /\ f[k] # g[k]
    BY <2>1
  <2>3. ASSUME NEW m \in Nat, f[m] < g[m], \A j \in Nat : j < m => f[j] = g[j] PROVE FALSE
    <3>1. f[m] \in Int /\ g[m] \in Int /\ f[m] # g[m]
      BY <2>3
    <3>2. m = k
      BY <1>1, <2>1, <2>2, <2>3, <3>1
    <3> QED
      BY <2>1, <2>2, <2>3, <3>2
  <2> QED
    BY <1>4, <2>2, <2>3
<1> QED
  BY <1>2, <1>3, <1>4 DEF Decides

\* Sequences of numbers are in order.
LEMMA DecidesOpposite ==
    ASSUME NEW f \in [Nat -> Int], NEW g \in [Nat -> Int], NEW p, NEW q, Decides(f, g, p), Decides(g, f, q)
    PROVE  Opposite(p, q)
<1>1. CASE p = 0
  <2>1. \A i \in Nat : g[i] = f[i]
    BY <1>1 DEF Decides
  <2>2. q = 0
    BY <2>1, DecidesOnce
  <2> QED
    BY <1>1, <2>2 DEF Opposite
<1>2. CASE p = -1
  <2>1. PICK m \in Nat : f[m] < g[m] /\ \A j \in Nat : j < m => f[j] = g[j]
    BY <1>2 DEF Decides
  <2>2. g[m] > f[m] /\ \A j \in Nat : j < m => g[j] = f[j]
    BY <2>1
  <2>3. q = 1
    BY <2>2, DecidesOnce
  <2> QED
    BY <1>2, <2>3 DEF Opposite
<1>3. CASE p = 1
  <2>1. PICK m \in Nat : f[m] > g[m] /\ \A j \in Nat : j < m => f[j] = g[j]
    BY <1>3 DEF Decides
  <2>2. g[m] < f[m] /\ \A j \in Nat : j < m => g[j] = f[j]
    BY <2>1
  <2>3. q = -1
    BY <2>2, DecidesOnce
  <2> QED
    BY <1>3, <2>3 DEF Opposite
<1> QED
  BY <1>1, <1>2, <1>3 DEF Decides

\* What is less is less than what is not less, from the first difference on.
LEMMA DecidesLess ==
    ASSUME NEW f \in [Nat -> Int], NEW g \in [Nat -> Int], NEW h \in [Nat -> Int],
           NEW p, NEW q, NEW r, Decides(f, g, p), Decides(g, h, q), Decides(f, h, r),
           p <= 0, q <= 0
    PROVE  r <= 0 /\ (r = 0 => p = 0 /\ q = 0)
<1>1. CASE p = 0
  <2>1. \A i \in Nat : f[i] = g[i]
    BY <1>1 DEF Decides
  <2>2. CASE q = 0
    <3>1. \A i \in Nat : f[i] = h[i]
      BY <2>1, <2>2 DEF Decides
    <3> QED
      BY <1>1, <2>2, <3>1, DecidesOnce
  <2>3. CASE q = -1
    <3>1. PICK m \in Nat : g[m] < h[m] /\ \A j \in Nat : j < m => g[j] = h[j]
      BY <2>3 DEF Decides
    <3>2. f[m] < h[m] /\ \A j \in Nat : j < m => f[j] = h[j]
      BY <2>1, <3>1
    <3>3. r = -1
      BY <3>2, DecidesOnce
    <3> QED
      BY <3>3
  <2> QED
    BY <2>2, <2>3 DEF Decides
<1>2. CASE p = -1
  <2>1. PICK m \in Nat : f[m] < g[m] /\ \A j \in Nat : j < m => f[j] = g[j]
    BY <1>2 DEF Decides
  <2>2. CASE q = 0
    <3>1. \A i \in Nat : g[i] = h[i]
      BY <2>2 DEF Decides
    <3>2. f[m] < h[m] /\ \A j \in Nat : j < m => f[j] = h[j]
      BY <2>1, <3>1
    <3>3. r = -1
      BY <3>2, DecidesOnce
    <3> QED
      BY <3>3
  <2>3. CASE q = -1
    <3>1. PICK k \in Nat : g[k] < h[k] /\ \A j \in Nat : j < k => g[j] = h[j]
      BY <2>3 DEF Decides
    <3> DEFINE n == IF m <= k THEN m ELSE k
    <3>2. n \in Nat /\ n <= m /\ n <= k /\ (n = m \/ n = k)
      OBVIOUS
    <3>3. \A i \in Nat : f[i] \in Int /\ g[i] \in Int /\ h[i] \in Int
      OBVIOUS
    <3>4. f[n] <= g[n] /\ g[n] <= h[n] /\ (f[n] < g[n] \/ g[n] < h[n])
      <4>1. n = m \/ f[n] = g[n]
        BY <2>1, <3>2
      <4>2. n = k \/ g[n] = h[n]
        BY <3>1, <3>2
      <4> QED
        BY <2>1, <3>1, <3>2, <3>3, <4>1, <4>2
    <3>5. f[n] < h[n]
      BY <3>2, <3>3, <3>4
    <3>6. \A j \in Nat : j < n => f[j] = h[j]
      BY <2>1, <3>1, <3>2
    <3>7. r = -1
      BY <3>2, <3>5, <3>6, DecidesOnce
    <3> QED
      BY <3>7
  <2> QED
    BY <2>2, <2>3 DEF Decides
<1> QED
  BY <1>1, <1>2 DEF Decides

\* And what is greater than what is greater.
LEMMA DecidesChain ==
    ASSUME NEW f \in [Nat -> Int], NEW g \in [Nat -> Int], NEW h \in [Nat -> Int],
           NEW p, NEW q, NEW r, Decides(f, g, p), Decides(g, h, q), Decides(f, h, r)
    PROVE  Chain(p, q, r)
<1>1. p <= 0 /\ q <= 0 => r <= 0 /\ (r = 0 => p = 0 /\ q = 0)
  BY DecidesLess
<1>2. ASSUME p >= 0, q >= 0 PROVE r >= 0 /\ (r = 0 => p = 0 /\ q = 0)
  <2>1. \A a, b \in [Nat -> Int] : \A v : Decides(a, b, v) => Decides(b, a, 0 - v)
    <3> SUFFICES ASSUME NEW a \in [Nat -> Int], NEW b \in [Nat -> Int], NEW v, Decides(a, b, v)
                 PROVE  Decides(b, a, 0 - v)
      OBVIOUS
    <3>1. \A i \in Nat : a[i] \in Int /\ b[i] \in Int
      OBVIOUS
    <3>2. v \in {-1, 0, 1}
      BY DEF Decides
    <3>3. CASE v = 0
      BY <3>1, <3>3 DEF Decides
    <3>4. CASE v = 1
      <4>1. PICK m \in Nat : a[m] > b[m] /\ \A j \in Nat : j < m => a[j] = b[j]
        BY <3>4 DEF Decides
      <4>2. b[m] < a[m] /\ \A j \in Nat : j < m => b[j] = a[j]
        BY <3>1, <4>1
      <4> QED
        BY <3>4, <4>2 DEF Decides
    <3>5. CASE v = -1
      <4>1. PICK m \in Nat : a[m] < b[m] /\ \A j \in Nat : j < m => a[j] = b[j]
        BY <3>5 DEF Decides
      <4>2. b[m] > a[m] /\ \A j \in Nat : j < m => b[j] = a[j]
        BY <3>1, <4>1
      <4> QED
        BY <3>5, <4>2 DEF Decides
    <3> QED
      BY <3>2, <3>3, <3>4, <3>5
  <2>2. Decides(h, g, 0 - q) /\ Decides(g, f, 0 - p) /\ Decides(h, f, 0 - r)
    BY <2>1
  <2>3. p \in {-1, 0, 1} /\ q \in {-1, 0, 1} /\ r \in {-1, 0, 1}
    BY DEF Decides
  <2>4. 0 - q <= 0 /\ 0 - p <= 0
    BY <1>2, <2>3
  <2>5. 0 - r <= 0 /\ (0 - r = 0 => 0 - q = 0 /\ 0 - p = 0)
    BY <2>2, <2>4, DecidesLess
  <2> QED
    BY <2>3, <2>5
<1> QED
  BY <1>1, <1>2 DEF Chain, Decides

\* The first difference decides.
LEMMA FirstDecides ==
    ASSUME NEW f \in [Nat -> Int], NEW g \in [Nat -> Int], NEW N \in Nat,
           \A i \in Nat : i \notin 1..N => f[i] = g[i],
           NEW differ, differ = {i \in 1..N : f[i] # g[i]}
    PROVE  Decides(f, g, IF differ = {} THEN 0
                         ELSE Apt!CompareInt(f[Apt!Min(differ)], g[Apt!Min(differ)]))
<1>1. CASE differ = {}
  BY <1>1 DEF Decides
<1>2. CASE differ # {}
  <2> DEFINE m == Apt!Min(differ)
  <2>1. m \in differ /\ \A i \in differ : m <= i
    <3>1. differ \in SUBSET (0..N)
      OBVIOUS
    <3> QED
      BY <1>2, <3>1, MinIs
  <2> HIDE DEF m
  <2>2. m \in Nat /\ f[m] \in Int /\ g[m] \in Int
    BY <2>1
  <2>3. \A j \in Nat : j < m => f[j] = g[j]
    BY <2>1, <2>2
  <2> DEFINE v == Apt!CompareInt(f[m], g[m])
  <2>4. v \in {-1, 0, 1} /\ v # 0 /\ (v < 0 => f[m] < g[m]) /\ (v > 0 => f[m] > g[m])
    <3>1. f[m] # g[m]
      BY <2>1
    <3> QED
      BY <2>2, <3>1 DEF Apt!CompareInt
  <2> HIDE DEF v
  <2>5. Decides(f, g, v)
    BY <2>2, <2>3, <2>4 DEF Decides
  <2> QED
    BY <1>2, <2>5 DEF v, m
<1> QED
  BY <1>1, <1>2

\* The longer of two lengths.
LEMMA Longer ==
    ASSUME NEW m \in Nat, NEW n \in Nat
    PROVE  Apt!Max({m, n}) \in Nat /\ m <= Apt!Max({m, n}) /\ n <= Apt!Max({m, n})
<1> DEFINE S == {m, n}   N == m + n
<1>1. N \in Nat /\ S \in SUBSET (0..N) /\ S # {}
  OBVIOUS
<1>2. m \in S /\ n \in S /\ \A y \in S : y \in Nat
  OBVIOUS
<1> HIDE DEF S, N
<1>3. Apt!Max(S) \in S /\ \A y \in S : Apt!Max(S) >= y
  BY <1>1, MinIs
<1>4. Apt!Max(S) \in Nat /\ m <= Apt!Max(S) /\ n <= Apt!Max(S)
  BY <1>1, <1>2, <1>3
<1> QED
  BY <1>4 DEF S

\* The numbers by which chunks without digits are compared, and those of digits.
Weights(s) == [i \in Nat |-> IF i = 0 THEN 0 ELSE Apt!DebCharOrder(IF i <= Len(s) THEN s[i] ELSE 0)]
Bytes(s)   == [i \in Nat |-> IF i = 0 THEN 0 ELSE IF i <= Len(s) THEN s[i] ELSE 0]

\* They are integers.
LEMMA WeightsAre ==
    ASSUME NEW s \in Seq(Apt!Byte)
    PROVE  Weights(s) \in [Nat -> Int] /\ Bytes(s) \in [Nat -> Int]
<1>1. ASSUME NEW i \in Nat, i # 0
      PROVE  /\ (IF i <= Len(s) THEN s[i] ELSE 0) \in Nat
             /\ Apt!DebCharOrder(IF i <= Len(s) THEN s[i] ELSE 0) \in Int
  <2> DEFINE c == IF i <= Len(s) THEN s[i] ELSE 0
  <2>1. c \in Nat
    <3>1. CASE i <= Len(s)
      <4>1. i \in 1..Len(s)
        BY <1>1, <3>1
      <4>2. s[i] \in Apt!Byte
        BY <4>1
      <4>3. \A x \in Apt!Byte : x \in Nat
        BY DEF Apt!Byte
      <4> QED
        BY <3>1, <4>2, <4>3
    <3>2. CASE ~(i <= Len(s))
      BY <3>2
    <3> QED
      BY <3>1, <3>2
  <2> HIDE DEF c
  <2>2. Apt!DebCharOrder(c) \in Int
    BY <2>1 DEF Apt!DebCharOrder, Apt!Tilde
  <2> QED
    BY <2>1, <2>2 DEF c
<1> QED
  BY <1>1 DEF Weights, Bytes

\* Chunks without digits are compared by their weights.
LEMMA NonDigitDecides ==
    ASSUME NEW a \in Seq(Apt!Byte), NEW b \in Seq(Apt!Byte)
    PROVE  Decides(Weights(a), Weights(b), Apt!CompareNonDigit(a, b))
<1> DEFINE N == Apt!Max({Len(a), Len(b)})
           At(s, i) == Apt!DebCharOrder(IF i <= Len(s) THEN s[i] ELSE 0)
           D == {i \in 1..N : At(a, i) # At(b, i)}
           f == Weights(a)   g == Weights(b)
           v == Apt!CompareNonDigit(a, b)
<1>1. v = IF D = {} THEN 0 ELSE Apt!CompareInt(At(a, Apt!Min(D)), At(b, Apt!Min(D)))
  BY DEF Apt!CompareNonDigit, Apt!CompareBytes
<1>2. f \in [Nat -> Int] /\ g \in [Nat -> Int]
  BY WeightsAre
<1>3. N \in Nat /\ Len(a) <= N /\ Len(b) <= N
  <2>1. Len(a) \in Nat /\ Len(b) \in Nat
    OBVIOUS
  <2> QED
    BY <2>1, Longer
<1> HIDE DEF N, v
<1>4. \A i \in Nat : i # 0 => f[i] = At(a, i) /\ g[i] = At(b, i)
  BY DEF Weights
<1>5. \A i \in Nat : i \notin 1..N => f[i] = g[i]
  <2> SUFFICES ASSUME NEW i \in Nat, i \notin 1..N PROVE f[i] = g[i]
    OBVIOUS
  <2>1. CASE i = 0
    BY <2>1 DEF Weights
  <2>2. CASE i # 0
    <3>1. ~(i <= Len(a)) /\ ~(i <= Len(b))
      BY <1>3, <2>2
    <3> QED
      BY <3>1 DEF Weights
  <2> QED
    BY <2>1, <2>2
<1> HIDE DEF At, f, g
<1>6. D = {i \in 1..N : f[i] # g[i]}
  BY <1>3, <1>4
<1> HIDE DEF D
<1>7. D # {} => Apt!Min(D) \in 1..N
  <2>1. D \in SUBSET (0..N)
    BY <1>6
  <2> QED
    BY <1>3, <1>6, <2>1, MinIs
<1>8. v = IF D = {} THEN 0 ELSE Apt!CompareInt(f[Apt!Min(D)], g[Apt!Min(D)])
  <2>1. CASE D = {}
    BY <1>1, <2>1
  <2>2. CASE D # {}
    <3>1. Apt!Min(D) \in Nat /\ Apt!Min(D) # 0
      BY <1>3, <1>7, <2>2
    <3> QED
      BY <1>1, <1>4, <2>2, <3>1
  <2> QED
    BY <2>1, <2>2
<1>9. Decides(f, g, v)
  BY <1>2, <1>3, <1>5, <1>6, <1>8, FirstDecides
<1> QED
  BY <1>9 DEF f, g, v

\* Sequences of bytes are compared byte by byte.
LEMMA BytesDecide ==
    ASSUME NEW a \in Seq(Apt!Byte), NEW b \in Seq(Apt!Byte)
    PROVE  LET At(s, i) == IF i <= Len(s) THEN s[i] ELSE 0
               D == {i \in 1..Apt!Max({Len(a), Len(b)}) : At(a, i) # At(b, i)}
           IN  Decides(Bytes(a), Bytes(b),
                       IF D = {} THEN 0 ELSE Apt!CompareInt(At(a, Apt!Min(D)), At(b, Apt!Min(D))))
<1> DEFINE N == Apt!Max({Len(a), Len(b)})
           At(s, i) == IF i <= Len(s) THEN s[i] ELSE 0
           D == {i \in 1..N : At(a, i) # At(b, i)}
           f == Bytes(a)   g == Bytes(b)
           v == IF D = {} THEN 0 ELSE Apt!CompareInt(At(a, Apt!Min(D)), At(b, Apt!Min(D)))
<1>1. v = IF D = {} THEN 0 ELSE Apt!CompareInt(At(a, Apt!Min(D)), At(b, Apt!Min(D)))
  OBVIOUS
<1>2. f \in [Nat -> Int] /\ g \in [Nat -> Int]
  BY WeightsAre
<1>3. N \in Nat /\ Len(a) <= N /\ Len(b) <= N
  <2>1. Len(a) \in Nat /\ Len(b) \in Nat
    OBVIOUS
  <2> QED
    BY <2>1, Longer
<1> HIDE DEF N, v
<1>4. \A i \in Nat : i # 0 => f[i] = At(a, i) /\ g[i] = At(b, i)
  BY DEF Bytes
<1>5. \A i \in Nat : i \notin 1..N => f[i] = g[i]
  <2> SUFFICES ASSUME NEW i \in Nat, i \notin 1..N PROVE f[i] = g[i]
    OBVIOUS
  <2>1. CASE i = 0
    BY <2>1 DEF Bytes
  <2>2. CASE i # 0
    <3>1. ~(i <= Len(a)) /\ ~(i <= Len(b))
      BY <1>3, <2>2
    <3> QED
      BY <3>1 DEF Bytes
  <2> QED
    BY <2>1, <2>2
<1> HIDE DEF At, f, g
<1>6. D = {i \in 1..N : f[i] # g[i]}
  BY <1>3, <1>4
<1> HIDE DEF D
<1>7. D # {} => Apt!Min(D) \in 1..N
  <2>1. D \in SUBSET (0..N)
    BY <1>6
  <2> QED
    BY <1>3, <1>6, <2>1, MinIs
<1>8. v = IF D = {} THEN 0 ELSE Apt!CompareInt(f[Apt!Min(D)], g[Apt!Min(D)])
  <2>1. CASE D = {}
    BY <1>1, <2>1
  <2>2. CASE D # {}
    <3>1. Apt!Min(D) \in Nat /\ Apt!Min(D) # 0
      BY <1>3, <1>7, <2>2
    <3> QED
      BY <1>1, <1>4, <2>2, <3>1
  <2> QED
    BY <2>1, <2>2
<1>9. Decides(f, g, v)
  BY <1>2, <1>3, <1>5, <1>6, <1>8, FirstDecides
<1> QED
  BY <1>9 DEF f, g, v, D, At, N

\* The first elements of a sequence, and the others.
LEMMA CutAt ==
    ASSUME NEW S, NEW s \in Seq(S), NEW k \in 0..Len(s)
    PROVE  /\ SubSeq(s, 1, k) \in Seq(S) /\ Len(SubSeq(s, 1, k)) = k
           /\ SubSeq(s, k + 1, Len(s)) \in Seq(S) /\ Len(SubSeq(s, k + 1, Len(s))) = Len(s) - k
           /\ \A i \in 1..(Len(s) - k) : SubSeq(s, k + 1, Len(s))[i] = s[k + i]
OBVIOUS

\* A prefix is a part of its sequence, and is not empty if it has the first element.
LEMMA PrefixIs ==
    ASSUME NEW S, NEW s \in Seq(S), NEW K \in SUBSET (0..Len(s)), 0 \in K
    PROVE  /\ Apt!Max(K) \in 0..Len(s)
           /\ SubSeq(s, 1, Apt!Max(K)) \in Seq(S) /\ Len(SubSeq(s, 1, Apt!Max(K))) = Apt!Max(K)
           /\ 1 \in K => Len(SubSeq(s, 1, Apt!Max(K))) > 0
<1> DEFINE m == Apt!Max(K)
<1>1. Len(s) \in Nat
  OBVIOUS
<1>2. m \in K /\ \A y \in K : m >= y
  BY <1>1, MinIs
<1> HIDE DEF m
<1>3. m \in 0..Len(s) /\ (1 \in K => m > 0)
  BY <1>1, <1>2
<1>4. SubSeq(s, 1, m) \in Seq(S) /\ Len(SubSeq(s, 1, m)) = m
  BY <1>3, CutAt
<1> QED
  BY <1>3, <1>4 DEF m

\* The chunk at the head of a version, which is not empty if its first byte is of it.
LEMMA SplitIs ==
    ASSUME NEW s \in Seq(Apt!Byte)
    PROVE  /\ Apt!SplitDigit(s) \in Seq(Apt!Byte) /\ Len(Apt!SplitDigit(s)) \in 0..Len(s)
           /\ Apt!SplitNonDigit(s) \in Seq(Apt!Byte) /\ Len(Apt!SplitNonDigit(s)) \in 0..Len(s)
           /\ Len(s) > 0 /\ Apt!IsDigit(s[1]) => Len(Apt!SplitDigit(s)) > 0
           /\ Len(s) > 0 /\ ~Apt!IsDigit(s[1]) => Len(Apt!SplitNonDigit(s)) > 0
<1> DEFINE K == {n \in 0..Len(s) : \A i \in 1..n : Apt!IsDigit(s[i])}
           L == {n \in 0..Len(s) : \A i \in 1..n : ~Apt!IsDigit(s[i])}
<1>1. Apt!SplitDigit(s) = SubSeq(s, 1, Apt!Max(K)) /\ Apt!SplitNonDigit(s) = SubSeq(s, 1, Apt!Max(L))
  BY DEF Apt!SplitDigit, Apt!SplitNonDigit
<1>2. Len(s) \in Nat
  OBVIOUS
<1>3. /\ K \in SUBSET (0..Len(s)) /\ 0 \in K
      /\ L \in SUBSET (0..Len(s)) /\ 0 \in L
  BY <1>2
<1>4. /\ Len(s) > 0 /\ Apt!IsDigit(s[1]) => 1 \in K
      /\ Len(s) > 0 /\ ~Apt!IsDigit(s[1]) => 1 \in L
  BY <1>2
<1> HIDE DEF K, L
<1>5. /\ Apt!Max(K) \in 0..Len(s)
      /\ SubSeq(s, 1, Apt!Max(K)) \in Seq(Apt!Byte) /\ Len(SubSeq(s, 1, Apt!Max(K))) = Apt!Max(K)
      /\ 1 \in K => Len(SubSeq(s, 1, Apt!Max(K))) > 0
  BY <1>3, PrefixIs
<1>6. /\ Apt!Max(L) \in 0..Len(s)
      /\ SubSeq(s, 1, Apt!Max(L)) \in Seq(Apt!Byte) /\ Len(SubSeq(s, 1, Apt!Max(L))) = Apt!Max(L)
      /\ 1 \in L => Len(SubSeq(s, 1, Apt!Max(L))) > 0
  BY <1>3, PrefixIs
<1> QED
  BY <1>1, <1>4, <1>5, <1>6

\* A version without its first two chunks.
Letters(a) == Apt!SplitNonDigit(a)
Digits(a)  == Apt!SplitDigit(Apt!After(a, Letters(a)))
Others(a)  == Apt!After(a, Letters(a) \o Digits(a))

\* What is left is shorter, unless nothing was there.
LEMMA ChunksAre ==
    ASSUME NEW a \in Seq(Apt!Byte)
    PROVE  /\ Letters(a) \in Seq(Apt!Byte) /\ Digits(a) \in Seq(Apt!Byte) /\ Others(a) \in Seq(Apt!Byte)
           /\ Len(Others(a)) \in Nat /\ Len(Others(a)) <= Len(a)
           /\ a # <<>> => Len(Others(a)) < Len(a)
<1> DEFINE n == Letters(a)   b == Apt!After(a, n)   d == Digits(a)
<1>1. n \in Seq(Apt!Byte) /\ Len(n) \in 0..Len(a) /\ (Len(a) > 0 /\ ~Apt!IsDigit(a[1]) => Len(n) > 0)
  BY SplitIs DEF Letters
<1>2. Len(a) \in Nat /\ (a # <<>> => Len(a) > 0)
  OBVIOUS
<1>3. b = SubSeq(a, Len(n) + 1, Len(a))
  BY DEF Apt!After
<1> HIDE DEF n
<1>4. /\ b \in Seq(Apt!Byte) /\ Len(b) = Len(a) - Len(n)
      /\ \A i \in 1..(Len(a) - Len(n)) : b[i] = a[Len(n) + i]
  <2>1. /\ SubSeq(a, Len(n) + 1, Len(a)) \in Seq(Apt!Byte)
        /\ Len(SubSeq(a, Len(n) + 1, Len(a))) = Len(a) - Len(n)
        /\ \A i \in 1..(Len(a) - Len(n)) : SubSeq(a, Len(n) + 1, Len(a))[i] = a[Len(n) + i]
    BY <1>1, CutAt
  <2> QED
    BY <1>3, <2>1
<1> HIDE DEF b
<1>5. d = Apt!SplitDigit(b)
  BY DEF Digits, b, n
<1>6. d \in Seq(Apt!Byte) /\ Len(d) \in 0..Len(b) /\ (Len(b) > 0 /\ Apt!IsDigit(b[1]) => Len(d) > 0)
  BY <1>4, <1>5, SplitIs
<1> HIDE DEF d
<1>7. a # <<>> => Len(n) + Len(d) > 0
  <2> SUFFICES ASSUME a # <<>>, Len(n) = 0 PROVE Len(d) > 0
    BY <1>1, <1>2, <1>6
  <2>1. Len(a) > 0 /\ Apt!IsDigit(a[1])
    BY <1>1, <1>2
  <2>2. Len(b) > 0 /\ b[1] = a[1]
    BY <1>2, <1>4, <2>1
  <2> QED
    BY <1>6, <2>1, <2>2
<1> DEFINE k == Len(n) + Len(d)
<1>8. Others(a) = SubSeq(a, k + 1, Len(a))
  <2>1. Len(n \o d) = k
    BY <1>1, <1>6
  <2>2. Others(a) = Apt!After(a, n \o d)
    BY DEF Others, n, d
  <2> QED
    BY <2>1, <2>2 DEF Apt!After
<1>9. k \in 0..Len(a) /\ (a # <<>> => k > 0)
  BY <1>1, <1>2, <1>4, <1>6, <1>7
<1> HIDE DEF k
<1>10. /\ SubSeq(a, k + 1, Len(a)) \in Seq(Apt!Byte)
       /\ Len(SubSeq(a, k + 1, Len(a))) = Len(a) - k
  BY <1>9, CutAt
<1>11. Others(a) \in Seq(Apt!Byte) /\ Len(Others(a)) = Len(a) - k
  BY <1>8, <1>10
<1>12. Len(Others(a)) \in Nat /\ Len(Others(a)) <= Len(a) /\ (a # <<>> => Len(Others(a)) < Len(a))
  BY <1>2, <1>9, <1>11
<1> QED
  BY <1>1, <1>6, <1>11, <1>12 DEF n, d

\* Digits are compared by their number, without leading zeros, then one by one.
Significant(s) == SubSeq(s, 1 + Apt!Max({n \in 0..Len(s) : \A i \in 1..n : s[i] = Apt!Zero}), Len(s))

\* They are bytes.
LEMMA SignificantIs ==
    ASSUME NEW s \in Seq(Apt!Byte)
    PROVE  Significant(s) \in Seq(Apt!Byte) /\ Len(Significant(s)) \in Int
<1> DEFINE K == {n \in 0..Len(s) : \A i \in 1..n : s[i] = Apt!Zero}   m == Apt!Max(K)
<1>1. K \in SUBSET (0..Len(s)) /\ 0 \in K
  OBVIOUS
<1>2. Significant(s) = SubSeq(s, 1 + m, Len(s))
  BY DEF Significant
<1> HIDE DEF K
<1>3. m \in 0..Len(s)
  BY <1>1, PrefixIs
<1> HIDE DEF m
<1>4. 1 + m = m + 1
  BY <1>3
<1>5. SubSeq(s, m + 1, Len(s)) \in Seq(Apt!Byte)
  BY <1>3, CutAt
<1> QED
  BY <1>2, <1>4, <1>5

\* Where two sequences of bytes differ, and what that says of them.
Differing(x, y) == {i \in 1..Apt!Max({Len(x), Len(y)}) :
                       (IF i <= Len(x) THEN x[i] ELSE 0) # (IF i <= Len(y) THEN y[i] ELSE 0)}
ByByte(x, y) ==
    LET D == Differing(x, y) IN
    IF D = {} THEN 0
    ELSE Apt!CompareInt(IF Apt!Min(D) <= Len(x) THEN x[Apt!Min(D)] ELSE 0,
                        IF Apt!Min(D) <= Len(y) THEN y[Apt!Min(D)] ELSE 0)

\* The code's comparison of digits.
LEMMA DigitIs ==
    ASSUME NEW s, NEW t
    PROVE  Apt!CompareDigit(s, t) =
               Then(Apt!CompareInt(Len(Significant(s)), Len(Significant(t))),
                    ByByte(Significant(s), Significant(t)))
<1> DEFINE x == SubSeq(s, 1 + Apt!Max({n \in 0..Len(s) : \A i \in 1..n : s[i] = Apt!Zero}), Len(s))
           y == SubSeq(t, 1 + Apt!Max({n \in 0..Len(t) : \A i \in 1..n : t[i] = Apt!Zero}), Len(t))
           At(z, i) == IF i <= Len(z) THEN z[i] ELSE 0
           D(u, v) == {i \in 1..Apt!Max({Len(u), Len(v)}) : At(u, i) # At(v, i)}
           By(u, v) == IF D(u, v) = {} THEN 0
                       ELSE Apt!CompareInt(At(u, Apt!Min(D(u, v))), At(v, Apt!Min(D(u, v))))
<1>1. Apt!CompareDigit(s, t) =
          IF Apt!CompareInt(Len(x), Len(y)) # 0 THEN Apt!CompareInt(Len(x), Len(y)) ELSE By(x, y)
  BY DEF Apt!CompareDigit, Apt!CompareBytes
<1>2. x = Significant(s) /\ y = Significant(t)
  BY DEF Significant
<1>3. \A u, v : By(u, v) = ByByte(u, v)
  BY DEF ByByte, Differing
<1> HIDE DEF x, y, By
<1> QED
  BY <1>1, <1>2, <1>3 DEF Then

\* So what both comparisons of chunks say are orders.
LEMMA ChunksOrder ==
    ASSUME NEW a \in Seq(Apt!Byte), NEW b \in Seq(Apt!Byte), NEW c \in Seq(Apt!Byte)
    PROVE  /\ Chain(Apt!CompareNonDigit(a, b), Apt!CompareNonDigit(b, c), Apt!CompareNonDigit(a, c))
           /\ Opposite(Apt!CompareNonDigit(a, b), Apt!CompareNonDigit(b, a))
           /\ Chain(Apt!CompareDigit(a, b), Apt!CompareDigit(b, c), Apt!CompareDigit(a, c))
           /\ Opposite(Apt!CompareDigit(a, b), Apt!CompareDigit(b, a))
<1>1. /\ Chain(Apt!CompareNonDigit(a, b), Apt!CompareNonDigit(b, c), Apt!CompareNonDigit(a, c))
      /\ Opposite(Apt!CompareNonDigit(a, b), Apt!CompareNonDigit(b, a))
  <2>1. Weights(a) \in [Nat -> Int] /\ Weights(b) \in [Nat -> Int] /\ Weights(c) \in [Nat -> Int]
    BY WeightsAre
  <2>2. /\ Decides(Weights(a), Weights(b), Apt!CompareNonDigit(a, b))
        /\ Decides(Weights(b), Weights(c), Apt!CompareNonDigit(b, c))
        /\ Decides(Weights(a), Weights(c), Apt!CompareNonDigit(a, c))
        /\ Decides(Weights(b), Weights(a), Apt!CompareNonDigit(b, a))
    BY NonDigitDecides
  <2> QED
    BY <2>1, <2>2, DecidesChain, DecidesOpposite
<1> DEFINE x == Significant(a)   y == Significant(b)   z == Significant(c)
<1>2. /\ x \in Seq(Apt!Byte) /\ y \in Seq(Apt!Byte) /\ z \in Seq(Apt!Byte)
      /\ Len(x) \in Int /\ Len(y) \in Int /\ Len(z) \in Int
  BY SignificantIs
<1>3. /\ Apt!CompareDigit(a, b) = Then(Apt!CompareInt(Len(x), Len(y)), ByByte(x, y))
      /\ Apt!CompareDigit(b, c) = Then(Apt!CompareInt(Len(y), Len(z)), ByByte(y, z))
      /\ Apt!CompareDigit(a, c) = Then(Apt!CompareInt(Len(x), Len(z)), ByByte(x, z))
      /\ Apt!CompareDigit(b, a) = Then(Apt!CompareInt(Len(y), Len(x)), ByByte(y, x))
  BY DigitIs
<1> HIDE DEF x, y, z
<1>4. /\ Chain(Apt!CompareInt(Len(x), Len(y)), Apt!CompareInt(Len(y), Len(z)), Apt!CompareInt(Len(x), Len(z)))
      /\ Opposite(Apt!CompareInt(Len(x), Len(y)), Apt!CompareInt(Len(y), Len(x)))
  BY <1>2, IntOrder
<1>5. \A u, v \in Seq(Apt!Byte) : Decides(Bytes(u), Bytes(v), ByByte(u, v)) /\ Bytes(u) \in [Nat -> Int]
  BY BytesDecide, WeightsAre DEF ByByte, Differing
<1>6. Chain(ByByte(x, y), ByByte(y, z), ByByte(x, z)) /\ Opposite(ByByte(x, y), ByByte(y, x))
  <2>1. /\ Decides(Bytes(x), Bytes(y), ByByte(x, y)) /\ Decides(Bytes(y), Bytes(z), ByByte(y, z))
        /\ Decides(Bytes(x), Bytes(z), ByByte(x, z)) /\ Decides(Bytes(y), Bytes(x), ByByte(y, x))
        /\ Bytes(x) \in [Nat -> Int] /\ Bytes(y) \in [Nat -> Int] /\ Bytes(z) \in [Nat -> Int]
    BY <1>2, <1>5
  <2> QED
    BY <2>1, DecidesChain, DecidesOpposite
<1>7. /\ Chain(Apt!CompareDigit(a, b), Apt!CompareDigit(b, c), Apt!CompareDigit(a, c))
      /\ Opposite(Apt!CompareDigit(a, b), Apt!CompareDigit(b, a))
  BY <1>3, <1>4, <1>6, ChainThen, OppositeThen
<1> QED
  BY <1>1, <1>7

\* Comparing two parts of versions, given how what is left of them compares.
Pairs == Seq(Apt!Byte) \X Seq(Apt!Byte)
Next2(p) == <<Others(p[1]), Others(p[2])>>
Chunks(p) == Then(Apt!CompareNonDigit(Letters(p[1]), Letters(p[2])),
                  Apt!CompareDigit(Digits(p[1]), Digits(p[2])))
Compared(f, p) == Then(Chunks(p), IF Next2(p) = <<<<>>, <<>>>> THEN 0 ELSE f[Next2(p)])
Size(p) == Len(p[1]) + Len(p[2])

\* What is left of a pair is a smaller one.
LEMMA PairsAre ==
    ASSUME NEW p \in Pairs
    PROVE  /\ Size(p) \in Nat /\ Next2(p) \in Pairs /\ Size(Next2(p)) \in Nat
           /\ Next2(p) # <<<<>>, <<>>>> => Size(Next2(p)) < Size(p)
<1> DEFINE a == p[1]   b == p[2]   r == Others(a)   s == Others(b)
<1>1. a \in Seq(Apt!Byte) /\ b \in Seq(Apt!Byte) /\ p = <<a, b>>
  BY DEF Pairs
<1>2. Next2(p) = <<r, s>> /\ Size(p) = Len(a) + Len(b)
  BY DEF Next2, Size
<1> HIDE DEF a, b
<1>3. /\ r \in Seq(Apt!Byte) /\ Len(r) \in Nat /\ Len(r) <= Len(a) /\ (a # <<>> => Len(r) < Len(a))
      /\ s \in Seq(Apt!Byte) /\ Len(s) \in Nat /\ Len(s) <= Len(b) /\ (b # <<>> => Len(s) < Len(b))
  BY <1>1, ChunksAre
<1> HIDE DEF r, s
<1>4. Len(a) \in Nat /\ Len(b) \in Nat /\ (Len(a) = 0 => a = <<>>) /\ (Len(b) = 0 => b = <<>>)
  BY <1>1
<1>5. Len(r) = 0 => r = <<>>
  BY <1>3
<1>6. Len(s) = 0 => s = <<>>
  BY <1>3
<1>7. Size(<<r, s>>) = Len(r) + Len(s)
  BY DEF Size
<1>8. <<r, s>> # <<<<>>, <<>>>> => Len(r) + Len(s) < Len(a) + Len(b)
  BY <1>3, <1>4, <1>5, <1>6
<1> QED
  BY <1>2, <1>3, <1>4, <1>7, <1>8 DEF Pairs

\* What compares all pairs up to a size.
Solves(f, n) == \A p \in Pairs : Size(p) < n => f[p] = Compared(f, p)

\* It says what the comparison of what is left says.
LEMMA ComparedSame ==
    ASSUME NEW f, NEW g, NEW p \in Pairs,
           Next2(p) # <<<<>>, <<>>>> => f[Next2(p)] = g[Next2(p)]
    PROVE  Compared(f, p) = Compared(g, p)
BY DEF Compared

\* There is only one.
LEMMA SolvesOnce ==
    ASSUME NEW n \in Nat, NEW f, NEW g, Solves(f, n), Solves(g, n), NEW p \in Pairs, Size(p) < n
    PROVE  f[p] = g[p]
<1> DEFINE T == {m \in Nat : \A q \in Pairs : Size(q) < m /\ Size(q) < n => f[q] = g[q]}
<1>1. 0 \in T
  <2>1. \A q \in Pairs : Size(q) \in Nat
    BY PairsAre
  <2> QED
    BY <2>1
<1>2. ASSUME NEW m \in Nat, m \in T PROVE m + 1 \in T
  <2> SUFFICES ASSUME NEW q \in Pairs, Size(q) < m + 1, Size(q) < n PROVE f[q] = g[q]
    OBVIOUS
  <2>1. Size(q) \in Nat /\ Next2(q) \in Pairs /\ Size(Next2(q)) \in Nat
        /\ (Next2(q) # <<<<>>, <<>>>> => Size(Next2(q)) < Size(q))
    BY PairsAre
  <2>2. f[q] = Compared(f, q) /\ g[q] = Compared(g, q)
    BY DEF Solves
  <2>3. Next2(q) # <<<<>>, <<>>>> => f[Next2(q)] = g[Next2(q)]
    <3> SUFFICES ASSUME Next2(q) # <<<<>>, <<>>>> PROVE f[Next2(q)] = g[Next2(q)]
      OBVIOUS
    <3>1. Size(Next2(q)) < m /\ Size(Next2(q)) < n
      BY <2>1
    <3> QED
      BY <1>2, <2>1, <3>1
  <2> QED
    BY <2>2, <2>3, ComparedSame
<1> HIDE DEF T
<1>3. Nat \subseteq T
  BY <1>1, <1>2, All
<1>4. n \in T
  BY <1>3
<1> QED
  BY <1>4 DEF T

\* There is one for every size.
LEMMA SolvesAll ==
    ASSUME NEW n \in Nat
    PROVE  \E f : Solves(f, n)
<1> DEFINE T == {m \in Nat : \E f : Solves(f, m)}
<1>1. 0 \in T
  <2>1. \A q \in Pairs : Size(q) \in Nat
    BY PairsAre
  <2> QED
    BY <2>1 DEF Solves
<1>2. ASSUME NEW m \in Nat, m \in T PROVE m + 1 \in T
  <2>1. PICK f : Solves(f, m)
    BY <1>2
  <2> DEFINE g == [p \in Pairs |-> Compared(f, p)]
  <2>2. Solves(g, m + 1)
    <3> SUFFICES ASSUME NEW q \in Pairs, Size(q) < m + 1 PROVE g[q] = Compared(g, q)
      BY DEF Solves
    <3>1. Size(q) \in Nat /\ Next2(q) \in Pairs /\ Size(Next2(q)) \in Nat
          /\ (Next2(q) # <<<<>>, <<>>>> => Size(Next2(q)) < Size(q))
      BY PairsAre
    <3>2. \A p \in Pairs : g[p] = Compared(f, p)
      OBVIOUS
    <3> HIDE DEF g
    <3>3. Next2(q) # <<<<>>, <<>>>> => f[Next2(q)] = g[Next2(q)]
      <4> SUFFICES ASSUME Next2(q) # <<<<>>, <<>>>> PROVE f[Next2(q)] = g[Next2(q)]
        OBVIOUS
      <4>1. Size(Next2(q)) < m
        BY <3>1
      <4>2. f[Next2(q)] = Compared(f, Next2(q))
        BY <2>1, <3>1, <4>1 DEF Solves
      <4> QED
        BY <3>1, <3>2, <4>2
    <3> QED
      BY <3>2, <3>3, ComparedSame
  <2> HIDE DEF g
  <2> QED
    BY <2>2
<1> HIDE DEF T
<1>3. Nat \subseteq T
  BY <1>1, <1>2, All
<1>4. n \in T
  BY <1>3
<1> QED
  BY <1>4 DEF T

\* What compares all pairs.
PartRule(f) == f = [p \in Pairs |-> Compared(f, p)]

\* So the code's loop compares all pairs.
LEMMA PartDefined == \E f : PartRule(f)
<1> DEFINE At(p) == CHOOSE f : Solves(f, Size(p) + 1)
           F == [p \in Pairs |-> At(p)[p]]
<1>1. ASSUME NEW p \in Pairs PROVE Solves(At(p), Size(p) + 1)
  <2>1. Size(p) + 1 \in Nat
    BY PairsAre
  <2> QED
    BY <2>1, SolvesAll
<1>2. \A p \in Pairs : F[p] = At(p)[p]
  OBVIOUS
<1>3. ASSUME NEW p \in Pairs PROVE F[p] = Compared(F, p)
  <2>1. Size(p) \in Nat /\ Next2(p) \in Pairs /\ Size(Next2(p)) \in Nat
        /\ (Next2(p) # <<<<>>, <<>>>> => Size(Next2(p)) < Size(p))
    BY PairsAre
  <2>2. Solves(At(p), Size(p) + 1) /\ Solves(At(Next2(p)), Size(Next2(p)) + 1)
    BY <1>1, <2>1
  <2> HIDE DEF F, At
  <2>3. At(p)[p] = Compared(At(p), p)
    BY <2>1, <2>2 DEF Solves
  <2>4. Next2(p) # <<<<>>, <<>>>> => At(p)[Next2(p)] = F[Next2(p)]
    <3> SUFFICES ASSUME Next2(p) # <<<<>>, <<>>>> PROVE At(p)[Next2(p)] = F[Next2(p)]
      OBVIOUS
    <3> DEFINE k == Size(Next2(p)) + 1
    <3>1. k \in Nat /\ k <= Size(p) /\ Size(Next2(p)) < k
      BY <2>1
    <3>2. Solves(At(p), k)
      <4>1. \A q \in Pairs : Size(q) < k => Size(q) < Size(p) + 1
        <5>1. \A q \in Pairs : Size(q) \in Nat
          BY PairsAre
        <5> HIDE DEF k
        <5> QED
          BY <2>1, <3>1, <5>1
      <4> QED
        BY <2>2, <4>1 DEF Solves
    <3>3. Solves(At(Next2(p)), k)
      BY <2>2
    <3> HIDE DEF k
    <3>4. At(p)[Next2(p)] = At(Next2(p))[Next2(p)]
      BY <2>1, <3>1, <3>2, <3>3, SolvesOnce
    <3> QED
      BY <1>2, <2>1, <3>4
  <2>5. Compared(At(p), p) = Compared(F, p)
    BY <2>4, ComparedSame
  <2> QED
    BY <1>2, <2>3, <2>5
<1>4. F = [p \in Pairs |-> F[p]]
  OBVIOUS
<1> HIDE DEF F
<1>5. PartRule(F)
  BY <1>3, <1>4 DEF PartRule
<1> QED
  BY <1>5

\* Parts of versions compare chunk by chunk.
LEMMA PartIs ==
    /\ \A p \in Pairs : Apt!CompareVersionPart[p] = Then(Chunks(p), Apt!CompareVersionPart[Next2(p)])
    /\ Apt!CompareVersionPart[<<<<>>, <<>>>>] = 0
<1> DEFINE c == Apt!CompareVersionPart
           Step(f, p) ==
               LET a == p[1]   b == p[2]
                   na == Apt!SplitNonDigit(a)   nb == Apt!SplitNonDigit(b)
                   da == Apt!SplitDigit(Apt!After(a, na))
                   db == Apt!SplitDigit(Apt!After(b, nb))
                   ra == Apt!After(a, na \o da)   rb == Apt!After(b, nb \o db)
               IN  IF Apt!CompareNonDigit(na, nb) # 0 THEN Apt!CompareNonDigit(na, nb)
                   ELSE IF Apt!CompareDigit(da, db) # 0 THEN Apt!CompareDigit(da, db)
                   ELSE IF ra = <<>> /\ rb = <<>> THEN 0
                   ELSE f[<<ra, rb>>]
           A(f) == f = [p \in Pairs |-> Step(f, p)]
<1>1. ASSUME NEW f, NEW p PROVE Step(f, p) = Compared(f, p)
  <2> DEFINE n == Apt!CompareNonDigit(Letters(p[1]), Letters(p[2]))
             d == Apt!CompareDigit(Digits(p[1]), Digits(p[2]))
             r == Others(p[1])   s == Others(p[2])
  <2>1. Step(f, p) = IF n # 0 THEN n ELSE IF d # 0 THEN d
                     ELSE IF r = <<>> /\ s = <<>> THEN 0 ELSE f[<<r, s>>]
    BY DEF Letters, Digits, Others
  <2>2. Compared(f, p) = Then(Then(n, d), IF <<r, s>> = <<<<>>, <<>>>> THEN 0 ELSE f[<<r, s>>])
    BY DEF Compared, Chunks, Next2
  <2> HIDE DEF Step, n, d, r, s
  <2> QED
    BY <2>1, <2>2 DEF Then
<1>2. c = CHOOSE f : A(f)
  BY DEF Apt!CompareVersionPart, Pairs
<1> HIDE DEF Step
<1>3. \A f : A(f) <=> PartRule(f)
  BY <1>1 DEF PartRule
<1> HIDE DEF A, c
<1>4. PartRule(c)
  BY <1>2, <1>3, PartDefined
<1>5. \A p \in Pairs : c[p] = Compared(c, p)
  BY <1>4 DEF PartRule
<1> DEFINE e == <<>>   z == <<e, e>>
<1>6. z \in Pairs /\ Next2(z) = z /\ Chunks(z) = 0
  <2>1. e \in Seq(Apt!Byte) /\ Len(e) = 0
    OBVIOUS
  <2>2. Letters(e) = e /\ Digits(e) = e /\ Others(e) = e
    <3>1. \A s \in Seq(Apt!Byte) : Len(s) \in 0..0 => s = <<>>
      OBVIOUS
    <3>2. Letters(e) = <<>>
      BY <2>1, <3>1, SplitIs DEF Letters
    <3>3. Apt!After(e, <<>>) = <<>>
      <4> DEFINE k == Len(e)
      <4>1. k = 0 /\ k \in 0..Len(e)
        BY <2>1
      <4>2. Apt!After(e, <<>>) = SubSeq(e, k + 1, Len(e))
        BY DEF Apt!After
      <4> HIDE DEF k, e
      <4>3. SubSeq(e, k + 1, Len(e)) \in Seq(Apt!Byte) /\ Len(SubSeq(e, k + 1, Len(e))) = Len(e) - k
        BY <2>1, <4>1, CutAt
      <4>4. Len(SubSeq(e, k + 1, Len(e))) \in 0..0
        BY <2>1, <4>1, <4>3
      <4>5. SubSeq(e, k + 1, Len(e)) = <<>>
        BY <3>1, <4>3, <4>4
      <4> QED
        BY <4>2, <4>5
    <3>4. Digits(e) = <<>>
      BY <2>1, <3>1, <3>2, <3>3, SplitIs DEF Digits
    <3>5. Others(e) = <<>>
      <4>1. Others(e) \in Seq(Apt!Byte) /\ Len(Others(e)) \in Nat /\ Len(Others(e)) <= Len(e)
        BY <2>1, ChunksAre
      <4>2. Len(Others(e)) \in 0..0
        BY <2>1, <4>1
      <4> QED
        BY <3>1, <4>1, <4>2
    <3> QED
      BY <3>2, <3>4, <3>5
  <2>3. Chunks(z) = Then(Apt!CompareNonDigit(e, e), Apt!CompareDigit(e, e)) /\ Next2(z) = <<e, e>>
    BY <2>2 DEF Chunks, Next2
  <2> HIDE DEF e
  <2>4. Opposite(Apt!CompareNonDigit(e, e), Apt!CompareNonDigit(e, e))
        /\ Opposite(Apt!CompareDigit(e, e), Apt!CompareDigit(e, e))
    BY <2>1, ChunksOrder
  <2>5. \A x : Opposite(x, x) => x = 0
    BY DEF Opposite
  <2>6. Apt!CompareNonDigit(e, e) = 0 /\ Apt!CompareDigit(e, e) = 0
    BY <2>4, <2>5
  <2>7. Chunks(z) = 0
    BY <2>3, <2>6 DEF Then
  <2> QED
    BY <2>1, <2>3, <2>7 DEF Pairs
<1>7. c[z] = 0
  BY <1>5, <1>6 DEF Compared, Then
<1>8. ASSUME NEW p \in Pairs PROVE c[p] = Then(Chunks(p), c[Next2(p)])
  BY <1>5, <1>7 DEF Compared
<1> QED
  BY <1>7, <1>8 DEF c

\* The parts of three versions are in order, and those of two whichever comes first.
PartsInOrder(a, b, c) ==
    /\ Chain(Apt!CompareVersionPart[<<a, b>>], Apt!CompareVersionPart[<<b, c>>], Apt!CompareVersionPart[<<a, c>>])
    /\ Opposite(Apt!CompareVersionPart[<<a, b>>], Apt!CompareVersionPart[<<b, a>>])

\* They are if what is left of them is: the chunks are in order.
LEMMA PartsFollow ==
    ASSUME NEW a \in Seq(Apt!Byte), NEW b \in Seq(Apt!Byte), NEW c \in Seq(Apt!Byte),
           PartsInOrder(Others(a), Others(b), Others(c))
    PROVE  PartsInOrder(a, b, c)
<1> DEFINE C(x, y) == Apt!CompareVersionPart[<<x, y>>]
           N(x, y) == Apt!CompareNonDigit(Letters(x), Letters(y))
           D(x, y) == Apt!CompareDigit(Digits(x), Digits(y))
           W(x, y) == Then(Then(N(x, y), D(x, y)), C(Others(x), Others(y)))
<1>1. ASSUME NEW x \in Seq(Apt!Byte), NEW y \in Seq(Apt!Byte) PROVE C(x, y) = W(x, y)
  <2>1. <<x, y>> \in Pairs
    BY DEF Pairs
  <2>2. Chunks(<<x, y>>) = Then(N(x, y), D(x, y)) /\ Next2(<<x, y>>) = <<Others(x), Others(y)>>
    BY DEF Chunks, Next2
  <2>3. C(x, y) = Then(Chunks(<<x, y>>), Apt!CompareVersionPart[Next2(<<x, y>>)])
    BY <2>1, PartIs
  <2> QED
    BY <2>2, <2>3
<1>2. /\ Letters(a) \in Seq(Apt!Byte) /\ Letters(b) \in Seq(Apt!Byte) /\ Letters(c) \in Seq(Apt!Byte)
      /\ Digits(a) \in Seq(Apt!Byte) /\ Digits(b) \in Seq(Apt!Byte) /\ Digits(c) \in Seq(Apt!Byte)
  BY ChunksAre
<1>3. Chain(N(a, b), N(b, c), N(a, c)) /\ Opposite(N(a, b), N(b, a))
  BY <1>2, ChunksOrder
<1>4. Chain(D(a, b), D(b, c), D(a, c)) /\ Opposite(D(a, b), D(b, a))
  BY <1>2, ChunksOrder
<1>5. /\ Chain(C(Others(a), Others(b)), C(Others(b), Others(c)), C(Others(a), Others(c)))
      /\ Opposite(C(Others(a), Others(b)), C(Others(b), Others(a)))
  BY DEF PartsInOrder
<1> HIDE DEF C, N, D
<1>6. /\ Chain(Then(N(a, b), D(a, b)), Then(N(b, c), D(b, c)), Then(N(a, c), D(a, c)))
      /\ Opposite(Then(N(a, b), D(a, b)), Then(N(b, a), D(b, a)))
  BY <1>3, <1>4, ChainThen, OppositeThen
<1>7. Chain(W(a, b), W(b, c), W(a, c)) /\ Opposite(W(a, b), W(b, a))
  BY <1>5, <1>6, ChainThen, OppositeThen
<1> HIDE DEF W
<1>8. C(a, b) = W(a, b) /\ C(b, c) = W(b, c) /\ C(a, c) = W(a, c) /\ C(b, a) = W(b, a)
  BY <1>1
<1> QED
  BY <1>7, <1>8 DEF PartsInOrder, C

\* So all are.
LEMMA PartsAreOrdered ==
    ASSUME NEW a \in Seq(Apt!Byte), NEW b \in Seq(Apt!Byte), NEW c \in Seq(Apt!Byte)
    PROVE  PartsInOrder(a, b, c)
<1> DEFINE S == Seq(Apt!Byte)
           Sum(x, y, z) == Len(x) + Len(y) + Len(z)
           T == {n \in Nat : \A x, y, z \in S : Sum(x, y, z) < n => PartsInOrder(x, y, z)}
<1>1. \A x, y, z \in S : Sum(x, y, z) \in Nat
  <2>1. \A x \in S : Len(x) \in Nat
    OBVIOUS
  <2> QED
    BY <2>1
<1>2. 0 \in T
  <2>1. ASSUME NEW x \in S, NEW y \in S, NEW z \in S PROVE ~(Sum(x, y, z) < 0)
    <3>1. Sum(x, y, z) \in Nat
      BY <1>1
    <3> HIDE DEF Sum
    <3> QED
      BY <3>1
  <2> HIDE DEF S, Sum
  <2> QED
    BY <2>1
<1>3. ASSUME NEW n \in Nat, n \in T PROVE n + 1 \in T
  <2> SUFFICES ASSUME NEW x \in S, NEW y \in S, NEW z \in S, Sum(x, y, z) < n + 1
               PROVE  PartsInOrder(x, y, z)
    OBVIOUS
  <2>1. CASE x = <<>> /\ y = <<>> /\ z = <<>>
    <3>1. Chain(0, 0, 0) /\ Opposite(0, 0)
      BY DEF Chain, Opposite
    <3> QED
      BY <2>1, <3>1, PartIs DEF PartsInOrder
  <2>2. CASE ~(x = <<>> /\ y = <<>> /\ z = <<>>)
    <3>1. /\ Others(x) \in S /\ Len(Others(x)) \in Nat /\ Len(Others(x)) <= Len(x)
          /\ x # <<>> => Len(Others(x)) < Len(x)
      BY ChunksAre
    <3>2. /\ Others(y) \in S /\ Len(Others(y)) \in Nat /\ Len(Others(y)) <= Len(y)
          /\ y # <<>> => Len(Others(y)) < Len(y)
      BY ChunksAre
    <3>3. /\ Others(z) \in S /\ Len(Others(z)) \in Nat /\ Len(Others(z)) <= Len(z)
          /\ z # <<>> => Len(Others(z)) < Len(z)
      BY ChunksAre
    <3>4. Len(x) \in Nat /\ Len(y) \in Nat /\ Len(z) \in Nat
      OBVIOUS
    <3>5. Sum(Others(x), Others(y), Others(z)) < n
      <4> HIDE DEF S, T
      <4> QED
        BY <2>2, <3>1, <3>2, <3>3, <3>4
    <3>6. PartsInOrder(Others(x), Others(y), Others(z))
      <4> HIDE DEF Sum, S
      <4> QED
        BY <1>3, <3>1, <3>2, <3>3, <3>5
    <3> QED
      BY <3>6, PartsFollow
  <2> QED
    BY <2>1, <2>2
<1> DEFINE k == Sum(a, b, c) + 1
<1>4. k \in Nat /\ Sum(a, b, c) < k
  <2>1. Sum(a, b, c) \in Nat
    BY <1>1
  <2> HIDE DEF Sum
  <2> QED
    BY <2>1
<1> HIDE DEF T, k
<1>5. Nat \subseteq T
  BY <1>2, <1>3, All
<1>6. k \in T
  BY <1>4, <1>5
<1> HIDE DEF Sum
<1> QED
  BY <1>4, <1>6 DEF T

\* The digits of an epoch are a number.
LEMMA DecimalIs ==
    ASSUME NEW d \in Seq(Apt!Byte)
    PROVE  Apt!Decimal(d) \in Int
<1> DEFINE N == Len(d)
           Digit(x, n) == 10 * x + d[n] - Apt!Zero
           Rule(f, m) == f = [n \in 0..m |-> IF n = 0 THEN 0 ELSE Digit(f[n - 1], n)]
           T == {m \in 0..N : \E f : Rule(f, m)}
           f == CHOOSE f : Rule(f, N)
<1>1. Apt!Decimal(d) = f[N]
  BY DEF Apt!Decimal
<1>2. N \in Nat
  OBVIOUS
<1>3. ASSUME NEW x \in Int, NEW n \in 1..N PROVE Digit(x, n) \in Int
  <2>1. d[n] \in Apt!Byte
    OBVIOUS
  <2>2. \A y \in Apt!Byte : y \in Int
    BY DEF Apt!Byte
  <2>3. d[n] \in Int
    BY <2>1, <2>2
  <2> QED
    BY <2>3 DEF Apt!Zero
<1> HIDE DEF N, Digit, f
<1>4. 0 \in T
  <2> DEFINE g == [n \in 0..0 |-> 0]
  <2>1. Rule(g, 0)
    <3>1. \A n \in 0..0 : n = 0
      OBVIOUS
    <3> QED
      BY <3>1
  <2> HIDE DEF g
  <2>2. \E h : Rule(h, 0)
    BY <2>1
  <2> HIDE DEF Rule
  <2> QED
    BY <1>2, <2>2
<1>5. ASSUME NEW m \in 0..N, m < N, m \in T PROVE m + 1 \in T
  <2>1. PICK g : Rule(g, m)
    BY <1>5
  <2> DEFINE h == [n \in 0..(m + 1) |-> IF n = 0 THEN 0 ELSE Digit(g[n - 1], n)]
  <2>2. \A n \in 0..(m + 1) : n # 0 => n - 1 \in 0..m
    BY <1>2
  <2>3. ASSUME NEW n \in 0..m PROVE h[n] = g[n]
    <3>1. n \in 0..(m + 1)
      BY <1>2
    <3> QED
      BY <2>1, <3>1
  <2>4. Rule(h, m + 1)
    <3>1. ASSUME NEW n \in 0..(m + 1)
          PROVE  (IF n = 0 THEN 0 ELSE Digit(g[n - 1], n)) = (IF n = 0 THEN 0 ELSE Digit(h[n - 1], n))
      BY <2>2, <2>3
    <3> QED
      BY <3>1
  <2>5. m + 1 \in 0..N
    BY <1>2, <1>5
  <2> HIDE DEF h
  <2> QED
    BY <2>4, <2>5
<1> HIDE DEF T
<1>6. 0..N \subseteq T
  BY <1>2, <1>4, <1>5, UpTo
<1>7. \E g : Rule(g, N)
  <2>1. N \in T
    BY <1>2, <1>6
  <2> HIDE DEF Rule
  <2> QED
    BY <2>1 DEF T
<1>8. Rule(f, N)
  <2> HIDE DEF Rule
  <2> QED
    BY Zenon, <1>7 DEF f
<1>9. \A n \in 0..N : f[n] = IF n = 0 THEN 0 ELSE Digit(f[n - 1], n)
  BY <1>8
<1> HIDE DEF Rule
<1> DEFINE U == {n \in 0..N : f[n] \in Int}
<1>10. 0 \in U
  BY <1>2, <1>9
<1>11. ASSUME NEW n \in 0..N, n < N, n \in U PROVE n + 1 \in U
  <2>1. n + 1 \in 1..N /\ n + 1 \in 0..N /\ n + 1 # 0 /\ (n + 1) - 1 = n
    BY <1>2, <1>11
  <2>2. f[n + 1] = Digit(f[n], n + 1)
    BY <1>9, <2>1
  <2>3. f[n] \in Int
    BY <1>11
  <2> QED
    BY <1>3, <2>1, <2>2, <2>3
<1> HIDE DEF U
<1>12. 0..N \subseteq U
  BY <1>2, <1>10, <1>11, UpTo
<1> QED
  BY <1>1, <1>2, <1>12 DEF U

\* A number is an integer, and nothing is no number.
LEMMA AtoiIs ==
    /\ \A s \in Seq(Apt!Byte) : Apt!Atoi(s) \in Int
    /\ ~Apt!IsNumber(<<>>)
<1>1. ASSUME NEW s \in Seq(Apt!Byte) PROVE Apt!Unsigned(s) \in Seq(Apt!Byte)
  <2>1. s # <<>> => Tail(s) \in Seq(Apt!Byte)
    OBVIOUS
  <2> QED
    BY <2>1 DEF Apt!Unsigned, Apt!Signed
<1>2. ASSUME NEW s \in Seq(Apt!Byte) PROVE Apt!Atoi(s) \in Int
  <2>1. Apt!Decimal(Apt!Unsigned(s)) \in Int
    BY <1>1, DecimalIs
  <2> QED
    BY <2>1 DEF Apt!Atoi
<1>3. ~Apt!IsNumber(<<>>)
  BY DEF Apt!IsNumber, Apt!AtMost, Apt!Unsigned, Apt!Signed
<1> QED
  BY <1>2, <1>3

\* What comes before and after a byte of a version is a version.
LEMMA SplitAtIs ==
    ASSUME NEW s \in Seq(Apt!Byte), NEW n \in DOMAIN s
    PROVE  SubSeq(s, 1, n - 1) \in Seq(Apt!Byte) /\ SubSeq(s, n + 1, Len(s)) \in Seq(Apt!Byte)
<1>1. n - 1 \in 0..Len(s) /\ n \in 0..Len(s)
  OBVIOUS
<1> QED
  BY <1>1, CutAt

\* The least and the greatest place of a byte.
LEMMA PlaceIs ==
    ASSUME NEW s \in Seq(Apt!Byte), NEW x, {i \in DOMAIN s : s[i] = x} # {}
    PROVE  /\ Apt!Min({i \in DOMAIN s : s[i] = x}) \in DOMAIN s
           /\ Apt!Max({i \in DOMAIN s : s[i] = x}) \in DOMAIN s
<1> DEFINE K == {i \in DOMAIN s : s[i] = x}
<1>1. Len(s) \in Nat /\ K \in SUBSET (0..Len(s)) /\ K \subseteq DOMAIN s
  OBVIOUS
<1> HIDE DEF K
<1>2. K # {}
  BY DEF K
<1>3. Apt!Min(K) \in K /\ Apt!Max(K) \in K
  BY <1>1, <1>2, MinIs
<1> QED
  BY <1>1, <1>3 DEF K

\* What follows the epoch has two parts.
LEMMA RevisionIs ==
    ASSUME NEW epoch \in Int, NEW rest \in Seq(Apt!Byte)
    PROVE  LET v == Apt!SplitRevision(epoch, rest)
           IN  v.epoch \in Int /\ v.upstream \in Seq(Apt!Byte) /\ v.revision \in Seq(Apt!Byte)
<1> DEFINE hyphens  == {i \in DOMAIN rest : rest[i] = Apt!Hyphen}
           upstream == IF hyphens = {} THEN rest ELSE SubSeq(rest, 1, Apt!Max(hyphens) - 1)
           revision == IF hyphens = {} THEN <<>> ELSE SubSeq(rest, Apt!Max(hyphens) + 1, Len(rest))
<1>1. Apt!SplitRevision(epoch, rest) = [epoch |-> epoch, upstream |-> upstream, revision |-> revision]
  BY DEF Apt!SplitRevision
<1>2. hyphens # {} => Apt!Max(hyphens) \in DOMAIN rest
  BY PlaceIs
<1> HIDE DEF hyphens
<1>3. hyphens # {} => /\ SubSeq(rest, 1, Apt!Max(hyphens) - 1) \in Seq(Apt!Byte)
                      /\ SubSeq(rest, Apt!Max(hyphens) + 1, Len(rest)) \in Seq(Apt!Byte)
  BY <1>2, SplitAtIs
<1>4. upstream \in Seq(Apt!Byte) /\ revision \in Seq(Apt!Byte)
  BY <1>3
<1> HIDE DEF upstream, revision
<1> QED
  BY <1>1, <1>4

\* A version has an epoch, and two parts.
LEMMA DebVersionIs ==
    ASSUME NEW v \in Seq(Apt!Byte)
    PROVE  /\ Apt!SplitDebVersion(v).epoch \in Int
           /\ Apt!SplitDebVersion(v).upstream \in Seq(Apt!Byte)
           /\ Apt!SplitDebVersion(v).revision \in Seq(Apt!Byte)
<1> DEFINE colons == {i \in DOMAIN v : v[i] = Apt!Colon}
           number == IF colons = {} THEN <<>> ELSE SubSeq(v, 1, Apt!Min(colons) - 1)
           rest   == SubSeq(v, Apt!Min(colons) + 1, Len(v))
           Split(w) == w.epoch \in Int /\ w.upstream \in Seq(Apt!Byte) /\ w.revision \in Seq(Apt!Byte)
<1>1. Apt!SplitDebVersion(v) = IF Apt!IsNumber(number) THEN Apt!SplitRevision(Apt!Atoi(number), rest)
                               ELSE Apt!SplitRevision(0, v)
  BY DEF Apt!SplitDebVersion
<1>2. colons # {} => Apt!Min(colons) \in DOMAIN v
  BY PlaceIs
<1>3. number \in Seq(Apt!Byte) /\ (Apt!IsNumber(number) => colons # {})
  <2> HIDE DEF colons
  <2>1. colons # {} => SubSeq(v, 1, Apt!Min(colons) - 1) \in Seq(Apt!Byte)
    BY <1>2, SplitAtIs
  <2>2. <<>> \in Seq(Apt!Byte)
    OBVIOUS
  <2>3. ~Apt!IsNumber(<<>>)
    BY AtoiIs
  <2> QED
    BY <2>1, <2>2, <2>3
<1> HIDE DEF colons
<1>4. colons # {} => rest \in Seq(Apt!Byte)
  BY <1>2, SplitAtIs
<1> HIDE DEF number, rest
<1>5. Apt!Atoi(number) \in Int
  BY <1>3, AtoiIs
<1>6. ASSUME Apt!IsNumber(number) PROVE Split(Apt!SplitRevision(Apt!Atoi(number), rest))
  BY <1>3, <1>4, <1>5, <1>6, RevisionIs
<1>7. Split(Apt!SplitRevision(0, v))
  BY RevisionIs
<1> HIDE DEF Split
<1>8. Split(Apt!SplitDebVersion(v))
  BY <1>1, <1>6, <1>7
<1> QED
  BY <1>8 DEF Split

\* Comparing what versions consist of.
Fields(x, y) ==
    Then(Then(Apt!CompareInt(x.epoch, y.epoch), Apt!CompareVersionPart[<<x.upstream, y.upstream>>]),
         Apt!CompareVersionPart[<<x.revision, y.revision>>])

\* They are in order.
LEMMA FieldsAreOrdered ==
    ASSUME NEW x, x.epoch \in Int, x.upstream \in Seq(Apt!Byte), x.revision \in Seq(Apt!Byte),
           NEW y, y.epoch \in Int, y.upstream \in Seq(Apt!Byte), y.revision \in Seq(Apt!Byte),
           NEW z, z.epoch \in Int, z.upstream \in Seq(Apt!Byte), z.revision \in Seq(Apt!Byte)
    PROVE  Chain(Fields(x, y), Fields(y, z), Fields(x, z)) /\ Opposite(Fields(x, y), Fields(y, x))
<1> DEFINE E(u, v) == Apt!CompareInt(u.epoch, v.epoch)
           U(u, v) == Apt!CompareVersionPart[<<u.upstream, v.upstream>>]
           R(u, v) == Apt!CompareVersionPart[<<u.revision, v.revision>>]
<1>1. Chain(E(x, y), E(y, z), E(x, z)) /\ Opposite(E(x, y), E(y, x))
  BY IntOrder
<1>2. Chain(U(x, y), U(y, z), U(x, z)) /\ Opposite(U(x, y), U(y, x))
  BY PartsAreOrdered DEF PartsInOrder
<1>3. Chain(R(x, y), R(y, z), R(x, z)) /\ Opposite(R(x, y), R(y, x))
  BY PartsAreOrdered DEF PartsInOrder
<1>4. \A u, v : Fields(u, v) = Then(Then(E(u, v), U(u, v)), R(u, v))
  BY DEF Fields
<1> HIDE DEF E, U, R
<1>5. /\ Chain(Then(E(x, y), U(x, y)), Then(E(y, z), U(y, z)), Then(E(x, z), U(x, z)))
      /\ Opposite(Then(E(x, y), U(x, y)), Then(E(y, x), U(y, x)))
  BY <1>1, <1>2, ChainThen, OppositeThen
<1>6. /\ Chain(Then(Then(E(x, y), U(x, y)), R(x, y)), Then(Then(E(y, z), U(y, z)), R(y, z)),
               Then(Then(E(x, z), U(x, z)), R(x, z)))
      /\ Opposite(Then(Then(E(x, y), U(x, y)), R(x, y)), Then(Then(E(y, x), U(y, x)), R(y, x)))
  BY <1>3, <1>5, ChainThen, OppositeThen
<1> QED
  BY <1>4, <1>6

\* The code's comparison.
LEMMA ComparisonIs ==
    ASSUME NEW a \in Seq(Apt!Byte), NEW b \in Seq(Apt!Byte)
    PROVE  Apt!CompareDebVersion(a, b) =
               IF a = <<>> \/ b = <<>>
               THEN Apt!CompareInt(IF a = <<>> THEN 0 ELSE 1, IF b = <<>> THEN 0 ELSE 1)
               ELSE Fields(Apt!SplitDebVersion(a), Apt!SplitDebVersion(b))
<1> DEFINE x == Apt!SplitDebVersion(a)   y == Apt!SplitDebVersion(b)
           e == Apt!CompareInt(x.epoch, y.epoch)
           u == Apt!CompareVersionPart[<<x.upstream, y.upstream>>]
           r == Apt!CompareVersionPart[<<x.revision, y.revision>>]
<1>1. Apt!CompareDebVersion(a, b) = IF a = b THEN 0
                                    ELSE IF a = <<>> THEN 0 - 1 ELSE IF b = <<>> THEN 1
                                    ELSE IF e # 0 THEN e ELSE IF u # 0 THEN u ELSE r
  BY DEF Apt!CompareDebVersion
<1>2. Fields(x, y) = IF e # 0 THEN e ELSE IF u # 0 THEN u ELSE r
  <2>1. Fields(x, y) = Then(Then(e, u), r)
    BY DEF Fields
  <2> HIDE DEF x, y, e, u, r
  <2> QED
    BY <2>1 DEF Then
<1>3. a = b => Fields(x, y) = 0
  <2>1. x.epoch \in Int /\ x.upstream \in Seq(Apt!Byte) /\ x.revision \in Seq(Apt!Byte)
    BY DebVersionIs
  <2> HIDE DEF x
  <2>2. Opposite(Fields(x, x), Fields(x, x))
    BY <2>1, FieldsAreOrdered
  <2>3. \A p : Opposite(p, p) => p = 0
    BY DEF Opposite
  <2>4. Fields(x, x) = 0
    BY <2>2, <2>3
  <2> QED
    BY <2>4 DEF x
<1> HIDE DEF x, y, e, u, r
<1>4. CASE a = <<>> \/ b = <<>>
  <2>1. Apt!CompareInt(0, 0) = 0 /\ Apt!CompareInt(0, 1) = 0 - 1 /\ Apt!CompareInt(1, 0) = 1
    BY DEF Apt!CompareInt
  <2> QED
    BY <1>1, <1>4, <2>1
<1>5. CASE a # <<>> /\ b # <<>>
  <2>1. Apt!CompareDebVersion(a, b) = Fields(x, y)
    BY <1>1, <1>2, <1>3, <1>5
  <2> QED
    BY <1>5, <2>1 DEF x, y
<1> QED
  BY <1>4, <1>5

\* The code's comparison of Debian versions is an order of all strings of bytes:
\* what is not newer than what is not newer is not newer, and neither depends on
\* which of two comes first.
THEOREM VersionsAreOrdered ==
    \A a, b, c \in Seq(Apt!Byte) :
        /\ Chain(Apt!CompareDebVersion(a, b), Apt!CompareDebVersion(b, c), Apt!CompareDebVersion(a, c))
        /\ Opposite(Apt!CompareDebVersion(a, b), Apt!CompareDebVersion(b, a))
<1> SUFFICES ASSUME NEW a \in Seq(Apt!Byte), NEW b \in Seq(Apt!Byte), NEW c \in Seq(Apt!Byte)
             PROVE  /\ Chain(Apt!CompareDebVersion(a, b), Apt!CompareDebVersion(b, c), Apt!CompareDebVersion(a, c))
                    /\ Opposite(Apt!CompareDebVersion(a, b), Apt!CompareDebVersion(b, a))
  OBVIOUS
<1> DEFINE Full(v) == IF v = <<>> THEN 0 ELSE 1
           I(u, v) == Apt!CompareInt(Full(u), Full(v))
           F(u, v) == Fields(Apt!SplitDebVersion(u), Apt!SplitDebVersion(v))
           W(u, v) == IF u = <<>> \/ v = <<>> THEN I(u, v) ELSE F(u, v)
<1>1. ASSUME NEW u \in Seq(Apt!Byte), NEW v \in Seq(Apt!Byte)
      PROVE  Apt!CompareDebVersion(u, v) = W(u, v)
  BY ComparisonIs
<1>2. /\ Chain(F(a, b), F(b, c), F(a, c)) /\ Opposite(F(a, b), F(b, a))
  BY DebVersionIs, FieldsAreOrdered
<1>3. /\ Chain(I(a, b), I(b, c), I(a, c)) /\ Opposite(I(a, b), I(b, a))
      /\ \A u, v : (I(u, v) = 0 <=> Full(u) = Full(v)) /\ (I(u, v) < 0 <=> Full(u) < Full(v))
  <2>1. \A v : Full(v) \in Int
    OBVIOUS
  <2> HIDE DEF Full
  <2> QED
    BY <2>1, IntOrder
<1> HIDE DEF F
<1>4. /\ Chain(W(a, b), W(b, c), W(a, c)) /\ Opposite(W(a, b), W(b, a))
  BY <1>2, <1>3 DEF Chain, Opposite, Apt!CompareInt
<1> HIDE DEF W
<1> QED
  BY <1>1, <1>4

\* Versions that are each older than the next are older the further they are apart.
LEMMA RankedIsOrdered ==
    ASSUME NEW m \in DOMAIN Ranked, NEW n \in DOMAIN Ranked
    PROVE  /\ Apt!CompareDebVersion(Ranked[m], Ranked[n]) \in Int
           /\ m < n => Apt!CompareDebVersion(Ranked[m], Ranked[n]) < 0
           /\ m = n => Apt!CompareDebVersion(Ranked[m], Ranked[n]) = 0
           /\ m > n => Apt!CompareDebVersion(Ranked[m], Ranked[n]) > 0
<1> DEFINE R == Ranked   N == Len(R)   S == Seq(Apt!Byte)
           C(i, j) == Apt!CompareDebVersion(R[i], R[j])
           T == {k \in Nat : \A i \in 1..N : i + (k + 1) \in 1..N => C(i, i + (k + 1)) < 0}
<1>1. N \in Nat /\ DOMAIN R = 1..N /\ \A i \in 1..N : R[i] \in S
  <2> DEFINE U == S \ {<<>>}
  <2>1. R \in Seq(U)
    BY RankedAssumption
  <2>2. U \subseteq S
    OBVIOUS
  <2> HIDE DEF R, S, U
  <2> QED
    BY <2>1, <2>2
<1>2. \A i \in 1..(N - 1) : C(i, i + 1) < 0
  BY RankedAssumption
<1>3. ASSUME NEW i \in 1..N, NEW j \in 1..N, NEW k \in 1..N
      PROVE  Chain(C(i, j), C(j, k), C(i, k)) /\ Opposite(C(i, j), C(j, i))
  <2>1. R[i] \in S /\ R[j] \in S /\ R[k] \in S
    BY <1>1
  <2> HIDE DEF R
  <2> QED
    BY <2>1, VersionsAreOrdered
<1>4. m \in 1..N /\ n \in 1..N
  BY <1>1
<1> HIDE DEF R, N, S, C
<1>5. 0 \in T
  <2> SUFFICES ASSUME NEW i \in 1..N, i + (0 + 1) \in 1..N PROVE C(i, i + (0 + 1)) < 0
    OBVIOUS
  <2>1. i \in 1..(N - 1) /\ 0 + 1 = 1
    BY <1>1
  <2> QED
    BY <1>2, <2>1
<1>6. ASSUME NEW k \in Nat, k \in T PROVE k + 1 \in T
  <2> SUFFICES ASSUME NEW i \in 1..N, i + ((k + 1) + 1) \in 1..N PROVE C(i, i + ((k + 1) + 1)) < 0
    OBVIOUS
  <2> DEFINE j == i + (k + 1)
  <2>1. j \in 1..N /\ j \in 1..(N - 1) /\ i + ((k + 1) + 1) = j + 1 /\ j + 1 \in 1..N
    BY <1>1
  <2>2. C(i, j) < 0
    BY <1>6, <2>1
  <2> HIDE DEF j
  <2>3. C(j, j + 1) < 0
    BY <1>2, <2>1
  <2>4. Chain(C(i, j), C(j, j + 1), C(i, j + 1))
    BY <1>3, <2>1
  <2>5. C(i, j + 1) < 0
    BY <2>2, <2>3, <2>4 DEF Chain
  <2> QED
    BY <2>1, <2>5
<1> HIDE DEF T
<1>7. Nat \subseteq T
  BY <1>5, <1>6, All
<1>8. ASSUME NEW i \in 1..N, NEW j \in 1..N, i < j PROVE C(i, j) < 0
  <2>1. j - i - 1 \in Nat /\ i + ((j - i - 1) + 1) = j
    BY <1>1, <1>8
  <2>2. j - i - 1 \in T
    BY <1>7, <2>1
  <2> QED
    BY <2>1, <2>2 DEF T
<1>9. C(m, n) \in {-1, 0, 1} /\ C(m, n) + C(n, m) = 0 /\ C(n, m) \in {-1, 0, 1}
  BY <1>3, <1>4 DEF Opposite
<1>10. m < n => C(m, n) < 0
  BY <1>4, <1>8
<1>11. m > n => C(m, n) > 0
  <2>1. m > n => C(n, m) < 0
    BY <1>1, <1>4, <1>8
  <2> QED
    BY <1>9, <2>1
<1>12. m = n => C(m, n) = 0
  BY <1>9
<1> QED
  BY <1>9, <1>10, <1>11, <1>12 DEF C, R

--------------------------------------------------------------------------------
(* The cache of apt. *)

Keys == STRING \X STRING

\* Keys are pairs of strings.
LEMMA KeysAre ==
    /\ \A n \in STRING, a \in STRING : <<n, a>> \in Keys
    /\ \A x \in Keys : x[1] \in STRING /\ x[2] \in STRING /\ x = <<x[1], x[2]>>
<1>1. \A n \in STRING, a \in STRING : <<n, a>> \in Keys
  BY Zenon DEF Keys
<1>2. \A x \in Keys : x[1] \in STRING /\ x[2] \in STRING /\ x = <<x[1], x[2]>>
  BY DEF Keys
<1> QED
  BY <1>1, <1>2

\* An entry of the cache.
AptInfo ==
    [name : STRING, arch : STRING, multiArch : STRING, installed : BOOLEAN, candidate : BOOLEAN,
     version : Seq(Apt!Byte), file : STRING, repo : STRING, depends : Seq(STRING),
     preDepends : Seq(STRING)]

AptCaches ==
    [entries : Finitely(Keys, AptInfo), providers : Finitely(STRING, Seq(STRING)),
     byBareName : Finitely(STRING, Seq(Keys))]

\* A cache is known by its three fields.
LEMMA AptCacheIs ==
    ASSUME NEW entries, NEW providers, NEW bare, NEW c,
           c = [entries |-> entries, providers |-> providers, byBareName |-> bare]
    PROVE  /\ c.entries = entries /\ c.providers = providers /\ c.byBareName = bare
           /\ c \in AptCaches <=> /\ entries \in Finitely(Keys, AptInfo)
                                  /\ providers \in Finitely(STRING, Seq(STRING))
                                  /\ bare \in Finitely(STRING, Seq(Keys))
BY DEF AptCaches

\* The other way round.
LEMMA AptCacheHas ==
    ASSUME NEW c \in AptCaches
    PROVE  /\ c = [entries |-> c.entries, providers |-> c.providers, byBareName |-> c.byBareName]
           /\ c.entries \in Finitely(Keys, AptInfo)
           /\ c.providers \in Finitely(STRING, Seq(STRING))
           /\ c.byBareName \in Finitely(STRING, Seq(Keys))
BY DEF AptCaches

\* What is new and what is taken over stay finite.
LEMMA FinitelyMore ==
    ASSUME NEW A, NEW B, NEW D, IsFiniteSet(D), D \subseteq A, NEW f, f = [x \in D |-> f[x]],
           \A x \in D : f[x] \in B
    PROVE  f \in Finitely(A, B)
<1>1. f \in [D -> B] /\ DOMAIN f = D
  OBVIOUS
<1> QED
  BY <1>1, FinitelyIs

\* A function with a value put in, and what a function has of a name.
LEMMA PutIs ==
    ASSUME NEW A, NEW B, NEW f \in Finitely(A, B), NEW x \in A, NEW y \in B
    PROVE  /\ Apt!Put(f, x, y) \in Finitely(A, B)
           /\ DOMAIN Apt!Put(f, x, y) = DOMAIN f \cup {x}
           /\ Apt!Put(f, x, y)[x] = y
           /\ \A z \in DOMAIN f : z # x => Apt!Put(f, x, y)[z] = f[z]
<1> DEFINE g == [z \in DOMAIN f \cup {x} |-> IF z = x THEN y ELSE f[z]]
<1>1. Apt!Put(f, x, y) = g
  BY DEF Apt!Put
<1>2. IsFiniteSet(DOMAIN f) /\ DOMAIN f \subseteq A /\ \A z \in DOMAIN f : f[z] \in B
  BY FinitelyIs
<1>3. IsFiniteSet(DOMAIN f \cup {x})
  BY <1>2, FS_AddElement
<1>4. \A z \in DOMAIN f \cup {x} : g[z] \in B
  BY <1>2
<1>5. g = [z \in DOMAIN f \cup {x} |-> g[z]]
  OBVIOUS
<1>6. DOMAIN g = DOMAIN f \cup {x} /\ g[x] = y /\ \A z \in DOMAIN f : z # x => g[z] = f[z]
  OBVIOUS
<1> HIDE DEF g
<1>7. g \in Finitely(A, B)
  <2> DEFINE D == DOMAIN f \cup {x}
  <2>1. IsFiniteSet(D) /\ D \subseteq A /\ g = [z \in D |-> g[z]] /\ \A z \in D : g[z] \in B
    BY <1>2, <1>3, <1>4, <1>5
  <2> HIDE DEF D
  <2> QED
    BY <2>1, FinitelyMore
<1> QED
  BY <1>1, <1>6, <1>7

\* What a map from names to sequences has at a name.
LEMMA AtIs ==
    ASSUME NEW A, NEW S, NEW f \in Finitely(A, Seq(S)), NEW x
    PROVE  Apt!At(f, x) \in Seq(S)
BY FinitelyIs DEF Apt!At

\* The first alternatives of dependencies.
LEMMA ParseDependsIs ==
    ASSUME NEW deps \in Seq(Apt!Dependency)
    PROVE  Apt!ParseDependsField(deps) \in Seq(STRING)
<1>1. \A d \in Apt!Dependency : d.names[1] \in STRING
  BY DEF Apt!Dependency
<1>2. Len(deps) \in Nat /\ DOMAIN deps = 1..Len(deps) /\ \A n \in DOMAIN deps : deps[n] \in Apt!Dependency
  OBVIOUS
<1>3. \A n \in 1..Len(deps) : deps[n].names[1] \in STRING
  BY <1>1, <1>2
<1>4. Apt!ParseDependsField(deps) = [n \in 1..Len(deps) |-> deps[n].names[1]]
  BY <1>2 DEF Apt!ParseDependsField
<1> QED
  BY <1>2, <1>3, <1>4

\* Packages for every architecture have keys without one.
ArchFits(key, arch) == arch \in {"", "all"} <=> key[2] = ""

\* The key of a name and an architecture.
LEMMA EntryKeyIs ==
    ASSUME NEW name \in STRING, NEW arch \in STRING
    PROVE  /\ Apt!EntryKey(name, arch) \in Keys
           /\ Apt!EntryKey(name, arch)[1] = name
           /\ ArchFits(Apt!EntryKey(name, arch), arch)
<1> DEFINE a == IF arch \in {"", "all"} THEN "" ELSE arch
           key == <<name, a>>
<1>1. Apt!EntryKey(name, arch) = key
  BY DEF Apt!EntryKey
<1>2. a \in STRING /\ (arch \in {"", "all"} <=> a = "")
  <2>1. CASE arch \in {"", "all"}
    <3>1. a = ""
      BY <2>1
    <3>2. "" \in STRING
      BY ResolversAssumption
    <3> HIDE DEF a
    <3>3. a \in STRING
      BY <3>1, <3>2
    <3> QED
      BY <2>1, <3>1, <3>3
  <2>2. CASE arch \notin {"", "all"}
    <3>1. a = arch /\ arch # ""
      BY <2>2
    <3> HIDE DEF a
    <3> QED
      BY <2>2, <3>1
  <2> QED
    BY <2>1, <2>2
<1> HIDE DEF a
<1>3. key \in Keys /\ key[1] = name /\ key[2] = a
  BY <1>2, KeysAre
<1> HIDE DEF key
<1> QED
  BY <1>1, <1>2, <1>3 DEF ArchFits

\* A stanza makes an entry out of an entry.
LEMMA MergePackageIs ==
    ASSUME NEW e \in AptInfo, NEW s \in Apt!Stanza, NEW dpkg \in BOOLEAN, NEW repo \in STRING
    PROVE  LET n == Apt!MergePackageInfo(e, s, dpkg, repo)
               stays == s.version = <<>>
                        \/ (e.version # <<>> /\ Apt!CompareDebVersion(s.version, e.version) <= 0)
           IN  /\ n \in AptInfo
               /\ n.arch = IF s.arch # "" THEN s.arch ELSE e.arch
               /\ stays => n.version = e.version /\ n.file = e.file /\ n.repo = e.repo
               /\ ~stays => /\ n.version = s.version
                            /\ n.file = IF s.file # "" THEN s.file ELSE e.file
                            /\ n.repo = IF repo # "" THEN repo ELSE e.repo
<1> DEFINE stays == s.version = <<>>
                    \/ (e.version # <<>> /\ Apt!CompareDebVersion(s.version, e.version) <= 0)
           arch == IF s.arch # "" THEN s.arch ELSE e.arch
           multi == IF s.multiArch # "" THEN s.multiArch ELSE e.multiArch
           installed == e.installed \/ (dpkg /\ s.installed)
           candidate == e.candidate \/ s.version # <<>>
           file == IF s.file # "" THEN s.file ELSE e.file
           url == IF repo # "" THEN repo ELSE e.repo
           depends == IF s.depends # <<>> THEN Apt!ParseDependsField(s.depends) ELSE e.depends
           pre == IF s.preDepends # <<>> THEN Apt!ParseDependsField(s.preDepends) ELSE e.preDepends
           version == s.version
           seen == [e EXCEPT !.name = s.name, !.arch = arch, !.multiArch = multi,
                             !.installed = installed, !.candidate = candidate]
           new == [seen EXCEPT !.version = version, !.file = file, !.repo = url,
                               !.depends = depends, !.preDepends = pre]
<1>1. Apt!MergePackageInfo(e, s, dpkg, repo) = IF stays THEN seen ELSE new
  BY DEF Apt!MergePackageInfo, Apt!CopyStanzaArtifacts
<1>2. /\ s.name \in STRING /\ s.arch \in STRING /\ s.multiArch \in STRING /\ s.file \in STRING
      /\ version \in Seq(Apt!Byte) /\ s.installed \in BOOLEAN
      /\ s.depends \in Seq(Apt!Dependency) /\ s.preDepends \in Seq(Apt!Dependency)
  BY DEF Apt!Stanza
<1>3. /\ e.arch \in STRING /\ e.multiArch \in STRING /\ e.file \in STRING /\ e.repo \in STRING
      /\ e.depends \in Seq(STRING) /\ e.preDepends \in Seq(STRING)
  BY DEF AptInfo
<1>4. /\ arch \in STRING /\ multi \in STRING /\ file \in STRING /\ url \in STRING
      /\ installed \in BOOLEAN /\ candidate \in BOOLEAN
  BY <1>2, <1>3
<1>5. depends \in Seq(STRING) /\ pre \in Seq(STRING)
  BY <1>2, <1>3, ParseDependsIs
<1> HIDE DEF arch, multi, installed, candidate, file, url, depends, pre, version
<1>6. /\ seen \in AptInfo /\ seen.arch = arch
      /\ seen.version = e.version /\ seen.file = e.file /\ seen.repo = e.repo
  BY <1>2, <1>4 DEF AptInfo
<1> HIDE DEF seen
<1>7. /\ new \in AptInfo /\ new.arch = seen.arch
      /\ new.version = version /\ new.file = file /\ new.repo = url
  BY <1>2, <1>4, <1>5, <1>6 DEF AptInfo
<1> HIDE DEF new, stays
<1>8. CASE stays
  BY <1>1, <1>6, <1>8 DEF stays, arch
<1>9. CASE ~stays
  BY <1>1, <1>6, <1>7, <1>9 DEF stays, arch, version, file, url
<1> QED
  BY <1>8, <1>9

\* A longer sequence.
LEMMA AppendIs ==
    ASSUME NEW A, NEW s \in Seq(A), NEW x \in A
    PROVE  Append(s, x) \in Seq(A)
OBVIOUS

\* Keys that begin with the same name and fit the same architecture.
LEMMA FreshIs ==
    ASSUME NEW name \in STRING
    PROVE  /\ Apt!Fresh(name) \in AptInfo /\ Apt!Fresh(name).version = <<>>
           /\ Apt!Fresh(name).arch = ""
<1> DEFINE v == <<>>   d == <<>>   p == <<>>
           fresh == [name |-> name, arch |-> "", multiArch |-> "", installed |-> FALSE,
                     candidate |-> FALSE, version |-> v, file |-> "", repo |-> "",
                     depends |-> d, preDepends |-> p]
<1>1. Apt!Fresh(name) = fresh
  BY DEF Apt!Fresh
<1>2. v \in Seq(Apt!Byte) /\ d \in Seq(STRING) /\ p \in Seq(STRING)
  BY ShortSeq
<1>3. "" \in STRING
  BY ResolversAssumption
<1>4. v = <<>>
  OBVIOUS
<1> HIDE DEF v, d, p
<1>5. fresh \in AptInfo /\ fresh.version = v /\ fresh.arch = ""
  BY <1>2, <1>3 DEF AptInfo
<1> HIDE DEF fresh
<1> QED
  BY <1>1, <1>4, <1>5

\* Stanzas that provide something provide it by their name.
LEMMA FlushProvidesIs ==
    ASSUME NEW c \in AptCaches, NEW s \in Apt!Stanza
    PROVE  /\ Apt!FlushProvides(c, s) \in AptCaches
           /\ Apt!FlushProvides(c, s).entries = c.entries
<1> DEFINE old == c.providers
           virtuals == Range(s.provides)
           By(v) == [n \in DOMAIN Apt!Kept(s.provides, {v}) |-> s.name]
           new == [v \in DOMAIN old \cup virtuals |-> Apt!At(old, v) \o By(v)]
           next == [c EXCEPT !.providers = new]
<1>1. Apt!FlushProvides(c, s) = next
  BY DEF Apt!FlushProvides, Apt!Range, Range
<1>2. old \in Finitely(STRING, Seq(STRING))
  BY AptCacheHas
<1>3. s.provides \in Seq(STRING) /\ s.name \in STRING
  BY DEF Apt!Stanza
<1>4. IsFiniteSet(virtuals) /\ virtuals \subseteq STRING
  BY <1>3, FiniteRange
<1> HIDE DEF old, virtuals
<1>5. ASSUME NEW v PROVE By(v) \in Seq(STRING)
  <2> DEFINE k == Apt!Kept(s.provides, {v})
  <2>1. k \in Seq(STRING)
    <3>1. Kept(s.provides, {v}) \in Seq(STRING)
      BY <1>3, KeptElements
    <3> QED
      BY <3>1, SameKept
  <2> HIDE DEF k
  <2>2. DOMAIN k = 1..Len(k) /\ Len(k) \in Nat
    BY <2>1
  <2>3. [n \in DOMAIN k |-> s.name] \in Seq(STRING)
    BY <1>3, <2>2
  <2> QED
    BY <2>3 DEF k
<1> HIDE DEF By
<1>6. \A v : Apt!At(old, v) \in Seq(STRING)
  BY <1>2, AtIs
<1>7. \A v : Apt!At(old, v) \o By(v) \in Seq(STRING)
  BY <1>5, <1>6
<1>8. new \in Finitely(STRING, Seq(STRING))
  <2> DEFINE D == DOMAIN old \cup virtuals
  <2>1. IsFiniteSet(D) /\ D \subseteq STRING
    <3>1. IsFiniteSet(DOMAIN old) /\ DOMAIN old \subseteq STRING
      BY <1>2, FinitelyIs
    <3> QED
      BY <1>4, <3>1, FS_Union
  <2>2. \A v \in D : new[v] \in Seq(STRING)
    BY <1>7
  <2>3. new = [v \in D |-> new[v]]
    OBVIOUS
  <2> HIDE DEF D, new
  <2> QED
    BY <2>1, <2>2, <2>3, FinitelyMore
<1> HIDE DEF new
<1>9. next \in AptCaches /\ next.entries = c.entries
  BY <1>8 DEF AptCaches
<1> QED
  BY <1>1, <1>9

\* The keys by bare name leave the entries alone.
LEMMA AddToBareNameIs ==
    ASSUME NEW c \in AptCaches, NEW name \in STRING, NEW key \in Keys
    PROVE  /\ Apt!AddToBareName(c, name, key) \in AptCaches
           /\ Apt!AddToBareName(c, name, key).entries = c.entries
<1> DEFINE old == c.byBareName
           new == Apt!Put(old, name, Append(Apt!At(old, name), key))
           next == [c EXCEPT !.byBareName = new]
<1>1. Apt!AddToBareName(c, name, key) = IF key[2] = "" THEN c ELSE next
  BY DEF Apt!AddToBareName
<1>2. old \in Finitely(STRING, Seq(Keys))
  BY AptCacheHas
<1> HIDE DEF old
<1>3. Append(Apt!At(old, name), key) \in Seq(Keys)
  <2>1. Apt!At(old, name) \in Seq(Keys)
    BY <1>2, AtIs
  <2> QED
    BY <2>1, AppendIs
<1>4. new \in Finitely(STRING, Seq(Keys))
  BY <1>2, <1>3, PutIs
<1> HIDE DEF new
<1>5. next \in AptCaches /\ next.entries = c.entries
  BY <1>4 DEF AptCaches
<1> HIDE DEF next
<1> QED
  BY <1>1, <1>5

\* What a stanza was before, if its key is known.
Before(c, s) ==
    IF Apt!EntryKey(s.name, s.arch) \in DOMAIN c.entries
    THEN c.entries[Apt!EntryKey(s.name, s.arch)] ELSE Apt!Fresh(s.name)

\* A stanza changes the entry of its key.
LEMMA FlushStanzaIs ==
    ASSUME NEW c \in AptCaches, NEW s \in Apt!Stanza, NEW dpkg \in BOOLEAN, NEW repo \in STRING
    PROVE  LET next == Apt!FlushStanza(c, s, dpkg, repo)
               key == Apt!EntryKey(s.name, s.arch)
           IN  /\ next \in AptCaches
               /\ Before(c, s) \in AptInfo
               /\ DOMAIN next.entries = DOMAIN c.entries \cup {key}
               /\ next.entries[key] = Apt!MergePackageInfo(Before(c, s), s, dpkg, repo)
               /\ \A k \in DOMAIN c.entries : k # key => next.entries[k] = c.entries[k]
<1> DEFINE key == Apt!EntryKey(s.name, s.arch)
           info == Apt!MergePackageInfo(Before(c, s), s, dpkg, repo)
           old == c.entries
           entries == Apt!Put(old, key, info)
           mid == [c EXCEPT !.entries = entries]
           next == Apt!FlushStanza(c, s, dpkg, repo)
<1>1. next = Apt!AddToBareName(Apt!FlushProvides(mid, s), s.name, key)
  BY DEF Apt!FlushStanza, Before
<1>2. s.name \in STRING /\ s.arch \in STRING
  BY DEF Apt!Stanza
<1>3. key \in Keys
  BY <1>2, EntryKeyIs
<1>4. old \in Finitely(Keys, AptInfo)
  BY AptCacheHas
<1>5. Before(c, s) \in AptInfo
  <2>1. \A k \in DOMAIN old : old[k] \in AptInfo
    <3> HIDE DEF old
    <3> QED
      BY <1>4, FinitelyIs
  <2> QED
    BY <1>2, <2>1, FreshIs DEF Before
<1>6. info \in AptInfo
  BY <1>5, MergePackageIs
<1> HIDE DEF key, info, old, next
<1>7. /\ entries \in Finitely(Keys, AptInfo)
      /\ DOMAIN entries = DOMAIN old \cup {key}
      /\ entries[key] = info
      /\ \A k \in DOMAIN old : k # key => entries[k] = old[k]
  BY <1>3, <1>4, <1>6, PutIs
<1> HIDE DEF entries
<1>8. mid \in AptCaches /\ mid.entries = entries
  BY <1>7 DEF AptCaches
<1> HIDE DEF mid
<1>9. Apt!FlushProvides(mid, s) \in AptCaches /\ Apt!FlushProvides(mid, s).entries = entries
  BY <1>8, FlushProvidesIs
<1>10. next \in AptCaches /\ next.entries = entries
  BY <1>1, <1>2, <1>3, <1>9, AddToBareNameIs
<1> QED
  BY <1>5, <1>7, <1>10 DEF key, info, old, next

\* Versions of packages, older or newer by their rank.
LEMMA RankIs ==
    ASSUME NEW v \in Range(Ranked), NEW w \in Range(Ranked)
    PROVE  /\ Rank(v) \in Nat /\ Rank(w) \in Nat
           /\ Apt!CompareDebVersion(v, w) <= 0 <=> Rank(v) <= Rank(w)
           /\ Apt!CompareDebVersion(v, w) >= 0 <=> Rank(v) >= Rank(w)
           /\ v # <<>> /\ v \in Seq(Apt!Byte)
           /\ Rank(v) = Rank(w) => v = w
<1> DEFINE R == Ranked   m == Rank(v)   n == Rank(w)   S == Seq(Apt!Byte) \ {<<>>}
           compared == Apt!CompareDebVersion(v, w)
<1>1. R \in Seq(S)
  BY RankedAssumption
<1>2. m \in DOMAIN R /\ R[m] = v
  <2>1. \E k \in DOMAIN R : R[k] = v
    BY DEF Range
  <2> QED
    BY <2>1 DEF Rank
<1>3. n \in DOMAIN R /\ R[n] = w
  <2>1. \E k \in DOMAIN R : R[k] = w
    BY DEF Range
  <2> QED
    BY <2>1 DEF Rank
<1>4. /\ compared \in Int
      /\ m < n => compared < 0
      /\ m = n => compared = 0
      /\ m > n => compared > 0
  BY <1>2, <1>3, RankedIsOrdered
<1> HIDE DEF R, m, n, S, compared
<1>5. m \in Nat /\ n \in Nat /\ v \in S
  BY <1>1, <1>2, <1>3
<1>6. v # <<>> /\ v \in Seq(Apt!Byte)
  BY <1>5 DEF S
<1>7. m = n => v = w
  BY <1>2, <1>3
<1>8. (compared <= 0 <=> m <= n) /\ (compared >= 0 <=> m >= n)
  BY <1>4, <1>5
<1> QED
  BY <1>5, <1>6, <1>7, <1>8 DEF m, n, compared

\* The order of ranks.
LEMMA AtMostSelf ==
    ASSUME NEW i \in Nat
    PROVE  i <= i
OBVIOUS

\* At most less than what is more.
LEMMA AtMostLess ==
    ASSUME NEW i \in Nat, NEW j \in Nat, NEW k \in Nat, i <= j, ~(k <= j)
    PROVE  i <= k
OBVIOUS

\* At most what is at most.
LEMMA AtMostBoth ==
    ASSUME NEW i \in Nat, NEW j \in Nat, NEW k \in Nat, i <= j, k >= j
    PROVE  i <= k
OBVIOUS

\* At most what is above.
LEMMA AtMostBelow ==
    ASSUME NEW i \in Nat, NEW j \in Nat, NEW k \in Nat, i <= j, ~(j >= k)
    PROVE  i <= k
OBVIOUS

\* Not below what is at least as much.
LEMMA AtMostAtLeast ==
    ASSUME NEW i \in Nat, NEW j \in Nat, NEW k \in Nat, i <= j, ~(i < k)
    PROVE  k <= j
OBVIOUS

\* What is offered: stanzas with a version and a file.
VersionOf(o) == o.stanza.version
FileOf(o) == o.stanza.file
UrlOf(o) == o.repo
KeyOf(o) == Apt!EntryKey(o.stanza.name, o.stanza.arch)
IsOffer(o) == VersionOf(o) \in Range(Ranked) /\ FileOf(o) # ""

\* Of the offers, those for a key.
AptOf(Offers, key) == {o \in Offers : KeyOf(o) = key}

\* A version with its file and URL is the newest that is offered.
Newest(key, version, file, url, offers) ==
    /\ version \in Range(Ranked)
    /\ \A o \in offers : Rank(VersionOf(o)) <= Rank(version)
    /\ \E o \in offers : /\ VersionOf(o) = version
                         /\ FileOf(o) = file
                         /\ key[2] # "" /\ UrlOf(o) # "" => UrlOf(o) = url

\* It stays so if nothing newer is offered.
LEMMA NewestStays ==
    ASSUME NEW key, NEW v, NEW f, NEW u, NEW S, NEW T, Newest(key, v, f, u, S),
           \A o \in T : Rank(VersionOf(o)) <= Rank(v)
    PROVE  Newest(key, v, f, u, S \cup T)
BY DEF Newest

\* The newest of what is offered later is the newest if it is not older.
LEMMA NewestTaken ==
    ASSUME NEW key, NEW v, NEW f, NEW u, NEW r, NEW S, NEW T, Newest(key, v, f, u, T),
           \A o \in S : Rank(VersionOf(o)) <= Rank(v),
           key[2] # "" /\ u # "" => r = u
    PROVE  Newest(key, v, f, r, S \cup T)
<1>1. PICK o \in T : /\ VersionOf(o) = v /\ FileOf(o) = f
                     /\ key[2] # "" /\ UrlOf(o) # "" => UrlOf(o) = u
  BY DEF Newest
<1>2. key[2] # "" /\ UrlOf(o) # "" => UrlOf(o) = r
  BY <1>1
<1> QED
  BY <1>1, <1>2 DEF Newest

\* An entry of the cache, as far as it is about what is offered.
VersionIs(key, e, offers) ==
    /\ offers = {} => e.version = <<>>
    /\ offers # {} => Newest(key, e.version, e.file, e.repo, offers)
EntryIs(key, e, offers) == ArchFits(key, e.arch) /\ VersionIs(key, e, offers)

AptBest(entries, Offers) ==
    \A key : /\ AptOf(Offers, key) # {} => key \in DOMAIN entries
             /\ key \in DOMAIN entries => EntryIs(key, entries[key], AptOf(Offers, key))

\* What a stanza of a list offers.
OfferedBy(s, repo) == IF s.version = <<>> THEN {} ELSE {[stanza |-> s, repo |-> repo]}

IsListed(s) ==
    /\ s \in Apt!Stanza
    /\ s.version \in {<<>>} \cup Range(Ranked)
    /\ s.version # <<>> => s.file # ""

\* A stanza with a version is an offer.
LEMMA OfferedByIs ==
    ASSUME NEW s, IsListed(s), NEW repo
    PROVE  /\ s.version = <<>> => OfferedBy(s, repo) = {}
           /\ s.version # <<>> =>
                 \E o : /\ OfferedBy(s, repo) = {o} /\ IsOffer(o)
                        /\ VersionOf(o) = s.version /\ FileOf(o) = s.file /\ UrlOf(o) = repo
           /\ \A o \in OfferedBy(s, repo) : KeyOf(o) = Apt!EntryKey(s.name, s.arch) /\ IsOffer(o)
<1> DEFINE o == [stanza |-> s, repo |-> repo]
<1>1. s.version # <<>> => OfferedBy(s, repo) = {o}
  BY DEF OfferedBy
<1>2. s.version = <<>> => OfferedBy(s, repo) = {}
  BY DEF OfferedBy
<1>3. /\ VersionOf(o) = s.version /\ FileOf(o) = s.file /\ UrlOf(o) = repo
      /\ KeyOf(o) = Apt!EntryKey(s.name, s.arch)
  BY DEF VersionOf, FileOf, UrlOf, KeyOf
<1> HIDE DEF o
<1>4. s.version # <<>> => IsOffer(o)
  BY <1>3 DEF IsOffer, IsListed
<1> QED
  BY <1>1, <1>2, <1>3, <1>4

\* The entry of a stanza's key, after it was merged.
LEMMA MergedIs ==
    ASSUME NEW s, IsListed(s), NEW repo \in STRING, NEW b \in AptInfo, NEW S,
           \A o \in S : IsOffer(o),
           VersionIs(Apt!EntryKey(s.name, s.arch), b, S),
           s.arch = "" => ArchFits(Apt!EntryKey(s.name, s.arch), b.arch)
    PROVE  EntryIs(Apt!EntryKey(s.name, s.arch), Apt!MergePackageInfo(b, s, FALSE, repo),
                   S \cup OfferedBy(s, repo))
<1> DEFINE key == Apt!EntryKey(s.name, s.arch)
           n == Apt!MergePackageInfo(b, s, FALSE, repo)
           T == OfferedBy(s, repo)
           stays == s.version = <<>>
                    \/ (b.version # <<>> /\ Apt!CompareDebVersion(s.version, b.version) <= 0)
<1>1. /\ n.arch = IF s.arch # "" THEN s.arch ELSE b.arch
      /\ stays => n.version = b.version /\ n.file = b.file /\ n.repo = b.repo
      /\ ~stays => /\ n.version = s.version
                   /\ n.file = IF s.file # "" THEN s.file ELSE b.file
                   /\ n.repo = IF repo # "" THEN repo ELSE b.repo
  BY MergePackageIs DEF IsListed
<1>2. s.name \in STRING /\ s.arch \in STRING
  BY DEF IsListed, Apt!Stanza
<1>3. ArchFits(key, s.arch)
  BY <1>2, EntryKeyIs
<1>4. /\ s.arch = "" => ArchFits(key, b.arch)
      /\ S = {} => b.version = <<>>
      /\ S # {} => Newest(key, b.version, b.file, b.repo, S)
  BY DEF VersionIs
<1>5. /\ s.version \in {<<>>} \cup Range(Ranked)
      /\ s.version # <<>> => s.file # ""
  BY DEF IsListed
<1> HIDE DEF key, n
<1>6. ArchFits(key, n.arch)
  BY <1>1, <1>3, <1>4
<1>7. CASE s.version = <<>>
  <2>1. T = {}
    BY <1>7, OfferedByIs
  <2>2. S \cup T = S
    BY <2>1
  <2>3. n.version = b.version /\ n.file = b.file /\ n.repo = b.repo
    BY <1>1, <1>7
  <2>4. EntryIs(key, n, S)
    BY <1>4, <1>6, <2>3 DEF EntryIs, VersionIs
  <2> QED
    BY <2>2, <2>4 DEF key, n
<1>8. CASE s.version # <<>>
  <2>1. PICK o : /\ T = {o} /\ VersionOf(o) = s.version /\ FileOf(o) = s.file /\ UrlOf(o) = repo
    BY <1>8, OfferedByIs
  <2> HIDE DEF T
  <2>2. s.version \in Range(Ranked) /\ s.file # ""
    BY <1>5, <1>8
  <2>3. Rank(s.version) \in Nat
    BY <2>2, RankIs
  <2>4. CASE stays
    <3>1. b.version # <<>> /\ Apt!CompareDebVersion(s.version, b.version) <= 0
      BY <1>8, <2>4
    <3>2. S # {} /\ Newest(key, b.version, b.file, b.repo, S)
      BY <1>4, <3>1
    <3>3. b.version \in Range(Ranked)
      BY <3>2 DEF Newest
    <3>4. Rank(s.version) <= Rank(b.version)
      BY <2>2, <3>1, <3>3, RankIs
    <3>5. \A p \in T : Rank(VersionOf(p)) <= Rank(b.version)
      BY <2>1, <3>4
    <3>6. Newest(key, b.version, b.file, b.repo, S \cup T)
      BY <3>2, <3>5, NewestStays
    <3>7. Newest(key, n.version, n.file, n.repo, S \cup T)
      BY <1>1, <2>4, <3>6
    <3>8. EntryIs(key, n, S \cup T)
      BY <1>6, <2>1, <3>7 DEF EntryIs, VersionIs
    <3> QED
      BY <3>8 DEF key, n, T
  <2>5. CASE ~stays
    <3>1. n.version = s.version /\ n.file = s.file /\ (repo # "" => n.repo = repo)
      BY <1>1, <2>2, <2>5
    <3>2. \A p \in S : Rank(VersionOf(p)) <= Rank(s.version)
      <4>1. CASE S = {}
        BY <4>1
      <4>2. CASE S # {}
        <5>1. Newest(key, b.version, b.file, b.repo, S)
          BY <1>4, <4>2
        <5>2. b.version \in Range(Ranked) /\ \A p \in S : Rank(VersionOf(p)) <= Rank(b.version)
          BY <5>1 DEF Newest
        <5>3. b.version # <<>> /\ Rank(b.version) \in Nat
          BY <5>2, RankIs
        <5>4. ~(Rank(s.version) <= Rank(b.version))
          BY <2>2, <2>5, <5>2, <5>3, RankIs
        <5>5. \A p \in S : Rank(VersionOf(p)) \in Nat
          BY RankIs DEF IsOffer
        <5> SUFFICES ASSUME NEW p \in S
                     PROVE  Rank(VersionOf(p)) <= Rank(s.version)
          OBVIOUS
        <5> DEFINE i == Rank(VersionOf(p))
                   j == Rank(b.version)
                   k == Rank(s.version)
        <5>6. i \in Nat /\ j \in Nat /\ k \in Nat
          BY <2>3, <5>3, <5>5
        <5>7. i <= j /\ ~(k <= j)
          BY <5>2, <5>4
        <5> HIDE DEF i, j, k
        <5>8. i <= k
          BY <5>6, <5>7, AtMostLess
        <5> QED
          BY <5>8 DEF i, k
      <4> QED
        BY <4>1, <4>2
    <3>3. Newest(key, s.version, s.file, repo, T)
      <4> DEFINE v == s.version
                 f == s.file
      <4>1. Rank(v) <= Rank(v)
        BY <2>3, AtMostSelf
      <4>2. VersionOf(o) = v /\ FileOf(o) = f /\ UrlOf(o) = repo /\ v \in Range(Ranked) /\ f # ""
        BY <2>1, <2>2
      <4> HIDE DEF v, f
      <4>3. \A p \in T : Rank(VersionOf(p)) <= Rank(v)
        BY <2>1, <4>1, <4>2
      <4>4. Newest(key, v, f, repo, T)
        BY <2>1, <4>2, <4>3 DEF Newest
      <4> QED
        BY <4>4 DEF v, f
    <3>4. Newest(key, n.version, n.file, n.repo, S \cup T)
      BY <3>1, <3>2, <3>3, NewestTaken
    <3>5. EntryIs(key, n, S \cup T)
      BY <1>6, <2>1, <3>4 DEF EntryIs, VersionIs
    <3> QED
      BY <3>5 DEF key, n, T
  <2> QED
    BY <2>4, <2>5
<1> QED
  BY <1>7, <1>8

\* A stanza of a list keeps the best of each key.
LEMMA FlushBest ==
    ASSUME NEW c \in AptCaches, NEW s, IsListed(s), NEW repo \in STRING, NEW Offers,
           \A o \in Offers : IsOffer(o), AptBest(c.entries, Offers)
    PROVE  AptBest(Apt!FlushStanza(c, s, FALSE, repo).entries, Offers \cup OfferedBy(s, repo))
<1> DEFINE next == Apt!FlushStanza(c, s, FALSE, repo)
           new == next.entries
           old == c.entries
           key == Apt!EntryKey(s.name, s.arch)
           b == Before(c, s)
           T == OfferedBy(s, repo)
<1>1. /\ b \in AptInfo
      /\ DOMAIN new = DOMAIN old \cup {key}
      /\ new[key] = Apt!MergePackageInfo(b, s, FALSE, repo)
      /\ \A k \in DOMAIN old : k # key => new[k] = old[k]
  BY ZenonT(30), FlushStanzaIs DEF IsListed
<1>2. \A k : /\ AptOf(Offers, k) # {} => k \in DOMAIN old
             /\ k \in DOMAIN old => EntryIs(k, old[k], AptOf(Offers, k))
  BY DEF AptBest
<1>3. /\ VersionIs(key, b, AptOf(Offers, key))
      /\ s.arch = "" => ArchFits(key, b.arch)
  <2>1. CASE key \in DOMAIN old
    BY <1>2, <2>1 DEF Before, EntryIs
  <2>2. CASE key \notin DOMAIN old
    <3>1. AptOf(Offers, key) = {}
      BY <1>2, <2>2
    <3>2. b = Apt!Fresh(s.name)
      BY <2>2 DEF Before
    <3>3. s.name \in STRING /\ s.arch \in STRING
      BY DEF IsListed, Apt!Stanza
    <3>4. b.version = <<>> /\ b.arch = ""
      BY <3>2, <3>3, FreshIs
    <3>5. s.arch = "" => ArchFits(key, b.arch)
      BY <3>3, <3>4, EntryKeyIs
    <3> QED
      BY <3>1, <3>4, <3>5 DEF VersionIs
  <2> QED
    BY <2>1, <2>2
<1>4. \A o \in AptOf(Offers, key) : IsOffer(o)
  BY DEF AptOf
<1>5. EntryIs(key, new[key], AptOf(Offers, key) \cup T)
  <2> HIDE DEF b, T, next
  <2> DEFINE S == AptOf(Offers, key)
  <2> HIDE DEF S
  <2>1. VersionIs(key, b, S) /\ (s.arch = "" => ArchFits(key, b.arch)) /\ \A o \in S : IsOffer(o)
    BY <1>3, <1>4 DEF S
  <2>2. EntryIs(key, Apt!MergePackageInfo(b, s, FALSE, repo), S \cup T)
    BY <1>1, <2>1, MergedIs DEF T
  <2> QED
    BY <1>1, <2>2 DEF S
<1>6. \A o \in T : KeyOf(o) = key
  BY OfferedByIs
<1> HIDE DEF key, b, T, next, new, old
<1>7. AptOf(Offers \cup T, key) = AptOf(Offers, key) \cup T
  BY <1>6 DEF AptOf
<1>8. \A k : k # key => AptOf(Offers \cup T, k) = AptOf(Offers, k)
  BY <1>6 DEF AptOf
<1>9. ASSUME NEW k
      PROVE  /\ AptOf(Offers \cup T, k) # {} => k \in DOMAIN new
             /\ k \in DOMAIN new => EntryIs(k, new[k], AptOf(Offers \cup T, k))
  <2>1. CASE k = key
    BY <1>1, <1>5, <1>7, <2>1
  <2>2. CASE k # key
    BY <1>1, <1>2, <1>8, <2>2
  <2> QED
    BY <2>1, <2>2
<1>10. AptBest(new, Offers \cup T)
  BY <1>9 DEF AptBest
<1> QED
  BY <1>10 DEF new, next, T

\* The recursion of ParseFile has a trace.
ParseTrace(f, c, stanzas, dpkg, repo) ==
    /\ f[0] = c
    /\ \A n \in 0..Len(stanzas) : n < Len(stanzas) => f[n + 1] = Apt!FlushStanza(f[n], stanzas[n + 1], dpkg, repo)

\* ParseFile goes from stanza to stanza.
LEMMA ParseFileHasTrace ==
    ASSUME NEW c, NEW stanzas, NEW dpkg, NEW repo, Len(stanzas) \in Nat
    PROVE  \E f : ParseTrace(f, c, stanzas, dpkg, repo) /\ Apt!ParseFile(c, stanzas, dpkg, repo) = f[Len(stanzas)]
<1> DEFINE N == Len(stanzas)
           Rule(f, m) == f = [n \in 0..m |-> IF n = 0 THEN c ELSE Apt!FlushStanza(f[n - 1], stanzas[n], dpkg, repo)]
           T == {m \in 0..N : \E f : Rule(f, m)}
<1>1. 0 \in T
  <2> DEFINE g == [n \in 0..0 |-> c]
  <2>1. Rule(g, 0)
    OBVIOUS
  <2> HIDE DEF g, Rule
  <2>2. \E h : Rule(h, 0)
    BY <2>1
  <2> QED
    BY <2>2
<1>2. ASSUME NEW m \in 0..N, m < N, m \in T PROVE m + 1 \in T
  <2>1. PICK f : Rule(f, m)
    BY <1>2
  <2> DEFINE g == [n \in 0..(m + 1) |-> IF n = m + 1 THEN Apt!FlushStanza(f[m], stanzas[n], dpkg, repo) ELSE f[n]]
  <2>2. \A n \in 0..(m + 1) : g[n] = IF n = 0 THEN c ELSE Apt!FlushStanza(g[n - 1], stanzas[n], dpkg, repo)
    BY <2>1
  <2>3. Rule(g, m + 1)
    BY <2>2
  <2> HIDE DEF g, Rule
  <2>4. \E h : Rule(h, m + 1)
    BY <2>3
  <2>5. m + 1 \in 0..N
    BY <1>2
  <2> QED
    BY <2>4, <2>5
<1>3. N \in T
  <2> HIDE DEF T
  <2>1. 0..N \subseteq T
    BY <1>1, <1>2, UpTo
  <2> QED
    BY <2>1
<1>4. \E f : Rule(f, N)
  BY <1>3
<1> DEFINE f == CHOOSE f : Rule(f, N)
<1>5. Rule(f, N)
  BY <1>4
<1>6. Apt!ParseFile(c, stanzas, dpkg, repo) = f[N]
  BY DEF Apt!ParseFile
<1> HIDE DEF f
<1>7. ParseTrace(f, c, stanzas, dpkg, repo)
  BY <1>5 DEF ParseTrace
<1> QED
  BY <1>6, <1>7

\* An empty cache is the best of nothing.
LEMMA EmptyCacheIs ==
    Apt!NewEmptyCache \in AptCaches /\ AptBest(Apt!NewEmptyCache.entries, {})
<1> DEFINE e == <<>>   p == <<>>   b == <<>>
           c == [entries |-> e, providers |-> p, byBareName |-> b]
<1>1. Apt!NewEmptyCache = c
  BY DEF Apt!NewEmptyCache
<1>2. e \in Finitely(Keys, AptInfo) /\ p \in Finitely(STRING, Seq(STRING)) /\ b \in Finitely(STRING, Seq(Keys))
  <2>1. IsFiniteSet({})
    BY FS_EmptySet
  <2>2. DOMAIN <<>> = {}
    OBVIOUS
  <2>3. <<>> \in [{} -> AptInfo] /\ <<>> \in [{} -> Seq(STRING)] /\ <<>> \in [{} -> Seq(Keys)]
    OBVIOUS
  <2> QED
    BY <2>1, <2>2, <2>3, FinitelyIs
<1>3. DOMAIN e = {}
  OBVIOUS
<1> HIDE DEF e, p, b
<1>4. c \in AptCaches /\ c.entries = e
  BY <1>2, AptCacheIs
<1> HIDE DEF c
<1>5. AptBest(e, {})
  BY <1>3 DEF AptBest, AptOf
<1> QED
  BY <1>1, <1>4, <1>5

\* What a list offers, and what several do.
ListOffers(list) == {[stanza |-> s, repo |-> list.repo] : s \in {t \in Range(list.stanzas) : t.version # <<>>}}

Offering(stanzas, repo, i) == UNION {OfferedBy(stanzas[j], repo) : j \in 1..i}

\* A stanza more.
LEMMA OfferingMore ==
    ASSUME NEW stanzas, NEW repo, NEW i \in Nat
    PROVE  Offering(stanzas, repo, i + 1) = Offering(stanzas, repo, i) \cup OfferedBy(stanzas[i + 1], repo)
<1>1. \A j \in 1..(i + 1) : j \in 1..i \/ j = i + 1
  OBVIOUS
<1>2. \A j \in 1..i : j \in 1..(i + 1)
  OBVIOUS
<1>3. i + 1 \in 1..(i + 1)
  OBVIOUS
<1> QED
  BY <1>1, <1>2, <1>3 DEF Offering

\* All stanzas.
LEMMA OfferingAll ==
    ASSUME NEW list, NEW S, list.stanzas \in Seq(S)
    PROVE  Offering(list.stanzas, list.repo, Len(list.stanzas)) = ListOffers(list)
<1> DEFINE q == list.stanzas   r == list.repo
<1>1. DOMAIN q = 1..Len(q)
  OBVIOUS
<1>2. Range(q) = {q[j] : j \in 1..Len(q)}
  BY <1>1 DEF Range
<1>3. ListOffers(list) = {[stanza |-> s, repo |-> r] : s \in {t \in Range(q) : t.version # <<>>}}
  BY DEF ListOffers
<1> HIDE DEF q, r
<1>4. Offering(q, r, Len(q)) = UNION {OfferedBy(s, r) : s \in Range(q)}
  BY <1>2 DEF Offering
<1>5. UNION {OfferedBy(s, r) : s \in Range(q)} = {[stanza |-> s, repo |-> r] : s \in {t \in Range(q) : t.version # <<>>}}
  BY DEF OfferedBy
<1> QED
  BY <1>3, <1>4, <1>5 DEF q, r

\* A list that is parsed offers the best of each key.
LEMMA ParseListIs ==
    ASSUME NEW stanzas \in Seq(Apt!Stanza), \A s \in Range(stanzas) : IsListed(s), NEW repo \in STRING
    PROVE  LET next == Apt!ParseFile(Apt!NewEmptyCache, stanzas, FALSE, repo)
           IN  /\ next \in AptCaches
               /\ AptBest(next.entries, Offering(stanzas, repo, Len(stanzas)))
               /\ \A o \in Offering(stanzas, repo, Len(stanzas)) : IsOffer(o)
<1> DEFINE c == Apt!NewEmptyCache
<1>1. PICK f : ParseTrace(f, c, stanzas, FALSE, repo)
               /\ Apt!ParseFile(c, stanzas, FALSE, repo) = f[Len(stanzas)]
  <2>1. Len(stanzas) \in Nat
    OBVIOUS
  <2> QED
    BY <2>1, ParseFileHasTrace
<1> DEFINE Of(i) == Offering(stanzas, repo, i)
           Fine(i) == f[i] \in AptCaches /\ AptBest(f[i].entries, Of(i)) /\ \A o \in Of(i) : IsOffer(o)
           T == {i \in 0..Len(stanzas) : Fine(i)}
<1>2. 0 \in T
  <2>1. f[0] = c
    BY <1>1 DEF ParseTrace
  <2>2. Of(0) = {}
    BY DEF Offering
  <2> HIDE DEF Of
  <2>3. Fine(0)
    BY <2>1, <2>2, EmptyCacheIs
  <2> HIDE DEF Fine
  <2> QED
    BY <2>3
<1>3. ASSUME NEW i \in 0..Len(stanzas), i < Len(stanzas), i \in T PROVE i + 1 \in T
  <2> DEFINE s == stanzas[i + 1]
  <2>1. i + 1 \in 0..Len(stanzas) /\ i + 1 \in DOMAIN stanzas /\ i \in Nat
    BY <1>3
  <2>2. IsListed(s)
    BY <2>1 DEF Range
  <2>3. f[i + 1] = Apt!FlushStanza(f[i], s, FALSE, repo)
    BY <1>1, <1>3 DEF ParseTrace
  <2>4. Of(i + 1) = Of(i) \cup OfferedBy(s, repo)
    BY <2>1, OfferingMore
  <2> HIDE DEF Of, s
  <2>5. Fine(i)
    BY <1>3
  <2>6. AptBest(f[i + 1].entries, Of(i + 1))
    <3>1. AptBest(Apt!FlushStanza(f[i], s, FALSE, repo).entries, Of(i) \cup OfferedBy(s, repo))
      BY <2>2, <2>5, FlushBest
    <3> QED
      BY <2>3, <2>4, <3>1
  <2>7. f[i + 1] \in AptCaches
    <3>1. s \in Apt!Stanza
      BY <2>2 DEF IsListed
    <3>2. Apt!FlushStanza(f[i], s, FALSE, repo) \in AptCaches
      BY <2>5, <3>1, FlushStanzaIs
    <3> QED
      BY <2>3, <3>2
  <2>8. \A o \in Of(i + 1) : IsOffer(o)
    <3>1. \A o \in OfferedBy(s, repo) : IsOffer(o)
      BY <2>2, OfferedByIs
    <3> QED
      BY <2>4, <2>5, <3>1
  <2>9. Fine(i + 1)
    BY <2>6, <2>7, <2>8
  <2> HIDE DEF Fine
  <2> QED
    BY <2>1, <2>9
<1>4. Len(stanzas) \in T
  <2> HIDE DEF T
  <2>1. 0..Len(stanzas) \subseteq T
    BY <1>2, <1>3, UpTo
  <2> QED
    BY <2>1
<1> QED
  BY <1>1, <1>4

\* Entries that are merged.
LEMMA MergeFieldsIs ==
    ASSUME NEW e \in AptInfo, NEW i \in AptInfo
    PROVE  LET n == Apt!MergeEntryFields(e, i)
           IN  /\ n \in AptInfo
               /\ n.arch = IF i.arch # "" THEN i.arch ELSE e.arch
               /\ ~Apt!InfoArtifactsWin(e, i) => n.version = e.version /\ n.file = e.file /\ n.repo = e.repo
               /\ Apt!InfoArtifactsWin(e, i) =>
                     /\ n.version = IF i.version # <<>> THEN i.version ELSE e.version
                     /\ n.file = IF i.file # "" THEN i.file ELSE e.file
                     /\ n.repo = IF i.file # "" /\ i.repo # "" /\ i.arch \notin {"", "all"}
                                 THEN i.repo ELSE e.repo
<1> DEFINE arch == IF i.arch # "" THEN i.arch ELSE e.arch
           multi == IF i.multiArch # "" THEN i.multiArch ELSE e.multiArch
           candidate == e.candidate \/ i.candidate
           version == IF i.version # <<>> THEN i.version ELSE e.version
           file == IF i.file # "" THEN i.file ELSE e.file
           url == IF i.file # "" /\ i.repo # "" /\ i.arch \notin {"", "all"} THEN i.repo ELSE e.repo
           depends == IF i.depends # <<>> THEN i.depends ELSE e.depends
           pre == IF i.preDepends # <<>> THEN i.preDepends ELSE e.preDepends
           merged == [e EXCEPT !.arch = arch, !.multiArch = multi, !.candidate = candidate]
           new == [merged EXCEPT !.version = version, !.file = file, !.repo = url,
                                 !.depends = depends, !.preDepends = pre]
           wins == Apt!InfoArtifactsWin(e, i)
<1>1. Apt!MergeEntryFields(e, i) = IF wins THEN new ELSE merged
  BY DEF Apt!MergeEntryFields, Apt!CopyInfoArtifacts
<1>2. /\ e.arch \in STRING /\ e.multiArch \in STRING /\ e.file \in STRING /\ e.repo \in STRING
      /\ e.depends \in Seq(STRING) /\ e.preDepends \in Seq(STRING) /\ e.version \in Seq(Apt!Byte)
      /\ e.candidate \in BOOLEAN
  BY DEF AptInfo
<1>3. /\ i.arch \in STRING /\ i.multiArch \in STRING /\ i.file \in STRING /\ i.repo \in STRING
      /\ i.depends \in Seq(STRING) /\ i.preDepends \in Seq(STRING) /\ i.version \in Seq(Apt!Byte)
      /\ i.candidate \in BOOLEAN
  BY DEF AptInfo
<1>4. /\ arch \in STRING /\ multi \in STRING /\ file \in STRING /\ url \in STRING
      /\ candidate \in BOOLEAN /\ version \in Seq(Apt!Byte)
      /\ depends \in Seq(STRING) /\ pre \in Seq(STRING)
  BY <1>2, <1>3
<1> HIDE DEF arch, multi, candidate, version, file, url, depends, pre, wins
<1>5. /\ merged \in AptInfo /\ merged.arch = arch
      /\ merged.version = e.version /\ merged.file = e.file /\ merged.repo = e.repo
  BY <1>4 DEF AptInfo
<1> HIDE DEF merged
<1>6. /\ new \in AptInfo /\ new.arch = merged.arch
      /\ new.version = version /\ new.file = file /\ new.repo = url
  BY <1>4, <1>5 DEF AptInfo
<1> HIDE DEF new
<1>7. CASE wins
  BY <1>1, <1>5, <1>6, <1>7 DEF arch, version, file, url, wins
<1>8. CASE ~wins
  BY <1>1, <1>5, <1>8 DEF arch, wins
<1> QED
  BY <1>7, <1>8

\* The version decides.
LEMMA WinsIs ==
    ASSUME NEW e, NEW i
    PROVE  /\ i.version # <<>> => (Apt!InfoArtifactsWin(e, i)
                 <=> e.version = <<>> \/ Apt!CompareDebVersion(i.version, e.version) >= 0)
           /\ i.version = <<>> /\ e.version # <<>> => ~Apt!InfoArtifactsWin(e, i)
BY DEF Apt!InfoArtifactsWin

\* Two entries of a key, of what is offered in some lists and in some more.
LEMMA MergedFits ==
    ASSUME NEW key, NEW e \in AptInfo, NEW i \in AptInfo, NEW S, NEW U,
           EntryIs(key, e, S), EntryIs(key, i, U), \A o \in S : IsOffer(o), \A o \in U : IsOffer(o)
    PROVE  EntryIs(key, Apt!MergeEntryFields(e, i), S \cup U)
<1> DEFINE n == Apt!MergeEntryFields(e, i)
           wins == Apt!InfoArtifactsWin(e, i)
<1>1. /\ n.arch = IF i.arch # "" THEN i.arch ELSE e.arch
      /\ ~wins => n.version = e.version /\ n.file = e.file /\ n.repo = e.repo
      /\ wins => /\ n.version = IF i.version # <<>> THEN i.version ELSE e.version
                 /\ n.file = IF i.file # "" THEN i.file ELSE e.file
                 /\ n.repo = IF i.file # "" /\ i.repo # "" /\ i.arch \notin {"", "all"}
                             THEN i.repo ELSE e.repo
  BY MergeFieldsIs
<1> DEFINE compared == Apt!CompareDebVersion(i.version, e.version)
<1>2. /\ i.version # <<>> => (wins <=> e.version = <<>> \/ compared >= 0)
      /\ i.version = <<>> /\ e.version # <<>> => ~wins
  BY WinsIs
<1> HIDE DEF n, wins
<1>3. /\ S = {} => e.version = <<>>
      /\ S # {} => Newest(key, e.version, e.file, e.repo, S)
      /\ U = {} => i.version = <<>>
      /\ U # {} => Newest(key, i.version, i.file, i.repo, U)
  BY DEF EntryIs, VersionIs
<1>4. ArchFits(key, n.arch) /\ (key[2] # "" => i.arch \notin {"", "all"})
  BY <1>1 DEF EntryIs, ArchFits
<1>5. CASE U = {}
  <2>1. i.version = <<>> /\ S \cup U = S
    BY <1>3, <1>5
  <2>2. CASE S = {}
    BY <1>1, <1>3, <1>4, <2>1, <2>2 DEF EntryIs, VersionIs, n
  <2>3. CASE S # {}
    <3>1. Newest(key, e.version, e.file, e.repo, S)
      BY <1>3, <2>3
    <3>2. e.version # <<>>
      BY <3>1, RankIs DEF Newest
    <3>3. Newest(key, n.version, n.file, n.repo, S)
      BY <1>1, <1>2, <2>1, <3>1, <3>2
    <3> QED
      BY <1>4, <2>1, <2>3, <3>3 DEF EntryIs, VersionIs, n
  <2> QED
    BY <2>2, <2>3
<1>6. CASE U # {}
  <2>1. Newest(key, i.version, i.file, i.repo, U)
    BY <1>3, <1>6
  <2>2. i.version \in Range(Ranked) /\ i.version # <<>>
    BY <2>1, RankIs DEF Newest
  <2>3. i.file # ""
    BY <2>1 DEF Newest, IsOffer
  <2>4. CASE wins
    <3>1. /\ n.version = i.version /\ n.file = i.file
          /\ key[2] # "" /\ i.repo # "" => n.repo = i.repo
      BY <1>1, <1>4, <2>2, <2>3, <2>4
    <3>2. \A o \in S : Rank(VersionOf(o)) <= Rank(i.version)
      <4>1. CASE S = {}
        BY <4>1
      <4>2. CASE S # {}
        <5> DEFINE v == i.version   w == e.version
        <5>1. Newest(key, w, e.file, e.repo, S)
          BY <1>3, <4>2
        <5>2. w \in Range(Ranked) /\ \A o \in S : Rank(VersionOf(o)) <= Rank(w)
          BY <5>1 DEF Newest
        <5>3. w # <<>> /\ v \in Range(Ranked)
          BY <2>2, <5>2, RankIs
        <5>4. Apt!CompareDebVersion(v, w) >= 0
          BY <1>2, <2>2, <2>4, <5>3
        <5> HIDE DEF v, w
        <5>5. Rank(v) \in Nat /\ Rank(w) \in Nat /\ Rank(v) >= Rank(w)
          BY <5>2, <5>3, <5>4, RankIs
        <5>6. \A o \in S : Rank(VersionOf(o)) \in Nat
          BY RankIs DEF IsOffer
        <5>7. ASSUME NEW o \in S PROVE Rank(VersionOf(o)) <= Rank(v)
          BY <5>2, <5>5, <5>6, AtMostBoth
        <5> QED
          BY <5>7 DEF v
      <4> QED
        BY <4>1, <4>2
    <3>3. Newest(key, n.version, n.file, n.repo, S \cup U)
      <4>1. Newest(key, i.version, i.file, n.repo, S \cup U)
        BY <2>1, <3>1, <3>2, NewestTaken
      <4> QED
        BY <3>1, <4>1
    <3> QED
      BY <1>4, <1>6, <3>3 DEF EntryIs, VersionIs, n
  <2>5. CASE ~wins
    <3> DEFINE v == i.version   w == e.version
    <3>1. n.version = w /\ n.file = e.file /\ n.repo = e.repo /\ w # <<>> /\ ~(compared >= 0)
      BY <1>1, <1>2, <2>2, <2>5
    <3>2. Newest(key, w, e.file, e.repo, S)
      BY <1>3, <3>1
    <3>3. w \in Range(Ranked) /\ v \in Range(Ranked) /\ ~(Apt!CompareDebVersion(v, w) >= 0)
      BY <2>2, <3>1, <3>2 DEF Newest
    <3>4. \A o \in U : Rank(VersionOf(o)) <= Rank(v)
      BY <2>1 DEF Newest
    <3> HIDE DEF v, w
    <3>5. Rank(v) \in Nat /\ Rank(w) \in Nat /\ ~(Rank(v) >= Rank(w))
      BY <3>3, RankIs
    <3>6. \A o \in U : Rank(VersionOf(o)) \in Nat
      BY RankIs DEF IsOffer
    <3>7. ASSUME NEW o \in U PROVE Rank(VersionOf(o)) <= Rank(w)
      BY <3>4, <3>5, <3>6, AtMostBelow
    <3>8. Newest(key, w, e.file, e.repo, S \cup U)
      BY <3>2, <3>7, NewestStays
    <3>9. Newest(key, n.version, n.file, n.repo, S \cup U)
      BY <3>1, <3>8
    <3> QED
      BY <1>4, <1>6, <3>9 DEF EntryIs, VersionIs, n
  <2> QED
    BY <2>4, <2>5
<1> QED
  BY <1>5, <1>6

\* A sequence after another.
LEMMA ConcatIs ==
    ASSUME NEW A, NEW s \in Seq(A), NEW t \in Seq(A)
    PROVE  s \o t \in Seq(A)
OBVIOUS

\* What is finite under a name.
LEMMA FiniteNames ==
    ASSUME NEW D, IsFiniteSet(D), D \subseteq Keys, NEW N, N = {key[1] : key \in {x \in D : x[2] # ""}}
    PROVE  IsFiniteSet(N) /\ N \subseteq STRING
<1> DEFINE C == {x \in D : x[2] # ""}   f == [key \in C |-> key[1]]
<1>1. IsFiniteSet(C)
  <2>1. C \subseteq D
    OBVIOUS
  <2> HIDE DEF C
  <2> QED
    BY <2>1, FS_Subset
<1>2. \A key \in C : key[1] \in STRING
  BY KeysAre
<1> HIDE DEF C
<1>3. Range(f) = {key[1] : key \in C}
  BY DEF Range
<1>4. f = [key \in C |-> f[key]]
  OBVIOUS
<1> HIDE DEF f
<1>5. IsFiniteSet(Range(f))
  BY <1>1, <1>4, FiniteImage
<1> QED
  BY <1>2, <1>3, <1>5 DEF C

\* Caches that are merged have their entries from both.
LEMMA MergeFromIs ==
    ASSUME NEW c \in AptCaches, NEW d \in AptCaches
    PROVE  LET next == Apt!MergeFrom(c, d)
           IN  /\ next \in AptCaches
               /\ DOMAIN next.entries = DOMAIN c.entries \cup DOMAIN d.entries
               /\ \A k \in DOMAIN d.entries : k \notin DOMAIN c.entries => next.entries[k] = d.entries[k]
               /\ \A k \in DOMAIN c.entries : k \notin DOMAIN d.entries => next.entries[k] = c.entries[k]
               /\ \A k \in DOMAIN c.entries : k \in DOMAIN d.entries =>
                     next.entries[k] = Apt!MergeEntryFields(c.entries[k], d.entries[k])
<1> DEFINE ce == c.entries   de == d.entries   cp == c.providers   dp == d.providers
           cb == c.byBareName   db == d.byBareName
           fresh == DOMAIN de \ DOMAIN ce
           names == {key[1] : key \in {x \in fresh : x[2] # ""}}
           entries == [key \in DOMAIN ce \cup fresh |->
                         IF key \in fresh THEN de[key]
                         ELSE IF key \in DOMAIN de THEN Apt!MergeEntryFields(ce[key], de[key])
                         ELSE ce[key]]
           providers == [v \in DOMAIN cp \cup DOMAIN dp |-> Apt!At(cp, v) \o Apt!At(dp, v)]
           bare == [n \in DOMAIN cb \cup names |->
                      Apt!At(cb, n) \o (IF \E key \in fresh : key[1] = n THEN Apt!At(db, n) ELSE <<>>)]
           next == [entries |-> entries, providers |-> providers, byBareName |-> bare]
<1>1. Apt!MergeFrom(c, d) = next
  BY DEF Apt!MergeFrom
<1>2. /\ ce \in Finitely(Keys, AptInfo) /\ de \in Finitely(Keys, AptInfo)
      /\ cp \in Finitely(STRING, Seq(STRING)) /\ dp \in Finitely(STRING, Seq(STRING))
      /\ cb \in Finitely(STRING, Seq(Keys)) /\ db \in Finitely(STRING, Seq(Keys))
  BY AptCacheHas
<1> HIDE DEF ce, de, cp, dp, cb, db
<1>3. /\ IsFiniteSet(DOMAIN ce) /\ DOMAIN ce \subseteq Keys /\ \A k \in DOMAIN ce : ce[k] \in AptInfo
      /\ IsFiniteSet(DOMAIN de) /\ DOMAIN de \subseteq Keys /\ \A k \in DOMAIN de : de[k] \in AptInfo
  BY <1>2, FinitelyIs
<1>4. /\ IsFiniteSet(DOMAIN cp) /\ DOMAIN cp \subseteq STRING
      /\ IsFiniteSet(DOMAIN dp) /\ DOMAIN dp \subseteq STRING
      /\ IsFiniteSet(DOMAIN cb) /\ DOMAIN cb \subseteq STRING
  BY <1>2, FinitelyIs
<1>5. IsFiniteSet(fresh) /\ fresh \subseteq Keys
  <2>1. fresh \subseteq DOMAIN de
    OBVIOUS
  <2> HIDE DEF fresh
  <2> QED
    BY <1>3, <2>1, FS_Subset
<1>6. DOMAIN ce \cup fresh = DOMAIN ce \cup DOMAIN de
  OBVIOUS
<1>7. /\ DOMAIN entries = DOMAIN ce \cup DOMAIN de
      /\ \A k \in DOMAIN de : k \notin DOMAIN ce => entries[k] = de[k]
      /\ \A k \in DOMAIN ce : k \notin DOMAIN de => entries[k] = ce[k]
      /\ \A k \in DOMAIN ce : k \in DOMAIN de => entries[k] = Apt!MergeEntryFields(ce[k], de[k])
      /\ entries = [k \in DOMAIN ce \cup DOMAIN de |-> entries[k]]
  BY <1>6
<1> HIDE DEF entries
<1>8. entries \in Finitely(Keys, AptInfo)
  <2> DEFINE D == DOMAIN ce \cup DOMAIN de
  <2>1. IsFiniteSet(D) /\ D \subseteq Keys
    BY <1>3, FS_Union
  <2>2. ASSUME NEW k \in D PROVE entries[k] \in AptInfo
    <3>1. CASE k \in DOMAIN ce /\ k \in DOMAIN de
      <4>1. ce[k] \in AptInfo /\ de[k] \in AptInfo
        BY <1>3, <3>1
      <4>2. Apt!MergeEntryFields(ce[k], de[k]) \in AptInfo
        BY <4>1, MergeFieldsIs
      <4> QED
        BY <1>7, <3>1, <4>2
    <3>2. CASE ~(k \in DOMAIN ce /\ k \in DOMAIN de)
      BY <1>3, <1>7, <3>2
    <3> QED
      BY <3>1, <3>2
  <2>3. entries = [k \in D |-> entries[k]]
    BY <1>7
  <2> HIDE DEF D
  <2> QED
    BY <2>1, <2>2, <2>3, FinitelyMore
<1>9. providers \in Finitely(STRING, Seq(STRING))
  <2> DEFINE D == DOMAIN cp \cup DOMAIN dp
  <2>1. IsFiniteSet(D) /\ D \subseteq STRING
    BY <1>4, FS_Union
  <2>2. \A v \in D : providers[v] \in Seq(STRING)
    <3>1. ASSUME NEW v PROVE Apt!At(cp, v) \o Apt!At(dp, v) \in Seq(STRING)
      <4>1. Apt!At(cp, v) \in Seq(STRING) /\ Apt!At(dp, v) \in Seq(STRING)
        BY <1>2, AtIs
      <4> QED
        BY <4>1, ConcatIs
    <3> QED
      BY <3>1
  <2>3. providers = [v \in D |-> providers[v]]
    OBVIOUS
  <2> HIDE DEF D, providers
  <2> QED
    BY <2>1, <2>2, <2>3, FinitelyMore
<1> HIDE DEF providers
<1>10. bare \in Finitely(STRING, Seq(Keys))
  <2> DEFINE D == DOMAIN cb \cup names
             Mine(n) == IF \E key \in fresh : key[1] = n THEN Apt!At(db, n) ELSE <<>>
  <2>1. IsFiniteSet(names) /\ names \subseteq STRING
    <3> DEFINE N == names
    <3>1. N = {key[1] : key \in {x \in fresh : x[2] # ""}}
      OBVIOUS
    <3> HIDE DEF N, fresh
    <3>2. IsFiniteSet(N) /\ N \subseteq STRING
      BY <1>5, <3>1, FiniteNames
    <3> QED
      BY <3>2 DEF N
  <2> HIDE DEF names, fresh
  <2>2. IsFiniteSet(D) /\ D \subseteq STRING
    BY <1>4, <2>1, FS_Union
  <2>3. ASSUME NEW n PROVE Apt!At(cb, n) \o Mine(n) \in Seq(Keys)
    <3>1. Apt!At(cb, n) \in Seq(Keys) /\ Apt!At(db, n) \in Seq(Keys)
      BY <1>2, AtIs
    <3>2. <<>> \in Seq(Keys)
      BY ShortSeq
    <3>3. Mine(n) \in Seq(Keys)
      BY <3>1, <3>2
    <3> HIDE DEF Mine
    <3> QED
      BY <3>1, <3>3, ConcatIs
  <2>4. \A n \in D : bare[n] = Apt!At(cb, n) \o Mine(n)
    OBVIOUS
  <2>5. bare = [n \in D |-> bare[n]]
    OBVIOUS
  <2> HIDE DEF D, bare, Mine
  <2>6. \A n \in D : bare[n] \in Seq(Keys)
    BY <2>3, <2>4
  <2> QED
    BY <2>2, <2>5, <2>6, FinitelyMore
<1> HIDE DEF bare
<1>11. next \in AptCaches /\ next.entries = entries
  BY <1>8, <1>9, <1>10, AptCacheIs
<1> HIDE DEF next
<1> QED
  BY <1>1, <1>7, <1>11 DEF ce, de

\* What two caches offer the best of, they do together.
LEMMA MergeBest ==
    ASSUME NEW c \in AptCaches, NEW d \in AptCaches, NEW S, NEW U,
           AptBest(c.entries, S), AptBest(d.entries, U),
           \A o \in S : IsOffer(o), \A o \in U : IsOffer(o)
    PROVE  AptBest(Apt!MergeFrom(c, d).entries, S \cup U)
<1> DEFINE new == Apt!MergeFrom(c, d).entries   ce == c.entries   de == d.entries
<1>1. /\ DOMAIN new = DOMAIN ce \cup DOMAIN de
      /\ \A k \in DOMAIN de : k \notin DOMAIN ce => new[k] = de[k]
      /\ \A k \in DOMAIN ce : k \notin DOMAIN de => new[k] = ce[k]
      /\ \A k \in DOMAIN ce : k \in DOMAIN de => new[k] = Apt!MergeEntryFields(ce[k], de[k])
  BY MergeFromIs
<1>2. /\ ce \in Finitely(Keys, AptInfo) /\ de \in Finitely(Keys, AptInfo)
  BY AptCacheHas
<1> HIDE DEF new, ce, de
<1>3. (\A k \in DOMAIN ce : ce[k] \in AptInfo) /\ (\A k \in DOMAIN de : de[k] \in AptInfo)
  BY <1>2, FinitelyIs
<1>4. \A k : /\ AptOf(S, k) # {} => k \in DOMAIN ce
             /\ k \in DOMAIN ce => EntryIs(k, ce[k], AptOf(S, k))
  BY DEF AptBest, ce
<1>5. \A k : /\ AptOf(U, k) # {} => k \in DOMAIN de
             /\ k \in DOMAIN de => EntryIs(k, de[k], AptOf(U, k))
  BY DEF AptBest, de
<1>6. ASSUME NEW k
      PROVE  /\ AptOf(S \cup U, k) # {} => k \in DOMAIN new
             /\ k \in DOMAIN new => EntryIs(k, new[k], AptOf(S \cup U, k))
  <2> DEFINE s == AptOf(S, k)   u == AptOf(U, k)
  <2>1. AptOf(S \cup U, k) = s \cup u
    BY DEF AptOf
  <2>2. (\A o \in s : IsOffer(o)) /\ (\A o \in u : IsOffer(o))
    BY DEF AptOf
  <2>3. /\ s # {} => k \in DOMAIN ce
        /\ k \in DOMAIN ce => EntryIs(k, ce[k], s)
        /\ u # {} => k \in DOMAIN de
        /\ k \in DOMAIN de => EntryIs(k, de[k], u)
    BY <1>4, <1>5
  <2> HIDE DEF s, u
  <2>4. s \cup u # {} => k \in DOMAIN new
    BY <1>1, <2>3
  <2>5. CASE k \in DOMAIN ce /\ k \in DOMAIN de
    <3> DEFINE e == ce[k]   i == de[k]
    <3>1. e \in AptInfo /\ i \in AptInfo /\ EntryIs(k, e, s) /\ EntryIs(k, i, u)
      BY <1>3, <2>3, <2>5
    <3>2. new[k] = Apt!MergeEntryFields(e, i)
      BY <1>1, <2>5
    <3> HIDE DEF e, i
    <3>3. EntryIs(k, Apt!MergeEntryFields(e, i), s \cup u)
      BY <2>2, <3>1, MergedFits
    <3> QED
      BY <2>1, <2>4, <3>2, <3>3
  <2>6. CASE k \in DOMAIN ce /\ k \notin DOMAIN de
    <3>1. new[k] = ce[k] /\ EntryIs(k, ce[k], s) /\ s \cup u = s
      BY <1>1, <2>3, <2>6
    <3> QED
      BY <2>1, <2>4, <3>1
  <2>7. CASE k \in DOMAIN de /\ k \notin DOMAIN ce
    <3>1. new[k] = de[k] /\ EntryIs(k, de[k], u) /\ s \cup u = u
      BY <1>1, <2>3, <2>7
    <3> QED
      BY <2>1, <2>4, <3>1
  <2>8. CASE k \notin DOMAIN de /\ k \notin DOMAIN ce
    BY <1>1, <2>1, <2>4, <2>8
  <2> QED
    BY <2>5, <2>6, <2>7, <2>8
<1>7. AptBest(new, S \cup U)
  BY <1>6 DEF AptBest
<1> QED
  BY <1>7 DEF new

MergeList(c, list) ==
    Apt!MergeFrom(c, Apt!ParseFile(Apt!NewEmptyCache, list.stanzas, FALSE, list.repo))

\* The recursion of LoadAptLists has a trace.
ListsTrace(f, c, lists) ==
    /\ f[0] = c
    /\ \A n \in 0..Len(lists) : n < Len(lists) => f[n + 1] = MergeList(f[n], lists[n + 1])

\* LoadAptLists goes from list to list.
LEMMA LoadListsHasTrace ==
    ASSUME NEW c, NEW lists, Len(lists) \in Nat
    PROVE  \E f : ListsTrace(f, c, lists) /\ Apt!LoadAptLists(c, lists) = f[Len(lists)]
<1> DEFINE N == Len(lists)
           Rule(f, m) == f = [n \in 0..m |-> IF n = 0 THEN c ELSE MergeList(f[n - 1], lists[n])]
           T == {m \in 0..N : \E f : Rule(f, m)}
<1>1. 0 \in T
  <2> DEFINE g == [n \in 0..0 |-> c]
  <2>1. Rule(g, 0)
    OBVIOUS
  <2> HIDE DEF g, Rule
  <2>2. \E h : Rule(h, 0)
    BY <2>1
  <2> QED
    BY <2>2
<1>2. ASSUME NEW m \in 0..N, m < N, m \in T PROVE m + 1 \in T
  <2>1. PICK f : Rule(f, m)
    BY <1>2
  <2> DEFINE g == [n \in 0..(m + 1) |-> IF n = m + 1 THEN MergeList(f[m], lists[n]) ELSE f[n]]
  <2>2. \A n \in 0..(m + 1) : g[n] = IF n = 0 THEN c ELSE MergeList(g[n - 1], lists[n])
    BY <2>1
  <2>3. Rule(g, m + 1)
    BY <2>2
  <2> HIDE DEF g, Rule
  <2>4. \E h : Rule(h, m + 1)
    BY <2>3
  <2>5. m + 1 \in 0..N
    BY <1>2
  <2> QED
    BY <2>4, <2>5
<1>3. N \in T
  <2> HIDE DEF T
  <2>1. 0..N \subseteq T
    BY <1>1, <1>2, UpTo
  <2> QED
    BY <2>1
<1>4. \E f : Rule(f, N)
  BY <1>3
<1> DEFINE f == CHOOSE f : Rule(f, N)
<1>5. Rule(f, N)
  BY <1>4
<1>6. Apt!LoadAptLists(c, lists) = f[N]
  BY DEF Apt!LoadAptLists, MergeList
<1> HIDE DEF f
<1>7. ListsTrace(f, c, lists)
  BY <1>5 DEF ListsTrace
<1> QED
  BY <1>6, <1>7

\* The lists of a world, and what they offer.
IsList(list) ==
    /\ list.repo \in STRING /\ list.stanzas \in Seq(Apt!Stanza)
    /\ \A s \in Range(list.stanzas) : IsListed(s)

\* A list more.
LEMMA MergeListIs ==
    ASSUME NEW c \in AptCaches, NEW list, IsList(list), NEW S, AptBest(c.entries, S),
           \A o \in S : IsOffer(o)
    PROVE  /\ MergeList(c, list) \in AptCaches
           /\ AptBest(MergeList(c, list).entries, S \cup ListOffers(list))
           /\ \A o \in S \cup ListOffers(list) : IsOffer(o)
<1> DEFINE q == list.stanzas   r == list.repo   U == Offering(q, r, Len(q))
           d == Apt!ParseFile(Apt!NewEmptyCache, q, FALSE, r)
<1>1. MergeList(c, list) = Apt!MergeFrom(c, d)
  BY DEF MergeList
<1>2. q \in Seq(Apt!Stanza) /\ r \in STRING /\ \A s \in Range(q) : IsListed(s)
  BY DEF IsList
<1>3. U = ListOffers(list)
  BY <1>2, OfferingAll
<1> HIDE DEF q, r
<1>4. d \in AptCaches /\ AptBest(d.entries, U) /\ \A o \in U : IsOffer(o)
  BY <1>2, ParseListIs
<1> HIDE DEF d, U
<1>5. Apt!MergeFrom(c, d) \in AptCaches
  BY <1>4, MergeFromIs
<1>6. AptBest(Apt!MergeFrom(c, d).entries, S \cup U)
  BY <1>4, MergeBest
<1> QED
  BY <1>1, <1>3, <1>4, <1>5, <1>6

\* The lists offer the best of each key.
LEMMA LoadListsIs ==
    ASSUME NEW lists, Len(lists) \in Nat, \A i \in 1..Len(lists) : IsList(lists[i])
    PROVE  LET next == Apt!LoadAptLists(Apt!NewEmptyCache, lists)
               Offers == UNION {ListOffers(lists[j]) : j \in 1..Len(lists)}
           IN  /\ next \in AptCaches
               /\ AptBest(next.entries, Offers)
               /\ \A o \in Offers : IsOffer(o)
<1> DEFINE c == Apt!NewEmptyCache
<1>1. PICK f : ListsTrace(f, c, lists) /\ Apt!LoadAptLists(c, lists) = f[Len(lists)]
  BY LoadListsHasTrace
<1> DEFINE Of(i) == UNION {ListOffers(lists[j]) : j \in 1..i}
           Fine(i) == f[i] \in AptCaches /\ AptBest(f[i].entries, Of(i)) /\ \A o \in Of(i) : IsOffer(o)
           T == {i \in 0..Len(lists) : Fine(i)}
<1>2. 0 \in T
  <2>1. f[0] = c
    BY <1>1 DEF ListsTrace
  <2>2. Of(0) = {}
    OBVIOUS
  <2> HIDE DEF Of
  <2>3. Fine(0)
    BY <2>1, <2>2, EmptyCacheIs
  <2> HIDE DEF Fine
  <2> QED
    BY <2>3
<1>3. ASSUME NEW i \in 0..Len(lists), i < Len(lists), i \in T PROVE i + 1 \in T
  <2> DEFINE list == lists[i + 1]
  <2>1. i + 1 \in 0..Len(lists) /\ i + 1 \in 1..Len(lists) /\ i \in Nat
    BY <1>3
  <2>2. IsList(list)
    BY <2>1
  <2>3. f[i + 1] = MergeList(f[i], list)
    BY <1>1, <1>3 DEF ListsTrace
  <2>4. Of(i + 1) = Of(i) \cup ListOffers(list)
    <3>1. \A j \in 1..(i + 1) : j \in 1..i \/ j = i + 1
      BY <2>1
    <3>2. \A j \in 1..i : j \in 1..(i + 1)
      BY <2>1
    <3>3. i + 1 \in 1..(i + 1)
      BY <2>1
    <3> QED
      BY <3>1, <3>2, <3>3
  <2> HIDE DEF Of, list
  <2>5. Fine(i)
    BY <1>3
  <2>6. /\ MergeList(f[i], list) \in AptCaches
        /\ AptBest(MergeList(f[i], list).entries, Of(i) \cup ListOffers(list))
        /\ \A o \in Of(i) \cup ListOffers(list) : IsOffer(o)
    BY <2>2, <2>5, MergeListIs
  <2>7. Fine(i + 1)
    BY <2>3, <2>4, <2>6
  <2> HIDE DEF Fine
  <2> QED
    BY <2>1, <2>7
<1>4. Len(lists) \in T
  <2> HIDE DEF T
  <2>1. 0..Len(lists) \subseteq T
    BY <1>2, <1>3, UpTo
  <2> QED
    BY <2>1
<1> QED
  BY <1>1, <1>4

\* A version in dpkg's status that is newer than all that is offered.
OverBy(Stanzas, key, offers) ==
    \E s \in Stanzas : /\ Apt!EntryKey(s.name, s.arch) = key /\ s.version # <<>>
                       /\ \A o \in offers : Rank(VersionOf(o)) < Rank(s.version)

\* What the cache is in the end: the newest where dpkg has no newer version.
AptHolds(entries, Offers, Stanzas) ==
    /\ \A key \in DOMAIN entries : ArchFits(key, entries[key].arch)
    /\ \A key : AptOf(Offers, key) # {} /\ ~OverBy(Stanzas, key, AptOf(Offers, key)) =>
          /\ key \in DOMAIN entries
          /\ Newest(key, entries[key].version, entries[key].file, entries[key].repo, AptOf(Offers, key))

\* A stanza of dpkg's status leaves the newest where it is.
LEMMA FlushHolds ==
    ASSUME NEW c \in AptCaches, NEW s \in Apt!Stanza, s.version \in {<<>>} \cup Range(Ranked), NEW Offers,
           \A o \in Offers : IsOffer(o), NEW Stanzas, AptHolds(c.entries, Offers, Stanzas)
    PROVE  LET next == Apt!FlushStanza(c, s, TRUE, "")
           IN  next \in AptCaches /\ AptHolds(next.entries, Offers, Stanzas \cup {s})
<1> DEFINE next == Apt!FlushStanza(c, s, TRUE, "")
           new == next.entries
           old == c.entries
           key == Apt!EntryKey(s.name, s.arch)
           b == Before(c, s)
           n == Apt!MergePackageInfo(b, s, TRUE, "")
           S == Stanzas \cup {s}
<1>1. /\ next \in AptCaches
      /\ b \in AptInfo
      /\ DOMAIN new = DOMAIN old \cup {key}
      /\ new[key] = n
      /\ \A k \in DOMAIN old : k # key => new[k] = old[k]
  <2>1. "" \in STRING
    BY ResolversAssumption
  <2> QED
    BY <2>1, FlushStanzaIs
<1> DEFINE stays == s.version = <<>>
                    \/ (b.version # <<>> /\ Apt!CompareDebVersion(s.version, b.version) <= 0)
<1>2. /\ n.arch = IF s.arch # "" THEN s.arch ELSE b.arch
      /\ stays => n.version = b.version /\ n.file = b.file /\ n.repo = b.repo
  <2>1. "" \in STRING
    BY ResolversAssumption
  <2> HIDE DEF b
  <2> QED
    BY <1>1, <2>1, MergePackageIs
<1>3. s.name \in STRING /\ s.arch \in STRING
  BY DEF Apt!Stanza
<1>4. ArchFits(key, s.arch)
  BY <1>3, EntryKeyIs
<1>5. s.arch = "" => ArchFits(key, b.arch)
  <2>1. CASE key \in DOMAIN old
    BY <2>1 DEF Before, AptHolds
  <2>2. CASE key \notin DOMAIN old
    <3>1. b = Apt!Fresh(s.name)
      BY <2>2 DEF Before
    <3>2. b.arch = ""
      BY <1>3, <3>1, FreshIs
    <3> QED
      BY <1>4, <3>2
  <2> QED
    BY <2>1, <2>2
<1>6. key \in DOMAIN old => b = old[key]
  BY DEF Before
<1> HIDE DEF n, b, next, key
<1>7. ArchFits(key, new[key].arch)
  BY <1>1, <1>2, <1>4, <1>5
<1>8. \A k \in DOMAIN new : ArchFits(k, new[k].arch)
  BY <1>1, <1>7 DEF AptHolds
<1>9. ASSUME NEW k, AptOf(Offers, k) # {}, ~OverBy(S, k, AptOf(Offers, k))
      PROVE  k \in DOMAIN new /\ Newest(k, new[k].version, new[k].file, new[k].repo, AptOf(Offers, k))
  <2> DEFINE T == AptOf(Offers, k)
  <2>1. ~OverBy(Stanzas, k, T)
    BY <1>9 DEF OverBy
  <2>2. k \in DOMAIN old /\ Newest(k, old[k].version, old[k].file, old[k].repo, T)
    BY <1>9, <2>1 DEF AptHolds
  <2>3. CASE k # key
    BY <1>1, <2>2, <2>3
  <2>4. CASE k = key
    <3>1. stays
      <4>1. SUFFICES ASSUME s.version # <<>>
                     PROVE  b.version # <<>> /\ Apt!CompareDebVersion(s.version, b.version) <= 0
        OBVIOUS
      <4>2. PICK o \in T : ~(Rank(VersionOf(o)) < Rank(s.version))
        BY <1>9, <2>4, <4>1 DEF OverBy, key
      <4>3. IsOffer(o)
        BY <4>2 DEF AptOf
      <4> DEFINE v == s.version   w == b.version   x == VersionOf(o)
      <4>4. Newest(k, w, b.file, b.repo, T)
        BY <1>6, <2>2, <2>4
      <4>5. w \in Range(Ranked) /\ Rank(x) <= Rank(w)
        BY <4>2, <4>4 DEF Newest
      <4>6. v \in Range(Ranked) /\ x \in Range(Ranked) /\ ~(Rank(x) < Rank(v))
        BY <4>1, <4>2, <4>3 DEF IsOffer
      <4> HIDE DEF v, w, x
      <4>7. Rank(v) \in Nat /\ Rank(w) \in Nat /\ Rank(x) \in Nat /\ w # <<>>
        BY <4>5, <4>6, RankIs
      <4>8. Rank(v) <= Rank(w)
        BY <4>5, <4>6, <4>7, AtMostAtLeast
      <4>9. Apt!CompareDebVersion(v, w) <= 0
        BY <4>5, <4>6, <4>8, RankIs
      <4> QED
        BY <4>7, <4>9 DEF v, w
    <3>2. n.version = old[key].version /\ n.file = old[key].file /\ n.repo = old[key].repo
      BY <1>2, <1>6, <2>2, <2>4, <3>1
    <3> QED
      BY <1>1, <2>2, <2>4, <3>2
  <2> QED
    BY <2>3, <2>4
<1>10. AptHolds(new, Offers, S)
  BY <1>8, <1>9 DEF AptHolds
<1> QED
  BY <1>1, <1>10 DEF next

\* What is on disk.
THEOREM LoadFromDiskIs ==
    ASSUME NEW w, IsAptWorld(w)
    PROVE  LET next == Apt!LoadFromDisk(w.files, w.status)
               Offers == UNION {ListOffers(list) : list \in Range(w.files)}
           IN  /\ next \in AptCaches
               /\ AptHolds(next.entries, Offers, Range(w.status))
               /\ \A o \in Offers : IsOffer(o)
<1> DEFINE lists == w.files   status == w.status
           Offers == UNION {ListOffers(list) : list \in Range(lists)}
           c == Apt!LoadAptLists(Apt!NewEmptyCache, lists)
           R == [repo : STRING, stanzas : Seq(Apt!Stanza)]
<1>1. lists \in Seq(R) /\ status \in Seq(Apt!Stanza)
  BY DEF IsAptWorld
<1>15. /\ \A s \in Range(status) : s.version \in {<<>>} \cup Range(Ranked)
      /\ \A list \in Range(lists) : \A s \in Range(list.stanzas) :
            s.version \in {<<>>} \cup Range(Ranked) /\ (s.version # <<>> => s.file # "")
  BY DEF IsAptWorld
<1>2. \A list \in R : list.repo \in STRING /\ list.stanzas \in Seq(Apt!Stanza)
  OBVIOUS
<1> HIDE DEF R
<1>3. DOMAIN lists = 1..Len(lists) /\ Len(lists) \in Nat /\ \A i \in DOMAIN lists : lists[i] \in R
  BY <1>1
<1>4. \A i \in 1..Len(lists) : IsList(lists[i])
  <2> SUFFICES ASSUME NEW i \in 1..Len(lists) PROVE IsList(lists[i])
    OBVIOUS
  <2> DEFINE list == lists[i]
  <2>1. list \in R /\ list \in Range(lists)
    BY <1>3 DEF Range
  <2> HIDE DEF list
  <2>2. \A s \in Range(list.stanzas) : s \in Apt!Stanza
    BY <1>2, <2>1 DEF Range
  <2>3. IsList(list)
    BY <1>15, <1>2, <2>1, <2>2 DEF IsList, IsListed
  <2> QED
    BY <2>3 DEF list
<1>5. Offers = UNION {ListOffers(lists[j]) : j \in 1..Len(lists)}
  BY <1>3 DEF Range
<1> HIDE DEF lists
<1>6. c \in AptCaches /\ AptBest(c.entries, Offers) /\ \A o \in Offers : IsOffer(o)
  <2>1. LET O == UNION {ListOffers(lists[j]) : j \in 1..Len(lists)}
        IN  c \in AptCaches /\ AptBest(c.entries, O) /\ \A o \in O : IsOffer(o)
    BY <1>3, <1>4, LoadListsIs
  <2> QED
    BY <1>5, <2>1
<1> HIDE DEF Offers, c
<1>7. AptHolds(c.entries, Offers, {})
  <2>1. \A key : key \in DOMAIN c.entries => EntryIs(key, c.entries[key], AptOf(Offers, key))
    BY <1>6 DEF AptBest
  <2>2. \A key : AptOf(Offers, key) # {} => key \in DOMAIN c.entries
    BY <1>6 DEF AptBest
  <2> QED
    BY <2>1, <2>2 DEF AptHolds, EntryIs, VersionIs
<1> HIDE DEF status
<1>8. PICK f : ParseTrace(f, c, status, TRUE, "") /\ Apt!ParseFile(c, status, TRUE, "") = f[Len(status)]
  <2>1. Len(status) \in Nat
    BY <1>1
  <2> QED
    BY <2>1, ParseFileHasTrace
<1> DEFINE Upto(i) == {status[j] : j \in 1..i}
           Fine(i) == f[i] \in AptCaches /\ AptHolds(f[i].entries, Offers, Upto(i))
           T == {i \in 0..Len(status) : Fine(i)}
<1>9. 0 \in T
  <2>1. f[0] = c
    BY <1>8 DEF ParseTrace
  <2>2. Upto(0) = {}
    OBVIOUS
  <2> HIDE DEF Upto
  <2>3. Fine(0)
    BY <1>6, <1>7, <2>1, <2>2
  <2>4. 0 \in 0..Len(status)
    BY <1>1
  <2> HIDE DEF Fine
  <2> QED
    BY <2>3, <2>4
<1>10. ASSUME NEW i \in 0..Len(status), i < Len(status), i \in T PROVE i + 1 \in T
  <2> DEFINE s == status[i + 1]
  <2>0. Len(status) \in Nat /\ DOMAIN status = 1..Len(status)
    BY <1>1
  <2>1. i + 1 \in 0..Len(status) /\ i + 1 \in DOMAIN status /\ i \in Nat
    BY <1>10, <2>0
  <2>2. s \in Range(status) /\ s \in Apt!Stanza
    BY <1>1, <2>1 DEF Range
  <2>3. f[i + 1] = Apt!FlushStanza(f[i], s, TRUE, "")
    BY <1>8, <1>10 DEF ParseTrace
  <2>4. Upto(i + 1) = Upto(i) \cup {s}
    <3>1. \A j \in 1..(i + 1) : j \in 1..i \/ j = i + 1
      BY <2>1
    <3>2. \A j \in 1..i : j \in 1..(i + 1)
      BY <2>1
    <3>3. i + 1 \in 1..(i + 1)
      BY <2>1
    <3> QED
      BY <3>1, <3>2, <3>3
  <2>5. s.version \in {<<>>} \cup Range(Ranked)
    BY <1>15, <2>2
  <2> HIDE DEF Upto, s
  <2>6. Fine(i)
    BY <1>10
  <2>7. /\ Apt!FlushStanza(f[i], s, TRUE, "") \in AptCaches
        /\ AptHolds(Apt!FlushStanza(f[i], s, TRUE, "").entries, Offers, Upto(i) \cup {s})
    BY <1>6, <2>2, <2>5, <2>6, FlushHolds
  <2>8. Fine(i + 1)
    BY <2>3, <2>4, <2>7
  <2> HIDE DEF Fine
  <2> QED
    BY <2>1, <2>8
<1>11. Len(status) \in T
  <2>1. Len(status) \in Nat
    BY <1>1
  <2> HIDE DEF T
  <2>2. 0..Len(status) \subseteq T
    BY <1>9, <1>10, <2>1, UpTo
  <2> QED
    BY <2>1, <2>2
<1>12. Upto(Len(status)) = Range(status)
  <2>1. DOMAIN status = 1..Len(status)
    BY <1>1
  <2> QED
    BY <2>1 DEF Range
<1>13. Apt!LoadFromDisk(w.files, w.status) = f[Len(status)]
  BY <1>8 DEF Apt!LoadFromDisk, Apt!LoadDpkgStatus, c, lists, status
<1>14. f[Len(status)] \in AptCaches /\ AptHolds(f[Len(status)].entries, Offers, Range(status))
  BY <1>11, <1>12
<1> QED
  BY <1>6, <1>13, <1>14 DEF Offers, lists, status

\* What is made of a name that is asked for an architecture.
Normal(a) == IF a = "" THEN HostArch ELSE a

AptFound(c, n, a) == Apt!Candidates(c, n, a)
AptTo(c, n, a) == Apt!RedirectForeignToHost(c, AptFound(c, n, a)[1], n, a)
AptFrom(c, n, a) == c.entries[AptTo(c, n, a).key]
AptBelow(c, n, a) ==
    IF AptFrom(c, n, a).arch \notin {"", "all"} THEN AptFrom(c, n, a).arch ELSE AptTo(c, n, a).arch
AptDeps(c, n, a) == AptFrom(c, n, a).preDepends \o AptFrom(c, n, a).depends
AptNextOf(c, n, a) ==
    IF AptFound(c, n, a) # <<>> THEN [i \in DOMAIN AptDeps(c, n, a) |-> <<AptDeps(c, n, a)[i], AptBelow(c, n, a)>>]
    ELSE IF Apt!At(c.providers, n) # <<>> THEN <<<<c.providers[n][1], a>>>> ELSE <<>>
AptAdds(c, n, a) ==
    IF AptFound(c, n, a) # <<>> /\ ~AptFrom(c, n, a).installed THEN <<AptTo(c, n, a).key>> ELSE <<>>
AptMisses(c, n, a) ==
    IF AptFound(c, n, a) = <<>> /\ Apt!At(c.providers, n) = <<>> THEN <<n>> ELSE <<>>

\* The graph, by its nodes.
LEMMA AptGraphIs ==
    ASSUME NEW c
    PROVE  LET g == Apt!Graph(c)
           IN  /\ DOMAIN g = Keys
               /\ \A x \in Keys :
                    /\ Mark(g, x) = Apt!EntryKey(x[1], Normal(x[2]))
                    /\ NextOf(g, x) = AptNextOf(c, x[1], Normal(x[2]))
                    /\ Adds(g, x) = AptAdds(c, x[1], Normal(x[2]))
                    /\ g[x].misses = AptMisses(c, x[1], Normal(x[2]))
<1> DEFINE g == Apt!Graph(c)
           Node(n, a) == [mark |-> Apt!EntryKey(n, a), next |-> AptNextOf(c, n, a),
                          adds |-> AptAdds(c, n, a), misses |-> AptMisses(c, n, a)]
<1>1. g = [x \in Keys |-> Node(x[1], Normal(x[2]))]
  BY DEF Apt!Graph, Keys, Normal, AptNextOf, AptAdds, AptMisses, AptFound, AptTo, AptFrom, AptBelow, AptDeps
<1> HIDE DEF g
<1>2. \A n, a : /\ Node(n, a).mark = Apt!EntryKey(n, a) /\ Node(n, a).next = AptNextOf(c, n, a)
                /\ Node(n, a).adds = AptAdds(c, n, a) /\ Node(n, a).misses = AptMisses(c, n, a)
  OBVIOUS
<1> HIDE DEF Node
<1> QED
  BY <1>1, <1>2 DEF Mark, NextOf, Adds, g

\* Where a name may be found.
LEMMA ScanIs ==
    ASSUME NEW c \in AptCaches, NEW n
    PROVE  Apt!ScanEntryByName(c, n) \in Seq(Keys)
<1> DEFINE b == Apt!At(c.byBareName, n)
<1>1. c.byBareName \in Finitely(STRING, Seq(Keys))
  BY AptCacheHas
<1>2. b \in Seq(Keys)
  BY <1>1, AtIs
<1>3. Apt!ScanEntryByName(c, n) = IF b = <<>> THEN <<>> ELSE <<b[1]>>
  BY DEF Apt!ScanEntryByName, Apt!At
<1> HIDE DEF b
<1>4. CASE b = <<>>
  BY <1>3, <1>4, ShortSeq
<1>5. CASE b # <<>>
  <2>1. b[1] \in Keys
    BY <1>2, <1>5, FirstIs
  <2> QED
    BY <1>3, <1>5, <2>1, ShortSeq
<1> QED
  BY <1>4, <1>5

\* What is found is in the cache.
LEMMA AptFoundIs ==
    ASSUME NEW c \in AptCaches, NEW n \in STRING, NEW a \in STRING
    PROVE  AptFound(c, n, a) # <<>> => AptFound(c, n, a)[1] \in DOMAIN c.entries
<1> DEFINE k == Apt!EntryKey(n, a)   l == <<n, "">>   m == <<n, HostArch>>
           three == <<k, l, m>>
           rest == Apt!ScanEntryByName(c, n)
           all == three \o rest
           T == DOMAIN c.entries
           found == Kept(all, T)
<1>1. k \in Keys /\ l \in Keys /\ m \in Keys
  <2>1. "" \in STRING /\ HostArch \in STRING
    BY ResolversAssumption
  <2> QED
    BY <2>1, EntryKeyIs, KeysAre
<1>2. rest \in Seq(Keys)
  BY ScanIs
<1>3. Apt!Candidates(c, n, a) = Apt!Kept(all, T)
  BY DEF Apt!Candidates
<1>4. Apt!Kept(all, T) = found
  BY SameKept
<1> HIDE DEF k, l, m, rest
<1>5. three \in Seq(Keys)
  BY <1>1
<1> HIDE DEF three
<1>6. all \in Seq(Keys)
  BY <1>2, <1>5, ConcatIs
<1> HIDE DEF all, T
<1>7. found \in Seq(Keys) /\ Range(found) = Range(all) \cap T
  BY <1>6, KeptElements
<1> HIDE DEF found
<1>8. found # <<>> => found[1] \in T
  BY <1>7, FirstIs
<1> QED
  BY <1>3, <1>4, <1>8 DEF AptFound, T

\* What is asked for is what is found, or the same for the host.
LEMMA AptToIs ==
    ASSUME NEW c \in AptCaches, NEW n \in STRING, NEW a \in STRING, AptFound(c, n, a) # <<>>
    PROVE  /\ AptTo(c, n, a).key \in DOMAIN c.entries
           /\ AptTo(c, n, a).arch \in {a, HostArch}
<1> DEFINE first == AptFound(c, n, a)[1]
           host == Apt!EntryKey(n, HostArch)
           to == Apt!RedirectForeignToHost(c, first, n, a)
<1>1. first \in DOMAIN c.entries
  BY AptFoundIs
<1>2. AptTo(c, n, a) = to
  BY DEF AptTo
<1> HIDE DEF first
<1>3. \/ to = [key |-> host, arch |-> HostArch] /\ host \in DOMAIN c.entries
      \/ to = [key |-> first, arch |-> a]
  BY DEF Apt!RedirectForeignToHost
<1> HIDE DEF to, host
<1>4. to.key \in DOMAIN c.entries /\ to.arch \in {a, HostArch}
  BY <1>1, <1>3
<1> QED
  BY <1>2, <1>4

\* What the packages of a cache need and what is provided, and their architectures.
AptNeeds(e) == Range(e.depends) \cup Range(e.preDepends)
AptNames(c) ==
    (UNION {AptNeeds(e) : e \in Range(c.entries)}) \cup UNION {Range(c.providers[v]) : v \in DOMAIN c.providers}
AptArchs(c) == {e.arch : e \in Range(c.entries)}

\* They are finite.
LEMMA AptNamesFinite ==
    ASSUME NEW c \in AptCaches
    PROVE  /\ IsFiniteSet(AptNames(c)) /\ AptNames(c) \subseteq STRING
           /\ IsFiniteSet(AptArchs(c)) /\ AptArchs(c) \subseteq STRING
<1> DEFINE es == c.entries   ps == c.providers
           R == Range(es)
           f == [e \in R |-> AptNeeds(e)]
           h == [v \in DOMAIN ps |-> Range(ps[v])]
           a == [e \in R |-> e.arch]
<1>1. es \in Finitely(Keys, AptInfo) /\ ps \in Finitely(STRING, Seq(STRING))
  BY AptCacheHas
<1> HIDE DEF es, ps
<1>2. /\ IsFiniteSet(DOMAIN es) /\ es = [k \in DOMAIN es |-> es[k]] /\ \A k \in DOMAIN es : es[k] \in AptInfo
      /\ IsFiniteSet(DOMAIN ps) /\ \A v \in DOMAIN ps : ps[v] \in Seq(STRING)
  BY <1>1, FinitelyIs
<1>3. IsFiniteSet(R) /\ R \subseteq AptInfo
  <2>1. IsFiniteSet(R)
    BY <1>2, FiniteImage
  <2> QED
    BY <1>2, <2>1 DEF Range
<1>4. UNION {AptNeeds(e) : e \in R} = UNION Range(f) /\ AptArchs(c) = Range(a)
  BY DEF Range, AptArchs, es
<1>5. UNION {Range(ps[v]) : v \in DOMAIN ps} = UNION Range(h)
  BY DEF Range
<1>6. \A e \in R : e.arch \in STRING /\ e.depends \in Seq(STRING) /\ e.preDepends \in Seq(STRING)
  BY <1>3 DEF AptInfo
<1> HIDE DEF R
<1>7. ASSUME NEW e \in R PROVE IsFiniteSet(AptNeeds(e)) /\ AptNeeds(e) \subseteq STRING
  <2> DEFINE A == Range(e.depends)   B == Range(e.preDepends)
  <2>1. IsFiniteSet(A) /\ A \subseteq STRING
    BY <1>6, FiniteRange
  <2>2. IsFiniteSet(B) /\ B \subseteq STRING
    BY <1>6, FiniteRange
  <2>3. AptNeeds(e) = A \cup B
    BY DEF AptNeeds
  <2> HIDE DEF A, B
  <2>4. IsFiniteSet(A \cup B)
    BY <2>1, <2>2, FS_Union
  <2> QED
    BY <2>1, <2>2, <2>3, <2>4
<1>8. \A v \in DOMAIN ps : IsFiniteSet(h[v]) /\ h[v] \subseteq STRING
  BY <1>2, FiniteRange
<1>9. IsFiniteSet(UNION Range(f)) /\ UNION Range(f) \subseteq STRING
  <2>1. f = [e \in R |-> f[e]] /\ \A e \in R : IsFiniteSet(f[e]) /\ f[e] \subseteq STRING
    BY <1>7
  <2>2. DOMAIN f = R
    OBVIOUS
  <2> HIDE DEF f
  <2>3. IsFiniteSet(UNION Range(f))
    BY <1>3, <2>1, FiniteUnion
  <2> QED
    BY <2>1, <2>2, <2>3 DEF Range
<1>10. IsFiniteSet(UNION Range(h)) /\ UNION Range(h) \subseteq STRING
  <2>1. h = [v \in DOMAIN ps |-> h[v]] /\ DOMAIN h = DOMAIN ps
    OBVIOUS
  <2> HIDE DEF h
  <2>2. IsFiniteSet(UNION Range(h))
    BY <1>2, <1>8, <2>1, FiniteUnion
  <2> QED
    BY <1>8, <2>1, <2>2 DEF Range
<1>11. IsFiniteSet(Range(a)) /\ Range(a) \subseteq STRING
  <2>1. a = [e \in R |-> a[e]] /\ DOMAIN a = R /\ \A e \in R : a[e] \in STRING
    BY <1>6
  <2> HIDE DEF a
  <2>2. IsFiniteSet(Range(a))
    BY <1>3, <2>1, FiniteImage
  <2> QED
    BY <2>1, <2>2 DEF Range
<1> DEFINE A == UNION Range(f)   B == UNION Range(h)
<1>12. AptNames(c) = A \cup B
  BY <1>4, <1>5 DEF AptNames, R, es, ps
<1>13. IsFiniteSet(A) /\ A \subseteq STRING /\ IsFiniteSet(B) /\ B \subseteq STRING
  BY <1>9, <1>10
<1> HIDE DEF A, B
<1>14. IsFiniteSet(A \cup B)
  BY <1>13, FS_Union
<1> QED
  BY <1>4, <1>11, <1>12, <1>13, <1>14

\* What a name leads to.
LEMMA AptNode ==
    ASSUME NEW c \in AptCaches, NEW n \in STRING, NEW a \in STRING
    PROVE  /\ AptNextOf(c, n, a) \in Seq(Keys)
           /\ \A z \in Range(AptNextOf(c, n, a)) :
                 z[1] \in AptNames(c) /\ z[2] \in AptArchs(c) \cup {HostArch, a}
           /\ AptAdds(c, n, a) \in Seq(Keys)
           /\ AptMisses(c, n, a) \in Seq(STRING)
<1> DEFINE to == AptTo(c, n, a)
           info == AptFrom(c, n, a)
           deps == AptDeps(c, n, a)
           below == AptBelow(c, n, a)
           next == AptNextOf(c, n, a)
           Next1(z) == z \in Keys /\ z[1] \in AptNames(c) /\ z[2] \in AptArchs(c) \cup {HostArch, a}
<1>1. HostArch \in STRING
  BY ResolversAssumption
<1>2. AptMisses(c, n, a) \in Seq(STRING)
  BY ShortSeq DEF AptMisses
<1>3. CASE AptFound(c, n, a) # <<>>
  <2>1. to.key \in DOMAIN c.entries /\ to.arch \in {a, HostArch}
    BY <1>3, AptToIs
  <2>2. c.entries \in Finitely(Keys, AptInfo)
    BY AptCacheHas
  <2>3. info = c.entries[to.key]
    BY DEF AptFrom
  <2>4. to.key \in Keys /\ info \in AptInfo /\ info \in Range(c.entries)
    <3> DEFINE es == c.entries   k == to.key
    <3> HIDE DEF es, k
    <3>1. es \in Finitely(Keys, AptInfo) /\ k \in DOMAIN es /\ info = es[k]
      BY <2>1, <2>2, <2>3 DEF es, k
    <3>2. k \in Keys /\ info \in AptInfo /\ info \in Range(es)
      BY <3>1, FinitelyIs DEF Range
    <3> QED
      BY <3>2 DEF es, k
  <2>5. AptAdds(c, n, a) \in Seq(Keys)
    <3>1. AptAdds(c, n, a) \in {<<to.key>>, <<>>}
      BY DEF AptAdds
    <3> DEFINE k == to.key
    <3>2. AptAdds(c, n, a) \in {<<k>>, <<>>} /\ k \in Keys
      BY <2>4, <3>1
    <3> HIDE DEF k
    <3> QED
      BY <3>2, ShortSeq
  <2>6. below = IF info.arch \notin {"", "all"} THEN info.arch ELSE to.arch
    BY DEF AptBelow
  <2>7. deps = info.preDepends \o info.depends
    BY DEF AptDeps
  <2>8. next = [i \in DOMAIN deps |-> <<deps[i], below>>]
    BY <1>3 DEF AptNextOf
  <2> HIDE DEF to, info, deps, below, next
  <2>9. below \in AptArchs(c) \cup {HostArch, a} /\ below \in STRING
    <3>1. info.arch \in AptArchs(c) /\ info.arch \in STRING
      BY <2>4 DEF AptArchs, AptInfo
    <3> QED
      BY <1>1, <2>1, <2>6, <3>1
  <2>10. /\ deps \in Seq(STRING)
         /\ Range(deps) \subseteq AptNames(c)
    <3> DEFINE p == info.preDepends   d == info.depends
    <3>1. p \in Seq(STRING) /\ d \in Seq(STRING)
      BY <2>4 DEF AptInfo
    <3>2. Range(p) \subseteq AptNames(c) /\ Range(d) \subseteq AptNames(c)
      BY <2>4 DEF AptNames, AptNeeds
    <3>3. deps = p \o d
      BY <2>7
    <3> HIDE DEF p, d
    <3>4. p \o d \in Seq(STRING) /\ Range(p \o d) = Range(p) \cup Range(d)
      BY <3>1, RangeOfConcat
    <3> QED
      BY <3>2, <3>3, <3>4
  <2>11. DOMAIN deps = 1..Len(deps) /\ Len(deps) \in Nat
         /\ \A i \in DOMAIN deps : deps[i] \in STRING /\ deps[i] \in Range(deps)
    BY <2>10 DEF Range
  <2>12. ASSUME NEW i \in DOMAIN deps PROVE Next1(<<deps[i], below>>)
    <3> DEFINE d == deps[i]   z == <<d, below>>
    <3>1. d \in STRING /\ d \in AptNames(c)
      BY <2>10, <2>11
    <3> HIDE DEF d
    <3>2. z \in Keys
      BY <2>9, <3>1, KeysAre
    <3>3. z[1] = d /\ z[2] = below
      OBVIOUS
    <3> HIDE DEF z
    <3>4. Next1(z)
      BY <2>9, <3>1, <3>2, <3>3
    <3> QED
      BY <3>4 DEF d, z
  <2>13. next = [i \in 1..Len(deps) |-> next[i]] /\ \A i \in 1..Len(deps) : Next1(next[i])
    <3> HIDE DEF Next1
    <3> QED
      BY <2>8, <2>11, <2>12
  <2>14. next \in Seq(Keys)
    BY <2>11, <2>13
  <2>15. \A z \in Range(next) : Next1(z)
    <3>1. DOMAIN next = 1..Len(deps)
      BY <2>13
    <3> HIDE DEF Next1
    <3> QED
      BY <2>13, <3>1 DEF Range
  <2> QED
    BY <1>2, <2>5, <2>14, <2>15 DEF next
<1>4. CASE AptFound(c, n, a) = <<>>
  <2> DEFINE p == Apt!At(c.providers, n)
  <2>1. AptAdds(c, n, a) = <<>>
    BY <1>4 DEF AptAdds
  <2>2. AptAdds(c, n, a) \in Seq(Keys)
    BY <2>1, ShortSeq
  <2>3. c.providers \in Finitely(STRING, Seq(STRING))
    BY AptCacheHas
  <2>4. p \in Seq(STRING)
    BY <2>3, AtIs
  <2>5. p # <<>> => n \in DOMAIN c.providers /\ p = c.providers[n]
    BY DEF Apt!At
  <2>6. next = IF p # <<>> THEN <<<<p[1], a>>>> ELSE <<>>
    BY <1>4, <2>5 DEF AptNextOf
  <2> HIDE DEF p, next
  <2>7. CASE p = <<>>
    <3>1. next = <<>>
      BY <2>6, <2>7
    <3> QED
      BY <1>2, <2>2, <3>1, ShortSeq, EmptyRange DEF next
  <2>8. CASE p # <<>>
    <3> DEFINE q == p[1]   z == <<q, a>>
    <3>1. q \in STRING /\ q \in Range(p)
      BY <2>4, <2>8, FirstIs
    <3>2. q \in AptNames(c)
      BY <2>5, <2>8, <3>1 DEF AptNames
    <3> HIDE DEF q
    <3>3. z \in Keys
      BY <3>1, KeysAre
    <3>4. z[1] = q /\ z[2] = a
      OBVIOUS
    <3>5. next = <<z>>
      BY <2>6, <2>8 DEF q
    <3> HIDE DEF z
    <3>6. next \in Seq(Keys)
      BY <3>3, <3>5, ShortSeq
    <3>7. \A y \in Range(next) : y = z
      BY <3>5 DEF Range
    <3> QED
      BY <1>2, <2>2, <3>2, <3>4, <3>6, <3>7 DEF next
  <2> QED
    BY <2>7, <2>8
<1> QED
  BY <1>3, <1>4

\* What is asked for is asked for the host's architecture or another.
LEMMA NormalIs ==
    ASSUME NEW a \in STRING
    PROVE  Normal(a) \in STRING /\ Normal(a) # "" /\ Normal(a) \in {HostArch, a}
BY ResolversAssumption DEF Normal

\* Names asked for the same mark are asked for the same architecture.
LEMMA SameKey ==
    ASSUME NEW n \in STRING, NEW m \in STRING, NEW a \in STRING, NEW b \in STRING, a # "", b # "",
           Apt!EntryKey(n, a) = Apt!EntryKey(m, b)
    PROVE  n = m /\ a = b
BY DEF Apt!EntryKey

\* The graph of apt is one the visitor is right about.
THEOREM AptFit ==
    ASSUME NEW c \in AptCaches
    PROVE  Fit(Apt!Graph(c), Keys, Keys, STRING)
<1> DEFINE g == Apt!Graph(c)
<1>1. /\ DOMAIN g = Keys
      /\ \A x \in Keys :
           /\ Mark(g, x) = Apt!EntryKey(x[1], Normal(x[2]))
           /\ NextOf(g, x) = AptNextOf(c, x[1], Normal(x[2]))
           /\ Adds(g, x) = AptAdds(c, x[1], Normal(x[2]))
           /\ g[x].misses = AptMisses(c, x[1], Normal(x[2]))
  BY AptGraphIs
<1> HIDE DEF g
<1>2. ASSUME NEW x \in Keys
      PROVE  /\ Mark(g, x) \in Keys
             /\ NextOf(g, x) \in Seq(Keys)
             /\ \A z \in Range(NextOf(g, x)) :
                   z[1] \in AptNames(c) /\ z[2] \in AptArchs(c) \cup {HostArch, x[2]}
             /\ Adds(g, x) \in Seq(Keys)
             /\ g[x].misses \in Seq(STRING)
  <2> DEFINE n == x[1]   a == Normal(x[2])
  <2>1. n \in STRING /\ a \in STRING /\ a \in {HostArch, x[2]}
    BY KeysAre, NormalIs
  <2>2. /\ Mark(g, x) = Apt!EntryKey(n, a) /\ NextOf(g, x) = AptNextOf(c, n, a)
        /\ Adds(g, x) = AptAdds(c, n, a) /\ g[x].misses = AptMisses(c, n, a)
    BY <1>1
  <2> HIDE DEF n, a
  <2>3. Apt!EntryKey(n, a) \in Keys
    BY <2>1, EntryKeyIs
  <2>4. /\ AptNextOf(c, n, a) \in Seq(Keys)
        /\ \A z \in Range(AptNextOf(c, n, a)) :
              z[1] \in AptNames(c) /\ z[2] \in AptArchs(c) \cup {HostArch, a}
        /\ AptAdds(c, n, a) \in Seq(Keys)
        /\ AptMisses(c, n, a) \in Seq(STRING)
    BY <2>1, AptNode
  <2> QED
    BY <2>1, <2>2, <2>3, <2>4
<1>3. GraphOver(g, Keys, Keys, STRING)
  BY <1>1, <1>2 DEF GraphOver, Mark, NextOf, Adds
<1>4. LocallyFinite(g)
  <2> SUFFICES ASSUME NEW x \in Keys PROVE \E U : Confined(g, U) /\ x \in U
    BY <1>1 DEF LocallyFinite
  <2> DEFINE N == AptNames(c) \cup {x[1]}
             A == (AptArchs(c) \cup {HostArch}) \cup {x[2]}
             U == N \X A
  <2>1. /\ IsFiniteSet(AptNames(c)) /\ AptNames(c) \subseteq STRING
        /\ IsFiniteSet(AptArchs(c)) /\ AptArchs(c) \subseteq STRING
    BY AptNamesFinite
  <2>2. x[1] \in STRING /\ x[2] \in STRING /\ x = <<x[1], x[2]>> /\ HostArch \in STRING
    BY KeysAre, ResolversAssumption
  <2>3. IsFiniteSet(N) /\ N \subseteq STRING /\ x[1] \in N /\ AptNames(c) \subseteq N
    BY <2>1, <2>2, FS_AddElement
  <2>4. IsFiniteSet(A) /\ A \subseteq STRING /\ x[2] \in A /\ AptArchs(c) \cup {HostArch} \subseteq A
    <3>1. IsFiniteSet(AptArchs(c) \cup {HostArch})
      BY <2>1, FS_AddElement
    <3>2. IsFiniteSet(A)
      BY <3>1, FS_AddElement
    <3> QED
      BY <2>1, <2>2, <3>2
  <2> HIDE DEF N, A
  <2>5. IsFiniteSet(U)
    BY <2>3, <2>4, FS_Product
  <2>6. U \subseteq Keys /\ x \in U
    BY <2>2, <2>3, <2>4 DEF Keys
  <2>7. \A y \in Keys : y \in U <=> y[1] \in N /\ y[2] \in A
    <3>1. \A y \in Keys : y[1] \in N /\ y[2] \in A => y \in U
      BY KeysAre
    <3>2. \A y \in U : y[1] \in N /\ y[2] \in A
      OBVIOUS
    <3> QED
      BY <3>1, <3>2
  <2> HIDE DEF U
  <2>8. ClosedUnder(g, U)
    <3> SUFFICES ASSUME NEW y \in U, NEW z \in Range(NextOf(g, y)) PROVE z \in U
      BY DEF ClosedUnder, NextOf
    <3>1. y \in Keys /\ y[2] \in A
      BY <2>6, <2>7
    <3>2. z \in Keys
      BY <1>2, <3>1, FiniteRange
    <3>3. z[1] \in AptNames(c) /\ z[2] \in AptArchs(c) \cup {HostArch, y[2]}
      BY <1>2, <3>1
    <3>4. z[1] \in N /\ z[2] \in A
      BY <2>3, <2>4, <3>1, <3>3
    <3> QED
      BY <2>7, <3>2, <3>4
  <2>9. Confined(g, U)
    BY <1>1, <2>5, <2>6, <2>8 DEF Confined
  <2> QED
    BY <2>6, <2>9
<1>5. ASSUME NEW U \in SUBSET DOMAIN g PROVE MarksAgree(g, U)
  <2> SUFFICES ASSUME NEW x \in U, NEW y \in U, Mark(g, x) = Mark(g, y)
               PROVE  /\ Range(Adds(g, x)) = Range(Adds(g, y))
                      /\ \A z \in Range(NextOf(g, x)) :
                            \E w \in Range(NextOf(g, y)) : Mark(g, w) = Mark(g, z)
    BY DEF MarksAgree
  <2>1. x \in Keys /\ y \in Keys
    BY <1>1
  <2>2. x[2] \in STRING /\ y[2] \in STRING
    BY <2>1, KeysAre
  <2>3. Normal(x[2]) # "" /\ Normal(y[2]) # ""
    BY <2>2, NormalIs
  <2>4. Apt!EntryKey(x[1], Normal(x[2])) = Apt!EntryKey(y[1], Normal(y[2]))
    BY <1>1, <2>1
  <2>5. x[1] = y[1] /\ Normal(x[2]) = Normal(y[2])
    <3> DEFINE n == x[1]   m == y[1]   a == Normal(x[2])   b == Normal(y[2])
    <3>1. /\ n \in STRING /\ m \in STRING /\ a \in STRING /\ b \in STRING
          /\ a # "" /\ b # "" /\ Apt!EntryKey(n, a) = Apt!EntryKey(m, b)
      BY <2>1, <2>2, <2>3, <2>4, KeysAre, NormalIs
    <3> HIDE DEF n, m, a, b
    <3>3. n \in STRING /\ m \in STRING /\ a \in STRING /\ b \in STRING
      BY <3>1
    <3>4. a # "" /\ b # ""
      BY <3>1
    <3>5. Apt!EntryKey(n, a) = Apt!EntryKey(m, b)
      BY <3>1
    <3>6. n = m
      BY <3>3, <3>4, <3>5, SameKey
    <3>7. a = b
      BY <3>4, <3>5 DEF Apt!EntryKey
    <3>2. n = m /\ a = b
      BY <3>6, <3>7
    <3> QED
      BY <3>2 DEF n, m, a, b
  <2>6. Adds(g, x) = Adds(g, y) /\ NextOf(g, x) = NextOf(g, y)
    BY <1>1, <2>1, <2>5
  <2> QED
    BY <2>6
<1> QED
  BY <1>3, <1>4, <1>5 DEF Fit, g

--------------------------------------------------------------------------------
(* The resolvers. *)

\* The visitor, whatever module it is used in.
LEMMA SameVisitor ==
    ASSUME NEW S, NEW g, NEW seeds
    PROVE  /\ Apt!VisitAll(S, g, seeds) = VisitAll(S, g, seeds)
           /\ Dnf!VisitAll(S, g, seeds) = VisitAll(S, g, seeds)
           /\ Apk!VisitAll(S, g, seeds) = VisitAll(S, g, seeds)
BY DEF Apt!VisitAll, Apt!Visit, Apt!Walk, Apt!NothingSeen, Dnf!VisitAll, Dnf!Visit, Dnf!Walk, Dnf!NothingSeen,
       Apk!VisitAll, Apk!Visit, Apk!Walk, Apk!NothingSeen, VisitAll, Visit, Walk, NothingSeen

\* What is left of a plan, in its order.
Thinned(order, whole, A) ==
    /\ Range(order) = Range(whole) \cap A
    /\ \A i \in DOMAIN order : \E j \in DOMAIN whole :
          /\ order[i] = whole[j]
          /\ \A m \in 1..(j - 1) : whole[m] \in A => \E k \in 1..(i - 1) : order[k] = whole[m]

\* All of it may be left.
LEMMA NothingThinned ==
    ASSUME NEW O, NEW whole \in Seq(O)
    PROVE  Thinned(whole, whole, O)
<1>1. Range(whole) = Range(whole) \cap O
  BY FiniteRange
<1>2. ASSUME NEW i \in DOMAIN whole
      PROVE  /\ whole[i] = whole[i]
             /\ \A m \in 1..(i - 1) : whole[m] \in O => \E k \in 1..(i - 1) : whole[k] = whole[m]
  OBVIOUS
<1> QED
  BY <1>1, <1>2 DEF Thinned

\* What Kept leaves of a plan is in its order.
LEMMA KeptIsThinned ==
    ASSUME NEW O, NEW whole \in Seq(O), NEW A
    PROVE  Thinned(Kept(whole, A), whole, A)
BY KeptElements DEF Thinned

\* The plan of the packages of A: for every node of the closure, in order.
PlanFor(g, U, A, order) ==
    /\ U \subseteq DOMAIN g
    /\ \A x \in U : \A y \in Range(NextOf(g, x)) : From(g, y) \subseteq DOMAIN g
    /\ \A p : p \in Range(order) <=> \E x \in U : p \in Range(Adds(g, x)) /\ p \in A
    /\ \A i \in DOMAIN order : \E x \in U :
          /\ order[i] \in Range(Adds(g, x)) /\ order[i] \in A
          /\ \A y \in Range(NextOf(g, x)) :
                (\A z \in From(g, y) : Mark(g, z) # Mark(g, x)) =>
                    \A z \in From(g, y) : \A p \in Range(Adds(g, z)) :
                        p \in A => \E m \in 1..(i - 1) : order[m] = p

\* What is left of a plan of the visitor is a plan.
LEMMA PlanIsRight ==
    ASSUME NEW M, NEW O, NEW N, NEW g, Fit(g, M, O, N), NEW seeds \in Seq(DOMAIN g), NEW A, NEW order,
           NEW whole, whole = PlanOf(VisitAll(States(M, O, N), g, seeds)),
           whole \in Seq(O) => Thinned(order, whole, A)
    PROVE  PlanFor(g, Reach(g, Range(seeds)), A, order)
<1> DEFINE U == Reach(g, Range(seeds))
<1>1. GraphOver(g, M, O, N) /\ LocallyFinite(g)
  BY DEF Fit
<1>2. MarksAgree(g, U)
  <2>1. IsFiniteSet(Range(seeds)) /\ Range(seeds) \in SUBSET DOMAIN g
    BY FiniteRange
  <2>2. Part(g, U)
    BY <1>1, <2>1, ClosureIsPart
  <2>3. U \in SUBSET DOMAIN g
    BY <2>2 DEF Part, Confined
  <2> HIDE DEF U
  <2> QED
    BY <2>3 DEF Fit
<1>8. Part(g, U)
  <2>1. IsFiniteSet(Range(seeds)) /\ Range(seeds) \in SUBSET DOMAIN g
    BY FiniteRange
  <2> QED
    BY <1>1, <2>1, ClosureIsPart
<1>3. /\ whole \in Seq(O)
      /\ \A p : p \in Range(whole) <=> \E x \in U : p \in Range(Adds(g, x))
      /\ \A i \in DOMAIN whole : \E x \in U : Placed(g, whole, i, x)
  <2>1. LET order2 == PlanOf(VisitAll(States(M, O, N), g, seeds))
        IN  /\ order2 \in Seq(O)
            /\ \A p : p \in Range(order2) <=> \E x \in U : p \in Range(Adds(g, x))
            /\ \A i \in DOMAIN order2 : \E x \in U : Placed(g, order2, i, x)
    BY <1>1, <1>2, VisitorIsCorrect
  <2> QED
    BY <2>1
<1>4. Thinned(order, whole, A)
  BY <1>3
<1> HIDE DEF U
<1>5. \A p : p \in Range(order) <=> \E x \in U : p \in Range(Adds(g, x)) /\ p \in A
  BY <1>3, <1>4 DEF Thinned
<1>6. ASSUME NEW i \in DOMAIN order
      PROVE  \E x \in U :
               /\ order[i] \in Range(Adds(g, x)) /\ order[i] \in A
               /\ \A y \in Range(NextOf(g, x)) :
                     (\A z \in From(g, y) : Mark(g, z) # Mark(g, x)) =>
                         \A z \in From(g, y) : \A p \in Range(Adds(g, z)) :
                             p \in A => \E m \in 1..(i - 1) : order[m] = p
  <2>1. PICK j \in DOMAIN whole :
             /\ order[i] = whole[j]
             /\ \A m \in 1..(j - 1) : whole[m] \in A => \E k \in 1..(i - 1) : order[k] = whole[m]
    BY <1>4 DEF Thinned
  <2>2. PICK x \in U : Placed(g, whole, j, x)
    BY <1>3
  <2>3. order[i] \in A
    BY <1>4 DEF Thinned, Range
  <2>4. ASSUME NEW y \in Range(NextOf(g, x)), \A z \in From(g, y) : Mark(g, z) # Mark(g, x),
               NEW z \in From(g, y), NEW p \in Range(Adds(g, z)), p \in A
        PROVE  \E m \in 1..(i - 1) : order[m] = p
    <3>1. PICK m \in 1..(j - 1) : whole[m] = p
      BY <2>2, <2>4 DEF Placed
    <3> QED
      BY <2>1, <2>4, <3>1
  <2> QED
    BY <2>1, <2>2, <2>3, <2>4 DEF Placed
<1>9. U \subseteq DOMAIN g
  BY <1>8 DEF Part, Confined
<1>10. ASSUME NEW x \in U, NEW y \in Range(NextOf(g, x)) PROVE From(g, y) \subseteq DOMAIN g
  <2>1. y \in U
    BY <1>8 DEF Part, Confined, ClosedUnder, NextOf
  <2>2. From(g, y) \subseteq U
    BY <1>8, <2>1, FromIs
  <2> QED
    BY <1>9, <2>2
<1>7. PlanFor(g, U, A, order)
  BY <1>5, <1>6, <1>9, <1>10 DEF PlanFor
<1> QED
  BY <1>7 DEF U

\* What apt is asked for.
AptSeeds(c, seeds) ==
    [n \in DOMAIN Apt!FilterInstalledDEB(c, seeds) |-> Apt!ResolveVirtual(c, Apt!FilterInstalledDEB(c, seeds)[n])]

\* What apt is asked for is asked for by keys.
LEMMA AptSeedsAre ==
    ASSUME NEW c \in AptCaches, NEW seeds \in Seq(Keys)
    PROVE  AptSeeds(c, seeds) \in Seq(Keys)
<1> DEFINE missing == Apt!FilterInstalledDEB(c, seeds)
<1>1. missing \in Seq(Keys)
  <2> DEFINE T == {seed \in Apt!Range(seeds) :
                     \/ seed[2] \notin {"", HostArch}
                     \/ Apt!Lookup(c, seed[1]) = <<>>
                     \/ ~c.entries[Apt!Lookup(c, seed[1])[1]].installed}
  <2>1. missing = Apt!Kept(seeds, T)
    BY DEF Apt!FilterInstalledDEB
  <2> HIDE DEF T, missing
  <2>2. missing = Kept(seeds, T)
    BY <2>1, SameKept
  <2> QED
    BY <2>2, KeptElements
<1>2. ASSUME NEW x \in Keys PROVE Apt!ResolveVirtual(c, x) \in Keys
  <2> DEFINE n == x[1]   p == Apt!At(c.providers, n)   q == p[1]
  <2>1. c.providers \in Finitely(STRING, Seq(STRING))
    BY AptCacheHas
  <2>2. p \in Seq(STRING)
    BY <2>1, AtIs
  <2>3. p # <<>> => p = c.providers[n]
    BY DEF Apt!At
  <2>4. Apt!ResolveVirtual(c, x) = x \/ (p # <<>> /\ Apt!ResolveVirtual(c, x) = <<q, "">>)
    BY <2>3 DEF Apt!ResolveVirtual
  <2> HIDE DEF p
  <2>5. p # <<>> => <<q, "">> \in Keys
    <3>1. "" \in STRING
      BY ResolversAssumption
    <3>2. p # <<>> => q \in STRING
      BY <2>2, FirstIs
    <3> HIDE DEF q
    <3> QED
      BY <3>1, <3>2, KeysAre
  <2> QED
    BY <2>4, <2>5
<1>3. AptSeeds(c, seeds) = [n \in DOMAIN missing |-> Apt!ResolveVirtual(c, missing[n])]
  BY DEF AptSeeds
<1> HIDE DEF missing
<1>4. DOMAIN missing = 1..Len(missing) /\ Len(missing) \in Nat /\ \A n \in DOMAIN missing : missing[n] \in Keys
  BY <1>1
<1>5. \A n \in 1..Len(missing) : Apt!ResolveVirtual(c, missing[n]) \in Keys
  BY <1>2, <1>4
<1> QED
  BY <1>3, <1>4, <1>5

\* What runs on the host or may stand beside what does.
AptAllowed(c) == {p \in Keys : c.entries[p].arch \in {"", "all", HostArch} \/ c.entries[p].multiArch = "same"}

\* The plan of apt.
LEMMA AptPlan ==
    ASSUME NEW c \in AptCaches, NEW seeds \in Seq(Keys)
    PROVE  PlanFor(Apt!Graph(c), Reach(Apt!Graph(c), Range(seeds)), AptAllowed(c),
                   Apt!FilterForeignArchPackages(c, Apt!ResolveDeps(c, seeds).order))
<1> DEFINE g == Apt!Graph(c)
           S == States(Keys, Keys, STRING)
           whole == PlanOf(VisitAll(S, g, seeds))
           order == Apt!FilterForeignArchPackages(c, whole)
           A == AptAllowed(c)
<1>1. Apt!VisitState = S
  BY DEF Apt!VisitState, States, Keys
<1>2. Apt!ResolveDeps(c, seeds) = Apt!VisitAll(Apt!VisitState, g, seeds)
  BY DEF Apt!ResolveDeps
<1>3. Fit(g, Keys, Keys, STRING) /\ DOMAIN g = Keys
  BY AptFit, AptGraphIs
<1> HIDE DEF S, g
<1>4. Apt!ResolveDeps(c, seeds).order = whole
  <2>1. Apt!VisitAll(S, g, seeds) = VisitAll(S, g, seeds)
    BY SameVisitor
  <2>2. Apt!ResolveDeps(c, seeds) = VisitAll(S, g, seeds)
    BY <1>1, <1>2, <2>1
  <2> QED
    BY <2>2 DEF PlanOf
<1>5. whole \in Seq(Keys) => Thinned(order, whole, A)
  <2> SUFFICES ASSUME whole \in Seq(Keys) PROVE Thinned(order, whole, A)
    OBVIOUS
  <2> DEFINE T == {key \in Apt!Range(whole) : c.entries[key].arch \in {"", "all", HostArch}
                                                \/ c.entries[key].multiArch = "same"}
             some == Kept(whole, T)
  <2>1. order = some
    <3>1. order = Apt!Kept(whole, T)
      BY DEF Apt!FilterForeignArchPackages
    <3> HIDE DEF T, whole
    <3> QED
      BY <3>1, SameKept
  <2>2. T = Range(whole) \cap A
    <3>1. Range(whole) \subseteq Keys
      BY FiniteRange
    <3>2. Apt!Range(whole) = Range(whole)
      BY SameRange
    <3> HIDE DEF whole
    <3> QED
      BY <3>1, <3>2 DEF AptAllowed
  <2>3. Thinned(some, whole, T)
    <3> HIDE DEF T, whole
    <3> QED
      BY KeptIsThinned
  <2> HIDE DEF T, whole, A, order
  <2>4. \A m \in DOMAIN whole : whole[m] \in A => whole[m] \in T
    BY <2>2 DEF Range
  <2>5. \A j \in DOMAIN whole : \A m \in 1..(j - 1) : m \in DOMAIN whole
    <3>1. DOMAIN whole = 1..Len(whole) /\ Len(whole) \in Nat
      OBVIOUS
    <3> QED
      BY <3>1
  <2> HIDE DEF some
  <2>6. Thinned(some, whole, A)
    BY <2>2, <2>3, <2>4, <2>5 DEF Thinned
  <2> QED
    BY <2>1, <2>6
<1> HIDE DEF whole, order, A
<1>6. seeds \in Seq(DOMAIN g)
  BY <1>3
<1>7. PlanFor(g, Reach(g, Range(seeds)), A, order)
  BY <1>3, <1>5, <1>6, PlanIsRight DEF whole, S
<1> QED
  BY <1>4, <1>7 DEF g, A, order

\* The plan of dnf.
LEMMA DnfPlan ==
    ASSUME NEW docs, NEW c \in DnfCaches(docs), NEW have, NEW seeds \in Seq(Dnf!Dependency)
    PROVE  PlanFor(Dnf!Graph(c, have), Reach(Dnf!Graph(c, have), Range(Dnf!Each(seeds, FALSE))), Dnf!Package,
                   Dnf!ResolveDeps(c, have, seeds).order)
<1> DEFINE g == Dnf!Graph(c, have)
           S == States(Dnf!Dependency, Dnf!Package, STRING)
           from == Dnf!Each(seeds, FALSE)
           whole == PlanOf(VisitAll(S, g, from))
           O == Dnf!Package
<1>1. Dnf!VisitState = S
  BY DEF Dnf!VisitState, States
<1>2. Dnf!ResolveDeps(c, have, seeds) = Dnf!VisitAll(Dnf!VisitState, g, from)
  BY DEF Dnf!ResolveDeps
<1>3. Fit(g, Dnf!Dependency, O, STRING)
  BY DnfFit
<1>4. DOMAIN g = DnfNodes
  BY DEF Dnf!Graph, DnfNodes
<1>5. from \in Seq(DnfNodes)
  BY EachIs
<1> HIDE DEF S, g, from, O
<1>6. Dnf!ResolveDeps(c, have, seeds).order = whole
  <2>1. Dnf!VisitAll(S, g, from) = VisitAll(S, g, from)
    BY SameVisitor
  <2>2. Dnf!ResolveDeps(c, have, seeds) = VisitAll(S, g, from)
    BY <1>1, <1>2, <2>1
  <2> QED
    BY <2>2 DEF PlanOf
<1>7. whole \in Seq(O) => Thinned(whole, whole, O)
  BY NothingThinned
<1> HIDE DEF whole
<1>8. from \in Seq(DOMAIN g)
  BY <1>4, <1>5
<1>9. PlanFor(g, Reach(g, Range(from)), O, whole)
  BY <1>3, <1>7, <1>8, PlanIsRight DEF whole, S, O
<1> QED
  BY <1>6, <1>9 DEF g, from, O

\* The plan of apk.
LEMMA ApkPlan ==
    ASSUME NEW c \in ApkCaches, NEW seeds \in Seq(Apk!Dependency)
    PROVE  PlanFor(Apk!Graph(c), Reach(Apk!Graph(c), Range(Apk!Nodes(seeds))), Apk!Package,
                   Apk!ResolveDeps(c, seeds).order)
<1> DEFINE g == Apk!Graph(c)
           S == States(STRING, Apk!Package, STRING)
           from == Apk!Nodes(seeds)
           whole == PlanOf(VisitAll(S, g, from))
           O == Apk!Package
<1>1. Apk!VisitState = S
  BY DEF Apk!VisitState, States
<1>2. Apk!ResolveDeps(c, seeds) = Apk!VisitAll(Apk!VisitState, g, from)
  BY DEF Apk!ResolveDeps
<1>3. Fit(g, STRING, O, STRING)
  BY ApkFit
<1>4. DOMAIN g = STRING
  BY DEF Apk!Graph
<1>5. from \in Seq(STRING)
  <2>1. \A d \in Apk!Dependency : d.names[1] \in STRING
    BY DEF Apk!Dependency
  <2>2. DOMAIN seeds = 1..Len(seeds) /\ Len(seeds) \in Nat /\ \A n \in DOMAIN seeds : seeds[n] \in Apk!Dependency
    OBVIOUS
  <2>3. \A n \in 1..Len(seeds) : seeds[n].names[1] \in STRING
    BY <2>1, <2>2
  <2>4. from = [n \in 1..Len(seeds) |-> seeds[n].names[1]]
    BY <2>2 DEF Apk!Nodes
  <2> QED
    BY <2>2, <2>3, <2>4
<1> HIDE DEF S, g, from, O
<1>6. Apk!ResolveDeps(c, seeds).order = whole
  <2>1. Apk!VisitAll(S, g, from) = VisitAll(S, g, from)
    BY SameVisitor
  <2>2. Apk!ResolveDeps(c, seeds) = VisitAll(S, g, from)
    BY <1>1, <1>2, <2>1
  <2> QED
    BY <2>2 DEF PlanOf
<1>7. whole \in Seq(O) => Thinned(whole, whole, O)
  BY NothingThinned
<1> HIDE DEF whole
<1>8. from \in Seq(DOMAIN g)
  BY <1>4, <1>5
<1>9. PlanFor(g, Reach(g, Range(from)), O, whole)
  BY <1>3, <1>7, <1>8, PlanIsRight DEF whole, S, O
<1> QED
  BY <1>6, <1>9 DEF g, from, O

\* What has been loaded when all files have been, or, for dnf, some.
Loaded(w, t, f, c) ==
    /\ w.manager = "apt" => (t = {} => c = Apt!LoadFromDisk(w.files, w.status))
    /\ w.manager = "dnf" =>
         /\ c \in DnfCaches(w.docs)
         /\ DnfBest(w.docs, c.packages, UNION {Range(w.files[i].packages) : i \in DOMAIN w.files \ t})
    /\ w.manager = "apk" => (t = {} => c = Apk!Update(w.files, f))

SeedsOf(w, c) == IF w.manager # "apt" THEN w.seeds ELSE AptSeeds(c, w.seeds)

OrderOf(w, c) ==
    CASE w.manager = "apt" -> Apt!FilterForeignArchPackages(c, Apt!ResolveDeps(c, SeedsOf(w, c)).order)
      [] w.manager = "dnf" -> Dnf!ResolveDeps(c, w.have, SeedsOf(w, c)).order
      [] w.manager = "apk" -> Apk!ResolveDeps(c, SeedsOf(w, c)).order

Sound(w, t, f, c, r) ==
    /\ w \in Worlds
    /\ w.manager = "dnf" => t \subseteq DOMAIN w.files
    /\ Loaded(w, t, f, c)
    /\ r.resolved => t = {} /\ r.order = OrderOf(w, c)

\* The inductive invariant: what is in the cache comes from what has been loaded, and
\* the result is that of the resolver on it.
IInv == Sound(world, todo, fetched, cache, result)

\* A world is one of a manager.
LEMMA WorldIs ==
    ASSUME NEW w \in Worlds
    PROVE  /\ w.manager \in {"apt", "dnf", "apk"}
           /\ w.manager = "apt" => IsAptWorld(w)
           /\ w.manager = "dnf" => IsDnfWorld(w)
           /\ w.manager = "apk" => IsApkWorld(w)
BY ResolversAssumption

\* The packages of the files of a dnf world are offered.
LEMMA DnfFilesAre ==
    ASSUME NEW w, IsDnfWorld(w)
    PROVE  \A i \in DOMAIN w.files : w.files[i].packages \in Seq(Offered)
<1> DEFINE files == w.files   R == [repo : STRING, packages : Seq(Offered)]
<1>1. files \in Seq(R)
  BY DEF IsDnfWorld, Offered
<1>2. \A r \in R : r.packages \in Seq(Offered)
  OBVIOUS
<1> HIDE DEF files, R
<1>3. \A i \in DOMAIN files : files[i] \in R
  BY <1>1
<1> QED
  BY <1>2, <1>3 DEF files

\* Nothing has been read into a new cache of dnf.
LEMMA NewDnfCacheIs ==
    ASSUME NEW docs
    PROVE  Dnf!NewCache(docs) \in DnfCaches(docs) /\ DnfBest(docs, Dnf!NewCache(docs).packages, {})
<1> DEFINE p == <<>>   v == <<>>   c == [packages |-> p, providers |-> v, modules |-> docs]
<1>1. Dnf!NewCache(docs) = c
  BY DEF Dnf!NewCache
<1>2. p \in Finitely(STRING, Offered) /\ v \in Finitely(STRING, Seq(Offered))
  <2>1. IsFiniteSet({})
    BY FS_EmptySet
  <2>2. DOMAIN <<>> = {} /\ <<>> \in [{} -> Offered] /\ <<>> \in [{} -> Seq(Offered)]
    OBVIOUS
  <2> QED
    BY <2>1, <2>2, FinitelyIs
<1>3. DOMAIN p = {}
  OBVIOUS
<1> HIDE DEF p, v
<1>4. c \in DnfCaches(docs) /\ c.packages = p
  BY <1>2 DEF DnfCaches
<1> HIDE DEF c
<1>5. DnfBest(docs, p, {})
  BY <1>3 DEF DnfBest, DnfOffers
<1> QED
  BY <1>1, <1>4, <1>5

\* The state before anything was loaded.
LEMMA InitSound == Init => IInv
<1> SUFFICES ASSUME Init PROVE Sound(world, todo, fetched, cache, result)
  BY DEF IInv
<1>1. world \in Worlds /\ result = None
  BY DEF Init
<1>2. ~result.resolved
  BY <1>1 DEF None
<1>3. world.manager \in {"apt", "dnf", "apk"}
  BY <1>1, WorldIs
<1>4. CASE world.manager = "dnf"
  <2>1. todo = DOMAIN world.files /\ cache = Dnf!NewCache(world.docs)
    BY <1>4 DEF Init
  <2>2. UNION {Range(world.files[i].packages) : i \in DOMAIN world.files \ todo} = {}
    BY <2>1
  <2>3. Loaded(world, todo, fetched, cache)
    BY <1>4, <2>1, <2>2, NewDnfCacheIs DEF Loaded
  <2> QED
    BY <1>1, <1>2, <2>1, <2>3 DEF Sound
<1>5. CASE world.manager # "dnf"
  <2>1. todo = {0}
    BY <1>5 DEF Init
  <2>2. todo # {}
    BY <2>1
  <2>3. Loaded(world, todo, fetched, cache)
    BY <1>5, <2>2 DEF Loaded
  <2> QED
    BY <1>1, <1>2, <1>5, <2>3 DEF Sound
<1> QED
  BY <1>4, <1>5

\* Every step keeps it.
LEMMA NextSound == IInv /\ [Next]_vars => IInv'
<1> SUFFICES ASSUME IInv, [Next]_vars PROVE Sound(world', todo', fetched', cache', result')
  BY DEF IInv
<1>1. /\ world \in Worlds
      /\ world.manager = "dnf" => todo \subseteq DOMAIN world.files
      /\ Loaded(world, todo, fetched, cache)
      /\ result.resolved => todo = {} /\ result.order = OrderOf(world, cache)
  BY DEF IInv, Sound
<1>2. CASE LoadApt
  <2>1. /\ world.manager = "apt" /\ todo # {} /\ world' = world /\ result' = result
        /\ todo' = {} /\ cache' = Apt!LoadFromDisk(world.files, world.status)
    BY <1>2 DEF LoadApt
  <2>2. ~result.resolved
    BY <1>1, <2>1
  <2>3. Loaded(world', todo', fetched', cache')
    BY <2>1 DEF Loaded
  <2> QED
    BY <1>1, <2>1, <2>2, <2>3 DEF Sound
<1>3. ASSUME NEW f \in todo, LoadDnf(f) PROVE Sound(world', todo', fetched', cache', result')
  <2>1. /\ world.manager = "dnf" /\ world' = world /\ result' = result /\ todo' = todo \ {f}
        /\ cache' = Dnf!ParsePrimaryXML(cache, world.files[f].packages)
    BY <1>3 DEF LoadDnf
  <2>2. ~result.resolved
    BY <1>1, <1>3
  <2>3. f \in DOMAIN world.files /\ todo' \subseteq DOMAIN world.files
    BY <1>1, <1>3, <2>1
  <2> DEFINE Read(t) == UNION {Range(world.files[i].packages) : i \in DOMAIN world.files \ t}
             p == world.files[f].packages
  <2>4. cache \in DnfCaches(world.docs) /\ DnfBest(world.docs, cache.packages, Read(todo))
    BY <1>1, <2>1 DEF Loaded
  <2>5. \A i \in DOMAIN world.files : world.files[i].packages \in Seq(Offered)
    BY <1>1, <2>1, WorldIs, DnfFilesAre
  <2>6. Read(todo) \in SUBSET Offered
    BY <2>5, FiniteRange
  <2>7. Read(todo') = Read(todo) \cup Range(p)
    BY <1>3, <2>1, <2>3
  <2>8. p \in Seq(Offered)
    BY <2>3, <2>5
  <2> DEFINE R == Read(todo)
  <2> HIDE DEF Read, p, R
  <2>9. LET next == Dnf!ParsePrimaryXML(cache, p)
        IN  next \in DnfCaches(world.docs) /\ DnfBest(world.docs, next.packages, R \cup Range(p))
    <3>1. R \in SUBSET Offered /\ DnfBest(world.docs, cache.packages, R)
      BY <2>4, <2>6 DEF R
    <3> QED
      BY <2>4, <2>8, <3>1, ParsePrimaryIs
  <2>10. cache' \in DnfCaches(world.docs) /\ DnfBest(world.docs, (cache').packages, Read(todo'))
    BY <2>1, <2>7, <2>9 DEF p, R
  <2>11. Loaded(world', todo', fetched', cache')
    BY <2>1, <2>10 DEF Loaded, Read
  <2> QED
    BY <1>1, <2>1, <2>2, <2>3, <2>11 DEF Sound
<1>4. CASE LoadApk
  <2>1. /\ world.manager = "apk" /\ todo # {} /\ world' = world /\ result' = result
        /\ todo' = {} /\ fetched' = fetched /\ cache' = Apk!Update(world.files, fetched)
    BY <1>4 DEF LoadApk
  <2>2. ~result.resolved
    BY <1>1, <2>1
  <2>3. Loaded(world', todo', fetched', cache')
    BY <2>1 DEF Loaded
  <2> QED
    BY <1>1, <2>1, <2>2, <2>3 DEF Sound
<1>5. CASE Resolve
  <2>1. /\ todo = {} /\ world' = world /\ todo' = todo /\ fetched' = fetched /\ cache' = cache
    BY <1>5 DEF Resolve
  <2>2. Seeds = SeedsOf(world, cache)
    BY DEF Seeds, SeedsOf, AptSeeds
  <2>3. world.manager \in {"apt", "dnf", "apk"}
    BY <1>1, WorldIs
  <2>4. result'.order = OrderOf(world, cache)
    <3>1. CASE world.manager = "apt"
      BY <1>5, <2>2, <3>1 DEF Resolve, OrderOf
    <3>2. CASE world.manager = "dnf"
      BY <1>5, <2>2, <3>2 DEF Resolve, OrderOf
    <3>3. CASE world.manager = "apk"
      BY <1>5, <2>2, <3>3 DEF Resolve, OrderOf
    <3> QED
      BY <2>3, <3>1, <3>2, <3>3
  <2> QED
    BY <1>1, <2>1, <2>4 DEF Sound
<1>6. CASE UNCHANGED vars
  BY <1>1, <1>6 DEF vars, Sound
<1> QED
  BY <1>2, <1>3, <1>4, <1>5, <1>6 DEF Next

\* The caches and results are always those of what was loaded.
THEOREM ResolversSound == Spec => []IInv
<1>1. Init => IInv
  BY InitSound
<1>2. IInv /\ [Next]_vars => IInv'
  BY NextSound
<1> QED
  BY <1>1, <1>2, PTL DEF Spec

\* The plan is one for the closure, whatever the manager; what is kept of it are the
\* packages planned for a node.
IsPlanned(A) ==
    /\ PlanFor(Graph, Closure, A, result.order)
    /\ \A x \in DOMAIN Graph : \A p : p \in Planned(x) <=> p \in Range(Adds(Graph, x)) /\ p \in A

\* What a graph adds is among its packages.
LEMMA AddsAreOver ==
    ASSUME NEW M, NEW O, NEW N, NEW g, Fit(g, M, O, N), NEW x \in DOMAIN g, NEW p \in Range(Adds(g, x))
    PROVE  p \in O
<1> DEFINE s == g[x].adds
<1>1. s \in Seq(O)
  BY DEF Fit, GraphOver
<1>2. p \in Range(s)
  BY DEF Adds
<1> HIDE DEF s
<1> QED
  BY <1>1, <1>2, FiniteRange

\* Once the result is there, it is such a plan.
LEMMA PlanIs == IInv /\ result.resolved => \E A : IsPlanned(A)
<1> SUFFICES ASSUME IInv, result.resolved PROVE \E A : IsPlanned(A)
  OBVIOUS
<1>1. world \in Worlds /\ todo = {} /\ result.order = OrderOf(world, cache)
      /\ Loaded(world, todo, fetched, cache)
  BY DEF IInv, Sound
<1>2. /\ world.manager \in {"apt", "dnf", "apk"}
      /\ world.manager = "apt" => IsAptWorld(world)
      /\ world.manager = "dnf" => IsDnfWorld(world)
      /\ world.manager = "apk" => IsApkWorld(world)
  BY <1>1, WorldIs
<1>3. CASE world.manager = "apt"
  <2> DEFINE g == Apt!Graph(cache)   seeds == AptSeeds(cache, world.seeds)   A == AptAllowed(cache)
  <2>1. cache = Apt!LoadFromDisk(world.files, world.status) /\ IsAptWorld(world)
    BY <1>1, <1>2, <1>3 DEF Loaded
  <2>2. cache \in AptCaches
    BY <2>1, LoadFromDiskIs
  <2>3. world.seeds \in Seq(Keys)
    BY <2>1 DEF IsAptWorld, Keys
  <2>4. seeds \in Seq(Keys)
    BY <2>2, <2>3, AptSeedsAre
  <2>5. Graph = g /\ Seeds = seeds
    BY <1>3 DEF Graph, Seeds, AptSeeds
  <2>6. Closure = Reach(g, Range(seeds))
    BY <1>3, <2>5 DEF Closure, Start
  <2>7. result.order = Apt!FilterForeignArchPackages(cache, Apt!ResolveDeps(cache, seeds).order)
    BY <1>1, <1>3 DEF OrderOf, SeedsOf
  <2>8. Fit(g, Keys, Keys, STRING)
    BY <2>2, AptFit
  <2> HIDE DEF g, seeds
  <2>9. PlanFor(g, Reach(g, Range(seeds)), A, Apt!FilterForeignArchPackages(cache, Apt!ResolveDeps(cache, seeds).order))
    BY <2>2, <2>4, AptPlan DEF g
  <2>10. PlanFor(Graph, Closure, A, result.order)
    BY <2>5, <2>6, <2>7, <2>9
  <2>11. ASSUME NEW x \in DOMAIN Graph, NEW p
         PROVE  p \in Planned(x) <=> p \in Range(Adds(Graph, x)) /\ p \in A
    <3>1. p \in Range(Adds(Graph, x)) => p \in Keys
      BY <2>5, <2>8, AddsAreOver
    <3> QED
      BY <1>3, <3>1 DEF Planned, Adds, AptAllowed
  <2> QED
    BY <2>10, <2>11 DEF IsPlanned
<1>4. CASE world.manager = "dnf"
  <2> DEFINE g == Dnf!Graph(cache, world.have)   seeds == world.seeds   A == Dnf!Package
  <2>1. cache \in DnfCaches(world.docs) /\ IsDnfWorld(world)
    BY <1>1, <1>2, <1>4 DEF Loaded
  <2>2. seeds \in Seq(Dnf!Dependency)
    BY <2>1 DEF IsDnfWorld
  <2>3. Graph = g /\ Seeds = seeds
    BY <1>4 DEF Graph, Seeds
  <2>4. Closure = Reach(g, Range(Dnf!Each(seeds, FALSE)))
    BY <1>4, <2>3 DEF Closure, Start
  <2>5. result.order = Dnf!ResolveDeps(cache, world.have, seeds).order
    BY <1>1, <1>4 DEF OrderOf, SeedsOf
  <2>6. Fit(g, Dnf!Dependency, Dnf!Package, STRING)
    BY <2>1, DnfFit
  <2>7. PlanFor(g, Reach(g, Range(Dnf!Each(seeds, FALSE))), A, Dnf!ResolveDeps(cache, world.have, seeds).order)
    <3> HIDE DEF seeds
    <3> QED
      BY <2>1, <2>2, DnfPlan
  <2> HIDE DEF g, seeds, A
  <2>8. PlanFor(Graph, Closure, A, result.order)
    BY <2>3, <2>4, <2>5, <2>7
  <2>9. ASSUME NEW x \in DOMAIN Graph, NEW p
        PROVE  p \in Planned(x) <=> p \in Range(Adds(Graph, x)) /\ p \in A
    <3>1. p \in Range(Adds(Graph, x)) => p \in A
      BY <2>3, <2>6, AddsAreOver DEF A
    <3> QED
      BY <1>4, <3>1 DEF Planned, Adds
  <2> QED
    BY <2>8, <2>9 DEF IsPlanned
<1>5. CASE world.manager = "apk"
  <2> DEFINE g == Apk!Graph(cache)   seeds == world.seeds   A == Apk!Package
  <2>1. cache = Apk!Update(world.files, fetched) /\ IsApkWorld(world)
    BY <1>1, <1>2, <1>5 DEF Loaded
  <2>2. cache \in ApkCaches
    BY <2>1, UpdateIs
  <2>10. seeds \in Seq(Apk!Dependency)
    BY <2>1 DEF IsApkWorld
  <2>3. Graph = g /\ Seeds = seeds
    BY <1>5 DEF Graph, Seeds
  <2>4. Closure = Reach(g, Range(Apk!Nodes(seeds)))
    BY <1>5, <2>3 DEF Closure, Start
  <2>5. result.order = Apk!ResolveDeps(cache, seeds).order
    BY <1>1, <1>5 DEF OrderOf, SeedsOf
  <2>6. Fit(g, STRING, Apk!Package, STRING)
    BY <2>2, ApkFit
  <2>7. PlanFor(g, Reach(g, Range(Apk!Nodes(seeds))), A, Apk!ResolveDeps(cache, seeds).order)
    <3> HIDE DEF seeds
    <3> QED
      BY <2>2, <2>10, ApkPlan
  <2> HIDE DEF g, seeds, A
  <2>8. PlanFor(Graph, Closure, A, result.order)
    BY <2>3, <2>4, <2>5, <2>7
  <2>9. ASSUME NEW x \in DOMAIN Graph, NEW p
        PROVE  p \in Planned(x) <=> p \in Range(Adds(Graph, x)) /\ p \in A
    <3>1. p \in Range(Adds(Graph, x)) => p \in A
      BY <2>3, <2>6, AddsAreOver DEF A
    <3> QED
      BY <1>5, <3>1 DEF Planned, Adds
  <2> QED
    BY <2>8, <2>9 DEF IsPlanned
<1> QED
  BY <1>2, <1>3, <1>4, <1>5

\* The plan is the closure.
LEMMA ClosureFromPlan == IInv => PlanIsTheClosure
<1> SUFFICES ASSUME IInv, result.resolved
             PROVE  Range(result.order) = UNION {Planned(x) : x \in Closure}
  BY DEF PlanIsTheClosure
<1>1. PICK A : IsPlanned(A)
  BY PlanIs
<1>2. /\ Closure \subseteq DOMAIN Graph
      /\ \A p : p \in Range(result.order) <=> \E x \in Closure : p \in Range(Adds(Graph, x)) /\ p \in A
      /\ \A x \in DOMAIN Graph : \A p : p \in Planned(x) <=> p \in Range(Adds(Graph, x)) /\ p \in A
  BY <1>1 DEF IsPlanned, PlanFor
<1> DEFINE U == Closure   D == DOMAIN Graph   P(x) == Planned(x)   R == Range(result.order)
<1>3. \A p : p \in R <=> \E x \in U : p \in P(x)
  BY <1>2
<1> HIDE DEF U, P, R
<1>4. R = UNION {P(x) : x \in U}
  BY <1>3
<1> QED
  BY <1>4 DEF R, P, U

\* Dependencies come first.
LEMMA OrderFromPlan == IInv => DependenciesFirst
<1> SUFFICES ASSUME IInv, result.resolved, NEW i \in DOMAIN result.order
             PROVE  \E x \in Closure :
                      /\ result.order[i] \in Planned(x)
                      /\ \A y \in Range(Graph[x].next) :
                            (\A z \in Reach(Graph, {y}) : Graph[z].mark # Graph[x].mark) =>
                                \A p \in UNION {Planned(z) : z \in Reach(Graph, {y})} :
                                    \E m \in 1..(i - 1) : result.order[m] = p
  BY DEF DependenciesFirst
<1>1. PICK A : IsPlanned(A)
  BY PlanIs
<1>2. /\ Closure \subseteq DOMAIN Graph
      /\ \A x \in Closure : \A y \in Range(NextOf(Graph, x)) : From(Graph, y) \subseteq DOMAIN Graph
      /\ \A x \in DOMAIN Graph : \A p : p \in Planned(x) <=> p \in Range(Adds(Graph, x)) /\ p \in A
  BY <1>1 DEF IsPlanned, PlanFor
<1>3. PICK x \in Closure :
        /\ result.order[i] \in Range(Adds(Graph, x)) /\ result.order[i] \in A
        /\ \A y \in Range(NextOf(Graph, x)) :
              (\A z \in From(Graph, y) : Mark(Graph, z) # Mark(Graph, x)) =>
                  \A z \in From(Graph, y) : \A p \in Range(Adds(Graph, z)) :
                      p \in A => \E m \in 1..(i - 1) : result.order[m] = p
  BY <1>1 DEF IsPlanned, PlanFor
<1>4. result.order[i] \in Planned(x)
  BY <1>2, <1>3
<1>5. ASSUME NEW y \in Range(Graph[x].next), \A z \in Reach(Graph, {y}) : Graph[z].mark # Graph[x].mark,
             NEW p \in UNION {Planned(z) : z \in Reach(Graph, {y})}
      PROVE  \E m \in 1..(i - 1) : result.order[m] = p
  <2>1. y \in Range(NextOf(Graph, x))
    BY DEF NextOf
  <2>2. \A z \in From(Graph, y) : Mark(Graph, z) # Mark(Graph, x)
    BY <1>5 DEF From, Mark
  <2>3. PICK z \in From(Graph, y) : p \in Planned(z)
    BY DEF From
  <2>4. p \in Range(Adds(Graph, z)) /\ p \in A
    BY <1>2, <2>1, <2>3
  <2> QED
    BY <1>3, <2>1, <2>2, <2>3, <2>4
<1> QED
  BY <1>4, <1>5

\* What is offered for a key, one way or the other.
LEMMA OffersAre ==
    ASSUME NEW key
    PROVE  OffersOf(key) = AptOf(UNION {ListOffers(list) : list \in Range(world.files)}, key)
<1> DEFINE L == Range(world.files)
           Of(list) == {[stanza |-> s, repo |-> list.repo] : s \in {t \in Range(list.stanzas) :
                           Apt!EntryKey(t.name, t.arch) = key /\ t.version # <<>>}}
<1>1. OffersOf(key) = UNION {Of(list) : list \in L}
  BY DEF OffersOf
<1>2. ASSUME NEW list, NEW o
      PROVE  o \in Of(list) <=> o \in ListOffers(list) /\ KeyOf(o) = key
  <2>1. ASSUME NEW s PROVE KeyOf([stanza |-> s, repo |-> list.repo]) = Apt!EntryKey(s.name, s.arch)
    BY DEF KeyOf
  <2> QED
    BY <2>1 DEF ListOffers
<1> HIDE DEF L, Of
<1>3. \A o : o \in UNION {Of(list) : list \in L} <=> o \in AptOf(UNION {ListOffers(list) : list \in L}, key)
  BY <1>2 DEF AptOf
<1> QED
  BY <1>1, <1>3 DEF L

\* The newest of apt.
LEMMA AptNewest ==
    ASSUME IInv, todo = {}, world.manager = "apt", NEW key \in DOMAIN cache.entries,
           OffersOf(key) # {}, ~Overtaken(key)
    PROVE  /\ \A o \in OffersOf(key) : Rank(o.stanza.version) <= Rank(cache.entries[key].version)
           /\ \E o \in OffersOf(key) :
                 /\ o.stanza.version = cache.entries[key].version
                 /\ o.stanza.file = cache.entries[key].file
                 /\ cache.entries[key].arch \notin {"", "all"} /\ o.repo # "" =>
                       o.repo = cache.entries[key].repo
<1> DEFINE Offers == UNION {ListOffers(list) : list \in Range(world.files)}
           mine == AptOf(Offers, key)   S == Range(world.status)   e == cache.entries[key]
<1>1. cache = Apt!LoadFromDisk(world.files, world.status) /\ IsAptWorld(world)
  BY WorldIs DEF IInv, Sound, Loaded
<1>2. AptHolds(cache.entries, Offers, S)
  BY <1>1, LoadFromDiskIs
<1>3. OffersOf(key) = mine
  BY OffersAre
<1>4. ~OverBy(S, key, mine)
  BY <1>3 DEF Overtaken, OverBy, VersionOf
<1> HIDE DEF Offers, mine, S
<1>5. Newest(key, e.version, e.file, e.repo, mine)
  BY <1>2, <1>3, <1>4 DEF AptHolds, mine
<1>6. ArchFits(key, e.arch)
  BY <1>2 DEF AptHolds
<1> HIDE DEF e
<1>7. \A o \in mine : Rank(o.stanza.version) <= Rank(e.version)
  BY <1>5 DEF Newest, VersionOf
<1>8. PICK o \in mine : /\ o.stanza.version = e.version
                        /\ o.stanza.file = e.file
                        /\ key[2] # "" /\ o.repo # "" => o.repo = e.repo
  BY <1>5 DEF Newest, VersionOf, FileOf, UrlOf
<1>9. e.arch \notin {"", "all"} => key[2] # ""
  BY <1>6 DEF ArchFits
<1> QED
  BY <1>3, <1>7, <1>8, <1>9 DEF e

\* The newest of dnf.
LEMMA DnfNewest ==
    ASSUME IInv, todo = {}, world.manager = "dnf", NEW n \in DOMAIN cache.packages
    PROVE  LET p == cache.packages[n]
               offers == {o \in UNION {Range(f.packages) : f \in Range(world.files)} :
                            /\ o.name = n /\ o.arch # "src"
                            /\ ~Dnf!IsBlockedByModuleFilter(world.docs, o)}
               Of(a) == {o \in offers : o.arch = a}
           IN  /\ Of(HostArch) # {} => p.arch = HostArch
               /\ Of(HostArch) = {} /\ Of("noarch") # {} => p.arch = "noarch"
               /\ \A o \in Of(p.arch) : Dnf!Vercmp(Dnf!EVRString(o), Dnf!EVRString(p)) <= 0
<1> DEFINE p == cache.packages[n]
           Seen == UNION {Range(f.packages) : f \in Range(world.files)}
           offers == DnfOffers(world.docs, Seen, n)
           Of(a) == {o \in offers : o.arch = a}
<1>1. DnfBest(world.docs, cache.packages, UNION {Range(world.files[i].packages) : i \in DOMAIN world.files})
  <2>1. DnfBest(world.docs, cache.packages, UNION {Range(world.files[i].packages) : i \in DOMAIN world.files \ todo})
    BY DEF IInv, Sound, Loaded
  <2>2. DOMAIN world.files \ todo = DOMAIN world.files
    OBVIOUS
  <2> QED
    BY <2>1, <2>2
<1>2. UNION {Range(world.files[i].packages) : i \in DOMAIN world.files} = Seen
  BY DEF Range
<1>3. /\ \E o \in offers : o.arch = p.arch
      /\ \A o \in offers : Stands(p, o)
  BY <1>1, <1>2 DEF DnfBest
<1> HIDE DEF p, offers
<1>4. PICK q \in offers : q.arch = p.arch
  BY <1>3
<1>5. Of(HostArch) # {} => p.arch = HostArch
  BY <1>3 DEF Stands
<1>6. Of(HostArch) = {} /\ Of("noarch") # {} => p.arch = "noarch"
  BY <1>3, <1>4 DEF Stands
<1>7. \A o \in Of(p.arch) : Dnf!Vercmp(Dnf!EVRString(o), Dnf!EVRString(p)) <= 0
  BY <1>3 DEF Stands, Epoch
<1> QED
  BY <1>5, <1>6, <1>7 DEF p, offers, DnfOffers

\* The first of apk.
LEMMA ApkFirstIs ==
    ASSUME IInv, todo = {}, world.manager = "apk"
    PROVE  ApkFirst(world, fetched, cache.packages)
<1>1. cache = Apk!Update(world.files, fetched) /\ IsApkWorld(world)
  BY WorldIs DEF IInv, Sound, Loaded
<1> QED
  BY <1>1, UpdateIs

\* Every manager offers the newest.
LEMMA NewestFromLoaded == IInv => NewestIsOffered
<1> SUFFICES ASSUME IInv, todo = {} PROVE NewestIsOffered
  BY DEF NewestIsOffered
<1>1. world.manager \in {"apt", "dnf", "apk"}
  BY WorldIs DEF IInv, Sound
<1>2. CASE world.manager = "apt"
  BY <1>2, AptNewest DEF NewestIsOffered
<1>3. CASE world.manager = "dnf"
  BY <1>3, DnfNewest DEF NewestIsOffered
<1>4. CASE world.manager = "apk"
  BY <1>4, ApkFirstIs DEF NewestIsOffered, ApkFirst
<1> QED
  BY <1>1, <1>2, <1>3, <1>4

\* For every world: the plan of a resolver is the closure of what it was asked for.
THEOREM ResolversPlanTheClosure == Spec => []PlanIsTheClosure
<1>1. IInv => PlanIsTheClosure
  BY ClosureFromPlan
<1> QED
  BY <1>1, ResolversSound, PTL

\* For every world: what a package needs comes before it.
THEOREM ResolversOrder == Spec => []DependenciesFirst
<1>1. IInv => DependenciesFirst
  BY OrderFromPlan
<1> QED
  BY <1>1, ResolversSound, PTL

\* For every world: the newest version there is is the one that is offered.
THEOREM ResolversOfferTheNewest == Spec => []NewestIsOffered
<1>1. IInv => NewestIsOffered
  BY NewestFromLoaded
<1> QED
  BY <1>1, ResolversSound, PTL

--------------------------------------------------------------------------------
(* What is read from the disk, and the closure of what is asked for. *)

\* What is said of keys: pairs of a key and an entry.
Within(entries, G) == \A key \in DOMAIN entries : <<key, entries[key]>> \in G

KeyOfStanza(s) == Apt!EntryKey(s.name, s.arch)
KeysOf(stanzas) == {KeyOfStanza(s) : s \in Range(stanzas)}

\* What is said of all entries of a cache is said of them when a file was parsed, if
\* every stanza of it keeps that.
LEMMA ParseKeeps ==
    ASSUME NEW c \in AptCaches, NEW stanzas \in Seq(Apt!Stanza), NEW dpkg \in BOOLEAN, NEW repo \in STRING,
           NEW G, Within(c.entries, G),
           \A s \in Range(stanzas), e \in AptInfo :
               \/ e = Apt!Fresh(s.name) /\ KeyOfStanza(s) \notin DOMAIN c.entries
               \/ <<KeyOfStanza(s), e>> \in G
               => <<KeyOfStanza(s), Apt!MergePackageInfo(e, s, dpkg, repo)>> \in G
    PROVE  LET next == Apt!ParseFile(c, stanzas, dpkg, repo)
           IN  /\ next \in AptCaches /\ Within(next.entries, G)
               /\ DOMAIN next.entries = DOMAIN c.entries \cup KeysOf(stanzas)
<1>1. PICK f : ParseTrace(f, c, stanzas, dpkg, repo)
               /\ Apt!ParseFile(c, stanzas, dpkg, repo) = f[Len(stanzas)]
  <2>1. Len(stanzas) \in Nat
    OBVIOUS
  <2> QED
    BY <2>1, ParseFileHasTrace
<1>2. Len(stanzas) \in Nat /\ DOMAIN stanzas = 1..Len(stanzas)
      /\ \A n \in 1..Len(stanzas) : stanzas[n] \in Apt!Stanza
  OBVIOUS
<1> DEFINE Upto(i) == {KeyOfStanza(stanzas[j]) : j \in 1..i}
           Fine(i) == /\ f[i] \in AptCaches /\ Within(f[i].entries, G)
                      /\ DOMAIN f[i].entries = DOMAIN c.entries \cup Upto(i)
           T == {i \in 0..Len(stanzas) : Fine(i)}
<1>3. 0 \in T
  <2>1. f[0] = c
    BY <1>1 DEF ParseTrace
  <2>2. Upto(0) = {}
    OBVIOUS
  <2> HIDE DEF Upto
  <2>3. Fine(0)
    BY <2>1, <2>2
  <2>4. 0 \in 0..Len(stanzas)
    BY <1>2
  <2> HIDE DEF Fine
  <2> QED
    BY <2>3, <2>4
<1>4. ASSUME NEW i \in 0..Len(stanzas), i < Len(stanzas), i \in T PROVE i + 1 \in T
  <2> DEFINE s == stanzas[i + 1]
             key == KeyOfStanza(s)
             next == Apt!FlushStanza(f[i], s, dpkg, repo)
             old == f[i].entries
  <2>1. i + 1 \in 0..Len(stanzas) /\ i + 1 \in 1..Len(stanzas) /\ i \in Nat
    BY <1>2, <1>4
  <2>2. s \in Apt!Stanza /\ s \in Range(stanzas)
    BY <1>2, <2>1 DEF Range
  <2>3. f[i + 1] = next
    BY <1>1, <1>4 DEF ParseTrace
  <2>4. Upto(i + 1) = Upto(i) \cup {key}
    <3>1. \A j \in 1..(i + 1) : j \in 1..i \/ j = i + 1
      BY <2>1
    <3>2. \A j \in 1..i : j \in 1..(i + 1)
      BY <2>1
    <3>3. i + 1 \in 1..(i + 1)
      BY <2>1
    <3> QED
      BY <3>1, <3>2, <3>3
  <2>5. Fine(i)
    BY <1>4
  <2> HIDE DEF Upto, s
  <2>6. /\ next \in AptCaches /\ Before(f[i], s) \in AptInfo
        /\ DOMAIN next.entries = DOMAIN old \cup {key}
        /\ next.entries[key] = Apt!MergePackageInfo(Before(f[i], s), s, dpkg, repo)
        /\ \A k \in DOMAIN old : k # key => next.entries[k] = old[k]
    BY <2>2, <2>5, FlushStanzaIs DEF KeyOfStanza
  <2> HIDE DEF next
  <2>7. \/ Before(f[i], s) = Apt!Fresh(s.name) /\ key \notin DOMAIN c.entries
        \/ <<key, Before(f[i], s)>> \in G
    BY <2>5 DEF Before, KeyOfStanza, Within
  <2>8. <<key, next.entries[key]>> \in G
    BY <2>2, <2>6, <2>7
  <2> HIDE DEF key
  <2>9. Within(next.entries, G)
    BY <2>5, <2>6, <2>8 DEF Within
  <2>10. Fine(i + 1)
    BY <2>3, <2>4, <2>5, <2>6, <2>9
  <2> HIDE DEF Fine
  <2> QED
    BY <2>1, <2>10
<1>5. Len(stanzas) \in T
  <2> HIDE DEF T
  <2>1. 0..Len(stanzas) \subseteq T
    BY <1>2, <1>3, <1>4, UpTo
  <2> QED
    BY <1>2, <2>1
<1>6. Upto(Len(stanzas)) = KeysOf(stanzas)
  BY <1>2 DEF KeysOf, Range
<1> HIDE DEF Upto
<1> QED
  BY <1>1, <1>5, <1>6

\* An empty cache has no entries.
LEMMA EmptyCacheHas ==
    /\ Apt!NewEmptyCache \in AptCaches /\ DOMAIN Apt!NewEmptyCache.entries = {}
    /\ \A G : Within(Apt!NewEmptyCache.entries, G)
<1>1. Apt!NewEmptyCache.entries = <<>>
  BY DEF Apt!NewEmptyCache
<1>2. DOMAIN <<>> = {}
  OBVIOUS
<1> QED
  BY <1>1, <1>2, EmptyCacheIs DEF Within

IsListOf(list) == list.repo \in STRING /\ list.stanzas \in Seq(Apt!Stanza)
ListedOf(lists) == UNION {Range(lists[n].stanzas) : n \in DOMAIN lists}

\* And when the lists were, if entries that are merged keep it, too.
LEMMA LoadListsKeep ==
    ASSUME NEW lists, Len(lists) \in Nat, DOMAIN lists = 1..Len(lists),
           \A n \in 1..Len(lists) : IsListOf(lists[n]),
           NEW G,
           \A s \in ListedOf(lists), e \in AptInfo, repo \in STRING :
               e = Apt!Fresh(s.name) \/ <<KeyOfStanza(s), e>> \in G
               => <<KeyOfStanza(s), Apt!MergePackageInfo(e, s, FALSE, repo)>> \in G,
           \A key \in Keys, e \in AptInfo, i \in AptInfo :
               <<key, e>> \in G /\ <<key, i>> \in G => <<key, Apt!MergeEntryFields(e, i)>> \in G
    PROVE  LET next == Apt!LoadAptLists(Apt!NewEmptyCache, lists)
           IN  /\ next \in AptCaches /\ Within(next.entries, G)
               /\ DOMAIN next.entries = {KeyOfStanza(s) : s \in ListedOf(lists)}
<1> DEFINE c == Apt!NewEmptyCache
<1>1. PICK f : ListsTrace(f, c, lists) /\ Apt!LoadAptLists(c, lists) = f[Len(lists)]
  BY LoadListsHasTrace
<1> DEFINE Upto(i) == UNION {KeysOf(lists[j].stanzas) : j \in 1..i}
           Fine(i) == f[i] \in AptCaches /\ Within(f[i].entries, G) /\ DOMAIN f[i].entries = Upto(i)
           T == {i \in 0..Len(lists) : Fine(i)}
<1>2. 0 \in T
  <2>1. f[0] = c
    BY <1>1 DEF ListsTrace
  <2>2. Upto(0) = {}
    OBVIOUS
  <2> HIDE DEF Upto
  <2>3. Fine(0)
    BY <2>1, <2>2, EmptyCacheHas
  <2> HIDE DEF Fine
  <2> QED
    BY <2>3
<1>3. ASSUME NEW i \in 0..Len(lists), i < Len(lists), i \in T PROVE i + 1 \in T
  <2> DEFINE q == lists[i + 1].stanzas   r == lists[i + 1].repo
             d == Apt!ParseFile(c, q, FALSE, r)
             next == Apt!MergeFrom(f[i], d)
             old == f[i].entries
  <2>1. i + 1 \in 0..Len(lists) /\ i + 1 \in 1..Len(lists) /\ i \in Nat
    BY <1>3
  <2>2. r \in STRING /\ q \in Seq(Apt!Stanza) /\ Range(q) \subseteq ListedOf(lists)
    BY <2>1 DEF IsListOf, ListedOf
  <2>3. f[i + 1] = next
    BY <1>1, <1>3 DEF ListsTrace, MergeList
  <2>4. Upto(i + 1) = Upto(i) \cup KeysOf(q)
    <3>1. \A j \in 1..(i + 1) : j \in 1..i \/ j = i + 1
      BY <2>1
    <3>2. \A j \in 1..i : j \in 1..(i + 1)
      BY <2>1
    <3>3. i + 1 \in 1..(i + 1)
      BY <2>1
    <3> QED
      BY <3>1, <3>2, <3>3
  <2>5. Fine(i)
    BY <1>3
  <2> HIDE DEF Upto, q, r
  <2>6. d \in AptCaches /\ Within(d.entries, G) /\ DOMAIN d.entries = KeysOf(q)
    <3>1. \A s \in Range(q), e \in AptInfo :
             \/ e = Apt!Fresh(s.name) /\ KeyOfStanza(s) \notin DOMAIN c.entries
             \/ <<KeyOfStanza(s), e>> \in G
             => <<KeyOfStanza(s), Apt!MergePackageInfo(e, s, FALSE, r)>> \in G
      BY <2>2
    <3> HIDE DEF c
    <3>2. c \in AptCaches /\ DOMAIN c.entries = {} /\ Within(c.entries, G)
      BY EmptyCacheHas DEF c
    <3>3. /\ d \in AptCaches /\ Within(d.entries, G)
          /\ DOMAIN d.entries = DOMAIN c.entries \cup KeysOf(q)
      BY <2>2, <3>1, <3>2, ParseKeeps
    <3> QED
      BY <3>2, <3>3
  <2> HIDE DEF d
  <2>7. /\ next \in AptCaches
        /\ DOMAIN next.entries = DOMAIN old \cup DOMAIN d.entries
        /\ \A k \in DOMAIN d.entries : k \notin DOMAIN old => next.entries[k] = d.entries[k]
        /\ \A k \in DOMAIN old : k \notin DOMAIN d.entries => next.entries[k] = old[k]
        /\ \A k \in DOMAIN old : k \in DOMAIN d.entries =>
              next.entries[k] = Apt!MergeEntryFields(old[k], d.entries[k])
    BY <2>5, <2>6, MergeFromIs
  <2> HIDE DEF next
  <2>8. Within(next.entries, G)
    <3> SUFFICES ASSUME NEW k \in DOMAIN next.entries PROVE <<k, next.entries[k]>> \in G
      BY DEF Within
    <3>1. CASE k \in DOMAIN old /\ k \in DOMAIN d.entries
      <4>1. <<k, old[k]>> \in G /\ <<k, d.entries[k]>> \in G
        BY <2>5, <2>6, <3>1 DEF Within
      <4>2. k \in Keys /\ old[k] \in AptInfo /\ d.entries[k] \in AptInfo
        <5>1. old \in Finitely(Keys, AptInfo) /\ d.entries \in Finitely(Keys, AptInfo)
          BY <2>5, <2>6, AptCacheHas
        <5> QED
          BY <3>1, <5>1, FinitelyIs
      <4>3. <<k, Apt!MergeEntryFields(old[k], d.entries[k])>> \in G
        BY <4>1, <4>2
      <4> QED
        BY <2>7, <3>1, <4>3
    <3>2. CASE k \notin DOMAIN old
      BY <2>6, <2>7, <3>2 DEF Within
    <3>3. CASE k \notin DOMAIN d.entries
      BY <2>5, <2>7, <3>3 DEF Within
    <3> QED
      BY <3>1, <3>2, <3>3
  <2>9. Fine(i + 1)
    BY <2>3, <2>4, <2>5, <2>6, <2>7, <2>8
  <2> HIDE DEF Fine
  <2> QED
    BY <2>1, <2>9
<1>4. Len(lists) \in T
  <2> HIDE DEF T
  <2>1. 0..Len(lists) \subseteq T
    BY <1>2, <1>3, UpTo
  <2> QED
    BY <2>1
<1>5. Upto(Len(lists)) = {KeyOfStanza(s) : s \in ListedOf(lists)}
  BY DEF KeysOf, ListedOf
<1> HIDE DEF Upto
<1> QED
  BY <1>1, <1>4, <1>5

\* What else a stanza says of its package.
LEMMA MergePackageTells ==
    ASSUME NEW e \in AptInfo, NEW s \in Apt!Stanza, NEW dpkg \in BOOLEAN, NEW repo \in STRING
    PROVE  LET n == Apt!MergePackageInfo(e, s, dpkg, repo)
           IN  /\ n \in AptInfo
               /\ n.name = s.name
               /\ n.arch = IF s.arch # "" THEN s.arch ELSE e.arch
               /\ n.multiArch = IF s.multiArch # "" THEN s.multiArch ELSE e.multiArch
               /\ n.installed = (e.installed \/ (dpkg /\ s.installed))
               /\ n.depends = e.depends
                  \/ (s.depends # <<>> /\ n.depends = Apt!ParseDependsField(s.depends))
               /\ n.file = e.file \/ (s.file # "" /\ n.file = s.file)
               /\ s.file # "" /\ s.version # <<>> /\ e.version = <<>> => n.file # ""
<1> DEFINE stays == s.version = <<>>
                    \/ (e.version # <<>> /\ Apt!CompareDebVersion(s.version, e.version) <= 0)
           arch == IF s.arch # "" THEN s.arch ELSE e.arch
           multi == IF s.multiArch # "" THEN s.multiArch ELSE e.multiArch
           installed == e.installed \/ (dpkg /\ s.installed)
           candidate == e.candidate \/ s.version # <<>>
           file == IF s.file # "" THEN s.file ELSE e.file
           url == IF repo # "" THEN repo ELSE e.repo
           depends == IF s.depends # <<>> THEN Apt!ParseDependsField(s.depends) ELSE e.depends
           pre == IF s.preDepends # <<>> THEN Apt!ParseDependsField(s.preDepends) ELSE e.preDepends
           version == s.version
           name == s.name
           seen == [e EXCEPT !.name = name, !.arch = arch, !.multiArch = multi,
                             !.installed = installed, !.candidate = candidate]
           new == [seen EXCEPT !.version = version, !.file = file, !.repo = url,
                               !.depends = depends, !.preDepends = pre]
<1>1. Apt!MergePackageInfo(e, s, dpkg, repo) = IF stays THEN seen ELSE new
  BY DEF Apt!MergePackageInfo, Apt!CopyStanzaArtifacts
<1>2. Apt!MergePackageInfo(e, s, dpkg, repo) \in AptInfo
  BY MergePackageIs
<1>3. s.version # <<>> /\ e.version = <<>> => ~stays
  OBVIOUS
<1>4. /\ file = e.file \/ (s.file # "" /\ file = s.file)
      /\ s.file # "" => file # ""
      /\ depends = e.depends \/ (s.depends # <<>> /\ depends = Apt!ParseDependsField(s.depends))
  OBVIOUS
<1> HIDE DEF arch, multi, installed, candidate, file, url, depends, pre, version, name, stays
<1>5. /\ seen.name = name /\ seen.arch = arch /\ seen.multiArch = multi /\ seen.installed = installed
      /\ seen.depends = e.depends /\ seen.file = e.file
      /\ DOMAIN seen = DOMAIN e
  BY DEF AptInfo
<1> HIDE DEF seen
<1>6. /\ new.name = seen.name /\ new.arch = seen.arch /\ new.multiArch = seen.multiArch
      /\ new.installed = seen.installed /\ new.depends = depends /\ new.file = file
  BY <1>5 DEF AptInfo
<1> HIDE DEF new
<1>7. CASE stays
  BY <1>1, <1>2, <1>3, <1>5, <1>7, <1>4 DEF arch, multi, name, installed
<1>8. CASE ~stays
  BY <1>1, <1>2, <1>4, <1>5, <1>6, <1>8 DEF arch, multi, name, installed
<1> QED
  BY <1>7, <1>8

\* And what else becomes of entries that are merged.
LEMMA MergeFieldsTell ==
    ASSUME NEW e \in AptInfo, NEW i \in AptInfo
    PROVE  LET n == Apt!MergeEntryFields(e, i)
           IN  /\ n \in AptInfo
               /\ n.name = e.name
               /\ n.arch = IF i.arch # "" THEN i.arch ELSE e.arch
               /\ n.multiArch = IF i.multiArch # "" THEN i.multiArch ELSE e.multiArch
               /\ n.installed = e.installed
               /\ n.file = e.file \/ (i.file # "" /\ n.file = i.file)
<1> DEFINE arch == IF i.arch # "" THEN i.arch ELSE e.arch
           multi == IF i.multiArch # "" THEN i.multiArch ELSE e.multiArch
           candidate == e.candidate \/ i.candidate
           version == IF i.version # <<>> THEN i.version ELSE e.version
           file == IF i.file # "" THEN i.file ELSE e.file
           url == IF i.file # "" /\ i.repo # "" /\ i.arch \notin {"", "all"} THEN i.repo ELSE e.repo
           depends == IF i.depends # <<>> THEN i.depends ELSE e.depends
           pre == IF i.preDepends # <<>> THEN i.preDepends ELSE e.preDepends
           merged == [e EXCEPT !.arch = arch, !.multiArch = multi, !.candidate = candidate]
           new == [merged EXCEPT !.version = version, !.file = file, !.repo = url,
                                 !.depends = depends, !.preDepends = pre]
           wins == Apt!InfoArtifactsWin(e, i)
<1>1. Apt!MergeEntryFields(e, i) = IF wins THEN new ELSE merged
  BY DEF Apt!MergeEntryFields, Apt!CopyInfoArtifacts
<1>2. Apt!MergeEntryFields(e, i) \in AptInfo
  BY MergeFieldsIs
<1>3. file = e.file \/ (i.file # "" /\ file = i.file)
  OBVIOUS
<1> HIDE DEF arch, multi, candidate, version, file, url, depends, pre, wins
<1>4. /\ merged.name = e.name /\ merged.arch = arch /\ merged.multiArch = multi
      /\ merged.installed = e.installed /\ merged.file = e.file /\ DOMAIN merged = DOMAIN e
  BY DEF AptInfo
<1> HIDE DEF merged
<1>5. /\ new.name = merged.name /\ new.arch = merged.arch /\ new.multiArch = merged.multiArch
      /\ new.installed = merged.installed /\ new.file = file
  BY <1>4 DEF AptInfo
<1> HIDE DEF new
<1>6. CASE wins
  BY <1>1, <1>2, <1>3, <1>4, <1>5, <1>6 DEF arch, multi
<1>7. CASE ~wins
  BY <1>1, <1>2, <1>4, <1>7 DEF arch, multi
<1> QED
  BY <1>6, <1>7

\* Of one name all stanzas are of one class, and a stanza of a list says what the
\* architecture of the package is and where its file is.
Classed(s, classes) == s \in Apt!Stanza /\ s.multiArch = classes[s.name]
InList(s, classes) == Classed(s, classes) /\ s.arch # "" /\ s.version # <<>> /\ s.file # ""

Named(key, e, classes) ==
    e.name = key[1] /\ Apt!EntryKey(e.name, e.arch) = key /\ e.multiArch = classes[key[1]]

\* What lists say of a key.
OfLists(key, e, classes) == Named(key, e, classes) /\ e.arch # "" /\ e.file # "" /\ ~e.installed

\* The key of a stanza names it.
LEMMA StanzaFields ==
    ASSUME NEW s \in Apt!Stanza
    PROVE  /\ s.name \in STRING /\ s.arch \in STRING /\ s.multiArch \in STRING
           /\ KeyOfStanza(s) \in Keys /\ KeyOfStanza(s)[1] = s.name
<1>1. s.name \in STRING /\ s.arch \in STRING /\ s.multiArch \in STRING
  BY DEF Apt!Stanza
<1>2. Apt!EntryKey(s.name, s.arch) \in Keys /\ Apt!EntryKey(s.name, s.arch)[1] = s.name
  BY <1>1, EntryKeyIs
<1> QED
  BY <1>1, <1>2 DEF KeyOfStanza

\* A stanza is merged into what the stanzas of its key have said before.
LEMMA MergeNamed ==
    ASSUME NEW classes, NEW s, Classed(s, classes), NEW e \in AptInfo, NEW dpkg \in BOOLEAN, NEW repo \in STRING,
           e = Apt!Fresh(s.name) \/ Named(KeyOfStanza(s), e, classes)
    PROVE  Named(KeyOfStanza(s), Apt!MergePackageInfo(e, s, dpkg, repo), classes)
<1> DEFINE n == Apt!MergePackageInfo(e, s, dpkg, repo)
           key == KeyOfStanza(s)
<1>1. s \in Apt!Stanza /\ s.multiArch = classes[s.name]
  BY DEF Classed
<1>2. /\ n.name = s.name /\ n.arch = IF s.arch # "" THEN s.arch ELSE e.arch
      /\ n.multiArch = IF s.multiArch # "" THEN s.multiArch ELSE e.multiArch
  BY <1>1, MergePackageTells
<1>3. key = Apt!EntryKey(s.name, s.arch) /\ key[1] = s.name
  BY <1>1, StanzaFields DEF KeyOfStanza
<1> HIDE DEF n
<1>4. CASE e = Apt!Fresh(s.name)
  <2>1. e.arch = "" /\ e.multiArch = ""
    BY <1>4 DEF Apt!Fresh
  <2>2. n.arch = s.arch /\ n.multiArch = s.multiArch
    BY <1>2, <2>1
  <2> QED
    BY <1>1, <1>2, <1>3, <2>2 DEF Named, n
<1>5. CASE Named(key, e, classes)
  <2>1. Apt!EntryKey(s.name, e.arch) = key /\ e.multiArch = classes[s.name] /\ e.name = s.name
    BY <1>3, <1>5 DEF Named
  <2>2. Apt!EntryKey(s.name, n.arch) = key
    BY <1>2, <1>3, <2>1
  <2>3. n.multiArch = classes[s.name]
    BY <1>1, <1>2, <2>1
  <2> QED
    BY <1>2, <1>3, <2>2, <2>3 DEF Named, n
<1> QED
  BY <1>4, <1>5

\* What is merged of two entries of a key is an entry of it.
LEMMA MergeOfLists ==
    ASSUME NEW classes, NEW key \in Keys, NEW e \in AptInfo, NEW i \in AptInfo,
           OfLists(key, e, classes), OfLists(key, i, classes)
    PROVE  OfLists(key, Apt!MergeEntryFields(e, i), classes)
<1> DEFINE n == Apt!MergeEntryFields(e, i)
<1>1. /\ n.name = e.name
      /\ n.arch = IF i.arch # "" THEN i.arch ELSE e.arch
      /\ n.multiArch = IF i.multiArch # "" THEN i.multiArch ELSE e.multiArch
      /\ n.installed = e.installed
      /\ n.file = e.file \/ (i.file # "" /\ n.file = i.file)
  BY MergeFieldsTell
<1> HIDE DEF n
<1>2. /\ e.name = key[1] /\ Apt!EntryKey(e.name, e.arch) = key /\ e.multiArch = classes[key[1]]
      /\ i.name = key[1] /\ Apt!EntryKey(i.name, i.arch) = key /\ i.multiArch = classes[key[1]]
      /\ e.arch # "" /\ e.file # "" /\ ~e.installed /\ i.arch # ""
  BY DEF OfLists, Named
<1>3. n.name = key[1] /\ n.arch = i.arch /\ n.multiArch = classes[key[1]] /\ ~n.installed /\ n.file # ""
  BY <1>1, <1>2
<1> QED
  BY <1>2, <1>3 DEF OfLists, Named, n

\* The stanzas of a key of the lists and of dpkg's status.
Same(offered, s) ==
    KeyOfStanza(s) \in DOMAIN offered => Apt!ParseDependsField(s.depends) = offered[KeyOfStanza(s)].depends
InStatus(s, classes, offered, Installed) ==
    Classed(s, classes) /\ s.file = "" /\ Same(offered, s) /\ KeyOfStanza(s) \in Installed

\* What lists and status say of a key.
OnDisk(key, e, classes, offered, Installed) ==
    /\ Named(key, e, classes)
    /\ e.installed => key \in Installed
    /\ key \in DOMAIN offered => e.arch # "" /\ e.file # "" /\ e.depends = offered[key].depends
    /\ key \notin DOMAIN offered => e.file = "" /\ key \in Installed

\* An entry without a word yet.
LEMMA FreshTells ==
    ASSUME NEW name
    PROVE  LET e == Apt!Fresh(name) IN
           e.version = <<>> /\ e.file = "" /\ ~e.installed /\ e.arch = ""
BY DEF Apt!Fresh

\* The lists are read.
LEMMA ListsTell ==
    ASSUME NEW classes, NEW lists, Len(lists) \in Nat, DOMAIN lists = 1..Len(lists),
           \A n \in 1..Len(lists) : IsListOf(lists[n]),
           \A s \in ListedOf(lists) : InList(s, classes)
    PROVE  LET c == Apt!LoadAptLists(Apt!NewEmptyCache, lists)
           IN  /\ c \in AptCaches
               /\ \A key \in DOMAIN c.entries : OfLists(key, c.entries[key], classes)
<1> DEFINE G == {x \in Keys \X AptInfo : OfLists(x[1], x[2], classes)}
           c == Apt!LoadAptLists(Apt!NewEmptyCache, lists)
<1>1. \A key, e : <<key, e>> \in G <=> key \in Keys /\ e \in AptInfo /\ OfLists(key, e, classes)
  OBVIOUS
<1> HIDE DEF G
<1>2. ASSUME NEW s \in ListedOf(lists), NEW e \in AptInfo, NEW repo \in STRING,
             e = Apt!Fresh(s.name) \/ <<KeyOfStanza(s), e>> \in G
      PROVE  <<KeyOfStanza(s), Apt!MergePackageInfo(e, s, FALSE, repo)>> \in G
  <2> DEFINE n == Apt!MergePackageInfo(e, s, FALSE, repo)
  <2>1. InList(s, classes) /\ Classed(s, classes) /\ s \in Apt!Stanza
    BY DEF InList, Classed
  <2>2. s.arch # "" /\ s.version # <<>> /\ s.file # ""
    BY <2>1 DEF InList
  <2>3. \/ e.version = <<>> /\ ~e.installed
        \/ OfLists(KeyOfStanza(s), e, classes)
    <3>1. CASE e = Apt!Fresh(s.name)
      BY <3>1, FreshTells
    <3>2. CASE <<KeyOfStanza(s), e>> \in G
      BY <1>1, <3>2
    <3> QED
      BY <1>2, <3>1, <3>2
  <2>4. e = Apt!Fresh(s.name) \/ Named(KeyOfStanza(s), e, classes)
    BY <1>1, <1>2 DEF OfLists
  <2>5. Named(KeyOfStanza(s), n, classes)
    BY <2>1, <2>4, MergeNamed
  <2>6. /\ n \in AptInfo
        /\ n.arch = IF s.arch # "" THEN s.arch ELSE e.arch
        /\ n.installed = (e.installed \/ (FALSE /\ s.installed))
        /\ n.file = e.file \/ (s.file # "" /\ n.file = s.file)
        /\ s.file # "" /\ s.version # <<>> /\ e.version = <<>> => n.file # ""
    BY <2>1, MergePackageTells
  <2> HIDE DEF n
  <2>7. n.arch # ""
    BY <2>2, <2>6
  <2>8. ~n.installed
    BY <2>3, <2>6 DEF OfLists
  <2>9. n.file # ""
    BY <2>2, <2>3, <2>6 DEF OfLists
  <2>10. OfLists(KeyOfStanza(s), n, classes) /\ KeyOfStanza(s) \in Keys
    BY <2>1, <2>5, <2>7, <2>8, <2>9, StanzaFields DEF OfLists
  <2> QED
    BY <1>1, <2>6, <2>10 DEF n
<1>3. ASSUME NEW key \in Keys, NEW e \in AptInfo, NEW i \in AptInfo, <<key, e>> \in G, <<key, i>> \in G
      PROVE  <<key, Apt!MergeEntryFields(e, i)>> \in G
  <2>1. OfLists(key, e, classes) /\ OfLists(key, i, classes)
    BY <1>1, <1>3
  <2>2. OfLists(key, Apt!MergeEntryFields(e, i), classes)
    BY <2>1, MergeOfLists
  <2>3. Apt!MergeEntryFields(e, i) \in AptInfo
    BY MergeFieldsTell
  <2> QED
    BY <1>1, <2>2, <2>3
<1>4. c \in AptCaches /\ Within(c.entries, G)
  BY <1>2, <1>3, LoadListsKeep
<1> HIDE DEF c
<1>5. \A key \in DOMAIN c.entries : OfLists(key, c.entries[key], classes)
  BY <1>1, <1>4 DEF Within
<1> QED
  BY <1>4, <1>5 DEF c

\* What is on disk tells of each package what it is called, its class, where its
\* file is if lists have it, and what they say it depends on.
THEOREM DiskTells ==
    ASSUME NEW classes, NEW Installed, NEW lists, Len(lists) \in Nat, DOMAIN lists = 1..Len(lists),
           \A n \in 1..Len(lists) : IsListOf(lists[n]),
           \A s \in ListedOf(lists) : InList(s, classes),
           NEW offered, offered = Apt!LoadAptLists(Apt!NewEmptyCache, lists).entries,
           NEW status \in Seq(Apt!Stanza),
           \A s \in Range(status) : InStatus(s, classes, offered, Installed)
    PROVE  LET c == Apt!LoadFromDisk(lists, status)
           IN  /\ c \in AptCaches
               /\ DOMAIN offered \subseteq DOMAIN c.entries
               /\ \A key \in DOMAIN c.entries : OnDisk(key, c.entries[key], classes, offered, Installed)
<1> DEFINE c == Apt!LoadAptLists(Apt!NewEmptyCache, lists)
           d == Apt!LoadFromDisk(lists, status)
           G == {x \in Keys \X AptInfo : OnDisk(x[1], x[2], classes, offered, Installed)}
<1>1. \A key, e : <<key, e>> \in G <=> key \in Keys /\ e \in AptInfo /\ OnDisk(key, e, classes, offered, Installed)
  OBVIOUS
<1> HIDE DEF G
<1>2. d = Apt!ParseFile(c, status, TRUE, "")
  BY DEF Apt!LoadFromDisk, Apt!LoadDpkgStatus
<1>3. c \in AptCaches /\ c.entries = offered /\ \A key \in DOMAIN offered : OfLists(key, offered[key], classes)
  BY ListsTell
<1> HIDE DEF c, d
<1>4. Within(c.entries, G)
  <2> SUFFICES ASSUME NEW key \in DOMAIN offered PROVE <<key, offered[key]>> \in G
    BY <1>3 DEF Within
  <2>1. key \in Keys /\ offered[key] \in AptInfo
    <3>1. offered \in Finitely(Keys, AptInfo)
      BY <1>3, AptCacheHas
    <3> QED
      BY <3>1, FinitelyIs
  <2>2. OfLists(key, offered[key], classes)
    BY <1>3
  <2>3. OnDisk(key, offered[key], classes, offered, Installed)
    BY <2>2 DEF OnDisk, OfLists
  <2> QED
    BY <1>1, <2>1, <2>3
<1>5. ASSUME NEW s \in Range(status), NEW e \in AptInfo,
             \/ e = Apt!Fresh(s.name) /\ KeyOfStanza(s) \notin DOMAIN c.entries
             \/ <<KeyOfStanza(s), e>> \in G
      PROVE  <<KeyOfStanza(s), Apt!MergePackageInfo(e, s, TRUE, "")>> \in G
  <2> DEFINE n == Apt!MergePackageInfo(e, s, TRUE, "")   key == KeyOfStanza(s)
  <2>1. /\ Classed(s, classes) /\ s \in Apt!Stanza /\ s.file = "" /\ Same(offered, s) /\ key \in Installed
    BY DEF InStatus, Classed
  <2>2. "" \in STRING
    BY ResolversAssumption
  <2>3. \/ e = Apt!Fresh(s.name) /\ key \notin DOMAIN offered
        \/ OnDisk(key, e, classes, offered, Installed)
    BY <1>1, <1>3, <1>5
  <2>4. Named(key, n, classes)
    <3>1. e = Apt!Fresh(s.name) \/ Named(key, e, classes)
      BY <2>3 DEF OnDisk
    <3> QED
      BY <2>1, <2>2, <3>1, MergeNamed
  <2>5. /\ n \in AptInfo
        /\ n.arch = IF s.arch # "" THEN s.arch ELSE e.arch
        /\ n.depends = e.depends
           \/ (s.depends # <<>> /\ n.depends = Apt!ParseDependsField(s.depends))
        /\ n.file = e.file \/ (s.file # "" /\ n.file = s.file)
    BY <2>1, <2>2, MergePackageTells
  <2>6. key \in Keys
    BY <2>1, StanzaFields
  <2> HIDE DEF n, key
  <2>7. key \in DOMAIN offered => n.arch # "" /\ n.file # "" /\ n.depends = offered[key].depends
    <3> SUFFICES ASSUME key \in DOMAIN offered
                 PROVE  n.arch # "" /\ n.file # "" /\ n.depends = offered[key].depends
      OBVIOUS
    <3>1. e.arch # "" /\ e.file # "" /\ e.depends = offered[key].depends
      BY <2>3 DEF OnDisk
    <3>2. Apt!ParseDependsField(s.depends) = offered[key].depends
      BY <2>1 DEF Same, key
    <3> QED
      BY <2>1, <2>5, <3>1, <3>2
  <2>8. key \notin DOMAIN offered => n.file = "" /\ key \in Installed
    <3> SUFFICES ASSUME key \notin DOMAIN offered PROVE n.file = ""
      BY <2>1
    <3>1. e.file = ""
      BY <2>3, FreshTells DEF OnDisk
    <3> QED
      BY <2>1, <2>5, <3>1
  <2>10. n.installed => key \in Installed
    BY <2>1
  <2>9. OnDisk(key, n, classes, offered, Installed)
    BY <2>4, <2>7, <2>8, <2>10 DEF OnDisk
  <2> QED
    BY <1>1, <2>5, <2>6, <2>9 DEF n, key
<1>6. /\ d \in AptCaches /\ Within(d.entries, G) /\ DOMAIN c.entries \subseteq DOMAIN d.entries
  <2>1. "" \in STRING /\ TRUE \in BOOLEAN
    BY ResolversAssumption
  <2>2. LET next == Apt!ParseFile(c, status, TRUE, "")
        IN  /\ next \in AptCaches /\ Within(next.entries, G)
            /\ DOMAIN next.entries = DOMAIN c.entries \cup KeysOf(status)
    BY <1>3, <1>4, <1>5, <2>1, ParseKeeps
  <2> QED
    BY <1>2, <2>2
<1>7. \A key \in DOMAIN d.entries : OnDisk(key, d.entries[key], classes, offered, Installed)
  BY <1>1, <1>6 DEF Within
<1> QED
  BY <1>3, <1>6, <1>7 DEF d

\* The first element stays the first if it is kept.
LEMMA FirstKept ==
    ASSUME NEW S, NEW s \in Seq(S), NEW T, s # <<>>, s[1] \in T
    PROVE  Kept(s, T) # <<>> /\ Kept(s, T)[1] = s[1]
<1> DEFINE t == Kept(s, T)
<1>1. /\ t \in Seq(S) /\ Range(t) = Range(s) \cap T
      /\ \A i \in DOMAIN t : \E j \in DOMAIN s :
            /\ t[i] = s[j]
            /\ \A m \in 1..(j - 1) : s[m] \in T => \E k \in 1..(i - 1) : t[k] = s[m]
  BY KeptElements
<1>2. s[1] \in Range(s)
  BY FirstIs
<1> HIDE DEF t
<1>3. t # <<>>
  BY <1>1, <1>2, EmptyRange
<1>4. 1 \in DOMAIN t
  BY <1>1, <1>3
<1>5. PICK j \in DOMAIN s : /\ t[1] = s[j]
                            /\ \A m \in 1..(j - 1) : s[m] \in T => \E k \in 1..(1 - 1) : t[k] = s[m]
  BY <1>1, <1>4
<1>6. j \in Nat /\ j >= 1
  OBVIOUS
<1>7. j = 1
  <2> SUFFICES ASSUME j # 1 PROVE FALSE
    OBVIOUS
  <2>1. 1 \in 1..(j - 1)
    BY <1>6
  <2>2. PICK k \in 1..(1 - 1) : t[k] = s[1]
    BY <1>5, <2>1
  <2> QED
    BY <2>2
<1> QED
  BY <1>3, <1>5, <1>7 DEF t

\* What is there under the very key that is asked for is found first.
LEMMA AptFoundFirst ==
    ASSUME NEW c \in AptCaches, NEW n \in STRING, NEW a \in STRING
    PROVE  Apt!EntryKey(n, a) \in DOMAIN c.entries =>
               AptFound(c, n, a) # <<>> /\ AptFound(c, n, a)[1] = Apt!EntryKey(n, a)
<1> DEFINE k == Apt!EntryKey(n, a)   l == <<n, "">>   m == <<n, HostArch>>
           three == <<k, l, m>>
           rest == Apt!ScanEntryByName(c, n)
           all == three \o rest
           T == DOMAIN c.entries
           found == Kept(all, T)
<1>1. k \in Keys /\ l \in Keys /\ m \in Keys
  <2>1. "" \in STRING /\ HostArch \in STRING
    BY ResolversAssumption
  <2> QED
    BY <2>1, EntryKeyIs, KeysAre
<1>2. rest \in Seq(Keys)
  BY ScanIs
<1>3. Apt!Candidates(c, n, a) = Apt!Kept(all, T)
  BY DEF Apt!Candidates
<1>4. Apt!Kept(all, T) = found
  BY SameKept
<1> HIDE DEF k, l, m, rest
<1>5. three \in Seq(Keys) /\ DOMAIN three = 1..3 /\ three[1] = k
  BY <1>1
<1> HIDE DEF three
<1>6. all \in Seq(Keys) /\ \A i \in DOMAIN three : i \in DOMAIN all /\ all[i] = three[i]
  BY <1>2, <1>5, RangeOfConcat
<1> HIDE DEF all, T
<1>7. all # <<>> /\ all[1] = k
  BY <1>5, <1>6
<1>8. k \in T => found # <<>> /\ found[1] = k
  BY <1>6, <1>7, FirstKept
<1> HIDE DEF found
<1> QED
  BY <1>3, <1>4, <1>8 DEF AptFound, T, k

\* The element of a sequence of one.
LEMMA OneIs ==
    ASSUME NEW x
    PROVE  Range(<<x>>) = {x}
BY DEF Range

\* The key that is found stands for itself unless the host's serves.
LEMMA NotRedirected ==
    ASSUME NEW c, NEW key, NEW n, NEW a
    PROVE  c.entries[key].multiArch \notin {"foreign", "allowed"} =>
               Apt!RedirectForeignToHost(c, key, n, a).key = key
<1> DEFINE w == Apt!RedirectForeignToHost(c, key, n, a)
<1>1. c.entries[key].multiArch \notin {"foreign", "allowed"} => w = [key |-> key, arch |-> a]
  BY DEF Apt!RedirectForeignToHost
<1> HIDE DEF w
<1>2. w = [key |-> key, arch |-> a] => w.key = key
  OBVIOUS
<1> QED
  BY <1>1, <1>2 DEF w

\* What is there for an architecture is found first, and the host's does not serve.
LEMMA ForeignFound ==
    ASSUME NEW c \in AptCaches, NEW key \in DOMAIN c.entries, key \in Keys, key[2] \notin {"", "all"},
           c.entries[key].multiArch \notin {"foreign", "allowed"}
    PROVE  AptAdds(c, key[1], key[2]) = IF c.entries[key].installed THEN <<>> ELSE <<key>>
<1> DEFINE n == key[1]   a == key[2]
           k == Apt!EntryKey(n, a)
<1>0. n \in STRING /\ a \in STRING /\ key = <<n, a>>
  BY KeysAre
<1>1. k = key
  <2>1. k = <<n, a>>
    BY DEF Apt!EntryKey
  <2> HIDE DEF k, n, a
  <2> QED
    BY <1>0, <2>1
<1> HIDE DEF n, a
<1>2. k \in DOMAIN c.entries
  BY <1>1
<1>3. AptFound(c, n, a) # <<>> /\ AptFound(c, n, a)[1] = k
  BY <1>0, <1>2, AptFoundFirst
<1> HIDE DEF k
<1>10. AptFound(c, n, a) # <<>> /\ AptFound(c, n, a)[1] = key
  BY <1>1, <1>3
<1>4. Apt!RedirectForeignToHost(c, key, n, a).key = key
  BY NotRedirected
<1>11. AptTo(c, n, a).key = key
  BY <1>10, <1>4 DEF AptTo
<1>12. AptFrom(c, n, a) = c.entries[key]
  BY <1>11 DEF AptFrom
<1>13. AptAdds(c, n, a) = IF c.entries[key].installed THEN <<>> ELSE <<key>>
  BY <1>10, <1>11, <1>12 DEF AptAdds
<1> QED
  BY <1>13 DEF n, a

\* What is added is in the cache and not installed.
LEMMA AddedIs ==
    ASSUME NEW c \in AptCaches, NEW n \in STRING, NEW a \in STRING, NEW p, p \in Range(AptAdds(c, n, a))
    PROVE  /\ AptFound(c, n, a) # <<>> /\ p = AptTo(c, n, a).key
           /\ p \in DOMAIN c.entries /\ p \in Keys /\ c.entries[p] \in AptInfo
           /\ ~c.entries[p].installed
<1>1. AptFound(c, n, a) # <<>> /\ ~AptFrom(c, n, a).installed
  BY EmptyRange DEF AptAdds
<1>2. AptAdds(c, n, a) = <<AptTo(c, n, a).key>>
  BY <1>1 DEF AptAdds
<1>3. p = AptTo(c, n, a).key
  BY <1>2, OneIs
<1>4. p \in DOMAIN c.entries
  BY <1>1, <1>3, AptToIs
<1>5. c.entries \in Finitely(Keys, AptInfo)
  BY AptCacheHas
<1>6. p \in Keys /\ c.entries[p] \in AptInfo
  BY <1>4, <1>5, FinitelyIs
<1> QED
  BY <1>1, <1>3, <1>4, <1>6 DEF AptFrom

\* What a package depends on is among what is asked for below it.
LEMMA DepsBelow ==
    ASSUME NEW c, NEW n, NEW a, AptFrom(c, n, a) \in AptInfo
    PROVE  Range(AptFrom(c, n, a).depends) \subseteq Range(AptDeps(c, n, a))
<1> DEFINE pre == AptFrom(c, n, a).preDepends   deps == AptFrom(c, n, a).depends   all == pre \o deps
<1>1. pre \in Seq(STRING) /\ deps \in Seq(STRING)
  BY DEF AptInfo
<1> HIDE DEF pre, deps
<1>2. Range(all) = Range(pre) \cup Range(deps)
  BY <1>1, RangeOfConcat
<1> HIDE DEF all
<1>3. Range(deps) \subseteq Range(all)
  BY <1>2
<1> QED
  BY <1>3 DEF AptDeps, all, pre, deps

\* The architecture an entry's key is of, if it is of one.
LEMMA EntryKeyArch ==
    ASSUME NEW n, NEW a
    PROVE  Apt!EntryKey(n, a)[2] # "" => a \notin {"", "all"} /\ Apt!EntryKey(n, a)[2] = a
<1> DEFINE k == Apt!EntryKey(n, a)
<1>1. k[2] = IF a \in {"", "all"} THEN "" ELSE a
  BY DEF Apt!EntryKey
<1> HIDE DEF k
<1>2. k[2] # "" => a \notin {"", "all"} /\ k[2] = a
  BY <1>1
<1> QED
  BY <1>2 DEF k

\* What a package of another architecture depends on is asked for that one.
LEMMA NextBelow ==
    ASSUME NEW c \in AptCaches, NEW n \in STRING, NEW a \in STRING, NEW p, p \in Range(AptAdds(c, n, a)),
           NEW b, NEW e, e = c.entries[p], e.arch = b, b \notin {"", "all"},
           NEW d \in Range(e.depends)
    PROVE  <<d, b>> \in Range(AptNextOf(c, n, a))
<1> DEFINE all == AptDeps(c, n, a)   nxt == AptNextOf(c, n, a)
<1>1. AptFound(c, n, a) # <<>> /\ p = AptTo(c, n, a).key /\ e \in AptInfo
  BY AddedIs
<1>3. AptFrom(c, n, a) = e
  BY <1>1 DEF AptFrom
<1>4. AptBelow(c, n, a) = b
  BY <1>3 DEF AptBelow
<1>5. nxt = [j \in DOMAIN all |-> <<all[j], b>>]
  BY <1>1, <1>4 DEF AptNextOf
<1>6. d \in Range(all)
  BY <1>1, <1>3, DepsBelow
<1> HIDE DEF all, nxt
<1>7. PICK i \in DOMAIN all : all[i] = d
  BY <1>6 DEF Range
<1>8. i \in DOMAIN nxt /\ nxt[i] = <<d, b>>
  BY <1>5, <1>7
<1>9. <<d, b>> \in Range(nxt)
  BY <1>8 DEF Range
<1> QED
  BY <1>9 DEF nxt

\* What a package of another architecture depends on is added for that
\* architecture, unless it is there or the host's serves.
LEMMA NeedsFollow ==
    ASSUME NEW c \in AptCaches, NEW U \in SUBSET Keys, ClosedUnder(Apt!Graph(c), U),
           NEW x \in U, NEW p, p \in Range(Adds(Apt!Graph(c), x)), p[2] # "",
           Apt!EntryKey(c.entries[p].name, c.entries[p].arch) = p,
           NEW y \in DOMAIN c.entries, y \in Keys, y[1] \in Range(c.entries[p].depends), y[2] = p[2],
           c.entries[y].multiArch \notin {"foreign", "allowed"}, ~c.entries[y].installed
    PROVE  y \in U /\ y \in Range(Adds(Apt!Graph(c), y))
<1>1. x \in Keys /\ x[1] \in STRING /\ x[2] \in STRING /\ Normal(x[2]) \in STRING
  BY KeysAre, NormalIs
<1>2. PICK n \in STRING, a \in STRING : n = x[1] /\ a = Normal(x[2])
  BY <1>1
<1>3. p \in Range(AptAdds(c, n, a)) /\ NextOf(Apt!Graph(c), x) = AptNextOf(c, n, a)
  BY <1>1, <1>2, AptGraphIs
<1>4. PICK e : e = c.entries[p]
  OBVIOUS
<1>5. PICK b : b = p[2]
  OBVIOUS
<1>6. e.arch = b /\ b \notin {"", "all"}
  <2>1. Apt!EntryKey(e.name, e.arch)[2] = b /\ b # ""
    BY <1>4, <1>5
  <2> QED
    BY <2>1, EntryKeyArch
<1>7. <<y[1], b>> \in Range(AptNextOf(c, n, a))
  BY <1>3, <1>4, <1>6, NextBelow
<1>8. y = <<y[1], b>>
  BY <1>5, KeysAre
<1>9. y \in Range(NextOf(Apt!Graph(c), x))
  BY <1>3, <1>7, <1>8
<1>10. y \in U
  <2> DEFINE g == Apt!Graph(c)
  <2>1. y \in Range(NextOf(g, x)) /\ ClosedUnder(g, U)
    BY <1>9
  <2> HIDE DEF g
  <2> QED
    BY <2>1 DEF ClosedUnder, NextOf
<1>11. y[2] \notin {"", "all"} /\ Normal(y[2]) = y[2]
  BY <1>5, <1>6 DEF Normal
<1>12. AptAdds(c, y[1], y[2]) = <<y>>
  BY <1>11, ForeignFound
<1>13. Adds(Apt!Graph(c), y) = <<y>>
  BY <1>11, <1>12, AptGraphIs
<1>14. y \in Range(Adds(Apt!Graph(c), y))
  BY <1>13, OneIs
<1> QED
  BY <1>10, <1>14

\* The closure that is resolved, and what is in it.
LEMMA ResolvedIs ==
    ASSUME NEW c \in AptCaches, NEW seeds \in Seq(Keys)
    PROVE  LET order == Apt!ResolveDeps(c, seeds).order
           IN  /\ order \in Seq(Keys)
               /\ \E U \in SUBSET Keys :
                     /\ ClosedUnder(Apt!Graph(c), U)
                     /\ \A p : p \in Range(order) <=> \E x \in U : p \in Range(Adds(Apt!Graph(c), x))
<1> DEFINE g == Apt!Graph(c)
           S == States(Keys, Keys, STRING)
           U == Reach(g, Range(seeds))
           order == PlanOf(VisitAll(S, g, seeds))
<1>1. Fit(g, Keys, Keys, STRING) /\ DOMAIN g = Keys
  BY AptFit, AptGraphIs
<1> HIDE DEF g
<1>2. GraphOver(g, Keys, Keys, STRING) /\ LocallyFinite(g)
  BY <1>1 DEF Fit
<1>3. seeds \in Seq(DOMAIN g) /\ IsFiniteSet(Range(seeds)) /\ Range(seeds) \in SUBSET DOMAIN g
  BY <1>1, FiniteRange
<1>4. Part(g, U)
  BY <1>2, <1>3, ClosureIsPart
<1>5. U \in SUBSET Keys /\ ClosedUnder(g, U)
  BY <1>1, <1>4 DEF Part, Confined
<1> HIDE DEF U
<1>6. MarksAgree(g, U)
  BY <1>1, <1>5 DEF Fit
<1>7. /\ order \in Seq(Keys)
      /\ \A p : p \in Range(order) <=> \E x \in U : p \in Range(Adds(g, x))
  BY <1>2, <1>3, <1>6, VisitorIsCorrect DEF U
<1>8. Apt!ResolveDeps(c, seeds).order = order
  <2>1. Apt!VisitState = S
    BY DEF Apt!VisitState, States, Keys
  <2>2. Apt!ResolveDeps(c, seeds) = Apt!VisitAll(Apt!VisitState, g, seeds)
    BY DEF Apt!ResolveDeps, g
  <2> HIDE DEF S
  <2>3. Apt!VisitAll(S, g, seeds) = VisitAll(S, g, seeds)
    BY SameVisitor
  <2>4. Apt!ResolveDeps(c, seeds) = VisitAll(S, g, seeds)
    BY <2>1, <2>2, <2>3
  <2> QED
    BY <2>4 DEF PlanOf
<1> HIDE DEF order, S
<1> QED
  BY <1>5, <1>7, <1>8 DEF g

\* What is resolved is in the cache.
LEMMA ResolvedAreThere ==
    ASSUME NEW c \in AptCaches, NEW seeds \in Seq(Keys)
    PROVE  LET order == Apt!ResolveDeps(c, seeds).order
           IN  order \in Seq(Keys) /\ Range(order) \subseteq DOMAIN c.entries
<1> DEFINE order == Apt!ResolveDeps(c, seeds).order
           g == Apt!Graph(c)
<1>1. /\ order \in Seq(Keys)
      /\ \E U \in SUBSET Keys :
            /\ ClosedUnder(g, U)
            /\ \A p : p \in Range(order) <=> \E x \in U : p \in Range(Adds(g, x))
  BY ResolvedIs
<1>2. PICK U \in SUBSET Keys : \A p : p \in Range(order) <=> \E x \in U : p \in Range(Adds(g, x))
  BY <1>1
<1> HIDE DEF order
<1>3. ASSUME NEW p \in Range(order) PROVE p \in DOMAIN c.entries
  <2>1. PICK x \in U : p \in Range(Adds(g, x))
    BY <1>2
  <2>2. x \in Keys /\ x[1] \in STRING /\ Normal(x[2]) \in STRING
    BY KeysAre, NormalIs
  <2>3. Adds(g, x) = AptAdds(c, x[1], Normal(x[2]))
    BY <2>2, AptGraphIs
  <2> QED
    BY <2>1, <2>2, <2>3, AddedIs
<1> QED
  BY <1>1, <1>3 DEF order

\* What is resolved is in the cache, and with a package of another architecture
\* is what it depends on, unless that is there or the host's serves.
THEOREM ClosureNeedsNothing ==
    ASSUME NEW c \in AptCaches, NEW seeds \in Seq(Keys),
           \A key \in DOMAIN c.entries : Apt!EntryKey(c.entries[key].name, c.entries[key].arch) = key
    PROVE  LET order == Apt!ResolveDeps(c, seeds).order
           IN  /\ order \in Seq(Keys)
               /\ Range(order) \subseteq DOMAIN c.entries
               /\ \A p \in Range(order), y \in DOMAIN c.entries :
                     p[2] # "" /\ y[1] \in Range(c.entries[p].depends) /\ y[2] = p[2] =>
                         \/ y \in Range(order)
                         \/ c.entries[y].installed
                         \/ c.entries[y].multiArch \in {"foreign", "allowed"}
<1> DEFINE order == Apt!ResolveDeps(c, seeds).order
           g == Apt!Graph(c)
<1>1. /\ order \in Seq(Keys)
      /\ \E U \in SUBSET Keys :
            /\ ClosedUnder(g, U)
            /\ \A p : p \in Range(order) <=> \E x \in U : p \in Range(Adds(g, x))
  BY ResolvedIs
<1>2. PICK U \in SUBSET Keys :
            /\ ClosedUnder(g, U)
            /\ \A p : p \in Range(order) <=> \E x \in U : p \in Range(Adds(g, x))
  BY <1>1
<1> HIDE DEF order
<1>3. ASSUME NEW p \in Range(order)
      PROVE  /\ p \in DOMAIN c.entries
             /\ \A y \in DOMAIN c.entries :
                  p[2] # "" /\ y[1] \in Range(c.entries[p].depends) /\ y[2] = p[2] =>
                      \/ y \in Range(order)
                      \/ c.entries[y].installed
                      \/ c.entries[y].multiArch \in {"foreign", "allowed"}
  <2>1. PICK x \in U : p \in Range(Adds(g, x))
    BY <1>2
  <2>2. x \in Keys /\ x[1] \in STRING /\ Normal(x[2]) \in STRING
    BY KeysAre, NormalIs
  <2>3. Adds(g, x) = AptAdds(c, x[1], Normal(x[2]))
    BY <2>2, AptGraphIs
  <2>4. p \in DOMAIN c.entries
    BY <2>1, <2>2, <2>3, AddedIs
  <2>5. ASSUME NEW y \in DOMAIN c.entries, p[2] # "", y[1] \in Range(c.entries[p].depends), y[2] = p[2],
               ~c.entries[y].installed, c.entries[y].multiArch \notin {"foreign", "allowed"}
        PROVE  y \in Range(order)
    <3>1. Apt!EntryKey(c.entries[p].name, c.entries[p].arch) = p
      BY <2>4
    <3>2. y \in Keys
      <4>1. c.entries \in Finitely(Keys, AptInfo)
        BY AptCacheHas
      <4> QED
        BY <4>1, FinitelyIs
    <3>3. y \in U /\ y \in Range(Adds(g, y))
      BY <1>2, <2>1, <2>5, <3>1, <3>2, NeedsFollow
    <3> QED
      BY <1>2, <3>3
  <2> QED
    BY <2>4, <2>5
<1>4. Range(order) \subseteq DOMAIN c.entries
  BY <1>3
<1> QED
  BY <1>1, <1>3, <1>4 DEF order
================================================================================
