----------------------------- MODULE Induction -----------------------------
(***************************************************************************)
(* Induction and recursion in the form the provers can use, where the      *)
(* induction hypothesis is a set and the recursive step a function.        *)
(***************************************************************************)
EXTENDS Integers, FiniteSets, FiniteSetTheorems, TLAPS

\* A set of numbers that has any has a least one.
LEMMA LeastNumber ==
    ASSUME NEW S \in SUBSET Nat, S # {}
    PROVE  \E n \in S : \A m \in S : n <= m
<1> DEFINE R == OpToRel(<, Nat)
<1>1. IsWellFoundedOn(R, Nat)
  BY NatLessThanWellFounded
<1>2. \A x, y \in Nat : <<y, x>> \in R <=> y < x
  BY DEF OpToRel
<1> HIDE DEF R
<1>3. PICK n \in S : \A m \in S : ~ (<<m, n>> \in R)
  BY <1>1, WFMin, Zenon
<1>4. \A m \in S : ~ (m < n)
  BY <1>2, <1>3
<1> QED BY <1>4

\* A set that holds a number whenever it holds all the smaller ones holds all.
LEMMA NumberInduction ==
    ASSUME NEW F, \A n \in Nat : (\A m \in Nat : m < n => m \in F) => n \in F
    PROVE  Nat \subseteq F
<1> DEFINE Left == Nat \ F
<1> SUFFICES ASSUME Left # {} PROVE FALSE
  OBVIOUS
<1>1. PICK n \in Left : \A m \in Left : n <= m
  <2>1. Left \in SUBSET Nat
    OBVIOUS
  <2> HIDE DEF Left
  <2> QED BY <2>1, LeastNumber
<1>2. \A m \in Nat : m < n => m \in F
  BY <1>1
<1> QED BY <1>1, <1>2

\* A family that has a part of a finite set whenever it has all the parts of
\* that part has every part.
LEMMA PartInduction ==
    ASSUME NEW S, IsFiniteSet(S), NEW F,
           \A T \in SUBSET S : (\A U \in SUBSET T : U # T => U \in F) => T \in F
    PROVE  SUBSET S \subseteq F
<1> DEFINE R == StrictSubsetOrdering(S)
           Left == (SUBSET S) \ F
<1>1. IsWellFoundedOn(R, SUBSET S)
  BY FS_StrictSubsetOrderingWellFounded, FS_FiniteSubsetsOfFinite
<1>2. SUFFICES ASSUME ~ (SUBSET S \subseteq F) PROVE FALSE
  OBVIOUS
<1>3. Left # {} /\ Left \subseteq SUBSET S
  BY <1>2
<1>4. PICK T \in Left : \A U \in Left : ~ (<<U, T>> \in R)
  <2> HIDE DEF R, Left
  <2> QED BY ONLY <1>1, <1>3, WFMin, Zenon
<1>5. ASSUME NEW U \in SUBSET T, U # T PROVE U \in F
  <2>1. <<U, T>> \in R
    BY <1>4, <1>5 DEF StrictSubsetOrdering
  <2> QED BY <1>4, <2>1
<1> QED BY <1>4, <1>5

-----------------------------------------------------------------------------
(* Recursion along `down`, which lowers the rank until it is 0.            *)

\* A recursion over D with values in V: `base` where the rank is 0, else `step`
\* of the value further down.
Descends(D, V, rank, down, base, step) ==
    /\ rank \in [D -> Nat] /\ down \in [D -> D]
    /\ base \in [D -> V] /\ step \in [D \X V -> V]
    /\ \A s \in D : rank[s] # 0 => rank[down[s]] < rank[s]

\* g satisfies the equation at s.
Solves(g, s, rank, down, base, step) ==
    g[s] = IF rank[s] = 0 THEN base[s] ELSE step[<<s, g[down[s]]>>]

\* g satisfies it up to rank n.
SolvesTo(g, n, D, V, rank, down, base, step) ==
    /\ g \in [D -> V]
    /\ \A s \in D : rank[s] <= n => Solves(g, s, rank, down, base, step)

\* Two solutions agree wherever both are solutions.
LEMMA SolutionsAgree ==
    ASSUME NEW D, NEW V, NEW rank, NEW down, NEW base, NEW step,
           Descends(D, V, rank, down, base, step),
           NEW g, NEW h, NEW n \in Nat, NEW m \in Nat,
           SolvesTo(g, n, D, V, rank, down, base, step),
           SolvesTo(h, m, D, V, rank, down, base, step)
    PROVE  \A s \in D : rank[s] <= n /\ rank[s] <= m => g[s] = h[s]
<1> USE DEF Descends
<1> DEFINE F == {k \in Nat : \A s \in D :
                    rank[s] = k /\ rank[s] <= n /\ rank[s] <= m => g[s] = h[s]}
<1>1. ASSUME NEW k \in Nat, \A j \in Nat : j < k => j \in F PROVE k \in F
  <2> SUFFICES ASSUME NEW s \in D, rank[s] = k, rank[s] <= n, rank[s] <= m PROVE g[s] = h[s]
    OBVIOUS
  <2>1. Solves(g, s, rank, down, base, step) /\ Solves(h, s, rank, down, base, step)
    BY DEF SolvesTo
  <2>2. CASE k = 0
    BY <2>1, <2>2 DEF Solves
  <2>3. CASE k # 0
    <3>1. down[s] \in D /\ rank[down[s]] \in Nat /\ rank[down[s]] < k
      BY <2>3
    <3>2. rank[down[s]] \in F
      BY <1>1, <3>1
    <3>3. g[down[s]] = h[down[s]]
      BY <3>1, <3>2
    <3> QED BY <2>1, <2>3, <3>3 DEF Solves
  <2> QED BY <2>2, <2>3
<1>2. Nat \subseteq F
  <2> HIDE DEF F
  <2> QED BY <1>1, NumberInduction
<1> QED BY <1>2

\* Up to every rank there is a solution: one more rank is one step more.
LEMMA SolutionTo ==
    ASSUME NEW D, NEW V, NEW rank, NEW down, NEW base, NEW step,
           Descends(D, V, rank, down, base, step)
    PROVE  \A n \in Nat : \E g : SolvesTo(g, n, D, V, rank, down, base, step)
<1> USE DEF Descends
<1> DEFINE F == {n \in Nat : \E g : SolvesTo(g, n, D, V, rank, down, base, step)}
<1>1. ASSUME NEW n \in Nat, \A m \in Nat : m < n => m \in F PROVE n \in F
  <2>1. CASE n = 0
    <3>1. \A s \in D : rank[s] <= 0 => rank[s] = 0
      OBVIOUS
    <3>2. SolvesTo(base, 0, D, V, rank, down, base, step)
      BY <3>1 DEF SolvesTo, Solves
    <3> QED BY <2>1, <3>2
  <2>2. CASE n # 0
    <3>1. PICK g : SolvesTo(g, n - 1, D, V, rank, down, base, step)
      BY <1>1, <2>2
    <3> DEFINE more == [s \in D |-> IF rank[s] <= n - 1 THEN g[s] ELSE step[<<s, g[down[s]]>>]]
    <3>2. g \in [D -> V] /\ \A s \in D : <<s, g[down[s]]>> \in D \X V
      BY <3>1 DEF SolvesTo
    <3>3. more \in [D -> V]
      BY <3>2
    <3>4. ASSUME NEW s \in D, rank[s] <= n PROVE Solves(more, s, rank, down, base, step)
      <4>1. rank[s] # 0 => more[down[s]] = g[down[s]]
        BY <3>4, <2>2
      <4>2. CASE rank[s] <= n - 1
        <5>1. Solves(g, s, rank, down, base, step)
          BY <3>1, <4>2 DEF SolvesTo
        <5>2. more[s] = g[s]
          BY <4>2
        <5> HIDE DEF more
        <5> QED BY <4>1, <5>1, <5>2 DEF Solves
      <4>3. CASE rank[s] = n
        <5>1. more[s] = step[<<s, g[down[s]]>>]
          BY <4>3, <2>2
        <5> HIDE DEF more
        <5> QED BY <4>1, <4>3, <2>2, <5>1 DEF Solves
      <4> QED BY <3>4, <4>2, <4>3
    <3>5. SolvesTo(more, n, D, V, rank, down, base, step)
      <4> HIDE DEF more
      <4> QED BY <3>3, <3>4 DEF SolvesTo
    <3> QED BY <3>5
  <2> QED BY <2>1, <2>2
<1>2. Nat \subseteq F
  <2> HIDE DEF F
  <2> QED BY <1>1, NumberInduction
<1> QED BY <1>2

\* What a recursive definition of this shape defines does exist.
LEMMA RecursionSolved ==
    ASSUME NEW D, NEW V, NEW rank, NEW down, NEW base, NEW step,
           Descends(D, V, rank, down, base, step)
    PROVE  \E g \in [D -> V] : \A s \in D :
              g[s] = IF rank[s] = 0 THEN base[s] ELSE step[<<s, g[down[s]]>>]
<1> DEFINE To(n) == CHOOSE g : SolvesTo(g, n, D, V, rank, down, base, step)
           all == [s \in D |-> To(rank[s])[s]]
<1>0. /\ rank \in [D -> Nat] /\ down \in [D -> D]
      /\ \A s \in D : rank[s] # 0 => rank[down[s]] < rank[s]
  BY DEF Descends
<1>1. \A n \in Nat : SolvesTo(To(n), n, D, V, rank, down, base, step)
  BY SolutionTo, Zenon
<1> HIDE DEF To
<1>2. all \in [D -> V]
  <2>1. \A s \in D : To(rank[s]) \in [D -> V]
    BY <1>0, <1>1 DEF SolvesTo
  <2> QED BY <2>1
<1>3. ASSUME NEW s \in D PROVE Solves(all, s, rank, down, base, step)
  <2>1. Solves(To(rank[s]), s, rank, down, base, step) /\ all[s] = To(rank[s])[s]
    BY <1>0, <1>1 DEF SolvesTo
  <2>2. ASSUME rank[s] # 0 PROVE all[down[s]] = To(rank[s])[down[s]]
    <3>1. down[s] \in D /\ rank[down[s]] \in Nat /\ rank[s] \in Nat /\ rank[down[s]] <= rank[s]
      BY <1>0, <2>2
    <3>2. SolvesTo(To(rank[s]), rank[s], D, V, rank, down, base, step)
          /\ SolvesTo(To(rank[down[s]]), rank[down[s]], D, V, rank, down, base, step)
      BY <1>1, <3>1
    <3> DEFINE n == rank[s]
               m == rank[down[s]]
               one == To(n)
               other == To(m)
    <3>3. n \in Nat /\ m \in Nat
          /\ SolvesTo(one, n, D, V, rank, down, base, step)
          /\ SolvesTo(other, m, D, V, rank, down, base, step)
      BY <3>1, <3>2
    <3> HIDE DEF n, m, one, other
    <3>4. \A t \in D : rank[t] <= n /\ rank[t] <= m => one[t] = other[t]
      BY ONLY Descends(D, V, rank, down, base, step), <3>3, SolutionsAgree, SMT
    <3> QED BY <3>1, <3>4 DEF n, m, one, other
  <2> HIDE DEF all
  <2> QED BY <2>1, <2>2 DEF Solves
<1>4. \A s \in D : all[s] = IF rank[s] = 0 THEN base[s] ELSE step[<<s, all[down[s]]>>]
  BY <1>3 DEF Solves
<1> HIDE DEF all
<1> QED BY <1>2, <1>4
=============================================================================
