---------------------------- MODULE DataTheorems ----------------------------
(***************************************************************************)
(* Facts about the data the models compute with, for every finite set.     *)
(*                                                                         *)
(* - The total of a function, as MapThenSumSet computes it, does not       *)
(*   depend on the order, adds up, and is the sum over the groups of any   *)
(*   partition; the same for sums of ratios.                               *)
(* - A finite set of integers has a first and a last.                      *)
(* - A scan day by day that joins over holes of one day finds the maximal  *)
(*   runs of a set of days, all of them and nothing else.                  *)
(*                                                                         *)
(* The induction is by a least counterexample: the cardinalities of the    *)
(* subsets that fail have a least element (WFMin), and a smallest such     *)
(* subset has only good ones below it.                                     *)
(***************************************************************************)
EXTENDS Integers, FiniteSetsExt, FiniteSetTheorems, WellFoundedInduction, TLAPS

\* A set of naturals has a least element.
LEMMA LeastNatural ==
    ASSUME NEW T \in SUBSET Nat, T # {}
    PROVE  \E n \in T : \A m \in T : n <= m
<1>1. PICK R : R = OpToRel(<, Nat)
  OBVIOUS
<1>2. R = {p \in Nat \X Nat : p[1] < p[2]}
  BY <1>1 DEF OpToRel
<1>3. IsWellFoundedOn(R, Nat)
  BY <1>1, NatLessThanWellFounded, Zenon
<1>4. PICK n \in T : \A m \in T : <<m, n>> \notin R
  BY <1>3, WFMin
<1>5. ASSUME NEW m \in T PROVE n <= m
  <2>1. CASE m < n
    <3>1. PICK p : p = <<m, n>>
      OBVIOUS
    <3>2. p \in Nat \X Nat /\ p[1] = m /\ p[2] = n
      BY <3>1
    <3>3. p \in R
      BY <1>2, <2>1, <3>2
    <3> QED
      BY <1>4, <3>1, <3>3
  <2> QED
    BY <2>1
<1> QED
  BY <1>5

\* Induction over the subsets of a finite set: G is closed under taking on a
\* set all of whose proper subsets it has.
LEMMA SubsetInduction ==
    ASSUME NEW S, IsFiniteSet(S), NEW G \in SUBSET (SUBSET S),
           \A s \in SUBSET S : (\A t \in SUBSET s : t # s => t \in G) => s \in G
    PROVE  G = SUBSET S
<1> SUFFICES ASSUME G # SUBSET S PROVE FALSE
  OBVIOUS
<1>1. PICK N : N = {Cardinality(s) : s \in (SUBSET S) \ G}
  OBVIOUS
<1>2. \A s \in SUBSET S : IsFiniteSet(s) /\ Cardinality(s) \in Nat
  BY FS_Subset, FS_CardinalityType
<1>3. N \in SUBSET Nat /\ N # {}
  BY <1>1, <1>2
<1>4. PICK n \in N : \A m \in N : n <= m
  BY <1>3, LeastNatural
<1>5. PICK s \in (SUBSET S) \ G : Cardinality(s) = n
  BY <1>1
<1>6. PICK t \in SUBSET s : t # s /\ t \notin G
  <2>1. s \in SUBSET S /\ s \notin G
    BY <1>5
  <2>2. ~ (\A t \in SUBSET s : t # s => t \in G)
    BY <2>1
  <2> QED
    BY <2>2
<1>7. Cardinality(t) <= Cardinality(s) /\ Cardinality(s) # Cardinality(t)
  <2>1. IsFiniteSet(s) /\ t \in SUBSET s
    BY <1>2, <1>5
  <2> QED
    BY <1>6, <2>1, FS_Subset
<1>8. Cardinality(t) \in N
  <2>1. t \in (SUBSET S) \ G
    BY <1>5, <1>6
  <2> QED
    BY <1>1, <2>1
<1> QED
  BY <1>2, <1>3, <1>4, <1>5, <1>6, <1>7, <1>8

-----------------------------------------------------------------------------
(* The total as a fold, and what a fold is *)

Chosen(s) == CHOOSE x \in s : TRUE
Total(f, S) == MapThenSumSet(LAMBDA x : f[x], S)
IsFold(g, f, S) ==
    g = [s \in SUBSET S |-> IF s = {} THEN 0 ELSE f[Chosen(s)] + g[s \ {Chosen(s)}]]

\* MapThenSumSet is the fold at the whole set.
LEMMA TotalIsFold ==
    ASSUME NEW f, NEW S
    PROVE  Total(f, S) = (CHOOSE g : IsFold(g, f, S))[S]
BY DEF Total, MapThenSumSet, MapThenFoldSet, IsFold, Chosen

\* A set that is not empty has the element chosen.
LEMMA ChosenIn == ASSUME NEW s, s # {} PROVE Chosen(s) \in s
BY DEF Chosen

\* Two folds agree on the sets both have.
LEMMA FoldsAgree ==
    ASSUME NEW f, NEW S, NEW T, NEW g, NEW h, NEW u \in SUBSET (S \cap T),
           IsFiniteSet(u), IsFold(g, f, S), IsFold(h, f, T)
    PROVE  g[u] = h[u]
<1>1. PICK G : G = {t \in SUBSET u : g[t] = h[t]}
  OBVIOUS
<1>2. ASSUME NEW s \in SUBSET u, \A t \in SUBSET s : t # s => t \in G PROVE s \in G
  <2>1. s \in SUBSET S /\ s \in SUBSET T
    OBVIOUS
  <2>2. /\ g[s] = IF s = {} THEN 0 ELSE f[Chosen(s)] + g[s \ {Chosen(s)}]
        /\ h[s] = IF s = {} THEN 0 ELSE f[Chosen(s)] + h[s \ {Chosen(s)}]
    BY <2>1 DEF IsFold
  <2>3. CASE s = {}
    BY <1>1, <2>2, <2>3
  <2>4. CASE s # {}
    <3>1. s \ {Chosen(s)} \in G
      BY <1>2, <2>4, ChosenIn
    <3>2. g[s \ {Chosen(s)}] = h[s \ {Chosen(s)}]
      BY <1>1, <3>1
    <3> QED
      BY <1>1, <2>2, <2>4, <3>2
  <2> QED
    BY <2>3, <2>4
<1>3. G = SUBSET u
  <2>1. G \in SUBSET (SUBSET u)
    BY <1>1
  <2> QED
    BY <1>2, <2>1, SubsetInduction
<1> QED
  BY <1>1, <1>3

\* There is a fold over every finite set.
LEMMA FoldExists == ASSUME NEW f, NEW S, IsFiniteSet(S) PROVE \E g : IsFold(g, f, S)
<1>1. PICK G : G = {s \in SUBSET S : \E g : IsFold(g, f, s)}
  OBVIOUS
<1> DEFINE F(t) == CHOOSE g : IsFold(g, f, t)
<1>2. ASSUME NEW s \in SUBSET S, \A t \in SUBSET s : t # s => t \in G PROVE s \in G
  <2>1. ASSUME NEW t \in SUBSET s, t # s PROVE IsFold(F(t), f, t)
    BY <1>1, <1>2, <2>1
  <2>2. PICK h : h = [t \in SUBSET s |-> IF t = {} THEN 0 ELSE
                         f[Chosen(t)] + F(t \ {Chosen(t)})[t \ {Chosen(t)}]]
    OBVIOUS
  <2>3. ASSUME NEW u \in SUBSET s, u # s PROVE h[u] = F(u)[u]
    <3>0. IsFold(F(u), f, u)
      BY <2>1, <2>3
    <3>1. F(u)[u] = IF u = {} THEN 0 ELSE f[Chosen(u)] + F(u)[u \ {Chosen(u)}]
      <4>1. PICK k : k = F(u)
        OBVIOUS
      <4>2. k[u] = IF u = {} THEN 0 ELSE f[Chosen(u)] + k[u \ {Chosen(u)}]
        BY <3>0, <4>1 DEF IsFold
      <4> QED
        BY <4>1, <4>2
    <3>2. CASE u = {}
      BY <2>2, <3>1, <3>2
    <3>3. CASE u # {}
      <4>1. PICK v : v = u \ {Chosen(u)}
        OBVIOUS
      <4>2. v \in SUBSET s /\ v # s /\ v \in SUBSET u
        BY <3>3, <4>1, ChosenIn
      <4>3. IsFold(F(v), f, v)
        BY <2>1, <4>2
      <4>4. IsFiniteSet(v)
        BY <4>2, FS_Subset
      <4>5. F(u)[v] = F(v)[v]
        BY <3>0, <4>2, <4>3, <4>4, FoldsAgree
      <4>6. h[u] = f[Chosen(u)] + F(v)[v]
        BY <2>2, <3>3, <4>1
      <4> QED
        BY <3>1, <3>3, <4>1, <4>5, <4>6
    <3> QED
      BY <3>2, <3>3
  <2>4. ASSUME NEW t \in SUBSET s
        PROVE  h[t] = IF t = {} THEN 0 ELSE f[Chosen(t)] + h[t \ {Chosen(t)}]
    <3>1. CASE t = {}
      BY <2>2, <3>1
    <3>2. CASE t # {}
      <4>1. PICK v : v = t \ {Chosen(t)}
        OBVIOUS
      <4>2. v \in SUBSET s /\ v # s
        BY <3>2, <4>1, ChosenIn
      <4>3. h[v] = F(v)[v]
        BY <2>3, <4>2
      <4>4. h[t] = f[Chosen(t)] + F(v)[v]
        BY <2>2, <3>2, <4>1
      <4> QED
        BY <3>2, <4>1, <4>3, <4>4
    <3> QED
      BY <3>1, <3>2
  <2>5. IsFold(h, f, s)
    <3>1. h = [t \in SUBSET s |-> h[t]]
      BY <2>2
    <3> QED
      BY <2>4, <3>1 DEF IsFold
  <2> QED
    BY <1>1, <2>5
<1> HIDE DEF F
<1>3. G = SUBSET S
  <2>1. G \in SUBSET (SUBSET S)
    BY <1>1
  <2> QED
    BY <1>2, <2>1, SubsetInduction
<1>4. S \in G
  BY <1>3
<1> QED
  BY <1>1, <1>4

-----------------------------------------------------------------------------
(* The facts *)

\* The total over no elements is zero.
LEMMA TotalEmpty == ASSUME NEW f PROVE Total(f, {}) = 0
<1>1. PICK g : g = CHOOSE h : IsFold(h, f, {})
  OBVIOUS
<1>2. IsFold(g, f, {})
  BY <1>1, FoldExists, FS_EmptySet
<1>3. g[{}] = 0
  BY <1>2 DEF IsFold
<1> QED
  BY <1>1, <1>3, TotalIsFold

\* Folding takes one element away.
LEMMA TotalStep ==
    ASSUME NEW f, NEW S, IsFiniteSet(S), S # {}
    PROVE  Total(f, S) = f[Chosen(S)] + Total(f, S \ {Chosen(S)})
<1>1. PICK T : T = S \ {Chosen(S)}
  OBVIOUS
<1>2. PICK g : g = CHOOSE k : IsFold(k, f, S)
  OBVIOUS
<1>3. PICK h : h = CHOOSE k : IsFold(k, f, T)
  OBVIOUS
<1>4. T \in SUBSET S /\ IsFiniteSet(T)
  BY <1>1, FS_Subset
<1>5. IsFold(g, f, S) /\ IsFold(h, f, T)
  BY <1>2, <1>3, <1>4, FoldExists
<1>6. g[S] = f[Chosen(S)] + g[T]
  BY <1>1, <1>5 DEF IsFold
<1>7. g[T] = h[T]
  BY <1>4, <1>5, FoldsAgree
<1> QED
  BY <1>1, <1>2, <1>3, <1>6, <1>7, TotalIsFold

\* What agrees on a set has the same total over it.
LEMMA TotalSame ==
    ASSUME NEW f, NEW g, NEW S, IsFiniteSet(S), \A x \in S : f[x] = g[x]
    PROVE  Total(f, S) = Total(g, S)
<1>1. PICK G : G = {s \in SUBSET S : Total(f, s) = Total(g, s)}
  OBVIOUS
<1>2. ASSUME NEW s \in SUBSET S, \A t \in SUBSET s : t # s => t \in G PROVE s \in G
  <2>1. CASE s = {}
    BY <1>1, <2>1, TotalEmpty
  <2>2. CASE s # {}
    <3>1. PICK t : t = s \ {Chosen(s)}
      OBVIOUS
    <3>2. Chosen(s) \in s /\ t \in G /\ IsFiniteSet(s)
      BY <1>2, <2>2, <3>1, ChosenIn, FS_Subset
    <3>3. /\ Total(f, s) = f[Chosen(s)] + Total(f, t)
          /\ Total(g, s) = g[Chosen(s)] + Total(g, t)
      BY <2>2, <3>1, <3>2, TotalStep
    <3> QED
      BY <1>1, <3>2, <3>3
  <2> QED
    BY <2>1, <2>2
<1>3. G = SUBSET S
  <2>1. G \in SUBSET (SUBSET S)
    BY <1>1
  <2> QED
    BY <1>2, <2>1, SubsetInduction
<1> QED
  BY <1>1, <1>3

\* A total of integers is one.
LEMMA TotalType ==
    ASSUME NEW f, NEW S, IsFiniteSet(S), \A x \in S : f[x] \in Int
    PROVE  Total(f, S) \in Int
<1>1. PICK G : G = {s \in SUBSET S : Total(f, s) \in Int}
  OBVIOUS
<1>2. ASSUME NEW s \in SUBSET S, \A t \in SUBSET s : t # s => t \in G PROVE s \in G
  <2>1. CASE s = {}
    BY <1>1, <2>1, TotalEmpty
  <2>2. CASE s # {}
    <3>1. PICK t : t = s \ {Chosen(s)}
      OBVIOUS
    <3>2. Chosen(s) \in s /\ t \in G /\ IsFiniteSet(s)
      BY <1>2, <2>2, <3>1, ChosenIn, FS_Subset
    <3>3. Total(f, s) = f[Chosen(s)] + Total(f, t)
      BY <2>2, <3>1, <3>2, TotalStep
    <3> QED
      BY <1>1, <3>2, <3>3
  <2> QED
    BY <2>1, <2>2
<1>3. G = SUBSET S
  <2>1. G \in SUBSET (SUBSET S)
    BY <1>1
  <2> QED
    BY <1>2, <2>1, SubsetInduction
<1> QED
  BY <1>1, <1>3

\* The order does not matter: any element may be taken away.
LEMMA TotalTakes ==
    ASSUME NEW f, NEW S, IsFiniteSet(S), \A x \in S : f[x] \in Int, NEW a \in S
    PROVE  Total(f, S) = f[a] + Total(f, S \ {a})
<1>1. PICK G : G = {s \in SUBSET S : \A x \in s : Total(f, s) = f[x] + Total(f, s \ {x})}
  OBVIOUS
<1>2. ASSUME NEW s \in SUBSET S, \A t \in SUBSET s : t # s => t \in G PROVE s \in G
  <2> SUFFICES ASSUME NEW x \in s PROVE Total(f, s) = f[x] + Total(f, s \ {x})
    BY <1>1
  <2>1. PICK y : y = Chosen(s)
    OBVIOUS
  <2>2. y \in s /\ IsFiniteSet(s)
    BY <2>1, ChosenIn, FS_Subset
  <2>3. Total(f, s) = f[y] + Total(f, s \ {y})
    BY <2>1, <2>2, TotalStep
  <2>4. CASE x # y
    <3>1. PICK u : u = (s \ {y}) \ {x}
      OBVIOUS
    <3>2. u = (s \ {x}) \ {y}
      BY <3>1
    <3>3. s \ {x} \in G /\ s \ {y} \in G
      BY <1>2, <2>2
    <3>4. Total(f, s \ {y}) = f[x] + Total(f, u)
      BY <1>1, <2>4, <3>1, <3>3
    <3>5. Total(f, s \ {x}) = f[y] + Total(f, u)
      BY <1>1, <2>2, <2>4, <3>2, <3>3
    <3>6. Total(f, u) \in Int /\ f[x] \in Int /\ f[y] \in Int
      <4>1. u \in SUBSET S /\ IsFiniteSet(u)
        BY <3>1, FS_Subset
      <4> QED
        BY <2>2, <4>1, TotalType
    <3> QED
      BY <2>3, <3>4, <3>5, <3>6
  <2> QED
    BY <2>3, <2>4
<1>3. G = SUBSET S
  <2>1. G \in SUBSET (SUBSET S)
    BY <1>1
  <2> QED
    BY <1>2, <2>1, SubsetInduction
<1> QED
  BY <1>1, <1>3

\* The total of sums is the sum of the totals.
LEMMA TotalSum ==
    ASSUME NEW f, NEW g, NEW h, NEW S, IsFiniteSet(S),
           \A x \in S : g[x] \in Int /\ h[x] \in Int /\ f[x] = g[x] + h[x]
    PROVE  Total(f, S) = Total(g, S) + Total(h, S)
<1>1. PICK G : G = {s \in SUBSET S : Total(f, s) = Total(g, s) + Total(h, s)}
  OBVIOUS
<1>2. ASSUME NEW s \in SUBSET S, \A t \in SUBSET s : t # s => t \in G PROVE s \in G
  <2>1. CASE s = {}
    BY <1>1, <2>1, TotalEmpty
  <2>2. CASE s # {}
    <3>1. PICK t : t = s \ {Chosen(s)}
      OBVIOUS
    <3>2. Chosen(s) \in s /\ t \in G /\ IsFiniteSet(s) /\ IsFiniteSet(t)
      BY <1>2, <2>2, <3>1, ChosenIn, FS_Subset
    <3>3. /\ Total(f, s) = f[Chosen(s)] + Total(f, t)
          /\ Total(g, s) = g[Chosen(s)] + Total(g, t)
          /\ Total(h, s) = h[Chosen(s)] + Total(h, t)
      BY <2>2, <3>1, <3>2, TotalStep
    <3>4. Total(g, t) \in Int /\ Total(h, t) \in Int
      BY <3>1, <3>2, TotalType
    <3> QED
      BY <1>1, <3>2, <3>3, <3>4
  <2> QED
    BY <2>1, <2>2
<1>3. G = SUBSET S
  <2>1. G \in SUBSET (SUBSET S)
    BY <1>1
  <2> QED
    BY <1>2, <2>1, SubsetInduction
<1> QED
  BY <1>1, <1>3

\* Zeros add nothing.
LEMMA TotalWithin ==
    ASSUME NEW f, NEW g, NEW S, IsFiniteSet(S), NEW D \in SUBSET S,
           \A x \in D : f[x] = g[x] /\ f[x] \in Int, \A x \in S \ D : f[x] = 0
    PROVE  Total(f, S) = Total(g, D)
<1>1. PICK G : G = {s \in SUBSET S : Total(f, s) = Total(g, s \cap D)}
  OBVIOUS
<1>2. ASSUME NEW s \in SUBSET S, \A t \in SUBSET s : t # s => t \in G PROVE s \in G
  <2>1. CASE s = {}
    BY <1>1, <2>1, TotalEmpty
  <2>2. CASE s # {}
    <3>0. PICK y : y = Chosen(s)
      OBVIOUS
    <3>1. PICK t : t = s \ {y}
      OBVIOUS
    <3>2. y \in s /\ t \in G /\ IsFiniteSet(s) /\ IsFiniteSet(s \cap D) /\ IsFiniteSet(t \cap D)
      BY <1>2, <2>2, <3>0, <3>1, ChosenIn, FS_Subset
    <3>3. Total(f, s) = f[y] + Total(f, t)
      BY <2>2, <3>0, <3>1, <3>2, TotalStep
    <3>4. Total(f, t) = Total(g, t \cap D)
      BY <1>1, <3>2
    <3>5. Total(g, t \cap D) \in Int
      <4>1. \A x \in t \cap D : g[x] \in Int
        <5> TAKE x \in t \cap D
        <5>1. x \in D
          OBVIOUS
        <5> QED
          BY <5>1
      <4> QED
        BY <3>2, <4>1, TotalType
    <3>6. CASE y \in D
      <4>1. (s \cap D) \ {y} = t \cap D /\ y \in s \cap D
        BY <3>1, <3>2, <3>6
      <4>2. \A x \in s \cap D : g[x] \in Int
        <5> TAKE x \in s \cap D
        <5>1. x \in D
          OBVIOUS
        <5> QED
          BY <5>1
      <4>3. Total(g, s \cap D) = g[y] + Total(g, t \cap D)
        BY <3>2, <4>1, <4>2, TotalTakes
      <4> QED
        BY <1>1, <3>3, <3>4, <3>6, <4>3
    <3>7. CASE y \notin D
      <4>1. s \cap D = t \cap D
        BY <3>1, <3>7
      <4>2. f[y] = 0
        BY <3>2, <3>7
      <4>3. Total(f, s) = Total(g, s \cap D)
        BY <3>3, <3>4, <3>5, <4>1, <4>2
      <4> QED
        BY <1>1, <4>3
    <3> QED
      BY <3>6, <3>7
  <2> QED
    BY <2>1, <2>2
<1>3. G = SUBSET S
  <2>1. G \in SUBSET (SUBSET S)
    BY <1>1
  <2> QED
    BY <1>2, <2>1, SubsetInduction
<1>4. S \cap D = D
  OBVIOUS
<1> QED
  BY <1>1, <1>3, <1>4

\* The images of a finite set are finite, and as many under an injection.
LEMMA Images ==
    ASSUME NEW S, IsFiniteSet(S), NEW b
    PROVE  /\ IsFiniteSet({b[x] : x \in S})
           /\ (\A x, y \in S : b[x] = b[y] => x = y)
                => Cardinality({b[x] : x \in S}) = Cardinality(S)
<1>1. PICK T : T = {b[x] : x \in S}
  OBVIOUS
<1>2. PICK c : c = [x \in S |-> b[x]]
  OBVIOUS
<1>3. c \in Surjection(S, T)
  BY <1>1, <1>2 DEF Surjection
<1>4. (\A x, y \in S : b[x] = b[y] => x = y) => c \in Injection(S, T)
  BY <1>1, <1>2 DEF Injection, IsInjective
<1> QED
  BY <1>1, <1>3, <1>4, FS_Surjection

\* A total over the images of a set under an injection is the total over the set.
LEMMA TotalImage ==
    ASSUME NEW f, NEW g, NEW S, IsFiniteSet(S), NEW b,
           \A x, y \in S : b[x] = b[y] => x = y,
           \A x \in S : f[x] \in Int /\ f[x] = g[b[x]]
    PROVE  Total(f, S) = Total(g, {b[x] : x \in S})
<1>1. PICK G : G = {s \in SUBSET S : Total(f, s) = Total(g, {b[x] : x \in s})}
  OBVIOUS
<1>2. ASSUME NEW s \in SUBSET S, \A t \in SUBSET s : t # s => t \in G PROVE s \in G
  <2>1. CASE s = {}
    <3>1. {b[x] : x \in s} = {}
      BY <2>1
    <3> QED
      BY <1>1, <2>1, <3>1, TotalEmpty
  <2>2. CASE s # {}
    <3>1. PICK y : y = Chosen(s)
      OBVIOUS
    <3>2. PICK t : t = s \ {y}
      OBVIOUS
    <3>3. y \in s /\ t \in G /\ IsFiniteSet(s)
      BY <1>2, <2>2, <3>1, <3>2, ChosenIn, FS_Subset
    <3>4. PICK im : im = {b[x] : x \in s}
      OBVIOUS
    <3>5. b[y] \in im /\ im \ {b[y]} = {b[x] : x \in t}
      BY <3>2, <3>3, <3>4
    <3>6. IsFiniteSet(im) /\ \A z \in im : g[z] \in Int
      <4>1. IsFiniteSet(im)
        BY <3>3, <3>4, Images
      <4>2. \A z \in im : g[z] \in Int
        BY <3>4
      <4> QED
        BY <4>1, <4>2
    <3>7. Total(g, im) = g[b[y]] + Total(g, im \ {b[y]})
      BY <3>5, <3>6, TotalTakes
    <3>8. Total(f, s) = f[y] + Total(f, t)
      BY <2>2, <3>1, <3>2, <3>3, TotalStep
    <3>9. Total(f, t) = Total(g, im \ {b[y]})
      BY <1>1, <3>3, <3>5
    <3>10. Total(f, s) = Total(g, im)
      BY <3>3, <3>7, <3>8, <3>9
    <3> QED
      BY <1>1, <3>4, <3>10
  <2> QED
    BY <2>1, <2>2
<1>3. G = SUBSET S
  <2>1. G \in SUBSET (SUBSET S)
    BY <1>1
  <2> QED
    BY <1>2, <2>1, SubsetInduction
<1> QED
  BY <1>1, <1>3

\* A greater function has the greater total.
LEMMA TotalMonotone ==
    ASSUME NEW f, NEW g, NEW S, IsFiniteSet(S),
           \A x \in S : f[x] \in Int /\ g[x] \in Int /\ f[x] <= g[x]
    PROVE  Total(f, S) <= Total(g, S)
<1>1. PICK G : G = {s \in SUBSET S : Total(f, s) <= Total(g, s)}
  OBVIOUS
<1>2. ASSUME NEW s \in SUBSET S, \A t \in SUBSET s : t # s => t \in G PROVE s \in G
  <2>1. CASE s = {}
    BY <1>1, <2>1, TotalEmpty
  <2>2. CASE s # {}
    <3>1. PICK t : t = s \ {Chosen(s)}
      OBVIOUS
    <3>2. Chosen(s) \in s /\ t \in G /\ IsFiniteSet(s) /\ IsFiniteSet(t)
      BY <1>2, <2>2, <3>1, ChosenIn, FS_Subset
    <3>3. /\ Total(f, s) = f[Chosen(s)] + Total(f, t)
          /\ Total(g, s) = g[Chosen(s)] + Total(g, t)
      BY <2>2, <3>1, <3>2, TotalStep
    <3>4. Total(f, t) \in Int /\ Total(g, t) \in Int
      BY <3>1, <3>2, TotalType
    <3>5. Total(f, s) <= Total(g, s)
      BY <1>1, <3>2, <3>3, <3>4
    <3> QED
      BY <1>1, <3>5
  <2> QED
    BY <2>1, <2>2
<1>3. G = SUBSET S
  <2>1. G \in SUBSET (SUBSET S)
    BY <1>1
  <2> QED
    BY <1>2, <2>1, SubsetInduction
<1> QED
  BY <1>1, <1>3

\* Ones count.
LEMMA TotalCount ==
    ASSUME NEW f, NEW S, IsFiniteSet(S), NEW C \in SUBSET S,
           \A x \in C : f[x] = 1, \A x \in S \ C : f[x] = 0
    PROVE  Total(f, S) = Cardinality(C)
<1>1. PICK G : G = {s \in SUBSET C : Total(f, s) = Cardinality(s)}
  OBVIOUS
<1>2. ASSUME NEW s \in SUBSET C, \A t \in SUBSET s : t # s => t \in G PROVE s \in G
  <2>1. CASE s = {}
    BY <1>1, <2>1, TotalEmpty, FS_EmptySet
  <2>2. CASE s # {}
    <3>1. PICK y : y = Chosen(s)
      OBVIOUS
    <3>2. PICK t : t = s \ {y}
      OBVIOUS
    <3>3. y \in s /\ t \in G /\ IsFiniteSet(s) /\ IsFiniteSet(t)
      BY <1>2, <2>2, <3>1, <3>2, ChosenIn, FS_Subset
    <3>4. Total(f, s) = 1 + Total(f, t)
      BY <2>2, <3>1, <3>2, <3>3, TotalStep
    <3>5. Cardinality(t) = Cardinality(s) - 1 /\ Cardinality(s) \in Nat
      BY <3>2, <3>3, FS_RemoveElement, FS_CardinalityType
    <3>6. Total(f, s) = Cardinality(s)
      BY <1>1, <3>3, <3>4, <3>5
    <3> QED
      BY <1>1, <3>6
  <2> QED
    BY <2>1, <2>2
<1>3. IsFiniteSet(C)
  BY FS_Subset
<1>4. G = SUBSET C
  <2>1. G \in SUBSET (SUBSET C)
    BY <1>1
  <2> QED
    BY <1>2, <1>3, <2>1, SubsetInduction
<1>5. Total(f, C) = Cardinality(C)
  BY <1>1, <1>4
<1>6. Total(f, S) = Total(f, C)
  <2>1. \A x \in C : f[x] = f[x] /\ f[x] \in Int
    OBVIOUS
  <2> QED
    BY <2>1, TotalWithin
<1> QED
  BY <1>5, <1>6

\* The total over a set is the total of the totals over its groups.
LEMMA TotalGroup ==
    ASSUME NEW f, NEW S, IsFiniteSet(S), \A x \in S : f[x] \in Int,
           NEW k, NEW D, IsFiniteSet(D), \A x \in S : k[x] \in D
    PROVE  Total(f, S) = Total([d \in D |-> Total(f, {x \in S : k[x] = d})], D)
<1>1. PICK P : P = [s \in SUBSET S |-> [d \in D |-> Total(f, {x \in s : k[x] = d})]]
  OBVIOUS
<1>2. PICK G : G = {s \in SUBSET S : Total(f, s) = Total(P[s], D)}
  OBVIOUS
<1>3. ASSUME NEW s \in SUBSET S, NEW d \in D
      PROVE  P[s][d] \in Int /\ P[s][d] = Total(f, {x \in s : k[x] = d})
  <2>1. PICK u : u = {x \in s : k[x] = d}
    OBVIOUS
  <2>2. IsFiniteSet(u) /\ \A x \in u : f[x] \in Int
    BY <2>1, FS_Subset
  <2> QED
    BY <1>1, <2>1, <2>2, TotalType
<1>4. ASSUME NEW s \in SUBSET S, \A t \in SUBSET s : t # s => t \in G PROVE s \in G
  <2>1. CASE s = {}
    <3>1. PICK zeros : zeros = [d \in D |-> 0]
      OBVIOUS
    <3>2. \A d \in D : P[s][d] = 0
      <4> TAKE d \in D
      <4>1. {x \in s : k[x] = d} = {}
        BY <2>1
      <4> QED
        BY <1>3, <4>1, TotalEmpty
    <3>3. Total(P[s], D) = Total(P[s], {})
      <4>1. PICK q : q = P[s]
        OBVIOUS
      <4>2. PICK N : N = {}
        OBVIOUS
      <4>3. \A x \in D \ N : q[x] = 0
        BY <3>2, <4>1
      <4>4. N \in SUBSET D /\ \A x \in N : q[x] = q[x] /\ q[x] \in Int
        BY <4>2
      <4>5. Total(q, D) = Total(q, N)
        BY <4>3, <4>4, TotalWithin
      <4> QED
        BY <4>1, <4>2, <4>5
    <3> QED
      BY <1>2, <2>1, <3>3, TotalEmpty
  <2>2. CASE s # {}
    <3>1. PICK y : y = Chosen(s)
      OBVIOUS
    <3>2. PICK t : t = s \ {y}
      OBVIOUS
    <3>3. y \in s /\ t \in G /\ IsFiniteSet(s) /\ t \in SUBSET S
      BY <1>4, <2>2, <3>1, <3>2, ChosenIn, FS_Subset
    <3>4. Total(f, s) = f[y] + Total(f, t)
      BY <2>2, <3>1, <3>2, <3>3, TotalStep
    <3>5. PICK e : e = k[y] /\ e \in D
      BY <3>3
    <3>6. P[s][e] = f[y] + P[t][e]
      <4>1. PICK u : u = {x \in s : k[x] = e}
        OBVIOUS
      <4>2. y \in u /\ u \ {y} = {x \in t : k[x] = e} /\ u \in SUBSET s
        BY <3>2, <3>3, <3>5, <4>1
      <4>3. IsFiniteSet(u) /\ \A x \in u : f[x] \in Int
        BY <3>3, <4>2, FS_Subset
      <4>4. Total(f, u) = f[y] + Total(f, u \ {y})
        BY <4>2, <4>3, TotalTakes
      <4> QED
        BY <1>3, <3>3, <3>5, <4>1, <4>2, <4>4
    <3>7. ASSUME NEW d \in D \ {e} PROVE P[s][d] = P[t][d]
      <4>1. {x \in s : k[x] = d} = {x \in t : k[x] = d}
        BY <3>2, <3>5
      <4>2. d \in D
        OBVIOUS
      <4>3. P[s][d] = Total(f, {x \in s : k[x] = d}) /\ P[t][d] = Total(f, {x \in t : k[x] = d})
        BY <1>3, <3>3, <4>2
      <4> QED
        BY <4>1, <4>3
    <3>8. PICK q, r : q = P[s] /\ r = P[t]
      OBVIOUS
    <3>9. \A d \in D : q[d] \in Int /\ r[d] \in Int
      BY <1>3, <3>3, <3>8
    <3>10. Total(q, D) = q[e] + Total(q, D \ {e}) /\ Total(r, D) = r[e] + Total(r, D \ {e})
      BY <3>5, <3>9, TotalTakes
    <3>11. IsFiniteSet(D \ {e})
      BY FS_Subset
    <3>12. Total(q, D \ {e}) = Total(r, D \ {e}) /\ Total(r, D \ {e}) \in Int
      BY <3>7, <3>8, <3>9, <3>11, TotalSame, TotalType
    <3>13. Total(f, t) = Total(r, D)
      BY <1>2, <3>3, <3>8
    <3>14. Total(f, s) = Total(q, D)
      BY <3>3, <3>4, <3>5, <3>6, <3>8, <3>9, <3>10, <3>12, <3>13
    <3> QED
      BY <1>2, <3>8, <3>14
  <2> QED
    BY <2>1, <2>2
<1>5. G = SUBSET S
  <2>1. G \in SUBSET (SUBSET S)
    BY <1>2
  <2> QED
    BY <1>4, <2>1, SubsetInduction
<1>6. Total(f, S) = Total(P[S], D)
  BY <1>2, <1>5
<1>7. P[S] = [d \in D |-> Total(f, {x \in S : k[x] = d})]
  BY <1>1
<1> QED
  BY <1>6, <1>7

\* A set has as many elements as its groups together.
LEMMA CountGroup ==
    ASSUME NEW S, IsFiniteSet(S), NEW k, NEW D, IsFiniteSet(D), \A x \in S : k[x] \in D
    PROVE  Cardinality(S) = Total([d \in D |-> Cardinality({x \in S : k[x] = d})], D)
<1>1. PICK f : f = [x \in S |-> 1]
  OBVIOUS
<1>2. ASSUME NEW s \in SUBSET S PROVE Total(f, s) = Cardinality(s)
  <2>1. IsFiniteSet(s) /\ (\A x \in s : f[x] = 1) /\ (\A x \in s \ s : f[x] = 0) /\ s \in SUBSET s
    BY <1>1, FS_Subset
  <2> QED
    BY <2>1, TotalCount
<1>3. \A x \in S : f[x] \in Int
  BY <1>1
<1>4. Total(f, S) = Total([d \in D |-> Total(f, {x \in S : k[x] = d})], D)
  BY <1>3, TotalGroup
<1>5. \A d \in D : Total(f, {x \in S : k[x] = d}) = Cardinality({x \in S : k[x] = d})
  BY <1>2
<1>6. PICK p, q : /\ p = [d \in D |-> Total(f, {x \in S : k[x] = d})]
                  /\ q = [d \in D |-> Cardinality({x \in S : k[x] = d})]
  OBVIOUS
<1>7. \A d \in D : p[d] = q[d]
  BY <1>5, <1>6
<1>8. Total(p, D) = Total(q, D)
  BY <1>7, TotalSame
<1> QED
  BY <1>2, <1>4, <1>6, <1>8
-----------------------------------------------------------------------------
(* Sums of ratios *)

NoRatio == [sum |-> 0, n |-> 1]
AddRatio(a, b) ==
    IF a.n = b.n THEN [sum |-> a.sum + b.sum, n |-> a.n]
    ELSE [sum |-> a.sum * b.n + b.sum * a.n, n |-> a.n * b.n]
RatioTotal(f, S) ==
    MapThenFoldSet(AddRatio, NoRatio, LAMBDA x : f[x], LAMBDA T : CHOOSE x \in T : TRUE, S)
IsRatioFold(g, f, S) ==
    g = [s \in SUBSET S |-> IF s = {} THEN NoRatio ELSE AddRatio(f[Chosen(s)], g[s \ {Chosen(s)}])]

\* RatioTotal is the fold at the whole set.
LEMMA RatioIsFold ==
    ASSUME NEW f, NEW S
    PROVE  RatioTotal(f, S) = (CHOOSE g : IsRatioFold(g, f, S))[S]
BY DEF RatioTotal, MapThenFoldSet, IsRatioFold, Chosen

\* Two folds of ratios agree on the sets both have.
LEMMA RatioFoldsAgree ==
    ASSUME NEW f, NEW S, NEW T, NEW g, NEW h, NEW u \in SUBSET (S \cap T),
           IsFiniteSet(u), IsRatioFold(g, f, S), IsRatioFold(h, f, T)
    PROVE  g[u] = h[u]
<1>1. PICK G : G = {t \in SUBSET u : g[t] = h[t]}
  OBVIOUS
<1>2. ASSUME NEW s \in SUBSET u, \A t \in SUBSET s : t # s => t \in G PROVE s \in G
  <2>1. s \in SUBSET S /\ s \in SUBSET T
    OBVIOUS
  <2>2. /\ g[s] = IF s = {} THEN NoRatio ELSE AddRatio(f[Chosen(s)], g[s \ {Chosen(s)}])
        /\ h[s] = IF s = {} THEN NoRatio ELSE AddRatio(f[Chosen(s)], h[s \ {Chosen(s)}])
    BY <2>1 DEF IsRatioFold
  <2>3. CASE s = {}
    BY <1>1, <2>2, <2>3
  <2>4. CASE s # {}
    <3>1. s \ {Chosen(s)} \in G
      BY <1>2, <2>4, ChosenIn
    <3>2. g[s \ {Chosen(s)}] = h[s \ {Chosen(s)}]
      BY <1>1, <3>1
    <3> QED
      BY <1>1, <2>2, <2>4, <3>2
  <2> QED
    BY <2>3, <2>4
<1>3. G = SUBSET u
  <2>1. G \in SUBSET (SUBSET u)
    BY <1>1
  <2> QED
    BY <1>2, <2>1, SubsetInduction
<1> QED
  BY <1>1, <1>3

\* There is a fold of ratios over every finite set.
LEMMA RatioFoldExists == ASSUME NEW f, NEW S, IsFiniteSet(S) PROVE \E g : IsRatioFold(g, f, S)
<1>1. PICK G : G = {s \in SUBSET S : \E g : IsRatioFold(g, f, s)}
  OBVIOUS
<1> DEFINE F(t) == CHOOSE g : IsRatioFold(g, f, t)
<1>2. ASSUME NEW s \in SUBSET S, \A t \in SUBSET s : t # s => t \in G PROVE s \in G
  <2>1. ASSUME NEW t \in SUBSET s, t # s PROVE IsRatioFold(F(t), f, t)
    BY <1>1, <1>2, <2>1
  <2>2. PICK h : h = [t \in SUBSET s |-> IF t = {} THEN NoRatio ELSE
                         AddRatio(f[Chosen(t)], F(t \ {Chosen(t)})[t \ {Chosen(t)}])]
    OBVIOUS
  <2>3. ASSUME NEW u \in SUBSET s, u # s PROVE h[u] = F(u)[u]
    <3>0. IsRatioFold(F(u), f, u)
      BY <2>1, <2>3
    <3>1. F(u)[u] = IF u = {} THEN NoRatio ELSE AddRatio(f[Chosen(u)], F(u)[u \ {Chosen(u)}])
      <4>1. PICK k : k = F(u)
        OBVIOUS
      <4>2. k[u] = IF u = {} THEN NoRatio ELSE AddRatio(f[Chosen(u)], k[u \ {Chosen(u)}])
        BY <3>0, <4>1 DEF IsRatioFold
      <4> QED
        BY <4>1, <4>2
    <3>2. CASE u = {}
      BY <2>2, <3>1, <3>2
    <3>3. CASE u # {}
      <4>1. PICK v : v = u \ {Chosen(u)}
        OBVIOUS
      <4>2. v \in SUBSET s /\ v # s /\ v \in SUBSET u
        BY <3>3, <4>1, ChosenIn
      <4>3. IsRatioFold(F(v), f, v)
        BY <2>1, <4>2
      <4>4. IsFiniteSet(v)
        BY <4>2, FS_Subset
      <4>5. F(u)[v] = F(v)[v]
        BY <3>0, <4>2, <4>3, <4>4, RatioFoldsAgree
      <4>6. h[u] = AddRatio(f[Chosen(u)], F(v)[v])
        BY <2>2, <3>3, <4>1
      <4> QED
        BY <3>1, <3>3, <4>1, <4>5, <4>6
    <3> QED
      BY <3>2, <3>3
  <2>4. ASSUME NEW t \in SUBSET s
        PROVE  h[t] = IF t = {} THEN NoRatio ELSE AddRatio(f[Chosen(t)], h[t \ {Chosen(t)}])
    <3>1. CASE t = {}
      BY <2>2, <3>1
    <3>2. CASE t # {}
      <4>1. PICK v : v = t \ {Chosen(t)}
        OBVIOUS
      <4>2. v \in SUBSET s /\ v # s
        BY <3>2, <4>1, ChosenIn
      <4>3. h[v] = F(v)[v]
        BY <2>3, <4>2
      <4>4. h[t] = AddRatio(f[Chosen(t)], F(v)[v])
        BY <2>2, <3>2, <4>1
      <4> QED
        BY <3>2, <4>1, <4>3, <4>4
    <3> QED
      BY <3>1, <3>2
  <2>5. IsRatioFold(h, f, s)
    <3>1. h = [t \in SUBSET s |-> h[t]]
      BY <2>2
    <3> QED
      BY <2>4, <3>1 DEF IsRatioFold
  <2> QED
    BY <1>1, <2>5
<1> HIDE DEF F
<1>3. G = SUBSET S
  <2>1. G \in SUBSET (SUBSET S)
    BY <1>1
  <2> QED
    BY <1>2, <2>1, SubsetInduction
<1>4. S \in G
  BY <1>3
<1> QED
  BY <1>1, <1>4

\* The sum of no ratios is zero.
LEMMA RatioEmpty == ASSUME NEW f PROVE RatioTotal(f, {}) = NoRatio
<1>1. PICK g : g = CHOOSE h : IsRatioFold(h, f, {})
  OBVIOUS
<1>2. IsRatioFold(g, f, {})
  BY <1>1, RatioFoldExists, FS_EmptySet
<1>3. g[{}] = NoRatio
  BY <1>2 DEF IsRatioFold
<1> QED
  BY <1>1, <1>3, RatioIsFold

\* Folding ratios takes one element away.
LEMMA RatioStep ==
    ASSUME NEW f, NEW S, IsFiniteSet(S), S # {}
    PROVE  RatioTotal(f, S) = AddRatio(f[Chosen(S)], RatioTotal(f, S \ {Chosen(S)}))
<1>1. PICK T : T = S \ {Chosen(S)}
  OBVIOUS
<1>2. PICK g : g = CHOOSE k : IsRatioFold(k, f, S)
  OBVIOUS
<1>3. PICK h : h = CHOOSE k : IsRatioFold(k, f, T)
  OBVIOUS
<1>4. T \in SUBSET S /\ IsFiniteSet(T)
  BY <1>1, FS_Subset
<1>5. IsRatioFold(g, f, S) /\ IsRatioFold(h, f, T)
  BY <1>2, <1>3, <1>4, RatioFoldExists
<1>6. g[S] = AddRatio(f[Chosen(S)], g[T])
  BY <1>1, <1>5 DEF IsRatioFold
<1>7. g[T] = h[T]
  BY <1>4, <1>5, RatioFoldsAgree
<1> QED
  BY <1>1, <1>2, <1>3, <1>6, <1>7, RatioIsFold

\* Ratios that agree on a set have the same sum over it.
LEMMA RatioSame ==
    ASSUME NEW f, NEW g, NEW S, IsFiniteSet(S), \A x \in S : f[x] = g[x]
    PROVE  RatioTotal(f, S) = RatioTotal(g, S)
<1>1. PICK G : G = {s \in SUBSET S : RatioTotal(f, s) = RatioTotal(g, s)}
  OBVIOUS
<1>2. ASSUME NEW s \in SUBSET S, \A t \in SUBSET s : t # s => t \in G PROVE s \in G
  <2>1. CASE s = {}
    BY <1>1, <2>1, RatioEmpty
  <2>2. CASE s # {}
    <3>1. PICK t : t = s \ {Chosen(s)}
      OBVIOUS
    <3>2. Chosen(s) \in s /\ t \in G /\ IsFiniteSet(s)
      BY <1>2, <2>2, <3>1, ChosenIn, FS_Subset
    <3>3. /\ RatioTotal(f, s) = AddRatio(f[Chosen(s)], RatioTotal(f, t))
          /\ RatioTotal(g, s) = AddRatio(g[Chosen(s)], RatioTotal(g, t))
      BY <2>2, <3>1, <3>2, RatioStep
    <3> QED
      BY <1>1, <3>2, <3>3
  <2> QED
    BY <2>1, <2>2
<1>3. G = SUBSET S
  <2>1. G \in SUBSET (SUBSET S)
    BY <1>1
  <2> QED
    BY <1>2, <2>1, SubsetInduction
<1> QED
  BY <1>1, <1>3

\* The sum of ratios of integers is one.
LEMMA RatioType ==
    ASSUME NEW f, NEW S, IsFiniteSet(S), \A x \in S : f[x] \in [sum : Int, n : Int]
    PROVE  RatioTotal(f, S) \in [sum : Int, n : Int]
<1>1. PICK G : G = {s \in SUBSET S : RatioTotal(f, s) \in [sum : Int, n : Int]}
  OBVIOUS
<1>2. ASSUME NEW s \in SUBSET S, \A t \in SUBSET s : t # s => t \in G PROVE s \in G
  <2>1. CASE s = {}
    BY <1>1, <2>1, RatioEmpty DEF NoRatio
  <2>2. CASE s # {}
    <3>1. PICK y, t : y = Chosen(s) /\ t = s \ {Chosen(s)}
      OBVIOUS
    <3>2. y \in s /\ t \in G /\ IsFiniteSet(s)
      BY <1>2, <2>2, <3>1, ChosenIn, FS_Subset
    <3>3. RatioTotal(f, s) = AddRatio(f[y], RatioTotal(f, t))
      BY <2>2, <3>1, <3>2, RatioStep
    <3>4. \A a, b \in [sum : Int, n : Int] : AddRatio(a, b) \in [sum : Int, n : Int]
      BY DEF AddRatio
    <3>5. f[y] \in [sum : Int, n : Int] /\ RatioTotal(f, t) \in [sum : Int, n : Int]
      BY <1>1, <3>2
    <3> QED
      BY <1>1, <3>3, <3>4, <3>5
  <2> QED
    BY <2>1, <2>2
<1>3. G = SUBSET S
  <2>1. G \in SUBSET (SUBSET S)
    BY <1>1
  <2> QED
    BY <1>2, <2>1, SubsetInduction
<1> QED
  BY <1>1, <1>3

\* The sum of ratios that are whole: its numerator is its denominator times the
\* total of the whole numbers.
LEMMA RatioValue ==
    ASSUME NEW f, NEW v, NEW S, IsFiniteSet(S),
           \A x \in S : /\ v[x] \in Int /\ f[x].n \in Nat \ {0} 
                        /\ f[x].sum = v[x] * f[x].n
    PROVE  /\ RatioTotal(f, S).n \in Nat \ {0}
           /\ RatioTotal(f, S).sum = Total(v, S) * RatioTotal(f, S).n
<1>1. PICK G : G = {s \in SUBSET S : /\ RatioTotal(f, s).n \in Nat \ {0}
                                     /\ RatioTotal(f, s).sum = Total(v, s) * RatioTotal(f, s).n}
  OBVIOUS
<1>2. ASSUME NEW s \in SUBSET S, \A t \in SUBSET s : t # s => t \in G PROVE s \in G
  <2>1. CASE s = {}
    BY <1>1, <2>1, TotalEmpty, RatioEmpty DEF NoRatio
  <2>2. CASE s # {}
    <3>1. PICK y, t : y = Chosen(s) /\ t = s \ {Chosen(s)}
      OBVIOUS
    <3>2. y \in s /\ t \in G /\ IsFiniteSet(s) /\ IsFiniteSet(t)
      BY <1>2, <2>2, <3>1, ChosenIn, FS_Subset
    <3>3. /\ Total(v, s) = v[y] + Total(v, t)
          /\ RatioTotal(f, s) = AddRatio(f[y], RatioTotal(f, t))
      BY <2>2, <3>1, <3>2, TotalStep, RatioStep
    <3>4. PICK a, r, w, q : a = f[y] /\ r = RatioTotal(f, t) /\ w = v[y] /\ q = Total(v, t)
      OBVIOUS
    <3>5. q \in Int
      BY <3>1, <3>2, <3>4, TotalType
    <3>6. PICK k, m : k = a.n /\ m = r.n
      OBVIOUS
    <3>7. k \in Nat \ {0} /\ m \in Nat \ {0} /\ w \in Int /\ a.sum = w * k /\ r.sum = q * m
      BY <1>1, <3>2, <3>4, <3>6
    <3>8. PICK z : z = AddRatio(a, r)
      OBVIOUS
    <3>9. z.n \in Nat \ {0} /\ z.sum = (w + q) * z.n
      <4>1. CASE k = m
        <5>1. z.n = k /\ z.sum = w * k + q * m
          BY <3>6, <3>7, <3>8, <4>1 DEF AddRatio
        <5>2. w * k + q * k = (w + q) * k
          BY <3>5, <3>7
        <5> QED
          BY <3>7, <4>1, <5>1, <5>2
      <4>2. CASE k # m
        <5>1. z.n = k * m /\ z.sum = (w * k) * m + (q * m) * k
          BY <3>6, <3>7, <3>8, <4>2 DEF AddRatio
        <5>2. k * m \in Nat \ {0}
          BY <3>7
        <5>3. (w * k) * m + (q * m) * k = (w + q) * (k * m)
          BY <3>5, <3>7
        <5> QED
          BY <5>1, <5>2, <5>3
      <4> QED
        BY <4>1, <4>2
    <3>10. RatioTotal(f, s) = z /\ Total(v, s) = w + q
      BY <3>3, <3>4, <3>8
    <3> QED
      BY <1>1, <3>9, <3>10
  <2> QED
    BY <2>1, <2>2
<1>3. G = SUBSET S
  <2>1. G \in SUBSET (SUBSET S)
    BY <1>1
  <2> QED
    BY <1>2, <2>1, SubsetInduction
<1> QED
  BY <1>1, <1>3
-----------------------------------------------------------------------------
(* First and last of a finite set of integers *)

\* A finite set of integers that is not empty has a least and a greatest element,
\* and Min and Max are these.
LEMMA HasEnds ==
    ASSUME NEW S \in SUBSET Int, IsFiniteSet(S), S # {}
    PROVE  \E a, b \in S : \A x \in S : a <= x /\ x <= b
<1>1. PICK G : G = {s \in SUBSET S : s # {} => \E a, b \in s : \A x \in s : a <= x /\ x <= b}
  OBVIOUS
<1>2. ASSUME NEW s \in SUBSET S, \A t \in SUBSET s : t # s => t \in G PROVE s \in G
  <2> SUFFICES ASSUME s # {} PROVE \E a, b \in s : \A x \in s : a <= x /\ x <= b
    BY <1>1
  <2>1. PICK y, t : y \in s /\ t = s \ {y}
    OBVIOUS
  <2>2. t \in G /\ y \in Int /\ \A x \in t : x \in Int
    BY <1>2, <2>1
  <2>3. CASE t = {}
    <3>1. \A x \in s : y <= x /\ x <= y
      BY <2>1, <2>2, <2>3
    <3> QED
      BY <2>1, <3>1
  <2>4. CASE t # {}
    <3>1. PICK a \in t, b \in t : \A x \in t : a <= x /\ x <= b
      BY <1>1, <2>2, <2>4
    <3>2. PICK c, e : c = (IF y <= a THEN y ELSE a) /\ e = (IF b <= y THEN y ELSE b)
      OBVIOUS
    <3>3. c \in s /\ e \in s /\ \A x \in s : c <= x /\ x <= e
      BY <2>1, <2>2, <3>1, <3>2
    <3> QED
      BY <3>3
  <2> QED
    BY <2>3, <2>4
<1>3. G = SUBSET S
  <2>1. G \in SUBSET (SUBSET S)
    BY <1>1
  <2> QED
    BY <1>2, <2>1, SubsetInduction
<1>4. S \in G
  BY <1>3
<1> QED
  BY <1>1, <1>4

\* A first and a last element are the minimum and the maximum.
LEMMA EndsAre ==
    ASSUME NEW S \in SUBSET Int, NEW a \in S, NEW b \in S, \A x \in S : a <= x /\ x <= b
    PROVE  Min(S) = a /\ Max(S) = b
<1>1. Min(S) = a
  <2>1. \A x \in S : (\A y \in S : x <= y) <=> x = a
    OBVIOUS
  <2> QED
    BY <2>1 DEF Min
<1>2. Max(S) = b
  <2>1. \A x \in S : (\A y \in S : x >= y) <=> x = b
    OBVIOUS
  <2> QED
    BY <2>1 DEF Max
<1> QED
  BY <1>1, <1>2

-----------------------------------------------------------------------------
(* Runs of a set of days, and the scan that finds them *)

\* R, from a to b, is a run of G: joined over holes of one day, none longer, and as long as
\* it can be; OpenRun leaves open whether it goes on.
OpenRun(G, R, a, b) ==
    /\ a \in R /\ b \in R /\ R = G \cap (a..b)
    /\ \A x \in a..(b - 1) : x \in R \/ x + 1 \in R
    /\ a - 1 \notin G /\ a - 2 \notin G
IsRun(G, R, a, b) == OpenRun(G, R, a, b) /\ b + 1 \notin G /\ b + 2 \notin G
RunsUpTo(G, d) == {R \in SUBSET G : \E a, b \in Int : IsRun(G, R, a, b) /\ b <= d}

\* Two runs that share a day are one.
LEMMA RunUnique ==
    ASSUME NEW G \in SUBSET Int, NEW R, NEW Q, NEW a \in Int, NEW b \in Int, NEW c \in Int, NEW e \in Int,
           IsRun(G, R, a, b), IsRun(G, Q, c, e), R \cap Q # {}
    PROVE  a = c /\ b = e /\ R = Q
<1>1. PICK x : x \in R /\ x \in Q
  OBVIOUS
<1>2. x \in Int /\ a <= x /\ x <= b /\ c <= x /\ x <= e
  BY <1>1 DEF IsRun, OpenRun
<1>3. ASSUME NEW S, NEW P, NEW k \in Int, NEW l \in Int, NEW m \in Int, NEW n \in Int,
             IsRun(G, S, k, l), IsRun(G, P, m, n), x \in S, x \in P
      PROVE  ~(l < n) /\ ~(k < m)
  <2>0. k <= x /\ x <= l /\ m <= x /\ x <= n
    BY <1>3 DEF IsRun, OpenRun
  <2>1. ASSUME l < n PROVE FALSE
    <3>1. l + 1 \notin G /\ l + 2 \notin G /\ n \in G /\ P \subseteq G
      BY <1>3 DEF IsRun, OpenRun
    <3>2. l + 1 < n
      BY <2>1, <3>1
    <3>3. l + 1 \in m..(n - 1)
      BY <1>2, <2>0, <3>2
    <3>4. l + 1 \in P \/ (l + 1) + 1 \in P
      BY <1>3, <3>3 DEF IsRun, OpenRun
    <3>5. (l + 1) + 1 = l + 2
      OBVIOUS
    <3> QED
      BY <3>1, <3>4, <3>5
  <2>2. ASSUME k < m PROVE FALSE
    <3>1. m - 1 \notin G /\ m - 2 \notin G /\ k \in G /\ S \subseteq G
      BY <1>3 DEF IsRun, OpenRun
    <3>2. k < m - 1
      BY <2>2, <3>1
    <3>3. m - 2 \in k..(l - 1)
      BY <1>2, <2>0, <3>2
    <3>4. m - 2 \in S \/ (m - 2) + 1 \in S
      BY <1>3, <3>3 DEF IsRun, OpenRun
    <3>5. (m - 2) + 1 = m - 1
      OBVIOUS
    <3> QED
      BY <3>1, <3>4, <3>5
  <2> QED
    BY <2>1, <2>2
<1>4. ~(b < e) /\ ~(a < c)
  BY <1>1, <1>3
<1>5. ~(e < b) /\ ~(c < a)
  BY <1>1, <1>3
<1>6. a = c /\ b = e
  BY <1>4, <1>5
<1> QED
  BY <1>6 DEF IsRun, OpenRun

\* A run ends where the next begins: none ends on a day out of the set, and none
\* two days before a day of it.
LEMMA RunsStep ==
    ASSUME NEW G \in SUBSET Int, NEW d \in Int, d \in G \/ d - 1 \in G \/ d - 2 \notin G
    PROVE  RunsUpTo(G, d - 2) = RunsUpTo(G, d - 3)
<1>1. ASSUME NEW R, NEW a \in Int, NEW b \in Int, IsRun(G, R, a, b) PROVE b # d - 2
  <2>1. b \in G /\ b + 1 \notin G /\ b + 2 \notin G
    BY <1>1 DEF IsRun, OpenRun
  <2>2. b = d - 2 => b + 1 = d - 1 /\ b + 2 = d
    OBVIOUS
  <2> QED
    BY <2>1, <2>2
<1>2. ASSUME NEW R \in SUBSET G
      PROVE  (\E a, b \in Int : IsRun(G, R, a, b) /\ b <= d - 2)
               <=> (\E a, b \in Int : IsRun(G, R, a, b) /\ b <= d - 3)
  <2>1. \A a, b \in Int : IsRun(G, R, a, b) => (b <= d - 2 <=> b <= d - 3)
    BY <1>1
  <2> QED
    BY <2>1
<1> QED
  BY <1>2 DEF RunsUpTo

\* The scan: the days of the open run, the days since the last of them, and the
\* runs that have ended; a run ends with the second day out of the set.
ScanStep(s, d, G) ==
    IF d \in G THEN [s EXCEPT !.current = @ \cup {d}, !.gap = 0]
    ELSE IF s.current = {} THEN s
    ELSE IF s.gap + 1 > 1 THEN [current |-> {}, gap |-> 0, runs |-> s.runs \cup {s.current}]
    ELSE [s EXCEPT !.gap = @ + 1]
ScanInv(s, d, G) ==
    /\ s = [current |-> s.current, gap |-> s.gap, runs |-> s.runs]
    /\ s.runs = RunsUpTo(G, d - 2)
    /\ s.current = {} => d \notin G /\ d - 1 \notin G
    /\ s.current # {} =>
         /\ s.gap \in {0, 1} /\ (s.gap = 1 => d \notin G)
         /\ \E a \in Int : OpenRun(G, s.current, a, d - s.gap)

\* A step of the scan.
LEMMA ScanStepInv ==
    ASSUME NEW G \in SUBSET Int, NEW d \in Int, NEW s, ScanInv(s, d - 1, G), NEW t, t = ScanStep(s, d, G)
    PROVE  ScanInv(t, d, G)
<1>1. PICK cur, gap, runs : cur = s.current /\ gap = s.gap /\ runs = s.runs
  OBVIOUS
<1>2. s = [current |-> cur, gap |-> gap, runs |-> runs]
  BY <1>1 DEF ScanInv
<1>3. (d - 1) - 2 = d - 3 /\ (d - 1) - 1 = d - 2
  OBVIOUS
<1>4. /\ runs = RunsUpTo(G, d - 3)
      /\ cur = {} => d - 1 \notin G /\ d - 2 \notin G
      /\ cur # {} => /\ gap \in {0, 1} /\ (gap = 1 => d - 1 \notin G)
                     /\ \E a \in Int : OpenRun(G, cur, a, (d - 1) - gap)
  BY <1>1, <1>3 DEF ScanInv
<1>5. CASE d \in G
  <2>1. t = [current |-> cur \cup {d}, gap |-> 0, runs |-> runs]
    BY <1>2, <1>5 DEF ScanStep
  <2>2. runs = RunsUpTo(G, d - 2)
    BY <1>4, <1>5, RunsStep
  <2>3. \E a \in Int : OpenRun(G, cur \cup {d}, a, d)
    <3>1. CASE cur = {}
      <4>1. OpenRun(G, {d}, d, d)
        BY <1>4, <1>5, <3>1 DEF OpenRun
      <4> QED
        BY <3>1, <4>1
    <3>2. CASE cur # {}
      <4>1. PICK a \in Int : OpenRun(G, cur, a, (d - 1) - gap)
        BY <1>4, <3>2
      <4>2. PICK b \in Int : b = (d - 1) - gap
        BY <1>4, <3>2
      <4>3. /\ b = d - 1 \/ (b = d - 2 /\ d - 1 \notin G)
            /\ a \in cur /\ b \in cur /\ cur = G \cap (a..b) /\ a <= b
            /\ \A x \in a..(b - 1) : x \in cur \/ x + 1 \in cur
            /\ a - 1 \notin G /\ a - 2 \notin G
        BY <1>4, <3>2, <4>1, <4>2 DEF OpenRun
      <4>4. cur \cup {d} = G \cap (a..d)
        BY <1>5, <4>3
      <4>5. ASSUME NEW x \in a..(d - 1) PROVE x \in cur \cup {d} \/ x + 1 \in cur \cup {d}
        <5>1. CASE x <= b - 1
          BY <4>3, <5>1
        <5>2. CASE x = b
          BY <4>3, <5>2
        <5>3. CASE x > b
          <6>1. x + 1 = d
            BY <4>3, <5>3
          <6> QED
            BY <6>1
        <5> QED
          BY <5>1, <5>2, <5>3
      <4>6. OpenRun(G, cur \cup {d}, a, d)
        BY <4>3, <4>4, <4>5 DEF OpenRun
      <4> QED
        BY <4>6
    <3> QED
      BY <3>1, <3>2
  <2> QED
    BY <2>1, <2>2, <2>3 DEF ScanInv
<1>6. CASE d \notin G /\ cur = {}
  <2>1. t = s
    BY <1>1, <1>6 DEF ScanStep
  <2>2. runs = RunsUpTo(G, d - 2)
    BY <1>4, <1>6, RunsStep
  <2> QED
    BY <1>1, <1>2, <1>4, <1>6, <2>1, <2>2 DEF ScanInv
<1>7. CASE d \notin G /\ cur # {} /\ gap = 0
  <2>1. t = [current |-> cur, gap |-> 1, runs |-> runs]
    BY <1>2, <1>7 DEF ScanStep
  <2>2. PICK a \in Int : OpenRun(G, cur, a, d - 1)
    BY <1>4, <1>7
  <2>3. d - 1 \in G
    BY <2>2 DEF OpenRun
  <2>4. runs = RunsUpTo(G, d - 2)
    BY <1>4, <2>3, RunsStep
  <2> QED
    BY <1>7, <2>1, <2>2, <2>4 DEF ScanInv
<1>8. CASE d \notin G /\ cur # {} /\ gap = 1
  <2>1. t = [current |-> {}, gap |-> 0, runs |-> runs \cup {cur}]
    BY <1>2, <1>8 DEF ScanStep
  <2>2. PICK a \in Int : OpenRun(G, cur, a, d - 2)
    BY <1>4, <1>8
  <2>3. d - 1 \notin G
    BY <1>4, <1>8
  <2>4. IsRun(G, cur, a, d - 2)
    BY <1>8, <2>2, <2>3 DEF IsRun
  <2>5. cur \in SUBSET G /\ d - 2 \in cur
    BY <2>2 DEF OpenRun
  <2>6. ASSUME NEW R \in SUBSET G
        PROVE  (\E x, y \in Int : IsRun(G, R, x, y) /\ y <= d - 2)
                 <=> R = cur \/ (\E x, y \in Int : IsRun(G, R, x, y) /\ y <= d - 3)
    <3>1. ASSUME NEW x \in Int, NEW y \in Int, IsRun(G, R, x, y), y = d - 2 PROVE R = cur
      <4>1. d - 2 \in R
        BY <3>1 DEF IsRun, OpenRun
      <4>2. R \cap cur # {} /\ d - 2 \in Int
        BY <2>5, <4>1
      <4> QED
        BY <2>4, <3>1, <4>2, RunUnique
    <3>2. \A y \in Int : y <= d - 2 <=> y = d - 2 \/ y <= d - 3
      OBVIOUS
    <3>3. d - 2 \in Int
      OBVIOUS
    <3> QED
      BY <2>4, <3>1, <3>2, <3>3
  <2>7. runs \cup {cur} = RunsUpTo(G, d - 2)
    BY <1>4, <2>5, <2>6 DEF RunsUpTo
  <2> QED
    BY <1>8, <2>1, <2>3, <2>7 DEF ScanInv
<1> QED
  BY <1>4, <1>5, <1>6, <1>7, <1>8

NoRuns == [current |-> {}, gap |-> 0, runs |-> {}]
IsScan(g, G, lo, last) ==
    g = [d \in (lo - 1)..last |-> IF d < lo THEN NoRuns ELSE ScanStep(g[d - 1], d, G)]
RunScan(G, lo, last) == (CHOOSE g : IsScan(g, G, lo, last))[last]

\* Induction over the naturals: a set of naturals that has 0 and every successor.
LEMMA EveryNatural ==
    ASSUME NEW N \in SUBSET Nat, 0 \in N, \A n \in N : n + 1 \in N
    PROVE  N = Nat
<1> SUFFICES ASSUME N # Nat PROVE FALSE
  OBVIOUS
<1>1. Nat \ N \in SUBSET Nat /\ Nat \ N # {}
  OBVIOUS
<1>2. PICK n \in Nat \ N : \A m \in Nat \ N : n <= m
  BY <1>1, LeastNatural
<1>3. n # 0 /\ n - 1 \in Nat /\ (n - 1) + 1 = n
  BY <1>2
<1>4. n - 1 \in N
  BY <1>2, <1>3
<1> QED
  BY <1>2, <1>3, <1>4

\* There is a scan of any length.
LEMMA ScanExists ==
    ASSUME NEW G, NEW lo \in Int, NEW n \in Nat
    PROVE  \E g : IsScan(g, G, lo, (lo - 1) + n)
<1>1. PICK N : N = {m \in Nat : \E g : IsScan(g, G, lo, (lo - 1) + m)}
  OBVIOUS
<1>2. 0 \in N
  <2>1. PICK g : g = [d \in (lo - 1)..((lo - 1) + 0) |-> NoRuns]
    OBVIOUS
  <2>2. g = [d \in (lo - 1)..((lo - 1) + 0) |-> IF d < lo THEN NoRuns ELSE ScanStep(g[d - 1], d, G)]
    BY <2>1
  <2>3. IsScan(g, G, lo, (lo - 1) + 0)
    BY <2>2 DEF IsScan
  <2> QED
    BY <1>1, <2>3
<1>3. ASSUME NEW m \in N PROVE m + 1 \in N
  <2>1. PICK g : IsScan(g, G, lo, (lo - 1) + m)
    BY <1>1
  <2>2. PICK l \in Int : l = (lo - 1) + m
    BY <1>1
  <2>3. l + 1 = (lo - 1) + (m + 1) /\ lo - 1 <= l /\ m \in Nat
    BY <1>1, <2>2
  <2>4. PICK h : h = [d \in (lo - 1)..(l + 1) |-> IF d = l + 1 THEN ScanStep(g[l], l + 1, G) ELSE g[d]]
    OBVIOUS
  <2>5. g = [d \in (lo - 1)..l |-> IF d < lo THEN NoRuns ELSE ScanStep(g[d - 1], d, G)]
    BY <2>1, <2>2 DEF IsScan
  <2>6. ASSUME NEW d \in (lo - 1)..(l + 1)
        PROVE  h[d] = IF d < lo THEN NoRuns ELSE ScanStep(h[d - 1], d, G)
    <3>1. CASE d = l + 1
      <4>1. h[d] = ScanStep(g[l], d, G) /\ h[l] = g[l] /\ d - 1 = l /\ ~(d < lo)
        BY <2>3, <2>4, <3>1
      <4> QED
        BY <4>1
    <3>2. CASE d # l + 1 /\ d < lo
      <4>1. d \in (lo - 1)..l
        BY <3>2
      <4>2. h[d] = g[d]
        BY <2>4, <3>2
      <4> QED
        BY <2>5, <3>2, <4>1, <4>2
    <3>3. CASE d # l + 1 /\ ~(d < lo)
      <4>1. d \in (lo - 1)..l /\ d - 1 \in (lo - 1)..(l + 1) /\ d - 1 # l + 1
        BY <3>3
      <4>2. h[d] = g[d] /\ h[d - 1] = g[d - 1]
        BY <2>4, <3>3, <4>1
      <4>3. g[d] = ScanStep(g[d - 1], d, G)
        BY <2>5, <3>3, <4>1
      <4> QED
        BY <3>3, <4>2, <4>3
    <3> QED
      BY <3>1, <3>2, <3>3
  <2>7. h = [d \in (lo - 1)..(l + 1) |-> h[d]]
    BY <2>4
  <2>8. IsScan(h, G, lo, l + 1)
    BY <2>6, <2>7 DEF IsScan
  <2> QED
    BY <1>1, <2>3, <2>8
<1>4. N = Nat
  BY <1>1, <1>2, <1>3, EveryNatural
<1> QED
  BY <1>1, <1>4

\* The scan keeps its invariant from day to day.
LEMMA ScanKeeps ==
    ASSUME NEW lo \in Int, NEW G \in SUBSET Int, \A d \in G : lo <= d,
           NEW n \in Nat, NEW last, last = (lo - 1) + n
    PROVE  ScanInv(RunScan(G, lo, last), last, G)
<1>1. PICK g : g = CHOOSE h : IsScan(h, G, lo, last)
  OBVIOUS
<1>2. IsScan(g, G, lo, last)
  BY <1>1, ScanExists
<1>3. g = [d \in (lo - 1)..last |-> IF d < lo THEN NoRuns ELSE ScanStep(g[d - 1], d, G)]
  BY <1>2 DEF IsScan
<1>4. PICK N : N = {m \in Nat : m <= n => ScanInv(g[(lo - 1) + m], (lo - 1) + m, G)}
  OBVIOUS
<1>5. 0 \in N
  <2>1. PICK l \in Int : l = lo - 1
    OBVIOUS
  <2>2. g[l] = NoRuns
    BY <1>3, <2>1
  <2>3. l \notin G /\ l - 1 \notin G
    BY <2>1
  <2>4. RunsUpTo(G, l - 2) = {}
    <3>1. ASSUME NEW R, NEW a \in Int, NEW b \in Int, IsRun(G, R, a, b) PROVE ~(b <= l - 2)
      BY <2>1, <3>1 DEF IsRun, OpenRun
    <3> QED
      BY <3>1 DEF RunsUpTo
  <2>5. ScanInv(NoRuns, l, G)
    BY <2>3, <2>4 DEF ScanInv, NoRuns
  <2> QED
    BY <1>4, <2>1, <2>2, <2>5
<1>6. ASSUME NEW m \in N PROVE m + 1 \in N
  <2> SUFFICES ASSUME m + 1 <= n PROVE ScanInv(g[(lo - 1) + (m + 1)], (lo - 1) + (m + 1), G)
    BY <1>4
  <2>1. PICK d \in Int : d = (lo - 1) + (m + 1)
    BY <1>4
  <2>2. d - 1 = (lo - 1) + m /\ d \in (lo - 1)..last /\ ~(d < lo) /\ m <= n
    BY <1>4, <2>1
  <2>3. ScanInv(g[d - 1], d - 1, G)
    BY <1>4, <2>2
  <2>4. g[d] = ScanStep(g[d - 1], d, G)
    BY <1>3, <2>2
  <2>5. ScanInv(g[d], d, G)
    BY <2>3, <2>4, ScanStepInv
  <2> QED
    BY <2>1, <2>5
<1>7. N = Nat
  <2>1. N \in SUBSET Nat
    BY <1>4
  <2> QED
    BY <1>5, <1>6, <2>1, EveryNatural
<1>8. ScanInv(g[last], last, G)
  <2>1. n \in N
    BY <1>7
  <2> QED
    BY <1>4, <2>1
<1> QED
  BY <1>1, <1>8 DEF RunScan

\* What is closed when the scan ends on a day after which the set has none: the
\* runs of the set.
ClosedRuns(s) == s.runs \cup (IF s.current = {} THEN {} ELSE {s.current})
AllRuns(G) == {R \in SUBSET G : \E a, b \in Int : IsRun(G, R, a, b)}
\* The scan of all days of a set finds its runs.
LEMMA ScanFindsRuns ==
    ASSUME NEW lo \in Int, NEW G \in SUBSET Int, NEW n \in Nat, NEW last, last = (lo - 1) + n,
           \A d \in G : lo <= d /\ d <= last
    PROVE  ClosedRuns(RunScan(G, lo, last)) = AllRuns(G)
<1>1. PICK s : s = RunScan(G, lo, last)
  OBVIOUS
<1>2. ScanInv(s, last, G) /\ last \in Int
  <2>1. \A d \in G : lo <= d
    OBVIOUS
  <2>2. ScanInv(RunScan(G, lo, last), last, G)
    BY <2>1, ScanKeeps
  <2> QED
    BY <1>1, <2>2
<1>3. PICK cur, gap, runs : cur = s.current /\ gap = s.gap /\ runs = s.runs
  OBVIOUS
<1>4. /\ runs = RunsUpTo(G, last - 2)
      /\ cur = {} => last \notin G /\ last - 1 \notin G
      /\ cur # {} => /\ gap \in {0, 1} /\ (gap = 1 => last \notin G)
                     /\ \E a \in Int : OpenRun(G, cur, a, last - gap)
  BY <1>2, <1>3 DEF ScanInv
<1>5. \A R, a, b : IsRun(G, R, a, b) => b \in R /\ b \in G /\ b \in Int /\ b <= last
  BY DEF IsRun, OpenRun
<1>6. CASE cur = {}
  <2>1. \A R, a, b : IsRun(G, R, a, b) => b <= last - 2
    <3>1. ASSUME NEW R, NEW a, NEW b, IsRun(G, R, a, b) PROVE b <= last - 2
      <4>1. b \in G /\ b \in Int /\ b <= last
        BY <1>5, <3>1
      <4>2. b # last /\ b # last - 1
        BY <1>4, <1>6, <4>1
      <4> QED
        BY <1>2, <4>1, <4>2
    <3> QED
      BY <3>1
  <2>2. AllRuns(G) = runs
    BY <1>4, <2>1 DEF AllRuns, RunsUpTo
  <2> QED
    BY <1>1, <1>3, <1>6, <2>2 DEF ClosedRuns
<1>7. CASE cur # {}
  <2>1. PICK a \in Int : OpenRun(G, cur, a, last - gap)
    BY <1>4, <1>7
  <2>2. PICK e \in Int : e = last - gap
    BY <1>2, <1>4, <1>7
  <2>3. (e = last \/ (e = last - 1 /\ last \notin G)) /\ e \in cur /\ cur \in SUBSET G
    <3>1. e \in cur /\ cur \in SUBSET G
      BY <2>1, <2>2 DEF OpenRun
    <3>3. gap \in {0, 1} /\ (gap = 1 => last \notin G)
      BY <1>4, <1>7
    <3>2. gap = 0 \/ (gap = 1 /\ last \notin G)
      BY <3>3
    <3> QED
      BY <1>2, <2>2, <3>1, <3>2
  <2>4. e + 1 \notin G /\ e + 2 \notin G
    BY <1>2, <2>3
  <2>5. IsRun(G, cur, a, e)
    BY <2>1, <2>2, <2>4 DEF IsRun
  <2>6. ASSUME NEW R, NEW x \in Int, NEW b \in Int, IsRun(G, R, x, b), ~(b <= last - 2) PROVE R = cur
    <3>1. b \in G /\ b \in R /\ b <= last /\ b + 1 \notin G
      BY <2>6 DEF IsRun, OpenRun
    <3>2. b = e
      <4>1. b = last \/ b = last - 1
        BY <1>2, <2>6, <3>1
      <4>2. b = last - 1 => b + 1 = last
        BY <1>2
      <4> QED
        BY <2>3, <3>1, <4>1, <4>2
    <3>3. R \cap cur # {}
      BY <2>3, <3>1, <3>2
    <3> QED
      BY <2>5, <2>6, <3>3, RunUnique
  <2>7. AllRuns(G) = runs \cup {cur}
    BY <1>4, <2>3, <2>5, <2>6, ZenonT(60) DEF AllRuns, RunsUpTo
  <2> QED
    BY <1>1, <1>3, <1>7, <2>7 DEF ClosedRuns
<1> QED
  BY <1>6, <1>7
=============================================================================
