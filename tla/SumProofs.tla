------------------------------ MODULE SumProofs ------------------------------
(***************************************************************************)
(* Sums and maxima over finite sets: what SumFunctionOnSet(f, S), with it  *)
(* MapThenSumSet, and Max(S) are worth for every integer-valued f and      *)
(* every finite set S.                                                     *)
(*                                                                         *)
(* The induction over S is told with sets instead of predicates: a family  *)
(* of subsets that a least subset outside of it would contradict.          *)
(***************************************************************************)
EXTENDS FiniteSetsExt, FiniteSetTheorems, TLAPS

\* The least number of a non-empty set of naturals.
LEMMA LeastNatural ==
  ASSUME NEW S \in SUBSET Nat, S # {}
  PROVE  \E n \in S : \A m \in S : n <= m
<1> DEFINE K == {0 .. n : n \in S}
<1>1. K \subseteq FiniteSubsetsOf(Nat) /\ K # {}
  <2>1. ASSUME NEW n \in S PROVE 0 .. n \in FiniteSubsetsOf(Nat)
    <3>1. n \in Int /\ 0 \in Int /\ 0 .. n \in SUBSET Nat
      OBVIOUS
    <3>2. IsFiniteSet(0 .. n)
      BY ONLY <3>1, FS_Interval
    <3> QED
      BY <3>1, <3>2 DEF FiniteSubsetsOf
  <2> QED
    BY <2>1
<1>2. IsWellFoundedOn(StrictSubsetOrdering(Nat), FiniteSubsetsOf(Nat))
  BY FS_StrictSubsetOrderingWellFounded
<1>3. PICK x \in K : \A y \in K : ~ (<<y, x>> \in StrictSubsetOrdering(Nat))
  <2> HIDE DEF K
  <2> QED
    BY <1>1, <1>2, WFMin
<1>4. PICK n \in S : x = 0 .. n
  OBVIOUS
<1>5. ASSUME NEW m \in S, m < n PROVE FALSE
  <2>1. <<0 .. m, x>> \in StrictSubsetOrdering(Nat)
    BY <1>4, <1>5 DEF StrictSubsetOrdering
  <2> QED
    BY <1>3, <2>1
<1> QED
  BY <1>5

\* A set of naturals that holds 0 and every successor holds them all.
LEMMA Induction ==
  ASSUME NEW S \in SUBSET Nat, 0 \in S, \A n \in S : n + 1 \in S
  PROVE  S = Nat
<1> SUFFICES ASSUME Nat \ S # {} PROVE FALSE
  OBVIOUS
<1>1. PICK n \in Nat \ S : \A m \in Nat \ S : n <= m
  BY LeastNatural
<1>2. n - 1 \in S
  BY <1>1
<1> QED
  BY <1>1, <1>2

\* A family of subsets of a finite S holds S itself when it holds every subset
\* all of whose smaller subsets it holds.
LEMMA SubsetInduction ==
  ASSUME NEW S, IsFiniteSet(S), NEW F,
         \A T \in SUBSET S : (\A R \in SUBSET T : R # T => R \in F) => T \in F
  PROVE  S \in F
<1> DEFINE Bad == {T \in SUBSET S : T \notin F}
<1> SUFFICES ASSUME Bad # {} PROVE FALSE
  OBVIOUS
<1>1. Bad \subseteq FiniteSubsetsOf(S)
  BY FS_Subset DEF FiniteSubsetsOf
<1>2. IsWellFoundedOn(StrictSubsetOrdering(S), FiniteSubsetsOf(S))
  BY FS_StrictSubsetOrderingWellFounded
<1>3. PICK T \in Bad : \A R \in Bad : ~ (<<R, T>> \in StrictSubsetOrdering(S))
  <2> HIDE DEF Bad
  <2> QED
    BY <1>1, <1>2, WFMin
<1>4. \A R \in SUBSET T : R # T => R \in F
  BY <1>3 DEF StrictSubsetOrdering
<1> QED
  BY <1>4

-----------------------------------------------------------------------------
(***************************************************************************)
(* Sums                                                                    *)
(***************************************************************************)
\* The element that the recursion takes from a set.
Chosen(s) == CHOOSE x \in s : TRUE

\* One step of the recursion that defines a sum over the subsets D.
SumStep(f, g, s) == IF s = {} THEN 0 ELSE f[Chosen(s)] + g[s \ {Chosen(s)}]

\* The sums over all subsets of S, as the function that the recursion defines.
SumTable(f, S) == CHOOSE g : g = [s \in SUBSET S |-> SumStep(f, g, s)]

\* The library's fold is that recursion.
LEMMA SumIsTable ==
  ASSUME NEW f, NEW S
  PROVE  SumFunctionOnSet(f, S) = SumTable(f, S)[S]
BY Zenon
DEF SumFunctionOnSet, FoldFunctionOnSet, MapThenFoldSet, SumTable, SumStep, Chosen

\* The recursion has a solution: by induction over the size of the subsets.
LEMMA TableExists ==
  ASSUME NEW f, NEW S, IsFiniteSet(S)
  PROVE  \E g : g = [s \in SUBSET S |-> SumStep(f, g, s)]
<1> DEFINE Upto(n) == {s \in SUBSET S : Cardinality(s) <= n}
           Good(g, n) == g = [s \in Upto(n) |-> SumStep(f, g, s)]
           N == {n \in Nat : \E g : Good(g, n)}
<1>1. \A s \in SUBSET S : IsFiniteSet(s) /\ Cardinality(s) \in Nat
  BY FS_Subset, FS_CardinalityType
<1>2. \A s \in SUBSET S : s # {} =>
        Chosen(s) \in s /\ Cardinality(s \ {Chosen(s)}) = Cardinality(s) - 1
  BY <1>1, FS_RemoveElement DEF Chosen
<1>3. 0 \in N
  <2>1. \A s \in Upto(0) : s = {}
    BY <1>1, FS_EmptySet
  <2>2. Good([s \in Upto(0) |-> 0], 0)
    BY <2>1 DEF SumStep
  <2> QED
    BY <2>2
<1>4. ASSUME NEW n \in N PROVE n + 1 \in N
  <2>1. PICK g : Good(g, n)
    OBVIOUS
  <2> DEFINE h == [s \in Upto(n + 1) |-> SumStep(f, g, s)]
  <2> HIDE DEF N
  <2>2. n \in Nat
    BY DEF N
  <2>3. \A s \in Upto(n) : s \in Upto(n + 1) /\ h[s] = g[s]
    BY <2>1, <2>2, <1>1
  <2>4. \A s \in Upto(n + 1) : s # {} => s \ {Chosen(s)} \in Upto(n)
    BY <2>2, <1>1, <1>2
  <2> HIDE DEF Upto
  <2>5. \A s \in Upto(n + 1) : h[s] = SumStep(f, h, s)
    <3> SUFFICES ASSUME NEW s \in Upto(n + 1) PROVE h[s] = SumStep(f, h, s)
      OBVIOUS
    <3>1. h[s] = SumStep(f, g, s)
      OBVIOUS
    <3>2. CASE s = {}
      BY <3>1, <3>2 DEF SumStep
    <3>3. CASE s # {}
      <4>1. h[s \ {Chosen(s)}] = g[s \ {Chosen(s)}]
        BY <2>3, <2>4, <3>3
      <4> HIDE DEF h
      <4> QED
        BY <3>1, <4>1 DEF SumStep
    <3> QED
      BY <3>2, <3>3
  <2>6. Good(h, n + 1)
    <3>1. h = [s \in Upto(n + 1) |-> h[s]]
      OBVIOUS
    <3> HIDE DEF h
    <3> QED
      BY <2>5, <3>1
  <2> HIDE DEF Good, h
  <2> QED
    BY <2>2, <2>6 DEF N
<1>5. Cardinality(S) \in N
  <2> HIDE DEF N
  <2>1. N \in SUBSET Nat
    BY DEF N
  <2>2. N = Nat
    BY <1>3, <1>4, <2>1, Induction
  <2> QED
    BY <2>2, FS_CardinalityType
<1>6. Upto(Cardinality(S)) = SUBSET S
  BY FS_Subset, FS_CardinalityType
<1>7. PICK g : Good(g, Cardinality(S))
  BY <1>5
<1> QED
  BY <1>6, <1>7

\* The chosen solution satisfies the recursion.
LEMMA TableStep ==
  ASSUME NEW f, NEW S, IsFiniteSet(S)
  PROVE  \A s \in SUBSET S : SumTable(f, S)[s] = SumStep(f, SumTable(f, S), s)
<1> DEFINE g == SumTable(f, S)
<1>1. g = [s \in SUBSET S |-> SumStep(f, g, s)]
  BY TableExists, Zenon DEF SumTable
<1> HIDE DEF g
<1>2. \A s \in SUBSET S : g[s] = SumStep(f, g, s)
  BY <1>1, Zenon
<1> QED
  BY <1>2 DEF g

\* Tables over two sets agree where both are defined.
LEMMA TablesAgree ==
  ASSUME NEW f, NEW S, IsFiniteSet(S), NEW R \in SUBSET S
  PROVE  SumTable(f, S)[R] = SumTable(f, R)[R]
<1> DEFINE g == SumTable(f, S)
           h == SumTable(f, R)
           F == {s \in SUBSET R : g[s] = h[s]}
<1>1. IsFiniteSet(R)
  BY FS_Subset
<1>2. \A s \in SUBSET R : g[s] = SumStep(f, g, s) /\ h[s] = SumStep(f, h, s)
  BY <1>1, TableStep
<1> HIDE DEF g, h
<1>3. ASSUME NEW T \in SUBSET R, \A s \in SUBSET T : s # T => s \in F PROVE T \in F
  <2>1. CASE T = {}
    BY <1>2, <2>1 DEF SumStep
  <2>2. CASE T # {}
    <3>1. Chosen(T) \in T
      BY <2>2 DEF Chosen
    <3>2. T \ {Chosen(T)} \in F
      BY <1>3, <3>1
    <3> QED
      BY <1>2, <2>2, <3>2 DEF SumStep
  <2> QED
    BY <2>1, <2>2
<1> HIDE DEF F
<1>4. R \in F
  BY <1>1, <1>3, SubsetInduction
<1> QED
  BY <1>4 DEF F, g, h

\* A sum is one chosen summand and the sum of the others.
LEMMA SumChosen ==
  ASSUME NEW f, NEW S, IsFiniteSet(S), S # {}
  PROVE  /\ Chosen(S) \in S
         /\ SumFunctionOnSet(f, S)
              = f[Chosen(S)] + SumFunctionOnSet(f, S \ {Chosen(S)})
<1>1. SumTable(f, S)[S] = f[Chosen(S)] + SumTable(f, S)[S \ {Chosen(S)}]
  BY TableStep DEF SumStep
<1>2. SumTable(f, S)[S \ {Chosen(S)}]
        = SumTable(f, S \ {Chosen(S)})[S \ {Chosen(S)}]
  BY TablesAgree
<1> QED
  BY <1>1, <1>2, SumIsTable DEF Chosen

\* The sum over nothing.
THEOREM SumEmpty == ASSUME NEW f PROVE SumFunctionOnSet(f, {}) = 0
<1>1. IsFiniteSet({})
  BY FS_EmptySet
<1>2. SumTable(f, {})[{}] = SumStep(f, SumTable(f, {}), {})
  BY <1>1, TableStep
<1> QED
  BY <1>2, SumIsTable DEF SumStep

\* A sum of integers is an integer.
THEOREM SumType ==
  ASSUME NEW f, NEW S, IsFiniteSet(S), \A x \in S : f[x] \in Int
  PROVE  SumFunctionOnSet(f, S) \in Int
<1> DEFINE F == {T \in SUBSET S : SumFunctionOnSet(f, T) \in Int}
<1>1. ASSUME NEW T \in SUBSET S, \A R \in SUBSET T : R # T => R \in F PROVE T \in F
  <2>1. CASE T = {}
    BY <2>1, SumEmpty
  <2>2. CASE T # {}
    <3>1. /\ Chosen(T) \in T
          /\ SumFunctionOnSet(f, T) = f[Chosen(T)] + SumFunctionOnSet(f, T \ {Chosen(T)})
      BY <2>2, SumChosen, FS_Subset
    <3>2. T \ {Chosen(T)} \in F
      BY <1>1, <3>1
    <3> QED
      BY <3>1, <3>2
  <2> QED
    BY <2>1, <2>2
<1> HIDE DEF F
<1>2. S \in F
  BY <1>1, SubsetInduction
<1> QED
  BY <1>2 DEF F

\* A sum is any one of its summands and the sum of the others: addition does not
\* care for the order in which the recursion chooses.
THEOREM SumRemove ==
  ASSUME NEW f, NEW S, IsFiniteSet(S), \A x \in S : f[x] \in Int, NEW x \in S
  PROVE  SumFunctionOnSet(f, S) = f[x] + SumFunctionOnSet(f, S \ {x})
<1> DEFINE Sum(T) == SumFunctionOnSet(f, T)
           F == {T \in SUBSET S : \A y \in T : Sum(T) = f[y] + Sum(T \ {y})}
<1>1. ASSUME NEW T \in SUBSET S, \A R \in SUBSET T : R # T => R \in F PROVE T \in F
  <2> SUFFICES ASSUME NEW y \in T PROVE Sum(T) = f[y] + Sum(T \ {y})
    OBVIOUS
  <2> DEFINE c == Chosen(T)
  <2>1. c \in T /\ Sum(T) = f[c] + Sum(T \ {c})
    BY SumChosen, FS_Subset
  <2> HIDE DEF c
  <2>2. CASE y = c
    BY <2>1, <2>2
  <2>3. CASE y # c
    <3>1. Sum(T \ {c}) = f[y] + Sum((T \ {c}) \ {y})
      BY <1>1, <2>1, <2>3
    <3>2. Sum(T \ {y}) = f[c] + Sum((T \ {y}) \ {c})
      BY <1>1, <2>1, <2>3
    <3>3. Sum((T \ {c}) \ {y}) = Sum((T \ {y}) \ {c})
      <4>1. (T \ {c}) \ {y} = (T \ {y}) \ {c}
        OBVIOUS
      <4> QED
        BY <4>1
    <3>4. IsFiniteSet((T \ {y}) \ {c})
      BY FS_Subset
    <3>5. Sum((T \ {y}) \ {c}) \in Int
      BY <3>4, SumType
    <3> HIDE DEF Sum
    <3>6. f[y] \in Int /\ f[c] \in Int
      BY <2>1
    <3> QED
      BY <2>1, <3>1, <3>2, <3>3, <3>5, <3>6
  <2> QED
    BY <2>2, <2>3
<1> HIDE DEF F
<1>2. S \in F
  BY <1>1, SubsetInduction
<1> QED
  BY <1>2 DEF F

\* Two functions that agree on a set have one sum over it.
THEOREM SumAgree ==
  ASSUME NEW f, NEW g, NEW S, IsFiniteSet(S),
         \A x \in S : f[x] \in Int /\ f[x] = g[x]
  PROVE  SumFunctionOnSet(f, S) = SumFunctionOnSet(g, S)
<1> DEFINE F == {T \in SUBSET S : SumFunctionOnSet(f, T) = SumFunctionOnSet(g, T)}
<1>1. ASSUME NEW T \in SUBSET S, \A R \in SUBSET T : R # T => R \in F PROVE T \in F
  <2>1. CASE T = {}
    BY <2>1, SumEmpty
  <2>2. CASE T # {}
    <3>1. /\ Chosen(T) \in T
          /\ SumFunctionOnSet(f, T) = f[Chosen(T)] + SumFunctionOnSet(f, T \ {Chosen(T)})
          /\ SumFunctionOnSet(g, T) = g[Chosen(T)] + SumFunctionOnSet(g, T \ {Chosen(T)})
      BY <2>2, SumChosen, FS_Subset
    <3>2. T \ {Chosen(T)} \in F
      BY <1>1, <3>1
    <3> QED
      BY <3>1, <3>2
  <2> QED
    BY <2>1, <2>2
<1> HIDE DEF F
<1>2. S \in F
  BY <1>1, SubsetInduction
<1> QED
  BY <1>2 DEF F

\* A sum of linear combinations.
THEOREM SumLinear ==
  ASSUME NEW f, NEW g, NEW h, NEW a \in Int, NEW b \in Int, NEW S, IsFiniteSet(S),
         \A x \in S : f[x] \in Int /\ g[x] \in Int /\ h[x] = a * f[x] + b * g[x]
  PROVE  SumFunctionOnSet(h, S) = a * SumFunctionOnSet(f, S) + b * SumFunctionOnSet(g, S)
<1> DEFINE Sum(k, T) == SumFunctionOnSet(k, T)
           F == {T \in SUBSET S : Sum(h, T) = a * Sum(f, T) + b * Sum(g, T)}
<1>1. ASSUME NEW T \in SUBSET S, \A R \in SUBSET T : R # T => R \in F PROVE T \in F
  <2>1. CASE T = {}
    BY <2>1, SumEmpty
  <2>2. CASE T # {}
    <3> DEFINE c == Chosen(T)
               R == T \ {c}
    <3>1. /\ c \in T
          /\ Sum(f, T) = f[c] + Sum(f, R)
          /\ Sum(g, T) = g[c] + Sum(g, R)
          /\ Sum(h, T) = h[c] + Sum(h, R)
      BY <2>2, SumChosen, FS_Subset
    <3> HIDE DEF c
    <3>2. R \in F
      BY <1>1, <3>1
    <3>3. Sum(f, R) \in Int /\ Sum(g, R) \in Int
      BY FS_Subset, SumType
    <3>4. f[c] \in Int /\ g[c] \in Int /\ h[c] = a * f[c] + b * g[c]
      BY <3>1
    <3> HIDE DEF Sum, R
    <3>5. /\ a * Sum(f, T) = a * f[c] + a * Sum(f, R)
          /\ b * Sum(g, T) = b * g[c] + b * Sum(g, R)
      BY <3>1, <3>3, <3>4
    <3>6. Sum(h, R) = a * Sum(f, R) + b * Sum(g, R)
      BY <3>2
    <3>7. /\ a * f[c] \in Int /\ b * g[c] \in Int
          /\ a * Sum(f, R) \in Int /\ b * Sum(g, R) \in Int
      BY <3>3, <3>4
    <3> QED
      BY <3>1, <3>4, <3>5, <3>6, <3>7
  <2> QED
    BY <2>1, <2>2
<1> HIDE DEF F
<1>2. S \in F
  BY <1>1, SubsetInduction
<1> QED
  BY <1>2 DEF F

\* A sum of smaller summands is smaller.
THEOREM SumMonotonic ==
  ASSUME NEW f, NEW g, NEW S, IsFiniteSet(S),
         \A x \in S : f[x] \in Int /\ g[x] \in Int /\ f[x] <= g[x]
  PROVE  SumFunctionOnSet(f, S) <= SumFunctionOnSet(g, S)
<1> DEFINE Sum(k, T) == SumFunctionOnSet(k, T)
           F == {T \in SUBSET S : Sum(f, T) <= Sum(g, T)}
<1>1. ASSUME NEW T \in SUBSET S, \A R \in SUBSET T : R # T => R \in F PROVE T \in F
  <2>1. CASE T = {}
    BY <2>1, SumEmpty
  <2>2. CASE T # {}
    <3> DEFINE c == Chosen(T)
               R == T \ {c}
    <3>1. /\ c \in T
          /\ Sum(f, T) = f[c] + Sum(f, R)
          /\ Sum(g, T) = g[c] + Sum(g, R)
      BY <2>2, SumChosen, FS_Subset
    <3> HIDE DEF c
    <3>2. R \in F
      BY <1>1, <3>1
    <3>3. Sum(f, R) \in Int /\ Sum(g, R) \in Int
      BY FS_Subset, SumType
    <3>4. f[c] \in Int /\ g[c] \in Int /\ f[c] <= g[c]
      BY <3>1
    <3>5. Sum(f, R) <= Sum(g, R)
      BY <3>2
    <3> HIDE DEF Sum, R
    <3> QED
      BY <3>1, <3>3, <3>4, <3>5
  <2> QED
    BY <2>1, <2>2
<1> HIDE DEF F
<1>2. S \in F
  BY <1>1, SubsetInduction
<1> QED
  BY <1>2 DEF F

\* A sum of naturals is a natural.
THEOREM SumOfNaturals ==
  ASSUME NEW f, NEW S, IsFiniteSet(S), \A x \in S : f[x] \in Nat
  PROVE  SumFunctionOnSet(f, S) \in Nat
<1> DEFINE F == {T \in SUBSET S : SumFunctionOnSet(f, T) \in Nat}
<1>1. ASSUME NEW T \in SUBSET S, \A R \in SUBSET T : R # T => R \in F PROVE T \in F
  <2>1. CASE T = {}
    BY <2>1, SumEmpty
  <2>2. CASE T # {}
    <3>1. /\ Chosen(T) \in T
          /\ SumFunctionOnSet(f, T) = f[Chosen(T)] + SumFunctionOnSet(f, T \ {Chosen(T)})
      BY <2>2, SumChosen, FS_Subset
    <3>2. T \ {Chosen(T)} \in F
      BY <1>1, <3>1
    <3> QED
      BY <3>1, <3>2
  <2> QED
    BY <2>1, <2>2
<1> HIDE DEF F
<1>2. S \in F
  BY <1>1, SubsetInduction
<1> QED
  BY <1>2 DEF F

\* The sum over a set is the sum over a part and the sum over the rest.
THEOREM SumSplit ==
  ASSUME NEW f, NEW S, IsFiniteSet(S), \A x \in S : f[x] \in Int, NEW P
  PROVE  SumFunctionOnSet(f, S)
           = SumFunctionOnSet(f, S \cap P) + SumFunctionOnSet(f, S \ P)
<1> DEFINE Sum(T) == SumFunctionOnSet(f, T)
           F == {T \in SUBSET S : Sum(T) = Sum(T \cap P) + Sum(T \ P)}
<1>1. ASSUME NEW T \in SUBSET S, \A R \in SUBSET T : R # T => R \in F PROVE T \in F
  <2>1. CASE T = {}
    <3>1. T \cap P = {} /\ T \ P = {}
      BY <2>1
    <3> QED
      BY <2>1, <3>1, SumEmpty
  <2>2. CASE T # {}
    <3>1. PICK c \in T : TRUE
      BY <2>2
    <3> DEFINE R == T \ {c}
    <3>2. R \in F
      BY <1>1, <3>1
    <3>3. IsFiniteSet(T) /\ IsFiniteSet(T \cap P) /\ IsFiniteSet(T \ P)
          /\ IsFiniteSet(R \cap P) /\ IsFiniteSet(R \ P)
      BY FS_Subset
    <3>4. Sum(T) = f[c] + Sum(R)
      BY <3>3, SumRemove
    <3>5. Sum(R \cap P) \in Int /\ Sum(R \ P) \in Int /\ f[c] \in Int
      BY <3>3, SumType
    <3>6. Sum(R) = Sum(R \cap P) + Sum(R \ P)
      BY <3>2
    <3>7. CASE c \in P
      <4>1. (T \cap P) \ {c} = R \cap P /\ T \ P = R \ P /\ c \in T \cap P
        BY <3>7
      <4>2. Sum(T \cap P) = f[c] + Sum((T \cap P) \ {c})
        BY <3>3, <4>1, SumRemove
      <4> HIDE DEF Sum, R
      <4>3. Sum(T \cap P) = f[c] + Sum(R \cap P) /\ Sum(T \ P) = Sum(R \ P)
        BY <4>1, <4>2
      <4>4. Sum(T) = Sum(T \cap P) + Sum(T \ P)
        BY <3>4, <3>5, <3>6, <4>3
      <4> QED
        BY <4>4
    <3>8. CASE c \notin P
      <4>1. (T \ P) \ {c} = R \ P /\ T \cap P = R \cap P /\ c \in T \ P
        BY <3>8
      <4>2. Sum(T \ P) = f[c] + Sum((T \ P) \ {c})
        BY <3>3, <4>1, SumRemove
      <4> HIDE DEF Sum, R
      <4>3. Sum(T \ P) = f[c] + Sum(R \ P) /\ Sum(T \cap P) = Sum(R \cap P)
        BY <4>1, <4>2
      <4>4. Sum(T) = Sum(T \cap P) + Sum(T \ P)
        BY <3>4, <3>5, <3>6, <4>3
      <4> QED
        BY <4>4
    <3> QED
      BY <3>7, <3>8
  <2> QED
    BY <2>1, <2>2
<1> HIDE DEF F
<1>2. S \in F
  BY <1>1, SubsetInduction
<1> QED
  BY <1>2 DEF F

\* The same, for a part that is a subset.
LEMMA SumPart ==
  ASSUME NEW f, NEW S, IsFiniteSet(S), \A x \in S : f[x] \in Int, NEW P \in SUBSET S
  PROVE  SumFunctionOnSet(f, S) = SumFunctionOnSet(f, P) + SumFunctionOnSet(f, S \ P)
<1>1. S \cap P = P
  OBVIOUS
<1>2. SumFunctionOnSet(f, S) = SumFunctionOnSet(f, S \cap P) + SumFunctionOnSet(f, S \ P)
  BY SumSplit
<1> QED
  BY <1>1, <1>2

\* A sum of one constant.
THEOREM SumConstant ==
  ASSUME NEW f, NEW S, IsFiniteSet(S), NEW k \in Int, \A x \in S : f[x] = k
  PROVE  SumFunctionOnSet(f, S) = k * Cardinality(S)
<1> DEFINE F == {T \in SUBSET S : SumFunctionOnSet(f, T) = k * Cardinality(T)}
<1>1. ASSUME NEW T \in SUBSET S, \A R \in SUBSET T : R # T => R \in F PROVE T \in F
  <2>1. CASE T = {}
    BY <2>1, SumEmpty, FS_EmptySet
  <2>2. CASE T # {}
    <3> DEFINE c == Chosen(T)
               R == T \ {c}
    <3>1. c \in T /\ SumFunctionOnSet(f, T) = f[c] + SumFunctionOnSet(f, R)
      BY <2>2, SumChosen, FS_Subset
    <3> HIDE DEF c
    <3>2. SumFunctionOnSet(f, R) = k * Cardinality(R)
      BY <1>1, <3>1
    <3>3. Cardinality(R) = Cardinality(T) - 1 /\ Cardinality(T) \in Nat
      BY <3>1, FS_Subset, FS_RemoveElement, FS_CardinalityType
    <3> HIDE DEF R
    <3>4. SumFunctionOnSet(f, T) = k * Cardinality(T)
      BY <3>1, <3>2, <3>3
    <3> QED
      BY <3>4
  <2> QED
    BY <2>1, <2>2
<1> HIDE DEF F
<1>2. S \in F
  BY <1>1, SubsetInduction
<1> QED
  BY <1>2 DEF F

\* A sum of summands a * g + b * h + k.
LEMMA SumAffine ==
  ASSUME NEW f, NEW g, NEW h, NEW a \in Int, NEW b \in Int, NEW k \in Int,
         NEW S, IsFiniteSet(S),
         \A x \in S : g[x] \in Int /\ h[x] \in Int /\ f[x] = a * g[x] + b * h[x] + k
  PROVE  SumFunctionOnSet(f, S) = a * SumFunctionOnSet(g, S) + b * SumFunctionOnSet(h, S)
                                    + k * Cardinality(S)
<1> DEFINE l == [x \in S |-> a * g[x] + b * h[x]]
           m == [x \in S |-> k]
<1>1. \A x \in S : l[x] = a * g[x] + b * h[x] /\ l[x] \in Int /\ m[x] = k
  OBVIOUS
<1> HIDE DEF l, m
<1>2. SumFunctionOnSet(l, S) = a * SumFunctionOnSet(g, S) + b * SumFunctionOnSet(h, S)
  BY <1>1, SumLinear
<1>3. SumFunctionOnSet(m, S) = k * Cardinality(S)
  BY <1>1, SumConstant
<1>4. \A x \in S : l[x] \in Int /\ m[x] \in Int /\ f[x] = 1 * l[x] + 1 * m[x]
  BY <1>1
<1>5. SumFunctionOnSet(f, S) = 1 * SumFunctionOnSet(l, S) + 1 * SumFunctionOnSet(m, S)
  BY <1>4, 1 \in Int, SumLinear
<1>6. SumFunctionOnSet(l, S) \in Int /\ SumFunctionOnSet(m, S) \in Int
  BY <1>4, SumType
<1> QED
  BY <1>2, <1>3, <1>5, <1>6

\* A bound on every summand is a bound on the sum, from above
THEOREM SumAtMost ==
  ASSUME NEW f, NEW g, NEW h, NEW a \in Int, NEW b \in Int, NEW k \in Int,
         NEW S, IsFiniteSet(S),
         \A x \in S : /\ f[x] \in Int /\ g[x] \in Int /\ h[x] \in Int
                     /\ f[x] <= a * g[x] + b * h[x] + k
  PROVE  SumFunctionOnSet(f, S) <= a * SumFunctionOnSet(g, S) + b * SumFunctionOnSet(h, S)
                                     + k * Cardinality(S)
<1> DEFINE l == [x \in S |-> a * g[x] + b * h[x] + k]
<1>1. \A x \in S : l[x] = a * g[x] + b * h[x] + k /\ l[x] \in Int /\ f[x] <= l[x]
  OBVIOUS
<1> HIDE DEF l
<1>2. SumFunctionOnSet(f, S) <= SumFunctionOnSet(l, S)
  BY <1>1, SumMonotonic
<1> QED
  BY <1>1, <1>2, SumAffine

\* and from below.
THEOREM SumAtLeast ==
  ASSUME NEW f, NEW g, NEW h, NEW a \in Int, NEW b \in Int, NEW k \in Int,
         NEW S, IsFiniteSet(S),
         \A x \in S : /\ f[x] \in Int /\ g[x] \in Int /\ h[x] \in Int
                     /\ a * g[x] + b * h[x] + k <= f[x]
  PROVE  a * SumFunctionOnSet(g, S) + b * SumFunctionOnSet(h, S) + k * Cardinality(S)
           <= SumFunctionOnSet(f, S)
<1> DEFINE l == [x \in S |-> a * g[x] + b * h[x] + k]
<1>1. \A x \in S : l[x] = a * g[x] + b * h[x] + k /\ l[x] \in Int /\ l[x] <= f[x]
  OBVIOUS
<1> HIDE DEF l
<1>2. SumFunctionOnSet(l, S) <= SumFunctionOnSet(f, S)
  BY <1>1, SumMonotonic
<1> QED
  BY <1>1, <1>2, SumAffine

\* No summand is larger than a sum of naturals.
LEMMA SummandAtMost ==
  ASSUME NEW f, NEW S, IsFiniteSet(S), \A x \in S : f[x] \in Nat, NEW x \in S
  PROVE  f[x] <= SumFunctionOnSet(f, S)
<1>1. SumFunctionOnSet(f, S) = f[x] + SumFunctionOnSet(f, S \ {x})
  BY SumRemove
<1>2. SumFunctionOnSet(f, S \ {x}) \in Nat
  BY FS_RemoveElement, SumOfNaturals
<1> QED
  BY <1>1, <1>2

-----------------------------------------------------------------------------
(***************************************************************************)
(* Maxima                                                                  *)
(***************************************************************************)

\* A function takes finitely many values on a finite set.
LEMMA ImageFinite ==
  ASSUME NEW f, NEW S, IsFiniteSet(S)
  PROVE  IsFiniteSet({f[x] : x \in S})
<1> DEFINE T == {f[x] : x \in S}
           g == [x \in S |-> f[x]]
<1>1. g \in Surjection(S, T)
  BY DEF Surjection
<1> HIDE DEF g, T
<1>2. IsFiniteSet(T)
  BY <1>1, FS_Surjection
<1> QED
  BY <1>2 DEF T

\* A finite set of numbers has a largest one, which is its Max.
THEOREM MaxOfFinite ==
  ASSUME NEW S \in SUBSET Int, IsFiniteSet(S), S # {}
  PROVE  Max(S) \in S /\ \A n \in S : n <= Max(S)
<1> DEFINE F == {T \in SUBSET S : T # {} => \E m \in T : \A n \in T : n <= m}
<1>1. ASSUME NEW T \in SUBSET S, \A R \in SUBSET T : R # T => R \in F PROVE T \in F
  <2> SUFFICES ASSUME T # {} PROVE \E m \in T : \A n \in T : n <= m
    OBVIOUS
  <2>1. PICK c \in T : TRUE
    OBVIOUS
  <2>2. T \ {c} \in F
    BY <1>1
  <2>3. CASE T \ {c} = {}
    BY <2>3
  <2>4. CASE T \ {c} # {}
    <3>1. PICK m \in T \ {c} : \A n \in T \ {c} : n <= m
      BY <2>2, <2>4
    <3>2. CASE c <= m
      BY <3>1, <3>2
    <3>3. CASE m <= c
      BY <3>1, <3>3
    <3> QED
      BY <3>2, <3>3
  <2> QED
    BY <2>3, <2>4
<1> HIDE DEF F
<1>2. S \in F
  BY <1>1, SubsetInduction
<1>3. \E m \in S : \A n \in S : m >= n
  BY <1>2 DEF F
<1> QED
  BY <1>3 DEF Max
=============================================================================
