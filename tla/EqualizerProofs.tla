--------------------------- MODULE EqualizerProofs ---------------------------
(***************************************************************************)
(* What the equalizer may write, and that what it computes stands for the  *)
(* target, for every fleet, supply, load and target.                       *)
(***************************************************************************)
EXTENDS Equalizer, SumProofs

-----------------------------------------------------------------------------
(***************************************************************************)
(* The equalization of one resource                                        *)
(***************************************************************************)

\* Truncating division of a number by a positive one.
LEMMA DivLaw ==
  ASSUME NEW n \in Int, NEW d \in Nat \ {0}
  PROVE  n \div d \in Int /\ d * (n \div d) <= n /\ n < d * (n \div d) + d
OBVIOUS

\* An inequality may be multiplied by a natural.
LEMMA Scale ==
  ASSUME NEW n \in Int, NEW m \in Int, NEW d \in Nat, n <= m
  PROVE  d * n <= d * m
OBVIOUS

\* The other way round.
LEMMA Cancel ==
  ASSUME NEW n \in Int, NEW m \in Int, NEW d \in Nat \ {0}
  PROVE  (d * n < d * m => n < m) /\ (d * n <= d * m => n <= m)
OBVIOUS

\* An over-cluster keeps its share of the target and its overflow, up to rounding.
LEMMA OverBudget ==
  ASSUME NEW o \in Observation, NEW target \in Points, IsOver(o, target),
         o.utilization[1] <= 100 * o.utilization[2]
  PROVE  /\ Overflow(o, target) \in Nat /\ Frozen(o) \in Points
         /\ Frozen(o) * o.allocatable <= target * o.allocatable + 100 * Overflow(o, target) + 100
         /\ (target - 1) * o.allocatable + 100 * Overflow(o, target) <= Frozen(o) * o.allocatable
<1> DEFINE u == o.utilization[1]
           v == o.utilization[2]
           a == o.allocatable
           q == u \div v
           w == Overflow(o, target)
           n == (u - target * v) * a
<1>1. u \in Nat /\ v \in Nat \ {0} /\ a \in Nat /\ target \in 0 .. 100
  BY MaxI64Assumption DEF Observation, Fractions, Amount, Points
<1>2. target * v < u /\ u <= 100 * v
  BY DEF IsOver
<1>3. w = n \div (100 * v)
  BY DEF Overflow
<1> HIDE DEF u, v, a, w, n
<1>4. q \in Int /\ v * q <= u /\ u < v * q + v
  BY <1>1, DivLaw
<1>5. target * v \in Int /\ u - target * v \in Nat
  BY <1>1, <1>2
<1>6. n \in Nat /\ 100 * v \in Nat \ {0}
  BY <1>1, <1>5 DEF n
<1>7. w \in Int /\ (100 * v) * w <= n /\ n < (100 * v) * w + 100 * v
  <2> DEFINE d == 100 * v
  <2>1. n \in Int /\ d \in Nat \ {0}
    BY <1>6
  <2> HIDE DEF d
  <2>2. n \div d \in Int /\ d * (n \div d) <= n /\ n < d * (n \div d) + d
    BY <2>1, DivLaw
  <2> QED
    BY <1>3, <2>2 DEF d
<1>8. w \in Nat
  BY <1>6, <1>7
<1> HIDE DEF q
<1>9. target <= q /\ q <= 100
  <2>1. v * q <= v * 100
    BY <1>1, <1>2, <1>4
  <2>2. v * target < v * (q + 1)
    BY <1>1, <1>2, <1>4
  <2> QED
    BY <1>1, <1>4, <2>1, <2>2, Cancel
<1>10. Frozen(o) = q /\ q \in Points
  BY <1>1, <1>4, <1>9 DEF Frozen, Clamp, Smaller, Larger, Points, q, u, v
<1>11. n = a * u - a * (target * v)
  BY <1>1, <1>5 DEF n
<1>12. q * a <= target * a + 100 * w + 100
  <2>1. a * (v * q) <= a * u
    BY <1>1, <1>4, Scale
  <2>2. a * (v * q) < a * (target * v) + (100 * v) * w + 100 * v
    BY <1>1, <1>4, <1>5, <1>7, <1>11, <2>1
  <2>3. v * (q * a) < v * (target * a + 100 * w + 100)
    BY <1>1, <1>4, <1>8, <2>2
  <2> QED
    BY <1>1, <1>4, <1>8, <2>3, Cancel
<1>13. (target - 1) * a + 100 * w <= q * a
  <2>1. a * u <= a * (v * q + v)
    BY <1>1, <1>4, Scale
  <2>2. a * (target * v) + (100 * v) * w <= a * (v * q + v)
    BY <1>1, <1>4, <1>5, <1>7, <1>11, <2>1
  <2>3. v * (target * a + 100 * w) <= v * (q * a + a)
    BY <1>1, <1>4, <1>8, <2>2
  <2>4. target * a + 100 * w <= q * a + a
    BY <1>1, <1>4, <1>8, <2>3, Cancel
  <2> QED
    BY <1>1, <1>4, <1>8, <2>4
<1> QED
  BY <1>8, <1>10, <1>12, <1>13 DEF a, w

\* A good cluster gives up the share, up to rounding: its budget is not cut off.
LEMMA GoodBudget ==
  ASSUME NEW o \in Observation, NEW target \in Points, NEW share \in Nat,
         o.allocatable > 0, (100 * share) \div o.allocatable <= target
  PROVE  LET budget == Clamp(target - Reduction(o, share), 0, 100)
         IN /\ budget \in Points
            /\ budget * o.allocatable <= (target + 1) * o.allocatable - 100 * share
            /\ target * o.allocatable - 100 * share <= budget * o.allocatable
<1> DEFINE a == o.allocatable
           r == (100 * share) \div a
<1>1. a \in Nat \ {0} /\ target \in 0 .. 100
  BY MaxI64Assumption DEF Observation, Amount, Points
<1>2. r <= target
  OBVIOUS
<1> HIDE DEF a
<1>3. r \in Int /\ a * r <= 100 * share /\ 100 * share < a * r + a
  BY <1>1, DivLaw
<1> HIDE DEF r
<1>4. 0 <= r
  <2>1. a * 0 < a * (r + 1)
    BY <1>1, <1>3
  <2> QED
    BY <1>1, <1>3, <2>1, Cancel
<1>5. AsI32(r) = r
  BY <1>1, <1>2, <1>3, <1>4, MaxI32Assumption DEF AsI32
<1>6. Reduction(o, share) = r
  <2>1. (share * 100) \div a = r
    BY DEF r
  <2> QED
    BY <1>1, <1>5, <2>1 DEF Reduction, a
<1>7. Clamp(target - r, 0, 100) = target - r /\ target - r \in Points
  BY <1>1, <1>2, <1>3, <1>4 DEF Clamp, Smaller, Larger, Points
<1>8. (target - r) * a = target * a - a * r
  BY <1>1, <1>3
<1>9. target * a \in Int /\ a * r \in Int /\ (target + 1) * a = target * a + a
  BY <1>1, <1>3
<1>10. (target - r) * a <= (target + 1) * a - 100 * share
  BY <1>1, <1>3, <1>8, <1>9
<1>11. target * a - 100 * share <= (target - r) * a
  BY <1>3, <1>8, <1>9
<1> QED
  BY <1>6, <1>7, <1>10, <1>11 DEF a

\* The fleet that HitsTarget looks at, as sums of functions.
LEMMA BudgetSums ==
  ASSUME NEW fleet, NEW target
  PROVE  /\ \A S : Capacity(fleet, S)
                     = SumFunctionOnSet([c \in S |-> fleet[c].allocatable], S)
         /\ Budgeted(fleet, target)
              = SumFunctionOnSet([c \in DOMAIN fleet |->
                  Equalized(fleet, target)[c].budget * fleet[c].allocatable], DOMAIN fleet)
         /\ Share(fleet, target)
              = SumFunctionOnSet([c \in OverClusters(fleet, target) |->
                  Overflow(fleet[c], target)], OverClusters(fleet, target))
                \div Cardinality(DOMAIN fleet \ OverClusters(fleet, target))
<1>1. ASSUME NEW S
      PROVE  Capacity(fleet, S) = SumFunctionOnSet([c \in S |-> fleet[c].allocatable], S)
  BY Zenon DEF Capacity, MapThenSumSet, SumFunctionOnSet, FoldFunctionOnSet, MapThenFoldSet
<1>2. Budgeted(fleet, target)
        = SumFunctionOnSet([c \in DOMAIN fleet |->
            Equalized(fleet, target)[c].budget * fleet[c].allocatable], DOMAIN fleet)
  BY Zenon DEF Budgeted, MapThenSumSet, SumFunctionOnSet, FoldFunctionOnSet, MapThenFoldSet
<1>3. Share(fleet, target)
        = SumFunctionOnSet([c \in OverClusters(fleet, target) |->
            Overflow(fleet[c], target)], OverClusters(fleet, target))
          \div Cardinality(DOMAIN fleet \ OverClusters(fleet, target))
  BY Zenon DEF Share, MapThenSumSet, SumFunctionOnSet, FoldFunctionOnSet, MapThenFoldSet
<1> QED
  BY <1>1, <1>2, <1>3

\* Summed up, the budgets of any fleet stand for the target.
LEMMA EqualizedHitsTarget ==
  ASSUME NEW fleet, IsFiniteSet(DOMAIN fleet),
         \A c \in DOMAIN fleet : fleet[c] \in Observation,
         NEW target \in Points
  PROVE  HitsTarget(fleet, target)
<1> DEFINE D == DOMAIN fleet
           O == OverClusters(fleet, target)
           G == D \ O
           S == Share(fleet, target)
<1> SUFFICES ASSUME G # {},
                    \A c \in G : /\ fleet[c].allocatable > 0
                                 /\ (100 * S) \div fleet[c].allocatable <= target,
                    \A c \in O : fleet[c].utilization[1] <= 100 * fleet[c].utilization[2]
             PROVE  /\ Budgeted(fleet, target)
                         <= target * Capacity(fleet, D) + Capacity(fleet, G)
                              + 100 * Cardinality(D)
                    /\ Budgeted(fleet, target)
                         >= target * Capacity(fleet, D) - Capacity(fleet, O)
  BY DEF HitsTarget
<1> DEFINE A == [c \in D |-> fleet[c].allocatable]
           B == [c \in D |-> Equalized(fleet, target)[c].budget * fleet[c].allocatable]
           W == [c \in O |-> Overflow(fleet[c], target)]
           Sum(f, T) == SumFunctionOnSet(f, T)
<1>1. O \subseteq D /\ G \subseteq D /\ D \cap O = O /\ IsFiniteSet(O) /\ IsFiniteSet(G)
  BY FS_Subset DEF OverClusters
<1>2. target \in Int /\ \A c \in D : A[c] \in Nat /\ A[c] = fleet[c].allocatable
  BY MaxI64Assumption DEF Observation, Amount, Points
<1>3. ASSUME NEW c \in O
      PROVE  /\ W[c] \in Nat /\ B[c] \in Int
             /\ B[c] <= target * A[c] + 100 * W[c] + 100
             /\ (target - 1) * A[c] + 100 * W[c] + 0 <= B[c]
  <2>1. c \in D /\ IsOver(fleet[c], target)
    BY DEF OverClusters
  <2>2. Equalized(fleet, target)[c].budget = Frozen(fleet[c])
    BY <2>1 DEF Equalized
  <2>3. B[c] = Frozen(fleet[c]) * fleet[c].allocatable /\ W[c] = Overflow(fleet[c], target)
    BY <2>1, <2>2
  <2>4. /\ Overflow(fleet[c], target) \in Nat /\ Frozen(fleet[c]) \in Points
        /\ Frozen(fleet[c]) * fleet[c].allocatable
             <= target * fleet[c].allocatable + 100 * Overflow(fleet[c], target) + 100
        /\ (target - 1) * fleet[c].allocatable + 100 * Overflow(fleet[c], target)
             <= Frozen(fleet[c]) * fleet[c].allocatable
    BY <2>1, OverBudget
  <2>5. Frozen(fleet[c]) \in Int
    BY <2>4 DEF Points
  <2> HIDE DEF A, B, W
  <2> QED
    BY <1>2, <2>1, <2>3, <2>4, <2>5
<1>4. S = Sum(W, O) \div Cardinality(G)
  BY BudgetSums
<1>5. Sum(W, O) \in Int /\ Cardinality(G) \in Nat \ {0} /\ Cardinality(O) \in Nat
  <2> HIDE DEF A, B, W, O
  <2>1. \A c \in O : W[c] \in Int
    BY <1>3
  <2>2. Sum(W, O) \in Int
    BY <1>1, <2>1, SumType
  <2>3. Cardinality(G) \in Nat /\ Cardinality(O) \in Nat
    BY <1>1, FS_CardinalityType
  <2>4. Cardinality(G) # 0
    BY <1>1, FS_EmptySet
  <2> QED
    BY <2>2, <2>3, <2>4
<1>6. S \in Nat /\ Cardinality(G) * S <= Sum(W, O)
        /\ Sum(W, O) < Cardinality(G) * S + Cardinality(G)
  <2> HIDE DEF W, G, O, S
  <2> DEFINE none == [c \in O |-> 0]
  <2>0. \A c \in O : none[c] = 0 /\ none[c] \in Int /\ W[c] \in Int /\ none[c] <= W[c]
    <3> HIDE DEF A, B
    <3> QED
      BY <1>3
  <2> HIDE DEF none
  <2>1. Sum(none, O) <= Sum(W, O)
    BY <1>1, <2>0, SumMonotonic
  <2>2. Sum(none, O) = 0 * Cardinality(O)
    BY <1>1, <2>0, SumConstant
  <2>3. 0 <= Sum(W, O)
    BY <1>5, <2>1, <2>2
  <2> HIDE DEF Sum
  <2>4. /\ S \in Int /\ Cardinality(G) * S <= Sum(W, O)
        /\ Sum(W, O) < Cardinality(G) * S + Cardinality(G)
    BY <1>4, <1>5, DivLaw
  <2>5. Cardinality(G) * 0 < Cardinality(G) * (S + 1)
    BY <1>5, <2>3, <2>4
  <2>6. 0 < S + 1
    BY <1>5, <2>4, <2>5, Cancel
  <2> QED
    BY <2>4, <2>6
<1>7. ASSUME NEW c \in G
      PROVE  /\ B[c] \in Int
             /\ B[c] <= (target + 1) * A[c] + 0 * A[c] + (0 - 100 * S)
             /\ target * A[c] + 0 * A[c] + (0 - 100 * S) <= B[c]
  <2> DEFINE budget == Clamp(target - Reduction(fleet[c], S), 0, 100)
  <2>1. c \in D /\ ~IsOver(fleet[c], target)
    BY DEF OverClusters
  <2>2. Equalized(fleet, target)[c].budget = budget
    BY <2>1 DEF Equalized
  <2>3. B[c] = budget * fleet[c].allocatable
    BY <2>1, <2>2
  <2> HIDE DEF S
  <2>4. /\ budget \in Points
        /\ budget * fleet[c].allocatable <= (target + 1) * fleet[c].allocatable - 100 * S
        /\ target * fleet[c].allocatable - 100 * S <= budget * fleet[c].allocatable
    BY <1>6, <2>1, GoodBudget
  <2> HIDE DEF budget, A, B
  <2>5. budget \in Int
    BY <2>4 DEF Points
  <2> QED
    BY <1>2, <1>6, <2>1, <2>3, <2>4, <2>5
<1>8. /\ Budgeted(fleet, target) = Sum(B, D)
      /\ Capacity(fleet, D) = Sum(A, D) /\ Capacity(fleet, G) = Sum(A, G)
      /\ Capacity(fleet, O) = Sum(A, O)
  <2>1. ASSUME NEW T \in SUBSET D PROVE Capacity(fleet, T) = Sum(A, T)
    <3>1. Capacity(fleet, T) = Sum([c \in T |-> fleet[c].allocatable], T)
      BY BudgetSums
    <3>2. \A c \in T : [d \in T |-> fleet[d].allocatable][c] = A[c] /\ A[c] \in Int
      BY <1>2
    <3>3. IsFiniteSet(T)
      BY FS_Subset
    <3> HIDE DEF A
    <3>4. Sum([c \in T |-> fleet[c].allocatable], T) = Sum(A, T)
      BY <3>2, <3>3, SumAgree
    <3> QED
      BY <3>1, <3>4
  <2>2. Budgeted(fleet, target) = Sum(B, D)
    BY BudgetSums
  <2> QED
    BY <1>1, <2>1, <2>2
<1>0. IsFiniteSet(D)
  OBVIOUS
<1> HIDE DEF A, B, W, S
<1>9. \A c \in D : A[c] \in Int /\ B[c] \in Int
  BY <1>2, <1>3, <1>7
<1>10. Sum(A, D) = Sum(A, O) + Sum(A, G) /\ Sum(B, D) = Sum(B, O) + Sum(B, G)
  <2> HIDE DEF D, O
  <2>1. ASSUME NEW f, \A c \in D : f[c] \in Int
        PROVE  Sum(f, D) = Sum(f, O) + Sum(f, G)
    BY <1>0, <1>1, <2>1, SumPart
  <2> QED
    BY <1>9, <2>1
<1>11. Cardinality(D) = Cardinality(O) + Cardinality(G)
  <2>1. Cardinality(D \ O) = Cardinality(D) - Cardinality(D \cap O)
    BY <1>0, <1>1, FS_Difference
  <2>2. Cardinality(D) \in Nat
    BY <1>0, FS_CardinalityType
  <2>3. Cardinality(D \cap O) = Cardinality(O)
    BY <1>1
  <2> QED
    BY <1>5, <2>1, <2>2, <2>3
<1> HIDE DEF D, O, G
<1>12. /\ Sum(B, O) <= target * Sum(A, O) + 100 * Sum(W, O) + 100 * Cardinality(O)
       /\ (target - 1) * Sum(A, O) + 100 * Sum(W, O) + 0 * Cardinality(O) <= Sum(B, O)
  <2>1. target - 1 \in Int /\ 100 \in Int /\ 0 \in Int
    BY <1>2
  <2>2. \A c \in O : A[c] \in Int /\ B[c] \in Int /\ W[c] \in Int
    BY <1>1, <1>3, <1>9
  <2>3. Sum(B, O) <= target * Sum(A, O) + 100 * Sum(W, O) + 100 * Cardinality(O)
    BY <1>1, <1>2, <1>3, <2>1, <2>2, SumAtMost
  <2>4. (target - 1) * Sum(A, O) + 100 * Sum(W, O) + 0 * Cardinality(O) <= Sum(B, O)
    BY <1>1, <1>3, <2>1, <2>2, SumAtLeast
  <2> QED
    BY <2>3, <2>4
<1>13. /\ Sum(B, G) <= (target + 1) * Sum(A, G) + 0 * Sum(A, G)
                         + (0 - 100 * S) * Cardinality(G)
       /\ target * Sum(A, G) + 0 * Sum(A, G) + (0 - 100 * S) * Cardinality(G) <= Sum(B, G)
  <2>1. target + 1 \in Int /\ 0 \in Int /\ 0 - 100 * S \in Int
    BY <1>2, <1>6
  <2>2. \A c \in G : A[c] \in Int /\ B[c] \in Int
    BY <1>1, <1>9
  <2>3. Sum(B, G) <= (target + 1) * Sum(A, G) + 0 * Sum(A, G)
                         + (0 - 100 * S) * Cardinality(G)
    BY <1>1, <1>7, <2>1, <2>2, SumAtMost
  <2>4. target * Sum(A, G) + 0 * Sum(A, G) + (0 - 100 * S) * Cardinality(G) <= Sum(B, G)
    BY <1>1, <1>2, <1>7, <2>1, <2>2, SumAtLeast
  <2> QED
    BY <2>3, <2>4
<1>14. /\ Sum(A, O) \in Int /\ Sum(A, G) \in Int /\ Sum(B, O) \in Int /\ Sum(B, G) \in Int
  BY <1>1, <1>9, SumType
<1> HIDE DEF Sum
<1>15. Sum(B, D) <= target * Sum(A, D) + Sum(A, G) + 100 * Cardinality(D)
  BY <1>2, <1>5, <1>6, <1>10, <1>11, <1>12, <1>13, <1>14
<1>16. Sum(B, D) >= target * Sum(A, D) - Sum(A, O)
  BY <1>2, <1>5, <1>6, <1>10, <1>11, <1>12, <1>13, <1>14
<1> QED
  BY <1>8, <1>15, <1>16
-----------------------------------------------------------------------------
(***************************************************************************)
(* Types                                                                   *)
(***************************************************************************)

\* Whatever has been observed, a budget is a percentage.
LEMMA BudgetIsPercentage ==
  ASSUME NEW fleet, IsFiniteSet(DOMAIN fleet),
         \A c \in DOMAIN fleet : fleet[c] \in Observation,
         NEW target \in Points, NEW c \in DOMAIN fleet
  PROVE  /\ Equalized(fleet, target)[c].budget \in Points
         /\ Equalized(fleet, target)[c].state \in {"over", "good"}
<1>1. ASSUME NEW n \in Int PROVE Clamp(n, 0, 100) \in Points
  BY DEF Clamp, Smaller, Larger, Points
<1>2. \A d \in DOMAIN fleet :
        /\ fleet[d].utilization[1] \in Nat /\ fleet[d].utilization[2] \in Nat \ {0}
        /\ fleet[d].allocatable \in Nat
  BY MaxI64Assumption DEF Observation, Fractions, Amount
<1>3. target \in Int
  BY DEF Points
<1>4. CASE IsOver(fleet[c], target)
  <2>1. fleet[c].utilization[1] \div fleet[c].utilization[2] \in Int
    BY <1>2, DivLaw
  <2>2. Frozen(fleet[c]) \in Points
    BY <1>1, <2>1 DEF Frozen
  <2> QED
    BY <1>4, <2>2 DEF Equalized
<1>5. CASE ~IsOver(fleet[c], target)
  <2> DEFINE O == OverClusters(fleet, target)
             G == DOMAIN fleet \ O
             W == [d \in O |-> Overflow(fleet[d], target)]
             S == Share(fleet, target)
  <2>1. IsFiniteSet(O) /\ IsFiniteSet(G) /\ c \in G
    BY <1>5, FS_Subset DEF OverClusters
  <2>2. ASSUME NEW d \in O PROVE W[d] \in Int
    <3> DEFINE n == (fleet[d].utilization[1] - target * fleet[d].utilization[2])
                      * fleet[d].allocatable
               v == 100 * fleet[d].utilization[2]
    <3>1. n \in Int /\ v \in Nat \ {0}
      BY <1>2, <1>3 DEF OverClusters
    <3>2. W[d] = n \div v
      BY DEF Overflow
    <3> HIDE DEF n, v, W
    <3> QED
      BY <3>1, <3>2, DivLaw
  <2>3. S = SumFunctionOnSet(W, O) \div Cardinality(G)
    BY BudgetSums
  <2> HIDE DEF O, G, W, S
  <2>4. SumFunctionOnSet(W, O) \in Int
    BY <2>1, <2>2, SumType
  <2>5. Cardinality(G) \in Nat \ {0}
    BY <2>1, FS_CardinalityType, FS_EmptySet
  <2>6. S \in Int
    BY <2>3, <2>4, <2>5, DivLaw
  <2>7. Reduction(fleet[c], S) \in Int
    <3>1. CASE fleet[c].allocatable > 0
      <4>1. S * 100 \in Int /\ fleet[c].allocatable \in Nat \ {0}
        BY <1>2, <2>6, <3>1
      <4>2. (S * 100) \div fleet[c].allocatable \in Int
        BY <4>1, DivLaw
      <4>3. \A n \in Int : AsI32(n) \in Int
        BY MaxI32Assumption DEF AsI32
      <4> QED
        BY <3>1, <4>2, <4>3 DEF Reduction
    <3> QED
      BY <3>1 DEF Reduction
  <2>8. Clamp(target - Reduction(fleet[c], S), 0, 100) \in Points
    BY <1>1, <1>3, <2>7
  <2> QED
    BY <1>5, <2>8 DEF Equalized, S
<1> QED
  BY <1>4, <1>5

\* What a cycle knows of its targets.
Answers == [state: ReadStates, utilization: Utilization \cup {NULL}]

\* A target past its first call has shown a utilization.
Reads ==
  {reads \in UNION {[D -> Answers] : D \in SUBSET Cluster} :
     \A c \in DOMAIN reads :
       reads[c].state \in {"allocation", "read"} => reads[c].utilization \in Utilization}

Reports ==
  UNION {[D -> [state: {"healthy", "over", "unreachable", "config-error"},
                budget: [Resource -> Points]]] : D \in SUBSET Cluster}

\* The equalizer between two awaits.  The targets that still wait for their patch
\* are among those that were read.
Cycle ==
  \/ cycle = Idle
  \/ \E target \in [Resource -> Points], reads \in Reads : cycle = Reading(target, reads)
  \/ \E report \in Reports : \E left \in SUBSET (DOMAIN report) :
       /\ cycle = [at |-> "patch", report |-> report, left |-> left]
       /\ \A c \in left : report[c].state \in {"healthy", "over"}

IInv ==
  /\ config = NULL \/ \E s \in Configs : \E st : config = [spec |-> s, status |-> st]
  /\ spec \in [Cluster -> AllocationSpec]
  /\ status \in [Cluster -> Utilization \cup {NULL}]
  /\ Cycle

LEMMA InvTypeOK == IInv => TypeOK
<1> SUFFICES ASSUME IInv PROVE TypeOK
  OBVIOUS
<1>1. CASE cycle = Idle
  BY <1>1 DEF IInv, TypeOK, Idle
<1>2. ASSUME NEW target \in [Resource -> Points], NEW reads \in Reads,
             cycle = Reading(target, reads)
      PROVE  TypeOK
  <2>1. cycle.at = "read" /\ cycle.target = target /\ cycle.reads = reads
    BY <1>2 DEF Reading
  <2>2. DOMAIN reads \subseteq Cluster /\ \A c \in DOMAIN reads : reads[c] \in Answers
    BY DEF Reads
  <2> QED
    BY <2>1, <2>2 DEF IInv, TypeOK, Answers
<1>3. ASSUME NEW report \in Reports, NEW left \in SUBSET (DOMAIN report),
             cycle = [at |-> "patch", report |-> report, left |-> left]
      PROVE  TypeOK
  BY <1>3 DEF IInv, TypeOK, Reports
<1> QED
  BY <1>1, <1>2, <1>3 DEF IInv, Cycle

LEMMA InitInv == Init => IInv
<1> SUFFICES ASSUME Init PROVE IInv
  OBVIOUS
<1>1. spec \in [Cluster -> AllocationSpec]
  BY SpecsAssumption DEF Init
<1>2. status \in [Cluster -> Utilization \cup {NULL}]
  BY DEF Init
<1> QED
  BY <1>1, <1>2 DEF Init, IInv, Cycle

-----------------------------------------------------------------------------
(***************************************************************************)
(* Steps                                                                   *)
(***************************************************************************)

\* The equalizer in the first phase of a cycle.
LEMMA ReadingState ==
  ASSUME IInv, cycle.at = "read"
  PROVE  /\ cycle = Reading(cycle.target, cycle.reads)
         /\ cycle.target \in [Resource -> Points] /\ cycle.reads \in Reads
BY DEF IInv, Cycle, Reading, Idle

\* and in the second.
LEMMA PatchingState ==
  ASSUME IInv, cycle.at = "patch"
  PROVE  /\ cycle = [at |-> "patch", report |-> cycle.report, left |-> cycle.left]
         /\ cycle.report \in Reports /\ cycle.left \in SUBSET (DOMAIN cycle.report)
         /\ \A c \in cycle.left : cycle.report[c].state \in {"healthy", "over"}
BY DEF IInv, Cycle, Reading, Idle

\* A recorded answer keeps the equalizer in the first phase.
LEMMA RecordStep ==
  ASSUME IInv, cycle.at = "read", NEW c \in DOMAIN cycle.reads, NEW state \in ReadStates,
         NEW utilization \in Utilization \cup {NULL},
         state \in {"allocation", "read"} => utilization \in Utilization,
         Record(c, state, utilization)
  PROVE  Cycle'
<1> DEFINE target == cycle.target
           reads == cycle.reads
           answer == [state |-> state, utilization |-> utilization]
           after == [reads EXCEPT ![c] = answer]
<1>1. cycle = Reading(target, reads) /\ target \in [Resource -> Points] /\ reads \in Reads
  BY ReadingState
<1>2. cycle' = Reading(target, after)
  <2> HIDE DEF target, reads
  <2> QED
    BY <1>1 DEF Record, Reading
<1>3. answer \in Answers
  BY DEF Answers
<1>4. after \in Reads
  <2>1. PICK D \in SUBSET Cluster : reads \in [D -> Answers]
    BY <1>1 DEF Reads
  <2> HIDE DEF answer
  <2>2. after \in [D -> Answers]
    BY <1>3, <2>1
  <2>3. ASSUME NEW d \in DOMAIN after, after[d].state \in {"allocation", "read"}
        PROVE  after[d].utilization \in Utilization
    <3>1. CASE d = c
      BY <2>1, <2>3, <3>1 DEF answer
    <3>2. CASE d # c
      BY <1>1, <2>1, <2>3, <3>2 DEF Reads
    <3> QED
      BY <3>1, <3>2
  <2> QED
    BY <2>2, <2>3 DEF Reads
<1> QED
  BY <1>1, <1>2, <1>4 DEF Cycle

\* The observations of a cycle are those of a finite fleet.
LEMMA ObservedType ==
  ASSUME NEW reads \in Reads, NEW res \in Resource
  PROVE  /\ DOMAIN Observed(reads, res) = Reached(reads)
         /\ Reached(reads) \subseteq DOMAIN reads /\ Reached(reads) \subseteq Cluster
         /\ IsFiniteSet(Reached(reads))
         /\ \A c \in Reached(reads) : Observed(reads, res)[c] \in Observation
<1>1. Reached(reads) \subseteq DOMAIN reads /\ DOMAIN reads \subseteq Cluster
  BY DEF Reads, Reached
<1>2. IsFiniteSet(Reached(reads))
  BY <1>1, FleetAssumption, FS_Subset
<1>3. ASSUME NEW c \in Reached(reads) PROVE Observed(reads, res)[c] \in Observation
  <2>1. reads[c].utilization \in Utilization
    BY DEF Reads, Reached
  <2>2. reads[c].utilization[res] \in Fractions
    BY <2>1 DEF Utilization
  <2>3. Supply[c][res] \in Amount
    BY <1>1, FleetAssumption DEF Figures
  <2> QED
    BY <2>2, <2>3 DEF Observed, Observation
<1> QED
  BY <1>1, <1>2, <1>3 DEF Observed

\* What a cycle reports of its targets once all have answered.
LEMMA ReportType ==
  ASSUME NEW reads \in Reads, NEW target \in [Resource -> Points],
         \A c \in DOMAIN reads : reads[c].state \in {"read", "unreachable", "config-error"}
  PROVE  /\ BuildReport(reads, target) \in Reports
         /\ DOMAIN BuildReport(reads, target) = DOMAIN reads
         /\ \A c \in Reached(reads) :
              BuildReport(reads, target)[c].state \in {"healthy", "over"}
<1> DEFINE report == BuildReport(reads, target)
           Row == [state: {"healthy", "over", "unreachable", "config-error"},
                   budget: [Resource -> Points]]
<1>1. DOMAIN report = DOMAIN reads
  BY DEF BuildReport
<1>2. ASSUME NEW c \in Reached(reads)
      PROVE  report[c] \in Row /\ report[c].state \in {"healthy", "over"}
  <2> DEFINE budget == [res \in Resource |->
                          Equalized(Observed(reads, res), target[res])[c].budget]
  <2>1. c \in DOMAIN reads
    BY DEF Reached
  <2>2. ASSUME NEW res \in Resource PROVE budget[res] \in Points
    <3>1. target[res] \in Points
      OBVIOUS
    <3>2. Equalized(Observed(reads, res), target[res])[c].budget \in Points
      BY <3>1, ObservedType, BudgetIsPercentage
    <3> QED
      BY <3>2
  <2>3. budget \in [Resource -> Points]
    BY <2>2
  <2>4. PICK st \in {"healthy", "over"} : report[c] = [state |-> st, budget |-> budget]
    BY <2>1 DEF BuildReport
  <2> HIDE DEF budget, report
  <2> QED
    BY <2>3, <2>4
<1>3. ASSUME NEW c \in DOMAIN reads \ Reached(reads) PROVE report[c] \in Row
  <2>1. report[c] = [state |-> reads[c].state, budget |-> Zero]
    BY DEF BuildReport
  <2>2. Zero \in [Resource -> Points]
    BY DEF Zero, Points
  <2>3. reads[c].state \in {"unreachable", "config-error"}
    BY DEF Reached
  <2> HIDE DEF report
  <2> QED
    BY <2>1, <2>2, <2>3
<1>4. report = [c \in DOMAIN reads |-> report[c]]
  BY DEF BuildReport
<1>5. DOMAIN reads \in SUBSET Cluster
  BY DEF Reads
<1> HIDE DEF report
<1>6. report \in [DOMAIN reads -> Row]
  BY <1>2, <1>3, <1>4 DEF Reached
<1>7. report \in Reports
  BY <1>5, <1>6 DEF Reports
<1> QED
  BY <1>1, <1>2, <1>7 DEF report

\* What a patch leaves of a spec.
LEMMA PatchShape ==
  ASSUME IInv, NEW c \in Cluster, NEW ok, PatchOverrides(c, ok)
  PROVE  /\ spec' \in [Cluster -> AllocationSpec]
         /\ \A d \in Cluster :
              spec'[d] # spec[d] =>
                /\ [spec'[d] EXCEPT !.override = spec[d].override] = spec[d]
                /\ cycle.report[d].state \in {"healthy", "over"}
<1>1. CASE ~ok
  BY <1>1 DEF PatchOverrides, IInv
<1>2. CASE ok
  <2> DEFINE budget == cycle.report[c].budget
  <2>1. spec' = [spec EXCEPT ![c].override = budget]
    BY <1>2 DEF PatchOverrides
  <2>2. spec[c] \in AllocationSpec /\ spec \in [Cluster -> AllocationSpec]
    BY DEF IInv
  <2>3. cycle.report \in Reports /\ c \in DOMAIN cycle.report
        /\ cycle.report[c].state \in {"healthy", "over"}
    BY PatchingState DEF PatchOverrides
  <2>4. budget \in [Resource -> Points]
    BY <2>3 DEF Reports
  <2> HIDE DEF budget
  <2>5. spec'[c] = [spec[c] EXCEPT !.override = budget]
    BY <2>1, <2>2
  <2>6. budget \in [Resource -> Points \cup {NULL}]
    BY <2>4
  <2>7. spec'[c] \in AllocationSpec
    BY <2>2, <2>5, <2>6 DEF AllocationSpec
  <2>8. \A d \in Cluster \ {c} : spec'[d] = spec[d]
    BY <2>1, <2>2
  <2>9. spec' \in [Cluster -> AllocationSpec]
    BY <2>1, <2>2, <2>7
  <2>10. [spec'[c] EXCEPT !.override = spec[c].override] = spec[c]
    BY <2>2, <2>5 DEF AllocationSpec
  <2> QED
    BY <2>3, <2>8, <2>9, <2>10
<1> QED
  BY <1>1, <1>2

\* The ratio that a status reports is a fraction.
LEMMA StatusType ==
  ASSUME IInv, NEW c \in Cluster, Recompute(c)
  PROVE  status' \in [Cluster -> Utilization \cup {NULL}]
<1> DEFINE budgets == ResolveEffectiveBudgets(spec[c])
           ceiling == CeilingPerResource(Supply[c], budgets)
<1>1. PICK allocated \in Loads[c] :
        status' = [status EXCEPT ![c] =
                     [res \in Resource |-> Ratio(allocated[res], ceiling[res])]]
  BY DEF Recompute
<1>2. allocated \in Figures /\ Supply[c] \in Figures /\ spec[c] \in AllocationSpec
  BY FleetAssumption DEF IInv
<1>3. ASSUME NEW res \in Resource PROVE Ratio(allocated[res], ceiling[res]) \in Fractions
  <2>1. budgets[res] \in Points
    BY <1>2 DEF ResolveEffectiveBudgets, AllocationSpec
  <2>2. allocated[res] \in Nat /\ Supply[c][res] \in Nat
    BY <1>2, MaxI64Assumption DEF Figures, Amount
  <2> HIDE DEF budgets
  <2>3. CeilingSingle(Supply[c][res], budgets[res]) \in Nat
    <3> DEFINE p == Clamp(budgets[res], 0, 100)
               n == Supply[c][res] * p
    <3>1. p \in Nat
      BY <2>1 DEF Points, Clamp, Smaller, Larger
    <3>2. n \in Nat
      BY <2>2, <3>1
    <3> HIDE DEF n
    <3>3. Smaller(n \div 100, MaxI64) \in Nat
      BY <3>2, MaxI64Assumption DEF Smaller
    <3> QED
      BY <3>3 DEF CeilingSingle, n
  <2>4. ceiling[res] \in Nat
    BY <2>3 DEF CeilingPerResource
  <2> HIDE DEF ceiling
  <2> QED
    BY <2>2, <2>4 DEF Ratio, Fractions
<1>4. [res \in Resource |-> Ratio(allocated[res], ceiling[res])] \in Utilization
  BY <1>3 DEF Utilization
<1> HIDE DEF ceiling
<1> QED
  BY <1>1, <1>4 DEF IInv

LEMMA NextInv == IInv /\ [Next]_vars => IInv'
<1> SUFFICES ASSUME IInv, [Next]_vars PROVE IInv'
  OBVIOUS
<1>1. ASSUME NEW c \in Cluster, NEW outcome \in {"ok", "unreachable", "config-error"},
             ReadAllocation(c, outcome)
      PROVE  IInv'
  <2>1. \E state \in ReadStates, utilization \in Utilization \cup {NULL} :
          /\ state \in {"allocation", "read"} => utilization \in Utilization
          /\ Record(c, state, utilization)
    <3>1. CASE outcome = "ok" /\ status[c] # NULL
      <4>1. status[c] \in Utilization /\ Record(c, "allocation", status[c])
        BY <1>1, <3>1 DEF ReadAllocation, IInv
      <4> QED
        BY <4>1 DEF ReadStates
    <3>2. CASE ~(outcome = "ok" /\ status[c] # NULL)
      <4>1. PICK state \in {"unreachable", "config-error"} : Record(c, state, NULL)
        BY <1>1, <3>2 DEF ReadAllocation
      <4> QED
        BY <4>1 DEF ReadStates
    <3> QED
      BY <3>1, <3>2
  <2>2. Cycle'
    BY <1>1, <2>1, RecordStep DEF ReadAllocation
  <2> QED
    BY <1>1, <2>2 DEF ReadAllocation, IInv
<1>2. ASSUME NEW c \in Cluster, NEW ok, ReadCapacity(c, ok) PROVE IInv'
  <2>1. cycle.reads[c].utilization \in Utilization
    BY <1>2, ReadingState DEF ReadCapacity, Reads
  <2>2. \E state \in ReadStates, utilization \in Utilization \cup {NULL} :
          /\ state \in {"allocation", "read"} => utilization \in Utilization
          /\ Record(c, state, utilization)
    BY <1>2, <2>1 DEF ReadCapacity, ReadStates
  <2>3. Cycle'
    BY <1>2, <2>2, RecordStep DEF ReadCapacity
  <2> QED
    BY <1>2, <2>3 DEF ReadCapacity, IInv
<1>3. ASSUME NEW c \in Cluster, NEW ok, PatchOverrides(c, ok) PROVE IInv'
  <2>1. spec' \in [Cluster -> AllocationSpec]
    BY <1>3, PatchShape
  <2> DEFINE report == cycle.report
             left == cycle.left
  <2>2. /\ cycle = [at |-> "patch", report |-> report, left |-> left]
        /\ report \in Reports /\ left \in SUBSET (DOMAIN report)
        /\ \A d \in left : report[d].state \in {"healthy", "over"}
    BY <1>3, PatchingState DEF PatchOverrides
  <2>3. cycle' = [cycle EXCEPT !.left = left \ {c}]
    BY <1>3 DEF PatchOverrides
  <2> HIDE DEF report, left
  <2>4. cycle' = [at |-> "patch", report |-> report, left |-> left \ {c}]
    BY <2>2, <2>3
  <2>5. Cycle'
    BY <2>2, <2>4 DEF Cycle
  <2> QED
    BY <1>3, <2>1, <2>5 DEF PatchOverrides, IInv
<1>4. CASE Begin
  <2> DEFINE reads == [c \in config.spec.clusters |->
                         [state |-> "pending", utilization |-> NULL]]
  <2>1. cycle' = Reading(config.spec.target, reads)
    BY <1>4 DEF Begin
  <2>2. config.spec \in ConfigSpec
    BY <1>4, FleetAssumption DEF Begin, IInv
  <2>3. config.spec.target \in [Resource -> Points] /\ config.spec.clusters \in SUBSET Cluster
    BY <2>2 DEF ConfigSpec
  <2>4. reads \in Reads
    BY <2>3 DEF Reads, Answers, ReadStates
  <2>5. Cycle'
    BY <2>1, <2>3, <2>4 DEF Cycle
  <2> QED
    BY <1>4, <2>5 DEF Begin, IInv
<1>5. CASE Compute
  <2> DEFINE report == BuildReport(cycle.reads, cycle.target)
             left == Reached(cycle.reads)
  <2>1. cycle.reads \in Reads /\ cycle.target \in [Resource -> Points]
    BY <1>5, ReadingState DEF Compute, AllAnswered
  <2>2. /\ report \in Reports /\ DOMAIN report = DOMAIN cycle.reads
        /\ \A c \in left : report[c].state \in {"healthy", "over"}
    BY <1>5, <2>1, ReportType DEF Compute, AllAnswered
  <2>3. left \in SUBSET (DOMAIN report)
    BY <2>2 DEF Reached
  <2>4. cycle' = [at |-> "patch", report |-> report, left |-> left]
    BY <1>5 DEF Compute
  <2> HIDE DEF report, left
  <2>5. Cycle'
    BY <2>2, <2>3, <2>4 DEF Cycle
  <2> QED
    BY <1>5, <2>5 DEF Compute, IInv
<1>6. ASSUME NEW ok, PatchStatus(ok) PROVE IInv'
  <2> DEFINE news == [clusters  |-> cycle.report,
                      condition |-> FleetCondition(cycle.report)]
  <2>1. config' = NULL \/ \E s \in Configs : \E st : config' = [spec |-> s, status |-> st]
    <3>1. CASE ok /\ config # NULL
      <4>0. PICK s \in Configs : \E st : config = [spec |-> s, status |-> st]
        BY <3>1 DEF IInv
      <4>1. PICK st : config = [spec |-> s, status |-> st]
        BY <4>0
      <4>2. config' = [config EXCEPT !.status = news]
        BY <1>6, <3>1 DEF PatchStatus
      <4> HIDE DEF news
      <4>3. config' = [spec |-> s, status |-> news]
        BY <4>1, <4>2
      <4> QED
        BY <4>3
    <3>2. CASE ~(ok /\ config # NULL)
      BY <1>6, <3>2 DEF PatchStatus, IInv
    <3> QED
      BY <3>1, <3>2
  <2> QED
    BY <1>6, <2>1 DEF PatchStatus, IInv, Cycle
<1>7. CASE Crash
  BY <1>7 DEF Crash, IInv, Cycle
<1>8. ASSUME NEW c \in Cluster, WriteSpec(c) PROVE IInv'
  <2>1. spec' \in [Cluster -> AllocationSpec]
    BY <1>8, SpecsAssumption DEF WriteSpec, IInv
  <2> QED
    BY <1>8, <2>1 DEF WriteSpec, IInv, Cycle
<1>9. CASE WriteConfig \/ DeleteConfig
  BY <1>9 DEF WriteConfig, DeleteConfig, IInv, Cycle
<1>10. ASSUME NEW c \in Cluster, Recompute(c) PROVE IInv'
  BY <1>10, StatusType DEF Recompute, IInv, Cycle
<1>11. CASE UNCHANGED vars
  BY <1>11 DEF vars, IInv, Cycle
<1> QED
  BY <1>1, <1>2, <1>3, <1>4, <1>5, <1>6, <1>7, <1>8, <1>9, <1>10, <1>11
  DEF Next, EqualizerStep, Failure, Operator, Call

-----------------------------------------------------------------------------
(***************************************************************************)
(* Theorems                                                                *)
(***************************************************************************)

\* Whatever the clusters, the operators and the network do, the equalizer's
\* budgets are percentages and the statuses it reads are proper ratios.
THEOREM EqualizerTyped == Spec => []TypeOK
BY InitInv, NextInv, InvTypeOK, PTL DEF Spec

\* Whatever has been read in a cycle, the budgets that the equalizer computes from
\* it stand together for the target, up to less than one point of each cluster
\* (equalize).
THEOREM TargetIsMet == Spec => []FleetMeetsTarget
<1>1. IInv => FleetMeetsTarget
  <2> SUFFICES ASSUME IInv, AllAnswered, NEW res \in Resource, NEW other \in Others,
                      NEW target \in Targets
               PROVE  HitsTarget(Joined(Observed(cycle.reads, res), other), target)
    BY DEF FleetMeetsTarget
  <2> DEFINE observed == Observed(cycle.reads, res)
             fleet == Joined(observed, other)
  <2>1. cycle.reads \in Reads
    BY ReadingState DEF AllAnswered
  <2>2. /\ DOMAIN observed = Reached(cycle.reads) /\ IsFiniteSet(Reached(cycle.reads))
        /\ \A c \in Reached(cycle.reads) : observed[c] \in Observation
    BY <2>1, ObservedType
  <2> HIDE DEF observed
  <2>3. DOMAIN fleet = DOMAIN observed \cup {NULL}
    BY DEF Joined
  <2>4. IsFiniteSet(DOMAIN fleet)
    BY <2>2, <2>3, FS_AddElement
  <2>5. \A c \in DOMAIN fleet : fleet[c] \in Observation
    BY <2>2, FleetAssumption DEF Joined
  <2>6. target \in Points
    BY FleetAssumption
  <2> HIDE DEF fleet
  <2>7. HitsTarget(fleet, target)
    BY <2>4, <2>5, <2>6, EqualizedHitsTarget
  <2> QED
    BY <2>7 DEF fleet, observed
<1> QED
  BY <1>1, InitInv, NextInv, PTL DEF Spec

\* The equalizer writes a cluster's spec only in a cycle that has read that
\* cluster, and of the spec nothing but the two overrides (reconcile, phase C).
THEOREM KeepsWhatItCannotRead == Spec => LostClusterKeepsBudget
<1>1. IInv /\ [Next]_vars =>
        [EqualizerStep \/ Failure =>
           \A c \in Cluster :
             spec'[c] # spec[c] =>
               /\ [spec'[c] EXCEPT !.override = spec[c].override] = spec[c]
               /\ cycle.report[c].state \in {"healthy", "over"}]_vars
  <2> SUFFICES ASSUME IInv, EqualizerStep \/ Failure, NEW c \in Cluster,
                      spec'[c] # spec[c]
               PROVE  /\ [spec'[c] EXCEPT !.override = spec[c].override] = spec[c]
                      /\ cycle.report[c].state \in {"healthy", "over"}
    OBVIOUS
  <2>1. \E d \in Cluster, ok \in BOOLEAN : PatchOverrides(d, ok)
    BY DEF EqualizerStep, Failure, Call, Begin, Compute, PatchStatus, Crash,
           ReadAllocation, ReadCapacity
  <2> QED
    BY <2>1, PatchShape
<1> QED
  BY <1>1, InitInv, NextInv, PTL DEF Spec, LostClusterKeepsBudget
=============================================================================
