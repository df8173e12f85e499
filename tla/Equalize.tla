------------------------------ MODULE Equalize ------------------------------
(***************************************************************************)
(* The equalization of one resource over the clusters of a fleet.          *)
(*                                                                         *)
(* An observation is [utilization, allocatable].  A utilization is a pair  *)
(* <<a, b>> with b > 0 that stands for a / b: the source's doubles are     *)
(* replaced by exact fractions.                                            *)
(***************************************************************************)
EXTENDS Budget, FiniteSetsExt

CONSTANT MaxI32   \* i32::MAX: the width of a percentage

ASSUME MaxI32Assumption == MaxI32 \in Nat /\ 100 <= MaxI32

AsI32(n) == ((n + MaxI32 + 1) % (2 * (MaxI32 + 1))) - MaxI32 - 1

IsOver(obs, target) == obs.utilization[1] > target * obs.utilization[2]

\* An over-cluster keeps what it uses.
Frozen(obs) == Clamp(obs.utilization[1] \div obs.utilization[2], 0, 100)

\* What an over-cluster uses beyond the target, in the units of the resource.
Overflow(obs, target) ==
  ((obs.utilization[1] - target * obs.utilization[2]) * obs.allocatable)
    \div (100 * obs.utilization[2])

OverClusters(fleet, target) == {c \in DOMAIN fleet : IsOver(fleet[c], target)}

\* Mutant: every good cluster makes up for the whole overflow.
ShareUndivided(fleet, target) ==
  MapThenSumSet(LAMBDA c : Overflow(fleet[c], target), OverClusters(fleet, target))

\* The part of the overflow that each of the other clusters makes up for.
Share(fleet, target) ==
  LET over == OverClusters(fleet, target)
  IN MapThenSumSet(LAMBDA c : Overflow(fleet[c], target), over)
       \div Cardinality(DOMAIN fleet \ over)

\* A cluster without capacity makes up for nothing.
Reduction(obs, share) ==
  IF obs.allocatable > 0 THEN AsI32((share * 100) \div obs.allocatable) ELSE 0

\* Mutant: a reduction is not cut off at 0.
EqualizedUnclamped(fleet, target) ==
  [c \in DOMAIN fleet |->
     IF IsOver(fleet[c], target)
     THEN [budget |-> Frozen(fleet[c]), state |-> "over"]
     ELSE [budget |-> target - Reduction(fleet[c], Share(fleet, target)),
           state  |-> "good"]]

\* fleet: a function from clusters to observations.
Equalized(fleet, target) ==
  [c \in DOMAIN fleet |->
     IF IsOver(fleet[c], target)
     THEN [budget |-> Frozen(fleet[c]), state |-> "over"]
     ELSE [budget |-> Clamp(target - Reduction(fleet[c], Share(fleet, target)), 0, 100),
           state  |-> "good"]]

-----------------------------------------------------------------------------
Budgeted(fleet, target) ==
  MapThenSumSet(LAMBDA c : Equalized(fleet, target)[c].budget * fleet[c].allocatable,
                DOMAIN fleet)

Capacity(fleet, S) == MapThenSumSet(LAMBDA c : fleet[c].allocatable, S)

\* The budgets of the fleet together stand for the target, up to rounding: less
\* than one point of each good cluster above it, less than one point of each
\* over-cluster below it.  (Where some cluster can absorb, none is asked for more
\* than its whole budget, and no utilization is above 100.  A reduction that does
\* not fit an i32 would wrap.)
HitsTarget(fleet, target) ==
  LET over  == OverClusters(fleet, target)
      good  == DOMAIN fleet \ over
      ideal == target * Capacity(fleet, DOMAIN fleet)
  IN (/\ good # {}
      /\ \A c \in good : /\ fleet[c].allocatable > 0
                         /\ (100 * Share(fleet, target)) \div fleet[c].allocatable <= target
      /\ \A c \in over : fleet[c].utilization[1] <= 100 * fleet[c].utilization[2])
     => /\ Budgeted(fleet, target)
             <= ideal + Capacity(fleet, good) + 100 * Cardinality(DOMAIN fleet)
        /\ Budgeted(fleet, target) >= ideal - Capacity(fleet, over)
=============================================================================
