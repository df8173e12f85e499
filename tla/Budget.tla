------------------------------- MODULE Budget -------------------------------
(***************************************************************************)
(* The budget arithmetic that the allocation controller and the admission  *)
(* webhook share: effective budgets, ceilings and the budget check.        *)
(*                                                                         *)
(* The (cpu, memory) pairs of the source are functions over Resource, so   *)
(* one formula stands for the two copies of each rule.  Rust's i64 is the  *)
(* interval -MaxI64-1 .. MaxI64.                                           *)
(***************************************************************************)
EXTENDS Integers

CONSTANTS
  Resource,   \* {"cpu", "memory"}: each is budgeted on its own
  NULL,       \* Rust's None: an absent object, status or optional field
  MaxI64      \* i64::MAX, small in the runs that look at saturation

ASSUME MaxI64Assumption == MaxI64 \in Nat

ASSUME NullAssumption == NULL \notin Int

Amount  == 0 .. MaxI64
Figures == [Resource -> Amount]
Percent == [Resource -> Int]

Zero == [res \in Resource |-> 0]

Smaller(a, b) == IF a <= b THEN a ELSE b
Larger(a, b)  == IF a >= b THEN a ELSE b

Clamp(n, low, high) == Larger(low, Smaller(n, high))

-----------------------------------------------------------------------------
(***************************************************************************)
(* Spec of the cluster-allocation singleton                                *)
(***************************************************************************)

\* An absent enforcementMode enforces.
ResolveEnforcementMode(mode) == IF mode = NULL THEN "enforce" ELSE mode

\* Mutant: no fallback from the override to budgetPercent.
ResolveEffectiveBudgetsOverrideOnly(spec) == spec.override

\* Per resource: the override when there is one, else budgetPercent.
ResolveEffectiveBudgets(spec) ==
  [res \in Resource |->
     IF spec.override[res] = NULL THEN spec.budget ELSE spec.override[res]]

-----------------------------------------------------------------------------
(***************************************************************************)
(* Ceilings and the budget check                                           *)
(***************************************************************************)

\* The product is taken in i128, so only its hundredth meets the i64 limit.
CeilingSingle(total, percent) ==
  Smaller((total * Clamp(percent, 0, 100)) \div 100, MaxI64)

CeilingPerResource(totals, budgets) ==
  [res \in Resource |-> CeilingSingle(totals[res], budgets[res])]

\* Mutant: the plain addition of a release build, which wraps.
SaturatingAddWraps(a, b) ==
  ((a + b + MaxI64 + 1) % (2 * (MaxI64 + 1))) - MaxI64 - 1

SaturatingAdd(a, b) == Clamp(a + b, -MaxI64 - 1, MaxI64)

\* Mutant: the request is left out of the projection.
CheckBudgetIgnoresRequest(allocated, request, ceiling) ==
  {res \in Resource : allocated[res] > ceiling[res]}

\* The resources that the request would push past their ceiling.  The ceiling
\* is inclusive; no violation means admit.
CheckBudget(allocated, request, ceiling) ==
  {res \in Resource :
     SaturatingAdd(allocated[res], request[res]) > ceiling[res]}
=============================================================================
