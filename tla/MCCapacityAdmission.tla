------------------------ MODULE MCCapacityAdmission ------------------------
(***************************************************************************)
(* Instances of CapacityAdmission for TLC: the pods and what they request, *)
(* the specs an operator may write and the supplies a node controller may  *)
(* report.  A unit stands for any quantity; 10 units are the whole supply. *)
(***************************************************************************)
EXTENDS CapacityAdmission

CONSTANTS
  p1, p2, p3,   \* pods under review
  exempt,       \* a pod of an excluded namespace, with an unparseable quantity
  own           \* a pod of the webhook's namespace

MCRequest ==
  [p \in Pod |-> IF p = exempt THEN NULL
                 ELSE [res \in Resource |-> IF p = p2 /\ res = "cpu" THEN 3 ELSE 4]]

MCNamespace ==
  [p \in Pod |-> IF p = own THEN "capacity-admission"
                 ELSE IF p = exempt THEN "monitoring" ELSE "team"]

MCClass == [p \in Pod |-> NULL]

Supply(n) == [res \in Resource |-> n]

OneSupply == {Supply(10)}

SpecOf(budget, mode, namespaces) ==
  [DefaultAllocationSingleton EXCEPT !.budget = budget, !.mode = mode,
                                     !.namespaces = namespaces]

NoSpecs   == {}
LowBudget == {SpecOf(40, NULL, {})}
Excluding == {SpecOf(80, "enforce", {"monitoring"})}
=============================================================================
