------------------------------- MODULE Demand -------------------------------
(***************************************************************************)
(* What pods ask for, as the allocation controller adds it up.             *)
(*                                                                         *)
(* Request[p] is what extract_pod_requests returns for pod p, or NULL when *)
(* a quantity of the pod does not parse.  A total is written as the number *)
(* of requested units, one element of a set for each unit, so that what    *)
(* is true of the cardinality of finite sets is true of the sums.  The     *)
(* sums of the source wrap at 64 bits; FitsI64Assumption keeps this module *)
(* below that limit.                                                       *)
(***************************************************************************)
EXTENDS Budget, FiniteSets

CONSTANTS
  Pod,        \* names of the pods that may ever be created
  Request     \* [Pod -> Figures \cup {NULL}]

Weight(p, res) == IF Request[p] = NULL THEN 0 ELSE Request[p][res]

Units(S, res) == UNION {{p} \X (1 .. Weight(p, res)) : p \in S}

Total(S, res) == Cardinality(Units(S, res))

ASSUME PodAssumption ==
  /\ IsFiniteSet(Pod)
  /\ NULL \notin Figures
  /\ Request \in [Pod -> Figures \cup {NULL}]

ASSUME FitsI64Assumption == \A res \in Resource : Total(Pod, res) <= MaxI64

-----------------------------------------------------------------------------
Phase == {"Pending", "Running", "Unknown", "Succeeded", "Failed"}

IsNonTerminal(phase) == phase \notin {"Failed", "Succeeded"}

\* A view is a store of pods: the phase of every pod it holds, else "absent".
CountedPods(view) ==
  {p \in Pod : view[p] # "absent" /\ IsNonTerminal(view[p])}

\* Mutant: pods that have finished are summed as well.
SumPodAllocationCountsAll(view) ==
  [res \in Resource |-> Total({p \in Pod : view[p] # "absent"}, res)]

\* Pods with an unparseable quantity weigh nothing here: they are skipped.
SumPodAllocation(view) ==
  [res \in Resource |-> Total(CountedPods(view), res)]
=============================================================================
