----------------------------- MODULE Equalizer ------------------------------
(***************************************************************************)
(* The capacity equalizer and the clusters of its fleet: every cycle reads *)
(* the targets, computes a budget for each and patches it over the         *)
(* cluster's own, while operators, pods and the clusters' allocation       *)
(* controllers go on.                                                      *)
(***************************************************************************)
EXTENDS Equalize

CONSTANTS
  Cluster,   \* clusters that a fleet may name
  Supply,    \* [Cluster -> Figures]: the status of their cluster-capacity
  Loads,     \* [Cluster -> what its pods may ask for together]
  Specs,     \* [Cluster -> what an operator may write as cluster-allocation spec]
  Configs,   \* what an operator may write as spec of the EqualizerConfig
  Others,    \* what one more cluster might show, and
  Targets    \* the targets, that the equalization is looked at for

\* A percentage, as the API server validates it.
Points == 0 .. 100

\* The spec of a cluster-allocation, and that of an EqualizerConfig.
AllocationSpec ==
  [budget: Points, override: [Resource -> Points \cup {NULL}],
   mode: {"enforce", "dry-run", NULL}]

ConfigSpec == [target: [Resource -> Points], clusters: SUBSET Cluster]

\* A utilization a / b is the pair <<a, b>>.
Fractions == Nat \X (Nat \ {0})

Observation == [utilization: Fractions, allocatable: Amount]

ASSUME SpecsAssumption == \A c \in Cluster : Specs[c] \subseteq AllocationSpec

ASSUME FleetAssumption ==
  /\ IsFiniteSet(Cluster) /\ NULL \notin Cluster
  /\ \A c \in Cluster : Supply[c] \in Figures /\ Loads[c] \subseteq Figures
  /\ Configs \subseteq ConfigSpec
  /\ Others \subseteq Observation
  /\ Targets \subseteq Points

VARIABLES
  config,    \* EqualizerConfig at the home cluster: [spec, status], or NULL
  spec,      \* [Cluster -> spec of its cluster-allocation]
  status,    \* [Cluster -> utilization in its status, or NULL]
  cycle      \* the equalizer, between two awaits

vars == <<config, spec, status, cycle>>

-----------------------------------------------------------------------------
\* The status reports allocated / ceiling: a ratio of the order of 1.
Ratio(allocated, ceiling) == IF ceiling = 0 THEN <<0, 1>> ELSE <<allocated, ceiling>>

\* reads: one record for each target, with the utilization once it is read.
\* plan: the budgets of the targets that were read.
Reading(target, reads) == [at |-> "read", target |-> target, reads |-> reads]

Idle == [at |-> "idle"]

ReadStates == {"pending", "allocation", "read", "unreachable", "config-error"}

Utilization == [Resource -> Fractions]

TypeOK ==
  /\ config = NULL \/ config.spec \in Configs
  /\ \A c \in Cluster :
       /\ spec[c] \in AllocationSpec
       /\ status[c] \in Utilization \cup {NULL}
  /\ cycle.at \in {"idle", "read", "patch"}
  /\ cycle.at = "read" =>
       /\ cycle.target \in [Resource -> Points]
       /\ DOMAIN cycle.reads \subseteq Cluster
       /\ \A c \in DOMAIN cycle.reads :
            cycle.reads[c] \in [state: ReadStates, utilization: Utilization \cup {NULL}]
  /\ cycle.at = "patch" =>
       /\ cycle.left \subseteq DOMAIN cycle.report
       /\ \A c \in DOMAIN cycle.report :
            cycle.report[c] \in [state: {"healthy", "over", "unreachable", "config-error"},
                                 budget: [Resource -> Points]]

Init ==
  /\ config = NULL
  /\ spec \in {s \in [Cluster -> UNION {Specs[c] : c \in Cluster}] :
                 \A c \in Cluster : s[c] \in Specs[c]}
  /\ status = [c \in Cluster |-> NULL]
  /\ cycle = Idle

-----------------------------------------------------------------------------
(***************************************************************************)
(* The equalizer                                                           *)
(***************************************************************************)

\* A tick: without a config, or when it cannot be read, the cycle is skipped.
Begin ==
  /\ cycle = Idle /\ config # NULL
  /\ cycle' = Reading(config.spec.target,
                      [c \in config.spec.clusters |->
                         [state |-> "pending", utilization |-> NULL]])
  /\ UNCHANGED <<config, spec, status>>

Record(c, state, utilization) ==
  cycle' = [cycle EXCEPT !.reads[c] = [state |-> state, utilization |-> utilization]]

\* Secret, kubeconfig and the GET of the cluster's Allocation.  A missing or
\* malformed Secret or kubeconfig is a configuration error; a failed GET, or an
\* object without status, counts as unreachable.
ReadAllocation(c, outcome) ==
  /\ cycle.at = "read" /\ c \in DOMAIN cycle.reads
  /\ cycle.reads[c].state = "pending"
  /\ IF outcome = "ok" /\ status[c] # NULL THEN Record(c, "allocation", status[c])
     ELSE Record(c, IF outcome = "ok" THEN "unreachable" ELSE outcome, NULL)
  /\ UNCHANGED <<config, spec, status>>

ReadCapacity(c, ok) ==
  /\ cycle.at = "read" /\ c \in DOMAIN cycle.reads
  /\ cycle.reads[c].state = "allocation"
  /\ IF ok THEN Record(c, "read", cycle.reads[c].utilization)
     ELSE Record(c, "unreachable", NULL)
  /\ UNCHANGED <<config, spec, status>>

\* The targets that this cycle has read.
Reached(reads) == {c \in DOMAIN reads : reads[c].state = "read"}

Observed(reads, res) ==
  [c \in Reached(reads) |->
     [utilization |-> reads[c].utilization[res], allocatable |-> Supply[c][res]]]

\* The observation of every target as the status will report it.  A target
\* that could not be read has no budget and reports 0.
BuildReport(reads, target) ==
  LET computed == [res \in Resource |-> Equalized(Observed(reads, res), target[res])]
  IN [c \in DOMAIN reads |->
        IF c \notin Reached(reads)
        THEN [state |-> reads[c].state, budget |-> Zero]
        ELSE [state  |-> IF \E res \in Resource : computed[res][c].state = "over"
                         THEN "over" ELSE "healthy",
              budget |-> [res \in Resource |-> computed[res][c].budget]]]

AllAnswered ==
  /\ cycle.at = "read"
  /\ \A c \in DOMAIN cycle.reads :
       cycle.reads[c].state \in {"read", "unreachable", "config-error"}

\* Mutant: every target is patched.
ComputeForAll ==
  /\ AllAnswered
  /\ cycle' = [at     |-> "patch",
               report |-> BuildReport(cycle.reads, cycle.target),
               left   |-> DOMAIN cycle.reads]
  /\ UNCHANGED <<config, spec, status>>

\* All targets have answered or failed.
Compute ==
  /\ AllAnswered
  /\ cycle' = [at     |-> "patch",
               report |-> BuildReport(cycle.reads, cycle.target),
               left   |-> Reached(cycle.reads)]
  /\ UNCHANGED <<config, spec, status>>

\* Mutant: an override is only ever lowered.
PatchOverridesLowering(c, ok) ==
  /\ cycle.at = "patch" /\ c \in cycle.left
  /\ spec' = [spec EXCEPT ![c].override =
                [res \in Resource |->
                   IF ok /\ (@[res] = NULL \/ @[res] > cycle.report[c].budget[res])
                   THEN cycle.report[c].budget[res] ELSE @[res]]]
  /\ cycle' = [cycle EXCEPT !.left = @ \ {c}]
  /\ UNCHANGED <<config, status>>

\* The merge patch sets the two overrides and nothing else.  A failure is
\* logged; the status reports the budget all the same.
PatchOverrides(c, ok) ==
  /\ cycle.at = "patch" /\ c \in cycle.left
  /\ spec' = IF ok THEN [spec EXCEPT ![c].override = cycle.report[c].budget] ELSE spec
  /\ cycle' = [cycle EXCEPT !.left = @ \ {c}]
  /\ UNCHANGED <<config, status>>

FleetCondition(report) ==
  LET states == {report[c].state : c \in DOMAIN report}
  IN IF states \cap {"unreachable", "config-error"} # {} THEN "degraded"
     ELSE IF "over" \in states THEN "compensating" ELSE "healthy"

\* The status patch of whatever config there is; a failure is logged.
PatchStatus(ok) ==
  /\ cycle.at = "patch" /\ cycle.left = {}
  /\ config' = IF ok /\ config # NULL
               THEN [config EXCEPT !.status =
                       [clusters  |-> cycle.report,
                        condition |-> FleetCondition(cycle.report)]]
               ELSE config
  /\ cycle' = Idle
  /\ UNCHANGED <<spec, status>>

Crash ==
  /\ cycle # Idle
  /\ cycle' = Idle
  /\ UNCHANGED <<config, spec, status>>

-----------------------------------------------------------------------------
(***************************************************************************)
(* The clusters                                                            *)
(***************************************************************************)

\* The allocation controller of cluster c sums what the pods ask for by now.
Recompute(c) ==
  LET ceiling == CeilingPerResource(Supply[c], ResolveEffectiveBudgets(spec[c]))
  IN /\ \E allocated \in Loads[c] :
          status' = [status EXCEPT ![c] =
                       [res \in Resource |-> Ratio(allocated[res], ceiling[res])]]
     /\ UNCHANGED <<config, spec, cycle>>

WriteSpec(c) ==
  /\ \E s \in Specs[c] : spec' = [spec EXCEPT ![c] = s]
  /\ UNCHANGED <<config, status, cycle>>

WriteConfig ==
  /\ \E s \in Configs :
       config' = [spec |-> s, status |-> IF config = NULL THEN NULL ELSE config.status]
  /\ UNCHANGED <<spec, status, cycle>>

DeleteConfig ==
  /\ config' = NULL
  /\ UNCHANGED <<spec, status, cycle>>

-----------------------------------------------------------------------------
Call(c, ok) ==
  \/ ReadAllocation(c, IF ok THEN "ok" ELSE "unreachable")
  \/ ReadCapacity(c, ok)
  \/ PatchOverrides(c, ok)

EqualizerStep ==
  \/ Begin \/ Compute \/ PatchStatus(TRUE)
  \/ \E c \in Cluster : Call(c, TRUE)

Failure ==
  \/ PatchStatus(FALSE) \/ Crash
  \/ \E c \in Cluster : Call(c, FALSE) \/ ReadAllocation(c, "config-error")

Operator ==
  \/ \E c \in Cluster : WriteSpec(c)
  \/ WriteConfig \/ DeleteConfig

Next ==
  \/ EqualizerStep \/ Failure \/ Operator
  \/ \E c \in Cluster : Recompute(c)

Spec == Init /\ [][Next]_vars

\* The ticker of main goes on and so do the clusters' controllers.
Fairness == WF_vars(EqualizerStep) /\ \A c \in Cluster : WF_vars(Recompute(c))

FairSpec == Spec /\ Fairness

-----------------------------------------------------------------------------
(***************************************************************************)
(* Properties                                                              *)
(***************************************************************************)

\* The fleet of a cycle, joined by one more cluster (NULL).
Joined(observed, other) ==
  [c \in DOMAIN observed \cup {NULL} |-> IF c = NULL THEN other ELSE observed[c]]

\* Whatever has been read, and whatever one more cluster might add to it, the
\* budgets together stand for the target, up to rounding (equalize).
FleetMeetsTarget ==
  AllAnswered =>
    \A res \in Resource, other \in Others, target \in Targets :
      HitsTarget(Joined(Observed(cycle.reads, res), other), target)

\* A cluster that was not read in a cycle keeps its last budgets to the end of
\* the cycle, and budgets of the cycle stay within what the API accepts; what
\* operators own besides the overrides is never written (reconcile, phase C).
LostClusterKeepsBudget ==
  [][EqualizerStep \/ Failure =>
       \A c \in Cluster :
         spec'[c] # spec[c] =>
           /\ [spec'[c] EXCEPT !.override = spec[c].override] = spec[c]
           /\ cycle.report[c].state \in {"healthy", "over"}]_vars

\* A failed call that could not just as well have succeeded.
Lost == Failure /\ ~EqualizerStep

Disturbance == Lost \/ Operator

Settled ==
  config # NULL =>
    /\ config.status # NULL
    /\ config.status.condition = "healthy"
    /\ \A c \in config.spec.clusters :
         /\ c \in DOMAIN config.status.clusters
         /\ config.status.clusters[c].budget = spec[c].override
         /\ spec[c].override = config.spec.target

\* Once nothing fails and no operator interferes, every target has exactly the
\* fleet's target as its override, for good: with utilizations that are ratios
\* the loop through the clusters' own controllers ends in that fixed point,
\* whatever it starts from and however the pods come and go (reconcile, ratio).
FleetSettles == <>[][~Disturbance]_vars => <>[]Settled

-----------------------------------------------------------------------------
(***************************************************************************)
(* What the documentation says of the fleet                                *)
(***************************************************************************)

\* docs/equalizer.md: a cluster whose utilization, in percent, is over the
\* target is frozen at it and the others make up for the overflow.
OverTargetIsOver ==
  AllAnswered =>
    \A c \in Reached(cycle.reads), res \in Resource :
      LET u == cycle.reads[c].utilization[res]
      IN 100 * u[1] > cycle.target[res] * u[2] =>
           BuildReport(cycle.reads, cycle.target)[c].state = "over"
=============================================================================
