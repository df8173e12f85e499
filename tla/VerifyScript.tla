---------------------------- MODULE VerifyScript ----------------------------
(***************************************************************************)
(* What erw-verify does to a cluster, as data: the documents it applies,   *)
(* the steps of its twelve scenarios, and the objects it deletes at last.  *)
(* VerifyRun carries the steps out, one API call or wait at a time.        *)
(*                                                                         *)
(* A pod is described by the resources of which it asks for more than the  *)
(* cluster has ("999", "99999Gi"); of the others it asks for next to none. *)
(***************************************************************************)
EXTENDS Integers, Sequences

CONSTANT NULL

Resource == {"cpu", "memory"}

Small      == {}
Huge       == Resource
HugeMemory == {"memory"}

\* The spec that the allocation controller seeds.
Seeded == [budget |-> 80, cpu |-> NULL, memory |-> NULL, mode |-> "enforce"]

\* What the API server may answer to a create: stored; denied by the webhook for
\* its budget (403), on memory only or not; denied for want of figures, or of
\* fresh ones (500); webhook not reached (failurePolicy Fail); a pod of that name
\* exists (409); or no answer at all.
Denial    == {"over", "over-memory"}
ApiError  == Denial \cup {"missing", "stale", "unreachable", "exists"}
Answer    == ApiError \cup {"admitted", "lost"}

\* is_denied_403 taken for any answer of the API server.
\* Mutant: a webhook that fails closed looks like one that enforces.
IsDenied403Any == ApiError

IsDenied403 == Denial

\* classify_rejection: the answers that each degradation scenario takes for a
\* rejection with the reason it induced.  Every API error has a message, and the
\* message of a stale rejection starts like that of a missing one.
ExpectUnreachable == ApiError
ExpectUnavailable == {"missing", "stale"}
ExpectStale       == {"stale"}

-----------------------------------------------------------------------------
(***************************************************************************)
(* Steps.  must: an error of the step is the scenario's ("?"); otherwise   *)
(* it is ignored.                                                          *)
(***************************************************************************)

Patch(change, must)        == [do |-> "patch", change |-> change, must |-> must]
Await(res, percent, must)  == [do |-> "await", res |-> res, percent |-> percent, must |-> must]
Create(name, size, want)   == [do |-> "create", name |-> name, size |-> size, want |-> want]
Delete(name)               == [do |-> "delete", name |-> name, ifCreated |-> FALSE]
DeleteIfCreated(name)      == [do |-> "delete", name |-> name, ifCreated |-> TRUE]
Insist(name, size)         == [do |-> "insist", name |-> name, size |-> size]
Probe(name, want, loop)    == [do |-> "probe", name |-> name, size |-> Small,
                               want |-> want, loop |-> loop]
Do(what)                   == [do |-> what]

\* apply_budget; restore_budget is the same with the error ignored.
ApplyBudget(percent, must) ==
  <<Patch([budget |-> percent], must), Await("cpu", percent, must)>>

ApplyPerResource(cpu, memory, await, must) ==
  <<Patch([cpu |-> cpu, memory |-> memory], must), Await("memory", await, must)>>

RestoreBudget == ApplyBudget(80, FALSE)

S1 == <<Create("s1", Small, {"admitted"}), DeleteIfCreated("s1")>>

S2 == <<Create("s2", Huge, IsDenied403), DeleteIfCreated("s2")>>

S3 == ApplyBudget(0, TRUE) \o <<Create("s3", Small, IsDenied403), Delete("s3")>> \o RestoreBudget

S4 == ApplyBudget(100, TRUE)
        \o <<Create("s4-over", Huge, IsDenied403), Delete("s4-over"),
             Create("s4-ok", Small, {"admitted"}), Delete("s4-ok")>>
        \o RestoreBudget

\* S5 that leaves the last budget it tried.
\* Mutant: the order of the two budgets swapped.
S5Swapped ==
  ApplyBudget(80, TRUE) \o <<Create("s5", Small, {"admitted"}), Delete("s5")>>
    \o ApplyBudget(0, TRUE) \o <<Create("s5", Small, IsDenied403), Delete("s5")>>

S5 == ApplyBudget(0, TRUE) \o <<Create("s5", Small, IsDenied403), Delete("s5")>>
        \o ApplyBudget(80, TRUE) \o <<Create("s5", Small, {"admitted"}), Delete("s5")>>

S6 == <<Patch([mode |-> "dry-run"], TRUE), Insist("s6", Huge), Delete("s6"), Do("count"),
        Patch([mode |-> "enforce"], TRUE)>>

S7 == <<Do("compare")>>

S8 == <<Do("scrape")>>

S9 == ApplyPerResource(95, 30, 30, TRUE)
        \o <<Create("s9", HugeMemory, {"over-memory"}), Delete("s9")>>
        \o ApplyPerResource(NULL, NULL, 80, FALSE)

\* The degradation scenarios; the first uses the pod name of the last above.
D9 == <<Do("kill"), Probe("s9", ExpectUnreachable, 0), Delete("s9"), Do("restore")>>

D10 == <<Do("drop-allocation"), Do("drop-capacity"),
         Probe("s10", ExpectUnavailable, 0), Delete("s10"), Do("restore")>>

D11 == <<Do("backdate"), Probe("s11", ExpectStale, 1), Delete("s11"), Do("freshen")>>

Suite == <<S1, S2, S3, S4, S5, S6, S7, S8, S9, D9, D10, D11>>

PodName == {"s1", "s2", "s3", "s4-over", "s4-ok", "s5", "s6", "s9", "s10", "s11"}

-----------------------------------------------------------------------------
(***************************************************************************)
(* Installation and its removal                                            *)
(***************************************************************************)

\* create_tls_secret (with ensure_namespace), the rendered documents with the
\* Namespace first and without cert-manager's, and the caBundle, which lives in
\* the webhook configuration.
Setup ==
  <<"Namespace", "Secret",
    "Namespace", "AllocationCRD", "CapacityCRD", "ServiceAccount", "ClusterRole",
    "ClusterRoleBinding", "Service", "Deployment", "WebhookConfiguration",
    "WebhookConfiguration">>

Teardown ==
  <<"WebhookConfiguration", "Deployment", "Service", "Secret", "ClusterRoleBinding",
    "ClusterRole", "ServiceAccount", "Allocation", "ClusterCapacity",
    "AllocationCRD", "CapacityCRD", "Namespace">>

Namespaced == {"Deployment", "Service", "Secret", "ServiceAccount"}

\* Gone only when the API server has emptied them.
Finalized == {"AllocationCRD", "CapacityCRD", "Namespace"}

-----------------------------------------------------------------------------
(***************************************************************************)
(* Settings: flag, then .env, then environment.  An empty value counts as  *)
(* none, but only once the source has been chosen.                         *)
(***************************************************************************)

FirstOf(flag, file, ambient) ==
  IF flag # NULL THEN flag ELSE IF file # NULL THEN file ELSE ambient

ResolveRaw(flag, file, ambient) ==
  LET raw == FirstOf(flag, file, ambient) IN IF raw = "" THEN NULL ELSE raw

ResolveBool(flag, file, ambient) ==
  flag # NULL \/ FirstOf(NULL, file, ambient) \in {"1", "true"}
=============================================================================
