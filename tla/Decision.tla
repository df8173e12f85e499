------------------------------ MODULE Decision ------------------------------
(***************************************************************************)
(* The admission decision: a function of the request, of the Allocation    *)
(* and ClusterCapacity objects in the webhook's caches and of the time.    *)
(*                                                                         *)
(* allocation  NULL, or [spec, status] with                                *)
(*   spec      [budget, override, mode, namespaces, classes]               *)
(*   status    NULL, or [allocated, ceiling, budgets, stamp, ...]; a stamp *)
(*             that is no RFC 3339 time is NULL                            *)
(* capacity    NULL (no object, or an object without status) or the supply *)
(* request     [operation, namespace, class, new, old] where new and old   *)
(*             are the effective requests of the pod after and before the  *)
(*             operation, NULL when they do not parse                      *)
(***************************************************************************)
EXTENDS Budget

CONSTANTS
  WebhookNamespace,     \* the namespace the webhook itself runs in
  FreshnessTimeout      \* capacity_freshness_timeout_secs

ASSUME FreshnessAssumption == FreshnessTimeout \in Nat

-----------------------------------------------------------------------------
(***************************************************************************)
(* Outcomes.  A rejection without violations carries the slug of its       *)
(* error; "enforce" decides whether violations reject or only warn.        *)
(***************************************************************************)
Reject(reason) == [allowed |-> FALSE, verdict |-> "error", reason |-> reason,
                   violations |-> {}]

Exempted(reason) == [allowed |-> TRUE, verdict |-> "exempt", reason |-> reason,
                     violations |-> {}]

BudgetOutcome(violations, mode) ==
  [allowed    |-> violations = {} \/ mode = "dry-run",
   verdict    |-> IF violations = {} THEN "allow"
                  ELSE IF mode = "dry-run" THEN "dry_run_deny" ELSE "deny",
   reason     |-> IF violations = {} THEN "within_budget" ELSE "over_budget",
   violations |-> violations]

\* Mutant: a quantity that does not parse is the server's fault.
StatusCodeByServer(reason) ==
  IF reason = "over_budget" THEN 403
  ELSE IF reason = "deserialisation_failure" THEN 400
  ELSE 500

\* The code of a rejection: the policy said no, the review is at fault, or the
\* webhook could not tell.
StatusCode(reason) ==
  IF reason = "over_budget" THEN 403
  ELSE IF reason \in {"deserialisation_failure", "quantity_parse_failure"} THEN 400
  ELSE 500

-----------------------------------------------------------------------------
\* The first criterion that exempts the pod, or NULL.  An empty priority
\* class never matches, even when the list holds the empty string.
CheckExemption(request, spec) ==
  IF request.namespace = WebhookNamespace THEN "webhook_namespace"
  ELSE IF request.namespace \in spec.namespaces THEN "namespace"
  ELSE IF request.class \in spec.classes \ {""} THEN "priority_class"
  ELSE NULL

\* A stamp from the future has age 0; an unparseable one is always stale.
Age(stamp, now) == Larger(0, now - stamp)

\* Mutant: a status may be one second older.
IsStaleLate(stamp, now) == stamp = NULL \/ Age(stamp, now) > FreshnessTimeout + 1

IsStale(stamp, now) == stamp = NULL \/ Age(stamp, now) > FreshnessTimeout

Unparseable(request) ==
  request.new = NULL \/ (request.operation = "UPDATE" /\ request.old = NULL)

\* Mutant: a negative difference counts as none.
EffectiveRequestClamped(request) ==
  [res \in Resource |->
     IF request.operation = "UPDATE"
     THEN Larger(0, request.new[res] - request.old[res])
     ELSE request.new[res]]

\* An UPDATE asks for the difference to the old pod, which may be negative.
EffectiveRequest(request) ==
  [res \in Resource |->
     IF request.operation = "UPDATE" THEN request.new[res] - request.old[res]
     ELSE request.new[res]]

-----------------------------------------------------------------------------
\* Each alternative is an early return of the source, in the source's order.
Evaluate(request, allocation, capacity, now) ==
  IF allocation = NULL \/ allocation.status = NULL
    THEN Reject("capacity_data_missing")
  ELSE IF CheckExemption(request, allocation.spec) # NULL
    THEN Exempted(CheckExemption(request, allocation.spec))
  ELSE IF IsStale(allocation.status.stamp, now)
    THEN Reject("capacity_data_stale")
  ELSE IF capacity = NULL
    THEN Reject("capacity_data_missing")
  ELSE IF Unparseable(request)
    THEN Reject("quantity_parse_failure")
  ELSE BudgetOutcome(
         CheckBudget(allocation.status.allocated, EffectiveRequest(request),
                     allocation.status.ceiling),
         ResolveEnforcementMode(allocation.spec.mode))

\* Mutant: dry-run softens every rejection.
HandleLenient(body, allocation, capacity, now) ==
  IF body = NULL THEN Reject("deserialisation_failure")
  ELSE IF allocation # NULL /\ allocation.spec.mode = "dry-run"
    THEN [Evaluate(body, allocation, capacity, now) EXCEPT !.allowed = TRUE]
  ELSE Evaluate(body, allocation, capacity, now)

\* A body that is no AdmissionReview is NULL; the body is read before anything
\* that the caches hold.
Handle(body, allocation, capacity, now) ==
  IF body = NULL THEN Reject("deserialisation_failure")
  ELSE Evaluate(body, allocation, capacity, now)
=============================================================================
