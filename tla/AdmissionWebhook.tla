-------------------------- MODULE AdmissionWebhook --------------------------
(***************************************************************************)
(* One admission webhook as an open system: caches that hold anything the  *)
(* watches may have delivered, any review, and the answer it is given.     *)
(*                                                                         *)
(* review      NULL (no AdmissionReview) or [operation, namespace, object, *)
(*             oldObject], the objects pod specs of PodRequests or NULL    *)
(* allocation  as in Decision, but status.stamp is the second the status   *)
(*             was written, NULL when its text is no RFC 3339 time         *)
(* capacity    NULL or [totals, stamp], the status of cluster-capacity     *)
(***************************************************************************)
EXTENDS Decision, PodRequests, Calendar

CONSTANTS
  Reviews,            \* reviews the API server may send, or NULL
  AllocationsAt(_),   \* objects the cache may hold at a time, or NULL
  Capacities,         \* ClusterCapacity statuses the cache may hold, or NULL
  Times               \* what the clock may show

\* Seconds from the epoch to the end of the year 9999.
Second == {s \in Int : 0 <= s /\ s \div 86400 <= 2932896}

Policy == [budget : Int, override : [Resource -> Int \cup {NULL}],
           mode : {NULL, "enforce", "dry-run"},
           namespaces : SUBSET STRING, classes : SUBSET STRING]

Status == [allocated : [Resource -> Int], ceiling : [Resource -> Int],
           budgets : [Resource -> Int], stamp : Second \cup {NULL}]

AllocationObject == [spec : Policy, status : Status \cup {NULL}]

\* What the API server may review.
Operation == {"CREATE", "UPDATE", "DELETE", "CONNECT"}

Request == [operation : Operation, namespace : STRING, class : STRING \cup {NULL},
            new : [Resource -> Int] \cup {NULL}, old : [Resource -> Int] \cup {NULL}]

\* The review of a pod that is created as another review leaves it.
CreateOf(body) == [operation |-> "CREATE", namespace |-> body.namespace,
                   object |-> body.object, oldObject |-> NULL]

ASSUME TimesAssumption == Times \subseteq Second

ASSUME AllocationsAssumption ==
  \A time \in Times : AllocationsAt(time) \subseteq AllocationObject \cup {NULL}

\* What the decision reads in a review.
Typed(body) ==
  IF body = NULL THEN NULL
  ELSE [operation |-> body.operation, namespace |-> body.namespace,
        class |-> IF body.object = NULL THEN NULL ELSE body.object.class,
        new |-> PodRequest(body.object), old |-> PodRequest(body.oldObject)]

\* Reviews as they come out of the parser.
ASSUME ReviewsAssumption ==
  \A body \in Reviews \ {NULL} :
    /\ body.operation \in Operation /\ body.namespace \in STRING
    /\ \A pod \in {body.object, body.oldObject} \ {NULL} : IsPodSpec(pod)

\* The caches may hold what the controllers write when all goes well: a supply, and
\* under every policy a status that is fresh.
ASSUME CachesAssumption ==
  /\ Capacities \ {NULL} # {}
  /\ \A time \in Times :
       /\ AllocationsAt(time) \ {NULL} # {}
       /\ \A object \in AllocationsAt(time) \ {NULL} :
            \E other \in AllocationsAt(time) \ {NULL} :
              /\ other.spec = object.spec
              /\ other.status # NULL /\ ~IsStale(other.status.stamp, time)

\* NULL is none of the objects it stands in for.
ASSUME NullApartAssumption ==
  /\ NULL \notin Status /\ NULL \notin AllocationObject /\ NULL \notin Request
  /\ \A body \in Reviews \ {NULL} : CreateOf(body) # NULL

-----------------------------------------------------------------------------
VARIABLES review, allocation, capacity, now, outcome

vars == <<review, allocation, capacity, now, outcome>>

\* Every stamp has been written as text and is parsed again.
Delivered(object) ==
  IF object # NULL /\ object.status # NULL /\ object.status.stamp # NULL
  THEN [object EXCEPT !.status.stamp = ParseRfc3339(Rfc3339FromUnix(@))]
  ELSE object

Validate(body, object, supply, time) ==
  Handle(Typed(body), Delivered(object), supply, time)

Init ==
  /\ review \in Reviews
  /\ now \in Times
  /\ allocation \in AllocationsAt(now)
  /\ capacity \in Capacities
  /\ outcome = NULL

Answer ==
  /\ outcome = NULL
  /\ outcome' = Validate(review, allocation, capacity, now)
  /\ UNCHANGED <<review, allocation, capacity, now>>

Next == Answer

Spec == Init /\ [][Next]_vars

-----------------------------------------------------------------------------
Answered == outcome # NULL

Judged == Answered /\ outcome.verdict \in {"allow", "deny", "dry_run_deny"}

Silently == Answered /\ outcome.verdict = "allow"

\* Fail-closed (constitution, principle I): a pod that the policy does not
\* exempt is let in silently only if all that the decision rests on was there,
\* parsed and written no longer ago than the freshness timeout, and the sums
\* stay within the ceilings.  (A saturated sum is never above MaxI64.)
AdmitsOnlyVerified ==
  Silently =>
    /\ review # NULL /\ allocation # NULL /\ capacity # NULL
    /\ allocation.status # NULL
    /\ allocation.status.stamp # NULL
    /\ now <= allocation.status.stamp + FreshnessTimeout
    /\ ~Unparseable(Typed(review))
    /\ \A res \in Resource :
         allocation.status.ceiling[res] < MaxI64 =>
           allocation.status.allocated[res] + EffectiveRequest(Typed(review))[res]
             <= allocation.status.ceiling[res]

\* A pod let in silently fits with all that its containers ask for, requested or
\* defaulted from limits, wherever the exact sums stay within i64 (beyond that
\* the sum over containers wraps and the pod is undercharged).
AdmittedPodFits ==
  Silently =>
    \A res \in Resource :
      LET new == Need(review.object, res)
          old == IF review.operation = "UPDATE" THEN Need(review.oldObject, res)
                 ELSE 0
      IN new <= MaxI64 /\ old <= MaxI64 /\ allocation.status.ceiling[res] < MaxI64 =>
           allocation.status.allocated[res] + new - old
             <= allocation.status.ceiling[res]

\* dry-run converts over-budget denials and nothing else: for every review the
\* two modes give the same reason, and they differ only when it is over_budget.
ModeOnlySoftensBudget ==
  Answered /\ allocation # NULL =>
    \A mode \in {"enforce", "dry-run"} :
      LET other == Validate(review, [allocation EXCEPT !.spec.mode = mode],
                            capacity, now)
      IN /\ other.reason = outcome.reason
         /\ other.allowed # outcome.allowed => outcome.reason = "over_budget"

\* An UPDATE is judged as if the pod were created anew among the other pods: a
\* pod that grows in steps gets no further than one created at its full size
\* (effective_request and check_budget together).
UpdateJudgedAsCreate ==
  Judged /\ review.operation = "UPDATE" =>
    LET others == [res \in Resource |->
                     allocation.status.allocated[res] - Typed(review).old[res]]
    IN Validate(CreateOf(review), [allocation EXCEPT !.status.allocated = others],
                capacity, now) = outcome

\* Pressure never opens the gate: with more allocated, lower ceilings and an
\* older stamp, a rejected review is still rejected.
PressureNeverAdmits ==
  Answered /\ ~outcome.allowed =>
    \A other \in AllocationsAt(now) \ {NULL} :
      /\ allocation # NULL /\ allocation.status # NULL
      /\ other.spec = allocation.spec /\ other.status # NULL
      /\ other.status.stamp = NULL
           \/ (allocation.status.stamp # NULL
                 /\ other.status.stamp <= allocation.status.stamp)
      /\ \A res \in Resource :
           /\ other.status.allocated[res] >= allocation.status.allocated[res]
           /\ other.status.ceiling[res] <= allocation.status.ceiling[res]
      => ~Validate(review, other, capacity, now).allowed

\* The code of an error names the side at fault (AdmissionError::status_code): a
\* review answered 500 gets another code once the caches hold what they lack,
\* and one answered 400 is not let in whatever else they hold under this policy.
BlameIsRight ==
  Answered /\ ~outcome.allowed =>
    LET SamePolicy == {object \in AllocationsAt(now) \ {NULL} :
                         allocation # NULL => object.spec = allocation.spec}
        Other(object, supply) == Validate(review, object, supply, now)
    IN /\ StatusCode(outcome.reason) = 500 =>
            \E object \in SamePolicy, supply \in Capacities :
              LET other == Other(object, supply)
              IN other.allowed \/ StatusCode(other.reason) # 500
       /\ StatusCode(outcome.reason) = 400 /\ allocation # NULL =>
            \A object \in SamePolicy, supply \in Capacities :
              ~Other(object, supply).allowed
=============================================================================
