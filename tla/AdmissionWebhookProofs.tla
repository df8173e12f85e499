----------------------- MODULE AdmissionWebhookProofs -----------------------
(***************************************************************************)
(* Theorems about the admission decision, for every review, every content  *)
(* of the caches and every time.                                           *)
(***************************************************************************)
EXTENDS AdmissionWebhook, CalendarProofs, SumProofs

\* The answer given is the decision on what is still there: nothing changes after
\* it (inductive).
AnswerStands ==
  /\ review \in Reviews
  /\ now \in Times
  /\ allocation \in AllocationsAt(now)
  /\ capacity \in Capacities
  /\ outcome # NULL => outcome = Validate(review, allocation, capacity, now)

LEMMA AnswerInit == Init => AnswerStands
BY DEF Init, AnswerStands

LEMMA AnswerStep == AnswerStands /\ [Next]_vars => AnswerStands'
BY DEF AnswerStands, Next, Answer, vars

LEMMA AlwaysStands == Spec => []AnswerStands
BY AnswerInit, AnswerStep, PTL DEF Spec

-----------------------------------------------------------------------------
(***************************************************************************)
(* What a pod asks for                                                     *)
(***************************************************************************)

Amounts(container, res) ==
  ContainerRequests(container, res) # NULL =>
    /\ Asked(container, res) \in Nat
    /\ ContainerRequests(container, res) = Smaller(Asked(container, res), MaxI64)

\* A container whose quantities parse asks for what they say, up to the i64 limit.
LEMMA ContainerAsks ==
  ASSUME NEW container, NEW res,
         \A asked \in {container.requests, container.limits} :
           \A r \in DOMAIN asked : asked[r] \in Quantity
  PROVE  Amounts(container, res) /\ ContainerRequests(container, res) \in Int \cup {NULL}
<1>1. ASSUME NEW quantity \in Quantity
      PROVE  /\ ParseQuantity(res, quantity) \in Int \cup {NULL}
             /\ ParseQuantity(res, quantity) # NULL =>
                  /\ quantity.amount \in Nat
                  /\ ParseQuantity(res, quantity) = Smaller(quantity.amount, MaxI64)
  BY MaxI64Assumption DEF Quantity, ParseQuantity, Smaller
<1>2. CASE res \in DOMAIN container.requests
  BY <1>1, <1>2 DEF Amounts, ContainerRequests, Asked
<1>3. CASE res \notin DOMAIN container.requests /\ res \in DOMAIN container.limits
  BY <1>1, <1>3 DEF Amounts, ContainerRequests, Asked
<1>4. CASE res \notin DOMAIN container.requests /\ res \notin DOMAIN container.limits
  BY <1>4, MaxI64Assumption DEF Amounts, ContainerRequests, Asked, Smaller
<1> QED
  BY <1>2, <1>3, <1>4

\* The two numbers that the request of a pod is the larger one of.
Running(pod, res) ==
  SumFunction([i \in DOMAIN pod.containers |-> ContainerRequests(pod.containers[i], res)])

Starting(pod, res) ==
  Max({0} \cup {ContainerRequests(container, res) : container \in Range(pod.initContainers)})

\* A pod that parses has containers that parse.
LEMMA ParsedPod ==
  ASSUME NEW pod, IsPodSpec(pod), ExtractPodRequests(pod) # NULL, NEW res \in Resource
  PROVE  /\ \A container \in Range(pod.containers) \cup Range(pod.initContainers) :
              /\ Amounts(container, res)
              /\ ContainerRequests(container, res) # NULL
              /\ ContainerRequests(container, res) \in Int
         /\ ExtractPodRequests(pod)[res]
              = Larger(WrapI64(Running(pod, res)), Starting(pod, res))
<1>1. ASSUME NEW container \in Range(pod.containers) \cup Range(pod.initContainers)
      PROVE  Amounts(container, res) /\ ContainerRequests(container, res) \in Int \cup {NULL}
  BY ContainerAsks DEF IsPodSpec
<1>2. ~ \E r \in Resource :
          \E container \in Range(pod.containers) \cup Range(pod.initContainers) :
            ContainerRequests(container, r) = NULL
  BY DEF ExtractPodRequests
<1>3. ExtractPodRequests(pod)
        = [r \in Resource |-> Larger(WrapI64(Running(pod, r)), Starting(pod, r))]
  BY <1>2, Zenon DEF ExtractPodRequests, Running, Starting
<1> QED
  BY <1>1, <1>2, <1>3

\* The containers of a pod are finitely many.
LEMMA Finitely ==
  ASSUME NEW containers, IsFiniteSet(DOMAIN containers)
  PROVE  IsFiniteSet(Range(containers)) /\ \A i \in DOMAIN containers : containers[i] \in Range(containers)
<1> DEFINE D == DOMAIN containers
<1>1. IsFiniteSet(D)
  OBVIOUS
<1> HIDE DEF D
<1>2. IsFiniteSet({containers[i] : i \in D})
  BY <1>1, ImageFinite
<1> QED
  BY <1>2 DEF Range, D

\* and so are the amounts that they ask for.
LEMMA AskedFinitely ==
  ASSUME NEW S, IsFiniteSet(S), NEW res
  PROVE  /\ IsFiniteSet({ContainerRequests(container, res) : container \in S})
         /\ IsFiniteSet({Asked(container, res) : container \in S})
<1> DEFINE f == [container \in S |-> ContainerRequests(container, res)]
           g == [container \in S |-> Asked(container, res)]
<1>1. /\ {f[container] : container \in S}
           = {ContainerRequests(container, res) : container \in S}
      /\ {g[container] : container \in S} = {Asked(container, res) : container \in S}
  OBVIOUS
<1> HIDE DEF f, g
<1>2. /\ IsFiniteSet({f[container] : container \in S})
      /\ IsFiniteSet({g[container] : container \in S})
  BY ImageFinite
<1> QED
  BY <1>1, <1>2

\* An i64 wraps to itself.
LEMMA WrapExact ==
  ASSUME NEW n \in Nat, n <= MaxI64
  PROVE  WrapI64(n) = n
BY MaxI64Assumption DEF WrapI64

\* The largest of the init containers.
LEMMA StartingIsMax ==
  ASSUME NEW S, IsFiniteSet(S), S \subseteq Int
  PROVE  /\ Max({0} \cup S) \in {0} \cup S
         /\ \A n \in {0} \cup S : n <= Max({0} \cup S)
         /\ Max({0} \cup S) \in Nat
<1>1. IsFiniteSet({0} \cup S)
  <2>1. {0} \cup S = S \cup {0}
    OBVIOUS
  <2> QED
    BY <2>1, FS_AddElement
<1>2. {0} \cup S \in SUBSET Int /\ {0} \cup S # {}
  OBVIOUS
<1>3. Max({0} \cup S) \in {0} \cup S /\ \A n \in {0} \cup S : n <= Max({0} \cup S)
  BY <1>1, <1>2, MaxOfFinite
<1>4. 0 <= Max({0} \cup S) /\ Max({0} \cup S) \in Int
  BY <1>2, <1>3
<1> QED
  BY <1>3, <1>4

\* What a pod asks for is an integer for each resource, whatever wraps.
LEMMA ExtractType ==
  ASSUME NEW pod, IsPodSpec(pod)
  PROVE  ExtractPodRequests(pod) \in [Resource -> Int] \cup {NULL}
<1> SUFFICES ASSUME ExtractPodRequests(pod) # NULL
             PROVE  ExtractPodRequests(pod) \in [Resource -> Int]
  OBVIOUS
<1>1. ASSUME NEW res \in Resource PROVE ExtractPodRequests(pod)[res] \in Int
  <2> DEFINE f == [i \in DOMAIN pod.containers |-> ContainerRequests(pod.containers[i], res)]
             S == {ContainerRequests(container, res) : container \in Range(pod.initContainers)}
  <2>1. /\ \A container \in Range(pod.containers) \cup Range(pod.initContainers) :
             ContainerRequests(container, res) \in Int
        /\ ExtractPodRequests(pod)[res] = Larger(WrapI64(Running(pod, res)), Starting(pod, res))
    BY ParsedPod
  <2>2. IsFiniteSet(DOMAIN pod.containers) /\ IsFiniteSet(DOMAIN pod.initContainers)
    BY DEF IsPodSpec
  <2>3. \A i \in DOMAIN pod.containers : f[i] \in Int
    BY <2>1, <2>2, Finitely
  <2>4. IsFiniteSet(S) /\ S \subseteq Int
    BY <2>1, <2>2, Finitely, AskedFinitely
  <2>5. Running(pod, res) = SumFunctionOnSet(f, DOMAIN pod.containers)
    BY DEF Running, SumFunction
  <2>6. Starting(pod, res) = Max({0} \cup S)
    BY DEF Starting
  <2> HIDE DEF f, S
  <2>7. Running(pod, res) \in Int
    BY <2>2, <2>3, <2>5, SumType
  <2>8. Starting(pod, res) \in Nat
    BY <2>4, <2>6, StartingIsMax
  <2> QED
    BY <2>1, <2>7, <2>8, MaxI64Assumption DEF Larger, WrapI64
<1>2. DOMAIN ExtractPodRequests(pod) = Resource
      /\ ExtractPodRequests(pod) = [res \in DOMAIN ExtractPodRequests(pod) |->
                                       ExtractPodRequests(pod)[res]]
  BY DEF ExtractPodRequests
<1> QED
  BY <1>1, <1>2

\* As long as what Kubernetes reserves for a pod fits an i64, the code charges
\* exactly that.
LEMMA ExtractExact ==
  ASSUME NEW pod, pod # NULL, IsPodSpec(pod), ExtractPodRequests(pod) # NULL,
         NEW res \in Resource, Need(pod, res) <= MaxI64
  PROVE  ExtractPodRequests(pod)[res] = Need(pod, res) /\ Need(pod, res) \in Int
<1> DEFINE C == Range(pod.containers) \cup Range(pod.initContainers)
           f == [i \in DOMAIN pod.containers |-> ContainerRequests(pod.containers[i], res)]
           g == [i \in DOMAIN pod.containers |-> Asked(pod.containers[i], res)]
           S == {ContainerRequests(container, res) : container \in Range(pod.initContainers)}
           T == {Asked(container, res) : container \in Range(pod.initContainers)}
<1>1. /\ \A container \in C : /\ Asked(container, res) \in Nat
                              /\ ContainerRequests(container, res)
                                   = Smaller(Asked(container, res), MaxI64)
      /\ ExtractPodRequests(pod)[res] = Larger(WrapI64(Running(pod, res)), Starting(pod, res))
  BY ParsedPod DEF Amounts
<1>2. /\ IsFiniteSet(DOMAIN pod.containers) /\ IsFiniteSet(Range(pod.initContainers))
      /\ \A i \in DOMAIN pod.containers : pod.containers[i] \in C
  BY Finitely DEF IsPodSpec
<1>3. Running(pod, res) = SumFunctionOnSet(f, DOMAIN pod.containers)
  BY DEF Running, SumFunction
<1>4. Starting(pod, res) = Max({0} \cup S)
  BY DEF Starting
<1>5. Need(pod, res) = Larger(SumFunctionOnSet(g, DOMAIN pod.containers), Max({0} \cup T))
  BY DEF Need, SumFunction
<1>6. \A i \in DOMAIN pod.containers : g[i] \in Nat /\ f[i] = Smaller(g[i], MaxI64)
  BY <1>1, <1>2
<1>7. IsFiniteSet(T) /\ T \subseteq Int
  <2>1. IsFiniteSet(T)
    BY <1>2, AskedFinitely
  <2> QED
    BY <1>1, <2>1
<1>8. SumFunctionOnSet(g, DOMAIN pod.containers) \in Nat
  <2> HIDE DEF g
  <2> QED
    BY <1>2, <1>6, SumOfNaturals
<1>9. /\ Max({0} \cup T) \in Nat /\ \A n \in T : n <= Max({0} \cup T)
  <2> HIDE DEF T
  <2> QED
    BY <1>7, StartingIsMax
<1>10. /\ SumFunctionOnSet(g, DOMAIN pod.containers) <= MaxI64
       /\ Max({0} \cup T) <= MaxI64
  <2> HIDE DEF T, g
  <2> QED
    BY <1>5, <1>8, <1>9, MaxI64Assumption DEF Larger
<1>11. SumFunctionOnSet(f, DOMAIN pod.containers) = SumFunctionOnSet(g, DOMAIN pod.containers)
  <2>1. ASSUME NEW i \in DOMAIN pod.containers PROVE f[i] = g[i] /\ f[i] \in Int
    <3> HIDE DEF f, g
    <3>1. g[i] <= SumFunctionOnSet(g, DOMAIN pod.containers)
      BY <1>2, <1>6, SummandAtMost
    <3> QED
      BY <1>6, <1>8, <1>10, <3>1, MaxI64Assumption DEF Smaller
  <2> HIDE DEF f, g
  <2> QED
    BY <1>2, <2>1, SumAgree
<1>12. S = T
  <2>1. ASSUME NEW container \in Range(pod.initContainers)
        PROVE  ContainerRequests(container, res) = Asked(container, res)
    <3>1. Asked(container, res) <= Max({0} \cup T)
      BY <1>9
    <3> QED
      BY <1>1, <1>9, <1>10, <3>1, MaxI64Assumption DEF Smaller
  <2> QED
    BY <2>1
<1> HIDE DEF f, g, S, T
<1>13. WrapI64(Running(pod, res)) = SumFunctionOnSet(g, DOMAIN pod.containers)
  BY <1>3, <1>8, <1>10, <1>11, WrapExact
<1> QED
  BY <1>1, <1>4, <1>5, <1>8, <1>9, <1>12, <1>13 DEF Larger

-----------------------------------------------------------------------------
(***************************************************************************)
(* The decision                                                            *)
(***************************************************************************)

\* A silent admission has passed every early return of evaluate.
LEMMA AllowedSilently ==
  ASSUME NEW request, NEW object, NEW supply, NEW time,
         Evaluate(request, object, supply, time).verdict = "allow"
  PROVE  /\ object # NULL /\ object.status # NULL /\ supply # NULL
         /\ ~IsStale(object.status.stamp, time)
         /\ ~Unparseable(request)
         /\ CheckBudget(object.status.allocated, EffectiveRequest(request),
                        object.status.ceiling) = {}
BY DEF Evaluate, Reject, Exempted, BudgetOutcome

\* The stamp is read back as it was written, so the decision sees the object as
\* the controller wrote it.
LEMMA DeliveredIntact ==
  ASSUME NEW object \in AllocationObject \cup {NULL}
  PROVE  Delivered(object) = object
<1>1. CASE object = NULL \/ object.status = NULL \/ object.status.stamp = NULL
  BY <1>1 DEF Delivered
<1>2. CASE object # NULL /\ object.status # NULL /\ object.status.stamp # NULL
  <2>1. object \in AllocationObject
    BY <1>2
  <2>2. object.status.stamp \in Second
    BY <1>2, <2>1 DEF AllocationObject, Status
  <2>3. ParseRfc3339(Rfc3339FromUnix(object.status.stamp)) = object.status.stamp
    BY <2>2, StampRoundTrip DEF Second
  <2>4. [object EXCEPT !.status.stamp = object.status.stamp] = object
    BY <1>2, <2>1 DEF AllocationObject, Status
  <2> QED
    BY <1>2, <2>3, <2>4 DEF Delivered
<1> QED
  BY <1>1, <1>2

\* What the decision reads in a review is a request.
LEMMA TypedIsRequest ==
  ASSUME NEW body, body # NULL, body.operation \in Operation, body.namespace \in STRING,
         \A pod \in {body.object, body.oldObject} \ {NULL} : IsPodSpec(pod)
  PROVE  Typed(body) \in Request
<1>1. \A pod \in {body.object, body.oldObject} : PodRequest(pod) \in [Resource -> Int] \cup {NULL}
  BY ExtractType DEF PodRequest, Zero
<1>2. (IF body.object = NULL THEN NULL ELSE body.object.class) \in STRING \cup {NULL}
  BY DEF IsPodSpec
<1> QED
  BY <1>1, <1>2 DEF Typed, Request

\* What a request that parses asks for is an integer per resource.
LEMMA AskedType ==
  ASSUME NEW request \in Request, ~Unparseable(request)
  PROVE  /\ request.new \in [Resource -> Int]
         /\ request.operation = "UPDATE" => request.old \in [Resource -> Int]
         /\ EffectiveRequest(request) \in [Resource -> Int]
BY DEF Request, Unparseable, EffectiveRequest

\* A projection that stays within a ceiling below the i64 limit has not saturated.
LEMMA ExactBelowLimit ==
  ASSUME NEW a \in Int, NEW b \in Int, NEW ceiling \in Int,
         SaturatingAdd(a, b) <= ceiling, ceiling < MaxI64
  PROVE  a + b <= ceiling
BY MaxI64Assumption DEF SaturatingAdd, Clamp, Larger, Smaller

\* The answer is that of handle on objects as they were written.
LEMMA AnswerIsDecision ==
  ASSUME AnswerStands, Answered
  PROVE  /\ allocation \in AllocationObject \cup {NULL}
         /\ outcome = Handle(Typed(review), allocation, capacity, now)
         /\ review # NULL => /\ Typed(review) \in Request
                              /\ outcome = Evaluate(Typed(review), allocation, capacity, now)
         /\ review = NULL => outcome = Reject("deserialisation_failure")
<1>1. allocation \in AllocationObject \cup {NULL}
  BY AllocationsAssumption DEF AnswerStands
<1>2. outcome = Handle(Typed(review), allocation, capacity, now)
  BY <1>1, DeliveredIntact DEF AnswerStands, Answered, Validate
<1>3. review # NULL => Typed(review) \in Request /\ Typed(review) # NULL
  BY ReviewsAssumption, NullApartAssumption, TypedIsRequest DEF AnswerStands
<1> QED
  BY <1>1, <1>2, <1>3 DEF Handle, Typed

\* A silent admission rests on figures that are there, parsed, fresh and within the
\* ceilings.
LEMMA VerifiedWhenSilent == AnswerStands => AdmitsOnlyVerified
<1> SUFFICES ASSUME AnswerStands, Silently
             PROVE  AdmitsOnlyVerified
  BY DEF AdmitsOnlyVerified
<1> DEFINE request == Typed(review)
<1>1. /\ review # NULL
      /\ allocation \in AllocationObject \cup {NULL}
      /\ request \in Request
      /\ Evaluate(request, allocation, capacity, now).verdict = "allow"
  BY AnswerIsDecision DEF Silently, Answered, Reject
<1>2. /\ allocation # NULL /\ allocation.status # NULL /\ capacity # NULL
      /\ ~IsStale(allocation.status.stamp, now)
      /\ ~Unparseable(request)
      /\ CheckBudget(allocation.status.allocated, EffectiveRequest(request),
                     allocation.status.ceiling) = {}
  BY <1>1, AllowedSilently
<1>3. allocation.status \in Status
  BY <1>1, <1>2 DEF AllocationObject
<1>4. allocation.status.stamp \in Int /\ allocation.status.stamp # NULL
  BY <1>2, <1>3 DEF IsStale, Second, Status
<1>5. now \in Int
  BY TimesAssumption DEF AnswerStands, Second
<1>6. now <= allocation.status.stamp + FreshnessTimeout
  BY <1>2, <1>4, <1>5, FreshnessAssumption DEF IsStale, Age, Larger
<1>7. EffectiveRequest(request) \in [Resource -> Int]
  BY <1>1, <1>2, AskedType
<1>8. ASSUME NEW res \in Resource, allocation.status.ceiling[res] < MaxI64
      PROVE  allocation.status.allocated[res] + EffectiveRequest(request)[res]
               <= allocation.status.ceiling[res]
  <2>1. /\ allocation.status.allocated[res] \in Int
        /\ EffectiveRequest(request)[res] \in Int
        /\ allocation.status.ceiling[res] \in Int
    BY <1>3, <1>7 DEF Status
  <2>2. SaturatingAdd(allocation.status.allocated[res], EffectiveRequest(request)[res])
          \in Int
    BY <2>1, MaxI64Assumption DEF SaturatingAdd, Clamp, Larger, Smaller
  <2>3. SaturatingAdd(allocation.status.allocated[res], EffectiveRequest(request)[res])
          <= allocation.status.ceiling[res]
    BY <1>2, <2>1, <2>2 DEF CheckBudget
  <2> QED
    BY <1>8, <2>1, <2>3, ExactBelowLimit
<1> QED
  BY <1>1, <1>2, <1>4, <1>6, <1>8 DEF AdmitsOnlyVerified

-----------------------------------------------------------------------------
(***************************************************************************)
(* Theorems                                                                *)
(***************************************************************************)

\* A pod is let in silently only on figures that are there, parsed and fresh, and
\* only within the ceilings, for every review and every content of the caches.
THEOREM OnlyVerified == Spec => []AdmitsOnlyVerified
BY VerifiedWhenSilent, AlwaysStands, PTL

\* A pod let in silently fits with all that its containers ask for, as Kubernetes
\* counts it, wherever the exact numbers are i64s.
THEOREM PodFits == Spec => []AdmittedPodFits
<1>1. AnswerStands => AdmittedPodFits
  <2> SUFFICES ASSUME AnswerStands, Silently, NEW res \in Resource
               PROVE  LET new == Need(review.object, res)
                          old == IF review.operation = "UPDATE"
                                 THEN Need(review.oldObject, res) ELSE 0
                      IN new <= MaxI64 /\ old <= MaxI64
                           /\ allocation.status.ceiling[res] < MaxI64 =>
                           allocation.status.allocated[res] + new - old
                             <= allocation.status.ceiling[res]
    BY DEF AdmittedPodFits
  <2> DEFINE new == Need(review.object, res)
             old == IF review.operation = "UPDATE" THEN Need(review.oldObject, res) ELSE 0
             request == Typed(review)
  <2> SUFFICES ASSUME new <= MaxI64, old <= MaxI64,
                      allocation.status.ceiling[res] < MaxI64
               PROVE  allocation.status.allocated[res] + new - old
                        <= allocation.status.ceiling[res]
    OBVIOUS
  <2>1. /\ review # NULL /\ allocation # NULL /\ allocation.status # NULL
        /\ ~Unparseable(request)
        /\ allocation.status.allocated[res] + EffectiveRequest(request)[res]
             <= allocation.status.ceiling[res]
    BY VerifiedWhenSilent DEF AdmitsOnlyVerified
  <2>2. request = [operation |-> review.operation, namespace |-> review.namespace,
                   class |-> IF review.object = NULL THEN NULL ELSE review.object.class,
                   new |-> PodRequest(review.object), old |-> PodRequest(review.oldObject)]
    BY <2>1 DEF Typed
  <2>3. \A pod \in {review.object, review.oldObject} \ {NULL} : IsPodSpec(pod)
    BY <2>1, ReviewsAssumption DEF AnswerStands
  <2> HIDE DEF request
  <2>4. ASSUME NEW pod \in {review.object, review.oldObject}, PodRequest(pod) # NULL,
               Need(pod, res) <= MaxI64
        PROVE  PodRequest(pod)[res] = Need(pod, res) /\ Need(pod, res) \in Int
    <3>1. CASE pod = NULL
      BY <3>1 DEF PodRequest, Zero, Need
    <3>2. CASE pod # NULL
      BY <2>3, <2>4, <3>2, ExtractExact DEF PodRequest
    <3> QED
      BY <3>1, <3>2
  <2>5. request.new[res] = new /\ new \in Int
    BY <2>1, <2>2, <2>4 DEF Unparseable
  <2>6. EffectiveRequest(request)[res] = new - old /\ old \in Int
    <3>1. CASE review.operation = "UPDATE"
      <4>1. request.old[res] = old /\ old \in Int
        BY <2>1, <2>2, <2>4, <3>1 DEF Unparseable
      <4> HIDE DEF new, old
      <4> QED
        BY <2>2, <2>5, <3>1, <4>1 DEF EffectiveRequest
    <3>2. CASE review.operation # "UPDATE"
      <4>1. old = 0
        BY <3>2
      <4> HIDE DEF new, old
      <4> QED
        BY <2>2, <2>5, <3>2, <4>1 DEF EffectiveRequest
    <3> QED
      BY <3>1, <3>2
  <2>7. allocation.status.allocated[res] \in Int
    BY <2>1, AllocationsAssumption DEF AnswerStands, AllocationObject, Status
  <2> HIDE DEF new, old
  <2>8. allocation.status.allocated[res] + (new - old)
          = allocation.status.allocated[res] + new - old
    BY <2>5, <2>6, <2>7
  <2> QED
    BY <2>1, <2>6, <2>8
<1> QED
  BY <1>1, AlwaysStands, PTL

\* dry-run softens over-budget denials and nothing else.
THEOREM OnlyBudgetSoftens == Spec => []ModeOnlySoftensBudget
<1>1. AnswerStands => ModeOnlySoftensBudget
  <2> SUFFICES ASSUME AnswerStands, Answered, allocation # NULL,
                      NEW mode \in {"enforce", "dry-run"}
               PROVE  LET other == Validate(review, [allocation EXCEPT !.spec.mode = mode],
                                            capacity, now)
                      IN /\ other.reason = outcome.reason
                         /\ other.allowed # outcome.allowed => outcome.reason = "over_budget"
    BY DEF ModeOnlySoftensBudget
  <2> DEFINE object == [allocation EXCEPT !.spec.mode = mode]
             other  == Validate(review, object, capacity, now)
  <2>1. allocation \in AllocationObject
    BY AnswerIsDecision
  <2>2. /\ object \in AllocationObject
        /\ object.status = allocation.status
        /\ object.spec.namespaces = allocation.spec.namespaces
        /\ object.spec.classes = allocation.spec.classes
    BY <2>1 DEF AllocationObject, Policy
  <2>3. object # NULL
    BY <2>2, NullApartAssumption
  <2> HIDE DEF object
  <2>4. other = Handle(Typed(review), object, capacity, now)
    BY <2>2, DeliveredIntact DEF Validate
  <2>5. CASE review = NULL
    BY <2>4, <2>5, AnswerIsDecision DEF Handle, Typed, Reject, object
  <2>6. CASE review # NULL
    <3>1. outcome = Evaluate(Typed(review), allocation, capacity, now)
      BY <2>6, AnswerIsDecision
    <3>2. other = Evaluate(Typed(review), object, capacity, now)
      BY <2>4, <2>6, AnswerIsDecision, NullApartAssumption DEF Handle
    <3>3. CheckExemption(Typed(review), object.spec)
            = CheckExemption(Typed(review), allocation.spec)
      BY <2>2 DEF CheckExemption
    <3> HIDE DEF other
    <3>4. /\ other.reason = outcome.reason
          /\ other.allowed # outcome.allowed => outcome.reason = "over_budget"
      BY <2>2, <2>3, <3>1, <3>2, <3>3
      DEF Evaluate, Reject, Exempted, BudgetOutcome
    <3> QED
      BY <3>4 DEF other, object
  <2> QED
    BY <2>5, <2>6 DEF object
<1> QED
  BY <1>1, AlwaysStands, PTL

\* A pod that grows in steps gets no further than one created at its full size.
THEOREM UpdateAsCreate == Spec => []UpdateJudgedAsCreate
<1>1. AnswerStands => UpdateJudgedAsCreate
  <2> SUFFICES ASSUME AnswerStands, Judged, review.operation = "UPDATE"
               PROVE  LET others == [res \in Resource |->
                                       allocation.status.allocated[res] - Typed(review).old[res]]
                      IN Validate(CreateOf(review),
                                  [allocation EXCEPT !.status.allocated = others],
                                  capacity, now) = outcome
    BY DEF UpdateJudgedAsCreate
  <2> DEFINE request == Typed(review)
             create  == Typed(CreateOf(review))
             others  == [res \in Resource |-> allocation.status.allocated[res] - request.old[res]]
             object  == [allocation EXCEPT !.status.allocated = others]
  <2>1. /\ review # NULL
        /\ request \in Request
        /\ allocation \in AllocationObject \cup {NULL}
        /\ outcome = Evaluate(request, allocation, capacity, now)
    BY AnswerIsDecision DEF Judged, Reject
  <2>2. /\ allocation # NULL /\ allocation.status # NULL /\ capacity # NULL
        /\ CheckExemption(request, allocation.spec) = NULL
        /\ ~IsStale(allocation.status.stamp, now)
        /\ ~Unparseable(request)
        /\ outcome = BudgetOutcome(
             CheckBudget(allocation.status.allocated, EffectiveRequest(request),
                         allocation.status.ceiling),
             ResolveEnforcementMode(allocation.spec.mode))
    BY <2>1 DEF Judged, Evaluate, Reject, Exempted
  <2>3. /\ request.operation = "UPDATE" /\ create.operation = "CREATE"
        /\ create.namespace = request.namespace /\ create.class = request.class
        /\ create.new = request.new
        /\ create \in Request /\ create # NULL
    <3>1. create \in Request /\ CreateOf(review) # NULL
      <4> DEFINE body == CreateOf(review)
      <4>1. body # NULL
        BY <2>1, NullApartAssumption DEF AnswerStands
      <4>2. /\ body.operation \in Operation /\ body.namespace \in STRING
            /\ \A pod \in {body.object, body.oldObject} \ {NULL} : IsPodSpec(pod)
        <5>1. body.operation = "CREATE" /\ body.namespace = review.namespace
              /\ body.object = review.object /\ body.oldObject = NULL
          BY DEF CreateOf
        <5> HIDE DEF body
        <5>2. review \in Reviews \ {NULL}
          BY <2>1 DEF AnswerStands
        <5>3. /\ review.operation \in Operation /\ review.namespace \in STRING
              /\ \A pod \in {review.object, review.oldObject} \ {NULL} : IsPodSpec(pod)
          BY <5>2, ReviewsAssumption
        <5>4. body.operation \in Operation /\ body.namespace \in STRING
          BY <5>1, <5>3 DEF Operation
        <5>5. ASSUME NEW pod \in {body.object, body.oldObject} \ {NULL} PROVE IsPodSpec(pod)
          <6>1. pod \in {review.object, review.oldObject} \ {NULL}
            BY <5>1
          <6> QED
            BY <5>3, <6>1
        <5> QED
          BY <5>4, <5>5
      <4> HIDE DEF body
      <4> QED
        BY <4>1, <4>2, TypedIsRequest DEF body
    <3>2. create = [operation |-> "CREATE", namespace |-> review.namespace,
                    class |-> IF review.object = NULL THEN NULL ELSE review.object.class,
                    new |-> PodRequest(review.object), old |-> PodRequest(NULL)]
      BY <3>1 DEF Typed, CreateOf
    <3>3. request = [operation |-> review.operation, namespace |-> review.namespace,
                     class |-> IF review.object = NULL THEN NULL ELSE review.object.class,
                     new |-> PodRequest(review.object), old |-> PodRequest(review.oldObject)]
      BY <2>1 DEF Typed
    <3> HIDE DEF create, request
    <3> QED
      BY <3>1, <3>2, <3>3, NullApartAssumption
  <2>4. /\ allocation.status \in Status /\ allocation \in AllocationObject
        /\ request.new \in [Resource -> Int] /\ request.old \in [Resource -> Int]
    BY <2>1, <2>2, <2>3, AskedType DEF AllocationObject
  <2> HIDE DEF request, create
  <2>5. others \in [Resource -> Int]
    BY <2>4 DEF Status
  <2> HIDE DEF others
  <2>6. /\ object \in AllocationObject
        /\ object.spec = allocation.spec
        /\ object.status \in Status
        /\ object.status.stamp = allocation.status.stamp
        /\ object.status.ceiling = allocation.status.ceiling
        /\ object.status.allocated = others
    BY <2>4, <2>5 DEF AllocationObject, Status
  <2>7. object # NULL /\ object.status # NULL
    BY <2>6, NullApartAssumption
  <2> HIDE DEF object
  <2>8. Validate(CreateOf(review), object, capacity, now)
          = Evaluate(create, object, capacity, now)
    BY <2>3, <2>6, DeliveredIntact DEF Validate, Handle, create
  <2>9. ~Unparseable(create)
    BY <2>2, <2>3 DEF Unparseable
  <2>10. CheckExemption(create, object.spec) = NULL
    BY <2>2, <2>3, <2>6 DEF CheckExemption
  <2>11. CheckBudget(others, EffectiveRequest(create), allocation.status.ceiling)
           = CheckBudget(allocation.status.allocated, EffectiveRequest(request),
                         allocation.status.ceiling)
    <3>1. ASSUME NEW res \in Resource
          PROVE  SaturatingAdd(others[res], EffectiveRequest(create)[res])
                   = SaturatingAdd(allocation.status.allocated[res],
                                   EffectiveRequest(request)[res])
      <4>1. /\ allocation.status.allocated[res] \in Int
            /\ request.new[res] \in Int /\ request.old[res] \in Int
        BY <2>4 DEF Status
      <4>2. /\ EffectiveRequest(create)[res] = request.new[res]
            /\ EffectiveRequest(request)[res] = request.new[res] - request.old[res]
            /\ others[res] = allocation.status.allocated[res] - request.old[res]
        BY <2>3 DEF EffectiveRequest, others
      <4>3. others[res] + EffectiveRequest(create)[res]
              = allocation.status.allocated[res] + EffectiveRequest(request)[res]
        BY <4>1, <4>2
      <4> QED
        BY <4>3 DEF SaturatingAdd
    <3> QED
      BY <3>1 DEF CheckBudget
  <2>12. Evaluate(create, object, capacity, now) = outcome
    BY <2>2, <2>6, <2>7, <2>9, <2>10, <2>11 DEF Evaluate
  <2> QED
    BY <2>8, <2>12 DEF object, others, request
<1> QED
  BY <1>1, AlwaysStands, PTL

\* With more allocated, lower ceilings and an older stamp, a rejected review is
\* still rejected, i64 saturation included.
THEOREM PressureRejects == Spec => []PressureNeverAdmits
<1>1. AnswerStands => PressureNeverAdmits
  <2> SUFFICES ASSUME AnswerStands, Answered, ~outcome.allowed,
                      NEW other \in AllocationsAt(now) \ {NULL},
                      allocation # NULL /\ allocation.status # NULL,
                      other.spec = allocation.spec /\ other.status # NULL,
                      \/ other.status.stamp = NULL
                      \/ /\ allocation.status.stamp # NULL
                         /\ other.status.stamp <= allocation.status.stamp,
                      \A res \in Resource :
                        /\ other.status.allocated[res] >= allocation.status.allocated[res]
                        /\ other.status.ceiling[res] <= allocation.status.ceiling[res]
               PROVE  ~Validate(review, other, capacity, now).allowed
    BY DEF PressureNeverAdmits
  <2>1. other \in AllocationObject
    BY AllocationsAssumption DEF AnswerStands
  <2>2. other.status \in Status /\ allocation.status \in Status
    BY <2>1, AnswerIsDecision DEF AllocationObject
  <2>3. Validate(review, other, capacity, now) = Handle(Typed(review), other, capacity, now)
    BY <2>1, DeliveredIntact DEF Validate
  <2>4. CASE review = NULL
    BY <2>3, <2>4 DEF Handle, Typed, Reject
  <2>5. CASE review # NULL
    <3> DEFINE request == Typed(review)
    <3>1. request \in Request /\ outcome = Evaluate(request, allocation, capacity, now)
      BY <2>5, AnswerIsDecision
    <3>2. Validate(review, other, capacity, now) = Evaluate(request, other, capacity, now)
      BY <2>3, <3>1, NullApartAssumption DEF Handle
    <3> HIDE DEF request
    <3>3. CheckExemption(request, allocation.spec) = NULL
      BY <3>1 DEF Evaluate, Exempted
    <3>4. IsStale(allocation.status.stamp, now) => IsStale(other.status.stamp, now)
      <4>1. now \in Int
        BY TimesAssumption DEF AnswerStands, Second
      <4>2. allocation.status.stamp \in Int \cup {NULL} /\ other.status.stamp \in Int \cup {NULL}
        BY <2>2 DEF Status, Second
      <4> QED
        BY <4>1, <4>2, FreshnessAssumption DEF IsStale, Age, Larger
    <3>5. CASE IsStale(allocation.status.stamp, now) \/ capacity = NULL \/ Unparseable(request)
      BY <3>2, <3>3, <3>4, <3>5 DEF Evaluate, Reject
    <3>6. CASE ~IsStale(allocation.status.stamp, now) /\ capacity # NULL /\ ~Unparseable(request)
      <4> DEFINE over(status) == CheckBudget(status.allocated, EffectiveRequest(request),
                                             status.ceiling)
      <4>1. outcome = BudgetOutcome(over(allocation.status),
                                    ResolveEnforcementMode(allocation.spec.mode))
        BY <3>1, <3>3, <3>6 DEF Evaluate
      <4>2. over(allocation.status) # {} /\ ResolveEnforcementMode(allocation.spec.mode) # "dry-run"
        BY <4>1 DEF BudgetOutcome
      <4>3. PICK res \in Resource : res \in over(allocation.status)
        BY <4>2 DEF CheckBudget
      <4>4. /\ allocation.status.allocated[res] \in Int /\ allocation.status.ceiling[res] \in Int
            /\ other.status.allocated[res] \in Int /\ other.status.ceiling[res] \in Int
            /\ EffectiveRequest(request)[res] \in Int
        BY <2>2, <3>1, <3>6, AskedType DEF Status
      <4>5. SaturatingAdd(allocation.status.allocated[res], EffectiveRequest(request)[res])
              > allocation.status.ceiling[res]
        BY <4>3 DEF CheckBudget
      <4>6. SaturatingAdd(other.status.allocated[res], EffectiveRequest(request)[res])
              > other.status.ceiling[res]
        BY <4>4, <4>5, MaxI64Assumption DEF SaturatingAdd, Clamp, Larger, Smaller
      <4>7. res \in over(other.status)
        BY <4>6 DEF CheckBudget
      <4>8. over(other.status) # {}
        BY <4>7
      <4> HIDE DEF over
      <4>9. ~BudgetOutcome(over(other.status), ResolveEnforcementMode(other.spec.mode)).allowed
        BY <4>2, <4>8 DEF BudgetOutcome
      <4> QED
        BY <3>2, <3>3, <3>6, <4>9 DEF Evaluate, Reject, over
    <3> QED
      BY <3>5, <3>6
  <2> QED
    BY <2>4, <2>5
<1> QED
  BY <1>1, AlwaysStands, PTL

\* A review answered 500 is one that the caches could settle, and one answered 400 is
\* let in under no content of the caches, unless the policy exempts it.
THEOREM RightToBlame == Spec => []BlameIsRight
<1>1. AnswerStands => BlameIsRight
  <2> SUFFICES ASSUME AnswerStands, Answered, ~outcome.allowed PROVE BlameIsRight
    BY DEF BlameIsRight
  <2> DEFINE request == Typed(review)
             SamePolicy == {object \in AllocationsAt(now) \ {NULL} :
                              allocation # NULL => object.spec = allocation.spec}
             Other(object, supply) == Validate(review, object, supply, now)
  <2>1. now \in Times
    BY DEF AnswerStands
  <2>2. \A object \in SamePolicy : \A supply :
          /\ Other(object, supply) = Handle(request, object, supply, now)
          /\ review # NULL => Other(object, supply) = Evaluate(request, object, supply, now)
    <3>1. \A object \in SamePolicy : object \in AllocationObject
      BY <2>1, AllocationsAssumption
    <3>2. review # NULL => request # NULL
      BY AnswerIsDecision, NullApartAssumption
    <3> QED
      BY <3>1, <3>2, DeliveredIntact DEF Validate, Handle
  <2>3. CASE review = NULL
    <3>1. outcome = Reject("deserialisation_failure")
      BY <2>3, AnswerIsDecision
    <3>2. \A object \in SamePolicy : \A supply : ~Other(object, supply).allowed
      BY <2>2, <2>3 DEF Handle, Typed, Reject
    <3> QED
      BY <3>1, <3>2 DEF BlameIsRight, StatusCode, Reject
  <2>4. CASE review # NULL
    <3>1. outcome = Evaluate(request, allocation, capacity, now)
      BY <2>4, AnswerIsDecision
    <3>2. StatusCode(outcome.reason) = 500 =>
            \E object \in SamePolicy, supply \in Capacities :
              Other(object, supply).allowed \/ StatusCode(Other(object, supply).reason) # 500
      <4>1. \E object \in SamePolicy :
              object.status # NULL /\ ~IsStale(object.status.stamp, now)
        <5>1. CASE allocation = NULL
          BY <2>1, <5>1, CachesAssumption
        <5>2. CASE allocation # NULL
          BY <2>1, <5>2, CachesAssumption DEF AnswerStands
        <5> QED
          BY <5>1, <5>2
      <4>2. PICK object \in SamePolicy :
              object.status # NULL /\ ~IsStale(object.status.stamp, now)
        BY <4>1
      <4>3. PICK supply \in Capacities \ {NULL} : TRUE
        BY CachesAssumption
      <4> DEFINE other == Other(object, supply)
      <4>4. other = Evaluate(request, object, supply, now) /\ object # NULL
        BY <2>2, <2>4
      <4> HIDE DEF other
      <4>5. other.allowed \/ other.reason \in {"quantity_parse_failure", "over_budget"}
        BY <4>2, <4>3, <4>4 DEF Evaluate, Reject, Exempted, BudgetOutcome
      <4>6. other.allowed \/ StatusCode(other.reason) # 500
        BY <4>5 DEF StatusCode
      <4> QED
        BY <4>2, <4>3, <4>6 DEF other
    <3>3. ASSUME StatusCode(outcome.reason) = 400, allocation # NULL,
                 NEW object \in SamePolicy, NEW supply
          PROVE  ~Other(object, supply).allowed
      <4>1. CheckExemption(request, allocation.spec) = NULL /\ Unparseable(request)
        BY <3>1, <3>3 DEF StatusCode, Evaluate, Reject, Exempted, BudgetOutcome
      <4>2. object.spec = allocation.spec
        BY <3>3
      <4> QED
        BY <2>2, <2>4, <4>1, <4>2 DEF Evaluate, Reject
    <3> HIDE DEF Other, SamePolicy
    <3>4. BlameIsRight <=>
            /\ StatusCode(outcome.reason) = 500 =>
                 \E object \in SamePolicy, supply \in Capacities :
                   Other(object, supply).allowed \/ StatusCode(Other(object, supply).reason) # 500
            /\ StatusCode(outcome.reason) = 400 /\ allocation # NULL =>
                 \A object \in SamePolicy, supply \in Capacities : ~Other(object, supply).allowed
      BY DEF BlameIsRight, Other, SamePolicy
    <3> QED
      BY <3>2, <3>3, <3>4
  <2> QED
    BY <2>3, <2>4
<1> QED
  BY <1>1, AlwaysStands, PTL
=============================================================================
