----------------------------- MODULE PodRequests -----------------------------
(***************************************************************************)
(* What a pod asks for, from the quantities in its specification.          *)
(*                                                                         *)
(* container   [requests, limits], each a function from the resources it   *)
(*             mentions to a quantity                                      *)
(* quantity    NULL when the text is no number with a known suffix, else   *)
(*             [amount, plain]: its value in milli-CPUs or bytes, rounded, *)
(*             and whether it is written as digits only                    *)
(* pod spec    [class, containers, initContainers], the last two sequences *)
(***************************************************************************)
EXTENDS Budget, FiniteSetsExt

Quantity == [amount: Int, plain: BOOLEAN] \cup {NULL}

\* A pod specification as it comes out of the parser.
IsPodSpec(pod) ==
  /\ pod.class \in STRING \cup {NULL}
  /\ \A containers \in {pod.containers, pod.initContainers} :
       /\ IsFiniteSet(DOMAIN containers)
       /\ \A container \in Range(containers) :
            \A asked \in {container.requests, container.limits} :
              \A res \in DOMAIN asked : asked[res] \in Quantity

\* Two's complement at the width of i64.
WrapI64(n) == ((n + MaxI64 + 1) % (2 * (MaxI64 + 1))) - MaxI64 - 1

\* parse_cpu and parse_memory go through f64 and saturate; bytes written as
\* digits only are parsed as an i64, which a larger number does not fit.
ParseQuantity(res, quantity) ==
  IF quantity = NULL THEN NULL
  ELSE IF quantity.amount < 0 THEN NULL
  ELSE IF res = "memory" /\ quantity.plain /\ quantity.amount > MaxI64 THEN NULL
  ELSE Smaller(quantity.amount, MaxI64)

\* Mutant: a container that only has limits asks for nothing.
ContainerRequestsOnly(container, res) ==
  IF res \in DOMAIN container.requests
    THEN ParseQuantity(res, container.requests[res])
  ELSE 0

\* A missing request defaults to the limit, a missing limit to nothing.
ContainerRequests(container, res) ==
  IF res \in DOMAIN container.requests
    THEN ParseQuantity(res, container.requests[res])
  ELSE IF res \in DOMAIN container.limits
    THEN ParseQuantity(res, container.limits[res])
  ELSE 0

\* Containers run together and are summed by a plain addition, which leaves of the
\* exact sum what WrapI64 does; of the init containers, which run one at a time,
\* the largest counts.  One quantity that does not parse fails the pod.
ExtractPodRequests(spec) ==
  IF \E res \in Resource :
       \E container \in Range(spec.containers) \cup Range(spec.initContainers) :
         ContainerRequests(container, res) = NULL
  THEN NULL
  ELSE [res \in Resource |->
          Larger(WrapI64(SumFunction([i \in DOMAIN spec.containers |->
                                        ContainerRequests(spec.containers[i], res)])),
                 Max({0} \cup {ContainerRequests(container, res) :
                                 container \in Range(spec.initContainers)}))]

\* A review without the object, as the old object of a CREATE, asks for nothing.
PodRequest(pod) == IF pod = NULL THEN Zero ELSE ExtractPodRequests(pod)

-----------------------------------------------------------------------------
(***************************************************************************)
(* Reference: what Kubernetes reserves for a pod, in exact numbers.        *)
(***************************************************************************)
Asked(container, res) ==
  IF res \in DOMAIN container.requests THEN container.requests[res].amount
  ELSE IF res \in DOMAIN container.limits THEN container.limits[res].amount
  ELSE 0

Need(pod, res) ==
  IF pod = NULL THEN 0
  ELSE Larger(SumFunction([i \in DOMAIN pod.containers |-> Asked(pod.containers[i], res)]),
              Max({0} \cup {Asked(container, res) :
                              container \in Range(pod.initContainers)}))
=============================================================================
