------------------------- MODULE MCAdmissionWebhook -------------------------
(***************************************************************************)
(* Instances of AdmissionWebhook for TLC.  MaxI64 is 7, so that sums meet  *)
(* the limit; stamps and clock straddle the freshness timeout of a second  *)
(* and midnight after 29 Feb 2000, 28 Feb 2001 and 31 Dec 2023.            *)
(***************************************************************************)
EXTENDS AdmissionWebhook

Pair(c, m) == [res \in Resource |-> IF res = "cpu" THEN c ELSE m]

MCSpecs ==
  {[budget |-> 80, override |-> Pair(NULL, NULL), mode |-> mode,
    namespaces |-> namespaces, classes |-> classes] :
     mode \in {NULL, "dry-run"},
     namespaces \in {{}, {"monitoring"}}, classes \in {{}, {"", "critical"}}}

MCStatuses(time) ==
  {[allocated |-> a, ceiling |-> c, budgets |-> Pair(80, 80), stamp |-> t] :
     a \in {Pair(2, 3), Pair(5, 7)},
     c \in {Pair(6, 4), Pair(4, 7)},
     t \in {NULL, time - 2, time - 1, time + 1}}

MCAllocationsAt(time) ==
  {NULL} \cup {[spec |-> s, status |-> t] :
                 s \in MCSpecs, t \in {NULL} \cup MCStatuses(time)}

MCCapacities == {NULL, [totals |-> Pair(5, 7), stamp |-> 0]}

Digits(c, m) == [res \in Resource |-> [amount |-> Pair(c, m)[res], plain |-> TRUE]]

Container(requests, limits) == [requests |-> requests, limits |-> limits]

MCPod(class, containers, inits) ==
  [class |-> class, containers |-> containers, initContainers |-> inits]

\* One container; two whose cpu wraps when added; only limits; an init container
\* larger than the rest; more bytes than i64 holds; a quantity without number.
MCContainers ==
  {<< <<Container(Digits(1, 4), << >>)>>, <<>> >>,
   << <<Container(Digits(4, 0), << >>), Container(Digits(5, 1), << >>)>>, <<>> >>,
   << <<Container(<< >>, Digits(3, 2))>>, <<>> >>,
   << <<Container(Digits(1, 1), << >>)>>, <<Container(Digits(4, 0), << >>)>> >>,
   << <<Container(Digits(1, 8), << >>)>>, <<>> >>,
   << <<Container([res \in {"cpu"} |-> NULL], << >>)>>, <<>> >>}

MCOldPods ==
  {NULL, MCPod(NULL, <<Container(<< >>, Digits(3, 2))>>, <<>>),
   MCPod(NULL, <<Container([res \in {"cpu"} |-> NULL], << >>)>>, <<>>)}

MCReviews ==
  {NULL} \cup
  {[operation |-> op, namespace |-> where[1], oldObject |-> old,
    object |-> MCPod(where[2], pod[1], pod[2])] :
     op \in {"CREATE", "UPDATE"}, pod \in MCContainers, old \in MCOldPods,
     where \in {<<"capacity-admission", NULL>>, <<"monitoring", NULL>>,
                <<"team", NULL>>, <<"team", "">>, <<"team", "critical">>}}

MCTimes == {951868799, 983404799, 1704067199}
=============================================================================
