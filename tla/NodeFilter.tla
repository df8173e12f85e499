----------------------------- MODULE NodeFilter -----------------------------
(***************************************************************************)
(* Which nodes count as supply, and what they add up to.                   *)
(*                                                                         *)
(* node      [unschedulable, labels, allocatable]: labels is NULL or a set *)
(*           of <<key, value>> with one value for each key; allocatable is *)
(*           NULL or gives each resource its amount, NULL if it is absent  *)
(*           or does not parse                                             *)
(* selector  [matchLabels, matchExpressions]: a set of <<key, value>> and  *)
(*           a set of [key, operator, values]; an absent field and an      *)
(*           empty one are both {}                                         *)
(***************************************************************************)
EXTENDS Budget, FiniteSetsExt

CONSTANT Node   \* names of the nodes that may ever join the cluster

ASSUME NodeAssumption == IsFiniteSet(Node)

-----------------------------------------------------------------------------
ValidateSelector(selector) ==
  \A req \in selector.matchExpressions :
    \/ req.operator \in {"In", "NotIn"} /\ req.values # {}
    \/ req.operator \in {"Exists", "DoesNotExist"} /\ req.values = {}

Meets(labels, req) ==
  LET present == \E label \in labels : label[1] = req.key
      listed  == \E v \in req.values : <<req.key, v>> \in labels
  IN \/ req.operator = "In" /\ listed
     \/ req.operator = "NotIn" /\ ~listed
     \/ req.operator = "Exists" /\ present
     \/ req.operator = "DoesNotExist" /\ ~present

\* Mutant: one expression that holds is enough.
LabelsMatchSelectorAny(labels, selector) ==
  /\ selector.matchLabels \subseteq labels
  /\ \/ selector.matchExpressions = {}
     \/ \E req \in selector.matchExpressions : Meets(labels, req)

\* All of a selector's labels and expressions hold.
LabelsMatchSelector(labels, selector) ==
  /\ selector.matchLabels \subseteq labels
  /\ \A req \in selector.matchExpressions : Meets(labels, req)

\* The empty selector excludes nothing, though it matches every node.
SelectorIsEmpty(selector) ==
  selector.matchLabels = {} /\ selector.matchExpressions = {}

\* Any selector of the list may match.
LabelsMatchAnySelector(labels, selectors) ==
  \E selector \in selectors :
    ~SelectorIsEmpty(selector) /\ LabelsMatchSelector(labels, selector)

\* Labels that are absent match nothing, not even a selector for their absence.
IsNodeCounted(node, selectors) ==
  /\ ~node.unschedulable
  /\ node.labels = NULL \/ ~LabelsMatchAnySelector(node.labels, selectors)

\* Invalid selectors are skipped, the others still apply.
EffectiveSelectors(selectors) ==
  IF selectors = NULL THEN {} ELSE {s \in selectors : ValidateSelector(s)}

Worth(node, res) ==
  IF node.allocatable[res] = NULL THEN 0 ELSE node.allocatable[res]

\* The status of a view, a function that gives every node of the cluster its
\* state and the other names NULL.  A node that passes the filter without
\* reporting any allocatable is neither counted nor excluded.
SumNodeAllocatable(view, selectors) ==
  LET present  == {n \in Node : view[n] # NULL}
      cordoned == {n \in present : view[n].unschedulable}
      passing  == {n \in present :
                     IsNodeCounted(view[n], EffectiveSelectors(selectors))}
      selected == present \ (cordoned \cup passing)
      counted  == {n \in passing : view[n].allocatable # NULL}
  IN [totals          |-> [res \in Resource |->
                            SumFunction([n \in counted |-> Worth(view[n], res)])],
      nodeCount       |-> Cardinality(counted),
      excluded        |-> Cardinality(cordoned) + Cardinality(selected),
      byUnschedulable |-> Cardinality(cordoned),
      bySelector      |-> Cardinality(selected)]

-----------------------------------------------------------------------------
(***************************************************************************)
(* The standard semantics of a LabelSelector, which spec-007 and           *)
(* docs/node-exclusion.md refer to, told without the code: the labels are  *)
(* a set of pairs, none if they are absent, and each expression names the  *)
(* label sets that it accepts.                                             *)
(***************************************************************************)
Accepts(req, labels) ==
  LET found == {label[2] : label \in {l \in labels : l[1] = req.key}}
  IN CASE req.operator = "In"           -> found \cap req.values # {}
       [] req.operator = "NotIn"        -> found \cap req.values = {}
       [] req.operator = "Exists"       -> found # {}
       [] req.operator = "DoesNotExist" -> found = {}

Excludes(selector, labels) ==
  /\ ValidateSelector(selector) /\ ~SelectorIsEmpty(selector)
  /\ {req \in selector.matchExpressions : ~Accepts(req, labels)} = {}
  /\ \A wanted \in selector.matchLabels : wanted \in labels

StandardSupply(view, selectors, res) ==
  LET lists == IF selectors = NULL THEN {} ELSE selectors
      Labels(n) == IF view[n].labels = NULL THEN {} ELSE view[n].labels
      supply == {n \in Node : /\ view[n] # NULL
                             /\ ~view[n].unschedulable
                             /\ view[n].allocatable # NULL
                             /\ \A s \in lists : ~Excludes(s, Labels(n))}
  IN SumFunction([n \in supply |-> Worth(view[n], res)])
=============================================================================
