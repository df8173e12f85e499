--------------------------- MODULE MCNodeCapacity ---------------------------
(***************************************************************************)
(* Instances of NodeCapacity for TLC: two nodes, one that may be cordoned  *)
(* and one that may change its label, and lists with one selector for each *)
(* operator, an empty one and an invalid one.                              *)
(***************************************************************************)
EXTENDS NodeCapacity, TLC

CONSTANTS n1, n2

Shape(unschedulable, labels, amount) ==
  [unschedulable |-> unschedulable, labels |-> labels,
   allocatable   |-> IF amount = NULL THEN NULL
                     ELSE [res \in Resource |-> amount]]

East == {<<"zone", "east">>}
System == {<<"dedicated", "system">>}
West == {<<"zone", "west">>} \cup System

MCShapes ==
  (n1 :> {Shape(FALSE, East, 1), Shape(TRUE, West, 1)})
    @@ (n2 :> {Shape(FALSE, West, 2), Shape(FALSE, East \cup System, NULL),
               Shape(FALSE, East \cup System, 4)})

MCInitialNodes == (n1 :> Shape(FALSE, East, 1)) @@ (n2 :> Shape(FALSE, West, 2))

Requires(key, operator, values) ==
  [key |-> key, operator |-> operator, values |-> values]

Selector(matchLabels, matchExpressions) ==
  [matchLabels |-> matchLabels, matchExpressions |-> matchExpressions]

Everything == Selector({}, {})
Dedicated  == Selector({<<"dedicated", "system">>}, {Requires("zone", "Exists", {})})
Invalid    == Selector({}, {Requires("zone", "In", {})})
Eastern    == Selector({}, {Requires("zone", "In", {"east"}),
                            Requires("dedicated", "DoesNotExist", {})})
NotEastern == Selector({}, {Requires("zone", "NotIn", {"east"})})

MCSelectorLists == {{Everything, Invalid, Dedicated}, {Eastern}, {NotEastern}}
=============================================================================
