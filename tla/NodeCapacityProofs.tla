------------------------- MODULE NodeCapacityProofs -------------------------
(***************************************************************************)
(* Theorems about NodeCapacity, for every set of nodes, replicas, selector *)
(* lists and bounds.                                                       *)
(***************************************************************************)
EXTENDS NodeCapacity, SumProofs

-----------------------------------------------------------------------------
(***************************************************************************)
(* The inductive invariant: with the types, that each store is a state the *)
(* nodes have been in, and while the stream is live the one it has reached *)
(***************************************************************************)

\* The cluster changes one node at a time.
OneAtATime ==
  \A k \in 1 .. Len(history) - 1 :
    \E n \in Node : \A m \in Node \ {n} : history[k + 1][m] = history[k][m]

Followed(c) ==
  /\ watch[c].phase \in {"InitApply", "Live"} => watch[c].seen \in 1 .. Len(history)
  /\ watch[c].phase = "Live" => store[c] = history[watch[c].seen]
  /\ store[c] \in PastViews
  /\ task[c].at = "selectors" => task[c].view \in PastViews \cup {NULL}

Sending(c) ==
  task[c].at \in {"get", "create", "patch"} /\ task[c].status # NULL =>
    Explained(task[c].status)

Published ==
  object # NULL => object.status = NULL \/ Explained(object.status)

IInv ==
  /\ TypeOK
  /\ OneAtATime
  /\ \A c \in Controller : Followed(c) /\ Sending(c)
  /\ Published

-----------------------------------------------------------------------------
(***************************************************************************)
(* Types                                                                   *)
(***************************************************************************)

\* The states of a task between two awaits, and what each of them carries.
LEMMA TaskStates ==
  /\ [at |-> "down"] \in TaskState /\ [at |-> "wait"] \in TaskState
  /\ \A status \in Status \cup {NULL} :
       /\ [at |-> "get", status |-> status] \in TaskState
       /\ [at |-> "create", status |-> status] \in TaskState
  /\ \A view \in Views \cup {NULL} : [at |-> "selectors", view |-> view] \in TaskState
  /\ \A selectors \in SelectorLists \cup {NULL} :
       [at |-> "list", selectors |-> selectors] \in TaskState
  /\ \A status \in Status, retry \in BOOLEAN :
       [at |-> "patch", status |-> status, retry |-> retry] \in TaskState
BY DEF TaskState

LEMMA TaskCarries ==
  \A state \in TaskState :
    /\ state.at \in {"get", "create"} => state.status \in Status \cup {NULL}
    /\ state.at = "selectors" => state.view \in Views \cup {NULL}
    /\ state.at = "list" => state.selectors \in SelectorLists \cup {NULL}
    /\ state.at = "patch" => state.status \in Status /\ state.retry \in BOOLEAN
BY DEF TaskState

LEMMA BecomeType ==
  ASSUME TypeOK, NEW c \in Controller, NEW state \in TaskState, Become(c, state)
  PROVE  task' \in [Controller -> TaskState]
BY DEF Become, TypeOK

LEMMA EnsuredType ==
  ASSUME NEW status \in Status \cup {NULL}
  PROVE  Ensured(status) \in TaskState
BY TaskStates DEF Ensured

\* The nodes of a view.
Present(view) == {n \in Node : view[n] # NULL}

\* What a node reports of a resource.
LEMMA WorthType ==
  ASSUME NEW view \in Views, NEW n \in Node, view[n] # NULL, view[n].allocatable # NULL,
         NEW res \in Resource
  PROVE  Worth(view[n], res) \in Nat
BY ShapesAssumption, MaxI64Assumption DEF Views, Worth, Amount

\* Every supply is a proper status.
LEMMA StatusTypes ==
  /\ NoStatus \in Status
  /\ \A view \in Views, selectors \in SelectorLists \cup {NULL} :
       SumNodeAllocatable(view, selectors) \in Status
<1>1. NoStatus \in Status
  BY MaxI64Assumption DEF NoStatus, Status, Zero, Figures, Amount
<1>2. ASSUME NEW view \in Views, NEW selectors \in SelectorLists \cup {NULL}
      PROVE  SumNodeAllocatable(view, selectors) \in Status
  <2> DEFINE counted  == {n \in Present(view) :
                            /\ IsNodeCounted(view[n], EffectiveSelectors(selectors))
                            /\ view[n].allocatable # NULL}
             cordoned == {n \in Present(view) : view[n].unschedulable}
             selected == Present(view) \ (cordoned \cup
                           {n \in Present(view) :
                              IsNodeCounted(view[n], EffectiveSelectors(selectors))})
             totals   == [res \in Resource |->
                            SumFunctionOnSet([n \in counted |-> Worth(view[n], res)], counted)]
  <2>1. /\ IsFiniteSet(counted) /\ IsFiniteSet(cordoned) /\ IsFiniteSet(selected)
        /\ Cardinality(counted) \in Nat /\ Cardinality(cordoned) \in Nat
        /\ Cardinality(selected) \in Nat
    BY NodeAssumption, FS_Subset, FS_CardinalityType DEF Present
  <2>2. SumNodeAllocatable(view, selectors)
          = [totals          |-> totals,
             nodeCount       |-> Cardinality(counted),
             excluded        |-> Cardinality(cordoned) + Cardinality(selected),
             byUnschedulable |-> Cardinality(cordoned),
             bySelector      |-> Cardinality(selected)]
    BY DEF SumNodeAllocatable, SumFunction, Present
  <2> HIDE DEF counted, cordoned, selected
  <2>3. ASSUME NEW res \in Resource PROVE totals[res] \in Amount
    <3>1. \A n \in counted : Worth(view[n], res) \in Nat
      BY WorthType DEF counted, Present
    <3>2. totals[res] \in Nat
      BY <2>1, <3>1, SumOfNaturals
    <3>3. totals[res] <= MaxI64
      BY <2>2, SupplyFitsAssumption
    <3> QED
      BY <3>2, <3>3, MaxI64Assumption DEF Amount
  <2> QED
    BY <2>1, <2>2, <2>3 DEF Status, Figures
<1> QED
  BY <1>1, <1>2

LEMMA NodesType ==
  ASSUME TypeOK
  PROVE  /\ Len(history) \in Nat \ {0}
         /\ Nodes \in Views
         /\ \A k \in 1 .. Len(history) : history[k] \in Views
BY DEF TypeOK, Nodes

LEMMA HandleType ==
  ASSUME TypeOK, NEW c \in Controller, NEW view \in Views, NEW stream \in WatchState,
         Handle(c, view, stream)
  PROVE  TypeOK'
<1>1. task' \in [Controller -> TaskState]
  BY BecomeType, TaskStates DEF Handle
<1> QED
  BY <1>1 DEF Handle, TypeOK

LEMMA CallType ==
  ASSUME TypeOK, NEW c \in Controller, NEW ok \in BOOLEAN, Call(c, ok)
  PROVE  TypeOK'
<1>1. task[c] \in TaskState
  BY DEF TypeOK
<1>2. CASE EnsureGet(c, ok)
  <2>1. task[c].status \in Status \cup {NULL}
    BY <1>1, <1>2, TaskCarries DEF EnsureGet
  <2>2. task' \in [Controller -> TaskState]
    BY <1>2, <2>1, BecomeType, TaskStates, EnsuredType DEF EnsureGet
  <2> QED
    BY <1>2, <2>2 DEF EnsureGet, TypeOK
<1>3. CASE EnsureCreate(c, ok)
  <2>1. task[c].status \in Status \cup {NULL}
    BY <1>1, <1>3, TaskCarries DEF EnsureCreate
  <2>2. task' \in [Controller -> TaskState]
    BY <1>3, <2>1, BecomeType, EnsuredType DEF EnsureCreate
  <2>3. object' \in CapacityObject \cup {NULL}
    BY <1>3 DEF EnsureCreate, TypeOK, DefaultCapacitySingleton, CapacityObject
  <2> QED
    BY <1>3, <2>2, <2>3 DEF EnsureCreate, TypeOK
<1>4. CASE ReadSelectors(c, ok)
  <2> DEFINE selectors == IF ok /\ object # NULL THEN object.selectors ELSE NULL
             view      == task[c].view
  <2>1. view \in Views \cup {NULL}
    BY <1>1, <1>4, TaskCarries DEF ReadSelectors
  <2>2. selectors \in SelectorLists \cup {NULL}
    BY DEF TypeOK, CapacityObject
  <2>3. Become(c, IF view = NULL THEN [at |-> "list", selectors |-> selectors]
                  ELSE Patch(SumNodeAllocatable(view, selectors)))
    BY <1>4 DEF ReadSelectors
  <2> HIDE DEF selectors, view
  <2>4. (IF view = NULL THEN [at |-> "list", selectors |-> selectors]
         ELSE Patch(SumNodeAllocatable(view, selectors))) \in TaskState
    BY <2>1, <2>2, StatusTypes, TaskStates DEF Patch
  <2>5. task' \in [Controller -> TaskState]
    BY <2>3, <2>4, BecomeType
  <2> QED
    BY <1>4, <2>5 DEF ReadSelectors, TypeOK
<1>5. CASE ListNodes(c, ok)
  <2>1. task[c].selectors \in SelectorLists \cup {NULL}
    BY <1>1, <1>5, TaskCarries DEF ListNodes
  <2>2. Patch(IF ok THEN SumNodeAllocatable(Nodes, task[c].selectors) ELSE NoStatus)
          \in TaskState
    BY <2>1, NodesType, StatusTypes, TaskStates DEF Patch
  <2>3. task' \in [Controller -> TaskState]
    BY <1>5, <2>2, BecomeType DEF ListNodes
  <2> QED
    BY <1>5, <2>3 DEF ListNodes, TypeOK
<1>6. CASE PatchStatus(c, ok)
  <2>1. task[c].status \in Status
    BY <1>1, <1>6, TaskCarries DEF PatchStatus
  <2>2. task' \in [Controller -> TaskState]
    BY <1>6, <2>1, BecomeType, TaskStates DEF PatchStatus
  <2>3. object' \in CapacityObject \cup {NULL}
    BY <1>6, <2>1 DEF PatchStatus, TypeOK, CapacityObject
  <2> QED
    BY <1>6, <2>2, <2>3 DEF PatchStatus, TypeOK
<1> QED
  BY <1>2, <1>3, <1>4, <1>5, <1>6 DEF Call

\* The live event of a change turns one past state of the nodes into the next.
LEMMA ChangeFollows ==
  ASSUME TypeOK, OneAtATime, NEW c \in Controller, Followed(c),
         watch[c].phase = "Live", watch[c].seen < Len(history),
         NEW n \in Node,
         history[watch[c].seen + 1][n] # history[watch[c].seen][n]
  PROVE  /\ watch[c].seen + 1 \in 1 .. Len(history)
         /\ [store[c] EXCEPT ![n] = history[watch[c].seen + 1][n]]
              = history[watch[c].seen + 1]
<1> DEFINE k == watch[c].seen
<1>1. k \in 1 .. Len(history) - 1 /\ k + 1 \in 1 .. Len(history)
  BY NodesType DEF Followed
<1>2. store[c] = history[k] /\ history[k] \in Views /\ history[k + 1] \in Views
  BY <1>1, NodesType DEF Followed
<1> HIDE DEF k
<1>3. \A m \in Node \ {n} : history[k + 1][m] = history[k][m]
  BY <1>1 DEF OneAtATime, k
<1>4. [history[k] EXCEPT ![n] = history[k + 1][n]] = history[k + 1]
  BY <1>2, <1>3 DEF Views
<1> QED
  BY <1>1, <1>2, <1>4 DEF k

LEMMA StreamType ==
  ASSUME IInv, NEW c \in Controller, Stream(c)
  PROVE  TypeOK'
<1>0. TypeOK /\ Followed(c)
  BY DEF IInv
<1>1. watch[c] \in WatchState /\ store[c] \in Views
  BY <1>0 DEF TypeOK
<1>2. CASE WatchInit(c)
  <2>1. [watch[c] EXCEPT !.phase = "List"] \in WatchState
    BY <1>1 DEF WatchState
  <2> QED
    BY <1>0, <1>1, <1>2, <2>1, HandleType DEF WatchInit
<1>3. CASE WatchList(c)
  <2> DEFINE there == {n \in Node : Nodes[n] # NULL}
  <2>1. Cardinality(there) \in 0 .. Cardinality(Node)
    BY NodeAssumption, FS_Subset, FS_CardinalityType
  <2>2. [phase |-> "InitApply", seen |-> Len(history), beat |-> FALSE,
         left |-> Cardinality(there)] \in WatchState
    BY <1>0, <2>1, NodesType DEF WatchState
  <2> QED
    BY <1>0, <1>3, <2>2 DEF WatchList, TypeOK
<1>4. CASE WatchInitApply(c)
  <2>1. Cardinality(Node) \in Nat
    BY NodeAssumption, FS_CardinalityType
  <2>2. [watch[c] EXCEPT !.left = @ - 1] \in WatchState
    BY <1>1, <1>4, <2>1 DEF WatchInitApply, WatchState
  <2> QED
    BY <1>0, <1>1, <1>4, <2>2, HandleType DEF WatchInitApply
<1>5. CASE WatchInitDone(c)
  <2>1. history[watch[c].seen] \in Views
    BY <1>0, <1>5, NodesType DEF WatchInitDone, Waiting, Followed
  <2>2. [watch[c] EXCEPT !.phase = "Live"] \in WatchState
    BY <1>1 DEF WatchState
  <2> QED
    BY <1>0, <1>5, <2>1, <2>2, HandleType DEF WatchInitDone
<1>6. CASE WatchChange(c)
  <2>1. PICK n \in Node :
          /\ history[watch[c].seen + 1][n] # history[watch[c].seen][n]
          /\ Handle(c, [store[c] EXCEPT ![n] = history[watch[c].seen + 1][n]],
                    [watch[c] EXCEPT !.seen = watch[c].seen + 1])
    BY <1>6 DEF WatchChange
  <2>2. watch[c].phase = "Live" /\ watch[c].seen < Len(history)
    BY <1>6 DEF WatchChange, Waiting
  <2>3. [store[c] EXCEPT ![n] = history[watch[c].seen + 1][n]] \in Views
    BY <1>0, <2>1, <2>2, ChangeFollows, NodesType DEF IInv
  <2>4. [watch[c] EXCEPT !.seen = watch[c].seen + 1] \in WatchState
    BY <1>1 DEF WatchState
  <2> QED
    BY <1>0, <2>1, <2>3, <2>4, HandleType
<1>7. CASE WatchBeat(c)
  <2>1. [watch[c] EXCEPT !.beat = FALSE] \in WatchState
    BY <1>1 DEF WatchState
  <2> QED
    BY <1>0, <1>1, <1>7, <2>1, HandleType DEF WatchBeat
<1> QED
  BY <1>2, <1>3, <1>4, <1>5, <1>6, <1>7 DEF Stream

LEMMA ColdTypes == Unwatched \in WatchState /\ NoNodes \in Views
<1>1. Cardinality(Node) \in Nat
  BY NodeAssumption, FS_CardinalityType
<1>2. Unwatched \in WatchState
  BY <1>1 DEF Unwatched, WatchState
<1>3. NULL \in NodeState
  BY DEF NodeState
<1> QED
  BY <1>2, <1>3 DEF NoNodes, Views

LEMMA ClusterType ==
  ASSUME TypeOK, Heartbeat \/ Operator
  PROVE  TypeOK'
<1>1. CASE Heartbeat
  <2>1. \A c \in Controller : [watch[c] EXCEPT !.beat = TRUE] \in WatchState
    BY DEF TypeOK, WatchState
  <2>2. watch' \in [Controller -> WatchState]
    BY <1>1, <2>1 DEF Heartbeat, TypeOK
  <2> QED
    BY <1>1, <2>2 DEF Heartbeat, TypeOK
<1>2. CASE \E n \in Node : ChangeNode(n)
  <2>0. PICK n \in Node : ChangeNode(n)
    BY <1>2
  <2>1. PICK state \in Shapes[n] \cup {NULL} :
          history' = Append(history, [Nodes EXCEPT ![n] = state])
    BY <2>0 DEF ChangeNode
  <2>2. state \in NodeState
    BY <2>1 DEF NodeState
  <2>3. [Nodes EXCEPT ![n] = state] \in Views
    BY <2>2, NodesType DEF Views
  <2>4. history' \in Seq(Views) /\ history' # <<>>
    BY <2>1, <2>3 DEF TypeOK
  <2> QED
    BY <1>2, <2>4 DEF ChangeNode, TypeOK
<1>3. CASE \E selectors \in SelectorLists : WriteSelectors(selectors)
  <2>1. object' \in CapacityObject
    BY <1>3 DEF WriteSelectors, TypeOK, CapacityObject
  <2> QED
    BY <1>3, <2>1 DEF WriteSelectors, TypeOK
<1>4. CASE DeleteCapacity
  BY <1>4 DEF DeleteCapacity, TypeOK
<1> QED
  BY <1>1, <1>2, <1>3, <1>4 DEF Operator

LEMMA TypeStep ==
  ASSUME IInv, [Next]_vars
  PROVE  TypeOK'
<1>0. TypeOK
  BY DEF IInv
<1>1. ASSUME NEW c \in Controller, Start(c)
      PROVE  TypeOK'
  <2>1. task' \in [Controller -> TaskState]
    BY <1>0, <1>1, BecomeType, TaskStates DEF Start
  <2> QED
    BY <1>0, <1>1, <2>1 DEF Start, TypeOK
<1>2. ASSUME NEW c \in Controller, WatchBreaks(c)
      PROVE  TypeOK'
  BY <1>0, <1>2, ColdTypes DEF WatchBreaks, TypeOK
<1>3. ASSUME NEW c \in Controller, Crash(c)
      PROVE  TypeOK'
  <2>1. task' \in [Controller -> TaskState]
    BY <1>0, <1>3, BecomeType, TaskStates DEF Crash
  <2> QED
    BY <1>0, <1>3, <2>1, ColdTypes DEF Crash, TypeOK
<1>4. ASSUME NEW c \in Controller, NEW ok \in BOOLEAN, Call(c, ok)
      PROVE  TypeOK'
  BY <1>0, <1>4, CallType
<1>5. ASSUME NEW c \in Controller, Stream(c)
      PROVE  TypeOK'
  BY <1>5, StreamType
<1>6. CASE Heartbeat \/ Operator
  BY <1>0, <1>6, ClusterType
<1>7. CASE UNCHANGED vars
  BY <1>0, <1>7 DEF vars, TypeOK
<1> QED
  BY <1>1, <1>2, <1>3, <1>4, <1>5, <1>6, <1>7 DEF Next, ControllerStep

-----------------------------------------------------------------------------
(***************************************************************************)
(* The past of the nodes                                                   *)
(***************************************************************************)

LEMMA HistoryGrows ==
  ASSUME TypeOK, [Next]_vars
  PROVE  /\ Len(history) \in Nat \ {0} /\ Len(history') \in Nat
         /\ Len(history') >= Len(history)
         /\ \A k \in 1 .. Len(history) : history'[k] = history[k]
<1>1. Len(history) \in Nat \ {0}
  BY NodesType
<1>2. CASE UNCHANGED history
  BY <1>1, <1>2
<1>3. CASE \E n \in Node : ChangeNode(n)
  <2>1. PICK n \in Node : ChangeNode(n)
    BY <1>3
  <2>2. PICK state \in Shapes[n] \cup {NULL} :
          history' = Append(history, [Nodes EXCEPT ![n] = state])
    BY <2>1 DEF ChangeNode
  <2> QED
    BY <1>1, <2>2 DEF TypeOK
<1>4. UNCHANGED history \/ \E n \in Node : ChangeNode(n)
  BY DEF Next, ControllerStep, Start, Stream, WatchInit, WatchList, WatchInitApply,
         WatchInitDone, WatchChange, WatchBeat, Handle, WatchBreaks, Crash, Call,
         EnsureGet, EnsureCreate, ReadSelectors, ListNodes, PatchStatus, Heartbeat,
         Operator, WriteSelectors, DeleteCapacity, vars
<1> QED
  BY <1>2, <1>3, <1>4

LEMMA PastStays ==
  ASSUME TypeOK, [Next]_vars
  PROVE  /\ PastViews \subseteq PastViews'
         /\ \A status : Explained(status) => Explained(status)'
<1>1. PastViews \subseteq PastViews'
  BY HistoryGrows DEF PastViews
<1> QED
  BY <1>1 DEF Explained

LEMMA NodesInPast ==
  ASSUME TypeOK
  PROVE  Nodes \in PastViews
BY NodesType DEF Nodes, PastViews

LEMMA OneAtATimeStep ==
  ASSUME TypeOK, OneAtATime, [Next]_vars
  PROVE  OneAtATime'
<1>1. CASE UNCHANGED history
  BY <1>1 DEF OneAtATime
<1>2. CASE \E n \in Node : ChangeNode(n)
  <2>1. PICK n \in Node : ChangeNode(n)
    BY <1>2
  <2>2. PICK state \in Shapes[n] \cup {NULL} :
          history' = Append(history, [Nodes EXCEPT ![n] = state])
    BY <2>1 DEF ChangeNode
  <2>3. /\ Len(history) \in Nat \ {0} /\ Len(history') = Len(history) + 1
        /\ history'[Len(history) + 1] = [Nodes EXCEPT ![n] = state]
        /\ \A k \in 1 .. Len(history) : history'[k] = history[k]
    BY <2>2, NodesType DEF TypeOK
  <2>4. \A m \in Node \ {n} : history'[Len(history) + 1][m] = history'[Len(history)][m]
    BY <2>3, NodesType DEF Nodes, Views
  <2>5. ASSUME NEW k \in 1 .. Len(history') - 1
        PROVE  \E n1 \in Node : \A m \in Node \ {n1} : history'[k + 1][m] = history'[k][m]
    <3>1. CASE k = Len(history)
      BY <2>4, <3>1
    <3>2. CASE k \in 1 .. Len(history) - 1
      <4>1. k + 1 \in 1 .. Len(history) /\ k \in 1 .. Len(history)
        BY <2>3, <3>2
      <4>2. history'[k + 1] = history[k + 1] /\ history'[k] = history[k]
        BY <2>3, <4>1
      <4> QED
        BY <3>2, <4>2 DEF OneAtATime
    <3> QED
      BY <2>3, <2>5, <3>1, <3>2
  <2> QED
    BY <2>5 DEF OneAtATime
<1>3. UNCHANGED history \/ \E n \in Node : ChangeNode(n)
  BY DEF Next, ControllerStep, Start, Stream, WatchInit, WatchList, WatchInitApply,
         WatchInitDone, WatchChange, WatchBeat, Handle, WatchBreaks, Crash, Call,
         EnsureGet, EnsureCreate, ReadSelectors, ListNodes, PatchStatus, Heartbeat,
         Operator, WriteSelectors, DeleteCapacity, vars
<1> QED
  BY <1>1, <1>2, <1>3

-----------------------------------------------------------------------------
(***************************************************************************)
(* Stores and statuses                                                     *)
(***************************************************************************)

\* What a step of another task, of the kubelets or of the operators leaves alone.
LEMMA OthersFollow ==
  ASSUME IInv, [Next]_vars, NEW c \in Controller,
         task'[c] = task[c], store'[c] = store[c],
         /\ watch'[c].phase = watch[c].phase
         /\ watch'[c].seen = watch[c].seen
  PROVE  Followed(c)' /\ Sending(c)'
<1>1. TypeOK /\ Followed(c) /\ Sending(c)
  BY DEF IInv
<1>2. Followed(c)'
  BY <1>1, HistoryGrows, PastStays DEF Followed
<1>3. Sending(c)'
  BY <1>1, PastStays DEF Sending
<1> QED
  BY <1>2, <1>3

\* After an event the store is a past state again, and the cycle works on it.
LEMMA HandleFollows ==
  ASSUME IInv, [Next]_vars, NEW c \in Controller, NEW view, NEW stream,
         Handle(c, view, stream), view \in PastViews,
         stream.phase \in {"InitApply", "Live"} => stream.seen \in 1 .. Len(history),
         stream.phase = "Live" => view = history[stream.seen]
  PROVE  Followed(c)' /\ Sending(c)'
<1>1. TypeOK
  BY DEF IInv
<1>2. /\ task'[c] = [at |-> "selectors", view |-> view]
      /\ store'[c] = view /\ watch'[c] = stream
      /\ history' = history
  BY <1>1 DEF Handle, Become, TypeOK
<1>3. view \in PastViews'
  BY <1>1, PastStays
<1>4. Followed(c)'
  BY <1>2, <1>3 DEF Followed
<1>5. Sending(c)'
  BY <1>2 DEF Sending
<1> QED
  BY <1>4, <1>5

LEMMA StreamFollows ==
  ASSUME IInv, [Next]_vars, NEW c \in Controller, Stream(c)
  PROVE  Followed(c)' /\ Sending(c)'
<1>0. TypeOK /\ Followed(c) /\ Sending(c) /\ OneAtATime
  BY DEF IInv
<1>1. watch[c] \in WatchState /\ store[c] \in PastViews
  BY <1>0 DEF TypeOK, Followed
<1>2. CASE WatchInit(c)
  <2>1. [watch[c] EXCEPT !.phase = "List"].phase = "List"
    BY <1>1 DEF WatchState
  <2> QED
    BY <1>1, <1>2, <2>1, HandleFollows DEF WatchInit
<1>3. CASE WatchList(c)
  <2>1. /\ task' = task /\ store' = store /\ history' = history
        /\ watch'[c].phase = "InitApply" /\ watch'[c].seen = Len(history)
    BY <1>0, <1>3 DEF WatchList, TypeOK
  <2>2. Len(history) \in 1 .. Len(history)
    BY <1>0, NodesType
  <2>3. Followed(c)'
    BY <1>0, <1>1, <2>1, <2>2, PastStays DEF Followed
  <2>4. Sending(c)'
    BY <1>0, <2>1, PastStays DEF Sending
  <2> QED
    BY <2>3, <2>4
<1>4. CASE WatchInitApply(c)
  <2>1. /\ [watch[c] EXCEPT !.left = @ - 1].phase = "InitApply"
        /\ [watch[c] EXCEPT !.left = @ - 1].seen = watch[c].seen
    BY <1>1, <1>4 DEF WatchInitApply, Waiting, WatchState
  <2>2. watch[c].seen \in 1 .. Len(history)
    BY <1>0, <1>4 DEF WatchInitApply, Waiting, Followed
  <2> QED
    BY <1>1, <1>4, <2>1, <2>2, HandleFollows DEF WatchInitApply
<1>5. CASE WatchInitDone(c)
  <2>1. [watch[c] EXCEPT !.phase = "Live"].seen = watch[c].seen
    BY <1>1 DEF WatchState
  <2>2. watch[c].seen \in 1 .. Len(history)
    BY <1>0, <1>5 DEF WatchInitDone, Waiting, Followed
  <2>3. history[watch[c].seen] \in PastViews
    BY <2>2 DEF PastViews
  <2> QED
    BY <1>5, <2>1, <2>2, <2>3, HandleFollows DEF WatchInitDone
<1>6. CASE WatchChange(c)
  <2>1. PICK n \in Node :
          /\ history[watch[c].seen + 1][n] # history[watch[c].seen][n]
          /\ Handle(c, [store[c] EXCEPT ![n] = history[watch[c].seen + 1][n]],
                    [watch[c] EXCEPT !.seen = watch[c].seen + 1])
    BY <1>6 DEF WatchChange
  <2>2. watch[c].phase = "Live" /\ watch[c].seen < Len(history)
    BY <1>6 DEF WatchChange, Waiting
  <2>3. /\ watch[c].seen + 1 \in 1 .. Len(history)
        /\ [store[c] EXCEPT ![n] = history[watch[c].seen + 1][n]]
             = history[watch[c].seen + 1]
    BY <1>0, <2>1, <2>2, ChangeFollows
  <2>4. history[watch[c].seen + 1] \in PastViews
    BY <2>3 DEF PastViews
  <2>5. [watch[c] EXCEPT !.seen = watch[c].seen + 1].seen = watch[c].seen + 1
    BY <1>1 DEF WatchState
  <2> QED
    BY <2>1, <2>3, <2>4, <2>5, HandleFollows
<1>7. CASE WatchBeat(c)
  <2>1. /\ [watch[c] EXCEPT !.beat = FALSE].phase = "Live"
        /\ [watch[c] EXCEPT !.beat = FALSE].seen = watch[c].seen
    BY <1>1, <1>7 DEF WatchBeat, Waiting, WatchState
  <2>2. watch[c].seen \in 1 .. Len(history) /\ store[c] = history[watch[c].seen]
    BY <1>0, <1>7 DEF WatchBeat, Waiting, Followed
  <2> QED
    BY <1>1, <1>7, <2>1, <2>2, HandleFollows DEF WatchBeat
<1> QED
  BY <1>2, <1>3, <1>4, <1>5, <1>6, <1>7 DEF Stream

\* A status comes from a past view and one list of selectors, and travels as it is.
LEMMA CallFollows ==
  ASSUME IInv, [Next]_vars, NEW c \in Controller, NEW ok \in BOOLEAN, Call(c, ok)
  PROVE  Followed(c)' /\ Sending(c)' /\ Published'
<1>0. TypeOK /\ Followed(c) /\ Sending(c) /\ Published
  BY DEF IInv
<1>1. task[c] \in TaskState /\ history' = history /\ store' = store /\ watch' = watch
  BY <1>0 DEF TypeOK, Call, EnsureGet, EnsureCreate, ReadSelectors, ListNodes, PatchStatus
<1>2. ASSUME NEW state, Become(c, state),
             state.at = "selectors" => state.view = NULL,
             state.at \in {"get", "create", "patch"} /\ state.status # NULL =>
               Explained(state.status)
      PROVE  Followed(c)' /\ Sending(c)'
  <2>1. task'[c] = state
    BY <1>0, <1>2 DEF Become, TypeOK
  <2>2. Followed(c)'
    BY <1>0, <1>1, <1>2, <2>1, PastStays DEF Followed
  <2>3. Sending(c)'
    BY <1>0, <1>2, <2>1, PastStays DEF Sending
  <2> QED
    BY <2>2, <2>3
<1>3. object' = object => Published'
  BY <1>0, PastStays DEF Published
<1>4. CASE EnsureGet(c, ok)
  <2>1. task[c].status # NULL => Explained(task[c].status)
    BY <1>0, <1>4 DEF EnsureGet, Sending
  <2> QED
    BY <1>2, <1>3, <1>4, <2>1 DEF EnsureGet, Ensured
<1>5. CASE EnsureCreate(c, ok)
  <2>1. task[c].status # NULL => Explained(task[c].status)
    BY <1>0, <1>5 DEF EnsureCreate, Sending
  <2>2. Published'
    BY <1>0, <1>5, PastStays DEF EnsureCreate, Published, DefaultCapacitySingleton
  <2> QED
    BY <1>2, <1>5, <2>1, <2>2 DEF EnsureCreate, Ensured
<1>6. CASE ReadSelectors(c, ok)
  <2> DEFINE selectors == IF ok /\ object # NULL THEN object.selectors ELSE NULL
             view      == task[c].view
             state     == IF view = NULL THEN [at |-> "list", selectors |-> selectors]
                          ELSE Patch(SumNodeAllocatable(view, selectors))
  <2>1. view \in PastViews \cup {NULL}
    BY <1>0, <1>6 DEF ReadSelectors, Followed
  <2>2. selectors \in SelectorLists \cup {NULL}
    BY <1>0 DEF TypeOK, CapacityObject
  <2>3. Become(c, state) /\ object' = object
    BY <1>6 DEF ReadSelectors
  <2> HIDE DEF selectors, view
  <2>4. CASE view = NULL
    BY <1>2, <1>3, <2>3, <2>4
  <2>5. CASE view # NULL
    <3>1. Explained(SumNodeAllocatable(view, selectors))
      BY <2>1, <2>2, <2>5 DEF Explained
    <3>2. Become(c, Patch(SumNodeAllocatable(view, selectors)))
      BY <2>3, <2>5
    <3> QED
      BY <1>2, <1>3, <2>3, <3>1, <3>2 DEF Patch
  <2> QED
    BY <2>4, <2>5
<1>7. CASE ListNodes(c, ok)
  <2> DEFINE status == IF ok THEN SumNodeAllocatable(Nodes, task[c].selectors) ELSE NoStatus
  <2>1. task[c].selectors \in SelectorLists \cup {NULL}
    BY <1>1, <1>7, TaskCarries DEF ListNodes
  <2>2. Explained(status)
    BY <1>0, <2>1, NodesInPast DEF Explained
  <2>3. Become(c, Patch(status)) /\ object' = object
    BY <1>7 DEF ListNodes
  <2> HIDE DEF status
  <2> QED
    BY <1>2, <1>3, <2>2, <2>3 DEF Patch
<1>8. CASE PatchStatus(c, ok)
  <2>1. task[c].status # NULL => Explained(task[c].status)
    BY <1>0, <1>8 DEF PatchStatus, Sending
  <2>2. object # NULL => object \in CapacityObject
    BY <1>0 DEF TypeOK
  <2>3. Published'
    BY <1>0, <1>8, <2>1, <2>2, PastStays DEF PatchStatus, Published, CapacityObject
  <2> QED
    BY <1>2, <1>8, <2>1, <2>3 DEF PatchStatus
<1> QED
  BY <1>4, <1>5, <1>6, <1>7, <1>8 DEF Call

LEMMA FollowStep ==
  ASSUME IInv, [Next]_vars
  PROVE  (\A c \in Controller : Followed(c) /\ Sending(c))' /\ Published'
<1>0. TypeOK /\ Published
  BY DEF IInv
<1>1. object' = object => Published'
  BY <1>0, PastStays DEF Published
<1>2. ASSUME NEW d \in Controller, ControllerStep(d)
      PROVE  (\A c \in Controller : Followed(c) /\ Sending(c))' /\ Published'
  <2>1. \A c \in Controller \ {d} :
          task'[c] = task[c] /\ store'[c] = store[c] /\ watch'[c] = watch[c]
    BY <1>0, <1>2
    DEF ControllerStep, Start, Stream, WatchInit, WatchList, WatchInitApply, WatchInitDone,
        WatchChange, WatchBeat, Handle, WatchBreaks, Crash, Call, EnsureGet, EnsureCreate,
        ReadSelectors, ListNodes, PatchStatus, Become, TypeOK
  <2>2. \A c \in Controller \ {d} : Followed(c)' /\ Sending(c)'
    BY <2>1, OthersFollow
  <2>3. CASE Start(d)
    <3>1. task'[d] = [at |-> "get", status |-> NULL]
      BY <1>0, <2>3 DEF Start, Become, TypeOK
    <3>2. Followed(d)'
      BY <1>0, <2>3, <3>1, PastStays DEF Start, Followed, IInv
    <3>3. Sending(d)'
      BY <3>1 DEF Sending
    <3> QED
      BY <1>1, <2>2, <2>3, <3>2, <3>3 DEF Start
  <2>4. CASE WatchBreaks(d)
    <3>1. task'[d] = task[d] /\ store'[d] = store[d] /\ watch'[d].phase = "Init"
      BY <1>0, <2>4 DEF WatchBreaks, TypeOK, Unwatched
    <3>2. Followed(d)'
      BY <1>0, <3>1, PastStays DEF Followed, IInv
    <3>3. Sending(d)'
      BY <1>0, <3>1, PastStays DEF Sending, IInv
    <3> QED
      BY <1>1, <2>2, <2>4, <3>2, <3>3 DEF WatchBreaks
  <2>5. CASE Crash(d)
    <3>1. task'[d] = [at |-> "down"] /\ store'[d] = NoNodes /\ watch'[d].phase = "Init"
      BY <1>0, <2>5 DEF Crash, Become, TypeOK, Unwatched
    <3>2. Followed(d)' /\ Sending(d)'
      BY <3>1 DEF Followed, Sending, PastViews
    <3> QED
      BY <1>1, <2>2, <2>5, <3>2 DEF Crash
  <2>6. CASE Stream(d)
    <3>1. object' = object
      BY <2>6 DEF Stream, WatchInit, WatchList, WatchInitApply, WatchInitDone, WatchChange,
                  WatchBeat, Handle
    <3> QED
      BY <1>1, <2>2, <2>6, <3>1, StreamFollows
  <2>7. CASE \E ok \in BOOLEAN : Call(d, ok)
    BY <2>2, <2>7, CallFollows
  <2> QED
    BY <1>2, <2>3, <2>4, <2>5, <2>6, <2>7 DEF ControllerStep
<1>3. CASE Heartbeat
  <2>1. \A c \in Controller :
          /\ watch'[c].phase = watch[c].phase
          /\ watch'[c].seen = watch[c].seen
    BY <1>0, <1>3 DEF Heartbeat, TypeOK, WatchState
  <2>2. task' = task /\ store' = store /\ object' = object
    BY <1>3 DEF Heartbeat
  <2> QED
    BY <1>1, <2>1, <2>2, OthersFollow
<1>4. CASE Operator
  <2>1. task' = task /\ store' = store /\ watch' = watch
    BY <1>4 DEF Operator, ChangeNode, WriteSelectors, DeleteCapacity
  <2>2. Published'
    BY <1>0, <1>4, PastStays
    DEF Operator, ChangeNode, WriteSelectors, DeleteCapacity, Published
  <2> QED
    BY <2>1, <2>2, OthersFollow
<1>5. CASE UNCHANGED vars
  BY <1>1, <1>5, OthersFollow DEF vars
<1> QED
  BY <1>2, <1>3, <1>4, <1>5 DEF Next

LEMMA InvInit == Init => IInv
<1> SUFFICES ASSUME Init
             PROVE  IInv
  OBVIOUS
<1>1. TypeOK
  <2>1. history \in Seq(Views) /\ history # <<>>
    BY InitialNodesAssumption DEF Init
  <2> QED
    BY <2>1, ColdTypes, TaskStates DEF Init, TypeOK
<1>2. OneAtATime
  BY DEF Init, OneAtATime
<1>3. \A c \in Controller : Followed(c) /\ Sending(c)
  BY DEF Init, Followed, Sending, PastViews, Unwatched
<1>4. Published
  BY DEF Init, Published
<1> QED
  BY <1>1, <1>2, <1>3, <1>4 DEF IInv

LEMMA InvStep == IInv /\ [Next]_vars => IInv'
BY TypeStep, OneAtATimeStep, FollowStep DEF IInv

LEMMA Invariant == Spec => []IInv
BY InvInit, InvStep, PTL DEF Spec

-----------------------------------------------------------------------------
(***************************************************************************)
(* Label selectors                                                         *)
(***************************************************************************)

\* An expression of a valid selector holds of present labels just when the
\* standard accepts them.
LEMMA MeetsIsAccepts ==
  ASSUME NEW labels, \A label \in labels : label = <<label[1], label[2]>>,
         NEW req, req.operator \in {"In", "NotIn", "Exists", "DoesNotExist"}
  PROVE  Meets(labels, req) <=> Accepts(req, labels)
<1> DEFINE found == {label[2] : label \in {l \in labels : l[1] = req.key}}
<1>1. (\E label \in labels : label[1] = req.key) <=> found # {}
  OBVIOUS
<1>2. \A v : v \in found <=> <<req.key, v>> \in labels
  OBVIOUS
<1> HIDE DEF found
<1>3. (\E v \in req.values : <<req.key, v>> \in labels) <=> found \cap req.values # {}
  BY <1>2
<1>4. CASE req.operator = "In"
  BY <1>3, <1>4 DEF Meets, Accepts, found
<1>5. CASE req.operator = "NotIn"
  BY <1>3, <1>5 DEF Meets, Accepts, found
<1>6. CASE req.operator = "Exists"
  BY <1>1, <1>6 DEF Meets, Accepts, found
<1>7. CASE req.operator = "DoesNotExist"
  BY <1>1, <1>7 DEF Meets, Accepts, found
<1> QED
  BY <1>4, <1>5, <1>6, <1>7

\* A selector that is neither skipped nor empty matches present labels just when
\* the standard excludes them.
LEMMA MatchIsExcludes ==
  ASSUME NEW labels, \A label \in labels : label = <<label[1], label[2]>>, NEW selector
  PROVE  (ValidateSelector(selector) /\ ~SelectorIsEmpty(selector)
            /\ LabelsMatchSelector(labels, selector))
         <=> Excludes(selector, labels)
<1> SUFFICES ASSUME ValidateSelector(selector)
             PROVE  LabelsMatchSelector(labels, selector) <=>
                      /\ {req \in selector.matchExpressions : ~Accepts(req, labels)} = {}
                      /\ \A wanted \in selector.matchLabels : wanted \in labels
  BY DEF Excludes
<1>1. \A req \in selector.matchExpressions : Meets(labels, req) <=> Accepts(req, labels)
  BY MeetsIsAccepts DEF ValidateSelector
<1> QED
  BY <1>1 DEF LabelsMatchSelector

\* The filter of the code counts the nodes that the standard counts.
LEMMA SupplyIsStandard ==
  ASSUME NEW view \in Views, \A n \in Node : view[n] # NULL => view[n].labels # NULL,
         NEW selectors \in SelectorLists \cup {NULL}, NEW res \in Resource
  PROVE  SumNodeAllocatable(view, selectors).totals[res] = StandardSupply(view, selectors, res)
<1> DEFINE effective == EffectiveSelectors(selectors)
           lists == IF selectors = NULL THEN {} ELSE selectors
           Labels(n) == IF view[n].labels = NULL THEN {} ELSE view[n].labels
           counted == {n \in {m \in {k \in Node : view[k] # NULL} :
                                IsNodeCounted(view[m], effective)} :
                         view[n].allocatable # NULL}
           supply == {n \in Node : /\ view[n] # NULL
                                   /\ ~view[n].unschedulable
                                   /\ view[n].allocatable # NULL
                                   /\ \A s \in lists : ~Excludes(s, Labels(n))}
<1>1. ASSUME NEW n \in Node, view[n] # NULL
      PROVE  IsNodeCounted(view[n], effective) <=>
               ~view[n].unschedulable /\ \A s \in lists : ~Excludes(s, Labels(n))
  <2> DEFINE labels == view[n].labels
  <2>1. labels # NULL /\ \A label \in labels : label = <<label[1], label[2]>>
    BY <1>1, ShapesAssumption DEF Views
  <2>2. Labels(n) = labels
    BY <2>1
  <2> HIDE DEF labels
  <2>3. \A s \in lists : (ValidateSelector(s) /\ ~SelectorIsEmpty(s)
                            /\ LabelsMatchSelector(labels, s)) <=> Excludes(s, labels)
    BY <2>1, MatchIsExcludes
  <2>4. effective = {s \in lists : ValidateSelector(s)}
    BY DEF EffectiveSelectors
  <2> HIDE DEF lists, effective
  <2>5. LabelsMatchAnySelector(labels, effective) <=> \E s \in lists : Excludes(s, labels)
    BY <2>3, <2>4 DEF LabelsMatchAnySelector
  <2>6. IsNodeCounted(view[n], effective)
          <=> ~view[n].unschedulable /\ ~LabelsMatchAnySelector(labels, effective)
    BY <2>1 DEF IsNodeCounted, labels
  <2> QED
    BY <2>2, <2>5, <2>6
<1> HIDE DEF effective, lists
<1>2. counted = supply
  BY <1>1
<1>3. SumNodeAllocatable(view, selectors).totals[res]
        = SumFunction([n \in counted |-> Worth(view[n], res)])
  BY DEF SumNodeAllocatable, effective
<1>4. StandardSupply(view, selectors, res)
        = SumFunction([n \in supply |-> Worth(view[n], res)])
  BY DEF StandardSupply, lists
<1> QED
  BY <1>2, <1>3, <1>4

-----------------------------------------------------------------------------
(***************************************************************************)
(* Theorems                                                                *)
(***************************************************************************)

\* Every variable keeps its type; in particular no step of a controller that is
\* interrupted, retried or repeated leaves a task in a state of its own.
THEOREM SupplyTypes == Spec => []TypeOK
BY Invariant, PTL DEF IInv

\* Every published supply is that of one past moment of all nodes and of one list
\* of selectors, however the stream breaks, relists and catches up.
THEOREM OneMoment == Spec => []StatusExplained
<1>1. IInv => StatusExplained
  BY DEF IInv, StatusExplained, KnownStatuses, Sending, Published
<1> QED
  BY <1>1, Invariant, PTL

\* For every list of selectors and every state the nodes may have been in, the
\* supply is that of the standard semantics of label selectors (is_node_counted).
THEOREM FilterIsStandard == Spec => []FilterStandard
<1>1. IInv => FilterStandard
  <2> SUFFICES ASSUME IInv, NEW selectors \in SelectorLists \cup {NULL}, NEW res \in Resource
               PROVE  LET labelled == [n \in Node |->
                                         IF Nodes[n] # NULL /\ Nodes[n].labels = NULL
                                         THEN NULL ELSE Nodes[n]]
                      IN SumNodeAllocatable(labelled, selectors).totals[res]
                           = StandardSupply(labelled, selectors, res)
    BY DEF FilterStandard
  <2> DEFINE view == [n \in Node |-> IF Nodes[n] # NULL /\ Nodes[n].labels = NULL
                                     THEN NULL ELSE Nodes[n]]
  <2>1. Nodes \in Views
    BY NodesType DEF IInv
  <2>2. view \in Views /\ \A n \in Node : view[n] # NULL => view[n].labels # NULL
    BY <2>1 DEF Views, NodeState
  <2> HIDE DEF view
  <2>3. SumNodeAllocatable(view, selectors).totals[res] = StandardSupply(view, selectors, res)
    BY <2>2, SupplyIsStandard
  <2> QED
    BY <2>3 DEF view
<1> QED
  BY <1>1, Invariant, PTL

\* The controllers implement get-or-create: every step of theirs creates what is
\* missing or leaves the operators' selectors alone.
THEOREM GetOrCreate == Spec => SelectorsOwned
<1>1. Init => Ownership!Init
  BY DEF Init, Ownership!Init, Content
<1>2. IInv /\ [Next]_vars => [Ownership!Next]_Content
  <2> SUFFICES ASSUME IInv, [Next]_vars
               PROVE  [Ownership!Next]_Content
    OBVIOUS
  <2>1. object # NULL => object \in CapacityObject
    BY DEF IInv, TypeOK
  <2>2. CASE object' = object
    BY <2>2 DEF Content
  <2>3. ASSUME NEW c \in Controller, NEW ok \in BOOLEAN, EnsureCreate(c, ok)
        PROVE  [Ownership!Next]_Content
    BY <2>3 DEF EnsureCreate, DefaultCapacitySingleton, Content, Ownership!Next,
                Ownership!Appear
  <2>4. ASSUME NEW c \in Controller, NEW ok \in BOOLEAN, PatchStatus(c, ok)
        PROVE  [Ownership!Next]_Content
    <3>1. object # NULL => object'.selectors = object.selectors
      BY <2>1, <2>4 DEF PatchStatus, CapacityObject
    <3> QED
      BY <2>4, <3>1 DEF PatchStatus, Content, Ownership!Next, Ownership!Remove
  <2>5. ASSUME NEW selectors \in SelectorLists, WriteSelectors(selectors)
        PROVE  [Ownership!Next]_Content
    BY <2>5 DEF WriteSelectors, Content, Ownership!Next, Ownership!Write, Ownership!Remove
  <2>6. CASE DeleteCapacity
    BY <2>6 DEF DeleteCapacity, Content, Ownership!Next, Ownership!Remove
  <2> QED
    BY <2>2, <2>3, <2>4, <2>5, <2>6
    DEF Next, ControllerStep, Start, Stream, WatchInit, WatchList, WatchInitApply,
        WatchInitDone, WatchChange, WatchBeat, Handle, WatchBreaks, Crash, Call, EnsureGet,
        ReadSelectors, ListNodes, Heartbeat, Operator, ChangeNode, vars
<1> QED
  BY <1>1, <1>2, Invariant, PTL DEF Spec, SelectorsOwned, Ownership!Spec

=============================================================================
