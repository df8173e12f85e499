---------------------------- MODULE NodeCapacity ----------------------------
(***************************************************************************)
(* The node capacity controllers: they keep the status of cluster-capacity *)
(* equal to the supply of the nodes that its selectors leave in.  There is *)
(* no ticker: after one bootstrap cycle only node events start a cycle.    *)
(*                                                                         *)
(* The stream of events is sequential.  The next one is taken when the     *)
(* cycle of the last one has ended, and the store changes only then: the   *)
(* events Init and InitApply of a relist leave it alone, InitDone replaces *)
(* it, and a live event changes one node.                                  *)
(***************************************************************************)
EXTENDS NodeFilter, Sequences

CONSTANTS
  Controller,     \* node capacity tasks, one per replica
  Shapes,         \* [Node -> the states a node may be in]
  InitialNodes,   \* the nodes at the start: a view
  SelectorLists,  \* what operators may write as nodeSelectors
  MaxChanges      \* bound: how often nodes join, change or leave

VARIABLES
  history,  \* the views of the nodes so far; the last one is now
  object,   \* cluster-capacity: [selectors, status], or NULL
  task,     \* [Controller -> where the task is between two awaits]
  store,    \* [Controller -> the reflector's view of the nodes]
  watch     \* [Controller -> the state of the event stream]

vars == <<history, object, task, store, watch>>

-----------------------------------------------------------------------------
NoNodes == [n \in Node |-> NULL]

NodeState == (UNION {Shapes[n] : n \in Node}) \cup {NULL}
Views     == [Node -> NodeState]

Nodes == history[Len(history)]

Status == [totals: Figures, nodeCount: Nat, excluded: Nat,
           byUnschedulable: Nat, bySelector: Nat]

CapacityObject ==
  [selectors: SelectorLists \cup {NULL}, status: Status \cup {NULL}]

ASSUME InitialNodesAssumption == InitialNodes \in Views

\* A label is a key and its value; what a node reports is not negative.
ASSUME ShapesAssumption ==
  \A state \in NodeState \ {NULL} :
    /\ state.labels # NULL => \A label \in state.labels : label = <<label[1], label[2]>>
    /\ state.allocatable # NULL =>
         \A res \in Resource : state.allocatable[res] \in Amount \cup {NULL}

\* The plain i64 additions over the nodes stay within i64.
ASSUME SupplyFitsAssumption ==
  \A view \in Views, selectors \in SelectorLists \cup {NULL}, res \in Resource :
    SumNodeAllocatable(view, selectors).totals[res] <= MaxI64

DefaultCapacitySingleton == [selectors |-> NULL, status |-> NULL]

NoStatus == [totals |-> Zero, nodeCount |-> 0, excluded |-> 0,
             byUnschedulable |-> 0, bySelector |-> 0]

\* A status waits in get and create for its retry, NULL means the bootstrap;
\* a view waits in selectors, NULL means the bootstrap as well.
TaskState ==
  [at: {"down", "wait"}]
  \cup [at: {"get", "create"}, status: Status \cup {NULL}]
  \cup [at: {"selectors"}, view: Views \cup {NULL}]
  \cup [at: {"list"}, selectors: SelectorLists \cup {NULL}]
  \cup [at: {"patch"}, status: Status, retry: BOOLEAN]

\* phase: the event that comes next.  seen: how much of the history the stream
\* has delivered.  left: nodes of a relist to come.  beat: an event to come that
\* changes nothing.
WatchState ==
  [phase: {"Init", "List", "InitApply", "Live"}, seen: Nat, left: 0 .. Cardinality(Node), beat: BOOLEAN]

Unwatched == [phase |-> "Init", seen |-> 0, left |-> 0, beat |-> FALSE]

TypeOK ==
  /\ history \in Seq(Views) /\ history # <<>>
  /\ object \in CapacityObject \cup {NULL}
  /\ task \in [Controller -> TaskState]
  /\ store \in [Controller -> Views]
  /\ watch \in [Controller -> WatchState]

Init ==
  /\ history = <<InitialNodes>>
  /\ object = NULL
  /\ task = [c \in Controller |-> [at |-> "down"]]
  /\ store = [c \in Controller |-> NoNodes]
  /\ watch = [c \in Controller |-> Unwatched]

-----------------------------------------------------------------------------
(***************************************************************************)
(* Controller c.  ok says whether the API call of a step succeeds.  A call *)
(* that takes effect and loses its answer goes on like one that succeeds:  *)
(* only the log line differs.                                              *)
(***************************************************************************)

Become(c, state) == task' = [task EXCEPT ![c] = state]

Start(c) ==
  /\ task[c].at = "down"
  /\ Become(c, [at |-> "get", status |-> NULL])
  /\ UNCHANGED <<history, object, store, watch>>

\* Mutant: the bootstrap cycle is skipped, there is nothing to patch yet.
EnsuredPatches(status) == [at |-> "patch", status |-> status, retry |-> TRUE]

\* Where ensure_singleton returns to, whatever its calls have answered: to the
\* bootstrap cycle or to the retry of a patch.
Ensured(status) ==
  IF status = NULL THEN [at |-> "selectors", view |-> NULL]
  ELSE [at |-> "patch", status |-> status, retry |-> TRUE]

EnsureGet(c, ok) ==
  /\ task[c].at = "get"
  /\ Become(c, IF ok /\ object = NULL
               THEN [at |-> "create", status |-> task[c].status]
               ELSE Ensured(task[c].status))
  /\ UNCHANGED <<history, object, store, watch>>

\* Mutant: create-or-replace.
EnsureCreateReplaces(c, ok) ==
  /\ task[c].at = "create"
  /\ object' = IF ok THEN DefaultCapacitySingleton ELSE object
  /\ Become(c, Ensured(task[c].status))
  /\ UNCHANGED <<history, store, watch>>

\* An object that has appeared meanwhile answers 409 and stays as it is.
EnsureCreate(c, ok) ==
  /\ task[c].at = "create"
  /\ object' = IF ok /\ object = NULL THEN DefaultCapacitySingleton ELSE object
  /\ Become(c, Ensured(task[c].status))
  /\ UNCHANGED <<history, store, watch>>

Patch(status) == [at |-> "patch", status |-> status, retry |-> FALSE]

\* Selectors that cannot be read, or whose object is missing, exclude nothing.
ReadSelectors(c, ok) ==
  LET selectors == IF ok /\ object # NULL THEN object.selectors ELSE NULL
      view      == task[c].view
  IN /\ task[c].at = "selectors"
     /\ Become(c, IF view = NULL THEN [at |-> "list", selectors |-> selectors]
                  ELSE Patch(SumNodeAllocatable(view, selectors)))
     /\ UNCHANGED <<history, object, store, watch>>

\* The bootstrap lists the nodes itself; a failed list is a supply of nothing.
ListNodes(c, ok) ==
  /\ task[c].at = "list"
  /\ Become(c, Patch(IF ok THEN SumNodeAllocatable(Nodes, task[c].selectors)
                     ELSE NoStatus))
  /\ UNCHANGED <<history, object, store, watch>>

\* Mutant: the missing object is not recreated.
PatchStatusNoRecreate(c, ok) ==
  /\ task[c].at = "patch"
  /\ object' = IF ok /\ object # NULL
               THEN [object EXCEPT !.status = task[c].status] ELSE object
  /\ Become(c, [at |-> "wait"])
  /\ UNCHANGED <<history, store, watch>>

\* The merge patch of whatever object there is; a 404 recreates it and retries
\* once, any other failure waits for the next event.
PatchStatus(c, ok) ==
  /\ task[c].at = "patch"
  /\ object' = IF ok /\ object # NULL
               THEN [object EXCEPT !.status = task[c].status] ELSE object
  /\ Become(c, IF ok /\ object = NULL /\ ~task[c].retry
               THEN [at |-> "get", status |-> task[c].status]
               ELSE [at |-> "wait"])
  /\ UNCHANGED <<history, store, watch>>

-----------------------------------------------------------------------------
(***************************************************************************)
(* The event stream.  Every event starts a cycle with the store it leaves. *)
(***************************************************************************)

Waiting(c, phase) == task[c].at = "wait" /\ watch[c].phase = phase

Handle(c, view, stream) ==
  /\ store' = [store EXCEPT ![c] = view]
  /\ watch' = [watch EXCEPT ![c] = stream]
  /\ Become(c, [at |-> "selectors", view |-> view])
  /\ UNCHANGED <<history, object>>

WatchInit(c) ==
  Waiting(c, "Init") /\ Handle(c, store[c], [watch[c] EXCEPT !.phase = "List"])

\* The list behind a relist: no event by itself.
WatchList(c) ==
  /\ Waiting(c, "List")
  /\ watch' = [watch EXCEPT ![c] =
                 [phase |-> "InitApply", seen |-> Len(history), beat |-> FALSE,
                  left |-> Cardinality({n \in Node : Nodes[n] # NULL})]]
  /\ UNCHANGED <<history, object, task, store>>

\* Mutant: the nodes of a relist enter the store one by one.
WatchInitApplyEarly(c) ==
  /\ Waiting(c, "InitApply")
  /\ watch[c].left > 0
  /\ \E n \in Node :
       Handle(c, [store[c] EXCEPT ![n] = history[watch[c].seen][n]],
              [watch[c] EXCEPT !.left = @ - 1])

WatchInitApply(c) ==
  /\ Waiting(c, "InitApply")
  /\ watch[c].left > 0
  /\ Handle(c, store[c], [watch[c] EXCEPT !.left = @ - 1])

WatchInitDone(c) ==
  /\ Waiting(c, "InitApply")
  /\ watch[c].left = 0
  /\ Handle(c, history[watch[c].seen], [watch[c] EXCEPT !.phase = "Live"])

\* The event of the next change updates the node that it is about.
WatchChange(c) ==
  LET k == watch[c].seen
  IN /\ Waiting(c, "Live")
     /\ k < Len(history)
     /\ \E n \in Node :
          /\ history[k + 1][n] # history[k][n]
          /\ Handle(c, [store[c] EXCEPT ![n] = history[k + 1][n]],
                    [watch[c] EXCEPT !.seen = k + 1])

\* A node's regular status update.
WatchBeat(c) ==
  /\ Waiting(c, "Live")
  /\ watch[c].seen = Len(history) /\ watch[c].beat
  /\ Handle(c, store[c], [watch[c] EXCEPT !.beat = FALSE])

\* The list fails or the watch has to start over; the error is logged.
WatchBreaks(c) ==
  /\ task[c].at = "wait" /\ watch[c].phase # "Init"
  /\ watch' = [watch EXCEPT ![c] = Unwatched]
  /\ UNCHANGED <<history, object, task, store>>

\* The store dies with the task.
Crash(c) ==
  /\ task[c].at # "down"
  /\ Become(c, [at |-> "down"])
  /\ store' = [store EXCEPT ![c] = NoNodes]
  /\ watch' = [watch EXCEPT ![c] = Unwatched]
  /\ UNCHANGED <<history, object>>

-----------------------------------------------------------------------------
(***************************************************************************)
(* The cluster: kubelets and operators                                     *)
(***************************************************************************)

\* A node joins, leaves, is cordoned, relabelled or resized.
ChangeNode(n) ==
  /\ Len(history) <= MaxChanges
  /\ \E state \in (Shapes[n] \cup {NULL}) \ {Nodes[n]} :
       history' = Append(history, [Nodes EXCEPT ![n] = state])
  /\ UNCHANGED <<object, task, store, watch>>

\* The kubelet of some node reports; live watches will see an event.
Heartbeat ==
  /\ Nodes # NoNodes
  /\ watch' = [c \in Controller |->
                 IF watch[c].phase \in {"InitApply", "Live"}
                 THEN [watch[c] EXCEPT !.beat = TRUE] ELSE watch[c]]
  /\ UNCHANGED <<history, object, task, store>>

WriteSelectors(selectors) ==
  /\ object' = [selectors |-> selectors,
                status    |-> IF object = NULL THEN NULL ELSE object.status]
  /\ UNCHANGED <<history, task, store, watch>>

DeleteCapacity ==
  /\ object # NULL
  /\ object' = NULL
  /\ UNCHANGED <<history, task, store, watch>>

-----------------------------------------------------------------------------
Call(c, ok) ==
  \/ EnsureGet(c, ok) \/ EnsureCreate(c, ok)
  \/ ReadSelectors(c, ok) \/ ListNodes(c, ok) \/ PatchStatus(c, ok)

Stream(c) ==
  \/ WatchInit(c) \/ WatchList(c) \/ WatchInitApply(c) \/ WatchInitDone(c)
  \/ WatchChange(c) \/ WatchBeat(c)

ControllerStep(c) ==
  \/ Start(c) \/ Stream(c) \/ WatchBreaks(c) \/ Crash(c)
  \/ \E ok \in BOOLEAN : Call(c, ok)

Operator ==
  \/ \E n \in Node : ChangeNode(n)
  \/ \E selectors \in SelectorLists : WriteSelectors(selectors)
  \/ DeleteCapacity

Next == (\E c \in Controller : ControllerStep(c)) \/ Heartbeat \/ Operator

Spec == Init /\ [][Next]_vars

\* The orchestrator restarts tasks, calls are answered, the watcher goes on
\* and kubelets report now and then.
Fairness ==
  /\ \A c \in Controller : WF_vars(Start(c) \/ Stream(c) \/ Call(c, TRUE))
  /\ WF_vars(Heartbeat)

FairSpec == Spec /\ Fairness

-----------------------------------------------------------------------------
(***************************************************************************)
(* Properties                                                              *)
(***************************************************************************)

\* The statuses at the API server and on their way there.
KnownStatuses ==
  LET sending == {c \in Controller : task[c].at \in {"get", "create", "patch"}}
  IN ((IF object = NULL THEN {} ELSE {object.status})
        \cup {task[c].status : c \in sending}) \ {NULL}

\* The moments a view can be of: a past of the cluster, or an empty store.
PastViews == {history[k] : k \in 1 .. Len(history)} \cup {NoNodes}

Explained(status) ==
  \/ status = NoStatus
  \/ \E view \in PastViews, selectors \in SelectorLists \cup {NULL} :
       status = SumNodeAllocatable(view, selectors)

\* Every supply that is published is the supply of one moment: all its figures
\* come from one past state of all nodes, never a mixture of two, and from one
\* list of selectors, or they are the zeros of a bootstrap that could not list
\* the nodes (reflector store, for_each in run, bootstrap).
StatusExplained == \A status \in KnownStatuses : Explained(status)

\* The filter and the sum mean what the standard semantics of label selectors
\* says, for every past and present of the labelled nodes (is_node_counted).
FilterStandard ==
  \A selectors \in SelectorLists \cup {NULL} :
    LET labelled == [n \in Node |-> IF Nodes[n] # NULL /\ Nodes[n].labels = NULL
                                    THEN NULL ELSE Nodes[n]]
        status   == SumNodeAllocatable(labelled, selectors)
    IN \A res \in Resource :
         status.totals[res] = StandardSupply(labelled, selectors, res)

\* The part of the object that operators own.
Content == IF object = NULL THEN NULL ELSE [selectors |-> object.selectors]

Ownership ==
  INSTANCE Singleton WITH
    Absent  <- NULL,
    Default <- [selectors |-> NULL],
    Written <- [selectors: SelectorLists],
    content <- Content

\* get-or-create implements the abstract singleton: no step of a controller,
\* not even delete-and-recreate with its retry, touches selectors that are
\* there (ensure_singleton, patch_status).
SelectorsOwned == Ownership!Spec

\* A call fails, and the step is not one that a call which succeeds may take.
CallLost(c) == Call(c, FALSE) /\ ~Call(c, TRUE)

\* Whatever else may change the outcome, or undo a step of a controller.
Disturbance ==
  \/ \E c \in Controller : Crash(c) \/ WatchBreaks(c) \/ CallLost(c)
  \/ Operator

\* Once the cluster is quiet and has a node, whose kubelet reports, the object
\* exists and comes to hold the supply of now for good: zeros of a bootstrap,
\* failed reads and deletions are all repaired by later node events (run).
SupplyConverges ==
  <>[][~Disturbance]_vars /\ []<>(Nodes # NoNodes) =>
    <>[](object # NULL /\ object.status = SumNodeAllocatable(Nodes, object.selectors))

=============================================================================
