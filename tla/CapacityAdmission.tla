-------------------------- MODULE CapacityAdmission --------------------------
(***************************************************************************)
(* The allocation controller and the admission webhook around the API      *)
(* server: pods are reviewed against a status that a controller computed   *)
(* some time ago from its own, possibly older, copies of pods and supply.  *)
(*                                                                         *)
(* Every replica of the deployment runs one controller task and one        *)
(* webhook.  The two share no state, so they are separate processes here;  *)
(* a crash of the replica is a crash of both, in either order.             *)
(*                                                                         *)
(* A reflector's store is the watched object as it was at some earlier     *)
(* time, and empty until its first list: a Sync action brings it up to     *)
(* date, and a delayed or broken watch is a Sync that has not happened.    *)
(***************************************************************************)
EXTENDS Decision, Demand

CONSTANTS
  Controller,   \* allocation controller tasks
  Webhook,      \* admission servers
  Namespace,    \* [Pod -> namespace]
  Class,        \* [Pod -> priorityClassName, or NULL]
  Specs,        \* what operators and the equalizer may write as spec
  Supplies,     \* what the node controller may report as supply
  LaterPhases,  \* bound: the phases that pods go to after Pending
  MaxClock      \* bound: the last second of the clock

ASSUME BoundsAssumption == LaterPhases \subseteq Phase /\ MaxClock \in Nat

VARIABLES
  clock,        \* seconds, the same for all processes
  allocation,   \* cluster-allocation at the API server, or NULL
  capacity,     \* supply in the status of cluster-capacity, or NULL
  pods,         \* [Pod -> PodState]
  task,         \* [Controller -> where the task is between two awaits]
  podStore,     \* [Controller -> [view, asOf], or NULL]
  supplyStore,  \* [Controller -> supply last seen, or NULL]
  allocCache,   \* [Webhook -> Allocation last seen, or NULL]
  supplyCache   \* [Webhook -> supply last seen, or NULL]

api    == <<allocation, capacity, pods>>
stores == <<podStore, supplyStore>>
caches == <<allocCache, supplyCache>>
vars   == <<clock, api, task, stores, caches>>

-----------------------------------------------------------------------------
(***************************************************************************)
(* Data                                                                    *)
(***************************************************************************)

\* "admitted": allowed by a webhook, not yet stored by the API server.
PodState == {"absent", "admitted"} \cup Phase
View     == [Pod -> {"absent"} \cup Phase]

\* counted and asOf record which pods were summed and when the pod store last
\* agreed with the cluster (NULL: never).  No code reads them.
Status == [allocated: Figures, ceiling: [Resource -> Int], budgets: Percent,
           stamp: Nat, counted: SUBSET Pod, asOf: Nat \cup {NULL}]

DefaultAllocationSingleton ==
  [budget |-> 80, override |-> [res \in Resource |-> NULL], mode |-> "enforce",
   namespaces |-> {}, classes |-> {}]

AllocationSpec ==
  [budget: Int, override: [Resource -> Int \cup {NULL}],
   mode: {"enforce", "dry-run", NULL},
   namespaces: SUBSET STRING, classes: SUBSET STRING]

AllocationObject == [spec: AllocationSpec, status: Status \cup {NULL}]

ASSUME InputsAssumption ==
  /\ Specs \subseteq AllocationSpec
  /\ Supplies \subseteq Figures
  /\ NULL \notin AllocationObject

StoredPods == [p \in Pod |-> IF pods[p] = "admitted" THEN "absent" ELSE pods[p]]

NoPods == [p \in Pod |-> "absent"]

ColdStore == [view |-> NoPods, asOf |-> NULL]

\* Pods that hold capacity, or will as soon as the API server has stored them.
Occupied == {p \in Pod : pods[p] # "absent" /\ IsNonTerminal(pods[p])}

CreateRequest(p) ==
  [operation |-> "CREATE", namespace |-> Namespace[p], class |-> Class[p],
   new |-> Request[p], old |-> NULL]

\* A missing supply counts as none.
BuildAllocationStatus(store, supply, budgets, now) ==
  [allocated |-> SumPodAllocation(store.view),
   ceiling   |-> CeilingPerResource(IF supply = NULL THEN Zero ELSE supply, budgets),
   budgets   |-> budgets,
   stamp     |-> now,
   counted   |-> CountedPods(store.view),
   asOf      |-> store.asOf]

TaskState ==
  [at: {"down", "ensure", "create", "idle", "reensure", "recreate"}]
  \cup [at: {"snapshot"}, budgets: Percent]
  \cup [at: {"patch"}, status: Status]

Down == [at |-> "down"]
Idle == [at |-> "idle"]

TypeOK ==
  /\ clock \in 0 .. MaxClock
  /\ allocation \in AllocationObject \cup {NULL}
  /\ capacity \in Supplies \cup {NULL}
  /\ pods \in [Pod -> PodState]
  /\ task \in [Controller -> TaskState]
  /\ podStore \in [Controller -> [view: View, asOf: Nat \cup {NULL}]]
  /\ supplyStore \in [Controller -> Supplies \cup {NULL}]
  /\ allocCache \in [Webhook -> AllocationObject \cup {NULL}]
  /\ supplyCache \in [Webhook -> Supplies \cup {NULL}]

Init ==
  /\ clock = 0
  /\ allocation = NULL
  /\ capacity = NULL
  /\ pods = NoPods
  /\ task = [c \in Controller |-> Down]
  /\ podStore = [c \in Controller |-> ColdStore]
  /\ supplyStore = [c \in Controller |-> NULL]
  /\ allocCache = [w \in Webhook |-> NULL]
  /\ supplyCache = [w \in Webhook |-> NULL]

-----------------------------------------------------------------------------
(***************************************************************************)
(* Allocation controller c.  Every API call is an await: the other         *)
(* processes run between the step that issues it and the step after it.    *)
(***************************************************************************)

Become(c, state) == task' = [task EXCEPT ![c] = state]

Start(c) ==
  /\ task[c] = Down
  /\ Become(c, [at |-> "ensure"])
  /\ UNCHANGED <<clock, api, stores, caches>>

\* The get of ensure_singleton: only a 404 leads to a create.
EnsureGet(c) ==
  /\ task[c].at \in {"ensure", "reensure"}
  /\ Become(c, CASE allocation # NULL -> Idle
                 [] task[c].at = "ensure" -> [at |-> "create"]
                 [] OTHER -> [at |-> "recreate"])
  /\ UNCHANGED <<clock, api, stores, caches>>

\* Mutant: create-or-replace.
EnsureCreateReplaces(c) ==
  /\ task[c].at \in {"create", "recreate"}
  /\ allocation' = [spec |-> DefaultAllocationSingleton, status |-> NULL]
  /\ Become(c, Idle)
  /\ UNCHANGED <<clock, capacity, pods, stores, caches>>

\* The create: a 409 (the object has appeared meanwhile) counts as success.
EnsureCreate(c) ==
  /\ task[c].at \in {"create", "recreate"}
  /\ allocation' = IF allocation = NULL
                   THEN [spec |-> DefaultAllocationSingleton, status |-> NULL]
                   ELSE allocation
  /\ Become(c, Idle)
  /\ UNCHANGED <<clock, capacity, pods, stores, caches>>

\* Mutant: a singleton that was deleted stays away.
ReadBudgetsNoRecreate(c) ==
  /\ task[c] = Idle
  /\ allocation # NULL
  /\ Become(c, [at |-> "snapshot",
                budgets |-> ResolveEffectiveBudgets(allocation.spec)])
  /\ UNCHANGED <<clock, api, stores, caches>>

\* Mutant: a status that another controller has written is taken as done.
ReadBudgetsOnce(c) ==
  /\ task[c] = Idle
  /\ ~(allocation # NULL /\ allocation.status # NULL)
  /\ Become(c, IF allocation = NULL THEN [at |-> "reensure"]
               ELSE [at |-> "snapshot",
                     budgets |-> ResolveEffectiveBudgets(allocation.spec)])
  /\ UNCHANGED <<clock, api, stores, caches>>

\* recompute reads the budgets, or recreates the missing object and returns.
ReadBudgets(c) ==
  /\ task[c] = Idle
  /\ Become(c, IF allocation = NULL THEN [at |-> "reensure"]
               ELSE [at |-> "snapshot",
                     budgets |-> ResolveEffectiveBudgets(allocation.spec)])
  /\ UNCHANGED <<clock, api, stores, caches>>

\* The response is in: sum the stores and send the status.
Snapshot(c) ==
  /\ task[c].at = "snapshot"
  /\ Become(c, [at |-> "patch",
                status |-> BuildAllocationStatus(podStore[c], supplyStore[c],
                                                 task[c].budgets, clock)])
  /\ UNCHANGED <<clock, api, stores, caches>>

\* The merge patch replaces the whole status of whatever object there is now;
\* without an object it is a 404, which is only logged.
PatchStatus(c) ==
  /\ task[c].at = "patch"
  /\ allocation' = IF allocation = NULL THEN NULL
                   ELSE [allocation EXCEPT !.status = task[c].status]
  /\ Become(c, Idle)
  /\ UNCHANGED <<clock, capacity, pods, stores, caches>>

\* An API call fails without effect: logged, and tried again at a later tick.
ApiError(c) ==
  /\ task[c].at \notin {"down", "snapshot", "idle"}
  /\ Become(c, Idle)
  /\ UNCHANGED <<clock, api, stores, caches>>

\* The reflectors run beside the task once ensure_singleton has returned.
Reflecting(c) == task[c].at \notin {"down", "ensure", "create"}

SyncPods(c) ==
  /\ Reflecting(c)
  /\ podStore' = [podStore EXCEPT ![c] = [view |-> StoredPods, asOf |-> clock]]
  /\ UNCHANGED <<clock, api, task, supplyStore, caches>>

SyncSupply(c) ==
  /\ Reflecting(c)
  /\ supplyStore' = [supplyStore EXCEPT ![c] = capacity]
  /\ UNCHANGED <<clock, api, task, podStore, caches>>

\* The task's stores die with it; what it has sent may still arrive, which is
\* a PatchStatus or EnsureCreate before the crash.
Crash(c) ==
  /\ task[c] # Down
  /\ Become(c, Down)
  /\ podStore' = [podStore EXCEPT ![c] = ColdStore]
  /\ supplyStore' = [supplyStore EXCEPT ![c] = NULL]
  /\ UNCHANGED <<clock, api, caches>>

-----------------------------------------------------------------------------
(***************************************************************************)
(* Webhook w                                                               *)
(***************************************************************************)

SyncAllocation(w) ==
  /\ allocCache' = [allocCache EXCEPT ![w] = allocation]
  /\ UNCHANGED <<clock, api, task, stores, supplyCache>>

SyncCapacity(w) ==
  /\ supplyCache' = [supplyCache EXCEPT ![w] = capacity]
  /\ UNCHANGED <<clock, api, task, stores, allocCache>>

\* A restarted webhook serves from empty caches until they are synced.
Restart(w) ==
  /\ allocCache' = [allocCache EXCEPT ![w] = NULL]
  /\ supplyCache' = [supplyCache EXCEPT ![w] = NULL]
  /\ UNCHANGED <<clock, api, task, stores>>

Answer(w, p) == Handle(CreateRequest(p), allocCache[w], supplyCache[w], clock)

\* The review of a new pod.  A rejection changes nothing, here or there.
Review(w, p) ==
  /\ pods[p] = "absent"
  /\ Answer(w, p).allowed
  /\ pods' = [pods EXCEPT ![p] = "admitted"]
  /\ UNCHANGED <<clock, allocation, capacity, task, stores, caches>>

-----------------------------------------------------------------------------
(***************************************************************************)
(* The rest of the cluster                                                 *)
(***************************************************************************)

PodStep(p, state) ==
  /\ pods' = [pods EXCEPT ![p] = state]
  /\ UNCHANGED <<clock, allocation, capacity, task, stores, caches>>

\* An admitted pod is stored, or refused by a later stage of the API server.
Persist(p) == pods[p] = "admitted" /\ PodStep(p, "Pending")
Refuse(p)  == pods[p] = "admitted" /\ PodStep(p, "absent")

\* Pods of the webhook's namespace are never sent for review.
CreateUnreviewed(p) ==
  /\ pods[p] = "absent"
  /\ Namespace[p] = WebhookNamespace
  /\ PodStep(p, "Pending")

\* The kubelet moves a pod between phases, until one of them is terminal.
ChangePhase(p, phase) ==
  /\ pods[p] \in Phase /\ IsNonTerminal(pods[p])
  /\ phase # pods[p]
  /\ PodStep(p, phase)

Delete(p) == pods[p] \in Phase /\ PodStep(p, "absent")

\* kubectl apply or the equalizer; the status is kept.
WriteSpec(spec) ==
  /\ allocation' = [spec |-> spec,
                    status |-> IF allocation = NULL THEN NULL ELSE allocation.status]
  /\ UNCHANGED <<clock, capacity, pods, task, stores, caches>>

DeleteAllocation ==
  /\ allocation # NULL
  /\ allocation' = NULL
  /\ UNCHANGED <<clock, capacity, pods, task, stores, caches>>

\* The node controller reports a supply, or its object is deleted.
WriteCapacity(supply) ==
  /\ capacity' = supply
  /\ UNCHANGED <<clock, allocation, pods, task, stores, caches>>

Tick ==
  /\ clock < MaxClock
  /\ clock' = clock + 1
  /\ UNCHANGED <<api, task, stores, caches>>

-----------------------------------------------------------------------------
Recompute(c) == ReadBudgets(c) \/ Snapshot(c) \/ PatchStatus(c)

ControllerStep(c) ==
  \/ Start(c) \/ EnsureGet(c) \/ EnsureCreate(c) \/ Recompute(c)
  \/ ApiError(c) \/ SyncPods(c) \/ SyncSupply(c) \/ Crash(c)

WebhookStep(w) ==
  \/ SyncAllocation(w) \/ SyncCapacity(w) \/ Restart(w)
  \/ \E p \in Pod : Review(w, p)

PodLife(p) ==
  \/ Persist(p) \/ Refuse(p) \/ CreateUnreviewed(p)
  \/ \E phase \in LaterPhases : ChangePhase(p, phase)
  \/ Delete(p)

Operator ==
  \/ \E spec \in Specs : WriteSpec(spec)
  \/ DeleteAllocation
  \/ \E supply \in Supplies \cup {NULL} : WriteCapacity(supply)

Next ==
  \/ \E c \in Controller : ControllerStep(c)
  \/ \E w \in Webhook : WebhookStep(w)
  \/ \E p \in Pod : PodLife(p)
  \/ Operator
  \/ Tick

Spec == Init /\ [][Next]_vars

\* Kubernetes restarts tasks, calls are answered, and the 2 s ticker and the
\* watches go on.  Nothing is assumed of pods, operators or the clock.
Fairness ==
  /\ \A c \in Controller :
       /\ WF_vars(Start(c) \/ EnsureGet(c) \/ EnsureCreate(c) \/ Recompute(c))
       /\ WF_vars(SyncPods(c))
       /\ WF_vars(SyncSupply(c))
  /\ \A w \in Webhook : WF_vars(SyncAllocation(w))

FairSpec == Spec /\ Fairness

-----------------------------------------------------------------------------
(***************************************************************************)
(* Properties                                                              *)
(***************************************************************************)

\* The statuses in the API server, in the caches and on their way there.
KnownStatuses ==
  LET objects == ({allocation} \cup {allocCache[w] : w \in Webhook}) \ {NULL}
      sending == {c \in Controller : task[c].at = "patch"}
  IN ({o.status : o \in objects} \cup {task[c].status : c \in sending}) \ {NULL}

Coherent(status, now) ==
  /\ \A res \in Resource : status.allocated[res] = Total(status.counted, res)
  /\ status.asOf = NULL => status.counted = {}
  /\ status.asOf # NULL => status.asOf <= status.stamp
  /\ status.stamp <= now

\* The figures of a status belong together wherever it has travelled: allocated
\* is the sum over one set of pods, a pod store that was never synced counts
\* none, and no status is newer than the time or older than its data.
StatusCoherent == \A status \in KnownStatuses : Coherent(status, clock)

\* Webhook w lets pod p in because it fits the budget.
WithinBudget(w, p) == Review(w, p) /\ Answer(w, p).verdict = "allow"

\* How far an admission can overcommit (webhook/handler.rs, evaluate): after it
\* the pods together exceed the ceiling the webhook knew by no more than the
\* pods that the webhook's status had not counted.  With a status that counts
\* every pod there is no overcommit at all.
AdmissionBounded ==
  [][\A w \in Webhook, p \in Pod : WithinBudget(w, p) =>
       LET status == allocCache[w].status
       IN \A res \in Resource :
            Total(Occupied', res)
              <= status.ceiling[res] + Total(Occupied \ status.counted, res)]_vars

\* Only a status stamped within the freshness timeout lets a pod in by budget,
\* and only a controller stamps: when every controller has been silent for
\* longer, admission stops, whatever the caches hold (assess_freshness).
SilenceStopsAdmission ==
  [][\A w \in Webhook, p \in Pod : WithinBudget(w, p) =>
       allocCache[w].status.stamp \in (clock - FreshnessTimeout) .. clock]_vars

\* What the controllers do to the singleton never touches a spec that is there:
\* get-or-create loses every race against an operator (ensure_singleton).
OperatorSpecPreserved ==
  [][(\E c \in Controller : ControllerStep(c)) /\ allocation # NULL =>
       allocation' # NULL /\ allocation'.spec = allocation.spec]_vars

\* A call fails, and the step is not one that a call which succeeds may take (a
\* patch that changes nothing looks like one that failed).
CallLost(c) == ApiError(c) /\ ~(EnsureGet(c) \/ EnsureCreate(c) \/ PatchStatus(c))

\* Whatever else may change the outcome, or undo a step of a controller.
Disturbance ==
  \/ \E c \in Controller : Crash(c) \/ CallLost(c)
  \/ \E w \in Webhook : Restart(w) \/ \E p \in Pod : Review(w, p)
  \/ \E p \in Pod : PodLife(p)
  \/ Operator

\* The object everyone should see: the singleton with the figures of now.
UpToDate(object) ==
  /\ object # NULL
  /\ object.status # NULL
  /\ object.status.counted = CountedPods(StoredPods)
  /\ object.status.allocated = SumPodAllocation(StoredPods)
  /\ object.status.budgets = ResolveEffectiveBudgets(object.spec)
  /\ object.status.ceiling =
       CeilingPerResource(IF capacity = NULL THEN Zero ELSE capacity,
                          object.status.budgets)

\* Once the cluster is quiet, the singleton exists and its status, at the API
\* server and in every webhook, comes to reflect pods, supply and spec for good:
\* no lost update, race or deletion leaves a stale figure behind (run's ticker).
Converges ==
  <>[][~Disturbance]_vars =>
    <>[](UpToDate(allocation) /\ \A w \in Webhook : UpToDate(allocCache[w]))

-----------------------------------------------------------------------------
(***************************************************************************)
(* What the documentation says of the system                               *)
(***************************************************************************)

\* README.md: any admission that would push a resource past its budget is
\* rejected.  (Of a synced pod store's status: else see ColdStartRejects.)
RejectsOvershoot ==
  [][\A w \in Webhook, p \in Pod :
       WithinBudget(w, p) /\ allocCache[w].status.asOf # NULL =>
         \A res \in Resource :
           Total(Occupied', res) <= allocCache[w].status.ceiling[res]]_vars

\* docs/failure-modes.md: while the controller is cold, every pod is rejected.
ColdStartRejects ==
  [][\A w \in Webhook, p \in Pod :
       WithinBudget(w, p) => allocCache[w].status.asOf # NULL]_vars
=============================================================================
