----------------------- MODULE CapacityAdmissionProofs -----------------------
(***************************************************************************)
(* Theorems about CapacityAdmission, for every set of pods, replicas,      *)
(* requests, specs and supplies.                                           *)
(***************************************************************************)
EXTENDS CapacityAdmission, FiniteSetTheorems, TLAPS

-----------------------------------------------------------------------------
(***************************************************************************)
(* Totals of Demand: they follow from the cardinality of finite sets,      *)
(* because a total counts the units that a set of pods asks for.           *)
(***************************************************************************)

\* The request of a pod, as extract_pod_requests returns it, is an i64 >= 0.
LEMMA WeightType ==
  ASSUME NEW p \in Pod, NEW res \in Resource
  PROVE  Weight(p, res) \in Amount
<1>1. CASE Request[p] = NULL
  BY <1>1, MaxI64Assumption DEF Weight, Amount
<1>2. CASE Request[p] # NULL
  BY <1>2, PodAssumption DEF Weight, Figures
<1> QED
  BY <1>1, <1>2

\* A set of pods asks for finitely many units.
LEMMA UnitsFinite ==
  ASSUME NEW S \in SUBSET Pod, NEW res \in Resource
  PROVE  IsFiniteSet(Units(S, res))
<1> DEFINE I == 0 .. MaxI64
<1>1. IsFiniteSet(I)
  BY MaxI64Assumption, 0 \in Int, MaxI64 \in Int, FS_Interval
<1>2. Units(S, res) \in SUBSET (Pod \X I)
  BY WeightType, MaxI64Assumption DEF Units, Amount
<1> HIDE DEF I
<1>3. IsFiniteSet(Pod \X I)
  BY <1>1, PodAssumption, FS_Product
<1> QED
  BY <1>2, <1>3, FS_Subset

\* The sum over a set of pods is an i64, as sum_pod_allocation needs it to be.
LEMMA TotalType ==
  ASSUME NEW S \in SUBSET Pod, NEW res \in Resource
  PROVE  Total(S, res) \in Amount
<1>1. Units(S, res) \in SUBSET Units(Pod, res)
  BY DEF Units
<1>2. IsFiniteSet(Units(Pod, res))
  BY UnitsFinite
<1>3. Total(S, res) <= Total(Pod, res) /\ Total(S, res) \in Nat /\ Total(Pod, res) \in Nat
  BY <1>1, <1>2, UnitsFinite, FS_Subset, FS_CardinalityType DEF Total
<1> QED
  BY <1>3, FitsI64Assumption, MaxI64Assumption DEF Amount

\* A total is at most what a covering family of sets asks for together.
LEMMA TotalCover ==
  ASSUME NEW S \in SUBSET Pod, NEW T \in SUBSET Pod, NEW R \in SUBSET Pod,
         R \subseteq S \cup T, NEW res \in Resource
  PROVE  Total(R, res) <= Total(S, res) + Total(T, res)
<1> DEFINE A == Units(S, res)
           B == Units(T, res)
           C == Units(R, res)
<1>1. IsFiniteSet(A) /\ IsFiniteSet(B)
  BY UnitsFinite
<1>2. C \in SUBSET (A \cup B)
  BY DEF Units
<1> HIDE DEF A, B, C
<1>3. IsFiniteSet(A \cup B) /\ IsFiniteSet(A \cap B)
  BY <1>1, FS_Union, FS_Intersection
<1>4. Cardinality(A \cup B) = Cardinality(A) + Cardinality(B) - Cardinality(A \cap B)
  BY <1>1, FS_Union
<1>5. IsFiniteSet(C) /\ Cardinality(C) <= Cardinality(A \cup B)
  BY <1>2, <1>3, FS_Subset
<1>6. /\ Cardinality(A) \in Nat /\ Cardinality(B) \in Nat /\ Cardinality(C) \in Nat
      /\ Cardinality(A \cap B) \in Nat /\ Cardinality(A \cup B) \in Nat
  BY <1>1, <1>3, <1>5, FS_CardinalityType
<1>7. Cardinality(C) <= Cardinality(A) + Cardinality(B)
  BY <1>4, <1>5, <1>6
<1> QED
  BY <1>7 DEF A, B, C, Total

\* The total of one pod is its request.
LEMMA TotalSingle ==
  ASSUME NEW p \in Pod, NEW res \in Resource
  PROVE  Total({p}, res) = Weight(p, res)
<1> DEFINE n == Weight(p, res)
           I == 1 .. n
           P == {p}
<1>1. n \in Nat
  BY WeightType, MaxI64Assumption DEF Amount
<1>2. Units({p}, res) = P \X I
  BY DEF Units
<1>3. IsFiniteSet(P) /\ Cardinality(P) = 1
  BY FS_Singleton
<1> HIDE DEF n
<1>4. IsFiniteSet(I) /\ Cardinality(I) = n
  BY <1>1, FS_Interval
<1> HIDE DEF I, P
<1>5. Cardinality(P \X I) = Cardinality(P) * Cardinality(I)
  BY <1>3, <1>4, FS_Product
<1>6. Cardinality(P \X I) = n
  BY <1>1, <1>3, <1>4, <1>5
<1> QED
  BY <1>2, <1>6 DEF n, Total

\* Only pods that a view holds are counted.
LEMMA CountedPodsType ==
  ASSUME NEW view
  PROVE  CountedPods(view) \in SUBSET Pod
BY DEF CountedPods

\* The sum over any view is a pair of i64 figures.
LEMMA SumPodAllocationType ==
  ASSUME NEW view
  PROVE  SumPodAllocation(view) \in Figures
BY TotalType, CountedPodsType DEF SumPodAllocation, Figures

-----------------------------------------------------------------------------
(***************************************************************************)
(* Types                                                                   *)
(***************************************************************************)

\* Effective budgets are integers: an override counts only where there is one.
LEMMA BudgetsType ==
  ASSUME NEW spec \in AllocationSpec
  PROVE  ResolveEffectiveBudgets(spec) \in Percent
BY DEF AllocationSpec, ResolveEffectiveBudgets, Percent

\* The singleton that ensure_singleton creates is a valid Allocation.
LEMMA DefaultType == DefaultAllocationSingleton \in AllocationSpec
BY DEF DefaultAllocationSingleton, AllocationSpec

\* A ceiling is an integer, whatever the percentage an operator writes.
LEMMA CeilingType ==
  ASSUME NEW totals \in Figures, NEW budgets \in Percent
  PROVE  CeilingPerResource(totals, budgets) \in [Resource -> Int]
<1>1. ASSUME NEW total \in Int, NEW percent \in Int
      PROVE  CeilingSingle(total, percent) \in Int
  <2>1. Clamp(percent, 0, 100) \in Int
    BY DEF Clamp, Larger, Smaller
  <2>2. total * Clamp(percent, 0, 100) \in Int
    BY <2>1
  <2>3. (total * Clamp(percent, 0, 100)) \div 100 \in Int
    BY <2>2
  <2> QED
    BY <2>3, MaxI64Assumption DEF CeilingSingle, Smaller
<1> QED
  BY <1>1, MaxI64Assumption DEF CeilingPerResource, Figures, Amount, Percent

\* What a controller computes is a status.
LEMMA BuildType ==
  ASSUME NEW store \in [view: View, asOf: Nat \cup {NULL}],
         NEW supply \in Supplies \cup {NULL},
         NEW budgets \in Percent, NEW now \in Nat
  PROVE  BuildAllocationStatus(store, supply, budgets, now) \in Status
<1>1. (IF supply = NULL THEN Zero ELSE supply) \in Figures
  BY InputsAssumption, MaxI64Assumption DEF Zero, Figures, Amount
<1>2. CeilingPerResource(IF supply = NULL THEN Zero ELSE supply, budgets)
        \in [Resource -> Int]
  BY <1>1, CeilingType
<1>3. SumPodAllocation(store.view) \in Figures
  BY SumPodAllocationType
<1>4. CountedPods(store.view) \in SUBSET Pod
  BY CountedPodsType
<1> QED
  BY <1>2, <1>3, <1>4 DEF BuildAllocationStatus, Status

\* The API server's pods, as a list returns them, are a view.
LEMMA StoredPodsType ==
  ASSUME pods \in [Pod -> PodState]
  PROVE  StoredPods \in View
BY DEF StoredPods, PodState, View

LEMMA ColdStoreType == ColdStore \in [view: View, asOf: Nat \cup {NULL}]
BY DEF ColdStore, NoPods, View

\* One task moves on and only to a state that TypeOK allows.
LEMMA BecomeType ==
  ASSUME TypeOK, NEW c \in Controller, NEW state \in TaskState, Become(c, state)
  PROVE  task' \in [Controller -> TaskState]
BY DEF Become, TypeOK

LEMMA SimpleStates ==
  /\ Down \in TaskState /\ Idle \in TaskState
  /\ \A at \in {"ensure", "create", "reensure", "recreate"} : [at |-> at] \in TaskState
  /\ \A b \in Percent : [at |-> "snapshot", budgets |-> b] \in TaskState
  /\ \A s \in Status : [at |-> "patch", status |-> s] \in TaskState
  /\ \A t \in TaskState : /\ t.at = "snapshot" => t.budgets \in Percent
                          /\ t.at = "patch" => t.status \in Status
BY DEF Down, Idle, TaskState

LEMMA ControllerStepType ==
  ASSUME TypeOK, NEW c \in Controller, ControllerStep(c)
  PROVE  TypeOK'
<1> USE DEF api, stores, caches
<1>1. CASE Start(c)
  BY <1>1, BecomeType, SimpleStates DEF Start, TypeOK
<1>2. CASE EnsureGet(c)
  BY <1>2, BecomeType, SimpleStates DEF EnsureGet, TypeOK
<1>3. CASE EnsureCreate(c)
  <2>1. task' \in [Controller -> TaskState]
    BY <1>3, BecomeType, SimpleStates DEF EnsureCreate
  <2>2. allocation' \in AllocationObject \cup {NULL}
    BY <1>3, DefaultType DEF EnsureCreate, TypeOK, AllocationObject
  <2> QED
    BY <1>3, <2>1, <2>2 DEF EnsureCreate, TypeOK
<1>4. CASE ReadBudgets(c)
  <2>1. allocation # NULL => ResolveEffectiveBudgets(allocation.spec) \in Percent
    BY BudgetsType DEF TypeOK, AllocationObject
  <2> QED
    BY <1>4, <2>1, BecomeType, SimpleStates DEF ReadBudgets, TypeOK
<1>5. CASE Snapshot(c)
  <2>1. task[c].budgets \in Percent
    BY <1>5, SimpleStates DEF Snapshot, TypeOK
  <2>2. BuildAllocationStatus(podStore[c], supplyStore[c], task[c].budgets, clock)
          \in Status
    <3>1. /\ podStore[c] \in [view: View, asOf: Nat \cup {NULL}]
          /\ supplyStore[c] \in Supplies \cup {NULL}
          /\ clock \in Nat
      BY BoundsAssumption DEF TypeOK
    <3> QED
      BY <2>1, <3>1, BuildType
  <2> QED
    BY <1>5, <2>2, BecomeType, SimpleStates DEF Snapshot, TypeOK
<1>6. CASE PatchStatus(c)
  <2>1. task' \in [Controller -> TaskState]
    BY <1>6, BecomeType, SimpleStates DEF PatchStatus
  <2>2. task[c].status \in Status
    BY <1>6, SimpleStates DEF PatchStatus, TypeOK
  <2>3. allocation' \in AllocationObject \cup {NULL}
    BY <1>6, <2>2 DEF PatchStatus, TypeOK, AllocationObject
  <2> QED
    BY <1>6, <2>1, <2>3 DEF PatchStatus, TypeOK
<1>7. CASE ApiError(c)
  BY <1>7, BecomeType, SimpleStates DEF ApiError, TypeOK
<1>8. CASE SyncPods(c)
  <2>1. clock \in Nat
    BY BoundsAssumption DEF TypeOK
  <2>2. StoredPods \in View
    BY StoredPodsType DEF TypeOK
  <2> QED
    BY <1>8, <2>1, <2>2 DEF SyncPods, TypeOK
<1>9. CASE SyncSupply(c)
  BY <1>9 DEF SyncSupply, TypeOK
<1>10. CASE Crash(c)
  BY <1>10, BecomeType, SimpleStates, ColdStoreType DEF Crash, TypeOK
<1> QED
  BY <1>1, <1>2, <1>3, <1>4, <1>5, <1>6, <1>7, <1>8, <1>9, <1>10
     DEF ControllerStep, Recompute

LEMMA WebhookStepType ==
  ASSUME TypeOK, NEW w \in Webhook, WebhookStep(w)
  PROVE  TypeOK'
<1> USE DEF api, stores, caches
<1>1. CASE SyncAllocation(w)
  BY <1>1 DEF SyncAllocation, TypeOK
<1>2. CASE SyncCapacity(w)
  BY <1>2 DEF SyncCapacity, TypeOK
<1>3. CASE Restart(w)
  BY <1>3 DEF Restart, TypeOK
<1>4. CASE \E p \in Pod : Review(w, p)
  BY <1>4 DEF Review, TypeOK, PodState
<1> QED
  BY <1>1, <1>2, <1>3, <1>4 DEF WebhookStep

LEMMA PodLifeType ==
  ASSUME TypeOK, NEW p \in Pod, PodLife(p)
  PROVE  TypeOK'
<1>1. \E state \in PodState : PodStep(p, state)
  BY BoundsAssumption
     DEF PodLife, Persist, Refuse, CreateUnreviewed, ChangePhase, Delete, PodState, Phase
<1> QED
  BY <1>1 DEF PodStep, TypeOK, stores, caches

LEMMA OperatorType ==
  ASSUME TypeOK, Operator
  PROVE  TypeOK'
<1> USE DEF stores, caches
<1>1. CASE \E spec \in Specs : WriteSpec(spec)
  BY <1>1, InputsAssumption DEF WriteSpec, TypeOK, AllocationObject
<1>2. CASE DeleteAllocation
  BY <1>2 DEF DeleteAllocation, TypeOK
<1>3. CASE \E supply \in Supplies \cup {NULL} : WriteCapacity(supply)
  BY <1>3 DEF WriteCapacity, TypeOK
<1> QED
  BY <1>1, <1>2, <1>3 DEF Operator

LEMMA TypeStep == TypeOK /\ [Next]_vars => TypeOK'
<1> SUFFICES ASSUME TypeOK, [Next]_vars PROVE TypeOK'
  OBVIOUS
<1>1. CASE Tick
  BY <1>1, BoundsAssumption DEF Tick, TypeOK, api, stores, caches
<1>2. CASE UNCHANGED vars
  BY <1>2 DEF TypeOK, vars, api, stores, caches
<1> QED
  BY <1>1, <1>2, ControllerStepType, WebhookStepType, PodLifeType, OperatorType
     DEF Next

LEMMA TypeInit == Init => TypeOK
BY BoundsAssumption, ColdStoreType, SimpleStates
   DEF Init, TypeOK, NoPods, PodState

\* Every variable keeps its type in every behaviour, whatever operators write
\* and wherever a replica crashes.
THEOREM TypeCorrect == Spec => []TypeOK
BY TypeInit, TypeStep, PTL DEF Spec

-----------------------------------------------------------------------------
(***************************************************************************)
(* Coherence                                                               *)
(*                                                                         *)
(* StatusCoherent is not inductive: what Snapshot builds depends on the    *)
(* stores, and what the caches take over on the object.  Inv adds that a   *)
(* store that never synced is empty and that no store is from the future.  *)
(***************************************************************************)

StoreCoherent(store, now) ==
  /\ store.asOf = NULL => store.view = NoPods
  /\ store.asOf # NULL => store.asOf <= now

ObjectCoherent(object, now) ==
  object # NULL /\ object.status # NULL => Coherent(object.status, now)

TaskCoherent(state, now) == state.at = "patch" => Coherent(state.status, now)

Inv ==
  /\ TypeOK
  /\ ObjectCoherent(allocation, clock)
  /\ \A w \in Webhook : ObjectCoherent(allocCache[w], clock)
  /\ \A c \in Controller :
       TaskCoherent(task[c], clock) /\ StoreCoherent(podStore[c], clock)

LEMMA InvCoherent == Inv => StatusCoherent
BY DEF Inv, StatusCoherent, KnownStatuses, ObjectCoherent, TaskCoherent

\* The clock never goes back.
LEMMA ClockMonotone ==
  ASSUME TypeOK, [Next]_vars
  PROVE  clock' >= clock /\ clock \in Nat /\ clock' \in Nat
<1>1. clock' = clock \/ clock' = clock + 1
  BY DEF Next, vars, api, ControllerStep, WebhookStep, PodLife, Operator, Tick, Recompute,
         Start, EnsureGet, EnsureCreate, ReadBudgets, Snapshot, PatchStatus, ApiError,
         SyncPods, SyncSupply, Crash, SyncAllocation, SyncCapacity, Restart, Review,
         Persist, Refuse, CreateUnreviewed, ChangePhase, Delete, PodStep,
         WriteSpec, DeleteAllocation, WriteCapacity
<1> QED
  BY <1>1, BoundsAssumption DEF TypeOK

\* What is coherent stays coherent as time passes.
LEMMA CoherentPersists ==
  ASSUME NEW old \in Nat, NEW new \in Nat, new >= old
  PROVE  /\ \A status \in Status : Coherent(status, old) => Coherent(status, new)
         /\ \A object \in AllocationObject \cup {NULL} :
              ObjectCoherent(object, old) => ObjectCoherent(object, new)
         /\ \A state \in TaskState : TaskCoherent(state, old) => TaskCoherent(state, new)
         /\ \A store \in [view: View, asOf: Nat \cup {NULL}] :
              StoreCoherent(store, old) => StoreCoherent(store, new)
<1>1. \A status \in Status : Coherent(status, old) => Coherent(status, new)
  BY DEF Coherent, Status
<1>2. \A object \in AllocationObject \cup {NULL} :
        ObjectCoherent(object, old) => ObjectCoherent(object, new)
  BY <1>1 DEF ObjectCoherent, AllocationObject
<1>3. \A state \in TaskState : TaskCoherent(state, old) => TaskCoherent(state, new)
  BY <1>1, SimpleStates DEF TaskCoherent
<1>4. \A store \in [view: View, asOf: Nat \cup {NULL}] :
        StoreCoherent(store, old) => StoreCoherent(store, new)
  BY DEF StoreCoherent
<1> QED
  BY <1>1, <1>2, <1>3, <1>4

\* A store that is coherent gives a coherent status.
LEMMA BuildCoherent ==
  ASSUME NEW store \in [view: View, asOf: Nat \cup {NULL}],
         NEW supply, NEW budgets, NEW now \in Nat, StoreCoherent(store, now)
  PROVE  Coherent(BuildAllocationStatus(store, supply, budgets, now), now)
<1> DEFINE status == BuildAllocationStatus(store, supply, budgets, now)
<1>1. /\ status.counted = CountedPods(store.view) /\ status.asOf = store.asOf
      /\ status.stamp = now /\ status.allocated = SumPodAllocation(store.view)
  BY DEF BuildAllocationStatus
<1>2. \A res \in Resource : status.allocated[res] = Total(status.counted, res)
  BY <1>1 DEF SumPodAllocation
<1>3. store.asOf = NULL => status.counted = {}
  BY <1>1 DEF StoreCoherent, NoPods, CountedPods
<1>4. status.asOf # NULL => status.asOf <= status.stamp
  BY <1>1 DEF StoreCoherent
<1> HIDE DEF status
<1>5. Coherent(status, now)
  BY <1>1, <1>2, <1>3, <1>4 DEF Coherent
<1> QED
  BY <1>5 DEF status

\* The parts of Inv after a step, at the time before it.
Coherence(now) ==
  /\ ObjectCoherent(allocation, now)
  /\ \A w \in Webhook : ObjectCoherent(allocCache[w], now)
  /\ \A c \in Controller :
       TaskCoherent(task[c], now) /\ StoreCoherent(podStore[c], now)

LEMMA ControllerStepCoherent ==
  ASSUME Inv, NEW c \in Controller, ControllerStep(c),
         NEW now \in Nat, now = clock
  PROVE  Coherence(now)'
<1> USE DEF Inv, Coherence, api, stores, caches
<1>t. /\ task \in [Controller -> TaskState]
      /\ podStore \in [Controller -> [view: View, asOf: Nat \cup {NULL}]]
  BY DEF TypeOK
<1>a. ASSUME NEW state, Become(c, state), TaskCoherent(state, now)
      PROVE  \A d \in Controller : TaskCoherent(task'[d], now)
  BY <1>t, <1>a DEF Become
<1>b. \A at \in {"ensure", "create", "idle", "reensure", "recreate", "down"} :
        TaskCoherent([at |-> at], now)
  BY DEF TaskCoherent
<1>c. TaskCoherent(Idle, now) /\ TaskCoherent(Down, now)
  BY <1>b DEF Idle, Down
<1>1. CASE Start(c)
  BY <1>1, <1>a, <1>b DEF Start
<1>2. CASE EnsureGet(c)
  BY <1>2, <1>a, <1>b, <1>c DEF EnsureGet
<1>3. CASE EnsureCreate(c)
  <2>1. ObjectCoherent(allocation', now)
    BY <1>3 DEF EnsureCreate, ObjectCoherent
  <2> QED
    BY <1>3, <1>a, <1>c, <2>1 DEF EnsureCreate
<1>4. CASE ReadBudgets(c)
  <2>1. \A b : TaskCoherent([at |-> "snapshot", budgets |-> b], now)
    BY DEF TaskCoherent
  <2> QED
    BY <1>4, <1>a, <1>b, <2>1 DEF ReadBudgets
<1>5. CASE Snapshot(c)
  <2> DEFINE status == BuildAllocationStatus(podStore[c], supplyStore[c],
                                             task[c].budgets, clock)
  <2>1. Coherent(status, now)
    BY <1>t, BuildCoherent
  <2> HIDE DEF status
  <2>2. TaskCoherent([at |-> "patch", status |-> status], now)
    BY <2>1 DEF TaskCoherent
  <2> QED
    BY <1>5, <1>a, <2>2 DEF Snapshot, status
<1>6. CASE PatchStatus(c)
  <2>1. Coherent(task[c].status, now)
    BY <1>6 DEF PatchStatus, TaskCoherent
  <2>2. ObjectCoherent(allocation', now)
    BY <1>6, <2>1 DEF PatchStatus, ObjectCoherent, TypeOK, AllocationObject
  <2> QED
    BY <1>6, <1>a, <1>c, <2>2 DEF PatchStatus
<1>7. CASE ApiError(c)
  BY <1>7, <1>a, <1>c DEF ApiError
<1>8. CASE SyncPods(c)
  <2>1. StoreCoherent([view |-> StoredPods, asOf |-> clock], now)
    BY NullAssumption DEF StoreCoherent
  <2> QED
    BY <1>8, <1>t, <2>1 DEF SyncPods
<1>9. CASE SyncSupply(c)
  BY <1>9 DEF SyncSupply
<1>10. CASE Crash(c)
  <2>1. StoreCoherent(ColdStore, now)
    BY DEF StoreCoherent, ColdStore
  <2> QED
    BY <1>10, <1>t, <1>a, <1>c, <2>1 DEF Crash
<1> QED
  BY <1>1, <1>2, <1>3, <1>4, <1>5, <1>6, <1>7, <1>8, <1>9, <1>10
     DEF ControllerStep, Recompute

LEMMA WebhookStepCoherent ==
  ASSUME Inv, NEW w \in Webhook, WebhookStep(w), NEW now \in Nat, now = clock
  PROVE  Coherence(now)'
<1> USE DEF Inv, Coherence, api, stores, caches
<1>t. allocCache \in [Webhook -> AllocationObject \cup {NULL}]
  BY DEF TypeOK
<1>1. CASE SyncAllocation(w)
  BY <1>1, <1>t DEF SyncAllocation
<1>2. CASE SyncCapacity(w)
  BY <1>2 DEF SyncCapacity
<1>3. CASE Restart(w)
  <2>1. ObjectCoherent(NULL, now)
    BY DEF ObjectCoherent
  <2> QED
    BY <1>3, <1>t, <2>1 DEF Restart
<1>4. CASE \E p \in Pod : Review(w, p)
  BY <1>4 DEF Review
<1> QED
  BY <1>1, <1>2, <1>3, <1>4 DEF WebhookStep

LEMMA PodLifeCoherent ==
  ASSUME Inv, NEW p \in Pod, PodLife(p), NEW now \in Nat, now = clock
  PROVE  Coherence(now)'
<1>1. \E state : PodStep(p, state)
  BY DEF PodLife, Persist, Refuse, CreateUnreviewed, ChangePhase, Delete
<1> QED
  BY <1>1 DEF PodStep, Inv, Coherence, stores, caches

LEMMA OperatorCoherent ==
  ASSUME Inv, Operator, NEW now \in Nat, now = clock
  PROVE  Coherence(now)'
<1> USE DEF Inv, Coherence, stores, caches
<1>1. CASE \E spec \in Specs : WriteSpec(spec)
  <2>1. ObjectCoherent(allocation', now)
    BY <1>1 DEF WriteSpec, ObjectCoherent
  <2> QED
    BY <1>1, <2>1 DEF WriteSpec
<1>2. CASE DeleteAllocation
  BY <1>2 DEF DeleteAllocation, ObjectCoherent
<1>3. CASE \E supply \in Supplies \cup {NULL} : WriteCapacity(supply)
  BY <1>3 DEF WriteCapacity
<1> QED
  BY <1>1, <1>2, <1>3 DEF Operator

LEMMA InvStep == Inv /\ [Next]_vars => Inv'
<1> SUFFICES ASSUME Inv, [Next]_vars PROVE Inv'
  OBVIOUS
<1>1. TypeOK' /\ clock \in Nat /\ clock' \in Nat /\ clock' >= clock
  BY TypeStep, ClockMonotone DEF Inv
<1> PICK now \in Nat : now = clock
  BY <1>1
<1>2. Coherence(now)'
  <2>1. CASE Tick
    BY <2>1 DEF Tick, Inv, Coherence, api, stores, caches
  <2>2. CASE UNCHANGED vars
    BY <2>2 DEF vars, Inv, Coherence, api, stores, caches
  <2> QED
    BY <1>1, <2>1, <2>2, ControllerStepCoherent, WebhookStepCoherent,
       PodLifeCoherent, OperatorCoherent DEF Next
<1> QED
  BY <1>1, <1>2, CoherentPersists DEF Coherence, Inv, TypeOK

LEMMA InvInit == Init => Inv
BY TypeInit DEF Init, Inv, ObjectCoherent, TaskCoherent, StoreCoherent, ColdStore, Down

LEMMA Invariance == Spec => []Inv
BY InvInit, InvStep, PTL DEF Spec

\* The figures of every status, wherever it is, belong together: no crash, lost
\* watch or race of two controllers mixes the figures of two snapshots.
THEOREM AlwaysCoherent == Spec => []StatusCoherent
BY Invariance, InvCoherent, PTL

-----------------------------------------------------------------------------
(***************************************************************************)
(* Admission                                                               *)
(***************************************************************************)

\* An admission by budget rests on figures, fresh and with room for the pod.
LEMMA AllowMeans ==
  ASSUME Inv, NEW w \in Webhook, NEW p \in Pod, WithinBudget(w, p)
  PROVE  /\ allocCache[w] \in AllocationObject
         /\ allocCache[w].status \in Status
         /\ Coherent(allocCache[w].status, clock)
         /\ ~IsStale(allocCache[w].status.stamp, clock)
         /\ Request[p] # NULL
         /\ CheckBudget(allocCache[w].status.allocated, Request[p],
                        allocCache[w].status.ceiling) = {}
<1> DEFINE a == allocCache[w]
           r == CreateRequest(p)
           mode == ResolveEnforcementMode(a.spec.mode)
<1>1. Evaluate(r, a, supplyCache[w], clock).verdict = "allow"
  BY DEF WithinBudget, Answer, Handle, CreateRequest, Reject
<1>2. /\ a # NULL /\ a.status # NULL
      /\ ~IsStale(a.status.stamp, clock)
      /\ ~Unparseable(r)
      /\ CheckBudget(a.status.allocated, EffectiveRequest(r), a.status.ceiling) = {}
  BY <1>1 DEF Evaluate, Reject, Exempted, BudgetOutcome
<1>3. r.new = Request[p] /\ r.operation = "CREATE"
  BY DEF CreateRequest
<1>4. Request[p] # NULL
  BY <1>2, <1>3 DEF Unparseable
<1>5. Request[p] \in Figures
  BY <1>4, PodAssumption
<1>6. EffectiveRequest(r) = Request[p]
  BY <1>3, <1>5 DEF EffectiveRequest, Figures
<1>7. a \in AllocationObject /\ a.status \in Status /\ Coherent(a.status, clock)
  BY <1>2 DEF Inv, TypeOK, ObjectCoherent, AllocationObject
<1> QED
  BY <1>2, <1>4, <1>6, <1>7

\* The saturating check: it lets through what fits, or a ceiling of MaxI64.
LEMMA CheckMeans ==
  ASSUME NEW allocated \in Figures, NEW request \in Figures,
         NEW ceiling \in [Resource -> Int],
         CheckBudget(allocated, request, ceiling) = {}, NEW res \in Resource
  PROVE  \/ allocated[res] + request[res] <= ceiling[res]
         \/ MaxI64 <= ceiling[res]
<1>1. ~(SaturatingAdd(allocated[res], request[res]) > ceiling[res])
  BY DEF CheckBudget
<1>2. allocated[res] \in Amount /\ request[res] \in Amount /\ ceiling[res] \in Int
  BY DEF Figures
<1> QED
  BY <1>1, <1>2, MaxI64Assumption
     DEF SaturatingAdd, Clamp, Larger, Smaller, Amount

\* One admission overcommits by at most the pods its status had not counted.
LEMMA AdmissionStep ==
  ASSUME Inv, NEW w \in Webhook, NEW p \in Pod, WithinBudget(w, p), NEW res \in Resource
  PROVE  Total(Occupied', res)
           <= allocCache[w].status.ceiling[res]
                + Total(Occupied \ allocCache[w].status.counted, res)
<1> DEFINE status == allocCache[w].status
           counted == status.counted
           rest == Occupied \ counted
           seen == counted \cup {p}
           after == Occupied'
<1>1. /\ status \in Status /\ Coherent(status, clock)
      /\ Request[p] # NULL
      /\ CheckBudget(status.allocated, Request[p], status.ceiling) = {}
  BY AllowMeans
<1>2. /\ counted \in SUBSET Pod /\ rest \in SUBSET Pod /\ seen \in SUBSET Pod
      /\ {p} \in SUBSET Pod
  BY <1>1 DEF Status, Occupied
<1>3. after \subseteq Occupied \cup {p}
  <2>1. pods' = [pods EXCEPT ![p] = "admitted"]
    BY DEF WithinBudget, Review
  <2> QED
    BY <2>1 DEF Inv, TypeOK, Occupied
<1>4. after \in SUBSET Pod /\ after \subseteq seen \cup rest
  BY <1>2, <1>3 DEF Occupied
<1>5. /\ status.allocated \in Figures /\ status.ceiling \in [Resource -> Int]
      /\ Request[p] \in Figures
      /\ status.allocated[res] = Total(counted, res)
  BY <1>1, PodAssumption DEF Status, Coherent
<1>6. Total({p}, res) = Request[p][res]
  BY <1>1, TotalSingle DEF Weight
<1>7. \/ Total(counted, res) + Total({p}, res) <= status.ceiling[res]
      \/ MaxI64 <= status.ceiling[res]
  BY <1>1, <1>5, <1>6, CheckMeans
<1>8. status.ceiling[res] \in Int
  BY <1>5
<1> HIDE DEF status, counted, rest, seen, after
<1>9. /\ Total(after, res) <= Total(seen, res) + Total(rest, res)
      /\ Total(seen, res) <= Total(counted, res) + Total({p}, res)
  BY <1>2, <1>4, TotalCover DEF seen
<1>10. \A S \in SUBSET Pod : Total(S, res) \in Nat /\ Total(S, res) <= MaxI64
  BY TotalType, MaxI64Assumption DEF Amount
<1>11. Total(after, res) <= status.ceiling[res] + Total(rest, res)
  BY <1>2, <1>4, <1>7, <1>8, <1>9, <1>10, MaxI64Assumption
<1> QED
  BY <1>11 DEF status, counted, rest, after

\* No interleaving of replicas, no crash and no lag of a watch overcommits the
\* cluster by more than the pods that the webhook's status had not counted.
THEOREM BoundedOvercommit == Spec => AdmissionBounded
<1>1. Inv /\ [Next]_vars =>
        [\A w \in Webhook, p \in Pod : WithinBudget(w, p) =>
           LET status == allocCache[w].status
           IN \A res \in Resource :
                Total(Occupied', res)
                  <= status.ceiling[res] + Total(Occupied \ status.counted, res)]_vars
  BY AdmissionStep
<1> QED
  BY <1>1, Invariance, PTL DEF Spec, AdmissionBounded

\* When all controllers have been silent for longer than the freshness timeout,
\* nothing is let in by budget.
THEOREM FailSilent == Spec => SilenceStopsAdmission
<1>1. ASSUME Inv, NEW w \in Webhook, NEW p \in Pod, WithinBudget(w, p)
      PROVE  allocCache[w].status.stamp \in (clock - FreshnessTimeout) .. clock
  <2>1. /\ allocCache[w].status.stamp \in Nat
        /\ ~IsStale(allocCache[w].status.stamp, clock)
        /\ allocCache[w].status.stamp <= clock
    BY <1>1, AllowMeans DEF Coherent, Status
  <2>2. clock \in Nat
    BY <1>1, BoundsAssumption DEF Inv, TypeOK
  <2> QED
    BY <2>1, <2>2, FreshnessAssumption DEF IsStale, Age, Larger
<1>2. Inv /\ [Next]_vars =>
        [\A w \in Webhook, p \in Pod : WithinBudget(w, p) =>
           allocCache[w].status.stamp \in (clock - FreshnessTimeout) .. clock]_vars
  BY <1>1
<1> QED
  BY <1>2, Invariance, PTL DEF Spec, SilenceStopsAdmission

\* A controller, however its calls interleave with other writers, never changes
\* or removes a spec.
THEOREM SpecPreserved == Spec => OperatorSpecPreserved
<1>1. ASSUME TypeOK, NEW c \in Controller, ControllerStep(c), allocation # NULL
      PROVE  allocation' # NULL /\ allocation'.spec = allocation.spec
  <2> USE DEF api
  <2>1. CASE EnsureCreate(c)
    BY <1>1, <2>1 DEF EnsureCreate
  <2>2. CASE PatchStatus(c)
    <3>1. allocation' = [allocation EXCEPT !.status = task[c].status]
      BY <1>1, <2>2 DEF PatchStatus
    <3>2. allocation' \in AllocationObject
      BY <1>1, <2>2, <3>1, SimpleStates DEF PatchStatus, TypeOK, AllocationObject
    <3> QED
      BY <1>1, <3>1, <3>2, InputsAssumption DEF TypeOK, AllocationObject
  <2>3. CASE allocation' = allocation
    BY <1>1, <2>3
  <2> QED
    BY <1>1, <2>1, <2>2, <2>3
       DEF ControllerStep, Recompute, Start, EnsureGet, ReadBudgets, Snapshot,
           ApiError, SyncPods, SyncSupply, Crash
<1>2. TypeOK /\ [Next]_vars =>
        [(\E c \in Controller : ControllerStep(c)) /\ allocation # NULL =>
           allocation' # NULL /\ allocation'.spec = allocation.spec]_vars
  BY <1>1
<1> QED
  BY <1>2, TypeCorrect, PTL DEF Spec, OperatorSpecPreserved
=============================================================================
