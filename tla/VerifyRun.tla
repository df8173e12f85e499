----------------------------- MODULE VerifyRun -----------------------------
(***************************************************************************)
(* A run of erw-verify against a cluster: configuration, image, install,   *)
(* the scenarios of VerifyScript, teardown, exit code.  The run is one     *)
(* process, and every call and wait of it is a step; between two steps the *)
(* cluster goes on: replicas start, stop and catch up with their watches,  *)
(* the controllers inside them write, the API server finalizes.            *)
(*                                                                         *)
(* What the controllers and the webhook do in a step is told here only so  *)
(* far as the run can see it; CapacityAdmission, NodeCapacity and Decision *)
(* have the detail.  Supply is known or not, and a ceiling is the percent  *)
(* of it.  No wait is measured: a deadline may pass whenever it is looked  *)
(* at.                                                                     *)
(***************************************************************************)
EXTENDS VerifyScript, FiniteSets

CONSTANTS
  Replica,      \* pods of the webhook's Deployment
  MaxFaults     \* bound: calls that are not answered

ASSUME FaultsAssumption == MaxFaults \in Nat

VARIABLES
  at,           \* where the run is: [phase, n, step]
  kept,         \* the run failed and was told to --keep-on-failure
  verdict,      \* of the scenario under way; "abort": clean up, then fail
  last,         \* answer to its last create, or NULL
  failed,       \* some scenario has failed
  errors,       \* objects that teardown could not remove
  code,         \* exit code, or NULL; 2 from the failure of setup on
  faults,       \* number of calls not answered
  objects,      \* installed objects at the API server, singletons apart
  deleting,     \* those that wait for their finalizers
  allocation,   \* the Allocation: [spec, status], or NULL
  capacity,     \* whether there is a ClusterCapacity, and it says the supply
  replica,      \* [Replica -> "down" | "up" | "dying"]
  seen,         \* [Replica -> mode and status it has read, or NULL: some are missing]
  counted,      \* replicas whose dry_run_deny counter is not zero
  pods          \* [PodName -> [large, leaving], or NULL]

run     == <<at, kept, verdict, last, failed, errors, code>>
cluster == <<objects, deleting, allocation, capacity, replica, seen, counted, pods>>
vars    == <<run, faults, cluster>>

-----------------------------------------------------------------------------
(***************************************************************************)
(* State                                                                   *)
(***************************************************************************)

Phases == {"configure", "build", "push", "connect", "check", "setup", "pods",
           "supply", "scenario", "teardown", "gone", "done"}

Percents  == {0, 30, 80, 95, 100}
SpecType  == [budget: Percents, cpu: Percents \cup {NULL}, memory: Percents \cup {NULL},
              mode: {"enforce", "dry-run"}]
Status    == [cpu: Percents, memory: Percents, load: SUBSET Resource, fresh: BOOLEAN]
Object    == [spec: SpecType, status: Status \cup {NULL}]
AllocationType == Object \cup {NULL}
View      == [mode: {"enforce", "dry-run"}, status: Status]
Installed == {Teardown[i] : i \in DOMAIN Teardown} \ {"Allocation", "ClusterCapacity"}

\* An object is something.
ASSUME NullAssumption == NULL \notin Object

TypeOK ==
  /\ at \in [phase: Phases, n: 0 .. Len(Suite), step: 0 .. 9]
  /\ kept \in BOOLEAN /\ failed \in BOOLEAN /\ capacity \in BOOLEAN
  /\ kept => at.phase = "done"
  /\ verdict \in {"pass", "fail", "abort"}
  /\ last \in Answer \cup {NULL}
  /\ errors \subseteq {Teardown[i] : i \in DOMAIN Teardown}
  /\ code \in 0 .. 4 \cup {NULL}
  /\ faults \in 0 .. MaxFaults
  /\ objects \subseteq Installed /\ deleting \subseteq objects \cap Finalized
  /\ allocation \in AllocationType
  /\ replica \in [Replica -> {"down", "up", "dying"}]
  /\ seen \in [Replica -> View \cup {NULL}]
  /\ counted \subseteq Replica
  /\ pods \in [PodName -> [large: SUBSET Resource, leaving: BOOLEAN] \cup {NULL}]

Init ==
  /\ at = [phase |-> "configure", n |-> 0, step |-> 0]
  /\ kept = FALSE
  /\ verdict = "pass" /\ last = NULL /\ failed = FALSE
  /\ errors = {} /\ code = NULL /\ faults = 0
  /\ objects = {} /\ deleting = {}
  /\ allocation = NULL /\ capacity = FALSE
  /\ replica = [r \in Replica |-> "down"]
  /\ seen = [r \in Replica |-> NULL]
  /\ counted = {}
  /\ pods = [name \in PodName |-> NULL]

-----------------------------------------------------------------------------
(***************************************************************************)
(* Calls                                                                   *)
(***************************************************************************)

GoTo(phase, n) == at' = [phase |-> phase, n |-> n, step |-> IF phase = "scenario" THEN 1 ELSE 0]

Fault == faults < MaxFaults /\ faults' = faults + 1

\* The call takes effect and is answered; or it is not answered, and then it may
\* have taken effect all the same.
Call(effect, answered, broken) ==
  \/ effect /\ answered /\ UNCHANGED faults
  \/ (effect \/ UNCHANGED cluster) /\ broken /\ Fault

Read(answered, broken) ==
  /\ UNCHANGED cluster
  /\ \/ answered /\ UNCHANGED faults
     \/ broken /\ Fault

Exists(object) ==
  CASE object = "Allocation"      -> allocation # NULL
    [] object = "ClusterCapacity" -> capacity
    [] OTHER                      -> object \in objects

\* The API server forgets an object, and what cannot be without it.
Forget(object) ==
  /\ objects' = (objects \ {object}) \ (IF object = "Namespace" THEN Namespaced ELSE {})
  /\ deleting' = deleting \ {object}
  /\ allocation' = IF object \in {"Allocation", "AllocationCRD"} THEN NULL ELSE allocation
  /\ capacity' = (capacity /\ object \notin {"ClusterCapacity", "CapacityCRD"})
  /\ UNCHANGED <<replica, seen, counted, pods>>

Remove(object) ==
  IF object \in Finalized
  THEN /\ deleting' = deleting \cup {object}
       /\ UNCHANGED <<objects, allocation, capacity, replica, seen, counted, pods>>
  ELSE Forget(object)

\* A replica's review.  A leftover pod weighs on a status once it is counted.
Exceeded(status, size) ==
  {res \in Resource : status[res] = 0 \/ res \in size \cup status.load}

Review(view, size) ==
  IF view = NULL THEN "missing"
  ELSE IF ~view.status.fresh THEN "stale"
  ELSE IF Exceeded(view.status, size) = {} THEN "admitted"
  ELSE IF view.mode = "dry-run" THEN "dry-run"
  ELSE IF Exceeded(view.status, size) = {"memory"} THEN "over-memory"
  ELSE "over"

Endpoint == {r \in Replica : replica[r] # "down"}

\* create_pod: the review comes before the name is looked up.  An address of a
\* replica that is leaving or gone may still be called, in vain.
Submit(name, size, answer) ==
  LET Reviewed(r) == Review(seen[r], size)
      Stored      == pods' = [pods EXCEPT ![name] = [large |-> size, leaving |-> FALSE]]
  IN
  /\ \/ \E r \in Endpoint :
          /\ counted' = IF Reviewed(r) = "dry-run" THEN counted \cup {r} ELSE counted
          /\ IF Reviewed(r) \notin {"admitted", "dry-run"}
             THEN answer = Reviewed(r) /\ UNCHANGED <<pods, faults>>
             ELSE IF pods[name] # NULL
             THEN answer = "exists" /\ UNCHANGED <<pods, faults>>
             ELSE \/ answer = "admitted" /\ Stored /\ UNCHANGED faults
                  \/ answer = "lost" /\ Stored /\ Fault
     \/ /\ answer = "unreachable"
        /\ \E r \in Replica : replica[r] # "up"
        /\ UNCHANGED <<counted, pods, faults>>
     \/ answer = "lost" /\ UNCHANGED <<counted, pods>> /\ Fault
  /\ UNCHANGED <<objects, deleting, allocation, capacity, replica, seen>>

\* delete_pod: a pod that runs on a node stays for its grace period.
DeletePodCall(name) ==
  /\ pods' \in {[pods EXCEPT ![name] = NULL],
                [pods EXCEPT ![name] = IF @ = NULL THEN NULL ELSE [@ EXCEPT !.leaving = TRUE]]}
  /\ UNCHANGED <<objects, deleting, allocation, capacity, replica, seen, counted>>

-----------------------------------------------------------------------------
(***************************************************************************)
(* Before the scenarios                                                    *)
(***************************************************************************)

Exit(c) == code' = c /\ GoTo("done", 0)

Setting == {NULL, "", "1"}

\* preflight: exit 4 without a registry or docker, unless nothing is built.
Preflight ==
  /\ at.phase = "configure"
  /\ \E flag \in {NULL, "1"}, file, ambient \in Setting, docker \in BOOLEAN :
       LET skipBuild == ResolveBool(flag, file, NULL)
           registry  == ResolveRaw(NULL, file, ambient)
       IN IF skipBuild THEN GoTo("connect", 0) /\ UNCHANGED code
          ELSE IF registry = NULL \/ ~docker THEN Exit(4)
          ELSE GoTo("build", 0) /\ UNCHANGED code
  /\ UNCHANGED <<kept, verdict, last, failed, errors, faults, cluster>>

\* build_image, push_image, build_client: exit 2 and no report if one fails.
Prepare ==
  /\ at.phase \in {"build", "push", "connect"}
  /\ Read(/\ GoTo(CASE at.phase = "build" -> "push"
                    [] at.phase = "push" -> "connect"
                    [] OTHER -> "check", 0)
          /\ UNCHANGED code,
          Exit(2))
  /\ UNCHANGED <<kept, verdict, last, failed, errors>>

\* check_cluster_clean: pods of others in the default namespace end the run.
CheckClusterClean ==
  /\ at.phase = "check"
  /\ \E clean \in BOOLEAN :
       Read(IF clean THEN GoTo("setup", 1) /\ UNCHANGED code ELSE Exit(2), Exit(2))
  /\ UNCHANGED <<kept, verdict, last, failed, errors>>

\* The flag makes no difference.
\* Mutant: an install that is to be kept is removed.
SetupFailsRemoves == code' = 2 /\ kept' \in BOOLEAN /\ GoTo("teardown", 1)

\* The install is removed again, unless it is to be kept, and the code is 2.
SetupFails ==
  /\ code' = 2
  /\ \/ kept' = TRUE /\ GoTo("done", 0)
     \/ kept' = FALSE /\ GoTo("teardown", 1)

ApplyDocument ==
  /\ at.phase = "setup"
  /\ Call(/\ objects' = objects \cup {Setup[at.n]}
          /\ UNCHANGED <<deleting, allocation, capacity, replica, seen, counted, pods>>,
          /\ IF at.n < Len(Setup) THEN GoTo("setup", at.n + 1) ELSE GoTo("pods", 0)
          /\ UNCHANGED <<kept, code>>,
          SetupFails)
  /\ UNCHANGED <<verdict, last, failed, errors>>

CeilingIsUp ==
  /\ allocation # NULL
  /\ allocation.status # NULL
  /\ allocation.status.cpu > 0

\* The two loops of wait_for_readiness: a list that fails ends the first, a get
\* that fails is tried again.
AwaitPods ==
  /\ at.phase = "pods"
  /\ Read(/\ \A r \in Replica : replica[r] = "up"
          /\ GoTo("supply", 0)
          /\ UNCHANGED <<kept, code>>,
          SetupFails)
  /\ UNCHANGED <<verdict, last, failed, errors>>

AwaitSupply ==
  /\ at.phase = "supply"
  /\ CeilingIsUp
  /\ GoTo("scenario", 1)
  /\ UNCHANGED <<kept, verdict, last, failed, errors, code, faults, cluster>>

-----------------------------------------------------------------------------
(***************************************************************************)
(* Scenarios                                                               *)
(***************************************************************************)

Script == Suite[at.n]
Step   == Script[at.step]

Doing(what) == at.phase = "scenario" /\ at.step <= Len(Script) /\ Step.do = what

StepBy(k, v) == at' = [at EXCEPT !.step = @ + k] /\ verdict' = v
StepOn(v)    == StepBy(1, v)
GiveUp(v)    == at' = [at EXCEPT !.step = Len(Script) + 1] /\ verdict' = v

\* An error of apply_budget and its like: "?", or "let _ =".
StepFails == GiveUp(IF Step.must THEN "fail" ELSE verdict)

\* A merge patch: the fields it names.
Patched(spec, change) ==
  [field \in DOMAIN spec |-> IF field \in DOMAIN change THEN change[field] ELSE spec[field]]

PatchSpec ==
  /\ Doing("patch")
  /\ IF allocation = NULL
     THEN StepFails /\ UNCHANGED <<faults, cluster>>
     ELSE Call(/\ allocation' = [allocation EXCEPT !.spec = Patched(@, Step.change)]
               /\ UNCHANGED <<objects, deleting, capacity, replica, seen, counted, pods>>,
               StepOn(verdict),
               StepFails)
  /\ UNCHANGED <<kept, last, failed, errors, code>>

\* The status at the API server has the ceiling; what a replica has read of it is
\* not asked.
AwaitCeiling ==
  /\ Doing("await")
  /\ allocation # NULL
  /\ allocation.status # NULL
  /\ allocation.status[Step.res] = IF capacity THEN Step.percent ELSE 0
  /\ StepOn(verdict)
  /\ UNCHANGED <<kept, last, failed, errors, code, faults, cluster>>

CreatePod ==
  /\ Doing("create")
  /\ \E answer \in Answer :
       /\ Submit(Step.name, Step.size, answer)
       /\ last' = answer
       /\ StepOn(IF answer \in Step.want THEN verdict ELSE "fail")
  /\ UNCHANGED <<kept, failed, errors, code>>

DeletePod ==
  /\ Doing("delete")
  /\ LET Proceed == IF verdict = "abort" THEN GiveUp("fail") ELSE StepOn(verdict) IN
     IF Step.ifCreated /\ last # "admitted"
     THEN Proceed /\ UNCHANGED <<faults, cluster>>
     ELSE Call(DeletePodCall(Step.name), Proceed, Proceed)
  /\ UNCHANGED <<kept, last, failed, errors, code>>

\* S6 tries until its pod is admitted, but not past another answer than 403.
InsistOnDryRun ==
  /\ Doing("insist")
  /\ \E answer \in Answer :
       /\ Submit(Step.name, Step.size, answer)
       /\ last' = answer
       /\ IF answer = "admitted" THEN StepOn(verdict)
          ELSE IF answer \in IsDenied403 THEN UNCHANGED <<at, verdict>>
          ELSE StepOn("abort")
  /\ UNCHANGED <<kept, failed, errors, code>>

\* The counter of whichever replica the service proxy picks; 0 before, and 0 when
\* it cannot be read.
CountDryRuns ==
  /\ Doing("count")
  /\ Read(\E r \in Endpoint : StepOn(IF r \in counted THEN verdict ELSE "fail"),
          StepOn("fail"))
  /\ UNCHANGED <<kept, last, failed, errors, code>>

\* S7 adds up every node, which the controller need not have done, or not yet.
CompareCapacity ==
  /\ Doing("compare")
  /\ \E v \in {verdict, "fail"} : Read(StepOn(IF capacity THEN v ELSE "fail"), StepOn("fail"))
  /\ UNCHANGED <<kept, last, failed, errors, code>>

ScrapeEndpoints ==
  /\ Doing("scrape")
  /\ Read(StepOn(IF Endpoint # {} THEN verdict ELSE "fail"), StepOn("fail"))
  /\ UNCHANGED <<kept, last, failed, errors, code>>

\* S9 of the degradation scenarios: if the call fails, nothing is restored.
KillPods ==
  /\ Doing("kill")
  /\ Call(/\ replica' = [r \in Replica |-> IF replica[r] = "up" THEN "dying" ELSE replica[r]]
          /\ UNCHANGED <<objects, deleting, allocation, capacity, seen, counted, pods>>,
          StepOn(verdict),
          GiveUp("fail"))
  /\ UNCHANGED <<kept, last, failed, errors, code>>

DropSingleton ==
  /\ \/ Doing("drop-allocation") /\ Call(Forget("Allocation"), StepOn(verdict), StepOn(verdict))
     \/ Doing("drop-capacity")
        /\ Call(Forget("ClusterCapacity"), StepOn(verdict), StepOn(verdict))
  /\ UNCHANGED <<kept, last, failed, errors, code>>

BackdateLastUpdated ==
  /\ Doing("backdate")
  /\ IF allocation = NULL \/ (allocation # NULL /\ allocation.status = NULL)
     THEN StepBy(2, "fail") /\ UNCHANGED <<faults, cluster>>
     ELSE Call(/\ allocation' = [allocation EXCEPT !.status.fresh = FALSE]
               /\ UNCHANGED <<objects, deleting, capacity, replica, seen, counted, pods>>,
               StepOn(verdict),
               StepBy(2, "fail"))
  /\ UNCHANGED <<kept, last, failed, errors, code>>

\* probe_rejection, and the loop of S11: an admitted pod is deleted and created
\* again, the first rejection decides.
ProbeRejection ==
  /\ Doing("probe")
  /\ last # "admitted"
  /\ \E answer \in Answer :
       /\ Submit(Step.name, Step.size, answer)
       /\ last' = answer
       /\ IF answer = "admitted" THEN UNCHANGED <<at, verdict>>
          ELSE StepOn(IF answer \in Step.want THEN verdict ELSE "fail")
  /\ UNCHANGED <<kept, failed, errors, code>>

ProbeAgain ==
  /\ Doing("probe")
  /\ last = "admitted"
  /\ last' = NULL
  /\ LET Back == StepBy(-Step.loop, verdict) IN Call(DeletePodCall(Step.name), Back, Back)
  /\ UNCHANGED <<kept, failed, errors, code>>

\* restore_readiness and the wait of S11 for a fresh stamp: errors are tried again.
Restored ==
  /\ \/ Doing("restore") /\ (\E r \in Replica : replica[r] = "up") /\ CeilingIsUp
     \/ Doing("freshen") /\ CeilingIsUp /\ allocation.status.fresh
  /\ StepOn(verdict)
  /\ UNCHANGED <<kept, last, failed, errors, code, faults, cluster>>

\* timed: the result of a scenario.  A pod on its way out, under a name that is
\* not used again, is of no further interest, and after the last scenario no pod is,
\* nor what the replicas have read and counted, nor what the Allocation says.
Conclude ==
  /\ at.phase = "scenario"
  /\ at.step = Len(Script) + 1
  /\ failed' = (failed \/ verdict # "pass")
  /\ verdict' = "pass"
  /\ last' = NULL
  /\ pods' = [name \in PodName |->
                IF \/ at.n = Len(Suite)
                   \/ pods[name] # NULL /\ pods[name].leaving /\ (name = "s9" => at.n > 9)
                THEN NULL ELSE pods[name]]
  /\ IF at.n < Len(Suite)
     THEN GoTo("scenario", at.n + 1) /\ UNCHANGED <<kept, code, allocation, seen, counted>>
     ELSE /\ allocation' = IF allocation = NULL THEN NULL ELSE [spec |-> Seeded, status |-> NULL]
          /\ seen' = [r \in Replica |-> NULL]
          /\ counted' = {}
          /\ \/ failed' /\ kept' = TRUE /\ Exit(1)
             \/ kept' = FALSE /\ GoTo("teardown", 1) /\ UNCHANGED code
  /\ UNCHANGED <<errors, faults, objects, deleting, capacity, replica>>

-----------------------------------------------------------------------------
(***************************************************************************)
(* Teardown                                                                *)
(***************************************************************************)

\* Setup over scenarios over teardown.
FinalCode(unremoved) ==
  IF code = 2 THEN 2 ELSE IF failed THEN 1 ELSE IF unremoved # {} THEN 3 ELSE 0

\* try_delete goes on to the next object, with or without an error.
NextObject(unremoved) ==
  /\ errors' = unremoved
  /\ IF at.n < Len(Teardown) THEN GoTo("teardown", at.n + 1) /\ UNCHANGED code
     ELSE Exit(FinalCode(unremoved))

Removed    == NextObject(errors)
NotRemoved == NextObject(errors \cup {Teardown[at.n]})

DeleteObject ==
  /\ at.phase = "teardown"
  /\ IF Exists(Teardown[at.n])
     THEN Call(Remove(Teardown[at.n]), GoTo("gone", at.n) /\ UNCHANGED <<errors, code>>, NotRemoved)
     ELSE Read(Removed, NotRemoved)
  /\ UNCHANGED <<kept, verdict, last, failed>>

\* Any error of the get taken for a 404.
\* Mutant: an object that is still there counts as removed.
AwaitGoneAnyError ==
  /\ at.phase = "gone"
  /\ Read(~Exists(Teardown[at.n]) /\ Removed, Removed)
  /\ UNCHANGED <<kept, verdict, last, failed>>

AwaitGone ==
  /\ at.phase = "gone"
  /\ Read(~Exists(Teardown[at.n]) /\ Removed, NotRemoved)
  /\ UNCHANGED <<kept, verdict, last, failed>>

-----------------------------------------------------------------------------
(***************************************************************************)
(* Deadlines: whatever the run waits for or repeats, it does so for a time *)
(* only.  The clock is looked at before an attempt or, in teardown, when   *)
(* the object was found there.                                             *)
(***************************************************************************)

ScenarioDeadline ==
  /\ \/ Doing("await") /\ StepFails
     \/ Doing("insist") /\ StepBy(2, "fail")
     \/ Doing("probe") /\ Step.loop = 0 /\ last # "admitted" /\ StepOn("fail")
     \/ Doing("backdate") /\ StepBy(2, "fail")
     \/ (Doing("restore") \/ Doing("freshen")) /\ StepOn(verdict)
  /\ UNCHANGED <<kept, last, failed, errors, code, faults, cluster>>

\* Teardown that waits for as long as it takes.
\* Mutant: no deadline in delete_and_wait.
LifecycleDeadlineOfSetup ==
  /\ at.phase \in {"pods", "supply"} /\ SetupFails /\ UNCHANGED errors
  /\ UNCHANGED <<verdict, last, failed, faults, cluster>>

LifecycleDeadline ==
  /\ \/ at.phase \in {"pods", "supply"} /\ SetupFails /\ UNCHANGED errors
     \/ at.phase = "gone" /\ Exists(Teardown[at.n]) /\ NotRemoved /\ UNCHANGED kept
  /\ UNCHANGED <<verdict, last, failed, faults, cluster>>

Deadline == ScenarioDeadline \/ LifecycleDeadline

Proceed ==
  \/ Preflight \/ Prepare \/ CheckClusterClean \/ ApplyDocument \/ AwaitPods \/ AwaitSupply
  \/ PatchSpec \/ AwaitCeiling \/ CreatePod \/ DeletePod \/ InsistOnDryRun \/ CountDryRuns
  \/ CompareCapacity \/ ScrapeEndpoints \/ KillPods \/ DropSingleton \/ BackdateLastUpdated
  \/ ProbeRejection \/ ProbeAgain \/ Restored \/ Conclude
  \/ DeleteObject \/ AwaitGone

-----------------------------------------------------------------------------
(***************************************************************************)
(* The cluster                                                             *)
(***************************************************************************)

There(object) == object \in objects \ deleting

ReplicaStarts(r) ==
  /\ replica[r] = "down"
  /\ {"Namespace", "Deployment", "Secret", "ServiceAccount"} \subseteq objects \ deleting
  /\ replica' = [replica EXCEPT ![r] = "up"]
  /\ UNCHANGED <<run, faults, objects, deleting, allocation, capacity, seen, counted, pods>>

\* The Deployment is gone and its pods are collected.
ReplicaLeaves(r) ==
  /\ replica[r] = "up"
  /\ ~There("Deployment")
  /\ replica' = [replica EXCEPT ![r] = "dying"]
  /\ UNCHANGED <<run, faults, objects, deleting, allocation, capacity, seen, counted, pods>>

ReplicaEnds(r) ==
  /\ replica[r] = "dying"
  /\ replica' = [replica EXCEPT ![r] = "down"]
  /\ seen' = [seen EXCEPT ![r] = NULL]
  /\ counted' = counted \ {r}
  /\ UNCHANGED <<run, faults, objects, deleting, allocation, capacity, pods>>

\* The two reflectors of a replica.  What it has read matters once there are pods
\* to review.
Current ==
  IF allocation = NULL \/ ~capacity THEN NULL
  ELSE IF allocation.status = NULL THEN NULL
  ELSE [mode |-> allocation.spec.mode, status |-> allocation.status]

Sync(r) ==
  /\ at.phase = "scenario"
  /\ replica[r] # "down"
  /\ seen' = [seen EXCEPT ![r] = Current]
  /\ UNCHANGED <<run, faults, objects, deleting, allocation, capacity, replica, counted, pods>>

Controllers ==
  Endpoint # {} /\ There("ClusterRole") /\ There("ClusterRoleBinding")

Ceiling(spec, res) ==
  IF ~capacity THEN 0 ELSE IF spec[res] # NULL THEN spec[res] ELSE spec.budget

\* Bound: the reflectors are at most one status behind.
Followed ==
  at.phase = "scenario" /\ allocation # NULL =>
    \A r \in Replica : replica[r] = "up" => seen[r] = Current

\* Both controllers create what is missing and write what they find.  Figures that
\* nobody will ask for are left out.
ReportAllocation ==
  /\ Controllers
  /\ There("AllocationCRD")
  /\ Followed
  /\ LET spec == IF allocation = NULL THEN Seeded ELSE allocation.spec IN
     allocation' =
       [spec |-> spec,
        status |-> IF allocation = NULL \/ at.phase \in {"teardown", "gone"} THEN NULL
                   ELSE [cpu |-> Ceiling(spec, "cpu"), memory |-> Ceiling(spec, "memory"),
                         load |-> UNION {pods[name].large : name \in {m \in PodName : pods[m] # NULL}},
                         fresh |-> TRUE]]
  /\ UNCHANGED <<run, faults, objects, deleting, capacity, replica, seen, counted, pods>>

ReportCapacity ==
  /\ Controllers
  /\ There("CapacityCRD")
  /\ ~capacity
  /\ capacity' = TRUE
  /\ UNCHANGED <<run, faults, objects, deleting, allocation, replica, seen, counted, pods>>

\* Nobody writes the status for longer than the freshness timeout.
GoesStale ==
  /\ Endpoint = {}
  /\ CeilingIsUp
  /\ allocation' = [allocation EXCEPT !.status.fresh = FALSE]
  /\ UNCHANGED <<run, faults, objects, deleting, capacity, replica, seen, counted, pods>>

Finalize ==
  \/ \E object \in deleting : Forget(object) /\ UNCHANGED <<run, faults>>
  \/ /\ \E name \in PodName :
          /\ pods[name] # NULL
          /\ pods[name].leaving
          /\ pods' = [pods EXCEPT ![name] = NULL]
     /\ UNCHANGED <<run, faults, objects, deleting, allocation, capacity, replica, seen, counted>>

Environment ==
  \/ \E r \in Replica : ReplicaStarts(r) \/ ReplicaLeaves(r) \/ ReplicaEnds(r) \/ Sync(r)
  \/ ReportAllocation \/ ReportCapacity \/ GoesStale \/ Finalize

\* Once the run has ended the cluster is of no further interest.
Next == Proceed \/ Deadline \/ (at.phase # "done" /\ Environment)

\* The run is one process that is never suspended, and its clock goes on: a loop
\* that looks at it again and again finds the deadline passed some time.
\* The controllers write at every tick and the watches deliver.
Fairness ==
  /\ WF_vars(Proceed) /\ SF_vars(Deadline)
  /\ WF_vars(at.phase # "done" /\ ReportAllocation)
  /\ WF_vars(at.phase # "done" /\ ReportCapacity)
  /\ \A r \in Replica : WF_vars(Sync(r))

Spec == Init /\ [][Next]_vars

FairSpec == Spec /\ Fairness

-----------------------------------------------------------------------------
(***************************************************************************)
(* Properties                                                              *)
(***************************************************************************)

Bare == objects = {} /\ allocation = NULL /\ ~capacity

NoPodLeft == \A name \in PodName : pods[name] # NULL => pods[name].leaving

\* "A partly-cleaned cluster is never reported as success" (teardown), nor is
\* anything left behind unless an error says so or --keep-on-failure asked for it,
\* and the code says which of setup, scenarios and teardown failed.
ExitIsHonest ==
  at.phase = "done" =>
    /\ code = 0 => ~failed /\ Bare
    /\ code = 1 => failed
    /\ code = 3 => ~failed /\ errors # {}
    /\ code = 4 => Bare
    /\ errors = {} /\ ~kept => Bare

\* If all calls are answered, every scenario leaves no pod behind (delete_pod), and
\* as long as all pass each leaves the spec as it found it, so that the next one
\* judges what it says it does (restore_budget, restore_per_resource_budgets,
\* patch_enforcement).
PassLeavesBaseline ==
  [][Conclude /\ faults = 0 =>
       /\ NoPodLeft
       /\ ~failed' /\ allocation # NULL => allocation.spec = Seeded]_vars

\* A denial that a scenario counts for the webhook is the budget's: it was given
\* by a replica that enforces, with fresh figures, and because of the budget the
\* scenario has set or the size of its pod, not of figures missing, of an old pod
\* or of a webhook that cannot be reached (is_denied_403).
DenialIsTheBudgets ==
  [][CreatePod /\ Step.want \cap Denial # {} /\ verdict' = "pass" =>
       \E r \in Endpoint :
         /\ seen[r] # NULL
         /\ seen[r].mode = "enforce"
         /\ seen[r].status.fresh
         /\ \E res \in Resource : seen[r].status[res] = 0 \/ res \in Step.size]_vars

\* Whatever the cluster does or fails to do, the run comes to an end.
RunEnds == <>(at.phase = "done")

\* scenarios/degradation.rs: what is not an admission decision is not taken for
\* one (rejection_detail).
PassIsARejection ==
  at.phase = "scenario" /\ Suite[at.n] \in {D9, D10, D11} /\ verdict = "pass" =>
    last # "exists"
=============================================================================
