---------------------------- MODULE Observability ----------------------------
(***************************************************************************)
(* What one webhook process shows of its decisions: the log events, the    *)
(* counters and the gauges, written by the worker threads that answer      *)
(* reviews and by the task that refreshes the gauges every two seconds.    *)
(*                                                                         *)
(* A decision is taken in one synchronous piece of code, but what it       *)
(* records is written series by series, each write atomic, on a runtime    *)
(* with several threads: todo[t] holds the writes task t still has to do,  *)
(* in the source's order.  A review is answered after its last write.      *)
(*                                                                         *)
(* capacity is NULL or the status of cluster-capacity, [totals, stamp].    *)
(***************************************************************************)
EXTENDS Decision, Sequences, FiniteSets, Functions

CONSTANTS
  Worker,         \* threads that serve /validate
  Refresher,      \* the gauge refresh task, not a worker
  Requests,       \* bodies the API server sends; NULL is a malformed one
  Allocations,    \* what the allocation cache may hold, or NULL
  Capacities,     \* what the capacity cache may hold, or NULL
  MaxReviews,     \* bound on the reviews
  MaxChanges      \* bound on the changes of the caches and of the clock

Task == Worker \cup {Refresher}

Gauge == {"total_allocatable", "current_allocation", "ceiling", "ratio"}

VerdictLabel == {"allow", "deny", "dry_run_deny", "error"}

ExemptionReason == {"namespace", "priority_class", "webhook_namespace"}

\* Why a decision rejects without having judged the budget.
Slug == {"deserialisation_failure", "quantity_parse_failure", "capacity_data_missing",
         "capacity_data_stale"}

\* The outcomes of a decision: rejected, exempt, or judged in one of the modes.
Outcome ==
  {Reject(slug) : slug \in Slug} \cup {Exempted(reason) : reason \in ExemptionReason}
    \cup {BudgetOutcome(violations, mode) :
            violations \in SUBSET Resource, mode \in {"enforce", "dry-run"}}

ASSUME TasksAssumption == IsFiniteSet(Worker) /\ Refresher \notin Worker

ASSUME BoundsAssumption == MaxReviews \in Nat /\ MaxChanges \in Nat

\* The resources the source writes out.
ASSUME ResourceAssumption == Resource = {"cpu", "memory"}

\* Figures are numbers; a stamp is a time or does not parse.
ASSUME CachesAssumption ==
  /\ \A object \in Allocations \ {NULL} :
       /\ object.spec.mode \in {"enforce", "dry-run", NULL}
       /\ object.status # NULL =>
            /\ object.status.allocated \in [Resource -> Int]
            /\ object.status.ceiling \in [Resource -> Int]
            /\ object.status.stamp \in Int \cup {NULL}
  /\ \A object \in Capacities \ {NULL} : object.totals \in [Resource -> Int]

ASSUME NullOutcomeAssumption == NULL \notin Outcome

VARIABLES
  allocation, capacity,   \* the two caches
  now,
  phase,          \* "serving", "draining" after a signal, "stopped"
  todo,           \* the writes a task still has to do
  outcome,        \* what a worker answers when they are done, or NULL
  verdicts, exemptions, durations, log,     \* counters
  freshness, gauges,
  answers,        \* history: how many reviews got which verdict
  changes

caches == <<allocation, capacity, now, changes>>
counters == <<verdicts, exemptions, durations, log>>
vars == <<caches, phase, todo, outcome, counters, freshness, gauges, answers>>

-----------------------------------------------------------------------------
(***************************************************************************)
(* The writes of one decision, and of one refresh                          *)
(***************************************************************************)
Write(series, label, value) == [series |-> series, label |-> label, value |-> value]

\* The writes that Ops(res) lists, one resource after the other.
ForEachResource(Ops(_)) == Ops("cpu") \o Ops("memory")

\* allocated / ceiling, exact; 0 without a ceiling.
Ratio(allocated, ceiling) == IF ceiling = 0 THEN <<0, 1>> ELSE <<allocated, ceiling>>

FiguresOf(status, totals) ==
  [res \in Resource |->
     [total_allocatable  |-> totals[res],
      current_allocation |-> status.allocated[res],
      ceiling            |-> status.ceiling[res],
      ratio              |-> Ratio(status.allocated[res], status.ceiling[res])]]

RefreshCapacity(figures) ==
  LET Set(res, gauge) == Write("gauge", <<res, gauge>>, figures[res][gauge])
      GaugesOf(res)   == <<Set(res, "total_allocatable"), Set(res, "current_allocation"),
                           Set(res, "ceiling"), Set(res, "ratio")>>
  IN ForEachResource(GaugesOf)

\* One event per resource, or one for the review when no figures were read.
EmitLog(o) ==
  IF o.verdict \in {"error", "exempt"}
  THEN <<Write("log", <<o.verdict, o.reason>>, 1)>>
  ELSE LET EventOf(res) ==
             <<Write("log", <<o.verdict, IF res \in o.violations THEN res
                                         ELSE "within">>, 1)>>
       IN ForEachResource(EventOf)

\* Mutant: a dry-run denial is labelled per resource, like a real one.
VerdictPerResource(o, res) ==
  IF o.verdict = "error" THEN "error"
  ELSE IF res \in o.violations THEN "deny" ELSE "allow"

Verdict(o, res) ==
  IF o.verdict \in {"error", "dry_run_deny"} THEN o.verdict
  ELSE IF res \in o.violations THEN "deny" ELSE "allow"

\* The age of the status, -1 without a readable stamp.
FreshnessSeconds(stamp, time) == IF stamp = NULL THEN -1 ELSE Age(stamp, time)

\* A quantity that does not parse is noticed after freshness and supply were
\* read, so that rejection shows the freshness.
RecordMetrics(o, a, c, time) ==
  IF o.verdict = "exempt"
  THEN <<Write("exemption", o.reason, 1), Write("duration", "all", 1)>>
  ELSE LET VerdictOf(res) == <<Write("verdict", <<res, Verdict(o, res)>>, 1)>>
           assessed == o.verdict # "error" \/ o.reason = "quantity_parse_failure"
       IN ForEachResource(VerdictOf)
            \o <<Write("duration", "all", 1)>>
            \o (IF assessed
                THEN <<Write("freshness", "all",
                             FreshnessSeconds(a.status.stamp, time))>>
                ELSE <<>>)
            \o (IF o.verdict # "error"
                THEN RefreshCapacity(FiguresOf(a.status, c.totals))
                ELSE <<>>)

CachedTotals(c) == IF c = NULL THEN Zero ELSE c.totals

\* Mutant: only a decision shows the figures.
RefreshGaugesFreshnessOnly(a, c, time) ==
  IF a = NULL \/ a.status = NULL THEN <<>>
  ELSE <<Write("freshness", "all",
               Larger(0, FreshnessSeconds(a.status.stamp, time)))>>

\* Mutant: the -1 of an unreadable stamp reaches the gauge.
RefreshGaugesUnclamped(a, c, time) ==
  IF a = NULL \/ a.status = NULL THEN <<>>
  ELSE <<Write("freshness", "all", FreshnessSeconds(a.status.stamp, time))>>
         \o RefreshCapacity(FiguresOf(a.status, CachedTotals(c)))

\* Nothing without a status: the gauges keep their last figures.
RefreshGauges(a, c, time) ==
  IF a = NULL \/ a.status = NULL THEN <<>>
  ELSE <<Write("freshness", "all",
               Larger(0, FreshnessSeconds(a.status.stamp, time)))>>
         \o RefreshCapacity(FiguresOf(a.status, CachedTotals(c)))

-----------------------------------------------------------------------------
\* Every series is there from the start, at zero; the reflectors are spawned
\* first and may have filled the caches.
Init ==
  /\ allocation \in Allocations \cup {NULL} /\ capacity \in Capacities \cup {NULL}
  /\ now = 0 /\ changes = 0
  /\ phase = "serving"
  /\ todo = [t \in Task |-> <<>>]
  /\ outcome = [w \in Worker |-> NULL]
  /\ verdicts = [res \in Resource |-> [v \in VerdictLabel |-> 0]]
  /\ exemptions = [reason \in ExemptionReason |-> 0]
  /\ durations = 0
  /\ log = << >>
  /\ freshness = 0
  /\ gauges = [res \in Resource |-> [g \in Gauge |-> IF g = "ratio" THEN <<0, 1>> ELSE 0]]
  /\ answers = [v \in VerdictLabel \cup {"exempt"} |-> 0]

Started == SumFunction(answers)
             + Cardinality({w \in Worker : outcome[w] # NULL})

\* POST /validate: the decision reads clock and caches and lists its writes.
Validate(w) ==
  /\ phase = "serving"
  /\ outcome[w] = NULL
  /\ Started < MaxReviews
  /\ \E body \in Requests :
       LET o == Handle(body, allocation, capacity, now) IN
       /\ outcome' = [outcome EXCEPT ![w] = o]
       /\ todo' = [todo EXCEPT ![w] =
                     EmitLog(o) \o RecordMetrics(o, allocation, capacity, now)]
  /\ UNCHANGED <<caches, phase, counters, freshness, gauges, answers>>

\* The answer leaves when everything is recorded.
Respond(w) ==
  /\ phase # "stopped"
  /\ outcome[w] # NULL /\ todo[w] = <<>>
  /\ answers' = [answers EXCEPT ![outcome[w].verdict] = @ + 1]
  /\ outcome' = [outcome EXCEPT ![w] = NULL]
  /\ UNCHANGED <<caches, phase, todo, counters, freshness, gauges>>

\* The interval ticks: the refresh reads clock and caches.
Refresh ==
  /\ phase # "stopped"
  /\ todo[Refresher] = <<>>
  /\ todo' = [todo EXCEPT ![Refresher] = RefreshGauges(allocation, capacity, now)]
  /\ UNCHANGED <<caches, phase, outcome, counters, freshness, gauges, answers>>

\* Task t does its next write, to the given series.
Doing(t, series) ==
  /\ phase # "stopped"
  /\ todo[t] # <<>> /\ Head(todo[t]).series = series
  /\ todo' = [todo EXCEPT ![t] = Tail(@)]
  /\ UNCHANGED <<caches, phase, outcome, answers>>

Log(t) ==
  /\ Doing(t, "log")
  /\ LET event == Head(todo[t]).label
     IN log' = [e \in DOMAIN log \cup {event} |->
                  (IF e \in DOMAIN log THEN log[e] ELSE 0)
                    + (IF e = event THEN 1 ELSE 0)]
  /\ UNCHANGED <<verdicts, exemptions, durations, freshness, gauges>>

RecordVerdict(t) ==
  /\ Doing(t, "verdict")
  /\ LET label == Head(todo[t]).label
     IN verdicts' = [verdicts EXCEPT ![label[1]][label[2]] = @ + 1]
  /\ UNCHANGED <<exemptions, durations, log, freshness, gauges>>

RecordExemption(t) ==
  /\ Doing(t, "exemption")
  /\ exemptions' = [exemptions EXCEPT ![Head(todo[t]).label] = @ + 1]
  /\ UNCHANGED <<verdicts, durations, log, freshness, gauges>>

ObserveDuration(t) ==
  /\ Doing(t, "duration")
  /\ durations' = durations + 1
  /\ UNCHANGED <<verdicts, exemptions, log, freshness, gauges>>

SetFreshness(t) ==
  /\ Doing(t, "freshness")
  /\ freshness' = Head(todo[t]).value
  /\ UNCHANGED <<counters, gauges>>

SetGauge(t) ==
  /\ Doing(t, "gauge")
  /\ LET write == Head(todo[t])
     IN gauges' = [gauges EXCEPT ![write.label[1]][write.label[2]] = write.value]
  /\ UNCHANGED <<counters, freshness>>

RecordNext(t) ==
  \/ Log(t) \/ RecordVerdict(t) \/ RecordExemption(t) \/ ObserveDuration(t)
  \/ SetFreshness(t) \/ SetGauge(t)

\* SIGTERM or SIGINT: no new review is taken.
ShutdownSignal ==
  /\ phase = "serving"
  /\ phase' = "draining"
  /\ UNCHANGED <<caches, todo, outcome, counters, freshness, gauges, answers>>

\* main returns when the reviews in flight are answered, or ten seconds after
\* the signal; the runtime drops whatever task is left.
Stop ==
  /\ phase = "draining"
  /\ phase' = "stopped"
  /\ UNCHANGED <<caches, todo, outcome, counters, freshness, gauges, answers>>

-----------------------------------------------------------------------------
(***************************************************************************)
(* The watches and the clock                                               *)
(***************************************************************************)
WatchAllocation ==
  /\ changes < MaxChanges
  /\ allocation' \in Allocations \ {allocation}
  /\ changes' = changes + 1
  /\ UNCHANGED <<capacity, now, phase, todo, outcome, counters, freshness, gauges, answers>>

WatchCapacity ==
  /\ changes < MaxChanges
  /\ capacity' \in Capacities \ {capacity}
  /\ changes' = changes + 1
  /\ UNCHANGED <<allocation, now, phase, todo, outcome, counters, freshness, gauges, answers>>

Tick ==
  /\ changes < MaxChanges
  /\ now' = now + 1
  /\ changes' = changes + 1
  /\ UNCHANGED <<allocation, capacity, phase, todo, outcome, counters,
                 freshness, gauges, answers>>

Next ==
  \/ \E w \in Worker : Validate(w) \/ Respond(w)
  \/ \E t \in Task : RecordNext(t)
  \/ Refresh \/ ShutdownSignal \/ Stop
  \/ WatchAllocation \/ WatchCapacity \/ Tick

Spec == Init /\ [][Next]_vars

\* The runtime runs every task that can run; reviews, watches, signals and the
\* clock owe nothing.
FairSpec ==
  /\ Spec
  /\ WF_vars(Refresh)
  /\ \A t \in Task : WF_vars(RecordNext(t))
  /\ \A w \in Worker : WF_vars(Respond(w))

-----------------------------------------------------------------------------
TypeOK ==
  /\ allocation \in Allocations \cup {NULL}
  /\ capacity \in Capacities \cup {NULL}
  /\ changes \in 0 .. MaxChanges /\ now \in 0 .. changes
  /\ phase \in {"serving", "draining", "stopped"}
  /\ \A t \in Task : \A i \in DOMAIN todo[t] :
       todo[t][i].series \in
         {"log", "verdict", "exemption", "duration", "freshness", "gauge"}
  /\ outcome \in [Worker -> Outcome \cup {NULL}]
  /\ verdicts \in [Resource -> [VerdictLabel -> 0 .. MaxReviews]]
  /\ exemptions \in [ExemptionReason -> 0 .. MaxReviews]
  /\ durations \in 0 .. MaxReviews
  /\ freshness \in Nat
  /\ DOMAIN gauges = Resource /\ \A res \in Resource : DOMAIN gauges[res] = Gauge
  /\ answers \in [VerdictLabel \cup {"exempt"} -> 0 .. MaxReviews]

AtRest == \A w \in Worker : outcome[w] = NULL

Logged(event) == IF event \in DOMAIN log THEN log[event] ELSE 0

\* The counters tell what was answered: with no review in flight, every review
\* is counted once per resource or as an exemption, errors, dry-run denials and
\* exemptions are as many as were answered, a rejection for budget is a denial
\* of at least one resource, every duration was observed, and the log names a
\* resource over budget as often as its counter does (record_metrics, emit_log).
MetricsTellAnswers ==
  AtRest =>
    /\ durations = Started
    /\ SumFunction(exemptions) = answers["exempt"]
    /\ \A res \in Resource :
         /\ SumFunction(verdicts[res]) + answers["exempt"] = Started
         /\ \A v \in {"error", "dry_run_deny"} : verdicts[res][v] = answers[v]
         /\ verdicts[res]["deny"] <= answers["deny"]
         /\ Logged(<<"deny", res>>) = verdicts[res]["deny"]
    /\ answers["deny"] > 0 => \E res \in Resource : verdicts[res]["deny"] > 0

Current == allocation # NULL /\ allocation.status # NULL

Shown ==
  /\ Current
  /\ freshness = Larger(0, FreshnessSeconds(allocation.status.stamp, now))
  /\ gauges = FiguresOf(allocation.status, CachedTotals(capacity))

\* Gauges catch up: once the caches and the clock hold still in a process that
\* serves, the gauges come to show what the caches hold and stay so, whatever
\* older figures a slow worker still had to write (refresh_gauges).
GaugesCatchUp ==
  (\E a \in Allocations, c \in Capacities \cup {NULL}, time \in 0 .. MaxChanges :
     <>[](allocation = a /\ capacity = c /\ now = time /\ Current
            /\ phase = "serving"))
  => <>[]Shown
=============================================================================
