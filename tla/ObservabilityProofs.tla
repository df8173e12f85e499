------------------------- MODULE ObservabilityProofs -------------------------
(***************************************************************************)
(* What one webhook process shows, for any number of threads, reviews and  *)
(* changes of its caches: types, and the counters at rest.                 *)
(***************************************************************************)
EXTENDS Observability, SumProofs

-----------------------------------------------------------------------------
(***************************************************************************)
(* Counting                                                                *)
(***************************************************************************)
One(p) == IF p THEN 1 ELSE 0

\* Two subsets of a finite set that agree on all elements but one.
LEMMA CountChange ==
  ASSUME NEW S, IsFiniteSet(S), NEW w \in S,
         NEW A \in SUBSET S, NEW B \in SUBSET S, A \ {w} = B \ {w}
  PROVE  /\ Cardinality(B) = Cardinality(A) - One(w \in A) + One(w \in B)
         /\ Cardinality(A) \in Nat /\ Cardinality(B) \in Nat
<1>1. IsFiniteSet(A) /\ IsFiniteSet(B)
  BY FS_Subset
<1>2. ASSUME NEW C \in SUBSET S
      PROVE  Cardinality(C) \in Nat /\ Cardinality(C) = Cardinality(C \ {w}) + One(w \in C)
  <2>1. IsFiniteSet(C) /\ IsFiniteSet(C \ {w})
    BY FS_Subset
  <2>2. Cardinality(C) \in Nat /\ Cardinality(C \ {w}) \in Nat
    BY <2>1, FS_CardinalityType
  <2>3. CASE w \in C
    <3>1. Cardinality(C \ {w}) = Cardinality(C) - 1
      BY <2>1, <2>3, FS_RemoveElement
    <3> QED
      BY <2>2, <2>3, <3>1 DEF One
  <2>4. CASE w \notin C
    <3>1. C \ {w} = C
      BY <2>4
    <3> QED
      BY <2>2, <2>4, <3>1 DEF One
  <2> QED
    BY <2>3, <2>4
<1>3. /\ Cardinality(A) \in Nat /\ Cardinality(A) = Cardinality(A \ {w}) + One(w \in A)
      /\ Cardinality(B) \in Nat /\ Cardinality(B) = Cardinality(B \ {w}) + One(w \in B)
  BY <1>2
<1>4. Cardinality(A \ {w}) \in Nat
  BY <1>1, FS_Subset, FS_CardinalityType
<1>5. Cardinality(A \ {w}) = Cardinality(B \ {w})
  OBVIOUS
<1> QED
  BY <1>3, <1>4, <1>5 DEF One

\* A sum moves with the one summand that moves.
LEMMA SumChange ==
  ASSUME NEW S, IsFiniteSet(S), NEW a \in S, NEW f, NEW g,
         \A x \in S : f[x] \in Int, g[a] \in Int, \A x \in S \ {a} : g[x] = f[x]
  PROVE  SumFunctionOnSet(g, S) = SumFunctionOnSet(f, S) - f[a] + g[a]
<1>1. IsFiniteSet(S \ {a})
  BY FS_Subset
<1>2. SumFunctionOnSet(f, S) = f[a] + SumFunctionOnSet(f, S \ {a})
  BY SumRemove
<1>3. SumFunctionOnSet(g, S) = g[a] + SumFunctionOnSet(g, S \ {a})
  <2>1. \A x \in S : g[x] \in Int
    OBVIOUS
  <2> QED
    BY <2>1, SumRemove
<1>4. SumFunctionOnSet(f, S \ {a}) = SumFunctionOnSet(g, S \ {a})
  BY <1>1, SumAgree
<1>5. SumFunctionOnSet(f, S \ {a}) \in Int
  BY <1>1, SumType
<1> QED
  BY <1>2, <1>3, <1>4, <1>5

-----------------------------------------------------------------------------
(***************************************************************************)
(* Writes, and what a list of them still owes                              *)
(***************************************************************************)
LogReason == Slug \cup ExemptionReason \cup Resource \cup {"within"}

Writes ==
       [series : {"log"}, label : (VerdictLabel \cup {"exempt"}) \X LogReason, value : {1}]
  \cup [series : {"verdict"}, label : Resource \X VerdictLabel, value : {1}]
  \cup [series : {"exemption"}, label : ExemptionReason, value : {1}]
  \cup [series : {"duration"}, label : {"all"}, value : {1}]
  \cup [series : {"freshness"}, label : {"all"}, value : Nat]
  \cup [series : {"gauge"}, label : Resource \X Gauge, value : Int \cup (Int \X Int)]

Key(write) == <<write.series, write.label>>

\* The writes of one decision that count: a list holds at most one of each kind.
Durations         == {<<"duration", "all">>}
Exemptions        == {<<"exemption", reason>> : reason \in ExemptionReason}
VerdictsOn(res)   == {<<"verdict", <<res, v>>>> : v \in VerdictLabel}
VerdictIs(res, v) == {<<"verdict", <<res, v>>>>}
DenialLogged(res) == {<<"log", <<"deny", res>>>>}

Kind ==
  {Durations, Exemptions}
    \cup {VerdictsOn(res) : res \in Resource}
    \cup {VerdictIs(res, v) : res \in Resource, v \in VerdictLabel}
    \cup {DenialLogged(res) : res \in Resource}

Owes(list, kind) == \E i \in DOMAIN list : Key(list[i]) \in kind

AtMostOnce(list, kind) ==
  \A i, j \in DOMAIN list : Key(list[i]) \in kind /\ Key(list[j]) \in kind => i = j

\* Nothing but gauges.
Shows(list) == \A i \in DOMAIN list : list[i].series \in {"freshness", "gauge"}

LEMMA ShowsOwesNothing ==
  ASSUME NEW list, Shows(list), NEW kind \in Kind PROVE ~Owes(list, kind)
<1>1. \A key \in kind : key[1] \in {"duration", "exemption", "verdict", "log"}
  BY DEF Kind, Durations, Exemptions, VerdictsOn, VerdictIs, DenialLogged
<1>2. \A write : Key(write)[1] = write.series
  BY DEF Key
<1> QED
  BY <1>1, <1>2 DEF Shows, Owes

LEMMA TailOwes ==
  ASSUME NEW list \in Seq(Writes), list # <<>>, NEW kind, AtMostOnce(list, kind)
  PROVE  /\ Tail(list) \in Seq(Writes)
         /\ AtMostOnce(Tail(list), kind)
         /\ Owes(list, kind) <=> Owes(Tail(list), kind) \/ Key(Head(list)) \in kind
         /\ ~(Owes(Tail(list), kind) /\ Key(Head(list)) \in kind)
<1>1. /\ Tail(list) \in Seq(Writes) /\ Len(list) \in Nat /\ Len(list) > 0
      /\ DOMAIN list = 1 .. Len(list) /\ DOMAIN Tail(list) = 1 .. Len(list) - 1
      /\ \A i \in 1 .. Len(list) - 1 : Tail(list)[i] = list[i + 1]
      /\ Head(list) = list[1]
  OBVIOUS
<1> HIDE DEF Key
<1>2. AtMostOnce(Tail(list), kind)
  <2> SUFFICES ASSUME NEW i \in 1 .. Len(list) - 1, NEW j \in 1 .. Len(list) - 1,
                      Key(list[i + 1]) \in kind, Key(list[j + 1]) \in kind
               PROVE  i = j
    BY <1>1 DEF AtMostOnce
  <2>1. i + 1 \in DOMAIN list /\ j + 1 \in DOMAIN list
    BY <1>1
  <2>2. i + 1 = j + 1
    BY <2>1 DEF AtMostOnce
  <2> QED
    BY <2>2
<1>3. Owes(Tail(list), kind) <=> \E i \in DOMAIN list : i # 1 /\ Key(list[i]) \in kind
  <2>1. ASSUME NEW i \in DOMAIN list, i # 1
        PROVE  i - 1 \in DOMAIN Tail(list) /\ Tail(list)[i - 1] = list[i]
    <3>1. i - 1 \in 1 .. Len(list) - 1 /\ (i - 1) + 1 = i
      BY <1>1, <2>1
    <3> QED
      BY <1>1, <3>1
  <2>2. ASSUME NEW i \in DOMAIN Tail(list)
        PROVE  i + 1 \in DOMAIN list /\ i + 1 # 1 /\ Tail(list)[i] = list[i + 1]
    BY <1>1
  <2> QED
    BY <2>1, <2>2 DEF Owes
<1>4. 1 \in DOMAIN list
  BY <1>1
<1> QED
  BY <1>1, <1>2, <1>3, <1>4 DEF Owes, AtMostOnce

LEMMA ConcatOwes ==
  ASSUME NEW s \in Seq(Writes), NEW t \in Seq(Writes), NEW kind
  PROVE  /\ s \o t \in Seq(Writes)
         /\ Owes(s \o t, kind) <=> Owes(s, kind) \/ Owes(t, kind)
         /\ AtMostOnce(s, kind) /\ AtMostOnce(t, kind) /\ ~(Owes(s, kind) /\ Owes(t, kind))
              => AtMostOnce(s \o t, kind)
<1> DEFINE both == s \o t
<1>1. /\ both \in Seq(Writes) /\ Len(s) \in Nat /\ Len(t) \in Nat
      /\ DOMAIN s = 1 .. Len(s) /\ DOMAIN t = 1 .. Len(t)
      /\ DOMAIN both = 1 .. Len(s) + Len(t)
      /\ \A i \in 1 .. Len(s) + Len(t) :
           both[i] = IF i <= Len(s) THEN s[i] ELSE t[i - Len(s)]
  OBVIOUS
<1> HIDE DEF both
<1>2. ASSUME NEW i \in DOMAIN both
      PROVE  \/ i <= Len(s) /\ i \in DOMAIN s /\ both[i] = s[i]
             \/ i > Len(s) /\ i - Len(s) \in DOMAIN t /\ both[i] = t[i - Len(s)]
  BY <1>1
<1>3. ASSUME NEW i \in DOMAIN s PROVE i \in DOMAIN both /\ both[i] = s[i]
  BY <1>1
<1>4. ASSUME NEW i \in DOMAIN t PROVE i + Len(s) \in DOMAIN both /\ both[i + Len(s)] = t[i]
  BY <1>1
<1>5. Owes(both, kind) <=> Owes(s, kind) \/ Owes(t, kind)
  BY <1>2, <1>3, <1>4 DEF Owes
<1>6. ASSUME AtMostOnce(s, kind), AtMostOnce(t, kind), ~(Owes(s, kind) /\ Owes(t, kind))
      PROVE  AtMostOnce(both, kind)
  <2> SUFFICES ASSUME NEW i \in DOMAIN both, NEW j \in DOMAIN both,
                      Key(both[i]) \in kind, Key(both[j]) \in kind
               PROVE  i = j
    BY DEF AtMostOnce
  <2>1. CASE i <= Len(s) /\ j <= Len(s)
    BY <1>1, <1>2, <1>6, <2>1 DEF AtMostOnce
  <2>2. CASE i > Len(s) /\ j > Len(s)
    <3>1. i - Len(s) \in DOMAIN t /\ j - Len(s) \in DOMAIN t
      BY <1>1, <2>2
    <3>2. Key(t[i - Len(s)]) \in kind /\ Key(t[j - Len(s)]) \in kind
      BY <1>1, <2>2
    <3>3. i - Len(s) = j - Len(s)
      BY <1>6, <3>1, <3>2 DEF AtMostOnce
    <3> QED
      BY <1>1, <3>3
  <2>3. ASSUME i <= Len(s), j > Len(s) PROVE FALSE
    BY <1>2, <1>6, <2>3, <1>1 DEF Owes
  <2>4. ASSUME j <= Len(s), i > Len(s) PROVE FALSE
    BY <1>2, <1>6, <2>4, <1>1 DEF Owes
  <2> QED
    BY <1>1, <2>1, <2>2, <2>3, <2>4
<1> QED
  BY <1>1, <1>5, <1>6 DEF both

\* Lists that owe each kind at most once.
Sound(list) == list \in Seq(Writes) /\ \A kind \in Kind : AtMostOnce(list, kind)

\* The keys of a kind belong together.
LEMMA KindKeys ==
  ASSUME NEW kind \in Kind, NEW one \in kind, NEW other \in kind
  PROVE  /\ one[1] = other[1]
         /\ one[1] \in {"duration", "exemption", "verdict", "log"}
         /\ one[1] = "verdict" => one[2][1] = other[2][1]
         /\ one[1] = "log" =>
              one[2] = other[2] /\ one[2][1] = "deny" /\ one[2][2] \in Resource
<1>1. CASE kind = Durations
  BY <1>1 DEF Durations
<1>2. CASE kind = Exemptions
  BY <1>2 DEF Exemptions
<1>3. ASSUME NEW res \in Resource, kind = VerdictsOn(res)
      PROVE  one[1] = "verdict" /\ other[1] = "verdict" /\ one[2][1] = other[2][1]
  BY <1>3 DEF VerdictsOn
<1>4. ASSUME NEW res \in Resource, NEW v \in VerdictLabel, kind = VerdictIs(res, v)
      PROVE  one[1] = "verdict" /\ other[1] = "verdict" /\ one[2][1] = other[2][1]
  BY <1>4 DEF VerdictIs
<1>5. ASSUME NEW res \in Resource, kind = DenialLogged(res)
      PROVE  one = <<"log", <<"deny", res>>>> /\ other = one
  BY <1>5 DEF DenialLogged
<1> QED
  BY <1>1, <1>2, <1>3, <1>4, <1>5 DEF Kind

LEMMA ConcatSound ==
  ASSUME NEW s, NEW t, Sound(s), Sound(t),
         \A kind \in Kind : ~(Owes(s, kind) /\ Owes(t, kind))
  PROVE  /\ Sound(s \o t)
         /\ \A kind \in Kind : Owes(s \o t, kind) <=> Owes(s, kind) \/ Owes(t, kind)
<1>1. s \in Seq(Writes) /\ t \in Seq(Writes)
  BY DEF Sound
<1>2. s \o t \in Seq(Writes)
  BY <1>1
<1> QED
  BY <1>1, <1>2, ConcatOwes DEF Sound

LEMMA SingleSound ==
  ASSUME NEW write \in Writes
  PROVE  Sound(<<write>>) /\ \A kind : Owes(<<write>>, kind) <=> Key(write) \in kind
<1> DEFINE list == <<write>>
<1>1. list \in Seq(Writes) /\ DOMAIN list = {1} /\ list[1] = write
  OBVIOUS
<1> HIDE DEF list
<1> QED
  BY <1>1 DEF Sound, AtMostOnce, Owes, list

LEMMA ShowsSound ==
  ASSUME NEW list \in Seq(Writes), Shows(list) PROVE Sound(list)
<1>1. ASSUME NEW kind \in Kind PROVE AtMostOnce(list, kind)
  BY ShowsOwesNothing DEF AtMostOnce, Owes
<1> QED
  BY <1>1 DEF Sound

LEMMA ConcatShows ==
  ASSUME NEW s \in Seq(Writes), NEW t \in Seq(Writes), Shows(s), Shows(t)
  PROVE  s \o t \in Seq(Writes) /\ Shows(s \o t)
<1> DEFINE both == s \o t
<1>1. both \in Seq(Writes)
  OBVIOUS
<1>2. ASSUME NEW i \in DOMAIN both
      PROVE  \/ i \in DOMAIN s /\ both[i] = s[i]
             \/ i - Len(s) \in DOMAIN t /\ both[i] = t[i - Len(s)]
  OBVIOUS
<1> HIDE DEF both
<1>3. Shows(both)
  BY <1>2 DEF Shows
<1> QED
  BY <1>1, <1>3 DEF both

\* A list of no interest to the counters, behind one that is.
LEMMA ShowsBehind ==
  ASSUME NEW s, NEW t \in Seq(Writes), Sound(s), Shows(t)
  PROVE  /\ Sound(s \o t)
         /\ \A kind \in Kind : Owes(s \o t, kind) <=> Owes(s, kind)
<1>1. Sound(t) /\ \A kind \in Kind : ~Owes(t, kind)
  BY ShowsSound, ShowsOwesNothing
<1> QED
  BY <1>1, ConcatSound

LEMMA EmptyShows == <<>> \in Seq(Writes) /\ Shows(<<>>)
  BY DEF Shows

LEMMA FreshnessShows ==
  ASSUME NEW age \in Nat
  PROVE  /\ <<Write("freshness", "all", age)>> \in Seq(Writes)
         /\ Shows(<<Write("freshness", "all", age)>>)
<1> DEFINE write == Write("freshness", "all", age)
<1>1. write \in Writes /\ write.series = "freshness"
  BY DEF Write, Writes
<1> HIDE DEF write
<1>2. <<write>> \in Seq(Writes) /\ Shows(<<write>>)
  BY <1>1 DEF Shows
<1> QED
  BY <1>2 DEF write

Figure == [total_allocatable : Int, current_allocation : Int, ceiling : Int,
           ratio : Int \X Int]

LEMMA CapacityShows ==
  ASSUME NEW figures \in [Resource -> Figure]
  PROVE  RefreshCapacity(figures) \in Seq(Writes) /\ Shows(RefreshCapacity(figures))
<1> DEFINE Set(res, gauge) == Write("gauge", <<res, gauge>>, figures[res][gauge])
           Four(res) == <<Set(res, "total_allocatable"), Set(res, "current_allocation"),
                          Set(res, "ceiling"), Set(res, "ratio")>>
<1>1. ASSUME NEW res \in Resource PROVE Four(res) \in Seq(Writes) /\ Shows(Four(res))
  <2>1. ASSUME NEW gauge \in Gauge
        PROVE  Set(res, gauge) \in Writes /\ Set(res, gauge).series = "gauge"
    <3>1. figures[res] \in Figure
      OBVIOUS
    <3>2. figures[res][gauge] \in Int \cup (Int \X Int)
      BY <3>1 DEF Figure, Gauge
    <3>3. Set(res, gauge).series = "gauge"
      BY DEF Write
    <3>4. Set(res, gauge) \in
            [series : {"gauge"}, label : Resource \X Gauge, value : Int \cup (Int \X Int)]
      BY <3>2 DEF Write
    <3> QED
      BY <3>3, <3>4 DEF Writes
  <2> HIDE DEF Set
  <2>2. \A gauge \in {"total_allocatable", "current_allocation", "ceiling", "ratio"} :
          Set(res, gauge) \in Writes /\ Set(res, gauge).series = "gauge"
    BY <2>1 DEF Gauge
  <2>3. Four(res) \in Seq(Writes)
    BY <2>2
  <2>4. \A i \in 1 .. 4 : Four(res)[i].series = "gauge"
    BY <2>2
  <2>5. DOMAIN Four(res) = 1 .. 4
    OBVIOUS
  <2> QED
    BY <2>3, <2>4, <2>5 DEF Shows
<1>2. "cpu" \in Resource /\ "memory" \in Resource
  BY ResourceAssumption
<1>3. RefreshCapacity(figures) = Four("cpu") \o Four("memory")
  BY DEF RefreshCapacity, ForEachResource
<1> HIDE DEF Four
<1> QED
  BY <1>1, <1>2, <1>3, ConcatShows

-----------------------------------------------------------------------------
(***************************************************************************)
(* What a decision lists                                                   *)
(***************************************************************************)

\* What the early returns of the decision leave of an outcome and of the caches.
Assessed(o) == o.verdict # "error" \/ o.reason = "quantity_parse_failure"

\* The verdict of every outcome, and what goes with it.
LEMMA OutcomeShape ==
  ASSUME NEW o \in Outcome
  PROVE  /\ o.verdict \in VerdictLabel \cup {"exempt"} /\ o.violations \in SUBSET Resource
         /\ o.verdict = "error" => o.reason \in Slug
         /\ o.verdict = "exempt" => o.reason \in ExemptionReason
         /\ o.verdict = "allow" => o.violations = {}
         /\ o.verdict = "deny" => o.violations # {}
<1>1. ASSUME NEW slug \in Slug, o = Reject(slug)
      PROVE  o.verdict = "error" /\ o.reason = slug /\ o.violations = {}
  BY <1>1 DEF Reject
<1>2. ASSUME NEW reason \in ExemptionReason, o = Exempted(reason)
      PROVE  o.verdict = "exempt" /\ o.reason = reason /\ o.violations = {}
  BY <1>2 DEF Exempted
<1>3. ASSUME NEW violations \in SUBSET Resource, NEW mode, o = BudgetOutcome(violations, mode)
      PROVE  /\ o.verdict \in {"allow", "dry_run_deny", "deny"} /\ o.violations = violations
             /\ o.verdict = "allow" => violations = {}
             /\ o.verdict = "deny" => violations # {}
  BY <1>3 DEF BudgetOutcome
<1> QED
  BY <1>1, <1>2, <1>3 DEF Outcome, VerdictLabel

LEMMA DecisionShape ==
  ASSUME NEW body, NEW a \in Allocations \cup {NULL}, NEW c \in Capacities \cup {NULL},
         NEW time \in Nat, NEW o, o = Handle(body, a, c, time)
  PROVE  /\ o \in Outcome
         /\ o.verdict # "exempt" /\ Assessed(o) =>
              a # NULL /\ a.status # NULL /\ a.status.stamp # NULL
         /\ o.verdict \notin {"error", "exempt"} => c # NULL
<1>1. ASSUME NEW slug \in {"deserialisation_failure", "capacity_data_missing",
                           "capacity_data_stale"},
             o = Reject(slug)
      PROVE  o \in Outcome /\ o.verdict = "error" /\ ~Assessed(o)
  <2>1. o \in Outcome
    BY <1>1 DEF Outcome, Slug
  <2> QED
    BY <1>1, <2>1 DEF Reject, Assessed
<1>2. ASSUME NEW reason \in ExemptionReason, o = Exempted(reason)
      PROVE  o \in Outcome /\ o.verdict = "exempt"
  <2>1. o \in Outcome
    BY <1>2 DEF Outcome
  <2> QED
    BY <1>2, <2>1 DEF Exempted
<1>3. CASE body = NULL
  BY <1>1, <1>3 DEF Handle
<1>4. CASE body # NULL
  <2>1. o = Evaluate(body, a, c, time)
    BY <1>4 DEF Handle
  <2>2. CASE a = NULL \/ a.status = NULL
    BY <1>1, <2>1, <2>2 DEF Evaluate
  <2>3. CASE a # NULL /\ a.status # NULL /\ CheckExemption(body, a.spec) # NULL
    <3>1. CheckExemption(body, a.spec) \in ExemptionReason
      BY <2>3 DEF CheckExemption, ExemptionReason
    <3> QED
      BY <1>2, <2>1, <2>3, <3>1 DEF Evaluate
  <2>4. CASE /\ a # NULL /\ a.status # NULL /\ CheckExemption(body, a.spec) = NULL
             /\ IsStale(a.status.stamp, time) \/ c = NULL
    BY <1>1, <2>1, <2>4 DEF Evaluate
  <2>5. CASE /\ a # NULL /\ a.status # NULL /\ CheckExemption(body, a.spec) = NULL
             /\ ~IsStale(a.status.stamp, time) /\ c # NULL
    <3>1. a.status.stamp # NULL
      BY <2>5 DEF IsStale
    <3>2. CASE Unparseable(body)
      <4>1. o = Reject("quantity_parse_failure")
        BY <2>1, <2>5, <3>2 DEF Evaluate
      <4>2. o \in Outcome
        BY <4>1 DEF Outcome, Slug
      <4> QED
        BY <2>5, <3>1, <4>2
    <3>3. CASE ~Unparseable(body)
      <4> DEFINE violations == CheckBudget(a.status.allocated, EffectiveRequest(body),
                                           a.status.ceiling)
      <4>1. o = BudgetOutcome(violations, ResolveEnforcementMode(a.spec.mode))
        BY <2>1, <2>5, <3>3 DEF Evaluate
      <4>2. violations \in SUBSET Resource
        BY DEF CheckBudget
      <4>3. ResolveEnforcementMode(a.spec.mode) \in {"enforce", "dry-run"}
        BY <2>5, CachesAssumption DEF ResolveEnforcementMode
      <4> HIDE DEF violations
      <4>4. o \in Outcome
        BY <4>1, <4>2, <4>3 DEF Outcome
      <4> QED
        BY <2>5, <3>1, <4>4
    <3> QED
      BY <3>2, <3>3
  <2> QED
    BY <2>2, <2>3, <2>4, <2>5
<1> QED
  BY <1>3, <1>4

LEMMA FiguresType ==
  ASSUME NEW a \in Allocations \ {NULL}, a.status # NULL, NEW totals \in [Resource -> Int]
  PROVE  FiguresOf(a.status, totals) \in [Resource -> Figure]
<1>1. a.status.allocated \in [Resource -> Int] /\ a.status.ceiling \in [Resource -> Int]
  BY CachesAssumption
<1>2. ASSUME NEW res \in Resource
      PROVE  Ratio(a.status.allocated[res], a.status.ceiling[res]) \in Int \X Int
  BY <1>1 DEF Ratio
<1> QED
  BY <1>1, <1>2 DEF FiguresOf, Figure

LEMMA AgeType == ASSUME NEW stamp \in Int, NEW time \in Nat PROVE Age(stamp, time) \in Nat
  BY DEF Age, Larger

\* What a decision has to record of each kind.
Recorded(list, o) ==
  /\ Sound(list)
  /\ Owes(list, Durations)
  /\ Owes(list, Exemptions) <=> o.verdict = "exempt"
  /\ \A res \in Resource :
       /\ Owes(list, VerdictsOn(res)) <=> o.verdict # "exempt"
       /\ \A v \in VerdictLabel :
            Owes(list, VerdictIs(res, v)) <=> o.verdict # "exempt" /\ Verdict(o, res) = v
       /\ Owes(list, DenialLogged(res)) <=> o.verdict = "deny" /\ res \in o.violations

LEMMA KindsAre ==
  /\ Durations \in Kind /\ Exemptions \in Kind
  /\ \A res \in Resource :
       /\ VerdictsOn(res) \in Kind /\ DenialLogged(res) \in Kind
       /\ \A v \in VerdictLabel : VerdictIs(res, v) \in Kind
  BY DEF Kind

\* The log owes the denials and nothing else.
LEMMA LogRecords ==
  ASSUME NEW o \in Outcome
  PROVE  /\ Sound(EmitLog(o))
         /\ \A kind \in Kind :
              Owes(EmitLog(o), kind) <=>
                \E res \in Resource :
                  kind = DenialLogged(res) /\ o.verdict = "deny" /\ res \in o.violations
<1> DEFINE Event(res) == Write("log", <<o.verdict, IF res \in o.violations THEN res
                                                   ELSE "within">>, 1)
<1>1. o.verdict \in VerdictLabel \cup {"exempt"}
  BY OutcomeShape
<1>2. CASE o.verdict \in {"error", "exempt"}
  <2> DEFINE write == Write("log", <<o.verdict, o.reason>>, 1)
  <2>1. EmitLog(o) = <<write>>
    BY <1>2 DEF EmitLog
  <2>2. o.reason \in LogReason
    BY <1>2, OutcomeShape DEF LogReason
  <2>3. write \in
          [series : {"log"}, label : (VerdictLabel \cup {"exempt"}) \X LogReason, value : {1}]
    BY <1>1, <2>2 DEF Write
  <2>4. write \in Writes
    BY <2>3 DEF Writes
  <2>5. Key(write) = <<"log", <<o.verdict, o.reason>>>>
    BY DEF Key, Write
  <2>6. \A kind \in Kind : Key(write) \notin kind
    <3> HIDE DEF write
    <3> SUFFICES ASSUME NEW kind \in Kind, Key(write) \in kind PROVE FALSE
      OBVIOUS
    <3>1. Key(write)[1] = "log" /\ Key(write)[2][1] = o.verdict
      BY <2>5
    <3>2. Key(write)[2][1] = "deny"
      BY <3>1, KindKeys
    <3> QED
      BY <1>2, <3>1, <3>2
  <2> HIDE DEF write
  <2> QED
    BY <1>2, <2>1, <2>4, <2>6, SingleSound
<1>3. CASE o.verdict \notin {"error", "exempt"}
  <2>1. EmitLog(o) = <<Event("cpu")>> \o <<Event("memory")>>
    BY <1>3 DEF EmitLog, ForEachResource
  <2>2. ASSUME NEW res \in Resource
        PROVE  /\ Event(res) \in Writes
               /\ \A kind \in Kind :
                    Key(Event(res)) \in kind <=>
                      kind = DenialLogged(res) /\ o.verdict = "deny" /\ res \in o.violations
    <3> DEFINE resource == IF res \in o.violations THEN res ELSE "within"
               event == Event(res)
    <3>1. /\ resource \in LogReason
          /\ resource \in Resource => resource = res /\ res \in o.violations
      BY ResourceAssumption DEF LogReason
    <3>2. event \in
            [series : {"log"}, label : (VerdictLabel \cup {"exempt"}) \X LogReason, value : {1}]
      BY <1>1, <3>1 DEF Write
    <3>3. event \in Writes
      BY <3>2 DEF Writes
    <3>4. Key(event) = <<"log", <<o.verdict, resource>>>>
      BY DEF Key, Write
    <3>5. ASSUME NEW kind \in Kind, Key(event) \in kind
          PROVE  o.verdict = "deny" /\ resource \in Resource /\ kind = DenialLogged(resource)
      <4> HIDE DEF event, resource
      <4>1. /\ Key(event)[1] = "log" /\ Key(event)[2][1] = o.verdict
            /\ Key(event)[2][2] = resource
        BY <3>4
      <4>2. o.verdict = "deny" /\ resource \in Resource
        BY <3>5, <4>1, KindKeys
      <4>3. kind # Durations /\ kind # Exemptions
        BY <3>5, <4>1 DEF Durations, Exemptions
      <4>4. \A r \in Resource :
              kind # VerdictsOn(r) /\ \A v \in VerdictLabel : kind # VerdictIs(r, v)
        BY <3>5, <4>1 DEF VerdictsOn, VerdictIs
      <4>5. PICK r \in Resource : kind = DenialLogged(r)
        BY <4>3, <4>4 DEF Kind
      <4>6. Key(event) = <<"log", <<"deny", r>>>>
        BY <3>5, <4>5 DEF DenialLogged
      <4>7. r = resource
        BY <4>1, <4>6
      <4> QED
        BY <4>2, <4>5, <4>7
    <3>6. ASSUME o.verdict = "deny", res \in o.violations
          PROVE  Key(event) \in DenialLogged(res)
      BY <3>4, <3>6 DEF DenialLogged
    <3> HIDE DEF event, resource, Event
    <3>7. \A kind \in Kind :
            Key(event) \in kind <=>
              kind = DenialLogged(res) /\ o.verdict = "deny" /\ res \in o.violations
      BY <3>1, <3>5, <3>6
    <3> QED
      BY <3>3, <3>7 DEF event
  <2>3. DenialLogged("cpu") # DenialLogged("memory")
    <3>1. \A res : \A key \in DenialLogged(res) : key[2][2] = res
      BY DEF DenialLogged
    <3>2. <<"log", <<"deny", "cpu">>>> \in DenialLogged("cpu")
      BY DEF DenialLogged
    <3> QED
      BY <3>1, <3>2
  <2> HIDE DEF Event
  <2> DEFINE s == <<Event("cpu")>>
             t == <<Event("memory")>>
  <2>4. /\ Event("cpu") \in Writes /\ Event("memory") \in Writes
    BY <2>2, ResourceAssumption
  <2>5. Sound(s) /\ Sound(t)
    BY <2>4, SingleSound
  <2>6. /\ \A kind \in Kind : Owes(s, kind) <=>
             kind = DenialLogged("cpu") /\ o.verdict = "deny" /\ "cpu" \in o.violations
        /\ \A kind \in Kind : Owes(t, kind) <=>
             kind = DenialLogged("memory") /\ o.verdict = "deny" /\ "memory" \in o.violations
    BY <2>2, <2>4, SingleSound, ResourceAssumption
  <2> HIDE DEF s, t
  <2>7. /\ Sound(s \o t)
        /\ \A kind \in Kind : Owes(s \o t, kind) <=> Owes(s, kind) \/ Owes(t, kind)
    BY <2>3, <2>5, <2>6, ConcatSound
  <2>8. EmitLog(o) = s \o t
    BY <2>1 DEF s, t
  <2> QED
    BY <2>6, <2>7, <2>8, ResourceAssumption
<1> QED
  BY <1>1, <1>2, <1>3

\* A verdict per resource, a duration, an exemption: each once.
LEMMA MetricsRecord ==
  ASSUME NEW body, NEW a \in Allocations \cup {NULL}, NEW c \in Capacities \cup {NULL},
         NEW time \in Nat, NEW o, o = Handle(body, a, c, time)
  PROVE  LET list == RecordMetrics(o, a, c, time) IN
         /\ Sound(list)
         /\ Owes(list, Durations)
         /\ Owes(list, Exemptions) <=> o.verdict = "exempt"
         /\ \A res \in Resource :
              /\ Owes(list, VerdictsOn(res)) <=> o.verdict # "exempt"
              /\ \A v \in VerdictLabel :
                   Owes(list, VerdictIs(res, v)) <=> o.verdict # "exempt" /\ Verdict(o, res) = v
              /\ ~Owes(list, DenialLogged(res))
<1> DEFINE list == RecordMetrics(o, a, c, time)
           duration == Write("duration", "all", 1)
<1>1. /\ o \in Outcome /\ o.verdict \in VerdictLabel \cup {"exempt"}
      /\ o.verdict # "exempt" /\ Assessed(o) =>
           a # NULL /\ a.status # NULL /\ a.status.stamp # NULL
      /\ o.verdict \notin {"error", "exempt"} => c # NULL
  BY DecisionShape, OutcomeShape
<1>2. duration \in Writes /\ Key(duration) = <<"duration", "all">>
  <2>1. duration \in [series : {"duration"}, label : {"all"}, value : {1}]
    BY DEF Write
  <2> QED
    BY <2>1 DEF Writes, Key, Write
<1> HIDE DEF duration
<1>3. CASE o.verdict = "exempt"
  <2> DEFINE exemption == Write("exemption", o.reason, 1)
  <2>1. list = <<exemption, duration>>
    BY <1>3 DEF RecordMetrics, duration
  <2>2. exemption \in Writes /\ Key(exemption) = <<"exemption", o.reason>>
    <3>1. exemption \in [series : {"exemption"}, label : ExemptionReason, value : {1}]
      BY <1>1, <1>3, OutcomeShape DEF Write
    <3> QED
      BY <3>1 DEF Writes, Key, Write
  <2>3. o.reason \in ExemptionReason
    BY <1>1, <1>3, OutcomeShape
  <2> HIDE DEF exemption, list
  <2>4. list \in Seq(Writes) /\ DOMAIN list = {1, 2} /\ list[1] = exemption /\ list[2] = duration
    BY <1>2, <2>1, <2>2
  <2>5. \A kind : Owes(list, kind) <=> Key(exemption) \in kind \/ Key(duration) \in kind
    BY <2>4 DEF Owes
  <2>6. ASSUME NEW kind \in Kind PROVE AtMostOnce(list, kind)
    <3>1. ~(Key(exemption) \in kind /\ Key(duration) \in kind)
      <4> SUFFICES ASSUME Key(exemption) \in kind, Key(duration) \in kind PROVE FALSE
        OBVIOUS
      <4>1. Key(exemption)[1] = Key(duration)[1]
        BY KindKeys
      <4> QED
        BY <1>2, <2>2, <4>1
    <3> QED
      BY <2>4, <3>1 DEF AtMostOnce
  <2>7. Key(duration) \in Durations /\ Key(exemption) \in Exemptions
    BY <1>2, <2>2, <2>3 DEF Durations, Exemptions
  <2>8. \A res \in Resource :
          /\ ~Owes(list, VerdictsOn(res)) /\ ~Owes(list, DenialLogged(res))
          /\ \A v \in VerdictLabel : ~Owes(list, VerdictIs(res, v))
    BY <1>2, <2>2, <2>5 DEF VerdictsOn, VerdictIs, DenialLogged
  <2> QED
    BY <1>3, <2>4, <2>5, <2>6, <2>7, <2>8 DEF Sound, list
<1>4. CASE o.verdict # "exempt"
  <2> DEFINE W(res) == Write("verdict", <<res, Verdict(o, res)>>, 1)
             F == IF Assessed(o)
                  THEN <<Write("freshness", "all", FreshnessSeconds(a.status.stamp, time))>>
                  ELSE <<>>
             G == IF o.verdict # "error" THEN RefreshCapacity(FiguresOf(a.status, c.totals))
                  ELSE <<>>
             s == <<W("cpu")>>
             t == <<W("memory")>>
             d == <<duration>>
  <2>1. list = (((s \o t) \o d) \o F) \o G
    BY <1>4 DEF RecordMetrics, ForEachResource, Assessed, duration
  <2>2. F \in Seq(Writes) /\ Shows(F)
    <3>1. CASE Assessed(o)
      <4>1. a.status.stamp \in Int /\ a.status.stamp # NULL
        BY <1>1, <1>4, <3>1, CachesAssumption
      <4>2. FreshnessSeconds(a.status.stamp, time) \in Nat
        BY <4>1, AgeType DEF FreshnessSeconds
      <4> QED
        BY <3>1, <4>2, FreshnessShows
    <3>2. CASE ~Assessed(o)
      BY <3>2, EmptyShows
    <3> QED
      BY <3>1, <3>2
  <2>3. G \in Seq(Writes) /\ Shows(G)
    <3>1. CASE o.verdict # "error"
      <4>1. a \in Allocations \ {NULL} /\ a.status # NULL /\ c \in Capacities \ {NULL}
        BY <1>1, <1>4, <3>1 DEF Assessed
      <4>2. c.totals \in [Resource -> Int]
        BY <4>1, CachesAssumption
      <4>3. FiguresOf(a.status, c.totals) \in [Resource -> Figure]
        BY <4>1, <4>2, FiguresType
      <4> QED
        BY <3>1, <4>3, CapacityShows
    <3>2. CASE o.verdict = "error"
      BY <3>2, EmptyShows
    <3> QED
      BY <3>1, <3>2
  <2>4. ASSUME NEW res \in Resource
        PROVE  /\ W(res) \in Writes /\ Verdict(o, res) \in VerdictLabel
               /\ Key(W(res)) = <<"verdict", <<res, Verdict(o, res)>>>>
    <3>1. Verdict(o, res) \in VerdictLabel
      BY DEF Verdict, VerdictLabel
    <3>2. W(res) \in [series : {"verdict"}, label : Resource \X VerdictLabel, value : {1}]
      BY <3>1 DEF Write
    <3> QED
      BY <3>1, <3>2 DEF Writes, Key, Write
  <2> HIDE DEF W
  <2>5. /\ W("cpu") \in Writes /\ W("memory") \in Writes
        /\ Key(W("cpu")) = <<"verdict", <<"cpu", Verdict(o, "cpu")>>>>
        /\ Key(W("memory")) = <<"verdict", <<"memory", Verdict(o, "memory")>>>>
        /\ Verdict(o, "cpu") \in VerdictLabel /\ Verdict(o, "memory") \in VerdictLabel
    BY <2>4, ResourceAssumption
  <2>6. /\ Sound(s) /\ \A kind : Owes(s, kind) <=> Key(W("cpu")) \in kind
        /\ Sound(t) /\ \A kind : Owes(t, kind) <=> Key(W("memory")) \in kind
        /\ Sound(d) /\ \A kind : Owes(d, kind) <=> Key(duration) \in kind
    BY <1>2, <2>5, SingleSound
  <2>7. ASSUME NEW kind \in Kind
        PROVE  /\ ~(Key(W("cpu")) \in kind /\ Key(W("memory")) \in kind)
               /\ ~(Key(W("cpu")) \in kind /\ Key(duration) \in kind)
               /\ ~(Key(W("memory")) \in kind /\ Key(duration) \in kind)
    <3>1. /\ Key(W("cpu"))[1] = "verdict" /\ Key(W("cpu"))[2][1] = "cpu"
          /\ Key(W("memory"))[1] = "verdict" /\ Key(W("memory"))[2][1] = "memory"
          /\ Key(duration)[1] = "duration"
      BY <1>2, <2>5
    <3> QED
      BY <3>1, KindKeys
  <2> HIDE DEF s, t, d, F, G
  <2>8. /\ Sound(s \o t)
        /\ \A kind \in Kind : Owes(s \o t, kind) <=> Owes(s, kind) \/ Owes(t, kind)
    BY <2>6, <2>7, ConcatSound
  <2>9. /\ Sound((s \o t) \o d)
        /\ \A kind \in Kind :
             Owes((s \o t) \o d, kind) <=> Owes(s \o t, kind) \/ Owes(d, kind)
    BY <2>6, <2>7, <2>8, ConcatSound
  <2>10. /\ Sound(((s \o t) \o d) \o F)
         /\ \A kind \in Kind : Owes(((s \o t) \o d) \o F, kind) <=> Owes((s \o t) \o d, kind)
    BY <2>2, <2>9, ShowsBehind
  <2>11. Sound(list) /\ \A kind \in Kind : Owes(list, kind) <=> Owes((s \o t) \o d, kind)
    <3> HIDE DEF list
    <3> QED
      BY <2>1, <2>3, <2>10, ShowsBehind
  <2>12. \A kind \in Kind :
           Owes(list, kind) <=>
             \/ Key(W("cpu")) \in kind \/ Key(W("memory")) \in kind \/ Key(duration) \in kind
    BY <2>6, <2>8, <2>9, <2>11
  <2> HIDE DEF list
  <2>13. Owes(list, Durations) /\ ~Owes(list, Exemptions)
    BY <1>2, <2>5, <2>12, KindsAre DEF Durations, Exemptions
  <2>14. ASSUME NEW res \in Resource
         PROVE  /\ Owes(list, VerdictsOn(res)) /\ ~Owes(list, DenialLogged(res))
                /\ \A v \in VerdictLabel : Owes(list, VerdictIs(res, v)) <=> Verdict(o, res) = v
    <3>1. res = "cpu" \/ res = "memory"
      BY ResourceAssumption
    <3>2. Owes(list, VerdictsOn(res))
      <4>1. Key(W(res)) \in VerdictsOn(res)
        BY <2>4 DEF VerdictsOn
      <4> QED
        BY <2>12, <3>1, <4>1, KindsAre
    <3>3. ~Owes(list, DenialLogged(res))
      <4>1. \A key \in DenialLogged(res) : key[1] = "log"
        BY DEF DenialLogged
      <4>2. /\ Key(W("cpu"))[1] = "verdict" /\ Key(W("memory"))[1] = "verdict"
            /\ Key(duration)[1] = "duration"
        BY <1>2, <2>5
      <4> QED
        BY <2>12, <4>1, <4>2, KindsAre
    <3>4. ASSUME NEW v \in VerdictLabel
          PROVE  Owes(list, VerdictIs(res, v)) <=> Verdict(o, res) = v
      BY <1>2, <2>5, <2>12, <3>1, KindsAre DEF VerdictIs
    <3> QED
      BY <3>2, <3>3, <3>4
  <2> QED
    BY <1>4, <2>11, <2>13, <2>14 DEF list
<1> QED
  BY <1>3, <1>4

LEMMA DecisionRecords ==
  ASSUME NEW body, NEW a \in Allocations \cup {NULL}, NEW c \in Capacities \cup {NULL},
         NEW time \in Nat, NEW o, o = Handle(body, a, c, time)
  PROVE  Recorded(EmitLog(o) \o RecordMetrics(o, a, c, time), o)
<1> DEFINE log1 == EmitLog(o)
           metrics == RecordMetrics(o, a, c, time)
<1>1. o \in Outcome
  BY DecisionShape
<1>2. /\ Sound(log1)
      /\ \A kind \in Kind :
           Owes(log1, kind) <=>
             \E res \in Resource :
               kind = DenialLogged(res) /\ o.verdict = "deny" /\ res \in o.violations
  BY <1>1, LogRecords
<1>3. /\ Sound(metrics)
      /\ Owes(metrics, Durations)
      /\ Owes(metrics, Exemptions) <=> o.verdict = "exempt"
      /\ \A res \in Resource :
           /\ Owes(metrics, VerdictsOn(res)) <=> o.verdict # "exempt"
           /\ \A v \in VerdictLabel :
                Owes(metrics, VerdictIs(res, v)) <=> o.verdict # "exempt" /\ Verdict(o, res) = v
           /\ ~Owes(metrics, DenialLogged(res))
  BY MetricsRecord
<1> HIDE DEF log1, metrics
<1>4. \A res, other \in Resource : DenialLogged(res) = DenialLogged(other) => res = other
  <2>1. \A res : \A key \in DenialLogged(res) : key[2][2] = res
    BY DEF DenialLogged
  <2>2. \A res : <<"log", <<"deny", res>>>> \in DenialLogged(res)
    BY DEF DenialLogged
  <2> QED
    BY <2>1, <2>2
<1>5. ASSUME NEW res \in Resource
      PROVE  /\ DenialLogged(res) # Durations /\ DenialLogged(res) # Exemptions
             /\ \A other \in Resource : DenialLogged(res) # VerdictsOn(other)
             /\ \A other \in Resource, v \in VerdictLabel :
                  DenialLogged(res) # VerdictIs(other, v)
  <2>1. <<"log", <<"deny", res>>>> \in DenialLogged(res)
    BY DEF DenialLogged
  <2>2. \A key \in Durations : key[1] = "duration"
    BY DEF Durations
  <2>3. \A key \in Exemptions : key[1] = "exemption"
    BY DEF Exemptions
  <2>4. \A other : \A key \in VerdictsOn(other) : key[1] = "verdict"
    BY DEF VerdictsOn
  <2>5. \A other, v : \A key \in VerdictIs(other, v) : key[1] = "verdict"
    BY DEF VerdictIs
  <2> QED
    BY <2>1, <2>2, <2>3, <2>4, <2>5
<1>6. \A res \in Resource :
        Owes(log1, DenialLogged(res)) <=> o.verdict = "deny" /\ res \in o.violations
  BY <1>2, <1>4, KindsAre
<1>7. \A kind \in Kind : ~(Owes(log1, kind) /\ Owes(metrics, kind))
  BY <1>2, <1>3
<1>8. /\ Sound(log1 \o metrics)
      /\ \A kind \in Kind :
           Owes(log1 \o metrics, kind) <=> Owes(log1, kind) \/ Owes(metrics, kind)
  BY <1>2, <1>3, <1>7, ConcatSound
<1>9. /\ ~Owes(log1, Durations) /\ ~Owes(log1, Exemptions)
      /\ \A res \in Resource :
           /\ ~Owes(log1, VerdictsOn(res))
           /\ \A v \in VerdictLabel : ~Owes(log1, VerdictIs(res, v))
  BY <1>2, <1>5, KindsAre
<1>10. Recorded(log1 \o metrics, o)
  BY <1>3, <1>6, <1>8, <1>9, KindsAre DEF Recorded
<1> QED
  BY <1>10 DEF log1, metrics

-----------------------------------------------------------------------------
(***************************************************************************)
(* The invariant: a counter and what is still owed to it make up the       *)
(* reviews it counts.                                                      *)
(***************************************************************************)
Verdicts == VerdictLabel \cup {"exempt"}

InFlight(v) == {w \in Worker : outcome[w] # NULL /\ outcome[w].verdict = v}

Owing(kind) == Cardinality({w \in Worker : Owes(todo[w], kind)})

\* The reviews that a series counts or will count.
DurationsDue == durations + Owing(Durations)
ExemptionsDue == SumFunction(exemptions) + Owing(Exemptions)
VerdictsDue(res) == SumFunction(verdicts[res]) + Owing(VerdictsOn(res))
VerdictDue(res, v) == verdicts[res][v] + Owing(VerdictIs(res, v))
DenialsDue(res) == Logged(<<"deny", res>>) + Owing(DenialLogged(res))
AnswersDue(v) == answers[v] + Cardinality(InFlight(v))

Typed ==
  /\ allocation \in Allocations \cup {NULL} /\ capacity \in Capacities \cup {NULL}
  /\ changes \in 0 .. MaxChanges /\ now \in 0 .. changes
  /\ phase \in {"serving", "draining", "stopped"}
  /\ todo \in [Task -> Seq(Writes)]
  /\ outcome \in [Worker -> Outcome \cup {NULL}]
  /\ verdicts \in [Resource -> [VerdictLabel -> Nat]]
  /\ exemptions \in [ExemptionReason -> Nat]
  /\ durations \in Nat
  /\ \A event \in DOMAIN log : log[event] \in Nat
  /\ freshness \in Nat
  /\ DOMAIN gauges = Resource /\ \A res \in Resource : DOMAIN gauges[res] = Gauge
  /\ answers \in [Verdicts -> Nat]

\* Who owes what: an idle worker nothing, the refresher no counter.
Owed ==
  /\ \A w \in Worker : outcome[w] = NULL => todo[w] = <<>>
  /\ \A w \in Worker : \A kind \in Kind : AtMostOnce(todo[w], kind)
  /\ Shows(todo[Refresher])

Books ==
  /\ Started <= MaxReviews
  /\ DurationsDue = Started
  /\ ExemptionsDue = AnswersDue("exempt")
  /\ \A res \in Resource :
       /\ VerdictsDue(res) + AnswersDue("exempt") = Started
       /\ \A v \in {"error", "dry_run_deny"} : VerdictDue(res, v) = AnswersDue(v)
       /\ VerdictDue(res, "deny") <= AnswersDue("deny")
       /\ VerdictDue(res, "deny") = DenialsDue(res)
  /\ AnswersDue("deny") <= VerdictDue("cpu", "deny") + VerdictDue("memory", "deny")

Inv == Typed /\ Owed /\ Books

-----------------------------------------------------------------------------
(***************************************************************************)
(* How the sums of the invariant move                                      *)
(***************************************************************************)
LEMMA LabelsFinite ==
  IsFiniteSet(VerdictLabel) /\ IsFiniteSet(ExemptionReason) /\ IsFiniteSet(Verdicts)
<1>1. \A S, x : IsFiniteSet(S) => IsFiniteSet(S \cup {x})
  BY FS_AddElement
<1>2. /\ VerdictLabel = ((({} \cup {"allow"}) \cup {"deny"}) \cup {"dry_run_deny"}) \cup {"error"}
      /\ ExemptionReason
           = (({} \cup {"namespace"}) \cup {"priority_class"}) \cup {"webhook_namespace"}
      /\ Verdicts = VerdictLabel \cup {"exempt"}
  BY DEF VerdictLabel, ExemptionReason, Verdicts
<1>3. IsFiniteSet({})
  BY FS_EmptySet
<1> QED
  BY <1>1, <1>2, <1>3, Zenon

LEMMA SumFunctionGrows ==
  ASSUME NEW S, IsFiniteSet(S), NEW f \in [S -> Nat], NEW a \in S
  PROVE  /\ SumFunction(f) \in Nat /\ f[a] <= SumFunction(f)
         /\ SumFunction([f EXCEPT ![a] = @ + 1]) = SumFunction(f) + 1
<1> DEFINE g == [f EXCEPT ![a] = @ + 1]
<1>1. /\ DOMAIN f = S /\ DOMAIN g = S
      /\ \A x \in S : f[x] \in Nat
      /\ g[a] = f[a] + 1 /\ \A x \in S \ {a} : g[x] = f[x]
  OBVIOUS
<1> HIDE DEF g
<1>2. SumFunction(f) = SumFunctionOnSet(f, S) /\ SumFunction(g) = SumFunctionOnSet(g, S)
  BY <1>1 DEF SumFunction
<1>3. SumFunctionOnSet(f, S) \in Nat
  BY <1>1, SumOfNaturals
<1>4. SumFunctionOnSet(g, S) = SumFunctionOnSet(f, S) - f[a] + g[a]
  BY <1>1, SumChange
<1>5. IsFiniteSet(S \ {a})
  BY FS_Subset
<1>6. SumFunctionOnSet(f, S \ {a}) \in Nat
  BY <1>1, <1>5, SumOfNaturals
<1>7. SumFunctionOnSet(f, S) = f[a] + SumFunctionOnSet(f, S \ {a})
  BY <1>1, SumRemove
<1>8. SumFunction(g) = SumFunction(f) + 1
  BY <1>1, <1>2, <1>3, <1>4
<1> QED
  BY <1>1, <1>2, <1>3, <1>6, <1>7, <1>8 DEF g

LEMMA OneIs == ASSUME NEW p PROVE (p => One(p) = 1) /\ (~p => One(p) = 0)
  BY DEF One

\* Only worker w's list changes.
LEMMA OwingChange ==
  ASSUME NEW w \in Worker, \A x \in Worker \ {w} : todo'[x] = todo[x], NEW kind
  PROVE  /\ Owing(kind) \in Nat /\ Owing(kind)' \in Nat
         /\ Owing(kind)'
              = Owing(kind) - One(Owes(todo[w], kind)) + One(Owes(todo'[w], kind))
<1> DEFINE A == {x \in Worker : Owes(todo[x], kind)}
           B == {x \in Worker : Owes(todo'[x], kind)}
<1>1. /\ A \in SUBSET Worker /\ B \in SUBSET Worker /\ A \ {w} = B \ {w}
      /\ w \in A <=> Owes(todo[w], kind)
      /\ w \in B <=> Owes(todo'[w], kind)
  OBVIOUS
<1>2. Owing(kind) = Cardinality(A) /\ Owing(kind)' = Cardinality(B)
  BY DEF Owing
<1> HIDE DEF A, B
<1>3. /\ Cardinality(B) = Cardinality(A) - One(w \in A) + One(w \in B)
      /\ Cardinality(A) \in Nat /\ Cardinality(B) \in Nat
  BY <1>1, CountChange, TasksAssumption
<1>4. One(w \in A) = One(Owes(todo[w], kind)) /\ One(w \in B) = One(Owes(todo'[w], kind))
  BY <1>1, OneIs
<1> QED
  BY <1>2, <1>3, <1>4

\* Only worker w's outcome changes.
LEMMA FlightChange ==
  ASSUME NEW w \in Worker, \A x \in Worker \ {w} : outcome'[x] = outcome[x]
  PROVE  LET Busy == {x \in Worker : outcome[x] # NULL}
             BusyNext == {x \in Worker : outcome'[x] # NULL} IN
         /\ Cardinality(Busy) \in Nat /\ Cardinality(BusyNext) \in Nat
         /\ Cardinality(BusyNext)
              = Cardinality(Busy) - One(outcome[w] # NULL) + One(outcome'[w] # NULL)
         /\ \A v :
              /\ Cardinality(InFlight(v)) \in Nat /\ Cardinality(InFlight(v)') \in Nat
              /\ Cardinality(InFlight(v)')
                   = Cardinality(InFlight(v))
                       - One(outcome[w] # NULL /\ outcome[w].verdict = v)
                       + One(outcome'[w] # NULL /\ outcome'[w].verdict = v)
<1> DEFINE Busy == {x \in Worker : outcome[x] # NULL}
           BusyNext == {x \in Worker : outcome'[x] # NULL}
<1>1. /\ Busy \in SUBSET Worker /\ BusyNext \in SUBSET Worker /\ Busy \ {w} = BusyNext \ {w}
      /\ w \in Busy <=> outcome[w] # NULL
      /\ w \in BusyNext <=> outcome'[w] # NULL
  OBVIOUS
<1>2. ASSUME NEW v
      PROVE  /\ InFlight(v) \in SUBSET Worker /\ InFlight(v)' \in SUBSET Worker
             /\ InFlight(v) \ {w} = InFlight(v)' \ {w}
             /\ w \in InFlight(v) <=> outcome[w] # NULL /\ outcome[w].verdict = v
             /\ w \in InFlight(v)' <=> outcome'[w] # NULL /\ outcome'[w].verdict = v
  BY DEF InFlight
<1> HIDE DEF Busy, BusyNext
<1>3. /\ Cardinality(Busy) \in Nat /\ Cardinality(BusyNext) \in Nat
      /\ Cardinality(BusyNext) = Cardinality(Busy) - One(w \in Busy) + One(w \in BusyNext)
  BY <1>1, CountChange, TasksAssumption
<1>4. One(w \in Busy) = One(outcome[w] # NULL) /\ One(w \in BusyNext) = One(outcome'[w] # NULL)
  BY <1>1, OneIs
<1>5. ASSUME NEW v
      PROVE  /\ Cardinality(InFlight(v)) \in Nat /\ Cardinality(InFlight(v)') \in Nat
             /\ Cardinality(InFlight(v)')
                  = Cardinality(InFlight(v))
                      - One(outcome[w] # NULL /\ outcome[w].verdict = v)
                      + One(outcome'[w] # NULL /\ outcome'[w].verdict = v)
  <2> DEFINE A == InFlight(v)
             B == InFlight(v)'
  <2>1. /\ A \in SUBSET Worker /\ B \in SUBSET Worker /\ A \ {w} = B \ {w}
        /\ w \in A <=> outcome[w] # NULL /\ outcome[w].verdict = v
        /\ w \in B <=> outcome'[w] # NULL /\ outcome'[w].verdict = v
    BY <1>2
  <2> HIDE DEF A, B
  <2>2. /\ Cardinality(B) = Cardinality(A) - One(w \in A) + One(w \in B)
        /\ Cardinality(A) \in Nat /\ Cardinality(B) \in Nat
    BY <2>1, CountChange, TasksAssumption
  <2>3. /\ One(w \in A) = One(outcome[w] # NULL /\ outcome[w].verdict = v)
        /\ One(w \in B) = One(outcome'[w] # NULL /\ outcome'[w].verdict = v)
    BY <2>1, OneIs
  <2> QED
    BY <2>2, <2>3 DEF A, B
<1> QED
  BY <1>3, <1>4, <1>5 DEF Busy, BusyNext

\* Which kinds a write belongs to.
LEMMA KeyKinds ==
  ASSUME NEW write \in Writes
  PROVE  /\ Key(write) \in Durations <=> write.series = "duration"
         /\ Key(write) \in Exemptions <=> write.series = "exemption"
         /\ \A res \in Resource :
              /\ Key(write) \in VerdictsOn(res) <=>
                   write.series = "verdict" /\ write.label[1] = res
              /\ \A v \in VerdictLabel :
                   Key(write) \in VerdictIs(res, v) <=>
                     write.series = "verdict" /\ write.label = <<res, v>>
              /\ Key(write) \in DenialLogged(res) <=>
                   write.series = "log" /\ write.label = <<"deny", res>>
<1>1. /\ write.series = "duration" => write.label = "all"
      /\ write.series = "exemption" => write.label \in ExemptionReason
      /\ write.series = "verdict" => write.label \in Resource \X VerdictLabel
  BY DEF Writes
<1>2. Key(write) = <<write.series, write.label>>
  BY DEF Key
<1>3. /\ Key(write) \in Durations <=> write.series = "duration"
      /\ Key(write) \in Exemptions <=> write.series = "exemption"
  BY <1>1, <1>2 DEF Durations, Exemptions
<1>4. ASSUME NEW res \in Resource
      PROVE  Key(write) \in VerdictsOn(res) <=> write.series = "verdict" /\ write.label[1] = res
  BY <1>1, <1>2 DEF VerdictsOn
<1>5. \A res \in Resource :
        /\ \A v \in VerdictLabel :
             Key(write) \in VerdictIs(res, v) <=>
               write.series = "verdict" /\ write.label = <<res, v>>
        /\ Key(write) \in DenialLogged(res) <=>
             write.series = "log" /\ write.label = <<"deny", res>>
  BY <1>2 DEF VerdictIs, DenialLogged
<1> QED
  BY <1>3, <1>4, <1>5

-----------------------------------------------------------------------------
(***************************************************************************)
(* Steps that count nothing new                                            *)
(***************************************************************************)
\* No counter moves against what is owed to it.
SameBooks ==
  /\ Started' = Started
  /\ DurationsDue' = DurationsDue /\ ExemptionsDue' = ExemptionsDue
  /\ \A v \in Verdicts : AnswersDue(v)' = AnswersDue(v)
  /\ \A res \in Resource :
       /\ VerdictsDue(res)' = VerdictsDue(res) /\ DenialsDue(res)' = DenialsDue(res)
       /\ \A v \in VerdictLabel : VerdictDue(res, v)' = VerdictDue(res, v)

LEMMA SameBooksKeep == ASSUME Books, SameBooks PROVE Books'
<1>1. {"error", "dry_run_deny", "deny"} \in SUBSET VerdictLabel
  BY DEF VerdictLabel
<1>2. {"error", "dry_run_deny", "deny", "exempt"} \in SUBSET Verdicts
  BY DEF Verdicts, VerdictLabel
<1>3. "cpu" \in Resource /\ "memory" \in Resource
  BY ResourceAssumption
<1>4. /\ Started' <= MaxReviews
      /\ DurationsDue' = Started'
      /\ ExemptionsDue' = AnswersDue("exempt")'
  BY <1>2 DEF Books, SameBooks
<1>5. ASSUME NEW res \in Resource
      PROVE  /\ VerdictsDue(res)' + AnswersDue("exempt")' = Started'
             /\ \A v \in {"error", "dry_run_deny"} : VerdictDue(res, v)' = AnswersDue(v)'
             /\ VerdictDue(res, "deny")' <= AnswersDue("deny")'
             /\ VerdictDue(res, "deny")' = DenialsDue(res)'
  BY <1>1, <1>2 DEF Books, SameBooks
<1>6. AnswersDue("deny")' <= VerdictDue("cpu", "deny")' + VerdictDue("memory", "deny")'
  BY <1>1, <1>2, <1>3 DEF Books, SameBooks
<1> QED
  BY <1>4, <1>5, <1>6 DEF Books

\* A step that touches neither the workers nor the counters.
LEMMA ApartSame ==
  ASSUME UNCHANGED <<outcome, counters, answers>>, \A w \in Worker : todo'[w] = todo[w]
  PROVE  SameBooks
<1>1. UNCHANGED <<verdicts, exemptions, durations, log>>
  BY DEF counters
<1>2. \A kind : Owing(kind)' = Owing(kind)
  BY DEF Owing
<1>3. \A v : Cardinality(InFlight(v))' = Cardinality(InFlight(v))
  BY DEF InFlight
<1>4. Started' = Started
  BY DEF Started
<1>5. \A event : Logged(event)' = Logged(event)
  BY <1>1 DEF Logged
<1> QED
  BY <1>1, <1>2, <1>3, <1>4, <1>5
  DEF SameBooks, DurationsDue, ExemptionsDue, AnswersDue, VerdictsDue, VerdictDue, DenialsDue

\* Where a list is made anew, or shortened, the others stay.
LEMMA Elsewhere ==
  ASSUME Typed, NEW t \in Task, NEW list, todo' = [todo EXCEPT ![t] = list]
  PROVE  todo'[t] = list /\ \A x \in Task \ {t} : todo'[x] = todo[x]
  BY DEF Typed

LEMMA RefreshListed ==
  ASSUME Typed
  PROVE  /\ RefreshGauges(allocation, capacity, now) \in Seq(Writes)
         /\ Shows(RefreshGauges(allocation, capacity, now))
<1> DEFINE age == Larger(0, FreshnessSeconds(allocation.status.stamp, now))
           fresh == <<Write("freshness", "all", age)>>
           figures == FiguresOf(allocation.status, CachedTotals(capacity))
<1>1. CASE allocation = NULL \/ allocation.status = NULL
  BY <1>1, EmptyShows DEF RefreshGauges
<1>2. CASE ~(allocation = NULL \/ allocation.status = NULL)
  <2>1. allocation \in Allocations \ {NULL} /\ allocation.status # NULL /\ now \in Nat
    BY <1>2, BoundsAssumption DEF Typed
  <2>2. allocation.status.stamp \in Int \cup {NULL}
    BY <2>1, CachesAssumption
  <2>3. age \in Nat
    <3> DEFINE seconds == FreshnessSeconds(allocation.status.stamp, now)
    <3>1. CASE allocation.status.stamp = NULL
      <4>1. seconds = -1
        BY <3>1 DEF FreshnessSeconds
      <4> QED
        BY <4>1 DEF Larger
    <3>2. CASE allocation.status.stamp # NULL
      <4>1. seconds \in Nat
        BY <2>1, <2>2, <3>2, AgeType DEF FreshnessSeconds
      <4> HIDE DEF seconds
      <4>2. Larger(0, seconds) \in Nat
        BY <4>1 DEF Larger
      <4> QED
        BY <4>2 DEF seconds
    <3> QED
      BY <3>1, <3>2
  <2>4. CachedTotals(capacity) \in [Resource -> Int]
    BY CachesAssumption DEF CachedTotals, Zero, Typed
  <2>5. figures \in [Resource -> Figure]
    BY <2>1, <2>4, FiguresType
  <2>6. RefreshGauges(allocation, capacity, now) = fresh \o RefreshCapacity(figures)
    BY <1>2 DEF RefreshGauges
  <2> HIDE DEF age, figures
  <2>7. /\ fresh \in Seq(Writes) /\ Shows(fresh)
        /\ RefreshCapacity(figures) \in Seq(Writes) /\ Shows(RefreshCapacity(figures))
    BY <2>3, <2>5, FreshnessShows, CapacityShows
  <2> QED
    BY <2>6, <2>7, ConcatShows
<1> QED
  BY <1>1, <1>2

\* A write of a worker takes its kinds off the list.
LEMMA WorkerWrites ==
  ASSUME Typed, Owed, NEW t \in Worker, NEW series, Doing(t, series)
  PROVE  LET write == Head(todo[t]) IN
         /\ write \in Writes /\ write.series = series
         /\ todo' \in [Task -> Seq(Writes)] /\ Owed'
         /\ Started' = Started /\ \A v : AnswersDue(v)' = AnswersDue(v)
         /\ \A kind \in Kind :
              /\ Owing(kind) \in Nat
              /\ Owing(kind)' = Owing(kind) - One(Key(write) \in kind)
<1> DEFINE write == Head(todo[t])
<1>1. /\ todo[t] \in Seq(Writes) /\ todo[t] # <<>> /\ write.series = series
      /\ todo' = [todo EXCEPT ![t] = Tail(todo[t])]
      /\ outcome' = outcome /\ answers' = answers
  BY DEF Doing, Typed, Task
<1>2. write \in Writes
  BY <1>1
<1>3. t \in Task /\ Refresher \in Task /\ Refresher # t /\ Worker \in SUBSET Task
  BY TasksAssumption DEF Task
<1>4. todo'[t] = Tail(todo[t]) /\ \A x \in Task \ {t} : todo'[x] = todo[x]
  BY <1>1, <1>3, Elsewhere
<1>5. \A kind \in Kind : AtMostOnce(todo[t], kind)
  BY DEF Owed
<1> HIDE DEF write
<1>6. ASSUME NEW kind \in Kind
      PROVE  /\ Tail(todo[t]) \in Seq(Writes) /\ AtMostOnce(Tail(todo[t]), kind)
             /\ Owes(todo[t], kind) <=> Owes(Tail(todo[t]), kind) \/ Key(write) \in kind
             /\ ~(Owes(Tail(todo[t]), kind) /\ Key(write) \in kind)
  BY <1>1, <1>5, TailOwes DEF write
<1>7. Tail(todo[t]) \in Seq(Writes)
  BY <1>1
<1>8. todo' \in [Task -> Seq(Writes)]
  BY <1>1, <1>7 DEF Typed
<1>9. Owed'
  <2>1. \A w \in Worker : outcome'[w] = NULL => todo'[w] = <<>>
    <3>1. outcome[t] # NULL
      BY <1>1 DEF Owed
    <3> QED
      BY <1>1, <1>3, <1>4, <3>1 DEF Owed
  <2>2. \A w \in Worker : \A kind \in Kind : AtMostOnce(todo'[w], kind)
    BY <1>3, <1>4, <1>6 DEF Owed
  <2>3. Shows(todo'[Refresher])
    BY <1>3, <1>4 DEF Owed
  <2> QED
    BY <2>1, <2>2, <2>3 DEF Owed
<1>10. Started' = Started /\ \A v : AnswersDue(v)' = AnswersDue(v)
  BY <1>1 DEF Started, AnswersDue, InFlight
<1>11. ASSUME NEW kind \in Kind
       PROVE  Owing(kind) \in Nat /\ Owing(kind)' = Owing(kind) - One(Key(write) \in kind)
  <2>1. /\ Owing(kind) \in Nat
        /\ Owing(kind)' = Owing(kind) - One(Owes(todo[t], kind)) + One(Owes(todo'[t], kind))
    BY <1>3, <1>4, OwingChange
  <2>2. One(Owes(todo[t], kind)) = One(Owes(todo'[t], kind)) + One(Key(write) \in kind)
    <3>1. CASE Key(write) \in kind
      <4>1. Owes(todo[t], kind) /\ ~Owes(todo'[t], kind)
        BY <1>4, <1>6, <3>1
      <4> QED
        BY <3>1, <4>1 DEF One
    <3>2. CASE Key(write) \notin kind
      <4>1. Owes(todo[t], kind) <=> Owes(todo'[t], kind)
        BY <1>4, <1>6, <3>2
      <4> QED
        BY <3>2, <4>1 DEF One
    <3> QED
      BY <3>1, <3>2
  <2>3. One(Owes(todo'[t], kind)) \in Nat /\ One(Key(write) \in kind) \in Nat
    BY DEF One
  <2> QED
    BY <2>1, <2>2, <2>3
<1> QED
  BY <1>1, <1>2, <1>8, <1>9, <1>10, <1>11 DEF write

\* What a write takes off each sum.
LEMMA OwingMoves ==
  ASSUME Typed, Owed, NEW t \in Worker, NEW series, Doing(t, series)
  PROVE  LET write == Head(todo[t]) IN
         /\ Owing(Durations) \in Nat
         /\ Owing(Durations)' = Owing(Durations) - One(series = "duration")
         /\ Owing(Exemptions) \in Nat
         /\ Owing(Exemptions)' = Owing(Exemptions) - One(series = "exemption")
         /\ \A res \in Resource :
              /\ Owing(VerdictsOn(res)) \in Nat
              /\ Owing(VerdictsOn(res))'
                   = Owing(VerdictsOn(res)) - One(series = "verdict" /\ write.label[1] = res)
              /\ \A v \in VerdictLabel :
                   /\ Owing(VerdictIs(res, v)) \in Nat
                   /\ Owing(VerdictIs(res, v))'
                        = Owing(VerdictIs(res, v))
                            - One(series = "verdict" /\ write.label = <<res, v>>)
              /\ Owing(DenialLogged(res)) \in Nat
              /\ Owing(DenialLogged(res))'
                   = Owing(DenialLogged(res))
                       - One(series = "log" /\ write.label = <<"deny", res>>)
<1> DEFINE write == Head(todo[t])
<1>1. /\ write \in Writes /\ write.series = series
      /\ \A kind \in Kind :
           Owing(kind) \in Nat /\ Owing(kind)' = Owing(kind) - One(Key(write) \in kind)
  BY WorkerWrites
<1> HIDE DEF write
<1>3. /\ One(Key(write) \in Durations) = One(series = "duration")
      /\ One(Key(write) \in Exemptions) = One(series = "exemption")
  BY <1>1, KeyKinds DEF One
<1>4. ASSUME NEW res \in Resource
      PROVE  /\ One(Key(write) \in VerdictsOn(res))
                  = One(series = "verdict" /\ write.label[1] = res)
             /\ \A v \in VerdictLabel :
                  One(Key(write) \in VerdictIs(res, v))
                    = One(series = "verdict" /\ write.label = <<res, v>>)
             /\ One(Key(write) \in DenialLogged(res))
                  = One(series = "log" /\ write.label = <<"deny", res>>)
  BY <1>1, KeyKinds DEF One
<1>5. /\ Owing(Durations) \in Nat
      /\ Owing(Durations)' = Owing(Durations) - One(series = "duration")
      /\ Owing(Exemptions) \in Nat
      /\ Owing(Exemptions)' = Owing(Exemptions) - One(series = "exemption")
  BY <1>1, <1>3, KindsAre
<1>6. ASSUME NEW res \in Resource
      PROVE  /\ Owing(VerdictsOn(res)) \in Nat
             /\ Owing(VerdictsOn(res))'
                  = Owing(VerdictsOn(res)) - One(series = "verdict" /\ write.label[1] = res)
             /\ \A v \in VerdictLabel :
                  /\ Owing(VerdictIs(res, v)) \in Nat
                  /\ Owing(VerdictIs(res, v))'
                       = Owing(VerdictIs(res, v))
                           - One(series = "verdict" /\ write.label = <<res, v>>)
             /\ Owing(DenialLogged(res)) \in Nat
             /\ Owing(DenialLogged(res))'
                  = Owing(DenialLogged(res))
                      - One(series = "log" /\ write.label = <<"deny", res>>)
  BY <1>1, <1>4, KindsAre
<1> QED
  BY <1>5, <1>6 DEF write

\* Only the counters are left to type.
LEMMA WritesTyped ==
  ASSUME Typed, NEW t, NEW series, Doing(t, series),
         todo' \in [Task -> Seq(Writes)],
         (verdicts \in [Resource -> [VerdictLabel -> Nat]])',
         (exemptions \in [ExemptionReason -> Nat])',
         (durations \in Nat)',
         (\A event \in DOMAIN log : log[event] \in Nat)',
         (freshness \in Nat)',
         (DOMAIN gauges = Resource /\ \A res \in Resource : DOMAIN gauges[res] = Gauge)'
  PROVE  Typed'
  BY DEF Typed, Doing, caches

\* The gauges are no counters.
LEMMA GaugeKeeps ==
  ASSUME Typed, NEW t, SetFreshness(t) \/ SetGauge(t), todo' \in [Task -> Seq(Writes)],
         Head(todo[t]) \in Writes
  PROVE  Typed' /\ UNCHANGED <<outcome, counters, answers>>
<1> DEFINE write == Head(todo[t])
<1>1. CASE SetFreshness(t)
  <2>1. write.series = "freshness"
    BY <1>1 DEF SetFreshness, Doing
  <2>2. write.value \in Nat
    BY <2>1 DEF Writes
  <2>3. Doing(t, "freshness") /\ freshness' = write.value /\ UNCHANGED <<counters, gauges>>
    BY <1>1 DEF SetFreshness
  <2> QED
    BY <2>2, <2>3, WritesTyped DEF Typed, counters, Doing
<1>2. CASE SetGauge(t)
  <2>1. Doing(t, "gauge") /\ UNCHANGED <<counters, freshness>>
    BY <1>2 DEF SetGauge
  <2>2. write.series = "gauge"
    BY <2>1 DEF Doing
  <2>3. write.label \in Resource \X Gauge
    BY <2>2 DEF Writes
  <2>4. gauges' = [gauges EXCEPT ![write.label[1]][write.label[2]] = write.value]
    BY <1>2 DEF SetGauge
  <2> HIDE DEF write
  <2>5. DOMAIN gauges' = Resource /\ \A res \in Resource : DOMAIN gauges'[res] = Gauge
    BY <2>3, <2>4 DEF Typed
  <2> QED
    BY <2>1, <2>5, WritesTyped DEF Typed, counters, Doing
<1> QED
  BY <1>1, <1>2

LEMMA RefresherKeeps ==
  ASSUME Typed, Owed, RecordNext(Refresher)
  PROVE  Typed' /\ Owed' /\ SameBooks
<1> DEFINE list == todo[Refresher]
<1>1. /\ Refresher \in Task /\ Refresher \notin Worker /\ Worker \in SUBSET Task
      /\ list \in Seq(Writes) /\ Shows(list)
  BY TasksAssumption DEF Task, Typed, Owed
<1>2. PICK series : Doing(Refresher, series)
  BY DEF RecordNext, Log, RecordVerdict, RecordExemption, ObserveDuration, SetFreshness,
    SetGauge
<1>3. /\ list # <<>> /\ Head(list).series = series
      /\ todo' = [todo EXCEPT ![Refresher] = Tail(list)] /\ UNCHANGED outcome
  BY <1>2 DEF Doing
<1>4. /\ Head(list) \in Writes /\ Head(list).series \in {"freshness", "gauge"}
      /\ Tail(list) \in Seq(Writes)
      /\ Shows(Tail(list))
  <2> HIDE DEF list
  <2>1. /\ DOMAIN list = 1 .. Len(list) /\ DOMAIN Tail(list) = 1 .. Len(list) - 1
        /\ 1 \in DOMAIN list /\ Head(list) = list[1]
        /\ \A i \in 1 .. Len(list) - 1 : Tail(list)[i] = list[i + 1] /\ i + 1 \in DOMAIN list
    BY <1>1, <1>3
  <2>2. Head(list) \in Writes /\ Tail(list) \in Seq(Writes)
    BY <1>1, <1>3
  <2> QED
    BY <1>1, <2>1, <2>2 DEF Shows
<1> HIDE DEF list
<1>5. todo'[Refresher] = Tail(list) /\ \A x \in Task \ {Refresher} : todo'[x] = todo[x]
  BY <1>1, <1>3, Elsewhere
<1>6. todo' \in [Task -> Seq(Writes)] /\ \A w \in Worker : todo'[w] = todo[w]
  BY <1>1, <1>3, <1>4, <1>5 DEF Typed
<1>7. Owed'
  BY <1>3, <1>4, <1>5, <1>6 DEF Owed
<1>8. SetFreshness(Refresher) \/ SetGauge(Refresher)
  BY <1>4 DEF RecordNext, Log, RecordVerdict, RecordExemption, ObserveDuration, Doing, list
<1> QED
  BY <1>4, <1>6, <1>7, <1>8, GaugeKeeps, ApartSame DEF list

LEMMA LogKeeps ==
  ASSUME Typed, Owed, NEW t \in Worker, Log(t)
  PROVE  Typed' /\ SameBooks
<1> DEFINE event == Head(todo[t]).label
<1>1. /\ Doing(t, "log")
      /\ log' = [e \in DOMAIN log \cup {event} |->
                   (IF e \in DOMAIN log THEN log[e] ELSE 0) + (IF e = event THEN 1 ELSE 0)]
      /\ UNCHANGED <<verdicts, exemptions, durations, freshness, gauges>>
  BY DEF Log
<1>2. /\ todo' \in [Task -> Seq(Writes)]
      /\ Started' = Started /\ \A v : AnswersDue(v)' = AnswersDue(v)
  BY <1>1, WorkerWrites
<1>3. /\ Owing(Durations)' = Owing(Durations)
      /\ Owing(Exemptions)' = Owing(Exemptions)
      /\ \A res \in Resource :
           /\ Owing(VerdictsOn(res))' = Owing(VerdictsOn(res))
           /\ \A v \in VerdictLabel : Owing(VerdictIs(res, v))' = Owing(VerdictIs(res, v))
           /\ Owing(DenialLogged(res)) \in Nat
           /\ Owing(DenialLogged(res))'
                = Owing(DenialLogged(res)) - One(event = <<"deny", res>>)
  BY <1>1, OwingMoves DEF One
<1> HIDE DEF event
<1>4. ASSUME NEW e
      PROVE  Logged(e) \in Nat /\ Logged(e)' = Logged(e) + One(event = e)
  <2>1. Logged(e) \in Nat
    BY DEF Logged, Typed
  <2>2. CASE event = e
    BY <1>1, <2>1, <2>2 DEF Logged, One
  <2>3. CASE event # e
    <3>1. e \in DOMAIN log' <=> e \in DOMAIN log
      BY <1>1, <2>3
    <3>2. e \in DOMAIN log => log'[e] = log[e] + 0 /\ log[e] \in Nat
      BY <1>1, <2>3 DEF Typed
    <3>3. Logged(e)' = Logged(e)
      BY <3>1, <3>2 DEF Logged
    <3> QED
      BY <2>1, <2>3, <3>3 DEF One
  <2> QED
    BY <2>1, <2>2, <2>3
<1>5. \A e \in DOMAIN log' : log'[e] \in Nat
  BY <1>1 DEF Typed
<1>6. Typed'
  BY <1>1, <1>2, <1>5, WritesTyped DEF Typed
<1>7. /\ DurationsDue' = DurationsDue /\ ExemptionsDue' = ExemptionsDue
      /\ \A res \in Resource :
           /\ VerdictsDue(res)' = VerdictsDue(res)
           /\ \A v \in VerdictLabel : VerdictDue(res, v)' = VerdictDue(res, v)
  BY <1>1, <1>3 DEF DurationsDue, ExemptionsDue, VerdictsDue, VerdictDue
<1>8. ASSUME NEW res \in Resource PROVE DenialsDue(res)' = DenialsDue(res)
  <2>1. /\ Logged(<<"deny", res>>) \in Nat
        /\ Logged(<<"deny", res>>)' = Logged(<<"deny", res>>) + One(event = <<"deny", res>>)
    BY <1>4
  <2>2. One(event = <<"deny", res>>) \in Nat
    BY DEF One
  <2> QED
    BY <1>3, <2>1, <2>2 DEF DenialsDue
<1> QED
  BY <1>2, <1>6, <1>7, <1>8 DEF SameBooks

LEMMA VerdictKeeps ==
  ASSUME Typed, Owed, NEW t \in Worker, RecordVerdict(t)
  PROVE  Typed' /\ SameBooks
<1> DEFINE label == Head(todo[t]).label
           res == label[1]
           verdict == label[2]
<1>1. /\ Doing(t, "verdict")
      /\ verdicts' = [verdicts EXCEPT ![res][verdict] = @ + 1]
      /\ UNCHANGED <<exemptions, durations, log, freshness, gauges>>
  BY DEF RecordVerdict
<1>2. /\ todo' \in [Task -> Seq(Writes)] /\ label \in Resource \X VerdictLabel
      /\ Started' = Started /\ \A v : AnswersDue(v)' = AnswersDue(v)
  <2>1. Head(todo[t]) \in Writes /\ Head(todo[t]).series = "verdict"
    BY <1>1, WorkerWrites
  <2>2. label \in Resource \X VerdictLabel
    BY <2>1 DEF Writes
  <2> QED
    BY <1>1, <2>2, WorkerWrites
<1>3. /\ Owing(Durations)' = Owing(Durations)
      /\ Owing(Exemptions)' = Owing(Exemptions)
      /\ \A r \in Resource :
           /\ Owing(VerdictsOn(r)) \in Nat
           /\ Owing(VerdictsOn(r))' = Owing(VerdictsOn(r)) - One(res = r)
           /\ \A v \in VerdictLabel :
                /\ Owing(VerdictIs(r, v)) \in Nat
                /\ Owing(VerdictIs(r, v))' = Owing(VerdictIs(r, v)) - One(label = <<r, v>>)
           /\ Owing(DenialLogged(r))' = Owing(DenialLogged(r))
  BY <1>1, OwingMoves DEF One
<1> HIDE DEF label
<1>4. res \in Resource /\ verdict \in VerdictLabel /\ label = <<res, verdict>>
  BY <1>2
<1> HIDE DEF res, verdict
<1>5. /\ verdicts' \in [Resource -> [VerdictLabel -> Nat]]
      /\ verdicts'[res] = [verdicts[res] EXCEPT ![verdict] = @ + 1]
      /\ \A r \in Resource \ {res} : verdicts'[r] = verdicts[r]
  BY <1>1, <1>4 DEF Typed
<1>6. Typed'
  BY <1>1, <1>2, <1>5, WritesTyped DEF Typed
<1>7. ASSUME NEW r \in Resource
      PROVE  VerdictsDue(r)' = VerdictsDue(r)
  <2>1. CASE r = res
    <3>1. /\ SumFunction(verdicts[r]) \in Nat
          /\ SumFunction(verdicts'[r]) = SumFunction(verdicts[r]) + 1
      <4>1. verdicts[r] \in [VerdictLabel -> Nat]
        BY DEF Typed
      <4>2. verdicts'[r] = [verdicts[r] EXCEPT ![verdict] = @ + 1]
        BY <1>5, <2>1
      <4> QED
        BY <1>4, <4>1, <4>2, SumFunctionGrows, LabelsFinite
    <3>2. Owing(VerdictsOn(r)) \in Nat /\ Owing(VerdictsOn(r))' = Owing(VerdictsOn(r)) - 1
      BY <1>3, <2>1 DEF One
    <3> QED
      BY <3>1, <3>2 DEF VerdictsDue
  <2>2. CASE r # res
    <3>1. Owing(VerdictsOn(r))' = Owing(VerdictsOn(r))
      BY <1>3, <2>2 DEF One
    <3> QED
      BY <1>5, <2>2, <3>1 DEF VerdictsDue
  <2> QED
    BY <2>1, <2>2
<1>8. ASSUME NEW r \in Resource, NEW v \in VerdictLabel
      PROVE  VerdictDue(r, v)' = VerdictDue(r, v)
  <2>1. /\ verdicts[r][v] \in Nat
        /\ verdicts'[r][v] = verdicts[r][v] + One(label = <<r, v>>)
    <3>1. verdicts[r] \in [VerdictLabel -> Nat]
      BY DEF Typed
    <3>2. CASE r = res /\ v = verdict
      BY <1>4, <1>5, <3>1, <3>2 DEF One
    <3>3. CASE ~(r = res /\ v = verdict)
      <4>1. verdicts'[r][v] = verdicts[r][v]
        BY <1>4, <1>5, <3>1, <3>3
      <4>2. label # <<r, v>>
        BY <1>4, <3>3
      <4> QED
        BY <3>1, <4>1, <4>2 DEF One
    <3> QED
      BY <3>2, <3>3
  <2>2. /\ Owing(VerdictIs(r, v)) \in Nat
        /\ Owing(VerdictIs(r, v))' = Owing(VerdictIs(r, v)) - One(label = <<r, v>>)
    BY <1>3
  <2>3. One(label = <<r, v>>) \in Nat
    BY DEF One
  <2> QED
    BY <2>1, <2>2, <2>3 DEF VerdictDue
<1>9. /\ DurationsDue' = DurationsDue /\ ExemptionsDue' = ExemptionsDue
      /\ \A r \in Resource : DenialsDue(r)' = DenialsDue(r)
  BY <1>1, <1>3 DEF DurationsDue, ExemptionsDue, DenialsDue, Logged
<1> QED
  BY <1>2, <1>6, <1>7, <1>8, <1>9 DEF SameBooks

LEMMA ExemptionKeeps ==
  ASSUME Typed, Owed, NEW t \in Worker, RecordExemption(t)
  PROVE  Typed' /\ SameBooks
<1> DEFINE label == Head(todo[t]).label
<1>1. /\ Doing(t, "exemption")
      /\ exemptions' = [exemptions EXCEPT ![label] = @ + 1]
      /\ UNCHANGED <<verdicts, durations, log, freshness, gauges>>
  BY DEF RecordExemption
<1>2. /\ todo' \in [Task -> Seq(Writes)] /\ label \in ExemptionReason
      /\ Started' = Started /\ \A v : AnswersDue(v)' = AnswersDue(v)
  <2>1. Head(todo[t]) \in Writes /\ Head(todo[t]).series = "exemption"
    BY <1>1, WorkerWrites
  <2>2. label \in ExemptionReason
    BY <2>1 DEF Writes
  <2> QED
    BY <1>1, <2>2, WorkerWrites
<1>3. /\ Owing(Durations)' = Owing(Durations)
      /\ Owing(Exemptions) \in Nat /\ Owing(Exemptions)' = Owing(Exemptions) - 1
      /\ \A r \in Resource :
           /\ Owing(VerdictsOn(r))' = Owing(VerdictsOn(r))
           /\ \A v \in VerdictLabel : Owing(VerdictIs(r, v))' = Owing(VerdictIs(r, v))
           /\ Owing(DenialLogged(r))' = Owing(DenialLogged(r))
  BY <1>1, OwingMoves DEF One
<1> HIDE DEF label
<1>4. exemptions' \in [ExemptionReason -> Nat]
  BY <1>1, <1>2 DEF Typed
<1>5. Typed'
  BY <1>1, <1>2, <1>4, WritesTyped DEF Typed
<1>6. ExemptionsDue' = ExemptionsDue
  <2>1. /\ SumFunction(exemptions) \in Nat
        /\ SumFunction(exemptions') = SumFunction(exemptions) + 1
    BY <1>1, <1>2, SumFunctionGrows, LabelsFinite DEF Typed
  <2> QED
    BY <1>3, <2>1 DEF ExemptionsDue
<1>7. /\ DurationsDue' = DurationsDue
      /\ \A r \in Resource :
           /\ VerdictsDue(r)' = VerdictsDue(r) /\ DenialsDue(r)' = DenialsDue(r)
           /\ \A v \in VerdictLabel : VerdictDue(r, v)' = VerdictDue(r, v)
  BY <1>1, <1>3 DEF DurationsDue, VerdictsDue, VerdictDue, DenialsDue, Logged
<1> QED
  BY <1>2, <1>5, <1>6, <1>7 DEF SameBooks

LEMMA DurationKeeps ==
  ASSUME Typed, Owed, NEW t \in Worker, ObserveDuration(t)
  PROVE  Typed' /\ SameBooks
<1>1. /\ Doing(t, "duration") /\ durations' = durations + 1 /\ durations \in Nat
      /\ UNCHANGED <<verdicts, exemptions, log, freshness, gauges>>
  BY DEF ObserveDuration, Typed
<1>2. /\ todo' \in [Task -> Seq(Writes)]
      /\ Started' = Started /\ \A v : AnswersDue(v)' = AnswersDue(v)
  BY <1>1, WorkerWrites
<1>3. /\ Owing(Durations) \in Nat /\ Owing(Durations)' = Owing(Durations) - 1
      /\ Owing(Exemptions)' = Owing(Exemptions)
      /\ \A r \in Resource :
           /\ Owing(VerdictsOn(r))' = Owing(VerdictsOn(r))
           /\ \A v \in VerdictLabel : Owing(VerdictIs(r, v))' = Owing(VerdictIs(r, v))
           /\ Owing(DenialLogged(r))' = Owing(DenialLogged(r))
  BY <1>1, OwingMoves DEF One
<1>4. Typed'
  BY <1>1, <1>2, WritesTyped DEF Typed
<1>5. DurationsDue' = DurationsDue
  BY <1>1, <1>3 DEF DurationsDue
<1>6. /\ ExemptionsDue' = ExemptionsDue
      /\ \A r \in Resource :
           /\ VerdictsDue(r)' = VerdictsDue(r) /\ DenialsDue(r)' = DenialsDue(r)
           /\ \A v \in VerdictLabel : VerdictDue(r, v)' = VerdictDue(r, v)
  BY <1>1, <1>3 DEF ExemptionsDue, VerdictsDue, VerdictDue, DenialsDue, Logged
<1> QED
  BY <1>2, <1>4, <1>5, <1>6 DEF SameBooks

\* A gauge written by a worker.
LEMMA WorkerGaugeKeeps ==
  ASSUME Typed, Owed, NEW t \in Worker, SetFreshness(t) \/ SetGauge(t)
  PROVE  Typed' /\ SameBooks
<1>1. PICK series \in {"freshness", "gauge"} : Doing(t, series)
  BY DEF SetFreshness, SetGauge
<1>2. /\ todo' \in [Task -> Seq(Writes)] /\ Head(todo[t]) \in Writes
      /\ Started' = Started /\ \A v : AnswersDue(v)' = AnswersDue(v)
  BY <1>1, WorkerWrites
<1>3. Typed' /\ UNCHANGED <<verdicts, exemptions, durations, log>>
  BY <1>2, GaugeKeeps DEF counters
<1>4. /\ Owing(Durations)' = Owing(Durations)
      /\ Owing(Exemptions)' = Owing(Exemptions)
      /\ \A r \in Resource :
           /\ Owing(VerdictsOn(r))' = Owing(VerdictsOn(r))
           /\ \A v \in VerdictLabel : Owing(VerdictIs(r, v))' = Owing(VerdictIs(r, v))
           /\ Owing(DenialLogged(r))' = Owing(DenialLogged(r))
  BY <1>1, OwingMoves DEF One
<1>5. /\ DurationsDue' = DurationsDue /\ ExemptionsDue' = ExemptionsDue
      /\ \A r \in Resource :
           /\ VerdictsDue(r)' = VerdictsDue(r) /\ DenialsDue(r)' = DenialsDue(r)
           /\ \A v \in VerdictLabel : VerdictDue(r, v)' = VerdictDue(r, v)
  BY <1>3, <1>4 DEF DurationsDue, ExemptionsDue, VerdictsDue, VerdictDue, DenialsDue, Logged
<1> QED
  BY <1>2, <1>3, <1>5 DEF SameBooks

LEMMA WorkerKeeps ==
  ASSUME Typed, Owed, NEW t \in Worker, RecordNext(t)
  PROVE  Typed' /\ Owed' /\ SameBooks
<1>1. PICK series : Doing(t, series)
  BY DEF RecordNext, Log, RecordVerdict, RecordExemption, ObserveDuration, SetFreshness,
    SetGauge
<1>2. Owed'
  BY <1>1, WorkerWrites
<1> QED
  BY <1>2, LogKeeps, VerdictKeeps, ExemptionKeeps, DurationKeeps, WorkerGaugeKeeps
  DEF RecordNext

\* An answer leaves: what was in flight is answered.
LEMMA RespondKeeps ==
  ASSUME Typed, Owed, NEW w \in Worker, Respond(w)
  PROVE  Typed' /\ Owed' /\ SameBooks
<1> DEFINE verdict == outcome[w].verdict
<1>1. /\ outcome[w] # NULL /\ todo[w] = <<>>
      /\ answers' = [answers EXCEPT ![verdict] = @ + 1]
      /\ outcome' = [outcome EXCEPT ![w] = NULL]
      /\ UNCHANGED <<caches, phase, todo, counters, freshness, gauges>>
      /\ UNCHANGED <<allocation, capacity, now, changes>>
      /\ UNCHANGED <<verdicts, exemptions, durations, log>>
  BY DEF Respond, caches, counters
<1>2. outcome[w] \in Outcome /\ verdict \in Verdicts
  <2>1. outcome[w] \in Outcome
    BY <1>1 DEF Typed
  <2> QED
    BY <2>1, OutcomeShape DEF Verdicts
<1>3. outcome'[w] = NULL /\ \A x \in Worker \ {w} : outcome'[x] = outcome[x]
  BY <1>1 DEF Typed
<1>4. LET Busy == {x \in Worker : outcome[x] # NULL}
          BusyNext == {x \in Worker : outcome'[x] # NULL} IN
      /\ Cardinality(Busy) \in Nat
      /\ Cardinality(BusyNext) = Cardinality(Busy) - 1
      /\ \A v :
           /\ Cardinality(InFlight(v)) \in Nat
           /\ Cardinality(InFlight(v)') = Cardinality(InFlight(v)) - One(verdict = v)
  <2>1. /\ One(outcome[w] # NULL) = 1 /\ One(outcome'[w] # NULL) = 0
        /\ \A v : /\ One(outcome[w] # NULL /\ outcome[w].verdict = v) = One(verdict = v)
                  /\ One(outcome'[w] # NULL /\ outcome'[w].verdict = v) = 0
    BY <1>1, <1>3 DEF One
  <2>2. \A v : One(verdict = v) \in Nat
    BY DEF One
  <2> HIDE DEF verdict
  <2> DEFINE Busy == {x \in Worker : outcome[x] # NULL}
             BusyNext == {x \in Worker : outcome'[x] # NULL}
  <2>3. /\ Cardinality(Busy) \in Nat /\ Cardinality(BusyNext) \in Nat
        /\ Cardinality(BusyNext)
             = Cardinality(Busy) - One(outcome[w] # NULL) + One(outcome'[w] # NULL)
    BY <1>3, FlightChange
  <2>4. ASSUME NEW v
        PROVE  /\ Cardinality(InFlight(v)) \in Nat
               /\ Cardinality(InFlight(v)') = Cardinality(InFlight(v)) - One(verdict = v)
    <3>1. /\ Cardinality(InFlight(v)) \in Nat
          /\ Cardinality(InFlight(v)')
               = Cardinality(InFlight(v)) - One(outcome[w] # NULL /\ outcome[w].verdict = v)
                   + One(outcome'[w] # NULL /\ outcome'[w].verdict = v)
      BY <1>3, FlightChange
    <3> QED
      BY <2>1, <2>2, <3>1
  <2> HIDE DEF Busy, BusyNext
  <2>5. Cardinality(Busy) \in Nat /\ Cardinality(BusyNext) = Cardinality(Busy) - 1
    BY <2>1, <2>3
  <2> QED
    BY <2>4, <2>5 DEF Busy, BusyNext
<1> HIDE DEF verdict
<1>5. /\ answers' \in [Verdicts -> Nat]
      /\ \A v \in Verdicts : answers[v] \in Nat /\ answers'[v] = answers[v] + One(verdict = v)
  BY <1>1, <1>2 DEF Typed, One
<1>6. Typed'
  BY <1>1, <1>5 DEF Typed
<1>7. Owed'
  BY <1>1, <1>3 DEF Owed
<1>8. Started' = Started
  <2>1. SumFunction(answers) \in Nat /\ SumFunction(answers') = SumFunction(answers) + 1
    BY <1>1, <1>2, SumFunctionGrows, LabelsFinite DEF Typed
  <2> QED
    BY <1>4, <2>1 DEF Started
<1>9. ASSUME NEW v \in Verdicts PROVE AnswersDue(v)' = AnswersDue(v)
  <2>1. One(verdict = v) \in Nat
    BY DEF One
  <2> QED
    BY <1>4, <1>5, <2>1 DEF AnswersDue
<1>10. \A kind : Owing(kind)' = Owing(kind)
  BY <1>1 DEF Owing
<1>11. /\ DurationsDue' = DurationsDue /\ ExemptionsDue' = ExemptionsDue
       /\ \A r \in Resource :
            /\ VerdictsDue(r)' = VerdictsDue(r) /\ DenialsDue(r)' = DenialsDue(r)
            /\ \A v \in VerdictLabel : VerdictDue(r, v)' = VerdictDue(r, v)
  BY <1>1, <1>10 DEF DurationsDue, ExemptionsDue, VerdictsDue, VerdictDue, DenialsDue, Logged
<1> QED
  BY <1>6, <1>7, <1>8, <1>9, <1>11 DEF SameBooks

\* A refresh lists gauges only.
LEMMA RefreshKeeps ==
  ASSUME Typed, Owed, Refresh
  PROVE  Typed' /\ Owed' /\ SameBooks
<1> DEFINE list == RefreshGauges(allocation, capacity, now)
<1>1. /\ todo' = [todo EXCEPT ![Refresher] = list]
      /\ UNCHANGED <<caches, phase, outcome, counters, freshness, gauges, answers>>
      /\ UNCHANGED <<allocation, capacity, now, changes>>
      /\ UNCHANGED <<verdicts, exemptions, durations, log>>
  BY DEF Refresh, caches, counters
<1>2. list \in Seq(Writes) /\ Shows(list)
  BY RefreshListed
<1> HIDE DEF list
<1>3. Refresher \in Task /\ Refresher \notin Worker /\ Worker \in SUBSET Task
  BY TasksAssumption DEF Task
<1>4. todo'[Refresher] = list /\ \A x \in Task \ {Refresher} : todo'[x] = todo[x]
  BY <1>1, <1>3, Elsewhere
<1>5. Typed'
  BY <1>1, <1>2 DEF Typed
<1>6. \A w \in Worker : todo'[w] = todo[w]
  BY <1>3, <1>4
<1>7. Owed'
  BY <1>1, <1>2, <1>4, <1>6 DEF Owed
<1> QED
  BY <1>1, <1>5, <1>6, <1>7, ApartSame

\* The signal, the end, the watches and the clock.
LEMMA EnvironmentKeeps ==
  ASSUME Typed, Owed,
         ShutdownSignal \/ Stop \/ WatchAllocation \/ WatchCapacity \/ Tick \/ UNCHANGED vars
  PROVE  Typed' /\ Owed' /\ SameBooks
<1>1. /\ UNCHANGED <<todo, outcome, counters, freshness, gauges, answers>>
      /\ UNCHANGED <<verdicts, exemptions, durations, log>>
  BY DEF ShutdownSignal, Stop, WatchAllocation, WatchCapacity, Tick, vars, counters
<1>2. /\ (allocation \in Allocations \cup {NULL} /\ capacity \in Capacities \cup {NULL})'
      /\ (changes \in 0 .. MaxChanges /\ now \in 0 .. changes)'
      /\ (phase \in {"serving", "draining", "stopped"})'
  BY BoundsAssumption
  DEF Typed, ShutdownSignal, Stop, WatchAllocation, WatchCapacity, Tick, vars, caches
<1>3. Typed'
  BY <1>1, <1>2 DEF Typed
<1>4. Owed'
  BY <1>1 DEF Owed
<1> QED
  BY <1>1, <1>3, <1>4, ApartSame

-----------------------------------------------------------------------------
(***************************************************************************)
(* The step that counts: a review is taken                                 *)
(***************************************************************************)
LEMMA ValidateOwes ==
  ASSUME Typed, Owed, NEW w \in Worker, Validate(w)
  PROVE  /\ Typed' /\ Owed'
         /\ UNCHANGED <<verdicts, exemptions, durations, log, answers>>
         /\ Started \in Nat /\ Started' = Started + 1 /\ Started < MaxReviews
         /\ \E o \in Outcome :
              /\ outcome'[w] = o /\ Recorded(todo'[w], o)
              /\ \A v : /\ Cardinality(InFlight(v)) \in Nat
                        /\ Cardinality(InFlight(v)')
                             = Cardinality(InFlight(v)) + One(o.verdict = v)
              /\ \A kind \in Kind :
                   /\ Owing(kind) \in Nat
                   /\ Owing(kind)' = Owing(kind) + One(Owes(todo'[w], kind))
<1>1. PICK body \in Requests :
        LET o == Handle(body, allocation, capacity, now) IN
        /\ outcome' = [outcome EXCEPT ![w] = o]
        /\ todo' = [todo EXCEPT ![w] =
                       EmitLog(o) \o RecordMetrics(o, allocation, capacity, now)]
  BY DEF Validate
<1> DEFINE o == Handle(body, allocation, capacity, now)
           list == EmitLog(o) \o RecordMetrics(o, allocation, capacity, now)
<1>2. /\ outcome[w] = NULL /\ Started < MaxReviews
      /\ outcome' = [outcome EXCEPT ![w] = o]
      /\ todo' = [todo EXCEPT ![w] = list]
      /\ UNCHANGED <<caches, phase, counters, freshness, gauges, answers>>
      /\ UNCHANGED <<allocation, capacity, now, changes>>
      /\ UNCHANGED <<verdicts, exemptions, durations, log>>
  BY <1>1 DEF Validate, caches, counters
<1>3. now \in Nat
  BY BoundsAssumption DEF Typed
<1>4. o \in Outcome /\ Recorded(list, o)
  BY <1>3, DecisionShape, DecisionRecords DEF Typed
<1> HIDE DEF o, list
<1>5. list \in Seq(Writes) /\ \A kind \in Kind : AtMostOnce(list, kind)
  BY <1>4 DEF Recorded, Sound
<1>6. w \in Task /\ Refresher \in Task /\ Refresher # w /\ Worker \in SUBSET Task
  BY TasksAssumption DEF Task
<1>7. todo'[w] = list /\ \A x \in Task \ {w} : todo'[x] = todo[x]
  BY <1>2, <1>6, Elsewhere
<1>8. /\ outcome'[w] = o /\ o # NULL
      /\ \A x \in Worker \ {w} : outcome'[x] = outcome[x]
      /\ outcome' \in [Worker -> Outcome \cup {NULL}]
  BY <1>2, <1>4, NullOutcomeAssumption DEF Typed
<1>9. Typed'
  BY <1>2, <1>5, <1>8 DEF Typed
<1>10. Owed'
  BY <1>5, <1>6, <1>7, <1>8 DEF Owed
<1>11. LET Busy == {x \in Worker : outcome[x] # NULL}
           BusyNext == {x \in Worker : outcome'[x] # NULL} IN
       /\ Cardinality(Busy) \in Nat
       /\ Cardinality(BusyNext) = Cardinality(Busy) + 1
       /\ \A v :
            /\ Cardinality(InFlight(v)) \in Nat
            /\ Cardinality(InFlight(v)') = Cardinality(InFlight(v)) + One(o.verdict = v)
  <2>1. /\ One(outcome[w] # NULL) = 0 /\ One(outcome'[w] # NULL) = 1
        /\ \A v : /\ One(outcome[w] # NULL /\ outcome[w].verdict = v) = 0
                  /\ One(outcome'[w] # NULL /\ outcome'[w].verdict = v) = One(o.verdict = v)
    BY <1>2, <1>8 DEF One
  <2>2. \A v : One(o.verdict = v) \in Nat
    BY DEF One
  <2> QED
    BY <1>8, <2>1, <2>2, FlightChange
<1>12. Started \in Nat /\ Started' = Started + 1
  <2>1. SumFunction(answers) \in Nat
    <3>1. "exempt" \in Verdicts
      BY DEF Verdicts
    <3> QED
      BY <3>1, SumFunctionGrows, LabelsFinite DEF Typed
  <2> QED
    BY <1>2, <1>11, <2>1 DEF Started
<1>13. ASSUME NEW kind \in Kind
       PROVE  /\ Owing(kind) \in Nat
              /\ Owing(kind)' = Owing(kind) + One(Owes(todo'[w], kind))
  <2>1. /\ Owing(kind) \in Nat
        /\ Owing(kind)' = Owing(kind) - One(Owes(todo[w], kind)) + One(Owes(todo'[w], kind))
    BY <1>6, <1>7, OwingChange
  <2>2. ~Owes(todo[w], kind)
    BY <1>2 DEF Owed, Owes
  <2>3. One(Owes(todo[w], kind)) = 0 /\ One(Owes(todo'[w], kind)) \in Nat
    BY <2>2 DEF One
  <2> QED
    BY <2>1, <2>3
<1> QED
  BY <1>2, <1>4, <1>7, <1>8, <1>9, <1>10, <1>11, <1>12, <1>13

LEMMA ValidateBooks ==
  ASSUME Typed, Owed, Books, NEW w \in Worker, Validate(w)
  PROVE  Books'
<1>1. PICK o \in Outcome :
        /\ outcome'[w] = o /\ Recorded(todo'[w], o)
        /\ \A v : /\ Cardinality(InFlight(v)) \in Nat
                  /\ Cardinality(InFlight(v)') = Cardinality(InFlight(v)) + One(o.verdict = v)
        /\ \A kind \in Kind :
             Owing(kind) \in Nat /\ Owing(kind)' = Owing(kind) + One(Owes(todo'[w], kind))
  BY ValidateOwes
<1>2. /\ UNCHANGED <<verdicts, exemptions, durations, log, answers>>
      /\ Started \in Nat /\ Started' = Started + 1 /\ Started < MaxReviews
  BY ValidateOwes
<1> DEFINE list == todo'[w]
<1> HIDE DEF list
<1>3. /\ Owes(list, Durations)
      /\ Owes(list, Exemptions) <=> o.verdict = "exempt"
      /\ \A res \in Resource :
           /\ Owes(list, VerdictsOn(res)) <=> o.verdict # "exempt"
           /\ \A v \in VerdictLabel :
                Owes(list, VerdictIs(res, v)) <=> o.verdict # "exempt" /\ Verdict(o, res) = v
           /\ Owes(list, DenialLogged(res)) <=> o.verdict = "deny" /\ res \in o.violations
  BY <1>1 DEF Recorded, list
<1>4. \A kind \in Kind :
        Owing(kind) \in Nat /\ Owing(kind)' = Owing(kind) + One(Owes(list, kind))
  BY <1>1 DEF list
<1>5. /\ "exempt" \in Verdicts /\ VerdictLabel \in SUBSET Verdicts
      /\ {"error", "dry_run_deny", "deny"} \in SUBSET VerdictLabel
      /\ "exempt" \notin VerdictLabel
  BY DEF Verdicts, VerdictLabel
<1>6. /\ o.verdict \in Verdicts /\ o.violations \in SUBSET Resource
      /\ o.verdict = "allow" => o.violations = {}
      /\ o.verdict = "deny" => o.violations # {}
  BY OutcomeShape DEF Verdicts
<1>7. ASSUME NEW v \in Verdicts
      PROVE  AnswersDue(v) \in Nat /\ AnswersDue(v)' = AnswersDue(v) + One(o.verdict = v)
  <2>1. answers[v] \in Nat /\ answers'[v] = answers[v]
    BY <1>2 DEF Typed
  <2>2. One(o.verdict = v) \in Nat
    BY DEF One
  <2> QED
    BY <1>1, <2>1, <2>2 DEF AnswersDue
<1>8. DurationsDue' = DurationsDue + 1 /\ DurationsDue = Started
  <2>1. Owing(Durations) \in Nat /\ Owing(Durations)' = Owing(Durations) + 1
    BY <1>3, <1>4, KindsAre DEF One
  <2> QED
    BY <1>2, <2>1 DEF DurationsDue, Typed, Books
<1>9. ExemptionsDue' = ExemptionsDue + One(o.verdict = "exempt")
  <2>1. SumFunction(exemptions) \in Nat
    <3>1. "namespace" \in ExemptionReason
      BY DEF ExemptionReason
    <3> QED
      BY <3>1, SumFunctionGrows, LabelsFinite DEF Typed
  <2>2. /\ Owing(Exemptions) \in Nat
        /\ Owing(Exemptions)' = Owing(Exemptions) + One(o.verdict = "exempt")
    BY <1>3, <1>4, KindsAre DEF One
  <2>3. One(o.verdict = "exempt") \in Nat
    BY DEF One
  <2> QED
    BY <1>2, <2>1, <2>2, <2>3 DEF ExemptionsDue
<1>10. ASSUME NEW res \in Resource
       PROVE  /\ VerdictsDue(res) \in Nat
              /\ VerdictsDue(res)' = VerdictsDue(res) + One(o.verdict # "exempt")
  <2>1. SumFunction(verdicts[res]) \in Nat /\ verdicts'[res] = verdicts[res]
    <3>1. verdicts[res] \in [VerdictLabel -> Nat] /\ "deny" \in VerdictLabel
      BY <1>5 DEF Typed
    <3> QED
      BY <1>2, <3>1, SumFunctionGrows, LabelsFinite
  <2>2. /\ Owing(VerdictsOn(res)) \in Nat
        /\ Owing(VerdictsOn(res))' = Owing(VerdictsOn(res)) + One(o.verdict # "exempt")
    BY <1>3, <1>4, KindsAre DEF One
  <2>3. One(o.verdict # "exempt") \in Nat
    BY DEF One
  <2> QED
    BY <2>1, <2>2, <2>3 DEF VerdictsDue
<1>11. ASSUME NEW res \in Resource, NEW v \in VerdictLabel
       PROVE  /\ VerdictDue(res, v) \in Nat
              /\ VerdictDue(res, v)'
                   = VerdictDue(res, v) + One(o.verdict # "exempt" /\ Verdict(o, res) = v)
  <2>1. verdicts[res][v] \in Nat /\ verdicts'[res][v] = verdicts[res][v]
    BY <1>2 DEF Typed
  <2>2. /\ Owing(VerdictIs(res, v)) \in Nat
        /\ Owing(VerdictIs(res, v))'
             = Owing(VerdictIs(res, v)) + One(o.verdict # "exempt" /\ Verdict(o, res) = v)
    BY <1>3, <1>4, KindsAre DEF One
  <2>3. One(o.verdict # "exempt" /\ Verdict(o, res) = v) \in Nat
    BY DEF One
  <2> QED
    BY <2>1, <2>2, <2>3 DEF VerdictDue
<1>12. ASSUME NEW res \in Resource
       PROVE  /\ DenialsDue(res) \in Nat
              /\ DenialsDue(res)'
                   = DenialsDue(res) + One(o.verdict = "deny" /\ res \in o.violations)
  <2>1. Logged(<<"deny", res>>) \in Nat /\ Logged(<<"deny", res>>)' = Logged(<<"deny", res>>)
    BY <1>2 DEF Typed, Logged
  <2>2. /\ Owing(DenialLogged(res)) \in Nat
        /\ Owing(DenialLogged(res))'
             = Owing(DenialLogged(res)) + One(o.verdict = "deny" /\ res \in o.violations)
    BY <1>3, <1>4, KindsAre DEF One
  <2>3. One(o.verdict = "deny" /\ res \in o.violations) \in Nat
    BY DEF One
  <2> QED
    BY <2>1, <2>2, <2>3 DEF DenialsDue
<1>13. ASSUME NEW res \in Resource
       PROVE  /\ VerdictsDue(res)' + AnswersDue("exempt")' = Started'
              /\ \A v \in {"error", "dry_run_deny"} : VerdictDue(res, v)' = AnswersDue(v)'
              /\ VerdictDue(res, "deny")' <= AnswersDue("deny")'
              /\ VerdictDue(res, "deny")' = DenialsDue(res)'
  <2>1. One(o.verdict # "exempt") + One(o.verdict = "exempt") = 1
    BY DEF One
  <2>2. VerdictsDue(res)' + AnswersDue("exempt")' = Started'
    <3>1. /\ VerdictsDue(res) + AnswersDue("exempt") = Started
          /\ VerdictsDue(res) \in Nat /\ AnswersDue("exempt") \in Nat
          /\ VerdictsDue(res)' = VerdictsDue(res) + One(o.verdict # "exempt")
          /\ AnswersDue("exempt")' = AnswersDue("exempt") + One(o.verdict = "exempt")
      BY <1>5, <1>7, <1>10 DEF Books
    <3>2. One(o.verdict # "exempt") \in Nat /\ One(o.verdict = "exempt") \in Nat
      BY DEF One
    <3> QED
      BY <1>2, <2>1, <3>1, <3>2
  <2>3. ASSUME NEW v \in {"error", "dry_run_deny"}
        PROVE  VerdictDue(res, v)' = AnswersDue(v)'
    <3>1. (o.verdict # "exempt" /\ Verdict(o, res) = v) <=> o.verdict = v
      BY DEF Verdict
    <3>2. One(o.verdict # "exempt" /\ Verdict(o, res) = v) = One(o.verdict = v)
      BY <3>1 DEF One
    <3>3. VerdictDue(res, v) = AnswersDue(v)
      BY DEF Books
    <3> QED
      BY <1>5, <1>7, <1>11, <3>2, <3>3
  <2>4. (o.verdict # "exempt" /\ Verdict(o, res) = "deny")
          <=> (o.verdict = "deny" /\ res \in o.violations)
    BY <1>6 DEF Verdict, Verdicts, VerdictLabel
  <2>5. /\ One(o.verdict # "exempt" /\ Verdict(o, res) = "deny")
             = One(o.verdict = "deny" /\ res \in o.violations)
        /\ One(o.verdict = "deny" /\ res \in o.violations) <= One(o.verdict = "deny")
        /\ One(o.verdict = "deny" /\ res \in o.violations) \in Nat
        /\ One(o.verdict = "deny") \in Nat
    BY <2>4 DEF One
  <2>6. /\ VerdictDue(res, "deny") \in Nat /\ AnswersDue("deny") \in Nat
        /\ VerdictDue(res, "deny") <= AnswersDue("deny")
        /\ VerdictDue(res, "deny") = DenialsDue(res)
        /\ VerdictDue(res, "deny")'
             = VerdictDue(res, "deny") + One(o.verdict = "deny" /\ res \in o.violations)
        /\ AnswersDue("deny")' = AnswersDue("deny") + One(o.verdict = "deny")
        /\ DenialsDue(res)'
             = DenialsDue(res) + One(o.verdict = "deny" /\ res \in o.violations)
    BY <1>5, <1>7, <1>11, <1>12, <2>5 DEF Books
  <2>7. /\ VerdictDue(res, "deny")' <= AnswersDue("deny")'
        /\ VerdictDue(res, "deny")' = DenialsDue(res)'
    BY <2>5, <2>6
  <2> QED
    BY <2>2, <2>3, <2>7
<1>14. AnswersDue("deny")' <= VerdictDue("cpu", "deny")' + VerdictDue("memory", "deny")'
  <2>1. "cpu" \in Resource /\ "memory" \in Resource
    BY ResourceAssumption
  <2>2. ASSUME NEW res \in Resource
        PROVE  o.verdict = "deny" /\ res \in o.violations
                 => o.verdict # "exempt" /\ Verdict(o, res) = "deny"
    BY DEF Verdict
  <2>3. One(o.verdict = "deny")
          <= One(o.verdict # "exempt" /\ Verdict(o, "cpu") = "deny")
               + One(o.verdict # "exempt" /\ Verdict(o, "memory") = "deny")
    <3>1. CASE o.verdict = "deny"
      <4>1. "cpu" \in o.violations \/ "memory" \in o.violations
        BY <1>6, <3>1, ResourceAssumption
      <4> QED
        BY <2>1, <2>2, <3>1, <4>1 DEF One
    <3>2. CASE o.verdict # "deny"
      BY <3>2 DEF One
    <3> QED
      BY <3>1, <3>2
  <2>4. /\ One(o.verdict # "exempt" /\ Verdict(o, "cpu") = "deny") \in Nat
        /\ One(o.verdict # "exempt" /\ Verdict(o, "memory") = "deny") \in Nat
        /\ One(o.verdict = "deny") \in Nat
    BY DEF One
  <2>5. AnswersDue("deny") <= VerdictDue("cpu", "deny") + VerdictDue("memory", "deny")
    BY DEF Books
  <2> QED
    BY <1>5, <1>7, <1>11, <2>1, <2>3, <2>4, <2>5
<1>15. ExemptionsDue' = AnswersDue("exempt")'
  BY <1>5, <1>7, <1>9 DEF Books
<1>16. DurationsDue' = Started' /\ Started' <= MaxReviews
  BY <1>2, <1>8, BoundsAssumption
<1> QED
  BY <1>13, <1>14, <1>15, <1>16 DEF Books

-----------------------------------------------------------------------------
(***************************************************************************)
(* The theorems                                                            *)
(***************************************************************************)
LEMMA SumOfZeros ==
  ASSUME NEW S, IsFiniteSet(S) PROVE SumFunction([x \in S |-> 0]) = 0
<1> DEFINE f == [x \in S |-> 0]
<1>1. DOMAIN f = S /\ \A x \in S : f[x] \in Int /\ f[x] = 0 * f[x] + 0 * f[x]
  OBVIOUS
<1> HIDE DEF f
<1>2. SumFunctionOnSet(f, S) = 0 * SumFunctionOnSet(f, S) + 0 * SumFunctionOnSet(f, S)
  BY <1>1, SumLinear
<1>3. SumFunctionOnSet(f, S) \in Int
  BY <1>1, SumType
<1>4. SumFunction(f) = 0
  BY <1>1, <1>2, <1>3 DEF SumFunction
<1> QED
  BY <1>4 DEF f

\* At the start nothing is counted and nothing is owed.
LEMMA InitInv == Init => Inv
<1> SUFFICES ASSUME Init PROVE Inv
  OBVIOUS
<1>1. /\ todo = [t \in Task |-> <<>>] /\ outcome = [w \in Worker |-> NULL]
      /\ verdicts = [res \in Resource |-> [v \in VerdictLabel |-> 0]]
      /\ exemptions = [reason \in ExemptionReason |-> 0]
      /\ durations = 0 /\ log = << >> /\ freshness = 0
      /\ answers = [v \in Verdicts |-> 0]
  BY DEF Init, Verdicts
<1>2. <<>> \in Seq(Writes) /\ DOMAIN << >> = {}
  OBVIOUS
<1>3. Typed
  <2>1. DOMAIN gauges = Resource /\ \A res \in Resource : DOMAIN gauges[res] = Gauge
    BY DEF Init
  <2>2. /\ allocation \in Allocations \cup {NULL} /\ capacity \in Capacities \cup {NULL}
        /\ changes \in 0 .. MaxChanges /\ now \in 0 .. changes
        /\ phase \in {"serving", "draining", "stopped"}
    BY BoundsAssumption DEF Init
  <2>3. todo \in [Task -> Seq(Writes)] /\ \A event \in DOMAIN log : log[event] \in Nat
    BY <1>1, <1>2
  <2> QED
    BY <1>1, <2>1, <2>2, <2>3 DEF Typed
<1>4. \A w \in Worker : todo[w] = <<>>
  BY <1>1 DEF Task
<1>5. Owed
  <2>1. todo[Refresher] = <<>>
    BY <1>1 DEF Task
  <2>2. Shows(<<>>) /\ \A kind : AtMostOnce(<<>>, kind)
    BY <1>2 DEF Shows, AtMostOnce
  <2> QED
    BY <1>4, <2>1, <2>2 DEF Owed
<1>6. \A kind : Owing(kind) = 0
  <2>1. \A kind : {w \in Worker : Owes(todo[w], kind)} = {}
    BY <1>2, <1>4 DEF Owes
  <2> QED
    BY <2>1, FS_EmptySet DEF Owing
<1>7. \A v : Cardinality(InFlight(v)) = 0
  <2>1. \A v : InFlight(v) = {}
    BY <1>1 DEF InFlight
  <2> QED
    BY <2>1, FS_EmptySet
<1>8. Started = 0
  <2>1. {w \in Worker : outcome[w] # NULL} = {}
    BY <1>1
  <2>2. SumFunction(answers) = 0
    BY <1>1, SumOfZeros, LabelsFinite
  <2> QED
    BY <2>1, <2>2, FS_EmptySet DEF Started
<1>9. DurationsDue = 0 /\ ExemptionsDue = 0
  <2>1. SumFunction(exemptions) = 0
    BY <1>1, SumOfZeros, LabelsFinite
  <2> QED
    BY <1>1, <1>6, <2>1 DEF DurationsDue, ExemptionsDue
<1>10. ASSUME NEW res \in Resource
       PROVE  /\ VerdictsDue(res) = 0 /\ DenialsDue(res) = 0
              /\ \A v \in VerdictLabel : VerdictDue(res, v) = 0
  <2>1. verdicts[res] = [v \in VerdictLabel |-> 0]
    BY <1>1
  <2>2. SumFunction(verdicts[res]) = 0
    BY <2>1, SumOfZeros, LabelsFinite
  <2>3. Logged(<<"deny", res>>) = 0
    BY <1>1, <1>2 DEF Logged
  <2> QED
    BY <1>6, <2>1, <2>2, <2>3 DEF VerdictsDue, VerdictDue, DenialsDue
<1>11. \A v \in Verdicts : AnswersDue(v) = 0
  BY <1>1, <1>7 DEF AnswersDue
<1>12. /\ {"error", "dry_run_deny", "deny"} \in SUBSET VerdictLabel
       /\ {"error", "dry_run_deny", "deny", "exempt"} \in SUBSET Verdicts
       /\ "cpu" \in Resource /\ "memory" \in Resource
  BY ResourceAssumption DEF Verdicts, VerdictLabel
<1>13. Books
  BY <1>8, <1>9, <1>10, <1>11, <1>12, BoundsAssumption DEF Books
<1> QED
  BY <1>3, <1>5, <1>13 DEF Inv

\* Every step keeps the balance.
LEMMA NextInv == Inv /\ [Next]_vars => Inv'
<1> SUFFICES ASSUME Typed, Owed, Books, [Next]_vars PROVE Inv'
  BY DEF Inv
<1>1. ASSUME NEW w \in Worker, Validate(w) PROVE Inv'
  BY <1>1, ValidateOwes, ValidateBooks DEF Inv
<1>2. ASSUME NEW w \in Worker, Respond(w) PROVE Inv'
  BY <1>2, RespondKeeps, SameBooksKeep DEF Inv
<1>3. ASSUME NEW t \in Task, RecordNext(t) PROVE Inv'
  BY <1>3, WorkerKeeps, RefresherKeeps, SameBooksKeep DEF Inv, Task
<1>4. CASE Refresh
  BY <1>4, RefreshKeeps, SameBooksKeep DEF Inv
<1>5. CASE ShutdownSignal \/ Stop \/ WatchAllocation \/ WatchCapacity \/ Tick
             \/ UNCHANGED vars
  BY <1>5, EnvironmentKeeps, SameBooksKeep DEF Inv
<1> QED
  BY <1>1, <1>2, <1>3, <1>4, <1>5 DEF Next

\* The invariant holds: every counter and what is owed to it balance with the
\* reviews taken and answered, at every moment of every interleaving.
THEOREM InvHolds == Spec => []Inv
<1> QED
  BY InitInv, NextInv, PTL DEF Spec

\* No count is beyond the reviews taken.
LEMMA CountsBounded ==
  ASSUME Inv
  PROVE  /\ durations \in 0 .. MaxReviews
         /\ exemptions \in [ExemptionReason -> 0 .. MaxReviews]
         /\ verdicts \in [Resource -> [VerdictLabel -> 0 .. MaxReviews]]
         /\ answers \in [Verdicts -> 0 .. MaxReviews]
<1>1. /\ exemptions \in [ExemptionReason -> Nat] /\ durations \in Nat
      /\ verdicts \in [Resource -> [VerdictLabel -> Nat]]
      /\ answers \in [Verdicts -> Nat]
  BY DEF Inv, Typed
<1>2. MaxReviews \in Nat
  BY BoundsAssumption
<1>3. /\ \A kind : Owing(kind) \in Nat
      /\ \A v : Cardinality(InFlight(v)) \in Nat
      /\ Cardinality({w \in Worker : outcome[w] # NULL}) \in Nat
  <2>1. \A S \in SUBSET Worker : Cardinality(S) \in Nat
    BY TasksAssumption, FS_Subset, FS_CardinalityType
  <2> QED
    BY <2>1 DEF Owing, InFlight
<1>4. ASSUME NEW S, IsFiniteSet(S), NEW f \in [S -> Nat], NEW a \in S
      PROVE  SumFunction(f) \in Nat /\ f[a] <= SumFunction(f) /\ f[a] \in Nat
  BY <1>4, SumFunctionGrows
<1>5. "exempt" \in Verdicts /\ "cpu" \in Resource /\ "namespace" \in ExemptionReason
      /\ "deny" \in VerdictLabel
  BY ResourceAssumption DEF Verdicts, ExemptionReason, VerdictLabel
<1>6. SumFunction(answers) \in Nat /\ SumFunction(answers) <= Started
      /\ Started \in Nat /\ Started <= MaxReviews
  <2>1. SumFunction(answers) \in Nat
    BY <1>1, <1>4, <1>5, LabelsFinite
  <2>2. Started <= MaxReviews
    BY DEF Inv, Books
  <2> QED
    BY <1>3, <2>1, <2>2 DEF Started
<1>7. answers \in [Verdicts -> 0 .. MaxReviews]
  <2>1. \A v \in Verdicts : answers[v] \in Nat /\ answers[v] <= SumFunction(answers)
    BY <1>1, <1>4, LabelsFinite
  <2>2. \A v \in Verdicts : answers[v] \in 0 .. MaxReviews
    BY <1>2, <1>6, <2>1
  <2> QED
    BY <1>1, <2>2
<1>8. durations \in 0 .. MaxReviews
  <2>1. durations + Owing(Durations) = Started
    BY DEF Inv, Books, DurationsDue
  <2> QED
    BY <1>1, <1>2, <1>3, <1>6, <2>1
<1>9. ASSUME NEW res \in Resource
      PROVE  /\ SumFunction(verdicts[res]) \in Nat
             /\ SumFunction(verdicts[res]) + AnswersDue("exempt") <= Started
             /\ AnswersDue("exempt") \in Nat
             /\ \A v \in VerdictLabel :
                  verdicts[res][v] \in Nat /\ verdicts[res][v] <= SumFunction(verdicts[res])
  <2>1. verdicts[res] \in [VerdictLabel -> Nat]
    BY <1>1
  <2>2. /\ SumFunction(verdicts[res]) \in Nat
        /\ \A v \in VerdictLabel :
             verdicts[res][v] \in Nat /\ verdicts[res][v] <= SumFunction(verdicts[res])
    BY <1>4, <1>5, <2>1, LabelsFinite
  <2>3. AnswersDue("exempt") \in Nat
    BY <1>1, <1>3, <1>5 DEF AnswersDue
  <2>4. SumFunction(verdicts[res]) + Owing(VerdictsOn(res)) + AnswersDue("exempt") = Started
    BY DEF Inv, Books, VerdictsDue
  <2> QED
    BY <1>3, <2>2, <2>3, <2>4
<1>10. verdicts \in [Resource -> [VerdictLabel -> 0 .. MaxReviews]]
  <2>1. \A res \in Resource : \A v \in VerdictLabel : verdicts[res][v] \in 0 .. MaxReviews
    BY <1>2, <1>6, <1>9
  <2>2. \A res \in Resource : verdicts[res] \in [VerdictLabel -> 0 .. MaxReviews]
    BY <1>1, <2>1
  <2> QED
    BY <1>1, <2>2
<1>11. exemptions \in [ExemptionReason -> 0 .. MaxReviews]
  <2>1. \A reason \in ExemptionReason :
          exemptions[reason] \in Nat /\ exemptions[reason] <= SumFunction(exemptions)
    BY <1>1, <1>4, LabelsFinite
  <2>2. SumFunction(exemptions) \in Nat
    BY <1>1, <1>4, <1>5, LabelsFinite
  <2>3. SumFunction(exemptions) + Owing(Exemptions) = AnswersDue("exempt")
    BY DEF Inv, Books, ExemptionsDue
  <2>4. AnswersDue("exempt") \in Nat /\ AnswersDue("exempt") <= Started
    BY <1>5, <1>6, <1>9
  <2>5. \A reason \in ExemptionReason : exemptions[reason] \in 0 .. MaxReviews
    BY <1>2, <1>3, <1>6, <2>1, <2>2, <2>3, <2>4
  <2> QED
    BY <1>1, <2>5
<1> QED
  BY <1>7, <1>8, <1>10, <1>11

\* Everything that is shown has its type: a counter never outruns the reviews
\* taken, the freshness is never negative, and what a task still has to write
\* are writes to known series (record_metrics, refresh_gauges).
THEOREM ShownTypes == Spec => []TypeOK
<1>1. Inv => TypeOK
  <2> SUFFICES ASSUME Inv PROVE TypeOK
    OBVIOUS
  <2>1. \A t \in Task : \A i \in DOMAIN todo[t] :
          todo[t][i].series \in
            {"log", "verdict", "exemption", "duration", "freshness", "gauge"}
    <3> SUFFICES ASSUME NEW t \in Task, NEW i \in DOMAIN todo[t]
                 PROVE  todo[t][i].series \in
                   {"log", "verdict", "exemption", "duration", "freshness", "gauge"}
      OBVIOUS
    <3>1. todo[t] \in Seq(Writes)
      BY DEF Inv, Typed
    <3>2. todo[t][i] \in Writes
      BY <3>1
    <3> QED
      BY <3>2 DEF Writes
  <2> QED
    BY <2>1, CountsBounded DEF Inv, Typed, TypeOK, Verdicts
<1> QED
  BY <1>1, InvHolds, PTL

\* With no review in flight nothing is owed, so the counters tell what was
\* answered, whatever the threads and the refresh wrote in between
\* (record_metrics, emit_log).
THEOREM CountersTell == Spec => []MetricsTellAnswers
<1>1. Inv => MetricsTellAnswers
  <2> SUFFICES ASSUME Inv, AtRest PROVE MetricsTellAnswers
    BY DEF MetricsTellAnswers
  <2>1. \A w \in Worker : outcome[w] = NULL /\ todo[w] = <<>>
    BY DEF AtRest, Inv, Owed
  <2>2. \A kind : Owing(kind) = 0
    <3>1. \A kind : {w \in Worker : Owes(todo[w], kind)} = {}
      BY <2>1 DEF Owes
    <3> QED
      BY <3>1, FS_EmptySet DEF Owing
  <2>3. \A v : Cardinality(InFlight(v)) = 0
    <3>1. \A v : InFlight(v) = {}
      BY <2>1 DEF InFlight
    <3> QED
      BY <3>1, FS_EmptySet
  <2>4. /\ "exempt" \in Verdicts /\ VerdictLabel \in SUBSET Verdicts
        /\ {"error", "dry_run_deny", "deny"} \in SUBSET VerdictLabel
        /\ "cpu" \in Resource /\ "memory" \in Resource
    BY ResourceAssumption DEF Verdicts, VerdictLabel
  <2>5. \A v \in Verdicts : AnswersDue(v) = answers[v] /\ answers[v] \in Nat
    <3>1. \A v \in Verdicts : answers[v] \in Nat
      BY DEF Inv, Typed
    <3> QED
      BY <2>3, <3>1 DEF AnswersDue
  <2>6. ASSUME NEW res \in Resource
        PROVE  /\ VerdictsDue(res) = SumFunction(verdicts[res])
               /\ DenialsDue(res) = Logged(<<"deny", res>>)
               /\ \A v \in VerdictLabel :
                    VerdictDue(res, v) = verdicts[res][v] /\ verdicts[res][v] \in Nat
    <3>1. verdicts[res] \in [VerdictLabel -> Nat]
      BY DEF Inv, Typed
    <3>2. SumFunction(verdicts[res]) \in Nat
      BY <2>4, <3>1, SumFunctionGrows, LabelsFinite
    <3>3. Logged(<<"deny", res>>) \in Nat
      BY DEF Logged, Inv, Typed
    <3> QED
      BY <2>2, <3>1, <3>2, <3>3 DEF VerdictsDue, DenialsDue, VerdictDue
  <2>7. DurationsDue = durations /\ ExemptionsDue = SumFunction(exemptions)
    <3>1. exemptions \in [ExemptionReason -> Nat] /\ "namespace" \in ExemptionReason
          /\ durations \in Nat
      BY DEF Inv, Typed, ExemptionReason
    <3>2. SumFunction(exemptions) \in Nat
      BY <3>1, SumFunctionGrows, LabelsFinite
    <3> QED
      BY <2>2, <3>1, <3>2 DEF DurationsDue, ExemptionsDue
  <2>8. durations = Started /\ SumFunction(exemptions) = answers["exempt"]
    BY <2>4, <2>5, <2>7 DEF Inv, Books
  <2>9. ASSUME NEW res \in Resource
        PROVE  /\ SumFunction(verdicts[res]) + answers["exempt"] = Started
               /\ \A v \in {"error", "dry_run_deny"} : verdicts[res][v] = answers[v]
               /\ verdicts[res]["deny"] <= answers["deny"]
               /\ Logged(<<"deny", res>>) = verdicts[res]["deny"]
    BY <2>4, <2>5, <2>6 DEF Inv, Books
  <2>10. answers["deny"] > 0 => \E res \in Resource : verdicts[res]["deny"] > 0
    <3>1. answers["deny"] <= verdicts["cpu"]["deny"] + verdicts["memory"]["deny"]
      BY <2>4, <2>5, <2>6 DEF Inv, Books
    <3>2. /\ answers["deny"] \in Nat
          /\ verdicts["cpu"]["deny"] \in Nat /\ verdicts["memory"]["deny"] \in Nat
      BY <2>4, <2>5, <2>6
    <3> QED
      BY <2>4, <3>1, <3>2
  <2> QED
    BY <2>8, <2>9, <2>10 DEF MetricsTellAnswers
<1> QED
  BY <1>1, InvHolds, PTL
=============================================================================
