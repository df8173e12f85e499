-------------------------- MODULE VerifyRunProofs --------------------------
(***************************************************************************)
(* Theorems about VerifyRun, for any number of replicas and lost calls.    *)
(***************************************************************************)
EXTENDS VerifyRun, TLAPS

-----------------------------------------------------------------------------
(***************************************************************************)
(* The scripts, step by step                                               *)
(***************************************************************************)

LEMMA FirstScripts ==
  /\ Len(Suite) = 12
  /\ Suite[1] = S1 /\ Suite[2] = S2 /\ Suite[3] = S3 /\ Suite[4] = S4
  /\ Suite[5] = S5 /\ Suite[6] = S6 /\ Suite[7] = S7 /\ Suite[8] = S8
  /\ Suite[9] = S9 /\ Suite[10] = D9 /\ Suite[11] = D10 /\ Suite[12] = D11
  BY DEF Suite

LEMMA ScriptOneTwo ==
  /\ Len(S1) = 2
  /\ S1[1] = Create("s1", Small, {"admitted"}) /\ S1[2] = DeleteIfCreated("s1")
  /\ Len(S2) = 2
  /\ S2[1] = Create("s2", Huge, IsDenied403) /\ S2[2] = DeleteIfCreated("s2")
  BY DEF S1, S2

LEMMA ScriptThree ==
  /\ Len(S3) = 6
  /\ S3[1] = Patch([budget |-> 0], TRUE) /\ S3[2] = Await("cpu", 0, TRUE)
  /\ S3[3] = Create("s3", Small, IsDenied403) /\ S3[4] = Delete("s3")
  /\ S3[5] = Patch([budget |-> 80], FALSE) /\ S3[6] = Await("cpu", 80, FALSE)
<1> DEFINE a == Patch([budget |-> 0], TRUE)
           b == Await("cpu", 0, TRUE)
           c == Create("s3", Small, IsDenied403)
           d == Delete("s3")
           e == Patch([budget |-> 80], FALSE)
           f == Await("cpu", 80, FALSE)
<1>1. S3 = <<a, b>> \o <<c, d>> \o <<e, f>>
  BY DEF S3, ApplyBudget, RestoreBudget
<1> HIDE DEF a, b, c, d, e, f
<1>2. Len(S3) = 6 /\ S3[1] = a /\ S3[2] = b /\ S3[3] = c /\ S3[4] = d
      /\ S3[5] = e /\ S3[6] = f
  BY ONLY <1>1
<1> QED
  BY <1>2 DEF a, b, c, d, e, f

LEMMA ScriptFour ==
  /\ Len(S4) = 8
  /\ S4[1] = Patch([budget |-> 100], TRUE) /\ S4[2] = Await("cpu", 100, TRUE)
  /\ S4[3] = Create("s4-over", Huge, IsDenied403) /\ S4[4] = Delete("s4-over")
  /\ S4[5] = Create("s4-ok", Small, {"admitted"}) /\ S4[6] = Delete("s4-ok")
  /\ S4[7] = Patch([budget |-> 80], FALSE) /\ S4[8] = Await("cpu", 80, FALSE)
<1> DEFINE a == Patch([budget |-> 100], TRUE)
           b == Await("cpu", 100, TRUE)
           c == Create("s4-over", Huge, IsDenied403)
           d == Delete("s4-over")
           e == Create("s4-ok", Small, {"admitted"})
           f == Delete("s4-ok")
           g == Patch([budget |-> 80], FALSE)
           h == Await("cpu", 80, FALSE)
<1>1. S4 = <<a, b>> \o <<c, d, e, f>> \o <<g, h>>
  BY DEF S4, ApplyBudget, RestoreBudget
<1> HIDE DEF a, b, c, d, e, f, g, h
<1>2. Len(S4) = 8 /\ S4[1] = a /\ S4[2] = b /\ S4[3] = c /\ S4[4] = d
      /\ S4[5] = e /\ S4[6] = f /\ S4[7] = g /\ S4[8] = h
  BY ONLY <1>1
<1> QED
  BY <1>2 DEF a, b, c, d, e, f, g, h

LEMMA ScriptFive ==
  /\ Len(S5) = 8
  /\ S5[1] = Patch([budget |-> 0], TRUE) /\ S5[2] = Await("cpu", 0, TRUE)
  /\ S5[3] = Create("s5", Small, IsDenied403) /\ S5[4] = Delete("s5")
  /\ S5[5] = Patch([budget |-> 80], TRUE) /\ S5[6] = Await("cpu", 80, TRUE)
  /\ S5[7] = Create("s5", Small, {"admitted"}) /\ S5[8] = Delete("s5")
<1> DEFINE a == Patch([budget |-> 0], TRUE)
           b == Await("cpu", 0, TRUE)
           c == Create("s5", Small, IsDenied403)
           d == Delete("s5")
           e == Patch([budget |-> 80], TRUE)
           f == Await("cpu", 80, TRUE)
           g == Create("s5", Small, {"admitted"})
           h == Delete("s5")
<1>1. S5 = <<a, b>> \o <<c, d>> \o <<e, f>> \o <<g, h>>
  BY DEF S5, ApplyBudget
<1> HIDE DEF a, b, c, d, e, f, g, h
<1>2. Len(S5) = 8 /\ S5[1] = a /\ S5[2] = b /\ S5[3] = c /\ S5[4] = d
      /\ S5[5] = e /\ S5[6] = f /\ S5[7] = g /\ S5[8] = h
  BY ONLY <1>1
<1> QED
  BY <1>2 DEF a, b, c, d, e, f, g, h

LEMMA ScriptSix ==
  /\ Len(S6) = 5
  /\ S6[1] = Patch([mode |-> "dry-run"], TRUE) /\ S6[2] = Insist("s6", Huge)
  /\ S6[3] = Delete("s6") /\ S6[4] = Do("count") /\ S6[5] = Patch([mode |-> "enforce"], TRUE)
  BY DEF S6

LEMMA ScriptNine ==
  /\ Len(S9) = 6
  /\ S9[1] = Patch([cpu |-> 95, memory |-> 30], TRUE) /\ S9[2] = Await("memory", 30, TRUE)
  /\ S9[3] = Create("s9", HugeMemory, {"over-memory"}) /\ S9[4] = Delete("s9")
  /\ S9[5] = Patch([cpu |-> NULL, memory |-> NULL], FALSE)
  /\ S9[6] = Await("memory", 80, FALSE)
<1> DEFINE a == Patch([cpu |-> 95, memory |-> 30], TRUE)
           b == Await("memory", 30, TRUE)
           c == Create("s9", HugeMemory, {"over-memory"})
           d == Delete("s9")
           e == Patch([cpu |-> NULL, memory |-> NULL], FALSE)
           f == Await("memory", 80, FALSE)
<1>1. S9 = <<a, b>> \o <<c, d>> \o <<e, f>>
  BY DEF S9, ApplyPerResource
<1> HIDE DEF a, b, c, d, e, f
<1>2. Len(S9) = 6 /\ S9[1] = a /\ S9[2] = b /\ S9[3] = c /\ S9[4] = d
      /\ S9[5] = e /\ S9[6] = f
  BY ONLY <1>1
<1> QED
  BY <1>2 DEF a, b, c, d, e, f

LEMMA LastScripts ==
  /\ Len(S7) = 1 /\ S7[1] = Do("compare")
  /\ Len(S8) = 1 /\ S8[1] = Do("scrape")
  /\ Len(D9) = 4
  /\ D9[1] = Do("kill") /\ D9[2] = Probe("s9", ExpectUnreachable, 0)
  /\ D9[3] = Delete("s9") /\ D9[4] = Do("restore")
  /\ Len(D10) = 5
  /\ D10[1] = Do("drop-allocation") /\ D10[2] = Do("drop-capacity")
  /\ D10[3] = Probe("s10", ExpectUnavailable, 0) /\ D10[4] = Delete("s10")
  /\ D10[5] = Do("restore")
  /\ Len(D11) = 4
  /\ D11[1] = Do("backdate") /\ D11[2] = Probe("s11", ExpectStale, 1)
  /\ D11[3] = Delete("s11") /\ D11[4] = Do("freshen")
  BY DEF S7, S8, D9, D10, D11

BudgetChange == {[budget |-> p] : p \in Percents}
PairChange   == {[cpu |-> 95, memory |-> 30], [cpu |-> NULL, memory |-> NULL]}
ModeChange   == {[mode |-> m] : m \in {"enforce", "dry-run"}}
Changes      == BudgetChange \cup PairChange \cup ModeChange

\* What the spec is, before step k of scenario n, if all has gone well.
SpecAt(n, k) ==
  IF n \in {3, 5} /\ k \in 2 .. 5 THEN Patched(Seeded, [budget |-> 0])
  ELSE IF n = 4 /\ k \in 2 .. 7 THEN Patched(Seeded, [budget |-> 100])
  ELSE IF n = 6 /\ k \in 2 .. 5 THEN Patched(Seeded, [mode |-> "dry-run"])
  ELSE IF n = 9 /\ k \in 2 .. 5 THEN Patched(Seeded, [cpu |-> 95, memory |-> 30])
  ELSE Seeded

\* What the proofs need to know of the step s that is number k of scenario n, where
\* next is the one after it.
Regular(n, k, s, next) ==
  /\ s.do = "patch" =>
       /\ n <= 9 /\ s.change \in Changes /\ (n <= 5 => s.change \in BudgetChange)
       /\ SpecAt(n, k + 1) = Patched(SpecAt(n, k), s.change)
  /\ s.do # "patch" => SpecAt(n, k + 1) = SpecAt(n, k)
  /\ s.do = "await" => n <= 9 /\ (s.must \/ SpecAt(n, k) = Seeded)
  /\ s.do \in {"create", "insist", "probe"} =>
       /\ s.size \in SUBSET Resource
       /\ next.do = "delete" /\ next.name = s.name
       /\ k < Len(Suite[n])
  /\ s.do = "create" /\ s.want \cap Denial # {} =>
       s.want \subseteq Denial /\ (n <= 5 \/ s.size # {})
  /\ s.do = "insist" => ~next.ifCreated
  /\ s.do = "probe" => s.loop \in {0, 1} /\ k - s.loop >= 1 /\ n >= 10
  /\ s.do = "backdate" => k + 2 <= Len(Suite[n]) /\ n = 12
  /\ s.do \in {"drop-allocation", "drop-capacity"} => n = 11

LEMMA SeededSteps ==
  /\ Seeded \in SpecType
  /\ \A p \in Percents : Patched(Patched(Seeded, [budget |-> p]), [budget |-> 80]) = Seeded
  /\ Patched(Patched(Seeded, [mode |-> "dry-run"]), [mode |-> "enforce"]) = Seeded
  /\ Patched(Patched(Seeded, [cpu |-> 95, memory |-> 30]), [cpu |-> NULL, memory |-> NULL])
       = Seeded
<1>1. Seeded \in SpecType
  BY DEF Seeded, SpecType, Percents
<1>2. ASSUME NEW p \in Percents
      PROVE  Patched(Patched(Seeded, [budget |-> p]), [budget |-> 80]) = Seeded
  BY DEF Seeded, Patched
<1>3. Patched(Patched(Seeded, [mode |-> "dry-run"]), [mode |-> "enforce"]) = Seeded
  BY DEF Seeded, Patched
<1>4. Patched(Patched(Seeded, [cpu |-> 95, memory |-> 30]), [cpu |-> NULL, memory |-> NULL])
        = Seeded
  BY DEF Seeded, Patched
<1> QED
  BY <1>1, <1>2, <1>3, <1>4

LEMMA Lengths ==
  /\ Len(Suite[1]) = 2 /\ Len(Suite[2]) = 2 /\ Len(Suite[3]) = 6 /\ Len(Suite[4]) = 8
  /\ Len(Suite[5]) = 8 /\ Len(Suite[6]) = 5 /\ Len(Suite[7]) = 1 /\ Len(Suite[8]) = 1
  /\ Len(Suite[9]) = 6 /\ Len(Suite[10]) = 4 /\ Len(Suite[11]) = 5 /\ Len(Suite[12]) = 4
<1>1. Len(S1) = 2 /\ Len(S2) = 2
  BY ScriptOneTwo
<1>2. Len(S3) = 6 /\ Len(S4) = 8 /\ Len(S5) = 8
  BY ScriptThree, ScriptFour, ScriptFive
<1>3. Len(S6) = 5 /\ Len(S7) = 1 /\ Len(S8) = 1 /\ Len(S9) = 6
  BY ScriptSix, ScriptNine, LastScripts
<1>4. Len(D9) = 4 /\ Len(D10) = 5 /\ Len(D11) = 4
  BY LastScripts
<1> QED
  BY <1>1, <1>2, <1>3, <1>4, FirstScripts

LEMMA SpecEnds ==
  /\ \A n \in 1 .. 12 : SpecAt(n, 1) = Seeded
  /\ SpecAt(1, 3) = Seeded
  /\ SpecAt(2, 3) = Seeded
  /\ SpecAt(3, 7) = Seeded
  /\ SpecAt(4, 9) = Seeded
  /\ SpecAt(5, 9) = Seeded
  /\ SpecAt(6, 6) = Seeded
  /\ SpecAt(7, 2) = Seeded
  /\ SpecAt(8, 2) = Seeded
  /\ SpecAt(9, 7) = Seeded
  /\ SpecAt(10, 5) = Seeded
  /\ SpecAt(11, 6) = Seeded
  /\ SpecAt(12, 5) = Seeded
  BY DEF SpecAt

\* Steps of each kind are regular.
LEMMA RegularPatch ==
  ASSUME NEW n \in 1 .. 9, NEW k \in 1 .. 8, NEW s, NEW next, s.do = "patch",
         NEW change \in Changes, s.change = change, n <= 5 => change \in BudgetChange,
         SpecAt(n, k + 1) = Patched(SpecAt(n, k), change)
  PROVE  Regular(n, k, s, next)
  BY DEF Regular

LEMMA RegularCreate ==
  ASSUME NEW n \in 1 .. 9, NEW k \in 1 .. 8, NEW name, NEW size \in SUBSET Resource,
         NEW want, NEW next,
         SpecAt(n, k + 1) = SpecAt(n, k), k < Len(Suite[n]),
         next \in {Delete(name), DeleteIfCreated(name)},
         \/ want = {"admitted"}
         \/ want \subseteq Denial /\ (n <= 5 \/ size # {})
  PROVE  Regular(n, k, Create(name, size, want), next)
<1> DEFINE s == Create(name, size, want)
<1>1. s.do = "create" /\ s.name = name /\ s.size = size /\ s.want = want
  BY DEF Create
<1>2. next.do = "delete" /\ next.name = name
  BY DEF Delete, DeleteIfCreated
<1>3. want \cap Denial # {} => want \subseteq Denial /\ (n <= 5 \/ size # {})
  BY DEF Denial
<1> HIDE DEF s
<1> QED
  BY <1>1, <1>2, <1>3 DEF Regular, s

LEMMA RegularInsist ==
  ASSUME NEW n, NEW k, NEW name, NEW size \in SUBSET Resource,
         SpecAt(n, k + 1) = SpecAt(n, k), k < Len(Suite[n])
  PROVE  Regular(n, k, Insist(name, size), Delete(name))
  BY DEF Regular, Insist, Delete

LEMMA RegularProbe ==
  ASSUME NEW n \in 10 .. 12, NEW k \in 1 .. 8, NEW name, NEW want, NEW loop \in {0, 1},
         SpecAt(n, k + 1) = SpecAt(n, k), k < Len(Suite[n]), k - loop >= 1
  PROVE  Regular(n, k, Probe(name, want, loop), Delete(name))
  BY DEF Regular, Probe, Delete, Small

LEMMA ScriptsRegular ==
  ASSUME NEW n \in 1 .. 12
  PROVE  /\ Len(Suite[n]) \in 1 .. 8
         /\ SpecAt(n, 1) = Seeded /\ SpecAt(n, Len(Suite[n]) + 1) = Seeded
         /\ \A k \in 1 .. Len(Suite[n]) : Regular(n, k, Suite[n][k], Suite[n][k + 1])
<1>0. /\ {[budget |-> 0], [budget |-> 80], [budget |-> 100]} \subseteq BudgetChange
      /\ BudgetChange \subseteq Changes
      /\ {[cpu |-> 95, memory |-> 30], [cpu |-> NULL, memory |-> NULL],
          [mode |-> "enforce"], [mode |-> "dry-run"]} \subseteq Changes
  BY DEF BudgetChange, Changes, PairChange, ModeChange, Percents
<1>1. CASE n = 1
  <2>1. Regular(1, 1, S1[1], S1[2])
    <3>1. SpecAt(1, 2) = SpecAt(1, 1)
      BY DEF SpecAt
    <3>2. 1 < Len(Suite[1])
      BY Lengths
    <3> QED
      BY <3>1, <3>2, ScriptOneTwo, RegularCreate
      DEF Small, Huge, HugeMemory, Resource, IsDenied403, Denial
  <2>2. Regular(1, 2, S1[2], S1[3])
    BY ScriptOneTwo DEF Regular, SpecAt, DeleteIfCreated
  <2> QED
    BY <1>1, <2>1, <2>2, FirstScripts, Lengths, SpecEnds
<1>2. CASE n = 2
  <2>1. Regular(2, 1, S2[1], S2[2])
    <3>1. SpecAt(2, 2) = SpecAt(2, 1)
      BY DEF SpecAt
    <3>2. 1 < Len(Suite[2])
      BY Lengths
    <3> QED
      BY <3>1, <3>2, ScriptOneTwo, RegularCreate
      DEF Small, Huge, HugeMemory, Resource, IsDenied403, Denial
  <2>2. Regular(2, 2, S2[2], S2[3])
    BY ScriptOneTwo DEF Regular, SpecAt, DeleteIfCreated
  <2> QED
    BY <1>2, <2>1, <2>2, FirstScripts, Lengths, SpecEnds
<1>3. CASE n = 3
  <2>1. Regular(3, 1, S3[1], S3[2])
    <3>1. SpecAt(3, 2) = Patched(SpecAt(3, 1), [budget |-> 0])
      BY SeededSteps DEF SpecAt, Percents
    <3>2. S3[1].do = "patch" /\ S3[1].change = [budget |-> 0]
      BY ScriptThree DEF Patch
    <3> QED
      BY <1>0, <3>1, <3>2, RegularPatch
  <2>2. Regular(3, 2, S3[2], S3[3])
    BY ScriptThree DEF Regular, SpecAt, Await
  <2>3. Regular(3, 3, S3[3], S3[4])
    <3>1. SpecAt(3, 4) = SpecAt(3, 3)
      BY DEF SpecAt
    <3>2. 3 < Len(Suite[3])
      BY Lengths
    <3> QED
      BY <3>1, <3>2, ScriptThree, RegularCreate
      DEF Small, Huge, HugeMemory, Resource, IsDenied403, Denial
  <2>4. Regular(3, 4, S3[4], S3[5])
    BY ScriptThree DEF Regular, SpecAt, Delete
  <2>5. Regular(3, 5, S3[5], S3[6])
    <3>1. SpecAt(3, 6) = Patched(SpecAt(3, 5), [budget |-> 80])
      BY SeededSteps DEF SpecAt, Percents
    <3>2. S3[5].do = "patch" /\ S3[5].change = [budget |-> 80]
      BY ScriptThree DEF Patch
    <3> QED
      BY <1>0, <3>1, <3>2, RegularPatch
  <2>6. Regular(3, 6, S3[6], S3[7])
    BY ScriptThree DEF Regular, SpecAt, Await
  <2> QED
    BY <1>3, <2>1, <2>2, <2>3, <2>4, <2>5, <2>6, FirstScripts, Lengths, SpecEnds
<1>4. CASE n = 4
  <2>1. Regular(4, 1, S4[1], S4[2])
    <3>1. SpecAt(4, 2) = Patched(SpecAt(4, 1), [budget |-> 100])
      BY SeededSteps DEF SpecAt, Percents
    <3>2. S4[1].do = "patch" /\ S4[1].change = [budget |-> 100]
      BY ScriptFour DEF Patch
    <3> QED
      BY <1>0, <3>1, <3>2, RegularPatch
  <2>2. Regular(4, 2, S4[2], S4[3])
    BY ScriptFour DEF Regular, SpecAt, Await
  <2>3. Regular(4, 3, S4[3], S4[4])
    <3>1. SpecAt(4, 4) = SpecAt(4, 3)
      BY DEF SpecAt
    <3>2. 3 < Len(Suite[4])
      BY Lengths
    <3> QED
      BY <3>1, <3>2, ScriptFour, RegularCreate
      DEF Small, Huge, HugeMemory, Resource, IsDenied403, Denial
  <2>4. Regular(4, 4, S4[4], S4[5])
    BY ScriptFour DEF Regular, SpecAt, Delete
  <2>5. Regular(4, 5, S4[5], S4[6])
    <3>1. SpecAt(4, 6) = SpecAt(4, 5)
      BY DEF SpecAt
    <3>2. 5 < Len(Suite[4])
      BY Lengths
    <3> QED
      BY <3>1, <3>2, ScriptFour, RegularCreate
      DEF Small, Huge, HugeMemory, Resource, IsDenied403, Denial
  <2>6. Regular(4, 6, S4[6], S4[7])
    BY ScriptFour DEF Regular, SpecAt, Delete
  <2>7. Regular(4, 7, S4[7], S4[8])
    <3>1. SpecAt(4, 8) = Patched(SpecAt(4, 7), [budget |-> 80])
      BY SeededSteps DEF SpecAt, Percents
    <3>2. S4[7].do = "patch" /\ S4[7].change = [budget |-> 80]
      BY ScriptFour DEF Patch
    <3> QED
      BY <1>0, <3>1, <3>2, RegularPatch
  <2>8. Regular(4, 8, S4[8], S4[9])
    BY ScriptFour DEF Regular, SpecAt, Await
  <2> QED
    BY <1>4, <2>1, <2>2, <2>3, <2>4, <2>5, <2>6, <2>7, <2>8, FirstScripts, Lengths, SpecEnds
<1>5. CASE n = 5
  <2>1. Regular(5, 1, S5[1], S5[2])
    <3>1. SpecAt(5, 2) = Patched(SpecAt(5, 1), [budget |-> 0])
      BY SeededSteps DEF SpecAt, Percents
    <3>2. S5[1].do = "patch" /\ S5[1].change = [budget |-> 0]
      BY ScriptFive DEF Patch
    <3> QED
      BY <1>0, <3>1, <3>2, RegularPatch
  <2>2. Regular(5, 2, S5[2], S5[3])
    BY ScriptFive DEF Regular, SpecAt, Await
  <2>3. Regular(5, 3, S5[3], S5[4])
    <3>1. SpecAt(5, 4) = SpecAt(5, 3)
      BY DEF SpecAt
    <3>2. 3 < Len(Suite[5])
      BY Lengths
    <3> QED
      BY <3>1, <3>2, ScriptFive, RegularCreate
      DEF Small, Huge, HugeMemory, Resource, IsDenied403, Denial
  <2>4. Regular(5, 4, S5[4], S5[5])
    BY ScriptFive DEF Regular, SpecAt, Delete
  <2>5. Regular(5, 5, S5[5], S5[6])
    <3>1. SpecAt(5, 6) = Patched(SpecAt(5, 5), [budget |-> 80])
      BY SeededSteps DEF SpecAt, Percents
    <3>2. S5[5].do = "patch" /\ S5[5].change = [budget |-> 80]
      BY ScriptFive DEF Patch
    <3> QED
      BY <1>0, <3>1, <3>2, RegularPatch
  <2>6. Regular(5, 6, S5[6], S5[7])
    BY ScriptFive DEF Regular, SpecAt, Await
  <2>7. Regular(5, 7, S5[7], S5[8])
    <3>1. SpecAt(5, 8) = SpecAt(5, 7)
      BY DEF SpecAt
    <3>2. 7 < Len(Suite[5])
      BY Lengths
    <3> QED
      BY <3>1, <3>2, ScriptFive, RegularCreate
      DEF Small, Huge, HugeMemory, Resource, IsDenied403, Denial
  <2>8. Regular(5, 8, S5[8], S5[9])
    BY ScriptFive DEF Regular, SpecAt, Delete
  <2> QED
    BY <1>5, <2>1, <2>2, <2>3, <2>4, <2>5, <2>6, <2>7, <2>8, FirstScripts, Lengths, SpecEnds
<1>6. CASE n = 6
  <2>1. Regular(6, 1, S6[1], S6[2])
    <3>1. SpecAt(6, 2) = Patched(SpecAt(6, 1), [mode |-> "dry-run"])
      BY SeededSteps DEF SpecAt, Percents
    <3>2. S6[1].do = "patch" /\ S6[1].change = [mode |-> "dry-run"]
      BY ScriptSix DEF Patch
    <3> QED
      BY <1>0, <3>1, <3>2, RegularPatch
  <2>2. Regular(6, 2, S6[2], S6[3])
    <3>1. SpecAt(6, 3) = SpecAt(6, 2)
      BY DEF SpecAt
    <3>2. 2 < Len(Suite[6])
      BY Lengths
    <3> QED
      BY <3>1, <3>2, ScriptSix, RegularInsist DEF Huge
  <2>3. Regular(6, 3, S6[3], S6[4])
    BY ScriptSix DEF Regular, SpecAt, Delete
  <2>4. Regular(6, 4, S6[4], S6[5])
    BY ScriptSix DEF Regular, SpecAt, Do
  <2>5. Regular(6, 5, S6[5], S6[6])
    <3>1. SpecAt(6, 6) = Patched(SpecAt(6, 5), [mode |-> "enforce"])
      BY SeededSteps DEF SpecAt, Percents
    <3>2. S6[5].do = "patch" /\ S6[5].change = [mode |-> "enforce"]
      BY ScriptSix DEF Patch
    <3> QED
      BY <1>0, <3>1, <3>2, RegularPatch
  <2> QED
    BY <1>6, <2>1, <2>2, <2>3, <2>4, <2>5, FirstScripts, Lengths, SpecEnds
<1>7. CASE n = 7
  <2>1. Regular(7, 1, S7[1], S7[2])
    BY LastScripts DEF Regular, SpecAt, Do
  <2> QED
    BY <1>7, <2>1, FirstScripts, Lengths, SpecEnds
<1>8. CASE n = 8
  <2>1. Regular(8, 1, S8[1], S8[2])
    BY LastScripts DEF Regular, SpecAt, Do
  <2> QED
    BY <1>8, <2>1, FirstScripts, Lengths, SpecEnds
<1>9. CASE n = 9
  <2>1. Regular(9, 1, S9[1], S9[2])
    <3>1. SpecAt(9, 2) = Patched(SpecAt(9, 1), [cpu |-> 95, memory |-> 30])
      BY SeededSteps DEF SpecAt, Percents
    <3>2. S9[1].do = "patch" /\ S9[1].change = [cpu |-> 95, memory |-> 30]
      BY ScriptNine DEF Patch
    <3> QED
      BY <1>0, <3>1, <3>2, RegularPatch
  <2>2. Regular(9, 2, S9[2], S9[3])
    BY ScriptNine DEF Regular, SpecAt, Await
  <2>3. Regular(9, 3, S9[3], S9[4])
    <3>1. SpecAt(9, 4) = SpecAt(9, 3)
      BY DEF SpecAt
    <3>2. 3 < Len(Suite[9])
      BY Lengths
    <3>3. /\ HugeMemory \in SUBSET Resource /\ HugeMemory # {}
          /\ {"over-memory"} \subseteq Denial
      BY DEF HugeMemory, Resource, Denial
    <3>4. S9[3] = Create("s9", HugeMemory, {"over-memory"}) /\ S9[4] = Delete("s9")
      BY ScriptNine
    <3> QED
      BY <3>1, <3>2, <3>3, <3>4, RegularCreate
  <2>4. Regular(9, 4, S9[4], S9[5])
    BY ScriptNine DEF Regular, SpecAt, Delete
  <2>5. Regular(9, 5, S9[5], S9[6])
    <3>1. SpecAt(9, 6) = Patched(SpecAt(9, 5), [cpu |-> NULL, memory |-> NULL])
      BY SeededSteps DEF SpecAt, Percents
    <3>2. S9[5].do = "patch" /\ S9[5].change = [cpu |-> NULL, memory |-> NULL]
      BY ScriptNine DEF Patch
    <3> QED
      BY <1>0, <3>1, <3>2, RegularPatch
  <2>6. Regular(9, 6, S9[6], S9[7])
    BY ScriptNine DEF Regular, SpecAt, Await
  <2> QED
    BY <1>9, <2>1, <2>2, <2>3, <2>4, <2>5, <2>6, FirstScripts, Lengths, SpecEnds
<1>10. CASE n = 10
  <2>1. Regular(10, 1, D9[1], D9[2])
    BY LastScripts DEF Regular, SpecAt, Do
  <2>2. Regular(10, 2, D9[2], D9[3])
    <3>1. SpecAt(10, 3) = SpecAt(10, 2)
      BY DEF SpecAt
    <3>2. 2 < Len(Suite[10])
      BY Lengths
    <3> QED
      BY <3>1, <3>2, LastScripts, RegularProbe
  <2>3. Regular(10, 3, D9[3], D9[4])
    BY LastScripts DEF Regular, SpecAt, Delete
  <2>4. Regular(10, 4, D9[4], D9[5])
    BY LastScripts DEF Regular, SpecAt, Do
  <2> QED
    BY <1>10, <2>1, <2>2, <2>3, <2>4, FirstScripts, Lengths, SpecEnds
<1>11. CASE n = 11
  <2>1. Regular(11, 1, D10[1], D10[2])
    BY LastScripts DEF Regular, SpecAt, Do
  <2>2. Regular(11, 2, D10[2], D10[3])
    BY LastScripts DEF Regular, SpecAt, Do
  <2>3. Regular(11, 3, D10[3], D10[4])
    <3>1. SpecAt(11, 4) = SpecAt(11, 3)
      BY DEF SpecAt
    <3>2. 3 < Len(Suite[11])
      BY Lengths
    <3> QED
      BY <3>1, <3>2, LastScripts, RegularProbe
  <2>4. Regular(11, 4, D10[4], D10[5])
    BY LastScripts DEF Regular, SpecAt, Delete
  <2>5. Regular(11, 5, D10[5], D10[6])
    BY LastScripts DEF Regular, SpecAt, Do
  <2> QED
    BY <1>11, <2>1, <2>2, <2>3, <2>4, <2>5, FirstScripts, Lengths, SpecEnds
<1>12. CASE n = 12
  <2>1. Regular(12, 1, D11[1], D11[2])
    BY LastScripts, Lengths DEF Regular, SpecAt, Do
  <2>2. Regular(12, 2, D11[2], D11[3])
    <3>1. SpecAt(12, 3) = SpecAt(12, 2)
      BY DEF SpecAt
    <3>2. 2 < Len(Suite[12])
      BY Lengths
    <3> QED
      BY <3>1, <3>2, LastScripts, RegularProbe
  <2>3. Regular(12, 3, D11[3], D11[4])
    BY LastScripts DEF Regular, SpecAt, Delete
  <2>4. Regular(12, 4, D11[4], D11[5])
    BY LastScripts DEF Regular, SpecAt, Do
  <2> QED
    BY <1>12, <2>1, <2>2, <2>3, <2>4, FirstScripts, Lengths, SpecEnds
<1> QED
  BY <1>1, <1>2, <1>3, <1>4, <1>5, <1>6, <1>7, <1>8, <1>9, <1>10, <1>11, <1>12

-----------------------------------------------------------------------------
(***************************************************************************)
(* Types                                                                   *)
(***************************************************************************)

AtType == [phase : Phases, n : 0 .. Len(Suite), step : 0 .. 9]

RunTyped ==
  /\ at \in AtType
  /\ kept \in BOOLEAN /\ failed \in BOOLEAN
  /\ kept => at.phase = "done"
  /\ verdict \in {"pass", "fail", "abort"}
  /\ last \in Answer \cup {NULL}
  /\ errors \subseteq {Teardown[i] : i \in DOMAIN Teardown}
  /\ code \in 0 .. 4 \cup {NULL}
  /\ faults \in 0 .. MaxFaults

ClusterTyped ==
  /\ capacity \in BOOLEAN
  /\ objects \subseteq Installed /\ deleting \subseteq objects \cap Finalized
  /\ allocation \in AllocationType
  /\ replica \in [Replica -> {"down", "up", "dying"}]
  /\ seen \in [Replica -> View \cup {NULL}]
  /\ counted \subseteq Replica
  /\ pods \in [PodName -> [large : SUBSET Resource, leaving : BOOLEAN] \cup {NULL}]

\* The counters of at lie where its phase has something to do.
Placed ==
  /\ at.phase \in {"setup", "teardown", "gone"} => at.n \in 1 .. 12
  /\ at.phase = "scenario" => at.n \in 1 .. 12 /\ at.step \in 1 .. Len(Suite[at.n]) + 1

TInv == RunTyped /\ Placed /\ ClusterTyped

LEMMA TInvTypeOK == TInv => TypeOK
  BY DEF TInv, RunTyped, ClusterTyped, TypeOK, AtType

LEMMA InitTInv == Init => TInv
<1> SUFFICES ASSUME Init PROVE TInv
  OBVIOUS
<1>1. RunTyped
  <2>1. Len(Suite) = 12
    BY FirstScripts
  <2>2. at \in AtType
    BY <2>1 DEF Init, AtType, Phases
  <2>3. /\ verdict = "pass" /\ last = NULL /\ code = NULL /\ errors = {}
        /\ kept = FALSE /\ failed = FALSE /\ faults = 0
    BY DEF Init
  <2>4. verdict \in {"pass", "fail", "abort"}
    BY <2>3
  <2>5. code \in 0 .. 4 \cup {NULL} /\ last \in Answer \cup {NULL} /\ faults \in 0 .. MaxFaults
    BY <2>3, FaultsAssumption
  <2>6. errors \subseteq {Teardown[i] : i \in DOMAIN Teardown}
    BY <2>3
  <2> QED
    BY <2>2, <2>3, <2>4, <2>5, <2>6 DEF RunTyped
<1>2. Placed
  BY DEF Init, Placed
<1>3. ClusterTyped
  BY DEF Init, ClusterTyped, AllocationType
<1> QED
  BY <1>1, <1>2, <1>3 DEF TInv

\* Where a step of the scenario under way leads to.
LEMMA StepMoves ==
  ASSUME TInv, at.phase = "scenario", NEW k \in 1 .. Len(Script) + 1,
         at' = [at EXCEPT !.step = k]
  PROVE  /\ at' \in AtType /\ Placed'
         /\ at'.phase = "scenario" /\ at'.n = at.n /\ at'.step = k
<1>1. at \in AtType /\ at.n \in 1 .. 12
  BY DEF TInv, RunTyped, Placed
<1>2. at'.phase = "scenario" /\ at'.n = at.n /\ at'.step = k
  BY <1>1 DEF AtType
<1>3. Len(Suite[at.n]) \in 1 .. 8
  BY <1>1, ScriptsRegular
<1>4. at' \in AtType
  <2>1. Len(Script) \in 1 .. 8
    BY <1>3 DEF Script
  <2>2. k \in 0 .. 9
    <3>1. PICK l \in 1 .. 8 : l = Len(Script)
      BY <2>1
    <3>2. k \in 1 .. l + 1
      BY <3>1
    <3> QED
      BY ONLY <3>2, l \in 1 .. 8
  <2> QED
    BY <1>1, <2>2 DEF AtType
<1>5. Placed'
  BY <1>1, <1>2 DEF Placed, Script
<1> QED
  BY <1>2, <1>4, <1>5

LEMMA PhaseMoves ==
  ASSUME NEW phase \in Phases, NEW n \in 0 .. 12, GoTo(phase, n),
         phase \in {"setup", "scenario", "teardown", "gone"} => n >= 1
  PROVE  /\ at' \in AtType /\ Placed'
         /\ at'.phase = phase /\ at'.n = n /\ (phase = "scenario" => at'.step = 1)
<1>1. at'.phase = phase /\ at'.n = n /\ (phase = "scenario" => at'.step = 1)
  BY DEF GoTo
<1>2. at' \in AtType
  <2>1. Len(Suite) = 12
    BY FirstScripts
  <2> QED
    BY <2>1 DEF GoTo, AtType
<1>3. phase = "scenario" => n \in 1 .. 12 /\ Len(Suite[n]) \in 1 .. 8
  <2>1. phase = "scenario" => n \in 1 .. 12
    OBVIOUS
  <2> QED
    BY <2>1, ScriptsRegular
<1>4. Placed'
  BY <1>1, <1>3 DEF Placed
<1> QED
  BY <1>1, <1>2, <1>4

LEMMA DoingRegular ==
  ASSUME TInv, NEW what, Doing(what)
  PROVE  /\ at.phase = "scenario" /\ at.n \in 1 .. 12
         /\ Len(Script) \in 1 .. 8 /\ Script = Suite[at.n]
         /\ at.step \in 1 .. Len(Script) /\ at.step + 1 \in 1 .. Len(Script) + 1
         /\ Step.do = what
         /\ Regular(at.n, at.step, Step, Suite[at.n][at.step + 1])
<1>1. at.phase = "scenario" /\ at.step <= Len(Script) /\ Step.do = what
  BY DEF Doing
<1>2. at.n \in 1 .. 12 /\ at.step \in 1 .. Len(Script) + 1
  BY <1>1 DEF TInv, Placed, Script
<1>3. Len(Script) \in 1 .. 8
  BY <1>2, ScriptsRegular DEF Script
<1>4. at.step \in 1 .. Len(Script) /\ at.step + 1 \in 1 .. Len(Script) + 1
  BY <1>1, <1>2, <1>3
<1>5. Regular(at.n, at.step, Step, Suite[at.n][at.step + 1])
  BY <1>2, <1>4, ScriptsRegular DEF Script, Step
<1> QED
  BY <1>1, <1>2, <1>3, <1>4, <1>5 DEF Script

LEMMA FaultTyped == ASSUME TInv, Fault PROVE faults' \in 0 .. MaxFaults /\ faults' # 0
  BY FaultsAssumption DEF TInv, RunTyped, Fault

\* What a call may do to the cluster.
LEMMA ForgetTyped == ASSUME TInv, NEW object, Forget(object) PROVE ClusterTyped'
  BY DEF TInv, ClusterTyped, Forget, Finalized, Namespaced, AllocationType

LEMMA InstalledAre ==
  /\ Len(Teardown) = 12 /\ DOMAIN Teardown = 1 .. 12
  /\ {Setup[i] : i \in 1 .. 12} \subseteq Installed
  /\ \A i \in 1 .. 12 :
       Teardown[i] \notin {"Allocation", "ClusterCapacity"} => Teardown[i] \in Installed
<1>1. Len(Teardown) = 12 /\ DOMAIN Teardown = 1 .. 12
  BY DEF Teardown
<1>2. /\ Teardown[1] = "WebhookConfiguration" /\ Teardown[2] = "Deployment"
      /\ Teardown[3] = "Service" /\ Teardown[4] = "Secret"
      /\ Teardown[5] = "ClusterRoleBinding" /\ Teardown[6] = "ClusterRole"
      /\ Teardown[7] = "ServiceAccount" /\ Teardown[10] = "AllocationCRD"
      /\ Teardown[11] = "CapacityCRD" /\ Teardown[12] = "Namespace"
  BY DEF Teardown
<1>3. \A i \in 1 .. 12 : Setup[i] \in
        {"WebhookConfiguration", "Deployment", "Service", "Secret", "ClusterRoleBinding",
         "ClusterRole", "ServiceAccount", "AllocationCRD", "CapacityCRD", "Namespace"}
  BY DEF Setup
<1> QED
  BY <1>1, <1>2, <1>3 DEF Installed

LEMMA RemoveTyped ==
  ASSUME TInv, NEW i \in 1 .. 12, Exists(Teardown[i]), Remove(Teardown[i])
  PROVE  ClusterTyped'
<1>1. CASE Teardown[i] \in Finalized
  <2>1. Teardown[i] \in objects
    BY <1>1 DEF Exists, Finalized
  <2> QED
    BY <1>1, <2>1 DEF Remove, TInv, ClusterTyped
<1>2. CASE Teardown[i] \notin Finalized
  BY <1>2, ForgetTyped DEF Remove
<1> QED
  BY <1>1, <1>2

LEMMA SubmitTyped ==
  ASSUME TInv, NEW name, NEW size \in SUBSET Resource, NEW answer, Submit(name, size, answer)
  PROVE  ClusterTyped' /\ faults' \in 0 .. MaxFaults
<1> DEFINE pod == [large |-> size, leaving |-> FALSE]
<1>1. pods' = pods \/ pods' = [pods EXCEPT ![name] = pod]
  BY DEF Submit
<1>2. counted' = counted \/ \E r \in Endpoint : counted' = counted \cup {r}
  BY DEF Submit
<1>3. faults' \in 0 .. MaxFaults
  BY FaultTyped DEF Submit, TInv, RunTyped
<1>4. pod \in [large : SUBSET Resource, leaving : BOOLEAN]
  OBVIOUS
<1> HIDE DEF pod
<1>5. UNCHANGED <<objects, deleting, allocation, capacity, replica, seen>>
  BY DEF Submit
<1>6. counted' \subseteq Replica
  BY <1>2 DEF TInv, ClusterTyped, Endpoint
<1>7. pods' \in [PodName -> [large : SUBSET Resource, leaving : BOOLEAN] \cup {NULL}]
  BY <1>1, <1>4 DEF TInv, ClusterTyped
<1> QED
  BY <1>3, <1>5, <1>6, <1>7 DEF TInv, ClusterTyped

LEMMA DeletePodTyped == ASSUME TInv, NEW name, DeletePodCall(name) PROVE ClusterTyped'
<1> DEFINE Pods == [PodName -> [large : SUBSET Resource, leaving : BOOLEAN] \cup {NULL}]
<1>1. CASE pods' = [pods EXCEPT ![name] = NULL]
  BY <1>1 DEF TInv, ClusterTyped, DeletePodCall
<1>2. CASE pods' = [pods EXCEPT ![name] = IF @ = NULL THEN NULL ELSE [@ EXCEPT !.leaving = TRUE]]
  <2>1. pods' \in Pods
    BY <1>2 DEF TInv, ClusterTyped
  <2> QED
    BY <2>1 DEF TInv, ClusterTyped, DeletePodCall
<1> QED
  BY <1>1, <1>2 DEF DeletePodCall

LEMMA PatchTyped ==
  ASSUME NEW spec \in SpecType, NEW change \in Changes
  PROVE  /\ Patched(spec, change) \in SpecType
         /\ change \in BudgetChange => Patched(spec, change).mode = spec.mode
<1>1. CASE change \in BudgetChange
  <2>1. PICK p \in Percents : change = [budget |-> p]
    BY <1>1 DEF BudgetChange
  <2>2. /\ DOMAIN spec = {"budget", "cpu", "memory", "mode"} /\ DOMAIN change = {"budget"}
        /\ spec.cpu \in Percents \cup {NULL} /\ spec.memory \in Percents \cup {NULL}
        /\ spec.mode \in {"enforce", "dry-run"}
    BY <2>1 DEF SpecType
  <2>3. Patched(spec, change)
          = [budget |-> p, cpu |-> spec.cpu, memory |-> spec.memory, mode |-> spec.mode]
    BY <2>1, <2>2 DEF Patched
  <2> QED
    BY <2>2, <2>3 DEF SpecType
<1>2. CASE change \in PairChange
  <2>1. PICK c \in Percents \cup {NULL}, m \in Percents \cup {NULL} :
          change = [cpu |-> c, memory |-> m]
    BY <1>2 DEF PairChange, Percents
  <2>2. /\ DOMAIN spec = {"budget", "cpu", "memory", "mode"} /\ DOMAIN change = {"cpu", "memory"}
        /\ spec.budget \in Percents /\ spec.mode \in {"enforce", "dry-run"}
    BY <2>1 DEF SpecType
  <2>3. Patched(spec, change) =
          [budget |-> spec.budget, cpu |-> c, memory |-> m, mode |-> spec.mode]
    BY <2>1, <2>2 DEF Patched
  <2> QED
    BY <2>2, <2>3 DEF SpecType
<1>3. CASE change \in ModeChange
  <2>1. PICK m \in {"enforce", "dry-run"} : change = [mode |-> m]
    BY <1>3 DEF ModeChange
  <2>2. /\ DOMAIN spec = {"budget", "cpu", "memory", "mode"} /\ DOMAIN change = {"mode"}
        /\ spec.cpu \in Percents \cup {NULL} /\ spec.memory \in Percents \cup {NULL}
        /\ spec.budget \in Percents
    BY <2>1 DEF SpecType
  <2>3. Patched(spec, change)
          = [budget |-> spec.budget, cpu |-> spec.cpu, memory |-> spec.memory, mode |-> m]
    BY <2>1, <2>2 DEF Patched
  <2>4. change \notin BudgetChange
    BY <2>2 DEF BudgetChange
  <2> QED
    BY <2>2, <2>3, <2>4 DEF SpecType
<1> QED
  BY <1>1, <1>2, <1>3 DEF Changes

\* A step of the scenario under way, as far as the run is concerned.
Leads(what, v) ==
  \/ StepOn(v) \/ GiveUp(v) \/ UNCHANGED <<at, verdict>>
  \/ what \in {"insist", "backdate"} /\ StepBy(2, v)
  \/ what = "probe" /\ StepBy(-Step.loop, v)

ScenarioStep(what) ==
  /\ Doing(what)
  /\ UNCHANGED <<kept, failed, errors, code>>
  /\ last' \in Answer \cup {NULL}
  /\ faults' \in 0 .. MaxFaults
  /\ \E v \in {verdict, "fail", "abort"} : Leads(what, v)

LEMMA ScenarioMoves ==
  ASSUME TInv, NEW what, ScenarioStep(what)
  PROVE  /\ RunTyped' /\ Placed'
         /\ at'.phase = "scenario" /\ at'.n = at.n
         /\ verdict' \in {verdict, "fail", "abort"}
<1>1. /\ at.phase = "scenario" /\ at.n \in 1 .. 12 /\ Step.do = what
      /\ Len(Script) \in 1 .. 8 /\ Script = Suite[at.n]
      /\ at.step \in 1 .. Len(Script) /\ at.step + 1 \in 1 .. Len(Script) + 1
      /\ Regular(at.n, at.step, Step, Suite[at.n][at.step + 1])
  BY DoingRegular DEF ScenarioStep
<1>2. PICK v \in {verdict, "fail", "abort"} : Leads(what, v)
  BY DEF ScenarioStep
<1>3. \/ UNCHANGED <<at, verdict>>
      \/ verdict' = v /\ \E k \in 1 .. Len(Script) + 1 : at' = [at EXCEPT !.step = k]
  <2>0. PICK l \in 1 .. 8 : l = Len(Script)
    BY <1>1
  <2>1. CASE StepOn(v) \/ GiveUp(v)
    <3>1. l + 1 \in 1 .. l + 1
      OBVIOUS
    <3> QED
      BY <1>1, <2>0, <2>1, <3>1 DEF StepOn, StepBy, GiveUp
  <2>2. CASE what \in {"insist", "backdate"} /\ StepBy(2, v)
    <3>1. at.step < l
      BY <1>1, <2>0, <2>2 DEF Regular
    <3>2. at.step \in Int /\ at.step + 2 \in 1 .. l + 1
      BY <1>1, <2>0, <3>1
    <3> QED
      BY <2>0, <2>2, <3>2 DEF StepBy
  <2>3. CASE what = "probe" /\ StepBy(-Step.loop, v)
    <3>1. Step.loop \in {0, 1} /\ at.step - Step.loop >= 1
      BY <1>1, <2>3 DEF Regular
    <3> QED
      BY <1>1, <2>3, <3>1 DEF StepBy
  <2> QED
    BY <1>2, <2>1, <2>2, <2>3 DEF Leads
<1>4. /\ at' \in AtType /\ Placed' /\ at'.phase = "scenario" /\ at'.n = at.n
      /\ verdict' \in {verdict, "fail", "abort"}
  <2>1. CASE UNCHANGED <<at, verdict>>
    BY <1>1, <2>1 DEF TInv, RunTyped, Placed
  <2>2. ASSUME NEW k \in 1 .. Len(Script) + 1, at' = [at EXCEPT !.step = k], verdict' = v
        PROVE  /\ at' \in AtType /\ Placed' /\ at'.phase = "scenario" /\ at'.n = at.n
               /\ verdict' \in {verdict, "fail", "abort"}
    BY <1>1, <2>2, StepMoves
  <2> QED
    BY <1>3, <2>1, <2>2
<1>5. RunTyped'
  <2>1. verdict' \in {"pass", "fail", "abort"}
    BY <1>4 DEF TInv, RunTyped
  <2>2. kept = FALSE /\ kept' = FALSE
    BY <1>1 DEF ScenarioStep, TInv, RunTyped
  <2>3. errors' = errors /\ failed' = failed /\ code' = code
    BY DEF ScenarioStep
  <2>4. last' \in Answer \cup {NULL} /\ faults' \in 0 .. MaxFaults
    BY DEF ScenarioStep
  <2> QED
    BY <1>4, <2>1, <2>2, <2>3, <2>4 DEF TInv, RunTyped
<1> QED
  BY <1>4, <1>5

LEMMA ClusterStays == ASSUME TInv, UNCHANGED cluster PROVE ClusterTyped'
  BY DEF TInv, ClusterTyped, cluster

LEMMA FaultsStay == TInv => faults \in 0 .. MaxFaults /\ last \in Answer \cup {NULL}
  BY DEF TInv, RunTyped

LEMMA PatchStep == ASSUME TInv, PatchSpec PROVE ScenarioStep("patch") /\ ClusterTyped'
<1>1. Doing("patch") /\ UNCHANGED <<kept, last, failed, errors, code>>
  BY DEF PatchSpec
<1>2. /\ faults' \in 0 .. MaxFaults
      /\ \E v \in {verdict, "fail", "abort"} : Leads("patch", v)
  BY FaultTyped, FaultsStay DEF PatchSpec, Call, StepFails, Leads
<1>3. ClusterTyped'
  <2>1. CASE UNCHANGED cluster
    BY <2>1, ClusterStays
  <2>2. CASE /\ allocation # NULL
             /\ allocation' = [allocation EXCEPT !.spec = Patched(@, Step.change)]
             /\ UNCHANGED <<objects, deleting, capacity, replica, seen, counted, pods>>
    <3>1. Step.change \in Changes
      BY <1>1, DoingRegular DEF Regular
    <3>2. allocation \in Object
      BY <2>2 DEF TInv, ClusterTyped, AllocationType
    <3>3. Patched(allocation.spec, Step.change) \in SpecType
      BY <3>1, <3>2, PatchTyped DEF Object
    <3>4. allocation' \in Object
      BY <2>2, <3>2, <3>3 DEF Object
    <3> QED
      BY <2>2, <3>4 DEF TInv, ClusterTyped, AllocationType
  <2> QED
    BY <2>1, <2>2 DEF PatchSpec, Call
<1> QED
  BY <1>1, <1>2, <1>3, FaultsStay DEF ScenarioStep

LEMMA AwaitStep == ASSUME TInv, AwaitCeiling PROVE ScenarioStep("await") /\ ClusterTyped'
<1>1. Leads("await", verdict)
  BY DEF AwaitCeiling, Leads
<1> QED
  BY <1>1, ClusterStays, FaultsStay DEF AwaitCeiling, ScenarioStep

LEMMA CreateStep == ASSUME TInv, CreatePod PROVE ScenarioStep("create") /\ ClusterTyped'
<1>1. PICK answer \in Answer :
        /\ Submit(Step.name, Step.size, answer)
        /\ last' = answer
        /\ StepOn(IF answer \in Step.want THEN verdict ELSE "fail")
  BY DEF CreatePod
<1>2. Doing("create") /\ UNCHANGED <<kept, failed, errors, code>>
  BY DEF CreatePod
<1>3. Step.size \in SUBSET Resource
  BY <1>2, DoingRegular DEF Regular
<1>4. ClusterTyped' /\ faults' \in 0 .. MaxFaults
  BY <1>1, <1>3, SubmitTyped
<1>5. \E v \in {verdict, "fail", "abort"} : Leads("create", v)
  BY <1>1 DEF Leads
<1> QED
  BY <1>1, <1>2, <1>4, <1>5 DEF ScenarioStep

LEMMA DeleteStep == ASSUME TInv, DeletePod PROVE ScenarioStep("delete") /\ ClusterTyped'
<1>1. Doing("delete") /\ UNCHANGED <<kept, last, failed, errors, code>>
  BY DEF DeletePod
<1>2. \E v \in {verdict, "fail", "abort"} : Leads("delete", v)
  BY DEF DeletePod, Call, Leads
<1>3. faults' \in 0 .. MaxFaults
  BY FaultTyped, FaultsStay DEF DeletePod, Call
<1>4. ClusterTyped'
  BY ClusterStays, DeletePodTyped DEF DeletePod, Call
<1> QED
  BY <1>1, <1>2, <1>3, <1>4, FaultsStay DEF ScenarioStep

LEMMA InsistStep == ASSUME TInv, InsistOnDryRun PROVE ScenarioStep("insist") /\ ClusterTyped'
<1>1. PICK answer \in Answer :
        /\ Submit(Step.name, Step.size, answer)
        /\ last' = answer
        /\ IF answer = "admitted" THEN StepOn(verdict)
           ELSE IF answer \in IsDenied403 THEN UNCHANGED <<at, verdict>>
           ELSE StepOn("abort")
  BY DEF InsistOnDryRun
<1>2. Doing("insist") /\ UNCHANGED <<kept, failed, errors, code>>
  BY DEF InsistOnDryRun
<1>3. Step.size \in SUBSET Resource
  BY <1>2, DoingRegular DEF Regular
<1>4. ClusterTyped' /\ faults' \in 0 .. MaxFaults
  BY <1>1, <1>3, SubmitTyped
<1>5. \E v \in {verdict, "fail", "abort"} : Leads("insist", v)
  BY <1>1 DEF Leads
<1> QED
  BY <1>1, <1>2, <1>4, <1>5 DEF ScenarioStep

LEMMA ProbeStep ==
  ASSUME TInv, ProbeRejection \/ ProbeAgain PROVE ScenarioStep("probe") /\ ClusterTyped'
<1>1. CASE ProbeRejection
  <2>1. PICK answer \in Answer :
          /\ Submit(Step.name, Step.size, answer)
          /\ last' = answer
          /\ IF answer = "admitted" THEN UNCHANGED <<at, verdict>>
             ELSE StepOn(IF answer \in Step.want THEN verdict ELSE "fail")
    BY <1>1 DEF ProbeRejection
  <2>2. Doing("probe") /\ UNCHANGED <<kept, failed, errors, code>>
    BY <1>1 DEF ProbeRejection
  <2>3. Step.size \in SUBSET Resource
    BY <2>2, DoingRegular DEF Regular
  <2>4. ClusterTyped' /\ faults' \in 0 .. MaxFaults
    BY <2>1, <2>3, SubmitTyped
  <2>5. \E v \in {verdict, "fail", "abort"} : Leads("probe", v)
    BY <2>1 DEF Leads
  <2> QED
    BY <2>1, <2>2, <2>4, <2>5 DEF ScenarioStep
<1>2. CASE ProbeAgain
  <2>1. Doing("probe") /\ UNCHANGED <<kept, failed, errors, code>> /\ last' = NULL
    BY <1>2 DEF ProbeAgain
  <2>2. \E v \in {verdict, "fail", "abort"} : Leads("probe", v)
    BY <1>2 DEF ProbeAgain, Call, Leads
  <2>3. faults' \in 0 .. MaxFaults
    BY <1>2, FaultTyped, FaultsStay DEF ProbeAgain, Call
  <2>4. ClusterTyped'
    BY <1>2, ClusterStays, DeletePodTyped DEF ProbeAgain, Call
  <2> QED
    BY <2>1, <2>2, <2>3, <2>4 DEF ScenarioStep
<1> QED
  BY <1>1, <1>2

LEMMA LookStep ==
  ASSUME TInv, CountDryRuns \/ CompareCapacity \/ ScrapeEndpoints
  PROVE  /\ \E what \in {"count", "compare", "scrape"} : ScenarioStep(what)
         /\ UNCHANGED cluster
<1>1. UNCHANGED cluster /\ faults' \in 0 .. MaxFaults
  BY FaultTyped, FaultsStay DEF CountDryRuns, CompareCapacity, ScrapeEndpoints, Read
<1>2. CASE CountDryRuns
  BY <1>1, <1>2, FaultsStay DEF CountDryRuns, Read, ScenarioStep, Leads
<1>3. CASE CompareCapacity
  BY <1>1, <1>3, FaultsStay DEF CompareCapacity, Read, ScenarioStep, Leads
<1>4. CASE ScrapeEndpoints
  BY <1>1, <1>4, FaultsStay DEF ScrapeEndpoints, Read, ScenarioStep, Leads
<1> QED
  BY <1>1, <1>2, <1>3, <1>4

LEMMA KillStep == ASSUME TInv, KillPods PROVE ScenarioStep("kill") /\ ClusterTyped'
<1>1. Doing("kill") /\ UNCHANGED <<kept, last, failed, errors, code>>
  BY DEF KillPods
<1>2. /\ faults' \in 0 .. MaxFaults
      /\ \E v \in {verdict, "fail", "abort"} : Leads("kill", v)
  BY FaultTyped, FaultsStay DEF KillPods, Call, Leads
<1>3. ClusterTyped'
  BY ClusterStays DEF KillPods, Call, TInv, ClusterTyped
<1> QED
  BY <1>1, <1>2, <1>3, FaultsStay DEF ScenarioStep

LEMMA DropStep ==
  ASSUME TInv, DropSingleton
  PROVE  /\ \E what \in {"drop-allocation", "drop-capacity"} : ScenarioStep(what)
         /\ ClusterTyped'
<1>1. PICK what \in {"drop-allocation", "drop-capacity"} :
        /\ Doing(what)
        /\ StepOn(verdict)
        /\ UNCHANGED faults \/ Fault
        /\ UNCHANGED cluster \/ Forget("Allocation") \/ Forget("ClusterCapacity")
  BY DEF DropSingleton, Call
<1>2. faults' \in 0 .. MaxFaults
  BY <1>1, FaultTyped, FaultsStay
<1>3. ClusterTyped'
  BY <1>1, ClusterStays, ForgetTyped
<1> QED
  BY <1>1, <1>2, <1>3, FaultsStay DEF ScenarioStep, DropSingleton, Leads

\* A status that goes stale.
LEMMA StaleTyped ==
  ASSUME TInv, allocation # NULL, allocation.status # NULL,
         allocation' = [allocation EXCEPT !.status.fresh = FALSE]
  PROVE  /\ allocation' \in AllocationType
         /\ allocation'.spec = allocation.spec
         /\ allocation'.status.load = allocation.status.load
<1>1. allocation \in Object
  BY DEF TInv, ClusterTyped, AllocationType
<1>2. allocation.status \in Status
  BY <1>1 DEF Object
<1> DEFINE stale == [allocation.status EXCEPT !.fresh = FALSE]
<1>3. stale \in Status /\ stale.load = allocation.status.load
  BY <1>2 DEF Status
<1>4. allocation' = [allocation EXCEPT !.status = stale]
  BY <1>1
<1> HIDE DEF stale
<1> QED
  BY <1>1, <1>3, <1>4 DEF AllocationType, Object

LEMMA BackdateStep ==
  ASSUME TInv, BackdateLastUpdated PROVE ScenarioStep("backdate") /\ ClusterTyped'
<1>1. Doing("backdate") /\ UNCHANGED <<kept, last, failed, errors, code>>
  BY DEF BackdateLastUpdated
<1>2. /\ faults' \in 0 .. MaxFaults
      /\ \E v \in {verdict, "fail", "abort"} : Leads("backdate", v)
  BY FaultTyped, FaultsStay DEF BackdateLastUpdated, Call, Leads
<1>3. CASE UNCHANGED cluster
  BY <1>1, <1>2, <1>3, ClusterStays, FaultsStay DEF ScenarioStep
<1>4. CASE /\ allocation # NULL /\ allocation.status # NULL
           /\ allocation' = [allocation EXCEPT !.status.fresh = FALSE]
           /\ UNCHANGED <<objects, deleting, capacity, replica, seen, counted, pods>>
  <2>1. ClusterTyped'
    BY <1>4, StaleTyped DEF TInv, ClusterTyped
  <2> QED
    BY <1>1, <1>2, <2>1, FaultsStay DEF ScenarioStep
<1> QED
  BY <1>3, <1>4 DEF BackdateLastUpdated, Call

LEMMA RestoredStep ==
  ASSUME TInv, Restored
  PROVE  (\E what \in {"restore", "freshen"} : ScenarioStep(what)) /\ UNCHANGED cluster
<1>1. PICK what \in {"restore", "freshen"} : Doing(what)
  BY DEF Restored
<1>2. Leads(what, verdict) /\ UNCHANGED <<kept, last, failed, errors, code, faults, cluster>>
  BY DEF Restored, Leads
<1> QED
  BY <1>1, <1>2, FaultsStay DEF ScenarioStep

LEMMA ScenarioDeadlineStep ==
  ASSUME TInv, ScenarioDeadline
  PROVE  /\ \E what \in {"await", "insist", "probe", "backdate", "restore", "freshen"} :
              ScenarioStep(what)
         /\ UNCHANGED cluster
<1>1. UNCHANGED <<kept, last, failed, errors, code, faults, cluster>>
  BY DEF ScenarioDeadline
<1>2. CASE Doing("await") /\ StepFails
  BY <1>1, <1>2, FaultsStay DEF ScenarioStep, Leads, StepFails
<1>3. CASE Doing("insist") /\ StepBy(2, "fail")
  BY <1>1, <1>3, FaultsStay DEF ScenarioStep, Leads
<1>4. CASE Doing("probe") /\ StepOn("fail")
  BY <1>1, <1>4, FaultsStay DEF ScenarioStep, Leads
<1>5. CASE Doing("backdate") /\ StepBy(2, "fail")
  BY <1>1, <1>5, FaultsStay DEF ScenarioStep, Leads
<1>6. CASE (Doing("restore") \/ Doing("freshen")) /\ StepOn(verdict)
  BY <1>1, <1>6, FaultsStay DEF ScenarioStep, Leads
<1> QED
  BY <1>2, <1>3, <1>4, <1>5, <1>6 DEF ScenarioDeadline

\* The step from one scenario to the next, or to the end.
LEMMA ConcludeStep == ASSUME TInv, Conclude PROVE TInv'
<1>1. at.phase = "scenario" /\ at.n \in 1 .. 12 /\ kept = FALSE
  BY DEF Conclude, TInv, Placed, RunTyped
<1>2. Len(Suite) = 12 /\ Len(Teardown) = 12
  BY FirstScripts, InstalledAre
<1>3. /\ failed' \in BOOLEAN /\ verdict' = "pass" /\ last' = NULL
      /\ UNCHANGED <<errors, faults, objects, deleting, capacity, replica>>
  BY DEF Conclude, TInv, RunTyped
<1>4. pods' \in [PodName -> [large : SUBSET Resource, leaving : BOOLEAN] \cup {NULL}]
  BY DEF Conclude, TInv, ClusterTyped
<1>5. Seeded \in SpecType
  BY SeededSteps
<1>6. /\ allocation' \in AllocationType /\ counted' \subseteq Replica
      /\ seen' \in [Replica -> View \cup {NULL}]
  <2>1. CASE at.n < Len(Suite)
    BY <2>1 DEF Conclude, TInv, ClusterTyped
  <2>2. CASE ~(at.n < Len(Suite))
    <3>1. allocation' = NULL \/ allocation' = [spec |-> Seeded, status |-> NULL]
      BY <2>2 DEF Conclude
    <3>2. seen' = [r \in Replica |-> NULL] /\ counted' = {}
      BY <2>2 DEF Conclude
    <3> QED
      BY <1>5, <3>1, <3>2 DEF AllocationType, Object
  <2> QED
    BY <2>1, <2>2
<1>7. /\ at' \in AtType /\ Placed' /\ kept' \in BOOLEAN
      /\ kept' => at'.phase = "done"
      /\ code' \in 0 .. 4 \cup {NULL}
  <2>1. code \in 0 .. 4 \cup {NULL}
    BY DEF TInv, RunTyped
  <2>2. CASE at.n < Len(Suite) /\ GoTo("scenario", at.n + 1) /\ UNCHANGED <<kept, code>>
    <3>1. at.n + 1 \in 1 .. 12
      BY <1>1, <1>2, <2>2
    <3>2. at' \in AtType /\ Placed'
      BY <2>2, <3>1, PhaseMoves DEF Phases
    <3> QED
      BY <1>1, <2>1, <2>2, <3>2
  <2>3. CASE kept' = TRUE /\ Exit(1)
    <3>1. GoTo("done", 0) /\ code' = 1
      BY <2>3 DEF Exit
    <3> QED
      BY <2>3, <3>1, PhaseMoves DEF Phases
  <2>4. CASE kept' = FALSE /\ GoTo("teardown", 1) /\ UNCHANGED code
    <3>1. at' \in AtType /\ Placed'
      BY <2>4, PhaseMoves DEF Phases
    <3> QED
      BY <2>1, <2>4, <3>1
  <2> QED
    BY <2>2, <2>3, <2>4 DEF Conclude
<1>8. RunTyped'
  <2>1. verdict' \in {"pass", "fail", "abort"} /\ last' \in Answer \cup {NULL}
    BY <1>3
  <2> QED
    BY <1>3, <1>7, <2>1 DEF TInv, RunTyped
<1>9. ClusterTyped'
  BY <1>3, <1>4, <1>6 DEF TInv, ClusterTyped
<1> QED
  BY <1>7, <1>8, <1>9 DEF TInv

\* The phases around the scenarios.
Aside(phases) ==
  /\ at.phase \in phases
  /\ at' \in AtType /\ Placed'
  /\ kept' \in BOOLEAN /\ (kept' => at'.phase = "done")
  /\ errors' \subseteq {Teardown[i] : i \in DOMAIN Teardown}
  /\ code' \in 0 .. 4 \cup {NULL}
  /\ faults' \in 0 .. MaxFaults
  /\ UNCHANGED <<verdict, last, failed>>

LEMMA AsideTyped ==
  ASSUME TInv, NEW phases, Aside(phases) PROVE RunTyped' /\ Placed'
  BY DEF Aside, TInv, RunTyped

LEMMA Unfinished ==
  ASSUME TInv, at.phase # "done"
  PROVE  /\ kept = FALSE /\ at.n \in 0 .. 12 /\ code \in 0 .. 4 \cup {NULL}
         /\ errors \subseteq {Teardown[i] : i \in DOMAIN Teardown}
         /\ faults \in 0 .. MaxFaults
<1>1. Len(Suite) = 12
  BY FirstScripts
<1> QED
  BY <1>1 DEF TInv, RunTyped, AtType

\* A change of phase with what may go with it.
LEMMA Turns ==
  ASSUME TInv, at.phase # "done", UNCHANGED <<verdict, last, failed>>,
         faults' \in 0 .. MaxFaults,
         NEW phase \in Phases, NEW n \in 0 .. 12, GoTo(phase, n),
         phase \in {"setup", "scenario", "teardown", "gone"} => n >= 1,
         UNCHANGED kept \/ kept' = FALSE \/ (kept' = TRUE /\ phase = "done"),
         UNCHANGED code \/ code' \in 0 .. 4,
         UNCHANGED errors \/ \E i \in 1 .. 12 : errors' = errors \cup {Teardown[i]}
  PROVE  Aside({at.phase})
<1>1. at' \in AtType /\ Placed' /\ at'.phase = phase
  BY PhaseMoves
<1>2. /\ kept = FALSE /\ code \in 0 .. 4 \cup {NULL}
      /\ errors \subseteq {Teardown[i] : i \in DOMAIN Teardown}
  BY Unfinished
<1>3. kept' \in BOOLEAN /\ (kept' => at'.phase = "done")
  BY <1>1, <1>2
<1>4. code' \in 0 .. 4 \cup {NULL}
  BY <1>2
<1>5. errors' \subseteq {Teardown[i] : i \in DOMAIN Teardown}
  <2>1. DOMAIN Teardown = 1 .. 12
    BY InstalledAre
  <2> QED
    BY <1>2, <2>1
<1> QED
  BY <1>1, <1>3, <1>4, <1>5 DEF Aside

LEMMA SetupFailsTurns ==
  ASSUME TInv, at.phase # "done", SetupFails, UNCHANGED <<verdict, last, failed, errors>>,
         faults' \in 0 .. MaxFaults
  PROVE  Aside({at.phase})
<1>1. code' = 2
  BY DEF SetupFails
<1>2. CASE kept' = TRUE /\ GoTo("done", 0)
  BY <1>1, <1>2, Turns DEF Phases
<1>3. CASE kept' = FALSE /\ GoTo("teardown", 1)
  <2>1. UNCHANGED kept
    BY <1>3, Unfinished
  <2> QED
    BY <1>1, <1>3, <2>1, Turns DEF Phases
<1> QED
  BY <1>2, <1>3 DEF SetupFails

LEMMA BeforeStep ==
  ASSUME TInv, \/ Preflight \/ Prepare \/ CheckClusterClean
               \/ ApplyDocument \/ AwaitPods \/ AwaitSupply
  PROVE  RunTyped' /\ Placed' /\ ClusterTyped'
<1>1. CASE Preflight
  <2>1. at.phase = "configure" /\ UNCHANGED <<kept, verdict, last, failed, errors, faults, cluster>>
    BY <1>1 DEF Preflight
  <2>2. \E phase \in {"connect", "build", "done"} :
          GoTo(phase, 0) /\ (UNCHANGED code \/ code' = 4)
    BY <1>1 DEF Preflight, Exit
  <2>3. Aside({at.phase})
    BY <2>1, <2>2, Turns, Unfinished DEF Phases
  <2> QED
    BY <2>1, <2>3, AsideTyped, ClusterStays
<1>2. CASE Prepare
  <2>1. /\ at.phase \in {"build", "push", "connect"}
        /\ UNCHANGED <<kept, verdict, last, failed, errors>>
        /\ UNCHANGED cluster /\ (UNCHANGED faults \/ Fault)
    BY <1>2 DEF Prepare, Read
  <2>2. \E phase \in {"push", "connect", "check", "done"} :
          GoTo(phase, 0) /\ (UNCHANGED code \/ code' = 2)
    BY <1>2 DEF Prepare, Read, Exit
  <2>3. faults' \in 0 .. MaxFaults
    BY <2>1, FaultTyped, FaultsStay
  <2>4. Aside({at.phase})
    BY <2>1, <2>2, <2>3, Turns DEF Phases
  <2> QED
    BY <2>1, <2>4, AsideTyped, ClusterStays
<1>3. CASE CheckClusterClean
  <2>1. /\ at.phase = "check" /\ UNCHANGED <<kept, verdict, last, failed, errors>>
        /\ UNCHANGED cluster /\ (UNCHANGED faults \/ Fault)
    BY <1>3 DEF CheckClusterClean, Read
  <2>2. \/ GoTo("setup", 1) /\ UNCHANGED code
        \/ GoTo("done", 0) /\ code' = 2
    BY <1>3 DEF CheckClusterClean, Read, Exit
  <2>3. faults' \in 0 .. MaxFaults
    BY <2>1, FaultTyped, FaultsStay
  <2>4. Aside({at.phase})
    BY <2>1, <2>2, <2>3, Turns DEF Phases
  <2> QED
    BY <2>1, <2>4, AsideTyped, ClusterStays
<1>4. CASE ApplyDocument
  <2>1. /\ at.phase = "setup" /\ at.n \in 1 .. 12
        /\ UNCHANGED <<verdict, last, failed, errors>>
    BY <1>4 DEF ApplyDocument, TInv, Placed
  <2>2. faults' \in 0 .. MaxFaults
    BY <1>4, FaultTyped, FaultsStay DEF ApplyDocument, Call
  <2>3. Len(Setup) = 12
    BY DEF Setup
  <2>4. \/ SetupFails
        \/ /\ IF at.n < Len(Setup) THEN GoTo("setup", at.n + 1) ELSE GoTo("pods", 0)
           /\ UNCHANGED <<kept, code>>
    BY <1>4 DEF ApplyDocument, Call
  <2>5. Aside({at.phase})
    <3>1. CASE SetupFails
      BY <2>1, <2>2, <3>1, SetupFailsTurns
    <3>2. CASE at.n < Len(Setup) /\ GoTo("setup", at.n + 1) /\ UNCHANGED <<kept, code>>
      <4>1. at.n + 1 \in 1 .. 12
        BY <2>1, <2>3, <3>2
      <4> QED
        BY <2>1, <2>2, <3>2, <4>1, Turns DEF Phases
    <3>3. CASE GoTo("pods", 0) /\ UNCHANGED <<kept, code>>
      BY <2>1, <2>2, <3>3, Turns DEF Phases
    <3> QED
      BY <2>4, <3>1, <3>2, <3>3
  <2>6. ClusterTyped'
    <3>1. CASE UNCHANGED cluster
      BY <3>1, ClusterStays
    <3>2. CASE /\ objects' = objects \cup {Setup[at.n]}
               /\ UNCHANGED <<deleting, allocation, capacity, replica, seen, counted, pods>>
      <4>1. Setup[at.n] \in Installed
        BY <2>1, InstalledAre
      <4> QED
        BY <3>2, <4>1 DEF TInv, ClusterTyped
    <3> QED
      BY <1>4, <3>1, <3>2 DEF ApplyDocument, Call
  <2> QED
    BY <2>5, <2>6, AsideTyped
<1>5. CASE AwaitPods
  <2>1. /\ at.phase = "pods" /\ UNCHANGED <<verdict, last, failed, errors>>
        /\ UNCHANGED cluster /\ (UNCHANGED faults \/ Fault)
        /\ SetupFails \/ (GoTo("supply", 0) /\ UNCHANGED <<kept, code>>)
    BY <1>5 DEF AwaitPods, Read
  <2>2. faults' \in 0 .. MaxFaults
    BY <2>1, FaultTyped, FaultsStay
  <2>3. Aside({at.phase})
    <3>1. CASE SetupFails
      BY <2>1, <2>2, <3>1, SetupFailsTurns
    <3>2. CASE GoTo("supply", 0) /\ UNCHANGED <<kept, code>>
      BY <2>1, <2>2, <3>2, Turns DEF Phases
    <3> QED
      BY <2>1, <3>1, <3>2
  <2> QED
    BY <2>1, <2>3, AsideTyped, ClusterStays
<1>6. CASE AwaitSupply
  <2>1. /\ at.phase = "supply" /\ GoTo("scenario", 1)
        /\ UNCHANGED <<kept, verdict, last, failed, errors, code, faults, cluster>>
    BY <1>6 DEF AwaitSupply
  <2>2. Aside({at.phase})
    BY <2>1, Turns, FaultsStay DEF Phases
  <2> QED
    BY <2>1, <2>2, AsideTyped, ClusterStays
<1> QED
  BY <1>1, <1>2, <1>3, <1>4, <1>5, <1>6

\* A step of the teardown on to the next object or to the end.
LEMMA NextObjectTurns ==
  ASSUME TInv, at.phase \in {"teardown", "gone"}, Removed \/ NotRemoved,
         UNCHANGED <<kept, verdict, last, failed>>, faults' \in 0 .. MaxFaults
  PROVE  Aside({at.phase})
<1>1. at.n \in 1 .. 12 /\ Len(Teardown) = 12
  BY InstalledAre DEF TInv, Placed
<1>2. UNCHANGED errors \/ errors' = errors \cup {Teardown[at.n]}
  BY DEF Removed, NotRemoved, NextObject
<1>3. \/ at.n < 12 /\ GoTo("teardown", at.n + 1) /\ UNCHANGED code
      \/ GoTo("done", 0) /\ code' \in 0 .. 4
  BY <1>1 DEF Removed, NotRemoved, NextObject, Exit, FinalCode
<1>4. CASE at.n < 12 /\ GoTo("teardown", at.n + 1) /\ UNCHANGED code
  <2>1. at.n + 1 \in 1 .. 12
    BY <1>1, <1>4
  <2> QED
    BY <1>1, <1>2, <1>4, <2>1, Turns DEF Phases
<1>5. CASE GoTo("done", 0) /\ code' \in 0 .. 4
  BY <1>1, <1>2, <1>5, Turns DEF Phases
<1> QED
  BY <1>3, <1>4, <1>5

LEMMA TeardownStep ==
  ASSUME TInv, DeleteObject \/ AwaitGone \/ LifecycleDeadline
  PROVE  RunTyped' /\ Placed' /\ ClusterTyped'
<1>1. CASE DeleteObject
  <2>1. /\ at.phase = "teardown" /\ at.n \in 1 .. 12 /\ UNCHANGED <<kept, verdict, last, failed>>
    BY <1>1 DEF DeleteObject, TInv, Placed
  <2>2. faults' \in 0 .. MaxFaults
    BY <1>1, FaultTyped, FaultsStay DEF DeleteObject, Call, Read
  <2>3. \/ Removed \/ NotRemoved
        \/ GoTo("gone", at.n) /\ UNCHANGED <<errors, code>>
    BY <1>1 DEF DeleteObject, Call, Read
  <2>4. Aside({at.phase})
    BY <2>1, <2>2, <2>3, NextObjectTurns, Turns DEF Phases
  <2>5. ClusterTyped'
    BY <1>1, <2>1, ClusterStays, RemoveTyped DEF DeleteObject, Call, Read
  <2> QED
    BY <2>4, <2>5, AsideTyped
<1>2. CASE AwaitGone
  <2>1. /\ at.phase = "gone" /\ UNCHANGED <<kept, verdict, last, failed, cluster>>
        /\ Removed \/ NotRemoved
    BY <1>2 DEF AwaitGone, Read
  <2>2. faults' \in 0 .. MaxFaults
    BY <1>2, FaultTyped, FaultsStay DEF AwaitGone, Read
  <2> QED
    BY <2>1, <2>2, NextObjectTurns, AsideTyped, ClusterStays
<1>3. CASE LifecycleDeadline
  <2>1. UNCHANGED <<verdict, last, failed, faults, cluster>>
    BY <1>3 DEF LifecycleDeadline
  <2>2. CASE at.phase \in {"pods", "supply"} /\ SetupFails /\ UNCHANGED errors
    BY <2>1, <2>2, FaultsStay, SetupFailsTurns, AsideTyped, ClusterStays
  <2>3. CASE at.phase = "gone" /\ NotRemoved /\ UNCHANGED kept
    BY <2>1, <2>3, FaultsStay, NextObjectTurns, AsideTyped, ClusterStays
  <2> QED
    BY <1>3, <2>2, <2>3 DEF LifecycleDeadline
<1> QED
  BY <1>1, <1>2, <1>3

\* The cluster's own steps.
LEMMA CurrentTyped == ASSUME TInv PROVE Current \in View \cup {NULL}
<1>1. CASE Current = NULL
  BY <1>1
<1>2. CASE Current # NULL
  <2>1. /\ allocation # NULL /\ allocation.status # NULL
        /\ Current = [mode |-> allocation.spec.mode, status |-> allocation.status]
    BY <1>2 DEF Current
  <2>2. allocation \in Object
    BY <2>1 DEF TInv, ClusterTyped, AllocationType
  <2>3. allocation.status \in Status /\ allocation.spec.mode \in {"enforce", "dry-run"}
    BY <2>1, <2>2 DEF SpecType, Object
  <2> QED
    BY <2>1, <2>3 DEF View
<1> QED
  BY <1>1, <1>2

LEMMA CeilingTyped ==
  ASSUME NEW spec \in SpecType, NEW res \in Resource PROVE Ceiling(spec, res) \in Percents
<1>1. /\ spec.budget \in Percents /\ spec.cpu \in Percents \cup {NULL}
      /\ spec.memory \in Percents \cup {NULL} /\ 0 \in Percents
  BY DEF SpecType, Percents
<1>2. CASE res = "cpu"
  BY <1>1, <1>2 DEF Ceiling
<1>3. CASE res = "memory"
  BY <1>1, <1>3 DEF Ceiling
<1> QED
  BY <1>2, <1>3 DEF Resource

\* The loads that a report adds up.
Loads == UNION {pods[name].large : name \in {m \in PodName : pods[m] # NULL}}

LEMMA ReportTyped ==
  ASSUME TInv, ReportAllocation
  PROVE  /\ allocation' \in AllocationType /\ allocation' # NULL
         /\ allocation'.spec = IF allocation = NULL THEN Seeded ELSE allocation.spec
         /\ allocation'.status # NULL => allocation'.status.load = Loads
<1> DEFINE spec == IF allocation = NULL THEN Seeded ELSE allocation.spec
           status == [cpu |-> Ceiling(spec, "cpu"), memory |-> Ceiling(spec, "memory"),
                      load |-> Loads, fresh |-> TRUE]
<1>1. \/ allocation' = [spec |-> spec, status |-> NULL]
      \/ allocation' = [spec |-> spec, status |-> status]
  BY DEF ReportAllocation, Loads
<1>2. spec \in SpecType
  <2>1. CASE allocation = NULL
    BY <2>1, SeededSteps
  <2>2. CASE allocation # NULL
    <3>1. allocation \in Object
      BY <2>2 DEF TInv, ClusterTyped, AllocationType
    <3> QED
      BY <2>2, <3>1 DEF Object
  <2> QED
    BY <2>1, <2>2
<1>3. Loads \subseteq Resource
  <2>1. ASSUME NEW name \in PodName, pods[name] # NULL PROVE pods[name].large \subseteq Resource
    <3>1. pods[name] \in [large : SUBSET Resource, leaving : BOOLEAN]
      BY <2>1 DEF TInv, ClusterTyped
    <3> QED
      BY <3>1
  <2> QED
    BY <2>1 DEF Loads
<1> HIDE DEF spec
<1>4. Ceiling(spec, "cpu") \in Percents /\ Ceiling(spec, "memory") \in Percents
  BY <1>2, CeilingTyped DEF Resource
<1>5. status \in Status /\ status.load = Loads
  BY <1>3, <1>4 DEF Status
<1> HIDE DEF status
<1>6. allocation' \in Object /\ allocation'.spec = spec
  BY <1>1, <1>2, <1>5 DEF Object
<1>7. allocation' # NULL
  BY <1>6, NullAssumption
<1> QED
  BY <1>1, <1>5, <1>6, <1>7 DEF AllocationType, spec

LEMMA EnvironmentStep ==
  ASSUME TInv, Environment
  PROVE  ClusterTyped' /\ UNCHANGED <<run, faults>>
<1>1. ASSUME NEW r \in Replica, ReplicaStarts(r) \/ ReplicaLeaves(r)
      PROVE  ClusterTyped' /\ UNCHANGED <<run, faults>>
  BY <1>1 DEF ReplicaStarts, ReplicaLeaves, TInv, ClusterTyped
<1>2. ASSUME NEW r \in Replica, ReplicaEnds(r)
      PROVE  ClusterTyped' /\ UNCHANGED <<run, faults>>
  BY <1>2 DEF ReplicaEnds, TInv, ClusterTyped
<1>3. ASSUME NEW r \in Replica, Sync(r)
      PROVE  ClusterTyped' /\ UNCHANGED <<run, faults>>
  <2>1. Current \in View \cup {NULL}
    BY CurrentTyped
  <2> QED
    BY <1>3, <2>1 DEF Sync, TInv, ClusterTyped
<1>4. CASE ReportAllocation
  <2>1. allocation' \in AllocationType
    BY <1>4, ReportTyped
  <2> QED
    BY <1>4, <2>1 DEF ReportAllocation, TInv, ClusterTyped
<1>5. CASE ReportCapacity
  BY <1>5 DEF ReportCapacity, TInv, ClusterTyped
<1>6. CASE GoesStale
  <2>1. allocation' \in AllocationType
    BY <1>6, StaleTyped DEF GoesStale, CeilingIsUp
  <2> QED
    BY <1>6, <2>1 DEF GoesStale, TInv, ClusterTyped
<1>7. CASE Finalize
  <2>1. CASE \E object \in deleting : Forget(object) /\ UNCHANGED <<run, faults>>
    BY <2>1, ForgetTyped
  <2>2. CASE /\ \E name \in PodName : pods' = [pods EXCEPT ![name] = NULL]
             /\ UNCHANGED <<run, faults, objects, deleting, allocation, capacity, replica, seen,
                            counted>>
    BY <2>2 DEF TInv, ClusterTyped
  <2> QED
    BY <1>7, <2>1, <2>2 DEF Finalize
<1> QED
  BY <1>1, <1>2, <1>3, <1>4, <1>5, <1>6, <1>7 DEF Environment

LEMMA RunStays == ASSUME TInv, UNCHANGED <<run, faults>> PROVE RunTyped' /\ Placed'
  BY DEF TInv, RunTyped, Placed, run

\* Every step of the scripts, whatever it does to the cluster.
ScriptStep ==
  \/ PatchSpec \/ AwaitCeiling \/ CreatePod \/ DeletePod \/ InsistOnDryRun \/ CountDryRuns
  \/ CompareCapacity \/ ScrapeEndpoints \/ KillPods \/ DropSingleton \/ BackdateLastUpdated
  \/ ProbeRejection \/ ProbeAgain \/ Restored \/ ScenarioDeadline

Done == {"patch", "await", "create", "delete", "insist", "count", "compare", "scrape", "kill",
         "drop-allocation", "drop-capacity", "backdate", "probe", "restore", "freshen"}

LEMMA ScriptStepIs ==
  ASSUME TInv, ScriptStep
  PROVE  (\E what \in Done : ScenarioStep(what)) /\ ClusterTyped'
<1>1. CASE PatchSpec
  BY <1>1, PatchStep DEF Done
<1>2. CASE AwaitCeiling
  BY <1>2, AwaitStep DEF Done
<1>3. CASE CreatePod
  BY <1>3, CreateStep DEF Done
<1>4. CASE DeletePod
  BY <1>4, DeleteStep DEF Done
<1>5. CASE InsistOnDryRun
  BY <1>5, InsistStep DEF Done
<1>6. CASE CountDryRuns \/ CompareCapacity \/ ScrapeEndpoints
  BY <1>6, LookStep, ClusterStays DEF Done
<1>7. CASE KillPods
  BY <1>7, KillStep DEF Done
<1>8. CASE DropSingleton
  BY <1>8, DropStep DEF Done
<1>9. CASE BackdateLastUpdated
  BY <1>9, BackdateStep DEF Done
<1>10. CASE ProbeRejection \/ ProbeAgain
  BY <1>10, ProbeStep DEF Done
<1>11. CASE Restored
  BY <1>11, RestoredStep, ClusterStays DEF Done
<1>12. CASE ScenarioDeadline
  BY <1>12, ScenarioDeadlineStep, ClusterStays DEF Done
<1> QED
  BY <1>1, <1>2, <1>3, <1>4, <1>5, <1>6, <1>7, <1>8, <1>9, <1>10, <1>11, <1>12 DEF ScriptStep

\* The steps, in the groups that the proofs treat alike.
BeforeScripts ==
  Preflight \/ Prepare \/ CheckClusterClean \/ ApplyDocument \/ AwaitPods \/ AwaitSupply

AfterScripts == DeleteObject \/ AwaitGone \/ LifecycleDeadline

LEMMA StepsAre ==
  ASSUME Next
  PROVE  \/ BeforeScripts \/ ScriptStep \/ Conclude \/ AfterScripts
         \/ at.phase # "done" /\ Environment
  BY Zenon DEF Next, Proceed, Deadline, BeforeScripts, ScriptStep, AfterScripts

LEMMA TInvStep == TInv /\ [Next]_vars => TInv'
<1> SUFFICES ASSUME TInv, [Next]_vars PROVE TInv'
  OBVIOUS
<1>1. CASE BeforeScripts
  BY <1>1, BeforeStep DEF BeforeScripts, TInv
<1>2. CASE ScriptStep
  BY <1>2, ScriptStepIs, ScenarioMoves DEF TInv
<1>3. CASE Conclude
  BY <1>3, ConcludeStep
<1>4. CASE AfterScripts
  BY <1>4, TeardownStep DEF AfterScripts, TInv
<1>5. CASE Environment
  BY <1>5, EnvironmentStep, RunStays DEF TInv
<1>6. CASE UNCHANGED vars
  BY <1>6, RunStays, ClusterStays DEF vars, TInv
<1> QED
  BY <1>1, <1>2, <1>3, <1>4, <1>5, <1>6, StepsAre

\* Type correctness, for any number of replicas and lost calls (args.rs to
\* teardown.rs): no step of a run or of the cluster leaves its variables' types.
THEOREM RunTypes == Spec => []TypeOK
<1>1. Spec => []TInv
  BY InitTInv, TInvStep, PTL DEF Spec
<1> QED
  BY <1>1, TInvTypeOK, PTL

-----------------------------------------------------------------------------
(***************************************************************************)
(* The exit code                                                           *)
(***************************************************************************)

\* Teardown, as long as it meets no error, leaves nothing of what it has been through.
Cleared(n) == \A i \in 1 .. 12 : i < n => ~Exists(Teardown[i])

\* Nothing is installed before setup, and nothing runs that could create anything.
Untouched == Bare /\ \A r \in Replica : replica[r] = "down"

Honest ==
  /\ at.phase \in {"configure", "build", "push", "connect", "check"} => Untouched
  /\ at.phase \in {"teardown", "gone"} /\ errors = {} => Cleared(at.n)
  /\ ExitIsHonest

\* What the objects of the teardown are called.
LEMMA TeardownNames ==
  /\ Teardown[1] = "WebhookConfiguration" /\ Teardown[2] = "Deployment"
  /\ Teardown[3] = "Service" /\ Teardown[4] = "Secret"
  /\ Teardown[5] = "ClusterRoleBinding" /\ Teardown[6] = "ClusterRole"
  /\ Teardown[7] = "ServiceAccount" /\ Teardown[8] = "Allocation"
  /\ Teardown[9] = "ClusterCapacity" /\ Teardown[10] = "AllocationCRD"
  /\ Teardown[11] = "CapacityCRD" /\ Teardown[12] = "Namespace"
  BY DEF Teardown

LEMMA ClearedIsBare == ASSUME TInv, Cleared(13) PROVE Bare
<1>1. \A i \in 1 .. 12 : ~Exists(Teardown[i])
  BY DEF Cleared
<1>2. ~Exists("Allocation") /\ ~Exists("ClusterCapacity")
  BY <1>1, TeardownNames
<1>3. ASSUME NEW object \in objects PROVE FALSE
  <2>1. object \in Installed
    BY <1>3 DEF TInv, ClusterTyped
  <2>2. object \notin {"Allocation", "ClusterCapacity"}
    BY <2>1 DEF Installed
  <2>3. PICK i \in 1 .. 12 : object = Teardown[i]
    BY <2>1, InstalledAre DEF Installed
  <2> QED
    BY <1>1, <1>3, <2>2, <2>3 DEF Exists
<1> QED
  BY <1>2, <1>3 DEF Bare, Exists

\* What is gone stays gone when something else goes.
LEMMA ForgetClears ==
  ASSUME TInv, NEW object, Forget(object)
  PROVE  /\ \A other : ~Exists(other) => ~Exists(other)'
         /\ ~Exists(object)'
  BY DEF Forget, Exists, TInv, ClusterTyped

LEMMA RemoveClears ==
  ASSUME TInv, NEW object, Remove(object) PROVE \A other : ~Exists(other) => ~Exists(other)'
<1>1. CASE object \in Finalized
  BY <1>1 DEF Remove, Exists
<1>2. CASE object \notin Finalized
  BY <1>2, ForgetClears DEF Remove
<1> QED
  BY <1>1, <1>2

LEMMA StaysCleared ==
  ASSUME NEW n \in 1 .. 13, Cleared(n), \A other : ~Exists(other) => ~Exists(other)'
  PROVE  Cleared(n)'
  BY DEF Cleared

\* Controllers can create a singleton again, until their role is gone, and it is
\* gone before teardown looks at the singletons.
LEMMA EnvironmentClears ==
  ASSUME TInv, Environment, NEW n \in 1 .. 12, Cleared(n) PROVE Cleared(n)'
<1>1. CASE n <= 8 /\ \A other : other # "Allocation" /\ other # "ClusterCapacity" =>
                                  (~Exists(other) => ~Exists(other)')
  BY <1>1, TeardownNames DEF Cleared
<1>2. CASE \A other : ~Exists(other) => ~Exists(other)'
  BY <1>2, StaysCleared
<1>3. CASE ReportAllocation \/ ReportCapacity
  <2>1. "ClusterRole" \in objects /\ UNCHANGED objects
    BY <1>3 DEF ReportAllocation, ReportCapacity, Controllers, There
  <2>2. n <= 6
    <3>1. Exists("ClusterRole")
      BY <2>1 DEF Exists
    <3> QED
      BY <3>1, TeardownNames DEF Cleared
  <2>3. \A other : other # "Allocation" /\ other # "ClusterCapacity" =>
                     (~Exists(other) => ~Exists(other)')
    BY <2>1 DEF Exists
  <2> QED
    BY <1>1, <2>2, <2>3
<1>4. CASE UNCHANGED <<objects, allocation, capacity>>
  BY <1>2, <1>4 DEF Exists
<1>5. CASE GoesStale
  BY <1>2, <1>5 DEF Exists, GoesStale, CeilingIsUp
<1>6. CASE Finalize
  BY <1>2, <1>4, <1>6, ForgetClears DEF Finalize
<1> QED
  BY <1>3, <1>4, <1>5, <1>6 DEF Environment, ReplicaStarts, ReplicaLeaves, ReplicaEnds, Sync

LEMMA EnvironmentUntouched ==
  ASSUME TInv, Environment, Untouched PROVE Untouched'
<1>1. objects = {} /\ allocation = NULL /\ ~capacity /\ deleting = {} /\ Endpoint = {}
  BY DEF Untouched, Bare, Endpoint, TInv, ClusterTyped
<1>2. ~ReportAllocation /\ ~ReportCapacity /\ ~GoesStale
  BY <1>1 DEF ReportAllocation, ReportCapacity, Controllers, GoesStale, CeilingIsUp
<1>3. \A r \in Replica : ~ReplicaStarts(r) /\ ~ReplicaLeaves(r) /\ ~ReplicaEnds(r) /\ ~Sync(r)
  BY <1>1 DEF ReplicaStarts, ReplicaLeaves, ReplicaEnds, Sync, Untouched
<1>4. UNCHANGED <<objects, allocation, capacity, replica>>
  BY <1>1, <1>2, <1>3 DEF Environment, Finalize
<1> QED
  BY <1>4 DEF Untouched, Bare

LEMMA EntersTeardown == ASSUME GoTo("teardown", 1) PROVE Honest'
<1>1. at'.phase = "teardown" /\ at'.n = 1
  BY DEF GoTo
<1> QED
  BY <1>1 DEF Honest, ExitIsHonest, Cleared

LEMMA SetupFailsHonest == ASSUME SetupFails PROVE Honest'
<1>1. CASE code' = 2 /\ kept' = TRUE /\ GoTo("done", 0)
  BY <1>1 DEF GoTo, Honest, ExitIsHonest
<1>2. CASE GoTo("teardown", 1)
  BY <1>2, EntersTeardown
<1> QED
  BY <1>1, <1>2 DEF SetupFails

LEMMA BeforeHonest ==
  ASSUME TInv, Honest, BeforeScripts PROVE Honest'
<1>1. CASE Preflight \/ Prepare \/ CheckClusterClean
  <2>1. Untouched
    BY <1>1 DEF Honest, Preflight, Prepare, CheckClusterClean
  <2>2. UNCHANGED cluster
    BY <1>1 DEF Preflight, Prepare, CheckClusterClean, Read
  <2>3. Untouched'
    BY <2>1, <2>2 DEF Untouched, Bare, cluster
  <2>4. \/ \E phase \in {"build", "push", "connect", "check", "setup"} : at'.phase = phase
        \/ at'.phase = "done" /\ code' \in {2, 4}
    BY <1>1 DEF Preflight, Prepare, CheckClusterClean, Read, Exit, GoTo
  <2> QED
    BY <2>3, <2>4 DEF Honest, ExitIsHonest, Untouched
<1>2. CASE ApplyDocument \/ AwaitPods \/ AwaitSupply
  <2>1. SetupFails \/ \E phase \in {"setup", "pods", "supply", "scenario"} : at'.phase = phase
    BY <1>2 DEF ApplyDocument, AwaitPods, AwaitSupply, Call, Read, GoTo
  <2> QED
    BY <2>1, SetupFailsHonest DEF Honest, ExitIsHonest
<1> QED
  BY <1>1, <1>2 DEF BeforeScripts

LEMMA ConcludeHonest == ASSUME TInv, Conclude PROVE Honest'
<1>1. CASE GoTo("scenario", at.n + 1)
  BY <1>1 DEF GoTo, Honest, ExitIsHonest
<1>2. CASE failed' /\ kept' = TRUE /\ Exit(1)
  BY <1>2 DEF Exit, GoTo, Honest, ExitIsHonest
<1>3. CASE GoTo("teardown", 1)
  BY <1>3, EntersTeardown
<1> QED
  BY <1>1, <1>2, <1>3 DEF Conclude

\* On to the next object, with an error and without.
LEMMA NotRemovedHonest ==
  ASSUME TInv, at.phase \in {"teardown", "gone"}, NotRemoved, UNCHANGED <<kept, failed>>
  PROVE  Honest'
<1>1. errors' # {}
  BY DEF NotRemoved, NextObject
<1>2. CASE GoTo("teardown", at.n + 1)
  BY <1>1, <1>2 DEF GoTo, Honest, ExitIsHonest
<1>3. CASE GoTo("done", 0) /\ code' = FinalCode(errors')
  <2>1. at'.phase = "done"
    BY <1>3 DEF GoTo
  <2>2. code' \in {1, 2, 3} /\ (code' = 1 => failed') /\ (code' = 3 => ~failed')
    BY <1>1, <1>3 DEF FinalCode
  <2> QED
    BY <1>1, <2>1, <2>2 DEF Honest, ExitIsHonest
<1> QED
  BY <1>2, <1>3 DEF NotRemoved, NextObject, Exit

LEMMA RemovedHonest ==
  ASSUME TInv, Honest, at.phase \in {"teardown", "gone"}, ~Exists(Teardown[at.n]), Removed,
         UNCHANGED <<kept, failed, cluster>>
  PROVE  Honest'
<1>1. at.n \in 1 .. 12 /\ Len(Teardown) = 12
  BY InstalledAre DEF TInv, Placed
<1>2. errors' = errors
  BY DEF Removed, NextObject
<1> PICK n \in 1 .. 12 : n = at.n
  BY <1>1
<1>3. errors = {} => Cleared(n + 1)
  BY <1>1 DEF Honest, Cleared
<1>4. Cleared(n + 1) => Cleared(n + 1)'
  BY StaysCleared DEF Exists, cluster
<1>5. CASE at.n < 12 /\ GoTo("teardown", at.n + 1)
  <2>1. at'.phase = "teardown" /\ at'.n = n + 1
    BY <1>5 DEF GoTo
  <2>2. errors' = {} => Cleared(n + 1)'
    BY <1>2, <1>3, <1>4
  <2>3. errors' = {} => Cleared(at.n)'
    BY <2>1, <2>2 DEF Cleared
  <2> QED
    BY <2>1, <2>3 DEF Honest, ExitIsHonest
<1>6. CASE at.n = 12 /\ GoTo("done", 0) /\ code' = FinalCode(errors)
  <2>1. at'.phase = "done"
    BY <1>6 DEF GoTo
  <2>2. errors = {} => Bare
    <3>1. n + 1 = 13
      BY <1>6
    <3> QED
      BY <1>3, <3>1, ClearedIsBare
  <2>3. Bare => Bare'
    BY DEF Bare, cluster
  <2>4. /\ code' \in 0 .. 3 /\ (code' = 0 => ~failed /\ errors = {}) /\ (code' = 1 => failed)
        /\ code' = 3 => ~failed /\ errors # {}
    BY <1>6 DEF FinalCode
  <2> QED
    BY <1>2, <2>1, <2>2, <2>3, <2>4 DEF Honest, ExitIsHonest
<1> QED
  BY <1>1, <1>5, <1>6 DEF Removed, NextObject, Exit

LEMMA TeardownHonest == ASSUME TInv, Honest, AfterScripts PROVE Honest'
<1>1. CASE DeleteObject
  <2>1. at.phase = "teardown" /\ UNCHANGED <<kept, failed>> /\ at.n \in 1 .. 12
    BY <1>1 DEF DeleteObject, TInv, Placed
  <2>2. CASE NotRemoved
    BY <2>1, <2>2, NotRemovedHonest
  <2>3. CASE ~Exists(Teardown[at.n]) /\ Removed /\ UNCHANGED cluster
    BY <2>1, <2>3, RemovedHonest
  <2>4. CASE Remove(Teardown[at.n]) /\ GoTo("gone", at.n) /\ UNCHANGED errors
    <3> PICK n \in 1 .. 12 : n = at.n
      BY <2>1
    <3>1. at'.phase = "gone" /\ at'.n = n
      BY <2>4 DEF GoTo
    <3>2. Cleared(n) => Cleared(n)'
      BY <2>4, RemoveClears, StaysCleared
    <3>3. errors' = {} => Cleared(at.n)'
      BY <2>1, <2>4, <3>1, <3>2 DEF Honest, Cleared
    <3> QED
      BY <3>1, <3>3 DEF Honest, ExitIsHonest
  <2> QED
    BY <1>1, <2>2, <2>3, <2>4 DEF DeleteObject, Call, Read
<1>2. CASE AwaitGone
  <2>1. at.phase = "gone" /\ UNCHANGED <<kept, failed, cluster>>
    BY <1>2 DEF AwaitGone, Read
  <2> QED
    BY <1>2, <2>1, NotRemovedHonest, RemovedHonest DEF AwaitGone, Read
<1>3. CASE LifecycleDeadline
  BY <1>3, SetupFailsHonest, NotRemovedHonest DEF LifecycleDeadline
<1> QED
  BY <1>1, <1>2, <1>3 DEF AfterScripts

LEMMA HonestStep == TInv /\ Honest /\ [Next]_vars => Honest'
<1> SUFFICES ASSUME TInv, Honest, [Next]_vars PROVE Honest'
  OBVIOUS
<1>1. CASE BeforeScripts
  BY <1>1, BeforeHonest
<1>2. CASE ScriptStep
  <2>1. at'.phase = "scenario"
    BY <1>2, ScriptStepIs, ScenarioMoves
  <2> QED
    BY <2>1 DEF Honest, ExitIsHonest
<1>3. CASE Conclude
  BY <1>3, ConcludeHonest
<1>4. CASE AfterScripts
  BY <1>4, TeardownHonest
<1>5. CASE at.phase # "done" /\ Environment
  <2>1. at' = at /\ errors' = errors
    BY <1>5, EnvironmentStep DEF run
  <2>4. (at.phase \in {"teardown", "gone"} /\ errors = {} => Cleared(at.n))'
    <3>1. SUFFICES ASSUME at.phase \in {"teardown", "gone"}, errors = {} PROVE Cleared(at.n)'
      BY <2>1
    <3>2. PICK n \in 1 .. 12 : n = at.n
      BY <3>1 DEF TInv, Placed
    <3>3. Cleared(n)
      BY <3>1, <3>2 DEF Honest
    <3>4. Cleared(n)'
      BY <1>5, <3>3, EnvironmentClears
    <3> QED
      BY <2>1, <3>2, <3>4 DEF Cleared
  <2>5. at'.phase \in {"configure", "build", "push", "connect", "check"} => Untouched'
    BY <1>5, <2>1, EnvironmentUntouched DEF Honest
  <2> QED
    BY <1>5, <2>1, <2>4, <2>5 DEF Honest, ExitIsHonest
<1>6. CASE UNCHANGED vars
  BY <1>6 DEF vars, run, cluster, Honest, ExitIsHonest, Bare, Untouched, Cleared, Exists
<1> QED
  BY <1>1, <1>2, <1>3, <1>4, <1>5, <1>6, StepsAre

\* "A partly-cleaned cluster is never reported as success" (teardown), for any
\* number of replicas and lost calls: the exit code says what failed, and what is
\* left behind has an error or --keep-on-failure to account for it.
THEOREM HonestExit == Spec => []ExitIsHonest
<1>1. Init => Honest
  BY DEF Init, Honest, Untouched, Bare, ExitIsHonest
<1>2. Spec => []TInv
  BY InitTInv, TInvStep, PTL DEF Spec
<1>3. Spec => []Honest
  BY <1>1, <1>2, HonestStep, PTL DEF Spec
<1>4. Honest => ExitIsHonest
  BY DEF Honest
<1> QED
  BY <1>3, <1>4, PTL

-----------------------------------------------------------------------------
(***************************************************************************)
(* Denials                                                                 *)
(***************************************************************************)

\* Up to the scenario that turns the webhook to dry-run, the spec says to enforce,
\* and so no pod gets in that asks for much.
Early ==
  \/ at.phase \in {"configure", "build", "push", "connect", "check", "setup", "pods", "supply"}
  \/ at.phase = "scenario" /\ at.n <= 5

AllocationCalm ==
  allocation # NULL =>
    /\ allocation.spec.mode = "enforce"
    /\ allocation.status # NULL => allocation.status.load = {}

SeenCalm ==
  \A r \in Replica : seen[r] # NULL => seen[r].mode = "enforce" /\ seen[r].status.load = {}

PodsCalm == \A name \in PodName : pods[name] # NULL => pods[name].large = {}

Calm == AllocationCalm /\ SeenCalm /\ PodsCalm

LEMMA CalmStays == ASSUME Calm, UNCHANGED <<allocation, seen, pods>> PROVE Calm'
  BY DEF Calm, AllocationCalm, SeenCalm, PodsCalm

LEMMA CalmForget == ASSUME Calm, NEW object, Forget(object) PROVE Calm'
  BY DEF Calm, AllocationCalm, SeenCalm, PodsCalm, Forget

\* What a replica has read makes it deny whatever asks for much.
LEMMA CalmReview ==
  ASSUME Calm, NEW r \in Replica, NEW size \in SUBSET Resource, size # {}
  PROVE  Review(seen[r], size) \notin {"admitted", "dry-run"}
<1>1. CASE seen[r] = NULL
  BY <1>1 DEF Review
<1>2. CASE seen[r] # NULL
  <2>1. seen[r].mode # "dry-run"
    BY <1>2 DEF Calm, SeenCalm
  <2>2. Exceeded(seen[r].status, size) # {}
    BY DEF Exceeded
  <2> QED
    BY <1>2, <2>1, <2>2 DEF Review
<1> QED
  BY <1>1, <1>2

LEMMA CalmSubmit ==
  ASSUME TInv, Calm, NEW name, NEW size \in SUBSET Resource, NEW answer,
         Submit(name, size, answer)
  PROVE  Calm'
<1>1. UNCHANGED <<allocation, seen>>
  BY DEF Submit
<1>2. \/ pods' = pods
      \/ size = {} /\ pods' = [pods EXCEPT ![name] = [large |-> size, leaving |-> FALSE]]
  <2>1. Endpoint \subseteq Replica
    BY DEF Endpoint
  <2> QED
    BY <2>1, CalmReview DEF Submit
<1>3. PodsCalm'
  <2>1. CASE pods' = pods
    BY <2>1 DEF Calm, PodsCalm
  <2>2. CASE size = {} /\ pods' = [pods EXCEPT ![name] = [large |-> size, leaving |-> FALSE]]
    BY <2>2 DEF Calm, PodsCalm, TInv, ClusterTyped
  <2> QED
    BY <1>2, <2>1, <2>2
<1> QED
  BY <1>1, <1>3 DEF Calm, AllocationCalm, SeenCalm

LEMMA CalmDelete == ASSUME TInv, Calm, NEW name, DeletePodCall(name) PROVE Calm'
<1>1. ASSUME NEW other \in PodName, pods'[other] # NULL PROVE pods'[other].large = {}
  <2>1. pods[other] # NULL /\ pods'[other].large = pods[other].large
    <3>1. CASE pods' = [pods EXCEPT ![name] = NULL]
      BY <1>1, <3>1 DEF TInv, ClusterTyped
    <3>2. CASE pods' = [pods EXCEPT ![name] =
                          IF @ = NULL THEN NULL ELSE [@ EXCEPT !.leaving = TRUE]]
      <4>1. pods'[other] = pods[other] \/ pods'[other] = [pods[other] EXCEPT !.leaving = TRUE]
        BY <3>2 DEF TInv, ClusterTyped
      <4>2. pods[other] # NULL
        BY <1>1, <3>2 DEF TInv, ClusterTyped
      <4>3. pods[other] \in [large : SUBSET Resource, leaving : BOOLEAN]
        BY <4>2 DEF TInv, ClusterTyped
      <4> QED
        BY <4>1, <4>2, <4>3
    <3> QED
      BY <3>1, <3>2 DEF DeletePodCall
  <2> QED
    BY <2>1 DEF Calm, PodsCalm
<1> QED
  BY <1>1 DEF Calm, AllocationCalm, SeenCalm, PodsCalm, DeletePodCall

LEMMA CalmStale ==
  ASSUME TInv, Calm, allocation # NULL, allocation.status # NULL,
         allocation' = [allocation EXCEPT !.status.fresh = FALSE], UNCHANGED <<seen, pods>>
  PROVE  Calm'
<1>1. allocation'.spec = allocation.spec /\ allocation'.status.load = allocation.status.load
  BY StaleTyped
<1> QED
  BY <1>1 DEF Calm, AllocationCalm, SeenCalm, PodsCalm

LEMMA CalmEnvironment == ASSUME TInv, Calm, Environment PROVE Calm'
<1>1. CASE UNCHANGED <<allocation, seen, pods>>
  BY <1>1, CalmStays
<1>2. ASSUME NEW r \in Replica, ReplicaEnds(r) PROVE Calm'
  BY <1>2 DEF ReplicaEnds, Calm, AllocationCalm, SeenCalm, PodsCalm, TInv, ClusterTyped
<1>3. ASSUME NEW r \in Replica, Sync(r) PROVE Calm'
  <2>1. Current # NULL => Current.mode = "enforce" /\ Current.status.load = {}
    BY DEF Current, Calm, AllocationCalm
  <2>2. SeenCalm'
    BY <1>3, <2>1 DEF Sync, Calm, SeenCalm, TInv, ClusterTyped
  <2> QED
    BY <1>3, <2>2 DEF Sync, Calm, AllocationCalm, PodsCalm
<1>4. CASE ReportAllocation
  <2>1. Loads = {}
    BY DEF Loads, Calm, PodsCalm
  <2>2. AllocationCalm'
    BY <1>4, <2>1, ReportTyped DEF Calm, AllocationCalm, Seeded
  <2> QED
    BY <1>4, <2>2 DEF ReportAllocation, Calm, SeenCalm, PodsCalm
<1>5. CASE GoesStale
  BY <1>5, CalmStale DEF GoesStale, CeilingIsUp
<1>6. CASE Finalize
  <2>1. CASE \E object \in deleting : Forget(object)
    BY <2>1, CalmForget
  <2>2. CASE \E name \in PodName : pods' = [pods EXCEPT ![name] = NULL]
             /\ UNCHANGED <<allocation, seen>>
    BY <2>2 DEF Calm, AllocationCalm, SeenCalm, PodsCalm, TInv, ClusterTyped
  <2> QED
    BY <1>6, <2>1, <2>2 DEF Finalize
<1> QED
  BY <1>1, <1>2, <1>3, <1>4, <1>5, <1>6
     DEF Environment, ReplicaStarts, ReplicaLeaves, Sync, ReportCapacity

LEMMA CalmPatch == ASSUME TInv, Calm, PatchSpec, at.n <= 5 PROVE Calm'
<1>1. CASE UNCHANGED cluster
  BY <1>1, CalmStays DEF cluster
<1>2. CASE /\ allocation # NULL
           /\ allocation' = [allocation EXCEPT !.spec = Patched(@, Step.change)]
           /\ UNCHANGED <<seen, pods>>
  <2>1. Step.change \in Changes /\ Step.change \in BudgetChange
    BY DoingRegular DEF PatchSpec, Regular
  <2>2. allocation \in Object
    BY <1>2 DEF TInv, ClusterTyped, AllocationType
  <2>3. Patched(allocation.spec, Step.change).mode = allocation.spec.mode
    BY <2>1, <2>2, PatchTyped DEF Object
  <2>4. allocation'.status = allocation.status /\ allocation'.spec.mode = allocation.spec.mode
    BY <1>2, <2>2, <2>3 DEF Object
  <2> QED
    BY <1>2, <2>4 DEF Calm, AllocationCalm, SeenCalm, PodsCalm
<1> QED
  BY <1>1, <1>2 DEF PatchSpec, Call

LEMMA CalmScript == ASSUME TInv, Calm, ScriptStep, at.n <= 5 PROVE Calm'
<1>1. CASE PatchSpec
  BY <1>1, CalmPatch
<1>2. CASE CreatePod \/ InsistOnDryRun \/ ProbeRejection
  <2>1. PICK what \in {"create", "insist", "probe"} : Doing(what)
    BY <1>2 DEF CreatePod, InsistOnDryRun, ProbeRejection
  <2>2. Step.size \in SUBSET Resource
    BY <2>1, DoingRegular DEF Regular
  <2> QED
    BY <1>2, <2>2, CalmSubmit DEF CreatePod, InsistOnDryRun, ProbeRejection
<1>3. CASE DeletePod \/ ProbeAgain
  BY <1>3, CalmDelete, CalmStays DEF DeletePod, ProbeAgain, Call, cluster
<1>4. CASE KillPods
  BY <1>4, CalmStays DEF KillPods, Call, cluster
<1>5. CASE DropSingleton
  BY <1>5, CalmForget, CalmStays DEF DropSingleton, Call, cluster
<1>6. CASE BackdateLastUpdated
  BY <1>6, CalmStale, CalmStays DEF BackdateLastUpdated, Call, cluster
<1>7. CASE UNCHANGED cluster
  BY <1>7, CalmStays DEF cluster
<1> QED
  BY <1>1, <1>2, <1>3, <1>4, <1>5, <1>6, <1>7, LookStep, RestoredStep, ScenarioDeadlineStep
     DEF ScriptStep, AwaitCeiling

LEMMA CalmStep == TInv /\ (Early => Calm) /\ [Next]_vars => (Early => Calm)'
<1> SUFFICES ASSUME TInv, Early => Calm, [Next]_vars, Early' PROVE Calm'
  OBVIOUS
<1>1. CASE BeforeScripts
  <2>1. Early
    BY <1>1 DEF BeforeScripts, Early, Preflight, Prepare, CheckClusterClean, ApplyDocument,
                AwaitPods, AwaitSupply
  <2>2. UNCHANGED <<allocation, seen, pods>>
    BY <1>1 DEF BeforeScripts, Preflight, Prepare, CheckClusterClean, ApplyDocument,
                AwaitPods, AwaitSupply, Read, Call, cluster
  <2> QED
    BY <2>1, <2>2, CalmStays
<1>2. CASE ScriptStep
  <2>1. at.phase = "scenario" /\ at'.phase = "scenario" /\ at'.n = at.n
    BY <1>2, ScriptStepIs, ScenarioMoves DEF ScenarioStep, Doing
  <2> QED
    BY <1>2, <2>1, CalmScript DEF Early
<1>3. CASE Conclude
  <2>1. at.phase = "scenario" /\ at.n \in 1 .. 12
    BY <1>3 DEF Conclude, TInv, Placed
  <2>2. ~(GoTo("done", 0) \/ GoTo("teardown", 1))
    BY DEF GoTo, Early
  <2>3. GoTo("scenario", at.n + 1) /\ UNCHANGED <<allocation, seen>>
    BY <1>3, <2>2 DEF Conclude, Exit
  <2>4. at'.phase = "scenario" /\ at'.n = at.n + 1
    BY <2>3 DEF GoTo
  <2>5. Early
    BY <2>1, <2>4 DEF Early
  <2>6. \A name \in PodName : pods'[name] # NULL => pods'[name] = pods[name]
    BY <1>3 DEF Conclude
  <2> QED
    BY <2>3, <2>5, <2>6 DEF Calm, AllocationCalm, SeenCalm, PodsCalm
<1>4. CASE AfterScripts
  <2>1. at'.phase \in {"teardown", "gone", "done"}
    BY <1>4 DEF AfterScripts, DeleteObject, AwaitGone, LifecycleDeadline, SetupFails, Removed,
                NotRemoved, NextObject, Exit, GoTo, Call, Read
  <2> QED
    BY <2>1 DEF Early
<1>5. CASE Environment
  <2>1. at' = at
    BY <1>5, EnvironmentStep DEF run
  <2> QED
    BY <1>5, <2>1, CalmEnvironment DEF Early
<1>6. CASE UNCHANGED vars
  BY <1>6, CalmStays DEF vars, run, cluster, Early
<1> QED
  BY <1>1, <1>2, <1>3, <1>4, <1>5, <1>6, StepsAre

\* The answer of a create that counts as a denial.
LEMMA BudgetDenies ==
  ASSUME TInv, Early => Calm, CreatePod, Step.want \cap Denial # {}, verdict' = "pass"
  PROVE  \E r \in Endpoint :
           /\ seen[r] # NULL
           /\ seen[r].mode = "enforce"
           /\ seen[r].status.fresh
           /\ \E res \in Resource : seen[r].status[res] = 0 \/ res \in Step.size
<1>1. PICK answer \in Answer :
        /\ Submit(Step.name, Step.size, answer)
        /\ StepOn(IF answer \in Step.want THEN verdict ELSE "fail")
  BY DEF CreatePod
<1>2. /\ at.phase = "scenario" /\ at.n \in 1 .. 12 /\ Step.size \in SUBSET Resource
      /\ Step.want \subseteq Denial /\ (at.n <= 5 \/ Step.size # {})
  BY DoingRegular DEF CreatePod, Regular
<1>3. answer \in Denial
  <2>1. answer \in Step.want
    BY <1>1 DEF StepOn, StepBy
  <2> QED
    BY <1>2, <2>1
<1>4. PICK r \in Endpoint : answer = Review(seen[r], Step.size)
  BY <1>1, <1>3 DEF Submit, Denial
<1>5. r \in Replica /\ seen[r] \in View \cup {NULL}
  BY DEF Endpoint, TInv, ClusterTyped
<1>6. /\ seen[r] # NULL /\ seen[r].status.fresh /\ seen[r].mode # "dry-run"
      /\ Exceeded(seen[r].status, Step.size) # {}
  BY <1>3, <1>4 DEF Review, Denial
<1>7. seen[r].mode = "enforce"
  BY <1>5, <1>6 DEF View
<1>8. \E res \in Resource : seen[r].status[res] = 0 \/ res \in Step.size
  <2>1. CASE Step.size # {}
    BY <1>2, <2>1
  <2>2. CASE at.n <= 5
    <3>1. seen[r].status.load = {}
      BY <1>2, <1>5, <1>6, <2>2 DEF Early, Calm, SeenCalm
    <3> QED
      BY <1>6, <3>1 DEF Exceeded
  <2> QED
    BY <1>2, <2>1, <2>2
<1> QED
  BY <1>6, <1>7, <1>8

\* A denial that a scenario counts for the webhook (is_denied_403) is the budget's,
\* for any number of replicas and lost calls.
THEOREM BudgetDenial == Spec => DenialIsTheBudgets
<1>1. Init => (Early => Calm)
  BY DEF Init, Calm, AllocationCalm, SeenCalm, PodsCalm
<1>2. Spec => []TInv
  BY InitTInv, TInvStep, PTL DEF Spec
<1>3. Spec => [](Early => Calm)
  BY <1>1, <1>2, CalmStep, PTL DEF Spec
<1> DEFINE Sound ==
      CreatePod /\ Step.want \cap Denial # {} /\ verdict' = "pass" =>
        \E r \in Endpoint :
          /\ seen[r] # NULL
          /\ seen[r].mode = "enforce"
          /\ seen[r].status.fresh
          /\ \E res \in Resource : seen[r].status[res] = 0 \/ res \in Step.size
<1>4. TInv /\ (Early => Calm) => [Sound]_vars
  BY BudgetDenies
<1> HIDE DEF Sound
<1>5. [](TInv /\ (Early => Calm)) => [][Sound]_vars
  BY <1>4, PTL
<1>6. [][Sound]_vars => DenialIsTheBudgets
  BY DEF Sound, DenialIsTheBudgets
<1> QED
  BY <1>2, <1>3, <1>5, <1>6, PTL

-----------------------------------------------------------------------------
(***************************************************************************)
(* What a scenario leaves behind: the spec                                 *)
(***************************************************************************)

Before == at.phase \in {"configure", "build", "push", "connect", "check", "setup", "pods", "supply"}

\* A scenario that passes so far has the spec that its script says, and up to the
\* one that deletes it there is an Allocation.
OnScript ==
  faults = 0 /\ ~failed /\ verdict = "pass" /\ allocation # NULL =>
    allocation.spec = SpecAt(at.n, at.step)

Steady ==
  /\ Before /\ allocation # NULL => allocation.spec = Seeded
  /\ Before \/ at.phase = "scenario" => deleting = {}
  /\ at.phase = "scenario" /\ at.n <= 10 => allocation # NULL
  /\ at.phase = "scenario" => OnScript

LEMMA SeededLate == \A n \in 10 .. 12 : \A k : SpecAt(n, k) = Seeded
  BY DEF SpecAt

\* Where a step that does not patch leads to, unless the scenario fails.
LEMMA PassGoesOn ==
  ASSUME TInv, ScriptStep, ~PatchSpec, verdict' = "pass"
  PROVE  /\ Step.do # "patch" /\ verdict = "pass"
         /\ \/ UNCHANGED at
            \/ at' = [at EXCEPT !.step = @ + 1]
            \/ Doing("await") /\ ~Step.must /\ at' = [at EXCEPT !.step = Len(Script) + 1]
            \/ Doing("probe") /\ at' = [at EXCEPT !.step = @ + (-Step.loop)]
<1>1. CASE AwaitCeiling \/ CreatePod \/ CountDryRuns \/ CompareCapacity \/ ScrapeEndpoints
  BY <1>1 DEF AwaitCeiling, CreatePod, CountDryRuns, CompareCapacity, ScrapeEndpoints, Doing,
              Read, StepOn, StepBy
<1>2. CASE KillPods \/ DropSingleton \/ BackdateLastUpdated
  BY <1>2 DEF KillPods, DropSingleton, BackdateLastUpdated, Doing, Call, StepOn, StepBy, GiveUp
<1>3. CASE DeletePod
  <2>1. Doing("delete") /\ ((verdict = "abort" /\ GiveUp("fail")) \/ StepOn(verdict))
    BY <1>3 DEF DeletePod, Call
  <2> QED
    BY <2>1 DEF Doing, StepOn, StepBy, GiveUp
<1>4. CASE InsistOnDryRun \/ ProbeRejection
  BY <1>4 DEF InsistOnDryRun, ProbeRejection, Doing, StepOn, StepBy
<1>5. CASE ProbeAgain
  BY <1>5 DEF ProbeAgain, Doing, Call, StepBy
<1>6. CASE Restored
  BY <1>6 DEF Restored, Doing, StepOn, StepBy
<1>7. CASE ScenarioDeadline
  BY <1>7 DEF ScenarioDeadline, Doing, StepFails, GiveUp, StepOn, StepBy
<1> QED
  BY <1>1, <1>2, <1>3, <1>4, <1>5, <1>6, <1>7 DEF ScriptStep

\* Such a step leaves the script's spec as it is.
LEMMA SameSpecAt ==
  ASSUME TInv, ScriptStep, ~PatchSpec, verdict' = "pass"
  PROVE  SpecAt(at'.n, at'.step) = SpecAt(at.n, at.step)
<1>1. PICK what \in Done : ScenarioStep(what)
  BY ScriptStepIs
<1>2. /\ at.n \in 1 .. 12 /\ Len(Script) \in 1 .. 8 /\ Script = Suite[at.n]
      /\ at.step \in 1 .. Len(Script)
      /\ Regular(at.n, at.step, Step, Suite[at.n][at.step + 1])
  BY <1>1, DoingRegular DEF ScenarioStep
<1>3. at \in AtType
  BY DEF TInv, RunTyped
<1>4. CASE UNCHANGED at
  BY <1>4
<1>5. CASE at' = [at EXCEPT !.step = @ + 1]
  <2>1. at'.n = at.n /\ at'.step = at.step + 1
    BY <1>3, <1>5 DEF AtType
  <2> QED
    BY <1>2, <2>1, PassGoesOn DEF Regular
<1>6. CASE Doing("await") /\ ~Step.must /\ at' = [at EXCEPT !.step = Len(Script) + 1]
  <2>1. at'.n = at.n /\ at'.step = Len(Script) + 1
    BY <1>3, <1>6 DEF AtType
  <2>2. SpecAt(at.n, at.step) = Seeded
    BY <1>2, <1>6 DEF Doing, Regular
  <2>3. SpecAt(at.n, Len(Script) + 1) = Seeded
    BY <1>2, ScriptsRegular
  <2> QED
    BY <2>1, <2>2, <2>3
<1>7. CASE Doing("probe") /\ at' = [at EXCEPT !.step = @ + (-Step.loop)]
  <2>1. at.n >= 10
    BY <1>2, <1>7 DEF Doing, Regular
  <2>2. at'.n = at.n
    BY <1>3, <1>7 DEF AtType
  <2> QED
    BY <1>2, <2>1, <2>2, SeededLate
<1> QED
  BY <1>4, <1>5, <1>6, <1>7, PassGoesOn

\* What the steps do to the Allocation.
LEMMA SpecKept ==
  ASSUME TInv, ScriptStep, ~PatchSpec
  PROVE  /\ allocation' # NULL => allocation # NULL /\ allocation'.spec = allocation.spec
         /\ allocation # NULL /\ at.n <= 10 => allocation' # NULL
         /\ deleting = {} => deleting' = {}
<1>1. CASE UNCHANGED <<allocation, deleting>>
  BY <1>1
<1>2. CASE CreatePod \/ InsistOnDryRun \/ ProbeRejection
  BY <1>1, <1>2 DEF CreatePod, InsistOnDryRun, ProbeRejection, Submit
<1>3. CASE DeletePod \/ ProbeAgain
  BY <1>1, <1>3 DEF DeletePod, ProbeAgain, Call, DeletePodCall, cluster
<1>4. CASE KillPods
  BY <1>1, <1>4 DEF KillPods, Call, cluster
<1>5. CASE DropSingleton
  <2>1. UNCHANGED cluster \/ \E object : Forget(object)
    BY <1>5 DEF DropSingleton, Call
  <2>2. at.n = 11
    BY <1>5, DoingRegular DEF DropSingleton, Regular
  <2> QED
    BY <1>1, <2>1, <2>2 DEF Forget, cluster
<1>6. CASE BackdateLastUpdated
  <2>1. CASE UNCHANGED cluster
    BY <1>1, <2>1 DEF cluster
  <2>2. CASE /\ allocation # NULL /\ allocation.status # NULL
             /\ allocation' = [allocation EXCEPT !.status.fresh = FALSE] /\ UNCHANGED deleting
    <3>1. at.n = 12
      BY <1>6, DoingRegular DEF BackdateLastUpdated, Regular
    <3> QED
      BY <2>2, <3>1, StaleTyped
  <2> QED
    BY <1>6, <2>1, <2>2 DEF BackdateLastUpdated, Call
<1>7. CASE UNCHANGED cluster
  BY <1>1, <1>7 DEF cluster
<1> QED
  BY <1>2, <1>3, <1>4, <1>5, <1>6, <1>7, LookStep, RestoredStep, ScenarioDeadlineStep
     DEF ScriptStep, AwaitCeiling

LEMMA FaultsCount ==
  ASSUME TInv, faults' = 0 PROVE (UNCHANGED faults \/ Fault) => faults = 0 /\ ~Fault
  BY DEF TInv, RunTyped, Fault

\* No step of a script takes back that a call was lost.
LEMMA FaultsRemain ==
  ASSUME TInv, ScriptStep, faults' = 0 PROVE faults = 0 /\ ~Fault
<1>1. UNCHANGED faults \/ Fault
  BY DEF ScriptStep, PatchSpec, AwaitCeiling, CreatePod, DeletePod, InsistOnDryRun, CountDryRuns,
         CompareCapacity, ScrapeEndpoints, KillPods, DropSingleton, BackdateLastUpdated,
         ProbeRejection, ProbeAgain, Restored, ScenarioDeadline, Call, Read, Submit
<1> QED
  BY <1>1, FaultsCount

LEMMA SteadyPatch == ASSUME TInv, Steady, PatchSpec PROVE Steady'
<1>1. /\ at.phase = "scenario" /\ at.n \in 1 .. 12 /\ Step.do = "patch"
      /\ Regular(at.n, at.step, Step, Suite[at.n][at.step + 1])
  BY DoingRegular DEF PatchSpec
<1>2. at'.phase = "scenario" /\ at'.n = at.n /\ verdict' \in {verdict, "fail", "abort"}
  BY PatchStep, ScenarioMoves
<1>3. at.n <= 9 /\ allocation # NULL /\ deleting = {} /\ Step.change \in Changes
  BY <1>1 DEF Steady, Regular
<1>4. allocation \in Object
  BY <1>3 DEF TInv, ClusterTyped, AllocationType
<1>5. \/ /\ UNCHANGED cluster
         /\ Fault
      \/ /\ allocation' = [allocation EXCEPT !.spec = Patched(@, Step.change)]
         /\ deleting' = deleting
         /\ Fault \/ (StepOn(verdict) /\ UNCHANGED faults)
  BY <1>3 DEF PatchSpec, Call
<1>6. deleting' = {} /\ allocation' # NULL
  <2>1. CASE UNCHANGED cluster
    BY <1>3, <2>1 DEF cluster
  <2>2. CASE /\ allocation' = [allocation EXCEPT !.spec = Patched(@, Step.change)]
             /\ deleting' = deleting
    <3>1. Patched(allocation.spec, Step.change) \in SpecType
      BY <1>3, <1>4, PatchTyped DEF Object
    <3>2. allocation' \in Object
      BY <1>4, <2>2, <3>1 DEF Object
    <3> QED
      BY <1>3, <2>2, <3>2, NullAssumption
  <2> QED
    BY <1>5, <2>1, <2>2
<1>7. OnScript'
  <2>1. SUFFICES ASSUME faults' = 0, ~failed', verdict' = "pass"
                 PROVE  allocation'.spec = SpecAt(at'.n, at'.step)
    BY DEF OnScript
  <2>2. faults = 0 /\ ~Fault
    BY <2>1, FaultsRemain DEF ScriptStep
  <2>3. /\ allocation' = [allocation EXCEPT !.spec = Patched(@, Step.change)]
        /\ StepOn(verdict)
    BY <1>5, <2>2
  <2>4. at'.step = at.step + 1
    BY <2>3 DEF StepOn, StepBy, TInv, RunTyped, AtType
  <2>5. allocation.spec = SpecAt(at.n, at.step)
    BY <1>1, <1>2, <1>3, <2>1, <2>2 DEF Steady, OnScript, PatchSpec
  <2>6. allocation'.spec = Patched(SpecAt(at.n, at.step), Step.change)
    BY <1>4, <2>3, <2>5 DEF Object
  <2> QED
    BY <1>1, <1>2, <2>4, <2>6 DEF Regular
<1> QED
  BY <1>2, <1>6, <1>7 DEF Steady, Before

LEMMA SteadyScript == ASSUME TInv, Steady, ScriptStep, ~PatchSpec PROVE Steady'
<1>1. /\ at.phase = "scenario" /\ at'.phase = "scenario" /\ at'.n = at.n /\ failed' = failed
      /\ verdict' \in {verdict, "fail", "abort"}
  BY ScriptStepIs, ScenarioMoves DEF ScenarioStep, Doing
<1>2. deleting' = {} /\ (at.n <= 10 => allocation' # NULL)
  BY <1>1, SpecKept DEF Steady
<1>3. OnScript'
  <2>1. SUFFICES ASSUME faults' = 0, ~failed', verdict' = "pass", allocation' # NULL
                 PROVE  allocation'.spec = SpecAt(at'.n, at'.step)
    BY DEF OnScript
  <2>2. faults = 0 /\ ~failed /\ verdict = "pass"
    BY <1>1, <2>1, FaultsRemain, PassGoesOn
  <2>3. allocation # NULL /\ allocation'.spec = allocation.spec
    BY <2>1, SpecKept
  <2>4. allocation.spec = SpecAt(at.n, at.step)
    BY <1>1, <2>2, <2>3 DEF Steady, OnScript
  <2> QED
    BY <2>1, <2>3, <2>4, SameSpecAt
<1> QED
  BY <1>1, <1>2, <1>3 DEF Steady, Before

LEMMA SteadyBefore == ASSUME TInv, Steady, BeforeScripts PROVE Steady'
<1>1. Before /\ deleting = {} /\ UNCHANGED <<allocation, deleting>>
  BY DEF BeforeScripts, Preflight, Prepare, CheckClusterClean, ApplyDocument,
         AwaitPods, AwaitSupply, Read, Call, cluster, Before, Steady
<1>2. CASE AwaitSupply
  <2>1. at'.phase = "scenario" /\ at'.n = 1 /\ at'.step = 1 /\ allocation # NULL
    BY <1>2 DEF AwaitSupply, GoTo, CeilingIsUp
  <2>2. allocation.spec = SpecAt(1, 1)
    BY <1>1, <2>1, SpecEnds DEF Steady
  <2> QED
    BY <1>1, <2>1, <2>2 DEF Steady, Before, OnScript
<1>3. CASE Preflight \/ Prepare \/ CheckClusterClean \/ ApplyDocument \/ AwaitPods
  <2>1. at'.phase # "scenario"
    BY <1>3 DEF Preflight, Prepare, CheckClusterClean, ApplyDocument, AwaitPods,
                Read, Call, Exit, SetupFails, GoTo
  <2> QED
    BY <1>1, <2>1 DEF Steady
<1> QED
  BY <1>2, <1>3 DEF BeforeScripts

LEMMA PassConcludes ==
  ASSUME TInv, Steady, Conclude, faults = 0, ~failed', allocation # NULL
  PROVE  allocation.spec = Seeded
<1>1. at.phase = "scenario" /\ at.n \in 1 .. 12 /\ at.step = Len(Suite[at.n]) + 1
  BY DEF Conclude, TInv, Placed, Script
<1>2. ~failed /\ verdict = "pass"
  BY DEF Conclude
<1>3. SpecAt(at.n, at.step) = Seeded
  BY <1>1, ScriptsRegular
<1> QED
  BY <1>1, <1>2, <1>3 DEF Steady, OnScript

LEMMA SteadyConclude == ASSUME TInv, Steady, Conclude PROVE Steady'
<1>1. at.phase = "scenario" /\ at.n \in 1 .. 12 /\ UNCHANGED <<deleting, faults>> /\ deleting = {}
  BY DEF Conclude, TInv, Placed, Steady
<1>2. CASE GoTo("done", 0) \/ GoTo("teardown", 1)
  <2>1. at'.phase \in {"done", "teardown"}
    BY <1>2 DEF GoTo
  <2> QED
    BY <2>1 DEF Steady, Before
<1>3. CASE GoTo("scenario", at.n + 1) /\ UNCHANGED allocation /\ at.n < Len(Suite)
  <2>1. at'.phase = "scenario" /\ at'.n = at.n + 1 /\ at'.step = 1
    BY <1>3 DEF GoTo
  <2>2. at'.n \in 1 .. 12
    BY <1>1, <1>3, <2>1, FirstScripts
  <2>3. SpecAt(at'.n, at'.step) = Seeded
    BY <2>1, <2>2, SpecEnds
  <2>4. OnScript'
    BY <1>1, <1>3, <2>3, PassConcludes DEF OnScript
  <2>5. at'.n <= 10 => allocation' # NULL
    BY <1>1, <1>3, <2>1 DEF Steady
  <2> QED
    BY <1>1, <2>1, <2>4, <2>5 DEF Steady, Before
<1> QED
  BY <1>2, <1>3 DEF Conclude, Exit

LEMMA SteadyEnvironment == ASSUME TInv, Steady, Environment PROVE Steady'
<1>1. UNCHANGED <<at, failed, verdict, faults>>
  BY EnvironmentStep DEF run
<1>2. CASE at.phase \in {"teardown", "gone", "done"}
  BY <1>1, <1>2 DEF Steady, Before
<1>3. CASE Before \/ at.phase = "scenario"
  <2>0. deleting = {}
    BY <1>3 DEF Steady
  <2>1. deleting' = {}
    BY <2>0 DEF Environment, ReplicaStarts, ReplicaLeaves, ReplicaEnds, Sync, ReportAllocation,
                ReportCapacity, GoesStale, Finalize
  <2>2. \/ allocation' = allocation
        \/ /\ allocation # NULL /\ allocation' # NULL /\ allocation'.spec = allocation.spec
        \/ /\ allocation = NULL /\ allocation'.spec = Seeded
    <3>1. CASE ReportAllocation
      BY <3>1, ReportTyped
    <3>2. CASE GoesStale
      <4>1. /\ allocation # NULL /\ allocation'.spec = allocation.spec
            /\ allocation' \in AllocationType
        BY <3>2, StaleTyped DEF GoesStale, CeilingIsUp
      <4>2. allocation' # NULL
        <5>1. allocation \in Object
          BY <4>1 DEF TInv, ClusterTyped, AllocationType
        <5>2. allocation.status \in Status
          BY <3>2, <5>1 DEF Object, GoesStale, CeilingIsUp
        <5>3. [allocation.status EXCEPT !.fresh = FALSE] \in Status
          BY <5>2 DEF Status
        <5>4. allocation' \in Object
          BY <3>2, <5>1, <5>3 DEF GoesStale, Object
        <5> QED
          BY <5>4, NullAssumption
      <4> QED
        BY <4>1, <4>2
    <3> QED
      BY <2>0, <3>1, <3>2 DEF Environment, ReplicaStarts, ReplicaLeaves, ReplicaEnds, Sync,
                ReportCapacity, Finalize
  <2>3. allocation # NULL => allocation' # NULL
    BY <2>2
  <2>4. at.phase = "scenario" => OnScript'
    <3>1. SUFFICES ASSUME at.phase = "scenario", faults = 0, ~failed, verdict = "pass",
                          allocation' # NULL
                   PROVE  allocation'.spec = SpecAt(at.n, at.step)
      BY <1>1 DEF OnScript
    <3>2. CASE allocation # NULL
      BY <2>2, <3>1, <3>2 DEF Steady, OnScript
    <3>3. CASE allocation = NULL
      <4>1. at.n \in 10 .. 12
        BY <3>1, <3>3 DEF Steady, TInv, Placed
      <4> QED
        BY <2>2, <3>1, <3>3, <4>1, SeededLate
    <3> QED
      BY <3>2, <3>3
  <2>5. Before /\ allocation' # NULL => allocation'.spec = Seeded
    BY <2>2 DEF Steady
  <2> QED
    BY <1>1, <2>1, <2>3, <2>4, <2>5 DEF Steady, Before
<1> QED
  BY <1>2, <1>3 DEF TInv, RunTyped, AtType, Phases, Before

LEMMA AfterScriptsLead == ASSUME AfterScripts PROVE at'.phase \in {"teardown", "gone", "done"}
  BY DEF AfterScripts, DeleteObject, AwaitGone, LifecycleDeadline, SetupFails, Removed,
         NotRemoved, NextObject, Exit, GoTo, Call, Read

LEMMA SteadyStep == TInv /\ Steady /\ [Next]_vars => Steady'
<1> SUFFICES ASSUME TInv, Steady, [Next]_vars PROVE Steady'
  OBVIOUS
<1>1. CASE BeforeScripts
  BY <1>1, SteadyBefore
<1>2. CASE ScriptStep
  BY <1>2, SteadyPatch, SteadyScript
<1>3. CASE Conclude
  BY <1>3, SteadyConclude
<1>4. CASE AfterScripts
  BY <1>4, AfterScriptsLead DEF Steady, Before
<1>5. CASE Environment
  BY <1>5, SteadyEnvironment
<1>6. CASE UNCHANGED vars
  BY <1>6 DEF vars, run, cluster, Steady, Before, OnScript
<1> QED
  BY <1>1, <1>2, <1>3, <1>4, <1>5, <1>6, StepsAre

-----------------------------------------------------------------------------
(***************************************************************************)
(* What a scenario leaves behind: the pods                                 *)
(***************************************************************************)

Live(name) == pods[name] # NULL /\ ~pods[name].leaving

\* The step under way is going to delete the pod.
Pending(name) ==
  /\ at.step <= Len(Script)
  /\ Step.do \in {"delete", "probe"}
  /\ Step.name = name
  /\ Step.do = "delete" => (Step.ifCreated => last = "admitted")
  /\ Step.do = "probe" => last = "admitted"

Tidy ==
  /\ Before => \A name \in PodName : pods[name] = NULL
  /\ at.phase = "scenario" /\ faults = 0 =>
       \A name \in PodName : Live(name) => Pending(name)

\* Nobody waits to be deleted, and no pod has come.
LEMMA TidyNone ==
  ASSUME at.phase = "scenario", at'.phase = "scenario", \A name \in PodName : ~Live(name)'
  PROVE  Tidy'
  BY DEF Tidy, Before

LEMMA NoneStay ==
  ASSUME \A name \in PodName : ~Live(name), UNCHANGED pods
  PROVE  \A name \in PodName : ~Live(name)'
  BY DEF Live

\* A create, and the pod it may have stored.
LEMMA SubmitStores ==
  ASSUME TInv, NEW name, NEW size, NEW answer, Submit(name, size, answer), ~Fault,
         \A other \in PodName : ~Live(other)
  PROVE  /\ \A other \in PodName : Live(other)' => other = name
         /\ answer # "admitted" => \A other \in PodName : ~Live(other)'
<1>1. \/ UNCHANGED pods
      \/ answer = "admitted" /\ pods' = [pods EXCEPT ![name] = [large |-> size, leaving |-> FALSE]]
  BY DEF Submit
<1> QED
  BY <1>1 DEF Live, TInv, ClusterTyped

\* A delete, and the pods that are left.
LEMMA DeleteRemoves ==
  ASSUME TInv, NEW name, DeletePodCall(name), \A other \in PodName : Live(other) => other = name
  PROVE  \A other \in PodName : ~Live(other)'
<1>1. ASSUME NEW other \in PodName PROVE ~Live(other)'
  <2>1. CASE other # name
    <3>1. pods'[other] = pods[other]
      BY <2>1 DEF DeletePodCall, TInv, ClusterTyped
    <3> QED
      BY <2>1, <3>1 DEF Live
  <2>2. CASE other = name
    <3>1. CASE pods[other] = NULL
      BY <2>2, <3>1 DEF DeletePodCall, TInv, ClusterTyped, Live
    <3>2. CASE pods[other] # NULL
      <4>1. pods'[other] = NULL \/ pods'[other] = [pods[other] EXCEPT !.leaving = TRUE]
        BY <2>2, <3>2 DEF DeletePodCall, TInv, ClusterTyped
      <4>2. pods[other] \in [large : SUBSET Resource, leaving : BOOLEAN]
        BY <3>2 DEF TInv, ClusterTyped
      <4> QED
        BY <4>1, <4>2 DEF Live
    <3> QED
      BY <3>1, <3>2
  <2> QED
    BY <2>1, <2>2
<1> QED
  BY <1>1

LEMMA OthersPending ==
  ASSUME Tidy, faults = 0, NEW what, Doing(what)
  PROVE  /\ \A name \in PodName : Live(name) => Step.name = name
         /\ what \notin {"delete", "probe"} => \A name \in PodName : ~Live(name)
         /\ what = "delete" /\ Step.ifCreated /\ last # "admitted" =>
              \A name \in PodName : ~Live(name)
         /\ what = "probe" /\ last # "admitted" => \A name \in PodName : ~Live(name)
  BY DEF Tidy, Pending, Doing

LEMMA TidyCreate == ASSUME TInv, Tidy, CreatePod, faults' = 0 PROVE Tidy'
<1>1. /\ at.phase = "scenario" /\ Script = Suite[at.n] /\ Len(Script) \in 1 .. 8
      /\ at.n \in 1 .. 12 /\ at.step \in 1 .. Len(Script)
      /\ Regular(at.n, at.step, Step, Suite[at.n][at.step + 1])
  BY DoingRegular DEF CreatePod
<1>2. faults = 0 /\ ~Fault
  BY FaultsRemain DEF ScriptStep
<1>3. \A name \in PodName : ~Live(name)
  BY <1>2, OthersPending DEF CreatePod
<1>4. PICK answer \in Answer :
        /\ Submit(Step.name, Step.size, answer)
        /\ last' = answer
        /\ \E v : StepOn(v)
  BY DEF CreatePod
<1>5. at'.phase = "scenario" /\ at'.n = at.n /\ at'.step = at.step + 1
  BY <1>1, <1>4 DEF StepOn, StepBy, TInv, RunTyped, AtType
<1>6. CASE answer # "admitted"
  BY <1>1, <1>2, <1>3, <1>4, <1>5, <1>6, SubmitStores, TidyNone
<1>7. CASE answer = "admitted"
  <2>1. Script' = Script /\ Step' = Suite[at.n][at.step + 1]
    BY <1>1, <1>5 DEF Script, Step
  <2>2. at'.step <= Len(Script) /\ Step'.do = "delete" /\ Step'.name = Step.name
    <3>1. CASE Step.do = "create"
      <4>1. at.step < Len(Script)
        BY <1>1, <3>1 DEF Regular
      <4>2. PICK l \in 1 .. 8 : l = Len(Script)
        BY <1>1
      <4>3. at.step + 1 <= l
        BY <1>1, <4>1, <4>2
      <4> QED
        BY <1>1, <1>5, <2>1, <3>1, <4>2, <4>3 DEF Regular
    <3> QED
      BY <3>1 DEF CreatePod, Doing
  <2>3. \A name \in PodName : Live(name)' => name = Step.name
    BY <1>2, <1>3, <1>4, SubmitStores
  <2>4. \A name \in PodName : Live(name)' => Pending(name)'
    BY <1>4, <1>7, <2>1, <2>2, <2>3 DEF Pending
  <2> QED
    BY <1>5, <2>4 DEF Tidy, Before
<1> QED
  BY <1>6, <1>7

LEMMA TidyInsist == ASSUME TInv, Tidy, InsistOnDryRun, faults' = 0 PROVE Tidy'
<1>1. /\ at.phase = "scenario" /\ Script = Suite[at.n] /\ Len(Script) \in 1 .. 8
      /\ at.n \in 1 .. 12 /\ at.step \in 1 .. Len(Script)
      /\ Regular(at.n, at.step, Step, Suite[at.n][at.step + 1])
      /\ Step.do = "insist"
  BY DoingRegular DEF InsistOnDryRun
<1>2. faults = 0 /\ ~Fault
  BY FaultsRemain DEF ScriptStep
<1>3. \A name \in PodName : ~Live(name)
  BY <1>2, OthersPending DEF InsistOnDryRun
<1>4. PICK answer \in Answer :
        /\ Submit(Step.name, Step.size, answer)
        /\ last' = answer
        /\ answer = "admitted" => StepOn(verdict)
  BY DEF InsistOnDryRun
<1>5. at'.phase = "scenario"
  BY InsistStep, ScenarioMoves
<1>6. CASE answer # "admitted"
  BY <1>1, <1>2, <1>3, <1>4, <1>5, <1>6, SubmitStores, TidyNone
<1>7. CASE answer = "admitted"
  <2>0. at'.n = at.n /\ at'.step = at.step + 1
    BY <1>1, <1>4, <1>7 DEF StepOn, StepBy, TInv, RunTyped, AtType
  <2>1. Script' = Script /\ Step' = Suite[at.n][at.step + 1]
    BY <1>1, <2>0 DEF Script, Step
  <2>2. at.step < Len(Script) /\ Step'.do = "delete" /\ Step'.name = Step.name /\ ~Step'.ifCreated
    BY <1>1, <2>1 DEF Regular
  <2>3. at'.step <= Len(Script)
    <3>1. PICK l \in 1 .. 8 : l = Len(Script)
      BY <1>1
    <3>2. at.step + 1 <= l
      BY <1>1, <2>2, <3>1
    <3> QED
      BY <2>0, <3>1, <3>2
  <2>4. \A name \in PodName : Live(name)' => name = Step.name
    BY <1>2, <1>3, <1>4, SubmitStores
  <2>5. \A name \in PodName : Live(name)' => Pending(name)'
    BY <2>1, <2>2, <2>3, <2>4 DEF Pending
  <2> QED
    BY <1>5, <2>5 DEF Tidy, Before
<1> QED
  BY <1>6, <1>7

LEMMA TidyProbe == ASSUME TInv, Tidy, ProbeRejection, faults' = 0 PROVE Tidy'
<1>1. at.phase = "scenario" /\ at.step <= Len(Script) /\ Step.do = "probe" /\ last # "admitted"
  BY DEF ProbeRejection, Doing
<1>2. faults = 0 /\ ~Fault
  BY FaultsRemain DEF ScriptStep
<1>3. \A name \in PodName : ~Live(name)
  BY <1>1, <1>2, OthersPending DEF ProbeRejection
<1>4. PICK answer \in Answer :
        /\ Submit(Step.name, Step.size, answer)
        /\ last' = answer
        /\ answer = "admitted" => UNCHANGED at
  BY DEF ProbeRejection
<1>5. at'.phase = "scenario"
  BY ProbeStep, ScenarioMoves
<1>6. CASE answer # "admitted"
  BY <1>1, <1>2, <1>3, <1>4, <1>5, <1>6, SubmitStores, TidyNone
<1>7. CASE answer = "admitted"
  <2>1. UNCHANGED at /\ Script' = Script /\ Step' = Step
    BY <1>4, <1>7 DEF Script, Step
  <2>2. \A name \in PodName : Live(name)' => name = Step.name
    BY <1>2, <1>3, <1>4, SubmitStores
  <2>3. \A name \in PodName : Live(name)' => Pending(name)'
    BY <1>1, <1>4, <1>7, <2>1, <2>2 DEF Pending
  <2> QED
    BY <1>5, <2>3 DEF Tidy, Before
<1> QED
  BY <1>6, <1>7

LEMMA TidyDelete == ASSUME TInv, Tidy, DeletePod \/ ProbeAgain, faults' = 0 PROVE Tidy'
<1>1. at.phase = "scenario" /\ at'.phase = "scenario"
  BY DeleteStep, ProbeStep, ScenarioMoves DEF ScenarioStep, Doing
<1>2. faults = 0 /\ ~Fault
  BY FaultsRemain DEF ScriptStep
<1>3. \A name \in PodName : Live(name) => name = Step.name
  BY <1>2, OthersPending DEF DeletePod, ProbeAgain
<1>4. CASE DeletePodCall(Step.name)
  BY <1>1, <1>3, <1>4, DeleteRemoves, TidyNone
<1>5. CASE DeletePod /\ Step.ifCreated /\ last # "admitted" /\ UNCHANGED pods
  BY <1>1, <1>2, <1>5, OthersPending, NoneStay, TidyNone DEF DeletePod
<1> QED
  BY <1>2, <1>4, <1>5 DEF DeletePod, ProbeAgain, Call, cluster

\* The steps that have nothing to do with pods.
LEMMA TidyElse ==
  ASSUME TInv, Tidy, ScriptStep, faults' = 0,
         ~CreatePod, ~InsistOnDryRun, ~ProbeRejection, ~DeletePod, ~ProbeAgain
  PROVE  Tidy'
<1>1. at.phase = "scenario" /\ at'.phase = "scenario"
  BY ScriptStepIs, ScenarioMoves DEF ScenarioStep, Doing
<1>2. faults = 0
  BY FaultsRemain
<1>3. \A name \in PodName : ~Live(name)
  <2>1. CASE ScenarioDeadline
    BY <1>2, <2>1, OthersPending DEF ScenarioDeadline
  <2>2. CASE \/ PatchSpec \/ AwaitCeiling \/ CountDryRuns \/ CompareCapacity \/ ScrapeEndpoints
             \/ KillPods \/ DropSingleton \/ BackdateLastUpdated \/ Restored
    <3>1. PICK what \in Done \ {"delete", "probe"} : Doing(what)
      BY <2>2 DEF PatchSpec, AwaitCeiling, CountDryRuns, CompareCapacity, ScrapeEndpoints,
                  KillPods, DropSingleton, BackdateLastUpdated, Restored, Done
    <3> QED
      BY <1>2, <3>1, OthersPending
  <2> QED
    BY <2>1, <2>2 DEF ScriptStep
<1>4. UNCHANGED pods
  BY DEF ScriptStep, PatchSpec, AwaitCeiling, CountDryRuns, CompareCapacity, ScrapeEndpoints,
         KillPods, DropSingleton, BackdateLastUpdated, Restored, ScenarioDeadline,
         Call, Read, Forget, cluster
<1> QED
  BY <1>1, <1>3, <1>4, NoneStay, TidyNone

LEMMA TidyScript == ASSUME TInv, Tidy, ScriptStep PROVE Tidy'
<1>1. at'.phase = "scenario"
  BY ScriptStepIs, ScenarioMoves
<1>2. CASE faults' # 0
  BY <1>1, <1>2 DEF Tidy, Before
<1>3. CASE faults' = 0
  BY <1>3, TidyCreate, TidyInsist, TidyProbe, TidyDelete, TidyElse
<1> QED
  BY <1>2, <1>3

LEMMA TidyBefore == ASSUME TInv, Tidy, BeforeScripts PROVE Tidy'
<1>1. Before /\ UNCHANGED pods
  BY DEF BeforeScripts, Preflight, Prepare, CheckClusterClean, ApplyDocument,
         AwaitPods, AwaitSupply, Read, Call, cluster, Before
<1>2. \A name \in PodName : pods'[name] = NULL
  BY <1>1 DEF Tidy
<1> QED
  BY <1>2 DEF Tidy, Live

LEMMA PassRemoves == ASSUME TInv, Tidy, Conclude, faults = 0 PROVE NoPodLeft
<1>1. at.phase = "scenario" /\ at.n \in 1 .. 12 /\ at.step = Len(Script) + 1
  BY DEF Conclude, TInv, Placed
<1>2. PICK l \in 1 .. 8 : l = Len(Script)
  BY <1>1, ScriptsRegular DEF Script
<1>3. ~(at.step <= Len(Script))
  BY <1>1, <1>2
<1> QED
  BY <1>1, <1>3 DEF Tidy, Pending, Live, NoPodLeft

LEMMA TidyConclude == ASSUME TInv, Tidy, Conclude PROVE Tidy'
<1>1. faults' = faults /\ at'.phase \in {"scenario", "teardown", "done"}
  BY DEF Conclude, GoTo, Exit
<1>2. ASSUME faults = 0, NEW name \in PodName PROVE ~Live(name)'
  <2>1. pods'[name] = NULL \/ pods'[name] = pods[name]
    BY DEF Conclude
  <2>2. pods[name] # NULL => pods[name].leaving
    BY <1>2, PassRemoves DEF NoPodLeft
  <2> QED
    BY <2>1, <2>2 DEF Live
<1> QED
  BY <1>1, <1>2 DEF Tidy, Before

LEMMA TidyEnvironment == ASSUME TInv, Tidy, Environment PROVE Tidy'
<1>1. UNCHANGED <<at, last, faults>>
  BY EnvironmentStep DEF run
<1>2. \A name \in PodName : pods'[name] = pods[name] \/ pods'[name] = NULL
  BY DEF Environment, ReplicaStarts, ReplicaLeaves, ReplicaEnds, Sync, ReportAllocation,
         ReportCapacity, GoesStale, Finalize, Forget, TInv, ClusterTyped
<1>3. \A name \in PodName : Live(name)' => Live(name)
  BY <1>2 DEF Live
<1>4. \A name \in PodName : Pending(name)' <=> Pending(name)
  BY <1>1 DEF Pending, Script, Step
<1> QED
  BY <1>1, <1>2, <1>3, <1>4 DEF Tidy, Before

LEMMA TidyStep == TInv /\ Tidy /\ [Next]_vars => Tidy'
<1> SUFFICES ASSUME TInv, Tidy, [Next]_vars PROVE Tidy'
  OBVIOUS
<1>1. CASE BeforeScripts
  BY <1>1, TidyBefore
<1>2. CASE ScriptStep
  BY <1>2, TidyScript
<1>3. CASE Conclude
  BY <1>3, TidyConclude
<1>4. CASE AfterScripts
  BY <1>4, AfterScriptsLead DEF Tidy, Before
<1>5. CASE Environment
  BY <1>5, TidyEnvironment
<1>6. CASE UNCHANGED vars
  BY <1>6 DEF vars, run, cluster, Tidy, Before, Live, Pending, Script, Step
<1> QED
  BY <1>1, <1>2, <1>3, <1>4, <1>5, <1>6, StepsAre

\* As long as no call is lost, every scenario leaves no pod behind (delete_pod), and
\* as long as all pass each leaves the spec as it found it (restore_budget,
\* restore_per_resource_budgets, patch_enforcement).
THEOREM BaselineIsLeft == Spec => PassLeavesBaseline
<1>1. Init => Steady /\ Tidy
  BY DEF Init, Steady, Tidy
<1>2. Spec => []TInv
  BY InitTInv, TInvStep, PTL DEF Spec
<1>3. Spec => [](Steady /\ Tidy)
  BY <1>1, <1>2, SteadyStep, TidyStep, PTL DEF Spec
<1> DEFINE Left ==
      Conclude /\ faults = 0 =>
        /\ NoPodLeft
        /\ ~failed' /\ allocation # NULL => allocation.spec = Seeded
<1>4. TInv /\ Steady /\ Tidy => [Left]_vars
  BY PassConcludes, PassRemoves
<1> HIDE DEF Left
<1>5. [](TInv /\ Steady /\ Tidy) => [][Left]_vars
  BY <1>4, PTL
<1>6. [][Left]_vars => PassLeavesBaseline
  BY DEF Left, PassLeavesBaseline
<1> QED
  BY <1>2, <1>3, <1>5, <1>6, PTL
=============================
