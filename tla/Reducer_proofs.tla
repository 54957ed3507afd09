--------------------------- MODULE Reducer_proofs ---------------------------
(***************************************************************************)
(* What the reducer of rubegoldberg promises, for any stages, any outputs  *)
(* of the two interpreters, any number of programs and of disturbed runs.  *)
(* IInv says what main and reduce know at each moment.                     *)
(***************************************************************************)
EXTENDS Reducer, SequenceTheorems, TLAPS

ReducerTypeOK ==
  /\ pc \in {"generate", "classify", "reduce", "report", "shell"}
  /\ keep_going \in BOOLEAN /\ disturbed \in BOOLEAN
  /\ count \in Nat /\ at \in Nat /\ tally \in [Verdicts -> Nat]
  /\ generated \in Seq(Pool) /\ prog \in Seq(Pool)
  /\ \E S : saved \in Seq(S)
(* A program is complete when it is classified.                            *)
Complete == pc = "classify" => Len(generated) = Depth
(* Each stage tried so far is needed.                                      *)
NeededSoFar ==
  pc = "reduce" => /\ at >= 1
                   /\ ~disturbed /\ Len(prog) > 1 =>
                        \A n \in 1 .. Len(prog) : n < at => ~Differs(Without(prog, n))
(* A program is counted when it is generated, its verdict when it is        *)
(* classified, and a DIFF is saved when it is reduced.                      *)
Total == tally["PASS"] + tally["DIFF"] + tally["RESOURCE"] + tally["NONDET"]
           + tally["INVALID"]
Pending(step) == IF pc = step THEN 1 ELSE 0
Counted == /\ Total + Pending("classify") = count
           /\ Len(saved) + Pending("reduce") = tally["DIFF"]
           /\ pc \in {"generate", "classify", "reduce"} /\ ~keep_going => saved = <<>>
           /\ pc = "report" => ~keep_going /\ Len(saved) = 1

IInv == /\ ReducerTypeOK /\ Complete /\ StillFails /\ NeededSoFar /\ OneMinimal
        /\ Counted /\ ReportTells
-----------------------------------------------------------------------------
LEMMA WithoutFacts ==
  ASSUME NEW p \in Seq(Pool), NEW n \in 1 .. Len(p)
  PROVE  /\ Without(p, n) \in Seq(Pool)
         /\ Len(Without(p, n)) = Len(p) - 1
         /\ \A i \in 1 .. Len(p) - 1 :
              Without(p, n)[i] = p[IF i < n THEN i ELSE i + 1]
<1> DEFINE before == SubSeq(p, 1, n - 1)
           after  == SubSeq(p, n + 1, Len(p))
<1>0. Len(p) \in Nat /\ n \in Nat /\ n - 1 \in Int /\ n + 1 \in Int
  OBVIOUS
<1>1. /\ before \in Seq(Pool) /\ Len(before) = n - 1
      /\ \A i \in 1 .. n - 1 : before[i] = p[i]
  <2>1. \A i \in 1 .. n - 1 : p[i] \in Pool
    BY <1>0
  <2> QED
    BY <2>1, <1>0, SubSeqProperties
<1>2. /\ after \in Seq(Pool) /\ Len(after) = Len(p) - n
      /\ \A i \in 1 .. Len(p) - n : after[i] = p[n + i]
  <2>1. \A i \in n + 1 .. Len(p) : p[i] \in Pool
    BY <1>0
  <2> QED
    BY <2>1, <1>0, SubSeqProperties
<1>3. ASSUME NEW s \in Seq(Pool), NEW t \in Seq(Pool),
             Len(s) = n - 1, Len(t) = Len(p) - n
      PROVE  /\ s \o t \in Seq(Pool)
             /\ Len(s \o t) = Len(p) - 1
             /\ \A i \in 1 .. Len(p) - 1 : (s \o t)[i] =
                  IF i < n THEN s[i] ELSE t[i - (n - 1)]
  <2>1. /\ s \o t \in Seq(Pool)
        /\ Len(s \o t) = Len(s) + Len(t)
        /\ \A i \in 1 .. Len(s) + Len(t) : (s \o t)[i] =
             IF i <= Len(s) THEN s[i] ELSE t[i - Len(s)]
    BY ConcatProperties
  <2> QED
    BY <1>0, <1>3, <2>1
<1>4. /\ before \o after \in Seq(Pool)
      /\ Len(before \o after) = Len(p) - 1
      /\ \A i \in 1 .. Len(p) - 1 : (before \o after)[i] =
           IF i < n THEN before[i] ELSE after[i - (n - 1)]
  BY <1>1, <1>2, <1>3
<1>5. Without(p, n) = before \o after
  BY DEF Without
<1>6. ASSUME NEW i \in 1 .. Len(p) - 1
      PROVE  Without(p, n)[i] = p[IF i < n THEN i ELSE i + 1]
  <2> HIDE DEF before, after
  <2>1. CASE i < n
    <3>1. i \in 1 .. n - 1
      BY <2>1, <1>0
    <3> QED
      BY <2>1, <3>1, <1>1, <1>4, <1>5
  <2>2. CASE ~(i < n)
    <3>1. i - (n - 1) \in 1 .. Len(p) - n /\ n + (i - (n - 1)) = i + 1
      BY <2>2, <1>0
    <3> QED
      BY <2>2, <3>1, <1>2, <1>4, <1>5
  <2> QED
    BY <2>1, <2>2
<1> QED
  BY <1>4, <1>5, <1>6

LEMMA SubsequenceReflexive ==
  ASSUME NEW p \in Seq(Pool)
  PROVE  Subsequence(p, p)
<1> DEFINE f == [i \in 1 .. Len(p) |-> i]
<1>1. f \in [1 .. Len(p) -> 1 .. Len(p)]
  OBVIOUS
<1> QED
  BY <1>1 DEF Subsequence

(* Leaving out one stage more leaves a subsequence.                        *)
LEMMA WithoutIsSubsequence ==
  ASSUME NEW p \in Seq(Pool), NEW t \in Seq(Pool), Subsequence(p, t),
         NEW n \in 1 .. Len(p)
  PROVE  Subsequence(Without(p, n), t)
<1>1. PICK f \in [1 .. Len(p) -> 1 .. Len(t)] :
        /\ \A i \in 1 .. Len(p) : p[i] = t[f[i]]
        /\ \A i, j \in 1 .. Len(p) : i < j => f[i] < f[j]
  BY DEF Subsequence
<1> DEFINE less == Len(p) - 1
           kept(i) == IF i < n THEN i ELSE i + 1
           g == [i \in 1 .. less |-> f[kept(i)]]
<1>2. Len(p) \in Nat /\ Len(t) \in Nat /\ less \in Nat
  OBVIOUS
<1>3. \A i \in 1 .. less : kept(i) \in 1 .. Len(p)
  BY <1>2
<1>4. \A i, j \in 1 .. less : i < j => kept(i) < kept(j)
  BY <1>2
<1>5. /\ Len(Without(p, n)) = less
      /\ \A i \in 1 .. less : Without(p, n)[i] = p[kept(i)]
  BY WithoutFacts
<1> HIDE DEF kept, less
<1>6. g \in [1 .. less -> 1 .. Len(t)]
  BY <1>1, <1>3
<1>7. \A i \in 1 .. less : Without(p, n)[i] = t[g[i]]
  BY <1>1, <1>3, <1>5
<1>8. \A i, j \in 1 .. less : i < j => g[i] < g[j]
  BY <1>1, <1>3, <1>4
<1> HIDE DEF g
<1> QED
  BY <1>5, <1>6, <1>7, <1>8 DEF Subsequence

(* Every verdict is one of the five, and a program without noise that is    *)
(* classified DIFF has two different outputs.                               *)
LEMMA VerdictFacts ==
  ASSUME NEW r, NEW r2, NEW g
  PROVE  classify(r, r2, g) \in Verdicts
BY DEF classify, Verdicts

LEMMA DiffersFacts ==
  ASSUME NEW p, Differs(p)
  PROVE  LET runs == CleanRuns(p)
             raw  == RawOf(runs[1], runs[2], runs[3])
         IN raw.golua # raw.ref
BY DEF Differs, reproduces, CleanRuns, classify, RawOf, Clean

(* Differs reads nothing but the way golua is wrong, which never changes.   *)
LEMMA DiffersStable ==
  ASSUME bug' = bug
  PROVE  /\ \A p : CleanRuns(p)' = CleanRuns(p)
         /\ \A p : Differs(p)' = Differs(p)
BY DEF Differs, CleanRuns

LEMMA AppendFacts ==
  ASSUME NEW S, NEW s \in Seq(S), NEW e
  PROVE  /\ \E T : Append(s, e) \in Seq(T)
         /\ Len(Append(s, e)) = Len(s) + 1
         /\ \A i \in 1 .. Len(s) : Append(s, e)[i] = s[i]
         /\ Append(s, e)[Len(s) + 1] = e
<1>1. s \in Seq(S \cup {e}) /\ e \in S \cup {e}
  OBVIOUS
<1> QED
  BY <1>1, AppendProperties
-----------------------------------------------------------------------------
LEMMA EmptyProgram == <<>> \in Seq(Pool)
OBVIOUS

LEMMA ReducerInit == Init => IInv
<1> SUFFICES ASSUME Init PROVE IInv
  OBVIOUS
<1>1. saved \in Seq({}) /\ Len(saved) = 0
  BY DEF Init
<1>2. \E S : saved \in Seq(S)
  BY <1>1
<1>3. ReducerTypeOK
  <2>1. tally \in [Verdicts -> Nat]
    BY DEF Init
  <2>2. generated \in Seq(Pool) /\ prog \in Seq(Pool)
    BY EmptyProgram DEF Init
  <2>3. /\ pc \in {"generate"} /\ keep_going \in BOOLEAN /\ disturbed \in BOOLEAN
        /\ count \in Nat /\ at \in Nat
    BY DEF Init
  <2> QED
    BY <1>2, <2>1, <2>2, <2>3 DEF ReducerTypeOK
<1>4. Counted
  BY <1>1 DEF Init, Counted, Total, Pending, Verdicts
<1> QED
  BY <1>1, <1>3, <1>4
  DEF Init, IInv, Complete, StillFails, NeededSoFar, OneMinimal, ReportTells

(* Nothing but Save adds to what OneMinimal speaks of.                     *)
LEMMA OneMinimalKept ==
  ASSUME OneMinimal, bug' = bug, saved' = saved, disturbed => disturbed'
  PROVE  OneMinimal'
BY DiffersStable DEF OneMinimal, Without

LEMMA GenerateInv == IInv /\ Generate => IInv'
<1> SUFFICES ASSUME IInv, Generate PROVE IInv'
  OBVIOUS
<1> USE DEF IInv, Generate
<1>1. PICK s \in Pool : generated' = Append(generated, s)
  OBVIOUS
<1>2. generated' \in Seq(Pool)
  BY <1>1 DEF ReducerTypeOK
<1>3. pc' \in {"generate", "classify"} /\ count' \in Nat
  BY DEF ReducerTypeOK
<1>4. ReducerTypeOK'
  BY <1>2, <1>3 DEF ReducerTypeOK
<1>5. Complete'
  BY DEF Complete
<1>6. StillFails' /\ NeededSoFar' /\ ReportTells'
  BY <1>3 DEF StillFails, NeededSoFar, ReportTells
<1>7. OneMinimal'
  BY OneMinimalKept
<1>8. Counted'
  <2>1. Total' = Total /\ saved' = saved /\ tally' = tally /\ keep_going' = keep_going
    BY DEF Total
  <2>2. /\ Pending("classify") = 0 /\ Pending("reduce") = 0 /\ Pending("reduce")' = 0
        /\ count' = count + Pending("classify")'
    BY <1>3 DEF Pending, ReducerTypeOK
  <2>3. Total \in Nat /\ Pending("classify")' \in Nat
    BY <1>3 DEF Total, Verdicts, ReducerTypeOK, Pending
  <2>4. Total' + Pending("classify")' = count'
    BY <2>1, <2>2, <2>3 DEF Counted
  <2>5. Len(saved') + Pending("reduce")' = tally'["DIFF"]
    BY <2>1, <2>2 DEF Counted
  <2> QED
    BY <2>1, <2>4, <2>5, <1>3 DEF Counted
<1> QED
  BY <1>4, <1>5, <1>6, <1>7, <1>8

LEMMA ClassifyInv == IInv /\ Classify => IInv'
<1> SUFFICES ASSUME IInv, Classify PROVE IInv'
  OBVIOUS
<1> USE DEF IInv
<1>1. PICK runs \in RunsOf(generated) :
        /\ tally' = [tally EXCEPT ![classify(runs[1], runs[2], runs[3])] = @ + 1]
        /\ Noted(generated, runs)
        /\ IF classify(runs[1], runs[2], runs[3]) = "DIFF"
           THEN pc' = "reduce" /\ prog' = generated /\ at' = 1 /\ UNCHANGED generated
           ELSE pc' = "generate" /\ prog' = <<>> /\ at' = 0 /\ generated' = <<>>
  BY DEF Classify
<1>2. /\ pc = "classify"
      /\ UNCHANGED <<bug, keep_going, count, saved, report, exit>>
  BY DEF Classify
<1> DEFINE verdict == classify(runs[1], runs[2], runs[3])
<1>3. verdict \in Verdicts
  BY VerdictFacts
<1>4. disturbed' \in BOOLEAN /\ (disturbed => disturbed')
  BY <1>1 DEF Noted, ReducerTypeOK
<1>5. ~disturbed' => runs = CleanRuns(generated)
  BY <1>1 DEF Noted
<1>6. tally' = [tally EXCEPT ![verdict] = @ + 1] /\ tally' \in [Verdicts -> Nat]
  <2> HIDE DEF verdict
  <2>1. tally' = [tally EXCEPT ![verdict] = @ + 1]
    BY <1>1 DEF verdict
  <2> QED
    BY <2>1, <1>3 DEF ReducerTypeOK
<1>7. /\ verdict = "DIFF" => pc' = "reduce" /\ prog' = generated /\ at' = 1
                             /\ generated' = generated
      /\ verdict # "DIFF" => pc' = "generate" /\ prog' = <<>> /\ at' = 0
                             /\ generated' = <<>>
  BY <1>1
<1>8. verdict = "DIFF" /\ ~disturbed' => Differs(generated)
  BY <1>5 DEF Differs, reproduces
<1> HIDE DEF verdict
<1>9. ReducerTypeOK'
  <2>1. \E S : saved' \in Seq(S)
    BY <1>2 DEF ReducerTypeOK
  <2>2. /\ pc' \in {"generate", "reduce"} /\ at' \in Nat
        /\ generated' \in Seq(Pool) /\ prog' \in Seq(Pool)
    <3>1. generated \in Seq(Pool)
      BY DEF ReducerTypeOK
    <3>2. CASE verdict = "DIFF"
      BY <3>1, <3>2, <1>7
    <3>3. CASE verdict # "DIFF"
      BY <3>3, <1>7, EmptyProgram
    <3> QED
      BY <3>2, <3>3
  <2> QED
    BY <2>1, <2>2, <1>2, <1>4, <1>6 DEF ReducerTypeOK
<1>10. Complete' /\ ReportTells'
  BY <1>7 DEF Complete, ReportTells
<1>11. StillFails'
  <2>1. Len(generated) # 0 /\ generated \in Seq(Pool)
    BY <1>2, ReducerAssumption DEF Complete, ReducerTypeOK
  <2>2. generated # <<>> /\ Subsequence(generated, generated)
    BY <2>1, SubsequenceReflexive
  <2> QED
    BY <2>2, <1>2, <1>7, <1>8, DiffersStable DEF StillFails, Subsequence
<1>12. NeededSoFar'
  BY <1>7 DEF NeededSoFar
<1>13. OneMinimal'
  BY <1>2, <1>4, OneMinimalKept
<1>14. Counted'
  <2>1. Total' = Total + 1
    <3>1. tally \in [Verdicts -> Nat]
      BY DEF ReducerTypeOK
    <3>2. PICK t, u, d :
            /\ t = tally /\ u = tally' /\ d = verdict /\ d \in Verdicts
            /\ t \in [Verdicts -> Nat] /\ u = [t EXCEPT ![d] = @ + 1]
      BY <3>1, <1>3, <1>6, Zenon
    <3>3. u["PASS"] + u["DIFF"] + u["RESOURCE"] + u["NONDET"] + u["INVALID"]
          = t["PASS"] + t["DIFF"] + t["RESOURCE"] + t["NONDET"] + t["INVALID"] + 1
      <4> HIDE DEF IInv
      <4> QED
        BY <3>2 DEF Verdicts
    <3> QED
      BY <3>2, <3>3, Zenon DEF Total
  <2>2. tally'["DIFF"] = tally["DIFF"] + (IF verdict = "DIFF" THEN 1 ELSE 0)
    BY <1>3, <1>6 DEF Verdicts, ReducerTypeOK
  <2>3. Pending("classify") = 1 /\ Pending("reduce") = 0 /\ Pending("classify")' = 0
        /\ Pending("reduce")' = IF verdict = "DIFF" THEN 1 ELSE 0
    BY <1>2, <1>7 DEF Pending
  <2>4. Len(saved) \in Nat /\ Total \in Nat /\ tally["DIFF"] \in Nat
    BY DEF ReducerTypeOK, Total, Verdicts
  <2>5. Total' + Pending("classify")' = count'
    BY <2>1, <2>3, <2>4, <1>2 DEF Counted
  <2>6. Len(saved') + Pending("reduce")' = tally'["DIFF"]
    BY <2>2, <2>3, <2>4, <1>2 DEF Counted
  <2>7. ~keep_going' => saved' = <<>>
    BY <1>2 DEF Counted
  <2> QED
    BY <2>5, <2>6, <2>7, <1>7 DEF Counted
<1> QED
  BY <1>9, <1>10, <1>11, <1>12, <1>13, <1>14

LEMMA TryWithoutInv == IInv /\ TryWithout => IInv'
<1> SUFFICES ASSUME IInv, TryWithout PROVE IInv'
  OBVIOUS
<1> USE DEF IInv
<1> DEFINE cand == Without(prog, at)
<1>1. PICK runs \in RunsOf(cand) :
        /\ Noted(cand, runs)
        /\ IF reproduces(runs) THEN prog' = cand /\ at' = 1
           ELSE at' = at + 1 /\ UNCHANGED prog
  BY DEF TryWithout
<1>2. /\ pc = "reduce" /\ pc' = "reduce" /\ Len(prog) > 1 /\ at <= Len(prog)
      /\ UNCHANGED <<bug, keep_going, count, generated, tally, saved, report, exit>>
  BY DEF TryWithout
<1>3. /\ prog \in Seq(Pool) /\ generated \in Seq(Pool) /\ Len(prog) \in Nat
      /\ at \in 1 .. Len(prog)
  BY <1>2 DEF ReducerTypeOK, NeededSoFar
<1>4. cand \in Seq(Pool) /\ Len(cand) = Len(prog) - 1 /\ cand # <<>>
  BY <1>2, <1>3, WithoutFacts
<1>5. Subsequence(cand, generated)
  BY <1>2, <1>3, WithoutIsSubsequence DEF StillFails
<1>6. disturbed' \in BOOLEAN /\ (disturbed => disturbed')
  BY <1>1 DEF Noted, ReducerTypeOK
<1>7. ~disturbed' => (reproduces(runs) <=> Differs(cand))
  BY <1>1 DEF Noted, Differs
<1> HIDE DEF cand
<1>8. ReducerTypeOK'
  <2>1. \E S : saved' \in Seq(S)
    BY <1>2 DEF ReducerTypeOK
  <2>2. prog' \in Seq(Pool) /\ at' \in Nat
    BY <1>1, <1>3, <1>4
  <2> QED
    BY <2>1, <2>2, <1>2, <1>3, <1>6 DEF ReducerTypeOK
<1>9. Complete' /\ ReportTells'
  BY <1>2 DEF Complete, ReportTells
<1>10. StillFails'
  <2>1. prog' # <<>> /\ Subsequence(prog', generated)
    BY <1>1, <1>2, <1>4, <1>5 DEF StillFails
  <2>2. ~disturbed' => Differs(prog')
    BY <1>1, <1>2, <1>6, <1>7 DEF StillFails
  <2>3. ~disturbed' => Differs(prog)'
    BY <2>2, <1>2 DEF Differs, CleanRuns
  <2> QED
    BY <2>1, <2>3, <1>2 DEF StillFails, Subsequence
<1>11. NeededSoFar'
  <2>1. CASE reproduces(runs)
    <3>1. at' = 1
      BY <2>1, <1>1
    <3> QED
      BY <3>1 DEF NeededSoFar
  <2>2. CASE ~reproduces(runs)
    <3>1. at' = at + 1 /\ prog' = prog
      BY <2>2, <1>1
    <3>2. ASSUME ~disturbed', NEW n \in 1 .. Len(prog), n < at + 1
          PROVE  ~Differs(Without(prog, n))
      <4>1. CASE n = at
        BY <4>1, <3>2, <2>2, <1>7 DEF cand
      <4>2. CASE n # at
        <5>1. n < at
          BY <4>2, <3>2, <1>3
        <5> QED
          BY <5>1, <3>2, <1>2, <1>6 DEF NeededSoFar
      <4> QED
        BY <4>1, <4>2
    <3>3. \A n \in 1 .. Len(prog) : Differs(Without(prog, n))' = Differs(Without(prog, n))
      BY <3>1, <1>2 DEF Differs, CleanRuns, Without
    <3> QED
      BY <3>1, <3>2, <3>3, <1>3 DEF NeededSoFar, Without
  <2> QED
    BY <2>1, <2>2
<1>12. OneMinimal'
  BY <1>2, <1>6, OneMinimalKept
<1>13. Counted'
  BY <1>2 DEF Counted, Total, Pending
<1> QED
  BY <1>8, <1>9, <1>10, <1>11, <1>12, <1>13

LEMMA SaveInv == IInv /\ Save => IInv'
<1> SUFFICES ASSUME IInv, Save PROVE IInv'
  OBVIOUS
<1> USE DEF IInv
<1>1. PICK runs \in RunsOf(prog) :
        /\ Noted(prog, runs)
        /\ saved' = Append(saved, [prog |-> prog,
                                   raw  |-> RawOf(runs[1], runs[2], runs[3])])
  BY DEF Save
<1>2. /\ pc = "reduce" /\ (Len(prog) <= 1 \/ at > Len(prog))
      /\ pc' = IF keep_going THEN "generate" ELSE "report"
      /\ generated' = <<>> /\ prog' = <<>> /\ at' = 0
      /\ UNCHANGED <<bug, keep_going, count, tally, report, exit>>
  BY DEF Save
<1> DEFINE failure == [prog |-> prog, raw |-> RawOf(runs[1], runs[2], runs[3])]
<1>3. disturbed' \in BOOLEAN /\ (disturbed => disturbed')
  BY <1>1 DEF Noted, ReducerTypeOK
<1>4. /\ \E S : saved' \in Seq(S)
      /\ Len(saved') = Len(saved) + 1 /\ Len(saved) \in Nat
      /\ \A i \in 1 .. Len(saved) : saved'[i] = saved[i]
      /\ saved'[Len(saved) + 1] = failure
  <2>1. PICK S : saved \in Seq(S)
    BY DEF ReducerTypeOK
  <2>2. saved' = Append(saved, failure)
    BY <1>1
  <2> HIDE DEF failure
  <2>3. /\ \E T : Append(saved, failure) \in Seq(T)
        /\ Len(Append(saved, failure)) = Len(saved) + 1
        /\ \A i \in 1 .. Len(saved) : Append(saved, failure)[i] = saved[i]
        /\ Append(saved, failure)[Len(saved) + 1] = failure
    BY <2>1, AppendFacts
  <2>4. Len(saved) \in Nat
    BY <2>1
  <2> QED
    BY <2>2, <2>3, <2>4
<1>5. ReducerTypeOK'
  BY <1>2, <1>3, <1>4, EmptyProgram DEF ReducerTypeOK
<1>6. Complete' /\ StillFails' /\ NeededSoFar' /\ ReportTells'
  BY <1>2 DEF Complete, StillFails, NeededSoFar, ReportTells
<1>7. OneMinimal'
  <2>1. SUFFICES ASSUME ~disturbed', NEW i \in 1 .. Len(saved')
        PROVE  /\ Differs(saved'[i].prog)
               /\ Len(saved'[i].prog) > 1 =>
                    \A n \in 1 .. Len(saved'[i].prog) :
                      ~Differs(Without(saved'[i].prog, n))
               /\ saved'[i].raw.golua # saved'[i].raw.ref
    BY <1>2 DEF OneMinimal, Differs, CleanRuns, Without
  <2>2. CASE i <= Len(saved)
    BY <2>1, <2>2, <1>3, <1>4 DEF OneMinimal
  <2>3. CASE i = Len(saved) + 1
    <3>1. saved'[i] = failure /\ runs = CleanRuns(prog)
      BY <2>1, <2>3, <1>1, <1>4 DEF Noted
    <3>2. Differs(prog)
      BY <2>1, <1>2, <1>3 DEF StillFails
    <3>3. ASSUME Len(prog) > 1, NEW n \in 1 .. Len(prog)
          PROVE  ~Differs(Without(prog, n))
      <4>1. n < at
        BY <3>3, <1>2 DEF ReducerTypeOK
      <4> QED
        BY <4>1, <3>3, <2>1, <1>2, <1>3 DEF NeededSoFar
    <3>4. failure.raw.golua # failure.raw.ref
      BY <3>1, <3>2, DiffersFacts
    <3> QED
      BY <3>1, <3>2, <3>3, <3>4
  <2> QED
    BY <2>2, <2>3, <1>4
<1>8. Counted'
  <2>1. Total' = Total /\ Pending("classify") = 0 /\ Pending("classify")' = 0
    BY <1>2 DEF Total, Pending
  <2>2. Pending("reduce") = 1 /\ Pending("reduce")' = 0
    BY <1>2 DEF Pending
  <2>3. ~keep_going => Len(saved') = 1
    BY <1>2, <1>4 DEF Counted
  <2> QED
    BY <2>1, <2>2, <2>3, <1>2, <1>4 DEF Counted
<1> QED
  BY <1>5, <1>6, <1>7, <1>8

LEMMA ReportInv == IInv /\ Report => IInv'
<1> SUFFICES ASSUME IInv, Report PROVE IInv'
  OBVIOUS
<1> USE DEF IInv, Report
<1>1. ReducerTypeOK'
  BY DEF ReducerTypeOK
<1>2. Complete' /\ StillFails' /\ NeededSoFar'
  BY DEF Complete, StillFails, NeededSoFar
<1>3. OneMinimal'
  BY OneMinimalKept
<1>4. /\ Len(saved) \in Nat /\ (saved # <<>> <=> Len(saved) # 0)
      /\ Total = count /\ Len(saved) = tally["DIFF"] /\ Len(saved) <= count
  <2>1. /\ Len(saved) \in Nat /\ (saved # <<>> <=> Len(saved) # 0)
    BY DEF ReducerTypeOK
  <2>2. \A v \in Verdicts : tally[v] \in Nat
    BY DEF ReducerTypeOK
  <2>3. Pending("classify") = 0 /\ Pending("reduce") = 0
    BY DEF Pending
  <2> QED
    BY <2>1, <2>2, <2>3 DEF Counted, Total, Verdicts
<1>5. Counted'
  BY <1>4 DEF Counted, Total, Pending, ReducerTypeOK
<1>6. ReportTells'
  BY <1>4 DEF ReportTells, Counted, Total, ReducerTypeOK
<1> QED
  BY <1>1, <1>2, <1>3, <1>5, <1>6
-----------------------------------------------------------------------------
LEMMA ReducerNext == IInv /\ [Next]_vars => IInv'
<1> SUFFICES ASSUME IInv, [Next]_vars PROVE IInv'
  OBVIOUS
<1>1. CASE Generate
  BY <1>1, GenerateInv
<1>2. CASE Classify
  BY <1>2, ClassifyInv
<1>3. CASE TryWithout
  BY <1>3, TryWithoutInv
<1>4. CASE Save
  BY <1>4, SaveInv
<1>5. CASE Report
  BY <1>5, ReportInv
<1>6. CASE UNCHANGED vars
  <2> USE <1>6 DEF vars, IInv
  <2>1. ReducerTypeOK' /\ Complete' /\ NeededSoFar'
    BY DEF ReducerTypeOK, Complete, NeededSoFar, Differs, CleanRuns, Without
  <2>2. StillFails' /\ ReportTells'
    BY DEF StillFails, ReportTells, Subsequence, Differs, CleanRuns
  <2>3. OneMinimal'
    BY OneMinimalKept
  <2>4. Counted'
    BY DEF Counted, Total, Pending
  <2> QED
    BY <2>1, <2>2, <2>3, <2>4
<1> QED
  BY <1>1, <1>2, <1>3, <1>4, <1>5, <1>6 DEF Next

LEMMA ReducerInvariant == Spec => []IInv
BY ReducerInit, ReducerNext, PTL DEF Spec

(* reduce never leaves the failure: every program it holds is a nonempty    *)
(* subsequence of the one generated, and differs if no run was disturbed.   *)
THEOREM ReductionStillFails == Spec => []StillFails
<1>1. IInv => StillFails
  BY DEF IInv
<1> QED
  BY <1>1, ReducerInvariant, PTL

(* What reduce returns and save_failure saves is minimal: no one stage can  *)
(* be left out of it.                                                       *)
THEOREM SavedIsMinimal == Spec => []OneMinimal
<1>1. IInv => OneMinimal
  BY DEF IInv
<1> QED
  BY <1>1, ReducerInvariant, PTL

(* The tally, the failures saved and the exit status of main agree.         *)
THEOREM ReportIsTrue == Spec => []ReportTells
<1>1. IInv => ReportTells
  BY DEF IInv
<1> QED
  BY <1>1, ReducerInvariant, PTL
=============================================================================
