------------------------------ MODULE Reducer ------------------------------
(* rubegoldberg: programs made of stages are run under golua and, twice,    *)
(* under the reference; a program on which they differ is reduced by        *)
(* leaving stages out as long as the difference stays, and saved.           *)
EXTENDS Integers, Sequences

CONSTANTS ReferenceOutput(_),  \* what the reference prints for a program
          GoluaOutput(_, _),   \* what golua prints, wrong in some way about a stage
          Pool,       \* stages with their parameters, that programs are made of
          Depth,      \* stages in a program (--depth)
          Count,      \* programs in an invocation (--count)
          Bugs,       \* ways golua may be wrong about a stage
          MaxNoise    \* bound: runs that fail for a reason of their own
ASSUME ReducerAssumption == Depth \in Nat \ {0} /\ Count \in Nat

VARIABLES bug,        \* the way golua is wrong
          keep_going, \* --keep-going
          pc,         \* what main is doing
          count,      \* programs generated
          generated,  \* the program main works on
          prog,       \* reduce: what is left of it
          at,         \* reduce: the stage to leave out next
          tally,      \* programs by verdict
          saved,      \* the failures saved: program and outputs
          report,     \* corpus/report.txt
          exit,       \* exit status
          noise,      \* runs that have failed for a reason of their own
          disturbed   \* ghost: such a run has met this program
vars == <<bug, keep_going, pc, count, generated, prog, at, tally, saved, report, exit,
          noise, disturbed>>

Verdicts == {"PASS", "DIFF", "RESOURCE", "NONDET", "INVALID"}
-----------------------------------------------------------------------------
(* A run: the exit code (none when it timed out), the output, and whether   *)
(* it failed for want of resources.  Death by a signal is not seen as such. *)
Clean(out) == [rc |-> 0, out |-> out, resource |-> FALSE]
TimedOut == [rc |-> -1, out |-> <<<<"<timeout>">>>>, resource |-> TRUE]
Killed == [rc |-> -9, out |-> <<>>, resource |-> FALSE]
Garbled(out) == [rc |-> 1, out |-> Append(out, <<"noise">>), resource |-> FALSE]
NoisyRuns(out) == {TimedOut, Killed, Garbled(out)}

(* classify: the reference decides first whether the program is usable.     *)
classify(r, r2, g) ==
  IF r.resource THEN "RESOURCE"
  ELSE IF r.out # r2.out THEN "NONDET"
  ELSE IF r.rc \notin {0, 1} THEN "INVALID"
  ELSE IF g.resource THEN "RESOURCE"
  ELSE IF g.out = r.out THEN "PASS" ELSE "DIFF"
(* golua is only run when the reference was usable; classify returns the    *)
(* raw outputs it has.                                                      *)
RawOf(r, r2, g) == [golua |-> IF r.resource \/ r.out # r2.out \/ r.rc \notin {0, 1}
                              THEN <<>> ELSE g.out,
                    ref   |-> r.out]
(* The three runs of a program: as they should be, or one of them not.      *)
CleanRuns(program) ==
  <<Clean(ReferenceOutput(program)), Clean(ReferenceOutput(program)),
    Clean(GoluaOutput(program, bug))>>
RunsOf(program) ==
  UNION {{clean} \union (IF noise = MaxNoise THEN {}
                         ELSE {[clean EXCEPT ![n] = bad] :
                                 n \in 1 .. 3, bad \in NoisyRuns(clean[1].out)})
         : clean \in {CleanRuns(program)}}
reproduces(runs) == classify(runs[1], runs[2], runs[3]) = "DIFF"
Differs(program) == reproduces(CleanRuns(program))    \* without noise

Noted(program, runs) == /\ noise' = IF runs = CleanRuns(program) THEN noise ELSE noise + 1
                        /\ disturbed' = (disturbed \/ runs # CleanRuns(program))
-----------------------------------------------------------------------------
Init == /\ bug \in Bugs /\ keep_going \in BOOLEAN
        /\ pc = "generate" /\ count = 0 /\ generated = <<>> /\ prog = <<>> /\ at = 0
        /\ tally = [v \in Verdicts |-> 0] /\ saved = <<>> /\ report = <<>> /\ exit = 0
        /\ noise = 0 /\ disturbed = FALSE

(* generate: Depth stages drawn one by one.                                 *)
Generate == /\ pc = "generate" /\ count < Count
            /\ \E s \in Pool : generated' = Append(generated, s)
            /\ IF Len(generated') = Depth THEN pc' = "classify" /\ count' = count + 1
               ELSE UNCHANGED <<pc, count>>
            /\ UNCHANGED <<bug, keep_going, prog, at, tally, saved, report, exit, noise,
                           disturbed>>

Classify == /\ pc = "classify"
            /\ \E runs \in RunsOf(generated) :
                 LET verdict == classify(runs[1], runs[2], runs[3])
                 IN /\ tally' = [tally EXCEPT ![verdict] = @ + 1]
                    /\ Noted(generated, runs)
                    /\ IF verdict = "DIFF"
                       THEN pc' = "reduce" /\ prog' = generated /\ at' = 1
                            /\ UNCHANGED generated
                       ELSE pc' = "generate" /\ prog' = <<>> /\ at' = 0 /\ generated' = <<>>
            /\ UNCHANGED <<bug, keep_going, count, saved, report, exit>>

(* reduce, one candidate: the program without one stage.  When it still     *)
(* differs it takes the place of the program, and the search starts over.   *)
Without(program, n) == SubSeq(program, 1, n - 1) \o SubSeq(program, n + 1, Len(program))
(* Mutant: a candidate is taken though it does not differ.                  *)
TryWithoutAnyway ==
  /\ pc = "reduce" /\ Len(prog) > 1 /\ at <= Len(prog)
  /\ LET cand == Without(prog, at)
     IN \E runs \in RunsOf(cand) :
          Noted(cand, runs) /\ prog' = cand /\ at' = 1
  /\ UNCHANGED <<bug, keep_going, pc, count, generated, tally, saved, report, exit>>
(* Mutant: after a success the search goes on where it was.                 *)
TryWithoutOnce ==
  /\ pc = "reduce" /\ Len(prog) > 1 /\ at <= Len(prog)
  /\ LET cand == Without(prog, at)
     IN \E runs \in RunsOf(cand) :
          /\ Noted(cand, runs)
          /\ IF reproduces(runs) THEN prog' = cand /\ UNCHANGED at
             ELSE at' = at + 1 /\ UNCHANGED prog
  /\ UNCHANGED <<bug, keep_going, pc, count, generated, tally, saved, report, exit>>
(* Mutant: the search starts over after a failure, too.                     *)
TryWithoutAlways ==
  /\ pc = "reduce" /\ Len(prog) > 1 /\ at <= Len(prog)
  /\ LET cand == Without(prog, at)
     IN \E runs \in RunsOf(cand) :
          /\ Noted(cand, runs)
          /\ at' = IF at = 1 THEN 2 ELSE 1
          /\ IF reproduces(runs) THEN prog' = cand ELSE UNCHANGED prog
  /\ UNCHANGED <<bug, keep_going, pc, count, generated, tally, saved, report, exit>>

TryWithout ==
  /\ pc = "reduce" /\ Len(prog) > 1 /\ at <= Len(prog)
  /\ LET cand == Without(prog, at)
     IN \E runs \in RunsOf(cand) :
          /\ Noted(cand, runs)
          /\ IF reproduces(runs) THEN prog' = cand /\ at' = 1
             ELSE at' = at + 1 /\ UNCHANGED prog
  /\ UNCHANGED <<bug, keep_going, pc, count, generated, tally, saved, report, exit>>

(* Mutant: each failure is saved under the same name.                       *)
SaveOver ==
  /\ pc = "reduce" /\ (Len(prog) <= 1 \/ at > Len(prog))
  /\ \E runs \in RunsOf(prog) :
       /\ Noted(prog, runs)
       /\ saved' = <<[prog |-> prog, raw |-> RawOf(runs[1], runs[2], runs[3])]>>
  /\ pc' = IF keep_going THEN "generate" ELSE "report"
  /\ generated' = <<>> /\ prog' = <<>> /\ at' = 0
  /\ UNCHANGED <<bug, keep_going, count, tally, report, exit>>

(* reduce returns when no stage can be left out; the program is classified  *)
(* once more for the outputs that are saved with it.                        *)
Save ==
  /\ pc = "reduce" /\ (Len(prog) <= 1 \/ at > Len(prog))
  /\ \E runs \in RunsOf(prog) :
       /\ Noted(prog, runs)
       /\ saved' = Append(saved, [prog |-> prog, raw |-> RawOf(runs[1], runs[2], runs[3])])
  /\ pc' = IF keep_going THEN "generate" ELSE "report"
  /\ generated' = <<>> /\ prog' = <<>> /\ at' = 0
  /\ UNCHANGED <<bug, keep_going, count, tally, report, exit>>

Report ==
  /\ pc = "report" \/ (pc = "generate" /\ count = Count)
  /\ report' = [tally |-> tally, found |-> Len(saved)]
  /\ exit' = IF saved = <<>> THEN 0 ELSE 1
  /\ pc' = "shell"
  /\ UNCHANGED <<bug, keep_going, count, generated, prog, at, tally, saved, noise,
                 disturbed>>

Next == Generate \/ Classify \/ TryWithout \/ Save \/ Report
(* Every run of an interpreter ends: it is killed when its time is up.      *)
Spec == Init /\ [][Next]_vars /\ WF_vars(Next)
-----------------------------------------------------------------------------
Subsequence(s, t) ==
  \E f \in [1 .. Len(s) -> 1 .. Len(t)] :
    /\ \A i \in 1 .. Len(s) : s[i] = t[f[i]]
    /\ \A i, j \in 1 .. Len(s) : i < j => f[i] < f[j]

(* The reduction never leaves the failure: what is left of the program is   *)
(* at every moment a nonempty subsequence of the stages generated, and as   *)
(* long as every run was what it should be it still differs.                *)
StillFails ==
  pc = "reduce" => /\ prog # <<>> /\ Subsequence(prog, generated)
                   /\ ~disturbed => Differs(prog)

(* The failure saved is minimal: leave out any one stage more and golua and *)
(* the reference agree, though the stages before and after feed each other. *)
OneMinimal ==
  ~disturbed => \A i \in 1 .. Len(saved) :
    /\ Differs(saved[i].prog)
    /\ Len(saved[i].prog) > 1 =>
         \A n \in 1 .. Len(saved[i].prog) : ~Differs(Without(saved[i].prog, n))
    /\ saved[i].raw.golua # saved[i].raw.ref

(* The report and the exit status tell what happened: each program counts   *)
(* under one verdict, each DIFF was saved, and only --keep-going goes on    *)
(* after the first.                                                         *)
ReportTells ==
  pc = "shell" =>
    /\ report.found = Len(saved) /\ report.tally["DIFF"] = Len(saved)
    /\ Len(saved) <= count /\ (exit = 1) = (saved # <<>>)
    /\ LET t == report.tally
       IN t["PASS"] + t["DIFF"] + t["RESOURCE"] + t["NONDET"] + t["INVALID"] = count
    /\ count = Count \/ (~keep_going /\ Len(saved) = 1)

(* Every reduction comes to an end, however often the search starts over,   *)
(* and every invocation reports.                                            *)
ReductionEnds == <>(pc = "shell")
=============================================================================
