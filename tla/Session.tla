------------------------------ MODULE Session ------------------------------
(* Sessions of one of the harnesses that judge a program at a time: the     *)
(* programs it plans, the interpreters run on each, the verdict, and the    *)
(* report, the evidence and the exit status at the end.                     *)
EXTENDS Verdicts

CONSTANTS CasesOf,      \* number of cases of each harness
          RandomCases,  \* number of random cases of sandboxfuzz and pairsfuzz
          Batch,        \* cases in one program of a harness that batches them
          MaxSaved,     \* lead files pairsfuzz writes at most (50 in the code)
          MaxSessions   \* bound: sessions one after the other

VARIABLES harness,   \* which harness
          session,   \* number of the session
          pc,        \* what main is doing
          todo,      \* programs not yet run
          unit,      \* the program that runs
          gout, rout,\* its outcomes
          tally,     \* main: the counts kept over the session
          exit,      \* exit status of the last session
          tmp,       \* programs and drivers left in /tmp
          report,    \* corpus/report.txt
          evidence,  \* the other files of corpus/, by name
          faults     \* ghost: what this session judged to be a fault
vars == <<harness, session, pc, todo, unit, gout, rout, tally, exit, tmp, report,
          evidence, faults>>

Harnesses == {"sandbox", "bytecode", "compile", "math", "coroutine", "debug", "pairs"}
ASSUME SessionAssumption ==
  /\ CasesOf \in [Harnesses -> Nat] /\ RandomCases \in Nat
  /\ Batch \in Nat \ {0} /\ MaxSaved \in Nat \ {0} /\ MaxSessions \in Nat
OneSided == {"sandbox", "bytecode"}           \* no reference
WithDriver == {"bytecode", "compile"}         \* one driver for all the programs
NoOutcome == [how |-> "", rc |-> 0, err |-> "", hung |-> FALSE, lines |-> <<>>]
NoTally == [escapes |-> 0, hangs |-> 0, leads |-> 0, judged |-> 0]
-----------------------------------------------------------------------------
(* The programs each main runs, in order; a program has a kind and one or   *)
(* more cases.  "cases" gives for each case whether mathfuzz wants its      *)
(* result exact.                                                            *)
Program(kind, no, n) == [kind |-> kind, no |-> no, cases |-> [i \in 1 .. n |-> i % 2 = 1]]
(* Mutant: the last cases, too few to fill a program, are left out.         *)
ChunksFull(kind, total) == [no \in 1 .. total \div Batch |-> Program(kind, no, Batch)]

Chunks(kind, total) == \* total cases, Batch of them to a program
  [no \in 1 .. (total + Batch - 1) \div Batch |->
     Program(kind, no, IF no * Batch <= total THEN Batch ELSE total % Batch)]
Singles(kind, total) == [no \in 1 .. total |-> Program(kind, no, 1)]

SandboxPlan == Singles("curated", CasesOf["sandbox"]) \o Singles("rand", RandomCases)
BytecodePlan == Singles("mutant", CasesOf["bytecode"])
CompilePlan == Singles("candidate", CasesOf["compile"])
MathPlan == Chunks("batch", CasesOf["math"])
CoroutinePlan == Chunks("batch", CasesOf["coroutine"])
DebugPlan == <<Program("LINEHOOK", 1, Batch)>> \o Singles("ERRLINE", CasesOf["debug"])
             \o <<Program("DEBUGAPI", 1, 1)>>
PairsPlan == Singles("fixed", CasesOf["pairs"]) \o Chunks("rand", RandomCases)
Plan(h) == CASE h = "sandbox"   -> SandboxPlan
             [] h = "bytecode"  -> BytecodePlan
             [] h = "compile"   -> CompilePlan
             [] h = "math"      -> MathPlan
             [] h = "coroutine" -> CoroutinePlan
             [] h = "debug"     -> DebugPlan
             [] OTHER           -> PairsPlan

(* What an interpreter may answer for a case; the first answer is the one   *)
(* the reference always gives.                                              *)
Ok(tokens) == [st |-> "ok", tokens |-> tokens]
Err(message) == [st |-> "err", message |-> message]
MathAnswers == {Ok(<<Float(FALSE, 1)>>), Ok(<<Float(FALSE, 1 + Tolerance)>>),
                Ok(<<Float(FALSE, 2 + Tolerance)>>), Ok(<<Float(FALSE, 0)>>),
                Ok(<<Float(TRUE, 0)>>), Ok(<<Other("I", 1)>>), Ok(<<>>), Err("m"), Err("n")}
CompileAnswers == [core : {"OK", "limit", "C stack overflow"}, loc : {"", "near"}]
Traversals == {<<<<"k", 1>>, <<"l", 2>>>>, <<<<"l", 2>>, <<"k", 1>>>>,
               <<<<"k", 1>>>>, <<<<"k", 1>>, <<"k", 1>>>>}
PairsAnswers == {TraversalReport(p[1], p[2], FALSE) : p \in Traversals \X Traversals}
AnswersOf(h) == CASE h \in OneSided  -> {}
                  [] h = "math"      -> MathAnswers
                  [] h = "compile"   -> CompileAnswers
                  [] h = "pairs"     -> PairsAnswers
                  [] OTHER           -> {"a", "b"}
UsualAnswers(h) ==
  CASE h = "math"    -> {Ok(<<Float(FALSE, 1)>>), Ok(<<Float(FALSE, 0)>>), Err("m")}
    [] h = "pairs"   -> {TraversalReport(v, v, FALSE) : v \in {<<<<"k", 1>>, <<"l", 2>>>>}}
    [] OTHER         -> AnswersOf(h)

(* The lines a program has printed when its process ends.  math, coroutine  *)
(* and debug programs print all their lines at their end, the programs of   *)
(* pairsfuzz one by one; those of the one-sided harnesses are not read.     *)
Filled(n, answers) ==
  {[i \in 1 .. n |-> [id |-> i, val |-> f[i]]] : f \in [1 .. n -> answers]}
LinesOf(u, answers) ==
  LET n == Len(u.cases)
  IN CASE harness \in OneSided -> {<<>>}
       [] harness = "pairs"    -> UNION {Filled(m, answers) : m \in 0 .. n}
       [] OTHER                -> {<<>>} \union Filled(n, answers)
Complete(end, lines, u) == end.how = "finished" =>
                             harness \in OneSided \/ Len(lines) = Len(u.cases)
-----------------------------------------------------------------------------
Init == /\ harness \in Harnesses
        /\ session = 0 /\ pc = "shell" /\ todo = <<>> /\ unit = <<>>
        /\ gout = NoOutcome /\ rout = NoOutcome /\ tally = NoTally /\ exit = 0
        /\ tmp = {} /\ report = <<>> /\ evidence = <<>> /\ faults = 0

(* main starts: the plan is made and, where one is shared, the driver       *)
(* written.                                                                 *)
Start == /\ pc = "shell" /\ session < MaxSessions
         /\ session' = session + 1 /\ pc' = "next" /\ todo' = Plan(harness)
         /\ tally' = NoTally /\ faults' = 0
         /\ tmp' = IF harness \in WithDriver
                   THEN tmp \union {[session |-> session', kind |-> "driver"]} ELSE tmp
         /\ unit' = <<>> /\ gout' = NoOutcome /\ rout' = NoOutcome
         /\ UNCHANGED <<harness, exit, report, evidence>>

ProgramFile == [session |-> session, kind |-> "program"]
WriteProgram ==
  /\ pc = "next" /\ todo # <<>>
  /\ unit' = Head(todo) /\ todo' = Tail(todo) /\ pc' = "golua"
  /\ tmp' = tmp \union {ProgramFile}
  /\ gout' = NoOutcome /\ rout' = NoOutcome
  /\ UNCHANGED <<harness, session, tally, exit, report, evidence, faults>>

RunGolua ==
  /\ pc = "golua"
  /\ \/ \E end \in Ends : \E lines \in LinesOf(unit, AnswersOf(harness)) :
          Complete(end, lines, unit) /\ gout' = Outcome(end, lines)
     \/ gout' = Hung
  /\ pc' = IF harness \in OneSided THEN "judge" ELSE "reference"
  /\ UNCHANGED <<harness, session, todo, unit, rout, tally, exit, tmp, report,
                 evidence, faults>>

(* Mutant: when the reference times out, both interpreters run again.       *)
RunReferenceRetries ==
  /\ pc = "reference"
  /\ \/ /\ \E end \in {e \in Ends : e.how \in {"finished", "killed"}} :
           \E lines \in LinesOf(unit, UsualAnswers(harness)) :
             /\ Complete(end, lines, unit)
             /\ end.how = "killed" => lines = <<>>
             /\ rout' = Outcome(end, lines)
        /\ pc' = "judge" /\ UNCHANGED gout
     \/ pc' = "golua" /\ gout' = NoOutcome /\ UNCHANGED rout
  /\ UNCHANGED <<harness, session, todo, unit, tally, exit, tmp, report, evidence, faults>>

(* The reference finishes, is killed when memory runs out, or times out.    *)
RunReference ==
  /\ pc = "reference"
  /\ \/ \E end \in {e \in Ends : e.how \in {"finished", "killed"}} :
        \E lines \in LinesOf(unit, UsualAnswers(harness)) :
          /\ Complete(end, lines, unit)
          /\ end.how = "killed" => lines = <<>>
          /\ rout' = Outcome(end, lines)
     \/ rout' = Hung
  /\ pc' = "judge"
  /\ UNCHANGED <<harness, session, todo, unit, gout, tally, exit, tmp, report,
                 evidence, faults>>

VerdictOf(u, g, r) ==
  CASE harness = "sandbox"   -> SandboxVerdict(g)
    [] harness = "bytecode"  -> BytecodeVerdict(g)
    [] harness = "compile"   -> CompileVerdict(g, r)
    [] harness = "math"      -> MathVerdict(g, r, u.cases)
    [] harness = "coroutine" -> CoroutineVerdict(g, r, u.cases)
    [] harness = "debug"     -> IF u.kind = "ERRLINE" THEN ErrlineVerdict(g, r)
                                ELSE BlockVerdict(g, r, u.cases)
    [] OTHER                 -> PairsVerdict(g, r)

(* The end of the loop's body: count the verdict, remove the program.       *)
(* bytecodefuzz writes the mutant of an escape at once.                     *)
Put(f, k, v) == [x \in DOMAIN f \union {k} |-> IF x = k THEN v ELSE f[x]]
Faulty(v) == v.escape \/ v.leads # {}
JudgeProgram ==
  /\ pc = "judge"
  /\ LET v == VerdictOf(unit, gout, rout)
     IN /\ tally' = [escapes |-> tally.escapes + (IF v.escape THEN 1 ELSE 0),
                     hangs   |-> tally.hangs + (IF v.hang THEN 1 ELSE 0),
                     leads   |-> tally.leads + Cardinality(v.leads),
                     judged  |-> tally.judged + Len(unit.cases)]
        /\ evidence' = IF harness = "bytecode" /\ v.escape
                       THEN Put(evidence, <<"escape", unit.no>>, session) ELSE evidence
        /\ faults' = IF Faulty(v) THEN faults + 1 ELSE faults
  /\ tmp' = tmp \ {ProgramFile}
  /\ pc' = "next"
  /\ UNCHANGED <<harness, session, todo, unit, gout, rout, exit, report>>

(* main ends: report.txt is written anew, diff.txt or the lead files only   *)
(* when there is something to put there; the exit status looks at escapes   *)
(* and leads, not at hangs.                                                 *)
Numbered(t) == IF t.leads < MaxSaved THEN t.leads ELSE MaxSaved
EvidenceFiles ==
  CASE harness = "pairs" -> {<<"lead", n>> : n \in 1 .. Numbered(tally)}
    [] harness = "sandbox" -> IF tally.escapes + tally.hangs > 0 THEN {<<"diff">>} ELSE {}
    [] harness \in {"math", "coroutine", "debug"} ->
         IF tally.leads > 0 THEN {<<"diff">>} ELSE {}
    [] OTHER -> {}
Finish ==
  /\ pc = "next" /\ todo = <<>>
  /\ report' = [session |-> session, tally |-> tally]
  /\ evidence' = [x \in DOMAIN evidence \union EvidenceFiles |->
                    IF x \in EvidenceFiles THEN session ELSE evidence[x]]
  /\ exit' = IF tally.escapes + tally.leads > 0 THEN 1 ELSE 0
  /\ tmp' = tmp \ {[session |-> session, kind |-> "driver"]}
  /\ pc' = "shell" /\ unit' = <<>> /\ gout' = NoOutcome /\ rout' = NoOutcome
  /\ UNCHANGED <<harness, session, todo, tally, faults>>

(* The user stops the program while an interpreter runs: the program is     *)
(* removed, a shared driver is not, and nothing is reported.                *)
Interrupt ==
  /\ pc \in {"golua", "reference"}
  /\ tmp' = tmp \ {ProgramFile}
  /\ exit' = 130 /\ pc' = "shell" /\ todo' = <<>>
  /\ unit' = <<>> /\ gout' = NoOutcome /\ rout' = NoOutcome
  /\ UNCHANGED <<harness, session, tally, report, evidence, faults>>

Next == \/ Start \/ WriteProgram \/ RunGolua \/ RunReference \/ JudgeProgram \/ Finish
        \/ Interrupt
(* Every run of an interpreter ends: it is killed when its time is up.      *)
Spec == Init /\ [][Next]_vars /\ WF_vars(Next)
-----------------------------------------------------------------------------
Judged == pc = "next" /\ unit # <<>>
Judgement == VerdictOf(unit, gout, rout)
Both(id) == Answered(gout, id) /\ Answered(rout, id)
LineVals(o) == {o.lines[n].val : n \in 1 .. Len(o.lines)}
SameText == gout.lines = rout.lines /\ gout.err = rout.err

(* What may pass for agreement on a case both answered.  mathfuzz lets a    *)
(* function that need not be exact be Tolerance floats away; compilefuzz    *)
(* does not look at the place of an error.                                  *)
SignedValue(t) == IF t.bits < 0 THEN -(t.bits + Half) ELSE t.bits
Near(a, b) == /\ a.tag = "F" /\ b.tag = "F"
              /\ {SignedValue(a), SignedValue(b)} # {0}
              /\ SignedValue(a) - SignedValue(b) \in -Tolerance .. Tolerance
Agree(a, b, exact) ==
  \/ a = b
  \/ /\ harness = "math" /\ a.st = "ok" /\ b.st = "ok" /\ ~exact
     /\ Len(a.tokens) = Len(b.tokens)
     /\ \A i \in 1 .. Len(a.tokens) : a.tokens[i] = b.tokens[i] \/ Near(a.tokens[i], b.tokens[i])
  \/ harness = "compile" /\ a.core = b.core
OneMeetsCStack == (\E l \in LineVals(gout) : l.core = "C stack overflow")
                  # (\E l \in LineVals(rout) : l.core = "C stack overflow")

(* A program that passes in silence really passed.  Where golua runs alone  *)
(* it neither panicked nor hung; where it is compared, both interpreters    *)
(* answered every case and agree, or, in debugfuzz and pairsfuzz, both      *)
(* failed with the same output.  compilefuzz says nothing either when both  *)
(* were killed, or when one side alone meets the C stack limit, whatever    *)
(* the other does short of a panic or a hang of golua.                      *)
SilenceMeansPassed ==
  Judged /\ Judgement = Verdict(FALSE, FALSE, {}) =>
    IF harness \in OneSided THEN gout.how \in {"finished", "raised", "quoted", "killed"}
                                 /\ (harness = "sandbox" => gout.how # "quoted")
    ELSE \/ \A id \in 1 .. Len(unit.cases) :
              Both(id) /\ Agree(Answer(gout, id), Answer(rout, id), unit.cases[id])
         \/ harness \in {"debug", "pairs"} /\ SameText
         \/ /\ harness = "debug" /\ unit.kind # "ERRLINE" /\ gout.lines = rout.lines
            /\ {gout.how, rout.how} \subseteq {"killed", "hung"}
         \/ /\ harness = "compile" /\ gout.how \notin {"panicked", "hung"}
            /\ SameText \/ OneMeetsCStack

(* What is reported is real: an escape is a crash of golua, or a message    *)
(* that quotes one, or in compilefuzz a hang; a hang is a hang; and a case  *)
(* named by a lead was not answered by both alike, or is a traversal golua  *)
(* itself got wrong.                                                        *)
FaultsAreReal ==
  Judged =>
    /\ Judgement.escape => \/ gout.how \in {"panicked", "quoted"}
                           \/ harness = "compile" /\ gout.how = "hung"
    /\ Judgement.hang => gout.how = "hung"
    /\ \A id \in Judgement.leads :
         \/ id = 0 /\ ~SameText
         \/ ~Both(id) \/ Answer(gout, id) # Answer(rout, id)
         \/ id > 0 /\ unit.kind = "ERRLINE" /\ ~SameText
         \/ id > 0 /\ harness = "compile" /\ ~SameText
         \/ harness = "pairs" /\ (Answer(gout, id).dup > 0 \/ ~Answer(gout, id).nextmatch)

(* The report and the exit status tell what happened: a session that ran to *)
(* its end judged every case once, its status is 1 exactly when            *)
(* some program escaped or differed, what it found is backed by a file this *)
(* session wrote (compilefuzz has it in the report), and it leaves nothing  *)
(* in /tmp but what interrupted sessions left.                              *)
Total(h) == CasesOf[h] + (CASE h \in {"sandbox", "pairs"} -> RandomCases
                            [] h = "debug" -> Batch + 1 [] OTHER -> 0)
ReportTells ==
  pc = "shell" /\ session > 0 /\ exit # 130 =>
    /\ report.session = session /\ report.tally = tally
    /\ tally.judged = Total(harness)
    /\ (exit = 1) = (faults > 0)
    /\ exit = 1 /\ harness # "compile" => \E x \in DOMAIN evidence : evidence[x] = session
    /\ \A f \in tmp : f.session # session

(* Every session comes back to the shell, whatever the interpreters do.     *)
SessionEnds == [](pc # "shell" => <>(pc = "shell"))

(* sandboxfuzz/run.py:17 has a process that dies by a signal as an escape.  *)
SignalDeathIsEscape ==
  Judged /\ harness = "sandbox" /\ gout.how = "killed" => Judgement.escape
=============================================================================
