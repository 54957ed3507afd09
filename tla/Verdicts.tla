------------------------------ MODULE Verdicts ------------------------------
(* What each harness makes of one program it ran: the outcome of golua and, *)
(* where there is one, of the reference.  An outcome is how the process     *)
(* really ended, which no harness can see, and what the harness sees of it: *)
(* the exit code, whether the timeout struck, the lines on stdout, and the  *)
(* text on stderr.  A verdict says whether the program crashed the host,    *)
(* whether it hung, and which cases differ.                                 *)
EXTENDS Ulp, FiniteSets

CONSTANT Tolerance   \* --ulp
ASSUME ToleranceAssumption == Tolerance \in Nat

(* How a process ends.  The commands `exec` the interpreter, so the death   *)
(* of the interpreter by a signal is the death of the child, and Python     *)
(* gives the number of the signal negated.                                  *)
Ends == {[how |-> "finished", rc |-> 0,  err |-> ""],
         [how |-> "raised",   rc |-> 1,  err |-> "message"],
         [how |-> "quoted",   rc |-> 1,  err |-> "panic:"],  \* a message has it
         [how |-> "quoted",   rc |-> 1,  err |-> "PANIC:"],
         [how |-> "panicked", rc |-> 2,  err |-> "panic:"],
         [how |-> "killed",   rc |-> -9, err |-> ""]}
Outcome(end, lines) ==
  [how |-> end.how, rc |-> end.rc, err |-> end.err, hung |-> FALSE, lines |-> lines]
Hung == [how |-> "hung", rc |-> -9, err |-> "<timeout>", hung |-> TRUE, lines |-> <<>>]

Crashed(o) == o.how \in {"panicked", "killed"}
(* Mutant: every exit code but 0 is taken for a crash.                      *)
AnyErrorCode(o) == o.rc # 0

PanicOrSignalCode(o) == o.rc = 2 \/ o.rc > 128
Verdict(escape, hang, leads) == [escape |-> escape, hang |-> hang, leads |-> leads]

(* The answer to case id, when there is one; a later line replaces one.     *)
Answers(o, id) == {n \in 1 .. Len(o.lines) : o.lines[n].id = id}
Answered(o, id) == Answers(o, id) # {}
Answer(o, id) == o.lines[CHOOSE n \in Answers(o, id) :
                           \A m \in Answers(o, id) : m <= n].val
-----------------------------------------------------------------------------
(* sandboxfuzz run_case: markers are looked for in lower case.              *)
SandboxVerdict(g) ==
  IF g.hung THEN Verdict(FALSE, TRUE, {})
  ELSE Verdict(g.err \in {"panic:", "PANIC:"} \/ PanicOrSignalCode(g), FALSE, {})

(* bytecodefuzz run_mutant: markers are looked for as they are.             *)
BytecodeVerdict(g) ==
  IF g.hung THEN Verdict(FALSE, TRUE, {})
  ELSE Verdict(g.err = "panic:" \/ PanicOrSignalCode(g), FALSE, {})

(* compilefuzz: run, normalize_err, cstack_vs_reg and the body of main.  An *)
(* answer has a core, and the place in the chunk that is normalized away.   *)
normalize_err(o) == \* what is compared
  [core |-> IF o.lines = <<>> THEN "" ELSE o.lines[1].val.core, err |-> o.err]
cstack_vs_reg(a, b) == (a.core = "C stack overflow") # (b.core = "C stack overflow")
CompileCrash(o) == o.hung \/ PanicOrSignalCode(o) \/ o.err = "panic:"
CompileVerdict(g, r) ==
  LET gn == normalize_err(g)
      rn == normalize_err(r)
  IN Verdict(CompileCrash(g), FALSE,
             IF gn # rn /\ ~cstack_vs_reg(gn, rn) THEN {1} ELSE {})

(* Mutant: the functions that must be exact get the tolerance as well.      *)
MathKindLax(g, r, id, exact) ==
  IF ~Answered(g, id) \/ ~Answered(r, id) THEN "lead"
  ELSE LET a == Answer(g, id)
           b == Answer(r, id)
       IN IF a.st # b.st THEN "lead"
          ELSE IF a.st = "err" THEN IF a.message = b.message THEN "match" ELSE "lead"
          ELSE classify(a.tokens, b.tokens, Tolerance)

(* mathfuzz process: each case counted once; an answer is a status and a    *)
(* payload, a message or the tokens of a result.                            *)
MathKind(g, r, id, exact) ==
  IF ~Answered(g, id) \/ ~Answered(r, id) THEN "lead"
  ELSE LET a == Answer(g, id)
           b == Answer(r, id)
       IN IF a.st # b.st THEN "lead"
          ELSE IF a.st = "err" THEN IF a.message = b.message THEN "match" ELSE "lead"
          ELSE classify(a.tokens, b.tokens, IF exact THEN 0 ELSE Tolerance)
MathVerdict(g, r, cases) ==
  Verdict(FALSE, FALSE, {id \in 1 .. Len(cases) :
                           MathKind(g, r, id, cases[id]) \in {"lead", "signzero"}})

(* coroutinefuzz main: a case neither side answered differs as well, the    *)
(* two texts for a missing answer are not the same.                         *)
CoroutineVerdict(g, r, cases) ==
  Verdict(FALSE, FALSE,
          {id \in 1 .. Len(cases) :
             ~(Answered(g, id) /\ Answered(r, id) /\ Answer(g, id) = Answer(r, id))})

(* debugfuzz run_block: the lines with a tab in what was printed, stdout    *)
(* and stderr together; a traceback has such lines, with an empty key.      *)
BlockAnswers(o, id) ==
  IF Answered(o, id) THEN {Answer(o, id)}
  ELSE IF id = 0 /\ o.err \in {"message", "panic:", "PANIC:"} THEN {o.err} ELSE {}
BlockVerdict(g, r, cases) ==
  Verdict(FALSE, FALSE,
          {id \in 0 .. Len(cases) : BlockAnswers(g, id) # BlockAnswers(r, id)})
(* debugfuzz run_errline and pairsfuzz check: all that was printed.         *)
Printed(o) == [lines |-> o.lines, err |-> o.err]
ErrlineVerdict(g, r) == Verdict(FALSE, FALSE, IF Printed(g) # Printed(r) THEN {1} ELSE {})

(* pairsfuzz PRELUDE: setOf goes through a traversal, given as the sequence *)
(* of its (key, value) pairs; report compares that of pairs with that of    *)
(* next, unless __pairs leads the former elsewhere.                         *)
setOf(visits) ==
  [items |-> [kv \in {visits[n] : n \in 1 .. Len(visits)} |->
                Cardinality({n \in 1 .. Len(visits) : visits[n] = kv})],
   dup   |-> Cardinality({n \in 1 .. Len(visits) :
                            \E m \in 1 .. n - 1 : visits[m][1] = visits[n][1]})]
TraversalReport(visits, byNext, redirected) ==
  LET one == setOf(visits)
      two == setOf(byNext)
  IN [set |-> one.items, dup |-> one.dup,
      nextmatch |-> redirected \/ (one.items = two.items /\ two.dup = 0)]

(* pairsfuzz check: one lead when the outputs differ (0 stands for it), and *)
(* one for each traversal of golua that visited a key twice or disagreed    *)
(* with next.                                                               *)
invariant_violations(o) ==
  {o.lines[n].id : n \in {m \in 1 .. Len(o.lines) :
                            o.lines[m].val.dup # 0 \/ ~o.lines[m].val.nextmatch}}
PairsVerdict(g, r) ==
  Verdict(FALSE, FALSE, (IF Printed(g) # Printed(r) THEN {0} ELSE {})
                        \union invariant_violations(g))
=============================================================================
