------------------------------ MODULE Campaign ------------------------------
(* A loop of invocations of one batch fuzzer: the phases the arguments ask  *)
(* for, the batches of each phase, the driver script of each batch, the two *)
(* interpreters run on it, and what is left on disk: panic dumps, driver    *)
(* scripts, lead files and the report.                                      *)
EXTENDS Batch

CONSTANTS BatchesOf,       \* batches of cases by fuzzer and label
          Zones,           \* the time zones datefuzz repeats every phase under
          Arguments,       \* what each invocation may be asked for: seed, phases
          ReferencePicks   \* bound: the values the reference may print

VARIABLES fuzzer,     \* which of the six fuzzers runs
          run,        \* number of the invocation
          seed, args, \* its arguments
          pc,         \* what main is doing
          todo,       \* batches not yet run, phase by phase
          batch,      \* the batch that runs
          gout, rout, \* output of golua and of the reference on it
          fresh,      \* the leads of the batch last judged
          leads,      \* process: kinds of the leads of this phase
          all_leads,  \* main: leads of the phases that have ended
          exit,       \* exit status of the last invocation
          tmp,        \* driver scripts left in /tmp
          corpus,     \* the files of corpus/: lead files and panic dumps
          report,     \* the lines of corpus/report.txt
          seen        \* ghost: the batches of this invocation that gave leads

(* The phases by their labels; each is asked for by its own option.         *)
Labels == {"tier0", "tier1", "tier2", "tier3", "illegal", "depth", "ordering"}
ASSUME CampaignAssumption ==
  /\ BatchesOf \in [Fuzzers -> [Labels -> Nat]]
  /\ Zones \in Seq(STRING) /\ \A i, j \in DOMAIN Zones : Zones[i] = Zones[j] => i = j
  /\ Arguments \in Seq(SUBSET [seed : Int, phases : SUBSET (Labels \union {"all"})])
  /\ ReferencePicks \subseteq Nat

vars == <<fuzzer, run, seed, args, pc, todo, batch, gout, rout, fresh, leads,
          all_leads, exit, tmp, corpus, report, seen>>
disk == <<tmp, corpus, report>>

NoOutput == [lines |-> <<>>, err |-> ""]
TimedOut == [lines |-> <<>>, err |-> "<timeout>"]
-----------------------------------------------------------------------------
(* main: the phases of each fuzzer, in the order it runs those asked for.   *)
PackPhases     == <<"tier0", "tier1", "tier2", "tier3">>
PatternPhases  == <<"tier0", "tier1", "tier2", "illegal", "depth", "tier3">>
FormatPhases   == <<"tier0", "tier1", "tier2", "illegal", "tier3">>
CoercionPhases == <<"tier0", "tier1", "tier2", "ordering", "tier3">>
DatePhases     == <<"tier0", "tier1", "tier2", "illegal", "tier3">>
Utf8Phases     == <<"tier0", "tier1", "tier2", "tier3">>
Phases(f) == CASE f = "pack"     -> PackPhases
               [] f = "pattern"  -> PatternPhases
               [] f = "format"   -> FormatPhases
               [] f = "coercion" -> CoercionPhases
               [] f = "date"     -> DatePhases
               [] OTHER          -> Utf8Phases
(* --all asks for every phase but the random one.                           *)
Wanted(f, a) ==
  Chosen(Phases(f), [n \in 1 .. Len(Phases(f)) |->
                       Phases(f)[n] \in a \/ ("all" \in a /\ Phases(f)[n] # "tier3")])

(* process: the batches of a phase in order; datefuzz runs them once per    *)
(* time zone, numbering them anew.                                          *)
Numbered(f, label, zone) ==
  [n \in 1 .. BatchesOf[f][label] |-> [label |-> label, zone |-> zone, no |-> n - 1]]
DateBatches(label) ==
  FlattenSeq([i \in 1 .. Len(Zones) |-> Numbered("date", label, Zones[i])])
BatchesIn(f, label) ==
  IF f = "date" THEN DateBatches(label) ELSE Numbered(f, label, "-")
WorkOf(f, a) == LET want == Wanted(f, a)
                IN [i \in 1 .. Len(want) |-> BatchesIn(f, want[i])]

(* Names of the files.  _dump_panic names a dump by label, with the seed in *)
(* it, and batch, datefuzz also by the zone; write_corpus a lead file by    *)
(* kind and seed.                                                           *)
DumpNameUnzoned(b) == <<"panic", b.label, seed, b.no>>  \* mutant: without the zone
DumpName(b) == <<"panic", b.label, seed, b.zone, b.no>>
LeadFileUnseeded(kind, s) == <<kind>>                   \* mutant: without the seed
LeadFile(kind, s) == <<kind, s>>
Driver(b) == <<run, b>>
-----------------------------------------------------------------------------
Init == /\ fuzzer \in Fuzzers
        /\ run = 0 /\ seed = 0 /\ args = {} /\ pc = "shell"
        /\ todo = <<>> /\ batch = <<>> /\ gout = NoOutput /\ rout = NoOutput
        /\ fresh = <<>> /\ leads = <<>> /\ all_leads = <<>> /\ exit = 0
        /\ tmp = {} /\ corpus = <<>> /\ report = <<>> /\ seen = {}

(* What the properties look at is forgotten once the next batch begins.     *)
Forget == batch' = <<>> /\ gout' = NoOutput /\ rout' = NoOutput /\ fresh' = <<>>

(* main starts: parse the arguments, no leads yet.                          *)
Invoke == /\ pc = "shell" /\ run < Len(Arguments) \* bound: invocations
          /\ \E a \in Arguments[run + 1] :
               /\ seed' = a.seed /\ args' = a.phases
               /\ todo' = WorkOf(fuzzer, a.phases)
          /\ run' = run + 1 /\ pc' = "phase"
          /\ all_leads' = <<>> /\ leads' = <<>> /\ seen' = {}
          /\ Forget
          /\ UNCHANGED <<fuzzer, exit, disk>>

(* run_batch begins: write the driver script.                               *)
WriteDriver ==
  /\ pc = "phase" /\ todo # <<>> /\ Head(todo) # <<>>
  /\ batch' = Head(Head(todo))
  /\ todo' = [todo EXCEPT ![1] = Tail(@)]
  /\ tmp' = tmp \union {Driver(batch')}
  /\ gout' = NoOutput /\ rout' = NoOutput /\ fresh' = <<>>
  /\ pc' = "golua"
  /\ UNCHANGED <<fuzzer, run, seed, args, leads, all_leads, exit, corpus, report,
                 seen>>

(* golua runs the driver, which keeps its lines and prints them all when it *)
(* is done: golua prints everything, and may still panic on the way out, or *)
(* dies earlier and prints nothing, as does a run that times out.           *)
OpsOf == [f \in Fuzzers |-> <<>> \o Ops(f)]
Line(f, n, val) == [op |-> OpsOf[f][n].op, id |-> OpsOf[f][n].id, val |-> val]
Values(f, n) == IF OpsOf[f][n].op = "INV" THEN InvValues(f) ELSE ResultValues(f)
OutputsOf == \* by fuzzer, all that can be printed
  [f \in Fuzzers |->
     LET first[n \in 0 .. Len(OpsOf[f])] ==
           IF n = 0 THEN {<<>>}
           ELSE {Append(p[1], Line(f, n, p[2])) :
                   p \in first[n - 1] \X ToSet(Values(f, n))}
     IN first[Len(OpsOf[f])]]
Errors == {"", "panic"} \union (IF fuzzer = "coercion" THEN {"runtime error"} ELSE {})
RunGolua ==
  /\ pc = "golua"
  /\ \/ \E lines \in OutputsOf[fuzzer] \union {<<>>}, e \in Errors :
          gout' = [lines |-> lines, err |-> e]
     \/ gout' = TimedOut
  /\ pc' = "reference"
  /\ UNCHANGED <<fuzzer, run, seed, args, todo, batch, rout, fresh, leads,
                 all_leads, exit, disk, seen>>

(* The reference runs it to the end, or times out.                          *)
Usual(n, p) == LET vals == Values(fuzzer, n) IN vals[1 + (p % Len(vals))]
(* Mutant: when the reference times out the batch is run again.             *)
RunReferenceAgain ==
  /\ pc = "reference"
  /\ \/ rout' = [lines |-> <<>>, err |-> ""] /\ pc' = "judge" /\ UNCHANGED gout
     \/ gout' = NoOutput /\ pc' = "golua" /\ UNCHANGED rout
  /\ UNCHANGED <<fuzzer, run, seed, args, todo, batch, fresh, leads, all_leads, exit,
                 disk, seen>>

RunReference ==
  /\ pc = "reference"
  /\ \/ \E p \in ReferencePicks :
          rout' = [lines |-> <<>> \o [n \in 1 .. Len(OpsOf[fuzzer]) |->
                                      Line(fuzzer, n, Usual(n, p))], err |-> ""]
     \/ rout' = TimedOut
  /\ pc' = "judge"
  /\ UNCHANGED <<fuzzer, run, seed, args, todo, batch, gout, fresh, leads,
                 all_leads, exit, disk, seen>>

(* The rest of run_batch: append the leads, dump a panic, clean up.         *)
Without(f, gone) == [x \in DOMAIN f \ gone |-> f[x]]
Put(f, k, v) == [x \in DOMAIN f \union {k} |-> IF x = k THEN v ELSE f[x]]
JudgeBatch ==
  /\ pc = "judge"
  /\ \E judged \in {RunBatch(fuzzer, gout, rout, leads)} :
        /\ fresh' = judged.leads
        /\ leads' = leads \o KindsOf(judged.leads)
        /\ corpus' = IF PanicIn(fuzzer, gout.err)
                     THEN Put(corpus, DumpName(batch), [by |-> run, driver |-> Driver(batch)])
                     ELSE corpus
        /\ tmp' = IF judged.keeps THEN tmp ELSE tmp \ {Driver(batch)}
        /\ seen' = IF judged.leads = <<>> THEN seen
                   ELSE seen \union {[batch |-> batch, leads |-> Len(judged.leads),
                                      panicked |-> PanicIn(fuzzer, gout.err)]}
  /\ pc' = "phase"
  /\ UNCHANGED <<fuzzer, run, seed, args, todo, batch, gout, rout, all_leads,
                 exit, report>>

(* Mutant: main keeps the leads of the last phase only.                     *)
EndPhaseForgets ==
  /\ pc = "phase" /\ todo # <<>> /\ Head(todo) = <<>>
  /\ all_leads' = leads /\ leads' = <<>> /\ todo' = Tail(todo)
  /\ Forget
  /\ UNCHANGED <<fuzzer, run, seed, args, pc, exit, disk, seen>>

(* process returns the leads of its phase and main adds them to its own.    *)
EndPhase ==
  /\ pc = "phase" /\ todo # <<>> /\ Head(todo) = <<>>
  /\ all_leads' = all_leads \o leads /\ leads' = <<>> /\ todo' = Tail(todo)
  /\ Forget
  /\ UNCHANGED <<fuzzer, run, seed, args, pc, exit, disk, seen>>

(* main ends: write_corpus makes one file for each kind of lead, and        *)
(* write_report appends one line; the exit status tells whether any lead.   *)
write_corpus ==
  LET files == {LeadFile(kind, seed) : kind \in ToSet(all_leads)}
  IN corpus' = [x \in DOMAIN corpus \union files |->
                  IF x \in files THEN [by |-> run, seed |-> seed] ELSE corpus[x]]
write_report ==
  report' = Append(report, [run |-> run, seed |-> seed,
                            status |-> IF all_leads = <<>> THEN "CLEAN" ELSE "LEADS"])
Finish == /\ pc = "phase" /\ todo = <<>>
          /\ write_corpus /\ write_report
          /\ exit' = IF all_leads = <<>> THEN 0 ELSE 1
          /\ pc' = "shell" /\ all_leads' = <<>>
          /\ UNCHANGED <<fuzzer, run, seed, args, todo, batch, gout, rout, fresh,
                         leads, tmp, seen>>

(* The user stops the program while an interpreter runs: run_batch cleans   *)
(* up by the leads the phase already has, and nothing is reported.          *)
Interrupt ==
  /\ pc \in {"golua", "reference"}
  /\ tmp' = IF RunBatch(fuzzer, NoOutput, NoOutput, leads).keeps THEN tmp
            ELSE tmp \ {Driver(batch)}
  /\ leads' = <<>> /\ all_leads' = <<>> /\ todo' = <<>>
  /\ exit' = 130 /\ pc' = "shell" /\ Forget
  /\ UNCHANGED <<fuzzer, run, seed, args, corpus, report, seen>>

Next == \/ Invoke \/ WriteDriver \/ RunGolua \/ RunReference \/ JudgeBatch
        \/ EndPhase \/ Finish \/ Interrupt
(* Every run of an interpreter ends: it is killed after TIMEOUT_S.          *)
Spec == Init /\ [][Next]_vars /\ WF_vars(Next)
-----------------------------------------------------------------------------
Judged == pc = "phase" /\ batch # <<>>
Results(out) == {l \in ToSet(out.lines) : l.op # "INV"}
Excuse(l, m) == \* l of golua, m of the reference, for one operation of one case
  \/ fuzzer = "coercion" /\ l.op = "binop" /\ l.val = "F-0" /\ m.val = "F+0"
  \/ fuzzer = "date" /\ l.val # m.val /\ "norep" \in {l.val, m.val}
(* A line is matched when the other interpreter printed it too, or what it  *)
(* printed for the operation is excused; datefuzz also excuses the line     *)
(* `cannot be represented` when the other side printed nothing for it.      *)
Silent(l, out) == ~\E m \in Results(out) : KeyOf(m) = KeyOf(l)
Matched(l, out, excuse(_, _)) ==
  \/ \E m \in Results(out) : KeyOf(m) = KeyOf(l) /\ (m = l \/ excuse(l, m))
  \/ fuzzer = "date" /\ l.val = "norep" /\ Silent(l, out)

(* A batch that gives no lead is a batch on which golua did not panic, no   *)
(* self-check of its own failed, and every result either interpreter        *)
(* printed was printed by the other, or is excused; a batch of which one    *)
(* interpreter died early or timed out is never silent unless the other     *)
(* printed nothing it could be missed by.                                   *)
SilenceMeansAgreement ==
  Judged /\ fresh = <<>> =>
    /\ gout.err # "panic"
    /\ \A l \in ToSet(gout.lines) : l.op = "INV" => l.val # "false"
    /\ \A l \in Results(gout) : Matched(l, rout, Excuse)
    /\ \A l \in Results(rout) : Matched(l, gout, LAMBDA a, b : Excuse(b, a))

(* Every lead is real: a DIFF names an operation on which what the two      *)
(* printed last is not the same, an INVARIANT a check golua itself printed  *)
(* as failed, and a PANIC is recorded once for a batch, before the others.  *)
LeadsAreReal ==
  Judged => \A i \in 1 .. Len(fresh) :
    LET lead == fresh[i]
        last(out) == {out.lines[n] : n \in
                        {m \in 1 .. Len(out.lines) :
                           /\ KeyOf(out.lines[m]) = lead.key
                           /\ \A k \in m + 1 .. Len(out.lines) :
                                KeyOf(out.lines[k]) # lead.key}}
    IN CASE lead.kind = "DIFF"      -> last(gout) # last(rout)
         [] lead.kind = "INVARIANT" ->
              \E l \in ToSet(gout.lines) :
                KeyOf(l) = lead.key /\ l.op = "INV" /\ l.val = "false"
         [] OTHER                   -> i = 1 /\ gout.err \in {"panic", "runtime error"}

(* A panic stays on disk: every batch of the invocation on which golua      *)
(* panicked has a dump of its own, never overwritten by another batch,      *)
(* phase or time zone, and the driver the dump names is still there.  The   *)
(* five fuzzers that look at the last four leads lose the driver when the   *)
(* batch gave four more after the panic, as one of hundreds of cases does   *)
(* that golua did not live to print.                                        *)
PanicsStayOnDisk ==
  \A s \in seen : s.panicked =>
    /\ DumpName(s.batch) \in DOMAIN corpus
    /\ corpus[DumpName(s.batch)] = [by |-> run, driver |-> Driver(s.batch)]
    /\ fuzzer = "coercion" \/ s.leads <= 4 => Driver(s.batch) \in tmp

(* The report and the exit status tell what happened: an invocation that    *)
(* ran to its end added one line, which says CLEAN exactly when no batch of *)
(* any phase gave a lead, and its leads are in the lead files of its seed.  *)
ReportTells ==
  pc = "shell" /\ run > 0 /\ exit # 130 =>
    LET line == report[Len(report)]
    IN /\ line.run = run /\ line.seed = seed
       /\ (line.status = "CLEAN") = (seen = {}) /\ (exit = 0) = (seen = {})
       /\ seen # {} => \E x \in DOMAIN corpus :
                         x \in {LeadFile(k, seed) : k \in {"PANIC", "INVARIANT", "DIFF"}}
                         /\ corpus[x].by = run
       /\ \A i, j \in 1 .. Len(report) : i < j => report[i].run < report[j].run

(* A loop over seeds never clobbers: the lead files an invocation wrote     *)
(* stay as they are until one with the same seed runs, and no step takes a  *)
(* line of the report away.                                                 *)
NeverClobbers ==
  [][/\ \A x \in DOMAIN corpus :
          /\ x \in DOMAIN corpus'
          /\ "seed" \in DOMAIN corpus[x] /\ corpus[x].seed # seed =>
               corpus'[x] = corpus[x]
     /\ Len(report) <= Len(report') /\ report = SubSeq(report', 1, Len(report))]_vars

(* Every invocation comes back to the shell, whatever the interpreters do.  *)
InvocationEnds == [](pc # "shell" => <>(pc = "shell"))
=============================================================================
