------------------------------- MODULE Batch -------------------------------
(* One batch of a batch fuzzer: what is made of the output of the two       *)
(* interpreters.  The driver script prints one line per operation, tagged   *)
(* with the operation and the case; INV lines carry the verdict of a check  *)
(* the script makes by itself.  The six fuzzers share this code by copying  *)
(* it, and differ in what they excuse.                                      *)
EXTENDS Integers, Sequences, SequencesExt, FiniteSetsExt

CONSTANT BatchSize   \* cases in one batch (BATCH in the code)
ASSUME BatchAssumption == BatchSize \in Nat

Fuzzers == {"pack", "pattern", "format", "coercion", "date", "utf8"}
Missing == "<missing>"

(* The values a line can carry, up to what the fuzzers tell apart.  "norep" *)
(* is an error saying `cannot be represented`, "F-0" and "F+0" the zeros.   *)
ResultValues(f) == CASE f = "date"     -> <<"v", "norep", "w">>
                     [] f = "coercion" -> <<"F+0", "F-0">>
                     [] OTHER          -> <<"v", "w">>
InvValues(f) == IF f = "pattern" THEN <<"len=", "false">> ELSE <<"true", "false">>

(* What the driver prints for one case.                                     *)
CaseOps(f) == CASE f = "coercion" -> <<"binop", "lib">>
                [] f = "utf8"     -> <<"len", "INV", "INV">>
                [] OTHER          -> <<"result", "INV">>
Ops(f) == LET n == Len(CaseOps(f))
          IN [i \in 1 .. BatchSize * n |->
                [op |-> CaseOps(f)[1 + ((i - 1) % n)], id |-> 1 + ((i - 1) \div n)]]

-----------------------------------------------------------------------------
(* diff_outputs: lines are compared by key, a later line replacing an       *)
(* earlier one of the same key.                                             *)
KeyOf(line) == <<line.op, line.id>>
(* Mutant: the first line of a key stays.                                   *)
IndexFirst(lines) ==
  [k \in {KeyOf(l) : l \in ToSet(lines)} |->
     lines[Min({i \in 1 .. Len(lines) : KeyOf(lines[i]) = k})].val]

Index(lines) ==
  [k \in {KeyOf(l) : l \in ToSet(lines)} |->
     lines[Max({i \in 1 .. Len(lines) : KeyOf(lines[i]) = k})].val]
At(index, k) == IF k \in DOMAIN index THEN index[k] ELSE Missing
(* Mutant: only operations that both printed are compared.                  *)
DifferingOfBoth(g, r) == {k \in DOMAIN g \intersect DOMAIN r : g[k] # r[k]}
Differing(g, r) == {k \in DOMAIN g \union DOMAIN r : At(g, k) # At(r, k)}

PackDiffs(g, r)    == {k \in Differing(g, r) : k[1] # "INV"}
PatternDiffs(g, r) == {k \in Differing(g, r) : k[1] # "INV"}
FormatDiffs(g, r)  == {k \in Differing(g, r) : k[1] # "INV"}
Utf8Diffs(g, r)    == Differing(g, r)

(* Excused in coercionfuzz: golua keeps the sign of a zero the reference    *)
(* folds away.                                                              *)
SignedZero(k, g, r) == k[1] = "binop" /\ g = "F-0" /\ r = "F+0"
CoercionDiffs(g, r) == {k \in Differing(g, r) : ~SignedZero(k, At(g, k), At(r, k))}

(* Excused in datefuzz: exactly one side says it cannot be represented.     *)
Unrepresentable(g, r) == (g = "norep") # (r = "norep")
DateDiffs(g, r) == {k \in Differing(g, r) :
                      k[1] # "INV" /\ ~Unrepresentable(At(g, k), At(r, k))}

-----------------------------------------------------------------------------
(* The members of s at the places where it is asked for, in order.          *)
Chosen(s, asked) ==
  LET upto[n \in 0 .. Len(s)] ==
        IF n = 0 THEN <<>>
        ELSE IF asked[n] THEN Append(upto[n - 1], s[n]) ELSE upto[n - 1]
  IN upto[Len(s)]

(* invariant_failures: the INV lines golua did not pass, every line counted.*)
FailedInv(lines, passed) ==
  Chosen(lines, [n \in 1 .. Len(lines) |->
                   lines[n].op = "INV" /\ lines[n].val \notin passed])
PatternInvFailures(lines)  == FailedInv(lines, {"true", "len="})
PackInvFailures(lines)     == FailedInv(lines, {"true"})
FormatInvFailures(lines)   == FailedInv(lines, {"true"})
DateInvFailures(lines)     == FailedInv(lines, {"true"})
Utf8InvFailures(lines)     == FailedInv(lines, {"true"})

(* panic_in: a Go panic with its goroutine dump, or the words `runtime      *)
(* error` alone, which coercionfuzz does not look for.                      *)
PanicIn(f, err) == err = "panic" \/ (f # "coercion" /\ err = "runtime error")

-----------------------------------------------------------------------------
(* run_batch, after the two runs: the leads in the order they are appended, *)
(* and whether the cleanup leaves the driver script for the panic that      *)
(* names it.  A lead is its kind and the key it names; "earlier" holds the  *)
(* kinds of the leads the phase already had.                                *)
Lead(kind, key) == [kind |-> kind, key |-> key]
LeadsOn(kind, lines) == [n \in 1 .. Len(lines) |-> Lead(kind, KeyOf(lines[n]))]
OncePer(diffs, lines) == \* the first line of each key that differs
  [n \in 1 .. Len(lines) |-> /\ \A m \in 1 .. n - 1 : KeyOf(lines[m]) # KeyOf(lines[n])
                            /\ KeyOf(lines[n]) \in diffs]
Leads(g, r, panicked, bad, diffs) ==
  (IF panicked THEN <<Lead("PANIC", <<>>)>> ELSE <<>>)
  \o LeadsOn("INVARIANT", bad)
  \o LET all == g.lines \o r.lines
     IN Chosen(LeadsOn("DIFF", all), OncePer(diffs, all))
KindsOf(leads) == [i \in 1 .. Len(leads) |-> leads[i].kind]

(* Five fuzzers keep the driver when a PANIC is among the last four leads   *)
(* of the phase, which may belong to another batch.                         *)
LastFour(s) == SubSeq(s, IF Len(s) > 4 THEN Len(s) - 3 ELSE 1, Len(s))
PanicAmongLastFour(leads, earlier) ==
  [leads |-> leads,
   keeps |-> "PANIC" \in ToSet(LastFour(earlier \o KindsOf(leads)))]

PackRunBatch(g, r, earlier) ==
  PanicAmongLastFour(Leads(g, r, PanicIn("pack", g.err), PackInvFailures(g.lines),
                           PackDiffs(Index(g.lines), Index(r.lines))), earlier)
PatternRunBatch(g, r, earlier) ==
  PanicAmongLastFour(Leads(g, r, PanicIn("pattern", g.err), PatternInvFailures(g.lines),
                           PatternDiffs(Index(g.lines), Index(r.lines))), earlier)
FormatRunBatch(g, r, earlier) ==
  PanicAmongLastFour(Leads(g, r, PanicIn("format", g.err), FormatInvFailures(g.lines),
                           FormatDiffs(Index(g.lines), Index(r.lines))), earlier)
DateRunBatch(g, r, earlier) ==
  PanicAmongLastFour(Leads(g, r, PanicIn("date", g.err), DateInvFailures(g.lines),
                           DateDiffs(Index(g.lines), Index(r.lines))), earlier)
Utf8RunBatch(g, r, earlier) ==
  PanicAmongLastFour(Leads(g, r, PanicIn("utf8", g.err), Utf8InvFailures(g.lines),
                           Utf8Diffs(Index(g.lines), Index(r.lines))), earlier)
(* coercionfuzz has no INV lines and remembers its own panic.               *)
CoercionRunBatch(g, r, earlier) ==
  LET panicked == PanicIn("coercion", g.err)
  IN [leads |-> Leads(g, r, panicked, <<>>, CoercionDiffs(Index(g.lines), Index(r.lines))),
      keeps |-> panicked]

RunBatch(f, g, r, earlier) ==
  CASE f = "pack"     -> PackRunBatch(g, r, earlier)
    [] f = "pattern"  -> PatternRunBatch(g, r, earlier)
    [] f = "format"   -> FormatRunBatch(g, r, earlier)
    [] f = "coercion" -> CoercionRunBatch(g, r, earlier)
    [] f = "date"     -> DateRunBatch(g, r, earlier)
    [] OTHER          -> Utf8RunBatch(g, r, earlier)
=============================================================================
