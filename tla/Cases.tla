-------------------------------- MODULE Cases --------------------------------
(* The case generators of the fuzzers, run on every item of every tier: a   *)
(* format, a pattern, a subject, an operator or a dumped chunk.  The        *)
(* interpreters never judge what a generator meant, so a case that does not *)
(* test what it was made for is silent in both; the properties say what     *)
(* each generator owes.  item is what the tier yields, made the cases of    *)
(* it, or for a pattern how far the reading of it has got; for a stage of   *)
(* rubegoldberg, item is the parameters drawn and made what it does to every*)
(* integer.                                                                 *)
EXTENDS Integers, Sequences, FiniteSets

CONSTANTS ByteBits, RandomInt, MaxK, HDR_LEN, HDR_LEN_54, Chunks, IntBits, Prime, SeedConst

Packs == INSTANCE PackCases
Formats == INSTANCE FormatCases
Utf8s == INSTANCE Utf8Cases
Coercions == INSTANCE CoercionCases
Patterns == INSTANCE PatternCases
Dates == INSTANCE DateCases
Mutants == INSTANCE MutantCases
Machines == INSTANCE Stages

VARIABLES fuzzer, tier, item, made, done
vars == <<fuzzer, tier, item, made, done>>
-----------------------------------------------------------------------------
(* The items: small counts of random directives, atoms, code points.        *)
PackItems == \/ tier = "0" /\ item \in Packs!tier0
             \/ tier = "1" /\ item \in Packs!tier1
             \/ tier = "2" /\ item \in Packs!tier2
             \/ tier = "3" /\ item \in Packs!tier3(2)
Spec0 == Formats!_rand_spec({"5", "100"}, {"2"})
FormatItems == \/ tier = "0" /\ item \in Formats!tier0
               \/ tier = "1" /\ item \in Formats!tier1
               \/ tier = "2" /\ item \in Formats!tier2
               \/ tier = "3" /\ item \in Formats!tier3({s \in Spec0 : Len(s) <= 2})
               \/ tier = "3" /\ item \in Spec0
               \/ tier = "illegal" /\ item \in Formats!illegal
Utf8Items == \/ tier = "0" /\ item \in Utf8s!tier0
             \/ tier = "1" /\ item \in Utf8s!tier1
             \/ tier \in DOMAIN Utf8s!MALFORMED /\ item \in Utf8s!tier2(tier)
             \/ tier = "3" /\ item \in Utf8s!tier3(2, 2)
Operators == Coercions!BINOPS \union Coercions!UNOPS
CoercionItems == \/ tier \in {"0", "1", "ordering"} /\ item \in Operators
                 \/ tier = "2" /\ item \in Coercions!LIB_CALLS \union {"index_get", "index_set", "key_norm", "fornum"}
                 \/ tier = "3" /\ item \in Operators \union Coercions!LIB_CALLS \union {"index_get", "index_set"}
PatternItems == \/ tier = "0" /\ item \in Patterns!tier0
                \/ tier = "1" /\ item \in Patterns!tier1
                \/ tier = "2" /\ item \in Patterns!tier2
                \/ tier = "3" /\ item \in Patterns!tier3(1)
                \/ tier = "illegal" /\ item \in Patterns!illegal
                \/ tier = "depth" /\ item \in Patterns!tier_depth
DateItems == \/ tier = "0" /\ item \in Dates!tier0
             \/ tier = "1" /\ item \in Dates!tier1
             \/ tier = "2" /\ item \in Dates!tier2
             \/ tier = "3" /\ item \in Dates!tier3
             \/ tier = "illegal" /\ item \in Dates!tier_illegal
StageItems == tier \in Machines!STAGES /\ item \in Machines!Drawn[tier]

Init ==
  /\ \/ fuzzer = "packfuzz" /\ PackItems /\ made = {}
     \/ fuzzer = "formatfuzz" /\ FormatItems /\ made = {}
     \/ fuzzer = "utf8fuzz" /\ Utf8Items /\ made = {}
     \/ fuzzer = "coercionfuzz" /\ CoercionItems /\ made = {}
     \/ fuzzer = "patternfuzz" /\ PatternItems /\ made = Patterns!Unread
     \/ fuzzer = "datefuzz" /\ DateItems /\ made = {}
     \/ fuzzer = "bytecodefuzz" /\ tier = "mutants" /\ item \in Chunks /\ made = {}
     \/ fuzzer = "rubegoldberg" /\ StageItems /\ made = {}
  /\ done = FALSE

CoercionTier == CASE tier = "0" -> Coercions!tier0(item) [] tier = "1" -> Coercions!tier1(item)
                  [] tier = "2" -> Coercions!tier2(item) [] tier = "3" -> Coercions!tier3(item)
                  [] OTHER -> Coercions!ordering(item)

(* One action makes the cases of an item, for each generator.               *)
Makes(name, cases) == ~done /\ fuzzer = name /\ done' = TRUE /\ made' = cases
Item == UNCHANGED <<fuzzer, tier, item>>
PackCase == Makes("packfuzz", Packs!make_cases(item)) /\ Item
FormatCase == Makes("formatfuzz", Formats!make_cases(item, tier = "illegal")) /\ Item
Utf8Case == Makes("utf8fuzz", {Utf8s!make_case(item)}) /\ Item
CoercionCase ==
  Makes("coercionfuzz", {[c |-> c, run |-> Coercions!render_case(c)] : c \in CoercionTier}) /\ Item
DateCase == Makes("datefuzz", {Dates!render_case(item)}) /\ Item
MutantCase == Makes("bytecodefuzz", Mutants!mutate(Mutants!Dump(item), item.lua54)) /\ Item
StageCase == Makes("rubegoldberg", {[x |-> x, r |-> Machines!Stage(tier, x, item)] :
                                      x \in Machines!MinInt .. Machines!MaxInt}) /\ Item
(* A pattern is read item by item, as the matcher reads it.                 *)
ReadPattern == /\ fuzzer = "patternfuzz" /\ Patterns!Reading(item, made)
               /\ made' = Patterns!ReadItem(item, made)
               /\ done' = ~Patterns!Reading(item, made') /\ Item
Next == PackCase \/ FormatCase \/ Utf8Case \/ CoercionCase \/ DateCase \/ MutantCase \/ StageCase \/ ReadPattern
Spec == Init /\ [][Next]_vars
-----------------------------------------------------------------------------
Made(name) == fuzzer = name /\ done

(* What a pack directive takes: its slot; X and the directive after it take *)
(* nothing.                                                                 *)
Fits(v, s) == LET bits == ByteBits * s.width
              IN IF s.signed THEN v >= -(2 ^ (bits - 1)) /\ v < 2 ^ (bits - 1)
                 ELSE v >= 0 /\ v < 2 ^ bits
PackLetters == Packs!FIXED_DATA \union Packs!INT_SIZED \union Packs!STR_SIZED \union {"c", "z"}
PackValuesFit ==
  LET slots == Packs!parse_slots(item)
      packs == {i \in DOMAIN item : item[i][1] \in PackLetters /\ (i > 1 => item[i - 1][1] # "X")}
      unsized == \E i \in DOMAIN slots : slots[i].kind = "cstr" /\ slots[i].width < 0
      narrow == {i \in DOMAIN slots : slots[i].kind = "int" /\ slots[i].width \in 1 .. 7}
  IN /\ Cardinality(packs) = Len(slots)
     /\ \A t \in made : Len(t) = IF unsized THEN 0 ELSE Len(slots)
     /\ \A t \in made : \A i \in DOMAIN t :
          CASE slots[i].kind = "cstr" -> t[i].len = slots[i].width
            [] slots[i].kind = "zstr" -> ~t[i].nul
            [] slots[i].kind = "int"  -> t[i] \in Packs!INT64_MIN .. Packs!INT64_MAX
            [] OTHER                  -> TRUE
     /\ ~unsized => \A i \in narrow : /\ \E t \in made : Fits(t[i], slots[i])
                                      /\ \E t \in made : ~Fits(t[i], slots[i])

(* What a conversion takes, by its kind, and the boundaries it must see.    *)
Takes == [int |-> {"int"}, char |-> {"int"}, float |-> {"float"}, str |-> {"str"}, ptr |-> {"str"},
          quote |-> {"str", "int", "float", "bool", "nil"}]
Boundaries == [int |-> {"max", "min"}, char |-> {"over", "neg"}, float |-> {"inf", "special", "negzero"},
               str |-> {"empty", "nul"}, ptr |-> {"x"}, quote |-> {}]
FormatValuesFit ==
  LET convs == Formats!parse_convs(item)
      kind(i) == Formats!_slot_kind(convs[i])
      right(c, i) == c.args[i].type \in Takes[kind(i)]
      quoted == \E i \in DOMAIN convs : convs[i] = "q"
  IN /\ \A c \in made : c.has_ptr = (\E i \in DOMAIN convs : convs[i] = "p")
     /\ tier # "illegal" =>
          /\ \A c \in made : /\ \A i \in DOMAIN c.args : right(c, i)
                             /\ \A i \in Len(c.args) + 1 .. Len(convs) : convs[i] = "q"
          /\ ~quoted => \A i \in DOMAIN convs : Boundaries[kind(i)] \subseteq {c.args[i].name : c \in made}
     /\ tier = "illegal" =>
          \A i \in DOMAIN convs : \A w \in {v \in Formats!_WRONG[kind(i)] : v.type # "nil"} :
            \E c \in made : /\ Len(c.args) = Len(convs) /\ c.args[i] = w
                            /\ \A j \in DOMAIN convs \ {i} : right(c, j)

(* Every pack and format case passes one value for each directive that      *)
(* takes one, of a kind it takes, and sees the boundaries of it, for an     *)
(* integer of 1 to 7 bytes one that fits and one that does not; the illegal *)
(* formats see each wrong value alone among right ones; the flag that hides *)
(* a pointer's digits is set exactly when one is printed (two scanners of   *)
(* the format agree).  packfuzz/values.py, formatfuzz/values.py and run.py. *)
ValuesFit == /\ Made("packfuzz") => PackValuesFit
             /\ Made("formatfuzz") => FormatValuesFit
-----------------------------------------------------------------------------
Strict(s) == Utf8s!Codes(s, FALSE).ok
Lax(s) == Utf8s!Codes(s, TRUE).ok
Scalar(cp) == cp <= Utf8s!MAXUNICODE /\ cp \notin Utf8s!Surrogates
(* The arguments of the calls of an operation, and the positions asked for. *)
ArgsOf(op) == {item.ops[k][2] : k \in {k \in DOMAIN item.ops : item.ops[k][1] = op}}
Asked(op, lax) == {args[1][1] : args \in {a \in ArgsOf(op) : a[1] # <<>> /\ a[3] = lax}}
Utf8Spans ==
  LET n == Len(item.subject)
      offsets == {args[1] : args \in ArgsOf("offset")}
  IN /\ \A lax \in BOOLEAN : /\ <<lax>> \in ArgsOf("codes")
                            /\ Asked("codepoint", lax) # {} /\ Asked("len", lax) # {}
     /\ tier # "3" => {-n - 1, 0, n + 1} \subseteq offsets
     /\ tier \in DOMAIN Utf8s!MALFORMED =>
          \A op \in {"codepoint", "len"}, lax \in BOOLEAN :
            {-n - 1, -n, -1, 0, 1, n, n + 1, n + 2} \subseteq Asked(op, lax)
Utf8AsNamed ==
  LET s == item.subject
      lax == Utf8s!Codes(s, TRUE).seq
  IN CASE tier \in {"0", "1", "3"} ->
            \A cps \in item.cps : /\ [k \in DOMAIN lax |-> lax[k][2]] = cps
                                  /\ Strict(s) = \A k \in DOMAIN cps : Scalar(cps[k])
       [] tier = "valid" -> Strict(s)
       [] tier \in {"surrogate", "extended"} -> Lax(s) /\ ~Strict(s)
       [] tier \in DOMAIN Utf8s!MALFORMED \ {"valid", "surrogate", "extended"} -> ~Lax(s)
PatternAsNamed ==
  LET captures == Len(made.caps)
  IN CASE tier = "0" -> Patterns!WellFormed(made) = (item \notin {"[", "%", "(", ")"})
       [] tier \in {"1", "2"} -> Patterns!WellFormed(made)
       [] tier = "illegal" -> ~Patterns!WellFormed(made)
       [] tier = "depth" -> Patterns!WellFormed(made) \/ captures = Patterns!MaxCaptures
       [] OTHER -> TRUE
(* The families of stages, for every integer a stage may be handed: what    *)
(* raises or may raise, what hands on its integer, and what must depend on  *)
(* it, or a divergence of the stage before would be lost.                   *)
Formatting == {"float_format_battery", "math_exact", "intfloat_boundary"}
Failing == {"err_arith_ml", "err_concat_ml", "error_terminus"}
MayFail == {"err_index_ml", "err_call_ml", "err_compare_ml", "err_custom", "assert_flag"}
StageAsNamed ==
  LET returned == {m \in made : m.r.ok}
      results == {m.r.val : m \in returned}
  IN /\ results \subseteq Machines!MinInt .. Machines!MaxInt
     /\ tier \in Failing => returned = {}
     /\ tier \in MayFail => returned \notin {{}, made}
     /\ tier \notin Failing \union MayFail => returned = made /\ Cardinality(results) > 1
     /\ tier \in Formatting => \A m \in made : m.r.val = m.x
DateAsNamed ==
  /\ item.op = "date" =>
       /\ tier \in {"0", "1"} => Dates!Accepts(item.fmt)
       /\ tier = "illegal" => (Dates!Accepts(item.fmt) = (item.fmt \in {"", "!", "%Y", "!%Y"}))
  /\ item.op = "time" =>
       /\ item.tbl = Dates!Gap => Dates!Instants("America/New_York", item.tbl) = {}
       /\ item.tbl = Dates!Ambiguous => Cardinality(Dates!Instants("America/New_York", item.tbl)) = 2

(* A case is what its tier calls it: an illegal pattern or date format is   *)
(* malformed and the others are not, but for the four lone magic            *)
(* characters and the patterns past the limit of captures; a subject built  *)
(* from code points decodes to them, strictly when they are all scalar; the *)
(* groups of malformed subjects decode as their comments say, and every     *)
(* subject is decoded strictly and laxly, the malformed ones from positions *)
(* before, at and past both ends; the tables named for New York's clock     *)
(* changes fall in a gap and in an overlap; a stage of rubegoldberg returns *)
(* an integer, or fails, as its family does.  patternfuzz/grammar.py,       *)
(* utf8fuzz/values.py, datefuzz/values.py, rubegoldberg/stages.py.          *)
TiersAreAsNamed == /\ Made("utf8fuzz") => Utf8AsNamed /\ (ArgsOf("char") = {} => Utf8Spans)
                   /\ Made("patternfuzz") => PatternAsNamed
                   /\ Made("datefuzz") => DateAsNamed
                   /\ Made("rubegoldberg") => StageAsNamed

(* Under a correct library the self-checks of a driver fail for one case    *)
(* only, the table of the second before the epoch, which os.time refuses:   *)
(* any other INV line that is not true is golua's fault, in every zone the  *)
(* case is replayed in, and the driver's own limit on gmatch never makes    *)
(* the count of its matches differ from gsub's.  utf8fuzz/emit.py,          *)
(* datefuzz/emit.py, patternfuzz/emit.py.                                   *)
NoFalseAlarm ==
  /\ Made("utf8fuzz") => \A m \in made : \A line \in m.inv : line[2]
  /\ Made("datefuzz") =>
       \A m \in made : \A tz \in DOMAIN m.inv : \A line \in m.inv[tz] :
         line[2] = "true" \/ (line = <<"utc_roundtrip", "time_err">> /\ m.c.ts = Dates!NoTime)
  /\ Made("patternfuzz") =>
       \A s \in Patterns!Subjects(tier) : \A matches \in 0 .. Len(s) + 1 : Patterns!CountsAgree(matches)

(* Every expression spliced into a coercion driver is a literal or a name   *)
(* its prologue binds (any other is nil, in both interpreters alike), with  *)
(* the metamethods the operand is declared with, and a driver never has     *)
(* more live locals than Lua's 200.  coercionfuzz/values.py against emit.py.*)
OperandsAreBound ==
  Made("coercionfuzz") =>
    \A m \in made :
      /\ m.run.uses \subseteq Coercions!_prologue \union {Coercions!literal}
      /\ \A i \in DOMAIN m.c.spliced : m.c.spliced[i].mm = Coercions!Events(m.c.spliced[i].expr)
      /\ m.run.alive < 200

(* Where a chunk's frame size and code are, by the dumper.                  *)
FrameAt == Len(Mutants!Preamble(item))
CodeAt == FrameAt + 1 + Len(Mutants!Varint(Len(item.code)))
Changed(bytes) == LET dump == Mutants!Dump(item)
                  IN {i \in 0 .. Len(dump) - 1 : Mutants!Byte(bytes, i) # Mutants!Byte(dump, i)}
(* A bytecode mutant changes only what its name says: the operands of its   *)
(* instruction and never the opcode, the frame size, the code, or anything  *)
(* after the header, so that the loader reads on; a cut leaves a shorter    *)
(* dump.  That holds only when the reader finds the code of every dump      *)
(* exactly where the dumper put it.  bytecodefuzz/run.py locate_code,  *)
(* maxstack_offset and mutate.                                              *)
MutantsStayInside ==
  Made("bytecodefuzz") =>
    LET dump == Mutants!Dump(item)
        header == IF item.lua54 THEN HDR_LEN_54 ELSE HDR_LEN
        code == CodeAt .. CodeAt + 4 * Len(item.code) - 1
        operands(i) == CodeAt + 4 * i .. CodeAt + 4 * i + 3
    IN /\ {m.tag : m \in made} = {"opmax", "Amax", "Bxmax", "maxstack", "rand", "broad", "trunc"}
       /\ \A m \in made :
            CASE m.tag \in {"opmax", "Amax", "Bxmax"} ->
                   /\ Changed(m.bytes) \subseteq operands(m.i)
                   /\ Mutants!Byte(m.bytes, CodeAt + 4 * m.i) % 128 = item.code[m.i + 1][1] % 128
              [] m.tag = "maxstack" -> Changed(m.bytes) \subseteq {FrameAt}
              [] m.tag = "rand"     -> Changed(m.bytes) \subseteq code
              [] m.tag = "broad"    -> Changed(m.bytes) \subseteq header .. Len(dump) - 1
              [] m.tag = "trunc"    -> /\ m.bytes = SubSeq(dump, 1, Len(m.bytes))
                                       /\ Len(m.bytes) \in 1 .. Len(dump) - 1
=============================================================================
