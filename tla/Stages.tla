------------------------------- MODULE Stages -------------------------------
(* The stages rubegoldberg builds its programs from.  A stage is a Lua      *)
(* function body, made by a generator from random parameters p: given the   *)
(* running integer x it returns an integer or raises an error, and may emit *)
(* observations.  Integers wrap around at IntBits bits.                     *)
EXTENDS Integers, Sequences, FiniteSets, TLC, Bitwise

CONSTANTS IntBits,   \* bits of a Lua integer: 64 in the code
          Prime,     \* the modulus 1000000007 of digit_sum, scaled down
          SeedConst  \* the integer every program starts from (SEED_CONST)

Size == 2 ^ IntBits
MaxInt == 2 ^ (IntBits - 1) - 1
MinInt == -(2 ^ (IntBits - 1))
Wrap(n) == ((n + (MaxInt + 1)) % Size) - (MaxInt + 1)
Unsigned(n) == n % Size
BitXor(a, b) == Wrap(Unsigned(a) ^^ Unsigned(b))
BitOr(a, b) == Wrap(Unsigned(a) | Unsigned(b))
Positive(n) == n % (MaxInt + 1)              \* n & math.maxinteger
Low(n, bits) == n % 2 ^ bits                 \* n & (2^bits - 1)
ShiftRight(n, s) == Unsigned(n) \div 2 ^ s
ShiftLeft(n, s) == Wrap(n * 2 ^ s)
(* The masks 0xff, 0xffff, 0xffffff and 0xffffffff, scaled to the width.    *)
Octet == IntBits \div 4
Short == IntBits \div 2
Three == (3 * IntBits) \div 4

SumOf(n, F(_)) == LET upto[k \in 0 .. n] == IF k = 0 THEN 0 ELSE upto[k - 1] + F(k)
                 IN upto[n]
The(S) == CHOOSE v \in S : TRUE                \* the element of a singleton
Folded(n, start, Step(_, _)) == \* Step applied for 1, 2 .. n
  LET upto[k \in 0 .. n] == IF k = 0 THEN start
                            ELSE The({Step(acc, k) : acc \in {upto[k - 1]}})
  IN upto[n]

Value(v) == [ok |-> TRUE, val |-> v, emits |-> <<>>]
Raise(msg) == [ok |-> FALSE, val |-> msg, emits |-> <<>>]
Emitting(v, emits) == [ok |-> TRUE, val |-> v, emits |-> emits]
-----------------------------------------------------------------------------
arith_mix(x, p) ==
  LET y == Wrap(x * p.a + p.b)
      z == Positive(BitOr(BitXor(y, ShiftRight(y, p.s1)), ShiftLeft(y, p.s2)))
  IN Value(Wrap((z % p.m) + Low(z \div p.m, Short)))

DigitsOf(n) == LET width == CHOOSE w \in 1 .. 10 : n < 10 ^ w /\ (w = 1 \/ n >= 10 ^ (w - 1))
               IN [i \in 1 .. width |-> (n \div 10 ^ (width - i)) % 10]
digit_sum(x, p) ==
  LET s == DigitsOf(x % Prime)
      acc == SumOf(Len(s), LAMBDA i : 48 + s[i])
  IN Value(Wrap(acc * (1 + p.base) + Low(x, Octet)))

(* The sieve: every i still marked unmarks its multiples from i*i on.       *)
Sieve(n) == Folded(n, 2 .. n, LAMBDA marked, i :
              IF i \in marked THEN marked \ {j \in i * i .. n : j % i = 0 /\ i > 1} ELSE marked)
prime_sieve(x, p) ==
  LET left == Sieve((x % p.span) + 30)
      last == CHOOSE i \in left : \A j \in left : j <= i
  IN Value(Wrap(x + Cardinality(left) * 131 + last))

(* Each closure has an accumulator of its own.                              *)
closure_factory(x, p) ==
  Value(Positive(Folded(p.k, 0, LAMBDA total, i :
                   BitXor(total, Positive(Wrap(Wrap(x + i) + i * 7))))))

(* The coroutine yields the terms of a Fibonacci sequence.                  *)
coroutine_gen(x, p) ==
  LET n == (x % p.span) + 5
      fib == Folded(n, [a |-> 1, b |-> 1, sum |-> 0], LAMBDA f, i :
               [a |-> f.b, b |-> Low(f.a + f.b, Three), sum |-> Positive(f.sum + f.a)])
  IN Value(BitXor(x, fib.sum))

(* A filter and a map over the array.                                       *)
iterator_pipe(x, p) ==
  LET arr == [i \in 1 .. p.m |-> Low(x + i * p.step, Three)]
  IN Value(Folded(p.m, 0, LAMBDA acc, i :
       IF arr[i] % p.keep = 0
       THEN Positive(acc + BitXor(arr[i], ShiftRight(arr[i], Octet))) ELSE acc))

(* Every run of digits is replaced by its length; commas are byte 44.       *)
string_gsub(x, p) ==
  LET digits(i) == IF Wrap(x + i) % 97 < 10 THEN 1 ELSE 2
      acc == SumOf(p.rep, LAMBDA i : 48 + digits(i)) + 44 * (p.rep - 1)
  IN Value(Wrap(x + p.rep * 31 + acc))

(* Words of one letter each, of lengths 1 to 4.                             *)
pattern_caps(x, p) ==
  Value(BitXor(x, SumOf(p.n, LAMBDA i : ((i % 4) + 1) * (97 + (Wrap(x + i) % 26)))))

(* The metamethod counts its calls and cycles through four operations.      *)
metatable_stateful(x, p) ==
  Value(Folded(p.k, Low(x, Three), LAMBDA n, calls :
    LET d == (Wrap(x + calls) % p.range) + 1
    IN Positive(CASE calls % 4 = 1 -> n + d
                  [] calls % 4 = 2 -> n - d
                  [] calls % 4 = 3 -> n * d
                  [] OTHER         -> BitXor(n, d))))

(* __index replaces itself: by the table when it has been called an even    *)
(* number of times, else by a function, which does not count.               *)
Keys == <<"a", "b", "zz">>
self_modifying_mt(x, p) ==
  LET backing == [a |-> Low(x, Short), b |-> Low(ShiftRight(x, Octet), Short), zz |-> 0]
      length(key) == IF key = "zz" THEN 2 ELSE 1
      read(s, n) ==
        LET key == Keys[1 + ((n - 1) % 3)]
            hits == s.hits + 1
        IN CASE s.index = "counting" ->
                  [hits |-> hits, index |-> IF hits % 2 = 0 THEN "table" ELSE "lengths",
                   sum |-> s.sum + backing[key] + hits]
             [] s.index = "table" -> [s EXCEPT !.sum = @ + backing[key]]
             [] OTHER -> [s EXCEPT !.sum = @ + Low(length(key) + s.hits, Octet)]
      end == Folded(3 * p.k, [hits |-> 0, index |-> "counting", sum |-> 0], read)
  IN Value(BitXor(x, Positive(end.sum)))

table_sort(x, p) ==
  LET arr == SortSeq([i \in 1 .. p.m |-> Low(Wrap(x * i) + i * i, Three)],
                     LAMBDA a, b : a > b)
  IN Value(Folded(p.m, 0, LAMBDA acc, i : Positive(acc * 33 + arr[i])))

Gcd(a, b) == \* gcd(a, b) recurses until the second is 0
  LET steps == Folded(a + b, <<a, b>>, LAMBDA ab, i :
                 IF ab[2] = 0 THEN ab ELSE <<ab[2], ab[1] % ab[2]>>)
  IN steps[1]
recursion_gcd(x, p) == Value(Wrap(x + Gcd((Positive(x) % p.range) + 1, p.k) * 17))

(* Every even number is raised as an error and caught.                      *)
pcall_roundtrip(x, p) ==
  Value(BitXor(x, Folded(p.k, 0, LAMBDA acc, i :
    LET n == Low(Wrap(x + i), Short)
    IN Positive(acc + (IF n % 2 = 0 THEN n + 1 ELSE n * 3)))))

vararg_select(x, p) ==
  Value(BitXor(x, Folded(p.k, p.k, LAMBDA acc, i : Positive(acc + Low(x + i * 13, Short)))))

(* The inner r shadows the outer one, which is never assigned.              *)
shadow_scope(x, p) ==
  Value(Folded(p.depth, x, LAMBDA last, i : Positive(Wrap(x * (2 + i)) + i)))
-----------------------------------------------------------------------------
(* Stages that raise: the message and what of x it shows.                   *)
err_index_ml(x, p) == IF x % p.m # 0 THEN Value(Wrap(x + 1)) ELSE Raise(<<"index nil">>)
err_call_ml(x, p) == IF x % p.m = 0 THEN Value(Wrap(x * 2)) ELSE Raise(<<"call nil">>)
err_arith_ml(x, p) == Raise(<<"arithmetic on a string">>)
err_concat_ml(x, p) == Raise(<<"concatenate a table">>)
err_compare_ml(x, p) == IF x % p.m = 0 THEN Raise(<<"compare">>) ELSE Value(x)
err_custom(x, p) == IF x % p.m = 0 THEN Raise(<<"rg-custom", x % 100, p.lvl>>) ELSE Value(x)
assert_flag(x, p) == IF x = p.w THEN Value(x) ELSE Raise(<<"flag-mismatch", x>>)
error_terminus(x, p) == Raise(<<"terminus", Low(x, Short), p.lvl>>)
-----------------------------------------------------------------------------
(* Stages that emit observations and return x; what they format is kept as  *)
(* the number formatted, a fraction as its numerator.                       *)
float_format_battery(x, p) ==
  Emitting(x, <<<<"halves", 2 * (x % 17) + 1>>, <<"quarters", -(4 * (x % 13)) - 1>>>>)

Magnitude(n) == IF n < 0 THEN -n ELSE n
Fmod(n, d) == IF n < 0 THEN -(Magnitude(n) % d) ELSE n % d   \* sign of n
math_exact(x, p) ==
  LET n == (x % (2 * p.range)) - p.range
      f == 8 * n + (x % 8)                                   \* in eighths
      whole == IF f < 0 THEN -(Magnitude(f) \div 8) ELSE f \div 8
      larger == IF n > p.d THEN n ELSE p.d
      smaller == IF n < p.d THEN n ELSE p.d
  IN Emitting(x,
       <<<<"floor", f \div 8>>, <<"ceil", -((-f) \div 8)>>,
         <<"abs", Magnitude(n), Magnitude(f)>>, <<"modf", whole, f - 8 * whole>>,
         <<"fmod", Fmod(n, p.d)>>,
         <<"toint", IF f % 8 = 0 THEN <<f \div 8>> ELSE <<>>, n>>,
         <<"maxmin", IF larger > -7 THEN larger ELSE -7,
                     IF smaller < 11 THEN smaller ELSE 11>>>>)

intfloat_boundary(x, p) ==
  LET a == (x % 100) - 50
      b == (x % 7) + 1
  IN Emitting(x, <<<<"idiv", a \div b>>, <<"mod", a % b>>, <<"disp", a>>,
                   <<"wrap", Wrap(MaxInt + 1), Wrap(MinInt - 1)>>, <<"fmt", a, Low(a, Octet)>>>>)
-----------------------------------------------------------------------------
STAGES == {"float_format_battery", "math_exact", "intfloat_boundary", "assert_flag",
           "error_terminus", "err_index_ml", "err_call_ml", "err_arith_ml",
           "err_concat_ml", "err_compare_ml", "err_custom", "arith_mix", "digit_sum",
           "prime_sieve", "closure_factory", "coroutine_gen", "iterator_pipe",
           "string_gsub", "pattern_caps", "metatable_stateful", "self_modifying_mt",
           "table_sort", "recursion_gcd", "pcall_roundtrip", "vararg_select",
           "shadow_scope"}
Stage(name, x, p) ==
  CASE name = "float_format_battery" -> float_format_battery(x, p)
    [] name = "math_exact" -> math_exact(x, p)
    [] name = "intfloat_boundary" -> intfloat_boundary(x, p)
    [] name = "assert_flag" -> assert_flag(x, p)
    [] name = "error_terminus" -> error_terminus(x, p)
    [] name = "err_index_ml" -> err_index_ml(x, p)
    [] name = "err_call_ml" -> err_call_ml(x, p)
    [] name = "err_arith_ml" -> err_arith_ml(x, p)
    [] name = "err_concat_ml" -> err_concat_ml(x, p)
    [] name = "err_compare_ml" -> err_compare_ml(x, p)
    [] name = "err_custom" -> err_custom(x, p)
    [] name = "arith_mix" -> arith_mix(x, p)
    [] name = "digit_sum" -> digit_sum(x, p)
    [] name = "prime_sieve" -> prime_sieve(x, p)
    [] name = "closure_factory" -> closure_factory(x, p)
    [] name = "coroutine_gen" -> coroutine_gen(x, p)
    [] name = "iterator_pipe" -> iterator_pipe(x, p)
    [] name = "string_gsub" -> string_gsub(x, p)
    [] name = "pattern_caps" -> pattern_caps(x, p)
    [] name = "metatable_stateful" -> metatable_stateful(x, p)
    [] name = "self_modifying_mt" -> self_modifying_mt(x, p)
    [] name = "table_sort" -> table_sort(x, p)
    [] name = "recursion_gcd" -> recursion_gcd(x, p)
    [] name = "pcall_roundtrip" -> pcall_roundtrip(x, p)
    [] name = "vararg_select" -> vararg_select(x, p)
    [] OTHER -> shadow_scope(x, p)
(* The parameters each generator draws, at the ends of their ranges; shifts *)
(* and the constants of a stage are scaled to the width, and what only      *)
(* makes a stage longer is kept small.                                      *)
Drawn ==
  [name \in STAGES |->
     CASE name = "arith_mix" -> [a : {3, 9999}, b : {1, 9999}, s1 : {1, Short - 1},
                                 s2 : {1, Short - 1}, m : {7, 1000003}]
       [] name = "digit_sum" -> [base : {0, 16}]
       [] name = "prime_sieve" -> [span : {30, 60}]
       [] name = "closure_factory" -> [k : {2, 12}]
       [] name = "coroutine_gen" -> [span : {10, 60}]
       [] name = "iterator_pipe" -> [m : {8}, keep : {2, 5}, step : {13}]
       [] name = "string_gsub" -> [rep : {4, 30}]
       [] name = "pattern_caps" -> [n : {3, 12}]
       [] name = "metatable_stateful" -> [k : {3, 16}, range : {10}]
       [] name = "self_modifying_mt" -> [k : {4, 20}]
       [] name = "table_sort" -> [m : {6}]
       [] name = "recursion_gcd" -> [k : {2, 15}, range : {50}]
       [] name = "pcall_roundtrip" -> [k : {2, 7}]
       [] name = "vararg_select" -> [k : {3, 10}]
       [] name = "shadow_scope" -> [depth : {3, 8}]
       [] name \in {"err_index_ml", "err_call_ml"} -> [m : 2 .. 5]
       [] name = "err_compare_ml" -> [m : 2 .. 4]
       [] name = "err_custom" -> [m : {3, 9}, lvl : 0 .. 2]
       [] name = "assert_flag" -> [w : {1, MaxInt}]
       [] name = "error_terminus" -> [lvl : 0 .. 2]
       [] name = "math_exact" -> [d : {1, 97}, range : {100}]
       [] OTHER -> {[none |-> 0]}]
-----------------------------------------------------------------------------
(* render: a program hands v from stage to stage; each stage runs under     *)
(* pcall and leaves in the transcript what it emitted and its value or      *)
(* error; v changes only when the stage returned an integer.                *)
RefStage(s) == [v \in MinInt .. MaxInt |-> Stage(s.name, v, s.p)]
(* golua's stages, wrong about one of them in the way "bug" says.           *)
GoluaStage(s, bug) ==
  [v \in MinInt .. MaxInt |->
     LET r == Stage(s.name, v, s.p)
     IN IF s.name = bug.name /\ v % bug.mod = bug.rem /\ r.ok
        THEN [r EXCEPT !.val = Wrap(@ + bug.off)] ELSE r]
Recorded(before, name, r) == [v   |-> IF r.ok THEN r.val ELSE before.v,
                              out |-> Append(before.out, <<name, r>>)]
Transcript(program, stages) == \* stages: each stage of the program as a function
  Folded(Len(program), [v |-> SeedConst, out |-> <<>>], LAMBDA before, n :
    The({Recorded(before, program[n].name, r) : r \in {stages[n][before.v]}})).out
ReferenceTranscript(program) ==
  Transcript(program, [n \in 1 .. Len(program) |-> RefStage(program[n])])
GoluaTranscript(program, bug) ==
  Transcript(program, [n \in 1 .. Len(program) |-> GoluaStage(program[n], bug)])
=============================================================================
