---------------------------- MODULE FormatCases ----------------------------
(* What formatfuzz formats: formats, as sequences of tokens, and for each   *)
(* one a few tuples of arguments.  A token is "%", a flag, a number, ".",   *)
(* "*", a conversion letter, or "lit" for text without a "%"; the number 0  *)
(* is written as the flag it reads as.                                      *)
EXTENDS Integers, Sequences, SequencesExt

None == ""
INT_CONV == {"d", "i", "u", "o", "x", "X"}
FLOAT_CONV == {"e", "E", "f", "F", "g", "G", "a", "A"}
ALL_CONV == INT_CONV \union FLOAT_CONV \union {"s", "c", "q"}
FLAGS == {"-", "+", " ", "#", "0"}
LEGAL_WIDTHS == {"0", "1", "2", "5", "8", "10", "20", "99"}
ILLEGAL_WIDTHS == {"100", "123", "999"}
LEGAL_PRECS == {"0", "1", "2", "5", "6", "17", "99"}
ILLEGAL_PRECS == {"100", "200"}
LEGAL_FLAGS(conv) ==
  CASE conv \in {"d", "i"}      -> <<"-", "+", " ", "0">>
    [] conv = "u"               -> <<"-", "0">>
    [] conv \in {"o", "x", "X"} -> <<"-", "#", "0">>
    [] conv \in FLOAT_CONV      -> <<"-", "+", " ", "#", "0">>
    [] conv \in {"s", "c"}      -> <<"-">>
    [] conv = "q"               -> <<>>
    [] OTHER                    -> <<"-", "+", " ", "#", "0">>

Tok(t) == IF t = None THEN <<>> ELSE <<t>>
_spec(flags, width, prec, conv) ==
  <<"%">> \o flags \o Tok(width) \o (IF prec = None THEN <<>> ELSE <<".", prec>>) \o <<conv>>
-----------------------------------------------------------------------------
(* The tiers.                                                               *)
tier0 ==
  {<<"%", "%">>}
  \union {_spec(f, w[1], w[2], c) :
            c \in ALL_CONV, f \in {<<>>},
            w \in {<<None, None>>, <<"5", None>>, <<None, "2">>, <<"8", "3">>}}
  \union {_spec(<<f>>, None, None, c) : c \in ALL_CONV, f \in FLAGS}
  \union {_spec(<<"-">>, "8", None, c) : c \in ALL_CONV \ {"q"}}

_flag_combos(allowed) ==
  LET has(f) == \E i \in 1 .. Len(allowed) : allowed[i] = f
  IN {SubSeq(allowed, i, j) : i \in 1 .. Len(allowed), j \in 0 .. Len(allowed)}
     \union (IF has("-") /\ has("0") THEN {<<"-", "0">>, <<"0", "-">>} ELSE {})
     \union (IF has("+") /\ has("#") THEN {<<"+", "#">>, <<"#", "+">>} ELSE {})
tier1 ==
  UNION {{_spec(f, w, p, c) : f \in _flag_combos(LEGAL_FLAGS(c)),
                              w \in {None, "0", "1", "6", "10", "20"},
                              p \in {None, "0", "1", "2", "6", "12"}} : c \in ALL_CONV}

tier2 ==
  {_spec(k[1], k[2], k[3], c) : c \in INT_CONV,
     k \in {<< <<>>, None, None>>, << <<>>, "5", None>>, << <<>>, None, "0">>,
            << <<"0">>, "8", None>>, << <<"-">>, "8", None>>}}
  \union {_spec(k[1], k[2], None, c) : c \in {"o", "x", "X"},
            k \in {<< <<"#">>, None>>, << <<"#", "0">>, "8">>}}
  \union {_spec(k[1], k[2], k[3], c) : c \in FLOAT_CONV,
            k \in {<< <<>>, None, None>>, << <<>>, None, "0">>, << <<>>, None, "17">>,
                   << <<"+">>, None, "6">>, << <<"0">>, "20", "10">>,
                   << <<"#">>, None, None>>, << <<" ">>, None, None>>,
                   << <<"-">>, "15", "3">>}}
  \union {_spec(k[1], k[2], k[3], "s") :
            k \in {<< <<>>, None, None>>, << <<>>, None, "0">>, << <<>>, None, "3">>,
                   << <<>>, "10", None>>, << <<"-">>, "10", None>>, << <<>>, None, "20">>}}
  \union {_spec(<<>>, None, None, "c"), _spec(<<>>, "5", None, "c"),
          _spec(<<"-">>, "5", None, "c"), _spec(<<>>, None, None, "q")}

(* A random spec draws its flags from the allowed ones, in any order: here  *)
(* none, one of them or all of them; and its numbers from the legal ones or *)
(* from the others.                                                         *)
Flagged(allowed) == {<<>>, allowed, Reverse(allowed)} \union {<<allowed[i]>> : i \in DOMAIN allowed}
_rand_spec(widths, precs) ==
  UNION {{_spec(f, w, p, c) : f \in Flagged(LEGAL_FLAGS(c)), w \in {None} \union widths,
                              p \in {None} \union precs} : c \in ALL_CONV \union {"p"}}
lit == {<<>>, <<"lit">>, <<" ">>, <<"%", "%">>}
tier3(specs) == {l \o s \o m \o t : l, m \in lit, s, t \in specs}

illegal ==
  {<<"%", c>> : c \in {"y", "w", "Y", "b", "W", "v", "k", "S", "n", "L", "h", " "}}
  \union {<<"%">>, <<"lit", "%">>, <<"%", "%", "%">>}
  \union {<<"%", "h", "d">>, <<"%", "l", "d">>, <<"%", "l", "l", "d">>, <<"%", "L", "f">>,
          <<"%", "h", "h", "d">>, <<"%", "z", "d">>, <<"%", "j", "d">>, <<"%", "t", "d">>}
  \union {<<"%", "*", "d">>, <<"%", ".", "*", "f">>, <<"%", "2", "$", "d">>, <<"%", "1", "$", "s">>}
  \union {_spec(<<>>, w, None, "d") : w \in ILLEGAL_WIDTHS}
  \union {_spec(<<>>, None, p, "f") : p \in ILLEGAL_PRECS}
  \union {<<"%", k[1], k[2]>> :
            k \in {<<"#", "d">>, <<"#", "i">>, <<"#", "s">>, <<"#", "c">>, <<"+", "s">>,
                   <<"+", "u">>, <<"+", "c">>, <<" ", "s">>, <<" ", "c">>, <<" ", "u">>,
                   <<"0", "s">>, <<"0", "c">>, <<"#", "u">>, <<"1", "q">>, <<"-", "q">>,
                   <<"+", "q">>, <<"#", "q">>}}
  \union {_spec(<<>>, None, "2", c) : c \in {"c", "p", "q"}}
  \union {<<"%", ".", ".", "2", "f">>, <<"%", "2", ".", "f">>, <<"%", ".", "f">>}
  \union {_spec(k[1], k[2], k[3], k[4]) :
            k \in {<< <<>>, "100", None, "F">>, << <<>>, "123", None, "F">>,
                   << <<>>, "5", "100", "F">>, << <<>>, None, "100", "F">>,
                   << <<"-", "#">>, "999", None, "F">>, << <<>>, "100", None, "s">>,
                   << <<>>, None, "100", "s">>, << <<"-">>, "100", "2", "s">>,
                   << <<>>, "999", "5", "s">>}}
-----------------------------------------------------------------------------
(* parse_convs: the conversions of a format, by the scanner of values.py,   *)
(* and _has_ptr: whether one is p, by the scanner of run.py.                *)
Digits == {"0", "*"} \union ({"1", "2", "3", "6", "12", "15"} \union LEGAL_WIDTHS
          \union LEGAL_PRECS \union ILLEGAL_WIDTHS \union ILLEGAL_PRECS)
Past(fmt, i, skipped) ==
  CHOOSE j \in i .. Len(fmt) + 1 : /\ \A k \in i .. j - 1 : fmt[k] \in skipped
                                   /\ j > Len(fmt) \/ fmt[j] \notin skipped
ConversionAt(fmt, i) ==
  LET point == Past(fmt, Past(fmt, i + 1, FLAGS), Digits)
  IN IF point <= Len(fmt) /\ fmt[point] = "." THEN Past(fmt, point + 1, Digits) ELSE point
parse_convs(fmt) ==
  LET convs[i \in 1 .. Len(fmt) + 1] ==
        IF i > Len(fmt) THEN <<>>
        ELSE IF fmt[i] # "%" THEN convs[i + 1]
        ELSE LET c == ConversionAt(fmt, i)
             IN IF c > Len(fmt) THEN <<"END">>
                ELSE IF fmt[c] = "%" THEN convs[c + 1]
                ELSE <<fmt[c]>> \o convs[c + 1]
  IN convs[1]
_has_ptr(fmt) ==
  LET ptr[i \in 1 .. Len(fmt) + 2] ==
        IF i > Len(fmt) THEN FALSE
        ELSE IF fmt[i] # "%" THEN ptr[i + 1]
        ELSE LET c == Past(fmt, i + 1, FLAGS \union Digits \union {"."})
             IN (c <= Len(fmt) /\ fmt[c] = "p") \/ ptr[c + 1]
  IN ptr[1]
-----------------------------------------------------------------------------
(* The arguments: a value is its Lua type and the boundary it stands for.   *)
Value(type, name) == [type |-> type, name |-> name]
NoValue == Value("none", "")
_slot_kind(conv) ==
  CASE conv \in FLOAT_CONV -> "float" [] conv = "s" -> "str" [] conv = "c" -> "char"
    [] conv = "q" -> "quote" [] conv = "p" -> "ptr" [] OTHER -> "int"
PROFILES ==
  [int   |-> <<"zero", "one", "neg", "max", "min", "byte", "rand">>,
   float |-> <<"zero", "one", "neg", "pi", "inf", "special", "negzero", "min", "max", "rand">>,
   str   |-> <<"empty", "ascii", "high", "long", "nul", "rand">>,
   char  |-> <<"zero", "A", "byte", "over", "neg", "rand">>]
_value_for(kind, band) ==
  IF kind = "ptr" THEN Value("str", "x")
  ELSE IF kind = "quote" THEN Value("int", "rand")
  ELSE Value(IF kind = "char" THEN "int" ELSE kind,
             PROFILES[kind][1 + (band % Len(PROFILES[kind]))])
QUOTE_VALUES ==
  {Value("str", n) : n \in {"empty", "abc", "escapes", "zeros", "high"}}
  \union {Value("int", n) : n \in {"zero", "one", "neg", "max", "min"}}
  \union {Value("float", n) : n \in {"pi", "inf", "-inf", "special", "negzero", "one", "min"}}
  \union {Value("bool", "true"), Value("bool", "false"), Value("nil", "")}
_WRONG == [int   |-> {Value("float", "3.5"), Value("str", "abc"), Value("bool", "true"),
                      Value("nil", ""), Value("str", "empty")},
           float |-> {Value("str", "abc"), Value("bool", "true"), Value("nil", "")},
           str   |-> {Value("str", "nul")},
           char  |-> {Value("float", "3.5"), Value("str", "x"), Value("nil", "")},
           quote |-> {}, ptr |-> {}]

_quote_tuples(kinds) ==
  {[i \in DOMAIN kinds |-> IF kinds[i] = "quote" THEN v ELSE _value_for(kinds[i], 0)] :
     v \in QUOTE_VALUES}
_illegal_tuples(kinds) ==
  LET base == [i \in DOMAIN kinds |-> _value_for(kinds[i], 0)]
  IN {base, [base EXCEPT ![Len(kinds)] = NoValue], [i \in DOMAIN kinds |-> NoValue]}
     \union UNION {{[base EXCEPT ![i] = w] : w \in _WRONG[kinds[i]]} : i \in DOMAIN kinds}
value_tuples(fmt, wrong) ==
  LET convs == parse_convs(fmt)
      kinds == [i \in DOMAIN convs |-> _slot_kind(convs[i])]
  IN CASE convs = <<>> -> {<<>>}
       [] convs # <<>> /\ wrong -> _illegal_tuples(kinds)
       [] convs # <<>> /\ ~wrong /\ (\E i \in DOMAIN kinds : kinds[i] = "quote") -> _quote_tuples(kinds)
       [] OTHER -> {[i \in DOMAIN kinds |-> _value_for(kinds[i], b)] : b \in 0 .. 6}

(* What reaches string.format: the driver writes the arguments up to a      *)
(* missing one as a table, and passes #args of them: nils at the end go.    *)
render_case(vals) ==
  LET written == SelectInSeq(vals, LAMBDA v : v.type = "none")
      args == IF written = 0 THEN vals ELSE SubSeq(vals, 1, written - 1)
      last == SelectLastInSeq(args, LAMBDA v : v.type # "nil")
  IN SubSeq(args, 1, last)
make_cases(fmt, wrong) ==
  {[fmt |-> fmt, args |-> render_case(t), has_ptr |-> _has_ptr(fmt)] : t \in value_tuples(fmt, wrong)}
=============================================================================
