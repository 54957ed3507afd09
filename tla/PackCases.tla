------------------------------ MODULE PackCases ------------------------------
(* What packfuzz packs: formats, as sequences of directives, and for each   *)
(* format a few tuples of values.  A directive is its letter, with its      *)
(* number when it has one.                                                  *)
EXTENDS Integers, Sequences, FiniteSets, SequencesExt

CONSTANTS ByteBits,  \* bits of a byte: 8 in the code
          RandomInt  \* an integer in the range of every width, drawn at random

CONTROL == {"<", ">", "=", " "}
FIXED_DATA == {"b", "B", "h", "H", "l", "L", "j", "J", "T", "f", "d", "n"}
INT_SIZED == {"i", "I"}
STR_SIZED == {"s"}
VAR_SPECIAL == {"z", "x"}
X_TARGETS == FIXED_DATA \union {"i", "I"}
LEGAL_SIZE == 1 .. 16
ILLEGAL_SIZE == {0, 17, 18, 99}

Bare(letters) == {<<d>> : d \in letters}
Sized(letters, sizes) == letters \X sizes
-----------------------------------------------------------------------------
(* The tiers.                                                               *)
tier0 ==
  {<<d>> : d \in Bare((CONTROL \ {" "}) \union FIXED_DATA \union VAR_SPECIAL)
                 \union Bare(INT_SIZED \union STR_SIZED)
                 \union Sized(INT_SIZED \union STR_SIZED, LEGAL_SIZE \union ILLEGAL_SIZE)
                 \union Bare({"c"}) \union Sized({"c"}, {0, 1, 2, 3, 7, 8, 16, 255})
                 \union Bare({"!"}) \union Sized({"!"}, LEGAL_SIZE \union ILLEGAL_SIZE)}
  \union {<<<<"X">>, <<t>>>> : t \in X_TARGETS \union {"z", "s", "c", "x"}}
  \union {<<<<"X">>>>}

Aligns == {<<>>, <<<<"!">>>>} \union {<<<<"!", n>>>> : n \in {1, 2, 4, 8, 16}}
AlignedOps == {<<"b">>, <<"h">>, <<"i", 3>>, <<"i", 4>>, <<"i", 8>>, <<"l">>, <<"j">>, <<"T">>,
               <<"f">>, <<"d">>, <<"c", 1>>, <<"c", 3>>, <<"s">>, <<"z">>, <<"x">>}
tier1 ==
  {a \o <<o1, o2>> : a \in Aligns, o1, o2 \in AlignedOps}
  \union {a \o <<<<"X">>, t, o, <<"b">>>> :
            a \in {<<<<"!", 8>>>>, <<<<"!", 4>>>>, <<>>},
            t \in {<<"i", 8>>, <<"d">>, <<"h">>, <<"f">>},
            o \in {<<"b">>, <<"i", 4>>, <<"d">>, <<"c", 1>>}}

Endians == Bare({"<", ">", "="})
MultiByte == Bare({"h", "j", "T", "f", "d"})
             \union {<<"i", 2>>, <<"i", 4>>, <<"i", 8>>, <<"s", 2>>, <<"I", 3>>}
tier2 ==
  {<<e1, d1, e2, d2>> : e1, e2 \in Endians, d1 \in MultiByte,
                        d2 \in {<<"h">>, <<"i", 4>>, <<"d">>, <<"I", 3>>}}
  \union {<<<<e[1]>>, d, <<e[2]>>, d, <<e[3]>>, d>> :
            d \in {<<"i", 4>>, <<"d">>, <<"j">>},
            e \in {<<"<", ">", "=">>, <<">", "<", ">">>, <<"=", "<", ">">>}}

(* A random directive may be an alignment with its target.                  *)
rand_directive ==
  {<<d>> : d \in Bare(FIXED_DATA \union INT_SIZED \union STR_SIZED \union VAR_SPECIAL
                      \union CONTROL \union {"!"})
                 \union Sized(INT_SIZED \union STR_SIZED \union {"!"}, LEGAL_SIZE)
                 \union Sized({"c"}, 0 .. 12)}
  \union {<<<<"X">>, <<t>>>> : t \in X_TARGETS}
tier3(count) == {FlattenSeq(s) : s \in [1 .. count -> rand_directive]}
-----------------------------------------------------------------------------
(* parse_slots: the values a format consumes.  X takes the directive after  *)
(* it, which then packs nothing.                                            *)
native_width(d) == CASE d \in {"b", "B"} -> 1 [] d \in {"h", "H"} -> 2 [] OTHER -> 8
Slot(kind, width, signed) == [kind |-> kind, width |-> width, signed |-> signed]
Size(t, default) == IF Len(t) = 1 THEN default ELSE t[2]
SlotsOf(t) ==
  CASE t[1] \in {"b", "h", "l", "j"}      -> <<Slot("int", native_width(t[1]), TRUE)>>
    [] t[1] \in {"B", "H", "L", "J", "T"} -> <<Slot("int", native_width(t[1]), FALSE)>>
    [] t[1] \in {"i", "I"}                -> <<Slot("int", Size(t, 8), t[1] = "i")>>
    [] t[1] = "f"                         -> <<Slot("float32", 4, TRUE)>>
    [] t[1] \in {"d", "n"}                -> <<Slot("float64", 8, TRUE)>>
    [] t[1] = "c"                         -> <<Slot("cstr", Size(t, -1), TRUE)>>
    [] t[1] = "s"                         -> <<Slot("sstr", Size(t, 8), TRUE)>>
    [] t[1] = "z"                         -> <<Slot("zstr", 0, TRUE)>>
    [] OTHER                              -> <<>>
(* Mutant: the directive after an X packs a value.                          *)
parse_slotsPadded(fmt) == FlattenSeq([i \in 1 .. Len(fmt) |-> SlotsOf(fmt[i])])

parse_slots(fmt) ==
  LET taken[i \in 0 .. Len(fmt)] == i > 1 /\ fmt[i - 1][1] = "X" /\ ~taken[i - 1]
  IN FlattenSeq([i \in 1 .. Len(fmt) |-> IF taken[i] THEN <<>> ELSE SlotsOf(fmt[i])])
-----------------------------------------------------------------------------
(* The values.  Each profile picks one entry of a list of boundaries.       *)
INT64_MAX == 2 ^ (8 * ByteBits - 1) - 1
INT64_MIN == -(2 ^ (8 * ByteBits - 1))
int_boundaries(width, signed) ==
  LET bits == ByteBits * width
      umax == 2 ^ bits - 1
      smax == 2 ^ (bits - 1) - 1
      smin == -(2 ^ (bits - 1))
  IN <<0, 1, -1>> \o
     (IF width < 1 \/ width >= 8 THEN <<INT64_MAX, INT64_MIN, RandomInt>>
      ELSE IF signed THEN <<smax, smin, smax + 1, smin - 1, RandomInt>>
           ELSE <<umax, umax + 1, RandomInt>>)
float_boundaries(is32) ==
  <<"-0", "0", "1", "-1", "+inf", "-inf", "nan", "pi">>
  \o (IF is32 THEN <<"max32", "min32">> ELSE <<"max64", "min64", "normal64">>)

PROFILES == <<"min", "max", "neg", "special", "rand">>
IntIndex == [min |-> 0, max |-> -2, neg |-> 2, special |-> 1, rand |-> -1]
FloatIndex == [min |-> 1, max |-> 8, neg |-> 3, special |-> 6]
SStrLength == [min |-> 0, max |-> 64, neg |-> 1, special |-> 255, rand |-> 32]
ZStrLength == [min |-> 0, max |-> 32, neg |-> 1, special |-> 8, rand |-> 24]
Pick(list, index) == list[1 + (index % Len(list))]
Str(length, nul) == [len |-> length, nul |-> nul /\ length > 0]

slot_value(s, prof) ==
  CASE s.kind = "int"  -> Pick(int_boundaries(s.width, s.signed), IntIndex[prof])
    [] s.kind \in {"float32", "float64"} ->
         IF prof = "rand" THEN "random"
         ELSE Pick(float_boundaries(s.kind = "float32"), FloatIndex[prof])
    [] s.kind = "cstr" -> Str(s.width, TRUE)
    [] s.kind = "sstr" -> Str(SStrLength[prof], TRUE)
    [] OTHER           -> Str(ZStrLength[prof], FALSE)

(* A c without a size has no value, and then the format has no tuples; one  *)
(* without slots has the empty tuple.  Equal tuples are dropped, and a      *)
(* format without tuples is tried without values.                           *)
TuplesOf(slots) ==
  IF slots = <<>> THEN {<<>>}
  ELSE IF \E i \in 1 .. Len(slots) : slots[i].kind = "cstr" /\ slots[i].width < 0 THEN {}
       ELSE {[i \in 1 .. Len(slots) |-> slot_value(slots[i], PROFILES[k])] :
               k \in 1 .. Len(PROFILES)}
value_tuples(fmt) == TuplesOf(parse_slots(fmt))
make_cases(fmt) == IF value_tuples(fmt) = {} THEN {<<>>} ELSE value_tuples(fmt)
=============================================================================
