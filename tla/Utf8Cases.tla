----------------------------- MODULE Utf8Cases -----------------------------
(* What utf8fuzz decodes and encodes: byte strings, as sequences of         *)
(* numbers, each with the calls made on it; and the oracle-free invariants  *)
(* its driver prints for each string, under a correct utf8 library.         *)
EXTENDS Integers, Sequences, FiniteSets, SequencesExt

MAXUNICODE == 1114111                  \* 0x10FFFF
MAXEXTENDED == 2147483647              \* 0x7FFFFFFF
Surrogates == 55296 .. 57343           \* 0xD800 .. 0xDFFF
CP_BOUNDARIES ==
  {0, 1, 127, 128, 256, 2047, 2048, 2049, 4095, 65535, 65536, 65537, MAXUNICODE,
   55295, 55296, 56319, 56320, 57343, 57344, 1114112, 2097151, 2097152, 67108863,
   67108864, MAXEXTENDED}

(* The byte of cp that holds its bits from 6 * k up, and a sequence of n.   *)
Continuation(cp, k) == 128 + ((cp \div 2 ^ (6 * k)) % 64)
Lead(n) == <<0, 192, 224, 240, 248, 252>>[n]
Bytes(lead, cp, n) == <<lead>> \o [k \in 1 .. n - 1 |-> Continuation(cp, n - 1 - k)]
(* Mutant: one code point too many gets two bytes.                          *)
_encShort(cp) ==
  LET n == CASE cp <= 127 -> 1 [] cp \in 128 .. 2048 -> 2 [] cp \in 2049 .. 65535 -> 3
             [] cp \in 65536 .. 2097151 -> 4 [] cp \in 2097152 .. 67108863 -> 5 [] OTHER -> 6
  IN Bytes(Lead(n) + (cp \div 2 ^ (6 * (n - 1))), cp, n)

_enc(cp) ==
  LET n == CASE cp <= 127 -> 1 [] cp \in 128 .. 2047 -> 2 [] cp \in 2048 .. 65535 -> 3
             [] cp \in 65536 .. 2097151 -> 4 [] cp \in 2097152 .. 67108863 -> 5 [] OTHER -> 6
  IN Bytes(Lead(n) + (cp \div 2 ^ (6 * (n - 1))), cp, n)
_overlong(cp, nbytes) ==
  Bytes(Lead(nbytes) + ((cp \div 2 ^ (6 * (nbytes - 1))) % 2 ^ (7 - nbytes)), cp, nbytes)
EncAll(cps) == FlattenSeq([i \in DOMAIN cps |-> _enc(cps[i])])

(* The table of subjects, by what its comments say of them.                 *)
MALFORMED ==
  [valid |-> {<<>>, <<65>>, <<0>>, <<127>>,
              EncAll(<<97, 233, 98, 20013, 99, 128512, 100>>), <<97, 0>> \o _enc(20013)},
   lone |-> {<<128>>, <<191>>, <<128, 128>>},
   lead |-> {<<b>> : b \in {192, 193, 245, 246, 247, 248, 251, 252, 253, 254, 255}},
   overlong |-> {_overlong(0, 2), _overlong(47, 2), _overlong(0, 3), _overlong(127, 3),
                 _overlong(128, 3), _overlong(0, 4), _overlong(2047, 4)},
   surrogate |-> {_enc(55296), _enc(56319), _enc(56320), _enc(57343)},
   extended |-> {_enc(1114112), _enc(2097151), _enc(2097152), _enc(67108863),
                 _enc(67108864), _enc(MAXEXTENDED)},
   truncated |-> {<<194>>, <<224>>, <<224, 160>>, <<240>>, <<240, 144>>, <<240, 144, 128>>,
                  <<248, 128>>, <<252, 128, 128>>, <<65, 66, 224, 160>>,
                  _enc(20013) \o <<240>>, SubSeq(_enc(MAXUNICODE), 1, 3)},
   broken |-> {<<224, 160, 32>>, <<240, 144, 128, 32>>, <<194, 32>>},
   stray |-> {<<65, 128>>, _enc(128) \o <<128>>, _enc(20013) \o <<128>>}]
-----------------------------------------------------------------------------
(* The cases: a subject, the set of the code points it was built from, None *)
(* when it was not, and the calls; an argument left out is <<>>.            *)
None == {}
Op(k, args) == <<k, args>>
_cp_ops ==
  <<Op("charpattern", <<>>)>>
  \o FlattenSeq([x \in 1 .. 2 |->
       <<Op("codepoint", <<<<1>>, <<-1>>, x = 2>>), Op("len", <<<<1>>, <<-1>>, x = 2>>),
         Op("len", <<<<>>, <<>>, x = 2>>), Op("codes", <<x = 2>>)>>])
_offset_battery(slen) ==
  LET ns == <<0, 1, 2, -1, -2, slen, slen + 1, -(slen + 1)>>
      is == <<1, 2, -1, slen, slen + 1>>
  IN [k \in 1 .. 8 |-> Op("offset", <<ns[k], <<>>>>)]
     \o FlattenSeq([k \in 1 .. 5 |-> [n \in 1 .. 3 |-> Op("offset", <<<<0, 1, -1>>[n], <<is[k]>>>>)]])
(* The two positions drawn at random inside the string are its middle.      *)
index_args(slen) ==
  <<<<>>, <<1>>, <<2>>, <<-1>>, <<-2>>, <<slen>>, <<slen + 1>>, <<slen + 2>>, <<-slen>>,
    <<-slen - 1>>, <<0>>>>
  \o (IF slen > 2 THEN <<<<slen \div 2>>, <<-(slen \div 2)>>>> ELSE <<>>)
Sweep(slen) ==
  FlattenSeq([a \in DOMAIN index_args(slen) |->
    FlattenSeq([b \in 1 .. 3 |->
      LET i == index_args(slen)[a]
          j == <<<<>>, <<-1>>, <<slen>>>>[b]
      IN <<Op("codepoint", <<i, j, FALSE>>), Op("codepoint", <<i, j, TRUE>>),
           Op("len", <<i, j, FALSE>>), Op("len", <<i, j, TRUE>>)>>])])

Case(subject, cps, ops) == [subject |-> subject, cps |-> cps, ops |-> ops]
Decoding(s, cps, more) == Case(s, cps, _cp_ops \o _offset_battery(Len(s)) \o more)
tier0 == {Case(<<>>, None, <<Op("char", <<cp>>)>>) : cp \in CP_BOUNDARIES \union {-1}}
         \union {Decoding(_enc(cp), {<<cp>>}, <<>>) : cp \in CP_BOUNDARIES}
tier1 ==
  {Decoding(EncAll(cps), {cps}, <<Op("codepoint", <<<<1>>, <<Len(EncAll(cps))>>, FALSE>>)>>) :
     cps \in {<<65, 128, 2047>>, <<2048, 65535, 65>>, <<65536, MAXUNICODE, 128>>,
              <<127, 128, 2047, 2048, 65535, 65536, MAXUNICODE>>,
              <<20013, 25991, 128512>>, <<0, 65, 0, 20013>>}}
tier2(group) == {Decoding(s, None, Sweep(Len(s))) : s \in MALFORMED[group]}

(* Random strings are made of boundary code points, without the surrogates  *)
(* unless the extended ones are allowed, or of boundary bytes.              *)
rand_valid_string(maxcps, allow_ext) ==
  LET drawn == {cp \in CP_BOUNDARIES : allow_ext \/ (cp <= MAXUNICODE /\ cp \notin Surrogates)}
  IN UNION {[1 .. n -> drawn] : n \in 0 .. maxcps}
rand_bytes(maxlen) ==
  UNION {[1 .. n -> {0, 65, 127, 128, 191, 192, 194, 224, 237, 240, 244, 248, 253, 255}] : n \in 0 .. maxlen}
Probes(slen) ==
  LET i == index_args(slen)[1 + (slen % 11)]
  IN <<Op("offset", <<-slen - 1, i>>), Op("offset", <<slen + 1, i>>), Op("offset", <<0, i>>),
       Op("codepoint", <<i, <<>>, TRUE>>), Op("len", <<i, <<>>, TRUE>>)>>
tier3(maxcps, maxlen) ==
  {Case(EncAll(cps), {cps}, _cp_ops \o Probes(Len(EncAll(cps)))) :
     cps \in rand_valid_string(maxcps, TRUE)}
  \union {Case(s, None, _cp_ops \o Probes(Len(s))) : s \in rand_bytes(maxlen)}
-----------------------------------------------------------------------------
(* The utf8 library, from the Lua manual: what a sequence that starts at i  *)
(* decodes to, as <<code point, length>>, and <<>> when it is not valid.    *)
LeadLength(b) == CASE b \in 0 .. 127 -> 1 [] b \in 192 .. 223 -> 2 [] b \in 224 .. 239 -> 3
                   [] b \in 240 .. 247 -> 4 [] b \in 248 .. 251 -> 5 [] b \in 252 .. 253 -> 6
                   [] OTHER -> 0
DecodeAt(s, i, lax) ==
  LET n == LeadLength(s[i])
      value[k \in 0 .. n - 1] ==
        IF k = 0 THEN s[i] - Lead(n) ELSE value[k - 1] * 64 + (s[i + k] - 128)
  IN IF n = 0 \/ i + n - 1 > Len(s) \/ \E k \in 1 .. n - 1 : s[i + k] \notin 128 .. 191 THEN <<>>
     ELSE IF value[n - 1] < <<0, 128, 2048, 65536, 2097152, 67108864>>[n] THEN <<>>
     ELSE IF ~lax /\ (value[n - 1] > MAXUNICODE \/ value[n - 1] \in Surrogates) THEN <<>>
     ELSE <<value[n - 1], n>>
(* All of s: the positions and code points utf8.codes goes through, in      *)
(* order, and whether it ends without an error.                             *)
Codes(s, lax) ==
  LET from[i \in 1 .. Len(s) + 1] ==
        IF i > Len(s) THEN [ok |-> TRUE, seq |-> <<>>]
        ELSE LET d == DecodeAt(s, i, lax)
             IN IF d = <<>> THEN [ok |-> FALSE, seq |-> <<>>]
                ELSE [ok |-> from[i + d[2]].ok, seq |-> <<<<i, d[1]>>>> \o from[i + d[2]].seq]
  IN from[1]
utf8_char(cps) == EncAll(cps)
(* utf8.offset(s, n, i) for n = 1 and 2, i the start of a character.        *)
Offset(s, n, i) ==
  IF n = 1 THEN i
  ELSE CHOOSE j \in i + 1 .. Len(s) + 1 : /\ j > Len(s) \/ s[j] \notin 128 .. 191
                                         /\ \A k \in i + 1 .. j - 1 : s[k] \in 128 .. 191

(* The invariant lines of the driver for a subject: a line is its name and  *)
(* what it says.  The walk goes from start to start with utf8.offset.       *)
Walk(s) ==
  LET walk[p \in 1 .. Len(s) + 1] ==
        LET sp == Offset(s, 1, p)
            d == DecodeAt(s, sp, FALSE)
        IN IF p > Len(s) THEN <<>>
           ELSE IF d = <<>> THEN <<"inconsistent">>
           ELSE <<<<sp, d[1]>>>> \o walk[Offset(s, 2, sp)]
  IN walk[1]
InvLines(s) ==
  LET codes == Codes(s, FALSE)
      cps == [k \in DOMAIN codes.seq |-> codes.seq[k][2]]
  IN IF ~codes.ok THEN {}
     ELSE {<<"roundtrip", utf8_char(cps) = s>>, <<"len_eq_cps", Len(codes.seq) = Len(cps)>>,
           <<"offset_walk", Walk(s) = codes.seq>>}
make_case(c) == [c |-> c, inv |-> InvLines(c.subject)]
=============================================================================
