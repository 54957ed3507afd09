---------------------------- MODULE MutantCases ----------------------------
(* What bytecodefuzz loads: the mutants of a dumped chunk, a sequence of    *)
(* bytes.  The reader finds the instructions of the top function and its    *)
(* frame size; a mutant changes a few bytes there, or anywhere after the    *)
(* header, or cuts the dump.  Offsets count from 0, as in the code.         *)
EXTENDS Integers, Sequences, FiniteSets, SequencesExt

CONSTANTS HDR_LEN, HDR_LEN_54  \* bytes of the header: 40 and 33 in the code

Byte(dump, i) == dump[i + 1]
Set(dump, i, b) == [dump EXCEPT ![i + 1] = b]
High(b, bits) == bits + (b % (256 - bits))  \* b | bits, for bits = 0x80
Low(b) == (b \div 128) * 128 + 127          \* b | 0x7F

(* Reader: each reads at pos and returns where it stops; uvar also what.    *)
uvar(dump, pos) ==
  LET last == CHOOSE j \in pos .. Len(dump) - 1 :
                Byte(dump, j) >= 128 /\ \A k \in pos .. j - 1 : Byte(dump, k) < 128
      x[j \in pos - 1 .. last] ==
        IF j < pos THEN 0 ELSE x[j - 1] * 128 + (Byte(dump, j) % 128)
  IN <<x[last], last + 1>>
(* Mutant: the size of a string is taken for its length.                    *)
stringWhole(dump, pos, lua54) ==
  LET size == uvar(dump, pos)
  IN IF size[1] > 0 THEN size[2] + size[1]
     ELSE IF lua54 THEN size[2] ELSE uvar(dump, size[2])[2]

string(dump, pos, lua54) ==
  LET size == uvar(dump, pos)
  IN IF size[1] > 0 THEN size[2] + size[1] - 1
     ELSE IF lua54 THEN size[2] ELSE uvar(dump, size[2])[2]

maxstack_offset(dump, lua54) ==
  LET source == (IF lua54 THEN HDR_LEN_54 ELSE HDR_LEN) + 1
      line == string(dump, source, lua54)
      lastline == uvar(dump, line)[2]
      vaflag == uvar(dump, lastline)[2] + 1
      named == ~lua54 /\ (Byte(dump, vaflag) \div 2) % 2 = 1
  IN IF named THEN vaflag + 2 ELSE vaflag + 1
locate_code(dump, lua54) ==
  LET ncode == uvar(dump, maxstack_offset(dump, lua54) + 1)
  IN IF ncode[1] = 0 \/ ncode[2] + 4 * ncode[1] > Len(dump) THEN {}
     ELSE {[start |-> ncode[2], ncode |-> ncode[1]]}
-----------------------------------------------------------------------------
(* The mutants, each with its tag and the instruction it is about.          *)
Mutant(tag, i, bytes) == [tag |-> tag, i |-> i, bytes |-> bytes]
opmax(dump, ins) == Set(Set(dump, ins + 2, 255), ins + 3, 255)
Amax(dump, ins) ==
  Set(Set(dump, ins, High(Byte(dump, ins), 128)), ins + 1, Low(Byte(dump, ins + 1)))
Bxmax(dump, ins) == opmax(Set(dump, ins + 1, High(Byte(dump, ins + 1), 128)), ins)

(* A random mutant sets a byte of the region; so does a broad one, anywhere *)
(* after the header.  Drawing more bytes only repeats this.                 *)
InCode(dump, lua54, loc) ==
  LET at(i) == loc.start + 4 * i
  IN {Mutant("opmax", i, opmax(dump, at(i))) : i \in 0 .. loc.ncode - 1}
     \union {Mutant("Amax", i, Amax(dump, at(i))) : i \in 0 .. loc.ncode - 1}
     \union {Mutant("Bxmax", i, Bxmax(dump, at(i))) : i \in 0 .. loc.ncode - 1}
     \union {Mutant("maxstack", 0, Set(dump, maxstack_offset(dump, lua54), ms)) : ms \in {0, 1, 2}}
     \union {Mutant("rand", 0, Set(dump, p, b)) :
               p \in loc.start .. loc.start + 4 * loc.ncode - 1, b \in {0, 255}}
mutate(dump, lua54) ==
  LET body == IF lua54 THEN HDR_LEN_54 ELSE HDR_LEN
      cuts == {Len(dump) - 1, (Len(dump) * 3) \div 4, Len(dump) \div 2, body + 1}
  IN UNION {InCode(dump, lua54, loc) : loc \in locate_code(dump, lua54)}
     \union {Mutant("broad", 0, Set(dump, p, b)) : p \in body .. Len(dump) - 1, b \in {0, 255}}
     \union {Mutant("trunc", 0, SubSeq(dump, 1, cut)) : cut \in {c \in cuts : 0 < c /\ c < Len(dump)}}
-----------------------------------------------------------------------------
(* The dumper of the interpreter: the fields in their order, a number with  *)
(* its most significant digits first and the top bit set on the last one, a *)
(* string with its size plus one, and nothing for a reused or empty one.    *)
Varint(x) == IF x < 128 THEN <<128 + x>> ELSE <<x \div 128, 128 + (x % 128)>>
Rep(b, n) == [i \in 1 .. n |-> b]
(* chunk: lua54, source (its length, -1 for none), lines, flag, frame, code *)
Preamble(chunk) ==
  Rep(27, IF chunk.lua54 THEN HDR_LEN_54 ELSE HDR_LEN)
  \o <<1>>
  \o (IF chunk.source >= 0 THEN Varint(chunk.source + 1) \o Rep(64, chunk.source)
      ELSE Varint(0) \o (IF chunk.lua54 THEN <<>> ELSE Varint(0)))
  \o Varint(0) \o Varint(chunk.lastline) \o <<0, chunk.vaflag>>
  \o (IF ~chunk.lua54 /\ (chunk.vaflag \div 2) % 2 = 1 THEN <<0>> ELSE <<>>)
Dump(chunk) ==
  Preamble(chunk) \o <<chunk.maxstack>> \o Varint(Len(chunk.code)) \o FlattenSeq(chunk.code)
  \o <<128, 128, 1>>
=============================================================================
