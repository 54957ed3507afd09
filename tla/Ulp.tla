-------------------------------- MODULE Ulp --------------------------------
(* How mathfuzz compares the results of one case: a result is a sequence of *)
(* tokens, a float token is told by its bits, and the distance between two  *)
(* floats is counted in representable values.                               *)
EXTENDS Integers, Sequences

CONSTANT W   \* bits of a double: 64 in the code
ASSUME WidthAssumption == W \in Nat \ {0} /\ 2 ^ (W - 1) \in Nat \ {0}

(* Tokens as the driver's serv prints them: "F" a finite float in hex, of   *)
(* which the bits are a sign and a magnitude; "Fnan", "Finf", "F-inf"; "I"  *)
(* an integer; "nil" and the other types.                                   *)
Half == 2 ^ (W - 1)
Bits(neg, mag) == IF neg THEN mag - Half ELSE mag  \* read as a signed integer
Float(neg, mag) == [tag |-> "F", bits |-> Bits(neg, mag)]
Other(tag, n) == [tag |-> tag, bits |-> n]

Finite(t) == t.tag = "F"                           \* _hexfloat gives a number
_ulp_key(bits) == IF bits >= 0 THEN bits ELSE -Half - bits
IsZero(t) == _ulp_key(t.bits) = 0
Distance(a, b) == IF a >= b THEN a - b ELSE b - a

(* classify, one pair of tokens: "match" < "lastulp" < "signzero" < "lead". *)
TokenKind(g, r, tol) ==
  IF g = r THEN "match"
  ELSE IF ~(Finite(g) /\ Finite(r)) THEN "lead"
  ELSE IF IsZero(g) /\ IsZero(r) THEN "signzero"
  ELSE IF Distance(_ulp_key(g.bits), _ulp_key(r.bits)) <= tol THEN "lastulp"
  ELSE "lead"
Ranked == <<"lead", "signzero", "lastulp", "match">>
(* classify: the worst of the pairs; a result of another length is a lead.  *)
classify(g, r, tol) ==
  IF Len(g) # Len(r) THEN "lead"
  ELSE LET kinds == {TokenKind(g[i], r[i], tol) : i \in 1 .. Len(g)} \union {"match"}
       IN Ranked[CHOOSE n \in 1 .. 4 :
                   /\ Ranked[n] \in kinds
                   /\ \A k \in 1 .. n - 1 : Ranked[k] \notin kinds]
=============================================================================
