------------------------------ MODULE ForLoop -------------------------------
(***************************************************************************)
(* The integer for loop: FORPREP and FORLOOP in vm.lua, with udiv and      *)
(* clamp_for_limit.  FORPREP counts the iterations beforehand, in unsigned *)
(* arithmetic, so that FORLOOP never compares with the limit and never     *)
(* overflows.  Integers are two's complement and wrap around; the limit    *)
(* may also be a float, given here by its double so that it may lie        *)
(* between two integers.                                                   *)
(***************************************************************************)
EXTENDS Integers, FiniteSets

CONSTANT Half  \* bound: integers are -Half .. Half - 1, Half = 2^63 in the code

ASSUME HalfAssumption == Half \in Nat \ {0, 1}  \* 1 is an integer

MinInt == -Half
MaxInt == Half - 1
Ints   == MinInt..MaxInt

(* floats up to one past the integers; anything larger is treated alike    *)
Limits == [t : {"int"}, v : Ints]
          \cup [t : {"float"}, d : (-2 * Half - 2)..(2 * Half + 2)]
          \cup [t : {"nan"}]

VARIABLES pc,                 \* "prep", "body", "done" or "error"
          init, limit, step,  \* the operands
          count,              \* loopstate.count, a bit pattern
          val,                \* R[a] and R[a + 3]
          n                   \* history: how often the body has been entered

vars == <<pc, init, limit, step, count, val, n>>

ForTypeOK ==
    /\ pc \in {"prep", "body", "done", "error"}
    /\ init \in Ints /\ limit \in Limits /\ step \in Ints
    /\ count \in Ints /\ val \in Ints /\ n \in Nat

Init == /\ pc = "prep"
        /\ init \in Ints /\ limit \in Limits /\ step \in Ints
        /\ count = 0 /\ val = 0 /\ n = 0

-----------------------------------------------------------------------------

Wrap(x)     == ((x + Half) % (2 * Half)) - Half
Unsigned(x) == x % (2 * Half)
ULT(a, b)   == Unsigned(a) < Unsigned(b)

(* Mutant: the remainder is not looked at.                                 *)
UDivHalves(a, b) ==
    IF b < 0 THEN (IF ULT(a, b) THEN 0 ELSE 1)
    ELSE IF a >= 0 THEN a \div b
    ELSE Wrap(2 * ((Unsigned(a) \div 2) \div b))

(* Unsigned division of two bit patterns by signed operations.             *)
UDiv(a, b) ==
    IF b < 0 THEN (IF ULT(a, b) THEN 0 ELSE 1)
    ELSE IF a >= 0 THEN a \div b
    ELSE LET q == Wrap(2 * ((Unsigned(a) \div 2) \div b))
             r == Wrap(a - q * b)
         IN  IF ULT(r, b) THEN q ELSE Wrap(q + 1)

(* clamp_for_limit: as floats, maxint is Half and minint is -Half.  A NaN  *)
(* stays one, and no comparison with it holds: the loop is skipped.        *)
ClampFor(s) ==
    CASE limit.t = "int" -> [v |-> limit.v, skip |-> FALSE]
      [] limit.t = "nan" -> [v |-> 0, skip |-> TRUE]
      [] limit.t = "float" /\ s > 0 ->
           IF limit.d >= 2 * Half THEN [v |-> MaxInt, skip |-> FALSE]
           ELSE IF limit.d < -2 * Half THEN [v |-> MinInt, skip |-> TRUE]
           ELSE [v |-> limit.d \div 2, skip |-> FALSE]
      [] limit.t = "float" /\ s < 0 ->
           IF limit.d <= -2 * Half THEN [v |-> MinInt, skip |-> FALSE]
           ELSE IF limit.d > 2 * Half THEN [v |-> MaxInt, skip |-> TRUE]
           ELSE [v |-> -((-limit.d) \div 2), skip |-> FALSE]

ForPrep ==
    /\ pc = "prep"
    /\ IF step = 0
       THEN pc' = "error" /\ UNCHANGED <<count, val, n>>
       ELSE LET c   == ClampFor(step)
                run == IF step > 0 THEN init <= c.v ELSE init >= c.v
            IN  IF c.skip \/ ~run
                THEN pc' = "done" /\ UNCHANGED <<count, val, n>>
                ELSE /\ count' = IF step > 0
                                 THEN UDiv(Wrap(c.v - init), step)
                                 ELSE UDiv(Wrap(init - c.v), Wrap(-(step + 1) + 1))
                     /\ val' = init /\ n' = 1 /\ pc' = "body"
    /\ UNCHANGED <<init, limit, step>>

(* Mutant: the count is never lowered.                                     *)
ForLoopForever ==
    /\ pc = "body"
    /\ IF count > 0
       THEN val' = Wrap(val + step) /\ UNCHANGED <<count, pc, n>>
       ELSE pc' = "done" /\ UNCHANGED <<count, val, n>>
    /\ UNCHANGED <<init, limit, step>>

(* FORLOOP, after the body: the comparison is signed.                      *)
ForLoop ==
    /\ pc = "body"
    /\ IF count > 0
       THEN /\ count' = count - 1 /\ val' = Wrap(val + step)
            /\ n' = n + 1 /\ UNCHANGED pc
       ELSE pc' = "done" /\ UNCHANGED <<count, val, n>>
    /\ UNCHANGED <<init, limit, step>>

Next == ForPrep \/ ForLoop
Spec == Init /\ [][Next]_vars /\ WF_vars(Next)

-----------------------------------------------------------------------------
(* The values of the loop by its definition: init + k * step, for as long  *)
(* as they are integers and have not passed the limit.                     *)
Within(x) ==
    CASE limit.t = "nan"   -> FALSE
      [] limit.t = "int"   -> IF step > 0 THEN x <= limit.v ELSE x >= limit.v
      [] limit.t = "float" -> IF step > 0 THEN 2 * x <= limit.d ELSE 2 * x >= limit.d

Steps == {k \in 0..(2 * Half - 1) :
            init + k * step \in Ints /\ Within(init + k * step)}

(* The body sees the values of the definition, in order, for every step,   *)
(* limit and rounding, and nothing past the limit (FORPREP, FORLOOP).      *)
SeesRightValues ==
    pc = "body" => val = init + (n - 1) * step /\ Within(init + (n - 1) * step)

(* The count is exact, as an unsigned number, over the whole range of      *)
(* integers: it says how many values are still to come (udiv).             *)
CountIsExact ==
    pc = "body" /\ n = 1 => Unsigned(count) = Cardinality(Steps) - 1

(* When the loop is over the body has seen all the values of the           *)
(* definition, provided they are at most 2^63.                             *)
RunsToLimit ==
    pc = "done" /\ Cardinality(Steps) <= Half => n = Cardinality(Steps)

(* The three together (FORPREP, FORLOOP): the loop runs as it is defined.  *)
RunsAsDefined == ForTypeOK /\ SeesRightValues /\ CountIsExact /\ RunsToLimit

(* Every loop ends.                                                        *)
LoopEnds == <>(pc \in {"done", "error"})
=============================================================================
