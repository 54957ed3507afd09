--------------------------- MODULE ForLoop_proofs ----------------------------
(***************************************************************************)
(* Proofs about ForLoop: the unsigned division is one for every width of   *)
(* the integers, and a loop runs as it is defined for all its operands.    *)
(***************************************************************************)
EXTENDS ForLoop, FiniteSetTheorems, TLAPS

(* Division and remainder are the one way to write a as q * b + r.         *)
LEMMA DivUnique ==
  ASSUME NEW a \in Int, NEW b \in Nat \ {0}, NEW q \in Int, NEW r \in 0..(b - 1),
         a = q * b + r
  PROVE  a \div b = q /\ a % b = r
OBVIOUS

LEMMA DivMod ==
  ASSUME NEW a \in Int, NEW b \in Nat \ {0}
  PROVE  /\ a \div b \in Int /\ a % b \in 0..(b - 1)
         /\ a = (a \div b) * b + (a % b)
OBVIOUS

LEMMA Distribute ==
  ASSUME NEW a \in Int, NEW b \in Int, NEW c \in Int
  PROVE  /\ (a + b) * c = a * c + b * c
         /\ (a - b) * c = a * c - b * c
         /\ a * c \in Int
OBVIOUS

LEMMA ScaleMonotone ==
  ASSUME NEW a \in Int, NEW b \in Int, NEW c \in Nat, a <= b
  PROVE  a * c <= b * c
OBVIOUS

(* Remainders: below the divisor, below zero, and shifted by multiples.    *)
LEMMA ModSmall ==
  ASSUME NEW b \in Nat \ {0}, NEW x \in 0..(b - 1)
  PROVE  x % b = x
<1>1. x = 0 * b + x
  OBVIOUS
<1> QED
  BY <1>1, DivUnique

LEMMA ModNegative ==
  ASSUME NEW b \in Nat \ {0}, NEW x \in Int, x + b >= 0, x < 0
  PROVE  x % b = x + b
<1>1. x = (-1) * b + (x + b) /\ x + b \in 0..(b - 1)
  OBVIOUS
<1> QED
  BY <1>1, DivUnique

LEMMA ModShift ==
  ASSUME NEW b \in Nat \ {0}, NEW x \in Int, NEW m \in Int
  PROVE  (x + m * b) % b = x % b
<1>1. PICK q \in Int, r \in 0..(b - 1) : x = q * b + r
  BY DivMod
<1>2. x % b = r
  BY <1>1, DivUnique
<1>3. /\ (q + m) * b = q * b + m * b
      /\ q * b \in Int /\ m * b \in Int
  BY Distribute
<1>4. x + m * b = (q + m) * b + r /\ x + m * b \in Int /\ q + m \in Int
  BY <1>1, <1>3
<1>5. (x + m * b) % b = r
  BY <1>4, DivUnique
<1> QED
  BY <1>2, <1>5

-----------------------------------------------------------------------------
(* Two's complement: a bit pattern and the unsigned number it stands for.  *)

LEMMA Width ==
  /\ Half \in Int /\ Half > 1 /\ 2 * Half \in Nat \ {0}
  /\ Ints = (-Half)..(Half - 1)
BY HalfAssumption DEF Ints, MinInt, MaxInt

LEMMA UnsignedOf ==
  ASSUME NEW x \in Ints
  PROVE  /\ Unsigned(x) = IF x >= 0 THEN x ELSE x + 2 * Half
         /\ Unsigned(x) \in 0..(2 * Half - 1)
<1>1. CASE x >= 0
  <2>1. x \in 0..(2 * Half - 1)
    BY <1>1, Width
  <2> QED
    BY <1>1, <2>1, Width, ModSmall DEF Unsigned
<1>2. CASE x < 0
  <2>1. x \in Int /\ x + 2 * Half >= 0 /\ x + 2 * Half \in 0..(2 * Half - 1)
    BY <1>2, Width
  <2>2. Unsigned(x) = x + 2 * Half
    BY <1>2, <2>1, Width, ModNegative DEF Unsigned
  <2> QED
    BY <1>2, <2>1, <2>2
<1> QED
  BY <1>1, <1>2, Width

LEMMA WrapRange ==
  ASSUME NEW x \in Int
  PROVE  Wrap(x) \in Ints
<1>1. x + Half \in Int
  BY Width
<1>2. (x + Half) % (2 * Half) \in 0..(2 * Half - 1)
  BY <1>1, Width, DivMod
<1> QED
  BY <1>2, Width DEF Wrap

LEMMA WrapIdentity ==
  ASSUME NEW x \in Ints
  PROVE  Wrap(x) = x
<1>1. x + Half \in 0..(2 * Half - 1)
  BY Width
<1>2. (x + Half) % (2 * Half) = x + Half
  BY <1>1, Width, ModSmall
<1> QED
  BY <1>2, Width DEF Wrap

(* Wrapping changes nothing but a multiple of the range.                   *)
LEMMA UnsignedWrap ==
  ASSUME NEW x \in Int
  PROVE  Unsigned(Wrap(x)) = x % (2 * Half)
<1>1. x + Half \in Int
  BY Width
<1>2. PICK q \in Int, r \in 0..(2 * Half - 1) : x + Half = q * (2 * Half) + r
  BY <1>1, Width, DivMod
<1>3. (x + Half) % (2 * Half) = r
  BY <1>1, <1>2, Width, DivUnique
<1>4. (-q) * (2 * Half) = -(q * (2 * Half)) /\ q * (2 * Half) \in Int /\ -q \in Int
  BY Width
<1>5. r - Half = x + (-q) * (2 * Half)
  BY <1>2, <1>4, Width
<1>6. (r - Half) % (2 * Half) = x % (2 * Half)
  BY <1>4, <1>5, Width, ModShift
<1> QED
  BY <1>3, <1>6 DEF Unsigned, Wrap

LEMMA UnsignedOfSmall ==
  ASSUME NEW x \in 0..(2 * Half - 1)
  PROVE  Unsigned(Wrap(x)) = x
<1>1. x \in Int /\ x % (2 * Half) = x
  BY Width, ModSmall
<1> QED
  BY <1>1, UnsignedWrap

-----------------------------------------------------------------------------
(* h is half of A, k the quotient of the half, t twice that quotient.      *)
InHalves(A, b, h, k, t) == A - 2 * h \in {0, 1} /\ k = h \div b /\ t = 2 * k

(* The quotient by way of the half is t or one more.                       *)
LEMMA HalvedQuotient ==
  ASSUME NEW A \in Nat, NEW b \in Nat \ {0}, NEW h \in Nat,
         NEW k \in Int, NEW t \in Int, InHalves(A, b, h, k, t)
  PROVE  /\ t \in 0..A
         /\ A - t * b \in 0..A
         /\ A \div b = IF A - t * b < b THEN t ELSE t + 1
<1>0. A - 2 * h \in {0, 1} /\ k = h \div b /\ t = 2 * k
  BY DEF InHalves
<1>1. PICK s \in 0..(b - 1) : h = k * b + s
  <2>1. h = (h \div b) * b + (h % b) /\ h % b \in 0..(b - 1)
    <3>1. h \in Int
      OBVIOUS
    <3> QED
      BY <3>1, DivMod, Zenon
  <2> QED
    BY <1>0, <2>1
<1>2. k \in Nat
  BY <1>0
<1>3. PICK p \in Int : p = k * b
  BY Distribute
<1>4. t * b = 2 * p /\ k <= p /\ p <= h
  BY <1>0, <1>1, <1>2, <1>3
<1>5. PICK r \in Int : r = A - t * b
  BY <1>4
<1>6. r = A - 2 * p /\ r \in 0..(2 * b - 1) /\ t \in 0..A /\ r <= A
  BY <1>0, <1>1, <1>2, <1>3, <1>4, <1>5
<1>7. CASE r < b
  <2>1. A = t * b + r /\ r \in 0..(b - 1)
    BY <1>4, <1>6, <1>7
  <2>2. A \div b = t
    <3>1. A \in Int
      OBVIOUS
    <3> QED
      BY <2>1, <3>1, DivUnique, Zenon
  <2> QED
    BY <1>5, <1>6, <1>7, <2>2
<1>8. CASE ~(r < b)
  <2>1. PICK u \in Int : u = t + 1
    OBVIOUS
  <2>2. PICK w \in Int : w = r - b
    OBVIOUS
  <2>3. u * b = t * b + b
    BY <2>1, Distribute
  <2>4. A = u * b + w /\ w \in 0..(b - 1)
    BY <1>4, <1>6, <1>8, <2>2, <2>3
  <2>5. A \div b = u
    BY <2>4, DivUnique
  <2> QED
    BY <1>5, <1>6, <1>8, <2>1, <2>5
<1> QED
  BY <1>7, <1>8

(* udiv of vm.lua divides as unsigned numbers whatever the signs of the    *)
(* two bit patterns are, for integers of every width.                      *)
THEOREM UDivIsUnsigned ==
  ASSUME NEW a \in Ints, NEW b \in Ints, b # 0
  PROVE  UDiv(a, b) \in Ints /\ Unsigned(UDiv(a, b)) = Unsigned(a) \div Unsigned(b)
<1> DEFINE A == Unsigned(a)
           B == Unsigned(b)
<1>1. /\ a \in Int /\ b \in Int
      /\ A = (IF a >= 0 THEN a ELSE a + 2 * Half) /\ A \in 0..(2 * Half - 1)
      /\ B = (IF b >= 0 THEN b ELSE b + 2 * Half) /\ B \in 1..(2 * Half - 1)
  BY Width, UnsignedOf
<1>2. CASE b < 0
  <2>1. /\ B >= Half /\ UDiv(a, b) = IF A < B THEN 0 ELSE 1
    BY <1>1, <1>2, Width DEF UDiv, ULT
  <2>2. ASSUME A < B PROVE A \div B = 0
    <3>1. A = 0 * B + A /\ A \in 0..(B - 1)
      BY <1>1, <2>2
    <3> QED
      BY <1>1, <3>1, DivUnique
  <2>3. ASSUME ~(A < B) PROVE A \div B = 1
    <3>1. PICK r \in Int : r = A - B
      BY <1>1
    <3>2. A = 1 * B + r /\ r \in 0..(B - 1)
      BY <1>1, <2>1, <2>3, <3>1, Width
    <3> QED
      BY <1>1, <3>2, DivUnique
  <2>4. Unsigned(0) = 0 /\ Unsigned(1) = 1
    BY Width, UnsignedOf
  <2> HIDE DEF A, B
  <2>5. UDiv(a, b) \in Ints /\ Unsigned(UDiv(a, b)) = A \div B
    BY <2>1, <2>2, <2>3, <2>4, Width
  <2> QED
    BY <2>5 DEF A, B
<1>3. CASE b > 0 /\ a >= 0
  <2>1. A = a /\ B = b /\ UDiv(a, b) = a \div b /\ b \in Nat \ {0} /\ a \in Nat
    BY <1>1, <1>3 DEF UDiv
  <2>2. a \div b \in 0..a
    BY <2>1
  <2>3. a \div b \in Ints /\ a \div b >= 0
    BY <2>1, <2>2, Width
  <2>4. Unsigned(a \div b) = a \div b
    BY <2>3, UnsignedOf
  <2> QED
    BY <2>1, <2>3, <2>4
<1>4. CASE b > 0 /\ a < 0
  <2>1. A = a + 2 * Half /\ A \in Nat /\ B = b /\ b \in Nat \ {0}
    BY <1>1, <1>4
  <2>2. PICK h \in Nat : h = A \div 2 /\ A - 2 * h \in {0, 1}
    BY <2>1
  <2>3. PICK k \in Int : k = h \div b
    BY <2>1, <2>2, DivMod
  <2>4. PICK t \in Int : t = 2 * k
    OBVIOUS
  <2>5. PICK q \in Ints : q = Wrap(t)
    BY WrapRange
  <2>6. q \in Int /\ q * b \in Int /\ a - q * b \in Int
    BY <1>1, <2>5, Width
  <2>7. PICK r \in Ints : r = Wrap(a - q * b)
    BY <2>6, WrapRange
  <2>8. UDiv(a, b) = IF ULT(r, b) THEN q ELSE Wrap(q + 1)
    BY <1>1, <1>4, <2>2, <2>3, <2>4, <2>5, <2>7 DEF UDiv
  <2> HIDE DEF A, B
  <2>9. /\ t \in 0..A /\ A - t * b \in 0..A
        /\ A \div b = IF A - t * b < b THEN t ELSE t + 1
    <3>1. A \in Nat /\ b \in Nat \ {0} /\ InHalves(A, b, h, k, t)
      BY <2>1, <2>2, <2>3, <2>4 DEF InHalves
    <3> QED
      BY <3>1, HalvedQuotient
  <2>10. t \in 0..(2 * Half - 1) /\ Unsigned(q) = t
    <3>1. t \in 0..(2 * Half - 1)
      BY <1>1, <2>9, Width
    <3> QED
      BY <3>1, <2>5, UnsignedOfSmall
  <2>11. PICK m \in {0, 1} : q = t - m * (2 * Half)
    <3>1. q = t \/ q = t - 2 * Half
      <4>1. Unsigned(q) = IF q >= 0 THEN q ELSE q + 2 * Half
        BY <2>5, UnsignedOf
      <4> QED
        BY <4>1, <2>6, <2>10, Width
    <3> QED
      BY <3>1, Width
  <2>12. PICK R \in 0..(2 * Half - 1) : R = A - t * b
    BY <1>1, <2>9, Width
  <2>13. Unsigned(r) = R
    <3>1. PICK z \in Int : z = m * b - 1
      BY <2>1
    <3>4. R % (2 * Half) = R
      BY Width, ModSmall
    <3>5. R \in Int /\ -1 \in Int
      OBVIOUS
    <3>2. CASE m = 0
      <4>1. q = t
        BY <2>11, <3>2, Width
      <4>2. a - q * b = R + (-1) * (2 * Half)
        BY <4>1, <2>1, <2>6, <2>12, Width
      <4>3. (R + (-1) * (2 * Half)) % (2 * Half) = R % (2 * Half)
        BY <2>12, <3>5, Width, ModShift, Zenon
      <4> QED
        BY <4>2, <4>3, <3>4, <2>6, <2>7, UnsignedWrap
    <3>3. CASE m = 1
      <4>1. q = t - 2 * Half /\ z = b - 1
        BY <2>11, <3>1, <3>3, <2>1, Width
      <4>2. q * b = t * b - (2 * Half) * b
        BY <4>1, <2>1, Width, Distribute
      <4>3. a - q * b = R + z * (2 * Half)
        BY <4>1, <4>2, <2>1, <2>6, <2>12, Width
      <4>4. (R + z * (2 * Half)) % (2 * Half) = R % (2 * Half)
        BY <2>12, <3>5, Width, ModShift, Zenon
      <4> QED
        BY <4>3, <4>4, <3>4, <2>6, <2>7, UnsignedWrap
    <3> QED
      BY <3>2, <3>3
  <2>14. ULT(r, b) <=> R < b
    BY <2>1, <2>13 DEF ULT, B
  <2>15. ASSUME ~(R < b)
         PROVE  Wrap(q + 1) \in Ints /\ Unsigned(Wrap(q + 1)) = t + 1
    <3>1. A \div b = t + 1 /\ A \div b <= A
      BY <2>1, <2>9, <2>12, <2>15
    <3>2. PICK u \in 0..(2 * Half - 1) : u = t + 1
      BY <1>1, <2>10, <3>1, Width
    <3>3. (q + 1) % (2 * Half) = u % (2 * Half)
      <4>1. CASE m = 0
        BY <4>1, <2>11, <3>2, Width
      <4>2. CASE m = 1
        <5>1. q + 1 = u + (-1) * (2 * Half)
          BY <4>2, <2>11, <3>2, Width
        <5>2. u \in Int /\ -1 \in Int
          OBVIOUS
        <5>3. (u + (-1) * (2 * Half)) % (2 * Half) = u % (2 * Half)
          BY <5>2, Width, ModShift, Zenon
        <5> QED
          BY <5>1, <5>3
      <4> QED
        BY <4>1, <4>2
    <3>4. Unsigned(Wrap(q + 1)) = u
      <4>1. u % (2 * Half) = u
        BY <3>2, Width, ModSmall
      <4>2. Unsigned(Wrap(q + 1)) = (q + 1) % (2 * Half)
        BY <2>6, UnsignedWrap
      <4> QED
        BY <3>3, <4>1, <4>2
    <3> QED
      BY <2>6, <3>2, <3>4, WrapRange
  <2>16. UDiv(a, b) \in Ints /\ Unsigned(UDiv(a, b)) = A \div b
    BY <2>5, <2>8, <2>9, <2>10, <2>12, <2>14, <2>15
  <2> QED
    BY <2>1, <2>16 DEF A, B
<1> QED
  BY <1>1, <1>2, <1>3, <1>4

-----------------------------------------------------------------------------
(* clamp_for_limit: an integer is within the limit when it is within the   *)
(* clamped one, unless the loop is skipped.                                *)
LEMMA ClampUp ==
  ASSUME limit \in Limits, step \in Ints, step > 0
  PROVE  /\ ClampFor(step).skip \in BOOLEAN
         /\ ClampFor(step).v \in Ints
         /\ \A x \in Ints : Within(x) <=> ~ClampFor(step).skip /\ x <= ClampFor(step).v
<1>0. step \in Int
  BY Width
<1>1. CASE limit \in [t : {"int"}, v : Ints]
  <2>1. limit.t = "int" /\ limit.v \in Ints
    BY <1>1
  <2>2. ClampFor(step) = [v |-> limit.v, skip |-> FALSE]
    BY <2>1 DEF ClampFor
  <2>3. \A x \in Ints : Within(x) <=> x <= limit.v
    BY <1>0, <2>1 DEF Within
  <2> QED
    BY <2>1, <2>2, <2>3, Width
<1>2. CASE limit \in [t : {"nan"}]
  <2>1. limit.t = "nan"
    BY <1>2
  <2>2. ClampFor(step) = [v |-> 0, skip |-> TRUE]
    BY <2>1 DEF ClampFor
  <2>3. \A x \in Ints : ~Within(x)
    BY <2>1 DEF Within
  <2> QED
    BY <2>2, <2>3, Width
<1>3. CASE limit \in [t : {"float"}, d : (-2 * Half - 2)..(2 * Half + 2)]
  <2>1. PICK d \in Int : d = limit.d /\ limit.t = "float"
    BY <1>3, Width
  <2>2. ClampFor(step) = IF d >= 2 * Half THEN [v |-> MaxInt, skip |-> FALSE]
                         ELSE IF d < -2 * Half THEN [v |-> MinInt, skip |-> TRUE]
                         ELSE [v |-> d \div 2, skip |-> FALSE]
    BY <1>0, <2>1 DEF ClampFor
  <2>3. \A x \in Ints : Within(x) <=> 2 * x <= d
    BY <1>0, <2>1 DEF Within
  <2>4. CASE d >= 2 * Half
    BY <2>2, <2>3, <2>4, Width DEF MaxInt
  <2>5. CASE d < -2 * Half
    BY <2>2, <2>3, <2>5, Width DEF MinInt
  <2>6. CASE ~(d >= 2 * Half) /\ ~(d < -2 * Half)
    <3>1. d \div 2 \in Ints /\ \A x \in Ints : 2 * x <= d <=> x <= d \div 2
      BY <2>6, Width
    <3> QED
      BY <3>1, <2>2, <2>3, <2>6, Width
  <2> QED
    BY <2>4, <2>5, <2>6
<1> QED
  BY <1>1, <1>2, <1>3 DEF Limits

LEMMA ClampDown ==
  ASSUME limit \in Limits, step \in Ints, step < 0
  PROVE  /\ ClampFor(step).skip \in BOOLEAN
         /\ ClampFor(step).v \in (-Half)..Half
         /\ \A x \in Ints : Within(x) <=> ~ClampFor(step).skip /\ x >= ClampFor(step).v
<1>0. step \in Int
  BY Width
<1>1. CASE limit \in [t : {"int"}, v : Ints]
  <2>1. limit.t = "int" /\ limit.v \in Ints
    BY <1>1
  <2>2. ClampFor(step) = [v |-> limit.v, skip |-> FALSE]
    BY <2>1 DEF ClampFor
  <2>3. \A x \in Ints : Within(x) <=> x >= limit.v
    BY <1>0, <2>1 DEF Within
  <2> QED
    BY <2>1, <2>2, <2>3, Width
<1>2. CASE limit \in [t : {"nan"}]
  <2>1. limit.t = "nan"
    BY <1>2
  <2>2. ClampFor(step) = [v |-> 0, skip |-> TRUE]
    BY <2>1 DEF ClampFor
  <2>3. \A x \in Ints : ~Within(x)
    BY <2>1 DEF Within
  <2> QED
    BY <2>2, <2>3, Width
<1>3. CASE limit \in [t : {"float"}, d : (-2 * Half - 2)..(2 * Half + 2)]
  <2>1. PICK d \in Int : d = limit.d /\ limit.t = "float"
    BY <1>3, Width
  <2>2. ClampFor(step) = IF d <= -2 * Half THEN [v |-> MinInt, skip |-> FALSE]
                         ELSE IF d > 2 * Half THEN [v |-> MaxInt, skip |-> TRUE]
                         ELSE [v |-> -((-d) \div 2), skip |-> FALSE]
    BY <1>0, <2>1 DEF ClampFor
  <2>3. \A x \in Ints : Within(x) <=> 2 * x >= d
    BY <1>0, <2>1 DEF Within
  <2>4. CASE d <= -2 * Half
    BY <2>2, <2>3, <2>4, Width DEF MinInt
  <2>5. CASE d > 2 * Half
    BY <2>2, <2>3, <2>5, Width DEF MaxInt
  <2>6. CASE ~(d <= -2 * Half) /\ ~(d > 2 * Half)
    <3>1. /\ -((-d) \div 2) \in (-Half)..Half
          /\ \A x \in Ints : 2 * x >= d <=> x >= -((-d) \div 2)
      BY <2>6, Width
    <3> QED
      BY <3>1, <2>2, <2>3, <2>6, Width
  <2> QED
    BY <2>4, <2>5, <2>6
<1> QED
  BY <1>1, <1>2, <1>3 DEF Limits

(* The multiples of b that fit in D are those up to the quotient.          *)
LEMMA Multiples ==
  ASSUME NEW D \in Nat, NEW b \in Nat \ {0}, NEW k \in Nat
  PROVE  /\ D \div b \in 0..D
         /\ k * b <= D <=> k <= D \div b
OBVIOUS

-----------------------------------------------------------------------------
(* What the loop knows between two iterations: the values of the           *)
(* definition are those of the steps 0..K, and the count and the number of *)
(* iterations add up to K, but for a count that is negative when signed.   *)
Ahead(K) ==
    /\ Steps = 0..K
    /\ n >= 1
    /\ val = init + (n - 1) * step
    /\ IF count >= 0 THEN count + n - 1 = K ELSE n = 1 /\ count + 2 * Half = K

Finished == \/ Steps = {} /\ n = 0
            \/ \E K \in 0..(2 * Half - 1) : Steps = 0..K /\ (n = K + 1 \/ K >= Half)

LoopInv == /\ ForTypeOK
           /\ pc = "prep" => n = 0
           /\ pc = "body" => \E K \in 0..(2 * Half - 1) : Ahead(K)
           /\ pc = "done" => Finished

(* The distance to the limit and the size of the step, as FORPREP hands    *)
(* them to udiv, are the unsigned numbers they should be.                  *)
LEMMA StepsUp ==
  ASSUME ForTypeOK, step > 0, ~ClampFor(step).skip, init <= ClampFor(step).v,
         NEW c \in Ints, c = UDiv(Wrap(ClampFor(step).v - init), step)
  PROVE  Unsigned(c) \in 0..(2 * Half - 1) /\ Steps = 0..Unsigned(c)
<1>1. PICK L \in Ints : L = ClampFor(step).v /\ \A x \in Ints : Within(x) <=> x <= L
  BY ClampUp DEF ForTypeOK
<1>2. PICK D \in 0..(2 * Half - 1) : D = L - init
  BY <1>1, Width DEF ForTypeOK
<1>3. step \in Nat \ {0} /\ step \in Ints /\ init \in Ints
  BY Width DEF ForTypeOK
<1>4. PICK a \in Ints : a = Wrap(D) /\ Unsigned(a) = D
  BY <1>2, WrapRange, UnsignedOfSmall
<1>5. Unsigned(step) = step
  BY <1>3, Width, UnsignedOf
<1>6. c = UDiv(a, step)
  BY <1>1, <1>2, <1>4
<1>7. Unsigned(c) = D \div step
  BY <1>3, <1>4, <1>5, <1>6, UDivIsUnsigned
<1>8. PICK K \in Nat : K = D \div step /\ K <= D
  BY <1>2, <1>3, Multiples
<1>9. ASSUME NEW k \in 0..(2 * Half - 1)
      PROVE  init + k * step \in Ints /\ Within(init + k * step) <=> k <= K
  <2>1. PICK z \in Nat : z = k * step
    BY <1>3
  <2>2. z <= D <=> k <= K
    BY <1>2, <1>3, <1>8, <2>1, Multiples
  <2>3. init + z \in Ints /\ init + z <= L <=> z <= D
    BY <1>1, <1>2, <1>3, Width
  <2> QED
    BY <1>1, <2>1, <2>2, <2>3
<1>10. Steps = 0..K
  BY <1>2, <1>8, <1>9, Width DEF Steps
<1> QED
  BY <1>2, <1>7, <1>8, <1>10, Width

LEMMA StepsDown ==
  ASSUME ForTypeOK, step < 0, ~ClampFor(step).skip, init >= ClampFor(step).v,
         NEW c \in Ints,
         c = UDiv(Wrap(init - ClampFor(step).v), Wrap(-(step + 1) + 1))
  PROVE  Unsigned(c) \in 0..(2 * Half - 1) /\ Steps = 0..Unsigned(c)
<1>1. PICK L \in (-Half)..Half : /\ L = ClampFor(step).v
                                 /\ \A x \in Ints : Within(x) <=> x >= L
  BY ClampDown DEF ForTypeOK
<1>2. PICK D \in 0..(2 * Half - 1) : D = init - L
  BY <1>1, Width DEF ForTypeOK
<1>3. step \in Int /\ step \in Ints /\ init \in Ints
  BY Width DEF ForTypeOK
<1>4. PICK a \in Ints : a = Wrap(D) /\ Unsigned(a) = D
  BY <1>2, WrapRange, UnsignedOfSmall
<1>5. PICK s \in 1..(2 * Half - 1) : s = -step /\ s = -(step + 1) + 1
  BY <1>3, Width
<1>6. PICK b \in Ints : b = Wrap(s) /\ Unsigned(b) = s /\ b # 0
  <2>1. Unsigned(Wrap(s)) = s /\ Wrap(s) \in Ints
    BY <1>5, WrapRange, UnsignedOfSmall
  <2>2. Unsigned(0) = 0
    BY Width, UnsignedOf
  <2> QED
    BY <2>1, <2>2
<1>7. c = UDiv(a, b)
  BY <1>1, <1>2, <1>4, <1>5, <1>6
<1>8. Unsigned(c) = D \div s
  BY <1>4, <1>6, <1>7, UDivIsUnsigned
<1>9. PICK K \in Nat : K = D \div s /\ K <= D
  BY <1>2, <1>5, Multiples
<1>10. ASSUME NEW k \in 0..(2 * Half - 1)
       PROVE  init + k * step \in Ints /\ Within(init + k * step) <=> k <= K
  <2>1. PICK z \in Nat : z = k * s
    BY <1>5
  <2>2. k * step = -z
    BY <1>3, <1>5, <2>1
  <2>3. z <= D <=> k <= K
    BY <1>2, <1>5, <1>9, <2>1, Multiples
  <2>4. init - z \in Ints /\ init - z >= L <=> z <= D
    BY <1>1, <1>2, <1>3, Width
  <2> QED
    BY <1>1, <1>3, <2>1, <2>2, <2>3, <2>4, Width
<1>11. Steps = 0..K
  BY <1>2, <1>9, <1>10, Width DEF Steps
<1> QED
  BY <1>2, <1>8, <1>9, <1>11, Width

(* A loop that FORPREP skips has no values.                                *)
LEMMA StepsNone ==
  ASSUME ForTypeOK, step # 0,
         \/ ClampFor(step).skip
         \/ ~(IF step > 0 THEN init <= ClampFor(step).v ELSE init >= ClampFor(step).v)
  PROVE  Steps = {}
<1> SUFFICES ASSUME NEW k \in 0..(2 * Half - 1), init + k * step \in Ints,
                    Within(init + k * step)
             PROVE  FALSE
  BY DEF Steps
<1>1. init \in Int /\ step \in Int /\ init \in Ints /\ k \in Nat
  BY Width DEF ForTypeOK
<1>2. CASE step > 0
  <2>1. init + k * step >= init
    BY <1>1, <1>2
  <2>2. ~ClampFor(step).skip /\ init + k * step <= ClampFor(step).v
    BY <1>2, ClampUp DEF ForTypeOK
  <2>3. ClampFor(step).v \in Int /\ init + k * step \in Int
    BY <1>2, ClampUp, Width DEF ForTypeOK
  <2> QED
    BY <1>1, <1>2, <2>1, <2>2, <2>3
<1>3. CASE step < 0
  <2>1. init + k * step <= init
    BY <1>1, <1>3
  <2>2. ~ClampFor(step).skip /\ init + k * step >= ClampFor(step).v
    BY <1>3, ClampDown DEF ForTypeOK
  <2>3. ClampFor(step).v \in Int /\ init + k * step \in Int
    BY <1>3, ClampDown, Width DEF ForTypeOK
  <2> QED
    BY <1>1, <1>3, <2>1, <2>2, <2>3
<1> QED
  BY <1>1, <1>2, <1>3

LEMMA SameSteps ==
  ASSUME UNCHANGED <<init, limit, step>>
  PROVE  Steps' = Steps
BY DEF Steps, Within

LEMMA LoopInit == Init => LoopInv
BY Width DEF Init, LoopInv, ForTypeOK

LEMMA PrepRunInv ==
  ASSUME LoopInv, NEW c \in Ints, count' = c, val' = init, n' = 1, pc' = "body",
         UNCHANGED <<init, limit, step>>,
         Unsigned(c) \in 0..(2 * Half - 1), Steps = 0..Unsigned(c)
  PROVE  LoopInv'
<1>1. ForTypeOK'
  BY DEF LoopInv, ForTypeOK
<1>2. Unsigned(c) = IF c >= 0 THEN c ELSE c + 2 * Half
  BY UnsignedOf
<1>3. init \in Int /\ step \in Int /\ c \in Int
  BY Width DEF LoopInv, ForTypeOK
<1>4. (n' - 1) * step' = 0
  BY <1>3
<1>5. Ahead(Unsigned(c))'
  BY <1>2, <1>3, <1>4, SameSteps, Width DEF Ahead, Unsigned
<1> QED
  BY <1>1, <1>5 DEF LoopInv, Unsigned

LEMMA ForPrepInv == LoopInv /\ ForPrep => LoopInv'
<1> SUFFICES ASSUME LoopInv, ForPrep PROVE LoopInv'
  OBVIOUS
<1>1. ForTypeOK /\ n = 0 /\ UNCHANGED <<init, limit, step>>
  BY DEF LoopInv, ForPrep
<1>2. CASE step = 0
  BY <1>1, <1>2 DEF ForPrep, LoopInv, ForTypeOK
<1>3. CASE step # 0 /\ ~(\/ ClampFor(step).skip
                        \/ ~(IF step > 0 THEN init <= ClampFor(step).v
                                         ELSE init >= ClampFor(step).v))
  <2>1. /\ val' = init /\ n' = 1 /\ pc' = "body"
        /\ count' = IF step > 0 THEN UDiv(Wrap(ClampFor(step).v - init), step)
                    ELSE UDiv(Wrap(init - ClampFor(step).v), Wrap(-(step + 1) + 1))
    BY <1>3 DEF ForPrep
  <2>2. init \in Int /\ step \in Int /\ init \in Ints /\ step \in Ints
    BY <1>1, Width DEF ForTypeOK
  <2>3. CASE step > 0
    <3>1. count' = UDiv(Wrap(ClampFor(step).v - init), step)
      BY <2>1, <2>3
    <3>2. ClampFor(step).v - init \in Int
      BY <2>2, <2>3, ClampUp, Width DEF LoopInv, ForTypeOK
    <3>3. count' \in Ints
      BY <2>2, <1>3, <3>1, <3>2, WrapRange, UDivIsUnsigned
    <3>4. /\ Unsigned(count') \in 0..(2 * Half - 1)
          /\ Steps = 0..Unsigned(count')
      BY <1>1, <1>3, <2>3, <3>1, <3>3, StepsUp
    <3> QED
      BY <1>1, <2>1, <3>3, <3>4, PrepRunInv
  <2>4. CASE step < 0
    <3>1. count' = UDiv(Wrap(init - ClampFor(step).v), Wrap(-(step + 1) + 1))
      BY <2>1, <2>2, <2>4
    <3>2. init - ClampFor(step).v \in Int
      BY <2>2, <2>4, ClampDown, Width DEF LoopInv, ForTypeOK
    <3>3. Wrap(-(step + 1) + 1) \in Ints /\ Wrap(-(step + 1) + 1) # 0
      <4>1. -(step + 1) + 1 \in 1..(2 * Half - 1)
        BY <2>2, <2>4, Width
      <4>2. Unsigned(Wrap(-(step + 1) + 1)) # 0 /\ Unsigned(0) = 0
        BY <4>1, Width, UnsignedOf, UnsignedOfSmall
      <4> QED
        BY <4>1, <4>2, WrapRange
    <3>4. count' \in Ints
      BY <3>1, <3>2, <3>3, WrapRange, UDivIsUnsigned
    <3>5. /\ Unsigned(count') \in 0..(2 * Half - 1)
          /\ Steps = 0..Unsigned(count')
      BY <1>1, <1>3, <2>2, <2>4, <3>1, <3>4, StepsDown
    <3> QED
      BY <1>1, <2>1, <3>4, <3>5, PrepRunInv
  <2> QED
    BY <1>3, <2>2, <2>3, <2>4
<1>4. CASE step # 0 /\ (\/ ClampFor(step).skip
                       \/ ~(IF step > 0 THEN init <= ClampFor(step).v
                                        ELSE init >= ClampFor(step).v))
  <2>1. pc' = "done" /\ UNCHANGED <<count, val, n>>
    BY <1>4 DEF ForPrep
  <2>2. Steps' = {}
    BY <1>1, <1>4, StepsNone, SameSteps
  <2> QED
    BY <1>1, <2>1, <2>2 DEF LoopInv, ForTypeOK, Finished
<1> QED
  BY <1>2, <1>3, <1>4

LEMMA ForLoopInv == LoopInv /\ ForLoop => LoopInv'
<1> SUFFICES ASSUME LoopInv, ForLoop PROVE LoopInv'
  OBVIOUS
<1>1. PICK K \in 0..(2 * Half - 1) : Ahead(K)
  BY DEF LoopInv, ForLoop
<1>2. /\ init \in Int /\ step \in Int /\ count \in Int /\ n \in Nat /\ count \in Ints
      /\ K \in Nat
  BY Width DEF LoopInv, ForTypeOK
<1>3. Steps' = Steps
  BY SameSteps DEF ForLoop
<1>4. CASE count > 0
  <2>1. /\ count' = count - 1 /\ val' = Wrap(val + step) /\ n' = n + 1 /\ pc' = pc
        /\ UNCHANGED <<init, limit, step>>
    BY <1>4 DEF ForLoop
  <2>2. n \in Steps
    BY <1>1, <1>2, <1>4 DEF Ahead
  <2>3. init + n * step \in Ints
    BY <2>2 DEF Steps
  <2>4. val + step = init + n * step
    <3>1. (n - 1) * step = n * step - step /\ n * step \in Int
      BY <1>2
    <3> QED
      BY <3>1, <1>1, <1>2 DEF Ahead
  <2>5. val' = init + n * step
    BY <2>1, <2>3, <2>4, WrapIdentity
  <2>6. ForTypeOK'
    BY <1>2, <1>4, <2>1, <2>3, <2>5, Width DEF LoopInv, ForTypeOK
  <2>7. (n' - 1) * step' = n * step
    BY <1>2, <2>1
  <2>8. Ahead(K)'
    BY <1>1, <1>2, <1>3, <1>4, <2>1, <2>5, <2>7 DEF Ahead
  <2> QED
    BY <2>1, <2>6, <2>8 DEF LoopInv, ForLoop
<1>5. CASE ~(count > 0)
  <2>1. pc' = "done" /\ UNCHANGED <<count, val, n, init, limit, step>>
    BY <1>5 DEF ForLoop
  <2>2. n = K + 1 \/ K >= Half
    BY <1>1, <1>2, <1>5, Width DEF Ahead
  <2>3. Finished'
    BY <1>1, <1>2, <1>3, <2>1, <2>2 DEF Ahead, Finished
  <2> QED
    BY <2>1, <2>3 DEF LoopInv, ForTypeOK
<1> QED
  BY <1>4, <1>5

LEMMA LoopInvariance == Spec => []LoopInv
<1>1. LoopInv /\ UNCHANGED vars => LoopInv'
  BY DEF LoopInv, ForTypeOK, Ahead, Finished, Steps, Within, vars
<1>2. LoopInv /\ [Next]_vars => LoopInv'
  BY <1>1, ForPrepInv, ForLoopInv DEF Next
<1> QED
  BY LoopInit, <1>2, PTL DEF Spec

LEMMA LoopInvImplies == LoopInv => RunsAsDefined
<1> SUFFICES ASSUME LoopInv PROVE RunsAsDefined
  OBVIOUS
<1>1. ASSUME NEW K \in Nat, Steps = 0..K PROVE Cardinality(Steps) = K + 1
  BY <1>1, FS_Interval
<1>2. SeesRightValues
  <2> SUFFICES ASSUME pc = "body"
               PROVE  val = init + (n - 1) * step /\ Within(init + (n - 1) * step)
    BY DEF SeesRightValues
  <2>1. PICK K \in 0..(2 * Half - 1) : Ahead(K)
    BY DEF LoopInv
  <2>2. n - 1 \in Steps
    BY <2>1, Width DEF Ahead, LoopInv, ForTypeOK
  <2> QED
    BY <2>1, <2>2 DEF Ahead, Steps
<1>3. CountIsExact
  <2> SUFFICES ASSUME pc = "body", n = 1
               PROVE  Unsigned(count) = Cardinality(Steps) - 1
    BY DEF CountIsExact
  <2>1. PICK K \in 0..(2 * Half - 1) : Ahead(K)
    BY DEF LoopInv
  <2>2. Cardinality(Steps) = K + 1 /\ K \in Nat
    BY <1>1, <2>1 DEF Ahead
  <2>3. Unsigned(count) = K
    BY <2>1, <2>2, UnsignedOf, Width DEF Ahead, LoopInv, ForTypeOK
  <2> QED
    BY <2>2, <2>3
<1>4. RunsToLimit
  <2> SUFFICES ASSUME pc = "done", Cardinality(Steps) <= Half
               PROVE  n = Cardinality(Steps)
    BY DEF RunsToLimit
  <2>1. CASE Steps = {} /\ n = 0
    BY <2>1, FS_EmptySet
  <2>2. ASSUME NEW K \in 0..(2 * Half - 1), Steps = 0..K, n = K + 1 \/ K >= Half
        PROVE  n = Cardinality(Steps)
    BY <1>1, <2>2, Width
  <2> QED
    BY <2>1, <2>2 DEF LoopInv, Finished
<1> QED
  BY <1>2, <1>3, <1>4 DEF RunsAsDefined, LoopInv

(* FORPREP and FORLOOP run a loop as it is defined, over integers of every *)
(* width: the body sees the right values in order and nothing past the     *)
(* limit, and the count made beforehand is exact.                          *)
THEOREM LoopRunsAsDefined == Spec => []RunsAsDefined
BY LoopInvariance, LoopInvImplies, PTL
=============================================================================
