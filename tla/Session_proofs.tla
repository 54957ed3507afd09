--------------------------- MODULE Session_proofs ---------------------------
(***************************************************************************)
(* Proofs about Session: what a harness reports, for any number of cases,  *)
(* batches, sessions and any outcomes.                                     *)
(***************************************************************************)
EXTENDS Session, FiniteSetTheorems, SequenceTheorems, TLAPS

(* Induction: a set of numbers that has 0 and every successor has them all, *)
(* for otherwise there would be a least one outside it.                     *)
LEMMA LeastNumber ==
  ASSUME NEW T \in SUBSET Nat, T # {}
  PROVE  \E n \in T : \A m \in T : n <= m
<1>1. PICK x \in T : \A y \in T : ~(<<y, x>> \in OpToRel(<, Nat))
  BY NatLessThanWellFounded, WFMin
<1>2. \A y \in T : y < x => <<y, x>> \in OpToRel(<, Nat)
  BY Zenon DEF OpToRel
<1>3. \A y \in T : ~(y < x)
  BY <1>1, <1>2, Zenon
<1>4. x \in Nat /\ \A y \in T : y \in Nat
  OBVIOUS
<1> QED
  BY <1>3, <1>4

LEMMA AllNumbers ==
  ASSUME NEW T, 0 \in T, \A n \in T : n \in Nat => n + 1 \in T
  PROVE  Nat \subseteq T
<1> SUFFICES ASSUME Nat \ T # {} PROVE FALSE
  OBVIOUS
<1>1. Nat \ T \in SUBSET Nat
  OBVIOUS
<1>2. PICK n \in Nat \ T : \A m \in Nat \ T : n <= m
  BY <1>1, LeastNumber, Zenon
<1>3. n # 0 /\ n - 1 \in Nat
  BY <1>2
<1>4. n - 1 \in T
  BY <1>2, <1>3
<1>5. (n - 1) + 1 = n
  BY <1>2
<1> QED
  BY <1>2, <1>3, <1>4, <1>5

-----------------------------------------------------------------------------
(* Programs, and how many cases a list of them has.                        *)
Kinds == {"curated", "rand", "mutant", "candidate", "batch", "LINEHOOK", "ERRLINE",
          "DEBUGAPI", "fixed"}
Programs == [kind : Kinds, no : Nat, cases : Seq(BOOLEAN)]

Weighs(w, s, n) ==
  w = [k \in 0 .. n |-> IF k = 0 THEN 0 ELSE w[k - 1] + Len(s[k].cases)]
Weight(s) ==
  LET w[k \in 0 .. Len(s)] == IF k = 0 THEN 0 ELSE w[k - 1] + Len(s[k].cases)
  IN w[Len(s)]

LEMMA WeighsExists ==
  ASSUME NEW s, NEW n \in Nat PROVE \E w : Weighs(w, s, n)
<1> DEFINE T == {m \in Nat : \E w : Weighs(w, s, m)}
<1>1. 0 \in T
  <2> DEFINE w == [k \in 0 .. 0 |-> 0]
  <2>1. Weighs(w, s, 0)
    BY DEF Weighs
  <2> QED
    BY <2>1
<1>2. ASSUME NEW m \in T, m \in Nat PROVE m + 1 \in T
  <2>1. PICK w : Weighs(w, s, m)
    BY <1>2
  <2> DEFINE v == [k \in 0 .. (m + 1) |->
                     IF k <= m THEN w[k] ELSE w[m] + Len(s[k].cases)]
  <2>2. ASSUME NEW k \in 0 .. (m + 1)
        PROVE  v[k] = IF k = 0 THEN 0 ELSE v[k - 1] + Len(s[k].cases)
    <3>1. CASE k <= m
      <4>1. v[k] = w[k] /\ k \in 0 .. m /\ (k # 0 => k - 1 \in 0 .. m)
        BY <1>2, <3>1
      <4>2. w[k] = IF k = 0 THEN 0 ELSE w[k - 1] + Len(s[k].cases)
        BY <2>1, <4>1 DEF Weighs
      <4>3. k # 0 => v[k - 1] = w[k - 1]
        BY <1>2, <4>1
      <4> QED
        BY <4>1, <4>2, <4>3
    <3>2. CASE k = m + 1
      <4>1. k # 0 /\ k - 1 = m /\ v[m] = w[m] /\ v[k] = w[m] + Len(s[k].cases)
        BY <1>2, <3>2
      <4> QED
        BY <4>1
    <3> QED
      BY <1>2, <3>1, <3>2
  <2>3. Weighs(v, s, m + 1)
    <3>1. v = [k \in 0 .. (m + 1) |-> v[k]]
      OBVIOUS
    <3> HIDE DEF v
    <3> QED
      BY <2>2, <3>1 DEF Weighs
  <2> QED
    BY <1>2, <2>3
<1>3. Nat \subseteq T
  <2> HIDE DEF T
  <2> QED
    BY <1>1, <1>2, AllNumbers
<1> QED
  BY <1>3

(* The weight is what any function says that adds up the cases.            *)
LEMMA WeightIs ==
  ASSUME NEW s, Len(s) \in Nat, NEW u, u[0] = 0,
         \A k \in 0 .. (Len(s) - 1) : u[k + 1] = u[k] + Len(s[k + 1].cases)
  PROVE  Weight(s) = u[Len(s)]
<1> DEFINE w == CHOOSE w : w = [k \in 0 .. Len(s) |->
                    IF k = 0 THEN 0 ELSE w[k - 1] + Len(s[k].cases)]
<1>1. \E w1 : Weighs(w1, s, Len(s))
  BY WeighsExists
<1>2. w = [k \in 0 .. Len(s) |-> IF k = 0 THEN 0 ELSE w[k - 1] + Len(s[k].cases)]
  BY <1>1, Zenon DEF Weighs
<1>3. Weight(s) = w[Len(s)]
  BY Zenon DEF Weight
<1> HIDE DEF w
<1> DEFINE T == {k \in Nat : k <= Len(s) => w[k] = u[k]}
<1>4. 0 \in T
  <2>1. 0 \in 0 .. Len(s)
    OBVIOUS
  <2>2. w[0] = 0
    BY <1>2, <2>1
  <2> QED
    BY <2>2
<1>5. ASSUME NEW k \in T, k \in Nat PROVE k + 1 \in T
  <2> SUFFICES ASSUME k + 1 <= Len(s) PROVE w[k + 1] = u[k + 1]
    BY <1>5
  <2>1. k + 1 \in 0 .. Len(s) /\ k + 1 # 0 /\ (k + 1) - 1 = k /\ k \in 0 .. (Len(s) - 1)
    BY <1>5
  <2>2. w[k + 1] = w[k] + Len(s[k + 1].cases)
    BY <1>2, <2>1
  <2>3. w[k] = u[k]
    BY <1>5, <2>1
  <2>4. u[k + 1] = u[k] + Len(s[k + 1].cases)
    BY <2>1
  <2> QED
    BY <2>2, <2>3, <2>4
<1>6. Nat \subseteq T
  <2> HIDE DEF T
  <2> QED
    BY <1>4, <1>5, AllNumbers
<1> QED
  BY <1>3, <1>6

(* ... and one function, of which the values are natural numbers.          *)
LEMMA WeightSums ==
  ASSUME NEW s \in Seq(Programs)
  PROVE  \E w : /\ w[0] = 0 /\ w[Len(s)] = Weight(s)
                /\ \A k \in 0 .. Len(s) : w[k] \in Nat
                /\ \A k \in 0 .. (Len(s) - 1) : w[k + 1] = w[k] + Len(s[k + 1].cases)
<1>1. Len(s) \in Nat /\ \A k \in 1 .. Len(s) : Len(s[k].cases) \in Nat
  BY DEF Programs
<1>2. PICK w : Weighs(w, s, Len(s))
  BY <1>1, WeighsExists
<1>3. w[0] = 0
  <2>1. 0 \in 0 .. Len(s)
    BY <1>1
  <2> QED
    BY <1>2, <2>1 DEF Weighs
<1>4. ASSUME NEW k \in 0 .. (Len(s) - 1) PROVE w[k + 1] = w[k] + Len(s[k + 1].cases)
  <2>1. k + 1 \in 0 .. Len(s) /\ k + 1 # 0 /\ (k + 1) - 1 = k
    BY <1>1
  <2> QED
    BY <1>2, <2>1 DEF Weighs
<1>5. w[Len(s)] = Weight(s)
  BY <1>1, <1>3, <1>4, WeightIs
<1> DEFINE T == {k \in Nat : k <= Len(s) => w[k] \in Nat}
<1>6. 0 \in T
  BY <1>3
<1>7. ASSUME NEW k \in T, k \in Nat PROVE k + 1 \in T
  <2> SUFFICES ASSUME k + 1 <= Len(s) PROVE w[k + 1] \in Nat
    BY <1>7
  <2>1. k \in 0 .. (Len(s) - 1) /\ k + 1 \in 1 .. Len(s) /\ k <= Len(s)
    BY <1>1, <1>7
  <2>2. w[k] \in Nat
    BY <1>7, <2>1
  <2> QED
    BY <1>1, <1>4, <2>1, <2>2
<1>8. Nat \subseteq T
  <2> HIDE DEF T
  <2> QED
    BY <1>6, <1>7, AllNumbers
<1>9. \A k \in 0 .. Len(s) : w[k] \in Nat
  BY <1>1, <1>8
<1> QED
  BY <1>3, <1>4, <1>5, <1>9

LEMMA WeightEmpty == Weight(<<>>) = 0
<1>1. Len(<<>>) = 0
  OBVIOUS
<1> DEFINE u == [k \in Nat |-> 0]
<1>2. u[0] = 0
  OBVIOUS
<1>3. \A k \in 0 .. (Len(<<>>) - 1) : u[k + 1] = u[k] + Len(<<>>[k + 1].cases)
  BY <1>1
<1> HIDE DEF u
<1>4. Weight(<<>>) = u[Len(<<>>)]
  BY <1>1, <1>2, <1>3, WeightIs
<1> QED
  BY <1>1, <1>2, <1>4

LEMMA WeightTail ==
  ASSUME NEW s \in Seq(Programs), s # <<>>
  PROVE  /\ Head(s) \in Programs /\ Tail(s) \in Seq(Programs)
         /\ Weight(s) = Len(Head(s).cases) + Weight(Tail(s))
         /\ Weight(Tail(s)) \in Nat
<1> DEFINE n == Len(s)
<1>1. PICK t : t = Tail(s)
  OBVIOUS
<1>2. /\ n \in Nat \ {0} /\ t \in Seq(Programs) /\ Len(t) = n - 1
      /\ \A i \in 1 .. (n - 1) : t[i] = s[i + 1]
      /\ Head(s) = s[1] /\ Head(s) \in Programs
  BY <1>1, EmptySeq, HeadTailProperties
<1>3. PICK w : /\ w[0] = 0 /\ w[n] = Weight(s)
               /\ \A k \in 0 .. n : w[k] \in Nat
               /\ \A k \in 0 .. (n - 1) : w[k + 1] = w[k] + Len(s[k + 1].cases)
  BY WeightSums
<1> HIDE DEF n
<1> DEFINE u == [k \in 0 .. (n - 1) |-> w[k + 1] - w[1]]
<1>4. u[0] = 0
  BY <1>2, <1>3
<1>5. ASSUME NEW k \in 0 .. (Len(t) - 1) PROVE u[k + 1] = u[k] + Len(t[k + 1].cases)
  <2>1. /\ k + 1 \in 1 .. (n - 1) /\ k \in 0 .. (n - 1) /\ k + 1 \in 0 .. (n - 1)
        /\ (k + 1) + 1 \in 0 .. n /\ k + 1 \in 0 .. n /\ 1 \in 0 .. n
    BY <1>2
  <2>2. w[(k + 1) + 1] = w[k + 1] + Len(s[(k + 1) + 1].cases)
    BY <1>3, <2>1
  <2>3. t[k + 1] = s[(k + 1) + 1]
    BY <1>2, <2>1
  <2>4. u[k + 1] = w[(k + 1) + 1] - w[1] /\ u[k] = w[k + 1] - w[1]
    BY <2>1
  <2>5. Len(t[k + 1].cases) \in Nat
    <3>1. t[k + 1] \in Programs
      BY <1>2, <2>1
    <3> QED
      BY <3>1 DEF Programs
  <2>6. w[1] \in Nat /\ w[k + 1] \in Nat /\ w[(k + 1) + 1] \in Nat
    BY <1>3, <2>1
  <2> HIDE DEF u
  <2> QED
    BY <2>2, <2>3, <2>4, <2>5, <2>6
<1>6. u[n - 1] = w[n] - w[1] /\ w[1] = Len(s[1].cases) /\ w[n] >= w[1]
      /\ w[n] \in Nat /\ w[1] \in Nat
  <2>1. n - 1 \in 0 .. (n - 1) /\ (n - 1) + 1 = n /\ n \in 0 .. n /\ 1 \in 0 .. n
    BY <1>2
  <2>2. w[n] \in Nat /\ w[1] \in Nat
    BY <1>3, <2>1
  <2>3. w[0 + 1] = w[0] + Len(s[0 + 1].cases) /\ 0 + 1 = 1
    BY <1>2, <1>3
  <2>4. Len(s[1].cases) \in Nat
    BY <1>2 DEF Programs
  <2>5. w[1] = Len(s[1].cases)
    BY <1>3, <2>3, <2>4
  <2>6. u[n - 1] = w[n] - w[1]
    BY <2>1
  <2>7. PICK v : v[0] = 0 /\ v[Len(t)] = Weight(t) /\ \A k \in 0 .. Len(t) : v[k] \in Nat
    BY <1>2, WeightSums
  <2>8. Weight(t) \in Nat
    BY <1>2, <2>7
  <2>9. Weight(t) = u[Len(t)]
    <3> HIDE DEF u
    <3>1. Len(t) \in Nat
      BY <1>2
    <3> QED
      BY <1>4, <1>5, <3>1, WeightIs, Zenon
  <2> HIDE DEF u
  <2> QED
    BY <1>2, <2>2, <2>5, <2>6, <2>8, <2>9
<1>7. Weight(t) = u[Len(t)]
  <2> HIDE DEF u
  <2>1. Len(t) \in Nat
    BY <1>2
  <2> QED
    BY <1>4, <1>5, <2>1, WeightIs, Zenon
<1> HIDE DEF u
<1>8. Weight(s) = Len(s[1].cases) + Weight(t) /\ Weight(t) \in Nat
  BY <1>2, <1>3, <1>6, <1>7
<1> QED
  BY <1>1, <1>2, <1>8

LEMMA WeightConcat ==
  ASSUME NEW s \in Seq(Programs), NEW t \in Seq(Programs)
  PROVE  /\ s \o t \in Seq(Programs) /\ Weight(s \o t) = Weight(s) + Weight(t)
         /\ Weight(s) \in Nat /\ Weight(t) \in Nat
<1>1. PICK c, n, m : /\ c = s \o t /\ n = Len(s) /\ m = Len(t)
  OBVIOUS
<1>2. /\ c \in Seq(Programs) /\ n \in Nat /\ m \in Nat /\ Len(c) = n + m
      /\ \A i \in 1 .. n : c[i] = s[i]
      /\ \A i \in (n + 1) .. (n + m) : c[i] = t[i - n]
  BY <1>1
<1>3. PICK w : /\ w[0] = 0 /\ w[n] = Weight(s)
               /\ \A k \in 0 .. n : w[k] \in Nat
               /\ \A k \in 0 .. (n - 1) : w[k + 1] = w[k] + Len(s[k + 1].cases)
  BY <1>1, WeightSums
<1>4. PICK v : /\ v[0] = 0 /\ v[m] = Weight(t)
               /\ \A k \in 0 .. m : v[k] \in Nat
               /\ \A k \in 0 .. (m - 1) : v[k + 1] = v[k] + Len(t[k + 1].cases)
  BY <1>1, WeightSums
<1>5. w[n] \in Nat /\ v[m] \in Nat
  BY <1>2, <1>3, <1>4
<1> DEFINE u == [k \in 0 .. (n + m) |-> IF k <= n THEN w[k] ELSE w[n] + v[k - n]]
<1>6. u[0] = 0
  BY <1>2, <1>3
<1>7. ASSUME NEW k \in 0 .. (Len(c) - 1) PROVE u[k + 1] = u[k] + Len(c[k + 1].cases)
  <2>1. CASE k + 1 <= n
    <3>1. k \in 0 .. (n - 1) /\ k + 1 \in 1 .. n /\ k \in 0 .. (n + m) /\ k + 1 \in 0 .. (n + m)
      BY <1>2, <2>1
    <3>2. u[k] = w[k] /\ u[k + 1] = w[k + 1] /\ c[k + 1] = s[k + 1]
      BY <1>2, <2>1, <3>1
    <3> QED
      BY <1>3, <3>1, <3>2
  <2>2. CASE k + 1 > n
    <3>1. PICK j : j = k - n
      OBVIOUS
    <3>2. /\ j \in 0 .. (m - 1) /\ (k + 1) - n = j + 1 /\ k + 1 \in (n + 1) .. (n + m)
          /\ k \in 0 .. (n + m) /\ k + 1 \in 0 .. (n + m) /\ j \in 0 .. m /\ j + 1 \in 1 .. m
      BY <1>2, <2>2, <3>1
    <3>3. u[k + 1] = w[n] + v[j + 1] /\ c[k + 1] = t[j + 1]
      BY <1>2, <2>2, <3>2
    <3>4. u[k] = w[n] + v[j]
      <4>1. CASE k = n
        BY <1>2, <1>4, <1>5, <3>1, <3>2, <4>1
      <4>2. CASE k # n
        BY <1>2, <2>2, <3>1, <3>2, <4>2
      <4> QED
        BY <4>1, <4>2
    <3>5. v[j + 1] = v[j] + Len(t[j + 1].cases) /\ v[j] \in Nat
      BY <1>4, <3>2
    <3>6. Len(t[j + 1].cases) \in Nat
      BY <1>1, <3>2 DEF Programs
    <3> HIDE DEF u
    <3> QED
      BY <1>5, <3>3, <3>4, <3>5, <3>6
  <2> QED
    BY <1>2, <2>1, <2>2
<1>8. u[n + m] = w[n] + v[m]
  <2>1. CASE m = 0
    BY <1>2, <1>4, <1>5, <2>1
  <2>2. CASE m # 0
    BY <1>2, <2>2
  <2> QED
    BY <2>1, <2>2
<1>9. Weight(c) = u[Len(c)]
  <2> HIDE DEF u
  <2>1. Len(c) \in Nat
    BY <1>2
  <2> QED
    BY <1>6, <1>7, <2>1, WeightIs, Zenon
<1> HIDE DEF u
<1>10. Weight(c) = Weight(s) + Weight(t) /\ Weight(s) \in Nat /\ Weight(t) \in Nat
  BY <1>2, <1>3, <1>4, <1>5, <1>8, <1>9
<1> QED
  BY <1>1, <1>2, <1>10

LEMMA WeightOne ==
  ASSUME NEW p \in Programs
  PROVE  <<p>> \in Seq(Programs) /\ Weight(<<p>>) = Len(p.cases)
<1>1. Len(p.cases) \in Nat
  BY DEF Programs
<1>2. PICK s : s = <<p>>
  OBVIOUS
<1>3. Len(s) = 1 /\ s[1] = p /\ s \in Seq(Programs)
  BY <1>2
<1> DEFINE u == [k \in 0 .. 1 |-> IF k = 0 THEN 0 ELSE Len(p.cases)]
<1>4. u[0] = 0 /\ u[1] = Len(p.cases)
  OBVIOUS
<1> HIDE DEF u
<1>5. \A k \in 0 .. (Len(s) - 1) : u[k + 1] = u[k] + Len(s[k + 1].cases)
  BY <1>1, <1>3, <1>4
<1>6. Len(s) \in Nat
  BY <1>3
<1>7. Weight(s) = u[Len(s)]
  BY <1>4, <1>5, <1>6, WeightIs, Zenon
<1> QED
  BY <1>2, <1>3, <1>4, <1>7

LEMMA ProgramIs ==
  ASSUME NEW kind \in Kinds, NEW no \in Nat, NEW n \in Nat
  PROVE  Program(kind, no, n) \in Programs /\ Len(Program(kind, no, n).cases) = n
<1> DEFINE c == [i \in 1 .. n |-> i % 2 = 1]
<1>1. c \in Seq(BOOLEAN) /\ Len(c) = n
  OBVIOUS
<1> HIDE DEF c
<1> QED
  BY <1>1 DEF Program, Programs, c

LEMMA WeightSingles ==
  ASSUME NEW kind \in Kinds, NEW n \in Nat
  PROVE  /\ Singles(kind, n) \in Seq(Programs) /\ Weight(Singles(kind, n)) = n
         /\ \A i \in 1 .. Len(Singles(kind, n)) : Len(Singles(kind, n)[i].cases) = 1
<1>1. PICK s : s = Singles(kind, n)
  OBVIOUS
<1>2. ASSUME NEW no \in 1 .. n
      PROVE  Program(kind, no, 1) \in Programs /\ Len(Program(kind, no, 1).cases) = 1
  <2>1. no \in Nat /\ 1 \in Nat
    OBVIOUS
  <2> QED
    BY <2>1, ProgramIs, Zenon
<1>3. s = [no \in 1 .. n |-> Program(kind, no, 1)]
  BY <1>1 DEF Singles
<1>4. /\ s \in Seq(Programs) /\ Len(s) = n
      /\ \A i \in 1 .. n : Len(s[i].cases) = 1
  BY <1>2, <1>3
<1> DEFINE u == [k \in 0 .. n |-> k]
<1>5. u[0] = 0 /\ u[n] = n
  OBVIOUS
<1>6. ASSUME NEW k \in 0 .. (Len(s) - 1) PROVE u[k + 1] = u[k] + Len(s[k + 1].cases)
  <2>1. k \in 0 .. n /\ k + 1 \in 0 .. n /\ k + 1 \in 1 .. n
    BY <1>4
  <2> QED
    BY <1>4, <2>1
<1> HIDE DEF u
<1>7. Weight(s) = u[Len(s)]
  <2>1. Len(s) \in Nat
    BY <1>4
  <2> QED
    BY <1>5, <1>6, <2>1, WeightIs, Zenon
<1> QED
  BY <1>1, <1>4, <1>5, <1>7

(* Batching loses no case: the last program takes what is left.            *)
LEMMA ChunkNumbers ==
  ASSUME NEW total \in Nat, NEW b \in Nat \ {0}, NEW k \in Nat,
         k + 1 <= (total + b - 1) \div b
  PROVE  /\ k * b <= total /\ k * b \in Nat /\ (k + 1) * b = k * b + b
         /\ (k + 1) * b > total => total % b = total - k * b
<1>1. PICK q \in Nat : q = (total + b - 1) \div b /\ q * b <= total + b - 1
  OBVIOUS
<1>2. k * b \in Nat /\ (k + 1) * b = k * b + b
  OBVIOUS
<1>3. (k + 1) * b <= q * b
  <2>1. k + 1 <= q
    BY <1>1
  <2>2. \A x, y \in Nat : x <= y => x * b <= y * b
    OBVIOUS
  <2> QED
    BY <1>1, <2>1, <2>2
<1>4. k * b <= total
  BY <1>1, <1>2, <1>3
<1>5. ASSUME (k + 1) * b > total PROVE total % b = total - k * b
  <2>1. PICK r \in Nat : r = total - k * b
    BY <1>2, <1>4
  <2>2. r < b /\ total = k * b + r
    BY <1>2, <1>5, <2>1
  <2>3. \A x, y \in Nat : y < b => (x * b + y) % b = y
    OBVIOUS
  <2> QED
    BY <2>1, <2>2, <2>3
<1> QED
  BY <1>2, <1>4, <1>5

LEMMA LastChunk ==
  ASSUME NEW total \in Nat, NEW b \in Nat \ {0}, NEW m, m = (total + b - 1) \div b
  PROVE  m \in Nat /\ m * b >= total
OBVIOUS

LEMMA WeightChunks ==
  ASSUME NEW kind \in Kinds, NEW total \in Nat
  PROVE  Chunks(kind, total) \in Seq(Programs) /\ Weight(Chunks(kind, total)) = total
<1>1. PICK s, m : s = Chunks(kind, total) /\ m = (total + Batch - 1) \div Batch
  OBVIOUS
<1>2. Batch \in Nat \ {0} /\ m \in Nat /\ m * Batch >= total
  BY <1>1, SessionAssumption, LastChunk
<1> DEFINE Size(no) == IF no * Batch <= total THEN Batch ELSE total % Batch
<1>3. \A no \in 1 .. m : Size(no) \in Nat
  BY <1>2
<1>4. s = [no \in 1 .. m |-> Program(kind, no, Size(no))]
  BY <1>1 DEF Chunks
<1>5. ASSUME NEW no \in 1 .. m
      PROVE  /\ Program(kind, no, Size(no)) \in Programs
             /\ Len(Program(kind, no, Size(no)).cases) = Size(no)
  <2> HIDE DEF Size
  <2> QED
    BY <1>3, ProgramIs
<1>6. s \in Seq(Programs) /\ Len(s) = m /\ \A i \in 1 .. m : Len(s[i].cases) = Size(i)
  <2> HIDE DEF Size
  <2> QED
    BY <1>2, <1>4, <1>5
<1> DEFINE u == [k \in 0 .. m |-> IF k * Batch <= total THEN k * Batch ELSE total]
<1>7. u[0] = 0 /\ u[m] = total
  <2>1. u[0] = 0
    <3>1. 0 * Batch = 0 /\ 0 \in 0 .. m
      BY <1>2
    <3> QED
      BY <3>1
  <2>2. u[m] = IF m * Batch <= total THEN m * Batch ELSE total
    BY <1>2
  <2>3. PICK p : p = m * Batch
    OBVIOUS
  <2>4. p \in Nat
    BY <1>2, <2>3
  <2> HIDE DEF u
  <2> QED
    BY <1>2, <2>1, <2>2, <2>3, <2>4
<1>8. ASSUME NEW k \in 0 .. (Len(s) - 1) PROVE u[k + 1] = u[k] + Len(s[k + 1].cases)
  <2>1. /\ k \in 0 .. m /\ k + 1 \in 0 .. m /\ k + 1 \in 1 .. m /\ k \in Nat
        /\ k + 1 <= (total + Batch - 1) \div Batch
    BY <1>1, <1>2, <1>6
  <2>2. /\ k * Batch <= total /\ k * Batch \in Nat /\ (k + 1) * Batch = k * Batch + Batch
        /\ (k + 1) * Batch > total => total % Batch = total - k * Batch
    BY <1>2, <2>1, ChunkNumbers
  <2>3. Len(s[k + 1].cases) = IF (k + 1) * Batch <= total THEN Batch ELSE total % Batch
    BY <1>6, <2>1
  <2>4. /\ u[k + 1] = IF (k + 1) * Batch <= total THEN (k + 1) * Batch ELSE total
        /\ u[k] = IF k * Batch <= total THEN k * Batch ELSE total
    BY <2>1
  <2> HIDE DEF u
  <2>5. PICK p, q : p = k * Batch /\ q = (k + 1) * Batch
    OBVIOUS
  <2>6. CASE q <= total
    BY <1>2, <2>2, <2>3, <2>4, <2>5, <2>6
  <2>7. CASE q > total
    BY <1>2, <2>2, <2>3, <2>4, <2>5, <2>7
  <2> QED
    BY <1>2, <2>2, <2>5, <2>6, <2>7
<1> HIDE DEF u
<1>9. Weight(s) = u[Len(s)]
  <2>1. Len(s) \in Nat
    BY <1>2, <1>6
  <2> QED
    BY <1>7, <1>8, <2>1, WeightIs, Zenon
<1> QED
  BY <1>1, <1>6, <1>7, <1>9

(* Cutting the cases into programs, or into batches, as each main does,    *)
(* loses no case and invents none.                                         *)
THEOREM PlanIs ==
  ASSUME NEW h \in Harnesses
  PROVE  /\ Plan(h) \in Seq(Programs) /\ Weight(Plan(h)) = Total(h) /\ Total(h) \in Nat
         /\ h = "compile" => \A i \in 1 .. Len(Plan(h)) : Len(Plan(h)[i].cases) = 1
<1>1. CasesOf[h] \in Nat /\ RandomCases \in Nat /\ Batch \in Nat
  BY SessionAssumption
<1>2. CASE h = "sandbox"
  <2>1. PICK s, t : s = Singles("curated", CasesOf["sandbox"]) /\ t = Singles("rand", RandomCases)
    OBVIOUS
  <2>2. /\ s \in Seq(Programs) /\ Weight(s) = CasesOf[h]
        /\ t \in Seq(Programs) /\ Weight(t) = RandomCases
    BY <1>1, <1>2, <2>1, WeightSingles DEF Kinds
  <2>3. s \o t \in Seq(Programs) /\ Weight(s \o t) = Weight(s) + Weight(t)
    BY <2>2, WeightConcat
  <2>4. Plan(h) = s \o t
    BY <1>2, <2>1 DEF Plan, SandboxPlan
  <2>5. Total(h) = CasesOf[h] + RandomCases /\ h # "compile"
    BY <1>2 DEF Total
  <2> QED
    BY <1>1, <2>2, <2>3, <2>4, <2>5
<1>3. CASE h \in {"bytecode", "compile"}
  <2>1. PICK kind \in Kinds : Plan(h) = Singles(kind, CasesOf[h])
    BY <1>3 DEF Plan, BytecodePlan, CompilePlan, Kinds
  <2>2. /\ Plan(h) \in Seq(Programs) /\ Weight(Plan(h)) = CasesOf[h]
        /\ \A i \in 1 .. Len(Plan(h)) : Len(Plan(h)[i].cases) = 1
    BY <1>1, <2>1, WeightSingles
  <2> QED
    BY <1>1, <1>3, <2>2 DEF Total
<1>4. CASE h \in {"math", "coroutine"}
  <2>1. Plan(h) = Chunks("batch", CasesOf[h])
    BY <1>4 DEF Plan, MathPlan, CoroutinePlan
  <2>2. Plan(h) \in Seq(Programs) /\ Weight(Plan(h)) = CasesOf[h]
    BY <1>1, <2>1, WeightChunks DEF Kinds
  <2> QED
    BY <1>1, <1>4, <2>2 DEF Total
<1>5. CASE h = "debug"
  <2>1. PICK r, s, t : /\ r = <<Program("LINEHOOK", 1, Batch)>>
                       /\ s = Singles("ERRLINE", CasesOf["debug"])
                       /\ t = <<Program("DEBUGAPI", 1, 1)>>
    OBVIOUS
  <2>2. r \in Seq(Programs) /\ Weight(r) = Batch
    BY <1>1, <2>1, ProgramIs, WeightOne DEF Kinds
  <2>3. t \in Seq(Programs) /\ Weight(t) = 1
    BY <1>1, <2>1, ProgramIs, WeightOne DEF Kinds
  <2>4. s \in Seq(Programs) /\ Weight(s) = CasesOf[h]
    BY <1>1, <1>5, <2>1, WeightSingles DEF Kinds
  <2>5. PICK q : q = r \o s /\ q \in Seq(Programs) /\ Weight(q) = Batch + CasesOf[h]
    <3>1. r \o s \in Seq(Programs) /\ Weight(r \o s) = Weight(r) + Weight(s)
      BY <2>2, <2>4, WeightConcat
    <3> QED
      BY <2>2, <2>4, <3>1
  <2>6. q \o t \in Seq(Programs) /\ Weight(q \o t) = Batch + CasesOf[h] + 1
    <3>1. q \o t \in Seq(Programs) /\ Weight(q \o t) = Weight(q) + Weight(t)
      BY <2>3, <2>5, WeightConcat
    <3> QED
      BY <2>3, <2>5, <3>1
  <2>7. Plan(h) = q \o t
    BY <1>5, <2>1, <2>5 DEF Plan, DebugPlan
  <2>8. Total(h) = CasesOf[h] + (Batch + 1) /\ h # "compile"
    BY <1>5 DEF Total
  <2>9. \A c, b \in Nat : b + c + 1 = c + (b + 1) /\ c + (b + 1) \in Nat
    OBVIOUS
  <2>10. Weight(Plan(h)) = Total(h) /\ Total(h) \in Nat
    BY <1>1, <2>6, <2>7, <2>8, <2>9
  <2> QED
    BY <2>6, <2>7, <2>8, <2>10
<1>6. CASE h = "pairs"
  <2>1. PICK s, t : s = Singles("fixed", CasesOf["pairs"]) /\ t = Chunks("rand", RandomCases)
    OBVIOUS
  <2>2. /\ s \in Seq(Programs) /\ Weight(s) = CasesOf[h]
        /\ t \in Seq(Programs) /\ Weight(t) = RandomCases
    BY <1>1, <1>6, <2>1, WeightSingles, WeightChunks DEF Kinds
  <2>3. s \o t \in Seq(Programs) /\ Weight(s \o t) = Weight(s) + Weight(t)
    BY <2>2, WeightConcat
  <2>4. Plan(h) = s \o t
    BY <1>6, <2>1 DEF Plan, PairsPlan
  <2>5. Total(h) = CasesOf[h] + RandomCases /\ h # "compile"
    BY <1>6 DEF Total
  <2> QED
    BY <1>1, <2>2, <2>3, <2>4, <2>5
<1> QED
  BY <1>2, <1>3, <1>4, <1>5, <1>6 DEF Harnesses

-----------------------------------------------------------------------------
(* The invariant.  A program is run, judged and counted with all its cases; *)
(* the counts, the ghost and the files agree at every step; the files of    *)
(* /tmp are this session's only while it needs them.                        *)
Running == {"golua", "reference", "judge"}

SessionTypeOK ==
  /\ harness \in Harnesses /\ session \in Nat
  /\ pc \in {"shell", "next"} \cup Running
  /\ todo \in Seq(Programs) /\ (unit = <<>> \/ unit \in Programs)
  /\ pc \in Running => unit \in Programs
  /\ tally \in [escapes : Nat, hangs : Nat, leads : Nat, judged : Nat]
  /\ faults \in Nat /\ exit \in {0, 1, 130}
  /\ pc # "shell" => session > 0

OneCase ==
  harness = "compile" =>
    /\ \A i \in 1 .. Len(todo) : Len(todo[i].cases) = 1
    /\ unit \in Programs => Len(unit.cases) = 1

Counts ==
  /\ pc # "shell" => tally.judged + Weight(todo)
                     + (IF pc \in Running THEN Len(unit.cases) ELSE 0) = Total(harness)
  /\ (tally.escapes + tally.leads > 0) = (faults > 0)
  /\ harness \in OneSided => tally.leads = 0
  /\ harness \notin OneSided \cup {"compile"} => tally.escapes = 0

EvidenceKept ==
  harness = "bytecode" /\ tally.escapes > 0 => \E x \in DOMAIN evidence : evidence[x] = session

TmpKept ==
  \A f \in tmp : /\ f.session \in Nat /\ f.session <= session
                 /\ f.session = session =>
                      \/ f = ProgramFile /\ pc \in Running
                      \/ /\ f = [session |-> session, kind |-> "driver"]
                         /\ pc # "shell" \/ exit = 130

(* What golua, and the reference, can have said about the program.         *)
Told(o, answers) ==
  \/ o = Hung
  \/ \E end \in Ends : \E lines \in LinesOf(unit, answers) :
        Complete(end, lines, unit) /\ o = Outcome(end, lines)
GoluaSaid == Told(gout, AnswersOf(harness))
ReferenceSaid ==
  Told(rout, UsualAnswers(harness)) /\ rout.how \in {"finished", "killed", "hung"}

Heard ==
  /\ pc \in {"reference", "judge"} \/ Judged => GoluaSaid
  /\ pc = "judge" \/ Judged => harness \in OneSided \/ ReferenceSaid

SessionInv ==
  /\ SessionTypeOK /\ OneCase /\ Counts /\ EvidenceKept /\ TmpKept /\ Heard
  /\ ReportTells

-----------------------------------------------------------------------------
(* An outcome is one of seven ends, and some of the cases from the first.  *)
EndIs(o) ==
  \/ o.how = "finished" /\ o.rc = 0 /\ o.err = "" /\ o.hung = FALSE
  \/ o.how = "raised" /\ o.rc = 1 /\ o.err = "message" /\ o.hung = FALSE
  \/ o.how = "quoted" /\ o.rc = 1 /\ o.err \in {"panic:", "PANIC:"} /\ o.hung = FALSE
  \/ o.how = "panicked" /\ o.rc = 2 /\ o.err = "panic:" /\ o.hung = FALSE
  \/ o.how = "killed" /\ o.rc = -9 /\ o.err = "" /\ o.hung = FALSE
  \/ o.how = "hung" /\ o.rc = -9 /\ o.err = "<timeout>" /\ o.hung = TRUE

LEMMA EndsAre ==
  ASSUME NEW o, NEW end \in Ends, NEW lines, o = Outcome(end, lines)
  PROVE  EndIs(o) /\ o.lines = lines /\ o.how = end.how
<1>1. /\ o.how = end.how /\ o.rc = end.rc /\ o.err = end.err /\ o.hung = FALSE
      /\ o.lines = lines
  BY DEF Outcome
<1>2. \/ end.how = "finished" /\ end.rc = 0 /\ end.err = ""
      \/ end.how = "raised" /\ end.rc = 1 /\ end.err = "message"
      \/ end.how = "quoted" /\ end.rc = 1 /\ end.err \in {"panic:", "PANIC:"}
      \/ end.how = "panicked" /\ end.rc = 2 /\ end.err = "panic:"
      \/ end.how = "killed" /\ end.rc = -9 /\ end.err = ""
  <2>1. CASE end = [how |-> "finished", rc |-> 0, err |-> ""]
    BY <2>1
  <2>2. CASE end = [how |-> "raised", rc |-> 1, err |-> "message"]
    BY <2>2
  <2>3. CASE end = [how |-> "quoted", rc |-> 1, err |-> "panic:"]
    BY <2>3
  <2>4. CASE end = [how |-> "quoted", rc |-> 1, err |-> "PANIC:"]
    BY <2>4
  <2>5. CASE end = [how |-> "panicked", rc |-> 2, err |-> "panic:"]
    BY <2>5
  <2>6. CASE end = [how |-> "killed", rc |-> -9, err |-> ""]
    BY <2>6
  <2> QED
    BY <2>1, <2>2, <2>3, <2>4, <2>5, <2>6 DEF Ends
<1> QED
  BY <1>1, <1>2 DEF EndIs

LEMMA FilledIs ==
  ASSUME NEW m \in Nat, NEW answers, NEW lines \in Filled(m, answers)
  PROVE  /\ Len(lines) = m /\ lines = [i \in 1 .. m |-> [id |-> i, val |-> lines[i].val]]
         /\ \A i \in 1 .. m : lines[i].id = i /\ lines[i].val \in answers
<1>1. PICK f \in [1 .. m -> answers] : lines = [i \in 1 .. m |-> [id |-> i, val |-> f[i]]]
  BY DEF Filled
<1>2. Len(lines) = m
  BY <1>1
<1>3. \A i \in 1 .. m : lines[i].id = i /\ lines[i].val = f[i] /\ f[i] \in answers
  BY <1>1
<1> QED
  BY <1>1, <1>2, <1>3

LEMMA ToldIs ==
  ASSUME harness \in Harnesses, unit \in Programs, NEW o, NEW answers, Told(o, answers)
  PROVE  LET n == Len(unit.cases)
             m == Len(o.lines)
         IN /\ EndIs(o) /\ n \in Nat /\ m \in 0 .. n
            /\ o.lines = [i \in 1 .. m |-> [id |-> i, val |-> o.lines[i].val]]
            /\ \A i \in 1 .. m : o.lines[i].id = i /\ o.lines[i].val \in answers
            /\ harness \notin OneSided \cup {"pairs"} => m \in {0, n}
            /\ o.how = "finished" => harness \in OneSided \/ m = n
<1> DEFINE n == Len(unit.cases)
           m == Len(o.lines)
<1>1. n \in Nat
  BY DEF Programs
<1>2. ASSUME o.lines = <<>>
      PROVE  /\ m \in 0 .. n /\ m \in {0, n}
             /\ o.lines = [i \in 1 .. m |-> [id |-> i, val |-> o.lines[i].val]]
             /\ \A i \in 1 .. m : o.lines[i].id = i /\ o.lines[i].val \in answers
  <2>1. m = 0
    BY <1>2
  <2>2. <<>> = [i \in 1 .. 0 |-> [id |-> i, val |-> o.lines[i].val]]
    OBVIOUS
  <2> QED
    BY <1>1, <1>2, <2>1, <2>2
<1>3. CASE o = Hung
  <2>1. EndIs(o) /\ o.lines = <<>> /\ o.how = "hung"
    BY <1>3 DEF Hung, EndIs
  <2> QED
    BY <1>1, <1>2, <2>1
<1>4. CASE \E end \in Ends : \E lines \in LinesOf(unit, answers) :
              Complete(end, lines, unit) /\ o = Outcome(end, lines)
  <2>1. PICK end \in Ends, lines \in LinesOf(unit, answers) :
              Complete(end, lines, unit) /\ o = Outcome(end, lines)
    BY <1>4
  <2>2. EndIs(o) /\ o.lines = lines /\ o.how = end.how
    BY <2>1, EndsAre
  <2>3. o.how = "finished" => harness \in OneSided \/ m = n
    BY <2>1, <2>2 DEF Complete
  <2>4. CASE lines = <<>>
    BY <1>1, <1>2, <2>2, <2>3, <2>4
  <2>5. CASE \E k \in 0 .. n : /\ lines \in Filled(k, answers)
                               /\ harness \notin OneSided \cup {"pairs"} => k = n
    <3>1. PICK k \in 0 .. n : /\ lines \in Filled(k, answers)
                              /\ harness \notin OneSided \cup {"pairs"} => k = n
      BY <2>5
    <3>2. k \in Nat
      BY <1>1
    <3>3. /\ Len(lines) = k /\ lines = [i \in 1 .. k |-> [id |-> i, val |-> lines[i].val]]
          /\ \A i \in 1 .. k : lines[i].id = i /\ lines[i].val \in answers
      BY <3>1, <3>2, FilledIs
    <3>4. m = k
      BY <2>2, <3>3
    <3> QED
      BY <1>1, <2>2, <2>3, <3>1, <3>3, <3>4
  <2>6. lines = <<>> \/ \E k \in 0 .. n : /\ lines \in Filled(k, answers)
                                          /\ harness \notin OneSided \cup {"pairs"} => k = n
    <3>1. CASE harness \in OneSided
      BY <3>1 DEF LinesOf
    <3>2. CASE harness = "pairs"
      BY <3>2 DEF LinesOf, OneSided
    <3>3. CASE harness \notin OneSided /\ harness # "pairs"
      <4>1. lines \in {<<>>} \union Filled(n, answers)
        BY <3>3 DEF LinesOf
      <4>2. n \in 0 .. n
        BY <1>1
      <4> QED
        BY <4>1, <4>2
    <3> QED
      BY <3>1, <3>2, <3>3
  <2> QED
    BY <2>4, <2>5, <2>6
<1> QED
  BY <1>3, <1>4 DEF Told

LEMMA AnswersAre ==
  ASSUME NEW o, Len(o.lines) \in Nat, \A i \in 1 .. Len(o.lines) : o.lines[i].id = i
  PROVE  /\ \A id : Answered(o, id) <=> id \in 1 .. Len(o.lines)
         /\ \A id \in 1 .. Len(o.lines) : Answer(o, id) = o.lines[id].val
<1>1. \A id : Answers(o, id) = {i \in 1 .. Len(o.lines) : i = id}
  BY DEF Answers
<1>2. \A id : Answered(o, id) <=> id \in 1 .. Len(o.lines)
  BY <1>1 DEF Answered
<1>3. ASSUME NEW id \in 1 .. Len(o.lines) PROVE Answer(o, id) = o.lines[id].val
  <2>1. Answers(o, id) = {id}
    BY <1>1
  <2>2. id <= id
    OBVIOUS
  <2>3. (CHOOSE n \in Answers(o, id) : \A m \in Answers(o, id) : m <= n) = id
    BY <2>1, <2>2
  <2> QED
    BY <2>3 DEF Answer
<1> QED
  BY <1>2, <1>3


(* What an exit code and a text on stderr tell of the end: a code of a      *)
(* crash means a panic, since a death by a signal has a negative code.      *)
LEMMA EndMeans ==
  ASSUME NEW o, EndIs(o)
  PROVE  /\ PanicOrSignalCode(o) <=> o.how = "panicked"
         /\ o.err \in {"panic:", "PANIC:"} <=> o.how \in {"panicked", "quoted"}
         /\ o.err = "panic:" <=> o.how = "panicked" \/ (o.how = "quoted" /\ o.err = "panic:")
         /\ o.hung \in BOOLEAN /\ (o.hung = TRUE <=> o.how = "hung")
<1>1. \A n \in Nat : ~(-n > 128) /\ -n # 2
  OBVIOUS
<1>2. 9 \in Nat /\ ~(0 > 128) /\ 0 # 2 /\ ~(1 > 128) /\ 1 # 2
  OBVIOUS
<1>3. PanicOrSignalCode(o) <=> o.how = "panicked"
  BY <1>1, <1>2, Zenon DEF PanicOrSignalCode, EndIs
<1>4. /\ o.err \in {"panic:", "PANIC:"} <=> o.how \in {"panicked", "quoted"}
      /\ o.err = "panic:" <=> o.how = "panicked" \/ (o.how = "quoted" /\ o.err = "panic:")
      /\ o.hung \in BOOLEAN /\ (o.hung = TRUE <=> o.how = "hung")
  BY DEF EndIs
<1> QED
  BY <1>3, <1>4

LEMMA VerdictFields ==
  \A e, h, l : /\ Verdict(e, h, l).escape = e /\ Verdict(e, h, l).hang = h
               /\ Verdict(e, h, l).leads = l
BY DEF Verdict

LEMMA NoFaultFields ==
  \A h, l : /\ Verdict(FALSE, h, l).escape = FALSE /\ Verdict(h, FALSE, l).hang = FALSE
            /\ Verdict(FALSE, h, l).leads = l /\ Verdict(h, FALSE, l).escape = h
            /\ Verdict(h, FALSE, l).leads = l /\ Verdict(FALSE, FALSE, l).leads = l
            /\ Verdict(FALSE, FALSE, l).escape = FALSE /\ Verdict(FALSE, FALSE, l).hang = FALSE
BY DEF Verdict

(* Which verdict is asked for.                                             *)
LEMMA Judgements ==
  ASSUME harness \in Harnesses
  PROVE  /\ harness = "sandbox" => Judgement = SandboxVerdict(gout)
         /\ harness = "bytecode" => Judgement = BytecodeVerdict(gout)
         /\ harness = "compile" => Judgement = CompileVerdict(gout, rout)
         /\ harness = "math" => Judgement = MathVerdict(gout, rout, unit.cases)
         /\ harness = "coroutine" => Judgement = CoroutineVerdict(gout, rout, unit.cases)
         /\ harness = "debug" =>
              Judgement = IF unit.kind = "ERRLINE" THEN ErrlineVerdict(gout, rout)
                          ELSE BlockVerdict(gout, rout, unit.cases)
         /\ harness = "pairs" => Judgement = PairsVerdict(gout, rout)
<1>1. CASE harness = "sandbox"
  BY <1>1 DEF Judgement, VerdictOf
<1>2. CASE harness = "bytecode"
  BY <1>2 DEF Judgement, VerdictOf
<1>3. CASE harness = "compile"
  BY <1>3 DEF Judgement, VerdictOf
<1>4. CASE harness = "math"
  BY <1>4 DEF Judgement, VerdictOf
<1>5. CASE harness = "coroutine"
  BY <1>5 DEF Judgement, VerdictOf
<1>6. CASE harness = "debug"
  BY <1>6 DEF Judgement, VerdictOf
<1>7. CASE harness = "pairs"
  BY <1>7 DEF Judgement, VerdictOf
<1> QED
  BY <1>1, <1>2, <1>3, <1>4, <1>5, <1>6, <1>7 DEF Harnesses

LEMMA OneSidedVerdict ==
  ASSUME harness \in OneSided, EndIs(gout)
  PROVE  \E e, h \in BOOLEAN :
           /\ Judgement = Verdict(e, h, {})
           /\ h = TRUE <=> gout.how = "hung"
           /\ e = TRUE <=> \/ gout.how = "panicked"
                           \/ gout.how = "quoted"
                              /\ (harness = "sandbox" \/ gout.err = "panic:")
<1>1. CASE gout.hung = TRUE
  <2>1. gout.how = "hung"
    BY <1>1 DEF EndIs
  <2>2. Judgement = Verdict(FALSE, TRUE, {})
    BY <1>1, Judgements DEF OneSided, Harnesses, SandboxVerdict, BytecodeVerdict
  <2> QED
    BY <2>1, <2>2
<1>2. CASE gout.hung = FALSE
  <2>1. gout.how # "hung"
    BY <1>2 DEF EndIs
  <2>2. PICK e \in BOOLEAN :
          e = \/ IF harness = "sandbox" THEN gout.err \in {"panic:", "PANIC:"}
                 ELSE gout.err = "panic:"
              \/ PanicOrSignalCode(gout)
    OBVIOUS
  <2>3. Judgement = Verdict(e, FALSE, {})
    BY <1>2, <2>2, Judgements DEF OneSided, Harnesses, SandboxVerdict, BytecodeVerdict
  <2>4. e = TRUE <=> \/ gout.how = "panicked"
                     \/ gout.how = "quoted"
                        /\ (harness = "sandbox" \/ gout.err = "panic:")
    BY <2>2, EndMeans
  <2> QED
    BY <2>1, <2>3, <2>4
<1> QED
  BY <1>1, <1>2 DEF EndIs

LEMMA CompileVerdictIs ==
  ASSUME harness = "compile", EndIs(gout)
  PROVE  \E e \in BOOLEAN, L \in SUBSET {1} :
           /\ Judgement = Verdict(e, FALSE, L)
           /\ e = TRUE <=> gout.how \in {"hung", "panicked"}
                           \/ (gout.how = "quoted" /\ gout.err = "panic:")
           /\ L = {} <=> normalize_err(gout) = normalize_err(rout)
                         \/ cstack_vs_reg(normalize_err(gout), normalize_err(rout))
<1>1. PICK e \in BOOLEAN : e = CompileCrash(gout)
  BY DEF CompileCrash
<1>2. PICK L \in SUBSET {1} :
        L = IF normalize_err(gout) # normalize_err(rout)
               /\ ~cstack_vs_reg(normalize_err(gout), normalize_err(rout))
            THEN {1} ELSE {}
  OBVIOUS
<1>3. Judgement = Verdict(e, FALSE, L)
  BY <1>1, <1>2, Judgements DEF CompileVerdict, Harnesses
<1>4. e = TRUE <=> gout.how \in {"hung", "panicked"}
                   \/ (gout.how = "quoted" /\ gout.err = "panic:")
  BY <1>1, EndMeans DEF CompileCrash
<1>5. L = {} <=> normalize_err(gout) = normalize_err(rout)
                 \/ cstack_vs_reg(normalize_err(gout), normalize_err(rout))
  BY <1>2
<1> QED
  BY <1>3, <1>4, <1>5
(* What a verdict can be: finitely many leads, no lead where golua runs     *)
(* alone, and an escape only there and in compilefuzz.                      *)
LEMMA VerdictIs ==
  ASSUME harness \in Harnesses, unit \in Programs, GoluaSaid
  PROVE  \E e, h \in BOOLEAN : \E L :
           /\ Judgement = Verdict(e, h, L) /\ IsFiniteSet(L) /\ Cardinality(L) \in Nat
           /\ Cardinality(L) = 0 <=> L = {}
           /\ harness \in OneSided => L = {}
           /\ harness \notin OneSided => h = FALSE
           /\ harness \notin OneSided \cup {"compile"} => e = FALSE
<1>1. /\ EndIs(gout) /\ Len(gout.lines) \in Nat /\ Len(unit.cases) \in Nat
      /\ \A i \in 1 .. Len(gout.lines) : gout.lines[i].id = i
  <2>1. Told(gout, AnswersOf(harness))
    BY DEF GoluaSaid
  <2>2. PICK n, m : /\ n = Len(unit.cases) /\ m = Len(gout.lines)
                    /\ n \in Nat /\ m \in 0 .. n /\ EndIs(gout)
                    /\ \A i \in 1 .. m : gout.lines[i].id = i
    BY <2>1, ToldIs, Zenon
  <2> QED
    BY <2>2
<1>2. CASE harness \in OneSided
  <2>1. PICK e \in BOOLEAN, h \in BOOLEAN : Judgement = Verdict(e, h, {})
    BY <1>1, <1>2, OneSidedVerdict, Zenon
  <2>2. IsFiniteSet({}) /\ Cardinality({}) = 0 /\ 0 \in Nat
    BY FS_EmptySet
  <2>3. harness \in OneSided \cup {"compile"}
    BY <1>2
  <2> QED
    BY <1>2, <2>1, <2>2, <2>3, Zenon
<1>3. CASE harness = "compile"
  <2>1. PICK e \in BOOLEAN, L \in SUBSET {1} : Judgement = Verdict(e, FALSE, L)
    BY <1>1, <1>3, CompileVerdictIs
  <2>2. IsFiniteSet(L)
    BY <2>1, FS_Singleton, FS_Subset
  <2>3. Cardinality(L) \in Nat /\ (Cardinality(L) = 0 <=> L = {})
    BY <2>2, FS_CardinalityType, FS_EmptySet
  <2> QED
    BY <1>3, <2>1, <2>2, <2>3 DEF OneSided
<1>4. CASE harness \notin OneSided \cup {"compile"}
  <2>1. \E L : Judgement = Verdict(FALSE, FALSE, L)
               /\ \/ L \subseteq 0 .. Len(unit.cases)
                  \/ L \subseteq 0 .. Len(gout.lines)
                  \/ L \subseteq {1}
    <3>1. CASE harness = "math"
      <4> DEFINE L == {id \in 1 .. Len(unit.cases) :
                         MathKind(gout, rout, id, unit.cases[id]) \in {"lead", "signzero"}}
      <4>1. Judgement = Verdict(FALSE, FALSE, L)
        BY <3>1, Judgements, Zenon DEF MathVerdict
      <4>2. L \subseteq 0 .. Len(unit.cases)
        BY <1>1
      <4> QED
        BY <4>1, <4>2, Zenon
    <3>2. CASE harness = "coroutine"
      <4> DEFINE L == {id \in 1 .. Len(unit.cases) :
                         ~(Answered(gout, id) /\ Answered(rout, id)
                           /\ Answer(gout, id) = Answer(rout, id))}
      <4>1. Judgement = Verdict(FALSE, FALSE, L)
        BY <3>2, Judgements, Zenon DEF CoroutineVerdict
      <4>2. L \subseteq 0 .. Len(unit.cases)
        BY <1>1
      <4> QED
        BY <4>1, <4>2, Zenon
    <3>3. CASE harness = "debug"
      <4>1. CASE unit.kind = "ERRLINE"
        <5> DEFINE L == IF Printed(gout) # Printed(rout) THEN {1} ELSE {}
        <5>1. Judgement = Verdict(FALSE, FALSE, L)
          BY <3>3, <4>1, Judgements, Zenon DEF ErrlineVerdict
        <5>2. L \subseteq {1}
          OBVIOUS
        <5> HIDE DEF L
        <5> QED
          BY <5>1, <5>2
      <4>2. CASE unit.kind # "ERRLINE"
        <5> DEFINE L == {id \in 0 .. Len(unit.cases) :
                           BlockAnswers(gout, id) # BlockAnswers(rout, id)}
        <5>1. Judgement = Verdict(FALSE, FALSE, L)
          BY <3>3, <4>2, Judgements, Zenon DEF BlockVerdict
        <5>2. L \subseteq 0 .. Len(unit.cases)
          OBVIOUS
        <5> QED
          BY <5>1, <5>2, Zenon
      <4> QED
        BY <4>1, <4>2
    <3>4. CASE harness = "pairs"
      <4>1. invariant_violations(gout) \subseteq 0 .. Len(gout.lines)
        BY <1>1 DEF invariant_violations
      <4>2. {0} \subseteq 0 .. Len(gout.lines)
        BY <1>1
      <4> QED
        BY <3>4, <4>1, <4>2, Judgements DEF PairsVerdict, Harnesses
    <3> QED
      BY <1>4, <3>1, <3>2, <3>3, <3>4 DEF Harnesses, OneSided
  <2>2. PICK L : Judgement = Verdict(FALSE, FALSE, L)
                 /\ \/ L \subseteq 0 .. Len(unit.cases)
                    \/ L \subseteq 0 .. Len(gout.lines)
                    \/ L \subseteq {1}
    BY <2>1
  <2>3. IsFiniteSet(L)
    <3>1. 0 \in Int /\ Len(unit.cases) \in Int /\ Len(gout.lines) \in Int
      BY <1>1
    <3>2. /\ IsFiniteSet(0 .. Len(unit.cases)) /\ IsFiniteSet(0 .. Len(gout.lines))
          /\ IsFiniteSet({1})
      BY <3>1, FS_Interval, FS_Singleton
    <3> QED
      BY <2>2, <3>2, FS_Subset
  <2>4. Cardinality(L) \in Nat /\ (Cardinality(L) = 0 <=> L = {})
    BY <2>3, FS_CardinalityType, FS_EmptySet
  <2> QED
    BY <1>4, <2>2, <2>3, <2>4
<1> QED
  BY <1>2, <1>3, <1>4
-----------------------------------------------------------------------------
(* The invariant holds at first and every step keeps it.                    *)
LEMMA InitSession == Init => SessionInv
<1> SUFFICES ASSUME Init PROVE SessionInv
  OBVIOUS
<1>1. /\ NoTally.escapes = 0 /\ NoTally.leads = 0
      /\ NoTally \in [escapes : Nat, hangs : Nat, leads : Nat, judged : Nat]
  BY DEF NoTally
<1>2. SessionTypeOK
  BY <1>1 DEF Init, SessionTypeOK, Running
<1>3. OneCase
  <2>1. \A i \in 1 .. Len(todo) : FALSE
    BY DEF Init
  <2>2. unit \notin Programs
    BY DEF Init, Programs
  <2> QED
    BY <2>1, <2>2 DEF OneCase
<1>4. Counts
  BY <1>1 DEF Init, Counts
<1>5. EvidenceKept
  BY <1>1 DEF Init, EvidenceKept
<1>6. TmpKept
  BY DEF Init, TmpKept
<1>7. Heard
  BY DEF Init, Heard, Judged
<1>8. ReportTells
  BY DEF Init, ReportTells
<1> QED
  BY <1>2, <1>3, <1>4, <1>5, <1>6, <1>7, <1>8 DEF SessionInv

LEMMA StartKeeps ==
  ASSUME SessionInv, Start PROVE SessionInv'
<1>1. /\ NoTally.escapes = 0 /\ NoTally.leads = 0 /\ NoTally.judged = 0
      /\ NoTally \in [escapes : Nat, hangs : Nat, leads : Nat, judged : Nat]
  BY DEF NoTally
<1>2. harness \in Harnesses /\ session \in Nat /\ session' = session + 1 /\ session' \in Nat
      /\ session' > 0 /\ pc' = "next" /\ pc' \notin Running /\ harness' = harness
  BY DEF SessionInv, SessionTypeOK, Start, Running
<1>3. /\ Plan(harness) \in Seq(Programs) /\ Weight(Plan(harness)) = Total(harness)
      /\ Total(harness) \in Nat
      /\ harness = "compile" =>
           \A i \in 1 .. Len(Plan(harness)) : Len(Plan(harness)[i].cases) = 1
  BY <1>2, PlanIs, Zenon
<1>4. SessionTypeOK'
  BY <1>1, <1>2, <1>3 DEF SessionInv, SessionTypeOK, Start
<1>5. OneCase'
  <2>1. unit' \notin Programs
    BY DEF Start, Programs
  <2> QED
    BY <1>2, <1>3, <2>1 DEF OneCase, Start
<1>6. Counts'
  <2>1. tally'.judged = 0 /\ tally'.escapes = 0 /\ tally'.leads = 0 /\ faults' = 0
    BY <1>1 DEF Start
  <2>2. Weight(todo') = Total(harness') /\ Weight(todo') \in Nat
    BY <1>2, <1>3 DEF Start
  <2> QED
    BY <1>2, <2>1, <2>2 DEF Counts
<1>7. EvidenceKept'
  BY <1>1 DEF Start, EvidenceKept
<1>8. TmpKept'
  <2>1. \A f \in tmp : f.session \in Nat /\ f.session <= session
    BY DEF SessionInv, TmpKept
  <2>2. ASSUME NEW f \in tmp'
        PROVE  \/ f \in tmp
               \/ f = [session |-> session', kind |-> "driver"]
    BY DEF Start
  <2>3. ASSUME NEW f \in tmp
        PROVE  f.session \in Nat /\ f.session <= session' /\ f.session # session'
    BY <1>2, <2>1
  <2>4. ASSUME NEW f, f = [session |-> session', kind |-> "driver"]
        PROVE  f.session = session' /\ session' <= session'
    BY <1>2, <2>4
  <2> QED
    BY <1>2, <2>2, <2>3, <2>4 DEF TmpKept
<1>9. Heard'
  BY DEF Start, Heard, Judged
<1>10. ReportTells'
  BY DEF Start, ReportTells
<1> QED
  BY <1>4, <1>5, <1>6, <1>7, <1>8, <1>9, <1>10 DEF SessionInv

LEMMA WriteKeeps ==
  ASSUME SessionInv, WriteProgram PROVE SessionInv'
<1>1. /\ todo \in Seq(Programs) /\ todo # <<>> /\ session \in Nat /\ session > 0
      /\ pc = "next" /\ pc' = "golua" /\ pc' \in Running /\ pc \notin Running
      /\ harness' = harness /\ tally' = tally
      /\ unit' = Head(todo) /\ todo' = Tail(todo)
  BY DEF SessionInv, SessionTypeOK, WriteProgram, Running
<1>2. /\ Head(todo) \in Programs /\ Tail(todo) \in Seq(Programs)
      /\ Head(todo) = todo[1] /\ Len(todo) \in Nat \ {0}
      /\ Len(Tail(todo)) = Len(todo) - 1
      /\ \A i \in 1 .. Len(Tail(todo)) : Tail(todo)[i] = todo[i + 1]
  BY <1>1
<1>3. SessionTypeOK'
  BY <1>1, <1>2 DEF SessionInv, SessionTypeOK, WriteProgram
<1>4. OneCase'
  <2>1. harness = "compile" => \A i \in 1 .. Len(todo) : Len(todo[i].cases) = 1
    BY DEF SessionInv, OneCase
  <2>2. 1 \in 1 .. Len(todo) /\ \A i \in 1 .. Len(Tail(todo)) : i + 1 \in 1 .. Len(todo)
    BY <1>2
  <2> QED
    BY <1>1, <1>2, <2>1, <2>2 DEF OneCase
<1>5. Counts'
  <2>1. /\ Weight(todo) = Len(unit'.cases) + Weight(todo')
        /\ Len(unit'.cases) \in Nat /\ Weight(todo') \in Nat
    BY <1>1, <1>2, WeightTail
  <2>2. tally.judged \in Nat /\ tally.judged + Weight(todo) + 0 = Total(harness)
    BY <1>1 DEF SessionInv, SessionTypeOK, Counts
  <2>3. tally'.judged + Weight(todo') + Len(unit'.cases) = Total(harness')
    BY <1>1, <2>1, <2>2
  <2> QED
    BY <1>1, <2>3 DEF SessionInv, Counts, WriteProgram
<1>6. EvidenceKept'
  BY <1>1 DEF SessionInv, EvidenceKept, WriteProgram
<1>7. TmpKept'
  <2>1. ProgramFile.session = session /\ ProgramFile' = ProgramFile /\ session' = session
    BY DEF ProgramFile, WriteProgram
  <2>2. tmp' = tmp \union {ProgramFile} /\ pc # "shell"
    BY <1>1 DEF WriteProgram
  <2> QED
    BY <1>1, <2>1, <2>2 DEF SessionInv, TmpKept
<1>8. Heard'
  BY <1>1 DEF Heard, Judged
<1>9. ReportTells'
  BY <1>1 DEF ReportTells
<1> QED
  BY <1>3, <1>4, <1>5, <1>6, <1>7, <1>8, <1>9 DEF SessionInv
(* What was said is still said of the same program.                         *)
LEMMA SaidStays ==
  ASSUME harness' = harness, unit' = unit
  PROVE  /\ gout' = gout /\ GoluaSaid => GoluaSaid'
         /\ rout' = rout /\ ReferenceSaid => ReferenceSaid'
<1>1. \A a : LinesOf(unit, a)' = LinesOf(unit, a)
  BY DEF LinesOf
<1>2. \A end, lines : Complete(end, lines, unit)' <=> Complete(end, lines, unit)
  BY DEF Complete
<1>3. \A a : gout' = gout /\ Told(gout, a) => Told(gout, a)'
  BY <1>1, <1>2 DEF Told
<1>4. \A a : rout' = rout /\ Told(rout, a) => Told(rout, a)'
  BY <1>1, <1>2 DEF Told
<1> QED
  BY <1>3, <1>4 DEF GoluaSaid, ReferenceSaid

LEMMA GoluaKeeps ==
  ASSUME SessionInv, RunGolua PROVE SessionInv'
<1>1. /\ pc = "golua" /\ pc \in Running /\ pc' \in {"judge", "reference"} /\ pc' \in Running
      /\ harness' = harness /\ session' = session /\ todo' = todo /\ unit' = unit
      /\ tally' = tally /\ exit' = exit /\ tmp' = tmp /\ report' = report
      /\ evidence' = evidence /\ faults' = faults
      /\ pc' = "judge" => harness \in OneSided
  BY DEF RunGolua, Running
<1>2. SessionTypeOK'
  BY <1>1 DEF SessionInv, SessionTypeOK, Running
<1>3. OneCase'
  BY <1>1 DEF SessionInv, OneCase
<1>4. Counts'
  BY <1>1 DEF SessionInv, Counts
<1>5. EvidenceKept'
  BY <1>1 DEF SessionInv, EvidenceKept
<1>6. TmpKept'
  BY <1>1 DEF SessionInv, TmpKept, ProgramFile
<1>7. Heard'
  <2>1. \E a : a = AnswersOf(harness) /\ GoluaSaid' = Told(gout, a)'
    BY <1>1 DEF GoluaSaid
  <2>2. PICK a : a = AnswersOf(harness) /\ (Told(gout, a)' => GoluaSaid')
    BY <2>1
  <2>3. \/ \E end \in Ends : \E lines \in LinesOf(unit, a) :
             Complete(end, lines, unit) /\ gout' = Outcome(end, lines)
        \/ gout' = Hung
    BY <2>2 DEF RunGolua
  <2>4. LinesOf(unit, a)' = LinesOf(unit, a)
    BY <1>1 DEF LinesOf
  <2>5. \A end, lines : Complete(end, lines, unit)' <=> Complete(end, lines, unit)
    BY <1>1 DEF Complete
  <2>6. Told(gout, a)'
    BY <2>3, <2>4, <2>5 DEF Told
  <2> QED
    BY <1>1, <2>2, <2>6 DEF Heard, Judged
<1>8. ReportTells'
  BY <1>1 DEF ReportTells
<1> QED
  BY <1>2, <1>3, <1>4, <1>5, <1>6, <1>7, <1>8 DEF SessionInv

LEMMA ReferenceKeeps ==
  ASSUME SessionInv, RunReference PROVE SessionInv'
<1>1. /\ pc = "reference" /\ pc \in Running /\ pc' = "judge" /\ pc' \in Running
      /\ harness' = harness /\ session' = session /\ todo' = todo /\ unit' = unit
      /\ gout' = gout /\ tally' = tally /\ exit' = exit /\ tmp' = tmp /\ report' = report
      /\ evidence' = evidence /\ faults' = faults
  BY DEF RunReference, Running
<1>2. SessionTypeOK'
  BY <1>1 DEF SessionInv, SessionTypeOK, Running
<1>3. OneCase'
  BY <1>1 DEF SessionInv, OneCase
<1>4. Counts'
  BY <1>1 DEF SessionInv, Counts
<1>5. EvidenceKept'
  BY <1>1 DEF SessionInv, EvidenceKept
<1>6. TmpKept'
  BY <1>1 DEF SessionInv, TmpKept, ProgramFile
<1>7. Heard'
  <2>1. GoluaSaid'
    BY <1>1, SaidStays DEF SessionInv, Heard
  <2>2. PICK a : a = UsualAnswers(harness)
    OBVIOUS
  <2>3. Told(rout, a)' /\ rout'.how \in {"finished", "killed", "hung"} => ReferenceSaid'
    BY <1>1, <2>2 DEF ReferenceSaid
  <2>4. \/ \E end \in Ends : \E lines \in LinesOf(unit, a) :
             /\ Complete(end, lines, unit) /\ rout' = Outcome(end, lines)
             /\ end.how \in {"finished", "killed"}
        \/ rout' = Hung
    BY <2>2 DEF RunReference
  <2>5. LinesOf(unit, a)' = LinesOf(unit, a)
    BY <1>1 DEF LinesOf
  <2>6. \A end, lines : Complete(end, lines, unit)' <=> Complete(end, lines, unit)
    BY <1>1 DEF Complete
  <2>7. Told(rout, a)'
    BY <2>4, <2>5, <2>6 DEF Told
  <2>8. rout'.how \in {"finished", "killed", "hung"}
    BY <2>4, EndsAre DEF Hung
  <2> QED
    BY <1>1, <2>1, <2>3, <2>7, <2>8 DEF Heard
<1>8. ReportTells'
  BY <1>1 DEF ReportTells
<1> QED
  BY <1>2, <1>3, <1>4, <1>5, <1>6, <1>7, <1>8 DEF SessionInv

LEMMA InterruptKeeps ==
  ASSUME SessionInv, Interrupt PROVE SessionInv'
<1>1. /\ pc \in Running /\ pc' = "shell" /\ pc' \notin Running /\ exit' = 130
      /\ harness' = harness /\ session' = session /\ todo' = <<>> /\ unit' = <<>>
      /\ tally' = tally /\ report' = report /\ evidence' = evidence /\ faults' = faults
      /\ tmp' = tmp \ {ProgramFile}
  BY DEF Interrupt, Running
<1>2. unit' \notin Programs /\ \A i \in 1 .. Len(todo') : FALSE
  BY <1>1 DEF Programs
<1>3. SessionTypeOK'
  BY <1>1 DEF SessionInv, SessionTypeOK
<1>4. OneCase'
  BY <1>1, <1>2 DEF OneCase
<1>5. Counts'
  BY <1>1 DEF SessionInv, Counts
<1>6. EvidenceKept'
  BY <1>1 DEF SessionInv, EvidenceKept
<1>7. TmpKept'
  BY <1>1 DEF SessionInv, TmpKept, ProgramFile
<1>8. Heard'
  BY <1>1 DEF Heard, Judged
<1>9. ReportTells'
  BY <1>1 DEF ReportTells
<1> QED
  BY <1>3, <1>4, <1>5, <1>6, <1>7, <1>8, <1>9 DEF SessionInv
LEMMA JudgeKeeps ==
  ASSUME SessionInv, JudgeProgram PROVE SessionInv'
<1>1. /\ pc = "judge" /\ pc \in Running /\ pc' = "next" /\ pc' \notin Running
      /\ harness' = harness /\ session' = session /\ todo' = todo /\ unit' = unit
      /\ gout' = gout /\ rout' = rout /\ exit' = exit /\ report' = report
      /\ tmp' = tmp \ {ProgramFile}
      /\ unit \in Programs /\ harness \in Harnesses /\ GoluaSaid
      /\ session \in Nat /\ session > 0
  BY DEF SessionInv, SessionTypeOK, Heard, JudgeProgram, Running
<1>2. PICK e, h, L :
        /\ e \in BOOLEAN /\ h \in BOOLEAN
        /\ Judgement = Verdict(e, h, L) /\ IsFiniteSet(L) /\ Cardinality(L) \in Nat
        /\ Cardinality(L) = 0 <=> L = {}
        /\ harness \in OneSided => L = {}
        /\ harness \notin OneSided \cup {"compile"} => e = FALSE
  BY <1>1, VerdictIs
<1>3. Judgement.escape = e /\ Judgement.hang = h /\ Judgement.leads = L
  BY <1>2, VerdictFields
<1>4. /\ tally' = [escapes |-> tally.escapes + (IF e THEN 1 ELSE 0),
                   hangs   |-> tally.hangs + (IF h THEN 1 ELSE 0),
                   leads   |-> tally.leads + Cardinality(L),
                   judged  |-> tally.judged + Len(unit.cases)]
      /\ evidence' = IF harness = "bytecode" /\ e
                     THEN Put(evidence, <<"escape", unit.no>>, session) ELSE evidence
      /\ faults' = IF e \/ L # {} THEN faults + 1 ELSE faults
  BY <1>3, Zenon DEF JudgeProgram, Judgement, Faulty
<1>5. /\ tally.escapes \in Nat /\ tally.hangs \in Nat /\ tally.leads \in Nat
      /\ tally.judged \in Nat /\ faults \in Nat /\ Len(unit.cases) \in Nat
      /\ Cardinality(L) \in Nat
  BY <1>1, <1>2 DEF SessionInv, SessionTypeOK, Programs
<1>6. /\ tally'.escapes = tally.escapes + (IF e THEN 1 ELSE 0)
      /\ tally'.leads = tally.leads + Cardinality(L)
      /\ tally'.judged = tally.judged + Len(unit.cases)
  BY <1>4
<1>7. SessionTypeOK'
  <2>1. tally' \in [escapes : Nat, hangs : Nat, leads : Nat, judged : Nat]
    BY <1>2, <1>4, <1>5
  <2>2. faults' \in Nat
    BY <1>4, <1>5
  <2> QED
    BY <1>1, <2>1, <2>2 DEF SessionInv, SessionTypeOK
<1>8. OneCase'
  BY <1>1 DEF SessionInv, OneCase
<1>9. Counts'
  <2>1. tally.judged + Weight(todo) + Len(unit.cases) = Total(harness)
    BY <1>1 DEF SessionInv, Counts
  <2>2. Weight(todo) \in Nat
    BY <1>1, WeightSums DEF SessionInv, SessionTypeOK
  <2>3. tally'.judged + Weight(todo) + 0 = Total(harness)
    BY <1>5, <1>6, <2>1, <2>2
  <2>4. (tally.escapes + tally.leads > 0) = (faults > 0)
    BY DEF SessionInv, Counts
  <2>5. (tally'.escapes + tally'.leads > 0) = (faults' > 0)
    <3>1. CASE e = FALSE /\ L = {}
      <4>1. Cardinality(L) = 0
        BY <1>2, <3>1
      <4>2. tally'.escapes = tally.escapes /\ tally'.leads = tally.leads /\ faults' = faults
        BY <1>4, <1>5, <1>6, <3>1, <4>1
      <4> QED
        BY <2>4, <4>2
    <3>2. CASE e = TRUE
      <4>1. tally'.escapes + tally'.leads > 0 /\ faults' > 0
        BY <1>4, <1>5, <1>6, <3>2
      <4> QED
        BY <4>1
    <3>3. CASE L # {}
      <4>1. Cardinality(L) # 0
        BY <1>2, <3>3
      <4>2. tally'.escapes + tally'.leads > 0 /\ faults' > 0
        BY <1>2, <1>4, <1>5, <1>6, <3>3, <4>1
      <4> QED
        BY <4>2
    <3> QED
      BY <1>2, <3>1, <3>2, <3>3
  <2>6. harness \in OneSided => tally'.leads = 0
    <3>1. harness \in OneSided => tally.leads = 0 /\ Cardinality(L) = 0
      BY <1>2 DEF SessionInv, Counts
    <3> QED
      BY <1>6, <3>1
  <2>7. harness \notin OneSided \cup {"compile"} => tally'.escapes = 0
    <3>1. harness \notin OneSided \cup {"compile"} => tally.escapes = 0 /\ e = FALSE
      BY <1>2 DEF SessionInv, Counts
    <3> QED
      BY <1>6, <3>1
  <2> QED
    BY <1>1, <2>3, <2>5, <2>6, <2>7 DEF Counts
<1>10. EvidenceKept'
  <2>1. CASE harness = "bytecode" /\ e = TRUE
    <3>1. PICK x : x = <<"escape", unit.no>>
      OBVIOUS
    <3>2. evidence' = [y \in DOMAIN evidence \union {x} |->
                         IF y = x THEN session ELSE evidence[y]]
      BY <1>4, <2>1, <3>1 DEF Put
    <3>3. x \in DOMAIN evidence' /\ evidence'[x] = session'
      BY <1>1, <3>2
    <3> QED
      BY <3>3 DEF EvidenceKept
  <2>2. CASE ~(harness = "bytecode" /\ e = TRUE)
    <3>1. evidence' = evidence
      BY <1>4, <2>2
    <3>2. harness = "bytecode" => tally'.escapes = tally.escapes
      BY <1>2, <1>5, <1>6, <2>2
    <3> QED
      BY <1>1, <3>1, <3>2 DEF SessionInv, EvidenceKept
  <2> QED
    BY <2>1, <2>2
<1>11. TmpKept'
  BY <1>1 DEF SessionInv, TmpKept, ProgramFile
<1>12. Heard'
  BY <1>1, SaidStays DEF SessionInv, Heard
<1>13. ReportTells'
  BY <1>1 DEF ReportTells
<1> QED
  BY <1>7, <1>8, <1>9, <1>10, <1>11, <1>12, <1>13 DEF SessionInv

LEMMA FinishKeeps ==
  ASSUME SessionInv, Finish PROVE SessionInv'
<1>1. /\ pc = "next" /\ pc \notin Running /\ pc' = "shell" /\ pc' \notin Running
      /\ todo = <<>> /\ todo' = <<>> /\ unit' = <<>> /\ harness' = harness
      /\ session' = session /\ tally' = tally /\ faults' = faults
      /\ report' = [session |-> session, tally |-> tally]
      /\ tmp' = tmp \ {[session |-> session, kind |-> "driver"]}
      /\ harness \in Harnesses /\ session \in Nat /\ session > 0
  BY DEF SessionInv, SessionTypeOK, Finish, Running
<1>2. /\ tally.escapes \in Nat /\ tally.hangs \in Nat /\ tally.leads \in Nat
      /\ tally.judged \in Nat /\ faults \in Nat
  BY DEF SessionInv, SessionTypeOK
<1>3. exit' = IF tally.escapes + tally.leads > 0 THEN 1 ELSE 0
  BY DEF Finish
<1>4. exit' \in {0, 1} /\ (exit' = 1 <=> tally.escapes + tally.leads > 0)
  BY <1>2, <1>3
<1>5. unit' \notin Programs /\ \A i \in 1 .. Len(todo') : FALSE
  BY <1>1 DEF Programs
<1>6. SessionTypeOK'
  BY <1>1, <1>4 DEF SessionInv, SessionTypeOK
<1>7. OneCase'
  BY <1>5 DEF OneCase
<1>8. Counts'
  BY <1>1 DEF SessionInv, Counts
<1>9. \A x \in EvidenceFiles : x \in DOMAIN evidence' /\ evidence'[x] = session
  BY DEF Finish
<1>10. EvidenceFiles = {} => evidence' = [x \in DOMAIN evidence |-> evidence[x]]
  <2>1. evidence' = [x \in DOMAIN evidence \union EvidenceFiles |->
                       IF x \in EvidenceFiles THEN session ELSE evidence[x]]
    BY DEF Finish
  <2> QED
    BY <2>1
<1>11. EvidenceKept'
  <2>1. harness = "bytecode" => EvidenceFiles = {}
    BY DEF EvidenceFiles
  <2> QED
    BY <1>1, <1>10, <2>1 DEF SessionInv, EvidenceKept
<1>12. TmpKept'
  BY <1>1 DEF SessionInv, TmpKept, ProgramFile
<1>13. Heard'
  BY <1>1 DEF Heard, Judged
<1>14. ReportTells'
  <2>1. tally.judged = Total(harness)
    <3>1. Weight(todo) = 0 /\ tally.judged + Weight(todo) + 0 = Total(harness)
      BY <1>1, WeightEmpty DEF SessionInv, Counts
    <3> QED
      BY <1>2, <3>1
  <2>2. (exit' = 1) = (faults' > 0)
    <3>1. (tally.escapes + tally.leads > 0) = (faults > 0)
      BY DEF SessionInv, Counts
    <3> QED
      BY <1>1, <1>4, <3>1
  <2>3. ASSUME exit' = 1, harness # "compile"
        PROVE  \E x \in DOMAIN evidence' : evidence'[x] = session
    <3>1. tally.escapes + tally.leads > 0
      BY <1>4, <2>3
    <3>2. /\ harness \in OneSided => tally.leads = 0
          /\ harness \notin OneSided \cup {"compile"} => tally.escapes = 0
      BY DEF SessionInv, Counts
    <3>3. CASE harness = "bytecode"
      <4>1. EvidenceFiles = {} /\ harness \in OneSided
        BY <3>3 DEF EvidenceFiles, OneSided
      <4>2. tally.escapes > 0
        BY <1>2, <3>1, <3>2, <4>1
      <4> QED
        BY <1>10, <3>3, <4>1, <4>2 DEF SessionInv, EvidenceKept
    <3>4. CASE harness # "bytecode"
      <4>1. EvidenceFiles # {}
        <5>1. CASE harness = "sandbox"
          <6>1. tally.escapes + tally.hangs > 0
            BY <1>2, <3>1, <3>2, <5>1 DEF OneSided
          <6> QED
            BY <5>1, <6>1 DEF EvidenceFiles
        <5>2. CASE harness \in {"math", "coroutine", "debug"}
          <6>1. tally.leads > 0
            BY <1>2, <3>1, <3>2, <5>2 DEF OneSided
          <6> QED
            BY <5>2, <6>1 DEF EvidenceFiles
        <5>3. CASE harness = "pairs"
          <6>1. tally.leads > 0
            BY <1>2, <3>1, <3>2, <5>3 DEF OneSided
          <6>2. Numbered(tally) \in Nat /\ Numbered(tally) > 0
            BY <1>2, <6>1, SessionAssumption DEF Numbered
          <6>3. 1 \in 1 .. Numbered(tally)
            BY <6>2
          <6>4. EvidenceFiles = {<<"lead", n>> : n \in 1 .. Numbered(tally)}
            BY <5>3 DEF EvidenceFiles
          <6>5. <<"lead", 1>> \in EvidenceFiles
            BY <6>3, <6>4
          <6> QED
            BY <6>5
        <5> QED
          BY <1>1, <2>3, <3>4, <5>1, <5>2, <5>3 DEF Harnesses
      <4> QED
        BY <1>9, <4>1
    <3> QED
      BY <3>3, <3>4
  <2>4. ASSUME NEW f \in tmp' PROVE f.session # session
    BY <1>1, <2>4 DEF SessionInv, TmpKept
  <2>5. report'.session = session' /\ report'.tally = tally'
    BY <1>1
  <2> QED
    BY <1>1, <2>1, <2>2, <2>3, <2>4, <2>5 DEF ReportTells
<1> QED
  BY <1>6, <1>7, <1>8, <1>11, <1>12, <1>13, <1>14 DEF SessionInv

(* Between sessions and inside one, the counts, the files and what the      *)
(* interpreters said hang together.                                         *)
THEOREM SessionInvariant == Spec => []SessionInv
<1>1. SessionInv /\ [Next]_vars => SessionInv'
  <2> SUFFICES ASSUME SessionInv, [Next]_vars PROVE SessionInv'
    OBVIOUS
  <2>1. CASE Start
    BY <2>1, StartKeeps
  <2>2. CASE WriteProgram
    BY <2>2, WriteKeeps
  <2>3. CASE RunGolua
    BY <2>3, GoluaKeeps
  <2>4. CASE RunReference
    BY <2>4, ReferenceKeeps
  <2>5. CASE JudgeProgram
    BY <2>5, JudgeKeeps
  <2>6. CASE Finish
    BY <2>6, FinishKeeps
  <2>7. CASE Interrupt
    BY <2>7, InterruptKeeps
  <2>8. CASE UNCHANGED vars
    <3>1. /\ harness' = harness /\ session' = session /\ pc' = pc /\ todo' = todo
          /\ unit' = unit /\ gout' = gout /\ rout' = rout /\ tally' = tally
          /\ exit' = exit /\ tmp' = tmp /\ report' = report /\ evidence' = evidence
          /\ faults' = faults
      BY <2>8 DEF vars
    <3>2. Heard'
      BY <3>1, SaidStays DEF SessionInv, Heard, Judged
    <3>3. SessionTypeOK' /\ OneCase' /\ Counts' /\ EvidenceKept'
      BY <3>1 DEF SessionInv, SessionTypeOK, OneCase, Counts, EvidenceKept
    <3>4. TmpKept' /\ ReportTells'
      BY <3>1 DEF SessionInv, TmpKept, ProgramFile, ReportTells
    <3> QED
      BY <3>2, <3>3, <3>4 DEF SessionInv
  <2> QED
    BY <2>1, <2>2, <2>3, <2>4, <2>5, <2>6, <2>7, <2>8 DEF Next
<1> QED
  BY <1>1, InitSession, PTL DEF Spec

(* However many cases a harness has and however they fall into programs, a  *)
(* session that ran to its end judged every case once; the exit status, the *)
(* report, the evidence and the files of /tmp tell what it found.           *)
THEOREM ReportAlwaysTells == Spec => []ReportTells
<1>1. SessionInv => ReportTells
  BY DEF SessionInv
<1> QED
  BY <1>1, SessionInvariant, PTL
-----------------------------------------------------------------------------
(* What the verdicts say of the cases.  First the outcomes once more: which *)
(* cases are answered, and with what.                                       *)
LEMMA OutcomeIs ==
  ASSUME harness \in Harnesses, unit \in Programs, NEW o, NEW answers, Told(o, answers)
  PROVE  /\ EndIs(o) /\ Len(unit.cases) \in Nat
         /\ Len(o.lines) \in Nat /\ Len(o.lines) <= Len(unit.cases)
         /\ \A id : Answered(o, id) <=> id \in 1 .. Len(o.lines)
         /\ \A id \in 1 .. Len(o.lines) : Answer(o, id) \in answers
         /\ \A id \in 1 .. Len(o.lines) : o.lines[id].id = id /\ o.lines[id].val = Answer(o, id)
         /\ o.lines = [i \in 1 .. Len(o.lines) |-> [id |-> i, val |-> Answer(o, i)]]
         /\ harness \notin OneSided \cup {"pairs"} => Len(o.lines) \in {0, Len(unit.cases)}
         /\ o.how = "finished" => harness \in OneSided \/ Len(o.lines) = Len(unit.cases)
<1>1. PICK n, m :
        /\ n = Len(unit.cases) /\ m = Len(o.lines) /\ n \in Nat /\ m \in 0 .. n /\ EndIs(o)
        /\ o.lines = [i \in 1 .. m |-> [id |-> i, val |-> o.lines[i].val]]
        /\ \A i \in 1 .. m : o.lines[i].id = i /\ o.lines[i].val \in answers
        /\ harness \notin OneSided \cup {"pairs"} => m \in {0, n}
        /\ o.how = "finished" => harness \in OneSided \/ m = n
  BY ToldIs, Zenon
<1>2. m \in Nat /\ m <= n
  BY <1>1
<1>3. /\ \A id : Answered(o, id) <=> id \in 1 .. m
      /\ \A id \in 1 .. m : Answer(o, id) = o.lines[id].val
  BY <1>1, <1>2, AnswersAre
<1>4. o.lines = [i \in 1 .. m |-> [id |-> i, val |-> Answer(o, i)]]
  <2>1. [i \in 1 .. m |-> [id |-> i, val |-> o.lines[i].val]]
        = [i \in 1 .. m |-> [id |-> i, val |-> Answer(o, i)]]
    BY <1>3
  <2> QED
    BY <1>1, <2>1, Zenon
<1> QED
  BY <1>1, <1>2, <1>3, <1>4, Zenon

(* Once judged, the program and what was said of it are still there.        *)
LEMMA JudgedIs ==
  ASSUME SessionInv, Judged
  PROVE  /\ harness \in Harnesses /\ unit \in Programs /\ GoluaSaid
         /\ harness \in OneSided \/ ReferenceSaid
         /\ harness = "compile" => Len(unit.cases) = 1
BY DEF SessionInv, SessionTypeOK, Heard, Judged, OneCase

(* The answers of mathfuzz; a float has no bits below those of -0.0.        *)
Tokens == [tag : {"F", "I"}, bits : {b \in Int : b >= -Half}]

LEMMA HalfIs == Half \in Nat \ {0}
BY WidthAssumption DEF Half

LEMMA MathAnswersAre ==
  ASSUME NEW a \in MathAnswers
  PROVE  \/ a.st = "ok" /\ a.tokens \in Seq(Tokens) /\ a = Ok(a.tokens)
         \/ a.st = "err" /\ a = Err(a.message)
<1>1. /\ \A t : Ok(t).st = "ok" /\ Ok(t).tokens = t
      /\ \A m : Err(m).st = "err" /\ Err(m).message = m
  BY DEF Ok, Err
<1>2. ASSUME NEW t \in Seq(Tokens), a = Ok(t)
      PROVE  a.st = "ok" /\ a.tokens \in Seq(Tokens) /\ a = Ok(a.tokens)
  BY <1>1, <1>2, Zenon
<1>3. ASSUME NEW m, a = Err(m)
      PROVE  a.st = "err" /\ a = Err(a.message)
  BY <1>1, <1>3, Zenon
<1>4. \A m \in Nat : Float(FALSE, m) \in Tokens
  BY HalfIs DEF Float, Bits, Tokens
<1>5. Float(TRUE, 0) \in Tokens /\ Other("I", 1) \in Tokens
  BY HalfIs DEF Float, Bits, Tokens, Other
<1>6. 0 \in Nat /\ 1 \in Nat /\ 1 + Tolerance \in Nat /\ 2 + Tolerance \in Nat
  BY ToleranceAssumption
<1>7. \A t \in Tokens : <<t>> \in Seq(Tokens)
  OBVIOUS
<1>8. <<>> \in Seq(Tokens)
  OBVIOUS
<1>9. \/ \E t \in Seq(Tokens) : a = Ok(t)
      \/ \E m : a = Err(m)
  BY <1>4, <1>5, <1>6, <1>7, <1>8, Zenon DEF MathAnswers
<1> QED
  BY <1>2, <1>3, <1>9

(* Two floats at no distance are the same bits, unless both are zeros.      *)
LEMMA KeyTells ==
  ASSUME NEW b \in Int, NEW c \in Int, b >= -Half, c >= -Half,
         _ulp_key(b) = _ulp_key(c), _ulp_key(b) # 0
  PROVE  b = c
<1>1. PICK h \in Nat : h = Half
  BY HalfIs
<1> QED
  BY <1>1 DEF _ulp_key
LEMMA RankedIs ==
  /\ Ranked[1] = "lead" /\ Ranked[2] = "signzero"
  /\ Ranked[3] = "lastulp" /\ Ranked[4] = "match"
BY DEF Ranked

(* A result that passes has a partner for every token.                      *)
LEMMA ClassifyPasses ==
  ASSUME NEW g, NEW r, NEW tol, classify(g, r, tol) \notin {"lead", "signzero"}
  PROVE  /\ Len(g) = Len(r)
         /\ \A i \in 1 .. Len(g) : TokenKind(g[i], r[i], tol) \notin {"lead", "signzero"}
<1> DEFINE kinds == {TokenKind(g[i], r[i], tol) : i \in 1 .. Len(g)} \union {"match"}
           Worst(n) == /\ Ranked[n] \in kinds
                       /\ \A k \in 1 .. n - 1 : Ranked[k] \notin kinds
<1>1. Len(g) = Len(r)
  BY DEF classify
<1>2. classify(g, r, tol) = Ranked[CHOOSE n \in 1 .. 4 : Worst(n)]
  BY <1>1, Zenon DEF classify
<1>3. /\ "lead" \in kinds => Worst(1) /\ ~Worst(2) /\ ~Worst(3) /\ ~Worst(4)
      /\ "lead" \notin kinds /\ "signzero" \in kinds =>
           ~Worst(1) /\ Worst(2) /\ ~Worst(3) /\ ~Worst(4)
  <2> HIDE DEF kinds
  <2> QED
    BY RankedIs
<1> HIDE DEF Worst
<1>4. "lead" \notin kinds
  <2> SUFFICES ASSUME "lead" \in kinds PROVE FALSE
    OBVIOUS
  <2>1. (CHOOSE n \in 1 .. 4 : Worst(n)) = 1
    BY <1>3
  <2> QED
    BY <1>2, <2>1, RankedIs
<1>5. "signzero" \notin kinds
  <2> SUFFICES ASSUME "signzero" \in kinds PROVE FALSE
    OBVIOUS
  <2>1. (CHOOSE n \in 1 .. 4 : Worst(n)) = 2
    BY <1>3, <1>4
  <2> QED
    BY <1>2, <2>1, RankedIs
<1> QED
  BY <1>1, <1>4, <1>5

(* Equal results match.                                                     *)
LEMMA ClassifyItself ==
  ASSUME NEW g, NEW tol PROVE classify(g, g, tol) = "match"
<1> DEFINE kinds == {TokenKind(g[i], g[i], tol) : i \in 1 .. Len(g)} \union {"match"}
           Worst(n) == /\ Ranked[n] \in kinds
                       /\ \A k \in 1 .. n - 1 : Ranked[k] \notin kinds
<1>1. \A x : TokenKind(x, x, tol) = "match"
  BY DEF TokenKind
<1>2. kinds = {"match"}
  BY <1>1
<1>3. classify(g, g, tol) = Ranked[CHOOSE n \in 1 .. 4 : Worst(n)]
  BY Zenon DEF classify
<1>4. ~Worst(1) /\ ~Worst(2) /\ ~Worst(3) /\ Worst(4)
  <2> HIDE DEF kinds
  <2> QED
    BY <1>2, RankedIs
<1> HIDE DEF Worst
<1>5. (CHOOSE n \in 1 .. 4 : Worst(n)) = 4
  BY <1>4
<1> QED
  BY <1>3, <1>5, RankedIs

(* Two tokens that pass are the same, or near; at no tolerance, the same.   *)
LEMMA TokenPasses ==
  ASSUME NEW x \in Tokens, NEW y \in Tokens, NEW tol \in Nat, tol <= Tolerance,
         TokenKind(x, y, tol) \notin {"lead", "signzero"}
  PROVE  /\ x = y \/ Near(x, y)
         /\ tol = 0 => x = y
<1> SUFFICES ASSUME x # y PROVE Near(x, y) /\ tol # 0
  OBVIOUS
<1>1. /\ Finite(x) /\ Finite(y) /\ ~(IsZero(x) /\ IsZero(y))
      /\ Distance(_ulp_key(x.bits), _ulp_key(y.bits)) <= tol
  BY DEF TokenKind
<1>2. PICK h \in Nat : h = Half
  BY HalfIs
<1>3. /\ x.bits \in Int /\ y.bits \in Int /\ x.bits >= -Half /\ y.bits >= -Half
      /\ x = [tag |-> x.tag, bits |-> x.bits] /\ y = [tag |-> y.tag, bits |-> y.bits]
  BY DEF Tokens
<1>4. PICK k, m : /\ k = _ulp_key(x.bits) /\ m = _ulp_key(y.bits)
                  /\ k = SignedValue(x) /\ m = SignedValue(y) /\ k \in Int /\ m \in Int
  <2>1. _ulp_key(x.bits) = SignedValue(x) /\ _ulp_key(x.bits) \in Int
    BY <1>2, <1>3 DEF _ulp_key, SignedValue
  <2>2. _ulp_key(y.bits) = SignedValue(y) /\ _ulp_key(y.bits) \in Int
    BY <1>2, <1>3 DEF _ulp_key, SignedValue
  <2> QED
    BY <2>1, <2>2
<1>5. Distance(k, m) <= tol /\ ~(k = 0 /\ m = 0)
  BY <1>1, <1>4 DEF IsZero
<1>6. k - m \in -Tolerance .. Tolerance /\ (tol = 0 => k = m)
  BY <1>4, <1>5, ToleranceAssumption DEF Distance
<1>7. Near(x, y)
  BY <1>1, <1>4, <1>5, <1>6 DEF Near, Finite
<1>8. tol # 0
  <2> SUFFICES ASSUME tol = 0 PROVE FALSE
    OBVIOUS
  <2>1. k = m /\ k # 0
    BY <1>5, <1>6
  <2>2. x.bits = y.bits
    BY <1>3, <1>4, <2>1, KeyTells
  <2> QED
    BY <1>1, <1>3, <2>2 DEF Finite
<1> QED
  BY <1>7, <1>8
(* What golua, and the reference, answered in a program that was judged.    *)
LEMMA GoluaIs ==
  ASSUME SessionInv, Judged
  PROVE  /\ EndIs(gout) /\ Len(unit.cases) \in Nat /\ Len(gout.lines) \in Nat
         /\ Len(gout.lines) <= Len(unit.cases)
         /\ \A id : Answered(gout, id) <=> id \in 1 .. Len(gout.lines)
         /\ \A id \in 1 .. Len(gout.lines) : Answer(gout, id) \in AnswersOf(harness)
         /\ \A id \in 1 .. Len(gout.lines) :
              gout.lines[id].id = id /\ gout.lines[id].val = Answer(gout, id)
         /\ gout.lines = [i \in 1 .. Len(gout.lines) |-> [id |-> i, val |-> Answer(gout, i)]]
         /\ harness \notin OneSided \cup {"pairs"} => Len(gout.lines) \in {0, Len(unit.cases)}
         /\ gout.how = "finished" => harness \in OneSided \/ Len(gout.lines) = Len(unit.cases)
<1>1. PICK a : a = AnswersOf(harness)
  OBVIOUS
<1>2. harness \in Harnesses /\ unit \in Programs /\ Told(gout, a)
  BY <1>1, JudgedIs DEF GoluaSaid
<1> QED
  BY <1>1, <1>2, OutcomeIs, Zenon

LEMMA ReferenceIs ==
  ASSUME SessionInv, Judged, harness \notin OneSided
  PROVE  /\ EndIs(rout) /\ Len(unit.cases) \in Nat /\ Len(rout.lines) \in Nat
         /\ Len(rout.lines) <= Len(unit.cases)
         /\ \A id : Answered(rout, id) <=> id \in 1 .. Len(rout.lines)
         /\ \A id \in 1 .. Len(rout.lines) : Answer(rout, id) \in UsualAnswers(harness)
         /\ \A id \in 1 .. Len(rout.lines) :
              rout.lines[id].id = id /\ rout.lines[id].val = Answer(rout, id)
         /\ rout.lines = [i \in 1 .. Len(rout.lines) |-> [id |-> i, val |-> Answer(rout, i)]]
         /\ harness # "pairs" => Len(rout.lines) \in {0, Len(unit.cases)}
         /\ rout.how = "finished" => Len(rout.lines) = Len(unit.cases)
         /\ rout.how \in {"finished", "killed", "hung"}
<1>1. PICK a : a = UsualAnswers(harness)
  OBVIOUS
<1>2. /\ harness \in Harnesses /\ unit \in Programs /\ Told(rout, a)
      /\ rout.how \in {"finished", "killed", "hung"}
  BY <1>1, JudgedIs DEF ReferenceSaid
<1>3. harness # "pairs" => harness \notin OneSided \cup {"pairs"}
  OBVIOUS
<1> QED
  BY <1>1, <1>2, <1>3, OutcomeIs, Zenon

(* A traversal is repeated a number of times.                               *)
LEMMA RepeatsAreCounted ==
  ASSUME NEW a \in PairsAnswers PROVE a.dup \in Nat
<1>1. PICK v \in Traversals, w \in Traversals : a = TraversalReport(v, w, FALSE)
  <2>1. PICK p \in Traversals \X Traversals : a = TraversalReport(p[1], p[2], FALSE)
    BY Zenon DEF PairsAnswers
  <2> QED
    BY <2>1
<1> DEFINE S == {n \in 1 .. Len(v) : \E m \in 1 .. n - 1 : v[m][1] = v[n][1]}
<1>2. a.dup = Cardinality(S)
  <2>1. setOf(v).dup = Cardinality(S)
    BY DEF setOf
  <2> HIDE DEF S
  <2>2. PICK y \in BOOLEAN :
          y = (FALSE \/ (setOf(v).items = setOf(w).items /\ setOf(w).dup = 0))
    OBVIOUS
  <2>3. a = [set |-> setOf(v).items, dup |-> setOf(v).dup, nextmatch |-> y]
    BY <1>1, <2>2, Zenon DEF TraversalReport
  <2>4. a.dup = setOf(v).dup
    BY <2>3
  <2> QED
    BY <2>1, <2>4
<1>3. Len(v) \in Nat
  BY DEF Traversals
<1>4. IsFiniteSet(S)
  <2>1. 1 \in Int /\ Len(v) \in Int /\ S \subseteq 1 .. Len(v)
    BY <1>3
  <2> HIDE DEF S
  <2> QED
    BY <2>1, FS_Interval, FS_Subset
<1> HIDE DEF S
<1> QED
  BY <1>2, <1>4, FS_CardinalityType

(* Equal answers give no lead in mathfuzz.                                  *)
LEMMA MathKindOfEquals ==
  ASSUME NEW g, NEW r, NEW id, NEW exact,
         Answered(g, id), Answered(r, id), Answer(g, id) = Answer(r, id)
  PROVE  MathKind(g, r, id, exact) = "match"
<1>1. PICK a : a = Answer(g, id) /\ a = Answer(r, id)
  OBVIOUS
<1>2. PICK tol : tol = IF exact THEN 0 ELSE Tolerance
  OBVIOUS
<1>3. classify(a.tokens, a.tokens, tol) = "match"
  BY ClassifyItself, Zenon
<1>4. MathKind(g, r, id, exact) =
        IF a.st # a.st THEN "lead"
        ELSE IF a.st = "err" THEN IF a.message = a.message THEN "match" ELSE "lead"
        ELSE classify(a.tokens, a.tokens, tol)
  BY <1>1, <1>2, Zenon DEF MathKind
<1> QED
  BY <1>3, <1>4
(* The leads of each harness that compares are real.                        *)
RealLead(id) ==
  \/ id = 0 /\ ~SameText
  \/ ~Both(id) \/ Answer(gout, id) # Answer(rout, id)
  \/ id > 0 /\ unit.kind = "ERRLINE" /\ ~SameText
  \/ id > 0 /\ harness = "compile" /\ ~SameText
  \/ harness = "pairs" /\ (Answer(gout, id).dup > 0 \/ ~Answer(gout, id).nextmatch)

LEMMA PrintedTells == Printed(gout) = Printed(rout) <=> SameText
BY DEF Printed, SameText

LEMMA MathLeads ==
  ASSUME SessionInv, harness = "math"
  PROVE  \E L : Judgement = Verdict(FALSE, FALSE, L) /\ \A id \in L : RealLead(id)
<1> DEFINE L == {id \in 1 .. Len(unit.cases) :
                   MathKind(gout, rout, id, unit.cases[id]) \in {"lead", "signzero"}}
<1>1. Judgement = Verdict(FALSE, FALSE, L)
  BY Judgements, Zenon DEF SessionInv, SessionTypeOK, MathVerdict
<1>2. ASSUME NEW id \in L PROVE RealLead(id)
  <2>1. MathKind(gout, rout, id, unit.cases[id]) # "match"
    BY <1>2
  <2>2. ~Both(id) \/ Answer(gout, id) # Answer(rout, id)
    BY <2>1, MathKindOfEquals DEF Both
  <2> QED
    BY <2>2 DEF RealLead
<1> QED
  BY <1>1, <1>2, Zenon

LEMMA CoroutineLeads ==
  ASSUME SessionInv, harness = "coroutine"
  PROVE  \E L : Judgement = Verdict(FALSE, FALSE, L) /\ \A id \in L : RealLead(id)
<1> DEFINE L == {id \in 1 .. Len(unit.cases) :
                   ~(Answered(gout, id) /\ Answered(rout, id)
                     /\ Answer(gout, id) = Answer(rout, id))}
<1>1. Judgement = Verdict(FALSE, FALSE, L)
  BY Judgements, Zenon DEF SessionInv, SessionTypeOK, CoroutineVerdict
<1>2. \A id \in L : RealLead(id)
  BY DEF RealLead, Both
<1> QED
  BY <1>1, <1>2, Zenon

LEMMA DebugLeads ==
  ASSUME SessionInv, Judged, harness = "debug"
  PROVE  \E L : Judgement = Verdict(FALSE, FALSE, L) /\ \A id \in L : RealLead(id)
<1>1. CASE unit.kind = "ERRLINE"
  <2> DEFINE L == IF Printed(gout) # Printed(rout) THEN {1} ELSE {}
  <2>1. Judgement = Verdict(FALSE, FALSE, L)
    BY <1>1, Judgements, Zenon DEF SessionInv, SessionTypeOK, ErrlineVerdict
  <2>2. \A id \in L : id = 1 /\ ~SameText
    BY PrintedTells
  <2>3. 1 > 0
    OBVIOUS
  <2>4. \A id \in L : RealLead(id)
    <3> HIDE DEF L
    <3> QED
      BY <1>1, <2>2, <2>3, Zenon DEF RealLead
  <2> HIDE DEF L
  <2> QED
    BY <2>1, <2>4, Zenon
<1>2. CASE unit.kind # "ERRLINE"
  <2> DEFINE L == {id \in 0 .. Len(unit.cases) : BlockAnswers(gout, id) # BlockAnswers(rout, id)}
  <2>1. Judgement = Verdict(FALSE, FALSE, L)
    BY <1>2, Judgements, Zenon DEF SessionInv, SessionTypeOK, BlockVerdict
  <2>2. ASSUME NEW id \in L PROVE RealLead(id)
    <3>1. CASE id = 0
      <4>1. ~(0 \in 1 .. Len(gout.lines)) /\ ~(0 \in 1 .. Len(rout.lines))
        BY GoluaIs, ReferenceIs DEF OneSided
      <4>2. ~Answered(gout, 0) /\ ~Answered(rout, 0)
        BY <4>1, GoluaIs, ReferenceIs DEF OneSided
      <4>3. gout.err # rout.err
        BY <3>1, <4>2 DEF BlockAnswers
      <4> QED
        BY <3>1, <4>3 DEF RealLead, SameText
    <3>2. CASE id # 0
      <4>1. Both(id) => BlockAnswers(gout, id) = {Answer(gout, id)}
                        /\ BlockAnswers(rout, id) = {Answer(rout, id)}
        BY DEF Both, BlockAnswers
      <4> QED
        BY <4>1 DEF RealLead
    <3> QED
      BY <3>1, <3>2
  <2> QED
    BY <2>1, <2>2, Zenon
<1> QED
  BY <1>1, <1>2

LEMMA PairsLeads ==
  ASSUME SessionInv, Judged, harness = "pairs"
  PROVE  \E L : Judgement = Verdict(FALSE, FALSE, L) /\ \A id \in L : RealLead(id)
<1> DEFINE L == (IF Printed(gout) # Printed(rout) THEN {0} ELSE {})
                \union invariant_violations(gout)
<1>1. Judgement = Verdict(FALSE, FALSE, L)
  BY Judgements, Zenon DEF SessionInv, SessionTypeOK, PairsVerdict
<1>2. ASSUME NEW id \in invariant_violations(gout) PROVE RealLead(id)
  <2>1. PICK n \in 1 .. Len(gout.lines) :
          /\ id = gout.lines[n].id
          /\ gout.lines[n].val.dup # 0 \/ ~gout.lines[n].val.nextmatch
    BY <1>2 DEF invariant_violations
  <2>2. PICK a : a = Answer(gout, n) /\ a \in PairsAnswers /\ id = n /\ gout.lines[n].val = a
    <3>1. AnswersOf(harness) = PairsAnswers
      BY DEF AnswersOf, OneSided
    <3> QED
      BY <2>1, <3>1, GoluaIs
  <2>3. a.dup > 0 \/ ~a.nextmatch
    BY <2>1, <2>2, RepeatsAreCounted
  <2> QED
    BY <2>2, <2>3 DEF RealLead
<1>3. ASSUME NEW id \in L PROVE RealLead(id)
  <2>1. id \in invariant_violations(gout) \/ (id = 0 /\ Printed(gout) # Printed(rout))
    BY <1>3
  <2>2. CASE id = 0 /\ Printed(gout) # Printed(rout)
    BY <2>2, PrintedTells DEF RealLead
  <2> QED
    BY <1>2, <2>1, <2>2
<1> QED
  BY <1>1, <1>3, Zenon

LEMMA CompileLeads ==
  ASSUME SessionInv, Judged, harness = "compile"
  PROVE  \E e \in BOOLEAN, L \in SUBSET {1} :
           /\ Judgement = Verdict(e, FALSE, L)
           /\ e = TRUE => gout.how \in {"panicked", "quoted", "hung"}
           /\ \A id \in L : RealLead(id)
<1>1. EndIs(gout)
  BY GoluaIs
<1>2. PICK e \in BOOLEAN, L \in SUBSET {1} :
        /\ Judgement = Verdict(e, FALSE, L)
        /\ e = TRUE <=> gout.how \in {"hung", "panicked"}
                        \/ (gout.how = "quoted" /\ gout.err = "panic:")
        /\ L = {} <=> normalize_err(gout) = normalize_err(rout)
                      \/ cstack_vs_reg(normalize_err(gout), normalize_err(rout))
  BY <1>1, CompileVerdictIs
<1>3. SameText => L = {}
  BY <1>2 DEF SameText, normalize_err
<1>4. \A id \in L : id > 0 /\ ~SameText
  BY <1>2, <1>3
<1>5. \A id \in L : RealLead(id)
  BY <1>4, Zenon DEF RealLead
<1> QED
  BY <1>2, <1>5

(* No harness cries wolf: an escape is a crash or a message that quotes one *)
(* or, in compilefuzz, a hang; and a lead names a case the two did not      *)
(* answer alike, or outputs that differ, or a traversal golua got wrong.    *)
THEOREM FaultsAreAlwaysReal == Spec => []FaultsAreReal
<1>1. ASSUME SessionInv PROVE FaultsAreReal
  <2> SUFFICES ASSUME Judged
               PROVE  /\ Judgement.escape => \/ gout.how \in {"panicked", "quoted"}
                                             \/ harness = "compile" /\ gout.how = "hung"
                      /\ Judgement.hang => gout.how = "hung"
                      /\ \A id \in Judgement.leads : RealLead(id)
    BY Zenon DEF FaultsAreReal, RealLead
  <2>1. harness \in Harnesses
    BY <1>1, JudgedIs
  <2>2. CASE harness \in OneSided
    <3>1. EndIs(gout)
      BY <1>1, GoluaIs
    <3>2. PICK e \in BOOLEAN, h \in BOOLEAN :
            /\ Judgement = Verdict(e, h, {})
            /\ h = TRUE <=> gout.how = "hung"
            /\ e = TRUE <=> \/ gout.how = "panicked"
                            \/ gout.how = "quoted"
                               /\ (harness = "sandbox" \/ gout.err = "panic:")
      BY <2>2, <3>1, OneSidedVerdict
    <3>3. Judgement.escape = e /\ Judgement.hang = h /\ Judgement.leads = {}
      BY <3>2, VerdictFields
    <3> QED
      BY <3>2, <3>3
  <2>3. CASE harness = "compile"
    <3>1. PICK e \in BOOLEAN, L \in SUBSET {1} :
            /\ Judgement = Verdict(e, FALSE, L)
            /\ e = TRUE => gout.how \in {"panicked", "quoted", "hung"}
            /\ \A id \in L : RealLead(id)
      BY <1>1, <2>3, CompileLeads
    <3>2. Judgement.escape = e /\ Judgement.hang = FALSE /\ Judgement.leads = L
      BY <3>1, NoFaultFields
    <3> QED
      BY <2>3, <3>1, <3>2
  <2>4. CASE harness \in {"math", "coroutine", "debug", "pairs"}
    <3>1. PICK L : Judgement = Verdict(FALSE, FALSE, L) /\ \A id \in L : RealLead(id)
      BY <1>1, <2>4, MathLeads, CoroutineLeads, DebugLeads, PairsLeads
    <3>2. Judgement.escape = FALSE /\ Judgement.hang = FALSE /\ Judgement.leads = L
      BY <3>1, NoFaultFields
    <3> QED
      BY <3>1, <3>2
  <2> QED
    BY <2>1, <2>2, <2>3, <2>4 DEF Harnesses, OneSided
<1>2. SessionInv => FaultsAreReal
  BY <1>1
<1> QED
  BY <1>2, SessionInvariant, PTL
-----------------------------------------------------------------------------
(* What silence means, harness by harness.                                  *)
Passed(id) == Both(id) /\ Agree(Answer(gout, id), Answer(rout, id), unit.cases[id])

LEMMA JudgementFields ==
  ASSUME NEW e \in BOOLEAN, NEW h \in BOOLEAN, NEW L, Judgement = Verdict(e, h, L)
  PROVE  Judgement.escape = e /\ Judgement.hang = h /\ Judgement.leads = L
BY VerdictFields

LEMMA NoLeads ==
  ASSUME NEW e \in BOOLEAN, NEW h \in BOOLEAN, NEW L,
         Judgement = Verdict(e, h, L), Judgement = Verdict(FALSE, FALSE, {})
  PROVE  e = FALSE /\ h = FALSE /\ L = {}
<1>1. Judgement.escape = e /\ Judgement.hang = h /\ Judgement.leads = L
  BY JudgementFields, Zenon
<1>2. Judgement.escape = FALSE /\ Judgement.hang = FALSE /\ Judgement.leads = {}
  BY NoFaultFields
<1> QED
  BY <1>1, <1>2

LEMMA MathKindPasses ==
  ASSUME NEW g, NEW r, NEW id, NEW exact \in BOOLEAN, harness = "math",
         MathKind(g, r, id, exact) \notin {"lead", "signzero"},
         Answered(g, id) => Answer(g, id) \in MathAnswers,
         Answered(r, id) => Answer(r, id) \in MathAnswers
  PROVE  /\ Answered(g, id) /\ Answered(r, id)
         /\ Agree(Answer(g, id), Answer(r, id), exact)
<1>1. Answered(g, id) /\ Answered(r, id)
  BY DEF MathKind
<1>2. PICK a \in MathAnswers, b \in MathAnswers : a = Answer(g, id) /\ b = Answer(r, id)
  BY <1>1
<1>3. PICK tol \in Nat : tol = (IF exact THEN 0 ELSE Tolerance) /\ tol <= Tolerance
  BY ToleranceAssumption
<1>4. MathKind(g, r, id, exact) =
        IF a.st # b.st THEN "lead"
        ELSE IF a.st = "err" THEN IF a.message = b.message THEN "match" ELSE "lead"
        ELSE classify(a.tokens, b.tokens, tol)
  BY <1>1, <1>2, <1>3, Zenon DEF MathKind
<1>5. a.st = b.st
  BY <1>4
<1>6. /\ \/ a.st = "ok" /\ a.tokens \in Seq(Tokens) /\ a = Ok(a.tokens)
         \/ a.st = "err" /\ a = Err(a.message)
      /\ \/ b.st = "ok" /\ b.tokens \in Seq(Tokens) /\ b = Ok(b.tokens)
         \/ b.st = "err" /\ b = Err(b.message)
  BY MathAnswersAre
<1>7. CASE a.st = "err"
  <2>1. a.message = b.message
    BY <1>4, <1>5, <1>7
  <2>2. a = b
    BY <1>5, <1>6, <1>7, <2>1
  <2> QED
    BY <1>1, <1>2, <2>2 DEF Agree
<1>8. CASE a.st = "ok"
  <2>1. /\ Len(a.tokens) = Len(b.tokens)
        /\ \A i \in 1 .. Len(a.tokens) :
             TokenKind(a.tokens[i], b.tokens[i], tol) \notin {"lead", "signzero"}
    <3>1. classify(a.tokens, b.tokens, tol) \notin {"lead", "signzero"}
      BY <1>4, <1>5, <1>8
    <3> QED
      BY <3>1, ClassifyPasses, Zenon
  <2>2. PICK s \in Seq(Tokens), t \in Seq(Tokens) : s = a.tokens /\ t = b.tokens
    BY <1>5, <1>6, <1>8
  <2>3. ASSUME NEW i \in 1 .. Len(s)
        PROVE  (s[i] = t[i] \/ Near(s[i], t[i])) /\ (tol = 0 => s[i] = t[i])
    <3>1. s[i] \in Tokens /\ t[i] \in Tokens
      BY <2>1, <2>2
    <3>2. TokenKind(s[i], t[i], tol) \notin {"lead", "signzero"}
      BY <2>1, <2>2
    <3> QED
      BY <1>3, <3>1, <3>2, TokenPasses
  <2>4. CASE exact = TRUE
    <3>1. \A i \in 1 .. Len(s) : s[i] = t[i]
      BY <1>3, <2>3, <2>4
    <3>2. s = t
      BY <2>1, <2>2, <3>1
    <3>3. a = b
      BY <1>5, <1>6, <1>8, <2>2, <3>2
    <3> QED
      BY <1>1, <1>2, <3>3 DEF Agree
  <2>5. CASE exact = FALSE
    <3>1. Agree(a, b, exact)
      BY <1>5, <1>8, <2>1, <2>2, <2>3, <2>5, Zenon DEF Agree
    <3> QED
      BY <1>1, <1>2, <3>1
  <2> QED
    BY <2>4, <2>5
<1> QED
  BY <1>6, <1>7, <1>8
LEMMA MathSilence ==
  ASSUME SessionInv, Judged, harness = "math", Judgement = Verdict(FALSE, FALSE, {})
  PROVE  \A id \in 1 .. Len(unit.cases) : Passed(id)
<1> DEFINE L == {id \in 1 .. Len(unit.cases) :
                   MathKind(gout, rout, id, unit.cases[id]) \in {"lead", "signzero"}}
<1>1. MathVerdict(gout, rout, unit.cases) = Verdict(FALSE, FALSE, {})
  BY Judgements, Zenon DEF SessionInv, SessionTypeOK
<1>2. L = {}
  <2>1. Verdict(FALSE, FALSE, L) = Verdict(FALSE, FALSE, {})
    BY <1>1, Zenon DEF MathVerdict
  <2>2. Verdict(FALSE, FALSE, L).leads = L /\ Verdict(FALSE, FALSE, {}).leads = {}
    BY NoFaultFields, Zenon
  <2> QED
    BY <2>1, <2>2, Zenon
<1>3. AnswersOf(harness) = MathAnswers /\ UsualAnswers(harness) \subseteq MathAnswers
  BY DEF AnswersOf, UsualAnswers, OneSided, MathAnswers
<1>4. harness \notin OneSided
  BY DEF OneSided
<1>5. ASSUME NEW id \in 1 .. Len(unit.cases) PROVE Passed(id)
  <2>1. MathKind(gout, rout, id, unit.cases[id]) \notin {"lead", "signzero"}
    BY <1>2, <1>5
  <2>2. unit.cases[id] \in BOOLEAN
    BY <1>5, JudgedIs DEF Programs
  <2>3. /\ Answered(gout, id) => Answer(gout, id) \in MathAnswers
        /\ Answered(rout, id) => Answer(rout, id) \in MathAnswers
    BY <1>3, <1>4, GoluaIs, ReferenceIs
  <2>4. PICK exact \in BOOLEAN : exact = unit.cases[id]
    BY <2>2
  <2>5. /\ Answered(gout, id) /\ Answered(rout, id)
        /\ Agree(Answer(gout, id), Answer(rout, id), exact)
    BY <2>1, <2>3, <2>4, MathKindPasses, Zenon
  <2> QED
    BY <2>4, <2>5, Zenon DEF Passed, Both
<1> QED
  BY <1>5

LEMMA CoroutineSilence ==
  ASSUME SessionInv, Judged, harness = "coroutine", Judgement = Verdict(FALSE, FALSE, {})
  PROVE  \A id \in 1 .. Len(unit.cases) : Passed(id)
<1> DEFINE L == {id \in 1 .. Len(unit.cases) :
                   ~(Answered(gout, id) /\ Answered(rout, id)
                     /\ Answer(gout, id) = Answer(rout, id))}
<1>1. CoroutineVerdict(gout, rout, unit.cases) = Verdict(FALSE, FALSE, {})
  BY Judgements, Zenon DEF SessionInv, SessionTypeOK
<1>2. L = {}
  <2>1. Verdict(FALSE, FALSE, L) = Verdict(FALSE, FALSE, {})
    BY <1>1, Zenon DEF CoroutineVerdict
  <2>2. Verdict(FALSE, FALSE, L).leads = L /\ Verdict(FALSE, FALSE, {}).leads = {}
    BY NoFaultFields, Zenon
  <2> QED
    BY <2>1, <2>2, Zenon
<1>3. \A id \in 1 .. Len(unit.cases) : Both(id) /\ Answer(gout, id) = Answer(rout, id)
  BY <1>2 DEF Both
<1> HIDE DEF L
<1> QED
  BY <1>3, Zenon DEF Passed, Agree

(* Where no case is answered the output is empty; the interpreters then     *)
(* ended alike, or neither came to its end.                                 *)
LEMMA DebugSilence ==
  ASSUME SessionInv, Judged, harness = "debug", Judgement = Verdict(FALSE, FALSE, {})
  PROVE  \/ \A id \in 1 .. Len(unit.cases) : Passed(id)
         \/ SameText
         \/ /\ unit.kind # "ERRLINE" /\ gout.lines = rout.lines
            /\ {gout.how, rout.how} \subseteq {"killed", "hung"}
<1>1. CASE unit.kind = "ERRLINE"
  <2> DEFINE L == IF Printed(gout) # Printed(rout) THEN {1} ELSE {}
  <2>1. ErrlineVerdict(gout, rout) = Verdict(FALSE, FALSE, {})
    BY <1>1, Judgements, Zenon DEF SessionInv, SessionTypeOK
  <2>2. L = {}
    <3>1. Verdict(FALSE, FALSE, L) = Verdict(FALSE, FALSE, {})
      BY <2>1, Zenon DEF ErrlineVerdict
    <3>2. Verdict(FALSE, FALSE, L).leads = L /\ Verdict(FALSE, FALSE, {}).leads = {}
      BY NoFaultFields, Zenon
    <3> QED
      BY <3>1, <3>2, Zenon
  <2>3. Printed(gout) = Printed(rout)
    BY <2>2
  <2> QED
    BY <2>3, PrintedTells
<1>2. CASE unit.kind # "ERRLINE"
  <2> DEFINE n == Len(unit.cases)
             L == {id \in 0 .. n : BlockAnswers(gout, id) # BlockAnswers(rout, id)}
  <2>1. BlockVerdict(gout, rout, unit.cases) = Verdict(FALSE, FALSE, {})
    BY <1>2, Judgements, Zenon DEF SessionInv, SessionTypeOK
  <2>2. L = {}
    <3>1. Verdict(FALSE, FALSE, L) = Verdict(FALSE, FALSE, {})
      BY <2>1, Zenon DEF BlockVerdict
    <3>2. Verdict(FALSE, FALSE, L).leads = L /\ Verdict(FALSE, FALSE, {}).leads = {}
      BY NoFaultFields, Zenon
    <3> QED
      BY <3>1, <3>2, Zenon
  <2>3. \A id \in 0 .. n : BlockAnswers(gout, id) = BlockAnswers(rout, id)
    BY <2>2
  <2> HIDE DEF L
  <2>4. harness \notin OneSided /\ harness \notin OneSided \cup {"pairs"}
    BY DEF OneSided
  <2>5. /\ EndIs(gout) /\ EndIs(rout) /\ n \in Nat
        /\ Len(gout.lines) \in {0, n} /\ Len(rout.lines) \in {0, n}
        /\ gout.how = "finished" => Len(gout.lines) = n
        /\ rout.how = "finished" => Len(rout.lines) = n
        /\ rout.how \in {"finished", "killed", "hung"}
    BY <2>4, GoluaIs, ReferenceIs
  <2>6. /\ \A id : Answered(gout, id) <=> id \in 1 .. Len(gout.lines)
        /\ \A id : Answered(rout, id) <=> id \in 1 .. Len(rout.lines)
    BY <2>4, GoluaIs, ReferenceIs
  <2>7. ASSUME NEW id \in 1 .. n
        PROVE  /\ Answered(gout, id) <=> Answered(rout, id)
               /\ Answered(gout, id) => Answer(gout, id) = Answer(rout, id)
    <3>1. id \in 0 .. n /\ id # 0
      BY <2>5
    <3>2. BlockAnswers(gout, id) = BlockAnswers(rout, id)
      BY <2>3, <3>1
    <3> QED
      BY <3>1, <3>2 DEF BlockAnswers
  <2>8. CASE n = 0
    <3>1. \A id \in 1 .. n : FALSE
      BY <2>8
    <3> QED
      BY <3>1
  <2>9. CASE n # 0 /\ Len(gout.lines) = n
    <3>1. \A id \in 1 .. n : Answered(gout, id)
      BY <2>6, <2>9
    <3>2. \A id \in 1 .. n : Both(id) /\ Answer(gout, id) = Answer(rout, id)
      BY <2>7, <3>1 DEF Both
    <3>3. \A id \in 1 .. n : Passed(id)
      BY <3>2, Zenon DEF Passed, Agree
    <3> QED
      BY <3>3
  <2>10. CASE n # 0 /\ Len(gout.lines) # n
    <3>1. Len(gout.lines) = 0 /\ 1 \in 1 .. n
      BY <2>5, <2>10
    <3>2. ~Answered(rout, 1)
      BY <2>6, <2>7, <3>1
    <3>3. Len(rout.lines) = 0
      BY <2>5, <2>6, <3>1, <3>2
    <3>4. gout.lines = rout.lines
      <4>1. /\ gout.lines = [i \in 1 .. Len(gout.lines) |-> [id |-> i, val |-> Answer(gout, i)]]
            /\ rout.lines = [i \in 1 .. Len(rout.lines) |-> [id |-> i, val |-> Answer(rout, i)]]
        BY <2>4, GoluaIs, ReferenceIs
      <4>2. [i \in 1 .. 0 |-> [id |-> i, val |-> Answer(gout, i)]]
            = [i \in 1 .. 0 |-> [id |-> i, val |-> Answer(rout, i)]]
        OBVIOUS
      <4> QED
        BY <3>1, <3>3, <4>1, <4>2, Zenon
    <3>5. gout.how # "finished" /\ rout.how # "finished" /\ rout.how \in {"killed", "hung"}
      BY <2>5, <2>10, <3>1, <3>3
    <3>6. CASE gout.how \in {"killed", "hung"}
      BY <1>2, <3>4, <3>5, <3>6
    <3>7. CASE gout.how \notin {"killed", "hung"}
      <4>1. gout.err \in {"message", "panic:", "PANIC:"}
        BY <2>5, <3>5, <3>7 DEF EndIs
      <4>2. 0 \in 0 .. n /\ ~Answered(gout, 0) /\ ~Answered(rout, 0)
        BY <2>5, <2>6, <3>1, <3>3
      <4>3. BlockAnswers(gout, 0) = {gout.err}
        BY <4>1, <4>2 DEF BlockAnswers
      <4>4. BlockAnswers(rout, 0) = {gout.err}
        BY <2>3, <4>2, <4>3
      <4>5. rout.err = gout.err
        BY <4>2, <4>4 DEF BlockAnswers
      <4> QED
        BY <3>4, <4>5 DEF SameText
    <3> QED
      BY <3>6, <3>7
  <2> QED
    BY <2>8, <2>9, <2>10
<1> QED
  BY <1>1, <1>2
LEMMA PairsSilence ==
  ASSUME SessionInv, Judged, harness = "pairs", Judgement = Verdict(FALSE, FALSE, {})
  PROVE  SameText
<1> DEFINE L == (IF Printed(gout) # Printed(rout) THEN {0} ELSE {})
                \union invariant_violations(gout)
<1>1. PairsVerdict(gout, rout) = Verdict(FALSE, FALSE, {})
  BY Judgements, Zenon DEF SessionInv, SessionTypeOK
<1>2. L = {}
  <2>1. Verdict(FALSE, FALSE, L) = Verdict(FALSE, FALSE, {})
    BY <1>1, Zenon DEF PairsVerdict
  <2>2. Verdict(FALSE, FALSE, L).leads = L /\ Verdict(FALSE, FALSE, {}).leads = {}
    BY NoFaultFields, Zenon
  <2> QED
    BY <2>1, <2>2, Zenon
<1>3. Printed(gout) = Printed(rout)
  BY <1>2
<1> QED
  BY <1>3, PrintedTells

(* compilefuzz has one case to a program: its core is what is compared.     *)
OneAnswer(o) ==
  /\ Len(o.lines) \in {0, 1}
  /\ \A id : Answered(o, id) <=> id \in 1 .. Len(o.lines)
  /\ \A id \in 1 .. Len(o.lines) : Answer(o, id) \in CompileAnswers
  /\ \A id \in 1 .. Len(o.lines) : o.lines[id].val = Answer(o, id)
  /\ o.lines = [i \in 1 .. Len(o.lines) |-> [id |-> i, val |-> Answer(o, i)]]
CoreIs(o) ==
  \/ o.lines = <<>> /\ normalize_err(o).core = "" /\ LineVals(o) = {}
  \/ \E a \in CompileAnswers :
       /\ Answered(o, 1) /\ Answer(o, 1) = a /\ normalize_err(o).core = a.core
       /\ LineVals(o) = {a} /\ a.core # ""

LEMMA CompileCore ==
  ASSUME NEW o, OneAnswer(o)
  PROVE  CoreIs(o)
<1> USE DEF OneAnswer, CoreIs
<1>1. normalize_err(o).core = IF o.lines = <<>> THEN "" ELSE o.lines[1].val.core
  BY DEF normalize_err
<1>2. CASE Len(o.lines) = 0
  <2>1. [i \in 1 .. 0 |-> [id |-> i, val |-> Answer(o, i)]] = <<>>
    OBVIOUS
  <2>2. o.lines = <<>>
    BY <1>2, <2>1, Zenon
  <2>3. LineVals(o) = {}
    BY <1>2 DEF LineVals
  <2>4. normalize_err(o).core = ""
    BY <1>1, <2>2, Zenon
  <2> QED
    BY <2>2, <2>3, <2>4, Zenon
<1>3. CASE Len(o.lines) = 1
  <2>1. 1 \in 1 .. Len(o.lines) /\ 1 .. Len(o.lines) = {1}
    BY <1>3
  <2>2. PICK a \in CompileAnswers : Answer(o, 1) = a /\ o.lines[1].val = a /\ Answered(o, 1)
    BY <2>1, Zenon
  <2>3. LineVals(o) = {a}
    BY <2>1, <2>2 DEF LineVals
  <2>4. o.lines # <<>>
    <3>1. Len(<<>>) = 0
      OBVIOUS
    <3> QED
      BY <1>3, <3>1
  <2>5. normalize_err(o).core = a.core
    BY <1>1, <2>2, <2>4, Zenon
  <2>6. a.core # ""
    BY DEF CompileAnswers
  <2> QED
    BY <2>2, <2>3, <2>5, <2>6
<1> QED
  BY <1>2, <1>3

LEMMA CompileSilence ==
  ASSUME SessionInv, Judged, harness = "compile", Judgement = Verdict(FALSE, FALSE, {})
  PROVE  \/ \A id \in 1 .. Len(unit.cases) : Passed(id)
         \/ gout.how \notin {"panicked", "hung"} /\ (SameText \/ OneMeetsCStack)
<1>1. EndIs(gout) /\ harness \notin OneSided /\ harness \notin OneSided \cup {"pairs"}
  BY GoluaIs DEF OneSided
<1>2. PICK e \in BOOLEAN, L \in SUBSET {1} :
        /\ Judgement = Verdict(e, FALSE, L)
        /\ e = TRUE <=> gout.how \in {"hung", "panicked"}
                        \/ (gout.how = "quoted" /\ gout.err = "panic:")
        /\ L = {} <=> normalize_err(gout) = normalize_err(rout)
                      \/ cstack_vs_reg(normalize_err(gout), normalize_err(rout))
  BY <1>1, CompileVerdictIs
<1>3. e = FALSE /\ L = {}
  <2>1. PICK h \in BOOLEAN : h = FALSE /\ Judgement = Verdict(e, h, L)
    BY <1>2
  <2> QED
    BY <2>1, NoLeads, Zenon
<1>4. gout.how \notin {"panicked", "hung"}
  BY <1>2, <1>3
<1>5. Len(unit.cases) = 1
  BY JudgedIs
<1>6. AnswersOf(harness) = CompileAnswers /\ UsualAnswers(harness) = CompileAnswers
  BY DEF AnswersOf, UsualAnswers, OneSided
<1>7. CoreIs(gout)
  <2>1. OneAnswer(gout)
    BY <1>1, <1>5, <1>6, GoluaIs, Zenon DEF OneAnswer
  <2> QED
    BY <2>1, CompileCore, Zenon
<1>8. CoreIs(rout)
  <2>1. harness # "pairs"
    OBVIOUS
  <2>2. OneAnswer(rout)
    BY <1>1, <1>5, <1>6, <2>1, ReferenceIs, Zenon DEF OneAnswer
  <2> QED
    BY <2>2, CompileCore, Zenon
<1>9. CASE normalize_err(gout) = normalize_err(rout)
  <2>1. normalize_err(gout).core = normalize_err(rout).core /\ gout.err = rout.err
    BY <1>9 DEF normalize_err
  <2>2. CASE gout.lines = <<>> /\ rout.lines = <<>>
    BY <1>4, <2>1, <2>2 DEF SameText
  <2>3. CASE Both(1) /\ Answer(gout, 1).core = Answer(rout, 1).core
    <3>1. Passed(1)
      BY <2>3, Zenon DEF Passed, Agree
    <3>2. \A id \in 1 .. Len(unit.cases) : id = 1
      BY <1>5
    <3> QED
      BY <3>1, <3>2
  <2> QED
    BY <1>7, <1>8, <2>1, <2>2, <2>3 DEF Both, CoreIs
<1>10. CASE cstack_vs_reg(normalize_err(gout), normalize_err(rout))
  <2>1. (normalize_err(gout).core = "C stack overflow")
        # (normalize_err(rout).core = "C stack overflow")
    BY <1>10 DEF cstack_vs_reg
  <2>2. (\E l \in LineVals(gout) : l.core = "C stack overflow")
        <=> normalize_err(gout).core = "C stack overflow"
    BY <1>7 DEF CoreIs
  <2>3. (\E l \in LineVals(rout) : l.core = "C stack overflow")
        <=> normalize_err(rout).core = "C stack overflow"
    BY <1>8 DEF CoreIs
  <2>4. OneMeetsCStack
    BY <2>1, <2>2, <2>3, Zenon DEF OneMeetsCStack
  <2> QED
    BY <1>4, <2>4
<1> QED
  BY <1>2, <1>3, <1>9, <1>10

(* A program that no harness complains of passed: every case was answered   *)
(* by both and alike, but for what each harness is known to leave out.      *)
THEOREM SilenceAlwaysMeansPassed == Spec => []SilenceMeansPassed
<1>1. ASSUME SessionInv PROVE SilenceMeansPassed
  <2> SUFFICES ASSUME Judged, Judgement = Verdict(FALSE, FALSE, {})
               PROVE  IF harness \in OneSided
                      THEN gout.how \in {"finished", "raised", "quoted", "killed"}
                           /\ (harness = "sandbox" => gout.how # "quoted")
                      ELSE \/ \A id \in 1 .. Len(unit.cases) : Passed(id)
                           \/ harness \in {"debug", "pairs"} /\ SameText
                           \/ /\ harness = "debug" /\ unit.kind # "ERRLINE"
                              /\ gout.lines = rout.lines
                              /\ {gout.how, rout.how} \subseteq {"killed", "hung"}
                           \/ /\ harness = "compile" /\ gout.how \notin {"panicked", "hung"}
                              /\ SameText \/ OneMeetsCStack
    BY Zenon DEF SilenceMeansPassed, Passed
  <2>1. harness \in Harnesses
    BY <1>1, JudgedIs
  <2>2. CASE harness \in OneSided
    <3>1. EndIs(gout)
      BY <1>1, GoluaIs
    <3>2. PICK e \in BOOLEAN, h \in BOOLEAN :
            /\ Judgement = Verdict(e, h, {})
            /\ h = TRUE <=> gout.how = "hung"
            /\ e = TRUE <=> \/ gout.how = "panicked"
                            \/ gout.how = "quoted"
                               /\ (harness = "sandbox" \/ gout.err = "panic:")
      BY <2>2, <3>1, OneSidedVerdict
    <3>3. e = FALSE /\ h = FALSE
      BY <3>2, NoLeads, Zenon
    <3>4. gout.how \in {"finished", "raised", "quoted", "panicked", "killed", "hung"}
      BY <3>1 DEF EndIs
    <3> QED
      BY <2>2, <3>2, <3>3, <3>4
  <2>3. CASE harness \in {"math", "coroutine"}
    BY <1>1, <2>3, MathSilence, CoroutineSilence DEF OneSided
  <2>4. CASE harness = "debug"
    BY <1>1, <2>4, DebugSilence DEF OneSided
  <2>5. CASE harness = "pairs"
    BY <1>1, <2>5, PairsSilence DEF OneSided
  <2>6. CASE harness = "compile"
    BY <1>1, <2>6, CompileSilence DEF OneSided
  <2> QED
    BY <2>1, <2>2, <2>3, <2>4, <2>5, <2>6 DEF Harnesses, OneSided
<1>2. SessionInv => SilenceMeansPassed
  BY <1>1
<1> QED
  BY <1>2, SessionInvariant, PTL
=============================================================================
