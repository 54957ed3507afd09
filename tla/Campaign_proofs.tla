-------------------------- MODULE Campaign_proofs --------------------------
(***************************************************************************)
(* Proofs about Campaign: what a loop of invocations of a batch fuzzer     *)
(* reports and leaves on disk, for any number of batches, cases, zones and *)
(* invocations and anything the interpreters print.                        *)
(***************************************************************************)
EXTENDS Campaign, SequenceTheorems, WellFoundedInduction, TLAPS

(* Induction: a set of numbers that has 0 and every successor has them all, *)
(* for otherwise there would be a least one outside it.                     *)
LEMMA LeastNumber ==
  ASSUME NEW T \in SUBSET Nat, T # {}
  PROVE  \E n \in T : \A m \in T : n <= m
<1>1. PICK x \in T : \A y \in T : ~(<<y, x>> \in OpToRel(<, Nat))
  BY NatLessThanWellFounded, WFMin
<1>2. \A y \in T : y < x => <<y, x>> \in OpToRel(<, Nat)
  BY Zenon DEF OpToRel
<1>3. \A y \in T : ~(y < x)
  BY <1>1, <1>2, Zenon
<1>4. x \in Nat /\ \A y \in T : y \in Nat
  OBVIOUS
<1> QED
  BY <1>3, <1>4

LEMMA AllNumbers ==
  ASSUME NEW T, 0 \in T, \A n \in T : n \in Nat => n + 1 \in T
  PROVE  Nat \subseteq T
<1> SUFFICES ASSUME Nat \ T # {} PROVE FALSE
  OBVIOUS
<1>1. Nat \ T \in SUBSET Nat
  OBVIOUS
<1>2. PICK n \in Nat \ T : \A m \in Nat \ T : n <= m
  BY <1>1, LeastNumber, Zenon
<1>3. n # 0 /\ n - 1 \in Nat
  BY <1>2
<1>4. n - 1 \in T
  BY <1>2, <1>3
<1>5. (n - 1) + 1 = n
  BY <1>2
<1> QED
  BY <1>2, <1>3, <1>4, <1>5

-----------------------------------------------------------------------------
(* Choosing members of a sequence.                                         *)
Picks(u, s, asked, n) ==
  u = [k \in 0 .. n |-> IF k = 0 THEN <<>>
                        ELSE IF asked[k] THEN Append(u[k - 1], s[k]) ELSE u[k - 1]]

LEMMA PicksExist ==
  ASSUME NEW s, NEW asked, NEW n \in Nat PROVE \E u : Picks(u, s, asked, n)
<1> DEFINE T == {m \in Nat : \E u : Picks(u, s, asked, m)}
<1>1. 0 \in T
  <2> DEFINE u == [k \in 0 .. 0 |-> <<>>]
  <2>1. Picks(u, s, asked, 0)
    BY DEF Picks
  <2> QED
    BY <2>1
<1>2. ASSUME NEW m \in T, m \in Nat PROVE m + 1 \in T
  <2>1. PICK u : Picks(u, s, asked, m)
    BY <1>2
  <2> DEFINE v == [k \in 0 .. (m + 1) |->
                     IF k <= m THEN u[k]
                     ELSE IF asked[k] THEN Append(u[m], s[k]) ELSE u[m]]
  <2>2. ASSUME NEW k \in 0 .. (m + 1)
        PROVE  v[k] = IF k = 0 THEN <<>>
                      ELSE IF asked[k] THEN Append(v[k - 1], s[k]) ELSE v[k - 1]
    <3>1. CASE k <= m
      <4>1. v[k] = u[k] /\ k \in 0 .. m /\ (k # 0 => k - 1 \in 0 .. m)
        BY <1>2, <3>1
      <4>2. u[k] = IF k = 0 THEN <<>>
                   ELSE IF asked[k] THEN Append(u[k - 1], s[k]) ELSE u[k - 1]
        BY <2>1, <4>1 DEF Picks
      <4>3. k # 0 => v[k - 1] = u[k - 1]
        BY <1>2, <4>1
      <4> QED
        BY <4>1, <4>2, <4>3
    <3>2. CASE k = m + 1
      <4>1. k # 0 /\ k - 1 = m /\ v[m] = u[m]
            /\ v[k] = IF asked[k] THEN Append(u[m], s[k]) ELSE u[m]
        BY <1>2, <3>2
      <4> QED
        BY <4>1
    <3> QED
      BY <1>2, <3>1, <3>2
  <2>3. Picks(v, s, asked, m + 1)
    <3>1. v = [k \in 0 .. (m + 1) |-> v[k]]
      OBVIOUS
    <3> HIDE DEF v
    <3> QED
      BY <2>2, <3>1 DEF Picks
  <2> QED
    BY <1>2, <2>3
<1>3. Nat \subseteq T
  <2> HIDE DEF T
  <2> QED
    BY <1>1, <1>2, AllNumbers
<1> QED
  BY <1>3

LEMMA ChosenIs ==
  ASSUME NEW s, NEW asked, Len(s) \in Nat
  PROVE  \E u : /\ u[0] = <<>> /\ Chosen(s, asked) = u[Len(s)]
                /\ \A k \in 1 .. Len(s) :
                     u[k] = IF asked[k] THEN Append(u[k - 1], s[k]) ELSE u[k - 1]
<1> DEFINE u == CHOOSE u : u = [n \in 0 .. Len(s) |->
                    IF n = 0 THEN <<>>
                    ELSE IF asked[n] THEN Append(u[n - 1], s[n]) ELSE u[n - 1]]
<1>1. \E w : Picks(w, s, asked, Len(s))
  BY PicksExist
<1>2. u = [n \in 0 .. Len(s) |->
             IF n = 0 THEN <<>>
             ELSE IF asked[n] THEN Append(u[n - 1], s[n]) ELSE u[n - 1]]
  BY <1>1, Zenon DEF Picks
<1>3. Chosen(s, asked) = u[Len(s)]
  BY Zenon DEF Chosen
<1> HIDE DEF u
<1>4. u[0] = <<>>
  BY <1>2
<1>5. \A k \in 1 .. Len(s) :
         u[k] = IF asked[k] THEN Append(u[k - 1], s[k]) ELSE u[k - 1]
  <2> SUFFICES ASSUME NEW k \in 1 .. Len(s)
               PROVE  u[k] = IF asked[k] THEN Append(u[k - 1], s[k]) ELSE u[k - 1]
    OBVIOUS
  <2>1. k \in 0 .. Len(s) /\ k # 0
    OBVIOUS
  <2> QED
    BY <1>2, <2>1
<1> QED
  BY <1>3, <1>4, <1>5

(* What is chosen was asked for, is distinct where the sequence is, and is  *)
(* nothing only where nothing was asked for.                               *)
Apart1(q) == \A i, j \in 1 .. Len(q) : q[i] = q[j] => i = j
TakenUpTo(q, s, asked, n) ==
  /\ \A j \in 1 .. Len(q) : \E m \in 1 .. n : asked[m] /\ q[j] = s[m]
  /\ q = <<>> => \A m \in 1 .. n : ~asked[m]
  /\ Apart1(s) => Apart1(q)

LEMMA ChosenTakes ==
  ASSUME NEW X, NEW s \in Seq(X), NEW asked, \A n \in 1 .. Len(s) : asked[n] \in BOOLEAN
  PROVE  /\ Chosen(s, asked) \in Seq(X)
         /\ TakenUpTo(Chosen(s, asked), s, asked, Len(s))
<1>1. PICK u : /\ u[0] = <<>> /\ Chosen(s, asked) = u[Len(s)]
               /\ \A k \in 1 .. Len(s) :
                    u[k] = IF asked[k] THEN Append(u[k - 1], s[k]) ELSE u[k - 1]
  BY ChosenIs
<1> DEFINE Ok(n) == u[n] \in Seq(X) /\ TakenUpTo(u[n], s, asked, n)
           T == {n \in Nat : n <= Len(s) => Ok(n)}
<1>2. Ok(0)
  <2>1. u[0] = <<>> /\ <<>> \in Seq(X) /\ Len(<<>>) = 0
    BY <1>1
  <2> QED
    BY <2>1 DEF TakenUpTo, Apart1
<1>3. ASSUME NEW n \in T, n \in Nat PROVE n + 1 \in T
  <2> SUFFICES ASSUME n + 1 <= Len(s) PROVE Ok(n + 1)
    BY <1>3
  <2>1. n <= Len(s) /\ n + 1 \in 1 .. Len(s) /\ (n + 1) - 1 = n /\ s[n + 1] \in X
    BY <1>3
  <2>2. Ok(n)
    BY <1>3, <2>1
  <2>3. u[n + 1] = IF asked[n + 1] THEN Append(u[n], s[n + 1]) ELSE u[n]
    BY <1>1, <2>1
  <2> PICK q : q = u[n]
    OBVIOUS
  <2>4. q \in Seq(X) /\ TakenUpTo(q, s, asked, n)
    BY <2>2
  <2> HIDE DEF Ok
  <2>5. CASE ~asked[n + 1]
    <3>1. u[n + 1] = q
      BY <2>3, <2>5
    <3>2. TakenUpTo(q, s, asked, n + 1)
      <4>1. \A m \in 1 .. (n + 1) : m \in 1 .. n \/ m = n + 1
        BY <1>3
      <4>2. \A m \in 1 .. n : m \in 1 .. (n + 1)
        BY <1>3
      <4> QED
        BY <2>4, <2>5, <4>1, <4>2, Zenon DEF TakenUpTo
    <3> QED
      BY <2>4, <3>1, <3>2 DEF Ok
  <2>6. CASE asked[n + 1]
    <3> PICK p : p = Append(q, s[n + 1])
      OBVIOUS
    <3>1. u[n + 1] = p
      BY <2>3, <2>6
    <3>2. /\ p \in Seq(X) /\ Len(p) = Len(q) + 1 /\ p[Len(q) + 1] = s[n + 1]
          /\ \A j \in 1 .. Len(q) : p[j] = q[j]
      BY <2>1, <2>4
    <3>3. Len(q) \in Nat /\ p # <<>>
      BY <2>4, <3>2
    <3>4. ASSUME NEW j \in 1 .. Len(p) PROVE \E m \in 1 .. (n + 1) : asked[m] /\ p[j] = s[m]
      <4>1. CASE j \in 1 .. Len(q)
        <5>1. PICK m \in 1 .. n : asked[m] /\ q[j] = s[m]
          BY <2>4, <4>1 DEF TakenUpTo
        <5>2. m \in 1 .. (n + 1)
          BY <1>3
        <5> QED
          BY <3>2, <4>1, <5>1, <5>2
      <4>2. CASE j = Len(q) + 1
        <5>1. n + 1 \in 1 .. (n + 1)
          BY <1>3
        <5> QED
          BY <2>6, <3>2, <4>2, <5>1
      <4> QED
        BY <3>2, <3>3, <4>1, <4>2
    <3>5. ASSUME Apart1(s) PROVE Apart1(p)
      <4>1. Apart1(q)
        BY <2>4, <3>5 DEF TakenUpTo
      <4>2. ASSUME NEW j \in 1 .. Len(q) PROVE p[j] # s[n + 1]
        <5>1. PICK m \in 1 .. n : asked[m] /\ q[j] = s[m]
          BY <2>4 DEF TakenUpTo
        <5>2. m \in 1 .. Len(s) /\ m # n + 1
          BY <1>3, <2>1
        <5>3. s[m] # s[n + 1]
          BY <2>1, <3>5, <5>2 DEF Apart1
        <5> QED
          BY <3>2, <5>1, <5>3
      <4>3. \A j \in 1 .. Len(p) : j \in 1 .. Len(q) \/ j = Len(q) + 1
        BY <3>2, <3>3
      <4> QED
        <5> SUFFICES ASSUME NEW i \in 1 .. Len(p), NEW j \in 1 .. Len(p), p[i] = p[j] PROVE i = j
          BY DEF Apart1
        <5>1. CASE i \in 1 .. Len(q) /\ j \in 1 .. Len(q)
          BY <3>2, <4>1, <5>1 DEF Apart1
        <5>2. CASE i = Len(q) + 1 /\ j = Len(q) + 1
          BY <5>2
        <5>3. CASE i \in 1 .. Len(q) /\ j = Len(q) + 1
          BY <3>2, <4>2, <5>3
        <5>4. CASE i = Len(q) + 1 /\ j \in 1 .. Len(q)
          BY <3>2, <4>2, <5>4
        <5> QED
          BY <4>3, <5>1, <5>2, <5>3, <5>4
    <3>6. TakenUpTo(p, s, asked, n + 1)
      BY <3>3, <3>4, <3>5 DEF TakenUpTo
    <3> QED
      BY <3>1, <3>2, <3>6 DEF Ok
  <2>7. asked[n + 1] \in BOOLEAN
    BY <2>1
  <2> QED
    BY <2>5, <2>6, <2>7
<1>4. Nat \subseteq T
  <2>1. 0 \in T
    BY <1>2
  <2> HIDE DEF T
  <2> QED
    BY <1>3, <2>1, AllNumbers
<1>5. Len(s) \in Nat /\ Len(s) \in T
  BY <1>4
<1>6. Ok(Len(s))
  BY <1>5
<1> QED
  BY <1>1, <1>6
-----------------------------------------------------------------------------
(* What a driver prints: one line for each operation of each case, in the   *)
(* order of Ops, and every operation but a check is printed once.          *)
OpNames == {"result", "INV", "binop", "lib", "len"}
Words == {"v", "w", "norep", "F+0", "F-0", "true", "false", "len="}
Lines == [op : OpNames, id : Nat, val : Words]

LEMMA CaseOpsAre ==
  ASSUME NEW f \in Fuzzers
  PROVE  /\ f = "coercion" => CaseOps(f) = <<"binop", "lib">>
         /\ f = "utf8" => CaseOps(f) = <<"len", "INV", "INV">>
         /\ f \notin {"coercion", "utf8"} => CaseOps(f) = <<"result", "INV">>
         /\ Len(CaseOps(f)) \in {2, 3}
         /\ \A i \in 1 .. Len(CaseOps(f)) : CaseOps(f)[i] \in OpNames
         /\ \A i, j \in 1 .. Len(CaseOps(f)) :
              CaseOps(f)[i] = CaseOps(f)[j] /\ CaseOps(f)[i] # "INV" => i = j
<1>1. CASE f = "coercion"
  <2>1. CaseOps(f) = <<"binop", "lib">>
    BY <1>1 DEF CaseOps
  <2> QED
    BY <1>1, <2>1 DEF OpNames
<1>2. CASE f = "utf8"
  <2>1. CaseOps(f) = <<"len", "INV", "INV">>
    BY <1>2 DEF CaseOps
  <2> QED
    BY <1>2, <2>1 DEF OpNames
<1>3. CASE f \notin {"coercion", "utf8"}
  <2>1. CaseOps(f) = <<"result", "INV">>
    BY <1>3 DEF CaseOps
  <2> QED
    BY <1>3, <2>1 DEF OpNames
<1> QED
  BY <1>1, <1>2, <1>3

LEMMA Division2 ==
  ASSUME NEW i \in Nat
  PROVE  i = 2 * (i \div 2) + (i % 2) /\ i % 2 \in 0 .. 1 /\ i \div 2 \in Nat
OBVIOUS

LEMMA Division3 ==
  ASSUME NEW i \in Nat
  PROVE  i = 3 * (i \div 3) + (i % 3) /\ i % 3 \in 0 .. 2 /\ i \div 3 \in Nat
OBVIOUS

LEMMA SequenceOf ==
  ASSUME NEW X, NEW n \in Nat, NEW s \in [1 .. n -> X]
  PROVE  s \in Seq(X) /\ Len(s) = n /\ DOMAIN s = 1 .. n
OBVIOUS

LEMMA ElementOf ==
  ASSUME NEW X, NEW s \in Seq(X), NEW i \in 1 .. Len(s)
  PROVE  s[i] \in X
OBVIOUS

LEMMA Sum1 == \A a, b \in Int : 1 + a = 1 + b => a = b
OBVIOUS

LEMMA SameDivision ==
  ASSUME NEW m \in {2, 3}, NEW i \in Nat, NEW j \in Nat, i % m = j % m, i \div m = j \div m
  PROVE  i = j
<1>1. CASE m = 2
  BY <1>1, Division2
<1>2. CASE m = 3
  BY <1>2, Division3
<1> QED
  BY <1>1, <1>2

LEMMA OpsAre ==
  ASSUME NEW f \in Fuzzers
  PROVE  /\ OpsOf[f] \in Seq([op : OpNames, id : Nat])
         /\ \A n, k \in 1 .. Len(OpsOf[f]) :
              OpsOf[f][n] = OpsOf[f][k] /\ OpsOf[f][n].op # "INV" => n = k
         /\ \A n \in 1 .. Len(OpsOf[f]) :
              OpsOf[f][n].op = "INV" => f # "coercion"
<1> PICK m : m = Len(CaseOps(f))
  OBVIOUS
<1>1. m \in {2, 3}
  BY CaseOpsAre
<1> PICK size : size = BatchSize * m
  OBVIOUS
<1>2. size \in Nat
  BY <1>1, BatchAssumption
<1> DEFINE Op(i) == CaseOps(f)[1 + ((i - 1) % m)]
           No(i) == 1 + ((i - 1) \div m)
<1>3. ASSUME NEW i \in 1 .. size
      PROVE  /\ 1 + ((i - 1) % m) \in 1 .. m /\ No(i) \in Nat
             /\ i - 1 = m * ((i - 1) \div m) + ((i - 1) % m)
  <2> PICK a \in Nat : a = i - 1
    BY <1>2
  <2>1. CASE m = 2
    BY <2>1, Division2
  <2>2. CASE m = 3
    BY <2>2, Division3
  <2> QED
    BY <1>1, <2>1, <2>2
<1>4. ASSUME NEW i \in 1 .. size PROVE Op(i) \in OpNames
  BY <1>3, CaseOpsAre
<1>5. PICK s : s = [i \in 1 .. size |-> [op |-> Op(i), id |-> No(i)]]
  OBVIOUS
<1>6. s \in Seq([op : OpNames, id : Nat]) /\ Len(s) = size
  <2>0. ASSUME NEW i \in 1 .. size PROVE [op |-> Op(i), id |-> No(i)] \in [op : OpNames, id : Nat]
    <3>1. Op(i) \in OpNames /\ No(i) \in Nat
      BY <1>3, <1>4
    <3> HIDE DEF Op, No
    <3> QED
      BY <3>1
  <2>1. s \in [1 .. size -> [op : OpNames, id : Nat]]
    <3> HIDE DEF Op, No
    <3> QED
      BY <2>0, <1>5
  <2> HIDE DEF Op, No
  <2> QED
    BY <1>2, <2>1, SequenceOf
<1>7. OpsOf[f] = s
  <2>0. Ops(f) = s
    BY <1>5 DEF Ops
  <2>1. OpsOf[f] = <<>> \o s
    BY <2>0 DEF OpsOf
  <2> QED
    BY <1>6, <2>1
<1>8. ASSUME NEW n \in 1 .. size, NEW k \in 1 .. size, s[n] = s[k], s[n].op # "INV"
      PROVE  n = k
  <2>1. /\ s[n].op = Op(n) /\ s[n].id = No(n)
        /\ s[k].op = Op(k) /\ s[k].id = No(k)
    <3> HIDE DEF Op, No
    <3> QED
      BY <1>5
  <2>2. Op(n) = Op(k) /\ No(n) = No(k) /\ Op(n) # "INV"
    <3> HIDE DEF Op, No
    <3> QED
      BY <1>8, <2>1
  <2>3. PICK i \in Nat : i = n - 1
    BY <1>2
  <2>4. PICK j \in Nat : j = k - 1
    BY <1>2
  <2>5. 1 + (i % m) \in 1 .. m /\ 1 + (j % m) \in 1 .. m
        /\ 1 + (i \div m) \in Nat /\ 1 + (j \div m) \in Nat
    BY <1>3, <2>3, <2>4
  <2>6. 1 + (i % m) = 1 + (j % m) /\ 1 + (i \div m) = 1 + (j \div m)
    BY <2>2, <2>3, <2>4, <2>5, CaseOpsAre
  <2>7. i % m \in Int /\ j % m \in Int /\ i \div m \in Int /\ j \div m \in Int
    <3>1. CASE m = 2
      BY <3>1, Division2
    <3>2. CASE m = 3
      BY <3>2, Division3
    <3> QED
      BY <1>1, <3>1, <3>2
  <2>8. i % m = j % m /\ i \div m = j \div m
    BY <2>6, <2>7, Sum1
  <2>9. i = j
    BY <1>1, <2>8, SameDivision
  <2> QED
    BY <1>2, <2>3, <2>4, <2>9
<1>9. ASSUME NEW n \in 1 .. size, s[n].op = "INV", f = "coercion" PROVE FALSE
  <2>1. s[n].op = Op(n)
    <3> HIDE DEF Op, No
    <3> QED
      BY <1>5
  <2>2. Op(n) = "INV" /\ 1 + ((n - 1) % m) \in 1 .. m
    BY <1>3, <1>9, <2>1
  <2> PICK i : i = 1 + ((n - 1) % m)
    OBVIOUS
  <2>3. CaseOps(f)[i] = "INV" /\ i \in 1 .. m
    BY <2>2
  <2>4. CaseOps(f) = <<"binop", "lib">> /\ m = 2
    BY <1>9, CaseOpsAre
  <2> QED
    BY <2>3, <2>4
<1> HIDE DEF Op, No
<1> QED
  BY <1>6, <1>7, <1>8, <1>9

LEMMA Pair ==
  ASSUME NEW X, NEW a \in X, NEW b \in X
  PROVE  <<a, b>> \in Seq(X) /\ Len(<<a, b>>) = 2 /\ DOMAIN <<a, b>> = 1 .. 2
OBVIOUS

(* The values a driver may print for an operation.                         *)
LEMMA ValuesAre ==
  ASSUME NEW f \in Fuzzers, NEW n
  PROVE  /\ Values(f, n) \in Seq(Words) /\ Len(Values(f, n)) \in {2, 3}
         /\ OpsOf[f][n].op = "INV" =>
              ToSet(Values(f, n)) = IF f = "pattern" THEN {"len=", "false"}
                                    ELSE {"true", "false"}
         /\ ToSet(Values(f, n)) \subseteq Words
         /\ \A p \in Nat : Values(f, n)[1 + (p % Len(Values(f, n)))] \in ToSet(Values(f, n))
<1> PICK w : w = Values(f, n)
  OBVIOUS
<1>1. CASE w \in {<<"v", "w">>, <<"F+0", "F-0">>, <<"len=", "false">>, <<"true", "false">>}
  <2>w. {"v", "w", "F+0", "F-0", "len=", "true", "false"} \subseteq Words
    BY DEF Words
  <2>a. w = <<"v", "w">> => w \in Seq(Words) /\ Len(w) = 2 /\ DOMAIN w = 1 .. 2
    BY <2>w, Pair
  <2>b. w = <<"F+0", "F-0">> => w \in Seq(Words) /\ Len(w) = 2 /\ DOMAIN w = 1 .. 2
    BY <2>w, Pair
  <2>c. w = <<"len=", "false">> => w \in Seq(Words) /\ Len(w) = 2 /\ DOMAIN w = 1 .. 2
    BY <2>w, Pair
  <2>d. w = <<"true", "false">> => w \in Seq(Words) /\ Len(w) = 2 /\ DOMAIN w = 1 .. 2
    BY <2>w, Pair
  <2>0. w \in Seq(Words) /\ Len(w) = 2 /\ DOMAIN w = 1 .. 2
    BY <1>1, <2>a, <2>b, <2>c, <2>d
  <2>1. w \in Seq(Words) /\ Len(w) = 2 /\ ToSet(w) = {w[1], w[2]}
    BY <2>0 DEF ToSet
  <2>2. \A p \in Nat : w[1 + (p % Len(w))] \in ToSet(w)
    <3>1. \A p \in Nat : p % 2 = 0 \/ p % 2 = 1
      OBVIOUS
    <3> QED
      BY <2>1, <3>1
  <2>3. OpsOf[f][n].op = "INV" =>
              w = IF f = "pattern" THEN <<"len=", "false">> ELSE <<"true", "false">>
    BY DEF Values, InvValues
  <2>4. OpsOf[f][n].op = "INV" =>
              ToSet(w) = IF f = "pattern" THEN {"len=", "false"} ELSE {"true", "false"}
    <3>1. CASE f = "pattern"
      BY <2>1, <2>3, <3>1
    <3>2. CASE f # "pattern"
      BY <2>1, <2>3, <3>2
    <3> QED
      BY <3>1, <3>2
  <2>5. ToSet(w) \subseteq Words
    BY <2>1
  <2> QED
    BY <2>1, <2>2, <2>4, <2>5
<1>2. CASE w = <<"v", "norep", "w">>
  <2>0. w \in Seq(Words) /\ Len(w) = 3 /\ DOMAIN w = 1 .. 3
    BY <1>2 DEF Words
  <2>1. w \in Seq(Words) /\ Len(w) = 3 /\ ToSet(w) = {w[1], w[2], w[3]}
    BY <2>0 DEF ToSet
  <2>2. \A p \in Nat : w[1 + (p % Len(w))] \in ToSet(w)
    <3>1. \A p \in Nat : p % 3 = 0 \/ p % 3 = 1 \/ p % 3 = 2
      OBVIOUS
    <3> QED
      BY <2>1, <3>1
  <2>3. OpsOf[f][n].op # "INV"
    <3>1. OpsOf[f][n].op = "INV" =>
              w = IF f = "pattern" THEN <<"len=", "false">> ELSE <<"true", "false">>
      BY DEF Values, InvValues
    <3>2. OpsOf[f][n].op = "INV" => Len(w) = 2
      BY <3>1
    <3> QED
      BY <2>1, <3>2
  <2> QED
    BY <2>1, <2>2, <2>3
<1> QED
  <2>1. w \in {<<"v", "w">>, <<"F+0", "F-0">>, <<"len=", "false">>, <<"true", "false">>}
        \/ w = <<"v", "norep", "w">>
    BY DEF Values, InvValues, ResultValues
  <2> QED
    BY <1>1, <1>2, <2>1
-----------------------------------------------------------------------------
(* What an interpreter may have printed on a batch.                        *)
PrintsUpTo(f, lines, n) ==
  /\ lines \in Seq(Lines) /\ Len(lines) = n
  /\ \A k \in 1 .. n : \E v \in ToSet(Values(f, k)) : lines[k] = Line(f, k, v)
PrintedOn(f, out) ==
  \/ out.lines = <<>>
  \/ PrintsUpTo(f, out.lines, Len(OpsOf[f]))

PrintStep(u, f, n) == {Append(p[1], Line(f, n, p[2])) :
                         p \in u[n - 1] \X ToSet(Values(f, n))}
Grows(u, f, n) ==
  u = [k \in 0 .. n |-> IF k = 0 THEN {<<>>}
                        ELSE {Append(p[1], Line(f, k, p[2])) :
                                p \in u[k - 1] \X ToSet(Values(f, k))}]

LEMMA GrowsExist ==
  ASSUME NEW f, NEW n \in Nat PROVE \E u : Grows(u, f, n)
<1> DEFINE T == {m \in Nat : \E u : Grows(u, f, m)}
<1>1. 0 \in T
  <2> DEFINE u == [k \in 0 .. 0 |-> {<<>>}]
  <2>1. Grows(u, f, 0)
    BY DEF Grows
  <2> QED
    BY <2>1
<1>2. ASSUME NEW m \in T, m \in Nat PROVE m + 1 \in T
  <2>1. PICK u : Grows(u, f, m)
    BY <1>2
  <2> DEFINE v == [k \in 0 .. (m + 1) |->
                     IF k <= m THEN u[k] ELSE PrintStep(u, f, m + 1)]
  <2>2. ASSUME NEW k \in 0 .. (m + 1)
        PROVE  v[k] = IF k = 0 THEN {<<>>} ELSE PrintStep(v, f, k)
    <3>1. CASE k <= m
      <4>1. v[k] = u[k] /\ k \in 0 .. m /\ (k # 0 => k - 1 \in 0 .. m)
        BY <1>2, <3>1
      <4>2. u[k] = IF k = 0 THEN {<<>>} ELSE PrintStep(u, f, k)
        BY <2>1, <4>1 DEF Grows, PrintStep
      <4>3. k # 0 => v[k - 1] = u[k - 1]
        BY <1>2, <4>1
      <4>4. k # 0 => PrintStep(v, f, k) = PrintStep(u, f, k)
        BY <4>3, Zenon DEF PrintStep
      <4> QED
        BY <4>1, <4>2, <4>4
    <3>2. CASE k = m + 1
      <4>1. k # 0 /\ k - 1 = m /\ v[m] = u[m] /\ v[k] = PrintStep(u, f, m + 1)
        BY <1>2, <3>2
      <4>2. PrintStep(v, f, k) = PrintStep(u, f, m + 1)
        <5>1. (m + 1) - 1 = m
          BY <1>2
        <5> HIDE DEF v
        <5> QED
          BY <3>2, <4>1, <5>1, Zenon DEF PrintStep
      <4> QED
        BY <4>1, <4>2
    <3> QED
      BY <1>2, <3>1, <3>2
  <2>3. Grows(v, f, m + 1)
    <3>1. v = [k \in 0 .. (m + 1) |-> v[k]]
      OBVIOUS
    <3> HIDE DEF v
    <3>2. v = [k \in 0 .. (m + 1) |-> IF k = 0 THEN {<<>>} ELSE PrintStep(v, f, k)]
      BY <2>2, <3>1
    <3> QED
      BY <3>2, Zenon DEF Grows, PrintStep
  <2> QED
    BY <1>2, <2>3
<1>3. Nat \subseteq T
  <2> HIDE DEF T
  <2> QED
    BY <1>1, <1>2, AllNumbers
<1> QED
  BY <1>3

LEMMA LineIs ==
  ASSUME NEW f \in Fuzzers, NEW k \in 1 .. Len(OpsOf[f]), NEW v \in Words
  PROVE  /\ Line(f, k, v) \in Lines /\ Line(f, k, v).val = v
         /\ Line(f, k, v).op = OpsOf[f][k].op /\ Line(f, k, v).id = OpsOf[f][k].id
<1>1. OpsOf[f][k] \in [op : OpNames, id : Nat]
  <2>1. OpsOf[f] \in Seq([op : OpNames, id : Nat])
    BY OpsAre
  <2> QED
    BY <2>1, ElementOf
<1> PICK o : o = OpsOf[f][k]
  OBVIOUS
<1>2. o.op \in OpNames /\ o.id \in Nat
  BY <1>1
<1>3. Line(f, k, v) = [op |-> o.op, id |-> o.id, val |-> v]
  BY DEF Line
<1> QED
  BY <1>2, <1>3 DEF Lines

LEMMA OutputsAre ==
  ASSUME NEW f \in Fuzzers, NEW lines \in OutputsOf[f]
  PROVE  PrintsUpTo(f, lines, Len(OpsOf[f]))
<1> PICK n : n = Len(OpsOf[f])
  OBVIOUS
<1>1. n \in Nat
  BY OpsAre
<1> DEFINE u == CHOOSE u : u = [m \in 0 .. Len(OpsOf[f]) |->
                    IF m = 0 THEN {<<>>}
                    ELSE {Append(p[1], Line(f, m, p[2])) :
                            p \in u[m - 1] \X ToSet(Values(f, m))}]
<1>2. \E w : Grows(w, f, Len(OpsOf[f]))
  BY <1>1, GrowsExist
<1>3. u = [m \in 0 .. Len(OpsOf[f]) |->
                    IF m = 0 THEN {<<>>}
                    ELSE {Append(p[1], Line(f, m, p[2])) :
                            p \in u[m - 1] \X ToSet(Values(f, m))}]
  BY <1>2, Zenon DEF Grows
<1>4. OutputsOf[f] = u[Len(OpsOf[f])]
  BY Zenon DEF OutputsOf
<1> HIDE DEF u
<1>5. u[0] = {<<>>} /\ \A m \in 1 .. n : u[m] = PrintStep(u, f, m)
  <2>1. u[0] = {<<>>}
    BY <1>1, <1>3
  <2>2. ASSUME NEW m \in 1 .. n PROVE u[m] = PrintStep(u, f, m)
    <3>1. m \in 0 .. Len(OpsOf[f]) /\ m # 0
      BY <1>1
    <3> QED
      BY <1>3, <3>1, Zenon DEF PrintStep
  <2> QED
    BY <2>1, <2>2
<1> DEFINE T == {m \in Nat : m <= n => \A q \in u[m] : PrintsUpTo(f, q, m)}
<1>6. 0 \in T
  <2>1. PrintsUpTo(f, <<>>, 0)
    BY DEF PrintsUpTo
  <2> QED
    BY <1>5, <2>1
<1>7. ASSUME NEW m \in T, m \in Nat PROVE m + 1 \in T
  <2> SUFFICES ASSUME m + 1 <= n, NEW q \in u[m + 1] PROVE PrintsUpTo(f, q, m + 1)
    BY <1>7
  <2>1. m <= n /\ m + 1 \in 1 .. n /\ (m + 1) - 1 = m
    BY <1>1, <1>7
  <2>2. q \in PrintStep(u, f, m + 1)
    BY <1>5, <2>1
  <2>3. PICK p \in u[m] \X ToSet(Values(f, m + 1)) : q = Append(p[1], Line(f, m + 1, p[2]))
    BY <2>1, <2>2 DEF PrintStep
  <2>4. PICK r, v : r = p[1] /\ v = p[2]
    OBVIOUS
  <2>5. r \in u[m] /\ v \in ToSet(Values(f, m + 1)) /\ v \in Words
    BY <2>3, <2>4, ValuesAre
  <2>6. PrintsUpTo(f, r, m)
    BY <1>7, <2>1, <2>5
  <2>7. PICK l : l = Line(f, m + 1, v)
    OBVIOUS
  <2>8. l \in Lines
    BY <2>1, <2>5, <2>7, LineIs
  <2>9. q = Append(r, l)
    BY <2>3, <2>4, <2>7
  <2>10. /\ q \in Seq(Lines) /\ Len(q) = m + 1 /\ q[m + 1] = l
         /\ \A k \in 1 .. m : q[k] = r[k]
    BY <1>7, <2>6, <2>8, <2>9 DEF PrintsUpTo
  <2>11. ASSUME NEW k \in 1 .. (m + 1)
         PROVE  \E x \in ToSet(Values(f, k)) : q[k] = Line(f, k, x)
    <3>1. CASE k \in 1 .. m
      BY <2>6, <2>10, <3>1 DEF PrintsUpTo
    <3>2. CASE k = m + 1
      BY <2>5, <2>7, <2>10, <3>2
    <3> QED
      BY <1>7, <3>1, <3>2
  <2> QED
    BY <2>10, <2>11 DEF PrintsUpTo
<1>8. Nat \subseteq T
  <2> HIDE DEF T
  <2> QED
    BY <1>6, <1>7, AllNumbers
<1> QED
  BY <1>1, <1>4, <1>8

(* What the reference prints is of the same form.                          *)
LEMMA ReferenceLines ==
  ASSUME fuzzer \in Fuzzers, NEW p \in ReferencePicks, NEW lines,
         lines = <<>> \o [n \in 1 .. Len(OpsOf[fuzzer]) |-> Line(fuzzer, n, Usual(n, p))]
  PROVE  PrintsUpTo(fuzzer, lines, Len(OpsOf[fuzzer]))
<1> PICK size : size = Len(OpsOf[fuzzer])
  OBVIOUS
<1>1. size \in Nat /\ p \in Nat
  BY OpsAre, CampaignAssumption
<1>2. ASSUME NEW n \in 1 .. size
      PROVE  Usual(n, p) \in ToSet(Values(fuzzer, n)) /\ Line(fuzzer, n, Usual(n, p)) \in Lines
  <2>1. Usual(n, p) = Values(fuzzer, n)[1 + (p % Len(Values(fuzzer, n)))]
    BY DEF Usual
  <2>2. Usual(n, p) \in ToSet(Values(fuzzer, n)) /\ Usual(n, p) \in Words
    BY <1>1, <2>1, ValuesAre
  <2> QED
    BY <2>2, LineIs
<1>3. PICK s : s = [n \in 1 .. size |-> Line(fuzzer, n, Usual(n, p))]
  OBVIOUS
<1>4. s \in Seq(Lines) /\ Len(s) = size
  <2>1. s \in [1 .. size -> Lines]
    BY <1>2, <1>3
  <2> QED
    BY <1>1, <2>1, SequenceOf
<1>5. lines = s
  <2>1. lines = <<>> \o s
    BY <1>3
  <2> QED
    BY <1>4, <2>1
<1>6. \A n \in 1 .. size : s[n] = Line(fuzzer, n, Usual(n, p))
  BY <1>3
<1> QED
  BY <1>2, <1>4, <1>5, <1>6 DEF PrintsUpTo
-----------------------------------------------------------------------------
(* What run_batch makes of two outputs, fuzzer by fuzzer.                  *)
LeadKinds == {"PANIC", "INVARIANT", "DIFF"}
Keys == OpNames \X Nat
AnyLeads == [kind : LeadKinds, key : {<<>>} \union Keys]
Passing(f) == IF f = "pattern" THEN {"true", "len="} ELSE {"true"}
BadOf(f, lines) == IF f = "coercion" THEN <<>> ELSE FailedInv(lines, Passing(f))
DiffsOf(f, g, r) ==
  {k \in Differing(g, r) :
     /\ f \in {"pack", "pattern", "format", "date"} => k[1] # "INV"
     /\ f = "date" => ~Unrepresentable(At(g, k), At(r, k))
     /\ f = "coercion" => ~SignedZero(k, At(g, k), At(r, k))}
LeadsFrom(f, g, r) == Leads(g, r, PanicIn(f, g.err), BadOf(f, g.lines),
                            DiffsOf(f, Index(g.lines), Index(r.lines)))

LEMMA RunBatchIs ==
  ASSUME NEW f \in Fuzzers, NEW g, NEW r, NEW earlier
  PROVE  /\ RunBatch(f, g, r, earlier).leads = LeadsFrom(f, g, r)
         /\ RunBatch(f, g, r, earlier).keeps =
              IF f = "coercion" THEN PanicIn(f, g.err)
              ELSE "PANIC" \in ToSet(LastFour(earlier \o KindsOf(LeadsFrom(f, g, r))))
<1> PICK a, b : a = Index(g.lines) /\ b = Index(r.lines)
  OBVIOUS
<1>1. CASE f = "pack"
  <2>1. DiffsOf(f, a, b) = PackDiffs(a, b)
    BY <1>1 DEF DiffsOf, PackDiffs
  <2>2. BadOf(f, g.lines) = PackInvFailures(g.lines)
    BY <1>1 DEF BadOf, PackInvFailures, Passing
  <2>3. RunBatch(f, g, r, earlier) = PackRunBatch(g, r, earlier)
    BY <1>1 DEF RunBatch
  <2> QED
    BY <1>1, <2>1, <2>2, <2>3 DEF PackRunBatch, PanicAmongLastFour, LeadsFrom
<1>2. CASE f = "pattern"
  <2>1. DiffsOf(f, a, b) = PatternDiffs(a, b)
    BY <1>2 DEF DiffsOf, PatternDiffs
  <2>2. BadOf(f, g.lines) = PatternInvFailures(g.lines)
    BY <1>2 DEF BadOf, PatternInvFailures, Passing
  <2>3. RunBatch(f, g, r, earlier) = PatternRunBatch(g, r, earlier)
    BY <1>2 DEF RunBatch
  <2> QED
    BY <1>2, <2>1, <2>2, <2>3 DEF PatternRunBatch, PanicAmongLastFour, LeadsFrom
<1>3. CASE f = "format"
  <2>1. DiffsOf(f, a, b) = FormatDiffs(a, b)
    BY <1>3 DEF DiffsOf, FormatDiffs
  <2>2. BadOf(f, g.lines) = FormatInvFailures(g.lines)
    BY <1>3 DEF BadOf, FormatInvFailures, Passing
  <2>3. RunBatch(f, g, r, earlier) = FormatRunBatch(g, r, earlier)
    BY <1>3 DEF RunBatch
  <2> QED
    BY <1>3, <2>1, <2>2, <2>3 DEF FormatRunBatch, PanicAmongLastFour, LeadsFrom
<1>4. CASE f = "date"
  <2>1. DiffsOf(f, a, b) = DateDiffs(a, b)
    BY <1>4 DEF DiffsOf, DateDiffs
  <2>2. BadOf(f, g.lines) = DateInvFailures(g.lines)
    BY <1>4 DEF BadOf, DateInvFailures, Passing
  <2>3. RunBatch(f, g, r, earlier) = DateRunBatch(g, r, earlier)
    BY <1>4 DEF RunBatch
  <2> QED
    BY <1>4, <2>1, <2>2, <2>3 DEF DateRunBatch, PanicAmongLastFour, LeadsFrom
<1>5. CASE f = "utf8"
  <2>1. DiffsOf(f, a, b) = Utf8Diffs(a, b)
    BY <1>5 DEF DiffsOf, Utf8Diffs
  <2>2. BadOf(f, g.lines) = Utf8InvFailures(g.lines)
    BY <1>5 DEF BadOf, Utf8InvFailures, Passing
  <2>3. RunBatch(f, g, r, earlier) = Utf8RunBatch(g, r, earlier)
    BY <1>5 DEF RunBatch
  <2> QED
    BY <1>5, <2>1, <2>2, <2>3 DEF Utf8RunBatch, PanicAmongLastFour, LeadsFrom
<1>6. CASE f = "coercion"
  <2>1. DiffsOf(f, a, b) = CoercionDiffs(a, b)
    BY <1>6 DEF DiffsOf, CoercionDiffs
  <2>2. BadOf(f, g.lines) = <<>>
    BY <1>6 DEF BadOf
  <2>3. RunBatch(f, g, r, earlier) = CoercionRunBatch(g, r, earlier)
    BY <1>6 DEF RunBatch
  <2> QED
    BY <1>6, <2>1, <2>2, <2>3 DEF CoercionRunBatch, LeadsFrom
<1> QED
  BY <1>1, <1>2, <1>3, <1>4, <1>5, <1>6 DEF Fuzzers

(* The failed checks are lines of golua that did not pass, all of them.    *)
LEMMA FailuresAre ==
  ASSUME NEW f, NEW lines \in Seq(Lines)
  PROVE  /\ BadOf(f, lines) \in Seq(Lines)
         /\ \A j \in 1 .. Len(BadOf(f, lines)) : \E n \in 1 .. Len(lines) :
              /\ BadOf(f, lines)[j] = lines[n]
              /\ lines[n].op = "INV" /\ lines[n].val \notin Passing(f)
         /\ BadOf(f, lines) = <<>> /\ f # "coercion" =>
              \A n \in 1 .. Len(lines) : lines[n].op = "INV" => lines[n].val \in Passing(f)
<1>1. CASE f = "coercion"
  BY <1>1 DEF BadOf
<1>2. CASE f # "coercion"
  <2>1. PICK asked : asked = [n \in 1 .. Len(lines) |->
                                lines[n].op = "INV" /\ lines[n].val \notin Passing(f)]
    OBVIOUS
  <2>2. BadOf(f, lines) = Chosen(lines, asked)
    BY <1>2, <2>1 DEF BadOf, FailedInv
  <2>3. \A n \in 1 .. Len(lines) : asked[n] \in BOOLEAN
    BY <2>1
  <2>4. /\ Chosen(lines, asked) \in Seq(Lines)
        /\ TakenUpTo(Chosen(lines, asked), lines, asked, Len(lines))
    BY <2>3, ChosenTakes
  <2>5. \A n \in 1 .. Len(lines) :
           asked[n] <=> lines[n].op = "INV" /\ lines[n].val \notin Passing(f)
    BY <2>1
  <2> PICK q : q = Chosen(lines, asked)
    OBVIOUS
  <2>6. q \in Seq(Lines) /\ TakenUpTo(q, lines, asked, Len(lines))
    BY <2>4
  <2>7. \A j \in 1 .. Len(q) : \E n \in 1 .. Len(lines) :
           q[j] = lines[n] /\ lines[n].op = "INV" /\ lines[n].val \notin Passing(f)
    BY <2>5, <2>6, Zenon DEF TakenUpTo
  <2>8. q = <<>> => \A n \in 1 .. Len(lines) : lines[n].op = "INV" => lines[n].val \in Passing(f)
    BY <2>5, <2>6, Zenon DEF TakenUpTo
  <2>9. PICK b : b = BadOf(f, lines)
    OBVIOUS
  <2>10. b = q
    BY <2>2, <2>9
  <2> QED
    BY <2>6, <2>7, <2>8, <2>9, <2>10
<1> QED
  BY <1>1, <1>2

LEMMA LineKey ==
  ASSUME NEW l \in Lines
  PROVE  /\ KeyOf(l) \in Keys /\ KeyOf(l)[1] = l.op
         /\ l.op \in OpNames /\ l.id \in Nat /\ l.val \in Words
<1>1. l.op \in OpNames /\ l.id \in Nat /\ l.val \in Words
  BY DEF Lines
<1> QED
  BY <1>1 DEF KeyOf, Keys

LEMMA LeadsOnAre ==
  ASSUME NEW kind \in LeadKinds, NEW lines \in Seq(Lines)
  PROVE  /\ LeadsOn(kind, lines) \in Seq(AnyLeads) /\ Len(LeadsOn(kind, lines)) = Len(lines)
         /\ \A n \in 1 .. Len(lines) :
              /\ LeadsOn(kind, lines)[n].kind = kind
              /\ LeadsOn(kind, lines)[n].key = KeyOf(lines[n])
<1>1. PICK s : s = LeadsOn(kind, lines)
  OBVIOUS
<1>2. s = [n \in 1 .. Len(lines) |-> Lead(kind, KeyOf(lines[n]))]
  BY <1>1 DEF LeadsOn
<1>3. \A n \in 1 .. Len(lines) : KeyOf(lines[n]) \in Keys
  BY ElementOf, LineKey
<1>4. ASSUME NEW n \in 1 .. Len(lines)
      PROVE  s[n] \in AnyLeads /\ s[n].kind = kind /\ s[n].key = KeyOf(lines[n])
  BY <1>2, <1>3 DEF Lead, AnyLeads
<1>5. s \in [1 .. Len(lines) -> AnyLeads]
  BY <1>2, <1>4
<1> QED
  BY <1>1, <1>4, <1>5, SequenceOf

(* Of all that differs, the first line of its key makes a lead.            *)
LEMMA DiffLeadsAre ==
  ASSUME NEW lines \in Seq(Lines), NEW diffs, NEW q,
         q = Chosen(LeadsOn("DIFF", lines), OncePer(diffs, lines))
  PROVE  /\ q \in Seq(AnyLeads)
         /\ \A j \in 1 .. Len(q) : q[j].kind = "DIFF" /\ q[j].key \in diffs
         /\ q = <<>> => \A n \in 1 .. Len(lines) : KeyOf(lines[n]) \notin diffs
<1>1. PICK s : s = LeadsOn("DIFF", lines)
  OBVIOUS
<1>2. PICK asked : asked = OncePer(diffs, lines)
  OBVIOUS
<1>3. /\ s \in Seq(AnyLeads) /\ Len(s) = Len(lines)
      /\ \A n \in 1 .. Len(lines) : s[n].kind = "DIFF" /\ s[n].key = KeyOf(lines[n])
  BY <1>1, LeadsOnAre DEF LeadKinds
<1>4. \A n \in 1 .. Len(lines) :
         /\ asked[n] \in BOOLEAN
         /\ asked[n] <=> /\ \A m \in 1 .. n - 1 : KeyOf(lines[m]) # KeyOf(lines[n])
                         /\ KeyOf(lines[n]) \in diffs
  BY <1>2 DEF OncePer
<1>5. q \in Seq(AnyLeads) /\ TakenUpTo(q, s, asked, Len(s))
  BY <1>1, <1>2, <1>3, <1>4, ChosenTakes
<1>6. \A j \in 1 .. Len(q) : q[j].kind = "DIFF" /\ q[j].key \in diffs
  BY <1>3, <1>4, <1>5 DEF TakenUpTo
<1>7. ASSUME q = <<>>, NEW n \in 1 .. Len(lines), KeyOf(lines[n]) \in diffs PROVE FALSE
  <2> DEFINE T == {m \in Nat : m \in 1 .. Len(lines) /\ KeyOf(lines[m]) = KeyOf(lines[n])}
  <2>1. n \in T
    OBVIOUS
  <2>2. PICK m \in T : \A i \in T : m <= i
    <3> HIDE DEF T
    <3>1. T \in SUBSET Nat
      BY DEF T
    <3> QED
      BY <2>1, <3>1, LeastNumber
  <2>3. m \in 1 .. Len(lines) /\ KeyOf(lines[m]) = KeyOf(lines[n])
    BY <2>2
  <2>4. \A i \in 1 .. m - 1 : KeyOf(lines[i]) # KeyOf(lines[m])
    BY <2>2, <2>3
  <2>5. asked[m]
    BY <1>4, <1>7, <2>3, <2>4
  <2>6. ~asked[m]
    BY <1>3, <1>5, <1>7, <2>3 DEF TakenUpTo
  <2> QED
    BY <2>5, <2>6
<1> QED
  BY <1>5, <1>6, <1>7
AreJoined(a, b, c, X) ==
  /\ c \in Seq(X) /\ Len(c) = Len(a) + Len(b) /\ Len(a) \in Nat /\ Len(b) \in Nat
  /\ \A i \in 1 .. Len(a) : i \in 1 .. Len(c) /\ c[i] = a[i]
  /\ \A i \in 1 .. Len(b) : Len(a) + i \in 1 .. Len(c) /\ c[Len(a) + i] = b[i]
  /\ \A i \in 1 .. Len(c) :
       i \in 1 .. Len(a) \/ \E j \in 1 .. Len(b) : i = Len(a) + j
  /\ c = <<>> => a = <<>> /\ b = <<>>

LEMMA Joined ==
  ASSUME NEW X, NEW a \in Seq(X), NEW b \in Seq(X), NEW c, c = a \o b
  PROVE  AreJoined(a, b, c, X)
<1>1. /\ c \in Seq(X) /\ Len(c) = Len(a) + Len(b) /\ Len(a) \in Nat /\ Len(b) \in Nat
      /\ \A i \in 1 .. Len(a) : c[i] = a[i]
      /\ \A i \in 1 .. Len(b) : c[Len(a) + i] = b[i]
  OBVIOUS
<1>2. \A i \in 1 .. Len(a) : i \in 1 .. Len(c)
  BY <1>1
<1>3. \A i \in 1 .. Len(b) : Len(a) + i \in 1 .. Len(c)
  BY <1>1
<1>4. ASSUME NEW i \in 1 .. Len(c), i \notin 1 .. Len(a) PROVE \E j \in 1 .. Len(b) : i = Len(a) + j
  <2>1. i - Len(a) \in 1 .. Len(b) /\ i = Len(a) + (i - Len(a))
    BY <1>1, <1>4
  <2> QED
    BY <2>1
<1>5. c = <<>> => a = <<>> /\ b = <<>>
  <2>1. c = <<>> => Len(c) = 0
    OBVIOUS
  <2>2. c = <<>> => Len(a) = 0 /\ Len(b) = 0
    BY <1>1, <2>1
  <2> QED
    BY <2>2
<1> QED
  BY <1>1, <1>2, <1>3, <1>4, <1>5 DEF AreJoined

LEMMA NothingLong ==
  ASSUME NEW X, NEW s \in Seq(X), Len(s) = 0 PROVE s = <<>>
OBVIOUS

(* The leads of a batch: the panic first, then the checks that failed, then *)
(* the differences; none only when there is nothing of either.             *)
LeadsSay(L, g, r, panicked, bad, diffs) ==
  /\ L \in Seq(AnyLeads)
  /\ \A i \in 1 .. Len(L) :
       /\ L[i].kind = "PANIC" => i = 1 /\ panicked
       /\ L[i].kind = "INVARIANT" => \E j \in 1 .. Len(bad) : L[i].key = KeyOf(bad[j])
       /\ L[i].kind = "DIFF" => L[i].key \in diffs
  /\ panicked => Len(L) >= 1 /\ L[1].kind = "PANIC"
  /\ L = <<>> => /\ ~panicked /\ bad = <<>>
                 /\ \A n \in 1 .. Len(g) : KeyOf(g[n]) \notin diffs
                 /\ \A n \in 1 .. Len(r) : KeyOf(r[n]) \notin diffs

LEMMA LeadsAre ==
  ASSUME NEW g, NEW r, g.lines \in Seq(Lines), r.lines \in Seq(Lines),
         NEW panicked \in BOOLEAN, NEW bad \in Seq(Lines), NEW diffs
  PROVE  LeadsSay(Leads(g, r, panicked, bad, diffs), g.lines, r.lines, panicked, bad, diffs)
<1>1. PICK p : p = IF panicked THEN <<Lead("PANIC", <<>>)>> ELSE <<>>
  OBVIOUS
<1>2. PICK b : b = LeadsOn("INVARIANT", bad)
  OBVIOUS
<1>3. PICK all : all = g.lines \o r.lines
  OBVIOUS
<1>4. PICK d : d = Chosen(LeadsOn("DIFF", all), OncePer(diffs, all))
  OBVIOUS
<1>5. PICK L : L = (p \o b) \o d
  OBVIOUS
<1>6. Leads(g, r, panicked, bad, diffs) = L
  BY <1>1, <1>2, <1>3, <1>4, <1>5 DEF Leads
<1>7. /\ p \in Seq(AnyLeads) /\ Len(p) = IF panicked THEN 1 ELSE 0
      /\ panicked => p[1].kind = "PANIC"
  <2>1. PICK l : l = Lead("PANIC", <<>>)
    OBVIOUS
  <2>2. l \in AnyLeads /\ l.kind = "PANIC"
    BY <2>1 DEF Lead, AnyLeads, LeadKinds
  <2>3. p = IF panicked THEN <<l>> ELSE <<>>
    BY <1>1, <2>1
  <2> QED
    BY <2>2, <2>3
<1>8. /\ b \in Seq(AnyLeads) /\ Len(b) = Len(bad)
      /\ \A n \in 1 .. Len(b) : b[n].kind = "INVARIANT" /\ b[n].key = KeyOf(bad[n])
  BY <1>2, LeadsOnAre DEF LeadKinds
<1>9. /\ all \in Seq(Lines) /\ \A n \in 1 .. Len(g.lines) : n \in 1 .. Len(all) /\ all[n] = g.lines[n]
      /\ \A n \in 1 .. Len(r.lines) :
           Len(g.lines) + n \in 1 .. Len(all) /\ all[Len(g.lines) + n] = r.lines[n]
  <2>1. PICK x \in Seq(Lines) : x = g.lines
    OBVIOUS
  <2>2. PICK y \in Seq(Lines) : y = r.lines
    OBVIOUS
  <2>3. all = x \o y
    BY <1>3, <2>1, <2>2
  <2>4. /\ all \in Seq(Lines)
        /\ \A i \in 1 .. Len(x) : i \in 1 .. Len(all) /\ all[i] = x[i]
        /\ \A i \in 1 .. Len(y) : Len(x) + i \in 1 .. Len(all) /\ all[Len(x) + i] = y[i]
    BY <2>3, Joined DEF AreJoined
  <2> QED
    BY <2>1, <2>2, <2>4
<1>10. /\ d \in Seq(AnyLeads)
       /\ \A j \in 1 .. Len(d) : d[j].kind = "DIFF" /\ d[j].key \in diffs
       /\ d = <<>> => \A n \in 1 .. Len(all) : KeyOf(all[n]) \notin diffs
  BY <1>4, <1>9, DiffLeadsAre
<1>11. PICK c : c = p \o b
  OBVIOUS
<1>12. AreJoined(p, b, c, AnyLeads)
  BY <1>7, <1>8, <1>11, Joined
<1>13. AreJoined(c, d, L, AnyLeads)
  <2>1. c \in Seq(AnyLeads) /\ L = c \o d
    BY <1>5, <1>11, <1>12, Zenon DEF AreJoined
  <2> QED
    BY <1>10, <2>1, Joined
<1>14. Len(p) \in Nat /\ Len(b) \in Nat /\ Len(d) \in Nat
  BY <1>7, <1>8, <1>10
<1>15. ASSUME NEW i \in 1 .. Len(L)
       PROVE  /\ L[i].kind = "PANIC" => i = 1 /\ panicked
              /\ L[i].kind = "INVARIANT" => \E j \in 1 .. Len(bad) : L[i].key = KeyOf(bad[j])
              /\ L[i].kind = "DIFF" => L[i].key \in diffs
  <2>1. CASE i \in 1 .. Len(p)
    <3>1. panicked /\ i = 1
      BY <1>7, <2>1
    <3>2. i \in 1 .. Len(c)
      BY <1>12, <1>14, <2>1 DEF AreJoined
    <3>3. L[i] = p[1]
      BY <1>12, <1>13, <2>1, <3>1, <3>2 DEF AreJoined
    <3> QED
      BY <1>7, <3>1, <3>3
  <2>2. ASSUME NEW j \in 1 .. Len(b), i = Len(p) + j
        PROVE  L[i].kind = "INVARIANT" /\ L[i].key = KeyOf(bad[j])
    <3>1. i \in 1 .. Len(c)
      BY <1>12, <1>14, <2>2 DEF AreJoined
    <3>2. L[i] = b[j]
      BY <1>12, <1>13, <2>2, <3>1 DEF AreJoined
    <3> QED
      BY <1>8, <3>2
  <2>3. ASSUME NEW j \in 1 .. Len(d), i = Len(c) + j
        PROVE  L[i].kind = "DIFF" /\ L[i].key \in diffs
    <3>1. L[i] = d[j]
      BY <1>13, <2>3 DEF AreJoined
    <3> QED
      BY <1>10, <3>1
  <2>4. CASE i \in 1 .. Len(c)
    <3>1. i \in 1 .. Len(p) \/ \E j \in 1 .. Len(b) : i = Len(p) + j
      BY <1>12, <2>4 DEF AreJoined
    <3>2. CASE i \notin 1 .. Len(p)
      <4>1. PICK j \in 1 .. Len(b) : i = Len(p) + j
        BY <3>1, <3>2
      <4>2. L[i].kind = "INVARIANT" /\ L[i].key = KeyOf(bad[j])
        BY <2>2, <4>1
      <4>3. j \in 1 .. Len(bad)
        BY <1>8
      <4> QED
        BY <4>2, <4>3
    <3> QED
      BY <2>1, <3>2
  <2>5. CASE i \notin 1 .. Len(c)
    <3>1. PICK j \in 1 .. Len(d) : i = Len(c) + j
      BY <1>13, <2>5 DEF AreJoined
    <3> QED
      BY <2>3, <3>1
  <2> QED
    BY <2>4, <2>5
<1>16. ASSUME panicked PROVE Len(L) >= 1 /\ L[1].kind = "PANIC"
  <2>1. Len(p) = 1 /\ p[1].kind = "PANIC"
    BY <1>7, <1>16
  <2>2. Len(L) >= 1 /\ 1 \in 1 .. Len(c) /\ 1 \in 1 .. Len(p)
    BY <1>12, <1>13, <1>14, <2>1 DEF AreJoined
  <2>3. L[1] = p[1]
    BY <1>12, <1>13, <2>2 DEF AreJoined
  <2> QED
    BY <2>1, <2>2, <2>3
<1>17. ASSUME L = <<>>
       PROVE  /\ ~panicked /\ bad = <<>>
              /\ \A n \in 1 .. Len(g.lines) : KeyOf(g.lines[n]) \notin diffs
              /\ \A n \in 1 .. Len(r.lines) : KeyOf(r.lines[n]) \notin diffs
  <2>1. p = <<>> /\ b = <<>> /\ d = <<>>
    BY <1>12, <1>13, <1>17 DEF AreJoined
  <2>2. ~panicked
    BY <1>7, <2>1
  <2>3. Len(b) = 0
    BY <2>1
  <2>4. bad = <<>>
    BY <1>8, <2>3, NothingLong
  <2>5. \A n \in 1 .. Len(all) : KeyOf(all[n]) \notin diffs
    BY <1>10, <2>1
  <2>6. ASSUME NEW n \in 1 .. Len(g.lines) PROVE KeyOf(g.lines[n]) \notin diffs
    <3>1. n \in 1 .. Len(all) /\ all[n] = g.lines[n]
      BY <1>9
    <3> QED
      BY <2>5, <3>1
  <2>7. ASSUME NEW n \in 1 .. Len(r.lines) PROVE KeyOf(r.lines[n]) \notin diffs
    <3>0. Len(g.lines) + n \in 1 .. Len(all) /\ all[Len(g.lines) + n] = r.lines[n]
      BY <1>9, Zenon
    <3>1. PICK m \in 1 .. Len(all) : all[m] = r.lines[n]
      BY <3>0, Zenon
    <3> QED
      BY <2>5, <3>1
  <2> QED
    BY <2>2, <2>4, <2>6, <2>7
<1>18. LeadsSay(L, g.lines, r.lines, panicked, bad, diffs)
  BY <1>13, <1>15, <1>16, <1>17 DEF LeadsSay, AreJoined
<1> QED
  BY <1>6, <1>18
-----------------------------------------------------------------------------
(* The index of an output holds the last line of each key.                 *)
LEMMA GreatestNumber ==
  ASSUME NEW m \in Nat, NEW S \in SUBSET (1 .. m), S # {}
  PROVE  Max(S) \in S /\ \A i \in S : i <= Max(S)
<1> DEFINE T == {j \in Nat : \E i \in S : j = m - i}
<1>1. PICK i \in S : TRUE
  OBVIOUS
<1>2. m - i \in T
  BY <1>1
<1>3. T \in SUBSET Nat
  OBVIOUS
<1>4. PICK j \in T : \A k \in T : j <= k
  <2> HIDE DEF T
  <2> QED
    BY <1>2, <1>3, LeastNumber
<1>5. PICK x \in S : j = m - x
  BY <1>4
<1>6. ASSUME NEW y \in S PROVE x >= y
  <2>1. m - y \in T
    OBVIOUS
  <2>2. j <= m - y
    <3> HIDE DEF T
    <3> QED
      BY <1>4, <2>1
  <2> QED
    BY <1>5, <2>2
<1>7. Max(S) \in S /\ \A y \in S : Max(S) >= y
  BY <1>6, Zenon DEF Max
<1> QED
  BY <1>7

LEMMA IndexIs ==
  ASSUME NEW lines \in Seq(Lines), NEW k
  PROVE  /\ k \in DOMAIN Index(lines) <=> \E n \in 1 .. Len(lines) : KeyOf(lines[n]) = k
         /\ k \in DOMAIN Index(lines) => \E n \in 1 .. Len(lines) :
              /\ KeyOf(lines[n]) = k /\ At(Index(lines), k) = lines[n].val
              /\ \A j \in n + 1 .. Len(lines) : KeyOf(lines[j]) # k
<1> PICK x : x = Index(lines)
  OBVIOUS
<1>1. x = [h \in {KeyOf(l) : l \in ToSet(lines)} |->
             lines[Max({i \in 1 .. Len(lines) : KeyOf(lines[i]) = h})].val]
  BY DEF Index
<1>2. DOMAIN x = {KeyOf(l) : l \in ToSet(lines)}
  BY <1>1
<1>3. ToSet(lines) = {lines[n] : n \in 1 .. Len(lines)}
  BY DEF ToSet
<1>4. k \in DOMAIN x <=> \E n \in 1 .. Len(lines) : KeyOf(lines[n]) = k
  BY <1>2, <1>3
<1>5. ASSUME k \in DOMAIN x
      PROVE  \E n \in 1 .. Len(lines) :
               /\ KeyOf(lines[n]) = k /\ At(x, k) = lines[n].val
               /\ \A j \in n + 1 .. Len(lines) : KeyOf(lines[j]) # k
  <2>1. PICK S : S = {i \in 1 .. Len(lines) : KeyOf(lines[i]) = k}
    OBVIOUS
  <2>2. S \in SUBSET (1 .. Len(lines)) /\ S # {} /\ Len(lines) \in Nat
    BY <1>4, <1>5, <2>1
  <2>3. Max(S) \in S /\ \A i \in S : i <= Max(S)
    BY <2>2, GreatestNumber
  <2>4. x[k] = lines[Max(S)].val
    BY <1>1, <1>2, <1>5, <2>1, Zenon
  <2>5. At(x, k) = x[k]
    BY <1>5 DEF At
  <2>6. PICK n : n = Max(S)
    OBVIOUS
  <2>7. n \in 1 .. Len(lines) /\ KeyOf(lines[n]) = k
    BY <2>1, <2>3, <2>6
  <2>8. ASSUME NEW j \in n + 1 .. Len(lines) PROVE KeyOf(lines[j]) # k
    <3>1. j \in 1 .. Len(lines) /\ ~(j <= n)
      BY <2>2, <2>7
    <3>2. j \notin S
      BY <2>3, <2>6, <3>1
    <3> QED
      BY <2>1, <3>1, <3>2
  <2> QED
    BY <2>4, <2>5, <2>6, <2>7, <2>8
<1> QED
  BY <1>4, <1>5

(* An output holds every operation but the checks once, so for those the   *)
(* index holds what was printed.                                           *)
LEMMA PrintedOnce ==
  ASSUME NEW f \in Fuzzers, NEW out, PrintedOn(f, out)
  PROVE  /\ out.lines \in Seq(Lines)
         /\ \A n, k \in 1 .. Len(out.lines) :
              KeyOf(out.lines[n]) = KeyOf(out.lines[k]) /\ out.lines[n].op # "INV" => n = k
         /\ \A n \in 1 .. Len(out.lines) :
              /\ out.lines[n].op = "INV" =>
                   out.lines[n].val \in IF f = "pattern" THEN {"len=", "false"}
                                        ELSE {"true", "false"}
<1> PICK lines : lines = out.lines
  OBVIOUS
<1>1. CASE lines = <<>>
  BY <1>1
<1>2. CASE PrintsUpTo(f, lines, Len(OpsOf[f]))
  <2>1. lines \in Seq(Lines) /\ Len(lines) = Len(OpsOf[f])
    BY <1>2 DEF PrintsUpTo
  <2>2. ASSUME NEW n \in 1 .. Len(lines)
        PROVE  /\ lines[n].op = OpsOf[f][n].op /\ lines[n].id = OpsOf[f][n].id
               /\ lines[n].val \in ToSet(Values(f, n))
    <3>1. PICK v \in ToSet(Values(f, n)) : lines[n] = Line(f, n, v)
      BY <1>2, <2>1 DEF PrintsUpTo
    <3>2. v \in Words
      BY ValuesAre
    <3> QED
      BY <2>1, <3>1, <3>2, LineIs
  <2>3. ASSUME NEW n \in 1 .. Len(lines), NEW k \in 1 .. Len(lines),
               KeyOf(lines[n]) = KeyOf(lines[k]), lines[n].op # "INV"
        PROVE  n = k
    <3>1. lines[n].op = lines[k].op /\ lines[n].id = lines[k].id
      BY <2>3 DEF KeyOf
    <3>2. OpsOf[f][n].op = OpsOf[f][k].op /\ OpsOf[f][n].id = OpsOf[f][k].id
          /\ OpsOf[f][n].op # "INV"
      BY <2>2, <2>3, <3>1
    <3>3. OpsOf[f] \in Seq([op : OpNames, id : Nat])
      BY OpsAre
    <3>4. OpsOf[f][n] \in [op : OpNames, id : Nat] /\ OpsOf[f][k] \in [op : OpNames, id : Nat]
      BY <2>1, <3>3, ElementOf
    <3>5. OpsOf[f][n] = OpsOf[f][k]
      BY <3>2, <3>4
    <3> QED
      BY <2>1, <3>2, <3>5, OpsAre
  <2>4. ASSUME NEW n \in 1 .. Len(lines), lines[n].op = "INV"
        PROVE  lines[n].val \in IF f = "pattern" THEN {"len=", "false"} ELSE {"true", "false"}
    <3>1. OpsOf[f][n].op = "INV" /\ lines[n].val \in ToSet(Values(f, n))
      BY <2>2, <2>4
    <3> QED
      BY <3>1, ValuesAre
  <2> QED
    BY <2>1, <2>3, <2>4
<1> QED
  BY <1>1, <1>2 DEF PrintedOn

LEMMA AtIs ==
  ASSUME NEW f \in Fuzzers, NEW out, PrintedOn(f, out), NEW k, k[1] # "INV"
  PROVE  \/ /\ At(Index(out.lines), k) = Missing /\ k \notin DOMAIN Index(out.lines)
            /\ ~\E m \in Results(out) : KeyOf(m) = k
         \/ /\ k \in DOMAIN Index(out.lines)
            /\ \E m \in Results(out) : KeyOf(m) = k /\ At(Index(out.lines), k) = m.val
<1> PICK lines : lines = out.lines
  OBVIOUS
<1>1. lines \in Seq(Lines)
  BY PrintedOnce
<1>2. Results(out) = {l \in ToSet(lines) : l.op # "INV"} /\ ToSet(lines) = {lines[n] : n \in 1 .. Len(lines)}
  BY <1>1 DEF Results, ToSet
<1>3. CASE k \in DOMAIN Index(lines)
  <2>1. PICK n \in 1 .. Len(lines) : KeyOf(lines[n]) = k /\ At(Index(lines), k) = lines[n].val
    BY <1>1, <1>3, IndexIs
  <2>2. lines[n].op # "INV"
    BY <2>1 DEF KeyOf
  <2>3. lines[n] \in Results(out)
    BY <1>2, <2>2
  <2> QED
    BY <1>3, <2>1, <2>3
<1>4. CASE k \notin DOMAIN Index(lines)
  <2>1. ~\E n \in 1 .. Len(lines) : KeyOf(lines[n]) = k
    BY <1>1, <1>4, IndexIs
  <2> QED
    BY <1>2, <1>4, <2>1 DEF At
<1> QED
  BY <1>3, <1>4

LEMMA AtResult ==
  ASSUME NEW f \in Fuzzers, NEW out, PrintedOn(f, out), NEW l \in Results(out)
  PROVE  /\ KeyOf(l) \in DOMAIN Index(out.lines) /\ At(Index(out.lines), KeyOf(l)) = l.val
         /\ KeyOf(l)[1] # "INV" /\ KeyOf(l)[1] = l.op /\ l \in Lines
         /\ \E n \in 1 .. Len(out.lines) : l = out.lines[n]
<1> PICK lines : lines = out.lines
  OBVIOUS
<1>1. /\ lines \in Seq(Lines)
      /\ \A n, k \in 1 .. Len(lines) :
           KeyOf(lines[n]) = KeyOf(lines[k]) /\ lines[n].op # "INV" => n = k
  BY PrintedOnce
<1>2. PICK n \in 1 .. Len(lines) : l = lines[n] /\ l.op # "INV"
  BY <1>1 DEF Results, ToSet
<1>3. l \in Lines /\ KeyOf(l)[1] = l.op
  BY <1>1, <1>2, ElementOf, LineKey
<1>4. KeyOf(l) \in DOMAIN Index(lines)
  BY <1>1, <1>2, IndexIs
<1>5. PICK j \in 1 .. Len(lines) :
         KeyOf(lines[j]) = KeyOf(l) /\ At(Index(lines), KeyOf(l)) = lines[j].val
  BY <1>1, <1>4, IndexIs
<1>6. n = j
  BY <1>1, <1>2, <1>5
<1> QED
  BY <1>2, <1>3, <1>4, <1>5, <1>6
LEMMA SameLine ==
  ASSUME NEW l \in Lines, NEW m \in Lines, KeyOf(l) = KeyOf(m), l.val = m.val PROVE l = m
<1>1. l.op = m.op /\ l.id = m.id
  BY DEF KeyOf
<1> QED
  BY <1>1 DEF Lines

(* A line whose key makes no lead is printed by the other interpreter too,  *)
(* or the difference is one the fuzzer excuses.                            *)
LEMMA Undiffering ==
  ASSUME fuzzer \in Fuzzers, NEW k, k[1] # "INV", NEW g, NEW r,
         k \in DOMAIN g \union DOMAIN r, k \notin DiffsOf(fuzzer, g, r)
  PROVE  \/ At(g, k) = At(r, k)
         \/ fuzzer = "date" /\ ((At(g, k) = "norep") # (At(r, k) = "norep"))
         \/ fuzzer = "coercion" /\ k[1] = "binop" /\ At(g, k) = "F-0" /\ At(r, k) = "F+0"
BY DEF DiffsOf, Differing, Unrepresentable, SignedZero

LEMMA GoluaMatched ==
  ASSUME fuzzer \in Fuzzers, PrintedOn(fuzzer, gout), PrintedOn(fuzzer, rout),
         NEW l \in Results(gout),
         KeyOf(l) \notin DiffsOf(fuzzer, Index(gout.lines), Index(rout.lines))
  PROVE  Matched(l, rout, Excuse)
<1> PICK k : k = KeyOf(l)
  OBVIOUS
<1> PICK g, r : g = Index(gout.lines) /\ r = Index(rout.lines)
  OBVIOUS
<1>1. k \in DOMAIN g /\ At(g, k) = l.val /\ k[1] # "INV" /\ k[1] = l.op /\ l \in Lines
  BY AtResult
<1>2. \/ At(r, k) = Missing /\ ~\E m \in Results(rout) : KeyOf(m) = k
      \/ \E m \in Results(rout) : KeyOf(m) = k /\ At(r, k) = m.val
  BY <1>1, AtIs
<1>3. \/ At(g, k) = At(r, k)
      \/ fuzzer = "date" /\ ((At(g, k) = "norep") # (At(r, k) = "norep"))
      \/ fuzzer = "coercion" /\ k[1] = "binop" /\ At(g, k) = "F-0" /\ At(r, k) = "F+0"
  BY <1>1, Undiffering
<1>4. l.val \in Words /\ Missing \notin Words
  BY <1>1 DEF Lines, Words, Missing
<1>5. CASE \E m \in Results(rout) : KeyOf(m) = k /\ At(r, k) = m.val
  <2>1. PICK m \in Results(rout) : KeyOf(m) = k /\ At(r, k) = m.val
    BY <1>5
  <2>2. m \in Lines
    BY AtResult
  <2>3. CASE l.val = m.val
    <3>1. l = m
      BY <1>1, <2>1, <2>2, <2>3, SameLine
    <3> QED
      BY <2>1, <3>1 DEF Matched
  <2>4. CASE l.val # m.val
    <3>1. Excuse(l, m)
      BY <1>1, <1>3, <2>1, <2>4 DEF Excuse
    <3> QED
      BY <2>1, <3>1 DEF Matched
  <2> QED
    BY <2>3, <2>4
<1>6. CASE At(r, k) = Missing /\ ~\E m \in Results(rout) : KeyOf(m) = k
  <2>1. fuzzer = "date" /\ l.val = "norep"
    BY <1>1, <1>3, <1>4, <1>6 DEF Missing
  <2>2. Silent(l, rout)
    BY <1>6 DEF Silent
  <2> QED
    BY <2>1, <2>2 DEF Matched
<1> QED
  BY <1>2, <1>5, <1>6

LEMMA ReferenceMatched ==
  ASSUME fuzzer \in Fuzzers, PrintedOn(fuzzer, gout), PrintedOn(fuzzer, rout),
         NEW l \in Results(rout),
         KeyOf(l) \notin DiffsOf(fuzzer, Index(gout.lines), Index(rout.lines))
  PROVE  Matched(l, gout, LAMBDA a, b : Excuse(b, a))
<1> PICK k : k = KeyOf(l)
  OBVIOUS
<1> PICK g, r : g = Index(gout.lines) /\ r = Index(rout.lines)
  OBVIOUS
<1>1. k \in DOMAIN r /\ At(r, k) = l.val /\ k[1] # "INV" /\ k[1] = l.op /\ l \in Lines
  BY AtResult
<1>2. \/ At(g, k) = Missing /\ ~\E m \in Results(gout) : KeyOf(m) = k
      \/ \E m \in Results(gout) : KeyOf(m) = k /\ At(g, k) = m.val
  BY <1>1, AtIs
<1>3. \/ At(g, k) = At(r, k)
      \/ fuzzer = "date" /\ ((At(g, k) = "norep") # (At(r, k) = "norep"))
      \/ fuzzer = "coercion" /\ k[1] = "binop" /\ At(g, k) = "F-0" /\ At(r, k) = "F+0"
  BY <1>1, Undiffering
<1>4. l.val \in Words /\ Missing \notin Words
  BY <1>1 DEF Lines, Words, Missing
<1>5. CASE \E m \in Results(gout) : KeyOf(m) = k /\ At(g, k) = m.val
  <2>1. PICK m \in Results(gout) : KeyOf(m) = k /\ At(g, k) = m.val
    BY <1>5
  <2>2. m \in Lines /\ KeyOf(m)[1] = m.op
    BY AtResult
  <2>3. CASE l.val = m.val
    <3>1. l = m
      BY <1>1, <2>1, <2>2, <2>3, SameLine
    <3> QED
      BY <2>1, <3>1 DEF Matched
  <2>4. CASE l.val # m.val
    <3>1. Excuse(m, l)
      BY <1>1, <1>3, <2>1, <2>2, <2>4 DEF Excuse
    <3> QED
      BY <2>1, <3>1 DEF Matched
  <2> QED
    BY <2>3, <2>4
<1>6. CASE At(g, k) = Missing /\ ~\E m \in Results(gout) : KeyOf(m) = k
  <2>1. fuzzer = "date" /\ l.val = "norep"
    BY <1>1, <1>3, <1>4, <1>6 DEF Missing
  <2>2. Silent(l, gout)
    BY <1>6 DEF Silent
  <2> QED
    BY <2>1, <2>2 DEF Matched
<1> QED
  BY <1>2, <1>5, <1>6

LEMMA PassingFails ==
  ASSUME NEW f, NEW v
  PROVE  /\ v \in Passing(f) => v # "false"
         /\ v \in (IF f = "pattern" THEN {"len=", "false"} ELSE {"true", "false"})
            /\ v \notin Passing(f) => v = "false"
BY DEF Passing

LEMMA NoChecks ==
  ASSUME NEW out, PrintedOn("coercion", out), NEW n \in 1 .. Len(out.lines)
  PROVE  out.lines[n].op # "INV"
<1> PICK f \in Fuzzers : f = "coercion"
  BY DEF Fuzzers
<1>1. out.lines # <<>>
  <2>1. out.lines = <<>> => Len(out.lines) = 0
    OBVIOUS
  <2> QED
    BY <2>1
<1>2. PrintsUpTo(f, out.lines, Len(OpsOf[f]))
  BY <1>1 DEF PrintedOn
<1>3. Len(out.lines) = Len(OpsOf[f])
  BY <1>2 DEF PrintsUpTo
<1>4. PICK v \in ToSet(Values(f, n)) : out.lines[n] = Line(f, n, v)
  BY <1>2, <1>3 DEF PrintsUpTo
<1>5. out.lines[n].op = OpsOf[f][n].op
  BY <1>3, <1>4, LineIs, ValuesAre
<1> QED
  BY <1>3, <1>5, OpsAre
LEMMA LeadsFromSay ==
  ASSUME fuzzer \in Fuzzers, PrintedOn(fuzzer, gout), PrintedOn(fuzzer, rout)
  PROVE  LeadsSay(LeadsFrom(fuzzer, gout, rout), gout.lines, rout.lines,
                  PanicIn(fuzzer, gout.err), BadOf(fuzzer, gout.lines),
                  DiffsOf(fuzzer, Index(gout.lines), Index(rout.lines)))
<1>1. gout.lines \in Seq(Lines) /\ rout.lines \in Seq(Lines)
  BY PrintedOnce
<1>2. BadOf(fuzzer, gout.lines) \in Seq(Lines)
  BY <1>1, FailuresAre
<1>3. PanicIn(fuzzer, gout.err) \in BOOLEAN
  BY DEF PanicIn
<1> QED
  BY <1>1, <1>2, <1>3, LeadsAre, Zenon DEF LeadsFrom

LEMMA Silence ==
  ASSUME fuzzer \in Fuzzers, PrintedOn(fuzzer, gout), PrintedOn(fuzzer, rout),
         LeadsFrom(fuzzer, gout, rout) = <<>>
  PROVE  /\ gout.err # "panic"
         /\ \A l \in ToSet(gout.lines) : l.op = "INV" => l.val # "false"
         /\ \A l \in Results(gout) : Matched(l, rout, Excuse)
         /\ \A l \in Results(rout) : Matched(l, gout, LAMBDA a, b : Excuse(b, a))
<1> PICK diffs : diffs = DiffsOf(fuzzer, Index(gout.lines), Index(rout.lines))
  OBVIOUS
<1>1. /\ ~PanicIn(fuzzer, gout.err) /\ BadOf(fuzzer, gout.lines) = <<>>
      /\ \A n \in 1 .. Len(gout.lines) : KeyOf(gout.lines[n]) \notin diffs
      /\ \A n \in 1 .. Len(rout.lines) : KeyOf(rout.lines[n]) \notin diffs
  BY LeadsFromSay DEF LeadsSay
<1>2. gout.err # "panic"
  BY <1>1 DEF PanicIn
<1>3. gout.lines \in Seq(Lines)
  BY PrintedOnce
<1>4. ASSUME NEW l \in ToSet(gout.lines), l.op = "INV" PROVE l.val # "false"
  <2>1. PICK n \in 1 .. Len(gout.lines) : l = gout.lines[n]
    BY <1>3 DEF ToSet
  <2>2. CASE fuzzer # "coercion"
    <3>1. l.val \in Passing(fuzzer)
      BY <1>1, <1>3, <1>4, <2>1, <2>2, FailuresAre
    <3> QED
      BY <3>1, PassingFails
  <2>3. CASE fuzzer = "coercion"
    BY <1>4, <2>1, <2>3, NoChecks
  <2> QED
    BY <2>2, <2>3
<1>5. ASSUME NEW l \in Results(gout) PROVE Matched(l, rout, Excuse)
  <2>1. PICK n \in 1 .. Len(gout.lines) : l = gout.lines[n]
    BY AtResult
  <2>2. KeyOf(l) \notin DiffsOf(fuzzer, Index(gout.lines), Index(rout.lines))
    BY <1>1, <2>1
  <2> QED
    BY <2>2, GoluaMatched
<1>6. ASSUME NEW l \in Results(rout) PROVE Matched(l, gout, LAMBDA a, b : Excuse(b, a))
  <2>1. PICK n \in 1 .. Len(rout.lines) : l = rout.lines[n]
    BY AtResult
  <2>2. KeyOf(l) \notin DiffsOf(fuzzer, Index(gout.lines), Index(rout.lines))
    BY <1>1, <2>1
  <2> QED
    BY <2>2, ReferenceMatched
<1> QED
  BY <1>2, <1>4, <1>5, <1>6

(* What an output says last of a key is what its index holds.              *)
LastOf(out, key) == {out.lines[n] : n \in
                       {m \in 1 .. Len(out.lines) :
                          /\ KeyOf(out.lines[m]) = key
                          /\ \A k \in m + 1 .. Len(out.lines) :
                               KeyOf(out.lines[k]) # key}}

LEMMA LastIs ==
  ASSUME NEW out, out.lines \in Seq(Lines), NEW key
  PROVE  /\ key \notin DOMAIN Index(out.lines) => LastOf(out, key) = {}
         /\ key \in DOMAIN Index(out.lines) =>
              \E l : LastOf(out, key) = {l} /\ At(Index(out.lines), key) = l.val
<1> PICK lines \in Seq(Lines) : lines = out.lines
  OBVIOUS
<1> DEFINE IsLast(m) == /\ m \in 1 .. Len(lines) /\ KeyOf(lines[m]) = key
                        /\ \A k \in m + 1 .. Len(lines) : KeyOf(lines[k]) # key
           Lasts == {m \in 1 .. Len(lines) : IsLast(m)}
<1>1. LastOf(out, key) = {lines[n] : n \in Lasts}
  BY DEF LastOf
<1>2. ASSUME key \notin DOMAIN Index(lines) PROVE LastOf(out, key) = {}
  <2>1. ~\E n \in 1 .. Len(lines) : KeyOf(lines[n]) = key
    BY <1>2, IndexIs
  <2>2. Lasts = {}
    BY <2>1
  <2> HIDE DEF Lasts
  <2> QED
    BY <1>1, <2>2
<1>3. ASSUME key \in DOMAIN Index(lines)
      PROVE  \E l : LastOf(out, key) = {l} /\ At(Index(lines), key) = l.val
  <2>1. PICK n \in 1 .. Len(lines) : /\ KeyOf(lines[n]) = key
                                     /\ At(Index(lines), key) = lines[n].val
                                     /\ \A j \in n + 1 .. Len(lines) : KeyOf(lines[j]) # key
    BY <1>3, IndexIs
  <2>2. ASSUME NEW m \in Lasts PROVE m = n
    <3>1. m \in 1 .. Len(lines) /\ KeyOf(lines[m]) = key
          /\ \A k \in m + 1 .. Len(lines) : KeyOf(lines[k]) # key
      OBVIOUS
    <3>2. ~(m < n)
      BY <2>1, <3>1
    <3>3. ~(n < m)
      BY <2>1, <3>1
    <3> QED
      BY <3>1, <3>2, <3>3
  <2>3. n \in Lasts
    BY <2>1
  <2>4. Lasts = {n}
    <3> HIDE DEF Lasts
    <3> QED
      BY <2>2, <2>3
  <2> HIDE DEF Lasts
  <2>5. LastOf(out, key) = {lines[n]}
    BY <1>1, <2>4
  <2> QED
    BY <2>1, <2>5
<1> QED
  BY <1>2, <1>3

LEMMA DifferentLast ==
  ASSUME NEW g, NEW r, g.lines \in Seq(Lines), r.lines \in Seq(Lines), NEW key,
         key \in DiffsOf(fuzzer, Index(g.lines), Index(r.lines))
  PROVE  LastOf(g, key) # LastOf(r, key)
<1> PICK a, b : a = Index(g.lines) /\ b = Index(r.lines)
  OBVIOUS
<1>1. key \in DOMAIN a \union DOMAIN b /\ At(a, key) # At(b, key)
  BY DEF DiffsOf, Differing
<1>2. key \notin DOMAIN a => LastOf(g, key) = {}
  BY LastIs
<1>3. key \notin DOMAIN b => LastOf(r, key) = {}
  BY LastIs
<1>4. key \in DOMAIN a => \E l : LastOf(g, key) = {l} /\ At(a, key) = l.val
  BY LastIs
<1>5. key \in DOMAIN b => \E l : LastOf(r, key) = {l} /\ At(b, key) = l.val
  BY LastIs
<1>6. CASE key \in DOMAIN a /\ key \in DOMAIN b
  <2>1. PICK l : LastOf(g, key) = {l} /\ At(a, key) = l.val
    BY <1>4, <1>6
  <2>2. PICK m : LastOf(r, key) = {m} /\ At(b, key) = m.val
    BY <1>5, <1>6
  <2>3. l # m
    BY <1>1, <2>1, <2>2
  <2> QED
    BY <2>1, <2>2, <2>3
<1>7. CASE key \in DOMAIN a /\ key \notin DOMAIN b
  BY <1>3, <1>4, <1>7
<1>8. CASE key \notin DOMAIN a /\ key \in DOMAIN b
  BY <1>2, <1>5, <1>8
<1> QED
  BY <1>1, <1>6, <1>7, <1>8

LEMMA Real ==
  ASSUME fuzzer \in Fuzzers, PrintedOn(fuzzer, gout), PrintedOn(fuzzer, rout),
         NEW i \in 1 .. Len(LeadsFrom(fuzzer, gout, rout)), NEW lead,
         lead = LeadsFrom(fuzzer, gout, rout)[i]
  PROVE  /\ lead.kind = "DIFF" => LastOf(gout, lead.key) # LastOf(rout, lead.key)
         /\ lead.kind = "INVARIANT" =>
              \E l \in ToSet(gout.lines) : KeyOf(l) = lead.key /\ l.op = "INV" /\ l.val = "false"
         /\ lead.kind \notin {"DIFF", "INVARIANT"} =>
              i = 1 /\ gout.err \in {"panic", "runtime error"}
<1> PICK L : L = LeadsFrom(fuzzer, gout, rout)
  OBVIOUS
<1> PICK bad : bad = BadOf(fuzzer, gout.lines)
  OBVIOUS
<1>1. LeadsSay(L, gout.lines, rout.lines, PanicIn(fuzzer, gout.err), bad,
               DiffsOf(fuzzer, Index(gout.lines), Index(rout.lines)))
  BY LeadsFromSay
<1>2. gout.lines \in Seq(Lines) /\ rout.lines \in Seq(Lines)
  BY PrintedOnce
<1>3. L \in Seq(AnyLeads) /\ i \in 1 .. Len(L) /\ lead = L[i]
  BY <1>1 DEF LeadsSay
<1>4. lead.kind \in LeadKinds
  <2>1. lead \in AnyLeads
    BY <1>3, ElementOf
  <2> QED
    BY <2>1 DEF AnyLeads
<1>5. ASSUME lead.kind = "DIFF" PROVE LastOf(gout, lead.key) # LastOf(rout, lead.key)
  <2>1. lead.key \in DiffsOf(fuzzer, Index(gout.lines), Index(rout.lines))
    BY <1>1, <1>3, <1>5 DEF LeadsSay
  <2> QED
    BY <1>2, <2>1, DifferentLast
<1>6. ASSUME lead.kind = "INVARIANT"
      PROVE  \E l \in ToSet(gout.lines) :
               KeyOf(l) = lead.key /\ l.op = "INV" /\ l.val = "false"
  <2>1. PICK j \in 1 .. Len(bad) : lead.key = KeyOf(bad[j])
    BY <1>1, <1>3, <1>6 DEF LeadsSay
  <2>2. PICK n \in 1 .. Len(gout.lines) :
           /\ bad[j] = gout.lines[n]
           /\ gout.lines[n].op = "INV" /\ gout.lines[n].val \notin Passing(fuzzer)
    BY <1>2, <2>1, FailuresAre
  <2>3. gout.lines[n].val = "false"
    BY <2>2, PrintedOnce, PassingFails
  <2>4. gout.lines[n] \in ToSet(gout.lines)
    BY <1>2 DEF ToSet
  <2> QED
    BY <2>1, <2>2, <2>3, <2>4
<1>7. ASSUME lead.kind = "PANIC" PROVE i = 1 /\ gout.err \in {"panic", "runtime error"}
  <2>1. i = 1 /\ PanicIn(fuzzer, gout.err)
    BY <1>1, <1>3, <1>7 DEF LeadsSay
  <2> QED
    BY <2>1 DEF PanicIn
<1> QED
  BY <1>4, <1>5, <1>6, <1>7 DEF LeadKinds
-----------------------------------------------------------------------------
(* The work of an invocation: no batch comes twice.                        *)
ZoneNames == {"-"} \union {Zones[i] : i \in 1 .. Len(Zones)}
BatchIds == [label : Labels, zone : ZoneNames, no : Nat]
Apart(w) == \A i, k \in 1 .. Len(w) : \A j \in 1 .. Len(w[i]), m \in 1 .. Len(w[k]) :
               w[i][j] = w[k][m] => i = k /\ j = m

Flats(u, s, n) ==
  u = [i \in 1 .. n |-> IF i = 1 THEN s[i] ELSE u[i - 1] \o s[i]]

LEMMA FlatsExist ==
  ASSUME NEW s, NEW n \in Nat PROVE \E u : Flats(u, s, n)
<1> DEFINE T == {m \in Nat : \E u : Flats(u, s, m)}
<1>1. 0 \in T
  <2> DEFINE u == [k \in 1 .. 0 |-> s[k]]
  <2>1. Flats(u, s, 0)
    BY DEF Flats
  <2> QED
    BY <2>1
<1>2. ASSUME NEW m \in T, m \in Nat PROVE m + 1 \in T
  <2>1. PICK u : Flats(u, s, m)
    BY <1>2
  <2> DEFINE v == [k \in 1 .. (m + 1) |->
                     IF k <= m THEN u[k] ELSE IF k = 1 THEN s[k] ELSE u[m] \o s[k]]
  <2>2. ASSUME NEW k \in 1 .. (m + 1)
        PROVE  v[k] = IF k = 1 THEN s[k] ELSE v[k - 1] \o s[k]
    <3>1. CASE k <= m
      <4>1. v[k] = u[k] /\ k \in 1 .. m /\ (k # 1 => k - 1 \in 1 .. m)
        BY <1>2, <3>1
      <4>2. u[k] = IF k = 1 THEN s[k] ELSE u[k - 1] \o s[k]
        BY <2>1, <4>1 DEF Flats
      <4>3. k # 1 => v[k - 1] = u[k - 1]
        BY <1>2, <4>1
      <4> QED
        BY <4>1, <4>2, <4>3
    <3>2. CASE k = m + 1
      <4>1. k # 1 => k - 1 = m /\ v[k - 1] = u[m]
        BY <1>2, <3>2
      <4>2. v[k] = IF k = 1 THEN s[k] ELSE u[m] \o s[k]
        BY <1>2, <3>2
      <4> QED
        BY <4>1, <4>2
    <3> QED
      BY <1>2, <3>1, <3>2
  <2>3. Flats(v, s, m + 1)
    <3>1. v = [k \in 1 .. (m + 1) |-> v[k]]
      OBVIOUS
    <3> HIDE DEF v
    <3> QED
      BY <2>2, <3>1 DEF Flats
  <2> QED
    BY <1>2, <2>3
<1>3. Nat \subseteq T
  <2> HIDE DEF T
  <2> QED
    BY <1>1, <1>2, AllNumbers
<1> QED
  BY <1>3

LEMMA ApartJoined ==
  ASSUME NEW X, NEW a \in Seq(X), NEW b \in Seq(X), NEW c, c = a \o b,
         Apart1(a), Apart1(b), \A i \in 1 .. Len(a), j \in 1 .. Len(b) : a[i] # b[j]
  PROVE  Apart1(c)
<1> SUFFICES ASSUME NEW i \in 1 .. Len(c), NEW j \in 1 .. Len(c), c[i] = c[j] PROVE i = j
  BY DEF Apart1
<1>1. AreJoined(a, b, c, X)
  BY Joined
<1>2. CASE i \in 1 .. Len(a) /\ j \in 1 .. Len(a)
  BY <1>1, <1>2 DEF Apart1, AreJoined
<1>3. CASE i \in 1 .. Len(a) /\ j \notin 1 .. Len(a)
  <2>1. PICK m \in 1 .. Len(b) : j = Len(a) + m
    BY <1>1, <1>3 DEF AreJoined
  <2> QED
    BY <1>1, <1>3, <2>1 DEF AreJoined
<1>4. CASE i \notin 1 .. Len(a) /\ j \in 1 .. Len(a)
  <2>1. PICK m \in 1 .. Len(b) : i = Len(a) + m
    BY <1>1, <1>4 DEF AreJoined
  <2> QED
    BY <1>1, <1>4, <2>1 DEF AreJoined
<1>5. CASE i \notin 1 .. Len(a) /\ j \notin 1 .. Len(a)
  <2>1. PICK m \in 1 .. Len(b) : i = Len(a) + m
    BY <1>1, <1>5 DEF AreJoined
  <2>2. PICK n \in 1 .. Len(b) : j = Len(a) + n
    BY <1>1, <1>5 DEF AreJoined
  <2>3. b[m] = b[n]
    BY <1>1, <2>1, <2>2 DEF AreJoined
  <2>4. m = n
    BY <2>3 DEF Apart1
  <2> QED
    BY <2>1, <2>2, <2>4
<1> QED
  BY <1>2, <1>3, <1>4, <1>5

LEMMA RowApart ==
  ASSUME NEW s, Apart(s), NEW k \in 1 .. Len(s) PROVE Apart1(s[k])
BY DEF Apart, Apart1

FlatUpTo(q, s, n, X) ==
  /\ q \in Seq(X)
  /\ \A j \in 1 .. Len(q) : \E i \in 1 .. n : \E m \in 1 .. Len(s[i]) : q[j] = s[i][m]
  /\ Apart(s) => Apart1(q)

LEMMA FlattenIs ==
  ASSUME NEW X, NEW s \in Seq(Seq(X))
  PROVE  FlatUpTo(FlattenSeq(s), s, Len(s), X)
<1>1. CASE Len(s) = 0
  <2>1. FlattenSeq(s) = s
    BY <1>1 DEF FlattenSeq
  <2>2. s = <<>>
    BY <1>1, NothingLong
  <2>3. FlatUpTo(<<>>, s, Len(s), X)
    BY DEF FlatUpTo, Apart1
  <2> QED
    BY <2>1, <2>2, <2>3
<1>2. CASE Len(s) # 0
  <2> DEFINE u == CHOOSE u : u = [i \in 1 .. Len(s) |->
                      IF i = 1 THEN s[i] ELSE u[i - 1] \o s[i]]
  <2>1. Len(s) \in Nat /\ \A i \in 1 .. Len(s) : s[i] \in Seq(X)
    BY ElementOf
  <2>2. \E w : Flats(w, s, Len(s))
    BY <2>1, FlatsExist
  <2>3. u = [i \in 1 .. Len(s) |-> IF i = 1 THEN s[i] ELSE u[i - 1] \o s[i]]
    BY <2>2, Zenon DEF Flats
  <2>4. FlattenSeq(s) = u[Len(s)]
    BY <1>2, Zenon DEF FlattenSeq
  <2> HIDE DEF u
  <2>5. u[1] = s[1] /\ \A i \in 2 .. Len(s) : u[i] = u[i - 1] \o s[i]
    <3>1. 1 \in 1 .. Len(s)
      BY <1>2, <2>1
    <3>2. \A i \in 2 .. Len(s) : i \in 1 .. Len(s) /\ i # 1
      BY <2>1
    <3> QED
      BY <2>3, <3>1, <3>2
  <2> DEFINE T == {n \in Nat : n < Len(s) => FlatUpTo(u[n + 1], s, n + 1, X)}
  <2>6. 0 \in T
    <3>1. 1 \in 1 .. Len(s) /\ s[1] \in Seq(X) /\ 1 \in 1 .. 1
      BY <1>2, <2>1
    <3>2. Apart(s) => Apart1(s[1])
      BY <3>1, RowApart
    <3>3. FlatUpTo(s[1], s, 1, X)
      BY <3>1, <3>2, Zenon DEF FlatUpTo
    <3> QED
      BY <2>5, <3>3
  <2>7. ASSUME NEW n \in T, n \in Nat PROVE n + 1 \in T
    <3> SUFFICES ASSUME n + 1 < Len(s) PROVE FlatUpTo(u[(n + 1) + 1], s, (n + 1) + 1, X)
      BY <2>7
    <3>1. FlatUpTo(u[n + 1], s, n + 1, X)
      BY <2>1, <2>7
    <3>2. PICK k \in Nat : k = (n + 1) + 1
      BY <2>7
    <3>3. k - 1 = n + 1 /\ k \in 2 .. Len(s) /\ k \in 1 .. Len(s) /\ k \in 1 .. k
      BY <2>1, <2>7, <3>2
    <3>4. PICK a : a = u[n + 1]
      OBVIOUS
    <3>5. PICK b : b = s[k]
      OBVIOUS
    <3>6. PICK c : c = a \o b
      OBVIOUS
    <3>7. u[k] = c
      BY <2>5, <3>3, <3>4, <3>5, <3>6
    <3>8. /\ a \in Seq(X) /\ b \in Seq(X)
          /\ \A j \in 1 .. Len(a) : \E i \in 1 .. n + 1 : \E m \in 1 .. Len(s[i]) : a[j] = s[i][m]
      BY <2>1, <3>1, <3>3, <3>4, <3>5 DEF FlatUpTo
    <3>9. AreJoined(a, b, c, X)
      BY <3>6, <3>8, Joined
    <3>10. \A i \in 1 .. n + 1 : i \in 1 .. k /\ i \in 1 .. Len(s) /\ i # k
      BY <2>1, <2>7, <3>2, <3>3
    <3>11. ASSUME NEW j \in 1 .. Len(c)
           PROVE  \E i \in 1 .. k : \E m \in 1 .. Len(s[i]) : c[j] = s[i][m]
      <4>1. CASE j \in 1 .. Len(a)
        <5>1. PICK i \in 1 .. n + 1 : \E m \in 1 .. Len(s[i]) : a[j] = s[i][m]
          BY <3>8, <4>1
        <5>2. c[j] = a[j]
          BY <3>9, <4>1 DEF AreJoined
        <5> QED
          BY <3>10, <5>1, <5>2
      <4>2. CASE j \notin 1 .. Len(a)
        <5>1. PICK m \in 1 .. Len(b) : j = Len(a) + m
          BY <3>9, <4>2 DEF AreJoined
        <5>2. c[j] = s[k][m] /\ m \in 1 .. Len(s[k])
          BY <3>5, <3>9, <5>1 DEF AreJoined
        <5> QED
          BY <3>3, <5>2
      <4> QED
        BY <4>1, <4>2
    <3>12. ASSUME Apart(s) PROVE Apart1(c)
      <4>1. Apart1(a)
        BY <3>1, <3>4, <3>12 DEF FlatUpTo
      <4>2. Apart1(b)
        BY <3>3, <3>5, <3>12, RowApart
      <4>3. ASSUME NEW i \in 1 .. Len(a), NEW j \in 1 .. Len(b) PROVE a[i] # b[j]
        <5>1. PICK h \in 1 .. n + 1 : \E m \in 1 .. Len(s[h]) : a[i] = s[h][m]
          BY <3>8
        <5>2. PICK m \in 1 .. Len(s[h]) : a[i] = s[h][m]
          BY <5>1
        <5>3. b[j] = s[k][j] /\ j \in 1 .. Len(s[k])
          BY <3>5
        <5>4. h \in 1 .. Len(s) /\ h # k
          BY <3>10
        <5>5. s[h][m] # s[k][j]
          BY <3>3, <3>12, <5>3, <5>4, Zenon DEF Apart
        <5> QED
          BY <5>2, <5>3, <5>5
      <4> QED
        BY <3>6, <3>8, <4>1, <4>2, <4>3, ApartJoined
    <3>13. FlatUpTo(c, s, k, X)
      BY <3>9, <3>11, <3>12 DEF FlatUpTo, AreJoined
    <3> QED
      BY <3>2, <3>7, <3>13
  <2>8. Nat \subseteq T
    <3> HIDE DEF T
    <3> QED
      BY <2>6, <2>7, AllNumbers
  <2>9. Len(s) - 1 \in T /\ (Len(s) - 1) + 1 = Len(s)
    BY <1>2, <2>1, <2>8
  <2> QED
    BY <2>1, <2>4, <2>9
<1> QED
  BY <1>1, <1>2
LEMMA PhasesAre ==
  ASSUME NEW f \in Fuzzers PROVE Phases(f) \in Seq(Labels) /\ Apart1(Phases(f))
<1>1. PICK p : p = Phases(f)
  OBVIOUS
<1>2. CASE p = <<"tier0", "tier1", "tier2", "tier3">>
  BY <1>1, <1>2 DEF Labels, Apart1
<1>3. CASE p = <<"tier0", "tier1", "tier2", "illegal", "depth", "tier3">>
  BY <1>1, <1>3 DEF Labels, Apart1
<1>4. CASE p = <<"tier0", "tier1", "tier2", "illegal", "tier3">>
  BY <1>1, <1>4 DEF Labels, Apart1
<1>5. CASE p = <<"tier0", "tier1", "tier2", "ordering", "tier3">>
  BY <1>1, <1>5 DEF Labels, Apart1
<1> QED
  BY <1>1, <1>2, <1>3, <1>4, <1>5
     DEF Phases, PackPhases, PatternPhases, FormatPhases, CoercionPhases, DatePhases, Utf8Phases

LEMMA WantedAre ==
  ASSUME NEW f \in Fuzzers, NEW a PROVE Wanted(f, a) \in Seq(Labels) /\ Apart1(Wanted(f, a))
<1>1. PICK asked : asked = [n \in 1 .. Len(Phases(f)) |->
                       Phases(f)[n] \in a \/ ("all" \in a /\ Phases(f)[n] # "tier3")]
  OBVIOUS
<1>2. \A n \in 1 .. Len(Phases(f)) : asked[n] \in BOOLEAN
  BY <1>1
<1>3. Wanted(f, a) = Chosen(Phases(f), asked)
  BY <1>1 DEF Wanted
<1>4. Phases(f) \in Seq(Labels) /\ Apart1(Phases(f))
  BY PhasesAre
<1>5. /\ Chosen(Phases(f), asked) \in Seq(Labels)
      /\ TakenUpTo(Chosen(Phases(f), asked), Phases(f), asked, Len(Phases(f)))
  BY <1>2, <1>4, ChosenTakes
<1> QED
  BY <1>3, <1>4, <1>5 DEF TakenUpTo

LEMMA NumberedAre ==
  ASSUME NEW f \in Fuzzers, NEW label \in Labels, NEW zone \in ZoneNames,
         NEW t, t = Numbered(f, label, zone)
  PROVE  /\ t \in Seq(BatchIds)
         /\ \A j \in 1 .. Len(t) :
              t[j].label = label /\ t[j].zone = zone /\ t[j].no = j - 1
<1>1. PICK n \in Nat : n = BatchesOf[f][label]
  BY CampaignAssumption
<1>2. PICK s : s = [j \in 1 .. n |-> [label |-> label, zone |-> zone, no |-> j - 1]]
  OBVIOUS
<1>3. Numbered(f, label, zone) = s
  BY <1>1, <1>2 DEF Numbered
<1>4. ASSUME NEW j \in 1 .. n
      PROVE  [label |-> label, zone |-> zone, no |-> j - 1] \in BatchIds
  <2>1. PICK m \in Nat : m = j - 1
    OBVIOUS
  <2> QED
    BY <2>1 DEF BatchIds
<1>5. s \in [1 .. n -> BatchIds]
  BY <1>2, <1>4
<1>6. s \in Seq(BatchIds) /\ Len(s) = n
  BY <1>5, SequenceOf
<1> QED
  BY <1>2, <1>3, <1>6

LEMMA NumberedApart ==
  ASSUME NEW f \in Fuzzers, NEW l \in Labels, NEW z \in ZoneNames, NEW y \in ZoneNames,
         NEW s, NEW t, s = Numbered(f, l, z), t = Numbered(f, l, y),
         NEW i \in 1 .. Len(s), NEW j \in 1 .. Len(t), s[i] = t[j]
  PROVE  z = y /\ i = j
<1>1. /\ s[i].zone = z /\ s[i].no = i - 1 /\ Len(s) \in Nat
      /\ t[j].zone = y /\ t[j].no = j - 1 /\ Len(t) \in Nat
  BY NumberedAre
<1>2. z = y /\ i - 1 = j - 1
  BY <1>1
<1> QED
  BY <1>1, <1>2

LEMMA BatchesAre ==
  ASSUME NEW f \in Fuzzers, NEW label \in Labels
  PROVE  /\ BatchesIn(f, label) \in Seq(BatchIds) /\ Apart1(BatchesIn(f, label))
         /\ \A j \in 1 .. Len(BatchesIn(f, label)) : BatchesIn(f, label)[j].label = label
<1>1. CASE f # "date"
  <2>1. "-" \in ZoneNames
    BY DEF ZoneNames
  <2>2. PICK s : s = Numbered(f, label, "-")
    OBVIOUS
  <2>3. BatchesIn(f, label) = s
    BY <1>1, <2>2 DEF BatchesIn
  <2>4. s \in Seq(BatchIds) /\ \A j \in 1 .. Len(s) : s[j].label = label
    BY <2>1, <2>2, NumberedAre
  <2>5. Apart1(s)
    BY <2>1, <2>2, NumberedApart DEF Apart1
  <2> QED
    BY <2>3, <2>4, <2>5
<1>2. CASE f = "date"
  <2>1. "date" \in Fuzzers /\ Len(Zones) \in Nat /\ \A i \in 1 .. Len(Zones) : Zones[i] \in ZoneNames
    BY CampaignAssumption DEF Fuzzers, ZoneNames
  <2>2. PICK s : s = [i \in 1 .. Len(Zones) |-> Numbered("date", label, Zones[i])]
    OBVIOUS
  <2>3. BatchesIn(f, label) = FlattenSeq(s)
    BY <1>2, <2>2 DEF BatchesIn, DateBatches
  <2>4. s \in [1 .. Len(Zones) -> Seq(BatchIds)]
    <3>1. \A i \in 1 .. Len(Zones) : Numbered("date", label, Zones[i]) \in Seq(BatchIds)
      BY <2>1, NumberedAre
    <3> QED
      BY <2>2, <3>1
  <2>5. s \in Seq(Seq(BatchIds)) /\ Len(s) = Len(Zones)
    BY <2>1, <2>4, SequenceOf
  <2>6. \A i \in 1 .. Len(s) : s[i] = Numbered("date", label, Zones[i])
    BY <2>2, <2>5
  <2>7. Apart(s)
    <3>1. SUFFICES ASSUME NEW i \in 1 .. Len(s), NEW k \in 1 .. Len(s),
                          NEW j \in 1 .. Len(s[i]), NEW m \in 1 .. Len(s[k]),
                          s[i][j] = s[k][m]
                   PROVE  i = k /\ j = m
      BY DEF Apart
    <3>2. Zones[i] \in ZoneNames /\ Zones[k] \in ZoneNames
      BY <2>1, <2>5
    <3>3. Zones[i] = Zones[k] /\ j = m
      BY <2>1, <2>6, <3>1, <3>2, NumberedApart
    <3>4. DOMAIN Zones = 1 .. Len(Zones)
      BY CampaignAssumption
    <3> QED
      BY <2>5, <3>3, <3>4, CampaignAssumption
  <2>8. PICK q : q = FlattenSeq(s)
    OBVIOUS
  <2>9. FlatUpTo(q, s, Len(s), BatchIds)
    BY <2>5, <2>8, FlattenIs
  <2>10. ASSUME NEW j \in 1 .. Len(q) PROVE q[j].label = label
    <3>1. PICK i \in 1 .. Len(s) : \E m \in 1 .. Len(s[i]) : q[j] = s[i][m]
      BY <2>9 DEF FlatUpTo
    <3>2. PICK m \in 1 .. Len(s[i]) : q[j] = s[i][m]
      BY <3>1
    <3> QED
      BY <2>1, <2>5, <2>6, <3>2, NumberedAre
  <2> QED
    BY <2>3, <2>7, <2>8, <2>9, <2>10 DEF FlatUpTo
<1> QED
  BY <1>1, <1>2

LEMMA WorkIs ==
  ASSUME NEW f \in Fuzzers, NEW a
  PROVE  WorkOf(f, a) \in Seq(Seq(BatchIds)) /\ Apart(WorkOf(f, a))
<1>1. PICK want : want = Wanted(f, a)
  OBVIOUS
<1>2. want \in Seq(Labels) /\ Apart1(want) /\ Len(want) \in Nat
  BY <1>1, WantedAre
<1>3. PICK w : w = [i \in 1 .. Len(want) |-> BatchesIn(f, want[i])]
  OBVIOUS
<1>4. WorkOf(f, a) = w
  BY <1>1, <1>3 DEF WorkOf
<1>5. \A i \in 1 .. Len(want) : want[i] \in Labels
  BY <1>2, ElementOf
<1>6. w \in [1 .. Len(want) -> Seq(BatchIds)]
  BY <1>3, <1>5, BatchesAre
<1>7. w \in Seq(Seq(BatchIds)) /\ Len(w) = Len(want)
  BY <1>2, <1>6, SequenceOf
<1>8. ASSUME NEW i \in 1 .. Len(w), NEW k \in 1 .. Len(w),
             NEW j \in 1 .. Len(w[i]), NEW m \in 1 .. Len(w[k]), w[i][j] = w[k][m]
      PROVE  i = k /\ j = m
  <2>1. w[i] = BatchesIn(f, want[i]) /\ w[k] = BatchesIn(f, want[k])
    BY <1>3, <1>7
  <2>2. want[i] \in Labels /\ want[k] \in Labels
    BY <1>5, <1>7
  <2>3. w[i][j].label = want[i] /\ w[k][m].label = want[k]
    BY <2>1, <2>2, BatchesAre
  <2>4. i = k
    BY <1>2, <1>7, <1>8, <2>3 DEF Apart1
  <2>5. Apart1(w[i])
    BY <2>1, <2>2, BatchesAre
  <2> QED
    BY <1>8, <2>4, <2>5 DEF Apart1
<1> QED
  BY <1>4, <1>7, <1>8 DEF Apart
-----------------------------------------------------------------------------
(* The inductive invariant.  The batches that wait, that run and that gave  *)
(* leads are different ones, so no cleanup takes the driver of another      *)
(* batch and no dump the place of another; the leads of this phase and of   *)
(* those that ended are none exactly when no batch gave any; outputs are    *)
(* of the driver's form; and a lead file lies under the seed it is of.      *)
Running == pc \in {"golua", "reference", "judge"}
Waits(b, w) == \E i \in 1 .. Len(w) : \E j \in 1 .. Len(w[i]) : w[i][j] = b
Reports == [run : Nat, seed : Int, status : {"CLEAN", "LEADS"}]
Seen == [batch : BatchIds, leads : Nat, panicked : BOOLEAN]

CampaignTypes ==
  /\ fuzzer \in Fuzzers /\ run \in Nat /\ seed \in Int
  /\ pc \in {"shell", "phase", "golua", "reference", "judge"}
  /\ todo \in Seq(Seq(BatchIds)) /\ (Running => batch \in BatchIds)
  /\ leads \in Seq(LeadKinds) /\ all_leads \in Seq(LeadKinds)
  /\ report \in Seq(Reports) /\ seen \in SUBSET Seen
WorkLeft ==
  /\ Apart(todo)
  /\ Running => todo # <<>> /\ ~Waits(batch, todo) /\ Driver(batch) \in tmp
  /\ \A s \in seen : ~Waits(s.batch, todo) /\ (Running => s.batch # batch)
Found ==
  /\ todo = <<>> => leads = <<>>
  /\ pc # "shell" => (seen = {} <=> leads = <<>> /\ all_leads = <<>>)
Outputs ==
  /\ pc \in {"reference", "judge"} \/ Judged => PrintedOn(fuzzer, gout)
  /\ pc = "judge" \/ Judged => PrintedOn(fuzzer, rout)
  /\ Judged => fresh = LeadsFrom(fuzzer, gout, rout)
IsDump(x, v) == /\ DOMAIN v = {"by", "driver"}
                /\ \E b \in BatchIds, s \in Int : x = <<"panic", b.label, s, b.zone, b.no>>
IsLeadFile(x, v) == \E k \in LeadKinds, s \in Int : x = <<k, s>> /\ v.seed = s
Files == \A x \in DOMAIN corpus : IsDump(x, corpus[x]) \/ IsLeadFile(x, corpus[x])
Reported ==
  /\ \A i \in 1 .. Len(report) : report[i].run <= run /\ (pc # "shell" => report[i].run < run)
  /\ \A i, j \in 1 .. Len(report) : i < j => report[i].run < report[j].run
CampaignInv == /\ CampaignTypes /\ WorkLeft /\ Found /\ Outputs /\ Files /\ Reported
               /\ PanicsStayOnDisk /\ ReportTells

Taken(w) == [w EXCEPT ![1] = Tail(@)]
Follows(b, v, w, X) ==
  /\ b \in X /\ v \in Seq(Seq(X)) /\ v # <<>>
  /\ Apart(v) /\ ~Waits(b, v) /\ Waits(b, w)
  /\ \A c : Waits(c, v) => Waits(c, w)

LEMMA NextBatch ==
  ASSUME NEW X, NEW w \in Seq(Seq(X)), w # <<>>, Head(w) # <<>>, Apart(w),
         NEW b, b = Head(Head(w)), NEW v, v = Taken(w)
  PROVE  Follows(b, v, w, X)
<1> USE DEF Taken
<1>1. Len(w) \in Nat /\ 1 \in 1 .. Len(w) /\ DOMAIN w = 1 .. Len(w) /\ Head(w) = w[1]
  OBVIOUS
<1>2. PICK h \in Seq(X) : h = w[1]
  BY <1>1, ElementOf
<1>3. h # <<>> /\ b = h[1] /\ 1 \in 1 .. Len(h) /\ b \in X /\ Len(h) \in Nat
  BY <1>1, <1>2
<1>4. PICK t : t = Tail(h)
  OBVIOUS
<1>5. /\ t \in Seq(X) /\ \A j \in 1 .. Len(t) : j + 1 \in 1 .. Len(h) /\ t[j] = h[j + 1]
  BY <1>3, <1>4
<1>6. v[1] = t /\ \A i \in 1 .. Len(w) : i # 1 => v[i] = w[i]
  BY <1>1, <1>2, <1>4
<1>7. v \in [1 .. Len(w) -> Seq(X)]
  <2>1. v = [i \in 1 .. Len(w) |-> IF i = 1 THEN t ELSE w[i]]
    BY <1>1, <1>2, <1>4
  <2>2. \A i \in 1 .. Len(w) : w[i] \in Seq(X)
    BY ElementOf
  <2> QED
    BY <1>5, <2>1, <2>2
<1>8. v \in Seq(Seq(X)) /\ Len(v) = Len(w) /\ v # <<>>
  <2>1. v \in Seq(Seq(X)) /\ Len(v) = Len(w)
    BY <1>1, <1>7, SequenceOf
  <2> QED
    BY <1>1, <2>1
<1> DEFINE At1(i, j) == IF i = 1 THEN j + 1 ELSE j
<1>9. ASSUME NEW i \in 1 .. Len(v), NEW j \in 1 .. Len(v[i])
      PROVE  i \in 1 .. Len(w) /\ At1(i, j) \in 1 .. Len(w[i]) /\ w[i][At1(i, j)] = v[i][j]
             /\ (i = 1 => At1(i, j) # 1)
  <2>1. CASE i = 1
    BY <1>1, <1>2, <1>5, <1>6, <1>8, <2>1
  <2>2. CASE i # 1
    BY <1>6, <1>8, <2>2
  <2> QED
    BY <2>1, <2>2
<1>10. Apart(v)
  <2>1. SUFFICES ASSUME NEW i \in 1 .. Len(v), NEW k \in 1 .. Len(v),
                        NEW j \in 1 .. Len(v[i]), NEW m \in 1 .. Len(v[k]), v[i][j] = v[k][m]
                 PROVE  i = k /\ j = m
    BY DEF Apart
  <2>2. PICK x \in 1 .. Len(w[i]) : x = At1(i, j) /\ w[i][x] = v[i][j]
    BY <1>9
  <2>3. PICK y \in 1 .. Len(w[k]) : y = At1(k, m) /\ w[k][y] = v[k][m]
    BY <1>9
  <2>4. i \in 1 .. Len(w) /\ k \in 1 .. Len(w) /\ w[i][x] = w[k][y]
    BY <1>8, <2>1, <2>2, <2>3
  <2>5. i = k /\ x = y
    BY <2>4 DEF Apart
  <2>6. v[i] \in Seq(X) /\ Len(v[i]) \in Nat
    BY <1>8, ElementOf
  <2> QED
    BY <2>2, <2>3, <2>5, <2>6
<1>11. ASSUME Waits(b, v) PROVE FALSE
  <2>1. PICK i \in 1 .. Len(v) : \E j \in 1 .. Len(v[i]) : v[i][j] = b
    BY <1>11 DEF Waits
  <2>2. PICK j \in 1 .. Len(v[i]) : v[i][j] = b
    BY <2>1
  <2>3. PICK x \in 1 .. Len(w[i]) : w[i][x] = b /\ (i = 1 => x # 1)
    BY <1>9, <2>2
  <2>4. i \in 1 .. Len(w) /\ w[1][1] = b /\ 1 \in 1 .. Len(w[1])
    BY <1>2, <1>3, <1>8
  <2>5. i = 1 /\ x = 1
    BY <1>1, <2>3, <2>4 DEF Apart
  <2> QED
    BY <2>3, <2>5
<1>12. Waits(b, w)
  BY <1>1, <1>2, <1>3 DEF Waits
<1>13. ASSUME NEW c, Waits(c, v) PROVE Waits(c, w)
  <2>1. PICK i \in 1 .. Len(v) : \E j \in 1 .. Len(v[i]) : v[i][j] = c
    BY <1>13 DEF Waits
  <2>2. PICK j \in 1 .. Len(v[i]) : v[i][j] = c
    BY <2>1
  <2>3. i \in 1 .. Len(w) /\ \E x \in 1 .. Len(w[i]) : w[i][x] = c
    BY <1>9, <2>2
  <2> QED
    BY <2>3 DEF Waits
<1> HIDE DEF At1
<1> QED
  BY <1>3, <1>8, <1>10, <1>11, <1>12, <1>13 DEF Follows

LEMMA NextPhase ==
  ASSUME NEW X, NEW w \in Seq(Seq(X)), w # <<>>, Apart(w), NEW v, v = Tail(w)
  PROVE  /\ v \in Seq(Seq(X)) /\ Apart(v)
         /\ \A c : Waits(c, v) => Waits(c, w)
<1>1. /\ v \in Seq(Seq(X)) /\ \A i \in 1 .. Len(v) : i + 1 \in 1 .. Len(w) /\ v[i] = w[i + 1]
  OBVIOUS
<1>2. Apart(v)
  <2>1. SUFFICES ASSUME NEW i \in 1 .. Len(v), NEW k \in 1 .. Len(v),
                        NEW j \in 1 .. Len(v[i]), NEW m \in 1 .. Len(v[k]), v[i][j] = v[k][m]
                 PROVE  i = k /\ j = m
    BY DEF Apart
  <2>2. PICK a \in 1 .. Len(w) : a = i + 1 /\ v[i] = w[a]
    BY <1>1
  <2>3. PICK b \in 1 .. Len(w) : b = k + 1 /\ v[k] = w[b]
    BY <1>1
  <2>4. a = b /\ j = m
    BY <2>1, <2>2, <2>3 DEF Apart
  <2>5. Len(v) \in Nat
    BY <1>1
  <2> QED
    BY <2>2, <2>3, <2>4, <2>5
<1>3. ASSUME NEW c, Waits(c, v) PROVE Waits(c, w)
  BY <1>1, <1>3 DEF Waits
<1> QED
  BY <1>1, <1>2, <1>3

LEMMA ReportIs ==
  ASSUME report \in Seq(Reports), NEW i \in 1 .. Len(report)
  PROVE  report[i] \in Reports /\ report[i].run \in Nat
<1>1. report[i] \in Reports
  BY ElementOf
<1> QED
  BY <1>1 DEF Reports

LEMMA InitCampaign == Init => CampaignInv
<1> SUFFICES ASSUME Init PROVE CampaignInv
  OBVIOUS
<1>1. CampaignTypes
  BY DEF Init, CampaignTypes, Running
<1>2. WorkLeft
  BY DEF Init, WorkLeft, Running, Apart
<1>3. Found /\ Outputs
  BY DEF Init, Found, Outputs, Judged
<1>4. Files
  BY DEF Init, Files
<1>5. Reported
  BY DEF Init, Reported
<1>6. PanicsStayOnDisk /\ ReportTells
  BY DEF Init, PanicsStayOnDisk, ReportTells
<1> QED
  BY <1>1, <1>2, <1>3, <1>4, <1>5, <1>6 DEF CampaignInv
-----------------------------------------------------------------------------
(* main starts: new work, nothing found yet.                               *)
LEMMA InvokeKeeps ==
  ASSUME CampaignInv, Invoke PROVE CampaignInv'
<1> USE DEF CampaignInv
<1>1. /\ pc = "shell" /\ pc' = "phase" /\ run' = run + 1 /\ fuzzer' = fuzzer
      /\ all_leads' = <<>> /\ leads' = <<>> /\ seen' = {} /\ batch' = <<>>
      /\ corpus' = corpus /\ tmp' = tmp /\ report' = report /\ exit' = exit
  BY DEF Invoke, Forget, disk
<1>2. PICK a \in Arguments[run + 1] : seed' = a.seed /\ todo' = WorkOf(fuzzer, a.phases)
  BY DEF Invoke
<1>3. run \in Nat /\ fuzzer \in Fuzzers /\ report \in Seq(Reports)
  BY DEF CampaignTypes
<1>4. seed' \in Int
  <2>1. run < Len(Arguments)
    BY DEF Invoke
  <2>2. PICK n \in 1 .. Len(Arguments) : n = run + 1
    BY <1>3, <2>1, CampaignAssumption
  <2>3. Arguments[n] \in SUBSET [seed : Int, phases : SUBSET (Labels \union {"all"})]
    BY CampaignAssumption, ElementOf
  <2> QED
    BY <1>2, <2>2, <2>3
<1>5. todo' \in Seq(Seq(BatchIds)) /\ Apart(todo')
  BY <1>2, <1>3, WorkIs
<1>6. CampaignTypes'
  BY <1>1, <1>3, <1>4, <1>5 DEF CampaignTypes, Running
<1>7. WorkLeft'
  BY <1>1, <1>5 DEF WorkLeft, Running
<1>8. Found' /\ Outputs'
  BY <1>1 DEF Found, Outputs, Judged
<1>9. Files'
  BY <1>1 DEF Files, IsDump, IsLeadFile
<1>10. Reported'
  <2>1. \A i \in 1 .. Len(report) : report[i].run <= run /\ report[i].run \in Nat
    BY <1>3, ReportIs DEF Reported
  <2>2. \A i \in 1 .. Len(report) : report[i].run < run + 1 /\ report[i].run <= run + 1
    BY <1>3, <2>1
  <2> QED
    BY <1>1, <2>2 DEF Reported
<1>11. PanicsStayOnDisk' /\ ReportTells'
  BY <1>1 DEF PanicsStayOnDisk, ReportTells
<1> QED
  BY <1>6, <1>7, <1>8, <1>9, <1>10, <1>11

(* A driver is written for a batch that waited, so for no batch of seen.   *)
LEMMA WriteDriverKeeps ==
  ASSUME CampaignInv, WriteDriver PROVE CampaignInv'
<1> USE DEF CampaignInv
<1>1. /\ pc = "phase" /\ pc' = "golua" /\ todo # <<>> /\ Head(todo) # <<>>
      /\ batch' = Head(Head(todo)) /\ todo' = [todo EXCEPT ![1] = Tail(@)]
      /\ tmp' = tmp \union {Driver(batch')}
      /\ UNCHANGED <<fuzzer, run, seed, leads, all_leads, exit, corpus, report, seen>>
  BY DEF WriteDriver
<1>2. todo \in Seq(Seq(BatchIds)) /\ Apart(todo)
  BY DEF CampaignTypes, WorkLeft
<1>3. /\ batch' \in BatchIds /\ todo' \in Seq(Seq(BatchIds)) /\ todo' # <<>>
      /\ Apart(todo') /\ ~Waits(batch', todo') /\ Waits(batch', todo)
      /\ \A c : Waits(c, todo') => Waits(c, todo)
  <2>1. PICK b : b = batch'
    OBVIOUS
  <2>2. PICK v : v = todo'
    OBVIOUS
  <2>3. b = Head(Head(todo)) /\ v = Taken(todo)
    BY <1>1, <2>1, <2>2 DEF Taken
  <2>4. Follows(b, v, todo, BatchIds)
    BY <1>1, <1>2, <2>3, NextBatch
  <2> QED
    BY <2>1, <2>2, <2>4 DEF Follows
<1>4. CampaignTypes'
  BY <1>1, <1>3 DEF CampaignTypes, Running
<1>5. WorkLeft'
  <2>1. Driver(batch') \in tmp' /\ run' = run
    BY <1>1
  <2>2. Driver(batch)' = Driver(batch')
    BY <2>1 DEF Driver
  <2>3. ASSUME NEW s \in seen PROVE ~Waits(s.batch, todo') /\ s.batch # batch'
    <3>1. ~Waits(s.batch, todo)
      BY DEF WorkLeft
    <3> QED
      BY <1>3, <3>1
  <2> QED
    BY <1>1, <1>3, <2>1, <2>2, <2>3 DEF WorkLeft, Running
<1>6. Found'
  BY <1>1, <1>3 DEF Found
<1>7. Outputs'
  BY <1>1 DEF Outputs, Judged
<1>8. Files' /\ Reported'
  BY <1>1 DEF Files, IsDump, IsLeadFile, Reported
<1>9. PanicsStayOnDisk'
  BY <1>1 DEF PanicsStayOnDisk, DumpName, Driver
<1>10. ReportTells'
  BY <1>1 DEF ReportTells
<1> QED
  BY <1>4, <1>5, <1>6, <1>7, <1>8, <1>9, <1>10

LEMMA RunGoluaKeeps ==
  ASSUME CampaignInv, RunGolua PROVE CampaignInv'
<1> USE DEF CampaignInv
<1>1. /\ pc = "golua" /\ pc' = "reference"
      /\ UNCHANGED <<fuzzer, run, seed, todo, batch, leads, all_leads, exit, tmp, corpus,
                     report, seen>>
  BY DEF RunGolua, disk
<1>2. fuzzer \in Fuzzers
  BY DEF CampaignTypes
<1>3. PrintedOn(fuzzer, gout')
  <2>1. CASE gout' = TimedOut
    BY <2>1 DEF TimedOut, PrintedOn
  <2>2. CASE \E lines \in OutputsOf[fuzzer] \union {<<>>}, e \in Errors :
               gout' = [lines |-> lines, err |-> e]
    <3>1. PICK lines \in OutputsOf[fuzzer] \union {<<>>} :
             \E e \in Errors : gout' = [lines |-> lines, err |-> e]
      BY <2>2
    <3>2. gout'.lines = lines
      BY <3>1
    <3>3. lines = <<>> \/ PrintsUpTo(fuzzer, lines, Len(OpsOf[fuzzer]))
      BY <1>2, <3>1, OutputsAre
    <3> QED
      BY <3>2, <3>3 DEF PrintedOn
  <2> QED
    BY <2>1, <2>2 DEF RunGolua
<1>4. CampaignTypes'
  BY <1>1 DEF CampaignTypes, Running
<1>5. WorkLeft'
  BY <1>1 DEF WorkLeft, Running, Driver
<1>6. Found'
  BY <1>1 DEF Found
<1>7. Outputs'
  BY <1>1, <1>3 DEF Outputs, Judged
<1>8. Files' /\ Reported'
  BY <1>1 DEF Files, IsDump, IsLeadFile, Reported
<1>9. PanicsStayOnDisk'
  BY <1>1 DEF PanicsStayOnDisk, DumpName, Driver
<1>10. ReportTells'
  BY <1>1 DEF ReportTells
<1> QED
  BY <1>4, <1>5, <1>6, <1>7, <1>8, <1>9, <1>10

LEMMA RunReferenceKeeps ==
  ASSUME CampaignInv, RunReference PROVE CampaignInv'
<1> USE DEF CampaignInv
<1>1. /\ pc = "reference" /\ pc' = "judge"
      /\ UNCHANGED <<fuzzer, run, seed, todo, batch, gout, leads, all_leads, exit, tmp, corpus,
                     report, seen>>
  BY DEF RunReference, disk
<1>2. fuzzer \in Fuzzers
  BY DEF CampaignTypes
<1>3. PrintedOn(fuzzer, rout')
  <2>1. CASE rout' = TimedOut
    BY <2>1 DEF TimedOut, PrintedOn
  <2>2. CASE rout' # TimedOut
    <3>1. PICK p \in ReferencePicks :
             rout' = [lines |-> <<>> \o [n \in 1 .. Len(OpsOf[fuzzer]) |->
                                         Line(fuzzer, n, Usual(n, p))], err |-> ""]
      BY <2>2 DEF RunReference
    <3>2. rout'.lines = <<>> \o [n \in 1 .. Len(OpsOf[fuzzer]) |->
                                   Line(fuzzer, n, Usual(n, p))]
      BY <3>1
    <3>3. PICK lines : lines = rout'.lines
      OBVIOUS
    <3>4. PrintsUpTo(fuzzer, lines, Len(OpsOf[fuzzer]))
      BY <1>2, <3>2, <3>3, ReferenceLines
    <3> QED
      BY <3>3, <3>4 DEF PrintedOn
  <2> QED
    BY <2>1, <2>2
<1>4. CampaignTypes'
  BY <1>1 DEF CampaignTypes, Running
<1>5. WorkLeft'
  BY <1>1 DEF WorkLeft, Running, Driver
<1>6. Found'
  BY <1>1 DEF Found
<1>7. Outputs'
  BY <1>1, <1>3 DEF Outputs, Judged
<1>8. Files' /\ Reported'
  BY <1>1 DEF Files, IsDump, IsLeadFile, Reported
<1>9. PanicsStayOnDisk'
  BY <1>1 DEF PanicsStayOnDisk, DumpName, Driver
<1>10. ReportTells'
  BY <1>1 DEF ReportTells
<1> QED
  BY <1>4, <1>5, <1>6, <1>7, <1>8, <1>9, <1>10

LEMMA EndPhaseKeeps ==
  ASSUME CampaignInv, EndPhase PROVE CampaignInv'
<1> USE DEF CampaignInv
<1>1. /\ pc = "phase" /\ pc' = "phase" /\ todo # <<>> /\ batch' = <<>>
      /\ all_leads' = all_leads \o leads /\ leads' = <<>> /\ todo' = Tail(todo)
      /\ UNCHANGED <<fuzzer, run, seed, exit, tmp, corpus, report, seen>>
  BY DEF EndPhase, Forget, disk
<1>2. /\ todo \in Seq(Seq(BatchIds)) /\ Apart(todo)
      /\ leads \in Seq(LeadKinds) /\ all_leads \in Seq(LeadKinds)
  BY DEF CampaignTypes, WorkLeft
<1>3. /\ todo' \in Seq(Seq(BatchIds)) /\ Apart(todo')
      /\ \A c : Waits(c, todo') => Waits(c, todo)
  BY <1>1, <1>2, NextPhase
<1>4. /\ all_leads' \in Seq(LeadKinds)
      /\ all_leads' = <<>> <=> all_leads = <<>> /\ leads = <<>>
  <2>1. AreJoined(all_leads, leads, all_leads', LeadKinds)
    BY <1>1, <1>2, Joined
  <2>2. all_leads = <<>> /\ leads = <<>> => all_leads' = <<>>
    BY <1>1
  <2> QED
    BY <2>1, <2>2 DEF AreJoined
<1>5. CampaignTypes'
  BY <1>1, <1>3, <1>4 DEF CampaignTypes, Running
<1>6. WorkLeft'
  BY <1>1, <1>3 DEF WorkLeft, Running
<1>7. Found'
  BY <1>1, <1>4 DEF Found
<1>8. Outputs'
  BY <1>1 DEF Outputs, Judged
<1>9. Files' /\ Reported'
  BY <1>1 DEF Files, IsDump, IsLeadFile, Reported
<1>10. PanicsStayOnDisk'
  BY <1>1 DEF PanicsStayOnDisk, DumpName, Driver
<1>11. ReportTells'
  BY <1>1 DEF ReportTells
<1> QED
  BY <1>5, <1>6, <1>7, <1>8, <1>9, <1>10, <1>11
-----------------------------------------------------------------------------
(* The cleanup: a panic is the first lead of its batch, so it is among the  *)
(* last four of the phase when the batch gave at most four.                *)
LEMMA KindsAre ==
  ASSUME NEW L \in Seq(AnyLeads)
  PROVE  /\ KindsOf(L) \in Seq(LeadKinds) /\ Len(KindsOf(L)) = Len(L)
         /\ \A i \in 1 .. Len(L) : KindsOf(L)[i] = L[i].kind
<1>1. PICK k : k = [i \in 1 .. Len(L) |-> L[i].kind]
  OBVIOUS
<1>2. KindsOf(L) = k
  BY <1>1 DEF KindsOf
<1>3. ASSUME NEW i \in 1 .. Len(L) PROVE L[i].kind \in LeadKinds
  <2>1. L[i] \in AnyLeads
    BY ElementOf
  <2> QED
    BY <2>1 DEF AnyLeads
<1>4. k \in [1 .. Len(L) -> LeadKinds] /\ Len(L) \in Nat
  BY <1>1, <1>3
<1>5. k \in Seq(LeadKinds) /\ Len(k) = Len(L)
  BY <1>4, SequenceOf
<1> QED
  BY <1>1, <1>2, <1>5

LEMMA LastPart ==
  ASSUME NEW X, NEW s \in Seq(X), NEW m \in 1 .. Len(s), NEW p \in m .. Len(s)
  PROVE  s[p] \in ToSet(SubSeq(s, m, Len(s)))
<1>1. PICK n \in Nat : n = Len(s)
  OBVIOUS
<1>2. \A i \in m .. n : s[i] \in X
  BY <1>1
<1>3. PICK q : q = SubSeq(s, m, n)
  OBVIOUS
<1>4. m \in Int /\ n \in Int /\ m <= n
  BY <1>1
<1>5. /\ q \in Seq(X) /\ Len(q) = n - m + 1
      /\ \A i \in 1 .. n - m + 1 : q[i] = s[m + i - 1]
  BY <1>2, <1>3, <1>4, SubSeqProperties
<1>6. PICK i \in 1 .. n - m + 1 : m + i - 1 = p
  <2>1. p - m + 1 \in 1 .. n - m + 1 /\ m + (p - m + 1) - 1 = p
    BY <1>1, <1>4
  <2> QED
    BY <2>1
<1>7. q[i] = s[p] /\ i \in DOMAIN q
  BY <1>5, <1>6
<1> QED
  BY <1>1, <1>3, <1>7 DEF ToSet

LEMMA PanicIsAmongFour ==
  ASSUME NEW e \in Seq(LeadKinds), NEW k \in Seq(LeadKinds), Len(k) >= 1, Len(k) <= 4,
         k[1] = "PANIC"
  PROVE  "PANIC" \in ToSet(LastFour(e \o k))
<1>1. PICK s : s = e \o k
  OBVIOUS
<1>2. AreJoined(e, k, s, LeadKinds)
  BY <1>1, Joined
<1>3. PICK n \in Nat : n = Len(s)
  BY <1>2 DEF AreJoined
<1>4. PICK p \in 1 .. n : p = Len(e) + 1 /\ s[p] = "PANIC"
  <2>1. 1 \in 1 .. Len(k)
    BY <1>2 DEF AreJoined
  <2> QED
    BY <1>2, <1>3, <2>1 DEF AreJoined
<1>5. PICK m \in 1 .. n : m = IF n > 4 THEN n - 3 ELSE 1
  BY <1>3, <1>4
<1>6. m <= p
  BY <1>2, <1>3, <1>4, <1>5 DEF AreJoined
<1>7. LastFour(s) = SubSeq(s, m, Len(s))
  BY <1>3, <1>5 DEF LastFour
<1>8. s \in Seq(LeadKinds) /\ m \in 1 .. Len(s) /\ p \in m .. Len(s)
  BY <1>2, <1>3, <1>5, <1>6 DEF AreJoined
<1>9. s[p] \in ToSet(SubSeq(s, m, Len(s)))
  BY <1>8, LastPart
<1> QED
  BY <1>1, <1>4, <1>7, <1>9

(* Different batches have dumps and drivers of different names.            *)
LEMMA NamesDiffer ==
  ASSUME NEW b \in BatchIds, NEW c \in BatchIds, b # c
  PROVE  DumpName(b) # DumpName(c) /\ Driver(b) # Driver(c)
<1>1. b.label # c.label \/ b.zone # c.zone \/ b.no # c.no
  BY DEF BatchIds
<1> QED
  BY <1>1 DEF DumpName, Driver

LEMMA DumpIsNoLeadFile ==
  ASSUME NEW b, NEW k, NEW s PROVE DumpName(b) # LeadFile(k, s)
<1>1. Len(DumpName(b)) = 5 /\ Len(LeadFile(k, s)) = 2
  BY DEF DumpName, LeadFile
<1> QED
  BY <1>1

LEMMA JudgeBatchKeeps ==
  ASSUME CampaignInv, JudgeBatch PROVE CampaignInv'
<1> USE DEF CampaignInv
<1>1. PICK L : L = LeadsFrom(fuzzer, gout, rout)
  OBVIOUS
<1>2. PICK panicked : panicked = PanicIn(fuzzer, gout.err)
  OBVIOUS
<1>3. PICK keeps : keeps = IF fuzzer = "coercion" THEN panicked
                           ELSE "PANIC" \in ToSet(LastFour(leads \o KindsOf(L)))
  OBVIOUS
<1>4. PICK entry : entry = [batch |-> batch, leads |-> Len(L), panicked |-> panicked]
  OBVIOUS
<1>5. PICK dump : dump = [by |-> run, driver |-> Driver(batch)]
  OBVIOUS
<1>6. fuzzer \in Fuzzers /\ run \in Nat /\ seed \in Int /\ todo \in Seq(Seq(BatchIds))
  BY DEF CampaignTypes
<1>7. /\ pc = "judge" /\ pc' = "phase"
      /\ UNCHANGED <<fuzzer, run, seed, todo, batch, gout, rout, all_leads, exit, report>>
  BY DEF JudgeBatch
<1>8. /\ fresh' = L /\ leads' = leads \o KindsOf(L)
      /\ corpus' = IF panicked THEN Put(corpus, DumpName(batch), dump) ELSE corpus
      /\ tmp' = IF keeps THEN tmp ELSE tmp \ {Driver(batch)}
      /\ seen' = IF L = <<>> THEN seen ELSE seen \union {entry}
  <2>1. /\ RunBatch(fuzzer, gout, rout, leads).leads = L
        /\ RunBatch(fuzzer, gout, rout, leads).keeps = keeps
    BY <1>1, <1>2, <1>3, <1>6, RunBatchIs
  <2> QED
    BY <1>2, <1>4, <1>5, <2>1 DEF JudgeBatch
<1>9. PrintedOn(fuzzer, gout) /\ PrintedOn(fuzzer, rout)
  BY <1>7 DEF Outputs
<1>10. /\ batch \in BatchIds /\ ~Waits(batch, todo) /\ Driver(batch) \in tmp /\ todo # <<>>
       /\ \A s \in seen : s \in Seen /\ ~Waits(s.batch, todo) /\ s.batch # batch
       /\ leads \in Seq(LeadKinds) /\ seen \in SUBSET Seen
  BY <1>7 DEF CampaignTypes, WorkLeft, Running
<1>11. /\ L \in Seq(AnyLeads) /\ (L = <<>> => ~panicked)
       /\ panicked => Len(L) >= 1 /\ L[1].kind = "PANIC"
  BY <1>1, <1>2, <1>6, <1>9, LeadsFromSay DEF LeadsSay
<1>12. PICK k : k = KindsOf(L)
  OBVIOUS
<1>13. /\ k \in Seq(LeadKinds) /\ Len(k) = Len(L) /\ Len(L) \in Nat
       /\ panicked => k[1] = "PANIC"
  <2>1. panicked => 1 \in 1 .. Len(L)
    BY <1>11
  <2> QED
    BY <1>11, <1>12, <2>1, KindsAre
<1>14. AreJoined(leads, k, leads', LeadKinds)
  BY <1>8, <1>10, <1>12, <1>13, Joined
<1>15. entry \in Seen /\ entry.batch = batch /\ entry.leads = Len(L) /\ entry.panicked = panicked
  <2>1. panicked \in BOOLEAN
    BY <1>2 DEF PanicIn
  <2> QED
    BY <1>4, <1>10, <1>13, <2>1 DEF Seen
<1>16. seen' \subseteq Seen /\ \A s \in seen' : s \in seen \/ (s = entry /\ L # <<>>)
  BY <1>8, <1>10, <1>15
<1>17. CampaignTypes'
  <2>1. leads' \in Seq(LeadKinds)
    BY <1>14 DEF AreJoined
  <2> QED
    BY <1>7, <1>16, <2>1 DEF CampaignTypes, Running
<1>18. WorkLeft'
  BY <1>7, <1>10, <1>15, <1>16 DEF WorkLeft, Running
<1>19. Found'
  <2>1. seen' = {} <=> seen = {} /\ L = <<>>
    BY <1>8
  <2>2. leads' = <<>> <=> leads = <<>> /\ L = <<>>
    <3>1. k = <<>> <=> L = <<>>
      <4>1. k = <<>> => Len(k) = 0
        OBVIOUS
      <4>2. L = <<>> => Len(L) = 0
        OBVIOUS
      <4>3. Len(L) = 0 => L = <<>>
        BY <1>11, NothingLong
      <4>4. Len(k) = 0 => k = <<>>
        BY <1>13, NothingLong
      <4> QED
        BY <1>13, <4>1, <4>2, <4>3, <4>4
    <3>2. leads = <<>> /\ k = <<>> => leads' = <<>>
      BY <1>8, <1>12
    <3> QED
      BY <1>14, <3>1, <3>2 DEF AreJoined
  <2>3. seen = {} <=> leads = <<>> /\ all_leads = <<>>
    BY <1>7 DEF Found
  <2> QED
    BY <1>7, <1>10, <2>1, <2>2, <2>3 DEF Found
<1>20. Outputs'
  <2>1. LeadsFrom(fuzzer, gout, rout)' = LeadsFrom(fuzzer, gout, rout)
    BY <1>7
  <2> QED
    BY <1>1, <1>7, <1>8, <1>9, <2>1 DEF Outputs, Judged
<1>21. /\ \A x \in DOMAIN corpus : x \in DOMAIN corpus' /\ (x # DumpName(batch) => corpus'[x] = corpus[x])
       /\ \A x \in DOMAIN corpus' : x \in DOMAIN corpus \/ (x = DumpName(batch) /\ panicked)
       /\ panicked => DumpName(batch) \in DOMAIN corpus' /\ corpus'[DumpName(batch)] = dump
       /\ ~panicked => corpus' = corpus
  BY <1>8 DEF Put
<1>22. Files'
  <2>1. SUFFICES ASSUME NEW x \in DOMAIN corpus'
                 PROVE  IsDump(x, corpus'[x]) \/ IsLeadFile(x, corpus'[x])
    BY DEF Files, IsDump, IsLeadFile
  <2>2. CASE x = DumpName(batch) /\ panicked
    <3>1. corpus'[x] = dump /\ DOMAIN dump = {"by", "driver"}
      BY <1>5, <1>21, <2>2
    <3>2. x = <<"panic", batch.label, seed, batch.zone, batch.no>>
      BY <2>2 DEF DumpName
    <3> QED
      BY <1>6, <1>10, <3>1, <3>2 DEF IsDump
  <2>3. CASE ~(x = DumpName(batch) /\ panicked)
    <3>1. x \in DOMAIN corpus /\ corpus'[x] = corpus[x]
      BY <1>21, <2>1, <2>3
    <3> QED
      BY <3>1 DEF Files
  <2> QED
    BY <2>2, <2>3
<1>23. Reported'
  BY <1>7 DEF Reported
<1>24. PanicsStayOnDisk'
  <2>1. SUFFICES ASSUME NEW s \in seen', s.panicked
                 PROVE  /\ DumpName(s.batch) \in DOMAIN corpus'
                        /\ corpus'[DumpName(s.batch)] = [by |-> run, driver |-> Driver(s.batch)]
                        /\ fuzzer = "coercion" \/ s.leads <= 4 => Driver(s.batch) \in tmp'
    BY <1>7 DEF PanicsStayOnDisk, DumpName, Driver
  <2>2. CASE s \in seen
    <3>1. /\ DumpName(s.batch) \in DOMAIN corpus
          /\ corpus[DumpName(s.batch)] = [by |-> run, driver |-> Driver(s.batch)]
          /\ fuzzer = "coercion" \/ s.leads <= 4 => Driver(s.batch) \in tmp
      BY <2>1, <2>2 DEF PanicsStayOnDisk
    <3>2. s.batch \in BatchIds /\ s.batch # batch
      BY <1>10, <2>2 DEF Seen
    <3>3. DumpName(s.batch) # DumpName(batch) /\ Driver(s.batch) # Driver(batch)
      BY <1>10, <3>2, NamesDiffer
    <3> QED
      BY <1>8, <1>21, <3>1, <3>3
  <2>3. CASE s = entry
    <3>1. panicked /\ s.batch = batch /\ s.leads = Len(L)
      BY <1>15, <2>1, <2>3
    <3>2. /\ DumpName(batch) \in DOMAIN corpus' /\ corpus'[DumpName(batch)] = dump
      BY <1>21, <3>1
    <3>3. ASSUME fuzzer = "coercion" \/ Len(L) <= 4 PROVE Driver(batch) \in tmp'
      <4>1. CASE fuzzer = "coercion"
        BY <1>3, <1>8, <1>10, <3>1, <4>1
      <4>2. CASE fuzzer # "coercion"
        <5>1. Len(k) >= 1 /\ Len(k) <= 4 /\ k[1] = "PANIC"
          BY <1>11, <1>13, <3>1, <3>3, <4>2
        <5>2. "PANIC" \in ToSet(LastFour(leads \o k))
          BY <1>10, <1>13, <5>1, PanicIsAmongFour
        <5>3. keeps
          BY <1>3, <1>12, <4>2, <5>2
        <5> QED
          BY <1>8, <1>10, <5>3
      <4> QED
        BY <4>1, <4>2
    <3> QED
      BY <1>5, <3>1, <3>2, <3>3
  <2> QED
    BY <1>16, <2>2, <2>3
<1>25. ReportTells'
  BY <1>7 DEF ReportTells
<1> QED
  BY <1>17, <1>18, <1>19, <1>20, <1>22, <1>23, <1>24, <1>25
-----------------------------------------------------------------------------
(* main ends: the lead files of its seed and one more line of the report.  *)
LeadFiles == {LeadFile(kind, seed) : kind \in ToSet(all_leads)}

LEMMA KindsHeld ==
  ASSUME all_leads \in Seq(LeadKinds)
  PROVE  /\ ToSet(all_leads) \subseteq LeadKinds
         /\ all_leads # <<>> => \E k \in LeadKinds : k \in ToSet(all_leads)
<1>1. \A i \in 1 .. Len(all_leads) : all_leads[i] \in LeadKinds
  BY ElementOf
<1>2. ToSet(all_leads) = {all_leads[i] : i \in 1 .. Len(all_leads)}
  BY DEF ToSet
<1>3. all_leads # <<>> => 1 \in 1 .. Len(all_leads)
  OBVIOUS
<1> QED
  BY <1>1, <1>2, <1>3

LEMMA CorpusWritten ==
  ASSUME write_corpus
  PROVE  /\ DOMAIN corpus' = DOMAIN corpus \union LeadFiles
         /\ \A x \in LeadFiles : corpus'[x] = [by |-> run, seed |-> seed]
         /\ \A x \in DOMAIN corpus \ LeadFiles : corpus'[x] = corpus[x]
<1>1. corpus' = [x \in DOMAIN corpus \union LeadFiles |->
                   IF x \in LeadFiles THEN [by |-> run, seed |-> seed] ELSE corpus[x]]
  BY Zenon DEF write_corpus, LeadFiles
<1> HIDE DEF LeadFiles
<1> QED
  BY <1>1

LEMMA FinishKeeps ==
  ASSUME CampaignInv, Finish PROVE CampaignInv'
<1> USE DEF CampaignInv
<1>1. /\ pc = "phase" /\ pc' = "shell" /\ todo = <<>> /\ write_corpus /\ write_report
      /\ exit' = (IF all_leads = <<>> THEN 0 ELSE 1) /\ all_leads' = <<>>
      /\ UNCHANGED <<fuzzer, run, seed, todo, batch, gout, rout, fresh, leads, tmp, seen>>
  BY DEF Finish
<1>2. /\ fuzzer \in Fuzzers /\ run \in Nat /\ seed \in Int /\ report \in Seq(Reports)
      /\ all_leads \in Seq(LeadKinds) /\ seen \in SUBSET Seen
  BY DEF CampaignTypes
<1>3. PICK line : line = [run |-> run, seed |-> seed,
                          status |-> IF all_leads = <<>> THEN "CLEAN" ELSE "LEADS"]
  OBVIOUS
<1>4. line \in Reports /\ line.run = run /\ line.seed = seed
      /\ (line.status = "CLEAN" <=> all_leads = <<>>)
  BY <1>2, <1>3 DEF Reports
<1>5. report' = Append(report, line)
  BY <1>1, <1>3 DEF write_report
<1>6. PICK n \in Nat : n = Len(report)
  BY <1>2
<1>7. /\ report' \in Seq(Reports) /\ Len(report') = n + 1 /\ report'[n + 1] = line
      /\ \A i \in 1 .. n : report'[i] = report[i]
  BY <1>2, <1>4, <1>5, <1>6
<1>8. seen = {} <=> all_leads = <<>>
  BY <1>1 DEF Found
<1>9. CampaignTypes'
  BY <1>1, <1>7 DEF CampaignTypes, Running
<1>10. WorkLeft'
  BY <1>1 DEF WorkLeft, Running
<1>11. Found' /\ Outputs'
  BY <1>1 DEF Found, Outputs, Judged
<1>12. /\ DOMAIN corpus' = DOMAIN corpus \union LeadFiles
       /\ \A x \in LeadFiles : corpus'[x] = [by |-> run, seed |-> seed]
       /\ \A x \in DOMAIN corpus \ LeadFiles : corpus'[x] = corpus[x]
  BY <1>1, CorpusWritten
<1>13. Files'
  <2>1. SUFFICES ASSUME NEW x \in DOMAIN corpus'
                 PROVE  IsDump(x, corpus'[x]) \/ IsLeadFile(x, corpus'[x])
    BY DEF Files, IsDump, IsLeadFile
  <2>2. CASE x \in LeadFiles
    <3>1. PICK k \in ToSet(all_leads) : x = LeadFile(k, seed)
      BY <2>2 DEF LeadFiles
    <3>2. k \in LeadKinds /\ x = <<k, seed>>
      BY <1>2, <3>1, KindsHeld DEF LeadFile
    <3>3. corpus'[x].seed = seed
      BY <1>12, <2>2
    <3> QED
      BY <1>2, <3>2, <3>3 DEF IsLeadFile
  <2>3. CASE x \notin LeadFiles
    <3>1. x \in DOMAIN corpus /\ corpus'[x] = corpus[x]
      BY <1>12, <2>1, <2>3
    <3> QED
      BY <3>1 DEF Files
  <2> QED
    BY <2>2, <2>3
<1>14. \A i \in 1 .. n : report[i].run < run /\ report[i].run \in Nat
  BY <1>1, <1>2, <1>6, ReportIs DEF Reported
<1>15. \A i, j \in 1 .. n + 1 : i < j => report'[i].run < report'[j].run
  <2>1. SUFFICES ASSUME NEW i \in 1 .. n + 1, NEW j \in 1 .. n + 1, i < j
                 PROVE  report'[i].run < report'[j].run
    OBVIOUS
  <2>2. i \in 1 .. n /\ report'[i] = report[i]
    BY <1>6, <1>7, <2>1
  <2>3. CASE j = n + 1
    BY <1>4, <1>7, <1>14, <2>2, <2>3
  <2>4. CASE j # n + 1
    <3>1. j \in 1 .. n /\ report'[j] = report[j]
      BY <1>6, <1>7, <2>1, <2>4
    <3> QED
      BY <1>6, <2>1, <2>2, <3>1 DEF Reported
  <2> QED
    BY <2>3, <2>4
<1>16. Reported'
  <2>1. ASSUME NEW i \in 1 .. n + 1 PROVE report'[i].run <= run
    <3>1. CASE i = n + 1
      BY <1>2, <1>4, <1>7, <3>1
    <3>2. CASE i # n + 1
      <4>1. i \in 1 .. n /\ report'[i] = report[i]
        BY <1>6, <1>7, <3>2
      <4> QED
        BY <1>2, <1>14, <4>1
    <3> QED
      BY <3>1, <3>2
  <2> QED
    BY <1>1, <1>7, <1>15, <2>1 DEF Reported
<1>17. PanicsStayOnDisk'
  <2>1. SUFFICES ASSUME NEW s \in seen, s.panicked
                 PROVE  /\ DumpName(s.batch) \in DOMAIN corpus'
                        /\ corpus'[DumpName(s.batch)] = [by |-> run, driver |-> Driver(s.batch)]
                        /\ fuzzer = "coercion" \/ s.leads <= 4 => Driver(s.batch) \in tmp
    BY <1>1 DEF PanicsStayOnDisk, DumpName, Driver
  <2>2. /\ DumpName(s.batch) \in DOMAIN corpus
        /\ corpus[DumpName(s.batch)] = [by |-> run, driver |-> Driver(s.batch)]
        /\ fuzzer = "coercion" \/ s.leads <= 4 => Driver(s.batch) \in tmp
    BY <2>1 DEF PanicsStayOnDisk
  <2>3. DumpName(s.batch) \notin LeadFiles
    BY DumpIsNoLeadFile DEF LeadFiles
  <2> QED
    BY <1>12, <2>2, <2>3
<1>18. ReportTells'
  <2>1. report'[Len(report')] = line
    BY <1>6, <1>7
  <2>2. (exit' = 0) = (seen = {})
    BY <1>1, <1>8
  <2>3. ASSUME seen # {}
        PROVE  \E x \in DOMAIN corpus' :
                 x \in {LeadFile(k, seed) : k \in {"PANIC", "INVARIANT", "DIFF"}}
                 /\ corpus'[x].by = run
    <3>1. PICK k \in LeadKinds : k \in ToSet(all_leads)
      BY <1>2, <1>8, <2>3, KindsHeld
    <3>2. LeadFile(k, seed) \in LeadFiles
      BY <3>1 DEF LeadFiles
    <3>3. corpus'[LeadFile(k, seed)].by = run /\ LeadFile(k, seed) \in DOMAIN corpus'
      BY <1>12, <3>2
    <3> QED
      BY <3>1, <3>3 DEF LeadKinds
  <2>4. \A x : LeadFile(x, seed)' = LeadFile(x, seed)
    BY <1>1 DEF LeadFile
  <2>5. (line.status = "CLEAN") = (seen = {})
    BY <1>4, <1>8
  <2> QED
    BY <1>1, <1>4, <1>7, <1>15, <2>1, <2>2, <2>3, <2>4, <2>5 DEF ReportTells, LeadFile
<1> QED
  BY <1>9, <1>10, <1>11, <1>13, <1>16, <1>17, <1>18

LEMMA InterruptKeeps ==
  ASSUME CampaignInv, Interrupt PROVE CampaignInv'
<1> USE DEF CampaignInv
<1>1. PICK keeps : keeps = RunBatch(fuzzer, NoOutput, NoOutput, leads).keeps
  OBVIOUS
<1>2. /\ pc \in {"golua", "reference"} /\ pc' = "shell" /\ exit' = 130 /\ batch' = <<>>
      /\ tmp' = (IF keeps THEN tmp ELSE tmp \ {Driver(batch)})
      /\ leads' = <<>> /\ all_leads' = <<>> /\ todo' = <<>>
      /\ UNCHANGED <<fuzzer, run, seed, corpus, report, seen>>
  BY <1>1 DEF Interrupt, Forget
<1>3. batch \in BatchIds /\ \A s \in seen : s \in Seen /\ s.batch # batch
  BY <1>2 DEF CampaignTypes, WorkLeft, Running
<1>4. CampaignTypes'
  BY <1>2 DEF CampaignTypes, Running
<1>5. WorkLeft'
  BY <1>2 DEF WorkLeft, Running, Apart, Waits
<1>6. Found' /\ Outputs'
  BY <1>2 DEF Found, Outputs, Judged
<1>7. Files'
  BY <1>2 DEF Files, IsDump, IsLeadFile
<1>8. Reported'
  BY <1>2 DEF Reported
<1>9. PanicsStayOnDisk'
  <2>1. SUFFICES ASSUME NEW s \in seen, s.panicked
                 PROVE  /\ DumpName(s.batch) \in DOMAIN corpus
                        /\ corpus[DumpName(s.batch)] = [by |-> run, driver |-> Driver(s.batch)]
                        /\ fuzzer = "coercion" \/ s.leads <= 4 => Driver(s.batch) \in tmp'
    BY <1>2 DEF PanicsStayOnDisk, DumpName, Driver
  <2>2. /\ DumpName(s.batch) \in DOMAIN corpus
        /\ corpus[DumpName(s.batch)] = [by |-> run, driver |-> Driver(s.batch)]
        /\ fuzzer = "coercion" \/ s.leads <= 4 => Driver(s.batch) \in tmp
    BY <2>1 DEF PanicsStayOnDisk
  <2>3. s.batch \in BatchIds /\ s.batch # batch
    BY <1>3 DEF Seen
  <2>4. Driver(s.batch) # Driver(batch)
    BY <1>3, <2>3, NamesDiffer
  <2> QED
    BY <1>2, <2>2, <2>4
<1>10. ReportTells'
  BY <1>2 DEF ReportTells
<1> QED
  BY <1>4, <1>5, <1>6, <1>7, <1>8, <1>9, <1>10

LEMMA StutterKeeps ==
  ASSUME CampaignInv, UNCHANGED vars PROVE CampaignInv'
<1> USE DEF CampaignInv, vars
<1>1. CampaignTypes'
  BY DEF CampaignTypes, Running
<1>2. WorkLeft'
  BY DEF WorkLeft, Running, Driver
<1>3. Found' /\ Reported'
  BY DEF Found, Reported
<1>4. Outputs'
  <2>1. LeadsFrom(fuzzer, gout, rout)' = LeadsFrom(fuzzer, gout, rout)
    OBVIOUS
  <2> QED
    BY <2>1 DEF Outputs, Judged
<1>5. Files'
  BY DEF Files, IsDump, IsLeadFile
<1>6. PanicsStayOnDisk'
  BY DEF PanicsStayOnDisk, DumpName, Driver
<1>7. ReportTells'
  BY DEF ReportTells, LeadFile
<1> QED
  BY <1>1, <1>2, <1>3, <1>4, <1>5, <1>6, <1>7

-----------------------------------------------------------------------------
(* The invariant of a loop of invocations, whatever the interpreters print *)
(* and however they end, for any number of batches, zones and invocations. *)
THEOREM CampaignInvariant == Spec => []CampaignInv
<1>1. Init => CampaignInv
  BY InitCampaign
<1>2. CampaignInv /\ [Next]_vars => CampaignInv'
  <2> SUFFICES ASSUME CampaignInv, [Next]_vars PROVE CampaignInv'
    OBVIOUS
  <2>1. CASE Invoke
    BY <2>1, InvokeKeeps
  <2>2. CASE WriteDriver
    BY <2>2, WriteDriverKeeps
  <2>3. CASE RunGolua
    BY <2>3, RunGoluaKeeps
  <2>4. CASE RunReference
    BY <2>4, RunReferenceKeeps
  <2>5. CASE JudgeBatch
    BY <2>5, JudgeBatchKeeps
  <2>6. CASE EndPhase
    BY <2>6, EndPhaseKeeps
  <2>7. CASE Finish
    BY <2>7, FinishKeeps
  <2>8. CASE Interrupt
    BY <2>8, InterruptKeeps
  <2>9. CASE UNCHANGED vars
    BY <2>9, StutterKeeps
  <2> QED
    BY <2>1, <2>2, <2>3, <2>4, <2>5, <2>6, <2>7, <2>8, <2>9 DEF Next
<1> QED
  BY <1>1, <1>2, PTL DEF Spec

(* A batch without a lead is one on which golua did not panic, no check of *)
(* its own failed, and whatever one interpreter printed the other printed  *)
(* too, or it is excused.                                                  *)
THEOREM SilenceAlwaysMeansAgreement == Spec => []SilenceMeansAgreement
<1>1. CampaignInv => SilenceMeansAgreement
  <2>1. SUFFICES ASSUME CampaignInv, Judged, fresh = <<>>
                 PROVE  /\ gout.err # "panic"
                        /\ \A l \in ToSet(gout.lines) : l.op = "INV" => l.val # "false"
                        /\ \A l \in Results(gout) : Matched(l, rout, Excuse)
                        /\ \A l \in Results(rout) : Matched(l, gout, LAMBDA a, b : Excuse(b, a))
    BY DEF SilenceMeansAgreement
  <2>2. /\ fuzzer \in Fuzzers /\ PrintedOn(fuzzer, gout) /\ PrintedOn(fuzzer, rout)
        /\ LeadsFrom(fuzzer, gout, rout) = <<>>
    BY <2>1 DEF CampaignInv, CampaignTypes, Outputs
  <2> QED
    BY <2>2, Silence
<1> QED
  BY <1>1, CampaignInvariant, PTL

(* No lead is a false one: each names a difference, a failed check or a    *)
(* panic that is there in what the interpreters printed.                   *)
THEOREM LeadsAreAlwaysReal == Spec => []LeadsAreReal
<1>1. CampaignInv => LeadsAreReal
  <2>1. SUFFICES ASSUME CampaignInv, Judged, NEW i \in 1 .. Len(fresh), NEW lead, lead = fresh[i]
                 PROVE  CASE lead.kind = "DIFF" -> LastOf(gout, lead.key) # LastOf(rout, lead.key)
                          [] lead.kind = "INVARIANT" ->
                               \E l \in ToSet(gout.lines) :
                                 KeyOf(l) = lead.key /\ l.op = "INV" /\ l.val = "false"
                          [] OTHER -> i = 1 /\ gout.err \in {"panic", "runtime error"}
    BY DEF LeadsAreReal, LastOf
  <2>2. /\ fuzzer \in Fuzzers /\ PrintedOn(fuzzer, gout) /\ PrintedOn(fuzzer, rout)
        /\ fresh = LeadsFrom(fuzzer, gout, rout)
    BY <2>1 DEF CampaignInv, CampaignTypes, Outputs
  <2>3. /\ lead.kind = "DIFF" => LastOf(gout, lead.key) # LastOf(rout, lead.key)
        /\ lead.kind = "INVARIANT" =>
             \E l \in ToSet(gout.lines) : KeyOf(l) = lead.key /\ l.op = "INV" /\ l.val = "false"
        /\ lead.kind \notin {"DIFF", "INVARIANT"} =>
             i = 1 /\ gout.err \in {"panic", "runtime error"}
    BY <2>1, <2>2, Real
  <2> QED
    BY <2>3
<1> QED
  BY <1>1, CampaignInvariant, PTL

(* Every panic keeps its dump, and its driver while at most three leads    *)
(* follow it, through later batches, phases, zones and an interruption.    *)
THEOREM PanicsAlwaysStay == Spec => []PanicsStayOnDisk
<1>1. CampaignInv => PanicsStayOnDisk
  BY DEF CampaignInv
<1> QED
  BY <1>1, CampaignInvariant, PTL

(* The report, the lead files and the exit status agree with the batches   *)
(* that gave leads.                                                        *)
THEOREM CampaignReportTells == Spec => []ReportTells
<1>1. CampaignInv => ReportTells
  BY DEF CampaignInv
<1> QED
  BY <1>1, CampaignInvariant, PTL
-----------------------------------------------------------------------------
(* What a step must leave: the lead files of the other seeds and the lines *)
(* of the report.                                                          *)
LeavesLeadFiles ==
  \A x \in DOMAIN corpus :
    /\ x \in DOMAIN corpus'
    /\ "seed" \in DOMAIN corpus[x] /\ corpus[x].seed # seed => corpus'[x] = corpus[x]
LeavesReport == Len(report) <= Len(report') /\ report = SubSeq(report', 1, Len(report))

LEMMA ReportGrows ==
  ASSUME NEW X, NEW s \in Seq(X), NEW t \in Seq(X), Len(s) <= Len(t),
         \A i \in 1 .. Len(s) : t[i] = s[i]
  PROVE  s = SubSeq(t, 1, Len(s))
<1>1. PICK n \in Nat : n = Len(s)
  OBVIOUS
<1>2. PICK u : u = SubSeq(t, 1, n)
  OBVIOUS
<1>3. u \in Seq(X) /\ Len(u) = n /\ \A i \in 1 .. n : u[i] = t[i]
  BY <1>1, <1>2
<1>4. \A i \in 1 .. n : u[i] = s[i]
  BY <1>1, <1>3
<1>5. u = s
  BY <1>1, <1>3, <1>4, SeqEqual
<1> QED
  BY <1>1, <1>2, <1>5

LEMMA JudgeBatchLeaves ==
  ASSUME CampaignInv, JudgeBatch PROVE LeavesLeadFiles
<1>1. PICK dump : corpus' = corpus \/ corpus' = Put(corpus, DumpName(batch), dump)
  BY DEF JudgeBatch
<1>2. SUFFICES ASSUME NEW x \in DOMAIN corpus
               PROVE  /\ x \in DOMAIN corpus'
                      /\ "seed" \in DOMAIN corpus[x] /\ corpus[x].seed # seed =>
                           corpus'[x] = corpus[x]
  BY DEF LeavesLeadFiles
<1>3. CASE corpus' = corpus
  BY <1>3
<1>4. CASE corpus' = Put(corpus, DumpName(batch), dump) /\ x # DumpName(batch)
  BY <1>4 DEF Put
<1>5. CASE corpus' = Put(corpus, DumpName(batch), dump) /\ x = DumpName(batch)
  <2>1. x \in DOMAIN corpus'
    BY <1>5 DEF Put
  <2>2. ~IsLeadFile(x, corpus[x])
    <3>1. SUFFICES ASSUME NEW k, NEW s, x = <<k, s>> PROVE FALSE
      BY DEF IsLeadFile
    <3> QED
      BY <1>5, <3>1, DumpIsNoLeadFile DEF LeadFile
  <2>3. IsDump(x, corpus[x])
    BY <2>2 DEF CampaignInv, Files
  <2>4. "seed" \notin DOMAIN corpus[x]
    BY <2>3 DEF IsDump
  <2> QED
    BY <2>1, <2>4
<1> QED
  BY <1>1, <1>3, <1>4, <1>5

LEMMA FinishLeaves ==
  ASSUME CampaignInv, Finish PROVE LeavesLeadFiles /\ LeavesReport
<1>1. write_corpus /\ write_report
  BY DEF Finish
<1>2. /\ run \in Nat /\ seed \in Int /\ report \in Seq(Reports)
      /\ all_leads \in Seq(LeadKinds)
  BY DEF CampaignInv, CampaignTypes
<1>3. LeavesLeadFiles
  <2>1. SUFFICES ASSUME NEW x \in DOMAIN corpus
                 PROVE  /\ x \in DOMAIN corpus'
                        /\ "seed" \in DOMAIN corpus[x] /\ corpus[x].seed # seed =>
                             corpus'[x] = corpus[x]
    BY DEF LeavesLeadFiles
  <2>2. x \in DOMAIN corpus' /\ (x \notin LeadFiles => corpus'[x] = corpus[x])
    BY <1>1, <2>1, CorpusWritten
  <2>3. ASSUME x \in LeadFiles, "seed" \in DOMAIN corpus[x] PROVE corpus[x].seed = seed
    <3>1. PICK k : x = LeadFile(k, seed)
      BY <2>3 DEF LeadFiles
    <3>2. IsLeadFile(x, corpus[x])
      BY <2>3 DEF CampaignInv, Files, IsDump
    <3>3. PICK l, s : x = <<l, s>> /\ corpus[x].seed = s
      BY <3>2 DEF IsLeadFile
    <3> QED
      BY <3>1, <3>3 DEF LeadFile
  <2> QED
    BY <2>2, <2>3
<1>4. LeavesReport
  <2>1. PICK line : line = [run |-> run, seed |-> seed,
                            status |-> IF all_leads = <<>> THEN "CLEAN" ELSE "LEADS"]
    OBVIOUS
  <2>2. line \in Reports
    BY <1>2, <2>1 DEF Reports
  <2>3. report' = Append(report, line)
    BY <1>1, <2>1 DEF write_report
  <2>4. /\ report' \in Seq(Reports) /\ Len(report) <= Len(report')
        /\ \A i \in 1 .. Len(report) : report'[i] = report[i]
    BY <1>2, <2>2, <2>3
  <2> QED
    BY <1>2, <2>4, ReportGrows DEF LeavesReport
<1> QED
  BY <1>3, <1>4

(* A loop over seeds never clobbers: no step changes a lead file of another *)
(* seed, a panic dump never takes the name of a lead file, and the report  *)
(* only grows.                                                             *)
THEOREM NothingClobbered == Spec => NeverClobbers
<1>1. CampaignInv /\ [Next]_vars => [LeavesLeadFiles /\ LeavesReport]_vars
  <2> SUFFICES ASSUME CampaignInv, Next PROVE LeavesLeadFiles /\ LeavesReport
    OBVIOUS
  <2>1. report \in Seq(Reports)
    BY DEF CampaignInv, CampaignTypes
  <2>2. ASSUME report' = report PROVE LeavesReport
    BY <2>1, <2>2, ReportGrows DEF LeavesReport
  <2>3. ASSUME corpus' = corpus PROVE LeavesLeadFiles
    BY <2>3 DEF LeavesLeadFiles
  <2>4. CASE Invoke \/ WriteDriver \/ RunGolua \/ RunReference \/ EndPhase \/ Interrupt
    <3>1. corpus' = corpus /\ report' = report
      BY <2>4 DEF Invoke, WriteDriver, RunGolua, RunReference, EndPhase, Interrupt, disk
    <3> QED
      BY <2>2, <2>3, <3>1
  <2>5. CASE JudgeBatch
    <3>1. report' = report
      BY <2>5 DEF JudgeBatch
    <3> QED
      BY <2>2, <2>5, <3>1, JudgeBatchLeaves
  <2>6. CASE Finish
    BY <2>6, FinishLeaves
  <2> QED
    BY <2>4, <2>5, <2>6 DEF Next
<1>2. [LeavesLeadFiles /\ LeavesReport]_vars
        => [/\ \A x \in DOMAIN corpus :
                 /\ x \in DOMAIN corpus'
                 /\ "seed" \in DOMAIN corpus[x] /\ corpus[x].seed # seed =>
                      corpus'[x] = corpus[x]
            /\ Len(report) <= Len(report') /\ report = SubSeq(report', 1, Len(report))]_vars
  BY DEF LeavesLeadFiles, LeavesReport
<1> QED
  BY <1>1, <1>2, CampaignInvariant, PTL DEF Spec, NeverClobbers
=============================================================================
