-------------------------- MODULE Collector_proofs --------------------------
(***************************************************************************)
(* Proofs about Collector: what a collection takes, and how often it       *)
(* finalizes, for any number of objects and coroutines.                    *)
(***************************************************************************)
EXTENDS Collector, FiniteSetTheorems, SequenceTheorems, TLAPS

(* Induction: a set of numbers that has 0 and every successor has them all, *)
(* for otherwise there would be a least one outside it.                     *)
LEMMA LeastNumber ==
  ASSUME NEW T \in SUBSET Nat, T # {}
  PROVE  \E n \in T : \A m \in T : n <= m
<1>1. PICK x \in T : \A y \in T : ~(<<y, x>> \in OpToRel(<, Nat))
  BY NatLessThanWellFounded, WFMin
<1>2. \A y \in T : y < x => <<y, x>> \in OpToRel(<, Nat)
  BY Zenon DEF OpToRel
<1>3. \A y \in T : ~(y < x)
  BY <1>1, <1>2, Zenon
<1>4. x \in Nat /\ \A y \in T : y \in Nat
  OBVIOUS
<1> QED
  BY <1>3, <1>4

LEMMA AllNumbers ==
  ASSUME NEW T, 0 \in T, \A n \in T : n \in Nat => n + 1 \in T
  PROVE  Nat \subseteq T
<1> SUFFICES ASSUME Nat \ T # {} PROVE FALSE
  OBVIOUS
<1>1. Nat \ T \in SUBSET Nat
  OBVIOUS
<1>2. PICK n \in Nat \ T : \A m \in Nat \ T : n <= m
  BY <1>1, LeastNumber, Zenon
<1>3. n # 0 /\ n - 1 \in Nat
  BY <1>2
<1>4. n - 1 \in T
  BY <1>2, <1>3
<1>5. (n - 1) + 1 = n
  BY <1>2
<1> QED
  BY <1>2, <1>3, <1>4, <1>5

-----------------------------------------------------------------------------
(* How often a list has an object.                                         *)

LEMMA TimesIs ==
  ASSUME NEW X, NEW s \in Seq(X), NEW o
  PROVE  /\ IsFiniteSet({i \in DOMAIN s : s[i] = o}) /\ Times(o, s) \in Nat
         /\ o \in ToSet(s) <=> Times(o, s) # 0
<1> DEFINE S == {i \in DOMAIN s : s[i] = o}
<1>1. DOMAIN s = 1..Len(s) /\ Len(s) \in Nat
  OBVIOUS
<1>2. IsFiniteSet(1..Len(s)) /\ S \subseteq 1..Len(s)
  BY <1>1, FS_Interval
<1>3. IsFiniteSet(S)
  BY <1>2, FS_Subset
<1>4. Cardinality(S) \in Nat /\ (Cardinality(S) = 0 <=> S = {})
  BY <1>3, FS_CardinalityType, FS_EmptySet
<1>5. o \in ToSet(s) <=> S # {}
  BY DEF ToSet
<1> QED
  BY <1>3, <1>4, <1>5 DEF Times

LEMMA TimesEmpty == \A o : Times(o, <<>>) = 0
<1> TAKE o
<1>1. {i \in DOMAIN <<>> : <<>>[i] = o} = {}
  OBVIOUS
<1> QED
  BY <1>1, FS_EmptySet DEF Times

LEMMA TimesAppend ==
  ASSUME NEW X, NEW s \in Seq(X), NEW x \in X, NEW o
  PROVE  Times(o, Append(s, x)) = Times(o, s) + (IF x = o THEN 1 ELSE 0)
<1> DEFINE t == Append(s, x)
           S == {i \in DOMAIN s : s[i] = o}
           T == {i \in DOMAIN t : t[i] = o}
<1>1. /\ DOMAIN s = 1..Len(s) /\ DOMAIN t = 1..(Len(s) + 1) /\ Len(s) \in Nat
      /\ \A i \in 1..Len(s) : t[i] = s[i]
      /\ t[Len(s) + 1] = x
  OBVIOUS
<1>2. IsFiniteSet(S) /\ Cardinality(S) \in Nat
  BY TimesIs DEF Times
<1> HIDE DEF t
<1>3. CASE x = o
  <2>1. T = S \cup {Len(s) + 1} /\ Len(s) + 1 \notin S
    BY <1>1, <1>3
  <2> HIDE DEF S, T
  <2>2. Cardinality(T) = Cardinality(S) + 1
    BY <1>2, <2>1, FS_AddElement
  <2> QED
    BY <1>3, <2>2 DEF Times, S, T, t
<1>4. CASE x # o
  <2>1. T = S
    BY <1>1, <1>4
  <2>2. Cardinality(S) + 0 = Cardinality(S)
    BY <1>2
  <2> QED
    BY <1>4, <2>1, <2>2 DEF Times, t
<1> QED
  BY <1>3, <1>4

LEMMA TimesReverse ==
  ASSUME NEW X, NEW s \in Seq(X), NEW o
  PROVE  Reverse(s) \in Seq(X) /\ Times(o, Reverse(s)) = Times(o, s)
<1> DEFINE n == Len(s)
           t == Reverse(s)
           S == {i \in DOMAIN s : s[i] = o}
           T == {i \in DOMAIN t : t[i] = o}
           f == [i \in S |-> (n - i) + 1]
<1>1. DOMAIN s = 1..n /\ n \in Nat /\ \A i \in 1..n : s[i] \in X
  OBVIOUS
<1>2. t = [i \in 1..n |-> s[(n - i) + 1]]
  BY DEF Reverse
<1>3. \A i \in 1..n : (n - i) + 1 \in 1..n /\ (n - ((n - i) + 1)) + 1 = i
  BY <1>1
<1>4. t \in Seq(X) /\ DOMAIN t = 1..n
  BY <1>1, <1>2, <1>3
<1>5. \A i \in S : (n - i) + 1 \in T
  BY <1>1, <1>2, <1>3, <1>4
<1>6. \A i \in T : (n - i) + 1 \in S
  BY <1>1, <1>2, <1>3, <1>4
<1>7. f \in Bijection(S, T)
  <2>1. f \in [S -> T]
    BY <1>5
  <2>2. \A i, j \in S : f[i] = f[j] => i = j
    BY <1>1
  <2>3. \A j \in T : \E i \in S : f[i] = j
    <3> TAKE j \in T
    <3>1. (n - j) + 1 \in S /\ (n - ((n - j) + 1)) + 1 = j
      BY <1>3, <1>4, <1>6
    <3> QED
      BY <3>1
  <2> HIDE DEF f, S, T
  <2> QED
    BY <2>1, <2>2, <2>3 DEF Bijection, Injection, Surjection, IsInjective
<1>8. IsFiniteSet(S)
  BY TimesIs
<1>9. Cardinality(T) = Cardinality(S)
  <2> HIDE DEF f, S, T
  <2> QED
    BY <1>7, <1>8, FS_Bijection DEF ExistsBijection
<1> QED
  BY <1>4, <1>9 DEF Times

LEMMA TimesTail ==
  ASSUME NEW X, NEW s \in Seq(X), s # <<>>, NEW o
  PROVE  /\ Head(s) \in X /\ Tail(s) \in Seq(X)
         /\ Times(o, s) = Times(o, Tail(s)) + (IF Head(s) = o THEN 1 ELSE 0)
<1> DEFINE n == Len(s)
           t == Tail(s)
           S == {i \in DOMAIN s : s[i] = o}
           T == {i \in DOMAIN t : t[i] = o}
           f == [i \in T |-> i + 1]
<1>1. /\ DOMAIN s = 1..n /\ n \in Nat \ {0} /\ t \in Seq(X) /\ Len(t) = n - 1
      /\ DOMAIN t = 1..(n - 1) /\ \A i \in 1..(n - 1) : t[i] = s[i + 1]
      /\ Head(s) = s[1] /\ Head(s) \in X
  BY EmptySeq, HeadTailProperties
<1>2. IsFiniteSet(S) /\ IsFiniteSet(T)
  <2> HIDE DEF t
  <2> QED
    BY <1>1, TimesIs
<1> HIDE DEF t
<1>3. f \in Bijection(T, S \ {1})
  <2>1. f \in [T -> S \ {1}]
    BY <1>1
  <2>2. \A i, j \in T : f[i] = f[j] => i = j
    BY <1>1
  <2>3. \A j \in S \ {1} : \E i \in T : f[i] = j
    <3> TAKE j \in S \ {1}
    <3>1. j - 1 \in T /\ (j - 1) + 1 = j
      BY <1>1
    <3> QED
      BY <3>1
  <2> HIDE DEF f, S, T
  <2> QED
    BY <2>1, <2>2, <2>3 DEF Bijection, Injection, Surjection, IsInjective
<1>4. Cardinality(S \ {1}) = Cardinality(T) /\ Cardinality(T) \in Nat
  <2> HIDE DEF f, S, T
  <2> QED
    BY <1>2, <1>3, FS_Bijection, FS_CardinalityType DEF ExistsBijection
<1>5. Cardinality(S) = Cardinality(T) + (IF Head(s) = o THEN 1 ELSE 0)
  <2>1. 1 \in S <=> Head(s) = o
    BY <1>1
  <2>2. /\ Cardinality(S) \in Nat
        /\ Cardinality(S \ {1}) = IF 1 \in S THEN Cardinality(S) - 1 ELSE Cardinality(S)
    <3> HIDE DEF S, T
    <3> QED
      BY <1>2, FS_RemoveElement, FS_CardinalityType
  <2> HIDE DEF S, T
  <2> QED
    BY <1>4, <2>1, <2>2
<1> QED
  BY <1>1, <1>5 DEF Times, t
-----------------------------------------------------------------------------
(* Sifting keeps what is in the set as often as it was there.              *)

Sifts(f, s, S, n) ==
    f = [k \in 0..n |-> IF k = 0 THEN <<>>
                        ELSE IF s[k] \in S THEN Append(f[k - 1], s[k]) ELSE f[k - 1]]

LEMMA SiftsExists ==
  ASSUME NEW s, NEW S, NEW n \in Nat
  PROVE  \E f : Sifts(f, s, S, n)
<1> DEFINE T == {m \in Nat : \E f : Sifts(f, s, S, m)}
<1>1. 0 \in T
  <2> DEFINE f == [k \in 0..0 |-> <<>>]
  <2>1. Sifts(f, s, S, 0)
    BY DEF Sifts
  <2> QED
    BY <2>1
<1>2. ASSUME NEW m \in T, m \in Nat PROVE m + 1 \in T
  <2>1. PICK f : Sifts(f, s, S, m)
    BY <1>2
  <2> DEFINE g == [k \in 0..(m + 1) |->
                     IF k <= m THEN f[k]
                     ELSE IF s[k] \in S THEN Append(f[m], s[k]) ELSE f[m]]
  <2>2. ASSUME NEW k \in 0..(m + 1)
        PROVE  g[k] = IF k = 0 THEN <<>>
                      ELSE IF s[k] \in S THEN Append(g[k - 1], s[k]) ELSE g[k - 1]
    <3>1. CASE k <= m
      <4>1. g[k] = f[k] /\ k \in 0..m /\ (k # 0 => k - 1 \in 0..m)
        BY <1>2, <3>1
      <4>2. f[k] = IF k = 0 THEN <<>>
                   ELSE IF s[k] \in S THEN Append(f[k - 1], s[k]) ELSE f[k - 1]
        BY <2>1, <4>1 DEF Sifts
      <4>3. k # 0 => g[k - 1] = f[k - 1]
        BY <1>2, <4>1
      <4> QED
        BY <4>1, <4>2, <4>3
    <3>2. CASE k = m + 1
      <4>1. g[k] = IF s[k] \in S THEN Append(f[m], s[k]) ELSE f[m]
        BY <1>2, <3>2
      <4>2. k # 0 /\ k - 1 = m /\ m \in 0..(m + 1) /\ g[m] = f[m]
        BY <1>2, <3>2
      <4> QED
        BY <4>1, <4>2
    <3> QED
      BY <1>2, <3>1, <3>2
  <2>3. Sifts(g, s, S, m + 1)
    <3>1. g = [k \in 0..(m + 1) |-> g[k]]
      OBVIOUS
    <3> HIDE DEF g
    <3> QED
      BY <2>2, <3>1 DEF Sifts
  <2> QED
    BY <1>2, <2>3
<1>3. Nat \subseteq T
  <2> HIDE DEF T
  <2> QED
    BY <1>1, <1>2, AllNumbers
<1> QED
  BY <1>3

LEMMA PrefixGrows ==
  ASSUME NEW X, NEW s \in Seq(X), NEW k \in 0..(Len(s) - 1)
  PROVE  /\ SubSeq(s, 1, k) \in Seq(X) /\ s[k + 1] \in X
         /\ SubSeq(s, 1, k + 1) = Append(SubSeq(s, 1, k), s[k + 1])
<1> DEFINE u == SubSeq(s, 1, k + 1)
           v == SubSeq(s, 1, k)
           w == Append(v, s[k + 1])
<1>1. /\ u \in Seq(X) /\ Len(u) = k + 1 /\ \A i \in 1..(k + 1) : u[i] = s[i]
      /\ v \in Seq(X) /\ Len(v) = k /\ \A i \in 1..k : v[i] = s[i]
      /\ s[k + 1] \in X /\ k \in Nat
  <2>1. \A i \in 1..(k + 1) : s[i] \in X
    OBVIOUS
  <2> QED
    BY <2>1
<1> HIDE DEF u, v
<1>2. /\ w \in Seq(X) /\ Len(w) = k + 1 /\ w[k + 1] = s[k + 1]
      /\ \A i \in 1..k : w[i] = v[i]
  BY <1>1
<1> HIDE DEF w
<1>3. \A i \in 1..(k + 1) : u[i] = w[i]
  <2> TAKE i \in 1..(k + 1)
  <2>1. i = k + 1 \/ i \in 1..k
    BY <1>1
  <2> QED
    BY <1>1, <1>2, <2>1
<1>4. u = w
  BY <1>1, <1>2, <1>3, SeqEqual
<1> QED
  BY <1>1, <1>4 DEF u, v, w

LEMMA TimesSift ==
  ASSUME NEW X, NEW s \in Seq(X), NEW S
  PROVE  /\ Sift(s, S) \in Seq(X)
         /\ \A o : Times(o, Sift(s, S)) = IF o \in S THEN Times(o, s) ELSE 0
<1>1. Len(s) \in Nat
  OBVIOUS
<1>2. PICK f : Sifts(f, s, S, Len(s)) /\ Sift(s, S) = f[Len(s)]
  <2> DEFINE f == CHOOSE f : f = [k \in 0..Len(s) |->
                     IF k = 0 THEN <<>>
                     ELSE IF s[k] \in S THEN Append(f[k - 1], s[k]) ELSE f[k - 1]]
  <2>1. \E f1 : Sifts(f1, s, S, Len(s))
    BY <1>1, SiftsExists
  <2>2. f = [k \in 0..Len(s) |->
                     IF k = 0 THEN <<>>
                     ELSE IF s[k] \in S THEN Append(f[k - 1], s[k]) ELSE f[k - 1]]
    BY <2>1, Zenon DEF Sifts
  <2>3. Sift(s, S) = f[Len(s)]
    BY Zenon DEF Sift
  <2> QED
    BY <2>2, <2>3, Zenon DEF Sifts
<1> DEFINE Right(k) == /\ f[k] \in Seq(X)
                       /\ \A o : Times(o, f[k]) =
                            IF o \in S THEN Times(o, SubSeq(s, 1, k)) ELSE 0
           T == {k \in Nat : k <= Len(s) => Right(k)}
<1>3. 0 \in T
  <2>1. 0 \in 0..Len(s)
    BY <1>1
  <2>2. f[0] = <<>> /\ <<>> \in Seq(X) /\ SubSeq(s, 1, 0) = <<>>
    BY <1>2, <2>1, SubSeqEmpty DEF Sifts
  <2> QED
    BY <2>2, TimesEmpty
<1>4. ASSUME NEW k \in T, k \in Nat PROVE k + 1 \in T
  <2> SUFFICES ASSUME k + 1 <= Len(s) PROVE Right(k + 1)
    BY <1>4
  <2>1. k + 1 \in 0..Len(s) /\ k + 1 # 0 /\ (k + 1) - 1 = k /\ k \in 0..(Len(s) - 1)
    BY <1>1, <1>4
  <2>2. Right(k)
    BY <1>4, <2>1
  <2>3. f[k + 1] = IF s[k + 1] \in S THEN Append(f[k], s[k + 1]) ELSE f[k]
    BY <1>2, <2>1 DEF Sifts
  <2>4. PICK p, x : /\ p \in Seq(X) /\ x \in X
                    /\ p = SubSeq(s, 1, k) /\ x = s[k + 1]
                    /\ SubSeq(s, 1, k + 1) = Append(p, x)
    <3>1. /\ SubSeq(s, 1, k) \in Seq(X) /\ s[k + 1] \in X
          /\ SubSeq(s, 1, k + 1) = Append(SubSeq(s, 1, k), s[k + 1])
      BY <2>1, PrefixGrows, Zenon
    <3> QED
      BY <3>1, Zenon
  <2>5. PICK q : q = f[k] /\ q \in Seq(X)
    BY <2>2, Zenon
  <2>6. ASSUME NEW o
        PROVE  /\ Times(o, Append(p, x)) = Times(o, p) + (IF x = o THEN 1 ELSE 0)
               /\ Times(o, Append(q, x)) = Times(o, q) + (IF x = o THEN 1 ELSE 0)
               /\ Times(o, q) = IF o \in S THEN Times(o, p) ELSE 0
               /\ Times(o, p) \in Nat
    <3>1. Times(o, Append(p, x)) = Times(o, p) + (IF x = o THEN 1 ELSE 0)
      <4>1. p \in Seq(X) /\ x \in X
        BY <2>4, Zenon
      <4> QED
        BY <4>1, TimesAppend
    <3>2. Times(o, Append(q, x)) = Times(o, q) + (IF x = o THEN 1 ELSE 0)
      BY <2>4, <2>5, TimesAppend
    <3>3. Times(o, q) = IF o \in S THEN Times(o, p) ELSE 0
      BY <2>2, <2>4, <2>5, Zenon
    <3>4. Times(o, p) \in Nat
      BY <2>4, TimesIs, Zenon
    <3> QED
      BY <3>1, <3>2, <3>3, <3>4, Zenon
  <2>7. ASSUME NEW o
        PROVE  Times(o, f[k + 1]) = IF o \in S THEN Times(o, Append(p, x)) ELSE 0
    <3>1. f[k + 1] = IF x \in S THEN Append(q, x) ELSE q
      BY <2>3, <2>4, <2>5
    <3>2. CASE x \in S
      BY <2>6, <3>1, <3>2
    <3>3. CASE x \notin S
      <4>1. o \in S => Times(o, Append(p, x)) = Times(o, p)
        BY <2>6, <3>3
      <4> QED
        BY <2>6, <3>1, <3>3, <4>1
    <3> QED
      BY <3>2, <3>3
  <2>8. f[k + 1] \in Seq(X)
    <3>1. Append(q, x) \in Seq(X)
      BY <2>4, <2>5
    <3> QED
      BY <2>3, <2>4, <2>5, <3>1
  <2>9. ASSUME NEW o
        PROVE  Times(o, f[k + 1]) = IF o \in S THEN Times(o, SubSeq(s, 1, k + 1)) ELSE 0
    BY <2>4, <2>7
  <2> QED
    BY <2>8, <2>9, Zenon
<1>5. Nat \subseteq T
  <2> HIDE DEF T
  <2> QED
    BY <1>3, <1>4, AllNumbers
<1>6. Right(Len(s))
  <2>1. Len(s) \in T
    BY <1>1, <1>5
  <2> HIDE DEF Right
  <2> QED
    BY <1>1, <2>1
<1>7. SubSeq(s, 1, Len(s)) = s
  BY SubSeqFull
<1> QED
  BY <1>2, <1>6, <1>7

-----------------------------------------------------------------------------
(* What holds between the steps of the collector and of the program.  The  *)
(* program only knows objects that were made, the main thread is the first *)
(* link of the chain and only there, the lists name an object once, and a  *)
(* finalizer is pending only during a collection.                          *)
KnowsMade ==
    /\ \A o \in Plain : refs[o] \subseteq made
    /\ globals \subseteq made /\ weak \subseteq made /\ ToSet(pending) \subseteq made
    /\ \A t \in Threads : held[t] \subseteq made
    /\ \A c \in Coros \ made : held[c] = {}

ChainRight ==
    /\ chain # <<>> /\ chain[1] = Main
    /\ \A i \in 2..Len(chain) : chain[i] \in Coros \cap made

ListsOnce ==
    /\ ToSet(objects) \subseteq made
    /\ \A o \in Objs : Times(o, objects) <= 1 /\ Times(o, finalizable) <= 1

Owes == \A o \in Plain : owed[o] = Times(o, finalizable) + Times(o, pending)

CollectorInv ==
    /\ FinalizedOnce
    /\ KnowsMade
    /\ ChainRight
    /\ ListsOnce
    /\ in_gc = "no" => pending = <<>>

LEMMA InvParts ==
  CollectorInv <=> /\ CollectorTypeOK /\ Owes /\ KnowsMade /\ ChainRight /\ ListsOnce
                   /\ in_gc = "no" => pending = <<>>
BY DEF CollectorInv, FinalizedOnce, Owes

LEMMA RunningIs ==
  ASSUME CollectorInv
  PROVE  /\ running \in Threads /\ Local \subseteq made /\ made \subseteq Objs
         /\ running # Main => running \in Coros \cap made /\ Len(chain) > 1
         /\ Len(chain) \in Nat \ {0}
<1>1. chain \in Seq(Threads) /\ chain # <<>> /\ chain[1] = Main
  BY InvParts DEF CollectorTypeOK, ChainRight
<1>2. /\ Len(chain) \in Nat \ {0} /\ chain[Len(chain)] \in Threads
  BY <1>1, EmptySeq
<1>3. Len(chain) # 1 => chain[Len(chain)] \in Coros \cap made /\ Len(chain) > 1
  <2> SUFFICES ASSUME Len(chain) # 1 PROVE chain[Len(chain)] \in Coros \cap made /\ Len(chain) > 1
    OBVIOUS
  <2>0. PICK n : n = Len(chain) /\ n \in Nat \ {0} /\ n # 1
    BY <1>2
  <2>1. n \in 2..n /\ n > 1
    BY <2>0
  <2> QED
    BY <2>0, <2>1, InvParts DEF ChainRight
<1> QED
  BY <1>1, <1>2, <1>3, InvParts DEF running, Last, Local, KnowsMade, CollectorTypeOK

LEMMA InitHolds == Init => CollectorInv
<1> SUFFICES ASSUME Init PROVE CollectorInv
  OBVIOUS
<1>1. CollectorTypeOK
  BY DEF Init, CollectorTypeOK, Threads
<1>2. Owes /\ ListsOnce
  BY TimesEmpty DEF Init, Owes, ListsOnce, ToSet
<1>3. KnowsMade /\ ChainRight
  BY DEF Init, KnowsMade, ChainRight, ToSet, Threads
<1> QED
  BY <1>1, <1>2, <1>3, InvParts DEF Init

(* A new object is on no list, and goes on gc.objects.                     *)
LEMMA ListGrows ==
  ASSUME CollectorInv, NEW o \in Objs \ made, objects' = Append(objects, o),
         made' = made \cup {o}
  PROVE  /\ ToSet(objects') \subseteq made'
         /\ \A p \in Objs : Times(p, objects') <= 1
<1>1. objects \in Seq(Objs) /\ objects' \in Seq(Objs) /\ ToSet(objects) \subseteq made
  BY InvParts DEF CollectorTypeOK, ListsOnce
<1>2. \A p \in Objs : Times(p, objects') = Times(p, objects) + (IF o = p THEN 1 ELSE 0)
  BY <1>1, TimesAppend
<1>3. \A p : Times(p, objects) \in Nat /\ (p \in ToSet(objects) <=> Times(p, objects) # 0)
  BY <1>1, TimesIs
<1>4. \A p \in Objs : Times(p, objects) <= 1 /\ (p = o => Times(p, objects) = 0)
  BY <1>1, <1>3, InvParts DEF ListsOnce
<1>5. \A p \in Objs : Times(p, objects') <= 1
  BY <1>2, <1>3, <1>4
<1>6. ToSet(objects') \subseteq ToSet(objects) \cup {o}
  BY <1>1 DEF ToSet
<1> QED
  BY <1>1, <1>5, <1>6

(* What the program does to the heap leaves the lists and the chain.       *)
LEMMA SameLists ==
  ASSUME CollectorInv, UNCHANGED <<objects, finalizable, pending, in_gc, owed>>,
         made \subseteq made'
  PROVE  ListsOnce' /\ Owes' /\ (in_gc' = "no" => pending' = <<>>)
BY InvParts DEF ListsOnce, Owes

LEMMA SameChain ==
  ASSUME CollectorInv, UNCHANGED chain, made \subseteq made'
  PROVE  ChainRight'
BY InvParts DEF ChainRight

LEMMA HeapHolds ==
  ASSUME CollectorInv, UNCHANGED <<made, status, chain, gc>>,
         refs' \in [Plain -> SUBSET Objs], \A o \in Plain : refs'[o] \subseteq made,
         globals' \subseteq made, weak' \subseteq made,
         held' \in [Threads -> SUBSET Objs], \A t \in Threads : held'[t] \subseteq made,
         \A c \in Coros \ made : held'[c] = {}
  PROVE  CollectorInv'
<1>1. CollectorTypeOK'
  BY InvParts DEF CollectorTypeOK, gc
<1>2. KnowsMade'
  BY InvParts DEF KnowsMade, gc
<1>3. ListsOnce' /\ Owes' /\ (in_gc' = "no" => pending' = <<>>) /\ ChainRight'
  BY SameLists, SameChain DEF gc
<1> QED
  BY <1>1, <1>2, <1>3 DEF CollectorInv, FinalizedOnce, Owes

-----------------------------------------------------------------------------
(* The steps of the program keep the invariant.                            *)
LEMMA NewHolds ==
  ASSUME CollectorInv, NEW o \in Plain, New(o) PROVE CollectorInv'
<1>1. PICK r \in Threads : /\ r = running /\ held' = [held EXCEPT ![r] = held[r] \cup {o}]
                           /\ held[r] \subseteq made
  BY RunningIs DEF New, SetLocal, Local
<1>2. o \in Objs /\ o \notin made /\ made' = made \cup {o} /\ objects' = Append(objects, o)
  BY DEF New, Track, Objs
<1>3. UNCHANGED <<refs, globals, weak, status, chain, finalizable, pending, in_gc, gcth, owed>>
  BY DEF New
<1>4. CollectorTypeOK'
  BY <1>1, <1>2, <1>3, InvParts DEF CollectorTypeOK
<1>5. KnowsMade'
  <2>1. r \notin Coros \ made
    BY <1>1, RunningIs, CollectorAssumption
  <2>2. \A t \in Threads : held'[t] \subseteq made' /\ (t # r => held'[t] = held[t])
    BY <1>1, <1>2, InvParts DEF KnowsMade, CollectorTypeOK
  <2>3. \A d \in Coros : d \in Threads
    BY DEF Threads
  <2>4. \A d \in Coros \ made' : held'[d] = {}
    BY <1>2, <2>1, <2>2, <2>3, InvParts DEF KnowsMade
  <2> QED
    BY <1>2, <1>3, <2>2, <2>4, InvParts DEF KnowsMade
<1>6. ListsOnce'
  BY <1>2, <1>3, ListGrows, InvParts DEF ListsOnce
<1>7. Owes'
  BY <1>3, InvParts DEF Owes
<1>8. ChainRight'
  BY <1>2, <1>3, SameChain
<1> QED
  BY <1>3, <1>4, <1>5, <1>6, <1>7, <1>8, InvParts DEF CollectorInv, FinalizedOnce, Owes

LEMMA CreateHolds ==
  ASSUME CollectorInv, NEW c \in Coros, NEW S \in SUBSET Objs, Create(c, S)
  PROVE  CollectorInv'
<1>1. PICK r \in Threads : /\ r = running
                           /\ held' = [held EXCEPT ![r] = @ \cup {c}, ![c] = S]
                           /\ held[r] \subseteq made /\ S \subseteq made
  BY RunningIs DEF Create, Local
<1>2. c \in Objs /\ c \notin made /\ made' = made \cup {c} /\ objects' = Append(objects, c)
  BY DEF Create, Track, Objs
<1>3. UNCHANGED <<refs, globals, weak, status, chain, finalizable, pending, in_gc, gcth, owed>>
  BY DEF Create
<1>4. r \notin Coros \ made /\ r # c /\ c \in Threads
  BY <1>1, <1>2, RunningIs, CollectorAssumption DEF Threads
<1>5. held \in [Threads -> SUBSET Objs] /\ \A t \in Threads : held[t] \subseteq made
  BY InvParts DEF KnowsMade, CollectorTypeOK
<1>6. /\ held' \in [Threads -> SUBSET Objs] /\ held'[c] = S
      /\ held'[r] = held[r] \cup {c} /\ \A t \in Threads \ {r, c} : held'[t] = held[t]
  BY <1>1, <1>2, <1>5, <1>4
<1>7. CollectorTypeOK'
  BY <1>2, <1>3, <1>6, InvParts DEF CollectorTypeOK
<1>8. KnowsMade'
  <2>1. \A t \in Threads : held'[t] \subseteq made'
    BY <1>1, <1>2, <1>5, <1>6
  <2>2. \A d \in Coros : d \in Threads
    BY DEF Threads
  <2>3. \A d \in Coros \ made' : held'[d] = {}
    BY <1>2, <1>6, <1>4, <2>2, InvParts DEF KnowsMade
  <2> QED
    BY <1>2, <1>3, <2>1, <2>3, InvParts DEF KnowsMade
<1>9. ListsOnce'
  BY <1>2, <1>3, ListGrows, InvParts DEF ListsOnce
<1>10. Owes'
  BY <1>3, InvParts DEF Owes
<1>11. ChainRight'
  BY <1>2, <1>3, SameChain
<1> QED
  BY <1>3, <1>7, <1>8, <1>9, <1>10, <1>11, InvParts DEF CollectorInv, FinalizedOnce, Owes

LEMMA LinksHold ==
  ASSUME CollectorInv,
         \/ \E o \in Plain, p \in Objs : Store(o, p) \/ Erase(o, p)
         \/ \E p \in Objs : Fetch(p) \/ Drop(p) \/ SetGlobal(p) \/ UnsetGlobal(p) \/ SetWeak(p)
  PROVE  CollectorInv'
<1>1. CASE \E o \in Plain, p \in Objs : Store(o, p) \/ Erase(o, p)
  <2>1. PICK o \in Plain, p \in Objs : Store(o, p) \/ Erase(o, p)
    BY <1>1
  <2>2. PICK S : refs' = [refs EXCEPT ![o] = S] /\ S \subseteq made
    <3>1. refs[o] \cup {p} \subseteq made \/ Erase(o, p)
      BY <2>1, RunningIs, InvParts DEF Store, KnowsMade
    <3>2. refs[o] \ {p} \subseteq made
      BY InvParts DEF KnowsMade
    <3> QED
      BY <2>1, <3>1, <3>2 DEF Store, Erase
  <2>3. UNCHANGED <<made, globals, weak, held, status, chain, gc>>
    BY <2>1 DEF Store, Erase
  <2> QED
    BY <2>2, <2>3, HeapHolds, InvParts DEF KnowsMade, CollectorTypeOK
<1>2. CASE \E p \in Objs : Fetch(p) \/ Drop(p)
  <2>1. PICK p \in Objs : Fetch(p) \/ Drop(p)
    BY <1>2
  <2>2. PICK S : SetLocal(S) /\ S \subseteq made
    <3>1. CASE Fetch(p)
      BY <3>1, RunningIs, InvParts DEF Fetch, KnowsMade
    <3>2. CASE Drop(p)
      BY <3>2, RunningIs DEF Drop
    <3> QED
      BY <2>1, <3>1, <3>2
  <2>3. UNCHANGED <<made, refs, globals, weak, status, chain, gc>>
    BY <2>1 DEF Fetch, Drop
  <2>4. PICK r \in Threads : r = running /\ r \notin Coros \ made
                             /\ held' = [held EXCEPT ![r] = S]
    BY <2>2, RunningIs, CollectorAssumption DEF SetLocal
  <2> QED
    BY <2>2, <2>3, <2>4, HeapHolds, InvParts DEF KnowsMade, CollectorTypeOK
<1>3. CASE \E p \in Objs : SetGlobal(p) \/ UnsetGlobal(p) \/ SetWeak(p)
  <2>1. PICK p \in Objs : SetGlobal(p) \/ UnsetGlobal(p) \/ SetWeak(p)
    BY <1>3
  <2>2. /\ UNCHANGED <<made, refs, held, status, chain, gc>>
        /\ globals' \subseteq made /\ weak' \subseteq made
    BY <2>1, RunningIs, InvParts DEF SetGlobal, UnsetGlobal, SetWeak, KnowsMade
  <2> QED
    BY <2>2, HeapHolds, InvParts DEF KnowsMade, CollectorTypeOK
<1> QED
  BY <1>1, <1>2, <1>3

LEMMA SetFinalizerHolds ==
  ASSUME CollectorInv, NEW o \in Plain, SetFinalizer(o) PROVE CollectorInv'
<1>1. /\ finalizable \in Seq(Plain) /\ finalizable' = Append(finalizable, o)
      /\ o \notin ToSet(finalizable)
  BY InvParts DEF SetFinalizer, CollectorTypeOK
<1>2. UNCHANGED <<heap, status, chain, objects, pending, in_gc, gcth>>
  BY DEF SetFinalizer
<1>3. owed \in [Plain -> Int] /\ owed' = [owed EXCEPT ![o] = owed[o] + 1]
  BY InvParts DEF SetFinalizer, CollectorTypeOK
<1>4. finalizable' \in Seq(Plain)
  BY <1>1
<1>5. \A p : /\ Times(p, finalizable') = Times(p, finalizable) + (IF o = p THEN 1 ELSE 0)
             /\ Times(p, finalizable) \in Nat
             /\ p = o => Times(p, finalizable) = 0
  BY <1>1, TimesAppend, TimesIs
<1>6. CollectorTypeOK'
  BY <1>2, <1>3, <1>4, InvParts DEF CollectorTypeOK, heap
<1>7. Owes'
  <2>1. \A p \in Plain : Times(p, pending) \in Nat
    BY InvParts, TimesIs DEF CollectorTypeOK
  <2>2. \A p \in Plain : owed'[p] = owed[p] + (IF p = o THEN 1 ELSE 0)
    BY <1>3
  <2>3. \A p \in Plain : owed[p] = Times(p, finalizable) + Times(p, pending)
    BY InvParts DEF Owes
  <2>4. \A p \in Plain : owed'[p] = Times(p, finalizable') + Times(p, pending)
    BY <1>5, <2>1, <2>2, <2>3
  <2> QED
    BY <1>2, <2>4 DEF Owes
<1>8. ListsOnce'
  <2>1. \A p \in Objs : Times(p, finalizable') <= 1
    BY <1>5, InvParts DEF ListsOnce
  <2> QED
    BY <1>2, <2>1, InvParts DEF ListsOnce, heap
<1>9. KnowsMade' /\ ChainRight'
  BY <1>2, InvParts DEF KnowsMade, ChainRight, heap
<1> QED
  BY <1>2, <1>6, <1>7, <1>8, <1>9, InvParts DEF CollectorInv, FinalizedOnce, Owes

LEMMA ResumeHolds ==
  ASSUME CollectorInv, NEW c \in Coros, Resume(c) PROVE CollectorInv'
<1>1. /\ chain \in Seq(Threads) /\ chain # <<>> /\ chain[1] = Main /\ c \in Threads
      /\ chain' = Append(chain, c) /\ UNCHANGED <<heap, gc>> /\ c \in made
  BY InvParts, RunningIs DEF Resume, CollectorTypeOK, ChainRight, Threads
<1>2. Len(chain) \in Nat \ {0}
  BY <1>1, EmptySeq
<1>3. /\ chain' \in Seq(Threads) /\ Len(chain') = Len(chain) + 1
      /\ \A i \in 1..Len(chain) : chain'[i] = chain[i]
      /\ chain'[Len(chain) + 1] = c /\ chain' # <<>>
  BY <1>1, <1>2
<1>4. status' \in [Coros -> {"new", "suspended", "active", "dead"}]
  BY InvParts DEF Resume, CollectorTypeOK
<1>5. CollectorTypeOK'
  BY <1>1, <1>3, <1>4, InvParts DEF CollectorTypeOK, heap, gc
<1>6. ChainRight'
  <2>1. \A i \in 2..Len(chain') : chain'[i] \in Coros \cap made
    <3> TAKE i \in 2..Len(chain')
    <3>1. i = Len(chain) + 1 \/ i \in 2..Len(chain)
      BY <1>2, <1>3
    <3>2. i \in 2..Len(chain) => chain[i] \in Coros \cap made /\ chain'[i] = chain[i]
      BY <1>2, <1>3, InvParts DEF ChainRight
    <3> QED
      BY <1>1, <1>3, <3>1, <3>2
  <2>2. chain'[1] = Main
    BY <1>1, <1>2, <1>3
  <2> QED
    BY <1>1, <1>3, <2>1, <2>2 DEF ChainRight, heap
<1>7. KnowsMade'
  BY <1>1, InvParts DEF KnowsMade, heap, gc
<1>8. ListsOnce' /\ Owes' /\ (in_gc' = "no" => pending' = <<>>)
  BY <1>1, SameLists DEF heap, gc
<1> QED
  BY <1>5, <1>6, <1>7, <1>8 DEF CollectorInv, FinalizedOnce, Owes

LEMMA SwitchKeeps ==
  ASSUME CollectorInv, NEW s \in {"suspended", "dead"}, Switch(s), UNCHANGED made
  PROVE  /\ chain' \in Seq(Threads) /\ ChainRight'
         /\ status' \in [Coros -> {"new", "suspended", "active", "dead"}]
<1>1. /\ chain \in Seq(Threads) /\ chain[1] = Main /\ running \in Coros
      /\ Len(chain) > 1 /\ Len(chain) \in Nat /\ chain' = Front(chain)
  BY InvParts, RunningIs DEF Switch, CollectorTypeOK, ChainRight
<1>2. /\ Len(chain) - 1 \in Nat /\ \A i \in 1..(Len(chain) - 1) : i \in 1..Len(chain)
      /\ 1 \in 1..(Len(chain) - 1)
  BY <1>1
<1>3. /\ chain' \in Seq(Threads) /\ Len(chain') = Len(chain) - 1
      /\ \A i \in 1..(Len(chain) - 1) : chain'[i] = chain[i]
  BY <1>1, <1>2 DEF Front
<1>4. chain' # <<>> /\ chain'[1] = Main
  BY <1>1, <1>2, <1>3
<1>5. \A i \in 2..Len(chain') : chain'[i] \in Coros \cap made
  <2> TAKE i \in 2..Len(chain')
  <2>1. i \in 2..Len(chain) /\ i \in 1..(Len(chain) - 1)
    BY <1>1, <1>3
  <2> QED
    BY <1>3, <2>1, InvParts DEF ChainRight
<1>6. ChainRight'
  BY <1>4, <1>5 DEF ChainRight
<1>7. status' \in [Coros -> {"new", "suspended", "active", "dead"}]
  BY <1>1, InvParts DEF Switch, CollectorTypeOK
<1> QED
  BY <1>3, <1>6, <1>7

LEMMA YieldHolds ==
  ASSUME CollectorInv, Yield PROVE CollectorInv'
<1>1. UNCHANGED <<heap, gc>> /\ Switch("suspended")
  BY DEF Yield
<1>2. /\ chain' \in Seq(Threads) /\ ChainRight'
      /\ status' \in [Coros -> {"new", "suspended", "active", "dead"}]
  BY <1>1, SwitchKeeps DEF heap
<1>3. CollectorTypeOK'
  BY <1>1, <1>2, InvParts DEF CollectorTypeOK, heap, gc
<1>4. KnowsMade'
  BY <1>1, InvParts DEF KnowsMade, heap, gc
<1>5. ListsOnce' /\ Owes' /\ (in_gc' = "no" => pending' = <<>>)
  BY <1>1, SameLists DEF heap, gc
<1> QED
  BY <1>2, <1>3, <1>4, <1>5 DEF CollectorInv, FinalizedOnce, Owes

LEMMA FinishHolds ==
  ASSUME CollectorInv, Finish PROVE CollectorInv'
<1>1. UNCHANGED <<made, refs, globals, weak, gc>> /\ Switch("dead") /\ SetLocal({})
  BY DEF Finish
<1>2. /\ chain' \in Seq(Threads) /\ ChainRight'
      /\ status' \in [Coros -> {"new", "suspended", "active", "dead"}]
  BY <1>1, SwitchKeeps
<1>3. PICK r \in Threads : held' = [held EXCEPT ![r] = {}]
  BY <1>1, RunningIs DEF SetLocal
<1>4. CollectorTypeOK'
  BY <1>1, <1>2, <1>3, InvParts DEF CollectorTypeOK, gc
<1>5. KnowsMade'
  BY <1>1, <1>3, InvParts DEF KnowsMade, CollectorTypeOK, gc
<1>6. ListsOnce' /\ Owes' /\ (in_gc' = "no" => pending' = <<>>)
  BY <1>1, SameLists DEF gc
<1> QED
  BY <1>2, <1>4, <1>5, <1>6 DEF CollectorInv, FinalizedOnce, Owes

(* What a collection makes of the lists: an object that gc.finalizable and *)
(* gc.objects name and that has no mark moves from both to the pending     *)
(* finalizers, where it is named once.                                     *)
LEMMA CollectMoves ==
  ASSUME CollectorInv, NEW how, Collect(how)
  PROVE  /\ objects' \in Seq(Objs) /\ pending' \in Seq(Plain) /\ finalizable' \in Seq(Plain)
         /\ ToSet(objects') \subseteq ToSet(objects)
         /\ ToSet(pending') = ToSet(objects) \cap (ToSet(finalizable) \ Marked)
         /\ \A o \in Objs : Times(o, objects') <= 1 /\ Times(o, finalizable') <= 1
         /\ \A o \in Plain : Times(o, finalizable') + Times(o, pending') = Times(o, finalizable)
<1> DEFINE F == ToSet(finalizable) \ Marked
           q == Sift(objects, F)
<1>1. /\ objects \in Seq(Objs) /\ finalizable \in Seq(Plain)
      /\ \A o \in Objs : Times(o, objects) <= 1 /\ Times(o, finalizable) <= 1
  BY InvParts DEF CollectorTypeOK, ListsOnce
<1>2. /\ objects' = Sift(objects, Marked) /\ pending' = Reverse(q)
      /\ finalizable' = Sift(finalizable, Plain \ ToSet(pending'))
  BY DEF Collect
<1>3. \A o \in ToSet(finalizable) : o \in Plain
  BY <1>1 DEF ToSet
<1>4. /\ objects' \in Seq(Objs) /\ q \in Seq(Objs) /\ finalizable' \in Seq(Plain)
      /\ \A o : Times(o, objects') = IF o \in Marked THEN Times(o, objects) ELSE 0
      /\ \A o : Times(o, q) = IF o \in F THEN Times(o, objects) ELSE 0
      /\ \A o : Times(o, finalizable') =
                  IF o \in Plain \ ToSet(pending') THEN Times(o, finalizable) ELSE 0
  <2> HIDE DEF q, F
  <2>1. /\ objects' \in Seq(Objs)
        /\ \A o : Times(o, objects') = IF o \in Marked THEN Times(o, objects) ELSE 0
    BY <1>1, <1>2, TimesSift
  <2>2. /\ q \in Seq(Objs)
        /\ \A o : Times(o, q) = IF o \in F THEN Times(o, objects) ELSE 0
    BY <1>1, TimesSift DEF q
  <2>3. /\ finalizable' \in Seq(Plain)
        /\ \A o : Times(o, finalizable') =
                  IF o \in Plain \ ToSet(pending') THEN Times(o, finalizable) ELSE 0
    BY <1>1, <1>2, TimesSift
  <2> QED
    BY <2>1, <2>2, <2>3
<1>5. \A o : /\ Times(o, objects) \in Nat /\ (o \in ToSet(objects) <=> Times(o, objects) # 0)
             /\ Times(o, objects') \in Nat /\ (o \in ToSet(objects') <=> Times(o, objects') # 0)
             /\ Times(o, finalizable) \in Nat
             /\ (o \in ToSet(finalizable) <=> Times(o, finalizable) # 0)
  BY <1>1, <1>4, TimesIs
<1>6. pending' \in Seq(Objs) /\ \A o : Times(o, pending') = Times(o, q)
  <2> HIDE DEF q
  <2> QED
    BY <1>2, <1>4, TimesReverse
<1>7. \A o : o \in ToSet(pending') <=> Times(o, pending') # 0
  BY <1>6, TimesIs
<1>8. \A o : o \in ToSet(pending') <=> o \in ToSet(objects) /\ o \in F
  <2> HIDE DEF q, F
  <2> QED
    BY <1>4, <1>5, <1>6, <1>7
<1>9. pending' \in Seq(Plain)
  <2>1. \A i \in DOMAIN pending' : pending'[i] \in ToSet(pending')
    BY DEF ToSet
  <2>2. \A i \in 1..Len(pending') : pending'[i] \in Plain
    BY <1>3, <1>6, <1>8, <2>1
  <2> QED
    BY <1>6, <2>2
<1>10. ASSUME NEW o \in Plain
       PROVE  Times(o, finalizable') + Times(o, pending') = Times(o, finalizable)
  <2>1. o \in Objs
    BY DEF Objs
  <2>2. CASE o \in ToSet(pending')
    <3>1. o \in F /\ o \in ToSet(objects) /\ o \in ToSet(finalizable)
      BY <1>8, <2>2
    <3>2. Times(o, objects) = 1 /\ Times(o, finalizable) = 1
      BY <1>1, <1>5, <2>1, <3>1
    <3>3. Times(o, pending') = 1 /\ Times(o, finalizable') = 0
      <4> HIDE DEF q, F
      <4> QED
        BY <1>4, <1>6, <2>2, <3>1, <3>2
    <3> QED
      BY <3>2, <3>3
  <2>3. CASE o \notin ToSet(pending')
    <3>1. Times(o, pending') = 0 /\ Times(o, finalizable') = Times(o, finalizable)
      <4> HIDE DEF q, F
      <4> QED
        BY <1>4, <1>7, <2>3
    <3> QED
      BY <1>5, <3>1
  <2> QED
    BY <2>2, <2>3
<1>11. \A o \in Objs : Times(o, objects') <= 1 /\ Times(o, finalizable') <= 1
  <2> TAKE o \in Objs
  <2>1. Times(o, objects) \in {0, 1} /\ Times(o, finalizable) \in {0, 1}
    BY <1>1, <1>5
  <2>2. /\ Times(o, objects') = IF o \in Marked THEN Times(o, objects) ELSE 0
        /\ Times(o, finalizable') =
              IF o \in Plain \ ToSet(pending') THEN Times(o, finalizable) ELSE 0
    BY <1>4, Zenon
  <2> QED
    BY <2>1, <2>2
<1>12. ToSet(objects') \subseteq ToSet(objects)
  <2> HIDE DEF q, F
  <2> QED
    BY <1>4, <1>5
<1> QED
  BY <1>4, <1>8, <1>9, <1>10, <1>11, <1>12

LEMMA CollectHolds ==
  ASSUME CollectorInv, NEW how \in {"call", "auto"}, Collect(how) PROVE CollectorInv'
<1>1. /\ in_gc = "no" /\ in_gc' = how /\ gcth' \in Threads /\ weak' \subseteq weak
      /\ UNCHANGED <<made, refs, globals, held, status, chain, owed>>
  BY RunningIs DEF Collect
<1>2. /\ objects' \in Seq(Objs) /\ pending' \in Seq(Plain) /\ finalizable' \in Seq(Plain)
      /\ ToSet(objects') \subseteq made /\ ToSet(pending') \subseteq made
      /\ \A o \in Objs : Times(o, objects') <= 1 /\ Times(o, finalizable') <= 1
      /\ \A o \in Plain : Times(o, finalizable') + Times(o, pending') = Times(o, finalizable)
  BY CollectMoves, InvParts DEF ListsOnce
<1>3. CollectorTypeOK'
  BY <1>1, <1>2, InvParts DEF CollectorTypeOK
<1>4. KnowsMade'
  BY <1>1, <1>2, InvParts DEF KnowsMade
<1>5. ChainRight' /\ ListsOnce'
  BY <1>1, <1>2, InvParts DEF ChainRight, ListsOnce
<1>6. Owes'
  <2>1. \A o \in Plain : owed[o] = Times(o, finalizable)
    <3>1. \A o \in Plain : Times(o, pending) = 0 /\ Times(o, finalizable) \in Nat
      BY <1>1, InvParts, TimesEmpty, TimesIs DEF CollectorTypeOK
    <3> QED
      BY <3>1, InvParts DEF Owes
  <2> QED
    BY <1>1, <1>2, <2>1 DEF Owes
<1> QED
  BY <1>1, <1>3, <1>4, <1>5, <1>6 DEF CollectorInv, FinalizedOnce, Owes

LEMMA FinalizeHolds ==
  ASSUME CollectorInv, Finalize PROVE CollectorInv'
<1>1. /\ pending \in Seq(Plain) /\ pending # <<>> /\ pending' = Tail(pending)
      /\ in_gc # "no" /\ SetLocal(Local \cup {Head(pending)})
      /\ owed \in [Plain -> Int] /\ owed' = [owed EXCEPT ![Head(pending)] = @ - 1]
      /\ UNCHANGED <<made, refs, globals, weak, status, chain, objects, finalizable,
                     in_gc, gcth>>
  BY InvParts DEF Finalize, CollectorTypeOK
<1>2. /\ Head(pending) \in Plain /\ pending' \in Seq(Plain)
      /\ \A o : Times(o, pending) = Times(o, pending') + (IF Head(pending) = o THEN 1 ELSE 0)
  BY <1>1, TimesTail
<1>3. \A o : /\ Times(o, pending) \in Nat /\ Times(o, pending') \in Nat
             /\ o \in ToSet(pending) <=> Times(o, pending) # 0
             /\ o \in ToSet(pending') <=> Times(o, pending') # 0
  BY <1>1, <1>2, TimesIs
<1>4. Head(pending) \in ToSet(pending) /\ ToSet(pending') \subseteq ToSet(pending)
  BY <1>2, <1>3
<1>5. PICK r, S : /\ r \in Threads /\ r = running /\ r \notin Coros \ made
                 /\ S \subseteq made
                 /\ held' = [held EXCEPT ![r] = S]
  BY <1>1, <1>4, RunningIs, InvParts, CollectorAssumption DEF SetLocal, KnowsMade
<1>6. owed' \in [Plain -> Int]
  BY <1>1, <1>2
<1>7. CollectorTypeOK'
  BY <1>1, <1>2, <1>5, <1>6, InvParts DEF CollectorTypeOK
<1>8. KnowsMade'
  BY <1>1, <1>4, <1>5, InvParts DEF KnowsMade, CollectorTypeOK
<1>9. ChainRight' /\ ListsOnce'
  BY <1>1, InvParts DEF ChainRight, ListsOnce
<1>10. Owes'
  <2>1. \A o \in Plain : Times(o, finalizable) \in Nat
    BY InvParts, TimesIs DEF CollectorTypeOK
  <2>2. \A o \in Plain : owed'[o] = owed[o] - (IF Head(pending) = o THEN 1 ELSE 0)
    BY <1>1, <1>2
  <2>3. \A o \in Plain : owed[o] = Times(o, finalizable) + Times(o, pending)
    BY InvParts DEF Owes
  <2>4. \A o \in Plain : owed'[o] = Times(o, finalizable) + Times(o, pending')
    <3> TAKE o \in Plain
    <3>1. /\ Times(o, finalizable) \in Nat /\ Times(o, pending') \in Nat
          /\ owed'[o] = owed[o] - (IF Head(pending) = o THEN 1 ELSE 0)
          /\ owed[o] = Times(o, finalizable) + Times(o, pending)
          /\ Times(o, pending) = Times(o, pending') + (IF Head(pending) = o THEN 1 ELSE 0)
      BY <1>2, <1>3, <2>1, <2>2, <2>3, Zenon
    <3> QED
      BY <3>1
  <2> QED
    BY <1>1, <2>4 DEF Owes
<1> QED
  BY <1>1, <1>7, <1>8, <1>9, <1>10 DEF CollectorInv, FinalizedOnce, Owes

LEMMA EndCollectionHolds ==
  ASSUME CollectorInv, EndCollection PROVE CollectorInv'
<1>1. /\ pending = <<>> /\ in_gc' = "no" /\ gcth' = Main
      /\ UNCHANGED <<heap, status, chain, objects, finalizable, pending, owed>>
  BY DEF EndCollection
<1>2. CollectorTypeOK'
  BY <1>1, InvParts DEF CollectorTypeOK, heap, Threads
<1>3. KnowsMade' /\ ChainRight' /\ ListsOnce' /\ Owes'
  BY <1>1, InvParts DEF KnowsMade, ChainRight, ListsOnce, Owes, heap
<1> QED
  BY <1>1, <1>2, <1>3 DEF CollectorInv, FinalizedOnce, Owes

LEMMA StepHolds == CollectorInv /\ [Next]_vars => CollectorInv'
<1> SUFFICES ASSUME CollectorInv, [Next]_vars PROVE CollectorInv'
  OBVIOUS
<1>1. CASE UNCHANGED vars
  <2>1. UNCHANGED <<heap, status, chain, gc>>
    BY <1>1 DEF vars
  <2>2. CollectorTypeOK'
    BY <2>1, InvParts DEF CollectorTypeOK, heap, gc
  <2>3. KnowsMade' /\ ChainRight' /\ ListsOnce' /\ Owes'
    BY <2>1, InvParts DEF KnowsMade, ChainRight, ListsOnce, Owes, heap, gc
  <2> QED
    BY <2>1, <2>2, <2>3, InvParts DEF CollectorInv, FinalizedOnce, Owes, gc
<1>2. CASE \E o \in Plain : New(o) \/ SetFinalizer(o)
  BY <1>2, NewHolds, SetFinalizerHolds
<1>3. CASE \E c \in Coros, S \in SUBSET Objs : Create(c, S)
  BY <1>3, CreateHolds
<1>4. CASE \/ \E o \in Plain, p \in Objs : Store(o, p) \/ Erase(o, p)
           \/ \E p \in Objs : Fetch(p) \/ Drop(p) \/ SetGlobal(p) \/ UnsetGlobal(p)
                              \/ SetWeak(p)
  BY <1>4, LinksHold
<1>5. CASE (\E c \in Coros : Resume(c)) \/ Yield \/ Finish
  BY <1>5, ResumeHolds, YieldHolds, FinishHolds
<1>6. CASE (\E how \in {"call", "auto"} : Collect(how)) \/ Finalize \/ EndCollection
  BY <1>6, CollectHolds, FinalizeHolds, EndCollectionHolds
<1> QED
  BY <1>1, <1>2, <1>3, <1>4, <1>5, <1>6 DEF Next

(* A finalizer is called once for each time an object was marked for it,   *)
(* whatever collections, resurrections and new marks come in between: what *)
(* is owed is on gc.finalizable or pending.                                *)
THEOREM FinalizersRunOnce == Spec => []FinalizedOnce
<1>1. CollectorInv => FinalizedOnce
  BY DEF CollectorInv
<1> QED
  BY InitHolds, StepHolds, <1>1, PTL DEF Spec

-----------------------------------------------------------------------------
(* Marking.  What Reach finds is closed, and in every closed set that has  *)
(* the roots: the number of objects is enough rounds.                      *)
Round(next, p) == p \cup UNION {next[o] : o \in p}

Rounds(f, roots, next, n) ==
    f = [k \in 0..n |-> IF k = 0 THEN roots ELSE Round(next, f[k - 1])]

LEMMA RoundsAgree ==
  ASSUME NEW roots, NEW next, NEW n \in Nat, NEW m \in Nat, NEW f, NEW g,
         Rounds(f, roots, next, n), Rounds(g, roots, next, m)
  PROVE  \A k \in Nat : k <= n /\ k <= m => f[k] = g[k]
<1> DEFINE T == {k \in Nat : k <= n /\ k <= m => f[k] = g[k]}
<1>1. 0 \in T
  <2>1. 0 \in 0..n /\ 0 \in 0..m
    OBVIOUS
  <2>2. f[0] = roots /\ g[0] = roots
    BY <2>1 DEF Rounds
  <2> QED
    BY <2>2
<1>2. ASSUME NEW k \in T, k \in Nat PROVE k + 1 \in T
  <2> SUFFICES ASSUME k + 1 <= n, k + 1 <= m PROVE f[k + 1] = g[k + 1]
    BY <1>2
  <2>1. k + 1 \in 0..n /\ k + 1 \in 0..m /\ k + 1 # 0 /\ (k + 1) - 1 = k
    BY <1>2
  <2>2. f[k + 1] = Round(next, f[k]) /\ g[k + 1] = Round(next, g[k])
    BY <2>1 DEF Rounds
  <2>3. f[k] = g[k]
    BY <1>2
  <2> QED
    BY <2>2, <2>3
<1>3. Nat \subseteq T
  <2> HIDE DEF T
  <2> QED
    BY <1>1, <1>2, AllNumbers
<1> QED
  BY <1>3

LEMMA RoundsExist ==
  ASSUME NEW roots, NEW next, NEW n \in Nat
  PROVE  \E f : Rounds(f, roots, next, n)
<1> DEFINE T == {m \in Nat : \E f : Rounds(f, roots, next, m)}
<1>1. 0 \in T
  <2> DEFINE f == [k \in 0..0 |-> roots]
  <2>1. Rounds(f, roots, next, 0)
    BY DEF Rounds
  <2> QED
    BY <2>1
<1>2. ASSUME NEW m \in T, m \in Nat PROVE m + 1 \in T
  <2>1. PICK f : Rounds(f, roots, next, m)
    BY <1>2
  <2> DEFINE g == [k \in 0..(m + 1) |-> IF k <= m THEN f[k] ELSE Round(next, f[m])]
  <2>2. ASSUME NEW k \in 0..(m + 1)
        PROVE  g[k] = IF k = 0 THEN roots ELSE Round(next, g[k - 1])
    <3>1. CASE k <= m
      <4>1. g[k] = f[k] /\ k \in 0..m /\ (k # 0 => k - 1 \in 0..m)
        BY <1>2, <3>1
      <4>2. f[k] = IF k = 0 THEN roots ELSE Round(next, f[k - 1])
        BY <2>1, <4>1 DEF Rounds
      <4>3. k # 0 => g[k - 1] = f[k - 1]
        BY <1>2, <4>1
      <4> QED
        BY <4>1, <4>2, <4>3
    <3>2. CASE k = m + 1
      <4>1. k # 0 /\ k - 1 = m /\ g[m] = f[m] /\ g[k] = Round(next, f[m])
        BY <1>2, <3>2
      <4> QED
        BY <4>1
    <3> QED
      BY <1>2, <3>1, <3>2
  <2>3. Rounds(g, roots, next, m + 1)
    <3>1. g = [k \in 0..(m + 1) |-> g[k]]
      OBVIOUS
    <3> HIDE DEF g
    <3> QED
      BY <2>2, <3>1 DEF Rounds
  <2> QED
    BY <1>2, <2>3
<1>3. Nat \subseteq T
  <2> HIDE DEF T
  <2> QED
    BY <1>1, <1>2, AllNumbers
<1> QED
  BY <1>3

LEMMA ReachSteps ==
  ASSUME NEW roots, NEW next
  PROVE  \E step : /\ step[0] = roots
                   /\ \A n \in Nat : step[n + 1] = Round(next, step[n])
                   /\ Reach(roots, next) = step[Cardinality(Objs)]
<1> DEFINE h == [n \in Nat |-> (CHOOSE f : Rounds(f, roots, next, n))[n]]
           r == CHOOSE step : step = [n \in Nat |->
                  IF n = 0 THEN roots
                  ELSE LET p == step[n - 1] IN p \cup UNION {next[o] : o \in p}]
<1>1. ASSUME NEW n \in Nat
      PROVE  \E f : Rounds(f, roots, next, n) /\ h[n] = f[n]
  <2>1. Rounds(CHOOSE f : Rounds(f, roots, next, n), roots, next, n)
    BY RoundsExist
  <2> QED
    BY <2>1
<1>2. h[0] = roots
  <2>1. PICK f : Rounds(f, roots, next, 0) /\ h[0] = f[0]
    BY <1>1
  <2> QED
    BY <2>1 DEF Rounds
<1>3. ASSUME NEW n \in Nat PROVE h[n + 1] = Round(next, h[n])
  <2>1. PICK f : Rounds(f, roots, next, n) /\ h[n] = f[n]
    BY <1>1
  <2> HIDE DEF h
  <2>2. PICK g : Rounds(g, roots, next, n + 1) /\ h[n + 1] = g[n + 1]
    <3>1. n + 1 \in Nat
      OBVIOUS
    <3> QED
      BY <1>1, <3>1, Zenon
  <2>3. n + 1 \in 0..(n + 1) /\ n + 1 # 0 /\ (n + 1) - 1 = n
    OBVIOUS
  <2>4. g[n + 1] = Round(next, g[n])
    BY <2>2, <2>3 DEF Rounds
  <2>5. f[n] = g[n]
    BY <2>1, <2>2, RoundsAgree
  <2> QED
    BY <2>1, <2>2, <2>4, <2>5
<1>4. h = [n \in Nat |-> IF n = 0 THEN roots
                         ELSE LET p == h[n - 1] IN p \cup UNION {next[o] : o \in p}]
  <2>1. h = [n \in Nat |-> h[n]]
    OBVIOUS
  <2> HIDE DEF h
  <2>2. ASSUME NEW n \in Nat
        PROVE  h[n] = IF n = 0 THEN roots
                      ELSE LET p == h[n - 1] IN p \cup UNION {next[o] : o \in p}
    <3>1. CASE n = 0
      BY <1>2, <3>1
    <3>2. CASE n # 0
      <4>1. n - 1 \in Nat /\ (n - 1) + 1 = n
        BY <3>2
      <4>2. h[n] = Round(next, h[n - 1])
        BY <1>3, <4>1
      <4> QED
        BY <3>2, <4>2 DEF Round
    <3> QED
      BY <3>1, <3>2
  <2> QED
    BY <2>1, <2>2
<1>5. r = [n \in Nat |-> IF n = 0 THEN roots
                         ELSE LET p == r[n - 1] IN p \cup UNION {next[o] : o \in p}]
  <2> HIDE DEF h
  <2> QED
    BY <1>4, Zenon
<1>6. Reach(roots, next) = r[Cardinality(Objs)]
  BY Zenon DEF Reach
<1> HIDE DEF h, r
<1>7. r[0] = roots
  BY <1>5
<1>8. ASSUME NEW n \in Nat PROVE r[n + 1] = Round(next, r[n])
  <2>1. n + 1 \in Nat /\ n + 1 # 0 /\ (n + 1) - 1 = n
    OBVIOUS
  <2>2. r[n + 1] = LET p == r[(n + 1) - 1] IN p \cup UNION {next[o] : o \in p}
    BY <1>5, <2>1
  <2> QED
    BY <2>1, <2>2 DEF Round
<1> QED
  BY <1>6, <1>7, <1>8, Zenon

LEMMA ObjsFinite == IsFiniteSet(Objs) /\ Cardinality(Objs) \in Nat
BY CollectorAssumption, FS_Union, FS_CardinalityType DEF Objs

LEMMA ReachIsClosure ==
  ASSUME NEW roots \in SUBSET Objs, NEW next \in [Objs -> SUBSET Objs]
  PROVE  /\ roots \subseteq Reach(roots, next) /\ Reach(roots, next) \subseteq Objs
         /\ \A o \in Reach(roots, next) : next[o] \subseteq Reach(roots, next)
         /\ \A S : roots \subseteq S /\ (\A o \in S \cap Objs : next[o] \subseteq S)
                     => Reach(roots, next) \subseteq S
<1> DEFINE N == Cardinality(Objs)
<1>1. PICK step : /\ step[0] = roots
                  /\ \A n \in Nat : step[n + 1] = Round(next, step[n])
                  /\ Reach(roots, next) = step[N]
  BY ReachSteps
<1>2. N \in Nat /\ IsFiniteSet(Objs)
  BY ObjsFinite
<1> HIDE DEF N
<1>3. \A n \in Nat : step[n] \subseteq Objs /\ roots \subseteq step[n]
  <2> DEFINE T == {n \in Nat : step[n] \subseteq Objs /\ roots \subseteq step[n]}
  <2>1. 0 \in T
    BY <1>1
  <2>2. ASSUME NEW n \in T, n \in Nat PROVE n + 1 \in T
    <3>1. step[n + 1] = Round(next, step[n]) /\ n + 1 \in Nat
      BY <1>1, <2>2
    <3>2. Round(next, step[n]) \subseteq Objs /\ step[n] \subseteq Round(next, step[n])
      BY <2>2 DEF Round
    <3> QED
      BY <2>2, <3>1, <3>2
  <2>3. Nat \subseteq T
    <3> HIDE DEF T
    <3> QED
      BY <2>1, <2>2, AllNumbers
  <2> QED
    BY <2>3
<1>4. \A n \in Nat : step[n] \subseteq step[n + 1]
  BY <1>1 DEF Round
<1>5. \A n \in Nat : IsFiniteSet(step[n]) /\ Cardinality(step[n]) \in Nat
  BY <1>2, <1>3, FS_Subset, FS_CardinalityType
<1>6. ASSUME NEW n \in Nat, step[n + 1] # step[n]
      PROVE  Cardinality(step[n + 1]) > Cardinality(step[n])
  <2>1. step[n] \subseteq step[n + 1] /\ IsFiniteSet(step[n + 1])
    BY <1>4, <1>5
  <2>2. /\ Cardinality(step[n]) <= Cardinality(step[n + 1])
        /\ Cardinality(step[n]) = Cardinality(step[n + 1]) => step[n] = step[n + 1]
    BY <2>1, FS_Subset
  <2>3. Cardinality(step[n]) \in Nat /\ Cardinality(step[n + 1]) \in Nat
    BY <1>5
  <2> QED
    BY <1>6, <2>2, <2>3
<1>7. \A n \in Nat : step[n + 1] = step[n] \/ Cardinality(step[n + 1]) >= n + 1
  <2> DEFINE T == {n \in Nat : step[n + 1] = step[n] \/ Cardinality(step[n + 1]) >= n + 1}
  <2>1. 0 \in T
    <3>1. Cardinality(step[0]) \in Nat /\ Cardinality(step[0 + 1]) \in Nat
      BY <1>5
    <3>2. step[0 + 1] # step[0] => Cardinality(step[0 + 1]) > Cardinality(step[0])
      BY <1>6
    <3> QED
      BY <3>1, <3>2
  <2>2. ASSUME NEW n \in T, n \in Nat PROVE n + 1 \in T
    <3>1. n + 1 \in Nat /\ (n + 1) + 1 \in Nat
      BY <2>2
    <3>2. step[(n + 1) + 1] # step[n + 1]
             => Cardinality(step[(n + 1) + 1]) > Cardinality(step[n + 1])
      BY <1>6, <3>1
    <3>3. step[n + 1] = step[n] => step[(n + 1) + 1] = step[n + 1]
      BY <1>1, <2>2, <3>1
    <3>4. Cardinality(step[n + 1]) \in Nat /\ Cardinality(step[(n + 1) + 1]) \in Nat
      BY <1>5, <3>1
    <3> QED
      BY <2>2, <3>1, <3>2, <3>3, <3>4
  <2>3. Nat \subseteq T
    <3> HIDE DEF T
    <3> QED
      BY <2>1, <2>2, AllNumbers
  <2> QED
    BY <2>3
<1>8. step[N + 1] = step[N]
  <2>1. N + 1 \in Nat /\ step[N + 1] \subseteq Objs
    BY <1>2, <1>3
  <2>2. Cardinality(step[N + 1]) <= N /\ Cardinality(step[N + 1]) \in Nat
    BY <1>2, <1>5, <2>1, FS_Subset DEF N
  <2> QED
    BY <1>2, <1>7, <2>2
<1>9. ASSUME NEW S, roots \subseteq S, \A o \in S \cap Objs : next[o] \subseteq S
      PROVE  step[N] \subseteq S
  <2> DEFINE T == {n \in Nat : step[n] \subseteq S}
  <2>1. 0 \in T
    BY <1>1, <1>9
  <2>2. ASSUME NEW n \in T, n \in Nat PROVE n + 1 \in T
    <3>1. step[n + 1] = Round(next, step[n]) /\ n + 1 \in Nat
      BY <1>1, <2>2
    <3>2. step[n] \subseteq S \cap Objs
      BY <1>3, <2>2
    <3>3. Round(next, step[n]) \subseteq S
      BY <1>9, <3>2 DEF Round
    <3> QED
      BY <3>1, <3>3
  <2>3. Nat \subseteq T
    <3> HIDE DEF T
    <3> QED
      BY <2>1, <2>2, AllNumbers
  <2> QED
    BY <1>2, <2>3
<1>10. \A o \in step[N] : next[o] \subseteq step[N]
  <2>1. step[N] = Round(next, step[N])
    BY <1>1, <1>2, <1>8
  <2> QED
    BY <2>1 DEF Round
<1> QED
  BY <1>1, <1>2, <1>3, <1>9, <1>10

LEMMA ReachMonotone ==
  ASSUME NEW r1 \in SUBSET Objs, NEW r2 \in SUBSET Objs, r1 \subseteq r2,
         NEW n1 \in [Objs -> SUBSET Objs], NEW n2 \in [Objs -> SUBSET Objs],
         \A o \in Objs : n1[o] \subseteq n2[o]
  PROVE  Reach(r1, n1) \subseteq Reach(r2, n2)
<1> DEFINE R == Reach(r2, n2)
<1>1. r1 \subseteq R /\ \A o \in R : n2[o] \subseteq R
  BY ReachIsClosure
<1>2. \A o \in R \cap Objs : n1[o] \subseteq R
  BY <1>1
<1> HIDE DEF R
<1>3. Reach(r1, n1) \subseteq R
  BY <1>1, <1>2, ReachIsClosure
<1> QED
  BY <1>3 DEF R

-----------------------------------------------------------------------------
(* Marked is part of what the program can get at; it is all of that on the *)
(* main thread when every coroutine has started.                           *)
LEMMA RootsAre ==
  ASSUME CollectorInv
  PROVE  /\ Refers \in [Objs -> SUBSET Objs] /\ Marks \in [Objs -> SUBSET Objs]
         /\ globals \cup (IF running = Main THEN {} ELSE {running}) \cup Local \subseteq Objs
         /\ globals \cup ToSet(Tail(chain)) \cup UNION {held[t] : t \in ToSet(chain)}
               \subseteq Objs
         /\ running \in ToSet(chain)
         /\ running # Main => running \in ToSet(Tail(chain))
<1>1. /\ refs \in [Plain -> SUBSET Objs] /\ held \in [Threads -> SUBSET Objs]
      /\ globals \subseteq Objs /\ chain \in Seq(Threads) /\ chain # <<>>
      /\ running \in Threads /\ Local \subseteq Objs
  BY InvParts, RunningIs DEF CollectorTypeOK, ChainRight
<1>2. Refers \in [Objs -> SUBSET Objs] /\ Marks \in [Objs -> SUBSET Objs]
  BY <1>1 DEF Refers, Marks, Objs, Threads
<1>3. /\ Tail(chain) \in Seq(Threads) /\ Len(Tail(chain)) = Len(chain) - 1
      /\ Len(chain) \in Nat \ {0}
      /\ \A i \in 1..(Len(chain) - 1) : Tail(chain)[i] = chain[i + 1]
  BY <1>1, EmptySeq, HeadTailProperties
<1>4. \A t \in ToSet(Tail(chain)) : t \in Objs
  <2> TAKE t \in ToSet(Tail(chain))
  <2>1. PICK i \in 1..(Len(chain) - 1) : t = Tail(chain)[i]
    BY <1>3 DEF ToSet
  <2>2. i + 1 \in 2..Len(chain)
    BY <1>3
  <2>3. t = chain[i + 1]
    BY <1>3, <2>1
  <2> QED
    BY <2>2, <2>3, InvParts DEF ChainRight, Objs
<1>5. running \in ToSet(chain) /\ \A t \in ToSet(chain) : held[t] \subseteq Objs
  <2>1. /\ \A i \in DOMAIN chain : chain[i] \in Threads
        /\ Len(chain) \in DOMAIN chain
    BY <1>1, <1>3
  <2>2. running \in ToSet(chain)
    BY <2>1, Zenon DEF ToSet, running, Last
  <2>3. \A t \in ToSet(chain) : t \in Threads
    BY <2>1, Zenon DEF ToSet
  <2> QED
    BY <1>1, <2>2, <2>3
<1>6. running # Main => running \in ToSet(Tail(chain))
  <2> SUFFICES ASSUME running # Main PROVE running \in ToSet(Tail(chain))
    OBVIOUS
  <2>1. Len(chain) - 1 \in 1..(Len(chain) - 1) /\ (Len(chain) - 1) + 1 = Len(chain)
    BY <1>3, RunningIs
  <2>2. Tail(chain)[Len(chain) - 1] = running
    BY <1>3, <2>1 DEF running, Last
  <2>3. Len(chain) - 1 \in DOMAIN Tail(chain)
    BY <1>3, <2>1
  <2> QED
    BY <2>2, <2>3 DEF ToSet
<1> QED
  BY <1>1, <1>2, <1>4, <1>5, <1>6 DEF Objs

LEMMA MarkedIsLive ==
  ASSUME CollectorInv PROVE Marked \subseteq Live
<1>1. \A o \in Objs : Marks[o] \subseteq Refers[o]
  BY DEF Marks, Refers
<1> DEFINE r1 == globals \cup (IF running = Main THEN {} ELSE {running}) \cup Local
           r2 == globals \cup ToSet(Tail(chain)) \cup UNION {held[t] : t \in ToSet(chain)}
<1>2. r1 \subseteq r2
  BY RootsAre DEF Local
<1>3. r1 \in SUBSET Objs /\ r2 \in SUBSET Objs
  BY RootsAre
<1> HIDE DEF r1, r2
<1>4. Reach(r1, Marks) \subseteq Reach(r2, Refers)
  BY <1>1, <1>2, <1>3, RootsAre, ReachMonotone
<1> QED
  BY <1>4 DEF Marked, Live, r1, r2

LEMMA MainMarksAll ==
  ASSUME CollectorInv, running = Main, \A c \in made \cap Coros : status[c] # "new"
  PROVE  Marked = Live
<1>1. Marks = Refers
  <2>1. \A o \in Coros : status[o] = "new" => held[o] = {}
    BY InvParts DEF KnowsMade
  <2>2. \A o \in Objs : Marks[o] = Refers[o]
    BY <2>1 DEF Marks, Refers, Objs
  <2>3. Marks = [o \in Objs |-> Marks[o]] /\ Refers = [o \in Objs |-> Refers[o]]
    BY DEF Marks, Refers
  <2> QED
    BY <2>2, <2>3, Zenon
<1>2. chain \in Seq(Threads) /\ Len(chain) = 1 /\ chain[1] = Main
  <2>1. /\ chain \in Seq(Threads) /\ chain[1] = Main /\ Len(chain) \in Nat \ {0}
        /\ \A i \in 2..Len(chain) : chain[i] \in Coros
    BY InvParts, RunningIs DEF CollectorTypeOK, ChainRight
  <2>2. \A n \in Nat \ {0} : n # 1 => n \in 2..n
    OBVIOUS
  <2>3. chain[Len(chain)] \notin Coros
    BY CollectorAssumption DEF running, Last
  <2>4. Len(chain) = 1
    BY <2>1, <2>2, <2>3, Zenon
  <2> QED
    BY <2>1, <2>4
<1>3. ToSet(chain) = {Main}
  BY <1>2 DEF ToSet
<1>4. ToSet(Tail(chain)) = {}
  <2>1. Len(Tail(chain)) = 0 /\ Tail(chain) \in Seq(Threads)
    BY <1>2, HeadTailProperties, EmptySeq
  <2>2. Tail(chain) = <<>>
    BY <2>1, EmptySeq
  <2> QED
    BY <2>2 DEF ToSet
<1>5. globals \cup (IF running = Main THEN {} ELSE {running}) \cup Local
        = globals \cup ToSet(Tail(chain)) \cup UNION {held[t] : t \in ToSet(chain)}
  BY <1>3, <1>4 DEF Local
<1> QED
  BY <1>1, <1>5, Zenon DEF Marked, Live

LEMMA OnlyCollectStarts ==
  ASSUME [Next]_vars, Starts
  PROVE  \E how \in {"call", "auto"} : Collect(how)
<1>1. in_gc = "no" /\ in_gc' # "no"
  BY DEF Starts
<1>2. ~UNCHANGED vars
  BY <1>1 DEF vars, gc
<1>3. ~\E o \in Plain : New(o) \/ SetFinalizer(o)
  BY <1>1 DEF New, SetFinalizer
<1>4. ~\E c \in Coros, S \in SUBSET Objs : Create(c, S)
  BY <1>1 DEF Create
<1>5. ~\E o \in Plain, p \in Objs : Store(o, p) \/ Erase(o, p)
  BY <1>1 DEF Store, Erase, gc
<1>6. ~\E p \in Objs : Fetch(p) \/ Drop(p) \/ SetGlobal(p) \/ UnsetGlobal(p) \/ SetWeak(p)
  BY <1>1 DEF Fetch, Drop, SetGlobal, UnsetGlobal, SetWeak, gc
<1>7. ~(\E c \in Coros : Resume(c)) /\ ~Yield /\ ~Finish
  BY <1>1 DEF Resume, Yield, Finish, gc
<1>8. ~Finalize /\ ~EndCollection
  BY <1>1 DEF Finalize, EndCollection
<1> QED
  BY <1>2, <1>3, <1>4, <1>5, <1>6, <1>7, <1>8 DEF Next

(* A collection on the main thread, when every coroutine has started,      *)
(* clears no weak entry and finalizes no object the program still reaches. *)
THEOREM MainCollectsGarbage == Spec => MainTakesOnlyGarbage
<1>1. ASSUME CollectorInv, [Next]_vars, Starts, running = Main,
             \A c \in made \cap Coros : status[c] # "new"
      PROVE  TakesOnlyGarbage
  <2>1. PICK how \in {"call", "auto"} : Collect(how)
    BY <1>1, OnlyCollectStarts
  <2>2. weak' = weak \cap Marked
    BY <2>1 DEF Collect
  <2>3. ToSet(pending') \cap Marked = {}
    BY <1>1, <2>1, CollectMoves
  <2>4. Marked = Live
    BY <1>1, MainMarksAll
  <2> QED
    BY <2>2, <2>3, <2>4 DEF TakesOnlyGarbage
<1>2. CollectorInv /\ [Next]_vars
        => [Starts /\ running = Main /\ (\A c \in made \cap Coros : status[c] # "new")
              => TakesOnlyGarbage]_vars
  BY <1>1
<1> QED
  BY InitHolds, StepHolds, <1>2, PTL DEF Spec, MainTakesOnlyGarbage

(* No collection, on any thread, leaves a weak entry whose object cannot   *)
(* be reached, or such an object's finalizer for a later cycle.            *)
THEOREM CollectsAllGarbage == Spec => TakesAllGarbage
<1>1. ASSUME CollectorInv, [Next]_vars, Starts
      PROVE  /\ weak' \subseteq Live
             /\ (ToSet(objects) \cap ToSet(finalizable)) \ Live \subseteq ToSet(pending')
  <2>1. PICK how \in {"call", "auto"} : Collect(how)
    BY <1>1, OnlyCollectStarts
  <2>2. weak' = weak \cap Marked
    BY <2>1 DEF Collect
  <2>3. ToSet(pending') = ToSet(objects) \cap (ToSet(finalizable) \ Marked)
    BY <1>1, <2>1, CollectMoves
  <2>4. Marked \subseteq Live
    BY <1>1, MarkedIsLive
  <2> QED
    BY <2>2, <2>3, <2>4
<1>2. CollectorInv /\ [Next]_vars
        => [Starts => /\ weak' \subseteq Live
                      /\ (ToSet(objects) \cap ToSet(finalizable)) \ Live
                            \subseteq ToSet(pending')]_vars
  BY <1>1
<1> QED
  BY InitHolds, StepHolds, <1>2, PTL DEF Spec, TakesAllGarbage
=============================================================================
