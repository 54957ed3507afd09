-------------------------- MODULE Coroutines_proofs --------------------------
(***************************************************************************)
(* Proofs about Coroutines: what the interpreter keeps of the calls under  *)
(* way is what the host stack says, for any number of coroutines, calls    *)
(* and nested handlers.                                                    *)
(***************************************************************************)
EXTENDS Coroutines, FiniteSetTheorems, SequenceTheorems, TLAPS

(* Induction: a set of numbers that has 0 and every successor has them all, *)
(* for otherwise there would be a least one outside it.                     *)
LEMMA LeastNumber ==
  ASSUME NEW T \in SUBSET Nat, T # {}
  PROVE  \E n \in T : \A m \in T : n <= m
<1>1. PICK x \in T : \A y \in T : ~(<<y, x>> \in OpToRel(<, Nat))
  BY NatLessThanWellFounded, WFMin
<1>2. \A y \in T : y < x => <<y, x>> \in OpToRel(<, Nat)
  BY Zenon DEF OpToRel
<1>3. \A y \in T : ~(y < x)
  BY <1>1, <1>2, Zenon
<1>4. x \in Nat /\ \A y \in T : y \in Nat
  OBVIOUS
<1> QED
  BY <1>3, <1>4

LEMMA AllNumbers ==
  ASSUME NEW T, 0 \in T, \A n \in T : n \in Nat => n + 1 \in T
  PROVE  Nat \subseteq T
<1> SUFFICES ASSUME Nat \ T # {} PROVE FALSE
  OBVIOUS
<1>1. Nat \ T \in SUBSET Nat
  OBVIOUS
<1>2. PICK n \in Nat \ T : \A m \in Nat \ T : n <= m
  BY <1>1, LeastNumber, Zenon
<1>3. n # 0 /\ n - 1 \in Nat
  BY <1>2
<1>4. n - 1 \in T
  BY <1>2, <1>3
<1>5. (n - 1) + 1 = n
  BY <1>2
<1> QED
  BY <1>2, <1>3, <1>4, <1>5

-----------------------------------------------------------------------------
(* Flattening: the recursive function of FlattenSeq exists and is unique.  *)

Flattens(f, ss, n) == f = [i \in 1..n |-> IF i = 1 THEN ss[i] ELSE f[i - 1] \o ss[i]]

LEMMA FlattensExists ==
  ASSUME NEW ss, NEW n \in Nat
  PROVE  \E f : Flattens(f, ss, n)
<1> DEFINE T == {k \in Nat : \E f : Flattens(f, ss, k)}
<1>1. 0 \in T
  <2> DEFINE f == [i \in 1..0 |-> 0]
  <2>1. Flattens(f, ss, 0)
    BY DEF Flattens
  <2> QED
    BY <2>1
<1>2. ASSUME NEW k \in T, k \in Nat PROVE k + 1 \in T
  <2>1. PICK f : Flattens(f, ss, k)
    BY <1>2
  <2> DEFINE g == [i \in 1..(k + 1) |-> IF i <= k THEN f[i]
                                        ELSE IF i = 1 THEN ss[i] ELSE f[k] \o ss[i]]
  <2>2. ASSUME NEW i \in 1..(k + 1)
        PROVE  g[i] = IF i = 1 THEN ss[i] ELSE g[i - 1] \o ss[i]
    <3>1. CASE i <= k
      <4>1. g[i] = f[i] /\ i \in 1..k /\ (i # 1 => i - 1 \in 1..k)
        BY <1>2, <3>1
      <4>2. f[i] = IF i = 1 THEN ss[i] ELSE f[i - 1] \o ss[i]
        BY <2>1, <4>1 DEF Flattens
      <4>3. i # 1 => g[i - 1] = f[i - 1]
        BY <1>2, <4>1
      <4> QED
        BY <4>1, <4>2, <4>3
    <3>2. CASE i = k + 1
      <4>1. g[i] = IF i = 1 THEN ss[i] ELSE f[k] \o ss[i]
        BY <1>2, <3>2
      <4>2. i # 1 => i - 1 = k /\ k \in 1..(k + 1) /\ g[k] = f[k]
        BY <1>2, <3>2
      <4> QED
        BY <4>1, <4>2
    <3> QED
      BY <1>2, <3>1, <3>2
  <2>3. Flattens(g, ss, k + 1)
    <3>1. g = [i \in 1..(k + 1) |-> g[i]]
      OBVIOUS
    <3> HIDE DEF g
    <3> QED
      BY <2>2, <3>1 DEF Flattens
  <2> QED
    BY <1>2, <2>3
<1>3. Nat \subseteq T
  <2> HIDE DEF T
  <2> QED
    BY <1>1, <1>2, AllNumbers
<1> QED
  BY <1>3

LEMMA FlattensUnique ==
  ASSUME NEW ss, NEW n \in Nat, NEW f, Flattens(f, ss, n),
         NEW tt, NEW m \in Nat, NEW g, Flattens(g, tt, m),
         n <= m, \A i \in 1..n : ss[i] = tt[i]
  PROVE  \A i \in 1..n : f[i] = g[i]
<1> DEFINE T == {j \in Nat : j \in 1..n => f[j] = g[j]}
<1>1. 0 \in T
  OBVIOUS
<1>2. ASSUME NEW j \in T, j \in Nat PROVE j + 1 \in T
  <2> SUFFICES ASSUME j + 1 \in 1..n PROVE f[j + 1] = g[j + 1]
    BY <1>2
  <2>1. j + 1 \in 1..n /\ j + 1 \in 1..m /\ (j + 1) - 1 = j
    BY <1>2
  <2>2. /\ f[j + 1] = IF j + 1 = 1 THEN ss[j + 1] ELSE f[(j + 1) - 1] \o ss[j + 1]
        /\ g[j + 1] = IF j + 1 = 1 THEN tt[j + 1] ELSE g[(j + 1) - 1] \o tt[j + 1]
    BY <2>1 DEF Flattens
  <2>3. j + 1 # 1 => j \in 1..n /\ f[j] = g[j]
    BY <1>2
  <2> QED
    BY <2>1, <2>2, <2>3
<1>3. Nat \subseteq T
  <2> HIDE DEF T
  <2> QED
    BY <1>1, <1>2, AllNumbers
<1> QED
  BY <1>3

LEMMA FlattenIs ==
  ASSUME NEW X, NEW ss \in Seq(X), ss # <<>>
  PROVE  \E f : Flattens(f, ss, Len(ss)) /\ FlattenSeq(ss) = f[Len(ss)]
<1>1. Len(ss) \in Nat /\ Len(ss) # 0
  BY EmptySeq
<1>2. \E f : Flattens(f, ss, Len(ss))
  BY <1>1, FlattensExists
<1> DEFINE f == CHOOSE f : f = [i \in 1..Len(ss) |-> IF i = 1 THEN ss[i]
                                                     ELSE f[i - 1] \o ss[i]]
<1>3. f = [i \in 1..Len(ss) |-> IF i = 1 THEN ss[i] ELSE f[i - 1] \o ss[i]]
  BY <1>2, Zenon DEF Flattens
<1>4. FlattenSeq(ss) = f[Len(ss)]
  BY <1>1, Zenon DEF FlattenSeq
<1> QED
  BY <1>3, <1>4, Zenon DEF Flattens

LEMMA FlattenOne ==
  ASSUME NEW X, NEW x \in X
  PROVE  FlattenSeq(<<x>>) = x
<1>1. <<x>> \in Seq(X) /\ Len(<<x>>) = 1 /\ <<x>>[1] = x /\ <<x>> # <<>>
  OBVIOUS
<1>2. PICK f : Flattens(f, <<x>>, Len(<<x>>)) /\ FlattenSeq(<<x>>) = f[Len(<<x>>)]
  BY <1>1, FlattenIs, Zenon
<1>3. f[1] = x
  BY <1>1, <1>2 DEF Flattens
<1> QED
  BY <1>1, <1>2, <1>3

LEMMA FlattenAppend ==
  ASSUME NEW X, NEW ss \in Seq(X), NEW x \in X, ss # <<>>
  PROVE  FlattenSeq(Append(ss, x)) = FlattenSeq(ss) \o x
<1> DEFINE tt == Append(ss, x)
           n == Len(ss)
<1>1. /\ tt \in Seq(X) /\ tt # <<>> /\ Len(tt) = n + 1 /\ n \in Nat /\ n # 0
      /\ \A i \in 1..n : tt[i] = ss[i]
      /\ tt[n + 1] = x
  BY AppendProperties, EmptySeq
<1> HIDE DEF tt, n
<1>2. PICK g : Flattens(g, tt, n + 1) /\ FlattenSeq(tt) = g[n + 1]
  BY <1>1, FlattenIs
<1>3. PICK f : Flattens(f, ss, n) /\ FlattenSeq(ss) = f[n]
  BY FlattenIs DEF n
<1>4. g[n + 1] = g[n] \o x
  <2>1. n + 1 \in 1..(n + 1) /\ n + 1 # 1 /\ (n + 1) - 1 = n
    BY <1>1
  <2>2. g[n + 1] = g[(n + 1) - 1] \o tt[n + 1]
    BY <1>2, <2>1 DEF Flattens
  <2> QED
    BY <1>1, <2>1, <2>2
<1>5. n <= n + 1 /\ n \in Nat /\ n + 1 \in Nat /\ \A i \in 1..n : ss[i] = tt[i]
  BY <1>1
<1>6. \A i \in 1..n : f[i] = g[i]
  BY <1>2, <1>3, <1>5, FlattensUnique
<1>7. n \in 1..n
  BY <1>1
<1> QED
  BY <1>2, <1>3, <1>4, <1>6, <1>7 DEF tt

-----------------------------------------------------------------------------
(* The frames of a call stack, one activation at a time.                   *)

LEMMA ActivationFrames ==
  ASSUME NEW a \in Activation
  PROVE  /\ FramesOfActivation(a) \in Seq(Frame)
         /\ a.op \in {"pcall", "load", "lua", "native", "yield", "resume"} =>
              Len(FramesOfActivation(a)) = 1
<1>1. <<"lua">> \in Seq(Frame) /\ <<"ynative">> \in Seq(Frame) /\ <<"native">> \in Seq(Frame)
  BY DEF Frame
<1>2. a.op = "handler" => a.left \in Seq(Frame)
  BY DEF Activation
<1> QED
  BY <1>1, <1>2 DEF FramesOfActivation

LEMMA FramesOfEmpty == FramesOf(<<>>) = <<>>
<1>1. [i \in DOMAIN <<>> |-> FramesOfActivation(<<>>[i])] = <<>>
  OBVIOUS
<1> QED
  BY <1>1 DEF FramesOf, FlattenSeq

LEMMA FramesOfAppendRaw ==
  ASSUME NEW s \in Seq(Activation), NEW a \in Activation
  PROVE  FramesOf(Append(s, a)) = IF s = <<>> THEN FramesOfActivation(a)
                                  ELSE FramesOf(s) \o FramesOfActivation(a)
<1> DEFINE F(t) == [i \in DOMAIN t |-> FramesOfActivation(t[i])]
<1>1. F(s) \in Seq(Seq(Frame)) /\ FramesOfActivation(a) \in Seq(Frame) /\ Len(F(s)) = Len(s)
  BY ActivationFrames
<1>2. F(Append(s, a)) = Append(F(s), FramesOfActivation(a))
  <2>1. F(Append(s, a)) \in Seq(Seq(Frame)) /\ Len(F(Append(s, a))) = Len(s) + 1
    BY ActivationFrames
  <2>2. /\ Append(F(s), FramesOfActivation(a)) \in Seq(Seq(Frame))
        /\ Len(Append(F(s), FramesOfActivation(a))) = Len(s) + 1
    BY <1>1
  <2>3. ASSUME NEW i \in 1..(Len(s) + 1)
        PROVE  F(Append(s, a))[i] = Append(F(s), FramesOfActivation(a))[i]
    <3>1. F(Append(s, a))[i] = FramesOfActivation(Append(s, a)[i])
      OBVIOUS
    <3>2. CASE i <= Len(s)
      BY <3>1, <3>2, <1>1
    <3>3. CASE i = Len(s) + 1
      BY <3>1, <3>3, <1>1
    <3> QED
      BY <3>2, <3>3
  <2> HIDE DEF F
  <2> QED
    BY <2>1, <2>2, <2>3, SeqEqual
<1>3. CASE s = <<>>
  <2>1. F(s) = <<>>
    BY <1>3
  <2>2. F(Append(s, a)) = <<FramesOfActivation(a)>>
    BY <1>2, <2>1
  <2> QED
    BY <1>1, <1>3, <2>2, FlattenOne DEF FramesOf
<1>4. CASE s # <<>>
  <2>1. F(s) # <<>>
    BY <1>1, <1>4, EmptySeq
  <2> HIDE DEF F
  <2>2. FlattenSeq(Append(F(s), FramesOfActivation(a))) = FlattenSeq(F(s)) \o FramesOfActivation(a)
    BY <1>1, <2>1, FlattenAppend
  <2> QED
    BY <1>2, <1>4, <2>2 DEF FramesOf, F
<1> QED
  BY <1>3, <1>4

LEMMA FramesOfType == \A s \in Seq(Activation) : FramesOf(s) \in Seq(Frame)
<1> DEFINE T == {n \in Nat : \A s \in Seq(Activation) : Len(s) = n => FramesOf(s) \in Seq(Frame)}
<1>1. 0 \in T
  BY FramesOfEmpty, EmptySeq
<1>2. ASSUME NEW n \in T, n \in Nat PROVE n + 1 \in T
  <2> SUFFICES ASSUME NEW s \in Seq(Activation), Len(s) = n + 1
               PROVE  FramesOf(s) \in Seq(Frame)
    BY <1>2
  <2>1. s # <<>>
    BY <1>2
  <2>2. PICK t \in Seq(Activation), a \in Activation : s = Append(t, a)
    BY <2>1, SequenceEmptyOrAppend
  <2>3. Len(t) = n
    BY <1>2, <2>2
  <2>4. FramesOf(t) \in Seq(Frame) /\ FramesOfActivation(a) \in Seq(Frame)
    BY <2>3, ActivationFrames
  <2>5. FramesOf(t) \o FramesOfActivation(a) \in Seq(Frame)
    BY <2>4
  <2>6. FramesOf(s) = IF t = <<>> THEN FramesOfActivation(a)
                      ELSE FramesOf(t) \o FramesOfActivation(a)
    BY <2>2, FramesOfAppendRaw
  <2> QED
    BY <2>4, <2>5, <2>6
<1>3. Nat \subseteq T
  <2> HIDE DEF T
  <2> QED
    BY <1>1, <1>2, AllNumbers
<1> QED
  BY <1>3

LEMMA FramesOfAppend ==
  ASSUME NEW s \in Seq(Activation), NEW a \in Activation
  PROVE  /\ FramesOf(Append(s, a)) = FramesOf(s) \o FramesOfActivation(a)
         /\ FramesOf(s) \in Seq(Frame) /\ FramesOfActivation(a) \in Seq(Frame)
<1>1. FramesOfActivation(a) \in Seq(Frame) /\ FramesOf(s) \in Seq(Frame)
  BY ActivationFrames, FramesOfType
<1>2. s = <<>> => FramesOf(s) = <<>>
  BY FramesOfEmpty
<1>3. <<>> \o FramesOfActivation(a) = FramesOfActivation(a)
  BY <1>1, ConcatEmptySeq
<1> QED
  BY <1>1, <1>2, <1>3, FramesOfAppendRaw
-----------------------------------------------------------------------------
(* Prefixes.                                                               *)

LEMMA PrefixIs ==
  ASSUME NEW X, NEW s \in Seq(X), NEW k \in 0..Len(s)
  PROVE  /\ SubSeq(s, 1, k) \in Seq(X) /\ Len(SubSeq(s, 1, k)) = k
         /\ \A i \in 1..k : SubSeq(s, 1, k)[i] = s[i]
         /\ DOMAIN SubSeq(s, 1, k) = 1..k /\ DOMAIN s = 1..Len(s)
<1>1. \A i \in 1..k : s[i] \in X
  BY ElementOfSeq
<1> QED
  BY <1>1

LEMMA PrefixOfPrefix ==
  ASSUME NEW X, NEW s \in Seq(X), NEW k \in 0..Len(s), NEW j \in 0..k
  PROVE  SubSeq(SubSeq(s, 1, k), 1, j) = SubSeq(s, 1, j)
<1>1. /\ SubSeq(s, 1, k) \in Seq(X) /\ Len(SubSeq(s, 1, k)) = k
      /\ \A i \in 1..k : SubSeq(s, 1, k)[i] = s[i]
  BY PrefixIs
<1>2. /\ SubSeq(s, 1, j) \in Seq(X) /\ Len(SubSeq(s, 1, j)) = j
      /\ \A i \in 1..j : SubSeq(s, 1, j)[i] = s[i]
  BY PrefixIs
<1> DEFINE u == SubSeq(s, 1, k)
<1>3. /\ SubSeq(u, 1, j) \in Seq(X) /\ Len(SubSeq(u, 1, j)) = j
      /\ \A i \in 1..j : SubSeq(u, 1, j)[i] = u[i]
  <2>1. u \in Seq(X) /\ j \in 0..Len(u)
    BY <1>1
  <2> HIDE DEF u
  <2> QED
    BY <2>1, PrefixIs
<1>4. \A i \in 1..j : SubSeq(u, 1, j)[i] = SubSeq(s, 1, j)[i]
  BY <1>1, <1>2, <1>3
<1> HIDE DEF u
<1>5. SubSeq(u, 1, j) = SubSeq(s, 1, j)
  BY <1>2, <1>3, <1>4, SeqEqual
<1> QED
  BY <1>5 DEF u

LEMMA PrefixOfAppend ==
  ASSUME NEW X, NEW s \in Seq(X), NEW a \in X, NEW k \in 0..Len(s)
  PROVE  SubSeq(Append(s, a), 1, k) = SubSeq(s, 1, k)
<1> DEFINE t == Append(s, a)
<1>1. t \in Seq(X) /\ k \in 0..Len(t) /\ \A i \in 1..k : t[i] = s[i]
  OBVIOUS
<1> HIDE DEF t
<1>2. /\ SubSeq(t, 1, k) \in Seq(X) /\ Len(SubSeq(t, 1, k)) = k
      /\ \A i \in 1..k : SubSeq(t, 1, k)[i] = t[i]
  BY <1>1, PrefixIs
<1>3. /\ SubSeq(s, 1, k) \in Seq(X) /\ Len(SubSeq(s, 1, k)) = k
      /\ \A i \in 1..k : SubSeq(s, 1, k)[i] = s[i]
  BY PrefixIs
<1>4. SubSeq(t, 1, k) = SubSeq(s, 1, k)
  BY <1>1, <1>2, <1>3, SeqEqual
<1> QED
  BY <1>4 DEF t

LEMMA PrefixAppend ==
  ASSUME NEW X, NEW s \in Seq(X), NEW k \in 1..Len(s)
  PROVE  SubSeq(s, 1, k) = Append(SubSeq(s, 1, k - 1), s[k])
<1> DEFINE u == SubSeq(s, 1, k)
           v == SubSeq(s, 1, k - 1)
           w == Append(v, s[k])
<1>1. u \in Seq(X) /\ Len(u) = k /\ \A i \in 1..k : u[i] = s[i]
  BY PrefixIs
<1>2. v \in Seq(X) /\ Len(v) = k - 1 /\ \A i \in 1..(k - 1) : v[i] = s[i]
  <2>1. k - 1 \in 0..Len(s)
    OBVIOUS
  <2> QED
    BY <2>1, PrefixIs
<1>3. s[k] \in X
  OBVIOUS
<1> HIDE DEF u, v
<1>4. /\ w \in Seq(X) /\ Len(w) = k /\ w[k] = s[k]
      /\ \A i \in 1..(k - 1) : w[i] = v[i]
  BY <1>2, <1>3
<1> HIDE DEF w
<1>5. \A i \in 1..k : u[i] = w[i]
  <2> TAKE i \in 1..k
  <2>1. i = k \/ i \in 1..(k - 1)
    OBVIOUS
  <2> QED
    BY <2>1, <1>1, <1>2, <1>4
<1>6. u = w
  BY <1>1, <1>4, <1>5, SeqEqual
<1> QED
  BY <1>6 DEF u, v, w

(* A sequence is its front and its last element.                           *)
LEMMA FrontLast ==
  ASSUME NEW X, NEW s \in Seq(X), s # <<>>
  PROVE  /\ s = Append(Front(s), Last(s)) /\ Front(s) \in Seq(X) /\ Last(s) \in X
         /\ Len(s) \in Nat \ {0} /\ Len(Front(s)) = Len(s) - 1
         /\ Front(s) = SubSeq(s, 1, Len(s) - 1)
<1>1. Len(s) \in Nat \ {0}
  BY EmptySeq
<1>2. SubSeq(s, 1, Len(s)) = s
  BY SubSeqFull
<1>3. SubSeq(s, 1, Len(s)) = Append(SubSeq(s, 1, Len(s) - 1), s[Len(s)])
  <2>1. Len(s) \in 1..Len(s)
    BY <1>1
  <2> QED
    BY <2>1, PrefixAppend
<1>4. s[Len(s)] \in X
  BY <1>1
<1>5. Len(s) - 1 \in 0..Len(s)
  BY <1>1
<1>6. SubSeq(s, 1, Len(s) - 1) \in Seq(X) /\ Len(SubSeq(s, 1, Len(s) - 1)) = Len(s) - 1
  BY <1>5, PrefixIs
<1> QED
  BY <1>1, <1>2, <1>3, <1>4, <1>6 DEF Front, Last

LEMMA AppendIs ==
  ASSUME NEW X, NEW s \in Seq(X), NEW a \in X
  PROVE  /\ Append(s, a) \in Seq(X) /\ Append(s, a) # <<>> /\ s \o <<a>> = Append(s, a)
         /\ Front(Append(s, a)) = s /\ Last(Append(s, a)) = a
         /\ SubSeq(Append(s, a), 1, Len(s)) = s /\ Len(Append(s, a)) = Len(s) + 1
<1> DEFINE t == Append(s, a)
<1>1. t \in Seq(X) /\ t # <<>> /\ Len(t) = Len(s) + 1 /\ Len(s) \in Nat
      /\ t[Len(s) + 1] = a
  BY AppendProperties
<1>2. SubSeq(t, 1, Len(s)) = SubSeq(s, 1, Len(s))
  <2>1. Len(s) \in 0..Len(s)
    OBVIOUS
  <2> QED
    BY <2>1, PrefixOfAppend
<1>3. SubSeq(s, 1, Len(s)) = s
  BY SubSeqFull
<1>4. s \o <<a>> = t
  BY AppendIsConcat
<1> HIDE DEF t
<1>5. (Len(s) + 1) - 1 = Len(s)
  BY <1>1
<1>6. Front(t) = s /\ Last(t) = a /\ SubSeq(t, 1, Len(s)) = s
  BY <1>1, <1>2, <1>3, <1>5 DEF Front, Last
<1> QED
  BY <1>1, <1>4, <1>6 DEF t

LEMMA AppendTwo ==
  ASSUME NEW X, NEW s \in Seq(X), NEW a \in X, NEW b \in X
  PROVE  s \o <<a, b>> = Append(Append(s, a), b)
<1> DEFINE u == s \o <<a, b>>
           w == Append(Append(s, a), b)
<1>1. u \in Seq(X) /\ w \in Seq(X) /\ Len(u) = Len(w)
  OBVIOUS
<1>2. \A i \in 1..Len(u) : u[i] = w[i]
  OBVIOUS
<1> HIDE DEF u, w
<1>3. u = w
  BY <1>1, <1>2, SeqEqual
<1> QED
  BY <1>3 DEF u, w

-----------------------------------------------------------------------------
(* Counting in a sequence.                                                 *)

LEMMA CountIs ==
  ASSUME NEW X, NEW s \in Seq(X), NEW x
  PROVE  /\ IsFiniteSet({i \in DOMAIN s : s[i] = x}) /\ Count(s, x) \in Nat
         /\ Count(<<>>, x) = 0
<1>1. DOMAIN s = 1..Len(s) /\ Len(s) \in Nat
  BY LenProperties
<1>2. IsFiniteSet(1..Len(s))
  BY <1>1, FS_Interval
<1>3. IsFiniteSet({i \in DOMAIN s : s[i] = x})
  BY <1>1, <1>2, FS_Subset
<1>4. {i \in DOMAIN <<>> : <<>>[i] = x} = {}
  OBVIOUS
<1>5. Cardinality({}) = 0
  BY FS_EmptySet
<1> QED
  BY <1>3, <1>4, <1>5, FS_CardinalityType DEF Count

LEMMA CountAppend ==
  ASSUME NEW X, NEW s \in Seq(X), NEW a \in X, NEW x
  PROVE  Count(Append(s, a), x) = Count(s, x) + (IF a = x THEN 1 ELSE 0)
<1> DEFINE t == Append(s, a)
           S == {i \in DOMAIN s : s[i] = x}
           T == {i \in DOMAIN t : t[i] = x}
<1>1. /\ DOMAIN s = 1..Len(s) /\ DOMAIN t = 1..(Len(s) + 1) /\ Len(s) \in Nat
      /\ \A i \in 1..Len(s) : t[i] = s[i]
      /\ t[Len(s) + 1] = a
  OBVIOUS
<1>2. IsFiniteSet(S) /\ Count(s, x) \in Nat
  BY CountIs
<1>3. CASE a = x
  <2>1. T = S \cup {Len(s) + 1} /\ Len(s) + 1 \notin S
    <3> HIDE DEF t
    <3> QED
      BY <1>1, <1>3
  <2>2. Cardinality(T) = Cardinality(S) + 1
    <3> HIDE DEF S, T
    <3> QED
      BY <1>2, <2>1, FS_AddElement
  <2> QED
    BY <1>3, <2>2 DEF Count
<1>4. CASE a # x
  <2>1. T = S
    <3> HIDE DEF t
    <3> QED
      BY <1>1, <1>4
  <2>2. Count(t, x) = Count(s, x)
    BY <2>1 DEF Count
  <2> QED
    BY <1>2, <1>4, <2>2
<1> QED
  BY <1>3, <1>4

LEMMA CountPrefix ==
  ASSUME NEW X, NEW s \in Seq(X), NEW x, NEW k \in 0..Len(s)
  PROVE  /\ Count(SubSeq(s, 1, k), x) <= Count(s, x)
         /\ \A i \in (k + 1)..Len(s) : s[i] = x => Count(SubSeq(s, 1, k), x) < Count(s, x)
<1> DEFINE u == SubSeq(s, 1, k)
           S == {i \in DOMAIN s : s[i] = x}
           U == {i \in DOMAIN u : u[i] = x}
<1>1. DOMAIN u = 1..k /\ DOMAIN s = 1..Len(s) /\ u \in Seq(X) /\ \A i \in 1..k : u[i] = s[i]
  BY PrefixIs
<1> HIDE DEF u
<1>2. IsFiniteSet(S)
  BY CountIs
<1>3. U \subseteq S
  BY <1>1
<1>4. \A i \in (k + 1)..Len(s) : s[i] = x => i \in S \ U
  BY <1>1
<1>5. Cardinality(U) <= Cardinality(S) /\ (Cardinality(U) = Cardinality(S) => U = S)
  <2> HIDE DEF S, U
  <2> QED
    BY <1>2, <1>3, FS_Subset
<1>6. Count(u, x) \in Nat /\ Count(s, x) \in Nat
  BY <1>1, CountIs
<1> QED
  <2>1. Count(u, x) = Cardinality(U) /\ Count(s, x) = Cardinality(S)
    BY DEF Count
  <2> HIDE DEF S, U
  <2>2. Count(u, x) <= Count(s, x)
    BY <1>5, <2>1
  <2>3. \A i \in (k + 1)..Len(s) : s[i] = x => Count(u, x) < Count(s, x)
    BY <1>4, <1>5, <1>6, <2>1
  <2> QED
    BY <2>2, <2>3 DEF u

-----------------------------------------------------------------------------
(* The handler of a call stack is that of its innermost pcall.             *)

LEMMA HandlerSame ==
  ASSUME NEW t \in Threads, NEW s \in Seq(Activation), NEW u \in Seq(Activation),
         \A i : i \in DOMAIN s /\ s[i].op = "pcall" <=> i \in DOMAIN u /\ u[i].op = "pcall",
         \A i : i \in DOMAIN s /\ s[i].op = "pcall" => u[i] = s[i]
  PROVE  HandlerIn(t, s) = HandlerIn(t, u)
<1>1. \A i : Innermost(s, i) <=> Innermost(u, i)
  BY DEF Innermost
<1>2. \A i : Innermost(s, i) => u[i] = s[i]
  BY DEF Innermost
<1>3. /\ (\E i \in DOMAIN s : Innermost(s, i) /\ s[i].h)
           <=> (\E i \in DOMAIN u : Innermost(u, i) /\ u[i].h)
      /\ (\E i \in DOMAIN s : Innermost(s, i) /\ ~s[i].h)
           <=> (\E i \in DOMAIN u : Innermost(u, i) /\ ~u[i].h)
  <2>1. \A i : Innermost(s, i) => i \in DOMAIN s
    BY DEF Innermost
  <2>2. \A i : Innermost(u, i) => i \in DOMAIN u
    BY DEF Innermost
  <2> QED
    BY <1>1, <1>2, <2>1, <2>2, Zenon
<1> QED
  BY <1>3, Zenon DEF HandlerIn

LEMMA HandlerType ==
  ASSUME NEW t, NEW s
  PROVE  HandlerIn(t, s) \in Msgh
BY DEF HandlerIn, Msgh

LEMMA HandlerEmpty ==
  ASSUME NEW t
  PROVE  HandlerIn(t, <<>>) = IF t = Main THEN "default" ELSE "cleared"
BY DEF HandlerIn, Innermost

LEMMA HandlerAppend ==
  ASSUME NEW t \in Threads, NEW s \in Seq(Activation), NEW a \in Activation
  PROVE  HandlerIn(t, Append(s, a)) =
           IF a.op = "pcall" THEN IF a.h THEN "handler" ELSE "cleared" ELSE HandlerIn(t, s)
<1> DEFINE u == Append(s, a)
           n == Len(s)
<1>1. /\ u \in Seq(Activation) /\ DOMAIN u = 1..(n + 1) /\ DOMAIN s = 1..n /\ n \in Nat
      /\ u[n + 1] = a /\ \A i \in 1..n : u[i] = s[i]
  OBVIOUS
<1> HIDE DEF u, n
<1>2. CASE a.op = "pcall"
  <2>1. Innermost(u, n + 1)
    BY <1>1, <1>2 DEF Innermost
  <2>2. ASSUME NEW i \in DOMAIN u, Innermost(u, i) PROVE i = n + 1
    BY <1>1, <1>2, <2>2 DEF Innermost
  <2>3. n + 1 \in DOMAIN u
    BY <1>1
  <2>4. (\E i \in DOMAIN u : Innermost(u, i) /\ u[i].h) <=> u[n + 1].h
    BY <2>1, <2>2, <2>3, Zenon
  <2>5. (\E i \in DOMAIN u : Innermost(u, i) /\ ~u[i].h) <=> ~u[n + 1].h
    BY <2>1, <2>2, <2>3, Zenon
  <2>6. HandlerIn(t, u) = IF a.h THEN "handler" ELSE "cleared"
    BY <1>1, <2>4, <2>5, Zenon DEF HandlerIn
  <2> QED
    BY <1>2, <2>6 DEF u
<1>3. CASE a.op # "pcall"
  <2>1. \A i : i \in DOMAIN s /\ s[i].op = "pcall" <=> i \in DOMAIN u /\ u[i].op = "pcall"
    BY <1>1, <1>3
  <2>2. \A i : i \in DOMAIN s /\ s[i].op = "pcall" => u[i] = s[i]
    BY <1>1
  <2>3. HandlerIn(t, s) = HandlerIn(t, u)
    BY <1>1, <2>1, <2>2, HandlerSame
  <2> QED
    BY <1>3, <2>3 DEF u
<1> QED
  BY <1>2, <1>3

LEMMA HandlerPrefix ==
  ASSUME NEW t \in Threads, NEW s \in Seq(Activation), NEW k \in 0..Len(s),
         \A i \in (k + 1)..Len(s) : s[i].op # "pcall"
  PROVE  HandlerIn(t, SubSeq(s, 1, k)) = HandlerIn(t, s)
<1> DEFINE u == SubSeq(s, 1, k)
<1>1. /\ u \in Seq(Activation) /\ DOMAIN u = 1..k /\ DOMAIN s = 1..Len(s)
      /\ \A i \in 1..k : u[i] = s[i]
  BY PrefixIs
<1> HIDE DEF u
<1>2. \A i : i \in DOMAIN s /\ s[i].op = "pcall" <=> i \in DOMAIN u /\ u[i].op = "pcall"
  BY <1>1
<1>3. \A i : i \in DOMAIN s /\ s[i].op = "pcall" => u[i] = s[i]
  BY <1>1
<1>4. HandlerIn(t, s) = HandlerIn(t, u)
  BY <1>1, <1>2, <1>3, HandlerSame
<1> QED
  BY <1>4 DEF u

-----------------------------------------------------------------------------
(* The frames of a call stack begin with those of its prefixes.            *)
LEMMA FramesOfPrefix ==
  ASSUME NEW s \in Seq(Activation), NEW k \in 0..Len(s)
  PROVE  \E r \in Seq(Frame) : FramesOf(s) = FramesOf(SubSeq(s, 1, k)) \o r
<1> DEFINE T == {n \in Nat : k + n <= Len(s) =>
                   \E r \in Seq(Frame) :
                      FramesOf(SubSeq(s, 1, k + n)) = FramesOf(SubSeq(s, 1, k)) \o r}
<1>1. 0 \in T
  <2>1. SubSeq(s, 1, k) \in Seq(Activation) /\ k + 0 = k
    BY PrefixIs
  <2>2. FramesOf(SubSeq(s, 1, k)) \o <<>> = FramesOf(SubSeq(s, 1, k)) /\ <<>> \in Seq(Frame)
    BY <2>1, FramesOfType, ConcatEmptySeq
  <2> QED
    BY <2>1, <2>2
<1>2. ASSUME NEW n \in T, n \in Nat PROVE n + 1 \in T
  <2> SUFFICES ASSUME k + (n + 1) <= Len(s)
               PROVE  \E r \in Seq(Frame) :
                        FramesOf(SubSeq(s, 1, k + (n + 1))) = FramesOf(SubSeq(s, 1, k)) \o r
    BY <1>2
  <2>1. k + n <= Len(s) /\ k + n \in 0..Len(s) /\ k + (n + 1) \in 1..Len(s)
        /\ (k + (n + 1)) - 1 = k + n
    BY <1>2
  <2>2. PICK r \in Seq(Frame) : FramesOf(SubSeq(s, 1, k + n)) = FramesOf(SubSeq(s, 1, k)) \o r
    BY <1>2, <2>1
  <2>3. SubSeq(s, 1, k + (n + 1)) = Append(SubSeq(s, 1, k + n), s[k + (n + 1)])
    <3>1. SubSeq(s, 1, k + (n + 1)) =
            Append(SubSeq(s, 1, (k + (n + 1)) - 1), s[k + (n + 1)])
      BY <2>1, PrefixAppend
    <3> QED
      BY <2>1, <3>1
  <2>4. PICK a \in Activation : a = s[k + (n + 1)]
    BY <2>1
  <2>5. SubSeq(s, 1, k + n) \in Seq(Activation) /\ SubSeq(s, 1, k) \in Seq(Activation)
    BY <2>1, PrefixIs
  <2>6. PICK f \in Seq(Frame) : f = FramesOfActivation(a)
    BY ActivationFrames
  <2>7. FramesOf(SubSeq(s, 1, k + (n + 1))) = FramesOf(SubSeq(s, 1, k + n)) \o f
    BY <2>3, <2>4, <2>5, <2>6, FramesOfAppend
  <2>8. FramesOf(SubSeq(s, 1, k)) \in Seq(Frame) /\ r \o f \in Seq(Frame)
    <3>1. FramesOf(SubSeq(s, 1, k)) \in Seq(Frame)
      BY <2>5, FramesOfType, Zenon
    <3>2. r \o f \in Seq(Frame)
      BY ConcatProperties
    <3> QED
      BY <3>1, <3>2
  <2>9. (FramesOf(SubSeq(s, 1, k)) \o r) \o f = FramesOf(SubSeq(s, 1, k)) \o (r \o f)
    <3> DEFINE q == FramesOf(SubSeq(s, 1, k))
    <3>1. q \in Seq(Frame) /\ r \in Seq(Frame) /\ f \in Seq(Frame)
      BY <2>5, <2>6, <2>8
    <3> HIDE DEF q, T
    <3>2. (q \o r) \o f = q \o (r \o f)
      BY <3>1, ConcatAssociative
    <3> QED
      BY <3>2 DEF q
  <2> QED
    BY <2>2, <2>7, <2>8, <2>9
<1>3. Nat \subseteq T
  <2> HIDE DEF T
  <2> QED
    BY <1>1, <1>2, AllNumbers
<1>4. PICK n \in Nat : k + n = Len(s)
  <2>1. Len(s) - k \in Nat /\ k + (Len(s) - k) = Len(s)
    OBVIOUS
  <2> QED
    BY <2>1
<1>5. SubSeq(s, 1, k + n) = s
  BY <1>4, SubSeqFull
<1>6. \E r \in Seq(Frame) : FramesOf(SubSeq(s, 1, k + n)) = FramesOf(SubSeq(s, 1, k)) \o r
  <2>1. n \in T /\ k + n <= Len(s)
    BY <1>3, <1>4
  <2> QED
    BY <2>1
<1> QED
  BY <1>5, <1>6

-----------------------------------------------------------------------------
(* The inductive invariant.  With sl the slips, the registers d and m of a *)
(* thread t agree with its call stack s ...                                *)
Luas(s) == Count(s, Lua)

RegistersMatch(sl, t, s, d, m) ==
    /\ d >= Luas(s)
    /\ sl \cap {"frames", "depth"} = {} => d = LuaFrames(FramesOf(s))
    /\ "msgh" \notin sl => m = HandlerIn(t, s)

(* ... an activation a upon the calls p holds what was right when it began *)
FramesSaved(sl, p, a) ==
    a.op \in {"pcall", "load"} /\ "frames" \notin sl => a.n = Len(FramesOf(p)) + 1
RegistersSaved(sl, t, p, a) ==
    a.op \in {"pcall", "resume"} => RegistersMatch(sl, t, p, a.d, a.m)
UponLua(p, a) ==
    a.op \in {"native", "yield", "pcall", "load", "resume"} => p # <<>> /\ Last(p) = Lua
UponCatcher(p, a) ==
    a.op = "handler" => /\ p # <<>>
                        /\ Last(p).op = IF a.for = "pcall" THEN "pcall" ELSE "load"
                        /\ a.for = "piece" => a.left = <<>>
LoadSlipped(sl, a) == a.op = "handler" /\ a.for = "load" => "depth" \in sl
ThreadSaved(t, a) == a.op = "resume" => a.sf = t /\ a.sc = t

SavedRight(sl, t, p, a) ==
    /\ FramesSaved(sl, p, a) /\ RegistersSaved(sl, t, p, a)
    /\ UponLua(p, a) /\ UponCatcher(p, a) /\ LoadSlipped(sl, a)
    /\ ThreadSaved(t, a)

StackRight(sl, t, s) ==
    \A j \in 1..Len(s) : SavedRight(sl, t, SubSeq(s, 1, j - 1), s[j])

(* ... and the threads are one chain of resumes.                           *)
Waits(t) == stack[t] # <<>> /\ Last(stack[t]).op = "resume"
Resumed(t) == Last(stack[t]).th
Alive(c) == status[c] \in {"running", "normal"}

RunningIs == \A c \in Coros : status[c] = "running" <=> c = running
WaitingIs == \A t \in Threads : Waits(t) <=> t # running /\ (t # Main => status[t] = "normal")
ResumedAreAlive == \A t \in Threads : Waits(t) => Resumed(t) \in Coros /\ Alive(Resumed(t))
AliveAreResumed == \A c \in Coros : Alive(c) => \E t \in Threads : Waits(t) /\ Resumed(t) = c
OneResumer ==
    \A t, u \in Threads : Waits(t) /\ Waits(u) /\ Resumed(t) = Resumed(u) => t = u
StoppedAre ==
    \A c \in Coros :
       /\ status[c] = "suspended" => stack[c] # <<>> /\ Last(stack[c]) = Yielded
       /\ status[c] \in {"new", "dead"} => stack[c] = <<>>
RunsLua == stack[running] # <<>> /\ Last(stack[running]) = Lua

ThreadsInv == /\ RunningIs /\ WaitingIs /\ ResumedAreAlive /\ AliveAreResumed /\ OneResumer
              /\ StoppedAre /\ RunsLua /\ CurrentMatches

RegistersInv ==
    /\ RegistersMatch(slips, running, stack[running], depth, msgh)
    /\ \A c \in Coros : status[c] = "suspended" =>
          RegistersMatch(slips, c, stack[c], thdepth[c], thmsgh[c])
    /\ \A c \in Coros : status[c] = "new" => thdepth[c] = 0 /\ thmsgh[c] = "cleared"

CoroutineInv ==
    /\ CoroutineTypeOK
    /\ ThreadsInv
    /\ \A t \in Threads : StackRight(slips, t, stack[t])
    /\ FramesMatch
    /\ RegistersInv
-----------------------------------------------------------------------------
(* What is right of a stack stays right of its prefixes, when a right      *)
(* activation is added, and when there are more slips.                     *)

LEMMA StackEmpty ==
  ASSUME NEW sl, NEW t
  PROVE  StackRight(sl, t, <<>>)
BY DEF StackRight

LEMMA StackPrefix ==
  ASSUME NEW sl, NEW t, NEW s \in Seq(Activation), StackRight(sl, t, s), NEW k \in 0..Len(s)
  PROVE  StackRight(sl, t, SubSeq(s, 1, k))
<1> DEFINE u == SubSeq(s, 1, k)
<1>1. u \in Seq(Activation) /\ Len(u) = k /\ \A i \in 1..k : u[i] = s[i]
  BY PrefixIs
<1>2. ASSUME NEW j \in 1..k PROVE SavedRight(sl, t, SubSeq(u, 1, j - 1), u[j])
  <2>1. j - 1 \in 0..k /\ j \in 1..Len(s)
    OBVIOUS
  <2>2. SubSeq(u, 1, j - 1) = SubSeq(s, 1, j - 1)
    BY <2>1, PrefixOfPrefix
  <2>3. SavedRight(sl, t, SubSeq(s, 1, j - 1), s[j])
    BY <2>1 DEF StackRight
  <2> HIDE DEF u
  <2> QED
    BY <1>1, <2>2, <2>3
<1> HIDE DEF u
<1>3. StackRight(sl, t, u)
  BY <1>1, <1>2 DEF StackRight
<1> QED
  BY <1>3 DEF u

LEMMA StackAppend ==
  ASSUME NEW sl, NEW t, NEW s \in Seq(Activation), NEW a \in Activation
  PROVE  StackRight(sl, t, Append(s, a)) <=> StackRight(sl, t, s) /\ SavedRight(sl, t, s, a)
<1> DEFINE u == Append(s, a)
           n == Len(s)
<1>1. /\ u \in Seq(Activation) /\ Len(u) = n + 1 /\ SubSeq(u, 1, n) = s /\ n \in Nat
      /\ u[n + 1] = a
  BY AppendIs
<1>2. ASSUME StackRight(sl, t, u) PROVE StackRight(sl, t, s) /\ SavedRight(sl, t, s, a)
  <2>1. n \in 0..Len(u) /\ n + 1 \in 1..Len(u) /\ (n + 1) - 1 = n
    BY <1>1
  <2> HIDE DEF u, n
  <2>2. StackRight(sl, t, SubSeq(u, 1, n))
    BY <1>1, <1>2, <2>1, StackPrefix
  <2>3. SavedRight(sl, t, SubSeq(u, 1, (n + 1) - 1), u[n + 1])
    BY <1>2, <2>1 DEF StackRight
  <2> QED
    BY <1>1, <2>1, <2>2, <2>3
<1>3. ASSUME StackRight(sl, t, s), SavedRight(sl, t, s, a) PROVE StackRight(sl, t, u)
  <2>1. ASSUME NEW j \in 1..(n + 1) PROVE SavedRight(sl, t, SubSeq(u, 1, j - 1), u[j])
    <3>1. CASE j = n + 1
      <4>1. j - 1 = n
        BY <1>1, <3>1
      <4> QED
        BY <1>1, <1>3, <3>1, <4>1
    <3>2. CASE j # n + 1
      <4>1. j \in 1..n /\ j - 1 \in 0..n /\ u[j] = s[j]
        BY <1>1, <3>2
      <4>2. SubSeq(u, 1, j - 1) = SubSeq(s, 1, j - 1)
        BY <4>1, PrefixOfAppend
      <4>3. SavedRight(sl, t, SubSeq(s, 1, j - 1), s[j])
        BY <1>3, <4>1 DEF StackRight
      <4> HIDE DEF u
      <4> QED
        BY <4>1, <4>2, <4>3
    <3> QED
      BY <3>1, <3>2
  <2> HIDE DEF u, n
  <2> QED
    BY <1>1, <2>1 DEF StackRight
<1> QED
  BY <1>2, <1>3

LEMMA RegistersGrow ==
  ASSUME NEW sl, NEW more, sl \subseteq more, NEW t, NEW s, NEW d, NEW m,
         RegistersMatch(sl, t, s, d, m)
  PROVE  RegistersMatch(more, t, s, d, m)
BY DEF RegistersMatch

LEMMA StackGrows ==
  ASSUME NEW sl, NEW more, sl \subseteq more, NEW t, NEW s, StackRight(sl, t, s)
  PROVE  StackRight(more, t, s)
<1> SUFFICES ASSUME NEW j \in 1..Len(s)
             PROVE  SavedRight(more, t, SubSeq(s, 1, j - 1), s[j])
  BY DEF StackRight
<1> DEFINE p == SubSeq(s, 1, j - 1)
           a == s[j]
<1>1. SavedRight(sl, t, p, a)
  BY DEF StackRight
<1> HIDE DEF p, a
<1>2. RegistersSaved(more, t, p, a)
  BY <1>1, RegistersGrow DEF SavedRight, RegistersSaved
<1>3. FramesSaved(more, p, a) /\ LoadSlipped(more, a)
  BY <1>1 DEF SavedRight, FramesSaved, LoadSlipped
<1>4. SavedRight(more, t, p, a)
  BY <1>1, <1>2, <1>3 DEF SavedRight
<1> QED
  BY <1>4 DEF p, a

(* Adding an activation that is no Lua function and no pcall changes       *)
(* nothing for the registers; a Lua function adds one to the depth.        *)
LEMMA FrameCounts ==
  ASSUME NEW a \in Activation
  PROVE  /\ a.op \in {"native", "yield", "load", "resume"} => FramesOfActivation(a) = <<"native">>
         /\ a.op = "lua" => FramesOfActivation(a) = <<"lua">> /\ a = Lua
         /\ a.op = "pcall" => FramesOfActivation(a) = <<"ynative">>
         /\ a.op = "handler" => FramesOfActivation(a) = a.left /\ a.left \in Seq(Frame)
         /\ a.op # "lua" => a # Lua
BY DEF FramesOfActivation, Activation, Lua

LEMMA DepthUpon ==
  ASSUME NEW s \in Seq(Activation), NEW a \in Activation,
         a.op \in {"native", "yield", "pcall", "load", "resume"}
  PROVE  /\ Luas(Append(s, a)) = Luas(s)
         /\ LuaFrames(FramesOf(Append(s, a))) = LuaFrames(FramesOf(s))
<1>1. Luas(Append(s, a)) = Luas(s)
  <2>1. a # Lua
    BY FrameCounts
  <2>2. Count(s, Lua) \in Nat
    BY CountIs
  <2> QED
    BY <2>1, <2>2, CountAppend DEF Luas
<1>2. LuaFrames(FramesOf(Append(s, a))) = LuaFrames(FramesOf(s))
  <2>1. PICK x \in {"native", "ynative"} : FramesOfActivation(a) = <<x>>
    BY FrameCounts
  <2>2. PICK f \in Seq(Frame) : f = FramesOf(s)
    BY FramesOfType
  <2>3. FramesOf(Append(s, a)) = Append(f, x) /\ x \in Frame
    <3>1. FramesOf(Append(s, a)) = f \o <<x>>
      BY <2>1, <2>2, FramesOfAppend
    <3>2. x \in Frame /\ f \o <<x>> = Append(f, x)
      BY <2>1, <2>2, AppendIs DEF Frame
    <3> QED
      BY <3>1, <3>2
  <2>4. Count(f, "lua") \in Nat
    BY <2>2, CountIs
  <2>5. Count(Append(f, x), "lua") = Count(f, "lua") + (IF x = "lua" THEN 1 ELSE 0)
    BY <2>2, <2>3, CountAppend
  <2>6. x # "lua"
    BY <2>1
  <2> QED
    BY <2>2, <2>3, <2>4, <2>5, <2>6 DEF LuaFrames
<1> QED
  BY <1>1, <1>2

LEMMA RegistersUpon ==
  ASSUME NEW sl, NEW t \in Threads, NEW s \in Seq(Activation), NEW a \in Activation,
         NEW d, NEW m, a.op \in {"native", "yield", "load", "resume"}
  PROVE  RegistersMatch(sl, t, s, d, m) <=> RegistersMatch(sl, t, Append(s, a), d, m)
<1>1. HandlerIn(t, Append(s, a)) = HandlerIn(t, s)
  BY HandlerAppend
<1> QED
  BY <1>1, DepthUpon DEF RegistersMatch

LEMMA RegistersUponLua ==
  ASSUME NEW sl, NEW t \in Threads, NEW s \in Seq(Activation),
         NEW d \in Nat, NEW m
  PROVE  /\ Lua \in Activation
         /\ RegistersMatch(sl, t, s, d, m) <=> RegistersMatch(sl, t, Append(s, Lua), d + 1, m)
<1>1. Lua \in Activation /\ Lua.op = "lua"
  BY DEF Lua, Activation
<1>2. Luas(Append(s, Lua)) = Luas(s) + 1 /\ Luas(s) \in Nat
  BY <1>1, CountAppend, CountIs DEF Luas
<1>3. HandlerIn(t, Append(s, Lua)) = HandlerIn(t, s)
  BY <1>1, HandlerAppend
<1>4. /\ LuaFrames(FramesOf(Append(s, Lua))) = LuaFrames(FramesOf(s)) + 1
      /\ LuaFrames(FramesOf(s)) \in Nat
  <2>1. FramesOf(Append(s, Lua)) = FramesOf(s) \o <<"lua">> /\ FramesOf(s) \in Seq(Frame)
    BY <1>1, FrameCounts, FramesOfAppend
  <2>2. PICK f \in Seq(Frame) : f = FramesOf(s)
    BY <2>1
  <2>3. FramesOf(Append(s, Lua)) = Append(f, "lua") /\ "lua" \in Frame
    BY <2>1, <2>2, AppendIs DEF Frame
  <2>4. Count(Append(f, "lua"), "lua") = Count(f, "lua") + 1 /\ Count(f, "lua") \in Nat
    BY <2>3, CountAppend, CountIs
  <2> QED
    BY <2>2, <2>3, <2>4 DEF LuaFrames
<1> QED
  BY <1>1, <1>2, <1>3, <1>4 DEF RegistersMatch
-----------------------------------------------------------------------------
(* The steps by which a thread goes on, by which it stops and its resumer  *)
(* goes on, and by which it resumes another.                               *)
Slip == {"frames", "depth", "msgh"}

LEMMA GoesOn ==
  ASSUME CoroutineInv,
         UNCHANGED <<status, running, cf, curth, thdepth, thmsgh>>,
         NEW u \in Seq(Activation), NEW f \in Seq(Frame),
         stack' = [stack EXCEPT ![running] = u], frames' = [frames EXCEPT ![cf] = f],
         slips \subseteq slips', slips' \subseteq Slip,
         u # <<>>, Last(u) = Lua,
         StackRight(slips', running, u),
         "frames" \notin slips' => f = FramesOf(u),
         RegistersMatch(slips', running, u, depth', msgh'),
         depth' \in Nat, msgh' \in Msgh, closing' \in [Coros -> BOOLEAN], headroom' \in Nat
  PROVE  CoroutineInv'
<1>1. CoroutineTypeOK /\ ThreadsInv /\ FramesMatch /\ RegistersInv
      /\ \A t \in Threads : StackRight(slips, t, stack[t])
  BY DEF CoroutineInv
<1>2. running \in Threads /\ cf = running
  BY <1>1 DEF CoroutineTypeOK, ThreadsInv, CurrentMatches
<1>3. /\ stack \in [Threads -> Seq(Activation)] /\ frames \in [Threads -> Seq(Frame)]
      /\ stack'[running] = u /\ frames'[running] = f
      /\ \A t \in Threads : t # running => stack'[t] = stack[t] /\ frames'[t] = frames[t]
  BY <1>1, <1>2 DEF CoroutineTypeOK
<1>4. CoroutineTypeOK'
  BY <1>1, <1>2 DEF CoroutineTypeOK, Slip
<1>5. ThreadsInv'
  <2>1. Last(u).op = "lua" /\ u # <<>>
    BY DEF Lua
  <2>2. ~Waits(running)
    BY <1>1, <1>2 DEF ThreadsInv, WaitingIs
  <2>3. \A t \in Threads : Waits(t)' <=> Waits(t)
    BY <1>2, <1>3, <2>1, <2>2 DEF Waits
  <2>4. \A t \in Threads : Waits(t) => t # running /\ Resumed(t)' = Resumed(t)
    BY <1>3, <2>2 DEF Resumed
  <2>5. \A c \in Coros : /\ status'[c] = status[c] /\ (Alive(c)' <=> Alive(c))
                         /\ c \in Threads
                         /\ status[c] \in {"suspended", "new", "dead"} => c # running
    BY <1>1 DEF Alive, ThreadsInv, RunningIs, Threads
  <2>6. running' = running
    OBVIOUS
  <2>7. RunningIs' /\ CurrentMatches'
    BY <1>1 DEF ThreadsInv, RunningIs, CurrentMatches
  <2>8. WaitingIs'
    BY <1>1, <2>3 DEF ThreadsInv, WaitingIs
  <2>9. ResumedAreAlive'
    BY <1>1, <2>3, <2>4, <2>5 DEF ThreadsInv, ResumedAreAlive
  <2>10. AliveAreResumed'
    <3> SUFFICES ASSUME NEW c \in Coros, Alive(c)'
                 PROVE  \E t \in Threads : Waits(t)' /\ Resumed(t)' = c
      BY DEF AliveAreResumed
    <3>1. PICK t \in Threads : Waits(t) /\ Resumed(t) = c
      BY <1>1, <2>5 DEF ThreadsInv, AliveAreResumed
    <3> QED
      BY <2>3, <2>4, <3>1
  <2>11. OneResumer'
    <3> SUFFICES ASSUME NEW t \in Threads, NEW v \in Threads, Waits(t)', Waits(v)',
                        Resumed(t)' = Resumed(v)'
                 PROVE  t = v
      BY DEF OneResumer
    <3> QED
      BY <1>1, <2>3, <2>4 DEF ThreadsInv, OneResumer
  <2>12. StoppedAre'
    BY <1>1, <1>3, <2>5 DEF ThreadsInv, StoppedAre
  <2>13. RunsLua'
    BY <1>3 DEF RunsLua
  <2> QED
    BY <2>7, <2>8, <2>9, <2>10, <2>11, <2>12, <2>13 DEF ThreadsInv
<1>6. (\A t \in Threads : StackRight(slips, t, stack[t]))'
  <2> SUFFICES ASSUME NEW t \in Threads PROVE StackRight(slips', t, stack'[t])
    OBVIOUS
  <2> QED
    BY <1>1, <1>3, StackGrows
<1>7. FramesMatch'
  BY <1>1, <1>3 DEF FramesMatch
<1>8. RegistersInv'
  <2>1. RegistersMatch(slips', running', stack'[running'], depth', msgh')
    BY <1>3
  <2>2. ASSUME NEW c \in Coros, status'[c] = "suspended"
        PROVE  RegistersMatch(slips', c, stack'[c], thdepth'[c], thmsgh'[c])
    <3>1. c \in Threads /\ c # running /\ status[c] = "suspended"
      BY <1>1, <2>2 DEF ThreadsInv, RunningIs, Threads
    <3>2. RegistersMatch(slips, c, stack[c], thdepth[c], thmsgh[c])
      BY <1>1, <3>1 DEF RegistersInv
    <3> QED
      BY <1>3, <3>1, <3>2, RegistersGrow
  <2> QED
    BY <1>1, <2>1, <2>2 DEF RegistersInv
<1> QED
  BY <1>4, <1>5, <1>6, <1>7, <1>8 DEF CoroutineInv
(* The thread that runs, unless it is the main thread, has one resumer,    *)
(* and its innermost activation holds what it needs to go on.              *)
LEMMA ResumerIs ==
  ASSUME CoroutineInv, running # Main
  PROVE  /\ running \in Coros /\ Resumer \in Threads /\ Resumer # running
         /\ Waits(Resumer) /\ Resumed(Resumer) = running
         /\ \A t \in Threads : Waits(t) /\ Resumed(t) = running => t = Resumer
<1>1. CoroutineTypeOK /\ ThreadsInv
  BY DEF CoroutineInv
<1>2. running \in Coros /\ Alive(running)
  BY <1>1 DEF CoroutineTypeOK, ThreadsInv, RunningIs, Alive, Threads
<1>3. PICK t \in Threads : Waits(t) /\ Resumed(t) = running
  BY <1>1, <1>2 DEF ThreadsInv, AliveAreResumed
<1>4. /\ Resumer \in Threads /\ stack[Resumer] # <<>> /\ Last(stack[Resumer]).op = "resume"
      /\ Last(stack[Resumer]).th = running
  <2>1. \E u \in Threads : /\ stack[u] # <<>> /\ Last(stack[u]).op = "resume"
                           /\ Last(stack[u]).th = running
    BY <1>3 DEF Waits, Resumed
  <2> QED
    BY <2>1, Zenon DEF Resumer
<1>5. Waits(Resumer) /\ Resumed(Resumer) = running
  BY <1>4 DEF Waits, Resumed
<1> QED
  BY <1>1, <1>2, <1>4, <1>5 DEF ThreadsInv, OneResumer, WaitingIs

LEMMA SavedIs ==
  ASSUME CoroutineInv, NEW t \in Threads, Waits(t)
  PROVE  /\ Last(stack[t]) \in Activation /\ Last(stack[t]).op = "resume"
         /\ Front(stack[t]) \in Seq(Activation) /\ stack[t] = Append(Front(stack[t]), Last(stack[t]))
         /\ Last(stack[t]).sf = t /\ Last(stack[t]).sc = t
         /\ Last(stack[t]).d \in Nat /\ Last(stack[t]).m \in Msgh
         /\ RegistersMatch(slips, t, Front(stack[t]), Last(stack[t]).d, Last(stack[t]).m)
         /\ StackRight(slips, t, Front(stack[t]))
         /\ Front(stack[t]) # <<>> /\ Last(Front(stack[t])) = Lua
         /\ "frames" \notin slips =>
               Pop(frames[t]) = FramesOf(Front(stack[t]))
         /\ Pop(frames[t]) \in Seq(Frame)
<1> DEFINE p == Front(stack[t])
           a == Last(stack[t])
<1>1. stack[t] \in Seq(Activation) /\ stack[t] # <<>> /\ a.op = "resume" /\ frames[t] \in Seq(Frame)
  BY DEF CoroutineInv, CoroutineTypeOK, Waits
<1>2. p \in Seq(Activation) /\ a \in Activation /\ stack[t] = Append(p, a)
  BY <1>1, FrontLast
<1>3. StackRight(slips, t, stack[t])
  BY DEF CoroutineInv
<1>4. a.d \in Nat /\ a.m \in Msgh
  BY <1>1, <1>2 DEF Activation
<1> HIDE DEF p, a
<1>5. StackRight(slips, t, p) /\ SavedRight(slips, t, p, a)
  BY <1>2, <1>3, StackAppend
<1>6. /\ a.sf = t /\ a.sc = t /\ p # <<>> /\ Last(p) = Lua
      /\ RegistersMatch(slips, t, p, a.d, a.m)
  BY <1>1, <1>5 DEF SavedRight, ThreadSaved, UponLua, RegistersSaved
<1>7. FramesOf(stack[t]) = FramesOf(p) \o <<"native">> /\ FramesOf(p) \in Seq(Frame)
  BY <1>1, <1>2, FramesOfAppend, FrameCounts
<1>8. PICK f \in Seq(Frame) : f = FramesOf(p)
  BY <1>7
<1>9. FramesOf(stack[t]) = Append(f, "native") /\ SubSeq(Append(f, "native"), 1, Len(f)) = f
      /\ Len(Append(f, "native")) = Len(f) + 1 /\ Len(f) \in Nat
  <2>1. "native" \in Frame
    BY DEF Frame
  <2> QED
    BY <1>7, <1>8, <2>1, AppendIs
<1>10. "frames" \notin slips => Pop(frames[t]) = FramesOf(p)
  <2>1. "frames" \notin slips => frames[t] = Append(f, "native")
    BY <1>9 DEF CoroutineInv, FramesMatch
  <2>2. (Len(f) + 1) - 1 = Len(f)
    BY <1>9
  <2> QED
    BY <1>8, <1>9, <2>1, <2>2 DEF Pop
<1>11. Pop(frames[t]) \in Seq(Frame)
  BY <1>1 DEF Pop
<1> QED
  BY <1>1, <1>2, <1>4, <1>5, <1>6, <1>10, <1>11 DEF p, a

LEMMA GoesBack ==
  ASSUME CoroutineInv, running # Main,
         NEW u \in Seq(Activation), NEW f \in Seq(Frame), NEW st \in {"suspended", "dead"},
         GoBack(u, f, st),
         slips \subseteq slips', slips' \subseteq Slip,
         StackRight(slips', running, u),
         st = "suspended" => u # <<>> /\ Last(u) = Yielded,
         st = "suspended" => RegistersMatch(slips', running, u, thdepth'[running], thmsgh'[running]),
         st = "dead" => u = <<>>,
         "frames" \notin slips' => f = FramesOf(u),
         msgh' = Saved.m \/ (msgh' = msgh /\ "msgh" \in slips'),
         thdepth' \in [Coros -> Nat], thmsgh' \in [Coros -> Msgh], closing' \in [Coros -> BOOLEAN],
         \A c \in Coros : c # running => thdepth'[c] = thdepth[c] /\ thmsgh'[c] = thmsgh[c]
  PROVE  CoroutineInv'
<1>1. CoroutineTypeOK /\ ThreadsInv /\ FramesMatch /\ RegistersInv
      /\ \A t \in Threads : StackRight(slips, t, stack[t])
  BY DEF CoroutineInv
<1>2. PICK r \in Threads : r = Resumer
  BY ResumerIs
<1>3. /\ running \in Coros /\ running \in Threads /\ r # running /\ Waits(r) /\ Resumed(r) = running
      /\ \A t \in Threads : Waits(t) /\ Resumed(t) = running => t = r
  BY <1>2, ResumerIs DEF Threads
<1> DEFINE p == Front(stack[r])
           a == Last(stack[r])
<1>4. /\ a.op = "resume" /\ p \in Seq(Activation)
      /\ a.sf = r /\ a.sc = r /\ a.d \in Nat /\ a.m \in Msgh
      /\ RegistersMatch(slips, r, p, a.d, a.m) /\ StackRight(slips, r, p)
      /\ p # <<>> /\ Last(p) = Lua
      /\ "frames" \notin slips => Pop(frames[r]) = FramesOf(p)
      /\ Pop(frames[r]) \in Seq(Frame)
  BY <1>3, SavedIs
<1>5. /\ stack' = [stack EXCEPT ![r] = p, ![running] = u]
      /\ frames' = [frames EXCEPT ![r] = Pop(@), ![running] = f]
      /\ status' = [c \in Coros |-> IF c = running THEN st
                                    ELSE IF c = r THEN "running" ELSE status[c]]
      /\ running' = r /\ cf' = r /\ depth' = a.d /\ curth' = r /\ headroom' = headroom
  BY <1>2, <1>4 DEF GoBack
<1>6. /\ stack \in [Threads -> Seq(Activation)] /\ frames \in [Threads -> Seq(Frame)]
  BY <1>1 DEF CoroutineTypeOK
<1> HIDE DEF p, a
<1>7. /\ stack'[r] = p /\ stack'[running] = u
      /\ frames'[r] = Pop(frames[r]) /\ frames'[running] = f
      /\ \A t \in Threads : t # r /\ t # running => stack'[t] = stack[t] /\ frames'[t] = frames[t]
  BY <1>3, <1>5, <1>6
<1>8. msgh' \in Msgh /\ (msgh' = a.m \/ "msgh" \in slips')
  BY <1>1, <1>2, <1>4 DEF Saved, a, CoroutineTypeOK
<1>9. CoroutineTypeOK'
  <2>1. stack' \in [Threads -> Seq(Activation)]
    BY <1>4, <1>5, <1>6
  <2>2. frames' \in [Threads -> Seq(Frame)]
    BY <1>4, <1>5, <1>6
  <2>3. status' \in [Coros -> {"new", "suspended", "normal", "running", "dead"}]
    BY <1>1, <1>5 DEF CoroutineTypeOK
  <2> QED
    BY <1>1, <1>4, <1>5, <1>8, <2>1, <2>2, <2>3 DEF CoroutineTypeOK, Slip
<1>10. ThreadsInv'
  <2>1. Last(p).op = "lua" /\ p # <<>> /\ ~(u # <<>> /\ Last(u).op = "resume")
    BY <1>4 DEF Lua, Yielded
  <2>2. /\ \A t \in Threads : Waits(t)' <=> Waits(t) /\ t # r
        /\ \A t \in Threads : Waits(t) /\ t # r => Resumed(t)' = Resumed(t) /\ t # running
    <3>1. ~Waits(running)
      BY <1>1, <1>3 DEF ThreadsInv, WaitingIs
    <3> QED
      BY <1>3, <1>7, <2>1, <3>1 DEF Waits, Resumed
  <2>3. /\ status'[running] = st /\ (r \in Coros => status'[r] = "running")
        /\ \A c \in Coros : c # running /\ c # r => status'[c] = status[c] /\ status[c] # "running"
        /\ r \in Coros => status[r] = "normal"
    BY <1>1, <1>3, <1>5, CoroutineAssumption
       DEF ThreadsInv, RunningIs, WaitingIs, Threads, CoroutineTypeOK
  <2>4. \A c \in Coros : Alive(c)' <=> Alive(c) /\ c # running
    BY <2>3 DEF Alive
  <2>5. RunningIs' /\ CurrentMatches'
    BY <1>3, <1>5, <2>3 DEF RunningIs, CurrentMatches
  <2>6. WaitingIs'
    <3> SUFFICES ASSUME NEW t \in Threads
                 PROVE  Waits(t)' <=> t # r /\ (t # Main => status'[t] = "normal")
      BY <1>5 DEF WaitingIs
    <3>1. Waits(t) <=> t # running /\ (t # Main => status[t] = "normal")
      BY <1>1 DEF ThreadsInv, WaitingIs
    <3>2. t # Main => t \in Coros
      BY DEF Threads
    <3>3. running # Main
      OBVIOUS
    <3> QED
      BY <1>3, <2>2, <2>3, <3>1, <3>2
  <2>7. ResumedAreAlive'
    BY <1>1, <1>3, <2>2, <2>4 DEF ThreadsInv, ResumedAreAlive
  <2>8. AliveAreResumed'
    <3> SUFFICES ASSUME NEW c \in Coros, Alive(c)'
                 PROVE  \E t \in Threads : Waits(t)' /\ Resumed(t)' = c
      BY DEF AliveAreResumed
    <3>1. PICK t \in Threads : Waits(t) /\ Resumed(t) = c
      BY <1>1, <2>4 DEF ThreadsInv, AliveAreResumed
    <3>2. t # r
      BY <1>3, <2>4, <3>1
    <3> QED
      BY <2>2, <3>1, <3>2
  <2>9. OneResumer'
    <3> SUFFICES ASSUME NEW t \in Threads, NEW v \in Threads, Waits(t)', Waits(v)',
                        Resumed(t)' = Resumed(v)'
                 PROVE  t = v
      BY DEF OneResumer
    <3> QED
      BY <1>1, <2>2 DEF ThreadsInv, OneResumer
  <2>10. StoppedAre'
    <3> SUFFICES ASSUME NEW c \in Coros
                 PROVE  /\ status'[c] = "suspended" => stack'[c] # <<>> /\ Last(stack'[c]) = Yielded
                        /\ status'[c] \in {"new", "dead"} => stack'[c] = <<>>
      BY DEF StoppedAre
    <3>1. CASE c = running
      BY <1>7, <2>3, <3>1
    <3>2. CASE c = r
      BY <2>3, <3>2
    <3>3. CASE c # running /\ c # r
      BY <1>1, <1>7, <2>3, <3>3 DEF ThreadsInv, StoppedAre, Threads
    <3> QED
      BY <3>1, <3>2, <3>3
  <2>11. RunsLua'
    BY <1>4, <1>5, <1>7 DEF RunsLua
  <2> QED
    BY <2>5, <2>6, <2>7, <2>8, <2>9, <2>10, <2>11 DEF ThreadsInv
<1>11. (\A t \in Threads : StackRight(slips, t, stack[t]))'
  <2> SUFFICES ASSUME NEW t \in Threads PROVE StackRight(slips', t, stack'[t])
    OBVIOUS
  <2>1. CASE t = r
    BY <1>4, <1>7, <2>1, StackGrows
  <2>2. CASE t = running
    BY <1>7, <2>2
  <2>3. CASE t # r /\ t # running
    BY <1>1, <1>7, <2>3, StackGrows
  <2> QED
    BY <2>1, <2>2, <2>3
<1>12. FramesMatch'
  <2> SUFFICES ASSUME "frames" \notin slips', NEW t \in Threads
               PROVE  frames'[t] = FramesOf(stack'[t])
    BY DEF FramesMatch
  <2>1. "frames" \notin slips
    OBVIOUS
  <2>2. CASE t = r
    BY <1>4, <1>7, <2>1, <2>2
  <2>3. CASE t = running
    BY <1>7, <2>3
  <2>4. CASE t # r /\ t # running
    BY <1>1, <1>7, <2>1, <2>4 DEF FramesMatch
  <2> QED
    BY <2>2, <2>3, <2>4
<1>13. RegistersInv'
  <2>1. RegistersMatch(slips', running', stack'[running'], depth', msgh')
    <3>1. RegistersMatch(slips', r, p, a.d, a.m)
      BY <1>4, RegistersGrow
    <3>2. RegistersMatch(slips', r, p, a.d, msgh')
      BY <1>8, <3>1 DEF RegistersMatch
    <3> QED
      BY <1>5, <1>7, <3>2
  <2>2. ASSUME NEW c \in Coros, status'[c] = "suspended"
        PROVE  RegistersMatch(slips', c, stack'[c], thdepth'[c], thmsgh'[c])
    <3>1. CASE c = running
      BY <1>5, <1>7, <2>2, <3>1
    <3>2. CASE c # running
      <4>1. c # r /\ c \in Threads /\ status[c] = "suspended"
        BY <1>5, <2>2, <3>2 DEF Threads
      <4>2. RegistersMatch(slips, c, stack[c], thdepth[c], thmsgh[c])
        BY <1>1, <4>1 DEF RegistersInv
      <4> QED
        BY <1>7, <3>2, <4>1, <4>2, RegistersGrow
    <3> QED
      BY <3>1, <3>2
  <2>3. ASSUME NEW c \in Coros, status'[c] = "new"
        PROVE  thdepth'[c] = 0 /\ thmsgh'[c] = "cleared"
    <3>1. c # running /\ status[c] = "new"
      BY <1>5, <2>3
    <3> QED
      BY <1>1, <3>1 DEF RegistersInv
  <2> QED
    BY <2>1, <2>2, <2>3 DEF RegistersInv
<1> QED
  BY <1>9, <1>10, <1>11, <1>12, <1>13 DEF CoroutineInv
LEMMA StackUponLua ==
  ASSUME NEW sl, NEW t, NEW s \in Seq(Activation), StackRight(sl, t, s)
  PROVE  StackRight(sl, t, Append(s, Lua))
<1>1. Lua \in Activation /\ Lua.op = "lua"
  BY DEF Lua, Activation
<1>2. SavedRight(sl, t, s, Lua)
  BY <1>1 DEF SavedRight, FramesSaved, RegistersSaved, UponLua, UponCatcher, LoadSlipped, ThreadSaved
<1> QED
  BY <1>1, <1>2, StackAppend

LEMMA SuspendedIs ==
  ASSUME CoroutineInv, NEW c \in Coros, status[c] = "suspended"
  PROVE  /\ Front(stack[c]) \in Seq(Activation)
         /\ Front(stack[c]) # <<>> /\ Last(Front(stack[c])) = Lua
         /\ StackRight(slips, c, Front(stack[c]))
         /\ RegistersMatch(slips, c, Front(stack[c]), thdepth[c], thmsgh[c])
         /\ "frames" \notin slips => Pop(frames[c]) = FramesOf(Front(stack[c]))
         /\ Pop(frames[c]) \in Seq(Frame)
<1> DEFINE p == Front(stack[c])
<1>1. /\ c \in Threads /\ stack[c] \in Seq(Activation) /\ stack[c] # <<>> /\ frames[c] \in Seq(Frame)
      /\ Last(stack[c]) = Yielded
  BY DEF CoroutineInv, CoroutineTypeOK, ThreadsInv, StoppedAre, Threads
<1>2. p \in Seq(Activation) /\ Yielded \in Activation /\ stack[c] = Append(p, Yielded)
      /\ Yielded.op = "yield"
  <2>1. Yielded \in Activation /\ Yielded.op = "yield"
    BY DEF Yielded, Activation
  <2> QED
    BY <1>1, <2>1, FrontLast
<1>3. StackRight(slips, c, stack[c]) /\ RegistersMatch(slips, c, stack[c], thdepth[c], thmsgh[c])
  BY <1>1 DEF CoroutineInv, RegistersInv
<1> HIDE DEF p
<1>4. StackRight(slips, c, p) /\ SavedRight(slips, c, p, Yielded)
  BY <1>2, <1>3, StackAppend
<1>5. p # <<>> /\ Last(p) = Lua
  BY <1>2, <1>4 DEF SavedRight, UponLua
<1>6. RegistersMatch(slips, c, p, thdepth[c], thmsgh[c])
  BY <1>1, <1>2, <1>3, RegistersUpon
<1>7. FramesOf(stack[c]) = FramesOf(p) \o <<"native">> /\ FramesOf(p) \in Seq(Frame)
  BY <1>1, <1>2, FramesOfAppend, FrameCounts
<1>8. PICK f \in Seq(Frame) : f = FramesOf(p)
  BY <1>7
<1>9. FramesOf(stack[c]) = Append(f, "native") /\ SubSeq(Append(f, "native"), 1, Len(f)) = f
      /\ Len(Append(f, "native")) = Len(f) + 1 /\ Len(f) \in Nat
  <2>1. "native" \in Frame
    BY DEF Frame
  <2> QED
    BY <1>7, <1>8, <2>1, AppendIs
<1>10. "frames" \notin slips => Pop(frames[c]) = FramesOf(p)
  <2>1. "frames" \notin slips => frames[c] = Append(f, "native")
    BY <1>1, <1>9 DEF CoroutineInv, FramesMatch
  <2>2. (Len(f) + 1) - 1 = Len(f)
    BY <1>9
  <2> QED
    BY <1>8, <1>9, <2>1, <2>2 DEF Pop
<1>11. Pop(frames[c]) \in Seq(Frame)
  BY <1>1 DEF Pop
<1> QED
  BY <1>2, <1>4, <1>5, <1>6, <1>10, <1>11 DEF p

(* What a resumed coroutine goes on with, if it is new and if it is not.   *)
LEMMA BodyIs ==
  ASSUME CoroutineInv, NEW c \in Coros, status[c] \in {"new", "suspended"}
  PROVE  \E u \in Seq(Activation), f \in Seq(Frame) :
           /\ u = IF status[c] = "new" THEN <<Lua>> ELSE Front(stack[c])
           /\ f = IF status[c] = "new" THEN <<"lua">> ELSE Pop(frames[c])
           /\ u # <<>> /\ Last(u) = Lua
           /\ StackRight(slips, c, u)
           /\ RegistersMatch(slips, c, u, thdepth[c] + (IF status[c] = "new" THEN 1 ELSE 0),
                             thmsgh[c])
           /\ "frames" \notin slips => f = FramesOf(u)
<1>1. CASE status[c] = "suspended"
  <2>1. thdepth[c] \in Nat
    BY DEF CoroutineInv, CoroutineTypeOK
  <2>2. thdepth[c] + 0 = thdepth[c]
    BY <2>1
  <2> QED
    BY <1>1, <2>2, SuspendedIs
<1>2. CASE status[c] = "new"
  <2>1. thdepth[c] = 0 /\ thmsgh[c] = "cleared"
    BY <1>2 DEF CoroutineInv, RegistersInv
  <2>2. c \in Threads /\ c # Main
    BY CoroutineAssumption DEF Threads
  <2>3. <<>> \in Seq(Activation) /\ Lua \in Activation /\ Append(<<>>, Lua) = <<Lua>>
    BY DEF Lua, Activation
  <2>4. <<Lua>> \in Seq(Activation) /\ <<Lua>> # <<>> /\ Last(<<Lua>>) = Lua
    BY <2>3 DEF Last
  <2>5. StackRight(slips, c, <<Lua>>)
    BY <2>3, StackEmpty, StackUponLua
  <2>6. RegistersMatch(slips, c, <<>>, 0, "cleared")
    <3>1. Luas(<<>>) = 0 /\ LuaFrames(<<>>) = 0
      <4>1. <<>> \in Seq(Frame)
        OBVIOUS
      <4> QED
        BY <2>3, <4>1, CountIs DEF Luas, LuaFrames
    <3>2. HandlerIn(c, <<>>) = "cleared"
      BY <2>2, HandlerEmpty
    <3> QED
      BY <3>1, <3>2, FramesOfEmpty DEF RegistersMatch
  <2>7. RegistersMatch(slips, c, <<Lua>>, 0 + 1, "cleared")
    <3>1. 0 \in Nat
      OBVIOUS
    <3>2. RegistersMatch(slips, c, Append(<<>>, Lua), 0 + 1, "cleared")
      BY <2>2, <2>3, <2>6, <3>1, RegistersUponLua, Zenon
    <3> QED
      BY <2>3, <3>2
  <2>8. FramesOf(<<Lua>>) = <<"lua">>
    <3>1. FramesOf(Append(<<>>, Lua)) = FramesOf(<<>>) \o FramesOfActivation(Lua)
      BY <2>3, FramesOfAppend
    <3>2. FramesOfActivation(Lua) = <<"lua">>
      BY DEF FramesOfActivation, Lua
    <3> QED
      BY <2>3, <3>1, <3>2, FramesOfEmpty
  <2>9. <<"lua">> \in Seq(Frame)
    BY DEF Frame
  <2> QED
    BY <1>2, <2>1, <2>4, <2>5, <2>7, <2>8, <2>9
<1> QED
  BY <1>1, <1>2
LEMMA ResumeKeeps ==
  ASSUME CoroutineInv, NEW c \in Coros, Resume(c)
  PROVE  CoroutineInv'
<1>1. CoroutineTypeOK /\ ThreadsInv /\ FramesMatch /\ RegistersInv
      /\ \A t \in Threads : StackRight(slips, t, stack[t])
  BY DEF CoroutineInv
<1>2. /\ c \in Threads /\ c # Main /\ status[c] \in {"new", "suspended"} /\ c # running
      /\ running \in Threads /\ cf = running /\ curth = running
  BY <1>1, CoroutineAssumption
     DEF Resume, ThreadsInv, RunningIs, CurrentMatches, Threads, CoroutineTypeOK
<1>3. PICK u \in Seq(Activation), f \in Seq(Frame) :
           /\ u = IF status[c] = "new" THEN <<Lua>> ELSE Front(stack[c])
           /\ f = IF status[c] = "new" THEN <<"lua">> ELSE Pop(frames[c])
           /\ u # <<>> /\ Last(u) = Lua
           /\ StackRight(slips, c, u)
           /\ RegistersMatch(slips, c, u, thdepth[c] + (IF status[c] = "new" THEN 1 ELSE 0),
                             thmsgh[c])
           /\ "frames" \notin slips => f = FramesOf(u)
  BY <1>2, BodyIs
<1> DEFINE a == [op |-> "resume", th |-> c, sf |-> running, d |-> depth, m |-> msgh,
                 sc |-> running]
           p == stack[running]
<1>4. a \in Activation /\ a.op = "resume" /\ a.th = c /\ a.sf = running /\ a.sc = running
      /\ a.d = depth /\ a.m = msgh
  BY <1>1, <1>2 DEF Activation, CoroutineTypeOK
<1>5. p \in Seq(Activation) /\ p # <<>> /\ Last(p) = Lua /\ frames[running] \in Seq(Frame)
  BY <1>1 DEF CoroutineTypeOK, ThreadsInv, RunsLua
<1>6. /\ stack' = [stack EXCEPT ![running] = Append(p, a), ![c] = u]
      /\ frames' = [frames EXCEPT ![running] = Append(@, "native"), ![c] = f]
      /\ status' = [x \in Coros |-> IF x = c THEN "running"
                                    ELSE IF x = running THEN "normal" ELSE status[x]]
      /\ depth' = thdepth[c] + (IF status[c] = "new" THEN 1 ELSE 0) /\ msgh' = thmsgh[c]
      /\ running' = c /\ cf' = c /\ curth' = c
      /\ thdepth' = thdepth /\ thmsgh' = thmsgh /\ closing' = closing
      /\ headroom' = headroom /\ slips' = slips
  BY <1>1, <1>2, <1>3 DEF Resume, threg, CoroutineTypeOK
<1> HIDE DEF a, p
<1>7. /\ Append(p, a) \in Seq(Activation) /\ Append(p, a) # <<>> /\ Last(Append(p, a)) = a
      /\ Append(frames[running], "native") \in Seq(Frame)
  BY <1>4, <1>5, AppendIs DEF Frame
<1>8. /\ stack'[running] = Append(p, a) /\ stack'[c] = u
      /\ frames'[running] = Append(frames[running], "native") /\ frames'[c] = f
      /\ \A t \in Threads : t # running /\ t # c => stack'[t] = stack[t] /\ frames'[t] = frames[t]
  BY <1>1, <1>2, <1>6 DEF CoroutineTypeOK
<1>9. thdepth[c] \in Nat /\ thmsgh[c] \in Msgh
  BY <1>1 DEF CoroutineTypeOK
<1>10. CoroutineTypeOK'
  <2>1. stack' \in [Threads -> Seq(Activation)]
    BY <1>1, <1>3, <1>6, <1>7 DEF CoroutineTypeOK
  <2>2. frames' \in [Threads -> Seq(Frame)]
    BY <1>1, <1>3, <1>6, <1>7 DEF CoroutineTypeOK
  <2>3. status' \in [Coros -> {"new", "suspended", "normal", "running", "dead"}]
    BY <1>1, <1>6 DEF CoroutineTypeOK
  <2>4. depth' \in Nat
    BY <1>6, <1>9
  <2> QED
    BY <1>1, <1>2, <1>6, <1>9, <2>1, <2>2, <2>3, <2>4 DEF CoroutineTypeOK
<1>11. ThreadsInv'
  <2>1. ~Waits(running) /\ ~Waits(c) /\ ~Alive(c)
    BY <1>1, <1>2 DEF ThreadsInv, WaitingIs, Alive
  <2>2. /\ \A t \in Threads : Waits(t)' <=> Waits(t) \/ t = running
        /\ \A t \in Threads : Waits(t) => Resumed(t)' = Resumed(t) /\ t # running /\ t # c
                                        /\ Resumed(t) # c
        /\ \A t \in Threads : t = running => Resumed(t)' = c
    <3>1. u # <<>> /\ Last(u).op # "resume"
      BY <1>3 DEF Lua
    <3>2. \A t \in Threads : Waits(t) => Resumed(t) # c
      BY <1>1, <2>1 DEF ThreadsInv, ResumedAreAlive
    <3> QED
      BY <1>2, <1>4, <1>7, <1>8, <2>1, <3>1, <3>2 DEF Waits, Resumed
  <2>3. /\ status'[c] = "running" /\ (running \in Coros => status'[running] = "normal")
        /\ \A x \in Coros : x # c /\ x # running => status'[x] = status[x] /\ status[x] # "running"
        /\ running \in Coros => status[running] = "running"
    BY <1>1, <1>2, <1>6 DEF ThreadsInv, RunningIs
  <2>4. \A x \in Coros : Alive(x)' <=> Alive(x) \/ x = c
    BY <2>3 DEF Alive
  <2>5. RunningIs' /\ CurrentMatches'
    BY <1>2, <1>6, <2>3 DEF RunningIs, CurrentMatches
  <2>6. WaitingIs'
    <3> SUFFICES ASSUME NEW t \in Threads
                 PROVE  Waits(t)' <=> t # c /\ (t # Main => status'[t] = "normal")
      BY <1>6 DEF WaitingIs
    <3>1. Waits(t) <=> t # running /\ (t # Main => status[t] = "normal")
      BY <1>1 DEF ThreadsInv, WaitingIs
    <3>2. t # Main => t \in Coros
      BY DEF Threads
    <3> QED
      BY <1>2, <2>2, <2>3, <3>1, <3>2
  <2>7. ResumedAreAlive'
    BY <1>1, <2>2, <2>4 DEF ThreadsInv, ResumedAreAlive
  <2>8. AliveAreResumed'
    <3> SUFFICES ASSUME NEW x \in Coros, Alive(x)'
                 PROVE  \E t \in Threads : Waits(t)' /\ Resumed(t)' = x
      BY DEF AliveAreResumed
    <3>1. CASE x = c
      BY <1>2, <2>2, <3>1
    <3>2. CASE x # c
      <4>1. PICK t \in Threads : Waits(t) /\ Resumed(t) = x
        BY <1>1, <2>4, <3>2 DEF ThreadsInv, AliveAreResumed
      <4> QED
        BY <2>2, <4>1
    <3> QED
      BY <3>1, <3>2
  <2>9. OneResumer'
    <3> SUFFICES ASSUME NEW t \in Threads, NEW v \in Threads, Waits(t)', Waits(v)',
                        Resumed(t)' = Resumed(v)'
                 PROVE  t = v
      BY DEF OneResumer
    <3> QED
      BY <1>1, <2>2 DEF ThreadsInv, OneResumer
  <2>10. StoppedAre'
    <3> SUFFICES ASSUME NEW x \in Coros
                 PROVE  /\ status'[x] = "suspended" => stack'[x] # <<>> /\ Last(stack'[x]) = Yielded
                        /\ status'[x] \in {"new", "dead"} => stack'[x] = <<>>
      BY DEF StoppedAre
    <3>1. CASE x = c \/ x = running
      BY <2>3, <3>1
    <3>2. CASE x # c /\ x # running
      BY <1>1, <1>8, <2>3, <3>2 DEF ThreadsInv, StoppedAre, Threads
    <3> QED
      BY <3>1, <3>2
  <2>11. RunsLua'
    BY <1>3, <1>6, <1>8 DEF RunsLua
  <2> QED
    BY <2>5, <2>6, <2>7, <2>8, <2>9, <2>10, <2>11 DEF ThreadsInv
<1>12. (\A t \in Threads : StackRight(slips, t, stack[t]))'
  <2> SUFFICES ASSUME NEW t \in Threads PROVE StackRight(slips', t, stack'[t])
    OBVIOUS
  <2>1. StackRight(slips, running, Append(p, a))
    <3>1. SavedRight(slips, running, p, a)
      <4>1. RegistersMatch(slips, running, p, depth, msgh)
        BY <1>1 DEF RegistersInv, p
      <4> QED
        BY <1>4, <1>5, <4>1 DEF SavedRight, FramesSaved, RegistersSaved, UponLua, UponCatcher,
                                LoadSlipped, ThreadSaved
    <3>2. StackRight(slips, running, p)
      BY <1>1, <1>2 DEF p
    <3> QED
      BY <1>4, <1>5, <3>1, <3>2, StackAppend
  <2>2. CASE t = running
    BY <1>6, <1>8, <2>1, <2>2
  <2>3. CASE t = c
    BY <1>3, <1>6, <1>8, <2>3
  <2>4. CASE t # c /\ t # running
    BY <1>1, <1>6, <1>8, <2>4
  <2> QED
    BY <2>2, <2>3, <2>4
<1>13. FramesMatch'
  <2> SUFFICES ASSUME "frames" \notin slips, NEW t \in Threads
               PROVE  frames'[t] = FramesOf(stack'[t])
    BY <1>6 DEF FramesMatch
  <2>1. CASE t = running
    <3>1. FramesOf(Append(p, a)) = FramesOf(p) \o <<"native">>
      BY <1>4, <1>5, FramesOfAppend, FrameCounts
    <3>2. frames[running] = FramesOf(p)
      BY <1>1, <1>2 DEF FramesMatch, p
    <3>3. frames[running] \o <<"native">> = Append(frames[running], "native")
      BY <1>5, AppendIs DEF Frame
    <3> QED
      BY <1>8, <2>1, <3>1, <3>2, <3>3
  <2>2. CASE t = c
    BY <1>3, <1>8, <2>2
  <2>3. CASE t # c /\ t # running
    BY <1>1, <1>8, <2>3 DEF FramesMatch
  <2> QED
    BY <2>1, <2>2, <2>3
<1>14. RegistersInv'
  <2>1. RegistersMatch(slips', running', stack'[running'], depth', msgh')
    BY <1>3, <1>6, <1>8
  <2>2. ASSUME NEW x \in Coros, status'[x] = "suspended"
        PROVE  RegistersMatch(slips', x, stack'[x], thdepth'[x], thmsgh'[x])
    <3>1. x # c /\ x # running /\ x \in Threads /\ status[x] = "suspended"
      BY <1>6, <2>2 DEF Threads
    <3> QED
      BY <1>1, <1>6, <1>8, <3>1 DEF RegistersInv
  <2>3. ASSUME NEW x \in Coros, status'[x] = "new"
        PROVE  thdepth'[x] = 0 /\ thmsgh'[x] = "cleared"
    <3>1. status[x] = "new"
      BY <1>6, <2>3
    <3> QED
      BY <1>1, <1>6, <3>1 DEF RegistersInv
  <2> QED
    BY <2>1, <2>2, <2>3 DEF RegistersInv
<1> QED
  BY <1>10, <1>11, <1>12, <1>13, <1>14 DEF CoroutineInv
LEMMA CloseKeeps ==
  ASSUME CoroutineInv, NEW c \in Coros, Close(c)
  PROVE  CoroutineInv'
<1>1. CoroutineTypeOK /\ ThreadsInv /\ FramesMatch /\ RegistersInv
      /\ \A t \in Threads : StackRight(slips, t, stack[t])
  BY DEF CoroutineInv
<1>2. c \in Threads /\ c # running /\ ~Alive(c) /\ ~Waits(c) /\ c # Main
  BY <1>1, CoroutineAssumption
     DEF Close, ThreadsInv, RunningIs, CurrentMatches, Threads, Alive, WaitingIs
<1>3. /\ stack' = [stack EXCEPT ![c] = <<>>] /\ frames' = [frames EXCEPT ![c] = <<>>]
      /\ status' = [status EXCEPT ![c] = "dead"]
      /\ UNCHANGED <<running, cf, depth, msgh, curth, thdepth, thmsgh, closing, headroom, slips>>
  BY DEF Close
<1>4. <<>> \in Seq(Activation) /\ <<>> \in Seq(Frame)
  OBVIOUS
<1>5. /\ stack'[c] = <<>> /\ frames'[c] = <<>> /\ status'[c] = "dead"
      /\ \A t \in Threads : t # c => stack'[t] = stack[t] /\ frames'[t] = frames[t]
      /\ \A x \in Coros : x # c => status'[x] = status[x]
  BY <1>1, <1>2, <1>3 DEF CoroutineTypeOK
<1>6. CoroutineTypeOK'
  BY <1>1, <1>3, <1>4 DEF CoroutineTypeOK
<1>7. ThreadsInv'
  <2>1. /\ \A t \in Threads : Waits(t)' <=> Waits(t)
        /\ \A t \in Threads : Waits(t) => Resumed(t)' = Resumed(t)
        /\ \A x \in Coros : Alive(x)' <=> Alive(x)
    BY <1>2, <1>5 DEF Waits, Resumed, Alive
  <2>2. RunningIs' /\ CurrentMatches'
    BY <1>1, <1>2, <1>3, <1>5 DEF ThreadsInv, RunningIs, CurrentMatches
  <2>3. WaitingIs'
    <3> SUFFICES ASSUME NEW t \in Threads
                 PROVE  Waits(t)' <=> t # running /\ (t # Main => status'[t] = "normal")
      BY <1>3 DEF WaitingIs
    <3>1. Waits(t) <=> t # running /\ (t # Main => status[t] = "normal")
      BY <1>1 DEF ThreadsInv, WaitingIs
    <3>2. t # Main => t \in Coros
      BY DEF Threads
    <3> QED
      BY <1>2, <1>5, <2>1, <3>1, <3>2
  <2>4. ResumedAreAlive'
    BY <1>1, <2>1 DEF ThreadsInv, ResumedAreAlive
  <2>5. AliveAreResumed'
    BY <1>1, <2>1 DEF ThreadsInv, AliveAreResumed
  <2>6. OneResumer'
    BY <1>1, <2>1 DEF ThreadsInv, OneResumer
  <2>7. StoppedAre'
    BY <1>1, <1>5 DEF ThreadsInv, StoppedAre, Threads
  <2>8. RunsLua'
    BY <1>1, <1>2, <1>3, <1>5 DEF ThreadsInv, RunsLua, CoroutineTypeOK
  <2> QED
    BY <2>2, <2>3, <2>4, <2>5, <2>6, <2>7, <2>8 DEF ThreadsInv
<1>8. (\A t \in Threads : StackRight(slips, t, stack[t]))'
  BY <1>1, <1>3, <1>5, StackEmpty
<1>9. FramesMatch'
  BY <1>1, <1>3, <1>5, FramesOfEmpty DEF FramesMatch
<1>10. RegistersInv'
  <2>1. RegistersMatch(slips', running', stack'[running'], depth', msgh')
    BY <1>1, <1>2, <1>3, <1>5 DEF RegistersInv, CoroutineTypeOK
  <2>2. ASSUME NEW x \in Coros, status'[x] = "suspended"
        PROVE  RegistersMatch(slips', x, stack'[x], thdepth'[x], thmsgh'[x])
    <3>1. x # c /\ x \in Threads /\ status[x] = "suspended"
      BY <1>5, <2>2 DEF Threads
    <3> QED
      BY <1>1, <1>3, <1>5, <3>1 DEF RegistersInv
  <2>3. ASSUME NEW x \in Coros, status'[x] = "new"
        PROVE  thdepth'[x] = 0 /\ thmsgh'[x] = "cleared"
    <3>1. status[x] = "new"
      BY <1>5, <2>3
    <3> QED
      BY <1>1, <1>3, <3>1 DEF RegistersInv
  <2> QED
    BY <2>1, <2>2, <2>3 DEF RegistersInv
<1> QED
  BY <1>6, <1>7, <1>8, <1>9, <1>10 DEF CoroutineInv

LEMMA RefusalKeeps ==
  ASSUME CoroutineInv, NEW c \in Coros, ResumeRefused(c)
  PROVE  CoroutineInv'
<1>1. CoroutineTypeOK /\ ThreadsInv /\ FramesMatch /\ RegistersInv
      /\ \A t \in Threads : StackRight(slips, t, stack[t])
  BY DEF CoroutineInv
<1>2. c \in Threads /\ <<>> \in Seq(Frame) /\ thmsgh[c] \in Msgh
  BY <1>1 DEF Threads, CoroutineTypeOK
<1>3. /\ frames' = [frames EXCEPT ![c] = <<>>] /\ msgh' = thmsgh[c]
      /\ slips' = slips \cup {"msgh"} \cup (IF status[c] = "dead" THEN {} ELSE {"frames"})
      /\ UNCHANGED <<stack, status, running, cf, depth, curth, thdepth, thmsgh, closing, headroom>>
  BY DEF ResumeRefused, host
<1>4. slips \subseteq slips' /\ "msgh" \in slips' /\ slips' \subseteq Slip
  BY <1>1, <1>3 DEF CoroutineTypeOK, Slip
<1>5. CoroutineTypeOK'
  BY <1>1, <1>2, <1>3, <1>4 DEF CoroutineTypeOK, Slip
<1>6. ThreadsInv'
  BY <1>1, <1>3 DEF ThreadsInv, RunningIs, WaitingIs, ResumedAreAlive, AliveAreResumed, OneResumer,
                    StoppedAre, RunsLua, CurrentMatches, Waits, Resumed, Alive
<1>7. (\A t \in Threads : StackRight(slips, t, stack[t]))'
  BY <1>1, <1>3, <1>4, StackGrows
<1>8. FramesMatch'
  <2> SUFFICES ASSUME "frames" \notin slips', NEW t \in Threads
               PROVE  frames'[t] = FramesOf(stack[t])
    BY <1>3 DEF FramesMatch
  <2>1. "frames" \notin slips /\ status[c] = "dead"
    BY <1>3
  <2>2. stack[c] = <<>>
    BY <1>1, <2>1 DEF ThreadsInv, StoppedAre
  <2>3. CASE t = c
    BY <1>1, <1>3, <2>2, <2>3, FramesOfEmpty DEF CoroutineTypeOK
  <2>4. CASE t # c
    BY <1>1, <1>3, <2>1, <2>4 DEF FramesMatch, CoroutineTypeOK
  <2> QED
    BY <2>3, <2>4
<1>9. RegistersInv'
  <2>1. RegistersMatch(slips', running, stack[running], depth, msgh')
    <3>1. RegistersMatch(slips, running, stack[running], depth, msgh)
      BY <1>1 DEF RegistersInv
    <3> QED
      BY <1>4, <3>1 DEF RegistersMatch
  <2>2. ASSUME NEW x \in Coros, status[x] = "suspended"
        PROVE  RegistersMatch(slips', x, stack[x], thdepth[x], thmsgh[x])
    BY <1>1, <1>4, <2>2, RegistersGrow DEF RegistersInv
  <2> QED
    BY <1>1, <1>3, <2>1, <2>2 DEF RegistersInv
<1> QED
  BY <1>5, <1>6, <1>7, <1>8, <1>9 DEF CoroutineInv

(* The running thread's own facts, as the steps below use them.            *)
LEMMA RunningThread ==
  ASSUME CoroutineInv
  PROVE  /\ running \in Threads /\ cf = running /\ curth = running
         /\ stack[running] \in Seq(Activation) /\ stack[running] # <<>>
         /\ Last(stack[running]) = Lua /\ frames[running] \in Seq(Frame)
         /\ StackRight(slips, running, stack[running])
         /\ RegistersMatch(slips, running, stack[running], depth, msgh)
         /\ "frames" \notin slips => frames[running] = FramesOf(stack[running])
         /\ depth \in Nat /\ msgh \in Msgh /\ headroom \in Nat /\ closing \in [Coros -> BOOLEAN]
         /\ slips \subseteq Slip /\ thdepth \in [Coros -> Nat] /\ thmsgh \in [Coros -> Msgh]
         /\ (running # Main => running \in Coros)
BY DEF CoroutineInv, CoroutineTypeOK, ThreadsInv, CurrentMatches, RunsLua, RegistersInv, FramesMatch,
       Slip, Threads

LEMMA PopType ==
  ASSUME NEW f \in Seq(Frame)
  PROVE  Pop(f) \in Seq(Frame)
BY DEF Pop

LEMMA PopIs ==
  ASSUME NEW f \in Seq(Frame), NEW x \in Frame
  PROVE  Pop(f \o <<x>>) = f /\ f \o <<x>> = Append(f, x) /\ f \o <<x>> \in Seq(Frame)
<1>1. /\ f \o <<x>> = Append(f, x) /\ SubSeq(Append(f, x), 1, Len(f)) = f
      /\ Len(Append(f, x)) = Len(f) + 1 /\ Append(f, x) \in Seq(Frame)
  BY AppendIs
<1>2. (Len(f) + 1) - 1 = Len(f)
  OBVIOUS
<1> QED
  BY <1>1, <1>2 DEF Pop

LEMMA LuasUponLua ==
  ASSUME NEW s \in Seq(Activation)
  PROVE  /\ Luas(Append(s, Lua)) = Luas(s) + 1 /\ Luas(s) \in Nat
         /\ Luas(Append(s, Lua)) >= 1 /\ Luas(Append(s, Lua)) \in Nat
<1>1. Lua \in Activation
  BY DEF Lua, Activation
<1>2. Count(s, Lua) \in Nat
  BY CountIs
<1>3. Count(Append(s, Lua), Lua) = Count(s, Lua) + 1
  BY <1>1, CountAppend
<1> QED
  BY <1>2, <1>3 DEF Luas

LEMMA YieldKeeps ==
  ASSUME CoroutineInv, Yield
  PROVE  CoroutineInv'
<1>1. running # Main
  BY DEF Yield
<1> DEFINE s == stack[running]
           u == Append(s, Yielded)
           f == Append(frames[running], "native")
<1>2. Yielded \in Activation /\ Yielded.op = "yield" /\ "native" \in Frame
  BY DEF Yielded, Activation, Frame
<1>3. /\ s \in Seq(Activation) /\ s # <<>> /\ Last(s) = Lua /\ frames[running] \in Seq(Frame)
      /\ running \in Coros /\ running \in Threads /\ cf = running
      /\ StackRight(slips, running, s) /\ RegistersMatch(slips, running, s, depth, msgh)
      /\ "frames" \notin slips => frames[running] = FramesOf(s)
  BY <1>1, RunningThread
<1> HIDE DEF s
<1>4. /\ u \in Seq(Activation) /\ u # <<>> /\ Last(u) = Yielded
  BY <1>2, <1>3, AppendIs
<1>5. f \in Seq(Frame) /\ f = frames[running] \o <<"native">>
  BY <1>2, <1>3, AppendIs
<1>6. StackRight(slips, running, u)
  <2>1. SavedRight(slips, running, s, Yielded)
    BY <1>2, <1>3 DEF SavedRight, FramesSaved, RegistersSaved, UponLua, UponCatcher, LoadSlipped,
                      ThreadSaved
  <2> QED
    BY <1>2, <1>3, <2>1, StackAppend
<1>7. RegistersMatch(slips, running, u, depth, msgh)
  BY <1>2, <1>3, RegistersUpon
<1>8. "frames" \notin slips => f = FramesOf(u)
  <2>1. FramesOf(u) = FramesOf(s) \o <<"native">>
    BY <1>2, <1>3, FramesOfAppend, FrameCounts
  <2> QED
    BY <1>3, <1>5, <2>1
<1> HIDE DEF u, f
<1>9. /\ GoBack(u, f, "suspended") /\ msgh' = Saved.m /\ slips' = slips /\ closing' = closing
      /\ thdepth' = [thdepth EXCEPT ![running] = depth] /\ thmsgh' = [thmsgh EXCEPT ![running] = msgh]
  BY <1>3 DEF Yield, u, f, s
<1>10. /\ thdepth' \in [Coros -> Nat] /\ thmsgh' \in [Coros -> Msgh] /\ closing' \in [Coros -> BOOLEAN]
       /\ thdepth'[running] = depth /\ thmsgh'[running] = msgh /\ slips \subseteq Slip
       /\ \A c \in Coros : c # running => thdepth'[c] = thdepth[c] /\ thmsgh'[c] = thmsgh[c]
  BY <1>3, <1>9, RunningThread
<1> QED
  BY <1>1, <1>4, <1>5, <1>6, <1>7, <1>8, <1>9, <1>10, GoesBack
LEMMA BodyReturnsKeeps ==
  ASSUME CoroutineInv, BodyReturns
  PROVE  CoroutineInv'
<1>1. running # Main /\ stack[running] = <<Lua>>
  BY DEF BodyReturns
<1>2. /\ frames[running] \in Seq(Frame) /\ running \in Coros /\ running \in Threads /\ cf = running
      /\ RegistersMatch(slips, running, stack[running], depth, msgh)
      /\ "frames" \notin slips => frames[running] = FramesOf(stack[running])
      /\ depth \in Nat /\ msgh \in Msgh /\ slips \subseteq Slip
  BY <1>1, RunningThread
<1>3. Lua \in Activation /\ <<>> \in Seq(Activation) /\ Append(<<>>, Lua) = <<Lua>>
  BY DEF Lua, Activation
<1>4. depth - 1 \in Nat
  <2>1. Luas(Append(<<>>, Lua)) >= 1 /\ Luas(Append(<<>>, Lua)) \in Nat
    BY <1>3, LuasUponLua, Zenon
  <2>2. depth >= Luas(stack[running])
    BY <1>2 DEF RegistersMatch
  <2>3. stack[running] = Append(<<>>, Lua)
    BY <1>1, <1>3
  <2> QED
    BY <1>2, <2>1, <2>2, <2>3
<1>5. PICK f \in Seq(Frame) : f = Pop(frames[running])
  BY <1>2, PopType
<1>6. "frames" \notin slips => f = FramesOf(<<>>)
  <2>1. FramesOf(Append(<<>>, Lua)) = FramesOf(<<>>) \o FramesOfActivation(Lua)
    BY <1>3, FramesOfAppend
  <2>2. FramesOfActivation(Lua) = <<"lua">>
    BY DEF FramesOfActivation, Lua
  <2>3. FramesOf(<<Lua>>) = <<"lua">>
    BY <1>3, <2>1, <2>2, FramesOfEmpty
  <2>4. Pop(<<"lua">>) = <<>>
    BY DEF Pop
  <2> QED
    BY <1>1, <1>2, <1>5, <2>3, <2>4, FramesOfEmpty
<1>7. /\ GoBack(<<>>, f, "dead") /\ msgh' = Saved.m /\ slips' = slips /\ closing' = closing
      /\ thdepth' = [thdepth EXCEPT ![running] = depth - 1]
      /\ thmsgh' = [thmsgh EXCEPT ![running] = msgh]
  BY <1>2, <1>5 DEF BodyReturns
<1>8. /\ thdepth' \in [Coros -> Nat] /\ thmsgh' \in [Coros -> Msgh] /\ closing' \in [Coros -> BOOLEAN]
      /\ \A c \in Coros : c # running => thdepth'[c] = thdepth[c] /\ thmsgh'[c] = thmsgh[c]
  BY <1>2, <1>4, <1>7, RunningThread
<1>9. StackRight(slips, running, <<>>)
  BY StackEmpty
<1> QED
  BY <1>1, <1>2, <1>3, <1>6, <1>7, <1>8, <1>9, GoesBack

LEMMA BodyFailsKeeps ==
  ASSUME CoroutineInv, BodyFails
  PROVE  CoroutineInv'
<1>1. running # Main
  BY DEF BodyFails
<1>2. /\ running \in Coros /\ depth \in Nat /\ slips \subseteq Slip
  BY <1>1, RunningThread
<1>3. /\ GoBack(<<>>, <<>>, "dead") /\ msgh' = msgh /\ slips' = slips \cup {"msgh"}
      /\ thdepth' = [thdepth EXCEPT ![running] = depth] /\ thmsgh' = thmsgh /\ closing' = closing
  BY DEF BodyFails
<1>4. /\ thdepth' \in [Coros -> Nat] /\ thmsgh' \in [Coros -> Msgh] /\ closing' \in [Coros -> BOOLEAN]
      /\ \A c \in Coros : c # running => thdepth'[c] = thdepth[c] /\ thmsgh'[c] = thmsgh[c]
  BY <1>2, <1>3, RunningThread
<1>5. StackRight(slips', running, <<>>) /\ <<>> = FramesOf(<<>>)
      /\ <<>> \in Seq(Activation) /\ <<>> \in Seq(Frame)
  BY StackEmpty, FramesOfEmpty
<1>6. slips \subseteq slips' /\ slips' \subseteq Slip /\ "msgh" \in slips'
  BY <1>2, <1>3 DEF Slip
<1> QED
  BY <1>1, <1>3, <1>4, <1>5, <1>6, GoesBack

LEMMA BodyClosesItselfKeeps ==
  ASSUME CoroutineInv, BodyClosesItself
  PROVE  CoroutineInv'
<1>1. running # Main
  BY DEF BodyClosesItself
<1>2. running \in Coros /\ slips \subseteq Slip
  BY <1>1, RunningThread
<1>3. /\ GoBack(<<>>, <<>>, "dead") /\ msgh' = Saved.m /\ slips' = slips
      /\ thdepth' = [thdepth EXCEPT ![running] = 0] /\ thmsgh' = thmsgh
      /\ closing' = [closing EXCEPT ![running] = FALSE]
  BY DEF BodyClosesItself
<1>4. /\ thdepth' \in [Coros -> Nat] /\ thmsgh' \in [Coros -> Msgh] /\ closing' \in [Coros -> BOOLEAN]
      /\ \A c \in Coros : c # running => thdepth'[c] = thdepth[c] /\ thmsgh'[c] = thmsgh[c]
  BY <1>2, <1>3, RunningThread
<1>5. StackRight(slips', running, <<>>) /\ <<>> = FramesOf(<<>>)
      /\ <<>> \in Seq(Activation) /\ <<>> \in Seq(Frame)
  BY StackEmpty, FramesOfEmpty
<1> QED
  BY <1>1, <1>2, <1>3, <1>4, <1>5, GoesBack
-----------------------------------------------------------------------------
(* Calls.                                                                  *)

LEMMA CallKeeps ==
  ASSUME CoroutineInv, Call
  PROVE  CoroutineInv'
<1> DEFINE s == stack[running]
           u == Append(s, Lua)
           f == frames[running] \o <<"lua">>
<1>1. Lua \in Activation /\ "lua" \in Frame /\ FramesOfActivation(Lua) = <<"lua">>
  BY DEF Lua, Activation, Frame, FramesOfActivation
<1>2. /\ s \in Seq(Activation) /\ frames[running] \in Seq(Frame)
      /\ running \in Threads /\ cf = running
      /\ StackRight(slips, running, s) /\ RegistersMatch(slips, running, s, depth, msgh)
      /\ "frames" \notin slips => frames[running] = FramesOf(s)
      /\ depth \in Nat /\ msgh \in Msgh
  BY RunningThread
<1>3. /\ stack' = [stack EXCEPT ![running] = s \o <<Lua>>]
      /\ frames' = [frames EXCEPT ![cf] = f] /\ depth' = depth + 1
      /\ UNCHANGED <<status, running, cf, curth, thdepth, thmsgh, closing, headroom, slips, msgh>>
  BY <1>2 DEF Call, Enter, threg
<1> HIDE DEF s
<1>4. u \in Seq(Activation) /\ u # <<>> /\ Last(u) = Lua /\ s \o <<Lua>> = u
  BY <1>1, <1>2, AppendIs
<1>5. f \in Seq(Frame)
  BY <1>1, <1>2, PopIs
<1>6. StackRight(slips, running, u)
  BY <1>2, StackUponLua
<1>7. RegistersMatch(slips, running, u, depth + 1, msgh)
  BY <1>2, RegistersUponLua
<1>8. "frames" \notin slips => f = FramesOf(u)
  BY <1>1, <1>2, FramesOfAppend
<1> HIDE DEF u, f
<1>9. /\ slips \subseteq slips' /\ slips' \subseteq Slip /\ depth' \in Nat /\ msgh' \in Msgh
      /\ closing' \in [Coros -> BOOLEAN] /\ headroom' \in Nat
  BY <1>2, <1>3, RunningThread
<1>10. StackRight(slips', running, u) /\ ("frames" \notin slips' => f = FramesOf(u))
  BY <1>3, <1>6, <1>8
<1>11. RegistersMatch(slips', running, u, depth', msgh')
  BY <1>3, <1>7
<1>12. stack' = [stack EXCEPT ![running] = u]
  BY <1>3, <1>4
<1> QED
  BY <1>3, <1>4, <1>5, <1>9, <1>10, <1>11, <1>12, GoesOn

(* A native, a pcall or a load that calls a Lua function.                  *)
LEMMA EntersThrough ==
  ASSUME CoroutineInv, NEW a \in Activation, a.op \in {"native", "pcall", "load"},
         NEW x \in Frame, FramesOfActivation(a) = <<x>>,
         SavedRight(slips, running, stack[running], a),
         Enter(<<a, Lua>>, <<x, "lua">>),
         msgh' = IF a.op = "pcall" THEN IF a.h THEN "handler" ELSE "cleared" ELSE msgh
  PROVE  CoroutineInv'
<1> DEFINE s == stack[running]
           p == Append(s, a)
           u == Append(p, Lua)
           f == frames[running] \o <<x, "lua">>
<1>1. Lua \in Activation /\ "lua" \in Frame /\ FramesOfActivation(Lua) = <<"lua">>
  BY DEF Lua, Activation, Frame, FramesOfActivation
<1>2. /\ s \in Seq(Activation) /\ frames[running] \in Seq(Frame)
      /\ running \in Threads /\ cf = running
      /\ StackRight(slips, running, s) /\ RegistersMatch(slips, running, s, depth, msgh)
      /\ "frames" \notin slips => frames[running] = FramesOf(s)
      /\ depth \in Nat /\ msgh \in Msgh
  BY RunningThread
<1>3. /\ stack' = [stack EXCEPT ![running] = s \o <<a, Lua>>]
      /\ frames' = [frames EXCEPT ![cf] = f] /\ depth' = depth + 1
      /\ UNCHANGED <<status, running, cf, curth, thdepth, thmsgh, closing, headroom, slips>>
  BY <1>2 DEF Enter, threg
<1>4. SavedRight(slips, running, s, a)
  OBVIOUS
<1> HIDE DEF s
<1>5. p \in Seq(Activation) /\ s \o <<a, Lua>> = u
  BY <1>1, <1>2, AppendIs, AppendTwo
<1>6. StackRight(slips, running, p)
  BY <1>2, <1>4, StackAppend
<1>7. RegistersMatch(slips, running, p, depth, msgh')
  <2>1. HandlerIn(running, p) = IF a.op = "pcall" THEN IF a.h THEN "handler" ELSE "cleared"
                                ELSE HandlerIn(running, s)
    BY <1>2, HandlerAppend
  <2>2. Luas(p) = Luas(s) /\ LuaFrames(FramesOf(p)) = LuaFrames(FramesOf(s))
    BY <1>2, DepthUpon
  <2> QED
    BY <1>2, <2>1, <2>2 DEF RegistersMatch
<1>8. "frames" \notin slips => f = FramesOf(u)
  <2>1. FramesOf(p) = FramesOf(s) \o <<x>> /\ FramesOf(s) \in Seq(Frame)
    BY <1>2, FramesOfAppend
  <2> HIDE DEF p
  <2>2. FramesOf(u) = FramesOf(p) \o <<"lua">>
    BY <1>1, <1>5, FramesOfAppend
  <2>3. PICK g \in Seq(Frame) : g = FramesOf(s)
    BY <2>1
  <2>4. (g \o <<x>>) \o <<"lua">> = g \o <<x, "lua">>
    BY <1>1, <2>3
  <2> QED
    BY <1>2, <2>1, <2>2, <2>3, <2>4
<1> HIDE DEF p
<1>9. u \in Seq(Activation) /\ u # <<>> /\ Last(u) = Lua
  BY <1>1, <1>5, AppendIs
<1>10. f \in Seq(Frame)
  BY <1>1, <1>2
<1>11. StackRight(slips, running, u)
  BY <1>5, <1>6, StackUponLua
<1>12. RegistersMatch(slips, running, u, depth + 1, msgh')
  BY <1>2, <1>5, <1>7, RegistersUponLua
<1>13. msgh' \in Msgh
  BY <1>2 DEF Msgh
<1> HIDE DEF u, f
<1>14. /\ slips \subseteq slips' /\ slips' \subseteq Slip /\ depth' \in Nat
       /\ closing' \in [Coros -> BOOLEAN] /\ headroom' \in Nat
  BY <1>2, <1>3, RunningThread
<1>15. StackRight(slips', running, u) /\ ("frames" \notin slips' => f = FramesOf(u))
  BY <1>3, <1>8, <1>11
<1>16. RegistersMatch(slips', running, u, depth', msgh')
  BY <1>3, <1>12
<1>17. stack' = [stack EXCEPT ![running] = u]
  BY <1>3, <1>5
<1> QED
  BY <1>3, <1>9, <1>10, <1>13, <1>14, <1>15, <1>16, <1>17, GoesOn

LEMMA CallbackKeeps ==
  ASSUME CoroutineInv, Callback
  PROVE  CoroutineInv'
<1>1. /\ Native \in Activation /\ Native.op = "native" /\ "native" \in Frame
      /\ FramesOfActivation(Native) = <<"native">>
  BY DEF Native, Activation, Frame, FramesOfActivation
<1>2. stack[running] # <<>> /\ Last(stack[running]) = Lua
  BY RunningThread
<1>3. SavedRight(slips, running, stack[running], Native)
  BY <1>1, <1>2 DEF SavedRight, FramesSaved, RegistersSaved, UponLua, UponCatcher, LoadSlipped,
                    ThreadSaved
<1>4. Enter(<<Native, Lua>>, <<"native", "lua">>) /\ msgh' = msgh
  BY DEF Callback
<1> QED
  BY <1>1, <1>3, <1>4, EntersThrough

LEMMA PcallKeeps ==
  ASSUME CoroutineInv, NEW h \in BOOLEAN, Pcall(h)
  PROVE  CoroutineInv'
<1>1. /\ stack[running] # <<>> /\ Last(stack[running]) = Lua /\ cf = running
      /\ frames[running] \in Seq(Frame) /\ depth \in Nat /\ msgh \in Msgh
      /\ RegistersMatch(slips, running, stack[running], depth, msgh)
      /\ "frames" \notin slips => frames[running] = FramesOf(stack[running])
  BY RunningThread
<1> DEFINE a == [op |-> "pcall", n |-> Len(frames[cf]) + 1, d |-> depth, m |-> msgh, h |-> h]
<1>2. /\ a \in Activation /\ a.op = "pcall" /\ a.n = Len(frames[running]) + 1
      /\ a.d = depth /\ a.m = msgh /\ a.h = h
  BY <1>1 DEF Activation
<1>3. "ynative" \in Frame /\ FramesOfActivation(a) = <<"ynative">>
  BY DEF Frame, FramesOfActivation
<1>4. Enter(<<a, Lua>>, <<"ynative", "lua">>) /\ msgh' = IF h THEN "handler" ELSE "cleared"
  BY DEF Pcall
<1> HIDE DEF a
<1>5. SavedRight(slips, running, stack[running], a)
  BY <1>1, <1>2 DEF SavedRight, FramesSaved, RegistersSaved, UponLua, UponCatcher, LoadSlipped,
                    ThreadSaved
<1>6. msgh' = IF a.op = "pcall" THEN IF a.h THEN "handler" ELSE "cleared" ELSE msgh
  BY <1>2, <1>4
<1> QED
  BY <1>2, <1>3, <1>4, <1>5, <1>6, EntersThrough

LEMMA LoadKeeps ==
  ASSUME CoroutineInv, Load
  PROVE  CoroutineInv'
<1>1. /\ stack[running] # <<>> /\ Last(stack[running]) = Lua /\ cf = running
      /\ frames[running] \in Seq(Frame)
      /\ "frames" \notin slips => frames[running] = FramesOf(stack[running])
  BY RunningThread
<1> DEFINE a == [op |-> "load", n |-> Len(frames[cf]) + 1]
<1>2. a \in Activation /\ a.op = "load" /\ a.n = Len(frames[running]) + 1
  BY <1>1 DEF Activation
<1>3. "native" \in Frame /\ FramesOfActivation(a) = <<"native">>
  BY DEF Frame, FramesOfActivation
<1>4. Enter(<<a, Lua>>, <<"native", "lua">>) /\ msgh' = msgh
  BY DEF Load
<1> HIDE DEF a
<1>5. SavedRight(slips, running, stack[running], a)
  BY <1>1, <1>2 DEF SavedRight, FramesSaved, RegistersSaved, UponLua, UponCatcher, LoadSlipped,
                    ThreadSaved
<1>6. msgh' = IF a.op = "pcall" THEN IF a.h THEN "handler" ELSE "cleared" ELSE msgh
  BY <1>2, <1>4
<1> QED
  BY <1>2, <1>3, <1>4, <1>5, <1>6, EntersThrough
-----------------------------------------------------------------------------
(* Returns.                                                                *)

LEMMA CalledByIs ==
  ASSUME CoroutineInv, NEW op, CalledBy(op)
  PROVE  \E p \in Seq(Activation), a \in Activation :
           /\ stack[running] = Append(Append(p, a), Lua) /\ a = Below /\ a.op = op
           /\ Append(p, a) \in Seq(Activation) /\ Append(p, a) # <<>>
           /\ Len(stack[running]) = Len(p) + 2
           /\ SubSeq(stack[running], 1, Len(stack[running]) - 1) = Append(p, a)
           /\ SubSeq(stack[running], 1, Len(stack[running]) - 2) = p
           /\ StackRight(slips, running, Append(p, a))
           /\ StackRight(slips, running, p) /\ SavedRight(slips, running, p, a)
           /\ depth - 1 \in Nat
           /\ RegistersMatch(slips, running, Append(p, a), depth - 1, msgh)
           /\ Pop(frames[running]) \in Seq(Frame)
           /\ "frames" \notin slips => Pop(frames[running]) = FramesOf(Append(p, a))
<1> DEFINE s == stack[running]
           n == Len(s)
           q == Front(s)
           p == Front(q)
           a == Last(q)
<1>1. /\ s \in Seq(Activation) /\ s # <<>> /\ Last(s) = Lua /\ frames[running] \in Seq(Frame)
      /\ running \in Threads /\ StackRight(slips, running, s)
      /\ RegistersMatch(slips, running, s, depth, msgh) /\ depth \in Nat
      /\ "frames" \notin slips => frames[running] = FramesOf(s)
  BY RunningThread
<1>2. n > 1 /\ s[n - 1].op = op /\ s[n - 1] = Below
  BY DEF CalledBy, Below
<1>3. /\ q \in Seq(Activation) /\ s = Append(q, Lua) /\ n \in Nat /\ Len(q) = n - 1
      /\ q = SubSeq(s, 1, n - 1)
  BY <1>1, FrontLast
<1>4. q # <<>> /\ a = s[n - 1]
  <2>1. n - 1 \in 0..n /\ n - 1 \in 1..(n - 1)
    BY <1>2, <1>3
  <2>2. \A i \in 1..(n - 1) : SubSeq(s, 1, n - 1)[i] = s[i]
    BY <1>1, <2>1, PrefixIs
  <2>3. q[n - 1] = s[n - 1]
    BY <1>3, <2>1, <2>2
  <2>4. q # <<>>
    BY <1>2, <1>3, EmptySeq
  <2> HIDE DEF q
  <2> QED
    BY <1>3, <2>3, <2>4 DEF Last
<1>5. /\ p \in Seq(Activation) /\ a \in Activation /\ q = Append(p, a) /\ Len(p) = n - 2
      /\ p = SubSeq(s, 1, n - 2) /\ Len(p) \in Nat
  <2> HIDE DEF q
  <2>1. /\ p \in Seq(Activation) /\ a \in Activation /\ q = Append(p, a) /\ Len(p) = Len(q) - 1
        /\ p = SubSeq(q, 1, Len(q) - 1)
    BY <1>3, <1>4, FrontLast
  <2>2. Len(q) - 1 = n - 2 /\ n - 2 \in 0..(n - 1) /\ n - 1 \in 0..n
    BY <1>2, <1>3
  <2>3. SubSeq(SubSeq(s, 1, n - 1), 1, n - 2) = SubSeq(s, 1, n - 2)
    BY <1>1, <2>2, PrefixOfPrefix
  <2> HIDE DEF s, n, p, a
  <2>4. Len(p) \in Nat
    BY <2>1
  <2> QED
    BY <1>3, <2>1, <2>2, <2>3, <2>4
<1> HIDE DEF s, n, q, p, a
<1>6. StackRight(slips, running, q)
  <2>1. Lua \in Activation
    BY DEF Lua, Activation
  <2> QED
    BY <1>1, <1>3, <2>1, StackAppend
<1>7. StackRight(slips, running, p) /\ SavedRight(slips, running, p, a)
  BY <1>5, <1>6, StackAppend
<1>8. depth - 1 \in Nat /\ RegistersMatch(slips, running, q, depth - 1, msgh)
  <2>1. Luas(s) >= 1 /\ Luas(s) \in Nat
    BY <1>3, LuasUponLua
  <2>2. depth >= Luas(s)
    BY <1>1 DEF RegistersMatch
  <2>3. depth - 1 \in Nat /\ (depth - 1) + 1 = depth
    BY <1>1, <2>1, <2>2
  <2>4. RegistersMatch(slips, running, Append(q, Lua), (depth - 1) + 1, msgh)
    BY <1>1, <1>3, <2>3
  <2> QED
    BY <1>1, <1>3, <2>3, <2>4, RegistersUponLua, Zenon
<1>9. Pop(frames[running]) \in Seq(Frame)
  BY <1>1, PopType
<1>10. "frames" \notin slips => Pop(frames[running]) = FramesOf(q)
  <2>1. Lua \in Activation /\ FramesOfActivation(Lua) = <<"lua">> /\ "lua" \in Frame
    BY DEF Lua, Activation, FramesOfActivation, Frame
  <2>2. FramesOf(s) = FramesOf(q) \o <<"lua">> /\ FramesOf(q) \in Seq(Frame)
    BY <1>3, <2>1, FramesOfAppend
  <2>3. Pop(FramesOf(q) \o <<"lua">>) = FramesOf(q)
    BY <2>1, <2>2, PopIs
  <2> QED
    BY <1>1, <2>2, <2>3
<1>11. n = Len(p) + 2
  BY <1>3, <1>5
<1> QED
  <2>1. /\ s = Append(Append(p, a), Lua) /\ a = Below /\ a.op = op
        /\ Append(p, a) \in Seq(Activation) /\ Append(p, a) # <<>>
        /\ SubSeq(s, 1, n - 1) = Append(p, a) /\ SubSeq(s, 1, n - 2) = p
    BY <1>2, <1>3, <1>4, <1>5
  <2> QED
    BY <1>5, <1>6, <1>7, <1>8, <1>9, <1>10, <1>11, <2>1, Zenon DEF s, n

LEMMA ReturnToLuaKeeps ==
  ASSUME CoroutineInv, ReturnToLua
  PROVE  CoroutineInv'
<1>1. CalledBy("lua") /\ Leave(1) /\ msgh' = msgh
  BY DEF ReturnToLua
<1>2. PICK p \in Seq(Activation), a \in Activation :
           /\ a.op = "lua"
           /\ Append(p, a) \in Seq(Activation) /\ Append(p, a) # <<>>
           /\ SubSeq(stack[running], 1, Len(stack[running]) - 1) = Append(p, a)
           /\ StackRight(slips, running, Append(p, a))
           /\ depth - 1 \in Nat
           /\ RegistersMatch(slips, running, Append(p, a), depth - 1, msgh)
           /\ Pop(frames[running]) \in Seq(Frame)
           /\ "frames" \notin slips => Pop(frames[running]) = FramesOf(Append(p, a))
  BY <1>1, CalledByIs
<1>3. Last(Append(p, a)) = Lua
  BY <1>2, AppendIs, FrameCounts
<1>4. cf = running /\ msgh \in Msgh /\ headroom \in Nat /\ closing \in [Coros -> BOOLEAN]
      /\ slips \subseteq Slip
  BY RunningThread
<1>5. PICK u \in Seq(Activation), f \in Seq(Frame) : u = Append(p, a) /\ f = Pop(frames[running])
  BY <1>2
<1>6. /\ stack' = [stack EXCEPT ![running] = u] /\ frames' = [frames EXCEPT ![cf] = f]
      /\ depth' = depth - 1
      /\ UNCHANGED <<status, running, cf, curth, thdepth, thmsgh, closing, headroom, slips>>
  BY <1>1, <1>2, <1>4, <1>5 DEF Leave, threg
<1>7. StackRight(slips', running, u) /\ ("frames" \notin slips' => f = FramesOf(u))
  BY <1>2, <1>5, <1>6
<1>8. RegistersMatch(slips', running, u, depth', msgh')
  BY <1>1, <1>2, <1>5, <1>6
<1>9. /\ slips \subseteq slips' /\ slips' \subseteq Slip /\ depth' \in Nat /\ msgh' \in Msgh
      /\ closing' \in [Coros -> BOOLEAN] /\ headroom' \in Nat
  BY <1>1, <1>2, <1>4, <1>6
<1> QED
  BY <1>2, <1>3, <1>5, <1>6, <1>7, <1>8, <1>9, GoesOn
(* Back from a Lua function that a native, a pcall or a load has called.   *)
LEMMA LeavesTwo ==
  ASSUME CoroutineInv, NEW op \in {"native", "pcall", "load"}, CalledBy(op), Leave(2),
         msgh' = IF op = "pcall" THEN Below.m ELSE msgh
  PROVE  CoroutineInv'
<1>1. PICK p \in Seq(Activation), a \in Activation :
           /\ a = Below /\ a.op = op
           /\ Append(p, a) \in Seq(Activation)
           /\ SubSeq(stack[running], 1, Len(stack[running]) - 2) = p
           /\ StackRight(slips, running, p) /\ SavedRight(slips, running, p, a)
           /\ depth - 1 \in Nat
           /\ RegistersMatch(slips, running, Append(p, a), depth - 1, msgh)
           /\ Pop(frames[running]) \in Seq(Frame)
           /\ "frames" \notin slips => Pop(frames[running]) = FramesOf(Append(p, a))
  BY CalledByIs
<1>2. cf = running /\ msgh \in Msgh /\ headroom \in Nat /\ closing \in [Coros -> BOOLEAN]
      /\ slips \subseteq Slip /\ running \in Threads
  BY RunningThread
<1>3. p # <<>> /\ Last(p) = Lua
  BY <1>1 DEF SavedRight, UponLua
<1>4. Pop(Pop(frames[running])) \in Seq(Frame)
  BY <1>1, PopType
<1>5. "frames" \notin slips => Pop(Pop(frames[running])) = FramesOf(p)
  <2>1. PICK x \in {"native", "ynative"} : FramesOfActivation(a) = <<x>>
    BY <1>1, FrameCounts
  <2>2. FramesOf(Append(p, a)) = FramesOf(p) \o <<x>> /\ FramesOf(p) \in Seq(Frame)
    BY <2>1, FramesOfAppend
  <2>3. x \in Frame
    BY <2>1 DEF Frame
  <2>4. Pop(FramesOf(p) \o <<x>>) = FramesOf(p)
    BY <2>2, <2>3, PopIs
  <2> QED
    BY <1>1, <2>2, <2>4
<1>6. RegistersMatch(slips, running, p, depth - 1, msgh')
  <2>1. Luas(Append(p, a)) = Luas(p) /\ LuaFrames(FramesOf(Append(p, a))) = LuaFrames(FramesOf(p))
    BY <1>1, DepthUpon
  <2>2. "msgh" \notin slips => msgh' = HandlerIn(running, p)
    <3>1. CASE op = "pcall"
      <4>1. RegistersMatch(slips, running, p, a.d, a.m)
        BY <1>1, <3>1 DEF SavedRight, RegistersSaved
      <4> QED
        BY <1>1, <3>1, <4>1 DEF RegistersMatch
    <3>2. CASE op # "pcall"
      <4>1. HandlerIn(running, Append(p, a)) = HandlerIn(running, p)
        BY <1>1, <1>2, <3>2, HandlerAppend
      <4>2. "msgh" \notin slips => msgh = HandlerIn(running, Append(p, a))
        BY <1>1 DEF RegistersMatch
      <4> QED
        BY <3>2, <4>1, <4>2
    <3> QED
      BY <3>1, <3>2
  <2> QED
    BY <1>1, <2>1, <2>2 DEF RegistersMatch
<1>7. msgh' \in Msgh
  <2>1. op = "pcall" => a.m \in Msgh
    BY <1>1 DEF Activation
  <2> QED
    BY <1>1, <1>2, <2>1
<1>8. PICK f \in Seq(Frame) : f = Pop(Pop(frames[running]))
  BY <1>4
<1>9. /\ stack' = [stack EXCEPT ![running] = p] /\ frames' = [frames EXCEPT ![cf] = f]
      /\ depth' = depth - 1
      /\ UNCHANGED <<status, running, cf, curth, thdepth, thmsgh, closing, headroom, slips>>
  <2>1. /\ stack' = [stack EXCEPT ![running] = SubSeq(@, 1, Len(@) - 2)]
        /\ frames' = [frames EXCEPT ![cf] = Pop(Pop(@))] /\ depth' = depth - 1
        /\ UNCHANGED <<status, running, cf, curth, thdepth, thmsgh, closing, headroom, slips>>
    BY DEF Leave, threg
  <2>2. frames' = [frames EXCEPT ![cf] = f]
    BY <1>2, <1>8, <2>1
  <2>3. stack' = [stack EXCEPT ![running] = p]
    BY <1>1, <2>1
  <2> QED
    BY <2>1, <2>2, <2>3
<1>10. StackRight(slips', running, p) /\ ("frames" \notin slips' => f = FramesOf(p))
  BY <1>1, <1>5, <1>8, <1>9
<1>11. RegistersMatch(slips', running, p, depth', msgh')
  BY <1>6, <1>9
<1>12. /\ slips \subseteq slips' /\ slips' \subseteq Slip /\ depth' \in Nat
      /\ closing' \in [Coros -> BOOLEAN] /\ headroom' \in Nat
  BY <1>1, <1>2, <1>9
<1> QED
  BY <1>3, <1>7, <1>9, <1>10, <1>11, <1>12, GoesOn

LEMMA ReturnKeeps ==
  ASSUME CoroutineInv, ReturnToNative \/ ReturnToPcall \/ ReaderReturns
  PROVE  CoroutineInv'
<1>1. CASE ReturnToNative
  <2>1. CalledBy("native") /\ Leave(2) /\ msgh' = msgh
    BY <1>1 DEF ReturnToNative
  <2> QED
    BY <2>1, LeavesTwo
<1>2. CASE ReturnToPcall
  <2>1. CalledBy("pcall") /\ Leave(2) /\ msgh' = Below.m
    BY <1>2 DEF ReturnToPcall
  <2> QED
    BY <2>1, LeavesTwo
<1>3. CASE ReaderReturns
  <2>1. CalledBy("load") /\ Leave(2) /\ msgh' = msgh
    BY <1>3 DEF ReaderReturns
  <2> QED
    BY <2>1, LeavesTwo
<1> QED
  BY <1>1, <1>2, <1>3

-----------------------------------------------------------------------------
(* Message handlers.                                                       *)

(* A handler stands on a pcall or load for the frames that were left.      *)
LEMMA HandlerStands ==
  ASSUME NEW sl, NEW t \in Threads, NEW q \in Seq(Activation), q # <<>>, StackRight(sl, t, q),
         NEW h \in Activation, h.op = "handler",
         Last(q).op = (IF h.for = "pcall" THEN "pcall" ELSE "load"),
         h.for = "piece" => h.left = <<>>, h.for = "load" => "depth" \in sl
  PROVE  StackRight(sl, t, Append(q, h))
<1>1. SavedRight(sl, t, q, h)
  BY DEF SavedRight, FramesSaved, RegistersSaved, UponLua, UponCatcher, LoadSlipped, ThreadSaved
<1> QED
  BY <1>1, StackAppend

LEMMA HandlerUpon ==
  ASSUME NEW t \in Threads, NEW q \in Seq(Activation), NEW h \in Activation, h.op = "handler"
  PROVE  /\ Append(q, h) \in Seq(Activation)
         /\ FramesOf(Append(q, h)) = FramesOf(q) \o h.left
         /\ Luas(Append(q, h)) = Luas(q) /\ HandlerIn(t, Append(q, h)) = HandlerIn(t, q)
<1>1. FramesOf(Append(q, h)) = FramesOf(q) \o h.left
  BY FramesOfAppend, FrameCounts
<1>2. Luas(Append(q, h)) = Luas(q)
  <2>1. h # Lua
    BY FrameCounts
  <2>2. Count(q, Lua) \in Nat
    BY CountIs
  <2>3. Count(Append(q, h), Lua) = Count(q, Lua) + (IF h = Lua THEN 1 ELSE 0)
    BY CountAppend
  <2> QED
    BY <2>1, <2>2, <2>3 DEF Luas
<1>3. HandlerIn(t, Append(q, h)) = HandlerIn(t, q)
  BY HandlerAppend
<1>4. Append(q, h) \in Seq(Activation)
  BY AppendIs
<1> QED
  BY <1>1, <1>2, <1>3, <1>4

LEMMA MisbehavesKeeps ==
  ASSUME CoroutineInv, ReaderMisbehaves
  PROVE  CoroutineInv'
<1>1. CASE msgh # "handler"
  <2>1. CalledBy("load") /\ Leave(2) /\ msgh' = msgh
    BY <1>1 DEF ReaderMisbehaves
  <2> QED
    BY <2>1, LeavesTwo
<1>2. CASE msgh = "handler"
  <2> DEFINE h == [op |-> "handler", for |-> "piece", left |-> <<>>, x |-> headroom]
  <2>1. /\ CalledBy("load") /\ msgh' = msgh
        /\ stack' = [stack EXCEPT ![running] = Front(@) \o <<h, Lua>>]
        /\ UNCHANGED <<status, running, frames, cf, depth, curth, thdepth, thmsgh, closing, slips,
                       headroom>>
    BY <1>2 DEF ReaderMisbehaves, threg
  <2>2. PICK p \in Seq(Activation), a \in Activation :
           /\ a.op = "load"
           /\ Append(p, a) \in Seq(Activation) /\ Append(p, a) # <<>>
           /\ SubSeq(stack[running], 1, Len(stack[running]) - 1) = Append(p, a)
           /\ stack[running] = Append(Append(p, a), Lua)
           /\ StackRight(slips, running, Append(p, a))
           /\ depth - 1 \in Nat
           /\ RegistersMatch(slips, running, Append(p, a), depth - 1, msgh)
    BY <2>1, CalledByIs
  <2>3. /\ cf = running /\ msgh \in Msgh /\ headroom \in Nat /\ closing \in [Coros -> BOOLEAN]
        /\ slips \subseteq Slip /\ running \in Threads /\ frames[running] \in Seq(Frame)
        /\ "frames" \notin slips => frames[running] = FramesOf(stack[running])
        /\ frames \in [Threads -> Seq(Frame)] /\ depth \in Nat /\ stack \in [Threads -> Seq(Activation)]
    BY RunningThread DEF CoroutineInv, CoroutineTypeOK
  <2>4. PICK q \in Seq(Activation) : q = Append(p, a)
    BY <2>2
  <2>5. q # <<>> /\ Last(q).op = "load"
    BY <2>2, <2>4, AppendIs
  <2>6. h \in Activation /\ h.op = "handler" /\ h.for = "piece" /\ h.left = <<>>
    BY <2>3 DEF Activation
  <2>7. Lua \in Activation /\ FramesOfActivation(Lua) = <<"lua">>
    BY DEF Lua, Activation, FramesOfActivation
  <2> HIDE DEF h
  <2> DEFINE v == Append(q, h)
             u == Append(v, Lua)
  <2>8. /\ v \in Seq(Activation) /\ StackRight(slips, running, v)
        /\ FramesOf(v) = FramesOf(q) \o <<>>
        /\ Luas(v) = Luas(q) /\ HandlerIn(running, v) = HandlerIn(running, q)
    <3>1. StackRight(slips, running, v)
      BY <2>2, <2>3, <2>4, <2>5, <2>6, HandlerStands
    <3>2. /\ v \in Seq(Activation) /\ FramesOf(v) = FramesOf(q) \o h.left
          /\ Luas(v) = Luas(q) /\ HandlerIn(running, v) = HandlerIn(running, q)
      BY <2>3, <2>6, HandlerUpon
    <3> QED
      BY <2>6, <3>1, <3>2
  <2>9. FramesOf(v) = FramesOf(q)
    BY <2>8, FramesOfType, ConcatEmptySeq
  <2>10. stack' = [stack EXCEPT ![running] = u]
    <3>1. Front(stack[running]) = q
      BY <2>2, <2>4 DEF Front
    <3>2. q \o <<h, Lua>> = u
      BY <2>6, <2>7, AppendTwo
    <3> QED
      BY <2>1, <3>1, <3>2
  <2> HIDE DEF v
  <2>11. u \in Seq(Activation) /\ u # <<>> /\ Last(u) = Lua
    BY <2>7, <2>8, AppendIs
  <2>12. StackRight(slips, running, u)
    BY <2>8, StackUponLua
  <2>13. RegistersMatch(slips, running, u, depth, msgh)
    <3>1. RegistersMatch(slips, running, v, depth - 1, msgh)
      BY <2>2, <2>4, <2>8, <2>9 DEF RegistersMatch
    <3>2. RegistersMatch(slips, running, u, (depth - 1) + 1, msgh)
      BY <2>2, <2>3, <2>8, <3>1, RegistersUponLua, Zenon
    <3> QED
      BY <2>3, <3>2
  <2>14. "frames" \notin slips => frames[running] = FramesOf(u)
    <3>1. FramesOf(u) = FramesOf(q) \o <<"lua">>
      BY <2>7, <2>8, <2>9, FramesOfAppend
    <3>2. FramesOf(stack[running]) = FramesOf(q) \o <<"lua">>
      BY <2>2, <2>4, <2>7, FramesOfAppend
    <3> QED
      BY <2>3, <3>1, <3>2
  <2> HIDE DEF u
  <2>15. PICK f \in Seq(Frame) : f = frames[running]
    BY <2>3
  <2>16. frames' = [frames EXCEPT ![cf] = f]
    BY <2>1, <2>3, <2>15
  <2>17. StackRight(slips', running, u) /\ ("frames" \notin slips' => f = FramesOf(u))
    BY <2>1, <2>12, <2>14, <2>15
  <2>18. RegistersMatch(slips', running, u, depth', msgh')
    BY <2>1, <2>13
  <2>19. /\ slips \subseteq slips' /\ slips' \subseteq Slip /\ depth' \in Nat /\ msgh' \in Msgh
         /\ closing' \in [Coros -> BOOLEAN] /\ headroom' \in Nat
    BY <2>1, <2>3
  <2> QED
    BY <2>1, <2>10, <2>11, <2>16, <2>17, <2>18, <2>19, GoesOn
<1> QED
  BY <1>1, <1>2
LEMMA CutToPrefix ==
  ASSUME NEW g \in Seq(Frame), NEW x \in Frame, NEW r \in Seq(Frame)
  PROVE  /\ Pop(Cut((g \o <<x>>) \o r, Len(g) + 1)) = g
         /\ SubSeq((g \o <<x>>) \o r, (Len(g) + 1) + 1, Len((g \o <<x>>) \o r)) = r
<1> DEFINE F == (g \o <<x>>) \o r
           n == Len(g) + 1
<1>1. /\ F \in Seq(Frame) /\ Len(F) = n + Len(r) /\ n \in Nat /\ Len(g) \in Nat /\ Len(r) \in Nat
      /\ n \in 0..Len(F) /\ Len(g) \in 0..n /\ Len(g) \in 0..Len(F)
  OBVIOUS
<1>2. \A i \in 1..Len(g) : F[i] = g[i]
  OBVIOUS
<1>3. \A i \in 1..Len(r) : F[n + i] = r[i]
  OBVIOUS
<1> HIDE DEF F
<1>4. Cut(F, n) = SubSeq(F, 1, n)
  BY <1>1 DEF Cut
<1>5. Pop(SubSeq(F, 1, n)) = SubSeq(F, 1, Len(g))
  <2>1. Len(SubSeq(F, 1, n)) - 1 = Len(g)
    BY <1>1, PrefixIs
  <2>2. SubSeq(SubSeq(F, 1, n), 1, Len(g)) = SubSeq(F, 1, Len(g))
    BY <1>1, PrefixOfPrefix
  <2> HIDE DEF n
  <2> QED
    BY <2>1, <2>2 DEF Pop
<1>6. SubSeq(F, 1, Len(g)) = g
  <2>1. /\ SubSeq(F, 1, Len(g)) \in Seq(Frame) /\ Len(SubSeq(F, 1, Len(g))) = Len(g)
        /\ \A i \in 1..Len(g) : SubSeq(F, 1, Len(g))[i] = F[i]
    BY <1>1, PrefixIs
  <2> QED
    BY <1>2, <2>1, SeqEqual
<1>7. SubSeq(F, n + 1, Len(F)) = r
  <2> DEFINE w == SubSeq(F, n + 1, Len(F))
  <2>1. /\ w \in Seq(Frame) /\ Len(w) = Len(r)
        /\ \A i \in 1..Len(r) : w[i] = F[n + i]
    BY <1>1
  <2> HIDE DEF w
  <2>2. w = r
    BY <1>3, <2>1, SeqEqual
  <2> QED
    BY <2>2 DEF w
<1> QED
  BY <1>4, <1>5, <1>6, <1>7 DEF F

(* Where a pcall or load stands at j, what lies below it is the thread as  *)
(* it was, and the frames it has counted are those of what lies below.     *)
LEMMA EndsAt ==
  ASSUME CoroutineInv, NEW j \in 1..Len(stack[running]),
         stack[running][j].op \in {"pcall", "load"}
  PROVE  \E u \in Seq(Activation) :
           /\ u = SubSeq(stack[running], 1, j - 1) /\ u # <<>> /\ Last(u) = Lua
           /\ StackRight(slips, running, u) /\ Luas(u) <= Luas(stack[running])
           /\ Pop(Cut(frames[running], stack[running][j].n)) \in Seq(Frame)
           /\ "frames" \notin slips =>
                 Pop(Cut(frames[running], stack[running][j].n)) = FramesOf(u)
           /\ stack[running][j].op = "pcall" =>
                 /\ stack[running][j].d \in Nat /\ stack[running][j].m \in Msgh
                 /\ RegistersMatch(slips, running, u, stack[running][j].d, stack[running][j].m)
<1> DEFINE s == stack[running]
           u == SubSeq(s, 1, j - 1)
           a == s[j]
           F == frames[running]
<1>1. /\ s \in Seq(Activation) /\ F \in Seq(Frame) /\ running \in Threads
      /\ StackRight(slips, running, s) /\ ("frames" \notin slips => F = FramesOf(s))
  BY RunningThread
<1>2. a \in Activation /\ a.op \in {"pcall", "load"} /\ a.n \in Nat
  <2>1. a \in Activation
    BY <1>1
  <2> QED
    BY <2>1 DEF Activation
<1>3. j - 1 \in 0..Len(s) /\ j \in 0..Len(s) /\ j \in 1..Len(s)
  BY <1>1
<1> HIDE DEF s
<1>4. u \in Seq(Activation) /\ StackRight(slips, running, u)
  BY <1>1, <1>3, PrefixIs, StackPrefix
<1>5. SavedRight(slips, running, u, a)
  BY <1>1, <1>3 DEF StackRight
<1>6. Luas(u) <= Luas(s)
  BY <1>1, <1>3, CountPrefix DEF Luas
<1>7. SubSeq(s, 1, j) = Append(u, a)
  BY <1>1, <1>3, PrefixAppend
<1> HIDE DEF u, a, F
<1>8. u # <<>> /\ Last(u) = Lua
  BY <1>2, <1>5 DEF SavedRight, UponLua
<1>9. a.op = "pcall" => a.d \in Nat /\ a.m \in Msgh /\ RegistersMatch(slips, running, u, a.d, a.m)
  BY <1>2, <1>5 DEF SavedRight, RegistersSaved, Activation
<1>10. Pop(Cut(F, a.n)) \in Seq(Frame)
  BY <1>1, <1>2 DEF Pop, Cut
<1>11. "frames" \notin slips => Pop(Cut(F, a.n)) = FramesOf(u)
  <2> SUFFICES ASSUME "frames" \notin slips PROVE Pop(Cut(F, a.n)) = FramesOf(u)
    OBVIOUS
  <2>1. PICK g \in Seq(Frame) : g = FramesOf(u)
    BY <1>4, FramesOfType
  <2>2. a.n = Len(g) + 1
    BY <1>2, <1>5, <2>1 DEF SavedRight, FramesSaved
  <2>3. PICK x \in Frame : FramesOf(Append(u, a)) = g \o <<x>>
    <3>1. PICK x \in {"native", "ynative"} : FramesOfActivation(a) = <<x>>
      BY <1>2, FrameCounts
    <3>2. x \in Frame
      BY <3>1 DEF Frame
    <3> QED
      BY <1>2, <1>4, <2>1, <3>1, <3>2, FramesOfAppend
  <2>4. PICK r \in Seq(Frame) : F = (g \o <<x>>) \o r
    <3>1. \E r \in Seq(Frame) : FramesOf(s) = FramesOf(SubSeq(s, 1, j)) \o r
      BY <1>1, <1>3, FramesOfPrefix
    <3> QED
      BY <1>1, <1>7, <2>3, <3>1
  <2>5. Pop(Cut(F, a.n)) = g
    BY <2>1, <2>2, <2>3, <2>4, CutToPrefix
  <2> QED
    BY <2>1, <2>5
<1> QED
  BY <1>4, <1>6, <1>8, <1>9, <1>10, <1>11 DEF s, u, a, F
LEMMA EndsPcallAt ==
  ASSUME CoroutineInv, NEW j \in 1..Len(stack[running]), stack[running][j].op = "pcall",
         EndPcall(j), UNCHANGED <<status, running, cf, curth, thdepth, thmsgh>>,
         slips \subseteq slips', slips' \subseteq Slip,
         closing' \in [Coros -> BOOLEAN], headroom' \in Nat
  PROVE  CoroutineInv'
<1>1. PICK u \in Seq(Activation) :
           /\ u = SubSeq(stack[running], 1, j - 1) /\ u # <<>> /\ Last(u) = Lua
           /\ StackRight(slips, running, u)
           /\ Pop(Cut(frames[running], stack[running][j].n)) \in Seq(Frame)
           /\ "frames" \notin slips =>
                 Pop(Cut(frames[running], stack[running][j].n)) = FramesOf(u)
           /\ stack[running][j].d \in Nat /\ stack[running][j].m \in Msgh
           /\ RegistersMatch(slips, running, u, stack[running][j].d, stack[running][j].m)
  BY EndsAt
<1>2. cf = running
  BY RunningThread
<1>3. PICK f \in Seq(Frame) : f = Pop(Cut(frames[running], stack[running][j].n))
  BY <1>1
<1>4. /\ stack' = [stack EXCEPT ![running] = u] /\ frames' = [frames EXCEPT ![cf] = f]
      /\ depth' = stack[running][j].d /\ msgh' = stack[running][j].m
  BY <1>1, <1>2, <1>3 DEF EndPcall
<1>5. StackRight(slips', running, u) /\ ("frames" \notin slips' => f = FramesOf(u))
  BY <1>1, <1>3, StackGrows
<1>6. RegistersMatch(slips', running, u, depth', msgh')
  BY <1>1, <1>4, RegistersGrow
<1>7. depth' \in Nat /\ msgh' \in Msgh
  BY <1>1, <1>4
<1> QED
  BY <1>1, <1>4, <1>5, <1>6, <1>7, GoesOn

LEMMA EndsLoadAt ==
  ASSUME CoroutineInv, NEW j \in 1..Len(stack[running]), stack[running][j].op = "load",
         NEW d \in Nat, d >= Luas(SubSeq(stack[running], 1, j - 1)),
         EndLoad(j, d), UNCHANGED <<status, running, cf, curth, thdepth, thmsgh>>,
         slips \subseteq slips', slips' \subseteq Slip, "depth" \in slips',
         "msgh" \notin slips' => \A i \in (j + 1)..Len(stack[running]) : stack[running][i].op # "pcall",
         closing' \in [Coros -> BOOLEAN], headroom' \in Nat
  PROVE  CoroutineInv'
<1>1. PICK u \in Seq(Activation) :
           /\ u = SubSeq(stack[running], 1, j - 1) /\ u # <<>> /\ Last(u) = Lua
           /\ StackRight(slips, running, u)
           /\ Pop(Cut(frames[running], stack[running][j].n)) \in Seq(Frame)
           /\ "frames" \notin slips =>
                 Pop(Cut(frames[running], stack[running][j].n)) = FramesOf(u)
  BY EndsAt
<1>2. /\ cf = running /\ msgh \in Msgh /\ stack[running] \in Seq(Activation) /\ running \in Threads
      /\ RegistersMatch(slips, running, stack[running], depth, msgh)
  BY RunningThread
<1>3. PICK f \in Seq(Frame) : f = Pop(Cut(frames[running], stack[running][j].n))
  BY <1>1
<1>4. /\ stack' = [stack EXCEPT ![running] = u] /\ frames' = [frames EXCEPT ![cf] = f]
      /\ depth' = d /\ msgh' = msgh
  BY <1>1, <1>2, <1>3 DEF EndLoad
<1>5. StackRight(slips', running, u) /\ ("frames" \notin slips' => f = FramesOf(u))
  BY <1>1, <1>3, StackGrows
<1>6. RegistersMatch(slips', running, u, d, msgh)
  <2>1. "msgh" \notin slips' => msgh = HandlerIn(running, u)
    <3> SUFFICES ASSUME "msgh" \notin slips' PROVE msgh = HandlerIn(running, u)
      OBVIOUS
    <3>1. msgh = HandlerIn(running, stack[running])
      BY <1>2 DEF RegistersMatch
    <3>2. \A i \in ((j - 1) + 1)..Len(stack[running]) : stack[running][i].op # "pcall"
      <4> TAKE i \in ((j - 1) + 1)..Len(stack[running])
      <4>1. i = j \/ i \in (j + 1)..Len(stack[running])
        BY <1>2
      <4> QED
        BY <4>1
    <3>3. j - 1 \in 0..Len(stack[running])
      BY <1>2
    <3> QED
      BY <1>1, <1>2, <3>1, <3>2, <3>3, HandlerPrefix
  <2>2. d >= Luas(u)
    BY <1>1
  <2> QED
    BY <2>1, <2>2 DEF RegistersMatch
<1>7. depth' \in Nat /\ msgh' \in Msgh /\ RegistersMatch(slips', running, u, depth', msgh')
  BY <1>2, <1>4, <1>6
<1> QED
  BY <1>1, <1>4, <1>5, <1>7, GoesOn

LEMMA StartsAt ==
  ASSUME CoroutineInv, NEW j \in 1..Len(stack[running]), NEW for \in {"pcall", "load"},
         stack[running][j].op = for, StartHandler(j, for),
         UNCHANGED <<status, running, cf, curth, thdepth, thmsgh>>,
         slips \subseteq slips', slips' \subseteq Slip, for = "load" => "depth" \in slips',
         "msgh" \notin slips' => \A i \in (j + 1)..Len(stack[running]) : stack[running][i].op # "pcall",
         closing' \in [Coros -> BOOLEAN], headroom' \in Nat
  PROVE  CoroutineInv'
<1> DEFINE s == stack[running]
           F == frames[running]
           q == SubSeq(s, 1, j)
           a == s[j]
           h == [op |-> "handler", for |-> for, x |-> headroom, left |-> SubSeq(F, a.n + 1, Len(F))]
           v == Append(q, h)
           u == Append(v, Lua)
           f == Append(F, "lua")
<1>1. /\ s \in Seq(Activation) /\ F \in Seq(Frame) /\ running \in Threads /\ cf = running
      /\ StackRight(slips, running, s) /\ ("frames" \notin slips => F = FramesOf(s))
      /\ RegistersMatch(slips, running, s, depth, msgh)
      /\ depth \in Nat /\ msgh \in Msgh /\ headroom \in Nat
  BY RunningThread
<1>2. a \in Activation /\ a.op = for /\ a.n \in Nat
  <2>1. a \in Activation
    BY <1>1
  <2> QED
    BY <2>1 DEF Activation
<1>3. j - 1 \in 0..Len(s) /\ j \in 0..Len(s) /\ j \in 1..Len(s) /\ Len(s) \in Nat
  BY <1>1
<1>4. /\ stack' = [stack EXCEPT ![running] = q \o <<h, Lua>>]
      /\ frames' = [frames EXCEPT ![cf] = f] /\ depth' = depth + 1 /\ msgh' = msgh
  BY <1>1 DEF StartHandler
<1>5. \A i \in (j + 1)..Len(s) : "msgh" \notin slips' => s[i].op # "pcall"
  OBVIOUS
<1>6. h \in Activation /\ h.op = "handler" /\ h.for = for /\ h.left = SubSeq(F, a.n + 1, Len(F))
  <2>1. SubSeq(F, a.n + 1, Len(F)) \in Seq(Frame)
    <3>1. a.n + 1 \in Int /\ Len(F) \in Int /\ \A i \in (a.n + 1)..Len(F) : F[i] \in Frame
      BY <1>1, <1>2
    <3> QED
      BY <3>1, SubSeqProperties
  <2> QED
    BY <1>1, <2>1 DEF Activation
<1> HIDE DEF s, h
<1>7. q \in Seq(Activation) /\ q # <<>> /\ Last(q) = a /\ StackRight(slips', running, q)
      /\ Luas(q) <= Luas(s) /\ Luas(q) \in Nat /\ Luas(s) \in Nat
  <2>1. q \in Seq(Activation) /\ Len(q) = j /\ \A i \in 1..j : q[i] = s[i]
    BY <1>1, <1>3, PrefixIs
  <2>2. StackRight(slips, running, q)
    BY <1>1, <1>3, StackPrefix
  <2>3. Luas(q) <= Luas(s)
    BY <1>1, <1>3, CountPrefix DEF Luas
  <2>4. Luas(q) \in Nat /\ Luas(s) \in Nat
    BY <1>1, <2>1, CountIs DEF Luas
  <2> HIDE DEF q
  <2>5. q # <<>> /\ Last(q) = a
    BY <1>3, <2>1, EmptySeq DEF Last
  <2>6. StackRight(slips', running, q)
    BY <2>2, StackGrows
  <2> QED
    BY <2>1, <2>3, <2>4, <2>5, <2>6
<1>8. "frames" \notin slips => FramesOf(q) \o h.left = F
  <2> SUFFICES ASSUME "frames" \notin slips PROVE FramesOf(q) \o h.left = F
    OBVIOUS
  <2> DEFINE p == SubSeq(s, 1, j - 1)
  <2>1. p \in Seq(Activation) /\ SavedRight(slips, running, p, a)
    BY <1>1, <1>3, PrefixIs DEF StackRight
  <2>2. q = Append(p, a)
    BY <1>1, <1>3, PrefixAppend
  <2> HIDE DEF p, a
  <2>3. PICK g \in Seq(Frame) : g = FramesOf(p)
    BY <2>1, FramesOfType
  <2>4. a.n = Len(g) + 1
    BY <1>2, <2>1, <2>3 DEF SavedRight, FramesSaved
  <2>5. PICK x \in Frame : FramesOf(q) = g \o <<x>>
    <3>1. PICK x \in {"native", "ynative"} : FramesOfActivation(a) = <<x>>
      BY <1>2, FrameCounts
    <3>2. x \in Frame
      BY <3>1 DEF Frame
    <3> QED
      BY <1>2, <2>1, <2>2, <2>3, <3>1, <3>2, FramesOfAppend
  <2>6. PICK r \in Seq(Frame) : F = (g \o <<x>>) \o r
    <3>1. \E r \in Seq(Frame) : FramesOf(s) = FramesOf(q) \o r
      BY <1>1, <1>3, FramesOfPrefix
    <3> QED
      BY <1>1, <2>5, <3>1
  <2> HIDE DEF F, q
  <2>7. h.left = r
    BY <1>6, <2>3, <2>4, <2>5, <2>6, CutToPrefix
  <2> QED
    BY <2>5, <2>6, <2>7
<1> HIDE DEF a, q
<1>9. /\ v \in Seq(Activation) /\ StackRight(slips', running, v)
      /\ FramesOf(v) = FramesOf(q) \o h.left
      /\ Luas(v) = Luas(q) /\ HandlerIn(running, v) = HandlerIn(running, q)
  <2>1. /\ Last(q).op = (IF h.for = "pcall" THEN "pcall" ELSE "load")
        /\ h.for = "piece" => h.left = <<>>
        /\ h.for = "load" => "depth" \in slips'
    BY <1>2, <1>6, <1>7
  <2>2. StackRight(slips', running, v)
    BY <1>1, <1>6, <1>7, <2>1, HandlerStands
  <2>3. /\ v \in Seq(Activation) /\ FramesOf(v) = FramesOf(q) \o h.left
        /\ Luas(v) = Luas(q) /\ HandlerIn(running, v) = HandlerIn(running, q)
    BY <1>1, <1>6, <1>7, HandlerUpon
  <2> QED
    BY <2>2, <2>3
<1>10. "msgh" \notin slips' => HandlerIn(running, q) = HandlerIn(running, s)
  BY <1>1, <1>3, <1>5, HandlerPrefix DEF q
<1>11. Lua \in Activation /\ FramesOfActivation(Lua) = <<"lua">> /\ "lua" \in Frame
  BY DEF Lua, Activation, FramesOfActivation, Frame
<1>12. q \o <<h, Lua>> = u
  BY <1>6, <1>7, <1>11, AppendTwo
<1> HIDE DEF v, F
<1>13. RegistersMatch(slips', running, v, depth, msgh)
  <2>1. depth >= Luas(v)
    BY <1>1, <1>7, <1>9 DEF RegistersMatch
  <2>2. "msgh" \notin slips' => msgh = HandlerIn(running, v)
    BY <1>1, <1>9, <1>10 DEF RegistersMatch
  <2>3. slips' \cap {"frames", "depth"} = {} => depth = LuaFrames(FramesOf(v))
    <3> SUFFICES ASSUME slips' \cap {"frames", "depth"} = {} PROVE depth = LuaFrames(FramesOf(v))
      OBVIOUS
    <3>1. "frames" \notin slips /\ slips \cap {"frames", "depth"} = {}
      OBVIOUS
    <3>2. depth = LuaFrames(FramesOf(s)) /\ FramesOf(s) = F
      BY <1>1, <3>1 DEF RegistersMatch
    <3>3. FramesOf(v) = F
      BY <1>8, <1>9, <3>1
    <3> QED
      BY <3>2, <3>3
  <2> QED
    BY <2>1, <2>2, <2>3 DEF RegistersMatch
<1>14. RegistersMatch(slips', running, u, depth + 1, msgh)
  BY <1>1, <1>9, <1>13, RegistersUponLua
<1>15. u \in Seq(Activation) /\ u # <<>> /\ Last(u) = Lua /\ StackRight(slips', running, u)
  BY <1>9, <1>11, AppendIs, StackUponLua
<1>16. "frames" \notin slips' => f = FramesOf(u)
  <2> SUFFICES ASSUME "frames" \notin slips' PROVE f = FramesOf(u)
    OBVIOUS
  <2>1. FramesOf(u) = FramesOf(v) \o <<"lua">>
    BY <1>9, <1>11, FramesOfAppend
  <2>2. FramesOf(v) = F
    BY <1>8, <1>9
  <2>3. F \o <<"lua">> = Append(F, "lua")
    BY <1>1, <1>11, AppendIs
  <2> QED
    BY <2>1, <2>2, <2>3
<1>17. f \in Seq(Frame)
  BY <1>1, <1>11, AppendIs
<1> HIDE DEF u, f
<1>18. stack' = [stack EXCEPT ![running] = u] /\ depth' \in Nat /\ msgh' \in Msgh
  <2>1. stack' = [stack EXCEPT ![running] = u]
    BY <1>4, <1>12, Zenon
  <2>2. depth' \in Nat /\ msgh' \in Msgh
    BY <1>1, <1>4
  <2> QED
    BY <2>1, <2>2
<1>19. RegistersMatch(slips', running, u, depth', msgh')
  BY <1>4, <1>14
<1> QED
  BY <1>4, <1>15, <1>16, <1>17, <1>18, <1>19, GoesOn
-----------------------------------------------------------------------------
(* Errors and closings.                                                    *)

LEMMA CaughtIs ==
  ASSUME CoroutineInv, NEW exc \in {"error", "selfclose"}, NEW op \in {"pcall", "load", "handler"},
         NEW j, CaughtAt(j, exc, op)
  PROVE  /\ j \in 1..Len(stack[running]) /\ stack[running][j].op = op
         /\ "msgh" \notin PassedBy(j, exc) =>
              \A i \in (j + 1)..Len(stack[running]) : stack[running][i].op # "pcall"
         /\ PassedBy(j, exc) \subseteq Slip
         /\ op = "pcall" => exc = "error"
<1> DEFINE s == stack[running]
<1>1. s \in Seq(Activation) /\ DOMAIN s = 1..Len(s) /\ Len(s) \in Nat
  BY RunningThread
<1>2. /\ j \in Catchers(exc) /\ (\A i \in Catchers(exc) : i <= j) /\ s[j].op = op
  BY DEF CaughtAt
<1>3. Catchers(exc) = {i \in DOMAIN s : Catches(s[i], exc)}
  BY DEF Catchers
<1> HIDE DEF s
<1>4. j \in 1..Len(s) /\ Catches(s[j], exc)
  BY <1>1, <1>2, <1>3
<1>5. op = "pcall" => exc = "error"
  BY <1>2, <1>4 DEF Catches
<1>6. ASSUME "msgh" \notin PassedBy(j, exc), NEW i \in (j + 1)..Len(s) PROVE s[i].op # "pcall"
  <2>1. i \in DOMAIN s /\ i > j /\ ~(i <= j)
    BY <1>1, <1>4
  <2>2. ~Catches(s[i], exc)
    BY <1>2, <1>3, <2>1
  <2>3. CASE exc = "error"
    BY <2>2, <2>3 DEF Catches
  <2>4. CASE exc = "selfclose"
    BY <1>6, <2>1, <2>4 DEF PassedBy, s
  <2> QED
    BY <2>3, <2>4
<1>7. PassedBy(j, exc) \subseteq Slip
  BY DEF PassedBy, Slip
<1> QED
  BY <1>2, <1>4, <1>5, <1>6, <1>7 DEF s

LEMMA SwallowIs ==
  ASSUME CoroutineInv, NEW exc \in {"error", "selfclose"}, exc = "selfclose" => CanSelfClose,
         NEW also \in SUBSET Slip, Swallow(exc, also)
  PROVE  /\ UNCHANGED <<status, running, cf, curth, thdepth, thmsgh>>
         /\ slips \subseteq slips' /\ slips' \subseteq Slip /\ also \subseteq slips'
         /\ closing' \in [Coros -> BOOLEAN]
<1>1. closing \in [Coros -> BOOLEAN] /\ slips \subseteq Slip
  BY RunningThread
<1>2. /\ UNCHANGED <<status, running, cf, curth, thdepth, thmsgh>>
      /\ slips' = slips \cup also
  BY DEF Swallow
<1>3. closing' = IF exc = "selfclose" THEN [closing EXCEPT ![curth] = TRUE] ELSE closing
  BY DEF Swallow
<1>4. closing' \in [Coros -> BOOLEAN]
  BY <1>1, <1>3
<1>5. slips \subseteq slips' /\ slips' \subseteq Slip /\ also \subseteq slips'
  BY <1>1, <1>2 DEF Slip
<1> QED
  BY <1>2, <1>4, <1>5

LEMMA CaughtByPcallKeeps ==
  ASSUME CoroutineInv, CaughtByPcall("error")
  PROVE  CoroutineInv'
<1>1. PICK j \in Catchers("error") :
       /\ CaughtAt(j, "error", "pcall")
       /\ IF stack[running][j].h
          THEN /\ headroom' = headroom + 1
               /\ StartHandler(j, "pcall")
          ELSE EndPcall(j) /\ UNCHANGED headroom
       /\ Swallow("error", {})
  BY DEF CaughtByPcall
<1>2. /\ j \in 1..Len(stack[running]) /\ stack[running][j].op = "pcall"
      /\ "msgh" \notin PassedBy(j, "error") =>
           \A i \in (j + 1)..Len(stack[running]) : stack[running][i].op # "pcall"
  BY <1>1, CaughtIs
<1>3. PassedBy(j, "error") = {}
  BY DEF PassedBy
<1>4. /\ UNCHANGED <<status, running, cf, curth, thdepth, thmsgh>>
      /\ slips \subseteq slips' /\ slips' \subseteq Slip /\ closing' \in [Coros -> BOOLEAN]
  BY <1>1, SwallowIs
<1>5. headroom \in Nat /\ headroom' \in Nat
  <2>1. headroom \in Nat
    BY RunningThread
  <2> QED
    BY <1>1, <2>1
<1>6. CASE stack[running][j].h
  BY <1>1, <1>2, <1>3, <1>4, <1>5, <1>6, StartsAt
<1>7. CASE ~stack[running][j].h
  BY <1>1, <1>2, <1>4, <1>5, <1>7, EndsPcallAt
<1> QED
  BY <1>6, <1>7

(* The depth is never less than the Lua functions below j.                 *)
LEMMA DepthCovers ==
  ASSUME CoroutineInv, NEW j \in 1..Len(stack[running])
  PROVE  /\ depth >= Luas(SubSeq(stack[running], 1, j - 1))
         /\ depth - 1 \in Nat /\ depth - 1 >= Luas(SubSeq(stack[running], 1, j - 1))
<1> DEFINE s == stack[running]
<1>1. /\ s \in Seq(Activation) /\ s # <<>> /\ Last(s) = Lua /\ depth \in Nat
      /\ RegistersMatch(slips, running, s, depth, msgh)
  BY RunningThread
<1> HIDE DEF s
<1>2. j - 1 \in 0..Len(s) /\ j \in 1..Len(s) /\ Len(s) \in ((j - 1) + 1)..Len(s) /\ s[Len(s)] = Lua
  BY <1>1 DEF s, Last
<1>3. Count(SubSeq(s, 1, j - 1), Lua) < Count(s, Lua)
  BY <1>1, <1>2, CountPrefix
<1>4. Count(SubSeq(s, 1, j - 1), Lua) \in Nat /\ Count(s, Lua) \in Nat
  BY <1>1, <1>2, PrefixIs, CountIs
<1>5. depth >= Count(s, Lua)
  BY <1>1 DEF RegistersMatch, Luas
<1>6. /\ depth >= Count(SubSeq(s, 1, j - 1), Lua)
      /\ depth - 1 \in Nat /\ depth - 1 >= Count(SubSeq(s, 1, j - 1), Lua)
  BY <1>1, <1>3, <1>4, <1>5
<1> QED
  BY <1>6 DEF Luas, s

LEMMA CaughtByLoadKeeps ==
  ASSUME CoroutineInv, NEW exc \in {"error", "selfclose"}, exc = "selfclose" => CanSelfClose,
         CaughtByLoad(exc)
  PROVE  CoroutineInv'
<1>1. PICK j \in Catchers(exc) :
       /\ CaughtAt(j, exc, "load")
       /\ IF msgh = "handler" THEN StartHandler(j, "load") ELSE EndLoad(j, depth)
       /\ Swallow(exc, {"depth"} \cup PassedBy(j, exc))
       /\ headroom' = headroom
  BY DEF CaughtByLoad
<1>2. /\ j \in 1..Len(stack[running]) /\ stack[running][j].op = "load"
      /\ "msgh" \notin PassedBy(j, exc) =>
           \A i \in (j + 1)..Len(stack[running]) : stack[running][i].op # "pcall"
      /\ PassedBy(j, exc) \subseteq Slip
  BY <1>1, CaughtIs
<1>3. {"depth"} \cup PassedBy(j, exc) \in SUBSET Slip
  BY <1>2 DEF Slip
<1>4. /\ UNCHANGED <<status, running, cf, curth, thdepth, thmsgh>>
      /\ slips \subseteq slips' /\ slips' \subseteq Slip /\ closing' \in [Coros -> BOOLEAN]
      /\ {"depth"} \cup PassedBy(j, exc) \subseteq slips'
  BY <1>1, <1>3, SwallowIs
<1>5. headroom' \in Nat /\ depth \in Nat
  BY <1>1, RunningThread
<1>6. /\ "depth" \in slips'
      /\ "msgh" \notin slips' =>
           \A i \in (j + 1)..Len(stack[running]) : stack[running][i].op # "pcall"
  BY <1>2, <1>4
<1>7. CASE msgh = "handler"
  BY <1>1, <1>2, <1>4, <1>5, <1>6, <1>7, StartsAt
<1>8. CASE msgh # "handler"
  BY <1>1, <1>2, <1>4, <1>5, <1>6, <1>8, DepthCovers, EndsLoadAt
<1> QED
  BY <1>7, <1>8
(* A handler stands upon the pcall or load that started it.                *)
LEMMA BelowHandler ==
  ASSUME CoroutineInv, NEW j \in 1..Len(stack[running]), stack[running][j].op = "handler"
  PROVE  /\ j - 1 \in 1..Len(stack[running])
         /\ stack[running][j - 1].op = (IF stack[running][j].for = "pcall" THEN "pcall" ELSE "load")
         /\ stack[running][j].for \in {"pcall", "load", "piece"} /\ stack[running][j].x \in Nat
         /\ LoadSlipped(slips, stack[running][j])
<1> DEFINE s == stack[running]
           p == SubSeq(s, 1, j - 1)
<1>1. s \in Seq(Activation) /\ StackRight(slips, running, s)
  BY RunningThread
<1> HIDE DEF s
<1>2. /\ j \in 1..Len(s) /\ s[j].op = "handler" /\ s[j] \in Activation /\ j - 1 \in 0..Len(s)
  BY <1>1 DEF s
<1>3. SavedRight(slips, running, p, s[j])
  BY <1>1, <1>2 DEF StackRight
<1>4. p # <<>> /\ Last(p).op = (IF s[j].for = "pcall" THEN "pcall" ELSE "load")
      /\ LoadSlipped(slips, s[j])
  BY <1>2, <1>3 DEF SavedRight, UponCatcher
<1>5. p \in Seq(Activation) /\ Len(p) = j - 1 /\ \A i \in 1..(j - 1) : p[i] = s[i]
  BY <1>1, <1>2, PrefixIs
<1> HIDE DEF p
<1>6. Len(p) \in Nat \ {0}
  BY <1>4, <1>5, EmptySeq
<1>7. j - 1 \in 1..Len(s) /\ j - 1 \in 1..(j - 1)
  BY <1>2, <1>5, <1>6
<1>8. Last(p) = s[j - 1]
  BY <1>5, <1>7 DEF Last
<1>9. s[j].for \in {"pcall", "load", "piece"} /\ s[j].x \in Nat
  BY <1>2 DEF Activation
<1> QED
  BY <1>4, <1>7, <1>8, <1>9 DEF s

LEMMA CaughtByHandlerKeeps ==
  ASSUME CoroutineInv, NEW exc \in {"error", "selfclose"}, exc = "selfclose" => CanSelfClose,
         CaughtByHandler(exc)
  PROVE  CoroutineInv'
<1>1. PICK j \in Catchers(exc) :
       /\ CaughtAt(j, exc, "handler")
       /\ LET h == stack[running][j] IN
          CASE h.for = "pcall" ->
                 EndPcall(j - 1) /\ headroom' = h.x /\ Swallow(exc, {})
            [] h.for = "load"  ->
                 /\ EndLoad(j - 1, depth) /\ UNCHANGED headroom
                 /\ Swallow(exc, {"depth"} \cup PassedBy(j, exc))
            [] h.for = "piece" ->
                 /\ stack' = [stack EXCEPT ![running] = SubSeq(@, 1, j - 2)]
                 /\ frames' = [frames EXCEPT ![cf] = Pop(@)]
                 /\ Swallow(exc, {"frames", "depth"} \cup PassedBy(j, exc))
                 /\ UNCHANGED <<depth, msgh, headroom>>
  BY DEF CaughtByHandler
<1>2. /\ j \in 1..Len(stack[running]) /\ stack[running][j].op = "handler"
      /\ "msgh" \notin PassedBy(j, exc) =>
           \A i \in (j + 1)..Len(stack[running]) : stack[running][i].op # "pcall"
      /\ PassedBy(j, exc) \subseteq Slip
  BY <1>1, CaughtIs
<1>3. /\ j - 1 \in 1..Len(stack[running])
      /\ stack[running][j - 1].op = (IF stack[running][j].for = "pcall" THEN "pcall" ELSE "load")
      /\ stack[running][j].for \in {"pcall", "load", "piece"} /\ stack[running][j].x \in Nat
  BY <1>2, BelowHandler
<1>4. headroom \in Nat /\ depth \in Nat /\ stack[running] \in Seq(Activation) /\ msgh \in Msgh
      /\ frames[running] \in Seq(Frame) /\ cf = running /\ running \in Threads
      /\ RegistersMatch(slips, running, stack[running], depth, msgh)
  BY RunningThread
<1>5. ASSUME "msgh" \notin PassedBy(j, exc), stack[running][j].for # "pcall"
      PROVE  /\ \A i \in ((j - 1) + 1)..Len(stack[running]) : stack[running][i].op # "pcall"
             /\ \A i \in ((j - 2) + 1)..Len(stack[running]) : stack[running][i].op # "pcall"
  <2>1. stack[running][j].op # "pcall" /\ stack[running][j - 1].op # "pcall"
    BY <1>2, <1>3, <1>5
  <2>2. ASSUME NEW i \in ((j - 2) + 1)..Len(stack[running]) PROVE stack[running][i].op # "pcall"
    <3>1. i = j \/ i = j - 1 \/ i \in (j + 1)..Len(stack[running])
      BY <1>2, <1>4
    <3> QED
      BY <1>2, <1>5, <2>1, <3>1
  <2>3. \A i \in ((j - 1) + 1)..Len(stack[running]) : i \in ((j - 2) + 1)..Len(stack[running])
    BY <1>2, <1>4
  <2> QED
    BY <2>2, <2>3
<1>6. CASE stack[running][j].for = "pcall"
  <2>1. EndPcall(j - 1) /\ headroom' = stack[running][j].x /\ Swallow(exc, {})
    BY <1>1, <1>6
  <2>2. /\ UNCHANGED <<status, running, cf, curth, thdepth, thmsgh>>
        /\ slips \subseteq slips' /\ slips' \subseteq Slip /\ closing' \in [Coros -> BOOLEAN]
    BY <2>1, SwallowIs
  <2>3. headroom' \in Nat /\ stack[running][j - 1].op = "pcall"
    BY <1>3, <1>6, <2>1
  <2> QED
    BY <1>3, <2>1, <2>2, <2>3, EndsPcallAt
<1>7. CASE stack[running][j].for = "load"
  <2>1. EndLoad(j - 1, depth) /\ headroom' = headroom /\ Swallow(exc, {"depth"} \cup PassedBy(j, exc))
    BY <1>1, <1>7
  <2>2. {"depth"} \cup PassedBy(j, exc) \in SUBSET Slip
    BY <1>2 DEF Slip
  <2>3. /\ UNCHANGED <<status, running, cf, curth, thdepth, thmsgh>>
        /\ slips \subseteq slips' /\ slips' \subseteq Slip /\ closing' \in [Coros -> BOOLEAN]
        /\ {"depth"} \cup PassedBy(j, exc) \subseteq slips'
    BY <2>1, <2>2, SwallowIs
  <2>4. /\ "depth" \in slips' /\ headroom' \in Nat /\ stack[running][j - 1].op = "load"
        /\ "msgh" \notin slips' =>
             \A i \in ((j - 1) + 1)..Len(stack[running]) : stack[running][i].op # "pcall"
    BY <1>3, <1>4, <1>5, <1>7, <2>1, <2>3
  <2>5. PICK k \in 1..Len(stack[running]) : k = j - 1
    BY <1>3
  <2>6. depth >= Luas(SubSeq(stack[running], 1, k - 1))
    BY DepthCovers
  <2>7. /\ EndLoad(k, depth) /\ stack[running][k].op = "load"
        /\ "msgh" \notin slips' =>
             \A i \in (k + 1)..Len(stack[running]) : stack[running][i].op # "pcall"
    BY <2>1, <2>4, <2>5
  <2> QED
    BY <1>4, <2>3, <2>4, <2>6, <2>7, EndsLoadAt
<1>8. CASE stack[running][j].for = "piece"
  <2>1. /\ stack' = [stack EXCEPT ![running] = SubSeq(@, 1, j - 2)]
        /\ frames' = [frames EXCEPT ![cf] = Pop(@)]
        /\ Swallow(exc, {"frames", "depth"} \cup PassedBy(j, exc))
        /\ UNCHANGED <<depth, msgh, headroom>>
    BY <1>1, <1>8
  <2>2. {"frames", "depth"} \cup PassedBy(j, exc) \in SUBSET Slip
    BY <1>2 DEF Slip
  <2>3. /\ UNCHANGED <<status, running, cf, curth, thdepth, thmsgh>>
        /\ slips \subseteq slips' /\ slips' \subseteq Slip /\ closing' \in [Coros -> BOOLEAN]
        /\ {"frames", "depth"} \cup PassedBy(j, exc) \subseteq slips'
    BY <2>1, <2>2, SwallowIs
  <2>4. PICK k \in 1..Len(stack[running]) : k = j - 1
    BY <1>3
  <2>5. PICK u \in Seq(Activation) :
           /\ u = SubSeq(stack[running], 1, k - 1) /\ u # <<>> /\ Last(u) = Lua
           /\ StackRight(slips, running, u)
    <3>1. stack[running][k].op = "load"
      BY <1>3, <1>8, <2>4
    <3> QED
      BY <3>1, EndsAt
  <2>6. k - 1 = j - 2 /\ k - 1 \in 0..Len(stack[running]) /\ (k - 1) + 1 = (j - 2) + 1
    BY <1>2, <1>4, <2>4
  <2>7. PICK f \in Seq(Frame) : f = Pop(frames[running])
    BY <1>4, PopType
  <2>8. stack' = [stack EXCEPT ![running] = u] /\ frames' = [frames EXCEPT ![cf] = f]
    BY <1>4, <2>1, <2>5, <2>6, <2>7
  <2>9. RegistersMatch(slips', running, u, depth, msgh)
    <3>1. depth >= Luas(u)
      BY <2>5, DepthCovers
    <3>2. ASSUME "msgh" \notin slips' PROVE msgh = HandlerIn(running, u)
      <4>1. msgh = HandlerIn(running, stack[running])
        BY <1>4, <2>3, <3>2 DEF RegistersMatch
      <4>2. \A i \in ((k - 1) + 1)..Len(stack[running]) : stack[running][i].op # "pcall"
        BY <1>5, <1>8, <2>3, <2>6, <3>2
      <4> QED
        BY <1>4, <2>5, <2>6, <4>1, <4>2, HandlerPrefix
    <3>3. "depth" \in slips'
      BY <2>3
    <3> QED
      BY <3>1, <3>2, <3>3 DEF RegistersMatch
  <2>10. /\ StackRight(slips', running, u) /\ "frames" \in slips'
         /\ RegistersMatch(slips', running, u, depth', msgh')
         /\ depth' \in Nat /\ msgh' \in Msgh /\ headroom' \in Nat
    BY <1>4, <2>1, <2>3, <2>5, <2>9, StackGrows
  <2> QED
    BY <2>3, <2>5, <2>8, <2>10, GoesOn
<1> QED
  BY <1>3, <1>6, <1>7, <1>8
LEMMA HandlerReturnsKeeps ==
  ASSUME CoroutineInv, HandlerReturns
  PROVE  CoroutineInv'
<1> DEFINE s == stack[running]
           j == Len(s) - 2
<1>1. /\ CalledBy("handler")
      /\ CASE Below.for = "pcall" -> EndPcall(j) /\ headroom' = Below.x
           [] Below.for = "load"  -> EndLoad(j, depth - 1) /\ UNCHANGED headroom
           [] Below.for = "piece" ->
                /\ stack' = [stack EXCEPT ![running] = SubSeq(@, 1, j - 1)]
                /\ frames' = [frames EXCEPT ![cf] = Pop(Pop(@))]
                /\ depth' = depth - 1
                /\ UNCHANGED <<msgh, headroom>>
      /\ UNCHANGED <<status, running, cf, curth, thdepth, thmsgh, closing, slips>>
  BY DEF HandlerReturns, threg
<1>2. PICK p \in Seq(Activation), a \in Activation :
           /\ s = Append(Append(p, a), Lua) /\ a = Below /\ a.op = "handler"
           /\ Len(s) = Len(p) + 2 /\ SubSeq(s, 1, Len(s) - 2) = p
           /\ StackRight(slips, running, p) /\ SavedRight(slips, running, p, a)
           /\ depth - 1 \in Nat
           /\ RegistersMatch(slips, running, Append(p, a), depth - 1, msgh)
           /\ Pop(frames[running]) \in Seq(Frame)
           /\ "frames" \notin slips => Pop(frames[running]) = FramesOf(Append(p, a))
  BY <1>1, CalledByIs
<1>3. /\ s \in Seq(Activation) /\ cf = running /\ running \in Threads /\ headroom \in Nat
      /\ closing \in [Coros -> BOOLEAN] /\ slips \subseteq Slip /\ msgh \in Msgh
      /\ Last(s) = Lua
  BY RunningThread
<1>4. /\ Len(s) \in Nat /\ Len(p) \in Nat /\ j + 1 \in 1..Len(s) /\ s[j + 1] = a /\ (j + 1) - 1 = j
      /\ j = Len(p)
  <2>1. Len(s) \in Nat /\ Len(p) \in Nat /\ j + 1 = Len(s) - 1 /\ j + 1 = Len(p) + 1 /\ j = Len(p)
    BY <1>2, <1>3
  <2>2. s[Len(s) - 1] = Below
    BY DEF Below
  <2> HIDE DEF s
  <2> QED
    BY <1>2, <2>1, <2>2
<1>5. /\ j \in 1..Len(s) /\ s[j].op = (IF a.for = "pcall" THEN "pcall" ELSE "load")
      /\ a.for \in {"pcall", "load", "piece"} /\ a.x \in Nat /\ LoadSlipped(slips, a)
  <2>1. PICK k \in 1..Len(s) : k = j + 1
    BY <1>4
  <2>2. k - 1 = j /\ s[k].op = "handler" /\ s[k] = a
    BY <1>2, <1>4, <2>1
  <2> QED
    BY <2>2, BelowHandler
<1>6. \A i \in (j + 1)..Len(s) : s[i].op # "pcall"
  <2> SUFFICES ASSUME NEW i \in (j + 1)..Len(s) PROVE s[i].op # "pcall"
    OBVIOUS
  <2>1. i = j + 1 \/ i = Len(s)
    BY <1>4
  <2>2. s[Len(s)].op = "lua"
    BY <1>3 DEF Last, Lua
  <2> HIDE DEF s, j
  <2> QED
    BY <1>2, <1>4, <2>1, <2>2
<1>7. PICK k \in 1..Len(stack[running]) : k = j
  BY <1>5
<1>8. UNCHANGED <<status, running, cf, curth, thdepth, thmsgh>>
      /\ slips \subseteq slips' /\ slips' \subseteq Slip /\ closing' \in [Coros -> BOOLEAN]
  BY <1>1, <1>3
<1>9. CASE a.for = "pcall"
  <2>1. EndPcall(k) /\ headroom' \in Nat /\ stack[running][k].op = "pcall"
    BY <1>1, <1>2, <1>5, <1>7, <1>9
  <2> QED
    BY <1>8, <2>1, EndsPcallAt
<1>10. CASE a.for = "load"
  <2>1. EndLoad(k, depth - 1) /\ headroom' \in Nat /\ stack[running][k].op = "load"
    BY <1>1, <1>2, <1>3, <1>5, <1>7, <1>10
  <2>2. "depth" \in slips'
    BY <1>2, <1>5, <1>8, <1>10 DEF LoadSlipped
  <2>3. depth - 1 >= Luas(SubSeq(stack[running], 1, k - 1))
    BY DepthCovers
  <2>4. \A i \in (k + 1)..Len(stack[running]) : stack[running][i].op # "pcall"
    BY <1>6, <1>7
  <2>5. PICK d \in Nat : d = depth - 1
    BY <1>2
  <2> QED
    BY <1>8, <2>1, <2>2, <2>3, <2>4, <2>5, EndsLoadAt
<1>11. CASE a.for = "piece"
  <2>1. /\ stack' = [stack EXCEPT ![running] = SubSeq(@, 1, j - 1)]
        /\ frames' = [frames EXCEPT ![cf] = Pop(Pop(@))]
        /\ depth' = depth - 1 /\ msgh' = msgh /\ headroom' = headroom
    BY <1>1, <1>2, <1>11
  <2>2. PICK u \in Seq(Activation) :
           /\ u = SubSeq(stack[running], 1, k - 1) /\ u # <<>> /\ Last(u) = Lua
           /\ StackRight(slips, running, u)
    <3>1. stack[running][k].op = "load"
      BY <1>5, <1>7, <1>11
    <3> QED
      BY <3>1, EndsAt
  <2>3. PICK b \in Activation : b = s[j] /\ b.op = "load"
    BY <1>3, <1>5, <1>11
  <2>4. p = Append(u, b)
    <3> HIDE DEF s
    <3>1. SubSeq(s, 1, j) = Append(SubSeq(s, 1, j - 1), s[j])
      BY <1>3, <1>5, PrefixAppend
    <3> QED
      BY <1>2, <1>7, <2>2, <2>3, <3>1 DEF s
  <2>5. a.left = <<>>
    BY <1>2, <1>11 DEF SavedRight, UponCatcher
  <2>6. /\ FramesOf(Append(p, a)) = FramesOf(p) \o <<>>
        /\ Luas(Append(p, a)) = Luas(p) /\ HandlerIn(running, Append(p, a)) = HandlerIn(running, p)
    BY <1>2, <1>3, <2>5, HandlerUpon
  <2>7. FramesOf(Append(p, a)) = FramesOf(p)
    BY <2>6, FramesOfType, ConcatEmptySeq
  <2>8. RegistersMatch(slips, running, p, depth - 1, msgh)
    BY <1>2, <2>6, <2>7 DEF RegistersMatch
  <2>9. RegistersMatch(slips, running, u, depth - 1, msgh)
    BY <1>3, <2>3, <2>4, <2>8, RegistersUpon
  <2>10. PICK f \in Seq(Frame) : f = Pop(Pop(frames[running]))
    BY <1>2, PopType
  <2>11. "frames" \notin slips => f = FramesOf(u)
    <3>1. FramesOf(p) = FramesOf(u) \o <<"native">> /\ FramesOf(u) \in Seq(Frame)
      BY <2>3, <2>4, FramesOfAppend, FrameCounts
    <3>2. "native" \in Frame
      BY DEF Frame
    <3>3. Pop(FramesOf(u) \o <<"native">>) = FramesOf(u)
      BY <3>1, <3>2, PopIs
    <3> QED
      BY <1>2, <2>7, <2>10, <3>1, <3>3
  <2>12. stack' = [stack EXCEPT ![running] = u] /\ frames' = [frames EXCEPT ![cf] = f]
    BY <1>3, <1>7, <2>1, <2>2, <2>10
  <2>13. StackRight(slips', running, u) /\ ("frames" \notin slips' => f = FramesOf(u))
    BY <1>1, <2>2, <2>11
  <2>14. RegistersMatch(slips', running, u, depth', msgh')
    BY <1>1, <2>1, <2>9
  <2>15. depth' \in Nat /\ msgh' \in Msgh /\ headroom' \in Nat
    BY <1>2, <1>3, <2>1
  <2> QED
    BY <1>8, <2>2, <2>12, <2>13, <2>14, <2>15, GoesOn
<1> QED
  BY <1>5, <1>9, <1>10, <1>11

-----------------------------------------------------------------------------
LEMMA CoroutineInit ==
  ASSUME Init
  PROVE  CoroutineInv
<1>1. /\ Lua \in Activation /\ <<>> \in Seq(Activation) /\ <<Lua>> \in Seq(Activation)
      /\ <<>> \in Seq(Frame) /\ <<"lua">> \in Seq(Frame) /\ Append(<<>>, Lua) = <<Lua>>
      /\ Last(<<Lua>>) = Lua /\ <<Lua>> # <<>> /\ Lua.op = "lua"
  BY DEF Lua, Activation, Frame, Last
<1>2. /\ \A t \in Threads : stack[t] = IF t = Main THEN <<Lua>> ELSE <<>>
      /\ \A t \in Threads : frames[t] = IF t = Main THEN <<"lua">> ELSE <<>>
      /\ \A c \in Coros : /\ status[c] = "new" /\ thdepth[c] = 0 /\ thmsgh[c] = "cleared"
                          /\ c # Main /\ c \in Threads
      /\ running = Main /\ cf = Main /\ curth = Main /\ Main \in Threads
      /\ depth = 1 /\ msgh = "default" /\ headroom = 0 /\ slips = {}
  BY CoroutineAssumption DEF Init, Threads
<1>3. CoroutineTypeOK
  <2>1. stack \in [Threads -> Seq(Activation)] /\ frames \in [Threads -> Seq(Frame)]
    BY <1>1 DEF Init
  <2>2. /\ status \in [Coros -> {"new", "suspended", "normal", "running", "dead"}]
        /\ thdepth \in [Coros -> Nat] /\ thmsgh \in [Coros -> Msgh] /\ closing \in [Coros -> BOOLEAN]
    BY DEF Init, Msgh
  <2> QED
    BY <1>2, <2>1, <2>2 DEF CoroutineTypeOK, Msgh
<1>4. ThreadsInv
  <2>1. \A t \in Threads : ~Waits(t)
    BY <1>1, <1>2 DEF Waits
  <2>2. \A c \in Coros : ~Alive(c)
    BY <1>2 DEF Alive
  <2>3. RunningIs /\ CurrentMatches /\ RunsLua /\ StoppedAre
    BY <1>1, <1>2 DEF RunningIs, CurrentMatches, RunsLua, StoppedAre
  <2>4. WaitingIs
    <3>1. \A t \in Threads : t # Main => t \in Coros
      BY DEF Threads
    <3> QED
      BY <1>2, <2>1, <3>1 DEF WaitingIs
  <2>5. ResumedAreAlive /\ AliveAreResumed /\ OneResumer
    BY <2>1, <2>2 DEF ResumedAreAlive, AliveAreResumed, OneResumer
  <2> QED
    BY <2>3, <2>4, <2>5 DEF ThreadsInv
<1>5. \A t \in Threads : StackRight(slips, t, stack[t])
  <2> SUFFICES ASSUME NEW t \in Threads PROVE StackRight(slips, t, stack[t])
    OBVIOUS
  <2>1. StackRight(slips, t, <<>>)
    BY StackEmpty
  <2>2. StackRight(slips, t, Append(<<>>, Lua))
    BY <1>1, <2>1, StackUponLua, Zenon
  <2> QED
    BY <1>1, <1>2, <2>1, <2>2
<1>6. FramesOf(<<Lua>>) = <<"lua">>
  <2>1. FramesOf(Append(<<>>, Lua)) = FramesOf(<<>>) \o FramesOfActivation(Lua)
    BY <1>1, FramesOfAppend, Zenon
  <2>2. FramesOfActivation(Lua) = <<"lua">>
    BY DEF FramesOfActivation, Lua
  <2> QED
    BY <1>1, <2>1, <2>2, FramesOfEmpty
<1>7. FramesMatch
  BY <1>2, <1>6, FramesOfEmpty DEF FramesMatch
<1>8. RegistersInv
  <2>1. RegistersMatch({}, Main, <<>>, 0, "default")
    <3>1. Luas(<<>>) = 0 /\ LuaFrames(<<>>) = 0
      BY <1>1, CountIs DEF Luas, LuaFrames
    <3>2. HandlerIn(Main, <<>>) = "default"
      BY HandlerEmpty
    <3> QED
      BY <3>1, <3>2, FramesOfEmpty DEF RegistersMatch
  <2>2. RegistersMatch({}, Main, Append(<<>>, Lua), 0 + 1, "default")
    <3>1. 0 \in Nat
      OBVIOUS
    <3> QED
      BY <1>1, <1>2, <2>1, <3>1, RegistersUponLua, Zenon
  <2>3. RegistersMatch(slips, running, stack[running], depth, msgh)
    BY <1>1, <1>2, <2>2
  <2> QED
    BY <1>2, <2>3 DEF RegistersInv
<1> QED
  BY <1>3, <1>4, <1>5, <1>7, <1>8 DEF CoroutineInv

LEMMA CoroutineNext ==
  ASSUME CoroutineInv, [Next]_vars
  PROVE  CoroutineInv'
<1>1. CASE Call
  BY <1>1, CallKeeps
<1>2. CASE Callback
  BY <1>2, CallbackKeeps
<1>3. CASE Load
  BY <1>3, LoadKeeps
<1>4. CASE \E h \in BOOLEAN : Pcall(h)
  BY <1>4, PcallKeeps
<1>5. CASE ReturnToLua
  BY <1>5, ReturnToLuaKeeps
<1>6. CASE ReturnToNative \/ ReturnToPcall \/ ReaderReturns
  BY <1>6, ReturnKeeps
<1>7. CASE ReaderMisbehaves
  BY <1>7, MisbehavesKeeps
<1>8. CASE HandlerReturns
  BY <1>8, HandlerReturnsKeeps
<1>9. CASE Error
  BY <1>9, CaughtByPcallKeeps, CaughtByLoadKeeps, CaughtByHandlerKeeps DEF Error
<1>10. CASE SelfClose
  BY <1>10, CaughtByLoadKeeps, CaughtByHandlerKeeps DEF SelfClose
<1>11. CASE \E c \in Coros : Resume(c) \/ ResumeRefused(c) \/ Close(c)
  BY <1>11, ResumeKeeps, RefusalKeeps, CloseKeeps
<1>12. CASE Yield
  BY <1>12, YieldKeeps
<1>13. CASE BodyReturns
  BY <1>13, BodyReturnsKeeps
<1>14. CASE BodyFails
  BY <1>14, BodyFailsKeeps
<1>15. CASE BodyClosesItself
  BY <1>15, BodyClosesItselfKeeps
<1>16. CASE UNCHANGED vars
  BY <1>16 DEF vars, host, iregs, threg, CoroutineInv, CoroutineTypeOK, ThreadsInv, RunningIs,
               WaitingIs, ResumedAreAlive, AliveAreResumed, OneResumer, StoppedAre, RunsLua,
               CurrentMatches, Waits, Resumed, Alive, FramesMatch, RegistersInv
<1> QED
  BY <1>1, <1>2, <1>3, <1>4, <1>5, <1>6, <1>7, <1>8, <1>9, <1>10, <1>11, <1>12, <1>13, <1>14,
     <1>15, <1>16 DEF Next
-----------------------------------------------------------------------------
(* The inductive invariant holds in every behaviour of run_closure, pcall, *)
(* xpcall, load, do_resume, yield and close.                               *)
THEOREM CoroutineInvariant == Spec => []CoroutineInv
<1>1. Init => CoroutineInv
  BY CoroutineInit
<1>2. CoroutineInv /\ [Next]_vars => CoroutineInv'
  BY CoroutineNext
<1> QED
  BY <1>1, <1>2, PTL DEF Spec

(* What the interpreter keeps of the calls under way - the frame stacks,   *)
(* the depth, the message handler, the current thread - is what the host   *)
(* stack says, whatever is called, fails, yields, is resumed or is closed, *)
(* but for the incomplete repairs the history variable slips records.      *)
THEOREM StateAlwaysMatches == Spec => []StateMatches
<1>1. ASSUME CoroutineInv PROVE StateMatches
  <2>1. CoroutineTypeOK /\ FramesMatch /\ CurrentMatches
    BY <1>1 DEF CoroutineInv, ThreadsInv
  <2>2. /\ running \in Threads
        /\ \A c \in Coros : c \in Threads
        /\ RegistersMatch(slips, running, stack[running], depth, msgh)
        /\ \A c \in Coros : status[c] = "suspended" =>
              RegistersMatch(slips, c, stack[c], thdepth[c], thmsgh[c])
    BY <1>1 DEF CoroutineInv, CoroutineTypeOK, RegistersInv, Threads
  <2>3. DepthMatch
    <3> SUFFICES ASSUME slips \cap {"frames", "depth"} = {}
                 PROVE  /\ depth = LuaFrames(frames[running])
                        /\ \A c \in Coros : status[c] = "suspended" =>
                              thdepth[c] = LuaFrames(frames[c])
      BY DEF DepthMatch
    <3>1. "frames" \notin slips
      OBVIOUS
    <3>2. \A t \in Threads : frames[t] = FramesOf(stack[t])
      BY <2>1, <3>1 DEF FramesMatch
    <3> QED
      BY <2>2, <3>2 DEF RegistersMatch
  <2>4. MsghMatch
    BY <2>2 DEF MsghMatch, RegistersMatch, HandlerOf
  <2> QED
    BY <2>1, <2>3, <2>4 DEF StateMatches
<1> QED
  BY <1>1, CoroutineInvariant, PTL

(* What has slipped once is never taken to be in step again.              *)
LEMMA SlipsStay ==
  ASSUME CoroutineInv, Next
  PROVE  slips \subseteq slips'
<1>1. CASE Call \/ Callback \/ Load \/ (\E h \in BOOLEAN : Pcall(h))
  BY <1>1 DEF Call, Callback, Load, Pcall, Enter
<1>2. CASE ReturnToLua \/ ReturnToNative \/ ReturnToPcall \/ ReaderReturns
  BY <1>2 DEF ReturnToLua, ReturnToNative, ReturnToPcall, ReaderReturns, Leave
<1>3. CASE ReaderMisbehaves \/ HandlerReturns
  BY <1>3 DEF ReaderMisbehaves, HandlerReturns, Leave
<1>4. ASSUME NEW exc, NEW also, Swallow(exc, also)
      PROVE  slips \subseteq slips'
  BY <1>4 DEF Swallow
<1>5. CASE Error \/ SelfClose
  <2>1. \E exc \in {"error", "selfclose"} :
           CaughtByPcall(exc) \/ CaughtByLoad(exc) \/ CaughtByHandler(exc)
    BY <1>5 DEF Error, SelfClose
  <2>2. PICK exc \in {"error", "selfclose"} :
           CaughtByPcall(exc) \/ CaughtByLoad(exc) \/ CaughtByHandler(exc)
    BY <2>1
  <2>3. CASE CaughtByPcall(exc)
    BY <2>3, <1>4 DEF CaughtByPcall
  <2>4. CASE CaughtByLoad(exc)
    BY <2>4, <1>4 DEF CaughtByLoad
  <2>5. CASE CaughtByHandler(exc)
    <3>1. PICK j \in Catchers(exc) :
             /\ CaughtAt(j, exc, "handler")
             /\ LET h == stack[running][j] IN
                CASE h.for = "pcall" ->
                       EndPcall(j - 1) /\ headroom' = h.x /\ Swallow(exc, {})
                  [] h.for = "load"  ->
                       /\ EndLoad(j - 1, depth) /\ UNCHANGED headroom
                       /\ Swallow(exc, {"depth"} \cup PassedBy(j, exc))
                  [] h.for = "piece" ->
                       /\ stack' = [stack EXCEPT ![running] = SubSeq(@, 1, j - 2)]
                       /\ frames' = [frames EXCEPT ![cf] = Pop(@)]
                       /\ Swallow(exc, {"frames", "depth"} \cup PassedBy(j, exc))
                       /\ UNCHANGED <<depth, msgh, headroom>>
      BY <2>5 DEF CaughtByHandler
    <3>2. j \in 1..Len(stack[running]) /\ stack[running][j].op = "handler"
      BY <3>1, CaughtIs
    <3>3. stack[running][j] \in Activation
      BY <3>2, RunningThread
    <3>4. CASE stack[running][j].for = "pcall"
      BY <1>4, <3>1, <3>4
    <3>5. CASE stack[running][j].for = "load"
      BY <1>4, <3>1, <3>5
    <3>6. CASE stack[running][j].for = "piece"
      BY <1>4, <3>1, <3>6
    <3> QED
      BY <3>2, <3>3, <3>4, <3>5, <3>6 DEF Activation
  <2> QED
    BY <1>4, <2>2, <2>3, <2>4, <2>5
<1>6. CASE \E c \in Coros : Resume(c) \/ ResumeRefused(c) \/ Close(c)
  BY <1>6 DEF Resume, ResumeRefused, Close
<1>7. CASE Yield \/ BodyReturns \/ BodyFails \/ BodyClosesItself
  BY <1>7 DEF Yield, BodyReturns, BodyFails, BodyClosesItself
<1> QED
  BY <1>1, <1>2, <1>3, <1>5, <1>6, <1>7 DEF Next
-----------------------------------------------------------------------------
(* The chain of resumes.  A sequence of threads is the chain of the call   *)
(* stacks st with r running when each of its threads waits for the next.   *)
ChainIs(ch, st, r) ==
    /\ ch \in Seq(Threads) /\ ch # <<>>
    /\ ch[1] = Main /\ ch[Len(ch)] = r
    /\ \A i \in 1..(Len(ch) - 1) :
          /\ st[ch[i]] # <<>> /\ Last(st[ch[i]]).op = "resume"
          /\ Last(st[ch[i]]).th = ch[i + 1]
    /\ \A i, j \in 1..Len(ch) : ch[i] = ch[j] => i = j

LEMMA ChainLength ==
  ASSUME NEW ch, NEW st, NEW r, ChainIs(ch, st, r)
  PROVE  /\ Len(ch) \in Nat \ {0} /\ Len(ch) - 1 \in 0..Cardinality(Coros)
         /\ Cardinality(Coros) \in Nat
<1>1. ch \in Seq(Threads) /\ ch # <<>> /\ Len(ch) \in Nat \ {0}
  BY EmptySeq DEF ChainIs
<1>2. /\ IsFiniteSet(Threads) /\ Cardinality(Threads) = Cardinality(Coros) + 1
      /\ Cardinality(Coros) \in Nat
  <2>1. IsFiniteSet(Coros) /\ Main \notin Coros
    BY CoroutineAssumption
  <2>2. /\ IsFiniteSet(Coros \cup {Main})
        /\ Cardinality(Coros \cup {Main}) = Cardinality(Coros) + 1
    BY <2>1, FS_AddElement
  <2>3. Threads = Coros \cup {Main}
    BY DEF Threads
  <2> QED
    BY <2>1, <2>2, <2>3, FS_CardinalityType
<1>3. ch \in Injection(1..Len(ch), Threads)
  <2>1. ch \in [1..Len(ch) -> Threads]
    BY <1>1
  <2>2. \A i, j \in 1..Len(ch) : ch[i] = ch[j] => i = j
    BY DEF ChainIs
  <2> QED
    BY <2>1, <2>2 DEF Injection, IsInjective
<1>4. Cardinality(1..Len(ch)) <= Cardinality(Threads)
  BY <1>2, <1>3, FS_Injection
<1>5. Cardinality(1..Len(ch)) = Len(ch)
  BY <1>1, FS_Interval
<1> QED
  BY <1>1, <1>2, <1>4, <1>5

(* There is one at most, for each thread knows whom it has resumed and the *)
(* running one has resumed nobody.                                         *)
LEMMA OneChain ==
  ASSUME NEW a, NEW b, NEW st, NEW r, ChainIs(a, st, r), ChainIs(b, st, r),
         ~(st[r] # <<>> /\ Last(st[r]).op = "resume")
  PROVE  a = b
<1>1. /\ a \in Seq(Threads) /\ b \in Seq(Threads)
      /\ Len(a) \in Nat \ {0} /\ Len(b) \in Nat \ {0}
  BY ChainLength DEF ChainIs
<1> DEFINE T == {n \in Nat : n + 1 <= Len(a) /\ n + 1 <= Len(b) => a[n + 1] = b[n + 1]}
<1>2. 0 \in T
  BY <1>1 DEF ChainIs
<1>3. ASSUME NEW n \in T, n \in Nat PROVE n + 1 \in T
  <2> SUFFICES ASSUME (n + 1) + 1 <= Len(a), (n + 1) + 1 <= Len(b)
               PROVE  a[(n + 1) + 1] = b[(n + 1) + 1]
    BY <1>3
  <2>1. n + 1 \in 1..(Len(a) - 1) /\ n + 1 \in 1..(Len(b) - 1) /\ a[n + 1] = b[n + 1]
    BY <1>1, <1>3
  <2>2. Last(st[a[n + 1]]).th = a[(n + 1) + 1] /\ Last(st[b[n + 1]]).th = b[(n + 1) + 1]
    BY <2>1 DEF ChainIs
  <2> QED
    BY <2>1, <2>2
<1>4. Nat \subseteq T
  <2> HIDE DEF T
  <2> QED
    BY <1>2, <1>3, AllNumbers
<1>5. ASSUME NEW i \in 1..Len(a), i \in 1..Len(b) PROVE a[i] = b[i]
  <2>1. i - 1 \in Nat /\ (i - 1) + 1 = i /\ i <= Len(a) /\ i <= Len(b)
    BY <1>1, <1>5
  <2>2. i - 1 \in T
    BY <1>4, <2>1
  <2>3. a[(i - 1) + 1] = b[(i - 1) + 1]
    BY <2>1, <2>2
  <2> QED
    BY <2>1, <2>3
<1>6. ~(Len(a) < Len(b))
  <2> SUFFICES ASSUME Len(a) < Len(b) PROVE FALSE
    OBVIOUS
  <2>1. Len(a) \in 1..(Len(b) - 1) /\ a[Len(a)] = b[Len(a)] /\ a[Len(a)] = r
    BY <1>1, <1>5 DEF ChainIs
  <2>2. st[b[Len(a)]] # <<>> /\ Last(st[b[Len(a)]]).op = "resume"
    BY <2>1 DEF ChainIs
  <2> QED
    BY <2>1, <2>2
<1>7. ~(Len(b) < Len(a))
  <2> SUFFICES ASSUME Len(b) < Len(a) PROVE FALSE
    OBVIOUS
  <2>1. Len(b) \in 1..(Len(a) - 1) /\ b[Len(b)] = a[Len(b)] /\ b[Len(b)] = r
    BY <1>1, <1>5 DEF ChainIs
  <2>2. st[a[Len(b)]] # <<>> /\ Last(st[a[Len(b)]]).op = "resume"
    BY <2>1 DEF ChainIs
  <2> QED
    BY <2>1, <2>2
<1>8. Len(a) = Len(b)
  BY <1>1, <1>6, <1>7
<1> QED
  BY <1>1, <1>5, <1>8, SeqEqual

(* The threads of the chain are the main thread and the coroutines that    *)
(* are alive.                                                              *)
LEMMA ChainAlive ==
  ASSUME CoroutineInv, NEW ch, ChainIs(ch, stack, running), NEW i \in 1..Len(ch),
         ch[i] \in Coros
  PROVE  Alive(ch[i])
<1>1. ch \in Seq(Threads) /\ Len(ch) \in Nat \ {0}
  BY ChainLength DEF ChainIs
<1>2. ch[i] \in Threads /\ ch[i] # Main /\ ThreadsInv
  BY <1>1, CoroutineAssumption DEF CoroutineInv
<1>3. CASE i = Len(ch)
  BY <1>2, <1>3 DEF ChainIs, ThreadsInv, RunningIs, Alive
<1>4. CASE i # Len(ch)
  <2>1. i \in 1..(Len(ch) - 1)
    BY <1>1, <1>4
  <2>2. Waits(ch[i])
    BY <2>1 DEF ChainIs, Waits
  <2> QED
    BY <1>2, <2>2 DEF ThreadsInv, WaitingIs, Alive
<1> QED
  BY <1>3, <1>4

-----------------------------------------------------------------------------
(* What the interpreter keeps tells it: the thread saved by the pending    *)
(* resume of a coroutine is the one before it in the chain.                *)
LEMMA SavedCurIs ==
  ASSUME CoroutineInv, NEW t \in Threads, Waits(t)
  PROVE  SavedCur(Resumed(t)) = t
<1> DEFINE c == Resumed(t)
           A == {Last(stack[u]) : u \in {x \in Threads : stack[x] # <<>>}}
           a == CHOOSE a \in A : a.op = "resume" /\ a.th = c
<1>1. Last(stack[t]) \in A /\ Last(stack[t]).op = "resume" /\ Last(stack[t]).th = c
  BY DEF Waits, Resumed
<1>2. a \in A /\ a.op = "resume" /\ a.th = c
  <2>1. \E x \in A : x.op = "resume" /\ x.th = c
    BY <1>1
  <2> HIDE DEF A, c
  <2> QED
    BY <2>1, Zenon
<1> HIDE DEF a
<1>3. PICK u \in Threads : stack[u] # <<>> /\ a = Last(stack[u])
  BY <1>2
<1>4. Waits(u) /\ Resumed(u) = Resumed(t)
  BY <1>2, <1>3 DEF Waits, Resumed
<1>5. u = t
  BY <1>3, <1>4 DEF CoroutineInv, ThreadsInv, OneResumer
<1>6. a.sc = t
  BY <1>3, <1>5, SavedIs
<1> QED
  BY <1>6 DEF SavedCur, a, A, c

Chain == ChainTo[Cardinality(Coros)]

LEMMA ChainToIs ==
  ASSUME CoroutineInv, NEW ch, ChainIs(ch, stack, running)
  PROVE  Chain = ch
<1> DEFINE N == Cardinality(Coros)
           L == Len(ch)
           Back(n) == IF n < L THEN SubSeq(ch, L - n, L) ELSE ch
           Step(s) == IF s[1] = Main THEN s ELSE <<SavedCur(s[1])>> \o s
<1>1. ch \in Seq(Threads) /\ ch # <<>> /\ L \in Nat \ {0} /\ L - 1 \in 0..N /\ N \in Nat
  BY ChainLength DEF ChainIs
<1>2. curth = running /\ ch[1] = Main /\ ch[L] = running
  BY DEF CoroutineInv, ThreadsInv, CurrentMatches, ChainIs
<1> HIDE DEF L, N
<1>3. Back(0) = <<curth>>
  <2>1. 0 < L /\ L - 0 = L /\ L \in 1..L
    BY <1>1
  <2>2. SubSeq(ch, L, L) = <<ch[L]>> \o SubSeq(ch, L + 1, L)
    BY <1>1, <2>1, SubSeqRecursiveFirst DEF L
  <2>3. SubSeq(ch, L + 1, L) = <<>>
    BY <1>1, SubSeqEmpty
  <2>4. ch[L] \in Threads
    BY <1>1, <2>1 DEF L
  <2>5. <<ch[L]>> \in Seq(Threads)
    BY <2>4
  <2>6. <<ch[L]>> \o <<>> = <<ch[L]>>
    BY <2>5, ConcatEmptySeq
  <2> QED
    BY <1>2, <2>1, <2>2, <2>3, <2>6
<1>4. ASSUME NEW n \in Nat PROVE Back(n + 1) = Step(Back(n))
  <2>1. CASE n + 1 < L
    <3>1. PICK k \in 2..L : k = L - n
      BY <1>1, <2>1
    <3>2. k \in 1..L /\ k - 1 \in 1..L /\ k - 1 = L - (n + 1) /\ (k - 1) + 1 = k /\ L \in k..L
          /\ k - 1 \in 1..(L - 1) /\ L \in (k - 1)..L /\ 1 \in 1..L /\ k # 1
      BY <1>1, <3>1, <2>1
    <3>3. Back(n) = SubSeq(ch, k, L) /\ Back(n + 1) = SubSeq(ch, k - 1, L)
      BY <1>1, <2>1, <3>1, <3>2
    <3>4. SubSeq(ch, k - 1, L) = <<ch[k - 1]>> \o SubSeq(ch, k, L)
      BY <1>1, <3>2, SubSeqRecursiveFirst DEF L
    <3>5. SubSeq(ch, k, L)[1] = ch[k]
      <4>1. \A i \in k..L : ch[i] \in Threads
        BY <1>1, <3>2 DEF L
      <4>2. k \in Int /\ L \in Int /\ 1 \in 1..(L - k + 1) /\ k + 1 - 1 = k
        BY <3>2, <1>1
      <4> QED
        BY <4>1, <4>2, SubSeqProperties
    <3>6. ch[k] # Main
      BY <1>2, <3>2 DEF ChainIs, L
    <3>7. Waits(ch[k - 1]) /\ Resumed(ch[k - 1]) = ch[k] /\ ch[k - 1] \in Threads
      BY <1>1, <3>2 DEF ChainIs, Waits, Resumed, L
    <3>8. SavedCur(ch[k]) = ch[k - 1]
      BY <3>7, SavedCurIs
    <3> HIDE DEF Back
    <3> QED
      BY <3>3, <3>4, <3>5, <3>6, <3>8
  <2>2. CASE ~(n + 1 < L)
    <3>1. Back(n) = ch
      <4>1. CASE n < L
        <5>1. L - n = 1
          BY <1>1, <2>2, <4>1
        <5>2. SubSeq(ch, 1, L) = ch
          BY <1>1, SubSeqFull DEF L
        <5> QED
          BY <4>1, <5>1, <5>2
      <4>2. CASE ~(n < L)
        BY <4>2
      <4> QED
        BY <4>1, <4>2
    <3>2. Back(n + 1) = ch
      BY <2>2
    <3> HIDE DEF Back
    <3> QED
      BY <1>2, <3>1, <3>2
  <2> QED
    BY <2>1, <2>2
<1> HIDE DEF Back
<1> DEFINE F(f) == [n \in 0..N |-> IF n = 0 THEN <<curth>> ELSE LET s == f[n - 1] IN
                                   IF s[1] = Main THEN s ELSE <<SavedCur(s[1])>> \o s]
<1>5. \E f : f = F(f)
  <2> DEFINE f == [n \in 0..N |-> Back(n)]
  <2>1. ASSUME NEW n \in 0..N
        PROVE  Back(n) = IF n = 0 THEN <<curth>> ELSE LET s == f[n - 1] IN
                         IF s[1] = Main THEN s ELSE <<SavedCur(s[1])>> \o s
    <3>1. CASE n = 0
      BY <1>3, <3>1
    <3>2. CASE n # 0
      <4>1. n - 1 \in Nat /\ (n - 1) + 1 = n /\ n - 1 \in 0..N
        BY <1>1, <3>2
      <4>2. f[n - 1] = Back(n - 1)
        BY <4>1
      <4>3. Back(n) = Step(Back(n - 1))
        BY <1>4, <4>1
      <4> QED
        BY <3>2, <4>2, <4>3
    <3> QED
      BY <3>1, <3>2
  <2>2. f = F(f)
    BY <2>1
  <2> QED
    BY <2>2
<1>6. ChainTo = F(ChainTo)
  <2> DEFINE f == CHOOSE f : f = F(f)
  <2>1. f = F(f)
    BY <1>5, Zenon
  <2> QED
    BY <2>1, Zenon DEF ChainTo, N
<1> DEFINE T == {n \in Nat : n <= N => ChainTo[n] = Back(n)}
<1>7. 0 \in T
  <2>1. 0 \in 0..N
    BY <1>1
  <2>2. ChainTo[0] = <<curth>>
    BY <1>6, <2>1
  <2> QED
    BY <1>3, <2>2
<1>8. ASSUME NEW n \in T, n \in Nat PROVE n + 1 \in T
  <2> SUFFICES ASSUME n + 1 <= N PROVE ChainTo[n + 1] = Back(n + 1)
    BY <1>8
  <2>1. n + 1 \in 0..N /\ n + 1 # 0 /\ (n + 1) - 1 = n /\ ChainTo[n] = Back(n)
    BY <1>1, <1>8
  <2>2. ChainTo[n + 1] = Step(ChainTo[n])
    BY <1>6, <2>1
  <2> QED
    BY <1>4, <2>1, <2>2, <1>8
<1>9. Nat \subseteq T
  <2> HIDE DEF T
  <2> QED
    BY <1>7, <1>8, AllNumbers
<1>10. ChainTo[N] = Back(N)
  BY <1>1, <1>9
<1>11. Back(N) = ch
  <2>1. CASE N < L
    <3>1. L - N = 1
      BY <1>1, <2>1
    <3>2. SubSeq(ch, 1, L) = ch
      BY <1>1, SubSeqFull DEF L
    <3> QED
      BY <2>1, <3>1, <3>2 DEF Back
  <2>2. CASE ~(N < L)
    BY <2>2 DEF Back
  <2> QED
    BY <2>1, <2>2
<1> QED
  BY <1>10, <1>11 DEF Chain, N
-----------------------------------------------------------------------------
(* Which steps move control.  Most of them stay in the running thread.     *)
Within ==
    \/ Call \/ Callback \/ Load \/ (\E h \in BOOLEAN : Pcall(h))
    \/ ReturnToLua \/ ReturnToNative \/ ReturnToPcall \/ ReaderReturns
    \/ ReaderMisbehaves \/ HandlerReturns \/ Error \/ SelfClose
    \/ \E c \in Coros : ResumeRefused(c)

LEMMA WithinStays ==
  ASSUME CoroutineInv, Within
  PROVE  /\ UNCHANGED <<status, running>>
         /\ \A t \in Threads : t # running => stack'[t] = stack[t]
<1>1. stack \in [Threads -> Seq(Activation)] /\ running \in Threads
  BY DEF CoroutineInv, CoroutineTypeOK
<1>2. CASE Call \/ Callback \/ Load \/ (\E h \in BOOLEAN : Pcall(h))
  BY <1>1, <1>2 DEF Call, Callback, Load, Pcall, Enter
<1>3. CASE ReturnToLua \/ ReturnToNative \/ ReturnToPcall \/ ReaderReturns
  BY <1>1, <1>3 DEF ReturnToLua, ReturnToNative, ReturnToPcall, ReaderReturns, Leave
<1>4. CASE ReaderMisbehaves
  BY <1>1, <1>4 DEF ReaderMisbehaves, Leave
<1>5. ASSUME NEW j, EndPcall(j) \/ (\E d : EndLoad(j, d)) \/ (\E for : StartHandler(j, for))
      PROVE  \A t \in Threads : t # running => stack'[t] = stack[t]
  BY <1>1, <1>5 DEF EndPcall, EndLoad, StartHandler
<1>6. CASE HandlerReturns
  <2>1. Below \in Activation /\ Below.op = "handler"
    BY <1>6, CalledByIs DEF HandlerReturns
  <2>2. Below.for \in {"pcall", "load", "piece"}
    BY <2>1 DEF Activation
  <2>3. UNCHANGED <<status, running>>
    BY <1>6 DEF HandlerReturns
  <2>4. CASE Below.for = "pcall"
    BY <1>5, <1>6, <2>3, <2>4 DEF HandlerReturns
  <2>5. CASE Below.for = "load"
    BY <1>5, <1>6, <2>3, <2>5 DEF HandlerReturns
  <2>6. CASE Below.for = "piece"
    BY <1>1, <1>6, <2>3, <2>6 DEF HandlerReturns
  <2> QED
    BY <2>2, <2>4, <2>5, <2>6
<1>7. CASE Error \/ SelfClose
  <2>1. PICK exc \in {"error", "selfclose"} :
           CaughtByPcall(exc) \/ CaughtByLoad(exc) \/ CaughtByHandler(exc)
    BY <1>7 DEF Error, SelfClose
  <2>2. ASSUME NEW also, Swallow(exc, also) PROVE UNCHANGED <<status, running>>
    BY <2>2 DEF Swallow
  <2>3. CASE CaughtByPcall(exc)
    BY <1>5, <2>2, <2>3 DEF CaughtByPcall
  <2>4. CASE CaughtByLoad(exc)
    BY <1>5, <2>2, <2>4 DEF CaughtByLoad
  <2>5. CASE CaughtByHandler(exc)
    <3>1. PICK j \in Catchers(exc) :
             /\ CaughtAt(j, exc, "handler")
             /\ LET h == stack[running][j] IN
                CASE h.for = "pcall" ->
                       EndPcall(j - 1) /\ headroom' = h.x /\ Swallow(exc, {})
                  [] h.for = "load"  ->
                       /\ EndLoad(j - 1, depth) /\ UNCHANGED headroom
                       /\ Swallow(exc, {"depth"} \cup PassedBy(j, exc))
                  [] h.for = "piece" ->
                       /\ stack' = [stack EXCEPT ![running] = SubSeq(@, 1, j - 2)]
                       /\ frames' = [frames EXCEPT ![cf] = Pop(@)]
                       /\ Swallow(exc, {"frames", "depth"} \cup PassedBy(j, exc))
                       /\ UNCHANGED <<depth, msgh, headroom>>
      BY <2>5 DEF CaughtByHandler
    <3>2. j \in 1..Len(stack[running]) /\ stack[running][j].op = "handler"
      BY <3>1, CaughtIs
    <3>3. stack[running][j] \in Activation
      BY <3>2, RunningThread
    <3>4. CASE stack[running][j].for = "pcall"
      BY <1>5, <2>2, <3>1, <3>4
    <3>5. CASE stack[running][j].for = "load"
      BY <1>5, <2>2, <3>1, <3>5
    <3>6. CASE stack[running][j].for = "piece"
      BY <1>1, <2>2, <3>1, <3>6
    <3> QED
      BY <3>2, <3>3, <3>4, <3>5, <3>6 DEF Activation
  <2> QED
    BY <2>1, <2>3, <2>4, <2>5
<1>8. CASE \E c \in Coros : ResumeRefused(c)
  BY <1>8 DEF ResumeRefused, host
<1> QED
  BY <1>2, <1>3, <1>4, <1>6, <1>7, <1>8 DEF Within

(* Three steps give control back; what they leave is not in the chain.     *)
LEMMA GivesBack ==
  ASSUME CoroutineInv, Yield \/ BodyReturns \/ BodyFails \/ BodyClosesItself
  PROVE  /\ running # Main /\ running' = Resumer
         /\ \A t \in Threads : t # Resumer /\ t # running => stack'[t] = stack[t]
         /\ \E st \in {"suspended", "dead"} :
               status' = [c \in Coros |-> IF c = running THEN st
                                          ELSE IF c = Resumer THEN "running" ELSE status[c]]
<1>1. \E u, f : \E st \in {"suspended", "dead"} : running # Main /\ GoBack(u, f, st)
  BY DEF Yield, BodyReturns, BodyFails, BodyClosesItself
<1>2. PICK u, f : \E st \in {"suspended", "dead"} : running # Main /\ GoBack(u, f, st)
  BY <1>1
<1>3. PICK st \in {"suspended", "dead"} : running # Main /\ GoBack(u, f, st)
  BY <1>2
<1>4. stack \in [Threads -> Seq(Activation)]
  BY DEF CoroutineInv, CoroutineTypeOK
<1>5. PICK r : r = Resumer
  OBVIOUS
<1>6. /\ stack' = [stack EXCEPT ![r] = Front(@), ![running] = u]
      /\ status' = [c \in Coros |-> IF c = running THEN st
                                    ELSE IF c = r THEN "running" ELSE status[c]]
      /\ running' = r
  BY <1>3, <1>5 DEF GoBack
<1> QED
  BY <1>3, <1>4, <1>5, <1>6

LEMMA ChainShorter ==
  ASSUME NEW ch, NEW st, NEW r, ChainIs(ch, st, r), r # Main,
         NEW st2, \A t \in Threads : t # r /\ t # ch[Len(ch) - 1] => st2[t] = st[t]
  PROVE  /\ ChainIs(SubSeq(ch, 1, Len(ch) - 1), st2, ch[Len(ch) - 1])
         /\ Len(ch) - 1 \in 1..Len(ch)
<1> DEFINE k == Len(ch) - 1
           c2 == SubSeq(ch, 1, k)
<1>1. ch \in Seq(Threads) /\ Len(ch) \in Nat \ {0} /\ ch[1] = Main /\ ch[Len(ch)] = r
  BY ChainLength DEF ChainIs
<1>2. k \in 1..Len(ch) /\ k + 1 = Len(ch) /\ k \in 0..Len(ch) /\ k \in Nat
  BY <1>1
<1>3. c2 \in Seq(Threads) /\ Len(c2) = k /\ \A i \in 1..k : c2[i] = ch[i]
  BY <1>1, <1>2, PrefixIs
<1> HIDE DEF k, c2
<1>4. c2 # <<>> /\ c2[1] = Main /\ c2[Len(c2)] = ch[k]
  BY <1>1, <1>2, <1>3, EmptySeq
<1>5. ASSUME NEW i \in 1..(Len(c2) - 1)
      PROVE  /\ st2[c2[i]] # <<>> /\ Last(st2[c2[i]]).op = "resume"
             /\ Last(st2[c2[i]]).th = c2[i + 1]
  <2>1. i \in 1..k /\ i + 1 \in 1..k /\ i \in 1..(Len(ch) - 1) /\ i # k /\ i # Len(ch)
        /\ i \in 1..Len(ch) /\ Len(ch) \in 1..Len(ch)
    BY <1>2, <1>3
  <2>2. ch[i] # ch[k] /\ ch[i] # r /\ ch[i] \in Threads
    BY <1>1, <1>2, <2>1 DEF ChainIs
  <2>3. st2[ch[i]] = st[ch[i]]
    BY <2>2 DEF k
  <2>4. /\ st[ch[i]] # <<>> /\ Last(st[ch[i]]).op = "resume"
        /\ Last(st[ch[i]]).th = ch[i + 1]
    BY <2>1 DEF ChainIs
  <2> QED
    BY <1>3, <2>1, <2>3, <2>4
<1>6. \A i, j \in 1..Len(c2) : c2[i] = c2[j] => i = j
  BY <1>2, <1>3 DEF ChainIs
<1>7. ChainIs(c2, st2, ch[k])
  BY <1>3, <1>4, <1>5, <1>6 DEF ChainIs
<1> QED
  BY <1>2, <1>7 DEF k, c2

LEMMA ChainLonger ==
  ASSUME NEW ch, NEW st, NEW r, ChainIs(ch, st, r), NEW c \in Threads,
         \A i \in 1..Len(ch) : ch[i] # c,
         NEW st2, \A t \in Threads : t # r /\ t # c => st2[t] = st[t],
         st2[r] # <<>>, Last(st2[r]).op = "resume", Last(st2[r]).th = c
  PROVE  ChainIs(Append(ch, c), st2, c)
<1> DEFINE n == Len(ch)
           c2 == Append(ch, c)
<1>1. ch \in Seq(Threads) /\ n \in Nat \ {0} /\ ch[1] = Main /\ ch[n] = r
  BY ChainLength DEF ChainIs
<1>2. /\ c2 \in Seq(Threads) /\ c2 # <<>> /\ Len(c2) = n + 1
      /\ \A i \in 1..n : c2[i] = ch[i]
      /\ c2[n + 1] = c
  BY <1>1, AppendProperties
<1> HIDE DEF c2
<1>3. c2[1] = Main /\ c2[Len(c2)] = c
  BY <1>1, <1>2
<1>4. ASSUME NEW i \in 1..(Len(c2) - 1)
      PROVE  /\ st2[c2[i]] # <<>> /\ Last(st2[c2[i]]).op = "resume"
             /\ Last(st2[c2[i]]).th = c2[i + 1]
  <2>1. i \in 1..n /\ c2[i] = ch[i] /\ ch[i] \in Threads
    BY <1>1, <1>2
  <2>2. CASE i = n
    BY <1>1, <1>2, <2>1, <2>2
  <2>3. CASE i # n
    <3>1. i \in 1..(Len(ch) - 1) /\ i + 1 \in 1..n /\ n \in 1..Len(ch) /\ i \in 1..Len(ch)
      BY <1>1, <2>1, <2>3
    <3>2. ch[i] # r /\ ch[i] # c
      BY <1>1, <2>3, <3>1 DEF ChainIs
    <3>3. st2[ch[i]] = st[ch[i]]
      BY <2>1, <3>2
    <3>4. /\ st[ch[i]] # <<>> /\ Last(st[ch[i]]).op = "resume"
          /\ Last(st[ch[i]]).th = ch[i + 1]
      BY <3>1 DEF ChainIs
    <3> QED
      BY <1>2, <2>1, <3>1, <3>3, <3>4
  <2> QED
    BY <2>2, <2>3
<1>5. ASSUME NEW i \in 1..Len(c2), NEW j \in 1..Len(c2), c2[i] = c2[j] PROVE i = j
  <2>1. i = n + 1 \/ (i \in 1..n /\ i \in 1..Len(ch))
    BY <1>1, <1>2
  <2>2. j = n + 1 \/ (j \in 1..n /\ j \in 1..Len(ch))
    BY <1>1, <1>2
  <2> QED
    BY <1>2, <1>5, <2>1, <2>2 DEF ChainIs
<1>6. ChainIs(c2, st2, c)
  BY <1>2, <1>3, <1>4, <1>5 DEF ChainIs
<1> QED
  BY <1>6 DEF c2

LEMMA ChainSame ==
  ASSUME NEW ch, NEW st, NEW r, ChainIs(ch, st, r), NEW st2,
         \A t \in Threads : t # r /\ (\E i \in 1..Len(ch) : ch[i] = t) => st2[t] = st[t]
  PROVE  ChainIs(ch, st2, r)
<1>1. ch \in Seq(Threads) /\ Len(ch) \in Nat \ {0} /\ ch[Len(ch)] = r
  BY ChainLength DEF ChainIs
<1>2. ASSUME NEW i \in 1..(Len(ch) - 1)
      PROVE  /\ st2[ch[i]] # <<>> /\ Last(st2[ch[i]]).op = "resume"
             /\ Last(st2[ch[i]]).th = ch[i + 1]
  <2>1. i \in 1..Len(ch) /\ Len(ch) \in 1..Len(ch) /\ i # Len(ch) /\ ch[i] \in Threads
    BY <1>1
  <2>2. ch[i] # r
    BY <1>1, <2>1 DEF ChainIs
  <2>3. st2[ch[i]] = st[ch[i]]
    BY <2>1, <2>2
  <2> QED
    BY <2>3 DEF ChainIs
<1> QED
  BY <1>2 DEF ChainIs
-----------------------------------------------------------------------------
(* Each step of the interpreter is a step of the library or a stutter.     *)
Left == [c \in Coros |-> IF status[c] \in {"running", "normal"} THEN "suspended" ELSE status[c]]

LibraryStep(ch, c2) ==
    \/ c2 = ch /\ Left' = Left
    \/ \E c \in Coros :
          /\ \A i \in 1..Len(ch) : ch[i] # c
          /\ \/ /\ Left[c] \in {"new", "suspended"}
                /\ c2 = Append(ch, c)
                /\ Left' = [Left EXCEPT ![c] = "suspended"]
             \/ c2 = ch /\ Left' = [Left EXCEPT ![c] = "dead"]
    \/ \E s \in {"suspended", "dead"} :
          /\ Len(ch) > 1
          /\ c2 = SubSeq(ch, 1, Len(ch) - 1)
          /\ Left' = [Left EXCEPT ![ch[Len(ch)]] = s]

LEMMA ChainNext ==
  ASSUME CoroutineInv, [Next]_vars, NEW ch, ChainIs(ch, stack, running)
  PROVE  \E c2 : ChainIs(c2, stack', running') /\ LibraryStep(ch, c2)
<1>1. /\ stack \in [Threads -> Seq(Activation)] /\ running \in Threads /\ ThreadsInv
      /\ status \in [Coros -> {"new", "suspended", "normal", "running", "dead"}]
      /\ curth = running /\ \A c \in Coros : c \in Threads /\ c # Main
  BY CoroutineAssumption
     DEF CoroutineInv, CoroutineTypeOK, ThreadsInv, CurrentMatches, Threads
<1>2. ch \in Seq(Threads) /\ Len(ch) \in Nat \ {0} /\ ch[1] = Main /\ ch[Len(ch)] = running
  BY ChainLength DEF ChainIs
<1>3. ASSUME NEW c \in Coros, ~Alive(c) PROVE \A i \in 1..Len(ch) : ch[i] # c
  BY <1>3, ChainAlive
<1>4. CASE Within
  <2>1. /\ UNCHANGED <<status, running>>
        /\ \A t \in Threads : t # running => stack'[t] = stack[t]
    BY <1>4, WithinStays
  <2>2. ChainIs(ch, stack', running)
    BY <2>1, ChainSame
  <2> QED
    BY <2>1, <2>2 DEF LibraryStep, Left
<1>5. ASSUME NEW c \in Coros, Resume(c)
      PROVE  \E c2 : ChainIs(c2, stack', running') /\ LibraryStep(ch, c2)
  <2>1. /\ status[c] \in {"new", "suspended"} /\ running' = c /\ c \in Threads
        /\ status' = [x \in Coros |-> IF x = c THEN "running"
                                      ELSE IF x = running THEN "normal" ELSE status[x]]
    BY <1>1, <1>5 DEF Resume
  <2>2. ~Alive(c) /\ c # running
    BY <1>1, <2>1 DEF Alive, ThreadsInv, RunningIs
  <2>3. /\ \A t \in Threads : t # running /\ t # c => stack'[t] = stack[t]
        /\ \E a : a.op = "resume" /\ a.th = c /\ stack'[running] = Append(stack[running], a)
                  /\ a \in Activation
    <3> DEFINE b == [op |-> "resume", th |-> c, sf |-> cf, d |-> depth, m |-> msgh, sc |-> curth]
    <3>0. b \in Activation /\ b.op = "resume" /\ b.th = c
      <4>1. cf \in Threads /\ curth \in Threads /\ depth \in Nat /\ msgh \in Msgh
        BY DEF CoroutineInv, CoroutineTypeOK
      <4> QED
        BY <4>1 DEF Activation
    <3>1. PICK a \in Activation : a = b /\ a.op = "resume" /\ a.th = c
      <4> HIDE DEF b
      <4> QED
        BY <3>0
    <3>2. PICK u : stack' = [stack EXCEPT ![running] = Append(@, a), ![c] = u]
      BY <1>5, <3>1 DEF Resume
    <3> QED
      BY <1>1, <2>1, <2>2, <3>1, <3>2
  <2>4. stack'[running] # <<>> /\ Last(stack'[running]).op = "resume"
        /\ Last(stack'[running]).th = c
    <3>1. PICK a \in Activation : a.op = "resume" /\ a.th = c
                                  /\ stack'[running] = Append(stack[running], a)
      BY <2>3
    <3>2. stack[running] \in Seq(Activation)
      BY <1>1
    <3>3. Append(stack[running], a) # <<>> /\ Last(Append(stack[running], a)) = a
      BY <3>2, AppendIs
    <3> QED
      BY <3>1, <3>3
  <2>5. \A i \in 1..Len(ch) : ch[i] # c
    BY <1>3, <2>2
  <2>6. ChainIs(Append(ch, c), stack', c)
    <3>1. \A t \in Threads : t # running /\ t # c => stack'[t] = stack[t]
      BY <2>3
    <3>2. PICK st : st = stack'
      OBVIOUS
    <3>3. /\ \A t \in Threads : t # running /\ t # c => st[t] = stack[t]
          /\ st[running] # <<>> /\ Last(st[running]).op = "resume"
          /\ Last(st[running]).th = c
      BY <2>4, <3>1, <3>2
    <3>4. ChainIs(Append(ch, c), st, c)
      BY <2>1, <2>5, <3>3, ChainLonger
    <3> QED
      BY <3>2, <3>4
  <2>7. Left[c] \in {"new", "suspended"}
    BY <2>1 DEF Left
  <2>8. Left' = [Left EXCEPT ![c] = "suspended"]
    <3>1. running \in Coros => status[running] = "running"
      BY <1>1 DEF ThreadsInv, RunningIs
    <3> QED
      BY <2>1, <3>1 DEF Left
  <2> QED
    BY <2>1, <2>5, <2>6, <2>7, <2>8 DEF LibraryStep
<1>6. ASSUME NEW c \in Coros, Close(c)
      PROVE  \E c2 : ChainIs(c2, stack', running') /\ LibraryStep(ch, c2)
  <2>1. /\ c # running /\ status[c] # "normal" /\ running' = running
        /\ stack' = [stack EXCEPT ![c] = <<>>] /\ status' = [status EXCEPT ![c] = "dead"]
    BY <1>1, <1>6 DEF Close
  <2>2. ~Alive(c)
    BY <1>1, <2>1 DEF Alive, ThreadsInv, RunningIs
  <2>3. \A i \in 1..Len(ch) : ch[i] # c
    BY <1>3, <2>2
  <2>4. \A t \in Threads : t # c => stack'[t] = stack[t]
    BY <1>1, <2>1
  <2>5. ChainIs(ch, stack', running)
    BY <2>3, <2>4, ChainSame
  <2>6. Left' = [Left EXCEPT ![c] = "dead"]
    BY <1>1, <2>1 DEF Left
  <2> QED
    BY <2>1, <2>3, <2>5, <2>6 DEF LibraryStep
<1>7. CASE Yield \/ BodyReturns \/ BodyFails \/ BodyClosesItself
  <2>1. PICK r : r = Resumer
    OBVIOUS
  <2>2. /\ running # Main /\ running' = r
        /\ \A t \in Threads : t # r /\ t # running => stack'[t] = stack[t]
        /\ \E st \in {"suspended", "dead"} :
               status' = [c \in Coros |-> IF c = running THEN st
                                          ELSE IF c = r THEN "running" ELSE status[c]]
    BY <1>7, <2>1, GivesBack
  <2>3. /\ running \in Coros /\ r \in Threads /\ Waits(r)
        /\ \A t \in Threads : Waits(t) /\ Resumed(t) = running => t = r
    BY <2>1, <2>2, ResumerIs
  <2>4. Len(ch) > 1 /\ Len(ch) - 1 \in 1..(Len(ch) - 1) /\ (Len(ch) - 1) + 1 = Len(ch)
        /\ Len(ch) - 1 \in 1..Len(ch)
    BY <1>2, <2>2
  <2>5. ch[Len(ch) - 1] = r
    <3>1. /\ Waits(ch[Len(ch) - 1]) /\ Resumed(ch[Len(ch) - 1]) = ch[(Len(ch) - 1) + 1]
          /\ ch[Len(ch) - 1] \in Threads
      BY <1>2, <2>4 DEF ChainIs, Waits, Resumed
    <3> QED
      BY <1>2, <2>3, <2>4, <3>1
  <2>6. ChainIs(SubSeq(ch, 1, Len(ch) - 1), stack', r)
    BY <2>2, <2>5, ChainShorter
  <2>7. PICK st \in {"suspended", "dead"} :
           status' = [c \in Coros |-> IF c = running THEN st
                                      ELSE IF c = r THEN "running" ELSE status[c]]
    BY <2>2
  <2>8. r \in Coros => status[r] = "normal"
    BY <1>1, <2>3 DEF ThreadsInv, WaitingIs
  <2>9. Left' = [Left EXCEPT ![running] = st]
    BY <2>3, <2>7, <2>8 DEF Left
  <2> QED
    BY <1>2, <2>2, <2>4, <2>6, <2>9 DEF LibraryStep
<1>8. CASE UNCHANGED vars
  BY <1>8 DEF vars, host, LibraryStep, Left
<1> QED
  BY <1>4, <1>5, <1>6, <1>7, <1>8 DEF Next, Within

ChainRight == CoroutineInv /\ ChainIs(Chain, stack, running)

LEMMA ChainInvariant == Spec => []ChainRight
<1> DEFINE Some == \E ch \in Seq(Threads) : ChainIs(ch, stack, running)
<1>1. Init => Some
  <2> SUFFICES ASSUME Init PROVE Some
    OBVIOUS
  <2>1. <<Main>> \in Seq(Threads) /\ <<Main>> # <<>> /\ Len(<<Main>>) = 1 /\ <<Main>>[1] = Main
    BY DEF Threads
  <2>2. ChainIs(<<Main>>, stack, running)
    BY <2>1 DEF Init, ChainIs
  <2> QED
    BY <2>1, <2>2
<1>2. ASSUME CoroutineInv, Some, [Next]_vars PROVE Some'
  <2>1. PICK ch \in Seq(Threads) : ChainIs(ch, stack, running)
    BY <1>2
  <2>2. PICK c2 : ChainIs(c2, stack', running')
    BY <1>2, <2>1, ChainNext
  <2> QED
    BY <2>2 DEF ChainIs
<1>3. ASSUME CoroutineInv, Some PROVE ChainRight
  BY <1>3, ChainToIs DEF ChainRight
<1> HIDE DEF Some
<1> QED
  BY <1>1, <1>2, <1>3, CoroutineInvariant, PTL DEF Spec

(* What the interpreter can tell of the coroutines refines the chain that  *)
(* the coroutine library promises: control only moves to the next or the   *)
(* previous link, and a dead coroutine stays dead (do_resume, yield,       *)
(* close).                                                                 *)
THEOREM ChainRefinesLibrary == Spec => ImplementsChain
<1>1. ASSUME Init, ChainRight PROVE Library!Init
  <2>1. ChainIs(<<Main>>, stack, running)
    <3>1. <<Main>> \in Seq(Threads) /\ <<Main>> # <<>> /\ Len(<<Main>>) = 1 /\ <<Main>>[1] = Main
      BY DEF Threads
    <3> QED
      BY <1>1, <3>1 DEF Init, ChainIs
  <2>2. Chain = <<Main>>
    BY <1>1, <2>1, ChainToIs DEF ChainRight
  <2>3. Left = [c \in Coros |-> "new"]
    BY <1>1 DEF Init, Left
  <2> QED
    BY <2>2, <2>3 DEF Library!Init, Chain, Left
<1>2. ASSUME ChainRight, ChainRight', [Next]_vars
      PROVE  [Library!Next]_<<Chain, Left>>
  <2>1. PICK ch : ch = Chain
    OBVIOUS
  <2>2. PICK c2 : ChainIs(c2, stack', running') /\ LibraryStep(ch, c2)
    BY <1>2, <2>1, ChainNext DEF ChainRight
  <2>3. ~(stack'[running'] # <<>> /\ Last(stack'[running']).op = "resume")
    BY <1>2 DEF ChainRight, CoroutineInv, ThreadsInv, RunsLua, Lua
  <2>4. ChainIs(Chain', stack', running')
    BY <1>2 DEF ChainRight
  <2>5. Chain' = c2
    BY <2>2, <2>3, <2>4, OneChain
  <2>6. CASE c2 = ch /\ Left' = Left
    BY <2>1, <2>5, <2>6
  <2>7. CASE \E c \in Coros :
          /\ \A i \in 1..Len(ch) : ch[i] # c
          /\ \/ /\ Left[c] \in {"new", "suspended"}
                /\ c2 = Append(ch, c)
                /\ Left' = [Left EXCEPT ![c] = "suspended"]
             \/ c2 = ch /\ Left' = [Left EXCEPT ![c] = "dead"]
    <3>1. PICK c \in Coros :
          /\ \A i \in 1..Len(ch) : ch[i] # c
          /\ \/ /\ Left[c] \in {"new", "suspended"}
                /\ c2 = Append(ch, c)
                /\ Left' = [Left EXCEPT ![c] = "suspended"]
             \/ c2 = ch /\ Left' = [Left EXCEPT ![c] = "dead"]
      BY <2>7
    <3>2. Library!Resume(c) \/ Library!Close(c)
      BY <2>1, <2>5, <3>1 DEF Library!Resume, Library!Close, Library!InChain, Chain, Left
    <3> QED
      BY <3>2 DEF Library!Next
  <2>8. CASE \E s \in {"suspended", "dead"} :
          /\ Len(ch) > 1
          /\ c2 = SubSeq(ch, 1, Len(ch) - 1)
          /\ Left' = [Left EXCEPT ![ch[Len(ch)]] = s]
    <3>1. PICK s \in {"suspended", "dead"} :
          /\ Len(ch) > 1
          /\ c2 = SubSeq(ch, 1, Len(ch) - 1)
          /\ Left' = [Left EXCEPT ![ch[Len(ch)]] = s]
      BY <2>8
    <3>2. Library!GiveBack(s)
      BY <2>1, <2>5, <3>1 DEF Library!GiveBack, Chain, Left
    <3> QED
      BY <3>2 DEF Library!Next
  <2> QED
    BY <2>2, <2>6, <2>7, <2>8 DEF LibraryStep
<1> QED
  BY <1>1, <1>2, ChainInvariant, PTL DEF Spec, ImplementsChain, Library!Spec, Chain, Left
-----------------------------------------------------------------------------
(* A native that cannot be yielded across shows in the frames of any stack *)
(* it is in, wherever it stands.                                           *)
LEMMA NativeShows ==
  ASSUME NEW s \in Seq(Activation), NEW i \in 1..Len(s), s[i].op \in {"native", "load", "resume"}
  PROVE  \E k \in DOMAIN FramesOf(s) : FramesOf(s)[k] = "native"
<1> DEFINE p == SubSeq(s, 1, i - 1)
<1>1. i - 1 \in 0..Len(s) /\ i \in 0..Len(s)
  OBVIOUS
<1>2. s[i] \in Activation /\ p \in Seq(Activation) /\ SubSeq(s, 1, i) = Append(p, s[i])
  BY <1>1, PrefixIs, PrefixAppend
<1>3. FramesOfActivation(s[i]) = <<"native">>
  BY DEF FramesOfActivation
<1> HIDE DEF p
<1>4. FramesOf(SubSeq(s, 1, i)) = FramesOf(p) \o <<"native">>
  BY <1>2, <1>3, FramesOfAppend
<1>5. PICK r \in Seq(Frame) : FramesOf(s) = FramesOf(SubSeq(s, 1, i)) \o r
  BY <1>1, FramesOfPrefix
<1>6. PICK f \in Seq(Frame) : f = FramesOf(p)
  BY <1>2, FramesOfType
<1>7. FramesOf(s) = (f \o <<"native">>) \o r
  BY <1>4, <1>5, <1>6
<1>8. "native" \in Frame
  BY DEF Frame
<1>9. /\ Len(f) + 1 \in DOMAIN ((f \o <<"native">>) \o r)
      /\ ((f \o <<"native">>) \o r)[Len(f) + 1] = "native"
  BY <1>8
<1> QED
  BY <1>7, <1>9

(* No coroutine is ever suspended inside a native that cannot be yielded   *)
(* across: what is_yieldable_now reads in the frames is what the host      *)
(* stack holds, after any errors, handlers, resumes and closes.            *)
THEOREM NeverSuspendedInNative == Spec => []NoYieldAcrossNative
<1>1. Init => NoYieldAcrossNative
  BY DEF Init, NoYieldAcrossNative
<1>2. ASSUME CoroutineInv, NoYieldAcrossNative, [Next]_vars
      PROVE  NoYieldAcrossNative'
  <2>1. CASE UNCHANGED vars
    BY <1>2, <2>1 DEF vars, host, NoYieldAcrossNative
  <2>2. CASE Next
    <3> SUFFICES ASSUME "frames" \notin slips', NEW c \in Coros, status'[c] = "suspended",
                        NEW i \in DOMAIN stack'[c]
                 PROVE  stack'[c][i].op \notin {"native", "load", "resume"}
      BY DEF NoYieldAcrossNative
    <3>1. "frames" \notin slips
      BY <1>2, <2>2, SlipsStay
    <3>2. /\ stack \in [Threads -> Seq(Activation)]
          /\ status \in [Coros -> {"new", "suspended", "normal", "running", "dead"}]
          /\ \A x \in Coros : status[x] = "running" <=> x = running
          /\ \A x \in Coros : x \in Threads /\ x # Main
      BY <1>2, CoroutineAssumption
         DEF CoroutineInv, CoroutineTypeOK, ThreadsInv, RunningIs, Threads
    <3>3. ASSUME status[c] = "suspended", stack'[c] = stack[c]
          PROVE  stack'[c][i].op \notin {"native", "load", "resume"}
      BY <1>2, <3>1, <3>3 DEF NoYieldAcrossNative
    <3>4. CASE Within
      <4>1. UNCHANGED <<status, running>> /\ \A t \in Threads : t # running => stack'[t] = stack[t]
        BY <1>2, <3>4, WithinStays
      <4>2. status[c] = "suspended" /\ c # running
        BY <3>2, <4>1
      <4> QED
        BY <3>2, <3>3, <4>1, <4>2
    <3>5. ASSUME NEW x \in Coros, Resume(x)
          PROVE  stack'[c][i].op \notin {"native", "load", "resume"}
      <4>1. status' = [y \in Coros |-> IF y = x THEN "running"
                                       ELSE IF y = running THEN "normal" ELSE status[y]]
        BY <3>5 DEF Resume
      <4>2. c # x /\ c # running /\ status[c] = "suspended"
        BY <4>1
      <4>3. stack'[c] = stack[c]
        BY <3>2, <3>5, <4>2 DEF Resume
      <4> QED
        BY <3>3, <4>2, <4>3
    <3>6. ASSUME NEW x \in Coros, Close(x)
          PROVE  stack'[c][i].op \notin {"native", "load", "resume"}
      <4>1. c # x /\ status[c] = "suspended"
        BY <3>2, <3>6 DEF Close
      <4>2. stack'[c] = stack[c]
        BY <3>2, <3>6, <4>1 DEF Close
      <4> QED
        BY <3>3, <4>1, <4>2
    <3>7. CASE Yield \/ BodyReturns \/ BodyFails \/ BodyClosesItself
      <4>1. /\ running # Main
            /\ \A t \in Threads : t # Resumer /\ t # running => stack'[t] = stack[t]
            /\ \E st \in {"suspended", "dead"} :
                  status' = [y \in Coros |-> IF y = running THEN st
                                             ELSE IF y = Resumer THEN "running" ELSE status[y]]
        BY <1>2, <3>7, GivesBack
      <4>2. CASE c # running
        BY <3>2, <3>3, <4>1, <4>2
      <4>3. CASE c = running /\ ~Yield
        <5>1. PICK u, f : GoBack(u, f, "dead")
          BY <3>7, <4>3 DEF BodyReturns, BodyFails, BodyClosesItself
        <5>2. status'[running] = "dead"
          BY <4>3, <5>1 DEF GoBack
        <5> QED
          BY <4>3, <5>2
      <4>4. CASE c = running /\ Yield
        <5>1. /\ cf = running /\ stack[running] \in Seq(Activation)
              /\ frames[running] = FramesOf(stack[running])
          BY <1>2, <3>1, RunningThread
        <5>2. \A k \in DOMAIN FramesOf(stack[running]) : FramesOf(stack[running])[k] # "native"
          BY <4>4, <5>1 DEF Yield, Yieldable
        <5>3. \A k \in 1..Len(stack[running]) :
                 stack[running][k].op \notin {"native", "load", "resume"}
          BY <5>1, <5>2, NativeShows
        <5>4. PICK r : r = Resumer
          OBVIOUS
        <5>5. /\ stack' = [stack EXCEPT ![r] = Front(@), ![running] = Append(stack[running], Yielded)]
              /\ running \in Threads
          BY <1>2, <4>4, <5>4, RunningThread DEF Yield, GoBack
        <5>6. stack'[c] = Append(stack[running], Yielded)
          BY <3>2, <4>4, <5>5
        <5>7. Yielded \in Activation /\ Yielded.op = "yield"
          BY DEF Yielded, Activation
        <5>8. PICK s \in Seq(Activation), a \in Activation :
                 s = stack[running] /\ a = Yielded /\ stack'[c] = Append(s, a)
          BY <5>1, <5>6, <5>7
        <5>9. i \in 1..Len(s) \/ (i = Len(s) + 1 /\ Append(s, a)[i] = a)
          BY <5>8
        <5>10. i \in 1..Len(s) => Append(s, a)[i] = s[i]
          OBVIOUS
        <5> QED
          BY <5>3, <5>7, <5>8, <5>9, <5>10
      <4> QED
        BY <4>2, <4>3, <4>4
    <3> QED
      BY <2>2, <3>4, <3>5, <3>6, <3>7 DEF Next, Within
  <2> QED
    BY <1>2, <2>1, <2>2
<1> QED
  BY <1>1, <1>2, CoroutineInvariant, PTL DEF Spec
=============================================================================
