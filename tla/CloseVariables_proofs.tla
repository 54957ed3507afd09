----------------------- MODULE CloseVariables_proofs -----------------------
(***************************************************************************)
(* Proofs about CloseVariables: what is unwound leaves nothing behind, for *)
(* any number of variables and errors, any depth, and handlers that fail   *)
(* inside handlers.                                                        *)
(***************************************************************************)
EXTENDS CloseVariables, SequenceTheorems, WellFoundedInduction, TLAPS

(* Induction: a set of numbers that has 0 and every successor has them all, *)
(* for otherwise there would be a least one outside it.                     *)
LEMMA LeastNumber ==
  ASSUME NEW T \in SUBSET Nat, T # {}
  PROVE  \E n \in T : \A m \in T : n <= m
<1>1. PICK x \in T : \A y \in T : ~(<<y, x>> \in OpToRel(<, Nat))
  BY NatLessThanWellFounded, WFMin
<1>2. \A y \in T : y < x => <<y, x>> \in OpToRel(<, Nat)
  BY Zenon DEF OpToRel
<1>3. \A y \in T : ~(y < x)
  BY <1>1, <1>2, Zenon
<1>4. x \in Nat /\ \A y \in T : y \in Nat
  OBVIOUS
<1> QED
  BY <1>3, <1>4

LEMMA AllNumbers ==
  ASSUME NEW T, 0 \in T, \A n \in T : n \in Nat => n + 1 \in T
  PROVE  Nat \subseteq T
<1> SUFFICES ASSUME Nat \ T # {} PROVE FALSE
  OBVIOUS
<1>1. Nat \ T \in SUBSET Nat
  OBVIOUS
<1>2. PICK n \in Nat \ T : \A m \in Nat \ T : n <= m
  BY <1>1, LeastNumber, Zenon
<1>3. n # 0 /\ n - 1 \in Nat
  BY <1>2
<1>4. n - 1 \in T
  BY <1>2, <1>3
<1>5. (n - 1) + 1 = n
  BY <1>2
<1> QED
  BY <1>2, <1>3, <1>4, <1>5

-----------------------------------------------------------------------------
(* Prefixes.                                                               *)

LEMMA PrefixIs ==
  ASSUME NEW X, NEW s \in Seq(X), NEW k \in 0..Len(s)
  PROVE  /\ SubSeq(s, 1, k) \in Seq(X) /\ Len(SubSeq(s, 1, k)) = k
         /\ \A i \in 1..k : SubSeq(s, 1, k)[i] = s[i]
         /\ DOMAIN SubSeq(s, 1, k) = 1..k /\ DOMAIN s = 1..Len(s)
<1>1. \A i \in 1..k : s[i] \in X
  BY ElementOfSeq
<1> QED
  BY <1>1

LEMMA PrefixOfPrefix ==
  ASSUME NEW X, NEW s \in Seq(X), NEW k \in 0..Len(s), NEW j \in 0..k
  PROVE  SubSeq(SubSeq(s, 1, k), 1, j) = SubSeq(s, 1, j)
<1>1. /\ SubSeq(s, 1, k) \in Seq(X) /\ Len(SubSeq(s, 1, k)) = k
      /\ \A i \in 1..k : SubSeq(s, 1, k)[i] = s[i]
  BY PrefixIs
<1>2. /\ SubSeq(s, 1, j) \in Seq(X) /\ Len(SubSeq(s, 1, j)) = j
      /\ \A i \in 1..j : SubSeq(s, 1, j)[i] = s[i]
  BY PrefixIs
<1> DEFINE u == SubSeq(s, 1, k)
<1>3. /\ SubSeq(u, 1, j) \in Seq(X) /\ Len(SubSeq(u, 1, j)) = j
      /\ \A i \in 1..j : SubSeq(u, 1, j)[i] = u[i]
  <2>1. u \in Seq(X) /\ j \in 0..Len(u)
    BY <1>1
  <2> HIDE DEF u
  <2> QED
    BY <2>1, PrefixIs
<1>4. \A i \in 1..j : SubSeq(u, 1, j)[i] = SubSeq(s, 1, j)[i]
  BY <1>1, <1>2, <1>3
<1> HIDE DEF u
<1>5. SubSeq(u, 1, j) = SubSeq(s, 1, j)
  BY <1>2, <1>3, <1>4, SeqEqual
<1> QED
  BY <1>5 DEF u

LEMMA PrefixOfAppend ==
  ASSUME NEW X, NEW s \in Seq(X), NEW a \in X, NEW k \in 0..Len(s)
  PROVE  SubSeq(Append(s, a), 1, k) = SubSeq(s, 1, k)
<1> DEFINE t == Append(s, a)
<1>1. t \in Seq(X) /\ k \in 0..Len(t) /\ \A i \in 1..k : t[i] = s[i]
  OBVIOUS
<1> HIDE DEF t
<1>2. /\ SubSeq(t, 1, k) \in Seq(X) /\ Len(SubSeq(t, 1, k)) = k
      /\ \A i \in 1..k : SubSeq(t, 1, k)[i] = t[i]
  BY <1>1, PrefixIs
<1>3. /\ SubSeq(s, 1, k) \in Seq(X) /\ Len(SubSeq(s, 1, k)) = k
      /\ \A i \in 1..k : SubSeq(s, 1, k)[i] = s[i]
  BY PrefixIs
<1>4. SubSeq(t, 1, k) = SubSeq(s, 1, k)
  BY <1>1, <1>2, <1>3, SeqEqual
<1> QED
  BY <1>4 DEF t

LEMMA PrefixAppend ==
  ASSUME NEW X, NEW s \in Seq(X), NEW k \in 1..Len(s)
  PROVE  SubSeq(s, 1, k) = Append(SubSeq(s, 1, k - 1), s[k])
<1> DEFINE u == SubSeq(s, 1, k)
           v == SubSeq(s, 1, k - 1)
           w == Append(v, s[k])
<1>1. u \in Seq(X) /\ Len(u) = k /\ \A i \in 1..k : u[i] = s[i]
  BY PrefixIs
<1>2. v \in Seq(X) /\ Len(v) = k - 1 /\ \A i \in 1..(k - 1) : v[i] = s[i]
  <2>1. k - 1 \in 0..Len(s)
    OBVIOUS
  <2> QED
    BY <2>1, PrefixIs
<1>3. s[k] \in X
  OBVIOUS
<1> HIDE DEF u, v
<1>4. /\ w \in Seq(X) /\ Len(w) = k /\ w[k] = s[k]
      /\ \A i \in 1..(k - 1) : w[i] = v[i]
  BY <1>2, <1>3
<1> HIDE DEF w
<1>5. \A i \in 1..k : u[i] = w[i]
  <2> TAKE i \in 1..k
  <2>1. i = k \/ i \in 1..(k - 1)
    OBVIOUS
  <2> QED
    BY <2>1, <1>1, <1>2, <1>4
<1>6. u = w
  BY <1>1, <1>4, <1>5, SeqEqual
<1> QED
  BY <1>6 DEF u, v, w

(* A sequence is its front and its last element.                           *)
LEMMA FrontLast ==
  ASSUME NEW X, NEW s \in Seq(X), s # <<>>
  PROVE  /\ s = Append(Front(s), Last(s)) /\ Front(s) \in Seq(X) /\ Last(s) \in X
         /\ Len(s) \in Nat \ {0} /\ Len(Front(s)) = Len(s) - 1
         /\ Front(s) = SubSeq(s, 1, Len(s) - 1)
<1>1. Len(s) \in Nat \ {0}
  BY EmptySeq
<1>2. SubSeq(s, 1, Len(s)) = s
  BY SubSeqFull
<1>3. SubSeq(s, 1, Len(s)) = Append(SubSeq(s, 1, Len(s) - 1), s[Len(s)])
  <2>1. Len(s) \in 1..Len(s)
    BY <1>1
  <2> QED
    BY <2>1, PrefixAppend
<1>4. s[Len(s)] \in X
  BY <1>1
<1>5. Len(s) - 1 \in 0..Len(s)
  BY <1>1
<1>6. SubSeq(s, 1, Len(s) - 1) \in Seq(X) /\ Len(SubSeq(s, 1, Len(s) - 1)) = Len(s) - 1
  BY <1>5, PrefixIs
<1> QED
  BY <1>1, <1>2, <1>3, <1>4, <1>6 DEF Front, Last

LEMMA AppendIs ==
  ASSUME NEW X, NEW s \in Seq(X), NEW a \in X
  PROVE  /\ Append(s, a) \in Seq(X) /\ Append(s, a) # <<>> /\ s \o <<a>> = Append(s, a)
         /\ Front(Append(s, a)) = s /\ Last(Append(s, a)) = a
         /\ SubSeq(Append(s, a), 1, Len(s)) = s /\ Len(Append(s, a)) = Len(s) + 1
<1> DEFINE t == Append(s, a)
<1>1. t \in Seq(X) /\ t # <<>> /\ Len(t) = Len(s) + 1 /\ Len(s) \in Nat
      /\ t[Len(s) + 1] = a
  BY AppendProperties
<1>2. SubSeq(t, 1, Len(s)) = SubSeq(s, 1, Len(s))
  <2>1. Len(s) \in 0..Len(s)
    OBVIOUS
  <2> QED
    BY <2>1, PrefixOfAppend
<1>3. SubSeq(s, 1, Len(s)) = s
  BY SubSeqFull
<1>4. s \o <<a>> = t
  BY AppendIsConcat
<1> HIDE DEF t
<1>5. (Len(s) + 1) - 1 = Len(s)
  BY <1>1
<1>6. Front(t) = s /\ Last(t) = a /\ SubSeq(t, 1, Len(s)) = s
  BY <1>1, <1>2, <1>3, <1>5 DEF Front, Last
<1> QED
  BY <1>1, <1>4, <1>6 DEF t

-----------------------------------------------------------------------------
(* The activations, by what they are doing.                                *)
LuaActs == [op : {"lua"}, f : Id]
Bodies  == [op : {"pcall"}, n : Nat, d : Nat, ph : {"body"}, err : {None}]
Unwinds == [op : {"pcall"}, n : Nat, d : Nat, ph : {"unwind"}, err : Errs]
Closes  == [op : {"close"}, f : Id, keep : Nat, how : {"block", "return", "error"},
            e : Errs \cup {None}, n : Nat, d : Nat, ph : {"next", "body"},
            err : {None}, j : Nat]
Lefts   == [op : {"close"}, f : Id, keep : Nat, how : {"block", "return", "error"},
            e : Errs \cup {None}, n : Nat, d : Nat, ph : {"left"},
            err : Errs, j : Nat]
Acts    == LuaActs \cup Bodies \cup Unwinds \cup Closes \cup Lefts

(* What an activation a stands on: the one below it, b.                    *)
Sits(b, a) ==
    \/ a.op = "lua" /\ (b.op = "lua" \/ b.ph = "body")
    \/ a.op = "pcall" /\ b.op = "lua"
    \/ a.op = "close" /\ a.how # "error" /\ b.op = "lua" /\ b.f = a.f
    \/ a.op = "close" /\ a.how = "error" /\ b.op = "pcall" /\ b.ph = "unwind"
    \/ a.op = "close" /\ a.how = "error" /\ b.op = "close" /\ b.ph = "left"

(* No protected call among the first i is unwinding.                       *)
Calm(h, i) == \A k \in 1..i : h[k].op = "pcall" => h[k].ph = "body"

(* lev[i] is the number of frames that the first i activations stand on: a *)
(* function has its frame there; what runs under it saved that number, and *)
(* the depth, which is the same number until something is unwound.         *)
Fits(h, i, lev, fr) ==
    /\ i = 1 => h[i].op = "lua"
    /\ i > 1 => Sits(h[i - 1], h[i])
    /\ h[i].op = "lua" => lev[i] = lev[i - 1] + 1 /\ fr[lev[i]] = h[i].f
    /\ h[i].op # "lua" => /\ lev[i] = h[i].n /\ h[i].n <= h[i].d
                          /\ Calm(h, i - 1) => h[i].d = h[i].n
    /\ h[i].op = "pcall" => lev[i] = lev[i - 1]
    /\ h[i].op = "close" => /\ h[i].how # "error" => lev[i] = lev[i - 1]
                            /\ h[i].how = "return" => i > 2
                            /\ h[i].how # "block" => h[i].keep = 0
                            /\ h[i].how = "error" => h[i].e \in Errs

(* A failed handler's frames are closed from the innermost out; the one    *)
(* above the finger is being closed by the activation above.               *)
Closing(h, i, fr, tb) ==
    h[i].op = "close" /\ h[i].ph = "left" =>
        /\ h[i].j < h[i + 1].n /\ h[i + 1].f = fr[h[i].j + 1]
        /\ \A k \in (h[i].j + 2)..h[i + 1].n : tb[fr[k]] = <<>>

Stands(h, fr, tb, lev) ==
    /\ h \in Seq(Acts)
    /\ lev \in [0..Len(h) -> Nat] /\ lev[0] = 0
    /\ \A i, k \in 0..Len(h) : k <= i => lev[k] <= lev[i]
    /\ \A i \in 1..Len(h) : Fits(h, i, lev, fr)
    /\ \A i \in 1..Len(h) : i < Len(h) => Closing(h, i, fr, tb)

StandsOn(h, fr, tb, n) == \E lev : Stands(h, fr, tb, lev) /\ lev[Len(h)] = n

(* The innermost activation a, which stands on n frames.                   *)
TopFits(a, n, fr, tb) ==
    /\ n <= Len(fr)
    /\ a.op = "lua" => Len(fr) = n
    /\ a.op # "lua" => a.ph # "body"
    /\ a.op = "close" /\ a.ph = "next" =>
          /\ a.e = None => Len(fr) = n
          /\ \A k \in (n + 1)..Len(fr) : tb[fr[k]] = <<>>
    /\ a.op = "close" /\ a.ph = "left" =>
          /\ a.j <= Len(fr)
          /\ \A k \in (a.j + 1)..Len(fr) : tb[fr[k]] = <<>>

Distinct(fr) == \A i, k \in 1..Len(fr) : fr[i] = fr[k] => i = k

(* A frame is on I.frames, or something on the host's stack is about it.   *)
OnFrames(fr, f)  == \E k \in 1..Len(fr) : fr[k] = f
OnHost(h, f)     == \E i \in 1..Len(h) : h[i].op # "pcall" /\ h[i].f = f
Known(h, fr, f)  == OnFrames(fr, f) \/ OnHost(h, f)
Forgets(h, fr, tb) == \A f \in Id : ~Known(h, fr, f) => tb[f] = <<>>

Deep(h, fr, d) == Len(fr) <= d /\ (Calm(h, Len(h)) => d = Len(fr))

Basics(fr, tb, d, g) == /\ fr \in Seq(Id) /\ tb \in [Id -> Seq(Vars)]
                        /\ d \in Nat /\ g \in Errs \cup {None}

CloseInv ==
    /\ Basics(frames, tbc, depth, got)
    /\ host # <<>>
    /\ \E n : StandsOn(host, frames, tbc, n) /\ TopFits(host[Len(host)], n, frames, tbc)
    /\ Distinct(frames)
    /\ Forgets(host, frames, tbc)
    /\ Deep(host, frames, depth)

LEMMA IdIs == MaxDepth \in Nat \ {0} /\ None \notin Errs /\ 1 \in Id /\ Id \subseteq Nat
BY CloseAssumption DEF Id

LEMMA ActIs ==
  ASSUME NEW a \in Acts
  PROVE  /\ a.op \in {"lua", "pcall", "close"}
         /\ a.op = "lua" => a \in LuaActs /\ a.f \in Id /\ a = Lua(a.f)
         /\ a.op = "pcall" => /\ a.n \in Nat /\ a.d \in Nat /\ a.ph \in {"body", "unwind"}
                              /\ a.ph = "body" => a \in Bodies /\ a.err = None
                              /\ a.ph = "unwind" => a \in Unwinds /\ a.err \in Errs
         /\ a.op = "close" => /\ a.f \in Id /\ a.keep \in Nat
                              /\ a.how \in {"block", "return", "error"}
                              /\ a.e \in Errs \cup {None} /\ a.n \in Nat /\ a.d \in Nat
                              /\ a.j \in Nat /\ a.ph \in {"next", "body", "left"}
                              /\ a.ph # "left" => a \in Closes /\ a.err = None
                              /\ a.ph = "left" => a \in Lefts /\ a.err \in Errs
<1>1. CASE a \in LuaActs
  BY <1>1 DEF LuaActs, Lua
<1>2. CASE a \in Bodies
  BY <1>2 DEF Bodies
<1>3. CASE a \in Unwinds
  BY <1>3 DEF Unwinds
<1>4. CASE a \in Closes
  BY <1>4 DEF Closes
<1>5. CASE a \in Lefts
  BY <1>5 DEF Lefts
<1> QED
  BY <1>1, <1>2, <1>3, <1>4, <1>5 DEF Acts

-----------------------------------------------------------------------------
(* Taking activations off the stack, and putting one on it.                *)

(* Up to n the frames are the same, and what was closed there still is.    *)
Agree(fr, fr2, n)       == \A k \in 1..n : fr2[k] = fr[k]
StayClosed(fr, tb, tb2, n) == \A k \in 1..n : tb[fr[k]] = <<>> => tb2[fr[k]] = <<>>

LEMMA Cut ==
  ASSUME NEW h, NEW fr, NEW tb, NEW lev, Stands(h, fr, tb, lev),
         NEW m \in 0..Len(h), NEW fr2, NEW tb2,
         Agree(fr, fr2, lev[m]), StayClosed(fr, tb, tb2, lev[m])
  PROVE  StandsOn(SubSeq(h, 1, m), fr2, tb2, lev[m])
<1> DEFINE h2 == SubSeq(h, 1, m)
           lev2 == [i \in 0..m |-> lev[i]]
<1>1. /\ h \in Seq(Acts) /\ lev \in [0..Len(h) -> Nat] /\ lev[0] = 0
      /\ \A i, k \in 0..Len(h) : k <= i => lev[k] <= lev[i]
      /\ \A i \in 1..Len(h) : Fits(h, i, lev, fr)
      /\ \A i \in 1..Len(h) : i < Len(h) => Closing(h, i, fr, tb)
  BY DEF Stands
<1>2. /\ h2 \in Seq(Acts) /\ Len(h2) = m /\ \A i \in 1..m : h2[i] = h[i]
      /\ Len(h) \in Nat /\ m <= Len(h) /\ m \in Nat
  BY <1>1, PrefixIs
<1>3. \A i \in 0..m : lev2[i] = lev[i] /\ lev[i] \in Nat /\ lev[i] <= lev[m]
  BY <1>1, <1>2
<1>4. lev2 \in [0..m -> Nat]
  BY <1>3
<1> HIDE DEF h2, lev2
<1>5. ASSUME NEW i \in 1..m PROVE Fits(h2, i, lev2, fr2)
  <2>1. i \in 1..Len(h) /\ i \in 0..m /\ i - 1 \in 0..m
    BY <1>2
  <2>2. Fits(h, i, lev, fr)
    BY <1>1, <2>1
  <2>3. h[i].op = "lua" => fr2[lev[i]] = fr[lev[i]]
    <3>1. h[i].op = "lua" => lev[i] = lev[i - 1] + 1
      BY <2>2 DEF Fits
    <3> QED
      BY <3>1, <2>1, <1>3 DEF Agree
  <2>4. /\ h2[i] = h[i] /\ lev2[i] = lev[i] /\ lev2[i - 1] = lev[i - 1]
        /\ i > 1 => h2[i - 1] = h[i - 1]
    BY <1>2, <1>3, <2>1
  <2>5. Calm(h2, i - 1) => Calm(h, i - 1)
    BY <1>2 DEF Calm
  <2> QED
    BY <2>2, <2>3, <2>4, <2>5 DEF Fits
<1>6. ASSUME NEW i \in 1..m, i < m PROVE Closing(h2, i, fr2, tb2)
  <2>1. i \in 1..Len(h) /\ i < Len(h) /\ i + 1 \in 1..m /\ i + 1 \in 1..Len(h)
        /\ h2[i] = h[i] /\ h2[i + 1] = h[i + 1] /\ i + 1 > 1
    BY <1>2, <1>6
  <2>2. Closing(h, i, fr, tb) /\ Fits(h, i + 1, lev, fr)
    BY <1>1, <2>1
  <2> SUFFICES ASSUME h[i].op = "close", h[i].ph = "left"
               PROVE  /\ h[i].j < h[i + 1].n /\ h[i + 1].f = fr2[h[i].j + 1]
                      /\ \A k \in (h[i].j + 2)..h[i + 1].n : tb2[fr2[k]] = <<>>
    BY <2>1 DEF Closing
  <2>3. Sits(h[i], h[i + 1])
    <3>1. (i + 1) - 1 = i
      OBVIOUS
    <3> QED
      BY <2>1, <2>2, <3>1 DEF Fits
  <2>4. h[i] \in Acts /\ h[i + 1] \in Acts
    BY <1>1, <2>1, ElementOfSeq
  <2>5. h[i + 1].op = "close"
    BY <2>3, <2>4, ActIs DEF Sits
  <2>6. h[i + 1].n = lev[i + 1] /\ h[i].j \in Nat /\ h[i + 1].n \in Nat
    BY <2>2, <2>4, <2>5, ActIs DEF Fits
  <2>7. h[i + 1].n <= lev[m] /\ lev[m] \in Nat
    BY <2>1, <2>6, <1>2, <1>3
  <2>8. /\ h[i].j < h[i + 1].n /\ h[i + 1].f = fr[h[i].j + 1]
        /\ \A k \in (h[i].j + 2)..h[i + 1].n : tb[fr[k]] = <<>>
    BY <2>2 DEF Closing
  <2>9. \A k \in (h[i].j + 1)..h[i + 1].n : k \in 1..lev[m]
    BY <2>6, <2>7
  <2>10. h[i].j + 1 \in (h[i].j + 1)..h[i + 1].n
    BY <2>6, <2>8
  <2>11. \A k \in (h[i].j + 2)..h[i + 1].n : k \in 1..lev[m]
    BY <2>6, <2>7
  <2> QED
    BY <2>8, <2>9, <2>10, <2>11 DEF Agree, StayClosed
<1>7. \A i, k \in 0..m : k <= i => lev2[k] <= lev2[i]
  BY <1>1, <1>2, <1>3
<1>8. lev2[0] = 0
  BY <1>1, <1>2, <1>3
<1>9. Stands(h2, fr2, tb2, lev2)
  BY <1>2, <1>4, <1>5, <1>6, <1>7, <1>8 DEF Stands
<1> QED
  BY <1>2, <1>3, <1>9 DEF h2, StandsOn

(* What a, put on top of h, has to stand on: l frames, or n in the end.    *)
Pushable(h, a, l, n, fr, tb) ==
    /\ l <= n
    /\ h = <<>> => a.op = "lua"
    /\ h # <<>> => Sits(h[Len(h)], a)
    /\ a.op = "lua" => n = l + 1 /\ fr[n] = a.f
    /\ a.op # "lua" => n = a.n /\ a.n <= a.d /\ (Calm(h, Len(h)) => a.d = a.n)
    /\ a.op = "pcall" => n = l
    /\ a.op = "close" => /\ a.how # "error" => n = l
                         /\ a.how = "return" => Len(h) > 1
                         /\ a.how # "block" => a.keep = 0
                         /\ a.how = "error" => a.e \in Errs
    /\ h # <<>> /\ h[Len(h)].op = "close" /\ h[Len(h)].ph = "left" =>
          /\ h[Len(h)].j < a.n /\ a.f = fr[h[Len(h)].j + 1]
          /\ \A k \in (h[Len(h)].j + 2)..a.n : tb[fr[k]] = <<>>

LEMMA Push ==
  ASSUME NEW h, NEW fr, NEW tb, NEW l, StandsOn(h, fr, tb, l),
         NEW a \in Acts, NEW n \in Nat, Pushable(h, a, l, n, fr, tb)
  PROVE  StandsOn(Append(h, a), fr, tb, n)
<1> PICK lev : Stands(h, fr, tb, lev) /\ lev[Len(h)] = l
  BY DEF StandsOn
<1> DEFINE h2 == Append(h, a)
           N  == Len(h)
           lev2 == [i \in 0..(N + 1) |-> IF i <= N THEN lev[i] ELSE n]
<1>1. /\ h \in Seq(Acts) /\ lev \in [0..N -> Nat] /\ lev[0] = 0
      /\ \A i, k \in 0..N : k <= i => lev[k] <= lev[i]
      /\ \A i \in 1..N : Fits(h, i, lev, fr)
      /\ \A i \in 1..N : i < N => Closing(h, i, fr, tb)
  BY DEF Stands
<1>2. /\ h2 \in Seq(Acts) /\ Len(h2) = N + 1 /\ \A i \in 1..N : h2[i] = h[i]
      /\ h2[N + 1] = a /\ N \in Nat /\ (h = <<>> <=> N = 0)
  BY <1>1, AppendProperties, EmptySeq
<1>3. (\A i \in 0..N : lev2[i] = lev[i]) /\ lev2[N + 1] = n
  BY <1>2
<1>4. lev2 \in [0..(N + 1) -> Nat]
  BY <1>1, <1>2
<1> HIDE DEF h2, lev2, N
<1>5. ASSUME NEW i \in 1..(N + 1) PROVE Fits(h2, i, lev2, fr)
  <2>1. CASE i \in 1..N
    <3>1. /\ h2[i] = h[i] /\ lev2[i] = lev[i] /\ lev2[i - 1] = lev[i - 1]
          /\ i > 1 => h2[i - 1] = h[i - 1]
      BY <1>2, <1>3, <2>1
    <3>2. Calm(h2, i - 1) => Calm(h, i - 1)
      BY <1>2, <2>1 DEF Calm
    <3> QED
      BY <1>1, <2>1, <3>1, <3>2 DEF Fits
  <2>2. CASE i = N + 1
    <3>1. /\ h2[i] = a /\ lev2[i] = n /\ lev2[i - 1] = lev[N] /\ i - 1 = N
          /\ i > 1 => h # <<>> /\ h2[i - 1] = h[N]
          /\ i = 1 => h = <<>>
          /\ i > 2 <=> N > 1
      BY <1>2, <1>3, <2>2
    <3>2. Calm(h2, i - 1) => Calm(h, N)
      BY <1>2, <3>1 DEF Calm
    <3> QED
      BY <3>1, <3>2 DEF Fits, Pushable, N
  <2> QED
    BY <1>2, <2>1, <2>2
<1>6. ASSUME NEW i \in 1..(N + 1), i < N + 1 PROVE Closing(h2, i, fr, tb)
  <2>1. CASE i < N
    <3>1. i \in 1..N /\ h2[i] = h[i] /\ h2[i + 1] = h[i + 1]
      BY <1>2, <2>1
    <3> QED
      BY <1>1, <2>1, <3>1 DEF Closing
  <2>2. CASE i = N
    <3>1. i \in 1..N /\ h2[i] = h[N] /\ h2[i + 1] = a /\ h # <<>>
      BY <1>2, <2>2
    <3> QED
      BY <2>2, <3>1 DEF Closing, Pushable, N
  <2> QED
    BY <1>2, <1>6, <2>1, <2>2
<1>7. \A i, k \in 0..(N + 1) : k <= i => lev2[k] <= lev2[i]
  <2>1. lev[N] <= n /\ \A k \in 0..N : lev[k] <= lev[N] /\ lev[k] \in Nat
    BY <1>1, <1>2 DEF Pushable, N
  <2> TAKE i, k \in 0..(N + 1)
  <2>2. i \in 0..N \/ i = N + 1
    BY <1>2
  <2>3. k \in 0..N \/ k = N + 1
    BY <1>2
  <2>4. CASE i \in 0..N
    BY <1>1, <1>2, <1>3, <2>3, <2>4
  <2>5. CASE i = N + 1
    BY <1>2, <1>3, <2>1, <2>3, <2>5
  <2> QED
    BY <2>2, <2>4, <2>5
<1>8. lev2[0] = 0
  BY <1>1, <1>2, <1>3
<1>9. Stands(h2, fr, tb, lev2)
  BY <1>2, <1>4, <1>5, <1>6, <1>7, <1>8 DEF Stands
<1> QED
  BY <1>2, <1>3, <1>9 DEF h2, StandsOn

LEMMA CalmAppend ==
  ASSUME NEW h \in Seq(Acts), NEW a \in Acts
  PROVE  Calm(Append(h, a), Len(h) + 1) <=>
           Calm(h, Len(h)) /\ (a.op = "pcall" => a.ph = "body")
<1>1. /\ Len(h) \in Nat /\ Append(h, a)[Len(h) + 1] = a
      /\ \A i \in 1..Len(h) : Append(h, a)[i] = h[i]
  BY AppendProperties
<1>2. \A k \in 1..(Len(h) + 1) : k \in 1..Len(h) \/ k = Len(h) + 1
  BY <1>1
<1>3. \A k \in 1..Len(h) : k \in 1..(Len(h) + 1)
  BY <1>1
<1>4. Len(h) + 1 \in 1..(Len(h) + 1)
  BY <1>1
<1> QED
  BY <1>1, <1>2, <1>3, <1>4 DEF Calm

LEMMA CalmSame ==
  ASSUME NEW h, NEW h2, NEW m \in Nat, \A i \in 1..m : h2[i] = h[i]
  PROVE  Calm(h2, m) <=> Calm(h, m)
BY DEF Calm

(* What the invariant says of the two stacks.                              *)
LEMMA Standing ==
  ASSUME CloseInv
  PROVE  /\ host \in Seq(Acts) /\ Len(host) \in Nat \ {0} /\ host # <<>>
         /\ Top = host[Len(host)] /\ Top \in Acts
         /\ Front(host) = SubSeq(host, 1, Len(host) - 1) /\ Front(host) \in Seq(Acts)
         /\ Len(Front(host)) = Len(host) - 1
         /\ \A i \in 1..(Len(host) - 1) : Front(host)[i] = host[i]
         /\ host = Append(Front(host), Top) /\ DOMAIN host = 1..Len(host)
         /\ \A i \in 1..Len(host) : host[i] \in Acts
         /\ frames \in Seq(Id) /\ Len(frames) \in Nat
         /\ \A k \in 1..Len(frames) : frames[k] \in Id
         /\ tbc \in [Id -> Seq(Vars)] /\ depth \in Nat /\ got \in Errs \cup {None}
<1>1. /\ host # <<>> /\ frames \in Seq(Id) /\ tbc \in [Id -> Seq(Vars)] /\ depth \in Nat
      /\ got \in Errs \cup {None}
  BY DEF CloseInv, Basics
<1>2. host \in Seq(Acts)
  BY DEF CloseInv, StandsOn, Stands
<1>3. /\ host = Append(Front(host), Last(host)) /\ Front(host) \in Seq(Acts)
      /\ Last(host) \in Acts /\ Len(host) \in Nat \ {0}
      /\ Len(Front(host)) = Len(host) - 1
      /\ Front(host) = SubSeq(host, 1, Len(host) - 1)
  BY <1>1, <1>2, FrontLast
<1>4. Top = host[Len(host)]
  BY DEF Top, Last
<1>5. DOMAIN host = 1..Len(host) /\ \A i \in 1..Len(host) : host[i] \in Acts
  BY <1>2, ElementOfSeq, LenProperties
<1>6. \A i \in 1..(Len(host) - 1) : Front(host)[i] = host[i]
  <2>1. Len(host) - 1 \in 0..Len(host)
    BY <1>3
  <2> QED
    BY <1>2, <1>3, <2>1, PrefixIs
<1>7. Len(frames) \in Nat /\ \A k \in 1..Len(frames) : frames[k] \in Id
  BY <1>1, ElementOfSeq, LenProperties
<1> QED
  BY <1>1, <1>2, <1>3, <1>4, <1>5, <1>6, <1>7 DEF Top

LEMMA WithTopIs ==
  ASSUME CloseInv, NEW a \in Acts
  PROVE  WithTop(a) = Append(Front(host), a)
<1> DEFINE u == WithTop(a)
           v == Append(Front(host), a)
           N == Len(host)
<1>1. /\ host \in Seq(Acts) /\ N \in Nat \ {0} /\ Front(host) \in Seq(Acts)
      /\ Len(Front(host)) = N - 1 /\ \A i \in 1..(N - 1) : Front(host)[i] = host[i]
  BY Standing
<1>2. /\ u \in Seq(Acts) /\ Len(u) = N
      /\ \A i \in 1..N : u[i] = IF i = N THEN a ELSE host[i]
  BY <1>1 DEF WithTop
<1>3. /\ v \in Seq(Acts) /\ Len(v) = N /\ v[N] = a
      /\ \A i \in 1..(N - 1) : v[i] = host[i]
  BY <1>1, AppendProperties
<1> HIDE DEF u, v
<1>4. \A i \in 1..N : u[i] = v[i]
  BY <1>1, <1>2, <1>3
<1>5. u = v
  BY <1>2, <1>3, <1>4, SeqEqual
<1> QED
  BY <1>5 DEF u, v

LEMMA InUseIs ==
  ASSUME CloseInv, NEW f
  PROVE  f \in InUse <=> Known(host, frames, f)
<1>1. f \in ToSet(frames) <=> \E k \in 1..Len(frames) : frames[k] = f
  <2>1. DOMAIN frames = 1..Len(frames)
    BY Standing, LenProperties
  <2> QED
    BY <2>1 DEF ToSet
<1>2. DOMAIN host = 1..Len(host)
  BY Standing
<1> QED
  BY <1>1, <1>2 DEF InUse, Known, OnFrames, OnHost

LEMMA OnHostAppend ==
  ASSUME NEW h \in Seq(Acts), NEW a \in Acts, NEW f
  PROVE  OnHost(Append(h, a), f) <=> OnHost(h, f) \/ (a.op # "pcall" /\ a.f = f)
<1>1. /\ Len(h) \in Nat /\ Append(h, a)[Len(h) + 1] = a
      /\ Len(Append(h, a)) = Len(h) + 1
      /\ \A i \in 1..Len(h) : Append(h, a)[i] = h[i]
  BY AppendProperties
<1>2. \A k \in 1..(Len(h) + 1) : k \in 1..Len(h) \/ k = Len(h) + 1
  BY <1>1
<1>3. \A k \in 1..Len(h) : k \in 1..(Len(h) + 1)
  BY <1>1
<1>4. Len(h) + 1 \in 1..(Len(h) + 1)
  BY <1>1
<1> QED
  BY <1>1, <1>2, <1>3, <1>4 DEF OnHost

LEMMA FramesAppend ==
  ASSUME NEW fr \in Seq(Id), NEW g \in Id
  PROVE  /\ Append(fr, g) \in Seq(Id) /\ Len(Append(fr, g)) = Len(fr) + 1
         /\ Append(fr, g)[Len(fr) + 1] = g
         /\ \A k \in 1..Len(fr) : Append(fr, g)[k] = fr[k]
         /\ \A f : OnFrames(Append(fr, g), f) <=> OnFrames(fr, f) \/ f = g
         /\ Distinct(fr) /\ ~OnFrames(fr, g) => Distinct(Append(fr, g))
<1> DEFINE fr2 == Append(fr, g)
<1>1. /\ Len(fr) \in Nat /\ fr2[Len(fr) + 1] = g
      /\ fr2 \in Seq(Id) /\ Len(fr2) = Len(fr) + 1
      /\ \A i \in 1..Len(fr) : fr2[i] = fr[i]
  BY AppendProperties
<1>2. \A k \in 1..(Len(fr) + 1) : k \in 1..Len(fr) \/ k = Len(fr) + 1
  BY <1>1
<1>3. \A k \in 1..Len(fr) : k \in 1..(Len(fr) + 1)
  BY <1>1
<1>4. Len(fr) + 1 \in 1..(Len(fr) + 1)
  BY <1>1
<1> HIDE DEF fr2
<1>5. \A f : OnFrames(fr2, f) <=> OnFrames(fr, f) \/ f = g
  BY <1>1, <1>2, <1>3, <1>4 DEF OnFrames
<1>6. Distinct(fr) /\ ~OnFrames(fr, g) => Distinct(fr2)
  BY <1>1, <1>2, <1>3, <1>4 DEF OnFrames, Distinct
<1> QED
  BY <1>1, <1>5, <1>6 DEF fr2

LEMMA FramesPrefix ==
  ASSUME NEW fr \in Seq(Id), NEW m \in 0..Len(fr)
  PROVE  /\ SubSeq(fr, 1, m) \in Seq(Id) /\ Len(SubSeq(fr, 1, m)) = m
         /\ \A k \in 1..m : SubSeq(fr, 1, m)[k] = fr[k]
         /\ \A f : OnFrames(SubSeq(fr, 1, m), f) => OnFrames(fr, f)
         /\ \A f : OnFrames(fr, f) => \/ OnFrames(SubSeq(fr, 1, m), f)
                                      \/ \E k \in (m + 1)..Len(fr) : fr[k] = f
         /\ Distinct(fr) => Distinct(SubSeq(fr, 1, m))
<1> DEFINE fr2 == SubSeq(fr, 1, m)
<1>1. /\ fr2 \in Seq(Id) /\ Len(fr2) = m /\ \A k \in 1..m : fr2[k] = fr[k]
      /\ Len(fr) \in Nat
  BY PrefixIs, LenProperties
<1>2. \A k \in 1..m : k \in 1..Len(fr)
  BY <1>1
<1>3. \A k \in 1..Len(fr) : k \in 1..m \/ k \in (m + 1)..Len(fr)
  BY <1>1
<1> HIDE DEF fr2
<1>4. \A f : OnFrames(fr2, f) => OnFrames(fr, f)
  BY <1>1, <1>2 DEF OnFrames
<1>5. \A f : OnFrames(fr, f) => \/ OnFrames(fr2, f)
                                \/ \E k \in (m + 1)..Len(fr) : fr[k] = f
  BY <1>1, <1>3 DEF OnFrames
<1>6. Distinct(fr) => Distinct(fr2)
  BY <1>1, <1>2 DEF Distinct
<1> QED
  BY <1>1, <1>4, <1>5, <1>6 DEF fr2

LEMMA Kept ==
  ASSUME NEW h, NEW fr, NEW tb, NEW n, StandsOn(h, fr, tb, n), NEW fr2, NEW tb2,
         Agree(fr, fr2, n), StayClosed(fr, tb, tb2, n)
  PROVE  StandsOn(h, fr2, tb2, n)
<1>1. PICK lev : Stands(h, fr, tb, lev) /\ lev[Len(h)] = n
  BY DEF StandsOn
<1>2. h \in Seq(Acts) /\ Len(h) \in 0..Len(h)
  BY <1>1, LenProperties DEF Stands
<1>3. SubSeq(h, 1, Len(h)) = h
  BY <1>2, SubSeqFull
<1>4. StandsOn(SubSeq(h, 1, Len(h)), fr2, tb2, lev[Len(h)])
  BY <1>1, <1>2, Cut, Zenon
<1> QED
  BY <1>1, <1>3, <1>4

LEMMA LuaIs == \A f \in Id : Lua(f) \in Acts /\ Lua(f).op = "lua" /\ Lua(f).f = f
BY DEF Lua, Acts, LuaActs

LEMMA PcallIs ==
  ASSUME Len(frames) \in Nat, depth \in Nat
  PROVE  /\ Pcall \in Acts /\ Pcall.op = "pcall" /\ Pcall.n = Len(frames)
         /\ Pcall.d = depth /\ Pcall.ph = "body"
BY DEF Pcall, Acts, Bodies

LEMMA CloseOfIs ==
  ASSUME NEW f \in Id, NEW keep \in Nat, NEW how \in {"block", "return", "error"},
         NEW e \in Errs \cup {None}, NEW n \in Nat, depth \in Nat,
         NEW a, a = CloseOf(f, keep, how, e, n)
  PROVE  /\ a \in Acts /\ a.op = "close" /\ a.f = f /\ a.keep = keep /\ a.how = how
         /\ a.e = e /\ a.n = n /\ a.d = depth /\ a.ph = "next"
<1>1. CloseOf(f, keep, how, e, n) \in Closes
  BY DEF CloseOf, Closes
<1> QED
  BY <1>1 DEF CloseOf, Acts

-----------------------------------------------------------------------------
LEMMA InitClose == Init => CloseInv
<1> SUFFICES ASSUME Init PROVE CloseInv
  OBVIOUS
<1>1. host = <<Lua(1)>> /\ frames = <<1>> /\ depth = 1 /\ got = None
      /\ tbc = [f \in Id |-> <<>>]
  BY DEF Init
<1>2. Lua(1) \in Acts /\ Lua(1).op = "lua" /\ Lua(1).f = 1 /\ 1 \in Id
  BY LuaIs, IdIs
<1> DEFINE a == Lua(1)
           lev0 == [i \in 0..0 |-> 0]
<1> HIDE DEF a
<1>3. StandsOn(<<>>, frames, tbc, 0)
  <2>1. Stands(<<>>, frames, tbc, lev0) /\ lev0[Len(<<>>)] = 0
    BY DEF Stands
  <2> HIDE DEF lev0
  <2> QED
    BY <2>1 DEF StandsOn
<1>4. Pushable(<<>>, a, 0, 1, frames, tbc)
  BY <1>1, <1>2 DEF Pushable, a
<1>5. StandsOn(Append(<<>>, a), frames, tbc, 1)
  <2>1. a \in Acts /\ 1 \in Nat
    BY <1>2 DEF a
  <2> QED
    BY <2>1, <1>3, <1>4, Push, Zenon
<1>6. Append(<<>>, a) = <<a>> /\ Len(<<a>>) = 1 /\ <<a>>[1] = a
  OBVIOUS
<1>7. StandsOn(host, frames, tbc, 1) /\ TopFits(host[Len(host)], 1, frames, tbc)
  BY <1>1, <1>2, <1>5, <1>6 DEF TopFits, a
<1>8. Basics(frames, tbc, depth, got) /\ host # <<>> /\ Distinct(frames)
  BY <1>1, <1>2, <1>6 DEF Basics, Distinct, a
<1>9. Forgets(host, frames, tbc)
  BY <1>1 DEF Forgets
<1>10. Deep(host, frames, depth)
  BY <1>1 DEF Deep
<1> QED
  BY <1>7, <1>8, <1>9, <1>10 DEF CloseInv

(* A function is called, under a pcall or not.                             *)
LEMMA CallKeeps == CloseInv /\ Call => CloseInv'
<1> SUFFICES ASSUME CloseInv, Call PROVE CloseInv'
  OBVIOUS
<1>1. PICK f \in Id :
        /\ InGuest /\ Fresh(f)
        /\ \/ host' = Append(host, Lua(f))
           \/ host' = host \o <<Pcall, Lua(f)>>
        /\ frames' = Append(frames, f) /\ depth' = depth + 1
        /\ tbc' = [tbc EXCEPT ![f] = <<>>] /\ got' = got
  BY DEF Call
<1>2. /\ host \in Seq(Acts) /\ Len(host) \in Nat \ {0} /\ host # <<>>
      /\ Top = host[Len(host)] /\ frames \in Seq(Id) /\ Len(frames) \in Nat
      /\ tbc \in [Id -> Seq(Vars)] /\ depth \in Nat /\ got \in Errs \cup {None}
      /\ \A k \in 1..Len(frames) : frames[k] \in Id
  BY Standing
<1>3. PICK n : StandsOn(host, frames, tbc, n) /\ TopFits(host[Len(host)], n, frames, tbc)
  BY DEF CloseInv
<1>4. host[Len(host)].op = "lua" /\ n = Len(frames)
  BY <1>1, <1>2, <1>3 DEF InGuest, TopFits
<1>5. ~Known(host, frames, f)
  BY <1>1, InUseIs DEF Fresh
<1>6. /\ frames' \in Seq(Id) /\ Len(frames') = Len(frames) + 1
      /\ frames'[Len(frames) + 1] = f
      /\ \A k \in 1..Len(frames) : frames'[k] = frames[k]
      /\ \A g : OnFrames(frames', g) <=> OnFrames(frames, g) \/ g = f
      /\ Distinct(frames')
  BY <1>1, <1>2, <1>5, FramesAppend DEF CloseInv, Known
<1>7. /\ tbc' \in [Id -> Seq(Vars)] /\ tbc'[f] = <<>>
      /\ \A g \in Id : tbc[g] = <<>> => tbc'[g] = <<>>
  BY <1>1, <1>2
<1>8. StandsOn(host, frames', tbc', Len(frames))
  <2>1. Agree(frames, frames', n)
    BY <1>4, <1>6 DEF Agree
  <2>2. StayClosed(frames, tbc, tbc', n)
    BY <1>2, <1>4, <1>7 DEF StayClosed
  <2> QED
    BY <1>3, <1>4, <2>1, <2>2, Kept, Zenon
<1>10. Lua(f) \in Acts /\ Lua(f).op = "lua" /\ Lua(f).f = f
  BY LuaIs
<1>11. Calm(host, Len(host)) => depth = Len(frames)
  BY DEF CloseInv, Deep
<1> DEFINE a == Lua(f)
<1> HIDE DEF a
<1>12. ASSUME NEW h \in Seq(Acts), StandsOn(h, frames', tbc', Len(frames)), h # <<>>,
              h[Len(h)].op = "lua" \/ h[Len(h)].ph = "body",
              h[Len(h)] \in Acts,
              host' = Append(h, a), Calm(h, Len(h)) => Calm(host, Len(host)),
              \A g : OnHost(host, g) => OnHost(h, g)
       PROVE  CloseInv'
  <2>1. Pushable(h, a, Len(frames), Len(frames) + 1, frames', tbc')
    BY <1>2, <1>6, <1>10, <1>12, ActIs DEF Pushable, Sits, a
  <2>2. StandsOn(host', frames', tbc', Len(frames) + 1)
    <3>1. Len(frames) + 1 \in Nat /\ a \in Acts
      BY <1>2, <1>10 DEF a
    <3> QED
      BY <3>1, <1>12, <2>1, Push, Zenon
  <2>3. Len(host') = Len(h) + 1 /\ host'[Len(host')] = a /\ host' # <<>>
    BY <1>10, <1>12, AppendProperties DEF a
  <2>4. TopFits(host'[Len(host')], Len(frames) + 1, frames', tbc')
    BY <1>2, <1>6, <1>10, <2>2, <2>3 DEF TopFits, a
  <2>5. Forgets(host', frames', tbc')
    <3> SUFFICES ASSUME NEW g \in Id, ~Known(host', frames', g) PROVE tbc'[g] = <<>>
      BY DEF Forgets
    <3>1. ~OnFrames(frames, g) /\ ~OnHost(h, g)
      BY <1>6, <1>10, <1>12, OnHostAppend DEF Known, a
    <3>2. ~Known(host, frames, g)
      BY <1>12, <3>1 DEF Known
    <3> QED
      BY <1>7, <3>2 DEF CloseInv, Forgets
  <2>6. Deep(host', frames', depth')
    <3>1. Calm(host', Len(h) + 1) <=> Calm(h, Len(h))
      BY <1>10, <1>12, CalmAppend DEF a
    <3>2. Calm(host', Len(host')) => depth = Len(frames)
      BY <3>1, <2>3, <1>11, <1>12
    <3>3. Len(frames) <= depth
      BY DEF CloseInv, Deep
    <3> QED
      BY <1>1, <1>2, <1>6, <3>2, <3>3 DEF Deep
  <2>7. Basics(frames', tbc', depth', got')
    BY <1>1, <1>2, <1>6, <1>7 DEF Basics
  <2> QED
    BY <1>6, <2>2, <2>3, <2>4, <2>5, <2>6, <2>7 DEF CloseInv
<1>13. CASE host' = Append(host, Lua(f))
  BY <1>2, <1>4, <1>8, <1>12, <1>13, Standing DEF a
<1>14. CASE host' = host \o <<Pcall, Lua(f)>>
  <2>1. /\ Pcall \in Acts /\ Pcall.op = "pcall" /\ Pcall.n = Len(frames)
        /\ Pcall.d = depth /\ Pcall.ph = "body"
    BY <1>2, PcallIs
  <2> DEFINE p == Pcall
             h == Append(host, p)
  <2> HIDE DEF p
  <2>2. host' = Append(h, a)
    BY <1>2, <1>10, <1>14, <2>1 DEF a, p
  <2>3. /\ h \in Seq(Acts) /\ h # <<>> /\ Len(h) = Len(host) + 1 /\ h[Len(h)] = p
    BY <1>2, <2>1, AppendProperties DEF p
  <2>4. Pushable(host, p, Len(frames), Len(frames), frames', tbc')
    <3>1. Len(frames) <= depth
      BY DEF CloseInv, Deep
    <3> QED
      BY <1>2, <1>4, <1>11, <2>1, <3>1 DEF Pushable, Sits, p
  <2>5. StandsOn(h, frames', tbc', Len(frames))
    <3>1. p \in Acts /\ Len(frames) \in Nat
      BY <1>2, <2>1 DEF p
    <3> QED
      BY <1>8, <2>4, <3>1, Push, Zenon DEF h
  <2>6. Calm(h, Len(h)) => Calm(host, Len(host))
    BY <1>2, <2>1, <2>3, CalmAppend DEF p
  <2>7. \A g : OnHost(host, g) => OnHost(h, g)
    BY <1>2, <2>1, OnHostAppend DEF p
  <2> HIDE DEF h
  <2> QED
    BY <2>1, <2>2, <2>3, <2>5, <2>6, <2>7, <1>12 DEF p
<1> QED
  BY <1>1, <1>13, <1>14

-----------------------------------------------------------------------------
(* What is on top stands on what is below it.                              *)
LEMMA Unpush ==
  ASSUME NEW h, NEW fr, NEW tb, NEW n, StandsOn(h, fr, tb, n), h # <<>>
  PROVE  /\ n \in Nat
         /\ \E l \in Nat : /\ StandsOn(Front(h), fr, tb, l)
                           /\ Pushable(Front(h), Last(h), l, n, fr, tb)
<1>1. PICK lev : Stands(h, fr, tb, lev) /\ lev[Len(h)] = n
  BY DEF StandsOn
<1> DEFINE N == Len(h)
           h1 == Front(h)
           l == lev[N - 1]
<1>2. h \in Seq(Acts) /\ lev \in [0..N -> Nat] /\ Fits(h, N, lev, fr)
      /\ (N - 1 # 0 => Closing(h, N - 1, fr, tb)) /\ l <= n
      /\ N \in Nat \ {0} /\ N - 1 \in 0..N /\ n \in Nat /\ l \in Nat
  <2>1. h \in Seq(Acts) /\ N \in Nat \ {0}
    BY <1>1, EmptySeq DEF Stands
  <2>2. /\ lev \in [0..N -> Nat] /\ \A i, k \in 0..N : k <= i => lev[k] <= lev[i]
        /\ \A i \in 1..N : Fits(h, i, lev, fr)
        /\ \A i \in 1..N : i < N => Closing(h, i, fr, tb)
    BY <1>1 DEF Stands
  <2>3. N \in 1..N /\ N - 1 \in 0..N /\ N \in 0..N /\ N - 1 <= N /\ N - 1 < N
        /\ (N - 1 # 0 => N - 1 \in 1..N)
    BY <2>1
  <2>4. lev[N] = n
    BY <1>1
  <2> HIDE DEF N
  <2> QED
    BY <2>1, <2>2, <2>3, <2>4
<1>3. /\ h1 = SubSeq(h, 1, N - 1) /\ h1 \in Seq(Acts) /\ Len(h1) = N - 1
      /\ Last(h) = h[N]
  BY <1>2, FrontLast DEF Last
<1>4. \A i \in 1..(N - 1) : h1[i] = h[i]
  BY <1>2, <1>3, PrefixIs
<1>5. StandsOn(h1, fr, tb, l)
  <2>1. Agree(fr, fr, l) /\ StayClosed(fr, tb, tb, l)
    BY DEF Agree, StayClosed
  <2> HIDE DEF N, h1
  <2>2. StandsOn(SubSeq(h, 1, N - 1), fr, tb, lev[N - 1])
    BY <1>1, <1>2, <2>1, Cut, Zenon DEF N
  <2> QED
    BY <2>2, <1>3
<1> HIDE DEF h1, N, l
<1>6. Pushable(h1, Last(h), l, n, fr, tb)
  <2>1. Calm(h, N - 1) <=> Calm(h1, Len(h1))
    BY <1>3, <1>4 DEF Calm
  <2>2. h1 = <<>> <=> N = 1
    BY <1>2, <1>3, EmptySeq, SMTT(30)
  <2>3. N # 1 => N - 1 \in 1..(N - 1) /\ h1[N - 1] = h[N - 1] /\ (N - 1) + 1 = N
    BY <1>2, <1>4
  <2>4. lev[N] = n /\ lev[N - 1] = l
    BY <1>1 DEF N, l
  <2>5. /\ N = 1 => h[N].op = "lua"
        /\ N > 1 => Sits(h[N - 1], h[N])
        /\ h[N].op = "lua" => n = l + 1 /\ fr[n] = h[N].f
        /\ h[N].op # "lua" => /\ n = h[N].n /\ h[N].n <= h[N].d
                              /\ Calm(h, N - 1) => h[N].d = h[N].n
        /\ h[N].op = "pcall" => n = l
        /\ h[N].op = "close" => /\ h[N].how # "error" => n = l
                                /\ h[N].how = "return" => N > 2
                                /\ h[N].how # "block" => h[N].keep = 0
                                /\ h[N].how = "error" => h[N].e \in Errs
    BY <1>2, <2>4 DEF Fits
  <2>6. N # 1 /\ h[N - 1].op = "close" /\ h[N - 1].ph = "left" =>
           /\ h[N - 1].j < h[N].n /\ h[N].f = fr[h[N - 1].j + 1]
           /\ \A k \in (h[N - 1].j + 2)..h[N].n : tb[fr[k]] = <<>>
    <3>1. N # 1 => N - 1 # 0 /\ (N - 1) + 1 = N
      BY <1>2
    <3> QED
      BY <1>2, <3>1 DEF Closing
  <2>7. Last(h) = h[N] /\ Len(h1) = N - 1 /\ (N > 1 <=> N # 1) /\ (N > 2 <=> N - 1 > 1)
    BY <1>2, <1>3
  <2> QED
    BY <1>2, <2>1, <2>2, <2>3, <2>5, <2>6, <2>7 DEF Pushable
<1> QED
  BY <1>2, <1>5, <1>6 DEF h1

LEMMA PushableKept ==
  ASSUME NEW h \in Seq(Acts), NEW a \in Acts, NEW l, NEW n, NEW fr, NEW tb,
         Pushable(h, a, l, n, fr, tb), NEW fr2, NEW tb2,
         Agree(fr, fr2, n), StayClosed(fr, tb, tb2, n), n \in Nat, l \in Nat
  PROVE  Pushable(h, a, l, n, fr2, tb2)
<1>1. a.op = "lua" => n \in 1..n
  BY DEF Pushable
<1>2. ASSUME h # <<>>, h[Len(h)].op = "close", h[Len(h)].ph = "left"
      PROVE  /\ h[Len(h)].j < a.n /\ a.f = fr2[h[Len(h)].j + 1]
             /\ \A k \in (h[Len(h)].j + 2)..a.n : tb2[fr2[k]] = <<>>
  <2>1. h[Len(h)] \in Acts
    BY <1>2, EmptySeq, ElementOfSeq
  <2>2. a.op # "lua" /\ h[Len(h)].j \in Nat
    BY <1>2, <2>1, ActIs DEF Pushable, Sits
  <2>3. n = a.n /\ h[Len(h)].j < a.n /\ a.f = fr[h[Len(h)].j + 1]
        /\ \A k \in (h[Len(h)].j + 2)..a.n : tb[fr[k]] = <<>>
    BY <1>2, <2>2 DEF Pushable
  <2>4. h[Len(h)].j + 1 \in 1..n /\ \A k \in (h[Len(h)].j + 2)..a.n : k \in 1..n
    BY <2>2, <2>3
  <2> QED
    BY <2>3, <2>4 DEF Agree, StayClosed
<1> QED
  BY <1>1, <1>2 DEF Pushable, Agree

(* The innermost activation and what it stands on.                         *)
LEMMA OnTop ==
  ASSUME CloseInv
  PROVE  \E n \in Nat, l \in Nat :
           /\ StandsOn(host, frames, tbc, n) /\ TopFits(Top, n, frames, tbc)
           /\ StandsOn(Front(host), frames, tbc, l)
           /\ Pushable(Front(host), Top, l, n, frames, tbc)
<1>1. PICK n : StandsOn(host, frames, tbc, n) /\ TopFits(host[Len(host)], n, frames, tbc)
  BY DEF CloseInv
<1>2. host # <<>> /\ Top = host[Len(host)]
  BY Standing
<1>3. n \in Nat /\ \E l \in Nat : /\ StandsOn(Front(host), frames, tbc, l)
                                  /\ Pushable(Front(host), Last(host), l, n, frames, tbc)
  BY <1>1, <1>2, Unpush, Zenon
<1> QED
  BY <1>1, <1>2, <1>3 DEF Top

(* The invariant again, when the innermost activation has been replaced.   *)
LEMMA Rebuilt ==
  ASSUME NEW h \in Seq(Acts), NEW a \in Acts, NEW n, host' = Append(h, a),
         StandsOn(Append(h, a), frames', tbc', n), TopFits(a, n, frames', tbc'),
         Basics(frames', tbc', depth', got'), Distinct(frames'),
         Forgets(Append(h, a), frames', tbc'),
         Deep(Append(h, a), frames', depth')
  PROVE  CloseInv'
<1>1. host' # <<>> /\ host'[Len(host')] = a
  BY AppendProperties
<1> QED
  BY <1>1 DEF CloseInv

LEMMA DeclareKeeps == \A v \in Vars : CloseInv /\ Declare(v) => CloseInv'
<1> SUFFICES ASSUME NEW v \in Vars, CloseInv, Declare(v) PROVE CloseInv'
  OBVIOUS
<1>1. /\ InGuest /\ tbc' = [tbc EXCEPT ![Frame] = Append(@, v)]
      /\ host' = host /\ frames' = frames /\ depth' = depth /\ got' = got
  BY DEF Declare
<1>2. PICK n \in Nat, l \in Nat :
        /\ StandsOn(host, frames, tbc, n) /\ TopFits(Top, n, frames, tbc)
        /\ StandsOn(Front(host), frames, tbc, l)
        /\ Pushable(Front(host), Top, l, n, frames, tbc)
  BY OnTop
<1>3. /\ Top \in Acts /\ Front(host) \in Seq(Acts) /\ host = Append(Front(host), Top)
      /\ Len(frames) \in Nat /\ tbc \in [Id -> Seq(Vars)]
      /\ \A k \in 1..Len(frames) : frames[k] \in Id
  BY Standing
<1>4. Top.op = "lua" /\ Frame = Top.f /\ Top.f \in Id
  BY <1>1, <1>3, ActIs DEF InGuest, Frame
<1>5. n = l + 1 /\ n = Len(frames) /\ frames[n] = Top.f
  BY <1>2, <1>4 DEF Pushable, TopFits
<1>6. /\ tbc' \in [Id -> Seq(Vars)]
      /\ \A f \in Id : f # Top.f => tbc'[f] = tbc[f]
  BY <1>1, <1>3, <1>4
<1>7. StandsOn(Front(host), frames, tbc', l)
  <2>1. StayClosed(frames, tbc, tbc', l)
    <3> SUFFICES ASSUME NEW k \in 1..l PROVE tbc'[frames[k]] = tbc[frames[k]]
      BY DEF StayClosed
    <3>1. k \in 1..Len(frames) /\ n \in 1..Len(frames) /\ k # n
      BY <1>5
    <3>2. frames[k] # frames[n]
      BY <3>1 DEF CloseInv, Distinct
    <3> QED
      BY <1>3, <1>5, <1>6, <3>1, <3>2
  <2>2. Agree(frames, frames, l)
    BY DEF Agree
  <2> QED
    BY <1>2, <2>1, <2>2, Kept, Zenon
<1>8. Pushable(Front(host), Top, l, n, frames, tbc')
  <2>1. Front(host) # <<>> => Front(host)[Len(Front(host))] \in Acts
    BY <1>3, EmptySeq, ElementOfSeq
  <2>2. ~(/\ Front(host) # <<>> /\ Front(host)[Len(Front(host))].op = "close"
          /\ Front(host)[Len(Front(host))].ph = "left")
    BY <1>2, <1>4, <2>1, ActIs DEF Pushable, Sits
  <2> QED
    BY <1>2, <1>4, <2>2 DEF Pushable
<1>9. StandsOn(host', frames', tbc', n)
  BY <1>1, <1>2, <1>3, <1>7, <1>8, Push, Zenon
<1>10. TopFits(Top, n, frames', tbc')
  BY <1>1, <1>2, <1>4 DEF TopFits
<1>11. Forgets(host', frames', tbc')
  <2>1. Known(host, frames, Top.f)
    BY <1>3, <1>4, OnHostAppend DEF Known
  <2> QED
    BY <1>1, <1>6, <2>1 DEF Forgets, CloseInv
<1>12. Basics(frames', tbc', depth', got')
  BY <1>1, <1>6 DEF CloseInv, Basics
<1>13. Distinct(frames') /\ Deep(host', frames', depth')
  BY <1>1 DEF CloseInv
<1>14. host' = Append(Front(host), Top)
  BY <1>1, <1>3
<1> QED
  BY <1>3, <1>9, <1>10, <1>11, <1>12, <1>13, <1>14, Rebuilt

LEMMA ExitKeeps ==
  \A keep \in 0..Cardinality(Vars), how \in {"block", "return"} :
     keep \in Nat /\ CloseInv /\ Exit(keep, how) => CloseInv'
<1> SUFFICES ASSUME NEW keep, NEW how \in {"block", "return"}, keep \in Nat,
                    CloseInv, Exit(keep, how)
             PROVE  CloseInv'
  OBVIOUS
<1> DEFINE a == CloseOf(Frame, keep, how, None, Len(frames))
<1>1. /\ InGuest /\ (how = "return" => keep = 0 /\ Len(host) > 1)
      /\ host' = Append(host, a)
      /\ frames' = frames /\ tbc' = tbc /\ depth' = depth /\ got' = got
  BY DEF Exit
<1>2. PICK n \in Nat, l \in Nat :
        /\ StandsOn(host, frames, tbc, n) /\ TopFits(Top, n, frames, tbc)
  BY OnTop
<1>3. /\ Top \in Acts /\ host \in Seq(Acts) /\ Top = host[Len(host)] /\ host # <<>>
      /\ Len(frames) \in Nat /\ depth \in Nat
  BY Standing
<1>4. Top.op = "lua" /\ Frame = Top.f /\ Top.f \in Id /\ n = Len(frames)
  BY <1>1, <1>2, <1>3, ActIs DEF InGuest, Frame, TopFits
<1>5. /\ a \in Acts /\ a.op = "close" /\ a.f = Top.f /\ a.keep = keep /\ a.how = how
      /\ a.e = None /\ a.n = Len(frames) /\ a.d = depth /\ a.ph = "next"
  <2>1. how \in {"block", "return", "error"} /\ None \in Errs \cup {None}
    OBVIOUS
  <2>2. a = CloseOf(Frame, keep, how, None, Len(frames))
    OBVIOUS
  <2>3. Frame \in Id /\ keep \in Nat /\ Len(frames) \in Nat /\ depth \in Nat
    BY <1>3, <1>4
  <2> HIDE DEF a
  <2>5. PICK x \in Id, m \in Nat : x = Frame /\ m = Len(frames)
    BY <2>3
  <2>6. PICK e \in Errs \cup {None} : e = None
    OBVIOUS
  <2>7. a = CloseOf(x, keep, how, e, m)
    BY <2>2, <2>5, <2>6
  <2>8. /\ a \in Acts /\ a.op = "close" /\ a.f = x /\ a.keep = keep /\ a.how = how
        /\ a.e = e /\ a.n = m /\ a.d = depth /\ a.ph = "next"
    BY <2>1, <2>3, <2>7, CloseOfIs, SMTT(30)
  <2>4. /\ a \in Acts /\ a.op = "close" /\ a.f = Frame /\ a.keep = keep /\ a.how = how
        /\ a.e = None /\ a.n = Len(frames) /\ a.d = depth /\ a.ph = "next"
    BY <2>5, <2>6, <2>8
  <2> QED
    BY <1>4, <2>4
<1> HIDE DEF a
<1>6. Len(frames) <= depth /\ (Calm(host, Len(host)) => depth = Len(frames))
  BY DEF CloseInv, Deep
<1>7. Pushable(host, a, n, n, frames, tbc)
  BY <1>1, <1>3, <1>4, <1>5, <1>6 DEF Pushable, Sits
<1>8. StandsOn(Append(host, a), frames', tbc', n)
  <2>1. StandsOn(Append(host, a), frames, tbc, n)
    BY <1>2, <1>5, <1>7, Push, Zenon
  <2> QED
    BY <1>1, <2>1
<1>9. TopFits(a, n, frames', tbc')
  BY <1>1, <1>4, <1>5 DEF TopFits
<1>10. Forgets(Append(host, a), frames', tbc')
  BY <1>1, <1>3, <1>5, OnHostAppend DEF Forgets, Known, CloseInv
<1>11. Deep(Append(host, a), frames', depth')
  <2>1. Len(Append(host, a)) = Len(host) + 1
    BY <1>3, <1>5, AppendProperties
  <2> QED
    BY <1>1, <1>3, <1>5, <1>6, <2>1, CalmAppend DEF Deep
<1>12. Basics(frames', tbc', depth', got') /\ Distinct(frames')
  BY <1>1 DEF CloseInv, Basics
<1> QED
  BY <1>1, <1>3, <1>5, <1>8, <1>9, <1>10, <1>11, <1>12, Rebuilt
-----------------------------------------------------------------------------
(* The edits of an activation: it is still the same scope.                 *)
SameScope(a, b) ==
    /\ a.op = "close" /\ b.op = "close" /\ b.f = a.f /\ b.keep = a.keep
    /\ b.how = a.how /\ b.n = a.n /\ b.d = a.d

LEMMA EditError ==
  ASSUME NEW a \in Acts, a.op = "close", a.ph = "next", NEW e \in Errs,
         NEW b, b = [a EXCEPT !.e = e]
  PROVE  b \in Acts /\ SameScope(a, b) /\ b.ph = "next" /\ b.e = e
<1>1. a \in Closes
  BY ActIs
<1>2. b \in Closes /\ SameScope(a, b) /\ b.ph = "next" /\ b.e = e
  BY <1>1 DEF Closes, SameScope
<1> QED
  BY <1>2 DEF Acts

LEMMA EditPhase ==
  ASSUME NEW a \in Acts, a.op = "close", a.ph # "left", NEW ph \in {"next", "body"},
         NEW b, b = [a EXCEPT !.ph = ph]
  PROVE  b \in Acts /\ SameScope(a, b) /\ b.ph = ph /\ b.e = a.e
<1>1. a \in Closes
  BY ActIs
<1>2. b \in Closes /\ SameScope(a, b) /\ b.ph = ph /\ b.e = a.e
  BY <1>1 DEF Closes, SameScope
<1> QED
  BY <1>2 DEF Acts

LEMMA EditFinger ==
  ASSUME NEW a \in Acts, a.op = "close", a.ph = "left", a.j # 0,
         NEW b, b = [a EXCEPT !.j = @ - 1]
  PROVE  /\ b \in Acts /\ SameScope(a, b) /\ b.ph = "left" /\ b.e = a.e
         /\ b.j = a.j - 1 /\ a.j - 1 \in Nat
<1>1. a \in Lefts
  BY ActIs
<1>2. a.j \in Nat
  BY <1>1 DEF Lefts
<1>3. a.j - 1 \in Nat
  BY <1>2
<1>4. b \in Lefts /\ SameScope(a, b) /\ b.ph = "left" /\ b.e = a.e /\ b.j = a.j - 1
  BY <1>1, <1>3 DEF Lefts, SameScope
<1> QED
  BY <1>3, <1>4 DEF Acts

LEMMA EditErr ==
  ASSUME NEW a \in Acts, a.op # "lua", a.ph \in {"left", "unwind"}, NEW e \in Errs,
         NEW b, b = [a EXCEPT !.err = e]
  PROVE  /\ b \in Acts /\ b.op = a.op /\ b.ph = a.ph /\ b.n = a.n /\ b.d = a.d
         /\ a.op = "close" => SameScope(a, b) /\ b.e = a.e /\ b.j = a.j
<1>1. a \in Lefts \cup Unwinds
  BY ActIs
<1>2. CASE a \in Lefts
  <2>1. b \in Lefts /\ b.ph = a.ph /\ SameScope(a, b) /\ b.e = a.e /\ b.j = a.j
    BY <1>2 DEF Lefts, SameScope
  <2> QED
    BY <2>1 DEF Acts, SameScope
<1>3. CASE a \in Unwinds
  <2>1. b \in Unwinds /\ b.op = a.op /\ b.ph = a.ph /\ b.n = a.n /\ b.d = a.d
        /\ a.op = "pcall"
    BY <1>3 DEF Unwinds
  <2> QED
    BY <2>1 DEF Acts
<1> QED
  BY <1>1, <1>2, <1>3

(* It stands where it stood.                                               *)
LEMMA SameStand ==
  ASSUME NEW h, NEW a, NEW b, NEW l, NEW n, NEW fr, NEW tb,
         Pushable(h, a, l, n, fr, tb),
         \/ SameScope(a, b) /\ (b.how = "error" => b.e \in Errs)
         \/ a.op = "pcall" /\ b.op = "pcall" /\ b.n = a.n /\ b.d = a.d
  PROVE  Pushable(h, b, l, n, fr, tb)
<1>1. CASE SameScope(a, b) /\ (b.how = "error" => b.e \in Errs)
  <2>1. h # <<>> /\ Sits(h[Len(h)], a) => Sits(h[Len(h)], b)
    BY <1>1 DEF SameScope, Sits
  <2> QED
    BY <1>1, <2>1 DEF Pushable, SameScope
<1>2. CASE a.op = "pcall" /\ b.op = "pcall" /\ b.n = a.n /\ b.d = a.d
  <2>1. h # <<>> /\ Sits(h[Len(h)], a) => Sits(h[Len(h)], b)
    BY <1>2 DEF Sits
  <2>2. ~(h # <<>> /\ h[Len(h)].op = "close" /\ h[Len(h)].ph = "left")
    BY <1>2 DEF Pushable, Sits
  <2> QED
    BY <1>2, <2>1, <2>2 DEF Pushable
<1> QED
  BY <1>1, <1>2
LEMMA Retopped ==
  ASSUME CloseInv, NEW b \in Acts,
         SameScope(Top, b) \/ (Top.op = "pcall" /\ b.op = "pcall")
  PROVE  /\ \A fr, f : Known(Append(Front(host), b), fr, f) <=> Known(host, fr, f)
         /\ Top.op = "close" => (Calm(Append(Front(host), b), Len(Append(Front(host), b)))
                                   <=> Calm(host, Len(host)))
<1>1. /\ Top \in Acts /\ Front(host) \in Seq(Acts) /\ host = Append(Front(host), Top)
      /\ Len(Front(host)) = Len(host) - 1 /\ Len(host) \in Nat
  BY Standing
<1> DEFINE h == Front(host)
           a == Top
<1>2. host = Append(h, a) /\ h \in Seq(Acts) /\ a \in Acts /\ Len(h) + 1 = Len(host)
      /\ (SameScope(a, b) \/ (a.op = "pcall" /\ b.op = "pcall"))
  BY <1>1
<1> HIDE DEF h, a
<1>3. \A f : OnHost(Append(h, b), f) <=> OnHost(Append(h, a), f)
  BY <1>2, OnHostAppend DEF SameScope
<1>4. Len(Append(h, b)) = Len(h) + 1
  BY <1>2, AppendProperties
<1>5. a.op = "close" => (Calm(Append(h, b), Len(h) + 1) <=> Calm(Append(h, a), Len(h) + 1))
  BY <1>2, CalmAppend DEF SameScope
<1>6. \A fr, f : Known(Append(h, b), fr, f) <=> Known(host, fr, f)
  BY <1>2, <1>3 DEF Known
<1>7. a.op = "close" => (Calm(Append(h, b), Len(Append(h, b))) <=> Calm(host, Len(host)))
  BY <1>2, <1>4, <1>5
<1> QED
  BY <1>6, <1>7 DEF h, a

(* A variable less in the frame being closed: what is closed stays closed. *)
LEMMA OneLess ==
  ASSUME CloseInv, NEW f \in Id, tbc[f] # <<>>, tbc' = [tbc EXCEPT ![f] = Front(@)]
  PROVE  tbc' \in [Id -> Seq(Vars)] /\ \A g \in Id : tbc[g] = <<>> => tbc'[g] = <<>>
<1>1. tbc \in [Id -> Seq(Vars)]
  BY Standing
<1>2. tbc[f] \in Seq(Vars)
  BY <1>1
<1>3. Front(tbc[f]) \in Seq(Vars)
  BY <1>2, FrontLast
<1>4. tbc' \in [Id -> Seq(Vars)]
  BY <1>1, <1>3
<1>5. \A g \in Id : g # f => tbc'[g] = tbc[g]
  BY <1>1
<1> QED
  BY <1>4, <1>5

LEMMA NoHandlerKeeps == \A e \in Errs : CloseInv /\ NoHandler(e) => CloseInv'
<1> SUFFICES ASSUME NEW e \in Errs, CloseInv, NoHandler(e) PROVE CloseInv'
  OBVIOUS
<1> DEFINE b == [Top EXCEPT !.e = e]
<1>1. /\ Top.op = "close" /\ Top.ph = "next" /\ Len(tbc[Frame]) > Top.keep
      /\ tbc' = [tbc EXCEPT ![Frame] = Front(@)] /\ host' = WithTop(b)
      /\ frames' = frames /\ depth' = depth /\ got' = got
  BY DEF NoHandler, InClose
<1>2. PICK n \in Nat, l \in Nat :
        /\ StandsOn(host, frames, tbc, n) /\ TopFits(Top, n, frames, tbc)
        /\ StandsOn(Front(host), frames, tbc, l)
        /\ Pushable(Front(host), Top, l, n, frames, tbc)
  BY OnTop
<1>3. /\ Top \in Acts /\ Front(host) \in Seq(Acts) /\ Len(frames) \in Nat
      /\ \A k \in 1..Len(frames) : frames[k] \in Id
  BY Standing
<1>4. /\ b \in Acts /\ SameScope(Top, b) /\ b.ph = "next" /\ b.e = e
  BY <1>1, <1>3, EditError
<1> HIDE DEF b
<1>5. Frame \in Id /\ tbc[Frame] # <<>>
  BY <1>1, <1>3, ActIs, EmptySeq DEF Frame
<1>6. /\ tbc' \in [Id -> Seq(Vars)]
      /\ \A g \in Id : tbc[g] = <<>> => tbc'[g] = <<>>
  BY <1>1, <1>5, OneLess
<1>7. l <= n /\ n <= Len(frames)
  BY <1>2 DEF Pushable, TopFits
<1>8. StayClosed(frames, tbc, tbc', n) /\ StayClosed(frames, tbc, tbc', l)
  BY <1>3, <1>6, <1>7 DEF StayClosed
<1>9. Agree(frames, frames, n) /\ Agree(frames, frames, l)
  BY DEF Agree
<1>10. StandsOn(Front(host), frames, tbc', l)
  BY <1>2, <1>8, <1>9, Kept, Zenon
<1>11. Pushable(Front(host), b, l, n, frames, tbc')
  <2>1. Pushable(Front(host), Top, l, n, frames, tbc')
    BY <1>2, <1>3, <1>8, <1>9, PushableKept, Zenon
  <2> QED
    BY <1>4, <2>1, SameStand
<1>12. StandsOn(Append(Front(host), b), frames, tbc', n)
  BY <1>2, <1>4, <1>10, <1>11, Push, Zenon
<1>13. TopFits(b, n, frames, tbc')
  <2>1. \A k \in (n + 1)..Len(frames) : tbc'[frames[k]] = <<>>
    <3>1. \A k \in (n + 1)..Len(frames) : tbc[frames[k]] = <<>> /\ k \in 1..Len(frames)
      BY <1>1, <1>2, <1>3 DEF TopFits
    <3> QED
      BY <1>3, <1>6, <3>1
  <2>2. b.op = "close" /\ b.ph = "next" /\ b.e # None
    BY <1>4, IdIs DEF SameScope
  <2> QED
    BY <1>7, <2>1, <2>2 DEF TopFits
<1>14. host' = Append(Front(host), b)
  BY <1>1, <1>4, WithTopIs
<1>15. Forgets(Append(Front(host), b), frames, tbc')
  BY <1>4, <1>6, Retopped DEF CloseInv, Forgets
<1>16. Deep(Append(Front(host), b), frames, depth)
  BY <1>1, <1>4, Retopped DEF CloseInv, Deep
<1>17. Basics(frames, tbc', depth, got) /\ Distinct(frames)
  BY <1>6 DEF CloseInv, Basics
<1> QED
  BY <1>1, <1>2, <1>3, <1>4, <1>12, <1>13, <1>14, <1>15, <1>16, <1>17, Rebuilt
(* The innermost close_upvals goes on, nothing else changes.               *)
LEMMA Resumed ==
  ASSUME CloseInv, NEW b \in Acts, SameScope(Top, b), b.e \in Errs \/ b.e = Top.e,
         NEW n \in Nat, NEW l \in Nat, StandsOn(Front(host), frames, tbc, l),
         Pushable(Front(host), Top, l, n, frames, tbc)
  PROVE  /\ StandsOn(Append(Front(host), b), frames, tbc, n)
         /\ Forgets(Append(Front(host), b), frames, tbc)
         /\ Deep(Append(Front(host), b), frames, depth)
<1>1. Front(host) \in Seq(Acts)
  BY Standing
<1>2. b.how = "error" => b.e \in Errs
  BY DEF SameScope, Pushable
<1>3. Pushable(Front(host), b, l, n, frames, tbc)
  BY <1>2, SameStand
<1>4. StandsOn(Append(Front(host), b), frames, tbc, n)
  BY <1>3, Push, Zenon
<1>5. Forgets(Append(Front(host), b), frames, tbc)
  BY Retopped DEF CloseInv, Forgets
<1>6. Deep(Append(Front(host), b), frames, depth)
  BY Retopped DEF CloseInv, Deep, SameScope
<1> QED
  BY <1>4, <1>5, <1>6

LEMMA LeftDoneKept == CloseInv /\ LeftDone => CloseInv'
<1> SUFFICES ASSUME CloseInv, LeftDone PROVE CloseInv'
  OBVIOUS
<1> DEFINE b == [Top EXCEPT !.ph = "next", !.e = Top.err, !.err = None]
<1>1. /\ Top.op = "close" /\ Top.ph = "left" /\ Top.j <= Top.n /\ host' = WithTop(b)
      /\ frames' = frames /\ tbc' = tbc /\ depth' = depth /\ got' = got
  BY DEF LeftDone, InClose
<1>2. PICK n \in Nat, l \in Nat :
        /\ StandsOn(host, frames, tbc, n) /\ TopFits(Top, n, frames, tbc)
        /\ StandsOn(Front(host), frames, tbc, l)
        /\ Pushable(Front(host), Top, l, n, frames, tbc)
  BY OnTop
<1>3. Top \in Acts /\ Front(host) \in Seq(Acts) /\ Len(frames) \in Nat
  BY Standing
<1>4. Top.err \in Errs /\ Top.j \in Nat
  BY <1>1, <1>3, ActIs
<1>5. /\ b \in Acts /\ SameScope(Top, b) /\ b.ph = "next" /\ b.e = Top.err
  <2>1. PICK e \in Errs \cup {None} : e = Top.err
    BY <1>4
  <2>2. PICK a \in Acts : a = Top
    BY <1>3
  <2>3. b = [a EXCEPT !.ph = "next", !.e = e, !.err = None] /\ a.op = "close"
    BY <1>1, <2>1, <2>2
  <2> HIDE DEF b
  <2>4. b \in Acts /\ SameScope(a, b) /\ b.ph = "next" /\ b.e = e
    <3>1. a \in Lefts /\ e \in Errs \cup {None}
      BY <1>1, <2>2, ActIs
    <3>2. b \in Closes /\ SameScope(a, b) /\ b.ph = "next" /\ b.e = e
      BY <2>3, <3>1 DEF Closes, Lefts, SameScope
    <3> QED
      BY <3>2 DEF Acts
  <2> QED
    BY <2>1, <2>2, <2>4
<1> HIDE DEF b
<1>6. /\ StandsOn(Append(Front(host), b), frames, tbc, n)
      /\ Forgets(Append(Front(host), b), frames, tbc)
      /\ Deep(Append(Front(host), b), frames, depth)
  BY <1>2, <1>4, <1>5, Resumed
<1>7. TopFits(b, n, frames, tbc)
  <2>1. n = Top.n
    BY <1>1, <1>2 DEF Pushable
  <2>2. \A k \in (n + 1)..Len(frames) : k \in (Top.j + 1)..Len(frames)
    BY <1>1, <1>3, <1>4, <2>1
  <2>3. b.op = "close" /\ b.e # None
    BY <1>4, <1>5, IdIs DEF SameScope
  <2> QED
    BY <1>1, <1>2, <1>5, <2>2, <2>3 DEF TopFits
<1>8. host' = Append(Front(host), b)
  BY <1>1, <1>5, WithTopIs
<1>9. Basics(frames, tbc, depth, got) /\ Distinct(frames)
  BY DEF CloseInv
<1> QED
  BY <1>1, <1>2, <1>3, <1>5, <1>6, <1>7, <1>8, <1>9, Rebuilt

(* What close_upvals is called on, by an unwinding or a failed handler.    *)
LEMMA CloseOfError ==
  ASSUME NEW f \in Id, NEW e \in Errs, NEW n \in Nat, depth \in Nat,
         NEW c, c = CloseOf(f, 0, "error", e, n)
  PROVE  /\ c \in Acts /\ c.op = "close" /\ c.f = f /\ c.keep = 0 /\ c.how = "error"
         /\ c.e = e /\ c.n = n /\ c.d = depth /\ c.ph = "next"
<1>1. PICK k \in Nat : k = 0
  OBVIOUS
<1>2. PICK how \in {"block", "return", "error"} : how = "error"
  OBVIOUS
<1>3. e \in Errs \cup {None} /\ c = CloseOf(f, k, how, e, n)
  BY <1>1, <1>2
<1>4. /\ c \in Acts /\ c.op = "close" /\ c.f = f /\ c.keep = k /\ c.how = how
      /\ c.e = e /\ c.n = n /\ c.d = depth /\ c.ph = "next"
  BY <1>3, CloseOfIs
<1> QED
  BY <1>1, <1>2, <1>4

LEMMA LeftNextKeeps == CloseInv /\ LeftNext => CloseInv'
<1> SUFFICES ASSUME CloseInv, LeftNext PROVE CloseInv'
  OBVIOUS
<1> DEFINE b == [Top EXCEPT !.j = @ - 1]
           f == frames[Top.j]
           c == CloseOf(f, 0, "error", Top.err, Len(frames))
<1>1. /\ Top.op = "close" /\ Top.ph = "left" /\ Top.j > Top.n
      /\ host' = IF tbc[f] = <<>> THEN WithTop(b) ELSE Append(WithTop(b), c)
      /\ frames' = frames /\ tbc' = tbc /\ depth' = depth /\ got' = got
  BY DEF LeftNext, InClose
<1>2. PICK n \in Nat, l \in Nat :
        /\ StandsOn(host, frames, tbc, n) /\ TopFits(Top, n, frames, tbc)
        /\ StandsOn(Front(host), frames, tbc, l)
        /\ Pushable(Front(host), Top, l, n, frames, tbc)
  BY OnTop
<1>3. /\ Top \in Acts /\ Front(host) \in Seq(Acts) /\ Len(frames) \in Nat
      /\ depth \in Nat /\ \A k \in 1..Len(frames) : frames[k] \in Id
  BY Standing
<1>4. /\ Top.err \in Errs /\ Top.j \in Nat /\ Top.n \in Nat /\ Top.j # 0 /\ n = Top.n
      /\ n <= Len(frames) /\ Top.j <= Len(frames)
      /\ \A k \in (Top.j + 1)..Len(frames) : tbc[frames[k]] = <<>>
  BY <1>1, <1>2, <1>3, ActIs DEF Pushable, TopFits
<1>5. /\ b \in Acts /\ SameScope(Top, b) /\ b.ph = "left" /\ b.e = Top.e
      /\ b.j = Top.j - 1 /\ b.op = "close"
  BY <1>1, <1>3, <1>4, EditFinger DEF SameScope
<1>6. f \in Id
  BY <1>3, <1>4
<1> HIDE DEF b, f
<1>7. /\ StandsOn(Append(Front(host), b), frames, tbc, n)
      /\ Forgets(Append(Front(host), b), frames, tbc)
      /\ Deep(Append(Front(host), b), frames, depth)
  BY <1>2, <1>5, Resumed
<1>8. WithTop(b) = Append(Front(host), b)
  BY <1>5, WithTopIs
<1>9. Basics(frames, tbc, depth, got) /\ Distinct(frames)
  BY DEF CloseInv
<1>10. CASE tbc[f] = <<>>
  <2>1. \A k \in (b.j + 1)..Len(frames) : k = Top.j \/ k \in (Top.j + 1)..Len(frames)
    BY <1>3, <1>4, <1>5
  <2>2. TopFits(b, n, frames, tbc)
    BY <1>3, <1>4, <1>5, <1>10, <2>1 DEF TopFits, f
  <2>3. host' = Append(Front(host), b)
    BY <1>1, <1>8, <1>10
  <2> QED
    BY <1>1, <1>2, <1>3, <1>5, <1>7, <1>9, <2>2, <2>3, Rebuilt
<1>11. CASE tbc[f] # <<>>
  <2>1. /\ c \in Acts /\ c.op = "close" /\ c.f = f /\ c.keep = 0 /\ c.how = "error"
        /\ c.e = Top.err /\ c.n = Len(frames) /\ c.d = depth /\ c.ph = "next"
    BY <1>3, <1>4, <1>6, CloseOfError
  <2> DEFINE h == Append(Front(host), b)
  <2> HIDE DEF c
  <2>2. h \in Seq(Acts) /\ h # <<>> /\ h[Len(h)] = b
    BY <1>3, <1>5, AppendProperties
  <2>3. StandsOn(h, frames, tbc, n) /\ Forgets(h, frames, tbc) /\ Deep(h, frames, depth)
    BY <1>7
  <2>4. host' = Append(h, c)
    BY <1>1, <1>8, <1>11
  <2> HIDE DEF h
  <2>5. Pushable(h, c, n, Len(frames), frames, tbc)
    <3>1. Sits(b, c)
      BY <1>5, <2>1 DEF Sits
    <3>2. b.j < c.n /\ b.j + 1 = Top.j
          /\ \A k \in (b.j + 2)..c.n : k \in (Top.j + 1)..Len(frames)
      BY <1>3, <1>4, <1>5, <2>1, SMTT(30)
    <3>3. c.f = frames[b.j + 1]
      BY <2>1, <3>2 DEF f
    <3> QED
      BY <1>4, <2>1, <2>2, <2>3, <3>1, <3>2, <3>3 DEF Pushable, Deep
  <2>6. StandsOn(Append(h, c), frames, tbc, Len(frames))
    BY <1>3, <2>1, <2>3, <2>5, Push, Zenon
  <2>7. TopFits(c, Len(frames), frames, tbc)
    BY <1>3, <1>4, <2>1, IdIs DEF TopFits
  <2>8. Forgets(Append(h, c), frames, tbc)
    BY <2>1, <2>2, <2>3, OnHostAppend DEF Forgets, Known
  <2>9. Deep(Append(h, c), frames, depth)
    <3>1. Len(Append(h, c)) = Len(h) + 1
      BY <2>1, <2>2, AppendProperties
    <3> QED
      BY <2>1, <2>2, <2>3, <3>1, CalmAppend DEF Deep
  <2> QED
    BY <1>1, <1>3, <1>9, <2>1, <2>2, <2>4, <2>6, <2>7, <2>8, <2>9, Rebuilt
<1> QED
  BY <1>10, <1>11
(* The innermost close_upvals has closed what it had to.                   *)
LEMMA ClosedIs ==
  ASSUME CloseInv, Closed, Top.how # "block"
  PROVE  Top.f \in Id /\ tbc[Top.f] = <<>>
<1>1. PICK n \in Nat, l \in Nat : Pushable(Front(host), Top, l, n, frames, tbc)
  BY OnTop
<1>2. Top.op = "close" /\ Len(tbc[Top.f]) <= Top.keep
  BY DEF Closed, InClose, Frame
<1>3. Top.keep = 0 /\ Top.f \in Id
  BY <1>1, <1>2, Standing, ActIs DEF Pushable
<1>4. tbc[Top.f] \in Seq(Vars)
  BY <1>3, Standing
<1> QED
  BY <1>2, <1>3, <1>4, EmptySeq, LenProperties

LEMMA BlockDoneKeeps == CloseInv /\ BlockDone => CloseInv'
<1> SUFFICES ASSUME CloseInv, BlockDone PROVE CloseInv'
  OBVIOUS
<1> DEFINE h == Front(host)
           a == Last(h)
<1>1. /\ Top.op = "close" /\ Top.ph = "next" /\ Top.how = "block" /\ Top.e = None
      /\ host' = h
      /\ frames' = frames /\ tbc' = tbc /\ depth' = depth /\ got' = got
  BY DEF BlockDone, Closed, InClose, Below
<1>2. PICK n \in Nat, l \in Nat :
        /\ StandsOn(host, frames, tbc, n) /\ TopFits(Top, n, frames, tbc)
        /\ StandsOn(h, frames, tbc, l)
        /\ Pushable(h, Top, l, n, frames, tbc)
  BY OnTop
<1>3. /\ Top \in Acts /\ h \in Seq(Acts) /\ Len(frames) \in Nat
      /\ host = Append(h, Top) /\ Len(h) + 1 = Len(host) /\ Len(host) \in Nat
  BY Standing
<1> HIDE DEF h
<1>4. h # <<>> /\ h[Len(h)].op = "lua" /\ h[Len(h)].f = Top.f /\ n = l /\ Len(frames) = n
  BY <1>1, <1>2 DEF Pushable, Sits, TopFits
<1>5. h[Len(h)] \in Acts /\ Len(h) \in 1..Len(h)
  BY <1>3, <1>4, EmptySeq, ElementOfSeq
<1>6. TopFits(h[Len(h)], l, frames, tbc)
  BY <1>3, <1>4 DEF TopFits
<1>7. Forgets(h, frames, tbc)
  <2>1. \A f : OnHost(host, f) => OnHost(h, f)
    <3>1. OnHost(h, Top.f)
      BY <1>4, <1>5 DEF OnHost
    <3> QED
      BY <1>3, <3>1, OnHostAppend
  <2> QED
    BY <2>1 DEF CloseInv, Forgets, Known
<1>8. Deep(h, frames, depth)
  BY <1>1, <1>3, CalmAppend DEF CloseInv, Deep
<1> QED
  BY <1>1, <1>2, <1>4, <1>6, <1>7, <1>8 DEF CloseInv

LEMMA ErrorDoneKeeps == CloseInv /\ ErrorDone => CloseInv'
<1> SUFFICES ASSUME CloseInv, ErrorDone PROVE CloseInv'
  OBVIOUS
<1> DEFINE h == Front(host)
           a == Last(h)
           b == [a EXCEPT !.err = Top.e]
<1>1. /\ Top.op = "close" /\ Top.ph = "next" /\ Top.how = "error" /\ Closed
      /\ host' = Append(Front(h), b)
      /\ frames' = frames /\ tbc' = tbc /\ depth' = depth /\ got' = got
  BY DEF ErrorDone, Closed, InClose, Below
<1>2. PICK n \in Nat, l \in Nat :
        /\ StandsOn(host, frames, tbc, n) /\ TopFits(Top, n, frames, tbc)
        /\ StandsOn(h, frames, tbc, l)
        /\ Pushable(h, Top, l, n, frames, tbc)
  BY OnTop
<1>3. /\ Top \in Acts /\ h \in Seq(Acts) /\ Len(frames) \in Nat
      /\ host = Append(h, Top) /\ Len(h) + 1 = Len(host)
      /\ \A k \in 1..Len(frames) : frames[k] \in Id
  BY Standing
<1>4. /\ Top.f \in Id /\ tbc[Top.f] = <<>> /\ Top.e \in Errs /\ h # <<>>
      /\ Sits(h[Len(h)], Top) /\ n = Top.n /\ l <= n /\ n <= Len(frames)
  BY <1>1, <1>2, ClosedIs DEF Pushable, TopFits
<1> HIDE DEF h
<1>5. /\ h = Append(Front(h), a) /\ Front(h) \in Seq(Acts) /\ a \in Acts
      /\ a = h[Len(h)] /\ Len(Front(h)) + 1 = Len(h) /\ Len(h) \in Nat
  BY <1>3, <1>4, FrontLast DEF Last
<1>6. PICK l2 \in Nat : /\ StandsOn(Front(h), frames, tbc, l2)
                        /\ Pushable(Front(h), a, l2, l, frames, tbc)
  BY <1>2, <1>4, Unpush, Zenon
<1> HIDE DEF a
<1>7. \/ a.op = "pcall" /\ a.ph = "unwind"
      \/ a.op = "close" /\ a.ph = "left"
  BY <1>1, <1>4, <1>5 DEF Sits
<1>8. /\ b \in Acts /\ b.op = a.op /\ b.ph = a.ph /\ b.n = a.n /\ b.d = a.d
      /\ a.op = "close" => SameScope(a, b) /\ b.e = a.e /\ b.j = a.j
  <2>1. PICK e \in Errs : e = Top.e
    BY <1>4
  <2>2. b = [a EXCEPT !.err = e] /\ a.op # "lua" /\ a.ph \in {"left", "unwind"}
    BY <1>7, <2>1
  <2> HIDE DEF b
  <2> QED
    BY <1>5, <2>2, EditErr
<1> HIDE DEF b
<1>9. Pushable(Front(h), b, l2, l, frames, tbc)
  <2>1. a.op = "close" /\ a.how = "error" => a.e \in Errs
    BY <1>6 DEF Pushable
  <2>2. \/ SameScope(a, b) /\ (b.how = "error" => b.e \in Errs)
        \/ a.op = "pcall" /\ b.op = "pcall" /\ b.n = a.n /\ b.d = a.d
    BY <1>7, <1>8, <2>1 DEF SameScope
  <2> QED
    BY <1>6, <2>2, SameStand
<1>10. StandsOn(Append(Front(h), b), frames, tbc, l)
  BY <1>2, <1>6, <1>8, <1>9, Push, Zenon
<1>11. TopFits(b, l, frames, tbc)
  <2>1. b.op = "close" => /\ b.j <= Len(frames)
                          /\ \A k \in (b.j + 1)..Len(frames) : tbc[frames[k]] = <<>>
    <3> SUFFICES ASSUME a.op = "close"
                 PROVE  /\ a.j <= Len(frames)
                        /\ \A k \in (a.j + 1)..Len(frames) : tbc[frames[k]] = <<>>
      BY <1>8
    <3>1. /\ a.j < Top.n /\ Top.f = frames[a.j + 1] /\ a.j \in Nat
          /\ \A k \in (a.j + 2)..Top.n : tbc[frames[k]] = <<>>
      BY <1>2, <1>4, <1>5, <1>7, ActIs DEF Pushable
    <3>2. \A k \in (n + 1)..Len(frames) : tbc[frames[k]] = <<>>
      BY <1>1, <1>2 DEF TopFits
    <3>3. \A k \in (a.j + 1)..Len(frames) :
             k = a.j + 1 \/ k \in (a.j + 2)..Top.n \/ k \in (n + 1)..Len(frames)
      BY <1>3, <1>4, <3>1, SMTT(30)
    <3> QED
      BY <1>3, <1>4, <3>1, <3>2, <3>3, SMTT(30)
  <2> QED
    BY <1>3, <1>4, <1>7, <1>8, <2>1 DEF TopFits
<1>12. Forgets(Append(Front(h), b), frames, tbc)
  <2>1. \A f : OnHost(h, f) => OnHost(Append(Front(h), b), f)
    <3>1. PICK h1 \in Seq(Acts) : h1 = Front(h)
      BY <1>5
    <3>2. \A f : OnHost(Append(h1, a), f) <=> OnHost(h1, f) \/ (a.op # "pcall" /\ a.f = f)
      BY <1>5, OnHostAppend
    <3>3. \A f : OnHost(Append(h1, b), f) <=> OnHost(h1, f) \/ (b.op # "pcall" /\ b.f = f)
      BY <1>8, OnHostAppend
    <3>4. a.op # "pcall" => b.op # "pcall" /\ b.f = a.f
      BY <1>7, <1>8 DEF SameScope
    <3>5. h = Append(h1, a) /\ Append(Front(h), b) = Append(h1, b)
      BY <1>5, <3>1
    <3> QED
      BY <3>2, <3>3, <3>4, <3>5
  <2>2. \A f : OnHost(host, f) => OnHost(h, f) \/ f = Top.f
    BY <1>3, OnHostAppend
  <2> QED
    BY <1>4, <2>1, <2>2 DEF CloseInv, Forgets, Known
<1>13. Deep(Append(Front(h), b), frames, depth)
  <2>1. Len(Append(Front(h), b)) = Len(Front(h)) + 1
    BY <1>5, <1>8, AppendProperties
  <2>2. Calm(Append(Front(h), b), Len(Front(h)) + 1) <=> Calm(h, Len(h))
    BY <1>5, <1>7, <1>8, CalmAppend
  <2>3. Calm(h, Len(h)) <=> Calm(host, Len(host))
    BY <1>1, <1>3, CalmAppend
  <2> QED
    BY <2>1, <2>2, <2>3 DEF CloseInv, Deep
<1>14. Basics(frames, tbc, depth, got) /\ Distinct(frames)
  BY DEF CloseInv
<1> QED
  BY <1>1, <1>2, <1>5, <1>8, <1>10, <1>11, <1>12, <1>13, <1>14, Rebuilt
(* The handler of the innermost variable is called; what failed handlers   *)
(* left above the scope goes.                                              *)
LEMMA CloseNextKeeps == CloseInv /\ CloseNext => CloseInv'
<1> SUFFICES ASSUME CloseInv, CloseNext PROVE CloseInv'
  OBVIOUS
<1> DEFINE b == [Top EXCEPT !.ph = "body"]
           fr == SubSeq(frames, 1, Top.n)
<1>1. PICK g \in Id :
        /\ Top.op = "close" /\ Top.ph = "next" /\ Len(tbc[Frame]) > Top.keep /\ Fresh(g)
        /\ frames' = Append(fr, g) /\ depth' = Top.d + 1
        /\ tbc' = [tbc EXCEPT ![Frame] = Front(@), ![g] = <<>>]
        /\ host' = Append(WithTop(b), Lua(g)) /\ got' = got
  BY DEF CloseNext, InClose, CallHandler
<1>2. PICK n \in Nat, l \in Nat :
        /\ StandsOn(host, frames, tbc, n) /\ TopFits(Top, n, frames, tbc)
        /\ StandsOn(Front(host), frames, tbc, l)
        /\ Pushable(Front(host), Top, l, n, frames, tbc)
  BY OnTop
<1>3. /\ Top \in Acts /\ Front(host) \in Seq(Acts) /\ frames \in Seq(Id)
      /\ Len(frames) \in Nat /\ tbc \in [Id -> Seq(Vars)]
      /\ \A k \in 1..Len(frames) : frames[k] \in Id
  BY Standing
<1>4. /\ Top.f \in Id /\ Frame = Top.f /\ Top.keep \in Nat /\ Top.d \in Nat
      /\ n = Top.n /\ n <= Top.d /\ l <= n /\ n <= Len(frames)
      /\ (Calm(Front(host), Len(Front(host))) => Top.d = n)
      /\ (Top.how = "error" => Top.e \in Errs)
  BY <1>1, <1>2, <1>3, ActIs DEF Frame, Pushable, TopFits
<1>5. /\ b \in Acts /\ SameScope(Top, b) /\ b.ph = "body" /\ b.e = Top.e
  BY <1>1, <1>3, EditPhase
<1> HIDE DEF b
<1>6. ~Known(host, frames, g)
  BY <1>1, InUseIs DEF Fresh
<1>7. g # Top.f
  <2>1. OnHost(host, Top.f)
    BY <1>1, Standing, SMTT(30) DEF OnHost
  <2> QED
    BY <1>6, <2>1 DEF Known
<1>8. /\ tbc' \in [Id -> Seq(Vars)] /\ tbc'[g] = <<>>
      /\ \A f \in Id : tbc[f] = <<>> => tbc'[f] = <<>>
  <2>1. tbc[Top.f] \in Seq(Vars) /\ tbc[Top.f] # <<>>
    BY <1>1, <1>3, <1>4, EmptySeq
  <2>2. Front(tbc[Top.f]) \in Seq(Vars)
    BY <2>1, FrontLast
  <2>3. PICK t : t = [tbc EXCEPT ![Top.f] = Front(tbc[Top.f])]
    OBVIOUS
  <2>4. tbc' = [t EXCEPT ![g] = <<>>]
    BY <1>1, <1>4, <2>3
  <2>5. /\ t \in [Id -> Seq(Vars)]
        /\ \A f \in Id : f # Top.f => t[f] = tbc[f]
    BY <1>3, <1>4, <2>2, <2>3
  <2>6. <<>> \in Seq(Vars)
    OBVIOUS
  <2>7. /\ tbc' \in [Id -> Seq(Vars)] /\ tbc'[g] = <<>>
        /\ \A f \in Id : f # g => tbc'[f] = t[f]
    BY <2>4, <2>5, <2>6
  <2> QED
    BY <2>1, <2>5, <2>7
<1>9. /\ fr \in Seq(Id) /\ Len(fr) = n /\ \A k \in 1..n : fr[k] = frames[k]
      /\ \A f : OnFrames(fr, f) => OnFrames(frames, f)
      /\ \A f : OnFrames(frames, f) => \/ OnFrames(fr, f)
                                       \/ \E k \in (n + 1)..Len(frames) : frames[k] = f
      /\ Distinct(fr)
  <2>1. n \in 0..Len(frames) /\ fr = SubSeq(frames, 1, n)
    BY <1>3, <1>4
  <2> HIDE DEF fr
  <2> QED
    BY <1>3, <2>1, FramesPrefix DEF CloseInv
<1> HIDE DEF fr
<1>10. /\ frames' \in Seq(Id) /\ Len(frames') = n + 1 /\ frames'[n + 1] = g
       /\ \A k \in 1..n : frames'[k] = frames[k]
       /\ \A f : OnFrames(frames', f) <=> OnFrames(fr, f) \/ f = g
       /\ Distinct(frames')
  <2>1. ~OnFrames(fr, g)
    BY <1>6, <1>9 DEF Known
  <2> QED
    BY <1>1, <1>9, <2>1, FramesAppend
<1> DEFINE h == Append(Front(host), b)
<1>11. StandsOn(h, frames, tbc, n)
  BY <1>2, <1>5, Resumed
<1>12. /\ h \in Seq(Acts) /\ h # <<>> /\ h[Len(h)] = b /\ Len(h) = Len(Front(host)) + 1
  BY <1>3, <1>5, AppendProperties
<1>13. /\ \A f : OnHost(host, f) => OnHost(h, f)
       /\ Calm(h, Len(h)) => Calm(Front(host), Len(Front(host)))
  <2>1. \A f : Known(h, <<>>, f) <=> Known(host, <<>>, f)
    BY <1>5, Retopped
  <2>2. \A f : ~OnFrames(<<>>, f)
    BY DEF OnFrames
  <2> QED
    BY <1>3, <1>5, <1>12, <2>1, <2>2, CalmAppend DEF Known
<1>14. host' = Append(h, Lua(g))
  BY <1>1, <1>5, WithTopIs
<1> HIDE DEF h
<1> DEFINE c == Lua(g)
<1>15. c \in Acts /\ c.op = "lua" /\ c.f = g
  BY LuaIs
<1> HIDE DEF c
<1>16. StandsOn(h, frames', tbc', n)
  <2>1. \A k \in 1..n : frames[k] \in Id
    BY <1>3, <1>4
  <2>2. StayClosed(frames, tbc, tbc', n)
    BY <1>8, <2>1 DEF StayClosed
  <2>3. Agree(frames, frames', n)
    BY <1>10 DEF Agree
  <2> QED
    BY <1>11, <2>2, <2>3, Kept, Zenon
<1>17. Pushable(h, c, n, n + 1, frames', tbc')
  <2>1. Sits(b, c)
    BY <1>5, <1>15 DEF Sits
  <2> QED
    BY <1>5, <1>10, <1>12, <1>15, <2>1 DEF Pushable
<1>18. StandsOn(Append(h, c), frames', tbc', n + 1)
  <2>1. n + 1 \in Nat
    OBVIOUS
  <2> QED
    BY <1>15, <1>16, <1>17, <2>1, Push, Zenon
<1>19. TopFits(c, n + 1, frames', tbc')
  BY <1>10, <1>15 DEF TopFits
<1>20. Forgets(Append(h, c), frames', tbc')
  <2> SUFFICES ASSUME NEW f \in Id, ~Known(Append(h, c), frames', f) PROVE tbc'[f] = <<>>
    BY DEF Forgets
  <2>1. ~OnHost(host, f) /\ ~OnFrames(fr, f)
    BY <1>10, <1>12, <1>13, <1>15, OnHostAppend DEF Known
  <2>2. CASE OnFrames(frames, f)
    <3>1. PICK k \in (n + 1)..Len(frames) : frames[k] = f
      BY <1>9, <2>1, <2>2
    <3>2. tbc[f] = <<>>
      BY <1>1, <1>2, <3>1 DEF TopFits
    <3> QED
      BY <1>8, <3>2
  <2>3. CASE ~OnFrames(frames, f)
    <3>1. tbc[f] = <<>>
      BY <2>1, <2>3 DEF CloseInv, Forgets, Known
    <3> QED
      BY <1>8, <3>1
  <2> QED
    BY <2>2, <2>3
<1>21. Deep(Append(h, c), frames', depth')
  <2>1. Len(Append(h, c)) = Len(h) + 1
    BY <1>12, <1>15, AppendProperties
  <2>2. Calm(Append(h, c), Len(h) + 1) => Calm(Front(host), Len(Front(host)))
    BY <1>12, <1>13, <1>15, CalmAppend
  <2> QED
    BY <1>1, <1>4, <1>10, <2>1, <2>2 DEF Deep
<1>22. Basics(frames', tbc', depth', got')
  <2>1. depth' \in Nat /\ got' \in Errs \cup {None}
    BY <1>1, <1>4, Standing, SMTT(30)
  <2> QED
    BY <1>8, <1>10, <2>1 DEF Basics
<1>23. host' = Append(h, c)
  BY <1>14 DEF c
<1>24. n + 1 \in Nat
  OBVIOUS
<1> QED
  BY <1>10, <1>12, <1>15, <1>18, <1>19, <1>20, <1>21, <1>22, <1>23, <1>24, Rebuilt

(* protected pops a frame that the error left.                             *)
LEMMA UnwindKeeps == CloseInv /\ Unwind => CloseInv'
<1> SUFFICES ASSUME CloseInv, Unwind PROVE CloseInv'
  OBVIOUS
<1> DEFINE N == Len(frames)
           f == Last(frames)
           fr == Front(frames)
           c == CloseOf(f, 0, "error", Top.err, N - 1)
<1>1. /\ Top.op = "pcall" /\ Top.ph = "unwind" /\ N > Top.n /\ frames' = fr
      /\ host' = IF tbc[f] = <<>> THEN host ELSE Append(host, c)
      /\ tbc' = tbc /\ depth' = depth /\ got' = got
  BY DEF Unwind, InUnwind
<1>2. PICK n \in Nat, l \in Nat :
        /\ StandsOn(host, frames, tbc, n) /\ TopFits(Top, n, frames, tbc)
        /\ Pushable(Front(host), Top, l, n, frames, tbc)
  BY OnTop
<1>3. /\ Top \in Acts /\ host \in Seq(Acts) /\ host # <<>> /\ Top = host[Len(host)]
      /\ Len(host) \in Nat \ {0} /\ frames \in Seq(Id) /\ N \in Nat /\ depth \in Nat
      /\ \A k \in 1..N : frames[k] \in Id
  BY Standing
<1>4. Top.err \in Errs /\ n = Top.n /\ Top.n \in Nat /\ N # 0 /\ f = frames[N]
  BY <1>1, <1>2, <1>3, ActIs DEF Pushable, Last
<1>5. f \in Id
  BY <1>3, <1>4
<1>6. /\ fr \in Seq(Id) /\ Len(fr) = N - 1 /\ \A k \in 1..(N - 1) : fr[k] = frames[k]
      /\ \A g : OnFrames(frames, g) => OnFrames(fr, g) \/ g = f
      /\ Distinct(fr)
  <2>1. frames # <<>> /\ N - 1 \in 0..N
    BY <1>3, <1>4, EmptySeq
  <2>2. fr = SubSeq(frames, 1, N - 1)
    BY <1>3, <2>1, FrontLast
  <2>3. PICK m \in 0..Len(frames) : m = N - 1
    BY <2>1
  <2>4. PICK g2 : g2 = SubSeq(frames, 1, m)
    OBVIOUS
  <2>5. Distinct(frames)
    BY DEF CloseInv
  <2>6. /\ g2 \in Seq(Id) /\ Len(g2) = m
        /\ \A k \in 1..m : g2[k] = frames[k]
        /\ \A g : OnFrames(frames, g) => \/ OnFrames(g2, g)
                                         \/ \E k \in (m + 1)..Len(frames) : frames[k] = g
        /\ Distinct(g2)
    BY <1>3, <2>4, <2>5, FramesPrefix
  <2>7. \A k \in (m + 1)..Len(frames) : k = N
    BY <1>3, <2>3
  <2>8. fr = g2
    BY <2>2, <2>3, <2>4
  <2> QED
    BY <1>4, <2>3, <2>6, <2>7, <2>8
<1> HIDE DEF N, f, fr
<1>7. n <= N - 1 /\ N - 1 \in Nat /\ N <= depth
  BY <1>1, <1>3, <1>4 DEF CloseInv, Deep, N
<1>8. StandsOn(host, fr, tbc, n)
  <2>1. Agree(frames, fr, n) /\ StayClosed(frames, tbc, tbc, n)
    BY <1>6, <1>7 DEF Agree, StayClosed
  <2> QED
    BY <1>2, <2>1, Kept, Zenon
<1>9. ~Calm(host, Len(host))
  BY <1>1, <1>3 DEF Calm
<1>10. Basics(fr, tbc, depth, got)
  BY <1>6 DEF CloseInv, Basics
<1>11. CASE tbc[f] = <<>>
  <2>1. host' = host
    BY <1>1, <1>11
  <2>2. TopFits(host[Len(host)], n, fr, tbc)
    BY <1>1, <1>3, <1>6, <1>7 DEF TopFits
  <2>3. Forgets(host, fr, tbc)
    BY <1>6, <1>11 DEF CloseInv, Forgets, Known
  <2>4. Deep(host, fr, depth)
    BY <1>3, <1>6, <1>7, <1>9 DEF Deep
  <2> QED
    BY <1>1, <1>3, <1>6, <1>8, <1>10, <2>1, <2>2, <2>3, <2>4 DEF CloseInv
<1>12. CASE tbc[f] # <<>>
  <2>1. /\ c \in Acts /\ c.op = "close" /\ c.f = f /\ c.keep = 0 /\ c.how = "error"
        /\ c.e = Top.err /\ c.n = N - 1 /\ c.d = depth /\ c.ph = "next"
    BY <1>3, <1>4, <1>5, <1>7, CloseOfError, SMTT(30)
  <2>2. host' = Append(host, c)
    BY <1>1, <1>12
  <2> HIDE DEF c
  <2>3. Pushable(host, c, n, N - 1, fr, tbc)
    <3>1. Sits(Top, c)
      BY <1>1, <2>1 DEF Sits
    <3> QED
      BY <1>1, <1>3, <1>4, <1>7, <1>9, <2>1, <3>1 DEF Pushable
  <2>4. StandsOn(Append(host, c), fr, tbc, N - 1)
    BY <1>7, <1>8, <2>1, <2>3, Push, Zenon
  <2>5. TopFits(c, N - 1, fr, tbc)
    BY <1>4, <1>6, <1>7, <2>1, IdIs DEF TopFits
  <2>6. Forgets(Append(host, c), fr, tbc)
    BY <1>3, <1>6, <2>1, OnHostAppend DEF CloseInv, Forgets, Known
  <2>7. Deep(Append(host, c), fr, depth)
    <3>1. Len(Append(host, c)) = Len(host) + 1
      BY <1>3, <2>1, AppendProperties
    <3> QED
      BY <1>3, <1>6, <1>7, <1>9, <2>1, <3>1, CalmAppend DEF Deep
  <2> QED
    BY <1>1, <1>3, <1>6, <1>7, <1>10, <2>1, <2>2, <2>4, <2>5, <2>6, <2>7, Rebuilt
<1> QED
  BY <1>11, <1>12

LEMMA DeliverKeeps == CloseInv /\ Deliver => CloseInv'
<1> SUFFICES ASSUME CloseInv, Deliver PROVE CloseInv'
  OBVIOUS
<1> DEFINE h == Front(host)
<1>1. /\ Top.op = "pcall" /\ Top.ph = "unwind" /\ Len(frames) <= Top.n
      /\ host' = h /\ depth' = Top.d /\ got' = Top.err
      /\ frames' = frames /\ tbc' = tbc
  BY DEF Deliver, InUnwind, Below
<1>2. PICK n \in Nat, l \in Nat :
        /\ StandsOn(host, frames, tbc, n) /\ TopFits(Top, n, frames, tbc)
        /\ StandsOn(h, frames, tbc, l)
        /\ Pushable(h, Top, l, n, frames, tbc)
  BY OnTop
<1>3. /\ Top \in Acts /\ h \in Seq(Acts) /\ Len(frames) \in Nat
      /\ host = Append(h, Top)
  BY Standing
<1> HIDE DEF h
<1>4. /\ h # <<>> /\ h[Len(h)].op = "lua" /\ n = Top.n /\ l = n /\ Len(frames) = n
      /\ Top.err \in Errs /\ Top.d \in Nat /\ n <= Top.d
      /\ (Calm(h, Len(h)) => Top.d = n)
  BY <1>1, <1>2, <1>3, ActIs DEF Pushable, Sits, TopFits
<1>5. TopFits(h[Len(h)], l, frames, tbc)
  BY <1>3, <1>4 DEF TopFits
<1>6. Forgets(h, frames, tbc)
  BY <1>1, <1>3, OnHostAppend DEF CloseInv, Forgets, Known
<1>7. Deep(h, frames, depth')
  BY <1>1, <1>4 DEF Deep
<1>8. Basics(frames, tbc, depth', got')
  BY <1>1, <1>4 DEF CloseInv, Basics
<1> QED
  BY <1>1, <1>2, <1>4, <1>5, <1>6, <1>7, <1>8 DEF CloseInv
(* RETURN: the function's frame goes with it, all of it closed.            *)
LEMMA ReturnDoneKeeps == CloseInv /\ ReturnDone => CloseInv'
<1> SUFFICES ASSUME CloseInv, ReturnDone PROVE CloseInv'
  OBVIOUS
<1> DEFINE h  == Front(host)
           a  == Last(h)
           h1 == Front(h)
           c  == Last(h1)
           fr == Front(frames)
           b  == [c EXCEPT !.ph = "next"]
<1>1. /\ Top.op = "close" /\ Top.ph = "next" /\ Top.how = "return" /\ Top.e = None
      /\ Closed
      /\ host' = CASE c.op = "lua"   -> h1
                   [] c.op = "pcall" -> Front(h1)
                   [] c.op = "close" -> Append(Front(h1), b)
      /\ frames' = fr /\ depth' = depth - 1 /\ tbc' = tbc /\ got' = got
  BY DEF ReturnDone, Closed, InClose, Below
<1>2. PICK n \in Nat, l \in Nat :
        /\ StandsOn(host, frames, tbc, n) /\ TopFits(Top, n, frames, tbc)
        /\ StandsOn(h, frames, tbc, l)
        /\ Pushable(h, Top, l, n, frames, tbc)
  BY OnTop
<1>3. /\ Top \in Acts /\ h \in Seq(Acts) /\ frames \in Seq(Id) /\ Len(frames) \in Nat
      /\ host = Append(h, Top) /\ Len(h) + 1 = Len(host) /\ depth \in Nat
  BY Standing
<1> HIDE DEF h
<1>4. /\ h # <<>> /\ h[Len(h)].op = "lua" /\ h[Len(h)].f = Top.f /\ n = l
      /\ Len(frames) = n /\ Len(h) > 1 /\ tbc[Top.f] = <<>> /\ Top.f \in Id
  BY <1>1, <1>2, ClosedIs DEF Pushable, Sits, TopFits
<1>5. /\ h = Append(h1, a) /\ h1 \in Seq(Acts) /\ a \in Acts
      /\ a = h[Len(h)] /\ Len(h1) + 1 = Len(h) /\ Len(h) \in Nat
  BY <1>3, <1>4, FrontLast DEF Last
<1> HIDE DEF a
<1>6. PICK l2 \in Nat : /\ StandsOn(h1, frames, tbc, l2)
                        /\ Pushable(h1, a, l2, l, frames, tbc)
  BY <1>2, <1>4, Unpush, Zenon DEF a
<1> HIDE DEF h1
<1>7. /\ a.op = "lua" /\ a.f = Top.f /\ l = l2 + 1 /\ frames[l] = Top.f
      /\ h1 # <<>> /\ Sits(h1[Len(h1)], a)
  <2>1. h1 # <<>>
    BY <1>4, <1>5, EmptySeq
  <2> QED
    BY <1>4, <1>5, <1>6, <2>1 DEF Pushable
<1>8. /\ c \in Acts /\ c = h1[Len(h1)] /\ h1 = Append(Front(h1), c)
      /\ Front(h1) \in Seq(Acts)
  BY <1>5, <1>7, FrontLast DEF Last
<1>9. /\ fr \in Seq(Id) /\ Len(fr) = l2 /\ Distinct(fr)
      /\ \A k \in 1..l2 : fr[k] = frames[k]
      /\ \A g : OnFrames(frames, g) => OnFrames(fr, g) \/ g = Top.f
  <2>1. frames # <<>> /\ l2 \in 0..Len(frames) /\ Len(frames) - 1 = l2
    BY <1>3, <1>4, <1>7, EmptySeq
  <2>2. fr = SubSeq(frames, 1, l2)
    BY <1>3, <2>1, FrontLast
  <2>3. Distinct(frames)
    BY DEF CloseInv
  <2>4. \A k \in (l2 + 1)..Len(frames) : frames[k] = Top.f
    BY <1>4, <1>7
  <2> HIDE DEF fr
  <2> QED
    BY <1>3, <2>1, <2>2, <2>3, <2>4, FramesPrefix
<1> HIDE DEF fr, c
<1>10. Agree(frames, fr, l2) /\ StayClosed(frames, tbc, tbc, l2)
  BY <1>9 DEF Agree, StayClosed
<1>11. StandsOn(h1, fr, tbc, l2)
  BY <1>6, <1>10, Kept, Zenon
<1>12. /\ \A f \in Id : ~Known(h1, fr, f) => tbc[f] = <<>>
       /\ Calm(h1, Len(h1)) => Calm(host, Len(host))
  <2>1. /\ \A f : OnHost(h, f) <=> OnHost(h1, f) \/ f = Top.f
        /\ Calm(h, Len(h)) <=> Calm(h1, Len(h1))
    BY <1>5, <1>7, OnHostAppend, CalmAppend
  <2>2. /\ \A f : OnHost(host, f) <=> OnHost(h, f) \/ f = Top.f
        /\ Calm(host, Len(host)) <=> Calm(h, Len(h))
    BY <1>1, <1>3, OnHostAppend, CalmAppend
  <2> QED
    BY <1>4, <1>9, <2>1, <2>2 DEF CloseInv, Forgets, Known
<1>13. depth - 1 \in Nat /\ l2 <= depth - 1 /\ (Calm(host, Len(host)) => depth - 1 = l2)
  BY <1>3, <1>4, <1>7 DEF CloseInv, Deep
<1>14. Basics(fr, tbc, depth - 1, got)
  BY <1>9, <1>13 DEF CloseInv, Basics
<1>15. CASE c.op = "lua"
  <2>1. host' = h1
    BY <1>1, <1>15
  <2>2. TopFits(h1[Len(h1)], l2, fr, tbc)
    BY <1>8, <1>9, <1>15 DEF TopFits
  <2>3. Forgets(h1, fr, tbc)
    BY <1>12 DEF Forgets
  <2>4. Deep(h1, fr, depth - 1)
    BY <1>9, <1>12, <1>13 DEF Deep
  <2> QED
    BY <1>1, <1>7, <1>9, <1>11, <1>14, <2>1, <2>2, <2>3, <2>4 DEF CloseInv
<1> DEFINE h2 == Front(h1)
<1>16. PICK l3 \in Nat : StandsOn(h2, fr, tbc, l3) /\ Pushable(h2, c, l3, l2, fr, tbc)
  BY <1>7, <1>11, Unpush, Zenon DEF c
<1>17. h1 = Append(h2, c) /\ h2 \in Seq(Acts)
  BY <1>8
<1> HIDE DEF h2
<1>18. CASE c.op = "pcall"
  <2>1. host' = h2
    BY <1>1, <1>18 DEF h2
  <2>2. h2 # <<>> /\ h2[Len(h2)].op = "lua" /\ l3 = l2
    BY <1>16, <1>18 DEF Pushable, Sits
  <2>3. TopFits(h2[Len(h2)], l2, fr, tbc)
    BY <1>9, <2>2 DEF TopFits
  <2>4. c.ph = "body"
    BY <1>7, <1>8, <1>18 DEF Sits
  <2>5. /\ \A f : OnHost(h1, f) => OnHost(h2, f)
        /\ Calm(h2, Len(h2)) => Calm(h1, Len(h1))
    <3>1. /\ \A f : OnHost(Append(h2, c), f) <=> OnHost(h2, f) \/ (c.op # "pcall" /\ c.f = f)
          /\ Calm(Append(h2, c), Len(h2) + 1) <=> Calm(h2, Len(h2)) /\ (c.op = "pcall" => c.ph = "body")
      BY <1>8, <1>17, OnHostAppend, CalmAppend
    <3>2. Len(h1) = Len(h2) + 1
      BY <1>8, <1>17, AppendProperties
    <3> QED
      BY <1>17, <1>18, <2>4, <3>1, <3>2
  <2>6. Forgets(h2, fr, tbc)
    BY <1>12, <2>5 DEF Forgets, Known
  <2>7. Deep(h2, fr, depth - 1)
    BY <1>9, <1>12, <1>13, <2>5 DEF Deep
  <2> QED
    BY <1>1, <1>9, <1>14, <1>16, <2>1, <2>2, <2>3, <2>6, <2>7 DEF CloseInv
<1>19. CASE c.op = "close"
  <2>1. host' = Append(h2, b)
    BY <1>1, <1>19 DEF h2
  <2>2. c.ph = "body"
    BY <1>7, <1>8, <1>19 DEF Sits
  <2>3. b \in Acts /\ SameScope(c, b) /\ b.ph = "next" /\ b.e = c.e
    <3>1. PICK ph \in {"next", "body"} : ph = "next"
      OBVIOUS
    <3>2. b = [c EXCEPT !.ph = ph]
      BY <3>1
    <3> HIDE DEF b
    <3> QED
      BY <1>8, <1>19, <2>2, <3>1, <3>2, EditPhase, SMTT(30)
  <2> HIDE DEF b
  <2>4. Pushable(h2, b, l3, l2, fr, tbc)
    <3>1. b.how = "error" => b.e \in Errs
      BY <1>16, <1>19, <2>3 DEF Pushable, SameScope
    <3> QED
      BY <1>16, <2>3, <3>1, SameStand
  <2>5. StandsOn(Append(h2, b), fr, tbc, l2)
    BY <1>16, <2>3, <2>4, Push, Zenon
  <2>6. TopFits(b, l2, fr, tbc)
    BY <1>9, <2>3 DEF TopFits, SameScope
  <2>7. /\ \A f : OnHost(h1, f) => OnHost(Append(h2, b), f)
        /\ Calm(Append(h2, b), Len(Append(h2, b))) => Calm(h1, Len(h1))
    <3>1. /\ \A f : OnHost(Append(h2, c), f) <=> OnHost(h2, f) \/ (c.op # "pcall" /\ c.f = f)
          /\ Calm(Append(h2, c), Len(h2) + 1) <=> Calm(h2, Len(h2)) /\ (c.op = "pcall" => c.ph = "body")
      BY <1>8, <1>17, OnHostAppend, CalmAppend
    <3>2. /\ \A f : OnHost(Append(h2, b), f) <=> OnHost(h2, f) \/ (b.op # "pcall" /\ b.f = f)
          /\ Calm(Append(h2, b), Len(h2) + 1) <=> Calm(h2, Len(h2)) /\ (b.op = "pcall" => b.ph = "body")
      BY <2>3, <1>17, OnHostAppend, CalmAppend
    <3>3. Len(h1) = Len(h2) + 1 /\ Len(Append(h2, b)) = Len(h2) + 1
      BY <1>8, <1>17, <2>3, AppendProperties
    <3> QED
      BY <1>17, <1>19, <2>3, <3>1, <3>2, <3>3 DEF SameScope
  <2>8. Forgets(Append(h2, b), fr, tbc)
    BY <1>12, <2>7 DEF Forgets, Known
  <2>9. Deep(Append(h2, b), fr, depth - 1)
    BY <1>9, <1>12, <1>13, <2>7 DEF Deep
  <2> QED
    BY <1>1, <1>9, <1>14, <1>17, <2>1, <2>3, <2>5, <2>6, <2>8, <2>9, Rebuilt
<1> QED
  BY <1>8, <1>15, <1>18, <1>19, ActIs
-----------------------------------------------------------------------------
(* An error unwinds the host to the activation that catches it.  What it   *)
(* passes are functions, and those are on I.frames.                        *)
LEMMA LuaRun ==
  ASSUME NEW h, NEW fr, NEW tb, NEW lev, Stands(h, fr, tb, lev), NEW m \in 1..Len(h),
         h[m].op = "lua", NEW i \in 1..m, \A j \in (i + 1)..m : ~Catching(h[j])
  PROVE  \A k \in (i + 1)..m : h[k].op = "lua"
<1> DEFINE T == {x \in Nat : m - x > i => h[m - x].op = "lua"}
<1>1. /\ h \in Seq(Acts) /\ Len(h) \in Nat /\ m \in Nat /\ i \in Nat
      /\ \A k \in 1..Len(h) : Fits(h, k, lev, fr) /\ h[k] \in Acts
  BY ElementOfSeq DEF Stands
<1>2. 0 \in T
  BY <1>1
<1>3. ASSUME NEW x \in T, x \in Nat PROVE x + 1 \in T
  <2> SUFFICES ASSUME m - (x + 1) > i PROVE h[m - (x + 1)].op = "lua"
    BY <1>3
  <2>1. PICK k \in Nat : k = m - x
    BY <1>1, <1>3
  <2>2. /\ k \in 1..Len(h) /\ k > 1 /\ k - 1 = m - (x + 1) /\ k - 1 \in (i + 1)..m
        /\ k - 1 \in 1..Len(h) /\ k > i
    BY <1>1, <1>3, <2>1
  <2>3. h[k].op = "lua" /\ Sits(h[k - 1], h[k])
    BY <1>1, <1>3, <2>1, <2>2 DEF Fits
  <2>4. h[k - 1].op = "lua" \/ h[k - 1].ph = "body"
    BY <2>3 DEF Sits
  <2>5. ~Catching(h[k - 1])
    BY <2>2
  <2>6. h[k - 1].op \in {"lua", "pcall", "close"}
    BY <1>1, <2>2, ActIs
  <2>7. h[k - 1].op = "lua"
    BY <2>4, <2>5, <2>6 DEF Catching
  <2> QED
    BY <2>2, <2>7
<1>4. Nat \subseteq T
  <2> HIDE DEF T
  <2> QED
    BY <1>2, <1>3, AllNumbers
<1> TAKE k \in (i + 1)..m
<1>5. m - k \in T /\ m - (m - k) = k /\ k > i
  BY <1>1, <1>4
<1> QED
  BY <1>5

LEMMA CutOff ==
  ASSUME NEW h, NEW fr, NEW tb, NEW lev, Stands(h, fr, tb, lev), NEW m \in 1..Len(h)
  PROVE  StandsOn(SubSeq(h, 1, m), fr, tb, lev[m])
<1>1. h \in Seq(Acts) /\ m \in 0..Len(h)
  BY DEF Stands
<1>2. Agree(fr, fr, lev[m]) /\ StayClosed(fr, tb, tb, lev[m])
  BY DEF Agree, StayClosed
<1> QED
  BY <1>1, <1>2, Cut, Zenon

LEMMA ThrowKeeps ==
  ASSUME CloseInv, NEW e \in Errs, NEW m \in 1..Len(host), Throw(e, m),
         frames' = frames, tbc' = tbc, depth' = depth, got' = got,
         host[m].op = "lua",
         m = Len(host) \/ /\ m + 1 = Len(host) /\ Top.op = "close" /\ Top.f = host[m].f
  PROVE  CloseInv'
<1>1. PICK i \in 1..m :
        /\ Catching(host[i]) /\ \A j \in (i + 1)..m : ~Catching(host[j])
        /\ host' = Append(SubSeq(host, 1, i - 1),
                          IF host[i].op = "pcall"
                          THEN [host[i] EXCEPT !.ph = "unwind", !.err = e]
                          ELSE [host[i] EXCEPT !.ph = "left", !.err = e,
                                               !.j = Len(frames)])
  BY DEF Throw
<1>2. /\ host \in Seq(Acts) /\ Len(host) \in Nat \ {0} /\ Top = host[Len(host)]
      /\ \A k \in 1..Len(host) : host[k] \in Acts
      /\ Len(frames) \in Nat /\ m \in Nat /\ i \in Nat
  BY Standing
<1>3. PICK n : StandsOn(host, frames, tbc, n) /\ TopFits(host[Len(host)], n, frames, tbc)
  BY DEF CloseInv
<1>4. PICK lev : Stands(host, frames, tbc, lev) /\ lev[Len(host)] = n
  BY <1>3 DEF StandsOn
<1>5. /\ \A k \in 0..Len(host) : lev[k] \in Nat
      /\ \A k, j \in 0..Len(host) : j <= k => lev[j] <= lev[k]
      /\ \A k \in 1..Len(host) : Fits(host, k, lev, frames)
  BY <1>4 DEF Stands
<1>6. \A k \in 1..Len(host) : lev[k] <= Len(frames)
  <2> TAKE k \in 1..Len(host)
  <2>1. k \in 0..Len(host) /\ Len(host) \in 0..Len(host) /\ k <= Len(host)
    BY <1>2
  <2>2. lev[k] <= n /\ n <= Len(frames) /\ lev[k] \in Nat /\ n \in Nat
    BY <1>3, <1>4, <1>5, <2>1 DEF TopFits
  <2> QED
    BY <1>2, <2>2
<1>7. \A k \in (i + 1)..m : host[k].op = "lua"
  <2>1. \A j \in (i + 1)..m : ~Catching(host[j])
    BY <1>1
  <2> QED
    BY <1>4, <2>1, LuaRun
<1>8. \A k \in (i + 1)..m : OnFrames(frames, host[k].f)
  <2> TAKE k \in (i + 1)..m
  <2>1. k \in 1..Len(host) /\ k - 1 \in 0..Len(host)
    BY <1>2
  <2>2. lev[k] = lev[k - 1] + 1 /\ frames[lev[k]] = host[k].f
    BY <1>5, <1>7, <2>1 DEF Fits
  <2>3. lev[k] \in 1..Len(frames)
    BY <1>2, <1>5, <1>6, <2>1, <2>2, SMTT(30)
  <2> QED
    BY <2>2, <2>3 DEF OnFrames
<1>9. i < m /\ i \in 1..Len(host)
  <2>1. i # m
    BY <1>1 DEF Catching
  <2> QED
    BY <1>2, <2>1
<1> DEFINE h == SubSeq(host, 1, i)
           h1 == SubSeq(host, 1, i - 1)
           a == host[i]
<1>10. StandsOn(h, frames, tbc, lev[i])
  BY <1>4, <1>9, CutOff, Zenon
<1>11. /\ h = Append(h1, a) /\ h1 \in Seq(Acts) /\ Len(h1) = i - 1 /\ a \in Acts
       /\ \A k \in 1..(i - 1) : h1[k] = host[k]
  <2>1. i - 1 \in 0..Len(host)
    BY <1>2, <1>9
  <2>2. h1 \in Seq(Acts) /\ Len(h1) = i - 1 /\ \A k \in 1..(i - 1) : h1[k] = host[k]
    BY <1>2, <2>1, PrefixIs
  <2> QED
    BY <1>2, <1>9, <2>2, PrefixAppend
<1> HIDE DEF h1, a
<1> HIDE DEF h
<1>12. h # <<>> /\ Front(h) = h1 /\ Last(h) = a
  BY <1>11, AppendIs
<1>13. PICK l \in Nat : StandsOn(h1, frames, tbc, l) /\ Pushable(h1, a, l, lev[i], frames, tbc)
  BY <1>10, <1>12, Unpush
<1>14. PICK p \in Nat : p = lev[i] /\ p <= Len(frames)
  <2>1. i \in 0..Len(host)
    BY <1>9
  <2> QED
    BY <1>5, <1>6, <1>9, <2>1
<1>15. ASSUME NEW b \in Acts, host' = Append(h1, b),
              \/ a.op = "pcall" /\ b.op = "pcall" /\ b.ph = "unwind" /\ b.n = a.n /\ b.d = a.d
              \/ /\ SameScope(a, b) /\ b.e = a.e /\ b.ph = "left" /\ b.j = Len(frames)
       PROVE  CloseInv'
  <2>1. Pushable(h1, b, l, p, frames, tbc)
    <3>1. SameScope(a, b) /\ b.e = a.e /\ b.how = "error" => b.e \in Errs
      BY <1>13 DEF Pushable, SameScope
    <3>2. Pushable(h1, a, l, p, frames, tbc)
      BY <1>13, <1>14
    <3>3. \/ SameScope(a, b) /\ (b.how = "error" => b.e \in Errs)
          \/ a.op = "pcall" /\ b.op = "pcall" /\ b.n = a.n /\ b.d = a.d
      BY <1>15, <3>1
    <3> QED
      BY <3>2, <3>3, SameStand
  <2>2. StandsOn(Append(h1, b), frames, tbc, p)
    BY <1>13, <1>14, <1>15, <2>1, Push, Zenon
  <2>3. TopFits(b, p, frames, tbc)
    BY <1>2, <1>14, <1>15 DEF TopFits, SameScope
  <2>4. Forgets(Append(h1, b), frames, tbc)
    <3> SUFFICES ASSUME NEW f \in Id, ~Known(Append(h1, b), frames, f) PROVE tbc[f] = <<>>
      BY DEF Forgets
    <3>1. ~OnFrames(frames, f) /\ ~OnHost(h1, f) /\ ~(b.op # "pcall" /\ b.f = f)
      BY <1>11, <1>15, OnHostAppend DEF Known
    <3>2. ASSUME NEW k \in 1..Len(host), host[k].op # "pcall", host[k].f = f PROVE FALSE
      <4>1. CASE k \in 1..(i - 1)
        BY <1>11, <3>1, <3>2, <4>1 DEF OnHost
      <4>2. CASE k = i
        BY <1>15, <3>1, <3>2, <4>2 DEF SameScope, a
      <4>3. CASE k \in (i + 1)..m
        BY <1>8, <3>1, <3>2, <4>3
      <4>4. CASE k > m
        <5>1. k = Len(host) /\ Top.f = host[m].f
          BY <1>2, <4>4
        <5>2. m \in (i + 1)..m
          BY <1>2, <1>9
        <5> QED
          BY <1>2, <1>8, <3>1, <3>2, <5>1, <5>2
      <4> QED
        BY <1>2, <4>1, <4>2, <4>3, <4>4
    <3>3. ~OnHost(host, f)
      BY <3>2 DEF OnHost
    <3> QED
      BY <3>1, <3>3 DEF CloseInv, Forgets, Known
  <2>5. Deep(Append(h1, b), frames, depth)
    <3>1. Calm(Append(h1, b), Len(h1) + 1) <=> Calm(h1, Len(h1)) /\ (b.op = "pcall" => b.ph = "body")
      BY <1>11, <1>15, CalmAppend
    <3>2. Len(Append(h1, b)) = Len(h1) + 1
      BY <1>11, <1>15, AppendProperties
    <3>3. ASSUME Calm(Append(h1, b), Len(h1) + 1) PROVE Calm(host, Len(host))
      <4>1. a.op # "pcall" /\ Calm(h1, i - 1)
        BY <1>11, <1>15, <3>1, <3>3 DEF SameScope
      <4>2. ASSUME NEW k \in 1..Len(host), host[k].op = "pcall" PROVE host[k].ph = "body"
        <5>1. CASE k \in 1..(i - 1)
          BY <1>11, <4>1, <4>2, <5>1 DEF Calm
        <5>2. CASE k = i
          BY <4>1, <4>2, <5>2 DEF a
        <5>3. CASE k \in (i + 1)..m
          BY <1>7, <4>2, <5>3
        <5>4. CASE k > m
          BY <1>2, <4>2, <5>4
        <5> QED
          BY <1>2, <5>1, <5>2, <5>3, <5>4
      <4> QED
        BY <4>2 DEF Calm
    <3> QED
      BY <3>2, <3>3 DEF CloseInv, Deep
  <2>6. Basics(frames, tbc, depth, got) /\ Distinct(frames)
    BY DEF CloseInv
  <2> QED
    BY <1>11, <1>14, <1>15, <2>2, <2>3, <2>4, <2>5, <2>6, Rebuilt
<1>16. CASE a.op = "pcall"
  <2>1. PICK b : b = [a EXCEPT !.ph = "unwind", !.err = e]
    OBVIOUS
  <2>2. a \in Bodies \cup Unwinds
    BY <1>11, <1>16, ActIs
  <2>3. b \in Unwinds /\ b.op = "pcall" /\ b.ph = "unwind" /\ b.n = a.n /\ b.d = a.d
    BY <2>1, <2>2 DEF Bodies, Unwinds
  <2>4. host' = Append(h1, b) /\ b \in Acts
    BY <1>1, <1>16, <2>1, <2>3 DEF h1, a, Acts
  <2> QED
    BY <1>15, <1>16, <2>3, <2>4
<1>17. CASE a.op # "pcall"
  <2>1. PICK b : b = [a EXCEPT !.ph = "left", !.err = e, !.j = Len(frames)]
    OBVIOUS
  <2>2. a \in Closes \cup Lefts /\ a.op = "close"
    BY <1>1, <1>11, <1>17, ActIs DEF Catching, a
  <2>3. b \in Lefts /\ SameScope(a, b) /\ b.e = a.e /\ b.ph = "left" /\ b.j = Len(frames)
    <3>1. PICK j \in Nat : j = Len(frames)
      BY <1>2
    <3>2. b = [a EXCEPT !.ph = "left", !.err = e, !.j = j]
      BY <2>1, <3>1
    <3>3. b \in Lefts /\ SameScope(a, b) /\ b.e = a.e /\ b.ph = "left" /\ b.j = j
      BY <2>2, <3>2 DEF Closes, Lefts, SameScope
    <3> QED
      BY <3>1, <3>3
  <2>4. host' = Append(h1, b) /\ b \in Acts
    BY <1>1, <1>17, <2>1, <2>3 DEF h1, a, Acts
  <2> QED
    BY <1>15, <2>3, <2>4
<1> QED
  BY <1>16, <1>17
LEMMA RaiseKeeps == \A e \in Errs : CloseInv /\ Raise(e) => CloseInv'
<1> SUFFICES ASSUME NEW e \in Errs, CloseInv, Raise(e) PROVE CloseInv'
  OBVIOUS
<1>1. /\ Top.op = "lua" /\ Throw(e, Len(host))
      /\ frames' = frames /\ tbc' = tbc /\ depth' = depth /\ got' = got
  BY DEF Raise, InGuest
<1>2. PICK m \in 1..Len(host) : m = Len(host)
  BY Standing
<1>3. host[m].op = "lua" /\ Throw(e, m)
  BY <1>1, <1>2, Standing
<1> QED
  BY <1>1, <1>2, <1>3, ThrowKeeps

LEMMA ExitFailsKeeps == CloseInv /\ ExitFails => CloseInv'
<1> SUFFICES ASSUME CloseInv, ExitFails PROVE CloseInv'
  OBVIOUS
<1>1. /\ Top.op = "close" /\ Top.how \in {"block", "return"} /\ Top.e # None
      /\ Throw(Top.e, Len(Front(host)))
      /\ frames' = frames /\ tbc' = tbc /\ depth' = depth /\ got' = got
  BY DEF ExitFails, Closed, InClose, Below
<1>2. PICK n \in Nat, l \in Nat : Pushable(Front(host), Top, l, n, frames, tbc)
  BY OnTop
<1>3. /\ Top \in Acts /\ Front(host) \in Seq(Acts) /\ Len(Front(host)) = Len(host) - 1
      /\ \A i \in 1..(Len(host) - 1) : Front(host)[i] = host[i]
      /\ Len(host) \in Nat
  BY Standing
<1>4. PICK e \in Errs : e = Top.e
  BY <1>1, <1>3, ActIs
<1>5. Front(host) # <<>> /\ Sits(Front(host)[Len(Front(host))], Top)
  BY <1>1, <1>2 DEF Pushable
<1>6. PICK m \in 1..Len(host) : m = Len(Front(host)) /\ m + 1 = Len(host) /\ m \in 1..(Len(host) - 1)
  BY <1>3, <1>5, EmptySeq
<1>7. host[m].op = "lua" /\ Top.f = host[m].f
  BY <1>1, <1>3, <1>5, <1>6 DEF Sits
<1>8. Throw(e, m)
  BY <1>1, <1>4, <1>6
<1> QED
  BY <1>1, <1>6, <1>7, <1>8, ThrowKeeps

LEMMA NextClose == CloseInv /\ [Next]_vars => CloseInv'
<1> SUFFICES ASSUME CloseInv, [Next]_vars PROVE CloseInv'
  OBVIOUS
<1>1. CASE Call
  BY <1>1, CallKeeps
<1>2. CASE \E v \in Vars : Declare(v)
  BY <1>2, DeclareKeeps
<1>3. CASE \E keep \in 0..Cardinality(Vars), how \in {"block", "return"} : Exit(keep, how)
  <2>1. PICK keep \in 0..Cardinality(Vars), how \in {"block", "return"} : Exit(keep, how)
    BY <1>3
  <2>2. keep \in Nat
    OBVIOUS
  <2> QED
    BY <2>1, <2>2, ExitKeeps
<1>4. CASE \E e \in Errs : Raise(e) \/ NoHandler(e)
  BY <1>4, RaiseKeeps, NoHandlerKeeps
<1>5. CASE CloseNext
  BY <1>5, CloseNextKeeps
<1>6. CASE LeftNext
  BY <1>6, LeftNextKeeps
<1>7. CASE LeftDone
  BY <1>7, LeftDoneKept
<1>8. CASE BlockDone
  BY <1>8, BlockDoneKeeps
<1>9. CASE ReturnDone
  BY <1>9, ReturnDoneKeeps
<1>10. CASE ExitFails
  BY <1>10, ExitFailsKeeps
<1>11. CASE ErrorDone
  BY <1>11, ErrorDoneKeeps
<1>12. CASE Unwind
  BY <1>12, UnwindKeeps
<1>13. CASE Deliver
  BY <1>13, DeliverKeeps
<1>14. CASE UNCHANGED vars
  BY <1>14 DEF vars, CloseInv
<1> QED
  BY <1>1, <1>2, <1>3, <1>4, <1>5, <1>6, <1>7, <1>8, <1>9, <1>10, <1>11, <1>12, <1>13,
     <1>14 DEF Next

-----------------------------------------------------------------------------
(* The invariant of close_upvals and protected: every activation of the    *)
(* host's stack stands on the frames it started on, the frames above those *)
(* are what an error left and are closed from the innermost out, and no    *)
(* frame that still has a variable to close is out of reach.               *)
THEOREM CloseInvariant == Spec => []CloseInv
<1>1. Init => CloseInv
  BY InitClose
<1>2. CloseInv /\ [Next]_vars => CloseInv'
  BY NextClose
<1> QED
  BY <1>1, <1>2, PTL DEF Spec

LEMMA TypesHold == CloseInv => CloseTypeOK
<1> SUFFICES ASSUME CloseInv PROVE CloseTypeOK
  OBVIOUS
<1>1. ASSUME NEW i \in DOMAIN host PROVE host[i] \in Acts
  BY Standing
<1>2. /\ frames \in Seq(Id) /\ tbc \in [Id -> Seq(Vars)]
      /\ depth \in Nat /\ got \in Errs \cup {None}
  BY Standing
<1>3. ASSUME NEW a \in Acts
      PROVE  \/ a.op = "lua" /\ a.f \in Id
             \/ /\ a.op = "pcall" /\ a.n \in Nat /\ a.d \in Nat
                /\ \/ a.ph = "body" /\ a.err = None
                   \/ a.ph = "unwind" /\ a.err \in Errs
             \/ /\ a.op = "close" /\ a.f \in Id /\ a.keep \in Nat
                /\ a.how \in {"block", "return", "error"} /\ a.e \in Errs \cup {None}
                /\ a.n \in Nat /\ a.d \in Nat /\ a.j \in Nat
                /\ \/ a.ph \in {"next", "body"} /\ a.err = None
                   \/ a.ph = "left" /\ a.err \in Errs
  BY ActIs
<1> QED
  BY <1>1, <1>2, <1>3 DEF CloseTypeOK

LEMMA NothingForgotten == CloseInv => NoneForgotten
BY InUseIs DEF NoneForgotten, CloseInv, Forgets

LEMMA HandlerStands == CloseInv => HandlerAboveScope
<1> SUFFICES ASSUME CloseInv, NEW i \in DOMAIN host,
                    host[i].op = "close", host[i].ph = "body"
             PROVE  /\ frames[host[i].n + 1] = host[i + 1].f
                    /\ host[i].how # "error" => frames[host[i].n] = host[i].f
  BY DEF HandlerAboveScope
<1>1. PICK n : StandsOn(host, frames, tbc, n) /\ TopFits(host[Len(host)], n, frames, tbc)
  BY DEF CloseInv
<1>2. PICK lev : Stands(host, frames, tbc, lev) /\ lev[Len(host)] = n
  BY <1>1 DEF StandsOn
<1>3. /\ Len(host) \in Nat /\ DOMAIN host = 1..Len(host)
      /\ \A k \in 1..Len(host) : host[k] \in Acts
  BY Standing
<1>4. \A k \in 1..Len(host) : Fits(host, k, lev, frames)
  BY <1>2 DEF Stands
<1>5. i # Len(host)
  BY <1>1 DEF TopFits
<1>6. i \in 1..Len(host) /\ i + 1 \in 1..Len(host) /\ i + 1 > 1 /\ (i + 1) - 1 = i
  BY <1>3, <1>5
<1>7. Fits(host, i, lev, frames) /\ Fits(host, i + 1, lev, frames)
  BY <1>4, <1>6
<1>8. host[i + 1].op = "lua"
  <2>1. Sits(host[i], host[i + 1])
    BY <1>6, <1>7 DEF Fits
  <2> QED
    BY <2>1, <1>6 DEF Sits
<1>9. frames[host[i].n + 1] = host[i + 1].f /\ lev[i] = host[i].n
  <2>1. lev[i + 1] = lev[i] + 1 /\ frames[lev[i + 1]] = host[i + 1].f
    BY <1>6, <1>7, <1>8 DEF Fits
  <2> QED
    BY <1>7, <2>1 DEF Fits
<1>10. ASSUME host[i].how # "error" PROVE frames[host[i].n] = host[i].f
  <2>1. i > 1 /\ lev[i] = lev[i - 1] /\ Sits(host[i - 1], host[i])
    BY <1>6, <1>7, <1>10 DEF Fits
  <2>2. host[i - 1].op = "lua" /\ host[i - 1].f = host[i].f
    BY <1>10, <2>1 DEF Sits
  <2>3. Fits(host, i - 1, lev, frames)
    BY <1>3, <1>4, <2>1
  <2> QED
    BY <1>9, <2>1, <2>2, <2>3 DEF Fits
<1> QED
  BY <1>9, <1>10

LEMMA DepthsMatch == CloseInv => DepthMatch
BY Standing DEF DepthMatch, CloseInv, Deep, Calm

(* However handlers and functions fail, nest and leave frames behind, what *)
(* close_upvals and protected unwind leaves no variable unclosed, no       *)
(* handler above anything but its scope, and no depth of its own.          *)
THEOREM UnwindingLeavesNothing == Spec => []LeavesNothing
<1>1. CloseInv => LeavesNothing
  BY TypesHold, NothingForgotten, HandlerStands, DepthsMatch DEF LeavesNothing
<1> QED
  BY <1>1, CloseInvariant, PTL
-----------------------------------------------------------------------------
(* Induction over sequences, by a set that has the empty one and what is   *)
(* appended to its members.                                                *)
LEMMA AllSequences ==
  ASSUME NEW S, NEW T, <<>> \in T,
         \A s \in Seq(S), e \in S : s \in T => Append(s, e) \in T
  PROVE  Seq(S) \subseteq T
<1> DEFINE N == {n \in Nat : \A s \in Seq(S) : Len(s) = n => s \in T}
<1>1. 0 \in N
  <2>1. \A s \in Seq(S) : Len(s) = 0 => s = <<>>
    BY EmptySeq
  <2> QED
    BY <2>1
<1>2. ASSUME NEW n \in N, n \in Nat PROVE n + 1 \in N
  <2> SUFFICES ASSUME NEW s \in Seq(S), Len(s) = n + 1 PROVE s \in T
    BY <1>2
  <2>1. s # <<>>
    BY <1>2, EmptySeq
  <2>2. PICK t \in Seq(S), e \in S : s = Append(t, e)
    BY <2>1, SequenceEmptyOrAppend
  <2>3. Len(t) = n
    <3>1. Len(s) = Len(t) + 1 /\ Len(t) \in Nat
      BY <2>2, AppendProperties, LenProperties
    <3> QED
      BY <1>2, <3>1
  <2> QED
    BY <1>2, <2>2, <2>3
<1>3. Nat \subseteq N
  <2> HIDE DEF N
  <2> QED
    BY <1>1, <1>2, AllNumbers
<1> QED
  BY <1>3, LenProperties

(* Joining sequences.                                                      *)
LEMMA JoinIs ==
  ASSUME NEW X, NEW s \in Seq(X), NEW t \in Seq(X)
  PROVE  /\ s \o t \in Seq(X) /\ s \o <<>> = s
         /\ Len(s \o t) = Len(s) + Len(t)
         /\ \A i \in 1..Len(s) : (s \o t)[i] = s[i]
         /\ \A i \in 1..Len(t) : (s \o t)[Len(s) + i] = t[i]
<1>1. Len(s) \in Nat /\ Len(t) \in Nat
  BY LenProperties
<1>2. /\ s \o t \in Seq(X) /\ Len(s \o t) = Len(s) + Len(t)
      /\ \A i \in 1..Len(s) + Len(t) :
           (s \o t)[i] = IF i <= Len(s) THEN s[i] ELSE t[i - Len(s)]
  BY ConcatProperties
<1>3. \A i \in 1..Len(s) : (s \o t)[i] = s[i]
  <2> TAKE i \in 1..Len(s)
  <2>1. i \in 1..Len(s) + Len(t) /\ i <= Len(s)
    BY <1>1
  <2> QED
    BY <1>2, <2>1
<1>4. \A i \in 1..Len(t) : (s \o t)[Len(s) + i] = t[i]
  <2> TAKE i \in 1..Len(t)
  <2>1. /\ Len(s) + i \in 1..Len(s) + Len(t) /\ ~(Len(s) + i <= Len(s))
        /\ (Len(s) + i) - Len(s) = i
    BY <1>1
  <2> QED
    BY <1>2, <2>1
<1> QED
  BY <1>2, <1>3, <1>4, ConcatEmptySeq

LEMMA JoinAppend ==
  ASSUME NEW X, NEW s \in Seq(X), NEW t \in Seq(X), NEW x \in X
  PROVE  s \o Append(t, x) = Append(s \o t, x)
<1>1. <<x>> \in Seq(X) /\ Append(t, x) = t \o <<x>> /\ s \o t \in Seq(X)
  BY AppendIsConcat, ConcatProperties
<1>2. Append(s \o t, x) = (s \o t) \o <<x>>
  BY <1>1, AppendIsConcat
<1>3. (s \o t) \o <<x>> = s \o (t \o <<x>>)
  BY <1>1, ConcatAssociative
<1> QED
  BY <1>1, <1>2, <1>3

LEMMA JoinFront ==
  ASSUME NEW X, NEW s \in Seq(X), NEW t \in Seq(X), t # <<>>
  PROVE  /\ Front(s \o t) = s \o Front(t) /\ Last(s \o t) = Last(t)
         /\ Front(t) \in Seq(X) /\ s \o t # <<>>
<1>1. /\ t = Append(Front(t), Last(t)) /\ Front(t) \in Seq(X) /\ Last(t) \in X
  BY FrontLast
<1> PICK u \in Seq(X), x \in X : u = Front(t) /\ x = Last(t)
  BY <1>1
<1>2. s \o t = Append(s \o u, x)
  <2>1. t = Append(u, x)
    BY <1>1
  <2>2. s \o Append(u, x) = Append(s \o u, x)
    BY JoinAppend
  <2> QED
    BY <2>1, <2>2
<1>3. s \o u \in Seq(X)
  BY ConcatProperties
<1>4. Front(Append(s \o u, x)) = s \o u /\ Last(Append(s \o u, x)) = x
      /\ Append(s \o u, x) # <<>>
  BY <1>3, AppendIs
<1> QED
  BY <1>1, <1>2, <1>4
Up(h, fr, i) == IF i = Len(h) THEN Len(fr) ELSE h[i + 1].n
VarsIn(tb, f) == [i \in DOMAIN tb[f] |-> A!Var(tb[f][i])]
Open(fr, tb, i, j) ==
    LET upto[k \in 0..j] ==
          IF k <= i THEN <<>> ELSE upto[k - 1] \o VarsIn(tb, fr[k])
    IN  upto[j]
Goes(tb, a, below) ==
    IF a.e # None THEN A!Raise(a.e)
    ELSE A!Leave(IF a.how = "return" THEN Len(below) - Len(tb[a.f]) - 1
                 ELSE Len(below) - Len(tb[a.f]) + a.keep)
Ground(tb, a, below) ==
    LET all == IF a.how = "error" THEN below \o VarsIn(tb, a.f) ELSE below
    IN  IF a.e # None THEN A!Abandon(all) ELSE all
Job(fr, tb, a, below, n) ==
    CASE a.op = "lua" -> Append(below, A!Fn) \o VarsIn(tb, a.f)
      [] a.op = "pcall" /\ a.ph = "body" -> Append(below, A!Protected)
      [] a.op = "pcall" /\ a.ph = "unwind" ->
           Append(below, A!Protected) \o Open(fr, tb, a.n, n)
      [] a.op = "close" /\ a.ph = "next" -> Ground(tb, a, below)
      [] a.op = "close" /\ a.ph = "body" ->
           Append(Ground(tb, a, below), A!Handler(Goes(tb, a, below)))
      [] a.op = "close" /\ a.ph = "left" ->
           Append(Ground(tb, a, below), A!Handler(Goes(tb, a, below))) \o Open(fr, tb, a.n, a.j)
Tasks(h, fr, tb) == CHOOSE t : t = [p \in 0..Len(h) |->
    IF p = 0 THEN <<>> ELSE Job(fr, tb, h[p], t[p - 1], IF p = Len(h) THEN Len(fr) ELSE h[p + 1].n)]

-----------------------------------------------------------------------------
(* What an error leaves of a list of things to do.                         *)
IsVar(x) == x.k = "var"

(* u[k] is what it leaves of the first k members of s.                     *)
RestOf(u, s, k) ==
    IF k = 0 THEN <<>>
    ELSE IF A!IsCatcher(s[k]) THEN SubSeq(s, 1, k)
    ELSE IF IsVar(s[k]) THEN Append(u[k - 1], s[k]) ELSE u[k - 1]
Rests(u, s, n) == u = [k \in 0..n |-> RestOf(u, s, k)]

LEMMA RestsExist ==
  ASSUME NEW s
  PROVE  \A n \in Nat : \E u : Rests(u, s, n)
<1> DEFINE T == {n \in Nat : \E u : Rests(u, s, n)}
<1>1. 0 \in T
  <2> DEFINE u == [k \in 0..0 |-> <<>>]
  <2>1. Rests(u, s, 0)
    <3>1. \A k \in 0..0 : RestOf(u, s, k) = <<>>
      BY DEF RestOf
    <3> QED
      BY <3>1 DEF Rests
  <2> QED
    BY <2>1
<1>2. ASSUME NEW n \in T, n \in Nat PROVE n + 1 \in T
  <2>1. PICK u : Rests(u, s, n)
    BY <1>2
  <2> DEFINE v == [k \in 0..(n + 1) |-> RestOf(u, s, k)]
  <2>2. ASSUME NEW k \in 0..(n + 1) PROVE v[k] = RestOf(v, s, k)
    <3>1. v[k] = RestOf(u, s, k)
      OBVIOUS
    <3>2. k # 0 => k - 1 \in 0..n /\ k - 1 \in 0..(n + 1)
      BY <1>2
    <3>3. k # 0 => u[k - 1] = RestOf(u, s, k - 1)
      BY <2>1, <3>2 DEF Rests
    <3>4. k # 0 => v[k - 1] = u[k - 1]
      BY <3>2, <3>3
    <3> HIDE DEF v
    <3> QED
      BY <3>1, <3>4 DEF RestOf
  <2>3. v = [k \in 0..(n + 1) |-> v[k]]
    OBVIOUS
  <2> HIDE DEF v
  <2>4. Rests(v, s, n + 1)
    BY <2>2, <2>3 DEF Rests
  <2> QED
    BY <1>2, <2>4
<1>3. Nat \subseteq T
  <2> HIDE DEF T
  <2> QED
    BY <1>1, <1>2, AllNumbers
<1> QED
  BY <1>3

LEMMA AbandonIs ==
  ASSUME NEW s, Len(s) \in Nat
  PROVE  \E u : A!Abandon(s) = u[Len(s)] /\ Rests(u, s, Len(s))
<1> DEFINE u == CHOOSE u : u = [n \in 0..Len(s) |->
                  IF n = 0 THEN <<>>
                  ELSE CASE A!IsCatcher(s[n]) -> SubSeq(s, 1, n)
                         [] s[n].k = "var" -> Append(u[n - 1], s[n])
                         [] OTHER -> u[n - 1]]
<1>1. PICK w : Rests(w, s, Len(s))
  BY RestsExist
<1>2. ASSUME NEW f
      PROVE  [n \in 0..Len(s) |->
                  IF n = 0 THEN <<>>
                  ELSE CASE A!IsCatcher(s[n]) -> SubSeq(s, 1, n)
                         [] s[n].k = "var" -> Append(f[n - 1], s[n])
                         [] OTHER -> f[n - 1]]
             = [k \in 0..Len(s) |-> RestOf(f, s, k)]
  <2>1. ASSUME NEW n \in 0..Len(s)
        PROVE  (IF n = 0 THEN <<>>
                ELSE CASE A!IsCatcher(s[n]) -> SubSeq(s, 1, n)
                       [] s[n].k = "var" -> Append(f[n - 1], s[n])
                       [] OTHER -> f[n - 1]) = RestOf(f, s, n)
    BY DEF RestOf, IsVar, A!IsCatcher
  <2> QED
    BY <2>1
<1>3. u = [n \in 0..Len(s) |->
                  IF n = 0 THEN <<>>
                  ELSE CASE A!IsCatcher(s[n]) -> SubSeq(s, 1, n)
                         [] s[n].k = "var" -> Append(u[n - 1], s[n])
                         [] OTHER -> u[n - 1]]
  <2>1. w = [n \in 0..Len(s) |->
                  IF n = 0 THEN <<>>
                  ELSE CASE A!IsCatcher(s[n]) -> SubSeq(s, 1, n)
                         [] s[n].k = "var" -> Append(w[n - 1], s[n])
                         [] OTHER -> w[n - 1]]
    BY <1>1, <1>2 DEF Rests
  <2> QED
    BY <2>1, Zenon
<1>4. A!Abandon(s) = u[Len(s)]
  BY Zenon DEF A!Abandon
<1> HIDE DEF u
<1>5. Rests(u, s, Len(s))
  BY <1>2, <1>3 DEF Rests
<1> QED
  BY <1>4, <1>5

LEMMA AbandonEmpty == A!Abandon(<<>>) = <<>>
<1>1. Len(<<>>) = 0
  OBVIOUS
<1>2. PICK u : A!Abandon(<<>>) = u[0] /\ Rests(u, <<>>, 0)
  BY <1>1, AbandonIs
<1>3. 0 \in 0..0
  OBVIOUS
<1>4. u[0] = RestOf(u, <<>>, 0)
  BY <1>2, <1>3 DEF Rests
<1> QED
  BY <1>2, <1>4 DEF RestOf

(* A catcher keeps everything below it, a variable stays, a function goes. *)
LEMMA AbandonAppend ==
  ASSUME NEW X, NEW s \in Seq(X), NEW x \in X
  PROVE  A!Abandon(Append(s, x)) = IF A!IsCatcher(x) THEN Append(s, x)
                                   ELSE IF IsVar(x) THEN Append(A!Abandon(s), x)
                                   ELSE A!Abandon(s)
<1> PICK t : t = Append(s, x)
  OBVIOUS
<1> PICK n \in Nat : n = Len(s)
  BY LenProperties
<1>1. /\ t \in Seq(X) /\ Len(t) = n + 1 /\ t[n + 1] = x
      /\ \A i \in 1..n : t[i] = s[i]
  BY AppendProperties
<1>2. PICK u : A!Abandon(s) = u[n] /\ Rests(u, s, n)
  BY AbandonIs
<1>3. PICK w : A!Abandon(t) = w[n + 1] /\ Rests(w, t, n + 1)
  <2>1. Len(t) \in Nat
    BY <1>1
  <2>2. \E w : A!Abandon(t) = w[Len(t)] /\ Rests(w, t, Len(t))
    BY <2>1, AbandonIs, Zenon
  <2> QED
    BY <1>1, <2>2
<1> DEFINE T == {k \in Nat : k <= n => w[k] = u[k]}
<1>4. 0 \in T
  <2>1. 0 \in 0..n /\ 0 \in 0..(n + 1)
    OBVIOUS
  <2> QED
    BY <1>2, <1>3, <2>1 DEF Rests, RestOf
<1>5. ASSUME NEW k \in T, k \in Nat PROVE k + 1 \in T
  <2> SUFFICES ASSUME k + 1 <= n PROVE w[k + 1] = u[k + 1]
    BY <1>5
  <2>1. /\ w[k] = u[k] /\ k + 1 \in 0..n /\ k + 1 \in 0..(n + 1) /\ k + 1 # 0
        /\ (k + 1) - 1 = k /\ k + 1 \in 1..n /\ k + 1 \in 0..Len(s)
    BY <1>5
  <2>2. t[k + 1] = s[k + 1]
    BY <1>1, <2>1
  <2>3. SubSeq(t, 1, k + 1) = SubSeq(s, 1, k + 1)
    BY <2>1, PrefixOfAppend
  <2>4. RestOf(w, t, k + 1) = RestOf(u, s, k + 1)
    BY <2>1, <2>2, <2>3 DEF RestOf
  <2> QED
    <3>1. w[k + 1] = RestOf(w, t, k + 1) /\ u[k + 1] = RestOf(u, s, k + 1)
      BY <1>2, <1>3, <2>1 DEF Rests
    <3> QED
      BY <2>4, <3>1, Zenon
<1>6. Nat \subseteq T
  <2> HIDE DEF T
  <2> QED
    BY <1>4, <1>5, AllNumbers
<1>7. w[n] = u[n]
  BY <1>6
<1>8. SubSeq(t, 1, n + 1) = t
  BY <1>1, SubSeqFull
<1>9. n + 1 \in 0..(n + 1) /\ n + 1 # 0 /\ (n + 1) - 1 = n
  OBVIOUS
<1>10. w[n + 1] = RestOf(w, t, n + 1)
  BY <1>3, <1>9 DEF Rests
<1> QED
  BY <1>1, <1>2, <1>3, <1>7, <1>8, <1>9, <1>10 DEF RestOf

LEMMA AbandonType ==
  ASSUME NEW X, NEW s \in Seq(X)
  PROVE  A!Abandon(s) \in Seq(X)
<1> DEFINE T == {q \in Seq(X) : A!Abandon(q) \in Seq(X)}
<1>1. <<>> \in T
  <2>1. <<>> \in Seq(X)
    OBVIOUS
  <2> QED
    BY <2>1, AbandonEmpty
<1>2. ASSUME NEW q \in Seq(X), NEW x \in X, q \in T PROVE Append(q, x) \in T
  <2>1. Append(q, x) \in Seq(X) /\ Append(A!Abandon(q), x) \in Seq(X)
    BY <1>2, AppendProperties
  <2>2. A!Abandon(Append(q, x)) \in {Append(q, x), Append(A!Abandon(q), x), A!Abandon(q)}
    BY AbandonAppend
  <2> QED
    BY <1>2, <2>1, <2>2
<1>3. Seq(X) \subseteq T
  <2> HIDE DEF T
  <2> QED
    BY <1>1, <1>2, AllSequences
<1> QED
  BY <1>3

LEMMA AbandonTwice ==
  ASSUME NEW X, NEW s \in Seq(X)
  PROVE  A!Abandon(A!Abandon(s)) = A!Abandon(s)
<1> DEFINE T == {q \in Seq(X) : A!Abandon(A!Abandon(q)) = A!Abandon(q)}
<1>1. <<>> \in T
  BY AbandonEmpty
<1>2. ASSUME NEW q \in Seq(X), NEW x \in X, q \in T PROVE Append(q, x) \in T
  <2> PICK r : r = A!Abandon(q)
    OBVIOUS
  <2>1. r \in Seq(X) /\ A!Abandon(r) = r /\ Append(q, x) \in Seq(X)
    BY <1>2, AbandonType, AppendProperties
  <2>2. A!Abandon(Append(q, x)) = IF A!IsCatcher(x) THEN Append(q, x)
                                  ELSE IF IsVar(x) THEN Append(r, x) ELSE r
    BY AbandonAppend
  <2>3. IsVar(x) => ~A!IsCatcher(x)
    BY DEF IsVar, A!IsCatcher
  <2>4. A!Abandon(Append(r, x)) = IF A!IsCatcher(x) THEN Append(r, x)
                                  ELSE IF IsVar(x) THEN Append(A!Abandon(r), x)
                                  ELSE A!Abandon(r)
    BY <2>1, AbandonAppend
  <2> QED
    BY <2>1, <2>2, <2>3, <2>4
<1>3. Seq(X) \subseteq T
  <2> HIDE DEF T
  <2> QED
    BY <1>1, <1>2, AllSequences
<1> QED
  BY <1>3

(* The variables on top stay as they are.                                  *)
VarsOnly(Y, X) == Y \subseteq X /\ \A y \in Y : IsVar(y)

LEMMA AbandonVars ==
  ASSUME NEW X, NEW Y, VarsOnly(Y, X),
         NEW s \in Seq(X), NEW t \in Seq(Y)
  PROVE  A!Abandon(s \o t) = A!Abandon(s) \o t /\ t \in Seq(X)
<1>0. Y \subseteq X /\ \A y \in Y : IsVar(y)
  BY DEF VarsOnly
<1>1. Seq(Y) \subseteq Seq(X)
  <2>1. ASSUME NEW q \in Seq(Y) PROVE q \in Seq(X)
    <3>1. \A i \in 1..Len(q) : q[i] \in Y
      BY ElementOfSeq
    <3>2. q = [i \in 1..Len(q) |-> q[i]] /\ Len(q) \in Nat
      OBVIOUS
    <3> QED
      BY <1>0, <3>1, <3>2, IsASeq
  <2> QED
    BY <2>1
<1>2. A!Abandon(s) \in Seq(X)
  BY AbandonType
<1> DEFINE T == {q \in Seq(Y) : A!Abandon(s \o q) = A!Abandon(s) \o q}
<1>3. <<>> \in T
  BY <1>2, ConcatEmptySeq
<1>4. ASSUME NEW q \in Seq(Y), NEW x \in Y, q \in T PROVE Append(q, x) \in T
  <2>1. q \in Seq(X) /\ x \in X /\ Append(q, x) \in Seq(Y) /\ s \o q \in Seq(X)
    BY <1>0, <1>1, AppendProperties, ConcatProperties
  <2>2. /\ s \o Append(q, x) = Append(s \o q, x)
        /\ A!Abandon(s) \o Append(q, x) = Append(A!Abandon(s) \o q, x)
    BY <1>2, <2>1, JoinAppend, SMTT(30)
  <2>3. A!Abandon(Append(s \o q, x)) = Append(A!Abandon(s \o q), x)
    <3>1. IsVar(x) /\ ~A!IsCatcher(x)
      BY <1>0 DEF IsVar, A!IsCatcher
    <3> QED
      BY <2>1, <3>1, AbandonAppend
  <2> QED
    BY <1>4, <2>1, <2>2, <2>3
<1>5. Seq(Y) \subseteq T
  <2> HIDE DEF T
  <2> QED
    BY <1>3, <1>4, AllSequences
<1> QED
  BY <1>1, <1>5

(* What is above a catcher does not reach below it.                        *)
LEMMA AbandonCatcher ==
  ASSUME NEW X, NEW Y, VarsOnly(Y, X),
         NEW s \in Seq(X), NEW x \in X, A!IsCatcher(x), NEW t \in Seq(Y)
  PROVE  A!Abandon(Append(s, x) \o t) = Append(s, x) \o t
<1>1. Append(s, x) \in Seq(X) /\ A!Abandon(Append(s, x)) = Append(s, x)
  BY AppendProperties, AbandonAppend
<1>2. \A u \in Seq(X) : A!Abandon(u \o t) = A!Abandon(u) \o t
  BY AbandonVars
<1> QED
  BY <1>1, <1>2

(* A catcher is never abandoned.                                           *)
Has(s, x) == \E i \in 1..Len(s) : s[i] = x

LEMMA HasAppend ==
  ASSUME NEW X, NEW s \in Seq(X), NEW y \in X, NEW x
  PROVE  Has(Append(s, y), x) <=> Has(s, x) \/ y = x
<1>1. /\ Len(s) \in Nat /\ Len(Append(s, y)) = Len(s) + 1 /\ Append(s, y)[Len(s) + 1] = y
      /\ \A i \in 1..Len(s) : Append(s, y)[i] = s[i]
  BY LenProperties, AppendProperties
<1> PICK t : t = Append(s, y)
  OBVIOUS
<1>2. \A i \in 1..(Len(s) + 1) : i \in 1..Len(s) \/ i = Len(s) + 1
  BY <1>1
<1>3. \A i \in 1..Len(s) : i \in 1..(Len(s) + 1)
  BY <1>1
<1>4. Len(s) + 1 \in 1..(Len(s) + 1)
  BY <1>1
<1> QED
  BY <1>1, <1>2, <1>3, <1>4 DEF Has

LEMMA HasJoin ==
  ASSUME NEW X, NEW s \in Seq(X), NEW t \in Seq(X), NEW x, Has(s, x)
  PROVE  Has(s \o t, x)
<1>1. Len(s) \in Nat /\ Len(t) \in Nat /\ Len(s \o t) = Len(s) + Len(t)
      /\ \A i \in 1..Len(s) : (s \o t)[i] = s[i]
  BY JoinIs, LenProperties
<1>2. PICK i \in 1..Len(s) : s[i] = x
  BY DEF Has
<1>3. i \in 1..(Len(s) + Len(t))
  BY <1>1
<1> QED
  BY <1>1, <1>2, <1>3 DEF Has

LEMMA HasAbandon ==
  ASSUME NEW X, NEW s \in Seq(X), NEW x, A!IsCatcher(x), Has(s, x)
  PROVE  Has(A!Abandon(s), x)
<1> DEFINE T == {q \in Seq(X) : Has(q, x) => Has(A!Abandon(q), x)}
<1>1. <<>> \in T
  BY DEF Has
<1>2. ASSUME NEW q \in Seq(X), NEW y \in X, q \in T PROVE Append(q, y) \in T
  <2> PICK r : r = A!Abandon(q)
    OBVIOUS
  <2>1. r \in Seq(X) /\ Append(q, y) \in Seq(X)
    BY AbandonType, AppendProperties
  <2>2. A!Abandon(Append(q, y)) = IF A!IsCatcher(y) THEN Append(q, y)
                                  ELSE IF IsVar(y) THEN Append(r, y) ELSE r
    BY AbandonAppend
  <2>3. /\ Has(Append(q, y), x) <=> Has(q, x) \/ y = x
        /\ Has(Append(r, y), x) <=> Has(r, x) \/ y = x
    BY <2>1, HasAppend
  <2>4. Has(q, x) => Has(r, x)
    BY <1>2
  <2> SUFFICES ASSUME Has(Append(q, y), x) PROVE Has(A!Abandon(Append(q, y)), x)
    BY <2>1
  <2>5. CASE A!IsCatcher(y)
    BY <2>2, <2>5
  <2>6. CASE ~A!IsCatcher(y)
    <3>1. y # x /\ Has(r, x)
      BY <2>3, <2>4, <2>6
    <3> QED
      BY <2>2, <2>3, <2>6, <3>1
  <2> QED
    BY <2>5, <2>6
<1>3. Seq(X) \subseteq T
  <2> HIDE DEF T
  <2> QED
    BY <1>1, <1>2, AllSequences
<1> QED
  BY <1>3

-----------------------------------------------------------------------------
(* The things to do, with the variables of V.                              *)
Modes       == {A!Leave(i) : i \in Int} \cup {A!Raise(e) : e \in Errs}
VarItems(V) == {A!Var(v) : v \in V}
Items(V)    == {A!Fn, A!Protected} \cup VarItems(V) \cup {A!Handler(m) : m \in Modes}

LEMMA ItemIs ==
  ASSUME NEW V
  PROVE  /\ A!Fn \in Items(V) /\ A!Protected \in Items(V)
         /\ \A v \in V : A!Var(v) \in Items(V) /\ A!Var(v) \in VarItems(V)
         /\ \A m \in Modes : A!Handler(m) \in Items(V)
         /\ A!IsCatcher(A!Protected) /\ \A m : A!IsCatcher(A!Handler(m))
         /\ ~A!IsCatcher(A!Fn) /\ ~IsVar(A!Fn)
         /\ \A v : IsVar(A!Var(v)) /\ ~A!IsCatcher(A!Var(v))
         /\ VarsOnly(VarItems(V), Items(V))
<1>1. /\ A!Fn \in Items(V) /\ A!Protected \in Items(V)
      /\ \A v \in V : A!Var(v) \in Items(V) /\ A!Var(v) \in VarItems(V)
      /\ \A m \in Modes : A!Handler(m) \in Items(V)
  BY DEF Items, VarItems
<1>2. /\ A!IsCatcher(A!Protected) /\ \A m : A!IsCatcher(A!Handler(m))
      /\ ~A!IsCatcher(A!Fn) /\ ~IsVar(A!Fn)
  BY DEF IsVar, A!Fn, A!Protected, A!Handler, A!IsCatcher
<1>3. \A v : IsVar(A!Var(v)) /\ ~A!IsCatcher(A!Var(v))
  BY DEF IsVar, A!Var, A!IsCatcher
<1>4. VarsOnly(VarItems(V), Items(V))
  BY <1>3 DEF VarsOnly, VarItems, Items
<1> QED
  BY <1>1, <1>2, <1>3, <1>4

LEMMA VarsInIs ==
  ASSUME NEW V, NEW tb, NEW f, tb[f] \in Seq(V)
  PROVE  /\ VarsIn(tb, f) \in Seq(VarItems(V)) /\ Len(VarsIn(tb, f)) = Len(tb[f])
         /\ tb[f] = <<>> => VarsIn(tb, f) = <<>>
<1> PICK s \in Seq(V) : s = tb[f]
  OBVIOUS
<1>1. Len(s) \in Nat /\ DOMAIN s = 1..Len(s)
  OBVIOUS
<1>2. VarsIn(tb, f) = [i \in 1..Len(s) |-> A!Var(s[i])]
  BY <1>1 DEF VarsIn
<1>3. \A i \in 1..Len(s) : A!Var(s[i]) \in VarItems(V)
  BY ElementOfSeq DEF VarItems
<1>4. [i \in 1..Len(s) |-> A!Var(s[i])] \in [1..Len(s) -> VarItems(V)]
  BY <1>3
<1>5. VarsIn(tb, f) \in Seq(VarItems(V)) /\ Len(VarsIn(tb, f)) = Len(s)
  BY <1>1, <1>2, <1>4
<1> QED
  BY <1>5, EmptySeq

HasMore(tb, tb2, f, v, V) == tb[f] \in Seq(V) /\ v \in V /\ tb2[f] = Append(tb[f], v)

LEMMA VarsAppend ==
  ASSUME NEW V, NEW tb, NEW tb2, NEW f, NEW v, HasMore(tb, tb2, f, v, V)
  PROVE  VarsIn(tb2, f) = Append(VarsIn(tb, f), A!Var(v))
<1>0. tb[f] \in Seq(V) /\ v \in V /\ tb2[f] = Append(tb[f], v)
  BY DEF HasMore
<1> PICK s \in Seq(V) : s = tb[f]
  BY <1>0
<1> PICK t : t = Append(s, v)
  OBVIOUS
<1>1. /\ t \in Seq(V) /\ Len(t) = Len(s) + 1 /\ t[Len(s) + 1] = v /\ Len(s) \in Nat
      /\ \A i \in 1..Len(s) : t[i] = s[i]
  BY <1>0, AppendProperties
<1>2. DOMAIN s = 1..Len(s) /\ DOMAIN t = 1..(Len(s) + 1)
  BY <1>1
<1> PICK a : a = VarsIn(tb, f)
  OBVIOUS
<1> PICK b : b = VarsIn(tb2, f)
  OBVIOUS
<1>3. a = [i \in 1..Len(s) |-> A!Var(s[i])] /\ b = [i \in 1..(Len(s) + 1) |-> A!Var(t[i])]
  BY <1>0, <1>2 DEF VarsIn
<1>4. a \in Seq(VarItems(V)) /\ Len(a) = Len(s) /\ b \in Seq(VarItems(V)) /\ Len(b) = Len(t)
  <2>1. tb2[f] \in Seq(V) /\ tb2[f] = t
    BY <1>0, <1>1
  <2>2. b \in Seq(VarItems(V)) /\ Len(b) = Len(tb2[f])
    BY <2>1, VarsInIs
  <2>3. tb[f] \in Seq(V) /\ tb[f] = s
    BY <1>0
  <2>4. a \in Seq(VarItems(V)) /\ Len(a) = Len(tb[f])
    BY <2>3, VarsInIs
  <2> QED
    BY <2>1, <2>2, <2>3, <2>4
<1> PICK c : c = Append(a, A!Var(v))
  OBVIOUS
<1>5. A!Var(v) \in VarItems(V)
  BY <1>0, ItemIs
<1>6. /\ c \in Seq(VarItems(V)) /\ Len(c) = Len(s) + 1 /\ c[Len(s) + 1] = A!Var(v)
      /\ \A i \in 1..Len(s) : c[i] = a[i]
  BY <1>4, <1>5, AppendProperties
<1>7. \A i \in 1..Len(b) : b[i] = c[i]
  <2> TAKE i \in 1..Len(b)
  <2>1. i \in 1..Len(s) \/ i = Len(s) + 1
    BY <1>1, <1>4
  <2>2. CASE i \in 1..Len(s)
    BY <1>1, <1>3, <1>6, <2>2
  <2>3. CASE i = Len(s) + 1
    BY <1>1, <1>3, <1>6, <2>3
  <2> QED
    BY <2>1, <2>2, <2>3
<1> QED
  BY <1>1, <1>4, <1>6, <1>7, SeqEqual

-----------------------------------------------------------------------------
(* The variables of the frames above i.  o[k] is those of the frames up to *)
(* the k-th.                                                               *)
OpenAt(o, fr, tb, i, k) == IF k <= i THEN <<>> ELSE o[k - 1] \o VarsIn(tb, fr[k])
Opens(o, fr, tb, i, n)  == o = [k \in 0..n |-> OpenAt(o, fr, tb, i, k)]

LEMMA OpensExist ==
  ASSUME NEW fr, NEW tb, NEW i \in Nat
  PROVE  \A n \in Nat : \E o : Opens(o, fr, tb, i, n)
<1> DEFINE T == {n \in Nat : \E o : Opens(o, fr, tb, i, n)}
<1>1. 0 \in T
  <2> DEFINE o == [k \in 0..0 |-> <<>>]
  <2>1. Opens(o, fr, tb, i, 0)
    <3>1. \A k \in 0..0 : OpenAt(o, fr, tb, i, k) = <<>>
      BY DEF OpenAt
    <3> QED
      BY <3>1 DEF Opens
  <2> QED
    BY <2>1
<1>2. ASSUME NEW n \in T, n \in Nat PROVE n + 1 \in T
  <2>1. PICK o : Opens(o, fr, tb, i, n)
    BY <1>2
  <2> DEFINE v == [k \in 0..(n + 1) |-> OpenAt(o, fr, tb, i, k)]
  <2>2. ASSUME NEW k \in 0..(n + 1) PROVE v[k] = OpenAt(v, fr, tb, i, k)
    <3>1. v[k] = OpenAt(o, fr, tb, i, k)
      OBVIOUS
    <3>2. ~(k <= i) => k - 1 \in 0..n /\ k - 1 \in 0..(n + 1)
      BY <1>2
    <3>3. ~(k <= i) => o[k - 1] = OpenAt(o, fr, tb, i, k - 1)
      BY <2>1, <3>2 DEF Opens
    <3>4. ~(k <= i) => v[k - 1] = o[k - 1]
      BY <3>2, <3>3
    <3> HIDE DEF v
    <3> QED
      BY <3>1, <3>4 DEF OpenAt
  <2>3. v = [k \in 0..(n + 1) |-> v[k]]
    OBVIOUS
  <2> HIDE DEF v
  <2>4. Opens(v, fr, tb, i, n + 1)
    BY <2>2, <2>3 DEF Opens
  <2> QED
    BY <1>2, <2>4
<1>3. Nat \subseteq T
  <2> HIDE DEF T
  <2> QED
    BY <1>1, <1>2, AllNumbers
<1> QED
  BY <1>3

LEMMA OpenIs ==
  ASSUME NEW fr, NEW tb, NEW i \in Nat, NEW n \in Nat
  PROVE  \E o : Open(fr, tb, i, n) = o[n] /\ Opens(o, fr, tb, i, n)
<1> DEFINE o == CHOOSE o : o = [k \in 0..n |->
                  IF k <= i THEN <<>> ELSE o[k - 1] \o VarsIn(tb, fr[k])]
<1>1. \E w : Opens(w, fr, tb, i, n)
  BY OpensExist
<1>2. o = [k \in 0..n |-> IF k <= i THEN <<>> ELSE o[k - 1] \o VarsIn(tb, fr[k])]
  BY <1>1, Zenon DEF Opens, OpenAt
<1>3. Open(fr, tb, i, n) = o[n]
  BY Zenon DEF Open
<1> HIDE DEF o
<1>4. Opens(o, fr, tb, i, n)
  BY <1>2, Zenon DEF Opens, OpenAt
<1> QED
  BY <1>3, <1>4

LEMMA OpenStep ==
  ASSUME NEW fr, NEW tb, NEW i \in Nat, NEW n \in Nat
  PROVE  /\ n <= i => Open(fr, tb, i, n) = <<>>
         /\ Open(fr, tb, i, n + 1) = IF n + 1 <= i THEN <<>>
                                     ELSE Open(fr, tb, i, n) \o VarsIn(tb, fr[n + 1])
<1>1. PICK o : Open(fr, tb, i, n) = o[n] /\ Opens(o, fr, tb, i, n)
  BY OpenIs
<1> PICK m \in Nat : m = n + 1
  OBVIOUS
<1>2. PICK w : Open(fr, tb, i, m) = w[m] /\ Opens(w, fr, tb, i, m)
  BY OpenIs
<1>3. \A k \in 0..n : o[k] = OpenAt(o, fr, tb, i, k)
  BY <1>1 DEF Opens
<1>4. \A k \in 0..m : w[k] = OpenAt(w, fr, tb, i, k)
  BY <1>2 DEF Opens
<1> DEFINE T == {k \in Nat : k <= n => w[k] = o[k]}
<1>5. 0 \in T
  BY <1>3, <1>4 DEF OpenAt
<1>6. ASSUME NEW k \in T, k \in Nat PROVE k + 1 \in T
  <2> SUFFICES ASSUME k + 1 <= n PROVE w[k + 1] = o[k + 1]
    BY <1>6
  <2>1. w[k] = o[k] /\ k + 1 \in 0..n /\ k + 1 \in 0..m /\ (k + 1) - 1 = k
    BY <1>6
  <2> QED
    BY <1>3, <1>4, <2>1 DEF OpenAt
<1>7. Nat \subseteq T
  <2> HIDE DEF T
  <2> QED
    BY <1>5, <1>6, AllNumbers
<1>8. w[n] = o[n] /\ n \in 0..n /\ m \in 0..m /\ m - 1 = n
  BY <1>7
<1> QED
  BY <1>1, <1>2, <1>3, <1>4, <1>8 DEF OpenAt

LEMMA OpenNone ==
  ASSUME NEW fr, NEW tb
  PROVE  \A i, n \in Nat : n <= i => Open(fr, tb, i, n) = <<>>
<1> TAKE i, n \in Nat
<1> QED
  BY OpenStep

LEMMA OpenMore ==
  ASSUME NEW fr, NEW tb
  PROVE  \A i, n \in Nat : i <= n =>
            Open(fr, tb, i, n + 1) = Open(fr, tb, i, n) \o VarsIn(tb, fr[n + 1])
<1> TAKE i, n \in Nat
<1>1. i <= n => ~(n + 1 <= i)
  OBVIOUS
<1> QED
  BY <1>1, OpenStep

(* Frames that are the same, with the same variables, leave the same open. *)
SameFrames(fr, tb, fr2, tb2, i, n) ==
    \A k \in (i + 1)..n : fr2[k] = fr[k] /\ tb2[fr[k]] = tb[fr[k]]

LEMMA OpenSame ==
  ASSUME NEW fr, NEW tb, NEW fr2, NEW tb2, NEW i \in Nat, NEW n \in Nat,
         SameFrames(fr, tb, fr2, tb2, i, n)
  PROVE  Open(fr2, tb2, i, n) = Open(fr, tb, i, n)
<1> DEFINE T == {k \in Nat : k <= n => Open(fr2, tb2, i, k) = Open(fr, tb, i, k)}
<1>1. 0 \in T
  <2>1. 0 \in Nat /\ 0 <= i
    OBVIOUS
  <2>2. Open(fr2, tb2, i, 0) = <<>> /\ Open(fr, tb, i, 0) = <<>>
    BY <2>1, OpenStep, ZenonT(40)
  <2> QED
    BY <2>2
<1>2. ASSUME NEW k \in T, k \in Nat PROVE k + 1 \in T
  <2> SUFFICES ASSUME k + 1 <= n PROVE Open(fr2, tb2, i, k + 1) = Open(fr, tb, i, k + 1)
    BY <1>2
  <2>1. Open(fr2, tb2, i, k) = Open(fr, tb, i, k)
    BY <1>2
  <2>2. ~(k + 1 <= i) => VarsIn(tb2, fr2[k + 1]) = VarsIn(tb, fr[k + 1])
    <3> SUFFICES ASSUME ~(k + 1 <= i) PROVE VarsIn(tb2, fr2[k + 1]) = VarsIn(tb, fr[k + 1])
      OBVIOUS
    <3>1. k + 1 \in (i + 1)..n
      BY <1>2
    <3>2. fr2[k + 1] = fr[k + 1] /\ tb2[fr[k + 1]] = tb[fr[k + 1]]
      BY <3>1 DEF SameFrames
    <3> QED
      BY <3>2 DEF VarsIn
  <2> QED
    BY <1>2, <2>1, <2>2, OpenStep
<1>3. Nat \subseteq T
  <2> HIDE DEF T
  <2> QED
    BY <1>1, <1>2, AllNumbers
<1> QED
  BY <1>3

LEMMA OpenType ==
  ASSUME NEW V, NEW fr, NEW tb, NEW i \in Nat, NEW n \in Nat,
         \A k \in (i + 1)..n : tb[fr[k]] \in Seq(V)
  PROVE  Open(fr, tb, i, n) \in Seq(VarItems(V))
<1> DEFINE T == {k \in Nat : k <= n => Open(fr, tb, i, k) \in Seq(VarItems(V))}
<1>1. 0 \in T
  <2>1. <<>> \in Seq(VarItems(V)) /\ 0 \in Nat /\ 0 <= i
    OBVIOUS
  <2>2. Open(fr, tb, i, 0) = <<>>
    BY <2>1, OpenStep
  <2> QED
    BY <2>1, <2>2
<1>2. ASSUME NEW k \in T, k \in Nat PROVE k + 1 \in T
  <2> SUFFICES ASSUME k + 1 <= n PROVE Open(fr, tb, i, k + 1) \in Seq(VarItems(V))
    BY <1>2
  <2>1. CASE k + 1 <= i
    <3>1. <<>> \in Seq(VarItems(V))
      OBVIOUS
    <3> QED
      BY <1>2, <2>1, <3>1, OpenStep
  <2>2. CASE ~(k + 1 <= i)
    <3>1. k + 1 \in (i + 1)..n
      BY <1>2, <2>2
    <3>2. VarsIn(tb, fr[k + 1]) \in Seq(VarItems(V))
      BY <3>1, VarsInIs
    <3>3. Open(fr, tb, i, k) \in Seq(VarItems(V))
      BY <1>2
    <3>4. Open(fr, tb, i, k + 1) = Open(fr, tb, i, k) \o VarsIn(tb, fr[k + 1])
      BY <1>2, <2>2, OpenStep
    <3> QED
      BY <3>2, <3>3, <3>4, ConcatProperties
  <2> QED
    BY <2>1, <2>2
<1>3. Nat \subseteq T
  <2> HIDE DEF T
  <2> QED
    BY <1>1, <1>2, AllNumbers
<1> QED
  BY <1>3

(* Frames whose variables are closed add nothing to them.                  *)
TailClosed(fr, tb, i, n, m) ==
    /\ i \in Nat /\ n \in Nat /\ m \in Nat /\ n <= m
    /\ \A k \in 1..n : tb[fr[k]] \in Seq(Vars)
    /\ \A k \in (n + 1)..m : tb[fr[k]] = <<>>

LEMMA OpenTail ==
  ASSUME NEW fr, NEW tb, NEW i, NEW n, NEW m, TailClosed(fr, tb, i, n, m)
  PROVE  Open(fr, tb, i, m) = Open(fr, tb, i, n)
<1> SUFFICES ASSUME i \in Nat, n \in Nat, m \in Nat, n <= m,
                    \A k \in (i + 1)..n : tb[fr[k]] \in Seq(Vars),
                    \A k \in (n + 1)..m : tb[fr[k]] = <<>>
             PROVE  Open(fr, tb, i, m) = Open(fr, tb, i, n)
  <2>1. /\ i \in Nat /\ n \in Nat /\ m \in Nat /\ n <= m
        /\ \A k \in 1..n : tb[fr[k]] \in Seq(Vars)
        /\ \A k \in (n + 1)..m : tb[fr[k]] = <<>>
    BY DEF TailClosed
  <2>2. \A k \in (i + 1)..n : k \in 1..n
    BY <2>1
  <2> QED
    BY <2>1, <2>2
<1>0. \A k \in Nat : Open(fr, tb, i, k + 1) = IF k + 1 <= i THEN <<>>
                                ELSE Open(fr, tb, i, k) \o VarsIn(tb, fr[k + 1])
  BY OpenStep
<1> DEFINE T == {x \in Nat : n + x <= m => Open(fr, tb, i, n + x) = Open(fr, tb, i, n)}
<1>1. 0 \in T
  OBVIOUS
<1>2. ASSUME NEW x \in T, x \in Nat PROVE x + 1 \in T
  <2> SUFFICES ASSUME n + (x + 1) <= m PROVE Open(fr, tb, i, n + (x + 1)) = Open(fr, tb, i, n)
    BY <1>2
  <2> PICK k \in Nat : k = n + x
    BY <1>2
  <2>1. Open(fr, tb, i, k) = Open(fr, tb, i, n) /\ n + (x + 1) = k + 1 /\ k + 1 \in (n + 1)..m
    BY <1>2
  <2>2. VarsIn(tb, fr[k + 1]) = <<>>
    <3>1. tb[fr[k + 1]] = <<>> /\ <<>> \in Seq(Vars)
      BY <2>1
    <3> QED
      BY <3>1, VarsInIs
  <2>3. Open(fr, tb, i, n) \in Seq(VarItems(Vars))
    BY OpenType
  <2>4. Open(fr, tb, i, n) \o <<>> = Open(fr, tb, i, n)
    BY <2>3, ConcatEmptySeq
  <2>5. k + 1 <= i => Open(fr, tb, i, n) = <<>>
    <3>1. k + 1 <= i => n <= i
      BY <1>2
    <3> QED
      BY <3>1, OpenStep, ZenonT(40)
  <2> QED
    BY <1>0, <2>1, <2>2, <2>4, <2>5
<1>3. Nat \subseteq T
  <2> HIDE DEF T
  <2> QED
    BY <1>1, <1>2, AllNumbers
<1>4. m - n \in T /\ n + (m - n) = m
  BY <1>3
<1> QED
  BY <1>4

-----------------------------------------------------------------------------
(* What an activation has to do, in the state with the frames fr and the   *)
(* variables tb.                                                           *)
Unwinding(a) == a.op = "pcall" /\ a.ph = "unwind"
Failed(a)    == a.op = "close" /\ a.ph = "left"

JobForm(job, fr, tb, a, below, n) ==
    /\ a.op = "lua" => job = Append(below, A!Fn) \o VarsIn(tb, a.f)
    /\ a.op = "pcall" /\ a.ph = "body" => job = Append(below, A!Protected)
    /\ Unwinding(a) => job = Append(below, A!Protected) \o Open(fr, tb, a.n, n)
    /\ a.op = "close" /\ a.ph = "next" => job = Ground(tb, a, below)
    /\ a.op = "close" /\ a.ph = "body" =>
          job = Append(Ground(tb, a, below), A!Handler(Goes(tb, a, below)))
    /\ Failed(a) => job = Append(Ground(tb, a, below), A!Handler(Goes(tb, a, below)))
                          \o Open(fr, tb, a.n, a.j)

LEMMA JobIs ==
  ASSUME NEW fr, NEW tb, NEW a \in Acts, NEW below, NEW n
  PROVE  JobForm(Job(fr, tb, a, below, n), fr, tb, a, below, n)
<1> DEFINE g == Ground(tb, a, below)
           m == Goes(tb, a, below)
           o == Open(fr, tb, a.n, n)
           q == Open(fr, tb, a.n, a.j)
           v == VarsIn(tb, a.f)
<1>1. Job(fr, tb, a, below, n) =
        CASE a.op = "lua" -> Append(below, A!Fn) \o v
          [] a.op = "pcall" /\ a.ph = "body" -> Append(below, A!Protected)
          [] a.op = "pcall" /\ a.ph = "unwind" -> Append(below, A!Protected) \o o
          [] a.op = "close" /\ a.ph = "next" -> g
          [] a.op = "close" /\ a.ph = "body" -> Append(g, A!Handler(m))
          [] a.op = "close" /\ a.ph = "left" -> Append(g, A!Handler(m)) \o q
  BY Zenon DEF Job
<1> HIDE DEF g, m, o, q, v
<1>2. /\ a.op = "lua" => Job(fr, tb, a, below, n) = Append(below, A!Fn) \o v
      /\ a.op = "pcall" /\ a.ph = "body" =>
            Job(fr, tb, a, below, n) = Append(below, A!Protected)
      /\ a.op = "pcall" /\ a.ph = "unwind" =>
            Job(fr, tb, a, below, n) = Append(below, A!Protected) \o o
      /\ a.op = "close" /\ a.ph = "next" => Job(fr, tb, a, below, n) = g
      /\ a.op = "close" /\ a.ph = "body" =>
            Job(fr, tb, a, below, n) = Append(g, A!Handler(m))
      /\ a.op = "close" /\ a.ph = "left" =>
            Job(fr, tb, a, below, n) = Append(g, A!Handler(m)) \o q
  BY <1>1
<1> QED
  BY <1>2 DEF g, m, o, q, v, Unwinding, Failed, JobForm

(* The same, when what it looks at is.                                     *)
SameFor(a, fr, tb, fr2, tb2, n) ==
    /\ a.op # "pcall" => tb2[a.f] = tb[a.f]
    /\ Unwinding(a) => n \in Nat /\ SameFrames(fr, tb, fr2, tb2, a.n, n)
    /\ Failed(a) => SameFrames(fr, tb, fr2, tb2, a.n, a.j)

LEMMA JobSame ==
  ASSUME NEW a \in Acts, NEW fr, NEW tb, NEW fr2, NEW tb2, NEW below, NEW n, NEW n2,
         SameFor(a, fr, tb, fr2, tb2, n), Unwinding(a) => n2 = n
  PROVE  Job(fr2, tb2, a, below, n2) = Job(fr, tb, a, below, n)
<1>0. /\ JobForm(Job(fr, tb, a, below, n), fr, tb, a, below, n)
      /\ JobForm(Job(fr2, tb2, a, below, n2), fr2, tb2, a, below, n2)
  BY JobIs
<1>1. a.op \in {"lua", "pcall", "close"}
      /\ (a.op = "pcall" => a.n \in Nat /\ a.ph \in {"body", "unwind"})
      /\ (a.op = "close" => a.n \in Nat /\ a.j \in Nat /\ a.ph \in {"next", "body", "left"})
  BY ActIs
<1>2. a.op # "pcall" => VarsIn(tb2, a.f) = VarsIn(tb, a.f)
  BY Zenon DEF SameFor, VarsIn
<1>3. a.op # "pcall" => /\ Goes(tb2, a, below) = Goes(tb, a, below)
                        /\ Ground(tb2, a, below) = Ground(tb, a, below)
  BY <1>2, Zenon DEF SameFor, Goes, Ground
<1>4. Unwinding(a) => Open(fr2, tb2, a.n, n2) = Open(fr, tb, a.n, n)
  <2> SUFFICES ASSUME Unwinding(a) PROVE Open(fr2, tb2, a.n, n2) = Open(fr, tb, a.n, n)
    OBVIOUS
  <2>1. a.n \in Nat /\ n \in Nat /\ n2 = n /\ SameFrames(fr, tb, fr2, tb2, a.n, n)
    BY <1>1 DEF SameFor, Unwinding
  <2> QED
    BY <2>1, OpenSame
<1>5. Failed(a) => Open(fr2, tb2, a.n, a.j) = Open(fr, tb, a.n, a.j)
  <2> SUFFICES ASSUME Failed(a) PROVE Open(fr2, tb2, a.n, a.j) = Open(fr, tb, a.n, a.j)
    OBVIOUS
  <2>1. a.n \in Nat /\ a.j \in Nat /\ SameFrames(fr, tb, fr2, tb2, a.n, a.j)
    BY <1>1 DEF SameFor, Failed
  <2> QED
    BY <2>1, OpenSame
<1>6. CASE a.op = "lua"
  BY <1>0, <1>2, <1>6 DEF JobForm
<1>7. CASE a.op = "pcall" /\ a.ph = "body"
  BY <1>0, <1>7 DEF JobForm
<1>8. CASE Unwinding(a)
  BY <1>0, <1>4, <1>8 DEF JobForm
<1>9. CASE a.op = "close" /\ a.ph = "next"
  BY <1>0, <1>3, <1>9 DEF JobForm
<1>10. CASE a.op = "close" /\ a.ph = "body"
  BY <1>0, <1>3, <1>10 DEF JobForm
<1>11. CASE Failed(a)
  <2>1. a.op # "pcall"
    BY <1>11 DEF Failed
  <2> QED
    BY <1>0, <1>3, <1>5, <1>11, <2>1 DEF JobForm
<1> QED
  BY <1>1, <1>6, <1>7, <1>8, <1>9, <1>10, <1>11 DEF Unwinding, Failed

(* It consists of the variables of the frames it looks at.                 *)
HasVars(a, fr, tb, n, V) ==
    /\ a.op # "pcall" => tb[a.f] \in Seq(V)
    /\ Unwinding(a) => n \in Nat /\ \A k \in (a.n + 1)..n : tb[fr[k]] \in Seq(V)
    /\ Failed(a) => \A k \in (a.n + 1)..a.j : tb[fr[k]] \in Seq(V)

LEMMA SeqMonotone ==
  ASSUME NEW X, NEW Y, Y \subseteq X
  PROVE  Seq(Y) \subseteq Seq(X)
<1>1. ASSUME NEW q \in Seq(Y) PROVE q \in Seq(X)
  <2>1. \A i \in 1..Len(q) : q[i] \in Y
    BY ElementOfSeq
  <2>2. q = [i \in 1..Len(q) |-> q[i]] /\ Len(q) \in Nat
    OBVIOUS
  <2> QED
    BY <2>1, <2>2, IsASeq
<1> QED
  BY <1>1

LEMMA GroundIs ==
  ASSUME NEW V, NEW tb, NEW a \in Acts, NEW below \in Seq(Items(V)), a.op = "close",
         tb[a.f] \in Seq(V)
  PROVE  /\ Ground(tb, a, below) \in Seq(Items(V)) /\ Goes(tb, a, below) \in Modes
         /\ VarsIn(tb, a.f) \in Seq(Items(V))
         /\ a.e = None /\ a.how # "error" => Ground(tb, a, below) = below
         /\ a.e # None /\ a.how # "error" => Ground(tb, a, below) = A!Abandon(below)
         /\ a.e # None /\ a.how = "error" =>
               Ground(tb, a, below) = A!Abandon(below \o VarsIn(tb, a.f))
         /\ a.e # None => Goes(tb, a, below) = A!Raise(a.e)
         /\ a.e = None /\ a.how = "return" =>
               Goes(tb, a, below) = A!Leave(Len(below) - Len(tb[a.f]) - 1)
         /\ a.e = None /\ a.how # "return" =>
               Goes(tb, a, below) = A!Leave(Len(below) - Len(tb[a.f]) + a.keep)
<1>1. VarsIn(tb, a.f) \in Seq(VarItems(V))
  BY VarsInIs
<1>2. VarsIn(tb, a.f) \in Seq(Items(V))
  <2>1. VarItems(V) \subseteq Items(V)
    BY DEF Items
  <2> QED
    BY <1>1, <2>1, SeqMonotone
<1>3. below \o VarsIn(tb, a.f) \in Seq(Items(V))
  BY <1>2, ConcatProperties
<1>4. A!Abandon(below) \in Seq(Items(V))
      /\ A!Abandon(below \o VarsIn(tb, a.f)) \in Seq(Items(V))
  BY <1>3, AbandonType
<1>5. Ground(tb, a, below) \in Seq(Items(V))
  BY <1>3, <1>4 DEF Ground
<1>6. a.e \in Errs \cup {None} /\ a.keep \in Nat
  BY ActIs
<1>7. Len(below) \in Nat /\ Len(tb[a.f]) \in Nat
  BY LenProperties
<1>8. CASE a.e # None
  BY <1>2, <1>5, <1>6, <1>8 DEF Goes, Modes, Ground
<1>9. CASE a.e = None
  <2>1. /\ Len(below) - Len(tb[a.f]) - 1 \in Int
        /\ Len(below) - Len(tb[a.f]) + a.keep \in Int
    BY <1>6, <1>7
  <2>2. \A i \in Int : A!Leave(i) \in Modes
    BY DEF Modes
  <2>3. /\ a.how = "return" => Goes(tb, a, below) = A!Leave(Len(below) - Len(tb[a.f]) - 1)
        /\ a.how # "return" =>
              Goes(tb, a, below) = A!Leave(Len(below) - Len(tb[a.f]) + a.keep)
        /\ a.how # "error" => Ground(tb, a, below) = below
    BY <1>9, Zenon DEF Goes, Ground
  <2> QED
    BY <1>2, <1>5, <1>9, <2>1, <2>2, <2>3
<1> QED
  BY <1>8, <1>9

LEMMA JobType ==
  ASSUME NEW V, NEW a \in Acts, NEW fr, NEW tb, NEW below \in Seq(Items(V)), NEW n,
         HasVars(a, fr, tb, n, V)
  PROVE  Job(fr, tb, a, below, n) \in Seq(Items(V))
<1>0. JobForm(Job(fr, tb, a, below, n), fr, tb, a, below, n)
  BY JobIs
<1>1. a.op \in {"lua", "pcall", "close"}
      /\ (a.op = "pcall" => a.n \in Nat /\ a.ph \in {"body", "unwind"})
      /\ (a.op = "close" => a.n \in Nat /\ a.j \in Nat /\ a.ph \in {"next", "body", "left"})
  BY ActIs
<1>2. Seq(VarItems(V)) \subseteq Seq(Items(V))
  <2>1. VarItems(V) \subseteq Items(V)
    BY DEF Items
  <2> QED
    BY <2>1, SeqMonotone
<1>3. /\ Append(below, A!Fn) \in Seq(Items(V)) /\ Append(below, A!Protected) \in Seq(Items(V))
      /\ \A s \in Seq(Items(V)), m \in Modes : Append(s, A!Handler(m)) \in Seq(Items(V))
      /\ \A s \in Seq(Items(V)), t \in Seq(VarItems(V)) : s \o t \in Seq(Items(V))
  <2>1. /\ A!Fn \in Items(V) /\ A!Protected \in Items(V)
        /\ \A m \in Modes : A!Handler(m) \in Items(V)
    BY ItemIs
  <2>2. \A s \in Seq(Items(V)), t \in Seq(VarItems(V)) : s \o t \in Seq(Items(V))
    BY <1>2, ConcatProperties
  <2> QED
    BY <2>1, <2>2, AppendProperties
<1>4. CASE a.op = "lua"
  <2>1. VarsIn(tb, a.f) \in Seq(VarItems(V))
    <3>1. tb[a.f] \in Seq(V)
      BY <1>4 DEF HasVars
    <3> QED
      BY <3>1, VarsInIs
  <2> QED
    BY <1>0, <1>3, <1>4, <2>1 DEF JobForm
<1>5. CASE a.op = "pcall" /\ a.ph = "body"
  BY <1>0, <1>3, <1>5 DEF JobForm
<1>6. CASE Unwinding(a)
  <2>1. a.n \in Nat /\ n \in Nat /\ \A k \in (a.n + 1)..n : tb[fr[k]] \in Seq(V)
    BY <1>1, <1>6 DEF HasVars, Unwinding
  <2>2. Open(fr, tb, a.n, n) \in Seq(VarItems(V))
    BY <2>1, OpenType
  <2> QED
    BY <1>0, <1>3, <1>6, <2>2 DEF JobForm
<1>7. CASE a.op = "close"
  <2>1. tb[a.f] \in Seq(V)
    BY <1>7 DEF HasVars
  <2>2. Ground(tb, a, below) \in Seq(Items(V)) /\ Goes(tb, a, below) \in Modes
    BY <1>7, <2>1, GroundIs
  <2>3. Append(Ground(tb, a, below), A!Handler(Goes(tb, a, below))) \in Seq(Items(V))
    BY <1>3, <2>2
  <2>4. CASE a.ph = "next"
    BY <1>0, <1>7, <2>2, <2>4 DEF JobForm
  <2>5. CASE a.ph = "body"
    BY <1>0, <1>7, <2>3, <2>5 DEF JobForm
  <2>6. CASE a.ph = "left"
    <3>1. Failed(a) /\ a.n \in Nat /\ a.j \in Nat /\ \A k \in (a.n + 1)..a.j : tb[fr[k]] \in Seq(V)
      BY <1>1, <1>7, <2>6 DEF HasVars, Failed
    <3>2. Open(fr, tb, a.n, a.j) \in Seq(VarItems(V))
      BY <3>1, OpenType
    <3> QED
      BY <1>0, <1>3, <2>3, <3>1, <3>2 DEF JobForm
  <2> QED
    BY <1>1, <1>7, <2>4, <2>5, <2>6
<1> QED
  BY <1>1, <1>4, <1>5, <1>6, <1>7 DEF Unwinding

-----------------------------------------------------------------------------
(* td[p] is what the first p activations have to do.                       *)
Doing(td, h, fr, tb) ==
    /\ td[0] = <<>>
    /\ \A p \in 1..Len(h) : td[p] = Job(fr, tb, h[p], td[p - 1], Up(h, fr, p))

TaskAt(t, h, fr, tb, p) == IF p = 0 THEN <<>> ELSE Job(fr, tb, h[p], t[p - 1], Up(h, fr, p))

Follows(t, h, fr, tb, n) == t = [p \in 0..n |-> TaskAt(t, h, fr, tb, p)]

LEMMA TasksExist ==
  ASSUME NEW h, NEW fr, NEW tb
  PROVE  \A n \in Nat : \E t : Follows(t, h, fr, tb, n)
<1> DEFINE T == {n \in Nat : \E t : Follows(t, h, fr, tb, n)}
<1>1. 0 \in T
  <2> DEFINE t == [p \in 0..0 |-> <<>>]
  <2>1. \A p \in 0..0 : TaskAt(t, h, fr, tb, p) = <<>>
    BY DEF TaskAt
  <2>2. Follows(t, h, fr, tb, 0)
    BY <2>1 DEF Follows
  <2> QED
    BY <2>2
<1>2. ASSUME NEW n \in T, n \in Nat PROVE n + 1 \in T
  <2>1. PICK t : Follows(t, h, fr, tb, n)
    BY <1>2
  <2> DEFINE v == [p \in 0..(n + 1) |-> TaskAt(t, h, fr, tb, p)]
  <2>2. ASSUME NEW p \in 0..(n + 1) PROVE v[p] = TaskAt(v, h, fr, tb, p)
    <3>1. v[p] = TaskAt(t, h, fr, tb, p)
      OBVIOUS
    <3>2. p # 0 => p - 1 \in 0..n /\ p - 1 \in 0..(n + 1)
      BY <1>2
    <3>3. p # 0 => v[p - 1] = t[p - 1]
      BY <2>1, <3>2 DEF Follows
    <3> HIDE DEF v
    <3> QED
      BY <3>1, <3>3 DEF TaskAt
  <2>3. v = [p \in 0..(n + 1) |-> v[p]]
    OBVIOUS
  <2> HIDE DEF v
  <2>4. Follows(v, h, fr, tb, n + 1)
    BY <2>2, <2>3 DEF Follows
  <2> QED
    BY <1>2, <2>4
<1>3. Nat \subseteq T
  <2> HIDE DEF T
  <2> QED
    BY <1>1, <1>2, AllNumbers
<1> QED
  BY <1>3

LEMMA TasksAre ==
  ASSUME NEW h, NEW fr, NEW tb, Len(h) \in Nat
  PROVE  Doing(Tasks(h, fr, tb), h, fr, tb)
<1> PICK t : t = Tasks(h, fr, tb)
  OBVIOUS
<1>1. \E u : u = [p \in 0..Len(h) |-> TaskAt(u, h, fr, tb, p)]
  <2>1. PICK u : Follows(u, h, fr, tb, Len(h))
    BY TasksExist
  <2> QED
    BY <2>1, Zenon DEF Follows
<1>2. t = [p \in 0..Len(h) |-> TaskAt(t, h, fr, tb, p)]
  <2> DEFINE F(u) == [p \in 0..Len(h) |-> IF p = 0 THEN <<>>
                         ELSE Job(fr, tb, h[p], u[p - 1],
                                  IF p = Len(h) THEN Len(fr) ELSE h[p + 1].n)]
  <2>1. ASSUME NEW u PROVE F(u) = [p \in 0..Len(h) |-> TaskAt(u, h, fr, tb, p)]
    BY Zenon DEF TaskAt, Up
  <2>2. Tasks(h, fr, tb) = CHOOSE u : u = F(u)
    BY Zenon DEF Tasks
  <2> HIDE DEF F
  <2>3. \E u : u = F(u)
    BY <1>1, <2>1, Zenon
  <2>4. t = F(t)
    BY <2>2, <2>3, Zenon
  <2> QED
    BY <2>1, <2>4, Zenon
<1>3. \A p \in 0..Len(h) : t[p] = TaskAt(t, h, fr, tb, p)
  BY <1>2
<1>4. t[0] = <<>>
  <2>1. 0 \in 0..Len(h)
    OBVIOUS
  <2> QED
    BY <1>3, <2>1 DEF TaskAt
<1>5. ASSUME NEW p \in 1..Len(h) PROVE t[p] = Job(fr, tb, h[p], t[p - 1], Up(h, fr, p))
  <2>1. p \in 0..Len(h) /\ p # 0
    OBVIOUS
  <2> QED
    BY <1>3, <2>1, Zenon DEF TaskAt
<1> QED
  BY <1>4, <1>5 DEF Doing

(* The tasks are those of the state, before and after a step.              *)
LEMMA TodoIs == Todo = Tasks(host, frames, tbc)
BY Zenon DEF Tasks, Todo, Work, Job, Base, Ground, ModeOf, Goes, Pending, Open, VarsOf, VarsIn

LEMMA TodoNextIs == Todo' = Tasks(host', frames', tbc')
BY Zenon DEF Tasks, Todo, Work, Job, Base, Ground, ModeOf, Goes, Pending, Open, VarsOf, VarsIn

(* The lowest m activations have the same to do while they stay the same.  *)
SameBelow(h, fr, tb, h2, fr2, tb2, m) ==
    \A i \in 1..m : /\ h2[i] = h[i] /\ SameFor(h[i], fr, tb, fr2, tb2, Up(h, fr, i))
                    /\ Unwinding(h[i]) => Up(h2, fr2, i) = Up(h, fr, i)

LEMMA TasksSame ==
  ASSUME NEW td, NEW h, NEW fr, NEW tb, Doing(td, h, fr, tb), h \in Seq(Acts),
         NEW td2, NEW h2, NEW fr2, NEW tb2, Doing(td2, h2, fr2, tb2), h2 \in Seq(Acts),
         NEW m \in Nat, m <= Len(h), m <= Len(h2), SameBelow(h, fr, tb, h2, fr2, tb2, m)
  PROVE  \A i \in 0..m : td2[i] = td[i]
<1> DEFINE T == {i \in Nat : i <= m => td2[i] = td[i]}
<1>1. 0 \in T
  BY DEF Doing
<1>2. ASSUME NEW i \in T, i \in Nat PROVE i + 1 \in T
  <2> SUFFICES ASSUME i + 1 <= m PROVE td2[i + 1] = td[i + 1]
    BY <1>2
  <2> PICK p \in Nat : p = i + 1
    BY <1>2
  <2>1. /\ td2[i] = td[i] /\ p - 1 = i /\ p \in 1..m /\ p \in 1..Len(h) /\ p \in 1..Len(h2)
        /\ h[p] \in Acts
    <3>1. Len(h) \in Nat /\ Len(h2) \in Nat
      BY LenProperties
    <3>2. p \in 1..Len(h) /\ p \in 1..Len(h2) /\ p \in 1..m
      BY <1>2, <3>1
    <3> QED
      BY <1>2, <3>2, ElementOfSeq
  <2> PICK a, b, n, n2 : /\ a = h[p] /\ b = td[i] /\ n = Up(h, fr, p)
                         /\ n2 = Up(h2, fr2, p) /\ a \in Acts
    BY <2>1
  <2>2. SameFor(a, fr, tb, fr2, tb2, n) /\ (Unwinding(a) => n2 = n) /\ h2[p] = a
    BY <2>1 DEF SameBelow
  <2>3. Job(fr2, tb2, a, b, n2) = Job(fr, tb, a, b, n)
    BY <2>2, JobSame
  <2>4. td[p] = Job(fr, tb, a, b, n) /\ td2[p] = Job(fr2, tb2, a, b, n2)
    BY <2>1, <2>2 DEF Doing
  <2> QED
    BY <2>3, <2>4
<1>3. Nat \subseteq T
  <2> HIDE DEF T
  <2> QED
    BY <1>1, <1>2, AllNumbers
<1> QED
  BY <1>3

AllHave(h, fr, tb, V) == \A i \in 1..Len(h) : HasVars(h[i], fr, tb, Up(h, fr, i), V)

LEMMA TasksType ==
  ASSUME NEW td, NEW h, NEW fr, NEW tb, Doing(td, h, fr, tb), h \in Seq(Acts),
         NEW V, AllHave(h, fr, tb, V)
  PROVE  \A i \in 0..Len(h) : td[i] \in Seq(Items(V))
<1> DEFINE T == {i \in Nat : i <= Len(h) => td[i] \in Seq(Items(V))}
<1>0. Len(h) \in Nat
  BY LenProperties
<1>1. 0 \in T
  <2>1. td[0] = <<>> /\ <<>> \in Seq(Items(V))
    BY DEF Doing
  <2> QED
    BY <2>1
<1>2. ASSUME NEW i \in T, i \in Nat PROVE i + 1 \in T
  <2> SUFFICES ASSUME i + 1 <= Len(h) PROVE td[i + 1] \in Seq(Items(V))
    BY <1>2
  <2> PICK p \in Nat : p = i + 1
    BY <1>2
  <2>1. td[i] \in Seq(Items(V)) /\ p - 1 = i /\ p \in 1..Len(h) /\ h[p] \in Acts
    <3>1. p \in 1..Len(h)
      BY <1>0, <1>2
    <3> QED
      BY <1>0, <1>2, <3>1, ElementOfSeq
  <2> PICK a, b, n : /\ a = h[p] /\ b = td[i] /\ n = Up(h, fr, p)
                     /\ a \in Acts /\ b \in Seq(Items(V))
    BY <2>1
  <2>2. HasVars(a, fr, tb, n, V)
    BY <2>1 DEF AllHave
  <2>3. Job(fr, tb, a, b, n) \in Seq(Items(V))
    BY <2>2, JobType
  <2>4. td[p] = Job(fr, tb, a, b, n)
    BY <2>1 DEF Doing
  <2> QED
    BY <2>3, <2>4
<1>3. Nat \subseteq T
  <2> HIDE DEF T
  <2> QED
    BY <1>1, <1>2, AllNumbers
<1> QED
  BY <1>3

-----------------------------------------------------------------------------
(* Which frames an activation looks at, for what it has to do.             *)
Looks(h, fr, i, g) ==
    \/ h[i].op # "pcall" /\ g = h[i].f
    \/ Unwinding(h[i]) /\ \E k \in (h[i].n + 1)..Up(h, fr, i) : g = fr[k]
    \/ Failed(h[i]) /\ \E k \in (h[i].n + 1)..h[i].j : g = fr[k]

(* What is above an unwinding closes the variables of a frame it has left. *)
LEMMA RangeIs ==
  ASSUME NEW h, NEW fr, NEW tb, NEW lev, Stands(h, fr, tb, lev),
         NEW i \in 1..Len(h), i < Len(h)
  PROVE  /\ Unwinding(h[i]) => /\ Up(h, fr, i) = lev[i + 1] /\ lev[i + 1] \in Nat
                               /\ h[i + 1].op = "close" /\ h[i + 1].how = "error"
         /\ Failed(h[i]) => /\ h[i].j < lev[i + 1] /\ lev[i + 1] = h[i + 1].n
                            /\ h[i + 1].op = "close" /\ h[i + 1].how = "error"
                            /\ h[i + 1].f = fr[h[i].j + 1]
<1>1. /\ h \in Seq(Acts) /\ Len(h) \in Nat /\ lev \in [0..Len(h) -> Nat]
      /\ \A k \in 1..Len(h) : Fits(h, k, lev, fr) /\ h[k] \in Acts
      /\ Closing(h, i, fr, tb)
  BY ElementOfSeq DEF Stands
<1>2. i + 1 \in 1..Len(h) /\ i + 1 > 1 /\ (i + 1) - 1 = i /\ i + 1 \in 0..Len(h) /\ i # Len(h)
  BY <1>1
<1> PICK p \in Nat : p = i + 1
  BY <1>1
<1>3. Sits(h[i], h[p]) /\ (h[p].op # "lua" => lev[p] = h[p].n) /\ lev[p] \in Nat
  BY <1>1, <1>2 DEF Fits
<1>4. Unwinding(h[i]) \/ Failed(h[i]) => h[p].op = "close" /\ h[p].how = "error"
  <2>1. h[i].ph = "left" \/ h[i].ph = "unwind" => h[i].ph # "body"
    OBVIOUS
  <2> QED
    BY <1>3, <2>1 DEF Sits, Unwinding, Failed
<1>5. Failed(h[i]) => h[i].j < h[p].n /\ h[p].f = fr[h[i].j + 1]
  BY <1>1 DEF Closing, Failed
<1>6. Up(h, fr, i) = h[p].n
  BY <1>2 DEF Up
<1> QED
  BY <1>3, <1>4, <1>5, <1>6

(* What an unwinding protected call closes is no longer on I.frames.       *)
Popped(h, i) == i > 1 /\ h[i].op = "close" /\ h[i].how = "error" /\ h[i - 1].op = "pcall"

LEMMA WhereIs ==
  ASSUME NEW h, NEW fr, NEW tb, NEW lev, Stands(h, fr, tb, lev),
         NEW i \in 1..Len(h), h[i].op # "pcall", ~Popped(h, i)
  PROVE  \E k \in 1..lev[i] : fr[k] = h[i].f
<1>1. /\ h \in Seq(Acts) /\ Len(h) \in Nat /\ lev \in [0..Len(h) -> Nat]
      /\ \A k \in 1..Len(h) : Fits(h, k, lev, fr) /\ h[k] \in Acts
      /\ \A k \in 1..Len(h) : k < Len(h) => Closing(h, k, fr, tb)
  BY ElementOfSeq DEF Stands
<1>2. ASSUME NEW p \in 1..Len(h), h[p].op = "lua"
      PROVE  lev[p] \in 1..lev[p] /\ fr[lev[p]] = h[p].f
  <2>1. p \in 0..Len(h) /\ p - 1 \in 0..Len(h)
    BY <1>1
  <2>2. lev[p - 1] \in Nat /\ lev[p] \in Nat
    BY <1>1, <2>1
  <2>3. lev[p] = lev[p - 1] + 1 /\ fr[lev[p]] = h[p].f
    BY <1>1, <1>2 DEF Fits
  <2> QED
    BY <2>2, <2>3
<1>3. h[i] \in Acts /\ h[i].op \in {"lua", "pcall", "close"}
  BY <1>1, ActIs
<1>4. CASE h[i].op = "lua"
  BY <1>2, <1>4
<1>5. CASE h[i].op = "close"
  <2>1. i > 1
    BY <1>1, <1>5 DEF Fits
  <2>2. i - 1 \in 1..Len(h) /\ (i - 1) + 1 = i /\ i - 1 < Len(h)
    BY <1>1, <2>1
  <2> PICK p \in 1..Len(h) : p = i - 1
    BY <2>2
  <2>3. Sits(h[p], h[i]) /\ h[p] \in Acts /\ p + 1 = i /\ p < Len(h)
    BY <1>1, <2>1, <2>2 DEF Fits
  <2>4. CASE h[i].how # "error"
    <3>1. h[p].op = "lua" /\ h[p].f = h[i].f /\ lev[i] = lev[p]
      <4>1. lev[i] = lev[i - 1]
        BY <1>1, <1>5, <2>4 DEF Fits
      <4> QED
        BY <1>5, <2>3, <2>4, <4>1 DEF Sits
    <3> QED
      BY <1>2, <3>1
  <2>5. CASE h[i].how = "error"
    <3>1. Failed(h[p])
      BY <1>5, <2>1, <2>3, <2>5 DEF Sits, Popped, Failed
    <3>2. /\ h[p].j < lev[p + 1] /\ h[p + 1].f = fr[h[p].j + 1]
      BY <2>3, <3>1, RangeIs
    <3>3. h[p].j \in Nat /\ lev[i] \in Nat
      <4>1. i \in 0..Len(h)
        BY <1>1
      <4> QED
        BY <1>1, <2>3, <3>1, <4>1, ActIs DEF Failed
    <3>4. h[p].j + 1 \in 1..lev[i] /\ fr[h[p].j + 1] = h[i].f
      BY <2>3, <3>2, <3>3
    <3> QED
      BY <3>4
  <2> QED
    BY <2>4, <2>5
<1> QED
  BY <1>3, <1>4, <1>5

(* Nothing looks at a frame that is not known.                             *)
FingerIn(h, fr) == Failed(h[Len(h)]) => h[Len(h)].j <= Len(fr)

LEMMA LooksIn ==
  ASSUME NEW h, NEW fr, NEW tb, NEW lev, Stands(h, fr, tb, lev), Len(fr) \in Nat,
         lev[Len(h)] <= Len(fr), FingerIn(h, fr), NEW i \in 1..Len(h)
  PROVE  /\ Unwinding(h[i]) => Up(h, fr, i) \in Nat /\ Up(h, fr, i) <= Len(fr)
         /\ Failed(h[i]) => h[i].j <= Len(fr)
<1>1. /\ h \in Seq(Acts) /\ Len(h) \in Nat /\ lev \in [0..Len(h) -> Nat]
      /\ \A x, k \in 0..Len(h) : k <= x => lev[k] <= lev[x]
      /\ \A k \in 1..Len(h) : h[k] \in Acts
  BY ElementOfSeq DEF Stands
<1>2. CASE i = Len(h)
  BY <1>2 DEF Up, FingerIn
<1>3. CASE i < Len(h)
  <2>1. i + 1 \in 0..Len(h) /\ Len(h) \in 0..Len(h) /\ i + 1 <= Len(h)
    BY <1>1, <1>3
  <2>2. lev[i + 1] <= lev[Len(h)] /\ lev[i + 1] \in Nat /\ lev[Len(h)] \in Nat
    BY <1>1, <2>1
  <2>3. Failed(h[i]) => h[i].j \in Nat
    BY <1>1, ActIs DEF Failed
  <2>4. Unwinding(h[i]) => Up(h, fr, i) = lev[i + 1]
    BY <1>3, RangeIs
  <2>5. Failed(h[i]) => h[i].j < lev[i + 1]
    BY <1>3, RangeIs
  <2> QED
    BY <2>2, <2>3, <2>4, <2>5
<1> QED
  BY <1>1, <1>2, <1>3

LEMMA LooksKnown ==
  ASSUME NEW h, NEW fr, NEW tb, NEW lev, Stands(h, fr, tb, lev), Len(fr) \in Nat,
         lev[Len(h)] <= Len(fr), FingerIn(h, fr), NEW i \in 1..Len(h), NEW g,
         Looks(h, fr, i, g)
  PROVE  Known(h, fr, g)
<1>1. h[i] \in Acts
  BY ElementOfSeq DEF Stands
<1>2. /\ Unwinding(h[i]) => Up(h, fr, i) \in Nat /\ Up(h, fr, i) <= Len(fr) /\ h[i].n \in Nat
      /\ Failed(h[i]) => h[i].j <= Len(fr) /\ h[i].n \in Nat /\ h[i].j \in Nat
  BY <1>1, ActIs, LooksIn DEF Unwinding, Failed
<1>3. CASE h[i].op # "pcall" /\ g = h[i].f
  BY <1>3 DEF Known, OnHost
<1>4. CASE Unwinding(h[i]) /\ \E k \in (h[i].n + 1)..Up(h, fr, i) : g = fr[k]
  <2>1. PICK k \in (h[i].n + 1)..Up(h, fr, i) : g = fr[k]
    BY <1>4
  <2>2. k \in 1..Len(fr)
    BY <1>2, <1>4
  <2> QED
    BY <2>1, <2>2 DEF Known, OnFrames
<1>5. CASE Failed(h[i]) /\ \E k \in (h[i].n + 1)..h[i].j : g = fr[k]
  <2>1. PICK k \in (h[i].n + 1)..h[i].j : g = fr[k]
    BY <1>5
  <2>2. k \in 1..Len(fr)
    BY <1>2, <1>5
  <2> QED
    BY <2>1, <2>2 DEF Known, OnFrames
<1> QED
  BY <1>3, <1>4, <1>5 DEF Looks

-----------------------------------------------------------------------------
(* The refinement needs three facts more than CloseInv.  A scope never has *)
(* fewer variables than it keeps; a finger has not left the frames of the  *)
(* failed handler while one of them is being closed; and what an unwinding *)
(* protected call has popped is nobody else's any more.                    *)
KeepsOf(h, tb, i)  == h[i].op = "close" => h[i].keep <= Len(tb[h[i].f])
FingerOf(h, i)     == Failed(h[i]) /\ i < Len(h) => h[i].n <= h[i].j
ApartOf(h, fr, i)  == Popped(h, i) =>
    /\ ~OnFrames(fr, h[i].f)
    /\ \A k \in 1..Len(h) : k # i /\ h[k].op # "pcall" => h[k].f # h[i].f
OwnsAt(h, fr, tb, i) == KeepsOf(h, tb, i) /\ FingerOf(h, i) /\ ApartOf(h, fr, i)
Owns(h, fr, tb)    == \A i \in 1..Len(h) : OwnsAt(h, fr, tb, i)

(* Where the frames are that those below p look at.                        *)
LEMMA LooksBelow ==
  ASSUME NEW h, NEW fr, NEW tb, NEW lev, Stands(h, fr, tb, lev), Owns(h, fr, tb),
         NEW p \in 1..Len(h), NEW i \in 1..(p - 1), NEW g, Looks(h, fr, i, g),
         OnFrames(fr, g)
  PROVE  \E k \in Nat : /\ k >= 1 /\ fr[k] = g
                        /\ \/ k <= lev[p - 1]
                           \/ i = p - 1 /\ Unwinding(h[i]) /\ k <= lev[p]
                           \/ i = p - 1 /\ Failed(h[i]) /\ k <= h[i].j
<1>1. /\ h \in Seq(Acts) /\ Len(h) \in Nat /\ lev \in [0..Len(h) -> Nat]
      /\ \A x, k \in 0..Len(h) : k <= x => lev[k] <= lev[x]
      /\ \A k \in 1..Len(h) : h[k] \in Acts
  BY ElementOfSeq DEF Stands
<1>2. /\ i \in 1..Len(h) /\ i < Len(h) /\ i + 1 \in 1..Len(h) /\ p - 1 \in 0..Len(h)
      /\ i \in 0..Len(h) /\ i + 1 \in 0..Len(h) /\ i <= p - 1 /\ p \in 0..Len(h)
      /\ (i # p - 1 => i + 1 <= p - 1)
  BY <1>1
<1>3. /\ lev[i] <= lev[p - 1] /\ (i # p - 1 => lev[i + 1] <= lev[p - 1])
      /\ lev[i] \in Nat /\ lev[p - 1] \in Nat /\ lev[i + 1] \in Nat
  BY <1>1, <1>2
<1>4. /\ Unwinding(h[i]) => Up(h, fr, i) = lev[i + 1] /\ h[i].n \in Nat
      /\ Failed(h[i]) => h[i].j < lev[i + 1] /\ h[i].n \in Nat /\ h[i].j \in Nat
  BY <1>1, <1>2, RangeIs, ActIs DEF Unwinding, Failed
<1>5. CASE h[i].op # "pcall" /\ g = h[i].f
  <2>1. ~Popped(h, i)
    BY <1>2, <1>5 DEF Owns, OwnsAt, ApartOf
  <2>2. PICK k \in 1..lev[i] : fr[k] = h[i].f
    BY <1>2, <1>5, <2>1, WhereIs
  <2>3. k \in Nat /\ k >= 1 /\ k <= lev[p - 1]
    BY <1>3
  <2> QED
    BY <1>5, <2>2, <2>3
<1>6. CASE Unwinding(h[i]) /\ \E k \in (h[i].n + 1)..Up(h, fr, i) : g = fr[k]
  <2>1. PICK k \in (h[i].n + 1)..Up(h, fr, i) : g = fr[k]
    BY <1>6
  <2>2. k \in Nat /\ k >= 1 /\ k <= lev[i + 1]
    BY <1>3, <1>4, <1>6
  <2>3. i = p - 1 => k <= lev[p]
    BY <2>2
  <2>4. i # p - 1 => k <= lev[p - 1]
    BY <1>3, <2>2
  <2> QED
    BY <1>6, <2>1, <2>2, <2>3, <2>4
<1>7. CASE Failed(h[i]) /\ \E k \in (h[i].n + 1)..h[i].j : g = fr[k]
  <2>1. PICK k \in (h[i].n + 1)..h[i].j : g = fr[k]
    BY <1>7
  <2>2. k \in Nat /\ k >= 1 /\ k <= h[i].j /\ k <= lev[i + 1]
    BY <1>3, <1>4, <1>7, SMTT(30)
  <2>3. i # p - 1 => k <= lev[p - 1]
    BY <1>3, <2>2
  <2> QED
    BY <1>7, <2>1, <2>2, <2>3
<1> QED
  BY <1>5, <1>6, <1>7 DEF Looks

(* A function's variables are its own.                                     *)
LEMMA LuaAlone ==
  ASSUME NEW h, NEW fr, NEW tb, NEW lev, Stands(h, fr, tb, lev), Owns(h, fr, tb),
         Len(fr) \in Nat, lev[Len(h)] <= Len(fr), Distinct(fr),
         NEW p \in 1..Len(h), h[p].op = "lua", NEW i \in 1..(p - 1)
  PROVE  ~Looks(h, fr, i, h[p].f)
<1> SUFFICES ASSUME Looks(h, fr, i, h[p].f) PROVE FALSE
  OBVIOUS
<1>1. /\ h \in Seq(Acts) /\ Len(h) \in Nat /\ lev \in [0..Len(h) -> Nat]
      /\ \A x, k \in 0..Len(h) : k <= x => lev[k] <= lev[x]
      /\ Fits(h, p, lev, fr)
  BY DEF Stands
<1>2. p - 1 \in 0..Len(h) /\ p \in 0..Len(h) /\ Len(h) \in 0..Len(h) /\ p <= Len(h)
  BY <1>1
<1>3. /\ lev[p] = lev[p - 1] + 1 /\ fr[lev[p]] = h[p].f /\ lev[p - 1] \in Nat
      /\ lev[p] <= Len(fr) /\ lev[p] \in Nat
  BY <1>1, <1>2, SMTT(30) DEF Fits
<1>4. lev[p] \in 1..Len(fr)
  BY <1>3
<1>5. i = p - 1 => ~Unwinding(h[i]) /\ ~Failed(h[i])
  <2> SUFFICES ASSUME i = p - 1, Unwinding(h[i]) \/ Failed(h[i]) PROVE FALSE
    OBVIOUS
  <2>1. i \in 1..Len(h) /\ i < Len(h) /\ i + 1 = p
    BY <1>1
  <2>2. h[i + 1].op = "close"
    BY <2>1, RangeIs
  <2> QED
    BY <2>1, <2>2
<1>6. OnFrames(fr, h[p].f)
  BY <1>3, <1>4 DEF OnFrames
<1> PICK g : g = h[p].f
  OBVIOUS
<1>7. PICK k \in Nat : /\ k >= 1 /\ fr[k] = g
                       /\ \/ k <= lev[p - 1]
                          \/ i = p - 1 /\ Unwinding(h[i]) /\ k <= lev[p]
                          \/ i = p - 1 /\ Failed(h[i]) /\ k <= h[i].j
  BY <1>6, LooksBelow
<1>8. k <= lev[p - 1]
  BY <1>5, <1>7
<1>9. k \in 1..Len(fr) /\ k # lev[p]
  BY <1>3, <1>7, <1>8
<1> QED
  BY <1>3, <1>4, <1>7, <1>9 DEF Distinct

(* And so are those of a frame that an error has passed, while they are    *)
(* closed.                                                                 *)
LEMMA ErrorAlone ==
  ASSUME NEW h, NEW fr, NEW tb, NEW lev, Stands(h, fr, tb, lev), Owns(h, fr, tb),
         Len(fr) \in Nat, lev[Len(h)] <= Len(fr), Distinct(fr),
         NEW p, p = Len(h), p \in Nat \ {0}, h[p].op = "close", h[p].how = "error",
         NEW i \in 1..(p - 1)
  PROVE  ~Looks(h, fr, i, h[p].f)
<1> SUFFICES ASSUME Looks(h, fr, i, h[p].f) PROVE FALSE
  OBVIOUS
<1> PICK g : g = h[p].f
  OBVIOUS
<1>1. /\ h \in Seq(Acts) /\ lev \in [0..p -> Nat] /\ p \in 1..p
      /\ \A x, k \in 0..p : k <= x => lev[k] <= lev[x]
      /\ \A k \in 1..p : h[k] \in Acts /\ Fits(h, k, lev, fr)
      /\ \A k \in 1..p : OwnsAt(h, fr, tb, k)
  <2>1. /\ h \in Seq(Acts) /\ lev \in [0..Len(h) -> Nat]
        /\ \A x, k \in 0..Len(h) : k <= x => lev[k] <= lev[x]
        /\ \A k \in 1..Len(h) : Fits(h, k, lev, fr)
    BY DEF Stands
  <2>2. \A k \in 1..Len(h) : h[k] \in Acts
    BY <2>1, ElementOfSeq
  <2>3. \A k \in 1..Len(h) : OwnsAt(h, fr, tb, k)
    BY DEF Owns
  <2> QED
    BY <2>1, <2>2, <2>3
<1>2. /\ i \in 1..p /\ i < p /\ p > 1 /\ p - 1 \in 1..p /\ (p - 1) + 1 = p /\ p - 1 < p
      /\ p - 1 \in 0..p /\ i + 1 \in 0..p /\ i + 1 <= p /\ p \in 0..p /\ i # p
  BY <1>1
<1>3. Sits(h[p - 1], h[p])
  BY <1>1, <1>2 DEF Fits
<1>4. CASE Popped(h, p)
  <2>1. ~OnFrames(fr, g) /\ (h[i].op # "pcall" => h[i].f # g)
    BY <1>1, <1>2, <1>4 DEF OwnsAt, ApartOf
  <2>2. /\ Unwinding(h[i]) => Up(h, fr, i) = lev[i + 1] /\ h[i].n \in Nat
        /\ Failed(h[i]) => h[i].j < lev[i + 1] /\ h[i].n \in Nat /\ h[i].j \in Nat
    BY <1>1, <1>2, RangeIs, ActIs DEF Unwinding, Failed
  <2>3. lev[i + 1] \in Nat /\ lev[i + 1] <= Len(fr)
    <3>1. lev[i + 1] <= lev[p] /\ lev[i + 1] \in Nat /\ lev[p] \in Nat
      BY <1>1, <1>2
    <3> QED
      BY <3>1
  <2>4. ASSUME Unwinding(h[i]), NEW k \in (h[i].n + 1)..Up(h, fr, i), g = fr[k] PROVE FALSE
    <3>1. k \in 1..Len(fr)
      BY <2>2, <2>3, <2>4
    <3> QED
      BY <2>1, <2>4, <3>1 DEF OnFrames
  <2>5. ASSUME Failed(h[i]), NEW k \in (h[i].n + 1)..h[i].j, g = fr[k] PROVE FALSE
    <3>1. k \in 1..Len(fr)
      BY <2>2, <2>3, <2>5
    <3> QED
      BY <2>1, <2>5, <3>1 DEF OnFrames
  <2> QED
    BY <2>1, <2>4, <2>5 DEF Looks
<1>5. CASE ~Popped(h, p)
  <2>1. Failed(h[p - 1]) /\ h[p - 1].n \in Nat /\ h[p - 1].j \in Nat
    BY <1>1, <1>2, <1>3, <1>5, ActIs DEF Sits, Popped, Failed
  <2>2. /\ h[p - 1].j < lev[p] /\ g = fr[h[p - 1].j + 1]
    BY <1>2, <2>1, RangeIs
  <2>3. h[p - 1].n <= h[p - 1].j
    BY <1>1, <1>2, <2>1 DEF OwnsAt, FingerOf
  <2>4. h[p - 1].n = lev[p - 1] /\ lev[p - 1] \in Nat /\ lev[p] \in Nat
    BY <1>1, <1>2, <2>1 DEF Fits, Failed
  <2>5. h[p - 1].j + 1 \in 1..Len(fr)
    BY <2>1, <2>2, <2>4
  <2>6. OnFrames(fr, g)
    BY <2>2, <2>5 DEF OnFrames
  <2>7. PICK k \in Nat : /\ k >= 1 /\ fr[k] = g
                         /\ \/ k <= lev[p - 1]
                            \/ i = p - 1 /\ Unwinding(h[i]) /\ k <= lev[p]
                            \/ i = p - 1 /\ Failed(h[i]) /\ k <= h[i].j
    <3>1. p \in 1..Len(h)
      BY <1>1
    <3> QED
      BY <2>6, <3>1, LooksBelow, SMTT(30)
  <2>8. ~Unwinding(h[p - 1])
    BY <2>1 DEF Unwinding, Failed
  <2>9. k <= h[p - 1].j
    BY <2>1, <2>3, <2>4, <2>7, <2>8
  <2>10. k \in 1..Len(fr) /\ k # h[p - 1].j + 1
    BY <2>1, <2>5, <2>7, <2>9, SMTT(30)
  <2> QED
    BY <2>2, <2>5, <2>7, <2>10 DEF Distinct
<1> QED
  BY <1>4, <1>5

(* What the lowest m activations look at is at most the first L frames;    *)
(* the one above them closes what it did.                                  *)
Bounded(h, h2, lev, m, L) ==
    m # 0 => /\ lev[m] <= L
             /\ Unwinding(h[m]) \/ Failed(h[m]) =>
                   /\ m < Len(h) /\ m < Len(h2) /\ h2[m + 1].n = h[m + 1].n
                   /\ lev[m + 1] <= L

SeenSame(h, fr, tb, tb2, m) ==
    \A i \in 1..m : \A g : Looks(h, fr, i, g) => tb2[g] = tb[g]

LEMMA BelowIs ==
  ASSUME NEW h, NEW fr, NEW tb, NEW lev, Stands(h, fr, tb, lev),
         NEW h2, NEW fr2, NEW tb2, Len(h2) \in Nat, NEW m \in Nat, m <= Len(h), m <= Len(h2),
         \A i \in 1..m : h2[i] = h[i], NEW L \in Nat, Agree(fr, fr2, L),
         Bounded(h, h2, lev, m, L), SeenSame(h, fr, tb, tb2, m)
  PROVE  SameBelow(h, fr, tb, h2, fr2, tb2, m)
<1>1. /\ h \in Seq(Acts) /\ Len(h) \in Nat /\ lev \in [0..Len(h) -> Nat]
      /\ \A x, k \in 0..Len(h) : k <= x => lev[k] <= lev[x]
      /\ \A k \in 1..Len(h) : h[k] \in Acts
  BY ElementOfSeq DEF Stands
<1> SUFFICES ASSUME NEW i \in 1..m
             PROVE  /\ h2[i] = h[i] /\ SameFor(h[i], fr, tb, fr2, tb2, Up(h, fr, i))
                    /\ Unwinding(h[i]) => Up(h2, fr2, i) = Up(h, fr, i)
  BY DEF SameBelow
<1>2. /\ i \in 1..Len(h) /\ h2[i] = h[i] /\ i \in Nat
      /\ \A g : Looks(h, fr, i, g) => tb2[g] = tb[g]
  BY <1>1 DEF SeenSame
<1>3. h[i].op # "pcall" => tb2[h[i].f] = tb[h[i].f]
  BY <1>2 DEF Looks
<1>4. ASSUME Unwinding(h[i]) \/ Failed(h[i])
      PROVE  /\ i < Len(h) /\ i < Len(h2) /\ h2[i + 1].n = h[i + 1].n
             /\ lev[i + 1] <= L /\ lev[i + 1] \in Nat
  <2>1. CASE i = m
    BY <1>1, <1>2, <1>4, <2>1 DEF Bounded
  <2>2. CASE i # m
    <3>1. i < m /\ i + 1 \in 1..m /\ i + 1 \in 0..Len(h) /\ m \in 0..Len(h) /\ m # 0
      BY <1>1, <1>2, <2>2
    <3>2. lev[i + 1] <= lev[m] /\ lev[i + 1] \in Nat /\ lev[m] \in Nat /\ lev[m] <= L
      BY <1>1, <3>1 DEF Bounded
    <3> QED
      BY <1>1, <3>1, <3>2
  <2> QED
    BY <2>1, <2>2
<1>5. ASSUME Unwinding(h[i])
      PROVE  /\ Up(h, fr, i) \in Nat /\ Up(h2, fr2, i) = Up(h, fr, i)
             /\ SameFrames(fr, tb, fr2, tb2, h[i].n, Up(h, fr, i))
  <2>1. /\ i < Len(h) /\ i < Len(h2) /\ h2[i + 1].n = h[i + 1].n
        /\ lev[i + 1] <= L /\ lev[i + 1] \in Nat
    BY <1>4, <1>5
  <2>2. Up(h, fr, i) = lev[i + 1] /\ h[i].n \in Nat
    BY <1>1, <1>2, <1>5, <2>1, RangeIs, ActIs, SMTT(30) DEF Unwinding
  <2>3. Up(h2, fr2, i) = Up(h, fr, i)
    BY <1>1, <1>2, <2>1 DEF Up
  <2>4. ASSUME NEW k \in (h[i].n + 1)..Up(h, fr, i)
        PROVE  fr2[k] = fr[k] /\ tb2[fr[k]] = tb[fr[k]]
    <3>1. k \in 1..L
      BY <2>1, <2>2, SMTT(30)
    <3>2. Looks(h, fr, i, fr[k])
      BY <1>5 DEF Looks
    <3> QED
      BY <1>2, <3>1, <3>2 DEF Agree
  <2> QED
    BY <2>1, <2>2, <2>3, <2>4 DEF SameFrames
<1>6. ASSUME Failed(h[i]) PROVE SameFrames(fr, tb, fr2, tb2, h[i].n, h[i].j)
  <2>1. i < Len(h) /\ lev[i + 1] <= L /\ lev[i + 1] \in Nat
    BY <1>4, <1>6
  <2>2. h[i].j < lev[i + 1] /\ h[i].n \in Nat /\ h[i].j \in Nat
    BY <1>1, <1>2, <1>6, <2>1, RangeIs, ActIs DEF Failed
  <2>3. ASSUME NEW k \in (h[i].n + 1)..h[i].j
        PROVE  fr2[k] = fr[k] /\ tb2[fr[k]] = tb[fr[k]]
    <3>1. k \in 1..L
      BY <2>1, <2>2, SMTT(30)
    <3>2. Looks(h, fr, i, fr[k])
      BY <1>6 DEF Looks
    <3> QED
      BY <1>2, <3>1, <3>2 DEF Agree
  <2> QED
    BY <2>3 DEF SameFrames
<1> QED
  BY <1>2, <1>3, <1>5, <1>6 DEF SameFor

-----------------------------------------------------------------------------
(* The actions of Unwinding, from one list of things to do to another.     *)
Enters(t, m, t2, m2) ==
    /\ m = A!Run /\ m2 = m
    /\ \/ t2 = Append(t, A!Fn)
       \/ t2 = t \o <<A!Protected, A!Fn>>
       \/ \E v \in Vars : A!Var(v) \notin ToSet(t) /\ t2 = Append(t, A!Var(v))
Exits(t, m, t2, m2) ==
    /\ m = A!Run /\ t2 = t
    /\ \E i \in DOMAIN t : /\ t[i] = A!Fn
                           /\ \A j \in DOMAIN t : j > i => t[j].k = "var"
                           /\ \E to \in (i - 1)..Len(t) : to > 0 /\ m2 = A!Leave(to)
ScopeLeft(t, m, t2, m2) == m.m = "leave" /\ Len(t) = m.to /\ t2 = t /\ m2 = A!Run
FunctionLeft(t, m, t2, m2) ==
    /\ m.m = "leave" /\ Len(t) = m.to + 1 /\ Last(t) = A!Fn
    /\ LET s == Front(t) IN
       CASE Last(s).k = "protected" -> t2 = Front(s) /\ m2 = A!Run
         [] Last(s).k = "handler" -> t2 = Front(s) /\ m2 = Last(s).m
         [] OTHER -> t2 = s /\ m2 = A!Run
Throws(t, m, t2, m2) ==
    /\ m = A!Run /\ A!Protected \in ToSet(t)
    /\ (\E e \in Errs : m2 = A!Raise(e)) /\ t2 = A!Abandon(t)
Closes1(t, m) == ((m.m = "leave" /\ Len(t) > m.to) \/ m.m = "raise") /\ Last(t).k = "var"
ClosesVar(t, m, t2, m2) ==
    Closes1(t, m) /\ t2 = Front(t) \o <<A!Handler(m), A!Fn>> /\ m2 = A!Run
CannotClose(t, m, t2, m2) ==
    /\ Closes1(t, m) /\ A!Protected \in ToSet(t)
    /\ (\E e \in Errs : m2 = A!Raise(e)) /\ t2 = A!Abandon(Front(t))
Absorbs(t, m, t2, m2) ==
    m.m = "raise" /\ Last(t).k = "handler" /\ t2 = A!Abandon(Front(t)) /\ m2 = m
Delivers(t, m, t2, m2, g2) ==
    /\ m.m = "raise" /\ Last(t) = A!Protected
    /\ t2 = Front(t) /\ m2 = A!Run /\ g2 = m.e
Steps(t, m, g, t2, m2, g2) ==
    \/ /\ g2 = g
       /\ \/ t2 = t /\ m2 = m
          \/ Enters(t, m, t2, m2) \/ Exits(t, m, t2, m2)
          \/ ScopeLeft(t, m, t2, m2) \/ FunctionLeft(t, m, t2, m2)
          \/ Throws(t, m, t2, m2) \/ ClosesVar(t, m, t2, m2)
          \/ CannotClose(t, m, t2, m2) \/ Absorbs(t, m, t2, m2)
    \/ Delivers(t, m, t2, m2, g2)

(* What the state is taken to: the list of things to do, and the mode.     *)
LangTodo == Todo[Len(host)]
LangMode == IF InGuest THEN A!Run
            ELSE IF Top.op = "close" /\ Top.ph = "next"
                 THEN ModeOf(Top, Todo[Len(host) - 1])
            ELSE A!Raise(Top.err)

(* The operators of Unwinding are the same ones in both instances of it.   *)
LEMMA SameOperators ==
  /\ Lang!Fn = A!Fn /\ Lang!Protected = A!Protected /\ Lang!Run = A!Run
  /\ \A x : Lang!Var(x) = A!Var(x) /\ Lang!Handler(x) = A!Handler(x)
  /\ \A x : Lang!Leave(x) = A!Leave(x) /\ Lang!Raise(x) = A!Raise(x)
  /\ \A s : Lang!Last(s) = Last(s) /\ Lang!Front(s) = Front(s) /\ Lang!ToSet(s) = ToSet(s)
<1>1. Lang!Fn = A!Fn /\ Lang!Protected = A!Protected /\ Lang!Run = A!Run
  BY DEF Lang!Fn, A!Fn, Lang!Protected, A!Protected, Lang!Run, A!Run
<1>2. \A x : Lang!Var(x) = A!Var(x) /\ Lang!Handler(x) = A!Handler(x)
  BY Zenon DEF Lang!Var, A!Var, Lang!Handler, A!Handler
<1>3. \A x : Lang!Leave(x) = A!Leave(x) /\ Lang!Raise(x) = A!Raise(x)
  BY Zenon DEF Lang!Leave, A!Leave, Lang!Raise, A!Raise
<1>4. \A s : Lang!Last(s) = Last(s) /\ Lang!Front(s) = Front(s) /\ Lang!ToSet(s) = ToSet(s)
  BY Zenon DEF Lang!Last, Last, Lang!Front, Front, Lang!ToSet, ToSet
<1> QED
  BY <1>1, <1>2, <1>3, <1>4

LEMMA SameAbandon == \A s : Lang!Abandon(s) = A!Abandon(s)
BY Zenon DEF A!Abandon, Lang!Abandon, A!IsCatcher, Lang!IsCatcher

LEMMA StepsAreActions ==
  ASSUME Steps(LangTodo, LangMode, got, LangTodo', LangMode', got')
  PROVE  [Lang!Next]_<<LangTodo, LangMode, got>>
<1>1. CASE Enters(LangTodo, LangMode, LangTodo', LangMode') /\ got' = got
  <2>1. Lang!Enter
    BY <1>1, SameOperators, Zenon DEF Enters, Lang!Enter, LangTodo, LangMode
  <2> QED
    BY <2>1 DEF Lang!Next
<1>2. CASE Exits(LangTodo, LangMode, LangTodo', LangMode') /\ got' = got
  <2>1. Lang!Exit
    BY <1>2, SameOperators, Zenon DEF Exits, Lang!Exit, LangTodo, LangMode
  <2> QED
    BY <2>1 DEF Lang!Next
<1>3. CASE ScopeLeft(LangTodo, LangMode, LangTodo', LangMode') /\ got' = got
  <2>1. Lang!Left
    BY <1>3, SameOperators, Zenon DEF ScopeLeft, Lang!Left, LangTodo, LangMode
  <2> QED
    BY <2>1 DEF Lang!Next
<1>4. CASE FunctionLeft(LangTodo, LangMode, LangTodo', LangMode') /\ got' = got
  <2>1. Lang!Left
    BY <1>4, SameOperators, Zenon DEF FunctionLeft, Lang!Left, LangTodo, LangMode
  <2> QED
    BY <2>1 DEF Lang!Next
<1>5. CASE Throws(LangTodo, LangMode, LangTodo', LangMode') /\ got' = got
  <2>1. Lang!Throw
    BY <1>5, SameOperators, SameAbandon, Zenon DEF Throws, Lang!Throw, LangTodo, LangMode
  <2> QED
    BY <2>1 DEF Lang!Next
<1>6. CASE ClosesVar(LangTodo, LangMode, LangTodo', LangMode') /\ got' = got
  <2>1. Lang!CloseVar
    BY <1>6, SameOperators, Zenon DEF ClosesVar, Closes1, Lang!CloseVar, Lang!Closing, LangTodo, LangMode
  <2> QED
    BY <2>1 DEF Lang!Next
<1>7. CASE CannotClose(LangTodo, LangMode, LangTodo', LangMode') /\ got' = got
  <2>1. Lang!CloseFails
    BY <1>7, SameOperators, SameAbandon, Zenon
       DEF CannotClose, Closes1, Lang!CloseFails, Lang!Closing, LangTodo, LangMode
  <2> QED
    BY <2>1 DEF Lang!Next
<1>8. CASE Absorbs(LangTodo, LangMode, LangTodo', LangMode') /\ got' = got
  <2>1. Lang!Absorb
    BY <1>8, SameOperators, SameAbandon, Zenon DEF Absorbs, Lang!Absorb, LangTodo, LangMode
  <2> QED
    BY <2>1 DEF Lang!Next
<1>9. CASE Delivers(LangTodo, LangMode, LangTodo', LangMode', got')
  <2>1. Lang!Deliver
    BY <1>9, SameOperators, Zenon DEF Delivers, Lang!Deliver, LangTodo, LangMode
  <2> QED
    BY <2>1 DEF Lang!Next
<1> QED
  BY <1>1, <1>2, <1>3, <1>4, <1>5, <1>6, <1>7, <1>8, <1>9 DEF Steps

-----------------------------------------------------------------------------
(* What is done has the variables of the frames that are known.            *)
KnownHave(h, fr, tb, V) == \A f \in Id : Known(h, fr, f) => tb[f] \in Seq(V)

LEMMA HaveAll ==
  ASSUME NEW h, NEW fr, NEW tb, NEW lev, Stands(h, fr, tb, lev), fr \in Seq(Id),
         lev[Len(h)] <= Len(fr), FingerIn(h, fr), NEW V, KnownHave(h, fr, tb, V)
  PROVE  AllHave(h, fr, tb, V)
<1>1. Len(fr) \in Nat /\ \A k \in 1..Len(fr) : fr[k] \in Id /\ Known(h, fr, fr[k])
  BY ElementOfSeq DEF Known, OnFrames
<1> SUFFICES ASSUME NEW i \in 1..Len(h) PROVE HasVars(h[i], fr, tb, Up(h, fr, i), V)
  BY DEF AllHave
<1>2. h[i] \in Acts
  BY ElementOfSeq DEF Stands
<1>3. /\ Unwinding(h[i]) => Up(h, fr, i) \in Nat /\ Up(h, fr, i) <= Len(fr) /\ h[i].n \in Nat
      /\ Failed(h[i]) => h[i].j <= Len(fr) /\ h[i].n \in Nat /\ h[i].j \in Nat
  BY <1>1, <1>2, ActIs, LooksIn DEF Unwinding, Failed
<1>4. h[i].op # "pcall" => tb[h[i].f] \in Seq(V)
  <2>1. h[i].op # "pcall" => h[i].f \in Id /\ Known(h, fr, h[i].f)
    BY <1>2, ActIs DEF Known, OnHost
  <2> QED
    BY <2>1 DEF KnownHave
<1>5. ASSUME Unwinding(h[i]), NEW k \in (h[i].n + 1)..Up(h, fr, i)
      PROVE  tb[fr[k]] \in Seq(V)
  <2>1. k \in 1..Len(fr)
    BY <1>1, <1>3, <1>5
  <2> QED
    BY <1>1, <2>1 DEF KnownHave
<1>6. ASSUME Failed(h[i]), NEW k \in (h[i].n + 1)..h[i].j PROVE tb[fr[k]] \in Seq(V)
  <2>1. k \in 1..Len(fr)
    BY <1>1, <1>3, <1>6
  <2> QED
    BY <1>1, <2>1 DEF KnownHave
<1> QED
  BY <1>3, <1>4, <1>5, <1>6 DEF HasVars

(* What is left of a list of things to do by an error.                     *)
LEMMA ItemsAre ==
  ASSUME NEW V, NEW r \in Seq(Items(V)), NEW w \in Seq(VarItems(V))
  PROVE  /\ w \in Seq(Items(V)) /\ r \o w \in Seq(Items(V)) /\ Append(r, A!Fn) \in Seq(Items(V))
         /\ Append(r, A!Protected) \in Seq(Items(V))
         /\ \A m \in Modes : Append(r, A!Handler(m)) \in Seq(Items(V))
         /\ A!Abandon(r) \in Seq(Items(V))
<1>1. VarItems(V) \subseteq Items(V) /\ A!Fn \in Items(V) /\ A!Protected \in Items(V)
      /\ \A m \in Modes : A!Handler(m) \in Items(V)
  BY ItemIs DEF VarsOnly
<1>2. w \in Seq(Items(V))
  BY <1>1, SeqMonotone
<1>3. r \o w \in Seq(Items(V))
  BY <1>2, ConcatProperties
<1>4. A!Abandon(r) \in Seq(Items(V))
  BY AbandonType
<1> QED
  BY <1>1, <1>2, <1>3, <1>4, AppendProperties

LEMMA AbandonItems ==
  ASSUME NEW V, NEW r \in Seq(Items(V)), NEW w \in Seq(VarItems(V))
  PROVE  /\ A!Abandon(r \o w) = A!Abandon(r) \o w
         /\ A!Abandon(A!Abandon(r)) = A!Abandon(r)
         /\ A!Abandon(Append(r, A!Fn)) = A!Abandon(r)
         /\ A!Abandon(Append(r, A!Fn) \o w) = A!Abandon(r) \o w
         /\ A!Abandon(Append(r, A!Protected)) = Append(r, A!Protected)
         /\ \A m \in Modes : A!Abandon(Append(r, A!Handler(m))) = Append(r, A!Handler(m))
<1>1. VarsOnly(VarItems(V), Items(V)) /\ A!Fn \in Items(V) /\ A!Protected \in Items(V)
      /\ \A m \in Modes : A!Handler(m) \in Items(V)
  BY ItemIs
<1>2. A!Abandon(r \o w) = A!Abandon(r) \o w
  BY <1>1, AbandonVars
<1>3. A!Abandon(A!Abandon(r)) = A!Abandon(r)
  BY AbandonTwice
<1>4. A!Abandon(Append(r, A!Fn)) = A!Abandon(r)
  BY <1>1, ItemIs, AbandonAppend
<1>5. A!Abandon(Append(r, A!Protected)) = Append(r, A!Protected)
  BY <1>1, ItemIs, AbandonAppend
<1>6. ASSUME NEW m \in Modes
      PROVE  A!Abandon(Append(r, A!Handler(m))) = Append(r, A!Handler(m))
  <2>1. A!Handler(m) \in Items(V) /\ A!IsCatcher(A!Handler(m))
    BY <1>1, ItemIs
  <2> PICK x \in Items(V) : x = A!Handler(m)
    BY <2>1
  <2>2. A!Abandon(Append(r, x)) = Append(r, x)
    BY <2>1, AbandonAppend
  <2> QED
    BY <2>2
<1>7. \A q \in Seq(Items(V)) : A!Abandon(q \o w) = A!Abandon(q) \o w
  BY <1>1, AbandonVars
<1>8. Append(r, A!Fn) \in Seq(Items(V))
  BY <1>1, AppendProperties
<1>9. A!Abandon(Append(r, A!Fn) \o w) = A!Abandon(r) \o w
  BY <1>4, <1>7, <1>8, Zenon
<1> QED
  BY <1>2, <1>3, <1>4, <1>5, <1>6, <1>9

(* An error that passes functions leaves their variables, in order.        *)
RunsTo(td, fr, tb, lev, V, i, k) ==
    /\ A!Abandon(td[k]) = td[i] \o Open(fr, tb, lev[i], lev[k])
    /\ Open(fr, tb, lev[i], lev[k]) \in Seq(VarItems(V))

RunOf(fr, tb, V, s, t, a, n, x, y) ==
    /\ s \in Seq(Items(V)) /\ t \in Seq(Items(V)) /\ a \in Acts /\ a.op = "lua"
    /\ HasVars(a, fr, tb, n, V) /\ x \in Nat /\ y \in Nat /\ x <= y /\ fr[y + 1] = a.f
    /\ A!Abandon(s) = t \o Open(fr, tb, x, y) /\ Open(fr, tb, x, y) \in Seq(VarItems(V))

LEMMA AbandonOne ==
  ASSUME NEW fr, NEW tb, NEW V, NEW s, NEW t, NEW a, NEW n, NEW x, NEW y,
         RunOf(fr, tb, V, s, t, a, n, x, y)
  PROVE  /\ A!Abandon(Job(fr, tb, a, s, n)) = t \o Open(fr, tb, x, y + 1)
         /\ Open(fr, tb, x, y + 1) \in Seq(VarItems(V))
<1>0. /\ s \in Seq(Items(V)) /\ t \in Seq(Items(V)) /\ a \in Acts /\ a.op = "lua"
      /\ HasVars(a, fr, tb, n, V) /\ x \in Nat /\ y \in Nat /\ x <= y /\ fr[y + 1] = a.f
      /\ A!Abandon(s) = t \o Open(fr, tb, x, y) /\ Open(fr, tb, x, y) \in Seq(VarItems(V))
  BY DEF RunOf
<1>1. VarsIn(tb, a.f) \in Seq(VarItems(V))
  <2>1. tb[a.f] \in Seq(V)
    BY <1>0 DEF HasVars
  <2> QED
    BY <2>1, VarsInIs
<1> PICK w \in Seq(VarItems(V)) : w = VarsIn(tb, a.f)
  BY <1>1
<1> PICK o \in Seq(VarItems(V)) : o = Open(fr, tb, x, y)
  BY <1>0
<1>2. Job(fr, tb, a, s, n) = Append(s, A!Fn) \o w
  <2>1. JobForm(Job(fr, tb, a, s, n), fr, tb, a, s, n)
    BY <1>0, JobIs
  <2> QED
    BY <1>0, <2>1 DEF JobForm
<1>3. VarsOnly(VarItems(V), Items(V)) /\ A!Fn \in Items(V) /\ VarItems(V) \subseteq Items(V)
  BY ItemIs DEF VarsOnly
<1>5. A!Abandon(Append(s, A!Fn) \o w) = A!Abandon(s) \o w
  BY <1>0, AbandonItems, ZenonT(40)
<1>7. Open(fr, tb, x, y + 1) = o \o w
  <2>1. Open(fr, tb, x, y + 1) = Open(fr, tb, x, y) \o VarsIn(tb, fr[y + 1])
    BY <1>0, OpenMore
  <2>2. fr[y + 1] = a.f
    BY <1>0
  <2> QED
    BY <2>1, <2>2
<1>8. o \o w \in Seq(VarItems(V))
  BY ConcatProperties
<1>9. (t \o o) \o w = t \o (o \o w)
  <2>1. o \in Seq(Items(V)) /\ w \in Seq(Items(V))
    BY <1>3, SeqMonotone
  <2> QED
    BY <1>0, <2>1, ConcatAssociative, SMTT(30)
<1> QED
  BY <1>0, <1>2, <1>5, <1>7, <1>8, <1>9

LEMMA AbandonRun ==
  ASSUME NEW h, NEW fr, NEW tb, NEW lev, Stands(h, fr, tb, lev),
         NEW td, Doing(td, h, fr, tb), NEW V, \A k \in 0..Len(h) : td[k] \in Seq(Items(V)),
         AllHave(h, fr, tb, V),
         NEW i \in 1..Len(h), NEW m \in i..Len(h), \A k \in (i + 1)..m : h[k].op = "lua",
         A!Abandon(td[i]) = td[i]
  PROVE  RunsTo(td, fr, tb, lev, V, i, m)
<1>1. /\ h \in Seq(Acts) /\ Len(h) \in Nat /\ lev \in [0..Len(h) -> Nat]
      /\ \A k \in 1..Len(h) : Fits(h, k, lev, fr)
      /\ \A x, k \in 0..Len(h) : k <= x => lev[k] <= lev[x]
  BY DEF Stands
<1>2. \A k \in 1..Len(h) : h[k] \in Acts
  BY <1>1, ElementOfSeq
<1>3. i \in Nat /\ m \in Nat /\ i <= m /\ lev[i] \in Nat /\ td[i] \in Seq(Items(V))
  <2>1. i \in 0..Len(h) /\ m \in Nat /\ i <= m /\ i \in Nat
    BY <1>1
  <2> QED
    BY <1>1, <2>1
<1> DEFINE T == {x \in Nat : i + x <= m => RunsTo(td, fr, tb, lev, V, i, i + x)}
<1>4. 0 \in T
  <2>1. Open(fr, tb, lev[i], lev[i]) = <<>>
    <3> PICK z \in Nat : z = lev[i]
      BY <1>3
    <3>1. z <= z => Open(fr, tb, z, z) = <<>>
      BY OpenStep, Zenon
    <3> QED
      BY <3>1
  <2>2. td[i] \o <<>> = td[i]
    BY <1>3, ConcatEmptySeq
  <2>3. <<>> \in Seq(VarItems(V))
    OBVIOUS
  <2>4. RunsTo(td, fr, tb, lev, V, i, i)
    BY <2>1, <2>2, <2>3 DEF RunsTo
  <2>5. i + 0 = i /\ 0 \in Nat
    BY <1>3
  <2> QED
    BY <2>4, <2>5
<1>5. ASSUME NEW x \in T, x \in Nat PROVE x + 1 \in T
  <2>0. i + x <= m => RunsTo(td, fr, tb, lev, V, i, i + x)
    BY <1>5
  <2> HIDE DEF T
  <2> PICK p \in Nat : p = i + (x + 1)
    BY <1>3, <1>5
  <2> PICK q \in Nat : q = i + x
    BY <1>3, <1>5
  <2> SUFFICES ASSUME p <= m PROVE RunsTo(td, fr, tb, lev, V, i, p)
    BY <1>5 DEF T
  <2>1. /\ p = q + 1 /\ p \in 1..Len(h) /\ q \in 1..Len(h) /\ p - 1 = q /\ q \in 0..Len(h)
        /\ p \in (i + 1)..m /\ q <= m /\ i <= q /\ i \in 0..Len(h)
    BY <1>1, <1>3, <1>5
  <2>2. RunsTo(td, fr, tb, lev, V, i, q)
    BY <2>0, <2>1
  <2>3. h[p].op = "lua" /\ h[p] \in Acts
    BY <1>2, <2>1
  <2>4. lev[p] = lev[q] + 1 /\ fr[lev[p]] = h[p].f /\ lev[q] \in Nat /\ lev[i] <= lev[q]
    BY <1>1, <2>1, <2>3 DEF Fits
  <2>5. HasVars(h[p], fr, tb, Up(h, fr, p), V)
    BY <2>1 DEF AllHave
  <2>6. td[p] = Job(fr, tb, h[p], td[q], Up(h, fr, p))
    BY <2>1 DEF Doing
  <2>7. td[q] \in Seq(Items(V)) /\ td[i] \in Seq(Items(V)) /\ fr[lev[q] + 1] = h[p].f
    BY <1>3, <2>1, <2>4
  <2>8. RunOf(fr, tb, V, td[q], td[i], h[p], Up(h, fr, p), lev[i], lev[q])
    BY <1>3, <2>2, <2>3, <2>4, <2>5, <2>7 DEF RunOf, RunsTo
  <2>9. /\ A!Abandon(Job(fr, tb, h[p], td[q], Up(h, fr, p))) = td[i] \o Open(fr, tb, lev[i], lev[q] + 1)
        /\ Open(fr, tb, lev[i], lev[q] + 1) \in Seq(VarItems(V))
    BY <2>8, AbandonOne, Zenon
  <2> QED
    BY <2>4, <2>6, <2>9, Zenon DEF RunsTo
<1>6. Nat \subseteq T
  <2> HIDE DEF T
  <2> QED
    BY <1>4, <1>5, AllNumbers
<1>7. m - i \in Nat /\ i + (m - i) = m
  BY <1>3
<1>8. m - i \in T
  BY <1>6, <1>7
<1> QED
  BY <1>3, <1>7, <1>8

-----------------------------------------------------------------------------
(* A protected call stays among the things to do.                          *)
LEMMA JobHas ==
  ASSUME NEW V, NEW a \in Acts, NEW fr, NEW tb, NEW below \in Seq(Items(V)), NEW n,
         HasVars(a, fr, tb, n, V), a.op = "pcall" \/ Has(below, A!Protected)
  PROVE  Has(Job(fr, tb, a, below, n), A!Protected)
<1>0. JobForm(Job(fr, tb, a, below, n), fr, tb, a, below, n)
  BY JobIs
<1>1. a.op \in {"lua", "pcall", "close"}
      /\ (a.op = "pcall" => a.n \in Nat /\ a.ph \in {"body", "unwind"})
      /\ (a.op = "close" => a.n \in Nat /\ a.j \in Nat /\ a.ph \in {"next", "body", "left"})
  BY ActIs
<1>2. A!IsCatcher(A!Protected) /\ A!Protected \in Items(V) /\ A!Fn \in Items(V)
      /\ (\A m \in Modes : A!Handler(m) \in Items(V))
  BY ItemIs
<1>3. ASSUME NEW s \in Seq(Items(V)), NEW y \in Items(V), Has(s, A!Protected) \/ y = A!Protected
      PROVE  Has(Append(s, y), A!Protected) /\ Append(s, y) \in Seq(Items(V))
  BY <1>3, HasAppend, AppendProperties
<1>4. ASSUME NEW s \in Seq(Items(V)), NEW w \in Seq(VarItems(V)), Has(s, A!Protected)
      PROVE  Has(s \o w, A!Protected) /\ s \o w \in Seq(Items(V))
  <2>1. w \in Seq(Items(V)) /\ s \o w \in Seq(Items(V))
    BY ItemsAre
  <2> QED
    BY <1>4, <2>1, HasJoin
<1>5. ASSUME NEW s \in Seq(Items(V)), Has(s, A!Protected) PROVE Has(A!Abandon(s), A!Protected)
  BY <1>2, <1>5, HasAbandon
<1>6. CASE a.op = "lua"
  <2>1. VarsIn(tb, a.f) \in Seq(VarItems(V))
    <3>1. tb[a.f] \in Seq(V)
      BY <1>6 DEF HasVars
    <3> QED
      BY <3>1, VarsInIs
  <2>2. Has(Append(below, A!Fn), A!Protected) /\ Append(below, A!Fn) \in Seq(Items(V))
    BY <1>2, <1>3, <1>6
  <2> QED
    BY <1>0, <1>4, <1>6, <2>1, <2>2 DEF JobForm
<1>7. Has(Append(below, A!Protected), A!Protected) /\ Append(below, A!Protected) \in Seq(Items(V))
  BY <1>2, <1>3
<1>8. CASE a.op = "pcall" /\ a.ph = "body"
  BY <1>0, <1>7, <1>8 DEF JobForm
<1>9. CASE Unwinding(a)
  <2>1. a.n \in Nat /\ n \in Nat /\ \A k \in (a.n + 1)..n : tb[fr[k]] \in Seq(V)
    BY <1>1, <1>9 DEF HasVars, Unwinding
  <2>2. Open(fr, tb, a.n, n) \in Seq(VarItems(V))
    BY <2>1, OpenType
  <2> QED
    BY <1>0, <1>4, <1>7, <1>9, <2>2 DEF JobForm
<1>10. CASE a.op = "close"
  <2>1. tb[a.f] \in Seq(V) /\ Has(below, A!Protected)
    BY <1>10 DEF HasVars
  <2>2. Ground(tb, a, below) \in Seq(Items(V)) /\ Goes(tb, a, below) \in Modes
    BY <1>10, <2>1, GroundIs
  <2>3. VarsIn(tb, a.f) \in Seq(VarItems(V))
    BY <2>1, VarsInIs
  <2>4. Has(below \o VarsIn(tb, a.f), A!Protected) /\ below \o VarsIn(tb, a.f) \in Seq(Items(V))
    BY <1>4, <2>1, <2>3
  <2>5. Has(Ground(tb, a, below), A!Protected)
    BY <1>5, <2>1, <2>4, Zenon DEF Ground
  <2>6. A!Handler(Goes(tb, a, below)) \in Items(V)
    BY <1>2, <2>2
  <2>7. /\ Has(Append(Ground(tb, a, below), A!Handler(Goes(tb, a, below))), A!Protected)
        /\ Append(Ground(tb, a, below), A!Handler(Goes(tb, a, below))) \in Seq(Items(V))
    BY <1>3, <2>2, <2>5, <2>6
  <2>8. CASE a.ph = "next"
    BY <1>0, <1>10, <2>5, <2>8 DEF JobForm
  <2>9. CASE a.ph = "body"
    BY <1>0, <1>10, <2>7, <2>9 DEF JobForm
  <2>10. CASE a.ph = "left"
    <3>1. Failed(a) /\ a.n \in Nat /\ a.j \in Nat /\ \A k \in (a.n + 1)..a.j : tb[fr[k]] \in Seq(V)
      BY <1>1, <1>10, <2>10 DEF HasVars, Failed
    <3>2. Open(fr, tb, a.n, a.j) \in Seq(VarItems(V))
      BY <3>1, OpenType
    <3> QED
      BY <1>0, <1>4, <2>7, <3>1, <3>2 DEF JobForm
  <2> QED
    BY <1>1, <1>10, <2>8, <2>9, <2>10
<1> QED
  BY <1>1, <1>6, <1>8, <1>9, <1>10 DEF Unwinding

LEMMA ProtectedKept ==
  ASSUME NEW td, NEW h, NEW fr, NEW tb, Doing(td, h, fr, tb), h \in Seq(Acts),
         NEW V, AllHave(h, fr, tb, V), \A k \in 0..Len(h) : td[k] \in Seq(Items(V)),
         NEW i \in 1..Len(h), h[i].op = "pcall"
  PROVE  \A k \in i..Len(h) : Has(td[k], A!Protected)
<1>0. Len(h) \in Nat /\ i \in Nat /\ \A k \in 1..Len(h) : h[k] \in Acts
  BY LenProperties, ElementOfSeq
<1>1. ASSUME NEW p \in 1..Len(h), h[p].op = "pcall" \/ Has(td[p - 1], A!Protected)
      PROVE  Has(td[p], A!Protected)
  <2>1. p - 1 \in 0..Len(h)
    BY <1>0
  <2>2. td[p - 1] \in Seq(Items(V)) /\ h[p] \in Acts /\ HasVars(h[p], fr, tb, Up(h, fr, p), V)
    BY <1>0, <2>1 DEF AllHave
  <2>3. Has(Job(fr, tb, h[p], td[p - 1], Up(h, fr, p)), A!Protected)
    BY <1>1, <2>2, JobHas, Zenon
  <2> QED
    BY <2>3 DEF Doing
<1> DEFINE T == {x \in Nat : i + x <= Len(h) => Has(td[i + x], A!Protected)}
<1>2. 0 \in T
  <2>1. Has(td[i], A!Protected)
    BY <1>1
  <2>2. i + 0 = i /\ 0 \in Nat
    BY <1>0
  <2> QED
    BY <2>1, <2>2
<1>3. ASSUME NEW x \in T, x \in Nat PROVE x + 1 \in T
  <2>1. i + (x + 1) <= Len(h) => /\ i + (x + 1) \in 1..Len(h) /\ i + x <= Len(h)
                                 /\ (i + (x + 1)) - 1 = i + x
    BY <1>0, <1>3
  <2>2. i + (x + 1) <= Len(h) => Has(td[(i + (x + 1)) - 1], A!Protected)
    BY <1>3, <2>1
  <2>3. i + (x + 1) <= Len(h) => Has(td[i + (x + 1)], A!Protected)
    BY <1>1, <2>1, <2>2
  <2> QED
    BY <1>3, <2>3
<1>4. Nat \subseteq T
  <2> HIDE DEF T
  <2> QED
    BY <1>2, <1>3, AllNumbers
<1> TAKE k \in i..Len(h)
<1>5. k - i \in Nat /\ i + (k - i) = k /\ k <= Len(h)
  BY <1>0
<1>6. k - i \in T
  BY <1>4, <1>5
<1> QED
  BY <1>5, <1>6

-----------------------------------------------------------------------------
(* The three facts last: while the innermost activation is edited, or      *)
(* those above it go, and while another one is put on top.                 *)
Alike(a, b) == /\ b.op = a.op
               /\ a.op # "pcall" => b.f = a.f
               /\ a.op = "close" => b.how = a.how /\ b.keep = a.keep

Edited(h, fr, h2, fr2, tb2, m) ==
    /\ m \in Nat /\ m <= Len(h) /\ Len(h2) = m
    /\ \A i \in 1..m : Alike(h[i], h2[i]) /\ (i < m => h2[i] = h[i])
    /\ \A f : OnHost(h, f) /\ OnFrames(fr2, f) => OnFrames(fr, f)
    /\ \A i \in 1..m : h[i].op = "close" => h[i].keep <= Len(tb2[h[i].f])

LEMMA OwnsEdit ==
  ASSUME NEW h, NEW fr, NEW tb, Owns(h, fr, tb), Len(h) \in Nat,
         NEW h2, NEW fr2, NEW tb2, NEW m, Edited(h, fr, h2, fr2, tb2, m)
  PROVE  Owns(h2, fr2, tb2)
<1>1. /\ m \in Nat /\ m <= Len(h) /\ Len(h2) = m
      /\ \A i \in 1..m : Alike(h[i], h2[i]) /\ (i < m => h2[i] = h[i])
      /\ \A f : OnHost(h, f) /\ OnFrames(fr2, f) => OnFrames(fr, f)
      /\ \A i \in 1..m : h[i].op = "close" => h[i].keep <= Len(tb2[h[i].f])
  BY DEF Edited
<1> SUFFICES ASSUME NEW i \in 1..m PROVE OwnsAt(h2, fr2, tb2, i)
  BY <1>1 DEF Owns
<1>2. i \in 1..Len(h) /\ Alike(h[i], h2[i]) /\ OwnsAt(h, fr, tb, i)
  BY <1>1 DEF Owns
<1>3. KeepsOf(h2, tb2, i)
  BY <1>1, <1>2 DEF KeepsOf, Alike
<1>4. FingerOf(h2, i)
  <2>1. i < Len(h2) => h2[i] = h[i] /\ i < Len(h)
    BY <1>1
  <2> QED
    BY <1>2, <2>1 DEF OwnsAt, FingerOf
<1>5. ASSUME Popped(h2, i)
      PROVE  /\ ~OnFrames(fr2, h2[i].f)
             /\ \A k \in 1..Len(h2) : k # i /\ h2[k].op # "pcall" => h2[k].f # h2[i].f
  <2>1. Popped(h, i) /\ h[i].op # "pcall" /\ h2[i].f = h[i].f
    <3>1. i > 1 => i - 1 \in 1..m /\ i - 1 < m
      BY <1>1
    <3> QED
      BY <1>1, <1>2, <1>5, <3>1 DEF Popped, Alike
  <2>2. /\ ~OnFrames(fr, h[i].f)
        /\ \A k \in 1..Len(h) : k # i /\ h[k].op # "pcall" => h[k].f # h[i].f
    BY <1>2, <2>1 DEF OwnsAt, ApartOf
  <2>3. ~OnFrames(fr2, h2[i].f)
    BY <1>1, <1>2, <2>1, <2>2 DEF OnHost
  <2>4. \A k \in 1..m : k \in 1..Len(h) /\ Alike(h[k], h2[k])
    BY <1>1
  <2> QED
    BY <1>1, <2>1, <2>2, <2>3, <2>4 DEF Alike
<1>6. ApartOf(h2, fr2, i)
  BY <1>5 DEF ApartOf
<1> QED
  BY <1>3, <1>4, <1>6 DEF OwnsAt

NewOn(h, fr, tb, a) ==
    /\ a.op = "close" => a.keep <= Len(tb[a.f])
    /\ Len(h) # 0 /\ Failed(h[Len(h)]) => h[Len(h)].n <= h[Len(h)].j
    /\ a.op # "pcall" => \A i \in 1..Len(h) : Popped(h, i) => h[i].f # a.f
    /\ Len(h) # 0 /\ a.op = "close" /\ a.how = "error" /\ h[Len(h)].op = "pcall" =>
          /\ ~OnFrames(fr, a.f)
          /\ \A k \in 1..Len(h) : h[k].op # "pcall" => h[k].f # a.f

LEMMA OwnsPush ==
  ASSUME NEW h \in Seq(Acts), NEW fr, NEW tb, Owns(h, fr, tb), NEW a \in Acts,
         NewOn(h, fr, tb, a)
  PROVE  Owns(Append(h, a), fr, tb)
<1> DEFINE h2 == Append(h, a)
           N == Len(h)
<1>1. /\ Len(h2) = N + 1 /\ h2[N + 1] = a /\ N \in Nat /\ \A i \in 1..N : h2[i] = h[i]
  BY AppendProperties
<1> HIDE DEF h2
<1>2. ASSUME NEW i \in 1..N PROVE OwnsAt(h2, fr, tb, i)
  <2>1. h2[i] = h[i] /\ OwnsAt(h, fr, tb, i) /\ (i > 1 => h2[i - 1] = h[i - 1])
    BY <1>1 DEF Owns
  <2>2. Popped(h2, i) <=> Popped(h, i)
    BY <2>1 DEF Popped
  <2>3. KeepsOf(h2, tb, i)
    BY <2>1 DEF OwnsAt, KeepsOf
  <2>4. FingerOf(h2, i)
    <3>1. i < N \/ (i = N /\ N # 0)
      BY <1>1
    <3> QED
      BY <1>1, <2>1, <3>1 DEF OwnsAt, FingerOf, NewOn
  <2>5. ASSUME Popped(h2, i)
        PROVE  /\ ~OnFrames(fr, h2[i].f)
               /\ \A k \in 1..Len(h2) : k # i /\ h2[k].op # "pcall" => h2[k].f # h2[i].f
    <3>1. /\ ~OnFrames(fr, h[i].f)
          /\ \A k \in 1..N : k # i /\ h[k].op # "pcall" => h[k].f # h[i].f
      BY <2>1, <2>2, <2>5 DEF OwnsAt, ApartOf
    <3>2. a.op # "pcall" => h[i].f # a.f
      BY <2>2, <2>5 DEF NewOn
    <3>3. \A k \in 1..Len(h2) : k \in 1..N \/ k = N + 1
      BY <1>1
    <3> QED
      BY <1>1, <2>1, <3>1, <3>2, <3>3
  <2>6. ApartOf(h2, fr, i)
    BY <2>5 DEF ApartOf
  <2> QED
    BY <2>3, <2>4, <2>6 DEF OwnsAt
<1>3. OwnsAt(h2, fr, tb, N + 1)
  <2>1. KeepsOf(h2, tb, N + 1)
    BY <1>1 DEF KeepsOf, NewOn
  <2>2. FingerOf(h2, N + 1)
    BY <1>1 DEF FingerOf
  <2>3. ASSUME Popped(h2, N + 1)
        PROVE  /\ ~OnFrames(fr, h2[N + 1].f)
               /\ \A k \in 1..Len(h2) :
                    k # N + 1 /\ h2[k].op # "pcall" => h2[k].f # h2[N + 1].f
    <3>1. N # 0 /\ N \in 1..N /\ (N + 1) - 1 = N /\ \A k \in 1..(N + 1) : k # N + 1 => k \in 1..N
      BY <1>1, <2>3 DEF Popped
    <3>2. a.op = "close" /\ a.how = "error" /\ h[N].op = "pcall"
      BY <1>1, <2>3, <3>1 DEF Popped
    <3> QED
      BY <1>1, <3>1, <3>2 DEF NewOn
  <2>4. ApartOf(h2, fr, N + 1)
    BY <2>3 DEF ApartOf
  <2> QED
    BY <2>1, <2>2, <2>4 DEF OwnsAt
<1>4. \A i \in 1..Len(h2) : i \in 1..N \/ i = N + 1
  BY <1>1
<1> QED
  BY <1>2, <1>3, <1>4 DEF Owns, h2

-----------------------------------------------------------------------------
(* A state of the interpreter, with the levels its activations stand on.   *)
Config(h, fr, tb, lev) ==
    /\ Stands(h, fr, tb, lev) /\ h # <<>> /\ fr \in Seq(Id) /\ tb \in [Id -> Seq(Vars)]
    /\ TopFits(h[Len(h)], lev[Len(h)], fr, tb) /\ Distinct(fr)
    /\ Owns(h, fr, tb)

LEMMA ConfigIs ==
  ASSUME NEW h, NEW fr, NEW tb, NEW lev, Config(h, fr, tb, lev)
  PROVE  /\ Len(h) \in Nat \ {0} /\ h \in Seq(Acts) /\ \A i \in 1..Len(h) : h[i] \in Acts
         /\ Stands(h, fr, tb, lev) /\ Owns(h, fr, tb) /\ Distinct(fr)
         /\ \A k \in 0..Len(h) : lev[k] \in Nat /\ lev[k] <= lev[Len(h)] /\ lev[k] <= Len(fr)
         /\ \A i, k \in 0..Len(h) : k <= i => lev[k] <= lev[i]
         /\ \A i \in 1..Len(h) : Fits(h, i, lev, fr)
         /\ Len(fr) \in Nat /\ lev[Len(h)] <= Len(fr) /\ fr \in Seq(Id)
         /\ \A k \in 1..Len(fr) : fr[k] \in Id
         /\ tb \in [Id -> Seq(Vars)]
         /\ FingerIn(h, fr) /\ AllHave(h, fr, tb, Vars)
         /\ TopFits(h[Len(h)], lev[Len(h)], fr, tb)
<1>1. /\ Stands(h, fr, tb, lev) /\ h # <<>> /\ fr \in Seq(Id) /\ tb \in [Id -> Seq(Vars)]
      /\ TopFits(h[Len(h)], lev[Len(h)], fr, tb) /\ Distinct(fr) /\ Owns(h, fr, tb)
  BY DEF Config
<1>2. h \in Seq(Acts) /\ Len(h) \in Nat \ {0}
  BY <1>1, EmptySeq DEF Stands
<1>3. \A i \in 1..Len(h) : h[i] \in Acts
  BY <1>2, ElementOfSeq
<1>4. /\ lev \in [0..Len(h) -> Nat] /\ \A i, k \in 0..Len(h) : k <= i => lev[k] <= lev[i]
      /\ \A i \in 1..Len(h) : Fits(h, i, lev, fr)
  BY <1>1 DEF Stands
<1>5. Len(fr) \in Nat /\ lev[Len(h)] <= Len(fr) /\ \A k \in 1..Len(fr) : fr[k] \in Id
  BY <1>1, ElementOfSeq DEF TopFits
<1>6. \A k \in 0..Len(h) : lev[k] \in Nat /\ lev[k] <= lev[Len(h)] /\ lev[k] <= Len(fr)
  <2> TAKE k \in 0..Len(h)
  <2>1. Len(h) \in 0..Len(h) /\ k <= Len(h)
    BY <1>2
  <2>2. lev[k] \in Nat /\ lev[Len(h)] \in Nat /\ lev[k] <= lev[Len(h)]
    BY <1>4, <2>1
  <2> QED
    BY <1>5, <2>2
<1>7. FingerIn(h, fr)
  BY <1>1 DEF FingerIn, TopFits, Failed
<1>8. KnownHave(h, fr, tb, Vars)
  BY <1>1 DEF KnownHave
<1>9. AllHave(h, fr, tb, Vars)
  BY <1>1, <1>5, <1>7, <1>8, HaveAll
<1> QED
  BY <1>1, <1>2, <1>3, <1>4, <1>5, <1>6, <1>7, <1>9

(* What each of its activations has to do.                                 *)
LEMMA TasksForm ==
  ASSUME NEW td, NEW h, NEW fr, NEW tb, Doing(td, h, fr, tb), h \in Seq(Acts)
  PROVE  \A p \in 1..Len(h) : JobForm(td[p], fr, tb, h[p], td[p - 1], Up(h, fr, p))
<1> TAKE p \in 1..Len(h)
<1>1. h[p] \in Acts
  BY ElementOfSeq
<1>2. td[p] = Job(fr, tb, h[p], td[p - 1], Up(h, fr, p))
  BY DEF Doing
<1>3. JobForm(Job(fr, tb, h[p], td[p - 1], Up(h, fr, p)), fr, tb, h[p], td[p - 1], Up(h, fr, p))
  BY <1>1, JobIs
<1> QED
  BY <1>2, <1>3

LEMMA TasksHere ==
  ASSUME NEW h, NEW fr, NEW tb, NEW lev, Config(h, fr, tb, lev),
         NEW td, Doing(td, h, fr, tb)
  PROVE  /\ \A k \in 0..Len(h) : td[k] \in Seq(Items(Vars))
         /\ \A p \in 1..Len(h) : JobForm(td[p], fr, tb, h[p], td[p - 1], Up(h, fr, p))
<1>1. h \in Seq(Acts) /\ AllHave(h, fr, tb, Vars)
  BY ConfigIs
<1>2. \A k \in 0..Len(h) : td[k] \in Seq(Items(Vars))
  BY <1>1, TasksType
<1> QED
  BY <1>1, <1>2, TasksForm

(* The lowest m do as before in the next state.                            *)
Still(h, fr, tb, lev, h2, fr2, tb2, m, L) ==
    /\ m \in Nat /\ m <= Len(h) /\ m <= Len(h2) /\ \A i \in 1..m : h2[i] = h[i]
    /\ L \in Nat /\ Agree(fr, fr2, L) /\ Bounded(h, h2, lev, m, L)
    /\ SeenSame(h, fr, tb, tb2, m)

LEMMA StillIs ==
  ASSUME NEW h, NEW fr, NEW tb, NEW lev, Stands(h, fr, tb, lev), NEW td, Doing(td, h, fr, tb),
         NEW h2 \in Seq(Acts), NEW fr2, NEW tb2, NEW td2, Doing(td2, h2, fr2, tb2),
         NEW m, NEW L, Still(h, fr, tb, lev, h2, fr2, tb2, m, L)
  PROVE  \A i \in 0..m : td2[i] = td[i]
<1>1. /\ m \in Nat /\ m <= Len(h) /\ m <= Len(h2) /\ \A i \in 1..m : h2[i] = h[i]
      /\ L \in Nat /\ Agree(fr, fr2, L) /\ Bounded(h, h2, lev, m, L)
      /\ SeenSame(h, fr, tb, tb2, m)
  BY DEF Still
<1>2. Len(h2) \in Nat /\ h \in Seq(Acts)
  BY LenProperties DEF Stands
<1>3. SameBelow(h, fr, tb, h2, fr2, tb2, m)
  BY <1>1, <1>2, BelowIs
<1> QED
  BY <1>1, <1>2, <1>3, TasksSame

LEMMA SeenAll ==
  ASSUME NEW h, NEW fr, NEW tb, NEW m
  PROVE  SeenSame(h, fr, tb, tb, m)
BY DEF SeenSame

LEMMA AgreeAll ==
  ASSUME NEW fr, NEW L
  PROVE  Agree(fr, fr, L)
BY DEF Agree

(* The mode the interpreter is in.                                         *)
ModeFor(h, tb, td) ==
    LET a == h[Len(h)] IN
    IF a.op = "lua" THEN A!Run
    ELSE IF a.op = "close" /\ a.ph = "next" THEN Goes(tb, a, td[Len(h) - 1])
    ELSE A!Raise(a.err)

LEMMA ModesAre ==
  /\ \A x, y : A!Leave(x) = A!Leave(y) => x = y
  /\ A!Run.m = "run" /\ (\A x : A!Leave(x).m = "leave" /\ A!Leave(x).to = x)
  /\ \A x : A!Raise(x).m = "raise" /\ A!Raise(x).e = x
BY DEF A!Run, A!Leave, A!Raise

LEMMA KindsAre ==
  /\ A!Fn.k = "function" /\ A!Protected.k = "protected"
  /\ \A x : A!Var(x).k = "var" /\ A!Var(x).v = x
  /\ \A x : A!Handler(x).k = "handler" /\ A!Handler(x).m = x
BY DEF A!Fn, A!Protected, A!Var, A!Handler

-----------------------------------------------------------------------------
(* A function is called, in a protected call or not.                       *)
Grows(s, x, s2) == s2 = Append(s, x)

Called(job, fr, tb, a, below, n) ==
    /\ a.op = "lua" /\ tb[a.f] = <<>> /\ below \in Seq(Items(Vars))
    /\ JobForm(job, fr, tb, a, below, n)

LEMMA LuaTask ==
  ASSUME NEW job, NEW fr, NEW tb, NEW a, NEW below, NEW n, Called(job, fr, tb, a, below, n)
  PROVE  job = Append(below, A!Fn)
<1>0. /\ a.op = "lua" /\ tb[a.f] = <<>> /\ below \in Seq(Items(Vars))
      /\ JobForm(job, fr, tb, a, below, n)
  BY DEF Called
<1>1. job = Append(below, A!Fn) \o VarsIn(tb, a.f)
  BY <1>0 DEF JobForm
<1>2. VarsIn(tb, a.f) = <<>>
  <2>1. <<>> \in Seq(Vars)
    OBVIOUS
  <2> QED
    BY <1>0, <2>1, VarsInIs
<1>3. Append(below, A!Fn) \in Seq(Items(Vars))
  BY <1>0, ItemIs, AppendProperties
<1> QED
  BY <1>1, <1>2, <1>3, ConcatEmptySeq

(* A step, and what is to do before and after it.                          *)
Moves(h, fr, tb, lev, td, h2, fr2, tb2, td2) ==
    /\ Config(h, fr, tb, lev) /\ Doing(td, h, fr, tb)
    /\ h2 \in Seq(Acts) /\ Doing(td2, h2, fr2, tb2)

LEMMA Lower ==
  ASSUME NEW h, NEW fr, NEW tb, NEW lev, NEW td, NEW h2, NEW fr2, NEW tb2, NEW td2,
         Moves(h, fr, tb, lev, td, h2, fr2, tb2, td2),
         NEW m, NEW L, Still(h, fr, tb, lev, h2, fr2, tb2, m, L)
  PROVE  \A i \in 0..m : td2[i] = td[i]
<1>1. /\ Stands(h, fr, tb, lev) /\ Doing(td, h, fr, tb)
      /\ h2 \in Seq(Acts) /\ Doing(td2, h2, fr2, tb2)
  BY DEF Moves, Config
<1> QED
  BY <1>1, StillIs

LEMMA FreshFrame ==
  ASSUME NEW h, NEW fr, NEW tb, NEW lev, Config(h, fr, tb, lev),
         NEW f \in Id, ~Known(h, fr, f)
  PROVE  Owns(h, Append(fr, f), tb)
<1>1. /\ Len(h) \in Nat \ {0} /\ Owns(h, fr, tb) /\ fr \in Seq(Id)
  BY ConfigIs
<1>2. \A g : OnFrames(Append(fr, f), g) <=> OnFrames(fr, g) \/ g = f
  BY <1>1, FramesAppend
<1>3. \A g : OnHost(h, g) /\ OnFrames(Append(fr, f), g) => OnFrames(fr, g)
  BY <1>2 DEF Known
<1>4. Edited(h, fr, h, Append(fr, f), tb, Len(h))
  BY <1>1, <1>3 DEF Edited, Alike, Owns, OwnsAt, KeepsOf
<1> QED
  BY <1>1, <1>4, OwnsEdit

NewFrame(h, fr, tb, a, fr2) ==
    /\ h[Len(h)].op = "lua" /\ a \in Acts /\ a.op = "lua" /\ ~Known(h, fr, a.f)
    /\ tb[a.f] = <<>> /\ Grows(fr, a.f, fr2)

LEMMA CallSteps ==
  ASSUME NEW h, NEW fr, NEW tb, NEW lev, NEW td, NEW h2, NEW fr2, NEW td2,
         Moves(h, fr, tb, lev, td, h2, fr2, tb, td2),
         NEW a, NewFrame(h, fr, tb, a, fr2), Grows(h, a, h2)
  PROVE  /\ Owns(h2, fr2, tb) /\ h2[Len(h2)].op = "lua"
         /\ td2[Len(h2)] = Append(td[Len(h)], A!Fn)
<1> SUFFICES ASSUME h[Len(h)].op = "lua", a \in Acts, a.op = "lua", ~Known(h, fr, a.f),
                    tb[a.f] = <<>>, Grows(fr, a.f, fr2)
             PROVE  /\ Owns(h2, fr2, tb) /\ h2[Len(h2)].op = "lua"
                    /\ td2[Len(h2)] = Append(td[Len(h)], A!Fn)
  BY DEF NewFrame
<1> DEFINE N == Len(h)
<1>0. a.f \in Id /\ Config(h, fr, tb, lev) /\ Doing(td, h, fr, tb) /\ Doing(td2, h2, fr2, tb)
  BY ActIs DEF Moves
<1>1. /\ N \in Nat \ {0} /\ h \in Seq(Acts) /\ fr \in Seq(Id) /\ Len(fr) \in Nat
      /\ lev[N] \in Nat /\ lev[N] <= Len(fr) /\ Stands(h, fr, tb, lev)
  <2>1. Len(h) \in 0..Len(h) /\ N \in Nat \ {0}
    BY <1>0, ConfigIs
  <2> QED
    BY <1>0, <2>1, ConfigIs
<1>2. /\ h2 \in Seq(Acts) /\ Len(h2) = N + 1 /\ h2[N + 1] = a
      /\ \A i \in 1..N : h2[i] = h[i]
  BY <1>1, AppendProperties DEF Grows
<1>3. Owns(h2, fr2, tb)
  <2>1. Owns(h, fr2, tb)
    BY <1>0, FreshFrame DEF Grows
  <2>2. NewOn(h, fr2, tb, a)
    <3>1. ~Failed(h[N])
      BY DEF Failed
    <3>2. \A i \in 1..N : Popped(h, i) => h[i].f # a.f
      BY DEF Known, OnHost, Popped
    <3> QED
      BY <3>1, <3>2 DEF NewOn
  <2> QED
    BY <1>1, <2>1, <2>2, OwnsPush DEF Grows
<1>4. Still(h, fr, tb, lev, h2, fr2, tb, N, Len(fr))
  <2>1. Agree(fr, fr2, Len(fr))
    BY <1>1, FramesAppend DEF Agree, Grows
  <2>2. Bounded(h, h2, lev, N, Len(fr))
    BY <1>1 DEF Bounded, Unwinding, Failed
  <2> QED
    BY <1>1, <1>2, <2>1, <2>2, SeenAll DEF Still
<1>5. td2[N] = td[N] /\ td[N] \in Seq(Items(Vars))
  <2>1. \A i \in 0..N : td2[i] = td[i]
    BY <1>2, <1>4, Lower
  <2>2. N \in 0..N
    BY <1>1
  <2> QED
    BY <1>0, <2>1, <2>2, TasksHere
<1>6. JobForm(td2[N + 1], fr2, tb, a, td[N], Up(h2, fr2, N + 1))
  <2>1. N + 1 \in 1..Len(h2) /\ (N + 1) - 1 = N
    BY <1>1, <1>2
  <2>2. JobForm(td2[N + 1], fr2, tb, h2[N + 1], td2[(N + 1) - 1], Up(h2, fr2, N + 1))
    BY <1>2, <2>1, <1>0, TasksForm
  <2> QED
    BY <1>2, <1>5, <2>1, <2>2
<1>7. td2[N + 1] = Append(td[N], A!Fn)
  <2>1. td[N] \in Seq(Items(Vars))
    BY <1>5
  <2>2. Called(td2[N + 1], fr2, tb, a, td[N], Up(h2, fr2, N + 1))
    BY <1>6, <2>1 DEF Called
  <2> QED
    BY <2>2, LuaTask
<1> QED
  BY <1>2, <1>3, <1>7

(* ... with a pcall between.                                               *)
PcallOf(h, fr, tb, p, a, h2, fr2) ==
    /\ p \in Acts /\ p.op = "pcall" /\ p.ph = "body" /\ NewFrame(h, fr, tb, a, fr2)
    /\ \E h1 : Grows(h, p, h1) /\ Grows(h1, a, h2)

LEMMA PcallSteps ==
  ASSUME NEW h, NEW fr, NEW tb, NEW lev, NEW td, NEW h2, NEW fr2, NEW td2,
         Moves(h, fr, tb, lev, td, h2, fr2, tb, td2),
         NEW p, NEW a, PcallOf(h, fr, tb, p, a, h2, fr2)
  PROVE  /\ Owns(h2, fr2, tb) /\ h2[Len(h2)].op = "lua"
         /\ td2[Len(h2)] = td[Len(h)] \o <<A!Protected, A!Fn>>
<1> SUFFICES ASSUME h[Len(h)].op = "lua", a \in Acts, a.op = "lua", ~Known(h, fr, a.f),
                    tb[a.f] = <<>>, Grows(fr, a.f, fr2), p \in Acts, p.op = "pcall",
                    p.ph = "body", NEW h1, Grows(h, p, h1), Grows(h1, a, h2)
             PROVE  /\ Owns(h2, fr2, tb) /\ h2[Len(h2)].op = "lua"
                    /\ td2[Len(h2)] = td[Len(h)] \o <<A!Protected, A!Fn>>
  BY DEF NewFrame, PcallOf
<1> DEFINE N == Len(h)
<1>0. a.f \in Id /\ Config(h, fr, tb, lev) /\ Doing(td, h, fr, tb) /\ Doing(td2, h2, fr2, tb)
  BY ActIs DEF Moves
<1>1. /\ N \in Nat \ {0} /\ h \in Seq(Acts) /\ fr \in Seq(Id) /\ Len(fr) \in Nat
      /\ lev[N] \in Nat /\ lev[N] <= Len(fr) /\ Stands(h, fr, tb, lev)
  <2>1. Len(h) \in 0..Len(h) /\ N \in Nat \ {0}
    BY <1>0, ConfigIs
  <2> QED
    BY <1>0, <2>1, ConfigIs
<1>2. /\ h1 \in Seq(Acts) /\ Len(h1) = N + 1 /\ h1[N + 1] = p
      /\ \A i \in 1..N : h1[i] = h[i]
  BY <1>1, AppendProperties DEF Grows
<1>3. /\ h2 \in Seq(Acts) /\ Len(h2) = N + 2 /\ h2[N + 2] = a /\ h2[N + 1] = p
      /\ \A i \in 1..N : h2[i] = h[i]
  <2>1. /\ h2 \in Seq(Acts) /\ Len(h2) = Len(h1) + 1 /\ h2[Len(h1) + 1] = a
        /\ \A i \in 1..Len(h1) : h2[i] = h1[i]
    BY <1>2, AppendProperties DEF Grows
  <2>2. N + 1 \in 1..Len(h1) /\ Len(h1) + 1 = N + 2 /\ \A i \in 1..N : i \in 1..Len(h1)
    BY <1>1, <1>2
  <2> QED
    BY <1>2, <2>1, <2>2
<1>4. Owns(h2, fr2, tb)
  <2>1. Owns(h, fr2, tb)
    BY <1>0, FreshFrame DEF Grows
  <2>2. NewOn(h, fr2, tb, p)
    <3>1. ~Failed(h[N])
      BY DEF Failed
    <3> QED
      BY <3>1 DEF NewOn
  <2>3. Owns(h1, fr2, tb)
    BY <1>1, <2>1, <2>2, OwnsPush DEF Grows
  <2>4. NewOn(h1, fr2, tb, a)
    <3>1. ~Failed(h1[Len(h1)])
      BY <1>2 DEF Failed
    <3>2. \A i \in 1..Len(h1) : Popped(h1, i) => h1[i].f # a.f
      <4> SUFFICES ASSUME NEW i \in 1..Len(h1), Popped(h1, i) PROVE h1[i].f # a.f
        OBVIOUS
      <4>1. i \in 1..N /\ h1[i] = h[i]
        BY <1>1, <1>2 DEF Popped
      <4> QED
        BY <4>1 DEF Known, OnHost, Popped
    <3> QED
      BY <3>1, <3>2 DEF NewOn
  <2> QED
    BY <1>2, <2>3, <2>4, OwnsPush DEF Grows
<1>5. Still(h, fr, tb, lev, h2, fr2, tb, N, Len(fr))
  <2>1. Agree(fr, fr2, Len(fr))
    BY <1>1, FramesAppend DEF Agree, Grows
  <2>2. Bounded(h, h2, lev, N, Len(fr))
    BY <1>1 DEF Bounded, Unwinding, Failed
  <2> QED
    BY <1>1, <1>3, <2>1, <2>2, SeenAll DEF Still
<1>6. td2[N] = td[N] /\ td[N] \in Seq(Items(Vars))
  <2>1. \A i \in 0..N : td2[i] = td[i]
    BY <1>3, <1>5, Lower
  <2>2. N \in 0..N
    BY <1>1
  <2> QED
    BY <1>0, <2>1, <2>2, TasksHere
<1>7. td2[N + 1] = Append(td[N], A!Protected)
  <2>1. N + 1 \in 1..Len(h2) /\ (N + 1) - 1 = N
    BY <1>1, <1>3
  <2>2. JobForm(td2[N + 1], fr2, tb, h2[N + 1], td2[(N + 1) - 1], Up(h2, fr2, N + 1))
    BY <1>3, <2>1, <1>0, TasksForm
  <2> QED
    BY <1>3, <1>6, <2>1, <2>2 DEF JobForm
<1>8. td2[N + 2] = Append(td2[N + 1], A!Fn)
  <2>1. N + 2 \in 1..Len(h2) /\ (N + 2) - 1 = N + 1
    BY <1>1, <1>3
  <2>2. JobForm(td2[N + 2], fr2, tb, h2[N + 2], td2[(N + 2) - 1], Up(h2, fr2, N + 2))
    BY <1>3, <2>1, <1>0, TasksForm
  <2>3. td2[N + 1] \in Seq(Items(Vars))
    BY <1>6, <1>7, ItemIs, AppendProperties
  <2>4. JobForm(td2[N + 2], fr2, tb, a, td2[N + 1], Up(h2, fr2, N + 2))
    BY <1>3, <2>1, <2>2
  <2>5. Called(td2[N + 2], fr2, tb, a, td2[N + 1], Up(h2, fr2, N + 2))
    BY <2>3, <2>4 DEF Called
  <2> QED
    BY <2>5, LuaTask
<1>9. Append(Append(td[N], A!Protected), A!Fn) = td[N] \o <<A!Protected, A!Fn>>
  <2> PICK s, x, y : s \in Seq(Items(Vars)) /\ s = td[N] /\ x = A!Protected /\ y = A!Fn
                     /\ x \in Items(Vars) /\ y \in Items(Vars)
    BY <1>6, ItemIs
  <2>1. Append(Append(s, x), y) = s \o <<x, y>>
    OBVIOUS
  <2> QED
    BY <2>1
<1> QED
  BY <1>3, <1>4, <1>7, <1>8, <1>9

-----------------------------------------------------------------------------
(* A variable is declared.                                                 *)
LEMMA KnownId ==
  ASSUME NEW h, NEW fr, NEW tb, NEW lev, Config(h, fr, tb, lev), NEW f, Known(h, fr, f)
  PROVE  f \in Id
<1>1. /\ \A i \in 1..Len(h) : h[i] \in Acts
      /\ \A k \in 1..Len(fr) : fr[k] \in Id
  BY ConfigIs
<1>2. \A i \in 1..Len(h) : h[i].op # "pcall" => h[i].f \in Id
  BY <1>1, ActIs
<1> QED
  BY <1>1, <1>2 DEF Known, OnFrames, OnHost

LEMMA SeenId ==
  ASSUME NEW h, NEW fr, NEW tb, NEW lev, Config(h, fr, tb, lev), NEW i \in 1..Len(h),
         NEW g, Looks(h, fr, i, g)
  PROVE  g \in Id /\ Known(h, fr, g)
<1>1. Stands(h, fr, tb, lev) /\ Len(fr) \in Nat /\ lev[Len(h)] <= Len(fr) /\ FingerIn(h, fr)
  BY ConfigIs
<1>2. Known(h, fr, g)
  BY <1>1, LooksKnown, Zenon
<1> QED
  BY <1>2, KnownId

(* What only one of the upper activations looks at may change.             *)
Only(tb, tb2, f) == \A g \in Id : g # f => tb2[g] = tb[g]
Alone(h, fr, m, f) == \A i \in 1..m : ~Looks(h, fr, i, f)

LEMMA SeenAlone ==
  ASSUME NEW h, NEW fr, NEW tb, NEW lev, Config(h, fr, tb, lev), NEW tb2, NEW f,
         Only(tb, tb2, f), NEW m \in Nat, m <= Len(h), Alone(h, fr, m, f)
  PROVE  SeenSame(h, fr, tb, tb2, m)
<1> SUFFICES ASSUME NEW i \in 1..m, NEW g, Looks(h, fr, i, g) PROVE tb2[g] = tb[g]
  BY DEF SeenSame
<1>1. i \in 1..Len(h)
  BY ConfigIs
<1>2. g \in Id /\ g # f
  BY <1>1, SeenId DEF Alone
<1> QED
  BY <1>2 DEF Only

LEMMA NewVar ==
  ASSUME NEW h, NEW fr, NEW tb, NEW lev, Config(h, fr, tb, lev), NEW td, Doing(td, h, fr, tb),
         NEW v, \A f \in Id : Known(h, fr, f) => v \notin ToSet(tb[f])
  PROVE  A!Var(v) \notin ToSet(td[Len(h)])
<1> DEFINE V == Vars \ {v}
<1>1. /\ Stands(h, fr, tb, lev) /\ fr \in Seq(Id) /\ lev[Len(h)] <= Len(fr) /\ FingerIn(h, fr)
      /\ tb \in [Id -> Seq(Vars)] /\ h \in Seq(Acts) /\ Len(h) \in Nat \ {0}
  BY ConfigIs
<1>2. KnownHave(h, fr, tb, V)
  <2> SUFFICES ASSUME NEW f \in Id, Known(h, fr, f) PROVE tb[f] \in Seq(V)
    BY DEF KnownHave
  <2>1. tb[f] \in Seq(Vars) /\ v \notin ToSet(tb[f])
    BY <1>1
  <2> PICK s \in Seq(Vars) : s = tb[f]
    BY <2>1
  <2>2. Len(s) \in Nat /\ \A i \in 1..Len(s) : s[i] \in V
    BY <2>1, ElementOfSeq, LenProperties DEF ToSet
  <2>3. s = [i \in 1..Len(s) |-> s[i]]
    OBVIOUS
  <2>4. s \in Seq(V)
    BY <2>2, <2>3
  <2> QED
    BY <2>4
<1> HIDE DEF V
<1>3. AllHave(h, fr, tb, V)
  BY <1>1, <1>2, HaveAll, Zenon
<1>4. \A i \in 0..Len(h) : td[i] \in Seq(Items(V))
  BY <1>1, <1>3, TasksType, Zenon
<1>5. td[Len(h)] \in Seq(Items(V))
  BY <1>1, <1>4
<1>6. A!Var(v) \notin Items(V)
  <2>1. \A x, y : A!Var(x) = A!Var(y) => x = y
    BY DEF A!Var
  <2>2. A!Var(v) \notin VarItems(V)
    BY <2>1 DEF VarItems, V
  <2>3. A!Var(v) # A!Fn /\ A!Var(v) # A!Protected /\ \A m : A!Var(v) # A!Handler(m)
    BY KindsAre
  <2> QED
    BY <2>2, <2>3 DEF Items
<1> QED
  <2> PICK s \in Seq(Items(V)) : s = td[Len(h)]
    BY <1>5
  <2>1. \A i \in DOMAIN s : s[i] \in Items(V)
    BY ElementOfSeq, LenProperties
  <2>2. A!Var(v) \notin ToSet(s)
    BY <2>1, <1>6 DEF ToSet
  <2> QED
    BY <2>2

Declares(h, tb, v, tb2) ==
    /\ h[Len(h)].op = "lua" /\ v \in Vars
    /\ tb2 = [tb EXCEPT ![h[Len(h)].f] = Append(tb[h[Len(h)].f], v)]

LEMMA DeclareSteps ==
  ASSUME NEW h, NEW fr, NEW tb, NEW lev, NEW tb2, NEW td, NEW td2,
         Moves(h, fr, tb, lev, td, h, fr, tb2, td2), NEW v, Declares(h, tb, v, tb2)
  PROVE  Owns(h, fr, tb2) /\ td2[Len(h)] = Append(td[Len(h)], A!Var(v))
<1> SUFFICES ASSUME h[Len(h)].op = "lua", v \in Vars
             PROVE  Owns(h, fr, tb2) /\ td2[Len(h)] = Append(td[Len(h)], A!Var(v))
  BY DEF Declares
<1> DEFINE N == Len(h)
           f == h[N].f
<1>0. Config(h, fr, tb, lev) /\ Doing(td, h, fr, tb) /\ Doing(td2, h, fr, tb2)
  BY DEF Moves
<1>1. /\ N \in Nat \ {0} /\ h \in Seq(Acts) /\ fr \in Seq(Id) /\ Len(fr) \in Nat
      /\ Stands(h, fr, tb, lev) /\ tb \in [Id -> Seq(Vars)] /\ Owns(h, fr, tb)
      /\ Distinct(fr) /\ lev[N] <= Len(fr)
  BY <1>0, ConfigIs
<1>2. N \in 1..N /\ N - 1 \in Nat /\ N - 1 <= N /\ (N - 1) + 1 = N /\ N \in 0..N /\ N - 1 \in 0..N
  BY <1>1
<1>3. f \in Id /\ h[N] \in Acts
  BY <1>0, <1>1, <1>2, ConfigIs, ActIs
<1>4. tb2[f] = Append(tb[f], v) /\ tb[f] \in Seq(Vars) /\ tb2 \in [Id -> Seq(Vars)]
  BY <1>1, <1>3, AppendProperties DEF Declares
<1>5. Only(tb, tb2, f)
  BY <1>1 DEF Declares, Only
<1>6. Owns(h, fr, tb2)
  <2>1. \A g \in Id : Len(tb[g]) <= Len(tb2[g])
    <3> TAKE g \in Id
    <3>1. tb[g] \in Seq(Vars) /\ Len(tb[g]) \in Nat
      BY <1>1
    <3>2. g # f => tb2[g] = tb[g]
      BY <1>5 DEF Only
    <3>3. Len(tb2[f]) = Len(tb[f]) + 1
      BY <1>4, AppendProperties
    <3> QED
      BY <3>1, <3>2, <3>3
  <2>2. ASSUME NEW i \in 1..N, h[i].op = "close" PROVE h[i].keep <= Len(tb2[h[i].f])
    <3>1. h[i] \in Acts /\ h[i].f \in Id /\ h[i].keep \in Nat
      BY <1>1, <2>2, ElementOfSeq, ActIs
    <3>2. h[i].keep <= Len(tb[h[i].f])
      BY <1>1, <2>2 DEF Owns, OwnsAt, KeepsOf
    <3>3. Len(tb[h[i].f]) \in Nat /\ Len(tb2[h[i].f]) \in Nat
      BY <3>1, <1>1, <1>4
    <3> QED
      BY <2>1, <3>1, <3>2, <3>3
  <2>3. Edited(h, fr, h, fr, tb2, N)
    BY <1>1, <2>2 DEF Edited, Alike
  <2> QED
    BY <1>1, <2>3, OwnsEdit
<1>7. Still(h, fr, tb, lev, h, fr, tb2, N - 1, Len(fr))
  <2>1. Alone(h, fr, N - 1, f)
    BY <1>1, <1>2, LuaAlone DEF Alone
  <2>2. SeenSame(h, fr, tb, tb2, N - 1)
    BY <1>0, <1>2, <1>5, <2>1, SeenAlone, Zenon
  <2>3. Bounded(h, h, lev, N - 1, Len(fr))
    <3>1. lev[N - 1] <= Len(fr)
      BY <1>0, <1>2, ConfigIs
    <3>2. N - 1 # 0 => ~Unwinding(h[N - 1]) /\ ~Failed(h[N - 1])
      <4>1. N - 1 # 0 => N - 1 \in 1..Len(h) /\ N - 1 < Len(h)
        <5>1. \A n \in Nat \ {0} : n - 1 # 0 => n - 1 \in 1..n /\ n - 1 < n
          OBVIOUS
        <5> QED
          BY <1>1, <5>1
      <4>2. N - 1 # 0 => (Unwinding(h[N - 1]) \/ Failed(h[N - 1]) => h[N].op = "close")
        BY <1>1, <1>2, <4>1, RangeIs
      <4> QED
        BY <4>2
    <3> QED
      BY <3>1, <3>2 DEF Bounded
  <2> QED
    BY <1>1, <1>2, <2>2, <2>3, AgreeAll DEF Still
<1>8. td2[N - 1] = td[N - 1] /\ td[N - 1] \in Seq(Items(Vars))
  <2>1. \A i \in 0..(N - 1) : td2[i] = td[i]
    BY <1>7, Lower
  <2>2. N - 1 \in 0..(N - 1)
    BY <1>1
  <2> QED
    BY <1>0, <1>2, <2>1, <2>2, TasksHere
<1>9. td[N] = Append(td[N - 1], A!Fn) \o VarsIn(tb, f)
  <2>1. JobForm(td[N], fr, tb, h[N], td[N - 1], Up(h, fr, N))
    BY <1>0, <1>1, <1>2, TasksForm
  <2> QED
    BY <2>1 DEF JobForm
<1>10. td2[N] = Append(td[N - 1], A!Fn) \o VarsIn(tb2, f)
  <2>1. JobForm(td2[N], fr, tb2, h[N], td2[N - 1], Up(h, fr, N))
    BY <1>0, <1>1, <1>2, TasksForm
  <2> QED
    BY <1>8, <2>1 DEF JobForm
<1>11. VarsIn(tb2, f) = Append(VarsIn(tb, f), A!Var(v))
  <2>1. HasMore(tb, tb2, f, v, Vars)
    BY <1>4 DEF HasMore
  <2> QED
    BY <2>1, VarsAppend
<1>12. VarsIn(tb, f) \in Seq(VarItems(Vars)) /\ A!Var(v) \in Items(Vars)
  BY <1>4, VarsInIs, ItemIs
<1>13. VarsIn(tb, f) \in Seq(Items(Vars)) /\ Append(td[N - 1], A!Fn) \in Seq(Items(Vars))
  BY <1>8, <1>12, ItemsAre
<1>14. Append(td[N - 1], A!Fn) \o Append(VarsIn(tb, f), A!Var(v))
       = Append(Append(td[N - 1], A!Fn) \o VarsIn(tb, f), A!Var(v))
  <2>1. \A x, y \in Seq(Items(Vars)), z \in Items(Vars) :
           x \o Append(y, z) = Append(x \o y, z)
    BY JoinAppend
  <2> QED
    BY <1>12, <1>13, <2>1, Zenon
<1> QED
  BY <1>6, <1>9, <1>10, <1>11, <1>14

-----------------------------------------------------------------------------
(* What a function and a close_upvals have to do.                          *)
LuaForm(td, h, tb, p) ==
    /\ td[p] = Append(td[p - 1], A!Fn) \o VarsIn(tb, h[p].f)
    /\ td[p - 1] \in Seq(Items(Vars)) /\ td[p] \in Seq(Items(Vars))
    /\ VarsIn(tb, h[p].f) \in Seq(VarItems(Vars))
    /\ Len(VarsIn(tb, h[p].f)) = Len(tb[h[p].f]) /\ tb[h[p].f] \in Seq(Vars) /\ h[p].f \in Id

LEMMA LuaDoes ==
  ASSUME NEW h, NEW fr, NEW tb, NEW lev, Config(h, fr, tb, lev), NEW td, Doing(td, h, fr, tb),
         NEW p \in 1..Len(h), h[p].op = "lua"
  PROVE  LuaForm(td, h, tb, p)
<1>1. /\ h[p] \in Acts /\ tb \in [Id -> Seq(Vars)] /\ Len(h) \in Nat
  BY ConfigIs
<1>2. p - 1 \in 0..Len(h) /\ p \in 0..Len(h)
  BY <1>1
<1>3. td[p - 1] \in Seq(Items(Vars)) /\ td[p] \in Seq(Items(Vars))
      /\ JobForm(td[p], fr, tb, h[p], td[p - 1], Up(h, fr, p))
  BY <1>2, TasksHere
<1>4. h[p].f \in Id /\ tb[h[p].f] \in Seq(Vars)
  BY <1>1, ActIs
<1>5. VarsIn(tb, h[p].f) \in Seq(VarItems(Vars)) /\ Len(VarsIn(tb, h[p].f)) = Len(tb[h[p].f])
  BY <1>4, VarsInIs, ZenonT(40)
<1> QED
  BY <1>3, <1>4, <1>5 DEF LuaForm, JobForm

CloseForm(td, h, fr, tb, p) ==
    /\ h[p].ph = "next" => td[p] = Ground(tb, h[p], td[p - 1])
    /\ h[p].ph = "body" => td[p] = Append(Ground(tb, h[p], td[p - 1]),
                                          A!Handler(Goes(tb, h[p], td[p - 1])))
    /\ h[p].ph = "left" => td[p] = Append(Ground(tb, h[p], td[p - 1]),
                                          A!Handler(Goes(tb, h[p], td[p - 1])))
                                   \o Open(fr, tb, h[p].n, h[p].j)
    /\ td[p - 1] \in Seq(Items(Vars)) /\ td[p] \in Seq(Items(Vars))
    /\ Ground(tb, h[p], td[p - 1]) \in Seq(Items(Vars)) /\ Goes(tb, h[p], td[p - 1]) \in Modes
    /\ VarsIn(tb, h[p].f) \in Seq(VarItems(Vars))
    /\ Len(VarsIn(tb, h[p].f)) = Len(tb[h[p].f]) /\ tb[h[p].f] \in Seq(Vars) /\ h[p].f \in Id

LEMMA CloseDoes ==
  ASSUME NEW h, NEW fr, NEW tb, NEW lev, Config(h, fr, tb, lev), NEW td, Doing(td, h, fr, tb),
         NEW p \in 1..Len(h), h[p].op = "close"
  PROVE  CloseForm(td, h, fr, tb, p)
<1>1. /\ h[p] \in Acts /\ tb \in [Id -> Seq(Vars)] /\ Len(h) \in Nat
  BY ConfigIs
<1>2. p - 1 \in 0..Len(h) /\ p \in 0..Len(h)
  BY <1>1
<1>3. td[p - 1] \in Seq(Items(Vars)) /\ td[p] \in Seq(Items(Vars))
      /\ JobForm(td[p], fr, tb, h[p], td[p - 1], Up(h, fr, p))
  BY <1>2, TasksHere
<1>4. h[p].f \in Id /\ tb[h[p].f] \in Seq(Vars)
  BY <1>1, ActIs
<1>5. VarsIn(tb, h[p].f) \in Seq(VarItems(Vars)) /\ Len(VarsIn(tb, h[p].f)) = Len(tb[h[p].f])
  BY <1>4, VarsInIs, ZenonT(40)
<1>6. Ground(tb, h[p], td[p - 1]) \in Seq(Items(Vars)) /\ Goes(tb, h[p], td[p - 1]) \in Modes
  <2>1. /\ h[p] \in Acts /\ td[p - 1] \in Seq(Items(Vars)) /\ h[p].op = "close"
        /\ tb[h[p].f] \in Seq(Vars)
    BY <1>1, <1>3, <1>4
  <2> QED
    BY <2>1, GroundIs, Zenon
<1> QED
  BY <1>3, <1>4, <1>5, <1>6 DEF CloseForm, JobForm, Failed

(* Below a function there is something to do, unless it is the first one.  *)
LEMMA BelowLua ==
  ASSUME NEW h, NEW fr, NEW tb, NEW lev, Config(h, fr, tb, lev), NEW td, Doing(td, h, fr, tb),
         NEW p \in 1..Len(h), p > 1, h[p].op = "lua"
  PROVE  td[p - 1] # <<>>
<1> DEFINE q == p - 1
<1>1. q \in 1..Len(h) /\ Len(h) \in Nat /\ q - 1 \in 0..Len(h) /\ q \in 0..Len(h)
  BY ConfigIs
<1>2. /\ h[q] \in Acts /\ Fits(h, p, lev, fr)
      /\ td[q] \in Seq(Items(Vars)) /\ td[q - 1] \in Seq(Items(Vars))
      /\ JobForm(td[q], fr, tb, h[q], td[q - 1], Up(h, fr, q))
  BY <1>1, ConfigIs, TasksHere
<1>3. h[q].op = "lua" \/ h[q].ph = "body"
  BY <1>2, ActIs DEF Fits, Sits
<1>4. CASE h[q].op = "lua"
  <2>1. LuaForm(td, h, tb, q)
    BY <1>1, <1>4, LuaDoes
  <2> PICK r \in Seq(Items(Vars)), w \in Seq(VarItems(Vars)) :
           td[q] = Append(r, A!Fn) \o w
    BY <2>1 DEF LuaForm
  <2>2. Append(r, A!Fn) \in Seq(Items(Vars)) /\ w \in Seq(Items(Vars))
    BY ItemsAre
  <2>3. Len(Append(r, A!Fn)) = Len(r) + 1
    BY ItemIs, AppendProperties
  <2>4. Len(Append(r, A!Fn) \o w) = Len(Append(r, A!Fn)) + Len(w)
    BY <2>2, JoinIs
  <2>5. Len(r) \in Nat /\ Len(w) \in Nat
    BY <2>2, LenProperties
  <2>6. Len(td[q]) # 0
    BY <2>3, <2>4, <2>5
  <2> QED
    BY <1>2, <2>6, EmptySeq
<1>5. CASE h[q].op = "pcall"
  <2>1. td[q] = Append(td[q - 1], A!Protected)
    BY <1>2, <1>3, <1>5 DEF JobForm
  <2> QED
    BY <1>2, <2>1, ItemIs, AppendIs
<1>6. CASE h[q].op = "close"
  <2>1. CloseForm(td, h, fr, tb, q)
    BY <1>1, <1>6, CloseDoes
  <2> PICK r \in Seq(Items(Vars)), m \in Modes : td[q] = Append(r, A!Handler(m))
    BY <1>3, <1>6, <2>1 DEF CloseForm
  <2>2. A!Handler(m) \in Items(Vars)
    BY ItemIs
  <2> QED
    BY <2>2, AppendIs
<1> QED
  BY <1>2, <1>4, <1>5, <1>6, ActIs

-----------------------------------------------------------------------------
(* A block or a function ends.                                             *)
AtEnd(s, b, w, to) ==
    /\ b \in Seq(Items(Vars)) /\ w \in Seq(VarItems(Vars)) /\ s = Append(b, A!Fn) \o w
    /\ to \in Len(b)..Len(s) /\ to > 0

LEMMA ExitPoint ==
  ASSUME NEW s, NEW b, NEW w, NEW to, AtEnd(s, b, w, to)
  PROVE  Exits(s, A!Run, s, A!Leave(to))
<1>0. /\ b \in Seq(Items(Vars)) /\ w \in Seq(VarItems(Vars)) /\ s = Append(b, A!Fn) \o w
      /\ to \in Len(b)..Len(s) /\ to > 0
  BY DEF AtEnd
<1>1. /\ Append(b, A!Fn) \in Seq(Items(Vars)) /\ w \in Seq(Items(Vars))
  BY <1>0, ItemsAre
<1>2. /\ Len(Append(b, A!Fn)) = Len(b) + 1 /\ Append(b, A!Fn)[Len(b) + 1] = A!Fn
      /\ Len(b) \in Nat
  BY <1>0, ItemIs, AppendProperties
<1>3. /\ s \in Seq(Items(Vars)) /\ Len(s) = (Len(b) + 1) + Len(w)
      /\ \A i \in 1..(Len(b) + 1) : s[i] = Append(b, A!Fn)[i]
      /\ \A i \in 1..Len(w) : s[(Len(b) + 1) + i] = w[i]
  <2>1. PICK c \in Seq(Items(Vars)) : c = Append(b, A!Fn)
    BY <1>1
  <2>2. /\ s \in Seq(Items(Vars)) /\ Len(s) = Len(c) + Len(w)
        /\ \A i \in 1..Len(c) : s[i] = c[i]
        /\ \A i \in 1..Len(w) : s[Len(c) + i] = w[i]
    <3>1. c \o w = s
      BY <1>0, <2>1
    <3>2. /\ c \o w \in Seq(Items(Vars)) /\ Len(c \o w) = Len(c) + Len(w)
          /\ \A i \in 1..Len(c) : (c \o w)[i] = c[i]
          /\ \A i \in 1..Len(w) : (c \o w)[Len(c) + i] = w[i]
      BY <1>1, JoinIs
    <3> QED
      BY <3>1, <3>2
  <2> QED
    BY <1>2, <2>1, <2>2
<1>4. PICK i, p \in Nat : i = Len(b) + 1 /\ p = Len(w)
  BY <1>1, <1>2, LenProperties
<1>5. /\ Len(s) = i + p /\ DOMAIN s = 1..(i + p) /\ i >= 1
      /\ s[i] = A!Fn
      /\ \A x \in 1..p : s[i + x] = w[x]
  BY <1>2, <1>3, <1>4, LenProperties
<1>6. ASSUME NEW j \in 1..(i + p), j > i PROVE s[j].k = "var"
  <2>1. PICK x \in Nat : x = j - i
    BY <1>6
  <2>2. x \in 1..p /\ i + x = j
    BY <1>6, <2>1
  <2>3. s[j] = w[x] /\ w[x] \in VarItems(Vars)
    BY <1>0, <1>4, <1>5, <2>2, ElementOfSeq
  <2> QED
    BY <2>3, ItemIs DEF VarsOnly, IsVar
<1>7. to \in (i - 1)..(i + p)
  <2>1. i - 1 = Len(b)
    BY <1>2, <1>4
  <2> QED
    BY <1>0, <1>5, <2>1
<1>8. i \in 1..(i + p)
  BY <1>5
<1>9. \E x \in (i - 1)..(i + p) : x > 0 /\ A!Leave(to) = A!Leave(x)
  BY <1>0, <1>7
<1>10. \A j \in 1..(i + p) : j > i => s[j].k = "var"
  BY <1>6
<1> QED
  BY <1>5, <1>8, <1>9, <1>10, Zenon DEF Exits

LEMMA ExitSteps ==
  ASSUME NEW h, NEW fr, NEW tb, NEW lev, h[Len(h)].op = "lua", NEW h2, NEW td, NEW td2,
         Moves(h, fr, tb, lev, td, h2, fr, tb, td2),
         NEW a \in Acts, Grows(h, a, h2), a.op = "close", a.ph = "next", a.e = None,
         a.f = h[Len(h)].f, a.keep <= Len(tb[a.f]), a.how # "error",
         a.how = "return" => a.keep = 0 /\ Len(h) > 1
  PROVE  /\ Owns(h2, fr, tb)
         /\ Exits(td[Len(h)], A!Run, td2[Len(h2)], ModeFor(h2, tb, td2))
<1> DEFINE N == Len(h)
<1>0. Config(h, fr, tb, lev) /\ Doing(td, h, fr, tb) /\ Doing(td2, h2, fr, tb)
  BY DEF Moves
<1>1. /\ N \in Nat \ {0} /\ h \in Seq(Acts) /\ fr \in Seq(Id) /\ Len(fr) \in Nat
      /\ Stands(h, fr, tb, lev) /\ Owns(h, fr, tb) /\ Distinct(fr) /\ lev[N] <= Len(fr)
  BY <1>0, ConfigIs
<1>2. /\ h2 \in Seq(Acts) /\ Len(h2) = N + 1 /\ h2[N + 1] = a
      /\ \A i \in 1..N : h2[i] = h[i]
  BY <1>1, AppendProperties DEF Grows
<1>3. N \in 1..N /\ N \in 0..N /\ N + 1 \in 1..Len(h2) /\ (N + 1) - 1 = N
  BY <1>1, <1>2
<1>4. Owns(h2, fr, tb)
  <2>1. ~Failed(h[N])
    BY Zenon DEF Failed
  <2>2. ASSUME NEW i \in 1..N, Popped(h, i) PROVE h[i].f # a.f
    <3>1. OwnsAt(h, fr, tb, i) /\ h[i].op = "close"
      BY <1>1, <2>2 DEF Owns, Popped
    <3>2. i # N
      BY <3>1
    <3> QED
      BY <1>3, <2>2, <3>1, <3>2, Zenon DEF OwnsAt, ApartOf
  <2>3. NewOn(h, fr, tb, a)
    BY <2>1, <2>2 DEF NewOn
  <2> QED
    BY <1>1, <2>3, OwnsPush DEF Grows
<1>5. Still(h, fr, tb, lev, h2, fr, tb, N, Len(fr))
  <2>1. Bounded(h, h2, lev, N, Len(fr))
    BY <1>1 DEF Bounded, Unwinding, Failed
  <2> QED
    BY <1>1, <1>2, <2>1, SeenAll, AgreeAll DEF Still
<1>6. td2[N] = td[N]
  <2>1. \A i \in 0..N : td2[i] = td[i]
    BY <1>5, Lower
  <2> QED
    BY <1>3, <2>1
<1>7. LuaForm(td, h, tb, N)
  BY <1>0, <1>3, LuaDoes
<1>8. td2[N + 1] = td[N] /\ ModeFor(h2, tb, td2) = Goes(tb, a, td[N])
  <2>1. JobForm(td2[N + 1], fr, tb, h2[N + 1], td2[(N + 1) - 1], Up(h2, fr, N + 1))
    BY <1>0, <1>2, <1>3, TasksForm
  <2>2. td2[N + 1] = Ground(tb, a, td[N])
    BY <1>2, <1>3, <1>6, <2>1 DEF JobForm
  <2>3. ModeFor(h2, tb, td2) = Goes(tb, a, td[N])
    BY <1>2, <1>3, <1>6 DEF ModeFor
  <2>4. Ground(tb, a, td[N]) = td[N]
    BY DEF Ground
  <2> QED
    BY <2>2, <2>3, <2>4
<1>9. PICK b \in Seq(Items(Vars)), w \in Seq(VarItems(Vars)), s \in Seq(Items(Vars)) :
         b = td[N - 1] /\ w = VarsIn(tb, h[N].f) /\ s = td[N]
  BY <1>7 DEF LuaForm
<1>10. s = Append(b, A!Fn) \o w /\ Len(w) = Len(tb[a.f])
  BY <1>7, <1>9 DEF LuaForm
<1>11. PICK p, q, r \in Nat : p = Len(s) /\ q = Len(b) /\ r = Len(w)
  BY <1>9, LenProperties
<1>12. p = q + 1 + r
  <2>1. Append(b, A!Fn) \in Seq(Items(Vars)) /\ w \in Seq(Items(Vars))
    BY ItemsAre
  <2>2. Len(Append(b, A!Fn)) = Len(b) + 1
    BY ItemIs, AppendProperties
  <2>3. Len(Append(b, A!Fn) \o w) = Len(Append(b, A!Fn)) + Len(w)
    BY <2>1, JoinIs
  <2> QED
    BY <1>10, <1>11, <2>2, <2>3
<1>13. N > 1 => q # 0
  <2>1. N > 1 => td[N - 1] # <<>>
    BY <1>0, <1>3, BelowLua
  <2> QED
    BY <1>9, <1>11, <2>1, EmptySeq
<1>14. PICK k \in Nat : k = a.keep
  BY ActIs
<1>15. Goes(tb, a, s) = A!Leave(IF a.how = "return" THEN p - r - 1 ELSE p - r + k)
  BY <1>10, <1>11, <1>14 DEF Goes
<1>16. ASSUME NEW to \in q..p, to > 0, Goes(tb, a, s) = A!Leave(to)
       PROVE  Exits(s, A!Run, s, Goes(tb, a, s))
  <2>1. AtEnd(s, b, w, to)
    BY <1>10, <1>11, <1>16 DEF AtEnd
  <2>2. Exits(s, A!Run, s, A!Leave(to))
    BY <2>1, ExitPoint
  <2> QED
    BY <1>16, <2>2
<1>17. k <= r
  BY <1>10, <1>11, <1>14
<1>18. Exits(s, A!Run, s, Goes(tb, a, s))
  <2>1. CASE a.how = "return"
    <3>1. q # 0
      BY <1>13, <2>1
    <3>2. q \in q..p /\ q > 0 /\ p - r - 1 = q
      BY <1>12, <3>1
    <3>3. Goes(tb, a, s) = A!Leave(q)
      BY <1>15, <2>1, <3>2
    <3> QED
      BY <1>16, <3>2, <3>3
  <2>2. CASE a.how # "return"
    <3>1. PICK to \in Nat : to = q + 1 + k
      OBVIOUS
    <3>2. to \in q..p /\ to > 0 /\ p - r + k = to
      BY <1>12, <1>17, <3>1
    <3>3. Goes(tb, a, s) = A!Leave(to)
      BY <1>15, <2>2, <3>2
    <3> QED
      BY <1>16, <3>2, <3>3
  <2> QED
    BY <2>1, <2>2
<1> QED
  BY <1>2, <1>4, <1>8, <1>9, <1>18

-----------------------------------------------------------------------------
(* b takes the place of the m-th activation, and is the innermost one.     *)
Tops(h, m, b, h2) ==
    /\ m \in Nat \ {0} /\ m <= Len(h) /\ b \in Acts
    /\ h2 \in Seq(Acts) /\ Len(h2) = m /\ h2[m] = b
    /\ \A i \in 1..(m - 1) : h2[i] = h[i]

(* What is below it does the same as before.                               *)
Leaves(h, fr, tb, lev, h2, fr2, tb2, m, L) ==
    /\ m \in 1..Len(h) /\ m <= Len(h2) /\ \A i \in 1..(m - 1) : h2[i] = h[i]
    /\ h[m].op # "lua" => h2[m].n = h[m].n
    /\ L \in Nat /\ lev[m] <= L /\ Agree(fr, fr2, L) /\ SeenSame(h, fr, tb, tb2, m - 1)

LEMMA Beneath ==
  ASSUME NEW h, NEW fr, NEW tb, NEW lev, NEW td, NEW h2, NEW fr2, NEW tb2, NEW td2,
         Moves(h, fr, tb, lev, td, h2, fr2, tb2, td2),
         NEW m, NEW L, Leaves(h, fr, tb, lev, h2, fr2, tb2, m, L)
  PROVE  td2[m - 1] = td[m - 1]
<1>1. /\ Config(h, fr, tb, lev) /\ h2 \in Seq(Acts)
      /\ m \in 1..Len(h) /\ m <= Len(h2) /\ \A i \in 1..(m - 1) : h2[i] = h[i]
  BY DEF Moves, Leaves
<1>2. /\ Stands(h, fr, tb, lev) /\ Len(h) \in Nat /\ \A k \in 0..Len(h) : lev[k] \in Nat
      /\ \A i, k \in 0..Len(h) : k <= i => lev[k] <= lev[i]
  BY <1>1, ConfigIs
<1>3. m \in 0..Len(h) /\ m - 1 \in 0..Len(h) /\ m - 1 <= m /\ m - 1 \in Nat /\ (m - 1) + 1 = m
      /\ m - 1 < Len(h) /\ m - 1 <= Len(h2) /\ m - 1 < Len(h2)
      /\ m - 1 <= Len(h) /\ m - 1 \in 0..(m - 1)
  BY <1>1, <1>2, LenProperties
<1>4. lev[m - 1] <= lev[m] /\ lev[m] \in Nat /\ lev[m - 1] \in Nat
  BY <1>2, <1>3
<1>5. L \in Nat /\ lev[m] <= L /\ lev[m - 1] <= L /\ Agree(fr, fr2, L)
      /\ SeenSame(h, fr, tb, tb2, m - 1) /\ (h[m].op # "lua" => h2[m].n = h[m].n)
  BY <1>4 DEF Leaves
<1>6. ASSUME m - 1 # 0, Unwinding(h[m - 1]) \/ Failed(h[m - 1]) PROVE h[m].op # "lua"
  <2>1. m - 1 \in 1..Len(h) /\ m - 1 < Len(h)
    BY <1>3, <1>6
  <2> QED
    BY <1>2, <1>3, <1>6, <2>1, RangeIs
<1>7. Bounded(h, h2, lev, m - 1, L)
  BY <1>1, <1>3, <1>5, <1>6 DEF Bounded
<1>8. Still(h, fr, tb, lev, h2, fr2, tb2, m - 1, L)
  BY <1>1, <1>3, <1>5, <1>7 DEF Still
<1> QED
  BY <1>3, <1>8, Lower

(* ... and everything, when nothing waits for what is taken off.           *)
LEMMA BeneathAll ==
  ASSUME NEW h, NEW fr, NEW tb, NEW lev, NEW td, NEW h2, NEW fr2, NEW td2,
         Moves(h, fr, tb, lev, td, h2, fr2, tb, td2),
         NEW m, m \in 1..Len(h), m <= Len(h2), h[m].op = "lua" \/ h[m].ph = "body",
         \A i \in 1..m : h2[i] = h[i],
         NEW L \in Nat, lev[m] <= L, Agree(fr, fr2, L)
  PROVE  td2[m] = td[m]
<1>1. /\ Config(h, fr, tb, lev) /\ h2 \in Seq(Acts)
  BY DEF Moves
<1>2. m \in Nat /\ m <= Len(h) /\ m \in 0..m /\ h[m] \in Acts
  BY <1>1, ConfigIs
<1>3. Bounded(h, h2, lev, m, L)
  BY <1>2, ActIs DEF Bounded, Unwinding, Failed
<1>4. Still(h, fr, tb, lev, h2, fr2, tb, m, L)
  BY <1>2, <1>3, SeenAll DEF Still
<1> QED
  BY <1>2, <1>4, Lower

LEMMA OwnsTop ==
  ASSUME NEW h, NEW fr, NEW tb, NEW lev, Config(h, fr, tb, lev), NEW m, NEW b, NEW h2, NEW fr2,
         Tops(h, m, b, h2), Alike(h[m], b), \A f : OnFrames(fr2, f) => OnFrames(fr, f)
  PROVE  Owns(h2, fr2, tb)
<1>1. Len(h) \in Nat /\ Owns(h, fr, tb)
  BY ConfigIs
<1>2. /\ m \in Nat \ {0} /\ m <= Len(h) /\ Len(h2) = m /\ h2[m] = b
      /\ \A i \in 1..(m - 1) : h2[i] = h[i]
  BY DEF Tops
<1>3. \A i \in 1..m : i = m \/ (i < m /\ i \in 1..(m - 1))
  BY <1>2
<1>4. \A i \in 1..m : Alike(h[i], h2[i]) /\ (i < m => h2[i] = h[i])
  <2> TAKE i \in 1..m
  <2>1. i < m => i \in 1..(m - 1)
    BY <1>2
  <2>2. i = m \/ i \in 1..(m - 1)
    BY <1>3
  <2> QED
    BY <1>2, <2>1, <2>2 DEF Alike
<1>5. \A i \in 1..m : h[i].op = "close" => h[i].keep <= Len(tb[h[i].f])
  <2> TAKE i \in 1..m
  <2>1. i \in 1..Len(h)
    BY <1>1, <1>2
  <2> QED
    BY <1>1, <2>1 DEF Owns, OwnsAt, KeepsOf
<1>6. Edited(h, fr, h2, fr2, tb, m)
  BY <1>2, <1>4, <1>5 DEF Edited
<1> QED
  BY <1>1, <1>6, OwnsEdit

-----------------------------------------------------------------------------
(* A failed handler is done with.                                          *)
CloseLike(a, b) == /\ a.op = "close" /\ b.op = "close" /\ b.f = a.f /\ b.keep = a.keep
                   /\ b.how = a.how /\ b.n = a.n

(* With an error under way, it is the same error or another one that       *)
(* passes what is below.                                                   *)
LEMMA GroundTwice ==
  ASSUME NEW tb, NEW a \in Acts, a.op = "close", NEW x, x \in Seq(Items(Vars)),
         tb[a.f] \in Seq(Vars), NEW b, CloseLike(a, b), b.e # None
  PROVE  A!Abandon(Ground(tb, a, x)) = Ground(tb, b, x)
<1>1. VarsIn(tb, a.f) \in Seq(VarItems(Vars))
  BY VarsInIs
<1>2. PICK z : z = IF a.how = "error" THEN x \o VarsIn(tb, a.f) ELSE x
  OBVIOUS
<1>3. z \in Seq(Items(Vars))
  BY <1>1, <1>2, ItemsAre
<1>4. Ground(tb, a, x) = IF a.e # None THEN A!Abandon(z) ELSE z
  BY <1>2 DEF Ground
<1>5. Ground(tb, b, x) = A!Abandon(z)
  BY <1>2 DEF Ground, CloseLike
<1>6. A!Abandon(A!Abandon(z)) = A!Abandon(z)
  BY <1>3, AbandonTwice
<1> QED
  BY <1>4, <1>5, <1>6

LeftEnds(a, b) == /\ a.op = "close" /\ a.ph = "left" /\ a.j <= a.n
                  /\ CloseLike(a, b) /\ b.ph = "next" /\ b.e = a.err

LEMMA LeftDoneSteps ==
  ASSUME NEW h, NEW fr, NEW tb, NEW lev, NEW td, NEW h2, NEW td2,
         Moves(h, fr, tb, lev, td, h2, fr, tb, td2),
         NEW b, LeftEnds(h[Len(h)], b), Tops(h, Len(h), b, h2)
  PROVE  /\ Owns(h2, fr, tb)
         /\ Absorbs(td[Len(h)], ModeFor(h, tb, td), td2[Len(h2)], ModeFor(h2, tb, td2))
<1> DEFINE N == Len(h)
           a == h[N]
<1>0. /\ Config(h, fr, tb, lev) /\ Doing(td, h, fr, tb) /\ Doing(td2, h2, fr, tb)
      /\ h2 \in Seq(Acts)
  BY DEF Moves
<1>1. N \in Nat \ {0} /\ N \in 1..N /\ N \in 0..N
  BY <1>0, ConfigIs
<1>2. /\ a \in Acts /\ lev[N] <= Len(fr) /\ Len(fr) \in Nat
  BY <1>0, <1>1, ConfigIs
<1>3. Len(h2) = N /\ h2[N] = b /\ b \in Acts /\ \A i \in 1..(N - 1) : h2[i] = h[i]
  BY DEF Tops
<1>4. /\ a.op = "close" /\ a.ph = "left" /\ a.j <= a.n /\ a.err \in Errs /\ a.err # None
      /\ CloseLike(a, b) /\ b.ph = "next" /\ b.e = a.err /\ b.op = "close"
      /\ a.n \in Nat /\ a.j \in Nat /\ b.n = a.n
  BY <1>2, ActIs, IdIs DEF LeftEnds, CloseLike
<1>5. Owns(h2, fr, tb)
  <2>1. Alike(h[N], b)
    BY <1>4 DEF CloseLike, Alike
  <2> QED
    BY <1>0, <2>1, OwnsTop
<1>6. td2[N - 1] = td[N - 1]
  <2>1. N <= Len(h2)
    BY <1>1, <1>3
  <2>2. Leaves(h, fr, tb, lev, h2, fr, tb, N, Len(fr))
    BY <1>1, <1>2, <1>3, <1>4, <2>1, SeenAll, AgreeAll DEF Leaves
  <2> QED
    BY <2>2, Beneath
<1>7. CloseForm(td, h, fr, tb, N)
  BY <1>0, <1>1, <1>4, CloseDoes
<1>8. Open(fr, tb, a.n, a.j) = <<>>
  BY <1>4, OpenStep
<1>9. PICK y \in Seq(Items(Vars)), d \in Items(Vars) :
         y = Ground(tb, a, td[N - 1]) /\ d = A!Handler(Goes(tb, a, td[N - 1]))
  BY <1>7, ItemIs DEF CloseForm
<1>10. td[N] = Append(y, d)
  <2>1. td[N] = Append(y, d) \o <<>>
    BY <1>4, <1>7, <1>8, <1>9 DEF CloseForm
  <2>2. Append(y, d) \in Seq(Items(Vars))
    BY <1>9, AppendProperties
  <2> QED
    BY <2>1, <2>2, ConcatEmptySeq
<1>11. Front(td[N]) = y /\ Last(td[N]) = d /\ d.k = "handler"
  BY <1>9, <1>10, AppendIs, KindsAre
<1>12. td2[N] = A!Abandon(y)
  <2>1. JobForm(td2[N], fr, tb, h2[N], td2[N - 1], Up(h2, fr, N))
    BY <1>0, <1>1, <1>3, TasksForm
  <2>2. td2[N] = Ground(tb, b, td[N - 1])
    BY <1>3, <1>4, <1>6, <2>1 DEF JobForm
  <2>3. td[N - 1] \in Seq(Items(Vars)) /\ tb[a.f] \in Seq(Vars)
    BY <1>7 DEF CloseForm
  <2>4. A!Abandon(Ground(tb, a, td[N - 1])) = Ground(tb, b, td[N - 1])
    BY <1>2, <1>4, <2>3, GroundTwice
  <2> QED
    BY <1>9, <2>2, <2>4
<1>13. ModeFor(h, tb, td) = A!Raise(a.err)
  BY <1>4 DEF ModeFor
<1>14. ModeFor(h2, tb, td2) = A!Raise(a.err)
  BY <1>3, <1>4 DEF ModeFor, Goes
<1> QED
  BY <1>3, <1>5, <1>11, <1>12, <1>13, <1>14, ModesAre DEF Absorbs

(* A block's variables are closed.                                         *)
LEMMA BlockDoneSteps ==
  ASSUME NEW h, NEW fr, NEW tb, NEW lev, NEW td, NEW h2, NEW td2,
         Moves(h, fr, tb, lev, td, h2, fr, tb, td2),
         h[Len(h)].op = "close", h[Len(h)].ph = "next", h[Len(h)].how = "block",
         h[Len(h)].e = None, Len(tb[h[Len(h)].f]) <= h[Len(h)].keep,
         Len(h) > 1, Tops(h, Len(h) - 1, h[Len(h) - 1], h2)
  PROVE  /\ Owns(h2, fr, tb)
         /\ ScopeLeft(td[Len(h)], ModeFor(h, tb, td), td2[Len(h2)], ModeFor(h2, tb, td2))
<1> DEFINE N == Len(h)
           a == h[N]
<1>0. /\ Config(h, fr, tb, lev) /\ Doing(td, h, fr, tb) /\ Doing(td2, h2, fr, tb)
      /\ h2 \in Seq(Acts)
  BY DEF Moves
<1>1. N \in Nat \ {0} /\ N \in 1..N /\ N \in 0..N /\ N - 1 \in 1..N /\ N - 1 \in 0..N
      /\ N - 1 \in Nat /\ N > 1
  BY <1>0, ConfigIs
<1>2. /\ a \in Acts /\ h[N - 1] \in Acts /\ lev[N - 1] <= Len(fr) /\ Len(fr) \in Nat
      /\ Fits(h, N, lev, fr) /\ Owns(h, fr, tb)
  BY <1>0, <1>1, ConfigIs
<1>3. /\ Len(h2) = N - 1 /\ h2[N - 1] = h[N - 1] /\ \A i \in 1..((N - 1) - 1) : h2[i] = h[i]
  BY DEF Tops
<1>4. h[N - 1].op = "lua"
  BY <1>1, <1>2 DEF Fits, Sits
<1>5. Owns(h2, fr, tb)
  <2>1. Alike(h[N - 1], h[N - 1])
    BY DEF Alike
  <2> QED
    BY <1>0, <2>1, OwnsTop
<1>6. td2[N - 1] = td[N - 1]
  <2>1. \A i \in 1..(N - 1) : h2[i] = h[i]
    <3>1. \A n \in Nat : \A i \in 1..n : i = n \/ i \in 1..(n - 1)
      OBVIOUS
    <3> QED
      BY <1>1, <1>3, <3>1
  <2>2. N - 1 <= Len(h2)
    BY <1>1, <1>3
  <2> QED
    BY <1>1, <1>2, <1>4, <2>1, <2>2, AgreeAll, BeneathAll
<1>7. CloseForm(td, h, fr, tb, N)
  BY <1>0, <1>1, CloseDoes
<1>8. td[N] = td[N - 1] /\ td[N] \in Seq(Items(Vars))
  BY <1>7 DEF CloseForm, Ground
<1>9. Len(tb[a.f]) = a.keep
  <2>1. a.keep <= Len(tb[a.f])
    BY <1>1, <1>2 DEF Owns, OwnsAt, KeepsOf
  <2>2. a.keep \in Nat /\ Len(tb[a.f]) \in Nat
    BY <1>2, <1>7, ActIs, LenProperties DEF CloseForm
  <2> QED
    BY <2>1, <2>2
<1>10. ModeFor(h, tb, td) = A!Leave(Len(td[N]))
  <2>1. ModeFor(h, tb, td) = A!Leave(Len(td[N - 1]) - Len(tb[a.f]) + a.keep)
    BY DEF ModeFor, Goes
  <2>2. \A x, y \in Nat : x - y + y = x
    OBVIOUS
  <2>3. Len(td[N - 1]) \in Nat /\ a.keep \in Nat
    BY <1>2, <1>8, ActIs, LenProperties
  <2>4. Len(td[N - 1]) - Len(tb[a.f]) + a.keep = Len(td[N - 1])
    BY <1>9, <2>2, <2>3
  <2> QED
    BY <1>8, <2>1, <2>4
<1>11. ModeFor(h2, tb, td2) = A!Run
  BY <1>3, <1>4 DEF ModeFor
<1> QED
  BY <1>3, <1>5, <1>6, <1>8, <1>10, <1>11, ModesAre DEF ScopeLeft

(* pcall returns the error.                                                *)
LEMMA DeliverSteps ==
  ASSUME NEW h, NEW fr, NEW tb, NEW lev, NEW td, NEW h2, NEW td2,
         Moves(h, fr, tb, lev, td, h2, fr, tb, td2),
         Unwinding(h[Len(h)]), Len(fr) <= h[Len(h)].n,
         Len(h) > 1, Tops(h, Len(h) - 1, h[Len(h) - 1], h2)
  PROVE  /\ Owns(h2, fr, tb)
         /\ Delivers(td[Len(h)], ModeFor(h, tb, td), td2[Len(h2)], ModeFor(h2, tb, td2),
                     h[Len(h)].err)
<1> DEFINE N == Len(h)
           a == h[N]
<1>0. /\ Config(h, fr, tb, lev) /\ Doing(td, h, fr, tb) /\ Doing(td2, h2, fr, tb)
      /\ h2 \in Seq(Acts)
  BY DEF Moves
<1>1. N \in Nat \ {0} /\ N \in 1..N /\ N \in 0..N /\ N - 1 \in 1..N /\ N - 1 \in 0..N
      /\ N - 1 \in Nat /\ N > 1
  BY <1>0, ConfigIs
<1>2. /\ a \in Acts /\ h[N - 1] \in Acts /\ lev[N - 1] <= Len(fr) /\ Len(fr) \in Nat
      /\ Fits(h, N, lev, fr)
  BY <1>0, <1>1, ConfigIs
<1>3. /\ Len(h2) = N - 1 /\ h2[N - 1] = h[N - 1] /\ \A i \in 1..((N - 1) - 1) : h2[i] = h[i]
  BY DEF Tops
<1>4. h[N - 1].op = "lua" /\ a.op = "pcall" /\ a.ph = "unwind" /\ a.n \in Nat
  BY <1>1, <1>2, ActIs DEF Fits, Sits, Unwinding
<1>5. Owns(h2, fr, tb)
  <2>1. Alike(h[N - 1], h[N - 1])
    BY DEF Alike
  <2> QED
    BY <1>0, <2>1, OwnsTop
<1>6. td2[N - 1] = td[N - 1]
  <2>1. \A i \in 1..(N - 1) : h2[i] = h[i]
    <3>1. \A n \in Nat : \A i \in 1..n : i = n \/ i \in 1..(n - 1)
      OBVIOUS
    <3> QED
      BY <1>1, <1>3, <3>1
  <2>2. N - 1 <= Len(h2)
    BY <1>1, <1>3
  <2> QED
    BY <1>1, <1>2, <1>4, <2>1, <2>2, AgreeAll, BeneathAll, SMTT(30)
<1>7. td[N - 1] \in Seq(Items(Vars))
  BY <1>0, <1>1, TasksHere
<1>8. td[N] = Append(td[N - 1], A!Protected)
  <2>1. JobForm(td[N], fr, tb, a, td[N - 1], Up(h, fr, N))
    BY <1>0, <1>1, TasksHere
  <2>2. Up(h, fr, N) = Len(fr)
    BY DEF Up
  <2>3. Open(fr, tb, a.n, Len(fr)) = <<>>
    BY <1>2, <1>4, OpenNone
  <2>4. td[N] = Append(td[N - 1], A!Protected) \o <<>>
    BY <2>1, <2>2, <2>3 DEF JobForm
  <2>5. Append(td[N - 1], A!Protected) \in Seq(Items(Vars))
    BY <1>7, ItemIs, AppendProperties
  <2> QED
    BY <2>4, <2>5, ConcatEmptySeq
<1>9. Front(td[N]) = td[N - 1] /\ Last(td[N]) = A!Protected
  BY <1>7, <1>8, ItemIs, AppendIs
<1>10. ModeFor(h, tb, td) = A!Raise(a.err) /\ ModeFor(h2, tb, td2) = A!Run
  BY <1>3, <1>4 DEF ModeFor
<1> QED
  BY <1>3, <1>5, <1>6, <1>9, <1>10, ModesAre DEF Delivers

-----------------------------------------------------------------------------
(* What catches an error, with the variables that wait above it.           *)
Caught(c) == /\ c \in Seq(Items(Vars))
             /\ \A w \in Seq(VarItems(Vars)) : A!Abandon(c \o w) = c \o w

CatcherOf(tb, a, below) ==
    IF a.op = "pcall" THEN Append(below, A!Protected)
    ELSE Append(Ground(tb, a, below), A!Handler(Goes(tb, a, below)))

Catches(a) == a.op = "pcall" \/ (a.op = "close" /\ a.ph # "next")

LEMMA CaughtIs ==
  ASSUME NEW y \in Seq(Items(Vars)), NEW x \in Items(Vars), A!IsCatcher(x)
  PROVE  Caught(Append(y, x))
<1>1. Append(y, x) \in Seq(Items(Vars))
  BY AppendProperties
<1>2. VarsOnly(VarItems(Vars), Items(Vars))
  BY ItemIs
<1>3. \A w \in Seq(VarItems(Vars)) : A!Abandon(Append(y, x) \o w) = Append(y, x) \o w
  BY <1>2, AbandonCatcher
<1> QED
  BY <1>1, <1>3 DEF Caught

LEMMA CatcherIs ==
  ASSUME NEW tb, NEW a \in Acts, Catches(a), NEW x \in Seq(Items(Vars)),
         tb \in [Id -> Seq(Vars)]
  PROVE  Caught(CatcherOf(tb, a, x))
<1>1. CASE a.op = "pcall"
  BY <1>1, ItemIs, CaughtIs DEF CatcherOf
<1>2. CASE a.op # "pcall"
  <2>1. a.op = "close" /\ tb[a.f] \in Seq(Vars)
    BY <1>2, ActIs DEF Catches
  <2>2. Ground(tb, a, x) \in Seq(Items(Vars)) /\ Goes(tb, a, x) \in Modes
    BY <2>1, GroundIs
  <2>3. A!Handler(Goes(tb, a, x)) \in Items(Vars) /\ A!IsCatcher(A!Handler(Goes(tb, a, x)))
    BY <2>2, ItemIs
  <2>4. Caught(Append(Ground(tb, a, x), A!Handler(Goes(tb, a, x))))
    BY <2>2, <2>3, CaughtIs
  <2> QED
    BY <1>2, <2>4 DEF CatcherOf
<1> QED
  BY <1>1, <1>2

CatcherHas(job, fr, tb, a, n, c) ==
    /\ a.ph = "body" => job = c
    /\ Unwinding(a) => job = c \o Open(fr, tb, a.n, n)
    /\ Failed(a) => job = c \o Open(fr, tb, a.n, a.j)

LEMMA CatcherJob ==
  ASSUME NEW a \in Acts, Catches(a), NEW job, NEW fr, NEW tb, NEW below, NEW n,
         JobForm(job, fr, tb, a, below, n)
  PROVE  CatcherHas(job, fr, tb, a, n, CatcherOf(tb, a, below))
BY DEF CatcherHas, CatcherOf, Catches, JobForm, Unwinding, Failed

CatchesLike(a, b) ==
    /\ b.op = a.op
    /\ a.op = "close" => b.f = a.f /\ b.keep = a.keep /\ b.how = a.how /\ b.e = a.e

LEMMA CatcherSame ==
  ASSUME NEW tb, NEW a, NEW b, Catches(a), CatchesLike(a, b), NEW x
  PROVE  CatcherOf(tb, b, x) = CatcherOf(tb, a, x)
<1>1. CASE a.op = "pcall"
  BY <1>1 DEF CatcherOf, CatchesLike
<1>2. CASE a.op # "pcall"
  <2>1. Ground(tb, b, x) = Ground(tb, a, x) /\ Goes(tb, b, x) = Goes(tb, a, x)
    BY <1>2 DEF Ground, Goes, CatchesLike, Catches
  <2> QED
    BY <1>2, <2>1 DEF CatcherOf, CatchesLike
<1> QED
  BY <1>1, <1>2

LEMMA TopIs ==
  ASSUME NEW h, NEW m, NEW b, NEW h2, Tops(h, m, b, h2)
  PROVE  /\ Len(h2) = m /\ h2[m] = b /\ b \in Acts /\ \A i \in 1..(m - 1) : h2[i] = h[i]
         /\ m <= Len(h2) /\ m \in 1..Len(h2) /\ m \in 0..Len(h2) /\ m \in Nat \ {0}
BY DEF Tops

(* The variables of the frames above i, up to k.                           *)
LEMMA OpenHere ==
  ASSUME NEW h, NEW fr, NEW tb, NEW lev, Config(h, fr, tb, lev), NEW i \in Nat,
         NEW k \in Nat, k <= Len(fr)
  PROVE  /\ Open(fr, tb, i, k) \in Seq(VarItems(Vars))
         /\ \A x \in 1..k : fr[x] \in Id /\ tb[fr[x]] \in Seq(Vars)
<1>1. /\ Len(fr) \in Nat /\ \A x \in 1..Len(fr) : fr[x] \in Id
      /\ tb \in [Id -> Seq(Vars)]
  BY ConfigIs
<1>2. \A x \in 1..k : fr[x] \in Id /\ tb[fr[x]] \in Seq(Vars)
  BY <1>1
<1>3. \A x \in (i + 1)..k : tb[fr[x]] \in Seq(Vars)
  <2>1. \A x \in (i + 1)..k : x \in 1..k
    OBVIOUS
  <2> QED
    BY <1>2, <2>1
<1> QED
  BY <1>2, <1>3, OpenType

CatcherForm(td, h, fr, tb, p, c) ==
    /\ Caught(c) /\ c = CatcherOf(tb, h[p], td[p - 1])
    /\ CatcherHas(td[p], fr, tb, h[p], Up(h, fr, p), c)

LEMMA CatcherDoes ==
  ASSUME NEW h, NEW fr, NEW tb, NEW lev, Config(h, fr, tb, lev), NEW td, Doing(td, h, fr, tb),
         NEW p \in 1..Len(h), Catches(h[p])
  PROVE  CatcherForm(td, h, fr, tb, p, CatcherOf(tb, h[p], td[p - 1]))
<1>1. /\ h[p] \in Acts /\ tb \in [Id -> Seq(Vars)] /\ Len(h) \in Nat
  BY ConfigIs
<1>2. p - 1 \in 0..Len(h)
  BY <1>1
<1>3. td[p - 1] \in Seq(Items(Vars))
      /\ JobForm(td[p], fr, tb, h[p], td[p - 1], Up(h, fr, p))
  BY <1>2, TasksHere
<1>4. Caught(CatcherOf(tb, h[p], td[p - 1]))
  BY <1>1, <1>3, CatcherIs
<1>5. CatcherHas(td[p], fr, tb, h[p], Up(h, fr, p), CatcherOf(tb, h[p], td[p - 1]))
  BY <1>1, <1>3, CatcherJob, Zenon
<1> QED
  BY <1>4, <1>5 DEF CatcherForm

(* One more variable's frame is closed: it is part of the list either way. *)
LEMMA CloseOne ==
  ASSUME NEW c, Caught(c), NEW o \in Seq(VarItems(Vars)), NEW w \in Seq(VarItems(Vars))
  PROVE  /\ A!Abandon((c \o o) \o w) = c \o (o \o w)
         /\ c \o o \in Seq(Items(Vars)) /\ A!Abandon(c \o o) = c \o o
<1>1. c \in Seq(Items(Vars)) /\ o \in Seq(Items(Vars)) /\ w \in Seq(Items(Vars))
      /\ o \o w \in Seq(VarItems(Vars))
  BY ItemsAre, ConcatProperties DEF Caught
<1>2. (c \o o) \o w = c \o (o \o w)
  BY <1>1, ConcatAssociative
<1>3. A!Abandon(c \o (o \o w)) = c \o (o \o w) /\ A!Abandon(c \o o) = c \o o
  BY <1>1 DEF Caught
<1>4. c \o o \in Seq(Items(Vars))
  BY <1>1, ItemsAre
<1> QED
  BY <1>2, <1>3, <1>4, Zenon

-----------------------------------------------------------------------------
(* A frame that an error passed is closed: nothing is left to do for it.   *)
TakesError(c, b, e) ==
    /\ CatchesLike(c, b) /\ b.ph = c.ph /\ b.n = c.n /\ (c.op = "close" => b.j = c.j)
    /\ b.err = e

LEMMA ErrorDoneSteps ==
  ASSUME NEW h, NEW fr, NEW tb, NEW lev, NEW td, NEW h2, NEW td2,
         Moves(h, fr, tb, lev, td, h2, fr, tb, td2),
         h[Len(h)].op = "close", h[Len(h)].ph = "next", h[Len(h)].how = "error",
         Len(tb[h[Len(h)].f]) <= h[Len(h)].keep, Len(h) > 1,
         NEW b, Tops(h, Len(h) - 1, b, h2), TakesError(h[Len(h) - 1], b, h[Len(h)].e)
  PROVE  /\ Owns(h2, fr, tb) /\ td2[Len(h2)] = td[Len(h)]
         /\ ModeFor(h2, tb, td2) = ModeFor(h, tb, td)
<1> DEFINE N == Len(h)
           a == h[N]
           M == N - 1
           g == h[M]
<1>0. /\ Config(h, fr, tb, lev) /\ Doing(td, h, fr, tb) /\ Doing(td2, h2, fr, tb)
      /\ h2 \in Seq(Acts)
  BY DEF Moves
<1>1. N \in Nat \ {0} /\ N \in 1..N /\ N \in 0..N /\ M \in 1..N /\ M \in 0..N
      /\ M \in Nat /\ N > 1 /\ M + 1 = N /\ M # N /\ M - 1 \in 0..N
  BY <1>0, ConfigIs, SMTT(30)
<1>2. /\ a \in Acts /\ g \in Acts /\ lev[M] <= Len(fr) /\ Len(fr) \in Nat
      /\ Fits(h, N, lev, fr) /\ Owns(h, fr, tb) /\ lev[N] <= Len(fr)
      /\ TopFits(h[N], lev[N], fr, tb) /\ tb \in [Id -> Seq(Vars)]
  BY <1>0, <1>1, ConfigIs
<1>3. /\ Len(h2) = M /\ h2[M] = b /\ b \in Acts /\ \A i \in 1..(M - 1) : h2[i] = h[i]
      /\ M <= Len(h2) /\ M \in 1..Len(h2)
  BY TopIs, SMTT(30)
<1>4. (g.op = "pcall" /\ g.ph = "unwind") \/ (g.op = "close" /\ g.ph = "left")
  BY <1>1, <1>2 DEF Fits, Sits
<1>5. /\ CatchesLike(g, b) /\ b.ph = g.ph /\ b.n = g.n /\ (g.op = "close" => b.j = g.j)
      /\ b.err = a.e
  BY DEF TakesError
<1>6. Catches(g) /\ Catches(b) /\ (Unwinding(g) \/ Failed(g)) /\ b.op = g.op
      /\ (Unwinding(g) <=> Unwinding(b)) /\ (Failed(g) <=> Failed(b))
  BY <1>4, <1>5 DEF Catches, CatchesLike, Unwinding, Failed
<1>7. Owns(h2, fr, tb)
  <2>1. Alike(g, b)
    BY <1>4, <1>5 DEF CatchesLike, Alike
  <2> QED
    BY <1>0, <2>1, OwnsTop
<1>8. td2[M - 1] = td[M - 1]
  <2>2. Leaves(h, fr, tb, lev, h2, fr, tb, M, Len(fr))
    BY <1>1, <1>2, <1>3, <1>5, SeenAll, AgreeAll DEF Leaves
  <2> QED
    BY <2>2, Beneath, SMTT(30)
<1>9. PICK c : c = CatcherOf(tb, g, td[M - 1])
  OBVIOUS
<1>10. Caught(c) /\ CatcherHas(td[M], fr, tb, g, Up(h, fr, M), c)
  <2>1. CatcherForm(td, h, fr, tb, M, CatcherOf(tb, h[M], td[M - 1]))
    BY <1>0, <1>1, <1>6, CatcherDoes
  <2> QED
    BY <1>9, <2>1, SMTT(30) DEF CatcherForm
<1>11. CatcherHas(td2[M], fr, tb, b, Up(h2, fr, M), c)
  <2>1. JobForm(td2[M], fr, tb, b, td[M - 1], Up(h2, fr, M))
    <3>2. JobForm(td2[M], fr, tb, h2[M], td2[M - 1], Up(h2, fr, M))
      BY <1>0, <1>3, TasksForm
    <3> QED
      BY <1>3, <1>8, <3>2
  <2>2. CatcherHas(td2[M], fr, tb, b, Up(h2, fr, M), CatcherOf(tb, b, td[M - 1]))
    BY <1>3, <1>6, <2>1, CatcherJob, Zenon
  <2>3. CatcherOf(tb, b, td[M - 1]) = c
    BY <1>5, <1>6, <1>9, CatcherSame
  <2> QED
    BY <2>2, <2>3
<1>12. PICK o : o \in Seq(VarItems(Vars)) /\ td[M] = c \o o /\ td2[M] = c \o o
  <2>1. Up(h, fr, M) = a.n /\ Up(h2, fr, M) = Len(fr) /\ a.n = lev[N] /\ a.n \in Nat
    BY <1>1, <1>2, <1>3, ActIs, Zenon DEF Up, Fits
  <2>2. CASE Unwinding(g)
    <3>1. g.n \in Nat
      BY <1>2, <2>2, ActIs DEF Unwinding
    <3>2. td[M] = c \o Open(fr, tb, g.n, a.n) /\ td2[M] = c \o Open(fr, tb, g.n, Len(fr))
      BY <1>5, <1>6, <1>10, <1>11, <2>1, <2>2 DEF CatcherHas
    <3>3. Open(fr, tb, g.n, a.n) \in Seq(VarItems(Vars))
      BY <1>0, <1>2, <2>1, <3>1, OpenHere
    <3>4. \A k \in (a.n + 1)..Len(fr) : tb[fr[k]] = <<>>
      BY <1>2, <2>1 DEF TopFits
    <3>5. \A k \in 1..a.n : tb[fr[k]] \in Seq(Vars)
      BY <1>0, <1>2, <2>1, <3>1, OpenHere
    <3>6. TailClosed(fr, tb, g.n, a.n, Len(fr))
      BY <1>2, <2>1, <3>1, <3>4, <3>5 DEF TailClosed
    <3>7. Open(fr, tb, g.n, Len(fr)) = Open(fr, tb, g.n, a.n)
      BY <3>6, OpenTail
    <3> QED
      BY <3>2, <3>3, <3>7
  <2>3. CASE Failed(g)
    <3>1. g.n \in Nat /\ g.j \in Nat /\ g.op = "close"
      BY <1>2, <2>3, ActIs DEF Failed
    <3>2. td[M] = c \o Open(fr, tb, g.n, g.j) /\ td2[M] = c \o Open(fr, tb, g.n, g.j)
      BY <1>5, <1>6, <1>10, <1>11, <2>3, <3>1, SMTT(30) DEF CatcherHas
    <3>3. g.j <= Len(fr)
      <4>1. Stands(h, fr, tb, lev) /\ FingerIn(h, fr)
        BY <1>0, ConfigIs
      <4> QED
        BY <1>1, <1>2, <2>3, <4>1, LooksIn
    <3>4. Open(fr, tb, g.n, g.j) \in Seq(VarItems(Vars))
      BY <1>0, <3>1, <3>3, OpenHere
    <3> QED
      BY <3>2, <3>4
  <2> QED
    BY <1>6, <2>2, <2>3, Zenon
<1>13. a.e \in Errs /\ a.e # None /\ a.keep = 0
  BY <1>2, IdIs DEF Fits
<1>14. td[N] = td[M]
  <2>1. CloseForm(td, h, fr, tb, N)
    BY <1>0, <1>1, CloseDoes
  <2>2. VarsIn(tb, a.f) = <<>>
    <3>1. Len(tb[a.f]) = 0 /\ tb[a.f] \in Seq(Vars)
      BY <1>13, <2>1, LenProperties DEF CloseForm
    <3>2. tb[a.f] = <<>>
      BY <3>1, EmptySeq
    <3> QED
      BY <3>1, <3>2, VarsInIs, ZenonT(40)
  <2>3. td[N] = Ground(tb, a, td[M])
    BY <1>1, <2>1 DEF CloseForm
  <2>4. td[N] = A!Abandon(td[M] \o <<>>)
    BY <1>13, <2>2, <2>3 DEF Ground
  <2>5. A!Abandon(c \o o) = c \o o /\ c \o o \in Seq(Items(Vars))
    BY <1>10, <1>12, CloseOne
  <2>6. td[M] \o <<>> = td[M]
    BY <1>12, <2>5, ConcatEmptySeq
  <2> QED
    BY <1>12, <2>4, <2>5, <2>6, SMTT(30)
<1>15. ModeFor(h, tb, td) = A!Raise(a.e)
  BY <1>13 DEF ModeFor, Goes
<1>16. ModeFor(h2, tb, td2) = A!Raise(a.e)
  BY <1>3, <1>4, <1>5, <1>6 DEF ModeFor
<1> QED
  BY <1>3, <1>7, <1>12, <1>14, <1>15, <1>16

-----------------------------------------------------------------------------
(* A frame is popped while a protected call unwinds.                       *)
Drops(fr, fr2, n) ==
    /\ n \in Nat /\ Len(fr) = n + 1 /\ fr2 \in Seq(Id) /\ Len(fr2) = n
    /\ \A k \in 1..n : fr2[k] = fr[k]

LEMMA DropsIs ==
  ASSUME NEW fr \in Seq(Id), fr # <<>>
  PROVE  \E n : Drops(fr, Front(fr), n) /\ Last(fr) = fr[n + 1]
<1>1. /\ Front(fr) \in Seq(Id) /\ Len(fr) \in Nat \ {0} /\ Len(Front(fr)) = Len(fr) - 1
      /\ Front(fr) = SubSeq(fr, 1, Len(fr) - 1)
  BY FrontLast
<1>2. PICK n \in Nat : n = Len(fr) - 1
  BY <1>1
<1>3. n \in 0..Len(fr) /\ Len(fr) = n + 1
  BY <1>1, <1>2
<1>4. \A k \in 1..n : SubSeq(fr, 1, n)[k] = fr[k]
  BY <1>3, PrefixIs
<1>5. Last(fr) = fr[n + 1]
  BY <1>3 DEF Last
<1> QED
  BY <1>1, <1>2, <1>3, <1>4, <1>5 DEF Drops

(* Variables of the innermost frame, to be closed above a catcher.         *)
OneMore(s, t, tb, f) ==
    \E c, o : /\ Caught(c) /\ o \in Seq(VarItems(Vars)) /\ tb[f] \in Seq(Vars)
              /\ s = c \o (o \o VarsIn(tb, f)) /\ t = c \o o

LEMMA OneMoreIs ==
  ASSUME NEW s, NEW t, NEW tb, NEW f, OneMore(s, t, tb, f)
  PROVE  /\ tb[f] = <<>> => s = t
         /\ A!Abandon(t \o VarsIn(tb, f)) = s
<1>1. PICK c, o : /\ Caught(c) /\ o \in Seq(VarItems(Vars)) /\ tb[f] \in Seq(Vars)
                  /\ s = c \o (o \o VarsIn(tb, f)) /\ t = c \o o
  BY DEF OneMore
<1>2. VarsIn(tb, f) \in Seq(VarItems(Vars)) /\ (tb[f] = <<>> => VarsIn(tb, f) = <<>>)
  BY <1>1, VarsInIs
<1>3. o \o <<>> = o
  BY <1>1, ConcatEmptySeq
<1>4. \A w \in Seq(VarItems(Vars)) : A!Abandon((c \o o) \o w) = c \o (o \o w)
  BY <1>1, CloseOne
<1> QED
  BY <1>1, <1>2, <1>3, <1>4

LEMMA UnwindLeaves ==
  ASSUME NEW h, NEW fr, NEW tb, NEW lev, NEW td, NEW h2, NEW fr2, NEW td2,
         Moves(h, fr, tb, lev, td, h2, fr2, tb, td2),
         NEW n, Drops(fr, fr2, n), Unwinding(h[Len(h)]), h[Len(h)].n <= n,
         Len(h) <= Len(h2), \A i \in 1..Len(h) : h2[i] = h[i], Up(h2, fr2, Len(h)) = n
  PROVE  OneMore(td[Len(h)], td2[Len(h)], tb, fr[n + 1])
<1> DEFINE N == Len(h)
           a == h[N]
<1>0. /\ Config(h, fr, tb, lev) /\ Doing(td, h, fr, tb) /\ Doing(td2, h2, fr2, tb)
      /\ h2 \in Seq(Acts)
  BY DEF Moves
<1>1. N \in Nat \ {0} /\ N \in 1..N /\ N \in 0..N /\ N \in 1..Len(h2) /\ N - 1 \in 0..N
  <2>1. N \in Nat \ {0} /\ Len(h2) \in Nat
    BY <1>0, ConfigIs, LenProperties
  <2> QED
    BY <2>1
<1>2. /\ a \in Acts /\ Fits(h, N, lev, fr) /\ tb \in [Id -> Seq(Vars)]
      /\ td[N - 1] \in Seq(Items(Vars))
  BY <1>0, <1>1, ConfigIs, TasksHere
<1>3. a.op = "pcall" /\ a.ph = "unwind" /\ a.n \in Nat /\ a.n = lev[N] /\ a.n <= n
      /\ Catches(a)
  BY <1>2, ActIs DEF Fits, Unwinding, Catches
<1>4. /\ n \in Nat /\ Len(fr) = n + 1 /\ fr2 \in Seq(Id) /\ Len(fr2) = n
      /\ \A k \in 1..n : fr2[k] = fr[k]
  BY DEF Drops
<1>5. td2[N - 1] = td[N - 1]
  <2>1. Agree(fr, fr2, n)
    BY <1>4 DEF Agree
  <2>2. \A i \in 1..(N - 1) : h2[i] = h[i]
    <3>1. \A i \in 1..(N - 1) : i \in 1..N
      BY <1>1
    <3> QED
      BY <3>1
  <2>3. Leaves(h, fr, tb, lev, h2, fr2, tb, N, n)
    BY <1>1, <1>3, <1>4, <2>1, <2>2, SeenAll DEF Leaves
  <2> QED
    BY <2>3, Beneath
<1>6. PICK c : c = CatcherOf(tb, a, td[N - 1])
  OBVIOUS
<1>7. Caught(c) /\ td[N] = c \o Open(fr, tb, a.n, n + 1)
  <2>1. CatcherForm(td, h, fr, tb, N, CatcherOf(tb, h[N], td[N - 1]))
    BY <1>0, <1>1, <1>3, CatcherDoes
  <2>2. Up(h, fr, N) = n + 1
    BY <1>4 DEF Up
  <2> QED
    BY <1>6, <2>1, <2>2 DEF CatcherForm, CatcherHas
<1>8. td2[N] = c \o Open(fr2, tb, a.n, n)
  <2>1. JobForm(td2[N], fr2, tb, h2[N], td2[N - 1], Up(h2, fr2, N))
    BY <1>0, <1>1, TasksForm
  <2>2. JobForm(td2[N], fr2, tb, a, td[N - 1], n)
    BY <1>1, <1>5, <2>1
  <2>3. CatcherHas(td2[N], fr2, tb, a, n, CatcherOf(tb, a, td[N - 1]))
    BY <1>2, <1>3, <2>2, CatcherJob, Zenon
  <2> QED
    BY <1>6, <2>3 DEF CatcherHas
<1>9. Open(fr2, tb, a.n, n) = Open(fr, tb, a.n, n)
  <2>1. \A k \in (a.n + 1)..n : k \in 1..n
    BY <1>3, <1>4
  <2>2. SameFrames(fr, tb, fr2, tb, a.n, n)
    BY <1>4, <2>1 DEF SameFrames
  <2> QED
    BY <1>3, <1>4, <2>2, OpenSame
<1>10. Open(fr, tb, a.n, n + 1) = Open(fr, tb, a.n, n) \o VarsIn(tb, fr[n + 1])
  BY <1>3, <1>4, OpenMore
<1>11. Open(fr, tb, a.n, n) \in Seq(VarItems(Vars)) /\ tb[fr[n + 1]] \in Seq(Vars)
  <2>1. n <= Len(fr) /\ n + 1 \in Nat /\ n + 1 <= Len(fr) /\ n + 1 \in 1..(n + 1)
    BY <1>4
  <2>2. Open(fr, tb, a.n, n) \in Seq(VarItems(Vars))
    BY <1>0, <1>3, <1>4, <2>1, OpenHere
  <2>3. \A x \in 1..(n + 1) : tb[fr[x]] \in Seq(Vars)
    BY <1>0, <1>3, <2>1, OpenHere
  <2> QED
    BY <2>1, <2>2, <2>3
<1> QED
  BY <1>7, <1>8, <1>9, <1>10, <1>11 DEF OneMore

(* It has no variables left, or they are closed first.                     *)
LEMMA UnwindSteps ==
  ASSUME NEW h, NEW fr, NEW tb, NEW lev, NEW td, NEW fr2, NEW td2,
         Moves(h, fr, tb, lev, td, h, fr2, tb, td2),
         NEW n, Drops(fr, fr2, n), Unwinding(h[Len(h)]), h[Len(h)].n <= n,
         tb[fr[n + 1]] = <<>>
  PROVE  /\ Owns(h, fr2, tb) /\ td2[Len(h)] = td[Len(h)]
         /\ ModeFor(h, tb, td2) = ModeFor(h, tb, td)
<1> DEFINE N == Len(h)
<1>0. Config(h, fr, tb, lev)
  BY DEF Moves
<1>1. N \in Nat \ {0} /\ N \in 1..N /\ h \in Seq(Acts) /\ N <= N /\ h[N] \in Acts
  <2>1. N \in Nat \ {0} /\ h \in Seq(Acts) /\ \A i \in 1..N : h[i] \in Acts
    BY <1>0, ConfigIs
  <2> QED
    BY <2>1
<1>2. /\ n \in Nat /\ Len(fr) = n + 1 /\ Len(fr2) = n /\ \A k \in 1..n : fr2[k] = fr[k]
  BY DEF Drops
<1>3. Owns(h, fr2, tb)
  <2>1. Alike(h[N], h[N])
    BY DEF Alike
  <2>2. Tops(h, N, h[N], h)
    BY <1>1 DEF Tops
  <2>3. \A f : OnFrames(fr2, f) => OnFrames(fr, f)
    BY <1>2 DEF OnFrames
  <2> QED
    BY <1>0, <2>1, <2>2, <2>3, OwnsTop
<1>4. OneMore(td[N], td2[N], tb, fr[n + 1])
  <2>1. Up(h, fr2, N) = n
    BY <1>2 DEF Up
  <2> QED
    BY <1>1, <2>1, UnwindLeaves
<1>5. td2[N] = td[N]
  BY <1>4, OneMoreIs
<1>6. ModeFor(h, tb, td2) = ModeFor(h, tb, td)
  BY DEF ModeFor, Unwinding
<1> QED
  BY <1>3, <1>5, <1>6

ClosesFrame(a, f, e) ==
    /\ a \in Acts /\ a.op = "close" /\ a.ph = "next" /\ a.how = "error" /\ a.keep = 0
    /\ a.f = f /\ a.e = e /\ e \in Errs

IsClosing(td, h, fr, tb, p, f, e, s) ==
    /\ Doing(td, h, fr, tb) /\ h \in Seq(Acts) /\ p \in 1..Len(h)
    /\ ClosesFrame(h[p], f, e) /\ OneMore(s, td[p - 1], tb, f)

LEMMA ClosesFrameDoes ==
  ASSUME NEW td, NEW h, NEW fr, NEW tb, NEW p, NEW f, NEW e, NEW s,
         IsClosing(td, h, fr, tb, p, f, e, s)
  PROVE  td[p] = s /\ Goes(tb, h[p], td[p - 1]) = A!Raise(e)
<1>0. /\ Doing(td, h, fr, tb) /\ h \in Seq(Acts) /\ p \in 1..Len(h)
      /\ ClosesFrame(h[p], f, e) /\ OneMore(s, td[p - 1], tb, f)
  BY DEF IsClosing
<1>1. JobForm(td[p], fr, tb, h[p], td[p - 1], Up(h, fr, p))
  BY <1>0, TasksForm
<1>2. e # None
  BY <1>0, IdIs DEF ClosesFrame
<1>3. td[p] = Ground(tb, h[p], td[p - 1])
  BY <1>0, <1>1 DEF JobForm, ClosesFrame
<1>4. td[p] = A!Abandon(td[p - 1] \o VarsIn(tb, f))
  BY <1>0, <1>2, <1>3 DEF Ground, ClosesFrame
<1>5. Goes(tb, h[p], td[p - 1]) = A!Raise(e)
  BY <1>0, <1>2 DEF Goes, ClosesFrame
<1> QED
  BY <1>0, <1>4, <1>5, OneMoreIs

LEMMA UnwindCloses ==
  ASSUME NEW h, NEW fr, NEW tb, NEW lev, NEW td, NEW h2, NEW fr2, NEW td2,
         Moves(h, fr, tb, lev, td, h2, fr2, tb, td2),
         NEW n, Drops(fr, fr2, n), Unwinding(h[Len(h)]), h[Len(h)].n <= n,
         NEW a, ClosesFrame(a, fr[n + 1], h[Len(h)].err), a.n = n, Grows(h, a, h2)
  PROVE  /\ Owns(h2, fr2, tb) /\ td2[Len(h2)] = td[Len(h)]
         /\ ModeFor(h2, tb, td2) = ModeFor(h, tb, td)
<1> DEFINE N == Len(h)
<1>0. /\ Config(h, fr, tb, lev) /\ Doing(td2, h2, fr2, tb) /\ h2 \in Seq(Acts)
  BY DEF Moves
<1>1. /\ N \in Nat \ {0} /\ N \in 1..N /\ N <= N + 1 /\ h \in Seq(Acts)
      /\ Stands(h, fr, tb, lev) /\ Owns(h, fr, tb) /\ Distinct(fr)
      /\ \A i \in 1..N : h[i] \in Acts /\ Fits(h, i, lev, fr)
      /\ \A i \in 1..N : lev[i] \in Nat /\ lev[i] <= lev[N]
  <2>1. N \in Nat \ {0}
    BY <1>0, ConfigIs
  <2>2. \A i \in 1..N : i \in 0..N
    BY <2>1
  <2> QED
    BY <1>0, <2>1, <2>2, ConfigIs
<1>2. /\ n \in Nat /\ Len(fr) = n + 1 /\ Len(fr2) = n /\ \A k \in 1..n : fr2[k] = fr[k]
  BY DEF Drops
<1>3. /\ a \in Acts /\ a.op = "close" /\ a.ph = "next" /\ a.how = "error" /\ a.keep = 0
      /\ a.f = fr[n + 1]
  BY DEF ClosesFrame
<1>4. /\ Len(h2) = N + 1 /\ h2[N + 1] = a /\ \A i \in 1..N : h2[i] = h[i]
  BY <1>1, <1>3, AppendProperties DEF Grows
<1>5. h[N].op = "pcall" /\ h[N].ph = "unwind" /\ lev[N] = h[N].n /\ lev[N] <= n
  BY <1>1 DEF Unwinding, Fits
<1>6. Owns(h, fr2, tb)
  <2>1. Alike(h[N], h[N])
    BY DEF Alike
  <2>2. Tops(h, N, h[N], h)
    BY <1>1 DEF Tops
  <2>3. \A f : OnFrames(fr2, f) => OnFrames(fr, f)
    BY <1>2 DEF OnFrames
  <2> QED
    BY <1>0, <2>1, <2>2, <2>3, OwnsTop
<1>7. OnFrames(fr, a.f)
  <2>1. n + 1 \in 1..Len(fr)
    BY <1>2
  <2> QED
    BY <1>3, <2>1 DEF OnFrames
<1>8. \A k \in 1..n : fr[k] # a.f
  <2>1. \A k \in 1..n : k \in 1..Len(fr) /\ n + 1 \in 1..Len(fr) /\ k # n + 1
    BY <1>2
  <2> QED
    BY <1>1, <1>3, <2>1 DEF Distinct
<1>9. ASSUME NEW i \in 1..N, h[i].op # "pcall" PROVE h[i].f # a.f
  <2>1. CASE Popped(h, i)
    BY <1>1, <1>7, <2>1 DEF Owns, OwnsAt, ApartOf
  <2>2. CASE ~Popped(h, i)
    <3>1. \E k \in 1..lev[i] : fr[k] = h[i].f
      BY <1>1, <1>9, <2>2, WhereIs
    <3>2. \A k \in 1..lev[i] : k \in 1..n
      BY <1>1, <1>2, <1>5
    <3> QED
      BY <1>8, <3>1, <3>2
  <2> QED
    BY <2>1, <2>2
<1>10. Owns(h2, fr2, tb)
  <2>1. ~OnFrames(fr2, a.f)
    BY <1>2, <1>8 DEF OnFrames
  <2>2. ~Failed(h[N])
    BY <1>5 DEF Failed
  <2>3. \A i \in 1..N : Popped(h, i) => h[i].op # "pcall"
    BY DEF Popped
  <2>4. a.keep <= Len(tb[a.f])
    <3>1. tb[a.f] \in Seq(Vars)
      BY <1>0, <1>3, ActIs, ConfigIs
    <3> QED
      BY <1>3, <3>1, LenProperties
  <2>5. NewOn(h, fr2, tb, a)
    BY <1>9, <2>1, <2>2, <2>3, <2>4 DEF NewOn
  <2> QED
    BY <1>1, <1>3, <1>6, <2>5, OwnsPush DEF Grows
<1>11. OneMore(td[N], td2[N], tb, fr[n + 1])
  <2>1. Up(h2, fr2, N) = n
    BY <1>1, <1>4 DEF Up
  <2>2. N <= Len(h2)
    BY <1>1, <1>4
  <2> QED
    BY <1>4, <2>1, <2>2, UnwindLeaves
<1>12. N + 1 \in 1..Len(h2) /\ (N + 1) - 1 = N
  BY <1>1, <1>4
<1>13. td2[N + 1] = td[N] /\ Goes(tb, h2[N + 1], td2[N]) = A!Raise(h[N].err)
  <2>1. ClosesFrame(h2[N + 1], fr[n + 1], h[N].err)
    BY <1>4
  <2>2. OneMore(td[N], td2[(N + 1) - 1], tb, fr[n + 1])
    BY <1>11, <1>12
  <2>4. IsClosing(td2, h2, fr2, tb, N + 1, fr[n + 1], h[N].err, td[N])
    BY <1>0, <1>12, <2>1, <2>2 DEF IsClosing
  <2>3. td2[N + 1] = td[N] /\ Goes(tb, h2[N + 1], td2[(N + 1) - 1]) = A!Raise(h[N].err)
    BY <2>4, ClosesFrameDoes
  <2> QED
    BY <1>12, <2>3
<1>14. ModeFor(h, tb, td) = A!Raise(h[N].err)
  BY <1>5 DEF ModeFor
<1>15. ModeFor(h2, tb, td2) = A!Raise(h[N].err)
  BY <1>3, <1>4, <1>12, <1>13 DEF ModeFor
<1> QED
  BY <1>4, <1>10, <1>13, <1>14, <1>15

-----------------------------------------------------------------------------
(* A failed handler's frames: the finger moves down by one.                *)
FingerDown(a, b, n) ==
    /\ Failed(a) /\ b \in Acts /\ CatchesLike(a, b) /\ b.ph = "left" /\ b.n = a.n
    /\ n \in Nat /\ a.j = n + 1 /\ a.n <= n /\ b.j = n /\ b.err = a.err

LEMMA LeftLeaves ==
  ASSUME NEW h, NEW fr, NEW tb, NEW lev, NEW td, NEW h2, NEW td2,
         Moves(h, fr, tb, lev, td, h2, fr, tb, td2),
         NEW b, NEW n, FingerDown(h[Len(h)], b, n),
         Len(h) <= Len(h2), \A i \in 1..(Len(h) - 1) : h2[i] = h[i], h2[Len(h)] = b
  PROVE  OneMore(td[Len(h)], td2[Len(h)], tb, fr[n + 1])
<1> DEFINE N == Len(h)
           a == h[N]
<1>0. /\ Config(h, fr, tb, lev) /\ Doing(td, h, fr, tb) /\ Doing(td2, h2, fr, tb)
      /\ h2 \in Seq(Acts)
  BY DEF Moves
<1>1. N \in Nat \ {0} /\ N \in 1..N /\ N \in 0..N /\ N \in 1..Len(h2) /\ N - 1 \in 0..N
  <2>1. N \in Nat \ {0} /\ Len(h2) \in Nat
    BY <1>0, ConfigIs, LenProperties
  <2> QED
    BY <2>1
<1>2. /\ a \in Acts /\ Fits(h, N, lev, fr) /\ tb \in [Id -> Seq(Vars)]
      /\ Len(fr) \in Nat /\ lev[N] <= Len(fr) /\ TopFits(a, lev[N], fr, tb)
  BY <1>0, <1>1, ConfigIs
<1>3. /\ b \in Acts /\ CatchesLike(a, b) /\ b.ph = "left" /\ b.n = a.n
      /\ n \in Nat /\ a.j = n + 1 /\ a.n <= n /\ b.j = n
      /\ a.op = "close" /\ a.ph = "left" /\ b.op = "close"
      /\ Catches(a) /\ Catches(b) /\ Failed(a) /\ Failed(b)
  BY DEF FingerDown, Failed, Catches, CatchesLike
<1>4. a.n \in Nat /\ n + 1 <= Len(fr) /\ n <= Len(fr) /\ n + 1 \in Nat /\ n + 1 \in 1..(n + 1)
  <2>1. a.n \in Nat /\ n + 1 <= Len(fr)
    BY <1>2, <1>3, ActIs DEF TopFits
  <2> QED
    BY <1>2, <1>3, <2>1
<1>5. td2[N - 1] = td[N - 1]
  <2>1. Leaves(h, fr, tb, lev, h2, fr, tb, N, Len(fr))
    BY <1>1, <1>2, <1>3, AgreeAll, SeenAll DEF Leaves
  <2> QED
    BY <2>1, Beneath
<1>6. PICK c : c = CatcherOf(tb, a, td[N - 1])
  OBVIOUS
<1>7. Caught(c) /\ td[N] = c \o Open(fr, tb, a.n, n + 1)
  <2>1. CatcherForm(td, h, fr, tb, N, CatcherOf(tb, h[N], td[N - 1]))
    BY <1>0, <1>1, <1>3, CatcherDoes
  <2> QED
    BY <1>3, <1>6, <2>1 DEF CatcherForm, CatcherHas
<1>8. td2[N] = c \o Open(fr, tb, a.n, n)
  <2>1. JobForm(td2[N], fr, tb, h2[N], td2[N - 1], Up(h2, fr, N))
    BY <1>0, <1>1, TasksForm
  <2>2. JobForm(td2[N], fr, tb, b, td[N - 1], Up(h2, fr, N))
    BY <1>1, <1>5, <2>1
  <2>3. CatcherHas(td2[N], fr, tb, b, Up(h2, fr, N), CatcherOf(tb, b, td[N - 1]))
    BY <1>3, <2>2, CatcherJob, Zenon
  <2>4. CatcherOf(tb, b, td[N - 1]) = c
    BY <1>3, <1>6, CatcherSame
  <2> QED
    BY <1>3, <2>3, <2>4 DEF CatcherHas
<1>9. Open(fr, tb, a.n, n + 1) = Open(fr, tb, a.n, n) \o VarsIn(tb, fr[n + 1])
  <2>1. \A i, k \in Nat : i <= k =>
           Open(fr, tb, i, k + 1) = Open(fr, tb, i, k) \o VarsIn(tb, fr[k + 1])
    BY OpenMore
  <2>2. a.n \in Nat /\ n \in Nat /\ a.n <= n
    BY <1>3, <1>4
  <2> QED
    BY <2>1, <2>2
<1>10. Open(fr, tb, a.n, n) \in Seq(VarItems(Vars)) /\ tb[fr[n + 1]] \in Seq(Vars)
  <2>1. Open(fr, tb, a.n, n) \in Seq(VarItems(Vars))
    BY <1>0, <1>3, <1>4, OpenHere
  <2>2. \A x \in 1..(n + 1) : tb[fr[x]] \in Seq(Vars)
    BY <1>0, <1>4, OpenHere
  <2> QED
    BY <1>4, <2>1, <2>2
<1> QED
  BY <1>7, <1>8, <1>9, <1>10 DEF OneMore

LEMMA LeftNextSteps ==
  ASSUME NEW h, NEW fr, NEW tb, NEW lev, NEW td, NEW h2, NEW td2,
         Moves(h, fr, tb, lev, td, h2, fr, tb, td2),
         NEW b, NEW n, FingerDown(h[Len(h)], b, n), Tops(h, Len(h), b, h2),
         tb[fr[n + 1]] = <<>>
  PROVE  /\ Owns(h2, fr, tb) /\ td2[Len(h2)] = td[Len(h)]
         /\ ModeFor(h2, tb, td2) = ModeFor(h, tb, td)
<1>0. Config(h, fr, tb, lev)
  BY DEF Moves
<1>1. /\ Failed(h[Len(h)]) /\ CatchesLike(h[Len(h)], b) /\ b.ph = "left"
      /\ b.err = h[Len(h)].err
  BY DEF FingerDown
<1>2. Owns(h2, fr, tb)
  <2>1. Alike(h[Len(h)], b)
    BY <1>1 DEF Alike, CatchesLike, Failed
  <2> QED
    BY <1>0, <2>1, OwnsTop
<1>3. /\ Len(h2) = Len(h) /\ h2[Len(h)] = b /\ Len(h) <= Len(h2)
      /\ \A i \in 1..(Len(h) - 1) : h2[i] = h[i]
  BY TopIs
<1>4. OneMore(td[Len(h)], td2[Len(h)], tb, fr[n + 1])
  BY <1>3, LeftLeaves
<1>5. td2[Len(h2)] = td[Len(h)]
  BY <1>3, <1>4, OneMoreIs
<1>6. ModeFor(h2, tb, td2) = ModeFor(h, tb, td)
  BY <1>1, <1>3 DEF ModeFor, CatchesLike, Failed
<1> QED
  BY <1>2, <1>5, <1>6

(* ... and that frame has variables to close.                              *)
LeftCloses(h, fr, b, n, a, h2) ==
    /\ FingerDown(h[Len(h)], b, n) /\ ClosesFrame(a, fr[n + 1], h[Len(h)].err)
    /\ \E h1 : Tops(h, Len(h), b, h1) /\ Grows(h1, a, h2)

LEMMA LeftNextCloses ==
  ASSUME NEW h, NEW fr, NEW tb, NEW lev, NEW td, NEW h2, NEW td2,
         Moves(h, fr, tb, lev, td, h2, fr, tb, td2),
         NEW b, NEW n, NEW a, LeftCloses(h, fr, b, n, a, h2)
  PROVE  /\ Owns(h2, fr, tb) /\ td2[Len(h2)] = td[Len(h)]
         /\ ModeFor(h2, tb, td2) = ModeFor(h, tb, td)
<1> SUFFICES ASSUME NEW h1, FingerDown(h[Len(h)], b, n), Tops(h, Len(h), b, h1),
                    ClosesFrame(a, fr[n + 1], h[Len(h)].err), Grows(h1, a, h2)
             PROVE  /\ Owns(h2, fr, tb) /\ td2[Len(h2)] = td[Len(h)]
                    /\ ModeFor(h2, tb, td2) = ModeFor(h, tb, td)
  BY DEF LeftCloses
<1> DEFINE N == Len(h)
<1>0. /\ Config(h, fr, tb, lev) /\ Doing(td2, h2, fr, tb) /\ h2 \in Seq(Acts)
  BY DEF Moves
<1>1. /\ N \in Nat \ {0} /\ N \in 1..N /\ h[N] \in Acts /\ Len(fr) \in Nat
      /\ TopFits(h[N], lev[N], fr, tb)
  <2>1. N \in Nat \ {0}
    BY <1>0, ConfigIs
  <2>2. N \in 1..N
    BY <2>1
  <2> QED
    BY <1>0, <2>1, <2>2, ConfigIs
<1>2. /\ Failed(h[N]) /\ CatchesLike(h[N], b) /\ b.ph = "left" /\ b.op = "close"
      /\ b.err = h[N].err /\ b.n <= b.j /\ n + 1 = h[N].j /\ n \in Nat
  BY DEF FingerDown, CatchesLike, Failed
<1>3. /\ a \in Acts /\ a.op = "close" /\ a.ph = "next" /\ a.how = "error" /\ a.keep = 0
      /\ a.f = fr[n + 1]
  BY DEF ClosesFrame
<1>4. /\ Len(h1) = N /\ h1[N] = b /\ h1 \in Seq(Acts) /\ \A i \in 1..(N - 1) : h1[i] = h[i]
  BY DEF Tops
<1>5. /\ Len(h2) = N + 1 /\ h2[N + 1] = a /\ h2[N] = b /\ \A i \in 1..(N - 1) : h2[i] = h[i]
  <2>1. /\ Len(h2) = Len(h1) + 1 /\ h2[Len(h1) + 1] = a /\ \A i \in 1..Len(h1) : h2[i] = h1[i]
    BY <1>3, <1>4, AppendProperties DEF Grows
  <2>2. \A i \in 1..(N - 1) : i \in 1..N
    BY <1>1
  <2> QED
    BY <1>1, <1>4, <2>1, <2>2
<1>6. Owns(h1, fr, tb)
  <2>1. Alike(h[N], b)
    BY <1>2 DEF Alike, CatchesLike, Failed
  <2> QED
    BY <1>0, <2>1, OwnsTop
<1>7. Owns(h2, fr, tb)
  <2>1. OnFrames(fr, a.f)
    <3>1. n + 1 \in 1..Len(fr)
      BY <1>1, <1>2 DEF TopFits, Failed
    <3> QED
      BY <1>3, <3>1 DEF OnFrames
  <2>2. ASSUME NEW i \in 1..Len(h1), Popped(h1, i) PROVE h1[i].f # a.f
    BY <1>6, <2>1, <2>2 DEF Owns, OwnsAt, ApartOf
  <2>3. a.keep <= Len(tb[a.f])
    <3>1. tb[a.f] \in Seq(Vars)
      BY <1>0, <1>3, ActIs, ConfigIs
    <3> QED
      BY <1>3, <3>1, LenProperties
  <2>4. NewOn(h1, fr, tb, a)
    BY <1>2, <1>4, <2>2, <2>3 DEF NewOn
  <2> QED
    BY <1>3, <1>4, <1>6, <2>4, OwnsPush DEF Grows
<1>8. OneMore(td[N], td2[N], tb, fr[n + 1])
  <2>1. N <= Len(h2)
    BY <1>1, <1>5
  <2> QED
    BY <1>5, <2>1, LeftLeaves
<1>9. N + 1 \in 1..Len(h2) /\ (N + 1) - 1 = N
  BY <1>1, <1>5
<1>10. td2[N + 1] = td[N] /\ Goes(tb, h2[N + 1], td2[N]) = A!Raise(h[N].err)
  <2>1. ClosesFrame(h2[N + 1], fr[n + 1], h[N].err)
    BY <1>5
  <2>2. OneMore(td[N], td2[(N + 1) - 1], tb, fr[n + 1])
    BY <1>8, <1>9
  <2>3. IsClosing(td2, h2, fr, tb, N + 1, fr[n + 1], h[N].err, td[N])
    BY <1>0, <1>9, <2>1, <2>2 DEF IsClosing
  <2>4. td2[N + 1] = td[N] /\ Goes(tb, h2[N + 1], td2[(N + 1) - 1]) = A!Raise(h[N].err)
    BY <2>3, ClosesFrameDoes
  <2> QED
    BY <1>9, <2>4
<1>11. ModeFor(h, tb, td) = A!Raise(h[N].err)
  BY <1>2 DEF ModeFor, Failed
<1>12. ModeFor(h2, tb, td2) = A!Raise(h[N].err)
  BY <1>3, <1>5, <1>9, <1>10 DEF ModeFor
<1> QED
  BY <1>5, <1>7, <1>10, <1>11, <1>12

-----------------------------------------------------------------------------
(* An error is caught.                                                     *)
Catcher(a, b, e, n) ==
    /\ Catches(a) /\ a.ph = "body" /\ CatchesLike(a, b) /\ b.n = a.n /\ b.err = e
    /\ IF a.op = "pcall" THEN b.ph = "unwind" ELSE b.ph = "left" /\ b.j = n

(* An error that leaves activation u stops at activation i.                *)
Stops(h, fr, tb, lev, u, i, b, e, h2) ==
    /\ u \in 1..Len(h) /\ i \in 1..u /\ \A k \in (i + 1)..u : h[k].op = "lua"
    /\ Tops(h, i, b, h2) /\ Catcher(h[i], b, e, Len(fr))
    /\ \A k \in (lev[u] + 1)..Len(fr) : tb[fr[k]] = <<>>

LEMMA ThrowLeaves ==
  ASSUME NEW h, NEW fr, NEW tb, NEW lev, NEW td, NEW h2, NEW td2,
         Moves(h, fr, tb, lev, td, h2, fr, tb, td2),
         NEW u, NEW i, NEW b, NEW e, Stops(h, fr, tb, lev, u, i, b, e, h2)
  PROVE  /\ Owns(h2, fr, tb) /\ td2[Len(h2)] = A!Abandon(td[u])
         /\ ModeFor(h2, tb, td2) = A!Raise(e)
<1> DEFINE N == Len(h)
           a == h[i]
<1>0. /\ Config(h, fr, tb, lev) /\ Doing(td, h, fr, tb) /\ Doing(td2, h2, fr, tb)
      /\ h2 \in Seq(Acts)
      /\ u \in 1..Len(h) /\ i \in 1..u /\ \A k \in (i + 1)..u : h[k].op = "lua"
      /\ Tops(h, i, b, h2) /\ Catcher(h[i], b, e, Len(fr))
      /\ \A k \in (lev[u] + 1)..Len(fr) : tb[fr[k]] = <<>>
  BY DEF Moves, Stops
<1>1. /\ N \in Nat \ {0} /\ i \in 1..N /\ i \in 0..N /\ u \in 0..N /\ u \in i..N
      /\ i - 1 \in 0..N
  <2>1. N \in Nat \ {0}
    BY <1>0, ConfigIs
  <2> QED
    BY <1>0, <2>1
<1>2. /\ a \in Acts /\ Fits(h, i, lev, fr) /\ tb \in [Id -> Seq(Vars)]
      /\ Len(fr) \in Nat /\ lev[i] \in Nat /\ lev[i] <= Len(fr)
      /\ lev[u] \in Nat /\ lev[u] <= Len(fr) /\ Stands(h, fr, tb, lev)
      /\ AllHave(h, fr, tb, Vars)
  BY <1>0, <1>1, ConfigIs
<1>3. /\ Len(h2) = i /\ h2[i] = b /\ b \in Acts /\ \A k \in 1..(i - 1) : h2[k] = h[k]
      /\ i <= Len(h2) /\ i \in 1..Len(h2)
  BY <1>0, <1>1, TopIs
<1>4. /\ Catches(a) /\ a.ph = "body" /\ CatchesLike(a, b) /\ b.n = a.n /\ b.err = e
      /\ (a.op = "pcall" => b.ph = "unwind" /\ Unwinding(b))
      /\ (a.op # "pcall" => b.ph = "left" /\ b.j = Len(fr) /\ Failed(b))
      /\ Catches(b) /\ a.op # "lua" /\ b.op # "lua" /\ b.ph # "next"
  BY <1>0 DEF Catcher, Catches, CatchesLike, Unwinding, Failed
<1>5. lev[i] = a.n
  BY <1>2, <1>4 DEF Fits
<1>6. Owns(h2, fr, tb)
  <2>1. Alike(a, b)
    BY <1>4 DEF Alike, CatchesLike, Catches
  <2> QED
    BY <1>0, <1>1, <2>1, OwnsTop
<1>7. td2[i - 1] = td[i - 1]
  <2>1. Leaves(h, fr, tb, lev, h2, fr, tb, i, Len(fr))
    BY <1>1, <1>2, <1>3, <1>4, AgreeAll, SeenAll DEF Leaves
  <2> QED
    BY <1>0, <1>1, <2>1, Beneath
<1>8. PICK c : c = CatcherOf(tb, a, td[i - 1])
  OBVIOUS
<1>9. Caught(c) /\ td[i] = c
  <2>1. CatcherForm(td, h, fr, tb, i, CatcherOf(tb, h[i], td[i - 1]))
    BY <1>0, <1>1, <1>4, CatcherDoes
  <2> QED
    BY <1>4, <1>8, <2>1 DEF CatcherForm, CatcherHas
<1>10. A!Abandon(td[i]) = td[i]
  <2>1. <<>> \in Seq(VarItems(Vars))
    OBVIOUS
  <2>2. A!Abandon(c \o <<>>) = c \o <<>> /\ c \in Seq(Items(Vars))
    BY <1>9, <2>1 DEF Caught
  <2>3. c \o <<>> = c
    BY <2>2, ConcatEmptySeq
  <2> QED
    BY <1>9, <2>2, <2>3
<1>11. A!Abandon(td[u]) = td[i] \o Open(fr, tb, lev[i], lev[u])
  <2>1. \A k \in 0..Len(h) : td[k] \in Seq(Items(Vars))
    BY <1>0, TasksHere
  <2>2. RunsTo(td, fr, tb, lev, Vars, i, u)
    BY <1>0, <1>1, <1>2, <1>10, <2>1, AbandonRun
  <2> QED
    BY <2>2 DEF RunsTo
<1>12. td2[i] = c \o Open(fr, tb, lev[i], Len(fr))
  <2>1. JobForm(td2[i], fr, tb, h2[i], td2[i - 1], Up(h2, fr, i))
    BY <1>0, <1>3, TasksForm
  <2>2. JobForm(td2[i], fr, tb, b, td[i - 1], Up(h2, fr, i))
    BY <1>3, <1>7, <2>1
  <2>3. CatcherHas(td2[i], fr, tb, b, Up(h2, fr, i), CatcherOf(tb, b, td[i - 1]))
    BY <1>3, <1>4, <2>2, CatcherJob, Zenon
  <2>4. CatcherOf(tb, b, td[i - 1]) = c
    BY <1>4, <1>8, CatcherSame
  <2>5. Up(h2, fr, i) = Len(fr)
    BY <1>3 DEF Up
  <2> QED
    BY <1>4, <1>5, <2>3, <2>4, <2>5 DEF CatcherHas
<1>13. Open(fr, tb, lev[i], Len(fr)) = Open(fr, tb, lev[i], lev[u])
  <2>1. \A k \in 1..lev[u] : tb[fr[k]] \in Seq(Vars)
    BY <1>0, <1>2, OpenHere
  <2>2. TailClosed(fr, tb, lev[i], lev[u], Len(fr))
    BY <1>0, <1>2, <2>1 DEF TailClosed
  <2> QED
    BY <2>2, OpenTail
<1>14. ModeFor(h2, tb, td2) = A!Raise(e)
  BY <1>3, <1>4 DEF ModeFor
<1> QED
  BY <1>3, <1>6, <1>9, <1>11, <1>12, <1>13, <1>14

(* ... thrown by a function, under a pcall.                                *)
RaisedAt(h, fr, i, b, e, h2) ==
    /\ h[Len(h)].op = "lua" /\ i \in 1..Len(h) /\ \A k \in (i + 1)..Len(h) : h[k].op = "lua"
    /\ Tops(h, i, b, h2) /\ Catcher(h[i], b, e, Len(fr))
    /\ \E k \in 1..Len(h) : h[k].op = "pcall"

LEMMA RaiseSteps ==
  ASSUME NEW h, NEW fr, NEW tb, NEW lev, NEW td, NEW h2, NEW td2,
         Moves(h, fr, tb, lev, td, h2, fr, tb, td2),
         NEW i, NEW b, NEW e \in Errs, RaisedAt(h, fr, i, b, e, h2)
  PROVE  /\ Owns(h2, fr, tb)
         /\ Throws(td[Len(h)], ModeFor(h, tb, td), td2[Len(h2)], ModeFor(h2, tb, td2))
<1> SUFFICES ASSUME h[Len(h)].op = "lua", i \in 1..Len(h),
                    \A k \in (i + 1)..Len(h) : h[k].op = "lua",
                    Tops(h, i, b, h2), Catcher(h[i], b, e, Len(fr)),
                    \E k \in 1..Len(h) : h[k].op = "pcall"
             PROVE  /\ Owns(h2, fr, tb)
                    /\ Throws(td[Len(h)], ModeFor(h, tb, td),
                              td2[Len(h2)], ModeFor(h2, tb, td2))
  BY DEF RaisedAt
<1>0. Config(h, fr, tb, lev) /\ Doing(td, h, fr, tb)
  BY DEF Moves
<1>1. /\ Len(h) \in Nat \ {0} /\ Len(fr) \in Nat /\ TopFits(h[Len(h)], lev[Len(h)], fr, tb)
      /\ AllHave(h, fr, tb, Vars) /\ h \in Seq(Acts)
  BY <1>0, ConfigIs
<1>2. Len(h) \in 1..Len(h) /\ Len(h) \in 0..Len(h)
  BY <1>1
<1>3. \A k \in (lev[Len(h)] + 1)..Len(fr) : tb[fr[k]] = <<>>
  <2>1. lev[Len(h)] = Len(fr)
    BY <1>1 DEF TopFits
  <2>2. \A n \in Nat : (n + 1)..n = {}
    OBVIOUS
  <2>3. (Len(fr) + 1)..Len(fr) = {}
    BY <1>1, <2>2
  <2> QED
    BY <2>1, <2>3
<1>4. /\ Owns(h2, fr, tb) /\ td2[Len(h2)] = A!Abandon(td[Len(h)])
      /\ ModeFor(h2, tb, td2) = A!Raise(e)
  <2>1. Stops(h, fr, tb, lev, Len(h), i, b, e, h2)
    BY <1>2, <1>3 DEF Stops
  <2> QED
    BY <2>1, ThrowLeaves
<1>5. A!Protected \in ToSet(td[Len(h)])
  <2>1. PICK k \in 1..Len(h) : h[k].op = "pcall"
    OBVIOUS
  <2>2. \A x \in 0..Len(h) : td[x] \in Seq(Items(Vars))
    BY <1>0, TasksHere
  <2>3. \A x \in k..Len(h) : Has(td[x], A!Protected)
    BY <1>0, <1>1, <2>1, <2>2, ProtectedKept
  <2>4. Len(h) \in k..Len(h)
    BY <1>1
  <2>5. Has(td[Len(h)], A!Protected) /\ td[Len(h)] \in Seq(Items(Vars))
    BY <1>2, <2>2, <2>3, <2>4
  <2>6. DOMAIN td[Len(h)] = 1..Len(td[Len(h)])
    BY <2>5, LenProperties
  <2> QED
    BY <2>5, <2>6 DEF Has, ToSet
<1>6. ModeFor(h, tb, td) = A!Run
  BY DEF ModeFor
<1> QED
  BY <1>4, <1>5, <1>6 DEF Throws

(* The instruction that closed a scope raises what its handlers raised.    *)
FailedAt(h, fr, i, b, h2) ==
    /\ h[Len(h)].op = "close" /\ h[Len(h)].ph = "next" /\ h[Len(h)].how # "error"
    /\ h[Len(h)].e # None /\ Len(h) > 1
    /\ i \in 1..(Len(h) - 1) /\ \A k \in (i + 1)..(Len(h) - 1) : h[k].op = "lua"
    /\ Tops(h, i, b, h2) /\ Catcher(h[i], b, h[Len(h)].e, Len(fr))

LEMMA ExitFailsSteps ==
  ASSUME NEW h, NEW fr, NEW tb, NEW lev, NEW td, NEW h2, NEW td2,
         Moves(h, fr, tb, lev, td, h2, fr, tb, td2),
         NEW i, NEW b, FailedAt(h, fr, i, b, h2)
  PROVE  /\ Owns(h2, fr, tb) /\ td2[Len(h2)] = td[Len(h)]
         /\ ModeFor(h2, tb, td2) = ModeFor(h, tb, td)
<1> SUFFICES ASSUME h[Len(h)].op = "close", h[Len(h)].ph = "next",
                    h[Len(h)].how # "error", h[Len(h)].e # None,
                    Len(h) > 1, i \in 1..(Len(h) - 1),
                    \A k \in (i + 1)..(Len(h) - 1) : h[k].op = "lua",
                    Tops(h, i, b, h2), Catcher(h[i], b, h[Len(h)].e, Len(fr))
             PROVE  /\ Owns(h2, fr, tb) /\ td2[Len(h2)] = td[Len(h)]
                    /\ ModeFor(h2, tb, td2) = ModeFor(h, tb, td)
  BY DEF FailedAt
<1> DEFINE N == Len(h)
           u == N - 1
<1>0. Config(h, fr, tb, lev) /\ Doing(td, h, fr, tb)
  BY DEF Moves
<1>1. N \in Nat \ {0} /\ N \in 1..N /\ u \in 1..N /\ u \in 0..N
  <2>1. N \in Nat \ {0}
    BY <1>0, ConfigIs
  <2> QED
    BY <2>1
<1>2. /\ h[N] \in Acts /\ Fits(h, N, lev, fr) /\ TopFits(h[N], lev[N], fr, tb)
  BY <1>0, <1>1, ConfigIs
<1>3. \A k \in (lev[u] + 1)..Len(fr) : tb[fr[k]] = <<>>
  <2>1. lev[u] = lev[N]
    BY <1>2 DEF Fits
  <2> QED
    BY <1>2, <2>1 DEF TopFits
<1>4. /\ Owns(h2, fr, tb) /\ td2[Len(h2)] = A!Abandon(td[u])
      /\ ModeFor(h2, tb, td2) = A!Raise(h[N].e)
  <2>1. Stops(h, fr, tb, lev, u, i, b, h[N].e, h2)
    BY <1>1, <1>3 DEF Stops
  <2> QED
    BY <2>1, ThrowLeaves
<1>5. CloseForm(td, h, fr, tb, N)
  BY <1>0, <1>1, CloseDoes
<1>6. td[N] = A!Abandon(td[u])
  BY <1>5 DEF CloseForm, Ground
<1>7. ModeFor(h, tb, td) = A!Raise(h[N].e)
  BY DEF ModeFor, Goes
<1> QED
  BY <1>4, <1>6, <1>7

-----------------------------------------------------------------------------
(* A scope's innermost variable is taken, to be closed.                    *)
Shorter(tb, f, tb2) == tb[f] # <<>> /\ tb2 = [tb EXCEPT ![f] = Front(tb[f])]

OneVar(tb, f, tb2, v) ==
    /\ v \in Vars /\ tb2 \in [Id -> Seq(Vars)] /\ Only(tb, tb2, f)
    /\ tb2[f] \in Seq(Vars) /\ Len(tb2[f]) \in Nat /\ Len(tb[f]) = Len(tb2[f]) + 1
    /\ VarsIn(tb, f) = Append(VarsIn(tb2, f), A!Var(v))
    /\ VarsIn(tb2, f) \in Seq(VarItems(Vars))

LEMMA ShorterIs ==
  ASSUME NEW tb \in [Id -> Seq(Vars)], NEW f \in Id, NEW tb2, Shorter(tb, f, tb2)
  PROVE  \E v : OneVar(tb, f, tb2, v)
<1>1. tb[f] \in Seq(Vars) /\ tb[f] # <<>>
  BY DEF Shorter
<1>2. PICK x : x = tb[f]
  OBVIOUS
<1>3. /\ x = Append(Front(x), Last(x)) /\ Front(x) \in Seq(Vars) /\ Last(x) \in Vars
      /\ Len(x) \in Nat \ {0} /\ Len(Front(x)) = Len(x) - 1
  BY <1>1, <1>2, FrontLast
<1>4. tb2[f] = Front(x) /\ tb2 \in [Id -> Seq(Vars)] /\ Only(tb, tb2, f)
  BY <1>2, <1>3 DEF Shorter, Only
<1>5. HasMore(tb2, tb, f, Last(x), Vars)
  BY <1>2, <1>3, <1>4 DEF HasMore
<1>6. VarsIn(tb, f) = Append(VarsIn(tb2, f), A!Var(Last(x)))
  BY <1>5, VarsAppend
<1>7. VarsIn(tb2, f) \in Seq(VarItems(Vars))
  <2>1. tb2[f] \in Seq(Vars)
    BY <1>3, <1>4
  <2> QED
    BY <2>1, VarsInIs
<1>8. Len(tb2[f]) \in Nat /\ Len(tb[f]) = Len(tb2[f]) + 1
  BY <1>2, <1>3, <1>4
<1> QED
  BY <1>3, <1>4, <1>6, <1>7, <1>8 DEF OneVar

(* What it was the last of.                                                *)
LEMMA VarOnTop ==
  ASSUME NEW y \in Seq(Items(Vars)), NEW w \in Seq(VarItems(Vars)), NEW v \in Vars
  PROVE  /\ y \o w \in Seq(Items(Vars))
         /\ y \o Append(w, A!Var(v)) = Append(y \o w, A!Var(v))
         /\ A!Abandon(Append(y \o w, A!Var(v))) = Append(A!Abandon(y \o w), A!Var(v))
         /\ Len(Append(y \o w, A!Var(v))) = Len(y \o w) + 1 /\ Len(y \o w) \in Nat
<1>1. /\ A!Var(v) \in Items(Vars) /\ IsVar(A!Var(v)) /\ ~A!IsCatcher(A!Var(v))
  BY ItemIs
<1>2. w \in Seq(Items(Vars)) /\ y \o w \in Seq(Items(Vars))
  BY ItemsAre
<1>3. y \o Append(w, A!Var(v)) = Append(y \o w, A!Var(v))
  BY <1>1, <1>2, JoinAppend
<1>4. PICK s : s = y \o w
  OBVIOUS
<1>5. A!Abandon(Append(s, A!Var(v))) = Append(A!Abandon(s), A!Var(v))
  BY <1>1, <1>2, <1>4, AbandonAppend
<1>6. Len(Append(s, A!Var(v))) = Len(s) + 1 /\ Len(s) \in Nat
  BY <1>1, <1>2, <1>4, AppendProperties
<1> QED
  BY <1>2, <1>3, <1>4, <1>5, <1>6

Peeled(h, tb, td, tb2, td2, v) ==
    LET N == Len(h)
        s == Ground(tb2, h[N], td2[N - 1]) IN
    /\ v \in Vars /\ s \in Seq(Items(Vars)) /\ td[N] = Append(s, A!Var(v))
    /\ td2[N - 1] \in Seq(Items(Vars))
    /\ Goes(tb2, h[N], td2[N - 1]) = Goes(tb, h[N], td[N - 1])

(* The scope of a function that runs.                                      *)
LEMMA PeelsOwn ==
  ASSUME NEW h, NEW fr, NEW tb, NEW lev, NEW td, NEW h2, NEW fr2, NEW tb2, NEW td2,
         Moves(h, fr, tb, lev, td, h2, fr2, tb2, td2),
         h[Len(h)].op = "close", h[Len(h)].ph = "next", h[Len(h)].how # "error",
         Shorter(tb, h[Len(h)].f, tb2),
         Len(h) <= Len(h2), \A i \in 1..(Len(h) - 1) : h2[i] = h[i],
         Agree(fr, fr2, lev[Len(h)])
  PROVE  \E v : Peeled(h, tb, td, tb2, td2, v)
<1> DEFINE N == Len(h)
           a == h[N]
           u == N - 1
<1>0. Config(h, fr, tb, lev) /\ Doing(td, h, fr, tb) /\ Doing(td2, h2, fr2, tb2)
      /\ h2 \in Seq(Acts)
  BY DEF Moves
<1>1. N \in Nat \ {0} /\ N \in 1..N /\ a \in Acts
  <2>1. N \in Nat \ {0}
    BY <1>0, ConfigIs
  <2>2. N \in 1..N
    BY <2>1
  <2> QED
    BY <1>0, <2>1, <2>2, ConfigIs
<1>2. N > 1 /\ h[u].op = "lua" /\ h[u].f = a.f
  <2>1. Fits(h, N, lev, fr)
    BY <1>0, <1>1, ConfigIs
  <2>2. N # 1
    BY <2>1 DEF Fits
  <2>3. N > 1
    <3>1. \A n \in Nat \ {0} : n # 1 => n > 1
      OBVIOUS
    <3> QED
      BY <1>1, <2>2, <3>1
  <2>4. Sits(h[N - 1], h[N])
    BY <2>1, <2>3 DEF Fits
  <2> QED
    BY <2>3, <2>4 DEF Sits
<1>3. u \in 1..N /\ u \in 1..(N - 1) /\ u <= Len(h2) /\ u \in 1..Len(h2) /\ u - 1 \in Nat
      /\ u - 1 <= N /\ u \in 0..N /\ u \in Nat /\ h2 \in Seq(Acts)
  <2>1. Len(h2) \in Nat
    BY <1>0
  <2> QED
    BY <1>0, <1>1, <1>2, <2>1
<1>4. LuaForm(td, h, tb, u)
  BY <1>0, <1>2, <1>3, LuaDoes
<1>5. PICK f : f = a.f
  OBVIOUS
<1>6. f \in Id /\ tb \in [Id -> Seq(Vars)]
  BY <1>0, <1>2, <1>4, <1>5, ConfigIs DEF LuaForm
<1>7. PICK v : OneVar(tb, f, tb2, v)
  BY <1>5, <1>6, ShorterIs
<1>8. td2[u - 1] = td[u - 1]
  <2>1. Alone(h, fr, u - 1, f)
    <3>1. \A i \in 1..(u - 1) : ~Looks(h, fr, i, h[u].f)
      BY <1>0, <1>2, <1>3, ConfigIs, LuaAlone
    <3> QED
      BY <1>2, <1>5, <3>1 DEF Alone
  <2>2. SeenSame(h, fr, tb, tb2, u - 1)
    BY <1>0, <1>3, <1>7, <2>1, SeenAlone DEF OneVar
  <2>3. lev[N] \in Nat /\ lev[u] <= lev[N]
    BY <1>0, <1>1, <1>3, ConfigIs
  <2>4. \A i \in 1..(u - 1) : i \in 1..(N - 1)
    BY <1>1
  <2>5. Leaves(h, fr, tb, lev, h2, fr2, tb2, u, lev[N])
    BY <1>2, <1>3, <2>2, <2>3, <2>4 DEF Leaves
  <2> QED
    BY <2>5, Beneath
<1>9. PICK b : b = Append(td[u - 1], A!Fn)
  OBVIOUS
<1>10. PICK w : w = VarsIn(tb2, f)
  OBVIOUS
<1>11. b \in Seq(Items(Vars)) /\ w \in Seq(VarItems(Vars))
  <2>1. w \in Seq(VarItems(Vars))
    BY <1>7, <1>10 DEF OneVar
  <2>2. td[u - 1] \in Seq(Items(Vars))
    BY <1>4 DEF LuaForm
  <2> QED
    BY <1>9, <2>1, <2>2, ItemsAre
<1>12. td[u] = b \o Append(w, A!Var(v))
  BY <1>2, <1>4, <1>5, <1>7, <1>9, <1>10 DEF LuaForm, OneVar
<1>13. td2[u] = b \o w
  <2>1. JobForm(td2[u], fr2, tb2, h2[u], td2[u - 1], Up(h2, fr2, u))
    BY <1>0, <1>3, TasksForm
  <2>2. h2[u] = h[u]
    BY <1>3
  <2> QED
    BY <1>2, <1>5, <1>8, <1>9, <1>10, <2>1, <2>2 DEF JobForm
<1>14. PICK s : s = b \o w
  OBVIOUS
<1>15. /\ v \in Vars /\ s \in Seq(Items(Vars)) /\ td[u] = Append(s, A!Var(v)) /\ td2[u] = s
       /\ A!Abandon(Append(s, A!Var(v))) = Append(A!Abandon(s), A!Var(v))
       /\ Len(td[u]) = Len(s) + 1 /\ Len(s) \in Nat
  <2>1. v \in Vars
    BY <1>7 DEF OneVar
  <2> QED
    BY <1>11, <1>12, <1>13, <1>14, <2>1, VarOnTop, SMTT(30)
<1>16. A!Abandon(s) \in Seq(Items(Vars))
  BY <1>15, AbandonType
<1>17. td[u] \in Seq(Items(Vars)) /\ tb[a.f] \in Seq(Vars) /\ tb2[a.f] \in Seq(Vars)
  BY <1>2, <1>4, <1>5, <1>7 DEF LuaForm, OneVar
<1>18. td[N] = Ground(tb, a, td[u])
  BY <1>0, <1>1, CloseDoes DEF CloseForm
<1>19. CASE a.e # None
  <2>1. Ground(tb, a, td[u]) = A!Abandon(td[u]) /\ Goes(tb, a, td[u]) = A!Raise(a.e)
    BY <1>19 DEF Ground, Goes
  <2>2. Ground(tb2, a, s) = A!Abandon(s) /\ Goes(tb2, a, s) = A!Raise(a.e)
    BY <1>19 DEF Ground, Goes
  <2> QED
    BY <1>15, <1>16, <1>18, <2>1, <2>2 DEF Peeled
<1>20. CASE a.e = None
  <2>1. Ground(tb, a, td[u]) = td[u] /\ Ground(tb2, a, s) = s
    BY <1>20 DEF Ground
  <2>2. Goes(tb2, a, s) = Goes(tb, a, td[u])
    <3>1. Len(tb2[f]) \in Nat /\ Len(tb[f]) = Len(tb2[f]) + 1 /\ a.keep \in Nat
      BY <1>1, <1>7, ActIs DEF OneVar
    <3>4. PICK p : p = Len(s)
      OBVIOUS
    <3>5. PICK q : q = Len(tb2[f])
      OBVIOUS
    <3>6. PICK k : k = a.keep
      OBVIOUS
    <3>7. p \in Nat /\ q \in Nat /\ k \in Nat /\ Len(td[u]) = p + 1 /\ Len(tb[f]) = q + 1
      BY <1>15, <3>1, <3>4, <3>5, <3>6
    <3>2. (p + 1) - (q + 1) - 1 = p - q - 1 /\ (p + 1) - (q + 1) + k = p - q + k
      BY <3>7
    <3>3. /\ Len(td[u]) - Len(tb[f]) - 1 = Len(s) - Len(tb2[f]) - 1
          /\ Len(td[u]) - Len(tb[f]) + a.keep = Len(s) - Len(tb2[f]) + a.keep
      BY <3>2, <3>4, <3>5, <3>6, <3>7
    <3> QED
      BY <1>5, <1>20, <3>3 DEF Goes
  <2> QED
    BY <1>15, <1>18, <2>1, <2>2 DEF Peeled
<1> QED
  BY <1>19, <1>20

(* The scope of a frame that an error has passed.                          *)
LEMMA PeelsPassed ==
  ASSUME NEW h, NEW fr, NEW tb, NEW lev, NEW td, NEW h2, NEW fr2, NEW tb2, NEW td2,
         Moves(h, fr, tb, lev, td, h2, fr2, tb2, td2),
         h[Len(h)].op = "close", h[Len(h)].ph = "next", h[Len(h)].how = "error",
         Shorter(tb, h[Len(h)].f, tb2), h2[Len(h)].n = h[Len(h)].n,
         Len(h) <= Len(h2), \A i \in 1..(Len(h) - 1) : h2[i] = h[i],
         Agree(fr, fr2, lev[Len(h)])
  PROVE  \E v : Peeled(h, tb, td, tb2, td2, v)
<1> DEFINE N == Len(h)
           a == h[N]
<1>0. Config(h, fr, tb, lev) /\ Doing(td, h, fr, tb)
  BY DEF Moves
<1>1. N \in Nat \ {0} /\ N \in 1..N /\ N - 1 \in Nat /\ N - 1 <= N /\ N \in 0..N
  <2>1. N \in Nat \ {0}
    BY <1>0, ConfigIs
  <2> QED
    BY <2>1
<1>2. a \in Acts /\ a.e \in Errs /\ a.e # None
  <2>1. Fits(h, N, lev, fr) /\ a \in Acts
    BY <1>0, <1>1, ConfigIs
  <2> QED
    BY <2>1, CloseAssumption DEF Fits
<1>3. CloseForm(td, h, fr, tb, N)
  BY <1>0, <1>1, CloseDoes
<1>4. PICK f : f = a.f
  OBVIOUS
<1>5. f \in Id /\ tb \in [Id -> Seq(Vars)]
  BY <1>0, <1>3, <1>4, ConfigIs DEF CloseForm
<1>6. PICK v : OneVar(tb, f, tb2, v)
  BY <1>4, <1>5, ShorterIs
<1>7. td2[N - 1] = td[N - 1]
  <2>1. Alone(h, fr, N - 1, f)
    <3>1. \A i \in 1..(N - 1) : ~Looks(h, fr, i, h[N].f)
      BY <1>0, <1>1, ConfigIs, ErrorAlone
    <3> QED
      BY <1>4, <3>1 DEF Alone
  <2>2. SeenSame(h, fr, tb, tb2, N - 1)
    BY <1>0, <1>1, <1>6, <2>1, SeenAlone DEF OneVar
  <2>3. lev[N] \in Nat
    BY <1>0, <1>1, ConfigIs
  <2>4. lev[N] <= lev[N]
    BY <2>3
  <2>5. Leaves(h, fr, tb, lev, h2, fr2, tb2, N, lev[N])
    BY <1>1, <2>2, <2>3, <2>4 DEF Leaves
  <2> QED
    BY <2>5, Beneath
<1>8. PICK x : x = td[N - 1]
  OBVIOUS
<1>9. PICK w : w = VarsIn(tb2, f)
  OBVIOUS
<1>10. PICK s : s = x \o w
  OBVIOUS
<1>11. /\ v \in Vars /\ s \in Seq(Items(Vars))
       /\ A!Abandon(x \o VarsIn(tb, f)) = Append(A!Abandon(s), A!Var(v))
  <2>1. v \in Vars /\ w \in Seq(VarItems(Vars)) /\ VarsIn(tb, f) = Append(w, A!Var(v))
    BY <1>6, <1>9 DEF OneVar
  <2>2. x \in Seq(Items(Vars))
    BY <1>3, <1>8 DEF CloseForm
  <2>3. /\ x \o w \in Seq(Items(Vars)) /\ x \o Append(w, A!Var(v)) = Append(x \o w, A!Var(v))
        /\ A!Abandon(Append(x \o w, A!Var(v))) = Append(A!Abandon(x \o w), A!Var(v))
    BY <2>1, <2>2, VarOnTop
  <2>4. x \o VarsIn(tb, f) = Append(s, A!Var(v))
    BY <1>10, <2>1, <2>3
  <2> QED
    BY <1>10, <2>1, <2>3, <2>4
<1>12. A!Abandon(s) \in Seq(Items(Vars)) /\ x \in Seq(Items(Vars))
  BY <1>3, <1>8, <1>11, AbandonType DEF CloseForm
<1>13. td[N] = Ground(tb, a, x)
  BY <1>3, <1>8 DEF CloseForm
<1>14. /\ Ground(tb, a, x) = A!Abandon(x \o VarsIn(tb, f)) /\ Ground(tb2, a, x) = A!Abandon(s)
       /\ Goes(tb, a, x) = A!Raise(a.e) /\ Goes(tb2, a, x) = A!Raise(a.e)
  BY <1>2, <1>4, <1>9, <1>10 DEF Ground, Goes
<1> QED
  BY <1>7, <1>8, <1>11, <1>12, <1>13, <1>14 DEF Peeled

LEMMA Peels ==
  ASSUME NEW h, NEW fr, NEW tb, NEW lev, NEW td, NEW h2, NEW fr2, NEW tb2, NEW td2,
         Moves(h, fr, tb, lev, td, h2, fr2, tb2, td2),
         h[Len(h)].op = "close", h[Len(h)].ph = "next",
         Shorter(tb, h[Len(h)].f, tb2), h2[Len(h)].n = h[Len(h)].n,
         Len(h) <= Len(h2), \A i \in 1..(Len(h) - 1) : h2[i] = h[i],
         Agree(fr, fr2, lev[Len(h)])
  PROVE  \E v : Peeled(h, tb, td, tb2, td2, v)
<1>1. CASE h[Len(h)].how = "error"
  BY <1>1, PeelsPassed
<1>2. CASE h[Len(h)].how # "error"
  BY <1>2, PeelsOwn
<1> QED
  BY <1>1, <1>2

(* There is a variable to close, and the mode is one of closing.           *)
LEMMA CanClose ==
  ASSUME NEW h, NEW fr, NEW tb, NEW lev, Config(h, fr, tb, lev), NEW td, Doing(td, h, fr, tb),
         h[Len(h)].op = "close", h[Len(h)].ph = "next",
         Len(tb[h[Len(h)].f]) > h[Len(h)].keep,
         NEW s \in Seq(Items(Vars)), NEW v \in Vars, td[Len(h)] = Append(s, A!Var(v))
  PROVE  Closes1(td[Len(h)], ModeFor(h, tb, td)) /\ Front(td[Len(h)]) = s
<1> DEFINE N == Len(h)
           a == h[N]
<1>1. N \in Nat \ {0} /\ N \in 1..N
  <2>1. N \in Nat \ {0}
    BY ConfigIs
  <2> QED
    BY <2>1
<1>2. a \in Acts /\ Fits(h, N, lev, fr)
  BY <1>1, ConfigIs
<1>3. CloseForm(td, h, fr, tb, N)
  BY <1>1, CloseDoes
<1>4. Front(td[N]) = s /\ Last(td[N]) = A!Var(v)
  BY AppendIs, ItemIs
<1>5. Last(td[N]).k = "var"
  BY <1>4, KindsAre
<1>6. ModeFor(h, tb, td) = Goes(tb, a, td[N - 1])
  BY DEF ModeFor
<1>7. CASE a.e # None
  BY <1>4, <1>5, <1>6, <1>7, ModesAre DEF Goes, Closes1
<1>8. CASE a.e = None
  <2>1. a.how # "error"
    BY <1>2, <1>8, CloseAssumption DEF Fits
  <2>2. td[N] = td[N - 1]
    BY <1>3, <1>8, <2>1 DEF CloseForm, Ground
  <2>3. Len(td[N]) \in Nat /\ Len(tb[a.f]) \in Nat /\ a.keep \in Nat
    <3>1. td[N] \in Seq(Items(Vars)) /\ tb[a.f] \in Seq(Vars)
      BY <1>3 DEF CloseForm
    <3> QED
      BY <1>2, <3>1, ActIs, LenProperties
  <2>4. \A p, q, k \in Nat : q > k => p > p - q + k /\ p > p - q - 1
    OBVIOUS
  <2>5. /\ Len(td[N]) > Len(td[N]) - Len(tb[a.f]) + a.keep
        /\ Len(td[N]) > Len(td[N]) - Len(tb[a.f]) - 1
    BY <2>3, <2>4
  <2>6. PICK to : /\ Goes(tb, a, td[N - 1]) = A!Leave(to) /\ Len(td[N]) > to
    BY <1>8, <2>2, <2>5 DEF Goes
  <2> QED
    BY <1>4, <1>5, <1>6, <2>6, ModesAre DEF Closes1
<1> QED
  BY <1>7, <1>8

-----------------------------------------------------------------------------
(* No scope that is closed further down loses a variable it keeps.         *)
Takes(h, tb, tb2) ==
    /\ h[Len(h)].op = "close" /\ h[Len(h)].ph = "next"
    /\ Len(tb[h[Len(h)].f]) > h[Len(h)].keep /\ Shorter(tb, h[Len(h)].f, tb2)

LEMMA KeepsLess ==
  ASSUME NEW h, NEW fr, NEW tb, NEW lev, Config(h, fr, tb, lev), NEW tb2, Takes(h, tb, tb2)
  PROVE  /\ \A i \in 1..Len(h) : h[i].op = "close" => h[i].keep <= Len(tb2[h[i].f])
         /\ h[Len(h)].f \in Id /\ Only(tb, tb2, h[Len(h)].f)
<1> DEFINE N == Len(h)
           a == h[N]
<1>1. N \in Nat \ {0} /\ N \in 1..N
  <2>1. N \in Nat \ {0}
    BY ConfigIs
  <2> QED
    BY <2>1
<1>2. a \in Acts /\ Fits(h, N, lev, fr) /\ tb \in [Id -> Seq(Vars)] /\ Owns(h, fr, tb)
  BY <1>1, ConfigIs
<1>3. a.op = "close" /\ Len(tb[a.f]) > a.keep /\ Shorter(tb, a.f, tb2)
  BY DEF Takes
<1>4. PICK f : f = a.f
  OBVIOUS
<1>5. f \in Id /\ a.keep \in Nat
  BY <1>2, <1>3, <1>4, ActIs
<1>6. PICK v : OneVar(tb, f, tb2, v)
  BY <1>2, <1>3, <1>4, <1>5, ShorterIs
<1>7. Only(tb, tb2, f) /\ Len(tb2[f]) \in Nat /\ Len(tb[f]) = Len(tb2[f]) + 1
  BY <1>6 DEF OneVar
<1>8. a.keep <= Len(tb2[f])
  <2>1. \A x, y \in Nat : y + 1 > x => x <= y
    OBVIOUS
  <2>2. Len(tb2[f]) + 1 > a.keep
    BY <1>3, <1>4, <1>7
  <2> QED
    BY <1>5, <1>7, <2>1, <2>2
<1>9. ASSUME NEW i \in 1..N, i # N, h[i].op = "close" PROVE h[i].f # f
  <2>1. i \in 1..(N - 1)
    BY <1>1, <1>9
  <2>2. Looks(h, fr, i, h[i].f)
    BY <1>9 DEF Looks
  <2>3. CASE a.how = "error"
    <3>1. ~Looks(h, fr, i, h[N].f)
      BY <1>1, <1>3, <2>1, <2>3, ConfigIs, ErrorAlone
    <3> QED
      BY <1>4, <2>2, <3>1
  <2>4. CASE a.how # "error"
    <3>1. N # 1
      BY <1>2, <1>3 DEF Fits
    <3>2. N > 1 /\ N - 1 \in 1..N
      BY <1>1, <3>1, SMTT(30)
    <3>3. h[N - 1].op = "lua" /\ h[N - 1].f = a.f
      BY <1>2, <1>3, <2>4, <3>2 DEF Fits, Sits
    <3>4. i \in 1..(N - 1 - 1)
      <4>1. i # N - 1
        BY <1>9, <3>3
      <4> QED
        BY <1>1, <2>1, <4>1
    <3>5. ~Looks(h, fr, i, h[N - 1].f)
      BY <1>1, <3>2, <3>3, <3>4, ConfigIs, LuaAlone
    <3> QED
      BY <1>4, <2>2, <3>3, <3>5
  <2> QED
    BY <2>3, <2>4
<1>10. ASSUME NEW i \in 1..N, h[i].op = "close" PROVE h[i].keep <= Len(tb2[h[i].f])
  <2>1. CASE i = N
    BY <1>4, <1>8, <2>1
  <2>2. CASE i # N
    <3>1. h[i].f # f /\ h[i].f \in Id
      BY <1>1, <1>9, <1>10, <2>2, ConfigIs, ActIs
    <3>2. tb2[h[i].f] = tb[h[i].f]
      BY <1>7, <3>1 DEF Only
    <3>3. h[i].keep <= Len(tb[h[i].f])
      BY <1>2, <1>10 DEF Owns, OwnsAt, KeepsOf
    <3> QED
      BY <3>2, <3>3
  <2> QED
    BY <2>1, <2>2
<1> QED
  BY <1>4, <1>5, <1>7, <1>10

(* ... and the three facts stay, with other frames above.                  *)
LEMMA OwnsLess ==
  ASSUME NEW h, NEW fr, NEW tb, NEW lev, Config(h, fr, tb, lev), NEW tb2, Takes(h, tb, tb2),
         NEW b, NEW h2, NEW fr2, Tops(h, Len(h), b, h2), Alike(h[Len(h)], b),
         \A f : OnHost(h, f) /\ OnFrames(fr2, f) => OnFrames(fr, f)
  PROVE  Owns(h2, fr2, tb2)
<1>1. Len(h) \in Nat /\ Owns(h, fr, tb)
  BY ConfigIs
<1>2. /\ Len(h2) = Len(h) /\ h2[Len(h)] = b /\ \A i \in 1..(Len(h) - 1) : h2[i] = h[i]
  BY DEF Tops
<1>3. \A i \in 1..Len(h) : Alike(h[i], h2[i]) /\ (i < Len(h) => h2[i] = h[i])
  <2> TAKE i \in 1..Len(h)
  <2>1. i < Len(h) => i \in 1..(Len(h) - 1)
    BY <1>1
  <2>2. i = Len(h) \/ i \in 1..(Len(h) - 1)
    BY <1>1
  <2> QED
    BY <1>2, <2>1, <2>2 DEF Alike
<1>4. \A i \in 1..Len(h) : h[i].op = "close" => h[i].keep <= Len(tb2[h[i].f])
  BY KeepsLess
<1>5. Edited(h, fr, h2, fr2, tb2, Len(h))
  BY <1>1, <1>2, <1>3, <1>4 DEF Edited
<1> QED
  BY <1>1, <1>5, OwnsEdit

-----------------------------------------------------------------------------
(* There is no handler to call.                                            *)
LEMMA NoHandlerSteps ==
  ASSUME NEW h, NEW fr, NEW tb, NEW lev, NEW td, NEW h2, NEW tb2, NEW td2,
         Moves(h, fr, tb, lev, td, h2, fr, tb2, td2), Takes(h, tb, tb2),
         NEW e \in Errs, NEW b, Tops(h, Len(h), b, h2), CloseLike(h[Len(h)], b),
         b.ph = "next", b.e = e, \E k \in 1..Len(h) : h[k].op = "pcall"
  PROVE  /\ Owns(h2, fr, tb2)
         /\ CannotClose(td[Len(h)], ModeFor(h, tb, td), td2[Len(h2)], ModeFor(h2, tb2, td2))
<1> DEFINE N == Len(h)
           a == h[N]
<1>0. /\ Config(h, fr, tb, lev) /\ Doing(td, h, fr, tb) /\ Doing(td2, h2, fr, tb2)
      /\ h2 \in Seq(Acts)
  BY DEF Moves
<1>1. N \in Nat \ {0} /\ N \in 1..N /\ N \in 0..N /\ AllHave(h, fr, tb, Vars) /\ h \in Seq(Acts)
  <2>1. N \in Nat \ {0}
    BY <1>0, ConfigIs
  <2>2. N \in 1..N /\ N \in 0..N
    BY <2>1
  <2> QED
    BY <1>0, <2>1, <2>2, ConfigIs
<1>2. /\ Len(h2) = N /\ h2[N] = b /\ b \in Acts /\ \A i \in 1..(N - 1) : h2[i] = h[i]
      /\ N <= Len(h2) /\ N \in 1..Len(h2)
  BY TopIs
<1>3. /\ a.op = "close" /\ a.ph = "next" /\ Shorter(tb, a.f, tb2) /\ b.op = "close"
      /\ Len(tb[a.f]) > a.keep /\ b.n = a.n /\ b.e # None
  BY IdIs DEF Takes, CloseLike
<1>4. Owns(h2, fr, tb2)
  <2>1. Alike(a, b)
    BY DEF CloseLike, Alike
  <2> QED
    BY <1>0, <2>1, OwnsLess
<1>5. PICK v : Peeled(h, tb, td, tb2, td2, v)
  <2>1. Agree(fr, fr, lev[N])
    BY AgreeAll
  <2> QED
    BY <1>2, <1>3, <2>1, Peels
<1>6. PICK s : s = Ground(tb2, a, td2[N - 1])
  OBVIOUS
<1>7. v \in Vars /\ s \in Seq(Items(Vars)) /\ td[N] = Append(s, A!Var(v))
  BY <1>5, <1>6 DEF Peeled
<1>8. Closes1(td[N], ModeFor(h, tb, td)) /\ Front(td[N]) = s
  BY <1>0, <1>3, <1>7, CanClose
<1>9. td2[N] = A!Abandon(s)
  <2>1. JobForm(td2[N], fr, tb2, h2[N], td2[N - 1], Up(h2, fr, N))
    BY <1>0, <1>2, TasksForm
  <2>2. td2[N] = Ground(tb2, b, td2[N - 1])
    BY <1>2, <1>3, <2>1 DEF JobForm
  <2>3. td2[N - 1] \in Seq(Items(Vars))
    BY <1>5 DEF Peeled
  <2>4. tb2[a.f] \in Seq(Vars)
    <3>1. a.f \in Id /\ tb \in [Id -> Seq(Vars)]
      BY <1>0, KeepsLess, ConfigIs
    <3>2. PICK x : OneVar(tb, a.f, tb2, x)
      BY <1>3, <3>1, ShorterIs
    <3> QED
      BY <3>2 DEF OneVar
  <2>5. A!Abandon(Ground(tb2, a, td2[N - 1])) = Ground(tb2, b, td2[N - 1])
    BY <1>1, <1>3, <2>3, <2>4, ConfigIs, GroundTwice, SMTT(30)
  <2> QED
    BY <1>6, <2>2, <2>5
<1>10. A!Protected \in ToSet(td[N])
  <2>1. PICK k \in 1..N : h[k].op = "pcall"
    OBVIOUS
  <2>2. \A x \in 0..N : td[x] \in Seq(Items(Vars))
    BY <1>0, TasksHere
  <2>3. \A x \in k..N : Has(td[x], A!Protected)
    BY <1>0, <1>1, <2>1, <2>2, ProtectedKept
  <2>4. N \in k..N
    BY <1>1
  <2>5. Has(td[N], A!Protected) /\ td[N] \in Seq(Items(Vars))
    BY <1>1, <2>2, <2>3, <2>4
  <2>6. DOMAIN td[N] = 1..Len(td[N])
    BY <2>5, LenProperties
  <2> QED
    BY <2>5, <2>6 DEF Has, ToSet
<1>11. ModeFor(h2, tb2, td2) = A!Raise(e)
  BY <1>2, <1>3 DEF ModeFor, Goes
<1> QED
  BY <1>2, <1>4, <1>8, <1>9, <1>10, <1>11 DEF CannotClose

-----------------------------------------------------------------------------
(* A handler is called.                                                    *)
Restarts(fr, n, g, fr2) == /\ fr2 \in Seq(Id) /\ Len(fr2) = n + 1 /\ fr2[n + 1] = g
                           /\ \A k \in 1..n : fr2[k] = fr[k]

LEMMA Handled ==
  ASSUME NEW s \in Seq(Items(Vars)), NEW m \in Modes
  PROVE  /\ Append(s, A!Handler(m)) \in Seq(Items(Vars))
         /\ Append(Append(s, A!Handler(m)), A!Fn) = s \o <<A!Handler(m), A!Fn>>
<1>1. PICK x : x = A!Handler(m)
  OBVIOUS
<1>2. PICK y : y = A!Fn
  OBVIOUS
<1>3. x \in Items(Vars) /\ y \in Items(Vars)
  BY <1>1, <1>2, ItemIs
<1>4. Append(Append(s, x), y) = s \o <<x, y>> /\ Append(s, x) \in Seq(Items(Vars))
  BY <1>3
<1> QED
  BY <1>1, <1>2, <1>4

LEMMA CloseNextSteps ==
  ASSUME NEW h, NEW fr, NEW tb, NEW lev, NEW td, NEW h2, NEW fr2, NEW tb2, NEW td2,
         Moves(h, fr, tb, lev, td, h2, fr2, tb2, td2), Takes(h, tb, tb2),
         NEW b, NEW h1, Tops(h, Len(h), b, h1), CloseLike(h[Len(h)], b),
         b.ph = "body", b.e = h[Len(h)].e,
         NEW a \in Acts, a.op = "lua", ~Known(h, fr, a.f), tb[a.f] = <<>>,
         Grows(h1, a, h2), Restarts(fr, h[Len(h)].n, a.f, fr2)
  PROVE  /\ Owns(h2, fr2, tb2)
         /\ ClosesVar(td[Len(h)], ModeFor(h, tb, td), td2[Len(h2)], ModeFor(h2, tb2, td2))
<1> DEFINE N == Len(h)
           c == h[N]
<1>0. /\ Config(h, fr, tb, lev) /\ Doing(td, h, fr, tb) /\ Doing(td2, h2, fr2, tb2)
      /\ h2 \in Seq(Acts)
  BY DEF Moves
<1>1. N \in Nat \ {0} /\ N \in 1..N /\ N \in 0..N
  <2>1. N \in Nat \ {0}
    BY <1>0, ConfigIs
  <2> QED
    BY <2>1
<1>2. /\ Len(h1) = N /\ h1[N] = b /\ b \in Acts /\ \A i \in 1..(N - 1) : h1[i] = h[i]
      /\ h1 \in Seq(Acts)
  <2>1. h1 \in Seq(Acts)
    BY DEF Tops
  <2> QED
    BY <2>1, TopIs
<1>3. /\ Len(h2) = N + 1 /\ h2[N + 1] = a /\ h2[N] = b /\ \A i \in 1..(N - 1) : h2[i] = h[i]
      /\ N <= Len(h2) /\ N \in 1..Len(h2) /\ N + 1 \in 1..Len(h2) /\ (N + 1) - 1 = N
  <2>1. Len(h2) = Len(h1) + 1 /\ h2[Len(h1) + 1] = a /\ \A i \in 1..Len(h1) : h2[i] = h1[i]
    BY <1>2, AppendProperties DEF Grows
  <2>2. \A i \in 1..(N - 1) : i \in 1..N
    BY <1>1
  <2>3. Len(h2) = N + 1 /\ h2[N + 1] = a /\ h2[N] = b /\ \A i \in 1..(N - 1) : h2[i] = h[i]
    BY <1>1, <1>2, <2>1, <2>2
  <2> QED
    BY <1>1, <2>3
<1>4. /\ c.op = "close" /\ c.ph = "next" /\ Shorter(tb, c.f, tb2) /\ b.op = "close"
      /\ Len(tb[c.f]) > c.keep /\ b.n = c.n
  BY DEF Takes, CloseLike
<1>5. /\ c \in Acts /\ Fits(h, N, lev, fr) /\ TopFits(c, lev[N], fr, tb) /\ a.f \in Id
      /\ fr \in Seq(Id) /\ Len(fr) \in Nat
  BY <1>0, <1>1, ConfigIs, ActIs
<1>6. lev[N] = c.n /\ c.n \in Nat /\ c.n <= Len(fr)
  BY <1>4, <1>5, ActIs DEF Fits, TopFits
<1>7. Agree(fr, fr2, lev[N])
  BY <1>6 DEF Agree, Restarts
<1>8. Owns(h2, fr2, tb2)
  <2>1. Alike(c, b)
    BY DEF CloseLike, Alike
  <2>2. ASSUME NEW f, OnHost(h, f), OnFrames(fr2, f) PROVE OnFrames(fr, f)
    <3>1. PICK k \in 1..Len(fr2) : fr2[k] = f
      BY <2>2 DEF OnFrames
    <3>2. k \in 1..c.n \/ k = c.n + 1
      BY <1>6 DEF Restarts
    <3>3. k # c.n + 1
      BY <2>2, <3>1 DEF Restarts, Known
    <3>4. k \in 1..c.n /\ k \in 1..Len(fr)
      BY <1>5, <1>6, <3>2, <3>3
    <3> QED
      BY <3>1, <3>4 DEF Restarts, OnFrames
  <2>3. Owns(h1, fr2, tb2)
    BY <1>0, <2>1, <2>2, OwnsLess
  <2>4. NewOn(h1, fr2, tb2, a)
    <3>1. ~Failed(h1[Len(h1)])
      BY <1>2 DEF Failed
    <3>2. \A i \in 1..Len(h1) : Popped(h1, i) => h1[i].f # a.f
      <4> SUFFICES ASSUME NEW i \in 1..Len(h1), Popped(h1, i) PROVE h1[i].f # a.f
        OBVIOUS
      <4>1. h[i].op = "close" /\ h[i].f = h1[i].f /\ i \in 1..N
        <5>1. i = N \/ i \in 1..(N - 1)
          BY <1>1, <1>2
        <5> QED
          BY <1>2, <1>4, <5>1 DEF Popped, CloseLike
      <4> QED
        BY <4>1 DEF Known, OnHost
    <3> QED
      BY <3>1, <3>2 DEF NewOn
  <2> QED
    BY <1>2, <2>3, <2>4, OwnsPush DEF Grows
<1>9. PICK v : Peeled(h, tb, td, tb2, td2, v)
  BY <1>3, <1>4, <1>7, Peels
<1>10. PICK s : s = Ground(tb2, c, td2[N - 1])
  OBVIOUS
<1>11. PICK m : m = Goes(tb, c, td[N - 1])
  OBVIOUS
<1>12. /\ v \in Vars /\ s \in Seq(Items(Vars)) /\ td[N] = Append(s, A!Var(v))
       /\ Goes(tb2, c, td2[N - 1]) = m
  BY <1>9, <1>10, <1>11 DEF Peeled
<1>13. m \in Modes /\ ModeFor(h, tb, td) = m
  <2>1. CloseForm(td, h, fr, tb, N)
    BY <1>0, <1>1, <1>4, CloseDoes
  <2> QED
    BY <1>4, <1>11, <2>1 DEF CloseForm, ModeFor
<1>14. Closes1(td[N], m) /\ Front(td[N]) = s
  BY <1>0, <1>4, <1>12, <1>13, CanClose
<1>15. td2[N] = Append(s, A!Handler(m))
  <2>1. JobForm(td2[N], fr2, tb2, h2[N], td2[N - 1], Up(h2, fr2, N))
    BY <1>0, <1>3, TasksForm
  <2>2. td2[N] = Append(Ground(tb2, b, td2[N - 1]), A!Handler(Goes(tb2, b, td2[N - 1])))
    BY <1>3, <1>4, <2>1 DEF JobForm
  <2>3. /\ Ground(tb2, b, td2[N - 1]) = Ground(tb2, c, td2[N - 1])
        /\ Goes(tb2, b, td2[N - 1]) = Goes(tb2, c, td2[N - 1])
    BY DEF Ground, Goes, CloseLike
  <2> QED
    BY <1>10, <1>12, <2>2, <2>3
<1>16. tb2[a.f] = <<>>
  <2>1. a.f # c.f
    BY <1>1, <1>4 DEF Known, OnHost
  <2> QED
    BY <1>0, <1>5, <2>1, KeepsLess DEF Only
<1>17. td2[N + 1] = Append(td2[N], A!Fn)
  <2>1. JobForm(td2[N + 1], fr2, tb2, h2[N + 1], td2[(N + 1) - 1], Up(h2, fr2, N + 1))
    BY <1>0, <1>3, TasksForm
  <2>2. td2[N] \in Seq(Items(Vars))
    BY <1>12, <1>13, <1>15, Handled
  <2>3. JobForm(td2[N + 1], fr2, tb2, a, td2[N], Up(h2, fr2, N + 1))
    BY <1>3, <2>1
  <2>4. Called(td2[N + 1], fr2, tb2, a, td2[N], Up(h2, fr2, N + 1))
    BY <1>16, <2>2, <2>3 DEF Called
  <2> QED
    BY <2>4, LuaTask
<1>18. td2[N + 1] = s \o <<A!Handler(m), A!Fn>>
  BY <1>12, <1>13, <1>15, <1>17, Handled
<1>19. ModeFor(h2, tb2, td2) = A!Run
  BY <1>3 DEF ModeFor
<1> QED
  BY <1>3, <1>8, <1>13, <1>14, <1>18, <1>19 DEF ClosesVar

-----------------------------------------------------------------------------
(* A function returns: to the one that called it, from a protected call,   *)
(* or from a handler.                                                      *)
Continues(x, t2, m2) ==
    \/ Last(x).k \notin {"protected", "handler"} /\ t2 = x /\ m2 = A!Run
    \/ \E y \in Seq(Items(Vars)) : x = Append(y, A!Protected) /\ t2 = y /\ m2 = A!Run
    \/ \E y \in Seq(Items(Vars)), mm \in Modes :
          x = Append(y, A!Handler(mm)) /\ t2 = y /\ m2 = mm

LEMMA FunctionReturns ==
  ASSUME NEW x \in Seq(Items(Vars)), NEW t, t = Append(x, A!Fn),
         NEW m, m = A!Leave(Len(x)), NEW t2, NEW m2, Continues(x, t2, m2)
  PROVE  FunctionLeft(t, m, t2, m2)
<1>1. Front(t) = x /\ Last(t) = A!Fn /\ Len(t) = Len(x) + 1
  BY ItemIs, AppendIs
<1>2. m.m = "leave" /\ m.to = Len(x)
  BY ModesAre
<1>3. CASE Last(x).k \notin {"protected", "handler"} /\ t2 = x /\ m2 = A!Run
  BY <1>1, <1>2, <1>3 DEF FunctionLeft
<1>4. ASSUME NEW y \in Seq(Items(Vars)), x = Append(y, A!Protected), t2 = y, m2 = A!Run
      PROVE  FunctionLeft(t, m, t2, m2)
  <2>1. Front(x) = y /\ Last(x) = A!Protected
    BY <1>4, ItemIs, AppendIs
  <2>2. Last(x).k = "protected"
    BY <2>1, KindsAre
  <2> QED
    BY <1>1, <1>2, <1>4, <2>1, <2>2 DEF FunctionLeft
<1>5. ASSUME NEW y \in Seq(Items(Vars)), NEW mm \in Modes,
             x = Append(y, A!Handler(mm)), t2 = y, m2 = mm
      PROVE  FunctionLeft(t, m, t2, m2)
  <2>1. Front(x) = y /\ Last(x) = A!Handler(mm)
    BY <1>5, ItemIs, AppendIs
  <2>2. Last(x).k = "handler" /\ Last(x).m = mm
    BY <2>1, KindsAre
  <2> QED
    BY <1>1, <1>2, <1>5, <2>1, <2>2 DEF FunctionLeft
<1> QED
  BY <1>3, <1>4, <1>5 DEF Continues

LEMMA LastOfLua ==
  ASSUME NEW td, NEW h, NEW tb, NEW p, LuaForm(td, h, tb, p)
  PROVE  Last(td[p]).k \notin {"protected", "handler"}
<1>1. PICK y : y = td[p - 1]
  OBVIOUS
<1>2. PICK w : w = VarsIn(tb, h[p].f)
  OBVIOUS
<1>3. PICK s : s = Append(y, A!Fn)
  OBVIOUS
<1>4. /\ td[p] = s \o w /\ w \in Seq(VarItems(Vars)) /\ y \in Seq(Items(Vars))
      /\ w \in Seq(Items(Vars)) /\ s \in Seq(Items(Vars))
  <2>1. y \in Seq(Items(Vars)) /\ w \in Seq(VarItems(Vars)) /\ td[p] = s \o w
    BY <1>1, <1>2, <1>3 DEF LuaForm
  <2> QED
    BY <1>3, <2>1, ItemsAre
<1>5. CASE w = <<>>
  <2>1. td[p] = s
    BY <1>4, <1>5, ConcatEmptySeq
  <2>2. Last(s) = A!Fn
    BY <1>3, <1>4, ItemIs, AppendIs
  <2> QED
    BY <2>1, <2>2, KindsAre
<1>6. CASE w # <<>>
  <2>1. Last(td[p]) = Last(w)
    BY <1>4, <1>6, JoinFront
  <2>2. Last(w) \in VarItems(Vars)
    BY <1>4, <1>6, FrontLast
  <2>3. PICK v : Last(w) = A!Var(v)
    BY <2>2 DEF VarItems
  <2> QED
    BY <2>1, <2>3, KindsAre
<1> QED
  BY <1>5, <1>6

(* What is left of the host's stack.                                       *)
Returned(h, h2) ==
    LET m == Len(h) - 2
        c == h[m] IN
    /\ c.op = "lua" => Tops(h, m, c, h2)
    /\ c.op = "pcall" => Tops(h, m - 1, h[m - 1], h2)
    /\ c.op = "close" => \E b : /\ Tops(h, m, b, h2) /\ CloseLike(c, b)
                                /\ b.ph = "next" /\ b.e = c.e

(* The three activations that end, or go on.                               *)
Returns(h, tb, u, m) ==
    /\ h[u].op = "close" /\ h[u].ph = "next" /\ h[u].how = "return" /\ h[u].e = None
    /\ Len(tb[h[u].f]) <= h[u].keep
    /\ u = Len(h) /\ m = u - 2

ReturnHas(h, fr, tb, lev, td, m) ==
    /\ m \in Nat \ {0} /\ Len(h) = m + 2 /\ Len(fr) = lev[m] + 1 /\ lev[m] \in Nat
    /\ m \in 1..Len(h) /\ h[m] \in Acts
    /\ h[m].op = "lua" \/ h[m].ph = "body"
    /\ h[m].op # "lua" => m > 1
    /\ h[m].op = "pcall" => h[m - 1].op = "lua" /\ lev[m - 1] <= lev[m]
    /\ td[m] \in Seq(Items(Vars)) /\ td[Len(h)] = Append(td[m], A!Fn)
    /\ ModeFor(h, tb, td) = A!Leave(Len(td[m]))

LEMMA ReturnIs ==
  ASSUME NEW h, NEW fr, NEW tb, NEW lev, Config(h, fr, tb, lev), NEW td, Doing(td, h, fr, tb),
         NEW u, NEW m, Returns(h, tb, u, m)
  PROVE  ReturnHas(h, fr, tb, lev, td, m)
<1> DEFINE a == h[u]
<1>1. u \in Nat \ {0} /\ u = Len(h) /\ u \in 1..Len(h)
  <2>1. Len(h) \in Nat \ {0}
    BY ConfigIs
  <2> QED
    BY <2>1 DEF Returns
<1>2. /\ a.op = "close" /\ a.ph = "next" /\ a.how = "return" /\ a.e = None
      /\ Len(tb[a.f]) <= a.keep /\ m = u - 2
  BY DEF Returns
<1>3. Fits(h, u, lev, fr) /\ TopFits(a, lev[u], fr, tb)
  BY <1>1, ConfigIs
<1>4. u > 2 /\ a.keep = 0 /\ Len(fr) = lev[u] /\ lev[u] = lev[u - 1]
  BY <1>2, <1>3 DEF Fits, TopFits
<1>5. h[u - 1].op = "lua" /\ h[u - 1].f = a.f
  <2>1. u > 1
    BY <1>1, <1>4
  <2> QED
    BY <1>2, <1>3, <2>1 DEF Fits, Sits
<1>6. /\ u - 1 \in 1..Len(h) /\ u - 1 > 1 /\ (u - 1) - 1 = m /\ m \in Nat \ {0} /\ Len(h) = m + 2
      /\ m \in 1..Len(h) /\ m \in 0..Len(h)
  BY <1>1, <1>2, <1>4
<1>7. Fits(h, u - 1, lev, fr) /\ Fits(h, m, lev, fr) /\ h[m] \in Acts /\ lev[m] \in Nat
  BY <1>6, ConfigIs
<1>8. Len(fr) = lev[m] + 1
  BY <1>4, <1>5, <1>6, <1>7 DEF Fits
<1>9. h[m].op = "lua" \/ h[m].ph = "body"
  BY <1>5, <1>6, <1>7 DEF Fits, Sits
<1>10. h[m].op # "lua" => m > 1
  <2>1. h[m].op # "lua" => m # 1
    BY <1>7 DEF Fits
  <2> QED
    BY <1>6, <2>1
<1>11. h[m].op = "pcall" => h[m - 1].op = "lua" /\ lev[m - 1] <= lev[m]
  <2> SUFFICES ASSUME h[m].op = "pcall" PROVE h[m - 1].op = "lua" /\ lev[m - 1] <= lev[m]
    OBVIOUS
  <2>1. m > 1
    BY <1>10
  <2>2. h[m - 1].op = "lua" /\ lev[m] = lev[m - 1]
    BY <1>7, <2>1 DEF Fits, Sits
  <2> QED
    BY <1>7, <2>2
<1>12. LuaForm(td, h, tb, u - 1)
  BY <1>5, <1>6, LuaDoes
<1>13. tb[a.f] = <<>>
  <2>1. tb[a.f] \in Seq(Vars)
    BY <1>5, <1>12 DEF LuaForm
  <2>2. Len(tb[a.f]) = 0
    BY <1>2, <1>4, <2>1, LenProperties
  <2> QED
    BY <2>1, <2>2, EmptySeq
<1>14. VarsIn(tb, a.f) = <<>>
  <2>1. tb[a.f] \in Seq(Vars)
    BY <1>5, <1>12 DEF LuaForm
  <2> QED
    BY <1>13, <2>1, VarsInIs
<1>15. td[m] \in Seq(Items(Vars))
  BY <1>6, <1>12 DEF LuaForm
<1>16. td[u - 1] = Append(td[m], A!Fn)
  <2>1. PICK s : s = Append(td[m], A!Fn)
    OBVIOUS
  <2>2. s \in Seq(Items(Vars))
    BY <1>15, <2>1, ItemIs, AppendProperties
  <2>3. td[u - 1] = s \o <<>>
    BY <1>5, <1>6, <1>12, <1>14, <2>1 DEF LuaForm
  <2> QED
    BY <2>1, <2>2, <2>3, ConcatEmptySeq
<1>17. td[u] = td[u - 1]
  <2>1. CloseForm(td, h, fr, tb, u)
    BY <1>1, <1>2, CloseDoes
  <2> QED
    BY <1>2, <2>1 DEF CloseForm, Ground
<1>18. ModeFor(h, tb, td) = A!Leave(Len(td[m]))
  <2>1. ModeFor(h, tb, td) = A!Leave(Len(td[u - 1]) - Len(tb[a.f]) - 1)
    BY <1>1, <1>2 DEF ModeFor, Goes
  <2>2. Len(td[u - 1]) = Len(td[m]) + 1 /\ Len(td[m]) \in Nat
    <3>1. A!Fn \in Items(Vars)
      BY ItemIs
    <3> QED
      BY <1>15, <1>16, <3>1, AppendProperties, LenProperties
  <2>3. Len(tb[a.f]) = 0
    BY <1>13, EmptySeq
  <2>4. Len(td[u - 1]) - Len(tb[a.f]) - 1 = Len(td[m])
    BY <2>2, <2>3
  <2> QED
    BY <2>1, <2>4
<1> QED
  BY <1>1, <1>6, <1>7, <1>8, <1>9, <1>10, <1>11, <1>15, <1>16, <1>17, <1>18 DEF ReturnHas

LEMMA TopWhole ==
  ASSUME NEW h, NEW m, NEW h2, Tops(h, m, h[m], h2)
  PROVE  \A i \in 1..m : h2[i] = h[i]
<1>1. /\ h2[m] = h[m] /\ m \in Nat \ {0} /\ \A i \in 1..(m - 1) : h2[i] = h[i]
  BY TopIs
<1>2. \A i \in 1..m : i = m \/ i \in 1..(m - 1)
  BY <1>1
<1> QED
  BY <1>1, <1>2

(* Nothing waits for what is taken off above the m-th activation.          *)
Resumes(h, fr, lev, h2, fr2, m, L) ==
    /\ m \in 1..Len(h) /\ (h[m].op = "lua" \/ h[m].ph = "body")
    /\ Tops(h, m, h[m], h2) /\ L \in Nat /\ lev[m] <= L /\ Agree(fr, fr2, L)

LEMMA ResumesSame ==
  ASSUME NEW h, NEW fr, NEW tb, NEW lev, NEW td, NEW h2, NEW fr2, NEW td2,
         Moves(h, fr, tb, lev, td, h2, fr2, tb, td2),
         NEW m, NEW L, Resumes(h, fr, lev, h2, fr2, m, L)
  PROVE  td2[m] = td[m]
<1>1. /\ m \in 1..Len(h) /\ (h[m].op = "lua" \/ h[m].ph = "body")
      /\ Tops(h, m, h[m], h2) /\ L \in Nat /\ lev[m] <= L /\ Agree(fr, fr2, L)
  BY DEF Resumes
<1>2. m <= Len(h2) /\ \A i \in 1..m : h2[i] = h[i]
  BY <1>1, TopIs, TopWhole
<1> QED
  BY <1>1, <1>2, BeneathAll

LEMMA ReturnDoneSteps ==
  ASSUME NEW h, NEW fr, NEW tb, NEW lev, NEW td, NEW h2, NEW fr2, NEW td2,
         Moves(h, fr, tb, lev, td, h2, fr2, tb, td2),
         Returns(h, tb, Len(h), Len(h) - 2), Returned(h, h2),
         NEW n, Drops(fr, fr2, n)
  PROVE  /\ Owns(h2, fr2, tb)
         /\ FunctionLeft(td[Len(h)], ModeFor(h, tb, td), td2[Len(h2)], ModeFor(h2, tb, td2))
<1> DEFINE m == Len(h) - 2
           c == h[m]
<1>0. /\ Config(h, fr, tb, lev) /\ Doing(td, h, fr, tb) /\ Doing(td2, h2, fr2, tb)
      /\ h2 \in Seq(Acts)
  BY DEF Moves
<1>1. ReturnHas(h, fr, tb, lev, td, m)
  BY <1>0, ReturnIs
<1>2. /\ m \in Nat \ {0} /\ Len(h) = m + 2 /\ Len(fr) = lev[m] + 1 /\ lev[m] \in Nat
      /\ m \in 1..Len(h) /\ c \in Acts
      /\ c.op = "lua" \/ c.ph = "body"
      /\ c.op # "lua" => m > 1
      /\ c.op = "pcall" => h[m - 1].op = "lua" /\ lev[m - 1] <= lev[m]
      /\ td[m] \in Seq(Items(Vars)) /\ td[Len(h)] = Append(td[m], A!Fn)
      /\ ModeFor(h, tb, td) = A!Leave(Len(td[m]))
  BY <1>1 DEF ReturnHas
<1>3. /\ n \in Nat /\ Len(fr) = n + 1 /\ fr2 \in Seq(Id) /\ Len(fr2) = n
      /\ \A k \in 1..n : fr2[k] = fr[k]
  BY DEF Drops
<1>4. n = lev[m]
  BY <1>2, <1>3
<1>5. Agree(fr, fr2, n) /\ lev[m] <= n
  BY <1>2, <1>3, <1>4 DEF Agree
<1>6. ASSUME NEW f, OnFrames(fr2, f) PROVE OnFrames(fr, f)
  <2>1. PICK k \in 1..Len(fr2) : fr2[k] = f
    BY <1>6 DEF OnFrames
  <2>2. k \in 1..n /\ k \in 1..Len(fr)
    BY <1>3
  <2> QED
    BY <1>3, <2>1, <2>2 DEF OnFrames
<1>7. ASSUME Owns(h2, fr2, tb), Continues(td[m], td2[Len(h2)], ModeFor(h2, tb, td2))
      PROVE  /\ Owns(h2, fr2, tb)
             /\ FunctionLeft(td[Len(h)], ModeFor(h, tb, td), td2[Len(h2)], ModeFor(h2, tb, td2))
  BY <1>2, <1>7, FunctionReturns
<1>8. CASE c.op = "lua"
  <2>1. Tops(h, m, c, h2)
    BY <1>8 DEF Returned
  <2>2. /\ Len(h2) = m /\ h2[m] = c /\ m <= Len(h2) /\ \A i \in 1..(m - 1) : h2[i] = h[i]
    BY <2>1, TopIs
  <2>3. Resumes(h, fr, lev, h2, fr2, m, n)
    BY <1>2, <1>3, <1>5, <1>8, <2>1 DEF Resumes
  <2>4. td2[m] = td[m]
    BY <2>3, ResumesSame
  <2>5. Last(td[m]).k \notin {"protected", "handler"}
    BY <1>0, <1>2, <1>8, LuaDoes, LastOfLua
  <2>6. ModeFor(h2, tb, td2) = A!Run
    BY <1>8, <2>2 DEF ModeFor
  <2>7. Owns(h2, fr2, tb)
    <3>1. Alike(c, c)
      BY DEF Alike
    <3> QED
      BY <1>0, <1>6, <2>1, <3>1, OwnsTop
  <2> QED
    BY <1>7, <2>2, <2>4, <2>5, <2>6, <2>7 DEF Continues
<1>9. CASE c.op = "pcall"
  <2>0. m > 1 /\ m - 1 \in 1..Len(h) /\ m - 1 \in 0..Len(h)
    BY <1>2, <1>9
  <2>1. Tops(h, m - 1, h[m - 1], h2)
    BY <1>9 DEF Returned
  <2>2. /\ Len(h2) = m - 1 /\ h2[m - 1] = h[m - 1] /\ m - 1 <= Len(h2)
        /\ \A i \in 1..((m - 1) - 1) : h2[i] = h[i]
    BY <2>1, TopIs
  <2>3. Resumes(h, fr, lev, h2, fr2, m - 1, n)
    <3>1. h[m - 1].op = "lua" /\ lev[m - 1] <= n
      BY <1>2, <1>4, <1>9
    <3> QED
      BY <1>3, <1>5, <2>0, <2>1, <3>1 DEF Resumes
  <2>4. td2[m - 1] = td[m - 1]
    BY <2>3, ResumesSame
  <2>5. td[m] = Append(td[m - 1], A!Protected) /\ td[m - 1] \in Seq(Items(Vars))
    <3>1. JobForm(td[m], fr, tb, c, td[m - 1], Up(h, fr, m))
      BY <1>0, <1>2, TasksHere
    <3>2. td[m - 1] \in Seq(Items(Vars))
      BY <1>0, <2>0, TasksHere
    <3> QED
      BY <1>2, <1>9, <3>1, <3>2 DEF JobForm
  <2>6. ModeFor(h2, tb, td2) = A!Run
    BY <1>2, <1>9, <2>2 DEF ModeFor
  <2>7. Owns(h2, fr2, tb)
    <3>1. Alike(h[m - 1], h[m - 1])
      BY DEF Alike
    <3> QED
      BY <1>0, <1>6, <2>1, <3>1, OwnsTop
  <2> QED
    BY <1>7, <2>2, <2>4, <2>5, <2>6, <2>7 DEF Continues
<1>10. CASE c.op = "close"
  <2>1. PICK b : Tops(h, m, b, h2) /\ CloseLike(c, b) /\ b.ph = "next" /\ b.e = c.e
    BY <1>10 DEF Returned
  <2>2. /\ Len(h2) = m /\ h2[m] = b /\ m <= Len(h2) /\ \A i \in 1..(m - 1) : h2[i] = h[i]
        /\ m \in 1..Len(h2)
    BY <2>1, TopIs
  <2>3. b.op = "close" /\ b.n = c.n
    BY <2>1 DEF CloseLike
  <2>4. td2[m - 1] = td[m - 1]
    <3>1. Leaves(h, fr, tb, lev, h2, fr2, tb, m, n)
      BY <1>2, <1>3, <1>5, <2>2, <2>3, SeenAll DEF Leaves
    <3> QED
      BY <3>1, Beneath
  <2>5. CloseForm(td, h, fr, tb, m)
    BY <1>0, <1>2, <1>10, CloseDoes
  <2>6. PICK y : y = Ground(tb, c, td[m - 1])
    OBVIOUS
  <2>7. PICK mm : mm = Goes(tb, c, td[m - 1])
    OBVIOUS
  <2>8. y \in Seq(Items(Vars)) /\ mm \in Modes /\ td[m] = Append(y, A!Handler(mm))
    BY <1>2, <1>10, <2>5, <2>6, <2>7 DEF CloseForm
  <2>9. /\ Ground(tb, b, td[m - 1]) = Ground(tb, c, td[m - 1])
        /\ Goes(tb, b, td[m - 1]) = Goes(tb, c, td[m - 1])
    BY <2>1 DEF Ground, Goes, CloseLike
  <2>10. td2[m] = y
    <3>1. JobForm(td2[m], fr2, tb, h2[m], td2[m - 1], Up(h2, fr2, m))
      BY <1>0, <2>2, TasksForm
    <3> QED
      BY <2>1, <2>2, <2>3, <2>4, <2>6, <2>9, <3>1 DEF JobForm
  <2>11. ModeFor(h2, tb, td2) = mm
    BY <2>1, <2>2, <2>3, <2>4, <2>7, <2>9 DEF ModeFor
  <2>12. Owns(h2, fr2, tb)
    <3>1. Alike(c, b)
      BY <2>1 DEF Alike, CloseLike
    <3> QED
      BY <1>0, <1>6, <2>1, <3>1, OwnsTop
  <2> QED
    BY <1>7, <2>2, <2>8, <2>10, <2>11, <2>12 DEF Continues
<1> QED
  BY <1>2, <1>8, <1>9, <1>10, ActIs

-----------------------------------------------------------------------------
(* The steps of the interpreter, one by one.                               *)
LEMMA PrefixTops ==
  ASSUME NEW h \in Seq(Acts), NEW m \in 1..Len(h)
  PROVE  Tops(h, m, h[m], SubSeq(h, 1, m))
<1>1. m \in 0..Len(h) /\ m \in Nat \ {0} /\ m <= Len(h) /\ h[m] \in Acts
  <2>1. Len(h) \in Nat
    OBVIOUS
  <2>2. h[m] \in Acts
    BY ElementOfSeq
  <2> QED
    BY <2>1, <2>2
<1>2. /\ SubSeq(h, 1, m) \in Seq(Acts) /\ Len(SubSeq(h, 1, m)) = m
      /\ \A i \in 1..m : SubSeq(h, 1, m)[i] = h[i]
  BY <1>1, PrefixIs
<1>3. m \in 1..m /\ \A i \in 1..(m - 1) : i \in 1..m
  BY <1>1
<1> QED
  BY <1>1, <1>2, <1>3 DEF Tops

LEMMA CutTops ==
  ASSUME NEW h \in Seq(Acts), NEW m \in 1..Len(h), NEW b \in Acts
  PROVE  Tops(h, m, b, Append(SubSeq(h, 1, m - 1), b))
<1>1. Len(h) \in Nat /\ m \in Nat \ {0} /\ m <= Len(h) /\ m - 1 \in 0..Len(h) /\ (m - 1) + 1 = m
  OBVIOUS
<1>2. PICK s : s = SubSeq(h, 1, m - 1)
  OBVIOUS
<1>3. s \in Seq(Acts) /\ Len(s) = m - 1 /\ \A i \in 1..(m - 1) : s[i] = h[i]
  BY <1>1, <1>2, PrefixIs
<1>4. /\ Append(s, b) \in Seq(Acts) /\ Len(Append(s, b)) = Len(s) + 1
      /\ Append(s, b)[Len(s) + 1] = b /\ \A i \in 1..Len(s) : Append(s, b)[i] = s[i]
  BY <1>3, AppendProperties
<1>5. /\ Append(s, b) \in Seq(Acts) /\ Len(Append(s, b)) = m /\ Append(s, b)[m] = b
      /\ \A i \in 1..(m - 1) : Append(s, b)[i] = h[i]
  BY <1>1, <1>3, <1>4
<1> QED
  BY <1>1, <1>2, <1>5 DEF Tops

(* Where the interpreter is, and what it has to do before and after.       *)
At(lev, td, td2) ==
    /\ CloseInv
    /\ Moves(host, frames, tbc, lev, td, host', frames', tbc', td2)

Done(td, td2) ==
    /\ Owns(host', frames', tbc')
    /\ Steps(td[Len(host)], ModeFor(host, tbc, td), got,
             td2[Len(host')], ModeFor(host', tbc', td2), got')

LEMMA AtIs ==
  ASSUME NEW lev, NEW td, NEW td2, At(lev, td, td2)
  PROVE  /\ CloseInv /\ Moves(host, frames, tbc, lev, td, host', frames', tbc', td2)
         /\ Config(host, frames, tbc, lev)
         /\ Len(host) \in Nat \ {0} /\ Len(host) \in 1..Len(host) /\ host \in Seq(Acts)
         /\ Top = host[Len(host)] /\ Top \in Acts
         /\ Fits(host, Len(host), lev, frames) /\ TopFits(Top, lev[Len(host)], frames, tbc)
         /\ Top.op # "lua" => Len(host) > 1 /\ Sits(host[Len(host) - 1], Top)
                              /\ Len(host) - 1 \in 1..Len(host)
         /\ Front(host) = SubSeq(host, 1, Len(host) - 1)
         /\ \A b \in Acts : Tops(host, Len(host), b, WithTop(b))
<1>1. CloseInv /\ Moves(host, frames, tbc, lev, td, host', frames', tbc', td2)
      /\ Config(host, frames, tbc, lev)
  BY DEF At, Moves
<1>2. /\ Len(host) \in Nat \ {0} /\ host \in Seq(Acts) /\ Top = host[Len(host)] /\ Top \in Acts
      /\ Front(host) = SubSeq(host, 1, Len(host) - 1)
  BY <1>1, Standing
<1>3. Len(host) \in 1..Len(host)
  BY <1>2
<1>4. Fits(host, Len(host), lev, frames) /\ TopFits(Top, lev[Len(host)], frames, tbc)
  BY <1>1, <1>2, <1>3, ConfigIs
<1>5. Top.op # "lua" => Len(host) > 1 /\ Sits(host[Len(host) - 1], Top)
                        /\ Len(host) - 1 \in 1..Len(host)
  <2> SUFFICES ASSUME Top.op # "lua"
               PROVE  Len(host) > 1 /\ Sits(host[Len(host) - 1], Top)
                      /\ Len(host) - 1 \in 1..Len(host)
    OBVIOUS
  <2>1. Len(host) # 1
    BY <1>2, <1>4 DEF Fits
  <2>2. Len(host) > 1 /\ Len(host) - 1 \in 1..Len(host)
    <3>1. \A n \in Nat \ {0} : n # 1 => n > 1 /\ n - 1 \in 1..n
      OBVIOUS
    <3> QED
      BY <1>2, <2>1, <3>1
  <2> QED
    BY <1>2, <1>4, <2>2 DEF Fits
<1>6. ASSUME NEW b \in Acts PROVE Tops(host, Len(host), b, WithTop(b))
  <2>1. WithTop(b) = Append(SubSeq(host, 1, Len(host) - 1), b)
    BY <1>1, <1>2, WithTopIs
  <2> QED
    BY <1>2, <1>3, <2>1, CutTops
<1> QED
  BY <1>1, <1>2, <1>3, <1>4, <1>5, <1>6

LEMMA CallGoes ==
  ASSUME NEW lev, NEW td, NEW td2, At(lev, td, td2), Call
  PROVE  Done(td, td2)
<1>1. PICK f \in Id :
        /\ InGuest /\ Fresh(f)
        /\ \/ host' = Append(host, Lua(f))
           \/ host' = host \o <<Pcall, Lua(f)>>
        /\ frames' = Append(frames, f) /\ depth' = depth + 1
        /\ tbc' = [tbc EXCEPT ![f] = <<>>] /\ got' = got
  BY DEF Call
<1>2. CloseInv /\ Top = host[Len(host)] /\ host \in Seq(Acts)
  BY AtIs
<1>3. host[Len(host)].op = "lua"
  BY <1>1, <1>2 DEF InGuest
<1>4. ~Known(host, frames, f)
  BY <1>1, <1>2, InUseIs DEF Fresh
<1>5. tbc[f] = <<>> /\ tbc \in [Id -> Seq(Vars)]
  BY <1>2, <1>4 DEF CloseInv, Forgets, Basics
<1>6. tbc' = tbc
  BY <1>1, <1>5
<1>7. Moves(host, frames, tbc, lev, td, host', frames', tbc, td2)
  BY <1>6, AtIs
<1>8. Lua(f) \in Acts /\ Lua(f).op = "lua" /\ Lua(f).f = f
  BY LuaIs, SMTT(30)
<1>9. PICK a : a = Lua(f)
  OBVIOUS
<1>10. a \in Acts /\ a.op = "lua" /\ a.f = f
  BY <1>8, <1>9
<1>11. NewFrame(host, frames, tbc, a, frames')
  BY <1>1, <1>3, <1>4, <1>5, <1>10 DEF NewFrame, Grows
<1>12. ModeFor(host, tbc, td) = A!Run
  BY <1>3 DEF ModeFor
<1>13. CASE host' = Append(host, Lua(f))
  <2>1. Grows(host, a, host')
    BY <1>9, <1>13 DEF Grows
  <2>2. /\ Owns(host', frames', tbc) /\ host'[Len(host')].op = "lua"
        /\ td2[Len(host')] = Append(td[Len(host)], A!Fn)
    BY <1>7, <1>11, <2>1, CallSteps
  <2>3. ModeFor(host', tbc', td2) = A!Run
    BY <2>2 DEF ModeFor
  <2> QED
    BY <1>1, <1>6, <1>12, <2>2, <2>3 DEF Done, Steps, Enters
<1>14. CASE host' = host \o <<Pcall, Lua(f)>>
  <2>1. PICK p : p = Pcall
    OBVIOUS
  <2>2. p \in Acts /\ p.op = "pcall" /\ p.ph = "body"
    BY <1>2, <2>1, Standing, PcallIs
  <2>3. PICK h1 : Grows(host, p, h1)
    BY DEF Grows
  <2>4. Grows(h1, a, host')
    <3>1. host' = host \o <<p, a>>
      BY <1>9, <1>14, <2>1
    <3>2. Append(Append(host, p), a) = host \o <<p, a>>
      BY <1>2, <1>10, <2>2
    <3> QED
      BY <2>3, <3>1, <3>2 DEF Grows
  <2>5. /\ Owns(host', frames', tbc) /\ host'[Len(host')].op = "lua"
        /\ td2[Len(host')] = td[Len(host)] \o <<A!Protected, A!Fn>>
    <3>1. PcallOf(host, frames, tbc, p, a, host', frames')
      BY <1>11, <2>2, <2>3, <2>4 DEF PcallOf
    <3> QED
      BY <1>7, <3>1, PcallSteps, SMTT(30)
  <2>6. ModeFor(host', tbc', td2) = A!Run
    BY <2>5 DEF ModeFor
  <2> QED
    BY <1>1, <1>6, <1>12, <2>5, <2>6 DEF Done, Steps, Enters
<1> QED
  BY <1>1, <1>13, <1>14

LEMMA DeclareGoes ==
  ASSUME NEW lev, NEW td, NEW td2, At(lev, td, td2), NEW v \in Vars, Declare(v)
  PROVE  Done(td, td2)
<1>1. /\ InGuest /\ tbc' = [tbc EXCEPT ![Frame] = Append(@, v)]
      /\ \A f \in InUse : v \notin ToSet(tbc[f])
      /\ host' = host /\ frames' = frames /\ got' = got
  BY DEF Declare
<1>2. CloseInv /\ Top = host[Len(host)] /\ Config(host, frames, tbc, lev)
  BY AtIs
<1>3. host[Len(host)].op = "lua" /\ Declares(host, tbc, v, tbc')
  BY <1>1, <1>2 DEF InGuest, Declares, Frame
<1>4. Moves(host, frames, tbc, lev, td, host, frames, tbc', td2) /\ Doing(td, host, frames, tbc)
  BY <1>1, AtIs DEF Moves
<1>5. A!Var(v) \notin ToSet(td[Len(host)])
  <2>1. \A f \in Id : Known(host, frames, f) => v \notin ToSet(tbc[f])
    BY <1>1, <1>2, InUseIs
  <2> QED
    BY <1>2, <1>4, <2>1, NewVar
<1>6. Owns(host, frames, tbc') /\ td2[Len(host)] = Append(td[Len(host)], A!Var(v))
  BY <1>3, <1>4, DeclareSteps
<1>7. ModeFor(host, tbc, td) = A!Run /\ ModeFor(host', tbc', td2) = A!Run
  BY <1>1, <1>3 DEF ModeFor
<1>8. Enters(td[Len(host)], A!Run, td2[Len(host')], A!Run)
  BY <1>1, <1>5, <1>6 DEF Enters
<1> QED
  BY <1>1, <1>6, <1>7, <1>8 DEF Done, Steps

LEMMA ExitGoes ==
  ASSUME NEW lev, NEW td, NEW td2, At(lev, td, td2),
         NEW keep \in Nat, NEW how \in {"block", "return"}, Exit(keep, how)
  PROVE  Done(td, td2)
<1>1. PICK a : a = CloseOf(Frame, keep, how, None, Len(frames))
  OBVIOUS
<1>2. /\ InGuest /\ keep <= Len(tbc[Frame]) /\ (how = "return" => keep = 0 /\ Len(host) > 1)
      /\ host' = Append(host, a)
      /\ frames' = frames /\ tbc' = tbc /\ got' = got
  BY <1>1 DEF Exit
<1>3. CloseInv /\ Top = host[Len(host)] /\ Top \in Acts /\ Len(frames) \in Nat /\ depth \in Nat
  BY AtIs, Standing
<1>4. host[Len(host)].op = "lua" /\ Frame = host[Len(host)].f /\ Frame \in Id
  BY <1>2, <1>3, ActIs DEF InGuest, Frame
<1>5. /\ a \in Acts /\ a.op = "close" /\ a.f = Frame /\ a.keep = keep /\ a.how = how
      /\ a.e = None /\ a.ph = "next"
  <2>1. how \in {"block", "return", "error"} /\ None \in Errs \cup {None}
    OBVIOUS
  <2>2. PICK f : f = Frame
    OBVIOUS
  <2>3. a = CloseOf(f, keep, how, None, Len(frames)) /\ f \in Id
    BY <1>1, <1>4, <2>2
  <2> QED
    BY <1>3, <2>1, <2>2, <2>3, CloseOfIs, SMTT(30)
<1>6. Grows(host, a, host') /\ Moves(host, frames, tbc, lev, td, host', frames, tbc, td2)
  BY <1>2, AtIs DEF Grows
<1>7. /\ Owns(host', frames, tbc)
      /\ Exits(td[Len(host)], A!Run, td2[Len(host')], ModeFor(host', tbc, td2))
  BY <1>2, <1>4, <1>5, <1>6, ExitSteps
<1>8. ModeFor(host, tbc, td) = A!Run
  BY <1>4 DEF ModeFor
<1> QED
  BY <1>2, <1>7, <1>8 DEF Done, Steps

LEMMA ScopeLike ==
  ASSUME NEW a, NEW b, SameScope(a, b)
  PROVE  CloseLike(a, b) /\ (b.e = a.e => CatchesLike(a, b))
BY DEF SameScope, CloseLike, CatchesLike

LEMMA NoHandlerGoes ==
  ASSUME NEW lev, NEW td, NEW td2, At(lev, td, td2), NEW e \in Errs, NoHandler(e)
  PROVE  Done(td, td2)
<1>1. PICK b : b = [Top EXCEPT !.e = e]
  OBVIOUS
<1>2. /\ Top.op = "close" /\ Top.ph = "next" /\ Len(tbc[Frame]) > Top.keep /\ InPcall
      /\ tbc' = [tbc EXCEPT ![Frame] = Front(@)] /\ host' = WithTop(b)
      /\ frames' = frames /\ got' = got
  BY <1>1 DEF NoHandler, InClose
<1>3. CloseInv /\ Top = host[Len(host)] /\ Top \in Acts
  BY AtIs
<1>4. b \in Acts /\ CloseLike(Top, b) /\ b.ph = "next" /\ b.e = e
  BY <1>1, <1>2, <1>3, EditError, ScopeLike
<1>5. Takes(host, tbc, tbc')
  <2>1. Len(tbc[Frame]) # 0
    <3>1. Top.keep \in Nat /\ tbc[Frame] \in Seq(Vars)
      BY <1>2, <1>3, ActIs, Standing DEF Frame
    <3>2. Len(tbc[Frame]) \in Nat
      BY <3>1, LenProperties
    <3> QED
      BY <1>2, <3>1, <3>2
  <2>2. tbc[Frame] # <<>>
    BY <2>1, EmptySeq
  <2> QED
    BY <1>2, <1>3, <2>2 DEF Takes, Shorter, Frame
<1>6. Tops(host, Len(host), b, host') /\ CloseLike(host[Len(host)], b)
  BY <1>2, <1>3, <1>4, AtIs
<1>7. \E k \in 1..Len(host) : host[k].op = "pcall"
  BY <1>2, <1>3, Standing DEF InPcall
<1>8. Moves(host, frames, tbc, lev, td, host', frames, tbc', td2)
  BY <1>2, AtIs
<1>9. /\ Owns(host', frames, tbc')
      /\ CannotClose(td[Len(host)], ModeFor(host, tbc, td),
                     td2[Len(host')], ModeFor(host', tbc', td2))
  BY <1>4, <1>5, <1>6, <1>7, <1>8, NoHandlerSteps
<1> QED
  BY <1>2, <1>9 DEF Done, Steps

LEMMA CloseNextGoes ==
  ASSUME NEW lev, NEW td, NEW td2, At(lev, td, td2), CloseNext
  PROVE  Done(td, td2)
<1>1. PICK b : b = [Top EXCEPT !.ph = "body"]
  OBVIOUS
<1>2. PICK g \in Id :
        /\ Top.op = "close" /\ Top.ph = "next" /\ Len(tbc[Frame]) > Top.keep /\ Fresh(g)
        /\ frames' = Append(SubSeq(frames, 1, Top.n), g)
        /\ tbc' = [tbc EXCEPT ![Frame] = Front(@), ![g] = <<>>]
        /\ host' = Append(WithTop(b), Lua(g)) /\ got' = got
  BY <1>1 DEF CloseNext, InClose, CallHandler
<1>3. /\ CloseInv /\ Top = host[Len(host)] /\ Top \in Acts
      /\ TopFits(Top, lev[Len(host)], frames, tbc) /\ Fits(host, Len(host), lev, frames)
  BY AtIs
<1>4. b \in Acts /\ CloseLike(Top, b) /\ b.ph = "body" /\ b.e = Top.e
  BY <1>1, <1>2, <1>3, EditPhase, ScopeLike, ZenonT(40)
<1>5. ~Known(host, frames, g)
  BY <1>2, <1>3, InUseIs DEF Fresh
<1>6. tbc[g] = <<>> /\ tbc \in [Id -> Seq(Vars)] /\ frames \in Seq(Id) /\ Len(frames) \in Nat
  BY <1>3, <1>5, Standing DEF CloseInv, Forgets
<1>7. g # Frame /\ Frame \in Id
  <2>1. OnHost(host, Top.f)
    BY <1>2, <1>3, AtIs DEF OnHost
  <2> QED
    BY <1>2, <1>3, <1>5, <2>1, ActIs DEF Known, Frame
<1>8. tbc[Frame] # <<>>
  <2>1. Top.keep \in Nat /\ tbc[Frame] \in Seq(Vars)
    BY <1>2, <1>3, <1>6, <1>7, ActIs
  <2>2. Len(tbc[Frame]) \in Nat
    BY <2>1, LenProperties
  <2>3. Len(tbc[Frame]) # 0
    BY <1>2, <2>1, <2>2
  <2> QED
    BY <2>3, EmptySeq
<1>9. Takes(host, tbc, tbc')
  <2>1. tbc' = [tbc EXCEPT ![Frame] = Front(tbc[Frame])]
    <3>1. PICK x : x = Front(tbc[Frame])
      OBVIOUS
    <3>2. tbc' = [[tbc EXCEPT ![Frame] = x] EXCEPT ![g] = <<>>]
      BY <1>2, <3>1
    <3>3. [[tbc EXCEPT ![Frame] = x] EXCEPT ![g] = <<>>] = [tbc EXCEPT ![Frame] = x]
      BY <1>6, <1>7
    <3> QED
      BY <3>1, <3>2, <3>3
  <2> QED
    BY <1>2, <1>3, <1>8, <2>1 DEF Takes, Shorter, Frame
<1>10. PICK h1 : h1 = WithTop(b)
  OBVIOUS
<1>11. PICK a : a = Lua(g)
  OBVIOUS
<1>12. /\ a \in Acts /\ a.op = "lua" /\ ~Known(host, frames, a.f) /\ tbc[a.f] = <<>> /\ a.f = g
  BY <1>5, <1>6, <1>11, LuaIs
<1>13. /\ Tops(host, Len(host), b, h1) /\ CloseLike(host[Len(host)], b)
       /\ b.e = host[Len(host)].e
  BY <1>3, <1>4, <1>10, AtIs
<1>14. Grows(h1, a, host')
  BY <1>2, <1>10, <1>11 DEF Grows
<1>15. Restarts(frames, host[Len(host)].n, a.f, frames')
  <2>1. PICK n : n = Top.n
    OBVIOUS
  <2>2. n \in 0..Len(frames) /\ n \in Nat
    <3>1. n \in Nat /\ n <= Len(frames)
      BY <1>2, <1>3, <1>6, <2>1, ActIs DEF Fits, TopFits
    <3> QED
      BY <1>6, <3>1
  <2>3. PICK s : s = SubSeq(frames, 1, n)
    OBVIOUS
  <2>4. s \in Seq(Id) /\ Len(s) = n /\ \A k \in 1..n : s[k] = frames[k]
    BY <1>6, <2>2, <2>3, PrefixIs
  <2>5. frames' = Append(s, g)
    BY <1>2, <2>1, <2>3
  <2>6. /\ frames' \in Seq(Id) /\ Len(frames') = n + 1 /\ frames'[n + 1] = g
        /\ \A k \in 1..n : frames'[k] = frames[k]
    BY <2>4, <2>5, FramesAppend
  <2> QED
    BY <1>3, <1>12, <2>1, <2>6 DEF Restarts
<1>16. Moves(host, frames, tbc, lev, td, host', frames', tbc', td2)
  BY AtIs
<1>17. /\ Owns(host', frames', tbc')
       /\ ClosesVar(td[Len(host)], ModeFor(host, tbc, td),
                    td2[Len(host')], ModeFor(host', tbc', td2))
  BY <1>4, <1>9, <1>12, <1>13, <1>14, <1>15, <1>16, CloseNextSteps
<1> QED
  BY <1>2, <1>17 DEF Done, Steps

LEMMA LeftDoneGoes ==
  ASSUME NEW lev, NEW td, NEW td2, At(lev, td, td2), LeftDone
  PROVE  Done(td, td2)
<1>1. PICK b : b = [Top EXCEPT !.ph = "next", !.e = Top.err, !.err = None]
  OBVIOUS
<1>2. /\ Top.op = "close" /\ Top.ph = "left" /\ Top.j <= Top.n /\ host' = WithTop(b)
      /\ frames' = frames /\ tbc' = tbc /\ got' = got
  BY <1>1 DEF LeftDone, InClose
<1>3. CloseInv /\ Top = host[Len(host)] /\ Top \in Acts
  BY AtIs
<1>4. b \in Acts /\ CloseLike(Top, b) /\ b.ph = "next" /\ b.e = Top.err
  <2>1. Top.err \in Errs
    BY <1>2, <1>3, ActIs
  <2>2. PICK a \in Acts : a = Top
    BY <1>3
  <2>3. PICK e \in Errs \cup {None} : e = Top.err
    BY <2>1
  <2>4. b = [a EXCEPT !.ph = "next", !.e = e, !.err = None] /\ a.op = "close" /\ a.ph = "left"
    BY <1>1, <1>2, <2>2, <2>3
  <2>5. a \in Lefts
    BY <2>4, ActIs DEF Acts, LuaActs, Bodies, Unwinds, Closes, Lefts
  <2>6. b \in Closes /\ CloseLike(a, b) /\ b.ph = "next" /\ b.e = e
    BY <2>4, <2>5 DEF Closes, Lefts, CloseLike
  <2> QED
    BY <2>2, <2>3, <2>6 DEF Acts
<1>5. LeftEnds(host[Len(host)], b) /\ Tops(host, Len(host), b, host')
  BY <1>2, <1>3, <1>4, AtIs DEF LeftEnds, CloseLike
<1>6. Moves(host, frames, tbc, lev, td, host', frames, tbc, td2)
  BY <1>2, AtIs
<1>7. /\ Owns(host', frames, tbc)
      /\ Absorbs(td[Len(host)], ModeFor(host, tbc, td),
                 td2[Len(host')], ModeFor(host', tbc, td2))
  BY <1>5, <1>6, LeftDoneSteps
<1> QED
  BY <1>2, <1>7 DEF Done, Steps

(* What is below the innermost activation is on top.                       *)
LEMMA BelowTops ==
  ASSUME NEW lev, NEW td, NEW td2, At(lev, td, td2), Top.op # "lua"
  PROVE  /\ Tops(host, Len(host) - 1, host[Len(host) - 1], Front(host)) /\ Len(host) > 1
         /\ \A b \in Acts : Tops(host, Len(host) - 1, b, Append(Front(Front(host)), b))
         /\ Last(Front(host)) = host[Len(host) - 1] /\ host[Len(host) - 1] \in Acts
<1>1. /\ host \in Seq(Acts) /\ Len(host) - 1 \in 1..Len(host) /\ Len(host) > 1
      /\ Front(host) = SubSeq(host, 1, Len(host) - 1) /\ Len(host) \in Nat \ {0}
  BY AtIs
<1>2. Tops(host, Len(host) - 1, host[Len(host) - 1], Front(host))
  BY <1>1, PrefixTops
<1>3. Front(Front(host)) = SubSeq(host, 1, (Len(host) - 1) - 1)
  <2>1. /\ Front(host) \in Seq(Acts) /\ Len(Front(host)) = Len(host) - 1
    BY <1>2 DEF Tops
  <2>2. Front(host) # <<>>
    <3>1. \A n \in Nat \ {0} : n > 1 => n - 1 # 0
      OBVIOUS
    <3> QED
      BY <1>1, <2>1, <3>1, EmptySeq
  <2>3. Front(Front(host)) = SubSeq(Front(host), 1, Len(Front(host)) - 1)
    BY <2>1, <2>2, FrontLast
  <2>4. Len(host) - 1 \in 0..Len(host) /\ (Len(host) - 1) - 1 \in 0..(Len(host) - 1)
    BY <1>1
  <2>5. SubSeq(SubSeq(host, 1, Len(host) - 1), 1, (Len(host) - 1) - 1)
          = SubSeq(host, 1, (Len(host) - 1) - 1)
    BY <1>1, <2>4, PrefixOfPrefix
  <2> QED
    BY <1>1, <2>1, <2>3, <2>5
<1>4. ASSUME NEW b \in Acts PROVE Tops(host, Len(host) - 1, b, Append(Front(Front(host)), b))
  BY <1>1, <1>3, CutTops
<1>5. Last(Front(host)) = host[Len(host) - 1] /\ host[Len(host) - 1] \in Acts
  <2>1. Len(Front(host)) = Len(host) - 1 /\ Front(host)[Len(host) - 1] = host[Len(host) - 1]
        /\ host[Len(host) - 1] \in Acts
    BY <1>2 DEF Tops
  <2> QED
    BY <2>1 DEF Last
<1> QED
  BY <1>1, <1>2, <1>4, <1>5

LEMMA BlockDoneGoes ==
  ASSUME NEW lev, NEW td, NEW td2, At(lev, td, td2), BlockDone
  PROVE  Done(td, td2)
<1>1. /\ Top.op = "close" /\ Top.ph = "next" /\ Top.how = "block" /\ Top.e = None
      /\ Len(tbc[Top.f]) <= Top.keep /\ host' = Front(host)
      /\ frames' = frames /\ tbc' = tbc /\ got' = got
  BY DEF BlockDone, Closed, InClose, Below, Frame
<1>2. Top = host[Len(host)]
  BY AtIs
<1>3. Len(host) > 1 /\ Tops(host, Len(host) - 1, host[Len(host) - 1], host')
  BY <1>1, BelowTops
<1>4. Moves(host, frames, tbc, lev, td, host', frames, tbc, td2)
  BY <1>1, AtIs
<1>5. /\ Owns(host', frames, tbc)
      /\ ScopeLeft(td[Len(host)], ModeFor(host, tbc, td),
                   td2[Len(host')], ModeFor(host', tbc, td2))
  BY <1>1, <1>2, <1>3, <1>4, BlockDoneSteps
<1> QED
  BY <1>1, <1>5 DEF Done, Steps

LEMMA ErrorDoneGoes ==
  ASSUME NEW lev, NEW td, NEW td2, At(lev, td, td2), ErrorDone
  PROVE  Done(td, td2)
<1>1. PICK b : b = [Last(Front(host)) EXCEPT !.err = Top.e]
  OBVIOUS
<1>2. /\ Top.op = "close" /\ Top.ph = "next" /\ Top.how = "error"
      /\ Len(tbc[Top.f]) <= Top.keep /\ host' = Append(Front(Front(host)), b)
      /\ frames' = frames /\ tbc' = tbc /\ got' = got
  BY <1>1 DEF ErrorDone, Closed, InClose, Below, Frame
<1>3. /\ Top = host[Len(host)] /\ Top \in Acts /\ Fits(host, Len(host), lev, frames)
      /\ Sits(host[Len(host) - 1], Top)
  BY <1>2, AtIs
<1>4. PICK c : c = host[Len(host) - 1]
  OBVIOUS
<1>5. /\ c \in Acts /\ b = [c EXCEPT !.err = Top.e] /\ Len(host) > 1
      /\ \A x \in Acts : Tops(host, Len(host) - 1, x, Append(Front(Front(host)), x))
  BY <1>1, <1>2, <1>4, BelowTops
<1>6. Top.e \in Errs
  BY <1>2, <1>3 DEF Fits
<1>7. c.op # "lua" /\ c.ph \in {"left", "unwind"}
  BY <1>2, <1>3, <1>4 DEF Sits
<1>8. b \in Acts /\ TakesError(c, b, Top.e)
  <2>1. PICK e \in Errs : e = Top.e
    BY <1>6
  <2>2. /\ b \in Acts /\ b.op = c.op /\ b.ph = c.ph /\ b.n = c.n
        /\ (c.op = "close" => SameScope(c, b) /\ b.e = c.e /\ b.j = c.j)
    BY <1>5, <1>7, <2>1, EditErr
  <2>3. b.err = Top.e
    <3>1. c \in Unwinds \/ c \in Lefts
      BY <1>5, <1>7, ActIs
    <3> QED
      BY <1>5, <3>1 DEF Unwinds, Lefts
  <2> QED
    BY <2>2, <2>3 DEF TakesError, CatchesLike, SameScope
<1>9. Tops(host, Len(host) - 1, b, host')
  BY <1>2, <1>5, <1>8
<1>10. TakesError(host[Len(host) - 1], b, host[Len(host)].e)
  BY <1>3, <1>4, <1>8
<1>11. Moves(host, frames, tbc, lev, td, host', frames, tbc, td2)
  BY <1>2, AtIs
<1>12. /\ Owns(host', frames, tbc) /\ td2[Len(host')] = td[Len(host)]
       /\ ModeFor(host', tbc, td2) = ModeFor(host, tbc, td)
  <2>1. /\ host[Len(host)].op = "close" /\ host[Len(host)].ph = "next"
        /\ host[Len(host)].how = "error" /\ Len(host) > 1
        /\ Len(tbc[host[Len(host)].f]) <= host[Len(host)].keep
    BY <1>2, <1>3, <1>5
  <2> QED
    BY <1>9, <1>10, <1>11, <2>1, ErrorDoneSteps
<1> QED
  BY <1>2, <1>12 DEF Done, Steps

LEMMA DeliverGoes ==
  ASSUME NEW lev, NEW td, NEW td2, At(lev, td, td2), Deliver
  PROVE  Done(td, td2)
<1>1. /\ Top.op = "pcall" /\ Top.ph = "unwind" /\ Len(frames) <= Top.n
      /\ host' = Front(host) /\ got' = Top.err
      /\ frames' = frames /\ tbc' = tbc
  BY DEF Deliver, InUnwind, Below
<1>2. Top = host[Len(host)]
  BY AtIs
<1>3. Len(host) > 1 /\ Tops(host, Len(host) - 1, host[Len(host) - 1], host')
  BY <1>1, BelowTops
<1>4. Moves(host, frames, tbc, lev, td, host', frames, tbc, td2)
  BY <1>1, AtIs
<1>5. Unwinding(host[Len(host)]) /\ Len(frames) <= host[Len(host)].n
  BY <1>1, <1>2 DEF Unwinding
<1>6. /\ Owns(host', frames, tbc)
      /\ Delivers(td[Len(host)], ModeFor(host, tbc, td),
                  td2[Len(host')], ModeFor(host', tbc, td2), host[Len(host)].err)
  BY <1>3, <1>4, <1>5, DeliverSteps
<1> QED
  BY <1>1, <1>2, <1>6 DEF Done, Steps

LEMMA UnwindGoes ==
  ASSUME NEW lev, NEW td, NEW td2, At(lev, td, td2), Unwind
  PROVE  Done(td, td2)
<1>1. PICK a : a = CloseOf(Last(frames), 0, "error", Top.err, Len(frames) - 1)
  OBVIOUS
<1>2. /\ Top.op = "pcall" /\ Top.ph = "unwind" /\ Len(frames) > Top.n /\ frames' = Front(frames)
      /\ host' = (IF tbc[Last(frames)] = <<>> THEN host ELSE Append(host, a))
      /\ tbc' = tbc /\ got' = got
  BY <1>1 DEF Unwind, InUnwind
<1>3. /\ CloseInv /\ Top = host[Len(host)] /\ Top \in Acts
      /\ frames \in Seq(Id) /\ Len(frames) \in Nat /\ depth \in Nat
  BY AtIs, Standing
<1>4. Top.n \in Nat /\ Top.err \in Errs /\ frames # <<>>
  <2>1. Top.n \in Nat /\ Top.err \in Errs
    BY <1>2, <1>3, ActIs
  <2>2. Len(frames) # 0
    BY <1>2, <1>3, <2>1
  <2> QED
    BY <2>1, <2>2, EmptySeq
<1>5. PICK n : Drops(frames, frames', n) /\ Last(frames) = frames[n + 1]
  BY <1>2, <1>3, <1>4, DropsIs
<1>6. n \in Nat /\ Len(frames) = n + 1 /\ Len(frames) - 1 = n /\ Top.n <= n
  <2>1. n \in Nat /\ Len(frames) = n + 1
    BY <1>5 DEF Drops
  <2> QED
    BY <1>2, <1>4, <2>1
<1>7. Unwinding(host[Len(host)]) /\ host[Len(host)].n <= n
  BY <1>2, <1>3, <1>6 DEF Unwinding
<1>8. CASE tbc[Last(frames)] = <<>>
  <2>1. host' = host /\ Moves(host, frames, tbc, lev, td, host, frames', tbc, td2)
    BY <1>2, <1>8, AtIs
  <2>2. tbc[frames[n + 1]] = <<>>
    BY <1>5, <1>8
  <2>3. Drops(frames, frames', n)
    BY <1>5
  <2>4. /\ Owns(host, frames', tbc) /\ td2[Len(host)] = td[Len(host)]
        /\ ModeFor(host, tbc, td2) = ModeFor(host, tbc, td)
    BY <1>7, <2>1, <2>2, <2>3, UnwindSteps
  <2> QED
    BY <1>2, <2>1, <2>4 DEF Done, Steps
<1>9. CASE tbc[Last(frames)] # <<>>
  <2>1. Grows(host, a, host') /\ Moves(host, frames, tbc, lev, td, host', frames', tbc, td2)
    BY <1>2, <1>9, AtIs DEF Grows
  <2>2. Last(frames) \in Id
    BY <1>3, <1>4, FrontLast
  <2>3. ClosesFrame(a, frames[n + 1], host[Len(host)].err) /\ a.n = n
    <3>1. PICK f \in Id : f = Last(frames)
      BY <2>2
    <3>2. PICK e \in Errs : e = Top.err
      BY <1>4
    <3>3. a = CloseOf(f, 0, "error", e, n)
      BY <1>1, <1>6, <3>1, <3>2
    <3>4. /\ a \in Acts /\ a.op = "close" /\ a.f = f /\ a.keep = 0 /\ a.how = "error"
          /\ a.e = e /\ a.n = n /\ a.ph = "next"
      BY <1>3, <1>6, <3>3, CloseOfError
    <3> QED
      BY <1>3, <1>5, <3>1, <3>2, <3>4 DEF ClosesFrame
  <2>4. Drops(frames, frames', n)
    BY <1>5
  <2>5. /\ Owns(host', frames', tbc) /\ td2[Len(host')] = td[Len(host)]
        /\ ModeFor(host', tbc, td2) = ModeFor(host, tbc, td)
    BY <1>7, <2>1, <2>3, <2>4, UnwindCloses
  <2> QED
    BY <1>2, <2>5 DEF Done, Steps
<1> QED
  BY <1>8, <1>9

LEMMA LeftNextGoes ==
  ASSUME NEW lev, NEW td, NEW td2, At(lev, td, td2), LeftNext
  PROVE  Done(td, td2)
<1>1. PICK b : b = [Top EXCEPT !.j = @ - 1]
  OBVIOUS
<1>2. PICK f : f = frames[Top.j]
  OBVIOUS
<1>3. PICK a : a = CloseOf(f, 0, "error", Top.err, Len(frames))
  OBVIOUS
<1>4. /\ Top.op = "close" /\ Top.ph = "left" /\ Top.j > Top.n
      /\ host' = (IF tbc[f] = <<>> THEN WithTop(b) ELSE Append(WithTop(b), a))
      /\ frames' = frames /\ tbc' = tbc /\ got' = got
  BY <1>1, <1>2, <1>3 DEF LeftNext, InClose
<1>5. /\ CloseInv /\ Top = host[Len(host)] /\ Top \in Acts
      /\ TopFits(Top, lev[Len(host)], frames, tbc)
      /\ Len(frames) \in Nat /\ depth \in Nat /\ \A k \in 1..Len(frames) : frames[k] \in Id
  BY AtIs, Standing
<1>6. Top.n \in Nat /\ Top.j \in Nat /\ Top.err \in Errs /\ Top.j # 0 /\ Top.j <= Len(frames)
  BY <1>4, <1>5, ActIs DEF TopFits
<1>7. /\ b \in Acts /\ SameScope(Top, b) /\ b.ph = "left" /\ b.e = Top.e /\ b.j = Top.j - 1
  BY <1>1, <1>4, <1>5, <1>6, EditFinger
<1>8. b.err = Top.err
  <2>1. Top \in Lefts
    BY <1>4, <1>5, ActIs
  <2> QED
    BY <1>1, <2>1 DEF Lefts
<1>9. PICK n : n \in Nat /\ Top.j = n + 1 /\ Top.n <= n /\ Top.j - 1 = n
  <2>1. Top.j - 1 \in Nat /\ Top.j = (Top.j - 1) + 1 /\ Top.n <= Top.j - 1
    BY <1>4, <1>6
  <2> QED
    BY <2>1
<1>10. FingerDown(host[Len(host)], b, n)
  <2>1. CatchesLike(Top, b) /\ b.n = Top.n
    BY <1>7, ScopeLike DEF SameScope
  <2> QED
    BY <1>4, <1>5, <1>7, <1>8, <1>9, <2>1 DEF FingerDown, Failed
<1>11. f = frames[n + 1]
  BY <1>2, <1>9
<1>12. CASE tbc[f] = <<>>
  <2>1. Tops(host, Len(host), b, host')
    BY <1>4, <1>7, <1>12, AtIs
  <2>2. Moves(host, frames, tbc, lev, td, host', frames, tbc, td2)
    BY <1>4, AtIs
  <2>3. tbc[frames[n + 1]] = <<>>
    BY <1>11, <1>12
  <2>4. /\ Owns(host', frames, tbc) /\ td2[Len(host')] = td[Len(host)]
        /\ ModeFor(host', tbc, td2) = ModeFor(host, tbc, td)
    BY <1>10, <2>1, <2>2, <2>3, LeftNextSteps
  <2> QED
    BY <1>4, <2>4 DEF Done, Steps
<1>13. CASE tbc[f] # <<>>
  <2>1. PICK h1 : h1 = WithTop(b)
    OBVIOUS
  <2>2. Tops(host, Len(host), b, h1)
    BY <1>7, <2>1, AtIs
  <2>3. Grows(h1, a, host')
    BY <1>4, <1>13, <2>1 DEF Grows
  <2>4. Moves(host, frames, tbc, lev, td, host', frames, tbc, td2)
    BY <1>4, AtIs
  <2>5. ClosesFrame(a, frames[n + 1], host[Len(host)].err)
    <3>1. f \in Id
      <4>1. Top.j \in 1..Len(frames)
        BY <1>5, <1>6
      <4> QED
        BY <1>2, <1>5, <4>1
    <3>2. PICK e \in Errs : e = Top.err
      BY <1>6
    <3>3. /\ a \in Acts /\ a.op = "close" /\ a.f = f /\ a.keep = 0 /\ a.how = "error"
          /\ a.e = e /\ a.ph = "next"
      BY <1>3, <1>5, <3>1, <3>2, CloseOfError
    <3> QED
      BY <1>5, <1>11, <3>2, <3>3 DEF ClosesFrame
  <2>6. /\ Owns(host', frames, tbc) /\ td2[Len(host')] = td[Len(host)]
        /\ ModeFor(host', tbc, td2) = ModeFor(host, tbc, td)
    <3>1. LeftCloses(host, frames, b, n, a, host')
      BY <1>10, <2>2, <2>3, <2>5 DEF LeftCloses
    <3> QED
      BY <2>4, <3>1, LeftNextCloses
  <2> QED
    BY <1>4, <2>6 DEF Done, Steps
<1> QED
  BY <1>12, <1>13

-----------------------------------------------------------------------------
(* An error is thrown in activation u.                                     *)
LEMMA Thrown ==
  ASSUME NEW lev, NEW td, NEW td2, At(lev, td, td2), NEW e \in Errs, NEW u \in 1..Len(host),
         host[u].op = "lua", Throw(e, u)
  PROVE  \E i \in 1..u : \E b :
            /\ \A k \in (i + 1)..u : host[k].op = "lua"
            /\ Tops(host, i, b, host') /\ Catcher(host[i], b, e, Len(frames))
<1>1. PICK i \in 1..u :
        /\ Catching(host[i]) /\ \A j \in (i + 1)..u : ~Catching(host[j])
        /\ host' = Append(SubSeq(host, 1, i - 1),
                          IF host[i].op = "pcall"
                          THEN [host[i] EXCEPT !.ph = "unwind", !.err = e]
                          ELSE [host[i] EXCEPT !.ph = "left", !.err = e,
                                               !.j = Len(frames)])
  BY DEF Throw
<1>2. /\ host \in Seq(Acts) /\ Len(host) \in Nat \ {0} /\ Len(frames) \in Nat
      /\ Stands(host, frames, tbc, lev) /\ CloseInv
  <2>1. CloseInv /\ Config(host, frames, tbc, lev)
    BY AtIs
  <2> QED
    BY <2>1, Standing, ConfigIs
<1>3. \A k \in (i + 1)..u : host[k].op = "lua"
  BY <1>1, <1>2, LuaRun
<1>4. PICK a : a = host[i]
  OBVIOUS
<1>5. i \in 1..Len(host) /\ a \in Acts /\ a.op \in {"pcall", "close"} /\ a.ph = "body"
  <2>1. i \in 1..Len(host)
    BY <1>2
  <2>2. a \in Acts
    BY <1>2, <1>4, <2>1
  <2> QED
    BY <1>1, <1>4, <2>1, <2>2 DEF Catching
<1>6. PICK b : b = IF a.op = "pcall" THEN [a EXCEPT !.ph = "unwind", !.err = e]
                   ELSE [a EXCEPT !.ph = "left", !.err = e, !.j = Len(frames)]
  OBVIOUS
<1>7. host' = Append(SubSeq(host, 1, i - 1), b)
  BY <1>1, <1>4, <1>6
<1>8. b \in Acts /\ Catcher(a, b, e, Len(frames))
  <2>1. CASE a.op = "pcall"
    <3>1. a \in Bodies
      BY <1>5, <2>1, ActIs
    <3>2. b = [a EXCEPT !.ph = "unwind", !.err = e]
      BY <1>6, <2>1
    <3>3. b \in Unwinds /\ b.op = "pcall" /\ b.n = a.n /\ b.err = e /\ b.ph = "unwind"
      BY <3>1, <3>2 DEF Bodies, Unwinds
    <3> QED
      BY <1>5, <2>1, <3>3 DEF Catcher, Catches, CatchesLike, Acts
  <2>2. CASE a.op = "close"
    <3>1. a \in Closes
      BY <1>5, <2>2, ActIs
    <3>2. b = [a EXCEPT !.ph = "left", !.err = e, !.j = Len(frames)]
      BY <1>6, <2>2
    <3>3. /\ b \in Lefts /\ b.op = "close" /\ b.n = a.n /\ b.err = e /\ b.ph = "left"
          /\ b.j = Len(frames) /\ b.f = a.f /\ b.keep = a.keep /\ b.how = a.how /\ b.e = a.e
      BY <1>2, <3>1, <3>2 DEF Closes, Lefts
    <3> QED
      BY <1>5, <2>2, <3>3 DEF Catcher, Catches, CatchesLike, Acts
  <2> QED
    BY <1>5, <2>1, <2>2
<1>9. Tops(host, i, b, host')
  BY <1>2, <1>5, <1>7, <1>8, CutTops
<1> QED
  BY <1>3, <1>4, <1>8, <1>9, SMTT(30)

LEMMA RaiseGoes ==
  ASSUME NEW lev, NEW td, NEW td2, At(lev, td, td2), NEW e \in Errs, Raise(e)
  PROVE  Done(td, td2)
<1>1. /\ Top.op = "lua" /\ InPcall /\ Throw(e, Len(host))
      /\ frames' = frames /\ tbc' = tbc /\ got' = got
  BY DEF Raise, InGuest
<1>2. CloseInv /\ Top = host[Len(host)] /\ Len(host) \in 1..Len(host)
  BY AtIs
<1>3. PICK i \in 1..Len(host) : \E b :
        /\ \A k \in (i + 1)..Len(host) : host[k].op = "lua"
        /\ Tops(host, i, b, host') /\ Catcher(host[i], b, e, Len(frames))
  BY <1>1, <1>2, Thrown
<1>31. PICK b :
        /\ \A k \in (i + 1)..Len(host) : host[k].op = "lua"
        /\ Tops(host, i, b, host') /\ Catcher(host[i], b, e, Len(frames))
  BY <1>3
<1>4. \E k \in 1..Len(host) : host[k].op = "pcall"
  BY <1>1, <1>2, Standing DEF InPcall
<1>5. Moves(host, frames, tbc, lev, td, host', frames, tbc, td2)
  BY <1>1, AtIs
<1>6. /\ Owns(host', frames, tbc)
      /\ Throws(td[Len(host)], ModeFor(host, tbc, td), td2[Len(host')], ModeFor(host', tbc, td2))
  <2>1. RaisedAt(host, frames, i, b, e, host')
    BY <1>1, <1>2, <1>31, <1>4 DEF RaisedAt
  <2> QED
    BY <1>5, <2>1, RaiseSteps
<1> QED
  BY <1>1, <1>6 DEF Done, Steps

LEMMA ExitFailsGoes ==
  ASSUME NEW lev, NEW td, NEW td2, At(lev, td, td2), ExitFails
  PROVE  Done(td, td2)
<1>1. /\ Top.op = "close" /\ Top.ph = "next" /\ Top.how # "error" /\ Top.e # None
      /\ Throw(Top.e, Len(Front(host)))
      /\ frames' = frames /\ tbc' = tbc /\ got' = got
  BY DEF ExitFails, Closed, InClose, Below
<1>2. /\ CloseInv /\ Top = host[Len(host)] /\ Top \in Acts /\ Len(host) > 1
      /\ Len(host) - 1 \in 1..Len(host) /\ Sits(host[Len(host) - 1], Top)
  BY <1>1, AtIs
<1>3. PICK u : u = Len(host) - 1
  OBVIOUS
<1>4. Len(Front(host)) = u /\ u \in 1..Len(host) /\ host[u].op = "lua"
  BY <1>1, <1>2, <1>3, Standing DEF Sits
<1>5. Top.e \in Errs
  BY <1>1, <1>2, ActIs
<1>6. PICK i \in 1..u : \E b :
        /\ \A k \in (i + 1)..u : host[k].op = "lua"
        /\ Tops(host, i, b, host') /\ Catcher(host[i], b, Top.e, Len(frames))
  BY <1>1, <1>4, <1>5, Thrown
<1>61. PICK b :
        /\ \A k \in (i + 1)..u : host[k].op = "lua"
        /\ Tops(host, i, b, host') /\ Catcher(host[i], b, Top.e, Len(frames))
  BY <1>6
<1>7. Moves(host, frames, tbc, lev, td, host', frames, tbc, td2)
  BY <1>1, AtIs
<1>8. /\ i \in 1..(Len(host) - 1) /\ \A k \in (i + 1)..(Len(host) - 1) : host[k].op = "lua"
      /\ Tops(host, i, b, host') /\ Catcher(host[i], b, host[Len(host)].e, Len(frames))
  BY <1>2, <1>3, <1>61
<1>9. /\ Owns(host', frames, tbc) /\ td2[Len(host')] = td[Len(host)]
      /\ ModeFor(host', tbc, td2) = ModeFor(host, tbc, td)
  <2>1. FailedAt(host, frames, i, b, host')
    BY <1>1, <1>2, <1>8 DEF FailedAt
  <2> QED
    BY <1>7, <2>1, ExitFailsSteps
<1> QED
  BY <1>1, <1>9 DEF Done, Steps

(* The first activations, but for the last of them.                        *)
LEMMA FrontPrefix ==
  ASSUME NEW h \in Seq(Acts), NEW k \in 1..Len(h)
  PROVE  Front(SubSeq(h, 1, k)) = SubSeq(h, 1, k - 1) /\ Last(SubSeq(h, 1, k)) = h[k]
<1>1. k \in 0..Len(h) /\ k - 1 \in 0..k /\ k \in Nat \ {0} /\ k \in 1..k
  OBVIOUS
<1>2. PICK s : s = SubSeq(h, 1, k)
  OBVIOUS
<1>3. s \in Seq(Acts) /\ Len(s) = k /\ s[k] = h[k]
  BY <1>1, <1>2, PrefixIs
<1>4. s # <<>>
  BY <1>1, <1>3, EmptySeq
<1>5. Front(s) = SubSeq(s, 1, k - 1)
  BY <1>3, <1>4, FrontLast
<1>6. SubSeq(s, 1, k - 1) = SubSeq(h, 1, k - 1)
  BY <1>1, <1>2, PrefixOfPrefix
<1>7. Last(s) = h[k]
  BY <1>3 DEF Last
<1> QED
  BY <1>2, <1>5, <1>6, <1>7

LEMMA ReturnedIs ==
  ASSUME NEW h \in Seq(Acts), NEW m \in Nat \ {0}, Len(h) = m + 2,
         h[m].op # "lua" => h[m].ph = "body" /\ m > 1,
         NEW c, c = h[m], NEW x, x = SubSeq(h, 1, m),
         NEW h2, h2 = CASE c.op = "lua"   -> x
                        [] c.op = "pcall" -> Front(x)
                        [] c.op = "close" -> Append(Front(x), [c EXCEPT !.ph = "next"])
  PROVE  Returned(h, h2)
<1>1. m \in 1..Len(h) /\ Len(h) - 2 = m /\ c \in Acts
  <2>1. m \in 1..Len(h) /\ Len(h) - 2 = m
    OBVIOUS
  <2> QED
    BY <2>1, ElementOfSeq
<1>2. Front(x) = SubSeq(h, 1, m - 1)
  BY <1>1, FrontPrefix
<1>3. c.op = "lua" => Tops(h, m, c, h2)
  BY <1>1, PrefixTops
<1>4. c.op = "pcall" => Tops(h, m - 1, h[m - 1], h2)
  <2> SUFFICES ASSUME c.op = "pcall" PROVE Tops(h, m - 1, h[m - 1], h2)
    OBVIOUS
  <2>1. m - 1 \in 1..Len(h)
    BY <1>1
  <2>2. h2 = SubSeq(h, 1, m - 1)
    BY <1>2
  <2> QED
    BY <2>1, <2>2, PrefixTops
<1>5. ASSUME c.op = "close"
      PROVE  \E b : /\ Tops(h, m, b, h2) /\ CloseLike(c, b) /\ b.ph = "next" /\ b.e = c.e
  <2>1. PICK b : b = [c EXCEPT !.ph = "next"]
    OBVIOUS
  <2>2. c.ph = "body"
    BY <1>5
  <2>3. b \in Acts /\ CloseLike(c, b) /\ b.ph = "next" /\ b.e = c.e
    BY <1>1, <1>5, <2>1, <2>2, EditPhase, ScopeLike
  <2>4. h2 = Append(SubSeq(h, 1, m - 1), b)
    BY <1>2, <1>5, <2>1
  <2>5. Tops(h, m, b, h2)
    BY <1>1, <2>3, <2>4, CutTops
  <2> QED
    BY <2>3, <2>5
<1> QED
  BY <1>1, <1>3, <1>4, <1>5 DEF Returned

LEMMA ReturnDoneGoes ==
  ASSUME NEW lev, NEW td, NEW td2, At(lev, td, td2), ReturnDone
  PROVE  Done(td, td2)
<1>1. /\ Top.op = "close" /\ Top.ph = "next" /\ Top.how = "return" /\ Top.e = None
      /\ Len(tbc[Top.f]) <= Top.keep /\ frames' = Front(frames) /\ tbc' = tbc /\ got' = got
  BY DEF ReturnDone, Closed, InClose, Frame
<1>2. /\ CloseInv /\ Top = host[Len(host)] /\ host \in Seq(Acts)
      /\ Len(host) \in Nat \ {0} /\ Front(host) = SubSeq(host, 1, Len(host) - 1)
      /\ Config(host, frames, tbc, lev) /\ Doing(td, host, frames, tbc)
  BY AtIs DEF Moves
<1>3. Returns(host, tbc, Len(host), Len(host) - 2)
  BY <1>1, <1>2 DEF Returns
<1>4. PICK m : m = Len(host) - 2
  OBVIOUS
<1>5. ReturnHas(host, frames, tbc, lev, td, m)
  BY <1>2, <1>3, <1>4, ReturnIs
<1>6. /\ m \in Nat \ {0} /\ Len(host) = m + 2 /\ Len(frames) = lev[m] + 1 /\ lev[m] \in Nat
      /\ m \in 1..Len(host) /\ (host[m].op # "lua" => host[m].ph = "body" /\ m > 1)
  BY <1>5 DEF ReturnHas
<1>7. PICK x : x = SubSeq(host, 1, m)
  OBVIOUS
<1>8. Front(Below) = x /\ Last(x) = host[m]
  <2>1. Len(host) - 1 = m + 1 /\ m + 1 \in 1..Len(host) /\ (m + 1) - 1 = m
    BY <1>6
  <2>2. Front(host) = SubSeq(host, 1, m + 1)
    BY <1>2, <2>1
  <2>3. Front(SubSeq(host, 1, m + 1)) = SubSeq(host, 1, m)
    BY <1>2, <2>1, FrontPrefix
  <2>4. Last(SubSeq(host, 1, m)) = host[m]
    BY <1>2, <1>6, FrontPrefix
  <2> QED
    BY <1>7, <2>2, <2>3, <2>4 DEF Below
<1>9. PICK c : c = host[m]
  OBVIOUS
<1>10. host' = CASE c.op = "lua"   -> x
                 [] c.op = "pcall" -> Front(x)
                 [] c.op = "close" -> Append(Front(x), [c EXCEPT !.ph = "next"])
  BY <1>8, <1>9 DEF ReturnDone
<1>11. Returned(host, host')
  BY <1>2, <1>6, <1>7, <1>9, <1>10, ReturnedIs
<1>12. PICK n : Drops(frames, frames', n)
  <2>1. frames \in Seq(Id) /\ Len(frames) # 0
    BY <1>2, <1>6, Standing
  <2>2. frames # <<>>
    BY <2>1, EmptySeq
  <2> QED
    BY <1>1, <2>1, <2>2, DropsIs
<1>13. Moves(host, frames, tbc, lev, td, host', frames', tbc, td2)
  BY <1>1, AtIs
<1>14. /\ Owns(host', frames', tbc)
       /\ FunctionLeft(td[Len(host)], ModeFor(host, tbc, td),
                       td2[Len(host')], ModeFor(host', tbc, td2))
  BY <1>3, <1>11, <1>12, <1>13, ReturnDoneSteps
<1> QED
  BY <1>1, <1>14 DEF Done, Steps

-----------------------------------------------------------------------------
(* Every step of the interpreter does one of Unwinding's, or none.         *)
LEMMA NextGoes ==
  ASSUME NEW lev, NEW td, NEW td2, At(lev, td, td2), Next
  PROVE  Done(td, td2)
<1>1. CASE Call
  BY <1>1, CallGoes
<1>2. CASE \E v \in Vars : Declare(v)
  BY <1>2, DeclareGoes
<1>3. CASE \E keep \in 0..Cardinality(Vars), how \in {"block", "return"} : Exit(keep, how)
  <2>1. PICK keep \in 0..Cardinality(Vars), how \in {"block", "return"} : Exit(keep, how)
    BY <1>3
  <2>2. keep \in Nat
    BY <2>1
  <2> QED
    BY <2>1, <2>2, ExitGoes
<1>4. CASE \E e \in Errs : Raise(e) \/ NoHandler(e)
  BY <1>4, RaiseGoes, NoHandlerGoes
<1>5. CASE CloseNext
  BY <1>5, CloseNextGoes
<1>6. CASE LeftNext
  BY <1>6, LeftNextGoes
<1>7. CASE LeftDone
  BY <1>7, LeftDoneGoes
<1>8. CASE BlockDone
  BY <1>8, BlockDoneGoes
<1>9. CASE ReturnDone
  BY <1>9, ReturnDoneGoes
<1>10. CASE ExitFails
  BY <1>10, ExitFailsGoes
<1>11. CASE ErrorDone
  BY <1>11, ErrorDoneGoes
<1>12. CASE Unwind
  BY <1>12, UnwindGoes
<1>13. CASE Deliver
  BY <1>13, DeliverGoes
<1> QED
  BY <1>1, <1>2, <1>3, <1>4, <1>5, <1>6, <1>7, <1>8, <1>9, <1>10, <1>11, <1>12, <1>13 DEF Next

Joint == CloseInv /\ Owns(host, frames, tbc)

LEMMA ConfigHere ==
  ASSUME Joint
  PROVE  /\ Doing(Todo, host, frames, tbc)
         /\ \E lev : Config(host, frames, tbc, lev)
<1>1. CloseInv /\ Owns(host, frames, tbc)
  BY DEF Joint
<1>2. /\ Len(host) \in Nat /\ host # <<>> /\ frames \in Seq(Id) /\ tbc \in [Id -> Seq(Vars)]
  BY <1>1, Standing
<1>3. Doing(Todo, host, frames, tbc)
  BY <1>2, TodoIs, TasksAre
<1>4. PICK n : StandsOn(host, frames, tbc, n) /\ TopFits(host[Len(host)], n, frames, tbc)
  BY <1>1 DEF CloseInv
<1>5. PICK lev : Stands(host, frames, tbc, lev) /\ lev[Len(host)] = n
  BY <1>4 DEF StandsOn
<1>6. Distinct(frames)
  BY <1>1 DEF CloseInv
<1>7. Config(host, frames, tbc, lev)
  BY <1>1, <1>2, <1>4, <1>5, <1>6 DEF Config
<1> QED
  BY <1>3, <1>7

LEMMA DoingNext ==
  ASSUME CloseInv'
  PROVE  host' \in Seq(Acts) /\ Doing(Todo', host', frames', tbc')
<1>1. PICK n : StandsOn(host', frames', tbc', n)
  BY DEF CloseInv
<1>2. PICK lev : Stands(host', frames', tbc', lev)
  BY <1>1 DEF StandsOn
<1>3. host' \in Seq(Acts)
  BY <1>2 DEF Stands
<1>4. Len(host') \in Nat
  BY <1>3, LenProperties
<1> QED
  BY <1>3, <1>4, TodoNextIs, TasksAre

LEMMA LangIs ==
  /\ LangTodo = Todo[Len(host)] /\ LangMode = ModeFor(host, tbc, Todo)
  /\ LangTodo' = Todo'[Len(host')] /\ LangMode' = ModeFor(host', tbc', Todo')
<1>1. LangTodo = Todo[Len(host)] /\ LangTodo' = Todo'[Len(host')]
  BY DEF LangTodo
<1>2. LangMode = ModeFor(host, tbc, Todo)
  BY Zenon DEF LangMode, InGuest, Top, Last, ModeOf, Goes, ModeFor
<1>3. LangMode' = ModeFor(host', tbc', Todo')
  BY Zenon DEF LangMode, InGuest, Top, Last, ModeOf, Goes, ModeFor
<1> QED
  BY <1>1, <1>2, <1>3

LEMMA StepGoes ==
  ASSUME Joint, [Next]_vars
  PROVE  Joint' /\ [Lang!Next]_<<LangTodo, LangMode, got>>
<1>1. CloseInv /\ CloseInv'
  BY NextClose DEF Joint
<1>2. CASE Next
  <2>1. PICK lev : Config(host, frames, tbc, lev)
    BY ConfigHere
  <2>2. At(lev, Todo, Todo')
    BY <1>1, <2>1, ConfigHere, DoingNext DEF At, Moves
  <2>3. Done(Todo, Todo')
    BY <1>2, <2>2, NextGoes
  <2>4. Owns(host', frames', tbc')
    BY <2>3 DEF Done
  <2>5. Joint'
    BY <1>1, <2>4 DEF Joint
  <2>6. Steps(LangTodo, LangMode, got, LangTodo', LangMode', got')
    BY <2>3, LangIs, Zenon DEF Done
  <2> QED
    BY <2>5, <2>6, StepsAreActions
<1>3. CASE UNCHANGED vars
  <2>1. host' = host /\ frames' = frames /\ tbc' = tbc /\ got' = got
    BY <1>3 DEF vars
  <2>2. Joint'
    BY <1>1, <2>1 DEF Joint
  <2>3. Todo' = Todo
    BY <2>1, TodoIs, TodoNextIs
  <2>4. LangTodo' = LangTodo /\ LangMode' = LangMode
    BY <2>1, <2>3, LangIs
  <2> QED
    BY <2>1, <2>2, <2>4
<1> QED
  BY <1>2, <1>3

LEMMA StartsRight ==
  ASSUME Init
  PROVE  Joint /\ Lang!Init
<1>1. CloseInv
  BY InitClose
<1>2. PICK a : a = Lua(1)
  OBVIOUS
<1>3. a \in Acts /\ a.op = "lua" /\ a.f = 1 /\ 1 \in Id
  BY <1>2, LuaIs, IdIs
<1>4. /\ host = <<a>> /\ tbc[1] = <<>> /\ got = None
  BY <1>2, <1>3 DEF Init
<1>5. Len(host) = 1 /\ host[1] = a /\ host \in Seq(Acts) /\ 1 \in 1..Len(host)
  BY <1>3, <1>4
<1>6. Owns(host, frames, tbc)
  <2> SUFFICES ASSUME NEW i \in 1..Len(host) PROVE OwnsAt(host, frames, tbc, i)
    BY DEF Owns
  <2>1. i = 1 /\ host[i].op = "lua" /\ ~(i > 1)
    BY <1>3, <1>5
  <2> QED
    BY <2>1 DEF OwnsAt, KeepsOf, FingerOf, ApartOf, Failed, Popped
<1>7. Joint
  BY <1>1, <1>6 DEF Joint
<1>8. Todo[1] = <<A!Fn>>
  <2>1. Doing(Todo, host, frames, tbc)
    BY <1>7, ConfigHere
  <2>2. Todo[0] = <<>>
    BY <2>1 DEF Doing
  <2>3. JobForm(Todo[1], frames, tbc, host[1], Todo[1 - 1], Up(host, frames, 1))
    BY <1>5, <2>1, TasksForm
  <2>4. JobForm(Todo[1], frames, tbc, a, <<>>, Up(host, frames, 1))
    BY <1>5, <2>2, <2>3
  <2>5. <<>> \in Seq(Items(Vars))
    OBVIOUS
  <2>6. Called(Todo[1], frames, tbc, a, <<>>, Up(host, frames, 1))
    BY <1>3, <1>4, <2>4, <2>5 DEF Called
  <2>7. Todo[1] = Append(<<>>, A!Fn)
    BY <2>6, LuaTask
  <2>8. Append(<<>>, A!Fn) = <<A!Fn>>
    OBVIOUS
  <2> QED
    BY <2>7, <2>8
<1>9. LangTodo = <<A!Fn>>
  BY <1>5, <1>8 DEF LangTodo
<1>10. LangMode = A!Run
  BY <1>3, <1>5, LangIs DEF ModeFor
<1>11. Lang!Init
  BY <1>4, <1>9, <1>10, SameOperators, Zenon DEF Lang!Init, LangTodo, LangMode
<1> QED
  BY <1>7, <1>11

(* What close_upvals and protected do to the host's stack, to I.frames and *)
(* to the frames' variables is what Lua promises of to-be-closed           *)
(* variables: their order, each of them once, the error that a handler     *)
(* replaces, and the one that pcall delivers.                              *)
THEOREM UnwindingIsImplemented == Spec => ImplementsUnwinding
<1>1. Init => Joint /\ Lang!Init
  BY StartsRight
<1>2. Joint /\ [Next]_vars => Joint' /\ [Lang!Next]_<<LangTodo, LangMode, got>>
  BY StepGoes
<1> QED
  BY <1>1, <1>2, PTL DEF Spec, ImplementsUnwinding, Lang!Spec, LangTodo, LangMode
=============================================================================
