-------------------------- MODULE GuestTable_proofs --------------------------
(***************************************************************************)
(* Proofs about the tables, for every size and value set: the canonical    *)
(* form of the two parts and the refinement of the one-map table, the      *)
(* length operator (TableLength) and the pairs loop (TableTraversal).      *)
(***************************************************************************)
EXTENDS TableLength, TableTraversal, TLAPS

Inv == TypeOK /\ ArrayTailUnused /\ Canonical

LEMMA KeyFacts ==
  /\ IntKey = 1..MaxKey
  /\ IntKey \subseteq Int
  /\ MaxKey \in Nat
  /\ Nil \in Slot
  /\ Nil \notin Values
  /\ Names \cap Int = {}
  /\ \A k \in Names : k \notin Int
  /\ IntKey \subseteq Key
  /\ Names \subseteq Key
BY TableAssumption DEF IntKey, Key, Slot

LEMMA InitInv == Init => Inv
<1> SUFFICES ASSUME Init PROVE Inv
  OBVIOUS
<1>1. PICK narr \in 0..MaxKey : NewTable(narr) /\ building \in {narr = 0, FALSE}
  BY DEF Init
<1>2. building \in BOOLEAN
  BY <1>1
<1>3. narr \div 2 \in 0..MaxKey
  BY KeyFacts
<1>4. /\ arr = [i \in IntKey |-> Nil] /\ hash = [k \in Key |-> Nil]
      /\ asize = narr /\ lenhint = narr \div 2
      /\ built = 0 /\ mixed = FALSE
  BY <1>1 DEF Init, NewTable
<1>5. TypeOK
  <2>1. asize \in 0..MaxKey /\ lenhint \in 0..MaxKey /\ built \in 0..MaxKey
    BY <1>3, <1>4, KeyFacts
  <2>2. arr \in [IntKey -> Slot] /\ hash \in [Key -> Slot]
    BY <1>4, KeyFacts
  <2> QED
    BY <2>1, <2>2, <1>2, <1>4 DEF TypeOK
<1>6. ArrayTailUnused /\ Canonical
  BY <1>4, KeyFacts DEF ArrayTailUnused, Canonical
<1> QED
  BY <1>5, <1>6 DEF Inv

(* One lemma per action: it keeps the invariant. *)
LEMMA SetInArrayInv ==
  ASSUME Inv, NEW k \in Key, NEW v \in Slot, SetInArray(k, v),
         UNCHANGED <<building, built, mixed>>
  PROVE  Inv'
BY KeyFacts DEF Inv, TypeOK, ArrayTailUnused, Canonical, SetInArray, IntKey

LEMMA ExtendArrayInv ==
  ASSUME Inv, NEW k \in Key, NEW v \in Slot, ExtendArray(k, v),
         UNCHANGED <<building, built, mixed>>
  PROVE  Inv'
<1>1. PICK e \in k..MaxKey :
        /\ AbsorbsTo(k, e)
        /\ asize' = e
        /\ arr' = [i \in IntKey |-> IF i = k THEN v
                                    ELSE IF i \in (k + 1)..e THEN hash[i]
                                    ELSE arr[i]]
        /\ hash' = [x \in Key |-> IF x \in (k + 1)..e THEN Nil ELSE hash[x]]
        /\ lenhint' = e \div 2
  BY DEF ExtendArray
<1>2. k \in 1..MaxKey /\ k = asize + 1 /\ v # Nil
  BY KeyFacts DEF ExtendArray
<1>3. e \in 0..MaxKey /\ e >= k /\ e >= asize
  BY <1>1, <1>2, KeyFacts DEF Inv, TypeOK
<1>4. TypeOK'
  BY <1>1, <1>2, <1>3, KeyFacts DEF Inv, TypeOK
<1>5. ArrayTailUnused'
  BY <1>1, <1>2, <1>3, KeyFacts DEF Inv, TypeOK, ArrayTailUnused
<1>6. Canonical'
  <2> SUFFICES ASSUME ~mixed', NEW i \in IntKey, i <= asize' + 1
               PROVE  hash'[i] = Nil
    BY DEF Canonical
  <2>1. CASE i <= k
    BY <2>1, <1>1, <1>2, KeyFacts DEF Inv, TypeOK, Canonical
  <2>2. CASE i \in (k + 1)..e
    BY <2>2, <1>1, KeyFacts
  <2>3. CASE i = e + 1
    BY <2>3, <1>1, <1>2, <1>3, KeyFacts DEF AbsorbsTo
  <2> QED
    BY <2>1, <2>2, <2>3, <1>1, <1>2, <1>3, KeyFacts
<1> QED
  BY <1>4, <1>5, <1>6 DEF Inv

LEMMA SetInHashInv ==
  ASSUME Inv, NEW k \in Key, NEW v \in Slot, SetInHash(k, v),
         UNCHANGED <<building, built, mixed>>
  PROVE  Inv'
<1>1. TypeOK' /\ ArrayTailUnused'
  BY DEF Inv, TypeOK, ArrayTailUnused, SetInHash
<1>2. Canonical'
  <2> SUFFICES ASSUME ~mixed', NEW i \in IntKey, i <= asize' + 1
               PROVE  hash'[i] = Nil
    BY DEF Canonical
  <2>1. hash[i] = Nil
    BY DEF Inv, Canonical, SetInHash
  <2>2. i = k => v = Nil
    BY KeyFacts DEF SetInHash, Inv, TypeOK
  <2> QED
    BY <2>1, <2>2, KeyFacts DEF SetInHash, Inv, TypeOK
<1> QED
  BY <1>1, <1>2 DEF Inv

LEMMA SetListInv ==
  ASSUME Inv, NEW count \in 0..MaxKey, NEW vals \in [1..count -> Slot],
         SetList(count, vals)
  PROVE  Inv'
<1> DEFINE last == built + count
<1>1. /\ last \in 0..MaxKey /\ built \in Nat /\ count \in Nat
      /\ \A i \in (built + 1)..last : vals[i - built] \in Slot
  BY KeyFacts DEF SetList, Inv, TypeOK
<1>2. /\ built' = last /\ hash' = hash /\ building' = building
      /\ arr' = [i \in IntKey |-> IF i \in (built + 1)..last
                                  THEN vals[i - built] ELSE arr[i]]
  BY DEF SetList
<1>3. CASE last > asize
  <2>1. /\ asize' = last /\ lenhint' = last \div 2
        /\ mixed' = (mixed \/ \E k \in IntKey \cap ((asize + 1)..(last + 1)) :
                                 hash[k] # Nil)
    BY <1>3 DEF SetList
  <2>2. lenhint' \in 0..MaxKey
    BY <2>1, <1>1, KeyFacts
  <2>3. TypeOK'
    <3>1. arr' \in [IntKey -> Slot]
      BY <1>1, <1>2 DEF Inv, TypeOK
    <3>2. mixed' \in BOOLEAN
      BY <2>1
    <3> QED
      BY <3>1, <3>2, <1>1, <1>2, <2>1, <2>2 DEF Inv, TypeOK
  <2>4. ArrayTailUnused'
    BY <1>1, <1>2, <1>3, <2>1, KeyFacts DEF Inv, TypeOK, ArrayTailUnused
  <2>5. Canonical'
    <3> SUFFICES ASSUME ~mixed', NEW i \in IntKey, i <= asize' + 1
                 PROVE  hash'[i] = Nil
      BY DEF Canonical
    <3>1. ~mixed /\ \A k \in IntKey \cap ((asize + 1)..(last + 1)) : hash[k] = Nil
      BY <2>1
    <3> QED
      BY <3>1, <2>1, <1>2, <1>1, KeyFacts DEF Inv, TypeOK, Canonical
  <2> QED
    BY <2>3, <2>4, <2>5 DEF Inv
<1>4. CASE ~(last > asize)
  <2>1. UNCHANGED <<asize, lenhint, mixed>>
    BY <1>4 DEF SetList
  <2>2. TypeOK'
    BY <1>1, <1>2, <2>1 DEF Inv, TypeOK
  <2>3. ArrayTailUnused'
    BY <1>1, <1>2, <1>4, <2>1, KeyFacts DEF Inv, TypeOK, ArrayTailUnused
  <2>4. Canonical'
    BY <1>2, <2>1 DEF Inv, Canonical
  <2> QED
    BY <2>2, <2>3, <2>4 DEF Inv
<1> QED
  BY <1>3, <1>4

LEMMA ClearWeakInv ==
  ASSUME Inv, NEW gk \in SUBSET Names, NEW gv \in SUBSET Values,
         ClearWeak(gk, gv)
  PROVE  Inv'
BY KeyFacts DEF Inv, TypeOK, ArrayTailUnused, Canonical, ClearWeak

LEMMA NextInv == Inv /\ [Next]_tvars => Inv'
<1> SUFFICES ASSUME Inv, [Next]_tvars PROVE Inv'
  OBVIOUS
<1>1. ASSUME NEW k \in Key, NEW v \in Slot, RawSet(k, v) PROVE Inv'
  BY <1>1, SetInArrayInv, ExtendArrayInv, SetInHashInv DEF RawSet
<1>2. ASSUME NEW count \in 0..MaxKey, NEW vals \in [1..count -> Slot],
             SetList(count, vals)
      PROVE  Inv'
  BY <1>2, SetListInv
<1>3. CASE EndConstructor
  BY <1>3 DEF EndConstructor, Inv, TypeOK, ArrayTailUnused, Canonical
<1>4. ASSUME NEW gk \in SUBSET Names, NEW gv \in SUBSET Values, ClearWeak(gk, gv)
      PROVE  Inv'
  BY <1>4, ClearWeakInv
<1>5. CASE UNCHANGED tvars
  BY <1>5 DEF tvars, Inv, TypeOK, ArrayTailUnused, Canonical
<1> QED
  BY <1>1, <1>2, <1>3, <1>4, <1>5 DEF Next

LEMMA Invariance == Spec => []Inv
<1>1. Inv /\ [Next]_tvars => Inv'
  BY NextInv
<1> QED
  BY InitInv, <1>1, PTL DEF Spec

(* Every operation keeps the two parts and the hint within their ranges.   *)
THEOREM TypeCorrect == Spec => []TypeOK
<1>1. Inv => TypeOK
  BY DEF Inv
<1> QED
  BY <1>1, Invariance, PTL

(* The array part never grows over a live copy in the hash part, unless a  *)
(* constructor mixed list items with keyed ones (rawset, setlist).         *)
THEOREM TableIsCanonical == Spec => []Canonical
<1>1. Inv => Canonical
  BY DEF Inv
<1> QED
  BY <1>1, Invariance, PTL

(* Growing the array part never uncovers a stale slot (rawset, setlist).   *)
THEOREM TailIsUnused == Spec => []ArrayTailUnused
<1>1. Inv => ArrayTailUnused
  BY DEF Inv
<1> QED
  BY <1>1, Invariance, PTL

-----------------------------------------------------------------------------
(* Refinement: every step of the two-part table is a step of the map.      *)

LEMMA DictKey == Dict!Key = Key
BY DEF Dict!Key, Key, IntKey

LEMMA DictStore ==
  ASSUME Inv, NEW k \in Key, NEW v \in Slot, RawSet(k, v)
  PROVE  Dict!Store(k, v)
<1> SUFFICES ASSUME NEW x \in Key
             PROVE  RawGet(x)' = IF x = k THEN v ELSE RawGet(x)
  BY DEF Dict!Store, RawSet
<1>1. CASE SetInArray(k, v)
  BY <1>1, KeyFacts DEF SetInArray, RawGet, Inv, TypeOK, IntKey
<1>2. CASE ExtendArray(k, v)
  <2>1. PICK e \in k..MaxKey :
          /\ AbsorbsTo(k, e)
          /\ asize' = e
          /\ arr' = [i \in IntKey |-> IF i = k THEN v
                                      ELSE IF i \in (k + 1)..e THEN hash[i]
                                      ELSE arr[i]]
          /\ hash' = [y \in Key |-> IF y \in (k + 1)..e THEN Nil ELSE hash[y]]
    BY <1>2 DEF ExtendArray
  <2>2. k \in 1..MaxKey /\ k = asize + 1 /\ asize \in 0..MaxKey
    BY <1>2, KeyFacts DEF ExtendArray, Inv, TypeOK
  <2> QED
    BY <2>1, <2>2, KeyFacts DEF RawGet
<1>3. CASE SetInHash(k, v)
  BY <1>3, KeyFacts DEF SetInHash, RawGet, Inv, TypeOK
<1> QED
  BY <1>1, <1>2, <1>3 DEF RawSet

LEMMA DictStoreList ==
  ASSUME Inv, NEW count \in 0..MaxKey, NEW vals \in [1..count -> Slot],
         SetList(count, vals)
  PROVE  Dict!Next
<1>1. built \in Nat /\ count \in Nat /\ built + count <= MaxKey /\ built <= asize
      /\ asize \in 0..MaxKey
  BY KeyFacts DEF SetList, Inv, TypeOK, ArrayTailUnused
<1>2. /\ hash' = hash /\ building /\ UNCHANGED building /\ built' = built + count
      /\ arr' = [i \in IntKey |-> IF i \in (built + 1)..(built + count)
                                  THEN vals[i - built] ELSE arr[i]]
      /\ asize' = IF built + count > asize THEN built + count ELSE asize
  BY DEF SetList
<1>3. \A x \in Key : RawGet(x)' = IF x \in (built + 1)..(built + count)
                                  THEN vals[x - built] ELSE RawGet(x)
  BY <1>1, <1>2, KeyFacts DEF RawGet
<1>4. Dict!StoreList(count, vals)
  BY <1>2, <1>3, DictKey DEF Dict!StoreList
<1>5. count \in 0..(MaxKey - built)
  BY <1>1, KeyFacts
<1> QED
  BY <1>4, <1>5 DEF Dict!Next, Slot

LEMMA DictForget ==
  ASSUME Inv, NEW gk \in SUBSET Names, NEW gv \in SUBSET Values,
         ClearWeak(gk, gv)
  PROVE  Dict!Next
<1> DEFINE S == {k \in Key : RawGet(k)' = Nil}
<1>1. \A k \in Key : RawGet(k)' = IF k \in S THEN Nil ELSE RawGet(k)
  BY KeyFacts DEF ClearWeak, RawGet, Inv, TypeOK
<1>2. Dict!Forget(S)
  BY <1>1, DictKey DEF Dict!Forget, ClearWeak
<1>3. S \in SUBSET Dict!Key
  BY DictKey
<1> QED
  BY <1>2, <1>3 DEF Dict!Next

LEMMA DictNext ==
  Inv /\ [Next]_tvars => [Dict!Next]_<<[k \in Key |-> RawGet(k)], building, built>>
<1> SUFFICES ASSUME Inv, [Next]_tvars
             PROVE  Dict!Next \/ UNCHANGED <<[k \in Key |-> RawGet(k)], building, built>>
  OBVIOUS
<1>1. ASSUME NEW k \in Key, NEW v \in Slot, RawSet(k, v) PROVE Dict!Next
  BY <1>1, DictStore, DictKey DEF Dict!Next, Slot
<1>2. ASSUME NEW count \in 0..MaxKey, NEW vals \in [1..count -> Slot],
             SetList(count, vals)
      PROVE  Dict!Next
  BY <1>2, DictStoreList
<1>3. CASE EndConstructor
  BY <1>3 DEF EndConstructor, RawGet, Dict!Next, Dict!Publish
<1>4. ASSUME NEW gk \in SUBSET Names, NEW gv \in SUBSET Values, ClearWeak(gk, gv)
      PROVE  Dict!Next
  BY <1>4, DictForget
<1>5. CASE UNCHANGED tvars
  BY <1>5 DEF tvars, RawGet
<1> QED
  BY <1>1, <1>2, <1>3, <1>4, <1>5 DEF Next

LEMMA DictInit == Init => Dict!Init
<1> SUFFICES ASSUME Init PROVE Dict!Init
  OBVIOUS
<1>1. arr = [i \in IntKey |-> Nil] /\ hash = [k \in Key |-> Nil] /\ asize \in 0..MaxKey
  BY DEF Init, NewTable
<1>2. \A k \in Key : RawGet(k) = Nil
  BY <1>1, KeyFacts DEF RawGet
<1>3. building \in BOOLEAN /\ built = 0
  BY DEF Init
<1> QED
  BY <1>2, <1>3, DictKey DEF Dict!Init

(* The guest table, whatever its array part, hash part and hint, is the    *)
(* one map a Lua program sees (runtime.lua rawget, rawset, setlist).       *)
THEOREM TableRefinesMap == Spec => ImplementsLuaTable
BY DictInit, DictNext, Invariance, PTL DEF Spec, ImplementsLuaTable, Dict!Spec

-----------------------------------------------------------------------------
(***************************************************************************)
(* The length operator returns a border of every table that no constructor *)
(* mixed, whatever its holes, its size and its hint.  LengthInv says what  *)
(* each loop of getn knows about the slots at its indices.                 *)
(***************************************************************************)

DownInv == pc = "down" => limit \in 1..asize /\ arr[limit] = Nil
UpInv   == pc = "up"   => limit \in 1..asize /\ arr[limit] # Nil
BinInv  == pc = "bin"  => /\ lo < hi /\ hi \in 1..asize
                          /\ lo = 0 \/ arr[lo] # Nil
                          /\ arr[hi] = Nil
HashInv == pc \in {"double", "hashbin", "linear"} => mixed

LengthInv == /\ LengthTypeOK /\ ArrayTailUnused /\ Canonical /\ HintInside
             /\ DownInv /\ UpInv /\ BinInv /\ HashInv
             /\ LengthIsBorder

LEMMA MaxFacts == /\ MaxKey \in Nat /\ MaxVic \in Nat /\ HalfMax \in Nat
                  /\ IntKey = 1..MaxKey
BY TableAssumption, LengthAssumption DEF IntKey

LEMMA LengthInitInv == LengthInit => LengthInv
<1> SUFFICES ASSUME LengthInit PROVE LengthInv
  OBVIOUS
<1>1. Inv
  BY InitInv DEF LengthInit
<1>2. lenhint <= asize
  <2>1. PICK narr \in 0..MaxKey : NewTable(narr)
    BY DEF LengthInit, Init
  <2> QED
    BY <2>1, MaxFacts DEF NewTable
<1>3. LengthTypeOK
  BY <1>1, MaxFacts DEF LengthInit, LengthTypeOK, Inv, Label
<1> QED
  BY <1>1, <1>2, <1>3
  DEF LengthInit, LengthInv, Inv, HintInside, DownInv, UpInv, BinInv, HashInv,
      LengthIsBorder

(* The operations of the table run between searches.                       *)
LEMMA TableStepInv == LengthInv /\ TableStep => LengthInv'
<1> SUFFICES ASSUME LengthInv, TableStep PROVE LengthInv'
  OBVIOUS
<1>1. Inv /\ Next /\ UNCHANGED lvars /\ pc = "idle"
  BY DEF TableStep, Inv, LengthInv, LengthTypeOK
<1>2. Inv'
  BY <1>1, NextInv
<1>3. lenhint' <= asize'
  <2> USE DEF LengthInv, HintInside
  <2>1. ASSUME NEW k \in Key, NEW v \in Slot, RawSet(k, v)
        PROVE  lenhint' <= asize'
    <3>1. CASE SetInArray(k, v)
      BY <3>1 DEF SetInArray
    <3>2. CASE ExtendArray(k, v)
      <4>1. k \in Nat /\ MaxKey \in Nat
        BY <3>2, MaxFacts DEF ExtendArray
      <4>2. PICK e \in k..MaxKey : asize' = e /\ lenhint' = e \div 2
        BY <3>2 DEF ExtendArray
      <4> QED
        BY <4>1, <4>2
    <3>3. CASE SetInHash(k, v)
      BY <3>3 DEF SetInHash
    <3> QED
      BY <2>1, <3>1, <3>2, <3>3 DEF RawSet
  <2>2. ASSUME NEW count \in 0..MaxKey, NEW vals \in [1..count -> Slot],
               SetList(count, vals)
        PROVE  lenhint' <= asize'
    <3>1. built + count \in Nat
      BY <1>1, MaxFacts DEF Inv, TypeOK
    <3>2. CASE built + count > asize
      <4>1. asize' = built + count /\ lenhint' = (built + count) \div 2
        BY <2>2, <3>2 DEF SetList
      <4> QED
        BY <3>1, <4>1
    <3>3. CASE ~(built + count > asize)
      BY <2>2, <3>3 DEF SetList
    <3> QED
      BY <3>2, <3>3
  <2>3. CASE EndConstructor
    BY <2>3 DEF EndConstructor
  <2>4. ASSUME NEW gk \in SUBSET Names, NEW gv \in SUBSET Values, ClearWeak(gk, gv)
        PROVE  lenhint' <= asize'
    BY <2>4 DEF ClearWeak
  <2> QED
    BY <1>1, <2>1, <2>2, <2>3, <2>4 DEF Next
<1>4. LengthTypeOK'
  BY <1>1, <1>2 DEF LengthInv, LengthTypeOK, Inv, lvars
<1> QED
  BY <1>1, <1>2, <1>3, <1>4
  DEF LengthInv, Inv, HintInside, DownInv, UpInv, BinInv, HashInv,
      LengthIsBorder, lvars

(* What the probes need to know about a table no constructor mixed.        *)
LEMMA BorderFacts ==
  ASSUME LengthInv, ~mixed
  PROVE  /\ ~InHash(asize + 1)
         /\ IsNil(asize + 1)
         /\ \A n \in 1..asize : IsNil(n) <=> arr[n] = Nil
BY MaxFacts DEF LengthInv, LengthTypeOK, TypeOK, Canonical, InHash, IsNil, RawGet

LEMMA SearchTypeOK ==
  ASSUME LengthInv, NEW h \in 0..asize, SetHint(h)
  PROVE  TypeOK' /\ ArrayTailUnused' /\ Canonical' /\ HintInside' /\ asize \in 0..MaxKey
BY MaxFacts DEF SetHint, LengthInv, LengthTypeOK, TypeOK, ArrayTailUnused,
   Canonical, HintInside

LEMMA KeepTable ==
  ASSUME LengthInv, UNCHANGED tvars
  PROVE  TypeOK' /\ ArrayTailUnused' /\ Canonical' /\ HintInside'
BY DEF tvars, LengthInv, LengthTypeOK, TypeOK, ArrayTailUnused,
   Canonical, HintInside

(* Returning a border is all that is left to show of a last probe.         *)
LEMMA ReturnInv ==
  ASSUME LengthInv, NEW n \in Nat, Return(n),
         TypeOK', ArrayTailUnused', Canonical', HintInside',
         UNCHANGED <<arr, asize, hash, mixed>>,
         ~mixed => Border(n)
  PROVE  LengthInv'
<1>1. LengthTypeOK'
  BY DEF Return, LengthInv, LengthTypeOK, Label
<1>2. Border(n)' <=> Border(n)
  BY DEF Border, IsNil, RawGet
<1>3. LengthIsBorder'
  BY <1>2 DEF Return, LengthIsBorder
<1> QED
  BY <1>1, <1>3 DEF Return, LengthInv, DownInv, UpInv, BinInv, HashInv

LEMMA ContinueInHashInv ==
  ASSUME LengthInv, ContinueInHash,
         TypeOK', ArrayTailUnused', Canonical', HintInside',
         UNCHANGED <<arr, asize, hash, mixed>>,
         asize = 0 \/ arr[asize] # Nil
  PROVE  LengthInv'
<1>0. asize \in 0..MaxKey
  BY DEF LengthInv, LengthTypeOK, TypeOK
<1>1. CASE ~InHash(asize + 1)
  <2>1. ~mixed => Border(asize)
    BY <1>0, BorderFacts, MaxFacts DEF Border
  <2> QED
    BY <1>0, <1>1, <2>1, ReturnInv, MaxFacts DEF ContinueInHash
<1>2. CASE InHash(asize + 1)
  <2>1. mixed
    BY <1>2, BorderFacts
  <2>2. /\ pc' = "double" /\ lo' = 0 /\ hi' \in Nat
        /\ UNCHANGED <<limit, tries, len>>
    BY <1>0, <1>2 DEF ContinueInHash
  <2>3. LengthTypeOK'
    BY <2>2 DEF LengthInv, LengthTypeOK, Label
  <2> QED
    BY <2>1, <2>2, <2>3
    DEF LengthInv, DownInv, UpInv, BinInv, HashInv, LengthIsBorder
<1> QED
  BY <1>1, <1>2

(* A binary search keeps an element at lo and none at hi.                  *)
LEMMA BetweenInv ==
  ASSUME LengthInv, NEW low \in 0..asize, NEW high \in 1..asize, low < high,
         low = 0 \/ arr[low] # Nil, arr[high] = Nil,
         Between(low, high), UNCHANGED tvars
  PROVE  LengthInv'
<1>1. LengthTypeOK'
  BY KeepTable, MaxFacts DEF Between, LengthInv, LengthTypeOK, Label, TypeOK
<1> QED
  BY <1>1, KeepTable
  DEF Between, tvars, LengthInv, DownInv, UpInv, BinInv, HashInv, LengthIsBorder

LEMMA StartInv == LengthInv /\ Start => LengthInv'
<1> SUFFICES ASSUME LengthInv, Start PROVE LengthInv'
  OBVIOUS
<1>0. asize \in 0..MaxKey /\ lenhint \in 0..MaxKey /\ UNCHANGED tvars
  BY DEF LengthInv, LengthTypeOK, TypeOK, Start
<1>1. CASE asize = 0
  BY <1>0, <1>1, KeepTable, ContinueInHashInv DEF Start, tvars
<1>2. CASE asize # 0
  <2> DEFINE l == IF lenhint = 0 THEN 1 ELSE IF lenhint > asize THEN asize ELSE lenhint
  <2>1. l \in 1..asize /\ l \in 0..MaxKey
    BY <1>0, <1>2, MaxFacts
  <2> HIDE DEF l
  <2>2. /\ limit' = l /\ tries' = 0
        /\ pc' = (IF arr[l] = Nil THEN "down" ELSE "up")
        /\ UNCHANGED <<lo, hi, len>>
    BY <1>2 DEF Start, l
  <2>3. LengthTypeOK'
    <3>1. pc' \in Label /\ tries' \in 0..MaxVic
      BY <2>2, MaxFacts DEF Label
    <3> QED
      BY <1>0, <2>1, <2>2, <3>1, KeepTable DEF LengthInv, LengthTypeOK
  <2> QED
    BY <1>0, <2>1, <2>2, <2>3, KeepTable
    DEF tvars, LengthInv, DownInv, UpInv, BinInv, HashInv, LengthIsBorder
<1> QED
  BY <1>1, <1>2

LEMMA ProbeDownInv == LengthInv /\ ProbeDown => LengthInv'
<1> SUFFICES ASSUME LengthInv, ProbeDown PROVE LengthInv'
  OBVIOUS
<1>0. /\ limit \in 2..asize /\ arr[limit] = Nil /\ asize \in 0..MaxKey
      /\ tries \in Nat /\ tries < MaxVic /\ pc = "down"
  BY MaxFacts DEF LengthInv, LengthTypeOK, TypeOK, DownInv, ProbeDown
<1>1. CASE arr[limit - 1] # Nil
  <2>1. SetHint(limit - 1) /\ Return(limit - 1)
    BY <1>1 DEF ProbeDown
  <2>2. ~mixed => Border(limit - 1)
    BY <1>0, <1>1, BorderFacts DEF Border
  <2> QED
    BY <1>0, <2>1, <2>2, SearchTypeOK, ReturnInv DEF SetHint
<1>2. CASE arr[limit - 1] = Nil
  <2>1. limit' = limit - 1 /\ tries' = tries + 1 /\ UNCHANGED <<tvars, pc, lo, hi, len>>
    BY <1>2 DEF ProbeDown
  <2>2. LengthTypeOK'
    BY <1>0, <2>1, KeepTable, MaxFacts DEF LengthInv, LengthTypeOK, Label
  <2> QED
    BY <1>0, <1>2, <2>1, <2>2, KeepTable
    DEF tvars, LengthInv, DownInv, UpInv, BinInv, HashInv, LengthIsBorder
<1> QED
  BY <1>1, <1>2

LEMMA StopDownInv == LengthInv /\ StopDown => LengthInv'
<1> SUFFICES ASSUME LengthInv, StopDown PROVE LengthInv'
  OBVIOUS
<1>1. limit \in 1..asize /\ arr[limit] = Nil /\ asize \in 0..MaxKey
  BY DEF LengthInv, LengthTypeOK, TypeOK, DownInv, StopDown
<1>2. Between(0, limit) /\ UNCHANGED tvars
  BY DEF StopDown
<1> QED
  BY <1>1, <1>2, BetweenInv

LEMMA ProbeUpInv == LengthInv /\ ProbeUp => LengthInv'
<1> SUFFICES ASSUME LengthInv, ProbeUp PROVE LengthInv'
  OBVIOUS
<1>0. /\ limit \in 1..asize /\ limit < asize /\ arr[limit] # Nil
      /\ asize \in 0..MaxKey /\ tries \in Nat /\ tries < MaxVic /\ pc = "up"
  BY MaxFacts DEF LengthInv, LengthTypeOK, TypeOK, UpInv, ProbeUp
<1>1. CASE arr[limit + 1] = Nil
  <2>1. SetHint(limit) /\ Return(limit)
    BY <1>1 DEF ProbeUp
  <2>2. ~mixed => Border(limit)
    BY <1>0, <1>1, BorderFacts DEF Border
  <2> QED
    BY <1>0, <2>1, <2>2, SearchTypeOK, ReturnInv DEF SetHint
<1>2. CASE arr[limit + 1] # Nil
  <2>1. limit' = limit + 1 /\ tries' = tries + 1 /\ UNCHANGED <<tvars, pc, lo, hi, len>>
    BY <1>2 DEF ProbeUp
  <2>2. LengthTypeOK'
    BY <1>0, <2>1, KeepTable, MaxFacts DEF LengthInv, LengthTypeOK, Label
  <2> QED
    BY <1>0, <1>2, <2>1, <2>2, KeepTable
    DEF tvars, LengthInv, DownInv, UpInv, BinInv, HashInv, LengthIsBorder
<1> QED
  BY <1>1, <1>2

LEMMA StopUpInv == LengthInv /\ StopUp => LengthInv'
<1> SUFFICES ASSUME LengthInv, StopUp PROVE LengthInv'
  OBVIOUS
<1>0. limit \in 1..asize /\ arr[limit] # Nil /\ asize \in 0..MaxKey
  BY DEF LengthInv, LengthTypeOK, TypeOK, UpInv, StopUp
<1>1. CASE arr[asize] = Nil
  <2>1. Between(limit, asize) /\ UNCHANGED tvars
    BY <1>1 DEF StopUp
  <2>2. limit < asize /\ asize \in 1..asize
    BY <1>0, <1>1
  <2> QED
    BY <1>0, <1>1, <2>1, <2>2, BetweenInv
<1>2. CASE arr[asize] # Nil
  <2>1. SetHint(asize) /\ ContinueInHash
    BY <1>2 DEF StopUp
  <2> QED
    BY <1>0, <1>2, <2>1, SearchTypeOK, ContinueInHashInv DEF SetHint
<1> QED
  BY <1>1, <1>2

LEMMA BisectInv == LengthInv /\ Bisect => LengthInv'
<1> SUFFICES ASSUME LengthInv, Bisect PROVE LengthInv'
  OBVIOUS
<1>0. /\ lo \in Nat /\ lo < hi /\ hi \in 1..asize /\ asize \in 0..MaxKey
      /\ lo = 0 \/ arr[lo] # Nil
      /\ arr[hi] = Nil /\ pc = "bin"
  BY DEF LengthInv, LengthTypeOK, TypeOK, BinInv, Bisect
<1>1. CASE hi - lo > 1
  <2> DEFINE m == (lo + hi) \div 2
  <2>1. lo < m /\ m < hi /\ m \in 1..asize
    BY <1>0, <1>1
  <2> HIDE DEF m
  <2>2. /\ IF arr[m] = Nil THEN hi' = m /\ lo' = lo ELSE lo' = m /\ hi' = hi
        /\ UNCHANGED <<tvars, pc, limit, tries, len>>
    BY <1>1 DEF Bisect, m
  <2>3. LengthTypeOK'
    BY <1>0, <2>1, <2>2, KeepTable DEF LengthInv, LengthTypeOK
  <2> QED
    BY <1>0, <2>1, <2>2, <2>3, KeepTable
    DEF tvars, LengthInv, DownInv, UpInv, BinInv, HashInv, LengthIsBorder
<1>2. CASE ~(hi - lo > 1)
  <2>1. SetHint(lo) /\ Return(lo) /\ hi = lo + 1 /\ lo \in 0..asize
    BY <1>0, <1>2 DEF Bisect
  <2>2. ~mixed => Border(lo)
    BY <1>0, <2>1, BorderFacts DEF Border
  <2> QED
    BY <1>0, <2>1, <2>2, SearchTypeOK, ReturnInv DEF SetHint
<1> QED
  BY <1>1, <1>2

(* Only a mixed table sends the search into the hash part: there is no     *)
(* claim on the result, only on the types of the indices.                  *)
LEMMA HashSearchInv ==
  LengthInv /\ (Double \/ StopDoubling \/ HashBisect \/ Linear) => LengthInv'
<1> SUFFICES ASSUME LengthInv, Double \/ StopDoubling \/ HashBisect \/ Linear
             PROVE  LengthInv'
  OBVIOUS
<1>1. /\ mixed /\ UNCHANGED tvars
      /\ pc' \in {"double", "hashbin", "linear", "done"}
      /\ UNCHANGED <<limit, tries>>
  BY DEF LengthInv, HashInv, Double, StopDoubling, HashBisect, Linear, Return
<1>2. lo' \in Nat /\ hi' \in Nat /\ len' \in Nat
  <2>1. lo \in Nat /\ hi \in Nat /\ len \in Nat
    BY DEF LengthInv, LengthTypeOK
  <2>2. CASE Double
    BY <2>1, <2>2 DEF Double
  <2>3. CASE StopDoubling
    <3>1. hi \div 2 \in Nat
      BY <2>1
    <3> QED
      BY <2>1, <2>3, <3>1 DEF StopDoubling
  <2>4. CASE HashBisect
    <3>1. (lo + hi) \div 2 \in Nat
      BY <2>1
    <3> QED
      BY <2>1, <2>4, <3>1 DEF HashBisect, Return
  <2>5. CASE Linear
    BY <2>1, <2>5 DEF Linear, Return
  <2> QED
    BY <2>2, <2>3, <2>4, <2>5
<1>3. LengthTypeOK'
  BY <1>1, <1>2, KeepTable DEF LengthInv, LengthTypeOK, Label
<1> QED
  BY <1>1, <1>3, KeepTable
  DEF tvars, LengthInv, DownInv, UpInv, BinInv, HashInv, LengthIsBorder

LEMMA ConsumeInv == LengthInv /\ Consume => LengthInv'
<1> SUFFICES ASSUME LengthInv, Consume PROVE LengthInv'
  OBVIOUS
<1>1. LengthTypeOK'
  BY KeepTable, MaxFacts DEF Consume, LengthInv, LengthTypeOK, Label
<1> QED
  BY <1>1, KeepTable
  DEF Consume, LengthInv, DownInv, UpInv, BinInv, HashInv, LengthIsBorder

LEMMA LengthNextInv == LengthInv /\ [LengthNext]_vars => LengthInv'
<1> SUFFICES ASSUME LengthInv, [LengthNext]_vars PROVE LengthInv'
  OBVIOUS
<1>1. CASE UNCHANGED vars
  BY <1>1, KeepTable
  DEF vars, tvars, lvars, LengthInv, LengthTypeOK, DownInv, UpInv, BinInv,
      HashInv, LengthIsBorder, Border, IsNil, RawGet
<1> QED
  BY <1>1, TableStepInv, StartInv, ProbeDownInv, StopDownInv, ProbeUpInv,
     StopUpInv, BisectInv, HashSearchInv, ConsumeInv
  DEF LengthNext, Getn

LEMMA LengthInvariance == LengthSpec => []LengthInv
BY LengthInitInv, LengthNextInv, PTL DEF LengthSpec

(* Whatever the table's history, if no constructor mixed its two parts, #  *)
(* returns an index with an element whose successor has none (getn).       *)
THEOREM LengthReturnsBorder == LengthSpec => []LengthIsBorder
<1>1. LengthInv => LengthIsBorder
  BY DEF LengthInv
<1> QED
  BY <1>1, LengthInvariance, PTL

(* The hint left by rawset, setlist, table.create or an earlier search is  *)
(* never past the array part.                                              *)
THEOREM HintStaysInside == LengthSpec => []HintInside
<1>1. LengthInv => HintInside
  BY DEF LengthInv
<1> QED
  BY <1>1, LengthInvariance, PTL

-----------------------------------------------------------------------------
(***************************************************************************)
(* A pairs loop visits every field that lasts exactly once, for every      *)
(* table, every legal body and every collection.                           *)
(***************************************************************************)

(* While the loop is in the array part, it has been given nothing but      *)
(* indexes up to the cursor, and all of those that were kept.              *)
InArrayPart ==
    /\ cursor \in 0..asize
    /\ passed = {}
    /\ seen \subseteq 1..cursor
    /\ \A i \in kept : i \in 1..cursor => i \in seen

(* In the hash part, it has been given the kept indexes of the array part, *)
(* and of the other keys those that the host's next is past.               *)
InHashPart ==
    /\ cursor \notin 0..asize
    /\ cursor \in passed
    /\ passed \subseteq seen
    /\ seen \subseteq passed \cup (1..asize)
    /\ \A i \in kept : i \in 1..asize => i \in seen

Progress ==
    /\ phase = "idle" => ~twice
    /\ phase = "run" => ~building /\ kept \subseteq Present
    /\ ~mixed => /\ ~twice
                 /\ phase # "error"
                 /\ phase = "run" => InArrayPart \/ InHashPart
                 /\ phase = "done" => kept \subseteq seen

TravInv == Inv /\ TraversalTypeOK /\ Progress

LEMMA TravInit == TraversalInit => TravInv
<1> SUFFICES ASSUME TraversalInit PROVE TravInv
  OBVIOUS
<1>1. Inv
  BY InitInv DEF TraversalInit
<1>2. TraversalTypeOK
  BY <1>1 DEF Inv, TraversalInit, TraversalTypeOK
<1>3. Progress
  BY DEF Progress, TraversalInit
<1> QED
  BY <1>1, <1>2, <1>3 DEF TravInv

(* The steps of the table itself. *)
LEMMA TableSteps == [TraversalNext]_allvars => [Next]_tvars
<1>1. ASSUME NEW k \in Present, NEW v \in Slot, RawSet(k, v) PROVE Next
  BY <1>1 DEF Next, Present
<1>2. ASSUME NEW gk \in SUBSET Names, NEW gv \in SUBSET Values, ClearWeak(gk, gv)
      PROVE  Next
  BY <1>2 DEF Next
<1> QED
  BY <1>1, <1>2 DEF TraversalNext, Build, Pairs, TNext, Assign, Collect, Again, allvars

LEMMA BuildInv == TravInv /\ Inv' /\ Build => TravInv'
BY DEF TravInv, Inv, Build, pvars, TraversalTypeOK, Progress

LEMMA PairsInv == TravInv /\ Inv' /\ Pairs => TravInv'
<1> SUFFICES ASSUME TravInv, Inv', Pairs PROVE TravInv'
  OBVIOUS
<1>1. TraversalTypeOK'
  BY DEF TravInv, Inv, Pairs, TraversalTypeOK, Present
<1>2. Present' = Present
  BY DEF Pairs, tvars, Present, RawGet
<1>3. InArrayPart'
  BY KeyFacts DEF Pairs, InArrayPart, Present, Inv, TypeOK
<1>4. Progress'
  BY <1>2, <1>3 DEF Pairs, Progress, tvars
<1> QED
  BY <1>1, <1>4 DEF TravInv

(* The next key, when the array part has one left. *)
LEMMA ScanInv ==
  ASSUME TravInv, phase = "run", UNCHANGED <<tvars, kept, passed>>,
         cursor \in 0..asize,
         NEW i \in ArrayLeft, \A j \in ArrayLeft : i <= j, Visit(i)
  PROVE  TraversalTypeOK' /\ Progress'
<1>1. /\ i \in 1..asize /\ i \in Key /\ i > cursor /\ cursor \in Int /\ asize \in Int
      /\ arr[i] # Nil
  BY KeyFacts DEF ArrayLeft, TravInv, Inv, TypeOK, TraversalTypeOK
<1>2. TraversalTypeOK'
  BY <1>1 DEF TravInv, TraversalTypeOK, TypeOK, Visit, tvars
<1>3. Present' = Present
  BY DEF tvars, Present, RawGet
<1>4. ASSUME ~mixed PROVE ~twice' /\ InArrayPart'
  <2>1. InArrayPart /\ ~twice
    BY <1>4 DEF TravInv, Progress, InHashPart
  <2>2. ASSUME NEW k \in kept, k \in 1..i, k # i PROVE k \in seen
    <3>1. arr[k] # Nil
      BY <2>2, <1>1 DEF TravInv, Progress, Present, RawGet
    <3>2. k \notin ArrayLeft
      BY <2>2, <1>1
    <3>3. k \in 1..cursor
      BY <3>1, <3>2, <2>2, <1>1 DEF ArrayLeft
    <3> QED
      BY <2>1, <3>3 DEF InArrayPart
  <2>3. /\ cursor' = i /\ seen' = seen \cup {i} /\ twice' = (twice \/ i \in seen)
        /\ passed' = passed /\ asize' = asize /\ kept' = kept
    BY DEF Visit, tvars
  <2>4. i \notin seen /\ seen' \subseteq 1..i
    BY <2>1, <2>3, <1>1 DEF InArrayPart
  <2>5. \A k \in kept : k \in 1..i => k \in seen'
    BY <2>2, <2>3
  <2>6. ~twice'
    BY <2>1, <2>3, <2>4
  <2>7. InArrayPart'
    BY <2>1, <2>3, <2>4, <2>5, <1>1 DEF InArrayPart
  <2> QED
    BY <2>6, <2>7
<1>5. Progress'
  BY <1>3, <1>4 DEF Progress, TravInv, Visit, tvars
<1> QED
  BY <1>2, <1>5

(* The next key, or the end, in the hash part. *)
LEMMA HostNextInv ==
  ASSUME TravInv, phase = "run", UNCHANGED <<tvars, kept>>,
         NEW past \in SUBSET Key, HostNext(past),
         ~mixed => /\ past = passed
                   /\ past \subseteq seen
                   /\ seen \subseteq past \cup (1..asize)
                   /\ \A i \in kept : i \in 1..asize => i \in seen
  PROVE  TraversalTypeOK' /\ Progress'
<1> DEFINE left == {k \in Key \ past : hash[k] # Nil}
<1>1. Present' = Present
  BY DEF tvars, Present, RawGet
<1>2. asize \in 0..MaxKey
  BY DEF TravInv, Inv, TypeOK
<1>3. ASSUME ~mixed, NEW k \in Key, hash[k] # Nil PROVE k \notin 0..asize
  BY <1>2, <1>3, KeyFacts DEF TravInv, Inv, Canonical, Key, IntKey
<1>4. CASE left = {}
  <2>1. phase' = "done" /\ UNCHANGED <<cursor, passed, seen, twice>>
    BY <1>4 DEF HostNext
  <2>2. TraversalTypeOK'
    BY <2>1 DEF TravInv, TraversalTypeOK, TypeOK, tvars
  <2>3. ASSUME ~mixed, NEW k \in kept PROVE k \in seen
    BY <2>3, <1>4 DEF TravInv, Progress, Present, RawGet
  <2> QED
    BY <2>1, <2>2, <2>3 DEF Progress, TravInv, tvars
<1>5. ASSUME NEW k \in left, Visit(k), passed' = past \cup {k}
      PROVE  TraversalTypeOK' /\ Progress'
  <2>1. TraversalTypeOK'
    BY <1>5 DEF TravInv, TraversalTypeOK, TypeOK, tvars, Visit
  <2>2. ASSUME ~mixed PROVE ~twice' /\ InHashPart'
    <3>1. k \notin 0..asize /\ k \notin 1..asize /\ k \notin past
      BY <1>2, <1>3, <2>2
    <3> QED
      BY <3>1, <2>2, <1>5 DEF InHashPart, Visit, tvars, TravInv, Progress
  <2> QED
    BY <1>1, <1>5, <2>1, <2>2 DEF Progress, TravInv, tvars, Visit
<1> QED
  BY <1>4, <1>5 DEF HostNext

LEMMA TNextInv == TravInv /\ Inv' /\ TNext => TravInv'
<1> SUFFICES ASSUME TravInv, Inv', TNext PROVE TraversalTypeOK' /\ Progress'
  BY DEF TravInv
<1>1. phase = "run" /\ UNCHANGED <<tvars, kept>>
  BY DEF TNext
<1>2. CASE cursor \in 0..asize /\ ArrayLeft # {}
  BY <1>1, <1>2, ScanInv DEF TNext
<1>3. CASE cursor \in 0..asize /\ ArrayLeft = {}
  <2>1. HostNext({})
    BY <1>3 DEF TNext
  <2>2. ASSUME ~mixed
        PROVE  /\ {} = passed /\ seen \subseteq {} \cup (1..asize)
               /\ \A i \in kept : i \in 1..asize => i \in seen
    <3>1. InArrayPart
      BY <1>1, <1>3, <2>2 DEF TravInv, Progress, InHashPart
    <3>2. cursor \in Int /\ asize \in Int /\ cursor <= asize
      BY <1>3, KeyFacts DEF TravInv, Inv, TypeOK
    <3>3. ASSUME NEW i \in kept, i \in 1..asize PROVE i \in seen
      <4>1. arr[i] # Nil
        BY <1>1, <3>3 DEF TravInv, Progress, Present, RawGet
      <4>2. i \in 1..cursor
        BY <4>1, <1>3, <3>2, <3>3 DEF ArrayLeft
      <4> QED
        BY <4>2, <3>1 DEF InArrayPart
    <3> QED
      BY <3>1, <3>2, <3>3 DEF InArrayPart
  <2> QED
    BY <1>1, <2>1, <2>2, HostNextInv
<1>4. CASE cursor \notin 0..asize /\ cursor \in passed
  <2>1. HostNext(passed) /\ passed \in SUBSET Key
    BY <1>4 DEF TNext, TravInv, TraversalTypeOK
  <2>2. ~mixed => InHashPart
    BY <1>1, <1>4 DEF TravInv, Progress, InArrayPart
  <2> QED
    BY <1>1, <2>1, <2>2, HostNextInv DEF InHashPart
<1>5. CASE cursor \notin 0..asize /\ cursor \notin passed
  <2>1. mixed
    BY <1>1, <1>5 DEF TravInv, Progress, InArrayPart, InHashPart
  <2>2. phase' = "error" /\ UNCHANGED <<cursor, passed, seen, twice>>
    BY <1>5 DEF TNext
  <2> QED
    BY <1>1, <2>1, <2>2 DEF Progress, TravInv, TraversalTypeOK, TypeOK, tvars
<1> QED
  BY <1>2, <1>3, <1>4, <1>5

(* A body that keeps to the fields there are never enlarges the array      *)
(* part of a canonical table.                                              *)
LEMMA AssignKeepsSize ==
  ASSUME TravInv, ~mixed, NEW k \in Present, NEW v \in Slot, RawSet(k, v)
  PROVE  asize' = asize
<1>1. ~ExtendArray(k, v)
  <2> SUFFICES ASSUME ExtendArray(k, v) PROVE FALSE
    OBVIOUS
  <2>1. k \in IntKey /\ k = asize + 1 /\ asize \in 0..MaxKey
    BY DEF ExtendArray, TravInv, Inv, TypeOK
  <2>2. hash[k] = Nil
    BY <2>1, KeyFacts DEF TravInv, Inv, Canonical
  <2> QED
    BY <2>1, <2>2, KeyFacts DEF Present, RawGet
<1> QED
  BY <1>1 DEF RawSet, SetInArray, SetInHash

LEMMA KeepInv ==
  ASSUME TravInv, Inv', phase = "run", Keep, UNCHANGED <<building, mixed>>,
         ~mixed => asize' = asize
  PROVE  TravInv'
<1>1. TraversalTypeOK'
  BY DEF TravInv, Inv, Keep, TraversalTypeOK
<1>2. kept' \subseteq kept /\ kept' \subseteq Present'
  BY DEF Keep, Present, TravInv, TraversalTypeOK
<1>3. ~mixed => InArrayPart' \/ InHashPart'
  BY <1>2 DEF TravInv, Progress, InArrayPart, InHashPart, Keep
<1> QED
  BY <1>1, <1>2, <1>3 DEF TravInv, Progress, Keep

LEMMA TravNextInv == TravInv /\ [TraversalNext]_allvars => TravInv'
<1> SUFFICES ASSUME TravInv, [TraversalNext]_allvars PROVE TravInv'
  OBVIOUS
<1>1. Inv'
  BY TableSteps, NextInv DEF TravInv
<1>2. CASE Build
  BY <1>1, <1>2, BuildInv
<1>3. CASE Pairs
  BY <1>1, <1>3, PairsInv
<1>4. CASE TNext
  BY <1>1, <1>4, TNextInv
<1>5. CASE Assign
  <2>1. PICK k \in Present, v \in Slot : RawSet(k, v)
    BY <1>5 DEF Assign
  <2> QED
    BY <1>1, <1>5, <2>1, AssignKeepsSize, KeepInv DEF Assign, RawSet
<1>6. CASE Collect
  BY <1>1, <1>6, KeepInv DEF Collect, ClearWeak
<1>7. CASE Again
  BY <1>1, <1>7 DEF Again, TravInv, Inv, TraversalTypeOK, Progress
<1>8. CASE UNCHANGED allvars
  <2>1. UNCHANGED <<tvars, phase, cursor, passed, seen, twice, kept>>
    BY <1>8 DEF allvars, pvars
  <2>2. Present' = Present
    BY <2>1 DEF tvars, Present, RawGet
  <2> QED
    BY <1>1, <2>1, <2>2
       DEF TravInv, TraversalTypeOK, Inv, Progress, InArrayPart, InHashPart, tvars
<1> QED
  BY <1>2, <1>3, <1>4, <1>5, <1>6, <1>7, <1>8 DEF TraversalNext

LEMMA TravInvariance == TraversalSpec => []TravInv
BY TravInit, TravNextInv, PTL DEF TraversalSpec

(* A pairs loop whose body only assigns to fields that exist visits every  *)
(* field that lasts exactly once, whatever a collection clears meanwhile   *)
(* (tnext of runtime.lua, next of stdlib.lua).                             *)
THEOREM LoopVisitsEachOnce == TraversalSpec => []VisitsEachOnce
<1>1. TravInv => VisitsEachOnce
  BY DEF TravInv, Progress, VisitsEachOnce, VisitOnce, VisitAll
<1> QED
  BY <1>1, TravInvariance, PTL

(* next never rejects a key that it returned itself, unless a constructor  *)
(* left a table whose parts overlap (tnext of runtime.lua).                *)
THEOREM NextKnowsItsKeys == TraversalSpec => [](phase = "error" => mixed)
<1>1. TravInv => (phase = "error" => mixed)
  BY DEF TravInv, Progress
<1> QED
  BY <1>1, TravInvariance, PTL

(* A table that is traversed while it is written is still the one map.     *)
THEOREM TraversedTableRefinesMap == TraversalSpec => ImplementsLuaTable
<1>1. TraversalSpec => Spec
  BY TableSteps, PTL DEF TraversalSpec, TraversalInit, Spec
<1> QED
  BY <1>1, TableRefinesMap
=============================================================================
