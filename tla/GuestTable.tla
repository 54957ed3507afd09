----------------------------- MODULE GuestTable -----------------------------
(***************************************************************************)
(* The guest table of lua55vm/runtime.lua: an array part arr[1..asize]     *)
(* (holes allowed), a hash part for the other keys, and a length hint.     *)
(* A table is born either in a constructor, which interleaves keyed stores *)
(* (SETFIELD, SETTABLE) with list stores (SETLIST) before the program sees *)
(* it, or in table.create / table.pack with a preset array size.           *)
(***************************************************************************)
EXTENDS Integers

CONSTANTS MaxKey,  \* bound: integer keys are 1..MaxKey
          Names,   \* keys that are not positive integers
          Values,  \* the non-nil values
          Nil

ASSUME TableAssumption ==
    /\ MaxKey \in Nat
    /\ Names \cap Int = {}
    /\ Nil \notin Values

VARIABLES arr,      \* the array part; Nil beyond asize
          asize,    \* its size, which only grows
          hash,     \* the hash part
          lenhint,  \* where the length operator starts to look
          building, \* the constructor has not finished
          built,    \* list items the constructor has stored so far
          mixed     \* history: a list store ran over keys of the hash part

tvars == <<arr, asize, hash, lenhint, building, built, mixed>>

IntKey == 1..MaxKey
Key    == IntKey \cup Names
Slot   == Values \cup {Nil}

TypeOK ==
    /\ arr \in [IntKey -> Slot]
    /\ asize \in 0..MaxKey
    /\ hash \in [Key -> Slot]
    /\ lenhint \in 0..MaxKey
    /\ building \in BOOLEAN
    /\ built \in 0..MaxKey
    /\ mixed \in BOOLEAN

-----------------------------------------------------------------------------
RawGet(k) == IF k \in 1..asize THEN arr[k] ELSE hash[k]

(* Mutant: the hint is rounded up.                                         *)
NewTableHintUp(narr) ==
    /\ arr = [i \in IntKey |-> Nil] /\ hash = [k \in Key |-> Nil]
    /\ asize = narr /\ lenhint = narr \div 2 + 1

(* new_table(narr): every slot is nil, the hint is half the array.         *)
NewTable(narr) ==
    /\ arr = [i \in IntKey |-> Nil]
    /\ asize = narr
    /\ hash = [k \in Key |-> Nil]
    /\ lenhint = narr \div 2

Init == /\ \E narr \in 0..MaxKey :
             /\ NewTable(narr)
             /\ building \in {narr = 0, FALSE}
        /\ built = 0
        /\ mixed = FALSE

-----------------------------------------------------------------------------
(* Mutant: the keys that follow stay in the hash part.                     *)
AbsorbsNothing(k, e) == e = k

(* e is the last of the consecutive keys after k that the hash part holds. *)
AbsorbsTo(k, e) ==
    /\ \A i \in (k + 1)..e : hash[i] # Nil
    /\ e < MaxKey => hash[e + 1] = Nil

(* Mutant: the slot after the array part is taken for one of its own.      *)
SetInArrayWide(k, v) ==
    /\ k \in 1..(asize + 1) /\ k \in IntKey
    /\ arr' = [arr EXCEPT ![k] = v]
    /\ UNCHANGED <<asize, hash, lenhint>>

SetInArray(k, v) ==
    /\ k \in 1..asize
    /\ arr' = [arr EXCEPT ![k] = v]
    /\ UNCHANGED <<asize, hash, lenhint>>

(* Mutant: the keys that move over each get the value of the one before.   *)
ExtendArrayShifted(k, v) ==
    /\ k \in IntKey /\ k = asize + 1
    /\ v # Nil
    /\ \E e \in k..MaxKey :
         /\ AbsorbsTo(k, e)
         /\ asize' = e
         /\ arr' = [i \in IntKey |-> IF i = k THEN v
                                     ELSE IF i \in (k + 1)..e THEN hash[i - 1]
                                     ELSE arr[i]]
         /\ hash' = [x \in Key |-> IF x \in (k + 1)..e THEN Nil ELSE hash[x]]
         /\ lenhint' = e \div 2

(* The key just past the array part enlarges it, and the keys that follow  *)
(* move over from the hash part.  The stored key itself is not removed     *)
(* from the hash part.                                                     *)
ExtendArray(k, v) ==
    /\ k \in IntKey /\ k = asize + 1
    /\ v # Nil
    /\ \E e \in k..MaxKey :
         /\ AbsorbsTo(k, e)
         /\ asize' = e
         /\ arr' = [i \in IntKey |-> IF i = k THEN v
                                     ELSE IF i \in (k + 1)..e THEN hash[i]
                                     ELSE arr[i]]
         /\ hash' = [x \in Key |-> IF x \in (k + 1)..e THEN Nil ELSE hash[x]]
         /\ lenhint' = e \div 2

SetInHash(k, v) ==
    /\ k \notin 1..asize
    /\ ~(k = asize + 1 /\ v # Nil)
    /\ hash' = [hash EXCEPT ![k] = v]
    /\ UNCHANGED <<arr, asize, lenhint>>

RawSet(k, v) ==
    /\ \/ SetInArray(k, v)
       \/ ExtendArray(k, v)
       \/ SetInHash(k, v)
    /\ UNCHANGED <<building, built, mixed>>

(* SETLIST: the next count positional items of a constructor, possibly nil *)
(* and, for a trailing call or vararg, possibly none.                      *)
SetList(count, vals) ==
    LET last == built + count IN
    /\ building
    /\ last \in IntKey \cup {0}
    /\ arr' = [i \in IntKey |-> IF i \in (built + 1)..last
                                THEN vals[i - built] ELSE arr[i]]
    /\ IF last > asize
       THEN /\ asize' = last
            /\ lenhint' = last \div 2
            /\ mixed' = (mixed \/ \E k \in IntKey \cap ((asize + 1)..(last + 1)) :
                                    hash[k] # Nil)
       ELSE UNCHANGED <<asize, lenhint, mixed>>
    /\ built' = last
    /\ UNCHANGED <<hash, building>>

EndConstructor ==
    /\ building
    /\ building' = FALSE
    /\ UNCHANGED <<arr, asize, hash, lenhint, built, mixed>>

(* A collection clears the entries of a weak table whose value is in gv or *)
(* whose key is in gk.                                                     *)
ClearWeak(gk, gv) ==
    /\ ~building
    /\ arr' = [i \in IntKey |-> IF i \in 1..asize /\ arr[i] \in gv
                                THEN Nil ELSE arr[i]]
    /\ hash' = [k \in Key |-> IF k \in gk \/ hash[k] \in gv
                              THEN Nil ELSE hash[k]]
    /\ UNCHANGED <<asize, lenhint, building, built, mixed>>

Next == \/ \E k \in Key, v \in Slot : RawSet(k, v)
        \/ \E count \in 0..MaxKey : \E vals \in [1..count -> Slot] :
             SetList(count, vals)
        \/ EndConstructor
        \/ \E gk \in SUBSET Names, gv \in SUBSET Values : ClearWeak(gk, gv)

Spec == Init /\ [][Next]_tvars

-----------------------------------------------------------------------------
(* Unless a constructor stored list items over keys it had already put in  *)
(* the hash part, no index up to the one just past the array part lives in *)
(* the hash part: rawset can extend the array without leaving a second     *)
(* copy behind, and the border search may stop at asize.                   *)
Canonical == ~mixed => \A k \in IntKey : k <= asize + 1 => hash[k] = Nil

(* Slots past the array part are never used, so that growing asize never   *)
(* uncovers a stale value; and a constructor's list items leave no gap.    *)
ArrayTailUnused == /\ \A i \in IntKey : i > asize => arr[i] = Nil
                   /\ built <= asize

(* Reading through both parts, the table is the single map of LuaTable:    *)
(* growing the array, absorbing keys and clearing weak entries change no   *)
(* key but the ones they are asked to.                                     *)
Dict == INSTANCE LuaTable WITH dict  <- [k \in Key |-> RawGet(k)],
                               fresh <- building, items <- built
ImplementsLuaTable == Dict!Spec
=============================================================================
