---------------------------- MODULE TableLength -----------------------------
(***************************************************************************)
(* The length operator on a guest table (runtime.lua getn, binsearch and   *)
(* hash_search), one action per probe, over every table the operations of  *)
(* GuestTable can build.  The search runs without interruption, starts at  *)
(* the hint left by the table's history and leaves a new one behind.       *)
(***************************************************************************)
EXTENDS GuestTable

CONSTANTS MaxVic,   \* probes around the hint (maxvic, 4 in the code)
          HalfMax   \* past it an index cannot double (0x3FFFFFFFFFFFFFFF)

ASSUME LengthAssumption == MaxVic \in Nat /\ HalfMax \in Nat

VARIABLES pc,       \* which loop of the search is running
          limit,    \* the probed index near the hint
          tries,    \* probes made around the hint
          lo, hi,   \* the ends of a binary search
          len       \* the result, meaningful when pc = "done"

lvars == <<pc, limit, tries, lo, hi, len>>
vars  == <<tvars, lvars>>

Label == {"idle", "down", "up", "bin", "double", "hashbin", "linear", "done"}

LengthTypeOK ==
    /\ TypeOK
    /\ pc \in Label
    /\ limit \in 0..MaxKey
    /\ tries \in 0..MaxVic
    /\ lo \in Nat /\ hi \in Nat
    /\ len \in Nat

LengthInit ==
    /\ Init
    /\ pc = "idle"
    /\ limit = 0 /\ tries = 0 /\ lo = 0 /\ hi = 0 /\ len = 0

-----------------------------------------------------------------------------
InHash(j)  == j \in IntKey /\ hash[j] # Nil

SetHint(h) == /\ lenhint' = h
              /\ UNCHANGED <<arr, asize, hash, building, built, mixed>>

(* The search is over: the caller gets n.                                  *)
Return(n) == /\ pc' = "done" /\ len' = n
             /\ UNCHANGED <<limit, tries, lo, hi>>

(* The array part is full (or empty): look for asize + 1 in the hash part, *)
(* and search on from asize when it is there.                              *)
ContinueInHash ==
    IF ~InHash(asize + 1)
    THEN Return(asize)
    ELSE /\ pc' = "double"
         /\ hi' = IF asize = 0 THEN 1 ELSE asize
         /\ lo' = 0                       \* i is still unset
         /\ UNCHANGED <<limit, tries, len>>

(* Mutant: the search takes for granted that the first slot is in use.     *)
BetweenFromOne(low, high) ==
    /\ pc' = "bin" /\ lo' = (IF low = 0 THEN 1 ELSE low) /\ hi' = high
    /\ UNCHANGED <<limit, tries, len>>

Between(low, high) == /\ pc' = "bin" /\ lo' = low /\ hi' = high
                      /\ UNCHANGED <<limit, tries, len>>

(* getn: clamp the hint into the array part and choose a direction.        *)
Start ==
    /\ pc = "idle" /\ ~building
    /\ UNCHANGED tvars
    /\ IF asize = 0
       THEN ContinueInHash
       ELSE LET l == IF lenhint = 0 THEN 1
                     ELSE IF lenhint > asize THEN asize ELSE lenhint
            IN /\ limit' = l /\ tries' = 0
               /\ pc' = IF arr[l] = Nil THEN "down" ELSE "up"
               /\ UNCHANGED <<lo, hi, len>>

ProbeDown ==
    /\ pc = "down" /\ tries < MaxVic /\ limit > 1
    /\ IF arr[limit - 1] # Nil
       THEN SetHint(limit - 1) /\ Return(limit - 1)
       ELSE /\ limit' = limit - 1 /\ tries' = tries + 1
            /\ UNCHANGED <<tvars, pc, lo, hi, len>>

StopDown ==
    /\ pc = "down" /\ (tries = MaxVic \/ limit <= 1)
    /\ Between(0, limit) /\ UNCHANGED tvars

ProbeUp ==
    /\ pc = "up" /\ tries < MaxVic /\ limit < asize
    /\ IF arr[limit + 1] = Nil
       THEN SetHint(limit) /\ Return(limit)
       ELSE /\ limit' = limit + 1 /\ tries' = tries + 1
            /\ UNCHANGED <<tvars, pc, lo, hi, len>>

StopUp ==
    /\ pc = "up" /\ (tries = MaxVic \/ limit >= asize)
    /\ IF arr[asize] = Nil
       THEN Between(limit, asize) /\ UNCHANGED tvars
       ELSE SetHint(asize) /\ ContinueInHash

Bisect ==
    /\ pc = "bin"
    /\ IF hi - lo > 1
       THEN LET m == (lo + hi) \div 2
            IN /\ IF arr[m] = Nil THEN hi' = m /\ UNCHANGED lo
                                  ELSE lo' = m /\ UNCHANGED hi
               /\ UNCHANGED <<tvars, pc, limit, tries, len>>
       ELSE SetHint(lo) /\ Return(lo)

(* hash_search: double hi while it is present; lo stays 0 when the very    *)
(* first index is absent, and then the search starts from hi // 2.         *)
Double ==
    /\ pc = "double" /\ InHash(hi)
    /\ lo' = hi
    /\ IF hi > HalfMax
       THEN pc' = "linear" /\ UNCHANGED hi
       ELSE hi' = 2 * hi /\ UNCHANGED pc
    /\ UNCHANGED <<tvars, limit, tries, len>>

StopDoubling ==
    /\ pc = "double" /\ ~InHash(hi)
    /\ lo' = IF lo = 0 THEN hi \div 2 ELSE lo
    /\ pc' = "hashbin"
    /\ UNCHANGED <<tvars, hi, limit, tries, len>>

(* Mutant: the search of the hash part goes on until its ends meet.        *)
HashBisectTooLong ==
    /\ pc = "hashbin"
    /\ UNCHANGED tvars
    /\ IF hi - lo > 0
       THEN LET m == (lo + hi) \div 2
            IN /\ IF InHash(m) THEN lo' = m /\ UNCHANGED hi
                               ELSE hi' = m /\ UNCHANGED lo
               /\ UNCHANGED <<pc, limit, tries, len>>
       ELSE Return(lo)

HashBisect ==
    /\ pc = "hashbin"
    /\ UNCHANGED tvars
    /\ IF hi - lo > 1
       THEN LET m == (lo + hi) \div 2
            IN /\ IF InHash(m) THEN lo' = m /\ UNCHANGED hi
                               ELSE hi' = m /\ UNCHANGED lo
               /\ UNCHANGED <<pc, limit, tries, len>>
       ELSE Return(lo)

Linear ==
    /\ pc = "linear"
    /\ UNCHANGED tvars
    /\ IF InHash(lo + 1)
       THEN lo' = lo + 1 /\ UNCHANGED <<pc, hi, limit, tries, len>>
       ELSE Return(lo)

(* The caller has its result; what it left in the locals no longer counts. *)
Consume ==
    /\ pc = "done"
    /\ pc' = "idle" /\ limit' = 0 /\ tries' = 0
    /\ lo' = 0 /\ hi' = 0 /\ len' = 0
    /\ UNCHANGED tvars

Getn == \/ Start \/ ProbeDown \/ StopDown \/ ProbeUp \/ StopUp \/ Bisect
        \/ Double \/ StopDoubling \/ HashBisect \/ Linear \/ Consume

TableStep == pc = "idle" /\ Next /\ UNCHANGED lvars

LengthNext == TableStep \/ Getn
LengthSpec == LengthInit /\ [][LengthNext]_vars /\ WF_vars(Getn)

-----------------------------------------------------------------------------
IsNil(k) == IF k \in IntKey THEN RawGet(k) = Nil ELSE TRUE

Border(n) == (n = 0 \/ ~IsNil(n)) /\ IsNil(n + 1)

(* Whatever holes the table has and wherever the hint points, # returns a  *)
(* border: its element is present and the next one is absent.              *)
LengthIsBorder == pc = "done" /\ ~mixed => Border(len)

(* The hint never leaves the array part, so that the probes stay inside.   *)
HintInside == lenhint <= asize

(* Every search ends.                                                      *)
LengthTerminates == (pc # "idle") ~> (pc = "idle")
=============================================================================
