--------------------------- MODULE TableTraversal ---------------------------
(***************************************************************************)
(* A pairs loop over a guest table: every call of next (stdlib.lua) runs   *)
(* tnext (runtime.lua), which walks the array part and then hands over to  *)
(* the host's next on the hash part.  Between two calls the loop's body    *)
(* does what Lua allows it to do: assign to, or clear, fields that exist;  *)
(* and a collection may clear weak entries.                                *)
(***************************************************************************)
EXTENDS GuestTable

VARIABLES phase,   \* "idle", "run", "done" or "error"
          cursor,  \* the key the next call will be given, 0 for nil
          passed,  \* the keys the host's next is past, in its own order
          seen,    \* history: the keys the loop has been given
          twice,   \* history: some key was given a second time
          kept     \* history: the keys present ever since the loop began

pvars == <<phase, cursor, passed, seen, twice, kept>>
allvars == <<tvars, pvars>>

TraversalTypeOK ==
    /\ TypeOK
    /\ phase \in {"idle", "run", "done", "error"}
    /\ cursor \in Key \cup {0}
    /\ passed \subseteq Key /\ seen \subseteq Key /\ kept \subseteq Key
    /\ twice \in BOOLEAN

Present == {k \in Key : RawGet(k) # Nil}

TraversalInit ==
    /\ Init
    /\ phase = "idle" /\ cursor = 0
    /\ passed = {} /\ seen = {} /\ twice = FALSE /\ kept = {}

(* pairs(t): the first call of next gets nil.                              *)
Pairs ==
    /\ phase = "idle" /\ ~building
    /\ phase' = "run" /\ cursor' = 0
    /\ passed' = {} /\ seen' = {} /\ twice' = FALSE
    /\ kept' = Present
    /\ UNCHANGED tvars

Visit(k) ==
    /\ cursor' = k
    /\ seen' = seen \cup {k}
    /\ twice' = (twice \/ k \in seen)
    /\ UNCHANGED phase

(* Mutant: the host's place in the hash part is lost.                      *)
HostNextForgets(past) ==
    LET left == {k \in Key \ past : hash[k] # Nil} IN
    IF left = {}
    THEN phase' = "done" /\ UNCHANGED <<cursor, passed, seen, twice>>
    ELSE \E k \in left : Visit(k) /\ passed' = past

(* The host's next on the hash part, in an order it keeps: a key cleared   *)
(* since the host returned it is still one it can go on from.              *)
HostNext(past) ==
    LET left == {k \in Key \ past : hash[k] # Nil} IN
    IF left = {}
    THEN phase' = "done" /\ UNCHANGED <<cursor, passed, seen, twice>>
    ELSE \E k \in left : Visit(k) /\ passed' = past \cup {k}

(* Mutant: the scan starts two after the key.                              *)
ArrayLeftSkip == {i \in 1..asize : i > cursor + 1 /\ arr[i] # Nil}

ArrayLeft == {i \in 1..asize : i > cursor /\ arr[i] # Nil}

(* tnext: a nil or an array key scans on in the array part, and the hash   *)
(* part is then started from its beginning.                                *)
TNext ==
    /\ phase = "run"
    /\ IF cursor \in 0..asize
       THEN IF ArrayLeft # {}
            THEN \E i \in ArrayLeft : /\ \A j \in ArrayLeft : i <= j
                                      /\ Visit(i)
                                      /\ UNCHANGED passed
            ELSE HostNext({})
       ELSE IF cursor \in passed
            THEN HostNext(passed)
            ELSE phase' = "error" /\ UNCHANGED <<cursor, passed, seen, twice>>
    /\ UNCHANGED <<tvars, kept>>

Again ==
    /\ phase = "done"
    /\ phase' = "idle" /\ cursor' = 0
    /\ passed' = {} /\ seen' = {} /\ twice' = FALSE /\ kept' = {}
    /\ UNCHANGED tvars

Keep == /\ kept' = {k \in kept : RawGet(k)' # Nil}
        /\ UNCHANGED <<phase, cursor, passed, seen, twice>>

Build  == phase = "idle" /\ Next /\ UNCHANGED pvars
Assign == /\ phase = "run"
          /\ \E k \in Present, v \in Slot : RawSet(k, v)
          /\ Keep
Collect == /\ phase = "run"
           /\ \E gk \in SUBSET Names, gv \in SUBSET Values : ClearWeak(gk, gv)
           /\ Keep

TraversalNext == Build \/ Pairs \/ TNext \/ Assign \/ Collect \/ Again
TraversalSpec == TraversalInit /\ [][TraversalNext]_allvars /\ WF_allvars(TNext)

-----------------------------------------------------------------------------
(* While the body only assigns to fields that exist, no key is visited     *)
(* twice, in whichever part it lives and whatever a collection clears.     *)
VisitOnce == ~mixed => ~twice

(* When the loop ends it has seen every field that was there all along.    *)
VisitAll == ~mixed /\ phase = "done" => kept \subseteq seen

(* Together (tnext): the loop visits each field that lasts exactly once.   *)
VisitsEachOnce == TraversalTypeOK /\ VisitOnce /\ VisitAll

(* The loop ends, and next never rejects a key it returned itself.         *)
TraversalEnds == (phase = "run") ~> (phase = "done" \/ mixed)
=============================================================================
