--------------------------- MODULE CoroutineChain ---------------------------
(***************************************************************************)
(* What the coroutine library promises: the threads that have resumed one  *)
(* another form a chain from the main thread to the running one; control   *)
(* only ever moves to the next or back to the previous link; and a dead    *)
(* coroutine stays dead.                                                   *)
(***************************************************************************)
EXTENDS Naturals, Sequences

CONSTANTS Main, Coros

VARIABLES chain,  \* from Main to the running thread
          left    \* the coroutines that may still run: "new", "suspended" or "dead"
                  \* when they are not in the chain

InChain(c) == \E i \in 1..Len(chain) : chain[i] = c

Init == /\ chain = <<Main>>
        /\ left = [c \in Coros |-> "new"]

Resume(c) == /\ ~InChain(c) /\ left[c] \in {"new", "suspended"}
             /\ chain' = Append(chain, c)
             /\ left' = [left EXCEPT ![c] = "suspended"]

(* The running coroutine yields, returns, fails or closes itself.          *)
GiveBack(s) == /\ Len(chain) > 1
               /\ chain' = SubSeq(chain, 1, Len(chain) - 1)
               /\ left' = [left EXCEPT ![chain[Len(chain)]] = s]

Close(c) == /\ ~InChain(c)
            /\ left' = [left EXCEPT ![c] = "dead"]
            /\ UNCHANGED chain

Next == \/ \E c \in Coros : Resume(c) \/ Close(c)
        \/ \E s \in {"suspended", "dead"} : GiveBack(s)

Spec == Init /\ [][Next]_<<chain, left>>
=============================================================================
