------------------------------ MODULE LuaTable ------------------------------
(***************************************************************************)
(* What a Lua table promises a program: one partial map from keys to       *)
(* values.  Nothing here knows about an array part, a hash part or a       *)
(* length hint; GuestTable is shown to implement it.                       *)
(***************************************************************************)
EXTENDS Integers

CONSTANTS MaxKey,  \* integer keys are 1..MaxKey
          Names,   \* every other key (strings, booleans, objects ...)
          Values,  \* the non-nil values
          Nil

VARIABLES dict,    \* dict[k] is the value of key k, Nil when there is none
          fresh,   \* its constructor has not finished
          items    \* the list items the constructor has stored

Key == (1..MaxKey) \cup Names

Init == /\ dict = [k \in Key |-> Nil]
        /\ fresh \in BOOLEAN /\ items = 0

Store(k, v) == /\ dict' = [dict EXCEPT ![k] = v]
               /\ UNCHANGED <<fresh, items>>

(* A constructor stores its list items at consecutive indices.             *)
StoreList(count, vals) ==
    /\ fresh
    /\ dict' = [k \in Key |-> IF k \in (items + 1)..(items + count)
                              THEN vals[k - items] ELSE dict[k]]
    /\ items' = items + count
    /\ UNCHANGED fresh

Publish == fresh /\ fresh' = FALSE /\ UNCHANGED <<dict, items>>

(* A collection may drop any entries of a weak table, never add or change. *)
Forget(S) == /\ ~fresh
             /\ dict' = [k \in Key |-> IF k \in S THEN Nil ELSE dict[k]]
             /\ UNCHANGED <<fresh, items>>

Next == \/ \E k \in Key, v \in Values \cup {Nil} : Store(k, v)
        \/ \E count \in 0..(MaxKey - items) :
             \E vals \in [1..count -> Values \cup {Nil}] : StoreList(count, vals)
        \/ Publish
        \/ \E S \in SUBSET Key : Forget(S)

Spec == Init /\ [][Next]_<<dict, fresh, items>>
=============================================================================
