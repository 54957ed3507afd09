----------------------------- MODULE MCReducer -----------------------------
EXTENDS Reducer, Stages
MCPool == {[name |-> "recursion_gcd", p |-> [range |-> 50, k |-> 6]],
           [name |-> "err_call_ml", p |-> [m |-> 2]],
           [name |-> "shadow_scope", p |-> [depth |-> 3]],
           [name |-> "err_custom", p |-> [m |-> 3, lvl |-> 1]]}
MCBugs == {[name |-> n, mod |-> m, rem |-> 1, off |-> 1] :
             n \in {"recursion_gcd", "shadow_scope", "err_custom"}, m \in {2, 3}}
=============================================================================
