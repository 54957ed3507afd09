-------------------------- MODULE MCCloseVariables --------------------------
(***************************************************************************)
(* CloseVariables for TLC: variables are interchangeable, and so are the   *)
(* errors.                                                                 *)
(***************************************************************************)
EXTENDS CloseVariables

Symmetry == Permutations(Vars) \cup Permutations(Errs)
=============================================================================
