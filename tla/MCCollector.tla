---------------------------- MODULE MCCollector -----------------------------
(***************************************************************************)
(* Collector for TLC: the tables are interchangeable.                      *)
(***************************************************************************)
EXTENDS Collector, TLC

Symmetry == Permutations(Plain)
=============================================================================
