---------------------------- MODULE MCValueTree -----------------------------
(* ValueTree with four values: a map that owns a map, a version in it and what
   else refers to them.                                                     *)
EXTENDS ValueTree, TLC

Symmetry == Permutations(Values) \cup Permutations(Blocks)
=============================================================================
