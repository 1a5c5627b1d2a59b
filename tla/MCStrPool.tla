----------------------------- MODULE MCStrPool ------------------------------
(* StrPool with three strings and writers nested three deep.                *)
EXTENDS StrPool, TLC

CONSTANTS s1, s2, s3

MCStrings == {s1, s2, s3}
Symmetry == Permutations(MCStrings)
=============================================================================
