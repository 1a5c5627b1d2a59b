----------------------------- MODULE MCAvlTree ------------------------------
(* AvlTree with twelve keys, as many as a sparse tree of height five needs:
   removing a node of it takes rotations at two levels.  Small trees use the
   first keys only.  One key has two values.                                *)
EXTENDS AvlTree

CONSTANTS Few, Many

MCKeys == 1 .. 12
MCEntries == {<<k, 1>> : k \in MCKeys} \cup {<<9, 2>>}

SmallOrLarge == Cardinality(DOMAIN entry) >= Many \/ DOMAIN entry \subseteq 1 .. Few
=============================================================================
