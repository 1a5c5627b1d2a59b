------------------------------ MODULE MCBuffer ------------------------------
(* Buffer with two objects; the defects its properties can tell apart.      *)
EXTENDS Buffer
=============================================================================
