------------------------------ MODULE MCPlugins ------------------------------
(* Two plugins with a guid, one of them with two tags, and one without; a
   custom type and an object type; two results and two texts with deleter.   *)
EXTENDS Plugins, TLC

CONSTANTS r1, r2, t1, t2, g1, g2

MCDescriptors == {[guid |-> g1, tags |-> <<200, 201>>], [guid |-> g2, tags |-> <<202>>],
                  [guid |-> None, tags |-> <<203>>]}
MCSymmetry == Permutations({r1, r2}) \cup Permutations({t1, t2})
=============================================================================
