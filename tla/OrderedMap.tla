---------------------------- MODULE OrderedMap ------------------------------
(***************************************************************************)
(* What a tree of avl-tree.h promises: a map from keys to values that is   *)
(* changed one entry at a time.                                            *)
(***************************************************************************)
CONSTANTS
  Keys,        (* the keys                                                  *)
  Entries      (* what callers insert: pairs of a key and a value           *)

VARIABLE map

(* An entry is added, or takes the place of the one with its key.           *)
Insert(old, new, e) ==
  new = [k \in DOMAIN old \cup {e[1]} |-> IF k = e[1] THEN e[2] ELSE old[k]]

Remove(old, new, k) == /\ k \in DOMAIN old
                       /\ new = [l \in DOMAIN old \ {k} |-> old[l]]

Change(old, new) ==
  \/ \E e \in Entries : Insert(old, new, e)
  \/ \E k \in Keys : Remove(old, new, k)
  \/ new = <<>>

Init == map = <<>>
(* Old and new map are bound so that TLC computes each of them once.         *)
Next == \E old \in {map}, new \in {map'} : Change(old, new)
Spec == Init /\ [][Next]_map
=============================================================================
