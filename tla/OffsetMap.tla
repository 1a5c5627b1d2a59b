----------------------------- MODULE OffsetMap ------------------------------
(***************************************************************************)
(* What the offset table promises its users: a map from the offsets of the *)
(* boxes met so far to the value each is read into and to whether it was   *)
(* read completely, updated atomically.                                    *)
(***************************************************************************)
CONSTANTS Offsets, Values

VARIABLE map

Init == map = [o \in {} |-> {}]

(* A box is met: a new offset is not complete, an old one stays what it was. *)
Register(o, v) ==
  map' = [x \in DOMAIN map \cup {o} |->
            IF x # o THEN map[x]
            ELSE [value |-> v, complete |-> o \in DOMAIN map /\ map[o].complete]]

(* A box that was met has been read.                                        *)
Complete(o) ==
  /\ o \in DOMAIN map
  /\ map' = [map EXCEPT ![o].complete = TRUE]

Next == \E o \in Offsets : Complete(o) \/ \E v \in Values : Register(o, v)

Spec == Init /\ [][Next]_map
=============================================================================
