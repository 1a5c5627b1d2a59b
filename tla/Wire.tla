-------------------------------- MODULE Wire --------------------------------
(***************************************************************************)
(* What every format is built from: the type bytes (tinybuf_private.h) and *)
(* integers of variable length (src/source/tinybuf_serialize.c,            *)
(* tinybuf_deserialize.c).                                                 *)
(***************************************************************************)
EXTENDS Integers, Sequences

CONSTANTS
  Radix,       (* values of a digit of an integer (128)                     *)
  MaxGroups    (* digits the reader accepts (9)                             *)

ASSUME WireAssumption ==
  /\ Radix \in Nat \ {0, 1}
  /\ MaxGroups \in Nat \ {0}

(* serialize_type, as far as the modules use it.                            *)
serialize_null == 0
serialize_positive_int == 1
serialize_negtive_int == 2
serialize_bool_true == 3
serialize_bool_false == 4
serialize_double == 5
serialize_string == 6
serialize_map == 7
serialize_array == 8
serialize_pointer_from_current_n == 9
serialize_pointer_from_start_n == 10
serialize_pointer_from_end_n == 11
serialize_pointer_from_current_p == 12
serialize_pointer_from_start_p == 13
serialize_pointer_from_end_p == 14
serialize_version == 16
serialize_version_list == 20
serialize_part == 21
serialize_part_table == 22
serialize_str_pool_table == 25
serialize_str_trie_pool == 27
serialize_vector_tensor == 43
serialize_dense_tensor == 44
serialize_sparse_tensor == 45
serialize_bool_map == 46
serialize_name_idx == 48

(* int_serialize: digits from the lowest, all but the last one marked.      *)
Digits[n \in Nat] ==
  IF n < Radix THEN <<n>> ELSE <<(n % Radix) + Radix>> \o Digits[n \div Radix]

IntLen(n) == Len(Digits[n])

(* What the first digits of p amount to; Part[k] is the share of the last k.  *)
Amount(p, digits) ==
  LET Part[k \in 0 .. digits] ==
        IF k = 0 THEN 0 ELSE (p[digits - k + 1] % Radix) + Radix * Part[k - 1]
  IN  Part[digits]

(* int_deserialize: the length of the integer p starts with, 0 when p ends
   before it does, -1 when it has too many digits; the value is what the
   digits read so far amount to.                                            *)
IntDeserialize(p) ==
  LET Ends == {g \in DOMAIN p : g <= MaxGroups /\ p[g] < Radix}
      read == IF Ends # {} THEN CHOOSE g \in Ends : \A h \in Ends : g <= h
              ELSE IF Len(p) > MaxGroups THEN MaxGroups ELSE Len(p)
  IN  [len |-> IF Ends # {} THEN read ELSE IF Len(p) > MaxGroups THEN 0 - 1 ELSE 0,
       val |-> Amount(p, read)]
=============================================================================
