----------------------------- MODULE BoxWriter ------------------------------
(***************************************************************************)
(* The bytes of the box formats (src/source/tinybuf_write.c): values,      *)
(* version boxes and lists, parts and part tables, and the id boxes that   *)
(* carry values of custom types.  Integers have a variable length, and two *)
(* formats store offsets that depend on the length they are stored with.   *)
(* A value is an integer, plain or of a custom type; the trie of a pooled  *)
(* box (module TriePool) is reduced to the name it holds.                  *)
(***************************************************************************)
EXTENDS Wire, SequencesExt

CONSTANTS
  Ints,        (* integers stored in values                                 *)
  Names        (* names of custom types, as a byte of the table             *)

ASSUME BoxWriterAssumption ==
  /\ Ints \subseteq Nat \ {0}
  /\ Names \subseteq Nat \ {0}

(* A value and its bytes; name 0 is a plain integer.                        *)
Value == [name : Names \cup {0}, n : Ints]

PlainBytes(n) == <<serialize_positive_int>> \o Digits[n]

(* Mutant of HeaderLen: the length of the offset is left out of it.         *)
HeaderLenOne(body) == 1

(* The length of an offset that counts the tag, itself and the body: the
   loop of try_write_box and its like from offset_guess_len = 1.            *)
HeaderLen(body) ==
  LET Guess[g \in Nat] ==
        LET l == IntLen(1 + g + body) IN IF l = g THEN g ELSE Guess[l]
  IN  Guess[1]

(* tinybuf_try_write_plugin_id_box: header, name index 0, payload, table.   *)
IdBoxBytes(v) ==
  LET payload == PlainBytes(v.n)
      body == <<serialize_name_idx>> \o Digits[0] \o Digits[Len(payload)] \o payload
      off == 1 + HeaderLen(Len(body)) + Len(body)
  IN  <<serialize_str_pool_table>> \o Digits[off] \o body
        \o <<serialize_str_trie_pool, v.name>>

(* try_write_box without the pool: tinybuf_value_serialize.                 *)
ValueBytes(v) == IF v.name = 0 THEN PlainBytes(v.n) ELSE IdBoxBytes(v)

VersionBytes(ver, v) == <<serialize_version>> \o Digits[ver] \o ValueBytes(v)

VersionListBytes(vers, vs) ==
  <<serialize_version_list>> \o Digits[Len(vs)]
    \o FlattenSeq([i \in DOMAIN vs |-> Digits[vers[i]] \o ValueBytes(vs[i])])

PartBytes(v) ==
  <<serialize_part>> \o Digits[Len(ValueBytes(v))] \o ValueBytes(v)

(* Where pieces of the given lengths start when the first one starts at first,
   and where the last one ends.                                             *)
Starts(lens, first) ==
  LET Start[i \in 1 .. Len(lens) + 1] ==
        IF i = 1 THEN first ELSE Start[i - 1] + lens[i - 1]
  IN  Start

(* The offsets of parts of the given lengths when the first part is at first,
   and the end of a table that stores these offsets.                        *)
PartOffsets(lens, first) == [i \in DOMAIN lens |-> Starts(lens, first)[i]]

TableEnd(offs) ==
  Starts([i \in DOMAIN offs |-> IntLen(offs[i])], 1 + IntLen(Len(offs)))[Len(offs) + 1]

(* The loop of try_write_partitions, from a table with one byte for each
   offset; its end stands for the lengths vlen it is computed from.          *)
StableOffsets(lens) ==
  LET End[first \in Nat] ==
        LET next == TableEnd(PartOffsets(lens, first))
        IN  IF next = first THEN first ELSE End[next]
  IN  PartOffsets(lens, End[1 + IntLen(Len(lens)) + Len(lens)])

PartitionBytes(vs) ==
  LET parts == [i \in DOMAIN vs |-> PartBytes(vs[i])]
      offs == StableOffsets([i \in DOMAIN vs |-> Len(parts[i])])
  IN  <<serialize_part_table>> \o Digits[Len(vs)]
        \o FlattenSeq([i \in DOMAIN vs |-> Digits[offs[i]]]) \o FlattenSeq(parts)

(* A box: what was written with which values under which versions.          *)
BoxBytes(b) ==
  CASE b.kind = "plain" -> ValueBytes(b.items[1])
    [] b.kind = "version" -> VersionBytes(b.vers[1], b.items[1])
    [] b.kind = "list" -> VersionListBytes(b.vers, b.items)
    [] b.kind = "part" -> PartBytes(b.items[1])
    [] b.kind = "partitions" -> PartitionBytes(b.items)
=============================================================================
