-------------------------------- MODULE Dump --------------------------------
(***************************************************************************)
(* A buffer as text (src/source/tinybuf_dump.c).  A first pass collects    *)
(* where boxes start and what pointers point to, a second one prints the   *)
(* first box and marks each position a pointer named.  What is printed is  *)
(* reduced to those marks; both passes are functions of the bytes.         *)
(*                                                                         *)
(* Type names of id boxes and plugin tables, whose text needs a string     *)
(* pool, and sparse tensors, which nothing writes, are left out.           *)
(***************************************************************************)
EXTENDS Codec
LOCAL INSTANCE SequencesExt
LOCAL INSTANCE FiniteSetsExt

(* A pass at a position: the box starts and the labels registered so far, and
   the marks printed.                                                       *)
Pass == [pos |-> 0, starts |-> <<>>, labels |-> <<>>, marks |-> {}]

(* What a pass returns: the count of bytes n, and the pass behind them.     *)
Result(n, d) == [n |-> n, d |-> d]
Plus(n, r) == Result(n + r.n, r.d)

(* buf_offset: a position that is not on a byte of the buffer is refused.   *)
Moved(p, d, k) == [d EXCEPT !.pos = IF @ + k < Len(p) THEN @ + k ELSE @]

RestAt(p, d) == From(p, d.pos)
ByteAt(p, d) == IF d.pos < Len(p) THEN p[d.pos + 1] ELSE 0

(* Integers in a row, each read where the one before it left the position.  *)
NextInteger(p, r, k) ==
  IF k.len <= 0 THEN [r EXCEPT !.ok = FALSE, !.n = k.len]
  ELSE [ok |-> TRUE, n |-> r.n + k.len, d |-> Moved(p, r.d, k.len),
        vals |-> Append(r.vals, k.val)]

Integers(p, d, count) ==
  LET Rest[j \in 0 .. count] ==
        IF j = 0 THEN [ok |-> TRUE, n |-> 0, d |-> d, vals |-> <<>>]
        ELSE LET r == Rest[j - 1]
             IN  IF ~r.ok THEN r ELSE NextInteger(p, r, IntDeserialize(RestAt(p, r.d)))
  IN  Rest[count]

(* Mutant of Skipped: the bytes are counted and the position stays.          *)
SkippedStill(p, d, n, need) ==
  IF Len(RestAt(p, d)) < need THEN Result(0, d) ELSE Result(n + need, d)

(* The bytes of a tensor's elements, or of what has a known length.         *)
Skipped(p, d, n, need) ==
  IF Len(RestAt(p, d)) < need THEN Result(0, d) ELSE Result(n + need, Moved(p, d, need))

NextElement(p, n, typed, k) ==
  IF k.len <= 0 THEN [ok |-> FALSE, n |-> k.len, d |-> typed]
  ELSE [ok |-> TRUE, n |-> n + 1 + k.len, d |-> Moved(p, typed, k.len)]

Elements(p, d, n, count) ==
  LET Rest[j \in 0 .. count] ==
        IF j = 0 THEN [ok |-> TRUE, n |-> n, d |-> d]
        ELSE LET r == Rest[j - 1]
                 typed == Moved(p, r.d, 1)
             IN  IF ~r.ok THEN r
                 ELSE NextElement(p, r.n, typed, IntDeserialize(RestAt(p, typed)))
  IN  Plus(0, Rest[count])

TensorElements(p, d, n, dtype, count) ==
  CASE dtype = DTypeDouble -> Skipped(p, d, n, DoubleLen * count)
    [] dtype = DTypeFloat -> Skipped(p, d, n, FloatLen * count)
    [] dtype = DTypeBool -> Skipped(p, d, n, CeilDiv(count, 8))
    [] OTHER -> Elements(p, d, n, count)

(* A vector behind its count and dtype, a dense tensor behind its dimensions
   and dtype.                                                               *)
VectorElements(p, head) ==
  IF ~head.ok THEN Result(head.n, head.d)
  ELSE TensorElements(p, head.d, 1 + head.n, head.vals[2], head.vals[1])

DenseElements(p, dims, head) ==
  IF ~head.ok THEN Result(head.n, head.d)
  ELSE TensorElements(p, head.d, 1 + dims.n + head.n, head.vals[dims.vals[1] + 1],
         FoldLeft(LAMBDA x, y : x * y, 1, SubSeq(head.vals, 1, dims.vals[1])))

(* dump_string_text and collect_string: a string that has not arrived counts
   for its length alone.                                                    *)
TextBehind(p, d, k) ==
  LET behind == Moved(p, d, k.len)
  IN  IF k.len <= 0 THEN Result(k.len, d)
      ELSE IF k.val <= Len(RestAt(p, behind)) THEN Result(k.len + k.val, Moved(p, behind, k.val))
      ELSE Result(k.len, behind)

StringText(p, d) == TextBehind(p, d, IntDeserialize(RestAt(p, d)))

-----------------------------------------------------------------------------
(* Pointers.                                                               *)

FromStart == {serialize_pointer_from_start_n, serialize_pointer_from_start_p}
FromEnd == {serialize_pointer_from_end_n, serialize_pointer_from_end_p}
FromCurrent == {serialize_pointer_from_current_n, serialize_pointer_from_current_p}
Pointers == FromStart \cup FromEnd \cup FromCurrent
Negative == {serialize_pointer_from_current_n, serialize_pointer_from_start_n,
             serialize_pointer_from_end_n}

(* The position a pointer names, from where its reader stands behind it.    *)
Target(p, type, mag, anchor) ==
  LET off == IF type \in Negative THEN 0 - mag ELSE mag
  IN  CASE type \in FromStart -> off
        [] type \in FromEnd -> Len(p) - off
        [] type \in FromCurrent -> anchor + off

(* Mutant of nearest_box_start: the first start, not the last, before pos.  *)
FirstBoxStart(starts, pos) ==
  LET Before == {s \in ToSet(starts) : s <= pos}
  IN  IF Before = {} THEN pos ELSE Min(Before)

nearest_box_start(starts, pos) ==
  LET Before == {s \in ToSet(starts) : s <= pos}
  IN  IF Before = {} THEN pos ELSE Max(Before)

(* A pointer: the nearest box start before its target is labelled, when the
   target is in the buffer.                                                 *)
Labelled(p, d, target) ==
  IF target \in 0 .. Len(p)
  THEN [d EXCEPT !.labels = Append(@, nearest_box_start(d.starts, target))]
  ELSE d

PointerAt(p, d, type, k) ==
  LET behind == Moved(p, d, k.len)
  IN  IF k.len <= 0 THEN Result(k.len, d)
      ELSE Result(1 + k.len, Labelled(p, behind, Target(p, type, k.val, behind.pos)))

-----------------------------------------------------------------------------
(* What comes before each value of a container.                             *)
Prefix(p, d, kind) ==
  CASE kind = "map" -> StringText(p, d)
    [] kind = "versions" -> Plus(0, Integers(p, d, 1))
    [] OTHER -> Result(0, d)

(* collect_box_labels.  What it has no case for counts as a byte.           *)

RECURSIVE CollectBox(_, _), CollectBody(_, _, _, _), CollectItems(_, _, _, _),
          CollectItem(_, _, _, _, _)

CollectItems(p, r, left, kind) ==
  IF left = 0 THEN r ELSE CollectItem(p, r, left, kind, Prefix(p, r.d, kind))

CollectItem(p, r, left, kind, key) ==
  IF kind = "versions" /\ key.n <= 0 THEN key
  ELSE CollectItems(p, Plus(r.n + key.n, CollectBox(p, key.d)), left - 1, kind)

CollectBox(p, from) ==
  LET d == [from EXCEPT !.starts = Append(@, from.pos)]
      b == Moved(p, d, 1)
  IN  IF d.pos >= Len(p) THEN Result(0, d)
      ELSE IF b.pos = d.pos THEN Result(0 - 1, d)
      ELSE CollectBody(p, b, ByteAt(p, d), Integers(p, b, 1))

(* Behind the type; k is the integer that follows it, if one does.          *)
CollectBody(p, b, type, k) ==
  LET Items(kind) == CollectItems(p, Result(1 + k.n, k.d), k.vals[1], kind)
  IN  CASE type \in {serialize_positive_int, serialize_negtive_int} ->
             IF k.ok THEN Result(1 + k.n, k.d) ELSE Result(k.n, b)
        [] type = serialize_double -> Skipped(p, b, 1, DoubleLen)
        [] type = serialize_string -> Plus(1, StringText(p, b))
        [] type = serialize_map ->
             IF k.ok THEN Items("map") ELSE Result(1 + k.n, b)
        [] type = serialize_array ->
             IF k.ok THEN Items("array") ELSE Result(1 + k.n, b)
        [] type \in Pointers -> PointerAt(p, b, type, IntDeserialize(RestAt(p, b)))
        [] type = serialize_version ->
             IF ~k.ok THEN Result(k.n, b) ELSE Plus(1 + k.n, CollectBox(p, k.d))
        [] type = serialize_version_list ->
             IF k.ok THEN Items("versions") ELSE Result(k.n, b)
        [] OTHER -> Result(1, b)

(* dump_box_text: the labels at the position are printed first.             *)
RECURSIVE DumpBox(_, _), DumpBody(_, _, _, _), DumpItems(_, _, _, _),
          DumpItem(_, _, _, _, _)

DumpItems(p, r, left, kind) ==
  IF left = 0 THEN r ELSE DumpItem(p, r, left, kind, Prefix(p, r.d, kind))

DumpItem(p, r, left, kind, key) ==
  IF kind = "versions" /\ key.n <= 0 THEN key
  ELSE DumpItems(p, Plus(r.n + key.n, DumpBox(p, key.d)), left - 1, kind)

DumpBox(p, from) ==
  LET d == [from EXCEPT !.marks = @ \cup (ToSet(from.labels) \cap {from.pos})]
      b == Moved(p, d, 1)
  IN  IF d.pos >= Len(p) THEN Result(0, d)
      ELSE IF b.pos = d.pos THEN Result(0 - 1, d)
      ELSE DumpBody(p, b, ByteAt(p, d), Integers(p, b, 1))

DumpBody(p, b, type, k) ==
  LET Items(kind) == DumpItems(p, Result(1 + k.n, k.d), k.vals[1], kind)
  IN  CASE type \in {serialize_positive_int, serialize_negtive_int} ->
             IF k.ok THEN Result(1 + k.n, k.d) ELSE Result(k.n, b)
        [] type = serialize_double -> Skipped(p, b, 1, DoubleLen)
        [] type = serialize_string -> Plus(1, StringText(p, b))
        [] type = serialize_map ->
             IF k.ok THEN Items("map") ELSE Result(1 + k.n, b)
        [] type = serialize_array ->
             IF k.ok THEN Items("array") ELSE Result(1 + k.n, b)
        [] type = serialize_vector_tensor -> VectorElements(p, Integers(p, b, 2))
        [] type = serialize_dense_tensor ->
             IF ~k.ok THEN Result(k.n, b)
             ELSE DenseElements(p, k, Integers(p, k.d, k.vals[1] + 1))
        [] type = serialize_bool_map ->
             IF ~k.ok THEN Result(k.n, b)
             ELSE Skipped(p, k.d, 1 + k.n, CeilDiv(k.vals[1], 8))
        [] type \in Pointers -> PointerAt(p, b, type, IntDeserialize(RestAt(p, b)))
        [] type = serialize_version ->
             IF ~k.ok THEN Result(k.n, b) ELSE Plus(1 + k.n, DumpBox(p, k.d))
        [] type = serialize_version_list ->
             IF k.ok THEN Items("versions") ELSE Result(k.n, b)
        [] OTHER -> Result(1, b)

(* tinybuf_dump_buffer_as_text: the second pass starts with the labels and
   the box starts of the first.                                             *)
DumpBuffer(p) ==
  LET collected == CollectBox(p, Pass).d
  IN  DumpBox(p, [collected EXCEPT !.pos = 0])
=============================================================================
