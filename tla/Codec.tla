------------------------------- MODULE Codec --------------------------------
(***************************************************************************)
(* Values and their bytes: tinybuf_value_serialize                         *)
(* (src/source/tinybuf_serialize.c) and tinybuf_value_deserialize          *)
(* (src/source/tinybuf_deserialize.c), with the string pool and the custom *)
(* types left out (modules StrPool, TriePool, BoxWriter, BoxReader).       *)
(*                                                                         *)
(* A value is a record whose field t is its type; a map is a function from *)
(* keys; a key or a string is a sequence of bytes; a double counts halves. *)
(* An integer of magnitude 2^63 has a digit more than the reader accepts.  *)
(***************************************************************************)
EXTENDS Wire, FiniteSets
LOCAL INSTANCE SequencesExt

CONSTANTS
  DoubleLen,   (* bytes of a double (8)                                     *)
  FloatLen     (* bytes of a float (4)                                      *)

ASSUME CodecAssumption == DoubleLen \in Nat \ {0, 1} /\ FloatLen \in Nat \ {0, 1}

(* The dtypes that have a format of their own; the others hold integers.    *)
DTypeDouble == 8
DTypeFloat == 10
DTypeBool == 11

Null == [t |-> "null"]
IntValue(n) == [t |-> "int", n |-> n]
BoolValue(b) == [t |-> "bool", b |-> b]
DoubleValue(h) == [t |-> "double", h |-> h]
StringValue(s) == [t |-> "string", s |-> s]
MapValue(m) == [t |-> "map", m |-> m]
ArrayValue(a) == [t |-> "array", a |-> a]
TensorValue(dtype, shape, data) ==
  [t |-> "tensor", dtype |-> dtype, shape |-> shape, data |-> data]
BoolMapValue(count, bits) == [t |-> "bool_map", count |-> count, bits |-> bits]

NoKeys == [k \in {} |-> Null]

-----------------------------------------------------------------------------
(* Writing.  The result is a sequence of units, each a sequence of bytes: an
   integer with its type is one unit, any other byte is a unit of its own.  *)

Split(bytes) == [j \in DOMAIN bytes |-> <<bytes[j]>>]
Bytes(units) == FlattenSeq(units)

Abs(n) == IF n < 0 THEN 0 - n ELSE n
CeilDiv(a, b) == (a + b - 1) \div b

(* The type byte of an integer value: zero goes with the negative ones.     *)
IntType(n) == IF n > 0 THEN serialize_positive_int ELSE serialize_negtive_int

(* The type byte of an integer in a tensor.                                 *)
ElementType(n) == IF n < 0 THEN serialize_negtive_int ELSE serialize_positive_int

(* Mutant of RealBytes: the sign is written as it is, and -1 is no byte.     *)
RealSigned(h, width) ==
  [j \in 1 .. width |-> IF j = 1 THEN (IF h < 0 THEN 0 - 1 ELSE 0)
                        ELSE IF j = width THEN Abs(h) ELSE 0]

(* dump_double, and the float of a tensor: a sign, then the magnitude.      *)
RealBytes(h, width) ==
  [j \in 1 .. width |-> IF j = 1 THEN (IF h < 0 THEN 1 ELSE 0)
                        ELSE IF j = width THEN Abs(h) ELSE 0]

(* Bits are packed from the highest of each byte; the value holds one byte
   for each element.                                                        *)
PackBits(data) ==
  [j \in 1 .. CeilDiv(Len(data), 8) |->
     FoldLeftDomain(LAMBDA byte, k : 2 * byte + (IF 8 * (j - 1) + k <= Len(data)
                                      THEN (IF data[8 * (j - 1) + k] = 0 THEN 0 ELSE 1) ELSE 0),
              0, <<1, 2, 3, 4, 5, 6, 7, 8>>)]

TensorData(dtype, data) ==
  CASE dtype = DTypeDouble -> FlattenSeq([j \in DOMAIN data |-> RealBytes(data[j], DoubleLen)])
    [] dtype = DTypeFloat -> FlattenSeq([j \in DOMAIN data |-> RealBytes(data[j], FloatLen)])
    [] dtype = DTypeBool -> PackBits(data)
    [] OTHER -> FlattenSeq([j \in DOMAIN data |->
                              <<ElementType(data[j])>> \o Digits[Abs(data[j])]])

(* A tensor of one dimension is a vector, any other is dense.               *)
TensorBytes(v) ==
  IF Len(v.shape) = 1
  THEN <<serialize_vector_tensor>> \o Digits[v.shape[1]] \o Digits[v.dtype]
         \o TensorData(v.dtype, v.data)
  ELSE <<serialize_dense_tensor>> \o Digits[Len(v.shape)]
         \o FlattenSeq([j \in DOMAIN v.shape |-> Digits[v.shape[j]]])
         \o Digits[v.dtype] \o TensorData(v.dtype, v.data)

(* mapKeyCompare: by bytes, and a prefix comes first.                       *)
KeyLess(a, b) ==
  \/ IsStrictPrefix(a, b)
  \/ \E j \in DOMAIN a \cap DOMAIN b :
       a[j] < b[j] /\ SubSeq(a, 1, j - 1) = SubSeq(b, 1, j - 1)
SortedKeys(m) == SetToSortSeq(DOMAIN m, KeyLess)

(* make_pointer_type and try_write_pointer_value.                           *)
PointerType(from, neg) ==
  CASE from = "current" -> IF neg THEN serialize_pointer_from_current_n
                                  ELSE serialize_pointer_from_current_p
    [] from = "start" -> IF neg THEN serialize_pointer_from_start_n
                                ELSE serialize_pointer_from_start_p
    [] from = "end" -> IF neg THEN serialize_pointer_from_end_n
                              ELSE serialize_pointer_from_end_p
PointerBytes(from, offset) ==
  <<PointerType(from, offset < 0)>> \o Digits[Abs(offset)]

(* tinybuf_value_serialize, when the values in DOMAIN at are redirected to
   the positions at gives (module Stream).                                  *)
RECURSIVE Write(_, _)
Write(v, at) ==
  IF v \in DOMAIN at THEN Split(PointerBytes("start", at[v]))
  ELSE CASE v.t = "null" -> Split(<<serialize_null>>)
         [] v.t = "int" -> << <<IntType(v.n)>> \o Digits[Abs(v.n)] >>
         [] v.t = "bool" -> Split(<<IF v.b THEN serialize_bool_true ELSE serialize_bool_false>>)
         [] v.t = "double" -> Split(<<serialize_double>> \o RealBytes(v.h, DoubleLen))
         [] v.t = "string" -> Split(<<serialize_string>> \o Digits[Len(v.s)] \o v.s)
         [] v.t = "map" ->
              LET keys == SortedKeys(v.m)
              IN  Split(<<serialize_map>> \o Digits[Len(keys)])
                    \o FlattenSeq([j \in DOMAIN keys |->
                         Split(Digits[Len(keys[j])] \o keys[j]) \o Write(v.m[keys[j]], at)])
         [] v.t = "array" ->
              Split(<<serialize_array>> \o Digits[Len(v.a)])
                \o FlattenSeq([j \in DOMAIN v.a |-> Write(v.a[j], at)])
         [] v.t = "tensor" -> Split(TensorBytes(v))
         [] v.t = "bool_map" ->
              Split(<<serialize_bool_map>> \o Digits[v.count] \o v.bits)

-----------------------------------------------------------------------------
(* Reading.  A result is the value returned, n, and what the value object
   passed in holds afterwards, v.                                           *)

From(p, n) == SubSeq(p, n + 1, Len(p))

(* Mutant of RealOf: the sign is passed over.                               *)
RealUnsigned(p) == p[Len(p)]

RealOf(p) == IF p[1] = 1 THEN 0 - p[Len(p)] ELSE p[Len(p)]

(* The elements of a tensor: len is what they take, or why there are none.  *)
ReadElements(p, count) ==
  LET Element(q) ==
        IF q = <<>> THEN [len |-> 0, val |-> 0]
        ELSE LET k == IntDeserialize(Tail(q))
             IN  [len |-> k.len,
                  val |-> IF q[1] = serialize_negtive_int THEN 0 - k.val ELSE k.val]
      Rest[j \in 0 .. count] ==
        IF j = 0 THEN [len |-> 0, data |-> <<>>, ok |-> TRUE]
        ELSE LET r == Rest[j - 1]
                 e == Element(From(p, r.len))
             IN  IF ~r.ok THEN r
                 ELSE IF e.len <= 0 THEN [len |-> e.len, data |-> <<>>, ok |-> FALSE]
                 ELSE [len |-> r.len + 1 + e.len, data |-> Append(r.data, e.val), ok |-> TRUE]
  IN  Rest[count]

TensorContent(p, dtype, count) ==
  LET Fixed(width, data) ==
        IF Len(p) < width THEN [len |-> 0, data |-> <<>>, ok |-> FALSE]
        ELSE [len |-> width, data |-> data, ok |-> TRUE]
      Reals(width) == [j \in 1 .. count |-> RealOf(SubSeq(p, width * (j - 1) + 1, width * j))]
  IN  CASE dtype = DTypeDouble -> Fixed(DoubleLen * count, Reals(DoubleLen))
        [] dtype = DTypeFloat -> Fixed(FloatLen * count, Reals(FloatLen))
        [] dtype = DTypeBool -> Fixed(CeilDiv(count, 8), SubSeq(p, 1, CeilDiv(count, 8)))
        [] OTHER -> ReadElements(p, count)

(* tinybuf_deserialize_vector_tensor, p behind the type: a vector of integers
   is reported as one byte long, however long it is.                        *)
VectorTensor(p) ==
  LET count == IntDeserialize(p)
      q == From(p, count.len)
      dtype == IntDeserialize(q)
      data == TensorContent(From(q, dtype.len), dtype.val, count.val)
  IN  IF count.len <= 0 THEN [n |-> count.len, v |-> Null]
      ELSE IF dtype.len <= 0 THEN [n |-> dtype.len, v |-> Null]
      ELSE IF ~data.ok THEN [n |-> data.len, v |-> Null]
      ELSE [n |-> IF dtype.val \in {DTypeDouble, DTypeFloat, DTypeBool}
                  THEN 1 + count.len + dtype.len + data.len ELSE 1,
            v |-> TensorValue(dtype.val, <<count.val>>, data.data)]

(* The integers a dense tensor starts with: len and values, or the failure.  *)
ReadInts(p, count) ==
  LET Rest[j \in 0 .. count] ==
        IF j = 0 THEN [len |-> 0, vals |-> <<>>, ok |-> TRUE]
        ELSE LET r == Rest[j - 1]
                 k == IntDeserialize(From(p, r.len))
             IN  IF ~r.ok THEN r
                 ELSE IF k.len <= 0 THEN [len |-> k.len, vals |-> <<>>, ok |-> FALSE]
                 ELSE [len |-> r.len + k.len, vals |-> Append(r.vals, k.val), ok |-> TRUE]
  IN  Rest[count]

(* A dense tensor from its dtype on, n bytes behind its start.              *)
DenseContent(q, n, shape, dtype) ==
  LET rest == From(q, dtype.len)
      count == FoldLeft(LAMBDA x, y : x * y, 1, shape)
      fixed == dtype.val \in {DTypeDouble, DTypeFloat, DTypeBool}
      data == IF ~fixed /\ Len(rest) < count THEN [len |-> 0, data |-> <<>>, ok |-> FALSE]
              ELSE TensorContent(rest, dtype.val, count)
  IN  IF dtype.len <= 0 THEN [n |-> dtype.len, v |-> Null]
      ELSE IF ~data.ok THEN [n |-> data.len, v |-> Null]
      ELSE [n |-> n + dtype.len + data.len, v |-> TensorValue(dtype.val, shape, data.data)]

(* tinybuf_deserialize_dense_tensor.                                        *)
DenseTensor(p) ==
  LET dims == IntDeserialize(p)
      shape == ReadInts(From(p, dims.len), dims.val)
      q == From(p, dims.len + shape.len)
  IN  IF dims.len <= 0 THEN [n |-> dims.len, v |-> Null]
      ELSE IF ~shape.ok THEN [n |-> shape.len, v |-> Null]
      ELSE DenseContent(q, 1 + dims.len + shape.len, shape.vals, IntDeserialize(q))

(* What buffer_assign copies for a key or a string: a length of zero makes it
   take the bytes up to the next NUL, the buffer's own at the latest.       *)
TextAt(p, len) ==
  IF len > 0 THEN SubSeq(p, 1, len)
  ELSE LET Nuls == {j \in 1 .. Len(p) : p[j] = 0}
       IN  SubSeq(p, 1, IF Nuls = {} THEN Len(p)
                        ELSE (CHOOSE j \in Nuls : \A k \in Nuls : j <= k) - 1)

(* tinybuf_value_map_set2: the key's value is replaced or added.            *)
MapSet(m, key, v) == [k \in DOMAIN m \cup {key} |-> IF k = key THEN v ELSE m[k]]

(* A container that cannot be completed is cleared.                         *)
Failed(n, held) == [n |-> n, v |-> Null]

(* Mutant of ShortString: a string that just fits is waited for.            *)
ShortStringFits(have, need) == have <= need

(* The string has not arrived.                                              *)
ShortString(have, need) == have < need

RECURSIVE Read(_), ReadTyped(_, _, _, _), ReadArray(_, _, _, _), ReadElement(_, _, _, _, _),
          ReadMap(_, _, _, _), ReadEntry(_, _, _, _, _, _), ReadMember(_, _, _, _, _, _)

(* The elements of an array behind the ones in a, n of the bytes being consumed. *)
ReadArray(p, size, n, a) ==
  IF Len(a) >= size THEN [n |-> n, v |-> ArrayValue(a)]
  ELSE ReadElement(p, size, n, a, Read(From(p, n)))

ReadElement(p, size, n, a, e) ==
  IF e.n <= 0 THEN Failed(e.n, ArrayValue(a))
  ELSE ReadArray(p, size, n + e.n, Append(a, e.v))

(* The entries of a map, left of them missing: a key of length k.val, then
   its value.                                                               *)
ReadMap(p, left, n, m) ==
  IF left = 0 THEN [n |-> n, v |-> MapValue(m)]
  ELSE ReadEntry(p, left, n, m, IntDeserialize(From(p, n)), From(p, n))

ReadEntry(p, left, n, m, k, rest) ==
  LET q == From(rest, k.len)
  IN  IF k.len <= 0 THEN Failed(k.len, MapValue(m))
      ELSE IF ShortString(Len(q), k.val) THEN Failed(0, MapValue(m))
      ELSE ReadMember(p, left, n + k.len + k.val, m, TextAt(q, k.val), Read(From(q, k.val)))

ReadMember(p, left, n, m, key, e) ==
  IF e.n <= 0 THEN Failed(e.n, MapValue(m))
  ELSE ReadMap(p, left - 1, n + e.n, MapSet(m, key, e.v))

(* tinybuf_value_deserialize.  An integer that ends early is a success of one
   byte: optional_add adds the type to a length of zero.                    *)
Read(p) ==
  IF p = <<>> THEN [n |-> 0, v |-> Null]
  ELSE ReadTyped(p, p[1], Tail(p), IntDeserialize(Tail(p)))

(* Behind the type; k is the integer that q starts with, if one does.       *)
ReadTyped(p, type, q, k) ==
  CASE type = serialize_null -> [n |-> 1, v |-> Null]
    [] type \in {serialize_positive_int, serialize_negtive_int} ->
         IF k.len < 0 THEN [n |-> k.len, v |-> Null]
         ELSE [n |-> 1 + k.len,
               v |-> IntValue(IF type = serialize_negtive_int THEN 0 - k.val ELSE k.val)]
    [] type \in {serialize_bool_true, serialize_bool_false} ->
         [n |-> 1, v |-> BoolValue(type = serialize_bool_true)]
    [] type = serialize_double ->
         IF Len(q) < DoubleLen THEN [n |-> 0, v |-> Null]
         ELSE [n |-> 1 + DoubleLen, v |-> DoubleValue(RealOf(SubSeq(q, 1, DoubleLen)))]
    [] type = serialize_string ->
         IF k.len <= 0 THEN [n |-> k.len, v |-> Null]
         ELSE IF ShortString(Len(q) - k.len, k.val) THEN [n |-> 0, v |-> Null]
         ELSE [n |-> 1 + k.len + k.val,
               v |-> StringValue(TextAt(From(q, k.len), k.val))]
    [] type = serialize_map ->
         IF k.len <= 0 THEN [n |-> k.len, v |-> Null]
         ELSE ReadMap(p, k.val, 1 + k.len, NoKeys)
    [] type = serialize_array ->
         IF k.len <= 0 THEN [n |-> k.len, v |-> Null]
         ELSE ReadArray(p, k.val, 1 + k.len, <<>>)
    [] type = serialize_vector_tensor -> VectorTensor(q)
    [] type = serialize_dense_tensor -> DenseTensor(q)
    [] type = serialize_bool_map ->
         IF k.len <= 0 THEN [n |-> k.len, v |-> Null]
         ELSE IF Len(q) - k.len < CeilDiv(k.val, 8) THEN [n |-> 0, v |-> Null]
         ELSE [n |-> 1 + k.len + CeilDiv(k.val, 8),
               v |-> BoolMapValue(k.val, SubSeq(q, k.len + 1, k.len + CeilDiv(k.val, 8)))]
    [] OTHER -> [n |-> 0 - 1, v |-> Null]
=============================================================================
