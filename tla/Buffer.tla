------------------------------- MODULE Buffer -------------------------------
(***************************************************************************)
(* The growable byte buffer every other component writes into              *)
(* (src/source/tinybuf_buffer.c).  A buffer is a heap block _data of       *)
(* _capacity cells and a length _len; the block is a sequence of cells     *)
(* here, so that Len(mem[b]) is the capacity and <<>> is the NULL block    *)
(* of a fresh or released buffer.  A cell nobody has written holds RAW:    *)
(* what a read of it yields is a nondeterministic choice.                  *)
(***************************************************************************)
EXTENDS Naturals, Sequences

CONSTANTS
  Buffers,     (* the buffer objects                                        *)
  Bytes,       (* the non-zero byte values told apart                       *)
  NUL,         (* the zero byte                                             *)
  RAW,         (* an uninitialised cell                                     *)
  RESERVED_SIZE, (* slack added to every allocation by buffer_append        *)
  VarintRoom,  (* free cells dump_int asks for (16)                         *)
  VarintMax,   (* longest variable-length integer (10)                      *)
  MaxLen       (* bound: no operation makes a buffer longer than this       *)

Cell == Bytes \cup {NUL, RAW}

ASSUME BufferAssumption ==
  /\ RESERVED_SIZE \in Nat \ {0}
  /\ VarintRoom \in Nat
  /\ VarintMax \in 1 .. (VarintRoom - 1)
  /\ MaxLen \in Nat

VARIABLES
  mem,         (* mem[b]: the cells of the block _data                      *)
  len          (* len[b]: _len                                              *)

vars == <<mem, len>>

Content(b) == SubSeq(mem[b], 1, len[b])

Init == /\ mem = [b \in Buffers |-> <<>>]
        /\ len = [b \in Buffers |-> 0]

-----------------------------------------------------------------------------
(* Blocks.                                                                 *)

(* malloc or realloc to k cells: the new ones are uninitialised.            *)
Resize(m, k) == [i \in 1 .. k |-> IF i <= Len(m) THEN m[i] ELSE RAW]

(* memcpy of s to offset at, which must fit.                                *)
Poke(m, at, s) ==
  [i \in 1 .. Len(m) |-> IF at < i /\ i <= at + Len(s) THEN s[i - at] ELSE m[i]]

(* The strings strlen may delimit in m: up to the first NUL, or up to any
   uninitialised cell that happens to be zero, or past the end.             *)
CStrings(m) ==
  {SubSeq(m, 1, k) : k \in {j \in 0 .. Len(m) :
      /\ NUL \notin {m[i] : i \in 1 .. j}
      /\ j < Len(m) => m[j + 1] \in {NUL, RAW}}}

(* Mutant of Source: the length is not passed on.                           *)
SourceAlwaysString(data, n) == CStrings(data)

(* What (data, n) denotes: n cells, or a C string when n is not positive.   *)
Source(data, n) == IF n = 0 THEN CStrings(data) ELSE {SubSeq(data, 1, n)}

(* Mutant of Room: no room for the terminator.                              *)
RoomTight(m, at, s) ==
  IF Len(m) >= at + Len(s) THEN m ELSE Resize(m, at + Len(s) + RESERVED_SIZE)

(* The block after s and a terminator are stored at offset at.              *)
Room(m, at, s) ==
  LET start == IF m = <<>> THEN Resize(m, Len(s) + RESERVED_SIZE) ELSE m
  IN  IF Len(start) > at + Len(s)
      THEN start
      ELSE Resize(start, at + Len(s) + RESERVED_SIZE)

Put(b, at, s) ==
  /\ at + Len(s) <= MaxLen
  /\ mem' = [mem EXCEPT ![b] = Poke(Room(@, at, s), at, Append(s, NUL))]
  /\ len' = [len EXCEPT ![b] = at + Len(s)]

-----------------------------------------------------------------------------
(* Operations.                                                             *)

(* buffer_append(b, data, n).                                               *)
BufferAppend(b, data, n) == \E s \in Source(data, n) : Put(b, len[b], s)

(* buffer_assign: in place if it fits, else append to length 0.             *)
BufferAssign(b, data, n) == \E s \in Source(data, n) : Put(b, 0, s)

(* buffer_push, and buffer_push_inline.                                     *)
BufferPush(b, ch) == Put(b, len[b], <<ch>>)

(* buffer_append_buffer of another buffer; assert(from->_data).             *)
AppendBuffer(dst, src) ==
  /\ dst # src
  /\ mem[src] # <<>>
  /\ BufferAppend(dst, mem[src], len[src])

(* Mutant of BufferPop: no test for an empty buffer.                        *)
BufferPopUnchecked(b) ==
  /\ mem' = [mem EXCEPT ![b][len[b]] = NUL]
  /\ len' = [len EXCEPT ![b] = @ - 1]

BufferPop(b) ==
  /\ len[b] > 0
  /\ mem' = [mem EXCEPT ![b][len[b]] = NUL]
  /\ len' = [len EXCEPT ![b] = @ - 1]

(* The successful call; it fails, changing nothing, when n >= capacity.     *)
BufferSetLength(b, n) ==
  /\ Len(mem[b]) > n
  /\ mem' = [mem EXCEPT ![b][n + 1] = NUL]
  /\ len' = [len EXCEPT ![b] = n]

AddCapacity(b, n) ==
  /\ Len(mem[b]) + n <= MaxLen + VarintRoom
  /\ mem' = [mem EXCEPT ![b] = Resize(@, Len(@) + n)]
  /\ UNCHANGED len

(* Mutant of DumpInt: the capacity is taken to suffice.                     *)
DumpIntNoGrowth(b, s) ==
  LET end == len[b] + Len(s)
  IN  /\ Len(s) < VarintRoom /\ end <= MaxLen
      /\ mem' = [mem EXCEPT ![b] = Poke(@, len[b], s)]
      /\ len' = IF Len(mem[b]) > end THEN [len EXCEPT ![b] = end] ELSE len

(* dump_int: an integer of Len(s) bytes is stored behind the content, then
   buffer_set_length makes it part of it; a failure of that is ignored.     *)
DumpInt(b, s) ==
  LET m == IF Len(mem[b]) - len[b] < VarintRoom
           THEN Resize(mem[b], Len(mem[b]) + VarintRoom)
           ELSE mem[b]
      end == len[b] + Len(s)
  IN  /\ end <= MaxLen
      /\ IF Len(m) > end
         THEN /\ mem' = [mem EXCEPT ![b] = Poke(m, len[b], Append(s, NUL))]
              /\ len' = [len EXCEPT ![b] = end]
         ELSE /\ mem' = [mem EXCEPT ![b] = Poke(m, len[b], s)]
              /\ UNCHANGED len

BufferMove(dst, src) ==
  /\ dst # src
  /\ mem' = [mem EXCEPT ![dst] = mem[src], ![src] = <<>>]
  /\ len' = [len EXCEPT ![dst] = len[src], ![src] = 0]

(* buffer_free; the name is reused for the next buffer_alloc.               *)
BufferFree(b) ==
  /\ mem' = [mem EXCEPT ![b] = <<>>]
  /\ len' = [len EXCEPT ![b] = 0]

Stored == UNION {[1 .. n -> Bytes \cup {NUL}] : n \in 0 .. MaxLen}

Next ==
  \/ \E b \in Buffers, s \in Stored, n \in 0 .. MaxLen :
       /\ n <= Len(s)
       /\ \/ BufferAppend(b, Append(s, NUL), n)
          \/ BufferAssign(b, Append(s, NUL), n)
  \/ \E b \in Buffers, ch \in Bytes \cup {NUL} : BufferPush(b, ch)
  \/ \E dst, src \in Buffers : AppendBuffer(dst, src) \/ BufferMove(dst, src)
  \/ \E b \in Buffers : BufferPop(b) \/ BufferFree(b)
  \/ \E b \in Buffers, n \in 0 .. MaxLen : BufferSetLength(b, n)
  \/ \E b \in Buffers, n \in 1 .. VarintRoom : AddCapacity(b, n)
  \/ \E b \in Buffers, n \in 1 .. VarintMax :
       \E s \in [1 .. n -> Bytes] : DumpInt(b, s)

Spec == Init /\ [][Next]_vars

-----------------------------------------------------------------------------
(* Properties.                                                             *)

(* Each block is a sequence of cells and each length a natural number.      *)
TypeOK == /\ mem \in [Buffers -> Seq(Cell)]
          /\ len \in [Buffers -> Nat]

(* The terminator of the content always lies inside the block: no operation
   stores past the capacity, whatever the order of growth, truncation and
   moves, and a non-empty content is a C string for a caller that uses
   buffer_get_data as one (tinybuf_value_api.c, tinybuf_json.c).            *)
Terminated ==
  \A b \in Buffers :
    /\ mem[b] = <<>> => len[b] = 0
    /\ mem[b] # <<>> => len[b] < Len(mem[b])
    /\ len[b] > 0 => mem[b][len[b] + 1] = NUL

Written(b) == mem[b] # <<>> /\ mem[b][len[b] + 1] = NUL

(* buffer_append_buffer appends the content of the source and nothing else,
   the empty content included, which it passes as length 0 = "use strlen":
   for a source that some operation has terminated.                         *)
AppendBufferExact ==
  [][\A dst, src \in Buffers :
       (AppendBuffer(dst, src) /\ Written(src))
         => Content(dst)' = Content(dst) \o Content(src)]_vars

(* dump_int always gets its bytes into the content: the result of its
   buffer_set_length call, which nobody tests, is never a failure.          *)
DumpIntExact ==
  [][\A b \in Buffers, n \in 1 .. VarintMax : \A s \in [1 .. n -> Bytes] :
       DumpInt(b, s) => Content(b)' = Content(b) \o s]_vars
=============================================================================
