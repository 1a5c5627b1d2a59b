----------------------------- MODULE BoxReader ------------------------------
(***************************************************************************)
(* try_read_box (src/source/tinybuf_read_box.c): the recursive reader of   *)
(* boxes, one action per block of code between two recursive calls, with   *)
(* the C call stack as a variable.  It reads what the box writers wrote    *)
(* into one buffer, of which a prefix has arrived, for a client that reads *)
(* one box after the other and asks again when more bytes have come.       *)
(***************************************************************************)
EXTENDS BoxWriter

CONSTANTS
  Boxes,       (* what the client's peer may write                          *)
  MaxBoxes,    (* bound: boxes in the buffer                                *)
  Versions     (* version numbers                                           *)

(* A box has values, one for each version it is written with, and no number in
   it, its own length included, has more digits than the reader takes.       *)
ASSUME BoxReaderAssumption ==
  /\ Versions \subseteq Nat
  /\ \A n \in Ints \cup Versions : IntLen(n) <= MaxGroups
  /\ \A b \in Boxes :
       /\ b.kind \in {"plain", "version", "list", "part", "partitions"}
       /\ b.items \in Seq(Value) /\ b.items # <<>>
       /\ b.vers \in Seq(Versions)
       /\ b.kind = "plain" => Len(b.items) = 1
       /\ b.kind = "version" => Len(b.vers) = 1
       /\ b.kind = "list" => Len(b.vers) = Len(b.items)
       /\ IntLen(Len(BoxBytes(b))) <= MaxGroups

VARIABLES
  bytes,       (* the buffer the writers filled                             *)
  written,     (* the boxes in it, with where each starts and stops         *)
  avail,       (* bytes that arrived, buf->all_size                         *)
  ptr,         (* the cursor, buf->ptr - buf->base; buf->size is the rest   *)
  pooled,      (* s_strpool_offset_read                                     *)
  stack,       (* calls of try_read_box in progress, innermost last         *)
  out,         (* the value read into                                       *)
  ret,         (* the result of the last call that returned                 *)
  begin,       (* where the client's call found the cursor                  *)
  accept       (* the versions the client's contain_handler accepts         *)

client == <<bytes, written, avail, begin, accept>>
vars == <<bytes, written, avail, ptr, pooled, stack, out, ret, begin, accept>>

NoValue == [name |-> 0, n |-> 0]      (* tinybuf_null *)
NoRet == 0 - 2                        (* no call has returned since ReadBox *)

(* A call: the block it is at, the bytes it counted (len), its loop counter,
   the first offset of a part table and the cursor a jump returns to.       *)
Frame == [at : {"enter", "type", "version", "list", "item", "match", "skip", "part",
                "inner", "table", "offset", "jump", "back", "name"},
          len : Nat, n : Nat, first : Int, save : Nat]
Call == [at |-> "enter", len |-> 0, n |-> 0, first |-> 0 - 1, save |-> 0]

Init == /\ bytes = <<>> /\ written = <<>>
        /\ avail = 0 /\ ptr = 0
        /\ pooled = 0 - 1
        /\ stack = <<>>
        /\ out = NoValue
        /\ ret = NoRet
        /\ begin = 0 /\ accept = {}

-----------------------------------------------------------------------------
(* Reading at a cursor.                                                    *)

Byte(p) == bytes[p + 1]

(* int_deserialize at p with size bytes left.                               *)
IntAt(p, size) == IntDeserialize(SubSeq(bytes, p + 1, p + size))

(* Mutant of Move: the new position is not checked.                         *)
MoveUnchecked(p, d) == p + d

(* buf_offset: refused unless the new position is on a byte of the buffer.  *)
Move(p, d) == IF p + d \in 0 .. avail - 1 THEN p + d ELSE p

(* tinybuf_value_deserialize: an integer, or a type it does not know.  An
   integer cut short is taken for what has come, and one byte (optional_add). *)
Deserialize(p, size) ==
  IF size < 1 THEN [len |-> 0, n |-> 0]
  ELSE IF Byte(p) # serialize_positive_int THEN [len |-> 0 - 1, n |-> 0]
  ELSE LET k == IntAt(p + 1, size - 1)
       IN  [len |-> IF k.len < 0 THEN k.len ELSE 1 + k.len, n |-> k.val]

(* try_read_int_data: when the cursor cannot be moved over the integer, it is
   moved back by its length all the same.                                   *)
ReadInt(p) ==
  LET k == IntAt(p, avail - p)
      ok == k.len > 0 /\ p + k.len < avail
  IN  [ok |-> ok, len |-> k.len, val |-> k.val,
       ptr |-> IF ok THEN p + k.len ELSE IF k.len > 0 THEN Move(p, 0 - k.len) ELSE p]

(* The header of a pooled box, read through a copy of the cursor.           *)
Header ==
  IF avail - ptr >= 2 /\ Byte(ptr) = serialize_str_pool_table
  THEN LET k == ReadInt(ptr + 1)
       IN  [ok |-> k.ok, len |-> 1 + k.len, off |-> k.val]
  ELSE [ok |-> FALSE, len |-> 0, off |-> 0]

-----------------------------------------------------------------------------
(* Calls and returns.                                                      *)

Top == stack[Len(stack)]
Reach(f) == stack' = Front(stack) \o <<f>>
Enter(f) == stack' = Front(stack) \o <<f, Call>>
Return(r) == stack' = Front(stack) /\ ret' = r
At(b) == stack # <<>> /\ Top.at = b

(* Mutant of Fail: the cursor stays where the failure found it.             *)
FailInPlace(p, len) == ptr' = p /\ Return(0 - 1)

(* CHECK_FAILED: the cursor goes back by the bytes counted, if it can.      *)
Fail(p, len) == ptr' = Move(p, 0 - len) /\ Return(0 - 1)

(* A box whose tag the deserializer knows is read by it; 0 is not enough
   data.  The header of a pooled box is passed and not counted.             *)
TryDeserialize ==
  /\ At("enter")
  /\ pooled' = IF Header.ok THEN Header.off ELSE pooled
  /\ LET p == IF Header.ok THEN Move(ptr, Header.len) ELSE ptr
         d == Deserialize(p, avail - p)
     IN  \/ /\ d.len > 0
            /\ out' = [name |-> 0, n |-> d.n]
            /\ ptr' = Move(p, d.len)
            /\ Return(d.len)
         \/ /\ d.len = 0
            /\ ptr' = p
            /\ Return(0)
            /\ UNCHANGED out
         \/ /\ d.len < 0
            /\ ptr' = p
            /\ Reach([Top EXCEPT !.at = "type"])
            /\ UNCHANGED <<out, ret>>
  /\ UNCHANGED client

(* try_read_type and the switch.                                            *)
Block(tag) ==
  CASE tag = serialize_version -> "version"
    [] tag = serialize_version_list -> "list"
    [] tag = serialize_part -> "part"
    [] tag = serialize_part_table -> "table"
    [] tag = serialize_name_idx -> "name"
    [] OTHER -> "unknown"

ReadType ==
  /\ At("type")
  /\ \/ /\ ptr + 1 >= avail
        /\ Fail(ptr, 0)
     \/ /\ ptr + 1 < avail
        /\ Block(Byte(ptr)) = "unknown"
        /\ Fail(ptr + 1, 1)
     \/ /\ ptr + 1 < avail
        /\ Block(Byte(ptr)) # "unknown"
        /\ ptr' = ptr + 1
        /\ Reach([Top EXCEPT !.at = Block(Byte(ptr)), !.len = 1])
        /\ UNCHANGED ret
  /\ UNCHANGED <<client, out, pooled>>

(* The blocks that start with an integer, and what follows when it is there. *)
IntBlocks == {"version", "list", "item", "part", "table", "offset", "name"}
Num == ReadInt(ptr)
Counted == Top.len + Num.len
Proceed(f) == ptr' = Num.ptr /\ Reach([f EXCEPT !.len = Counted]) /\ UNCHANGED ret
Descend(b) ==
  /\ ptr' = Num.ptr
  /\ Enter([Top EXCEPT !.at = b, !.len = Counted])
  /\ UNCHANGED ret

NoInt ==
  /\ \E b \in IntBlocks : At(b)
  /\ ~Num.ok
  /\ Fail(Num.ptr, Top.len)
  /\ UNCHANGED <<client, out, pooled>>

(* Mutant of ReadVersion: contain_handler is not asked.                     *)
ReadVersionAny ==
  /\ At("version") /\ Num.ok
  /\ Descend("inner")
  /\ UNCHANGED <<client, out, pooled>>

ReadVersion ==
  /\ At("version") /\ Num.ok
  /\ \/ Num.val \in accept /\ Descend("inner")
     \/ Num.val \notin accept /\ Fail(Num.ptr, Counted)
  /\ UNCHANGED <<client, out, pooled>>

ReadPart ==
  /\ At("part") /\ Num.ok
  /\ Descend("inner")
  /\ UNCHANGED <<client, out, pooled>>

ReadList ==
  /\ At("list") /\ Num.ok
  /\ \/ Num.val = 0 /\ Fail(Num.ptr, Counted)
     \/ Num.val # 0 /\ Proceed([Top EXCEPT !.at = "item", !.n = Num.val])
  /\ UNCHANGED <<client, out, pooled>>

(* The box of a version that is not accepted is read as well, and dropped.  *)
ReadItem ==
  /\ At("item") /\ Num.ok
  /\ Descend(IF Num.val \in accept THEN "match" ELSE "skip")
  /\ UNCHANGED <<client, out, pooled>>

ReadTable ==
  /\ At("table") /\ Num.ok
  /\ \/ Num.val = 0 /\ Fail(Num.ptr, Counted)
     \/ Num.val # 0 /\ Proceed([Top EXCEPT !.at = "offset", !.n = Num.val])
  /\ UNCHANGED <<client, out, pooled>>

ReadOffset ==
  /\ At("offset") /\ Num.ok
  /\ Proceed([Top EXCEPT !.at = IF Top.n = 1 THEN "jump" ELSE "offset",
                         !.n = @ - 1,
                         !.first = IF @ < 0 THEN Num.val ELSE @])
  /\ UNCHANGED <<client, out, pooled>>

(* Mutant of AfterInner: the bytes of the inner box are not counted.        *)
AfterInnerUncounted ==
  /\ At("inner") \/ At("match")
  /\ \/ ret > 0 /\ Return(Top.len) /\ UNCHANGED ptr
     \/ ret <= 0 /\ Fail(ptr, Top.len)
  /\ UNCHANGED <<client, out, pooled>>

(* The box inside a version, an accepted list entry or a part was read.     *)
AfterInner ==
  /\ At("inner") \/ At("match")
  /\ \/ ret > 0 /\ Return(Top.len + ret) /\ UNCHANGED ptr
     \/ ret <= 0 /\ Fail(ptr, Top.len)
  /\ UNCHANGED <<client, out, pooled>>

AfterSkip ==
  /\ At("skip")
  /\ \/ ret <= 0 /\ Fail(ptr, Top.len)
     \/ ret > 0 /\ Top.n = 1 /\ Fail(ptr, Top.len + ret)
     \/ /\ ret > 0 /\ Top.n # 1
        /\ Reach([Top EXCEPT !.at = "item", !.len = @ + ret, !.n = @ - 1])
        /\ UNCHANGED <<ptr, ret>>
  /\ out' = NoValue
  /\ UNCHANGED <<client, pooled>>

(* _read_box_by_offset of the main part, and the return from it: whether it
   was read or not, the table counts as read.                               *)
Jump ==
  /\ At("jump")
  /\ ptr' = Top.first
  /\ Enter([Top EXCEPT !.at = "back", !.save = ptr])
  /\ UNCHANGED <<client, out, pooled, ret>>

Back ==
  /\ At("back")
  /\ ptr' = Top.save
  /\ Return(Top.len)
  /\ UNCHANGED <<client, out, pooled>>

(* The name in the table at the global position, 0 if there is none.        *)
NameAt(idx) ==
  IF pooled + 1 < avail /\ Byte(pooled) = serialize_str_trie_pool /\ idx = 0
  THEN Byte(pooled + 1) ELSE 0

(* An id box.  The length of the payload is cut to what lies before the table;
   the reader of the named type, or try_read_box if no name was found, reads
   the payload.                                                             *)
ReadNamed ==
  /\ At("name") /\ Num.ok
  /\ LET b == ReadInt(Num.ptr)
         len == Counted + b.len
         blen == IF pooled >= b.ptr /\ b.val > pooled - b.ptr THEN pooled - b.ptr
                 ELSE b.val
         readable == avail - b.ptr >= blen /\ pooled >= 0
         d == Deserialize(b.ptr, blen)
     IN  \/ /\ ~b.ok
            /\ Fail(b.ptr, Counted)
            /\ UNCHANGED out
         \/ /\ b.ok /\ ~(readable /\ d.len > 0)
            /\ Fail(b.ptr, len)
            /\ UNCHANGED out
         \/ /\ b.ok /\ readable /\ d.len > 0
            /\ out' = [name |-> NameAt(Num.val), n |-> d.n]
            /\ ptr' = Move(b.ptr, d.len)
            /\ Return(len + d.len)
  /\ UNCHANGED <<client, pooled>>

Reader ==
  \/ TryDeserialize \/ ReadType \/ NoInt
  \/ ReadVersion \/ ReadPart \/ ReadList \/ ReadItem \/ ReadTable \/ ReadOffset
  \/ AfterInner \/ AfterSkip \/ Jump \/ Back \/ ReadNamed

-----------------------------------------------------------------------------
(* The peer and the client.                                                *)

(* The peer writes a box; a part table only as the first one, since offsets of
   parts count from the start of the buffer.                                *)
Write(b) ==
  /\ avail = 0
  /\ Len(written) < MaxBoxes
  /\ b.kind = "partitions" => written = <<>>
  /\ bytes' = bytes \o BoxBytes(b)
  /\ written' = Append(written, [start |-> Len(bytes), stop |-> Len(bytes'), box |-> b])
  /\ UNCHANGED <<avail, ptr, pooled, stack, out, ret, begin, accept>>

(* More of the buffer arrives between two calls (bound: in two pieces).      *)
Receive(n) ==
  /\ stack = <<>>
  /\ n \in avail + 1 .. Len(bytes)
  /\ avail > 0 => n = Len(bytes)
  /\ avail' = n
  /\ ret' = NoRet
  /\ UNCHANGED <<bytes, written, ptr, pooled, stack, out, begin, accept>>

(* Bytes where a box can start, or a value or part inside one.              *)
Tags == {serialize_positive_int, serialize_version, serialize_version_list,
         serialize_part, serialize_part_table, serialize_str_pool_table,
         serialize_str_trie_pool}

(* The client reads into a fresh value where the last call left the cursor,
   unless that call failed.                                                 *)
ReadBox(vs) ==
  /\ stack = <<>>
  /\ ret >= 0 \/ ret = NoRet
  /\ ptr < avail /\ Byte(ptr) \in Tags
  /\ stack' = <<Call>>
  /\ out' = NoValue
  /\ ret' = NoRet
  /\ begin' = ptr
  /\ accept' = vs
  /\ UNCHANGED <<bytes, written, avail, ptr, pooled>>

Next ==
  \/ \E b \in Boxes : Write(b)
  \/ \E n \in 1 .. Len(bytes) : Receive(n)
  \/ \E vs \in SUBSET Versions : ReadBox(vs)
  \/ Reader

Spec == Init /\ [][Next]_vars

-----------------------------------------------------------------------------
(* Properties.                                                             *)

(* The cursor is on a byte that arrived (or at 0), however often it was moved
   forward, back and to the parts of a table; the calls have their types.   *)
TypeOK ==
  /\ bytes \in Seq(Nat)
  /\ avail \in 0 .. Len(bytes)
  /\ stack \in Seq(Frame)
  /\ ret \in Int /\ pooled \in Int
  /\ out \in [name : Nat, n : Nat]
  /\ (\A f \in DOMAIN stack : stack[f].at # "back") =>
       ptr = 0 \/ ptr \in 0 .. avail - 1

(* The client's call has returned for the box that starts where it began.   *)
Done(w) == stack = <<>> /\ ret # NoRet /\ w.start = begin
BoxesIn == {written[i] : i \in DOMAIN written}
Plain(w) == \A i \in DOMAIN w.box.items : w.box.items[i].name = 0
Arrived(w) == w.stop <= avail
Followed(w) == w.stop < avail

(* The entries of a box whose version the client accepts.                   *)
Accepted(w) == {i \in DOMAIN w.box.vers : w.box.vers[i] \in accept}
FirstAccepted(w) == CHOOSE i \in Accepted(w) : \A j \in Accepted(w) : i <= j
Versioned(w) == w.box.kind \in {"version", "list"}
Selects(w) == Versioned(w) => Accepted(w) # {}
Selected(w) == w.box.items[IF Versioned(w) THEN FirstAccepted(w) ELSE 1]

(* A box that arrived is read as the value written under the first version the
   client accepts, or as its main part; with none it is refused and the value
   stays null.                                                              *)
SelectedRead ==
  \A w \in BoxesIn : Done(w) /\ Arrived(w) /\ Plain(w) =>
    IF Selects(w) THEN ret > 0 /\ out = Selected(w) ELSE ret = 0 - 1 /\ out = NoValue

(* When more bytes follow, a successful call moves the cursor by what it
   returns, and to the end of a box that has nothing behind what was selected. *)
CursorExact ==
  \A w \in BoxesIn : Done(w) /\ Followed(w) /\ Plain(w) /\ ret > 0 =>
    /\ ptr = begin + ret
    /\ \/ w.box.kind \in {"plain", "version", "part"}
       \/ w.box.kind = "list" /\ FirstAccepted(w) = Len(w.box.items)
       => ptr = w.stop

(* When more bytes follow, a refused box leaves the cursor where it was, after
   any number of skipped entries.                                           *)
RefusalRestores ==
  \A w \in BoxesIn : Done(w) /\ Followed(w) /\ Plain(w) /\ ret <= 0 => ptr = begin

(* A value of a custom type at the start of the buffer finds its type's name in
   the table behind it and comes back as that type.                         *)
FirstIdBoxTyped ==
  \A w \in BoxesIn :
    Done(w) /\ Arrived(w) /\ w.start = 0 /\ w.box.kind = "plain" =>
      ret > 0 /\ out = w.box.items[1]

(* What the comment on the readers says of all of them: one that returns more
   than zero has moved the cursor.                                          *)
SuccessMoves == stack = <<>> /\ ret > 0 => ptr # begin
=============================================================================
