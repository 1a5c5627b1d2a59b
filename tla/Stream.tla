------------------------------- MODULE Stream -------------------------------
(***************************************************************************)
(* Values on their way from a writer to a reader.  The writer fills its    *)
(* buffers through tinybuf_value_serialize, through the precache           *)
(* (src/source/tinybuf_precache.c), which writes a registered value as a   *)
(* pointer while redirection is on, and through the headers and pointers   *)
(* of tinybuf_write.c, or as JSON.  What a buffer holds is sent; it        *)
(* arrives in pieces, and the reader tries what has arrived, waiting for   *)
(* more when the answer is 0.                                              *)
(*                                                                         *)
(* A value object is its content: the writer has one object for each, and  *)
(* the child of a container is that object.                                *)
(***************************************************************************)
EXTENDS Dump, JsonText
LOCAL INSTANCE SequencesExt

CONSTANTS
  Outs,        (* the writer's buffers                                      *)
  None,        (* no buffer                                                 *)
  Values,      (* values written in the binary format                       *)
  JsonValues,  (* values written as JSON                                    *)
  Objects,     (* values registered in the precache                         *)
  Made,        (* pointers the writer makes up: from where, and the offset  *)
  MaxBoxes,    (* bound: boxes written, over all buffers                    *)
  MaxSent,     (* bound: values on their way                                *)
  MaxItems     (* bound: the length of an array written by its header       *)

(* A number that ends a text has no end of its own, so JSON is sent in
   messages that have one.                                                  *)
ASSUME StreamAssumption ==
  /\ None \notin Outs
  /\ Objects \subseteq Values
  /\ \A v \in JsonValues : HasJson(v) /\ v.t \notin {"int", "double"}

VARIABLES
  format,      (* "binary", "compact" or "pretty": one for each behaviour   *)
  buf,         (* each buffer: what it holds, and which boxes that is       *)
  precached,   (* s_precache_stream and the entries of s_precache           *)
  redirect,    (* s_precache_redirect                                       *)
  wire,        (* the units that have not arrived                           *)
  rbuf,        (* the bytes that have, and are not consumed                 *)
  sent,        (* the values sent and not received, and their lengths       *)
  value        (* the last value received                                   *)

writer == <<buf, precached, redirect>>
vars == <<format, buf, precached, redirect, wire, rbuf, sent, value>>

(* units is what the buffer holds, boxes the complete boxes in it.  An array
   written by its header is open until its items have followed; items are the
   values it has so far.  pointers says that a pointer was written, made that
   one was made up by the writer.                                           *)
EmptyBuf == [units |-> <<>>, boxes |-> <<>>, open |-> 0, items |-> <<>>, begin |-> 0,
             pointers |-> FALSE, made |-> FALSE]

NoEntries == [v \in {} |-> 0]

Init == /\ format \in {"binary", "compact", "pretty"}
        /\ buf = [o \in Outs |-> EmptyBuf]
        /\ precached = [stream |-> None, start |-> NoEntries]
        /\ redirect = FALSE
        /\ wire = <<>> /\ rbuf = <<>>
        /\ sent = <<>>
        /\ value = Null

-----------------------------------------------------------------------------
(* Writing.                                                                *)

Length(o) == Len(Bytes(buf[o].units))
Gap == IF format = "pretty" THEN <<SPACE>> ELSE <<>>

(* The bound: MaxBoxes boxes, written before the first byte arrives.         *)
Room ==
  LET Boxes(o) == Len(buf[o].boxes) + Len(buf[o].items) + buf[o].open
  IN  /\ FoldSet(LAMBDA o, x : x + Boxes(o), Len(sent), Outs) < MaxBoxes
      /\ rbuf = <<>> /\ value = Null

(* A value (or a pointer) follows in buffer o as units.  It is a box of its own
   or the next item of the array that is open.                              *)
Added(o, v, units) ==
  LET b == [buf[o] EXCEPT !.units = @ \o units]
      end == Len(Bytes(b.units))
      Box(w, from) == [v |-> w, from |-> from, to |-> end]
  IN  IF b.open = 0 THEN [b EXCEPT !.boxes = Append(@, Box(v, Length(o)))]
      ELSE IF b.open > 1 THEN [b EXCEPT !.open = @ - 1, !.items = Append(@, v)]
      ELSE [b EXCEPT !.open = 0, !.items = <<>>,
                     !.boxes = Append(@, Box(ArrayValue(Append(b.items, v)), b.begin))]

(* Mutant of precache_find_start: a value registered for another buffer is
   found as well.                                                           *)
FindAnywhere(o) == precached.start

(* precache_find_start: entries count for the buffer they were made for.     *)
precache_find_start(o) == IF precached.stream = o THEN precached.start ELSE NoEntries

(* What tinybuf_value_serialize redirects.                                  *)
Redirected(o) == IF redirect THEN precache_find_start(o) ELSE NoEntries

(* precache_add: an entry for another buffer empties the table first.        *)
precache_add(o, v, start) ==
  LET old == precache_find_start(o)
  IN  [stream |-> o, start |-> [w \in DOMAIN old \cup {v} |->
                                  IF w = v THEN start ELSE old[w]]]

(* tinybuf_precache_register turns the redirection off while it serialises.  *)
RegisteredUnits(o, v) == Write(v, NoEntries)

(* tinybuf_precache_register.                                               *)
Register(o, v) ==
  /\ format = "binary" /\ Room
  /\ precached' = precache_add(o, v, Length(o))
  /\ buf' = [buf EXCEPT ![o] = Added(o, v, RegisteredUnits(o, v))]
  /\ UNCHANGED <<format, redirect, wire, rbuf, sent, value>>

(* tinybuf_precache_set_redirect.                                           *)
SetRedirect ==
  /\ format = "binary" /\ Room
  /\ redirect' = ~redirect
  /\ UNCHANGED <<format, buf, precached, wire, rbuf, sent, value>>

(* tinybuf_value_serialize and tinybuf_value_serialize_as_json.              *)
WriteValue(o, v) ==
  LET units == IF format = "binary" THEN Write(v, Redirected(o)) ELSE Split(WriteJson(v, Gap))
      image == IF format = "binary" THEN v ELSE JsonImage(v)
  IN  /\ v \in (IF format = "binary" THEN Values ELSE JsonValues) /\ Room
      /\ buf' = [buf EXCEPT ![o] =
                   [Added(o, image, units) EXCEPT
                      !.pointers = @ \/ (format = "binary" /\ units # Write(v, NoEntries))]]
      /\ UNCHANGED <<format, precached, redirect, wire, rbuf, sent, value>>

(* tinybuf_try_write_array_header; the items follow.                        *)
WriteArrayHeader(o, n) ==
  /\ format = "binary" /\ Room
  /\ buf[o].open = 0 /\ buf[o].boxes = <<>>
  /\ buf' = [buf EXCEPT ![o].units = @ \o Split(<<serialize_array>> \o Digits[n]),
                        ![o].open = n, ![o].begin = Length(o)]
  /\ UNCHANGED <<format, precached, redirect, wire, rbuf, sent, value>>

(* tinybuf_try_write_pointer with an offset of the writer's own.             *)
WritePointer(o, from, offset) ==
  /\ format = "binary" /\ Room
  /\ buf' = [buf EXCEPT ![o] =
               [Added(o, Null, Split(PointerBytes(from, offset))) EXCEPT
                  !.pointers = TRUE, !.made = TRUE]]
  /\ UNCHANGED <<format, precached, redirect, wire, rbuf, sent, value>>

-----------------------------------------------------------------------------
(* The values the two functions agree on: others come back different, or not
   at all (an integer of MaxGroups + 1 digits, text of no length, a vector of
   integers, a tensor of bits, which is kept packed).                       *)
RECURSIVE Readable(_)
Readable(v) ==
  CASE v.t = "int" -> Abs(v.n) < Radix ^ MaxGroups
    [] v.t = "string" -> v.s # <<>>
    [] v.t = "map" -> \A k \in DOMAIN v.m : k # <<>> /\ Readable(v.m[k])
    [] v.t = "array" -> \A j \in DOMAIN v.a : Readable(v.a[j])
    [] v.t = "tensor" ->
         IF Len(v.shape) = 1 THEN v.dtype \in {DTypeDouble, DTypeFloat} ELSE v.dtype # DTypeBool
    [] OTHER -> TRUE

(* The writer hands over a buffer without pointers, which the reader has no
   case for, empties it, and resets the precache with it.                   *)
Send(o) ==
  /\ Len(sent) + Len(buf[o].boxes) <= MaxSent
  /\ buf[o].boxes # <<>> /\ buf[o].open = 0 /\ ~buf[o].pointers
  /\ format = "binary" => \A j \in DOMAIN buf[o].boxes : Readable(buf[o].boxes[j].v)
  /\ wire' = wire \o buf[o].units
  /\ sent' = sent \o [j \in DOMAIN buf[o].boxes |->
                        LET b == buf[o].boxes[j] IN [v |-> b.v, len |-> b.to - b.from]]
  /\ buf' = [buf EXCEPT ![o] = EmptyBuf]
  /\ precached' = [stream |-> o, start |-> NoEntries]
  /\ UNCHANGED <<format, redirect, rbuf, value>>

(* n units arrive: an integer of a value comes whole.  The bound: the writer has
   handed over all it wrote.                                                *)
Arrive(n) ==
  /\ \A o \in Outs : buf[o] = EmptyBuf
  /\ wire' = From(wire, n)
  /\ rbuf' = rbuf \o Bytes(SubSeq(wire, 1, n))
  /\ UNCHANGED <<format, buf, precached, redirect, sent, value>>

Attempt == IF format = "binary" THEN Read(rbuf) ELSE ReadJson(rbuf)

(* tinybuf_value_deserialize(_from_json) succeeds; on 0 the reader waits.    *)
Receive ==
  \E k \in {Attempt} :
    /\ rbuf # <<>> /\ k.n > 0
    /\ value' = k.v
    /\ rbuf' = From(rbuf, k.n)
    /\ sent' = IF sent = <<>> THEN sent ELSE Tail(sent)
    /\ UNCHANGED <<format, buf, precached, redirect, wire>>

Next ==
  \/ \E o \in Outs :
       \/ \E v \in Objects : Register(o, v)
       \/ \E v \in Values \cup JsonValues : WriteValue(o, v)
       \/ \E n \in 1 .. MaxItems : WriteArrayHeader(o, n)
       \/ \E pointer \in Made : WritePointer(o, pointer[1], pointer[2])
       \/ Send(o)
  \/ SetRedirect
  \/ \E n \in 1 .. Len(wire) : Arrive(n)
  \/ Receive

Spec == Init /\ [][Next]_vars

-----------------------------------------------------------------------------
(* What a box amounts to for a reader that follows pointers back: its length,
   its value and the positions its pointers name.  The library has no such
   reader.                                                                  *)
RECURSIVE Follow(_, _), FollowBody(_, _, _, _), FollowItems(_, _, _, _),
          FollowItem(_, _, _, _, _)

FollowItems(p, r, left, keyed) ==
  IF left = 0 THEN r
  ELSE FollowItem(p, r, left, keyed,
         IF keyed THEN IntDeserialize(From(p, r.end)) ELSE [len |-> 0, val |-> 0])

FollowItem(p, r, left, keyed, k) ==
  LET key == TextAt(From(p, r.end + k.len), k.val)
      With(box) == [end |-> box.end, to |-> r.to \cup box.to,
                    keys |-> IF keyed THEN Append(r.keys, key) ELSE r.keys,
                    vals |-> Append(r.vals, box.v)]
  IN  FollowItems(p, With(Follow(p, r.end + k.len + k.val)), left - 1, keyed)

Follow(p, at) == FollowBody(p, at, p[at + 1], IntDeserialize(From(p, at + 1)))

FollowBody(p, at, type, k) ==
  LET behind == at + 1 + k.len
      Items(keyed) ==
        FollowItems(p, [end |-> behind, to |-> {}, keys |-> <<>>, vals |-> <<>>], k.val, keyed)
      Array(r) == [end |-> r.end, to |-> r.to, v |-> ArrayValue(r.vals)]
      Map(r) == [end |-> r.end, to |-> r.to,
                 v |-> MapValue([key \in ToSet(r.keys) |->
                                   r.vals[CHOOSE j \in DOMAIN r.keys : r.keys[j] = key]])]
      Plain(r) == [end |-> at + r.n, to |-> {}, v |-> r.v]
  IN  CASE type \in Pointers ->
             [end |-> behind, to |-> {k.val},
              v |-> IF k.val < at THEN Follow(p, k.val).v ELSE Null]
        [] type = serialize_array -> Array(Items(FALSE))
        [] type = serialize_map -> Map(Items(TRUE))
        [] OTHER -> Plain(Read(From(p, at)))

(* A buffer all of whose boxes are readable but for the pointers that redirection
   put there.                                                               *)
Redirectable(o) ==
  /\ format = "binary" /\ ~buf[o].made
  /\ \A j \in DOMAIN buf[o].boxes : Readable(buf[o].boxes[j].v)

(* No box of the kinds collect_box_labels has no case for.                  *)
RECURSIVE Collected(_)
Collected(v) ==
  CASE v.t \in {"tensor", "bool_map"} -> FALSE
    [] v.t = "array" -> \A j \in DOMAIN v.a : Collected(v.a[j])
    [] v.t = "map" -> \A k \in DOMAIN v.m : Collected(v.m[k])
    [] OTHER -> TRUE

-----------------------------------------------------------------------------
(* Every byte written is a byte, and every buffer is a row of boxes without
   gaps, up to the array that is open.                                      *)
TypeOK ==
  /\ \A o \in Outs :
       LET b == buf[o]
       IN  /\ \A j \in DOMAIN Bytes(b.units) : Bytes(b.units)[j] \in 0 .. 2 * Radix - 1
           /\ \A j \in DOMAIN b.boxes :
                /\ b.boxes[j].from = IF j = 1 THEN 0 ELSE b.boxes[j - 1].to
                /\ b.boxes[j].from < b.boxes[j].to
           /\ b.open + Len(b.items) \in 0 .. MaxItems
  /\ \A v \in DOMAIN precached.start : precached.start[v] < Length(precached.stream)
  /\ Len(rbuf) <= FoldSeq(LAMBDA s, x : x + s.len, 0, sent)

(* A text that ends in a \uXXXX escape.                                     *)
EndsInEscape(p) ==
  Len(p) > 7 /\ SubSeq(p, Len(p) - 6, Len(p) - 5) = <<BACKSLASH, LOWER_U>>
             /\ Last(p) = QUOTE

(* Wherever what has arrived is cut, the reader answers 0, with nothing of a
   container it began, until the first value is there to its last byte; then it
   consumes that value to the byte and nothing of what follows (tinybuf_value_deserialize,
   tinybuf_value_deserialize_from_json).  The exception is JSON text that ends
   in a \uXXXX escape with nothing behind it: the reader goes on waiting.    *)
ReadsExactly ==
  sent # <<>> =>
    \A k \in {Attempt} :
      IF Len(rbuf) < Head(sent).len THEN k.n = 0 /\ k.v = Null
      ELSE \/ k.n = Head(sent).len
           \/ /\ k.n = 0 /\ format # "binary"
              /\ Len(rbuf) = Head(sent).len /\ EndsInEscape(rbuf)

(* The values received are the ones that were sent, in order and each once, in
   either format and however the bytes were cut on the way; a double that is
   whole comes back from JSON as an integer.                                *)
Delivery == INSTANCE Channel WITH queue <- [j \in DOMAIN sent |-> sent[j].v], Nothing <- Null
ImplementsChannel == Delivery!Spec

(* Following the pointers of a buffer gives the values its boxes were written
   for: an entry of the precache is used in the buffer it was made for, names
   the start of a box of its value, and a value registered again is written in
   full (tinybuf_precache_register, the redirection of tinybuf_value_serialize). *)
PointersResolve ==
  \A o \in Outs : Redirectable(o) =>
    \A j \in DOMAIN buf[o].boxes :
      \A f \in {Follow(Bytes(buf[o].units), buf[o].boxes[j].from)} :
        f.v = buf[o].boxes[j].v /\ f.end = buf[o].boxes[j].to

(* The dump of a buffer consumes its first box to the byte, whatever boxes it is
   made of, when something follows it; the library's tests take that count for
   the length.  (When nothing follows, the last byte is refused by buf_offset.) *)
DumpAgrees ==
  \A o \in Outs : (format = "binary" /\ Len(buf[o].boxes) > 1) =>
    DumpBuffer(Bytes(buf[o].units)).n = buf[o].boxes[1].to

(* The boxes the dump of a buffer marks as pointed to are the ones its pointers
   name: two passes that walk the buffer apart agree on where boxes start.   *)
PointersMarked ==
  \A o \in Outs :
    (Redirectable(o) /\ Len(buf[o].boxes) > 1 /\ Collected(buf[o].boxes[1].v)) =>
      \A p \in {Bytes(buf[o].units)} : DumpBuffer(p).d.marks = Follow(p, 0).to
=============================================================================
