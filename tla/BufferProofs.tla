---------------------------- MODULE BufferProofs ----------------------------
(***************************************************************************)
(* For every set of buffers, every reserve and every length bound: blocks  *)
(* keep their type and the terminator stays inside the block.              *)
(***************************************************************************)
EXTENDS Buffer, SequenceTheorems, TLAPS

(* A resized block has the requested capacity and keeps its cells.          *)
LEMMA ResizeType ==
  ASSUME NEW m \in Seq(Cell), NEW k \in Nat
  PROVE  /\ Resize(m, k) \in Seq(Cell)
         /\ Len(Resize(m, k)) = k
         /\ \A i \in 1 .. k : i <= Len(m) => Resize(m, k)[i] = m[i]
<1>1. Resize(m, k) \in [1 .. k -> Cell]
  BY DEF Resize, Cell
<1>2. Resize(m, k) \in Seq(Cell)
  BY <1>1, SeqDef
<1>. QED  BY <1>1, <1>2, LenProperties DEF Resize

(* memcpy changes no capacity and stores s at its offset.                   *)
LEMMA PokeType ==
  ASSUME NEW m \in Seq(Cell), NEW at \in Nat, NEW s \in Seq(Cell)
  PROVE  /\ Poke(m, at, s) \in Seq(Cell)
         /\ Len(Poke(m, at, s)) = Len(m)
         /\ \A i \in 1 .. Len(s) : at + i <= Len(m) => Poke(m, at, s)[at + i] = s[i]
<1>0. Len(m) \in Nat /\ Len(s) \in Nat /\ m \in [1 .. Len(m) -> Cell] /\ s \in [1 .. Len(s) -> Cell]
  BY LenProperties
<1>1. Poke(m, at, s) \in [1 .. Len(m) -> Cell]
  BY <1>0 DEF Poke
<1>2. Poke(m, at, s) \in Seq(Cell)
  BY <1>0, <1>1, SeqDef
<1>3. Len(Poke(m, at, s)) = Len(m)
  BY <1>0, <1>1, <1>2, LenProperties
<1>4. ASSUME NEW i \in 1 .. Len(s), at + i <= Len(m)
      PROVE  Poke(m, at, s)[at + i] = s[i]
  BY <1>0, <1>4 DEF Poke
<1>. QED  BY <1>2, <1>3, <1>4

(* The block prepared for a store of s at offset at has room for s and for
   one terminator more.                                                     *)
LEMMA RoomType ==
  ASSUME NEW m \in Seq(Cell), NEW at \in Nat, NEW s \in Seq(Cell)
  PROVE  /\ Room(m, at, s) \in Seq(Cell)
         /\ Len(Room(m, at, s)) > at + Len(s)
<1>0. Len(m) \in Nat /\ Len(s) \in Nat
  BY LenProperties
<1> DEFINE start == IF m = <<>> THEN Resize(m, Len(s) + RESERVED_SIZE) ELSE m
<1>1. start \in Seq(Cell) /\ Len(start) \in Nat
  BY <1>0, ResizeType, BufferAssumption, LenProperties, SMTT(30)
<1>2. at + Len(s) + RESERVED_SIZE \in Nat
  BY <1>0, BufferAssumption
<1>3. /\ Resize(start, at + Len(s) + RESERVED_SIZE) \in Seq(Cell)
      /\ Len(Resize(start, at + Len(s) + RESERVED_SIZE)) = at + Len(s) + RESERVED_SIZE
  BY <1>1, <1>2, ResizeType
<1>4. Room(m, at, s) = IF Len(start) > at + Len(s) THEN start
                       ELSE Resize(start, at + Len(s) + RESERVED_SIZE)
  BY DEF Room
<1> HIDE DEF start
<1>. QED  BY <1>0, <1>1, <1>3, <1>4, BufferAssumption

(* A non-empty sequence of cells is a non-NULL block.                       *)
LEMMA NonNull == ASSUME NEW m \in Seq(Cell), Len(m) > 0  PROVE  m # <<>>
BY LenProperties, EmptySeq

Inv == TypeOK /\ Terminated

(* The block a store leaves behind is terminated inside its capacity.       *)
LEMMA StoreType ==
  ASSUME NEW m \in Seq(Cell), NEW at \in Nat, NEW s \in Seq(Cell), Len(m) > at + Len(s)
  PROVE  LET p == Poke(m, at, Append(s, NUL))
         IN  /\ p \in Seq(Cell)
             /\ p # <<>>
             /\ at + Len(s) \in Nat
             /\ at + Len(s) < Len(p)
             /\ p[at + Len(s) + 1] = NUL
<1> DEFINE z == Append(s, NUL)
<1>1. /\ z \in Seq(Cell)
      /\ Len(s) \in Nat
      /\ Len(z) = Len(s) + 1
      /\ z[Len(s) + 1] = NUL
  BY AppendProperties, LenProperties DEF Cell
<1>2. /\ Poke(m, at, z) \in Seq(Cell)
      /\ Len(Poke(m, at, z)) = Len(m)
      /\ \A i \in 1 .. Len(z) : at + i <= Len(m) => Poke(m, at, z)[at + i] = z[i]
  BY <1>1, PokeType
<1>3. Len(m) \in Nat
  BY LenProperties
<1>4. Poke(m, at, z)[at + (Len(s) + 1)] = NUL
  <2>1. Len(s) + 1 \in 1 .. Len(z) /\ at + (Len(s) + 1) <= Len(m)
    BY <1>1, <1>3
  <2>. QED  BY <1>1, <1>2, <2>1
<1>5. at + (Len(s) + 1) = at + Len(s) + 1
  BY <1>1
<1>6. Poke(m, at, z) # <<>>
  BY <1>1, <1>2, <1>3, NonNull
<1> HIDE DEF z
<1>7. Poke(m, at, z) \in Seq(Cell) /\ at + Len(s) < Len(Poke(m, at, z))
  BY <1>2
<1>. QED  BY <1>1, <1>4, <1>5, <1>6, <1>7 DEF z

(* Replacing one well-formed block by another keeps the invariant.          *)
LEMMA OneBlock ==
  ASSUME Inv, NEW b \in Buffers, NEW m \in Seq(Cell), NEW n \in Nat,
         mem' = [mem EXCEPT ![b] = m], len' = [len EXCEPT ![b] = n],
         m = <<>> => n = 0,
         m # <<>> => n < Len(m),
         n > 0 => m[n + 1] = NUL
  PROVE  Inv'
BY DEF Inv, TypeOK, Terminated

(* A store by maybe_resize and memcpy keeps every block terminated.         *)
LEMMA PutInv ==
  ASSUME Inv, NEW b \in Buffers, NEW at \in Nat, NEW s \in Seq(Cell), Put(b, at, s)
  PROVE  Inv'
<1>1. mem[b] \in Seq(Cell)
  BY DEF Inv, TypeOK
<1> DEFINE m == Room(mem[b], at, s)
           p == Poke(m, at, Append(s, NUL))
<1>2. m \in Seq(Cell) /\ Len(m) > at + Len(s)
  BY <1>1, RoomType
<1> HIDE DEF m
<1>3. /\ p \in Seq(Cell)
      /\ p # <<>>
      /\ at + Len(s) \in Nat
      /\ at + Len(s) < Len(p)
      /\ p[at + Len(s) + 1] = NUL
  BY <1>2, StoreType
<1>4. mem' = [mem EXCEPT ![b] = p] /\ len' = [len EXCEPT ![b] = at + Len(s)]
  BY DEF Put, m
<1> HIDE DEF p
<1>. QED  BY <1>3, <1>4, OneBlock

(* Whatever (data, n) denotes is a sequence of cells.                       *)
LEMMA SourceType ==
  ASSUME NEW data \in Seq(Cell), NEW n \in Nat, n <= Len(data), NEW s \in Source(data, n)
  PROVE  s \in Seq(Cell)
<1>1. PICK k \in 0 .. Len(data) : s = SubSeq(data, 1, k)
  BY LenProperties DEF Source, CStrings
<1>. QED  BY <1>1, SubSeqProperties, LenProperties, EmptySeq

(* A caller's data: bytes in the caller's memory, with a terminator.        *)
LEMMA StoredType ==
  ASSUME NEW s \in Stored
  PROVE  /\ s \in Seq(Cell)
         /\ Append(s, NUL) \in Seq(Cell)
         /\ Len(Append(s, NUL)) = Len(s) + 1
         /\ Len(s) \in Nat
<1>1. PICK n \in 0 .. MaxLen : s \in [1 .. n -> Bytes \cup {NUL}]
  BY DEF Stored
<1>2. n \in Nat /\ s \in [1 .. n -> Cell]
  BY <1>1, BufferAssumption DEF Cell
<1>3. s \in Seq(Cell)
  BY <1>2, SeqDef
<1>4. NUL \in Cell
  BY DEF Cell
<1>. QED  BY <1>3, <1>4, AppendProperties, LenProperties

(* So does buffer_append, with whatever length it found.                    *)
LEMMA AppendInv ==
  ASSUME Inv, NEW b \in Buffers, NEW data \in Seq(Cell), NEW n \in Nat, n <= Len(data),
         BufferAppend(b, data, n) \/ BufferAssign(b, data, n)
  PROVE  Inv'
<1>1. len[b] \in Nat
  BY DEF Inv, TypeOK
<1>2. ASSUME NEW s \in Source(data, n), NEW at \in Nat, Put(b, at, s)  PROVE Inv'
  BY <1>2, SourceType, PutInv
<1>. QED  BY <1>1, <1>2 DEF BufferAppend, BufferAssign

(* The state of one buffer, by the invariant.                               *)
LEMMA BlockFacts ==
  ASSUME Inv, NEW b \in Buffers
  PROVE  /\ mem[b] \in Seq(Cell) /\ len[b] \in Nat /\ Len(mem[b]) \in Nat
         /\ mem[b] \in [1 .. Len(mem[b]) -> Cell]
         /\ mem[b] = <<>> => len[b] = 0 /\ Len(mem[b]) = 0
         /\ mem[b] # <<>> => len[b] < Len(mem[b])
         /\ len[b] > 0 => mem[b][len[b] + 1] = NUL /\ len[b] < Len(mem[b])
BY LenProperties, EmptySeq DEF Inv, TypeOK, Terminated

(* Writing NUL behind the first n cells makes them a terminated content.    *)
LEMMA TruncateInv ==
  ASSUME Inv, NEW b \in Buffers, NEW n \in Nat, n < Len(mem[b]),
         mem' = [mem EXCEPT ![b][n + 1] = NUL], len' = [len EXCEPT ![b] = n]
  PROVE  Inv'
<1> DEFINE m == [mem[b] EXCEPT ![n + 1] = NUL]
<1>1. mem' = [mem EXCEPT ![b] = m]
  OBVIOUS
<1>2. NUL \in Cell /\ n + 1 \in 1 .. Len(mem[b])
  BY BlockFacts DEF Cell
<1>3. m \in Seq(Cell) /\ Len(m) = Len(mem[b]) /\ m[n + 1] = NUL
  BY <1>2, BlockFacts, ExceptSeq
<1>4. m # <<>>
  BY <1>3, BlockFacts, NonNull
<1> HIDE DEF m
<1>. QED  BY <1>1, <1>3, <1>4, OneBlock

(* A larger block with the same cells is as well-formed as the old one.     *)
LEMMA GrowFacts ==
  ASSUME Inv, NEW b \in Buffers, NEW k \in Nat, k > 0
  PROVE  LET m == Resize(mem[b], Len(mem[b]) + k)
         IN  /\ m \in Seq(Cell) /\ m # <<>> /\ len[b] < Len(m)
             /\ Len(m) = Len(mem[b]) + k
             /\ len[b] > 0 => m[len[b] + 1] = NUL
<1> DEFINE m == Resize(mem[b], Len(mem[b]) + k)
<1>1. /\ m \in Seq(Cell)
      /\ Len(m) = Len(mem[b]) + k
      /\ \A i \in 1 .. (Len(mem[b]) + k) : i <= Len(mem[b]) => m[i] = mem[b][i]
  <2>1. mem[b] \in Seq(Cell) /\ Len(mem[b]) + k \in Nat
    BY BlockFacts
  <2>. QED  BY <2>1, ResizeType
<1>2. m # <<>>
  BY <1>1, BlockFacts, NonNull
<1> HIDE DEF m
<1>3. len[b] < Len(m)
  BY <1>1, BlockFacts
<1>4. len[b] > 0 => m[len[b] + 1] = NUL
  <2>1. len[b] > 0 => len[b] + 1 \in 1 .. (Len(mem[b]) + k) /\ len[b] + 1 <= Len(mem[b])
    BY BlockFacts
  <2>. QED  BY <1>1, <2>1, BlockFacts
<1>. QED  BY <1>1, <1>2, <1>3, <1>4 DEF m

(* So does dump_int, which makes room for itself.                           *)
LEMMA DumpIntInv ==
  ASSUME Inv, NEW b \in Buffers, NEW n \in 1 .. VarintMax, NEW s \in [1 .. n -> Bytes],
         DumpInt(b, s)
  PROVE  Inv'
<1> DEFINE m == IF Len(mem[b]) - len[b] < VarintRoom
                THEN Resize(mem[b], Len(mem[b]) + VarintRoom) ELSE mem[b]
<1>0. VarintRoom \in Nat /\ VarintRoom > 0 /\ n \in Nat /\ n < VarintRoom
  BY BufferAssumption
<1>1. s \in Seq(Cell) /\ Len(s) = n
  <2>1. s \in [1 .. n -> Cell]
    BY DEF Cell
  <2>2. s \in Seq(Cell)
    BY <2>1, <1>0, SeqDef
  <2>. QED  BY <2>1, <2>2, <1>0, LenProperties
<1>2. m \in Seq(Cell) /\ Len(m) > len[b] + Len(s)
  <2>1. CASE Len(mem[b]) - len[b] < VarintRoom
    <3>1. m = Resize(mem[b], Len(mem[b]) + VarintRoom)
      BY <2>1
    <3>2. len[b] <= Len(mem[b]) /\ len[b] \in Nat /\ Len(mem[b]) \in Nat
      BY BlockFacts
    <3>3. m \in Seq(Cell) /\ Len(m) = Len(mem[b]) + VarintRoom
      BY <3>1, <1>0, GrowFacts
    <3>. QED  BY <3>2, <3>3, <1>0, <1>1
  <2>2. CASE ~(Len(mem[b]) - len[b] < VarintRoom)
    BY <2>2, <1>0, <1>1, BlockFacts
  <2>. QED  BY <2>1, <2>2
<1> DEFINE p == Poke(m, len[b], Append(s, NUL))
<1>3. mem' = [mem EXCEPT ![b] = p] /\ len' = [len EXCEPT ![b] = len[b] + Len(s)]
  BY <1>2 DEF DumpInt
<1> HIDE DEF m
<1>4. /\ p \in Seq(Cell)
      /\ p # <<>>
      /\ len[b] + Len(s) \in Nat
      /\ len[b] + Len(s) < Len(p)
      /\ p[len[b] + Len(s) + 1] = NUL
  BY <1>1, <1>2, BlockFacts, StoreType
<1> HIDE DEF p
<1>. QED  BY <1>3, <1>4, OneBlock

(* Every operation of the buffer keeps the invariant.                       *)
LEMMA StepInv == Inv /\ [Next]_vars => Inv'
<1> SUFFICES ASSUME Inv, [Next]_vars PROVE Inv'
  OBVIOUS
<1>1. CASE UNCHANGED vars
  BY <1>1 DEF vars, Inv, TypeOK, Terminated
<1>2. ASSUME NEW b \in Buffers, NEW s \in Stored, NEW n \in 0 .. MaxLen, n <= Len(s),
             BufferAppend(b, Append(s, NUL), n) \/ BufferAssign(b, Append(s, NUL), n)
      PROVE  Inv'
  <2>1. n \in Nat /\ n <= Len(Append(s, NUL))
    BY <1>2, StoredType
  <2>. QED  BY <1>2, <2>1, StoredType, AppendInv
<1>3. ASSUME NEW b \in Buffers, NEW ch \in Bytes \cup {NUL}, BufferPush(b, ch)
      PROVE  Inv'
  <2>1. <<ch>> \in Seq(Cell)
    BY DEF Cell
  <2>. QED  BY <1>3, <2>1, BlockFacts, PutInv DEF BufferPush
<1>4. ASSUME NEW dst \in Buffers, NEW src \in Buffers, AppendBuffer(dst, src)
      PROVE  Inv'
  <2>1. mem[src] \in Seq(Cell) /\ len[src] \in Nat /\ len[src] <= Len(mem[src])
    BY BlockFacts
  <2>. QED  BY <1>4, <2>1, AppendInv DEF AppendBuffer
<1>5. ASSUME NEW dst \in Buffers, NEW src \in Buffers, BufferMove(dst, src)
      PROVE  Inv'
  <2>1. <<>> \in Seq(Cell) /\ 0 \in Nat
    BY EmptySeq
  <2>2. TypeOK'
    BY <1>5, <2>1 DEF BufferMove, Inv, TypeOK
  <2>3. ASSUME NEW b \in Buffers
        PROVE  \/ mem'[b] = mem[b] /\ len'[b] = len[b]
               \/ mem'[b] = mem[src] /\ len'[b] = len[src]
               \/ mem'[b] = <<>> /\ len'[b] = 0
    BY <1>5 DEF BufferMove, Inv, TypeOK
  <2>4. Terminated'
    BY <2>3 DEF Inv, Terminated
  <2>. QED  BY <2>2, <2>4 DEF Inv
<1>6. ASSUME NEW b \in Buffers, BufferPop(b)  PROVE Inv'
  <2> DEFINE n == len[b] - 1
  <2>1. n \in Nat /\ n < Len(mem[b]) /\ n + 1 = len[b]
    BY <1>6, BlockFacts DEF BufferPop
  <2>2. mem' = [mem EXCEPT ![b][n + 1] = NUL] /\ len' = [len EXCEPT ![b] = n]
    BY <1>6, <2>1 DEF BufferPop
  <2> HIDE DEF n
  <2>. QED  BY <2>1, <2>2, TruncateInv
<1>7. ASSUME NEW b \in Buffers, BufferFree(b)  PROVE Inv'
  <2>1. <<>> \in Seq(Cell) /\ 0 \in Nat /\ ~(0 > 0)
    BY EmptySeq
  <2>. QED  BY <1>7, <2>1, OneBlock DEF BufferFree
<1>8. ASSUME NEW b \in Buffers, NEW n \in 0 .. MaxLen, BufferSetLength(b, n)
      PROVE  Inv'
  <2>1. n \in Nat /\ Len(mem[b]) > n /\ n < Len(mem[b])
    BY <1>8, BlockFacts, BufferAssumption DEF BufferSetLength
  <2>. QED  BY <1>8, <2>1, TruncateInv DEF BufferSetLength
<1>9. ASSUME NEW b \in Buffers, NEW n \in 1 .. VarintRoom, AddCapacity(b, n)
      PROVE  Inv'
  <2> DEFINE m == Resize(mem[b], Len(mem[b]) + n)
  <2>1. mem' = [mem EXCEPT ![b] = m] /\ len' = [len EXCEPT ![b] = len[b]]
    BY <1>9, BlockFacts DEF AddCapacity, Inv, TypeOK
  <2>2. /\ m \in Seq(Cell) /\ m # <<>> /\ len[b] < Len(m)
        /\ len[b] > 0 => m[len[b] + 1] = NUL
    BY GrowFacts
  <2> HIDE DEF m
  <2>. QED  BY <2>1, <2>2, BlockFacts, OneBlock
<1>10. ASSUME NEW b \in Buffers, NEW n \in 1 .. VarintMax, NEW s \in [1 .. n -> Bytes],
              DumpInt(b, s)
       PROVE  Inv'
  BY <1>10, DumpIntInv
<1>. QED
  BY <1>1, <1>2, <1>3, <1>4, <1>5, <1>6, <1>7, <1>8, <1>9, <1>10 DEF Next

(* Every reachable state has well-typed blocks whose terminator is inside
   the capacity: no sequence of appends, assignments, pushes, pops,
   truncations, growths, moves and integer dumps stores out of bounds.      *)
THEOREM BufferSafe == Spec => [](TypeOK /\ Terminated)
<1>1. Init => Inv
  BY EmptySeq DEF Init, Inv, TypeOK, Terminated
<1>2. QED  BY <1>1, StepInv, PTL DEF Spec, Inv

(* The blocks and the lengths have their types in every reachable state.    *)
THEOREM BufferTyped == Spec => []TypeOK
<1>1. Inv => TypeOK
  BY DEF Inv
<1>. QED  BY <1>1, BufferSafe, PTL

-----------------------------------------------------------------------------
(* What a store adds to the content.                                        *)

(* memcpy leaves the cells before its offset alone.                         *)
LEMMA PokeKeeps ==
  ASSUME NEW m \in Seq(Cell), NEW at \in Nat, NEW s \in Seq(Cell)
  PROVE  \A i \in 1 .. at : i <= Len(m) => Poke(m, at, s)[i] = m[i]
<1>0. Len(m) \in Nat
  BY LenProperties
<1>. QED  BY <1>0 DEF Poke

(* Making room moves no cell: a reallocated block keeps what it held.       *)
LEMMA RoomKeeps ==
  ASSUME NEW m \in Seq(Cell), NEW at \in Nat, NEW s \in Seq(Cell),
         NEW i \in 1 .. Len(m)
  PROVE  Room(m, at, s)[i] = m[i]
<1>0. Len(m) \in Nat /\ Len(s) \in Nat /\ RESERVED_SIZE \in Nat
  BY LenProperties, BufferAssumption
<1>1. m # <<>>
  BY <1>0, NonNull
<1>2. Room(m, at, s) = IF Len(m) > at + Len(s) THEN m
                       ELSE Resize(m, at + Len(s) + RESERVED_SIZE)
  BY <1>1 DEF Room
<1>3. CASE Len(m) > at + Len(s)
  BY <1>2, <1>3
<1>4. CASE ~(Len(m) > at + Len(s))
  <2>1. at + Len(s) + RESERVED_SIZE \in Nat /\ i \in 1 .. (at + Len(s) + RESERVED_SIZE)
    BY <1>0, <1>4
  <2>2. Resize(m, at + Len(s) + RESERVED_SIZE)[i] = m[i]
    BY <1>0, <2>1, ResizeType
  <2>. QED  BY <1>2, <1>4, <2>2
<1>. QED  BY <1>3, <1>4

(* A block that keeps the first at cells of another and holds s behind them
   has its content extended by s.                                           *)
LEMMA Extended ==
  ASSUME NEW m \in Seq(Cell), NEW r \in Seq(Cell), NEW s \in Seq(Cell), NEW at \in Nat,
         at <= Len(m), at + Len(s) <= Len(r),
         \A i \in 1 .. at : r[i] = m[i],
         \A i \in 1 .. Len(s) : r[at + i] = s[i]
  PROVE  SubSeq(r, 1, at + Len(s)) = SubSeq(m, 1, at) \o s
<1>0. /\ Len(m) \in Nat /\ Len(s) \in Nat /\ Len(r) \in Nat /\ at + Len(s) \in Nat
      /\ m \in [1 .. Len(m) -> Cell] /\ r \in [1 .. Len(r) -> Cell]
  BY LenProperties
<1> DEFINE u == SubSeq(r, 1, at + Len(s))
           v == SubSeq(m, 1, at)
<1>1. /\ u \in Seq(Cell)
      /\ Len(u) = at + Len(s)
      /\ \A i \in 1 .. (at + Len(s)) : u[i] = r[i]
  <2>1. \A i \in 1 .. (at + Len(s)) : r[i] \in Cell
    BY <1>0
  <2>2. /\ u \in Seq(Cell)
        /\ Len(u) = IF 1 <= at + Len(s) THEN at + Len(s) - 1 + 1 ELSE 0
        /\ \A i \in 1 .. (at + Len(s) - 1 + 1) : u[i] = r[1 + i - 1]
    BY <1>0, <2>1, SubSeqProperties
  <2> HIDE DEF u
  <2>. QED  BY <1>0, <2>2
<1>2. /\ v \in Seq(Cell)
      /\ Len(v) = at
      /\ \A i \in 1 .. at : v[i] = m[i]
  <2>1. \A i \in 1 .. at : m[i] \in Cell
    BY <1>0
  <2>2. /\ v \in Seq(Cell)
        /\ Len(v) = IF 1 <= at THEN at - 1 + 1 ELSE 0
        /\ \A i \in 1 .. (at - 1 + 1) : v[i] = m[1 + i - 1]
    BY <2>1, SubSeqProperties
  <2> HIDE DEF v
  <2>. QED  BY <2>2
<1> HIDE DEF u, v
<1>3. /\ v \o s \in Seq(Cell)
      /\ Len(v \o s) = at + Len(s)
      /\ \A i \in 1 .. at + Len(s) :
           (v \o s)[i] = IF i <= at THEN v[i] ELSE s[i - at]
  BY <1>2, ConcatProperties, ZenonT(60)
<1>4. ASSUME NEW i \in 1 .. Len(u)  PROVE u[i] = (v \o s)[i]
  <2>1. u[i] = r[i] /\ i \in 1 .. at + Len(s)
    BY <1>1
  <2>2. CASE i <= at
    BY <1>0, <1>2, <1>3, <2>1, <2>2
  <2>3. CASE ~(i <= at)
    <3>1. i - at \in 1 .. Len(s) /\ at + (i - at) = i
      BY <1>0, <2>1, <2>3
    <3>2. r[i] = s[i - at]
      BY <3>1
    <3>. QED  BY <1>3, <2>1, <2>3, <3>2
  <2>. QED  BY <2>2, <2>3
<1>. QED  BY <1>1, <1>3, <1>4, SeqEqual DEF u, v

(* The same for a store of s and its terminator into a block with room.     *)
LEMMA StoreExtends ==
  ASSUME NEW m \in Seq(Cell), NEW q \in Seq(Cell), NEW at \in Nat, NEW s \in Seq(Cell),
         at <= Len(m), Len(q) > at + Len(s),
         \A i \in 1 .. at : q[i] = m[i]
  PROVE  SubSeq(Poke(q, at, Append(s, NUL)), 1, at + Len(s)) = SubSeq(m, 1, at) \o s
<1> DEFINE z == Append(s, NUL)
           p == Poke(q, at, z)
<1>1. /\ z \in Seq(Cell)
      /\ Len(s) \in Nat
      /\ Len(z) = Len(s) + 1
      /\ \A i \in 1 .. Len(s) : z[i] = s[i]
  BY AppendProperties, LenProperties DEF Cell
<1>2. Len(q) \in Nat
  BY LenProperties
<1> HIDE DEF z
<1>3. /\ p \in Seq(Cell)
      /\ Len(p) = Len(q)
      /\ \A i \in 1 .. Len(z) : at + i <= Len(q) => p[at + i] = z[i]
  BY <1>1, PokeType
<1>4. \A i \in 1 .. at : i <= Len(q) => p[i] = q[i]
  BY <1>1, PokeKeeps
<1> HIDE DEF p
<1>5. \A i \in 1 .. at : p[i] = m[i]
  BY <1>1, <1>2, <1>4
<1>6. \A i \in 1 .. Len(s) : p[at + i] = s[i]
  BY <1>1, <1>2, <1>3
<1>7. at + Len(s) <= Len(p)
  BY <1>1, <1>2, <1>3
<1>8. SubSeq(p, 1, at + Len(s)) = SubSeq(m, 1, at) \o s
  BY <1>3, <1>5, <1>6, <1>7, Extended, ZenonT(60)
<1>. QED  BY <1>8 DEF p, z

(* Putting s behind the content of a buffer appends s to its content.       *)
LEMMA PutExact ==
  ASSUME Inv, NEW b \in Buffers, NEW s \in Seq(Cell), Put(b, len[b], s)
  PROVE  Content(b)' = Content(b) \o s
<1>1. mem[b] \in Seq(Cell) /\ len[b] \in Nat /\ len[b] <= Len(mem[b]) /\ Len(mem[b]) \in Nat
  BY BlockFacts
<1> DEFINE q == Room(mem[b], len[b], s)
<1>2. q \in Seq(Cell) /\ Len(q) > len[b] + Len(s)
  BY <1>1, RoomType
<1>3. \A i \in 1 .. len[b] : q[i] = mem[b][i]
  BY <1>1, RoomKeeps
<1>4. mem'[b] = Poke(q, len[b], Append(s, NUL)) /\ len'[b] = len[b] + Len(s)
  BY DEF Put, Inv, TypeOK
<1> HIDE DEF q
<1>5. SubSeq(Poke(q, len[b], Append(s, NUL)), 1, len[b] + Len(s))
        = SubSeq(mem[b], 1, len[b]) \o s
  BY <1>1, <1>2, <1>3, StoreExtends
<1>. QED  BY <1>4, <1>5 DEF Content

(* A terminated content is what its source denotes, the empty one, which is
   passed as "use strlen", included.                                        *)
LEMMA WrittenSource ==
  ASSUME Inv, NEW src \in Buffers, Written(src), NEW s \in Source(mem[src], len[src])
  PROVE  s = Content(src)
<1>1. CASE len[src] # 0
  BY <1>1 DEF Source, Content
<1>2. CASE len[src] = 0
  <2>1. PICK k \in 0 .. Len(mem[src]) :
          /\ NUL \notin {mem[src][i] : i \in 1 .. k}
          /\ s = SubSeq(mem[src], 1, k)
    BY <1>2 DEF Source, CStrings
  <2>2. mem[src][1] = NUL
    BY <1>2 DEF Written
  <2>3. k = 0
    <3>1. k >= 1 => 1 \in 1 .. k
      BY BlockFacts
    <3>. QED  BY <2>1, <2>2, <3>1, BlockFacts
  <2>. QED  BY <1>2, <2>1, <2>3 DEF Content
<1>. QED  BY <1>1, <1>2

(* The bytes of an integer are a sequence of cells.                         *)
LEMMA IntBytes ==
  ASSUME NEW n \in 1 .. VarintMax, NEW s \in [1 .. n -> Bytes]
  PROVE  s \in Seq(Cell) /\ Len(s) = n /\ n \in Nat /\ n < VarintRoom
<1>1. n \in Nat /\ n < VarintRoom
  BY BufferAssumption
<1>2. s \in [1 .. n -> Cell]
  BY DEF Cell
<1>3. s \in Seq(Cell)
  BY <1>1, <1>2, SeqDef
<1>. QED  BY <1>1, <1>2, <1>3, LenProperties

(* dump_int appends the bytes it stored.                                    *)
LEMMA DumpIntAppends ==
  ASSUME Inv, NEW b \in Buffers, NEW n \in 1 .. VarintMax, NEW s \in [1 .. n -> Bytes],
         DumpInt(b, s)
  PROVE  Content(b)' = Content(b) \o s
<1> DEFINE q == IF Len(mem[b]) - len[b] < VarintRoom
                THEN Resize(mem[b], Len(mem[b]) + VarintRoom) ELSE mem[b]
<1>0. VarintRoom \in Nat /\ VarintRoom > 0
  BY BufferAssumption
<1>1. mem[b] \in Seq(Cell) /\ len[b] \in Nat /\ len[b] <= Len(mem[b]) /\ Len(mem[b]) \in Nat
  BY BlockFacts
<1>2. s \in Seq(Cell) /\ Len(s) = n /\ n \in Nat /\ n < VarintRoom
  BY IntBytes
<1>3. /\ q \in Seq(Cell) /\ Len(q) > len[b] + Len(s)
      /\ \A i \in 1 .. len[b] : q[i] = mem[b][i]
  <2>1. CASE Len(mem[b]) - len[b] < VarintRoom
    <3>1. q = Resize(mem[b], Len(mem[b]) + VarintRoom)
      BY <2>1
    <3>2. Len(mem[b]) + VarintRoom \in Nat
      BY <1>0, <1>1
    <3>3. /\ q \in Seq(Cell) /\ Len(q) = Len(mem[b]) + VarintRoom
          /\ \A i \in 1 .. (Len(mem[b]) + VarintRoom) : i <= Len(mem[b]) => q[i] = mem[b][i]
      BY <1>1, <3>1, <3>2, ResizeType
    <3> HIDE DEF q
    <3>4. Len(q) > len[b] + Len(s)
      BY ONLY <1>0, <1>1, <1>2, <3>3
    <3>5. ASSUME NEW i \in 1 .. len[b]
          PROVE  q[i] = mem[b][i]
      <4>1. i \in 1 .. (Len(mem[b]) + VarintRoom) /\ i <= Len(mem[b])
        BY ONLY <1>0, <1>1, i \in 1 .. len[b]
      <4>. QED  BY ONLY <4>1, <3>3
    <3>. QED  BY ONLY <3>3, <3>4, <3>5
  <2>2. CASE ~(Len(mem[b]) - len[b] < VarintRoom)
    BY <2>2, <1>0, <1>1, <1>2
  <2>. QED  BY <2>1, <2>2
<1>4. mem'[b] = Poke(q, len[b], Append(s, NUL)) /\ len'[b] = len[b] + Len(s)
  BY <1>3 DEF DumpInt, Inv, TypeOK
<1> HIDE DEF q
<1>5. SubSeq(Poke(q, len[b], Append(s, NUL)), 1, len[b] + Len(s))
        = SubSeq(mem[b], 1, len[b]) \o s
  BY <1>1, <1>2, <1>3, StoreExtends, ZenonT(60)
<1>. QED  BY <1>4, <1>5 DEF Content

(* In every behaviour, buffer_append_buffer appends exactly the content of
   its source, the empty one included, and moves nothing else into it.      *)
THEOREM AppendBufferIsExact == Spec => AppendBufferExact
<1> DEFINE Exact == \A dst, src \in Buffers :
       (AppendBuffer(dst, src) /\ Written(src))
         => Content(dst)' = Content(dst) \o Content(src)
<1>1. Inv => Exact
  <2> SUFFICES ASSUME Inv, NEW dst \in Buffers, NEW src \in Buffers,
                      AppendBuffer(dst, src), Written(src)
               PROVE  Content(dst)' = Content(dst) \o Content(src)
    OBVIOUS
  <2>1. PICK s \in Source(mem[src], len[src]) : Put(dst, len[dst], s)
    BY DEF AppendBuffer, BufferAppend
  <2>2. s \in Seq(Cell)
    BY <2>1, BlockFacts, SourceType
  <2>3. s = Content(src)
    BY <2>1, WrittenSource
  <2>. QED  BY <2>1, <2>2, <2>3, PutExact
<1>2. Inv <=> TypeOK /\ Terminated
  BY DEF Inv
<1>3. AppendBufferExact <=> [][Exact]_vars
  BY DEF AppendBufferExact
<1> HIDE DEF Exact
<1>. QED  BY <1>1, <1>2, <1>3, BufferSafe, PTL

(* In every behaviour, dump_int leaves its bytes behind the content: the
   buffer_set_length call whose result nobody tests never fails.            *)
THEOREM DumpIntIsExact == Spec => DumpIntExact
<1> DEFINE Exact == \A b \in Buffers, n \in 1 .. VarintMax : \A s \in [1 .. n -> Bytes] :
       DumpInt(b, s) => Content(b)' = Content(b) \o s
<1>1. Inv => Exact
  BY DumpIntAppends
<1>2. Inv <=> TypeOK /\ Terminated
  BY DEF Inv
<1>3. DumpIntExact <=> [][Exact]_vars
  BY DEF DumpIntExact
<1> HIDE DEF Exact
<1>. QED  BY <1>1, <1>2, <1>3, BufferSafe, PTL
=============================================================================
