----------------------------- MODULE OffsetPool -----------------------------
(***************************************************************************)
(* The table of box offsets kept while boxes are read                      *)
(* (src/source/tinybuf_read_box.c): a global array of entries              *)
(* [offset, value, complete], shared by every thread that reads and        *)
(* guarded by a test-and-set spin lock.  A reader registers the offset of  *)
(* a box before it parses it and marks the entry complete when the parse   *)
(* succeeded; boxes nest, so one thread has a stack of reads in progress.  *)
(***************************************************************************)
EXTENDS Naturals, Sequences

CONSTANTS
  Threads,     (* the threads that read boxes                               *)
  Offsets,     (* box offsets                                               *)
  Values,      (* the tinybuf_value objects read into                       *)
  InitialCapacity, (* first allocation of the array (16)                    *)
  MaxNest      (* bound: boxes nested in one another                        *)

ASSUME OffsetPoolAssumption ==
  /\ InitialCapacity \in Nat \ {0}
  /\ MaxNest \in Nat

VARIABLES
  locked,      (* the atomic flag s_pool_lock_var                           *)
  pool,        (* s_pool[0 .. s_pool_count - 1]                             *)
  capacity,    (* s_pool_capacity                                           *)
  reads,       (* reads[t]: the boxes t is reading, innermost last          *)
  pc,          (* pc[t]: where t is in pool_register or pool_mark_complete  *)
  call,        (* call[t]: which of the two                                 *)
  hit          (* hit[t]: what its scan found, 0 for nothing                *)

vars == <<locked, pool, capacity, reads, pc, call, hit>>

Entry == [offset : Offsets, value : Values, complete : BOOLEAN]
Box == [offset : Offsets, value : Values]
Pc == {"parse", "spin", "scan", "update", "unlock"}

Inner(t) == reads[t][Len(reads[t])]

Init == /\ locked = FALSE
        /\ pool = <<>>
        /\ capacity = 0
        /\ reads = [t \in Threads |-> <<>>]
        /\ pc = [t \in Threads |-> "parse"]
        /\ call = [t \in Threads |-> "register"]
        /\ hit = [t \in Threads |-> 0]

Goto(t, from, to) == pc[t] = from /\ pc' = [pc EXCEPT ![t] = to]

-----------------------------------------------------------------------------
(* try_read_box, as far as it touches the table.                           *)

(* Mutant of BeginBox: pool_reset, which no code calls, is called by a reader
   that starts at top level.                                                *)
BeginBoxResets(t, o, v) ==
  /\ Goto(t, "parse", "spin")
  /\ Len(reads[t]) < MaxNest
  /\ reads' = [reads EXCEPT ![t] = Append(@, [offset |-> o, value |-> v])]
  /\ call' = [call EXCEPT ![t] = "register"]
  /\ pool' = IF reads[t] = <<>> THEN <<>> ELSE pool
  /\ UNCHANGED <<locked, capacity, hit>>

(* A box starts at offset o, at top level or inside the innermost one.      *)
BeginBox(t, o, v) ==
  /\ Goto(t, "parse", "spin")
  /\ Len(reads[t]) < MaxNest
  /\ reads' = [reads EXCEPT ![t] = Append(@, [offset |-> o, value |-> v])]
  /\ call' = [call EXCEPT ![t] = "register"]
  /\ UNCHANGED <<locked, pool, capacity, hit>>

(* The parse consumed the box: pool_mark_complete(box_offset).              *)
EndBox(t) ==
  /\ Goto(t, "parse", "spin")
  /\ reads[t] # <<>>
  /\ call' = [call EXCEPT ![t] = "complete"]
  /\ UNCHANGED <<locked, pool, capacity, reads, hit>>

(* The parse failed: the entry stays as it is.                              *)
FailBox(t) ==
  /\ Goto(t, "parse", "parse")
  /\ reads[t] # <<>>
  /\ reads' = [reads EXCEPT ![t] = SubSeq(@, 1, Len(@) - 1)]
  /\ UNCHANGED <<locked, pool, capacity, call, hit>>

(* Mutant of Acquire: the flag is set without a test.                       *)
AcquireUntested(t) ==
  /\ Goto(t, "spin", "scan")
  /\ locked' = TRUE
  /\ UNCHANGED <<pool, capacity, reads, call, hit>>

(* pool_lock: the test-and-set that succeeds.  One that fails changes
   nothing but the length of the next pause.                                *)
Acquire(t) ==
  /\ Goto(t, "spin", "scan")
  /\ ~locked
  /\ locked' = TRUE
  /\ UNCHANGED <<pool, capacity, reads, call, hit>>

Matching(o) == {i \in 1 .. Len(pool) : pool[i].offset = o}

(* Mutant of First: nothing found is -1.                                    *)
FirstOrMinusOne(o) ==
  IF Matching(o) = {} THEN 0 - 1
  ELSE CHOOSE i \in Matching(o) : \A j \in Matching(o) : i <= j

(* The index of the first entry for offset o, 0 when there is none.         *)
First(o) ==
  IF Matching(o) = {} THEN 0
  ELSE CHOOSE i \in Matching(o) : \A j \in Matching(o) : i <= j

Scan(t) ==
  /\ Goto(t, "scan", "update")
  /\ hit' = [hit EXCEPT ![t] = First(Inner(t).offset)]
  /\ UNCHANGED <<locked, pool, capacity, reads, call>>

(* Mutants of Register: the array grows one entry late; an entry that exists
   starts over.                                                             *)
RegisterGrowsLate(t) ==
  /\ call[t] = "register"
  /\ Goto(t, "update", "unlock")
  /\ IF hit[t] # 0
     THEN pool' = [pool EXCEPT ![hit[t]].value = Inner(t).value] /\ UNCHANGED capacity
     ELSE /\ pool' = Append(pool, [offset |-> Inner(t).offset,
                                   value |-> Inner(t).value, complete |-> FALSE])
          /\ capacity' = IF Len(pool) <= capacity THEN capacity ELSE 2 * capacity
  /\ UNCHANGED <<locked, reads, call, hit>>
RegisterStartsOver(t) ==
  /\ call[t] = "register"
  /\ Goto(t, "update", "unlock")
  /\ LET e == [offset |-> Inner(t).offset, value |-> Inner(t).value, complete |-> FALSE]
     IN  pool' = IF hit[t] # 0 THEN [pool EXCEPT ![hit[t]] = e] ELSE Append(pool, e)
  /\ UNCHANGED <<locked, capacity, reads, call, hit>>

(* pool_register: an entry that exists gets the new value and keeps its
   complete flag; otherwise one is appended, in a doubled array if full.    *)
Register(t) ==
  /\ call[t] = "register"
  /\ Goto(t, "update", "unlock")
  /\ \/ /\ hit[t] # 0
        /\ pool' = [pool EXCEPT ![hit[t]].value = Inner(t).value]
        /\ UNCHANGED capacity
     \/ /\ hit[t] = 0
        /\ pool' = Append(pool, [offset |-> Inner(t).offset,
                                 value |-> Inner(t).value,
                                 complete |-> FALSE])
        /\ capacity' = IF Len(pool) # capacity THEN capacity
                       ELSE IF capacity = 0 THEN InitialCapacity
                       ELSE 2 * capacity
  /\ UNCHANGED <<locked, reads, call, hit>>

MarkComplete(t) ==
  /\ call[t] = "complete"
  /\ Goto(t, "update", "unlock")
  /\ pool' = IF hit[t] = 0 THEN pool ELSE [pool EXCEPT ![hit[t]].complete = TRUE]
  /\ UNCHANGED <<locked, capacity, reads, call, hit>>

(* Mutant of Unlock: pool_register returns an entry it found with the lock
   held.                                                                    *)
UnlockForgotten(t) ==
  /\ Goto(t, "unlock", "parse")
  /\ locked' = (call[t] = "register" /\ hit[t] # 0)
  /\ reads' = IF call[t] = "complete"
              THEN [reads EXCEPT ![t] = SubSeq(@, 1, Len(@) - 1)]
              ELSE reads
  /\ UNCHANGED <<pool, capacity, call, hit>>

(* pool_unlock, and the return to the parser: a completed box is left.      *)
Unlock(t) ==
  /\ Goto(t, "unlock", "parse")
  /\ locked' = FALSE
  /\ reads' = IF call[t] = "complete"
              THEN [reads EXCEPT ![t] = SubSeq(@, 1, Len(@) - 1)]
              ELSE reads
  /\ UNCHANGED <<pool, capacity, call, hit>>

LockStep(t) == Acquire(t) \/ Scan(t) \/ Register(t) \/ MarkComplete(t) \/ Unlock(t)

Next ==
  \E t \in Threads :
    \/ \E o \in Offsets, v \in Values : BeginBox(t, o, v)
    \/ EndBox(t)
    \/ FailBox(t)
    \/ LockStep(t)

Spec == Init /\ [][Next]_vars

(* Every thread inside pool_lock or holding the lock keeps running; nothing
   makes a parser start or finish a box.                                    *)
FairSpec == Spec /\ \A t \in Threads : WF_vars(LockStep(t))

-----------------------------------------------------------------------------
(* Properties.                                                             *)

(* The flag, the array and the per-thread program counters and stacks have
   the shape their declarations give them.                                  *)
TypeOK ==
  /\ locked \in BOOLEAN
  /\ pool \in Seq(Entry)
  /\ capacity \in Nat
  /\ reads \in [Threads -> Seq(Box)]
  /\ pc \in [Threads -> Pc]
  /\ call \in [Threads -> {"register", "complete"}]
  /\ hit \in [Threads -> Nat]

Critical == {"scan", "update", "unlock"}

(* Two threads are never both between pool_lock and pool_unlock.            *)
MutualExclusion ==
  \A t, u \in Threads : pc[t] \in Critical /\ pc[u] \in Critical => t = u

OneEntryPerOffset ==
  \A i, j \in 1 .. Len(pool) : pool[i].offset = pool[j].offset => i = j

WithinCapacity == Len(pool) <= capacity

(* No offset ever has two entries, although the search for an entry and the
   store that depends on its outcome are separate accesses to the array and
   threads register and complete the same offset at the same time; and the
   array never holds more entries than were allocated for it.               *)
TableSound == OneEntryPerOffset /\ WithinCapacity

(* The reads of t whose pool_register call has returned.                    *)
Registered(t) ==
  {i \in 1 .. Len(reads[t]) :
     i = Len(reads[t]) /\ call[t] = "register" => pc[t] \notin {"spin", "scan", "update"}}

ReadHasEntry ==
  \A t \in Threads : \A i \in Registered(t) :
    \E e \in 1 .. Len(pool) : pool[e].offset = reads[t][i].offset

UpdateVisible ==
  \A t \in Threads : pc[t] = "unlock" =>
    \E e \in 1 .. Len(pool) :
      /\ pool[e].offset = Inner(t).offset
      /\ IF call[t] = "register" THEN pool[e].value = Inner(t).value
                                 ELSE pool[e].complete

(* Whatever else is registered meanwhile and however often the array moves, a
   box that is being read has an entry, so that pool_mark_complete finds it.
   When pool_register or pool_mark_complete has done its update and has not
   returned, that entry shows it: no other thread's update replaced it.      *)
EntriesKept == ReadHasEntry /\ UpdateVisible

(* The table an observer sees: the entry the search finds for each offset.  *)
EntryOf(o) == pool[First(o)]
Map == [o \in {pool[i].offset : i \in 1 .. Len(pool)} |->
          [value |-> EntryOf(o).value, complete |-> EntryOf(o).complete]]

Abstract == INSTANCE OffsetMap WITH map <- Map

(* With all its locking, searching and reallocation the array behaves as a
   map from offsets to entries that is updated one operation at a time: no
   registration is lost or doubled, and no completion is undone.            *)
ImplementsOffsetMap == Abstract!Spec

(* The lock is deadlock free: while some thread wants it, some thread gets
   in (a single thread may starve: the flag is not fair), and whoever has it
   gives it back.                                                           *)
LockProgress ==
  /\ (\E t \in Threads : pc[t] = "spin") ~> (\E t \in Threads : pc[t] = "scan")
  /\ locked ~> ~locked
=============================================================================
