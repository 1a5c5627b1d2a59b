-------------------------- MODULE OffsetPoolProofs --------------------------
(***************************************************************************)
(* For every set of threads, offsets and values, every first allocation    *)
(* and every nesting: the spin lock excludes, the array holds one entry    *)
(* per offset within its allocation, and reading, searching and growing it *)
(* under the lock implements the atomic map of OffsetMap.                  *)
(***************************************************************************)
EXTENDS OffsetPool, SequenceTheorems, TLAPS

(* The flag is set exactly while some thread is between lock and unlock.    *)
LockHeld == locked <=> \E t \in Threads : pc[t] \in Critical

(* What a scan found is still so when the update that relies on it comes.   *)
ScanCurrent ==
  \A t \in Threads : pc[t] = "update" => hit[t] = First(Inner(t).offset)

(* Only a thread that is reading a box calls the table.                     *)
Reading == \A t \in Threads : pc[t] # "parse" => reads[t] # <<>>

LockInv == LockHeld /\ MutualExclusion

TableInv == OneEntryPerOffset /\ WithinCapacity

CallInv == ScanCurrent /\ Reading /\ ReadHasEntry /\ UpdateVisible

IInv == TypeOK /\ LockInv /\ TableInv /\ CallInv

-----------------------------------------------------------------------------
(* Lemmas on the data.                                                     *)

(* A prefix of a table holds what the table holds as far as it goes.        *)
LEMMA PrefixFacts ==
  ASSUME NEW S, NEW s \in Seq(S), NEW k \in 0 .. Len(s)
  PROVE  /\ SubSeq(s, 1, k) \in Seq(S)
         /\ Len(SubSeq(s, 1, k)) = k
         /\ \A i \in 1 .. k : SubSeq(s, 1, k)[i] = s[i]
<1>1. SubSeq(s, 1, k) \in Seq(S)
  BY SubSeqProperties, LenProperties
<1>2. Len(SubSeq(s, 1, k)) = k
  BY SubSeqProperties, LenProperties
<1>3. \A i \in 1 .. k : SubSeq(s, 1, k)[i] = s[i]
  BY SubSeqProperties, LenProperties
<1>. QED  BY <1>1, <1>2, <1>3

(* The innermost box of a thread that reads one.                            *)
LEMMA InnerType ==
  ASSUME TypeOK, NEW t \in Threads, reads[t] # <<>>
  PROVE  /\ Len(reads[t]) \in 1 .. Len(reads[t])
         /\ Inner(t) \in Box
         /\ Inner(t).offset \in Offsets
         /\ Inner(t).value \in Values
<1>1. reads[t] \in Seq(Box)
  BY DEF TypeOK
<1>2. Len(reads[t]) \in Nat /\ Len(reads[t]) # 0
  BY <1>1, LenProperties, EmptySeq
<1>3. Inner(t) \in Box
  BY <1>1, <1>2 DEF Inner
<1>. QED  BY <1>2, <1>3 DEF Box

(* With one entry per offset the search is exact: 0 when the offset is
   absent, otherwise the index of its only entry.                           *)
LEMMA FirstExact ==
  ASSUME TypeOK, OneEntryPerOffset, NEW o
  PROVE  /\ Matching(o) = {} => First(o) = 0
         /\ \A i \in Matching(o) : First(o) = i
         /\ First(o) # 0 => First(o) \in Matching(o)
<1>1. Matching(o) = {} => First(o) = 0
  BY DEF First
<1>2. Matching(o) \subseteq Nat \ {0}
  BY LenProperties DEF TypeOK, Matching
<1>3. ASSUME NEW i \in Matching(o)  PROVE First(o) = i
  <2>1. \A j \in Matching(o) : j = i
    BY <1>3 DEF Matching, OneEntryPerOffset
  <2>2. i <= i
    BY <1>2, <1>3
  <2>. QED  BY <1>3, <2>1, <2>2 DEF First
<1>. QED  BY <1>1, <1>3

(* What registration and completion do to the array.                        *)
LEMMA UpdateEntry ==
  ASSUME pool \in Seq(Entry), NEW h \in 1 .. Len(pool), NEW e \in Entry,
         e.offset = pool[h].offset, OneEntryPerOffset, pool' = [pool EXCEPT ![h] = e]
  PROVE  /\ pool' \in Seq(Entry)
         /\ Len(pool') = Len(pool)
         /\ \A i \in 1 .. Len(pool) : pool'[i].offset = pool[i].offset
         /\ pool'[h] = e
         /\ \A i \in 1 .. Len(pool) : i # h => pool'[i] = pool[i]
         /\ OneEntryPerOffset'
<1>1. /\ pool' \in Seq(Entry)
      /\ Len(pool') = Len(pool)
      /\ pool'[h] = e
      /\ \A i \in 1 .. Len(pool) : i # h => pool'[i] = pool[i]
  BY ExceptSeq
<1>2. \A i \in 1 .. Len(pool) : pool'[i].offset = pool[i].offset
  BY <1>1
<1>. QED  BY <1>1, <1>2 DEF OneEntryPerOffset

(* An entry appended to a table is the last of it, the others stay.         *)
LEMMA AppendEntry ==
  ASSUME pool \in Seq(Entry), NEW e \in Entry, Matching(e.offset) = {},
         OneEntryPerOffset, pool' = Append(pool, e)
  PROVE  /\ pool' \in Seq(Entry)
         /\ Len(pool') = Len(pool) + 1
         /\ \A i \in 1 .. Len(pool) : pool'[i] = pool[i]
         /\ pool'[Len(pool) + 1] = e
         /\ OneEntryPerOffset'
<1>1. /\ pool' \in Seq(Entry)
      /\ Len(pool') = Len(pool) + 1
      /\ \A i \in 1 .. Len(pool) : pool'[i] = pool[i]
      /\ pool'[Len(pool) + 1] = e
      /\ Len(pool) \in Nat
  BY AppendProperties, LenProperties
<1>2. \A i \in 1 .. Len(pool) : pool[i].offset # e.offset
  BY DEF Matching
<1>3. ASSUME NEW i \in 1 .. Len(pool'), NEW j \in 1 .. Len(pool'),
             pool'[i].offset = pool'[j].offset
      PROVE  i = j
  <2>1. i \in 1 .. Len(pool) \/ i = Len(pool) + 1
    BY <1>1
  <2>2. j \in 1 .. Len(pool) \/ j = Len(pool) + 1
    BY <1>1
  <2>3. CASE i \in 1 .. Len(pool) /\ j \in 1 .. Len(pool)
    BY <1>1, <1>3, <2>3 DEF OneEntryPerOffset
  <2>. QED  BY <1>1, <1>2, <1>3, <2>1, <2>2, <2>3
<1>. QED  BY <1>1, <1>3 DEF OneEntryPerOffset

-----------------------------------------------------------------------------
(* Types.                                                                  *)

(* Without its innermost box a thread reads the boxes around it.            *)
LEMMA PopType ==
  ASSUME TypeOK, NEW t \in Threads, reads[t] # <<>>
  PROVE  /\ SubSeq(reads[t], 1, Len(reads[t]) - 1) \in Seq(Box)
         /\ Len(SubSeq(reads[t], 1, Len(reads[t]) - 1)) = Len(reads[t]) - 1
         /\ \A i \in 1 .. Len(reads[t]) - 1 :
              SubSeq(reads[t], 1, Len(reads[t]) - 1)[i] = reads[t][i]
<1>1. reads[t] \in Seq(Box)
  BY DEF TypeOK
<1>2. Len(reads[t]) - 1 \in 0 .. Len(reads[t])
  BY InnerType
<1>. QED  BY <1>1, <1>2, PrefixFacts

(* A registration appends a new offset or gives an old one its new value.   *)
LEMMA RegisterStep ==
  ASSUME IInv, NEW t \in Threads, Register(t)
  PROVE  /\ reads[t] # <<>>
         /\ \/ /\ First(Inner(t).offset) # 0
               /\ First(Inner(t).offset) \in Matching(Inner(t).offset)
               /\ pool' = [pool EXCEPT ![First(Inner(t).offset)] =
                             [pool[First(Inner(t).offset)] EXCEPT !.value = Inner(t).value]]
               /\ capacity' = capacity
            \/ /\ Matching(Inner(t).offset) = {}
               /\ pool' = Append(pool, [offset |-> Inner(t).offset,
                                        value |-> Inner(t).value,
                                        complete |-> FALSE])
               /\ capacity' = IF Len(pool) # capacity THEN capacity
                              ELSE IF capacity = 0 THEN InitialCapacity
                              ELSE 2 * capacity
<1>1. pc[t] = "update"
  BY DEF Register, Goto
<1>2. reads[t] # <<>> /\ hit[t] = First(Inner(t).offset)
  BY <1>1 DEF IInv, CallInv, Reading, ScanCurrent
<1>3. /\ First(Inner(t).offset) # 0 => First(Inner(t).offset) \in Matching(Inner(t).offset)
      /\ \A i \in Matching(Inner(t).offset) : First(Inner(t).offset) = i
  BY FirstExact DEF IInv, TableInv
<1>4. Matching(Inner(t).offset) \subseteq Nat \ {0}
  BY LenProperties DEF IInv, TypeOK, Matching
<1>5. First(Inner(t).offset) = 0 => Matching(Inner(t).offset) = {}
  BY <1>3, <1>4
<1>. QED  BY <1>2, <1>3, <1>5 DEF Register

(* A completion finds the entry the registration of its box left.           *)
LEMMA CompleteStep ==
  ASSUME IInv, NEW t \in Threads, MarkComplete(t)
  PROVE  /\ reads[t] # <<>>
         /\ First(Inner(t).offset) \in Matching(Inner(t).offset)
         /\ pool' = [pool EXCEPT ![First(Inner(t).offset)] =
                       [pool[First(Inner(t).offset)] EXCEPT !.complete = TRUE]]
         /\ capacity' = capacity
<1>1. pc[t] = "update" /\ call[t] = "complete"
  BY DEF MarkComplete, Goto
<1>2. reads[t] # <<>> /\ hit[t] = First(Inner(t).offset)
  BY <1>1 DEF IInv, CallInv, Reading, ScanCurrent
<1>3. Len(reads[t]) \in Registered(t)
  BY <1>1, <1>2, InnerType DEF IInv, Registered
<1>4. PICK e \in 1 .. Len(pool) : pool[e].offset = Inner(t).offset
  BY <1>3 DEF IInv, CallInv, ReadHasEntry, Inner
<1>5. e \in Matching(Inner(t).offset)
  BY <1>4 DEF Matching
<1>6. First(Inner(t).offset) = e /\ e # 0
  BY <1>5, FirstExact, LenProperties DEF IInv, TableInv, TypeOK
<1>. QED  BY <1>2, <1>5, <1>6 DEF MarkComplete

(* Either way the array stays well formed, keeps every offset it held, and
   afterwards shows the update.                                             *)
LEMMA UpdateStep ==
  ASSUME IInv, NEW t \in Threads, Register(t) \/ MarkComplete(t)
  PROVE  /\ pool' \in Seq(Entry)
         /\ capacity' \in Nat
         /\ TableInv'
         /\ Len(pool') >= Len(pool)
         /\ \A i \in 1 .. Len(pool) : pool'[i].offset = pool[i].offset
         /\ \E e \in 1 .. Len(pool') :
              /\ pool'[e].offset = Inner(t).offset
              /\ IF call[t] = "register" THEN pool'[e].value = Inner(t).value
                                         ELSE pool'[e].complete
<1> DEFINE o == Inner(t).offset
           h == First(o)
           v == Inner(t).value
<1>0. /\ pool \in Seq(Entry) /\ Len(pool) \in Nat /\ capacity \in Nat
      /\ OneEntryPerOffset /\ Len(pool) <= capacity
      /\ \A i \in 1 .. Len(pool) : pool[i] \in Entry
  BY LenProperties DEF IInv, TypeOK, TableInv, WithinCapacity
<1>1. CASE Register(t) /\ Matching(o) # {}
  <2> DEFINE e == [pool[h] EXCEPT !.value = v]
  <2>1. /\ h \in 1 .. Len(pool) /\ pool[h].offset = o
        /\ pool' = [pool EXCEPT ![h] = e]
        /\ capacity' = capacity
        /\ reads[t] # <<>>
    BY <1>1, RegisterStep DEF Matching
  <2>2. o \in Offsets /\ v \in Values
    BY <2>1, InnerType DEF IInv
  <2>3. e \in Entry /\ e.offset = pool[h].offset /\ e.value = v
    BY <2>1, <2>2, <1>0 DEF Entry
  <2>4. call[t] = "register"
    BY <1>1 DEF Register
  <2> HIDE DEF e, o, h, v
  <2>5. /\ pool' \in Seq(Entry)
        /\ Len(pool') = Len(pool)
        /\ \A i \in 1 .. Len(pool) : pool'[i].offset = pool[i].offset
        /\ pool'[h] = e
        /\ OneEntryPerOffset'
    BY <2>1, <2>3, <1>0, UpdateEntry
  <2>6. TableInv'
    BY <2>1, <2>5, <1>0 DEF TableInv, WithinCapacity
  <2>. QED  BY <2>1, <2>3, <2>4, <2>5, <2>6, <1>0 DEF o, v
<1>2. CASE MarkComplete(t)
  <2> DEFINE e == [pool[h] EXCEPT !.complete = TRUE]
  <2>1. /\ h \in 1 .. Len(pool) /\ pool[h].offset = o
        /\ pool' = [pool EXCEPT ![h] = e]
        /\ capacity' = capacity
    BY <1>2, CompleteStep DEF Matching
  <2>2. e \in Entry /\ e.offset = pool[h].offset /\ e.complete
    BY <2>1, <1>0 DEF Entry
  <2>3. call[t] # "register"
    BY <1>2 DEF MarkComplete
  <2> HIDE DEF e, o, h, v
  <2>4. /\ pool' \in Seq(Entry)
        /\ Len(pool') = Len(pool)
        /\ \A i \in 1 .. Len(pool) : pool'[i].offset = pool[i].offset
        /\ pool'[h] = e
        /\ OneEntryPerOffset'
    BY <2>1, <2>2, <1>0, UpdateEntry
  <2>5. TableInv'
    BY <2>1, <2>4, <1>0 DEF TableInv, WithinCapacity
  <2>. QED  BY <2>1, <2>2, <2>3, <2>4, <2>5, <1>0 DEF o, v
<1>3. CASE Register(t) /\ Matching(o) = {}
  <2> DEFINE e == [offset |-> o, value |-> v, complete |-> FALSE]
  <2>1. /\ pool' = Append(pool, e)
        /\ capacity' = IF Len(pool) # capacity THEN capacity
                       ELSE IF capacity = 0 THEN InitialCapacity
                       ELSE 2 * capacity
        /\ reads[t] # <<>>
    BY <1>3, RegisterStep
  <2>2. o \in Offsets /\ v \in Values
    BY <2>1, InnerType DEF IInv
  <2>3. e \in Entry /\ e.offset = o /\ e.value = v
    BY <2>2 DEF Entry
  <2>4. call[t] = "register" /\ Matching(e.offset) = {}
    BY <1>3 DEF Register
  <2> HIDE DEF e, o, h, v
  <2>5. /\ pool' \in Seq(Entry)
        /\ Len(pool') = Len(pool) + 1
        /\ \A i \in 1 .. Len(pool) : pool'[i] = pool[i]
        /\ pool'[Len(pool) + 1] = e
        /\ OneEntryPerOffset'
    BY <2>1, <2>3, <2>4, <1>0, AppendEntry
  <2>6. capacity' \in Nat /\ Len(pool) + 1 <= capacity'
    BY <2>1, <1>0, OffsetPoolAssumption
  <2>7. TableInv'
    BY <2>5, <2>6, <1>0 DEF TableInv, WithinCapacity
  <2>8. Len(pool) + 1 \in 1 .. Len(pool')
    BY <2>5, <1>0
  <2>. QED  BY <2>3, <2>4, <2>5, <2>6, <2>7, <2>8, <1>0 DEF o, v
<1>. QED  BY <1>1, <1>2, <1>3

-----------------------------------------------------------------------------
(* The inductive step, one group of conjuncts at a time.                   *)

(* Every step of a thread keeps the types.                                  *)
LEMMA TypeStep == IInv /\ Next => TypeOK'
<1> SUFFICES ASSUME IInv, Next  PROVE TypeOK'
  OBVIOUS
<1>0. TypeOK
  BY DEF IInv
<1> USE <1>0 DEF TypeOK, Goto, Pc
<1>1. ASSUME NEW t \in Threads, NEW o \in Offsets, NEW v \in Values, BeginBox(t, o, v)
      PROVE  TypeOK'
  <2> DEFINE b == [offset |-> o, value |-> v]
  <2>1. b \in Box
    BY DEF Box
  <2>2. Append(reads[t], b) \in Seq(Box)
    BY <2>1, AppendProperties
  <2>3. reads' \in [Threads -> Seq(Box)]
    BY <1>1, <2>2 DEF BeginBox
  <2>. QED  BY <1>1, <2>3 DEF BeginBox
<1>2. ASSUME NEW t \in Threads, EndBox(t)  PROVE TypeOK'
  BY <1>2 DEF EndBox
<1>3. ASSUME NEW t \in Threads, FailBox(t)  PROVE TypeOK'
  <2>1. reads' \in [Threads -> Seq(Box)]
    BY <1>3, PopType DEF FailBox
  <2>. QED  BY <1>3, <2>1 DEF FailBox
<1>4. ASSUME NEW t \in Threads, Acquire(t)  PROVE TypeOK'
  BY <1>4 DEF Acquire
<1>5. ASSUME NEW t \in Threads, Scan(t)  PROVE TypeOK'
  <2>1. First(Inner(t).offset) \in Nat
    <3>1. Matching(Inner(t).offset) \subseteq Nat
      BY LenProperties DEF Matching
    <3>. QED  BY <3>1, FirstExact DEF IInv, TableInv
  <2>. QED  BY <1>5, <2>1 DEF Scan
<1>6. ASSUME NEW t \in Threads, Register(t) \/ MarkComplete(t)  PROVE TypeOK'
  <2>1. pool' \in Seq(Entry) /\ capacity' \in Nat
    BY <1>6, UpdateStep
  <2>2. pc' = [pc EXCEPT ![t] = "unlock"] /\ UNCHANGED <<locked, reads, call, hit>>
    BY <1>6 DEF Register, MarkComplete
  <2>. QED  BY <2>1, <2>2
<1>7. ASSUME NEW t \in Threads, Unlock(t)  PROVE TypeOK'
  <2>1. reads[t] # <<>>
    BY <1>7 DEF Unlock, IInv, CallInv, Reading
  <2>2. reads' \in [Threads -> Seq(Box)]
    BY <1>7, <2>1, PopType DEF Unlock
  <2>. QED  BY <1>7, <2>2 DEF Unlock
<1>. QED  BY <1>1, <1>2, <1>3, <1>4, <1>5, <1>6, <1>7 DEF Next, LockStep

(* Every step leaves at most one thread inside the lock.                    *)
LEMMA LockStepInv == IInv /\ Next => LockInv'
<1> SUFFICES ASSUME IInv, Next  PROVE LockInv'
  OBVIOUS
<1>0. pc \in [Threads -> Pc] /\ locked \in BOOLEAN /\ LockHeld /\ MutualExclusion
  BY DEF IInv, TypeOK, LockInv
<1> USE <1>0 DEF Goto, LockInv, LockHeld, MutualExclusion, Critical
<1>1. ASSUME NEW t \in Threads, NEW o \in Offsets, NEW v \in Values, BeginBox(t, o, v)
      PROVE  LockInv'
  BY <1>1 DEF BeginBox
<1>2. ASSUME NEW t \in Threads, EndBox(t)  PROVE LockInv'
  BY <1>2 DEF EndBox
<1>3. ASSUME NEW t \in Threads, FailBox(t)  PROVE LockInv'
  BY <1>3 DEF FailBox
<1>4. ASSUME NEW t \in Threads, Acquire(t)  PROVE LockInv'
  BY <1>4 DEF Acquire
<1>5. ASSUME NEW t \in Threads, Scan(t)  PROVE LockInv'
  BY <1>5 DEF Scan
<1>6. ASSUME NEW t \in Threads, Register(t) \/ MarkComplete(t)  PROVE LockInv'
  <2>1. pc[t] = "update" /\ pc' = [pc EXCEPT ![t] = "unlock"] /\ locked' = locked
    BY <1>6 DEF Register, MarkComplete
  <2>. QED  BY <2>1
<1>7. ASSUME NEW t \in Threads, Unlock(t)  PROVE LockInv'
  BY <1>7 DEF Unlock
<1>. QED  BY <1>1, <1>2, <1>3, <1>4, <1>5, <1>6, <1>7 DEF Next, LockStep

(* Every step keeps the table without two entries of one offset.            *)
LEMMA TableStepInv == IInv /\ Next => TableInv'
<1> SUFFICES ASSUME IInv, Next  PROVE TableInv'
  OBVIOUS
<1>1. ASSUME UNCHANGED <<pool, capacity>>  PROVE TableInv'
  BY <1>1 DEF IInv, TableInv, OneEntryPerOffset, WithinCapacity
<1>2. UNCHANGED <<pool, capacity>> \/ \E t \in Threads : Register(t) \/ MarkComplete(t)
  BY DEF Next, LockStep, BeginBox, EndBox, FailBox, Acquire, Scan, Unlock
<1>. QED  BY <1>1, <1>2, UpdateStep

(* A step of t leaves what the other threads are doing alone.               *)
Others(t) ==
  \A u \in Threads \ {t} :
    pc'[u] = pc[u] /\ reads'[u] = reads[u] /\ call'[u] = call[u] /\ hit'[u] = hit[u]

(* A step of one thread leaves what is known of the calls of others.        *)
LEMMA OthersStep ==
  ASSUME TypeOK, NEW t \in Threads,
         \/ \E o \in Offsets, v \in Values : BeginBox(t, o, v)
         \/ EndBox(t) \/ FailBox(t) \/ LockStep(t)
  PROVE  Others(t)
BY DEF TypeOK, Others, Goto, BeginBox, EndBox, FailBox, LockStep, Acquire, Scan,
       Register, MarkComplete, Unlock

(* The conjuncts of CallInv that speak of one thread.                       *)
CallInvOf(t) ==
  /\ pc[t] = "update" => hit[t] = First(Inner(t).offset)
  /\ pc[t] # "parse" => reads[t] # <<>>
  /\ \A i \in Registered(t) :
       \E e \in 1 .. Len(pool) : pool[e].offset = reads[t][i].offset
  /\ pc[t] = "unlock" =>
       \E e \in 1 .. Len(pool) :
         /\ pool[e].offset = Inner(t).offset
         /\ IF call[t] = "register" THEN pool[e].value = Inner(t).value
                                    ELSE pool[e].complete

(* What is known of the calls is known thread by thread.                    *)
LEMMA CallInvSplit == CallInv <=> \A t \in Threads : CallInvOf(t)
BY DEF CallInv, CallInvOf, ScanCurrent, Reading, ReadHasEntry, UpdateVisible

(* Where the array does not change, nothing changes for a thread at rest.   *)
LEMMA Quiet ==
  ASSUME NEW u \in Threads, CallInvOf(u), UNCHANGED pool, pc'[u] = pc[u],
         reads'[u] = reads[u], call'[u] = call[u], hit'[u] = hit[u]
  PROVE  CallInvOf(u)'
<1>1. Registered(u)' = Registered(u) /\ Inner(u)' = Inner(u)
  BY DEF Registered, Inner
<1>2. First(Inner(u).offset)' = First(Inner(u).offset)
  BY <1>1 DEF First, Matching
<1>. QED  BY <1>1, <1>2 DEF CallInvOf

(* When t updates the array under the lock, the boxes u reads keep their
   entries and u is not in the middle of a call.                            *)
LEMMA UpdateOther ==
  ASSUME IInv, NEW t \in Threads, Register(t) \/ MarkComplete(t), Others(t),
         NEW u \in Threads, u # t
  PROVE  CallInvOf(u)'
<1>1. CallInvOf(u)
  BY CallInvSplit DEF IInv
<1>2. pc'[u] = pc[u] /\ reads'[u] = reads[u] /\ call'[u] = call[u]
  BY DEF Others
<1>3. pc[t] = "update"
  BY DEF Register, MarkComplete, Goto
<1>4. pc[u] # "update" /\ pc[u] # "unlock"
  BY <1>3 DEF IInv, LockInv, MutualExclusion, Critical
<1>5. Registered(u)' = Registered(u)
  BY <1>2 DEF Registered
<1>6. /\ Len(pool) \in Nat /\ Len(pool') \in Nat /\ Len(pool') >= Len(pool)
      /\ \A i \in 1 .. Len(pool) : pool'[i].offset = pool[i].offset
  BY UpdateStep, LenProperties DEF IInv, TypeOK
<1>7. ASSUME NEW i \in Registered(u)
      PROVE  \E e \in 1 .. Len(pool') : pool'[e].offset = reads'[u][i].offset
  <2>1. PICK e \in 1 .. Len(pool) : pool[e].offset = reads[u][i].offset
    BY <1>1 DEF CallInvOf
  <2>2. e \in 1 .. Len(pool')
    BY <1>6
  <2>. QED  BY <1>2, <1>6, <2>1, <2>2
<1>. QED  BY <1>1, <1>2, <1>4, <1>5, <1>7 DEF CallInvOf

(* The thread that takes the step.                                          *)
LEMMA OwnStep ==
  ASSUME IInv, NEW t \in Threads,
         \/ \E o \in Offsets, v \in Values : BeginBox(t, o, v)
         \/ EndBox(t) \/ FailBox(t) \/ LockStep(t)
  PROVE  CallInvOf(t)'
<1>0. CallInvOf(t) /\ TypeOK
  BY CallInvSplit DEF IInv
<1>t. /\ reads \in [Threads -> Seq(Box)] /\ pc \in [Threads -> Pc]
      /\ call \in [Threads -> {"register", "complete"}] /\ hit \in [Threads -> Nat]
      /\ reads[t] \in Seq(Box) /\ Len(reads[t]) \in Nat
  BY <1>0, LenProperties DEF TypeOK
<1>1. ASSUME NEW o \in Offsets, NEW v \in Values, BeginBox(t, o, v)
      PROVE  CallInvOf(t)'
  <2> DEFINE b == [offset |-> o, value |-> v]
  <2>1. pc[t] = "parse" /\ pc'[t] = "spin" /\ call'[t] = "register" /\ pool' = pool
    BY <1>1, <1>t DEF BeginBox, Goto
  <2>2. reads'[t] = Append(reads[t], b)
    BY <1>1, <1>t DEF BeginBox
  <2>3. b \in Box
    BY DEF Box
  <2> HIDE DEF b
  <2>4. /\ Len(reads'[t]) = Len(reads[t]) + 1
        /\ \A i \in 1 .. Len(reads[t]) : reads'[t][i] = reads[t][i]
        /\ reads'[t] # <<>>
    BY <2>2, <2>3, <1>t, AppendProperties, EmptySeq
  <2>5. ASSUME NEW i \in Registered(t)'
        PROVE  i \in Registered(t) /\ reads'[t][i] = reads[t][i]
    <3>1. i \in 1 .. Len(reads'[t]) /\ i # Len(reads'[t])
      BY <2>1 DEF Registered
    <3>2. i \in 1 .. Len(reads[t])
      BY <3>1, <2>4, <1>t
    <3>. QED  BY <3>2, <2>1, <2>4 DEF Registered
  <2>. QED  BY <1>0, <2>1, <2>4, <2>5 DEF CallInvOf
<1>2. ASSUME EndBox(t)  PROVE CallInvOf(t)'
  <2>1. /\ pc[t] = "parse" /\ pc'[t] = "spin" /\ call'[t] = "complete"
        /\ reads' = reads /\ reads[t] # <<>> /\ pool' = pool
    BY <1>2, <1>t DEF EndBox, Goto
  <2>2. Registered(t)' \subseteq Registered(t)
    BY <2>1 DEF Registered
  <2>. QED  BY <1>0, <2>1, <2>2 DEF CallInvOf
<1>3. ASSUME reads[t] # <<>>, pc[t] \in {"parse", "unlock"}, pc'[t] = "parse",
             reads'[t] = SubSeq(reads[t], 1, Len(reads[t]) - 1), pool' = pool
      PROVE  CallInvOf(t)'
  <2>1. /\ Len(reads'[t]) = Len(reads[t]) - 1
        /\ \A i \in 1 .. Len(reads[t]) - 1 : reads'[t][i] = reads[t][i]
    BY <1>0, <1>3, PopType
  <2>2. ASSUME NEW i \in Registered(t)'
        PROVE  i \in Registered(t) /\ reads'[t][i] = reads[t][i]
    <3>1. i \in 1 .. Len(reads'[t])
      BY DEF Registered
    <3>2. i \in 1 .. Len(reads[t]) - 1 /\ i \in 1 .. Len(reads[t])
      BY <3>1, <2>1, <1>t
    <3>. QED  BY <1>3, <3>2, <2>1 DEF Registered
  <2>. QED  BY ZenonT(60), <1>0, <1>3, <2>2 DEF CallInvOf
<1>4. ASSUME FailBox(t)  PROVE CallInvOf(t)'
  BY <1>3, <1>4, <1>t DEF FailBox, Goto
<1>5. ASSUME Acquire(t)  PROVE CallInvOf(t)'
  <2>1. /\ pc[t] = "spin" /\ pc'[t] = "scan" /\ reads' = reads /\ call' = call
        /\ pool' = pool
    BY <1>5, <1>t DEF Acquire, Goto
  <2>2. Registered(t)' = Registered(t)
    BY <2>1 DEF Registered
  <2>. QED  BY <1>0, <2>1, <2>2 DEF CallInvOf
<1>6. ASSUME Scan(t)  PROVE CallInvOf(t)'
  <2>1. /\ pc[t] = "scan" /\ pc'[t] = "update" /\ reads' = reads /\ call' = call
        /\ pool' = pool /\ hit'[t] = First(Inner(t).offset)
    BY <1>6, <1>t DEF Scan, Goto
  <2>2. Registered(t)' = Registered(t) /\ Inner(t)' = Inner(t)
    BY <2>1 DEF Registered, Inner
  <2>3. First(Inner(t).offset)' = First(Inner(t).offset)
    BY <2>1, <2>2 DEF First, Matching
  <2>. QED  BY <1>0, <2>1, <2>2, <2>3 DEF CallInvOf
<1>7. ASSUME Register(t) \/ MarkComplete(t)  PROVE CallInvOf(t)'
  <2>1. /\ pc[t] = "update" /\ pc'[t] = "unlock" /\ reads' = reads /\ call' = call
        /\ reads[t] # <<>>
    BY <1>7, <1>t, RegisterStep, CompleteStep DEF Register, MarkComplete, Goto
  <2>2. Inner(t)' = Inner(t) /\ Inner(t) = reads[t][Len(reads[t])]
    BY <2>1 DEF Inner
  <2>3. /\ Len(pool) \in Nat /\ Len(pool') \in Nat /\ Len(pool') >= Len(pool)
        /\ \A i \in 1 .. Len(pool) : pool'[i].offset = pool[i].offset
    BY <1>7, UpdateStep, LenProperties DEF IInv, TypeOK
  <2>4. \E e \in 1 .. Len(pool') :
          /\ pool'[e].offset = Inner(t).offset
          /\ IF call[t] = "register" THEN pool'[e].value = Inner(t).value
                                     ELSE pool'[e].complete
    BY <1>7, UpdateStep
  <2>5. ASSUME NEW i \in Registered(t)'
        PROVE  \E e \in 1 .. Len(pool') : pool'[e].offset = reads'[t][i].offset
    <3>1. i \in 1 .. Len(reads[t])
      BY <2>1 DEF Registered
    <3>2. CASE i = Len(reads[t])
      BY <3>2, <2>1, <2>2, <2>4
    <3>3. CASE i # Len(reads[t])
      <4>1. i \in Registered(t)
        BY <3>1, <3>3 DEF Registered
      <4>2. PICK e \in 1 .. Len(pool) : pool[e].offset = reads[t][i].offset
        BY <1>0, <4>1 DEF CallInvOf
      <4>3. e \in 1 .. Len(pool')
        BY <2>3
      <4>. QED  BY <2>1, <2>3, <4>2, <4>3
    <3>. QED  BY <3>2, <3>3
  <2>. QED  BY <2>1, <2>2, <2>4, <2>5 DEF CallInvOf
<1>8. ASSUME Unlock(t)  PROVE CallInvOf(t)'
  <2>1. pc[t] = "unlock" /\ pc'[t] = "parse" /\ pool' = pool /\ call' = call
    BY <1>8, <1>t DEF Unlock, Goto
  <2>2. reads[t] # <<>>
    BY <1>0, <2>1 DEF CallInvOf
  <2>3. CASE call[t] = "complete"
    <3>1. reads'[t] = SubSeq(reads[t], 1, Len(reads[t]) - 1)
      BY <1>8, <1>t, <2>3 DEF Unlock
    <3>. QED  BY <1>3, <2>1, <2>2, <3>1
  <2>4. CASE call[t] # "complete"
    <3>1. reads' = reads
      BY <1>8, <2>4 DEF Unlock
    <3>2. Registered(t)' = Registered(t)
      BY <2>1, <3>1 DEF Registered
    <3>. QED  BY <1>0, <2>1, <3>1, <3>2 DEF CallInvOf
  <2>. QED  BY <2>3, <2>4
<1>. QED  BY <1>1, <1>2, <1>4, <1>5, <1>6, <1>7, <1>8 DEF LockStep

(* Every step keeps what is known of the calls.                             *)
LEMMA CallStepInv == IInv /\ Next => CallInv'
<1> SUFFICES ASSUME IInv, Next  PROVE CallInv'
  OBVIOUS
<1>1. PICK t \in Threads :
        \/ \E o \in Offsets, v \in Values : BeginBox(t, o, v)
        \/ EndBox(t) \/ FailBox(t) \/ LockStep(t)
  BY DEF Next
<1>2. Others(t)
  BY <1>1, OthersStep DEF IInv
<1>3. CallInvOf(t)'
  BY <1>1, OwnStep
<1>4. UNCHANGED pool \/ Register(t) \/ MarkComplete(t)
  BY <1>1 DEF LockStep, BeginBox, EndBox, FailBox, Acquire, Scan, Unlock
<1>5. ASSUME NEW u \in Threads, u # t  PROVE CallInvOf(u)'
  <2>1. CASE UNCHANGED pool
    BY <1>2, <1>5, <2>1, Quiet, CallInvSplit DEF IInv, Others
  <2>2. CASE Register(t) \/ MarkComplete(t)
    BY <1>2, <1>5, <2>2, UpdateOther
  <2>. QED  BY <1>4, <2>1, <2>2
<1>6. (\A u \in Threads : CallInvOf(u))'
  BY <1>3, <1>5
<1>. QED  BY <1>6 DEF CallInv, CallInvOf, ScanCurrent, Reading, ReadHasEntry, UpdateVisible

-----------------------------------------------------------------------------
(* The theorems.                                                           *)

(* The invariant holds of the first state.                                  *)
LEMMA InitInv == Init => IInv
<1> SUFFICES ASSUME Init  PROVE IInv
  OBVIOUS
<1>1. TypeOK
  BY EmptySeq DEF Init, TypeOK, Pc
<1>2. LockInv
  BY DEF Init, LockInv, LockHeld, MutualExclusion, Critical
<1>3. TableInv
  BY EmptySeq DEF Init, TableInv, OneEntryPerOffset, WithinCapacity
<1>4. ASSUME NEW t \in Threads
      PROVE  pc[t] = "parse" /\ reads[t] = <<>> /\ Registered(t) = {}
  <2>1. pc[t] = "parse" /\ reads[t] = <<>> /\ Len(reads[t]) = 0
    BY EmptySeq DEF Init
  <2>2. 1 .. Len(reads[t]) = {}
    BY <2>1
  <2>. QED  BY <2>1, <2>2 DEF Registered
<1>5. CallInv
  BY <1>4 DEF CallInv, ScanCurrent, Reading, ReadHasEntry, UpdateVisible
<1>. QED  BY <1>1, <1>2, <1>3, <1>5 DEF IInv

(* A step that changes nothing keeps the invariant.                         *)
LEMMA StutterInv == IInv /\ UNCHANGED vars => IInv'
<1> SUFFICES ASSUME IInv, UNCHANGED vars  PROVE IInv'
  OBVIOUS
<1> USE DEF vars, IInv
<1>1. TypeOK' /\ LockInv' /\ TableInv'
  BY DEF TypeOK, LockInv, LockHeld, MutualExclusion, TableInv, OneEntryPerOffset,
         WithinCapacity
<1>2. (\A t \in Threads : CallInvOf(t))'
  BY Quiet, CallInvSplit
<1>3. CallInv'
  BY <1>2 DEF CallInv, CallInvOf, ScanCurrent, Reading, ReadHasEntry, UpdateVisible
<1>. QED  BY <1>1, <1>3

(* Every step keeps the invariant.                                          *)
LEMMA StepInv == IInv /\ [Next]_vars => IInv'
BY TypeStep, LockStepInv, TableStepInv, CallStepInv, StutterInv DEF IInv

(* The invariant holds of every state.                                      *)
LEMMA Invariance == Spec => []IInv
BY InitInv, StepInv, PTL DEF Spec

(* The flag, the array and the per-thread program counters and stacks keep
   their types.                                                             *)
THEOREM OffsetPoolTyped == Spec => []TypeOK
<1>1. IInv => TypeOK
  BY DEF IInv
<1>. QED  BY <1>1, Invariance, PTL

(* However many threads read, pool_lock admits one of them.                 *)
THEOREM LockExcludes == Spec => []MutualExclusion
<1>1. IInv => MutualExclusion
  BY DEF IInv, LockInv
<1>. QED  BY <1>1, Invariance, PTL

(* However registrations interleave, the array of pool_register holds one
   entry per offset and never more entries than its allocation.             *)
THEOREM OneEntryInCapacity == Spec => []TableSound
<1>1. IInv => TableSound
  BY DEF IInv, TableInv, TableSound
<1>. QED  BY <1>1, Invariance, PTL

(* pool_mark_complete always finds the entry of the box it completes, and no
   update of the table is overwritten before the call that made it returns. *)
THEOREM CompletionFindsEntry == Spec => []EntriesKept
<1>1. IInv => EntriesKept
  BY DEF IInv, CallInv, EntriesKept
<1>. QED  BY <1>1, Invariance, PTL

Domain == {pool[i].offset : i \in 1 .. Len(pool)}

(* The map that an array with one entry per offset stands for.              *)
MapFact ==
  /\ DOMAIN Map = Domain
  /\ \A i \in 1 .. Len(pool) :
       Map[pool[i].offset] = [value |-> pool[i].value, complete |-> pool[i].complete]

(* The table read as a map has the offsets of its entries.                  *)
LEMMA MapOf == IInv => MapFact
<1> SUFFICES ASSUME IInv  PROVE MapFact
  OBVIOUS
<1>1. DOMAIN Map = Domain
  BY DEF Map, Domain
<1>2. ASSUME NEW i \in 1 .. Len(pool)  PROVE First(pool[i].offset) = i
  BY FirstExact DEF IInv, TableInv, Matching
<1>3. ASSUME NEW i \in 1 .. Len(pool)
      PROVE  Map[pool[i].offset] = [value |-> pool[i].value, complete |-> pool[i].complete]
  BY <1>2 DEF Map, EntryOf
<1>. QED  BY <1>1, <1>3 DEF MapFact

(* The entry pool_mark_complete changes is the one of the offset.           *)
LEMMA SetComplete ==
  ASSUME NEW V, NEW m \in [value : V, complete : BOOLEAN]
  PROVE  [m EXCEPT !.complete = TRUE] = [value |-> m.value, complete |-> TRUE]
<1> DEFINE n == [m EXCEPT !.complete = TRUE]
<1>1. n \in [value : V, complete : BOOLEAN] /\ n.value = m.value /\ n.complete = TRUE
  OBVIOUS
<1> HIDE DEF n
<1>2. n = [value |-> n.value, complete |-> n.complete]
  BY <1>1
<1>3. n = [value |-> m.value, complete |-> TRUE]
  BY <1>1, <1>2
<1>. QED  BY <1>3 DEF n

(* An update of the array is one operation of the map.                      *)
LEMMA UpdateRefines ==
  ASSUME IInv, MapFact, MapFact', NEW t \in Threads, Register(t) \/ MarkComplete(t)
  PROVE  Abstract!Next
<1> DEFINE o == Inner(t).offset
           v == Inner(t).value
           h == First(o)
<1>1. reads[t] # <<>> /\ o \in Offsets /\ v \in Values
  BY RegisterStep, CompleteStep, InnerType DEF IInv
<1>2. pool \in Seq(Entry) /\ Len(pool) \in Nat /\ OneEntryPerOffset
  BY LenProperties DEF IInv, TypeOK, TableInv
<1>2a. \A i \in 1 .. Len(pool) : pool[i] \in Entry
  BY <1>2
<1>3. CASE Register(t) /\ Matching(o) # {}
  <2> DEFINE e == [pool[h] EXCEPT !.value = v]
  <2>1. h \in 1 .. Len(pool) /\ pool[h].offset = o /\ pool' = [pool EXCEPT ![h] = e]
    BY <1>3, RegisterStep DEF Matching
  <2>2. e \in Entry /\ e.offset = o /\ e.value = v /\ e.complete = pool[h].complete
    BY <2>1, <1>1, <1>2a DEF Entry
  <2> HIDE DEF e, h, o, v
  <2>3. /\ Len(pool') = Len(pool) /\ pool'[h] = e
        /\ \A i \in 1 .. Len(pool) : pool'[i].offset = pool[i].offset
        /\ \A i \in 1 .. Len(pool) : i # h => pool'[i] = pool[i]
    BY <2>1, <2>2, <1>2, UpdateEntry
  <2>4. DOMAIN Map' = DOMAIN Map \cup {o}
    BY <2>1, <2>3 DEF MapFact, Domain
  <2>5. ASSUME NEW x \in DOMAIN Map \cup {o}
        PROVE  Map'[x] = IF x # o THEN Map[x]
                         ELSE [value |-> v, complete |-> o \in DOMAIN Map /\ Map[o].complete]
    <3>1. PICK i \in 1 .. Len(pool) : pool[i].offset = x
      BY <2>1, <2>4 DEF MapFact, Domain
    <3>2. Map'[x] = [value |-> pool'[i].value, complete |-> pool'[i].complete]
      BY <3>1, <2>3 DEF MapFact
    <3>3. CASE x = o
      <4>1. i = h
        BY <3>1, <3>3, <2>1, <1>2 DEF OneEntryPerOffset
      <4>2. o \in DOMAIN Map
        BY <2>1 DEF MapFact, Domain
      <4>3. Map[o] = [value |-> pool[h].value, complete |-> pool[h].complete]
        BY <2>1 DEF MapFact
      <4>4. pool[h].complete \in BOOLEAN
        BY <2>1, <1>2a DEF Entry
      <4>5. Map[o].complete = pool[h].complete
        BY <4>3
      <4>6. (o \in DOMAIN Map /\ Map[o].complete) = pool[h].complete
        BY <4>2, <4>4, <4>5
      <4>. QED  BY <4>1, <4>6, <3>2, <3>3, <2>2, <2>3
    <3>4. CASE x # o
      BY <3>1, <3>2, <3>4, <2>1, <2>3 DEF MapFact
    <3>. QED  BY <3>3, <3>4
  <2>6. Map' = [x \in DOMAIN Map \cup {o} |->
                  IF x # o THEN Map[x]
                  ELSE [value |-> v, complete |-> o \in DOMAIN Map /\ Map[o].complete]]
    BY <2>4, <2>5 DEF Map
  <2>7. Abstract!Register(o, v)
    BY <2>6 DEF Abstract!Register
  <2>. QED  BY <1>1, <2>7 DEF Abstract!Next, o, v
<1>4. CASE Register(t) /\ Matching(o) = {}
  <2> DEFINE e == [offset |-> o, value |-> v, complete |-> FALSE]
  <2>1. pool' = Append(pool, e)
    BY <1>4, RegisterStep
  <2>2. e \in Entry /\ e.offset = o /\ e.value = v /\ e.complete = FALSE
    BY <1>1 DEF Entry
  <2>3. Matching(e.offset) = {}
    BY <1>4
  <2> HIDE DEF e, h, o, v
  <2>4. /\ Len(pool') = Len(pool) + 1 /\ pool'[Len(pool) + 1] = e
        /\ \A i \in 1 .. Len(pool) : pool'[i] = pool[i]
    BY <2>1, <2>2, <2>3, <1>2, AppendEntry
  <2>5. \A i \in 1 .. Len(pool') : i \in 1 .. Len(pool) \/ i = Len(pool) + 1
    BY <2>4, <1>2
  <2>6. Len(pool) + 1 \in 1 .. Len(pool') /\ 1 .. Len(pool) \subseteq 1 .. Len(pool')
    BY <2>4, <1>2
  <2>7. DOMAIN Map' = DOMAIN Map \cup {o}
    BY <2>2, <2>4, <2>5, <2>6 DEF MapFact, Domain
  <2>8. o \notin DOMAIN Map
    BY <2>2, <2>3 DEF MapFact, Domain, Matching
  <2>9. ASSUME NEW x \in DOMAIN Map \cup {o}
        PROVE  Map'[x] = IF x # o THEN Map[x]
                         ELSE [value |-> v, complete |-> o \in DOMAIN Map /\ Map[o].complete]
    <3>1. CASE x = o
      BY <3>1, <2>2, <2>4, <2>6, <2>8 DEF MapFact
    <3>2. CASE x # o
      <4>1. PICK i \in 1 .. Len(pool) : pool[i].offset = x
        BY <3>2 DEF MapFact, Domain
      <4>2. Map[x] = [value |-> pool[i].value, complete |-> pool[i].complete]
        BY <4>1 DEF MapFact
      <4>3. i \in 1 .. Len(pool') /\ pool'[i] = pool[i]
        BY <2>4, <2>6
      <4>4. Map'[x] = [value |-> pool'[i].value, complete |-> pool'[i].complete]
        BY <4>1, <4>3 DEF MapFact
      <4>. QED  BY <3>2, <4>2, <4>3, <4>4
    <3>. QED  BY <3>1, <3>2
  <2>10. Map' = [x \in DOMAIN Map \cup {o} |->
                  IF x # o THEN Map[x]
                  ELSE [value |-> v, complete |-> o \in DOMAIN Map /\ Map[o].complete]]
    BY <2>7, <2>9 DEF Map
  <2>11. Abstract!Register(o, v)
    BY <2>10 DEF Abstract!Register
  <2>. QED  BY <1>1, <2>11 DEF Abstract!Next, o, v
<1>5. CASE MarkComplete(t)
  <2> DEFINE e == [pool[h] EXCEPT !.complete = TRUE]
  <2>1. h \in 1 .. Len(pool) /\ pool[h].offset = o /\ pool' = [pool EXCEPT ![h] = e]
    BY <1>5, CompleteStep DEF Matching
  <2>2. /\ e \in Entry /\ e.offset = o /\ e.value = pool[h].value
        /\ e.complete = TRUE
    BY <2>1, <1>1, <1>2a DEF Entry
  <2> HIDE DEF e, h, o, v
  <2>3. /\ Len(pool') = Len(pool) /\ pool'[h] = e
        /\ \A i \in 1 .. Len(pool) : pool'[i].offset = pool[i].offset
        /\ \A i \in 1 .. Len(pool) : i # h => pool'[i] = pool[i]
    BY <2>1, <2>2, <1>2, UpdateEntry
  <2>4. DOMAIN Map' = DOMAIN Map /\ o \in DOMAIN Map
    BY <2>1, <2>3 DEF MapFact, Domain
  <2>5. ASSUME NEW x \in DOMAIN Map
        PROVE  Map'[x] = [Map EXCEPT ![o].complete = TRUE][x]
    <3>1. PICK i \in 1 .. Len(pool) : pool[i].offset = x
      BY DEF MapFact, Domain
    <3>2. Map'[x] = [value |-> pool'[i].value, complete |-> pool'[i].complete]
      BY <3>1, <2>3 DEF MapFact
    <3>3. Map[x] = [value |-> pool[i].value, complete |-> pool[i].complete]
      BY <3>1 DEF MapFact
    <3>4. CASE x = o
      <4>1. i = h
        BY <3>1, <3>4, <2>1, <1>2 DEF OneEntryPerOffset
      <4>2. [Map EXCEPT ![o].complete = TRUE][x] = [Map[o] EXCEPT !.complete = TRUE]
        BY <3>4, <2>4 DEF Map
      <4>3. Map'[x] = [value |-> pool[i].value, complete |-> TRUE]
        BY <4>1, <3>2, <2>2, <2>3
      <4>4. [Map[x] EXCEPT !.complete = TRUE] = [value |-> pool[i].value, complete |-> TRUE]
        <5>1. Map[x] \in [value : Values, complete : BOOLEAN]
          BY <3>3, <1>2a DEF Entry
        <5>2. Map[x].value = pool[i].value
          BY <3>3
        <5>. QED  BY <5>1, <5>2, SetComplete
      <4>. QED  BY <4>2, <4>3, <4>4, <3>4
    <3>5. CASE x # o
      BY <3>1, <3>2, <3>3, <3>5, <2>1, <2>3 DEF Map
    <3>. QED  BY <3>4, <3>5
  <2>6. Map' = [Map EXCEPT ![o].complete = TRUE]
    BY <2>4, <2>5 DEF Map
  <2>7. Abstract!Complete(o)
    BY <2>4, <2>6 DEF Abstract!Complete
  <2>. QED  BY <1>1, <2>7 DEF Abstract!Next, o
<1>. QED  BY <1>3, <1>4, <1>5

(* The locked, scanned and growing array of pool_register and
   pool_mark_complete implements a map from offsets to entries that is updated
   atomically: no registration is lost or doubled, no completion undone.    *)
THEOREM PoolImplementsMap == Spec => ImplementsOffsetMap
<1>1. Init => Abstract!Init
  <2> SUFFICES ASSUME Init  PROVE Abstract!Init
    OBVIOUS
  <2>1. pool = <<>> /\ Len(pool) = 0
    BY EmptySeq DEF Init
  <2>2. {pool[i].offset : i \in 1 .. Len(pool)} = {}
    BY <2>1
  <2>. QED  BY <2>2 DEF Map, Abstract!Init
<1>2. IInv /\ IInv' /\ MapFact /\ MapFact' /\ [Next]_vars => [Abstract!Next]_Map
  <2> SUFFICES ASSUME IInv, MapFact, MapFact', [Next]_vars
               PROVE  [Abstract!Next]_Map
    OBVIOUS
  <2>1. ASSUME UNCHANGED pool  PROVE Map' = Map
    BY <2>1 DEF Map, EntryOf, First, Matching
  <2>2. UNCHANGED pool \/ \E t \in Threads : Register(t) \/ MarkComplete(t)
    BY DEF Next, LockStep, BeginBox, EndBox, FailBox, Acquire, Scan, Unlock, vars
  <2>. QED  BY <2>1, <2>2, UpdateRefines
<1>. QED  BY <1>1, <1>2, Invariance, MapOf, PTL DEF Spec, ImplementsOffsetMap, Abstract!Spec

=============================================================================
