--------------------------- MODULE StrPoolProofs ----------------------------
(***************************************************************************)
(* For every set of strings, every nesting depth and every pool bound: a   *)
(* box no other writer interrupted carries exactly the strings it needs,   *)
(* at the indices it emitted.                                              *)
(***************************************************************************)
EXTENDS StrPool, SequenceTheorems, TLAPS

(* What the pool and one running writer owe each other: the references it
   emitted resolve in the pool, and the pool holds nothing else.            *)
Matches(refs, strs) ==
  /\ Resolves(refs, strs)
  /\ Holds(strs) = Named(refs)
  /\ Distinct(strs)

(* What a finished box owes its reader.                                     *)
BoxOK(t) ==
  ~t.nested => /\ Resolves(t.refs, t.strs)
               /\ Distinct(t.strs)
               /\ ~t.lost => Holds(t.strs) = Named(t.refs)

(* Only the innermost writer can be uninterrupted, and the pool is its own.  *)
IInv ==
  /\ TypeOK
  /\ \A i \in 1 .. Len(stack) : i < Len(stack) => stack[i].nested
  /\ stack # <<>> => (~Top.nested => Matches(Top.refs, pool))
  /\ BoxOK(table)

(* Typing of sequences, in the form the steps below need.                   *)
LEMMA StackFacts ==
  ASSUME TypeOK
  PROVE  /\ Len(stack) \in Nat
         /\ stack # <<>> => /\ Len(stack) \in 1 .. Len(stack)
                            /\ Top \in Writer
                            /\ Top.refs \in SUBSET Ref
                            /\ Top.nested \in BOOLEAN
<1>1. stack \in Seq(Writer) /\ Len(stack) \in Nat /\ stack \in [1 .. Len(stack) -> Writer]
  BY LenProperties DEF TypeOK
<1>2. ASSUME stack # <<>>  PROVE Len(stack) \in 1 .. Len(stack)
  BY <1>1, <1>2, EmptySeq
<1>3. ASSUME stack # <<>>  PROVE Top \in Writer
  BY <1>1, <1>2, <1>3 DEF Top
<1>4. \A w \in Writer : w.refs \in SUBSET Ref /\ w.nested \in BOOLEAN
  BY DEF Writer
<1>. QED  BY <1>1, <1>2, <1>3, <1>4

(* Replacing the innermost call leaves a stack of calls.                    *)
LEMMA SetTopType ==
  ASSUME TypeOK, stack # <<>>, NEW w \in Writer
  PROVE  /\ SetTop(w) \in Seq(Writer)
         /\ Len(SetTop(w)) = Len(stack)
         /\ SetTop(w)[Len(stack)] = w
         /\ \A i \in 1 .. Len(stack) : i # Len(stack) => SetTop(w)[i] = stack[i]
<1>1. stack \in Seq(Writer) /\ Len(stack) \in 1 .. Len(stack)
  BY StackFacts DEF TypeOK
<1>. QED  BY <1>1, ExceptSeq DEF SetTop

(* Starting a writer pushes it and marks the writer it interrupts.          *)
LEMMA StartedType ==
  ASSUME TypeOK, NEW w \in Writer
  PROVE  /\ Started(w) \in Seq(Writer)
         /\ Len(Started(w)) = Len(stack) + 1
         /\ Started(w)[Len(stack) + 1] = w
         /\ stack # <<>> => Started(w)[Len(stack)].nested
         /\ \A i \in 1 .. Len(stack) : i < Len(stack) => Started(w)[i] = stack[i]
<1> DEFINE marked == [Top EXCEPT !.nested = TRUE]
           below == IF stack = <<>> THEN <<>> ELSE SetTop(marked)
<1>1. Started(w) = Append(below, w)
  BY DEF Started
<1>2. stack # <<>> => marked \in Writer /\ marked.nested
  BY StackFacts DEF Writer
<1>3. /\ below \in Seq(Writer)
      /\ Len(below) = Len(stack)
      /\ stack # <<>> => below[Len(stack)] = marked
      /\ \A i \in 1 .. Len(stack) : i < Len(stack) => below[i] = stack[i]
  <2>1. CASE stack = <<>>
    BY <2>1, EmptySeq
  <2>2. CASE stack # <<>>
    <3> HIDE DEF marked
    <3>. QED  BY <2>2, <1>2, SetTopType, StackFacts
  <2>. QED  BY <2>1, <2>2
<1> HIDE DEF below
<1>4. /\ Append(below, w) \in Seq(Writer)
      /\ Len(Append(below, w)) = Len(below) + 1
      /\ \A i \in 1 .. Len(below) : Append(below, w)[i] = below[i]
      /\ Append(below, w)[Len(below) + 1] = w
  BY <1>3, AppendProperties
<1>5. stack # <<>> => Len(stack) \in 1 .. Len(stack)
  BY StackFacts
<1>. QED  BY <1>1, <1>2, <1>3, <1>4, <1>5, StackFacts

(* strpool_add returns an index of the pool, and the pool stays typed.      *)
LEMMA AddType ==
  ASSUME pool \in Seq(Strings), NEW s \in Strings
  PROVE  /\ Add(s).pool \in Seq(Strings)
         /\ Add(s).idx \in Nat
<1>1. CASE s \in PoolStrings
  <2>1. \E i \in DOMAIN pool : pool[i] = s
    BY <1>1 DEF PoolStrings
  <2>2. Found(s) \in DOMAIN pool
    BY <2>1 DEF Found
  <2>3. Found(s) - 1 \in Nat
    BY <2>2, LenProperties
  <2>. QED  BY <1>1, <2>3 DEF Add
<1>2. CASE s \notin PoolStrings
  BY <1>2, AppendProperties, LenProperties DEF Add
<1>. QED  BY <1>1, <1>2

(* strpool_add keeps a body and the pool in agreement: the index it returns
   resolves to s, earlier indices keep their meaning, no string is stored
   twice and none is stored without being referenced.                       *)
LEMMA AddMatches ==
  ASSUME pool \in Seq(Strings), NEW s \in Strings, NEW refs \in SUBSET Ref,
         Matches(refs, pool)
  PROVE  Matches(refs \cup {<<Add(s).idx, s>>}, Add(s).pool)
<1> DEFINE all == refs \cup {<<Add(s).idx, s>>}
<1>0. Len(pool) \in Nat /\ DOMAIN pool = 1 .. Len(pool)
  BY LenProperties
<1>1. Named(all) = Named(refs) \cup {s}
  <2>1. \A i : <<i, s>>[2] = s
    OBVIOUS
  <2>. QED  BY <2>1 DEF Named
<1>2. CASE s \in PoolStrings
  <2>1. Found(s) \in DOMAIN pool /\ pool[Found(s)] = s
    BY <1>2 DEF Found, PoolStrings
  <2>2. Add(s).pool = pool /\ Add(s).idx = Found(s) - 1
    BY <1>2 DEF Add
  <2>3. Resolves({<<Found(s) - 1, s>>}, pool)
    BY <2>1, <1>0 DEF Resolves
  <2>4. Resolves(all, pool)
    BY <2>2, <2>3 DEF Matches, Resolves
  <2>5. s \in Holds(pool)
    BY <2>1 DEF Holds
  <2>. QED  BY <1>1, <2>2, <2>4, <2>5 DEF Matches
<1>3. CASE s \notin PoolStrings
  <2> DEFINE p == Append(pool, s)
  <2>1. /\ p \in Seq(Strings)
        /\ Len(p) = Len(pool) + 1
        /\ \A i \in 1 .. Len(pool) : p[i] = pool[i]
        /\ p[Len(pool) + 1] = s
        /\ DOMAIN p = 1 .. (Len(pool) + 1)
    BY AppendProperties, LenProperties
  <2>2. Add(s).pool = p /\ Add(s).idx = Len(pool)
    BY <1>3 DEF Add
  <2> HIDE DEF p
  <2>3. ASSUME NEW r \in all
        PROVE  r[1] < Len(p) /\ p[r[1] + 1] = r[2]
    <3>1. CASE r \in refs
      <4>1. r[1] \in Nat /\ r[1] < Len(pool) /\ pool[r[1] + 1] = r[2]
        BY <3>1 DEF Matches, Resolves, Ref
      <4>2. r[1] + 1 \in 1 .. Len(pool)
        BY <4>1, <1>0
      <4>. QED  BY <4>1, <4>2, <2>1, <1>0
    <3>2. CASE r = <<Len(pool), s>>
      BY <3>2, <2>1, <1>0
    <3>. QED  BY <3>1, <3>2, <2>2
  <2>4. Holds(p) = Holds(pool) \cup {s}
    <3>1. \A i \in DOMAIN p : i \in DOMAIN pool \/ i = Len(pool) + 1
      BY <2>1, <1>0
    <3>. QED  BY <3>1, <2>1, <1>0 DEF Holds
  <2>5. \A i \in DOMAIN pool : pool[i] # s
    BY <1>3 DEF PoolStrings
  <2>6. Distinct(p)
    BY <2>1, <2>5, <1>0 DEF Distinct, Matches
  <2>7. Resolves(all, p)
    BY <2>3 DEF Resolves
  <2>. QED  BY <1>1, <2>2, <2>4, <2>6, <2>7 DEF Matches
<1>. QED  BY <1>2, <1>3

(* A writer that has just emptied the pool agrees with it.                  *)
LEMMA FreshMatches ==
  /\ Matches({}, <<>>)
  /\ \A name \in Strings : Matches({<<0, name>>}, <<name>>)
<1>1. Matches({}, <<>>)
  BY DEF Matches, Resolves, Holds, Named, Distinct
<1>2. ASSUME NEW name \in Strings  PROVE Matches({<<0, name>>}, <<name>>)
  <2>1. Len(<<name>>) = 1 /\ DOMAIN <<name>> = {1} /\ <<name>>[1] = name
    OBVIOUS
  <2>. QED  BY <2>1 DEF Matches, Resolves, Holds, Named, Distinct
<1>. QED  BY <1>1, <1>2

(* Either kind of start makes the new writer the owner of the pool.         *)
LEMMA StartInv ==
  ASSUME IInv, NEW w \in Writer, NEW p \in Seq(Strings), Matches(w.refs, p),
         pool' = p, stack' = Started(w), table' = NoTable, UNCHANGED enabled
  PROVE  IInv'
<1>1. Len(stack) \in Nat
  BY StackFacts DEF IInv
<1>2. TypeOK'
  BY StartedType, EmptySeq DEF IInv, TypeOK, NoTable
<1>3. ASSUME NEW i \in 1 .. Len(stack'), i < Len(stack')  PROVE stack'[i].nested
  <2>1. i \in 1 .. Len(stack) /\ stack # <<>>
    BY <1>1, <1>3, StartedType, EmptySeq DEF IInv
  <2>2. CASE i = Len(stack)
    BY <2>1, <2>2, StartedType DEF IInv
  <2>3. CASE i # Len(stack)
    <3>1. i < Len(stack) /\ stack'[i] = stack[i]
      BY <1>1, <2>1, <2>3, StartedType DEF IInv
    <3>. QED  BY <2>1, <3>1 DEF IInv
  <2>. QED  BY <2>2, <2>3
<1>4. Top' = w
  BY <1>1, StartedType DEF IInv, Top
<1>5. BoxOK(table)'
  BY FreshMatches DEF NoTable, Matches, BoxOK
<1>. QED  BY <1>2, <1>3, <1>4, <1>5 DEF IInv

(* A prefix of a sequence.                                                  *)
LEMMA PrefixFacts ==
  ASSUME NEW S, NEW s \in Seq(S), NEW k \in 0 .. Len(s)
  PROVE  /\ SubSeq(s, 1, k) \in Seq(S)
         /\ Len(SubSeq(s, 1, k)) = k
         /\ \A i \in 1 .. k : SubSeq(s, 1, k)[i] = s[i]
<1>1. SubSeq(s, 1, k) \in Seq(S)
  BY SubSeqProperties, LenProperties
<1>2. Len(SubSeq(s, 1, k)) = k
  BY SubSeqProperties, LenProperties
<1>3. \A i \in 1 .. k : SubSeq(s, 1, k)[i] = s[i]
  BY SubSeqProperties, LenProperties
<1>. QED  BY <1>1, <1>2, <1>3

(* Popping a writer leaves writers that were all interrupted.               *)
LEMMA PopInv ==
  ASSUME IInv, stack # <<>>, stack' = SubSeq(stack, 1, Len(stack) - 1)
  PROVE  /\ stack' \in Seq(Writer)
         /\ \A i \in 1 .. Len(stack') : stack'[i].nested
         /\ stack' # <<>> => Top'.nested
<1>1. Len(stack) \in Nat /\ Len(stack) > 0 /\ stack \in Seq(Writer)
  BY StackFacts DEF IInv, TypeOK
<1>2. /\ stack' \in Seq(Writer)
      /\ Len(stack') = Len(stack) - 1
      /\ \A i \in 1 .. Len(stack') : stack'[i] = stack[i]
  <2>1. Len(stack) - 1 \in 0 .. Len(stack)
    BY <1>1
  <2>. QED  BY <1>1, <2>1, PrefixFacts
<1>3. ASSUME NEW i \in 1 .. Len(stack')  PROVE stack'[i].nested
  <2>1. i \in 1 .. Len(stack) /\ i < Len(stack)
    BY <1>1, <1>2
  <2>. QED  BY <1>2, <2>1 DEF IInv
<1>4. ASSUME stack' # <<>>  PROVE Len(stack') \in 1 .. Len(stack')
  BY <1>1, <1>2, <1>4, EmptySeq
<1>. QED  BY <1>2, <1>3, <1>4 DEF Top

(* Every step of the writer keeps the invariant.                            *)
LEMMA StepInv == IInv /\ [Next]_vars => IInv'
<1> SUFFICES ASSUME IInv, [Next]_vars PROVE IInv'
  OBVIOUS
<1>0. pool \in Seq(Strings) /\ enabled \in BOOLEAN
  BY DEF IInv, TypeOK
<1>1. CASE StartBox
  <2> DEFINE w == [kind |-> "box", refs |-> {}, nested |-> FALSE]
  <2>1. w \in Writer /\ <<>> \in Seq(Strings) /\ w.refs = {}
    BY EmptySeq DEF Writer
  <2>2. pool' = <<>> /\ stack' = Started(w) /\ table' = NoTable /\ UNCHANGED enabled
    BY <1>1 DEF StartBox
  <2> HIDE DEF w
  <2>. QED  BY <2>1, <2>2, FreshMatches, StartInv
<1>2. ASSUME NEW name \in Strings, StartIdBox(name)  PROVE IInv'
  <2> DEFINE w == [kind |-> "id", refs |-> {<<0, name>>}, nested |-> FALSE]
  <2>1. w \in Writer /\ <<name>> \in Seq(Strings) /\ w.refs = {<<0, name>>}
    BY DEF Writer, Ref
  <2>2. pool' = <<name>> /\ stack' = Started(w) /\ table' = NoTable /\ UNCHANGED enabled
    BY <1>2 DEF StartIdBox
  <2> HIDE DEF w
  <2>. QED  BY <2>1, <2>2, FreshMatches, StartInv
<1>3. ASSUME NEW s \in Strings, EmitString(s)  PROVE IInv'
  <2> DEFINE more == Top.refs \cup {<<Add(s).idx, s>>}
             w == [Top EXCEPT !.refs = more]
  <2>1. /\ stack # <<>>
        /\ pool' = Add(s).pool
        /\ stack' = SetTop(w)
        /\ table' = NoTable
        /\ enabled' = enabled
    BY <1>3 DEF EmitString
  <2>2. Add(s).pool \in Seq(Strings) /\ Add(s).idx \in Nat
    BY <1>0, AddType
  <2>3. /\ Top \in Writer
        /\ Top.refs \in SUBSET Ref
        /\ Len(stack) \in 1 .. Len(stack)
    BY <2>1, StackFacts DEF IInv
  <2>4. w \in Writer /\ w.refs = more /\ w.nested = Top.nested
    BY <2>2, <2>3 DEF Writer, Ref
  <2>5. ~Top.nested => Matches(more, Add(s).pool)
    BY <1>0, <2>1, <2>3, AddMatches DEF IInv
  <2> HIDE DEF w, more
  <2>6. /\ stack' \in Seq(Writer)
        /\ Len(stack') = Len(stack)
        /\ stack'[Len(stack)] = w
        /\ \A i \in 1 .. Len(stack) : i # Len(stack) => stack'[i] = stack[i]
    BY <2>1, <2>4, SetTopType DEF IInv
  <2>7. TypeOK'
    BY <1>0, <2>1, <2>2, <2>6, EmptySeq DEF TypeOK, NoTable
  <2>8. Top' = w
    BY <2>6 DEF Top
  <2>9. \A i \in 1 .. Len(stack') : i < Len(stack') => stack'[i].nested
    BY <2>3, <2>6 DEF IInv
  <2>10. BoxOK(table)'
    BY <2>1, FreshMatches DEF NoTable, Matches, BoxOK
  <2>. QED  BY <2>1, <2>4, <2>5, <2>7, <2>8, <2>9, <2>10 DEF IInv
<1>4. CASE Finish
  <2>1. /\ stack # <<>>
        /\ table' = [refs |-> Top.refs, nested |-> Top.nested, lost |-> FALSE, strs |-> pool]
        /\ stack' = SubSeq(stack, 1, Len(stack) - 1)
        /\ pool' = pool /\ enabled' = enabled
    BY <1>4 DEF Finish
  <2>2. TypeOK'
    BY <1>0, <2>1, PopInv, StackFacts DEF IInv, TypeOK
  <2>3. BoxOK(table)'
    BY <2>1 DEF IInv, Matches, BoxOK
  <2>. QED  BY <2>1, <2>2, <2>3, PopInv DEF IInv
<1>8. CASE FinishWithout
  <2> DEFINE kept == {r \in Top.refs : r[1] = 0}
  <2>1. /\ stack # <<>>
        /\ table' = [refs |-> kept, nested |-> Top.nested, lost |-> TRUE, strs |-> pool]
        /\ stack' = SubSeq(stack, 1, Len(stack) - 1)
        /\ pool' = pool /\ enabled' = enabled
    BY <1>8 DEF FinishWithout
  <2>2. kept \in SUBSET Top.refs /\ Top.refs \in SUBSET Ref /\ Top.nested \in BOOLEAN
    BY <2>1, StackFacts DEF IInv
  <2>3. ~Top.nested => Resolves(kept, pool) /\ Distinct(pool)
    BY <2>1, <2>2 DEF IInv, Matches, Resolves
  <2> HIDE DEF kept
  <2>4. TypeOK'
    BY <1>0, <2>1, <2>2, PopInv DEF IInv, TypeOK
  <2>5. BoxOK(table)'
    BY <2>1, <2>3 DEF BoxOK
  <2>. QED  BY <2>1, <2>4, <2>5, PopInv DEF IInv
<1>5. CASE Abandon
  <2>1. /\ stack # <<>>
        /\ table' = NoTable
        /\ stack' = SubSeq(stack, 1, Len(stack) - 1)
        /\ pool' = pool /\ enabled' = enabled
    BY <1>5 DEF Abandon
  <2>2. TypeOK'
    BY <1>0, <2>1, PopInv, EmptySeq DEF TypeOK, NoTable
  <2>3. BoxOK(table)'
    BY <2>1, FreshMatches DEF NoTable, Matches, BoxOK
  <2>. QED  BY <2>1, <2>2, <2>3, PopInv DEF IInv
<1>6. ASSUME NEW on \in BOOLEAN, SetUseStrpool(on)  PROVE IInv'
  <2>1. stack' = stack /\ pool' = pool /\ table' = NoTable /\ enabled' = on
    BY <1>6 DEF SetUseStrpool
  <2>2. TypeOK'
    BY <2>1, EmptySeq DEF IInv, TypeOK, NoTable
  <2>3. BoxOK(table)'
    BY <2>1, FreshMatches DEF NoTable, Matches, BoxOK
  <2>. QED  BY <2>1, <2>2, <2>3 DEF IInv, Top
<1>7. CASE UNCHANGED vars
  BY <1>7 DEF vars, IInv, TypeOK, Top, BoxOK
<1>. QED  BY <1>1, <1>2, <1>3, <1>4, <1>5, <1>6, <1>7, <1>8 DEF Next

(* The invariant holds of every state.                                      *)
LEMMA Invariance == Spec => []IInv
<1>1. Init => IInv
  BY EmptySeq, FreshMatches DEF Init, IInv, TypeOK, NoTable, Matches, BoxOK
<1>. QED  BY <1>1, StepInv, PTL DEF Spec

(* The global pool, the running writers and the finished box keep their
   types.                                                                   *)
THEOREM StrPoolTyped == Spec => []TypeOK
<1>1. IInv => TypeOK
  BY DEF IInv
<1>. QED  BY <1>1, Invariance, PTL

(* A box that no other writer interrupted can be read back: every index in
   it names, in its own table, the string it was emitted for, whatever was
   written or abandoned on the same global pool before.                     *)
THEOREM UninterruptedBoxResolves == Spec => []TableResolves
<1>1. IInv => TableResolves
  BY DEF IInv, TableResolves, BoxOK
<1>. QED  BY <1>1, Invariance, PTL

(* Its table holds the strings of the box, each once, and nothing else.     *)
THEOREM UninterruptedBoxExact == Spec => []TableExact
<1>1. IInv => TableExact
  BY DEF IInv, TableExact, BoxOK
<1>. QED  BY <1>1, Invariance, PTL
=============================================================================
