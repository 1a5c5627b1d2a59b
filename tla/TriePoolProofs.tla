--------------------------- MODULE TriePoolProofs ---------------------------
(***************************************************************************)
(* For every alphabet, every pool of strings and every bound: the table    *)
(* strpool_write_tail writes is a tree with one leaf per string, no reader *)
(* leaves it, and the name reader recovers the string of the index.        *)
(* What a node spells is a recursion over its ancestors; instead of        *)
(* defining it, the invariant says that a labelling of the nodes with the  *)
(* strings they spell exists, and each step extends the labelling.         *)
(***************************************************************************)
EXTENDS TriePool, SequenceTheorems, TLAPS

(* sp[n] is the string node n spells.                                       *)
Spells(sp) ==
  /\ sp \in [1 .. Len(nodes) -> Seq(Chars)]
  /\ sp[1] = <<>>
  /\ \A n \in 1 .. Len(nodes) :
       n # 1 => sp[n] = Append(sp[nodes[n].parent], nodes[n].ch)
  /\ \A n, m \in 1 .. Len(nodes) : sp[n] = sp[m] => n = m

(* The strings before the current one have leaves; no other string has.     *)
LeavesOK(sp) ==
  /\ \A n \in 1 .. Len(nodes) : nodes[n].leaf # 0 =>
       /\ nodes[n].leaf \in 1 .. i - 1
       /\ sp[n] = strs[nodes[n].leaf]
  /\ \A s \in 1 .. i - 1 : \E n \in 1 .. Len(nodes) : nodes[n].leaf = s

(* The writer's node spells what was inserted of the current string.        *)
WriterOK(sp) ==
  IF pc = "build"
  THEN i <= Len(strs) => k <= Len(strs[i]) /\ sp[cur] = SubSeq(strs[i], 1, k)
  ELSE i = Len(strs) + 1

(* What the reader's node spells and what it has collected make the string. *)
ReaderOK(sp) ==
  /\ pc = "name" => /\ idx + 1 \in 1 .. Len(strs)
                    /\ sp[cur] \o Reverse(tmp) = strs[idx + 1]
  /\ pc = "named" => /\ idx + 1 \in 1 .. Len(strs)
                     /\ Reverse(tmp) = strs[idx + 1]
  /\ pc = "missing" => idx >= Len(strs)

PoolOK ==
  /\ \A s \in 1 .. Len(strs) : Len(strs[s]) <= MaxString
  /\ \A s, t \in 1 .. Len(strs) : strs[s] = strs[t] => s = t

Good(sp) == Spells(sp) /\ LeavesOK(sp) /\ WriterOK(sp) /\ ReaderOK(sp)

IInv == TypeOK /\ PoolOK /\ ParentsFirst /\ \E sp : Good(sp)

-----------------------------------------------------------------------------
(* Sequences.                                                              *)

(* A reversed row is a row over the same set.                               *)
LEMMA ReverseType ==
  ASSUME NEW s \in Seq(Chars)
  PROVE  /\ Reverse(s) \in Seq(Chars)
         /\ Len(Reverse(s)) = Len(s)
         /\ \A n \in 1 .. Len(s) : Reverse(s)[n] = s[Len(s) + 1 - n]
<1>1. Len(s) \in Nat /\ \A n \in 1 .. Len(s) : s[n] \in Chars
  BY LenProperties
<1>2. \A n \in 1 .. Len(s) : Len(s) + 1 - n \in 1 .. Len(s)
  BY <1>1
<1>3. Reverse(s) \in [1 .. Len(s) -> Chars]
  BY <1>1, <1>2 DEF Reverse
<1>4. Reverse(s) \in Seq(Chars) /\ Len(Reverse(s)) = Len(s)
  BY <1>1, <1>3, LenProperties, SeqDef
<1>. QED  BY <1>1, <1>4 DEF Reverse

(* Rows that are the same with one more character were the same before.     *)
LEMMA AppendSame ==
  ASSUME NEW s \in Seq(Chars), NEW t \in Seq(Chars), NEW c \in Chars, NEW d \in Chars,
         Append(s, c) = Append(t, d)
  PROVE  s = t /\ c = d
BY AppendInjective

(* One character more collected is one less to spell.                       *)
LEMMA ReverseAppend ==
  ASSUME NEW s \in Seq(Chars), NEW c \in Chars, NEW t \in Seq(Chars)
  PROVE  t \o Reverse(Append(s, c)) = Append(t, c) \o Reverse(s)
<1> DEFINE a == Append(s, c)
           l == t \o Reverse(a)
           r == Append(t, c) \o Reverse(s)
<1>0. Len(s) \in Nat /\ Len(t) \in Nat
  BY LenProperties
<1>1. /\ a \in Seq(Chars) /\ Len(a) = Len(s) + 1 /\ a[Len(s) + 1] = c
      /\ \A n \in 1 .. Len(s) : a[n] = s[n]
  BY AppendProperties
<1>2. /\ Append(t, c) \in Seq(Chars) /\ Len(Append(t, c)) = Len(t) + 1
      /\ Append(t, c)[Len(t) + 1] = c
      /\ \A n \in 1 .. Len(t) : Append(t, c)[n] = t[n]
  BY AppendProperties
<1> HIDE DEF a
<1>3. /\ Reverse(a) \in Seq(Chars) /\ Len(Reverse(a)) = Len(s) + 1
      /\ \A n \in 1 .. Len(s) + 1 : Reverse(a)[n] = a[Len(s) + 2 - n]
  <2>1. \A n \in 1 .. Len(s) + 1 : Len(s) + 1 + 1 - n = Len(s) + 2 - n
    BY <1>0
  <2>. QED  BY <1>0, <1>1, ReverseType
<1>4. /\ Reverse(s) \in Seq(Chars) /\ Len(Reverse(s)) = Len(s)
      /\ \A n \in 1 .. Len(s) : Reverse(s)[n] = s[Len(s) + 1 - n]
  BY ReverseType
<1>5. /\ l \in Seq(Chars) /\ Len(l) = Len(t) + Len(s) + 1
      /\ \A n \in 1 .. Len(t) + Len(s) + 1 :
           l[n] = IF n <= Len(t) THEN t[n] ELSE Reverse(a)[n - Len(t)]
  <2> DEFINE u == Reverse(a)
  <2>1. u \in Seq(Chars) /\ Len(u) = Len(s) + 1
    BY <1>3
  <2> HIDE DEF u
  <2>2. /\ t \o u \in Seq(Chars) /\ Len(t \o u) = Len(t) + Len(u)
        /\ \A n \in 1 .. Len(t) + Len(u) :
             (t \o u)[n] = IF n <= Len(t) THEN t[n] ELSE u[n - Len(t)]
    BY <2>1, ConcatProperties
  <2>3. Len(t) + Len(u) = Len(t) + Len(s) + 1
    BY <1>0, <2>1
  <2>. QED  BY <2>2, <2>3 DEF u
<1>6. /\ r \in Seq(Chars) /\ Len(r) = Len(t) + Len(s) + 1
      /\ \A n \in 1 .. Len(t) + Len(s) + 1 :
           r[n] = IF n <= Len(t) + 1 THEN Append(t, c)[n] ELSE Reverse(s)[n - (Len(t) + 1)]
  <2> DEFINE u == Reverse(s)
             w == Append(t, c)
  <2>1. u \in Seq(Chars) /\ Len(u) = Len(s) /\ w \in Seq(Chars) /\ Len(w) = Len(t) + 1
    BY <1>2, <1>4
  <2> HIDE DEF u, w
  <2>2. /\ w \o u \in Seq(Chars) /\ Len(w \o u) = Len(w) + Len(u)
        /\ \A n \in 1 .. Len(w) + Len(u) :
             (w \o u)[n] = IF n <= Len(w) THEN w[n] ELSE u[n - Len(w)]
    <3>1. w \in Seq(Chars) /\ u \in Seq(Chars)
      BY <2>1
    <3>. QED  BY <3>1, ConcatProperties
  <2>3. Len(w) + Len(u) = Len(t) + Len(s) + 1
    BY <1>0, <2>1
  <2>. QED  BY <2>1, <2>2, <2>3 DEF u, w
<1> HIDE DEF l, r
<1>7. ASSUME NEW n \in 1 .. Len(t) + Len(s) + 1  PROVE l[n] = r[n]
  <2>1. CASE n <= Len(t)
    <3>1. n \in 1 .. Len(t) /\ n <= Len(t) + 1
      BY <2>1, <1>0
    <3>2. l[n] = t[n]
      BY <2>1, <1>5
    <3>3. r[n] = Append(t, c)[n]
      BY <3>1, <1>6
    <3>. QED  BY <3>1, <3>2, <3>3, <1>2
  <2>2. CASE n = Len(t) + 1
    <3>1. n - Len(t) = 1 /\ 1 \in 1 .. Len(s) + 1 /\ Len(s) + 2 - 1 = Len(s) + 1
      BY <2>2, <1>0
    <3>2. l[n] = c
      BY SMTT(30), <2>2, <3>1, <1>0, <1>1, <1>3, <1>5
    <3>. QED  BY <2>2, <3>2, <1>0, <1>2, <1>6
  <2>3. CASE n > Len(t) + 1
    <3> DEFINE j == n - Len(t)
    <3>1. /\ j \in 2 .. Len(s) + 1 /\ j \in 1 .. Len(s) + 1
          /\ n - (Len(t) + 1) = j - 1 /\ j - 1 \in 1 .. Len(s)
          /\ Len(s) + 2 - j \in 1 .. Len(s)
          /\ Len(s) + 1 - (j - 1) = Len(s) + 2 - j
      BY <2>3, <1>0
    <3>2. l[n] = Reverse(a)[j]
      BY <2>3, <1>0, <1>5
    <3>3. r[n] = Reverse(s)[j - 1]
      BY <2>3, <3>1, <1>0, <1>6
    <3> HIDE DEF j
    <3>4. l[n] = s[Len(s) + 2 - j]
      BY <3>1, <3>2, <1>1, <1>3
    <3>5. r[n] = s[Len(s) + 2 - j]
      BY <3>1, <3>3, <1>4
    <3>. QED  BY <3>4, <3>5
  <2>. QED  BY <2>1, <2>2, <2>3, <1>0
<1>8. l = r
  BY <1>5, <1>6, <1>7, SeqEqual
<1>. QED  BY <1>8 DEF l, r, a

-----------------------------------------------------------------------------
(* Facts of a reachable state.                                             *)

(* What is known of a node of the table.                                    *)
LEMMA NodeFacts ==
  ASSUME TypeOK
  PROVE  /\ Len(nodes) \in Nat
         /\ DOMAIN nodes = 1 .. Len(nodes)
         /\ cur \in 1 .. Len(nodes)
         /\ \A n \in 1 .. Len(nodes) :
              /\ nodes[n] \in Node
              /\ nodes[n].parent \in Nat
              /\ nodes[n].ch \in Chars \cup {NoChar}
              /\ nodes[n].leaf \in Nat
<1>1. Len(nodes) \in Nat /\ DOMAIN nodes = 1 .. Len(nodes)
  BY LenProperties DEF TypeOK
<1>2. \A n \in 1 .. Len(nodes) : nodes[n] \in Node
  BY <1>1 DEF TypeOK
<1>. QED  BY <1>1, <1>2 DEF TypeOK, Node

(* What is known of a string of the pool.                                   *)
LEMMA StrFacts ==
  ASSUME TypeOK
  PROVE  /\ Len(strs) \in Nat
         /\ \A s \in 1 .. Len(strs) : strs[s] \in Seq(Chars) /\ Len(strs[s]) \in Nat
<1>1. Len(strs) \in Nat /\ \A s \in 1 .. Len(strs) : strs[s] \in Seq(Chars)
  BY LenProperties DEF TypeOK
<1>. QED  BY <1>1, LenProperties

(* The nodes of a tree: the parent of every node but the root is a node.    *)
LEMMA ParentFacts ==
  ASSUME TypeOK, ParentsFirst, NEW n \in 1 .. Len(nodes)
  PROVE  /\ n # 1 => nodes[n].parent \in 1 .. Len(nodes) /\ nodes[n].ch \in Chars
         /\ n = 1 => nodes[n].parent = 0 /\ nodes[n].ch = NoChar
         /\ nodes[n].parent + 1 \in 1 .. Len(nodes)
BY NodeFacts, TrieAssumption DEF ParentsFirst

(* An index has at most one leaf, so the search for it finds that one.      *)
LEMMA LeafUnique ==
  ASSUME TypeOK, NEW sp, Spells(sp), LeavesOK(sp), NEW x \in Nat
  PROVE  /\ \A n \in Leaves(x) : /\ Leaves(x) = {n}
                                 /\ First(Leaves(x)) = n
                                 /\ n \in 1 .. Len(nodes)
                                 /\ x + 1 \in 1 .. i - 1
                                 /\ sp[n] = strs[x + 1]
<1> SUFFICES ASSUME NEW n \in Leaves(x)
             PROVE  /\ Leaves(x) = {n}
                    /\ First(Leaves(x)) = n
                    /\ n \in 1 .. Len(nodes)
                    /\ x + 1 \in 1 .. i - 1
                    /\ sp[n] = strs[x + 1]
  OBVIOUS
<1>1. x + 1 # 0
  OBVIOUS
<1>2. \A m \in Leaves(x) : /\ m \in 1 .. Len(nodes)
                           /\ x + 1 \in 1 .. i - 1
                           /\ sp[m] = strs[x + 1]
  BY <1>1, NodeFacts DEF Leaves, LeavesOK
<1>3. \A m \in Leaves(x) : m = n
  BY <1>2 DEF Spells
<1>4. n <= n
  BY <1>2, NodeFacts
<1>5. First(Leaves(x)) = n
  BY <1>3, <1>4 DEF First
<1>. QED  BY <1>2, <1>3, <1>5

-----------------------------------------------------------------------------
(* The writer.                                                             *)

(* The character inserted next and the prefix before it.                    *)
LEMMA InsertFacts ==
  ASSUME IInv, InsertChar
  PROVE  /\ pc = "build" /\ i \in 1 .. Len(strs) /\ k \in Nat /\ k + 1 \in 1 .. Len(strs[i])
         /\ strs[i] \in Seq(Chars) /\ strs[i][k + 1] \in Chars
         /\ SubSeq(strs[i], 1, k) \in Seq(Chars)
         /\ SubSeq(strs[i], 1, k + 1) = Append(SubSeq(strs[i], 1, k), strs[i][k + 1])
<1>1. /\ pc = "build" /\ i \in 1 .. Len(strs) /\ k \in Nat /\ k + 1 \in 1 .. Len(strs[i])
      /\ strs[i] \in Seq(Chars) /\ Len(strs[i]) \in Nat
  BY StrFacts DEF IInv, InsertChar, TypeOK
<1>2. strs[i][k + 1] \in Chars
  BY <1>1, LenProperties
<1> DEFINE z == strs[i]
<1>3. z \in Seq(Chars) /\ Len(z) \in Nat /\ k \in Nat /\ k + 1 \in 1 .. Len(z)
  BY <1>1
<1> HIDE DEF z
<1>4. SubSeq(z, 1, k) \in Seq(Chars)
  <2>1. \A j \in 1 .. k : z[j] \in Chars
    BY <1>3, LenProperties
  <2>. QED  BY <1>3, <2>1, SubSeqProperties
<1>5. SubSeq(z, 1, k + 1) = SubSeq(z, 1, k) \o <<z[k + 1]>>
  <2>1. 1 \in 1 .. Len(z) /\ k + 1 \in 1 .. Len(z) /\ k + 1 - 1 = k
    BY <1>3
  <2>2. SubSeq(z, 1, k + 1) = SubSeq(z, 1, k + 1 - 1) \o <<z[k + 1]>>
    BY <1>3, <2>1, SubSeqRecursiveSecond
  <2>. QED  BY <2>1, <2>2
<1>6. SubSeq(z, 1, k) \o <<z[k + 1]>> = Append(SubSeq(z, 1, k), z[k + 1])
  BY <1>2, <1>4, AppendIsConcat DEF z
<1>. QED  BY <1>1, <1>2, <1>4, <1>5, <1>6 DEF z

(* Inserting a character keeps the invariant.                               *)
LEMMA InsertStep == IInv /\ InsertChar => IInv'
<1> SUFFICES ASSUME IInv, InsertChar  PROVE IInv'
  OBVIOUS
<1> DEFINE c == strs[i][k + 1]
<1>0. PICK sp : Good(sp)
  BY DEF IInv
<1>1. /\ UNCHANGED <<strs, i, tmp, idx, pc>> /\ k' = k + 1 /\ pc = "build"
      /\ TypeOK /\ ParentsFirst /\ PoolOK
  BY DEF IInv, InsertChar
<1>2. /\ i \in 1 .. Len(strs) /\ k \in Nat /\ k + 1 \in 1 .. Len(strs[i])
      /\ c \in Chars /\ c # NoChar
      /\ sp[cur] = SubSeq(strs[i], 1, k) /\ sp[cur] \in Seq(Chars)
      /\ SubSeq(strs[i], 1, k') = Append(sp[cur], c)
  <2>1. /\ i \in 1 .. Len(strs) /\ k \in Nat /\ k + 1 \in 1 .. Len(strs[i])
        /\ c \in Chars /\ SubSeq(strs[i], 1, k) \in Seq(Chars)
        /\ SubSeq(strs[i], 1, k + 1) = Append(SubSeq(strs[i], 1, k), c)
    BY InsertFacts
  <2>2. i <= Len(strs)
    BY <2>1, <1>1, StrFacts
  <2>3. sp[cur] = SubSeq(strs[i], 1, k)
    BY <1>0, <1>1, <2>2 DEF Good, WriterOK
  <2>4. c # NoChar
    BY <2>1, TrieAssumption
  <2>. QED  BY <1>1, <2>1, <2>3, <2>4
<1>c. (pc' = "build" => k' <= Len(strs[i])) /\ c = strs[i][k + 1]
  BY <1>1, <1>2, StrFacts
<1>3. PoolOK'
  BY <1>1 DEF PoolOK
<1>4. CASE Child(cur, c) # {}
  <2>1. nodes' = nodes /\ cur' \in Child(cur, c)
    BY <1>4 DEF InsertChar
  <2> HIDE DEF c
  <2>2. /\ cur' \in 1 .. Len(nodes) /\ cur' \in DOMAIN nodes
        /\ nodes[cur'].parent = cur /\ nodes[cur'].ch = c
    BY <2>1, <1>1, NodeFacts DEF Child
  <2>3. cur' # 1
    BY <1>2, <2>2, <1>1, ParentFacts
  <2>4. sp[cur'] = Append(sp[cur], c)
    BY <1>0, <2>2, <2>3 DEF Good, Spells
  <2>5. TypeOK' /\ ParentsFirst'
    BY <1>1, <1>2, <2>1, <2>2 DEF TypeOK, ParentsFirst
  <2>6. Spells(sp)' /\ LeavesOK(sp)'
    BY <1>0, <1>1, <2>1 DEF Good, Spells, LeavesOK
  <2>7. WriterOK(sp)' /\ ReaderOK(sp)'
    BY <1>1, <1>2, <1>c, <2>1, <2>4, StrFacts DEF WriterOK, ReaderOK
  <2>. QED  BY <1>3, <2>5, <2>6, <2>7 DEF IInv, Good
<1>5. CASE Child(cur, c) = {}
  <2> DEFINE e == [parent |-> cur, ch |-> c, leaf |-> 0]
             L == Len(nodes)
  <2>1. nodes' = Append(nodes, e) /\ cur' = L + 1
    BY <1>5 DEF InsertChar
  <2> HIDE DEF c
  <2>2. /\ L \in Nat /\ cur \in 1 .. L /\ nodes \in Seq(Node)
        /\ e \in Node
    BY <1>1, <1>2, NodeFacts DEF TypeOK, Node
  <2>3. /\ nodes' \in Seq(Node) /\ Len(nodes') = L + 1 /\ nodes'[L + 1] = e
        /\ \A n \in 1 .. L : nodes'[n] = nodes[n]
        /\ DOMAIN nodes' = 1 .. L + 1
    <3> HIDE DEF e
    <3>1. /\ nodes' \in Seq(Node) /\ Len(nodes') = L + 1 /\ nodes'[L + 1] = e
          /\ \A n \in 1 .. L : nodes'[n] = nodes[n]
      BY <2>1, <2>2, AppendProperties
    <3>. QED  BY <3>1, LenProperties
  <2>4. /\ nodes'[L + 1].parent = cur /\ nodes'[L + 1].ch = c /\ nodes'[L + 1].leaf = 0
    BY <2>3
  <2> HIDE DEF e
  <2>5. \A n \in 1 .. L + 1 : n \in 1 .. L \/ n = L + 1
    BY <2>2
  <2>6. \A n \in 1 .. L : ~(nodes[n].parent = cur /\ nodes[n].ch = c)
    BY <1>5, <1>1, NodeFacts DEF Child
  <2>7. TypeOK'
    <3>1. cur' \in DOMAIN nodes'
      BY <2>1, <2>2, <2>3
    <3>. QED  BY <1>1, <1>2, <2>3, <3>1 DEF TypeOK
  <2>8. ParentsFirst'
    <3>1. ASSUME NEW n \in 1 .. L + 1
          PROVE  /\ nodes'[n].parent < n
                 /\ nodes'[n].parent = 0 <=> n = 1
                 /\ nodes'[n].ch = NoChar <=> n = 1
      <4>1. CASE n = L + 1
        BY <4>1, <1>2, <2>2, <2>4
      <4>2. CASE n \in 1 .. L
        BY <4>2, <1>1, <2>3, NodeFacts DEF ParentsFirst
      <4>. QED  BY <4>1, <4>2, <2>5
    <3>u. \A a, b \in 1 .. L :
            nodes[a].parent = nodes[b].parent /\ nodes[a].ch = nodes[b].ch => a = b
      BY <1>1, NodeFacts DEF ParentsFirst
    <3>2. ASSUME NEW n \in 1 .. L + 1, NEW m \in 1 .. L + 1,
                 nodes'[n].parent = nodes'[m].parent, nodes'[n].ch = nodes'[m].ch
          PROVE  n = m
      <4>1. CASE n \in 1 .. L /\ m \in 1 .. L
        <5>1. nodes'[n] = nodes[n] /\ nodes'[m] = nodes[m]
          BY <4>1, <2>3
        <5>. QED  BY <4>1, <5>1, <3>2, <3>u
      <4>2. CASE n = L + 1 /\ m \in 1 .. L
        BY <4>2, <3>2, <2>3, <2>4, <2>6
      <4>3. CASE m = L + 1 /\ n \in 1 .. L
        BY <4>3, <3>2, <2>3, <2>4, <2>6
      <4>. QED  BY <4>1, <4>2, <4>3, <2>5
    <3>. QED  BY <3>1, <3>2, <2>3 DEF ParentsFirst
  <2>q. PICK q : q = [n \in 1 .. L + 1 |-> IF n = L + 1 THEN Append(sp[cur], c) ELSE sp[n]]
    OBVIOUS
  <2>9. /\ \A n \in 1 .. L : q[n] = sp[n]
        /\ q[L + 1] = Append(sp[cur], c)
        /\ Append(sp[cur], c) \in Seq(Chars)
        /\ q \in [1 .. L + 1 -> Seq(Chars)]
    <3>1. Append(sp[cur], c) \in Seq(Chars)
      BY <1>2, AppendProperties
    <3>2. sp \in [1 .. L -> Seq(Chars)]
      BY <1>0 DEF Good, Spells
    <3>. QED  BY <2>2, <2>5, <2>q, <3>1, <3>2
  <2>10. \A n \in 1 .. L : q[n] # q[L + 1]
    <3>1. ASSUME NEW n \in 1 .. L, sp[n] = Append(sp[cur], c)  PROVE FALSE
      <4>1. CASE n = 1
        <5>1. sp[n] = <<>>
          BY <4>1, <1>0 DEF Good, Spells
        <5>. QED  BY <5>1, <3>1, <1>2, AppendProperties
      <4>2. CASE n # 1
        <5>1. nodes[n].parent \in 1 .. L /\ nodes[n].ch \in Chars
          BY <4>2, <1>1, ParentFacts
        <5>2. sp[n] = Append(sp[nodes[n].parent], nodes[n].ch)
          BY <4>2, <1>0 DEF Good, Spells
        <5>3. sp[nodes[n].parent] \in Seq(Chars)
          BY <5>1, <1>0 DEF Good, Spells
        <5>4. sp[nodes[n].parent] = sp[cur] /\ nodes[n].ch = c
          <6> DEFINE x == sp[nodes[n].parent]
                     y == sp[cur]
                     d == nodes[n].ch
          <6>1. /\ x \in Seq(Chars) /\ y \in Seq(Chars) /\ d \in Chars /\ c \in Chars
                /\ Append(x, d) = Append(y, c)
            BY <5>1, <5>2, <5>3, <3>1, <1>2
          <6> HIDE DEF x, y, d
          <6>2. x = y /\ d = c
            BY <6>1, AppendSame
          <6>. QED  BY <6>2 DEF x, y, d
        <5>5. nodes[n].parent = cur
          BY <5>1, <5>4, <2>2, <1>0 DEF Good, Spells
        <5>. QED  BY <5>4, <5>5, <2>6
      <4>. QED  BY <4>1, <4>2
    <3>. QED  BY <3>1, <2>9
  <2>11. Spells(q)'
    <3>1. q[1] = <<>>
      BY <1>0, <2>2, <2>9 DEF Good, Spells
    <3>2. ASSUME NEW n \in 1 .. L + 1, n # 1
          PROVE  q[n] = Append(q[nodes'[n].parent], nodes'[n].ch)
      <4>1. CASE n = L + 1
        BY <4>1, <2>2, <2>4, <2>9
      <4>2. CASE n \in 1 .. L
        <5>1. nodes[n].parent \in 1 .. L
          BY <4>2, <3>2, <1>1, ParentFacts
        <5>2. sp[n] = Append(sp[nodes[n].parent], nodes[n].ch)
          BY <4>2, <3>2, <1>0 DEF Good, Spells
        <5>. QED  BY <4>2, <5>1, <5>2, <2>3, <2>9
      <4>. QED  BY <4>1, <4>2, <2>5
    <3>3. ASSUME NEW n \in 1 .. L + 1, NEW m \in 1 .. L + 1, q[n] = q[m]
          PROVE  n = m
      <4>1. CASE n \in 1 .. L /\ m \in 1 .. L
        BY <4>1, <3>3, <1>0, <2>9 DEF Good, Spells
      <4>. QED  BY <4>1, <3>3, <2>5, <2>10
    <3>. QED  BY <3>1, <3>2, <3>3, <2>3, <2>9 DEF Spells
  <2>12. LeavesOK(q)'
    <3>1. ASSUME NEW n \in 1 .. L + 1, nodes'[n].leaf # 0
          PROVE  nodes'[n].leaf \in 1 .. i - 1 /\ q[n] = strs[nodes'[n].leaf]
      <4>1. n \in 1 .. L
        BY <3>1, <2>4, <2>5
      <4>. QED  BY <3>1, <4>1, <1>0, <2>3, <2>9 DEF Good, LeavesOK
    <3>2. ASSUME NEW s \in 1 .. i - 1  PROVE \E n \in 1 .. L + 1 : nodes'[n].leaf = s
      <4>1. PICK n \in 1 .. L : nodes[n].leaf = s
        BY <1>0 DEF Good, LeavesOK
      <4>. QED  BY <4>1, <2>2, <2>3
    <3>. QED  BY <1>1, <3>1, <3>2, <2>3 DEF LeavesOK
  <2>13. WriterOK(q)' /\ ReaderOK(q)'
    BY <1>1, <1>2, <1>c, <2>1, <2>9, StrFacts DEF WriterOK, ReaderOK
  <2>. QED  BY <1>3, <2>7, <2>8, <2>11, <2>12, <2>13 DEF IInv, Good
<1>. QED  BY <1>4, <1>5

(* The leaf of a finished string is set on a node that was no leaf.         *)
LEMMA EndStep == IInv /\ EndString => IInv'
<1> SUFFICES ASSUME IInv, EndString  PROVE IInv'
  OBVIOUS
<1> DEFINE L == Len(nodes)
<1>0. PICK sp : Good(sp)
  BY DEF IInv
<1>1. /\ UNCHANGED <<strs, tmp, idx, pc>> /\ i' = i + 1 /\ k' = 0 /\ cur' = 1
      /\ pc = "build" /\ nodes' = [nodes EXCEPT ![cur].leaf = i]
      /\ TypeOK /\ ParentsFirst /\ PoolOK
  BY DEF IInv, EndString
<1>2. /\ i \in 1 .. Len(strs) /\ k = Len(strs[i]) /\ Len(strs) \in Nat
      /\ strs[i] \in Seq(Chars) /\ i \in Nat
  BY <1>1, StrFacts DEF EndString, TypeOK
<1>3. sp[cur] = strs[i]
  <2>1. sp[cur] = SubSeq(strs[i], 1, Len(strs[i]))
    BY <1>0, <1>1, <1>2 DEF Good, WriterOK, EndString
  <2>2. \A z \in Seq(Chars) : SubSeq(z, 1, Len(z)) = z
    BY SubSeqFull
  <2>. QED  BY <1>2, <2>1, <2>2
<1>4. /\ L \in Nat /\ cur \in 1 .. L /\ nodes \in Seq(Node) /\ DOMAIN nodes = 1 .. L
      /\ \A n \in 1 .. L : nodes[n] \in Node
  BY <1>1, NodeFacts DEF TypeOK
<1> DEFINE e == [nodes[cur] EXCEPT !.leaf = i]
<1>5. /\ e \in Node /\ e.leaf = i /\ e.parent = nodes[cur].parent /\ e.ch = nodes[cur].ch
      /\ nodes' = [nodes EXCEPT ![cur] = e]
  <2>1. nodes[cur] \in Node
    BY <1>4
  <2>. QED  BY <1>1, <1>2, <2>1 DEF Node
<1> HIDE DEF e
<1>6. /\ nodes' \in Seq(Node) /\ Len(nodes') = L /\ DOMAIN nodes' = 1 .. L
      /\ nodes'[cur] = e /\ \A n \in 1 .. L : n # cur => nodes'[n] = nodes[n]
  <2>1. /\ nodes' \in Seq(Node) /\ Len(nodes') = L
        /\ nodes'[cur] = e /\ \A n \in 1 .. L : n # cur => nodes'[n] = nodes[n]
    BY <1>4, <1>5, ExceptSeq
  <2>. QED  BY <2>1, LenProperties
<1>7. \A n \in 1 .. L : /\ nodes'[n].parent = nodes[n].parent
                        /\ nodes'[n].ch = nodes[n].ch
                        /\ nodes'[n].leaf = IF n = cur THEN i ELSE nodes[n].leaf
  BY <1>5, <1>6
<1>8. nodes[cur].leaf = 0
  <2>1. SUFFICES ASSUME nodes[cur].leaf # 0  PROVE FALSE
    OBVIOUS
  <2>2. nodes[cur].leaf \in 1 .. i - 1 /\ sp[cur] = strs[nodes[cur].leaf]
    BY <1>0, <1>4, <2>1 DEF Good, LeavesOK
  <2>3. nodes[cur].leaf \in 1 .. Len(strs)
    BY <1>2, <2>2
  <2>4. nodes[cur].leaf = i
    BY <1>1, <1>2, <1>3, <2>2, <2>3 DEF PoolOK
  <2>. QED  BY <1>2, <2>2, <2>4
<1>9. TypeOK'
  <2>1. 1 \in DOMAIN nodes' /\ i' \in 1 .. Len(strs) + 1
    BY <1>1, <1>2, <1>4, <1>6
  <2>. QED  BY <1>1, <1>6, <2>1 DEF TypeOK
<1>10. ParentsFirst' /\ PoolOK'
  BY <1>1, <1>4, <1>6, <1>7 DEF ParentsFirst, PoolOK
<1>11. Spells(sp)'
  BY <1>0, <1>6, <1>7 DEF Good, Spells
<1>12. LeavesOK(sp)'
  <2>1. ASSUME NEW n \in 1 .. L, nodes'[n].leaf # 0
        PROVE  nodes'[n].leaf \in 1 .. i' - 1 /\ sp[n] = strs[nodes'[n].leaf]
    <3>1. CASE n = cur
      BY <3>1, <1>1, <1>2, <1>3, <1>7
    <3>2. CASE n # cur
      <4>1. nodes[n].leaf \in 1 .. i - 1 /\ sp[n] = strs[nodes[n].leaf]
        BY <2>1, <3>2, <1>0, <1>7 DEF Good, LeavesOK
      <4>2. \A x \in 1 .. i - 1 : x \in 1 .. i' - 1
        BY <1>1, <1>2
      <4>. QED  BY <3>2, <4>1, <4>2, <1>7
    <3>. QED  BY <3>1, <3>2
  <2>2. ASSUME NEW s \in 1 .. i' - 1  PROVE \E n \in 1 .. L : nodes'[n].leaf = s
    <3>1. CASE s = i
      BY <3>1, <1>4, <1>7
    <3>2. CASE s # i
      <4>1. s \in 1 .. i - 1
        BY <3>2, <1>1, <1>2
      <4>2. PICK n \in 1 .. L : nodes[n].leaf = s
        BY <4>1, <1>0 DEF Good, LeavesOK
      <4>3. n # cur
        BY <4>1, <4>2, <1>8, <1>2
      <4>. QED  BY <4>2, <4>3, <1>7
    <3>. QED  BY <3>1, <3>2
  <2>. QED  BY <1>1, <1>6, <2>1, <2>2 DEF LeavesOK
<1>13. WriterOK(sp)'
  <2>1. ASSUME i' <= Len(strs)
        PROVE  0 <= Len(strs[i']) /\ sp[1] = SubSeq(strs[i'], 1, 0)
    <3>1. i' \in 1 .. Len(strs)
      BY <2>1, <1>1, <1>2
    <3>2. Len(strs[i']) \in Nat
      BY <3>1, <1>1, StrFacts
    <3>3. SubSeq(strs[i'], 1, 0) = <<>>
      BY SubSeqEmpty
    <3>. QED  BY <3>2, <3>3, <1>0 DEF Good, Spells
  <2>. QED  BY <2>1, <1>1 DEF WriterOK
<1>14. ReaderOK(sp)'
  BY <1>1 DEF ReaderOK
<1>. QED  BY <1>9, <1>10, <1>11, <1>12, <1>13, <1>14 DEF IInv, Good

-----------------------------------------------------------------------------
(* The readers.                                                            *)

(* A step that leaves the table alone.                                      *)
LEMMA ReadStep ==
  ASSUME IInv, NEW sp, Good(sp), UNCHANGED <<strs, nodes, i, k>>,
         pc # "build" \/ i = Len(strs) + 1,
         cur' \in 1 .. Len(nodes), tmp' \in Seq(Chars), idx' \in Nat,
         pc' \in {"idle", "name", "string", "named", "valued", "missing"},
         ReaderOK(sp)'
  PROVE  IInv'
<1>0. TypeOK /\ PoolOK /\ ParentsFirst /\ DOMAIN nodes = 1 .. Len(nodes)
  BY NodeFacts DEF IInv
<1>1. TypeOK'
  BY <1>0 DEF TypeOK
<1>2. PoolOK' /\ ParentsFirst' /\ Spells(sp)' /\ LeavesOK(sp)'
  BY <1>0 DEF Good, PoolOK, ParentsFirst, Spells, LeavesOK
<1>3. WriterOK(sp)'
  BY DEF Good, WriterOK
<1>. QED  BY <1>1, <1>2, <1>3 DEF IInv, Good

(* The characters collected on the way up are a row of characters.          *)
LEMMA CollectedType ==
  ASSUME IInv
  PROVE  Collected \in Seq(Chars)
<1>1. nodes[cur].ch \in Chars \cup {NoChar} /\ tmp \in Seq(Chars)
  BY NodeFacts DEF IInv, TypeOK
<1>2. nodes[cur].ch \in Chars => Append(tmp, nodes[cur].ch) \in Seq(Chars)
  BY <1>1, AppendProperties
<1>. QED  BY <1>1, <1>2 DEF Collected

(* Starting to read a name or a string keeps the invariant.                 *)
LEMMA FindStep ==
  ASSUME IInv, NEW x \in Nat,
         NEW to \in {"name", "string"}, Find(x, to)
  PROVE  IInv'
<1>0. PICK sp : Good(sp)
  BY DEF IInv
<1>1. /\ pc = "idle" /\ idx' = x /\ tmp' = <<>> /\ UNCHANGED <<strs, nodes, i, k>>
      /\ TypeOK /\ i = Len(strs) + 1 /\ Len(strs) \in Nat /\ <<>> \in Seq(Chars)
  BY <1>0, StrFacts, EmptySeq DEF IInv, Find, Good, WriterOK
<1>2. CASE Leaves(x) = {}
  <2>1. pc' = "missing" /\ cur' = cur
    BY <1>2 DEF Find
  <2>2. x >= Len(strs)
    <3>1. SUFFICES ASSUME x < Len(strs)  PROVE FALSE
      BY <1>1
    <3>2. x + 1 \in 1 .. i - 1
      BY <3>1, <1>1
    <3>3. PICK n \in 1 .. Len(nodes) : nodes[n].leaf = x + 1
      BY <3>2, <1>0 DEF Good, LeavesOK
    <3>. QED  BY <3>3, <1>1, <1>2, NodeFacts DEF Leaves
  <2>3. ReaderOK(sp)'
    BY <1>1, <2>1, <2>2 DEF ReaderOK
  <2>. QED  BY <1>0, <1>1, <2>1, <2>3, NodeFacts, ReadStep
<1>3. CASE Leaves(x) # {}
  <2>1. PICK n : n \in Leaves(x)
    BY <1>3
  <2>2. pc' = to /\ cur' = First(Leaves(x))
    BY <1>3 DEF Find
  <2>3. /\ First(Leaves(x)) = n
        /\ n \in 1 .. Len(nodes)
        /\ x + 1 \in 1 .. i - 1
        /\ sp[n] = strs[x + 1]
    BY <1>0, <1>1, <2>1, LeafUnique DEF Good
  <2>4. x + 1 \in 1 .. Len(strs) /\ strs[x + 1] \in Seq(Chars)
    BY <1>1, <2>3, StrFacts
  <2>5. Reverse(<<>>) = <<>>
    BY <1>1, ReverseType, EmptySeq
  <2>6. sp[n] \o <<>> = strs[x + 1]
    <3>1. \A z \in Seq(Chars) : z \o <<>> = z
      BY ConcatEmptySeq
    <3>. QED  BY <2>3, <2>4, <3>1
  <2>7. ReaderOK(sp)'
    BY <1>1, <2>2, <2>3, <2>4, <2>5, <2>6 DEF ReaderOK, Reverse
  <2>8. cur' \in 1 .. Len(nodes) /\ tmp' \in Seq(Chars) /\ idx' \in Nat
    BY <1>1, <2>2, <2>3
  <2>. QED  BY <1>0, <1>1, <2>2, <2>7, <2>8, ReadStep
<1>. QED  BY <1>2, <1>3

(* Climbing for a name keeps the invariant.                                 *)
LEMMA ClimbNameStep == IInv /\ ClimbName => IInv'
<1> SUFFICES ASSUME IInv, ClimbName  PROVE IInv'
  OBVIOUS
<1>0. PICK sp : Good(sp)
  BY DEF IInv
<1>1. /\ pc = "name" /\ idx' = idx /\ tmp' = Collected /\ UNCHANGED <<strs, nodes, i, k>>
      /\ TypeOK /\ ParentsFirst /\ PoolOK /\ cur \in 1 .. Len(nodes) /\ tmp \in Seq(Chars)
      /\ idx \in Nat /\ idx + 1 \in 1 .. Len(strs) /\ sp[cur] \o Reverse(tmp) = strs[idx + 1]
      /\ sp[cur] \in Seq(Chars)
  BY <1>0, NodeFacts DEF IInv, ClimbName, Good, ReaderOK, TypeOK, Spells
<1>2. CASE nodes[cur].parent = 0
  <2>1. pc' = "named" /\ cur' = cur
    BY <1>2 DEF ClimbName
  <2>2. cur = 1 /\ nodes[cur].ch = NoChar
    BY <1>1, <1>2, NodeFacts DEF ParentsFirst
  <2>3. tmp' = tmp
    BY <1>1, <2>2 DEF Collected
  <2>4. sp[cur] = <<>>
    BY <2>2, <1>0 DEF Good, Spells
  <2>5. \A z \in Seq(Chars) : <<>> \o z = z
    BY ConcatEmptySeq
  <2>6. Reverse(tmp) = strs[idx + 1]
    <3>1. Reverse(tmp) \in Seq(Chars)
      BY <1>1, ReverseType
    <3>. QED  BY <3>1, <1>1, <2>4, <2>5
  <2>7. ReaderOK(sp)'
    BY <1>1, <2>1, <2>3, <2>6 DEF ReaderOK, Reverse
  <2>8. cur' \in 1 .. Len(nodes) /\ tmp' \in Seq(Chars) /\ idx' \in Nat
    BY <1>1, <2>1, <2>3
  <2>. QED  BY <1>0, <1>1, <2>1, <2>7, <2>8, ReadStep
<1>3. CASE nodes[cur].parent # 0
  <2> DEFINE p == nodes[cur].parent
             c == nodes[cur].ch
  <2>1. pc' = "name" /\ cur' = p
    BY <1>1, <1>3 DEF ClimbName
  <2>2. cur # 1
    BY <1>1, <1>3, ParentFacts
  <2>3. p \in 1 .. Len(nodes) /\ c \in Chars
    BY <1>1, <2>2, ParentFacts
  <2>4. sp[cur] = Append(sp[p], c) /\ sp[p] \in Seq(Chars)
    BY <1>0, <1>1, <2>2, <2>3 DEF Good, Spells
  <2> HIDE DEF p, c
  <2>5. Len(tmp) < MaxTmp
    <3> DEFINE y == sp[cur]
               z == Reverse(tmp)
    <3>1. y \in Seq(Chars) /\ z \in Seq(Chars) /\ Len(z) = Len(tmp) /\ Len(tmp) \in Nat
      BY <1>1, ReverseType, LenProperties
    <3>2. Len(y) = Len(sp[p]) + 1 /\ Len(sp[p]) \in Nat
      BY <2>3, <2>4, AppendProperties, LenProperties
    <3>3. Len(strs[idx + 1]) <= MaxString
      BY <1>1 DEF PoolOK
    <3>4. y \o z = strs[idx + 1]
      BY <1>1
    <3> HIDE DEF y, z
    <3>5. Len(y \o z) = Len(y) + Len(z)
      BY <3>1, ConcatProperties
    <3>. QED  BY <3>1, <3>2, <3>3, <3>4, <3>5, TrieAssumption
  <2>6. tmp' = Append(tmp, c)
    BY <1>1, <2>3, <2>5, TrieAssumption DEF Collected, c
  <2>7. sp[p] \o Reverse(Append(tmp, c)) = Append(sp[p], c) \o Reverse(tmp)
    <3> DEFINE y == sp[p]
    <3>1. y \in Seq(Chars)
      BY <2>4
    <3> HIDE DEF y
    <3>2. y \o Reverse(Append(tmp, c)) = Append(y, c) \o Reverse(tmp)
      BY <1>1, <2>3, <3>1, ReverseAppend
    <3>. QED  BY <3>2 DEF y
  <2>8. sp[p] \o Reverse(tmp') = strs[idx + 1]
    BY <1>1, <2>4, <2>6, <2>7
  <2>9. ReaderOK(sp)'
    BY <1>1, <2>1, <2>8 DEF ReaderOK, Reverse
  <2>10. cur' \in 1 .. Len(nodes) /\ tmp' \in Seq(Chars) /\ idx' \in Nat
    BY <1>1, <2>1, <2>3, CollectedType
  <2>. QED  BY <1>0, <1>1, <2>1, <2>9, <2>10, ReadStep
<1>. QED  BY <1>2, <1>3

(* Climbing for a string keeps the invariant.                               *)
LEMMA ClimbStringStep == IInv /\ ClimbString => IInv'
<1> SUFFICES ASSUME IInv, ClimbString  PROVE IInv'
  OBVIOUS
<1>0. PICK sp : Good(sp)
  BY DEF IInv
<1>1. /\ pc = "string" /\ idx' = idx /\ tmp' = Collected /\ UNCHANGED <<strs, nodes, i, k>>
      /\ pc' \in {"string", "valued"} /\ idx \in Nat /\ Collected \in Seq(Chars)
  BY CollectedType DEF ClimbString, IInv, TypeOK
<1>2. cur' \in 1 .. Len(nodes)
  BY NodeFacts, ParentFacts DEF ClimbString, IInv
<1>3. ReaderOK(sp)'
  BY <1>1 DEF ReaderOK
<1>. QED  BY <1>0, <1>1, <1>2, <1>3, ReadStep

(* Every step of the pool keeps the invariant.                              *)
LEMMA StepInv == IInv /\ [Next]_vars => IInv'
<1> SUFFICES ASSUME IInv, [Next]_vars  PROVE IInv'
  OBVIOUS
<1>0. PICK sp : Good(sp)
  BY DEF IInv
<1>t. cur \in 1 .. Len(nodes) /\ tmp \in Seq(Chars) /\ idx \in Nat
  BY NodeFacts DEF IInv, TypeOK
<1>1. CASE WriteTable
  <2>1. ReaderOK(sp)'
    BY <1>1 DEF WriteTable, ReaderOK
  <2>. QED  BY <1>0, <1>1, <1>t, <2>1, ReadStep DEF WriteTable
<1>2. ASSUME NEW x \in 0 .. MaxPool, Find(x, "name") \/ Find(x, "string")
      PROVE  IInv'
  <2>1. x \in Nat
    BY TrieAssumption
  <2>. QED  BY <1>2, <2>1, FindStep
<1>3. CASE Return
  <2>1. ReaderOK(sp)'
    BY <1>3 DEF Return, ReaderOK
  <2>. QED  BY <1>0, <1>3, <1>t, <2>1, ReadStep DEF Return
<1>4. CASE UNCHANGED vars
  <2>1. UNCHANGED strs /\ UNCHANGED nodes /\ UNCHANGED i /\ UNCHANGED k
        /\ UNCHANGED cur /\ UNCHANGED tmp /\ UNCHANGED idx /\ UNCHANGED pc
    BY <1>4 DEF vars
  <2>2. TypeOK'
    BY <2>1 DEF IInv, TypeOK
  <2>3. PoolOK'
    BY <2>1 DEF IInv, PoolOK
  <2>4. ParentsFirst'
    BY <2>1 DEF IInv, ParentsFirst
  <2>5. Spells(sp)'
    BY <1>0, <2>1 DEF Good, Spells
  <2>6. LeavesOK(sp)'
    BY <1>0, <2>1 DEF Good, LeavesOK
  <2>7. WriterOK(sp)'
    BY <1>0, <2>1 DEF Good, WriterOK
  <2>8. ReaderOK(sp)'
    BY <1>0, <2>1 DEF Good, ReaderOK, Reverse
  <2>. QED  BY <2>2, <2>3, <2>4, <2>5, <2>6, <2>7, <2>8 DEF IInv, Good
<1>. QED  BY <1>1, <1>2, <1>3, <1>4, InsertStep, EndStep, ClimbNameStep, ClimbStringStep
          DEF Next

(* The invariant holds of the first state.                                  *)
LEMMA InitInv == Init => IInv
<1> SUFFICES ASSUME Init  PROVE IInv
  OBVIOUS
<1>1. PICK n \in 1 .. MaxPool : strs \in [1 .. n -> String]
  BY DEF Init, Pools
<1>2. n \in Nat /\ MaxString \in Nat /\ n >= 1
  BY TrieAssumption
<1>3. \A s \in String : s \in Seq(Chars) /\ Len(s) <= MaxString
  <2>1. SUFFICES ASSUME NEW s \in String
                 PROVE  s \in Seq(Chars) /\ Len(s) <= MaxString
    OBVIOUS
  <2>2. PICK m \in 0 .. MaxString : s \in [1 .. m -> Chars]
    BY DEF String
  <2>3. m \in Nat /\ m <= MaxString
    BY <1>2
  <2>4. s \in Seq(Chars)
    BY <2>2, <2>3, SeqDef
  <2>. QED  BY <2>2, <2>3, <2>4, LenProperties
<1>4. /\ strs \in Seq(Seq(Chars)) /\ Len(strs) = n
      /\ \A s \in 1 .. n : strs[s] \in Seq(Chars) /\ Len(strs[s]) <= MaxString
  <2>1. strs \in [1 .. n -> Seq(Chars)]
    BY <1>1, <1>3
  <2>2. strs \in Seq(Seq(Chars))
    BY <1>2, <2>1, SeqDef
  <2>. QED  BY <1>1, <1>2, <1>3, <2>1, <2>2, LenProperties
<1>5. /\ nodes = <<Root>> /\ Len(nodes) = 1 /\ DOMAIN nodes = {1} /\ nodes[1] = Root
      /\ nodes \in Seq(Node) /\ 1 .. Len(nodes) = {1}
  BY DEF Init, Root, Node
<1>6. TypeOK
  <2>1. i \in 1 .. Len(strs) + 1
    BY <1>2, <1>4 DEF Init
  <2>. QED  BY <1>4, <1>5, <2>1, EmptySeq DEF Init, TypeOK
<1>7. PoolOK
  <2>1. \A s, t \in DOMAIN strs : strs[s] = strs[t] => s = t
    BY DEF Init, Pools
  <2>. QED  BY <1>1, <1>4, <2>1 DEF PoolOK
<1>8. ParentsFirst
  BY <1>5 DEF ParentsFirst, Root
<1>9. PICK sp : sp = [n1 \in {1} |-> <<>>]
  OBVIOUS
<1>10. Spells(sp) /\ LeavesOK(sp)
  <2>1. sp \in [1 .. Len(nodes) -> Seq(Chars)] /\ sp[1] = <<>>
    BY <1>5, <1>9, EmptySeq
  <2>2. 1 .. i - 1 = {}
    BY DEF Init
  <2>3. nodes[1].leaf = 0
    BY <1>5 DEF Root
  <2>. QED  BY <1>5, <2>1, <2>2, <2>3 DEF Spells, LeavesOK
<1>11. WriterOK(sp) /\ ReaderOK(sp)
  <2>1. pc = "build" /\ i = 1 /\ k = 0 /\ cur = 1
    BY DEF Init
  <2>2. SubSeq(strs[1], 1, 0) = <<>>
    BY SubSeqEmpty
  <2>3. Len(strs[1]) \in Nat
    BY <1>2, <1>4, LenProperties
  <2>. QED  BY <1>9, <2>1, <2>2, <2>3 DEF WriterOK, ReaderOK
<1>. QED  BY <1>6, <1>7, <1>8, <1>10, <1>11 DEF IInv, Good

(* The invariant holds of every state.                                      *)
LEMMA Invariance == Spec => []IInv
BY InitInv, StepInv, PTL DEF Spec

-----------------------------------------------------------------------------
(* What the invariant gives.                                               *)

(* The trie, the strings and every position in them have their types: neither
   the writer nor a reader, the faulty string reader included, ever stands on
   a node the table does not have.                                          *)
THEOREM TriePoolTyped == Spec => []TypeOK
<1>1. IInv => TypeOK
  BY DEF IInv
<1>. QED  BY Invariance, <1>1, PTL

(* Every node but the root has its parent before it in the table.           *)
LEMMA TableIsTree == Spec => []ParentsFirst
<1>1. IInv => ParentsFirst
  BY DEF IInv
<1>. QED  BY Invariance, <1>1, PTL

(* Every string of the pool has a leaf of its own.                          *)
LEMMA StringsHaveLeaves == Spec => []LeafPerString
<1>1. ASSUME IInv  PROVE LeafPerString
  <2>0. PICK sp : Good(sp)
    BY <1>1 DEF IInv
  <2>1. TypeOK /\ i \in Nat /\ DOMAIN nodes = 1 .. Len(nodes)
    BY <1>1, NodeFacts, StrFacts DEF IInv, TypeOK
  <2>2. SUFFICES ASSUME NEW s \in 1 .. i - 1
                 PROVE  \E n \in DOMAIN nodes : Leaves(s - 1) = {n}
    BY DEF LeafPerString
  <2>3. s - 1 \in Nat /\ (s - 1) + 1 = s
    BY <2>1
  <2>4. PICK n \in 1 .. Len(nodes) : nodes[n].leaf = s
    BY <2>0 DEF Good, LeavesOK
  <2>5. n \in Leaves(s - 1)
    BY <2>1, <2>3, <2>4 DEF Leaves
  <2>6. Leaves(s - 1) = {n}
    BY <2>0, <2>1, <2>3, <2>5, LeafUnique DEF Good
  <2>. QED  BY <2>1, <2>6
<1>. QED  BY Invariance, <1>1, PTL

(* The table strpool_write_tail builds is a tree whose parents come first, in
   which every string written so far ends in a node of its own.             *)
THEOREM TableAlwaysTrie == Spec => []TableIsTrie
<1>1. ParentsFirst /\ LeafPerString => TableIsTrie
  BY DEF TableIsTrie
<1>. QED  BY <1>1, TableIsTree, StringsHaveLeaves, PTL

(* The name reader of tinybuf_read_box.c returns the pooled name.           *)
THEOREM NamesDecode == Spec => []NameDecoded
<1>1. ASSUME IInv  PROVE NameDecoded
  <2>1. PICK sp : Good(sp)
    BY <1>1 DEF IInv
  <2>. QED  BY <2>1 DEF Good, ReaderOK, NameDecoded
<1>. QED  BY Invariance, <1>1, PTL
=============================================================================
