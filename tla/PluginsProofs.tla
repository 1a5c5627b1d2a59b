---------------------------- MODULE PluginsProofs ----------------------------
(***************************************************************************)
(* For every set of plugins and types: who wrote a box is asked first when *)
(* it is read, an index a value remembers leads to the plugin that read    *)
(* it, and the results all of them report through own their messages.      *)
(*                                                                         *)
(* Whatever is done with results and hole strings, as long as a result of  *)
(* which there are copies is only read, every text handed over and not     *)
(* lost is in one place or was deleted once, and what holds it has one     *)
(* owner.  That is Owned, a predicate of a heap: an operator of most       *)
(* variables of module Result, so that an operation can be taken apart     *)
(* into changes that follow one another, each with a lemma of its own.     *)
(* Sharing says of the counts what they count.                             *)
(***************************************************************************)
EXTENDS Plugins, FiniteSetTheorems, SequenceTheorems, TLAPS

-----------------------------------------------------------------------------
(* The invariant, of results R, lists L, nodes N, the client's hole strings H,
   the texts used G and the counts of deletions D.                          *)

(* x is in one of the rows of f.                                            *)
Has(f, x) == \E y \in DOMAIN f : \E i \in DOMAIN f[y] : f[y][i] = x

HeapShape(R, L, N, H, G, D) ==
  /\ R \in [Results -> {None} \cup
              [res : {0 - 1, 0, 1}, list : Nat \cup {None}, cell : Nat, refs : 1 .. MaxRefs]]
  /\ \A r \in Results : R[r] # None /\ R[r].list # None => R[r].list \in DOMAIN L
  /\ IsFiniteSet(DOMAIN L) /\ DOMAIN L \subseteq Nat
  /\ L \in [DOMAIN L -> Seq(DOMAIN N \cup Consts)]
  /\ IsFiniteSet(DOMAIN N) /\ DOMAIN N \subseteq Nat
  /\ N \in [DOMAIN N -> Seq(DOMAIN N \cup G)]
  /\ H \subseteq DOMAIN N /\ G \subseteq Texts
  /\ D \in [Texts -> Nat]

(* Nothing is in two places of hole strings, no hole string in two places, and
   what the client has is in none.                                          *)
NodesOnce(N) ==
  \A y, z \in DOMAIN N : \A i \in DOMAIN N[y], j \in DOMAIN N[z] :
    N[y][i] = N[z][j] => y = z /\ i = j

ListsOnce(L) ==
  \A l, m \in DOMAIN L : \A i \in DOMAIN L[l], j \in DOMAIN L[m] :
    L[l][i] = L[m][j] /\ L[l][i] \in Nat => l = m /\ i = j

Apart(N, L, H) ==
  \A h \in DOMAIN N : /\ ~(Has(N, h) /\ Has(L, h))
                      /\ h \in H => ~Has(N, h) /\ ~Has(L, h)

(* A hole string that nobody has any more is empty.                         *)
Rooted(N, L, H) ==
  \A h \in DOMAIN N : N[h] # <<>> => h \in H \/ Has(N, h) \/ Has(L, h)

(* A text that was used is in a place, or was deleted once.                 *)
Counted(N, G, D) ==
  \A t \in Texts :
    IF t \in G THEN D[t] = (IF Has(N, t) THEN 0 ELSE 1) ELSE D[t] = 0

(* A list has a result, and results that have the same one share a count.    *)
ListsOwned(R, L) ==
  /\ \A l \in DOMAIN L : \E r \in Results : R[r] # None /\ R[r].list = l
  /\ \A r, q \in Results :
       R[r] # None /\ R[q] # None /\ R[r].list # None /\ R[r].list = R[q].list
         => R[r].cell = R[q].cell

Owned(R, L, N, H, G, D) ==
  /\ HeapShape(R, L, N, H, G, D)
  /\ NodesOnce(N) /\ ListsOnce(L)
  /\ Apart(N, L, H) /\ Rooted(N, L, H)
  /\ Counted(N, G, D)
  /\ ListsOwned(R, L)

(* The references to the count c.                                           *)
Holders(R, c) ==
  {x \in Results \X (1 .. MaxRefs) :
     R[x[1]] # None /\ R[x[1]].cell = c /\ x[2] <= R[x[1]].refs}

(* A count is the number of references to it, and the results that share it
   have the same list.                                                      *)
Sharing(R, C) ==
  /\ IsFiniteSet(DOMAIN C) /\ DOMAIN C \subseteq Nat
  /\ \A r \in Results : R[r] # None => R[r].cell \in DOMAIN C
  /\ \A c \in DOMAIN C : /\ IsFiniteSet(Holders(R, c))
                          /\ Cardinality(Holders(R, c)) = C[c]
                          /\ C[c] \in Nat \ {0}
  /\ \A r, q \in Results :
       R[r] # None /\ R[q] # None /\ R[r].cell = R[q].cell => R[r].list = R[q].list

(* No other result shares the count of r.                                   *)
Alone(R, r) == \A q \in Results : R[q] # None /\ R[q].cell = R[r].cell => q = r

(* The texts that were used and not lost.                                   *)
Kept == given \ lost

HeapOwned ==
  /\ lost \subseteq given /\ given \subseteq Texts
  /\ Owned(result, lists, nodes, hand, Kept, deleted)
  /\ Sharing(result, counts)

-----------------------------------------------------------------------------
(* Rows.                                                                    *)

(* A row over a set is a row over a larger one.                             *)
LEMMA SeqMono ==
  ASSUME NEW A, NEW B, A \subseteq B, NEW s \in Seq(A)
  PROVE  s \in Seq(B)
<1>1. Len(s) \in Nat /\ s \in [1 .. Len(s) -> A]
  BY LenProperties
<1>2. s \in [1 .. Len(s) -> B]
  BY <1>1
<1>. QED  BY <1>1, <1>2, SeqDef

(* Append adds one place to a row and leaves the others alone.              *)
LEMMA AppendCells ==
  ASSUME NEW A, NEW s \in Seq(A), NEW x \in A
  PROVE  /\ Append(s, x) \in Seq(A) /\ Append(s, x) # <<>>
         /\ DOMAIN Append(s, x) = DOMAIN s \cup {Len(s) + 1}
         /\ Len(s) + 1 \notin DOMAIN s
         /\ \A i \in DOMAIN s : Append(s, x)[i] = s[i]
         /\ Append(s, x)[Len(s) + 1] = x
<1>1. /\ Append(s, x) \in Seq(A) /\ Append(s, x) # <<>>
      /\ Len(Append(s, x)) = Len(s) + 1
      /\ \A i \in 1 .. Len(s) : Append(s, x)[i] = s[i]
      /\ Append(s, x)[Len(s) + 1] = x
  BY AppendProperties
<1>2. Len(s) \in Nat /\ DOMAIN s = 1 .. Len(s)
  BY LenProperties
<1>3. DOMAIN Append(s, x) = 1 .. Len(Append(s, x))
  BY <1>1, LenProperties
<1>4. 1 .. Len(s) + 1 = 1 .. Len(s) \cup {Len(s) + 1} /\ Len(s) + 1 \notin 1 .. Len(s)
  BY <1>2
<1>. QED  BY <1>1, <1>2, <1>3, <1>4

(* The places of a row behind another one.                                  *)
LEMMA ConcatCells ==
  ASSUME NEW A, NEW s \in Seq(A), NEW u \in Seq(A)
  PROVE  /\ s \o u \in Seq(A)
         /\ DOMAIN (s \o u) = 1 .. Len(s) + Len(u)
         /\ \A k \in DOMAIN (s \o u) :
              \/ k \in DOMAIN s /\ (s \o u)[k] = s[k]
              \/ /\ k - Len(s) \in DOMAIN u /\ k = Len(s) + (k - Len(s))
                 /\ (s \o u)[k] = u[k - Len(s)]
         /\ \A k \in DOMAIN s : k \in DOMAIN (s \o u) /\ (s \o u)[k] = s[k]
         /\ \A k \in DOMAIN u : /\ Len(s) + k \in DOMAIN (s \o u)
                                /\ (s \o u)[Len(s) + k] = u[k]
<1>1. /\ s \o u \in Seq(A)
      /\ Len(s \o u) = Len(s) + Len(u)
      /\ \A i \in 1 .. Len(s) + Len(u) :
           (s \o u)[i] = IF i <= Len(s) THEN s[i] ELSE u[i - Len(s)]
  BY ConcatProperties
<1>2. /\ Len(s) \in Nat /\ DOMAIN s = 1 .. Len(s)
      /\ Len(u) \in Nat /\ DOMAIN u = 1 .. Len(u)
  BY LenProperties
<1>3. DOMAIN (s \o u) = 1 .. Len(s) + Len(u)
  BY <1>1, LenProperties
<1>4. ASSUME NEW k \in DOMAIN (s \o u)
      PROVE  \/ k \in DOMAIN s /\ (s \o u)[k] = s[k]
             \/ /\ k - Len(s) \in DOMAIN u /\ k = Len(s) + (k - Len(s))
                /\ (s \o u)[k] = u[k - Len(s)]
  <2>1. k \in 1 .. Len(s) + Len(u)
    BY <1>3
  <2>2. CASE k <= Len(s)
    BY <1>1, <1>2, <2>1, <2>2
  <2>3. CASE ~(k <= Len(s))
    BY <1>1, <1>2, <2>1, <2>3
  <2>. QED  BY <2>2, <2>3
<1>5. ASSUME NEW k \in DOMAIN s
      PROVE  k \in DOMAIN (s \o u) /\ (s \o u)[k] = s[k]
  BY <1>1, <1>2, <1>3
<1>6. ASSUME NEW k \in DOMAIN u
      PROVE  Len(s) + k \in DOMAIN (s \o u) /\ (s \o u)[Len(s) + k] = u[k]
  <2>1. Len(s) + k \in 1 .. Len(s) + Len(u) /\ ~(Len(s) + k <= Len(s))
        /\ (Len(s) + k) - Len(s) = k
    BY <1>2
  <2>. QED  BY <1>1, <1>3, <2>1
<1>. QED  BY <1>1, <1>3, <1>4, <1>5, <1>6

(* The allocator finds a number that is not in use.                         *)
LEMMA FreshIsNew ==
  ASSUME NEW S, IsFiniteSet(S)
  PROVE  Fresh(S) \in Nat /\ Fresh(S) \notin S
<1>1. Cardinality(S) \in Nat
  BY FS_CardinalityType
<1> DEFINE I == 1 .. Cardinality(S) + 1
<1>2. IsFiniteSet(I) /\ Cardinality(I) = Cardinality(S) + 1
  BY <1>1, FS_Interval
<1>3. \E x \in I : x \notin S
  <2>1. SUFFICES ASSUME I \in SUBSET S PROVE FALSE
    OBVIOUS
  <2>2. Cardinality(I) <= Cardinality(S)
    BY <2>1, FS_Subset
  <2>. QED  BY <1>1, <1>2, <2>2
<1>4. Fresh(S) \in I /\ Fresh(S) \notin S
  BY <1>3 DEF Fresh
<1>. QED  BY <1>1, <1>4

(* The items of the rows of a heap: texts and constants are no objects.     *)
RowFacts(L, N, G) ==
  /\ \A y \in DOMAIN N : /\ N[y] \in Seq(DOMAIN N \cup G)
                         /\ \A i \in DOMAIN N[y] : N[y][i] \in DOMAIN N \cup G
  /\ \A l \in DOMAIN L : /\ L[l] \in Seq(DOMAIN N \cup Consts)
                         /\ \A i \in DOMAIN L[l] : L[l][i] \in DOMAIN N \cup Consts
  /\ \A t \in Texts : t \notin Nat /\ t \notin DOMAIN N
  /\ \A c \in Consts : c \notin Nat /\ c \notin DOMAIN N
  /\ None \notin Nat /\ None \notin DOMAIN L

(* A heap of that shape has such rows.                                      *)
LEMMA Rows ==
  ASSUME NEW R, NEW L, NEW N, NEW H, NEW G, NEW D, HeapShape(R, L, N, H, G, D)
  PROVE  RowFacts(L, N, G)
<1>1. ASSUME NEW A, NEW s \in Seq(A)  PROVE \A i \in DOMAIN s : s[i] \in A
  BY LenProperties
<1>2. \A y \in DOMAIN N : N[y] \in Seq(DOMAIN N \cup G)
  BY DEF HeapShape
<1>3. \A l \in DOMAIN L : L[l] \in Seq(DOMAIN N \cup Consts)
  BY DEF HeapShape
<1>4. DOMAIN N \subseteq Nat /\ DOMAIN L \subseteq Nat
  BY DEF HeapShape
<1>5. /\ \A t \in Texts : t \notin Nat
      /\ \A c \in Consts : c \notin Nat
      /\ None \notin Nat
  BY NamesAssumption
<1>. QED  BY <1>1, <1>2, <1>3, <1>4, <1>5 DEF RowFacts

-----------------------------------------------------------------------------
(* Changes of the hole strings.                                             *)

(* A new hole string is empty and the client's.                             *)
LEMMA HoleMade ==
  ASSUME NEW R, NEW L, NEW N, NEW H, NEW G, NEW D, Owned(R, L, N, H, G, D),
         NEW x \in Nat, x \notin DOMAIN N
  PROVE  Owned(R, L, With(N, x, <<>>), H \cup {x}, G, D)
<1> DEFINE M == With(N, x, <<>>)
<1>0. HeapShape(R, L, N, H, G, D)
  BY DEF Owned
<1>r. RowFacts(L, N, G)
  BY <1>0, Rows
<1>1. /\ DOMAIN M = DOMAIN N \cup {x}
      /\ M[x] = <<>> /\ DOMAIN M[x] = {}
      /\ \A y \in DOMAIN N : M[y] = N[y]
      /\ M = [z \in DOMAIN M |-> M[z]]
  <2>1. DOMAIN <<>> = {}
    OBVIOUS
  <2>. QED  BY <2>1 DEF With
<1> HIDE DEF M
<1>2. \A k : Has(M, k) <=> Has(N, k)
  BY <1>1 DEF Has
<1>3. HeapShape(R, L, M, H \cup {x}, G, D)
  <2>1. \A y \in DOMAIN M : M[y] \in Seq(DOMAIN M \cup G)
    <3>1. \A y \in DOMAIN N : N[y] \in Seq(DOMAIN M \cup G)
      <4>1. DOMAIN N \cup G \subseteq DOMAIN M \cup G
        BY <1>1
      <4>. QED  BY <1>r, <4>1, SeqMono DEF RowFacts
    <3>2. <<>> \in Seq(DOMAIN M \cup G)
      BY EmptySeq
    <3>. QED  BY <1>1, <3>1, <3>2
  <2>2. \A l \in DOMAIN L : L[l] \in Seq(DOMAIN M \cup Consts)
    <3>1. DOMAIN N \cup Consts \subseteq DOMAIN M \cup Consts
      BY <1>1
    <3>. QED  BY <1>r, <3>1, SeqMono DEF RowFacts
  <2>3. M \in [DOMAIN M -> Seq(DOMAIN M \cup G)]
    BY <1>1, <2>1
  <2>4. L \in [DOMAIN L -> Seq(DOMAIN M \cup Consts)]
    BY <1>0, <2>2 DEF HeapShape
  <2>5. IsFiniteSet(DOMAIN M) /\ DOMAIN M \subseteq Nat
    BY <1>0, <1>1, FS_AddElement DEF HeapShape
  <2>. QED  BY <1>0, <1>1, <2>3, <2>4, <2>5 DEF HeapShape
<1>4. ~Has(N, x) /\ ~Has(L, x)
  <2>1. x \notin G /\ x \notin Consts
    BY <1>0, <1>r DEF HeapShape, RowFacts
  <2>. QED  BY <1>r, <2>1 DEF Has, RowFacts
<1>5. NodesOnce(M)
  BY <1>1 DEF Owned, NodesOnce
<1>6. Apart(M, L, H \cup {x})
  BY <1>1, <1>2, <1>4 DEF Owned, Apart
<1>7. Rooted(M, L, H \cup {x})
  BY <1>1, <1>2 DEF Owned, Rooted
<1>8. Counted(M, G, D)
  BY <1>2 DEF Owned, Counted
<1>. QED  BY <1>3, <1>5, <1>6, <1>7, <1>8 DEF Owned, M

(* What one more item at the end of the hole string h changes.              *)
Adds(A, N, h, x, M) ==
  /\ N \in [DOMAIN N -> Seq(A)] /\ h \in DOMAIN N /\ x \in A
  /\ M = [N EXCEPT ![h] = Append(@, x)]

(* One more item of a hole string is one more place, and no other.          *)
LEMMA ItemAdded ==
  ASSUME NEW A, NEW N, NEW h, NEW x, NEW M, Adds(A, N, h, x, M)
  PROVE  /\ DOMAIN M = DOMAIN N /\ M \in [DOMAIN N -> Seq(A)]
         /\ \A y \in DOMAIN N : y # h => M[y] = N[y]
         /\ M[h] # <<>>
         /\ \A k : Has(M, k) <=> Has(N, k) \/ k = x
         /\ NodesOnce(N) /\ ~Has(N, x) => NodesOnce(M)
<1>1. /\ DOMAIN M = DOMAIN N
      /\ \A y \in DOMAIN N : y # h => M[y] = N[y]
      /\ M[h] = Append(N[h], x)
      /\ N \in [DOMAIN N -> Seq(A)] /\ h \in DOMAIN N /\ x \in A
  BY DEF Adds
<1>2. N[h] \in Seq(A)
  BY <1>1
<1> DEFINE e == Len(N[h]) + 1
<1>3. /\ M[h] \in Seq(A) /\ M[h] # <<>>
      /\ DOMAIN M[h] = DOMAIN N[h] \cup {e}
      /\ e \notin DOMAIN N[h]
      /\ \A i \in DOMAIN N[h] : M[h][i] = N[h][i]
      /\ M[h][e] = x
  BY <1>1, <1>2, AppendCells
<1>4. M \in [DOMAIN N -> Seq(A)]
  BY <1>1, <1>3 DEF Adds
<1> HIDE DEF e
<1>5. ASSUME NEW k  PROVE Has(M, k) <=> Has(N, k) \/ k = x
  <2>1. ASSUME NEW y \in DOMAIN M, NEW i \in DOMAIN M[y], M[y][i] = k
        PROVE  Has(N, k) \/ k = x
    <3>1. CASE y = h
      BY <1>1, <1>3, <2>1, <3>1 DEF Has
    <3>2. CASE y # h
      BY <1>1, <2>1, <3>2 DEF Has
    <3>. QED  BY <3>1, <3>2
  <2>2. ASSUME NEW y \in DOMAIN N, NEW i \in DOMAIN N[y], N[y][i] = k
        PROVE  \E j \in DOMAIN M[y] : M[y][j] = k
    <3>1. CASE y = h
      BY <1>3, <2>2, <3>1
    <3>2. CASE y # h
      BY <1>1, <2>2, <3>2
    <3>. QED  BY <3>1, <3>2
  <2>3. k = x => Has(M, k)
    BY <1>1, <1>3 DEF Has
  <2>. QED  BY <1>1, <2>1, <2>2, <2>3 DEF Has
<1>6. ASSUME NodesOnce(N), ~Has(N, x)  PROVE NodesOnce(M)
  <2>1. SUFFICES ASSUME NEW y \in DOMAIN N, NEW z \in DOMAIN N,
                        NEW i \in DOMAIN M[y], NEW j \in DOMAIN M[z], M[y][i] = M[z][j]
                 PROVE  y = z /\ i = j
    BY <1>1 DEF NodesOnce
  <2>2. ASSUME NEW w \in DOMAIN N, NEW k \in DOMAIN M[w]
        PROVE  \/ k \in DOMAIN N[w] /\ M[w][k] = N[w][k]
               \/ w = h /\ k = e /\ M[w][k] = x
    BY <1>1, <1>3
  <2>3. ASSUME NEW w \in DOMAIN N, NEW k \in DOMAIN N[w]  PROVE N[w][k] # x
    BY <1>6 DEF Has
  <2>4. CASE i \in DOMAIN N[y] /\ M[y][i] = N[y][i]
    <3>0. N[y][i] # x
      BY <2>3, <2>4
    <3>1. j \in DOMAIN N[z] /\ M[z][j] = N[z][j]
      <4>1. M[z][j] # x
        BY <2>1, <2>4, <3>0
      <4>. QED  BY <2>2, <4>1
    <3>2. N[y][i] = N[z][j]
      BY <2>1, <2>4, <3>1
    <3>3. \A v, w \in DOMAIN N : \A k \in DOMAIN N[v], l \in DOMAIN N[w] :
            N[v][k] = N[w][l] => v = w /\ k = l
      BY <1>6 DEF NodesOnce
    <3>. QED  BY <2>4, <3>1, <3>2, <3>3
  <2>5. CASE y = h /\ i = e /\ M[y][i] = x
    BY <2>1, <2>2, <2>3, <2>5
  <2>. QED  BY <2>2, <2>4, <2>5
<1>. QED  BY <1>1, <1>3, <1>4, <1>5, <1>6

(* A text is put at the end of a hole string of the client.                 *)
LEMMA TextAdded ==
  ASSUME NEW R, NEW L, NEW N, NEW H, NEW G, NEW D, Owned(R, L, N, H, G, D),
         NEW h \in H, NEW t \in Texts, t \notin G
  PROVE  Owned(R, L, [N EXCEPT ![h] = Append(@, t)], H, G \cup {t}, D)
<1> DEFINE M == [N EXCEPT ![h] = Append(@, t)]
           A == DOMAIN N \cup (G \cup {t})
<1>0. HeapShape(R, L, N, H, G, D)
  BY DEF Owned
<1>r. RowFacts(L, N, G)
  BY <1>0, Rows
<1>1. N \in [DOMAIN N -> Seq(A)] /\ h \in DOMAIN N /\ t \in A
  <2>1. \A y \in DOMAIN N : N[y] \in Seq(A)
    <3>1. DOMAIN N \cup G \subseteq A
      OBVIOUS
    <3>. QED  BY <1>r, <3>1, SeqMono DEF RowFacts
  <2>. QED  BY <1>0, <2>1 DEF HeapShape
<1>2. ~Has(N, t)
  BY <1>0, <1>r DEF Has, RowFacts, HeapShape
<1>3. /\ DOMAIN M = DOMAIN N /\ M \in [DOMAIN N -> Seq(A)]
      /\ \A y \in DOMAIN N : y # h => M[y] = N[y]
      /\ \A k : Has(M, k) <=> Has(N, k) \/ k = t
      /\ NodesOnce(M)
  <2>0. Adds(A, N, h, t, M)
    BY <1>1 DEF Adds
  <2> HIDE DEF A, M
  <2>1. NodesOnce(N)
    BY DEF Owned
  <2>. QED  BY <1>2, <2>0, <2>1, ItemAdded
<1> HIDE DEF M
<1>4. HeapShape(R, L, M, H, G \cup {t}, D)
  BY <1>0, <1>3 DEF HeapShape
<1>5. t \notin DOMAIN N
  BY <1>r DEF RowFacts
<1>6. Apart(M, L, H)
  BY <1>3, <1>5 DEF Owned, Apart
<1>7. Rooted(M, L, H)
  BY <1>3 DEF Owned, Rooted
<1>8. Counted(M, G \cup {t}, D)
  BY <1>3 DEF Owned, Counted
<1>. QED  BY <1>3, <1>4, <1>6, <1>7, <1>8 DEF Owned, M

(* A hole string of the client is put at the end of another one.            *)
LEMMA SubAdded ==
  ASSUME NEW R, NEW L, NEW N, NEW H, NEW G, NEW D, Owned(R, L, N, H, G, D),
         NEW h \in H, NEW sub \in H, h # sub
  PROVE  Owned(R, L, [N EXCEPT ![h] = Append(@, sub)], H \ {sub}, G, D)
<1> DEFINE M == [N EXCEPT ![h] = Append(@, sub)]
           A == DOMAIN N \cup G
<1>0. HeapShape(R, L, N, H, G, D)
  BY DEF Owned
<1>r. RowFacts(L, N, G)
  BY <1>0, Rows
<1>1. N \in [DOMAIN N -> Seq(A)] /\ h \in DOMAIN N /\ sub \in DOMAIN N /\ sub \in A
  BY <1>0 DEF HeapShape
<1>2. ~Has(N, sub) /\ ~Has(L, sub)
  BY <1>1 DEF Owned, Apart
<1>3. /\ DOMAIN M = DOMAIN N /\ M \in [DOMAIN N -> Seq(A)]
      /\ \A y \in DOMAIN N : y # h => M[y] = N[y]
      /\ \A k : Has(M, k) <=> Has(N, k) \/ k = sub
      /\ NodesOnce(M)
  <2>0. Adds(A, N, h, sub, M)
    BY <1>1 DEF Adds
  <2> HIDE DEF A, M
  <2>1. NodesOnce(N)
    BY DEF Owned
  <2>. QED  BY <1>2, <2>0, <2>1, ItemAdded
<1> HIDE DEF M
<1>4. HeapShape(R, L, M, H \ {sub}, G, D)
  BY <1>0, <1>3 DEF HeapShape
<1>5. sub \notin Texts
  BY <1>r, <1>1 DEF RowFacts
<1>6. Apart(M, L, H \ {sub})
  BY <1>2, <1>3 DEF Owned, Apart
<1>7. Rooted(M, L, H \ {sub})
  BY <1>3 DEF Owned, Rooted
<1>8. Counted(M, G, D)
  BY <1>3, <1>5 DEF Owned, Counted
<1>. QED  BY <1>3, <1>4, <1>6, <1>7, <1>8 DEF Owned, M

-----------------------------------------------------------------------------
(* Changes of the lists.                                                    *)

(* The result r gets the items, constants and hole strings of the client each
   of which is in one place, at the end of its list l or in a new one.      *)
Gives(R, L, H, r, l, row, items, Q, K) ==
  /\ r \in Results /\ R[r] # None
  /\ \/ l \in DOMAIN L /\ R[r].list = l /\ row = L[l]
     \/ l \in Nat \ DOMAIN L /\ R[r].list = None /\ row = <<>>
  /\ items \in Seq(H \cup Consts)
  /\ \A i, j \in DOMAIN items : items[i] = items[j] /\ items[i] \in Nat => i = j
  /\ Q \in [Results -> {None} \cup
              [res : {0 - 1, 0, 1}, list : Nat \cup {None}, cell : Nat, refs : 1 .. MaxRefs]]
  /\ Q[r] # None /\ Q[r].list = l /\ Q[r].cell = R[r].cell
  /\ \A q \in Results : q # r => Q[q] = R[q]
  /\ K = With(L, l, row \o items)

(* The places of the lists afterwards are the old ones and those of the items. *)
Placed(L, N, l, row, items, K) ==
  /\ DOMAIN K = DOMAIN L \cup {l}
  /\ K \in [DOMAIN K -> Seq(DOMAIN N \cup Consts)]
  /\ \A m \in DOMAIN K : \A k \in DOMAIN K[m] :
       \/ m \in DOMAIN L /\ k \in DOMAIN L[m] /\ K[m][k] = L[m][k]
       \/ /\ m = l /\ k - Len(row) \in DOMAIN items /\ k = Len(row) + (k - Len(row))
          /\ K[m][k] = items[k - Len(row)]
  /\ \A k : Has(K, k) <=> Has(L, k) \/ \E i \in DOMAIN items : items[i] = k

(* The lists after items were given have those places.                      *)
LEMMA ListPlaces ==
  ASSUME NEW R, NEW L, NEW N, NEW H, NEW G, NEW D, HeapShape(R, L, N, H, G, D),
         NEW r, NEW l, NEW row, NEW items, NEW Q, NEW K,
         Gives(R, L, H, r, l, row, items, Q, K)
  PROVE  Placed(L, N, l, row, items, K)
<1> DEFINE A == DOMAIN N \cup Consts
<1>r. RowFacts(L, N, G)
  BY Rows
<1>1. /\ DOMAIN K = DOMAIN L \cup {l}
      /\ K[l] = row \o items
      /\ \A m \in DOMAIN L : m # l => K[m] = L[m]
      /\ K = [m \in DOMAIN K |-> K[m]]
  BY DEF Gives, With
<1>2. row \in Seq(A) /\ items \in Seq(A)
  <2>1. \A m \in DOMAIN L : L[m] \in Seq(A)
    BY <1>r DEF RowFacts
  <2>2. row \in Seq(A)
    BY <2>1, EmptySeq DEF Gives
  <2>3. H \cup Consts \subseteq A /\ items \in Seq(H \cup Consts)
    BY DEF HeapShape, Gives
  <2> HIDE DEF A
  <2>. QED  BY <2>2, <2>3, SeqMono
<1>3. /\ row \o items \in Seq(A)
      /\ \A k \in DOMAIN (row \o items) :
           \/ k \in DOMAIN row /\ (row \o items)[k] = row[k]
           \/ /\ k - Len(row) \in DOMAIN items /\ k = Len(row) + (k - Len(row))
              /\ (row \o items)[k] = items[k - Len(row)]
      /\ \A k \in DOMAIN row : k \in DOMAIN (row \o items) /\ (row \o items)[k] = row[k]
      /\ \A k \in DOMAIN items : /\ Len(row) + k \in DOMAIN (row \o items)
                                 /\ (row \o items)[Len(row) + k] = items[k]
  <2> HIDE DEF A
  <2>. QED  BY <1>2, ConcatCells
<1>4. \/ l \in DOMAIN L /\ row = L[l]
      \/ l \notin DOMAIN L /\ DOMAIN row = {}
  <2>1. DOMAIN <<>> = {}
    OBVIOUS
  <2>. QED  BY <2>1 DEF Gives
<1>5. \A m \in DOMAIN K : K[m] \in Seq(A)
  BY <1>1, <1>3, <1>r DEF RowFacts
<1>6. ASSUME NEW m \in DOMAIN K, NEW k \in DOMAIN K[m]
      PROVE  \/ m \in DOMAIN L /\ k \in DOMAIN L[m] /\ K[m][k] = L[m][k]
             \/ /\ m = l /\ k - Len(row) \in DOMAIN items /\ k = Len(row) + (k - Len(row))
                /\ K[m][k] = items[k - Len(row)]
  <2>1. CASE m # l
    BY <1>1, <2>1
  <2>2. CASE m = l
    <3>1. CASE k \in DOMAIN row /\ (row \o items)[k] = row[k]
      BY <1>1, <1>4, <2>2, <3>1
    <3>2. CASE /\ k - Len(row) \in DOMAIN items /\ k = Len(row) + (k - Len(row))
               /\ (row \o items)[k] = items[k - Len(row)]
      BY <1>1, <2>2, <3>2
    <3>. QED  BY <1>1, <1>3, <2>2, <3>1, <3>2
  <2>. QED  BY <2>1, <2>2
<1>7. ASSUME NEW m \in DOMAIN L, NEW k \in DOMAIN L[m]
      PROVE  m \in DOMAIN K /\ k \in DOMAIN K[m] /\ K[m][k] = L[m][k]
  <2>1. CASE m # l
    BY <1>1, <2>1
  <2>2. CASE m = l
    BY <1>1, <1>3, <1>4, <2>2
  <2>. QED  BY <2>1, <2>2
<1>8. ASSUME NEW k \in DOMAIN items
      PROVE  Len(row) + k \in DOMAIN K[l] /\ K[l][Len(row) + k] = items[k]
  BY <1>1, <1>3
<1>9. ASSUME NEW k
      PROVE  Has(K, k) <=> Has(L, k) \/ \E i \in DOMAIN items : items[i] = k
  <2>1. ASSUME Has(K, k)  PROVE Has(L, k) \/ \E i \in DOMAIN items : items[i] = k
    <3>1. PICK m \in DOMAIN K : \E i \in DOMAIN K[m] : K[m][i] = k
      BY <2>1 DEF Has
    <3>2. PICK i \in DOMAIN K[m] : K[m][i] = k
      BY <3>1
    <3>. QED  BY <1>6, <3>2 DEF Has
  <2>2. ASSUME Has(L, k)  PROVE Has(K, k)
    BY <1>7, <2>2 DEF Has
  <2>3. ASSUME NEW i \in DOMAIN items, items[i] = k  PROVE Has(K, k)
    BY <1>1, <1>8, <2>3 DEF Has
  <2>. QED  BY <2>1, <2>2, <2>3
<1>10. K \in [DOMAIN K -> Seq(A)]
  BY <1>1, <1>5
<1>. QED  BY <1>1, <1>6, <1>9, <1>10 DEF Placed

(* Items of the client given to a result keep the heap owned: the hole
   strings among them are no longer the client's.                           *)
LEMMA ItemsGiven ==
  ASSUME NEW R, NEW L, NEW N, NEW H, NEW G, NEW D, Owned(R, L, N, H, G, D),
         NEW r, NEW l, NEW row, NEW items, NEW Q, NEW K,
         Gives(R, L, H, r, l, row, items, Q, K)
  PROVE  Owned(Q, K, N, H \ {items[i] : i \in DOMAIN items}, G, D)
<1> DEFINE J == H \ {items[i] : i \in DOMAIN items}
<1>0. HeapShape(R, L, N, H, G, D)
  BY DEF Owned
<1>r. RowFacts(L, N, G)
  BY <1>0, Rows
<1>1. /\ DOMAIN K = DOMAIN L \cup {l}
      /\ K \in [DOMAIN K -> Seq(DOMAIN N \cup Consts)]
      /\ \A m \in DOMAIN K : \A k \in DOMAIN K[m] :
           \/ m \in DOMAIN L /\ k \in DOMAIN L[m] /\ K[m][k] = L[m][k]
           \/ /\ m = l /\ k - Len(row) \in DOMAIN items /\ k = Len(row) + (k - Len(row))
              /\ K[m][k] = items[k - Len(row)]
      /\ \A k : Has(K, k) <=> Has(L, k) \/ \E i \in DOMAIN items : items[i] = k
  <2>1. Placed(L, N, l, row, items, K)
    BY <1>0, ListPlaces
  <2>. QED  BY <2>1 DEF Placed
<1>2. \A i \in DOMAIN items : items[i] \in H \cup Consts
  <2>1. ASSUME NEW A, NEW s \in Seq(A)  PROVE \A i \in DOMAIN s : s[i] \in A
    BY LenProperties
  <2>2. items \in Seq(H \cup Consts)
    BY DEF Gives
  <2>. QED  BY <2>1, <2>2
<1>3. H \subseteq DOMAIN N /\ DOMAIN N \subseteq Nat /\ J \subseteq H
  BY <1>0 DEF HeapShape
<1>4. \A i \in DOMAIN items : items[i] \in Nat => items[i] \in H /\ ~Has(N, items[i]) /\ ~Has(L, items[i])
  <2>1. SUFFICES ASSUME NEW i \in DOMAIN items, items[i] \in Nat
                 PROVE  items[i] \in H /\ ~Has(N, items[i]) /\ ~Has(L, items[i])
    OBVIOUS
  <2>2. items[i] \in H
    BY <1>2, <1>r, <2>1 DEF RowFacts
  <2>3. Apart(N, L, H)
    BY DEF Owned
  <2>. QED  BY <1>3, <2>2, <2>3 DEF Apart
<1>5. l \in Nat /\ l # None /\ Q[r].list = l /\ Q[r] # None /\ r \in Results
  BY <1>0, <1>r DEF Gives, HeapShape, RowFacts
<1>6. HeapShape(Q, K, N, J, G, D)
  <2>1. \A q \in Results : Q[q] # None /\ Q[q].list # None => Q[q].list \in DOMAIN K
    <3>1. SUFFICES ASSUME NEW q \in Results, Q[q] # None, Q[q].list # None, q # r
                   PROVE  Q[q].list \in DOMAIN K
      BY <1>1, <1>5
    <3>2. Q[q] = R[q]
      BY <3>1 DEF Gives
    <3>. QED  BY <1>0, <1>1, <3>1, <3>2 DEF HeapShape
  <2>2. IsFiniteSet(DOMAIN K) /\ DOMAIN K \subseteq Nat
    <3>1. IsFiniteSet(DOMAIN L) /\ DOMAIN L \subseteq Nat
      BY <1>0 DEF HeapShape
    <3>2. IsFiniteSet(DOMAIN L \cup {l})
      BY <3>1, FS_AddElement
    <3>. QED  BY <1>1, <1>5, <3>1, <3>2
  <2>3. Q \in [Results -> {None} \cup
                [res : {0 - 1, 0, 1}, list : Nat \cup {None}, cell : Nat, refs : 1 .. MaxRefs]]
    BY DEF Gives
  <2>. QED  BY <1>0, <1>1, <1>3, <2>1, <2>2, <2>3 DEF HeapShape
<1>7. ListsOnce(K)
  <2>1. SUFFICES ASSUME NEW m \in DOMAIN K, NEW p \in DOMAIN K,
                        NEW i \in DOMAIN K[m], NEW j \in DOMAIN K[p],
                        K[m][i] = K[p][j], K[m][i] \in Nat
                 PROVE  m = p /\ i = j
    BY DEF ListsOnce
  <2>2. ASSUME NEW v \in DOMAIN L, NEW k \in DOMAIN L[v]  PROVE Has(L, L[v][k])
    BY DEF Has
  <2>3. CASE m \in DOMAIN L /\ i \in DOMAIN L[m] /\ K[m][i] = L[m][i]
    <3>1. Has(L, K[p][j])
      BY <2>1, <2>2, <2>3
    <3>2. p \in DOMAIN L /\ j \in DOMAIN L[p] /\ K[p][j] = L[p][j]
      BY <1>1, <1>4, <2>1, <3>1
    <3>3. \A v, w \in DOMAIN L : \A a \in DOMAIN L[v], b \in DOMAIN L[w] :
            L[v][a] = L[w][b] /\ L[v][a] \in Nat => v = w /\ a = b
      BY DEF Owned, ListsOnce
    <3>4. L[m][i] = L[p][j] /\ L[m][i] \in Nat
      BY <2>1, <2>3, <3>2
    <3>. QED  BY <2>3, <3>2, <3>3, <3>4
  <2>4. CASE /\ m = l /\ i - Len(row) \in DOMAIN items /\ i = Len(row) + (i - Len(row))
             /\ K[m][i] = items[i - Len(row)]
    <3>1. ~Has(L, K[p][j])
      BY <1>4, <2>1, <2>4
    <3>2. /\ p = l /\ j - Len(row) \in DOMAIN items /\ j = Len(row) + (j - Len(row))
          /\ K[p][j] = items[j - Len(row)]
      BY <1>1, <2>2, <3>1
    <3>3. \A a, b \in DOMAIN items : items[a] = items[b] /\ items[a] \in Nat => a = b
      BY DEF Gives
    <3>4. i - Len(row) = j - Len(row)
      BY <2>1, <2>4, <3>2, <3>3
    <3>. QED  BY <2>4, <3>2, <3>4
  <2>. QED  BY <1>1, <2>3, <2>4
<1>8. Apart(N, K, J)
  <2>1. ASSUME NEW h \in DOMAIN N, Has(K, h), Has(N, h)  PROVE FALSE
    <3>1. ~Has(L, h)
      BY <2>1 DEF Owned, Apart
    <3>2. PICK i \in DOMAIN items : items[i] = h
      BY <1>1, <2>1, <3>1
    <3>. QED  BY <1>3, <1>4, <2>1, <3>2
  <2>2. ASSUME NEW h \in DOMAIN N, h \in J  PROVE ~Has(N, h) /\ ~Has(K, h)
    <3>1. ~Has(N, h) /\ ~Has(L, h)
      BY <1>3, <2>2 DEF Owned, Apart
    <3>. QED  BY <1>1, <2>2, <3>1
  <2>. QED  BY <2>1, <2>2 DEF Apart
<1>9. Rooted(N, K, J)
  <2>1. ASSUME NEW h \in DOMAIN N, N[h] # <<>>
        PROVE  h \in J \/ Has(N, h) \/ Has(K, h)
    <3>1. h \in H \/ Has(N, h) \/ Has(L, h)
      BY <2>1 DEF Owned, Rooted
    <3>. QED  BY <1>1, <3>1
  <2>. QED  BY <2>1 DEF Rooted
<1>10. ListsOwned(Q, K)
  <2>1. ASSUME NEW m \in DOMAIN K  PROVE \E q \in Results : Q[q] # None /\ Q[q].list = m
    <3>1. CASE m = l
      BY <1>5, <3>1
    <3>2. CASE m # l
      <4>1. m \in DOMAIN L
        BY <1>1, <3>2
      <4>2. PICK q \in Results : R[q] # None /\ R[q].list = m
        BY <4>1 DEF Owned, ListsOwned
      <4>3. q # r
        BY <1>0, <1>r, <3>2, <4>1, <4>2 DEF Gives, RowFacts
      <4>. QED  BY <4>2, <4>3 DEF Gives
    <3>. QED  BY <3>1, <3>2
  <2>2. ASSUME NEW q \in Results, q # r, Q[q] # None, Q[q].list = l
        PROVE  Q[q].cell = Q[r].cell
    <3>1. Q[q] = R[q]
      BY <2>2 DEF Gives
    <3>2. l \in DOMAIN L
      BY <1>0, <1>5, <2>2, <3>1 DEF HeapShape
    <3>3. R[r] # None /\ R[r].list = l /\ Q[r].cell = R[r].cell
      BY <3>2 DEF Gives
    <3>. QED  BY <1>5, <2>2, <3>1, <3>3 DEF Owned, ListsOwned
  <2>3. ASSUME NEW p \in Results, NEW q \in Results, Q[p] # None, Q[q] # None,
               Q[p].list # None, Q[p].list = Q[q].list
        PROVE  Q[p].cell = Q[q].cell
    <3>1. CASE p = r \/ q = r
      BY <1>5, <2>2, <2>3, <3>1
    <3>2. CASE p # r /\ q # r
      <4>1. Q[p] = R[p] /\ Q[q] = R[q]
        BY <3>2 DEF Gives
      <4>. QED  BY <2>3, <4>1 DEF Owned, ListsOwned
    <3>. QED  BY <3>1, <3>2
  <2>. QED  BY <2>1, <2>2, <2>3 DEF ListsOwned
<1> HIDE DEF J
<1>11. NodesOnce(N) /\ Counted(N, G, D)
  BY DEF Owned
<1>. QED  BY <1>6, <1>7, <1>8, <1>9, <1>10, <1>11 DEF Owned, J

-----------------------------------------------------------------------------
(* Freeing.                                                                 *)

(* The parts of h are h and what is in them, and nothing else.              *)
LEMMA PartsFacts ==
  ASSUME NEW h \in DOMAIN nodes
  PROVE  /\ Parts(h) \subseteq DOMAIN nodes /\ h \in Parts(h)
         /\ \A y \in Parts(h) : \A i \in DOMAIN nodes[y] :
              nodes[y][i] \in DOMAIN nodes => nodes[y][i] \in Parts(h)
         /\ \A k \in Parts(h) :
              k = h \/ \E y \in Parts(h) : \E i \in DOMAIN nodes[y] : nodes[y][i] = k
<1> DEFINE Closed(s) == \A y \in s : ToSet(nodes[y]) \cap DOMAIN nodes \subseteq s
           P == Parts(h)
<1>1. \A x : x \in P <=> /\ x \in DOMAIN nodes
                         /\ \A s \in SUBSET DOMAIN nodes : h \in s /\ Closed(s) => x \in s
  BY DEF Parts
<1>2. \A y, k : k \in ToSet(nodes[y]) <=> \E i \in DOMAIN nodes[y] : nodes[y][i] = k
  BY DEF ToSet
<1> HIDE DEF P
<1>3. P \subseteq DOMAIN nodes /\ h \in P
  BY <1>1
<1>4. ASSUME NEW y \in P, NEW k \in DOMAIN nodes, k \in ToSet(nodes[y])
      PROVE  k \in P
  <2>1. ASSUME NEW s \in SUBSET DOMAIN nodes, h \in s, Closed(s)  PROVE k \in s
    <3>1. y \in s
      BY <1>1, <2>1
    <3>. QED  BY <1>4, <2>1, <3>1
  <2> HIDE DEF Closed
  <2>. QED  BY <1>1, <2>1
<1>5. ASSUME NEW k \in P, k # h
      PROVE  \E y \in P : k \in ToSet(nodes[y])
  <2>1. SUFFICES ASSUME \A y \in P : k \notin ToSet(nodes[y])  PROVE FALSE
    OBVIOUS
  <2> DEFINE s == P \ {k}
  <2>2. s \in SUBSET DOMAIN nodes /\ h \in s
    BY <1>3, <1>5
  <2>3. Closed(s)
    BY <1>4, <2>1
  <2> HIDE DEF Closed
  <2>4. k \in s
    BY <1>1, <2>2, <2>3
  <2>. QED  BY <2>4
<1>6. \A y \in P : \A i \in DOMAIN nodes[y] : nodes[y][i] \in DOMAIN nodes => nodes[y][i] \in P
  BY <1>2, <1>4
<1>7. \A k \in P : k = h \/ \E y \in P : \E i \in DOMAIN nodes[y] : nodes[y][i] = k
  BY <1>2, <1>5
<1>. QED  BY <1>3, <1>6, <1>7 DEF P

(* Freeing hole strings of the client's deletes what is in them, once, and
   leaves everything else as it was.                                        *)
LEMMA HandFreed ==
  ASSUME NEW R, NEW L, NEW H, NEW G, Owned(R, L, nodes, H, G, deleted),
         NEW hs \in SUBSET H
  PROVE  Owned(R, L, Freed(hs).nodes, H \ hs, G, Freed(hs).deleted)
<1> DEFINE N == nodes
           D == deleted
           C == UNION {Parts(h) : h \in hs}
           Count(t) == Cardinality({x \in C : t \in ToSet(N[x])})
           M == [x \in DOMAIN N \ hs |-> IF x \in C THEN <<>> ELSE N[x]]
           E == [t \in Texts |-> D[t] + Count(t)]
<1>0. HeapShape(R, L, N, H, G, D)
  BY DEF Owned
<1>r. RowFacts(L, N, G)
  BY <1>0, Rows
<1>1. Freed(hs).nodes = M /\ Freed(hs).deleted = E
  BY DEF Freed
<1>2. H \subseteq DOMAIN N /\ hs \subseteq DOMAIN N
  BY <1>0 DEF HeapShape
<1>3. /\ C \subseteq DOMAIN N /\ hs \subseteq C
      /\ \A y \in C : \A i \in DOMAIN N[y] : N[y][i] \in DOMAIN N => N[y][i] \in C
      /\ \A k \in C : k \in hs \/ \E y \in C : \E i \in DOMAIN N[y] : N[y][i] = k
  <2>1. \A h \in hs : /\ Parts(h) \subseteq DOMAIN N /\ h \in Parts(h)
                      /\ \A y \in Parts(h) : \A i \in DOMAIN nodes[y] :
                           nodes[y][i] \in DOMAIN nodes => nodes[y][i] \in Parts(h)
                      /\ \A k \in Parts(h) :
                           k = h \/ \E y \in Parts(h) : \E i \in DOMAIN nodes[y] : nodes[y][i] = k
    BY <1>2, PartsFacts
  <2>2. \A x : x \in C <=> \E h \in hs : x \in Parts(h)
    OBVIOUS
  <2> HIDE DEF C
  <2>3. C \subseteq DOMAIN N /\ hs \subseteq C
    BY <2>1, <2>2
  <2>4. ASSUME NEW y \in C, NEW i \in DOMAIN N[y], N[y][i] \in DOMAIN N  PROVE N[y][i] \in C
    BY <2>1, <2>2, <2>4
  <2>5. ASSUME NEW k \in C, k \notin hs
        PROVE  \E y \in C : \E i \in DOMAIN N[y] : N[y][i] = k
    <3>1. PICK h \in hs : k \in Parts(h)
      BY <2>2
    <3>2. PICK y \in Parts(h) : \E i \in DOMAIN N[y] : N[y][i] = k
      BY <2>1, <2>5, <3>1
    <3>. QED  BY <2>2, <3>2
  <2>. QED  BY <2>3, <2>4, <2>5
<1> HIDE DEF C
<1>4. /\ DOMAIN M = DOMAIN N \ hs
      /\ \A x \in DOMAIN M : x \in C => M[x] = <<>> /\ DOMAIN M[x] = {}
      /\ \A x \in DOMAIN M : x \notin C => M[x] = N[x]
      /\ M = [x \in DOMAIN M |-> M[x]]
  <2>1. DOMAIN <<>> = {}
    OBVIOUS
  <2>. QED  BY <2>1
<1>5. \A t \in Texts : E[t] = D[t] + Count(t)
  OBVIOUS
<1>6. \A t : \A y \in DOMAIN N : t \in ToSet(N[y]) <=> \E i \in DOMAIN N[y] : N[y][i] = t
  BY DEF ToSet
<1> HIDE DEF M
<1>7. \A h \in hs : ~Has(N, h) /\ ~Has(L, h)
  BY <1>2 DEF Owned, Apart
<1>8. ASSUME NEW k  PROVE Has(M, k) <=> \E y \in DOMAIN N \ C : \E i \in DOMAIN N[y] : N[y][i] = k
  BY <1>3, <1>4 DEF Has
<1>9. \A k : Has(M, k) => Has(N, k)
  BY <1>8 DEF Has
<1>10. NodesOnce(M)
  <2>1. SUFFICES ASSUME NEW y \in DOMAIN M, NEW z \in DOMAIN M,
                        NEW i \in DOMAIN M[y], NEW j \in DOMAIN M[z], M[y][i] = M[z][j]
                 PROVE  y = z /\ i = j
    BY DEF NodesOnce
  <2>2. y \notin C /\ z \notin C /\ y \in DOMAIN N /\ z \in DOMAIN N
    BY <1>4
  <2>3. M[y] = N[y] /\ M[z] = N[z]
    BY <1>4, <2>2
  <2>. QED  BY <2>1, <2>2, <2>3 DEF Owned, NodesOnce
<1>11. \A t \in Texts : Has(N, t) =>
         \/ Count(t) = 1 /\ ~Has(M, t)
         \/ Count(t) = 0 /\ Has(M, t)
  <2>1. SUFFICES ASSUME NEW t \in Texts, Has(N, t)
                 PROVE  \/ Count(t) = 1 /\ ~Has(M, t)
                        \/ Count(t) = 0 /\ Has(M, t)
    OBVIOUS
  <2>2. PICK y \in DOMAIN N : \E i \in DOMAIN N[y] : N[y][i] = t
    BY <2>1 DEF Has
  <2>3. ASSUME NEW z \in DOMAIN N, \E j \in DOMAIN N[z] : N[z][j] = t  PROVE z = y
    BY <2>2, <2>3 DEF Owned, NodesOnce
  <2>4. CASE y \in C
    <3>1. {x \in C : t \in ToSet(N[x])} = {y}
      BY <1>3, <1>6, <2>2, <2>3, <2>4
    <3>2. Count(t) = 1
      BY <3>1, FS_Singleton
    <3>3. ~Has(M, t)
      BY <1>8, <2>3, <2>4
    <3>. QED  BY <3>2, <3>3
  <2>5. CASE y \notin C
    <3>1. {x \in C : t \in ToSet(N[x])} = {}
      BY <1>3, <1>6, <2>3, <2>5
    <3>2. Count(t) = 0
      BY <3>1, FS_EmptySet
    <3>3. Has(M, t)
      BY <1>8, <2>2, <2>5
    <3>. QED  BY <3>2, <3>3
  <2>. QED  BY <2>4, <2>5
<1>12. \A t \in Texts : ~Has(N, t) => Count(t) = 0 /\ ~Has(M, t)
  <2>1. SUFFICES ASSUME NEW t \in Texts, ~Has(N, t)  PROVE Count(t) = 0 /\ ~Has(M, t)
    OBVIOUS
  <2>2. {x \in C : t \in ToSet(N[x])} = {}
    BY <1>3, <1>6, <2>1 DEF Has
  <2>3. Count(t) = 0
    BY <2>2, FS_EmptySet
  <2>. QED  BY <1>9, <2>1, <2>3
<1> HIDE DEF E, Count
<1>13. \A t \in Texts : t \notin G => ~Has(N, t)
  BY <1>r DEF Has, RowFacts
<1>14. D \in [Texts -> Nat] /\ G \subseteq Texts
  BY <1>0 DEF HeapShape
<1>15. \A t \in Texts : IF t \in G THEN E[t] = (IF Has(M, t) THEN 0 ELSE 1) ELSE E[t] = 0
  <2>1. SUFFICES ASSUME NEW t \in Texts
                 PROVE  IF t \in G THEN E[t] = (IF Has(M, t) THEN 0 ELSE 1) ELSE E[t] = 0
    OBVIOUS
  <2>2. IF t \in G THEN D[t] = (IF Has(N, t) THEN 0 ELSE 1) ELSE D[t] = 0
    BY DEF Owned, Counted
  <2>3. CASE Has(N, t)
    <3>1. \/ Count(t) = 1 /\ ~Has(M, t)
          \/ Count(t) = 0 /\ Has(M, t)
      BY <1>11, <2>3
    <3>. QED  BY <1>5, <1>13, <2>2, <2>3, <3>1
  <2>4. CASE ~Has(N, t)
    <3>1. Count(t) = 0 /\ ~Has(M, t)
      BY <1>12, <2>4
    <3>. QED  BY <1>5, <2>2, <2>4, <3>1
  <2>. QED  BY <2>3, <2>4
<1>16. E \in [Texts -> Nat]
  <2>1. \A t \in Texts : E[t] \in Nat
    BY <1>15
  <2>2. E = [t \in Texts |-> E[t]]
    BY DEF E
  <2>. QED  BY <2>1, <2>2
<1>17. HeapShape(R, L, M, H \ hs, G, E)
  <2>1. \A y \in DOMAIN M : M[y] \in Seq(DOMAIN M \cup G)
    <3>1. SUFFICES ASSUME NEW y \in DOMAIN M, y \notin C
                   PROVE  M[y] \in Seq(DOMAIN M \cup G)
      <4>1. <<>> \in Seq(DOMAIN M \cup G)
        BY EmptySeq
      <4>. QED  BY <1>4, <4>1
    <3>2. M[y] = N[y] /\ y \in DOMAIN N
      BY <1>4, <3>1
    <3>3. N[y] \in Seq(DOMAIN N \cup G) /\ \A i \in DOMAIN N[y] : N[y][i] \in DOMAIN N \cup G
      BY <1>r, <3>2 DEF RowFacts
    <3>4. \A i \in DOMAIN N[y] : N[y][i] \in DOMAIN M \cup G
      BY <1>4, <1>7, <3>2, <3>3 DEF Has
    <3>5. Len(N[y]) \in Nat /\ N[y] \in [1 .. Len(N[y]) -> DOMAIN N \cup G]
      BY <3>3, LenProperties
    <3>6. N[y] \in [1 .. Len(N[y]) -> DOMAIN M \cup G]
      BY <3>4, <3>5
    <3>. QED  BY <3>2, <3>5, <3>6, SeqDef
  <2>2. \A l \in DOMAIN L : L[l] \in Seq(DOMAIN M \cup Consts)
    <3>1. SUFFICES ASSUME NEW l \in DOMAIN L  PROVE L[l] \in Seq(DOMAIN M \cup Consts)
      OBVIOUS
    <3>3. L[l] \in Seq(DOMAIN N \cup Consts) /\ \A i \in DOMAIN L[l] : L[l][i] \in DOMAIN N \cup Consts
      BY <1>r DEF RowFacts
    <3>4. \A i \in DOMAIN L[l] : L[l][i] \in DOMAIN M \cup Consts
      BY <1>4, <1>7, <3>3 DEF Has
    <3>5. Len(L[l]) \in Nat /\ L[l] \in [1 .. Len(L[l]) -> DOMAIN N \cup Consts]
      BY <3>3, LenProperties
    <3>6. L[l] \in [1 .. Len(L[l]) -> DOMAIN M \cup Consts]
      BY <3>4, <3>5
    <3>. QED  BY <3>5, <3>6, SeqDef
  <2>3. M \in [DOMAIN M -> Seq(DOMAIN M \cup G)]
    BY <1>4, <2>1
  <2>4. L \in [DOMAIN L -> Seq(DOMAIN M \cup Consts)]
    BY <1>0, <2>2 DEF HeapShape
  <2>5. IsFiniteSet(DOMAIN M) /\ DOMAIN M \subseteq Nat
    <3>1. IsFiniteSet(DOMAIN N) /\ DOMAIN N \subseteq Nat
      BY <1>0 DEF HeapShape
    <3>2. IsFiniteSet(DOMAIN N \ hs)
      BY <3>1, FS_Difference
    <3>. QED  BY <1>4, <3>1, <3>2
  <2>. QED  BY <1>0, <1>2, <1>4, <1>16, <2>3, <2>4, <2>5 DEF HeapShape
<1>18. Apart(M, L, H \ hs)
  BY <1>4, <1>9 DEF Owned, Apart
<1>19. Rooted(M, L, H \ hs)
  <2>1. SUFFICES ASSUME NEW h \in DOMAIN M, M[h] # <<>>
                 PROVE  h \in H \ hs \/ Has(M, h) \/ Has(L, h)
    BY DEF Rooted
  <2>2. h \in DOMAIN N /\ h \notin hs /\ h \notin C /\ N[h] # <<>>
    BY <1>4, <2>1
  <2>3. h \in H \/ Has(N, h) \/ Has(L, h)
    BY <2>2 DEF Owned, Rooted
  <2>4. ASSUME Has(N, h)  PROVE Has(M, h)
    <3>1. PICK y \in DOMAIN N : \E i \in DOMAIN N[y] : N[y][i] = h
      BY <2>4 DEF Has
    <3>2. y \notin C
      BY <1>3, <2>2, <3>1
    <3>. QED  BY <1>8, <3>1, <3>2
  <2>. QED  BY <2>2, <2>3, <2>4
<1>20. Counted(M, G, E)
  BY <1>15 DEF Counted
<1>21. ListsOnce(L) /\ ListsOwned(R, L)
  BY DEF Owned
<1>22. Owned(R, L, M, H \ hs, G, E)
  BY <1>10, <1>17, <1>18, <1>19, <1>20, <1>21 DEF Owned
<1>. QED  BY <1>1, <1>22

-----------------------------------------------------------------------------
(* Changes of the results.                                                  *)

ResultsTyped(Q) ==
  Q \in [Results -> {None} \cup
           [res : {0 - 1, 0, 1}, list : Nat \cup {None}, cell : Nat, refs : 1 .. MaxRefs]]

(* The same lists have results in both, and those of a list the same count.  *)
SameLists(R, Q) ==
  /\ \A r \in Results : R[r] # None /\ R[r].list # None =>
       \E q \in Results : Q[q] # None /\ Q[q].list = R[r].list
  /\ \A q \in Results : Q[q] # None /\ Q[q].list # None =>
       \E r \in Results : R[r] # None /\ R[r].list = Q[q].list /\ R[r].cell = Q[q].cell

(* Results without a list and copies come and go, verdicts and counts change. *)
LEMMA ResultsChanged ==
  ASSUME NEW R, NEW L, NEW N, NEW H, NEW G, NEW D, Owned(R, L, N, H, G, D),
         NEW Q, ResultsTyped(Q), SameLists(R, Q)
  PROVE  Owned(Q, L, N, H, G, D)
<1>0. HeapShape(R, L, N, H, G, D)
  BY DEF Owned
<1>r. RowFacts(L, N, G)
  BY <1>0, Rows
<1>1. \A l \in DOMAIN L : l # None
  BY <1>r DEF RowFacts
<1>2. ListsOwned(Q, L)
  <2>1. ASSUME NEW l \in DOMAIN L  PROVE \E r \in Results : Q[r] # None /\ Q[r].list = l
    <3>1. PICK r \in Results : R[r] # None /\ R[r].list = l
      BY DEF Owned, ListsOwned
    <3>. QED  BY <1>1, <3>1 DEF SameLists
  <2>2. ASSUME NEW p \in Results, NEW q \in Results, Q[p] # None, Q[q] # None,
               Q[p].list # None, Q[p].list = Q[q].list
        PROVE  Q[p].cell = Q[q].cell
    <3>1. PICK x \in Results : R[x] # None /\ R[x].list = Q[p].list /\ R[x].cell = Q[p].cell
      BY <2>2 DEF SameLists
    <3>2. PICK y \in Results : R[y] # None /\ R[y].list = Q[q].list /\ R[y].cell = Q[q].cell
      BY <2>2 DEF SameLists
    <3>3. R[x].cell = R[y].cell
      BY <2>2, <3>1, <3>2 DEF Owned, ListsOwned
    <3>. QED  BY <3>1, <3>2, <3>3
  <2>. QED  BY <2>1, <2>2 DEF ListsOwned
<1>3. ASSUME NEW r \in Results, Q[r] # None, Q[r].list # None
      PROVE  Q[r].list \in DOMAIN L
  <2>1. PICK x \in Results : R[x] # None /\ R[x].list = Q[r].list
    BY <1>3 DEF SameLists
  <2>. QED  BY <1>0, <1>3, <2>1 DEF HeapShape
<1>4. HeapShape(Q, L, N, H, G, D)
  BY <1>0, <1>3 DEF HeapShape, ResultsTyped
<1>5. NodesOnce(N) /\ ListsOnce(L) /\ Apart(N, L, H) /\ Rooted(N, L, H) /\ Counted(N, G, D)
  BY DEF Owned
<1>. QED  BY <1>2, <1>4, <1>5 DEF Owned

(* In Q the list of s is that of d, which had none.                          *)
Handed(R, d, s, Q) ==
  /\ d # s /\ R[d] # None /\ R[s] # None /\ R[d].list = None /\ Alone(R, s)
  /\ Q[d] # None /\ Q[d].list = R[s].list /\ Q[s] # None /\ Q[s].list = None
  /\ \A r \in Results : r # d /\ r # s => Q[r] = R[r]

(* The list of s becomes that of d, which had none.                         *)
LEMMA ListHanded ==
  ASSUME NEW R, NEW L, NEW N, NEW H, NEW G, NEW D, Owned(R, L, N, H, G, D),
         NEW d \in Results, NEW s \in Results, NEW Q, ResultsTyped(Q), Handed(R, d, s, Q)
  PROVE  Owned(Q, L, N, H, G, D)
<1>h. /\ d # s /\ R[d] # None /\ R[s] # None /\ R[d].list = None /\ Alone(R, s)
      /\ Q[d] # None /\ Q[d].list = R[s].list /\ Q[s] # None /\ Q[s].list = None
      /\ \A r \in Results : r # d /\ r # s => Q[r] = R[r]
  BY DEF Handed
<1>0. HeapShape(R, L, N, H, G, D)
  BY DEF Owned
<1>r. RowFacts(L, N, G)
  BY <1>0, Rows
<1>1. \A l \in DOMAIN L : l # None
  BY <1>r DEF RowFacts
<1>2. ListsOwned(Q, L)
  <2>1. ASSUME NEW l \in DOMAIN L  PROVE \E r \in Results : Q[r] # None /\ Q[r].list = l
    <3>1. PICK r \in Results : R[r] # None /\ R[r].list = l
      BY DEF Owned, ListsOwned
    <3>2. r # d
      BY <1>h, <1>1, <3>1
    <3>3. CASE r = s
      BY <1>h, <3>1, <3>3
    <3>4. CASE r # s
      BY <1>h, <3>1, <3>2, <3>4
    <3>. QED  BY <3>3, <3>4
  <2>2. ASSUME NEW p \in Results, NEW q \in Results, Q[p] # None, Q[q] # None,
               Q[p].list # None, Q[p].list = Q[q].list
        PROVE  Q[p].cell = Q[q].cell
    <3>1. p # s /\ q # s
      BY <1>h, <2>2
    <3>2. ASSUME NEW x \in Results, x # s, x # d, Q[x] # None, Q[x].list # None
          PROVE  Q[x].list # R[s].list
      <4>1. R[x] # None /\ R[x].list = Q[x].list
        BY <1>h, <3>2
      <4>2. R[x].cell # R[s].cell
        BY <1>h, <3>2, <4>1 DEF Alone
      <4>. QED  BY <3>2, <4>1, <4>2, <1>h DEF Owned, ListsOwned
    <3>3. CASE p = d
      <4>1. q = d
        BY <1>h, <2>2, <3>1, <3>2, <3>3
      <4>. QED  BY <3>3, <4>1
    <3>4. CASE q = d
      <4>1. p = d
        BY <1>h, <2>2, <3>1, <3>2, <3>4
      <4>. QED  BY <3>4, <4>1
    <3>5. CASE p # d /\ q # d
      BY <2>2, <3>1, <3>5, <1>h DEF Owned, ListsOwned
    <3>. QED  BY <3>3, <3>4, <3>5
  <2>. QED  BY <2>1, <2>2 DEF ListsOwned
<1>3. ASSUME NEW r \in Results, Q[r] # None, Q[r].list # None
      PROVE  Q[r].list \in DOMAIN L
  <2>1. CASE r = d
    BY <1>h, <1>0, <1>3, <2>1 DEF HeapShape
  <2>2. CASE r # d
    <3>1. r # s
      BY <1>h, <1>3
    <3>2. Q[r] = R[r]
      BY <1>h, <2>2, <3>1
    <3>. QED  BY <1>0, <1>3, <3>2 DEF HeapShape
  <2>. QED  BY <2>1, <2>2
<1>4. HeapShape(Q, L, N, H, G, D)
  BY <1>0, <1>3 DEF HeapShape, ResultsTyped
<1>5. NodesOnce(N) /\ ListsOnce(L) /\ Apart(N, L, H) /\ Rooted(N, L, H) /\ Counted(N, G, D)
  BY DEF Owned
<1>. QED  BY <1>2, <1>4, <1>5 DEF Owned

(* The hole strings of a list that is emptied go to whoever empties it.     *)
LEMMA ListEmptied ==
  ASSUME NEW R, NEW L, NEW N, NEW H, NEW G, NEW D, Owned(R, L, N, H, G, D),
         NEW b \in DOMAIN L
  PROVE  Owned(R, [L EXCEPT ![b] = <<>>], N,
               H \cup ({L[b][i] : i \in DOMAIN L[b]} \cap DOMAIN N), G, D)
<1> DEFINE K == [L EXCEPT ![b] = <<>>]
           S == {L[b][i] : i \in DOMAIN L[b]} \cap DOMAIN N
<1>0. HeapShape(R, L, N, H, G, D)
  BY DEF Owned
<1>r. RowFacts(L, N, G)
  BY <1>0, Rows
<1>1. /\ DOMAIN K = DOMAIN L /\ K[b] = <<>> /\ DOMAIN K[b] = {}
      /\ \A m \in DOMAIN L : m # b => K[m] = L[m]
      /\ K = [m \in DOMAIN L |-> K[m]]
  <2>1. DOMAIN <<>> = {}
    OBVIOUS
  <2>. QED  BY <2>1
<1> HIDE DEF K
<1>2. \A k : Has(K, k) => Has(L, k)
  BY <1>1 DEF Has
<1>3. \A k \in S : Has(L, k) /\ k \in DOMAIN N
  BY DEF Has
<1>4. \A k \in DOMAIN N : Has(L, k) => Has(K, k) \/ k \in S
  <2>1. SUFFICES ASSUME NEW k \in DOMAIN N, Has(L, k), k \notin S  PROVE Has(K, k)
    OBVIOUS
  <2>2. PICK m \in DOMAIN L : \E i \in DOMAIN L[m] : L[m][i] = k
    BY <2>1 DEF Has
  <2>3. m # b
    BY <2>1, <2>2
  <2>. QED  BY <1>1, <2>2, <2>3 DEF Has
<1>5. \A k \in S : ~Has(K, k)
  <2>1. SUFFICES ASSUME NEW k \in S, Has(K, k)  PROVE FALSE
    OBVIOUS
  <2>2. PICK m \in DOMAIN K : \E j \in DOMAIN K[m] : K[m][j] = k
    BY <2>1 DEF Has
  <2>3. m # b /\ m \in DOMAIN L /\ K[m] = L[m]
    BY <1>1, <2>2
  <2>4. PICK j \in DOMAIN L[m] : L[m][j] = k
    BY <2>2, <2>3
  <2>5. PICK i \in DOMAIN L[b] : L[b][i] = k
    OBVIOUS
  <2>6. k \in Nat
    BY <1>0, <1>3 DEF HeapShape
  <2>. QED  BY <2>3, <2>4, <2>5, <2>6 DEF Owned, ListsOnce
<1>6. HeapShape(R, K, N, H \cup S, G, D)
  <2>1. \A m \in DOMAIN L : K[m] \in Seq(DOMAIN N \cup Consts)
    <3>1. <<>> \in Seq(DOMAIN N \cup Consts)
      BY EmptySeq
    <3>. QED  BY <1>1, <1>r, <3>1 DEF RowFacts
  <2>2. K \in [DOMAIN K -> Seq(DOMAIN N \cup Consts)]
    BY <1>1, <2>1
  <2>3. H \cup S \subseteq DOMAIN N
    BY <1>0 DEF HeapShape
  <2> HIDE DEF S
  <2>. QED  BY <1>0, <1>1, <2>2, <2>3 DEF HeapShape
<1> HIDE DEF S
<1>7. ListsOnce(K)
  <2>1. SUFFICES ASSUME NEW m \in DOMAIN K, NEW p \in DOMAIN K,
                        NEW i \in DOMAIN K[m], NEW j \in DOMAIN K[p],
                        K[m][i] = K[p][j], K[m][i] \in Nat
                 PROVE  m = p /\ i = j
    BY DEF ListsOnce
  <2>2. m \in DOMAIN L /\ p \in DOMAIN L /\ K[m] = L[m] /\ K[p] = L[p]
    BY <1>1
  <2>. QED  BY <2>1, <2>2 DEF Owned, ListsOnce
<1>8. Apart(N, K, H \cup S)
  <2>1. SUFFICES ASSUME NEW h \in DOMAIN N
                 PROVE  /\ ~(Has(N, h) /\ Has(K, h))
                        /\ h \in H \cup S => ~Has(N, h) /\ ~Has(K, h)
    BY DEF Apart
  <2>2. /\ ~(Has(N, h) /\ Has(L, h))
        /\ h \in H => ~Has(N, h) /\ ~Has(L, h)
    BY DEF Owned, Apart
  <2>. QED  BY <1>2, <1>3, <1>5, <2>2
<1>9. Rooted(N, K, H \cup S)
  <2>1. SUFFICES ASSUME NEW h \in DOMAIN N, N[h] # <<>>
                 PROVE  h \in H \cup S \/ Has(N, h) \/ Has(K, h)
    BY DEF Rooted
  <2>2. h \in H \/ Has(N, h) \/ Has(L, h)
    BY <2>1 DEF Owned, Rooted
  <2>. QED  BY <1>4, <2>2
<1>10. ListsOwned(R, K)
  BY <1>1 DEF Owned, ListsOwned
<1>11. NodesOnce(N) /\ Counted(N, G, D)
  BY DEF Owned
<1>. QED  BY <1>6, <1>7, <1>8, <1>9, <1>10, <1>11 DEF Owned, K, S

(* A result and its empty list are freed.                                   *)
LEMMA EmptyListDropped ==
  ASSUME NEW R, NEW L, NEW N, NEW H, NEW G, NEW D, Owned(R, L, N, H, G, D),
         NEW r \in Results, R[r] # None, Alone(R, r),
         R[r].list \in DOMAIN L, L[R[r].list] = <<>>
  PROVE  Owned([R EXCEPT ![r] = None], Without(L, {R[r].list}), N, H, G, D)
<1> DEFINE b == R[r].list
           K == Without(L, {b})
           Q == [R EXCEPT ![r] = None]
<1>0. HeapShape(R, L, N, H, G, D)
  BY DEF Owned
<1>r. RowFacts(L, N, G)
  BY <1>0, Rows
<1>1. /\ DOMAIN K = DOMAIN L \ {b}
      /\ \A m \in DOMAIN K : K[m] = L[m]
      /\ K = [m \in DOMAIN K |-> K[m]]
  BY DEF Without
<1>2. Q[r] = None /\ \A q \in Results : q # r => Q[q] = R[q]
  BY <1>0 DEF HeapShape
<1>3. ResultsTyped(Q)
  BY <1>0 DEF HeapShape, ResultsTyped
<1>4. b # None /\ DOMAIN L[b] = {}
  <2>1. DOMAIN <<>> = {}
    OBVIOUS
  <2>. QED  BY <1>r, <2>1 DEF RowFacts
<1> HIDE DEF K, Q
<1>5. \A k : Has(K, k) <=> Has(L, k)
  <2>1. SUFFICES ASSUME NEW k  PROVE Has(K, k) <=> Has(L, k)
    OBVIOUS
  <2>2. ASSUME NEW m \in DOMAIN L, \E i \in DOMAIN L[m] : L[m][i] = k
        PROVE  m \in DOMAIN K /\ K[m] = L[m]
    BY <1>1, <1>4, <2>2
  <2>. QED  BY <1>1, <2>2 DEF Has
<1>6. \A q \in Results : q # r /\ R[q] # None => R[q].list # b
  BY <1>4 DEF Owned, ListsOwned, Alone
<1>7. HeapShape(Q, K, N, H, G, D)
  <2>1. \A q \in Results : Q[q] # None /\ Q[q].list # None => Q[q].list \in DOMAIN K
    <3>1. SUFFICES ASSUME NEW q \in Results, q # r, Q[q] # None, Q[q].list # None
                   PROVE  Q[q].list \in DOMAIN K
      BY <1>2
    <3>2. Q[q] = R[q]
      BY <1>2, <3>1
    <3>3. R[q].list \in DOMAIN L /\ R[q].list # b
      BY <1>0, <1>6, <3>1, <3>2 DEF HeapShape
    <3>. QED  BY <1>1, <3>2, <3>3
  <2>2. IsFiniteSet(DOMAIN K) /\ DOMAIN K \subseteq Nat
    <3>1. IsFiniteSet(DOMAIN L) /\ DOMAIN L \subseteq Nat
      BY <1>0 DEF HeapShape
    <3>2. IsFiniteSet(DOMAIN L \ {b})
      BY <3>1, FS_Difference
    <3>. QED  BY <1>1, <3>1, <3>2
  <2>3. K \in [DOMAIN K -> Seq(DOMAIN N \cup Consts)]
    BY <1>1, <1>r DEF RowFacts
  <2>. QED  BY <1>0, <1>3, <2>1, <2>2, <2>3 DEF HeapShape, ResultsTyped
<1>8. ListsOnce(K)
  BY <1>1 DEF Owned, ListsOnce
<1>9. Apart(N, K, H) /\ Rooted(N, K, H)
  BY <1>5 DEF Owned, Apart, Rooted
<1>10. ListsOwned(Q, K)
  <2>1. ASSUME NEW m \in DOMAIN K  PROVE \E q \in Results : Q[q] # None /\ Q[q].list = m
    <3>1. m \in DOMAIN L /\ m # b
      BY <1>1
    <3>2. PICK q \in Results : R[q] # None /\ R[q].list = m
      BY <3>1 DEF Owned, ListsOwned
    <3>3. q # r
      BY <3>1, <3>2
    <3>. QED  BY <1>2, <3>2, <3>3
  <2>2. ASSUME NEW p \in Results, NEW q \in Results, Q[p] # None, Q[q] # None,
               Q[p].list # None, Q[p].list = Q[q].list
        PROVE  Q[p].cell = Q[q].cell
    <3>1. Q[p] = R[p] /\ Q[q] = R[q]
      BY <1>2, <2>2
    <3>. QED  BY <2>2, <3>1 DEF Owned, ListsOwned
  <2>. QED  BY <2>1, <2>2 DEF ListsOwned
<1>11. NodesOnce(N) /\ Counted(N, G, D)
  BY DEF Owned
<1>. QED  BY <1>7, <1>8, <1>9, <1>10, <1>11 DEF Owned, K, Q

-----------------------------------------------------------------------------
(* Changes of the counts.                                                   *)

(* Each result holds as many references to the same count in both.          *)
SameShares(R, Q) ==
  \A r \in Results : /\ R[r] # None <=> Q[r] # None
                     /\ R[r] # None => Q[r].cell = R[r].cell /\ Q[r].refs = R[r].refs

(* The results of Q have the counts and the lists of results of R.          *)
SharesFrom(R, Q) ==
  \A r \in Results : Q[r] # None =>
    \E p \in Results : R[p] # None /\ R[p].cell = Q[r].cell /\ R[p].list = Q[r].list

(* Verdicts change, and lists of results that share their count with none.   *)
LEMMA SharingKept ==
  ASSUME NEW R, NEW C, Sharing(R, C), NEW Q, SameShares(R, Q),
         \A q \in Results : R[q] # None /\ ~Alone(R, q) => Q[q].list = R[q].list
  PROVE  Sharing(Q, C)
<1>1. \A c : Holders(Q, c) = Holders(R, c)
  BY DEF Holders, SameShares
<1>2. ASSUME NEW r \in Results, NEW q \in Results, Q[r] # None, Q[q] # None,
             Q[r].cell = Q[q].cell
      PROVE  Q[r].list = Q[q].list
  <2>1. R[r] # None /\ R[q] # None /\ R[r].cell = R[q].cell
    BY <1>2 DEF SameShares
  <2>2. CASE r = q
    BY <2>2
  <2>3. CASE r # q
    <3>1. ~Alone(R, r) /\ ~Alone(R, q)
      BY <2>1, <2>3 DEF Alone
    <3>. QED  BY <2>1, <3>1 DEF Sharing
  <2>. QED  BY <2>2, <2>3
<1>3. \A r \in Results : Q[r] # None => Q[r].cell \in DOMAIN C
  BY DEF Sharing, SameShares
<1>. QED  BY <1>1, <1>2, <1>3 DEF Sharing

(* One more reference is counted.                                           *)
LEMMA ReferenceTaken ==
  ASSUME NEW R, NEW C, Sharing(R, C), NEW c \in DOMAIN C, NEW Q, SharesFrom(R, Q),
         NEW x, x \notin Holders(R, c), Holders(Q, c) = Holders(R, c) \cup {x},
         \A d : d # c => Holders(Q, d) = Holders(R, d)
  PROVE  Sharing(Q, [C EXCEPT ![c] = @ + 1])
<1> DEFINE K == [C EXCEPT ![c] = @ + 1]
<1>1. DOMAIN K = DOMAIN C /\ K[c] = C[c] + 1 /\ \A d \in DOMAIN C : d # c => K[d] = C[d]
  OBVIOUS
<1>2. /\ IsFiniteSet(Holders(R, c)) /\ Cardinality(Holders(R, c)) = C[c]
      /\ C[c] \in Nat \ {0}
  BY DEF Sharing
<1>3. IsFiniteSet(Holders(Q, c)) /\ Cardinality(Holders(Q, c)) = C[c] + 1
  BY <1>2, FS_AddElement
<1> HIDE DEF K
<1>4. ASSUME NEW d \in DOMAIN K
      PROVE  /\ IsFiniteSet(Holders(Q, d)) /\ Cardinality(Holders(Q, d)) = K[d]
             /\ K[d] \in Nat \ {0}
  <2>1. CASE d = c
    BY <1>1, <1>2, <1>3, <2>1
  <2>2. CASE d # c
    BY <1>1, <2>2 DEF Sharing
  <2>. QED  BY <2>1, <2>2
<1>5. /\ \A r \in Results : Q[r] # None => Q[r].cell \in DOMAIN K
      /\ \A r, q \in Results :
           Q[r] # None /\ Q[q] # None /\ Q[r].cell = Q[q].cell => Q[r].list = Q[q].list
  <2>1. ASSUME NEW r \in Results, Q[r] # None  PROVE Q[r].cell \in DOMAIN K
    <3>1. PICK p \in Results : R[p] # None /\ R[p].cell = Q[r].cell
      BY <2>1 DEF SharesFrom
    <3>. QED  BY <1>1, <3>1 DEF Sharing
  <2>2. ASSUME NEW r \in Results, NEW q \in Results, Q[r] # None, Q[q] # None,
               Q[r].cell = Q[q].cell
        PROVE  Q[r].list = Q[q].list
    <3>1. PICK p \in Results : R[p] # None /\ R[p].cell = Q[r].cell /\ R[p].list = Q[r].list
      BY <2>2 DEF SharesFrom
    <3>2. PICK o \in Results : R[o] # None /\ R[o].cell = Q[q].cell /\ R[o].list = Q[q].list
      BY <2>2 DEF SharesFrom
    <3>3. R[p].cell = R[o].cell
      BY <2>2, <3>1, <3>2
    <3>4. R[p].list = R[o].list
      BY <3>1, <3>2, <3>3 DEF Sharing
    <3>. QED  BY <3>1, <3>2, <3>4
  <2>. QED  BY <2>1, <2>2
<1>6. IsFiniteSet(DOMAIN K) /\ DOMAIN K \subseteq Nat
  BY <1>1 DEF Sharing
<1>7. Sharing(Q, K)
  BY <1>4, <1>5, <1>6 DEF Sharing
<1>. QED  BY <1>7 DEF K

(* One reference of several is given back.                                  *)
LEMMA ReferenceReturned ==
  ASSUME NEW R, NEW C, Sharing(R, C), NEW c \in DOMAIN C, C[c] > 1,
         NEW Q, SharesFrom(R, Q),
         NEW x \in Holders(R, c), Holders(Q, c) = Holders(R, c) \ {x},
         \A d : d # c => Holders(Q, d) = Holders(R, d)
  PROVE  Sharing(Q, [C EXCEPT ![c] = @ - 1])
<1> DEFINE K == [C EXCEPT ![c] = @ - 1]
<1>1. DOMAIN K = DOMAIN C /\ K[c] = C[c] - 1 /\ \A d \in DOMAIN C : d # c => K[d] = C[d]
  OBVIOUS
<1>2. /\ IsFiniteSet(Holders(R, c)) /\ Cardinality(Holders(R, c)) = C[c]
      /\ C[c] \in Nat \ {0}
  BY DEF Sharing
<1>3. IsFiniteSet(Holders(Q, c)) /\ Cardinality(Holders(Q, c)) = C[c] - 1
  BY <1>2, FS_RemoveElement
<1> HIDE DEF K
<1>4. ASSUME NEW d \in DOMAIN K
      PROVE  /\ IsFiniteSet(Holders(Q, d)) /\ Cardinality(Holders(Q, d)) = K[d]
             /\ K[d] \in Nat \ {0}
  <2>1. CASE d = c
    <3>1. C[c] - 1 \in Nat \ {0}
      BY <1>2
    <3>. QED  BY <1>1, <1>3, <2>1, <3>1
  <2>2. CASE d # c
    BY <1>1, <2>2 DEF Sharing
  <2>. QED  BY <2>1, <2>2
<1>5. /\ \A r \in Results : Q[r] # None => Q[r].cell \in DOMAIN K
      /\ \A r, q \in Results :
           Q[r] # None /\ Q[q] # None /\ Q[r].cell = Q[q].cell => Q[r].list = Q[q].list
  <2>1. ASSUME NEW r \in Results, Q[r] # None  PROVE Q[r].cell \in DOMAIN K
    <3>1. PICK p \in Results : R[p] # None /\ R[p].cell = Q[r].cell
      BY <2>1 DEF SharesFrom
    <3>. QED  BY <1>1, <3>1 DEF Sharing
  <2>2. ASSUME NEW r \in Results, NEW q \in Results, Q[r] # None, Q[q] # None,
               Q[r].cell = Q[q].cell
        PROVE  Q[r].list = Q[q].list
    <3>1. PICK p \in Results : R[p] # None /\ R[p].cell = Q[r].cell /\ R[p].list = Q[r].list
      BY <2>2 DEF SharesFrom
    <3>2. PICK o \in Results : R[o] # None /\ R[o].cell = Q[q].cell /\ R[o].list = Q[q].list
      BY <2>2 DEF SharesFrom
    <3>3. R[p].cell = R[o].cell
      BY <2>2, <3>1, <3>2
    <3>4. R[p].list = R[o].list
      BY <3>1, <3>2, <3>3 DEF Sharing
    <3>. QED  BY <3>1, <3>2, <3>4
  <2>. QED  BY <2>1, <2>2
<1>6. IsFiniteSet(DOMAIN K) /\ DOMAIN K \subseteq Nat
  BY <1>1 DEF Sharing
<1>7. Sharing(Q, K)
  BY <1>4, <1>5, <1>6 DEF Sharing
<1>. QED  BY <1>7 DEF K

(* In Q there is one more result, r, with one reference to the count c.      *)
OneMore(R, r, c, Q) ==
  /\ R[r] = None /\ Q[r] # None /\ Q[r].cell = c /\ Q[r].refs = 1
  /\ \A q \in Results : q # r => Q[q] = R[q]

(* A result with a count of its own is made.                                *)
LEMMA CountMade ==
  ASSUME NEW R, NEW C, Sharing(R, C), NEW r \in Results,
         NEW c \in Nat \ DOMAIN C, NEW Q, OneMore(R, r, c, Q)
  PROVE  Sharing(Q, With(C, c, 1))
<1> DEFINE K == With(C, c, 1)
<1>0. /\ R[r] = None /\ Q[r] # None /\ Q[r].cell = c /\ Q[r].refs = 1
      /\ \A q \in Results : q # r => Q[q] = R[q]
  BY DEF OneMore
<1>1. DOMAIN K = DOMAIN C \cup {c} /\ K[c] = 1 /\ \A d \in DOMAIN C : K[d] = C[d]
  BY DEF With
<1> HIDE DEF K
<1>2. 1 \in 1 .. MaxRefs /\ \A i \in 1 .. MaxRefs : i <= 1 => i = 1
  BY ResultAssumption
<1>3. \A q \in Results : q # r /\ Q[q] # None => Q[q].cell \in DOMAIN C /\ Q[q].cell # c
  BY <1>0 DEF Sharing
<1>4. Holders(Q, c) = {<<r, 1>>}
  <2>1. <<r, 1>> \in Holders(Q, c)
    BY <1>0, <1>2 DEF Holders
  <2>2. ASSUME NEW x \in Holders(Q, c)  PROVE x = <<r, 1>>
    <3>1. /\ x \in Results \X (1 .. MaxRefs)
          /\ Q[x[1]] # None /\ Q[x[1]].cell = c /\ x[2] <= Q[x[1]].refs
      BY DEF Holders
    <3>2. x[1] = r
      BY <1>3, <3>1
    <3>3. x[2] = 1
      BY <1>0, <1>2, <3>1, <3>2
    <3>. QED  BY <3>1, <3>2, <3>3
  <2>. QED  BY <2>1, <2>2
<1>5. \A d \in DOMAIN C : Holders(Q, d) = Holders(R, d)
  BY <1>0 DEF Holders
<1>6. ASSUME NEW d \in DOMAIN K
      PROVE  /\ IsFiniteSet(Holders(Q, d)) /\ Cardinality(Holders(Q, d)) = K[d]
             /\ K[d] \in Nat \ {0}
  <2>1. CASE d = c
    <3>1. Cardinality({<<r, 1>>}) = 1 /\ IsFiniteSet({<<r, 1>>})
      BY FS_Singleton
    <3>2. 1 \in Nat \ {0}
      OBVIOUS
    <3>. QED  BY <1>1, <1>4, <2>1, <3>1, <3>2
  <2>2. CASE d # c
    <3>1. d \in DOMAIN C
      BY <1>1, <2>2
    <3>. QED  BY <1>1, <1>5, <3>1 DEF Sharing
  <2>. QED  BY <2>1, <2>2
<1>7. IsFiniteSet(DOMAIN K) /\ DOMAIN K \subseteq Nat
  BY <1>1, FS_AddElement DEF Sharing
<1>8. \A q \in Results : Q[q] # None => Q[q].cell \in DOMAIN K
  BY <1>0, <1>1, <1>3
<1>9. ASSUME NEW p \in Results, NEW q \in Results, Q[p] # None, Q[q] # None,
             Q[p].cell = Q[q].cell
      PROVE  Q[p].list = Q[q].list
  <2>1. CASE p = r \/ q = r
    <3>1. p = q
      BY <1>0, <1>3, <1>9, <2>1
    <3>. QED  BY <3>1
  <2>2. CASE p # r /\ q # r
    BY <1>0, <1>9, <2>2 DEF Sharing
  <2>. QED  BY <2>1, <2>2
<1>10. Sharing(Q, K)
  BY <1>6, <1>7, <1>8, <1>9 DEF Sharing
<1>. QED  BY <1>10 DEF K

(* The last reference to a count is that of a result nothing is shared with,
   and goes with it.                                                        *)
LEMMA CountFreed ==
  ASSUME NEW R, NEW C, ResultsTyped(R), Sharing(R, C), NEW r \in Results, R[r] # None,
         ~(C[R[r].cell] > 1)
  PROVE  /\ Alone(R, r)
         /\ Sharing([R EXCEPT ![r] = None], Without(C, {R[r].cell}))
<1> DEFINE c == R[r].cell
           K == Without(C, {c})
           Q == [R EXCEPT ![r] = None]
<1>1. /\ c \in DOMAIN C /\ IsFiniteSet(Holders(R, c))
      /\ Cardinality(Holders(R, c)) = C[c] /\ C[c] \in Nat \ {0}
  BY DEF Sharing
<1>2. C[c] = 1
  BY <1>1
<1>3. PICK x : Holders(R, c) = {x}
  BY <1>1, <1>2, FS_Singleton
<1>4. ASSUME NEW q \in Results, R[q] # None, R[q].cell = c  PROVE <<q, 1>> \in Holders(R, c)
  <2>1. R[q] \in [res : {0 - 1, 0, 1}, list : Nat \cup {None}, cell : Nat, refs : 1 .. MaxRefs]
    BY <1>4 DEF ResultsTyped
  <2>2. 1 \in 1 .. MaxRefs /\ 1 <= R[q].refs
    BY <2>1, ResultAssumption
  <2>. QED  BY <1>4, <2>2 DEF Holders
<1>5. Alone(R, r)
  <2>1. SUFFICES ASSUME NEW q \in Results, R[q] # None, R[q].cell = c  PROVE q = r
    BY DEF Alone
  <2>2. <<q, 1>> = x /\ <<r, 1>> = x
    BY <1>3, <1>4, <2>1
  <2>3. <<q, 1>>[1] = <<r, 1>>[1]
    BY <2>2
  <2>. QED  BY <2>3
<1>6. DOMAIN K = DOMAIN C \ {c} /\ \A d \in DOMAIN K : K[d] = C[d]
  BY DEF Without
<1>7. Q[r] = None /\ \A q \in Results : q # r => Q[q] = R[q]
  BY DEF ResultsTyped
<1>8. \A q \in Results : Q[q] # None => q # r /\ Q[q] = R[q] /\ R[q].cell # c
  BY <1>5, <1>7 DEF Alone
<1> HIDE DEF K, Q, c
<1>9. \A d : d # c => Holders(Q, d) = Holders(R, d)
  BY <1>7 DEF Holders, c
<1>10. \A q \in Results : Q[q] # None => Q[q].cell \in DOMAIN K
  BY <1>6, <1>8 DEF Sharing
<1>11. IsFiniteSet(DOMAIN K) /\ DOMAIN K \subseteq Nat
  <2>1. IsFiniteSet(DOMAIN C) /\ DOMAIN C \subseteq Nat
    BY DEF Sharing
  <2>2. IsFiniteSet(DOMAIN C \ {c})
    BY <2>1, FS_Difference
  <2>. QED  BY <1>6, <2>1, <2>2
<1>12. Sharing(Q, K)
  BY <1>6, <1>8, <1>9, <1>10, <1>11 DEF Sharing
<1>. QED  BY <1>5, <1>12 DEF K, Q, c

-----------------------------------------------------------------------------
(* The operations.                                                          *)

(* Messages of constants and of hole strings of the client, each once, are
   added to a result: the hole strings are no longer the client's.          *)
MayAdd(H, items) ==
  /\ items \in Seq(H \cup Consts)
  /\ \A i, j \in DOMAIN items : items[i] = items[j] /\ items[i] \in Nat => i = j

(* AddItems is such a gift, whether it has to make the list or not.         *)
LEMMA ItemsAdded ==
  ASSUME NEW N, NEW H, NEW G, NEW D, Owned(result, lists, N, H, G, D),
         NEW r \in Results, Live(r), NEW res \in {0 - 1, 0, 1},
         NEW items, MayAdd(H, items), AddItems(r, res, items)
  PROVE  Owned(result', lists', N, H \ {items[i] : i \in DOMAIN items}, G, D)
<1>0. HeapShape(result, lists, N, H, G, D)
  BY DEF Owned
<1>r. RowFacts(lists, N, G)
  BY <1>0, Rows
<1> DEFINE l == IF result[r].list = None THEN Fresh(DOMAIN lists) ELSE result[r].list
<1>1. /\ result' = [result EXCEPT ![r].list = l, ![r].res = res]
      /\ lists' = With(lists, l, Messages(r) \o items)
  BY DEF AddItems
<1>2. \/ l \in DOMAIN lists /\ result[r].list = l /\ Messages(r) = lists[l]
      \/ l \in Nat \ DOMAIN lists /\ result[r].list = None /\ Messages(r) = <<>>
  <2>1. CASE result[r].list = None
    <3>1. Fresh(DOMAIN lists) \in Nat /\ Fresh(DOMAIN lists) \notin DOMAIN lists
      BY <1>0, FreshIsNew DEF HeapShape
    <3>. QED  BY <2>1, <3>1 DEF Messages
  <2>2. CASE result[r].list # None
    BY <1>0, <2>2 DEF Messages, HeapShape, Live
  <2>. QED  BY <2>1, <2>2
<1> HIDE DEF l
<1>3. l \in Nat
  BY <1>0, <1>2 DEF HeapShape
<1>4. ResultsTyped(result)
  BY <1>0 DEF HeapShape, ResultsTyped
<1>5. result[r] \in [res : {0 - 1, 0, 1}, list : Nat \cup {None}, cell : Nat, refs : 1 .. MaxRefs]
  BY <1>4 DEF ResultsTyped, Live
<1>6. /\ result'[r] = [result[r] EXCEPT !.list = l, !.res = res]
      /\ \A q \in Results : q # r => result'[q] = result[q]
      /\ DOMAIN result' = Results /\ result' = [q \in Results |-> result'[q]]
  BY <1>1, <1>4 DEF ResultsTyped
<1>7. /\ result'[r] \in [res : {0 - 1, 0, 1}, list : Nat \cup {None}, cell : Nat, refs : 1 .. MaxRefs]
      /\ result'[r].list = l /\ result'[r].cell = result[r].cell
  BY <1>3, <1>5, <1>6
<1>8. result'[r] # None
  <2>1. 1 .. MaxRefs \subseteq Nat
    OBVIOUS
  <2>. QED  BY <1>7, <2>1, NamesAssumption
<1>9. ResultsTyped(result')
  BY <1>4, <1>6, <1>7 DEF ResultsTyped
<1>10. Gives(result, lists, H, r, l, Messages(r), items, result', lists')
  BY <1>1, <1>2, <1>6, <1>7, <1>8, <1>9 DEF Gives, ResultsTyped, Live, MayAdd
<1>. QED  BY <1>10, ItemsGiven

(* No result is None when it has the fields of one.                         *)
LEMMA NotNone ==
  ASSUME NEW x \in [res : {0 - 1, 0, 1}, list : Nat \cup {None}, cell : Nat, refs : 1 .. MaxRefs]
  PROVE  x # None
<1>1. 1 .. MaxRefs \subseteq Nat
  OBVIOUS
<1>. QED  BY <1>1, NamesAssumption

(* Adding items to a result that is alone keeps the counts right.           *)
LEMMA ItemsShared ==
  ASSUME HeapOwned, NEW r \in Results, Live(r), Sole(r), NEW res \in {0 - 1, 0, 1},
         NEW items, AddItems(r, res, items)
  PROVE  Sharing(result', counts)
<1>0. HeapShape(result, lists, nodes, hand, Kept, deleted) /\ Sharing(result, counts)
  BY DEF HeapOwned, Owned
<1> DEFINE l == IF result[r].list = None THEN Fresh(DOMAIN lists) ELSE result[r].list
<1>1. result' = [result EXCEPT ![r].list = l, ![r].res = res]
  BY DEF AddItems
<1>2. l \in Nat
  <2>1. Fresh(DOMAIN lists) \in Nat
    BY <1>0, FreshIsNew DEF HeapShape
  <2>2. result[r].list # None => result[r].list \in Nat
    BY <1>0 DEF HeapShape, Live
  <2>. QED  BY <2>1, <2>2
<1> HIDE DEF l
<1>3. /\ result[r] # None
      /\ result[r] \in [res : {0 - 1, 0, 1}, list : Nat \cup {None}, cell : Nat, refs : 1 .. MaxRefs]
      /\ DOMAIN result = Results
  BY <1>0 DEF HeapShape, Live
<1>4. /\ result'[r] = [result[r] EXCEPT !.list = l, !.res = res]
      /\ \A q \in Results : q # r => result'[q] = result[q]
  BY <1>1, <1>3
<1>5. /\ result'[r] \in [res : {0 - 1, 0, 1}, list : Nat \cup {None}, cell : Nat, refs : 1 .. MaxRefs]
      /\ result'[r].cell = result[r].cell /\ result'[r].refs = result[r].refs
  BY <1>2, <1>3, <1>4
<1>6. result'[r] # None
  BY <1>5, NotNone
<1>7. SameShares(result, result')
  BY <1>3, <1>4, <1>5, <1>6 DEF SameShares
<1>8. Alone(result, r)
  BY DEF Alone, Sole, Live
<1>. QED  BY <1>0, <1>4, <1>7, <1>8, SharingKept

(* The facts about one result.                                              *)
LEMMA ResultFacts ==
  ASSUME HeapOwned
  PROVE  /\ ResultsTyped(result)
         /\ \A r \in Results : Live(r) =>
              /\ result[r] \in [res : {0 - 1, 0, 1}, list : Nat \cup {None}, cell : Nat, refs : 1 .. MaxRefs]
              /\ result[r].list # None => result[r].list \in DOMAIN lists
              /\ result[r].cell \in DOMAIN counts
         /\ None \notin Nat /\ None \notin DOMAIN lists
         /\ hand \subseteq DOMAIN nodes
<1>1. HeapShape(result, lists, nodes, hand, Kept, deleted) /\ Sharing(result, counts)
  BY DEF HeapOwned, Owned
<1>2. RowFacts(lists, nodes, Kept)
  BY <1>1, Rows
<1>. QED  BY <1>1, <1>2 DEF HeapShape, RowFacts, ResultsTyped, Live, Sharing

(* What the client does with hole strings keeps the heap owned.             *)
LEMMA HoleOps ==
  ASSUME HeapOwned,
         \/ HoleNew
         \/ \E h \in hand : HoleFree(h) \/ \E sub \in hand : HoleAppendSub(h, sub)
         \/ \E h \in hand, t \in Texts : HoleAppendText(h, t)
  PROVE  HeapOwned'
<1>0. Owned(result, lists, nodes, hand, Kept, deleted)
  BY DEF HeapOwned
<1>s. lost \subseteq given /\ given \subseteq Texts /\ Sharing(result, counts)
  BY DEF HeapOwned
<1>1. CASE HoleNew
  <2>1. NewHole \in Nat /\ NewHole \notin DOMAIN nodes
    BY <1>0, FreshIsNew DEF Owned, HeapShape, NewHole
  <2>2. Owned(result, lists, With(nodes, NewHole, <<>>), hand \cup {NewHole}, Kept, deleted)
    BY <1>0, <2>1, HoleMade
  <2>. QED  BY <1>s, <1>1, <2>2 DEF HoleNew, HeapOwned, Kept
<1>2. ASSUME NEW h \in hand, HoleFree(h)  PROVE HeapOwned'
  <2>1. {h} \in SUBSET hand
    OBVIOUS
  <2>2. Owned(result, lists, Freed({h}).nodes, hand \ {h}, Kept, Freed({h}).deleted)
    BY <1>0, <2>1, HandFreed
  <2>. QED  BY <1>s, <1>2, <2>2 DEF HoleFree, HeapOwned, Kept
<1>3. ASSUME NEW h \in hand, NEW sub \in hand, HoleAppendSub(h, sub)  PROVE HeapOwned'
  <2>1. h # sub
    BY <1>3 DEF HoleAppendSub
  <2>2. Owned(result, lists, [nodes EXCEPT ![h] = Append(@, sub)], hand \ {sub}, Kept, deleted)
    BY <1>0, <2>1, SubAdded
  <2>. QED  BY <1>s, <1>3, <2>2 DEF HoleAppendSub, HeapOwned, Kept
<1>4. ASSUME NEW h \in hand, NEW t \in Texts, HoleAppendText(h, t)  PROVE HeapOwned'
  <2>1. t \notin given /\ t \notin Kept
    BY <1>4 DEF HoleAppendText, Kept
  <2>2. Owned(result, lists, [nodes EXCEPT ![h] = Append(@, t)], hand, Kept \cup {t}, deleted)
    BY <1>0, <2>1, TextAdded
  <2>3. Kept' = Kept \cup {t} /\ lost' \subseteq given' /\ given' \subseteq Texts
    BY <1>s, <1>4, <2>1 DEF HoleAppendText, Kept
  <2>. QED  BY <1>s, <1>4, <2>2, <2>3 DEF HoleAppendText, HeapOwned
<1>. QED  BY <1>1, <1>2, <1>3, <1>4

(* A verdict is overwritten, and texts may be lost at once.                 *)
LEMMA VerdictSet ==
  ASSUME HeapOwned, NEW r \in Results, Live(r), NEW res \in {0 - 1, 0, 1},
         result' = [result EXCEPT ![r].res = res],
         UNCHANGED <<counts, lists, nodes, hand, deleted>>,
         lost' \subseteq given', given' \subseteq Texts, Kept' = Kept
  PROVE  HeapOwned'
<1> DEFINE Record == [res : {0 - 1, 0, 1}, list : Nat \cup {None}, cell : Nat, refs : 1 .. MaxRefs]
<1>1. ResultsTyped(result) /\ result[r] \in Record /\ result[r] # None
  BY ResultFacts DEF Live
<1>2. /\ result'[r] = [result[r] EXCEPT !.res = res]
      /\ \A q \in Results : q # r => result'[q] = result[q]
  BY <1>1 DEF ResultsTyped
<1>3. /\ result'[r] \in Record
      /\ result'[r].list = result[r].list /\ result'[r].cell = result[r].cell
      /\ result'[r].refs = result[r].refs
  BY <1>1, <1>2
<1>4. result'[r] # None
  BY <1>3, NotNone
<1>5. ResultsTyped(result')
  BY <1>1, <1>2, <1>3 DEF ResultsTyped
<1>6. SameLists(result, result') /\ SameShares(result, result')
  BY <1>1, <1>2, <1>3, <1>4 DEF SameLists, SameShares
<1>7. Owned(result', lists, nodes, hand, Kept, deleted)
  BY <1>5, <1>6, ResultsChanged DEF HeapOwned
<1>8. Sharing(result', counts)
  <2>1. \A q \in Results : result'[q].list = result[q].list
    BY <1>2, <1>3
  <2>. QED  BY <1>6, <2>1, SharingKept DEF HeapOwned
<1>. QED  BY <1>7, <1>8 DEF HeapOwned

(* In Q the result r was made, with the list l and a count of its own.       *)
MadeIn(Q, r, l) ==
  /\ ResultsTyped(Q) /\ Q[r] # None /\ Q[r].list = l
  /\ Q[r].cell = Fresh(DOMAIN counts)
  /\ \A q \in Results : q # r => Q[q] = result[q]
  /\ Sharing(Q, With(counts, Fresh(DOMAIN counts), 1))

(* A result that is made has a count of its own.                            *)
LEMMA NewShared ==
  ASSUME HeapOwned, NEW r \in Results, ~Live(r), NEW res \in {0 - 1, 0, 1},
         NEW l \in Nat \cup {None}
  PROVE  MadeIn([result EXCEPT ![r] = NewResult(res, l)], r, l)
<1> DEFINE c == Fresh(DOMAIN counts)
           Q == [result EXCEPT ![r] = NewResult(res, l)]
<1>1. ResultsTyped(result) /\ 1 \in 1 .. MaxRefs /\ result[r] = None
  BY ResultFacts, ResultAssumption DEF Live
<1>2. Sharing(result, counts) /\ c \in Nat \ DOMAIN counts
  <2>1. Sharing(result, counts)
    BY DEF HeapOwned
  <2>. QED  BY <2>1, FreshIsNew DEF Sharing
<1> HIDE DEF c
<1>3. /\ Q[r] = [res |-> res, list |-> l, cell |-> c, refs |-> 1]
      /\ \A q \in Results : q # r => Q[q] = result[q]
      /\ Q = [q \in Results |-> Q[q]]
  BY <1>1 DEF ResultsTyped, NewResult, c
<1> HIDE DEF Q
<1>4. Q[r] \in [res : {0 - 1, 0, 1}, list : Nat \cup {None}, cell : Nat, refs : 1 .. MaxRefs]
  BY <1>1, <1>2, <1>3
<1>5. Q[r] # None
  BY <1>4, NotNone
<1>6. ResultsTyped(Q)
  BY <1>1, <1>3, <1>4 DEF ResultsTyped
<1>7. Sharing(Q, With(counts, c, 1))
  <2>1. OneMore(result, r, c, Q)
    BY <1>1, <1>3, <1>5 DEF OneMore
  <2>. QED  BY <1>2, <2>1, CountMade
<1>8. MadeIn(Q, r, l)
  BY <1>3, <1>5, <1>6, <1>7 DEF MadeIn, c
<1>. QED  BY <1>8 DEF Q

(* tinybuf_result_ok.                                                       *)
LEMMA OkOp ==
  ASSUME HeapOwned, NEW r \in Results, NEW res \in {0 - 1, 0, 1}, ResultOk(r, res)
  PROVE  HeapOwned'
<1>1. /\ ~Live(r) /\ result' = [result EXCEPT ![r] = NewResult(res, None)]
      /\ counts' = With(counts, Fresh(DOMAIN counts), 1)
      /\ UNCHANGED <<lists, nodes, hand, given, lost, deleted>>
  BY DEF ResultOk, NewCount
<1> DEFINE Q == result'
<1>2. /\ ResultsTyped(Q) /\ Q[r] # None /\ Q[r].list = None
      /\ \A q \in Results : q # r => Q[q] = result[q]
      /\ Sharing(Q, With(counts, Fresh(DOMAIN counts), 1))
  <2>1. MadeIn([result EXCEPT ![r] = NewResult(res, None)], r, None)
    BY <1>1, NewShared
  <2>. QED  BY <1>1, <2>1 DEF MadeIn
<1>3. SameLists(result, Q)
  BY <1>1, <1>2 DEF SameLists, Live
<1>4. Owned(Q, lists, nodes, hand, Kept, deleted)
  BY <1>2, <1>3, ResultsChanged DEF HeapOwned
<1>5. lost \subseteq given /\ given \subseteq Texts
  BY DEF HeapOwned
<1>. QED  BY <1>1, <1>2, <1>4, <1>5 DEF HeapOwned, Kept

(* A reference is taken through the struct, or for a copy of it.            *)
LEMMA RefOps ==
  ASSUME HeapOwned, NEW r \in Results,
         Ref(r) \/ \E q \in Results : Copy(q, r)
  PROVE  HeapOwned'
<1> DEFINE Record == [res : {0 - 1, 0, 1}, list : Nat \cup {None}, cell : Nat, refs : 1 .. MaxRefs]
           c == result[r].cell
<1>1. Live(r) /\ UNCHANGED <<lists, nodes, hand, given, lost, deleted>>
        /\ counts' = [counts EXCEPT ![c] = @ + 1]
  BY DEF Ref, Copy
<1>2. /\ ResultsTyped(result) /\ result[r] \in Record /\ c \in DOMAIN counts
      /\ MaxRefs \in Nat \ {0} /\ result[r] # None
  BY <1>1, ResultFacts, ResultAssumption DEF Live
<1>3. PICK p \in Results, k \in 1 .. MaxRefs :
        /\ result'[p] \in Record /\ result'[p].cell = c /\ result'[p].list = result[r].list
        /\ \A q \in Results : q # p => result'[q] = result[q]
        /\ result' = [result EXCEPT ![p] = result'[p]]
        /\ result'[p].refs = k
        /\ IF result[p] = None THEN k = 1 ELSE p = r /\ result[p].refs = k - 1
  <2>1. CASE Ref(r)
    <3>1. result[r].refs < MaxRefs /\ result' = [result EXCEPT ![r].refs = @ + 1]
      BY <2>1 DEF Ref
    <3>2. result'[r] = [result[r] EXCEPT !.refs = @ + 1] /\ \A q \in Results : q # r => result'[q] = result[q]
      BY <1>2, <3>1 DEF ResultsTyped
    <3>3. result[r].refs + 1 \in 1 .. MaxRefs /\ result[r].refs = (result[r].refs + 1) - 1
      BY <1>2, <3>1
    <3>4. /\ result'[r] \in Record /\ result'[r].cell = c /\ result'[r].list = result[r].list
          /\ result'[r].refs = result[r].refs + 1
      BY <1>2, <3>2, <3>3
    <3>5. result' = [result EXCEPT ![r] = result'[r]]
      BY <1>2, <3>1, <3>2 DEF ResultsTyped
    <3>. QED  BY <1>2, <3>2, <3>3, <3>4, <3>5
  <2>2. CASE \E q \in Results : Copy(q, r)
    <3>1. PICK p \in Results : Copy(p, r)
      BY <2>2
    <3>2. result[p] = None /\ result' = [result EXCEPT ![p] = [result[r] EXCEPT !.refs = 1]]
      BY <3>1 DEF Copy, Live
    <3>3. /\ result'[p] = [result[r] EXCEPT !.refs = 1]
          /\ \A q \in Results : q # p => result'[q] = result[q]
          /\ 1 \in 1 .. MaxRefs
      BY <1>2, <3>2 DEF ResultsTyped
    <3>4. /\ result'[p] \in Record /\ result'[p].cell = c /\ result'[p].list = result[r].list
          /\ result'[p].refs = 1
      BY <1>2, <3>3
    <3>5. result' = [result EXCEPT ![p] = result'[p]]
      BY <1>2, <3>2, <3>3 DEF ResultsTyped
    <3>. QED  BY <3>2, <3>3, <3>4, <3>5
  <2>. QED  BY <2>1, <2>2
<1>4. result'[p] # None /\ ResultsTyped(result')
  <2>1. result'[p] # None
    BY <1>3, NotNone
  <2>. QED  BY <1>2, <1>3, <2>1 DEF ResultsTyped
<1> DEFINE Q == result'
<1>5. /\ Q[p] # None /\ Q[p].cell = c /\ Q[p].list = result[r].list /\ Q[p].refs = k
      /\ \A q \in Results : q # p => Q[q] = result[q]
      /\ ResultsTyped(Q)
      /\ IF result[p] = None THEN k = 1 ELSE p = r /\ result[p].refs = k - 1
  BY <1>3, <1>4
<1> HIDE DEF Q, c
<1>6. SameLists(result, Q)
  <2>1. \A q \in Results : result[q] # None => Q[q] # None /\ Q[q].list = result[q].list
    BY <1>5 DEF c
  <2>2. ASSUME NEW q \in Results, Q[q] # None
        PROVE  \E o \in Results : result[o] # None /\ result[o].list = Q[q].list
                                    /\ result[o].cell = Q[q].cell
    <3>1. CASE q = p
      BY <1>2, <1>5, <3>1 DEF c
    <3>2. CASE q # p
      BY <1>5, <2>2, <3>2
    <3>. QED  BY <3>1, <3>2
  <2>. QED  BY <2>1, <2>2 DEF SameLists
<1>7. SharesFrom(result, Q)
  <2>1. SUFFICES ASSUME NEW q \in Results, Q[q] # None
                 PROVE  \E o \in Results : result[o] # None /\ result[o].cell = Q[q].cell
                                             /\ result[o].list = Q[q].list
    BY DEF SharesFrom
  <2>2. CASE q = p
    BY <1>2, <1>5, <2>2 DEF c
  <2>3. CASE q # p
    BY <1>5, <2>1, <2>3
  <2>. QED  BY <2>2, <2>3
<1>8. <<p, k>> \notin Holders(result, c) /\ Holders(Q, c) = Holders(result, c) \cup {<<p, k>>}
  <2>1. <<p, k>> \notin Holders(result, c)
    <3>1. CASE result[p] = None
      BY <3>1 DEF Holders
    <3>2. CASE result[p] # None
      <4>1. result[p].refs = k - 1 /\ ~(k <= k - 1)
        BY <1>3, <3>2
      <4>. QED  BY <4>1 DEF Holders
    <3>. QED  BY <3>1, <3>2
  <2>2. ASSUME NEW y \in Results, NEW i \in 1 .. MaxRefs
        PROVE  (Q[y] # None /\ Q[y].cell = c /\ i <= Q[y].refs)
                 <=> \/ result[y] # None /\ result[y].cell = c /\ i <= result[y].refs
                     \/ y = p /\ i = k
    <3>1. CASE y # p
      BY <1>5, <3>1
    <3>2. CASE y = p /\ result[p] = None
      <4>1. i <= 1 <=> i = 1
        OBVIOUS
      <4>. QED  BY <1>5, <3>2, <4>1
    <3>3. CASE y = p /\ result[p] # None
      <4>1. p = r /\ result[p].refs = k - 1 /\ result[p].cell = c
        BY <1>5, <3>3 DEF c
      <4>2. i <= k <=> i <= k - 1 \/ i = k
        BY <1>3
      <4>. QED  BY <1>5, <3>3, <4>1, <4>2
    <3>. QED  BY <3>1, <3>2, <3>3
  <2>3. <<p, k>> \in Results \X (1 .. MaxRefs)
    OBVIOUS
  <2>4. ASSUME NEW x
        PROVE  x \in Holders(Q, c) <=> x \in Holders(result, c) \/ x = <<p, k>>
    <3>1. x \in Holders(Q, c) <=> /\ x \in Results \X (1 .. MaxRefs)
                                  /\ Q[x[1]] # None /\ Q[x[1]].cell = c /\ x[2] <= Q[x[1]].refs
      BY DEF Holders
    <3>2. x \in Holders(result, c) <=>
            /\ x \in Results \X (1 .. MaxRefs)
            /\ result[x[1]] # None /\ result[x[1]].cell = c /\ x[2] <= result[x[1]].refs
      BY DEF Holders
    <3>3. x \in Results \X (1 .. MaxRefs) =>
            x[1] \in Results /\ x[2] \in 1 .. MaxRefs /\ (x = <<p, k>> <=> x[1] = p /\ x[2] = k)
      OBVIOUS
    <3>. QED  BY <2>2, <2>3, <3>1, <3>2, <3>3
  <2>. QED  BY <2>1, <2>4
<1>9. \A d : d # c => Holders(Q, d) = Holders(result, d)
  <2>1. SUFFICES ASSUME NEW d, d # c  PROVE Holders(Q, d) = Holders(result, d)
    OBVIOUS
  <2>2. \A y \in Results : Q[y] # None /\ Q[y].cell = d =>
          result[y] = Q[y]
    BY <1>5, <2>1
  <2>3. \A y \in Results : result[y] # None /\ result[y].cell = d => result[y] = Q[y]
    BY <1>5, <2>1 DEF c
  <2>. QED  BY <2>2, <2>3 DEF Holders
<1>10. Owned(Q, lists, nodes, hand, Kept, deleted)
  BY <1>5, <1>6, ResultsChanged DEF HeapOwned
<1>11. Sharing(Q, [counts EXCEPT ![c] = @ + 1])
  <2>1. Sharing(result, counts)
    BY DEF HeapOwned
  <2>. QED  BY <1>2, <1>7, <1>8, <1>9, <2>1, ReferenceTaken DEF c
<1>12. lost \subseteq given /\ given \subseteq Texts
  BY DEF HeapOwned
<1>. QED  BY <1>1, <1>10, <1>11, <1>12 DEF HeapOwned, Kept, Q, c

(* Constants are said of a result.                                          *)
LEMMA ConstsAdded ==
  ASSUME HeapOwned, NEW r \in Results, Live(r), Sole(r), NEW res \in {0 - 1, 0, 1},
         NEW items \in Seq(Consts), AddItems(r, res, items),
         UNCHANGED <<counts, nodes, hand, given, lost, deleted>>
  PROVE  HeapOwned'
<1>0. HeapShape(result, lists, nodes, hand, Kept, deleted)
  BY DEF HeapOwned, Owned
<1>r. RowFacts(lists, nodes, Kept)
  BY <1>0, Rows
<1>1. \A i \in DOMAIN items : items[i] \in Consts /\ items[i] \notin Nat
  BY <1>r, LenProperties DEF RowFacts
<1>2. items \in Seq(hand \cup Consts)
  BY SeqMono
<1>3. hand \ {items[i] : i \in DOMAIN items} = hand
  BY <1>0, <1>1 DEF HeapShape
<1>4. Owned(result, lists, nodes, hand, Kept, deleted)
  BY DEF HeapOwned
<1>5. Owned(result', lists', nodes, hand \ {items[i] : i \in DOMAIN items}, Kept, deleted)
  <2>1. MayAdd(hand, items)
    BY <1>1, <1>2 DEF MayAdd
  <2>. QED  BY <1>4, <2>1, ItemsAdded
<1>6. Sharing(result', counts)
  BY ItemsShared
<1>. QED  BY <1>3, <1>5, <1>6 DEF HeapOwned, Kept

(* A row with one or two texts that were not used.                          *)
FewTexts(row) ==
  \E t \in Texts \ given :
    row = <<t>> \/ \E u \in Texts \ given : u # t /\ row = <<u, t>>

(* A text behind another.                                                   *)
LEMMA PairMade ==
  ASSUME NEW u, NEW t
  PROVE  Append(<<u>>, t) = <<u, t>> /\ <<u>> \o <<t>> = <<u, t>>
<1> DEFINE A == {u, t}
           s == <<u>>
           p == <<u, t>>
<1>1. s \in Seq(A) /\ t \in A /\ Len(s) = 1 /\ s[1] = u /\ <<t>> \in Seq(A)
  OBVIOUS
<1>2. p \in Seq(A) /\ Len(p) = 2 /\ p[1] = u /\ p[2] = t
  OBVIOUS
<1> HIDE DEF A, s, p
<1>3. /\ Append(s, t) \in Seq(A) /\ Len(Append(s, t)) = 2
      /\ Append(s, t)[1] = u /\ Append(s, t)[2] = t
  <2>1. Len(s) + 1 = 2 /\ 1 \in 1 .. Len(s)
    BY <1>1
  <2>2. Append(s, t) \in Seq(A)
    BY <1>1, AppendProperties
  <2>3. Len(Append(s, t)) = Len(s) + 1
    BY <1>1, AppendProperties
  <2>4. Append(s, t)[1] = s[1]
    BY <1>1, <2>1, AppendProperties
  <2>5. Append(s, t)[Len(s) + 1] = t
    BY <1>1, AppendProperties
  <2>. QED  BY <1>1, <2>1, <2>2, <2>3, <2>4, <2>5
<1>4. Append(s, t) = p
  <2>1. \A i \in 1 .. 2 : i = 1 \/ i = 2
    OBVIOUS
  <2>. QED  BY <1>2, <1>3, <2>1, SeqEqual
<1>5. s \o <<t>> = Append(s, t)
  BY <1>1, AppendIsConcat
<1>. QED  BY <1>4, <1>5 DEF s, p

(* The row at x with one more item.                                         *)
Longer(N, x, t) == [N EXCEPT ![x] = Append(@, t)]

(* One more item of a row in a function made with it.                       *)
LEMMA WithAppended ==
  ASSUME NEW N, NEW x, NEW row, NEW t
  PROVE  Longer(With(N, x, row), x, t) = With(N, x, Append(row, t))
<1> DEFINE M == With(N, x, row)
<1>1. /\ DOMAIN M = DOMAIN N \cup {x} /\ M[x] = row
      /\ M = [z \in DOMAIN N \cup {x} |-> M[z]]
      /\ \A z \in DOMAIN N \cup {x} : z # x => M[z] = N[z]
  BY DEF With
<1> HIDE DEF M
<1>2. [M EXCEPT ![x] = Append(@, t)]
        = [z \in DOMAIN N \cup {x} |-> IF z = x THEN Append(row, t) ELSE N[z]]
  BY <1>1
<1>3. Longer(M, x, t) = With(N, x, Append(row, t))
  BY <1>2 DEF With, Longer
<1>. QED  BY <1>3 DEF M

(* A hole string made with such a row is the client's.                      *)
LEMMA RowMade ==
  ASSUME HeapOwned, NEW row, FewTexts(row)
  PROVE  /\ NewHole \in Nat /\ NewHole \notin DOMAIN nodes
         /\ Owned(result, lists, With(nodes, NewHole, row), hand \cup {NewHole},
                  Kept \cup ToSet(row), deleted)
<1> DEFINE x == NewHole
<1>0. Owned(result, lists, nodes, hand, Kept, deleted)
  BY DEF HeapOwned
<1>1. x \in Nat /\ x \notin DOMAIN nodes
  BY <1>0, FreshIsNew DEF Owned, HeapShape, NewHole
<1> HIDE DEF x
<1>2. Owned(result, lists, With(nodes, x, <<>>), hand \cup {x}, Kept, deleted)
  BY <1>0, <1>1, HoleMade
<1>3. ASSUME NEW t \in Texts \ given
      PROVE  Owned(result, lists, With(nodes, x, <<t>>), hand \cup {x}, Kept \cup {t}, deleted)
  <2>1. Append(<<>>, t) = <<t>>
    OBVIOUS
  <2>2. Longer(With(nodes, x, <<>>), x, t) = With(nodes, x, <<t>>)
    <3> DEFINE e == <<>>
    <3>1. Append(e, t) = <<t>>
      BY <2>1
    <3> HIDE DEF e
    <3>2. Longer(With(nodes, x, e), x, t) = With(nodes, x, Append(e, t))
      BY WithAppended
    <3>3. Longer(With(nodes, x, e), x, t) = With(nodes, x, <<t>>)
      BY <3>1, <3>2
    <3>. QED  BY <3>3 DEF e
  <2>3. t \in Texts /\ t \notin Kept /\ x \in hand \cup {x}
    BY DEF Kept
  <2>4. Owned(result, lists, Longer(With(nodes, x, <<>>), x, t),
              hand \cup {x}, Kept \cup {t}, deleted)
    <3> DEFINE M == With(nodes, x, <<>>)
    <3>1. Owned(result, lists, M, hand \cup {x}, Kept, deleted)
      BY <1>2
    <3> HIDE DEF M
    <3>2. Owned(result, lists, [M EXCEPT ![x] = Append(@, t)], hand \cup {x},
                Kept \cup {t}, deleted)
      BY <3>1, <2>3, TextAdded
    <3>3. Owned(result, lists, Longer(M, x, t), hand \cup {x}, Kept \cup {t}, deleted)
      BY <3>2 DEF Longer
    <3>. QED  BY <3>3 DEF M
  <2>. QED  BY <2>2, <2>4
<1>4. ASSUME NEW u \in Texts \ given, NEW t \in Texts \ given, u # t
      PROVE  Owned(result, lists, With(nodes, x, <<u, t>>), hand \cup {x},
                   Kept \cup {u, t}, deleted)
  <2>1. Append(<<u>>, t) = <<u, t>>
    BY PairMade
  <2>2. Longer(With(nodes, x, <<u>>), x, t) = With(nodes, x, <<u, t>>)
    <3>1. Longer(With(nodes, x, <<u>>), x, t) = With(nodes, x, Append(<<u>>, t))
      BY WithAppended
    <3>. QED  BY <2>1, <3>1
  <2>3. t \in Texts /\ t \notin Kept \cup {u} /\ x \in hand \cup {x}
    BY <1>4 DEF Kept
  <2>4. Owned(result, lists, Longer(With(nodes, x, <<u>>), x, t),
              hand \cup {x}, (Kept \cup {u}) \cup {t}, deleted)
    <3> DEFINE M == With(nodes, x, <<u>>)
               F == Kept \cup {u}
    <3>1. Owned(result, lists, M, hand \cup {x}, F, deleted)
      BY <1>3
    <3>2. t \in Texts /\ t \notin F
      BY <2>3
    <3> HIDE DEF M, F
    <3>3. Owned(result, lists, [M EXCEPT ![x] = Append(@, t)], hand \cup {x},
                F \cup {t}, deleted)
      BY <3>1, <3>2, <2>3, TextAdded
    <3>4. Owned(result, lists, Longer(M, x, t), hand \cup {x}, F \cup {t}, deleted)
      BY <3>3 DEF Longer
    <3>. QED  BY <3>4 DEF M, F
  <2>5. (Kept \cup {u}) \cup {t} = Kept \cup {u, t}
    OBVIOUS
  <2>. QED  BY <2>2, <2>4, <2>5
<1>5. PICK t \in Texts \ given :
        row = <<t>> \/ \E u \in Texts \ given : u # t /\ row = <<u, t>>
  BY DEF FewTexts
<1>6. CASE row = <<t>>
  <2>1. ToSet(<<t>>) = {t}
    BY DEF ToSet
  <2>. QED  BY <1>1, <1>3, <1>6, <2>1 DEF x
<1>7. ASSUME NEW u \in Texts \ given, u # t, row = <<u, t>>
      PROVE  /\ NewHole \in Nat /\ NewHole \notin DOMAIN nodes
             /\ Owned(result, lists, With(nodes, NewHole, row), hand \cup {NewHole},
                      Kept \cup ToSet(row), deleted)
  <2>1. ToSet(<<u, t>>) = {u, t}
    BY DEF ToSet
  <2>. QED  BY <1>1, <1>4, <1>7, <2>1 DEF x
<1>. QED  BY <1>5, <1>6, <1>7

(* Texts are said of a result, in a hole string of their own.               *)
LEMMA TextsAdded ==
  ASSUME HeapOwned, NEW r \in Results, Live(r), Sole(r), NEW res \in {0 - 1, 0, 1},
         NEW row, FewTexts(row), NEW items \in Seq({NewHole} \cup Consts),
         \A i, j \in DOMAIN items : items[i] = NewHole /\ items[j] = NewHole => i = j,
         \E i \in DOMAIN items : items[i] = NewHole,
         AddItems(r, res, items),
         nodes' = With(nodes, NewHole, row), Kept' = Kept \cup ToSet(row),
         lost' \subseteq given', given' \subseteq Texts,
         UNCHANGED <<counts, hand, deleted>>
  PROVE  HeapOwned'
<1> DEFINE x == NewHole
<1>0. HeapShape(result, lists, nodes, hand, Kept, deleted)
  BY DEF HeapOwned, Owned
<1>r. RowFacts(lists, nodes, Kept)
  BY <1>0, Rows
<1>1. /\ x \in Nat /\ x \notin DOMAIN nodes
      /\ Owned(result, lists, nodes', hand \cup {x}, Kept', deleted)
  BY RowMade
<1>2. \A i \in DOMAIN items : items[i] = x \/ (items[i] \in Consts /\ items[i] \notin Nat)
  <2>1. \A i \in DOMAIN items : items[i] \in {x} \cup Consts
    <3>1. ASSUME NEW A, NEW s \in Seq(A)  PROVE \A i \in DOMAIN s : s[i] \in A
      BY LenProperties
    <3>. QED  BY <3>1
  <2>. QED  BY <2>1, <1>r DEF RowFacts
<1> HIDE DEF x
<1>7. items \in Seq((hand \cup {x}) \cup Consts)
  <2>1. items \in Seq({x} \cup Consts)
    BY DEF x
  <2>. QED  BY <2>1, SeqMono
<1>8. \A i, j \in DOMAIN items : items[i] = items[j] /\ items[i] \in Nat => i = j
  BY <1>2 DEF x
<1>9. (hand \cup {x}) \ {items[i] : i \in DOMAIN items} = hand
  <2>1. \E i \in DOMAIN items : items[i] = x
    BY DEF x
  <2>2. \A h \in hand : h \in Nat /\ h # x
    BY <1>0, <1>1 DEF HeapShape
  <2>. QED  BY <1>2, <2>1, <2>2
<1>10. Owned(result', lists', nodes', (hand \cup {x}) \ {items[i] : i \in DOMAIN items},
             Kept', deleted)
  <2> DEFINE M == nodes'
             F == Kept'
  <2>1. Owned(result, lists, M, hand \cup {x}, F, deleted)
    BY <1>1
  <2> HIDE DEF M, F
  <2>2. Owned(result', lists', M, (hand \cup {x}) \ {items[i] : i \in DOMAIN items}, F, deleted)
    <3>1. MayAdd(hand \cup {x}, items)
      BY <1>7, <1>8 DEF MayAdd
    <3>. QED  BY <2>1, <3>1, ItemsAdded
  <2>. QED  BY <2>2 DEF M, F
<1>11. Sharing(result', counts)
  BY ItemsShared
<1>. QED  BY <1>9, <1>10, <1>11 DEF HeapOwned

(* A message is added: a constant, a text or a hole string of the client.   *)
LEMMA MsgOps ==
  ASSUME HeapOwned, NEW r \in Results,
         \/ \E c \in Consts : AddMsgConst(r, c)
         \/ \E t \in Texts : AddMsg(r, t)
         \/ \E h \in hand : AddHoleMsg(r, h)
  PROVE  HeapOwned'
<1>1. Live(r) /\ Sole(r) /\ result[r].res \in {0 - 1, 0, 1}
  <2>1. Live(r) /\ Sole(r)
    BY DEF AddMsgConst, AddMsg, AddHoleMsg, Room
  <2>. QED  BY <2>1, ResultFacts
<1>2. ASSUME NEW c \in Consts, AddMsgConst(r, c)  PROVE HeapOwned'
  <2>1. <<c>> \in Seq(Consts)
    OBVIOUS
  <2>2. AddItems(r, result[r].res, <<c>>)
        /\ UNCHANGED <<counts, nodes, hand, given, lost, deleted>>
    BY <1>2 DEF AddMsgConst
  <2>. QED  BY <1>1, <2>1, <2>2, ConstsAdded
<1>3. ASSUME NEW t \in Texts, AddMsg(r, t)  PROVE HeapOwned'
  <2> DEFINE items == <<NewHole>>
  <2>1. /\ items \in Seq({NewHole} \cup Consts) /\ DOMAIN items = {1} /\ items[1] = NewHole
    OBVIOUS
  <2>2. /\ AddItems(r, result[r].res, items) /\ t \in Texts \ given
        /\ nodes' = With(nodes, NewHole, <<t>>) /\ given' = given \cup {t}
        /\ UNCHANGED <<counts, hand, lost, deleted>>
    BY <1>3 DEF AddMsg
  <2> HIDE DEF items
  <2>3. \A i, j \in DOMAIN items : items[i] = NewHole /\ items[j] = NewHole => i = j
    BY <2>1
  <2>4. \E i \in DOMAIN items : items[i] = NewHole
    BY <2>1
  <2>5. FewTexts(<<t>>) /\ ToSet(<<t>>) = {t}
    BY <2>2 DEF FewTexts, ToSet
  <2>6. Kept' = Kept \cup ToSet(<<t>>) /\ lost' \subseteq given' /\ given' \subseteq Texts
    BY <2>2, <2>5 DEF HeapOwned, Kept
  <2>. QED  BY <1>1, <2>1, <2>2, <2>3, <2>4, <2>5, <2>6, TextsAdded
<1>4. ASSUME NEW h \in hand, AddHoleMsg(r, h)  PROVE HeapOwned'
  <2> DEFINE items == <<h>>
  <2>1. /\ items \in Seq(hand \cup Consts) /\ DOMAIN items = {1} /\ items[1] = h
    OBVIOUS
  <2>2. /\ AddItems(r, result[r].res, items)
        /\ hand' = hand \ {h} /\ UNCHANGED <<counts, nodes, given, lost, deleted>>
    BY <1>4 DEF AddHoleMsg
  <2> HIDE DEF items
  <2>3. \A i, j \in DOMAIN items : items[i] = items[j] /\ items[i] \in Nat => i = j
    BY <2>1
  <2>4. hand \ {items[i] : i \in DOMAIN items} = hand \ {h}
    BY <2>1
  <2>5. Owned(result, lists, nodes, hand, Kept, deleted)
    BY DEF HeapOwned
  <2>6. Owned(result', lists', nodes, hand \ {items[i] : i \in DOMAIN items}, Kept, deleted)
    <3>1. MayAdd(hand, items)
      BY <2>1, <2>3 DEF MayAdd
    <3>2. AddItems(r, result[r].res, items)
      BY <2>2
    <3>. QED  BY <1>1, <2>5, <3>1, <3>2, ItemsAdded
  <2>7. Sharing(result', counts)
    BY <1>1, <2>2, ItemsShared
  <2>. QED  BY <2>2, <2>4, <2>6, <2>7 DEF HeapOwned, Kept
<1>. QED  BY <1>2, <1>3, <1>4

(* tinybuf_result_err: a result with a list.                                *)
LEMMA ErrOp ==
  ASSUME HeapOwned, NEW r \in Results, NEW res \in {0 - 1, 0, 1},
         NEW items \in Seq(Consts), ResultErr(r, res, items)
  PROVE  HeapOwned'
<1> DEFINE l == Fresh(DOMAIN lists)
           R == [result EXCEPT ![r] = NewResult(res, None)]
           K == With(counts, Fresh(DOMAIN counts), 1)
<1>0. HeapShape(result, lists, nodes, hand, Kept, deleted)
  BY DEF HeapOwned, Owned
<1>r. RowFacts(lists, nodes, Kept)
  BY <1>0, Rows
<1>1. ~Live(r)
  BY DEF ResultErr
<1>2. l \in Nat /\ l \notin DOMAIN lists
  BY <1>0, FreshIsNew DEF HeapShape
<1> HIDE DEF l
<1>3. /\ result' = [result EXCEPT ![r] = NewResult(res, l)]
      /\ lists' = With(lists, l, items) /\ counts' = K
      /\ UNCHANGED <<nodes, hand, given, lost, deleted>>
  BY DEF ResultErr, NewCount, l
<1> DEFINE Q == result'
<1>4. /\ ResultsTyped(R) /\ R[r] # None /\ R[r].list = None
      /\ R[r].cell = Fresh(DOMAIN counts)
      /\ \A q \in Results : q # r => R[q] = result[q]
  <2>1. MadeIn(R, r, None)
    BY <1>1, NewShared
  <2> HIDE DEF R
  <2>. QED  BY <2>1 DEF MadeIn
<1>5. /\ ResultsTyped(Q) /\ Q[r] # None /\ Q[r].list = l
      /\ Q[r].cell = Fresh(DOMAIN counts)
      /\ \A q \in Results : q # r => Q[q] = result[q]
      /\ Sharing(Q, K)
  <2>1. MadeIn([result EXCEPT ![r] = NewResult(res, l)], r, l)
    BY <1>1, <1>2, NewShared
  <2>2. MadeIn(Q, r, l)
    BY <1>3, <2>1
  <2> HIDE DEF Q
  <2>. QED  BY <2>2 DEF MadeIn
<1> HIDE DEF R, Q, K
<1>6. SameLists(result, R)
  BY <1>1, <1>4 DEF SameLists, Live
<1>7. Owned(R, lists, nodes, hand, Kept, deleted)
  BY <1>4, <1>6, ResultsChanged DEF HeapOwned
<1>8. \A i \in DOMAIN items : items[i] \in Consts /\ items[i] \notin Nat
  BY <1>r, LenProperties DEF RowFacts
<1>9. items \in Seq(hand \cup Consts) /\ <<>> \o items = items
  BY SeqMono, ConcatEmptySeq
<1>10. Gives(R, lists, hand, r, l, <<>>, items, Q, lists')
  BY <1>2, <1>3, <1>4, <1>5, <1>8, <1>9 DEF Gives, ResultsTyped
<1>11. Owned(Q, lists', nodes, hand \ {items[i] : i \in DOMAIN items}, Kept, deleted)
  BY <1>7, <1>10, ItemsGiven
<1>12. hand \ {items[i] : i \in DOMAIN items} = hand
  BY <1>0, <1>8 DEF HeapShape
<1>13. lost \subseteq given /\ given \subseteq Texts
  BY DEF HeapOwned
<1>. QED  BY <1>3, <1>5, <1>11, <1>12, <1>13 DEF HeapOwned, Kept, Q

(* The client gives back one of several references to a count.              *)
ReturnsOne(r) ==
  /\ result' = [result EXCEPT ![r] =
                  IF result[r].refs = 1 THEN None ELSE [result[r] EXCEPT !.refs = @ - 1]]
  /\ counts' = [counts EXCEPT ![result[r].cell] = @ - 1]

(* Then it is no more than that.                                            *)
LEMMA OneReturned ==
  ASSUME HeapOwned, NEW r \in Results, Live(r), counts[result[r].cell] > 1, ReturnsOne(r)
  PROVE  Owned(result', lists, nodes, hand, Kept, deleted) /\ Sharing(result', counts')
<1> DEFINE Record == [res : {0 - 1, 0, 1}, list : Nat \cup {None}, cell : Nat, refs : 1 .. MaxRefs]
           c == result[r].cell
           k == result[r].refs
           Q == result'
<1>1. /\ ResultsTyped(result) /\ result[r] \in Record /\ c \in DOMAIN counts
      /\ MaxRefs \in Nat \ {0} /\ result[r] # None
  BY ResultFacts, ResultAssumption DEF Live
<1>2. /\ Sharing(result, counts) /\ Owned(result, lists, nodes, hand, Kept, deleted)
  BY DEF HeapOwned
<1>3. k \in 1 .. MaxRefs
  BY <1>1
<1>4. /\ \A q \in Results : q # r => Q[q] = result[q]
      /\ IF k = 1 THEN Q[r] = None
         ELSE /\ Q[r] \in Record /\ Q[r] # None
              /\ Q[r].cell = c /\ Q[r].list = result[r].list /\ Q[r].refs = k - 1
      /\ ResultsTyped(Q)
  <2>1. Q = [result EXCEPT ![r] = IF k = 1 THEN None ELSE [result[r] EXCEPT !.refs = @ - 1]]
    BY DEF ReturnsOne
  <2>2. /\ \A q \in Results : q # r => Q[q] = result[q]
        /\ Q[r] = IF k = 1 THEN None ELSE [result[r] EXCEPT !.refs = @ - 1]
    BY <1>1, <2>1 DEF ResultsTyped
  <2>3. CASE k = 1
    <3>1. Q[r] = None
      BY <2>2, <2>3
    <3>2. ResultsTyped(Q)
      BY <1>1, <2>1, <2>3 DEF ResultsTyped
    <3>. QED  BY <2>2, <2>3, <3>1, <3>2
  <2>4. CASE k # 1
    <3>1. k - 1 \in 1 .. MaxRefs
      BY <1>1, <1>3, <2>4
    <3>2. /\ Q[r] \in Record /\ Q[r].cell = c /\ Q[r].list = result[r].list
          /\ Q[r].refs = k - 1
      BY <1>1, <2>2, <2>4, <3>1
    <3>3. Q[r] # None
      BY <3>2, NotNone
    <3>4. ResultsTyped(Q)
      BY <1>1, <2>1, <2>2, <3>2 DEF ResultsTyped
    <3>. QED  BY <2>2, <2>4, <3>2, <3>3, <3>4
  <2>. QED  BY <2>3, <2>4
<1>5. counts' = [counts EXCEPT ![c] = @ - 1]
  BY DEF ReturnsOne
<1>6. k # 1 \/ \E q \in Results : q # r /\ result[q] # None /\ result[q].cell = c
  <2>1. SUFFICES ASSUME k = 1, \A q \in Results : result[q] # None /\ result[q].cell = c => q = r
                 PROVE  FALSE
    OBVIOUS
  <2>2. Holders(result, c) = {<<r, 1>>}
    <3>1. <<r, 1>> \in Holders(result, c)
      BY <1>1, <1>3, <2>1 DEF Holders
    <3>2. ASSUME NEW x \in Holders(result, c)  PROVE x = <<r, 1>>
      <4>1. /\ x \in Results \X (1 .. MaxRefs)
            /\ result[x[1]] # None /\ result[x[1]].cell = c /\ x[2] <= result[x[1]].refs
        BY DEF Holders
      <4>2. x[1] = r
        BY <2>1, <4>1
      <4>3. x[2] = 1
        BY <1>1, <2>1, <4>1, <4>2
      <4>. QED  BY <4>1, <4>2, <4>3
    <3>. QED  BY <3>1, <3>2
  <2>3. Cardinality({<<r, 1>>}) = 1
    BY FS_Singleton
  <2>4. counts[c] = 1
    BY <1>1, <1>2, <2>2, <2>3 DEF Sharing
  <2>. QED  BY <2>4
<1> HIDE DEF Q, c, k
<1>7. SameLists(result, Q) /\ SharesFrom(result, Q)
  <2>1. \A q \in Results : Q[q] # None =>
          result[q] # None /\ result[q].list = Q[q].list /\ result[q].cell = Q[q].cell
    BY <1>1, <1>4 DEF c
  <2>2. ASSUME NEW q \in Results, result[q] # None
        PROVE  \E o \in Results : Q[o] # None /\ Q[o].list = result[q].list
    <3>1. CASE q = r /\ k = 1
      <4>1. PICK o \in Results : o # r /\ result[o] # None /\ result[o].cell = c
        BY <1>6, <3>1
      <4>2. result[o].list = result[r].list
        BY <1>1, <1>2, <4>1 DEF Sharing, c
      <4>. QED  BY <1>4, <3>1, <4>1, <4>2
    <3>2. CASE q = r /\ k # 1
      BY <1>4, <3>2
    <3>3. CASE q # r
      BY <1>4, <2>2, <3>3
    <3>. QED  BY <3>1, <3>2, <3>3
  <2>3. SameLists(result, Q)
    BY <2>1, <2>2 DEF SameLists
  <2>4. SharesFrom(result, Q)
    BY <2>1 DEF SharesFrom
  <2>. QED  BY <2>3, <2>4
<1>8. <<r, k>> \in Holders(result, c) /\ Holders(Q, c) = Holders(result, c) \ {<<r, k>>}
  <2>1. <<r, k>> \in Holders(result, c)
    BY <1>1, <1>3 DEF Holders, c, k
  <2>2. ASSUME NEW y \in Results, NEW i \in 1 .. MaxRefs
        PROVE  (Q[y] # None /\ Q[y].cell = c /\ i <= Q[y].refs)
                 <=> /\ result[y] # None /\ result[y].cell = c /\ i <= result[y].refs
                     /\ ~(y = r /\ i = k)
    <3>1. CASE y # r
      BY <1>4, <3>1
    <3>2. CASE y = r /\ k = 1
      <4>1. result[r].refs = 1
        BY <3>2 DEF k
      <4>2. i <= 1 <=> i = 1
        OBVIOUS
      <4>. QED  BY <1>4, <3>2, <4>1, <4>2
    <3>3. CASE y = r /\ k # 1
      <4>1. result[r].refs = k /\ result[r].cell = c
        BY DEF k, c
      <4>2. i <= k - 1 <=> i <= k /\ i # k
        BY <1>3
      <4>. QED  BY <1>1, <1>4, <3>3, <4>1, <4>2
    <3>. QED  BY <3>1, <3>2, <3>3
  <2>3. ASSUME NEW x
        PROVE  x \in Holders(Q, c) <=> x \in Holders(result, c) /\ x # <<r, k>>
    <3>1. x \in Holders(Q, c) <=> /\ x \in Results \X (1 .. MaxRefs)
                                  /\ Q[x[1]] # None /\ Q[x[1]].cell = c /\ x[2] <= Q[x[1]].refs
      BY DEF Holders
    <3>2. x \in Holders(result, c) <=>
            /\ x \in Results \X (1 .. MaxRefs)
            /\ result[x[1]] # None /\ result[x[1]].cell = c /\ x[2] <= result[x[1]].refs
      BY DEF Holders
    <3>3. x \in Results \X (1 .. MaxRefs) =>
            x[1] \in Results /\ x[2] \in 1 .. MaxRefs /\ (x = <<r, k>> <=> x[1] = r /\ x[2] = k)
      OBVIOUS
    <3>. QED  BY <2>2, <3>1, <3>2, <3>3
  <2>. QED  BY <2>1, <2>3
<1>9. \A d : d # c => Holders(Q, d) = Holders(result, d)
  <2>1. SUFFICES ASSUME NEW d, d # c  PROVE Holders(Q, d) = Holders(result, d)
    OBVIOUS
  <2>2. \A y \in Results : Q[y] # None /\ Q[y].cell = d => result[y] = Q[y]
    BY <1>4, <2>1
  <2>3. \A y \in Results : result[y] # None /\ result[y].cell = d => result[y] = Q[y]
    BY <1>4, <2>1 DEF c
  <2>. QED  BY <2>2, <2>3 DEF Holders
<1>10. Owned(Q, lists, nodes, hand, Kept, deleted)
  BY <1>2, <1>4, <1>7, ResultsChanged
<1>11. Sharing(Q, [counts EXCEPT ![c] = @ - 1])
  <2>1. counts[c] > 1
    BY DEF c
  <2>. QED  BY <1>1, <1>2, <1>7, <1>8, <1>9, <2>1, ReferenceReturned DEF c
<1>. QED  BY <1>5, <1>10, <1>11 DEF Q

(* tinybuf_result_unref: the last reference frees the list and its messages. *)
LEMMA UnrefOp ==
  ASSUME HeapOwned, NEW r \in Results, Unref(r)
  PROVE  HeapOwned'
<1> DEFINE Q == [result EXCEPT ![r] = None]
           l == result[r].list
           S == ToSet(Messages(r)) \cap DOMAIN nodes
<1>0. /\ Owned(result, lists, nodes, hand, Kept, deleted) /\ Live(r)
      /\ Sharing(result, counts) /\ lost \subseteq given /\ given \subseteq Texts
      /\ UNCHANGED <<hand, given, lost>>
  BY DEF HeapOwned, Unref
<1>1. CASE counts[result[r].cell] > 1
  <2>1. /\ ReturnsOne(r)
        /\ UNCHANGED <<lists, nodes, deleted>>
    BY <1>1 DEF Unref, ReturnsOne
  <2>2. /\ Owned(result', lists, nodes, hand, Kept, deleted)
        /\ Sharing(result', counts')
    BY <1>0, <1>1, <2>1, OneReturned
  <2>. QED  BY <1>0, <2>1, <2>2 DEF HeapOwned, Kept
<1>2. CASE ~(counts[result[r].cell] > 1)
  <2>0. Alone(result, r) /\ Sharing(Q, Without(counts, {result[r].cell}))
    BY <1>0, <1>2, ResultFacts, CountFreed DEF Live
  <2>1. /\ result' = Q /\ lists' = Without(lists, {l})
        /\ nodes' = Freed(S).nodes /\ deleted' = Freed(S).deleted
        /\ counts' = Without(counts, {result[r].cell})
    BY <1>2 DEF Unref
  <2>2. Owned(Q, Without(lists, {l}), nodes, hand \cup S, Kept, deleted)
        /\ S \cap hand = {}
    <3>1. CASE l = None
      <4>1. S = {}
        BY <3>1 DEF Messages, ToSet
      <4>2. Without(lists, {l}) = lists
        <5>1. l \notin DOMAIN lists
          BY <3>1, ResultFacts
        <5>2. lists = [z \in DOMAIN lists |-> lists[z]]
          BY <1>0 DEF Owned, HeapShape
        <5>. QED  BY <5>1, <5>2 DEF Without
      <4>3. ResultsTyped(Q) /\ SameLists(result, Q)
        <5>1. ResultsTyped(result) /\ DOMAIN result = Results
          BY ResultFacts DEF ResultsTyped
        <5>2. Q[r] = None /\ \A q \in Results : q # r => Q[q] = result[q]
          BY <5>1
        <5>3. ResultsTyped(Q)
          BY <5>1 DEF ResultsTyped
        <5> HIDE DEF Q
        <5>. QED  BY <3>1, <5>2, <5>3 DEF SameLists
      <4>4. Owned(Q, lists, nodes, hand, Kept, deleted)
        BY <1>0, <4>3, ResultsChanged
      <4>. QED  BY <4>1, <4>2, <4>4
    <3>2. CASE l # None
      <4> DEFINE K == [lists EXCEPT ![l] = <<>>]
      <4>1. l \in DOMAIN lists /\ Messages(r) = lists[l]
        BY <1>0, <3>2, ResultFacts DEF Messages
      <4>2. S = {lists[l][i] : i \in DOMAIN lists[l]} \cap DOMAIN nodes
        BY <4>1 DEF ToSet
      <4>3. S \cap hand = {}
        <5>1. \A h \in S : Has(lists, h) /\ h \in DOMAIN nodes
          BY <4>1, <4>2 DEF Has
        <5>. QED  BY <1>0, <5>1 DEF Owned, Apart
      <4>4. Owned(result, K, nodes, hand \cup S, Kept, deleted)
        BY <1>0, <4>1, <4>2, ListEmptied
      <4>5. K[l] = <<>> /\ l \in DOMAIN K /\ Without(K, {l}) = Without(lists, {l})
        BY <4>1 DEF Without
      <4>6. Owned(Q, Without(K, {l}), nodes, hand \cup S, Kept, deleted)
        <5>1. result[r] # None /\ result[r].list \in DOMAIN K /\ K[result[r].list] = <<>>
          BY <1>0, <4>5 DEF Live
        <5> HIDE DEF K, S
        <5>. QED  BY <2>0, <4>4, <5>1, EmptyListDropped
      <4>. QED  BY <4>3, <4>5, <4>6
    <3>. QED  BY <3>1, <3>2
  <2>3. (hand \cup S) \ S = hand /\ S \in SUBSET (hand \cup S)
    BY <2>2
  <2> HIDE DEF S, Q, l
  <2>4. Owned(Q, Without(lists, {l}), Freed(S).nodes, (hand \cup S) \ S, Kept, Freed(S).deleted)
    BY <2>2, <2>3, HandFreed
  <2>. QED  BY <1>0, <2>0, <2>1, <2>3, <2>4 DEF HeapOwned, Kept, Q
<1>. QED  BY <1>1, <1>2

(* tinybuf_result_append_merge with any merger: the messages of s go to d.  *)
LEMMA MergeOp ==
  ASSUME HeapOwned, NEW d \in Results, NEW s \in Results, Merge(d, s)
  PROVE  HeapOwned'
<1> DEFINE Record == [res : {0 - 1, 0, 1}, list : Nat \cup {None}, cell : Nat, refs : 1 .. MaxRefs]
           a == result[d].list
           b == result[s].list
           m == MergeMessages(d, s)
<1>0. Owned(result, lists, nodes, hand, Kept, deleted)
  BY DEF HeapOwned
<1>1. /\ Live(d) /\ Live(s) /\ d # s
      /\ result' = [result EXCEPT ![d].list = m.list, ![s].list = m.left,
                                  ![d].res = Merged(@, result[s].res), ![s].res = 0]
      /\ lists' = m.lists
      /\ UNCHANGED <<counts, nodes, hand, given, lost, deleted>>
      /\ Alone(result, d) /\ Alone(result, s)
  BY DEF Merge, Sole, Alone, Live
<1>s. lost \subseteq given /\ given \subseteq Texts
  BY DEF HeapOwned
<1>2. /\ ResultsTyped(result) /\ result[d] \in Record /\ result[s] \in Record
      /\ a # None => a \in DOMAIN lists
      /\ b # None => b \in DOMAIN lists
  BY <1>1, ResultFacts
<1>3. \/ b = None /\ m.list = a /\ m.left = None /\ m.lists = lists
      \/ b # None /\ a = None /\ m.list = b /\ m.left = None /\ m.lists = lists
      \/ /\ a # None /\ b # None /\ m.list = a /\ m.left = b
         /\ m.lists = [lists EXCEPT ![a] = @ \o Messages(s), ![b] = <<>>]
  BY DEF MergeMessages
<1>4. m.list \in Nat \cup {None} /\ m.left \in Nat \cup {None}
  BY <1>2, <1>3
<1> HIDE DEF m
<1>5. Merged(result[d].res, result[s].res) \in {0 - 1, 0, 1}
  BY DEF Merged
<1>6. /\ result'[d] \in Record /\ result'[d].list = m.list
      /\ result'[s] \in Record /\ result'[s].list = m.left
      /\ \A q \in {d, s} : /\ result'[q].cell = result[q].cell
                           /\ result'[q].refs = result[q].refs
      /\ \A q \in Results : q # d /\ q # s => result'[q] = result[q]
      /\ result' = [q \in Results |-> result'[q]]
  <2>1. /\ result'[d] = [result[d] EXCEPT !.list = m.list,
                                          !.res = Merged(result[d].res, result[s].res)]
        /\ result'[s] = [result[s] EXCEPT !.list = m.left, !.res = 0]
        /\ \A q \in Results : q # d /\ q # s => result'[q] = result[q]
        /\ result' = [q \in Results |-> result'[q]]
    BY <1>1, <1>2 DEF ResultsTyped
  <2>2. [result[d] EXCEPT !.list = m.list, !.res = Merged(result[d].res, result[s].res)] \in Record
    BY <1>2, <1>4, <1>5
  <2>3. [result[s] EXCEPT !.list = m.left, !.res = 0] \in Record
    BY <1>2, <1>4
  <2>4. /\ result'[d].list = m.list
        /\ result'[d].cell = result[d].cell /\ result'[d].refs = result[d].refs
    BY <1>2, <2>1
  <2>5. /\ result'[s].list = m.left
        /\ result'[s].cell = result[s].cell /\ result'[s].refs = result[s].refs
    BY <1>2, <2>1
  <2>6. result'[d] \in Record /\ result'[s] \in Record
    BY <2>1, <2>2, <2>3
  <2> HIDE DEF Record
  <2>. QED  BY <2>1, <2>4, <2>5, <2>6
<1>7. result'[d] # None /\ result'[s] # None
  BY <1>6, NotNone
<1>8. ResultsTyped(result')
  BY <1>2, <1>6 DEF ResultsTyped
<1>e. /\ result[d] # None /\ result[s] # None /\ d # s
      /\ result'[d] # None /\ result'[s] # None
      /\ result'[d].list = m.list /\ result'[s].list = m.left
      /\ result'[d].cell = result[d].cell /\ result'[s].cell = result[s].cell
      /\ \A q \in Results : q # d /\ q # s => result'[q] = result[q]
  <2>1. result[d] # None /\ result[s] # None /\ d # s
    BY <1>1 DEF Live
  <2> HIDE DEF Record
  <2>. QED  BY <1>6, <1>7, <2>1
<1>c. Sharing(result', counts)
  <2>1. SameShares(result, result')
    BY <1>6, <1>e DEF SameShares
  <2>2. \A q \in Results : result[q] # None /\ ~Alone(result, q) => result'[q].list = result[q].list
    BY <1>1, <1>e
  <2>. QED  BY <2>1, <2>2, SharingKept DEF HeapOwned
<1>9. CASE b = None /\ m.list = a /\ m.left = None /\ m.lists = lists
  <2>1. SameLists(result, result')
    BY <1>e, <1>9 DEF SameLists
  <2>2. Owned(result', lists, nodes, hand, Kept, deleted)
    BY <1>0, <1>8, <2>1, ResultsChanged
  <2>. QED  BY <1>1, <1>c, <1>s, <1>9, <2>2 DEF HeapOwned, Kept
<1>10. CASE b # None /\ a = None /\ m.list = b /\ m.left = None /\ m.lists = lists
  <2>1. Handed(result, d, s, result')
    BY <1>1, <1>e, <1>10 DEF Handed
  <2>2. Owned(result', lists, nodes, hand, Kept, deleted)
    BY <1>0, <1>8, <2>1, ListHanded
  <2>. QED  BY <1>1, <1>c, <1>s, <1>10, <2>2 DEF HeapOwned, Kept
<1>11. CASE /\ a # None /\ b # None /\ m.list = a /\ m.left = b
            /\ m.lists = [lists EXCEPT ![a] = @ \o Messages(s), ![b] = <<>>]
  <2> DEFINE items == lists[b]
             S == {lists[b][i] : i \in DOMAIN lists[b]} \cap DOMAIN nodes
             K == [lists EXCEPT ![b] = <<>>]
  <2>r. /\ HeapShape(result, lists, nodes, hand, Kept, deleted)
        /\ RowFacts(lists, nodes, Kept)
    BY <1>0, Rows DEF Owned
  <2>1. /\ a \in DOMAIN lists /\ b \in DOMAIN lists /\ a # b
        /\ Messages(s) = items
    <3>1. a # b
      <4>1. result[d].cell # result[s].cell
        BY <1>1, <1>e DEF Alone
      <4>. QED  BY <1>0, <1>e, <1>11, <4>1 DEF Owned, ListsOwned
    <3>. QED  BY <1>1, <1>2, <1>11, <3>1 DEF Messages
  <2>2. Owned(result, K, nodes, hand \cup S, Kept, deleted)
    BY <1>0, <2>1, ListEmptied
  <2>3. /\ DOMAIN K = DOMAIN lists /\ K[a] = lists[a]
        /\ lists' = With(K, a, K[a] \o items)
    <3>1. lists' = [lists EXCEPT ![a] = @ \o items, ![b] = <<>>]
      BY <1>1, <1>11, <2>1
    <3>2. lists = [l \in DOMAIN lists |-> lists[l]]
      BY <2>r DEF HeapShape
    <3> HIDE DEF items
    <3>. QED  BY <2>1, <3>1, <3>2 DEF With
  <2> HIDE DEF K
  <2>4. \A i \in DOMAIN items : items[i] \in DOMAIN nodes \cup Consts
    BY <2>1, <2>r DEF RowFacts
  <2>5. items \in Seq((hand \cup S) \cup Consts)
    <3>1. Len(items) \in Nat /\ items \in [1 .. Len(items) -> DOMAIN nodes \cup Consts]
      BY <2>1, <2>r, LenProperties DEF RowFacts
    <3>2. \A i \in 1 .. Len(items) : items[i] \in (hand \cup S) \cup Consts
      BY <2>4, <3>1
    <3>. QED  BY <3>1, <3>2, SeqDef
  <2>6. \A i, j \in DOMAIN items : items[i] = items[j] /\ items[i] \in Nat => i = j
    BY <1>0, <2>1 DEF Owned, ListsOnce
  <2>7. (hand \cup S) \ {items[i] : i \in DOMAIN items} = hand
    <3>1. \A h \in hand : h \in DOMAIN nodes
      BY <2>r DEF HeapShape
    <3>2. \A i \in DOMAIN items : Has(lists, items[i])
      BY <2>1 DEF Has
    <3>3. \A h \in hand : ~Has(lists, h)
      BY <1>0, <3>1 DEF Owned, Apart
    <3>4. \A i \in DOMAIN items : items[i] \notin hand
      BY <3>2, <3>3
    <3>. QED  BY <3>4
  <2>8. Gives(result, K, hand \cup S, d, a, K[a], items, result, lists')
    <3>1. result[d] # None
      BY <1>1 DEF Live
    <3> HIDE DEF items, S
    <3>. QED  BY <1>2, <2>1, <2>3, <2>5, <2>6, <3>1 DEF Gives, ResultsTyped
  <2>9. Owned(result, lists', nodes, (hand \cup S) \ {items[i] : i \in DOMAIN items},
              Kept, deleted)
    <3> HIDE DEF items, S
    <3>. QED  BY <2>2, <2>8, ItemsGiven
  <2>10. Owned(result, lists', nodes, hand, Kept, deleted)
    BY <2>7, <2>9
  <2>11. SameLists(result, result')
    BY <1>e, <1>11 DEF SameLists
  <2>12. Owned(result', lists', nodes, hand, Kept, deleted)
    BY <1>8, <2>10, <2>11, ResultsChanged
  <2>. QED  BY <1>1, <1>c, <1>s, <2>12 DEF HeapOwned, Kept
<1>. QED  BY <1>3, <1>9, <1>10, <1>11

(* Whatever the client does with results and hole strings.                  *)
LEMMA ClientOwned == ASSUME HeapOwned, Client  PROVE HeapOwned'
<1>1. ASSUME NEW r \in Results, NEW res \in 0 .. 1, ResultOk(r, res)  PROVE HeapOwned'
  <2>1. res \in {0 - 1, 0, 1}
    OBVIOUS
  <2>. QED  BY <1>1, <2>1, OkOp
<1>2. ASSUME NEW r \in Results, NEW res \in {0 - 1, 0},
             ResultErr(r, res, <<>>) \/ \E c \in Consts : ResultErr(r, res, <<c>>)
      PROVE  HeapOwned'
  <2>1. res \in {0 - 1, 0, 1} /\ <<>> \in Seq(Consts) /\ \A c \in Consts : <<c>> \in Seq(Consts)
    OBVIOUS
  <2>. QED  BY <1>2, <2>1, ErrOp
<1>3. ASSUME NEW r \in Results,
             \/ \E c \in Consts : AddMsgConst(r, c)
             \/ \E t \in Texts : AddMsg(r, t)
             \/ \E h \in hand : AddHoleMsg(r, h)
      PROVE  HeapOwned'
  BY <1>3, MsgOps
<1>4. ASSUME NEW r \in Results,
             Ref(r) \/ Unref(r) \/ \E s \in Results : Copy(r, s) \/ Merge(r, s)
      PROVE  HeapOwned'
  BY <1>4, RefOps, UnrefOp, MergeOp
<1>5. ASSUME \/ HoleNew
             \/ \E h \in hand : HoleFree(h) \/ \E sub \in hand : HoleAppendSub(h, sub)
             \/ \E h \in hand, t \in Texts : HoleAppendText(h, t)
      PROVE  HeapOwned'
  BY <1>5, HoleOps
<1>. QED  BY <1>1, <1>2, <1>3, <1>4, <1>5 DEF Client

-----------------------------------------------------------------------------
(* What the invariant gives.                                                *)

(* The empty heap is owned.                                                 *)
LEMMA InitOwned == InitHeap => HeapOwned
<1> SUFFICES ASSUME InitHeap PROVE HeapOwned
  OBVIOUS
<1>1. /\ result = [r \in Results |-> None]
      /\ DOMAIN lists = {} /\ DOMAIN nodes = {}
      /\ lists = [l \in DOMAIN lists |-> lists[l]] /\ nodes = [h \in DOMAIN nodes |-> nodes[h]]
      /\ hand = {} /\ given = {} /\ lost = {} /\ Kept = {} /\ deleted = [t \in Texts |-> 0]
      /\ DOMAIN counts = {}
  BY DEF InitHeap, Kept
<1>2. HeapShape(result, lists, nodes, hand, Kept, deleted)
  BY <1>1, FS_EmptySet DEF HeapShape
<1>3. NodesOnce(nodes) /\ ListsOnce(lists) /\ Apart(nodes, lists, hand) /\ Rooted(nodes, lists, hand)
  BY <1>1 DEF NodesOnce, ListsOnce, Apart, Rooted
<1>4. Counted(nodes, Kept, deleted) /\ ListsOwned(result, lists)
  BY <1>1 DEF Counted, ListsOwned
<1>5. Sharing(result, counts)
  BY <1>1, FS_EmptySet DEF Sharing
<1>. QED  BY <1>1, <1>2, <1>3, <1>4, <1>5 DEF HeapOwned, Owned

(* In an owned heap every reference is to what is allocated.                *)
LEMMA OwnedTyped == HeapOwned => HeapTyped
<1> SUFFICES ASSUME HeapOwned PROVE HeapTyped
  OBVIOUS
<1>0. HeapShape(result, lists, nodes, hand, Kept, deleted)
  BY DEF HeapOwned, Owned
<1>r. RowFacts(lists, nodes, Kept)
  BY <1>0, Rows
<1>1. ASSUME NEW r \in Results, Live(r)
      PROVE  /\ result[r].res \in {0 - 1, 0, 1} /\ result[r].refs \in 1 .. MaxRefs
             /\ result[r].list = None \/ result[r].list \in DOMAIN lists
             /\ result[r].cell \in DOMAIN counts
  BY <1>1, ResultFacts
<1>2. \A l \in DOMAIN lists : ToSet(lists[l]) \subseteq DOMAIN nodes \cup Consts
  BY <1>r DEF RowFacts, ToSet
<1>3. \A h \in DOMAIN nodes : ToSet(nodes[h]) \subseteq DOMAIN nodes \cup given
  BY <1>r DEF RowFacts, ToSet, Kept
<1>4. /\ \A c \in DOMAIN counts : counts[c] \in Nat \ {0}
      /\ lost \subseteq given /\ given \subseteq Texts
  BY DEF HeapOwned, Sharing
<1>. QED  BY <1>0, <1>1, <1>2, <1>3, <1>4 DEF HeapTyped, HeapShape

(* The number of places of x in the rows of f.                              *)
LEMMA PlacesAre ==
  ASSUME NEW f, NEW x
  PROVE  /\ ~Has(f, x) => Cardinality(Places(x, f)) = 0
         /\ Has(f, x) /\ (\A y, z \in DOMAIN f : \A i \in DOMAIN f[y], j \in DOMAIN f[z] :
                            f[y][i] = x /\ f[z][j] = x => y = z /\ i = j)
              => Cardinality(Places(x, f)) = 1
<1>1. \A p : p \in Places(x, f) <=>
        \E y \in DOMAIN f : \E i \in DOMAIN f[y] : f[y][i] = x /\ p = <<y, i>>
  BY DEF Places
<1>2. ASSUME ~Has(f, x)  PROVE Cardinality(Places(x, f)) = 0
  <2>1. Places(x, f) = {}
    BY <1>1, <1>2 DEF Has
  <2>. QED  BY <2>1, FS_EmptySet
<1>3. ASSUME Has(f, x),
             \A y, z \in DOMAIN f : \A i \in DOMAIN f[y], j \in DOMAIN f[z] :
               f[y][i] = x /\ f[z][j] = x => y = z /\ i = j
      PROVE  Cardinality(Places(x, f)) = 1
  <2>1. PICK y \in DOMAIN f : \E i \in DOMAIN f[y] : f[y][i] = x
    BY <1>3 DEF Has
  <2>2. PICK i \in DOMAIN f[y] : f[y][i] = x
    BY <2>1
  <2>3. Places(x, f) = {<<y, i>>}
    <3>1. <<y, i>> \in Places(x, f)
      BY <1>1, <2>2
    <3>2. ASSUME NEW p \in Places(x, f)  PROVE p = <<y, i>>
      <4>1. PICK z \in DOMAIN f : \E j \in DOMAIN f[z] : f[z][j] = x /\ p = <<z, j>>
        BY <1>1
      <4>2. PICK j \in DOMAIN f[z] : f[z][j] = x /\ p = <<z, j>>
        BY <4>1
      <4>3. z = y /\ j = i
        BY <1>3, <2>2, <4>2
      <4>. QED  BY <4>2, <4>3
    <3>. QED  BY <3>1, <3>2
  <2>. QED  BY <2>3, FS_Singleton
<1>. QED  BY <1>2, <1>3

(* In an owned heap every text is in one place or was deleted once: the
   places of a thing, counted, are at most one.                             *)
LEMMA OwnedOnce == HeapOwned => TextOwnedOnce
<1> SUFFICES ASSUME HeapOwned PROVE TextOwnedOnce
  OBVIOUS
<1>0. HeapShape(result, lists, nodes, hand, Kept, deleted)
  BY DEF HeapOwned, Owned
<1>r. RowFacts(lists, nodes, Kept)
  BY <1>0, Rows
<1>1. ASSUME NEW x
      PROVE  Cardinality(Places(x, nodes)) = IF Has(nodes, x) THEN 1 ELSE 0
  <2>1. \A y, z \in DOMAIN nodes : \A i \in DOMAIN nodes[y], j \in DOMAIN nodes[z] :
          nodes[y][i] = x /\ nodes[z][j] = x => y = z /\ i = j
    BY DEF HeapOwned, Owned, NodesOnce
  <2>. QED  BY <2>1, PlacesAre
<1>2. ASSUME NEW x \in DOMAIN nodes
      PROVE  Cardinality(Places(x, lists)) = IF Has(lists, x) THEN 1 ELSE 0
  <2>1. x \in Nat
    BY <1>0 DEF HeapShape
  <2>2. \A y, z \in DOMAIN lists : \A i \in DOMAIN lists[y], j \in DOMAIN lists[z] :
          lists[y][i] = x /\ lists[z][j] = x => y = z /\ i = j
    BY <2>1 DEF HeapOwned, Owned, ListsOnce
  <2>. QED  BY <2>2, PlacesAre
<1>3. ASSUME NEW t \in given
      PROVE  Cardinality(Places(t, nodes)) + deleted[t] + (IF t \in lost THEN 1 ELSE 0) = 1
  <2>1. t \in Texts
    BY DEF HeapOwned
  <2>2. Counted(nodes, Kept, deleted)
    BY DEF HeapOwned, Owned
  <2>3. CASE t \in lost
    <3>1. t \notin Kept
      BY <2>3 DEF Kept
    <3>2. deleted[t] = 0
      BY <2>1, <2>2, <3>1 DEF Counted
    <3>3. ~Has(nodes, t)
      <4>1. t \notin DOMAIN nodes
        BY <1>r, <2>1 DEF RowFacts
      <4>2. \A y \in DOMAIN nodes : \A i \in DOMAIN nodes[y] : nodes[y][i] \in DOMAIN nodes \cup Kept
        BY <1>r DEF RowFacts
      <4>. QED  BY <3>1, <4>1, <4>2 DEF Has
    <3>. QED  BY <1>1, <2>3, <3>2, <3>3
  <2>4. CASE t \notin lost
    <3>1. t \in Kept
      BY <2>4 DEF Kept
    <3>2. deleted[t] = IF Has(nodes, t) THEN 0 ELSE 1
      BY <2>1, <2>2, <3>1 DEF Counted
    <3>. QED  BY <1>1, <2>4, <3>2
  <2>. QED  BY <2>3, <2>4
<1>4. ASSUME NEW h \in DOMAIN nodes
      PROVE  LET owners == Cardinality(Places(h, nodes)) + Cardinality(Places(h, lists))
                             + (IF h \in hand THEN 1 ELSE 0)
             IN  owners = 1 \/ (owners = 0 /\ nodes[h] = <<>>)
  <2>1. /\ ~(Has(nodes, h) /\ Has(lists, h))
        /\ h \in hand => ~Has(nodes, h) /\ ~Has(lists, h)
        /\ nodes[h] # <<>> => h \in hand \/ Has(nodes, h) \/ Has(lists, h)
    BY DEF HeapOwned, Owned, Apart, Rooted
  <2>2. /\ Cardinality(Places(h, nodes)) = IF Has(nodes, h) THEN 1 ELSE 0
        /\ Cardinality(Places(h, lists)) = IF Has(lists, h) THEN 1 ELSE 0
    BY <1>1, <1>2
  <2>. QED  BY <2>1, <2>2
<1>5. ASSUME NEW l \in DOMAIN lists
      PROVE  \E c \in DOMAIN counts :
               \A r \in Results : Live(r) => (result[r].list = l <=> result[r].cell = c)
  <2>1. ListsOwned(result, lists) /\ Sharing(result, counts)
    BY DEF HeapOwned, Owned
  <2>2. PICK r \in Results : Live(r) /\ result[r].list = l
    BY <2>1 DEF ListsOwned, Live
  <2>3. l # None
    BY <1>r DEF RowFacts
  <2>4. result[r].cell \in DOMAIN counts
    BY <2>1, <2>2 DEF Sharing, Live
  <2>5. ASSUME NEW q \in Results, Live(q)
        PROVE  result[q].list = l <=> result[q].cell = result[r].cell
    <3>1. result[q].list = l => result[q].cell = result[r].cell
      BY <2>1, <2>2, <2>3, <2>5 DEF ListsOwned, Live
    <3>2. result[q].cell = result[r].cell => result[q].list = l
      BY <2>1, <2>2, <2>5 DEF Sharing, Live
    <3>. QED  BY <3>1, <3>2
  <2>. QED  BY <2>4, <2>5
<1>6. ASSUME NEW c \in DOMAIN counts  PROVE Cardinality(References(c)) = counts[c]
  <2>1. References(c) = Holders(result, c)
    BY DEF References, Holders, Live
  <2>. QED  BY <2>1 DEF HeapOwned, Sharing
<1>. QED  BY <1>3, <1>4, <1>5, <1>6 DEF TextOwnedOnce


-----------------------------------------------------------------------------
(* What a message shows.                                                    *)

Below == {p \in Nat \X Nat : p[1] < p[2]}

(* A set of numbers with a member has a smallest one.                       *)
LEMMA MinOf ==
  ASSUME NEW I \in SUBSET Nat, I # {}
  PROVE  Min(I) \in I /\ \A j \in I : Min(I) <= j
<1>1. IsWellFoundedOn(Below, Nat)
  <2>1. Below = OpToRel(<, Nat)
    BY DEF Below, OpToRel
  <2>. QED  BY <2>1, NatLessThanWellFounded
<1>2. PICK x \in I : \A y \in I : ~(<<y, x>> \in Below)
  BY <1>1, WFMin
<1>3. ASSUME NEW j \in I PROVE x <= j
  <2>1. <<j, x>> \in Nat \X Nat /\ <<j, x>>[1] = j /\ <<j, x>>[2] = x
    OBVIOUS
  <2>2. ~(j < x)
    BY <1>2, <2>1, Zenon DEF Below
  <2>. QED  BY <2>2
<1>. QED  BY <1>3 DEF Min

(* The rows of Show for the hole strings N: the definition in Shown, taken
   apart so that its existence can be proved.                               *)
Items(N) == Consts \cup Texts \cup DOMAIN N
Row(N, f, d) ==
  [x \in Items(N) |->
     IF x \notin DOMAIN N THEN <<x>>
     ELSE IF d = 0 THEN <<>>
     ELSE FlattenSeq([j \in DOMAIN N[x] |-> f[d - 1][N[x][j]]])]
IsShow(f, N) == f = [d \in Nat |-> Row(N, f, d)]
ShowOf(N) == CHOOSE f : IsShow(f, N)
IsPart(g, N, n) == g = [d \in 0 .. n |-> Row(N, g, d)]

(* A row depends on the row before it alone.                                *)
LEMMA RowSame ==
  ASSUME NEW N, NEW f, NEW g, NEW d \in Nat, d # 0 => f[d - 1] = g[d - 1]
  PROVE  Row(N, f, d) = Row(N, g, d)
  BY DEF Row

(* A part consists of rows.                                                 *)
LEMMA PartRows ==
  ASSUME NEW N, NEW n \in Nat, NEW g, IsPart(g, N, n)
  PROVE  \A d \in 0 .. n : g[d] = Row(N, g, d)
<1>1. g = [d \in 0 .. n |-> Row(N, g, d)]
  BY DEF IsPart
<1>. QED  BY <1>1

(* Two parts agree as far as both go.                                       *)
LEMMA PartsAgree ==
  ASSUME NEW N, NEW n \in Nat, NEW m \in Nat, NEW g, NEW h,
         IsPart(g, N, n), IsPart(h, N, m)
  PROVE  \A d \in 0 .. n : d <= m => g[d] = h[d]
<1> DEFINE Bad == {d \in 0 .. n : d <= m /\ g[d] # h[d]}
<1>1. SUFFICES ASSUME Bad # {} PROVE FALSE
  OBVIOUS
<1>2. Bad \in SUBSET Nat
  OBVIOUS
<1>3. PICK d \in Bad : \A e \in Bad : d <= e
  <2> HIDE DEF Bad
  <2>. QED  BY <1>1, <1>2, MinOf
<1>4. d \in 0 .. n /\ d <= m /\ g[d] # h[d]
  OBVIOUS
<1>5. g[d] = Row(N, g, d) /\ h[d] = Row(N, h, d)
  <2>1. d \in 0 .. n /\ d \in 0 .. m
    BY <1>4
  <2> HIDE DEF Bad
  <2>. QED  BY <2>1, PartRows
<1>6. d # 0 => g[d - 1] = h[d - 1]
  <2>1. SUFFICES ASSUME d # 0, g[d - 1] # h[d - 1] PROVE FALSE
    OBVIOUS
  <2>2. d - 1 \in Bad
    BY <1>4, <2>1
  <2>. QED  BY <1>3, <1>4, <2>2
<1>7. Row(N, g, d) = Row(N, h, d)
  BY <1>4, <1>6, RowSame
<1>. QED  BY <1>4, <1>5, <1>7

(* There is a part of every length.                                         *)
LEMMA PartExists == \A N : \A n \in Nat : \E g : IsPart(g, N, n)
<1> SUFFICES ASSUME NEW N PROVE \A n \in Nat : \E g : IsPart(g, N, n)
  OBVIOUS
<1> DEFINE Bad == {n \in Nat : ~\E g : IsPart(g, N, n)}
<1>1. SUFFICES ASSUME Bad # {} PROVE FALSE
  OBVIOUS
<1>2. PICK n \in Bad : \A e \in Bad : n <= e
  <2>1. Bad \in SUBSET Nat
    OBVIOUS
  <2> HIDE DEF Bad
  <2>. QED  BY <1>1, <2>1, MinOf
<1>3. n \in Nat /\ ~\E g : IsPart(g, N, n)
  OBVIOUS
<1>4. CASE n = 0
  <2> DEFINE g == [d \in 0 .. 0 |-> Row(N, <<>>, d)]
  <2>1. \A d \in 0 .. 0 : Row(N, <<>>, d) = Row(N, g, d)
    <3> HIDE DEF g
    <3>. QED  BY RowSame
  <2>2. g = [d \in 0 .. 0 |-> Row(N, g, d)]
    <3> DEFINE G == g
    <3>1. G = [d \in 0 .. 0 |-> Row(N, <<>>, d)]
      OBVIOUS
    <3> HIDE DEF g, G
    <3>2. [d \in 0 .. 0 |-> Row(N, <<>>, d)] = [d \in 0 .. 0 |-> Row(N, g, d)]
      BY <2>1
    <3>. QED  BY <3>1, <3>2 DEF G
  <2> HIDE DEF g
  <2>3. IsPart(g, N, n)
    BY <1>4, <2>2 DEF IsPart
  <2>. QED  BY <1>3, <2>3
<1>5. CASE n # 0
  <2>1. n - 1 \in Nat /\ n - 1 \notin Bad
    BY <1>2, <1>3, <1>5
  <2>2. PICK h : IsPart(h, N, n - 1)
    BY <2>1
  <2> DEFINE g == [d \in 0 .. n |-> IF d = n THEN Row(N, h, n) ELSE h[d]]
  <2>3. /\ DOMAIN g = 0 .. n /\ g = [d \in 0 .. n |-> g[d]]
        /\ g[n] = Row(N, h, n)
        /\ \A d \in 0 .. n - 1 : g[d] = h[d]
    BY <1>3
  <2> HIDE DEF g
  <2>4. ASSUME NEW d \in 0 .. n PROVE g[d] = Row(N, g, d)
    <3>1. d # 0 => g[d - 1] = h[d - 1]
      <4>1. d # 0 => d - 1 \in 0 .. n - 1
        BY <2>1
      <4>. QED  BY <2>3, <4>1
    <3>2. Row(N, g, d) = Row(N, h, d)
      BY <3>1, RowSame
    <3>3. d # n => h[d] = Row(N, h, d) /\ g[d] = h[d]
      <4>1. \A e \in 0 .. n - 1 : h[e] = Row(N, h, e)
        BY <2>1, <2>2, PartRows
      <4>2. d # n => d \in 0 .. n - 1
        BY <1>3
      <4>. QED  BY <2>3, <4>1, <4>2
    <3>. QED  BY <2>3, <3>2, <3>3
  <2>5. IsPart(g, N, n)
    BY <2>3, <2>4, Zenon DEF IsPart
  <2>. QED  BY <1>3, <2>5
<1>. QED  BY <1>4, <1>5

(* Show is defined: what it shows at each depth is its row.                 *)
LEMMA ShowExists == \A N : \A d \in Nat : ShowOf(N)[d] = Row(N, ShowOf(N), d)
<1> SUFFICES ASSUME NEW N PROVE \A d \in Nat : ShowOf(N)[d] = Row(N, ShowOf(N), d)
  OBVIOUS
<1> DEFINE P(n) == CHOOSE g : IsPart(g, N, n)
           F == [d \in Nat |-> P(d)[d]]
<1>1. \A n \in Nat : IsPart(P(n), N, n)
  BY PartExists
<1> HIDE DEF P
<1>2. ASSUME NEW d \in Nat PROVE F[d] = Row(N, F, d)
  <2>1. F[d] = P(d)[d] /\ P(d)[d] = Row(N, P(d), d)
    <3>1. P(d) = [e \in 0 .. d |-> Row(N, P(d), e)]
      BY <1>1 DEF IsPart
    <3>2. d \in 0 .. d
      OBVIOUS
    <3>. QED  BY <3>1, <3>2
  <2>2. d # 0 => F[d - 1] = P(d)[d - 1]
    <3>1. SUFFICES ASSUME d # 0 PROVE F[d - 1] = P(d)[d - 1]
      OBVIOUS
    <3>2. d - 1 \in Nat /\ d - 1 \in 0 .. d - 1 /\ d - 1 <= d
      BY <3>1
    <3>3. IsPart(P(d - 1), N, d - 1) /\ IsPart(P(d), N, d)
      BY <1>1, <3>2
    <3>4. P(d - 1)[d - 1] = P(d)[d - 1]
      BY <3>2, <3>3, PartsAgree
    <3>. QED  BY <3>2, <3>4
  <2> HIDE DEF F
  <2>. QED  BY <2>1, <2>2, RowSame
<1>3. DOMAIN F = Nat /\ F = [d \in Nat |-> F[d]]
  OBVIOUS
<1> HIDE DEF F
<1>4. IsShow(F, N)
  BY <1>2, <1>3, Zenon DEF IsShow
<1>5. IsShow(ShowOf(N), N)
  BY <1>4 DEF ShowOf
<1>6. ShowOf(N) = [d \in Nat |-> Row(N, ShowOf(N), d)]
  BY <1>5 DEF IsShow
<1>. QED  BY <1>6

(* The hole strings C, with all that is in them, are those of N and of M.    *)
Shared(N, M, C) ==
  /\ C \subseteq DOMAIN N /\ C \subseteq DOMAIN M
  /\ \A x \in C : M[x] = N[x] /\ \A j \in DOMAIN N[x] : N[x][j] \in C \cup Texts
  /\ \A x \in Texts \cup Consts : x \notin DOMAIN N /\ x \notin DOMAIN M

(* The texts a message shows depend on the hole strings in it alone.         *)
LEMMA ShowKept ==
  ASSUME NEW N, NEW M, NEW C, Shared(N, M, C)
  PROVE  \A d \in Nat : \A x \in C \cup Texts \cup Consts : ShowOf(N)[d][x] = ShowOf(M)[d][x]
<1> DEFINE A == C \cup Texts \cup Consts
           f == ShowOf(N)
           g == ShowOf(M)
           Bad == {d \in Nat : \E x \in A : f[d][x] # g[d][x]}
<1>0. /\ C \subseteq DOMAIN N /\ C \subseteq DOMAIN M
      /\ \A x \in C : M[x] = N[x] /\ \A j \in DOMAIN N[x] : N[x][j] \in C \cup Texts
      /\ \A x \in Texts \cup Consts : x \notin DOMAIN N /\ x \notin DOMAIN M
  BY DEF Shared
<1>1. SUFFICES ASSUME Bad # {} PROVE FALSE
  OBVIOUS
<1>2. PICK d \in Bad : \A e \in Bad : d <= e
  <2>1. Bad \in SUBSET Nat
    OBVIOUS
  <2> HIDE DEF Bad
  <2>. QED  BY <1>1, <2>1, MinOf
<1>3. PICK x \in A : f[d][x] # g[d][x]
  OBVIOUS
<1>4. d \in Nat /\ f[d] = Row(N, f, d) /\ g[d] = Row(M, g, d)
  BY ShowExists
<1>5. d # 0 => \A y \in A : f[d - 1][y] = g[d - 1][y]
  <2>1. SUFFICES ASSUME d # 0, NEW y \in A, f[d - 1][y] # g[d - 1][y] PROVE FALSE
    OBVIOUS
  <2>2. d - 1 \in Bad
    BY <1>4, <2>1
  <2>. QED  BY <1>2, <1>4, <2>2
<1> HIDE DEF f, g, Bad
<1>6. x \in Items(N) /\ x \in Items(M)
  BY <1>0 DEF Items
<1>7. CASE x \notin C
  <2>1. x \notin DOMAIN N /\ x \notin DOMAIN M
    BY <1>0, <1>7
  <2>. QED  BY <1>3, <1>4, <1>6, <2>1 DEF Row
<1>8. CASE x \in C /\ d = 0
  <2>1. x \in DOMAIN N /\ x \in DOMAIN M
    BY <1>0, <1>8
  <2>. QED  BY <1>3, <1>4, <1>6, <1>8, <2>1 DEF Row
<1>9. CASE x \in C /\ d # 0
  <2>1. x \in DOMAIN N /\ x \in DOMAIN M
    BY <1>0, <1>9
  <2>2. /\ f[d][x] = FlattenSeq([j \in DOMAIN N[x] |-> f[d - 1][N[x][j]]])
        /\ g[d][x] = FlattenSeq([j \in DOMAIN M[x] |-> g[d - 1][M[x][j]]])
    BY <1>4, <1>6, <1>9, <2>1 DEF Row
  <2>3. M[x] = N[x] /\ \A j \in DOMAIN N[x] : N[x][j] \in A
    BY <1>0, <1>9
  <2>4. [j \in DOMAIN N[x] |-> f[d - 1][N[x][j]]] = [j \in DOMAIN M[x] |-> g[d - 1][M[x][j]]]
    BY <1>5, <1>9, <2>3
  <2>. QED  BY <1>3, <2>2, <2>4
<1>. QED  BY <1>7, <1>8, <1>9

(* What Show and the log of all results are, of the state and the next one.  *)
Text(N, x) == ShowOf(N)[MaxHoles][x]
Listing(N, s) == [j \in DOMAIN s |-> Text(N, s[j])]

(* Shown is the row of Show at the greatest depth.                          *)
LEMMA ShownIs == \A x : Shown(x) = Text(nodes, x) /\ Shown(x)' = Text(nodes', x)
  BY DEF Shown, Text, ShowOf, IsShow, Row, Items

-----------------------------------------------------------------------------
(* The log.                                                                 *)

(* The log of a state, object by object, of this one and of the next.        *)
LEMMA LogIs ==
  /\ \A r : r \in DOMAIN Log <=> r \in Results /\ Live(r)
  /\ \A r \in Results : Live(r) =>
       Log[r] = [ok |-> result[r].res > 0, msgs |-> Listing(nodes, Messages(r))]
  /\ Log = [r \in DOMAIN Log |-> Log[r]]
  /\ \A r : r \in DOMAIN Log' <=> r \in Results /\ Live(r)'
  /\ \A r \in Results : Live(r)' =>
       Log'[r] = [ok |-> result'[r].res > 0, msgs |-> Listing(nodes', Messages(r)')]
  /\ Log' = [r \in DOMAIN Log' |-> Log'[r]]
<1>1. \A r : Listing(nodes, Messages(r)) = [j \in DOMAIN Messages(r) |-> Shown(Messages(r)[j])]
  BY ShownIs DEF Listing
<1>2. \A r : Listing(nodes', Messages(r)') = [j \in DOMAIN Messages(r) |-> Shown(Messages(r)[j])]'
  BY ShownIs DEF Listing
<1>. QED  BY <1>1, <1>2 DEF Log

(* The parts of one object's entry.                                         *)
LEMMA LogAt ==
  ASSUME NEW r \in Results
  PROVE  /\ Live(r) => /\ Log[r].ok = (result[r].res > 0)
                        /\ Log[r].msgs = Listing(nodes, Messages(r))
         /\ Live(r)' => /\ Log'[r].ok = (result'[r].res > 0)
                         /\ Log'[r].msgs = Listing(nodes', Messages(r)')
<1>1. Live(r) => Log[r] = [ok |-> result[r].res > 0, msgs |-> Listing(nodes, Messages(r))]
  BY LogIs
<1>2. Live(r)' => Log'[r] = [ok |-> result'[r].res > 0, msgs |-> Listing(nodes', Messages(r)')]
  BY LogIs
<1>. QED  BY <1>1, <1>2

(* The step leaves what the result q shows as it is.                         *)
KeptAt(q) ==
  /\ Live(q)' <=> Live(q)
  /\ Live(q) => /\ result'[q].res = result[q].res
                /\ Messages(q)' = Messages(q)
                /\ \A j \in DOMAIN Messages(q) :
                     Text(nodes', Messages(q)[j]) = Text(nodes, Messages(q)[j])

(* Such a result has the same entry of the log before and after.            *)
LEMMA KeptInLog ==
  ASSUME NEW q \in Results, KeptAt(q)
  PROVE  /\ q \in DOMAIN Log' <=> q \in DOMAIN Log
         /\ q \in DOMAIN Log => Log'[q] = Log[q]
<1>1. q \in DOMAIN Log' <=> q \in DOMAIN Log
  BY LogIs DEF KeptAt
<1>2. ASSUME q \in DOMAIN Log  PROVE Log'[q] = Log[q]
  <2>1. Live(q) /\ Live(q)'
    BY <1>2, LogIs DEF KeptAt
  <2>2. Listing(nodes', Messages(q)') = Listing(nodes, Messages(q))
    BY <2>1 DEF Listing, KeptAt
  <2>3. result'[q].res = result[q].res
    BY <2>1 DEF KeptAt
  <2>. QED  BY <2>1, <2>2, <2>3, LogIs
<1>. QED  BY <1>1, <1>2

(* A step that leaves all of them as they are leaves the log.                *)
LEMMA LogUnchanged ==
  ASSUME \A q \in Results : KeptAt(q)
  PROVE  Log' = Log
<1>1. \A q : q \in DOMAIN Log' <=> q \in DOMAIN Log
  BY LogIs, KeptInLog
<1>2. \A q \in DOMAIN Log : Log'[q] = Log[q]
  BY LogIs, KeptInLog
<1>3. DOMAIN Log' = DOMAIN Log
  BY <1>1
<1>. QED  BY <1>2, <1>3, LogIs

(* A step that leaves all results but one as they are changes no other entry. *)
LEMMA OnlyInLog ==
  ASSUME NEW r \in Results, \A q \in Results \ {r} : KeptAt(q)
  PROVE  Abstract!OnlyAt(r)
  BY KeptInLog DEF Abstract!OnlyAt, Abstract!Live

-----------------------------------------------------------------------------
(* Which messages a change of the hole strings leaves alone.                 *)

(* C is a set of hole strings that a step leaves alone, and all that is in
   them.                                                                     *)
Untouched(C) ==
  /\ C \subseteq DOMAIN nodes /\ C \subseteq DOMAIN nodes'
  /\ \A x \in C : /\ nodes'[x] = nodes[x]
                  /\ \A j \in DOMAIN nodes[x] : nodes[x][j] \in C \cup Texts

(* What is made of them shows the same texts after the step.                 *)
LEMMA UntouchedShown ==
  ASSUME HeapOwned, DOMAIN nodes' \subseteq Nat, NEW C, Untouched(C), NEW x \in C \cup Consts
  PROVE  Text(nodes', x) = Text(nodes, x)
<1>1. MaxHoles \in Nat
  BY ResultAssumption
<1>2. Shared(nodes, nodes', C)
  <2>1. DOMAIN nodes \subseteq Nat
    BY DEF HeapOwned, Owned, HeapShape
  <2>2. \A y \in Texts \cup Consts : y \notin Nat
    BY NamesAssumption
  <2>. QED  BY <2>1, <2>2 DEF Shared, Untouched
<1>5. \A d \in Nat : \A y \in C \cup Texts \cup Consts : ShowOf(nodes)[d][y] = ShowOf(nodes')[d][y]
  BY <1>2, ShowKept
<1>. QED  BY <1>1, <1>5 DEF Text

(* A result all of whose messages are among them is left as it is.           *)
LEMMA UntouchedKept ==
  ASSUME HeapOwned, DOMAIN nodes' \subseteq Nat, NEW C, Untouched(C), NEW q \in Results,
         Live(q)' <=> Live(q),
         Live(q) => /\ result'[q].res = result[q].res /\ Messages(q)' = Messages(q)
                    /\ \A j \in DOMAIN Messages(q) : Messages(q)[j] \in C \cup Consts
  PROVE  KeptAt(q)
<1>1. \A x \in C \cup Consts : Text(nodes', x) = Text(nodes, x)
  BY UntouchedShown
<1>. QED  BY <1>1 DEF KeptAt

(* The messages of a result are a row of hole strings and constants.         *)
LEMMA MessagesAre ==
  ASSUME HeapOwned, NEW q \in Results, Live(q)
  PROVE  /\ Messages(q) \in Seq(DOMAIN nodes \cup Consts)
         /\ \A j \in DOMAIN Messages(q) : Messages(q)[j] \in DOMAIN nodes \cup Consts
         /\ \A j \in DOMAIN Messages(q) :
              /\ result[q].list # None /\ result[q].list \in DOMAIN lists
              /\ Messages(q) = lists[result[q].list]
              /\ Has(lists, Messages(q)[j])
<1>1. HeapShape(result, lists, nodes, hand, Kept, deleted)
  BY DEF HeapOwned, Owned
<1>2. RowFacts(lists, nodes, Kept)
  BY <1>1, Rows
<1>3. CASE result[q].list = None
  <2>1. Messages(q) = <<>>
    BY <1>3 DEF Messages
  <2>. QED  BY <2>1
<1>4. CASE result[q].list # None
  <2>1. Messages(q) = lists[result[q].list] /\ result[q].list \in DOMAIN lists
    BY <1>4, ResultFacts DEF Messages
  <2>2. \A j \in DOMAIN Messages(q) : Has(lists, Messages(q)[j])
    BY <2>1 DEF Has
  <2>. QED  BY <1>2, <1>4, <2>1, <2>2 DEF RowFacts
<1>. QED  BY <1>3, <1>4

(* A new hole string touches no other.                                       *)
LEMMA NewTouchesNone ==
  ASSUME HeapOwned, nodes' = nodes \/ \E row : nodes' = With(nodes, NewHole, row)
  PROVE  Untouched(DOMAIN nodes) /\ DOMAIN nodes' \subseteq Nat
<1>1. HeapShape(result, lists, nodes, hand, Kept, deleted)
  BY DEF HeapOwned, Owned
<1>2. RowFacts(lists, nodes, Kept)
  BY <1>1, Rows
<1>3. \A y \in DOMAIN nodes : \A i \in DOMAIN nodes[y] : nodes[y][i] \in DOMAIN nodes \cup Texts
  BY <1>1, <1>2 DEF RowFacts, HeapShape
<1>4. DOMAIN nodes \subseteq Nat
  BY <1>1 DEF HeapShape
<1>5. NewHole \in Nat /\ NewHole \notin DOMAIN nodes
  BY <1>1, FreshIsNew DEF HeapShape, NewHole
<1>6. ASSUME NEW row, nodes' = With(nodes, NewHole, row)
      PROVE  DOMAIN nodes' = DOMAIN nodes \cup {NewHole} /\ \A y \in DOMAIN nodes : nodes'[y] = nodes[y]
  BY <1>5, <1>6 DEF With
<1>7. DOMAIN nodes \subseteq DOMAIN nodes' /\ DOMAIN nodes' \subseteq Nat
      /\ \A y \in DOMAIN nodes : nodes'[y] = nodes[y]
  BY <1>4, <1>5, <1>6
<1>. QED  BY <1>3, <1>7 DEF Untouched

(* A change of a hole string of the client's touches no other.               *)
LEMMA HandTouchesItself ==
  ASSUME HeapOwned, NEW h \in hand, NEW row, nodes' = [nodes EXCEPT ![h] = row]
  PROVE  Untouched(DOMAIN nodes \ {h}) /\ DOMAIN nodes' \subseteq Nat
<1>1. HeapShape(result, lists, nodes, hand, Kept, deleted) /\ Apart(nodes, lists, hand)
  BY DEF HeapOwned, Owned
<1>2. RowFacts(lists, nodes, Kept)
  BY <1>1, Rows
<1>3. \A y \in DOMAIN nodes : \A i \in DOMAIN nodes[y] : nodes[y][i] \in DOMAIN nodes \cup Texts
  BY <1>1, <1>2 DEF RowFacts, HeapShape
<1>4. DOMAIN nodes \subseteq Nat /\ h \in DOMAIN nodes
  BY <1>1 DEF HeapShape
<1>5. \A y \in DOMAIN nodes : \A i \in DOMAIN nodes[y] : nodes[y][i] # h
  BY <1>1, <1>4 DEF Apart, Has
<1>6. DOMAIN nodes' = DOMAIN nodes /\ \A y \in DOMAIN nodes \ {h} : nodes'[y] = nodes[y]
  OBVIOUS
<1>. QED  BY <1>3, <1>4, <1>5, <1>6 DEF Untouched

(* Freeing hole strings that are in no other touches none but them and what is
   in them.                                                                  *)
FreedSet(hs) == UNION {Parts(h) : h \in hs}

(* What is freed is those hole strings and what is in them: all the others
   stay, and none of the freed ones is in a place elsewhere.                *)
LEMMA FreedTouches ==
  ASSUME HeapOwned, NEW hs \in SUBSET DOMAIN nodes,
         \A h \in hs : ~Has(nodes, h),
         nodes' = Freed(hs).nodes
  PROVE  /\ Untouched(DOMAIN nodes \ FreedSet(hs)) /\ DOMAIN nodes' \subseteq Nat
         /\ \A k \in FreedSet(hs) : k \in hs \/ Has(nodes, k)
<1> DEFINE C == FreedSet(hs)
<1>1. HeapShape(result, lists, nodes, hand, Kept, deleted) /\ NodesOnce(nodes)
  BY DEF HeapOwned, Owned
<1>2. RowFacts(lists, nodes, Kept)
  BY <1>1, Rows
<1>3. \A y \in DOMAIN nodes : \A i \in DOMAIN nodes[y] : nodes[y][i] \in DOMAIN nodes \cup Texts
  BY <1>1, <1>2 DEF RowFacts, HeapShape
<1>4. DOMAIN nodes \subseteq Nat
  BY <1>1 DEF HeapShape
<1>5. hs \subseteq C /\ C \subseteq DOMAIN nodes
  BY PartsFacts DEF FreedSet
<1>6. \A k \in C : k \in hs \/ \E y \in C : \E i \in DOMAIN nodes[y] : nodes[y][i] = k
  <2>1. SUFFICES ASSUME NEW h \in hs, NEW k \in Parts(h), k # h
                 PROVE  \E y \in C : \E i \in DOMAIN nodes[y] : nodes[y][i] = k
    BY DEF FreedSet
  <2>2. \E y \in Parts(h) : \E i \in DOMAIN nodes[y] : nodes[y][i] = k
    BY <2>1, PartsFacts
  <2>. QED  BY <2>2 DEF FreedSet
<1>7. /\ DOMAIN nodes' = DOMAIN nodes \ hs
      /\ \A x \in DOMAIN nodes \ C : nodes'[x] = nodes[x]
  <2>1. nodes' = [x \in DOMAIN nodes \ hs |-> IF x \in C THEN <<>> ELSE nodes[x]]
    BY DEF Freed, FreedSet
  <2> HIDE DEF C
  <2>. QED  BY <1>5, <2>1
<1> HIDE DEF C
<1>8. ASSUME NEW x \in DOMAIN nodes \ C, NEW i \in DOMAIN nodes[x], nodes[x][i] \in C
      PROVE  FALSE
  <2>1. Has(nodes, nodes[x][i])
    BY DEF Has
  <2>2. PICK y \in C : \E j \in DOMAIN nodes[y] : nodes[y][j] = nodes[x][i]
    BY <1>6, <1>8, <2>1
  <2>3. y \in DOMAIN nodes /\ x \in DOMAIN nodes
    BY <1>5
  <2>4. y = x
    BY <1>1, <2>2, <2>3 DEF NodesOnce
  <2>. QED  BY <2>2, <2>4
<1>9. \A x \in DOMAIN nodes \ C : \A i \in DOMAIN nodes[x] :
        nodes[x][i] \in (DOMAIN nodes \ C) \cup Texts
  BY <1>3, <1>8
<1>10. \A k \in C : k \in hs \/ Has(nodes, k)
  BY <1>5, <1>6 DEF Has
<1>11. Untouched(DOMAIN nodes \ C) /\ DOMAIN nodes' \subseteq Nat
  BY <1>4, <1>5, <1>7, <1>9 DEF Untouched
<1>. QED  BY <1>10, <1>11 DEF C

-----------------------------------------------------------------------------
(* The operations.                                                          *)

(* A step of the hole strings that leaves alone what is in a list is no step
   of the log.                                                               *)
LEMMA HoleStutter ==
  ASSUME HeapOwned, UNCHANGED <<result, lists>>, DOMAIN nodes' \subseteq Nat,
         NEW C, Untouched(C), \A k \in DOMAIN nodes : Has(lists, k) => k \in C
  PROVE  Log' = Log
<1>1. \A q \in Results : Live(q)' <=> Live(q)
  BY DEF Live
<1>2. ASSUME NEW q \in Results, Live(q)
      PROVE  /\ result'[q].res = result[q].res /\ Messages(q)' = Messages(q)
             /\ \A j \in DOMAIN Messages(q) : Messages(q)[j] \in C \cup Consts
  <2>1. Messages(q)' = Messages(q)
    BY DEF Messages
  <2>2. \A j \in DOMAIN Messages(q) :
          Messages(q)[j] \in DOMAIN nodes \cup Consts /\ Has(lists, Messages(q)[j])
    BY <1>2, MessagesAre
  <2>. QED  BY <2>1, <2>2
<1>3. \A q \in Results : KeptAt(q)
  BY <1>1, <1>2, UntouchedKept
<1>. QED  BY <1>3, LogUnchanged

(* Hole strings the client works on are in no result.                        *)
LEMMA HolesStutter ==
  ASSUME HeapOwned,
         \/ HoleNew
         \/ \E h \in hand : HoleFree(h) \/ \E sub \in hand : HoleAppendSub(h, sub)
         \/ \E h \in hand, t \in Texts : HoleAppendText(h, t)
  PROVE  Log' = Log
<1>0. /\ Apart(nodes, lists, hand) /\ hand \subseteq DOMAIN nodes
  BY DEF HeapOwned, Owned, HeapShape
<1>1. CASE HoleNew
  <2>1. nodes' = With(nodes, NewHole, <<>>) /\ UNCHANGED <<result, lists>>
    BY <1>1 DEF HoleNew
  <2>2. Untouched(DOMAIN nodes) /\ DOMAIN nodes' \subseteq Nat
    BY <2>1, NewTouchesNone
  <2>. QED  BY <2>1, <2>2, HoleStutter
<1>2. ASSUME NEW h \in hand, NEW row, nodes' = [nodes EXCEPT ![h] = row],
             UNCHANGED <<result, lists>>
      PROVE  Log' = Log
  <2>1. Untouched(DOMAIN nodes \ {h}) /\ DOMAIN nodes' \subseteq Nat
    BY <1>2, HandTouchesItself
  <2>2. \A k \in DOMAIN nodes : Has(lists, k) => k \in DOMAIN nodes \ {h}
    BY <1>0 DEF Apart
  <2>. QED  BY <1>2, <2>1, <2>2, HoleStutter
<1>3. ASSUME NEW h \in hand, HoleFree(h)  PROVE Log' = Log
  <2>1. /\ nodes' = Freed({h}).nodes /\ UNCHANGED <<result, lists>>
        /\ {h} \in SUBSET DOMAIN nodes /\ \A k \in {h} : ~Has(nodes, k)
    BY <1>0, <1>3 DEF HoleFree, Apart
  <2>2. /\ Untouched(DOMAIN nodes \ FreedSet({h})) /\ DOMAIN nodes' \subseteq Nat
        /\ \A k \in FreedSet({h}) : k \in {h} \/ Has(nodes, k)
    BY <2>1, FreedTouches
  <2>3. \A k \in DOMAIN nodes : Has(lists, k) => k \in DOMAIN nodes \ FreedSet({h})
    BY <1>0, <2>2 DEF Apart
  <2>. QED  BY <2>1, <2>2, <2>3, HoleStutter
<1>4. ASSUME NEW h \in hand, NEW sub \in hand, HoleAppendSub(h, sub)  PROVE Log' = Log
  BY <1>2, <1>4 DEF HoleAppendSub
<1>5. ASSUME NEW h \in hand, NEW t \in Texts, HoleAppendText(h, t)  PROVE Log' = Log
  BY <1>2, <1>5 DEF HoleAppendText
<1>. QED  BY <1>1, <1>3, <1>4, <1>5

(* A step that changes one result, and no other list than that of it, leaves
   the others.                                                               *)
LEMMA OthersKept ==
  ASSUME HeapOwned, NEW r \in Results,
         \A q \in Results \ {r} : result'[q] = result[q],
         \A q \in Results \ {r} : Live(q) /\ result[q].list # None =>
           lists'[result[q].list] = lists[result[q].list],
         DOMAIN nodes' \subseteq Nat, NEW C, Untouched(C),
         \A q \in Results \ {r} : Live(q) =>
           \A j \in DOMAIN Messages(q) : Messages(q)[j] \in C \cup Consts
  PROVE  Abstract!OnlyAt(r)
<1>1. ASSUME NEW q \in Results \ {r}  PROVE KeptAt(q)
  <2>1. (Live(q)' <=> Live(q)) /\ (Live(q) => result'[q].res = result[q].res)
    BY DEF Live
  <2>2. Live(q) => Messages(q)' = Messages(q)
    BY DEF Messages
  <2>. QED  BY <2>1, <2>2, UntouchedKept
<1>. QED  BY <1>1, OnlyInLog

(* The list of a result that is alone is no other's.                         *)
LEMMA OwnList ==
  ASSUME HeapOwned, NEW r \in Results, NEW q \in Results, Live(r), Live(q), Alone(result, r),
         result[r].list # None, result[q].list = result[r].list
  PROVE  q = r
<1>1. result[q].cell = result[r].cell
  BY DEF HeapOwned, Owned, ListsOwned, Live
<1>. QED  BY <1>1 DEF Alone, Live

(* A list that is none of the lists there are is nobody's.                   *)
LEMMA ListsKept ==
  ASSUME HeapOwned, NEW r \in Results, NEW l, NEW row,
         \/ lists' = lists
         \/ /\ lists' = With(lists, l, row)
            /\ l \in DOMAIN lists => Live(r) /\ Alone(result, r) /\ result[r].list = l
  PROVE  \A q \in Results \ {r} : Live(q) /\ result[q].list # None =>
           lists'[result[q].list] = lists[result[q].list]
<1>2. SUFFICES ASSUME NEW q \in Results \ {r}, Live(q), result[q].list # None
               PROVE  lists'[result[q].list] = lists[result[q].list]
  OBVIOUS
<1>3. result[q].list \in DOMAIN lists
  BY <1>2, ResultFacts
<1>4. result[q].list # l \/ l \notin DOMAIN lists \/ lists' = lists
  <2>1. ASSUME result[q].list = l, l \in DOMAIN lists, lists' # lists  PROVE FALSE
    <3>1. Live(r) /\ Alone(result, r) /\ result[r].list = l /\ result[r].list # None
      BY <1>2, <2>1
    <3>. QED  BY <1>2, <2>1, <3>1, OwnList
  <2>. QED  BY <2>1
<1>. QED  BY <1>3, <1>4 DEF With

(* tinybuf_result_ok and tinybuf_result_err make an object, and so does whoever
   takes a reference for a copy.                                             *)
LEMMA MadeLog ==
  ASSUME HeapOwned, NEW r \in Results,
         \/ \E res \in 0 .. 1 : ResultOk(r, res)
         \/ \E res \in {0 - 1, 0}, items \in {<<>>} \cup {<<c>> : c \in Consts} : ResultErr(r, res, items)
         \/ \E s \in Results : Copy(r, s)
  PROVE  Abstract!Make(r)
<1>0. HeapShape(result, lists, nodes, hand, Kept, deleted) /\ Sharing(result, counts)
  BY DEF HeapOwned, Owned
<1> DEFINE Record == [res : {0 - 1, 0, 1}, list : Nat \cup {None}, cell : Nat, refs : 1 .. MaxRefs]
           Made(rec, l, items) ==
             /\ ~Live(r) /\ nodes' = nodes
             /\ result' = [result EXCEPT ![r] = rec]
             /\ lists' = lists \/ lists' = With(lists, l, items)
<1>1. \E rec \in Record, l \in Nat \ DOMAIN lists : \E items : Made(rec, l, items)
  <2>1. Fresh(DOMAIN lists) \in Nat /\ Fresh(DOMAIN lists) \notin DOMAIN lists
    BY <1>0, FreshIsNew DEF HeapShape
  <2>2. 1 \in 1 .. MaxRefs /\ Fresh(DOMAIN counts) \in Nat
    BY <1>0, FreshIsNew, ResultAssumption DEF Sharing
  <2>3. ASSUME NEW res \in 0 .. 1, ResultOk(r, res)
        PROVE  \E rec \in Record : Made(rec, Fresh(DOMAIN lists), <<>>)
    <3> DEFINE rec == NewResult(res, None)
    <3>1. rec \in Record
      BY <2>2 DEF NewResult
    <3>2. Made(rec, Fresh(DOMAIN lists), <<>>)
      BY <2>3 DEF ResultOk
    <3> HIDE DEF rec, Record, Made
    <3>. QED  BY <3>1, <3>2
  <2>4. ASSUME NEW res \in {0 - 1, 0}, NEW items, ResultErr(r, res, items)
        PROVE  \E rec \in Record : Made(rec, Fresh(DOMAIN lists), items)
    <3> DEFINE rec == NewResult(res, Fresh(DOMAIN lists))
    <3>1. rec \in Record
      BY <2>1, <2>2 DEF NewResult
    <3>2. Made(rec, Fresh(DOMAIN lists), items)
      BY <2>4 DEF ResultErr
    <3> HIDE DEF rec, Record, Made
    <3>. QED  BY <3>1, <3>2
  <2>5. ASSUME NEW s \in Results, Copy(r, s)
        PROVE  \E rec \in Record : Made(rec, Fresh(DOMAIN lists), <<>>)
    <3> DEFINE rec == [result[s] EXCEPT !.refs = 1]
    <3>1. rec \in Record
      <4>1. result[s] \in Record
        BY <2>5, ResultFacts DEF Copy
      <4>. QED  BY <2>2, <4>1
    <3>2. Made(rec, Fresh(DOMAIN lists), <<>>)
      BY <2>5 DEF Copy
    <3> HIDE DEF rec, Record, Made
    <3>. QED  BY <3>1, <3>2
  <2> HIDE DEF Record, Made
  <2>. QED  BY <2>1, <2>3, <2>4, <2>5
<1>p. PICK rec \in Record, l \in Nat \ DOMAIN lists : \E items : Made(rec, l, items)
  BY <1>1
<1>q. PICK items : Made(rec, l, items)
  BY <1>p
<1>2. rec # None
  BY NotNone
<1>3. result'[r] = rec /\ \A q \in Results \ {r} : result'[q] = result[q]
  BY <1>0, <1>q DEF HeapShape
<1>4. Untouched(DOMAIN nodes) /\ DOMAIN nodes' \subseteq Nat
  BY <1>q, NewTouchesNone
<1>5. \A q \in Results \ {r} : Live(q) =>
        \A j \in DOMAIN Messages(q) : Messages(q)[j] \in DOMAIN nodes \cup Consts
  BY MessagesAre
<1>6. \A q \in Results \ {r} : Live(q) /\ result[q].list # None =>
        lists'[result[q].list] = lists[result[q].list]
  BY <1>q, ListsKept
<1>7. Abstract!OnlyAt(r)
  BY <1>3, <1>4, <1>5, <1>6, OthersKept
<1>8. ~Live(r) /\ Live(r)'
  BY <1>q, <1>2, <1>3 DEF Live
<1>. QED  BY <1>7, <1>8, LogIs DEF Abstract!Make, Abstract!Live

(* Every operation that adds messages adds them behind those there are.      *)
LEMMA GivenLog ==
  ASSUME HeapOwned, NEW r \in Results, Live(r), Sole(r), NEW res \in {0 - 1, 0, 1},
         NEW A, NEW items \in Seq(A), AddItems(r, res, items),
         nodes' = nodes \/ \E row : nodes' = With(nodes, NewHole, row)
  PROVE  Abstract!Give(r)
<1>0. HeapShape(result, lists, nodes, hand, Kept, deleted)
  BY DEF HeapOwned, Owned
<1> DEFINE l == IF result[r].list = None THEN Fresh(DOMAIN lists) ELSE result[r].list
<1>1. /\ result' = [result EXCEPT ![r].list = l, ![r].res = res]
      /\ lists' = With(lists, l, Messages(r) \o items)
  BY DEF AddItems
<1>2. l \in Nat /\ (l \in DOMAIN lists => result[r].list = l)
  <2>1. Fresh(DOMAIN lists) \in Nat /\ Fresh(DOMAIN lists) \notin DOMAIN lists
    BY <1>0, FreshIsNew DEF HeapShape
  <2>2. result[r].list # None => result[r].list \in DOMAIN lists /\ result[r].list \in Nat
    BY <1>0, ResultFacts DEF HeapShape
  <2>. QED  BY <2>1, <2>2
<1> HIDE DEF l
<1>3. result[r] \in [res : {0 - 1, 0, 1}, list : Nat \cup {None}, cell : Nat, refs : 1 .. MaxRefs]
  BY ResultFacts
<1>4. /\ result'[r] = [result[r] EXCEPT !.list = l, !.res = res]
      /\ \A q \in Results \ {r} : result'[q] = result[q]
  BY <1>0, <1>1 DEF HeapShape
<1>5. /\ result'[r] \in [res : {0 - 1, 0, 1}, list : Nat \cup {None}, cell : Nat, refs : 1 .. MaxRefs]
      /\ result'[r].list = l
  BY <1>2, <1>3, <1>4
<1>6. Live(r)'
  BY <1>5, NotNone DEF Live
<1>7. Untouched(DOMAIN nodes) /\ DOMAIN nodes' \subseteq Nat
  BY NewTouchesNone
<1>8. \A q \in Results \ {r} : Live(q) =>
        \A j \in DOMAIN Messages(q) : Messages(q)[j] \in DOMAIN nodes \cup Consts
  BY MessagesAre
<1>9. \A q \in Results \ {r} : Live(q) /\ result[q].list # None =>
        lists'[result[q].list] = lists[result[q].list]
  <2>1. Alone(result, r)
    BY DEF Sole, Alone, Live
  <2>. QED  BY <1>1, <1>2, <2>1, ListsKept
<1>10. Abstract!OnlyAt(r)
  BY <1>4, <1>7, <1>8, <1>9, OthersKept
<1>11. Messages(r)' = Messages(r) \o items
  <2>1. None \notin Nat /\ lists'[l] = Messages(r) \o items
    BY <1>1, ResultFacts DEF With
  <2>. QED  BY <1>2, <1>5, <2>1 DEF Messages
<1>12. ASSUME NEW j \in DOMAIN Messages(r)
       PROVE  /\ j \in DOMAIN Messages(r)'
              /\ Messages(r)'[j] = Messages(r)[j]
              /\ Text(nodes', Messages(r)[j]) = Text(nodes, Messages(r)[j])
  <2>1. Messages(r) \in Seq(A \cup DOMAIN nodes \cup Consts) /\ items \in Seq(A \cup DOMAIN nodes \cup Consts)
    <3>1. Messages(r) \in Seq(DOMAIN nodes \cup Consts)
      BY MessagesAre
    <3>. QED  BY <3>1, SeqMono
  <2>2. j \in DOMAIN (Messages(r) \o items) /\ (Messages(r) \o items)[j] = Messages(r)[j]
    BY <2>1, ConcatCells
  <2>3. Messages(r)[j] \in DOMAIN nodes \cup Consts
    BY MessagesAre
  <2>. QED  BY <1>7, <1>11, <2>2, <2>3, UntouchedShown
<1>13. \A j \in DOMAIN Log[r].msgs : j \in DOMAIN Log'[r].msgs /\ Log'[r].msgs[j] = Log[r].msgs[j]
  <2>1. Log[r].msgs = Listing(nodes, Messages(r)) /\ Log'[r].msgs = Listing(nodes', Messages(r)')
    BY <1>6, LogAt
  <2>2. \A j \in DOMAIN Messages(r) :
          /\ j \in DOMAIN Listing(nodes', Messages(r)')
          /\ Listing(nodes', Messages(r)')[j] = Listing(nodes, Messages(r))[j]
    BY <1>12 DEF Listing
  <2>3. DOMAIN Listing(nodes, Messages(r)) = DOMAIN Messages(r)
    BY DEF Listing
  <2>. QED  BY <2>1, <2>2, <2>3
<1>. QED  BY <1>6, <1>10, <1>13, LogIs DEF Abstract!Give, Abstract!Live

(* A step that changes only the fields of one result, not its list.          *)
OneResult(r) ==
  /\ \A q \in Results \ {r} : result'[q] = result[q]
  /\ result'[r] \in [res : {0 - 1, 0, 1}, list : Nat \cup {None}, cell : Nat, refs : 1 .. MaxRefs]
  /\ result'[r].list = result[r].list
  /\ lists' = lists /\ nodes' = nodes

(* It changes the verdict at most: the messages stay.                       *)
LEMMA FieldsLog ==
  ASSUME HeapOwned, NEW r \in Results, Live(r), OneResult(r)
  PROVE  /\ Abstract!Give(r)
         /\ result'[r].res = result[r].res => Log' = Log
<1>1. Untouched(DOMAIN nodes) /\ DOMAIN nodes' \subseteq Nat
  BY NewTouchesNone DEF OneResult
<1>2. \A q \in Results : Live(q) =>
        \A j \in DOMAIN Messages(q) : Messages(q)[j] \in DOMAIN nodes \cup Consts
  BY MessagesAre
<1>3. Live(r)' /\ Messages(r)' = Messages(r)
  BY NotNone DEF OneResult, Live, Messages
<1>4. Abstract!OnlyAt(r)
  BY <1>1, <1>2, OthersKept DEF OneResult
<1>5. \A j \in DOMAIN Messages(r) : Text(nodes', Messages(r)[j]) = Text(nodes, Messages(r)[j])
  BY DEF OneResult
<1>6. Listing(nodes', Messages(r)') = Listing(nodes, Messages(r))
  BY <1>3 DEF OneResult
<1>7. Log[r].msgs = Log'[r].msgs
  BY <1>3, <1>6, LogAt
<1>8. Abstract!Give(r)
  BY <1>3, <1>4, <1>7, LogIs DEF Abstract!Give, Abstract!Live
<1>9. ASSUME result'[r].res = result[r].res  PROVE Log' = Log
  <2>1. ASSUME NEW q \in Results  PROVE KeptAt(q)
    <3>1. CASE q = r
      BY <1>3, <1>5, <1>9, <3>1 DEF KeptAt
    <3>2. CASE q # r
      BY <3>2 DEF OneResult, KeptAt, Live, Messages
    <3>. QED  BY <3>1, <3>2
  <2>. QED  BY <2>1, LogUnchanged
<1>. QED  BY <1>8, <1>9

(* tinybuf_result_ref only counts.                                           *)
LEMMA RefLog ==
  ASSUME HeapOwned, NEW r \in Results, Ref(r)
  PROVE  Log' = Log
<1>1. /\ Live(r) /\ result[r].refs < MaxRefs /\ lists' = lists /\ nodes' = nodes
      /\ result' = [result EXCEPT ![r] = [result[r] EXCEPT !.refs = result[r].refs + 1]]
  BY DEF Ref
<1>2. /\ ResultsTyped(result)
      /\ result[r] \in [res : {0 - 1, 0, 1}, list : Nat \cup {None}, cell : Nat, refs : 1 .. MaxRefs]
  BY <1>1, ResultFacts
<1>3. /\ result'[r] = [result[r] EXCEPT !.refs = result[r].refs + 1]
      /\ \A q \in Results \ {r} : result'[q] = result[q]
  BY <1>1, <1>2 DEF ResultsTyped
<1>4. result[r].refs + 1 \in 1 .. MaxRefs
  BY <1>1, <1>2, ResultAssumption
<1>5. OneResult(r) /\ result'[r].res = result[r].res
  BY <1>1, <1>2, <1>3, <1>4 DEF OneResult
<1>. QED  BY <1>1, <1>5, FieldsLog

(* tinybuf_result_unref: the last reference takes the object away, and what is
   freed with it is in no other result.                                      *)
LEMMA UnrefLog ==
  ASSUME HeapOwned, NEW r \in Results, Unref(r)
  PROVE  Log' = Log \/ Abstract!Release(r)
<1> DEFINE l == result[r].list
           S == ToSet(Messages(r)) \cap DOMAIN nodes
           c == result[r].cell
<1>0. /\ Live(r) /\ HeapShape(result, lists, nodes, hand, Kept, deleted)
      /\ Apart(nodes, lists, hand) /\ ListsOnce(lists) /\ ListsOwned(result, lists)
  BY DEF HeapOwned, Owned, Unref
<1>s. ResultsTyped(result) /\ Sharing(result, counts) /\ result[r] # None
  BY <1>0, ResultFacts DEF HeapOwned, Live
<1>1. CASE counts[c] > 1 /\ result[r].refs # 1
  <2>1. /\ result' = [result EXCEPT ![r] = [result[r] EXCEPT !.refs = result[r].refs - 1]]
        /\ lists' = lists /\ nodes' = nodes
    BY <1>1 DEF Unref
  <2>2. /\ ResultsTyped(result)
        /\ result[r] \in [res : {0 - 1, 0, 1}, list : Nat \cup {None}, cell : Nat, refs : 1 .. MaxRefs]
    BY <1>0, ResultFacts
  <2>3. /\ result'[r] = [result[r] EXCEPT !.refs = result[r].refs - 1]
        /\ \A q \in Results \ {r} : result'[q] = result[q]
    BY <2>1, <2>2 DEF ResultsTyped
  <2>4. result[r].refs - 1 \in 1 .. MaxRefs
    BY <1>1, <2>2, ResultAssumption
  <2>5. OneResult(r) /\ result'[r].res = result[r].res
    BY <2>1, <2>2, <2>3, <2>4 DEF OneResult
  <2>. QED  BY <1>0, <2>5, FieldsLog
<1>3. CASE counts[c] > 1 /\ result[r].refs = 1
  <2>1. result' = [result EXCEPT ![r] = None] /\ lists' = lists /\ nodes' = nodes
    BY <1>3 DEF Unref
  <2>2. ~Live(r)' /\ \A q \in Results \ {r} : result'[q] = result[q]
    BY <1>s, <2>1 DEF ResultsTyped, Live
  <2>3. Untouched(DOMAIN nodes) /\ DOMAIN nodes' \subseteq Nat
    BY <2>1, NewTouchesNone
  <2>4. \A q \in Results \ {r} : Live(q) =>
          \A j \in DOMAIN Messages(q) : Messages(q)[j] \in DOMAIN nodes \cup Consts
    BY MessagesAre
  <2>5. Abstract!OnlyAt(r)
    BY <2>1, <2>2, <2>3, <2>4, OthersKept
  <2>. QED  BY <1>0, <2>2, <2>5, LogIs DEF Abstract!Release, Abstract!Live
<1>2. CASE ~(counts[c] > 1)
  <2>a. Alone(result, r)
    BY <1>s, <1>2, CountFreed
  <2>1. /\ result' = [result EXCEPT ![r] = None] /\ lists' = Without(lists, {l})
        /\ nodes' = Freed(S).nodes
    BY <1>2 DEF Unref
  <2>2. ~Live(r)' /\ \A q \in Results \ {r} : result'[q] = result[q]
    BY <1>0, <2>1 DEF HeapShape, Live
  <2>3. ASSUME NEW h \in S
        PROVE  /\ h \in DOMAIN nodes /\ h \in Nat /\ ~Has(nodes, h)
               /\ l \in DOMAIN lists /\ \E j \in DOMAIN lists[l] : lists[l][j] = h
    <3>1. PICK j \in DOMAIN Messages(r) : Messages(r)[j] = h
      BY DEF ToSet
    <3>2. Has(lists, h) /\ l \in DOMAIN lists /\ Messages(r) = lists[l]
      BY <1>0, <3>1, MessagesAre
    <3>. QED  BY <1>0, <3>1, <3>2 DEF Apart, HeapShape
  <2>4. S \in SUBSET DOMAIN nodes /\ \A h \in S : ~Has(nodes, h)
    BY <2>3
  <2>5. nodes' = Freed(S).nodes
    BY <2>1
  <2> HIDE DEF S, l
  <2>6. /\ Untouched(DOMAIN nodes \ FreedSet(S)) /\ DOMAIN nodes' \subseteq Nat
        /\ \A k \in FreedSet(S) : k \in S \/ Has(nodes, k)
    BY <2>4, <2>5, FreedTouches
  <2>7. ASSUME NEW q \in Results \ {r}, Live(q), NEW j \in DOMAIN Messages(q)
        PROVE  Messages(q)[j] \in (DOMAIN nodes \ FreedSet(S)) \cup Consts
    <3> DEFINE m == result[q].list
    <3>1. /\ Messages(q)[j] \in DOMAIN nodes \cup Consts
          /\ m # None /\ m \in DOMAIN lists /\ Messages(q) = lists[m]
          /\ Has(lists, Messages(q)[j])
      BY <2>7, MessagesAre
    <3>2. m # l
      BY <1>0, <2>a, <2>7, <3>1, OwnList DEF l
    <3>3. SUFFICES ASSUME Messages(q)[j] \in FreedSet(S), Messages(q)[j] \in DOMAIN nodes
                   PROVE  FALSE
      BY <3>1
    <3>4. ~Has(nodes, Messages(q)[j])
      BY <1>0, <3>1, <3>3 DEF Apart
    <3>5. Messages(q)[j] \in S
      BY <2>6, <3>3, <3>4
    <3>6. PICK i \in DOMAIN lists[l] : lists[l][i] = lists[m][j] /\ lists[m][j] \in Nat /\ l \in DOMAIN lists
      BY <2>3, <3>1, <3>5
    <3>. QED  BY <1>0, <2>7, <3>1, <3>2, <3>6 DEF ListsOnce
  <2>8. \A q \in Results \ {r} : Live(q) /\ result[q].list # None =>
          lists'[result[q].list] = lists[result[q].list]
    <3>1. SUFFICES ASSUME NEW q \in Results \ {r}, Live(q), result[q].list # None
                   PROVE  lists'[result[q].list] = lists[result[q].list]
      OBVIOUS
    <3>2. result[q].list \in DOMAIN lists
      BY <3>1, ResultFacts
    <3>3. result[q].list # l
      BY <1>0, <2>a, <3>1, OwnList DEF l
    <3>. QED  BY <2>1, <3>2, <3>3 DEF Without
  <2>9. Abstract!OnlyAt(r)
    BY <2>2, <2>6, <2>7, <2>8, OthersKept
  <2>. QED  BY <1>0, <2>2, <2>9, LogIs DEF Abstract!Release, Abstract!Live
<1>. QED  BY <1>1, <1>2, <1>3

(* The listing of two rows, one behind the other.                            *)
LEMMA ListingConcat ==
  ASSUME NEW N, NEW A, NEW s \in Seq(A), NEW u \in Seq(A)
  PROVE  Listing(N, s \o u) = Listing(N, s) \o Listing(N, u)
<1> DEFINE a == Listing(N, s)
           b == Listing(N, u)
           c == Listing(N, s \o u)
           T == {Text(N, s[j]) : j \in DOMAIN s} \cup {Text(N, u[j]) : j \in DOMAIN u}
<1>1. Len(s) \in Nat /\ DOMAIN s = 1 .. Len(s) /\ Len(u) \in Nat /\ DOMAIN u = 1 .. Len(u)
  BY LenProperties
<1>2. /\ a \in [1 .. Len(s) -> T] /\ b \in [1 .. Len(u) -> T]
      /\ \A j \in DOMAIN s : a[j] = Text(N, s[j])
      /\ \A j \in DOMAIN u : b[j] = Text(N, u[j])
  BY <1>1 DEF Listing
<1> HIDE DEF a, b, T
<1>3. a \in Seq(T) /\ b \in Seq(T)
  <2>1. ASSUME NEW n \in Nat, NEW f \in [1 .. n -> T]  PROVE f \in Seq(T)
    BY SeqDef
  <2>. QED  BY <1>1, <1>2, <2>1
<1>4. Len(a) = Len(s) /\ Len(b) = Len(u) /\ DOMAIN a = DOMAIN s /\ DOMAIN b = DOMAIN u
  <2>1. DOMAIN a = 1 .. Len(s) /\ DOMAIN b = 1 .. Len(u)
    BY <1>2
  <2>2. Len(a) \in Nat /\ DOMAIN a = 1 .. Len(a) /\ Len(b) \in Nat /\ DOMAIN b = 1 .. Len(b)
    BY <1>3, LenProperties
  <2>. QED  BY <1>1, <2>1, <2>2
<1>5. /\ DOMAIN (s \o u) = 1 .. Len(s) + Len(u)
      /\ \A k \in DOMAIN (s \o u) :
           \/ k \in DOMAIN s /\ (s \o u)[k] = s[k]
           \/ k - Len(s) \in DOMAIN u /\ k = Len(s) + (k - Len(s)) /\ (s \o u)[k] = u[k - Len(s)]
  BY ConcatCells
<1>6. /\ a \o b \in Seq(T)
      /\ DOMAIN (a \o b) = 1 .. Len(a) + Len(b)
      /\ \A k \in DOMAIN a : (a \o b)[k] = a[k]
      /\ \A k \in DOMAIN b : (a \o b)[Len(a) + k] = b[k]
  BY <1>3, ConcatCells
<1>7. DOMAIN c = DOMAIN (s \o u) /\ \A k \in DOMAIN (s \o u) : c[k] = Text(N, (s \o u)[k])
  BY DEF Listing
<1> HIDE DEF c
<1>8. ASSUME NEW k \in DOMAIN (s \o u)  PROVE c[k] = (a \o b)[k]
  <2>1. CASE k \in DOMAIN s /\ (s \o u)[k] = s[k]
    BY <1>2, <1>4, <1>6, <1>7, <2>1
  <2>2. CASE k - Len(s) \in DOMAIN u /\ k = Len(s) + (k - Len(s)) /\ (s \o u)[k] = u[k - Len(s)]
    <3>1. c[k] = b[k - Len(s)]
      BY <1>2, <1>7, <2>2
    <3>2. (a \o b)[Len(a) + (k - Len(s))] = b[k - Len(s)]
      BY <1>4, <1>6, <2>2
    <3>. QED  BY <1>4, <2>2, <3>1, <3>2
  <2>. QED  BY <1>5, <2>1, <2>2
<1>9. c \in Seq(T) /\ Len(c) = Len(a) + Len(b)
  <2>1. DOMAIN c = 1 .. Len(a) + Len(b) /\ Len(a) + Len(b) \in Nat
    BY <1>1, <1>4, <1>5, <1>7
  <2>2. \A k \in DOMAIN c : c[k] \in T
    <3>1. a \o b \in [1 .. Len(a \o b) -> T] /\ DOMAIN (a \o b) = 1 .. Len(a \o b)
      BY <1>6, LenProperties
    <3>. QED  BY <1>4, <1>5, <1>6, <1>7, <1>8, <3>1
  <2>3. c \in [1 .. Len(a) + Len(b) -> T]
    <3>1. c = [k \in DOMAIN (s \o u) |-> Text(N, (s \o u)[k])]
      BY DEF c, Listing
    <3>. QED  BY <2>1, <2>2, <3>1
  <2>4. c \in Seq(T)
    BY <2>1, <2>3, SeqDef
  <2>. QED  BY <2>1, <2>4, LenProperties
<1>10. Len(a \o b) = Len(a) + Len(b)
  BY <1>3, ConcatProperties
<1>11. c = a \o b
  <2>1. \A k \in 1 .. Len(c) : c[k] = (a \o b)[k]
    BY <1>4, <1>5, <1>8, <1>9
  <2>. QED  BY <1>6, <1>9, <1>10, <2>1, SeqEqual
<1>. QED  BY <1>11 DEF a, b, c

(* tinybuf_result_append_merge, in each of its cases: the messages of s come
   behind those of d, and s has none.                                        *)
LEMMA MergedMessages ==
  ASSUME HeapOwned, NEW d \in Results, NEW s \in Results, Merge(d, s)
  PROVE  /\ Live(d) /\ Live(s) /\ Live(d)' /\ Live(s)' /\ nodes' = nodes
         /\ Messages(d)' = Messages(d) \o Messages(s) /\ Messages(s)' = <<>>
         /\ result'[d].res = Merged(result[d].res, result[s].res)
         /\ result'[s].res = 0
         /\ \A q \in Results \ {d, s} : result'[q] = result[q]
         /\ \A q \in Results \ {d, s} : Live(q) /\ result[q].list # None =>
              lists'[result[q].list] = lists[result[q].list]
<1> DEFINE a == result[d].list
           b == result[s].list
           m == MergeMessages(d, s)
<1>0. /\ Live(d) /\ Live(s) /\ d # s /\ nodes' = nodes
      /\ result' = [result EXCEPT ![d].list = m.list, ![s].list = m.left,
                                  ![d].res = Merged(@, result[s].res), ![s].res = 0]
      /\ lists' = m.lists
      /\ Alone(result, d) /\ Alone(result, s)
  BY DEF Merge, Sole, Alone, Live
<1>1. /\ ResultsTyped(result) /\ None \notin Nat
      /\ result[d] \in [res : {0 - 1, 0, 1}, list : Nat \cup {None}, cell : Nat, refs : 1 .. MaxRefs]
      /\ result[s] \in [res : {0 - 1, 0, 1}, list : Nat \cup {None}, cell : Nat, refs : 1 .. MaxRefs]
  BY <1>0, ResultFacts
<1>3. /\ a # None => a \in DOMAIN lists /\ Messages(d) = lists[a]
      /\ b # None => b \in DOMAIN lists /\ Messages(s) = lists[b]
      /\ a = None => Messages(d) = <<>>
      /\ b = None => Messages(s) = <<>>
  BY <1>0, ResultFacts DEF Messages
<1>4. a # None /\ b # None => a # b
  BY <1>0, OwnList
<1>5. Messages(d) \in Seq(DOMAIN nodes \cup Consts) /\ Messages(s) \in Seq(DOMAIN nodes \cup Consts)
  BY <1>0, MessagesAre
<1> HIDE DEF a, b, m
<1>6. /\ result'[d] = [result[d] EXCEPT !.list = m.list, !.res = Merged(result[d].res, result[s].res)]
      /\ result'[s] = [result[s] EXCEPT !.list = m.left, !.res = 0]
      /\ \A q \in Results \ {d, s} : result'[q] = result[q]
  BY <1>0, <1>1 DEF ResultsTyped
<1>7. /\ m.list = IF b = None THEN a ELSE IF a = None THEN b ELSE a
      /\ m.left = IF a = None \/ b = None THEN None ELSE b
      /\ m.lists = IF a = None \/ b = None THEN lists
                   ELSE [lists EXCEPT ![a] = lists[a] \o Messages(s), ![b] = <<>>]
  BY <1>3 DEF MergeMessages, a, b, m
<1>8. a \in Nat \cup {None} /\ b \in Nat \cup {None}
  BY <1>1 DEF a, b
<1>9. Merged(result[d].res, result[s].res) \in {0 - 1, 0, 1}
  BY DEF Merged
<1>10. /\ result'[d] \in [res : {0 - 1, 0, 1}, list : Nat \cup {None}, cell : Nat, refs : 1 .. MaxRefs]
       /\ result'[s] \in [res : {0 - 1, 0, 1}, list : Nat \cup {None}, cell : Nat, refs : 1 .. MaxRefs]
       /\ result'[d].list = m.list /\ result'[s].list = m.left
       /\ result'[d].res = Merged(result[d].res, result[s].res) /\ result'[s].res = 0
  BY ZenonT(60), <1>1, <1>6, <1>7, <1>8, <1>9
<1>11. Live(d)' /\ Live(s)'
  BY <1>10, NotNone DEF Live
<1>12. Messages(d)' = Messages(d) \o Messages(s) /\ Messages(s)' = <<>>
  <2>1. /\ Messages(d)' = IF m.list = None THEN <<>> ELSE lists'[m.list]
        /\ Messages(s)' = IF m.left = None THEN <<>> ELSE lists'[m.left]
    BY <1>10 DEF Messages
  <2>2. Messages(d) \o <<>> = Messages(d) /\ <<>> \o Messages(s) = Messages(s)
    BY <1>5, ConcatEmptySeq
  <2>3. CASE b = None
    BY <1>0, <1>3, <1>7, <2>1, <2>2, <2>3
  <2>4. CASE b # None /\ a = None
    BY <1>0, <1>3, <1>7, <2>1, <2>2, <2>4
  <2>5. CASE b # None /\ a # None
    <3>1. lists' = [lists EXCEPT ![a] = lists[a] \o Messages(s), ![b] = <<>>]
      BY <1>0, <1>7, <2>5
    <3>2. lists'[a] = lists[a] \o Messages(s) /\ lists'[b] = <<>>
      BY <1>3, <1>4, <2>5, <3>1
    <3>. QED  BY <1>3, <1>7, <2>1, <2>5, <3>2
  <2>. QED  BY <2>3, <2>4, <2>5
<1>13. ASSUME NEW q \in Results \ {d, s}, Live(q), result[q].list # None
       PROVE  lists'[result[q].list] = lists[result[q].list]
  <2>1. result[q].list \in DOMAIN lists
    BY <1>13, ResultFacts
  <2>2. result[q].list # a /\ result[q].list # b
    BY <1>0, <1>13, OwnList DEF a, b
  <2>. QED  BY <1>0, <1>7, <2>1, <2>2
<1>. QED  BY <1>0, <1>6, <1>10, <1>11, <1>12, <1>13

(* A merge is the one of the log: the verdict is a success only of two.     *)
LEMMA MergedLog ==
  ASSUME HeapOwned, NEW d \in Results, NEW s \in Results, Merge(d, s)
  PROVE  Abstract!Merge(d, s)
<1>0. d # s
  BY DEF Merge
<1>1. /\ Live(d) /\ Live(s) /\ Live(d)' /\ Live(s)' /\ nodes' = nodes
      /\ Messages(d)' = Messages(d) \o Messages(s) /\ Messages(s)' = <<>>
      /\ result'[d].res = Merged(result[d].res, result[s].res)
      /\ result'[s].res = 0
      /\ \A q \in Results \ {d, s} : result'[q] = result[q]
      /\ \A q \in Results \ {d, s} : Live(q) /\ result[q].list # None =>
           lists'[result[q].list] = lists[result[q].list]
  BY MergedMessages
<1>2. ASSUME NEW q \in Results \ {d, s}  PROVE KeptAt(q)
  <2>1. (Live(q)' <=> Live(q)) /\ (Live(q) => result'[q].res = result[q].res)
    BY <1>1 DEF Live
  <2>2. Live(q) => Messages(q)' = Messages(q)
    BY <1>1 DEF Messages
  <2>. QED  BY <1>1, <2>1, <2>2 DEF KeptAt
<1>3. Messages(d) \in Seq(DOMAIN nodes \cup Consts) /\ Messages(s) \in Seq(DOMAIN nodes \cup Consts)
  BY <1>1, MessagesAre
<1>4. /\ Listing(nodes', Messages(d)') = Listing(nodes, Messages(d)) \o Listing(nodes, Messages(s))
      /\ Listing(nodes', Messages(s)') = <<>>
  <2>1. Listing(nodes, Messages(d) \o Messages(s))
          = Listing(nodes, Messages(d)) \o Listing(nodes, Messages(s))
    BY <1>3, ListingConcat
  <2>2. Listing(nodes, <<>>) = <<>>
    BY DEF Listing
  <2>. QED  BY <1>1, <2>1, <2>2
<1>5. /\ Log'[d] = [ok |-> Log[d].ok /\ Log[s].ok, msgs |-> Log[d].msgs \o Log[s].msgs]
      /\ Log'[s] = [ok |-> FALSE, msgs |-> <<>>]
  <2>1. /\ Log[d].ok = (result[d].res > 0) /\ Log[d].msgs = Listing(nodes, Messages(d))
        /\ Log[s].ok = (result[s].res > 0) /\ Log[s].msgs = Listing(nodes, Messages(s))
    BY <1>1, LogAt
  <2>2. /\ Log'[d] = [ok |-> result'[d].res > 0, msgs |-> Listing(nodes', Messages(d)')]
        /\ Log'[s] = [ok |-> result'[s].res > 0, msgs |-> Listing(nodes', Messages(s)')]
    BY <1>1, LogIs
  <2>3. /\ result[d].res \in {0 - 1, 0, 1} /\ result[s].res \in {0 - 1, 0, 1}
    BY <1>1, ResultFacts
  <2>4. (result'[d].res > 0) = (result[d].res > 0 /\ result[s].res > 0)
    BY <1>1, <2>3 DEF Merged
  <2>5. (result'[s].res > 0) = FALSE
    BY <1>1
  <2>6. (result'[d].res > 0) = (Log[d].ok /\ Log[s].ok)
    BY <2>1, <2>4
  <2>. QED  BY <1>4, <2>1, <2>2, <2>5, <2>6
<1>6. /\ d \in DOMAIN Log /\ s \in DOMAIN Log /\ DOMAIN Log' = DOMAIN Log
      /\ \A q \in DOMAIN Log \ {d, s} : Log'[q] = Log[q]
  <2>1. d \in DOMAIN Log /\ s \in DOMAIN Log /\ d \in DOMAIN Log' /\ s \in DOMAIN Log'
    BY <1>1, LogIs
  <2>2. \A q \in Results \ {d, s} : (q \in DOMAIN Log' <=> q \in DOMAIN Log)
                                    /\ (q \in DOMAIN Log => Log'[q] = Log[q])
    BY <1>2, KeptInLog
  <2>3. \A q : q \in DOMAIN Log \/ q \in DOMAIN Log' => q \in Results
    BY LogIs
  <2>. QED  BY <2>1, <2>2, <2>3
<1>7. Log' = [Log EXCEPT ![d] = [ok |-> Log[d].ok /\ Log[s].ok, msgs |-> Log[d].msgs \o Log[s].msgs],
                         ![s] = [ok |-> FALSE, msgs |-> <<>>]]
  <2>1. Log = [q \in DOMAIN Log |-> Log[q]] /\ Log' = [q \in DOMAIN Log' |-> Log'[q]]
    BY LogIs
  <2>. QED  BY <1>0, <1>5, <1>6, <2>1
<1>. QED  BY <1>0, <1>6, <1>7 DEF Abstract!Merge, Abstract!Live

(* No result, no log.                                                        *)
LEMMA InitLog == InitHeap => Abstract!Init
<1>1. SUFFICES ASSUME InitHeap PROVE Log = [r \in {} |-> <<>>]
  BY DEF Abstract!Init
<1>2. \A r : r \notin DOMAIN Log
  BY <1>1, LogIs DEF InitHeap, Live
<1>3. DOMAIN Log = {}
  BY <1>2
<1>4. Log = [r \in DOMAIN Log |-> Log[r]]
  BY LogIs
<1>. QED  BY <1>3, <1>4

(* Where no part of the heap changes, nor does the log.                      *)
LEMMA HeapStutter == UNCHANGED heap => Log' = Log
<1>1. SUFFICES ASSUME UNCHANGED <<result, lists, nodes>> PROVE Log' = Log
  BY DEF heap
<1>2. ASSUME NEW q \in Results PROVE KeptAt(q)
  <2>1. result' = result /\ lists' = lists /\ nodes' = nodes
    BY <1>1
  <2>. QED  BY <2>1 DEF KeptAt, Live, Messages
<1>. QED  BY <1>2, LogUnchanged

(* Every step of a client is one of the log's, or none.                      *)
LEMMA ClientLog ==
  ASSUME HeapOwned, Client
  PROVE  Log' = Log \/ Abstract!Next
<1>1. CASE \/ HoleNew
           \/ \E h \in hand : HoleFree(h) \/ \E sub \in hand : HoleAppendSub(h, sub)
           \/ \E h \in hand, t \in Texts : HoleAppendText(h, t)
  BY <1>1, HolesStutter
<1>2. ASSUME NEW r \in Results,
             \/ \E res \in 0 .. 1 : ResultOk(r, res)
             \/ \E res \in {0 - 1, 0} : ResultErr(r, res, <<>>) \/ \E c \in Consts : ResultErr(r, res, <<c>>)
             \/ \E s \in Results : Copy(r, s)
      PROVE  Abstract!Next
  <2>1. Abstract!Make(r)
    <3>1. CASE \E res \in 0 .. 1 : ResultOk(r, res)
      BY <3>1, MadeLog
    <3>2. ASSUME NEW res \in {0 - 1, 0}, NEW items \in {<<>>} \cup {<<c>> : c \in Consts},
                 ResultErr(r, res, items)
          PROVE  Abstract!Make(r)
      BY <3>2, MadeLog
    <3>3. CASE \E s \in Results : Copy(r, s)
      BY <3>3, MadeLog
    <3>. QED  BY <1>2, <3>1, <3>2, <3>3
  <2>. QED  BY <2>1 DEF Abstract!Next
<1>3. ASSUME NEW r \in Results,
             \/ \E c \in Consts : AddMsgConst(r, c)
             \/ \E t \in Texts : AddMsg(r, t)
             \/ \E h \in hand : AddHoleMsg(r, h)
      PROVE  Abstract!Next
  <2>1. PICK x : /\ Live(r) /\ Sole(r) /\ AddItems(r, result[r].res, <<x>>)
                 /\ nodes' = nodes \/ \E row : nodes' = With(nodes, NewHole, row)
    BY <1>3 DEF AddMsgConst, AddMsg, AddHoleMsg, Room
  <2>2. result[r].res \in {0 - 1, 0, 1}
    BY <2>1, ResultFacts
  <2>3. <<x>> \in Seq({x})
    OBVIOUS
  <2>4. Abstract!Give(r)
    BY <2>1, <2>2, <2>3, GivenLog
  <2>. QED  BY <2>4 DEF Abstract!Next
<1>4. ASSUME NEW r \in Results, Ref(r) \/ Unref(r) \/ \E s \in Results : Merge(r, s)
      PROVE  Log' = Log \/ Abstract!Next
  <2>1. CASE Ref(r)
    BY <2>1, RefLog
  <2>2. CASE Unref(r)
    BY <2>2, UnrefLog DEF Abstract!Next
  <2>3. ASSUME NEW s \in Results, Merge(r, s)  PROVE Abstract!Next
    BY <2>3, MergedLog DEF Abstract!Next
  <2>. QED  BY <1>4, <2>1, <2>2, <2>3
<1>. QED  BY <1>1, <1>2, <1>3, <1>4 DEF Client

-----------------------------------------------------------------------------
(* The registries.                                                          *)

(* An entry of the tables names its own type, whoever registered it.        *)
Provider(n) == <<IF n \in Customs THEN "custom" ELSE "object", n>>
Entry(n) == [by : {Provider(n)}, writes : BOOLEAN]
Table == [Names -> {None} \cup UNION {Entry(n) : n \in Names}]

Tables ==
  /\ plugins \in Seq(Descriptors) /\ map \in Maps
  /\ customs \in Table /\ objects \in Table
  /\ \A n \in Names : customs[n] \in Entry(n) \cup {None} /\ objects[n] \in Entry(n) \cup {None}

(* The index a value remembers is the one of its plugin in the map, or -1.   *)
Remembers(index, by) ==
  by # None =>
    IF by \in ToSet(map) THEN index + 1 \in DOMAIN map /\ map[index + 1] = by ELSE index = 0 - 1

Values == [tag : Tags \cup {0 - 1, 0}, index : (0 - 1) .. Cardinality(Guids),
           null : BOOLEAN, by : Guids \cup {None}]

ValueSound == value \in Values /\ Remembers(value.index, value.by)

(* What a plain box hides is not asked for; every other one was written by the
   plugin of that guid or by an entry of that name, and entries stay.        *)
Writer(name, by) ==
  \/ name \in Guids /\ by = Plugin(name)
  \/ name \in Names /\ by = Provider(name) /\ (customs[name] # None \/ objects[name] # None)

BoxSound ==
  box # None =>
    /\ box.name \in Guids \cup Names
    /\ box.by = Plain \/ Writer(box.name, box.by)

(* The invariant that every step keeps.                                      *)
IInv == HeapOwned /\ Tables /\ ValueSound /\ BoxSound

-----------------------------------------------------------------------------
(* The indexes.                                                             *)

(* The first plugin of a tag.                                               *)
LEMMA ByTag ==
  ASSUME plugins \in Seq(Descriptors), NEW tag
  PROVE  LET i == plugin_list_index_by_tag(tag)
         IN  \/ i = 0 /\ \A j \in DOMAIN plugins : tag \notin ToSet(plugins[j].tags)
             \/ i \in DOMAIN plugins /\ tag \in ToSet(plugins[i].tags)
<1> DEFINE I == {i \in 1 .. Len(plugins) : tag \in ToSet(plugins[i].tags)}
<1>1. plugin_list_index_by_tag(tag) = IF I # {} THEN Min(I) ELSE 0
  BY DEF plugin_list_index_by_tag, SelectInSeq
<1>2. DOMAIN plugins = 1 .. Len(plugins) /\ I \in SUBSET Nat
  BY LenProperties
<1>3. I # {} => Min(I) \in I
  <2> HIDE DEF I
  <2>. QED  BY <1>2, MinOf
<1>. QED  BY <1>1, <1>2, <1>3

(* The first plugin of a guid.                                              *)
LEMMA ByGuid ==
  ASSUME plugins \in Seq(Descriptors), NEW g
  PROVE  LET i == plugin_list_index_by_guid(g)
         IN  \/ i = 0 /\ (g # None => ~Registered(g))
             \/ i \in DOMAIN plugins /\ i # 0 /\ g # None /\ plugins[i].guid = g
<1> DEFINE I == {i \in 1 .. Len(plugins) : g # None /\ plugins[i].guid = g}
<1>1. plugin_list_index_by_guid(g) = IF I # {} THEN Min(I) ELSE 0
  BY DEF plugin_list_index_by_guid, SelectInSeq
<1>2. DOMAIN plugins = 1 .. Len(plugins) /\ I \in SUBSET Nat
  BY LenProperties
<1>3. I # {} => Min(I) \in I
  <2> HIDE DEF I
  <2>. QED  BY <1>2, MinOf
<1>. QED  BY <1>1, <1>2, <1>3 DEF Registered

(* There are finitely many guids.                                           *)
LEMMA GuidsFinite == Cardinality(Guids) \in Nat
<1> DEFINE All == {d.guid : d \in Descriptors}
           f == [d \in Descriptors |-> d.guid]
<1>1. f \in Surjection(Descriptors, All)
  BY DEF Surjection
<1>2. IsFiniteSet(All)
  BY <1>1, FS_Surjection, PluginsAssumption
<1>3. IsFiniteSet(Guids)
  BY <1>2, FS_Subset DEF Guids
<1>. QED  BY <1>3, FS_CardinalityType

(* The map is a row of guids, no longer than there are.                     *)
LEMMA MapIsSeq ==
  ASSUME map \in Maps
  PROVE  /\ map \in Seq(Guids) /\ DOMAIN map = 1 .. Len(map)
         /\ Len(map) \in 0 .. Cardinality(Guids)
<1>1. PICK m \in 0 .. Cardinality(Guids) : map \in [1 .. m -> Guids]
  BY DEF Maps, SeqOf
<1>2. m \in Nat
  BY GuidsFinite
<1>3. map \in Seq(Guids) /\ Len(map) = m
  BY <1>1, <1>2
<1>. QED  BY <1>1, <1>3, LenProperties

(* The run time index of a tag is the one of its plugin.                    *)
LEMMA IndexOfTag ==
  ASSUME Tables, NEW i \in DOMAIN plugins, NEW tag \in ToSet(plugins[i].tags)
  PROVE  /\ runtime_index_by_tag(tag) \in (0 - 1) .. Cardinality(Guids)
         /\ Remembers(runtime_index_by_tag(tag), plugins[i].guid)
<1> DEFINE k == plugin_list_index_by_tag(tag)
           g == plugins[i].guid
           J == {j \in 1 .. Len(map) : map[j] = g}
<1>1. /\ plugins \in Seq(Descriptors) /\ DOMAIN plugins = 1 .. Len(plugins)
      /\ map \in Seq(Guids) /\ DOMAIN map = 1 .. Len(map)
      /\ Len(map) \in 0 .. Cardinality(Guids) /\ Cardinality(Guids) \in Nat
  BY MapIsSeq, GuidsFinite, LenProperties DEF Tables
<1>2. k \in DOMAIN plugins /\ tag \in ToSet(plugins[k].tags)
  BY <1>1, ByTag
<1>3. plugins[k] = plugins[i]
  <2>1. plugins[k] \in Descriptors /\ plugins[i] \in Descriptors
    BY <1>1, <1>2
  <2>. QED  BY <1>2, <2>1, PluginsAssumption
<1>4. k # 0
  BY <1>1, <1>2
<1>5. runtime_index_by_tag(tag) = (IF J # {} THEN Min(J) ELSE 0) - 1
  <2>1. {j \in 1 .. Len(map) : k # 0 /\ map[j] = plugins[k].guid} = J
    BY <1>3, <1>4
  <2>. QED  BY <2>1 DEF runtime_index_by_tag, SelectInSeq
<1>6. J # {} => Min(J) \in J
  <2>1. J \in SUBSET Nat
    BY <1>1
  <2> HIDE DEF J
  <2>. QED  BY <2>1, MinOf
<1>7. g \in ToSet(map) <=> J # {}
  BY <1>1 DEF ToSet
<1>8. CASE J # {}
  <2>1. Min(J) \in 1 .. Len(map) /\ map[Min(J)] = g /\ runtime_index_by_tag(tag) = Min(J) - 1
    BY <1>5, <1>6, <1>8
  <2> HIDE DEF J, g
  <2>2. g \in ToSet(map)
    BY <1>7, <1>8
  <2>3. Remembers(runtime_index_by_tag(tag), g)
    BY <1>1, <2>1, <2>2 DEF Remembers
  <2>. QED  BY <1>1, <2>1, <2>3 DEF g
<1>9. CASE J = {}
  BY <1>1, <1>5, <1>7, <1>9 DEF Remembers
<1>. QED  BY <1>8, <1>9

-----------------------------------------------------------------------------
(* What a step leaves alone.                                                *)

(* Texts, lists and results stay owned.                                     *)
LEMMA HeapKept == ASSUME HeapOwned, UNCHANGED heap  PROVE HeapOwned'
<1>1. UNCHANGED <<result, counts, lists, nodes, hand, given, lost, deleted>>
  BY DEF heap
<1>. QED  BY <1>1 DEF HeapOwned, Kept

(* The tables stay tables.                                                  *)
LEMMA TablesKept == ASSUME Tables, UNCHANGED registry  PROVE Tables'
<1>1. UNCHANGED <<plugins, map, customs, objects>>
  BY DEF registry
<1>. QED  BY <1>1 DEF Tables

(* A value remembers as long as the map is the same.                        *)
LEMMA ValueKept == ASSUME ValueSound, UNCHANGED <<map, value>>  PROVE ValueSound'
  BY DEF ValueSound, Remembers

(* A box keeps its writer as long as the entries stay.                      *)
LEMMA BoxKept ==
  ASSUME BoxSound, UNCHANGED box,
         \A n \in Names : /\ customs[n] # None => customs'[n] # None
                          /\ objects[n] # None => objects'[n] # None
  PROVE  BoxSound'
<1>1. ASSUME box # None
      PROVE  /\ box.name \in Guids \cup Names
             /\ box.by = Plain \/ Writer(box.name, box.by)'
  BY <1>1 DEF BoxSound, Writer
<1>. QED  BY <1>1 DEF BoxSound

(* An entry is not None.                                                    *)
LEMMA EntryNotNone == \A n \in Names : None \notin Entry(n)
<1>. SUFFICES ASSUME NEW n \in Names PROVE None \notin Entry(n)
  OBVIOUS
<1>1. Provider(n) \in {"custom", "object"} \X Names
  BY DEF Provider
<1>2. Entry(n) \subseteq [by : {"custom", "object"} \X Names, writes : BOOLEAN]
  BY <1>1 DEF Entry
<1>. QED  BY <1>2, PluginsAssumption

(* The values a handler leaves: a new one, a cleared one, a string.          *)
LEMMA PlainValues ==
  ASSUME ValueSound
  PROVE  \A v \in {NewValue, Cleared, Holding} : v \in Values /\ Remembers(v.index, v.by)
<1>1. {0 - 1, 0} \subseteq (0 - 1) .. Cardinality(Guids)
  BY GuidsFinite
<1>2. NewValue \in Values /\ Remembers(NewValue.index, NewValue.by)
  BY <1>1 DEF NewValue, Values, Remembers
<1>3. Cleared \in Values /\ Remembers(Cleared.index, Cleared.by)
  BY <1>1 DEF Cleared, Values, Remembers, ValueSound
<1>4. /\ Holding \in Values
      /\ Holding.index = Cleared.index /\ Holding.by = Cleared.by
  BY <1>3 DEF Holding, Values
<1>. QED  BY <1>2, <1>3, <1>4

(* The value a plugin leaves.                                               *)
LEMMA ReadValue ==
  ASSUME Tables, ValueSound, NEW i \in DOMAIN plugins, NEW tag \in ToSet(plugins[i].tags)
  PROVE  ReadBy(i, tag) \in Values /\ Remembers(ReadBy(i, tag).index, ReadBy(i, tag).by)
<1> DEFINE x == runtime_index_by_tag(tag)
           g == plugins[i].guid
<1>1. x \in (0 - 1) .. Cardinality(Guids) /\ Remembers(x, g)
  BY IndexOfTag
<1>2. g \in Guids \cup {None}
  <2>1. plugins[i] \in Descriptors
    BY DEF Tables
  <2>. QED  BY <2>1 DEF Guids
<1>3. Holding \in Values
  BY PlainValues
<1>4. ReadBy(i, tag) = [Holding EXCEPT !.index = x, !.by = g]
  BY DEF ReadBy
<1> HIDE DEF x, g
<1>5. ReadBy(i, tag) \in Values /\ ReadBy(i, tag).index = x /\ ReadBy(i, tag).by = g
  BY <1>1, <1>2, <1>3, <1>4 DEF Values
<1>. QED  BY <1>1, <1>5

-----------------------------------------------------------------------------
(* The registries.                                                          *)

IsPut(g, f, n, e) == g = [f EXCEPT ![n] = e]

(* An entry was put in a table under its own name.                          *)
LEMMA EntryPut ==
  ASSUME NEW f \in Table, NEW n \in Names, NEW e \in Entry(n), NEW g, IsPut(g, f, n, e)
  PROVE  g \in Table /\ \A m \in Names : g[m] = IF m = n THEN e ELSE f[m]
  BY DEF Table, IsPut

(* A custom type is registered.                                             *)
LEMMA CustomEntered ==
  ASSUME Tables, BoxSound, NEW n \in Customs, NEW writes \in BOOLEAN,
         plugins' \in Seq(Descriptors),
         customs' = [customs EXCEPT ![n] = [by |-> <<"custom", n>>, writes |-> writes]],
         UNCHANGED <<map, objects, box>>
  PROVE  Tables' /\ BoxSound'
<1> DEFINE e == [by |-> <<"custom", n>>, writes |-> writes]
<1>1. n \in Names /\ e \in Entry(n)
  BY DEF Names, Entry, Provider
<1> HIDE DEF e
<1>2. IsPut(customs', customs, n, e)
  BY DEF e, IsPut
<1>3. /\ customs' \in Table
      /\ \A m \in Names : customs'[m] = IF m = n THEN e ELSE customs[m]
  <2>1. customs \in Table
    BY DEF Tables
  <2>. QED  BY ONLY <1>1, <1>2, <2>1, EntryPut
<1>4. e # None
  BY <1>1, EntryNotNone
<1>5. Tables'
  BY <1>1, <1>3 DEF Tables
<1>6. BoxSound'
  BY <1>3, <1>4, BoxKept
<1>. QED  BY <1>5, <1>6

(* An object type is given its serializers.                                 *)
LEMMA ObjectEntered ==
  ASSUME Tables, BoxSound, NEW n \in Objects, NEW writes \in BOOLEAN, AttachObject(n, writes)
  PROVE  Tables' /\ BoxSound'
<1> DEFINE e == [by |-> <<"object", n>>, writes |-> writes]
<1>1. n \in Names /\ e \in Entry(n)
  BY PluginsAssumption DEF Names, Entry, Provider
<1>0. /\ IsPut(objects', objects, n, e)
      /\ UNCHANGED <<plugins, map, customs, box>>
  BY DEF AttachObject, IsPut
<1> HIDE DEF e
<1>3. /\ objects' \in Table
      /\ \A m \in Names : objects'[m] = IF m = n THEN e ELSE objects[m]
  <2>1. objects \in Table
    BY DEF Tables
  <2>. QED  BY <1>0, <1>1, <2>1, EntryPut
<1>4. e # None
  BY <1>1, EntryNotNone
<1>5. Tables'
  BY <1>0, <1>1, <1>3 DEF Tables
<1>6. BoxSound'
  BY <1>0, <1>3, <1>4, BoxKept
<1>. QED  BY <1>5, <1>6

(* The object types become custom types.                                    *)
LEMMA TypesEntered ==
  ASSUME Tables, BoxSound, RegisterTypesToCustom
  PROVE  Tables' /\ BoxSound'
<1>0. /\ customs' = [n \in Names |-> IF objects[n] # None THEN objects[n] ELSE customs[n]]
      /\ UNCHANGED <<plugins, map, objects, box>>
  BY DEF RegisterTypesToCustom
<1>1. \A n \in Names : /\ customs'[n] = IF objects[n] # None THEN objects[n] ELSE customs[n]
                       /\ customs'[n] \in Entry(n) \cup {None}
  BY <1>0 DEF Tables
<1>2. customs' \in Table
  BY <1>0, <1>1 DEF Table
<1>3. Tables'
  BY <1>0, <1>1, <1>2 DEF Tables
<1>4. BoxSound'
  BY <1>0, <1>1, BoxKept
<1>. QED  BY <1>3, <1>4

(* Whatever is registered, taken from the tables or put in the map.         *)
LEMMA RegistryStep ==
  ASSUME IInv,
         \/ \E d \in Descriptors : RegisterPlugin(d)
         \/ UnregisterAll
         \/ \E m \in Maps : SetRuntimeMap(m)
         \/ \E n \in Customs, writes \in BOOLEAN : CustomRegister(n, writes)
         \/ \E n \in Objects, writes \in BOOLEAN : AttachObject(n, writes)
         \/ RegisterTypesToCustom
         \/ \E d \in Descriptors, n \in Customs : RegisterLibrary(d, n)
  PROVE  IInv'
<1>0. HeapOwned /\ Tables /\ ValueSound /\ BoxSound
  BY DEF IInv
<1>1. HeapOwned'
  <2>1. UNCHANGED heap
    BY DEF RegisterPlugin, UnregisterAll, SetRuntimeMap, CustomRegister, AttachObject,
           RegisterTypesToCustom, RegisterLibrary
  <2>. QED  BY <1>0, <2>1, HeapKept
<1>2. \A d \in Descriptors : Append(plugins, d) \in Seq(Descriptors)
  BY <1>0 DEF Tables
<1>3. ASSUME NEW d \in Descriptors, RegisterPlugin(d)
      PROVE  Tables' /\ ValueSound' /\ BoxSound'
  <2>1. plugins' \in Seq(Descriptors) /\ UNCHANGED <<map, customs, objects, value, box>>
    BY <1>2, <1>3 DEF RegisterPlugin
  <2>. QED  BY <1>0, <2>1, ValueKept, BoxKept DEF Tables
<1>4. ASSUME UnregisterAll PROVE Tables' /\ ValueSound' /\ BoxSound'
  <2>1. plugins' \in Seq(Descriptors) /\ UNCHANGED <<map, customs, objects, value, box>>
    BY <1>4 DEF UnregisterAll
  <2>. QED  BY <1>0, <2>1, ValueKept, BoxKept DEF Tables
<1>5. ASSUME NEW m \in Maps, SetRuntimeMap(m) PROVE Tables' /\ ValueSound' /\ BoxSound'
  <2>1. map' = m /\ value.by = None /\ UNCHANGED <<plugins, customs, objects, value, box>>
    BY <1>5 DEF SetRuntimeMap
  <2>2. ValueSound'
    BY <1>0, <2>1 DEF ValueSound, Remembers
  <2>. QED  BY <1>0, <2>1, <2>2, BoxKept DEF Tables
<1>6. ASSUME NEW n \in Customs, NEW writes \in BOOLEAN, CustomRegister(n, writes)
      PROVE  Tables' /\ ValueSound' /\ BoxSound'
  <2>1. /\ customs' = [customs EXCEPT ![n] = [by |-> <<"custom", n>>, writes |-> writes]]
        /\ plugins' \in Seq(Descriptors) /\ UNCHANGED <<map, objects, value, box>>
    BY <1>0, <1>6 DEF CustomRegister, Tables
  <2>. QED  BY <1>0, <2>1, CustomEntered, ValueKept
<1>7. ASSUME NEW d \in Descriptors, NEW n \in Customs, RegisterLibrary(d, n)
      PROVE  Tables' /\ ValueSound' /\ BoxSound'
  <2>1. /\ customs' = [customs EXCEPT ![n] = [by |-> <<"custom", n>>, writes |-> TRUE]]
        /\ plugins' \in Seq(Descriptors) /\ UNCHANGED <<map, objects, value, box>>
    BY <1>2, <1>7 DEF RegisterLibrary
  <2>. QED  BY <1>0, <2>1, CustomEntered, ValueKept
<1>8. ASSUME NEW n \in Objects, NEW writes \in BOOLEAN, AttachObject(n, writes)
      PROVE  Tables' /\ ValueSound' /\ BoxSound'
  <2>1. UNCHANGED <<map, value>>
    BY <1>8 DEF AttachObject
  <2>. QED  BY <1>0, <1>8, <2>1, ObjectEntered, ValueKept
<1>9. ASSUME RegisterTypesToCustom PROVE Tables' /\ ValueSound' /\ BoxSound'
  <2>1. UNCHANGED <<map, value>>
    BY <1>9 DEF RegisterTypesToCustom
  <2>. QED  BY <1>0, <1>9, <2>1, TypesEntered, ValueKept
<1>. QED  BY <1>1, <1>3, <1>4, <1>5, <1>6, <1>7, <1>8, <1>9 DEF IInv

-----------------------------------------------------------------------------
(* The calls.                                                               *)

(* A number that is not in use, and a message that has no deleter.          *)
LEMMA NewNames ==
  ASSUME HeapOwned
  PROVE  NewHole \in Nat \ DOMAIN nodes /\ Said \in Consts /\ NewHole # Said
<1>1. HeapShape(result, lists, nodes, hand, Kept, deleted)
  BY DEF HeapOwned, Owned
<1>2. NewHole \in Nat \ DOMAIN nodes
  BY <1>1, FreshIsNew DEF HeapShape, NewHole
<1>3. Said \in Consts
  BY PluginsAssumption DEF Said
<1>. QED  BY <1>2, <1>3, NamesAssumption

(* Short rows.                                                              *)
LEMMA ShortRows ==
  ASSUME NEW S, NEW x \in S, NEW y \in S
  PROVE  <<x>> \in Seq(S) /\ <<x, x>> \in Seq(S) /\ <<y, x, y>> \in Seq(S)
  OBVIOUS

(* A library function says what it thinks of a call.                        *)
LEMMA SayOwned ==
  ASSUME HeapOwned, NEW r \in Results, Live(r), Sole(r), NEW res \in {0 - 1, 0, 1},
         \E items \in {<<Said>>, <<Said, Said>>} : Say(r, res, items)
  PROVE  HeapOwned'
<1>1. PICK items \in {<<Said>>, <<Said, Said>>} : Say(r, res, items)
  OBVIOUS
<1>2. items \in Seq(Consts)
  <2>1. <<Said>> \in Seq(Consts) /\ <<Said, Said>> \in Seq(Consts)
    BY NewNames, ShortRows
  <2>. QED  BY <2>1
<1>3. AddItems(r, res, items) /\ UNCHANGED <<counts, nodes, hand, given, lost, deleted>>
  BY <1>1 DEF Say
<1>. QED  BY <1>2, <1>3, ConstsAdded

(* What those asked tell are texts not used yet.                             *)
LEMMA ToldTexts == \A told \in Told : ToSet(told) \subseteq Texts \ given
<1>1. ToSet(<<>>) = {} /\ \A u : ToSet(<<u>>) = {u}
  BY DEF ToSet
<1>. QED  BY <1>1 DEF Told

(* A call succeeds, and what was told on the way is lost.                   *)
LEMMA SucceedsOwned ==
  ASSUME HeapOwned, NEW r \in Results, Live(r), NEW told \in Told, Succeeds(r, told)
  PROVE  HeapOwned'
<1>1. /\ result' = [result EXCEPT ![r].res = 1]
      /\ given' = given \cup ToSet(told) /\ lost' = lost \cup ToSet(told)
      /\ UNCHANGED <<counts, lists, nodes, hand, deleted>>
  BY DEF Succeeds
<1>2. lost' \subseteq given' /\ given' \subseteq Texts /\ Kept' = Kept
  BY <1>1, ToldTexts DEF HeapOwned, Kept
<1>3. 1 \in {0 - 1, 0, 1}
  OBVIOUS
<1>. QED  BY <1>1, <1>2, <1>3, VerdictSet

(* The library tells texts not used yet, and loses others.                  *)
Telling(row, dropped) ==
  FewTexts(row) /\ dropped \subseteq Texts \ given /\ dropped \cap ToSet(row) = {}

Rowed == {<<NewHole>>, <<Said, NewHole, Said>>}

Tells(r) ==
  \E res \in {0 - 1, 0, 1}, items \in Rowed : \E row, dropped :
    Telling(row, dropped) /\ Tell(r, res, items, row, dropped)

(* Told texts, together with one more, are such texts.                      *)
LEMMA ToldRows ==
  ASSUME NEW told \in Told, NEW t \in Texts \ given, t \notin ToSet(told)
  PROVE  /\ Telling(Append(told, t), {}) /\ Telling(<<t>> \o told, {})
         /\ Telling(<<t>>, ToSet(told))
<1>1. ToSet(<<>>) = {} /\ \A u : ToSet(<<u>>) = {u}
  BY DEF ToSet
<1>2. FewTexts(<<t>>)
  BY DEF FewTexts
<1>3. Telling(<<t>>, ToSet(told))
  BY <1>1, <1>2, ToldTexts DEF Telling
<1>4. CASE told = <<>>
  <2>1. Append(told, t) = <<t>> /\ <<t>> \o told = <<t>>
    BY <1>4
  <2>. QED  BY <1>2, <1>3, <2>1 DEF Telling
<1>5. ASSUME NEW u \in Texts \ given, told = <<u>>
      PROVE  Telling(Append(told, t), {}) /\ Telling(<<t>> \o told, {})
  <2>1. Append(told, t) = <<u, t>> /\ <<t>> \o told = <<t, u>>
    BY <1>5, PairMade
  <2>2. u # t
    BY <1>1, <1>5
  <2>3. FewTexts(<<u, t>>) /\ FewTexts(<<t, u>>)
    BY <2>2 DEF FewTexts
  <2>. QED  BY <2>1, <2>3 DEF Telling
<1>. QED  BY <1>3, <1>4, <1>5 DEF Told

(* The items that show such a row are a new hole string and constants.      *)
LEMMA RowedItems ==
  ASSUME HeapOwned, NEW items \in Rowed
  PROVE  /\ items \in Seq({NewHole} \cup Consts)
         /\ \A i, j \in DOMAIN items : items[i] = NewHole /\ items[j] = NewHole => i = j
         /\ \E i \in DOMAIN items : items[i] = NewHole
<1>0. NewHole \in Nat /\ Said \in Consts /\ NewHole # Said
  BY NewNames
<1>3. items \in Seq({NewHole} \cup Consts)
  <2>1. NewHole \in {NewHole} \cup Consts /\ Said \in {NewHole} \cup Consts
    BY <1>0
  <2>2. /\ <<NewHole>> \in Seq({NewHole} \cup Consts)
        /\ <<Said, NewHole, Said>> \in Seq({NewHole} \cup Consts)
    BY ONLY <2>1, ShortRows
  <2>. QED  BY <2>2 DEF Rowed
<1>4. /\ \A i, j \in DOMAIN items : items[i] = NewHole /\ items[j] = NewHole => i = j
      /\ \E i \in DOMAIN items : items[i] = NewHole
  <2>1. CASE items = <<NewHole>>
    <3>1. DOMAIN items = {1} /\ items[1] = NewHole
      BY <2>1
    <3>. QED  BY <3>1
  <2>2. CASE items = <<Said, NewHole, Said>>
    <3>1. DOMAIN items = 1 .. 3 /\ items[1] = Said /\ items[2] = NewHole /\ items[3] = Said
      BY <2>2
    <3>. QED  BY <1>0, <3>1
  <2>. QED  BY <2>1, <2>2 DEF Rowed
<1>. QED  BY <1>3, <1>4

(* A box is told of, with texts about it.                                   *)
LEMMA TellOwned ==
  ASSUME HeapOwned, NEW r \in Results, Live(r), Sole(r), Tells(r)
  PROVE  HeapOwned'
<1>1. PICK res \in {0 - 1, 0, 1}, items \in Rowed : \E row, dropped :
        Telling(row, dropped) /\ Tell(r, res, items, row, dropped)
  BY DEF Tells
<1>2. PICK row, dropped : Telling(row, dropped) /\ Tell(r, res, items, row, dropped)
  BY <1>1
<1>3. /\ AddItems(r, res, items) /\ nodes' = With(nodes, NewHole, row)
      /\ given' = given \cup ToSet(row) \cup dropped /\ lost' = lost \cup dropped
      /\ UNCHANGED <<counts, hand, deleted>>
  BY <1>2 DEF Tell
<1>4. FewTexts(row) /\ dropped \subseteq Texts \ given /\ dropped \cap ToSet(row) = {}
  BY <1>2 DEF Telling
<1>5. ToSet(row) \subseteq Texts \ given
  <2>1. \A t : ToSet(<<t>>) = {t} /\ \A u : ToSet(<<u, t>>) = {u, t}
    BY DEF ToSet
  <2>. QED  BY <1>4, <2>1 DEF FewTexts
<1>6. lost' \subseteq given' /\ given' \subseteq Texts /\ Kept' = Kept \cup ToSet(row)
  BY <1>3, <1>4, <1>5 DEF HeapOwned, Kept
<1>7. /\ items \in Seq({NewHole} \cup Consts)
      /\ \A i, j \in DOMAIN items : items[i] = NewHole /\ items[j] = NewHole => i = j
      /\ \E i \in DOMAIN items : items[i] = NewHole
  BY RowedItems
<1>. QED  BY <1>3, <1>4, <1>6, <1>7, TextsAdded

(* What a call did to the heap: nothing, a message, a verdict, or texts.     *)
Heard(r) ==
  \/ UNCHANGED heap
  \/ \E res \in {0 - 1, 0, 1} : \E items \in {<<Said>>, <<Said, Said>>} : Say(r, res, items)
  \/ \E told \in Told : Succeeds(r, told)
  \/ Tells(r)

(* Each keeps the heap owned.                                               *)
LEMMA HeardOwned ==
  ASSUME HeapOwned, NEW r \in Results, Called(r), Heard(r)
  PROVE  HeapOwned'
<1>0. Live(r) /\ Sole(r)
  BY DEF Called
<1>1. ASSUME NEW res \in {0 - 1, 0, 1}, \E items \in {<<Said>>, <<Said, Said>>} : Say(r, res, items)
      PROVE  HeapOwned'
  BY <1>0, <1>1, SayOwned
<1>. QED  BY <1>0, <1>1, HeapKept, SucceedsOwned, TellOwned DEF Heard

Wrote(r, name, by) ==
  \/ WriteSucceeds(r, name, by)
  \/ \E said \in Rowed : WriteFails(r, name, by, said)

(* Writing an id box does the same.                                         *)
LEMMA WroteHeard ==
  ASSUME NEW r \in Results, NEW name, NEW by, Wrote(r, name, by)
  PROVE  Heard(r)
<1>1. CASE WriteSucceeds(r, name, by)
  BY <1>1 DEF WriteSucceeds, Heard
<1>2. ASSUME NEW said \in Rowed, WriteFails(r, name, by, said)
      PROVE  Heard(r)
  <2>1. PICK told \in Told, t \in Texts \ given :
          t \notin ToSet(told) /\ Tell(r, 0 - 1, said, Append(told, t), {})
    BY <1>2 DEF WriteFails
  <2>2. Telling(Append(told, t), {})
    BY <2>1, ToldRows
  <2>3. 0 - 1 \in {0 - 1, 0, 1}
    OBVIOUS
  <2>4. Tells(r)
    BY <2>1, <2>2, <2>3 DEF Tells
  <2>. QED  BY <2>4 DEF Heard
<1>. QED  BY <1>1, <1>2 DEF Wrote

(* An id box was written under the name of its writer, or is a plain one.    *)
LEMMA WroteKeeps ==
  ASSUME IInv, NEW r \in Results, Called(r), NEW name \in Guids \cup Names, NEW by,
         by = Plain \/ Writer(name, by), Wrote(r, name, by), UNCHANGED registry
  PROVE  IInv'
<1>0. HeapOwned /\ Tables /\ ValueSound /\ BoxSound
  BY DEF IInv
<1>1. HeapOwned'
  BY <1>0, WroteHeard, HeardOwned
<1>2. /\ value' = NewValue
      /\ \E full \in BOOLEAN : box' = [name |-> name, by |-> by, full |-> full]
  BY DEF Wrote, WriteSucceeds, WriteFails
<1>3. UNCHANGED <<map, customs, objects>>
  BY DEF registry
<1>4. Tables'
  BY <1>0, TablesKept
<1>5. ValueSound'
  <2>1. NewValue \in Values /\ Remembers(NewValue.index, NewValue.by)
    BY <1>0, PlainValues
  <2>. QED  BY <1>2, <1>3, <2>1 DEF ValueSound, Remembers
<1>6. BoxSound'
  <2>1. box'.name = name /\ box'.by = by
    BY <1>2
  <2>2. by = Plain \/ Writer(name, by)'
    BY <1>3 DEF Writer
  <2>. QED  BY <2>1, <2>2 DEF BoxSound
<1>. QED  BY <1>1, <1>4, <1>5, <1>6 DEF IInv

(* Writing a value, or a custom type's.                                     *)
LEMMA WriteStep ==
  ASSUME IInv, NEW r \in Results,
         SerializeValue(r) \/ \E n \in Names : WriteCustomIdBox(r, n)
  PROVE  IInv'
<1>0. HeapOwned /\ Tables
  BY DEF IInv
<1>1. CASE SerializeValue(r)
  <2> DEFINE t == plugin_list_index_by_tag(value.tag)
             g == plugins[t].guid
  <2>1. Called(r) /\ t # 0 /\ g # None /\ UNCHANGED registry
    BY <1>1 DEF SerializeValue
  <2>2. WriteSucceeds(r, g, Plugin(g)) \/ WriteFails(r, g, Plugin(g), <<NewHole>>)
    BY <1>1 DEF SerializeValue
  <2>3. g \in Guids
    <3>1. t \in DOMAIN plugins /\ plugins \in Seq(Descriptors)
      BY <1>0, <2>1, ByTag DEF Tables
    <3>2. plugins[t] \in Descriptors
      BY <3>1
    <3>. QED  BY <2>1, <3>2 DEF Guids
  <2> HIDE DEF t, g
  <2>4. Wrote(r, g, Plugin(g)) /\ Writer(g, Plugin(g))
    BY <2>2, <2>3 DEF Wrote, Writer, Rowed
  <2>. QED  BY <2>1, <2>3, <2>4, WroteKeeps
<1>2. ASSUME NEW n \in Names, WriteCustomIdBox(r, n) PROVE IInv'
  <2> DEFINE c == customs[n]
             o == objects[n]
  <2>1. Called(r) /\ UNCHANGED registry
    BY <1>2 DEF WriteCustomIdBox
  <2>2. \/ c # None /\ Wrote(r, n, c.by)
        \/ o # None /\ Wrote(r, n, o.by)
        \/ Wrote(r, n, Plain)
    BY <1>2 DEF WriteCustomIdBox, Wrote, Rowed
  <2>3. /\ c # None => c.by = Provider(n)
        /\ o # None => o.by = Provider(n)
    BY <1>0 DEF Tables, Entry
  <2>4. PICK by : Wrote(r, n, by) /\ (by = Plain \/ Writer(n, by))
    BY <2>2, <2>3 DEF Writer
  <2>. QED  BY <2>1, <2>4, WroteKeeps
<1>. QED  BY <1>1, <1>2

(* A call that leaves a sound value, and the box or none.                   *)
LEMMA CallKeeps ==
  ASSUME IInv, NEW r \in Results, Called(r), Heard(r), UNCHANGED registry,
         value' \in Values, Remembers(value'.index, value'.by), box' \in {box, None}
  PROVE  IInv'
<1>0. HeapOwned /\ Tables /\ ValueSound /\ BoxSound
  BY DEF IInv
<1>1. HeapOwned'
  BY <1>0, HeardOwned
<1>2. UNCHANGED <<map, customs, objects>>
  BY DEF registry
<1>3. Tables'
  BY <1>0, TablesKept
<1>4. ValueSound'
  BY <1>2 DEF ValueSound, Remembers
<1>5. BoxSound'
  <2>1. CASE box' = None
    BY <2>1 DEF BoxSound
  <2>2. CASE box' = box
    BY <1>0, <1>2, <2>2, BoxKept
  <2>. QED  BY <2>1, <2>2
<1>. QED  BY <1>1, <1>3, <1>4, <1>5 DEF IInv

(* So does reading one.                                                     *)
LEMMA ReadHeard ==
  ASSUME NEW r \in Results, ReadIdBox(r)
  PROVE  Heard(r)
<1>1. CASE Say(r, 0 - 1, <<Said>>)
  <2>1. 0 - 1 \in {0 - 1, 0, 1}
    OBVIOUS
  <2>. QED  BY <1>1, <2>1 DEF Heard
<1>2. ASSUME NEW t \in Texts \ given, NEW told \in Told, t \notin ToSet(told),
             NEW res \in {0 - 1, 0, 1},
             \/ Tell(r, res, <<NewHole>>, <<t>>, ToSet(told))
             \/ Tell(r, res, <<NewHole>>, <<t>> \o told, {})
      PROVE  Heard(r)
  <2>1. Telling(<<t>>, ToSet(told)) /\ Telling(<<t>> \o told, {}) /\ <<NewHole>> \in Rowed
    BY <1>2, ToldRows DEF Rowed
  <2>2. Tells(r)
    BY <1>2, <2>1 DEF Tells
  <2>. QED  BY <2>2 DEF Heard
<1>3. ASSUME NEW t \in Texts \ given, NEW told \in Told, t \notin ToSet(told),
             \E res \in {0 - 1, 1} :
               \/ Tell(r, res, <<NewHole>>, <<t>>, ToSet(told))
               \/ Tell(r, res, <<NewHole>>, <<t>> \o told, {})
      PROVE  Heard(r)
  BY <1>2, <1>3
<1>4. \/ Say(r, 0 - 1, <<Said>>)
      \/ \E t \in Texts \ given, told \in Told :
           /\ t \notin ToSet(told)
           /\ \E res \in {0 - 1, 1} :
               \/ Tell(r, res, <<NewHole>>, <<t>>, ToSet(told))
               \/ Tell(r, res, <<NewHole>>, <<t>> \o told, {})
  BY DEF ReadIdBox
<1>. QED  BY <1>1, <1>3, <1>4

(* A read leaves a value of the plugin that was asked, a string, or what was
   there.                                                                   *)
LEMMA ReadStep ==
  ASSUME IInv, NEW r \in Results,
         ReadIdBox(r) \/ \E tag \in Tags : ReadWithPlugins(r, tag)
  PROVE  IInv'
<1>0. Tables /\ ValueSound
  BY DEF IInv
<1>1. /\ Holding \in Values /\ Remembers(Holding.index, Holding.by)
      /\ value \in Values /\ Remembers(value.index, value.by)
  BY <1>0, PlainValues DEF ValueSound
<1>2. plugins \in Seq(Descriptors) /\ DOMAIN plugins = 1 .. Len(plugins)
  BY <1>0, LenProperties DEF Tables
<1>3. CASE ReadIdBox(r)
  <2> DEFINE i == plugin_list_index_by_guid(box.name)
             tag == plugins[i].tags[1]
  <2>1. Called(r) /\ UNCHANGED registry /\ box' \in {box, None}
    BY <1>3 DEF ReadIdBox
  <2>2. Heard(r)
    BY <1>3, ReadHeard
  <2>3. \/ i # 0 /\ value' = ReadBy(i, tag)
        \/ value' \in {Holding, value}
    BY <1>3 DEF ReadIdBox
  <2>4. i # 0 => ReadBy(i, tag) \in Values /\ Remembers(ReadBy(i, tag).index, ReadBy(i, tag).by)
    <3> SUFFICES ASSUME i # 0
                 PROVE  ReadBy(i, tag) \in Values /\ Remembers(ReadBy(i, tag).index, ReadBy(i, tag).by)
      OBVIOUS
    <3>1. i \in DOMAIN plugins
      BY <1>2, ByGuid
    <3>2. plugins[i].tags \in Seq(0 .. 255) \ {<<>>}
      BY <1>2, <3>1, PluginsAssumption
    <3>3. tag \in ToSet(plugins[i].tags)
      BY <3>2, LenProperties, EmptySeq DEF ToSet
    <3> HIDE DEF i, tag
    <3>. QED  BY <1>0, <3>1, <3>3, ReadValue
  <2> HIDE DEF i, tag
  <2>5. value' \in Values /\ Remembers(value'.index, value'.by)
    BY <1>1, <2>3, <2>4
  <2>. QED  BY <2>1, <2>2, <2>5, CallKeeps
<1>4. ASSUME NEW tag \in Tags, ReadWithPlugins(r, tag) PROVE IInv'
  <2> DEFINE i == plugin_list_index_by_tag(tag)
  <2>1. Called(r) /\ UNCHANGED registry /\ box' \in {box, None}
    BY <1>4 DEF ReadWithPlugins
  <2>2. Heard(r)
    BY <1>4 DEF ReadWithPlugins, Heard
  <2>3. \/ i # 0 /\ value' = ReadBy(i, tag)
        \/ value' \in {Holding, value}
    BY <1>4 DEF ReadWithPlugins
  <2>4. i # 0 => ReadBy(i, tag) \in Values /\ Remembers(ReadBy(i, tag).index, ReadBy(i, tag).by)
    <3>1. i # 0 => i \in DOMAIN plugins /\ tag \in ToSet(plugins[i].tags)
      BY <1>2, ByTag
    <3> HIDE DEF i
    <3>. QED  BY <1>0, <3>1, ReadValue
  <2> HIDE DEF i
  <2>5. value' \in Values /\ Remembers(value'.index, value'.by)
    BY <1>1, <2>3, <2>4
  <2>. QED  BY <2>1, <2>2, <2>5, CallKeeps
<1>. QED  BY <1>3, <1>4

(* A call that only reports, and a dump.                                    *)
LEMMA ReportStep ==
  ASSUME IInv, NEW r \in Results,
         (\E tag \in Tags : DispatchByTag(r, tag)) \/ (\E n \in Names : DumpByName(r, n))
  PROVE  IInv'
<1>1. Called(r) /\ UNCHANGED <<registry, value, box>>
  BY DEF DispatchByTag, DumpByName
<1>2. Heard(r)
  BY DEF DispatchByTag, DumpByName, Heard, Told
<1>3. value \in Values /\ Remembers(value.index, value.by)
  BY DEF IInv, ValueSound
<1>. QED  BY <1>1, <1>2, <1>3, CallKeeps

(* What the client does with the value alone.                               *)
LEMMA ValueStep ==
  ASSUME IInv,
         \/ ValueNew \/ ValueInit \/ ValueClear
         \/ \E i \in Int : DoValueOp(i)
         \/ \E tag \in Tags : SetTag(tag)
  PROVE  IInv'
<1>0. HeapOwned /\ Tables /\ ValueSound /\ BoxSound
  BY DEF IInv
<1>1. UNCHANGED <<heap, registry, box>>
  BY DEF ValueNew, ValueInit, ValueClear, DoValueOp, SetTag
<1>2. value' \in Values /\ Remembers(value'.index, value'.by)
  <2>1. CASE value' \in {NewValue, Cleared, Holding}
    BY <1>0, <2>1, PlainValues
  <2>2. ASSUME NEW tag \in Tags, value' = [value EXCEPT !.tag = tag]
        PROVE  value' \in Values /\ Remembers(value'.index, value'.by)
    <3>1. value \in Values /\ Remembers(value.index, value.by)
      BY <1>0 DEF ValueSound
    <3>2. value' \in Values /\ value'.index = value.index /\ value'.by = value.by
      BY <2>2, <3>1 DEF Values
    <3>. QED  BY <3>1, <3>2
  <2>. QED  BY <2>1, <2>2 DEF ValueNew, ValueInit, ValueClear, DoValueOp, SetTag
<1>3. UNCHANGED <<map, customs, objects>>
  BY <1>1 DEF registry
<1>4. HeapOwned' /\ Tables' /\ BoxSound'
  BY <1>0, <1>1, <1>3, HeapKept, TablesKept, BoxKept
<1>5. ValueSound'
  BY <1>2, <1>3 DEF ValueSound, Remembers
<1>. QED  BY <1>4, <1>5 DEF IInv

(* What the client does with results alone.                                 *)
LEMMA ResultStep ==
  ASSUME IInv, UNCHANGED <<registry, value, box>>,
         Client \/ \E r \in Results : ResultOk(r, 0) \/ Unref(r)
  PROVE  IInv'
<1>0. HeapOwned /\ Tables /\ ValueSound /\ BoxSound
  BY DEF IInv
<1>1. HeapOwned'
  <2>1. ASSUME NEW r \in Results, ResultOk(r, 0) PROVE HeapOwned'
    <3>1. 0 \in {0 - 1, 0, 1}
      OBVIOUS
    <3>. QED  BY <1>0, <2>1, <3>1, OkOp
  <2>. QED  BY <1>0, <2>1, ClientOwned, UnrefOp
<1>2. UNCHANGED <<map, customs, objects>>
  BY DEF registry
<1>. QED  BY <1>0, <1>1, <1>2, TablesKept, ValueKept, BoxKept DEF IInv

(* The invariant holds of every state.                                      *)
THEOREM Sound == Spec => []IInv
<1>1. Init => IInv
  <2> SUFFICES ASSUME Init PROVE IInv
    OBVIOUS
  <2>1. HeapOwned
    BY InitOwned DEF Init
  <2>2. map \in Maps
    <3>1. 0 \in 0 .. Cardinality(Guids)
      BY GuidsFinite
    <3>2. map = <<>> /\ <<>> \in [1 .. 0 -> Guids]
      BY DEF Init
    <3>3. IsInjective(map)
      BY <3>2 DEF IsInjective
    <3>. QED  BY <3>1, <3>2, <3>3 DEF Maps, SeqOf
  <2>3. Tables
    BY <2>2 DEF Init, Tables, Table
  <2>4. ValueSound
    <3>1. NewValue \in Values /\ Remembers(NewValue.index, NewValue.by)
      <4>1. 0 - 1 \in (0 - 1) .. Cardinality(Guids)
        BY GuidsFinite
      <4>. QED  BY <4>1 DEF NewValue, Values, Remembers
    <3>. QED  BY <3>1 DEF Init, ValueSound
  <2>5. BoxSound
    BY DEF Init, BoxSound
  <2>. QED  BY <2>1, <2>3, <2>4, <2>5 DEF IInv
<1>2. IInv /\ [Next]_vars => IInv'
  <2> SUFFICES ASSUME IInv, [Next]_vars PROVE IInv'
    OBVIOUS
  <2>0. HeapOwned /\ Tables /\ ValueSound /\ BoxSound
    BY DEF IInv
  <2>1. CASE Client /\ UNCHANGED <<registry, value, box>>
    BY <2>1, ResultStep
  <2>2. CASE \/ \E d \in Descriptors : RegisterPlugin(d)
             \/ UnregisterAll
             \/ \E m \in Maps : SetRuntimeMap(m)
             \/ \E n \in Customs, writes \in BOOLEAN : CustomRegister(n, writes)
             \/ \E n \in Objects, writes \in BOOLEAN : AttachObject(n, writes)
             \/ RegisterTypesToCustom
             \/ \E d \in Descriptors, n \in Customs : RegisterLibrary(d, n)
    BY <2>2, RegistryStep
  <2>3. CASE \/ ValueNew \/ ValueInit \/ ValueClear
             \/ DoValueOp(plugin_list_index_by_runtime_index(value.index))
             \/ \E tag \in Tags : DoValueOp(plugin_list_index_by_tag(tag))
             \/ \E tag \in Tags : SetTag(tag)
    <3>1. plugins \in Seq(Descriptors) /\ DOMAIN plugins = 1 .. Len(plugins)
      BY <2>0, LenProperties DEF Tables
    <3>2. \A g : plugin_list_index_by_guid(g) \in Int
      BY <3>1, ByGuid
    <3>3. plugin_list_index_by_runtime_index(value.index) \in Int
      BY <3>2 DEF plugin_list_index_by_runtime_index
    <3>4. \A tag \in Tags : plugin_list_index_by_tag(tag) \in Int
      BY <3>1, ByTag
    <3>. QED  BY <2>3, <3>3, <3>4, ValueStep
  <2>4. ASSUME NEW r \in Results, (ResultOk(r, 0) \/ Unref(r)) /\ UNCHANGED <<registry, value, box>>
        PROVE  IInv'
    BY <2>4, ResultStep
  <2>5. ASSUME NEW r \in Results,
               \/ \E tag \in Tags : DispatchByTag(r, tag) \/ ReadWithPlugins(r, tag)
               \/ SerializeValue(r) \/ ReadIdBox(r)
               \/ \E n \in Names : WriteCustomIdBox(r, n) \/ DumpByName(r, n)
        PROVE  IInv'
    BY <2>5, ReadStep, WriteStep, ReportStep
  <2>6. CASE UNCHANGED vars
    <3>1. UNCHANGED <<heap, registry, value, box>>
      BY <2>6 DEF vars
    <3>2. UNCHANGED <<map, customs, objects>>
      BY <3>1 DEF registry
    <3>. QED  BY <2>0, <3>1, <3>2, HeapKept, TablesKept, ValueKept, BoxKept DEF IInv
  <2>. QED  BY <2>1, <2>2, <2>3, <2>4, <2>5, <2>6 DEF Next
<1>. QED  BY <1>1, <1>2, PTL DEF Spec

-----------------------------------------------------------------------------
(* What the invariant gives.                                                *)

(* Results, lists and hole strings refer to what is allocated, the registries
   to plugins and names there are, and a box names its writer: whatever is
   registered, unregistered, written, read and reported.                    *)
THEOREM RegistriesTyped == Spec => []TypeOK
<1>1. IInv => TypeOK
  <2> SUFFICES ASSUME IInv PROVE TypeOK
    OBVIOUS
  <2>1. HeapTyped /\ Tables /\ ValueSound /\ BoxSound
    BY OwnedTyped DEF IInv
  <2>2. \A n \in Names : Entry(n) \subseteq Entries(n)
    <3> SUFFICES ASSUME NEW n \in Names, NEW e \in Entry(n) PROVE e \in Entries(n)
      OBVIOUS
    <3>1. e = [by |-> Provider(n), writes |-> e.writes] /\ e.writes \in BOOLEAN
      BY DEF Entry
    <3>2. PICK kind \in {"custom", "object"} : Provider(n) = <<kind, n>>
      BY DEF Provider
    <3>. QED  BY <3>1, <3>2 DEF Entries
  <2>3. \A n \in Names : /\ customs[n] \in Entries(n) \cup {None}
                         /\ objects[n] \in Entries(n) \cup {None}
    BY <2>1, <2>2 DEF Tables
  <2>4. /\ value.tag \in Tags \cup {0 - 1, 0} /\ value.index \in (0 - 1) .. Cardinality(Guids)
        /\ value.null \in BOOLEAN /\ value.by \in Guids \cup {None}
    BY <2>1 DEF ValueSound, Values
  <2>5. box # None =>
          /\ box.name \in Guids \cup Names
          /\ box.by \in {Plugin(box.name), <<"custom", box.name>>, <<"object", box.name>>, Plain}
    BY <2>1 DEF BoxSound, Writer, Provider
  <2>. QED  BY <2>1, <2>3, <2>4, <2>5 DEF TypeOK, Tables
<1>. QED  BY <1>1, Sound, PTL

(* However references to results are taken, for copies too, which are then
   only read, and results merged, released and reported through: a text handed
   over is in one place or its deleter ran once, unless the library dropped the
   result it was in; a hole string has one owner; and a count is the number of
   references the results of one list hold, so that exactly the last frees it. *)
THEOREM MessagesOwnedOnce == Spec => []TextOwnedOnce
<1>1. IInv => TextOwnedOnce
  BY OwnedOnce DEF IInv
<1>. QED  BY <1>1, Sound, PTL

(* An id box is read first by the plugin or type that wrote it, as long as
   there is one of that name, and the index a value remembers leads to the
   plugin that read it, or to none when that is gone.                       *)
THEOREM ProviderIsFound == Spec => []SameProvider
<1>1. IInv => SameProvider
  <2> SUFFICES ASSUME IInv PROVE SameProvider
    OBVIOUS
  <2>0. Tables /\ ValueSound /\ BoxSound /\ plugins \in Seq(Descriptors)
    BY DEF IInv, Tables
  <2>1. ASSUME box # None, box.by # Plain
        PROVE  \/ box.by = Plugin(box.name) /\ ~Registered(box.name)
               \/ Asked(box.name)[1] = box.by
    <3> DEFINE i == plugin_list_index_by_guid(box.name)
               rest == IF box.name \notin Names THEN <<>>
                       ELSE IF customs[box.name] # None THEN <<customs[box.name].by>>
                       ELSE IF objects[box.name] # None THEN <<objects[box.name].by>> ELSE <<>>
    <3>1. Writer(box.name, box.by)
      BY <2>0, <2>1 DEF BoxSound
    <3>2. Asked(box.name) = (IF i # 0 THEN <<Plugin(box.name)>> ELSE <<>>) \o rest
      BY DEF Asked
    <3>3. rest = <<>> \/ \E p : rest = <<p>>
      OBVIOUS
    <3>4. CASE box.name \in Guids /\ box.by = Plugin(box.name)
      <4>1. box.name # None
        BY <3>4 DEF Guids
      <4>2. i # 0 => Asked(box.name)[1] = Plugin(box.name)
        <5> HIDE DEF rest, i
        <5>. QED  BY <3>2, <3>3
      <4>. QED  BY <2>0, <3>4, <4>1, <4>2, ByGuid
    <3>5. CASE /\ box.name \in Names /\ box.by = Provider(box.name)
               /\ (customs[box.name] # None \/ objects[box.name] # None)
      <4>1. i = 0
        <5>1. ASSUME i # 0 PROVE FALSE
          <6>1. i \in DOMAIN plugins /\ box.name # None /\ plugins[i].guid = box.name
            BY <2>0, <5>1, ByGuid
          <6>2. plugins[i] \in Descriptors
            BY <2>0, <6>1
          <6>3. box.name \in Guids
            BY <6>1, <6>2 DEF Guids
          <6>. QED  BY <3>5, <6>3, PluginsAssumption
        <5>. QED  BY <5>1
      <4>2. rest = <<box.by>>
        <5>1. /\ customs[box.name] # None => customs[box.name].by = Provider(box.name)
              /\ objects[box.name] # None => objects[box.name].by = Provider(box.name)
          BY <2>0, <3>5 DEF Tables, Entry
        <5>. QED  BY <3>5, <5>1
      <4> HIDE DEF i, rest
      <4>3. Asked(box.name) = <<box.by>>
        BY <3>2, <4>1, <4>2
      <4>. QED  BY <4>3
    <3>. QED  BY <3>1, <3>4, <3>5 DEF Writer
  <2>2. ASSUME value.by # None
        PROVE  LET i == plugin_list_index_by_runtime_index(value.index)
               IN  IF i = 0 THEN ~Registered(value.by) \/ value.by \notin ToSet(map)
                   ELSE plugins[i].guid = value.by
    <3> DEFINE i == plugin_list_index_by_runtime_index(value.index)
    <3>1. IF value.by \in ToSet(map)
          THEN value.index + 1 \in DOMAIN map /\ map[value.index + 1] = value.by
          ELSE value.index = 0 - 1
      BY <2>0, <2>2 DEF ValueSound, Remembers
    <3>2. CASE value.by \in ToSet(map)
      <4>1. i = plugin_list_index_by_guid(value.by)
        BY <3>1, <3>2 DEF plugin_list_index_by_runtime_index
      <4>. QED  BY <2>0, <2>2, <4>1, ByGuid
    <3>3. CASE value.by \notin ToSet(map)
      <4>1. DOMAIN map = 1 .. Len(map) /\ Len(map) \in 0 .. Cardinality(Guids) /\ Cardinality(Guids) \in Nat
        BY <2>0, MapIsSeq, GuidsFinite DEF Tables
      <4>2. i = 0
        BY <3>1, <3>3, <4>1 DEF plugin_list_index_by_runtime_index
      <4>. QED  BY <3>3, <4>2
    <3>. QED  BY <3>2, <3>3
  <2>. QED  BY <2>1, <2>2 DEF SameProvider
<1>. QED  BY <1>1, Sound, PTL

-----------------------------------------------------------------------------
(* The results as a log of messages.                                        *)

(* What a call does to the heap is a step of the log, or none.               *)
Logged == Log' = Log \/ Abstract!Next

(* A call succeeds without a message: only the verdict is overwritten.       *)
LEMMA SucceedsLog ==
  ASSUME HeapOwned, NEW r \in Results, Live(r), NEW told \in Told, Succeeds(r, told)
  PROVE  Abstract!Give(r)
<1>1. /\ ResultsTyped(result)
      /\ result[r] \in [res : {0 - 1, 0, 1}, list : Nat \cup {None}, cell : Nat, refs : 1 .. MaxRefs]
  BY ResultFacts
<1>2. /\ result' = [result EXCEPT ![r] = [result[r] EXCEPT !.res = 1]]
      /\ lists' = lists /\ nodes' = nodes
  BY DEF Succeeds
<1>3. /\ result'[r] = [result[r] EXCEPT !.res = 1]
      /\ \A q \in Results \ {r} : result'[q] = result[q]
  BY <1>1, <1>2 DEF ResultsTyped
<1>4. OneResult(r)
  BY <1>1, <1>2, <1>3 DEF OneResult
<1>. QED  BY <1>4, FieldsLog

(* A function that says something adds it behind what was said before.       *)
LEMMA SayLog ==
  ASSUME HeapOwned, NEW r \in Results, Live(r), Sole(r), NEW res \in {0 - 1, 0, 1},
         \E items \in {<<Said>>, <<Said, Said>>} : Say(r, res, items)
  PROVE  Abstract!Give(r)
<1>1. PICK items \in {<<Said>>, <<Said, Said>>} : Say(r, res, items)
  OBVIOUS
<1>2. items \in Seq(Consts)
  <2>1. <<Said>> \in Seq(Consts) /\ <<Said, Said>> \in Seq(Consts)
    BY NewNames, ShortRows
  <2>. QED  BY <2>1
<1>3. AddItems(r, res, items) /\ nodes' = nodes
  BY <1>1 DEF Say
<1>. QED  BY <1>2, <1>3, GivenLog

(* The texts about a box are one more message.                               *)
LEMMA TellLog ==
  ASSUME HeapOwned, NEW r \in Results, Live(r), Sole(r), Tells(r)
  PROVE  Abstract!Give(r)
<1>1. PICK res \in {0 - 1, 0, 1}, items \in Rowed : \E row, dropped :
        Telling(row, dropped) /\ Tell(r, res, items, row, dropped)
  BY DEF Tells
<1>2. AddItems(r, res, items) /\ \E row : nodes' = With(nodes, NewHole, row)
  BY <1>1 DEF Tell
<1>3. items \in Seq({NewHole} \cup Consts)
  BY RowedItems
<1>. QED  BY <1>2, <1>3, GivenLog

(* Whatever a call reports is one step of the log at most.                  *)
LEMMA CallLog ==
  ASSUME HeapOwned, NEW r \in Results, Called(r), Heard(r)
  PROVE  Logged
<1>0. Live(r) /\ Sole(r)
  BY DEF Called
<1>1. CASE UNCHANGED heap
  BY <1>1, HeapStutter DEF Logged
<1>2. ASSUME NEW res \in {0 - 1, 0, 1}, \E items \in {<<Said>>, <<Said, Said>>} : Say(r, res, items)
      PROVE  Abstract!Give(r)
  BY <1>0, <1>2, SayLog
<1>3. ASSUME NEW told \in Told, Succeeds(r, told)  PROVE Abstract!Give(r)
  BY <1>0, <1>3, SucceedsLog
<1>4. CASE Tells(r)
  <2>1. Abstract!Give(r)
    BY <1>0, <1>4, TellLog
  <2>. QED  BY <2>1 DEF Logged, Abstract!Next
<1>. QED  BY <1>1, <1>2, <1>3, <1>4 DEF Heard, Logged, Abstract!Next

(* Every step of the program is one of the log's, or none.                   *)
LEMMA StepLogged ==
  ASSUME HeapOwned, [Next]_vars
  PROVE  Logged
<1>1. CASE Client
  BY <1>1, ClientLog DEF Logged
<1>2. CASE UNCHANGED heap
  BY <1>2, HeapStutter DEF Logged
<1>3. ASSUME NEW r \in Results, ResultOk(r, 0) \/ Unref(r)
      PROVE  Logged
  <2>1. CASE ResultOk(r, 0)
    <3>1. \E res \in 0 .. 1 : ResultOk(r, res)
      BY <2>1
    <3>2. Abstract!Make(r)
      BY <3>1, MadeLog
    <3>. QED  BY <3>2 DEF Logged, Abstract!Next
  <2>2. CASE Unref(r)
    BY <2>2, UnrefLog DEF Logged, Abstract!Next
  <2>. QED  BY <1>3, <2>1, <2>2
<1>4. ASSUME NEW r \in Results,
             \/ \E tag \in Tags : DispatchByTag(r, tag) \/ ReadWithPlugins(r, tag)
             \/ ReadIdBox(r) \/ \E n \in Names : DumpByName(r, n)
      PROVE  Logged
  <2>1. Called(r)
    BY <1>4 DEF DispatchByTag, ReadWithPlugins, ReadIdBox, DumpByName
  <2>2. Heard(r)
    BY <1>4, ReadHeard DEF DispatchByTag, ReadWithPlugins, DumpByName, Heard, Told
  <2>. QED  BY <2>1, <2>2, CallLog
<1>5. ASSUME NEW r \in Results, SerializeValue(r) \/ \E n \in Names : WriteCustomIdBox(r, n)
      PROVE  Logged
  <2>1. CASE SerializeValue(r)
    <3> DEFINE g == plugins[plugin_list_index_by_tag(value.tag)].guid
    <3>1. WriteSucceeds(r, g, Plugin(g)) \/ WriteFails(r, g, Plugin(g), <<NewHole>>)
      BY <2>1 DEF SerializeValue
    <3>2. Called(r)
      BY <2>1 DEF SerializeValue
    <3> HIDE DEF g
    <3>3. Wrote(r, g, Plugin(g))
      BY <3>1 DEF Wrote, Rowed
    <3>. QED  BY <3>2, <3>3, WroteHeard, CallLog
  <2>2. ASSUME NEW n \in Names, WriteCustomIdBox(r, n)  PROVE Logged
    <3>1. Called(r) /\ \E by : Wrote(r, n, by)
      BY <2>2 DEF WriteCustomIdBox, Wrote, Rowed
    <3>. QED  BY <3>1, WroteHeard, CallLog
  <2>. QED  BY <1>5, <2>1, <2>2
<1>6. CASE \/ \E d \in Descriptors : RegisterPlugin(d)
           \/ UnregisterAll
           \/ \E m \in Maps : SetRuntimeMap(m)
           \/ \E n \in Customs, writes \in BOOLEAN : CustomRegister(n, writes)
           \/ \E n \in Objects, writes \in BOOLEAN : AttachObject(n, writes)
           \/ RegisterTypesToCustom
           \/ \E d \in Descriptors, n \in Customs : RegisterLibrary(d, n)
           \/ ValueNew \/ ValueInit \/ ValueClear
           \/ \E i : DoValueOp(i)
           \/ \E tag \in Tags : SetTag(tag)
           \/ UNCHANGED vars
  <2>1. UNCHANGED heap
    BY <1>6 DEF RegisterPlugin, UnregisterAll, SetRuntimeMap, CustomRegister, AttachObject,
                RegisterTypesToCustom, RegisterLibrary, ValueNew, ValueInit, ValueClear,
                DoValueOp, SetTag, vars
  <2>. QED  BY <1>2, <2>1
<1>. QED  BY <1>1, <1>3, <1>4, <1>5, <1>6 DEF Next

(* Through lists that are handed over, emptied into others and shared hole
   strings, and whatever functions report: a result shows the messages it and
   what was merged into it were given, in that order, and is a success only if
   all of that was.                                                          *)
THEOREM MessagesAreLogged == Spec => ImplementsLog
<1>1. Init => Abstract!Init
  BY InitLog DEF Init
<1>2. IInv /\ [Next]_vars => [Abstract!Next]_Log
  BY StepLogged DEF IInv, Logged
<1>. QED  BY <1>1, <1>2, Sound, PTL DEF Spec, ImplementsLog, Abstract!Spec
=============================================================================
