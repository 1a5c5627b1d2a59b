---------------------------- MODULE AvlTreeProofs ----------------------------
(***************************************************************************)
(* For every set of keys, entries and nodes: at every step of balancing    *)
(* children and parents name each other, walks meet every node in order,   *)
(* all nodes that were balanced are, and lookups see an ordered map.       *)
(*                                                                         *)
(* The invariant speaks of the set of nodes below each node.  That sets    *)
(* below children are smaller stands in for induction over the tree.       *)
(***************************************************************************)
EXTENDS AvlTree, FiniteSetTheorems, WellFoundedInduction, TLAPS

-----------------------------------------------------------------------------
(* A tree t of the nodes D with keys K, and sub[n] the nodes from n down.    *)

Shaped(t, D) ==
  t \in [root : D \cup {Nil}, children : [Nodes -> [Side -> D \cup {Nil}]],
         parent : [Nodes -> D \cup {Nil}], height : [Nodes -> Nat]]

Typed(t, D) ==
  /\ Shaped(t, D)
  /\ \A n \in Nodes \ D : t.children[n] = Leafless /\ t.parent[n] = Nil

Of(sub, n) == IF n = Nil THEN {} ELSE sub[n]

(* Key a comes on side s of key b.                                          *)
Before(s, a, b) == IF s = Left THEN a < b ELSE b < a

Linked(t, D) ==
  /\ \A n \in D : \A s \in Side :
       t.children[n][s] # Nil => t.parent[t.children[n][s]] = n
  /\ \A n \in D :
       IF n = t.root THEN t.parent[n] = Nil
       ELSE t.parent[n] # Nil /\ \E s \in Side : t.children[t.parent[n]][s] = n

Nested(t, D, K, sub) ==
  /\ sub \in [D -> SUBSET D]
  /\ \A n \in D :
       sub[n] = {n} \cup Of(sub, t.children[n][Left]) \cup Of(sub, t.children[n][Right])
  /\ \A n \in D : \A s \in Side : \A m \in Of(sub, t.children[n][s]) : Before(s, K[m], K[n])
  /\ IF t.root = Nil THEN D = {} ELSE sub[t.root] = D

Keyed(D, K) == /\ D \subseteq Nodes /\ IsFiniteSet(D) /\ K \in [D -> Int]

Ordered(t, D, K, sub) ==
  Keyed(D, K) /\ Typed(t, D) /\ Linked(t, D) /\ Nested(t, D, K, sub)

-----------------------------------------------------------------------------
(* Trees.                                                                   *)

(* A set of numbers has a least one.                                        *)
LEMMA LeastOf ==
  ASSUME NEW I \in SUBSET Nat, I # {}
  PROVE  \E i \in I : \A j \in I : i <= j
<1> DEFINE Below == OpToRel(<, Nat)
<1>1. IsWellFoundedOn(Below, Nat)
  BY NatLessThanWellFounded
<1>2. PICK i \in I : \A j \in I : ~ (<<j, i>> \in Below)
  BY <1>1, WFMin
<1>3. ASSUME NEW j \in I PROVE i <= j
  <2>1. Below = {p \in Nat \X Nat : p[1] < p[2]}
    BY DEF OpToRel
  <2>2. <<j, i>> \in Nat \X Nat /\ <<j, i>>[1] = j /\ <<j, i>>[2] = i
    OBVIOUS
  <2>3. ~ j < i
    BY <1>2, <2>1, <2>2
  <2>. QED  BY <2>3
<1>. QED  BY <1>3

(* Where links lead.                                                        *)
LEMMA ShapedTypes ==
  ASSUME NEW t, NEW D, D \subseteq Nodes, Shaped(t, D)
  PROVE  /\ Nil \notin D /\ Nil \notin Nodes /\ t.root \in D \cup {Nil}
         /\ \A n \in Nodes : t.parent[n] \in D \cup {Nil} /\ t.height[n] \in Nat
         /\ \A n \in Nodes : \A s \in Side : t.children[n][s] \in D \cup {Nil}
<1>1. /\ t.root \in D \cup {Nil} /\ t.children \in [Nodes -> [Side -> D \cup {Nil}]]
      /\ t.parent \in [Nodes -> D \cup {Nil}] /\ t.height \in [Nodes -> Nat]
  BY DEF Shaped
<1>2. \A n \in Nodes : t.children[n] \in [Side -> D \cup {Nil}]
  BY <1>1
<1>3. \A n \in Nodes : \A s \in Side : t.children[n][s] \in D \cup {Nil}
  BY <1>2
<1>. QED  BY <1>1, <1>3, AvlTreeAssumption

(* Links and heights of a tree have their types, and no node is Nil.        *)
LEMMA LinkTypes ==
  ASSUME NEW t, NEW D, D \subseteq Nodes, Typed(t, D)
  PROVE  /\ Nil \notin D /\ Nil \notin Nodes /\ t.root \in D \cup {Nil}
         /\ \A n \in Nodes : t.parent[n] \in D \cup {Nil} /\ t.height[n] \in Nat
         /\ \A n \in Nodes : \A s \in Side : t.children[n][s] \in D \cup {Nil}
BY ShapedTypes DEF Typed

(* A child is a node whose nodes are on one side only.                      *)
LEMMA Kid ==
  ASSUME NEW t, NEW D, NEW K, NEW sub, Ordered(t, D, K, sub),
         NEW n \in D, NEW s \in Side
  PROVE  LET c == t.children[n][s]
             o == t.children[n][1 - s]
         IN  /\ 1 - s \in Side /\ 1 - (1 - s) = s /\ 1 - s # s
             /\ c \in D \cup {Nil} /\ o \in D \cup {Nil}
             /\ sub[n] = {n} \cup Of(sub, c) \cup Of(sub, o)
             /\ n \notin Of(sub, c)
             /\ Of(sub, c) \cap Of(sub, o) = {}
             /\ c # Nil => c \in D /\ c \in sub[c] /\ c # n /\ c # o /\ t.parent[c] = n
<1> DEFINE c == t.children[n][s]
           o == t.children[n][1 - s]
<1>1. 1 - s \in Side /\ 1 - (1 - s) = s /\ 1 - s # s /\ {s, 1 - s} = {Left, Right}
  BY DEF Side, Left, Right
<1>2. n \in Nodes /\ c \in D \cup {Nil} /\ o \in D \cup {Nil} /\ Nil \notin D
  BY <1>1, LinkTypes DEF Ordered, Keyed
<1>3. sub[n] = {n} \cup Of(sub, c) \cup Of(sub, o)
  BY <1>1 DEF Ordered, Nested, Side, Left, Right
<1>4. \A m \in Of(sub, c) : m \in D /\ Before(s, K[m], K[n])
  BY <1>2 DEF Ordered, Nested, Of
<1>5. \A m \in Of(sub, o) : m \in D /\ Before(1 - s, K[m], K[n])
  BY <1>1, <1>2 DEF Ordered, Nested, Of
<1>6. \A m \in D : K[m] \in Int
  BY DEF Ordered, Keyed
<1>7. n \notin Of(sub, c)
  BY <1>4, <1>6 DEF Before
<1>8. Of(sub, c) \cap Of(sub, o) = {}
  BY <1>1, <1>4, <1>5, <1>6 DEF Before, Side, Left, Right
<1>9. ASSUME c # Nil PROVE c \in D /\ c \in sub[c] /\ t.parent[c] = n
  BY <1>2, <1>9 DEF Ordered, Nested, Linked
<1>10. ASSUME c # Nil PROVE c # n /\ c # o
  <2>1. c \in Of(sub, c)
    BY <1>9, <1>10 DEF Of
  <2>. QED  BY <1>7, <1>8, <2>1
<1>. QED  BY <1>1, <1>2, <1>3, <1>7, <1>8, <1>9, <1>10

(* A child that is there, and the nodes below it, are below its parent.     *)
LEMMA KidIn ==
  ASSUME NEW t, NEW D, NEW K, NEW sub, Ordered(t, D, K, sub),
         NEW n \in D, NEW s \in Side, t.children[n][s] # Nil
  PROVE  LET c == t.children[n][s]
         IN  /\ c \in D /\ c \in sub[c] /\ sub[c] \subseteq sub[n] /\ c \in sub[n]
             /\ n \notin sub[c] /\ t.parent[c] = n
<1> DEFINE c == t.children[n][s]
<1>1. Of(sub, c) = sub[c]
  BY DEF Of
<1>2. /\ sub[n] = {n} \cup Of(sub, c) \cup Of(sub, t.children[n][1 - s])
      /\ n \notin Of(sub, c) /\ c \in D /\ c \in sub[c] /\ t.parent[c] = n
  BY Kid
<1>. QED  BY <1>1, <1>2

(* Induction down the tree: some node of B has no child in B.               *)
LEMMA Lowest ==
  ASSUME NEW t, NEW D, NEW K, NEW sub, Ordered(t, D, K, sub),
         NEW B \in SUBSET D, B # {}
  PROVE  \E n \in B : \A s \in Side : t.children[n][s] \notin B
<1> DEFINE Ranks == {Cardinality(sub[n]) : n \in B}
<1>1. \A n \in D : sub[n] \in SUBSET D /\ IsFiniteSet(sub[n]) /\ Cardinality(sub[n]) \in Nat
  <2>1. \A n \in D : sub[n] \in SUBSET D /\ IsFiniteSet(D)
    BY DEF Ordered, Nested, Keyed
  <2>. QED  BY <2>1, FS_Subset, FS_CardinalityType
<1>2. PICK r \in Ranks : \A i \in Ranks : r <= i
  <2>1. Ranks \in SUBSET Nat /\ Ranks # {}
    BY <1>1
  <2> HIDE DEF Ranks
  <2>. QED  BY <2>1, LeastOf
<1>3. PICK n \in B : r = Cardinality(sub[n])
  OBVIOUS
<1>4. ASSUME NEW s \in Side, t.children[n][s] \in B PROVE FALSE
  <2> DEFINE c == t.children[n][s]
  <2>1. c \in D /\ c # Nil
    BY <1>4, AvlTreeAssumption DEF Ordered, Keyed
  <2>2. sub[c] \subseteq sub[n] /\ n \notin sub[c] /\ n \in sub[n]
    BY <2>1, Kid DEF Of
  <2>3. Cardinality(sub[c]) <= Cardinality(sub[n]) /\ Cardinality(sub[c]) # Cardinality(sub[n])
    BY <1>1, <2>1, <2>2, FS_Subset
  <2>4. Cardinality(sub[c]) \in Ranks
    BY <1>4
  <2>. QED  BY <1>1, <1>2, <1>3, <2>1, <2>3, <2>4
<1>. QED  BY <1>4

(* What is below a node has its nodes below it too.                         *)
LEMMA Within ==
  ASSUME NEW t, NEW D, NEW K, NEW sub, Ordered(t, D, K, sub),
         NEW n \in D, NEW m \in sub[n]
  PROVE  m \in D /\ m \in sub[m] /\ sub[m] \subseteq sub[n]
<1>1. \A x \in D : sub[x] \in SUBSET D /\ x \in sub[x]
  BY DEF Ordered, Nested
<1> DEFINE B == {x \in D : \E y \in sub[x] : ~ sub[y] \subseteq sub[x]}
<1>2. SUFFICES ASSUME B # {} PROVE FALSE
  BY <1>1
<1>3. PICK x \in B : \A s \in Side : t.children[x][s] \notin B
  <2>1. B \in SUBSET D
    OBVIOUS
  <2> HIDE DEF B
  <2>. QED  BY <1>2, <2>1, Lowest
<1>4. PICK y \in sub[x] : ~ sub[y] \subseteq sub[x]
  OBVIOUS
<1>5. PICK s \in Side : y \in Of(sub, t.children[x][s])
  <2>1. y # x
    BY <1>4
  <2>2. Left \in Side /\ Right \in Side
    BY DEF Side
  <2>. QED  BY <1>4, <2>1, <2>2 DEF Ordered, Nested
<1>6. /\ t.children[x][s] \in D /\ y \in sub[t.children[x][s]]
      /\ sub[t.children[x][s]] \subseteq sub[x]
  <2>1. t.children[x][s] # Nil
    BY <1>5 DEF Of
  <2>. QED  BY <1>5, <2>1, KidIn DEF Of
<1>. QED  BY <1>3, <1>4, <1>6
(* Links from below a node lead to nodes below it.                          *)
LEMMA Closed ==
  ASSUME NEW t, NEW D, NEW K, NEW sub, Ordered(t, D, K, sub),
         NEW n \in D, NEW m \in sub[n], NEW s \in Side
  PROVE  t.children[m][s] = Nil \/ (t.children[m][s] \in sub[n] /\ t.children[m][s] # n)
<1> DEFINE c == t.children[m][s]
<1>1. m \in D /\ sub[m] \subseteq sub[n]
  BY Within
<1>2. SUFFICES ASSUME c # Nil PROVE c \in sub[n] /\ c # n
  OBVIOUS
<1>3. c \in D /\ c \in sub[c] /\ c \in sub[m] /\ m \notin sub[c]
  BY <1>1, <1>2, KidIn
<1>4. c # n
  BY <1>1, <1>3
<1>. QED  BY <1>1, <1>3, <1>4

(* A node below n other than n has a parent there.                          *)
LEMMA ParentIn ==
  ASSUME NEW t, NEW D, NEW K, NEW sub, Ordered(t, D, K, sub),
         NEW n \in D, NEW m \in sub[n], m # n
  PROVE  t.parent[m] \in sub[n] /\ t.parent[m] # Nil
<1> DEFINE B == {x \in D : \E y \in sub[x] : y # x /\ t.parent[y] \notin sub[x]}
<1>1. Nil \notin D /\ \A x \in D : sub[x] \in SUBSET D
  BY LinkTypes DEF Ordered, Nested, Keyed
<1>2. SUFFICES ASSUME B # {} PROVE FALSE
  BY <1>1
<1>3. PICK x \in B : \A s \in Side : t.children[x][s] \notin B
  <2>1. B \in SUBSET D
    OBVIOUS
  <2> HIDE DEF B
  <2>. QED  BY <1>2, <2>1, Lowest
<1>4. PICK y \in sub[x] : y # x /\ t.parent[y] \notin sub[x]
  OBVIOUS
<1>5. PICK s \in Side : y \in Of(sub, t.children[x][s])
  <2>2. Left \in Side /\ Right \in Side
    BY DEF Side
  <2>. QED  BY <1>4, <2>2 DEF Ordered, Nested
<1>6. /\ t.children[x][s] \in D /\ y \in sub[t.children[x][s]]
      /\ sub[t.children[x][s]] \subseteq sub[x] /\ t.parent[t.children[x][s]] = x /\ x \in sub[x]
  <2>1. t.children[x][s] # Nil
    BY <1>5 DEF Of
  <2>2. x \in sub[x]
    BY DEF Ordered, Nested
  <2>. QED  BY <1>5, <2>1, <2>2, KidIn DEF Of
<1>. QED  BY <1>3, <1>4, <1>6

(* A key is in one node.                                                    *)
LEMMA Distinct ==
  ASSUME NEW t, NEW D, NEW K, NEW sub, Ordered(t, D, K, sub),
         NEW m \in D, NEW n \in D, K[m] = K[n]
  PROVE  m = n
<1> DEFINE B == {x \in D : \E y \in sub[x] : \E z \in sub[x] : K[y] = K[z] /\ y # z}
<1>1. t.root \in D /\ sub[t.root] = D
  BY LinkTypes DEF Ordered, Nested, Keyed
<1>2. SUFFICES ASSUME B # {} PROVE FALSE
  BY <1>1
<1>3. PICK x \in B : \A s \in Side : t.children[x][s] \notin B
  <2>1. B \in SUBSET D
    OBVIOUS
  <2> HIDE DEF B
  <2>. QED  BY <1>2, <2>1, Lowest
<1>4. PICK y \in sub[x], z \in sub[x] : K[y] = K[z] /\ y # z
  OBVIOUS
<1> DEFINE l == t.children[x][Left]
           r == t.children[x][Right]
<1>5. /\ x \in D /\ sub[x] \in SUBSET D /\ \A i \in D : K[i] \in Int
      /\ sub[x] = {x} \cup Of(sub, l) \cup Of(sub, r)
      /\ \A i \in Of(sub, l) : K[i] < K[x]
      /\ \A i \in Of(sub, r) : K[x] < K[i]
  <2>1. Left \in Side /\ Right \in Side /\ Left # Right
    BY DEF Side, Left, Right
  <2>. QED  BY <2>1 DEF Ordered, Nested, Keyed, Before
<1>6. /\ l \in D \cup {Nil} /\ r \in D \cup {Nil} /\ l \notin B /\ r \notin B
  <2>1. Left \in Side /\ Right \in Side /\ x \in Nodes
    BY <1>5 DEF Side, Ordered, Keyed
  <2>. QED  BY <1>3, <2>1, LinkTypes DEF Ordered, Keyed
<1>7. y \in D /\ z \in D /\ K[y] \in Int /\ K[z] \in Int /\ K[x] \in Int
  BY <1>4, <1>5
<1>8. \/ y \in Of(sub, l) /\ z \in Of(sub, l)
      \/ y \in Of(sub, r) /\ z \in Of(sub, r)
  BY <1>4, <1>5, <1>7
<1>. QED  BY <1>4, <1>6, <1>8 DEF Of

-----------------------------------------------------------------------------
(* Recursion down the tree.                                                 *)

Solves(t, V, z, G, S, f) ==
  /\ f \in [Nodes \cup {Nil} -> V] /\ f[Nil] = z
  /\ \A n \in S : f[n] = G[<<n, f[t.children[n][Left]], f[t.children[n][Right]]>>]

(* Functions that solve the recursion below the children make one that solves
   it at the node.                                                          *)
LEMMA Joined ==
  ASSUME NEW t, NEW D, NEW K, NEW sub, Ordered(t, D, K, sub),
         NEW V, NEW z \in V, NEW G \in [Nodes \X V \X V -> V], NEW n \in D,
         NEW f, Solves(t, V, z, G, Of(sub, t.children[n][Left]), f),
         NEW g, Solves(t, V, z, G, Of(sub, t.children[n][Right]), g)
  PROVE  \E h : Solves(t, V, z, G, sub[n], h)
<1> DEFINE l == t.children[n][Left]
           r == t.children[n][Right]
           A == Of(sub, l)
           B == Of(sub, r)
           h == [m \in Nodes \cup {Nil} |->
                   IF m = n THEN G[<<n, f[l], g[r]>>] ELSE IF m \in A THEN f[m]
                   ELSE IF m \in B THEN g[m] ELSE z]
<1>1. /\ Nil \notin Nodes /\ n \in Nodes /\ sub[n] \in SUBSET D /\ D \subseteq Nodes
      /\ l \in Nodes \cup {Nil} /\ r \in Nodes \cup {Nil}
  <2>1. Left \in Side /\ Right \in Side
    BY DEF Side
  <2>. QED  BY <2>1, LinkTypes DEF Ordered, Keyed, Nested
<1>2. /\ sub[n] = {n} \cup A \cup B /\ n \notin A /\ n \notin B /\ A \cap B = {}
      /\ l # Nil => l \in A /\ l \in D /\ A = sub[l]
      /\ r # Nil => r \in B /\ r \in D /\ B = sub[r]
      /\ Nil \notin A \cup B
  <2>1. Left \in Side /\ Right \in Side /\ 1 - Left = Right /\ 1 - Right = Left
    BY DEF Side, Left, Right
  <2>2. /\ sub[n] = {n} \cup A \cup B /\ n \notin A /\ n \notin B /\ A \cap B = {}
        /\ l # Nil => l \in sub[l] /\ l \in D
        /\ r # Nil => r \in sub[r] /\ r \in D
    BY <2>1, Kid
  <2>. QED  BY <1>1, <2>2 DEF Of
<1>3. /\ f \in [Nodes \cup {Nil} -> V] /\ f[Nil] = z
      /\ g \in [Nodes \cup {Nil} -> V] /\ g[Nil] = z
      /\ \A m \in A : f[m] = G[<<m, f[t.children[m][Left]], f[t.children[m][Right]]>>]
      /\ \A m \in B : g[m] = G[<<m, g[t.children[m][Left]], g[t.children[m][Right]]>>]
  BY DEF Solves
<1>4. h \in [Nodes \cup {Nil} -> V] /\ h[Nil] = z
  <2>1. f[l] \in V /\ g[r] \in V
    BY <1>1, <1>3
  <2>2. G[<<n, f[l], g[r]>>] \in V
    BY <1>1, <2>1
  <2>. QED  BY <1>1, <1>2, <1>3, <2>2
<1>5. /\ h[n] = G[<<n, f[l], g[r]>>]
      /\ \A m \in A \cup {Nil} : h[m] = f[m]
      /\ \A m \in B \cup {Nil} : h[m] = g[m]
  BY <1>1, <1>2, <1>3
<1> HIDE DEF h
<1>6. h[n] = G[<<n, h[l], h[r]>>]
  <2>1. h[l] = f[l] /\ h[r] = g[r]
    BY <1>2, <1>5
  <2>. QED  BY <1>5, <2>1
<1>7. ASSUME NEW m \in A, NEW s \in Side PROVE t.children[m][s] \in A \cup {Nil}
  <2>1. l # Nil
    BY DEF Of
  <2>. QED  BY <1>2, <2>1, Closed
<1>8. ASSUME NEW m \in B, NEW s \in Side PROVE t.children[m][s] \in B \cup {Nil}
  <2>1. r # Nil
    BY DEF Of
  <2>. QED  BY <1>2, <2>1, Closed
<1>9. ASSUME NEW m \in sub[n]
      PROVE  h[m] = G[<<m, h[t.children[m][Left]], h[t.children[m][Right]]>>]
  <2>1. Left \in Side /\ Right \in Side
    BY DEF Side
  <2>2. CASE m = n
    BY <1>6, <2>2
  <2>3. CASE m \in A
    BY <1>3, <1>5, <1>7, <2>1, <2>3
  <2>4. CASE m \in B
    BY <1>3, <1>5, <1>8, <2>1, <2>4
  <2>. QED  BY <1>2, <2>2, <2>3, <2>4
<1>. QED  BY <1>4, <1>9 DEF Solves

(* What a recursive function over a tree computes exists.                   *)
LEMMA Recursion ==
  ASSUME NEW t, NEW D, NEW K, NEW sub, Ordered(t, D, K, sub),
         NEW V, NEW z \in V, NEW G \in [Nodes \X V \X V -> V]
  PROVE  \E f : Solves(t, V, z, G, Nodes, f)
<1> DEFINE B == {n \in D : ~ \E f : Solves(t, V, z, G, sub[n], f)}
<1>0. \E f : Solves(t, V, z, G, {}, f)
  <2> DEFINE f == [n \in Nodes \cup {Nil} |-> z]
  <2>1. f \in [Nodes \cup {Nil} -> V] /\ f[Nil] = z
    OBVIOUS
  <2> HIDE DEF f
  <2>. QED  BY <2>1 DEF Solves
<1>1. B = {}
  <2>1. SUFFICES ASSUME B # {} PROVE FALSE
    OBVIOUS
  <2>2. PICK n \in B : \A s \in Side : t.children[n][s] \notin B
    <3>1. B \in SUBSET D
      OBVIOUS
    <3> HIDE DEF B
    <3>. QED  BY <2>1, <3>1, Lowest
  <2>3. ASSUME NEW s \in Side PROVE \E f : Solves(t, V, z, G, Of(sub, t.children[n][s]), f)
    <3>1. t.children[n][s] # Nil => t.children[n][s] \in D
      BY Kid
    <3>. QED  BY <1>0, <2>2, <3>1 DEF Of
  <2>4. Left \in Side /\ Right \in Side
    BY DEF Side
  <2>5. PICK f : Solves(t, V, z, G, Of(sub, t.children[n][Left]), f)
    BY <2>3, <2>4
  <2>6. PICK g : Solves(t, V, z, G, Of(sub, t.children[n][Right]), g)
    BY <2>3, <2>4
  <2>7. \E h : Solves(t, V, z, G, sub[n], h)
    BY <2>5, <2>6, Joined
  <2>. QED  BY <2>7
<1>2. PICK f : Solves(t, V, z, G, D, f)
  <2>1. CASE t.root = Nil
    BY <1>0, <2>1 DEF Ordered, Nested
  <2>2. CASE t.root # Nil
    <3>1. t.root \in D /\ sub[t.root] = D
      BY <2>2, LinkTypes DEF Ordered, Nested, Keyed
    <3>. QED  BY <1>1, <3>1
  <2>. QED  BY <2>1, <2>2
<1> DEFINE h == [n \in Nodes \cup {Nil} |->
                   IF n \in D \cup {Nil} THEN f[n] ELSE G[<<n, z, z>>]]
<1>3. /\ f \in [Nodes \cup {Nil} -> V] /\ f[Nil] = z /\ D \subseteq Nodes /\ Nil \notin Nodes
      /\ \A n \in D : f[n] = G[<<n, f[t.children[n][Left]], f[t.children[n][Right]]>>]
  BY <1>2, LinkTypes DEF Solves, Ordered, Keyed
<1>4. /\ h \in [Nodes \cup {Nil} -> V]
      /\ \A n \in D \cup {Nil} : h[n] = f[n]
      /\ \A n \in Nodes \ D : h[n] = G[<<n, z, z>>]
  <2>1. \A n \in Nodes : G[<<n, z, z>>] \in V
    OBVIOUS
  <2>. QED  BY <1>3, <2>1
<1> HIDE DEF h
<1>5. ASSUME NEW n \in Nodes
      PROVE  h[n] = G[<<n, h[t.children[n][Left]], h[t.children[n][Right]]>>]
  <2>1. Left \in Side /\ Right \in Side
    BY DEF Side
  <2>2. CASE n \in D
    <3>1. t.children[n][Left] \in D \cup {Nil} /\ t.children[n][Right] \in D \cup {Nil}
      BY <2>1, LinkTypes DEF Ordered, Keyed
    <3>. QED  BY <1>3, <1>4, <2>2, <3>1
  <2>3. CASE n \notin D
    <3>1. t.children[n][Left] = Nil /\ t.children[n][Right] = Nil
      BY <2>1, <2>3 DEF Ordered, Typed, Leafless
    <3>2. h[Nil] = z
      BY <1>3, <1>4
    <3>. QED  BY <1>4, <2>3, <3>1, <3>2
  <2>. QED  BY <2>2, <2>3
<1>. QED  BY <1>3, <1>4, <1>5 DEF Solves

(* A node's parent is not below it.                                         *)
LEMMA ParentOut ==
  ASSUME NEW t, NEW D, NEW K, NEW sub, Ordered(t, D, K, sub), NEW n \in D
  PROVE  /\ t.parent[n] \in D \cup {Nil} /\ t.parent[n] \notin sub[n]
         /\ t.parent[n] # Nil =>
              /\ ParentSide(t, n) \in Side /\ t.children[t.parent[n]][ParentSide(t, n)] = n
              /\ t.children[t.parent[n]][1 - ParentSide(t, n)] # n
<1> DEFINE p == t.parent[n]
           s == ParentSide(t, n)
<1>1. p \in D \cup {Nil} /\ Nil \notin D /\ sub[n] \subseteq D /\ n \in D
  BY LinkTypes DEF Ordered, Keyed, Nested
<1>2. SUFFICES ASSUME p # Nil
      PROVE  p \notin sub[n] /\ s \in Side /\ t.children[p][s] = n /\ t.children[p][1 - s] # n
  BY <1>1
<1>3. s \in Side /\ t.children[p][s] = n
  <2>1. \E i \in Side : t.children[p][i] = n
    BY <1>2 DEF Ordered, Linked
  <2>. QED  BY <2>1 DEF ParentSide, Side, Left, Right
<1>4. p \notin sub[n]
  BY <1>1, <1>2, <1>3, KidIn
<1>5. t.children[p][1 - s] # n
  BY <1>1, <1>2, <1>3, Kid
<1>. QED  BY <1>3, <1>4, <1>5

-----------------------------------------------------------------------------
(* The changes of links.                                                    *)

(* The height a node should have.                                           *)
Tall(t, n) ==
  LET l == Height(t, t.children[n][Left])
      r == Height(t, t.children[n][Right])
  IN  1 + IF l > r THEN l ELSE r

(* Heights are numbers.                                                     *)
LEMMA HeightNat ==
  ASSUME NEW t, NEW D, D \subseteq Nodes, Shaped(t, D), NEW n \in Nodes
  PROVE  /\ Tall(t, n) \in Nat
         /\ \A s \in Side : Height(t, t.children[n][s]) \in Nat
<1>1. \A s \in Side : Height(t, t.children[n][s]) \in Nat
  BY ShapedTypes DEF Height
<1>2. Left \in Side /\ Right \in Side
  BY DEF Side
<1>. QED  BY <1>1, <1>2 DEF Tall

(* Updating the height of a node changes nothing else.                      *)
LEMMA UpdateHeightIs ==
  ASSUME NEW t, NEW D, D \subseteq Nodes, Shaped(t, D), NEW n \in Nodes
  PROVE  LET u == UpdateHeight(t, n)
         IN  /\ Shaped(u, D) /\ u.root = t.root /\ u.children = t.children
             /\ u.parent = t.parent /\ u.height = [t.height EXCEPT ![n] = Tall(t, n)]
<1>1. UpdateHeight(t, n) = [t EXCEPT !.height[n] = Tall(t, n)]
  BY DEF UpdateHeight, Tall
<1> DEFINE h == [t.height EXCEPT ![n] = Tall(t, n)]
<1>2. h \in [Nodes -> Nat]
  <2>1. t.height \in [Nodes -> Nat] /\ Tall(t, n) \in Nat
    BY HeightNat DEF Shaped
  <2>. QED  BY <2>1
<1>3. UpdateHeight(t, n) = [t EXCEPT !.height = h]
  BY <1>1 DEF Shaped
<1> HIDE DEF h
<1>4. LET u == [t EXCEPT !.height = h]
      IN  /\ Shaped(u, D) /\ u.root = t.root /\ u.children = t.children
          /\ u.parent = t.parent /\ u.height = h
  BY <1>2 DEF Shaped
<1>. QED  BY <1>3, <1>4 DEF h

(* Replacing a node changes the link down to it and the parent of the other. *)
LEMMA ReplaceIs ==
  ASSUME NEW t, NEW D, D \subseteq Nodes, Shaped(t, D), NEW n \in D, NEW m \in D \cup {Nil}
  PROVE  LET p == t.parent[n]
             u == Replace(t, n, m)
         IN  /\ Shaped(u, D)
             /\ u.root = IF p = Nil THEN m ELSE t.root
             /\ u.parent = IF m = Nil THEN t.parent ELSE [t.parent EXCEPT ![m] = p]
             /\ u.children = IF p = Nil THEN t.children
                             ELSE [t.children EXCEPT ![p][ParentSide(t, n)] = m]
             /\ \A i \in Nodes : i # p => u.height[i] = t.height[i]
<1> DEFINE p == t.parent[n]
           s == ParentSide(t, n)
           v == IF m = Nil THEN t ELSE [t EXCEPT !.parent[m] = p]
           w == [v EXCEPT !.children[p][s] = m]
<1>1. p \in D \cup {Nil} /\ n \in Nodes /\ s \in Side /\ Nil \notin Nodes
  BY ShapedTypes DEF ParentSide, Side
<1>2. /\ Shaped(v, D) /\ v.root = t.root /\ v.children = t.children /\ v.height = t.height
      /\ v.parent = IF m = Nil THEN t.parent ELSE [t.parent EXCEPT ![m] = p]
  <2>1. CASE m = Nil
    BY <2>1
  <2>2. CASE m # Nil
    BY <1>1, <2>2 DEF Shaped
  <2>. QED  BY <2>1, <2>2
<1>3. CASE p = Nil
  <2>1. Replace(t, n, m) = [v EXCEPT !.root = m]
    BY <1>3 DEF Replace
  <2> HIDE DEF v
  <2>2. LET u == [v EXCEPT !.root = m]
        IN  /\ Shaped(u, D) /\ u.root = m /\ u.children = v.children
            /\ u.parent = v.parent /\ u.height = v.height
    BY <1>2 DEF Shaped
  <2>. QED  BY <1>2, <1>3, <2>1, <2>2
<1>4. CASE p # Nil
  <2>1. Replace(t, n, m) = UpdateHeight(w, p)
    BY <1>4 DEF Replace
  <2>2. /\ Shaped(w, D) /\ w.root = v.root /\ w.height = v.height /\ w.parent = v.parent
        /\ w.children = [v.children EXCEPT ![p][s] = m]
    <3> HIDE DEF v, s
    <3> DEFINE g == [v.children EXCEPT ![p][s] = m]
    <3>1. p \in Nodes /\ v.children \in [Nodes -> [Side -> D \cup {Nil}]]
      BY <1>1, <1>2, <1>4 DEF Shaped
    <3>2. g \in [Nodes -> [Side -> D \cup {Nil}]]
      BY <1>1, <3>1
    <3>3. w = [v EXCEPT !.children = g]
      BY <1>2 DEF Shaped
    <3> HIDE DEF w, g
    <3>4. LET u == [v EXCEPT !.children = g]
          IN  /\ Shaped(u, D) /\ u.root = v.root /\ u.height = v.height
              /\ u.parent = v.parent /\ u.children = g
      BY <1>2, <3>2 DEF Shaped
    <3>. QED  BY <3>3, <3>4 DEF g
  <2>3. LET u == UpdateHeight(w, p)
        IN  /\ Shaped(u, D) /\ u.root = w.root /\ u.children = w.children
            /\ u.parent = w.parent /\ u.height = [w.height EXCEPT ![p] = Tall(w, p)]
    <3> HIDE DEF w
    <3>. QED  BY <1>1, <1>4, <2>2, UpdateHeightIs
  <2> HIDE DEF v, w
  <2>4. \A i \in Nodes : i # p => UpdateHeight(w, p).height[i] = t.height[i]
    BY <1>2, <2>2, <2>3 DEF Shaped
  <2>. QED  BY <1>2, <1>4, <2>1, <2>2, <2>3, <2>4
<1>. QED  BY <1>3, <1>4

(* What a rotation at n does with the links of the nodes around.            *)
Turns(t, u, n, d) ==
  LET top == t.children[n][1 - d]
      moved == t.children[top][d]
      p == t.parent[n]
      s == ParentSide(t, n)
  IN  /\ u.root = IF p = Nil THEN top ELSE t.root
      /\ \A m \in Nodes :
           u.parent[m] = IF m = n THEN top ELSE IF m = top THEN p
                         ELSE IF m = moved THEN n ELSE t.parent[m]
      /\ u.children[n][1 - d] = moved /\ u.children[n][d] = t.children[n][d]
      /\ u.children[top][d] = n /\ u.children[top][1 - d] = t.children[top][1 - d]
      /\ p # Nil => u.children[p][s] = top /\ u.children[p][1 - s] = t.children[p][1 - s]
      /\ \A m \in Nodes : m \notin {n, top, p} => u.children[m] = t.children[m]
      /\ \A m \in Nodes : m \notin {n, top, p} => u.height[m] = t.height[m]
      /\ u.height[n] = Tall(u, n)

(* Who is around a node that is rotated: all different.                     *)
Apart(t, D, sub, n, d) ==
  LET top == t.children[n][1 - d]
      low == t.children[n][d]
      moved == t.children[top][d]
      outer == t.children[top][1 - d]
      p == t.parent[n]
  IN  /\ top \in D /\ top # n /\ t.parent[top] = n /\ top \in sub[n]
      /\ {low, moved, outer, p} \subseteq D \cup {Nil}
      /\ n \notin {low, moved, outer, p} /\ top \notin {low, moved, outer, p}
      /\ p # Nil => p \notin {low, moved, outer}
      /\ moved # Nil => moved \notin {low, outer} /\ t.parent[moved] = top
      /\ low # Nil => t.parent[low] = n /\ low # outer
      /\ outer # Nil => t.parent[outer] = top

(* The nodes around a rotation are different ones.                          *)
LEMMA Around ==
  ASSUME NEW t, NEW D, NEW K, NEW sub, Ordered(t, D, K, sub),
         NEW n \in D, NEW d \in Side, t.children[n][1 - d] # Nil
  PROVE  Apart(t, D, sub, n, d)
<1> DEFINE top == t.children[n][1 - d]
           low == t.children[n][d]
           moved == t.children[top][d]
           outer == t.children[top][1 - d]
           p == t.parent[n]
<1>1. 1 - d \in Side /\ 1 - (1 - d) = d
  BY DEF Side, Left, Right
<1>2. Nil \notin D /\ \A m \in D : m \in sub[m]
  BY LinkTypes DEF Ordered, Keyed, Nested
<1>3. /\ top \in D /\ top \in sub[top] /\ sub[top] \subseteq sub[n] /\ top \in sub[n]
      /\ n \notin sub[top] /\ t.parent[top] = n
  BY <1>1, KidIn
<1>4. low \in D \cup {Nil} /\ top # low /\ Of(sub, top) \cap Of(sub, low) = {}
  BY <1>1, Kid
<1>5. low # Nil => low \in sub[low] /\ low \in sub[n] /\ n \notin sub[low] /\ t.parent[low] = n
  BY KidIn
<1>6. /\ moved \in D \cup {Nil} /\ outer \in D \cup {Nil}
      /\ moved # Nil => moved # outer
  BY <1>1, <1>3, Kid
<1>7. moved # Nil => moved \in sub[top] /\ top \notin sub[moved] /\ moved \in sub[moved]
                     /\ t.parent[moved] = top
  BY <1>3, KidIn
<1>8. outer # Nil => outer \in sub[top] /\ top \notin sub[outer] /\ outer \in sub[outer]
                     /\ t.parent[outer] = top
  BY <1>1, <1>3, KidIn
<1>9. p \in D \cup {Nil} /\ p \notin sub[n]
  BY ParentOut
<1>10. low # Nil => low \notin {moved, outer}
  BY <1>2, <1>3, <1>4, <1>5, <1>7, <1>8 DEF Of
<1> HIDE DEF top, low, moved, outer, p
<1>11. top # n /\ n \notin {low, moved, outer, p} /\ top \notin {low, moved, outer, p}
  BY <1>2, <1>3, <1>4, <1>5, <1>6, <1>7, <1>8, <1>9
<1>12. p # Nil => p \notin {low, moved, outer}
  BY <1>3, <1>5, <1>7, <1>8, <1>9
<1>13. {low, moved, outer, p} \subseteq D \cup {Nil}
  BY <1>4, <1>6, <1>9
<1>14. moved # Nil => moved \notin {low, outer}
  BY <1>6, <1>10
<1>. QED  BY <1>3, <1>5, <1>7, <1>8, <1>10, <1>11, <1>12, <1>13, <1>14
         DEF Apart, top, low, moved, outer, p

(* A rotation turns the links as Turns says.                                *)
LEMMA RotateTurns ==
  ASSUME NEW t, NEW D, NEW K, NEW sub, Ordered(t, D, K, sub),
         NEW n \in D, NEW d \in Side, t.children[n][1 - d] # Nil
  PROVE  Shaped(Rotate(t, n, d), D) /\ Turns(t, Rotate(t, n, d), n, d)
<1> DEFINE top == t.children[n][1 - d]
           low == t.children[n][d]
           moved == t.children[top][d]
           outer == t.children[top][1 - d]
           p == t.parent[n]
           s == ParentSide(t, n)
           v == Replace(t, n, top)
           w == [v EXCEPT !.children[n][1 - d] = moved,
                          !.children[top][d] = n, !.parent[n] = top]
           x == IF moved = Nil THEN w ELSE [w EXCEPT !.parent[moved] = n]
           y == UpdateHeight(x, top)
           z == UpdateHeight(y, n)
<1>1. /\ Shaped(t, D) /\ D \subseteq Nodes /\ Nil \notin Nodes /\ n \in Nodes
      /\ d \in Side /\ 1 - d \in Side /\ 1 - d # d
  BY LinkTypes DEF Ordered, Keyed, Typed, Side, Left, Right
<1>2. /\ top \in D /\ top # n /\ {low, moved, outer, p} \subseteq D \cup {Nil}
      /\ n \notin {low, moved, outer, p} /\ top \notin {low, moved, outer, p}
      /\ moved # Nil => moved \notin {low, outer}
  <2>1. Apart(t, D, sub, n, d)
    BY Around
  <2>. QED  BY <2>1 DEF Apart
<1>3. p # Nil => s \in Side /\ 1 - s \in Side /\ 1 - s # s
  BY ParentOut DEF Side, Left, Right
<1>4. Rotate(t, n, d) = z
  BY DEF Rotate
<1>5. /\ Shaped(v, D) /\ v.root = IF p = Nil THEN top ELSE t.root
      /\ v.parent = [t.parent EXCEPT ![top] = p]
      /\ v.children = IF p = Nil THEN t.children ELSE [t.children EXCEPT ![p][s] = top]
      /\ \A i \in Nodes : i # p => v.height[i] = t.height[i]
  <2>1. /\ top # Nil /\ top \in D \cup {Nil} /\ n \in D
        /\ Shaped(t, D) /\ D \subseteq Nodes
    BY <1>1, <1>2
  <2>2. /\ Shaped(v, D)
        /\ v.root = IF p = Nil THEN top ELSE t.root
        /\ v.parent = IF top = Nil THEN t.parent ELSE [t.parent EXCEPT ![top] = p]
        /\ v.children = IF p = Nil THEN t.children ELSE [t.children EXCEPT ![p][s] = top]
        /\ \A i \in Nodes : i # p => v.height[i] = t.height[i]
    <3> HIDE DEF top
    <3>. QED  BY <2>1, ReplaceIs
  <2> HIDE DEF top, v, p, s
  <2>. QED  BY <2>1, <2>2
<1> HIDE DEF v, s
<1>6. /\ Shaped(w, D) /\ w.root = v.root /\ w.height = v.height
      /\ w.parent = [v.parent EXCEPT ![n] = top]
      /\ w.children = [[v.children EXCEPT ![n][1 - d] = moved] EXCEPT ![top][d] = n]
  <2> HIDE DEF top, moved, low, outer, p
  <2>1. [v.children[n] EXCEPT ![1 - d] = moved] \in [Side -> D \cup {Nil}]
    BY <1>1, <1>2, <1>5 DEF Shaped
  <2>2. [v.children[top] EXCEPT ![d] = n] \in [Side -> D \cup {Nil}]
    BY <1>1, <1>2, <1>5 DEF Shaped
  <2>. QED  BY <1>1, <1>2, <1>5, <2>1, <2>2 DEF Shaped
<1> HIDE DEF w
<1>7. /\ Shaped(x, D) /\ x.root = w.root /\ x.height = w.height /\ x.children = w.children
      /\ x.parent = IF moved = Nil THEN w.parent ELSE [w.parent EXCEPT ![moved] = n]
  <2> HIDE DEF top, moved, low, outer, p
  <2>. QED  BY <1>1, <1>2, <1>6 DEF Shaped
<1> HIDE DEF x
<1>8. /\ Shaped(y, D) /\ y.root = x.root /\ y.parent = x.parent /\ y.children = x.children
      /\ y.height = [x.height EXCEPT ![top] = Tall(x, top)]
  BY <1>1, <1>2, <1>7, UpdateHeightIs
<1> HIDE DEF y
<1>9. /\ Shaped(z, D) /\ z.root = y.root /\ z.parent = y.parent /\ z.children = y.children
      /\ z.height = [y.height EXCEPT ![n] = Tall(y, n)]
  BY <1>1, <1>8, UpdateHeightIs
<1> HIDE DEF z
<1>10. /\ t.parent \in [Nodes -> D \cup {Nil}]
       /\ \A m \in Nodes : t.children[m] \in [Side -> D \cup {Nil}]
       /\ t.children \in [Nodes -> [Side -> D \cup {Nil}]]
       /\ x.height \in [Nodes -> Nat] /\ y.height \in [Nodes -> Nat]
  BY <1>1, <1>7, <1>8 DEF Shaped
<1> HIDE DEF top, moved, low, outer, p
<1>11. z.root = IF p = Nil THEN top ELSE t.root
  BY <1>5, <1>6, <1>7, <1>8, <1>9
<1>12. \A m \in Nodes :
         z.parent[m] = IF m = n THEN top ELSE IF m = top THEN p
                       ELSE IF m = moved THEN n ELSE t.parent[m]
  BY <1>1, <1>2, <1>5, <1>6, <1>7, <1>8, <1>9, <1>10
<1>13. z.children = [[v.children EXCEPT ![n][1 - d] = moved] EXCEPT ![top][d] = n]
  BY <1>6, <1>7, <1>8, <1>9
<1>14. /\ z.children[n] = [v.children[n] EXCEPT ![1 - d] = moved]
       /\ z.children[top] = [v.children[top] EXCEPT ![d] = n]
       /\ \A m \in Nodes \ {n, top} : z.children[m] = v.children[m]
  <2>1. v.children \in [Nodes -> [Side -> D \cup {Nil}]]
    BY <1>5 DEF Shaped
  <2>. QED  BY <1>1, <1>2, <1>13, <2>1
<1>15. /\ v.children[n] = t.children[n] /\ v.children[top] = t.children[top]
       /\ \A m \in Nodes \ {p} : v.children[m] = t.children[m]
       /\ p # Nil => v.children[p] = [t.children[p] EXCEPT ![s] = top]
  BY <1>1, <1>2, <1>5, <1>10
<1>16. /\ z.children[n][1 - d] = moved /\ z.children[n][d] = t.children[n][d]
       /\ z.children[top][d] = n /\ z.children[top][1 - d] = t.children[top][1 - d]
  <2>1. t.children[n] \in [Side -> D \cup {Nil}] /\ t.children[top] \in [Side -> D \cup {Nil}]
    BY <1>1, <1>2, <1>10
  <2>. QED  BY <1>1, <1>14, <1>15, <2>1
<1>17. p # Nil => z.children[p][s] = top /\ z.children[p][1 - s] = t.children[p][1 - s]
  <2>1. p # Nil => p \in Nodes \ {n, top} /\ t.children[p] \in [Side -> D \cup {Nil}]
    BY <1>1, <1>2, <1>10
  <2>. QED  BY <1>3, <1>14, <1>15, <2>1
<1>18. \A m \in Nodes : m \notin {n, top, p} => z.children[m] = t.children[m]
  BY <1>14, <1>15
<1>19. \A m \in Nodes : m \notin {n, top, p} => z.height[m] = t.height[m]
  BY <1>5, <1>6, <1>7, <1>8, <1>9, <1>10
<1>20. z.height[n] = Tall(z, n)
  <2>1. z.height[n] = Tall(y, n)
    BY <1>1, <1>9, <1>10
  <2>2. \A m \in Nodes \ {n} : z.height[m] = y.height[m]
    BY <1>9, <1>10
  <2>3. \A i \in Side : z.children[n][i] \in D \cup {Nil} /\ z.children[n][i] # n
    <3>1. z.children[n][1 - d] = moved /\ z.children[n][d] = low
      BY <1>16 DEF low
    <3>2. \A i \in Side : i = d \/ i = 1 - d
      BY DEF Side, Left, Right
    <3>. QED  BY <1>2, <3>1, <3>2
  <2>4. \A i \in Side : Height(z, z.children[n][i]) = Height(y, y.children[n][i])
    BY <1>1, <1>9, <2>2, <2>3 DEF Height
  <2>5. Left \in Side /\ Right \in Side
    BY DEF Side
  <2>. QED  BY <2>1, <2>4, <2>5 DEF Tall
<1>21. Turns(t, z, n, d)
  BY <1>11, <1>12, <1>16, <1>17, <1>18, <1>19, <1>20 DEF Turns, top, moved, low, p, s
<1>. QED  BY <1>4, <1>9, <1>21

-----------------------------------------------------------------------------
(* Rotations keep the order.                                                *)

(* What is below each node after a rotation at n.                           *)
Turned(t, D, n, d, sub) ==
  LET top == t.children[n][1 - d]
  IN  [m \in D |->
         IF m = top THEN sub[n]
         ELSE IF m = n THEN {n} \cup Of(sub, t.children[n][d]) \cup Of(sub, t.children[top][d])
         ELSE sub[m]]

(* After a rotation parents and children name each other.                   *)
LEMMA TurnLinked ==
  ASSUME NEW t, NEW D, NEW K, NEW sub, Ordered(t, D, K, sub),
         NEW n \in D, NEW d \in Side, t.children[n][1 - d] # Nil,
         NEW u, Shaped(u, D), Turns(t, u, n, d)
  PROVE  Typed(u, D) /\ Linked(u, D)
<1> DEFINE top == t.children[n][1 - d]
           low == t.children[n][d]
           moved == t.children[top][d]
           outer == t.children[top][1 - d]
           p == t.parent[n]
           s == ParentSide(t, n)
<1>1. /\ top \in D /\ top # n /\ t.parent[top] = n
      /\ {low, moved, outer, p} \subseteq D \cup {Nil}
      /\ n \notin {low, moved, outer, p} /\ top \notin {low, moved, outer, p}
      /\ p # Nil => p \notin {low, moved, outer}
      /\ moved # Nil => moved \notin {low, outer} /\ t.parent[moved] = top
      /\ low # Nil => t.parent[low] = n
      /\ outer # Nil => t.parent[outer] = top
  <2>1. Apart(t, D, sub, n, d)
    BY Around
  <2>. QED  BY <2>1 DEF Apart
<1>2. /\ u.root = IF p = Nil THEN top ELSE t.root
      /\ \A m \in Nodes :
           u.parent[m] = IF m = n THEN top ELSE IF m = top THEN p
                         ELSE IF m = moved THEN n ELSE t.parent[m]
      /\ u.children[n][1 - d] = moved /\ u.children[n][d] = low
      /\ u.children[top][d] = n /\ u.children[top][1 - d] = outer
      /\ p # Nil => u.children[p][s] = top /\ u.children[p][1 - s] = t.children[p][1 - s]
      /\ \A m \in Nodes : m \notin {n, top, p} => u.children[m] = t.children[m]
  BY DEF Turns
<1>3. /\ D \subseteq Nodes /\ Nil \notin Nodes /\ t.root \in D \cup {Nil}
      /\ \A m \in Nodes : t.parent[m] \in D \cup {Nil}
      /\ \A m \in Nodes : \A i \in Side : t.children[m][i] \in D \cup {Nil}
      /\ \A m \in Nodes \ D : t.children[m] = Leafless /\ t.parent[m] = Nil
  BY LinkTypes DEF Ordered, Keyed, Typed
<1>4. /\ d \in Side /\ 1 - d \in Side /\ \A i \in Side : i = d \/ i = 1 - d
      /\ p # Nil => s \in Side /\ 1 - s \in Side /\ 1 - s # s /\ \A i \in Side : i = s \/ i = 1 - s
      /\ p # Nil => t.children[p][s] = n /\ t.children[p][1 - s] # n
  BY ParentOut DEF Side, Left, Right
<1>5. \A m \in D : \A i \in Side : t.children[m][i] # Nil => t.parent[t.children[m][i]] = m
  BY DEF Ordered, Linked
<1>6. \A m \in D : IF m = t.root THEN t.parent[m] = Nil
                   ELSE t.parent[m] # Nil /\ \E i \in Side : t.children[t.parent[m]][i] = m
  BY DEF Ordered, Linked
<1>t. t.children[n][1 - d] = top /\ t.children[n][d] = low /\ t.children[top][d] = moved
      /\ t.children[top][1 - d] = outer /\ t.parent[n] = p
  OBVIOUS
<1> HIDE DEF top, low, moved, outer, p, s
<1>7. Typed(u, D)
  BY <1>1, <1>2, <1>3 DEF Typed
<1>8. ASSUME NEW m \in D, NEW i \in Side, u.children[m][i] # Nil
      PROVE  u.parent[u.children[m][i]] = m
  <2>1. CASE m = n
    BY <1>1, <1>2, <1>3, <1>4, <1>8, <2>1
  <2>2. CASE m = top
    BY <1>1, <1>2, <1>3, <1>4, <1>8, <2>2
  <2>3. CASE m \notin {n, top} /\ ~ (m = p /\ i = s)
    <3>1. u.children[m][i] = t.children[m][i]
      BY <1>2, <1>3, <1>4, <2>3
    <3>2. t.children[m][i] \in D /\ t.parent[t.children[m][i]] = m
      BY <1>3, <1>5, <1>8, <3>1
    <3>3. t.children[m][i] \notin {n, top, moved}
      BY <1>1, <1>3, <1>4, <1>t, <2>3, <3>2
    <3>. QED  BY <1>2, <1>3, <3>1, <3>2, <3>3
  <2>4. CASE m \notin {n, top} /\ m = p /\ i = s
    BY <1>1, <1>2, <1>3, <2>4
  <2>. QED  BY <2>1, <2>2, <2>3, <2>4
<1>9. ASSUME NEW m \in D
      PROVE  IF m = u.root THEN u.parent[m] = Nil
             ELSE u.parent[m] # Nil /\ \E i \in Side : u.children[u.parent[m]][i] = m
  <2>1. n = t.root <=> p = Nil
    BY <1>6, <1>t
  <2>2. CASE m = n
    BY <1>1, <1>2, <1>3, <1>4, <1>6, <2>1, <2>2
  <2>3. CASE m = top
    BY <1>1, <1>2, <1>3, <1>4, <1>6, <2>1, <2>3
  <2>4. CASE m = moved
    BY <1>1, <1>2, <1>3, <1>4, <1>6, <2>1, <2>4
  <2>5. CASE m \notin {n, top, moved}
    <3>1. u.parent[m] = t.parent[m] /\ (m = u.root <=> m = t.root)
      BY <1>2, <1>3, <2>1, <2>5
    <3>2. SUFFICES ASSUME m # t.root
          PROVE  u.parent[m] # Nil /\ \E i \in Side : u.children[u.parent[m]][i] = m
      BY <1>6, <3>1
    <3>3. PICK i \in Side : t.children[t.parent[m]][i] = m
      BY <1>6, <3>2
    <3>4. t.parent[m] \in D
      BY <1>3, <1>6, <3>2
    <3>5. u.children[t.parent[m]][i] = m
      <4>1. CASE t.parent[m] = n
        BY <1>2, <1>4, <1>t, <2>5, <3>3, <4>1
      <4>2. CASE t.parent[m] = top
        BY <1>2, <1>4, <1>t, <2>5, <3>3, <4>2
      <4>3. CASE t.parent[m] \notin {n, top}
        BY <1>2, <1>3, <1>4, <2>5, <3>3, <3>4, <4>3
      <4>. QED  BY <4>1, <4>2, <4>3
    <3>. QED  BY <1>3, <3>1, <3>4, <3>5
  <2>. QED  BY <2>2, <2>3, <2>4, <2>5
<1>. QED  BY <1>7, <1>8, <1>9 DEF Linked

(* After a rotation the nodes are in order, the same below the new top.     *)
LEMMA TurnNested ==
  ASSUME NEW t, NEW D, NEW K, NEW sub, Ordered(t, D, K, sub),
         NEW n \in D, NEW d \in Side, t.children[n][1 - d] # Nil,
         NEW u, Turns(t, u, n, d)
  PROVE  Nested(u, D, K, Turned(t, D, n, d, sub))
<1> DEFINE top == t.children[n][1 - d]
           low == t.children[n][d]
           moved == t.children[top][d]
           outer == t.children[top][1 - d]
           p == t.parent[n]
           s == ParentSide(t, n)
           new == Turned(t, D, n, d, sub)
<1>1. /\ top \in D /\ top # n /\ t.parent[top] = n
      /\ {low, moved, outer, p} \subseteq D \cup {Nil}
      /\ n \notin {low, moved, outer, p} /\ top \notin {low, moved, outer, p}
      /\ p # Nil => p \notin {low, moved, outer}
  <2>1. Apart(t, D, sub, n, d)
    BY Around
  <2>. QED  BY <2>1 DEF Apart
<1>2. /\ u.root = IF p = Nil THEN top ELSE t.root
      /\ u.children[n][1 - d] = moved /\ u.children[n][d] = low
      /\ u.children[top][d] = n /\ u.children[top][1 - d] = outer
      /\ p # Nil => u.children[p][s] = top /\ u.children[p][1 - s] = t.children[p][1 - s]
      /\ \A m \in Nodes : m \notin {n, top, p} => u.children[m] = t.children[m]
  BY DEF Turns
<1>3. /\ D \subseteq Nodes /\ Nil \notin Nodes /\ t.root \in D \cup {Nil}
      /\ \A m \in Nodes : \A i \in Side : t.children[m][i] \in D \cup {Nil}
      /\ \A m \in D : K[m] \in Int
  BY LinkTypes DEF Ordered, Keyed
<1>4. /\ d \in Side /\ 1 - d \in Side /\ {d, 1 - d} = {Left, Right} /\ d # 1 - d
      /\ p # Nil => s \in Side /\ 1 - s \in Side /\ {s, 1 - s} = {Left, Right}
      /\ p # Nil => t.children[p][s] = n /\ t.children[p][1 - s] # n
      /\ \A i \in Side : i \in {Left, Right}
  BY ParentOut DEF Side, Left, Right
<1>5. \A m \in D : \A i \in Side : t.children[m][i] # Nil => t.parent[t.children[m][i]] = m
  BY DEF Ordered, Linked
<1>6. /\ \A m \in D : sub[m] \in SUBSET D
      /\ \A m \in D :
           sub[m] = {m} \cup Of(sub, t.children[m][Left]) \cup Of(sub, t.children[m][Right])
      /\ \A m \in D : \A i \in Side : \A x \in Of(sub, t.children[m][i]) : Before(i, K[x], K[m])
      /\ IF t.root = Nil THEN D = {} ELSE sub[t.root] = D
  BY DEF Ordered, Nested
<1>r. n = t.root <=> p = Nil
  BY DEF Ordered, Linked
<1>7. /\ sub[n] = {n} \cup Of(sub, top) \cup Of(sub, low)
      /\ sub[top] = {top} \cup Of(sub, moved) \cup Of(sub, outer)
  BY <1>1, <1>4, <1>6
<1>t. t.children[n][1 - d] = top /\ t.children[n][d] = low /\ t.children[top][d] = moved
      /\ t.children[top][1 - d] = outer /\ t.parent[n] = p
  OBVIOUS
<1>8. /\ new = [m \in D |-> IF m = top THEN sub[n]
                            ELSE IF m = n THEN {n} \cup Of(sub, low) \cup Of(sub, moved)
                            ELSE sub[m]]
  BY DEF Turned
<1>9. /\ new[top] = sub[n] /\ new[n] = {n} \cup Of(sub, low) \cup Of(sub, moved)
      /\ \A m \in D \ {n, top} : new[m] = sub[m]
      /\ new \in [D -> SUBSET D]
  <2>1. {n} \cup Of(sub, low) \cup Of(sub, moved) \in SUBSET D
    BY <1>1, <1>6 DEF Of
  <2> HIDE DEF top, low, moved, new
  <2>. QED  BY <1>1, <1>6, <1>8, <2>1
<1> HIDE DEF top, low, moved, outer, p, s, new
<1>10. /\ \A m \in D \cup {Nil} : m \notin {n, top} => Of(new, m) = Of(sub, m)
       /\ Of(new, top) = sub[n] /\ Of(new, n) = new[n]
  BY <1>1, <1>3, <1>9 DEF Of
<1>11. /\ Of(new, low) = Of(sub, low) /\ Of(new, moved) = Of(sub, moved)
       /\ Of(new, outer) = Of(sub, outer)
  BY <1>1, <1>10
<1>o. \A m \in D \ {n, top} : \A i \in Side :
        ~ (m = p /\ i = s) => /\ u.children[m][i] = t.children[m][i]
                              /\ Of(new, u.children[m][i]) = Of(sub, t.children[m][i])
  <2> SUFFICES ASSUME NEW m \in D \ {n, top}, NEW i \in Side, ~ (m = p /\ i = s)
               PROVE  /\ u.children[m][i] = t.children[m][i]
                      /\ Of(new, u.children[m][i]) = Of(sub, t.children[m][i])
    OBVIOUS
  <2>1. u.children[m][i] = t.children[m][i]
    <3>1. p # Nil => i = s \/ i = 1 - s
      BY <1>4
    <3>2. m # p => u.children[m] = t.children[m]
      BY <1>2, <1>3
    <3>. QED  BY <1>2, <1>3, <3>1, <3>2
  <2>2. t.children[m][i] \in D \cup {Nil} /\ t.children[m][i] \notin {n, top}
    <3>1. t.children[m][i] \in D \cup {Nil}
      BY <1>3
    <3>2. t.children[m][i] = n => m = p /\ i = s
      <4>1. t.children[m][i] = n => m = p
        BY <1>1, <1>3, <1>5, <1>t
      <4>. QED  BY <1>3, <1>4, <4>1
    <3>3. t.children[m][i] # top
      BY <1>1, <1>3, <1>5
    <3>. QED  BY <3>1, <3>2, <3>3
  <2>. QED  BY <1>10, <2>1, <2>2
<1>12. ASSUME NEW m \in D
       PROVE  new[m] = {m} \cup Of(new, u.children[m][Left]) \cup Of(new, u.children[m][Right])
  <2>1. CASE m = n
    <3>1. new[n] = {n} \cup Of(new, u.children[n][d]) \cup Of(new, u.children[n][1 - d])
      BY <1>2, <1>9, <1>11
    <3>. QED  BY <1>4, <2>1, <3>1
  <2>2. CASE m = top
    <3>1. new[top] = {top} \cup Of(new, u.children[top][d]) \cup Of(new, u.children[top][1 - d])
      <4>1. Of(sub, top) = sub[top]
        BY <1>1, <1>3 DEF Of
      <4>. QED  BY <1>2, <1>7, <1>9, <1>10, <1>11, <4>1
    <3>. QED  BY <1>4, <2>2, <3>1
  <2>3. CASE m \notin {n, top} /\ m = p
    <3>1. p # Nil
      BY <1>3, <2>3
    <3>2. Of(new, u.children[p][s]) = Of(sub, t.children[p][s])
      BY <1>2, <1>3, <1>4, <1>10, <3>1 DEF Of
    <3>3. Of(new, u.children[p][1 - s]) = Of(sub, t.children[p][1 - s])
      <4>1. 1 - s # s
        BY <1>4, <3>1
      <4>. QED  BY <1>4, <1>o, <2>3, <3>1, <4>1
    <3>4. sub[p] = {p} \cup Of(sub, t.children[p][s]) \cup Of(sub, t.children[p][1 - s])
      BY <1>4, <1>6, <2>3, <3>1
    <3>5. new[p] = {p} \cup Of(new, u.children[p][s]) \cup Of(new, u.children[p][1 - s])
      BY <1>9, <2>3, <3>2, <3>3, <3>4
    <3>. QED  BY <1>4, <2>3, <3>1, <3>5
  <2>4. CASE m \notin {n, top} /\ m # p
    <3>1. /\ Of(new, u.children[m][Left]) = Of(sub, t.children[m][Left])
          /\ Of(new, u.children[m][Right]) = Of(sub, t.children[m][Right])
      BY <1>o, <2>4 DEF Side
    <3>. QED  BY <1>6, <1>9, <2>4, <3>1
  <2>. QED  BY <2>1, <2>2, <2>3, <2>4
<1>13. ASSUME NEW m \in D, NEW i \in Side, NEW x \in Of(new, u.children[m][i])
       PROVE  Before(i, K[x], K[m])
  <2>1. CASE m = n
    <3>1. i = d \/ i = 1 - d
      BY <1>4
    <3>2. CASE i = d
      BY <1>2, <1>6, <1>11, <1>13, <1>t, <2>1, <3>2
    <3>3. CASE i = 1 - d
      <4>1. x \in Of(sub, moved)
        BY <1>2, <1>11, <1>13, <2>1, <3>3
      <4>2. x \in Of(sub, top)
        BY <1>1, <1>3, <1>7, <4>1 DEF Of
      <4>. QED  BY <1>6, <1>t, <2>1, <3>3, <4>2
    <3>. QED  BY <3>1, <3>2, <3>3
  <2>2. CASE m = top
    <3>1. i = d \/ i = 1 - d
      BY <1>4
    <3>2. CASE i = 1 - d
      BY <1>1, <1>2, <1>6, <1>11, <1>13, <1>t, <2>2, <3>2
    <3>3. CASE i = d
      <4>1. x \in {n} \cup Of(sub, low) \cup Of(sub, moved)
        BY <1>2, <1>9, <1>10, <1>13, <2>2, <3>3
      <4>2. Before(d, K[n], K[top])
        <5>1. Before(1 - d, K[top], K[n])
          <6>1. top \in Of(sub, top)
            BY <1>1, <1>3, <1>7 DEF Of
          <6>. QED  BY <1>4, <1>6, <1>t, <6>1
        <5>. QED  BY <1>1, <1>4, <5>1 DEF Before, Left, Right
      <4>3. x \in Of(sub, low) => Before(d, K[x], K[n]) /\ x \in D
        BY <1>1, <1>6, <1>t DEF Of
      <4>4. x \in Of(sub, low) => Before(d, K[x], K[top])
        BY <1>1, <1>3, <4>2, <4>3 DEF Before
      <4>5. x \in Of(sub, moved) => Before(d, K[x], K[top])
        BY <1>1, <1>6, <1>t
      <4>. QED  BY <2>2, <3>3, <4>1, <4>2, <4>4, <4>5
    <3>. QED  BY <3>1, <3>2, <3>3
  <2>3. CASE m \notin {n, top} /\ m = p /\ i = s
    <3>1. p # Nil
      BY <1>3, <2>3
    <3>2. x \in Of(sub, n) /\ t.children[p][s] = n
      BY <1>2, <1>3, <1>4, <1>10, <1>13, <2>3, <3>1 DEF Of
    <3>. QED  BY <1>6, <2>3, <3>2
  <2>4. CASE m \notin {n, top} /\ ~ (m = p /\ i = s)
    BY <1>6, <1>13, <1>o, <2>4
  <2>. QED  BY <2>1, <2>2, <2>3, <2>4
<1>14. IF u.root = Nil THEN D = {} ELSE new[u.root] = D
  <2>1. CASE p = Nil
    BY <1>1, <1>2, <1>3, <1>6, <1>9, <1>r, <2>1
  <2>2. CASE p # Nil
    <3>1. t.root # n /\ t.root # top
      <4>1. t.parent[top] # Nil
        BY <1>1, <1>3
      <4>. QED  BY <1>1, <1>r, <2>2, <4>1 DEF Ordered, Linked
    <3>. QED  BY <1>2, <1>3, <1>6, <1>9, <2>2, <3>1
  <2>. QED  BY <2>1, <2>2
<1>. QED  BY <1>9, <1>12, <1>13, <1>14, Zenon DEF Nested, new

(* A rotation keeps the tree ordered.                                       *)
LEMMA RotateOrdered ==
  ASSUME NEW t, NEW D, NEW K, NEW sub, Ordered(t, D, K, sub),
         NEW n \in D, NEW d \in Side, t.children[n][1 - d] # Nil
  PROVE  /\ Turns(t, Rotate(t, n, d), n, d)
         /\ Ordered(Rotate(t, n, d), D, K, Turned(t, D, n, d, sub))
<1>1. Shaped(Rotate(t, n, d), D) /\ Turns(t, Rotate(t, n, d), n, d)
  BY RotateTurns
<1>2. Typed(Rotate(t, n, d), D) /\ Linked(Rotate(t, n, d), D)
  BY <1>1, TurnLinked
<1>3. Nested(Rotate(t, n, d), D, K, Turned(t, D, n, d, sub))
  BY <1>1, TurnNested
<1>. QED  BY <1>1, <1>2, <1>3 DEF Ordered

-----------------------------------------------------------------------------
(* Balancing a node.                                                        *)

Even(t, n) ==
  /\ Height(t, t.children[n][Left]) - Height(t, t.children[n][Right]) \in -1 .. 1
  /\ t.height[n] = Tall(t, n)

(* What Even says, seen from either side.                                   *)
LEMMA EvenSides ==
  ASSUME NEW t, NEW D, D \subseteq Nodes, Shaped(t, D), NEW n \in Nodes, NEW s \in Side
  PROVE  LET a == Height(t, t.children[n][s])
             b == Height(t, t.children[n][1 - s])
         IN  /\ a \in Nat /\ b \in Nat
             /\ Tall(t, n) = 1 + IF a > b THEN a ELSE b
             /\ Even(t, n) <=> a - b \in -1 .. 1 /\ t.height[n] = 1 + IF a > b THEN a ELSE b
<1>1. Left \in Side /\ Right \in Side /\ 1 - s \in Side
  BY DEF Side, Left, Right
<1>2. \A i \in Side : Height(t, t.children[n][i]) \in Nat
  BY HeightNat
<1>3. (s = Left /\ 1 - s = Right) \/ (s = Right /\ 1 - s = Left)
  BY DEF Side, Left, Right
<1> DEFINE x == Height(t, t.children[n][Left])
           y == Height(t, t.children[n][Right])
<1>4. x \in Nat /\ y \in Nat
  BY <1>1, <1>2
<1>5. Even(t, n) <=> x - y \in -1 .. 1 /\ t.height[n] = 1 + IF x > y THEN x ELSE y
  BY DEF Even, Tall
<1>6. Tall(t, n) = 1 + IF x > y THEN x ELSE y
  BY DEF Tall
<1> DEFINE a == Height(t, t.children[n][s])
           b == Height(t, t.children[n][1 - s])
<1>7. (a = x /\ b = y) \/ (a = y /\ b = x)
  BY <1>3
<1> HIDE DEF x, y, a, b
<1>8. /\ a \in Nat /\ b \in Nat
      /\ Tall(t, n) = 1 + IF a > b THEN a ELSE b
      /\ Even(t, n) <=> a - b \in -1 .. 1 /\ t.height[n] = 1 + IF a > b THEN a ELSE b
  BY <1>4, <1>5, <1>6, <1>7
<1>. QED  BY <1>8 DEF a, b

(* Trees with the same links below a node and the same heights there.       *)
LEMMA EvenKept ==
  ASSUME NEW t, NEW u, NEW n, u.children[n] = t.children[n], u.height[n] = t.height[n],
         \A s \in Side : t.children[n][s] # Nil =>
            u.height[t.children[n][s]] = t.height[t.children[n][s]],
         Even(t, n)
  PROVE  Even(u, n)
<1>1. \A s \in Side : Height(u, u.children[n][s]) = Height(t, t.children[n][s])
  BY DEF Height
<1>2. Left \in Side /\ Right \in Side
  BY DEF Side
<1>. QED  BY <1>1, <1>2 DEF Even, Tall

(* Order depends on the links only.                                         *)
LEMMA SameLinks ==
  ASSUME NEW t, NEW u, NEW D, NEW K, NEW sub, Ordered(t, D, K, sub), Shaped(u, D),
         u.root = t.root, u.children = t.children, u.parent = t.parent
  PROVE  Ordered(u, D, K, sub)
BY DEF Ordered, Typed, Linked, Nested

(* Tree u is t with what is below n put in other places there, top on top of
   it, and all of it even; new are the nodes below each node of u.           *)
Settled(t, D, K, sub, n, u, top, new) ==
  LET p == t.parent[n]
      s == ParentSide(t, n)
  IN  /\ Ordered(u, D, K, new)
      /\ top \in sub[n] /\ new[top] = sub[n]
      /\ \A m \in D \ sub[n] : new[m] = sub[m]
      /\ \A m \in sub[n] : new[m] \subseteq sub[n] /\ Even(u, m)
      /\ u.parent[top] = p
      /\ p # Nil => u.children[p][s] = top /\ u.children[p][1 - s] = t.children[p][1 - s]
      /\ \A m \in D \ sub[n] :
           m # p => u.children[m] = t.children[m] /\ u.height[m] = t.height[m]

(* Below n all is even but n and its child c on side s, and l, o and i are the
   heights of the trees below these from the other side to the outer and the
   inner one of side s: turned, n will have height h, and all is even.       *)
Turnable(t, sub, n, s, c, l, o, i, h) ==
  /\ c = t.children[n][s] /\ c # Nil
  /\ \A m \in sub[n] : m \notin {n, c} => Even(t, m)
  /\ l \in Nat /\ l = Height(t, t.children[n][1 - s])
  /\ o \in Nat /\ o = Height(t, t.children[c][s])
  /\ i \in Nat /\ i = Height(t, t.children[c][1 - s])
  /\ h \in Nat /\ h = 1 + IF l > i THEN l ELSE i
  /\ l - i \in -1 .. 1 /\ o - h \in -1 .. 1

(* One rotation settles a node that is Turnable.                            *)
LEMMA RotateSettles ==
  ASSUME NEW t, NEW D, NEW K, NEW sub, Ordered(t, D, K, sub),
         NEW n \in D, NEW s \in Side, NEW c, NEW l, NEW o, NEW i, NEW h,
         Turnable(t, sub, n, s, c, l, o, i, h)
  PROVE  LET u == UpdateHeight(Rotate(t, n, 1 - s), c)
         IN  /\ Settled(t, D, K, sub, n, u, c, Turned(t, D, n, 1 - s, sub))
             /\ Rotate(t, n, 1 - s).parent[n] = c
             /\ u.height[c] = 1 + IF o > h THEN o ELSE h
<1> DEFINE d == 1 - s
           low == t.children[n][d]
           moved == t.children[c][d]
           outer == t.children[c][s]
           p == t.parent[n]
           q == ParentSide(t, n)
           v == Rotate(t, n, d)
           u == UpdateHeight(v, c)
           new == Turned(t, D, n, d, sub)
<1>a. c = t.children[n][s] /\ c # Nil
  BY DEF Turnable
<1>b. \A m \in sub[n] : m \notin {n, c} => Even(t, m)
  BY DEF Turnable
<1>c. /\ l \in Nat /\ l = Height(t, low)
      /\ o \in Nat /\ o = Height(t, outer)
      /\ i \in Nat /\ i = Height(t, moved)
  BY DEF Turnable
<1>d. /\ h \in Nat /\ h = 1 + IF l > i THEN l ELSE i
      /\ l - i \in -1 .. 1 /\ o - h \in -1 .. 1
  BY DEF Turnable
<1>1. d \in Side /\ 1 - d = s /\ d # s
  BY DEF Side, Left, Right
<1>2. t.children[n][1 - d] = c
  BY <1>a, <1>1
<1>3. Turns(t, v, n, d) /\ Ordered(v, D, K, new)
  BY <1>a, <1>1, <1>2, RotateOrdered
<1>4. /\ c \in D /\ c # n /\ c \in sub[n] /\ t.parent[c] = n
      /\ {low, moved, outer, p} \subseteq D \cup {Nil}
      /\ n \notin {low, moved, outer, p} /\ c \notin {low, moved, outer, p}
      /\ p # Nil => p \notin {low, moved, outer}
  <2>1. Apart(t, D, sub, n, d)
    BY <1>a, <1>1, <1>2, Around
  <2>. QED  BY <1>1, <1>2, <2>1 DEF Apart
<1>5. /\ \A m \in Nodes :
           v.parent[m] = IF m = n THEN c ELSE IF m = c THEN p
                         ELSE IF m = moved THEN n ELSE t.parent[m]
      /\ v.children[n][s] = moved /\ v.children[n][d] = low
      /\ v.children[c][d] = n /\ v.children[c][s] = outer
      /\ p # Nil => v.children[p][q] = c /\ v.children[p][1 - q] = t.children[p][1 - q]
      /\ \A m \in Nodes : m \notin {n, c, p} => v.children[m] = t.children[m]
      /\ \A m \in Nodes : m \notin {n, c, p} => v.height[m] = t.height[m]
      /\ v.height[n] = Tall(v, n)
  BY <1>1, <1>2, <1>3 DEF Turns
<1>6. /\ D \subseteq Nodes /\ Nil \notin Nodes /\ Shaped(v, D) /\ Shaped(t, D)
      /\ \A m \in D : sub[m] \in SUBSET D /\ m \in sub[m]
      /\ n \in sub[n]
  BY <1>3, LinkTypes DEF Ordered, Keyed, Typed, Nested
<1>7. p \notin sub[n]
  BY ParentOut
<1>t. low = t.children[n][1 - s] /\ moved = t.children[c][1 - s] /\ outer = t.children[c][s]
  OBVIOUS
<1> HIDE DEF d, low, moved, outer, p, q, v, new
<1>8. /\ Shaped(u, D) /\ u.root = v.root /\ u.children = v.children /\ u.parent = v.parent
      /\ u.height = [v.height EXCEPT ![c] = Tall(v, c)]
  BY <1>4, <1>6, UpdateHeightIs
<1>9. /\ u.height[c] = Tall(v, c)
      /\ \A m \in Nodes : m # c => u.height[m] = v.height[m]
  BY <1>4, <1>6, <1>8 DEF Shaped
<1> HIDE DEF u
<1>10. Ordered(u, D, K, new)
  BY <1>3, <1>8, SameLinks
<1>11. /\ Height(v, low) = l /\ Height(v, moved) = i /\ Height(v, outer) = o
       /\ Height(u, low) = l /\ Height(u, moved) = i /\ Height(u, outer) = o
  BY <1>c, <1>4, <1>5, <1>6, <1>9 DEF Height
<1>12. u.height[n] = h /\ v.height[n] = h
  <2>1. Tall(v, n) = 1 + IF l > i THEN l ELSE i
    <3>1. v.children[n][s] = moved /\ v.children[n][1 - s] = low
      BY <1>5 DEF d
    <3>. QED  BY <1>c, <1>6, <1>11, <3>1, EvenSides
  <2>. QED  BY <1>d, <1>4, <1>5, <1>6, <1>9, <2>1
<1>13. Height(u, n) = h /\ Height(v, n) = h
  BY <1>4, <1>6, <1>12 DEF Height
<1>14. u.height[c] = 1 + IF o > h THEN o ELSE h
  <2>1. Tall(v, c) = 1 + IF o > h THEN o ELSE h
    <3>1. v.children[c][s] = outer /\ v.children[c][1 - s] = n /\ c \in Nodes
      BY <1>4, <1>5, <1>6 DEF d
    <3>. QED  BY <1>6, <1>11, <1>13, <3>1, EvenSides
  <2>. QED  BY <1>9, <2>1
<1>15. Even(u, n)
  <2>1. u.children[n][s] = moved /\ u.children[n][1 - s] = low
    BY <1>5, <1>8 DEF d
  <2>2. n \in Nodes /\ i - l \in -1 .. 1 /\ h = 1 + IF i > l THEN i ELSE l
    BY <1>c, <1>d, <1>6
  <2>. QED  BY <1>6, <1>8, <1>11, <1>12, <2>1, <2>2, EvenSides
<1>16. Even(u, c)
  <2>1. u.children[c][s] = outer /\ u.children[c][1 - s] = n
    BY <1>5, <1>8 DEF d
  <2>2. c \in Nodes
    BY <1>4, <1>6
  <2>. QED  BY <1>d, <1>6, <1>8, <1>11, <1>13, <1>14, <2>1, <2>2, EvenSides
<1>17. ASSUME NEW m \in sub[n], m \notin {n, c} PROVE Even(u, m)
  <2>1. m \in D /\ m # p
    BY <1>6, <1>7
  <2>2. ASSUME NEW j \in Side, t.children[m][j] # Nil
        PROVE  t.children[m][j] \in Nodes \ {n, c, p}
    <3>1. t.children[m][j] \in sub[n] /\ t.children[m][j] # n
      BY <2>2, Closed
    <3>2. t.children[m][j] # c
      BY <1>4, <1>17, <2>1, <2>2 DEF Ordered, Linked
    <3>. QED  BY <1>6, <1>7, <3>1, <3>2
  <2>3. \A j \in Side : t.children[m][j] # Nil =>
          u.height[t.children[m][j]] = t.height[t.children[m][j]]
    BY <1>5, <1>9, <2>2
  <2>4. u.children[m] = t.children[m] /\ u.height[m] = t.height[m]
    BY <1>5, <1>6, <1>8, <1>9, <1>17, <2>1
  <2>5. Even(t, m)
    BY <1>b, <1>17
  <2>. QED  BY <2>3, <2>4, <2>5, EvenKept
<1>18. /\ new[c] = sub[n]
       /\ \A m \in D \ sub[n] : new[m] = sub[m]
       /\ \A m \in sub[n] : new[m] \subseteq sub[n]
  <2>1. new = [m \in D |-> IF m = c THEN sub[n]
                           ELSE IF m = n THEN {n} \cup Of(sub, low) \cup Of(sub, moved)
                           ELSE sub[m]]
    BY <1>1, <1>2 DEF Turned, new, low, moved
  <2>2. Of(sub, low) \subseteq sub[n]
    BY <1>1, KidIn DEF Of, low
  <2>3. Of(sub, moved) \subseteq sub[n]
    <3>1. moved # Nil => sub[moved] \subseteq sub[c]
      BY <1>1, <1>4, KidIn DEF moved
    <3>2. sub[c] \subseteq sub[n]
      BY <1>4, Within
    <3>. QED  BY <3>1, <3>2 DEF Of
  <2>4. \A m \in sub[n] : sub[m] \subseteq sub[n]
    BY Within
  <2>. QED  BY <1>4, <1>6, <2>1, <2>2, <2>3, <2>4
<1>19. u.parent[c] = p /\ v.parent[n] = c
  BY <1>4, <1>5, <1>6, <1>8
<1>20. p # Nil => u.children[p][q] = c /\ u.children[p][1 - q] = t.children[p][1 - q]
  BY <1>5, <1>8
<1>21. \A m \in D \ sub[n] :
         m # p => u.children[m] = t.children[m] /\ u.height[m] = t.height[m]
  BY <1>4, <1>5, <1>6, <1>8, <1>9
<1>22. Settled(t, D, K, sub, n, u, c, new)
  BY <1>4, <1>10, <1>15, <1>16, <1>17, <1>18, <1>19, <1>20, <1>21 DEF Settled, p, q
<1>. QED  BY <1>14, <1>19, <1>22 DEF u, v, d, new

EvenBelow(t, sub, n) == \A m \in sub[n] : m # n => Even(t, m)

(* A rotation at the child c of n, and a second one at n, settle n when the
   second does so after the first.                                          *)
LEMMA SettledTwice ==
  ASSUME NEW t, NEW D, NEW K, NEW sub, Ordered(t, D, K, sub),
         NEW n \in D, NEW c \in D, NEW s \in Side,
         t.children[n][s] = c, t.children[c][1 - s] # Nil,
         NEW v, Turns(t, v, c, s), NEW u, NEW top, NEW new,
         Settled(v, D, K, Turned(t, D, c, s, sub), n, u, top, new)
  PROVE  Settled(t, D, K, sub, n, u, top, new)
<1> DEFINE g == t.children[c][1 - s]
           p == t.parent[n]
           mid == Turned(t, D, c, s, sub)
<1>1. /\ D \subseteq Nodes /\ Nil \notin Nodes /\ n \in sub[n]
      /\ \A m \in D : sub[m] \in SUBSET D
  BY LinkTypes DEF Ordered, Keyed, Typed, Nested
<1>2. c \in sub[n] /\ c # n /\ t.parent[c] = n
  <2>1. c # Nil
    BY <1>1
  <2>2. c \in sub[n] /\ n \notin sub[c] /\ c \in sub[c] /\ t.parent[c] = n
    BY <2>1, KidIn
  <2>. QED  BY <2>2
<1>3. /\ g \in D /\ g # c /\ g \in sub[c] /\ n # g /\ g # Nil
      /\ n # t.children[g][s]
  <2>1. Apart(t, D, sub, c, s)
    BY Around
  <2>. QED  BY <1>1, <1>2, <2>1 DEF Apart
<1>4. g \in sub[n]
  BY <1>2, <1>3, Within
<1>5. p \notin sub[n] /\ p \in D \cup {Nil}
  BY ParentOut
<1>6. /\ \A m \in Nodes : m \notin {c, g, n} => v.children[m] = t.children[m]
      /\ \A m \in Nodes : m \notin {c, g, n} => v.height[m] = t.height[m]
      /\ v.parent[n] = p
  BY <1>1, <1>2, <1>3 DEF Turns
<1>7. /\ mid[n] = sub[n]
      /\ \A m \in D \ sub[n] : mid[m] = sub[m]
  BY <1>2, <1>3, <1>4 DEF Turned
<1>8. p # Nil => v.children[p] = t.children[p] /\ ParentSide(v, n) = ParentSide(t, n)
  <2>1. p # Nil => v.children[p] = t.children[p]
    BY <1>1, <1>2, <1>4, <1>5, <1>6
  <2>. QED  BY <1>6, <2>1 DEF ParentSide
<1> HIDE DEF g, p, mid
<1>9. /\ Ordered(u, D, K, new)
      /\ top \in mid[n] /\ new[top] = mid[n]
      /\ \A m \in D \ mid[n] : new[m] = mid[m]
      /\ \A m \in mid[n] : new[m] \subseteq mid[n] /\ Even(u, m)
      /\ u.parent[top] = v.parent[n]
      /\ v.parent[n] # Nil =>
           /\ u.children[v.parent[n]][ParentSide(v, n)] = top
           /\ u.children[v.parent[n]][1 - ParentSide(v, n)]
                = v.children[v.parent[n]][1 - ParentSide(v, n)]
      /\ \A m \in D \ mid[n] :
           m # v.parent[n] => u.children[m] = v.children[m] /\ u.height[m] = v.height[m]
  BY DEF Settled, mid
<1>10. \A m \in D \ sub[n] : m # p => u.children[m] = t.children[m] /\ u.height[m] = t.height[m]
  BY <1>1, <1>2, <1>4, <1>6, <1>7, <1>9
<1>11. p # Nil => /\ u.children[p][ParentSide(t, n)] = top
                  /\ u.children[p][1 - ParentSide(t, n)] = t.children[p][1 - ParentSide(t, n)]
  BY <1>6, <1>8, <1>9
<1>. QED  BY <1>6, <1>7, <1>9, <1>10, <1>11 DEF Settled, p

(* The first of two rotations leaves all even below n but its new child.     *)
Inner(t, v, D, mid, n, c, s) ==
  LET g == t.children[c][1 - s]
      h == Height(t, t.children[c][s])
  IN  /\ g \in D /\ v.children[n][s] = g /\ v.children[n][1 - s] = t.children[n][1 - s]
      /\ v.children[g][s] = c /\ v.children[g][1 - s] = t.children[g][1 - s]
      /\ Height(v, t.children[n][1 - s]) = Height(t, t.children[n][1 - s])
      /\ h \in Nat /\ t.height[c] = h + 2
      /\ Height(v, t.children[g][1 - s]) \in {h, h - 1}
      /\ Height(v, t.children[g][1 - s]) \in Nat
      /\ v.height[c] = h + 1
      /\ \A m \in mid[n] : m \notin {n, g} => Even(v, m)

(* The first rotation of a double one makes its second one possible.        *)
LEMMA InnerTurn ==
  ASSUME NEW t, NEW D, NEW K, NEW sub, Ordered(t, D, K, sub),
         NEW n \in D, NEW c \in D, NEW s \in Side,
         t.children[n][s] = c, t.children[c][1 - s] # Nil,
         EvenBelow(t, sub, n),
         Height(t, t.children[c][s]) < Height(t, t.children[c][1 - s]),
         NEW v, Turns(t, v, c, s), NEW mid, mid = Turned(t, D, c, s, sub),
         Ordered(v, D, K, mid)
  PROVE  Inner(t, v, D, mid, n, c, s)
<1> DEFINE g == t.children[c][1 - s]
           low == t.children[c][s]
           moved == t.children[g][s]
           outer == t.children[g][1 - s]
           side == t.children[n][1 - s]
           h == Height(t, low)
           q == ParentSide(t, c)
<1>0. 1 - s \in Side /\ 1 - (1 - s) = s /\ 1 - s # s /\ \A i \in Side : i = s \/ i = 1 - s
  BY DEF Side, Left, Right
<1>1. /\ D \subseteq Nodes /\ Nil \notin Nodes /\ n \in sub[n] /\ Shaped(t, D) /\ Shaped(v, D)
      /\ \A m \in D : sub[m] \in SUBSET D
  BY LinkTypes DEF Ordered, Keyed, Typed, Nested
<1>2. c \in sub[n] /\ c # n /\ t.parent[c] = n /\ n \notin sub[c] /\ c \in sub[c]
  <2>1. c # Nil
    BY <1>1
  <2>. QED  BY <2>1, KidIn
<1>3. /\ g \in D /\ g # c /\ g \in sub[c] /\ t.parent[g] = c
      /\ {low, moved, outer} \subseteq D \cup {Nil}
      /\ n \notin {low, moved, outer, g}
      /\ c \notin {low, moved, outer} /\ g \notin {low, moved, outer}
  <2>1. Apart(t, D, sub, c, s)
    BY Around
  <2>2. LET u == t.parent[c]
        IN  /\ g \in D /\ g # c /\ t.parent[g] = c /\ g \in sub[c]
            /\ {low, moved, outer} \subseteq D \cup {Nil}
            /\ c \notin {low, moved, outer} /\ g \notin {low, moved, outer, u}
            /\ u # Nil => u \notin {low, moved, outer}
    BY <2>1 DEF Apart
  <2>3. n # Nil
    BY <1>1
  <2> HIDE DEF g, low, moved, outer
  <2>. QED  BY <1>2, <2>2, <2>3
<1>4. g \in sub[n] /\ side \in D \cup {Nil} /\ side \notin {c, g, n}
  <2>1. g \in sub[n]
    BY <1>2, <1>3, Within
  <2>2. side # Nil => side \in sub[side] /\ n \notin sub[side] /\ t.parent[side] = n
    BY <1>0, KidIn
  <2>3. side \in D \cup {Nil} /\ side # c
    BY <1>0, <1>1, Kid
  <2>. QED  BY <1>1, <1>2, <1>3, <2>1, <2>2, <2>3
<1>5. q = s
  <2>1. q \in Side /\ t.children[n][1 - q] # c
    BY <1>1, <1>2, ParentOut
  <2>. QED  BY <1>0, <2>1
<1>6. /\ v.children[c][1 - s] = moved /\ v.children[c][s] = low
      /\ v.children[g][s] = c /\ v.children[g][1 - s] = outer
      /\ v.children[n][q] = g /\ v.children[n][1 - q] = t.children[n][1 - q]
      /\ \A m \in Nodes : m \notin {c, g, n} => v.children[m] = t.children[m]
      /\ \A m \in Nodes : m \notin {c, g, n} => v.height[m] = t.height[m]
      /\ v.height[c] = Tall(v, c)
  BY <1>1, <1>2 DEF Turns
<1>7. Even(t, c) /\ Even(t, g)
  BY <1>2, <1>3, <1>4 DEF EvenBelow
<1>t. t.children[c][1 - s] = g /\ t.children[c][s] = low /\ t.children[n][1 - s] = side
      /\ t.children[g][s] = moved /\ t.children[g][1 - s] = outer
  OBVIOUS
<1>h. Height(t, low) < Height(t, g)
  OBVIOUS
<1> HIDE DEF g, low, moved, outer, side, q
<1>8. /\ Height(v, low) = Height(t, low) /\ Height(v, moved) = Height(t, moved)
      /\ Height(v, outer) = Height(t, outer) /\ Height(v, side) = Height(t, side)
  BY <1>1, <1>3, <1>4, <1>6 DEF Height
<1>9. /\ Height(t, low) \in Nat /\ Height(t, g) \in Nat
      /\ Height(t, low) - Height(t, g) \in -1 .. 1
      /\ t.height[c] = 1 + IF Height(t, low) > Height(t, g) THEN Height(t, low) ELSE Height(t, g)
  BY <1>1, <1>7, <1>t, EvenSides
<1>10. /\ Height(t, moved) \in Nat /\ Height(t, outer) \in Nat
       /\ Height(t, moved) - Height(t, outer) \in -1 .. 1
       /\ t.height[g] = 1 + IF Height(t, moved) > Height(t, outer)
                            THEN Height(t, moved) ELSE Height(t, outer)
  BY <1>1, <1>3, <1>7, <1>t, EvenSides
<1>11. Height(t, g) = t.height[g]
  BY <1>1, <1>3 DEF Height
<1>12. /\ h \in Nat /\ t.height[c] = h + 2 /\ t.height[g] = h + 1
       /\ Height(t, outer) \in {h, h - 1} /\ Height(t, moved) \in {h, h - 1}
  BY <1>9, <1>10, <1>11, <1>h
<1>13. v.height[c] = h + 1 /\ Even(v, c)
  <2>1. /\ Tall(v, c) = 1 + IF Height(v, low) > Height(v, moved)
                           THEN Height(v, low) ELSE Height(v, moved)
        /\ Even(v, c) <=>
             /\ Height(v, low) - Height(v, moved) \in -1 .. 1
             /\ v.height[c] = 1 + IF Height(v, low) > Height(v, moved)
                                  THEN Height(v, low) ELSE Height(v, moved)
    BY <1>1, <1>6, EvenSides
  <2>. QED  BY <1>6, <1>8, <1>12, <2>1
<1>14. mid[n] = sub[n]
  <2>1. n # t.children[c][1 - s]
    BY <1>3, <1>t
  <2>. QED  BY <1>2, <2>1 DEF Turned
<1>15. ASSUME NEW m \in sub[n], m \notin {n, c, g} PROVE Even(v, m)
  <2>1. m \in D /\ Even(t, m)
    BY <1>1, <1>15 DEF EvenBelow
  <2>2. ASSUME NEW j \in Side, t.children[m][j] # Nil
        PROVE  t.children[m][j] \in Nodes \ {n, c, g}
    <3>1. t.children[m][j] \in sub[n] /\ t.children[m][j] # n
      BY <2>2, Closed
    <3>2. t.parent[t.children[m][j]] = m
      BY <2>1, <2>2, KidIn
    <3>. QED  BY <1>1, <1>2, <1>3, <1>15, <3>1, <3>2
  <2>3. \A j \in Side : t.children[m][j] # Nil =>
          v.height[t.children[m][j]] = t.height[t.children[m][j]]
    BY <1>6, <2>2
  <2>4. v.children[m] = t.children[m] /\ v.height[m] = t.height[m]
    BY <1>1, <1>6, <1>15, <2>1
  <2>. QED  BY <2>1, <2>3, <2>4, EvenKept
<1>16. \A m \in mid[n] : m \notin {n, g} => Even(v, m)
  BY <1>13, <1>14, <1>15
<1> HIDE DEF h
<1>. QED  BY <1>3, <1>5, <1>6, <1>8, <1>10, <1>12, <1>13, <1>16 DEF Inner, g, outer, side, h, low

(* Lowering settles a node with one side two higher than the other.         *)
LEMMA LowerSettles ==
  ASSUME NEW t, NEW D, NEW K, NEW sub, Ordered(t, D, K, sub),
         NEW n \in D, NEW s \in Side, EvenBelow(t, sub, n),
         Height(t, t.children[n][s]) = Height(t, t.children[n][1 - s]) + 2
  PROVE  LET top == Lower(t, n, s).parent[n]
             u == UpdateHeight(Lower(t, n, s), top)
             a == Height(t, t.children[n][s])
         IN  /\ \E new : Settled(t, D, K, sub, n, u, top, new)
             /\ u.height[top] \in {a, a + 1}
<1> DEFINE c == t.children[n][s]
           low == t.children[n][1 - s]
           outer == t.children[c][s]
           inner == t.children[c][1 - s]
           b == Height(t, low)
           o == Height(t, outer)
           i == Height(t, inner)
           v == Lower(t, n, s)
<1>0. 1 - s \in Side /\ 1 - (1 - s) = s /\ 1 - s # s
  BY DEF Side, Left, Right
<1>1. D \subseteq Nodes /\ Nil \notin Nodes /\ Shaped(t, D)
  BY LinkTypes DEF Ordered, Keyed, Typed
<1>2. b \in Nat /\ Height(t, c) \in Nat /\ Height(t, c) = b + 2
  BY <1>0, <1>1, HeightNat
<1>3. c # Nil /\ t.height[c] = b + 2
  BY <1>2 DEF Height
<1>4. c \in D /\ c \in sub[n] /\ c # n
  <2>1. c \in D /\ c \in sub[c] /\ sub[c] \subseteq sub[n] /\ n \notin sub[c]
    BY <1>3, KidIn
  <2>. QED  BY <2>1
<1>5. Even(t, c)
  BY <1>4 DEF EvenBelow
<1>6. /\ o \in Nat /\ i \in Nat /\ o - i \in -1 .. 1
      /\ t.height[c] = 1 + IF o > i THEN o ELSE i
  BY <1>1, <1>4, <1>5, EvenSides
<1>7. CASE ~ o < i
  <2> DEFINE h == 1 + IF b > i THEN b ELSE i
             u == UpdateHeight(v, c)
  <2>1. v = Rotate(t, n, 1 - s)
    BY <1>7 DEF Lower
  <2>2. o = b + 1 /\ i \in {b, b + 1} /\ h \in Nat /\ b - i \in -1 .. 1 /\ o - h \in -1 .. 1
    BY <1>2, <1>3, <1>6, <1>7
  <2>3. Turnable(t, sub, n, s, c, b, o, i, h)
    BY <1>2, <1>3, <1>6, <2>2 DEF Turnable, EvenBelow
  <2>4. /\ Settled(t, D, K, sub, n, u, c, Turned(t, D, n, 1 - s, sub))
        /\ v.parent[n] = c /\ u.height[c] = 1 + IF o > h THEN o ELSE h
    <3> HIDE DEF c, b, o, i, h, v
    <3>. QED  BY <2>1, <2>3, RotateSettles
  <2>5. u.height[c] \in {b + 2, b + 3}
    <3> HIDE DEF c, b, o, i, u
    <3>. QED  BY <1>2, <2>2, <2>4
  <2>. QED  BY <1>2, <2>4, <2>5
<1>8. CASE o < i
  <2> DEFINE w == Rotate(t, c, s)
             mid == Turned(t, D, c, s, sub)
             l == Height(w, w.children[n][1 - s])
             x == Height(w, w.children[inner][s])
             y == Height(w, w.children[inner][1 - s])
             h == 1 + IF l > y THEN l ELSE y
             u == UpdateHeight(v, inner)
             new == Turned(w, D, n, 1 - s, mid)
  <2>1. v = Rotate(w, n, 1 - s)
    BY <1>8 DEF Lower
  <2>2. inner # Nil
    <3>1. inner = Nil => i = 0
      BY DEF Height
    <3> HIDE DEF o, i, inner
    <3>. QED  BY <1>6, <1>8, <3>1
  <2>3. Turns(t, w, c, s) /\ Ordered(w, D, K, mid)
    <3>1. 1 - s \in Side /\ t.children[c][1 - s] # Nil
      BY <1>0, <2>2
    <3> HIDE DEF c, w, mid
    <3>. QED  BY <1>4, <3>1, RotateOrdered DEF w, mid
  <2>4. /\ inner \in D /\ w.children[n][s] = inner /\ w.children[n][1 - s] = low
        /\ w.children[inner][s] = c /\ w.children[inner][1 - s] = t.children[inner][1 - s]
        /\ Height(w, low) = b
        /\ t.height[c] = o + 2
        /\ Height(w, t.children[inner][1 - s]) \in {o, o - 1}
        /\ Height(w, t.children[inner][1 - s]) \in Nat
        /\ w.height[c] = o + 1
        /\ \A m \in mid[n] : m \notin {n, inner} => Even(w, m)
    <3>1. Inner(t, w, D, mid, n, c, s)
      <4>1. t.children[n][s] = c /\ t.children[c][1 - s] # Nil
        BY <2>2
      <4>2. Height(t, t.children[c][s]) < Height(t, t.children[c][1 - s])
        BY <1>8
      <4>3. mid = Turned(t, D, c, s, sub)
        OBVIOUS
      <4> HIDE DEF w, mid, c, o, i, b, low, outer, inner
      <4>. QED  BY <1>4, <4>1, <4>2, <4>3, <2>3, InnerTurn
    <3> HIDE DEF w, mid
    <3>. QED  BY <3>1 DEF Inner
  <2> HIDE DEF w, mid
  <2>5. o = b /\ l = b /\ x = b + 1 /\ y \in {b, b - 1} /\ y \in Nat /\ h = b + 1
    <3>1. o = b
      <4>1. t.height[c] = b + 2 /\ t.height[c] = o + 2 /\ o \in Nat /\ b \in Nat
        BY <1>2, <1>3, <1>6, <2>4
      <4> HIDE DEF o, b
      <4>. QED  BY <4>1
    <3>2. l = b /\ y \in {b, b - 1} /\ y \in Nat
      BY <2>4, <3>1
    <3>3. x = b + 1
      BY <1>3, <2>4, <3>1 DEF Height
    <3> HIDE DEF o, b, l, y, x
    <3>. QED  BY <1>2, <3>1, <3>2, <3>3
  <2>6. Turnable(w, mid, n, s, inner, l, x, y, h)
    <3>1. inner = w.children[n][s]
      BY <2>4
    <3>2. /\ l \in Nat /\ x \in Nat /\ y \in Nat /\ h \in Nat /\ l - y \in -1 .. 1
          /\ x - h \in -1 .. 1
      <4> HIDE DEF l, x, y, h, b
      <4>. QED  BY <1>2, <2>5
    <3>. QED  BY <2>2, <2>4, <3>1, <3>2 DEF Turnable
  <2>7. /\ Settled(w, D, K, mid, n, u, inner, new)
        /\ v.parent[n] = inner /\ u.height[inner] = 1 + IF x > h THEN x ELSE h
    <3> HIDE DEF inner, l, x, y, h, v
    <3>. QED  BY <2>1, <2>3, <2>6, RotateSettles
  <2>8. Settled(t, D, K, sub, n, u, inner, new)
    <3> HIDE DEF u, new, v
    <3>. QED  BY <1>4, <2>2, <2>3, <2>7, SettledTwice DEF mid
  <2>9. u.height[inner] = b + 2
    <3> HIDE DEF u, inner, x, h, b
    <3>. QED  BY <1>2, <2>5, <2>7
  <2>. QED  BY <1>2, <2>7, <2>8, <2>9
<1>. QED  BY <1>7, <1>8

(* An iteration of balancing settles a node whose trees differ by two at most,
   and its height changes by one at most from what it was.                  *)
LEMMA BalanceSettles ==
  ASSUME NEW t, NEW D, NEW K, NEW sub, Ordered(t, D, K, sub),
         NEW n \in D, EvenBelow(t, sub, n),
         NEW a \in Nat, NEW b \in Nat,
         a = Height(t, t.children[n][Left]), b = Height(t, t.children[n][Right]),
         a - b \in -2 .. 2
  PROVE  LET u == Balance(t, n).tree
             top == Balance(t, n).top
             max == IF a > b THEN a ELSE b
         IN  /\ \E new : Settled(t, D, K, sub, n, u, top, new)
             /\ a - b \in -1 .. 1 => u.height[top] = max + 1
             /\ u.height[top] \in {max, max + 1}
<1>0. /\ Left \in Side /\ Right \in Side /\ 1 - Left = Right /\ 1 - Right = Left
  BY DEF Side, Left, Right
<1>1. CASE b - a >= 2
  <2> DEFINE v == Lower(t, n, Right)
             top == v.parent[n]
             u == UpdateHeight(v, top)
  <2>1. Balance(t, n) = [tree |-> u, top |-> top]
    BY <1>1 DEF Balance
  <2>2. /\ \E new : Settled(t, D, K, sub, n, u, top, new)
        /\ u.height[top] \in {b, b + 1}
    <3>1. Height(t, t.children[n][Right]) = Height(t, t.children[n][1 - Right]) + 2
      BY <1>0, <1>1
    <3>. QED  BY <1>0, <3>1, LowerSettles
  <2> HIDE DEF u, top
  <2>. QED  BY <1>1, <2>1, <2>2
<1>2. CASE b - a <= -2
  <2> DEFINE v == Lower(t, n, Left)
             top == v.parent[n]
             u == UpdateHeight(v, top)
  <2>1. Balance(t, n) = [tree |-> u, top |-> top]
    BY <1>2 DEF Balance
  <2>2. /\ \E new : Settled(t, D, K, sub, n, u, top, new)
        /\ u.height[top] \in {a, a + 1}
    <3>1. Height(t, t.children[n][Left]) = Height(t, t.children[n][1 - Left]) + 2
      BY <1>0, <1>2
    <3>. QED  BY <1>0, <3>1, LowerSettles
  <2> HIDE DEF u, top
  <2>. QED  BY <1>2, <2>1, <2>2
<1>3. CASE a - b \in -1 .. 1
  <2> DEFINE u == UpdateHeight(t, n)
  <2>1. Balance(t, n) = [tree |-> u, top |-> n]
    BY <1>3 DEF Balance
  <2>2. /\ D \subseteq Nodes /\ Nil \notin Nodes /\ n \in sub[n] /\ Shaped(t, D)
        /\ \A m \in D : sub[m] \in SUBSET D
    BY LinkTypes DEF Ordered, Keyed, Typed, Nested
  <2>3. /\ Shaped(u, D) /\ u.root = t.root /\ u.children = t.children
        /\ u.parent = t.parent /\ u.height = [t.height EXCEPT ![n] = Tall(t, n)]
    BY <2>2, UpdateHeightIs
  <2>4. u.height[n] = Tall(t, n) /\ \A m \in Nodes : m # n => u.height[m] = t.height[m]
    BY <2>2, <2>3 DEF Shaped
  <2> HIDE DEF u
  <2>5. Ordered(u, D, K, sub)
    BY <2>3, SameLinks
  <2>6. ASSUME NEW m \in sub[n], NEW j \in Side, t.children[m][j] # Nil
        PROVE  u.height[t.children[m][j]] = t.height[t.children[m][j]]
    <3>1. t.children[m][j] \in sub[n] /\ t.children[m][j] # n
      BY <2>6, Closed
    <3>. QED  BY <2>2, <2>4, <3>1
  <2>7. \A m \in sub[n] : m # n => Even(u, m)
    <3> SUFFICES ASSUME NEW m \in sub[n], m # n PROVE Even(u, m)
      OBVIOUS
    <3>1. u.children[m] = t.children[m] /\ u.height[m] = t.height[m] /\ Even(t, m)
      BY <2>2, <2>3, <2>4 DEF EvenBelow
    <3>. QED  BY <2>6, <3>1, EvenKept
  <2>8. Even(u, n) /\ u.height[n] = 1 + IF a > b THEN a ELSE b
    <3>1. \A j \in Side : Height(u, u.children[n][j]) = Height(t, t.children[n][j])
      BY <2>2, <2>3, <2>6 DEF Height
    <3>2. Tall(u, n) = Tall(t, n) /\ Tall(t, n) = 1 + IF a > b THEN a ELSE b
      BY <1>0, <3>1 DEF Tall
    <3>. QED  BY <1>0, <1>3, <2>4, <3>1, <3>2 DEF Even
  <2>9. \A m \in sub[n] : sub[m] \subseteq sub[n] /\ Even(u, m)
    BY <2>7, <2>8, Within
  <2>10. t.parent[n] # Nil => t.children[t.parent[n]][ParentSide(t, n)] = n
    BY ParentOut
  <2>11. \A m \in D \ sub[n] : u.height[m] = t.height[m]
    BY <2>2, <2>4
  <2>12. Settled(t, D, K, sub, n, u, n, sub)
    BY <2>2, <2>3, <2>5, <2>9, <2>10, <2>11 DEF Settled
  <2>13. u.height[n] \in Nat
    BY <2>2, <2>3 DEF Shaped
  <2>. QED  BY <2>1, <2>8, <2>12
<1>. QED  BY <1>1, <1>2, <1>3

-----------------------------------------------------------------------------
(* Balancing on the way to the root.                                        *)

(* The nodes balancing at r has yet to visit.                               *)
Above(D, sub, r) == {m \in D : r \in sub[m]}

(* The height of a node whose trees had the heights o.                      *)
Was(o) == 1 + IF o[Left] > o[Right] THEN o[Left] ELSE o[Right]

(* All nodes are even but those yet to visit.  These were even with the heights
   old[m][s] their trees had before the operation, of which only one, at r, is
   another now, by one.                                                     *)
Level(t, D, sub, r, old) ==
  /\ r \in D \cup {Nil}
  /\ \A m \in D : m \notin Above(D, sub, r) => Even(t, m)
  /\ \A m \in Above(D, sub, r) :
       /\ old[m] \in [Side -> Nat] /\ old[m][Left] - old[m][Right] \in -1 .. 1
       /\ \A s \in Side : IF t.children[m][s] \in Above(D, sub, r)
                          THEN old[m][s] = Was(old[t.children[m][s]])
                          ELSE m # r => old[m][s] = Height(t, t.children[m][s])
  /\ r # Nil => \E s \in Side : /\ old[r][1 - s] = Height(t, t.children[r][1 - s])
                                /\ Height(t, t.children[r][s]) - old[r][s] \in -1 .. 1

(* Below the node to visit next all is even, and its own trees differ by two
   at most; what balancing makes of it is one higher or lower than it was.   *)
LEMMA LevelAt ==
  ASSUME NEW t, NEW D, NEW K, NEW sub, NEW r, NEW old, Ordered(t, D, K, sub),
         Level(t, D, sub, r, old), r # Nil
  PROVE  LET a == Height(t, t.children[r][Left])
             b == Height(t, t.children[r][Right])
             max == IF a > b THEN a ELSE b
         IN  /\ r \in D /\ EvenBelow(t, sub, r)
             /\ a \in Nat /\ b \in Nat /\ a - b \in -2 .. 2
             /\ \A h \in {max, max + 1} :
                  (a - b \in -1 .. 1 => h = max + 1) => h - Was(old[r]) \in -1 .. 1
<1> DEFINE a == Height(t, t.children[r][Left])
           b == Height(t, t.children[r][Right])
           x == old[r][Left]
           y == old[r][Right]
<1>1. /\ r \in D /\ D \subseteq Nodes /\ Shaped(t, D)
      /\ \A m \in D : sub[m] \in SUBSET D /\ m \in sub[m]
  BY DEF Level, Ordered, Keyed, Typed, Nested
<1>2. a \in Nat /\ b \in Nat
  BY <1>1, HeightNat DEF Side
<1>3. r \in Above(D, sub, r)
  BY <1>1 DEF Above
<1>4. x \in Nat /\ y \in Nat /\ x - y \in -1 .. 1
  <2>1. old[r] \in [Side -> Nat] /\ old[r][Left] - old[r][Right] \in -1 .. 1
    BY <1>3 DEF Level
  <2>. QED  BY <2>1 DEF Side
<1>5. (x = a /\ b - y \in -1 .. 1) \/ (y = b /\ a - x \in -1 .. 1)
  <2>1. PICK s \in Side : /\ old[r][1 - s] = Height(t, t.children[r][1 - s])
                          /\ Height(t, t.children[r][s]) - old[r][s] \in -1 .. 1
    BY DEF Level
  <2>2. CASE s = Left
    <3>1. 1 - s = Right
      BY <2>2 DEF Left, Right
    <3>. QED  BY <2>1, <2>2, <3>1
  <2>3. CASE s = Right
    <3>1. 1 - s = Left
      BY <2>3 DEF Left, Right
    <3>. QED  BY <2>1, <2>3, <3>1
  <2>. QED  BY <2>2, <2>3 DEF Side
<1>6. EvenBelow(t, sub, r)
  <2> SUFFICES ASSUME NEW m \in sub[r], m # r PROVE Even(t, m)
    BY DEF EvenBelow
  <2>1. m \in D /\ t.parent[m] \in sub[r]
    BY <1>1, ParentIn
  <2>2. r \notin sub[m]
    <3>1. SUFFICES ASSUME r \in sub[m] PROVE FALSE
      OBVIOUS
    <3>2. t.parent[m] \in sub[m]
      BY <1>1, <2>1, <3>1, Within
    <3>. QED  BY <2>1, <3>2, ParentOut
  <2>. QED  BY <2>1, <2>2 DEF Level, Above
<1>7. Was(old[r]) = 1 + IF x > y THEN x ELSE y
  BY DEF Was
<1> HIDE DEF a, b, x, y
<1>8. a - b \in -2 .. 2
  BY <1>2, <1>4, <1>5
<1>9. \A h \in {IF a > b THEN a ELSE b, (IF a > b THEN a ELSE b) + 1} :
         (a - b \in -1 .. 1 => h = (IF a > b THEN a ELSE b) + 1) => h - Was(old[r]) \in -1 .. 1
  BY <1>2, <1>4, <1>5, <1>7
<1>. QED  BY <1>1, <1>2, <1>6, <1>8, <1>9 DEF a, b

(* Settling the node that balancing is at leaves those above it.            *)
LEMMA SettledLevel ==
  ASSUME NEW t, NEW D, NEW K, NEW sub, NEW r \in D, NEW old, Ordered(t, D, K, sub),
         Level(t, D, sub, r, old), NEW u, NEW top, NEW new,
         Settled(t, D, K, sub, r, u, top, new),
         u.height[top] - Was(old[r]) \in -1 .. 1
  PROVE  Level(u, D, new, t.parent[r], old)
<1> DEFINE p == t.parent[r]
           q == ParentSide(t, r)
           A == Above(D, sub, r)
           B == Above(D, new, p)
<1>1. /\ D \subseteq Nodes /\ Nil \notin Nodes
      /\ \A m \in D : sub[m] \in SUBSET D /\ m \in sub[m]
  BY LinkTypes DEF Ordered, Keyed, Typed, Nested
<1>2. /\ p \in D \cup {Nil} /\ p \notin sub[r]
      /\ p # Nil => q \in Side /\ t.children[p][q] = r
  BY ParentOut
<1>3. /\ Ordered(u, D, K, new) /\ top \in sub[r] /\ new[top] = sub[r]
      /\ \A m \in D \ sub[r] : new[m] = sub[m]
      /\ \A m \in sub[r] : new[m] \subseteq sub[r] /\ Even(u, m)
      /\ p # Nil => u.children[p][q] = top /\ u.children[p][1 - q] = t.children[p][1 - q]
      /\ \A m \in D \ sub[r] :
           m # p => u.children[m] = t.children[m] /\ u.height[m] = t.height[m]
  BY DEF Settled
<1>q. \A i \in Side : p # Nil => i = q \/ i = 1 - q
  BY <1>2 DEF Side, Left, Right
<1>4. /\ \A m \in D \ A : Even(t, m)
      /\ \A m \in A :
           /\ old[m] \in [Side -> Nat] /\ old[m][Left] - old[m][Right] \in -1 .. 1
           /\ \A s \in Side : IF t.children[m][s] \in A
                              THEN old[m][s] = Was(old[t.children[m][s]])
                              ELSE m # r => old[m][s] = Height(t, t.children[m][s])
  BY DEF Level
<1> HIDE DEF p, q, A, B
<1>5. \A m \in D : m \in B <=> m \in A /\ m # r /\ m \notin sub[r]
  <2>1. ASSUME NEW m \in D, m \in sub[r] PROVE m \notin B
    BY <1>2, <1>3, <2>1 DEF B, Above
  <2>2. ASSUME NEW m \in D, m \notin sub[r], m \in A PROVE m \in B
    <3>1. r \in sub[m] /\ m # r
      BY <1>1, <2>2 DEF A, Above
    <3>2. p \in sub[m]
      BY <3>1, ParentIn DEF p
    <3>. QED  BY <1>3, <2>2, <3>2 DEF B, Above
  <2>3. ASSUME NEW m \in D, m \notin sub[r], m \in B PROVE m \in A
    <3>1. p \in sub[m] /\ p # Nil /\ p \in D
      BY <1>1, <1>3, <2>3 DEF B, Above
    <3>2. r \in sub[p]
      BY <1>1, <1>2, <3>1, KidIn
    <3>3. sub[p] \subseteq sub[m]
      BY <3>1, Within
    <3>. QED  BY <3>2, <3>3 DEF A, Above
  <2>. QED  BY <1>1, <2>1, <2>2, <2>3
<1>6. p # Nil => p \in B /\ p \in A
  BY <1>1, <1>2, <1>3, <1>5 DEF B, Above
<1>7. ASSUME NEW m \in D, m \notin sub[r], m # p, NEW s \in Side
      PROVE  /\ u.children[m][s] = t.children[m][s]
             /\ t.children[m][s] \in D \cup {Nil} /\ t.children[m][s] \notin sub[r]
             /\ t.children[m][s] \notin B =>
                  Height(u, t.children[m][s]) = Height(t, t.children[m][s])
  <2> DEFINE c == t.children[m][s]
  <2>1. u.children[m][s] = c
    BY <1>3, <1>7
  <2>2. c \in D \cup {Nil}
    BY <1>1, <1>7, LinkTypes DEF Ordered, Keyed
  <2>3. c \notin sub[r]
    <3>1. SUFFICES ASSUME c \in sub[r] PROVE FALSE
      OBVIOUS
    <3>2. c # Nil /\ t.parent[c] = m
      <4>1. c # Nil
        BY <1>1, <3>1
      <4>. QED  BY <4>1, KidIn
    <3>3. c # r
      BY <1>7, <3>2 DEF p
    <3>4. m \in sub[r]
      BY <3>1, <3>2, <3>3, ParentIn
    <3>. QED  BY <1>7, <3>4
  <2> HIDE DEF c
  <2>4. c \notin B => Height(u, c) = Height(t, c)
    BY <1>3, <1>6, <2>2, <2>3 DEF Height
  <2>. QED  BY <2>1, <2>2, <2>3, <2>4 DEF c
<1>8. ASSUME NEW m \in D, m \notin B PROVE Even(u, m)
  <2>1. CASE m \in sub[r]
    BY <1>3, <2>1
  <2>2. CASE m \notin sub[r]
    <3>1. m \notin A /\ m # p
      BY <1>1, <1>2, <1>5, <1>6, <1>8, <2>2
    <3>2. Even(t, m) /\ u.children[m] = t.children[m] /\ u.height[m] = t.height[m]
      BY <1>3, <1>4, <2>2, <3>1
    <3>3. ASSUME NEW s \in Side, t.children[m][s] # Nil
          PROVE  u.height[t.children[m][s]] = t.height[t.children[m][s]]
      <4>1. t.children[m][s] \notin B
        <5>1. SUFFICES ASSUME t.children[m][s] \in B PROVE FALSE
          OBVIOUS
        <5>2. t.children[m][s] \in D /\ t.children[m][s] \in A
          BY <1>5, <5>1 DEF B, Above
        <5>3. r \in sub[m]
          BY <3>3, <5>2, KidIn DEF A, Above
        <5>. QED  BY <3>1, <5>3 DEF A, Above
      <4>2. Height(u, t.children[m][s]) = Height(t, t.children[m][s])
        BY <1>7, <2>2, <3>1, <4>1
      <4>. QED  BY <3>3, <4>2 DEF Height
    <3>. QED  BY <3>2, <3>3, EvenKept
  <2>. QED  BY <2>1, <2>2
<1>9. ASSUME NEW m \in B, NEW s \in Side
      PROVE  IF u.children[m][s] \in B THEN old[m][s] = Was(old[u.children[m][s]])
             ELSE m # p => old[m][s] = Height(u, u.children[m][s])
  <2>1. m \in D /\ m \in A /\ m # r /\ m \notin sub[r]
    BY <1>5 DEF B, Above
  <2>2. CASE m = p
    <3>1. u.children[m][s] \notin B
      <4>1. SUFFICES ASSUME u.children[m][s] \in B PROVE FALSE
        OBVIOUS
      <4>2. u.children[m][s] \in D /\ p \in new[u.children[m][s]]
        BY <4>1 DEF B, Above
      <4>3. m \notin new[u.children[m][s]]
        <5>1. u.children[m][s] # Nil
          BY <1>1, <4>2
        <5>. QED  BY <1>3, <2>1, <5>1, KidIn
      <4>. QED  BY <2>2, <4>2, <4>3
    <3>. QED  BY <2>2, <3>1
  <2>3. CASE m # p
    <3>1. /\ u.children[m][s] = t.children[m][s]
          /\ t.children[m][s] \in D \cup {Nil} /\ t.children[m][s] \notin sub[r]
          /\ t.children[m][s] \notin B => Height(u, t.children[m][s]) = Height(t, t.children[m][s])
      BY <1>7, <2>1, <2>3
    <3>2. t.children[m][s] \in B <=> t.children[m][s] \in A
      <4>1. A \subseteq D /\ B \subseteq D /\ r \in sub[r]
        BY <1>1 DEF A, B, Above
      <4>. QED  BY <1>5, <3>1, <4>1
    <3>. QED  BY <1>4, <2>1, <2>3, <3>1, <3>2
  <2>. QED  BY <2>2, <2>3
<1>10. ASSUME p # Nil
       PROVE  \E s \in Side : /\ old[p][1 - s] = Height(u, u.children[p][1 - s])
                              /\ Height(u, u.children[p][s]) - old[p][s] \in -1 .. 1
  <2>1. p \in D /\ p \in A /\ p # r /\ q \in Side /\ 1 - q \in Side /\ 1 - q # q
    BY <1>1, <1>2, <1>6, <1>10 DEF Side, Left, Right
  <2>2. t.children[p][q] = r /\ u.children[p][q] = top
        /\ u.children[p][1 - q] = t.children[p][1 - q]
    BY <1>2, <1>3, <1>10
  <2>3. old[p][q] = Was(old[r])
    <3>1. r \in A
      BY <1>1 DEF A, Above
    <3>. QED  BY <1>4, <2>1, <2>2, <3>1
  <2>4. Height(u, top) = u.height[top]
    BY <1>1, <1>3 DEF Height
  <2> DEFINE c == t.children[p][1 - q]
  <2>5. c \notin A /\ c \notin sub[r] /\ c \in D \cup {Nil} /\ c # p
    <3>1. Of(sub, r) \cap Of(sub, c) = {} /\ c \in D \cup {Nil} /\ p \notin Of(sub, c)
      <4>1. 1 - (1 - q) = q /\ p \in D
        BY <2>1 DEF Side, Left, Right
      <4>2. Of(sub, t.children[p][q]) \cap Of(sub, c) = {} /\ c \in D \cup {Nil}
        BY <2>1, <4>1, Kid
      <4>3. p \notin Of(sub, c)
        BY <2>1, Kid
      <4>. QED  BY <2>2, <4>2, <4>3
    <3>2. Of(sub, r) = sub[r]
      BY <1>1 DEF Of
    <3>3. c # Nil => c \in sub[c] /\ Of(sub, c) = sub[c]
      BY <1>1, <3>1 DEF Of
    <3> HIDE DEF c
    <3>4. c # Nil => r \notin sub[c] /\ c \notin sub[r] /\ c # p
      BY <1>1, <3>1, <3>2, <3>3
    <3>. QED  BY <1>1, <2>1, <3>1, <3>4 DEF A, Above
  <2>6. Height(u, c) = Height(t, c)
    <3> HIDE DEF c
    <3>. QED  BY <1>3, <2>5 DEF Height
  <2>7. old[p][1 - q] = Height(t, c)
    BY <1>4, <2>1, <2>5
  <2>. QED  BY <2>1, <2>2, <2>3, <2>4, <2>6, <2>7
<1>11. p \in D \cup {Nil}
  BY <1>2
<1>12. \A m \in B : old[m] \in [Side -> Nat] /\ old[m][Left] - old[m][Right] \in -1 .. 1
  BY <1>4, <1>5 DEF B, Above
<1>13. Level(u, D, new, p, old)
  BY <1>8, <1>9, <1>10, <1>11, <1>12 DEF Level, B
<1>. QED  BY <1>13 DEF p

-----------------------------------------------------------------------------
(* Walks.                                                                   *)

KeyOf(e) == [n \in DOMAIN e |-> e[n].key]

(* LookupNode of a tree t with entries e.                                   *)
Lookup(t, e, k) ==
  LET Down[n \in Nodes \cup {Nil}] ==
        IF n = Nil THEN Nil ELSE IF e[n].key = k THEN n
        ELSE Down[t.children[n][IF k < e[n].key THEN Left ELSE Right]]
  IN  Down[t.root]

(* Lookups are those of the state's tree.                                   *)
LEMMA LookupState == \A k : LookupNode(k) = Lookup(tree, entry, k)
BY DEF LookupNode, Lookup, Toward

(* A lookup goes down from the root, one child at a time.                   *)
LEMMA LookupRule ==
  ASSUME NEW t, NEW D, NEW K, NEW sub, Ordered(t, D, K, sub), NEW e, NEW k
  PROVE  \E f : /\ Lookup(t, e, k) = f[t.root] /\ f[Nil] = Nil
                /\ \A n \in Nodes : f[n] = IF e[n].key = k THEN n
                     ELSE f[t.children[n][IF k < e[n].key THEN Left ELSE Right]]
<1> DEFINE V == Nodes \cup {Nil}
           G == [x \in Nodes \X V \X V |->
                   IF e[x[1]].key = k THEN x[1] ELSE IF k < e[x[1]].key THEN x[2] ELSE x[3]]
           Rule(f) == [n \in V |-> IF n = Nil THEN Nil ELSE IF e[n].key = k THEN n
                         ELSE f[t.children[n][IF k < e[n].key THEN Left ELSE Right]]]
           F == CHOOSE f : f = Rule(f)
<1>1. Lookup(t, e, k) = F[t.root]
  BY DEF Lookup
<1>2. PICK f : Solves(t, V, Nil, G, Nodes, f)
  <2>1. G \in [Nodes \X V \X V -> V] /\ Nil \in V
    OBVIOUS
  <2> HIDE DEF G, V
  <2>. QED  BY <2>1, Recursion
<1>3. /\ f \in [V -> V] /\ f[Nil] = Nil /\ Nil \notin Nodes
      /\ \A n \in Nodes : f[n] = G[<<n, f[t.children[n][Left]], f[t.children[n][Right]]>>]
  BY <1>2, LinkTypes DEF Solves, Ordered, Keyed
<1>4. ASSUME NEW n \in Nodes
      PROVE  f[n] = IF e[n].key = k THEN n
                    ELSE f[t.children[n][IF k < e[n].key THEN Left ELSE Right]]
  <2>1. t.children[n][Left] \in V /\ t.children[n][Right] \in V
    BY LinkTypes DEF Ordered, Keyed, Side
  <2>2. <<n, f[t.children[n][Left]], f[t.children[n][Right]]>> \in Nodes \X V \X V
    BY <1>3, <2>1
  <2>. QED  BY <1>3, <2>2
<1>5. f = Rule(f)
  <2>1. \A n \in V : f[n] = Rule(f)[n]
    BY <1>3, <1>4
  <2>2. Rule(f) \in [V -> V]
    BY <1>3, <2>1
  <2> HIDE DEF V, Rule
  <2>. QED  BY <1>3, <2>1, <2>2
<1>6. F = Rule(F)
  <2> HIDE DEF Rule
  <2>. QED  BY <1>5
<1> HIDE DEF F
<1>7. /\ F[Nil] = Nil
      /\ \A n \in Nodes : F[n] = IF e[n].key = k THEN n
           ELSE F[t.children[n][IF k < e[n].key THEN Left ELSE Right]]
  BY <1>3, <1>6
<1>. QED  BY <1>1, <1>7

(* Lookups find the node with a key, when there is one.                     *)
LEMMA LookupIs ==
  ASSUME NEW t, NEW D, NEW K, NEW sub, Ordered(t, D, K, sub),
         NEW e, DOMAIN e = D, K = KeyOf(e), NEW k \in Int
  PROVE  /\ Lookup(t, e, k) \in D \cup {Nil}
         /\ Lookup(t, e, k) # Nil => K[Lookup(t, e, k)] = k
         /\ Lookup(t, e, k) = Nil => \A n \in D : K[n] # k
<1>1. PICK f : /\ Lookup(t, e, k) = f[t.root] /\ f[Nil] = Nil
               /\ \A n \in Nodes : f[n] = IF e[n].key = k THEN n
                    ELSE f[t.children[n][IF k < e[n].key THEN Left ELSE Right]]
  BY LookupRule
<1>2. \A n \in D : n \in Nodes /\ K[n] = e[n].key /\ K[n] \in Int /\ sub[n] \in SUBSET D /\ n # Nil
  BY LinkTypes DEF Ordered, Keyed, Nested, KeyOf
<1> DEFINE Finds(n) == /\ f[n] \in sub[n] \cup {Nil}
                       /\ f[n] # Nil => K[f[n]] = k
                       /\ f[n] = Nil => \A m \in sub[n] : K[m] # k
           B == {n \in D : ~Finds(n)}
<1>3. B = {}
  <2>1. SUFFICES ASSUME B # {} PROVE FALSE
    OBVIOUS
  <2>2. PICK n \in B : \A s \in Side : t.children[n][s] \notin B
    <3>1. B \in SUBSET D
      OBVIOUS
    <3> HIDE DEF B
    <3>. QED  BY <2>1, <3>1, Lowest
  <2>3. n \in D /\ ~Finds(n)
    OBVIOUS
  <2>4. CASE K[n] = k
    <3>1. f[n] = n /\ n \in sub[n]
      BY <1>1, <1>2, <2>3, <2>4 DEF Ordered, Nested
    <3>. QED  BY <1>2, <2>3, <2>4, <3>1
  <2>5. CASE K[n] # k
    <3> DEFINE s == IF k < K[n] THEN Left ELSE Right
               c == t.children[n][s]
    <3>1. s \in Side
      BY DEF Side
    <3>2. f[n] = f[c]
      BY <1>1, <1>2, <2>3, <2>5
    <3>3. ASSUME NEW m \in sub[n], K[m] = k PROVE m \in Of(sub, c)
      <4>1. /\ sub[n] = {n} \cup Of(sub, t.children[n][Left]) \cup Of(sub, t.children[n][Right])
            /\ \A i \in Side : \A x \in Of(sub, t.children[n][i]) : Before(i, K[x], K[n])
        BY <2>3 DEF Ordered, Nested
      <4>2. \A x \in Of(sub, t.children[n][Left]) : K[x] < K[n]
        BY <4>1 DEF Side, Before
      <4>3. \A x \in Of(sub, t.children[n][Right]) : K[n] < K[x]
        BY <4>1 DEF Side, Before, Left, Right
      <4>. QED  BY <1>2, <2>3, <2>5, <3>3, <4>1, <4>2, <4>3
    <3>4. CASE c = Nil
      <4>1. f[n] = Nil
        BY <1>1, <3>2, <3>4
      <4>2. \A m \in sub[n] : K[m] # k
        BY <3>3, <3>4 DEF Of
      <4>. QED  BY <2>3, <4>1, <4>2
    <3>5. CASE c # Nil
      <4>1. c \in D /\ sub[c] \subseteq sub[n] /\ c \notin B
        BY <2>2, <2>3, <3>1, <3>5, KidIn
      <4>2. Finds(c) /\ Of(sub, c) = sub[c]
        BY <3>5, <4>1 DEF Of
      <4> HIDE DEF c
      <4>. QED  BY <2>3, <3>2, <3>3, <4>1, <4>2
    <3>. QED  BY <3>4, <3>5
  <2>. QED  BY <2>4, <2>5
<1>4. CASE t.root = Nil
  <2>1. D = {}
    BY <1>4 DEF Ordered, Nested
  <2>. QED  BY <1>1, <1>4, <2>1
<1>5. CASE t.root # Nil
  <2>1. t.root \in D /\ sub[t.root] = D
    BY <1>5, LinkTypes DEF Ordered, Nested, Keyed
  <2>. QED  BY <1>1, <1>3, <2>1
<1>. QED  BY <1>4, <1>5

(* Two nodes that are below each other are one.                             *)
LEMMA Antisymmetric ==
  ASSUME NEW t, NEW D, NEW K, NEW sub, Ordered(t, D, K, sub),
         NEW n \in D, NEW m \in sub[n], n \in sub[m]
  PROVE  m = n
<1>1. SUFFICES ASSUME m # n PROVE FALSE
  OBVIOUS
<1>2. m \in D /\ t.parent[m] \in sub[n]
  BY <1>1, Within, ParentIn
<1>3. t.parent[m] \in sub[m]
  BY <1>2, Within
<1>. QED  BY <1>2, <1>3, ParentOut

(* Where an insertion goes at a node.                                       *)
Turn(k, a) == IF k < a THEN Left ELSE Right

Last(t, e, k) ==
  LET Down[n \in Nodes \cup {Nil}] ==
        IF n = Nil \/ t.children[n][IF k < e[n].key THEN Left ELSE Right] = Nil THEN n
        ELSE Down[t.children[n][IF k < e[n].key THEN Left ELSE Right]]
  IN  Down[t.root]

(* The walk of an insertion is that of the state's tree.                    *)
LEMMA LastState == \A k : Previous(k) = Last(tree, entry, k)
BY DEF Previous, Last, Toward

(* The walk of an insertion goes down from the root, to a free place.       *)
LEMMA LastRule ==
  ASSUME NEW t, NEW D, NEW K, NEW sub, Ordered(t, D, K, sub), NEW e, NEW k
  PROVE  \E f : /\ Last(t, e, k) = f[t.root] /\ f[Nil] = Nil
                /\ \A n \in Nodes :
                     LET c == t.children[n][Turn(k, e[n].key)]
                     IN  f[n] = IF c = Nil THEN n ELSE f[c]
<1> DEFINE V == Nodes \cup {Nil}
           Go(n) == t.children[n][IF k < e[n].key THEN Left ELSE Right]
           G == [x \in Nodes \X V \X V |->
                   IF Go(x[1]) = Nil THEN x[1] ELSE IF k < e[x[1]].key THEN x[2] ELSE x[3]]
           Rule(f) == [n \in V |->
                         IF n = Nil \/ t.children[n][IF k < e[n].key THEN Left ELSE Right] = Nil
                         THEN n
                         ELSE f[t.children[n][IF k < e[n].key THEN Left ELSE Right]]]
           F == CHOOSE f : f = Rule(f)
<1>1. Last(t, e, k) = F[t.root]
  BY DEF Last
<1>2. PICK f : Solves(t, V, Nil, G, Nodes, f)
  <2>1. G \in [Nodes \X V \X V -> V] /\ Nil \in V
    OBVIOUS
  <2> HIDE DEF G, V
  <2>. QED  BY <2>1, Recursion
<1>3. /\ f \in [V -> V] /\ f[Nil] = Nil /\ Nil \notin Nodes
      /\ \A n \in Nodes : f[n] = G[<<n, f[t.children[n][Left]], f[t.children[n][Right]]>>]
  BY <1>2, LinkTypes DEF Solves, Ordered, Keyed
<1>4. ASSUME NEW n \in Nodes
      PROVE  f[n] = IF Go(n) = Nil THEN n ELSE f[Go(n)]
  <2> DEFINE l == f[t.children[n][Left]]
             r == f[t.children[n][Right]]
  <2>1. t.children[n][Left] \in V /\ t.children[n][Right] \in V
    BY LinkTypes DEF Ordered, Keyed, Side
  <2>2. <<n, l, r>> \in Nodes \X V \X V
    BY <1>3, <2>1
  <2>3. f[Go(n)] = IF k < e[n].key THEN l ELSE r
    OBVIOUS
  <2>4. f[n] = G[<<n, l, r>>]
    BY <1>3
  <2> HIDE DEF l, r
  <2>5. G[<<n, l, r>>] = IF Go(n) = Nil THEN n ELSE IF k < e[n].key THEN l ELSE r
    BY <2>2
  <2> HIDE DEF G, Go
  <2>. QED  BY <2>3, <2>4, <2>5
<1>5. f = Rule(f)
  <2>1. \A n \in V : f[n] = Rule(f)[n]
    BY <1>3, <1>4
  <2>2. Rule(f) \in [V -> V]
    BY <1>3, <2>1
  <2> HIDE DEF V, Rule
  <2>. QED  BY <1>3, <2>1, <2>2
<1>6. F = Rule(F)
  <2> HIDE DEF Rule
  <2>. QED  BY <1>5
<1> HIDE DEF F
<1>7. F[Nil] = Nil
  BY <1>6
<1>8. \A n \in Nodes : F[n] = IF t.children[n][Turn(k, e[n].key)] = Nil THEN n
                              ELSE F[t.children[n][Turn(k, e[n].key)]]
  BY <1>3, <1>6 DEF Turn
<1>. QED  BY <1>1, <1>7, <1>8

(* The walk of an insertion ends at a node with a free place for the key, and
   every node above has it on the side of the key.                          *)
LEMMA LastIs ==
  ASSUME NEW t, NEW D, NEW K, NEW sub, Ordered(t, D, K, sub),
         NEW e, DOMAIN e = D, K = KeyOf(e), NEW k \in Int
  PROVE  LET p == Last(t, e, k)
         IN  /\ p \in D \cup {Nil} /\ (p = Nil <=> t.root = Nil)
             /\ p # Nil =>
                  /\ t.children[p][Turn(k, K[p])] = Nil
                  /\ \A m \in D : p \in sub[m] =>
                       m = p \/ p \in Of(sub, t.children[m][Turn(k, K[m])])
<1>1. PICK f : /\ Last(t, e, k) = f[t.root] /\ f[Nil] = Nil
               /\ \A n \in Nodes :
                    LET c == t.children[n][Turn(k, e[n].key)]
                    IN  f[n] = IF c = Nil THEN n ELSE f[c]
  BY LastRule
<1>2. \A n \in D : n \in Nodes /\ K[n] = e[n].key /\ sub[n] \in SUBSET D /\ n # Nil /\ n \in sub[n]
  BY LinkTypes DEF Ordered, Keyed, Nested, KeyOf
<1> DEFINE Ends(n) == /\ f[n] \in sub[n]
                      /\ t.children[f[n]][Turn(k, K[f[n]])] = Nil
                      /\ \A m \in sub[n] : f[n] \in sub[m] =>
                           m = f[n] \/ f[n] \in Of(sub, t.children[m][Turn(k, K[m])])
           B == {n \in D : ~Ends(n)}
<1>3. B = {}
  <2>1. SUFFICES ASSUME B # {} PROVE FALSE
    OBVIOUS
  <2>2. PICK n \in B : \A s \in Side : t.children[n][s] \notin B
    <3>1. B \in SUBSET D
      OBVIOUS
    <3> HIDE DEF B
    <3>. QED  BY <2>1, <3>1, Lowest
  <2>3. n \in D /\ ~Ends(n)
    OBVIOUS
  <2> DEFINE s == Turn(k, K[n])
             c == t.children[n][s]
  <2>4. s \in Side
    BY DEF Side, Turn
  <2>5. f[n] = IF c = Nil THEN n ELSE f[c]
    BY <1>1, <1>2, <2>3
  <2>6. CASE c = Nil
    <3>1. f[n] = n
      BY <2>5, <2>6
    <3>2. \A m \in sub[n] : n \in sub[m] => m = n
      BY <2>3, Antisymmetric
    <3>3. n \in sub[n] /\ t.children[n][Turn(k, K[n])] = Nil
      BY <1>2, <2>3, <2>6
    <3>4. Ends(n)
      BY <3>1, <3>2, <3>3
    <3>. QED  BY <2>3, <3>4
  <2>7. CASE c # Nil
    <3> DEFINE o == t.children[n][1 - s]
    <3>0. c \in D /\ sub[c] \subseteq sub[n]
      <4> HIDE DEF s, B
      <4>. QED  BY <2>3, <2>4, <2>7, KidIn
    <3>1. c \in D /\ sub[c] \subseteq sub[n] /\ c \notin B /\ Of(sub, c) = sub[c]
      <4>1. c \notin B
        BY <2>2, <2>4
      <4>2. Of(sub, c) = sub[c]
        BY <2>7 DEF Of
      <4>. QED  BY <3>0, <4>1, <4>2
    <3>2. /\ sub[n] = {n} \cup Of(sub, c) \cup Of(sub, o)
          /\ Of(sub, c) \cap Of(sub, o) = {}
          /\ o \in D \cup {Nil}
      <4>1. n \in D
        BY <2>3
      <4> HIDE DEF s, B
      <4>. QED  BY <2>4, <4>1, Kid
    <3>3. f[n] = f[c]
      BY <2>5, <2>7
    <3>4. f[n] \in sub[c] /\ t.children[f[n]][Turn(k, K[f[n]])] = Nil
      BY <3>1, <3>3
    <3>5. ASSUME NEW m \in sub[n], f[n] \in sub[m]
          PROVE  m = f[n] \/ f[n] \in Of(sub, t.children[m][Turn(k, K[m])])
      <4>1. CASE m = n
        BY <3>1, <3>4, <4>1
      <4>2. CASE m \in sub[c]
        BY <3>1, <3>3, <3>5, <4>2
      <4>3. CASE m \in Of(sub, o)
        <5>1. o \in D /\ m \in sub[o] /\ Of(sub, o) = sub[o]
          BY <3>2, <4>3 DEF Of
        <5> HIDE DEF o, c
        <5>2. sub[m] \subseteq sub[o]
          BY <5>1, Within
        <5>. QED  BY <3>1, <3>2, <3>4, <3>5, <5>1, <5>2
      <4>. QED  BY <3>1, <3>2, <4>1, <4>2, <4>3
    <3>. QED  BY <2>3, <3>1, <3>4, <3>5
  <2>. QED  BY <2>6, <2>7
<1>4. CASE t.root = Nil
  BY <1>1, <1>4
<1>5. CASE t.root # Nil
  <2>1. t.root \in D /\ sub[t.root] = D
    BY <1>5, LinkTypes DEF Ordered, Nested, Keyed
  <2>2. Ends(t.root)
    BY <1>3, <2>1
  <2>. QED  BY <1>1, <1>2, <1>5, <2>1, <2>2
<1>. QED  BY <1>4, <1>5

(* Walks down one side of a tree follow the children.                       *)
LEMMA AdjacentRule ==
  ASSUME NEW t, NEW D, NEW K, NEW sub, Ordered(t, D, K, sub), NEW n \in D, NEW s \in Side
  PROVE  \E f : /\ Adjacent(t, n, s) = f[t.children[n][s]]
                /\ \A m \in Nodes : f[m] = IF t.children[m][1 - s] = Nil THEN m
                                           ELSE f[t.children[m][1 - s]]
<1> DEFINE V == Nodes \cup {Nil}
           G == [x \in Nodes \X V \X V |->
                   IF t.children[x[1]][1 - s] = Nil THEN x[1]
                   ELSE IF 1 - s = Left THEN x[2] ELSE x[3]]
           Rule(f) == [m \in Nodes |-> IF t.children[m][1 - s] = Nil THEN m
                                       ELSE f[t.children[m][1 - s]]]
           F == CHOOSE f : f = Rule(f)
<1>1. Adjacent(t, n, s) = F[t.children[n][s]]
  BY DEF Adjacent
<1>2. PICK f : Solves(t, V, Nil, G, Nodes, f)
  <2>1. G \in [Nodes \X V \X V -> V] /\ Nil \in V
    OBVIOUS
  <2> HIDE DEF G, V
  <2>. QED  BY <2>1, Recursion
<1>3. /\ f \in [V -> V] /\ Nil \notin Nodes
      /\ \A m \in Nodes : f[m] = G[<<m, f[t.children[m][Left]], f[t.children[m][Right]]>>]
  BY <1>2, LinkTypes DEF Solves, Ordered, Keyed
<1>4. 1 - s = Left \/ 1 - s = Right
  BY DEF Side, Left, Right
<1>5. \A m \in Nodes : t.children[m][Left] \in V /\ t.children[m][Right] \in V
  BY LinkTypes DEF Ordered, Keyed, Side
<1>6. ASSUME NEW m \in Nodes
      PROVE  f[m] = IF t.children[m][1 - s] = Nil THEN m ELSE f[t.children[m][1 - s]]
  <2>1. <<m, f[t.children[m][Left]], f[t.children[m][Right]]>> \in Nodes \X V \X V
    BY <1>3, <1>5
  <2>2. Left # Right
    BY DEF Left, Right
  <2>. QED  BY <1>3, <1>4, <2>1, <2>2
<1> DEFINE h == [m \in Nodes |-> f[m]]
<1>7. h = Rule(h)
  <2>1. \A m \in Nodes : h[m] = Rule(h)[m]
    BY <1>4, <1>5, <1>6
  <2> HIDE DEF Rule
  <2>2. Rule(h) = [m \in Nodes |-> Rule(h)[m]]
    BY DEF Rule
  <2>3. h = [m \in Nodes |-> h[m]]
    OBVIOUS
  <2> HIDE DEF h
  <2>. QED  BY <2>1, <2>2, <2>3
<1>8. F = Rule(F)
  <2> HIDE DEF Rule, h
  <2>. QED  BY <1>7
<1> HIDE DEF F
<1>9. \A m \in Nodes : F[m] = IF t.children[m][1 - s] = Nil THEN m
                              ELSE F[t.children[m][1 - s]]
  BY <1>8
<1>. QED  BY <1>1, <1>9

(* The adjacent node on side s is the outermost, towards the node, of those
   below the child there.                                                   *)
LEMMA AdjacentIs ==
  ASSUME NEW t, NEW D, NEW K, NEW sub, Ordered(t, D, K, sub), NEW n \in D, NEW s \in Side,
         t.children[n][s] # Nil
  PROVE  LET w == Adjacent(t, n, s)
         IN  /\ w \in sub[t.children[n][s]] /\ t.children[w][1 - s] = Nil
             /\ \A m \in sub[t.children[n][s]] : m = w \/ Before(s, K[m], K[w])
<1>1. PICK f : /\ Adjacent(t, n, s) = f[t.children[n][s]]
               /\ \A m \in Nodes : f[m] = IF t.children[m][1 - s] = Nil THEN m
                                          ELSE f[t.children[m][1 - s]]
  BY AdjacentRule
<1>2. /\ \A m \in D : m \in Nodes /\ sub[m] \in SUBSET D /\ m \in sub[m] /\ m # Nil /\ K[m] \in Int
      /\ 1 - s \in Side /\ 1 - (1 - s) = s /\ 1 - s # s
  BY LinkTypes DEF Ordered, Keyed, Nested, Side, Left, Right
<1> DEFINE Ends(c) == /\ f[c] \in sub[c] /\ t.children[f[c]][1 - s] = Nil
                      /\ \A m \in sub[c] : m = f[c] \/ Before(s, K[m], K[f[c]])
           B == {c \in D : ~Ends(c)}
<1>3. B = {}
  <2>1. SUFFICES ASSUME B # {} PROVE FALSE
    OBVIOUS
  <2>2. PICK c \in B : \A i \in Side : t.children[c][i] \notin B
    <3>1. B \in SUBSET D
      OBVIOUS
    <3> HIDE DEF B
    <3>. QED  BY <2>1, <3>1, Lowest
  <2>3. c \in D /\ ~Ends(c)
    OBVIOUS
  <2> DEFINE o == t.children[c][1 - s]
             l == t.children[c][s]
  <2>4. f[c] = IF o = Nil THEN c ELSE f[o]
    BY <1>1, <1>2, <2>3
  <2>5. /\ sub[c] = {c} \cup Of(sub, l) \cup Of(sub, o)
        /\ o \in D \cup {Nil} /\ Of(sub, l) \subseteq D
        /\ \A m \in Of(sub, l) : Before(s, K[m], K[c])
        /\ \A m \in Of(sub, o) : Before(1 - s, K[m], K[c])
    <3>1. sub[c] = {c} \cup Of(sub, l) \cup Of(sub, o) /\ o \in D \cup {Nil}
      BY <1>2, <2>3, Kid
    <3>2. \A i \in Side : \A m \in Of(sub, t.children[c][i]) : Before(i, K[m], K[c])
      BY <2>3 DEF Ordered, Nested
    <3>. QED  BY <1>2, <2>3, <3>1, <3>2
  <2>6. CASE o = Nil
    <3>1. f[c] = c /\ Of(sub, o) = {}
      BY <2>4, <2>6 DEF Of
    <3>2. Ends(c)
      BY <1>2, <2>3, <2>5, <2>6, <3>1
    <3>. QED  BY <2>3, <3>2
  <2>7. CASE o # Nil
    <3>1. o \in D /\ Of(sub, o) = sub[o] /\ f[c] = f[o]
      BY <2>4, <2>5, <2>7 DEF Of
    <3>2. Ends(o)
      BY <1>2, <2>2, <3>1
    <3> DEFINE w == f[o]
    <3>3. w \in sub[o] /\ w \in D /\ t.children[w][1 - s] = Nil
          /\ \A m \in sub[o] : m = w \/ Before(s, K[m], K[w])
      BY <1>2, <3>1, <3>2
    <3> HIDE DEF w, l, o
    <3>4. Before(1 - s, K[w], K[c])
      BY <2>5, <3>1, <3>3
    <3>5. K[w] \in Int /\ K[c] \in Int /\ \A m \in Of(sub, l) : K[m] \in Int
      BY <1>2, <2>3, <2>5, <3>3
    <3>6. Before(s, K[c], K[w])
      BY <3>4, <3>5 DEF Before, Side, Left, Right
    <3>7. ASSUME NEW m \in Of(sub, l) PROVE Before(s, K[m], K[w])
      <4>1. Before(s, K[m], K[c])
        BY <2>5
      <4>. QED  BY <3>5, <3>6, <4>1 DEF Before, Side, Left, Right
    <3>8. w \in sub[c] /\ \A m \in sub[c] : m = w \/ Before(s, K[m], K[w])
      BY <2>5, <3>1, <3>3, <3>6, <3>7
    <3>9. Ends(c)
      BY <3>1, <3>3, <3>8 DEF w
    <3>. QED  BY <2>3, <3>9
  <2>. QED  BY <2>6, <2>7
<1>4. t.children[n][s] \in D
  BY Kid
<1>. QED  BY <1>1, <1>3, <1>4

(* Which side of a node others below it are on.                             *)
LEMMA Placed ==
  ASSUME NEW t, NEW D, NEW K, NEW sub, Ordered(t, D, K, sub), NEW m \in D, NEW y \in sub[m],
         y # m, NEW s \in Side
  PROVE  Before(s, K[y], K[m]) <=> y \in Of(sub, t.children[m][s])
<1>1. /\ 1 - s \in Side /\ y \in D /\ K[y] \in Int /\ K[m] \in Int
  BY DEF Ordered, Keyed, Nested, Side, Left, Right
<1>2. sub[m] = {m} \cup Of(sub, t.children[m][s]) \cup Of(sub, t.children[m][1 - s])
  BY Kid
<1>3. \A i \in Side : y \in Of(sub, t.children[m][i]) => Before(i, K[y], K[m])
  BY DEF Ordered, Nested
<1>4. ~ (Before(s, K[y], K[m]) /\ Before(1 - s, K[y], K[m]))
  BY <1>1 DEF Before, Side, Left, Right
<1>. QED  BY <1>1, <1>2, <1>3, <1>4

-----------------------------------------------------------------------------
(* Taking out a node with no child on one side.                             *)

(* Tree t with x in the place of w, and w blank.                            *)
Spliced(t, w, x) == [Replace(t, w, x) EXCEPT !.children[w] = Leafless, !.parent[w] = Nil,
                                             !.height[w] = 0]

Cut(D, sub, w) == [m \in D \ {w} |-> sub[m] \ {w}]

(* The heights of the trees below each node.                                *)
Heights(t, D) == [m \in D |-> [s \in Side |-> Height(t, t.children[m][s])]]

(* What the links of v are when x took the place of w in t.                 *)
Splices(t, v, w, x) ==
  LET q == t.parent[w]
      i == ParentSide(t, w)
  IN  /\ v.root = IF q = Nil THEN x ELSE t.root
      /\ \A m \in Nodes : v.parent[m] = IF m = w THEN Nil ELSE IF m = x THEN q ELSE t.parent[m]
      /\ v.children[w] = Leafless
      /\ q # Nil => v.children[q][i] = x /\ v.children[q][1 - i] = t.children[q][1 - i]
      /\ \A m \in Nodes : m \notin {w, q} => v.children[m] = t.children[m]
      /\ \A m \in Nodes : m \notin {w, q} => v.height[m] = t.height[m]

(* Taking out a node with one child at most changes the links around it.    *)
LEMMA SplicedIs ==
  ASSUME NEW t, NEW D, NEW K, NEW sub, Ordered(t, D, K, sub), NEW w \in D, NEW s \in Side,
         t.children[w][1 - s] = Nil
  PROVE  LET v == Spliced(t, w, t.children[w][s])
         IN  Shaped(v, D) /\ Splices(t, v, w, t.children[w][s])
<1> DEFINE x == t.children[w][s]
           q == t.parent[w]
           i == ParentSide(t, w)
           u == Replace(t, w, x)
           v == Spliced(t, w, x)
<1>1. /\ Shaped(t, D) /\ D \subseteq Nodes /\ Nil \notin Nodes /\ w \in Nodes
      /\ x \in D \cup {Nil} /\ q \in D \cup {Nil} /\ q # w /\ x # w
      /\ t.parent \in [Nodes -> D \cup {Nil}]
      /\ t.children \in [Nodes -> [Side -> D \cup {Nil}]]
  <2>1. w \in sub[w] /\ q \notin sub[w]
    BY ParentOut DEF Ordered, Nested
  <2>2. x # w /\ x \in D \cup {Nil}
    BY Kid, LinkTypes DEF Ordered, Keyed
  <2>. QED  BY <2>1, <2>2, LinkTypes DEF Ordered, Keyed, Typed, Shaped
<1>2. q # Nil => i \in Side /\ 1 - i \in Side /\ 1 - i # i
  BY ParentOut DEF Side, Left, Right
<1>3. /\ Shaped(u, D) /\ u.root = IF q = Nil THEN x ELSE t.root
      /\ u.parent = IF x = Nil THEN t.parent ELSE [t.parent EXCEPT ![x] = q]
      /\ u.children = IF q = Nil THEN t.children ELSE [t.children EXCEPT ![q][i] = x]
      /\ \A m \in Nodes : m # q => u.height[m] = t.height[m]
  <2> HIDE DEF x
  <2>1. Shaped(t, D) /\ D \subseteq Nodes /\ x \in D \cup {Nil}
    BY <1>1
  <2>. QED  BY <2>1, ReplaceIs
<1>4. v = [u EXCEPT !.children[w] = Leafless, !.parent[w] = Nil, !.height[w] = 0]
  BY DEF Spliced
<1> HIDE DEF x, q, i, u, v
<1>5. /\ Shaped(v, D) /\ v.root = u.root
      /\ v.parent = [u.parent EXCEPT ![w] = Nil]
      /\ v.children = [u.children EXCEPT ![w] = Leafless]
      /\ v.height = [u.height EXCEPT ![w] = 0]
  <2>1. Leafless \in [Side -> D \cup {Nil}] /\ 0 \in Nat
    BY DEF Leafless
  <2>. QED  BY <1>1, <1>3, <1>4, <2>1 DEF Shaped
<1>6. /\ u.parent \in [Nodes -> D \cup {Nil}] /\ u.height \in [Nodes -> Nat]
      /\ u.children \in [Nodes -> [Side -> D \cup {Nil}]]
  BY <1>3 DEF Shaped
<1>7. \A m \in Nodes : v.parent[m] = IF m = w THEN Nil ELSE IF m = x THEN q ELSE t.parent[m]
  BY <1>1, <1>3, <1>5, <1>6
<1>8. v.children[w] = Leafless /\ \A m \in Nodes : m # w => v.children[m] = u.children[m]
  BY <1>1, <1>5, <1>6
<1>9. \A m \in Nodes : m \notin {w, q} => v.children[m] = t.children[m]
  BY <1>1, <1>3, <1>8
<1>10. q # Nil => v.children[q][i] = x /\ v.children[q][1 - i] = t.children[q][1 - i]
  BY <1>1, <1>2, <1>3, <1>8
<1>11. \A m \in Nodes : m \notin {w, q} => v.height[m] = t.height[m]
  BY <1>1, <1>3, <1>5, <1>6
<1>12. Splices(t, v, w, x)
  BY <1>3, <1>5, <1>7, <1>8, <1>9, <1>10, <1>11 DEF Splices, q, i
<1>. QED  BY <1>5, <1>12 DEF v, x

(* The tree without w is ordered.                                           *)
LEMMA SpliceOrdered ==
  ASSUME NEW t, NEW D, NEW K, NEW sub, Ordered(t, D, K, sub), NEW w \in D, NEW s \in Side,
         t.children[w][1 - s] = Nil,
         NEW v, Shaped(v, D), Splices(t, v, w, t.children[w][s])
  PROVE  Ordered(v, D \ {w}, [m \in D \ {w} |-> K[m]], Cut(D, sub, w))
<1> DEFINE x == t.children[w][s]
           q == t.parent[w]
           i == ParentSide(t, w)
           R == D \ {w}
           cut == Cut(D, sub, w)
           L == [m \in R |-> K[m]]
<1>1. /\ D \subseteq Nodes /\ Nil \notin Nodes /\ w \in Nodes /\ t.root \in D \cup {Nil}
      /\ \A m \in Nodes : t.parent[m] \in D \cup {Nil}
      /\ \A m \in Nodes : \A j \in Side : t.children[m][j] \in D \cup {Nil}
      /\ \A m \in Nodes \ D : t.children[m] = Leafless /\ t.parent[m] = Nil
  BY LinkTypes DEF Ordered, Keyed, Typed
<1>2. /\ x \in D \cup {Nil} /\ q \in D \cup {Nil} /\ q # w /\ x # w /\ (x # Nil => x # q)
      /\ x # Nil => t.parent[x] = w
  <2>1. w \in sub[w] /\ q \notin sub[w]
    BY ParentOut DEF Ordered, Nested
  <2>2. x # Nil => x \in sub[w] /\ x # w /\ t.parent[x] = w
    BY KidIn, Kid
  <2>. QED  BY <1>1, <2>1, <2>2
<1>3. /\ q # Nil => i \in Side /\ 1 - i \in Side /\ 1 - i # i /\ t.children[q][i] = w
                    /\ t.children[q][1 - i] # w
      /\ q # Nil => \A j \in Side : j = i \/ j = 1 - i
      /\ \A j \in Side : j = s \/ j = 1 - s
  BY ParentOut DEF Side, Left, Right
<1>4. /\ v.root = IF q = Nil THEN x ELSE t.root
      /\ \A m \in Nodes : v.parent[m] = IF m = w THEN Nil ELSE IF m = x THEN q ELSE t.parent[m]
      /\ v.children[w] = Leafless
      /\ q # Nil => v.children[q][i] = x /\ v.children[q][1 - i] = t.children[q][1 - i]
      /\ \A m \in Nodes : m \notin {w, q} => v.children[m] = t.children[m]
  BY DEF Splices
<1>5. /\ \A m \in D : \A j \in Side : t.children[m][j] # Nil => t.parent[t.children[m][j]] = m
      /\ \A m \in D : IF m = t.root THEN t.parent[m] = Nil
                      ELSE t.parent[m] # Nil /\ \E j \in Side : t.children[t.parent[m]][j] = m
  BY DEF Ordered, Linked
<1>6. /\ \A m \in D : sub[m] \in SUBSET D /\ m \in sub[m]
      /\ \A m \in D :
           sub[m] = {m} \cup Of(sub, t.children[m][Left]) \cup Of(sub, t.children[m][Right])
      /\ \A m \in D : \A j \in Side : \A y \in Of(sub, t.children[m][j]) : Before(j, K[y], K[m])
      /\ IF t.root = Nil THEN D = {} ELSE sub[t.root] = D
  BY DEF Ordered, Nested
<1>7. t.children[w][s] = x /\ t.children[w][1 - s] = Nil /\ t.parent[w] = q
  OBVIOUS
<1>8. cut = [m \in R |-> sub[m] \ {w}]
  BY DEF Cut
<1>9. Keyed(R, L)
  <2>1. IsFiniteSet(R)
    BY FS_RemoveElement DEF Ordered, Keyed
  <2>2. L \in [R -> Int]
    BY DEF Ordered, Keyed
  <2>. QED  BY <1>1, <2>1, <2>2 DEF Keyed
<1>10. Of(sub, w) = {w} \cup Of(sub, x) /\ w \notin Of(sub, x)
  <2>1. sub[w] = {w} \cup Of(sub, x) \cup Of(sub, t.children[w][1 - s]) /\ w \notin Of(sub, x)
    BY Kid
  <2>. QED  BY <1>1, <2>1 DEF Of
<1> HIDE DEF x, q, i, cut, L
<1>11. ASSUME NEW m \in R, NEW j \in Side
       PROVE  /\ v.children[m][j] \in R \cup {Nil}
              /\ v.children[m][j] = IF t.children[m][j] = w THEN x ELSE t.children[m][j]
              /\ t.children[m][j] = w => m = q /\ j = i
  <2>1. t.children[m][j] = w => m = q
    BY <1>1, <1>5, <1>7
  <2>2. CASE m = q
    BY <1>1, <1>2, <1>3, <1>4, <2>2
  <2>3. CASE m # q
    BY <1>1, <1>2, <1>4, <2>1, <2>3
  <2>. QED  BY <2>2, <2>3
<1>12. ASSUME NEW m \in R
       PROVE  v.parent[m] \in R \cup {Nil} /\ (t.parent[m] = w => m = x /\ x # Nil)
  <2>1. ASSUME t.parent[m] = w PROVE m = x
    <3>1. \E j \in Side : t.children[w][j] = m
      BY <1>1, <1>5, <2>1
    <3>. QED  BY <1>1, <1>3, <1>7, <3>1
  <2>. QED  BY <1>1, <1>2, <1>4, <2>1
<1>13. Typed(v, R)
  <2>1. /\ v = [root |-> v.root, children |-> v.children, parent |-> v.parent,
                height |-> v.height]
        /\ v.children \in [Nodes -> [Side -> D \cup {Nil}]] /\ v.height \in [Nodes -> Nat]
        /\ v.parent \in [Nodes -> D \cup {Nil}]
    BY DEF Shaped
  <2>2. v.root \in R \cup {Nil}
    BY <1>1, <1>2, <1>4, <1>5, <1>7
  <2>3. ASSUME NEW m \in Nodes \ R PROVE v.children[m] = Leafless /\ v.parent[m] = Nil
    BY <1>1, <1>2, <1>4
  <2>4. ASSUME NEW m \in Nodes PROVE v.children[m] \in [Side -> R \cup {Nil}]
    <3>1. CASE m \in R
      <4>1. v.children[m] \in [Side -> D \cup {Nil}]
        BY <2>1
      <4>. QED  BY <1>11, <3>1, <4>1
    <3>2. CASE m \notin R
      BY <2>3, <3>2 DEF Leafless
    <3>. QED  BY <3>1, <3>2
  <2>5. \A m \in Nodes : v.parent[m] \in R \cup {Nil}
    BY <1>12, <2>3
  <2>6. v.children \in [Nodes -> [Side -> R \cup {Nil}]] /\ v.parent \in [Nodes -> R \cup {Nil}]
    BY <2>1, <2>4, <2>5
  <2>7. Shaped(v, R)
    BY <2>1, <2>2, <2>6 DEF Shaped
  <2>. QED  BY <2>3, <2>7 DEF Typed
<1>14. ASSUME NEW m \in R, NEW j \in Side, v.children[m][j] # Nil
       PROVE  v.parent[v.children[m][j]] = m
  <2>1. CASE t.children[m][j] = w
    BY <1>1, <1>2, <1>4, <1>11, <1>14, <2>1
  <2>2. CASE t.children[m][j] # w
    <3>1. v.children[m][j] = t.children[m][j] /\ t.parent[t.children[m][j]] = m
      BY <1>5, <1>11, <1>14, <2>2
    <3>2. t.children[m][j] # x
      BY <1>2, <1>14, <3>1
    <3>. QED  BY <1>1, <1>4, <1>11, <1>14, <2>2, <3>1, <3>2
  <2>. QED  BY <2>1, <2>2
<1>15. ASSUME NEW m \in R
       PROVE  IF m = v.root THEN v.parent[m] = Nil
              ELSE v.parent[m] # Nil /\ \E j \in Side : v.children[v.parent[m]][j] = m
  <2>1. CASE m = x
    <3>1. v.parent[m] = q /\ (q = Nil => v.root = m)
      BY <1>1, <1>4, <2>1
    <3>2. q # Nil => v.root # m
      BY <1>1, <1>2, <1>4, <1>5, <2>1
    <3>. QED  BY <1>3, <1>4, <2>1, <3>1, <3>2
  <2>2. CASE m # x
    <3>1. v.parent[m] = t.parent[m] /\ t.parent[m] # w
      BY <1>1, <1>4, <1>12, <2>2
    <3>2. m = v.root <=> m = t.root
      BY <1>1, <1>4, <1>5, <1>7, <2>2
    <3>3. ASSUME m # t.root
          PROVE  v.parent[m] # Nil /\ \E j \in Side : v.children[v.parent[m]][j] = m
      <4>1. PICK j \in Side : t.children[t.parent[m]][j] = m /\ t.parent[m] # Nil
        BY <1>5, <3>3
      <4>2. t.parent[m] \in R
        BY <1>1, <3>1, <4>1
      <4>3. v.children[t.parent[m]][j] = m
        BY <1>11, <4>1, <4>2
      <4>. QED  BY <3>1, <4>1, <4>3
    <3>. QED  BY <1>5, <3>1, <3>2, <3>3
  <2>. QED  BY <2>1, <2>2
<1>16. ASSUME NEW m \in R, NEW j \in Side
       PROVE  Of(cut, v.children[m][j]) = Of(sub, t.children[m][j]) \ {w}
  <2>1. CASE t.children[m][j] = w
    <3>1. v.children[m][j] = x
      BY <1>11, <2>1
    <3>2. Of(cut, x) = Of(sub, x)
      BY <1>2, <1>8, <1>10 DEF Of
    <3>. QED  BY <1>10, <2>1, <3>1, <3>2
  <2>2. CASE t.children[m][j] # w
    <3>1. v.children[m][j] = t.children[m][j] /\ t.children[m][j] \in R \cup {Nil}
      BY <1>1, <1>11, <2>2
    <3>. QED  BY <1>8, <3>1 DEF Of
  <2>. QED  BY <2>1, <2>2
<1>17. Nested(v, R, L, cut)
  <2>1. cut \in [R -> SUBSET R]
    BY <1>6, <1>8
  <2>2. ASSUME NEW m \in R
        PROVE  cut[m] = {m} \cup Of(cut, v.children[m][Left]) \cup Of(cut, v.children[m][Right])
    <3>1. Left \in Side /\ Right \in Side
      BY DEF Side
    <3>2. cut[m] = sub[m] \ {w} /\ m # w
      BY <1>8
    <3>3. sub[m] = {m} \cup Of(sub, t.children[m][Left]) \cup Of(sub, t.children[m][Right])
      BY <1>6
    <3>4. /\ Of(cut, v.children[m][Left]) = Of(sub, t.children[m][Left]) \ {w}
          /\ Of(cut, v.children[m][Right]) = Of(sub, t.children[m][Right]) \ {w}
      BY <1>16, <3>1
    <3>. QED  BY <3>2, <3>3, <3>4
  <2>3. ASSUME NEW m \in R, NEW j \in Side, NEW y \in Of(cut, v.children[m][j])
        PROVE  Before(j, L[y], L[m])
    <3>1. y \in Of(sub, t.children[m][j]) /\ y # w
      BY <1>16, <2>3
    <3>2. y \in D
      BY <1>1, <1>6, <3>1 DEF Of
    <3>. QED  BY <1>6, <3>1, <3>2 DEF L
  <2>4. IF v.root = Nil THEN R = {} ELSE cut[v.root] = R
    <3>1. CASE q = Nil
      <4>1. t.root = w
        BY <1>5, <1>7, <3>1
      <4>2. D = {w} \cup Of(sub, x)
        BY <1>1, <1>6, <1>10, <4>1 DEF Of
      <4>3. v.root = x /\ R = Of(sub, x)
        BY <1>4, <1>10, <3>1, <4>2
      <4>4. x # Nil => x \in R /\ Of(sub, x) = sub[x] /\ w \notin sub[x]
        BY <1>2, <1>10 DEF Of
      <4>5. x # Nil => cut[x] = sub[x]
        BY <1>8, <4>4
      <4>. QED  BY <4>3, <4>4, <4>5 DEF Of
    <3>2. CASE q # Nil
      <4>1. t.root # w /\ t.root # Nil
        BY <1>5, <1>6, <1>7, <3>2
      <4>. QED  BY <1>1, <1>4, <1>6, <1>8, <3>2, <4>1
    <3>. QED  BY <3>1, <3>2
  <2>. QED  BY <2>1, <2>2, <2>3, <2>4 DEF Nested
<1>18. Linked(v, R)
  BY <1>14, <1>15 DEF Linked
<1>. QED  BY <1>9, <1>13, <1>17, <1>18 DEF Ordered, cut, L

(* Where all nodes are even, the heights below them say their own.          *)
LEMMA HeightsWere ==
  ASSUME NEW t, NEW D, D \subseteq Nodes, Shaped(t, D), \A m \in D : Even(t, m), NEW m \in D
  PROVE  /\ Heights(t, D)[m] \in [Side -> Nat]
         /\ Heights(t, D)[m][Left] - Heights(t, D)[m][Right] \in -1 .. 1
         /\ \A s \in Side : Heights(t, D)[m][s] = Height(t, t.children[m][s])
         /\ Height(t, m) = Was(Heights(t, D)[m])
<1>1. Left \in Side /\ Right \in Side
  BY DEF Side
<1>2. \A s \in Side : Height(t, t.children[m][s]) \in Nat
  BY HeightNat
<1>3. Heights(t, D)[m] = [s \in Side |-> Height(t, t.children[m][s])]
  BY DEF Heights
<1>4. Even(t, m) /\ m # Nil
  BY AvlTreeAssumption
<1>5. Height(t, m) = t.height[m] /\ t.height[m] = Tall(t, m)
  BY <1>4 DEF Height, Even
<1>6. Was(Heights(t, D)[m]) = Tall(t, m)
  BY <1>1, <1>3 DEF Was, Tall
<1>. QED  BY <1>1, <1>2, <1>3, <1>4, <1>5, <1>6 DEF Even

(* Balancing the tree without w begins at the parent of w.                  *)
LEMMA SpliceLevel ==
  ASSUME NEW t, NEW D, NEW K, NEW sub, Ordered(t, D, K, sub), NEW w \in D, NEW s \in Side,
         t.children[w][1 - s] = Nil, \A m \in D : Even(t, m),
         NEW v, Shaped(v, D), Splices(t, v, w, t.children[w][s])
  PROVE  Level(v, D \ {w}, Cut(D, sub, w), t.parent[w], Heights(t, D))
<1> DEFINE x == t.children[w][s]
           q == t.parent[w]
           i == ParentSide(t, w)
           R == D \ {w}
           cut == Cut(D, sub, w)
           A == Above(R, cut, q)
           old == Heights(t, D)
<1>1. /\ D \subseteq Nodes /\ Nil \notin Nodes /\ w \in Nodes /\ Shaped(t, D)
      /\ \A m \in Nodes : \A j \in Side : t.children[m][j] \in D \cup {Nil}
      /\ \A m \in D : sub[m] \in SUBSET D /\ m \in sub[m]
  BY LinkTypes DEF Ordered, Keyed, Typed, Nested
<1>2. /\ x \in D \cup {Nil} /\ q \in D \cup {Nil} /\ q # w /\ x # w
      /\ x # Nil => x \in sub[w] /\ q \notin sub[x]
      /\ q \notin sub[w]
  <2>1. w \in sub[w] /\ q \notin sub[w] /\ q \in D \cup {Nil}
    BY ParentOut DEF Ordered, Nested
  <2>2. x # Nil => x \in D /\ x \in sub[w] /\ x # w /\ sub[x] \subseteq sub[w]
    BY KidIn, Kid
  <2>. QED  BY <1>1, <2>1, <2>2
<1>3. /\ q # Nil => i \in Side /\ 1 - i \in Side /\ 1 - i # i /\ t.children[q][i] = w
                    /\ t.children[q][1 - i] # w
      /\ q # Nil => \A j \in Side : j = i \/ j = 1 - i
  BY ParentOut DEF Side, Left, Right
<1>4. /\ q # Nil => v.children[q][i] = x /\ v.children[q][1 - i] = t.children[q][1 - i]
      /\ \A m \in Nodes : m \notin {w, q} => v.children[m] = t.children[m]
      /\ \A m \in Nodes : m \notin {w, q} => v.height[m] = t.height[m]
  BY DEF Splices
<1>5. \A m \in D : \A j \in Side : t.children[m][j] # Nil => t.parent[t.children[m][j]] = m
  BY DEF Ordered, Linked
<1>6. ASSUME NEW m \in D
      PROVE  /\ old[m] \in [Side -> Nat] /\ old[m][Left] - old[m][Right] \in -1 .. 1
             /\ \A j \in Side : old[m][j] = Height(t, t.children[m][j])
             /\ Height(t, m) = Was(old[m])
  BY <1>1, HeightsWere
<1>7. Height(t, w) = 1 + Height(t, x) /\ Height(t, x) \in Nat
  <2>1. /\ Height(t, x) \in Nat /\ Height(t, t.children[w][1 - s]) = 0
        /\ t.height[w] = 1 + IF Height(t, x) > Height(t, t.children[w][1 - s])
                             THEN Height(t, x) ELSE Height(t, t.children[w][1 - s])
    <3>1. Height(t, x) \in Nat /\ Height(t, t.children[w][1 - s]) = 0
      BY <1>1, HeightNat DEF Height
    <3>2. Even(t, w)
      OBVIOUS
    <3>. QED  BY <1>1, <3>1, <3>2, EvenSides
  <2>2. Height(t, w) = t.height[w]
    BY <1>1 DEF Height
  <2> HIDE DEF x
  <2>. QED  BY <2>1, <2>2
<1>8. \A m \in D : m \in A <=> m \in R /\ q \in sub[m]
  BY <1>1, <1>2 DEF Above, Cut
<1>8a. Nil \notin A /\ w \notin A /\ A \subseteq R
  BY <1>1 DEF Above
<1>9. ASSUME NEW m \in R, NEW j \in Side
      PROVE  t.children[m][j] = w => m = q /\ j = i
  <2>1. t.children[m][j] = w => m = q
    BY <1>1, <1>5
  <2> HIDE DEF q, i
  <2>. QED  BY <1>1, <1>3, <2>1
<1> HIDE DEF x, q, i, cut, old, A
<1>10. ASSUME NEW c \in D \cup {Nil}, c \notin A, c # w PROVE Height(v, c) = Height(t, c)
  <2>1. c # Nil => c # q
    BY <1>1, <1>2, <1>8, <1>10
  <2>. QED  BY <1>1, <1>4, <1>10, <2>1 DEF Height
<1>11. ASSUME NEW m \in R, NEW j \in Side, t.children[m][j] \in A PROVE m \in A
  <2>1. t.children[m][j] \in D /\ q \in sub[t.children[m][j]] /\ t.children[m][j] # Nil
    BY <1>1, <1>8, <1>8a, <1>11
  <2>2. sub[t.children[m][j]] \subseteq sub[m]
    BY <2>1, KidIn
  <2>. QED  BY <1>8, <2>1, <2>2
<1>12. ASSUME NEW m \in R, m \notin A PROVE Even(v, m)
  <2>1. m # q
    BY <1>1, <1>8, <1>12
  <2>2. v.children[m] = t.children[m] /\ v.height[m] = t.height[m] /\ Even(t, m)
    BY <1>1, <1>4, <2>1
  <2>3. ASSUME NEW j \in Side, t.children[m][j] # Nil
        PROVE  v.height[t.children[m][j]] = t.height[t.children[m][j]]
    <3>1. /\ t.children[m][j] \in D /\ t.children[m][j] # w /\ t.children[m][j] \notin A
      BY <1>1, <1>9, <1>11, <1>12, <2>1, <2>3
    <3>2. Height(v, t.children[m][j]) = Height(t, t.children[m][j])
      BY <1>10, <3>1
    <3>. QED  BY <2>3, <3>2 DEF Height
  <2>. QED  BY <2>2, <2>3, EvenKept
<1>13. ASSUME NEW m \in A, NEW j \in Side
       PROVE  IF v.children[m][j] \in A THEN old[m][j] = Was(old[v.children[m][j]])
              ELSE m # q => old[m][j] = Height(v, v.children[m][j])
  <2>1. m \in R /\ m \in D
    BY <1>8a
  <2>2. CASE m = q
    <3>1. v.children[m][j] \in A => j # i
      BY <1>2, <1>4, <1>8, <1>8a, <2>2
    <3>2. v.children[m][j] \in A => v.children[m][j] = t.children[m][j]
      BY <1>1, <1>3, <1>4, <1>8a, <2>1, <2>2, <3>1
    <3>3. v.children[m][j] \notin A
      <4>1. SUFFICES ASSUME v.children[m][j] \in A PROVE FALSE
        OBVIOUS
      <4>2. t.children[m][j] \in D /\ m \in sub[t.children[m][j]] /\ t.children[m][j] # Nil
        BY <1>8, <1>8a, <2>2, <3>2, <4>1
      <4>. QED  BY <2>1, <4>2, KidIn
    <3>. QED  BY <2>2, <3>3
  <2>3. CASE m # q
    <3>1. v.children[m][j] = t.children[m][j] /\ t.children[m][j] # w
          /\ t.children[m][j] \in D \cup {Nil}
      BY <1>1, <1>4, <1>9, <2>1, <2>3
    <3>2. old[m][j] = Height(t, t.children[m][j])
      BY <1>6, <2>1
    <3>3. CASE t.children[m][j] \in A
      BY <1>6, <1>8a, <3>1, <3>2, <3>3
    <3>4. CASE t.children[m][j] \notin A
      BY <1>10, <3>1, <3>2, <3>4
    <3>. QED  BY <3>3, <3>4
  <2>. QED  BY <2>2, <2>3
<1>14. ASSUME q # Nil
       PROVE  \E j \in Side : /\ old[q][1 - j] = Height(v, v.children[q][1 - j])
                              /\ Height(v, v.children[q][j]) - old[q][j] \in -1 .. 1
  <2>1. q \in D /\ q \in R /\ i \in Side /\ 1 - i \in Side
    BY <1>1, <1>2, <1>3, <1>14
  <2>2. x \notin A /\ Height(v, x) = Height(t, x)
    <3>1. x \notin A
      BY <1>2, <1>8, <1>8a
    <3>. QED  BY <1>2, <1>10, <3>1
  <2>3. Height(v, v.children[q][i]) - old[q][i] \in -1 .. 1
    <3>1. old[q][i] = Height(t, w) /\ v.children[q][i] = x
      BY <1>3, <1>4, <1>6, <1>14, <2>1
    <3>. QED  BY <1>7, <2>2, <3>1
  <2> DEFINE o == t.children[q][1 - i]
  <2>4. o \notin A /\ o # w /\ o \in D \cup {Nil}
    <3>1. o \in D \cup {Nil} /\ o # w
      BY <1>1, <1>3, <1>14, <2>1
    <3>2. o # Nil => q \notin sub[o]
      BY <2>1, KidIn
    <3>. QED  BY <1>8, <1>8a, <3>1, <3>2
  <2>5. Height(v, v.children[q][1 - i]) = Height(t, o)
    BY <1>4, <1>10, <1>14, <2>4
  <2>6. old[q][1 - i] = Height(t, o)
    BY <1>6, <2>1
  <2>. QED  BY <2>1, <2>3, <2>5, <2>6
<1>15. q \in R \cup {Nil}
  BY <1>2
<1>16. \A m \in A : old[m] \in [Side -> Nat] /\ old[m][Left] - old[m][Right] \in -1 .. 1
  BY <1>6, <1>8a
<1>17. Level(v, R, cut, q, old)
  BY <1>12, <1>13, <1>14, <1>15, <1>16 DEF Level, A
<1>. QED  BY <1>17 DEF cut, q, old

-----------------------------------------------------------------------------
(* Another node in the place of one.                                        *)

As(n, w, m) == IF m = n THEN w ELSE m

Others(D, n, w) == (D \ {n}) \cup {w}

Image(n, w, S) == IF n \in S THEN (S \ {n}) \cup {w} ELSE S

(* What is below each node when w is in the place of n.                     *)
Moved(D, sub, n, w) == [m \in Others(D, n, w) |-> Image(n, w, sub[IF m = w THEN n ELSE m])]

(* The links of t with w for n.                                             *)
Renames(t, u, D, n, w) ==
  /\ u.root = As(n, w, t.root)
  /\ \A m \in D : /\ u.parent[As(n, w, m)] = As(n, w, t.parent[m])
                  /\ \A s \in Side : u.children[As(n, w, m)][s] = As(n, w, t.children[m][s])

(* A key of w goes where that of n was.                                     *)
Fits(t, D, K, sub, n, k) ==
  /\ \A m \in D : \A s \in Side : n \in Of(sub, t.children[m][s]) => Before(s, k, K[m])
  /\ \A s \in Side : \A m \in Of(sub, t.children[n][s]) : Before(s, K[m], k)

(* The tree with w for n is ordered when a key of w fits there.             *)
LEMMA RenameOrdered ==
  ASSUME NEW t, NEW D, NEW K, NEW sub, Ordered(t, D, K, sub), NEW n \in D,
         NEW w \in Nodes \ D, NEW u, Typed(u, Others(D, n, w)), Renames(t, u, D, n, w),
         NEW L \in [Others(D, n, w) -> Int], \A m \in D \ {n} : L[m] = K[m],
         Fits(t, D, K, sub, n, L[w])
  PROVE  Ordered(u, Others(D, n, w), L, Moved(D, sub, n, w))
<1> DEFINE E == Others(D, n, w)
           new == Moved(D, sub, n, w)
           F(m) == As(n, w, m)
           G(m) == IF m = w THEN n ELSE m
<1>1. /\ D \subseteq Nodes /\ Nil \notin Nodes /\ w \notin D /\ w # Nil /\ n # Nil /\ n # w
      /\ E = (D \ {n}) \cup {w} /\ n \notin E /\ E \subseteq Nodes
      /\ t.root \in D \cup {Nil}
      /\ \A m \in D : t.parent[m] \in D \cup {Nil}
      /\ \A m \in D : \A s \in Side : t.children[m][s] \in D \cup {Nil}
  BY LinkTypes DEF Ordered, Keyed, Others
<1>2. /\ \A m \in D : F(m) \in E /\ G(F(m)) = m
      /\ \A m \in E : G(m) \in D /\ F(G(m)) = m
      /\ F(Nil) = Nil
      /\ \A m \in D : F(m) # Nil
      /\ \A m \in D : \A x \in D : F(m) = F(x) => m = x
  BY <1>1 DEF As
<1>3. /\ u.root = F(t.root)
      /\ \A m \in D : /\ u.parent[F(m)] = F(t.parent[m])
                      /\ \A s \in Side : u.children[F(m)][s] = F(t.children[m][s])
  BY DEF Renames
<1>4. /\ \A m \in D : \A s \in Side : t.children[m][s] # Nil => t.parent[t.children[m][s]] = m
      /\ \A m \in D : IF m = t.root THEN t.parent[m] = Nil
                      ELSE t.parent[m] # Nil /\ \E s \in Side : t.children[t.parent[m]][s] = m
  BY DEF Ordered, Linked
<1>5. /\ \A m \in D : sub[m] \in SUBSET D
      /\ \A m \in D :
           sub[m] = {m} \cup Of(sub, t.children[m][Left]) \cup Of(sub, t.children[m][Right])
      /\ \A m \in D : \A s \in Side : \A x \in Of(sub, t.children[m][s]) : Before(s, K[x], K[m])
      /\ IF t.root = Nil THEN D = {} ELSE sub[t.root] = D
  BY DEF Ordered, Nested
<1>6. /\ \A S \in SUBSET D : Image(n, w, S) = {F(m) : m \in S} /\ Image(n, w, S) \in SUBSET E
  <2>1. ASSUME NEW S \in SUBSET D PROVE Image(n, w, S) = {F(m) : m \in S}
    BY <1>1 DEF Image, As
  <2>. QED  BY <1>2, <2>1
<1>7. \A m \in D : new[F(m)] = {F(x) : x \in sub[m]}
  <2>1. \A m \in D : new[F(m)] = Image(n, w, sub[G(F(m))])
    BY <1>2 DEF Moved
  <2>. QED  BY <1>2, <1>5, <1>6, <2>1
<1>8. \A m \in D \cup {Nil} : Of(new, F(m)) = {F(x) : x \in Of(sub, m)}
  <2>1. Of(new, F(Nil)) = {} /\ Of(sub, Nil) = {}
    BY <1>2 DEF Of
  <2>2. \A m \in D : Of(new, F(m)) = new[F(m)] /\ Of(sub, m) = sub[m]
    BY <1>1, <1>2 DEF Of
  <2> HIDE DEF F, new
  <2>. QED  BY <1>7, <2>1, <2>2
<1>9. Keyed(E, L)
  <2>1. IsFiniteSet(E)
    <3>1. IsFiniteSet(D \ {n})
      BY FS_RemoveElement DEF Ordered, Keyed
    <3>2. IsFiniteSet((D \ {n}) \cup {w})
      BY <3>1, FS_AddElement
    <3>. QED  BY <3>2 DEF Others
  <2>. QED  BY <1>1, <2>1 DEF Keyed
<1>10. /\ \A m \in D : \A s \in Side : n \in Of(sub, t.children[m][s]) => Before(s, L[w], K[m])
       /\ \A s \in Side : \A m \in Of(sub, t.children[n][s]) : Before(s, K[m], L[w])
  BY DEF Fits
<1>11. \A m \in D : m # n => F(m) = m /\ L[m] = K[m]
  BY DEF As
<1>12. F(n) = w
  BY DEF As
<1>13. n \notin Of(sub, t.children[n][Left]) /\ n \notin Of(sub, t.children[n][Right])
  BY Kid DEF Side
<1>14. new \in [E -> SUBSET E]
  <2>1. new = [m \in E |-> Image(n, w, sub[G(m)])]
    BY DEF Moved
  <2> HIDE DEF new, E, G, F
  <2>. QED  BY <1>2, <1>5, <1>6, <2>1
<1> HIDE DEF F, G, E, new
<1>15. ASSUME NEW m \in E, NEW s \in Side, u.children[m][s] # Nil
       PROVE  u.parent[u.children[m][s]] = m
  <2>1. G(m) \in D /\ F(G(m)) = m
    BY <1>2
  <2>2. u.children[m][s] = F(t.children[G(m)][s])
    BY <1>3, <2>1
  <2>3. t.children[G(m)][s] \in D /\ t.parent[t.children[G(m)][s]] = G(m)
    BY <1>1, <1>2, <1>4, <1>15, <2>1, <2>2
  <2>. QED  BY <1>3, <2>1, <2>2, <2>3
<1>16. ASSUME NEW m \in E
       PROVE  IF m = u.root THEN u.parent[m] = Nil
              ELSE u.parent[m] # Nil /\ \E s \in Side : u.children[u.parent[m]][s] = m
  <2>1. G(m) \in D /\ F(G(m)) = m
    BY <1>2
  <2>2. m = u.root <=> G(m) = t.root
    BY <1>1, <1>2, <1>3, <2>1
  <2>3. u.parent[m] = F(t.parent[G(m)])
    BY <1>3, <2>1
  <2>4. ASSUME G(m) # t.root
        PROVE  u.parent[m] # Nil /\ \E s \in Side : u.children[u.parent[m]][s] = m
    <3>1. t.parent[G(m)] \in D /\ \E s \in Side : t.children[t.parent[G(m)]][s] = G(m)
      BY <1>1, <1>4, <2>1, <2>4
    <3>. QED  BY <1>2, <1>3, <2>1, <2>3, <3>1
  <2>. QED  BY <1>2, <1>4, <2>1, <2>2, <2>3, <2>4
<1>17. ASSUME NEW m \in E
       PROVE  new[m] = {m} \cup Of(new, u.children[m][Left]) \cup Of(new, u.children[m][Right])
  <2>1. G(m) \in D /\ F(G(m)) = m /\ Left \in Side /\ Right \in Side
    BY <1>2 DEF Side
  <2> DEFINE a == t.children[G(m)][Left]
             b == t.children[G(m)][Right]
  <2>2. a \in D \cup {Nil} /\ b \in D \cup {Nil}
    BY <1>1, <2>1
  <2>3. u.children[m][Left] = F(a) /\ u.children[m][Right] = F(b)
    BY <1>3, <2>1
  <2>4. sub[G(m)] = {G(m)} \cup Of(sub, a) \cup Of(sub, b)
    BY <1>5, <2>1
  <2> HIDE DEF a, b
  <2>5. Of(new, F(a)) = {F(x) : x \in Of(sub, a)} /\ Of(new, F(b)) = {F(x) : x \in Of(sub, b)}
    BY <1>8, <2>2
  <2>6. new[m] = {F(x) : x \in sub[G(m)]}
    BY <1>7, <2>1
  <2>. QED  BY <2>1, <2>3, <2>4, <2>5, <2>6
<1>18. ASSUME NEW m \in E, NEW s \in Side, NEW y \in Of(new, u.children[m][s])
       PROVE  Before(s, L[y], L[m])
  <2>1. G(m) \in D /\ F(G(m)) = m
    BY <1>2
  <2> DEFINE c == t.children[G(m)][s]
  <2>2. c \in D \cup {Nil} /\ u.children[m][s] = F(c)
    BY <1>1, <1>3, <2>1
  <2>3. PICK x \in Of(sub, c) : y = F(x)
    BY <1>8, <1>18, <2>2
  <2>4. x \in D
    BY <1>5, <2>2, <2>3 DEF Of
  <2>5. Before(s, K[x], K[G(m)])
    BY <1>5, <2>1, <2>3
  <2>6. CASE G(m) = n
    <3>1. x # n
      BY <1>13, <2>3, <2>6 DEF Side
    <3>2. m = w /\ y = x /\ L[x] = K[x]
      BY <1>11, <1>12, <2>1, <2>3, <2>4, <2>6, <3>1
    <3>. QED  BY <1>10, <2>3, <2>6, <3>2
  <2>7. CASE G(m) # n /\ x = n
    <3>1. m = G(m) /\ y = w /\ L[m] = K[m]
      BY <1>11, <1>12, <2>1, <2>3, <2>7
    <3>. QED  BY <1>10, <2>1, <2>3, <2>7, <3>1
  <2>8. CASE G(m) # n /\ x # n
    BY <1>11, <2>1, <2>3, <2>4, <2>5, <2>8
  <2>. QED  BY <2>6, <2>7, <2>8
<1>19. IF u.root = Nil THEN E = {} ELSE new[u.root] = E
  <2>1. t.root \in D /\ sub[t.root] = D
    BY <1>1, <1>5
  <2>2. new[u.root] = {F(x) : x \in D} /\ u.root # Nil
    BY <1>2, <1>3, <1>7, <2>1
  <2>3. E = {F(x) : x \in D}
    BY <1>2
  <2>. QED  BY <2>2, <2>3
<1>20. Linked(u, E) /\ Nested(u, E, L, new)
  BY <1>14, <1>15, <1>16, <1>17, <1>18, <1>19 DEF Linked, Nested
<1>21. Typed(u, E)
  BY DEF E
<1>. QED  BY <1>9, <1>20, <1>21 DEF Ordered, E, new

(* Balancing goes on with w where it was to come by n.                      *)
LEMMA RenameLevel ==
  ASSUME NEW t, NEW D, NEW K, NEW sub, Ordered(t, D, K, sub), NEW n \in D,
         NEW w \in Nodes \ D, NEW u, Typed(u, Others(D, n, w)), Renames(t, u, D, n, w),
         NEW r \in sub[n], NEW old, Level(t, D, sub, r, old),
         \A m \in D : r \notin sub[m] => u.height[m] = t.height[m],
         NEW was, \A m \in D : was[As(n, w, m)] = old[m]
  PROVE  Level(u, Others(D, n, w), Moved(D, sub, n, w), As(n, w, r), was)
<1> DEFINE E == Others(D, n, w)
           new == Moved(D, sub, n, w)
           F(m) == As(n, w, m)
           G(m) == IF m = w THEN n ELSE m
           A == Above(D, sub, r)
           B == Above(E, new, F(r))
<1>1. /\ D \subseteq Nodes /\ Nil \notin Nodes /\ w \notin D /\ w # Nil /\ n # Nil /\ n # w
      /\ E = (D \ {n}) \cup {w} /\ n \notin E /\ E \subseteq Nodes
      /\ \A m \in D : \A s \in Side : t.children[m][s] \in D \cup {Nil}
      /\ \A m \in D : sub[m] \in SUBSET D
      /\ \A m \in Nodes : t.children[m] \in [Side -> D \cup {Nil}]
      /\ \A m \in Nodes : u.children[m] \in [Side -> E \cup {Nil}]
  <2>1. /\ t.children \in [Nodes -> [Side -> D \cup {Nil}]]
        /\ u.children \in [Nodes -> [Side -> E \cup {Nil}]]
    BY DEF Ordered, Typed, Shaped
  <2>2. /\ D \subseteq Nodes /\ Nil \notin Nodes
        /\ \A m \in D : \A s \in Side : t.children[m][s] \in D \cup {Nil}
        /\ \A m \in D : sub[m] \in SUBSET D
    BY LinkTypes DEF Ordered, Keyed, Nested
  <2>3. E = (D \ {n}) \cup {w}
    BY DEF Others
  <2> HIDE DEF E
  <2>. QED  BY <2>1, <2>2, <2>3
<1>2. /\ \A m \in D : F(m) \in E /\ G(F(m)) = m
      /\ \A m \in E : G(m) \in D /\ F(G(m)) = m
      /\ F(Nil) = Nil
      /\ \A m \in D : F(m) # Nil /\ (m # n => F(m) = m)
      /\ \A m \in D : \A x \in D : F(m) = F(x) => m = x
  BY <1>1 DEF As
<1>3. \A m \in D : \A s \in Side : u.children[F(m)][s] = F(t.children[m][s])
  BY DEF Renames
<1>4. \A m \in D : new[F(m)] = {F(x) : x \in sub[m]}
  <2>1. \A m \in D : new[F(m)] = Image(n, w, sub[G(F(m))])
    BY <1>2 DEF Moved
  <2>2. \A S \in SUBSET D : Image(n, w, S) = {F(m) : m \in S}
    BY <1>1 DEF Image, As
  <2>. QED  BY <1>1, <1>2, <2>1, <2>2
<1>5. r \in D
  BY <1>1
<1> HIDE DEF F, G, E, new
<1>6. /\ A \subseteq D /\ n \in A /\ Nil \notin A
      /\ \A m \in D : m \in A <=> r \in sub[m]
  BY <1>1 DEF Above
<1>7. \A m \in D : F(m) \in B <=> m \in A
  <2>1. \A m \in D : F(r) \in new[F(m)] <=> r \in sub[m]
    BY <1>1, <1>2, <1>4, <1>5
  <2>. QED  BY <1>2, <1>6, <2>1 DEF Above
<1>8. B \subseteq E /\ Nil \notin B
  BY <1>1 DEF Above
<1>9. /\ \A m \in D : m \notin A => Even(t, m)
      /\ \A m \in A :
           /\ old[m] \in [Side -> Nat] /\ old[m][Left] - old[m][Right] \in -1 .. 1
           /\ \A s \in Side : IF t.children[m][s] \in A
                              THEN old[m][s] = Was(old[t.children[m][s]])
                              ELSE m # r => old[m][s] = Height(t, t.children[m][s])
      /\ r # Nil => \E s \in Side : /\ old[r][1 - s] = Height(t, t.children[r][1 - s])
                                    /\ Height(t, t.children[r][s]) - old[r][s] \in -1 .. 1
  BY DEF Level
<1>10. \A m \in D : was[F(m)] = old[m]
  BY DEF F
<1> HIDE DEF A, B
<1>11. ASSUME NEW c \in D \cup {Nil}, c \notin A
       PROVE  F(c) = c /\ Height(u, F(c)) = Height(t, c)
  <2>1. F(c) = c
    BY <1>2, <1>6, <1>11
  <2>2. c # Nil => u.height[c] = t.height[c]
    BY <1>6, <1>11
  <2>. QED  BY <2>1, <2>2 DEF Height
<1>12. ASSUME NEW m \in E, m \notin B PROVE Even(u, m)
  <2>1. m \in D /\ m \notin A /\ F(m) = m
    BY <1>1, <1>2, <1>6, <1>7, <1>12
  <2>2. ASSUME NEW s \in Side
        PROVE  t.children[m][s] \in D \cup {Nil} /\ t.children[m][s] \notin A
    <3>1. SUFFICES ASSUME t.children[m][s] \in A PROVE FALSE
      BY <1>1, <2>1
    <3>2. t.children[m][s] # Nil /\ r \in sub[t.children[m][s]]
      BY <1>6, <3>1
    <3>3. sub[t.children[m][s]] \subseteq sub[m]
      BY <2>1, <3>2, KidIn
    <3>. QED  BY <1>6, <2>1, <3>2, <3>3
  <2>3. ASSUME NEW s \in Side PROVE u.children[m][s] = t.children[m][s]
    BY <1>3, <1>11, <2>1, <2>2
  <2>4. u.children[m] = t.children[m]
    <3>1. u.children[m] \in [Side -> E \cup {Nil}] /\ t.children[m] \in [Side -> D \cup {Nil}]
      BY <1>1, <2>1
    <3>. QED  BY <2>3, <3>1
  <2>5. \A s \in Side : t.children[m][s] # Nil =>
          u.height[t.children[m][s]] = t.height[t.children[m][s]]
    BY <1>6, <2>2
  <2>6. u.height[m] = t.height[m] /\ Even(t, m)
    BY <1>6, <1>9, <2>1
  <2>. QED  BY <2>4, <2>5, <2>6, EvenKept
<1>13. ASSUME NEW m \in B
       PROVE  /\ was[m] \in [Side -> Nat] /\ was[m][Left] - was[m][Right] \in -1 .. 1
              /\ \A s \in Side : IF u.children[m][s] \in B
                                 THEN was[m][s] = Was(was[u.children[m][s]])
                                 ELSE m # F(r) => was[m][s] = Height(u, u.children[m][s])
  <2>1. G(m) \in D /\ F(G(m)) = m /\ G(m) \in A
    BY <1>2, <1>7, <1>8
  <2>2. was[m] = old[G(m)]
    BY <1>10, <2>1
  <2>3. ASSUME NEW s \in Side
        PROVE  IF u.children[m][s] \in B
               THEN was[m][s] = Was(was[u.children[m][s]])
               ELSE m # F(r) => was[m][s] = Height(u, u.children[m][s])
    <3> DEFINE c == t.children[G(m)][s]
    <3>1. c \in D \cup {Nil} /\ u.children[m][s] = F(c)
      BY <1>1, <1>3, <2>1
    <3>2. IF c \in A THEN old[G(m)][s] = Was(old[c])
          ELSE G(m) # r => old[G(m)][s] = Height(t, c)
      BY <1>9, <2>1
    <3> HIDE DEF c
    <3>3. CASE c \in A
      <4>1. c \in D /\ F(c) \in B
        BY <1>6, <1>7, <3>3
      <4>. QED  BY <1>10, <2>2, <3>1, <3>2, <3>3, <4>1
    <3>4. CASE c \notin A
      <4>1. F(c) \notin B
        BY <1>2, <1>7, <1>8, <3>1, <3>4
      <4>2. Height(u, F(c)) = Height(t, c)
        BY <1>11, <3>1, <3>4
      <4>. QED  BY <2>1, <2>2, <3>1, <3>2, <3>4, <4>1, <4>2
    <3>. QED  BY <3>3, <3>4
  <2>. QED  BY <1>9, <2>1, <2>2, <2>3
<1>14. \E s \in Side : /\ was[F(r)][1 - s] = Height(u, u.children[F(r)][1 - s])
                       /\ Height(u, u.children[F(r)][s]) - was[F(r)][s] \in -1 .. 1
  <2>1. r # Nil
    BY <1>1, <1>5
  <2>2. PICK s \in Side : /\ old[r][1 - s] = Height(t, t.children[r][1 - s])
                          /\ Height(t, t.children[r][s]) - old[r][s] \in -1 .. 1
    BY <1>9, <2>1
  <2>3. ASSUME NEW i \in Side PROVE Height(u, u.children[F(r)][i]) = Height(t, t.children[r][i])
    <3>1. t.children[r][i] \in D \cup {Nil} /\ u.children[F(r)][i] = F(t.children[r][i])
      BY <1>1, <1>3, <1>5
    <3>2. t.children[r][i] \notin A
      <4>1. SUFFICES ASSUME t.children[r][i] \in A PROVE FALSE
        OBVIOUS
      <4>2. t.children[r][i] # Nil /\ r \in sub[t.children[r][i]]
        BY <1>6, <4>1
      <4>. QED  BY <1>5, <4>2, KidIn
    <3>. QED  BY <1>11, <3>1, <3>2
  <2>4. 1 - s \in Side
    BY DEF Side, Left, Right
  <2>5. was[F(r)] = old[r]
    BY <1>5, <1>10
  <2>. QED  BY <2>2, <2>3, <2>4, <2>5
<1>15. F(r) \in E
  BY <1>2, <1>5
<1>16. Level(u, E, new, F(r), was)
  BY <1>12, <1>13, <1>14, <1>15 DEF Level, B
<1>. QED  BY <1>16 DEF E, new, F

-----------------------------------------------------------------------------
(* Removing a node.                                                         *)

Parted(t, w, x) == UpdateHeight(Replace(t, w, x), t.parent[w])

(* Tree t with w taken out, x in its place, and w given the links of n.     *)
Swapped(t, n, w, x) ==
  LET parted == Parted(t, w, x)
      below == {parted.children[n][i] : i \in Side}
  IN  [parted EXCEPT !.children[w] = parted.children[n],
                     !.parent = [m \in Nodes |-> IF m \in below THEN w ELSE @[m]],
                     !.height[w] = parted.height[n]]

Blank(t, n) == [t EXCEPT !.children[n] = Leafless, !.parent[n] = Nil, !.height[n] = 0]

(* The links of z are those of v with w linked like n, and n blank.         *)
SwapIs(z, v, D, n, w, p, j) ==
  /\ z.root = IF p = Nil THEN w ELSE v.root
  /\ \A m \in Nodes : z.parent[m] = IF m = n THEN Nil ELSE IF m = w THEN p
                                    ELSE IF \E i \in Side : v.children[n][i] = m THEN w
                                    ELSE v.parent[m]
  /\ z.children[n] = Leafless
  /\ z.children[w] = v.children[n]
  /\ p # Nil => z.children[p][j] = w /\ z.children[p][1 - j] = v.children[p][1 - j]
  /\ \A m \in Nodes : m \notin {n, w, p} => z.children[m] = v.children[m]

(* What the swap in avl_tree_remove_node makes of each link.                *)
LEMMA SwapFields ==
  ASSUME NEW t, NEW D, NEW K, NEW sub, Ordered(t, D, K, sub), NEW n \in D,
         NEW w \in sub[n], w # n, NEW s \in Side, t.children[w][1 - s] = Nil,
         NEW x, x = t.children[w][s]
  PROVE  LET z == Blank(Replace(Swapped(t, n, w, x), n, w), n)
         IN  /\ Shaped(z, D)
             /\ SwapIs(z, Spliced(t, w, x), D, n, w, t.parent[n], ParentSide(t, n))
             /\ \A m \in Nodes : m \notin {n, w, t.parent[n], t.parent[w]} =>
                  z.height[m] = t.height[m]
<1> DEFINE q == t.parent[w]
           a == ParentSide(t, w)
           p == t.parent[n]
           j == ParentSide(t, n)
           one == Replace(t, w, x)
           two == Parted(t, w, x)
           three == Swapped(t, n, w, x)
           four == Replace(three, n, w)
           z == Blank(four, n)
           v == Spliced(t, w, x)
<1>1. /\ Shaped(t, D) /\ D \subseteq Nodes /\ Nil \notin Nodes /\ w \in D /\ n # w
      /\ x \in D \cup {Nil} /\ x # w /\ x # n
      /\ q \in D /\ q # w /\ p \in D \cup {Nil} /\ p \notin {n, w, q, x} \ {Nil}
  <2>1. /\ w \in D /\ sub[w] \subseteq sub[n] /\ w \in sub[w] /\ n \in sub[n]
        /\ sub[n] \subseteq D
    BY Within DEF Ordered, Nested
  <2>2. q \in sub[n] /\ q # Nil /\ q # w
    <3>1. q \in sub[n] /\ q # Nil
      BY ParentIn
    <3>2. q \notin sub[w]
      BY <2>1, ParentOut
    <3>. QED  BY <2>1, <3>1, <3>2
  <2>3. p \in D \cup {Nil} /\ p \notin sub[n]
    BY ParentOut
  <2>4. n \notin sub[w]
    BY <2>1, Antisymmetric
  <2>5. x \in D \cup {Nil} /\ (x # Nil => x \in sub[w] /\ x # w)
    <3>1. x # Nil => x \in D /\ x \in sub[w] /\ w \notin sub[x] /\ x \in sub[x]
      BY <2>1, KidIn
    <3>. QED  BY <3>1
  <2>6. /\ Shaped(t, D) /\ D \subseteq Nodes /\ Nil \notin Nodes
    BY LinkTypes DEF Ordered, Keyed, Typed
  <2> HIDE DEF q, p
  <2>. QED  BY <2>1, <2>2, <2>3, <2>4, <2>5, <2>6
<1>2. /\ a \in Side /\ (p # Nil => j \in Side /\ 1 - j \in Side /\ 1 - j # j)
      /\ t.children[q][a] = w
      /\ p # Nil => t.children[p][j] = n
  <2>1. n \in D /\ w \in D /\ q # Nil
    BY <1>1
  <2>2. /\ a \in Side /\ t.children[q][a] = w
    BY <2>1, ParentOut
  <2>3. p # Nil => j \in Side /\ t.children[p][j] = n
    BY ParentOut
  <2>. QED  BY <2>2, <2>3 DEF Side, Left, Right
<1>3. /\ t.parent \in [Nodes -> D \cup {Nil}]
      /\ t.children \in [Nodes -> [Side -> D \cup {Nil}]]
  BY <1>1 DEF Shaped
<1>4. /\ two = UpdateHeight(one, q) /\ four = Replace(three, n, w)
      /\ z = [four EXCEPT !.children[n] = Leafless, !.parent[n] = Nil, !.height[n] = 0]
      /\ v = [one EXCEPT !.children[w] = Leafless, !.parent[w] = Nil, !.height[w] = 0]
      /\ three = [two EXCEPT !.children[w] = two.children[n],
                             !.parent = [m \in Nodes |->
                                IF m \in {two.children[n][i] : i \in Side} THEN w ELSE @[m]],
                             !.height[w] = two.height[n]]
  BY DEF Parted, Swapped, Blank, Spliced
<1>5. /\ Shaped(one, D) /\ one.root = t.root
      /\ one.parent = IF x = Nil THEN t.parent ELSE [t.parent EXCEPT ![x] = q]
      /\ one.children = [t.children EXCEPT ![q][a] = x]
      /\ \A m \in Nodes : m # q => one.height[m] = t.height[m]
  <2>1. q # Nil
    BY <1>1
  <2> HIDE DEF a
  <2>2. /\ Shaped(one, D)
        /\ one.root = IF q = Nil THEN x ELSE t.root
        /\ one.parent = IF x = Nil THEN t.parent ELSE [t.parent EXCEPT ![x] = q]
        /\ one.children = IF q = Nil THEN t.children
                          ELSE [t.children EXCEPT ![q][ParentSide(t, w)] = x]
        /\ \A m \in Nodes : m # q => one.height[m] = t.height[m]
    <3>1. Shaped(t, D) /\ D \subseteq Nodes /\ w \in D /\ x \in D \cup {Nil}
      BY <1>1
    <3>. QED  BY <3>1, ReplaceIs
  <2>. QED  BY <2>1, <2>2 DEF a
<1> HIDE DEF q, a, p, one, two, three, four, z, v
<1>6. /\ Shaped(two, D) /\ two.root = one.root /\ two.parent = one.parent
      /\ two.children = one.children /\ two.height = [one.height EXCEPT ![q] = Tall(one, q)]
  <2>1. D \subseteq Nodes /\ Shaped(one, D) /\ q \in Nodes
    BY <1>1, <1>5
  <2>2. two = UpdateHeight(one, q)
    BY <1>4
  <2>. QED  BY <2>1, <2>2, UpdateHeightIs
<1>7. /\ one.children \in [Nodes -> [Side -> D \cup {Nil}]]
      /\ one.parent \in [Nodes -> D \cup {Nil}] /\ one.height \in [Nodes -> Nat]
  BY <1>5 DEF Shaped
<1>8. /\ v.root = one.root
      /\ v.parent = [one.parent EXCEPT ![w] = Nil]
      /\ v.children = [one.children EXCEPT ![w] = Leafless]
  BY <1>4, <1>5 DEF Shaped
<1>9. /\ Shaped(three, D) /\ three.root = one.root
      /\ three.children = [one.children EXCEPT ![w] = one.children[n]]
      /\ three.parent = [m \in Nodes |-> IF \E i \in Side : one.children[n][i] = m THEN w
                                         ELSE one.parent[m]]
      /\ \A m \in Nodes : m # w => three.height[m] = two.height[m]
  <2> DEFINE up == [m \in Nodes |-> IF m \in {two.children[n][i] : i \in Side} THEN w
                                    ELSE two.parent[m]]
  <2>1. three = [two EXCEPT !.children[w] = two.children[n], !.parent = up,
                            !.height[w] = two.height[n]]
    BY <1>4
  <2>2. up \in [Nodes -> D \cup {Nil}]
    BY <1>1, <1>6, <1>7
  <2>3. up = [m \in Nodes |-> IF \E i \in Side : one.children[n][i] = m THEN w
                              ELSE one.parent[m]]
    BY <1>6
  <2> HIDE DEF up
  <2>4. /\ two.children[n] \in [Side -> D \cup {Nil}] /\ two.height[n] \in Nat
        /\ two.height \in [Nodes -> Nat]
    BY <1>1, <1>6 DEF Shaped
  <2>5. /\ three.root = two.root /\ three.parent = up
        /\ three.children = [two.children EXCEPT ![w] = two.children[n]]
        /\ three.height = [two.height EXCEPT ![w] = two.height[n]]
        /\ Shaped(three, D)
    <3>1. w \in Nodes /\ Shaped(two, D)
      BY <1>1, <1>6
    <3>. QED  BY <2>1, <2>2, <2>4, <3>1 DEF Shaped
  <2>. QED  BY <1>6, <2>3, <2>4, <2>5
<1>10. /\ three.parent[n] = p
       /\ p # Nil => three.children[p] = t.children[p] /\ ParentSide(three, n) = j
  <2>1. \A i \in Side : one.children[n][i] # n
    <3>1. \A i \in Side : t.children[n][i] # n
      <4>1. \A i \in Side : t.children[n][i] # Nil => t.children[n][i] # n
        BY Kid
      <4>. QED  BY <1>1, <4>1
    <3>2. \A i \in Side : one.children[n][i] \in {x, t.children[n][i]}
      BY <1>1, <1>3, <1>5
    <3>. QED  BY <1>1, <3>1, <3>2
  <2>2. three.parent[n] = p
    BY <1>1, <1>3, <1>5, <1>9, <2>1 DEF p
  <2>3. p # Nil => three.children[p] = t.children[p]
    BY <1>1, <1>3, <1>5, <1>7, <1>9
  <2>. QED  BY <2>2, <2>3 DEF ParentSide, p, j
<1> HIDE DEF j
<1>11. /\ Shaped(four, D) /\ four.root = IF p = Nil THEN w ELSE three.root
       /\ four.parent = [three.parent EXCEPT ![w] = p]
       /\ four.children = IF p = Nil THEN three.children ELSE [three.children EXCEPT ![p][j] = w]
       /\ \A m \in Nodes : m # p => four.height[m] = three.height[m]
  <2>1. w # Nil /\ w \in D \cup {Nil}
    BY <1>1
  <2>2. LET up == three.parent[n]
        IN  /\ Shaped(four, D) /\ four.root = IF up = Nil THEN w ELSE three.root
            /\ four.parent = [three.parent EXCEPT ![w] = up]
            /\ four.children = IF up = Nil THEN three.children
                               ELSE [three.children EXCEPT ![up][ParentSide(three, n)] = w]
            /\ \A m \in Nodes : m # up => four.height[m] = three.height[m]
    <3>1. four = Replace(three, n, w) /\ Shaped(three, D) /\ D \subseteq Nodes
      BY <1>1, <1>4, <1>9
    <3>. QED  BY <2>1, <3>1, ReplaceIs
  <2>. QED  BY <1>10, <2>2
<1>12. /\ Shaped(z, D) /\ z.root = four.root
       /\ z.parent = [four.parent EXCEPT ![n] = Nil]
       /\ z.children = [four.children EXCEPT ![n] = Leafless]
       /\ z.height = [four.height EXCEPT ![n] = 0]
  <2>1. Leafless \in [Side -> D \cup {Nil}] /\ 0 \in Nat
    BY DEF Leafless
  <2>2. n \in Nodes /\ Shaped(four, D)
    BY <1>1, <1>11
  <2>3. z = [four EXCEPT !.children[n] = Leafless, !.parent[n] = Nil, !.height[n] = 0]
    BY <1>4
  <2>. QED  BY <2>1, <2>2, <2>3 DEF Shaped
<1>13. /\ three.children \in [Nodes -> [Side -> D \cup {Nil}]]
       /\ three.parent \in [Nodes -> D \cup {Nil}]
       /\ four.children \in [Nodes -> [Side -> D \cup {Nil}]]
       /\ four.parent \in [Nodes -> D \cup {Nil}] /\ four.height \in [Nodes -> Nat]
  BY <1>9, <1>11 DEF Shaped
<1>14. v.children[n] = one.children[n] /\ \A m \in Nodes : m # w => v.children[m] = one.children[m]
  BY <1>1, <1>7, <1>8
<1>15. \A m \in Nodes : z.parent[m] = IF m = n THEN Nil ELSE IF m = w THEN p
                                      ELSE IF \E i \in Side : v.children[n][i] = m THEN w
                                      ELSE v.parent[m]
  <2>1. \A m \in Nodes : z.parent[m] = IF m = n THEN Nil ELSE IF m = w THEN p
                                       ELSE three.parent[m]
    BY <1>1, <1>11, <1>12, <1>13
  <2>2. \A m \in Nodes : m # w => v.parent[m] = one.parent[m]
    BY <1>7, <1>8
  <2>3. \A m \in Nodes : three.parent[m] = IF \E i \in Side : v.children[n][i] = m THEN w
                                           ELSE one.parent[m]
    BY <1>9, <1>14
  <2>. QED  BY <2>1, <2>2, <2>3
<1>16. z.children[n] = Leafless /\ z.children[w] = v.children[n]
  BY <1>1, <1>7, <1>9, <1>11, <1>12, <1>13, <1>14
<1>17. p # Nil => z.children[p][j] = w /\ z.children[p][1 - j] = v.children[p][1 - j]
  <2>1. SUFFICES ASSUME p # Nil
        PROVE  z.children[p][j] = w /\ z.children[p][1 - j] = v.children[p][1 - j]
    OBVIOUS
  <2>2. z.children[p] = four.children[p] /\ p \in Nodes /\ p # w
    BY <1>1, <1>12, <1>13, <2>1
  <2>3. four.children[p] = [three.children[p] EXCEPT ![j] = w]
    BY <1>11, <1>13, <2>1, <2>2
  <2>4. three.children[p] = v.children[p]
    BY <1>7, <1>9, <1>14, <2>2
  <2>5. three.children[p] \in [Side -> D \cup {Nil}]
    BY <1>13, <2>2
  <2>. QED  BY <1>2, <2>1, <2>2, <2>3, <2>4, <2>5
<1>18. \A m \in Nodes : m \notin {n, w, p} => z.children[m] = v.children[m]
  BY <1>7, <1>9, <1>11, <1>12, <1>13, <1>14
<1>19. z.root = IF p = Nil THEN w ELSE v.root
  BY <1>8, <1>9, <1>11, <1>12
<1>20. \A m \in Nodes : m \notin {n, w, p, q} => z.height[m] = t.height[m]
  <2>1. \A m \in Nodes : m \notin {n, p} => z.height[m] = three.height[m]
    BY <1>11, <1>12, <1>13
  <2>2. \A m \in Nodes : m # q => two.height[m] = one.height[m]
    BY <1>6, <1>7
  <2>. QED  BY <1>5, <1>9, <2>1, <2>2
<1>21. SwapIs(z, v, D, n, w, p, j)
  BY <1>15, <1>16, <1>17, <1>18, <1>19 DEF SwapIs
<1>. QED  BY <1>12, <1>20, <1>21 DEF z, v, p, j, q, four, three

(* What SwapIs says is that w is in the place of n.                         *)
LEMMA SwapRenames ==
  ASSUME NEW v, NEW D, NEW K, NEW sub, Ordered(v, D, K, sub), NEW n \in D,
         NEW w \in Nodes \ D, NEW z, Shaped(z, D \cup {w}),
         SwapIs(z, v, D, n, w, v.parent[n], ParentSide(v, n))
  PROVE  Typed(z, Others(D, n, w)) /\ Renames(v, z, D, n, w)
<1> DEFINE p == v.parent[n]
           j == ParentSide(v, n)
           E == Others(D, n, w)
           F(m) == As(n, w, m)
<1>1. /\ D \subseteq Nodes /\ Nil \notin Nodes /\ n \in Nodes /\ v.root \in D \cup {Nil}
      /\ \A m \in Nodes : v.parent[m] \in D \cup {Nil}
      /\ \A m \in Nodes : \A i \in Side : v.children[m][i] \in D \cup {Nil}
      /\ \A m \in Nodes \ D : v.children[m] = Leafless /\ v.parent[m] = Nil
  BY LinkTypes DEF Ordered, Keyed, Typed
<1>2. /\ \A m \in D : \A i \in Side : v.children[m][i] # Nil => v.parent[v.children[m][i]] = m
      /\ \A m \in D : IF m = v.root THEN v.parent[m] = Nil
                      ELSE v.parent[m] # Nil /\ \E i \in Side : v.children[v.parent[m]][i] = m
  BY DEF Ordered, Linked
<1>3. /\ p # n
      /\ p # Nil => /\ j \in Side /\ v.children[p][j] = n /\ v.children[p][1 - j] # n
                    /\ \A i \in Side : i = j \/ i = 1 - j
  <2>1. n \in sub[n]
    BY DEF Ordered, Nested
  <2>2. p \notin sub[n]
    BY ParentOut
  <2>. QED  BY <2>1, <2>2, ParentOut DEF Side, Left, Right
<1>4. /\ z.root = IF p = Nil THEN w ELSE v.root
      /\ \A m \in Nodes : z.parent[m] = IF m = n THEN Nil ELSE IF m = w THEN p
                                        ELSE IF \E i \in Side : v.children[n][i] = m THEN w
                                        ELSE v.parent[m]
      /\ z.children[n] = Leafless
      /\ z.children[w] = v.children[n]
      /\ p # Nil => z.children[p][j] = w /\ z.children[p][1 - j] = v.children[p][1 - j]
      /\ \A m \in Nodes : m \notin {n, w, p} => z.children[m] = v.children[m]
  BY DEF SwapIs
<1>5. p \in D \cup {Nil} /\ v.parent[n] = p
  BY <1>1
<1>6. /\ E = (D \ {n}) \cup {w} /\ n \notin E /\ E \subseteq Nodes /\ w \notin D /\ w \in Nodes
      /\ w # Nil /\ n # w
      /\ D \cup {w} = E \cup {n}
  BY <1>1 DEF Others
<1>7. F(n) = w /\ \A m \in D \cup {Nil} : m # n => F(m) = m
  BY DEF As
<1> HIDE DEF p, j, E, F
<1>8. \A m \in D : v.parent[m] = n <=> \E i \in Side : v.children[n][i] = m
  <2>1. ASSUME NEW m \in D, v.parent[m] = n PROVE \E i \in Side : v.children[n][i] = m
    BY <1>1, <1>2, <2>1
  <2>2. ASSUME NEW m \in D, NEW i \in Side, v.children[n][i] = m PROVE v.parent[m] = n
    BY <1>1, <1>2, <2>2
  <2>. QED  BY <2>1, <2>2
<1>9. ASSUME NEW m \in D, NEW i \in Side, v.children[m][i] = n PROVE m = p /\ i = j
  <2>1. v.parent[n] = m /\ m # Nil
    BY <1>1, <1>2, <1>9
  <2>. QED  BY <1>3, <1>5, <1>9, <2>1
<1>10. z.root = F(v.root)
  <2>1. n = v.root <=> p = Nil
    BY <1>2, <1>5
  <2>. QED  BY <1>1, <1>2, <1>4, <1>5, <1>7, <2>1
<1>11. ASSUME NEW m \in D
       PROVE  z.parent[F(m)] = F(v.parent[m])
  <2>1. CASE m = n
    BY <1>3, <1>4, <1>5, <1>6, <1>7, <2>1
  <2>2. CASE m # n
    <3>1. F(m) = m /\ m \in Nodes /\ m # w
      BY <1>1, <1>6, <1>7, <2>2
    <3>2. z.parent[m] = IF v.parent[m] = n THEN w ELSE v.parent[m]
      BY <1>4, <1>8, <2>2, <3>1
    <3>. QED  BY <1>1, <1>7, <3>1, <3>2
  <2>. QED  BY <2>1, <2>2
<1>12. ASSUME NEW m \in D, NEW i \in Side
       PROVE  z.children[F(m)][i] = F(v.children[m][i])
  <2>1. v.children[m][i] \in D \cup {Nil} /\ m \in Nodes
    BY <1>1
  <2>2. CASE m = n
    <3>1. v.children[m][i] # n
      BY <1>3, <1>9, <2>2
    <3>. QED  BY <1>4, <1>7, <2>1, <2>2, <3>1
  <2>3. CASE m # n /\ m # p
    <3>1. v.children[m][i] # n
      BY <1>9, <2>3
    <3>. QED  BY <1>4, <1>6, <1>7, <2>1, <2>3, <3>1
  <2>4. CASE m # n /\ m = p
    <3>1. p # Nil /\ F(m) = m
      BY <1>1, <1>7, <2>1, <2>4
    <3>2. CASE i = j
      BY <1>3, <1>4, <1>7, <2>4, <3>1, <3>2
    <3>3. CASE i = 1 - j
      BY <1>3, <1>4, <1>7, <2>1, <2>4, <3>1, <3>3
    <3>. QED  BY <1>3, <3>1, <3>2, <3>3
  <2>. QED  BY <2>2, <2>3, <2>4
<1>13. \A m \in D \cup {Nil} : F(m) \in E \cup {Nil}
  BY <1>1, <1>6, <1>7
<1>14. ASSUME NEW m \in E PROVE \E a \in D : m = F(a)
  BY <1>6, <1>7
<1>15. ASSUME NEW m \in Nodes \ E PROVE z.children[m] = Leafless /\ z.parent[m] = Nil
  <2>1. CASE m = n
    BY <1>1, <1>4, <2>1
  <2>2. CASE m # n
    <3>1. m \notin D /\ m # w
      BY <1>6, <2>2
    <3>2. m # p /\ \A i \in Side : v.children[n][i] # m
      BY <1>1, <1>5, <3>1
    <3>. QED  BY <1>1, <1>4, <2>2, <3>1, <3>2
  <2>. QED  BY <2>1, <2>2
<1>16. Typed(z, E)
  <2>1. /\ z = [root |-> z.root, children |-> z.children, parent |-> z.parent,
                height |-> z.height]
        /\ z.children \in [Nodes -> [Side -> D \cup {w} \cup {Nil}]]
        /\ z.parent \in [Nodes -> D \cup {w} \cup {Nil}] /\ z.height \in [Nodes -> Nat]
    BY DEF Shaped
  <2>2. z.root \in E \cup {Nil}
    BY <1>1, <1>10, <1>13
  <2>3. ASSUME NEW m \in Nodes PROVE z.children[m] \in [Side -> E \cup {Nil}]
    <3>1. CASE m \in E
      <4>1. z.children[m] \in [Side -> D \cup {w} \cup {Nil}]
        BY <2>1
      <4>2. \A i \in Side : z.children[m][i] \in E \cup {Nil}
        <5>1. PICK a \in D : m = F(a)
          BY <1>14, <3>1
        <5>. QED  BY <1>1, <1>12, <1>13, <5>1
      <4>. QED  BY <4>1, <4>2
    <3>2. CASE m \notin E
      BY <1>15, <3>2 DEF Leafless
    <3>. QED  BY <3>1, <3>2
  <2>4. ASSUME NEW m \in Nodes PROVE z.parent[m] \in E \cup {Nil}
    <3>1. CASE m \in E
      <4>1. PICK a \in D : m = F(a)
        BY <1>14, <3>1
      <4>. QED  BY <1>1, <1>11, <1>13, <4>1
    <3>2. CASE m \notin E
      BY <1>15, <3>2
    <3>. QED  BY <3>1, <3>2
  <2>5. z.children \in [Nodes -> [Side -> E \cup {Nil}]] /\ z.parent \in [Nodes -> E \cup {Nil}]
    BY <2>1, <2>3, <2>4
  <2>6. Shaped(z, E)
    BY <2>1, <2>2, <2>5 DEF Shaped
  <2>. QED  BY <1>15, <2>6 DEF Typed
<1>17. Renames(v, z, D, n, w)
  BY <1>10, <1>11, <1>12 DEF Renames, F
<1>. QED  BY <1>16, <1>17 DEF E

(* Tree z is ordered and has no node n of t, and balancing begins at r.     *)
Removes(D, K, n, z, r) ==
  \E new, old : /\ Ordered(z, D \ {n}, [m \in D \ {n} |-> K[m]], new)
                /\ Level(z, D \ {n}, new, r, old)

(* Removing a node with no children.                                        *)
LEMMA RemoveLeaf ==
  ASSUME NEW t, NEW D, NEW K, NEW sub, Ordered(t, D, K, sub), \A m \in D : Even(t, m),
         NEW n \in D, t.children[n] = Leafless
  PROVE  Removes(D, K, n, Blank(Replace(t, n, Nil), n), t.parent[n])
<1>1. /\ Left \in Side /\ 1 - Left \in Side
      /\ t.children[n][Left] = Nil /\ t.children[n][1 - Left] = Nil
  BY DEF Leafless, Side, Left, Right
<1> DEFINE v == Spliced(t, n, Nil)
<1>2. Shaped(v, D) /\ Splices(t, v, n, t.children[n][Left])
  BY <1>1, SplicedIs
<1>3. v = Blank(Replace(t, n, Nil), n)
  BY DEF Spliced, Blank
<1> HIDE DEF v
<1>4. Ordered(v, D \ {n}, [m \in D \ {n} |-> K[m]], Cut(D, sub, n))
  BY <1>1, <1>2, SpliceOrdered
<1>5. Level(v, D \ {n}, Cut(D, sub, n), t.parent[n], Heights(t, D))
  BY <1>1, <1>2, SpliceLevel
<1>. QED  BY <1>3, <1>4, <1>5 DEF Removes

(* In the tree without w, the node that takes the place of n, a key of w fits
   where n is.                                                              *)
LEMMA AdjacentFits ==
  ASSUME NEW t, NEW D, NEW K, NEW sub, Ordered(t, D, K, sub), NEW n \in D, NEW s \in Side,
         t.children[n][s] # Nil, NEW w, w = Adjacent(t, n, s),
         NEW v, NEW R, R = D \ {w}, NEW L, L = [m \in R |-> K[m]],
         Ordered(v, R, L, Cut(D, sub, w))
  PROVE  Fits(v, R, L, Cut(D, sub, w), n, K[w])
<1> DEFINE c == t.children[n][s]
           cut == Cut(D, sub, w)
<1>1. /\ c \in D /\ c # Nil /\ sub[c] \subseteq sub[n] /\ n \notin sub[c] /\ Of(sub, c) = sub[c]
      /\ sub[n] \subseteq D /\ \A m \in D : K[m] \in Int /\ sub[m] \subseteq D /\ m \in sub[m]
  <2>1. c \in D /\ sub[c] \subseteq sub[n] /\ n \notin sub[c]
    BY KidIn
  <2>2. Of(sub, c) = sub[c]
    BY DEF Of
  <2>3. sub[n] \subseteq D /\ \A m \in D : K[m] \in Int /\ sub[m] \subseteq D /\ m \in sub[m]
    BY DEF Ordered, Nested, Keyed
  <2>. QED  BY <2>1, <2>2, <2>3
<1>2. w \in sub[c] /\ \A m \in sub[c] : m = w \/ Before(s, K[m], K[w])
  BY AdjacentIs
<1>3. w \in D /\ n \in R /\ R \subseteq D /\ w \in sub[n] /\ w # n
  BY <1>1, <1>2
<1>4. \A m \in R : cut[m] = sub[m] \ {w} /\ L[m] = K[m]
  BY DEF Cut
<1> HIDE DEF c, cut
<1>5. ASSUME NEW m \in R, NEW i \in Side, n \in Of(cut, v.children[m][i])
      PROVE  Before(i, K[w], L[m])
  <2>1. n # m /\ n \in cut[m] /\ Before(i, L[n], L[m])
    <3>1. /\ n # m /\ n \in cut[m]
      BY <1>5, Kid DEF cut
    <3>2. Before(i, L[n], L[m])
      BY <1>5 DEF cut, Ordered, Nested
    <3>. QED  BY <3>1, <3>2
  <2>2. n \in sub[m] /\ Before(i, K[n], K[m]) /\ m \in D
    BY <1>3, <1>4, <2>1
  <2>3. n \in Of(sub, t.children[m][i])
    BY <2>1, <2>2, Placed
  <2>4. t.children[m][i] \in D /\ n \in sub[t.children[m][i]]
    <3>1. t.children[m][i] # Nil
      BY <2>3 DEF Of
    <3>. QED  BY <2>2, <2>3, <3>1, Kid DEF Of
  <2>5. w \in sub[t.children[m][i]]
    BY <1>3, <2>4, Within
  <2>6. w \in Of(sub, t.children[m][i])
    BY <2>3, <2>5 DEF Of
  <2>7. Before(i, K[w], K[m])
    BY <2>2, <2>6 DEF Ordered, Nested
  <2>. QED  BY <1>4, <2>7
<1>6. ASSUME NEW i \in Side, NEW m \in Of(cut, v.children[n][i])
      PROVE  Before(i, L[m], K[w])
  <2>1. m # n /\ m \in cut[n] /\ Before(i, L[m], L[n])
    <3>1. /\ m # n /\ m \in cut[n]
      BY <1>3, <1>6, Kid DEF cut
    <3>2. Before(i, L[m], L[n])
      BY <1>3, <1>6 DEF cut, Ordered, Nested
    <3>. QED  BY <3>1, <3>2
  <2>2. m \in sub[n] /\ m # w /\ m \in R /\ m \in D
    BY <1>1, <1>3, <1>4, <2>1
  <2>3. Before(i, K[m], K[n])
    BY <1>3, <1>4, <2>1, <2>2
  <2>4. CASE i = s
    <3>1. m \in Of(sub, c)
      BY <2>1, <2>2, <2>3, <2>4, Placed DEF c
    <3>. QED  BY <1>1, <1>2, <1>4, <2>2, <2>4, <3>1
  <2>5. CASE i # s
    <3>1. Before(s, K[w], K[n])
      BY <1>1, <1>2 DEF Ordered, Nested, c
    <3>2. K[w] \in Int /\ K[n] \in Int /\ K[m] \in Int
      BY <1>1, <1>3, <2>2
    <3>3. Before(i, K[m], K[w])
      BY <2>3, <2>5, <3>1, <3>2 DEF Before, Side, Left, Right
    <3>. QED  BY <1>4, <2>2, <3>3
  <2>. QED  BY <2>4, <2>5
<1>. QED  BY <1>5, <1>6 DEF Fits, cut

(* Removing a node by the one next to it.                                   *)
LEMMA RemoveSwap ==
  ASSUME NEW t, NEW D, NEW K, NEW sub, Ordered(t, D, K, sub), \A m \in D : Even(t, m),
         NEW n \in D, NEW s \in Side, t.children[n][s] # Nil,
         NEW w, w = Adjacent(t, n, s), NEW x, x = t.children[w][s]
  PROVE  Removes(D, K, n, Blank(Replace(Swapped(t, n, w, x), n, w), n),
                 IF t.parent[w] = n THEN w ELSE t.parent[w])
<1> DEFINE z == Blank(Replace(Swapped(t, n, w, x), n, w), n)
           v == Spliced(t, w, x)
           R == D \ {w}
           L == [m \in R |-> K[m]]
           cut == Cut(D, sub, w)
           q == t.parent[w]
           p == t.parent[n]
           E == D \ {n}
           F(m) == As(n, w, m)
           was == Heights(t, D)
           old == [m \in E |-> IF m = w THEN was[n] ELSE was[m]]
           M == [m \in E |-> K[m]]
           new == Moved(R, cut, n, w)
<1>1. /\ w \in sub[n] /\ w # n /\ w \in D /\ t.children[w][1 - s] = Nil /\ n \in R
  <2>1. /\ sub[t.children[n][s]] \subseteq sub[n] /\ n \notin sub[t.children[n][s]]
        /\ sub[n] \subseteq D
    BY KidIn DEF Ordered, Nested
  <2>2. w \in sub[t.children[n][s]] /\ t.children[w][1 - s] = Nil
    BY AdjacentIs
  <2>. QED  BY <2>1, <2>2
<1>2. Shaped(v, D) /\ Splices(t, v, w, t.children[w][s])
  BY <1>1, SplicedIs
<1>3. /\ Shaped(z, D) /\ SwapIs(z, v, D, n, w, p, ParentSide(t, n))
      /\ \A m \in Nodes : m \notin {n, w, p, q} => z.height[m] = t.height[m]
  BY <1>1, SwapFields
<1> HIDE DEF z, v
<1>4. Ordered(v, R, L, cut)
  BY <1>1, <1>2, SpliceOrdered
<1>5. Level(v, R, cut, q, was)
  BY <1>1, <1>2, SpliceLevel
<1>6. /\ q \in sub[n] /\ q # Nil /\ q # w /\ p \in D \cup {Nil} /\ p \notin sub[n]
      /\ x # n
  <2>1. q \in sub[n] /\ q # Nil
    BY <1>1, ParentIn
  <2>2. q \notin sub[w] /\ w \in sub[w]
    BY <1>1, ParentOut DEF Ordered, Nested
  <2>3. p \in D \cup {Nil} /\ p \notin sub[n]
    BY ParentOut
  <2>4. x # n
    <3>1. x # Nil => x \in sub[w]
      BY <1>1, KidIn
    <3>2. n \notin sub[w]
      BY <1>1, Antisymmetric
    <3>3. n # Nil
      BY LinkTypes DEF Ordered, Keyed
    <3>. QED  BY <3>1, <3>2, <3>3
  <2> HIDE DEF p, q
  <2>. QED  BY <2>1, <2>2, <2>3, <2>4
<1>7. /\ D \subseteq Nodes /\ Nil \notin Nodes /\ sub[n] \subseteq D /\ n \in sub[n]
      /\ \A m \in D : sub[m] \subseteq D /\ m \in sub[m]
  BY LinkTypes DEF Ordered, Keyed, Nested
<1>8. /\ v.parent[n] = p
      /\ \A m \in Nodes : m \notin {w, q} =>
           v.children[m] = t.children[m] /\ v.height[m] = t.height[m]
  <2> HIDE DEF p, q
  <2>1. Splices(t, v, w, x)
    BY <1>2
  <2>2. n \in Nodes /\ n # w /\ n # x
    BY <1>1, <1>6, <1>7
  <2>. QED  BY <2>1, <2>2 DEF Splices, p, q
<1>9. SwapIs(z, v, R, n, w, v.parent[n], ParentSide(v, n))
  <2> HIDE DEF p, q
  <2>1. CASE p = Nil
    <3>1. SwapIs(z, v, D, n, w, p, ParentSide(t, n))
      BY <1>3
    <3>. QED  BY <1>8, <2>1, <3>1 DEF SwapIs
  <2>2. CASE p # Nil
    <3>1. v.children[p] = t.children[p]
      BY <1>1, <1>6, <1>7, <1>8, <2>2
    <3>2. ParentSide(v, n) = ParentSide(t, n)
      BY <1>8, <3>1 DEF ParentSide, p
    <3>3. SwapIs(z, v, D, n, w, p, ParentSide(t, n))
      BY <1>3
    <3>. QED  BY <1>8, <3>2, <3>3 DEF SwapIs
  <2>. QED  BY <2>1, <2>2
<1>10. /\ Others(R, n, w) = E /\ D = R \cup {w} /\ w \in Nodes \ R /\ n \in R
  BY <1>1, <1>7 DEF Others
<1> HIDE DEF p, q, L, cut, was, R
<1>11. Typed(z, E) /\ Renames(v, z, R, n, w)
  <2>1. Shaped(z, R \cup {w})
    BY <1>3, <1>10
  <2>2. Typed(z, Others(R, n, w)) /\ Renames(v, z, R, n, w)
    BY <1>4, <1>9, <1>10, <2>1, SwapRenames
  <2>. QED  BY <1>10, <2>2
<1>12. Fits(v, R, L, cut, n, K[w])
  BY <1>4, AdjacentFits DEF L, R, cut
<1>13. M \in [E -> Int] /\ M[w] = K[w] /\ \A m \in R \ {n} : M[m] = L[m]
  <2>1. K \in [D -> Int]
    BY DEF Ordered, Keyed
  <2>. QED  BY <1>1, <2>1 DEF L, R
<1> HIDE DEF M, E, new
<1>14. Ordered(z, E, M, new)
  <2>1. Fits(v, R, L, cut, n, M[w])
    BY <1>12, <1>13
  <2>2. Typed(z, Others(R, n, w)) /\ M \in [Others(R, n, w) -> Int]
    BY <1>10, <1>11, <1>13
  <2>3. Ordered(z, Others(R, n, w), M, Moved(R, cut, n, w))
    BY <1>4, <1>10, <1>11, <1>13, <2>1, <2>2, RenameOrdered
  <2>. QED  BY <1>10, <2>3 DEF new
<1>15. \A m \in R : cut[m] = sub[m] \ {w}
  BY DEF cut, Cut, R
<1>16. q \in cut[n] /\ (p # Nil => q \in sub[p])
  <2>1. q \in cut[n]
    BY <1>1, <1>6, <1>15
  <2>2. ASSUME p # Nil PROVE q \in sub[p]
    <3>1. p \in D /\ n \in sub[p]
      <4>1. p \in D
        BY <1>6, <2>2
      <4>2. ParentSide(t, n) \in Side /\ t.children[p][ParentSide(t, n)] = n
        BY <2>2, ParentOut DEF p
      <4>. QED  BY <1>7, <4>1, <4>2, KidIn
    <3>2. sub[n] \subseteq sub[p]
      BY <3>1, Within
    <3>. QED  BY <1>6, <3>2
  <2>. QED  BY <2>1, <2>2
<1>17. \A m \in R : q \notin cut[m] => z.height[m] = v.height[m]
  <2>1. ASSUME NEW m \in R, q \notin cut[m] PROVE z.height[m] = v.height[m]
    <3>1. q \notin sub[m]
      BY <1>6, <1>15, <2>1
    <3>2. m \notin {n, w, p, q} /\ m \in Nodes
      <4>1. m \in D /\ m # w
        BY <2>1 DEF R
      <4>2. q \in sub[q]
        BY <1>6, <1>7
      <4>3. m # p
        BY <1>7, <1>16, <3>1, <4>1
      <4>. QED  BY <1>6, <1>7, <3>1, <4>1, <4>2, <4>3
    <3>. QED  BY <1>3, <1>8, <3>2
  <2>. QED  BY <2>1
<1>18. \A m \in R : old[As(n, w, m)] = was[m]
  BY <1>1 DEF As, R, E
<1> HIDE DEF old
<1>19. Level(z, E, new, As(n, w, q), old)
  <2>1. Typed(z, Others(R, n, w))
    BY <1>10, <1>11
  <2>2. Level(z, Others(R, n, w), Moved(R, cut, n, w), As(n, w, q), old)
    BY <1>4, <1>5, <1>10, <1>11, <1>16, <1>17, <1>18, <2>1, RenameLevel
  <2>. QED  BY <1>10, <2>2 DEF new
<1>20. Removes(D, K, n, z, As(n, w, q))
  BY <1>14, <1>19 DEF Removes, E, M
<1>. QED  BY <1>20 DEF As, z, q

(* Taking out a node leaves its own parent link.                            *)
LEMMA PartedParent ==
  ASSUME NEW t, NEW D, NEW K, NEW sub, Ordered(t, D, K, sub), NEW n \in D,
         NEW w \in sub[n], w # n, NEW s \in Side, NEW x, x = t.children[w][s]
  PROVE  Parted(t, w, x).parent[w] = t.parent[w]
<1> DEFINE one == Replace(t, w, x)
           q == t.parent[w]
<1>1. /\ w \in D /\ q \in D /\ D \subseteq Nodes /\ Shaped(t, D) /\ Nil \notin Nodes
      /\ t.parent \in [Nodes -> D \cup {Nil}]
  <2>1. w \in D
    BY DEF Ordered, Nested
  <2>2. q \in sub[n] /\ q # Nil
    BY ParentIn
  <2>. QED  BY <2>1, <2>2, LinkTypes DEF Ordered, Nested, Keyed, Typed, Shaped
<1>2. x \in D \cup {Nil} /\ x # w
  <2>1. x # Nil => x \in D /\ w \notin sub[x] /\ x \in sub[x]
    BY <1>1, KidIn
  <2>. QED  BY <1>1, <2>1
<1> HIDE DEF q
<1>3. Shaped(one, D) /\ one.parent = IF x = Nil THEN t.parent ELSE [t.parent EXCEPT ![x] = q]
  <2>1. Shaped(t, D) /\ D \subseteq Nodes /\ w \in D
    BY <1>1
  <2>2. x \in D \cup {Nil}
    BY <1>2
  <2>3. LET p == t.parent[w]
            u == Replace(t, w, x)
        IN  /\ Shaped(u, D)
            /\ u.root = IF p = Nil THEN x ELSE t.root
            /\ u.parent = IF x = Nil THEN t.parent ELSE [t.parent EXCEPT ![x] = p]
            /\ u.children = IF p = Nil THEN t.children
                            ELSE [t.children EXCEPT ![p][ParentSide(t, w)] = x]
            /\ \A i \in Nodes : i # p => u.height[i] = t.height[i]
    BY <2>1, <2>2, ReplaceIs
  <2>. QED  BY <2>3 DEF q
<1> HIDE DEF one
<1>4. UpdateHeight(one, q).parent = one.parent
  BY <1>1, <1>3, UpdateHeightIs
<1>5. Parted(t, w, x) = UpdateHeight(one, q)
  BY DEF Parted, one, q
<1>6. one.parent[w] = t.parent[w]
  BY <1>1, <1>2, <1>3
<1>. QED  BY <1>4, <1>5, <1>6

(* Removing any node of an even tree.                                       *)
LEMMA UnlinkRemoves ==
  ASSUME NEW t, NEW D, NEW K, NEW sub, Ordered(t, D, K, sub), \A m \in D : Even(t, m),
         NEW n \in D
  PROVE  Removes(D, K, n, Blank(Unlink(t, n).tree, n), Unlink(t, n).start)
<1>1. CASE t.children[n] = Leafless
  <2>1. Unlink(t, n) = [tree |-> Replace(t, n, Nil), start |-> t.parent[n]]
    BY <1>1 DEF Unlink
  <2>. QED  BY <1>1, <2>1, RemoveLeaf
<1>2. CASE t.children[n] # Leafless
  <2> DEFINE l == t.children[n][Left]
             r == t.children[n][Right]
             s == IF Height(t, l) < Height(t, r) THEN Right ELSE Left
             w == Adjacent(t, n, s)
             x == t.children[w][s]
  <2>1. /\ D \subseteq Nodes /\ Nil \notin Nodes /\ Shaped(t, D) /\ s \in Side
        /\ l \in D \cup {Nil} /\ r \in D \cup {Nil}
        /\ t.children[n] \in [Side -> D \cup {Nil}]
    <3>1. Left \in Side /\ Right \in Side
      BY DEF Side
    <3>. QED  BY <3>1, LinkTypes DEF Ordered, Keyed, Typed, Shaped
  <2>2. \A m \in D : Height(t, m) \in Nat /\ Height(t, m) # 0
    <3> SUFFICES ASSUME NEW m \in D PROVE Height(t, m) \in Nat /\ Height(t, m) # 0
      OBVIOUS
    <3>1. Height(t, m) = Was(Heights(t, D)[m]) /\ Heights(t, D)[m] \in [Side -> Nat]
      BY <2>1, HeightsWere
    <3>2. Heights(t, D)[m][Left] \in Nat /\ Heights(t, D)[m][Right] \in Nat
      BY <3>1 DEF Side
    <3>. QED  BY <3>1, <3>2 DEF Was
  <2>3. t.children[n][s] # Nil
    <3>1. l = Nil /\ r = Nil => t.children[n] = Leafless
      <4>1. \A i \in Side : i = Left \/ i = Right
        BY DEF Side
      <4>. QED  BY <2>1, <4>1 DEF Leafless
    <3>2. Height(t, Nil) = 0
      BY DEF Height
    <3>3. t.children[n][s] = IF Height(t, l) < Height(t, r) THEN r ELSE l
      OBVIOUS
    <3> HIDE DEF l, r, s
    <3>. QED  BY <1>2, <2>1, <2>2, <3>1, <3>2, <3>3
  <2> HIDE DEF s
  <2>4. w \in sub[n] /\ w # n
    <3>1. /\ sub[t.children[n][s]] \subseteq sub[n] /\ n \notin sub[t.children[n][s]]
      BY <2>1, <2>3, KidIn
    <3>2. w \in sub[t.children[n][s]]
      BY <2>1, <2>3, AdjacentIs
    <3>. QED  BY <3>1, <3>2
  <2>5. Unlink(t, n) = [tree |-> Replace(Swapped(t, n, w, x), n, w),
                        start |-> StartPoint(Parted(t, w, x), w, n)]
    BY <1>2 DEF Unlink, Swapped, Parted, s
  <2>6. StartPoint(Parted(t, w, x), w, n) = IF t.parent[w] = n THEN w ELSE t.parent[w]
    <3>1. Parted(t, w, x).parent[w] = t.parent[w]
      BY <2>1, <2>4, PartedParent
    <3>. QED  BY <3>1 DEF StartPoint
  <2>7. Removes(D, K, n, Blank(Replace(Swapped(t, n, w, x), n, w), n),
                IF t.parent[w] = n THEN w ELSE t.parent[w])
    BY <2>1, <2>3, RemoveSwap
  <2> HIDE DEF w, x
  <2>. QED  BY <2>5, <2>6, <2>7
<1>. QED  BY <1>1, <1>2

-----------------------------------------------------------------------------
(* Inserting a node.                                                        *)

(* Tree t with the new node n as the child of p on side s, or alone.        *)
Grown(t, n, p, s) ==
  LET new == [t EXCEPT !.children[n] = Leafless, !.parent[n] = p, !.height[n] = 1]
  IN  IF p = Nil THEN [new EXCEPT !.root = n] ELSE [new EXCEPT !.children[p][s] = n]

(* What is below each node with n below p.                                  *)
Widened(D, sub, n, p) ==
  [m \in D \cup {n} |-> IF m = n THEN {n} ELSE IF p \in sub[m] THEN sub[m] \cup {n} ELSE sub[m]]

(* The links of z are those of t and a new node n below p.                  *)
Grows(t, z, n, p, s) ==
  /\ z.root = IF p = Nil THEN n ELSE t.root
  /\ \A m \in Nodes : z.parent[m] = IF m = n THEN p ELSE t.parent[m]
  /\ z.children[n] = Leafless
  /\ p # Nil => z.children[p][s] = n /\ z.children[p][1 - s] = t.children[p][1 - s]
  /\ \A m \in Nodes : m \notin {n, p} => z.children[m] = t.children[m]
  /\ \A m \in Nodes : z.height[m] = IF m = n THEN 1 ELSE t.height[m]

(* The free place on side s of p is where a key k of the tree belongs.      *)
Vacant(t, D, K, sub, p, s, k) ==
  /\ p \in D \cup {Nil} /\ (p = Nil <=> t.root = Nil)
  /\ p # Nil => /\ s \in Side /\ t.children[p][s] = Nil /\ Before(s, k, K[p])
                /\ \A m \in D : p \in sub[m] /\ m # p =>
                     \E i \in Side : p \in Of(sub, t.children[m][i]) /\ Before(i, k, K[m])

(* The links of a tree with a new node.                                     *)
LEMMA GrownIs ==
  ASSUME NEW t, NEW D, D \subseteq Nodes, Shaped(t, D), NEW n \in Nodes \ D,
         NEW p \in D \cup {Nil}, NEW s, p # Nil => s \in Side
  PROVE  Shaped(Grown(t, n, p, s), D \cup {n}) /\ Grows(t, Grown(t, n, p, s), n, p, s)
<1> DEFINE E == D \cup {n}
           new == [t EXCEPT !.children[n] = Leafless, !.parent[n] = p, !.height[n] = 1]
           z == Grown(t, n, p, s)
<1>1. /\ n \in Nodes /\ Nil \notin Nodes /\ D \subseteq Nodes /\ n # p
      /\ t = [root |-> t.root, children |-> t.children, parent |-> t.parent, height |-> t.height]
      /\ t.root \in E \cup {Nil} /\ t.children \in [Nodes -> [Side -> E \cup {Nil}]]
      /\ t.parent \in [Nodes -> E \cup {Nil}] /\ t.height \in [Nodes -> Nat]
  <2>1. /\ t = [root |-> t.root, children |-> t.children, parent |-> t.parent, height |-> t.height]
        /\ t.root \in D \cup {Nil} /\ t.children \in [Nodes -> [Side -> D \cup {Nil}]]
        /\ t.parent \in [Nodes -> D \cup {Nil}] /\ t.height \in [Nodes -> Nat]
    BY DEF Shaped
  <2>2. \A f \in [Side -> D \cup {Nil}] : f \in [Side -> E \cup {Nil}]
    OBVIOUS
  <2>3. t.children \in [Nodes -> [Side -> E \cup {Nil}]]
    BY <2>1, <2>2
  <2>4. Nil \notin Nodes
    BY AvlTreeAssumption
  <2>. QED  BY <2>1, <2>3, <2>4
<1>2. Leafless \in [Side -> E \cup {Nil}]
  BY DEF Leafless
<1> HIDE DEF E
<1>3. /\ Shaped(new, E) /\ new.root = t.root
      /\ new.children = [t.children EXCEPT ![n] = Leafless]
      /\ new.parent = [t.parent EXCEPT ![n] = p] /\ new.height = [t.height EXCEPT ![n] = 1]
  <2>1. p \in E \cup {Nil}
    BY DEF E
  <2>2. Shaped(t, E)
    BY <1>1 DEF Shaped
  <2>. QED  BY <1>1, <1>2, <2>1, <2>2 DEF Shaped
<1>4. z = IF p = Nil THEN [new EXCEPT !.root = n] ELSE [new EXCEPT !.children[p][s] = n]
  BY DEF Grown
<1> HIDE DEF new, z
<1>5. /\ Shaped(z, E) /\ z.root = (IF p = Nil THEN n ELSE t.root)
      /\ z.parent = new.parent /\ z.height = new.height
      /\ z.children = IF p = Nil THEN new.children ELSE [new.children EXCEPT ![p][s] = n]
  <2>1. CASE p = Nil
    <3>1. n \in E
      BY DEF E
    <3>. QED  BY <1>3, <1>4, <2>1, <3>1 DEF Shaped
  <2>2. CASE p # Nil
    <3>1. n \in E /\ p \in Nodes /\ s \in Side
      BY <1>1, <2>2 DEF E
    <3>2. [new.children[p] EXCEPT ![s] = n] \in [Side -> E \cup {Nil}]
      BY <1>3, <3>1 DEF Shaped
    <3>. QED  BY <1>3, <1>4, <2>2, <3>1, <3>2 DEF Shaped
  <2>. QED  BY <2>1, <2>2
<1>6. \A m \in Nodes : z.parent[m] = IF m = n THEN p ELSE t.parent[m]
  BY <1>1, <1>3, <1>5
<1>7. \A m \in Nodes : z.height[m] = IF m = n THEN 1 ELSE t.height[m]
  BY <1>1, <1>3, <1>5
<1>8. /\ new.children[n] = Leafless /\ \A m \in Nodes : m # n => new.children[m] = t.children[m]
      /\ new.children \in [Nodes -> [Side -> E \cup {Nil}]]
  BY <1>1, <1>2, <1>3
<1>9. z.children[n] = Leafless /\ \A m \in Nodes : m \notin {n, p} => z.children[m] = t.children[m]
  BY <1>1, <1>5, <1>8
<1>10. ASSUME p # Nil
       PROVE  z.children[p][s] = n /\ z.children[p][1 - s] = t.children[p][1 - s]
  <2>1. p \in Nodes /\ p # n /\ s \in Side /\ 1 - s \in Side /\ 1 - s # s
    BY <1>1, <1>10 DEF Side, Left, Right
  <2>2. z.children[p] = [t.children[p] EXCEPT ![s] = n]
    BY <1>5, <1>8, <1>10, <2>1
  <2>3. t.children[p] \in [Side -> E \cup {Nil}]
    BY <1>1, <2>1
  <2>. QED  BY <2>1, <2>2, <2>3
<1>11. Grows(t, z, n, p, s)
  BY <1>5, <1>6, <1>7, <1>9, <1>10 DEF Grows
<1>. QED  BY <1>5, <1>11 DEF z, E

(* The tree with a node more is ordered.                                    *)
LEMMA GrowOrdered ==
  ASSUME NEW t, NEW D, NEW K, NEW sub, Ordered(t, D, K, sub), NEW n \in Nodes \ D,
         NEW k \in Int, NEW p, NEW s, Vacant(t, D, K, sub, p, s, k),
         NEW z, Shaped(z, D \cup {n}), Grows(t, z, n, p, s),
         NEW M \in [D \cup {n} -> Int], M[n] = k, \A m \in D : M[m] = K[m]
  PROVE  Ordered(z, D \cup {n}, M, Widened(D, sub, n, p))
<1> DEFINE E == D \cup {n}
           new == Widened(D, sub, n, p)
<1>1. /\ D \subseteq Nodes /\ Nil \notin Nodes /\ n \in Nodes /\ n \notin D /\ E \subseteq Nodes
      /\ t.root \in D \cup {Nil}
      /\ \A m \in Nodes : t.parent[m] \in D \cup {Nil}
      /\ \A m \in Nodes : \A i \in Side : t.children[m][i] \in D \cup {Nil}
      /\ \A m \in Nodes \ D : t.children[m] = Leafless /\ t.parent[m] = Nil
      /\ \A i \in Side : Leafless[i] = Nil
  BY LinkTypes DEF Ordered, Keyed, Typed, Leafless
<1>2. /\ p \in D \cup {Nil} /\ (p = Nil <=> t.root = Nil)
      /\ p # Nil => /\ s \in Side /\ t.children[p][s] = Nil /\ Before(s, k, K[p])
                    /\ \A i \in Side : i = s \/ i = 1 - s
                    /\ \A m \in D : p \in sub[m] /\ m # p =>
                         \E i \in Side : p \in Of(sub, t.children[m][i]) /\ Before(i, k, K[m])
  BY DEF Vacant, Side, Left, Right
<1>3. /\ z.root = IF p = Nil THEN n ELSE t.root
      /\ \A m \in Nodes : z.parent[m] = IF m = n THEN p ELSE t.parent[m]
      /\ z.children[n] = Leafless
      /\ p # Nil => z.children[p][s] = n /\ z.children[p][1 - s] = t.children[p][1 - s]
      /\ \A m \in Nodes : m \notin {n, p} => z.children[m] = t.children[m]
  BY DEF Grows
<1>4. /\ \A m \in D : \A i \in Side : t.children[m][i] # Nil => t.parent[t.children[m][i]] = m
      /\ \A m \in D : IF m = t.root THEN t.parent[m] = Nil
                      ELSE t.parent[m] # Nil /\ \E i \in Side : t.children[t.parent[m]][i] = m
  BY DEF Ordered, Linked
<1>5. /\ \A m \in D : sub[m] \in SUBSET D /\ m \in sub[m]
      /\ \A m \in D :
           sub[m] = {m} \cup Of(sub, t.children[m][Left]) \cup Of(sub, t.children[m][Right])
      /\ \A m \in D : \A i \in Side : \A x \in Of(sub, t.children[m][i]) : Before(i, K[x], K[m])
      /\ IF t.root = Nil THEN D = {} ELSE sub[t.root] = D
  BY DEF Ordered, Nested
<1>6. /\ new[n] = {n}
      /\ \A m \in D : new[m] = IF p \in sub[m] THEN sub[m] \cup {n} ELSE sub[m]
      /\ new \in [E -> SUBSET E]
  <2>1. new = [m \in E |-> IF m = n THEN {n} ELSE IF p \in sub[m] THEN sub[m] \cup {n} ELSE sub[m]]
    BY DEF Widened
  <2> HIDE DEF new
  <2>. QED  BY <1>1, <1>5, <2>1
<1>7. Keyed(E, M)
  <2>1. IsFiniteSet(E)
    BY FS_AddElement DEF Ordered, Keyed
  <2>. QED  BY <1>1, <2>1 DEF Keyed
<1>8. \A m \in D : M[m] = K[m]
  OBVIOUS
<1>e. /\ E = D \cup {n} /\ M[n] = k
      /\ Left \in Side /\ Right \in Side /\ \A i \in Side : i = Left \/ i = Right
  BY DEF Side
<1> HIDE DEF E, new
<1>9. ASSUME NEW m \in D, NEW i \in Side
      PROVE  /\ z.children[m][i] = IF m = p /\ i = s THEN n ELSE t.children[m][i]
             /\ t.children[m][i] \in D \cup {Nil}
  <2>1. CASE m = p
    BY <1>1, <1>2, <1>3, <2>1
  <2>2. CASE m # p
    BY <1>1, <1>3, <2>2
  <2>. QED  BY <2>1, <2>2
<1>10. Typed(z, E)
  BY <1>1, <1>2, <1>3, <1>e DEF Typed
<1>11. ASSUME NEW m \in E, NEW i \in Side, z.children[m][i] # Nil
       PROVE  z.parent[z.children[m][i]] = m
  <2>1. m # n
    BY <1>1, <1>3, <1>11
  <2>2. m \in D
    BY <1>e, <2>1
  <2>. QED  BY <1>1, <1>3, <1>4, <1>9, <1>11, <2>2
<1>12. ASSUME NEW m \in E
       PROVE  IF m = z.root THEN z.parent[m] = Nil
              ELSE z.parent[m] # Nil /\ \E i \in Side : z.children[z.parent[m]][i] = m
  <2>1. CASE m = n
    <3>1. n = z.root <=> p = Nil
      BY <1>1, <1>3
    <3>. QED  BY <1>1, <1>2, <1>3, <2>1, <3>1
  <2>2. CASE m # n
    <3>1. m \in D /\ p # Nil /\ z.root = t.root /\ z.parent[m] = t.parent[m]
      BY <1>1, <1>2, <1>3, <1>5, <1>e, <2>2
    <3>2. ASSUME m # t.root
          PROVE  t.parent[m] # Nil /\ \E i \in Side : z.children[t.parent[m]][i] = m
      <4>1. PICK i \in Side : t.children[t.parent[m]][i] = m /\ t.parent[m] # Nil
        BY <1>4, <3>1, <3>2
      <4>2. t.parent[m] \in D /\ m # Nil
        BY <1>1, <3>1, <4>1
      <4>3. z.children[t.parent[m]][i] = m
        BY <1>2, <1>9, <4>1, <4>2
      <4>. QED  BY <4>1, <4>3
    <3>. QED  BY <1>4, <3>1, <3>2
  <2>. QED  BY <2>1, <2>2
<1>13. \A m \in D \cup {Nil} :
         Of(new, m) = IF p \in Of(sub, m) THEN Of(sub, m) \cup {n} ELSE Of(sub, m)
  <2>1. Of(new, Nil) = {} /\ Of(sub, Nil) = {}
    BY DEF Of
  <2>2. \A m \in D : Of(new, m) = new[m] /\ Of(sub, m) = sub[m]
    BY <1>1 DEF Of
  <2>. QED  BY <1>6, <2>1, <2>2
<1>14. Of(new, n) = {n} /\ Of(sub, Nil) = {}
  BY <1>1, <1>6 DEF Of
<1>15. ASSUME NEW m \in D
       PROVE  new[m] = {m} \cup Of(new, z.children[m][Left]) \cup Of(new, z.children[m][Right])
  <2>1. sub[m] = {m} \cup Of(sub, t.children[m][Left]) \cup Of(sub, t.children[m][Right])
    BY <1>5
  <2>2. new[m] = IF p \in sub[m] THEN sub[m] \cup {n} ELSE sub[m]
    BY <1>6
  <2>3. CASE m = p
    <3>1. p # Nil /\ p \in sub[m] /\ s \in Side /\ t.children[p][s] = Nil
      BY <1>1, <1>2, <1>5, <2>3
    <3>2. \A i \in Side : p \notin Of(sub, t.children[p][i])
      BY <2>3, Kid
    <3>3. \A i \in Side :
            Of(new, z.children[m][i]) = IF i = s THEN {n} ELSE Of(sub, t.children[m][i])
      BY <1>9, <1>13, <1>14, <2>3, <3>2
    <3>4. (s = Left /\ Right # s) \/ (s = Right /\ Left # s)
      BY <3>1 DEF Side, Left, Right
    <3>5. t.children[m][s] = Nil
      BY <2>3, <3>1
    <3>. QED  BY <1>14, <1>e, <2>1, <2>2, <3>1, <3>3, <3>4, <3>5
  <2>4. CASE m # p
    <3>1. \A i \in Side : Of(new, z.children[m][i]) =
            IF p \in Of(sub, t.children[m][i]) THEN Of(sub, t.children[m][i]) \cup {n}
            ELSE Of(sub, t.children[m][i])
      BY <1>9, <1>13, <2>4
    <3>. QED  BY <1>e, <2>1, <2>2, <2>4, <3>1
  <2>. QED  BY <2>3, <2>4
<1>16. ASSUME NEW m \in D, NEW i \in Side, NEW y \in Of(new, z.children[m][i])
       PROVE  Before(i, M[y], M[m])
  <2>1. CASE m = p /\ i = s
    <3>1. y = n
      BY <1>9, <1>14, <1>16, <2>1
    <3>. QED  BY <1>1, <1>2, <1>8, <1>e, <2>1, <3>1
  <2>2. CASE ~ (m = p /\ i = s)
    <3>1. /\ z.children[m][i] = t.children[m][i]
          /\ y \in Of(sub, t.children[m][i]) \/ (y = n /\ p \in Of(sub, t.children[m][i]))
      BY <1>9, <1>13, <1>16, <2>2
    <3>2. CASE y \in Of(sub, t.children[m][i])
      <4>1. y \in D
        BY <1>5, <1>9, <3>2 DEF Of
      <4>. QED  BY <1>5, <1>8, <3>2, <4>1
    <3>3. CASE y = n /\ p \in Of(sub, t.children[m][i])
      <4>1. p \in sub[m] /\ p # m
        BY <3>3, Kid
      <4>2. p # Nil
        BY <1>1, <1>5, <4>1
      <4>3. PICK j \in Side : p \in Of(sub, t.children[m][j]) /\ Before(j, k, K[m])
        BY <1>2, <4>1, <4>2
      <4>4. j = i
        <5>1. Of(sub, t.children[m][i]) \cap Of(sub, t.children[m][1 - i]) = {}
          BY Kid
        <5>2. j = i \/ j = 1 - i
          BY DEF Side, Left, Right
        <5>. QED  BY <3>3, <4>3, <5>1, <5>2
      <4>. QED  BY <1>8, <1>e, <3>3, <4>3, <4>4
    <3>. QED  BY <3>1, <3>2, <3>3
  <2>. QED  BY <2>1, <2>2
<1>17. IF z.root = Nil THEN E = {} ELSE new[z.root] = E
  <2>1. CASE p = Nil
    BY <1>1, <1>2, <1>3, <1>5, <1>6, <1>e, <2>1
  <2>2. CASE p # Nil
    BY <1>1, <1>2, <1>3, <1>5, <1>6, <1>e, <2>2
  <2>. QED  BY <2>1, <2>2
<1>18. Nested(z, E, M, new)
  <2>1. \A i \in Side : Of(new, z.children[n][i]) = {}
    BY <1>1, <1>3 DEF Of
  <2>2. ASSUME NEW m \in E
        PROVE  new[m] = {m} \cup Of(new, z.children[m][Left]) \cup Of(new, z.children[m][Right])
    BY <1>6, <1>15, <1>e, <2>1
  <2>3. ASSUME NEW m \in E, NEW i \in Side, NEW y \in Of(new, z.children[m][i])
        PROVE  Before(i, M[y], M[m])
    <3>1. m # n
      BY <2>1, <2>3
    <3>. QED  BY <1>16, <1>e, <2>3, <3>1
  <2>. QED  BY <1>6, <1>17, <2>2, <2>3 DEF Nested
<1>19. Linked(z, E)
  BY <1>11, <1>12 DEF Linked
<1>. QED  BY <1>7, <1>10, <1>18, <1>19 DEF Ordered, E, new

(* Balancing the tree with a node more begins at its parent.                *)
LEMMA GrowLevel ==
  ASSUME NEW t, NEW D, NEW K, NEW sub, Ordered(t, D, K, sub), \A m \in D : Even(t, m),
         NEW n \in Nodes \ D, NEW k, NEW p, NEW s, Vacant(t, D, K, sub, p, s, k),
         NEW z, Grows(t, z, n, p, s)
  PROVE  Level(z, D \cup {n}, Widened(D, sub, n, p), p, Heights(t, D))
<1> DEFINE E == D \cup {n}
           new == Widened(D, sub, n, p)
           A == Above(E, new, p)
           old == Heights(t, D)
<1>1. /\ D \subseteq Nodes /\ Nil \notin Nodes /\ n \in Nodes /\ n \notin D /\ Shaped(t, D)
      /\ \A m \in D : \A i \in Side : t.children[m][i] \in D \cup {Nil}
      /\ \A m \in D : sub[m] \in SUBSET D /\ m \in sub[m]
      /\ \A i \in Side : Leafless[i] = Nil
  BY LinkTypes DEF Ordered, Keyed, Typed, Nested, Leafless
<1>2. /\ p \in D \cup {Nil}
      /\ p # Nil => s \in Side /\ t.children[p][s] = Nil /\ \A i \in Side : i = s \/ i = 1 - s
      /\ p # Nil => 1 - s \in Side /\ 1 - s # s
  BY DEF Vacant, Side, Left, Right
<1>3. /\ z.children[n] = Leafless
      /\ p # Nil => z.children[p][s] = n /\ z.children[p][1 - s] = t.children[p][1 - s]
      /\ \A m \in Nodes : m \notin {n, p} => z.children[m] = t.children[m]
      /\ \A m \in Nodes : z.height[m] = IF m = n THEN 1 ELSE t.height[m]
  BY DEF Grows
<1>4. ASSUME NEW m \in D
      PROVE  /\ old[m] \in [Side -> Nat] /\ old[m][Left] - old[m][Right] \in -1 .. 1
             /\ \A j \in Side : old[m][j] = Height(t, t.children[m][j])
             /\ Height(t, m) = Was(old[m])
  BY <1>1, HeightsWere
<1>5. \A m \in E : m \in A <=> m \in D /\ p \in sub[m]
  BY <1>1, <1>2 DEF Above, Widened
<1>6. A \subseteq D /\ Nil \notin A /\ n \notin A /\ E = D \cup {n}
  BY <1>1, <1>5 DEF Above
<1> HIDE DEF E, new, A, old
<1>7. \A m \in D \cup {Nil} : Height(z, m) = Height(t, m)
  BY <1>1, <1>3 DEF Height
<1>8. ASSUME NEW m \in E, m \notin A PROVE Even(z, m)
  <2>1. CASE m = n
    <3>1. /\ Height(z, z.children[n][Left]) = 0 /\ Height(z, z.children[n][Right]) = 0
      BY <1>1, <1>3 DEF Height, Side
    <3>2. z.height[n] = 1
      BY <1>1, <1>3
    <3>. QED  BY <2>1, <3>1, <3>2 DEF Even, Tall
  <2>2. CASE m # n
    <3>1. m \in D /\ m # p /\ m \in Nodes
      BY <1>1, <1>5, <1>6, <1>8, <2>2
    <3>2. z.children[m] = t.children[m] /\ z.height[m] = t.height[m]
      BY <1>3, <2>2, <3>1
    <3>3. \A i \in Side : t.children[m][i] # Nil =>
            z.height[t.children[m][i]] = t.height[t.children[m][i]]
      BY <1>1, <1>3, <3>1
    <3>. QED  BY <3>1, <3>2, <3>3, EvenKept
  <2>. QED  BY <2>1, <2>2
<1>9. ASSUME NEW m \in A, NEW j \in Side
      PROVE  IF z.children[m][j] \in A THEN old[m][j] = Was(old[z.children[m][j]])
             ELSE m # p => old[m][j] = Height(z, z.children[m][j])
  <2>1. m \in D /\ m \in Nodes /\ m # n /\ old[m][j] = Height(t, t.children[m][j])
    BY <1>1, <1>4, <1>6
  <2>2. CASE m = p
    <3>1. z.children[m][j] \notin A
      <4>1. SUFFICES ASSUME z.children[m][j] \in A PROVE FALSE
        OBVIOUS
      <4>2. z.children[m][j] = t.children[m][j]
        BY <1>1, <1>2, <1>3, <1>6, <2>1, <2>2, <4>1
      <4>3. t.children[m][j] # Nil /\ m \in sub[t.children[m][j]]
        BY <1>5, <1>6, <2>2, <4>1, <4>2
      <4>. QED  BY <2>1, <4>3, KidIn
    <3>. QED  BY <2>2, <3>1
  <2>3. CASE m # p
    <3>1. z.children[m][j] = t.children[m][j] /\ t.children[m][j] \in D \cup {Nil}
      BY <1>1, <1>3, <2>1, <2>3
    <3>2. CASE t.children[m][j] \in A
      BY <1>4, <1>6, <2>1, <3>1, <3>2
    <3>3. CASE t.children[m][j] \notin A
      BY <1>7, <2>1, <3>1, <3>3
    <3>. QED  BY <3>2, <3>3
  <2>. QED  BY <2>2, <2>3
<1>10. ASSUME p # Nil
       PROVE  \E j \in Side : /\ old[p][1 - j] = Height(z, z.children[p][1 - j])
                              /\ Height(z, z.children[p][j]) - old[p][j] \in -1 .. 1
  <2>1. p \in D /\ s \in Side /\ 1 - s \in Side
    BY <1>2, <1>10
  <2>2. old[p][1 - s] = Height(z, z.children[p][1 - s])
    BY <1>1, <1>3, <1>4, <1>7, <1>10, <2>1
  <2>3. Height(z, z.children[p][s]) = 1
    BY <1>1, <1>3, <1>10 DEF Height
  <2>4. old[p][s] = 0
    BY <1>2, <1>4, <1>10, <2>1 DEF Height
  <2>. QED  BY <2>1, <2>2, <2>3, <2>4
<1>11. \A m \in A : old[m] \in [Side -> Nat] /\ old[m][Left] - old[m][Right] \in -1 .. 1
  BY <1>4, <1>6
<1>12. p \in E \cup {Nil}
  BY <1>2, <1>6
<1>13. Level(z, E, new, p, old)
  BY <1>8, <1>9, <1>10, <1>11, <1>12 DEF Level, A
<1>. QED  BY <1>13 DEF E, new, old

(* Where the walk of an insertion ends is room for a new key.               *)
LEMMA LastVacant ==
  ASSUME NEW t, NEW D, NEW K, NEW sub, Ordered(t, D, K, sub),
         NEW e, DOMAIN e = D, K = KeyOf(e), NEW k \in Int, \A m \in D : K[m] # k
  PROVE  LET p == Last(t, e, k) IN Vacant(t, D, K, sub, p, Turn(k, e[p].key), k)
<1> DEFINE p == Last(t, e, k)
           s == Turn(k, e[p].key)
<1>1. /\ p \in D \cup {Nil} /\ (p = Nil <=> t.root = Nil)
      /\ p # Nil =>
           /\ t.children[p][Turn(k, K[p])] = Nil
           /\ \A m \in D : p \in sub[m] =>
                m = p \/ p \in Of(sub, t.children[m][Turn(k, K[m])])
  BY LastIs
<1>2. /\ \A m \in D : K[m] \in Int /\ K[m] # k /\ e[m].key = K[m]
  BY DEF Ordered, Keyed, KeyOf
<1>3. \A m \in D : Turn(k, K[m]) \in Side /\ Before(Turn(k, K[m]), k, K[m])
  BY <1>2 DEF Turn, Before, Side, Left, Right
<1> HIDE DEF p
<1>4. p # Nil => s = Turn(k, K[p]) /\ p \in D
  BY <1>1, <1>2
<1> HIDE DEF s
<1>. QED  BY <1>1, <1>3, <1>4 DEF Vacant, p, s

-----------------------------------------------------------------------------
(* The way up.                                                              *)

(* Unvisited of a tree t with balancing at r.                               *)
Visits(t, r) ==
  LET Up[n \in Nodes \cup {Nil}] == IF n = Nil THEN {} ELSE {n} \cup Up[t.parent[n]]
  IN  Up[r]

(* The nodes still to visit are those of the state's tree.                  *)
LEMMA VisitsState == Unvisited = Visits(tree, rover)
BY DEF Unvisited, Visits

(* Above a node are it and those above its parent.                          *)
LEMMA AboveParent ==
  ASSUME NEW t, NEW D, NEW K, NEW sub, Ordered(t, D, K, sub), NEW n \in D
  PROVE  Above(D, sub, n) = {n} \cup Above(D, sub, t.parent[n])
<1> DEFINE p == t.parent[n]
<1>1. /\ p \in D \cup {Nil} /\ Nil \notin D
      /\ \A m \in D : sub[m] \in SUBSET D /\ m \in sub[m]
  BY LinkTypes DEF Ordered, Keyed, Nested
<1>2. ASSUME NEW m \in D, n \in sub[m], m # n PROVE p \in sub[m]
  BY <1>2, ParentIn
<1>3. ASSUME NEW m \in D, p \in sub[m] PROVE n \in sub[m]
  <2>1. p \in D /\ p # Nil
    BY <1>1, <1>3
  <2>2. ParentSide(t, n) \in Side /\ t.children[p][ParentSide(t, n)] = n
    BY <2>1, ParentOut
  <2>3. n \in sub[p]
    BY <1>1, <2>1, <2>2, KidIn
  <2>. QED  BY <1>3, <2>3, Within
<1>. QED  BY <1>1, <1>2, <1>3 DEF Above

(* Induction up the tree: some node of B has its parent not in B.           *)
LEMMA Highest ==
  ASSUME NEW t, NEW D, NEW K, NEW sub, Ordered(t, D, K, sub),
         NEW B \in SUBSET D, B # {}
  PROVE  \E n \in B : t.parent[n] \notin B
<1> DEFINE Ranks == {Cardinality(Above(D, sub, n)) : n \in B}
<1>1. \A n \in D : /\ Above(D, sub, n) \in SUBSET D /\ IsFiniteSet(Above(D, sub, n))
                   /\ Cardinality(Above(D, sub, n)) \in Nat
  <2>1. \A n \in D : Above(D, sub, n) \in SUBSET D /\ IsFiniteSet(D)
    BY DEF Ordered, Keyed, Above
  <2>. QED  BY <2>1, FS_Subset, FS_CardinalityType
<1>2. PICK r \in Ranks : \A i \in Ranks : r <= i
  <2>1. Ranks \in SUBSET Nat /\ Ranks # {}
    BY <1>1
  <2> HIDE DEF Ranks
  <2>. QED  BY <2>1, LeastOf
<1>3. PICK n \in B : r = Cardinality(Above(D, sub, n))
  OBVIOUS
<1>4. ASSUME t.parent[n] \in B PROVE FALSE
  <2> DEFINE p == t.parent[n]
  <2>1. Above(D, sub, n) = {n} \cup Above(D, sub, p) /\ p \in D
    BY <1>4, AboveParent
  <2>2. n \notin Above(D, sub, p)
    BY ParentOut DEF Above
  <2>3. Cardinality(Above(D, sub, p)) <= Cardinality(Above(D, sub, n))
        /\ Cardinality(Above(D, sub, p)) # Cardinality(Above(D, sub, n))
    BY <1>1, <2>1, <2>2, FS_Subset
  <2>4. Cardinality(Above(D, sub, p)) \in Ranks
    BY <1>4
  <2>5. Cardinality(Above(D, sub, p)) \in Nat /\ Cardinality(Above(D, sub, n)) \in Nat
    BY <1>1, <2>1
  <2> HIDE DEF Ranks, p
  <2>. QED  BY <1>2, <1>3, <2>3, <2>4, <2>5
<1>. QED  BY <1>4

(* The way up from a node comes by all nodes above it.                      *)
LEMMA VisitsAbove ==
  ASSUME NEW t, NEW D, NEW K, NEW sub, Ordered(t, D, K, sub), NEW r \in D \cup {Nil}
  PROVE  Above(D, sub, r) \subseteq Visits(t, r)
<1> DEFINE V == Nodes \cup {Nil}
           Rule(f) == [n \in V |-> IF n = Nil THEN {} ELSE {n} \cup f[t.parent[n]]]
           F == CHOOSE f : f = Rule(f)
           f == [n \in V |-> IF n = Nil THEN {} ELSE IF n \in D THEN Above(D, sub, n) ELSE {n}]
<1>1. Visits(t, r) = F[r]
  BY DEF Visits
<1>2. /\ D \subseteq Nodes /\ Nil \notin Nodes /\ \A n \in Nodes : t.parent[n] \in D \cup {Nil}
      /\ \A n \in Nodes \ D : t.parent[n] = Nil
      /\ Above(D, sub, Nil) = {}
  BY LinkTypes DEF Ordered, Keyed, Typed, Nested, Above
<1>3. f = Rule(f)
  <2>1. \A n \in V : f[n] = Rule(f)[n]
    <3> SUFFICES ASSUME NEW n \in V PROVE f[n] = Rule(f)[n]
      OBVIOUS
    <3>1. CASE n = Nil
      BY <3>1
    <3>2. CASE n \in D
      <4>1. f[n] = {n} \cup Above(D, sub, t.parent[n]) /\ n # Nil
        BY <1>2, <3>2, AboveParent
      <4>2. f[t.parent[n]] = Above(D, sub, t.parent[n])
        <5>1. t.parent[n] \in D \cup {Nil} /\ t.parent[n] \in V
          BY <1>2, <3>2
        <5>. QED  BY <1>2, <5>1
      <4>. QED  BY <4>1, <4>2
    <3>3. CASE n \notin D /\ n # Nil
      BY <1>2, <3>3
    <3>. QED  BY <3>1, <3>2, <3>3
  <2> HIDE DEF Rule
  <2>2. Rule(f) = [n \in V |-> Rule(f)[n]]
    BY DEF Rule
  <2>3. f = [n \in V |-> f[n]]
    OBVIOUS
  <2> HIDE DEF f
  <2>. QED  BY <2>1, <2>2, <2>3
<1>4. F = Rule(F)
  <2> HIDE DEF Rule, f
  <2>. QED  BY <1>3
<1> HIDE DEF F
<1>5. \A n \in Nodes : F[n] = {n} \cup F[t.parent[n]]
  BY <1>2, <1>4
<1> DEFINE B == {n \in D : ~ Above(D, sub, n) \subseteq F[n]}
<1>6. B = {}
  <2>1. SUFFICES ASSUME B # {} PROVE FALSE
    OBVIOUS
  <2>2. PICK n \in B : t.parent[n] \notin B
    <3>1. B \in SUBSET D
      OBVIOUS
    <3> HIDE DEF B
    <3>. QED  BY <2>1, <3>1, Highest
  <2>3. Above(D, sub, n) = {n} \cup Above(D, sub, t.parent[n])
    BY AboveParent
  <2>4. Above(D, sub, t.parent[n]) \subseteq F[t.parent[n]]
    BY <1>2, <2>2
  <2>5. F[n] = {n} \cup F[t.parent[n]]
    BY <1>2, <1>5
  <2>. QED  BY <2>3, <2>4, <2>5
<1>. QED  BY <1>1, <1>2, <1>6

-----------------------------------------------------------------------------
(* The walk in order.                                                       *)

(* InOrder of a tree t.                                                     *)
Walked(t) ==
  LET Walk[n \in Nodes \cup {Nil}] ==
        IF n = Nil THEN <<>>
        ELSE Walk[t.children[n][Left]] \o <<n>> \o Walk[t.children[n][Right]]
  IN  Walk[t.root]

(* The walk in order is that of the state's tree.                           *)
LEMMA WalkedState == InOrder = Walked(tree)
BY DEF InOrder, Walked

(* The walk lists the left side, the node, and the right side.              *)
LEMMA WalkedRule ==
  ASSUME NEW t, NEW D, NEW K, NEW sub, Ordered(t, D, K, sub)
  PROVE  \E f : /\ Walked(t) = f[t.root] /\ f[Nil] = <<>>
                /\ \A n \in Nodes :
                     f[n] = f[t.children[n][Left]] \o <<n>> \o f[t.children[n][Right]]
<1> DEFINE V == Nodes \cup {Nil}
           S == Seq(Nodes)
           G == [x \in Nodes \X S \X S |-> x[2] \o <<x[1]>> \o x[3]]
           Rule(f) == [n \in V |-> IF n = Nil THEN <<>>
                         ELSE f[t.children[n][Left]] \o <<n>> \o f[t.children[n][Right]]]
           F == CHOOSE f : f = Rule(f)
<1>1. Walked(t) = F[t.root]
  BY DEF Walked
<1>2. PICK f : Solves(t, S, <<>>, G, Nodes, f)
  <2>1. G \in [Nodes \X S \X S -> S] /\ <<>> \in S
    OBVIOUS
  <2> HIDE DEF G, S
  <2>. QED  BY <2>1, Recursion
<1>3. /\ f \in [V -> S] /\ f[Nil] = <<>> /\ Nil \notin Nodes
      /\ \A n \in Nodes : f[n] = G[<<n, f[t.children[n][Left]], f[t.children[n][Right]]>>]
  BY <1>2, LinkTypes DEF Solves, Ordered, Keyed
<1>4. ASSUME NEW n \in Nodes
      PROVE  f[n] = f[t.children[n][Left]] \o <<n>> \o f[t.children[n][Right]]
  <2>1. t.children[n][Left] \in V /\ t.children[n][Right] \in V
    BY LinkTypes DEF Ordered, Keyed, Side
  <2>2. <<n, f[t.children[n][Left]], f[t.children[n][Right]]>> \in Nodes \X S \X S
    BY <1>3, <2>1
  <2>. QED  BY <1>3, <2>2
<1>5. f = Rule(f)
  <2>1. \A n \in V : f[n] = Rule(f)[n]
    BY <1>3, <1>4
  <2>2. Rule(f) = [n \in V |-> Rule(f)[n]]
    OBVIOUS
  <2>3. f = [n \in V |-> f[n]]
    BY <1>3
  <2> HIDE DEF V, Rule
  <2>. QED  BY <2>1, <2>2, <2>3
<1>6. F = Rule(F)
  <2> HIDE DEF Rule
  <2>. QED  BY <1>5
<1> HIDE DEF F
<1>7. F[Nil] = <<>>
  BY <1>6
<1>8. \A n \in Nodes : F[n] = F[t.children[n][Left]] \o <<n>> \o F[t.children[n][Right]]
  BY <1>3, <1>6
<1>. QED  BY <1>1, <1>7, <1>8

(* A sequence of all nodes of a set, each once, in the order of their keys.  *)
Lists(K, S, q) ==
  /\ q \in Seq(S) /\ Len(q) = Cardinality(S) /\ {q[i] : i \in DOMAIN q} = S
  /\ \A i \in 1 .. Len(q) - 1 : K[q[i]] < K[q[i + 1]]

(* The nodes on the left, a node and the nodes on the right make a list.    *)
LEMMA ListsJoin ==
  ASSUME NEW K, NEW A, NEW B, NEW n, IsFiniteSet(A), IsFiniteSet(B), A \cap B = {},
         n \notin A, n \notin B, NEW q, Lists(K, A, q), NEW r, Lists(K, B, r),
         \A m \in A : K[m] < K[n], \A m \in B : K[n] < K[m]
  PROVE  Lists(K, {n} \cup A \cup B, q \o <<n>> \o r)
<1> DEFINE S == {n} \cup A \cup B
           a == Len(q)
           b == Len(r)
           w == q \o <<n>> \o r
<1>1. /\ q \in Seq(S) /\ r \in Seq(S) /\ <<n>> \in Seq(S)
      /\ a \in Nat /\ b \in Nat /\ DOMAIN q = 1 .. a /\ DOMAIN r = 1 .. b
      /\ \A i \in 1 .. a : q[i] \in A
      /\ \A i \in 1 .. b : r[i] \in B
  <2>1. q \in Seq(A) /\ r \in Seq(B)
    BY DEF Lists
  <2>2. /\ a \in Nat /\ b \in Nat /\ DOMAIN q = 1 .. a /\ DOMAIN r = 1 .. b
        /\ \A i \in 1 .. a : q[i] \in A
        /\ \A i \in 1 .. b : r[i] \in B
    BY <2>1
  <2>3. q \in Seq(S) /\ r \in Seq(S) /\ <<n>> \in Seq(S)
    BY <2>1
  <2>. QED  BY <2>2, <2>3
<1>2. /\ w \in Seq(S) /\ Len(w) = a + 1 + b /\ DOMAIN w = 1 .. a + 1 + b
      /\ \A i \in 1 .. a : w[i] = q[i]
      /\ w[a + 1] = n
      /\ \A i \in 1 .. b : w[a + 1 + i] = r[i]
  <2> HIDE DEF S
  <2>1. /\ q \o <<n>> \in Seq(S) /\ Len(q \o <<n>>) = a + 1
        /\ \A i \in 1 .. a : (q \o <<n>>)[i] = q[i]
        /\ (q \o <<n>>)[a + 1] = n
    BY <1>1
  <2>2. /\ w \in Seq(S) /\ Len(w) = a + 1 + b
        /\ \A i \in 1 .. a + 1 : w[i] = (q \o <<n>>)[i]
    BY <1>1, <2>1
  <2>3. ASSUME NEW i \in 1 .. b PROVE w[a + 1 + i] = r[i]
    <3>1. /\ i \in Int /\ a + 1 + i \in 1 .. a + 1 + b
          /\ ~ a + 1 + i <= a + 1 /\ a + 1 + i - (a + 1) = i
      BY <1>1, <2>3
    <3>. QED  BY <1>1, <2>1, <3>1
  <2>4. DOMAIN w = 1 .. a + 1 + b
    BY <2>2
  <2>5. (\A i \in 1 .. a : i \in 1 .. a + 1) /\ a + 1 \in 1 .. a + 1
    BY <1>1
  <2>. QED  BY <2>1, <2>2, <2>3, <2>4, <2>5
<1> HIDE DEF w, a, b
<1>3. Cardinality(S) = a + 1 + b
  <2>1. /\ Cardinality(A) = a /\ Cardinality(B) = b
    BY DEF Lists, a, b
  <2>2. IsFiniteSet({n} \cup A) /\ Cardinality({n} \cup A) = a + 1
    <3>1. IsFiniteSet(A \cup {n}) /\ Cardinality(A \cup {n}) = a + 1
      BY <2>1, FS_AddElement
    <3>2. {n} \cup A = A \cup {n}
      OBVIOUS
    <3>. QED  BY <3>1, <3>2
  <2>3. ({n} \cup A) \cap B = {}
    OBVIOUS
  <2>4. Cardinality(({n} \cup A) \cup B)
          = Cardinality({n} \cup A) + Cardinality(B) - Cardinality(({n} \cup A) \cap B)
    BY <2>2, FS_Union
  <2>5. Cardinality({}) = 0
    BY FS_EmptySet
  <2>6. S = ({n} \cup A) \cup B
    OBVIOUS
  <2>7. Cardinality(S) = Cardinality({n} \cup A) + Cardinality(B) - 0
    BY <2>3, <2>4, <2>5, <2>6
  <2> HIDE DEF S
  <2>. QED  BY <1>1, <2>1, <2>2, <2>7
<1>4. {w[i] : i \in DOMAIN w} = S
  <2>1. /\ A = {q[i] : i \in 1 .. a} /\ B = {r[i] : i \in 1 .. b}
    BY <1>1 DEF Lists
  <2>2. ASSUME NEW i \in DOMAIN w PROVE w[i] \in S
    BY <1>2, <2>2
  <2>3. ASSUME NEW x \in S PROVE \E i \in DOMAIN w : w[i] = x
    <3>1. CASE x \in A
      <4>1. PICK i \in 1 .. a : q[i] = x
        BY <2>1, <3>1
      <4>2. i \in 1 .. a + 1 + b
        BY <1>1, <4>1
      <4>. QED  BY <1>2, <4>1, <4>2
    <3>2. CASE x = n
      <4>1. a + 1 \in 1 .. a + 1 + b /\ w[a + 1] = n
        BY <1>1, <1>2
      <4>. QED  BY <1>2, <3>2, <4>1
    <3>3. CASE x \in B
      <4>1. PICK i \in 1 .. b : r[i] = x
        BY <2>1, <3>3
      <4>2. a + 1 + i \in 1 .. a + 1 + b /\ w[a + 1 + i] = x
        <5>1. a + 1 + i \in 1 .. a + 1 + b
          BY <1>1, <4>1
        <5>. QED  BY <1>2, <4>1, <5>1
      <4>. QED  BY <1>2, <4>2
    <3>. QED  BY <3>1, <3>2, <3>3
  <2>. QED  BY <2>2, <2>3
<1>5. ASSUME NEW i \in 1 .. Len(w) - 1 PROVE K[w[i]] < K[w[i + 1]]
  <2>1. i \in 1 .. a + b /\ i \in 1 .. a + 1 + b /\ i + 1 \in 1 .. a + 1 + b
    BY <1>1, <1>2
  <2>2. /\ \A l \in 1 .. a - 1 : K[q[l]] < K[q[l + 1]]
        /\ \A l \in 1 .. b - 1 : K[r[l]] < K[r[l + 1]]
    BY DEF Lists, a, b
  <2>3. CASE i < a
    <3>1. i \in 1 .. a - 1 /\ w[i] = q[i] /\ w[i + 1] = q[i + 1]
      BY <1>1, <1>2, <2>1, <2>3
    <3>. QED  BY <2>2, <3>1
  <2>4. CASE i = a
    <3>1. w[i] = q[i] /\ w[i + 1] = n /\ q[i] \in A
      BY <1>1, <1>2, <2>1, <2>4
    <3>. QED  BY <3>1
  <2>5. CASE i = a + 1
    <3>1. w[i] = n /\ w[i + 1] = r[1] /\ r[1] \in B
      <4>1. i + 1 = a + 1 + 1 /\ 1 \in 1 .. b
        BY <1>1, <2>1, <2>5
      <4>. QED  BY <1>1, <1>2, <2>5, <4>1
    <3>. QED  BY <3>1
  <2>6. CASE i > a + 1
    <3> DEFINE l == i - a - 1
    <3>1. /\ l \in 1 .. b - 1 /\ l \in 1 .. b /\ l + 1 \in 1 .. b
          /\ i = a + 1 + l /\ i + 1 = a + 1 + (l + 1)
      BY <1>1, <2>1, <2>6
    <3> HIDE DEF l
    <3>2. w[i] = r[l] /\ w[i + 1] = r[l + 1]
      BY <1>2, <3>1
    <3>. QED  BY <2>2, <3>1, <3>2
  <2>7. i \in Int
    BY <2>1
  <2>. QED  BY <1>1, <2>3, <2>4, <2>5, <2>6, <2>7
<1>. QED  BY <1>2, <1>3, <1>4, <1>5 DEF Lists, w

(* The walk meets all nodes, in the order of their keys.                    *)
LEMMA WalkedLists ==
  ASSUME NEW t, NEW D, NEW K, NEW sub, Ordered(t, D, K, sub)
  PROVE  Lists(K, D, Walked(t))
<1>1. PICK f : /\ Walked(t) = f[t.root] /\ f[Nil] = <<>>
               /\ \A n \in Nodes :
                    f[n] = f[t.children[n][Left]] \o <<n>> \o f[t.children[n][Right]]
  BY WalkedRule
<1>2. Lists(K, {}, <<>>)
  BY FS_EmptySet DEF Lists
<1>3. D \subseteq Nodes /\ Nil \notin Nodes /\ IsFiniteSet(D) /\ \A n \in D : sub[n] \in SUBSET D
  BY LinkTypes DEF Ordered, Keyed, Nested
<1> DEFINE B == {n \in D : ~ Lists(K, sub[n], f[n])}
<1>4. B = {}
  <2>1. SUFFICES ASSUME B # {} PROVE FALSE
    OBVIOUS
  <2>2. PICK n \in B : \A s \in Side : t.children[n][s] \notin B
    <3>1. B \in SUBSET D
      OBVIOUS
    <3> HIDE DEF B
    <3>. QED  BY <2>1, <3>1, Lowest
  <2>3. n \in D /\ ~ Lists(K, sub[n], f[n])
    OBVIOUS
  <2> DEFINE l == t.children[n][Left]
             r == t.children[n][Right]
  <2>4. /\ Left \in Side /\ Right \in Side /\ 1 - Left = Right /\ 1 - Right = Left
    BY DEF Side, Left, Right
  <2>5. /\ l \in D \cup {Nil} /\ r \in D \cup {Nil} /\ l \notin B /\ r \notin B
        /\ sub[n] = {n} \cup Of(sub, l) \cup Of(sub, r)
        /\ n \notin Of(sub, l) /\ n \notin Of(sub, r) /\ Of(sub, l) \cap Of(sub, r) = {}
    <3>1. l \notin B /\ r \notin B
      BY <2>2, <2>4
    <3> HIDE DEF B
    <3>. QED  BY <2>3, <2>4, <3>1, Kid
  <2>6. \A c \in D \cup {Nil} : c \notin B => Lists(K, Of(sub, c), f[c]) /\ IsFiniteSet(Of(sub, c))
    <3>1. \A c \in D : IsFiniteSet(sub[c])
      BY <1>3, FS_Subset
    <3>. QED  BY <1>1, <1>2, <3>1, FS_EmptySet DEF Of
  <2>7. (\A m \in Of(sub, l) : K[m] < K[n]) /\ (\A m \in Of(sub, r) : K[n] < K[m])
    <3>1. \A s \in Side : \A m \in Of(sub, t.children[n][s]) : Before(s, K[m], K[n])
      BY <2>3 DEF Ordered, Nested
    <3>. QED  BY <2>4, <3>1 DEF Before, Left, Right
  <2>8. f[n] = f[l] \o <<n>> \o f[r]
    BY <1>1, <1>3, <2>3
  <2> HIDE DEF l, r, B
  <2>9. Lists(K, Of(sub, l), f[l]) /\ IsFiniteSet(Of(sub, l))
    BY <2>5, <2>6
  <2>10. Lists(K, Of(sub, r), f[r]) /\ IsFiniteSet(Of(sub, r))
    BY <2>5, <2>6
  <2>11. Lists(K, {n} \cup Of(sub, l) \cup Of(sub, r), f[l] \o <<n>> \o f[r])
    BY <2>5, <2>7, <2>9, <2>10, ListsJoin
  <2>. QED  BY <2>3, <2>5, <2>8, <2>11
<1>5. CASE t.root = Nil
  <2>1. D = {}
    BY <1>5 DEF Ordered, Nested
  <2>. QED  BY <1>1, <1>2, <1>5, <2>1
<1>6. CASE t.root # Nil
  <2>1. t.root \in D /\ sub[t.root] = D
    BY <1>6, LinkTypes DEF Ordered, Nested, Keyed
  <2>. QED  BY <1>1, <1>4, <2>1
<1>. QED  BY <1>5, <1>6

-----------------------------------------------------------------------------
(* The invariant.                                                          *)

EntriesTyped(e) == \A n \in DOMAIN e : <<e[n].key, e[n].value>> \in Entries

Built(t, e, r) ==
  \E sub, old : /\ Ordered(t, DOMAIN e, KeyOf(e), sub)
                /\ Level(t, DOMAIN e, sub, r, old)

(* The tree is ordered and all of it is even but the nodes balancing has yet
   to visit; a new node is not counted before the end of its insertion.      *)
IInv ==
  /\ Built(tree, entry, rover)
  /\ EntriesTyped(entry)
  /\ op \in {"none", "insert", "remove"}
  /\ op = "none" => rover = Nil
  /\ num_nodes \in Nat
  /\ Cardinality(DOMAIN entry) = IF op = "insert" THEN num_nodes + 1 ELSE num_nodes

(* Where balancing visits no node, all are even.                            *)
LEMMA AllEven ==
  ASSUME NEW t, NEW D, NEW K, NEW sub, NEW old, Ordered(t, D, K, sub), Level(t, D, sub, Nil, old)
  PROVE  \A m \in D : Even(t, m)
<1>1. Nil \notin D /\ \A m \in D : sub[m] \in SUBSET D
  BY LinkTypes DEF Ordered, Keyed, Nested
<1>2. \A m \in D : m \notin Above(D, sub, Nil)
  BY <1>1 DEF Above
<1>. QED  BY <1>2 DEF Level

(* The empty tree is built.                                                 *)
LEMMA EmptyBuilt ==
  ASSUME NEW e, DOMAIN e = {}
  PROVE  Built(Empty, e, Nil)
<1> DEFINE none == [m \in {} |-> {}]
<1>1. Nil \notin Nodes
  BY AvlTreeAssumption
<1>2. Keyed({}, KeyOf(e))
  BY FS_EmptySet DEF Keyed, KeyOf
<1>3. Leafless \in [Side -> {} \cup {Nil}]
  BY DEF Leafless
<1>4. Typed(Empty, {})
  BY <1>3 DEF Empty, Typed, Shaped
<1>5. Linked(Empty, {})
  BY DEF Linked
<1>6. Nested(Empty, {}, KeyOf(e), none)
  BY DEF Nested, Empty
<1>7. Level(Empty, {}, none, Nil, none)
  BY DEF Level, Above
<1>8. Ordered(Empty, DOMAIN e, KeyOf(e), none) /\ Level(Empty, DOMAIN e, none, Nil, none)
  BY <1>2, <1>4, <1>5, <1>6, <1>7 DEF Ordered
<1>. QED  BY <1>8 DEF Built

(* The invariant holds before the first operation.                          *)
LEMMA InitHolds == Init => IInv
<1> SUFFICES ASSUME Init PROVE IInv
  OBVIOUS
<1>1. DOMAIN entry = {}
  BY DEF Init
<1>2. Cardinality(DOMAIN entry) = 0
  BY <1>1, FS_EmptySet
<1>3. Built(tree, entry, rover)
  BY <1>1, EmptyBuilt DEF Init
<1>. QED  BY <1>1, <1>2, <1>3 DEF Init, IInv, EntriesTyped

(* What a lookup finds and does not find.                                   *)
LEMMA Found ==
  ASSUME IInv, NEW k \in Keys
  PROVE  /\ LookupNode(k) # Nil => LookupNode(k) \in DOMAIN entry /\ entry[LookupNode(k)].key = k
         /\ LookupNode(k) = Nil => \A n \in DOMAIN entry : entry[n].key # k
<1>1. k \in Int
  BY AvlTreeAssumption
<1>2. PICK sub : Ordered(tree, DOMAIN entry, KeyOf(entry), sub)
  BY DEF IInv, Built
<1>3. LookupNode(k) = Lookup(tree, entry, k)
  BY LookupState
<1>4. /\ Lookup(tree, entry, k) \in DOMAIN entry \cup {Nil}
      /\ Lookup(tree, entry, k) # Nil => KeyOf(entry)[Lookup(tree, entry, k)] = k
      /\ Lookup(tree, entry, k) = Nil => \A n \in DOMAIN entry : KeyOf(entry)[n] # k
  BY <1>1, <1>2, LookupIs
<1>. QED  BY <1>3, <1>4 DEF KeyOf

(* Overwriting an entry keeps the invariant: its key stays.                 *)
LEMMA OverwriteHolds ==
  ASSUME IInv, NEW e \in Entries, Overwrite(e)
  PROVE  IInv'
<1>1. e = <<e[1], e[2]>> /\ e[1] \in Keys
  BY AvlTreeAssumption
<1> DEFINE n == LookupNode(e[1])
<1>2. n \in DOMAIN entry /\ entry[n].key = e[1]
  BY <1>1, Found DEF Overwrite
<1> HIDE DEF n
<1>3. /\ entry' = [entry EXCEPT ![n] = [key |-> e[1], value |-> e[2]]]
      /\ UNCHANGED <<tree, num_nodes, rover, op>>
  BY DEF Overwrite, n
<1>4. DOMAIN entry' = DOMAIN entry
  BY <1>3
<1>5. \A m \in DOMAIN entry : entry'[m] = IF m = n THEN [key |-> e[1], value |-> e[2]] ELSE entry[m]
  BY <1>3
<1>6. KeyOf(entry') = KeyOf(entry)
  BY <1>2, <1>4, <1>5 DEF KeyOf
<1>7. EntriesTyped(entry')
  BY <1>1, <1>4, <1>5 DEF EntriesTyped, IInv
<1>8. Built(tree', entry', rover')
  BY <1>3, <1>4, <1>6 DEF Built, IInv
<1>. QED  BY <1>3, <1>4, <1>7, <1>8 DEF IInv

(* An insertion links a node where its key belongs.                         *)
LEMMA InsertHolds ==
  ASSUME IInv, NEW e \in Entries, Insert(e)
  PROVE  IInv'
<1> DEFINE k == e[1]
           D == DOMAIN entry
           p == Previous(k)
           n == Fresh(k)
           s == Toward(k, p)
<1>1. e = <<e[1], e[2]>> /\ k \in Keys /\ k \in Int /\ k \in Nodes
  BY AvlTreeAssumption
<1>2. /\ op = "none" /\ rover = Nil /\ D # Nodes
      /\ tree' = Grown(tree, n, p, s)
      /\ rover' = p
      /\ entry' = [m \in D \cup {n} |-> IF m = n THEN [key |-> k, value |-> e[2]] ELSE entry[m]]
      /\ op' = "insert" /\ num_nodes' = num_nodes
  BY DEF Insert, Grown, IInv
<1>3. \A m \in D : entry[m].key # k
  BY <1>1, Found DEF Insert
<1>4. PICK sub, old : Ordered(tree, D, KeyOf(entry), sub) /\ Level(tree, D, sub, Nil, old)
  BY <1>2 DEF IInv, Built
<1>5. D \subseteq Nodes /\ IsFiniteSet(D) /\ Shaped(tree, D)
  BY <1>4 DEF Ordered, Keyed, Typed
<1>6. \A m \in D : Even(tree, m)
  BY <1>4, AllEven
<1>7. n \in Nodes \ D
  BY <1>1, <1>2, <1>5 DEF Fresh
<1>8. p = Last(tree, entry, k) /\ s = Turn(k, entry[p].key)
  BY LastState DEF Toward, Turn
<1>9. \A m \in D : KeyOf(entry)[m] = entry[m].key
  BY DEF KeyOf
<1> HIDE DEF k, D, p, n, s
<1>10. Vacant(tree, D, KeyOf(entry), sub, p, s, k)
  <2>1. \A m \in D : KeyOf(entry)[m] # k
    BY <1>3, <1>9
  <2>. QED  BY <1>1, <1>4, <1>8, <2>1, LastVacant DEF D
<1>11. p \in D \cup {Nil} /\ (p # Nil => s \in Side)
  BY <1>10 DEF Vacant
<1>12. Shaped(tree', D \cup {n}) /\ Grows(tree, tree', n, p, s)
  BY <1>2, <1>5, <1>7, <1>11, GrownIs
<1>13. DOMAIN entry' = D \cup {n}
  BY <1>2
<1>14. /\ entry'[n] = [key |-> k, value |-> e[2]]
       /\ \A m \in D : entry'[m] = entry[m]
  BY <1>2, <1>7
<1>15. /\ KeyOf(entry') \in [D \cup {n} -> Int] /\ KeyOf(entry')[n] = k
       /\ \A m \in D : KeyOf(entry')[m] = KeyOf(entry)[m]
  <2>1. \A m \in D : KeyOf(entry)[m] \in Int
    BY <1>4 DEF Ordered, Keyed
  <2>2. KeyOf(entry') = [m \in D \cup {n} |-> entry'[m].key]
    BY <1>13 DEF KeyOf
  <2>3. /\ \A m \in D : entry'[m].key = KeyOf(entry)[m]
        /\ entry'[n].key = k
    BY <1>9, <1>14
  <2>4. \A m \in D \cup {n} : entry'[m].key \in Int
    BY <1>1, <2>1, <2>3
  <2>. QED  BY <2>2, <2>3, <2>4
<1>16. Ordered(tree', DOMAIN entry', KeyOf(entry'), Widened(D, sub, n, p))
  BY <1>1, <1>4, <1>7, <1>10, <1>12, <1>13, <1>15, GrowOrdered
<1>17. Level(tree', DOMAIN entry', Widened(D, sub, n, p), rover', Heights(tree, D))
  BY <1>2, <1>4, <1>6, <1>7, <1>10, <1>12, <1>13, GrowLevel
<1>18. Built(tree', entry', rover')
  BY <1>16, <1>17 DEF Built
<1>19. EntriesTyped(entry')
  BY <1>1, <1>13, <1>14 DEF EntriesTyped, IInv, D, k
<1>20. num_nodes' \in Nat /\ Cardinality(DOMAIN entry') = num_nodes' + 1
  <2>1. Cardinality(D) = num_nodes /\ num_nodes \in Nat
    BY <1>2 DEF IInv, D
  <2>2. Cardinality(D \cup {n}) = Cardinality(D) + 1
    BY <1>5, <1>7, FS_AddElement
  <2>. QED  BY <1>2, <1>13, <2>1, <2>2
<1>. QED  BY <1>2, <1>18, <1>19, <1>20 DEF IInv

(* A removal leaves the other nodes in order.                               *)
LEMMA RemoveHolds ==
  ASSUME IInv, NEW k \in Keys, Remove(k)
  PROVE  IInv'
<1> DEFINE D == DOMAIN entry
           n == LookupNode(k)
           K == KeyOf(entry)
<1>1. /\ op = "none" /\ rover = Nil /\ n \in D
      /\ tree' = Blank(Unlink(tree, n).tree, n)
      /\ rover' = Unlink(tree, n).start
      /\ entry' = [m \in D \ {n} |-> entry[m]]
      /\ op' = "remove" /\ num_nodes' = num_nodes - 1
  BY Found DEF Remove, Blank, IInv
<1>2. PICK sub, old : Ordered(tree, D, K, sub) /\ Level(tree, D, sub, Nil, old)
  BY <1>1 DEF IInv, Built
<1>3. IsFiniteSet(D)
  BY <1>2 DEF Ordered, Keyed
<1>4. \A m \in D : Even(tree, m)
  BY <1>2, AllEven
<1>5. KeyOf(entry') = [m \in D \ {n} |-> K[m]]
  BY <1>1 DEF KeyOf
<1> HIDE DEF D, n, K
<1>6. Removes(D, K, n, tree', rover')
  BY <1>1, <1>2, <1>4, UnlinkRemoves
<1>7. DOMAIN entry' = D \ {n}
  BY <1>1
<1>8. Built(tree', entry', rover')
  BY <1>5, <1>6, <1>7 DEF Removes, Built
<1>9. EntriesTyped(entry')
  BY <1>1, <1>7 DEF EntriesTyped, IInv, D
<1>10. num_nodes' \in Nat /\ Cardinality(DOMAIN entry') = num_nodes'
  <2>1. Cardinality(D) = num_nodes /\ num_nodes \in Nat
    BY <1>1 DEF IInv, D
  <2>2. IsFiniteSet(D \ {n}) /\ Cardinality(D \ {n}) = Cardinality(D) - 1
    BY <1>1, <1>3, FS_RemoveElement
  <2>3. Cardinality(D \ {n}) \in Nat
    BY <2>2, FS_CardinalityType
  <2>. QED  BY <1>1, <1>7, <2>1, <2>2, <2>3
<1>. QED  BY <1>1, <1>8, <1>9, <1>10 DEF IInv

(* Balancing a node keeps the order and goes on above it.                   *)
LEMMA BalanceHolds ==
  ASSUME IInv, BalanceNode
  PROVE  IInv'
<1> DEFINE D == DOMAIN entry
           K == KeyOf(entry)
           u == Balance(tree, rover).tree
           top == Balance(tree, rover).top
           a == Height(tree, tree.children[rover][Left])
           b == Height(tree, tree.children[rover][Right])
<1>1. /\ rover # Nil /\ op # "none" /\ tree' = u /\ rover' = u.parent[top]
      /\ UNCHANGED <<entry, num_nodes, op>>
  BY DEF BalanceNode, IInv
<1>2. PICK sub, old : Ordered(tree, D, K, sub) /\ Level(tree, D, sub, rover, old)
  BY DEF IInv, Built
<1> HIDE DEF D, K
<1>3. /\ rover \in D /\ EvenBelow(tree, sub, rover)
      /\ a \in Nat /\ b \in Nat /\ a - b \in -2 .. 2
      /\ \A h \in {IF a > b THEN a ELSE b, (IF a > b THEN a ELSE b) + 1} :
           (a - b \in -1 .. 1 => h = (IF a > b THEN a ELSE b) + 1)
             => h - Was(old[rover]) \in -1 .. 1
  BY <1>1, <1>2, LevelAt
<1>4. /\ \E new : Settled(tree, D, K, sub, rover, u, top, new)
      /\ a - b \in -1 .. 1 => u.height[top] = (IF a > b THEN a ELSE b) + 1
      /\ u.height[top] \in {IF a > b THEN a ELSE b, (IF a > b THEN a ELSE b) + 1}
  BY <1>2, <1>3, BalanceSettles
<1> HIDE DEF u, top, a, b
<1>5. u.height[top] - Was(old[rover]) \in -1 .. 1
  BY <1>3, <1>4
<1>6. PICK new : Settled(tree, D, K, sub, rover, u, top, new)
  BY <1>4
<1>7. u.parent[top] = tree.parent[rover] /\ Ordered(u, D, K, new)
  BY <1>6 DEF Settled
<1>8. Level(u, D, new, tree.parent[rover], old)
  BY <1>2, <1>3, <1>5, <1>6, SettledLevel
<1>9. Built(tree', entry', rover')
  BY <1>1, <1>7, <1>8 DEF Built, D, K
<1>. QED  BY <1>1, <1>9 DEF IInv

(* Freeing reaches every node.                                              *)
LEMMA FreeHolds ==
  ASSUME IInv, Free
  PROVE  DOMAIN entry' = {} /\ IInv'
<1>1. /\ op = "none" /\ rover = Nil /\ tree' = Empty /\ num_nodes' = 0
      /\ entry' = [m \in DOMAIN entry \ {InOrder[i] : i \in DOMAIN InOrder} |-> entry[m]]
      /\ UNCHANGED <<rover, op>>
  BY DEF Free, IInv
<1>2. PICK sub : Ordered(tree, DOMAIN entry, KeyOf(entry), sub)
  BY DEF IInv, Built
<1>3. {InOrder[i] : i \in DOMAIN InOrder} = DOMAIN entry
  BY <1>2, WalkedLists, WalkedState DEF Lists
<1>4. DOMAIN entry' = {}
  BY <1>1, <1>3
<1>5. Built(tree', entry', rover')
  BY <1>1, <1>4, EmptyBuilt
<1>6. Cardinality(DOMAIN entry') = 0
  BY <1>4, FS_EmptySet
<1>. QED  BY <1>1, <1>4, <1>5, <1>6 DEF IInv, EntriesTyped

(* The end of an operation counts a new node.                               *)
LEMMA FinishHolds ==
  ASSUME IInv, Finish
  PROVE  IInv'
BY DEF IInv, Finish

(* The invariant holds at every step.                                       *)
LEMMA InvariantHolds == Spec => []IInv
<1>1. Init => IInv
  BY InitHolds
<1>2. IInv /\ [Next]_vars => IInv'
  <2> SUFFICES ASSUME IInv, [Next]_vars PROVE IInv'
    OBVIOUS
  <2>1. ASSUME NEW e \in Entries, Overwrite(e) PROVE IInv'
    BY <2>1, OverwriteHolds
  <2>2. ASSUME NEW e \in Entries, Insert(e) PROVE IInv'
    BY <2>2, InsertHolds
  <2>3. ASSUME NEW k \in Keys, Remove(k) PROVE IInv'
    BY <2>3, RemoveHolds
  <2>4. CASE BalanceNode
    BY <2>4, BalanceHolds
  <2>5. CASE Finish
    BY <2>5, FinishHolds
  <2>6. CASE Free
    BY <2>6, FreeHolds
  <2>7. CASE UNCHANGED vars
    BY <2>7 DEF IInv, vars
  <2>. QED  BY <2>1, <2>2, <2>3, <2>4, <2>5, <2>6, <2>7 DEF Next
<1>. QED  BY <1>1, <1>2, PTL DEF Spec

-----------------------------------------------------------------------------
(* The properties.                                                         *)

(* Links lead to nodes in use, and balancing never stands on a freed node.  *)
THEOREM Typing == Spec => []TypeOK
<1>1. IInv => TypeOK
  <2> SUFFICES ASSUME IInv PROVE TypeOK
    OBVIOUS
  <2> DEFINE D == DOMAIN entry
  <2>1. PICK sub, old : Ordered(tree, D, KeyOf(entry), sub) /\ Level(tree, D, sub, rover, old)
    BY DEF IInv, Built
  <2>2. D \subseteq Nodes /\ Typed(tree, D) /\ Shaped(tree, D)
    BY <2>1 DEF Ordered, Keyed, Typed
  <2>3. /\ tree.root \in D \cup {Nil}
        /\ \A n \in Nodes : tree.parent[n] \in D \cup {Nil} /\ tree.height[n] \in Nat
    BY <2>2, LinkTypes
  <2>4. \A n \in Nodes : tree.children[n] \in [Side -> D \cup {Nil}]
    BY <2>2 DEF Shaped
  <2>5. rover \in D \cup {Nil}
    BY <2>1 DEF Level
  <2> HIDE DEF D
  <2>6. \A n \in D : <<entry[n].key, entry[n].value>> \in Entries
    BY DEF IInv, EntriesTyped, D
  <2>7. num_nodes \in Nat /\ op \in {"none", "insert", "remove"}
    BY DEF IInv
  <2>. QED  BY <2>2, <2>3, <2>4, <2>5, <2>6, <2>7 DEF TypeOK, D
<1>. QED  BY <1>1, InvariantHolds, PTL

(* At every step of an operation children and parents name each other, only the
   root has no parent, and all nodes that balancing does not visit any more
   have exact heights and subtrees that differ by at most one.               *)
THEOREM Balanced == Spec => []TreeBalanced
<1>1. IInv => TreeBalanced
  <2> SUFFICES ASSUME IInv PROVE TreeBalanced
    OBVIOUS
  <2>1. PICK sub, old : /\ Ordered(tree, DOMAIN entry, KeyOf(entry), sub)
                        /\ Level(tree, DOMAIN entry, sub, rover, old)
    BY DEF IInv, Built
  <2>2. LinksAgree
    BY <2>1 DEF Ordered, Linked, LinksAgree
  <2>3. Above(DOMAIN entry, sub, rover) \subseteq Unvisited
    <3>1. rover \in DOMAIN entry \cup {Nil}
      BY <2>1 DEF Level
    <3>. QED  BY <2>1, <3>1, VisitsAbove, VisitsState
  <2>4. \A n \in DOMAIN entry \ Unvisited : Even(tree, n)
    BY <2>1, <2>3 DEF Level
  <2>5. BalancedBelow
    BY <2>4 DEF Even, Tall, BalancedBelow
  <2>. QED  BY <2>2, <2>5 DEF TreeBalanced
<1>. QED  BY <1>1, InvariantHolds, PTL

(* Between operations num_nodes is the number of nodes the walks by index
   reach, which come in the order of their keys, none left out.              *)
THEOREM Indexed == Spec => []IndexOrder
<1>1. IInv => IndexOrder
  <2> SUFFICES ASSUME IInv, op = "none" PROVE IndexOrder
    BY DEF IndexOrder
  <2>1. PICK sub : Ordered(tree, DOMAIN entry, KeyOf(entry), sub)
    BY DEF IInv, Built
  <2>2. Lists(KeyOf(entry), DOMAIN entry, InOrder)
    BY <2>1, WalkedLists, WalkedState
  <2>3. num_nodes = Len(InOrder)
    BY <2>2 DEF Lists, IInv
  <2>4. DOMAIN entry = {InOrder[i] : i \in DOMAIN InOrder}
    BY <2>2 DEF Lists
  <2>5. ASSUME NEW i \in 1 .. Len(InOrder) - 1
        PROVE  entry[InOrder[i]].key < entry[InOrder[i + 1]].key
    <3>1. InOrder \in Seq(DOMAIN entry)
      BY <2>2 DEF Lists
    <3>2. InOrder[i] \in DOMAIN entry /\ InOrder[i + 1] \in DOMAIN entry
      BY <3>1
    <3>3. KeyOf(entry)[InOrder[i]] < KeyOf(entry)[InOrder[i + 1]]
      BY <2>2 DEF Lists
    <3>. QED  BY <3>2, <3>3 DEF KeyOf
  <2>. QED  BY <2>3, <2>4, <2>5 DEF IndexOrder
<1>. QED  BY <1>1, InvariantHolds, PTL

-----------------------------------------------------------------------------
(* Implementing a map.                                                     *)

(* Map c has the entries e.                                                 *)
Holds(e, c) ==
  /\ c = [k \in DOMAIN c |-> c[k]]
  /\ DOMAIN c = {e[n].key : n \in DOMAIN e}
  /\ \A n \in DOMAIN e : c[e[n].key] = e[n].value

(* No two nodes have the same key.                                          *)
LEMMA KeysDistinct ==
  ASSUME IInv, NEW m \in DOMAIN entry, NEW n \in DOMAIN entry, entry[m].key = entry[n].key
  PROVE  m = n
<1>1. PICK sub : Ordered(tree, DOMAIN entry, KeyOf(entry), sub)
  BY DEF IInv, Built
<1>2. KeyOf(entry)[m] = KeyOf(entry)[n]
  BY DEF KeyOf
<1>. QED  BY <1>1, <1>2, Distinct

(* What lookups find are the entries.                                       *)
LEMMA ContentsHold == IInv => Holds(entry, Contents)
<1> SUFFICES ASSUME IInv PROVE Holds(entry, Contents)
  OBVIOUS
<1>1. \A n \in DOMAIN entry : entry[n].key \in Keys
  <2> SUFFICES ASSUME NEW n \in DOMAIN entry PROVE entry[n].key \in Keys
    OBVIOUS
  <2>1. <<entry[n].key, entry[n].value>> \in Entries
    BY DEF IInv, EntriesTyped
  <2>2. <<entry[n].key, entry[n].value>>[1] \in Keys
    BY <2>1, AvlTreeAssumption
  <2>. QED  BY <2>2
<1>2. PICK sub : Ordered(tree, DOMAIN entry, KeyOf(entry), sub)
  BY DEF IInv, Built
<1>4. \A n \in DOMAIN entry : LookupNode(entry[n].key) = n
  <2> SUFFICES ASSUME NEW n \in DOMAIN entry PROVE LookupNode(entry[n].key) = n
    OBVIOUS
  <2>. QED  BY <1>1, KeysDistinct, Found
<1>5. Nil \notin DOMAIN entry
  BY <1>2, LinkTypes DEF Ordered, Keyed
<1>6. {l \in Keys : LookupNode(l) # Nil} = {entry[n].key : n \in DOMAIN entry}
  BY <1>1, <1>4, <1>5, Found
<1>7. /\ Contents = [k \in DOMAIN Contents |-> Contents[k]]
      /\ DOMAIN Contents = {l \in Keys : LookupNode(l) # Nil}
      /\ \A k \in {l \in Keys : LookupNode(l) # Nil} : Contents[k] = entry[LookupNode(k)].value
  BY DEF Contents
<1>. QED  BY <1>1, <1>4, <1>5, <1>6, <1>7 DEF Holds

(* The entries say what the map is.                                         *)
LEMMA HoldsOne ==
  ASSUME NEW e, NEW c, NEW d, Holds(e, c), Holds(e, d)
  PROVE  c = d
<1>1. DOMAIN c = DOMAIN d /\ \A k \in DOMAIN c : c[k] = d[k]
  BY DEF Holds
<1>. QED  BY <1>1 DEF Holds

(* Overwriting changes what one key is mapped to.                           *)
LEMMA OverwriteMaps ==
  ASSUME IInv, Holds(entry, Contents), Holds(entry', Contents'), NEW e \in Entries, Overwrite(e)
  PROVE  Map!Insert(Contents, Contents', e)
<1> DEFINE k == e[1]
           n == LookupNode(k)
           D == DOMAIN entry
           d == [l \in DOMAIN Contents \cup {k} |-> IF l = k THEN e[2] ELSE Contents[l]]
<1>1. n \in D /\ entry[n].key = k
  BY AvlTreeAssumption, Found DEF Overwrite
<1>2. entry' = [entry EXCEPT ![n] = [key |-> k, value |-> e[2]]]
  BY DEF Overwrite
<1> HIDE DEF n, k
<1>3. /\ DOMAIN entry' = D
      /\ \A m \in D : /\ entry'[m].key = entry[m].key
                     /\ entry'[m].value = IF m = n THEN e[2] ELSE entry[m].value
  BY <1>1, <1>2
<1>4. \A m \in D : entry[m].key = k => m = n
  BY <1>1, KeysDistinct
<1>5. /\ DOMAIN Contents = {entry[m].key : m \in D}
      /\ \A m \in D : Contents[entry[m].key] = entry[m].value
  BY DEF Holds
<1> HIDE DEF D
<1>6. DOMAIN d = {entry'[m].key : m \in D}
  BY <1>1, <1>3, <1>5
<1>7. \A m \in D : d[entry'[m].key] = entry'[m].value
  BY <1>1, <1>3, <1>4, <1>5
<1>8. d = [l \in DOMAIN d |-> d[l]]
  OBVIOUS
<1> HIDE DEF d
<1>9. Holds(entry', d)
  BY <1>3, <1>6, <1>7, <1>8 DEF Holds
<1>10. Contents' = d
  BY <1>9, HoldsOne
<1>. QED  BY <1>10 DEF Map!Insert, d, k

(* An insertion maps one key more.                                          *)
LEMMA InsertMaps ==
  ASSUME IInv, Holds(entry, Contents), Holds(entry', Contents'), NEW e \in Entries, Insert(e)
  PROVE  Map!Insert(Contents, Contents', e)
<1> DEFINE k == e[1]
           n == Fresh(k)
           D == DOMAIN entry
           d == [l \in DOMAIN Contents \cup {k} |-> IF l = k THEN e[2] ELSE Contents[l]]
<1>1. \A m \in D : entry[m].key # k
  BY AvlTreeAssumption, Found DEF Insert
<1>2. n \notin D
  <2>1. D \subseteq Nodes /\ D # Nodes
    BY DEF IInv, Built, Ordered, Keyed, Insert
  <2>. QED  BY <2>1 DEF Fresh
<1>3. entry' = [m \in D \cup {n} |-> IF m = n THEN [key |-> k, value |-> e[2]] ELSE entry[m]]
  BY DEF Insert
<1> HIDE DEF n, k
<1>4. /\ DOMAIN entry' = D \cup {n}
      /\ entry'[n].key = k /\ entry'[n].value = e[2]
      /\ \A m \in D : entry'[m].key = entry[m].key /\ entry'[m].value = entry[m].value
  BY <1>2, <1>3
<1>5. /\ DOMAIN Contents = {entry[m].key : m \in D}
      /\ \A m \in D : Contents[entry[m].key] = entry[m].value
  BY DEF Holds
<1> HIDE DEF D
<1>6. DOMAIN d = {entry'[m].key : m \in D \cup {n}}
  BY <1>4, <1>5
<1>7. \A m \in D \cup {n} : d[entry'[m].key] = entry'[m].value
  BY <1>1, <1>4, <1>5
<1>8. d = [l \in DOMAIN d |-> d[l]]
  OBVIOUS
<1> HIDE DEF d
<1>9. Holds(entry', d)
  BY <1>4, <1>6, <1>7, <1>8 DEF Holds
<1>10. Contents' = d
  BY <1>9, HoldsOne
<1>. QED  BY <1>10 DEF Map!Insert, d, k

(* A removal takes one key out of the map.                                  *)
LEMMA RemoveMaps ==
  ASSUME IInv, Holds(entry, Contents), Holds(entry', Contents'), NEW k \in Keys, Remove(k)
  PROVE  Map!Remove(Contents, Contents', k)
<1> DEFINE n == LookupNode(k)
           D == DOMAIN entry
           d == [l \in DOMAIN Contents \ {k} |-> Contents[l]]
<1>1. n \in D /\ entry[n].key = k
  BY Found DEF Remove
<1>2. entry' = [m \in D \ {n} |-> entry[m]]
  BY DEF Remove
<1> HIDE DEF n
<1>3. DOMAIN entry' = D \ {n} /\ \A m \in D \ {n} : entry'[m] = entry[m]
  BY <1>2
<1>4. \A m \in D : entry[m].key = k => m = n
  BY <1>1, KeysDistinct
<1>5. /\ DOMAIN Contents = {entry[m].key : m \in D}
      /\ \A m \in D : Contents[entry[m].key] = entry[m].value
  BY DEF Holds
<1> HIDE DEF D
<1>6. DOMAIN d = {entry'[m].key : m \in D \ {n}}
  BY <1>1, <1>3, <1>4, <1>5
<1>7. \A m \in D \ {n} : d[entry'[m].key] = entry'[m].value
  BY <1>3, <1>4, <1>5
<1>8. d = [l \in DOMAIN d |-> d[l]]
  OBVIOUS
<1> HIDE DEF d
<1>9. Holds(entry', d)
  BY <1>3, <1>6, <1>7, <1>8 DEF Holds
<1>10. Contents' = d
  BY <1>9, HoldsOne
<1>11. k \in DOMAIN Contents
  BY <1>1, <1>5
<1>. QED  BY <1>10, <1>11 DEF Map!Remove, d

(* A map without entries is the empty map.                                  *)
LEMMA HoldsNone ==
  ASSUME NEW e, NEW c, DOMAIN e = {}, Holds(e, c)
  PROVE  c = <<>>
<1>1. DOMAIN c = {} /\ c = [k \in DOMAIN c |-> c[k]]
  BY DEF Holds
<1>2. <<>> = [k \in {} |-> c[k]]
  OBVIOUS
<1>. QED  BY <1>1, <1>2

(* A step that leaves tree and entries changes no lookup.                   *)
LEMMA BalanceMaps ==
  ASSUME Holds(entry, Contents), Holds(entry', Contents'), entry' = entry
  PROVE  Contents' = Contents
BY HoldsOne

(* Lookups see a map that every operation changes by its own entry, at once:
   rotations move nodes and lose none.                                      *)
THEOREM TreeIsMap == Spec => ImplementsMap
<1>1. Init => Map!Init
  <2> SUFFICES ASSUME Init PROVE Map!Init
    OBVIOUS
  <2>1. Holds(entry, Contents)
    BY InitHolds, ContentsHold
  <2>2. DOMAIN entry = {}
    BY DEF Init
  <2>. QED  BY <2>1, <2>2, HoldsNone DEF Map!Init
<1>2. IInv /\ IInv' /\ [Next]_vars => [Map!Next]_Contents
  <2> SUFFICES ASSUME IInv, IInv', [Next]_vars
               PROVE  Map!Change(Contents, Contents') \/ Contents' = Contents
    BY DEF Map!Next
  <2>1. Holds(entry, Contents) /\ Holds(entry', Contents')
    <3>1. Holds(entry, Contents)
      BY ContentsHold
    <3>2. (IInv => Holds(entry, Contents))'
      BY ContentsHold, PTL
    <3>. QED  BY <3>1, <3>2
  <2>2. ASSUME NEW e \in Entries, Overwrite(e) PROVE Map!Change(Contents, Contents')
    BY <2>1, <2>2, OverwriteMaps DEF Map!Change
  <2>3. ASSUME NEW e \in Entries, Insert(e) PROVE Map!Change(Contents, Contents')
    BY <2>1, <2>3, InsertMaps DEF Map!Change
  <2>4. ASSUME NEW k \in Keys, Remove(k) PROVE Map!Change(Contents, Contents')
    BY <2>1, <2>4, RemoveMaps DEF Map!Change
  <2>5. CASE BalanceNode
    BY <2>1, <2>5, BalanceMaps DEF BalanceNode
  <2>6. CASE Finish
    BY <2>1, <2>6, BalanceMaps DEF Finish
  <2>7. CASE Free
    BY <2>1, <2>7, FreeHolds, HoldsNone DEF Map!Change
  <2>8. CASE UNCHANGED vars
    BY <2>1, <2>8, BalanceMaps DEF vars
  <2>. QED  BY <2>2, <2>3, <2>4, <2>5, <2>6, <2>7, <2>8 DEF Next
<1>. QED  BY <1>1, <1>2, InvariantHolds, PTL DEF Spec, ImplementsMap, Map!Spec
=============================================================================
