------------------------------ MODULE AvlTree -------------------------------
(***************************************************************************)
(* The balanced tree that holds the children of maps and arrays            *)
(* (src/source/avl-tree.c): nodes linked both ways, with stored heights.   *)
(* An operation finds its place and changes the links there in one step,   *)
(* then balances one node per step on the way to the root.                 *)
(***************************************************************************)
EXTENDS Integers, FiniteSets, Sequences

CONSTANTS
  Keys,        (* keys, ordered by compare_func                             *)
  Entries,     (* what callers insert: pairs of a key and a value           *)
  Nodes,       (* addresses of nodes                                        *)
  Nil

ASSUME AvlTreeAssumption ==
  /\ Keys \subseteq Int
  /\ \A e \in Entries : e = <<e[1], e[2]>> /\ e[1] \in Keys
  /\ Keys \subseteq Nodes /\ Nil \notin Nodes

VARIABLES
  tree,        (* root_node and the nodes' children, parent and height      *)
  entry,       (* key and value of each node in use                         *)
  num_nodes,
  rover,       (* the node avl_tree_balance_to_root is at                   *)
  op           (* the operation in progress                                 *)

vars == <<tree, entry, num_nodes, rover, op>>

Left == 0                             (* AVL_TREE_NODE_LEFT  *)
Right == 1                            (* AVL_TREE_NODE_RIGHT *)
Side == {Left, Right}
Leafless == [s \in Side |-> Nil]
Empty == [root |-> Nil,
          children |-> [n \in Nodes |-> Leafless],
          parent |-> [n \in Nodes |-> Nil],
          height |-> [n \in Nodes |-> 0]]

Init == /\ tree = Empty
        /\ entry = <<>>
        /\ num_nodes = 0
        /\ rover = Nil
        /\ op = "none"

-----------------------------------------------------------------------------
(* Links and heights.                                                      *)

Height(t, n) == IF n = Nil THEN 0 ELSE t.height[n]

UpdateHeight(t, n) ==
  LET l == Height(t, t.children[n][Left])
      r == Height(t, t.children[n][Right])
  IN  [t EXCEPT !.height[n] = 1 + IF l > r THEN l ELSE r]

ParentSide(t, n) == IF t.children[t.parent[n]][Left] = n THEN Left ELSE Right

(* avl_tree_node_replace: n2, maybe no node, takes the place of n1.         *)
Replace(t, n1, n2) ==
  LET p == t.parent[n1]
      linked == IF n2 = Nil THEN t ELSE [t EXCEPT !.parent[n2] = p]
  IN  IF p = Nil THEN [linked EXCEPT !.root = n2]
      ELSE UpdateHeight([linked EXCEPT !.children[p][ParentSide(t, n1)] = n2], p)

(* avl_tree_rotate: the child away from direction d comes to the top.       *)
Rotate(t, n, d) ==
  LET top == t.children[n][1 - d]
      moved == t.children[top][d]
      turned == [Replace(t, n, top) EXCEPT !.children[n][1 - d] = moved,
                                           !.children[top][d] = n, !.parent[n] = top]
      linked == IF moved = Nil THEN turned ELSE [turned EXCEPT !.parent[moved] = n]
  IN  UpdateHeight(UpdateHeight(linked, top), n)

(* Mutant of Lower: no double rotation.                                     *)
LowerSingly(t, n, s) == Rotate(t, n, 1 - s)

(* The subtree on side s of n is two higher: one rotation, or two when it is
   its inner side that is high.                                             *)
Lower(t, n, s) ==
  LET c == t.children[n][s]
      inner == Height(t, t.children[c][s]) < Height(t, t.children[c][1 - s])
  IN  Rotate(IF inner THEN Rotate(t, c, s) ELSE t, n, 1 - s)

(* avl_tree_node_balance: the tree, and the node now on top.                *)
Balance(t, n) ==
  LET diff == Height(t, t.children[n][Right]) - Height(t, t.children[n][Left])
      b == IF diff >= 2 THEN Lower(t, n, Right)
           ELSE IF diff <= -2 THEN Lower(t, n, Left) ELSE t
      top == IF diff >= 2 \/ diff <= -2 THEN b.parent[n] ELSE n
  IN  [tree |-> UpdateHeight(b, top), top |-> top]

-----------------------------------------------------------------------------
(* Walks.                                                                  *)

Toward(k, n) == IF k < entry[n].key THEN Left ELSE Right

(* avl_tree_lookup_node.                                                    *)
LookupNode(k) ==
  LET Down[n \in Nodes \cup {Nil}] ==
        IF n = Nil THEN Nil ELSE IF entry[n].key = k THEN n
        ELSE Down[tree.children[n][Toward(k, n)]]
  IN  Down[tree.root]

(* The last node the walk of avl_tree_insert visits for a new key.          *)
Previous(k) ==
  LET Down[n \in Nodes \cup {Nil}] ==
        IF n = Nil \/ tree.children[n][Toward(k, n)] = Nil THEN n
        ELSE Down[tree.children[n][Toward(k, n)]]
  IN  Down[tree.root]

(* The nodes in the order of avl_tree_to_array, avl_tree_for_each_node and
   avl_tree_get_node_by_index.                                              *)
InOrder ==
  LET Walk[n \in Nodes \cup {Nil}] ==
        IF n = Nil THEN <<>>
        ELSE Walk[tree.children[n][Left]] \o <<n>> \o Walk[tree.children[n][Right]]
  IN  Walk[tree.root]

-----------------------------------------------------------------------------
(* Operations.                                                             *)

(* An address that is not in use.  Which one makes no difference; the node is
   called like its key, which keeps the trees that TLC tells apart few.     *)
Fresh(k) == IF k \notin DOMAIN entry THEN k
            ELSE CHOOSE n \in Nodes \ DOMAIN entry : TRUE

(* avl_tree_insert of a key that is there: its node gets key and value.     *)
Overwrite(e) ==
  /\ op = "none"
  /\ LET n == LookupNode(e[1])
     IN  n # Nil /\ entry' = [entry EXCEPT ![n] = [key |-> e[1], value |-> e[2]]]
  /\ UNCHANGED <<tree, num_nodes, rover, op>>

(* avl_tree_insert of a new key, before balancing.                          *)
Insert(e) ==
  /\ op = "none"
  /\ DOMAIN entry # Nodes
  /\ LookupNode(e[1]) = Nil
  /\ LET p == Previous(e[1])
         n == Fresh(e[1])
         new == [tree EXCEPT !.children[n] = Leafless, !.parent[n] = p, !.height[n] = 1]
     IN  /\ tree' = IF p = Nil THEN [new EXCEPT !.root = n]
                    ELSE [new EXCEPT !.children[p][Toward(e[1], p)] = n]
         /\ rover' = p
         /\ entry' = [m \in DOMAIN entry \cup {n} |->
                        IF m = n THEN [key |-> e[1], value |-> e[2]] ELSE entry[m]]
  /\ op' = "insert"
  /\ UNCHANGED num_nodes

(* Mutant of Adjacent: the search goes on outwards.                         *)
AdjacentOuter(t, n, s) ==
  LET Down[m \in Nodes] == IF t.children[m][s] = Nil THEN m ELSE Down[t.children[m][s]]
  IN  Down[t.children[n][s]]

(* The node next to n in order, in the subtree on side s.                   *)
Adjacent(t, n, s) ==
  LET Down[m \in Nodes] ==
        IF t.children[m][1 - s] = Nil THEN m ELSE Down[t.children[m][1 - s]]
  IN  Down[t.children[n][s]]

(* Mutant of StartPoint: the old parent, even if it is the removed node.    *)
StartPointParent(t, swap, n) == t.parent[swap]

(* Where balancing starts after swap was unlinked to replace n.             *)
StartPoint(t, swap, n) == IF t.parent[swap] = n THEN swap ELSE t.parent[swap]

(* avl_tree_node_get_replacement and avl_tree_remove_node, up to balancing: the
   tree without n, and where to start.                                      *)
Unlink(t, n) ==
  LET s == IF Height(t, t.children[n][Left]) < Height(t, t.children[n][Right])
           THEN Right ELSE Left
      swap == Adjacent(t, n, s)
      parted == UpdateHeight(Replace(t, swap, t.children[swap][s]), t.parent[swap])
      below == {parted.children[n][i] : i \in Side}
      swapped == [parted EXCEPT
                    !.children[swap] = parted.children[n],
                    !.parent = [m \in Nodes |-> IF m \in below THEN swap ELSE @[m]],
                    !.height[swap] = parted.height[n]]
  IN  IF t.children[n] = Leafless
      THEN [tree |-> Replace(t, n, Nil), start |-> t.parent[n]]
      ELSE [tree |-> Replace(swapped, n, swap), start |-> StartPoint(parted, swap, n)]

(* avl_tree_remove of a key that is there, before balancing; the freed node is
   blank.                                                                   *)
Remove(k) ==
  /\ op = "none"
  /\ LookupNode(k) # Nil
  /\ LET n == LookupNode(k)
         u == Unlink(tree, n)
     IN  /\ tree' = [u.tree EXCEPT !.children[n] = Leafless, !.parent[n] = Nil,
                                   !.height[n] = 0]
         /\ rover' = u.start
         /\ entry' = [m \in DOMAIN entry \ {n} |-> entry[m]]
  /\ num_nodes' = num_nodes - 1
  /\ op' = "remove"

(* An iteration of avl_tree_balance_to_root.                                *)
BalanceNode ==
  /\ rover # Nil
  /\ LET b == Balance(tree, rover)
     IN  tree' = b.tree /\ rover' = b.tree.parent[b.top]
  /\ UNCHANGED <<entry, num_nodes, op>>

(* Mutant of Finish: a new node is not counted.                             *)
FinishUncounted ==
  /\ op # "none" /\ rover = Nil
  /\ op' = "none"
  /\ UNCHANGED <<tree, entry, num_nodes, rover>>

(* The end of avl_tree_insert and avl_tree_remove_node.                     *)
Finish ==
  /\ op # "none" /\ rover = Nil
  /\ num_nodes' = IF op = "insert" THEN num_nodes + 1 ELSE num_nodes
  /\ op' = "none"
  /\ UNCHANGED <<tree, entry, rover>>

(* avl_tree_free, and avl_tree_new for the next tree.                       *)
Free ==
  /\ op = "none" /\ tree.root # Nil
  /\ LET freed == {InOrder[i] : i \in DOMAIN InOrder}
     IN  entry' = [m \in DOMAIN entry \ freed |-> entry[m]]
  /\ tree' = Empty
  /\ num_nodes' = 0
  /\ UNCHANGED <<rover, op>>

Next ==
  \/ \E e \in Entries : Overwrite(e) \/ Insert(e)
  \/ \E k \in Keys : Remove(k)
  \/ BalanceNode \/ Finish \/ Free

Spec == Init /\ [][Next]_vars

-----------------------------------------------------------------------------
(* Properties.                                                             *)

(* Links lead to nodes in use, and balancing never stands on a freed node.  *)
TypeOK ==
  /\ DOMAIN entry \subseteq Nodes
  /\ \A n \in DOMAIN entry : <<entry[n].key, entry[n].value>> \in Entries
  /\ tree.root \in DOMAIN entry \cup {Nil}
  /\ rover \in DOMAIN entry \cup {Nil}
  /\ \A n \in Nodes : /\ tree.parent[n] \in DOMAIN entry \cup {Nil}
                      /\ tree.children[n] \in [Side -> DOMAIN entry \cup {Nil}]
                      /\ tree.height[n] \in Nat
  /\ num_nodes \in Nat
  /\ op \in {"none", "insert", "remove"}

LinksAgree ==
  /\ \A n \in DOMAIN entry : \A s \in Side :
       tree.children[n][s] # Nil => tree.parent[tree.children[n][s]] = n
  /\ \A n \in DOMAIN entry :
       IF n = tree.root THEN tree.parent[n] = Nil
       ELSE /\ tree.parent[n] # Nil
            /\ \E s \in Side : tree.children[tree.parent[n]][s] = n

(* The nodes balancing has yet to visit.                                    *)
Unvisited ==
  LET Up[n \in Nodes \cup {Nil}] == IF n = Nil THEN {} ELSE {n} \cup Up[tree.parent[n]]
  IN  Up[rover]

BalancedBelow ==
  \A n \in DOMAIN entry \ Unvisited :
    LET l == Height(tree, tree.children[n][Left])
        r == Height(tree, tree.children[n][Right])
    IN  /\ l - r \in -1 .. 1
        /\ tree.height[n] = 1 + IF l > r THEN l ELSE r

(* At every step of an operation children and parents name each other, only the
   root has no parent, and every node balancing does not visit any more has its
   exact height and subtrees that differ by at most one: after an operation,
   every node.                                                              *)
TreeBalanced == LinksAgree /\ BalancedBelow

(* Between operations num_nodes is the number of nodes that the walks by index
   reach, and those come in the order of their keys, none left out: what makes
   num_nodes the next free index of an array, and for_each write all children. *)
IndexOrder ==
  op = "none" =>
    /\ num_nodes = Len(InOrder)
    /\ DOMAIN entry = {InOrder[i] : i \in DOMAIN InOrder}
    /\ \A i \in 1 .. Len(InOrder) - 1 : entry[InOrder[i]].key < entry[InOrder[i + 1]].key

(* What lookups find.                                                       *)
Contents ==
  [k \in {l \in Keys : LookupNode(l) # Nil} |-> entry[LookupNode(k)].value]

Map == INSTANCE OrderedMap WITH map <- Contents

(* Lookups see a map that every operation changes by its own entry, at once:
   rotations move nodes and lose none.                                      *)
ImplementsMap == Map!Spec
=============================================================================
