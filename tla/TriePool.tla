------------------------------ MODULE TriePool ------------------------------
(***************************************************************************)
(* The table a pooled box carries: strpool_write_tail turns the strings of *)
(* the pool into a trie of nodes [parent, ch, leaf] written in order of    *)
(* creation (src/source/tinybuf_strpool.c), and a reader resolves an index *)
(* by finding the node that carries it and climbing to the root.  Two      *)
(* readers exist: the one for type names of id boxes                       *)
(* (src/source/tinybuf_read_box.c) and the one for string values           *)
(* (src/source/tinybuf_deserialize.c).                                     *)
(***************************************************************************)
EXTENDS Naturals, Sequences

CONSTANTS
  Chars,       (* the characters of names and strings (none is the NUL byte) *)
  NoChar,      (* the NUL byte, the character of the root                   *)
  MaxString,   (* bound: the length of a string                             *)
  MaxPool,     (* bound: strings in the pool                                *)
  MaxTmp       (* bound: characters kept of what a reader collects          *)

ASSUME TrieAssumption ==
  /\ NoChar \notin Chars
  /\ MaxString \in Nat /\ MaxPool \in Nat
  /\ MaxTmp \in Nat \ {0} /\ MaxString <= MaxTmp

VARIABLES
  strs,        (* the pool: distinct strings                                *)
  nodes,       (* the trie; the root is nodes[1]                            *)
  i, k,        (* the string and the characters of it inserted so far       *)
  cur,         (* the writer's node, or the reader's                        *)
  tmp,         (* the characters the reader collected, last one first       *)
  idx,         (* the index the reader resolves                             *)
  pc           (* "build", "idle", then the reader's progress               *)

vars == <<strs, nodes, i, k, cur, tmp, idx, pc>>

String == UNION {[1 .. n -> Chars] : n \in 0 .. MaxString}
Pools == {p \in UNION {[1 .. n -> String] : n \in 1 .. MaxPool} :
            \A a, b \in DOMAIN p : p[a] = p[b] => a = b}

(* Mutant of Root: its parent, -1, is written as it is.                     *)
RootUnencoded == [parent |-> 0 - 1, ch |-> NoChar, leaf |-> 0]

(* A node: its parent as the reader gets it (0 for the root, else the C index
   plus one), its character, and the index of the string that ends there plus
   one, 0 if none does.                                                     *)
Root == [parent |-> 0, ch |-> NoChar, leaf |-> 0]

Init == /\ strs \in Pools
        /\ nodes = <<Root>>
        /\ i = 1 /\ k = 0
        /\ cur = 1
        /\ tmp = <<>>
        /\ idx = 0
        /\ pc = "build"

-----------------------------------------------------------------------------
(* strpool_write_tail.  The C index of nodes[n] is n - 1, so the encoded
   parent of a child of nodes[n] is n.                                      *)

(* Mutant of Child: an edge is found at any parent.                          *)
ChildAnywhere(n, c) == {m \in DOMAIN nodes : nodes[m].ch = c}

Child(n, c) == {m \in DOMAIN nodes : nodes[m].parent = n /\ nodes[m].ch = c}

(* One character of the current string: follow the edge or add a node.      *)
InsertChar ==
  /\ pc = "build"
  /\ i <= Len(strs) /\ k < Len(strs[i])
  /\ LET c == strs[i][k + 1]
     IN  IF Child(cur, c) # {}
         THEN /\ cur' = CHOOSE m \in Child(cur, c) : TRUE
              /\ UNCHANGED nodes
         ELSE /\ nodes' = Append(nodes, [parent |-> cur, ch |-> c, leaf |-> 0])
              /\ cur' = Len(nodes) + 1
  /\ k' = k + 1
  /\ UNCHANGED <<strs, i, tmp, idx, pc>>

(* The end of the string: its node becomes the leaf of its index.           *)
EndString ==
  /\ pc = "build"
  /\ i <= Len(strs) /\ k = Len(strs[i])
  /\ nodes' = [nodes EXCEPT ![cur].leaf = i]
  /\ i' = i + 1 /\ k' = 0 /\ cur' = 1
  /\ UNCHANGED <<strs, tmp, idx, pc>>

WriteTable ==
  /\ pc = "build" /\ i = Len(strs) + 1
  /\ pc' = "idle"
  /\ UNCHANGED <<strs, nodes, i, k, cur, tmp, idx>>

-----------------------------------------------------------------------------
(* The readers.                                                            *)

(* Mutant of Leaves: the index is compared with the stored index plus one.  *)
LeavesOff(x) == {n \in DOMAIN nodes : nodes[n].leaf = x}

Leaves(x) == {n \in DOMAIN nodes : nodes[n].leaf = x + 1}
First(S) == CHOOSE n \in S : \A m \in S : n <= m

(* A reader looks for the first leaf of index x, which need not exist in a
   damaged box; to is what it does next.                                    *)
Find(x, to) ==
  /\ pc = "idle"
  /\ idx' = x
  /\ tmp' = <<>>
  /\ IF Leaves(x) = {}
     THEN pc' = "missing" /\ UNCHANGED cur
     ELSE pc' = to /\ cur' = First(Leaves(x))
  /\ UNCHANGED <<strs, nodes, i, k>>

(* tmp after the character of the current node was appended, but for the NUL
   byte; of a longer tmp the bound keeps only the first MaxTmp.             *)
Collected ==
  IF nodes[cur].ch = NoChar \/ Len(tmp) = MaxTmp THEN tmp
                                                 ELSE Append(tmp, nodes[cur].ch)

(* Mutant of ClimbName: the parent is not decoded, as in the string reader.  *)
ClimbNameRaw ==
  /\ pc = "name"
  /\ tmp' = Collected
  /\ IF nodes[cur].parent = 0
     THEN pc' = "named" /\ UNCHANGED cur
     ELSE cur' = nodes[cur].parent + 1 /\ UNCHANGED pc
  /\ UNCHANGED <<strs, nodes, i, k, idx>>

(* One round of the name reader: parent_index = parent - 1, the C index of
   the parent; negative at the root, where it stops.                        *)
ClimbName ==
  /\ pc = "name"
  /\ tmp' = Collected
  /\ IF nodes[cur].parent = 0
     THEN pc' = "named" /\ UNCHANGED cur
     ELSE cur' = nodes[cur].parent /\ UNCHANGED pc
  /\ UNCHANGED <<strs, nodes, i, k, idx>>

(* One round of the string reader: parent_index = parent, taken for the C
   index of the next node, that is nodes[parent + 1]; zero at the root.  A
   round at the bound that comes back to its node changes nothing in the model;
   it is a round of the loop all the same.                                  *)
ClimbString ==
  /\ pc = "string"
  /\ tmp' = Collected
  /\ IF nodes[cur].parent = 0
     THEN pc' = "valued" /\ UNCHANGED cur
     ELSE cur' = nodes[cur].parent + 1 /\ UNCHANGED pc
  /\ UNCHANGED <<strs, nodes, i, k, idx>>

(* The caller goes on to the next reference.                                *)
Return ==
  /\ pc \in {"named", "valued", "missing"}
  /\ pc' = "idle"
  /\ UNCHANGED <<strs, nodes, i, k, cur, tmp, idx>>

Next ==
  \/ InsertChar \/ EndString \/ WriteTable
  \/ \E x \in 0 .. MaxPool : Find(x, "name") \/ Find(x, "string")
  \/ ClimbName \/ ClimbString \/ Return

Spec == Init /\ [][Next]_vars

(* A reader that has started runs on.                                       *)
FairSpec == Spec /\ WF_vars(ClimbName) /\ WF_vars(ClimbString)

-----------------------------------------------------------------------------
(* Properties.                                                             *)

Reverse(s) == [n \in 1 .. Len(s) |-> s[Len(s) + 1 - n]]

Node == [parent : Nat, ch : Chars \cup {NoChar}, leaf : Nat]

(* The trie, the strings and the positions in them have their types.        *)
TypeOK ==
  /\ strs \in Seq(Seq(Chars))
  /\ nodes \in Seq(Node)
  /\ i \in 1 .. Len(strs) + 1 /\ k \in Nat
  /\ cur \in DOMAIN nodes
  /\ tmp \in Seq(Chars)
  /\ idx \in Nat
  /\ pc \in {"build", "idle", "name", "string", "named", "valued", "missing"}

ParentsFirst ==
  \A n \in DOMAIN nodes :
    /\ nodes[n].parent < n
    /\ nodes[n].parent = 0 <=> n = 1
    /\ nodes[n].ch = NoChar <=> n = 1
    /\ \A m \in DOMAIN nodes :
         nodes[n].parent = nodes[m].parent /\ nodes[n].ch = nodes[m].ch => n = m

LeafPerString == \A s \in 1 .. i - 1 : \E n \in DOMAIN nodes : Leaves(s - 1) = {n}

(* The written table is a tree whose parents come first, the root its only
   node without one and without a character, and no parent has two children
   for a character: what lets a reader climb in one direction and the table
   be scanned once per step.  Every string that was inserted ends in a node of
   its own, though strings share prefixes and one may be a prefix of another. *)
TableIsTrie == ParentsFirst /\ LeafPerString

(* A name that is resolved is the name that was pooled under the index, and
   only an index the pool never handed out is missing.                      *)
NameDecoded ==
  /\ pc = "named" => Reverse(tmp) = strs[idx + 1]
  /\ pc = "missing" => idx >= Len(strs)

(* A name that is being resolved gets resolved.                             *)
NameResolves == pc = "name" ~> pc = "named"

(* The same of a string value: what strpool_basic_tests expects of reading a
   pooled map back.                                                         *)
StringResolves == pc = "string" ~> pc = "valued"
=============================================================================
