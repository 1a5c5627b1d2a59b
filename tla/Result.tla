------------------------------- MODULE Result --------------------------------
(***************************************************************************)
(* Results and their messages (src/source/tinybuf_result.c,                *)
(* tinybuf_support.c).  A result (tinybuf_error) is a struct that points   *)
(* to a count of references and, once it was given a message, to a list of *)
(* hole strings; a hole string is a row of texts and of other hole strings,*)
(* and a text may have a deleter.  A merge hands the messages of one result*)
(* to another.                                                             *)
(*                                                                         *)
(* A reference is taken through the struct itself or for a copy of it.  The*)
(* copies share the count, but each has a pointer to the list of its own,  *)
(* which no change of another one reaches.  So a client only reads a result*)
(* of which there are copies (Sole): what is added to one of them, or      *)
(* merged from it, would be freed or not by whichever is released last.    *)
(*                                                                         *)
(* A text with a deleter is an element of Texts; a message without one is  *)
(* a constant, stored as itself, without its hole string.  A hole string   *)
(* that was put into a result or into another one is no longer the         *)
(* client's.  res is -1, 0, or 1 for any positive number: every merger     *)
(* makes a positive number of two.                                         *)
(***************************************************************************)
EXTENDS Integers, SequencesExt

CONSTANTS
  Results,     (* the structs                                               *)
  Texts,       (* texts that have a deleter, each used once                 *)
  Consts,      (* messages that have none                                   *)
  None,        (* no list, no result                                        *)
  MaxHoles,    (* bound: hole strings allocated at a time                   *)
  MaxMsgs,     (* bound: messages in a list                                 *)
  MaxRefs      (* bound: references held through one struct                 *)

ASSUME ResultAssumption ==
  /\ MaxHoles \in Nat /\ MaxMsgs \in Nat /\ MaxRefs \in Nat \ {0}
  /\ None \notin Results \cup Texts \cup Consts

(* Objects are numbered and results are records, texts and constants neither. *)
ASSUME NamesAssumption ==
  /\ (Texts \cup Consts \cup {None}) \cap Nat = {}
  /\ None \notin [res : {0 - 1, 0, 1}, list : Nat \cup {None}, cell : Nat, refs : Nat]

VARIABLES
  result,      (* each struct: [res, list, cell, refs], where cell is the
                  count and refs the references held through it; or None    *)
  counts,      (* the allocated counts                                      *)
  lists,       (* allocated holestrlist objects: the messages of each       *)
  nodes,       (* allocated hole_string objects: texts and hole strings     *)
  hand,        (* the hole strings that are the client's                    *)
  given,       (* the texts used                                            *)
  lost,        (* those in results the library dropped without a release    *)
  deleted      (* how often the deleter of each text ran                    *)

heap == <<result, counts, lists, nodes, hand, given, lost, deleted>>

InitHeap ==
  /\ result = [r \in Results |-> None]
  /\ counts = [c \in {} |-> 0]
  /\ lists = [l \in {} |-> <<>>]
  /\ nodes = [h \in {} |-> <<>>]
  /\ hand = {}
  /\ given = {}
  /\ lost = {}
  /\ deleted = [t \in Texts |-> 0]

Live(r) == result[r] # None
Messages(r) == IF result[r].list = None THEN <<>> ELSE lists[result[r].list]

(* The allocator: a number not in use.                                      *)
Fresh(used) == CHOOSE x \in 1 .. Cardinality(used) + 1 : x \notin used
NewHole == Fresh(DOMAIN nodes)

With(f, x, y) == [z \in DOMAIN f \cup {x} |-> IF z = x THEN y ELSE f[z]]
Without(f, gone) == [z \in DOMAIN f \ gone |-> f[z]]

-----------------------------------------------------------------------------
(* Hole strings.                                                           *)

(* The hole strings in h, itself included, at any depth: the smallest set with
   h and with what is in its members.                                       *)
Parts(h) ==
  {x \in DOMAIN nodes : \A s \in SUBSET DOMAIN nodes :
     (h \in s /\ \A y \in s : ToSet(nodes[y]) \cap DOMAIN nodes \subseteq s) => x \in s}

(* Mutant of Freed: the hole strings inside are not visited.                 *)
FreedFlat(hs) ==
  [nodes |-> Without(nodes, hs),
   deleted |-> [t \in Texts |->
                  deleted[t] + Cardinality({x \in hs : t \in ToSet(nodes[x])})]]

(* hole_string_free of each of a set: every text in them is deleted.  The hole
   strings inside are cleared, but their own memory is kept.                *)
Freed(hs) ==
  LET cleared == UNION {Parts(h) : h \in hs}
      Count(t) == Cardinality({x \in cleared : t \in ToSet(nodes[x])})
  IN  [nodes |-> [x \in DOMAIN nodes \ hs |-> IF x \in cleared THEN <<>> ELSE nodes[x]],
       deleted |-> [t \in Texts |-> deleted[t] + Count(t)]]

HoleNew ==
  /\ Cardinality(DOMAIN nodes) < MaxHoles
  /\ nodes' = With(nodes, NewHole, <<>>)
  /\ hand' = hand \cup {NewHole}
  /\ UNCHANGED <<result, counts, lists, given, lost, deleted>>

(* hole_string_append_cstr, hole_string_append_bytes.                       *)
HoleAppendText(h, t) ==
  /\ h \in hand /\ t \notin given
  /\ nodes' = [nodes EXCEPT ![h] = Append(@, t)]
  /\ given' = given \cup {t}
  /\ UNCHANGED <<result, counts, lists, hand, lost, deleted>>

HoleAppendSub(h, sub) ==
  /\ {h, sub} \subseteq hand /\ h # sub
  /\ nodes' = [nodes EXCEPT ![h] = Append(@, sub)]
  /\ hand' = hand \ {sub}
  /\ UNCHANGED <<result, counts, lists, given, lost, deleted>>

HoleFree(h) ==
  /\ h \in hand
  /\ nodes' = Freed({h}).nodes
  /\ deleted' = Freed({h}).deleted
  /\ hand' = hand \ {h}
  /\ UNCHANGED <<result, counts, lists, given, lost>>

-----------------------------------------------------------------------------
(* Results.                                                                *)

(* A struct with a count of its own, and one that shares it.                *)
NewResult(res, l) == [res |-> res, list |-> l, cell |-> Fresh(DOMAIN counts), refs |-> 1]
NewCount == counts' = With(counts, Fresh(DOMAIN counts), 1)
Sole(r) == \A q \in Results : Live(q) /\ result[q].cell = result[r].cell => q = r

(* tinybuf_result_ok.                                                       *)
ResultOk(r, res) ==
  /\ ~Live(r)
  /\ result' = [result EXCEPT ![r] = NewResult(res, None)]
  /\ NewCount
  /\ UNCHANGED <<lists, nodes, hand, given, lost, deleted>>

(* tinybuf_result_err with a message without deleter, or without message.    *)
ResultErr(r, res, items) ==
  /\ ~Live(r)
  /\ LET l == Fresh(DOMAIN lists)
     IN  /\ result' = [result EXCEPT ![r] = NewResult(res, l)]
         /\ lists' = With(lists, l, items)
  /\ NewCount
  /\ UNCHANGED <<nodes, hand, given, lost, deleted>>

(* The result r after items were added to its messages and res became its
   verdict: the first of them makes the list.                               *)
AddItems(r, res, items) ==
  LET l == IF result[r].list = None THEN Fresh(DOMAIN lists) ELSE result[r].list
  IN  /\ result' = [result EXCEPT ![r].list = l, ![r].res = res]
      /\ lists' = With(lists, l, Messages(r) \o items)

(* Whether the client adds one more message.                                *)
Room(r) == Live(r) /\ Sole(r) /\ Len(Messages(r)) < MaxMsgs

(* tinybuf_result_add_msg_const.                                            *)
AddMsgConst(r, c) ==
  /\ Room(r) /\ AddItems(r, result[r].res, <<c>>)
  /\ UNCHANGED <<counts, nodes, hand, given, lost, deleted>>

(* tinybuf_result_add_msg: the text gets a hole string of its own.           *)
AddMsg(r, t) ==
  /\ t \notin given
  /\ Cardinality(DOMAIN nodes) < MaxHoles
  /\ Room(r) /\ AddItems(r, result[r].res, <<NewHole>>)
  /\ nodes' = With(nodes, NewHole, <<t>>)
  /\ given' = given \cup {t}
  /\ UNCHANGED <<counts, hand, lost, deleted>>

(* tinybuf_result_add_hole_msg.                                             *)
AddHoleMsg(r, h) ==
  /\ h \in hand
  /\ Room(r) /\ AddItems(r, result[r].res, <<h>>)
  /\ hand' = hand \ {h}
  /\ UNCHANGED <<counts, nodes, given, lost, deleted>>

(* tinybuf_result_ref by whoever uses the struct itself.                    *)
Ref(r) ==
  /\ Live(r) /\ result[r].refs < MaxRefs
  /\ result' = [result EXCEPT ![r].refs = @ + 1]
  /\ counts' = [counts EXCEPT ![result[r].cell] = @ + 1]
  /\ UNCHANGED <<lists, nodes, hand, given, lost, deleted>>

(* tinybuf_result_ref for a copy of the struct.                             *)
Copy(q, r) ==
  /\ Live(r) /\ ~Live(q)
  /\ result' = [result EXCEPT ![q] = [result[r] EXCEPT !.refs = 1]]
  /\ counts' = [counts EXCEPT ![result[r].cell] = @ + 1]
  /\ UNCHANGED <<lists, nodes, hand, given, lost, deleted>>

(* tinybuf_result_unref: the last one frees the count, the list that this struct
   points to, and what is in it.                                            *)
Unref(r) ==
  /\ Live(r)
  /\ LET c == result[r].cell
         gone == Freed(ToSet(Messages(r)) \cap DOMAIN nodes)
         fewer == IF result[r].refs = 1 THEN None ELSE [result[r] EXCEPT !.refs = @ - 1]
     IN  IF counts[c] > 1
         THEN /\ result' = [result EXCEPT ![r] = fewer]
              /\ counts' = [counts EXCEPT ![c] = @ - 1]
              /\ UNCHANGED <<lists, nodes, deleted>>
         ELSE /\ result' = [result EXCEPT ![r] = None]
              /\ counts' = Without(counts, {c})
              /\ lists' = Without(lists, {result[r].list})
              /\ nodes' = gone.nodes
              /\ deleted' = gone.deleted
  /\ UNCHANGED <<hand, given, lost>>

(* Mutant of Merged: the verdict of the source is not looked at.             *)
MergedLeft(a, b) == IF a <= 0 THEN 0 - 1 ELSE 1

(* What a merge makes of two verdicts, with any of the mergers.             *)
Merged(a, b) == IF a <= 0 \/ b <= 0 THEN 0 - 1 ELSE 1

(* Mutant of MergeMessages: the source keeps the messages it hands over.     *)
MergeMessagesCopied(d, s) ==
  [list |-> IF result[d].list = None THEN result[s].list ELSE result[d].list,
   left |-> result[s].list,
   lists |-> IF None \in {result[s].list, result[d].list} THEN lists
             ELSE [lists EXCEPT ![result[d].list] = @ \o Messages(s)]]

(* tinybuf_result_append_merge: the list is handed over when the destination has
   none, and emptied into the destination's otherwise.                      *)
MergeMessages(d, s) ==
  IF result[s].list = None \/ result[d].list = None
  THEN [list |-> IF result[s].list = None THEN result[d].list ELSE result[s].list,
        left |-> None, lists |-> lists]
  ELSE [list |-> result[d].list, left |-> result[s].list,
        lists |-> [lists EXCEPT ![result[d].list] = @ \o Messages(s),
                                ![result[s].list] = <<>>]]

Merge(d, s) ==
  /\ Live(d) /\ Live(s) /\ d # s /\ Sole(d) /\ Sole(s)
  /\ Len(Messages(d)) + Len(Messages(s)) <= MaxMsgs
  /\ LET m == MergeMessages(d, s)
     IN  /\ result' = [result EXCEPT ![d].list = m.list, ![s].list = m.left,
                                     ![d].res = Merged(@, result[s].res), ![s].res = 0]
         /\ lists' = m.lists
  /\ UNCHANGED <<counts, nodes, hand, given, lost, deleted>>

(* What a library function says of a call, in one message: its verdict and no
   change of the texts.                                                     *)
Say(r, res, items) ==
  /\ AddItems(r, res, items)
  /\ UNCHANGED <<counts, nodes, hand, given, lost, deleted>>

Client ==
  \/ HoleNew
  \/ \E h \in hand : HoleFree(h) \/ \E sub \in hand : HoleAppendSub(h, sub)
  \/ \E h \in hand, t \in Texts : HoleAppendText(h, t)
  \/ \E r \in Results :
       \/ \E res \in 0 .. 1 : ResultOk(r, res)
       \/ \E res \in {0 - 1, 0} : ResultErr(r, res, <<>>) \/ \E c \in Consts : ResultErr(r, res, <<c>>)
       \/ \E c \in Consts : AddMsgConst(r, c)
       \/ \E t \in Texts : AddMsg(r, t)
       \/ \E h \in hand : AddHoleMsg(r, h)
       \/ Ref(r) \/ Unref(r)
       \/ \E s \in Results : Copy(r, s) \/ Merge(r, s)

-----------------------------------------------------------------------------
(* Each result, list and hole string points to what is allocated.           *)
HeapTyped ==
  /\ \A r \in Results : Live(r) =>
       /\ result[r].res \in {0 - 1, 0, 1} /\ result[r].refs \in 1 .. MaxRefs
       /\ result[r].list = None \/ result[r].list \in DOMAIN lists
       /\ result[r].cell \in DOMAIN counts
  /\ \A c \in DOMAIN counts : counts[c] \in Nat \ {0}
  /\ \A l \in DOMAIN lists : ToSet(lists[l]) \subseteq DOMAIN nodes \cup Consts
  /\ \A h \in DOMAIN nodes : ToSet(nodes[h]) \subseteq DOMAIN nodes \cup given
  /\ hand \subseteq DOMAIN nodes /\ lost \subseteq given /\ given \subseteq Texts

Places(x, f) == UNION {{<<y, j>> : j \in {k \in DOMAIN f[y] : f[y][k] = x}} : y \in DOMAIN f}

(* The references to a count, those through one struct numbered.            *)
References(c) ==
  {x \in Results \X (1 .. MaxRefs) :
     Live(x[1]) /\ result[x[1]].cell = c /\ x[2] <= result[x[1]].refs}

(* However references are taken through a result and for copies of it, results
   merged and released and hole strings put into one another, as long as a
   result with copies is only read: a text that was handed over is in exactly
   one place, or its deleter ran, once, or the library dropped the result it was
   in (lost: then the deleter never runs).  A hole string has one owner; a list
   is that of the results of one count, which says how many references they
   hold, so that the last release frees it and none before does.             *)
TextOwnedOnce ==
  /\ \A t \in given :
       Cardinality(Places(t, nodes)) + deleted[t] + (IF t \in lost THEN 1 ELSE 0) = 1
  /\ \A h \in DOMAIN nodes :
       LET owners == Cardinality(Places(h, nodes)) + Cardinality(Places(h, lists))
                       + (IF h \in hand THEN 1 ELSE 0)
       IN  owners = 1 \/ (owners = 0 /\ nodes[h] = <<>>)
  /\ \A l \in DOMAIN lists : \E c \in DOMAIN counts :
       \A r \in Results : Live(r) => (result[r].list = l <=> result[r].cell = c)
  /\ \A c \in DOMAIN counts : Cardinality(References(c)) = counts[c]

(* The texts a message shows.                                               *)
Shown(item) ==
  LET Show[d \in Nat] ==
        [x \in Consts \cup Texts \cup DOMAIN nodes |->
           IF x \notin DOMAIN nodes THEN <<x>>
           ELSE IF d = 0 THEN <<>>
           ELSE FlattenSeq([j \in DOMAIN nodes[x] |-> Show[d - 1][nodes[x][j]]])]
  IN  Show[MaxHoles][item]

Log == [r \in {s \in Results : Live(s)} |->
          [ok |-> result[r].res > 0,
           msgs |-> [j \in DOMAIN Messages(r) |-> Shown(Messages(r)[j])]]]

(* Through lists that are handed over, emptied into others and shared hole
   strings, a result shows the messages it and what was merged into it were
   given, in that order, and is a success only if all of that was.          *)
Abstract == INSTANCE MessageLog WITH log <- Log
ImplementsLog == Abstract!Spec
=============================================================================
