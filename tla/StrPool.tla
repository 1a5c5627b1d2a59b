------------------------------ MODULE StrPool -------------------------------
(***************************************************************************)
(* The write side of the string pool (src/source/tinybuf_strpool.c and     *)
(* the box writers of src/source/tinybuf_write.c).  The pool is ONE global *)
(* array; every pooled writer empties it when it starts, adds the strings  *)
(* it meets, emits their indices into its body, and appends what the pool  *)
(* holds when it ends as the table of its box.  Writers nest: a value that *)
(* carries a plugin tag is written by an id-box writer in the middle of    *)
(* the enclosing box, and the payload of an id box is usually written by   *)
(* further box writers.                                                    *)
(***************************************************************************)
EXTENDS Naturals, Sequences

CONSTANTS
  Strings,     (* the payload strings and the type names                    *)
  MaxDepth,    (* bound: how deep writers nest                              *)
  MaxPool      (* bound: strings a pool holds                               *)

ASSUME StrPoolAssumption == MaxDepth \in Nat \ {0} /\ MaxPool \in Nat

VARIABLES
  pool,        (* s_strpool[0 .. s_strpool_count - 1]                       *)
  stack,       (* the writers that are running, innermost last              *)
  table,       (* the box the last step finished: its references and table  *)
  enabled      (* s_use_strpool                                             *)

vars == <<pool, stack, table, enabled>>

(* A reference is an index in the emitted bytes and the string it stands for. *)
Ref == Nat \X Strings

(* A writer: what it is, the references in its body, and whether another
   pooled writer has started since it did.                                  *)
Writer == [kind : {"box", "id"}, refs : SUBSET Ref, nested : BOOLEAN]

(* A finished box; lost: the payload of an id box was left out.             *)
NoTable == [refs |-> {}, nested |-> FALSE, lost |-> FALSE, strs |-> <<>>]

Top == stack[Len(stack)]
SetTop(w) == [stack EXCEPT ![Len(stack)] = w]
PoolStrings == {pool[i] : i \in DOMAIN pool}

(* The caller's stack once one more writer has started.                     *)
Started(w) ==
  Append(IF stack = <<>> THEN <<>> ELSE SetTop([Top EXCEPT !.nested = TRUE]), w)

Init == /\ pool = <<>>
        /\ stack = <<>>
        /\ table = NoTable
        /\ enabled \in BOOLEAN

(* strpool_find: the first index that holds s.                              *)
Found(s) == CHOOSE i \in DOMAIN pool : pool[i] = s

(* Mutants of Add: the count instead of the index, or the outcome of the
   failed search, is returned for a new string.                             *)
AddReturnsCount(s) ==
  IF s \in PoolStrings THEN [pool |-> pool, idx |-> Found(s) - 1]
                       ELSE [pool |-> Append(pool, s), idx |-> Len(pool) + 1]
AddReturnsSearch(s) ==
  IF s \in PoolStrings THEN [pool |-> pool, idx |-> Found(s) - 1]
                       ELSE [pool |-> Append(pool, s), idx |-> 0 - 1]

(* strpool_add by the innermost writer w: the index of s, which is appended
   when it is not there, goes into the body.                                *)
Add(s) ==
  IF s \in PoolStrings THEN [pool |-> pool, idx |-> Found(s) - 1]
                       ELSE [pool |-> Append(pool, s), idx |-> Len(pool)]

(* Mutant of StartBox: the pool is not emptied.                             *)
StartBoxNoReset ==
  /\ enabled
  /\ Len(stack) < MaxDepth
  /\ stack' = Started([kind |-> "box", refs |-> {}, nested |-> FALSE])
  /\ table' = NoTable
  /\ UNCHANGED <<pool, enabled>>

(* try_write_box with the pool on: strpool_reset_write.                     *)
StartBox ==
  /\ enabled
  /\ Len(stack) < MaxDepth
  /\ pool' = <<>>
  /\ stack' = Started([kind |-> "box", refs |-> {}, nested |-> FALSE])
  /\ table' = NoTable
  /\ UNCHANGED enabled

(* tinybuf_try_write_custom_id_box and tinybuf_try_write_plugin_id_box use
   the pool for the type name whether or not it is on.                      *)
StartIdBox(name) ==
  /\ Len(stack) < MaxDepth
  /\ pool' = <<name>>
  /\ stack' = Started([kind |-> "id", refs |-> {<<0, name>>}, nested |-> FALSE])
  /\ table' = NoTable
  /\ UNCHANGED enabled

(* tinybuf_value_serialize of a string with the pool on, in the body of a box
   or by the serialiser of a custom type in the payload of an id box.       *)
EmitString(s) ==
  /\ enabled
  /\ stack # <<>>
  /\ Len(pool) < MaxPool \/ s \in PoolStrings
  /\ pool' = Add(s).pool
  /\ stack' = SetTop([Top EXCEPT !.refs = @ \cup {<<Add(s).idx, s>>}])
  /\ table' = NoTable
  /\ UNCHANGED enabled

(* strpool_write_tail at the end of either writer.                          *)
Finish ==
  /\ stack # <<>>
  /\ table' = [refs |-> Top.refs, nested |-> Top.nested, lost |-> FALSE, strs |-> pool]
  /\ stack' = SubSeq(stack, 1, Len(stack) - 1)
  /\ UNCHANGED <<pool, enabled>>

(* The serialiser of a payload failed: the id box is written all the same,
   with the reference of its name, index 0, and an empty payload.           *)
FinishWithout ==
  /\ stack # <<>>
  /\ Top.kind = "id"
  /\ table' = [refs |-> {r \in Top.refs : r[1] = 0}, nested |-> Top.nested,
               lost |-> TRUE, strs |-> pool]
  /\ stack' = SubSeq(stack, 1, Len(stack) - 1)
  /\ UNCHANGED <<pool, enabled>>

(* try_write_box gives up when the value does not serialise: no table.      *)
Abandon ==
  /\ stack # <<>>
  /\ Top.kind = "box"
  /\ stack' = SubSeq(stack, 1, Len(stack) - 1)
  /\ table' = NoTable
  /\ UNCHANGED <<pool, enabled>>

(* tinybuf_set_use_strpool, between writes.                                 *)
SetUseStrpool(on) ==
  /\ stack = <<>>
  /\ enabled' = on
  /\ table' = NoTable
  /\ UNCHANGED <<pool, stack>>

Next ==
  \/ StartBox
  \/ \E s \in Strings : StartIdBox(s) \/ EmitString(s)
  \/ Finish
  \/ FinishWithout
  \/ Abandon
  \/ \E on \in BOOLEAN : SetUseStrpool(on)

Spec == Init /\ [][Next]_vars

-----------------------------------------------------------------------------
(* Properties.                                                             *)

Resolves(refs, strs) ==
  \A r \in refs : r[1] < Len(strs) /\ strs[r[1] + 1] = r[2]

(* The strings the references of a box stand for.                           *)
Named(refs) == {r[2] : r \in refs}

Holds(strs) == {strs[i] : i \in DOMAIN strs}

Distinct(strs) == \A i, j \in DOMAIN strs : strs[i] = strs[j] => i = j

(* The global pool, the running writers and the finished box have the shape
   their declarations give them.                                            *)
TypeOK ==
  /\ pool \in Seq(Strings)
  /\ stack \in Seq(Writer)
  /\ table \in [refs : SUBSET Ref, nested : BOOLEAN, lost : BOOLEAN, strs : Seq(Strings)]
  /\ enabled \in BOOLEAN

(* Every index a box contains names, in the table written with that box, the
   string it was emitted for, however many boxes were written or abandoned
   before on the same global pool: as long as no other writer started while
   the box was being written.                                               *)
TableResolves == ~table.nested => Resolves(table.refs, table.strs)

(* The table of such a box holds each string once, and only strings of the box
   (none left over from an earlier or abandoned writer), but for those of a
   payload that was left out.                                               *)
TableExact ==
  ~table.nested => /\ Distinct(table.strs)
                   /\ ~table.lost => Holds(table.strs) = Named(table.refs)

(* The same promise without the exception: what the tests of nested boxes
   expect of tinybuf_try_write_custom_id_box.                               *)
EveryTableResolves == Resolves(table.refs, table.strs)
=============================================================================
