----------------------------- MODULE ValueTree ------------------------------
(***************************************************************************)
(* Ownership of values (src/source/tinybuf_value_api.c, tinybuf_value_ops.c*)
(* and tinybuf_types.c): maps and arrays own their children, strings a     *)
(* buffer, tensors and bitmaps a struct with inner blocks (shape and data, *)
(* or bits), versions refer to a value.  Clearing a value recurses over    *)
(* all of it, with the stack s_clear_stack against rings of references;    *)
(* the C calls in progress are a variable.  Of a tensor it frees the       *)
(* struct only: _custom_free is NULL wherever the library sets it, and     *)
(* nothing makes a value of a type of its own with a function to free it,  *)
(* so there are none here.  The client keeps                               *)
(* to the header: what it inserted or freed it does not use again, and a   *)
(* version refers to a value the client keeps or to a map the version is   *)
(* in: never to a sibling, which could be freed before it.                 *)
(***************************************************************************)
EXTENDS Naturals, Sequences, FiniteSets

CONSTANTS
  Values,      (* addresses of values                                       *)
  Blocks,      (* buffers of strings and structs of tensors                 *)
  None

ASSUME ValueTreeAssumption ==
  /\ Values \cap Blocks = {}
  /\ None \notin Values

VARIABLES
  used,        (* addresses that are allocated                              *)
  type,        (* _type; "map" is a map or array, "tensor" a tensor or bitmap *)
  data,        (* what _data points to: children, the target or the block   *)
  shared,      (* structs that tinybuf_value_clone gave to a second value   *)
  inner,       (* structs of which the inner blocks are allocated           *)
  roots,       (* values the client may use and has to free                 *)
  clearing,    (* s_clear_stack                                             *)
  stack,       (* calls of tinybuf_value_clear and tinybuf_value_free       *)
  job          (* what the client's call does after that clearing           *)

vars == <<used, type, data, shared, inner, roots, clearing, stack, job>>

Type == {"null", "int", "string", "map", "tensor", "version"}
Frame == [value : Values, at : {"enter", "data", "kid", "target"},
          kid : Values \cup {None}, free : BOOLEAN]
Call(v, f) == [value |-> v, at |-> "enter", kid |-> None, free |-> f]
Job == [op : {"none", "init", "insert", "replace"}, value : Values \cup {None},
        type : Type, child : Values \cup {None}, old : Values \cup {None}]
NoJob == [op |-> "none", value |-> None, type |-> "null", child |-> None, old |-> None]

Init == /\ used = {}
        /\ type = [v \in Values |-> "null"]
        /\ data = [v \in Values |-> {}]
        /\ shared = {}
        /\ inner = {}
        /\ roots = {}
        /\ clearing = {}
        /\ stack = <<>>
        /\ job = NoJob

Idle == stack = <<>> /\ job = NoJob

(* What a value owns through maps, itself included: the least set of values
   with it that has the children of its maps.                               *)
Tree(v) ==
  {w \in Values : \A S \in SUBSET Values :
     v \in S /\ (\A x \in S : type[x] = "map" => data[x] \subseteq S) => w \in S}

Versions(S) == {w \in S : type[w] = "version"}

(* No version outside the tree of v refers into it.                         *)
Unreferenced(v) ==
  \A w \in Versions(used \cap Values) \ Tree(v) : data[w] \cap Tree(v) = {}

-----------------------------------------------------------------------------
(* tinybuf_value_clear and tinybuf_value_free.                              *)

Top == stack[Len(stack)]
Below == SubSeq(stack, 1, Len(stack) - 1)
At(b) == stack # <<>> /\ Top.at = b
Of(ts) == type[Top.value] \in ts

(* Return from the call, after tinybuf_free if it is tinybuf_value_free.    *)
Return == /\ stack' = Below
          /\ used' = IF Top.free THEN used \ {Top.value} ELSE used

(* Mutant of Known: a ring of references is walked again.                   *)
KnownNever == FALSE

Known == Top.value \in clearing

(* A value that is being cleared already is left alone.                     *)
Enter ==
  /\ At("enter")
  /\ \/ /\ Known
        /\ Return
        /\ UNCHANGED clearing
     \/ /\ ~Known
        /\ clearing' = clearing \cup {Top.value}
        /\ stack' = Append(Below, [Top EXCEPT !.at = "data"])
        /\ UNCHANGED used
  /\ UNCHANGED <<type, data, shared, inner, roots, job>>

(* The buffer of a string, and maybe_free_custom: the struct of a tensor, whose
   inner blocks stay.                                                       *)
FreeBlock ==
  /\ At("data") /\ Of({"string", "tensor"}) /\ data[Top.value] # {}
  /\ used' = used \ data[Top.value]
  /\ data' = [data EXCEPT ![Top.value] = {}]
  /\ type' = IF Of({"tensor"}) THEN [type EXCEPT ![Top.value] = "null"] ELSE type
  /\ UNCHANGED <<shared, inner, roots, clearing, stack, job>>

(* avl_tree_free: the children one after the other.                         *)
FreeKid ==
  /\ At("data") /\ Of({"map"})
  /\ \E k \in data[Top.value] :
       stack' = Append(Append(Below, [Top EXCEPT !.at = "kid", !.kid = k]), Call(k, TRUE))
  /\ UNCHANGED <<used, type, data, shared, inner, roots, clearing, job>>

AfterKid ==
  /\ At("kid")
  /\ data' = [data EXCEPT ![Top.value] = @ \ {Top.kid}]
  /\ stack' = Append(Below, [Top EXCEPT !.at = "data", !.kid = None])
  /\ UNCHANGED <<used, type, shared, inner, roots, clearing, job>>

(* Mutant of ClearTarget: the target is freed.                              *)
ClearTargetFreed ==
  /\ At("data") /\ Of({"version"}) /\ data[Top.value] # {}
  /\ data' = [data EXCEPT ![Top.value] = {}]
  /\ \E r \in data[Top.value] :
       stack' = Append(Append(Below, [Top EXCEPT !.at = "target"]), Call(r, TRUE))
  /\ UNCHANGED <<used, type, shared, inner, roots, clearing, job>>

(* maybe_free_sub_ref: the target is cleared, not freed.                    *)
ClearTarget ==
  /\ At("data") /\ Of({"version"}) /\ data[Top.value] # {}
  /\ data' = [data EXCEPT ![Top.value] = {}]
  /\ \E r \in data[Top.value] :
       stack' = Append(Append(Below, [Top EXCEPT !.at = "target"]), Call(r, FALSE))
  /\ UNCHANGED <<used, type, shared, inner, roots, clearing, job>>

(* Mutant of Wipe: the value stays on the clear stack.                      *)
WipeUnpopped ==
  /\ At("data") \/ At("target")
  /\ data[Top.value] = {}
  /\ type' = [type EXCEPT ![Top.value] = "null"]
  /\ Return
  /\ UNCHANGED <<data, shared, inner, roots, clearing, job>>

Wipe ==
  /\ At("data") \/ At("target")
  /\ data[Top.value] = {}
  /\ type' = [type EXCEPT ![Top.value] = "null"]
  /\ clearing' = clearing \ {Top.value}
  /\ Return
  /\ UNCHANGED <<data, shared, inner, roots, job>>

Clearing == Enter \/ FreeBlock \/ FreeKid \/ AfterKid \/ ClearTarget \/ Wipe

-----------------------------------------------------------------------------
(* The client's calls.                                                     *)

Alloc(v) ==
  /\ Idle /\ v \notin used
  /\ used' = used \cup {v}
  /\ type' = [type EXCEPT ![v] = "null"]
  /\ data' = [data EXCEPT ![v] = {}]
  /\ roots' = roots \cup {v}
  /\ UNCHANGED <<shared, inner, clearing, stack, job>>

Free(v) ==
  /\ Idle /\ v \in roots /\ Unreferenced(v)
  /\ roots' = roots \ {v}
  /\ stack' = <<Call(v, TRUE)>>
  /\ UNCHANGED <<used, type, data, shared, inner, clearing, job>>

(* tinybuf_value_init_int and its like: the value is cleared first.  A string
   set again keeps its buffer.                                              *)
InitValue(v, t) ==
  /\ Idle /\ v \in roots
  /\ t = "string" => type[v] # "string"
  /\ stack' = <<Call(v, FALSE)>>
  /\ job' = [NoJob EXCEPT !.op = "init", !.value = v, !.type = t]
  /\ UNCHANGED <<used, type, data, shared, inner, roots, clearing>>

(* A name of a block is not used again before its inner blocks are gone too. *)
FreeNames == Blocks \ (used \cup inner)

(* ... and then gets its type, and if it needs one a block: a tensor a struct with
   inner blocks.                                                            *)
Initialise ==
  /\ stack = <<>> /\ job.op = "init"
  /\ type' = [type EXCEPT ![job.value] = job.type]
  /\ IF job.type \in {"string", "tensor"}
     THEN \E b \in FreeNames :
            /\ used' = used \cup {b}
            /\ data' = [data EXCEPT ![job.value] = {b}]
            /\ inner' = IF job.type = "tensor" THEN inner \cup {b} ELSE inner
     ELSE UNCHANGED <<used, data, inner>>
  /\ job' = NoJob
  /\ UNCHANGED <<shared, roots, clearing, stack>>

(* tinybuf_value_map_set2, tinybuf_value_array_append: a parent of another type,
   an array for a map and a map for an array too, is cleared first.         *)
Insert(p, c) ==
  /\ Idle /\ {p, c} \subseteq roots /\ p # c
  /\ Unreferenced(c)
  /\ \/ type[p] = "map" /\ stack' = <<>>
     \/ stack' = <<Call(p, FALSE)>>
  /\ roots' = roots \ {c}
  /\ job' = [NoJob EXCEPT !.op = "insert", !.value = p, !.child = c]
  /\ UNCHANGED <<used, type, data, shared, inner, clearing>>

(* avl_tree_insert with a new key.                                          *)
Add ==
  /\ stack = <<>> /\ job.op = "insert"
  /\ type' = [type EXCEPT ![job.value] = "map"]
  /\ data' = [data EXCEPT ![job.value] = @ \cup {job.child}]
  /\ job' = NoJob
  /\ UNCHANGED <<used, shared, inner, roots, clearing, stack>>

(* Mutant of Replace: the value of an equal key is not freed.               *)
ReplaceUnfreed ==
  /\ stack = <<>> /\ job.op = "insert"
  /\ \E k \in data[job.value] :
       /\ Unreferenced(k)
       /\ \A w \in Versions(Tree(k)) : data[w] \subseteq Tree(k)
       /\ job' = [job EXCEPT !.op = "replace", !.old = k]
  /\ UNCHANGED <<used, type, data, shared, inner, roots, clearing, stack>>

(* avl_tree_insert with a key that is there: its value is freed first.  The
   client replaces what no version connects with the rest.                      *)
Replace ==
  /\ stack = <<>> /\ job.op = "insert"
  /\ \E k \in data[job.value] :
       /\ Unreferenced(k)
       /\ \A w \in Versions(Tree(k)) : data[w] \subseteq Tree(k)
       /\ stack' = <<Call(k, TRUE)>>
       /\ job' = [job EXCEPT !.op = "replace", !.old = k]
  /\ UNCHANGED <<used, type, data, shared, inner, roots, clearing>>

Replaced ==
  /\ stack = <<>> /\ job.op = "replace"
  /\ data' = [data EXCEPT ![job.value] = (@ \ {job.old}) \cup {job.child}]
  /\ job' = NoJob
  /\ UNCHANGED <<used, type, shared, inner, roots, clearing, stack>>

(* tinybuf_version_set of a value that owns nothing: the target stays the
   client's.                                                                *)
VersionSet(v, r) ==
  /\ Idle /\ {v, r} \subseteq roots
  /\ type[v] \in {"null", "int"}
  /\ type' = [type EXCEPT ![v] = "version"]
  /\ data' = [data EXCEPT ![v] = {r}]
  /\ UNCHANGED <<used, shared, inner, roots, clearing, stack, job>>

(* tinybuf_value_clone: maps and strings are copied, an empty string without its
   buffer; tensors share their struct and versions their target.            *)
Clone(v) ==
  /\ Idle /\ v \in used \cap Values
  /\ \A w \in Versions(Tree(v)) : data[w] \subseteq roots
  /\ \E full \in SUBSET {w \in Tree(v) : type[w] = "string" /\ data[w] # {}} :
     \E f \in [Tree(v) -> Values \ used], g \in [full -> FreeNames] :
       /\ \A x, y \in Tree(v) : f[x] = f[y] => x = y
       /\ \A x, y \in full : g[x] = g[y] => x = y
       /\ LET copies == {f[x] : x \in Tree(v)}
              original(w) == CHOOSE x \in Tree(v) : f[x] = w
              copy(x) == CASE type[x] = "map" -> {f[y] : y \in data[x]}
                           [] type[x] = "string" -> {g[y] : y \in full \cap {x}}
                           [] OTHER -> data[x]
          IN /\ type' = [w \in Values |->
                  IF w \in copies THEN type[original(w)] ELSE type[w]]
             /\ data' = [w \in Values |->
                  IF w \in copies THEN copy(original(w)) ELSE data[w]]
       /\ used' = used \cup {f[x] : x \in Tree(v)} \cup {g[x] : x \in full}
       /\ roots' = roots \cup {f[v]}
  /\ shared' = shared \cup UNION {data[w] : w \in {x \in Tree(v) : type[x] = "tensor"}}
  /\ UNCHANGED <<inner, clearing, stack, job>>

Next ==
  \/ Clearing
  \/ \E v \in Values : \/ Alloc(v) \/ Free(v) \/ Clone(v)
                       \/ \E t \in {"int", "string", "tensor"} : InitValue(v, t)
                       \/ \E w \in Values : Insert(v, w) \/ VersionSet(v, w)
  \/ Initialise \/ Add \/ Replace \/ Replaced

Spec == Init /\ [][Next]_vars

-----------------------------------------------------------------------------
(* Properties.                                                             *)

TypeOK ==
  /\ used \subseteq Values \cup Blocks
  /\ type \in [Values -> Type]
  /\ data \in [Values -> SUBSET (Values \cup Blocks)]
  /\ shared \subseteq Blocks /\ inner \subseteq Blocks
  /\ roots \subseteq used \cap Values
  /\ clearing \subseteq Values
  /\ stack \in Seq(Frame)
  /\ job \in Job

(* Clearing works on allocated values only, follows rings of versions and maps
   as it may, and frees no block that is not allocated, unless a clone shares
   it.                                                                      *)
NoUseAfterFree ==
  /\ \A i \in DOMAIN stack : stack[i].value \in used
  /\ At("data") /\ Of({"string", "tensor"}) => data[Top.value] \subseteq used \cup shared

(* Between calls every allocated value is the client's or a child of exactly one
   allocated map, and never both, and every buffer and struct belongs to a value:
   none of them is leaked, and none will be freed twice unless a clone shares it.
   A tensor has its inner blocks as long as it is there; they are the one thing
   that is left behind, and only of a struct that was freed.                *)
OwnedOnce ==
  Idle =>
    /\ \A v \in used \cap Values :
         LET parents == {p \in used \cap Values : type[p] = "map" /\ v \in data[p]}
         IN  IF v \in roots THEN parents = {} ELSE Cardinality(parents) = 1
    /\ \A b \in used \cap Blocks : \E v \in used \cap Values : b \in data[v]
    /\ \A v \in used \cap Values : data[v] \subseteq used \cup shared
    /\ \A v \in used \cap Values : type[v] = "tensor" => data[v] \subseteq inner
    /\ \A b \in used \cap inner : \E v \in used \cap Values : type[v] = "tensor" /\ b \in data[v]

(* The clear stack holds exactly the values whose clearing is in progress: one
   left on it would never be cleared again.                                 *)
ClearStackExact ==
  clearing = {stack[i].value : i \in {j \in DOMAIN stack : stack[j].at # "enter"}}
=============================================================================
