# tinybuf: verification models

tinybuf is a C library that serialises dynamically typed values into a binary
format and reads them back, with boxes that can be nested, versioned, split
into parts and written by plugins. These modules model the parts of it whose
correctness depends on the order of several steps, check them with TLC on small
instances, and prove the main results with TLAPS for every value of the
constants.

Paths below are relative to the repository; a bare `tinybuf_x.c` is
`src/source/tinybuf_x.c`.

## 1. The system

| Part | State it keeps | Operations | Hard behaviour | What makes it correct |
|---|---|---|---|---|
| byte buffer (`tinybuf_buffer.c`) | block, length, capacity | append, assign, pop, push, set_length, add_capacity, move, release | growth at the boundary, length 0 meaning strlen, a block grown by hand before an integer is stored | the terminator is inside the block; an append adds exactly its source |
| string pool, writing (`tinybuf_strpool.c`, `tinybuf_write.c`) | one global array, a flag | reset, find, add, write the tail | writers nest on one global pool; failures leave leftovers | indices of a box resolve in that box's table |
| trie of the pool (`tinybuf_strpool.c`) | node array | insert, emit | shared prefixes, encoding of the parent | each string has its own leaf; a climb returns the string |
| pool readers (`tinybuf_read_box.c`, `tinybuf_deserialize.c`) | position of the table (globals) | find a leaf, climb | two copies of the climb decode parents | both return what was written |
| offset pool (`tinybuf_read_box.c`) | global array, spin lock | register, mark complete | threads, reallocation, re-registration | mutual exclusion, one entry per offset, no lost update |
| box writer (`tinybuf_write.c`) | none of its own | box, id box, version, version list, part, part table, pointer, header | the header stores an offset that depends on its own length | the reader gets back what was written |
| box reader (`tinybuf_read_box.c`) | cursor, table globals, pointer depth | read_box and one case per box kind | fallback after a failed parse, nested boxes, jumps | the cursor stands behind what was consumed |
| value serialiser / deserialiser (`tinybuf_serialize.c`, `tinybuf_deserialize.c`) | none | one case per type | the reader is tried on whatever has arrived; failures at any depth | nothing of a value until all of it is there, then exactly that value |
| JSON (`tinybuf_json.c`) | none | write, read | the same, character by character; escapes | the same |
| dump (`tinybuf_dump.c`) | box starts and labels (globals) | collect, print | two passes with a switch each | both agree where boxes start |
| precache (`tinybuf_precache.c`) | global array for one buffer, redirect flag | register, redirect, find, reset | several buffers, values registered again | a pointer stands for the value it replaces |
| values (`tinybuf_value_api.c`, `tinybuf_value_ops.c`, `tinybuf_types.c`) | a tree of values, a stack of values being cleared | init, set, append, clear, free, clone | shared targets, cycles through references, shallow copies | nothing is freed twice or used after it was freed |
| AVL tree (`avl-tree.c`) | nodes with parent links | insert, remove, lookup, free | rotations, replacement of a removed node | ordered, balanced, implements a map |
| result (`tinybuf_result.c`, `tinybuf_support.c`) | list of hole strings, reference count, verdict | add, ref, unref, merge; hole strings put into one another | lists handed over or emptied, shared results | every text deleted once; messages in order; no failure hidden |
| plugin registry (`tinybuf_plugin.c`) | plugin array, guid map, custom and object types | register, unregister, dispatch by tag, guid or name | first match wins, indices into a map set separately, types that come and go | what one plugin wrote or read is not given to another |
| dynamic types (`src/dyn_sys`), log, memory, script interpreter (`src/interpret`) | various | | | not modelled, see section 7 |

Interaction: the serialiser calls the box writers of `tinybuf_write.c` for a
value that carries a plugin tag; those call a plugin, which usually calls the
writers again. All writers share the string pool. `try_read_box` registers the
offset it is at, tries the plain deserialiser, and otherwise interprets the box
kind, recursing for every nested box; an id box goes to the plugin or type of
its name. Every one of these functions reports through a result, and merges the
results of what it called. Values own their children through the AVL tree;
buffers hold strings, keys and output.

The hazards this leads to are in `PROJECT.json`, each at its line.

## 2. Modules

| Module | Models | Kind |
|---|---|---|
| `Buffer` | `tinybuf_buffer.c`, `dump_int` | component |
| `StrPool` | the global pool and the writers that share it | component |
| `TriePool` | the tail of a pooled box, and both readers of it | component |
| `OffsetPool` | registration of boxes by threads under the spin lock | component |
| `Wire` | type bytes and variable-length integers | operators, extended by `BoxWriter` and `Codec` |
| `BoxWriter` | the bytes of id boxes, versions, version lists, parts and part tables | operators, extended by `BoxReader` |
| `BoxReader` | `try_read_box` over those bytes, with its call stack, and a client | component |
| `AvlTree` | the tree that holds the children of maps and arrays, node by node | component |
| `ValueTree` | ownership of values: clear, free, insert, replace, clone | component |
| `Codec` | values and their bytes, both ways | operators, extended by `Dump` |
| `JsonText` | values and their JSON text, both ways | operators, extended by `Stream` |
| `Dump` | both passes of the dump over a buffer | operators, extended by `Stream` |
| `Stream` | writers, the precache, the transport and the reader that waits for more | component, composes the three above |
| `Result` | results, their messages and hole strings | component, extended by `Plugins` |
| `Plugins` | registries of plugins and types, and who reads and writes an id box | component |
| `OrderedMap` | a map changed one entry at a time | abstract specification, implemented by `AvlTree` |
| `OffsetMap` | a map updated atomically | abstract specification, implemented by `OffsetPool` |
| `Channel` | a queue of values | abstract specification, implemented by `Stream` |
| `MessageLog` | messages in the order they were given, and merged | abstract specification, implemented by `Result` |
| `MC...` | instances for TLC | model checking |
| `...Proofs` | theorems | proofs |

How state and actions correspond to the code:

* **Buffer.** `bufs[b]` is one `struct T_buffer`: the whole block (`mem`, with
  a byte nobody wrote yet as `RAW`), its length and capacity. One action per
  exported function. `buffer_append` is split into the source it reads
  (`Source`, with the strlen rule), the growth (`Room`) and the store (`Put`);
  the action takes all three.
* **StrPool.** `pool` is `s_strpool[0 .. s_strpool_count-1]`, `stack` the
  writers in progress (C call frames), `table` the box just finished. Starting
  a writer empties the global pool, finishing one writes what the pool holds
  then.
* **TriePool.** `nodes` is the array of `strpool_write_tail`, one action per
  character inserted, `cur` its position. After `WriteTable` a reader resolves
  any index: `Find` and a climb by names or by strings.
* **OffsetPool.** `pool` and `capacity` are `s_pool`, `s_pool_count` and
  `s_pool_capacity`; `locked` is the atomic flag; each thread has a stack of
  reads in progress and a program counter with a label per access of the array.

* **BoxWriter, BoxReader.** `bytes` is a buffer filled by the writers, of which
  `avail` bytes have arrived (`all_size`); `ptr` is the cursor. The recursion of
  `try_read_box` is the variable `stack`: a frame says at which block the call
  is, what it counted in `len` and its loop counter, and an action is the code
  between two recursive calls. `pooled` is the global `s_strpool_offset_read`.
  The reader of an id box's payload is the type's plugin, taken to be one
  integer; the trie behind it is reduced to its one name.

* **AvlTree.** `tree` holds `root_node` and the nodes' `children`, `parent` and
  `height`, `entry` the key and value of each node in use. An insertion or a
  removal changes the links in one step and leaves in `rover` the node at which
  `avl_tree_balance_to_root` starts; each iteration of that loop is a step, and
  `Finish` the code behind it. Lookups and walks are recursive functions.
* **ValueTree.** `type` and `data` are `_type` and what `_data` points to, where
  "map" stands for maps and arrays, "tensor" for tensors and bitmaps, and
  "version" for versions and references. A tensor's block is its struct, and
  `inner` says of which structs the blocks behind it (shape and data, or bits) are
  allocated: both are made by `Initialise`, and `FreeBlock` frees the struct only,
  as the code does (section 5). Values of a type of their own with a function to
  free them are not there: nothing in the repository makes one. `clearing` is `s_clear_stack`;
  `stack` are the calls of `tinybuf_value_clear` and `tinybuf_value_free` in
  progress, each at the block of the function it has reached, and `job` is what
  the client's call does once the clearing it began with has returned.
  `AvlTree` is reduced to the set of its values. The client keeps a discipline
  the header asks for only in part: it does not use what it inserted or freed,
  and a version refers to a value the client keeps or to a map the version is
  in.

* **Wire, Codec, JsonText, Dump.** No state: a function of the library is an
  operator from bytes to a record of the count it returns (`n`) and the value,
  and a local recursion for its loops. A double counts halves, which is what the
  text form keeps apart, and its bytes are a sign and a magnitude; `DoubleLen`
  and `FloatLen` are two, so that each can be cut in the middle.
* **Stream.** `buf` are the writer's buffers, with the boxes in them; `precached`
  and `redirect` the globals of the precache. `Send` hands a buffer over and
  resets the precache with it, as a client does that starts a new message;
  `Arrive` delivers any number of units; `Receive` is the client's call on what
  has arrived, when it returns a value: on 0 it waits. A unit is a byte, but an
  integer with its type is one unit: `tinybuf_value_deserialize` takes an integer
  that ends early for a success (section 5).
* **Result.** `result` are the client's `tinybuf_error` structs: each has a verdict,
  a pointer to a list (`list`), a pointer to a count (`cell`), and the number of
  references held through it (`refs`). `counts`, `lists` and `nodes` are the
  allocated counts, `holestrlist` and `hole_string` objects, `hand` the hole
  strings the client has not given away, `deleted` how often each text's deleter
  ran. A message without deleter is stored as itself. `tinybuf_result_ref` is two
  actions: `Ref` through the struct itself, and `Copy` for a copy of it, which
  then shares the count and has a pointer to the list of its own. `Unref` frees,
  with the last reference, the list that *this* struct points to. As long as
  there are copies the client only reads the result (`Sole`): a merge out of one
  copy, or a first message added to it, changes the pointer of that copy alone,
  and the code has nothing that would tell the others. The repository itself
  makes no copy after it took a reference, and its tests take and release
  references through one struct.
* **Plugins.** `plugins`, `map` and `customs` are `s_plugins`,
  `s_plugin_runtime_map` and `s_customs`; `objects` what was attached to object
  types. `value` is a value with its tag and plugin index, and the guid of the
  plugin that read it; `box` the last id box written, by name and writer. Whoever
  is asked to read or write may fail. The messages of a call go into a result of
  `Result`. The reader of an id box leaves texts with a deleter (the index and the
  length it read, one text in the model), and so does whoever it asks, which
  usually reads boxes itself (`Told`, one text at most). What those asked are told
  is put into the result of the reader when it reads a plain box itself, and
  else into a local one that is dropped without a release (`lost`); a writer's
  local result is merged when the writer failed and dropped when it did not.

Mutants, the plausible bugs the properties are meant to catch, stand right
before the operator they change and are used nowhere else.

## 3. Runs

| Run | Question | Bounds, and why they suffice |
|---|---|---|
| `MCBuffer` | is the terminator always inside the block, does appending one buffer to another add exactly its content, does dump_int keep all its bytes | two buffers of at most two bytes plus integers of two; `RESERVED_SIZE` 1 instead of 64 and 3 bytes of room for integers instead of 16 put every growth decision within the bound |
| `MCStrPool` | do the indices of a box resolve, and is its table exactly its strings | three strings, writers three deep, two strings in a pool: enough for an inner writer to displace, extend or repeat the outer one's strings, and for abandoned writers |
| `MCStrPoolNested` | the same for every box, nested writers or not: violated | as above |
| `MCTriePool` | is the table a tree with one leaf per string, do names come back | every pool of at most three distinct strings of length at most two over two characters: empty strings, prefixes, shared edges |
| `MCTriePoolString` | do pooled strings come back: violated | pools of two strings |
| `MCOffsetPool` | is the lock exclusive, given back and deadlock free; is the table an atomic map that loses nothing | two threads, two offsets, two values, first allocation 1 so that the array grows; `MaxNest` 1, since reads nested two deep (1.7 million states, checked once by hand) show nothing more and the proofs cover every depth; no symmetry, since some properties are about time |
| `MCBoxReader` | does a box come back as what was written for the versions the client accepts; is the cursor where the result says; does a refused box restore it; is a custom type found | every pair of boxes; digits of two bits (`Radix` 4, three digits instead of nine) so that integers and offsets of parts take one to three digits; two versions and every set of accepted ones; the buffer arrives in one or two pieces, cut anywhere |
| `MCBoxReaderCursor` | does a successful read move the cursor: violated | as above |
| `MCAvlTree` | do links agree and heights hold at every step of balancing, do walks by index meet all nodes in order, is the tree a map | twelve keys, since removing a node of a sparse tree of height five is the smallest case of rotations at two levels; the constraint `SmallOrLarge` keeps all trees over the first nine keys, and of the larger ones only those with at least ten nodes; one key has two values |
| `MCValueTree` | is no value, buffer or struct freed twice, leaked or used after it was freed; is the stack of values being cleared exact | four values and three blocks: a map in a map, a version in it, and a value outside that refers to it; a string or tensor, its clone, and one whose struct is gone. With three values a discipline that is too weak for indirect references goes unnoticed; five show nothing that four do not |
| `MCStream` | do values arrive complete, in order and once, wherever they are cut; do pointers name what they stand for; does the dump consume and mark what is there | two buffers, three boxes, two values on their way: enough for an entry made for the other buffer, registered twice, or made before the buffer was emptied. Four values hold every type at some depth, seven JSON values every type and both kinds of escapes; integers of one and two digits, two being the most the reader takes (`MaxGroups`) |
| `MCPlugins` | is every text deleted once or dropped by the library and every message listed in order, has every list and hole string one owner and every count its references; does an id box or a value reach the plugin it belongs to | two structs (a result and its copy, or two results that are merged) with up to two references through each, two texts and two hole strings, two messages in a list; three plugins, two with a guid, one with two tags, one without guid; a custom and an object type; two of these entered at a time, with every map of guids, so that two plugins can be registered again in the other order |

Part tables are written first in the buffer only, since the writer counts
offsets from the table and the reader from the buffer; entries of lists are
plain values, since the reader does not count the table behind an id box.
Deadlock is not checked in `MCBoxReader`, where the client stops when the bytes
are read or refused, nor where a system has a bound on what is written
(`MCStream`, `MCPlugins`), nor in `ValueTree`, where a client that made a ring of
versions of all its values may keep them forever. Addresses are symmetric in
`MCValueTree` and `MCPlugins`, buffers in `MCStream`.

More bounds of `Stream`: the writer has written all before the first byte arrives
(`Room`, `Arrive`), since what the reader does depends on the bytes alone.
Buffers with pointers are not sent: the library has no reader of pointers behind
the deserialiser, so `PointersResolve` follows them itself. Values that are not
sent because the two functions disagree about them are named by `Readable`. The
cases of versions in `Dump` are translated but no buffer of the run has one.
More bounds of `Plugins`: the client either builds results and texts of its own,
or uses the registries with results that were just made (`SetUp`, `Idle`), since
a call does not look at what its result had before; the registries and the value
change while no result is out; the client has either a value or a box. An id box
is read only while a text is left for the reader to add: where it cannot be read
as far as its name, it leaves no text. A plugin that is handed the caller's
result (`DispatchByTag`, `ReadWithPlugins`) adds nothing to it but its failure:
what else it could add is what the client's `AddMsg` does, and `ReadWithPlugins` is
called on plain boxes.

What the properties do not reach: `SameProvider` rests on `PluginsAssumption`,
which keeps tags, guids and names apart, so it says nothing of two providers of
one name, of the tag 0 of a cleared value, or of the empty id box a failed plugin
leaves, which are in section 5 instead; what it is about is registration,
unregistration and the runtime map between writing and reading.
`FirstIdBoxTyped` is about the first box of a buffer: the position of the string
table is wrong for the later ones.

Fairness: `OffsetPool!FairSpec` asks that a thread inside `pool_lock` or
holding the lock keeps running (weak fairness of its lock steps), which is what
a scheduler gives a runnable thread; nothing makes a thread start or finish a
box. The flag is not fair, so only deadlock freedom is claimed, not that each
thread gets in. `TriePool!FairSpec` asks that the single-threaded reader keeps
running. `Stream` has no fairness: nothing makes a client call again, and that a
complete value is never refused is the safety property `ReadsExactly`.

## 4. What is proved

| Theorem | Says, for all constants |
|---|---|
| `BufferProofs!BufferTyped`, `BufferSafe` | buffers are well formed; no operation stores past the block, content is terminated |
| `BufferProofs!AppendBufferIsExact`, `DumpIntIsExact` | appending a buffer adds exactly its content; an integer is stored with all its bytes |
| `StrPoolProofs!StrPoolTyped`, `UninterruptedBoxResolves`, `UninterruptedBoxExact` | the indices of a box no other writer interrupted resolve in its own table, which holds its strings once each and no other |
| `OffsetPoolProofs!OffsetPoolTyped`, `LockExcludes`, `OneEntryInCapacity`, `CompletionFindsEntry` | mutual exclusion for any number of threads, one entry per offset within the allocation, completion finds its entry |
| `OffsetPoolProofs!PoolImplementsMap` | the table under its lock implements `OffsetMap` |
| `TriePoolProofs!TriePoolTyped`, `TableAlwaysTrie`, `NamesDecode` | the trie is a tree with a leaf of its own per string, and the name reader returns the pooled name |
| `ValueTreeProofs!ValuesTyped`, `NothingUsedAfterFree` | no value, block or child is touched after it was freed, whatever order values are inserted, shared, cleared and freed in |
| `ValueTreeProofs!EverythingOwnedOnce`, `ClearStackIsExact` | every allocated value has one owner and every buffer and struct a value, so none of these is freed twice or leaked; a tensor has its inner blocks as long as it is there, and what is left behind is the inner blocks of structs that are gone, and nothing else; the stack of values being cleared is the chain of calls in progress |
| `AvlTreeProofs!Typing`, `Balanced` | at every step of an operation links are well formed and agree both ways, and what balancing does not visit any more has exact heights that differ by one at most, for any number of keys and nodes |
| `AvlTreeProofs!Indexed` | walks by index meet all nodes, in the order of their keys, and `num_nodes` is their number |
| `AvlTreeProofs!TreeIsMap` | the tree implements `OrderedMap` |
| `PluginsProofs!MessagesOwnedOnce` | whatever a client that keeps to `Sole` does with results, their copies and hole strings, and whatever the calls of the library add to them, a text is in one place, was deleted once, or was in a result the library dropped; a hole string has one owner; a list is that of one count, and the count is the number of references |
| `PluginsProofs!RegistriesTyped`, `ProviderIsFound` | what one plugin or type wrote or read goes to no other, whatever was registered and unregistered since |
| `PluginsProofs!MessagesAreLogged` | results, with their lists, hole strings and counts, implement `MessageLog` |
| `BoxReaderProofs!TypeCorrect` | the cursor stays on a byte that arrived, through every failure and jump |
| `BoxReaderProofs!Inductive` | calls of the reader are always at a phase of reading the box that was asked for |
| `BoxReaderProofs!ReadsSelected`, `MovesExactly`, `RefusedInPlace`, `TypedFirst` | boxes of every kind come back as what was written for the accepted versions, with the cursor where the result says, or are refused in place; a custom type at the start is found |
| `BoxReaderProofs!IntDeserializeExact` | `int_deserialize` is the inverse of `int_serialize`, whatever follows the digits |
| `BoxReaderProofs!HeaderLenOf`, `StableOffsetsOf` | the two loops that look for the length of an offset that counts itself end, at the right length |

Assumptions: only the named assumptions on constants of each component module,
which TLC evaluates in every run. `NamesAssumption` keeps names of texts
and constants apart from the numbers that stand for objects; `PluginsAssumption`
says that no two plugins list the same tag or guid and that customs and object
types have different names, as in `MCPlugins`. `AvlTreeAssumption` orders keys like
integers, as any `compare_func` of a finite set does, and lets a node be called
like the key it was made for. `BoxReaderAssumption` says what a box is (a plain
box and a version have one value, a list a version for each) and that no number
in a box, nor the length of the whole box, has more than the nine digits
`int_deserialize` takes: lengths are an `int` in the code, five digits at most,
and larger values are the known divergence at `tinybuf_deserialize.c:336`
(section 5).

Along which argument:

* *Buffer.* The invariant is that the block is as long as the capacity says
  (zero for none) and every allocated block has a byte behind the content; each
  of the growth cases re-establishes it by arithmetic on the three sizes. That an
  append is exact follows from lemmas on what growing and storing leave in place:
  the new block agrees with the old one below the old length and with the source
  behind it.
* *StrPool.* `TableResolves` speaks of the finished box only. The invariant adds
  that the innermost writer, if nothing interrupted it, has in the global pool
  exactly the strings its references name, each at its index; that every writer
  below the innermost is marked interrupted; and that an id box has its name at
  index 0. Only then does finishing a box establish the property.
* *OffsetPool.* Mutual exclusion follows from: the flag is set exactly when some
  thread is past `pool_lock`. With it, what a scan found is still true when the
  update uses it (`hit` is the first entry of the offset), which gives unique
  entries and the refinement: `Register` and `MarkComplete` map to the abstract
  steps and everything else stutters.
* *TriePool.* The invariant relates the trie to the strings inserted so far:
  parents come first, no parent has two edges for a character, the path to the
  writer's node spells the characters inserted so far, and leaves belong to
  exactly one string. A climb keeps that what it collected, read backwards, is
  the rest of the path.

* *ValueTree.* The invariant says who owns what at every point of a call: what is
  allocated is the client's, is in one map, or is the value a call is inserting
  or freeing; no map is inside itself; the target of a version is the client's,
  or a map around the version. It also says why each call on the stack was made
  (`Reached`): what is freed was reached from its only parent, so it is on the
  stack once, and a target that is no root is being cleared already. The proof
  found one step of the model that kept none of this: a clone keyed by the
  address of the original's string instead of by its text, where the code copies
  the text.
* *AvlTree.* The invariant speaks of the set of nodes from each node down, which
  the links determine: it is the node and the disjoint sets of its children, the
  left one of smaller and the right one of greater keys. Sets get smaller on the
  way down, so that a smallest set for which something fails gives what an
  induction over the tree would, and also that the recursive walks have values.
  Only the nodes above the one where balancing is may be uneven (`Level`): they
  were even with the heights the trees below them had before the operation, of
  which only the one balancing comes from has changed, by one. An iteration
  therefore finds trees that differ by two at most; rotations are shown to keep
  the order and to settle the node they turn, and the height it then has differs
  by one at most from what it was, which is `Level` one node further up. A
  removal is a node taken out of the bottom of the tree and, where it was another
  one, put in the place of the removed node, whose key it fits next to.
* *Result and Plugins.* The invariant of results is a predicate of the
  variables as arguments, not of the state: an operation is decomposed into a few
  elementary changes (take a list away from a result, move a node to a list,
  delete a text, ...), each with a lemma that the predicate survives it, and the
  action's lemma chains them. It needs nothing about the shape of hole strings
  put into one another, only that each has one place. That a count is the number of
  references is what makes the release of the last one free the list while no other
  struct points to it. `Plugins` calls the
  operations of `Result` and inherits the lemmas; its own invariant says that
  every entry of a table names a type that entry alone has, that a value's index
  is the one of the plugin that read it or -1, and that the writer of a box stays
  registered while the box is there.
* *Refinement of MessageLog.* What a result shows is defined by a recursion over
  its hole strings. Recursion over finite data is brought within reach by a
  smallest counterexample: a set of results for which no assignment of texts
  satisfies the recursion has, by well-founded order, a smallest one, which
  cannot be. An operation then shows the same messages for every result whose
  hole strings it does not touch, and a merge adds the source's messages behind
  the destination's in each of the three ways the code treats the two lists.

* *BoxReader, bytes.* That digits are what they are defined to be, that the
  recursion of `int_deserialize` sums them up, and that a loop over guesses ends,
  is shown by a smallest counterexample as well: a rising function of the guess
  that starts below its value and meets a bound has a fixed point below the bound
  and the loop finds it (`LoopEnds`), and the length of an integer grows more
  slowly than any offset (`LengthOutgrown`), which gives the bound. With the
  lengths settled, each format is a list of pieces at known places (`Pieces`),
  and a reader of one piece needs only the bytes of that piece (`Holds`), so it
  does not matter what else is in the buffer.
* *BoxReader, steps.* `IInv` has three parts. `TypeInv` bounds the cursor: an
  offset is not checked before the jump to it, so while a call has jumped, what
  is on a byte that arrived is the position the outermost jump goes back to.
  `WrittenInv` says that each box still has its bytes. `ProgressInv` lists, for
  the box that the client's call began at, the phases of reading it: which calls
  are on the stack, at which block, with which count, and where the cursor is. A
  count is the distance of the cursor from the start of the box, which is what
  makes a refusal go back exactly; at the end of the buffer, where a cursor
  cannot move, `Past` says where it stays. Five lemmas, one for each kind of
  box, show that a step of the reader leads from a phase to the next or to the
  result (`VersionStep` and `PartStep` share `WrappedStep`, the reading of one
  value behind a number, with the main part of a table); `IInv` was checked by
  TLC on the instance of `MCBoxReader` before it was proved.

Only model-checked: liveness (`LockProgress`, `NameResolves`), which needs
fairness, and `Stream` with its refinement of `Channel`, whose codecs are
recursive operators, which the provers do not take. Of `BoxReader`, what is said
is about boxes whose entries and parts are plain, and id boxes at the start of
the buffer, in the runs as in the theorems: elsewhere the table of an id box is
looked for at the wrong place (section 5).

## 5. Findings

* Nested writers empty the one global string pool (run `MCStrPoolNested`). A
  `hetero_list` written with the pool on no longer finds its type name.
* The reader of pooled strings takes the stored parent for an index and does not
  terminate (run `MCTriePoolString`), where the reader of names decodes it.
* A box that ends the buffer is read without moving the cursor (run
  `MCBoxReaderCursor`), so a client that reads until an error reads it forever.

Observed in the code and outside the properties; each property's guard says so.

Boxes: a version list of which an early entry is selected leaves the cursor
inside the list; a part table returns the length of its header only; a part
table whose main part fails still succeeds; a refused box at the end of a buffer
leaves the cursor displaced; an id box inside a version, part or later in the
buffer is read with a position of the table that counts from the box.

Values: an integer cut by the end of the buffer is read as what has come
(`tinybuf_deserialize.c:48`); one of ten digits cannot be read (`:336`); a string
or key of length zero takes the bytes that follow up to a zero (`:403`, `:628`,
`buffer_assign`); a vector of integers is counted as one byte (`:154`); a tensor
of bits comes back packed; the dump prints doubles in the machine's byte order
(`tinybuf_dump.c:224`).

JSON: text that ends in a `\uXXXX` escape is waited for forever
(`tinybuf_json.c:574`); a number that ends what has arrived is taken as complete
(`:951`); a whole double comes back as an integer.

Ownership: of a tensor or bitmap only the struct is freed: its shape and data,
or its bits, which `tinybuf_types.c:66`, `:76` and `:108` and the deserialiser
allocate, are lost on every clear, free or new initialisation
(`tinybuf_value_api.c:92`, with `_custom_free` NULL), though
`src/include/tinybuf.h:54` says that the object is destroyed. In `ValueTree`
these are the blocks of `inner` whose struct is no longer in `used`. A clone of
a tensor or bitmap shares its struct with the original, and both free it
(`tinybuf_value_ops.c:136`); a tensor of which not all has arrived leaves its
struct and shape behind each time it is tried (`tinybuf_deserialize.c:81`,
`:187`); a version that refers to a sibling, or a replaced entry that refers
back to its map, clears freed memory; the memory of hole strings inside others
is never released; resetting the string pool forgets its buffers
(`tinybuf_strpool.c:19`).

Results: a read that succeeds leaves messages, since `tinybuf_read_box.c:394`
adds one before anything is read and the reader of an id box two more (`:647`,
`:672`), where `tests/unit/basic_custom_tests.cpp:80` and `:134` expect none;
`ReadIdBox` adds them as the code does. The local result of the reader of an id
box (`tinybuf_read_box.c:834`) is dropped without a release whether the box was
read or not, with the texts that those asked left in it (`:645-647`, `:670-672`
of an inner box), whose deleters never run; so are the local results of a writer
that succeeds (`tinybuf_write.c:598`, `:683`). Counts and lists of the other
local results of the library go the same way; of those, only the local result of
a part's writer (`tinybuf_write.c:271`) can hold a text with a deleter, that of
an id box that failed inside, and it loses it as the others do; the model leaves
them out. A copy of a result keeps its own pointer to the list
(`tinybuf_result.c:163`), so that after a merge out of another copy (`:209-210`)
its messages belong to someone else.

Plugins: a failed plugin leaves an id box with an empty payload in the output
(`tinybuf_write.c:735`); a cleared value has tag and index 0 where a new one has
-1 (`tinybuf_value_api.c:167`); a plugin's failure stays among the messages of a
read that another reader completed, and its verdict is overwritten
(`tinybuf_plugin.c:339`); a plugin with several tags is asked with the first of
them when it is found by name; when an object type's writer fails after it wrote,
a plain box follows its bytes (`tinybuf_plugin.c:634`).

## 6. Plan

1. Version lists in `ValueTree`; the plugin map table and map headers in the
   writer.
2. The registry of dynamic types and methods (`src/dyn_sys`).

## 7. Not modelled, and why

* `3rdpart` is vendored; `tests`, `benchmark.cpp` and `examples` are read as
  statements about the library.
* Of JSON, numbers with an exponent or several decimals; of the dump, the text
  itself and the boxes with type names; of hole strings, numbers and printing.
* Sparse tensors: the serialiser writes them, every reader refuses them.
* Finding shared libraries and their symbols is I/O; what a loaded library
  registers is `RegisterLibrary` in `Plugins`.
* The script interpreter is a separate Rust crate with a grammar of its own.
* Copies of a result that are changed while there are others (section 2), and
  values of a type of their own with a function to free them.
* The rest is in the plan and listed as not modelled in `PROJECT.json`.
* Allocation failure is not modelled: the code asserts that it does not happen.
