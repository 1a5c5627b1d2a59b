------------------------------- MODULE Plugins -------------------------------
(***************************************************************************)
(* Who reads and writes a box of a type of its own                         *)
(* (src/source/tinybuf_plugin.c, tinybuf_write.c, tinybuf_serialize.c,     *)
(* tinybuf_read_box.c): plugins, known by their tags and by a guid, the    *)
(* custom serializers and the object types, known by a name, and the map   *)
(* from run time indexes to guids by which a value remembers its plugin.   *)
(* Every failure is reported through the results of Result.                *)
(*                                                                         *)
(* The bytes are left out: a box that was written is its name and who      *)
(* wrote its payload, and whoever is asked to read or write may fail.  The *)
(* messages a function adds in a row stand as one.                         *)
(***************************************************************************)
EXTENDS Result

CONSTANTS
  Descriptors, (* the plugins: records [guid, tags]                         *)
  Customs,     (* names of custom types                                     *)
  Objects,     (* names of object types                                     *)
  MaxEntries   (* bound: plugins, customs and objects entered together      *)

Guids == {d.guid : d \in Descriptors} \ {None}
Tags == UNION {ToSet(d.tags) : d \in Descriptors}
Names == Customs \cup Objects
Maps == {m \in SeqOf(Guids, Cardinality(Guids)) : IsInjective(m)}

(* What the authors of plugins and types see to: no two share a tag, a guid or
   a name.                                                                  *)
ASSUME PluginsAssumption ==
  /\ IsFiniteSet(Descriptors)
  /\ \A d \in Descriptors : d.tags \in Seq(0 .. 255) \ {<<>>}
  /\ \A d, e \in Descriptors : d # e =>
       /\ ToSet(d.tags) \cap ToSet(e.tags) = {}
       /\ (d.guid = e.guid) => d.guid = None
  /\ Customs \cap Objects = {} /\ Guids \cap Names = {}
  /\ Consts # {} /\ MaxEntries \in Nat
  /\ None \notin [by : {"custom", "object"} \X Names, writes : BOOLEAN]

VARIABLES
  plugins,     (* s_plugins                                                 *)
  map,         (* s_plugin_runtime_map                                      *)
  customs,     (* s_customs: of each name [by, writes], or None             *)
  objects,     (* the serializers attached to object types                  *)
  value,       (* a tinybuf_value, and the guid of the plugin that read it  *)
  box          (* the last id box written: [name, by, full], or None        *)

registry == <<plugins, map, customs, objects>>
vars == <<heap, registry, value, box>>

NewValue == [tag |-> 0 - 1, index |-> 0 - 1, null |-> TRUE, by |-> None]

Init ==
  /\ InitHeap
  /\ plugins = <<>> /\ map = <<>>
  /\ customs = [n \in Names |-> None]
  /\ objects = [n \in Names |-> None]
  /\ value = NewValue
  /\ box = None

Said == CHOOSE c \in Consts : TRUE
Plugin(g) == <<"plugin", g>>
Plain == <<"plain", None>>

plugin_list_index_by_tag(tag) == LET Has(d) == tag \in ToSet(d.tags) IN SelectInSeq(plugins, Has)
plugin_list_index_by_guid(g) == LET Is(d) == g # None /\ d.guid = g IN SelectInSeq(plugins, Is)

(* From 0, and -1 when the plugin of the tag is not in the map.              *)
runtime_index_by_tag(tag) ==
  LET i == plugin_list_index_by_tag(tag)
      Is(g) == i # 0 /\ g = plugins[i].guid
  IN  SelectInSeq(map, Is) - 1

(* Mutant of plugin_list_index_by_runtime_index: the index is the entry of the
   plugin table.                                                            *)
ListIndexItself(i) ==
  IF i \in 0 .. Len(plugins) - 1 /\ i < Len(map) THEN i + 1 ELSE 0

plugin_list_index_by_runtime_index(i) ==
  IF i + 1 \in DOMAIN map THEN plugin_list_index_by_guid(map[i + 1]) ELSE 0

-----------------------------------------------------------------------------
(* The registries.                                                         *)

(* The client starts with the registries before it makes results and texts of
   its own: the two halves of its work are not combined (a bound).  Later on it
   releases the result of a call before it does something else (a bound).   *)
Idle ==
  /\ registry = <<<<>>, <<>>, [n \in Names |-> None], [n \in Names |-> None]>>
  /\ value = NewValue /\ box = None /\ lost = {}
NoResult == \A r \in Results : ~Live(r)
SetUp == NoResult /\ (Idle => given = {} /\ nodes = <<>>)

Named(f) == Cardinality({n \in Names : f[n] # None})
Entered == Len(plugins) + Named(customs) + Named(objects)

(* tinybuf_plugin_register_descriptor.                                      *)
RegisterPlugin(d) ==
  /\ SetUp /\ Entered < MaxEntries
  /\ plugins' = Append(plugins, d)
  /\ UNCHANGED <<heap, map, customs, objects, value, box>>

(* The map and the values keep what they have.                              *)
UnregisterAll ==
  /\ SetUp /\ plugins # <<>>
  /\ plugins' = <<>>
  /\ UNCHANGED <<heap, map, customs, objects, value, box>>

(* The map is not changed under a value that remembers an index of it.       *)
SetRuntimeMap(m) ==
  /\ SetUp /\ value.by = None
  /\ map' = m
  /\ UNCHANGED <<heap, plugins, customs, objects, value, box>>

(* tinybuf_custom_register: a name that is known gets the new functions.  A
   writer may be missing, a reader may not.                                 *)
CustomRegister(n, writes) ==
  /\ SetUp /\ (Entered < MaxEntries \/ customs[n] # None)
  /\ customs' = [customs EXCEPT ![n] = [by |-> <<"custom", n>>, writes |-> writes]]
  /\ UNCHANGED <<heap, plugins, map, objects, value, box>>

(* tinybuf_oop_attach_serializers, once for a type.                         *)
AttachObject(n, writes) ==
  /\ SetUp /\ objects[n] = None /\ Entered < MaxEntries
  /\ objects' = [objects EXCEPT ![n] = [by |-> <<"object", n>>, writes |-> writes]]
  /\ UNCHANGED <<heap, plugins, map, customs, value, box>>

RegisterTypesToCustom ==
  /\ SetUp /\ Entered < MaxEntries
  /\ customs' = [n \in Names |-> IF objects[n] # None THEN objects[n] ELSE customs[n]]
  /\ UNCHANGED <<heap, plugins, map, objects, value, box>>

(* tinybuf_plugin_register_from_dll of a library with a descriptor and an init
   function that registers a custom type, and the built-in plugins: first the
   plugin, then the type.  A library with one of them is one of the above.   *)
RegisterLibrary(d, n) ==
  /\ SetUp /\ Entered + (IF customs[n] = None THEN 2 ELSE 1) <= MaxEntries
  /\ plugins' = Append(plugins, d)
  /\ customs' = [customs EXCEPT ![n] = [by |-> <<"custom", n>>, writes |-> TRUE]]
  /\ UNCHANGED <<heap, map, objects, value, box>>

-----------------------------------------------------------------------------
(* The value.                                                              *)

(* tinybuf_value_clear zeroes all of a value that is not null, the tag and the
   index a new value has as -1 included.                                    *)
Cleared == IF value.null THEN value ELSE [tag |-> 0, index |-> 0, null |-> TRUE, by |-> None]
Holding == [Cleared EXCEPT !.null = FALSE]

ValueNew == SetUp /\ box = None /\ value' = NewValue /\ UNCHANGED <<heap, registry, box>>
ValueInit == SetUp /\ ~Idle /\ box = None /\ value' = Holding /\ UNCHANGED <<heap, registry, box>>
ValueClear == SetUp /\ ~Idle /\ box = None /\ value' = Cleared /\ UNCHANGED <<heap, registry, box>>

(* tinybuf_value_set_custom_box_tag.                                        *)
SetTag(tag) ==
  /\ SetUp /\ ~Idle /\ box = None
  /\ value' = [value EXCEPT !.tag = tag]
  /\ UNCHANGED <<heap, registry, box>>

(* The value after the plugin at i read it: it keeps the run time index of the
   tag the plugin was asked with (dll_upper_read).                          *)
ReadBy(i, tag) ==
  [Holding EXCEPT !.index = runtime_index_by_tag(tag), !.by = plugins[i].guid]

(* tinybuf_plugin_do_value_op and _by_tag with the value as its own result: a new
   string, and no longer the one the plugin at i read (dll_to_lower).        *)
DoValueOp(i) ==
  /\ SetUp /\ box = None /\ ~value.null /\ i # 0
  /\ value' = Holding
  /\ UNCHANGED <<heap, registry, box>>

-----------------------------------------------------------------------------
(* Calls.  A call gets a result that was just made.  The client frees the value
   when a box was written of it, and drops the box when it was read: it has one
   or the other (a bound).                                                  *)

Called(r) ==
  /\ ~Idle
  /\ Live(r) /\ Sole(r)
  /\ result[r].res = 0 /\ result[r].list = None /\ result[r].refs = 1

(* tinybuf_plugins_try_write, _try_dump_by_tag and _try_show_value: the plugin
   of the tag says nothing more, or the failure is reported.                *)
DispatchByTag(r, tag) ==
  /\ Called(r)
  /\ \/ plugin_list_index_by_tag(tag) # 0 /\ UNCHANGED heap
     \/ Say(r, 0 - 1, <<Said>>)
  /\ UNCHANGED <<registry, value, box>>

(* tinybuf_try_read_box_with_plugins: the plugin of the first byte and, when
   there is none or it returns -1, the readers of the library; the report of
   the plugin's failure stays.  A plugin that finds too few bytes (0) is not
   followed by another reader.                                              *)
ReadWithPlugins(r, tag) ==
  /\ Called(r) /\ box = None
  /\ LET i == plugin_list_index_by_tag(tag)
     IN  \/ i # 0 /\ value' = ReadBy(i, tag) /\ UNCHANGED heap
         \/ i # 0 /\ UNCHANGED value /\ Say(r, 0 - 1, <<Said>>)
         \/ value' = Holding /\ Say(r, 1, <<Said, Said>>)
         \/ UNCHANGED value /\ Say(r, 0 - 1, <<Said, Said>>)
  /\ UNCHANGED <<registry, box>>

(* What those who are asked put into the result of their own they are given:
   nothing, or a text with a deleter (a bound), as an id box inside the payload
   leaves one.                                                              *)
Told == {<<>>} \cup {<<u>> : u \in Texts \ given}

(* The library says something with the texts of row in a hole string, and drops
   a result with some others in it.                                         *)
Tell(r, res, items, row, dropped) ==
  /\ AddItems(r, res, items)
  /\ nodes' = With(nodes, NewHole, row)
  /\ given' = given \cup ToSet(row) \cup dropped
  /\ lost' = lost \cup dropped
  /\ UNCHANGED <<counts, hand, deleted>>

(* A failed id box: what the writer told, and the name as a text of its own.
   The box stays in the output, with an empty payload.                      *)
WriteFails(r, name, by, said) ==
  /\ \E told \in Told, t \in Texts \ given :
       t \notin ToSet(told) /\ Tell(r, 0 - 1, said, Append(told, t), {})
  /\ box' = [name |-> name, by |-> by, full |-> FALSE]
  /\ value' = NewValue

(* r->res = total, whatever it was, and what was told in a result of their own by
   those who were asked (wr_local) is lost.                                 *)
Succeeds(r, told) ==
  /\ result' = [result EXCEPT ![r].res = 1]
  /\ given' = given \cup ToSet(told)
  /\ lost' = lost \cup ToSet(told)
  /\ UNCHANGED <<counts, lists, nodes, hand, deleted>>

WriteSucceeds(r, name, by) ==
  /\ \E told \in Told : Succeeds(r, told)
  /\ \E full \in BOOLEAN : box' = [name |-> name, by |-> by, full |-> full]
  /\ value' = NewValue

(* tinybuf_value_serialize of a value with a tag of a plugin that has a guid:
   tinybuf_try_write_plugin_id_box under that guid.  A write of 0 bytes
   counts as a success.                                                     *)
SerializeValue(r) ==
  LET t == plugin_list_index_by_tag(value.tag)
      g == plugins[t].guid
  IN  /\ Called(r) /\ box = None
      /\ value.tag >= 0 /\ t # 0 /\ g # None
      /\ \/ plugin_list_index_by_guid(g) # 0 /\ WriteSucceeds(r, g, Plugin(g))
         \/ WriteFails(r, g, Plugin(g), <<NewHole>>)
      /\ UNCHANGED registry

(* tinybuf_custom_try_write: the custom type's writer, or else the object
   type's, and, when that is missing or fails, a plain box.                  *)
WriteCustomIdBox(r, n) ==
  LET c == customs[n]
      o == objects[n]
      hasWriter == c # None /\ c.writes
      By(by) == WriteSucceeds(r, n, by)
      Fails(by) == WriteFails(r, n, by, <<Said, NewHole, Said>>)
  IN  /\ Called(r) /\ box = None
      /\ \/ hasWriter /\ (By(c.by) \/ Fails(c.by))
         \/ ~hasWriter /\ o # None /\ o.writes /\ By(o.by)
         \/ ~hasWriter /\ (By(Plain) \/ Fails(Plain))
      /\ UNCHANGED registry

(* Whom the reader of an id box asks, in this order, before it takes the payload
   for a plain box: the plugin with that guid, the custom type, and the object
   type when there is no custom type of the name.                           *)
Asked(name) ==
  (IF plugin_list_index_by_guid(name) # 0 THEN <<Plugin(name)>> ELSE <<>>)
  \o (IF name \notin Names THEN <<>>
      ELSE IF customs[name] # None THEN <<customs[name].by>>
      ELSE IF objects[name] # None THEN <<objects[name].by>> ELSE <<>>)

(* The name_idx case of try_read_box, which adds texts about the box: the first
   one asked that succeeds.  What those asked say goes into a result of their own
   (cr), which is dropped, and what a reader of a plain box says into r.  A
   plugin is asked with the first of its tags, and an empty payload is no plain
   box.  A box that breaks off before its name leaves no text.              *)
ReadIdBox(r) ==
  /\ Called(r) /\ box # None
  /\ \/ UNCHANGED value /\ Say(r, 0 - 1, <<Said>>)
     \/ \E t \in Texts \ given, told \in Told :
          LET i == plugin_list_index_by_guid(box.name)
              Asks(res) == Tell(r, res, <<NewHole>>, <<t>>, ToSet(told))
              Reads(res) == Tell(r, res, <<NewHole>>, <<t>> \o told, {})
          IN  /\ t \notin ToSet(told)
              /\ \/ i # 0 /\ value' = ReadBy(i, plugins[i].tags[1]) /\ Asks(1)
                 \/ Asked(box.name) # <<>> /\ box.name \in Names /\ value' = Holding /\ Asks(1)
                 \/ box.full /\ value' = Holding
                      /\ (Reads(1) \/ (Asked(box.name) # <<>> /\ Asks(1)))
                 \/ UNCHANGED value /\ (Reads(0 - 1) \/ (Asked(box.name) # <<>> /\ Asks(0 - 1)))
  /\ box' = None
  /\ UNCHANGED registry

(* tinybuf_custom_try_dump: nobody but the object type or the custom type of
   the name prints, and each of them may fail.                              *)
DumpByName(r, n) ==
  /\ Called(r)
  /\ \/ (objects[n] # None \/ customs[n] # None) /\ Succeeds(r, <<>>)
     \/ Say(r, 0 - 1, <<Said>>)
  /\ UNCHANGED <<registry, value, box>>

-----------------------------------------------------------------------------
Next ==
  \/ Idle /\ Client /\ UNCHANGED <<registry, value, box>>
  \/ \E d \in Descriptors : RegisterPlugin(d)
  \/ UnregisterAll
  \/ \E m \in Maps : SetRuntimeMap(m)
  \/ \E n \in Customs, writes \in BOOLEAN : CustomRegister(n, writes)
  \/ \E n \in Objects, writes \in BOOLEAN : AttachObject(n, writes)
  \/ RegisterTypesToCustom
  \/ \E d \in Descriptors, n \in Customs : RegisterLibrary(d, n)
  \/ ValueNew \/ ValueInit \/ ValueClear
  \/ DoValueOp(plugin_list_index_by_runtime_index(value.index))
  \/ \E tag \in Tags : DoValueOp(plugin_list_index_by_tag(tag))
  \/ \E tag \in Tags : SetTag(tag)
  \/ \E r \in Results :
       \/ ~Idle /\ NoResult /\ ResultOk(r, 0) /\ UNCHANGED <<registry, value, box>>
       \/ ~Idle /\ Unref(r) /\ UNCHANGED <<registry, value, box>>
       \/ \E tag \in Tags : DispatchByTag(r, tag) \/ ReadWithPlugins(r, tag)
       \/ SerializeValue(r) \/ ReadIdBox(r)
       \/ \E n \in Names : WriteCustomIdBox(r, n) \/ DumpByName(r, n)

Spec == Init /\ [][Next]_vars

-----------------------------------------------------------------------------
Entries(n) == {[by |-> <<kind, n>>, writes |-> w] : kind \in {"custom", "object"}, w \in BOOLEAN}

(* Every reference of the heap and of the registries is to what exists.      *)
TypeOK ==
  /\ HeapTyped
  /\ plugins \in Seq(Descriptors)
  /\ map \in Maps
  /\ \A n \in Names : customs[n] \in Entries(n) \cup {None} /\ objects[n] \in Entries(n) \cup {None}
  /\ value.tag \in Tags \cup {0 - 1, 0} /\ value.index \in (0 - 1) .. Cardinality(Guids)
  /\ value.null \in BOOLEAN /\ value.by \in Guids \cup {None}
  /\ box # None => /\ box.name \in Guids \cup Names
                   /\ box.by \in {Plugin(box.name), <<"custom", box.name>>, <<"object", box.name>>, Plain}

Registered(g) == \E j \in DOMAIN plugins : plugins[j].guid = g

(* However plugins are unregistered and registered again, in whatever order and
   number, and whatever else is registered in between: an id box is read first
   by the plugin or type that wrote it, as long as there is one of that name,
   and an operation through the index a value remembers reaches the plugin that
   read the value, or none when that plugin is gone.                        *)
SameProvider ==
  /\ (box # None /\ box.by # Plain) =>
       \/ box.by = Plugin(box.name) /\ ~Registered(box.name)
       \/ Asked(box.name)[1] = box.by
  /\ value.by # None =>
       LET i == plugin_list_index_by_runtime_index(value.index)
       IN  IF i = 0 THEN ~Registered(value.by) \/ value.by \notin ToSet(map)
           ELSE plugins[i].guid = value.by
=============================================================================
