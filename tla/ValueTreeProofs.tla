-------------------------- MODULE ValueTreeProofs ---------------------------
(***************************************************************************)
(* For every set of values and blocks: clearing works on allocated values  *)
(* only, its stack holds exactly what is being cleared, and between calls  *)
(* everything allocated has one owner.                                     *)
(*                                                                         *)
(* Why it is so.  What is freed was reached from its only parent, so it is *)
(* on the stack once.  A version's target is a root, which clearing empties *)
(* but does not free, or a map around the version, and then its clearing   *)
(* is in progress already, since clearing reaches a value that is no root  *)
(* through all the maps around it.                                         *)
(***************************************************************************)
EXTENDS ValueTree, FiniteSetTheorems, SequenceTheorems, TLAPS

IsKid(p, k) == type[p] = "map" /\ k \in data[p]

(* What is neither the client's nor a map's: the child a call is to insert,
   and the value a call is freeing.                                         *)
Inserting == job.op \in {"insert", "replace"}
Detached ==
  {v \in Values :
     \/ Inserting /\ v = job.child
     \/ stack # <<>> /\ job.op # "replace" /\ stack[1].free /\ v = stack[1].value}

(* A child that was freed and is still in its map.                          *)
Dangles(p, k) ==
  \/ At("kid") /\ Top.value = p /\ Top.kid = k
  \/ stack = <<>> /\ job.op = "replace" /\ job.value = p /\ job.old = k

DataByType ==
  \A v \in Values :
    /\ v \notin used => data[v] = {}
    /\ type[v] \in {"null", "int"} => data[v] = {}
    /\ type[v] \in {"string", "tensor"} => data[v] \subseteq Blocks
    /\ type[v] \in {"map", "version"} => data[v] \subseteq Values

BlocksOwned ==
  /\ \A v \in Values : data[v] \cap Blocks \subseteq used \cup shared
  /\ \A v, w \in Values : v # w => data[v] \cap data[w] \cap Blocks \subseteq shared
  /\ \A b \in used \cap Blocks : \E v \in Values : b \in data[v]

KidsOwned ==
  /\ \A p, q, k \in Values : IsKid(p, k) /\ IsKid(q, k) => p = q
  /\ \A p, k \in Values : IsKid(p, k) =>
       /\ k \notin roots /\ k \notin Detached
       /\ k \in used \/ Dangles(p, k)
  /\ \A k \in used \cap Values :
       k \in roots \/ k \in Detached \/ \E p \in Values : IsKid(p, k)
  /\ Detached \subseteq used \ roots
  /\ At("kid") => Top.kid \notin used

(* No map is inside itself.                                                 *)
Acyclic == \A p, k \in Values : IsKid(p, k) => p \notin Tree(k)

TargetsKept ==
  \A w, r \in Values : type[w] = "version" /\ r \in data[w] =>
    r \in used /\ (r \in roots \/ w \in Tree(r))

(* Why the call i was made.                                                 *)
Reached(i) ==
  /\ i > 1 /\ stack[i - 1].at = "kid" =>
       stack[i].free /\ stack[i].value = stack[i - 1].kid
  /\ stack[i].free => i = 1 \/ stack[i - 1].at = "kid"
  /\ stack[i].free /\ i = 1 /\ job.op = "replace" => stack[i].value = job.old
  /\ ~stack[i].free =>
       stack[i].value \in roots \/ (stack[i].at = "enter" /\ stack[i].value \in clearing)

FrameSound(i) ==
  /\ stack[i].value \in used
  /\ stack[i].at = "enter" => i = Len(stack)
  /\ i < Len(stack) => stack[i].at \in {"kid", "target"}
  /\ stack[i].at = "kid" => IsKid(stack[i].value, stack[i].kid)
  /\ stack[i].at = "enter" /\ stack[i].free => stack[i].value \notin clearing
  /\ Reached(i)

FramesSound ==
  /\ \A i \in DOMAIN stack : FrameSound(i)
  /\ \A i, j \in DOMAIN stack :
       /\ stack[i].at # "enter" /\ stack[j].at # "enter"
       /\ stack[i].value = stack[j].value
       => i = j

(* A value is cleared after the map it is in.                               *)
ParentsFirst ==
  \A p, k \in Values : IsKid(p, k) /\ k \in clearing =>
    p \in clearing \/ (job.op = "replace" /\ k = job.old /\ p = job.value)

JobSound ==
  /\ job.op # "none" => job.value \in roots
  /\ Inserting => job.child \in Values
  /\ job.op \in {"init", "insert"} =>
       IF stack = <<>>
       THEN data[job.value] = {} \/ (job.op = "insert" /\ type[job.value] = "map")
       ELSE stack[1].value = job.value /\ ~stack[1].free
  /\ job.op = "replace" =>
       /\ IsKid(job.value, job.old)
       /\ IF stack = <<>> THEN job.old \notin used ELSE stack[1].value = job.old /\ stack[1].free
       /\ \A i \in DOMAIN stack : stack[i].value \in Tree(job.old)
       /\ \A w \in Tree(job.old) : type[w] = "version" => data[w] \subseteq Tree(job.old)

IInv ==
  /\ TypeOK
  /\ DataByType
  /\ BlocksOwned
  /\ KidsOwned
  /\ Acyclic
  /\ TargetsKept
  /\ FramesSound
  /\ ClearStackExact
  /\ ParentsFirst
  /\ JobSound

-----------------------------------------------------------------------------
(* The stack.                                                               *)

(* The stack without its top.                                               *)
LEMMA PopFacts ==
  ASSUME TypeOK, stack # <<>>
  PROVE  /\ Len(stack) \in Nat \ {0} /\ DOMAIN stack = 1 .. Len(stack)
         /\ \A i \in 1 .. Len(stack) : stack[i] \in Frame
         /\ Below \in Seq(Frame) /\ Len(Below) = Len(stack) - 1
         /\ DOMAIN Below = 1 .. Len(stack) - 1
         /\ Below = <<>> <=> Len(stack) = 1
         /\ \A i \in 1 .. Len(stack) - 1 : Below[i] = stack[i]
<1>1. stack \in Seq(Frame)
  BY DEF TypeOK
<1>2. Len(stack) \in Nat \ {0} /\ DOMAIN stack = 1 .. Len(stack)
  BY <1>1, EmptySeq, LenProperties
<1>3. \A i \in 1 .. Len(stack) : stack[i] \in Frame
  BY <1>1, ElementOfSeq
<1> DEFINE n == Len(stack) - 1
<1>4. n \in Nat /\ n <= Len(stack) /\ Below = SubSeq(stack, 1, n)
  BY <1>2 DEF Below
<1> HIDE DEF n
<1>5. Below \in Seq(Frame) /\ Len(Below) = n
  BY <1>1, <1>4
<1>6. \A i \in 1 .. n : Below[i] = stack[i]
  BY <1>1, <1>4
<1>7. DOMAIN Below = 1 .. n
  BY <1>5, LenProperties
<1>8. Below = <<>> <=> n = 0
  BY <1>5, EmptySeq
<1>. QED  BY <1>2, <1>3, <1>5, <1>6, <1>7, <1>8 DEF n

(* One call more on a stack.                                                *)
LEMMA AppendCall ==
  ASSUME NEW s \in Seq(Frame), NEW f \in Frame
  PROVE  /\ Append(s, f) \in Seq(Frame) /\ Len(Append(s, f)) = Len(s) + 1
         /\ DOMAIN Append(s, f) = 1 .. Len(s) + 1 /\ Append(s, f) # <<>>
         /\ \A i \in 1 .. Len(s) : Append(s, f)[i] = s[i]
         /\ Append(s, f)[Len(s) + 1] = f
<1>1. /\ Append(s, f) \in Seq(Frame) /\ Len(Append(s, f)) = Len(s) + 1
      /\ \A i \in 1 .. Len(s) : Append(s, f)[i] = s[i]
      /\ Append(s, f)[Len(s) + 1] = f
  BY AppendProperties
<1>2. DOMAIN Append(s, f) = 1 .. Len(s) + 1
  BY <1>1, LenProperties
<1>3. Append(s, f) # <<>>
  BY <1>1, EmptySeq, LenProperties
<1>. QED  BY <1>1, <1>2, <1>3

(* Another call in the place of the top.                                    *)
LEMMA MoveFacts ==
  ASSUME TypeOK, stack # <<>>, NEW f \in Frame
  PROVE  /\ Append(Below, f) \in Seq(Frame) /\ Len(Append(Below, f)) = Len(stack)
         /\ DOMAIN Append(Below, f) = 1 .. Len(stack)
         /\ Append(Below, f) # <<>>
         /\ \A i \in 1 .. Len(stack) - 1 : Append(Below, f)[i] = stack[i]
         /\ Append(Below, f)[Len(stack)] = f
<1>1. /\ Below \in Seq(Frame) /\ Len(Below) = Len(stack) - 1 /\ Len(stack) \in Nat
      /\ \A i \in 1 .. Len(stack) - 1 : Below[i] = stack[i]
  BY PopFacts
<1>2. Len(Below) + 1 = Len(stack) /\ 1 .. Len(Below) = 1 .. Len(stack) - 1
  BY <1>1
<1>. QED  BY <1>1, <1>2, AppendCall

(* ... and a call that it makes.                                            *)
LEMMA PushFacts ==
  ASSUME TypeOK, stack # <<>>, NEW f \in Frame, NEW g \in Frame
  PROVE  /\ Append(Append(Below, f), g) \in Seq(Frame)
         /\ Len(Append(Append(Below, f), g)) = Len(stack) + 1
         /\ DOMAIN Append(Append(Below, f), g) = 1 .. Len(stack) + 1
         /\ Append(Append(Below, f), g) # <<>>
         /\ \A i \in 1 .. Len(stack) - 1 : Append(Append(Below, f), g)[i] = stack[i]
         /\ Append(Append(Below, f), g)[Len(stack)] = f
         /\ Append(Append(Below, f), g)[Len(stack) + 1] = g
<1> DEFINE one == Append(Below, f)
<1>1. /\ one \in Seq(Frame) /\ Len(one) = Len(stack)
      /\ \A i \in 1 .. Len(stack) - 1 : one[i] = stack[i]
      /\ one[Len(stack)] = f
  BY MoveFacts
<1>2. Len(stack) \in Nat \ {0}
  BY PopFacts
<1> HIDE DEF one
<1>3. /\ Append(one, g) \in Seq(Frame) /\ Len(Append(one, g)) = Len(one) + 1
      /\ DOMAIN Append(one, g) = 1 .. Len(one) + 1 /\ Append(one, g) # <<>>
      /\ \A i \in 1 .. Len(one) : Append(one, g)[i] = one[i]
      /\ Append(one, g)[Len(one) + 1] = g
  BY <1>1, AppendCall
<1>4. \A i \in 1 .. Len(stack) - 1 : Append(one, g)[i] = stack[i]
  BY <1>1, <1>2, <1>3
<1>5. Append(one, g)[Len(stack)] = f
  BY <1>1, <1>2, <1>3
<1>. QED  BY <1>1, <1>3, <1>4, <1>5 DEF one

-----------------------------------------------------------------------------
(* Trees.                                                                   *)

(* The tree of a value has the value and the children of its maps.          *)
LEMMA TreeClosed ==
  ASSUME DataByType, NEW v \in Values
  PROVE  /\ Tree(v) \subseteq Values /\ v \in Tree(v)
         /\ \A p \in Tree(v) : type[p] = "map" => data[p] \subseteq Tree(v)
<1>1. Tree(v) \subseteq Values /\ v \in Tree(v)
  BY DEF Tree
<1>2. ASSUME NEW p \in Tree(v), type[p] = "map", NEW k \in data[p]
      PROVE  k \in Tree(v)
  <2>1. p \in Values /\ k \in Values
    BY <1>1, <1>2 DEF DataByType
  <2>2. ASSUME NEW S \in SUBSET Values, v \in S, \A x \in S : type[x] = "map" => data[x] \subseteq S
        PROVE  k \in S
    BY <1>2, <2>2 DEF Tree
  <2>. QED  BY <2>1, <2>2 DEF Tree
<1>. QED  BY <1>1, <1>2

(* ... and nothing that a set with these does not have.                     *)
LEMMA TreeLeast ==
  ASSUME NEW v \in Values, NEW S \in SUBSET Values, v \in S,
         \A p \in S, k \in Values : IsKid(p, k) => k \in S,
         DataByType
  PROVE  Tree(v) \subseteq S
<1>1. \A x \in S : type[x] = "map" => data[x] \subseteq S
  BY DEF IsKid, DataByType
<1>. QED  BY <1>1 DEF Tree

(* A step that takes a childless value out of its map takes no other value out
   of a tree.                                                               *)
LEMMA TreeKept ==
  ASSUME DataByType, DataByType', NEW g \in Values,
         \A p, k \in Values : IsKid(p, k) => IsKid(p, k)' \/ k = g,
         \A k \in Values : ~IsKid(g, k),
         NEW r \in Values, NEW w \in Tree(r), w # g
  PROVE  w \in Tree(r)'
<1> DEFINE S == Tree(r)' \cup {g}
<1>1. Tree(r)' \subseteq Values /\ r \in Tree(r)'
  BY DEF Tree
<1>2. ASSUME NEW p \in S, NEW k \in Values, IsKid(p, k)
      PROVE  k \in S
  <2>1. p \in Tree(r)' /\ p \in Values
    BY <1>1, <1>2
  <2>2. CASE IsKid(p, k)'
    <3>1. \A S2 \in SUBSET Values :
            r \in S2 /\ (\A x \in S2 : type'[x] = "map" => data'[x] \subseteq S2) => k \in S2
      BY <2>1, <2>2 DEF Tree, IsKid
    <3>. QED  BY <3>1 DEF Tree
  <2>. QED  BY <1>2, <2>1, <2>2
<1>3. S \in SUBSET Values /\ r \in S
  BY <1>1
<1>4. Tree(r) \subseteq S
  <2> HIDE DEF S
  <2>. QED  BY <1>2, <1>3, TreeLeast
<1>. QED  BY <1>4

(* A step that adds no child to a map adds nothing to a tree.               *)
LEMMA TreeShrinks ==
  ASSUME DataByType, DataByType',
         \A p, k \in Values : IsKid(p, k)' => IsKid(p, k),
         NEW r \in Values
  PROVE  Tree(r)' \subseteq Tree(r)
<1>1. Tree(r) \subseteq Values /\ r \in Tree(r)
  BY DEF Tree
<1>2. \A x \in Tree(r) : type'[x] = "map" => data'[x] \subseteq Tree(r)
  BY <1>1, TreeClosed DEF DataByType, IsKid
<1>. QED  BY <1>1, <1>2 DEF Tree

(* A step that takes no child out of a map takes nothing out of a tree.     *)
LEMMA TreeGrows ==
  ASSUME DataByType,
         \A p, k \in Values : IsKid(p, k) => IsKid(p, k)',
         NEW r \in Values
  PROVE  Tree(r) \subseteq Tree(r)'
<1>1. Tree(r)' \in SUBSET Values /\ r \in Tree(r)'
  BY DEF Tree
<1>2. ASSUME NEW p \in Tree(r)', NEW k \in Values, IsKid(p, k)
      PROVE  k \in Tree(r)'
  <2>1. IsKid(p, k)' /\ p \in Values
    BY <1>1, <1>2
  <2>2. \A S \in SUBSET Values :
          r \in S /\ (\A x \in S : type'[x] = "map" => data'[x] \subseteq S) => k \in S
    BY <1>2, <2>1 DEF Tree, IsKid
  <2>. QED  BY <2>2 DEF Tree
<1>. QED  BY <1>1, <1>2, TreeLeast

(* A step that leaves the children of maps alone leaves the trees alone.    *)
LEMMA SameTrees ==
  ASSUME DataByType, DataByType',
         \A p, k \in Values : IsKid(p, k)' <=> IsKid(p, k),
         NEW r \in Values
  PROVE  Tree(r)' = Tree(r)
BY TreeShrinks, TreeGrows

(* A step that adds no child to a map closes no ring of maps.               *)
LEMMA AcyclicShrinks ==
  ASSUME DataByType, DataByType', Acyclic,
         \A p, k \in Values : IsKid(p, k)' => IsKid(p, k)
  PROVE  Acyclic'
<1>1. \A r \in Values : Tree(r)' \subseteq Tree(r)
  BY TreeShrinks
<1>. QED  BY <1>1 DEF Acyclic

(* ... nor does one that adds a child without a parent to a map outside it.  *)
LEMMA AcyclicAdds ==
  ASSUME DataByType, DataByType', Acyclic, NEW p \in Values, NEW c \in Values,
         \A x, k \in Values : IsKid(x, k)' => IsKid(x, k) \/ (x = p /\ k = c),
         p \notin Tree(c)
  PROVE  Acyclic'
<1>1. \A r \in Values : Tree(r) \subseteq Values /\ r \in Tree(r)
  BY DEF Tree
<1>2. ASSUME NEW r \in Values, p \notin Tree(r)
      PROVE  Tree(r)' \subseteq Tree(r)
  <2>1. \A x \in Tree(r), k \in Values : IsKid(x, k)' => k \in Tree(r)
    BY <1>1, <1>2, TreeClosed DEF IsKid
  <2>2. \A x \in Tree(r) : type'[x] = "map" => data'[x] \subseteq Tree(r)
    BY <1>1, <2>1 DEF DataByType, IsKid
  <2>. QED  BY <1>1, <2>2 DEF Tree
<1>3. ASSUME NEW x \in Values, NEW k \in Values, IsKid(x, k)'
      PROVE  x \notin Tree(k)'
  <2>1. CASE p \notin Tree(k)
    <3>1. x \notin Tree(k)
      BY <1>3, <2>1 DEF Acyclic
    <3>. QED  BY <1>2, <2>1, <3>1
  <2>2. CASE p \in Tree(k)
    <3>1. k # c /\ IsKid(x, k)
      BY <1>3, <2>2
    <3>2. ASSUME x \in Tree(k)'
          PROVE  FALSE
      <4>1. Tree(k)' \subseteq Tree(k) \cup Tree(c)
        <5>1. \A z \in Tree(k) \cup Tree(c), w \in Values : IsKid(z, w)' => w \in Tree(k) \cup Tree(c)
          BY <1>1, TreeClosed DEF IsKid
        <5>2. \A z \in Tree(k) \cup Tree(c) : type'[z] = "map" => data'[z] \subseteq Tree(k) \cup Tree(c)
          BY <1>1, <5>1 DEF DataByType, IsKid
        <5>3. Tree(k) \cup Tree(c) \in SUBSET Values /\ k \in Tree(k) \cup Tree(c)
          BY <1>1
        <5>. QED  BY <5>2, <5>3 DEF Tree
      <4>2. x \in Tree(c)
        BY <3>1, <3>2, <4>1 DEF Acyclic
      <4>3. k \in Tree(c)
        BY <3>1, <4>2, TreeClosed DEF IsKid
      <4>4. Tree(k) \subseteq Tree(c)
        <5>1. \A z \in Tree(c), w \in Values : IsKid(z, w) => w \in Tree(c)
          BY <1>1, TreeClosed DEF IsKid
        <5>. QED  BY <1>1, <4>3, <5>1, TreeLeast
      <4>. QED  BY <2>2, <4>4
    <3>. QED  BY <3>2
  <2>. QED  BY <2>1, <2>2
<1>. QED  BY <1>3 DEF Acyclic

(* The client's values are in no other value's tree.                        *)
LEMMA RootsOutside ==
  ASSUME DataByType, KidsOwned, NEW v \in Values, v \notin roots
  PROVE  Tree(v) \cap roots = {}
<1> DEFINE S == Values \ roots
<1>1. \A p \in S, k \in Values : IsKid(p, k) => k \in S
  BY DEF KidsOwned
<1>2. Tree(v) \subseteq S
  BY <1>1, TreeLeast
<1>. QED  BY <1>2

-----------------------------------------------------------------------------
(* What holds of the stack and its top.                                     *)
LEMMA TopFacts ==
  ASSUME TypeOK, stack # <<>>
  PROVE  /\ Len(stack) \in Nat \ {0} /\ DOMAIN stack = 1 .. Len(stack)
         /\ Len(stack) \in 1 .. Len(stack)
         /\ Top = stack[Len(stack)] /\ Top \in Frame
<1>1. Len(stack) \in Nat \ {0} /\ DOMAIN stack = 1 .. Len(stack)
  BY PopFacts
<1>2. Len(stack) \in 1 .. Len(stack)
  BY <1>1
<1>. QED  BY <1>1, <1>2, PopFacts DEF Top

(* ... of any call on it,                                                   *)
LEMMA FrameFacts ==
  ASSUME TypeOK, FramesSound, stack # <<>>, NEW i \in 1 .. Len(stack)
  PROVE  /\ stack[i] \in Frame /\ stack[i].value \in used \cap Values
         /\ stack[i].at = "enter" => i = Len(stack)
         /\ i < Len(stack) => stack[i].at \in {"kid", "target"}
         /\ stack[i].at = "kid" => IsKid(stack[i].value, stack[i].kid)
         /\ stack[i].at = "enter" /\ stack[i].free => stack[i].value \notin clearing
         /\ Reached(i)
<1>1. stack[i] \in Frame /\ i \in DOMAIN stack
  BY PopFacts
<1>2. stack[i].value \in Values
  BY <1>1 DEF Frame
<1>. QED  BY <1>1, <1>2 DEF FramesSound, FrameSound

(* ... and no value is being cleared by two of them.                        *)
LEMMA OnceOnStack ==
  ASSUME TypeOK, FramesSound, NEW i \in 1 .. Len(stack), NEW j \in 1 .. Len(stack),
         stack # <<>>, stack[i].at # "enter", stack[j].at # "enter",
         stack[i].value = stack[j].value
  PROVE  i = j
<1>1. DOMAIN stack = 1 .. Len(stack)
  BY PopFacts
<1>. QED  BY <1>1 DEF FramesSound

(* A call of which only the place it is at moves has the same reason.       *)
LEMMA ReachedKept ==
  ASSUME NEW i \in Nat \ {0}, Reached(i), roots' = roots, job' = job,
         i > 1 => stack'[i - 1] = stack[i - 1],
         stack'[i].value = stack[i].value, stack'[i].free = stack[i].free,
         stack[i].at # "enter" \/ stack[i].value \notin clearing
  PROVE  Reached(i)'
<1>1. (i > 1 /\ stack'[i - 1].at = "kid" =>
         stack'[i].free /\ stack'[i].value = stack'[i - 1].kid)
  BY DEF Reached
<1>2. stack'[i].free => i = 1 \/ stack'[i - 1].at = "kid"
  BY DEF Reached
<1>3. stack'[i].free /\ i = 1 /\ job'.op = "replace" => stack'[i].value = job'.old
  BY DEF Reached
<1>4. ~stack'[i].free => stack'[i].value \in roots'
  BY DEF Reached
<1>. QED  BY <1>1, <1>2, <1>3, <1>4 DEF Reached

(* The calls below the top stay as they are, whatever the top does, while it
   frees none of their values and takes no child they wait for.             *)
LEMMA LowerFrames ==
  ASSUME TypeOK, FramesSound, stack # <<>>, roots' = roots, job' = job,
         NEW i \in 1 .. Len(stack) - 1,
         stack'[i] = stack[i], i > 1 => stack'[i - 1] = stack[i - 1],
         stack[i].value \in used',
         stack[i].at = "kid" => IsKid(stack[i].value, stack[i].kid)'
  PROVE  FrameSound(i)'
<1>1. i \in 1 .. Len(stack) /\ i < Len(stack)
  BY PopFacts
<1>2. stack[i].at \in {"kid", "target"} /\ Reached(i)
  BY <1>1, FrameFacts
<1>3. i \in Nat \ {0}
  BY <1>1
<1>6. Reached(i)'
  BY <1>2, <1>3, ReachedKept
<1>. QED  BY <1>2, <1>6 DEF FrameSound

(* So what the top does keeps the calls sound when its own call, or what comes
   in its place, is sound.                                                  *)
LEMMA FramesKept ==
  ASSUME TypeOK, FramesSound, stack # <<>>, roots' = roots, job' = job,
         NEW n, n = Len(stack), NEW m \in Nat, m >= n - 1, DOMAIN stack' = 1 .. m,
         \A i \in 1 .. n - 1 :
           /\ stack'[i] = stack[i] /\ stack[i].value \in used'
           /\ stack[i].at = "kid" => IsKid(stack[i].value, stack[i].kid)',
         \A i \in n .. m :
           /\ FrameSound(i)'
           /\ stack'[i].at # "enter" =>
                i = n /\ \A j \in 1 .. n - 1 : stack[j].value # stack'[i].value
  PROVE  FramesSound'
<1>1. n \in Nat \ {0}
  BY PopFacts
<1>2. ASSUME NEW i \in 1 .. m
      PROVE  FrameSound(i)'
  <2>1. CASE i \in 1 .. n - 1
    <3>1. i > 1 => i - 1 \in 1 .. n - 1
      BY <1>1, <2>1
    <3>2. IsKid(stack[i].value, stack[i].kid)' \/ stack[i].at # "kid"
      BY <2>1
    <3>. QED  BY <2>1, <3>1, <3>2, LowerFrames
  <2>2. CASE i \in n .. m
    BY <2>2
  <2>. QED  BY <1>1, <1>2, <2>1, <2>2
<1>3. ASSUME NEW i \in 1 .. m, NEW j \in 1 .. m,
             stack'[i].at # "enter", stack'[j].at # "enter", stack'[i].value = stack'[j].value
      PROVE  i = j
  <2>1. CASE i \in 1 .. n - 1 /\ j \in 1 .. n - 1
    <3>1. i \in 1 .. n /\ j \in 1 .. n
      BY <1>1, <2>1
    <3>. QED  BY <1>3, <2>1, <3>1, OnceOnStack
  <2>2. CASE i \in n .. m \/ j \in n .. m
    BY <1>1, <1>3, <2>2
  <2>. QED  BY <1>1, <1>3, <2>1, <2>2
<1>. QED  BY <1>2, <1>3 DEF FramesSound

(* A child whose clearing began is freed by the call on its map, or replaced. *)
LEMMA CallOfParent ==
  ASSUME TypeOK, KidsOwned, FramesSound, JobSound, stack # <<>>,
         NEW i \in 1 .. Len(stack), NEW p \in Values, IsKid(p, stack[i].value),
         stack[i].at = "enter" => stack[i].value \notin clearing
  PROVE  \/ /\ i > 1 /\ i - 1 \in 1 .. Len(stack)
            /\ stack[i - 1].at = "kid" /\ stack[i - 1].value = p
            /\ stack[i - 1].kid = stack[i].value
         \/ i = 1 /\ job.op = "replace" /\ stack[i].value = job.old /\ p = job.value
<1>1. /\ stack[i].value \in used \cap Values /\ Reached(i)
      /\ Len(stack) \in Nat /\ DOMAIN stack = 1 .. Len(stack)
  BY FrameFacts, TopFacts
<1>2. stack[i].free
  BY <1>1 DEF Reached, KidsOwned
<1>3. CASE i > 1
  <2>1. i - 1 \in 1 .. Len(stack) /\ stack[i - 1].at = "kid" /\ stack[i].value = stack[i - 1].kid
    BY <1>1, <1>2, <1>3 DEF Reached
  <2>2. IsKid(stack[i - 1].value, stack[i].value) /\ stack[i - 1].value \in Values
    BY <2>1, FrameFacts
  <2>3. stack[i - 1].value = p
    BY <1>1, <2>2 DEF KidsOwned
  <2>. QED  BY <1>3, <2>1, <2>3
<1>4. CASE i = 1
  <2>1. job.op = "replace"
    BY <1>1, <1>2, <1>4 DEF KidsOwned, Detached
  <2>2. stack[i].value = job.old
    BY <1>1, <1>2, <1>4, <2>1 DEF Reached
  <2>3. IsKid(job.value, job.old) /\ job.value \in Values
    BY <2>1 DEF JobSound, TypeOK
  <2>4. p = job.value
    BY <1>1, <2>2, <2>3 DEF KidsOwned
  <2>. QED  BY <1>4, <2>1, <2>2, <2>4
<1>. QED  BY <1>3, <1>4

(* What the client's call does next stays sound while the first call of the
   clearing is there.                                                       *)
LEMMA JobKept ==
  ASSUME JobSound, stack # <<>>, stack' # <<>>, roots' = roots, job' = job,
         stack'[1].value = stack[1].value, stack'[1].free = stack[1].free,
         job.op = "replace" =>
           /\ IsKid(job.value, job.old)'
           /\ \A i \in DOMAIN stack' : stack'[i].value \in Tree(job.old)'
           /\ \A w \in Tree(job.old)' : type'[w] = "version" => data'[w] \subseteq Tree(job.old)'
  PROVE  JobSound'
<1>1. /\ job'.op # "none" => job'.value \in roots'
      /\ Inserting' => job'.child \in Values
  BY DEF JobSound, Inserting
<1>2. job'.op \in {"init", "insert"} => stack'[1].value = job'.value /\ ~stack'[1].free
  BY DEF JobSound
<1>3. job'.op = "replace" =>
       /\ IsKid(job.value, job.old)'
       /\ stack'[1].value = job'.old /\ stack'[1].free
       /\ \A i \in DOMAIN stack' : stack'[i].value \in Tree(job.old)'
       /\ \A w \in Tree(job.old)' : type'[w] = "version" => data'[w] \subseteq Tree(job.old)'
  BY DEF JobSound
<1>. QED  BY <1>1, <1>2, <1>3 DEF JobSound

(* A value that is in progress already is left alone.                       *)
LEMMA EnterKnown ==
  ASSUME IInv, Enter, Known
  PROVE  IInv'
<1> DEFINE n == Len(stack)
<1>0. /\ TypeOK /\ DataByType /\ BlocksOwned /\ KidsOwned /\ Acyclic /\ TargetsKept /\ FramesSound
      /\ ClearStackExact /\ ParentsFirst /\ JobSound /\ stack # <<>> /\ Top.at = "enter"
  BY DEF IInv, Enter, At
<1>2. /\ n \in Nat \ {0} /\ DOMAIN stack = 1 .. n /\ Top = stack[n]
      /\ n \in 1 .. n
  BY <1>0, TopFacts
<1>3. ~Top.free
  BY <1>0, <1>2, FrameFacts DEF Known
<1>4. /\ stack' = Below /\ UNCHANGED <<used, type, data, shared, inner, roots, clearing, job>>
  BY <1>3 DEF Enter, Return, Known
<1>5. /\ stack' \in Seq(Frame) /\ Len(stack') = n - 1 /\ DOMAIN stack' = 1 .. n - 1
      /\ stack' = <<>> <=> n = 1
      /\ \A i \in 1 .. n - 1 : stack'[i] = stack[i]
  BY <1>0, <1>4, PopFacts
<1>6. n > 1 /\ stack' # <<>> /\ 1 \in 1 .. n - 1 /\ n - 1 \in 1 .. n
  <2>1. CASE n = 1
    <3>1. \A i \in DOMAIN stack : stack[i].at = "enter"
      BY <1>0, <1>2, <2>1
    <3>2. clearing = {}
      BY <1>0, <3>1 DEF ClearStackExact
    <3>. QED  BY <3>2 DEF Known
  <2>. QED  BY <1>2, <1>5, <2>1
<1>7. stack'[1] = stack[1] /\ Detached' = Detached
  BY <1>0, <1>4, <1>5, <1>6 DEF Detached, Inserting
<1>8. ~At("kid") /\ ~At("kid")'
  <2>1. stack[n - 1].at # "kid"
    BY <1>0, <1>2, <1>3, <1>6, FrameFacts DEF Reached
  <2>2. Top' = stack[n - 1]
    BY <1>2, <1>5, <1>6 DEF Top
  <2>. QED  BY <1>0, <2>1, <2>2 DEF At
<1>9. TypeOK'
  BY <1>0, <1>4, <1>5 DEF TypeOK
<1>10. DataByType' /\ BlocksOwned' /\ TargetsKept' /\ ParentsFirst'
  BY <1>0, <1>4 DEF DataByType, BlocksOwned, TargetsKept, ParentsFirst, IsKid, Tree
<1>11. KidsOwned'
  BY <1>0, <1>4, <1>6, <1>7, <1>8 DEF KidsOwned, Dangles, IsKid
<1>12. ClearStackExact'
  BY <1>0, <1>2, <1>4, <1>5 DEF ClearStackExact
<1>13. FramesSound'
  <2>1. ASSUME NEW i \in 1 .. n - 1
        PROVE  /\ stack[i].value \in used'
               /\ stack[i].at = "kid" => IsKid(stack[i].value, stack[i].kid)'
    <3>1. i \in 1 .. n
      BY <1>2
    <3>2. stack[i].value \in used /\ (stack[i].at = "kid" => IsKid(stack[i].value, stack[i].kid))
      BY <1>0, <3>1, FrameFacts
    <3>. QED  BY <1>4, <1>5, <3>2 DEF IsKid
  <2>2. n - 1 \in Nat /\ n .. n - 1 = {}
    BY <1>2
  <2>. QED  BY <1>0, <1>4, <1>5, <2>1, <2>2, FramesKept
<1>14. JobSound'
  <2>1. job.op = "replace" =>
           /\ IsKid(job.value, job.old)
           /\ \A i \in DOMAIN stack : stack[i].value \in Tree(job.old)
           /\ \A w \in Tree(job.old) : type[w] = "version" => data[w] \subseteq Tree(job.old)
    BY <1>0 DEF JobSound
  <2>2. Tree(job.old)' = Tree(job.old) /\ IsKid(job.value, job.old)' = IsKid(job.value, job.old)
    BY <1>4 DEF Tree, IsKid
  <2>3. \A i \in 1 .. n - 1 : i \in 1 .. n /\ stack'[i].value = stack[i].value
    BY <1>2, <1>5
  <2>4. job.op = "replace" => \A i \in DOMAIN stack' : stack'[i].value \in Tree(job.old)'
    BY <1>2, <1>5, <2>1, <2>2, <2>3
  <2>. QED  BY <1>0, <1>4, <1>6, <1>7, <2>1, <2>2, <2>4, JobKept
<1>a. Acyclic'
  BY <1>0, <1>4 DEF Acyclic, IsKid, Tree
<1>. QED  BY <1>9, <1>10, <1>11, <1>12, <1>13, <1>14, <1>a DEF IInv

(* A value that is not in progress is put on the clear stack.               *)
LEMMA EnterNew ==
  ASSUME IInv, Enter, ~Known
  PROVE  IInv'
<1>0. /\ TypeOK /\ DataByType /\ BlocksOwned /\ KidsOwned /\ Acyclic /\ TargetsKept /\ FramesSound
      /\ ClearStackExact /\ ParentsFirst /\ JobSound /\ stack # <<>> /\ Top.at = "enter"
  BY DEF IInv, Enter, At
<1>n. PICK n, v, f : n = Len(stack) /\ v = Top.value /\ f = [Top EXCEPT !.at = "data"]
  OBVIOUS
<1>1. /\ n \in Nat \ {0} /\ DOMAIN stack = 1 .. n /\ Top = stack[n]
      /\ n \in 1 .. n /\ Top \in Frame /\ v \in used \cap Values /\ Reached(n)
  BY <1>0, <1>n, TopFacts, FrameFacts
<1>2. /\ v \notin clearing /\ clearing' = clearing \cup {v} /\ stack' = Append(Below, f)
      /\ UNCHANGED <<used, type, data, shared, inner, roots, job>>
  BY <1>n DEF Enter, Known
<1>3. f \in Frame /\ f.value = v /\ f.at = "data" /\ f.free = Top.free
  BY <1>1, <1>n DEF Frame
<1>4. /\ stack' \in Seq(Frame) /\ Len(stack') = n /\ DOMAIN stack' = 1 .. n
      /\ stack' # <<>> /\ stack'[n] = f
      /\ \A i \in 1 .. n - 1 : stack'[i] = stack[i]
  BY <1>0, <1>2, <1>3, <1>n, MoveFacts
<1>5. \A i \in 1 .. n : stack'[i].value = stack[i].value /\ stack'[i].free = stack[i].free
  <2>1. stack'[n].value = stack[n].value /\ stack'[n].free = stack[n].free
    BY <1>1, <1>3, <1>4, <1>n
  <2>2. \A i \in 1 .. n : i = n \/ i \in 1 .. n - 1
    BY <1>1
  <2>. QED  BY <1>4, <2>1, <2>2
<1>6. Top' = f /\ Detached' = Detached
  <2>1. Top' = f
    BY <1>4, <1>n DEF Top
  <2>2. 1 \in 1 .. n
    BY <1>1
  <2>. QED  BY <1>0, <1>2, <1>4, <1>5, <2>1, <2>2 DEF Detached, Inserting
<1>7. TypeOK'
  BY <1>0, <1>1, <1>2, <1>4 DEF TypeOK
<1>8. DataByType' /\ BlocksOwned' /\ TargetsKept'
  BY <1>0, <1>2 DEF DataByType, BlocksOwned, TargetsKept, Tree
<1>9. KidsOwned'
  BY <1>0, <1>2, <1>3, <1>4, <1>6 DEF KidsOwned, Dangles, IsKid, At
<1>10. ClearStackExact'
  <2>1. \A i \in 1 .. n - 1 : i \in 1 .. n /\ stack[i].at # "enter"
    BY <1>0, <1>1, <1>n, FrameFacts
  <2>2. \A i \in 1 .. n : i \in 1 .. n - 1 \/ i = n
    BY <1>1
  <2>. QED  BY <1>0, <1>1, <1>2, <1>3, <1>4, <2>1, <2>2 DEF ClearStackExact
<1>11. FramesSound'
  <2>1. ASSUME NEW i \in 1 .. n - 1
        PROVE  /\ stack'[i] = stack[i] /\ stack[i].value \in used' /\ stack[i].value # v
               /\ stack[i].at = "kid" => IsKid(stack[i].value, stack[i].kid)'
    <3>1. i \in 1 .. n /\ i < n
      BY <1>1
    <3>2. /\ stack[i].value \in used /\ stack[i].at \in {"kid", "target"}
          /\ stack[i].at = "kid" => IsKid(stack[i].value, stack[i].kid)
      BY <1>0, <1>n, <3>1, FrameFacts
    <3>3. stack[i].value \in clearing
      BY <1>0, <1>1, <3>1, <3>2 DEF ClearStackExact
    <3>. QED  BY <1>2, <1>4, <3>2, <3>3 DEF IsKid
  <2>2. Reached(n)'
    <3>1. n > 1 => stack'[n - 1] = stack[n - 1]
      BY <1>1, <1>4
    <3>2. /\ roots' = roots /\ job' = job /\ stack[n].value \notin clearing
          /\ stack'[n].value = stack[n].value /\ stack'[n].free = stack[n].free
          /\ stack'[n].at = "data"
      BY <1>1, <1>2, <1>3, <1>4, <1>n
    <3>3. Reached(n)
      BY <1>1
    <3>. QED  BY <1>1, <3>1, <3>2, <3>3, ReachedKept
  <2>3. FrameSound(n)'
    <3>1. n = Len(stack') /\ stack'[n].value \in used' /\ stack'[n].at = "data"
      BY <1>1, <1>2, <1>3, <1>4
    <3>. QED  BY <1>1, <2>2, <3>1 DEF FrameSound
  <2>4. \A i \in n .. n :
          /\ FrameSound(i)'
          /\ stack'[i].at # "enter" =>
               i = n /\ \A j \in 1 .. n - 1 : stack[j].value # stack'[i].value
    <3>1. stack'[n].value = v /\ \A i \in n .. n : i = n
      BY <1>1, <1>3, <1>4
    <3>. QED  BY <2>1, <2>3, <3>1
  <2>5. roots' = roots /\ job' = job /\ n >= n - 1 /\ n \in Nat
    BY <1>1, <1>2
  <2>. QED  BY <1>0, <1>4, <1>n, <2>1, <2>4, <2>5, FramesKept
<1>12. ParentsFirst'
  <2>1. ASSUME NEW p \in Values, IsKid(p, v)
        PROVE  p \in clearing \/ (job.op = "replace" /\ v = job.old /\ p = job.value)
    <3>1. \/ n - 1 \in 1 .. n /\ stack[n - 1].at = "kid" /\ stack[n - 1].value = p
          \/ job.op = "replace" /\ v = job.old /\ p = job.value
      BY <1>0, <1>1, <1>2, <2>1, <1>n, CallOfParent
    <3>. QED  BY <1>0, <1>1, <3>1 DEF ClearStackExact
  <2>. QED  BY <1>0, <1>2, <2>1 DEF ParentsFirst, IsKid
<1>13. JobSound'
  <2>1. stack'[1].value = stack[1].value /\ stack'[1].free = stack[1].free
    BY <1>1, <1>5
  <2>2. job.op = "replace" =>
           /\ IsKid(job.value, job.old)
           /\ \A i \in DOMAIN stack : stack[i].value \in Tree(job.old)
           /\ \A w \in Tree(job.old) : type[w] = "version" => data[w] \subseteq Tree(job.old)
    BY <1>0 DEF JobSound
  <2>3. Tree(job.old)' = Tree(job.old) /\ IsKid(job.value, job.old)' = IsKid(job.value, job.old)
    BY <1>2 DEF Tree, IsKid
  <2>. QED  BY <1>0, <1>1, <1>2, <1>4, <1>5, <2>1, <2>2, <2>3, JobKept
<1>a. Acyclic'
  BY <1>0, <1>2 DEF Acyclic, IsKid, Tree
<1>. QED  BY <1>7, <1>8, <1>9, <1>10, <1>11, <1>12, <1>13, <1>a DEF IInv

(* The block of a value is freed; what another value has of it was shared.  *)
LEMMA FreeBlockKeeps ==
  ASSUME IInv, FreeBlock
  PROVE  IInv'
<1>0. /\ TypeOK /\ DataByType /\ BlocksOwned /\ KidsOwned /\ Acyclic /\ TargetsKept /\ FramesSound
      /\ ClearStackExact /\ ParentsFirst /\ JobSound /\ stack # <<>> /\ Top.at = "data"
  BY DEF IInv, FreeBlock, At
<1>n. PICK n, v : n = Len(stack) /\ v = Top.value
  OBVIOUS
<1>1. /\ n \in Nat \ {0} /\ DOMAIN stack = 1 .. n /\ n \in 1 .. n /\ Top = stack[n]
      /\ v \in used \cap Values
  BY <1>0, <1>n, TopFacts, FrameFacts
<1>2. /\ type[v] \in {"string", "tensor"} /\ data[v] \subseteq Blocks
      /\ used' = used \ data[v] /\ data' = [data EXCEPT ![v] = {}]
      /\ type' = IF type[v] = "tensor" THEN [type EXCEPT ![v] = "null"] ELSE type
      /\ stack' = stack /\ job' = job /\ roots' = roots /\ clearing' = clearing /\ shared' = shared
      /\ inner' = inner
  BY <1>0, <1>1, <1>n DEF FreeBlock, Of, DataByType
<1>3. \A x \in Values : /\ data'[x] = (IF x = v THEN {} ELSE data[x])
                        /\ type'[x] = (IF x = v /\ type[v] = "tensor" THEN "null" ELSE type[x])
  BY <1>0, <1>1, <1>2 DEF TypeOK
<1>4. \A x \in Values : x \in used' <=> x \in used
  BY <1>2, ValueTreeAssumption
<1>5. TypeOK'
  BY <1>0, <1>2, <1>4 DEF TypeOK, Type
<1>6. DataByType'
  BY <1>0, <1>2, <1>3, <1>4 DEF DataByType
<1>7. \A p, k \in Values : IsKid(p, k)' <=> IsKid(p, k)
  BY <1>2, <1>3 DEF IsKid
<1>8. \A r \in Values : Tree(r)' = Tree(r)
  BY <1>0, <1>6, <1>7, SameTrees
<1>9. BlocksOwned'
  BY <1>0, <1>1, <1>2, <1>3 DEF BlocksOwned
<1>10. Top' = Top /\ Detached' = Detached
  BY <1>2 DEF Top, Detached, Inserting
<1>11. KidsOwned'
  <2>1. Detached \subseteq Values
    BY DEF Detached
  <2>2. ~At("kid")'
    BY <1>0, <1>2, <1>10 DEF At
  <2>3. ~At("kid")
    BY <1>0 DEF At
  <2>4. \A p, k \in Values : IsKid(p, k) => k \in used
    BY <1>0, <2>3 DEF KidsOwned, Dangles
  <2>. QED  BY <1>0, <1>2, <1>4, <1>7, <1>10, <2>1, <2>2, <2>4 DEF KidsOwned
<1>12. TargetsKept'
  BY <1>0, <1>2, <1>3, <1>4, <1>8 DEF TargetsKept
<1>13. FramesSound' /\ ClearStackExact'
  <2>1. ASSUME NEW i \in 1 .. n
        PROVE  FrameSound(i)'
    <3>1. i \in DOMAIN stack /\ FrameSound(i) /\ stack[i].value \in used \cap Values
      BY <1>0, <1>1, <1>n, <2>1, FrameFacts DEF FramesSound
    <3>2. stack[i].at = "kid" => IsKid(stack'[i].value, stack'[i].kid)
      BY <1>2, <3>1 DEF FrameSound
    <3>3. stack[i].at = "kid" => IsKid(stack[i].value, stack[i].kid)'
      BY <1>0, <1>2, <1>7, <3>1, <3>2 DEF IsKid, DataByType
    <3>4. stack[i].value \in used'
      BY <1>4, <3>1
    <3>5. Reached(i)'
      BY <1>2, <3>1 DEF FrameSound, Reached
    <3>. QED  BY <1>2, <3>1, <3>3, <3>4, <3>5 DEF FrameSound
  <2>. QED  BY <1>0, <1>1, <1>2, <2>1 DEF FramesSound, ClearStackExact
<1>14. ParentsFirst'
  BY <1>0, <1>2, <1>7 DEF ParentsFirst
<1>15. JobSound'
  <2>1. job.op = "replace" =>
          /\ job.old \in Values /\ job.value \in Values /\ IsKid(job.value, job.old)
          /\ \A i \in DOMAIN stack : stack[i].value \in Tree(job.old)
          /\ \A w \in Tree(job.old) : type[w] = "version" => data[w] \subseteq Tree(job.old)
    BY <1>0 DEF JobSound, IsKid, DataByType, TypeOK
  <2>2. job.op = "replace" => Tree(job.old)' = Tree(job.old) /\ Tree(job.old) \subseteq Values
    BY <1>2, <1>8, <2>1 DEF Tree
  <2>3. job.op = "replace" =>
          /\ IsKid(job.value, job.old)'
          /\ \A i \in DOMAIN stack' : stack'[i].value \in Tree(job.old)'
          /\ \A w \in Tree(job.old)' : type'[w] = "version" => data'[w] \subseteq Tree(job.old)'
    BY <1>2, <1>3, <1>7, <2>1, <2>2
  <2>. QED  BY <1>0, <1>2, <2>3, JobKept
<1>a. Acyclic'
  BY <1>0, <1>6, <1>7, AcyclicShrinks
<1>. QED  BY <1>5, <1>6, <1>9, <1>11, <1>12, <1>13, <1>14, <1>15, <1>a DEF IInv

(* A child is freed once: it is not being cleared yet.                      *)
LEMMA KidFresh ==
  ASSUME IInv, stack # <<>>, Top.at = "data", NEW k \in Values, IsKid(Top.value, k)
  PROVE  k \in used /\ k \notin clearing
<1>0. /\ TypeOK /\ DataByType /\ KidsOwned /\ FramesSound /\ ClearStackExact /\ JobSound
  BY DEF IInv
<1>n. PICK n, v : n = Len(stack) /\ v = Top.value
  OBVIOUS
<1>1. /\ n \in Nat \ {0} /\ DOMAIN stack = 1 .. n /\ n \in 1 .. n /\ Top = stack[n]
      /\ v \in used \cap Values
  BY <1>0, <1>n, TopFacts, FrameFacts
<1>2. k \in used
  BY <1>0, <1>1, <1>n DEF KidsOwned, Dangles, At
<1>3. ASSUME NEW j \in 1 .. n, stack[j].value = k, stack[j].at # "enter"
      PROVE  FALSE
  <2>1. \/ j - 1 \in 1 .. n /\ stack[j - 1].at = "kid" /\ stack[j - 1].value = v
        \/ job.op = "replace" /\ k = job.old /\ v = job.value
    BY <1>0, <1>1, <1>3, <1>n, CallOfParent
  <2>2. CASE j - 1 \in 1 .. n /\ stack[j - 1].at = "kid" /\ stack[j - 1].value = v
    <3>1. j - 1 = n
      BY <1>0, <1>1, <1>n, <2>2, OnceOnStack
    <3>. QED  BY <1>1, <3>1
  <2>3. CASE job.op = "replace" /\ k = job.old /\ v = job.value
    <3>1. v \in roots /\ v \in Tree(k)
      BY <1>0, <1>1, <1>n, <2>3 DEF JobSound
    <3>2. k \notin roots
      BY <1>0, <1>1, <1>n DEF KidsOwned
    <3>. QED  BY <1>0, <3>1, <3>2, RootsOutside
  <2>. QED  BY <2>1, <2>2, <2>3
<1>. QED  BY <1>0, <1>1, <1>2, <1>3 DEF ClearStackExact

(* The call on a map frees the next child.                                  *)
LEMMA FreeKidKeeps ==
  ASSUME IInv, FreeKid
  PROVE  IInv'
<1>0. /\ TypeOK /\ DataByType /\ BlocksOwned /\ KidsOwned /\ Acyclic /\ TargetsKept /\ FramesSound
      /\ ClearStackExact /\ ParentsFirst /\ JobSound /\ stack # <<>> /\ Top.at = "data"
  BY DEF IInv, FreeKid, At
<1>k. PICK k \in data[Top.value] :
        stack' = Append(Append(Below, [Top EXCEPT !.at = "kid", !.kid = k]), Call(k, TRUE))
  BY DEF FreeKid
<1>n. PICK n, v, f, g : /\ n = Len(stack) /\ v = Top.value
                        /\ f = [Top EXCEPT !.at = "kid", !.kid = k] /\ g = Call(k, TRUE)
  OBVIOUS
<1>1. /\ n \in Nat \ {0} /\ DOMAIN stack = 1 .. n /\ Top = stack[n]
      /\ n \in 1 .. n /\ Top \in Frame /\ v \in used \cap Values /\ Reached(n)
  BY <1>0, <1>n, TopFacts, FrameFacts
<1>2. /\ type[v] = "map" /\ stack' = Append(Append(Below, f), g)
      /\ UNCHANGED <<used, type, data, shared, inner, roots, clearing, job>>
  BY <1>k, <1>n DEF FreeKid, Of
<1>3. k \in Values /\ IsKid(v, k) /\ k \in used /\ k \notin clearing
  <2>1. k \in Values /\ IsKid(v, k)
    BY <1>0, <1>1, <1>2, <1>k, <1>n DEF DataByType, IsKid
  <2>. QED  BY <1>0, <1>n, <2>1, KidFresh
<1>4. /\ f \in Frame /\ f.value = v /\ f.at = "kid" /\ f.kid = k /\ f.free = Top.free
      /\ g \in Frame /\ g.value = k /\ g.at = "enter" /\ g.free = TRUE
  BY <1>1, <1>3, <1>n DEF Frame, Call
<1>5. /\ stack' \in Seq(Frame) /\ Len(stack') = n + 1 /\ DOMAIN stack' = 1 .. n + 1
      /\ stack' # <<>> /\ stack'[n] = f /\ stack'[n + 1] = g
      /\ \A i \in 1 .. n - 1 : stack'[i] = stack[i]
  <2>1. TypeOK /\ stack # <<>> /\ f \in Frame /\ g \in Frame /\ n = Len(stack)
        /\ stack' = Append(Append(Below, f), g)
    BY <1>0, <1>2, <1>4, <1>n
  <2>. QED  BY <2>1, PushFacts
<1>6. \A i \in 1 .. n : stack'[i].value = stack[i].value /\ stack'[i].free = stack[i].free
  <2>1. stack'[n].value = stack[n].value /\ stack'[n].free = stack[n].free
    BY <1>1, <1>4, <1>5, <1>n
  <2>2. \A i \in 1 .. n : i = n \/ i \in 1 .. n - 1
    BY <1>1
  <2>. QED  BY <1>5, <2>1, <2>2
<1>7. Top' = g /\ Detached' = Detached
  <2>1. Top' = g
    BY <1>5 DEF Top
  <2>2. 1 \in 1 .. n
    BY <1>1
  <2>. QED  BY <1>0, <1>2, <1>5, <1>6, <2>1, <2>2 DEF Detached, Inserting
<1>8. TypeOK'
  BY <1>0, <1>2, <1>5 DEF TypeOK
<1>9. DataByType' /\ BlocksOwned' /\ TargetsKept' /\ ParentsFirst'
  BY <1>0, <1>2 DEF DataByType, BlocksOwned, TargetsKept, ParentsFirst, IsKid, Tree
<1>10. KidsOwned'
  BY <1>0, <1>2, <1>4, <1>5, <1>7 DEF KidsOwned, Dangles, IsKid, At
<1>11. ClearStackExact'
  <2>1. \A i \in 1 .. n : stack'[i].at # "enter" <=> stack[i].at # "enter"
    <3>1. \A i \in 1 .. n : i = n \/ i \in 1 .. n - 1
      BY <1>1
    <3>. QED  BY <1>0, <1>1, <1>4, <1>5, <3>1
  <2>2. \A i \in 1 .. n + 1 : i = n + 1 \/ i \in 1 .. n
    BY <1>1
  <2>3. \A i \in 1 .. n : i \in 1 .. n + 1
    BY <1>1
  <2>4. /\ clearing = {stack[i].value : i \in {j \in 1 .. n : stack[j].at # "enter"}}
        /\ clearing' = clearing /\ DOMAIN stack' = 1 .. n + 1 /\ stack'[n + 1].at = "enter"
    BY <1>0, <1>1, <1>2, <1>4, <1>5 DEF ClearStackExact
  <2>. QED  BY <1>6, <2>1, <2>2, <2>3, <2>4 DEF ClearStackExact
<1>12. FramesSound'
  <2>1. ASSUME NEW i \in 1 .. n - 1
        PROVE  /\ stack'[i] = stack[i] /\ stack[i].value \in used' /\ stack[i].value # v
               /\ stack[i].at = "kid" => IsKid(stack[i].value, stack[i].kid)'
    <3>1. i \in 1 .. n /\ i < n
      BY <1>1
    <3>2. /\ stack[i].value \in used /\ stack[i].at \in {"kid", "target"}
          /\ stack[i].at = "kid" => IsKid(stack[i].value, stack[i].kid)
      BY <1>0, <1>n, <3>1, FrameFacts
    <3>3. stack[i].value # v
      BY <1>0, <1>1, <1>n, <3>1, <3>2, OnceOnStack
    <3>. QED  BY <1>2, <1>5, <3>2, <3>3 DEF IsKid
  <2>2. FrameSound(n)'
    <3>1. Reached(n)'
      <4>1. n > 1 => stack'[n - 1] = stack[n - 1]
        BY <1>1, <1>5
      <4>2. stack'[n].value = stack[n].value /\ stack'[n].free = stack[n].free /\ stack[n].at # "enter"
        BY <1>0, <1>1, <1>6
      <4>3. roots' = roots /\ job' = job
        BY <1>2
      <4>. QED  BY <1>1, <4>1, <4>2, <4>3, ReachedKept
    <3>2. stack'[n].value \in used' /\ stack'[n].at = "kid"
      BY <1>1, <1>2, <1>4, <1>5
    <3>3. IsKid(stack[n].value, stack[n].kid)'
      BY <1>2, <1>3, <1>4, <1>5 DEF IsKid
    <3>. QED  BY <1>1, <1>5, <3>1, <3>2, <3>3 DEF FrameSound
  <2>3. FrameSound(n + 1)'
    <3>1. /\ stack'[n + 1].value \in used' /\ stack'[n + 1].at = "enter" /\ n + 1 = Len(stack')
          /\ stack'[n + 1].value \notin clearing' /\ stack'[n + 1].free
      BY <1>2, <1>3, <1>4, <1>5
    <3>2. /\ n + 1 # 1 /\ (n + 1) - 1 = n /\ stack'[n].at = "kid"
          /\ stack'[n + 1].value = stack'[n].kid
      BY <1>1, <1>4, <1>5
    <3>3. Reached(n + 1)'
      BY <3>1, <3>2 DEF Reached
    <3>. QED  BY <3>1, <3>3 DEF FrameSound
  <2>4. \A i \in n .. n + 1 :
          /\ FrameSound(i)'
          /\ stack'[i].at # "enter" =>
               i = n /\ \A j \in 1 .. n - 1 : stack[j].value # stack'[i].value
    <3>1. stack'[n].value = v /\ stack'[n + 1].at = "enter"
      BY <1>4, <1>5
    <3>2. \A i \in n .. n + 1 : i = n \/ i = n + 1
      BY <1>1
    <3>. QED  BY <2>1, <2>2, <2>3, <3>1, <3>2
  <2>5. roots' = roots /\ job' = job /\ n + 1 >= n - 1 /\ n + 1 \in Nat
    BY <1>1, <1>2
  <2>. QED  BY <1>0, <1>5, <1>n, <2>1, <2>4, <2>5, FramesKept
<1>13. JobSound'
  <2>1. stack'[1].value = stack[1].value /\ stack'[1].free = stack[1].free
    BY <1>1, <1>6
  <2>2. job.op = "replace" =>
           /\ IsKid(job.value, job.old) /\ job.old \in Values
           /\ \A i \in DOMAIN stack : stack[i].value \in Tree(job.old)
           /\ \A w \in Tree(job.old) : type[w] = "version" => data[w] \subseteq Tree(job.old)
    BY <1>0 DEF JobSound, IsKid, DataByType, TypeOK
  <2>3. Tree(job.old)' = Tree(job.old) /\ IsKid(job.value, job.old)' = IsKid(job.value, job.old)
    BY <1>2 DEF Tree, IsKid
  <2>4. job.op = "replace" => k \in Tree(job.old)
    BY <1>0, <1>1, <1>2, <1>k, <1>n, <2>2, TreeClosed
  <2>5. \A i \in 1 .. n + 1 : i = n + 1 \/ i \in 1 .. n
    BY <1>1
  <2>6. job.op = "replace" => \A i \in DOMAIN stack' : stack'[i].value \in Tree(job.old)'
    BY <1>1, <1>4, <1>5, <1>6, <2>2, <2>3, <2>4, <2>5
  <2>. QED  BY <1>0, <1>2, <1>5, <2>1, <2>2, <2>3, <2>6, JobKept
<1>a. Acyclic'
  BY <1>0, <1>2 DEF Acyclic, IsKid, Tree
<1>. QED  BY <1>8, <1>9, <1>10, <1>11, <1>12, <1>13, <1>a DEF IInv

(* What is being cleared in place of a value of a map is not the client's.  *)
LEMMA ReplacedIsNoRoot ==
  ASSUME TypeOK, DataByType, KidsOwned, JobSound, job.op = "replace"
  PROVE  /\ job.old \in Values /\ job.value \in Values /\ IsKid(job.value, job.old)
         /\ Tree(job.old) \subseteq Values \ roots
         /\ job.value \in roots /\ job.value \notin Tree(job.old)
         /\ \A i \in DOMAIN stack : stack[i].value \in Tree(job.old)
         /\ \A w \in Tree(job.old) : type[w] = "version" => data[w] \subseteq Tree(job.old)
<1>1. job.value \in roots /\ roots \subseteq Values /\ IsKid(job.value, job.old)
  BY DEF JobSound, TypeOK
<1>2. job.old \in Values /\ job.old \notin roots
  BY <1>1 DEF IsKid, DataByType, KidsOwned
<1>3. Tree(job.old) \cap roots = {} /\ Tree(job.old) \subseteq Values
  BY <1>2, RootsOutside DEF Tree
<1>4. /\ \A i \in DOMAIN stack : stack[i].value \in Tree(job.old)
      /\ \A w \in Tree(job.old) : type[w] = "version" => data[w] \subseteq Tree(job.old)
  BY DEF JobSound
<1>. QED  BY <1>1, <1>2, <1>3, <1>4

(* The child that was freed leaves the map.                                 *)
LEMMA AfterKidKeeps ==
  ASSUME IInv, AfterKid
  PROVE  IInv'
<1>0. /\ TypeOK /\ DataByType /\ BlocksOwned /\ KidsOwned /\ Acyclic /\ TargetsKept /\ FramesSound
      /\ ClearStackExact /\ ParentsFirst /\ JobSound /\ stack # <<>> /\ Top.at = "kid" /\ At("kid")
  BY DEF IInv, AfterKid, At
<1>n. PICK n, v, f, k : /\ n = Len(stack) /\ v = Top.value
                        /\ f = [Top EXCEPT !.at = "data", !.kid = None] /\ k = Top.kid
  OBVIOUS
<1>1. /\ n \in Nat \ {0} /\ DOMAIN stack = 1 .. n /\ Top = stack[n]
      /\ n \in 1 .. n /\ Top \in Frame /\ v \in used \cap Values /\ Reached(n) /\ IsKid(v, k)
  BY <1>0, <1>n, TopFacts, FrameFacts
<1>2. /\ data' = [data EXCEPT ![v] = @ \ {k}] /\ stack' = Append(Below, f)
      /\ used' = used /\ type' = type /\ shared' = shared /\ inner' = inner /\ roots' = roots
      /\ clearing' = clearing /\ job' = job
  BY <1>n DEF AfterKid
<1>3. /\ k \in Values /\ k \notin used /\ data[k] = {} /\ type[v] = "map"
      /\ \A p \in Values : IsKid(p, k) => p = v
  BY <1>0, <1>1, <1>n DEF KidsOwned, DataByType, IsKid
<1>4. f \in Frame /\ f.value = v /\ f.at = "data" /\ f.free = Top.free
  BY <1>1, <1>n DEF Frame
<1>5. /\ stack' \in Seq(Frame) /\ Len(stack') = n /\ DOMAIN stack' = 1 .. n
      /\ stack' # <<>> /\ stack'[n] = f
      /\ \A i \in 1 .. n - 1 : stack'[i] = stack[i]
  <2>1. TypeOK /\ stack # <<>> /\ f \in Frame /\ n = Len(stack) /\ stack' = Append(Below, f)
    BY <1>0, <1>2, <1>4, <1>n
  <2>. QED  BY <2>1, MoveFacts
<1>6. \A i \in 1 .. n : stack'[i].value = stack[i].value /\ stack'[i].free = stack[i].free
  <2>1. stack'[n].value = stack[n].value /\ stack'[n].free = stack[n].free
    BY <1>1, <1>4, <1>5, <1>n
  <2>2. \A i \in 1 .. n : i = n \/ i \in 1 .. n - 1
    BY <1>1
  <2>. QED  BY <1>5, <2>1, <2>2
<1>7. Top' = f /\ Detached' = Detached
  <2>1. Top' = f
    BY <1>5 DEF Top
  <2>2. 1 \in 1 .. n
    BY <1>1
  <2>. QED  BY <1>0, <1>2, <1>5, <1>6, <2>1, <2>2 DEF Detached, Inserting
<1>8. \A x \in Values : data'[x] = (IF x = v THEN data[v] \ {k} ELSE data[x])
  BY <1>0, <1>1, <1>2 DEF TypeOK
<1>9. TypeOK'
  BY <1>0, <1>2, <1>5 DEF TypeOK
<1>10. DataByType' /\ BlocksOwned'
  <2>1. DataByType'
    BY <1>0, <1>2, <1>3, <1>8 DEF DataByType
  <2>2. \A x \in Values : data'[x] \cap Blocks = data[x] \cap Blocks
    BY <1>3, <1>8, ValueTreeAssumption
  <2>. QED  BY <1>0, <1>2, <2>1, <2>2 DEF BlocksOwned
<1>11. \A p, q \in Values : IsKid(p, q)' <=> IsKid(p, q) /\ q # k
  BY <1>2, <1>3, <1>8 DEF IsKid
<1>12. ASSUME NEW r \in Values, NEW w \in Tree(r), w \in used
       PROVE  w \in Tree(r)'
  <2>1. \A q \in Values : ~IsKid(k, q)
    BY <1>3 DEF IsKid
  <2>2. w # k
    BY <1>3, <1>12
  <2>. QED  BY <1>0, <1>3, <1>10, <1>11, <2>1, <2>2, TreeKept
<1>13. KidsOwned'
  <2>1. ~At("kid")'
    BY <1>4, <1>7 DEF At
  <2>2. \A p, q \in Values : IsKid(p, q) => q = k \/ q \in used
    BY <1>0, <1>n DEF KidsOwned, Dangles
  <2>. QED  BY <1>0, <1>2, <1>3, <1>7, <1>11, <2>1, <2>2 DEF KidsOwned
<1>14. TargetsKept'
  <2>1. ASSUME NEW w \in Values, NEW r \in Values, type'[w] = "version", r \in data'[w]
        PROVE  r \in used' /\ (r \in roots' \/ w \in Tree(r)')
    <3>1. type[w] = "version" /\ r \in data[w] /\ w \in used
      BY <1>0, <1>2, <1>3, <1>8, <2>1 DEF DataByType
    <3>2. r \in used /\ (r \in roots \/ w \in Tree(r))
      BY <1>0, <3>1 DEF TargetsKept
    <3>. QED  BY <1>2, <1>12, <3>1, <3>2
  <2>. QED  BY <2>1 DEF TargetsKept
<1>15. ClearStackExact'
  <2>1. \A i \in 1 .. n : stack'[i].at # "enter" <=> stack[i].at # "enter"
    <3>1. \A i \in 1 .. n : i = n \/ i \in 1 .. n - 1
      BY <1>1
    <3>. QED  BY <1>0, <1>1, <1>4, <1>5, <3>1
  <2>. QED  BY <1>0, <1>1, <1>2, <1>5, <1>6, <2>1, SMTT(30) DEF ClearStackExact
<1>16. FramesSound'
  <2>1. ASSUME NEW i \in 1 .. n - 1
        PROVE  /\ stack'[i] = stack[i] /\ stack[i].value \in used' /\ stack[i].value # v
               /\ stack[i].at = "kid" => IsKid(stack[i].value, stack[i].kid)'
    <3>1. i \in 1 .. n /\ i < n
      BY <1>1
    <3>2. /\ stack[i].value \in used \cap Values /\ stack[i].at \in {"kid", "target"}
          /\ stack[i].at = "kid" => IsKid(stack[i].value, stack[i].kid)
      BY <1>0, <1>n, <3>1, FrameFacts
    <3>3. stack[i].value # v
      BY <1>0, <1>1, <1>n, <3>1, <3>2, OnceOnStack
    <3>. QED  BY <1>2, <1>5, <1>8, <3>2, <3>3 DEF IsKid
  <2>2. FrameSound(n)'
    <3>1. Reached(n)'
      <4>1. n > 1 => stack'[n - 1] = stack[n - 1]
        BY <1>1, <1>5
      <4>2. stack'[n].value = stack[n].value /\ stack'[n].free = stack[n].free /\ stack[n].at # "enter"
        BY <1>0, <1>1, <1>6
      <4>. QED  BY <1>1, <1>2, <4>1, <4>2, ReachedKept
    <3>2. stack'[n].value \in used' /\ stack'[n].at = "data" /\ n = Len(stack')
      BY <1>1, <1>2, <1>4, <1>5
    <3>. QED  BY <1>1, <3>1, <3>2 DEF FrameSound
  <2>3. \A i \in n .. n :
          /\ FrameSound(i)'
          /\ stack'[i].at # "enter" =>
               i = n /\ \A j \in 1 .. n - 1 : stack[j].value # stack'[i].value
    <3>1. stack'[n].value = v /\ \A i \in n .. n : i = n
      BY <1>1, <1>4, <1>5
    <3>. QED  BY <2>1, <2>2, <3>1
  <2>4. n >= n - 1 /\ n \in Nat
    BY <1>1
  <2>. QED  BY <1>0, <1>2, <1>5, <1>n, <2>1, <2>3, <2>4, FramesKept
<1>17. ParentsFirst'
  BY <1>0, <1>2, <1>11 DEF ParentsFirst
<1>18. JobSound'
  <2>1. stack'[1].value = stack[1].value /\ stack'[1].free = stack[1].free
    BY <1>1, <1>6
  <2>2. ASSUME job.op = "replace"
        PROVE  /\ IsKid(job.value, job.old)'
               /\ \A i \in DOMAIN stack' : stack'[i].value \in Tree(job.old)'
               /\ \A w \in Tree(job.old)' : type'[w] = "version" => data'[w] \subseteq Tree(job.old)'
    <3>1. /\ job.old \in Values /\ job.value \in Values /\ IsKid(job.value, job.old)
          /\ Tree(job.old) \subseteq Values /\ job.value \notin Tree(job.old)
          /\ \A i \in DOMAIN stack : stack[i].value \in Tree(job.old)
          /\ \A w \in Tree(job.old) : type[w] = "version" => data[w] \subseteq Tree(job.old)
      BY <1>0, <2>2, ReplacedIsNoRoot
    <3>2. IsKid(job.value, job.old)'
      <4>1. job.value # v
        BY <1>1, <1>n, <3>1
      <4>. QED  BY <1>2, <1>8, <3>1, <4>1 DEF IsKid
    <3>3. \A i \in 1 .. n : stack[i].value \in used
      BY <1>0, <1>n, FrameFacts
    <3>4. \A i \in DOMAIN stack' : stack'[i].value \in Tree(job.old)'
      <4>1. \A i \in 1 .. n : stack[i].value \in Tree(job.old)'
        BY <1>1, <1>2, <1>12, <3>1, <3>3
      <4>. QED  BY <1>5, <1>6, <4>1
    <3>5. Tree(job.old)' \subseteq Tree(job.old)
      BY <1>0, <1>2, <1>10, <1>11, <3>1, TreeShrinks
    <3>6. ASSUME NEW w \in Tree(job.old)', type'[w] = "version", NEW r \in data'[w]
          PROVE  r \in Tree(job.old)'
      <4>1. w \in Tree(job.old) /\ w \in Values /\ type[w] = "version" /\ r \in data[w]
        BY <1>2, <1>3, <1>8, <3>1, <3>5, <3>6
      <4>2. r \in Tree(job.old) /\ r \in Values /\ r \in used
        BY <1>0, <3>1, <4>1 DEF TargetsKept
      <4>. QED  BY <1>2, <1>12, <3>1, <4>2
    <3>. QED  BY <3>2, <3>4, <3>6
  <2>. QED  BY <1>0, <1>2, <1>5, <2>1, <2>2, JobKept
<1>a. Acyclic'
  BY <1>0, <1>10, <1>11, AcyclicShrinks
<1>. QED  BY <1>9, <1>10, <1>13, <1>14, <1>15, <1>16, <1>17, <1>18, <1>a DEF IInv

(* A version's target is the client's, or its clearing began before the version
   was reached: the maps around a value in progress are in progress too.    *)
LEMMA TargetReached ==
  ASSUME IInv, stack # <<>>, Top.at = "data", type[Top.value] = "version",
         NEW r \in data[Top.value]
  PROVE  r \in used \cap Values /\ (r \in roots \/ r \in clearing)
<1>0. /\ TypeOK /\ DataByType /\ KidsOwned /\ TargetsKept /\ FramesSound
      /\ ClearStackExact /\ ParentsFirst /\ JobSound
  BY DEF IInv
<1>n. PICK n, v : n = Len(stack) /\ v = Top.value
  OBVIOUS
<1>1. /\ n \in Nat \ {0} /\ DOMAIN stack = 1 .. n /\ n \in 1 .. n /\ Top = stack[n]
      /\ v \in used \cap Values
  BY <1>0, <1>n, TopFacts, FrameFacts
<1>2. v \in clearing
  BY <1>0, <1>1, <1>n DEF ClearStackExact
<1>3. r \in Values /\ r \in used /\ (r \in roots \/ v \in Tree(r))
  BY <1>0, <1>1, <1>n DEF DataByType, TargetsKept
<1>4. ASSUME r \notin clearing, v \in Tree(r)
      PROVE  FALSE
  <2>1. CASE job.op # "replace"
    <3>1. \A p \in Values \ clearing, k \in Values : IsKid(p, k) => k \in Values \ clearing
      BY <1>0, <2>1 DEF ParentsFirst
    <3>2. Tree(r) \subseteq Values \ clearing
      BY <1>0, <1>3, <1>4, <3>1, TreeLeast
    <3>. QED  BY <1>2, <1>4, <3>2
  <2>2. CASE job.op = "replace"
    <3>1. /\ job.old \in Values /\ Tree(job.old) \subseteq Values /\ job.value \notin Tree(job.old)
          /\ v \in Tree(job.old) /\ r \in Tree(job.old)
      BY <1>0, <1>1, <1>n, <2>2, ReplacedIsNoRoot
    <3>2. ASSUME NEW p \in Tree(job.old) \ clearing, NEW k \in Values, IsKid(p, k)
          PROVE  k \in Tree(job.old) \ clearing
      <4>1. k \in Tree(job.old)
        BY <1>0, <3>1, <3>2, TreeClosed DEF IsKid
      <4>2. k \notin clearing
        BY <1>0, <3>1, <3>2 DEF ParentsFirst
      <4>. QED  BY <4>1, <4>2
    <3>3. Tree(job.old) \ clearing \in SUBSET Values /\ r \in Tree(job.old) \ clearing
      BY <1>4, <3>1
    <3>4. Tree(r) \subseteq Tree(job.old) \ clearing
      BY <1>0, <1>3, <3>2, <3>3, TreeLeast
    <3>. QED  BY <1>2, <1>4, <3>4
  <2>. QED  BY <2>1, <2>2
<1>. QED  BY <1>3, <1>4

(* The call on a version clears the target.                                 *)
LEMMA ClearTargetKeeps ==
  ASSUME IInv, ClearTarget
  PROVE  IInv'
<1>0. /\ TypeOK /\ DataByType /\ BlocksOwned /\ KidsOwned /\ Acyclic /\ TargetsKept /\ FramesSound
      /\ ClearStackExact /\ ParentsFirst /\ JobSound /\ stack # <<>> /\ Top.at = "data"
  BY DEF IInv, ClearTarget, At
<1>r. PICK r \in data[Top.value] :
        stack' = Append(Append(Below, [Top EXCEPT !.at = "target"]), Call(r, FALSE))
  BY DEF ClearTarget
<1>n. PICK n, v, f, g : /\ n = Len(stack) /\ v = Top.value
                        /\ f = [Top EXCEPT !.at = "target"] /\ g = Call(r, FALSE)
  OBVIOUS
<1>1. /\ n \in Nat \ {0} /\ DOMAIN stack = 1 .. n /\ Top = stack[n]
      /\ n \in 1 .. n /\ Top \in Frame /\ v \in used \cap Values /\ Reached(n)
  BY <1>0, <1>n, TopFacts, FrameFacts
<1>2. /\ type[v] = "version" /\ stack' = Append(Append(Below, f), g)
      /\ data' = [data EXCEPT ![v] = {}] /\ used' = used /\ type' = type /\ shared' = shared
      /\ inner' = inner
      /\ roots' = roots /\ clearing' = clearing /\ job' = job
  BY <1>r, <1>n DEF ClearTarget, Of
<1>3. r \in data[v] /\ r \in Values /\ r \in used /\ (r \in roots \/ r \in clearing)
  BY <1>0, <1>2, <1>r, <1>n, TargetReached
<1>4. /\ f \in Frame /\ f.value = v /\ f.at = "target" /\ f.free = Top.free
      /\ g \in Frame /\ g.value = r /\ g.at = "enter" /\ g.free = FALSE
  BY <1>1, <1>3, <1>n DEF Frame, Call
<1>5. /\ stack' \in Seq(Frame) /\ Len(stack') = n + 1 /\ DOMAIN stack' = 1 .. n + 1
      /\ stack' # <<>> /\ stack'[n] = f /\ stack'[n + 1] = g
      /\ \A i \in 1 .. n - 1 : stack'[i] = stack[i]
  <2>1. TypeOK /\ stack # <<>> /\ f \in Frame /\ g \in Frame /\ n = Len(stack)
        /\ stack' = Append(Append(Below, f), g)
    BY <1>0, <1>2, <1>4, <1>n
  <2>. QED  BY <2>1, PushFacts
<1>6. \A i \in 1 .. n : stack'[i].value = stack[i].value /\ stack'[i].free = stack[i].free
  <2>1. stack'[n].value = stack[n].value /\ stack'[n].free = stack[n].free
    BY <1>1, <1>4, <1>5, <1>n
  <2>2. \A i \in 1 .. n : i = n \/ i \in 1 .. n - 1
    BY <1>1
  <2>. QED  BY <1>5, <2>1, <2>2
<1>7. Top' = g /\ Detached' = Detached
  <2>1. Top' = g
    BY <1>5 DEF Top
  <2>2. 1 \in 1 .. n
    BY <1>1
  <2>. QED  BY <1>0, <1>2, <1>5, <1>6, <2>1, <2>2 DEF Detached, Inserting
<1>8. \A x \in Values : data'[x] = (IF x = v THEN {} ELSE data[x])
  BY <1>0, <1>1, <1>2 DEF TypeOK
<1>9. TypeOK'
  BY <1>0, <1>2, <1>5 DEF TypeOK
<1>10. DataByType' /\ BlocksOwned'
  <2>1. DataByType'
    BY <1>0, <1>2, <1>8 DEF DataByType
  <2>2. data[v] \cap Blocks = {}
    BY <1>0, <1>1, <1>2, ValueTreeAssumption DEF DataByType
  <2>3. \A x \in Values : data'[x] \cap Blocks = data[x] \cap Blocks
    BY <1>8, <2>2
  <2>. QED  BY <1>0, <1>2, <2>1, <2>3 DEF BlocksOwned
<1>11. \A p, k \in Values : IsKid(p, k)' <=> IsKid(p, k)
  BY <1>2, <1>8 DEF IsKid
<1>12. \A x \in Values : Tree(x)' = Tree(x)
  BY <1>0, <1>10, <1>11, SameTrees
<1>13. KidsOwned'
  <2>1. ~At("kid")'
    BY <1>4, <1>7 DEF At
  <2>2. \A p, q \in Values : IsKid(p, q) => q \in used
    BY <1>0 DEF KidsOwned, Dangles, At
  <2>. QED  BY <1>0, <1>2, <1>7, <1>11, <2>1, <2>2 DEF KidsOwned
<1>14. TargetsKept'
  BY <1>0, <1>2, <1>8, <1>12 DEF TargetsKept
<1>15. ClearStackExact'
  <2>1. \A i \in 1 .. n : stack'[i].at # "enter" <=> stack[i].at # "enter"
    <3>1. \A i \in 1 .. n : i = n \/ i \in 1 .. n - 1
      BY <1>1
    <3>. QED  BY <1>0, <1>1, <1>4, <1>5, <3>1
  <2>2. \A i \in 1 .. n + 1 : i = n + 1 \/ i \in 1 .. n
    BY <1>1
  <2>3. \A i \in 1 .. n : i \in 1 .. n + 1
    BY <1>1
  <2>4. /\ clearing = {stack[i].value : i \in {j \in 1 .. n : stack[j].at # "enter"}}
        /\ clearing' = clearing /\ DOMAIN stack' = 1 .. n + 1 /\ stack'[n + 1].at = "enter"
    BY <1>0, <1>1, <1>2, <1>4, <1>5 DEF ClearStackExact
  <2>. QED  BY <1>6, <2>1, <2>2, <2>3, <2>4 DEF ClearStackExact
<1>16. FramesSound'
  <2>1. ASSUME NEW i \in 1 .. n - 1
        PROVE  /\ stack'[i] = stack[i] /\ stack[i].value \in used' /\ stack[i].value # v
               /\ stack[i].at = "kid" => IsKid(stack[i].value, stack[i].kid)'
    <3>1. i \in 1 .. n /\ i < n
      BY <1>1
    <3>2. /\ stack[i].value \in used \cap Values /\ stack[i].at \in {"kid", "target"}
          /\ stack[i].at = "kid" => IsKid(stack[i].value, stack[i].kid)
      BY <1>0, <1>n, <3>1, FrameFacts
    <3>3. stack[i].value # v
      BY <1>0, <1>1, <1>n, <3>1, <3>2, OnceOnStack
    <3>. QED  BY <1>2, <1>5, <1>8, <3>2, <3>3 DEF IsKid
  <2>2. FrameSound(n)'
    <3>1. Reached(n)'
      <4>1. n > 1 => stack'[n - 1] = stack[n - 1]
        BY <1>1, <1>5
      <4>2. stack'[n].value = stack[n].value /\ stack'[n].free = stack[n].free /\ stack[n].at # "enter"
        BY <1>0, <1>1, <1>6
      <4>. QED  BY <1>1, <1>2, <4>1, <4>2, ReachedKept
    <3>2. stack'[n].value \in used' /\ stack'[n].at = "target"
      BY <1>1, <1>2, <1>4, <1>5
    <3>. QED  BY <1>1, <3>1, <3>2 DEF FrameSound
  <2>3. FrameSound(n + 1)'
    <3>1. /\ stack'[n + 1].value \in used' /\ stack'[n + 1].at = "enter" /\ n + 1 = Len(stack')
          /\ stack'[n + 1].value \in roots' \cup clearing' /\ ~stack'[n + 1].free
      BY <1>2, <1>3, <1>4, <1>5
    <3>2. (n + 1) - 1 = n /\ stack'[n].at = "target"
      BY <1>1, <1>4, <1>5
    <3>3. Reached(n + 1)'
      BY <3>1, <3>2 DEF Reached
    <3>. QED  BY <3>1, <3>3 DEF FrameSound
  <2>4. \A i \in n .. n + 1 :
          /\ FrameSound(i)'
          /\ stack'[i].at # "enter" =>
               i = n /\ \A j \in 1 .. n - 1 : stack[j].value # stack'[i].value
    <3>1. stack'[n].value = v /\ stack'[n + 1].at = "enter"
      BY <1>4, <1>5
    <3>2. \A i \in n .. n + 1 : i = n \/ i = n + 1
      BY <1>1
    <3>. QED  BY <2>1, <2>2, <2>3, <3>1, <3>2
  <2>5. n + 1 >= n - 1 /\ n + 1 \in Nat
    BY <1>1
  <2>6. /\ TypeOK /\ FramesSound /\ stack # <<>> /\ roots' = roots /\ job' = job
        /\ n = Len(stack) /\ DOMAIN stack' = 1 .. n + 1
    BY <1>0, <1>2, <1>5, <1>n
  <2>. QED  BY <2>1, <2>4, <2>5, <2>6, FramesKept
<1>17. ParentsFirst'
  BY <1>0, <1>2, <1>11 DEF ParentsFirst
<1>18. JobSound'
  <2>1. stack'[1].value = stack[1].value /\ stack'[1].free = stack[1].free
    BY <1>1, <1>6
  <2>2. ASSUME job.op = "replace"
        PROVE  /\ IsKid(job.value, job.old)'
               /\ \A i \in DOMAIN stack' : stack'[i].value \in Tree(job.old)'
               /\ \A w \in Tree(job.old)' : type'[w] = "version" => data'[w] \subseteq Tree(job.old)'
    <3>1. /\ job.old \in Values /\ job.value \in Values /\ IsKid(job.value, job.old)
          /\ Tree(job.old) \subseteq Values
          /\ \A i \in DOMAIN stack : stack[i].value \in Tree(job.old)
          /\ \A w \in Tree(job.old) : type[w] = "version" => data[w] \subseteq Tree(job.old)
      BY <1>0, <2>2, ReplacedIsNoRoot
    <3>2. IsKid(job.value, job.old)' /\ Tree(job.old)' = Tree(job.old)
      BY <1>2, <1>11, <1>12, <3>1
    <3>3. r \in Tree(job.old)
      BY <1>1, <1>2, <1>3, <1>n, <3>1
    <3>4. \A i \in 1 .. n + 1 : i = n + 1 \/ i \in 1 .. n
      BY <1>1
    <3>5. \A i \in DOMAIN stack' : stack'[i].value \in Tree(job.old)'
      BY <1>1, <1>4, <1>5, <1>6, <3>1, <3>2, <3>3, <3>4
    <3>6. \A w \in Tree(job.old)' : type'[w] = "version" => data'[w] \subseteq Tree(job.old)'
      BY <1>2, <1>8, <3>1, <3>2
    <3>. QED  BY <3>2, <3>5, <3>6
  <2>. QED  BY <1>0, <1>2, <1>5, <2>1, <2>2, JobKept
<1>a. Acyclic'
  BY <1>0, <1>10, <1>11, AcyclicShrinks
<1>. QED  BY <1>9, <1>10, <1>13, <1>14, <1>15, <1>16, <1>17, <1>18, <1>a DEF IInv

(* What clearing frees is nobody's: a call below waits for it.              *)
LEMMA FreedIsNobodys ==
  ASSUME IInv, stack # <<>>, Top.at # "enter", Top.free
  PROVE  /\ Top.value \notin roots
         /\ Len(stack) > 1 => Top.value \notin Detached
         /\ ~(Inserting /\ Top.value = job.child)
<1>0. TypeOK /\ DataByType /\ KidsOwned /\ FramesSound /\ JobSound
  BY DEF IInv
<1>n. PICK n, v : n = Len(stack) /\ v = Top.value
  OBVIOUS
<1>1. /\ n \in Nat \ {0} /\ n \in 1 .. n /\ Top = stack[n] /\ v \in used \cap Values /\ Reached(n)
  BY <1>0, <1>n, TopFacts, FrameFacts
<1>2. CASE n > 1
  <2>1. n - 1 \in 1 .. n /\ stack[n - 1].at = "kid" /\ stack[n - 1].kid = v
    BY <1>1, <1>2, <1>n DEF Reached
  <2>2. stack[n - 1].value \in Values /\ IsKid(stack[n - 1].value, v)
    BY <1>0, <1>n, <2>1, FrameFacts
  <2>. QED  BY <1>0, <1>1, <1>n, <2>2 DEF KidsOwned, Detached
<1>3. CASE n = 1 /\ job.op = "replace"
  <2>1. v = job.old /\ job.value \in Values /\ IsKid(job.value, v)
    BY <1>0, <1>1, <1>3, <1>n, ReplacedIsNoRoot DEF Reached
  <2>. QED  BY <1>0, <1>1, <1>3, <1>n, <2>1 DEF KidsOwned, Detached
<1>4. CASE n = 1 /\ job.op # "replace"
  <2>1. stack[1].value = v /\ stack[1].free
    BY <1>1, <1>4, <1>n
  <2>2. v \in Detached
    BY <1>1, <1>4, <2>1 DEF Detached
  <2>3. ~Inserting
    BY <1>0, <1>4, <2>1 DEF JobSound, Inserting
  <2>4. Detached \cap roots = {}
    BY <1>0 DEF KidsOwned
  <2>. QED  BY <1>4, <1>n, <2>2, <2>3, <2>4
<1>. QED  BY <1>1, <1>2, <1>3, <1>4

(* The value is empty: the call returns, after it freed the value if it should. *)
LEMMA WipeKeeps ==
  ASSUME IInv, Wipe
  PROVE  IInv'
<1>0. /\ TypeOK /\ DataByType /\ BlocksOwned /\ KidsOwned /\ Acyclic /\ TargetsKept /\ FramesSound
      /\ ClearStackExact /\ ParentsFirst /\ JobSound /\ stack # <<>> /\ Top.at \in {"data", "target"}
  BY DEF IInv, Wipe, At
<1>n. PICK n, v : n = Len(stack) /\ v = Top.value
  OBVIOUS
<1>1. /\ n \in Nat \ {0} /\ DOMAIN stack = 1 .. n /\ Top = stack[n] /\ n \in 1 .. n
      /\ v \in used \cap Values /\ Reached(n)
  BY <1>0, <1>n, TopFacts, FrameFacts
<1>2. /\ data[v] = {} /\ stack' = Below /\ type' = [type EXCEPT ![v] = "null"]
      /\ used' = (IF Top.free THEN used \ {v} ELSE used) /\ clearing' = clearing \ {v}
      /\ data' = data /\ shared' = shared /\ inner' = inner /\ roots' = roots /\ job' = job
  BY <1>n DEF Wipe, Return
<1>3. /\ stack' \in Seq(Frame) /\ Len(stack') = n - 1 /\ DOMAIN stack' = 1 .. n - 1
      /\ stack' = <<>> <=> n = 1
      /\ \A i \in 1 .. n - 1 : stack'[i] = stack[i]
  <2>1. TypeOK /\ stack # <<>> /\ n = Len(stack) /\ stack' = Below
    BY <1>0, <1>2, <1>n
  <2>. QED  BY <2>1, PopFacts
<1>4. /\ n > 1 => 1 \in 1 .. n - 1 /\ stack'[1] = stack[1]
      /\ n > 1 => n - 1 \in 1 .. n /\ Top' = stack[n - 1]
  BY <1>1, <1>3 DEF Top
<1>5. Top.free => v \notin roots /\ (n > 1 => v \notin Detached) /\ ~(Inserting /\ v = job.child)
  BY <1>0, <1>n, FreedIsNobodys
<1>6. \A x \in Values : /\ type'[x] = (IF x = v THEN "null" ELSE type[x])
                        /\ x \in used' <=> x \in used /\ ~(Top.free /\ x = v)
  BY <1>0, <1>1, <1>2 DEF TypeOK
<1>7. TypeOK'
  BY <1>0, <1>1, <1>2, <1>3, <1>5 DEF TypeOK, Type
<1>8. DataByType'
  BY <1>0, <1>2, <1>6 DEF DataByType
<1>9. BlocksOwned'
  <2>1. used' \cap Blocks = used \cap Blocks
    BY <1>1, <1>2, ValueTreeAssumption
  <2>. QED  BY <1>0, <1>2, <2>1 DEF BlocksOwned
<1>10. \A p, k \in Values : /\ IsKid(p, k)' <=> IsKid(p, k)
                            /\ IsKid(p, k) => p # v
  BY <1>2, <1>6 DEF IsKid
<1>11. \A x \in Values : Tree(x)' = Tree(x)
  BY <1>0, <1>8, <1>10, SameTrees
<1>12. TargetsKept'
  <2>0. {v} \in SUBSET Values /\ v \in {v} /\ \A p \in {v}, k \in Values : IsKid(p, k) => k \in {v}
    BY <1>1, <1>2 DEF IsKid
  <2>1. Tree(v) \subseteq {v}
    BY <1>0, <1>1, <2>0, TreeLeast
  <2>2. ASSUME NEW w \in Values, NEW r \in Values, type'[w] = "version", r \in data'[w]
        PROVE  r \in used' /\ (r \in roots' \/ w \in Tree(r)')
    <3>1. w # v /\ type[w] = "version" /\ r \in data[w]
      BY <1>2, <1>6, <2>2
    <3>2. r \in used /\ (r \in roots \/ w \in Tree(r))
      BY <1>0, <3>1 DEF TargetsKept
    <3>3. r \in used'
      BY <1>5, <1>6, <2>1, <3>1, <3>2
    <3>. QED  BY <1>2, <1>11, <3>2, <3>3
  <2>. QED  BY <2>2 DEF TargetsKept
<1>13. Detached' \subseteq Detached /\ (Top.free => v \notin Detached')
       /\ Detached \subseteq Detached' \cup {v} /\ (~Top.free => Detached' = Detached)
  <2>1. CASE n > 1
    <3>1. Detached' = Detached
      BY <1>0, <1>2, <1>3, <1>4, <2>1 DEF Detached, Inserting
    <3>. QED  BY <1>5, <2>1, <3>1
  <2>2. CASE n = 1
    <3>1. stack' = <<>> /\ stack[1].value = v /\ stack[1].free = Top.free
      BY <1>1, <1>3, <1>n, <2>2
    <3>. QED  BY <1>0, <1>2, <1>5, <3>1 DEF Detached, Inserting
  <2>. QED  BY <1>1, <2>1, <2>2
<1>14. KidsOwned'
  <2>1. ASSUME NEW p \in Values, NEW k \in Values, IsKid(p, k)
        PROVE  k \notin roots /\ k \notin Detached' /\ (k \in used' \/ Dangles(p, k)')
    <3>1. k \notin roots /\ k \notin Detached /\ k \in used
      BY <1>0, <2>1 DEF KidsOwned, Dangles, At
    <3>2. ASSUME k = v, Top.free
          PROVE  Dangles(p, k)'
      <4>1. \/ n > 1 /\ stack[n - 1].at = "kid" /\ stack[n - 1].value = p /\ stack[n - 1].kid = v
            \/ n = 1 /\ job.op = "replace" /\ v = job.old /\ p = job.value
        BY <1>0, <1>1, <1>n, <2>1, <3>2, CallOfParent
      <4>. QED  BY <1>2, <1>3, <1>4, <3>2, <4>1 DEF Dangles, At
    <3>. QED  BY <1>6, <1>13, <3>1, <3>2
  <2>2. ASSUME NEW k \in used' \cap Values
        PROVE  k \in roots \/ k \in Detached' \/ \E p \in Values : IsKid(p, k)
    BY <1>0, <1>6, <1>13, <2>2 DEF KidsOwned
  <2>3. Detached' \subseteq used' \ roots
    <3>1. Detached' \subseteq Values
      BY DEF Detached
    <3>. QED  BY <1>0, <1>6, <1>13, <3>1 DEF KidsOwned
  <2>4. ASSUME At("kid")'
        PROVE  Top'.kid \notin used'
    <3>1. n > 1 /\ stack[n - 1].at = "kid" /\ Top' = stack[n - 1]
      BY <1>1, <1>3, <1>4, <2>4 DEF At
    <3>2. Top.free /\ Top'.kid = v
      BY <1>1, <1>n, <3>1 DEF Reached
    <3>. QED  BY <1>2, <3>2
  <2>. QED  BY <1>0, <1>2, <1>10, <2>1, <2>2, <2>3, <2>4 DEF KidsOwned
<1>15. ASSUME NEW i \in 1 .. n - 1
       PROVE  /\ i \in 1 .. n /\ stack'[i] = stack[i] /\ stack[i].at # "enter"
              /\ stack[i].value # v /\ stack[i].value \in used'
              /\ stack[i].at = "kid" => IsKid(stack[i].value, stack[i].kid)'
  <2>1. i \in 1 .. n /\ i < n
    BY <1>1
  <2>2. /\ stack[i].value \in used \cap Values /\ stack[i].at \in {"kid", "target"}
        /\ stack[i].at = "kid" => IsKid(stack[i].value, stack[i].kid)
    BY <1>0, <1>n, <2>1, FrameFacts
  <2>3. stack[i].value # v
    BY <1>0, <1>1, <1>n, <2>1, <2>2, OnceOnStack
  <2>4. stack[i].value \in used'
    BY <1>6, <2>2, <2>3
  <2>5. stack[i].at = "kid" => IsKid(stack[i].value, stack[i].kid)'
    BY <1>2, <1>3, <1>6, <2>2, <2>3 DEF IsKid
  <2>. QED  BY <1>3, <2>1, <2>2, <2>3, <2>4, <2>5
<1>16. ClearStackExact'
  <2>1. clearing = {stack[i].value : i \in {j \in 1 .. n : stack[j].at # "enter"}}
    BY <1>0, <1>1 DEF ClearStackExact
  <2>2. \A i \in 1 .. n : i \in 1 .. n - 1 \/ (i = n /\ stack[i].value = v)
    <3>1. stack[n].value = v
      BY <1>1, <1>n
    <3>2. \A i \in 1 .. n : i \in 1 .. n - 1 \/ i = n
      BY <1>1
    <3>. QED  BY <3>1, <3>2
  <2>3. clearing' = {stack'[i].value : i \in {j \in 1 .. n - 1 : stack'[j].at # "enter"}}
    BY <1>2, <1>15, <2>1, <2>2
  <2>. QED  BY <1>3, <2>3 DEF ClearStackExact
<1>17. FramesSound'
  <2>1. n - 1 \in Nat /\ n .. n - 1 = {}
    BY <1>1
  <2>2. TypeOK /\ FramesSound /\ stack # <<>> /\ roots' = roots /\ job' = job
    BY <1>0, <1>2
  <2>. QED  BY <1>3, <1>15, <1>n, <2>1, <2>2, FramesKept
<1>18. ParentsFirst'
  BY <1>0, <1>2, <1>10 DEF ParentsFirst
<1>19. JobSound'
  <2>1. ASSUME job.op = "replace"
        PROVE  /\ IsKid(job.value, job.old)'
               /\ \A i \in DOMAIN stack' : stack'[i].value \in Tree(job.old)'
               /\ \A w \in Tree(job.old)' : type'[w] = "version" => data'[w] \subseteq Tree(job.old)'
    <3>1. /\ job.old \in Values /\ job.value \in Values /\ IsKid(job.value, job.old)
          /\ Tree(job.old) \subseteq Values
          /\ \A i \in DOMAIN stack : stack[i].value \in Tree(job.old)
          /\ \A w \in Tree(job.old) : type[w] = "version" => data[w] \subseteq Tree(job.old)
      BY <1>0, <2>1, ReplacedIsNoRoot
    <3>2. IsKid(job.value, job.old)' /\ Tree(job.old)' = Tree(job.old)
      BY <1>2, <1>10, <1>11, <3>1
    <3>3. \A i \in DOMAIN stack' : stack'[i].value \in Tree(job.old)'
      BY <1>1, <1>3, <1>15, <3>1, <3>2
    <3>4. \A w \in Tree(job.old)' : type'[w] = "version" => data'[w] \subseteq Tree(job.old)'
      BY <1>2, <1>6, <3>1, <3>2
    <3>. QED  BY <3>2, <3>3, <3>4
  <2>2. CASE n > 1
    <3>1. stack' # <<>> /\ stack'[1].value = stack[1].value /\ stack'[1].free = stack[1].free
      BY <1>3, <1>4, <2>2
    <3>. QED  BY <1>0, <1>2, <2>1, <3>1, JobKept
  <2>3. CASE n = 1
    <3>1. stack' = <<>> /\ stack[1].value = v /\ stack[1].free = Top.free
      BY <1>1, <1>3, <1>n, <2>3
    <3>2. job.op \in {"init", "insert"} => data'[job.value] = {}
      BY <1>0, <1>2, <3>1 DEF JobSound
    <3>3. job.op = "replace" => job.old \notin used'
      BY <1>0, <1>2, <3>1 DEF JobSound
    <3>4. /\ job.op # "none" => job.value \in roots
          /\ Inserting => job.child \in Values
      BY <1>0 DEF JobSound
    <3>5. /\ job'.op # "none" => job'.value \in roots'
          /\ Inserting' => job'.child \in Values
          /\ job'.op \in {"init", "insert"} => data'[job'.value] = {}
      BY <1>2, <3>2, <3>4 DEF Inserting
    <3>6. job'.op = "replace" =>
            /\ IsKid(job.value, job.old)' /\ job'.old \notin used'
            /\ \A i \in DOMAIN stack' : stack'[i].value \in Tree(job.old)'
            /\ \A w \in Tree(job.old)' : type'[w] = "version" => data'[w] \subseteq Tree(job.old)'
      BY <1>2, <2>1, <3>3
    <3>. QED  BY <3>1, <3>5, <3>6 DEF JobSound
  <2>. QED  BY <1>1, <2>2, <2>3
<1>a. Acyclic'
  BY <1>0, <1>8, <1>10, AcyclicShrinks
<1>. QED  BY <1>7, <1>8, <1>9, <1>12, <1>14, <1>16, <1>17, <1>18, <1>19, <1>a DEF IInv

-----------------------------------------------------------------------------
(* The client's calls.                                                      *)

(* Without a call in progress nothing is being cleared, and a map has no child
   that was freed, unless the client's call is replacing one.               *)
LEMMA QuietFacts ==
  ASSUME IInv, stack = <<>>
  PROVE  /\ clearing = {}
         /\ job.op # "replace" => \A p, k \in Values : IsKid(p, k) => k \in used
         /\ Detached = {v \in Values : Inserting /\ v = job.child}
<1>1. clearing = {}
  <2>1. DOMAIN stack = {}
    OBVIOUS
  <2>2. ClearStackExact
    BY DEF IInv
  <2>. QED  BY <2>1, <2>2 DEF ClearStackExact
<1>2. job.op # "replace" => \A p, k \in Values : IsKid(p, k) => k \in used
  BY DEF IInv, KidsOwned, Dangles, At
<1>. QED  BY <1>1, <1>2 DEF Detached

(* Nothing is being cleared after the step.                                 *)
LEMMA NoCall ==
  ASSUME stack' = <<>>, clearing' = {}
  PROVE  FramesSound' /\ ClearStackExact' /\ ParentsFirst' /\ ~At("kid")'
<1>1. DOMAIN stack' = {}
  OBVIOUS
<1>. QED  BY <1>1 DEF FramesSound, ClearStackExact, ParentsFirst, At

(* The step makes the first call of a clearing.                             *)
LEMMA OneCall ==
  ASSUME NEW v \in Values, NEW f \in BOOLEAN, stack' = <<Call(v, f)>>, clearing' = {},
         v \in used', ~f => v \in roots', f /\ job'.op = "replace" => v = job'.old
  PROVE  /\ stack' \in Seq(Frame) /\ stack' # <<>>
         /\ stack'[1].value = v /\ stack'[1].free = f /\ DOMAIN stack' = {1}
         /\ FramesSound' /\ ClearStackExact' /\ ParentsFirst' /\ ~At("kid")'
<1>1. /\ Call(v, f) \in Frame /\ Call(v, f).value = v /\ Call(v, f).free = f
      /\ Call(v, f).at = "enter"
  BY DEF Call, Frame
<1>2. /\ stack' \in Seq(Frame) /\ stack' # <<>> /\ DOMAIN stack' = {1} /\ Len(stack') = 1
      /\ stack'[1] = Call(v, f)
  BY <1>1
<1>3. Top' = Call(v, f)
  BY <1>2 DEF Top
<1>4. Reached(1)'
  BY <1>1, <1>2 DEF Reached
<1>5. FrameSound(1)'
  BY <1>1, <1>2, <1>4 DEF FrameSound
<1>6. FramesSound'
  BY <1>2, <1>5 DEF FramesSound
<1>7. ClearStackExact' /\ ParentsFirst' /\ ~At("kid")'
  BY <1>1, <1>2, <1>3 DEF ClearStackExact, ParentsFirst, At
<1>. QED  BY <1>1, <1>2, <1>6, <1>7

(* A new value is the client's and empty.                                   *)
LEMMA AllocKeeps ==
  ASSUME IInv, NEW v \in Values, Alloc(v)
  PROVE  IInv'
<1>0. /\ TypeOK /\ DataByType /\ BlocksOwned /\ KidsOwned /\ Acyclic /\ TargetsKept
      /\ stack = <<>> /\ job = NoJob /\ v \notin used
  BY DEF IInv, Alloc, Idle
<1>1. /\ used' = used \cup {v} /\ type' = [type EXCEPT ![v] = "null"]
      /\ data' = [data EXCEPT ![v] = {}] /\ roots' = roots \cup {v}
      /\ shared' = shared /\ inner' = inner /\ clearing' = clearing /\ stack' = stack /\ job' = job
  BY DEF Alloc
<1>2. /\ clearing = {} /\ job.op = "none" /\ ~Inserting /\ Detached = {} /\ data[v] = {}
      /\ \A p, k \in Values : IsKid(p, k) => k \in used
  <2>1. job.op = "none" /\ ~Inserting
    BY <1>0 DEF NoJob, Inserting
  <2>. QED  BY <1>0, <2>1, QuietFacts DEF DataByType
<1>3. \A x \in Values : data'[x] = data[x] /\ type'[x] = (IF x = v THEN "null" ELSE type[x])
  BY <1>0, <1>1, <1>2 DEF TypeOK
<1>4. TypeOK'
  BY <1>0, <1>1 DEF TypeOK, Type
<1>5. DataByType'
  BY <1>0, <1>1, <1>2, <1>3 DEF DataByType
<1>6. BlocksOwned'
  BY <1>0, <1>1, <1>3, ValueTreeAssumption DEF BlocksOwned
<1>7. \A p, k \in Values : IsKid(p, k)' <=> IsKid(p, k)
  BY <1>2, <1>3 DEF IsKid
<1>8. Detached' = {}
  BY <1>0, <1>1, <1>2 DEF Detached, Inserting
<1>9. FramesSound' /\ ClearStackExact' /\ ParentsFirst' /\ ~At("kid")'
  BY <1>0, <1>1, <1>2, NoCall
<1>10. KidsOwned'
  BY <1>0, <1>1, <1>2, <1>7, <1>8, <1>9 DEF KidsOwned
<1>11. TargetsKept'
  <2>1. \A x \in Values : Tree(x)' = Tree(x)
    BY <1>0, <1>5, <1>7, SameTrees
  <2>. QED  BY <1>0, <1>1, <1>2, <1>3, <2>1 DEF TargetsKept
<1>12. JobSound'
  BY <1>1, <1>2 DEF JobSound, Inserting
<1>a. Acyclic'
  BY <1>0, <1>5, <1>7, AcyclicShrinks
<1>. QED  BY <1>4, <1>5, <1>6, <1>9, <1>10, <1>11, <1>12, <1>a DEF IInv

(* Versions that refer to what the client gives away are inside it.         *)
LEMMA Unreferred ==
  ASSUME DataByType, TargetsKept, NEW v \in roots, v \in Values, Unreferenced(v),
         UNCHANGED <<used, type, data>>, roots' = roots \ {v}
  PROVE  TargetsKept'
<1>1. ASSUME NEW w \in Values, NEW r \in Values, type[w] = "version", r \in data[w]
      PROVE  r \in used /\ (r \in roots' \/ w \in Tree(r))
  <2>1. r \in used /\ (r \in roots \/ w \in Tree(r))
    BY <1>1 DEF TargetsKept
  <2>2. CASE r = v
    <3>1. v \in Tree(v)
      BY TreeClosed
    <3>2. w \in used
      BY <1>1 DEF DataByType
    <3>. QED  BY <1>1, <2>1, <2>2, <3>1, <3>2 DEF Unreferenced, Versions
  <2>. QED  BY <2>1, <2>2
<1>2. \A r \in Values : Tree(r)' = Tree(r)
  BY DEF Tree
<1>. QED  BY <1>1, <1>2 DEF TargetsKept

(* A value that is to be freed is the client's no more.                     *)
LEMMA FreeKeeps ==
  ASSUME IInv, NEW v \in Values, Free(v)
  PROVE  IInv'
<1>0. /\ TypeOK /\ DataByType /\ BlocksOwned /\ KidsOwned /\ Acyclic /\ TargetsKept
      /\ stack = <<>> /\ job = NoJob /\ v \in roots /\ Unreferenced(v)
  BY DEF IInv, Free, Idle
<1>1. /\ roots' = roots \ {v} /\ stack' = <<Call(v, TRUE)>> /\ used' = used /\ type' = type
      /\ data' = data /\ shared' = shared /\ inner' = inner /\ clearing' = clearing /\ job' = job
  BY DEF Free
<1>2. /\ clearing = {} /\ job.op = "none" /\ ~Inserting /\ Detached = {} /\ v \in used
      /\ \A p, k \in Values : IsKid(p, k) => k \in used
  <2>1. job.op = "none" /\ ~Inserting
    BY <1>0 DEF NoJob, Inserting
  <2>. QED  BY <1>0, <2>1, QuietFacts DEF TypeOK
<1>3. /\ stack' \in Seq(Frame) /\ stack' # <<>> /\ stack'[1].value = v /\ stack'[1].free
      /\ FramesSound' /\ ClearStackExact' /\ ParentsFirst' /\ ~At("kid")'
  BY <1>1, <1>2, OneCall
<1>4. TypeOK'
  BY <1>0, <1>1, <1>3 DEF TypeOK
<1>5. DataByType' /\ BlocksOwned'
  BY <1>0, <1>1 DEF DataByType, BlocksOwned
<1>6. Detached' = {v}
  BY <1>1, <1>2, <1>3 DEF Detached, Inserting
<1>7. KidsOwned'
  BY <1>0, <1>1, <1>2, <1>3, <1>6 DEF KidsOwned, IsKid
<1>8. TargetsKept'
  BY <1>0, <1>1, Unreferred
<1>9. JobSound'
  BY <1>1, <1>2 DEF JobSound, Inserting
<1>a. Acyclic'
  BY <1>0, <1>1 DEF Acyclic, IsKid, Tree
<1>. QED  BY <1>3, <1>4, <1>5, <1>7, <1>8, <1>9, <1>a DEF IInv

(* A value that is to be initialised is cleared and stays the client's.     *)
LEMMA InitValueKeeps ==
  ASSUME IInv, NEW v \in Values, NEW t \in Type, InitValue(v, t)
  PROVE  IInv'
<1>0. /\ TypeOK /\ DataByType /\ BlocksOwned /\ KidsOwned /\ Acyclic /\ TargetsKept
      /\ stack = <<>> /\ job = NoJob /\ v \in roots
  BY DEF IInv, InitValue, Idle
<1>1. /\ stack' = <<Call(v, FALSE)>> /\ job' = [NoJob EXCEPT !.op = "init", !.value = v, !.type = t]
      /\ used' = used /\ type' = type /\ data' = data /\ shared' = shared
      /\ inner' = inner /\ clearing' = clearing
      /\ roots' = roots
  BY DEF InitValue
<1>2. /\ clearing = {} /\ job.op = "none" /\ Detached = {} /\ v \in used
      /\ \A p, k \in Values : IsKid(p, k) => k \in used
  <2>1. job.op = "none" /\ ~Inserting
    BY <1>0 DEF NoJob, Inserting
  <2>. QED  BY <1>0, <2>1, QuietFacts DEF TypeOK
<1>3. job' \in Job /\ job'.op = "init" /\ job'.value = v
  BY <1>1 DEF Job, NoJob, Type
<1>4. /\ stack' \in Seq(Frame) /\ stack' # <<>> /\ stack'[1].value = v /\ ~stack'[1].free
      /\ FramesSound' /\ ClearStackExact' /\ ParentsFirst' /\ ~At("kid")'
  BY <1>0, <1>1, <1>2, OneCall
<1>5. TypeOK'
  BY <1>0, <1>1, <1>3, <1>4 DEF TypeOK
<1>6. DataByType' /\ BlocksOwned' /\ TargetsKept'
  BY <1>0, <1>1 DEF DataByType, BlocksOwned, TargetsKept, Tree
<1>7. Detached' = {}
  BY <1>3, <1>4 DEF Detached, Inserting
<1>8. KidsOwned'
  BY <1>0, <1>1, <1>2, <1>4, <1>7 DEF KidsOwned, IsKid
<1>9. JobSound'
  <2>1. job'.op = "init" /\ job'.value \in roots' /\ stack' # <<>>
        /\ stack'[1].value = job'.value /\ ~stack'[1].free
    <3>1. v \in roots'
      BY <1>0, <1>1
    <3>. QED  BY <1>3, <1>4, <3>1
  <2>2. ~Inserting' /\ job'.op \notin {"none", "replace"}
    BY <2>1 DEF Inserting
  <2>. QED  BY <2>1, <2>2 DEF JobSound
<1>a. Acyclic'
  BY <1>0, <1>1 DEF Acyclic, IsKid, Tree
<1>. QED  BY <1>4, <1>5, <1>6, <1>8, <1>9, <1>a DEF IInv

(* A version's target stays the client's.                                   *)
LEMMA VersionSetKeeps ==
  ASSUME IInv, NEW v \in Values, NEW r \in Values, VersionSet(v, r)
  PROVE  IInv'
<1>0. /\ TypeOK /\ DataByType /\ BlocksOwned /\ KidsOwned /\ Acyclic /\ TargetsKept
      /\ stack = <<>> /\ job = NoJob /\ v \in roots /\ r \in roots /\ v \in used /\ r \in used
  BY DEF IInv, VersionSet, Idle, TypeOK
<1>1. /\ type[v] \in {"null", "int"}
      /\ type' = [type EXCEPT ![v] = "version"] /\ data' = [data EXCEPT ![v] = {r}]
      /\ used' = used /\ shared' = shared /\ inner' = inner /\ clearing' = clearing
      /\ roots' = roots /\ stack' = stack /\ job' = job
  BY DEF VersionSet
<1>2. /\ clearing = {} /\ job.op = "none" /\ ~Inserting /\ Detached = {} /\ data[v] = {}
      /\ \A p, k \in Values : IsKid(p, k) => k \in used
  <2>1. job.op = "none" /\ ~Inserting
    BY <1>0 DEF NoJob, Inserting
  <2>. QED  BY <1>0, <1>1, <2>1, QuietFacts DEF DataByType
<1>3. \A x \in Values : /\ data'[x] = (IF x = v THEN {r} ELSE data[x])
                        /\ type'[x] = (IF x = v THEN "version" ELSE type[x])
  BY <1>0, <1>1 DEF TypeOK
<1>4. TypeOK'
  <2>1. type' \in [Values -> Type] /\ data' \in [Values -> SUBSET (Values \cup Blocks)]
    BY <1>0, <1>1 DEF TypeOK, Type
  <2>. QED  BY <1>0, <1>1, <2>1 DEF TypeOK
<1>5. DataByType'
  BY <1>0, <1>1, <1>3 DEF DataByType
<1>6. BlocksOwned'
  <2>1. \A x \in Values : data'[x] \cap Blocks = data[x] \cap Blocks
    BY <1>2, <1>3, ValueTreeAssumption
  <2>. QED  BY <1>0, <1>1, <2>1 DEF BlocksOwned
<1>7. \A p, k \in Values : IsKid(p, k)' <=> IsKid(p, k)
  BY <1>1, <1>3 DEF IsKid
<1>8. Detached' = {}
  BY <1>0, <1>1, <1>2 DEF Detached, Inserting
<1>9. FramesSound' /\ ClearStackExact' /\ ParentsFirst' /\ ~At("kid")'
  BY <1>0, <1>1, <1>2, NoCall
<1>10. KidsOwned'
  BY <1>0, <1>1, <1>2, <1>7, <1>8, <1>9 DEF KidsOwned
<1>11. TargetsKept'
  <2>1. \A x \in Values : Tree(x)' = Tree(x)
    BY <1>0, <1>5, <1>7, SameTrees
  <2>. QED  BY <1>0, <1>1, <1>2, <1>3, <2>1 DEF TargetsKept
<1>12. JobSound'
  BY <1>1, <1>2 DEF JobSound, Inserting
<1>a. Acyclic'
  BY <1>0, <1>5, <1>7, AcyclicShrinks
<1>. QED  BY <1>4, <1>5, <1>6, <1>9, <1>10, <1>11, <1>12, <1>a DEF IInv

(* The type and the block that a value gets after it was cleared.           *)
LEMMA InitialiseKeeps ==
  ASSUME IInv, Initialise
  PROVE  IInv'
<1>v. PICK x : x = job.value
  OBVIOUS
<1>0. /\ TypeOK /\ DataByType /\ BlocksOwned /\ KidsOwned /\ Acyclic /\ TargetsKept
      /\ stack = <<>> /\ job.op = "init" /\ x \in roots /\ x \in used /\ x \in Values
      /\ job.type \in Type /\ data[x] = {}
  <2>1. TypeOK /\ JobSound /\ stack = <<>> /\ job.op = "init"
    BY DEF IInv, Initialise
  <2>2. job.type \in Type /\ x \in roots /\ data[x] = {}
    BY <1>v, <2>1 DEF TypeOK, Job, JobSound
  <2>. QED  BY <2>1, <2>2 DEF IInv, TypeOK
<1>1. /\ type' = [type EXCEPT ![x] = job.type] /\ job' = NoJob /\ shared' = shared
      /\ roots' = roots /\ clearing' = clearing /\ stack' = stack
  BY <1>v DEF Initialise
<1>2. /\ clearing = {} /\ Detached = {}
      /\ \A p, k \in Values : IsKid(p, k) => k \in used
  <2>1. ~Inserting
    BY <1>0 DEF Inserting
  <2>. QED  BY <1>0, <2>1, QuietFacts
<1>3. PICK B \in SUBSET (Blocks \ used) :
        /\ used' = used \cup B /\ data' = [data EXCEPT ![x] = B]
        /\ job.type \notin {"string", "tensor"} => B = {}
  <2>1. CASE job.type \in {"string", "tensor"}
    <3>1. PICK b \in FreeNames : used' = used \cup {b} /\ data' = [data EXCEPT ![x] = {b}]
      BY <1>v, <2>1 DEF Initialise
    <3>. QED  BY <2>1, <3>1 DEF FreeNames
  <2>2. CASE job.type \notin {"string", "tensor"}
    <3>1. used' = used /\ data' = data
      BY <2>2 DEF Initialise
    <3>2. data = [data EXCEPT ![x] = {}]
      BY <1>0 DEF TypeOK
    <3>. QED  BY <3>1, <3>2
  <2>. QED  BY <2>1, <2>2
<1>4. \A w \in Values : /\ data'[w] = (IF w = x THEN B ELSE data[w])
                        /\ type'[w] = (IF w = x THEN job.type ELSE type[w])
  BY <1>0, <1>1, <1>3 DEF TypeOK
<1>5. TypeOK'
  <2>1. NoJob \in Job /\ type' \in [Values -> Type]
    BY <1>0, <1>1 DEF TypeOK, Job, NoJob, Type
  <2>2. data' \in [Values -> SUBSET (Values \cup Blocks)]
    BY <1>0, <1>3 DEF TypeOK
  <2>3. inner' \subseteq Blocks
    BY <1>0 DEF TypeOK, Initialise, FreeNames
  <2>. QED  BY <1>0, <1>1, <1>3, <2>1, <2>2, <2>3 DEF TypeOK
<1>6. DataByType'
  BY <1>0, <1>3, <1>4 DEF DataByType
<1>7. BlocksOwned'
  <2>1. \A w \in Values : data'[w] \cap Blocks \subseteq used' \cup shared'
    BY <1>0, <1>1, <1>3, <1>4 DEF BlocksOwned
  <2>2. \A w \in Values : data[w] \cap B \subseteq shared
    BY <1>0, <1>3 DEF BlocksOwned
  <2>3. \A w, z \in Values : w # z => data'[w] \cap data'[z] \cap Blocks \subseteq shared'
    BY <1>0, <1>1, <1>4, <2>2 DEF BlocksOwned
  <2>4. ASSUME NEW b \in used' \cap Blocks
        PROVE  \E w \in Values : b \in data'[w]
    <3>1. CASE b \in B
      BY <1>0, <1>4, <3>1
    <3>2. CASE b \in used
      <4>1. PICK w \in Values : b \in data[w]
        BY <1>0, <2>4, <3>2 DEF BlocksOwned
      <4>. QED  BY <1>0, <1>4, <4>1
    <3>. QED  BY <1>3, <2>4, <3>1, <3>2
  <2>. QED  BY <2>1, <2>3, <2>4 DEF BlocksOwned
<1>8. \A p, k \in Values : IsKid(p, k)' <=> IsKid(p, k)
  BY <1>0, <1>3, <1>4, ValueTreeAssumption DEF IsKid
<1>9. Detached' = {} /\ job'.op = "none"
  BY <1>0, <1>1 DEF Detached, Inserting, NoJob
<1>10. FramesSound' /\ ClearStackExact' /\ ParentsFirst' /\ ~At("kid")'
  BY <1>0, <1>1, <1>2, NoCall
<1>11. KidsOwned'
  <2>1. \A k \in Values : k \in used' <=> k \in used
    BY <1>3, ValueTreeAssumption
  <2>. QED  BY <1>0, <1>1, <1>2, <1>8, <1>9, <1>10, <2>1 DEF KidsOwned
<1>12. TargetsKept'
  <2>1. \A w \in Values : Tree(w)' = Tree(w)
    BY <1>0, <1>6, <1>8, SameTrees
  <2>2. ASSUME NEW w \in Values, NEW r \in Values, type'[w] = "version", r \in data'[w]
        PROVE  type[w] = "version" /\ r \in data[w]
    BY <1>3, <1>4, <2>2, ValueTreeAssumption
  <2>. QED  BY <1>0, <1>1, <1>3, <2>1, <2>2 DEF TargetsKept
<1>13. JobSound'
  BY <1>9 DEF JobSound, Inserting
<1>a. Acyclic'
  BY <1>0, <1>6, <1>8, AcyclicShrinks
<1>. QED  BY <1>5, <1>6, <1>7, <1>10, <1>11, <1>12, <1>13, <1>a DEF IInv

(* A child that is to be inserted is the client's no more.                  *)
LEMMA InsertKeeps ==
  ASSUME IInv, NEW p \in Values, NEW c \in Values, Insert(p, c)
  PROVE  IInv'
<1>0. /\ TypeOK /\ DataByType /\ BlocksOwned /\ KidsOwned /\ Acyclic /\ TargetsKept
      /\ stack = <<>> /\ job = NoJob /\ p \in roots /\ c \in roots /\ p # c /\ Unreferenced(c)
  BY DEF IInv, Insert, Idle
<1>1. /\ roots' = roots \ {c} /\ job' = [NoJob EXCEPT !.op = "insert", !.value = p, !.child = c]
      /\ used' = used /\ type' = type /\ data' = data /\ shared' = shared
      /\ inner' = inner /\ clearing' = clearing
      /\ (type[p] = "map" /\ stack' = <<>>) \/ stack' = <<Call(p, FALSE)>>
  BY DEF Insert
<1>2. /\ clearing = {} /\ Detached = {} /\ p \in used /\ c \in used
      /\ \A x, k \in Values : IsKid(x, k) => k \in used
  <2>1. job.op = "none" /\ ~Inserting
    BY <1>0 DEF NoJob, Inserting
  <2>. QED  BY <1>0, <2>1, QuietFacts DEF TypeOK
<1>3. job' \in Job /\ job'.op = "insert" /\ job'.value = p /\ job'.child = c
  BY <1>1 DEF Job, NoJob, Type
<1>4. /\ stack' \in Seq(Frame) /\ FramesSound' /\ ClearStackExact' /\ ParentsFirst' /\ ~At("kid")'
      /\ IF stack' = <<>> THEN type[p] = "map" ELSE stack'[1].value = p /\ ~stack'[1].free
  <2>1. CASE type[p] = "map" /\ stack' = <<>>
    <3>1. FramesSound' /\ ClearStackExact' /\ ParentsFirst' /\ ~At("kid")'
      BY <1>1, <1>2, <2>1, NoCall
    <3>. QED  BY <1>0, <2>1, <3>1 DEF TypeOK
  <2>2. CASE stack' = <<Call(p, FALSE)>>
    <3>1. p \in roots' /\ p \in used' /\ clearing' = {}
      BY <1>0, <1>1, <1>2
    <3>. QED  BY <2>2, <3>1, OneCall
  <2>. QED  BY <1>1, <2>1, <2>2
<1>5. TypeOK'
  BY <1>0, <1>1, <1>3, <1>4 DEF TypeOK
<1>6. DataByType' /\ BlocksOwned'
  BY <1>0, <1>1 DEF DataByType, BlocksOwned
<1>7. Detached' = {c}
  BY <1>3, <1>4 DEF Detached, Inserting
<1>8. KidsOwned'
  BY <1>0, <1>1, <1>2, <1>4, <1>7 DEF KidsOwned, IsKid
<1>9. TargetsKept'
  BY <1>0, <1>1, Unreferred
<1>10. JobSound'
  BY <1>0, <1>1, <1>3, <1>4 DEF JobSound, Inserting
<1>a. Acyclic'
  BY <1>0, <1>1 DEF Acyclic, IsKid, Tree
<1>. QED  BY <1>4, <1>5, <1>6, <1>8, <1>9, <1>10, <1>a DEF IInv

(* The child becomes the map's.                                             *)
LEMMA AddKeeps ==
  ASSUME IInv, Add
  PROVE  IInv'
<1>n. PICK p, c : p = job.value /\ c = job.child
  OBVIOUS
<1>0. /\ TypeOK /\ DataByType /\ BlocksOwned /\ KidsOwned /\ Acyclic /\ TargetsKept /\ JobSound
      /\ stack = <<>> /\ job.op = "insert" /\ Inserting
  BY DEF IInv, Add, Inserting
<1>1. /\ type' = [type EXCEPT ![p] = "map"] /\ data' = [data EXCEPT ![p] = @ \cup {c}]
      /\ job' = NoJob /\ used' = used /\ shared' = shared /\ inner' = inner /\ roots' = roots
      /\ clearing' = clearing /\ stack' = stack
  BY <1>n DEF Add
<1>2. /\ p \in roots /\ p \in used /\ p \in Values /\ c \in Values
      /\ data[p] = {} \/ type[p] = "map"
  BY <1>0, <1>n DEF JobSound, TypeOK
<1>3. /\ clearing = {} /\ Detached = {c} /\ c \in used \ roots
      /\ \A x, k \in Values : IsKid(x, k) => k \in used
  <2>1. /\ clearing = {} /\ Detached = {c}
        /\ \A x, k \in Values : IsKid(x, k) => k \in used
    BY <1>0, <1>2, <1>n, QuietFacts
  <2>2. Detached \subseteq used \ roots
    BY <1>0 DEF KidsOwned
  <2>. QED  BY <2>1, <2>2
<1>4. \A x \in Values : /\ data'[x] = (IF x = p THEN data[p] \cup {c} ELSE data[x])
                        /\ type'[x] = (IF x = p THEN "map" ELSE type[x])
  BY <1>0, <1>1, <1>2 DEF TypeOK
<1>5. TypeOK'
  <2>1. NoJob \in Job /\ type' \in [Values -> Type]
    BY <1>0, <1>1 DEF TypeOK, Job, NoJob, Type
  <2>2. data' \in [Values -> SUBSET (Values \cup Blocks)]
    BY <1>0, <1>1, <1>2 DEF TypeOK
  <2>. QED  BY <1>0, <1>1, <2>1, <2>2 DEF TypeOK
<1>6. DataByType'
  <2>1. data[p] \subseteq Values
    BY <1>0, <1>2 DEF DataByType
  <2>. QED  BY <1>0, <1>1, <1>2, <1>4, <2>1 DEF DataByType
<1>7. BlocksOwned'
  <2>1. \A x \in Values : data'[x] \cap Blocks = data[x] \cap Blocks
    BY <1>2, <1>4, ValueTreeAssumption
  <2>. QED  BY <1>0, <1>1, <2>1 DEF BlocksOwned
<1>8. \A x, k \in Values : IsKid(x, k)' <=> IsKid(x, k) \/ (x = p /\ k = c)
  BY <1>2, <1>4 DEF IsKid
<1>9. Detached' = {} /\ job'.op = "none"
  BY <1>0, <1>1 DEF Detached, Inserting, NoJob
<1>10. FramesSound' /\ ClearStackExact' /\ ParentsFirst' /\ ~At("kid")'
  BY <1>0, <1>1, <1>3, NoCall
<1>11. KidsOwned'
  <2>1. \A x \in Values : ~IsKid(x, c)
    BY <1>0, <1>2, <1>3 DEF KidsOwned
  <2>2. \A x, y, k \in Values : IsKid(x, k)' /\ IsKid(y, k)' => x = y
    BY <1>0, <1>8, <2>1 DEF KidsOwned
  <2>3. \A x, k \in Values : IsKid(x, k)' => k \notin roots /\ k \in used
    BY <1>0, <1>3, <1>8 DEF KidsOwned
  <2>4. \A k \in used \cap Values : k \in roots \/ \E x \in Values : IsKid(x, k)'
    BY <1>0, <1>2, <1>3, <1>8 DEF KidsOwned
  <2>. QED  BY <1>1, <1>9, <1>10, <2>2, <2>3, <2>4 DEF KidsOwned
<1>12. TargetsKept'
  <2>1. \A x \in Values : Tree(x) \subseteq Tree(x)'
    BY <1>0, <1>8, TreeGrows
  <2>2. ASSUME NEW w \in Values, NEW r \in Values, type'[w] = "version", r \in data'[w]
        PROVE  type[w] = "version" /\ r \in data[w]
    BY <1>4, <2>2
  <2>. QED  BY <1>0, <1>1, <2>1, <2>2 DEF TargetsKept
<1>13. JobSound'
  BY <1>9 DEF JobSound, Inserting
<1>a. Acyclic'
  <2>1. p \notin Tree(c)
    BY <1>0, <1>2, <1>3, RootsOutside
  <2>. QED  BY <1>0, <1>2, <1>6, <1>8, <2>1, AcyclicAdds
<1>. QED  BY <1>5, <1>6, <1>7, <1>10, <1>11, <1>12, <1>13, <1>a DEF IInv

(* The value of an equal key is freed before the child comes in its place.  *)
LEMMA ReplaceKeeps ==
  ASSUME IInv, Replace
  PROVE  IInv'
<1>n. PICK p, c : p = job.value /\ c = job.child
  OBVIOUS
<1>k. PICK k \in data[p] :
        /\ \A w \in Versions(Tree(k)) : data[w] \subseteq Tree(k)
        /\ stack' = <<Call(k, TRUE)>> /\ job' = [job EXCEPT !.op = "replace", !.old = k]
  BY <1>n DEF Replace
<1>0. /\ TypeOK /\ DataByType /\ BlocksOwned /\ KidsOwned /\ Acyclic /\ TargetsKept /\ JobSound
      /\ stack = <<>> /\ job.op = "insert" /\ Inserting
  BY DEF IInv, Replace, Inserting
<1>1. /\ used' = used /\ type' = type /\ data' = data /\ shared' = shared /\ inner' = inner
      /\ roots' = roots /\ clearing' = clearing
  BY DEF Replace
<1>2. p \in roots /\ p \in used /\ p \in Values /\ c \in Values /\ k \in Values /\ IsKid(p, k)
  <2>1. p \in roots /\ p \in Values /\ type[p] = "map" /\ c \in Values
    BY <1>0, <1>n, <1>k DEF JobSound, TypeOK
  <2>. QED  BY <1>0, <1>k, <2>1 DEF TypeOK, DataByType, IsKid
<1>3. /\ clearing = {} /\ Detached = {c} /\ k \in used
      /\ \A x, y \in Values : IsKid(x, y) => y \in used
  BY <1>0, <1>2, <1>n, QuietFacts
<1>4. /\ job' \in Job /\ job'.op = "replace" /\ job'.value = p /\ job'.child = c /\ job'.old = k
  <2>1. job \in Job
    BY <1>0 DEF TypeOK
  <2>. QED  BY <1>k, <1>2, <1>n, <2>1 DEF Job
<1>5. /\ stack' \in Seq(Frame) /\ stack' # <<>> /\ stack'[1].value = k /\ stack'[1].free
      /\ DOMAIN stack' = {1}
      /\ FramesSound' /\ ClearStackExact' /\ ParentsFirst' /\ ~At("kid")'
  <2>1. k \in used' /\ clearing' = {}
    BY <1>1, <1>3
  <2>. QED  BY <1>k, <1>2, <1>4, <2>1, OneCall
<1>6. TypeOK'
  BY <1>0, <1>1, <1>4, <1>5 DEF TypeOK
<1>7. DataByType' /\ BlocksOwned' /\ TargetsKept'
  BY <1>0, <1>1 DEF DataByType, BlocksOwned, TargetsKept, Tree
<1>8. Detached' = {c}
  BY <1>2, <1>4, <1>5 DEF Detached, Inserting
<1>9. KidsOwned'
  BY <1>0, <1>1, <1>3, <1>5, <1>8 DEF KidsOwned, IsKid
<1>10. JobSound'
  <2>1. k \in Tree(k) /\ Tree(k) \subseteq Values
    BY <1>0, <1>2, TreeClosed
  <2>2. \A w \in Tree(k) : type[w] = "version" => data[w] \subseteq Tree(k)
    BY <1>k DEF Versions
  <2>3. Tree(k)' = Tree(k) /\ IsKid(p, k)'
    BY <1>1, <1>2 DEF Tree, IsKid
  <2>4. job'.op = "replace" =>
          /\ IsKid(job.value, job.old)'
          /\ \A i \in DOMAIN stack' : stack'[i].value \in Tree(job.old)'
          /\ \A w \in Tree(job.old)' : type'[w] = "version" => data'[w] \subseteq Tree(job.old)'
    <3>1. Tree(job.old)' = Tree(k) /\ IsKid(job.value, job.old)'
      BY <1>1, <1>4, <2>3 DEF Tree, IsKid
    <3>. QED  BY <1>1, <1>5, <2>1, <2>2, <3>1
  <2>. QED  BY <1>1, <1>2, <1>4, <1>5, <2>4 DEF JobSound, Inserting
<1>a. Acyclic'
  BY <1>0, <1>1 DEF Acyclic, IsKid, Tree
<1>. QED  BY <1>5, <1>6, <1>7, <1>9, <1>10, <1>a DEF IInv

(* The child comes in the place of the value that was freed.                *)
LEMMA ReplacedKeeps ==
  ASSUME IInv, Replaced
  PROVE  IInv'
<1>n. PICK p, c, o : p = job.value /\ c = job.child /\ o = job.old
  OBVIOUS
<1>0. /\ TypeOK /\ DataByType /\ BlocksOwned /\ KidsOwned /\ Acyclic /\ TargetsKept /\ JobSound
      /\ stack = <<>> /\ job.op = "replace" /\ Inserting
  BY DEF IInv, Replaced, Inserting
<1>1. /\ data' = [data EXCEPT ![p] = (@ \ {o}) \cup {c}] /\ job' = NoJob
      /\ used' = used /\ type' = type /\ shared' = shared /\ inner' = inner
      /\ roots' = roots /\ clearing' = clearing /\ stack' = stack
  BY <1>n DEF Replaced
<1>2. /\ p \in roots /\ p \in used /\ p \in Values /\ c \in Values /\ o \in Values
      /\ IsKid(p, o) /\ o \notin used
  <2>1. p \in roots /\ c \in Values /\ IsKid(p, o) /\ o \notin used
    BY <1>0, <1>n DEF JobSound
  <2>. QED  BY <1>0, <2>1 DEF TypeOK, DataByType, IsKid
<1>3. /\ clearing = {} /\ Detached = {c} /\ c \in used \ roots
  <2>1. /\ clearing = {} /\ Detached = {c}
    BY <1>0, <1>2, <1>n, QuietFacts
  <2>2. Detached \subseteq used \ roots
    BY <1>0 DEF KidsOwned
  <2>. QED  BY <2>1, <2>2
<1>4. \A x \in Values : data'[x] = (IF x = p THEN (data[p] \ {o}) \cup {c} ELSE data[x])
  BY <1>0, <1>1, <1>2 DEF TypeOK
<1>5. TypeOK'
  <2>1. NoJob \in Job
    BY DEF Job, NoJob, Type
  <2>2. data' \in [Values -> SUBSET (Values \cup Blocks)]
    BY <1>0, <1>1, <1>2 DEF TypeOK
  <2>. QED  BY <1>0, <1>1, <2>1, <2>2 DEF TypeOK
<1>6. DataByType'
  <2>1. type[p] = "map"
    BY <1>2 DEF IsKid
  <2>. QED  BY <1>0, <1>1, <1>2, <1>4, <2>1 DEF DataByType
<1>7. BlocksOwned'
  <2>1. \A x \in Values : data'[x] \cap Blocks = data[x] \cap Blocks
    BY <1>2, <1>4, ValueTreeAssumption
  <2>. QED  BY <1>0, <1>1, <2>1 DEF BlocksOwned
<1>8. /\ \A x, k \in Values : IsKid(x, k)' <=> (IsKid(x, k) /\ k # o) \/ (x = p /\ k = c)
      /\ \A x \in Values : ~IsKid(x, c)
  <2>1. \A x \in Values : ~IsKid(x, c)
    BY <1>0, <1>2, <1>3 DEF KidsOwned
  <2>2. \A x \in Values : IsKid(x, o) => x = p
    BY <1>0, <1>2 DEF KidsOwned
  <2>3. type[p] = "map"
    BY <1>2 DEF IsKid
  <2>4. \A x, k \in Values : IsKid(x, k)' <=> (IsKid(x, k) /\ k # o) \/ (x = p /\ k = c)
    BY <1>1, <1>2, <1>4, <2>1, <2>2, <2>3 DEF IsKid
  <2>. QED  BY <2>1, <2>4
<1>9. Detached' = {} /\ job'.op = "none"
  BY <1>0, <1>1 DEF Detached, Inserting, NoJob
<1>10. FramesSound' /\ ClearStackExact' /\ ParentsFirst' /\ ~At("kid")'
  BY <1>0, <1>1, <1>3, NoCall
<1>11. KidsOwned'
  <2>1. \A x, y, k \in Values : IsKid(x, k)' /\ IsKid(y, k)' => x = y
    BY <1>0, <1>8 DEF KidsOwned
  <2>2. \A x, k \in Values : IsKid(x, k) => k = o \/ k \in used
    BY <1>0, <1>n DEF KidsOwned, Dangles, At
  <2>3. \A x, k \in Values : IsKid(x, k)' => k \notin roots /\ k \in used
    BY <1>0, <1>3, <1>8, <2>2 DEF KidsOwned
  <2>4. \A k \in used \cap Values : k \in roots \/ \E x \in Values : IsKid(x, k)'
    BY <1>0, <1>2, <1>3, <1>8 DEF KidsOwned
  <2>. QED  BY <1>1, <1>9, <1>10, <2>1, <2>3, <2>4 DEF KidsOwned
<1>12. TargetsKept'
  <2>1. ASSUME NEW w \in Values, NEW r \in Values, type'[w] = "version", r \in data'[w]
        PROVE  r \in used' /\ (r \in roots' \/ w \in Tree(r)')
    <3>1. type[w] = "version" /\ r \in data[w] /\ w \in used
      BY <1>0, <1>1, <1>2, <1>4, <2>1 DEF DataByType, IsKid
    <3>2. r \in used /\ (r \in roots \/ w \in Tree(r))
      BY <1>0, <3>1 DEF TargetsKept
    <3>3. w # o /\ \A k \in Values : ~IsKid(o, k)
      BY <1>0, <1>2, <3>1 DEF DataByType, IsKid
    <3>4. \A x, k \in Values : IsKid(x, k) => IsKid(x, k)' \/ k = o
      BY <1>8
    <3>5. w \in Tree(r) => w \in Tree(r)'
      BY <1>0, <1>2, <1>6, <3>3, <3>4, TreeKept
    <3>. QED  BY <1>1, <3>2, <3>5
  <2>. QED  BY <2>1 DEF TargetsKept
<1>13. JobSound'
  BY <1>9 DEF JobSound, Inserting
<1>a. Acyclic'
  <2>1. p \notin Tree(c)
    BY <1>0, <1>2, <1>3, RootsOutside
  <2>. QED  BY <1>0, <1>2, <1>6, <1>8, <2>1, AcyclicAdds
<1>. QED  BY <1>5, <1>6, <1>7, <1>10, <1>11, <1>12, <1>13, <1>a DEF IInv

(* The copy of a tree is a tree.                                            *)
LEMMA CloneKeeps ==
  ASSUME IInv, NEW v \in Values, Clone(v)
  PROVE  IInv'
<1>T. PICK T : T = Tree(v)
  OBVIOUS
<1> DEFINE Copied(S, full, f, g) ==
        /\ \A x, y \in S : f[x] = f[y] => x = y
        /\ \A x, y \in full : g[x] = g[y] => x = y
        /\ LET copies == {f[x] : x \in S}
               original(w) == CHOOSE x \in S : f[x] = w
               copy(x) == CASE type[x] = "map" -> {f[y] : y \in data[x]}
                            [] type[x] = "string" -> {g[y] : y \in full \cap {x}}
                            [] OTHER -> data[x]
           IN /\ type' = [w \in Values |->
                   IF w \in copies THEN type[original(w)] ELSE type[w]]
              /\ data' = [w \in Values |->
                   IF w \in copies THEN copy(original(w)) ELSE data[w]]
        /\ used' = used \cup {f[x] : x \in S} \cup {g[x] : x \in full}
        /\ roots' = roots \cup {f[v]}
<1>b. PICK full \in SUBSET {w \in T : type[w] = "string" /\ data[w] # {}} :
        \E f \in [T -> Values \ used], g \in [full -> FreeNames] : Copied(T, full, f, g)
  <2>1. \E full \in SUBSET {w \in Tree(v) : type[w] = "string" /\ data[w] # {}} :
          \E f \in [Tree(v) -> Values \ used], g \in [full -> FreeNames] :
            Copied(Tree(v), full, f, g)
    BY Zenon DEF Clone
  <2> HIDE DEF Copied
  <2>. QED  BY <1>T, <2>1
<1>f. PICK f \in [T -> Values \ used], g \in [full -> FreeNames] : Copied(T, full, f, g)
  BY <1>b
<1>0. /\ TypeOK /\ DataByType /\ BlocksOwned /\ KidsOwned /\ Acyclic /\ TargetsKept
      /\ stack = <<>> /\ job = NoJob /\ v \in used \cap Values
      /\ \A w \in T : type[w] = "version" => data[w] \subseteq roots
  BY <1>T DEF IInv, Clone, Idle, Versions
<1>1. /\ shared' = shared \cup UNION {data[w] : w \in {x \in T : type[x] = "tensor"}}
      /\ inner' = inner /\ clearing' = clearing /\ stack' = stack /\ job' = job
  BY <1>T DEF Clone
<1>2. /\ clearing = {} /\ job.op = "none" /\ ~Inserting /\ Detached = {}
      /\ \A p, k \in Values : IsKid(p, k) => k \in used
  <2>1. job.op = "none" /\ ~Inserting
    BY <1>0 DEF NoJob, Inserting
  <2>. QED  BY <1>0, <2>1, QuietFacts
<1>3. /\ T \subseteq Values \cap used /\ v \in T
      /\ \A x \in T, k \in Values : IsKid(x, k) => k \in T
      /\ \A k \in T \ {v} : \E x \in T : IsKid(x, k)
  <2>1. T \subseteq Values /\ v \in T /\ \A x \in T : type[x] = "map" => data[x] \subseteq T
    BY <1>0, <1>T, TreeClosed
  <2>2. ASSUME NEW U \in SUBSET Values, U = Values \cap used
        PROVE  Tree(v) \subseteq U
    <3>1. v \in U /\ \A x \in U, k \in Values : IsKid(x, k) => k \in U
      BY <1>0, <1>2, <2>2
    <3>. QED  BY <1>0, <3>1, TreeLeast
  <2>3. T \subseteq Values \cap used
    BY <1>T, <2>2
  <2>4. ASSUME NEW k \in T \ {v}, \A x \in T : ~IsKid(x, k)
        PROVE  FALSE
    <3>1. T \ {k} \in SUBSET Values /\ v \in T \ {k}
          /\ \A x \in T \ {k}, y \in Values : IsKid(x, y) => y \in T \ {k}
      BY <2>1, <2>4 DEF IsKid
    <3>2. T \subseteq T \ {k}
      BY <1>0, <1>T, <3>1, TreeLeast
    <3>. QED  BY <2>4, <3>2
  <2>. QED  BY <2>1, <2>3, <2>4 DEF IsKid
<1>4. /\ \A x \in T : f[x] \in Values \ used
      /\ \A x \in full : g[x] \in Blocks \ used /\ x \in T /\ type[x] = "string"
  BY <1>f DEF FreeNames
<1>5. ASSUME NEW x \in T
      PROVE  /\ type'[f[x]] = type[x]
             /\ type[x] = "map" => data'[f[x]] = {f[y] : y \in data[x]}
             /\ type[x] = "string" => data'[f[x]] = {g[y] : y \in full \cap {x}}
             /\ type[x] \notin {"map", "string"} => data'[f[x]] = data[x]
  <2>1. (CHOOSE y \in T : f[y] = f[x]) = x
    BY <1>f
  <2>. QED  BY <1>f, <1>4, <2>1
<1>6. \A w \in Values : (\A x \in T : w # f[x]) => type'[w] = type[w] /\ data'[w] = data[w]
  BY <1>f
<1>g. \A x, y \in full : g[x] = g[y] => x = y
  BY <1>f
<1>7. \A x \in T : type[x] = "map" => data[x] \subseteq T
  BY <1>0, <1>3 DEF DataByType, IsKid
<1>8. ASSUME NEW p \in Values, NEW k \in Values
      PROVE  IsKid(p, k)' <=> IsKid(p, k) \/ \E x, y \in T : p = f[x] /\ k = f[y] /\ IsKid(x, y)
  <2>1. CASE \E x \in T : p = f[x]
    <3>1. PICK x \in T : p = f[x]
      BY <2>1
    <3>2. ~IsKid(p, k)
      BY <1>0, <1>4, <3>1 DEF DataByType, IsKid
    <3>3. IsKid(p, k)' => \E y \in T : k = f[y] /\ IsKid(x, y)
      BY <1>5, <1>7, <3>1 DEF IsKid
    <3>4. ASSUME NEW z \in T, NEW y \in T, p = f[z], k = f[y], IsKid(z, y)
          PROVE  IsKid(p, k)'
      BY <1>5, <3>4 DEF IsKid
    <3>. QED  BY <3>1, <3>2, <3>3, <3>4
  <2>2. CASE \A x \in T : p # f[x]
    BY <1>6, <2>2 DEF IsKid
  <2>. QED  BY <2>1, <2>2
<1>9. \A k \in Values : k \in used' <=> k \in used \/ \E x \in T : k = f[x]
  BY <1>4, <1>f, ValueTreeAssumption
<1>10. \A w \in Values :
         \/ \E x \in T : w = f[x]
         \/ type'[w] = type[w] /\ data'[w] = data[w] /\ \A x \in T : w # f[x]
  BY <1>6
<1>11. DataByType'
  <2>1. ASSUME NEW x \in T
        PROVE  /\ f[x] \in used'
               /\ type[x] \in {"null", "int"} => data'[f[x]] = {}
               /\ type[x] \in {"string", "tensor"} => data'[f[x]] \subseteq Blocks
               /\ type[x] \in {"map", "version"} => data'[f[x]] \subseteq Values
    <3>1. x \in Values /\ f[x] \in Values
      BY <1>3, <1>4
    <3>2. f[x] \in used'
      BY <1>9, <3>1
    <3>3. type[x] \in {"null", "int"} => data'[f[x]] = {}
      BY <1>0, <1>5, <3>1 DEF DataByType
    <3>4. type[x] \in {"string", "tensor"} => data'[f[x]] \subseteq Blocks
      BY <1>0, <1>4, <1>5, <3>1 DEF DataByType
    <3>5. type[x] = "map" => data'[f[x]] \subseteq Values
      BY <1>4, <1>5, <1>7
    <3>6. type[x] = "version" => data'[f[x]] \subseteq Values
      BY <1>0, <1>5, <3>1 DEF DataByType
    <3>. QED  BY <3>2, <3>3, <3>4, <3>5, <3>6
  <2>2. ASSUME NEW w \in Values
        PROVE  /\ w \notin used' => data'[w] = {}
               /\ type'[w] \in {"null", "int"} => data'[w] = {}
               /\ type'[w] \in {"string", "tensor"} => data'[w] \subseteq Blocks
               /\ type'[w] \in {"map", "version"} => data'[w] \subseteq Values
    <3>1. CASE \E x \in T : w = f[x]
      BY <1>5, <2>1, <3>1
    <3>2. CASE type'[w] = type[w] /\ data'[w] = data[w]
      BY <1>0, <1>9, <3>2 DEF DataByType
    <3>. QED  BY <1>10, <3>1, <3>2
  <2>. QED  BY <2>2 DEF DataByType
<1>12. TypeOK'
  <2>1. ASSUME NEW w \in Values
        PROVE  type'[w] \in Type /\ data'[w] \subseteq Values \cup Blocks
    <3>1. type'[w] \in Type
      BY <1>0, <1>3, <1>5, <1>10 DEF TypeOK
    <3>. QED  BY <1>11, <3>1 DEF DataByType, Type
  <2>2. type' \in [Values -> Type] /\ data' \in [Values -> SUBSET (Values \cup Blocks)]
    BY <1>f, <2>1
  <2>3. used' \subseteq Values \cup Blocks /\ roots' \subseteq used' \cap Values
    BY <1>0, <1>3, <1>4, <1>f DEF TypeOK
  <2>4. shared' \subseteq Blocks
    BY <1>0, <1>1, <1>3 DEF TypeOK, DataByType
  <2>. QED  BY <1>0, <1>1, <2>2, <2>3, <2>4 DEF TypeOK
<1>13. Detached' = {}
  BY <1>0, <1>1, <1>2 DEF Detached, Inserting
<1>14. FramesSound' /\ ClearStackExact' /\ ParentsFirst' /\ ~At("kid")'
  BY <1>0, <1>1, <1>2, NoCall
<1>15. BlocksOwned'
  <2>1. ASSUME NEW x \in T, NEW b \in data'[f[x]], b \in Blocks
        PROVE  \/ type[x] = "string" /\ x \in full /\ b = g[x] /\ b \in used' \ used
               \/ type[x] = "tensor" /\ b \in shared'
    <3>1. CASE type[x] = "string"
      BY <1>4, <1>5, <1>f, <2>1, <3>1
    <3>2. CASE type[x] = "tensor"
      BY <1>1, <1>5, <2>1, <3>2
    <3>3. CASE type[x] \notin {"string", "tensor"}
      <4>1. type[x] \in {"null", "int", "map", "version"} /\ f[x] \in Values
        BY <1>0, <1>3, <1>4, <3>3 DEF TypeOK, Type
      <4>2. data'[f[x]] \subseteq Values
        BY <1>5, <1>11, <4>1 DEF DataByType
      <4>. QED  BY <2>1, <4>2, ValueTreeAssumption
    <3>. QED  BY <3>1, <3>2, <3>3
  <2>2. ASSUME NEW w \in Values, NEW b \in data'[w], b \in Blocks
        PROVE  b \in used' \cup shared'
    <3>1. CASE \E x \in T : w = f[x]
      BY <2>1, <2>2, <3>1
    <3>2. CASE data'[w] = data[w]
      BY <1>0, <1>1, <1>f, <2>2, <3>2 DEF BlocksOwned
    <3>. QED  BY <1>10, <3>1, <3>2
  <2>3. ASSUME NEW w \in Values, NEW z \in Values, NEW b \in data'[w], b \in data'[z],
               b \in Blocks, w # z
        PROVE  b \in shared'
    <3>1. CASE data'[w] = data[w] /\ data'[z] = data[z]
      BY <1>0, <1>1, <2>3, <3>1 DEF BlocksOwned
    <3>2. ASSUME NEW x \in T, w = f[x], data'[z] = data[z]
          PROVE  b \in shared'
      BY <1>0, <1>1, <2>1, <2>3, <3>2 DEF BlocksOwned
    <3>3. ASSUME NEW x \in T, z = f[x], data'[w] = data[w]
          PROVE  b \in shared'
      BY <1>0, <1>1, <2>1, <2>3, <3>3 DEF BlocksOwned
    <3>4. ASSUME NEW x \in T, NEW y \in T, w = f[x], z = f[y]
          PROVE  b \in shared'
      BY <1>g, <2>1, <2>3, <3>4
    <3>. QED  BY <1>10, <3>1, <3>2, <3>3, <3>4
  <2>4. ASSUME NEW b \in used' \cap Blocks
        PROVE  \E w \in Values : b \in data'[w]
    <3>1. CASE b \in used
      <4>1. PICK w \in Values : b \in data[w]
        BY <1>0, <2>4, <3>1 DEF BlocksOwned
      <4>2. data'[w] = data[w]
        BY <1>0, <1>4, <1>10, <4>1 DEF DataByType
      <4>. QED  BY <4>1, <4>2
    <3>2. CASE b \notin used
      <4>1. PICK x \in full : b = g[x]
        BY <1>4, <1>f, <2>4, <3>2, ValueTreeAssumption
      <4>2. b \in data'[f[x]] /\ f[x] \in Values
        BY <1>4, <1>5, <4>1
      <4>. QED  BY <4>2
    <3>. QED  BY <3>1, <3>2
  <2>. QED  BY <2>2, <2>3, <2>4 DEF BlocksOwned
<1>16. Acyclic'
  <2>1. ASSUME NEW y \in T
        PROVE  Tree(f[y])' \subseteq {f[z] : z \in Tree(y)}
    <3>1. y \in Values /\ Tree(y) \subseteq T /\ y \in Tree(y)
          /\ \A z \in Tree(y), k \in Values : IsKid(z, k) => k \in Tree(y)
      BY <1>0, <1>3, TreeLeast, TreeClosed DEF IsKid
    <3>2. ASSUME NEW z \in Tree(y), NEW k \in Values, IsKid(f[z], k)'
          PROVE  k \in {f[u] : u \in Tree(y)}
      <4>1. z \in T /\ f[z] \in Values \ used
        BY <1>4, <3>1
      <4>2. ~IsKid(f[z], k)
        BY <1>0, <4>1 DEF DataByType, IsKid
      <4>3. PICK x \in T, u \in T : f[z] = f[x] /\ k = f[u] /\ IsKid(x, u)
        BY <1>8, <3>2, <4>1, <4>2
      <4>4. x = z /\ u \in Tree(y)
        BY <1>3, <1>f, <3>1, <4>1, <4>3
      <4>. QED  BY <4>3, <4>4
    <3>3. {f[z] : z \in Tree(y)} \in SUBSET Values /\ f[y] \in {f[z] : z \in Tree(y)}
      BY <1>4, <3>1
    <3>4. \A p \in {f[z] : z \in Tree(y)} :
            type'[p] = "map" => data'[p] \subseteq {f[z] : z \in Tree(y)}
      BY <1>11, <3>2, <3>3 DEF DataByType, IsKid
    <3>. QED  BY <3>3, <3>4 DEF Tree
  <2>2. ASSUME NEW y \in used \cap Values
        PROVE  Tree(y)' \subseteq Tree(y)
    <3>1. y \in Tree(y) /\ Tree(y) \subseteq used \cap Values
          /\ \A z \in Tree(y), k \in Values : IsKid(z, k) => k \in Tree(y)
      <4>1. y \in Tree(y) /\ \A z \in Tree(y), k \in Values : IsKid(z, k) => k \in Tree(y)
        BY <1>0, TreeClosed DEF IsKid
      <4>2. used \cap Values \in SUBSET Values /\ y \in used \cap Values
            /\ \A x \in used \cap Values, k \in Values : IsKid(x, k) => k \in used \cap Values
        BY <1>2
      <4>. QED  BY <1>0, <4>1, <4>2, TreeLeast
    <3>2. \A z \in Tree(y), k \in Values : IsKid(z, k)' => k \in Tree(y)
      BY <1>4, <1>8, <3>1
    <3>3. \A p \in Tree(y) : type'[p] = "map" => data'[p] \subseteq Tree(y)
      BY <1>11, <3>1, <3>2 DEF DataByType, IsKid
    <3>. QED  BY <3>1, <3>3 DEF Tree
  <2>3. ASSUME NEW p \in Values, NEW k \in Values, IsKid(p, k)'
        PROVE  p \notin Tree(k)'
    <3>1. CASE IsKid(p, k)
      <4>1. k \in used \cap Values /\ p \notin Tree(k)
        BY <1>0, <1>2, <3>1 DEF Acyclic
      <4>. QED  BY <2>2, <4>1
    <3>2. CASE ~IsKid(p, k)
      <4>1. PICK x \in T, y \in T : p = f[x] /\ k = f[y] /\ IsKid(x, y)
        BY <1>8, <2>3, <3>2
      <4>2. x \notin Tree(y) /\ Tree(y) \subseteq T
        BY <1>0, <1>3, <4>1, TreeLeast DEF Acyclic
      <4>. QED  BY <1>f, <2>1, <4>1, <4>2
    <3>. QED  BY <3>1, <3>2
  <2>. QED  BY <2>3 DEF Acyclic
<1>17. KidsOwned'
  <2>1. ASSUME NEW p \in Values, NEW q \in Values, NEW k \in Values, IsKid(p, k)', IsKid(q, k)'
        PROVE  p = q
    <3>1. CASE k \in used
      BY <1>0, <1>4, <1>8, <2>1, <3>1 DEF KidsOwned
    <3>2. CASE k \notin used
      <4>1. PICK x \in T, y \in T : p = f[x] /\ k = f[y] /\ IsKid(x, y)
        BY <1>2, <1>8, <2>1, <3>2
      <4>2. PICK u \in T, z \in T : q = f[u] /\ k = f[z] /\ IsKid(u, z)
        BY <1>2, <1>8, <2>1, <3>2
      <4>3. y = z /\ x \in Values /\ u \in Values /\ y \in Values
        BY <1>3, <1>f, <4>1, <4>2
      <4>. QED  BY <1>0, <4>1, <4>2, <4>3 DEF KidsOwned
    <3>. QED  BY <3>1, <3>2
  <2>2. ASSUME NEW p \in Values, NEW k \in Values, IsKid(p, k)'
        PROVE  k \notin roots' /\ k \in used'
    <3>1. CASE IsKid(p, k)
      <4>1. k \in used /\ k \notin roots
        BY <1>0, <1>2, <3>1 DEF KidsOwned
      <4>. QED  BY <1>3, <1>4, <1>f, <4>1
    <3>2. CASE ~IsKid(p, k)
      <4>1. PICK x \in T, y \in T : p = f[x] /\ k = f[y] /\ IsKid(x, y)
        BY <1>8, <2>2, <3>2
      <4>2. y # v
        BY <1>0, <1>3, <1>T, <4>1 DEF Acyclic
      <4>3. k \notin roots
        BY <1>0, <1>4, <4>1 DEF TypeOK
      <4>. QED  BY <1>3, <1>9, <1>f, <4>1, <4>2, <4>3
    <3>. QED  BY <3>1, <3>2
  <2>3. ASSUME NEW k \in used' \cap Values
        PROVE  k \in roots' \/ \E p \in Values : IsKid(p, k)'
    <3>1. CASE k \in used
      BY <1>0, <1>2, <1>8, <1>f, <3>1 DEF KidsOwned
    <3>2. CASE k \notin used
      <4>1. PICK y \in T : k = f[y]
        BY <1>9, <2>3, <3>2
      <4>2. CASE y = v
        BY <1>f, <4>1, <4>2
      <4>3. CASE y # v
        <5>1. PICK x \in T : IsKid(x, y)
          BY <1>3, <4>3
        <5>2. f[x] \in Values /\ IsKid(f[x], k)'
          BY <1>4, <1>8, <4>1, <5>1
        <5>. QED  BY <5>2
      <4>. QED  BY <4>2, <4>3
    <3>. QED  BY <3>1, <3>2
  <2>. QED  BY <1>13, <1>14, <2>1, <2>2, <2>3 DEF KidsOwned
<1>18. TargetsKept'
  <2>1. \A r \in Values : Tree(r) \subseteq Tree(r)'
    BY <1>0, <1>8, TreeGrows
  <2>2. ASSUME NEW w \in Values, NEW r \in Values, type'[w] = "version", r \in data'[w]
        PROVE  r \in used' /\ (r \in roots' \/ w \in Tree(r)')
    <3>1. CASE \E x \in T : w = f[x]
      <4>1. PICK x \in T : w = f[x]
        BY <3>1
      <4>2. type[x] = "version" /\ r \in data[x]
        BY <1>5, <2>2, <4>1
      <4>3. r \in roots
        BY <1>0, <4>2
      <4>. QED  BY <1>0, <1>f, <4>3 DEF TypeOK
    <3>2. CASE type'[w] = type[w] /\ data'[w] = data[w]
      <4>1. r \in used /\ (r \in roots \/ w \in Tree(r))
        BY <1>0, <2>2, <3>2 DEF TargetsKept
      <4>. QED  BY <1>f, <2>1, <4>1
    <3>. QED  BY <1>10, <3>1, <3>2
  <2>. QED  BY <2>2 DEF TargetsKept
<1>19. JobSound'
  BY <1>1, <1>2 DEF JobSound, Inserting
<1>. QED  BY <1>11, <1>12, <1>14, <1>15, <1>16, <1>17, <1>18, <1>19 DEF IInv

-----------------------------------------------------------------------------
(* The theorems.                                                            *)

(* The inductive invariant holds of the state without any value,            *)
LEMMA InitSound == Init => IInv
<1> SUFFICES ASSUME Init
             PROVE  IInv
  OBVIOUS
<1>1. /\ used = {} /\ shared = {} /\ inner = {} /\ roots = {} /\ clearing = {} /\ stack = <<>>
      /\ job = NoJob
      /\ \A v \in Values : type[v] = "null" /\ data[v] = {}
      /\ DOMAIN stack = {} /\ job.op = "none" /\ ~Inserting
  BY DEF Init, NoJob, Inserting
<1>2. TypeOK
  BY DEF Init, TypeOK, Type, Job, NoJob
<1>3. DataByType /\ BlocksOwned /\ Acyclic /\ TargetsKept /\ ParentsFirst
  BY <1>1 DEF DataByType, BlocksOwned, Acyclic, TargetsKept, ParentsFirst, IsKid
<1>4. KidsOwned
  BY <1>1 DEF KidsOwned, IsKid, Detached, At
<1>5. FramesSound /\ ClearStackExact /\ JobSound
  BY <1>1 DEF FramesSound, ClearStackExact, JobSound
<1>. QED  BY <1>2, <1>3, <1>4, <1>5 DEF IInv

(* ... and every step keeps it.                                             *)
LEMMA StepSound == IInv /\ [Next]_vars => IInv'
<1> SUFFICES ASSUME IInv, [Next]_vars
             PROVE  IInv'
  OBVIOUS
<1>1. CASE Clearing
  <2>1. CASE Enter
    BY <2>1, EnterKnown, EnterNew
  <2>. QED  BY <1>1, <2>1, FreeBlockKeeps, FreeKidKeeps, AfterKidKeeps, ClearTargetKeeps, WipeKeeps
            DEF Clearing
<1>2. CASE \E v \in Values : Alloc(v) \/ Free(v) \/ Clone(v)
  BY <1>2, AllocKeeps, FreeKeeps, CloneKeeps
<1>3. CASE \E v \in Values, t \in {"int", "string", "tensor"} : InitValue(v, t)
  <2>1. {"int", "string", "tensor"} \subseteq Type
    BY DEF Type
  <2>. QED  BY <1>3, <2>1, InitValueKeeps
<1>4. CASE \E v, w \in Values : Insert(v, w) \/ VersionSet(v, w)
  BY <1>4, InsertKeeps, VersionSetKeeps
<1>5. CASE Initialise \/ Add \/ Replace \/ Replaced
  BY <1>5, InitialiseKeeps, AddKeeps, ReplaceKeeps, ReplacedKeeps
<1>6. CASE UNCHANGED vars
  <2>1. /\ used' = used /\ type' = type /\ data' = data /\ shared' = shared
        /\ inner' = inner /\ roots' = roots
        /\ clearing' = clearing /\ stack' = stack /\ job' = job
    BY <1>6 DEF vars
  <2>2. TypeOK' /\ DataByType' /\ BlocksOwned' /\ Acyclic' /\ TargetsKept'
    BY <2>1 DEF IInv, TypeOK, DataByType, BlocksOwned, Acyclic, TargetsKept, IsKid, Tree
  <2>3. KidsOwned' /\ ParentsFirst'
    BY <2>1 DEF IInv, KidsOwned, ParentsFirst, IsKid, Detached, Inserting, Dangles, At, Top
  <2>4. FramesSound' /\ ClearStackExact'
    BY <2>1 DEF IInv, FramesSound, FrameSound, Reached, ClearStackExact, IsKid
  <2>5. JobSound'
    BY <2>1 DEF IInv, JobSound, Inserting, IsKid, Tree
  <2>. QED  BY <2>2, <2>3, <2>4, <2>5 DEF IInv
<1>. QED  BY <1>1, <1>2, <1>3, <1>4, <1>5, <1>6 DEF Next

(* The inner blocks of a tensor are there as long as it is, and of those whose
   struct is allocated a tensor has the struct.                             *)
InnerOwned ==
  /\ \A v \in Values : type[v] = "tensor" => data[v] \subseteq inner
  /\ \A b \in used \cap inner : \E v \in Values : type[v] = "tensor" /\ b \in data[v]

(* A step that changes nothing of a tensor with a struct, and allocates none, keeps
   this.                                                                    *)
LEMMA TensorsKept ==
  ASSUME InnerOwned, inner' = inner, used' \cap inner \subseteq used,
         \A v \in Values : type[v] = "tensor" /\ data[v] # {} =>
           type'[v] = "tensor" /\ data'[v] = data[v],
         \A v \in Values : type'[v] = "tensor" => data'[v] \subseteq inner
  PROVE  InnerOwned'
BY DEF InnerOwned

(* So does a step of a clearing, which frees the struct of a tensor before it leaves
   the tensor.                                                              *)
LEMMA InnerCleared ==
  ASSUME IInv, InnerOwned, Clearing
  PROVE  InnerOwned'
<1>v. PICK v : v = Top.value
  OBVIOUS
<1>0. /\ TypeOK /\ DataByType /\ FramesSound /\ stack # <<>> /\ v \in Values
      /\ inner' = inner /\ inner \cap Values = {}
  <2>1. TypeOK /\ DataByType /\ FramesSound /\ stack # <<>> /\ inner' = inner
    BY DEF IInv, Clearing, Enter, FreeBlock, FreeKid, AfterKid, ClearTarget, Wipe, At
  <2>2. v \in Values
    BY <1>v, <2>1, TopFacts DEF Frame
  <2>. QED  BY <2>1, <2>2, ValueTreeAssumption DEF TypeOK
<1>1. CASE Enter \/ FreeKid
  <2>1. type' = type /\ data' = data /\ used' \subseteq used
    BY <1>1 DEF Enter, FreeKid, Return
  <2>. QED  BY <1>0, <2>1 DEF InnerOwned
<1>2. CASE FreeBlock
  <2>1. /\ used' = used \ data[v] /\ data' = [data EXCEPT ![v] = {}]
        /\ type' = type \/ type' = [type EXCEPT ![v] = "null"]
    BY <1>2, <1>v DEF FreeBlock
  <2>2. \A w \in Values : /\ w # v => type'[w] = type[w] /\ data'[w] = data[w]
                          /\ data'[v] = {}
    BY <1>0, <2>1 DEF TypeOK
  <2>3. \A w \in Values : type'[w] = "tensor" => data'[w] \subseteq inner'
    BY <1>0, <2>2 DEF InnerOwned
  <2>4. \A b \in used' \cap inner' : \E w \in Values : type'[w] = "tensor" /\ b \in data'[w]
    BY <1>0, <2>1, <2>2 DEF InnerOwned
  <2>. QED  BY <2>3, <2>4 DEF InnerOwned
<1>3. CASE AfterKid \/ ClearTarget
  <2>1. /\ used' = used /\ type' = type /\ type[v] # "tensor"
        /\ \A w \in Values : w # v => data'[w] = data[w]
    <3>1. CASE AfterKid
      <4>1. IsKid(v, Top.kid)
        BY <1>0, <1>v, <3>1, TopFacts, FrameFacts DEF AfterKid, At
      <4>. QED  BY <1>0, <1>v, <3>1, <4>1 DEF AfterKid, IsKid, TypeOK
    <3>2. CASE ClearTarget
      BY <1>0, <1>v, <3>2 DEF ClearTarget, Of, TypeOK
    <3>. QED  BY <1>3, <3>1, <3>2
  <2>. QED  BY <1>0, <2>1, TensorsKept DEF InnerOwned
<1>4. CASE Wipe
  <2>1. /\ data[v] = {} /\ data' = data /\ used' \subseteq used
        /\ \A w \in Values : type'[w] = IF w = v THEN "null" ELSE type[w]
    BY <1>0, <1>v, <1>4 DEF Wipe, Return, TypeOK
  <2>. QED  BY <1>0, <2>1, TensorsKept DEF InnerOwned
<1>. QED  BY <1>1, <1>2, <1>3, <1>4 DEF Clearing

(* ... the initialisation of a value, for a new struct has a name that no inner blocks
   have,                                                                    *)
LEMMA InnerInitialised ==
  ASSUME IInv, InnerOwned, Initialise
  PROVE  InnerOwned'
<1>v. PICK x : x = job.value
  OBVIOUS
<1>0. /\ TypeOK /\ stack = <<>> /\ x \in Values /\ data[x] = {} /\ job.type \in Type
      /\ \A w \in Values : type'[w] = IF w = x THEN job.type ELSE type[w]
  <2>1. TypeOK /\ JobSound /\ stack = <<>> /\ job.op = "init"
        /\ type' = [type EXCEPT ![x] = job.type]
    BY <1>v DEF IInv, Initialise
  <2>2. job.type \in Type /\ x \in Values /\ data[x] = {}
    BY <1>v, <2>1 DEF TypeOK, Job, JobSound
  <2>. QED  BY <2>1, <2>2 DEF TypeOK
<1>1. CASE job.type \in {"string", "tensor"}
  <2>1. PICK b \in FreeNames :
          /\ used' = used \cup {b} /\ data' = [data EXCEPT ![x] = {b}]
          /\ inner' = IF job.type = "tensor" THEN inner \cup {b} ELSE inner
    BY <1>1, <1>v DEF Initialise
  <2>2. /\ b \notin used /\ b \notin inner
        /\ \A w \in Values : data'[w] = IF w = x THEN {b} ELSE data[w]
    BY <1>0, <2>1 DEF FreeNames, TypeOK
  <2>3. \A w \in Values : type'[w] = "tensor" => data'[w] \subseteq inner'
    BY <1>0, <2>1, <2>2 DEF InnerOwned
  <2>4. ASSUME NEW c \in used' \cap inner'
        PROVE  \E w \in Values : type'[w] = "tensor" /\ c \in data'[w]
    <3>1. CASE c = b
      BY <1>0, <2>1, <2>2, <2>4, <3>1
    <3>2. CASE c # b
      <4>1. PICK w \in Values : type[w] = "tensor" /\ c \in data[w]
        BY <2>1, <2>4, <3>2 DEF InnerOwned
      <4>. QED  BY <1>0, <2>2, <4>1
    <3>. QED  BY <3>1, <3>2
  <2>. QED  BY <2>3, <2>4 DEF InnerOwned
<1>2. CASE job.type \notin {"string", "tensor"}
  <2>1. used' = used /\ data' = data /\ inner' = inner
    BY <1>2 DEF Initialise
  <2>. QED  BY <1>0, <1>2, <2>1, TensorsKept DEF InnerOwned
<1>. QED  BY <1>1, <1>2

(* ... and a clone: the copy of a tensor has the struct of the original.    *)
LEMMA InnerCloned ==
  ASSUME IInv, InnerOwned, NEW v \in Values, Clone(v)
  PROVE  InnerOwned'
<1>T. PICK T : T = Tree(v)
  OBVIOUS
<1>0. TypeOK /\ DataByType /\ T \subseteq Values /\ inner' = inner
  BY <1>T, TreeClosed DEF IInv, Clone
<1> DEFINE Copied(S, full, f, g) ==
        /\ \A x, y \in S : f[x] = f[y] => x = y
        /\ \A x, y \in full : g[x] = g[y] => x = y
        /\ LET copies == {f[x] : x \in S}
               original(w) == CHOOSE x \in S : f[x] = w
               copy(x) == CASE type[x] = "map" -> {f[y] : y \in data[x]}
                            [] type[x] = "string" -> {g[y] : y \in full \cap {x}}
                            [] OTHER -> data[x]
           IN /\ type' = [w \in Values |->
                   IF w \in copies THEN type[original(w)] ELSE type[w]]
              /\ data' = [w \in Values |->
                   IF w \in copies THEN copy(original(w)) ELSE data[w]]
        /\ used' = used \cup {f[x] : x \in S} \cup {g[x] : x \in full}
        /\ roots' = roots \cup {f[v]}
<1>1. PICK full \in SUBSET {w \in T : type[w] = "string" /\ data[w] # {}} :
        \E f \in [T -> Values \ used], g \in [full -> FreeNames] : Copied(T, full, f, g)
  <2>1. \E full \in SUBSET {w \in Tree(v) : type[w] = "string" /\ data[w] # {}} :
          \E f \in [Tree(v) -> Values \ used], g \in [full -> FreeNames] :
            Copied(Tree(v), full, f, g)
    BY Zenon DEF Clone
  <2> HIDE DEF Copied
  <2>. QED  BY <1>T, <2>1
<1>2. PICK f \in [T -> Values \ used], g \in [full -> FreeNames] : Copied(T, full, f, g)
  BY <1>1
<1>3. ASSUME NEW x \in T
      PROVE  type'[f[x]] = type[x] /\ (type[x] = "tensor" => data'[f[x]] = data[x])
  <2>1. (CHOOSE y \in T : f[y] = f[x]) = x /\ f[x] \in Values
    BY <1>2
  <2>. QED  BY <1>2, <2>1
<1>4. \A w \in Values : (\A x \in T : w # f[x]) => type'[w] = type[w] /\ data'[w] = data[w]
  BY <1>2
<1>5. \A w \in Values : data[w] # {} => \A x \in T : w # f[x]
  BY <1>0, <1>2 DEF DataByType
<1>6. used' \cap inner \subseteq used
  <2>1. inner \cap Values = {} /\ inner \cap FreeNames = {}
    BY <1>0, ValueTreeAssumption DEF TypeOK, FreeNames
  <2>3. \A x \in T : f[x] \in Values
    BY <1>2
  <2>4. \A x \in full : g[x] \in FreeNames
    BY <1>2
  <2>2. used' = used \cup {f[x] : x \in T} \cup {g[x] : x \in full}
    BY <1>2
  <2>. QED  BY <2>1, <2>2, <2>3, <2>4
<1>7. ASSUME NEW w \in Values, type'[w] = "tensor"
      PROVE  data'[w] \subseteq inner
  <2>1. CASE \E x \in T : w = f[x]
    BY <1>0, <1>3, <1>7, <2>1 DEF InnerOwned
  <2>2. CASE \A x \in T : w # f[x]
    BY <1>4, <1>7, <2>2 DEF InnerOwned
  <2>. QED  BY <2>1, <2>2
<1>. QED  BY <1>0, <1>4, <1>5, <1>6, <1>7, TensorsKept

(* Every step keeps it.                                                     *)
LEMMA InnerStep ==
  ASSUME IInv, InnerOwned, [Next]_vars
  PROVE  InnerOwned'
<1>0. /\ TypeOK /\ DataByType /\ JobSound /\ inner \cap Values = {}
  BY ValueTreeAssumption DEF IInv, TypeOK
<1>1. CASE \/ UNCHANGED vars \/ Replace
           \/ \E v \in Values : \/ Free(v) \/ \E w \in Values : Insert(v, w)
                                \/ \E t \in {"int", "string", "tensor"} : InitValue(v, t)
  <2>1. UNCHANGED <<used, type, data, inner>>
    BY <1>1 DEF vars, Replace, Free, Insert, InitValue
  <2>. QED  BY <2>1 DEF InnerOwned
<1>2. CASE \E v \in Values : Alloc(v)
  <2>1. PICK v \in Values : Alloc(v)
    BY <1>2
  <2>2. /\ v \notin used /\ used' = used \cup {v} /\ inner' = inner /\ data[v] = {}
        /\ \A w \in Values : /\ type'[w] = IF w = v THEN "null" ELSE type[w]
                             /\ data'[w] = IF w = v THEN {} ELSE data[w]
    BY <1>0, <2>1 DEF Alloc, TypeOK, DataByType
  <2>. QED  BY <1>0, <2>2, TensorsKept DEF InnerOwned
<1>3. CASE Add
  <2>1. PICK p : p = job.value
    OBVIOUS
  <2>2. p \in Values /\ (data[p] = {} \/ type[p] = "map")
    BY <1>0, <1>3, <2>1 DEF Add, JobSound, TypeOK, Job
  <2>3. /\ used' = used /\ inner' = inner /\ type'[p] = "map"
        /\ \A w \in Values : w # p => type'[w] = type[w] /\ data'[w] = data[w]
    BY <1>0, <1>3, <2>1, <2>2 DEF Add, TypeOK
  <2>. QED  BY <2>2, <2>3, TensorsKept DEF InnerOwned
<1>4. CASE Replaced
  <2>1. PICK p : p = job.value
    OBVIOUS
  <2>2. p \in Values /\ type[p] = "map"
    BY <1>0, <1>4, <2>1 DEF Replaced, JobSound, TypeOK, Job, IsKid
  <2>3. /\ used' = used /\ inner' = inner /\ type' = type
        /\ \A w \in Values : w # p => data'[w] = data[w]
    BY <1>0, <1>4, <2>1 DEF Replaced, TypeOK
  <2>. QED  BY <2>2, <2>3, TensorsKept DEF InnerOwned
<1>5. CASE \E v, r \in Values : VersionSet(v, r)
  <2>1. PICK v \in Values, r \in Values : VersionSet(v, r)
    BY <1>5
  <2>2. /\ used' = used /\ inner' = inner /\ type[v] # "tensor" /\ type'[v] = "version"
        /\ \A w \in Values : w # v => type'[w] = type[w] /\ data'[w] = data[w]
    BY <1>0, <2>1 DEF VersionSet, TypeOK
  <2>. QED  BY <2>2, TensorsKept DEF InnerOwned
<1>. QED  BY <1>1, <1>2, <1>3, <1>4, <1>5, InnerCleared, InnerInitialised, InnerCloned DEF Next

(* The inductive invariant holds.                                           *)
THEOREM Sound == Spec => []IInv
BY InitSound, StepSound, PTL DEF Spec

(* The inner blocks of tensors have their structs.                          *)
LEMMA InnerSound == Spec => []InnerOwned
<1>1. Init => InnerOwned
  BY DEF Init, InnerOwned
<1>2. IInv /\ InnerOwned /\ [Next]_vars => InnerOwned'
  BY InnerStep
<1>. QED  BY <1>1, <1>2, Sound, PTL DEF Spec

(* Every variable of the value objects stays in its type.                   *)
THEOREM ValuesTyped == Spec => []TypeOK
<1>1. IInv => TypeOK
  BY DEF IInv
<1>. QED  BY <1>1, Sound, PTL

(* Clearing never works on a value that was freed, and frees no block twice but
   one that a clone shares, however versions and maps refer to each other.  *)
THEOREM NothingUsedAfterFree == Spec => []NoUseAfterFree
<1>1. ASSUME IInv
      PROVE  NoUseAfterFree
  <2>0. TypeOK /\ DataByType /\ BlocksOwned /\ FramesSound
    BY <1>1 DEF IInv
  <2>1. \A i \in DOMAIN stack : stack[i].value \in used
    BY <2>0 DEF FramesSound, FrameSound
  <2>2. ASSUME At("data"), Of({"string", "tensor"})
        PROVE  data[Top.value] \subseteq used \cup shared
    <3>1. Top.value \in Values
      BY <2>0, <2>2, TopFacts DEF At, Frame
    <3>. QED  BY <2>0, <2>2, <3>1 DEF Of, DataByType, BlocksOwned
  <2>. QED  BY <2>1, <2>2 DEF NoUseAfterFree
<1>. QED  BY <1>1, Sound, PTL

(* Between calls what is allocated has one owner, no buffer or struct leaked, and what
   leaked are the inner blocks of structs that were freed.                  *)
THEOREM EverythingOwnedOnce == Spec => []OwnedOnce
<1>1. ASSUME IInv, InnerOwned, Idle
      PROVE  /\ \A v \in used \cap Values :
                  LET parents == {p \in used \cap Values : type[p] = "map" /\ v \in data[p]}
                  IN  IF v \in roots THEN parents = {} ELSE Cardinality(parents) = 1
             /\ \A b \in used \cap Blocks : \E v \in used \cap Values : b \in data[v]
             /\ \A v \in used \cap Values : data[v] \subseteq used \cup shared
             /\ \A v \in used \cap Values : type[v] = "tensor" => data[v] \subseteq inner
             /\ \A b \in used \cap inner :
                  \E v \in used \cap Values : type[v] = "tensor" /\ b \in data[v]
  <2>0. TypeOK /\ DataByType /\ BlocksOwned /\ KidsOwned /\ TargetsKept
    BY <1>1 DEF IInv
  <2>1. /\ Detached = {} /\ \A p, k \in Values : IsKid(p, k) => k \in used
        /\ \A w \in Values : data[w] # {} => w \in used
    <3>1. stack = <<>> /\ job.op = "none" /\ ~Inserting
      BY <1>1 DEF Idle, NoJob, Inserting
    <3>. QED  BY <1>1, <2>0, <3>1, QuietFacts DEF DataByType
  <2>2. ASSUME NEW v \in used \cap Values, v \in roots
        PROVE  {p \in used \cap Values : type[p] = "map" /\ v \in data[p]} = {}
    BY <2>0, <2>2 DEF KidsOwned, IsKid
  <2>3. ASSUME NEW v \in used \cap Values, v \notin roots
        PROVE  Cardinality({p \in used \cap Values : type[p] = "map" /\ v \in data[p]}) = 1
    <3>1. PICK p \in Values : IsKid(p, v)
      BY <2>0, <2>1, <2>3 DEF KidsOwned
    <3>2. p \in used /\ \A q \in Values : IsKid(q, v) => q = p
      BY <2>0, <2>1, <3>1 DEF KidsOwned, IsKid
    <3>3. {q \in used \cap Values : type[q] = "map" /\ v \in data[q]} = {p}
      BY <3>1, <3>2 DEF IsKid
    <3>. QED  BY <3>3, FS_Singleton
  <2>4. ASSUME NEW b \in used \cap Blocks
        PROVE  \E v \in used \cap Values : b \in data[v]
    BY <2>0, <2>1 DEF BlocksOwned
  <2>5. ASSUME NEW v \in used \cap Values, NEW x \in data[v]
        PROVE  x \in used \cup shared
    <3>1. CASE x \in Blocks
      BY <2>0, <2>5, <3>1 DEF BlocksOwned
    <3>2. CASE x \in Values
      <4>1. type[v] \in {"map", "version"}
        BY <2>0, <2>5, <3>2, ValueTreeAssumption DEF DataByType, TypeOK, Type
      <4>. QED  BY <2>0, <2>1, <2>5, <3>2, <4>1 DEF TargetsKept, IsKid
    <3>. QED  BY <2>0, <2>5, <3>1, <3>2 DEF TypeOK
  <2>6. \A v \in used \cap Values : type[v] = "tensor" => data[v] \subseteq inner
    BY <1>1 DEF InnerOwned
  <2>7. ASSUME NEW b \in used \cap inner
        PROVE  \E v \in used \cap Values : type[v] = "tensor" /\ b \in data[v]
    <3>1. PICK v \in Values : type[v] = "tensor" /\ b \in data[v]
      BY <1>1 DEF InnerOwned
    <3>. QED  BY <2>1, <3>1
  <2>. QED  BY <2>2, <2>3, <2>4, <2>5, <2>6, <2>7
<1>2. IInv /\ InnerOwned => OwnedOnce
  BY <1>1 DEF OwnedOnce
<1>. QED  BY <1>2, Sound, InnerSound, PTL

(* Nothing stays on the clear stack after its clearing, and nothing that is being
   cleared is missing from it.                                              *)
THEOREM ClearStackIsExact == Spec => []ClearStackExact
<1>1. IInv => ClearStackExact
  BY DEF IInv
<1>. QED  BY <1>1, Sound, PTL
=============================================================================
