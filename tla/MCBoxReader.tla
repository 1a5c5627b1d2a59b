---------------------------- MODULE MCBoxReader -----------------------------
(* BoxReader with two plain integers, one of them two digits long, and a
   custom type; digits have two bits, so that offsets of parts take one to
   three digits.  Entries of lists are plain: behind an id box the reader finds
   its table, whose tags are wider than these digits.                       *)
EXTENDS BoxReader

MCValues == {[name |-> 0, n |-> 1], [name |-> 0, n |-> 5], [name |-> 100, n |-> 5]}

Box(kind, vers, items) == [kind |-> kind, vers |-> vers, items |-> items]
MCBoxes ==
  {Box("plain", <<>>, <<v>>) : v \in MCValues}
    \cup {Box("version", <<1>>, <<v>>) : v \in MCValues}
    \cup {Box("list", <<2, 1>>, <<v, w>>) : v, w \in {x \in MCValues : x.name = 0}}
    \cup {Box("part", <<>>, <<v>>) : v \in MCValues}
    \cup {Box("partitions", <<>>, <<v, w>>) : v, w \in MCValues}
    \cup {Box("partitions", <<>>, <<v, v, v>>) : v \in MCValues}
=============================================================================
