----------------------------- MODULE SampleTrees -----------------------------
(***************************************************************************)
(* Small trees for model checking, written as the keys of their leaves and *)
(* the grouping of their nodes.  starts[l] lists, for the nodes of level   *)
(* l, the first leaf under each, so                                        *)
(*   MakeTree(<< <<1>>, <<3, 5>>, <<7>> >>, << <<1, 3>>, <<1>> >>)         *)
(* has three leaves, two nodes at level 1 and the root at level 2.  Nodes  *)
(* are named <<level, index>>; every datum differs from every key and from *)
(* every other datum of the tree.                                          *)
(***************************************************************************)
EXTENDS Integers, Sequences, FiniteSets

MakeTree(leaves, starts) ==
  LET Top        == Len(starts)
      Width(l)   == IF l = 0 THEN Len(leaves) ELSE Len(starts[l])
      First(l,j) == IF l = 0 THEN j ELSE starts[l][j]
      Final(l,j) == IF j = Width(l) THEN Len(leaves) ELSE First(l, j + 1) - 1
      MaxKey(j)  == leaves[j][Len(leaves[j])]
      Kids(l,j)  == {c \in 1 .. Width(l - 1) : First(l - 1, c) \in First(l, j) .. Final(l, j)}
      Kid(l,j,s) == CHOOSE c \in Kids(l, j) : Cardinality({d \in Kids(l, j) : d < c}) = s
      Ids        == UNION {{<<l, j>> : j \in 1 .. Width(l)} : l \in 0 .. Top}
      Uses(l,j)  == IF l = 0 THEN Len(leaves[j]) ELSE Cardinality(Kids(l, j)) - 1
      NodeAt(l,j) ==
        [level    |-> l,
         slotuse  |-> Uses(l, j),
         slotkey  |-> [s \in 0 .. Uses(l, j) - 1 |->
                         IF l = 0 THEN leaves[j][s + 1] ELSE MaxKey(Final(l - 1, Kid(l, j, s)))],
         childid  |-> IF l = 0 THEN <<>> ELSE [s \in 0 .. Uses(l, j) |-> <<l - 1, Kid(l, j, s)>>],
         slotdata |-> IF l = 0 THEN [s \in 0 .. Uses(l, j) - 1 |-> 100 * j + s] ELSE <<>>]
  IN  [root |-> <<Top, 1>>,
       node |-> [v \in Ids |-> NodeAt(v[1], v[2])],
       lo   |-> [v \in Ids |-> IF First(v[1], v[2]) = 1 THEN -1 ELSE MaxKey(First(v[1], v[2]) - 1)],
       hi   |-> [v \in Ids |-> IF Final(v[1], v[2]) = Len(leaves) THEN 99
                               ELSE MaxKey(Final(v[1], v[2]))]]

(* A tree nothing was loaded into. *)
EmptyTree(null) == [root |-> null, node |-> <<>>, lo |-> <<>>, hi |-> <<>>]

(* Heights one to four, full and half-full nodes, an uneven split. *)
OneLeaf    == MakeTree(<< <<2, 5>> >>, <<>>)
TwoLevels  == MakeTree(<< <<1>>, <<3, 5>>, <<6>> >>, << <<1>> >>)
ThreeLevels == MakeTree(<< <<0, 2>>, <<3>>, <<5>>, <<6, 7>> >>, << <<1, 3>>, <<1>> >>)
FourLevels == MakeTree(<< <<1>>, <<2>>, <<3>>, <<4>>, <<5>>, <<6>>, <<7>>, <<8>> >>,
                       << <<1, 3, 5, 7>>, <<1, 5>>, <<1>> >>)
(* Loaded from a range with a repeated key, which bulk_load does not refuse. *)
Repeated   == MakeTree(<< <<2, 4>>, <<4, 4>>, <<5>> >>, << <<1>> >>)

(* Nodes of up to four keys, so that a search takes several halvings. *)
Wide       == MakeTree(<< <<1, 2, 3, 4>>, <<5, 6, 7>>, <<8>>, <<9>> >>, << <<1>> >>)
WideTall   == MakeTree(<< <<0>>, <<1>>, <<2, 3>>, <<4, 5>>, <<6>>, <<7, 8, 9>> >>,
                       << <<1, 4>>, <<1>> >>)

(* The same tree with every key stored as its own value, as main.cpp loads it. *)
KeysAsData(t) ==
  [t EXCEPT !.node = [v \in DOMAIN t.node |->
     [t.node[v] EXCEPT !.slotdata = IF t.node[v].level = 0 THEN t.node[v].slotkey ELSE <<>>]]]

SampleData == 0 .. 999
=============================================================================
