------------------------------ MODULE LIPPLookup ------------------------------
(***************************************************************************)
(* What the LIPP lookup strategies share: the tree, and one step of a      *)
(* search in it.  LIPPIndex shows that the trees it builds are sound.      *)
(***************************************************************************)
EXTENDS LIPPTree, IndexLookup

CONSTANT Trees
ASSUME TreesAssumption == \A t \in Trees : SoundTree(t)
ASSUME BatchesAssumption == \A batch \in Batches : batch \in Seq(Key)

VARIABLE tree

args == <<tree, queries>>

ArgsAndOutsInit == tree \in Trees /\ LookupInit

(* The step of query q that stands at the node r: the item its key is       *)
(* predicted at is empty, a child, or the data of this or another key.      *)
ItemOf(q, r)  == PREDICT_POS(tree[r], KeyAt(q))
IsNone(q, r)  == ItemOf(q, r) \in tree[r].none_bitmap
IsChild(q, r) == ItemOf(q, r) \in tree[r].child_bitmap
Child(q, r)   == Append(r, ItemOf(q, r))
Data(q, r)    == tree[r].data[ItemOf(q, r)]
IsHit(q, r)   == ~IsNone(q, r) /\ ~IsChild(q, r) /\ Data(q, r)[1] = KeyAt(q)

(* The queries in the domain of reached end at the nodes given there. *)
Collect(reached) ==
  Settle([q \in {x \in DOMAIN reached : IsHit(x, reached[x])} |-> Data(q, reached[q])[2]])

(* Query q has come along the way its key leads. *)
OnWay(q, r) == r \in DOMAIN tree /\ Follows(tree, r, KeyAt(q))
=============================================================================
