------------------------------ MODULE BTreeStore ------------------------------
(***************************************************************************)
(* The stx::btree object as bulk_load and the updates change it: nodes in  *)
(* memory, the doubly linked list of leaves, the root and the statistics;  *)
(* and its queries and iterators.                                          *)
(*                                                                         *)
(* A btree is a record                                                     *)
(*   [node, nextleaf, prevleaf, headleaf, tailleaf, root, stats]           *)
(* where node maps the addresses in use to nodes (see BPlusTree), and      *)
(* stats is [itemcount, leaves, innernodes].  Only the slots in use of a   *)
(* node are kept.                                                          *)
(***************************************************************************)
EXTENDS BPlusTree, Sequences

CONSTANTS leafslotmax, innerslotmax,  (* capacities, in keys                *)
          BELOW, ABOVE                (* integers on either side of the keys *)

ASSUME CapacityAssumption == leafslotmax \in Nat \ {0} /\ innerslotmax \in Nat \ {0}
ASSUME NullAssumption == NULL \notin Nat   (* addresses are numbers *)
ASSUME BoundsAssumption ==
  BELOW \in Int /\ ABOVE \in Int /\ \A key \in Key : BELOW < key /\ key <= ABOVE

EmptyTree == [node |-> <<>>, nextleaf |-> <<>>, prevleaf |-> <<>>,
              headleaf |-> NULL, tailleaf |-> NULL, root |-> NULL,
              stats |-> [itemcount |-> 0, leaves |-> 0, innernodes |-> 0]]

-----------------------------------------------------------------------------
(* Slot arrays: functions on 0 .. n-1.                                     *)

Size(a)           == Cardinality(DOMAIN a)
Slice(a, from, n) == [s \in 0 .. n - 1 |-> a[from + s]]
Join(a, b)        == [s \in 0 .. Size(a) + Size(b) - 1 |->
                        IF s < Size(a) THEN a[s] ELSE b[s - Size(a)]]
One(x)            == [s \in {0} |-> x]
InsertAt(a, at, x) == Join(Join(Slice(a, 0, at), One(x)), Slice(a, at, Size(a) - at))
RemoveAt(a, at)    == Join(Slice(a, 0, at), Slice(a, at + 1, Size(a) - at - 1))

LeafNode(keys, data) ==
  [level |-> 0, slotuse |-> Size(keys), slotkey |-> keys, childid |-> <<>>, slotdata |-> data]
InnerNode(level, keys, children) ==
  [level |-> level, slotuse |-> Size(keys), slotkey |-> keys, childid |-> children,
   slotdata |-> <<>>]

isfull(nd)      == nd.slotuse = IF isleafnode(nd) THEN leafslotmax ELSE innerslotmax
isfew(nd)       == nd.slotuse <= (IF isleafnode(nd) THEN leafslotmax ELSE innerslotmax) \div 2
isunderflow(nd) == nd.slotuse < (IF isleafnode(nd) THEN leafslotmax ELSE innerslotmax) \div 2

-----------------------------------------------------------------------------
(* Allocation.                                                             *)

Without(f, v)   == [u \in DOMAIN f \ {v} |-> f[u]]
With(f, v, x)   == [u \in DOMAIN f \cup {v} |-> IF u = v THEN x ELSE f[u]]

(* The address of the next node allocated: the first one free. *)
Fresh(t) == CHOOSE v \in 1 .. Cardinality(DOMAIN t.node) + 1 :
              v \notin DOMAIN t.node /\ \A u \in 1 .. v - 1 : u \in DOMAIN t.node

allocate_leaf(t, nd) ==
  [t EXCEPT !.node         = With(@, Fresh(t), nd),
            !.nextleaf     = With(@, Fresh(t), NULL),
            !.prevleaf     = With(@, Fresh(t), NULL),
            !.stats.leaves = @ + 1]

allocate_inner(t, nd) ==
  [t EXCEPT !.node             = With(@, Fresh(t), nd),
            !.stats.innernodes = @ + 1]

free_node(t, v) ==
  IF isleafnode(t.node[v])
  THEN [t EXCEPT !.node         = Without(@, v),
                 !.nextleaf     = Without(@, v),
                 !.prevleaf     = Without(@, v),
                 !.stats.leaves = @ - 1]
  ELSE [t EXCEPT !.node             = Without(@, v),
                 !.stats.innernodes = @ - 1]

(* Appends leaf v, just allocated, to the list, as bulk_load, copy_recursive *)
(* and restore_node do.                                                      *)
AppendLeaf(t, v) ==
  IF t.tailleaf = NULL
  THEN [t EXCEPT !.headleaf = v, !.tailleaf = v]
  ELSE [t EXCEPT !.nextleaf[t.tailleaf] = v, !.prevleaf[v] = t.tailleaf, !.tailleaf = v]

-----------------------------------------------------------------------------
(* The tree as lookups see it.                                             *)

FirstKey(t, v) == t.node[v].slotkey[0]
LastKey(t, v)  == t.node[v].slotkey[t.node[v].slotuse - 1]

Children(t, v) == {t.node[v].childid[s] : s \in DOMAIN t.node[v].childid}

Parent(t, v) == CHOOSE p \in DOMAIN t.node : v \in Children(t, p)
Place(t, v)  == LET childid == t.node[Parent(t, v)].childid
                IN  CHOOSE s \in DOMAIN childid : childid[s] = v

(* The tree with the separators around each node: what a descent from the *)
(* root must pass.                                                        *)
TreeOf(t) ==
  LET lo[v \in DOMAIN t.node] ==
        IF v = t.root THEN BELOW
        ELSE IF Place(t, v) = 0 THEN lo[Parent(t, v)]
        ELSE t.node[Parent(t, v)].slotkey[Place(t, v) - 1]
      hi[v \in DOMAIN t.node] ==
        IF v = t.root THEN ABOVE
        ELSE IF Place(t, v) = t.node[Parent(t, v)].slotuse THEN hi[Parent(t, v)]
        ELSE t.node[Parent(t, v)].slotkey[Place(t, v)]
  IN  [root |-> t.root, node |-> t.node, lo |-> lo, hi |-> hi]

(* Lookups can work on it, and no node is over its capacity. *)
Searchable(t) ==
  /\ WellFormed(TreeOf(t))
  /\ \A v \in DOMAIN t.node :
       t.node[v].slotuse <= IF isleafnode(t.node[v]) THEN leafslotmax ELSE innerslotmax

(* The items in the order an iterator from begin() to end() visits them. *)
Items(t) ==
  LET FromLeaf[v \in DOMAIN t.nextleaf] ==
        [s \in 1 .. t.node[v].slotuse |-> <<t.node[v].slotkey[s - 1], t.node[v].slotdata[s - 1]>>]
        \o IF t.nextleaf[v] = NULL THEN <<>> ELSE FromLeaf[t.nextleaf[v]]
  IN  IF t.headleaf = NULL THEN <<>> ELSE FromLeaf[t.headleaf]

-----------------------------------------------------------------------------
(* btree::verify.                                                          *)

Linked(t, a, b) == t.nextleaf[a] = b /\ t.prevleaf[b] = a

(* The nodes verify_node reaches from v. *)
Below(t, v) ==
  LET reach[u \in DOMAIN t.node] == {u} \cup UNION {reach[c] : c \in Children(t, u)}
  IN  reach[v]

verify_node(t, v) ==
  LET nd == t.node[v]
      minkey[u \in DOMAIN t.node] == IF isleafnode(t.node[u]) THEN FirstKey(t, u)
                                     ELSE minkey[t.node[u].childid[0]]
      maxkey[u \in DOMAIN t.node] == IF isleafnode(t.node[u]) THEN LastKey(t, u)
                                     ELSE maxkey[t.node[u].childid[t.node[u].slotuse]]
  IN  /\ v = t.root \/ ~isunderflow(nd)
      /\ nd.slotuse > 0
      /\ Sorted(nd)
      /\ ~isleafnode(nd) =>
           /\ \A s \in 0 .. nd.slotuse : t.node[nd.childid[s]].level + 1 = nd.level
           /\ \A s \in 1 .. nd.slotuse : minkey[nd.childid[s]] >= nd.slotkey[s - 1]
           /\ \A s \in Slots(nd) : maxkey[nd.childid[s]] = nd.slotkey[s]
           /\ nd.level = 1 => \A s \in Slots(nd) : Linked(t, nd.childid[s], nd.childid[s + 1])
           /\ nd.level = 2 => \A s \in Slots(nd) :
                LET a == t.node[nd.childid[s]]
                    b == t.node[nd.childid[s + 1]]
                IN  Linked(t, a.childid[a.slotuse], b.childid[0])

verify_leaflinks(t) ==
  /\ t.node[t.headleaf].level = 0
  /\ t.prevleaf[t.headleaf] = NULL
  /\ \A v \in DOMAIN t.nextleaf :
       IF t.nextleaf[v] = NULL THEN t.tailleaf = v
       ELSE Linked(t, v, t.nextleaf[v]) /\ LastKey(t, v) <= FirstKey(t, t.nextleaf[v])
  /\ Len(Items(t)) = t.stats.itemcount

(* All of it, and what verify cannot see: no node is left that the root does *)
(* not reach.                                                                *)
verify(t) ==
  IF t.root = NULL THEN t = EmptyTree
  ELSE LET below  == Below(t, t.root)
           leaves == {v \in below : isleafnode(t.node[v])}
       IN  /\ \A v \in below : verify_node(t, v)
           /\ t.stats.leaves = Cardinality(leaves)
           /\ t.stats.innernodes = Cardinality(below \ leaves)
           /\ verify_leaflinks(t)
           /\ below = DOMAIN t.node

-----------------------------------------------------------------------------
(* The calls that read a btree: exists, find, count, lower_bound,          *)
(* upper_bound and the iterators.  An iterator is [currnode, currslot];    *)
(* the end is the slot behind the last item of the last leaf.  A reverse   *)
(* iterator is the same pair and stands one slot past the item it refers   *)
(* to.                                                                     *)

IsUpperBound(nd, key, pos) ==
  /\ pos \in 0 .. nd.slotuse
  /\ \A s \in 0 .. pos - 1 : nd.slotkey[s] <= key
  /\ pos < nd.slotuse => key < nd.slotkey[pos]

find_upper(nd, key) == CHOOSE pos \in 0 .. nd.slotuse : IsUpperBound(nd, key, pos)

(* The leaf a descent ends in that goes to the child slot[v] of every inner node v. *)
LeafBelow(t, slot) ==
  LET down[v \in DOMAIN t.node] ==
        IF isleafnode(t.node[v]) THEN v ELSE down[t.node[v].childid[slot[v]]]
  IN  down[t.root]

LeafFor(t, key) == LeafBelow(t, [v \in DOMAIN t.node |-> find_lower(t.node[v], key)])

At(leaf, slot) == [currnode |-> leaf, currslot |-> slot]

begin(t) == At(t.headleaf, 0)
end(t)   == At(t.tailleaf, IF t.tailleaf = NULL THEN 0 ELSE t.node[t.tailleaf].slotuse)

exists(t, key) == t.root # NULL /\ Hit(t.node[LeafFor(t, key)], key)

find(t, key) ==
  IF exists(t, key) THEN At(LeafFor(t, key), find_lower(t.node[LeafFor(t, key)], key)) ELSE end(t)

(* g_tree_height, which find sets to the number of nodes it has passed; it  *)
(* is left alone by a tree without a root.                                  *)
g_tree_height(t, key) ==
  LET depth[v \in DOMAIN t.node] ==
        IF isleafnode(t.node[v]) THEN 1
        ELSE 1 + depth[t.node[v].childid[find_lower(t.node[v], key)]]
  IN  depth[t.root]

lower_bound(t, key) ==
  IF t.root = NULL THEN end(t)
  ELSE At(LeafFor(t, key), find_lower(t.node[LeafFor(t, key)], key))

(* Mutant: the descent of lower_bound, with find_upper in the leaf only. *)
upper_bound_LowerDescent(t, key) ==
  IF t.root = NULL THEN end(t)
  ELSE At(LeafFor(t, key), find_upper(t.node[LeafFor(t, key)], key))
upper_bound(t, key) ==
  LET leaf == LeafBelow(t, [v \in DOMAIN t.node |-> find_upper(t.node[v], key)])
  IN  IF t.root = NULL THEN end(t) ELSE At(leaf, find_upper(t.node[leaf], key))

(* operator++ and operator--: the end and the begin stay where they are. *)
Advance(t, iter) ==
  LET leaf == iter.currnode
  IN  IF iter.currslot + 1 < t.node[leaf].slotuse THEN At(leaf, iter.currslot + 1)
      ELSE IF t.nextleaf[leaf] # NULL THEN At(t.nextleaf[leaf], 0)
      ELSE At(leaf, t.node[leaf].slotuse)

Backstep(t, iter) ==
  LET leaf == iter.currnode
  IN  IF iter.currslot > 0 THEN At(leaf, iter.currslot - 1)
      ELSE IF t.prevleaf[leaf] # NULL
      THEN At(t.prevleaf[leaf], t.node[t.prevleaf[leaf]].slotuse - 1)
      ELSE At(leaf, 0)

(* The same for the reverse iterators: ++ walks towards the first item. *)
rbegin(t) == end(t)
rend(t)   == begin(t)

ReverseAdvance(t, iter) ==
  LET leaf == iter.currnode
  IN  IF iter.currslot > 1 THEN At(leaf, iter.currslot - 1)
      ELSE IF t.prevleaf[leaf] # NULL
      THEN At(t.prevleaf[leaf], t.node[t.prevleaf[leaf]].slotuse)
      ELSE At(leaf, 0)

ReverseBackstep(t, iter) ==
  LET leaf == iter.currnode
  IN  IF iter.currslot < t.node[leaf].slotuse THEN At(leaf, iter.currslot + 1)
      ELSE IF t.nextleaf[leaf] # NULL THEN At(t.nextleaf[leaf], 1)
      ELSE At(leaf, t.node[leaf].slotuse)

(* The items with the key are counted along the list of leaves from the first. *)
count(t, key) ==
  LET Hits(iter) == iter.currslot < t.node[iter.currnode].slotuse
                    /\ t.node[iter.currnode].slotkey[iter.currslot] = key
      from[iter \in [currnode : DOMAIN t.nextleaf, currslot : 0 .. leafslotmax]] ==
        IF Hits(iter)
        THEN IF iter.currslot + 1 < t.node[iter.currnode].slotuse
             THEN 1 + from[At(iter.currnode, iter.currslot + 1)]
             ELSE IF t.nextleaf[iter.currnode] = NULL THEN 1
             ELSE 1 + from[At(t.nextleaf[iter.currnode], 0)]
        ELSE 0
  IN  IF t.root = NULL THEN 0 ELSE from[lower_bound(t, key)]

-----------------------------------------------------------------------------
(* What the queries are to answer, from the sequence of the items.         *)

(* How many items lie before an iterator. *)
Rank(t, iter) ==
  LET before[v \in DOMAIN t.prevleaf] ==
        IF t.prevleaf[v] = NULL THEN 0
        ELSE before[t.prevleaf[v]] + t.node[t.prevleaf[v]].slotuse
  IN  IF iter.currnode = NULL THEN 0 ELSE before[iter.currnode] + iter.currslot

Iterators(t) == UNION {{At(v, s) : s \in Slots(t.node[v])} : v \in DOMAIN t.nextleaf} \cup {end(t)}

(* exists, find, count and the bounds agree, for every key, with the       *)
(* sequence of the items; a bound past the last item is end() itself, as   *)
(* the tests for end() assume; and every find sees the height of the tree, *)
(* which the benchmark reports after one.                                  *)
BoundsRight(t) ==
  \A key \in Key :
    LET Among(Holds(_)) == Cardinality({p \in 1 .. Len(Items(t)) : Holds(Items(t)[p][1])})
        less    == Among(LAMBDA k : k < key)
        atMost  == Among(LAMBDA k : k <= key)
    IN  /\ exists(t, key) <=> atMost > less
        /\ count(t, key) = atMost - less
        /\ IF exists(t, key) THEN find(t, key) = lower_bound(t, key) ELSE find(t, key) = end(t)
        /\ t.root # NULL => g_tree_height(t, key) = t.node[t.root].level + 1
        /\ lower_bound(t, key) \in Iterators(t) /\ Rank(t, lower_bound(t, key)) = less
        /\ upper_bound(t, key) \in Iterators(t) /\ Rank(t, upper_bound(t, key)) = atMost

(* ++ and -- step through the items one by one, each undoing the other. *)
StepsRight(t) ==
  \A iter \in Iterators(t) :
    /\ iter # end(t) => Advance(t, iter) \in Iterators(t)
                        /\ Rank(t, Advance(t, iter)) = Rank(t, iter) + 1
    /\ iter # begin(t) => Backstep(t, iter) \in Iterators(t)
                          /\ Rank(t, Backstep(t, iter)) = Rank(t, iter) - 1

(* From rbegin() the reverse iterators step through the items backwards to *)
(* rend(); everywhere before it there is a slot to read, with the item     *)
(* that belongs there.                                                     *)
ReverseRight(t) ==
  LET Reverse == UNION {{At(v, s) : s \in 1 .. t.node[v].slotuse} : v \in DOMAIN t.nextleaf}
                 \cup {rend(t)}
  IN  /\ rbegin(t) \in Reverse
      /\ \A iter \in Reverse \ {rend(t)} :
           /\ ReverseAdvance(t, iter) \in Reverse
           /\ Rank(t, ReverseAdvance(t, iter)) = Rank(t, iter) - 1
           /\ t.node[iter.currnode].slotkey[iter.currslot - 1] = Items(t)[Rank(t, iter)][1]
      /\ \A iter \in Reverse \ {rbegin(t)} :
           /\ ReverseBackstep(t, iter) \in Reverse
           /\ Rank(t, ReverseBackstep(t, iter)) = Rank(t, iter) + 1
=============================================================================
