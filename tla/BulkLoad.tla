------------------------------- MODULE BulkLoad -------------------------------
(***************************************************************************)
(* btree::bulk_load: the tree every benchmark run searches is built from a *)
(* sorted range, level by level from the leaves up.  One action fills one  *)
(* node; the levels above the first are built inside the array that holds  *)
(* the level below (nextlevel), whose consumed entries are overwritten.    *)
(***************************************************************************)
EXTENDS BTreeStore

CONSTANTS Ranges,     (* the item ranges [ibegin, iend)                    *)
          MaxItems    (* of the samples                                    *)

ASSUME RangesAssumption ==
  \A items \in Ranges : /\ items \in Seq(Key \X Value)
                        /\ \A a, b \in 1 .. Len(items) : a < b => items[a][1] <= items[b][1]

(* All traits have eight slots or more (btree.h 108-142).  With one key in   *)
(* an inner node, a share could be a single child and no key.                *)
ASSUME FanOutAssumption == innerslotmax >= 2

VARIABLES btree,                    (* the tree built                        *)
          items,                    (* the range loaded                      *)
          phase,                    (* which of the three loops is running   *)
          level, i,                 (* the level being built, its next node  *)
          it, num_items,            (* items copied, items left              *)
          num_leaves, leaf,         (* leaves left without parent, the first *)
          num_parents, num_children,(* width of the level, children left     *)
          nextlevel, inner_index    (* the level below, its next entry       *)

copying == <<it, num_items>>
above   == <<num_children, nextlevel, inner_index>>
vars    == <<btree, items, phase, level, i, copying, num_leaves, leaf, num_parents, above>>

DivUp(n, d) == (n + d - 1) \div d

(* Parents for n nodes: an inner node has one child more than it has keys. *)
NumParents_KeysOnly(n) == DivUp(n + 1, innerslotmax)   \* mutant: keys and children confused
NumParents(n) == DivUp(n, innerslotmax + 1)

Init ==
  /\ items \in Ranges
  /\ btree = [EmptyTree EXCEPT !.stats.itemcount = Len(items)]
  /\ phase = "leaves"
  /\ level = 0 /\ i = 0
  /\ it = 0
  /\ num_items = Len(items)
  /\ num_leaves = DivUp(Len(items), leafslotmax)
  /\ leaf = NULL
  /\ num_parents = 0 /\ num_children = 0 /\ inner_index = 0
  /\ nextlevel = <<>>

-----------------------------------------------------------------------------
(* Leaves.                                                                 *)

LeafOf(first, m) ==
  LeafNode([s \in 0 .. m - 1 |-> items[first + s + 1][1]],
           [s \in 0 .. m - 1 |-> items[first + s + 1][2]])

Link_OneWay(t, v) ==   \* mutant: prevleaf of a leaf stays null
  [AppendLeaf(t, v) EXCEPT !.prevleaf[v] = NULL]
Link(t, v) == AppendLeaf(t, v)

FillLeaf(first, m) ==
  /\ phase = "leaves"
  /\ i < num_leaves
  /\ btree' = Link(allocate_leaf(btree, LeafOf(first, m)), Fresh(btree))
  /\ it' = it + m
  /\ num_items' = num_items - m
  /\ i' = i + 1
  /\ UNCHANGED <<items, phase, level, num_leaves, leaf, num_parents, above>>

(* The items left are shared evenly among the leaves left. *)
LoadLeaf_Restarts  == FillLeaf(0, num_items \div (num_leaves - i))     \* mutant
LoadLeaf           == FillLeaf(it, num_items \div (num_leaves - i))

(* At most one leaf: it is the root.  No leaf: the root stays null. *)
EndLeaves ==
  /\ phase = "leaves"
  /\ ~(i < num_leaves)
  /\ IF btree.headleaf = btree.tailleaf
     THEN /\ btree' = [btree EXCEPT !.root = btree.headleaf]
          /\ phase' = "done"
          /\ UNCHANGED <<level, i, leaf, num_parents, nextlevel>>
     ELSE /\ num_parents' = NumParents(num_leaves)
          /\ nextlevel' = [n \in 0 .. num_parents' - 1 |-> NULL]
          /\ leaf' = btree.headleaf
          /\ level' = 1
          /\ i' = 0
          /\ phase' = "parents"
          /\ UNCHANGED btree
  /\ UNCHANGED <<items, copying, num_leaves, num_children, inner_index>>

-----------------------------------------------------------------------------
(* Inner nodes.                                                            *)

(* A node over m children, given with their largest keys. *)
InnerOf(m, child, maxkey) ==
  InnerNode(level, [s \in 0 .. m - 2 |-> maxkey[s]], [s \in 0 .. m - 1 |-> child[s]])

(* An entry of nextlevel: a node, and the largest key below it (in the code *)
(* a pointer to that key, in a leaf that does not change any more).         *)
Entry(v, key) == [first |-> v, second |-> key]

(* The next m leaves. *)
Walk(m) ==
  LET walk[s \in 0 .. m - 1] == IF s = 0 THEN leaf ELSE btree.nextleaf[walk[s - 1]]
  IN  walk

(* A node over them; keyOf is what separates a leaf from the next. *)
FillParent(m, keyOf) ==
  LET walk == Walk(m)
  IN  /\ phase = "parents"
      /\ i < num_parents
      /\ btree' = allocate_inner(btree,
                    InnerOf(m, walk, [s \in 0 .. m - 1 |-> keyOf[walk[s]]]))
      /\ nextlevel' = [nextlevel EXCEPT ![i] = Entry(Fresh(btree), LastKey(btree, walk[m - 1]))]
      /\ leaf' = btree.nextleaf[walk[m - 1]]
      /\ num_leaves' = num_leaves - m
      /\ i' = i + 1
      /\ UNCHANGED <<items, phase, level, copying, num_parents, num_children, inner_index>>

(* Mutant: the separators are first keys. *)
LoadParent_FirstKey == LET m == num_leaves \div (num_parents - i)
                       IN  FillParent(m, [v \in DOMAIN btree.nextleaf |-> FirstKey(btree, v)])
LoadParent          == LET m == num_leaves \div (num_parents - i)
                       IN  FillParent(m, [v \in DOMAIN btree.nextleaf |-> LastKey(btree, v)])

(* The new node's entry goes over one that is consumed: i <= inner_index. *)
FillInner(into) ==
  LET m     == num_children \div (num_parents - i)
      below == [s \in 0 .. m - 1 |-> nextlevel[inner_index + s]]
  IN  /\ phase = "inner"
      /\ i < num_parents
      /\ btree' = allocate_inner(btree, InnerOf(m, [s \in 0 .. m - 1 |-> below[s].first],
                                                [s \in 0 .. m - 1 |-> below[s].second]))
      /\ nextlevel' = [nextlevel EXCEPT ![into] = Entry(Fresh(btree), below[m - 1].second)]
      /\ inner_index' = inner_index + m
      /\ num_children' = num_children - m
      /\ i' = i + 1
      /\ UNCHANGED <<items, phase, level, copying, num_leaves, leaf, num_parents>>

LoadInner_WritesAhead == FillInner(inner_index + 1)   \* mutant: entry not yet consumed
LoadInner             == FillInner(i)

EndLevel ==
  /\ phase \in {"parents", "inner"}
  /\ ~(i < num_parents)
  /\ IF num_parents = 1
     THEN /\ btree' = [btree EXCEPT !.root = nextlevel[0].first]
          /\ phase' = "done"
          /\ UNCHANGED <<level, i, num_parents, num_children, inner_index>>
     ELSE /\ num_children' = num_parents
          /\ num_parents' = NumParents(num_parents)
          /\ level' = level + 1
          /\ i' = 0
          /\ inner_index' = 0
          /\ phase' = "inner"
          /\ UNCHANGED btree
  /\ UNCHANGED <<items, copying, num_leaves, leaf, nextlevel>>

Loaded == phase = "done" /\ UNCHANGED vars

Next == LoadLeaf \/ EndLeaves \/ LoadParent \/ LoadInner \/ EndLevel \/ Loaded

Spec == Init /\ [][Next]_vars

-----------------------------------------------------------------------------
(* Properties.                                                             *)

(* Types, and counters that never run below zero.                           *)
TypeOK ==
  /\ items \in Ranges
  /\ phase \in {"leaves", "parents", "inner", "done"}
  /\ it \in 0 .. Len(items) /\ num_items \in 0 .. Len(items)
  /\ {level, i, num_leaves, num_parents, num_children, inner_index} \subseteq Nat
  /\ {leaf, btree.headleaf, btree.tailleaf} \subseteq DOMAIN btree.nextleaf \cup {NULL}
  /\ btree.root \in DOMAIN btree.node \cup {NULL}

(* The BTREE_ASSERTs between the loops (btree.h 2840, 2886, 2924): the shares *)
(* num / (parts - i), rounded down one after the other, use up every item,    *)
(* every leaf and every node of the level below; none is left, none is empty. *)
SharesAddUp ==
  /\ phase = "leaves" /\ i = num_leaves => it = Len(items) /\ num_items = 0
  /\ phase = "parents" /\ i = num_parents => leaf = NULL /\ num_leaves = 0
  /\ phase = "inner" /\ i = num_parents => num_children = 0
  /\ \A v \in DOMAIN btree.node : btree.node[v].slotuse > 0

(* A node is an orphan until an inner node takes it as a child. *)
Orphans == {v \in DOMAIN btree.node : \A p \in DOMAIN btree.node : v \notin Children(btree, p)}

(* While a level is built inside nextlevel, over the one below, each node    *)
(* without parent is in exactly one live entry: in those written or in those *)
(* not yet consumed (btree.h 2896-2922).                                     *)
OrphansListedOnce ==
  phase = "inner" =>
    LET live == 0 .. i - 1 \cup inner_index .. inner_index + num_children - 1
    IN  /\ {nextlevel[n].first : n \in live} = Orphans
        /\ Cardinality(live) = Cardinality(Orphans)

(* The state of the loops is consistent: types, shares and orphans.          *)
LoadConsistent == TypeOK /\ SharesAddUp /\ OrphansListedOnce

(* The nodes a level is made of. *)
LevelNodes(l) == {v \in DOMAIN btree.node : btree.node[v].level = l}

(* Whenever the loader moves up, from the leaves to their parents and from   *)
(* each inner level to the next, it provides for a node or more, and for at  *)
(* most half as many as the level it leaves is made of: the width comes to   *)
(* one, which ends the last loop (btree.h 2851, 2889: for (level = 2;        *)
(* num_parents != 1; ++level)), and is never zero, which would not end it.   *)
LevelsNarrow ==
  [][level' > level => /\ num_parents' > 0
                       /\ 2 * num_parents' <= Cardinality(LevelNodes(level))]_vars

(* The tree left behind passes btree::verify, which a build without          *)
(* selfverify never runs: no node underfull, separators equal to the largest *)
(* key below, leaves linked both ways across parents, statistics exact.      *)
LoadedVerifies == phase = "done" => verify(btree)

(* And it is a tree the lookup strategies can work on: what BTreeAMAC,       *)
(* BTreeSPP and the other strategies assume, keys repeated across leaves     *)
(* included, and no node over the capacity their fixed steps are made for.   *)
LoadedSearchable == phase = "done" => Searchable(btree)

(* Read along the list of leaves, the loaded tree is the range, in order.    *)
LoadedIsTheRange == phase = "done" => items = Items(btree)

-----------------------------------------------------------------------------
(* Samples for TLC: ranges of every length up to MaxItems, with distinct     *)
(* keys, with keys three times over (so that runs of one key cross leaves   *)
(* and parents) and with one key only.  28 items make a tree of four levels. *)
MCKey    == 0 .. MaxItems
MCValue  == 0 .. MaxItems
MCRanges == {[n \in 1 .. len |-> <<n \div repeat, n>>] :
               len \in 0 .. MaxItems, repeat \in {1, 3, MaxItems + 1}}
MCAbove  == MaxItems
MCBelow  == -1
=============================================================================
