------------------------------ MODULE BPlusTree ------------------------------
(***************************************************************************)
(* The stx B+ tree as the lookup strategies read it: nodes with a level,   *)
(* sorted slot keys and children or data, and the lower-bound search of    *)
(* one node.  A tree is a value; nothing in this module changes it.        *)
(*                                                                         *)
(* A node is a record                                                      *)
(*   [level, slotuse, slotkey, childid, slotdata]                          *)
(* whose slotkey is a function on 0 .. slotuse-1, as the C array is read,  *)
(* whose childid (inner nodes) is a function on 0 .. slotuse and whose     *)
(* slotdata (leaves) is a function on 0 .. slotuse-1.                      *)
(*                                                                         *)
(* A tree is a record [root, node, lo, hi]: node maps node identities      *)
(* (addresses) to nodes; lo and hi are not in the code.  They name the     *)
(* separators on the path to a node: a descent for a key comes through     *)
(* node v only if lo[v] < key <= hi[v].                                    *)
(***************************************************************************)
EXTENDS Integers, FiniteSets

CONSTANTS Key,      (* the keys: any set of integers (uint64_t in main.cpp) *)
          Value,    (* the data values stored with the keys                 *)
          NULL      (* the null node pointer                                *)

ASSUME KeyAssumption == Key \subseteq Int

Slots(nd)      == 0 .. nd.slotuse - 1
isleafnode(nd) == nd.level = 0

-----------------------------------------------------------------------------
(* The search of one node.                                                 *)

(***************************************************************************)
(* What find_lower and linear_lower_bound return: the first slot whose key *)
(* is not less than key, and slotuse when there is none.  The loops that   *)
(* compute it are module NodeSearch.                                       *)
(***************************************************************************)
IsLowerBound(nd, key, pos) ==
  /\ pos \in 0 .. nd.slotuse
  /\ \A s \in 0 .. pos - 1 : nd.slotkey[s] < key
  /\ pos < nd.slotuse => key <= nd.slotkey[pos]

find_lower(nd, key) == CHOOSE pos \in 0 .. nd.slotuse : IsLowerBound(nd, key, pos)

(* Mutant: the lower end stays at the middle slot. *)
Halve_LoAtMid(nd, key, range) ==
  LET mid == (range.lo + range.hi) \div 2
  IN  IF ~(range.lo < range.hi) THEN range
      ELSE IF key <= nd.slotkey[mid] THEN [lo |-> range.lo, hi |-> mid]
      ELSE [lo |-> mid, hi |-> range.hi]

(* One step of the binary searches: the middle slot is read only while the *)
(* range lo .. hi is not exhausted.                                        *)
Halve(nd, key, range) ==
  LET mid == (range.lo + range.hi) \div 2
  IN  IF ~(range.lo < range.hi) THEN range
      ELSE IF key <= nd.slotkey[mid] THEN [lo |-> range.lo, hi |-> mid]
      ELSE [lo |-> mid + 1, hi |-> range.hi]

WholeRange(nd) == [lo |-> 0, hi |-> nd.slotuse]

(* The test every strategy makes at a leaf after its search. *)
Hit(leaf, key) == LET pos == find_lower(leaf, key)
                  IN  pos < leaf.slotuse /\ key = leaf.slotkey[pos]

Data(leaf, key) == leaf.slotdata[find_lower(leaf, key)]

Child(nd, key) == nd.childid[find_lower(nd, key)]

-----------------------------------------------------------------------------
(* What the tree promises to a lookup.                                     *)

NodeIds(t)  == DOMAIN t.node
Leaves(t)   == {v \in NodeIds(t) : isleafnode(t.node[v])}

(* The key-value pairs held by the leaves: the map a lookup should answer from. *)
Stored(t) == UNION {{<<t.node[v].slotkey[s], t.node[v].slotdata[s]>> : s \in Slots(t.node[v])}
                      : v \in Leaves(t)}

Present(t, key) == \E pair \in Stored(t) : pair[1] = key

(* Keys in a node are sorted; duplicates are allowed, as verify_node allows them. *)
Sorted(nd) == \A r, s \in Slots(nd) : r < s => nd.slotkey[r] <= nd.slotkey[s]

NodeOK(t, v) ==
  LET nd == t.node[v]
  IN  /\ nd.level \in Nat
      /\ nd.slotuse \in Nat
      /\ nd.slotkey \in [Slots(nd) -> Key]
      /\ Sorted(nd)
      /\ isleafnode(nd) => nd.slotdata \in [Slots(nd) -> Value]
      /\ ~isleafnode(nd) => nd.childid \in [0 .. nd.slotuse -> NodeIds(t)]

(* Child pos of an inner node is one level down and lies between its separators. *)
ChildrenOK(t, v) ==
  LET nd == t.node[v]
  IN  \A pos \in 0 .. nd.slotuse :
        LET c == nd.childid[pos]
        IN  /\ t.node[c].level + 1 = nd.level
            /\ t.lo[c] = IF pos = 0 THEN t.lo[v] ELSE nd.slotkey[pos - 1]
            /\ t.hi[c] = IF pos = nd.slotuse THEN t.hi[v] ELSE nd.slotkey[pos]

(* A key that the separators send to leaf v, if it is stored at all, is stored in v. *)
LeafOwns(t, v) ==
  \A pair \in Stored(t) : t.lo[v] < pair[1] /\ pair[1] <= t.hi[v]
       => \E s \in Slots(t.node[v]) : t.node[v].slotkey[s] = pair[1]

(***************************************************************************)
(* The part of btree::verify that lookups rely on: sorted nodes, children  *)
(* exactly one level down, and separators that bound their subtrees.  An   *)
(* empty tree has a null root and no node.                                 *)
(***************************************************************************)
WellFormed(t) ==
  /\ t.lo \in [NodeIds(t) -> Int]
  /\ t.hi \in [NodeIds(t) -> Int]
  /\ NULL \notin NodeIds(t)
  /\ IF t.root = NULL
     THEN NodeIds(t) = {}
     ELSE /\ t.root \in NodeIds(t)
          /\ \A key \in Key : t.lo[t.root] < key /\ key <= t.hi[t.root]
  /\ \A v \in NodeIds(t) : /\ NodeOK(t, v)
                           /\ isleafnode(t.node[v]) => LeafOwns(t, v)
                           /\ ~isleafnode(t.node[v]) => ChildrenOK(t, v)
=============================================================================
