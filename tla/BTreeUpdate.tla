------------------------------ MODULE BTreeUpdate ------------------------------
(***************************************************************************)
(* The operations of stx::btree that change it: insert with its splits,    *)
(* erase_one, erase(key) and erase(iterator) with their merges and shifts, *)
(* clear, and the copy made by operator= and by dump and restore.          *)
(*                                                                         *)
(* A call is one action: the object is not shared, and nothing runs        *)
(* between its steps.  The recursive descents are recursive functions of   *)
(* the node.  Each returns the tree it leaves behind, what the code        *)
(* returns, and whether the BTREE_ASSERTs it passed hold (ok).             *)
(*                                                                         *)
(* Between calls a tree is kept with its nodes numbered as CopyOf numbers  *)
(* them: no address outlives a call that changes the tree, so trees that   *)
(* differ in their addresses only are one state.                           *)
(***************************************************************************)
EXTENDS BTreeStore

CONSTANTS allow_duplicates,
          MaxItems              (* bound: inserts stop at this many items  *)

(* With smaller leaves a leaf can become empty under its parent, and the   *)
(* code reads slotkey[-1]; btree_default_traits has at least 8 slots.      *)
ASSUME MinSlotsAssumption == leafslotmax >= 4 /\ innerslotmax >= 3

VARIABLES btree,
          done,       (* whether the last call inserted or erased an item  *)
          asserted,   (* whether the BTREE_ASSERTs it passed held          *)
          called      (* the call; no guard depends on it                  *)

vars == <<btree, done, asserted, called>>

Init == btree = EmptyTree /\ done = FALSE /\ asserted = TRUE /\ called = <<>>

SetKey(t, v, s, key) == [t EXCEPT !.node[v].slotkey[s] = key]

-----------------------------------------------------------------------------
(* insert.                                                                 *)

(* Halves leaf v; the right half moves to a fresh leaf linked behind it. *)
split_leaf_node(t, v) ==
  LET nd    == t.node[v]
      mid   == nd.slotuse \div 2
      new   == Fresh(t)
      next  == t.nextleaf[v]
      moved == allocate_leaf(t, LeafNode(Slice(nd.slotkey, mid, nd.slotuse - mid),
                                         Slice(nd.slotdata, mid, nd.slotuse - mid)))
      cut   == [moved EXCEPT !.node[v] = LeafNode(Slice(nd.slotkey, 0, mid), Slice(nd.slotdata, 0, mid)),
                             !.nextleaf[v] = new, !.nextleaf[new] = next, !.prevleaf[new] = v]
  IN  IF next = NULL THEN [cut EXCEPT !.tailleaf = new] ELSE [cut EXCEPT !.prevleaf[next] = new]

(* How many keys stay left when a full inner node is split for an insert at addslot. *)
SplitPoint_NoAddslot(slotuse, addslot) == slotuse \div 2   \* mutant: the uneven split is ignored
SplitPoint(slotuse, addslot) ==
  LET mid == slotuse \div 2
  IN  IF addslot <= mid /\ mid > slotuse - (mid + 1) THEN mid - 1 ELSE mid

(* The key between the halves goes up. *)
split_inner_node(t, v, addslot) ==
  LET nd  == t.node[v]
      mid == SplitPoint(nd.slotuse, addslot)
  IN  [allocate_inner(t, InnerNode(nd.level,
         Slice(nd.slotkey, mid + 1, nd.slotuse - (mid + 1)),
         Slice(nd.childid, mid + 1, nd.slotuse - mid)))
       EXCEPT !.node[v] = InnerNode(nd.level, Slice(nd.slotkey, 0, mid), Slice(nd.childid, 0, mid + 1))]

PutItem(t, v, slot, key, value) ==
  [t EXCEPT !.node[v] = LeafNode(InsertAt(@.slotkey, slot, key), InsertAt(@.slotdata, slot, value))]

PutChild(t, v, slot, key, child) ==
  [t EXCEPT !.node[v] = InnerNode(@.level, InsertAt(@.slotkey, slot, key),
                                           InsertAt(@.childid, slot + 1, child))]

(* What insert_descend gives back; no split leaves newchild null. *)
Descended(t, inserted, newkey, newchild, ok) ==
  [t |-> t, inserted |-> inserted, newkey |-> newkey, newchild |-> newchild, ok |-> ok]

Rejects(nd, key) == ~allow_duplicates /\ Hit(nd, key)

InsertIntoLeaf(t, v, key, value) ==
  LET nd    == t.node[v]
      slot  == find_lower(nd, key)
      split == split_leaf_node(t, v)
      left  == split.node[v].slotuse
  IN  IF Rejects(nd, key) THEN Descended(t, FALSE, key, NULL, TRUE)
      ELSE IF ~isfull(nd) THEN Descended(PutItem(t, v, slot, key, value), TRUE, key, NULL, TRUE)
      ELSE Descended(IF slot >= left THEN PutItem(split, Fresh(t), slot - left, key, value)
                     ELSE PutItem(split, v, slot, key, value),
                     TRUE, LastKey(split, v), Fresh(t), TRUE)

(* The slot falls between the halves of the split: the key from below goes *)
(* up, and the key and the child split off go to the end of the left half. *)
PutBetween(r, split, v, upkey) ==
  LET right == Fresh(r.t)
      first == split.node[right].childid[0]
      left  == split.node[v].slotuse
  IN  Descended([PutChild(split, v, left, upkey, first) EXCEPT !.node[right].childid[0] = r.newchild],
                r.inserted, r.newkey, right, r.ok /\ left + 1 < innerslotmax)

(* Enters the child split off below v, r.newchild, after the one at slot. *)
InsertIntoInner(r, v, slot) ==
  LET nd    == r.t.node[v]
      mid   == SplitPoint(nd.slotuse, slot)
      upkey == nd.slotkey[mid]
      split == split_inner_node(r.t, v, slot)
      right == Fresh(r.t)
  IN  IF r.newchild = NULL THEN r
      ELSE IF ~isfull(nd)
      THEN [r EXCEPT !.t = PutChild(r.t, v, slot, r.newkey, r.newchild), !.newchild = NULL]
      ELSE IF slot = mid + 1 /\ mid < split.node[right].slotuse
      THEN PutBetween(r, split, v, upkey)
      ELSE Descended(IF slot >= mid + 1
                     THEN PutChild(split, right, slot - (mid + 1), r.newkey, r.newchild)
                     ELSE PutChild(split, v, slot, r.newkey, r.newchild),
                     r.inserted, upkey, right, r.ok)

insert_descend(t, v, key, value) ==
  LET descend[u \in DOMAIN t.node] ==
        IF isleafnode(t.node[u]) THEN InsertIntoLeaf(t, u, key, value)
        ELSE InsertIntoInner(descend[Child(t.node[u], key)], u, find_lower(t.node[u], key))
  IN  descend[v]

(* A root that was split gets a parent. *)
NewRoot(r) ==
  LET root == InnerNode(r.t.node[r.t.root].level + 1, One(r.newkey),
                        Join(One(r.t.root), One(r.newchild)))
  IN  IF r.newchild = NULL THEN r.t ELSE [allocate_inner(r.t, root) EXCEPT !.root = Fresh(r.t)]

(* What a call gives back: the tree, whether it inserted or erased, the asserts. *)
Result(t, changed, ok) == [t |-> t, changed |-> changed, ok |-> ok]

Inserted(r) ==
  Result(IF r.inserted THEN [NewRoot(r) EXCEPT !.stats.itemcount = @ + 1] ELSE NewRoot(r),
         r.inserted, r.ok)

insert_start(t, key, value) ==
  LET start == IF t.root # NULL THEN t
               ELSE [AppendLeaf(allocate_leaf(t, LeafNode(<<>>, <<>>)), Fresh(t)) EXCEPT !.root = Fresh(t)]
  IN  Inserted(insert_descend(start, start.root, key, value))

-----------------------------------------------------------------------------
(* erase: the ways a node that underflows is repaired.  Each returns the   *)
(* tree, the key the parent is to take for this subtree (lastkey, NULL for *)
(* none), and whether the parent has an emptied child to remove (fixmerge).*)

Repaired(t, lastkey, fixmerge, ok) ==
  [t |-> t, lastkey |-> lastkey, fixmerge |-> fixmerge, ok |-> ok]

SetNodes(t, l, left, r, right) == [t EXCEPT !.node[l] = left, !.node[r] = right]

merge_leaves(t, l, r, p) ==
  LET left   == t.node[l]
      right  == t.node[r]
      next   == t.nextleaf[r]
      merged == [SetNodes(t, l, LeafNode(Join(left.slotkey, right.slotkey),
                                         Join(left.slotdata, right.slotdata)),
                             r, LeafNode(<<>>, <<>>))
                 EXCEPT !.nextleaf[l] = next]
  IN  Repaired(IF next = NULL THEN [merged EXCEPT !.tailleaf = l]
                              ELSE [merged EXCEPT !.prevleaf[next] = l],
               NULL, TRUE,
               /\ isleafnode(left) /\ isleafnode(right) /\ t.node[p].level = 1
               /\ left.slotuse + right.slotuse < leafslotmax)

(* left and right are children slot and slot + 1 of p, one level below it. *)
Adjacent(t, l, r, p, slot) ==
  /\ t.node[l].level = t.node[r].level
  /\ t.node[p].level = t.node[l].level + 1
  /\ t.node[p].childid[slot] = l

merge_inner(t, l, r, p, slot) ==
  LET left  == t.node[l]
      right == t.node[r]
  IN  Repaired(SetNodes(t, l, InnerNode(left.level,
                                Join(Join(left.slotkey, One(t.node[p].slotkey[slot])), right.slotkey),
                                Join(left.childid, right.childid)),
                           r, InnerNode(right.level, <<>>, One(right.childid[0]))),
               NULL, TRUE,
               Adjacent(t, l, r, p, slot) /\ left.slotuse + right.slotuse < innerslotmax)

shift_left_leaf(t, l, r, p, slot) ==
  LET left  == t.node[l]
      right == t.node[r]
      num   == (right.slotuse - left.slotuse) \div 2
      moved == SetNodes(t, l, LeafNode(Join(left.slotkey, Slice(right.slotkey, 0, num)),
                                       Join(left.slotdata, Slice(right.slotdata, 0, num))),
                           r, LeafNode(Slice(right.slotkey, num, right.slotuse - num),
                                       Slice(right.slotdata, num, right.slotuse - num)))
      here  == slot < t.node[p].slotuse
  IN  Repaired(IF here THEN SetKey(moved, p, slot, LastKey(moved, l)) ELSE moved,
               IF here THEN NULL ELSE LastKey(moved, l), FALSE,
               /\ Adjacent(t, l, r, p, slot) /\ Linked(t, l, r)
               /\ left.slotuse < right.slotuse
               /\ left.slotuse + num < leafslotmax)

shift_left_inner(t, l, r, p, slot) ==
  LET left  == t.node[l]
      right == t.node[r]
      num   == (right.slotuse - left.slotuse) \div 2
  IN  Repaired(SetKey(SetNodes(t,
                 l, InnerNode(left.level,
                      Join(Join(left.slotkey, One(t.node[p].slotkey[slot])), Slice(right.slotkey, 0, num - 1)),
                      Join(left.childid, Slice(right.childid, 0, num))),
                 r, InnerNode(right.level, Slice(right.slotkey, num, right.slotuse - num),
                                           Slice(right.childid, num, right.slotuse + 1 - num))),
                 p, slot, right.slotkey[num - 1]),
               NULL, FALSE,
               /\ Adjacent(t, l, r, p, slot)
               /\ left.slotuse < right.slotuse
               /\ left.slotuse + num < innerslotmax)

shift_right_leaf(t, l, r, p, slot) ==
  LET left  == t.node[l]
      right == t.node[r]
      num   == (left.slotuse - right.slotuse) \div 2
      keep  == left.slotuse - num
      moved == SetNodes(t, l, LeafNode(Slice(left.slotkey, 0, keep), Slice(left.slotdata, 0, keep)),
                           r, LeafNode(Join(Slice(left.slotkey, keep, num), right.slotkey),
                                       Join(Slice(left.slotdata, keep, num), right.slotdata)))
  IN  Repaired(SetKey(moved, p, slot, LastKey(moved, l)), NULL, FALSE,
               /\ Adjacent(t, l, r, p, slot) /\ Linked(t, l, r)
               /\ left.slotuse > right.slotuse
               /\ right.slotuse + num < leafslotmax)

shift_right_inner(t, l, r, p, slot) ==
  LET left  == t.node[l]
      right == t.node[r]
      num   == (left.slotuse - right.slotuse) \div 2
      keep  == left.slotuse - num
  IN  Repaired(SetKey(SetNodes(t,
                 l, InnerNode(left.level, Slice(left.slotkey, 0, keep), Slice(left.childid, 0, keep + 1)),
                 r, InnerNode(right.level,
                      Join(Join(Slice(left.slotkey, keep + 1, num - 1), One(t.node[p].slotkey[slot])),
                           right.slotkey),
                      Join(Slice(left.childid, keep + 1, num), right.childid))),
                 p, slot, left.slotkey[keep]),
               NULL, FALSE,
               /\ Adjacent(t, l, r, p, slot)
               /\ left.slotuse > right.slotuse
               /\ right.slotuse + num < innerslotmax)

-----------------------------------------------------------------------------
(* erase: the descent, and what is repaired on the way back.               *)

(* The neighbours the descent passes down to each node: the code takes the *)
(* last child but one of the left neighbour where a node is its parent's   *)
(* first (childid[left->slotuse - 1]), so left need not be the sibling.    *)
Frames(t) ==
  LET frame[v \in DOMAIN t.node] ==
        LET p    == Parent(t, v)
            slot == Place(t, v)
            up   == frame[p]
        IN  IF v = t.root
            THEN [left |-> NULL, right |-> NULL, leftparent |-> NULL, rightparent |-> NULL,
                  parent |-> NULL, parentslot |-> 0]
            ELSE [left        |-> IF slot > 0 THEN t.node[p].childid[slot - 1]
                                  ELSE IF up.left = NULL THEN NULL
                                  ELSE t.node[up.left].childid[t.node[up.left].slotuse - 1],
                  leftparent  |-> IF slot > 0 THEN p ELSE up.leftparent,
                  right       |-> IF slot < t.node[p].slotuse THEN t.node[p].childid[slot + 1]
                                  ELSE IF up.right = NULL THEN NULL
                                  ELSE t.node[up.right].childid[0],
                  rightparent |-> IF slot < t.node[p].slotuse THEN p ELSE up.rightparent,
                  parent |-> p, parentslot |-> slot]
  IN  frame

merge(t, l, r, p, slot) ==
  IF isleafnode(t.node[l]) THEN merge_leaves(t, l, r, p) ELSE merge_inner(t, l, r, p, slot)
shift_left(t, l, r, p, slot) ==
  IF isleafnode(t.node[l]) THEN shift_left_leaf(t, l, r, p, slot) ELSE shift_left_inner(t, l, r, p, slot)
shift_right(t, l, r, p, slot) ==
  IF isleafnode(t.node[l]) THEN shift_right_leaf(t, l, r, p, slot) ELSE shift_right_inner(t, l, r, p, slot)

(* Which neighbour repairs an underflow at v, whose frame is f, and how. *)
Remedy(t, v, f) ==
  LET few(u) == u = NULL \/ isfew(t.node[u])
      local  == f.leftparent = f.parent
  IN  IF few(f.left) /\ few(f.right)       THEN IF local THEN "merge left" ELSE "merge right"
      ELSE IF f.left # NULL /\ few(f.left) THEN IF f.rightparent = f.parent THEN "shift left" ELSE "merge left"
      ELSE IF f.right # NULL /\ few(f.right) THEN IF local THEN "shift right" ELSE "merge right"
      ELSE IF f.leftparent = f.rightparent THEN IF t.node[f.left].slotuse <= t.node[f.right].slotuse
                                                THEN "shift left" ELSE "shift right"
      ELSE IF local THEN "shift right" ELSE "shift left"

Repair(t, v, f, remedy) ==
  CASE remedy = "merge left"  -> merge(t, f.left, v, f.leftparent, f.parentslot - 1)
    [] remedy = "merge right" -> merge(t, v, f.right, f.rightparent, f.parentslot)
    [] remedy = "shift left"  -> shift_left(t, v, f.right, f.rightparent, f.parentslot)
    [] remedy = "shift right" -> shift_right(t, f.left, v, f.leftparent, f.parentslot - 1)

(* The last leaf goes with the tree; an inner root with one child gives way to it. *)
Collapse(t, v) ==
  IF isleafnode(t.node[v])
  THEN Repaired([free_node(t, v) EXCEPT !.root = NULL, !.headleaf = NULL, !.tailleaf = NULL],
                NULL, FALSE,
                /\ v = t.root /\ t.node[v].slotuse = 0
                /\ t.stats = [itemcount |-> 1, leaves |-> 1, innernodes |-> 0])
  ELSE Repaired(free_node([t EXCEPT !.root = t.node[v].childid[0]], v), NULL, FALSE,
                v = t.root /\ t.node[v].slotuse = 0)

(* Repairs v, if it must be, after r; what r reports is kept unless the    *)
(* repair overwrites it.                                                   *)
Balance(r, v, f) ==
  LET t  == r.t
      nd == t.node[v]
      b  == Repair(t, v, f, Remedy(t, v, f))
      c  == Collapse(t, v)
  IN  IF ~isunderflow(nd) \/ (v = t.root /\ nd.slotuse >= 1) THEN r
      ELSE IF f.left = NULL /\ f.right = NULL THEN [c EXCEPT !.ok = @ /\ r.ok]
      ELSE [b EXCEPT !.lastkey = IF @ = NULL THEN r.lastkey ELSE @, !.ok = @ /\ r.ok]

(* The last key below v is now key: its parent has the separator, or a     *)
(* node above that (f is the frame of v).                                  *)
TellParent(t, v, f, key) ==
  IF f.parent # NULL /\ f.parentslot < t.node[f.parent].slotuse
  THEN Repaired(SetKey(t, f.parent, f.parentslot, key), NULL, FALSE,
                t.node[f.parent].childid[f.parentslot] = v)
  ELSE Repaired(t, key, FALSE, TRUE)

(* left is the tree without the item that was at slot of leaf v. *)
AfterRemoval(left, v, slot, f) ==
  Balance(IF slot < left.node[v].slotuse THEN Repaired(left, NULL, FALSE, TRUE)
          ELSE IF left.node[v].slotuse = 0 THEN Repaired(left, NULL, FALSE, v = left.root)
          ELSE TellParent(left, v, f, LastKey(left, v)), v, f)

EraseFromLeaf(t, v, slot, f) ==
  AfterRemoval([t EXCEPT !.node[v] = LeafNode(RemoveAt(@.slotkey, slot), RemoveAt(@.slotdata, slot))],
               v, slot, f)

(* Removes the child of v that a merge below has emptied: the one at slot, or the next. *)
FixMerge(t, v, slot) ==
  LET nd   == t.node[v]
      gone == IF t.node[nd.childid[slot]].slotuse # 0 THEN slot + 1 ELSE slot
      cut  == [free_node(t, nd.childid[gone]) EXCEPT
                 !.node[v] = InnerNode(nd.level, RemoveAt(nd.slotkey, gone - 1), RemoveAt(nd.childid, gone))]
  IN  Repaired(IF nd.level = 1 /\ gone < nd.slotuse
               THEN SetKey(cut, v, gone - 1, LastKey(cut, cut.node[v].childid[gone - 1])) ELSE cut,
               NULL, FALSE, t.node[nd.childid[gone]].slotuse = 0)

(* At v, with frame f, after the child at slot returned r; told is r once  *)
(* the parent has been told the last key.                                  *)
AfterChild(r, told, v, slot, f) ==
  LET fixed == IF r.fixmerge THEN FixMerge(told.t, v, slot) ELSE Repaired(told.t, NULL, FALSE, TRUE)
  IN  Balance([fixed EXCEPT !.lastkey = told.lastkey, !.ok = @ /\ r.ok /\ told.ok], v, f)

EraseFromInner(r, v, slot, f) ==
  AfterChild(r, IF r.lastkey = NULL THEN Repaired(r.t, NULL, FALSE, TRUE)
                ELSE TellParent(r.t, v, f, r.lastkey), v, slot, f)

(* erase_one_descend and erase_iter_descend, once the item is found: from  *)
(* the leaf back up to the root.                                           *)
EraseDescend(t, leaf, slot, frame) ==
  LET toward(v) == CHOOSE s \in 0 .. t.node[v].slotuse : leaf \in Below(t, t.node[v].childid[s])
      back[v \in DOMAIN t.node] ==
        IF v = leaf THEN EraseFromLeaf(t, leaf, slot, frame[v])
        ELSE EraseFromInner(back[t.node[v].childid[toward(v)]], v, toward(v), frame[v])
  IN  back[t.root]

Erased(r) == Result([r.t EXCEPT !.stats.itemcount = @ - 1], TRUE, r.ok)

EraseItem(t, leaf, slot) == Erased(EraseDescend(t, leaf, slot, Frames(t)))

NotFound(t) == Result(t, FALSE, TRUE)

erase_one(t, key) ==
  LET leaf == LeafFor(t, key)
  IN  IF t.root = NULL THEN NotFound(t)
      ELSE IF ~Hit(t.node[leaf], key) THEN NotFound(t)
      ELSE EraseItem(t, leaf, find_lower(t.node[leaf], key))

Joined_Once(last, r) ==   \* mutant: one item of the key is enough
  [t |-> r.t, changed |-> r.changed, ok |-> last.ok /\ r.ok, again |-> FALSE]
Joined(last, r) == [t |-> r.t, changed |-> last.changed \/ r.changed, ok |-> last.ok /\ r.ok,
                    again |-> r.changed /\ allow_duplicates]
Round(last, key) == IF last.again THEN Joined(last, erase_one(last.t, key)) ELSE last

(* Until no item with the key is found, or after one when keys are unique. *)
erase_key(t, key) ==
  LET round[k \in Nat] ==
        IF k = 0 THEN [t |-> t, changed |-> FALSE, ok |-> TRUE, again |-> TRUE]
        ELSE Round(round[k - 1], key)
  IN  round[t.stats.itemcount + 1]

ItemAt(t, iter) ==
  [key |-> t.node[iter.currnode].slotkey[iter.currslot], slot |-> iter.currslot]

(* The leaf is looked for below every child from the first that can hold   *)
(* the key of the iterator on.                                             *)
erase_iter(t, iter) ==
  LET item == ItemAt(t, iter)
      sees[v \in DOMAIN t.node] ==
        IF isleafnode(t.node[v]) THEN v = iter.currnode
        ELSE \E s \in find_lower(t.node[v], item.key) .. t.node[v].slotuse : sees[t.node[v].childid[s]]
  IN  IF sees[t.root] THEN EraseItem(t, iter.currnode, item.slot) ELSE NotFound(t)

-----------------------------------------------------------------------------
(* clear and the copy.                                                     *)

(* clear_recursive frees the nodes child by child; what it misses is left behind. *)
clear(t) ==
  IF t.root = NULL THEN t
  ELSE [EmptyTree EXCEPT !.node     = [v \in DOMAIN t.node \ Below(t, t.root) |-> t.node[v]],
                         !.nextleaf = [v \in DOMAIN t.nextleaf \ Below(t, t.root) |-> t.nextleaf[v]],
                         !.prevleaf = [v \in DOMAIN t.prevleaf \ Below(t, t.root) |-> t.prevleaf[v]]]

(* The nodes in the order copy_recursive, dump_node and restore_node take them. *)
Preorder(t) ==
  LET Kids(v) == IF isleafnode(t.node[v]) THEN <<>>
                 ELSE [s \in 1 .. t.node[v].slotuse + 1 |-> t.node[v].childid[s - 1]]
      below[v \in DOMAIN t.node] ==
        LET from[s \in 1 .. Len(Kids(v)) + 1] ==
              IF s > Len(Kids(v)) THEN <<>> ELSE below[Kids(v)[s]] \o from[s + 1]
        IN  <<v>> \o from[1]
  IN  IF t.root = NULL THEN <<>> ELSE below[t.root]

(* The copy of the first nodes of order: nodes are allocated in this order, *)
(* leaves linked as they come.  A node that is not copied is a null child.  *)
Rebuilt(t, order) ==
  LET new(v) == IF \E n \in 1 .. Len(order) : order[n] = v
                THEN CHOOSE n \in 1 .. Len(order) : order[n] = v
                ELSE NULL
      copy[n \in 0 .. Len(order)] ==
        LET nd == t.node[order[n]]
        IN  IF n = 0 THEN EmptyTree
            ELSE IF isleafnode(nd)
            THEN AppendLeaf(allocate_leaf(copy[n - 1], LeafNode(nd.slotkey, nd.slotdata)), n)
            ELSE allocate_inner(copy[n - 1],
                   InnerNode(nd.level, nd.slotkey, [s \in 0 .. nd.slotuse |-> new(nd.childid[s])]))
  IN  IF order = <<>> THEN EmptyTree
      ELSE [copy[Len(order)] EXCEPT !.root = 1, !.stats.itemcount = t.stats.itemcount]

CopyOf(t) == IF t.stats.itemcount = 0 THEN EmptyTree ELSE Rebuilt(t, Preorder(t))

(* A node's address in the process that dumped it: no node of the tree restored. *)
InImage(v) == <<"image", v>>

(* restore_node copies a leaf with the links of the image and sets all but   *)
(* the one after the last leaf anew; the last leaf dumped has none.          *)
Restored(t, order) ==
  LET r    == Rebuilt(t, order)
      next == t.nextleaf[order[r.tailleaf]]
  IN  IF r.tailleaf = NULL \/ next = NULL THEN r
      ELSE [r EXCEPT !.nextleaf[r.tailleaf] = InImage(next)]

(* restore on the dump of t cut after n nodes: restore_node returns null *)
(* from there on, and restore itself looks at the root only.                 *)
restore(t, n) ==
  LET r == Restored(t, SubSeq(Preorder(t), 1, n))
  IN  [t |-> r, returned |-> t.stats.itemcount > 0 => r.root # NULL]

-----------------------------------------------------------------------------
(* The calls.                                                              *)

Return(r, call) ==
  /\ btree' = IF verify(r.t) THEN CopyOf(r.t) ELSE r.t
  /\ done' = r.changed
  /\ asserted' = r.ok
  /\ called' = call

Insert(key, value) == /\ btree.stats.itemcount < MaxItems
                      /\ Return(insert_start(btree, key, value), <<"insert", key, value>>)
EraseOne(key)      == Return(erase_one(btree, key), <<"erase_one", key>>)
EraseKey(key)      == Return(erase_key(btree, key), <<"erase_key", key>>)
EraseIter(iter)    == Return(erase_iter(btree, iter), <<"erase_iter", Rank(btree, iter) + 1>>)
Cleared(t)         == Result(t, FALSE, t.stats.itemcount = 0)
Clear              == Return(Cleared(clear(btree)), <<"clear">>)

Next == \/ \E key \in Key : \/ \E value \in Value : Insert(key, value)
                            \/ EraseOne(key)
                            \/ EraseKey(key)
        \/ \E iter \in Iterators(btree) \ {end(btree)} : EraseIter(iter)
        \/ Clear

Spec == Init /\ [][Next]_vars

-----------------------------------------------------------------------------
(* Properties.                                                             *)

(* After every call the tree passes btree::verify: nodes neither too full  *)
(* nor too empty, tight separators, both directions of the leaf list, the  *)
(* statistics; no node is leaked or lost; lookups by any strategy work on  *)
(* it; and no BTREE_ASSERT on the way failed.                              *)
UpdatesExact ==
  /\ done \in BOOLEAN
  /\ asserted
  /\ verify(btree)
  /\ Searchable(btree)

(* The read calls and the iterators agree with the items stored: this needs *)
(* the separators to be the largest keys below them, which every erase has  *)
(* to restore.                                                              *)
QueriesRight == BoundsRight(btree) /\ StepsRight(btree) /\ ReverseRight(btree)

(* A tree is a sorted sequence of items: insert, erase_one, erase(key),    *)
(* erase(iterator) and clear change it as SortedItems says, and report     *)
(* truthfully whether they did.                                            *)
Sorted_Items == INSTANCE SortedItems WITH items <- Items(btree)

(* "During the descent the parent, left and right siblings and their       *)
(* parents are computed and passed down" (erase_one_descend): for a leaf   *)
(* these are its neighbours in the list.                                   *)
SiblingsPassedDown ==
  \A v \in DOMAIN btree.nextleaf : /\ Frames(btree)[v].left = btree.prevleaf[v]
                                   /\ Frames(btree)[v].right = btree.nextleaf[v]

(* restore "returns true if the restore was successful": the list of leaves  *)
(* then ends, and holds the items dumped, also when the image ends early.  *)
RestoreTruthful ==
  \A n \in 0 .. Cardinality(DOMAIN btree.node) :
    LET r == restore(btree, n).t
    IN  restore(btree, n).returned =>
          /\ r.tailleaf # NULL => r.nextleaf[r.tailleaf] = NULL
          /\ Items(r) = Items(btree)
=============================================================================
