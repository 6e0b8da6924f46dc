------------------------------ MODULE LIPPIndex ------------------------------
(***************************************************************************)
(* The LIPP index (LIPP_index/lipp.h) behind its wrapper: insert with      *)
(* conflict nodes and rebuilds of subtrees, bulk_load by FMCD or by three  *)
(* parts, the pool of two-key nodes, destruction.  The index is a record:  *)
(*   tree       the nodes (LIPPTree)                                       *)
(*   pending    pending_two, the recycled two-key nodes, last on top       *)
(*   headers,   how many nodes and how many item arrays are allocated      *)
(*   arrays     (bitmaps come and go with the array)                       *)
(*   ok         whether every RT_ASSERT on the way held                    *)
(* A prediction that is an integer in exact arithmetic may come out just   *)
(* below it in floating point; falls is the set of keys where it does.     *)
(***************************************************************************)
EXTENDS LIPPTree, SequencesExt

CONSTANTS Items,        (* the <<key, value>> pairs that may be inserted    *)
          Ranges,       (* the sequences of pairs that may be loaded        *)
          FallingKeys,  (* the choices for falls                            *)
          SOME, MANY,   (* 100000 and 1000000, where gaps get fewer         *)
          GAPS,         (* the 5 empty items for every key of a small node  *)
          FIXED_ABOVE,  (* 1000000, above which a node is never rebuilt     *)
          GROWTH,       (* 4 times its first size makes a node due ...      *)
          MIN_REBUILD,  (* ... from 64 items on                             *)
          MAX_DEPTH,    (* 128, the length of the path array of an insert   *)
          POOL,         (* 10000000, the two-key nodes made in advance      *)
          MaxPooled     (* bound: no load with more nodes in the pool       *)

ASSUME GapsAssumption  == /\ SOME \in Nat /\ MANY \in Nat /\ FIXED_ABOVE \in Nat
                          /\ GAPS \in Nat \ {0} /\ POOL \in Nat
ASSUME ItemsAssumption == Items \subseteq Key \X Value /\ Key \subseteq Int

VARIABLES lipp, falls,
          USE_FMCD, (* the template parameter: how nodes are fitted          *)
          pc,       (* "running", "exited" (a failed RT_ASSERT), "destroyed" *)
          called    (* the last call, with its arguments                     *)

vars == <<lipp, falls, USE_FMCD, pc, called>>

Bits(count) == 0 .. count - 1
KeyOf(item) == item[1]

(* The integer part of num / den, as the floating-point model has it. *)
Floor(num, den, key) ==
  IF num % den = 0 /\ key \in falls THEN num \div den - 1 ELSE num \div den

-----------------------------------------------------------------------------
(* Nodes.                                                                  *)

EmptyNode ==
  [is_two |-> FALSE, build_size |-> 0, size |-> 0, fixed |-> FALSE,
   num_inserts |-> 0, num_insert_to_data |-> 0, num_items |-> 1,
   model |-> [key \in Key |-> 0], none_bitmap |-> {0}, child_bitmap |-> {},
   data |-> <<>>]

build_tree_none == [r \in {<<>>} |-> EmptyNode]

(* A two-key node without its keys.  The model a recycled node still has is *)
(* set before it is used, so it need not be told from a new one.            *)
NewTwo ==
  [EmptyNode EXCEPT !.is_two = TRUE, !.build_size = 2, !.size = 2,
                    !.num_items = 8, !.none_bitmap = Bits(8)]

(* Mutant: the counters of a recycled node stay. *)
Recycled_KeepsSize(nd) ==
  [NewTwo EXCEPT !.build_size = nd.build_size, !.size = nd.size, !.num_items = nd.num_items]
(* What destroying makes of a two-key node that goes back to the pool. *)
Recycled(nd) ==
  [NewTwo EXCEPT !.build_size = nd.build_size, !.num_items = nd.num_items]

(* The j-th node taken from the pool, which makes new ones when it is empty. *)
Taken(o, j) ==
  IF j < Len(o.pending) THEN o.pending[Len(o.pending) - j] ELSE NewTwo

TakeFromPool(o, count) ==
  LET reused == Min({count, Len(o.pending)})
  IN  [o EXCEPT !.pending = SubSeq(@, 1, Len(@) - reused),
                !.headers = @ + count - reused,
                !.arrays  = @ + count - reused]

Lesser(x, y)  == IF x[1] > y[1] THEN y ELSE x
Greater(x, y) == IF x[1] > y[1] THEN x ELSE y

(* The node base with two items: its model sends the lesser key to item 2   *)
(* of 8 and the greater to item 5, or to the items in front of these.       *)
TwoModel(base, lo, hi) ==
  LET mid1_target == base.num_items \div 3
      mid2_target == (base.num_items * 2) \div 3
  IN  [key \in Key |-> Floor(mid1_target * (hi - lo) + (mid2_target - mid1_target) * (key - lo),
                             hi - lo, key)]

WithItem(nd, pos, item) ==
  [nd EXCEPT !.none_bitmap = @ \ {pos},
             !.data = [p \in DOMAIN nd.data \cup {pos} |-> IF p = pos THEN item ELSE nd.data[p]]]

Seated(nd, lo, hi) ==
  WithItem(WithItem(nd, PREDICT_POS(nd, KeyOf(lo)), lo), PREDICT_POS(nd, KeyOf(hi)), hi)

TwoFitted(base, lo, hi) == [base EXCEPT !.model = TwoModel(base, KeyOf(lo), KeyOf(hi))]

(* Mutant: the keys are swapped, their values are not. *)
TwoNode_SwapsKeys(base, x, y) ==
  Seated(TwoFitted(base, Lesser(x, y), Greater(x, y)),
         <<KeyOf(Lesser(x, y)), x[2]>>, <<KeyOf(Greater(x, y)), y[2]>>)
TwoNode(base, x, y) ==
  Seated(TwoFitted(base, Lesser(x, y), Greater(x, y)), Lesser(x, y), Greater(x, y))

(* Its RT_ASSERTs on the way: each key finds its item empty. *)
BothEmpty(base, p1, p2) == p1 # p2 /\ {p1, p2} \subseteq base.none_bitmap
TwoOK(base, x, y) ==
  LET nd == TwoFitted(base, Lesser(x, y), Greater(x, y))
  IN  BothEmpty(base, PREDICT_POS(nd, KeyOf(x)), PREDICT_POS(nd, KeyOf(y)))

-----------------------------------------------------------------------------
(* Building a tree from the items begin + 1 .. end of a range.             *)

compute_gap_count(size) == IF size >= MANY THEN 1 ELSE IF size >= SOME THEN 2 ELSE GAPS

(* The D of FMCD for the keys at 0 .. size - 1: the number of neighbours    *)
(* that may share an item.  3 * D > size says that it was given up.  The    *)
(* spread over which D keys may fall together, Ut, is the fraction below    *)
(* plus a millionth, hence "greater" where the code has "at least".         *)
Spread(keys, D) == keys[Len(keys) - D] - keys[D + 1]

FirstCrowded(keys, D, L, i) ==
  LET crowded == {j \in i .. Len(keys) - 1 - D :
                    (keys[j + D + 1] - keys[j + 1]) * (L - 2) <= Spread(keys, D)}
  IN  IF crowded = {} THEN Len(keys) - D ELSE Min(crowded)

fmcd(keys, L) ==
  LET size == Len(keys)
      from[i \in 0 .. size, D \in 1 .. size] ==
        IF i >= size - 1 - D THEN D
        ELSE LET j == FirstCrowded(keys, D, L, i)
             IN  IF j + D >= size THEN D
                 ELSE IF (D + 1) * 3 > size THEN D + 1
                 ELSE from[j, D + 1]
  IN  from[0, 1]

(* The model of FMCD, L/2 in the middle between the keys D from either end; *)
(* its slope is that millionth flatter than the fraction.                   *)
FmcdModel(keys, D, L) ==
  LET kl     == keys[D + 1]
      kh     == keys[Len(keys) - D]
      spread == kh - kl
      off(key) == 2 * key - kh - kl
      num(key) == L * spread + (L - 2) * off(key)
  IN  [key \in Key |->
         IF spread = 0 THEN Floor(L + 1000000 * off(key), 2, key)
         ELSE IF off(key) = 0 THEN Floor(L, 2, key)
         ELSE IF off(key) > 0 /\ num(key) % (2 * spread) = 0 THEN num(key) \div (2 * spread) - 1
         ELSE num(key) \div (2 * spread)]

(* The line through the ends of the first and of the second third. *)
ThirdsModel(keys, slots) ==
  LET size == Len(keys)
      m1   == (size - 1) \div 3
      m2   == ((size - 1) * 2) \div 3
      s1   == keys[m1 + 1] + keys[m1 + 2]
      s2   == keys[m2 + 1] + keys[m2 + 2]
      t1   == m1 * slots + slots \div 2
      t2   == m2 * slots + slots \div 2
  IN  [key \in Key |-> Floor(t1 * (s2 - s1) + (t2 - t1) * (2 * key - s1), s2 - s1, key)]

ModelFor(keys, slots, D) ==
  IF D * 3 <= Len(keys) THEN FmcdModel(keys, D, Len(keys) * slots) ELSE ThirdsModel(keys, slots)
BulkModel(keys, slots) ==
  IF USE_FMCD THEN ModelFor(keys, slots, fmcd(keys, Len(keys) * slots))
  ELSE ThirdsModel(keys, slots)

(* A node of more than two items: an item that is alone at its position     *)
(* becomes data, the others become the child at theirs.  BUILD_LR_REMAIN is  *)
(* 0, as LIPPWrapper leaves it: no room is added at either end.              *)
BareNode(keys, slots) ==
  [EmptyNode EXCEPT !.build_size = Len(keys), !.size = Len(keys),
                    !.fixed = Len(keys) > FIXED_ABOVE, !.num_items = Len(keys) * slots,
                    !.model = BulkModel(keys, slots)]

Filled(bare, items, pos) ==
  LET crowd(p) == Cardinality({j \in DOMAIN items : pos[j] = p})
      alone    == {p \in Range(pos) : crowd(p) = 1}
      many     == {p \in Range(pos) : crowd(p) > 1}
  IN  [bare EXCEPT !.none_bitmap = Bits(bare.num_items) \ Range(pos),
                   !.child_bitmap = many,
                   !.data = [p \in alone |-> items[CHOOSE j \in DOMAIN items : pos[j] = p]]]

FilledAt(bare, items) ==
  Filled(bare, items, [j \in DOMAIN items |-> PREDICT_POS(bare, KeyOf(items[j]))])

BulkNode(items) ==
  FilledAt(BareNode([j \in DOMAIN items |-> KeyOf(items[j])], compute_gap_count(Len(items)) + 1),
           items)

(* The segments <<begin, end>> pushed for the children of a node, each with *)
(* its position.  A child as large as its parent would be split without     *)
(* end; it is left out, and missed by BuiltOK.                              *)
Part(items, seg, nd, p) ==
  LET here == {j \in seg[1] + 1 .. seg[2] : PREDICT_POS(nd, KeyOf(items[j])) = p}
  IN  <<Min(here) - 1, Max(here)>>

Parts(items, seg, nd) ==
  {part \in {<<p, Part(items, seg, nd, p)>> : p \in nd.child_bitmap} : part[2] # seg}

PartsOf(items, seg) ==
  IF seg[2] - seg[1] = 2 THEN {}
  ELSE Parts(items, seg, BulkNode(SubSeq(items, seg[1] + 1, seg[2])))

(* All segments below seg by the paths of their nodes, from those of its parts. *)
Spliced(seg, sub) ==
  LET at_(p) == sub[CHOOSE part \in DOMAIN sub : part[1] = p]
  IN  [r \in {<<>>} \cup UNION {{<<part[1]>> \o s : s \in DOMAIN sub[part]} : part \in DOMAIN sub} |->
         IF r = <<>> THEN seg ELSE at_(Head(r))[Tail(r)]]

Segments(items) ==
  LET below[seg \in (0 .. Len(items)) \X (0 .. Len(items))] ==
        Spliced(seg, [part \in PartsOf(items, seg) |-> below[part[2]]])
  IN  below[<<0, Len(items)>>]

(* The segments of two are built in the order of the stack, from the right. *)
BaseOf(o, segments, twos, r) ==
  Taken(o, Cardinality({s \in twos : segments[s][1] > segments[r][1]}))

Built(o, items, segments, twos) ==
  [r \in DOMAIN segments |->
     LET seg == segments[r]
     IN  IF r \in twos THEN TwoNode(BaseOf(o, segments, twos, r), items[seg[1] + 1], items[seg[2]])
         ELSE BulkNode(SubSeq(items, seg[1] + 1, seg[2]))]

BuiltOK(o, items, segments, twos, tree) ==
  \A r \in DOMAIN segments :
    LET seg == segments[r]
    IN  IF r \in twos
        THEN TwoOK(BaseOf(o, segments, twos, r), items[seg[1] + 1], items[seg[2]])
        ELSE \A p \in tree[r].child_bitmap : Append(r, p) \in DOMAIN segments

(* The tree is the subtree built; a node header is allocated for every      *)
(* segment, and the header of build_tree_two is given back after its copy.  *)
WithBuilt(o, items, segments, twos, tree) ==
  LET others == Cardinality(DOMAIN segments) - Cardinality(twos)
      o2     == TakeFromPool(o, Cardinality(twos))
  IN  [o2 EXCEPT !.tree = tree,
                 !.headers = @ + others,
                 !.arrays = @ + others,
                 !.ok = @ /\ BuiltOK(o, items, segments, twos, tree)]

BuildFrom(o, items, segments, twos) ==
  WithBuilt(o, items, segments, twos, Built(o, items, segments, twos))
BuildOver(o, items, segments) ==
  BuildFrom(o, items, segments, {r \in DOMAIN segments : segments[r][2] - segments[r][1] = 2})

(* The pool, the counters and the result of building items; the tree of o   *)
(* is taken to be gone already.                                             *)
build_tree_bulk(o, items) == BuildOver(o, items, Segments(items))

(* RT_ASSERT(key1 < key2), after the swap. *)
Failed(o) == [o EXCEPT !.ok = FALSE]

build_tree_two(o, x, y) ==
  IF KeyOf(x) = KeyOf(y) THEN Failed(o)
  ELSE [TakeFromPool(o, 1) EXCEPT !.tree = [r \in {<<>>} |-> TwoNode(Taken(o, 0), x, y)],
                                  !.ok = @ /\ TwoOK(Taken(o, 0), x, y)]

-----------------------------------------------------------------------------
(* Destroying.                                                             *)

IsUnder(q, r) == SubSeq(r, 1, Len(q)) = q
Under(t, q)   == {r \in DOMAIN t : Len(r) >= Len(q) /\ IsUnder(q, r)}

(* The nodes of gone are freed, two-key nodes go back to the pool. *)
Destroyed(o, gone) ==
  LET twos == {r \in gone : o.tree[r].is_two}
      rest == Cardinality(gone) - Cardinality(twos)
      order == SetToSeq(twos)
  IN  [o EXCEPT !.pending = @ \o [j \in 1 .. Len(order) |-> Recycled(o.tree[order[j]])],
                !.headers = @ - rest,
                !.arrays  = @ - rest,
                !.ok = @ /\ \A r \in twos : o.tree[r].build_size = 2 /\ o.tree[r].num_items = 8]

destroy_tree(o) == Destroyed(o, DOMAIN o.tree)

(* Where the items of the subtree at q are written to by                    *)
(* scan_and_destory_tree: each node's share of the array begins where its   *)
(* parent's walk over the items has come when it meets the child.           *)
Scanned(t, q) ==
  LET begin[r \in Under(t, q)] ==
        IF r = q THEN 0
        ELSE begin[SubSeq(r, 1, Len(r) - 1)] + Before(t, SubSeq(r, 1, Len(r) - 1), r[Len(r)])
      writes == UNION {{<<begin[r] + Before(t, r, p), t[r].data[p]>> : p \in DOMAIN t[r].data}
                       : r \in Under(t, q)}
  IN  [j \in 1 .. t[q].size |-> (CHOOSE w \in writes : w[1] = j - 1)[2]]

ScanOK(t, q) == \A r \in Under(t, q) : Before(t, r, t[r].num_items) = t[r].size

-----------------------------------------------------------------------------
(* insert_tree.                                                            *)

(* The nodes of the path r take note of an insert. *)
Counted(t, r, insert_to_data) ==
  [s \in DOMAIN t |->
     IF IsPrefix(s, r)
     THEN [t[s] EXCEPT !.size = @ + 1, !.num_inserts = @ + 1,
                       !.num_insert_to_data = @ + insert_to_data]
     ELSE t[s]]

(* The item goes to the empty position pos of the node at r. *)
IntoEmpty(o, r, pos, item) ==
  [o EXCEPT !.tree = [Counted(@, r, 0) EXCEPT ![r] = WithItem(@, pos, item)]]

(* The position holds another item: both go to a new two-key child. *)
IntoChild(o, r, pos, item) ==
  LET other == o.tree[r].data[pos]
      base  == Taken(o, 0)
      left  == DOMAIN o.tree[r].data \ {pos}
      up    == [Counted(o.tree, r, 1) EXCEPT ![r].child_bitmap = @ \cup {pos},
                                             ![r].data = [p \in left |-> o.tree[r].data[p]]]
      child == Append(r, pos)
  IN  [TakeFromPool(o, 1) EXCEPT
         !.tree = [s \in DOMAIN up \cup {child} |->
                     IF s = child THEN TwoNode(base, item, other) ELSE up[s]],
         !.ok = @ /\ TwoOK(base, item, other)]

need_rebuild(nd) ==
  /\ ~nd.fixed
  /\ nd.size >= nd.build_size * GROWTH
  /\ nd.size >= MIN_REBUILD
  /\ nd.num_insert_to_data * 10 >= nd.num_inserts

(* The subtree at q is scanned, destroyed and built again in its place. *)
Rejoined(o, q, built) ==
  LET stay == DOMAIN o.tree \ Under(o.tree, q)
  IN  [built EXCEPT !.tree = [r \in stay \cup {q \o s : s \in DOMAIN built.tree} |->
                                IF r \in stay THEN o.tree[r]
                                ELSE built.tree[SubSeq(r, Len(q) + 1, Len(r))]]]

Rebuilt(o, q) ==
  IF ScanOK(o.tree, q)
  THEN Rejoined(o, q, build_tree_bulk(Destroyed(o, Under(o.tree, q)), Scanned(o.tree, q)))
  ELSE Failed(o)

(* Mutant: the last node of the path that is due. *)
RebuildDue_Deepest(o, r) ==
  LET due == {q \in Prefixes(r) : need_rebuild(o.tree[q])}
  IN  IF due = {} \/ ~o.ok THEN o
      ELSE Rebuilt(o, CHOOSE q \in due : \A q2 \in due : Len(q) >= Len(q2))

(* The first node of the path that is due. *)
RebuildDue(o, r) ==
  LET due == {q \in Prefixes(r) : need_rebuild(o.tree[q])}
  IN  IF due = {} \/ ~o.ok THEN o
      ELSE Rebuilt(o, CHOOSE q \in due : \A q2 \in due : Len(q) <= Len(q2))

(* A key that is stored already fails the RT_ASSERT of build_tree_two. *)
InsertAtRoute(o, r, item) ==
  LET pos == PREDICT_POS(o.tree[r], KeyOf(item))
      same == pos \in DOMAIN o.tree[r].data /\ o.tree[r].data[pos][1] = KeyOf(item)
  IN  IF Len(r) >= MAX_DEPTH \/ same THEN Failed(o)
      ELSE RebuildDue(IF pos \in o.tree[r].none_bitmap THEN IntoEmpty(o, r, pos, item)
                      ELSE IntoChild(o, r, pos, item), r)

insert(o, item) == InsertAtRoute(o, Route(o.tree, KeyOf(item)), item)

-----------------------------------------------------------------------------
(* bulk_load, of the index and of its wrapper.                             *)

None(o) == [o EXCEPT !.tree = build_tree_none, !.headers = @ + 1, !.arrays = @ + 1]

StrictlyIncreasing(vs) == \A i \in 2 .. Len(vs) : vs[i][1] > vs[i - 1][1]
is_sorted(vs)          == \A i \in 2 .. Len(vs) : vs[i][1] >= vs[i - 1][1]

bulk_load(o, vs) ==
  CASE Len(vs) = 0 -> None(destroy_tree(o))
    [] Len(vs) = 1 -> insert(None(destroy_tree(o)), vs[1])
    [] Len(vs) = 2 -> build_tree_two(destroy_tree(o), vs[1], vs[2])
    [] OTHER       -> IF StrictlyIncreasing(vs) THEN build_tree_bulk(destroy_tree(o), vs)
                      ELSE Failed(o)

WrapperLoad(o, vs) == IF is_sorted(vs) THEN bulk_load(o, vs) ELSE Failed(o)

-----------------------------------------------------------------------------

(* The constructor: POOL two-key nodes are built and destroyed. *)
Constructed ==
  None([tree |-> <<>>, pending |-> [j \in 1 .. POOL |-> NewTwo],
        headers |-> POOL, arrays |-> POOL, ok |-> TRUE])

Init ==
  /\ falls \in FallingKeys
  /\ USE_FMCD \in BOOLEAN
  /\ lipp = Constructed
  /\ pc = "running"
  /\ called = <<>>

(* A failed RT_ASSERT ends the program; the index is as it was for nobody. *)
Return(o) ==
  /\ pc' = IF o.ok THEN "running" ELSE "exited"
  /\ lipp' = IF o.ok THEN o ELSE lipp
  /\ UNCHANGED <<falls, USE_FMCD>>

Insert(item) ==
  /\ pc = "running"
  /\ called' = <<"insert", item[1], item[2]>>
  /\ Return(insert(lipp, item))

BulkLoad(vs) ==
  /\ pc = "running"
  /\ Len(lipp.pending) <= MaxPooled
  /\ called' = <<"bulk_load", vs>>
  /\ Return(WrapperLoad(lipp, vs))

(* ~LIPP: the tree, then the pool. *)
Emptied(o) ==
  [o EXCEPT !.tree = <<>>, !.pending = <<>>,
            !.headers = @ - Len(o.pending), !.arrays = @ - Len(o.pending)]

Destroy ==
  /\ pc = "running"
  /\ called' = <<"destroy">>
  /\ pc' = "destroyed"
  /\ lipp' = Emptied(destroy_tree(lipp))
  /\ UNCHANGED <<falls, USE_FMCD>>

Ended == pc # "running" /\ UNCHANGED vars

Next == \/ \E item \in Items : Insert(item)
        \/ \E vs \in Ranges : BulkLoad(vs)
        \/ Destroy
        \/ Ended

Spec == Init /\ [][Next]_vars

-----------------------------------------------------------------------------
(* Properties.                                                             *)

Running == pc = "running"

(* Types; the sizes of every subtree add up (LIPP::verify, 239-256); every  *)
(* item lies where the predictions for its key lead; pooled nodes are as    *)
(* new; and every node and array allocated is in the tree or in the pool,   *)
(* none after destruction (lipp.h 345-363, 712-754).                        *)
IndexExact ==
  /\ pc \in {"running", "exited", "destroyed"}
  /\ Stored(lipp.tree) \subseteq Key \X Value
  /\ \A j \in DOMAIN lipp.pending : lipp.pending[j] = NewTwo
  /\ lipp.headers = Cardinality(DOMAIN lipp.tree) + Len(lipp.pending)
  /\ lipp.arrays = Cardinality(DOMAIN lipp.tree) + Len(lipp.pending)
  /\ pc = "destroyed" => lipp.headers = 0
  /\ Running => verify(lipp.tree) /\ SoundTree(lipp.tree)

(* After any sequence of inserts, conflicts, rebuilds and loads, exists and *)
(* at answer as the stored items say (lipp.h 115-148).                      *)
SearchesRight ==
  Running => \A key \in Key :
    LET here == {item \in Stored(lipp.tree) : item[1] = key}
    IN  /\ exists(lipp.tree, key) <=> here # {}
        /\ here # {} => here = {<<key, at(lipp.tree, key)>>}

(* No rebuild is left undone: an insert looks at its own path only and      *)
(* rebuilds one node of it, which must leave no node of the tree due        *)
(* (lipp.h 832-876).                                                        *)
NoRebuildDue == Running => \A r \in DOMAIN lipp.tree : ~need_rebuild(lipp.tree[r])

(* The index is a set of items with distinct keys, changed by each call as  *)
(* said there; in particular a failed RT_ASSERT, which ends the program,    *)
(* always means that the caller broke the rule of distinct keys.            *)
Abstract == INSTANCE UniqueItems WITH stored <- Stored(lipp.tree), alive <- Running
ImplementsItems == Abstract!Spec
=============================================================================
