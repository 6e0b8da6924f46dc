----------------------- MODULE BTreeGroupPrefetch_proofs -----------------------
(***************************************************************************)
(* Theorems about GroupPrefetch on the B+ tree, for every group size, all  *)
(* node capacities with the number of steps calc_steps gives for them,     *)
(* every set of well-formed trees within the capacities and every batch;   *)
(* and, as general, about the lookups that MCBTreeGroupPrefetch puts       *)
(* beside it: NoPrefetch, Vectorized, Vectorized_Linear and find_group.    *)
(***************************************************************************)
EXTENDS MCBTreeGroupPrefetch, BTreeLookup_proofs

-----------------------------------------------------------------------------
(* The inductive invariant.                                                *)

Phases ==
  /\ pc = "start" => batch_start = 0
  /\ pc \notin {"start", "returned"} => ~NothingToDo
  /\ pc \in {"level", "inner", "leaf"} => batch_start < n
  /\ pc = "inner" => ~IsLeafId(curr_nodes[0])
  /\ pc = "leaf" => IsLeafId(curr_nodes[0])
  /\ pc = "returned" /\ ~NothingToDo => batch_start >= n

(* The halvings that are left at a node. *)
StepsLeft == IF pc = "inner" THEN INNER_STEPS - step ELSE LEAF_STEPS - step

(* Every range is a binary search in progress, narrow enough for the steps left. *)
RangesNarrow ==
  pc \in {"inner", "leaf"} =>
    /\ pc = "inner" => step < INNER_STEPS
    /\ pc = "leaf" => step <= LEAF_STEPS
    /\ \A i \in InBatch : /\ Searching(Node(curr_nodes[i]), KeyOf(i), range[i])
                          /\ range[i].hi - range[i].lo < pow2[StepsLeft]

(* The answers written so far are those of the groups before this one. *)
SettledRight ==
  \A q \in QueryIdx : IF q \in Settled THEN RightAnswer(q) ELSE Unanswered(q)

IInv == TypeOK /\ Phases /\ GroupInStep /\ RangesNarrow /\ SettledRight

-----------------------------------------------------------------------------
(* Facts of a single state.                                                *)

LEMMA StepCounts ==
  /\ INNER_STEPS \in Nat \ {0} /\ LEAF_STEPS \in Nat \ {0}
  /\ \A e \in 0 .. INNER_STEPS + LEAF_STEPS : pow2[e] \in Nat
  /\ \A e \in 1 .. INNER_STEPS + LEAF_STEPS : pow2[e] = 2 * pow2[e - 1]
  /\ pow2[0] = 1
  /\ innerslotmax < pow2[INNER_STEPS] /\ leafslotmax < pow2[LEAF_STEPS]
<1>1. /\ INNER_STEPS \in Nat /\ LEAF_STEPS \in Nat /\ pow2[0] = 1
      /\ innerslotmax < pow2[INNER_STEPS] /\ leafslotmax < pow2[LEAF_STEPS]
  BY StepsAssumption DEF calc_steps
<1>2. INNER_STEPS # 0 /\ LEAF_STEPS # 0
  BY <1>1, CapacityAssumption
<1> QED  BY <1>1, <1>2, StepsAssumption

(* The queries of the group are queries of the batch, and the first is one. *)
LEMMA GroupFacts ==
  ASSUME IInv
  PROVE  /\ n \in Nat /\ batch_start \in Nat /\ GROUP_SIZE \in Nat \ {0}
         /\ WellFormed(tree)
         /\ \A i \in InBatch : /\ i \in Group /\ batch_start + i \in QueryIdx
                               /\ KeyOf(i) \in Key
                               /\ batch_start + i \notin Settled
                               /\ Unanswered(batch_start + i)
         /\ batch_start < n => 0 \in InBatch
<1>1. /\ n \in Nat /\ batch_start \in Nat /\ GROUP_SIZE \in Nat \ {0} /\ WellFormed(tree)
      /\ \A q \in QueryIdx : KeyAt(q) \in Key
  BY ArgsFacts, GroupAssumption DEF IInv, TypeOK
<1>2. ASSUME NEW i \in InBatch
      PROVE  /\ i \in Group /\ batch_start + i \in QueryIdx
             /\ KeyOf(i) \in Key
             /\ batch_start + i \notin Settled
             /\ Unanswered(batch_start + i)
  <2>1. i \in Group /\ i \in Nat /\ batch_start + i \in QueryIdx /\ ~(batch_start + i < batch_start)
    BY <1>1 DEF InBatch, Group, QueryIdx
  <2>2. KeyOf(i) \in Key
    BY <1>1, <2>1 DEF KeyOf
  <2>3. batch_start + i \notin Settled
    BY <2>1 DEF Settled
  <2> QED  BY <2>1, <2>2, <2>3 DEF IInv, SettledRight
<1>3. batch_start < n => 0 \in InBatch
  BY <1>1 DEF InBatch, Group
<1> QED  BY <1>1, <1>2, <1>3

(* A node where a query of the group stands is a node that can be searched. *)
LEMMA NodeFacts ==
  ASSUME IInv, pc \in {"level", "inner", "leaf"}, NEW i \in InBatch
  PROVE  LET nd == Node(curr_nodes[i])
         IN  /\ curr_nodes[i] \in NodeIds(tree)
             /\ nd.slotuse \in Nat /\ nd.slotkey \in [Slots(nd) -> Key] /\ Sorted(nd)
             /\ nd.level \in Nat /\ nd.level = Node(curr_nodes[0]).level
             /\ nd.slotuse <= IF isleafnode(nd) THEN leafslotmax ELSE innerslotmax
             /\ isleafnode(nd) <=> IsLeafId(curr_nodes[0])
<1>1. /\ curr_nodes[i] \in NodeIds(tree)
      /\ Node(curr_nodes[i]).level = Node(curr_nodes[0]).level
  BY DEF IInv, GroupInStep
<1>2. WellFormed(tree) /\ tree \in Trees
  BY GroupFacts DEF IInv, TypeOK, OutsTypeOK
<1>3. NodeOK(tree, curr_nodes[i])
  BY <1>1, <1>2 DEF WellFormed
<1>4. Node(curr_nodes[i]).slotuse <= IF isleafnode(Node(curr_nodes[i])) THEN leafslotmax ELSE innerslotmax
  BY <1>1, <1>2, CapacityAssumption DEF Node
<1> QED  BY <1>1, <1>3, <1>4 DEF NodeOK, Node, IsLeafId, isleafnode

(* A step that leaves arguments, answers and the position in the batch alone. *)
LEMMA Quiet ==
  ASSUME IInv, UNCHANGED <<args, outs, batch_start>>
  PROVE  /\ n' = n /\ QueryIdx' = QueryIdx /\ NodeIds(tree)' = NodeIds(tree)
         /\ tree' = tree /\ queries' = queries
         /\ InBatch' = InBatch /\ Settled' = Settled
         /\ (NothingToDo' <=> NothingToDo) /\ OutsTypeOK' /\ SettledRight'
         /\ \A i : KeyOf(i)' = KeyOf(i)
         /\ \A v : Node(v)' = Node(v)
         /\ \A q, v : OnPath(q, v)' <=> OnPath(q, v)
<1>1. tree' = tree /\ queries' = queries /\ batch_start' = batch_start
  BY DEF args
<1>2. /\ n' = n /\ QueryIdx' = QueryIdx /\ NodeIds(tree)' = NodeIds(tree)
      /\ (NothingToDo' <=> NothingToDo) /\ OutsTypeOK'
      /\ \A q : (RightAnswer(q)' <=> RightAnswer(q)) /\ (Unanswered(q)' <=> Unanswered(q))
      /\ \A q, v : OnPath(q, v)' <=> OnPath(q, v)
  BY OutsUnchanged DEF IInv, TypeOK
<1>3. InBatch' = InBatch /\ Settled' = Settled
  BY <1>1, <1>2 DEF InBatch, Settled
<1>4. SettledRight'
  BY <1>2, <1>3 DEF IInv, SettledRight
<1>5. \A i : KeyOf(i)' = KeyOf(i)
  BY <1>1 DEF KeyOf, KeyAt
<1>6. \A v : Node(v)' = Node(v)
  BY <1>1 DEF Node
<1> QED  BY <1>1, <1>2, <1>3, <1>4, <1>5, <1>6

-----------------------------------------------------------------------------
(* The invariant is inductive.                                             *)

LEMMA InitIInv ==
  ASSUME Init
  PROVE  IInv /\ Settled = {}
<1>1. OutsTypeOK
  BY DEF Init, ArgsAndOutsInit, OutsTypeOK
<1>2. n \in Nat
  BY <1>1, ArgsFacts
<1>3. TypeOK
  BY <1>1 DEF Init, TypeOK
<1>4. Settled = {}
  BY <1>2 DEF Init, Settled, QueryIdx
<1>5. Phases /\ GroupInStep /\ RangesNarrow
  BY DEF Init, Phases, GroupInStep, RangesNarrow
<1>6. SettledRight
  BY <1>4 DEF Init, ArgsAndOutsInit, SettledRight, Unanswered
<1> QED  BY <1>3, <1>4, <1>5, <1>6 DEF IInv

LEMMA StartStep ==
  ASSUME IInv, Start
  PROVE  IInv' /\ Settled' = Settled /\ Settled = {}
<1>1. /\ UNCHANGED <<args, outs, batch_start, curr_nodes, range, step>>
      /\ pc = "start" /\ pc' = IF NothingToDo THEN "returned" ELSE "group"
  BY DEF Start
<1>2. /\ NodeIds(tree)' = NodeIds(tree) /\ (NothingToDo' <=> NothingToDo)
      /\ OutsTypeOK' /\ SettledRight' /\ Settled' = Settled
  BY <1>1, Quiet
<1>3. TypeOK'
  BY <1>1, <1>2 DEF IInv, TypeOK
<1>4. Phases' /\ GroupInStep' /\ RangesNarrow'
  BY <1>1, <1>2 DEF Phases, GroupInStep, RangesNarrow
<1>5. Settled = {}
  BY <1>1, GroupFacts DEF Settled, IInv, Phases, QueryIdx
<1> QED  BY <1>2, <1>3, <1>4, <1>5 DEF IInv

LEMMA NextGroupStep ==
  ASSUME IInv, NextGroup
  PROVE  IInv' /\ Settled' = Settled
<1>1. /\ UNCHANGED <<args, outs, batch_start, range, step>> /\ pc = "group"
      /\ pc' = IF batch_start < n THEN "level" ELSE "returned"
  BY DEF NextGroup
<1>2. /\ n' = n /\ NodeIds(tree)' = NodeIds(tree) /\ (NothingToDo' <=> NothingToDo)
      /\ tree' = tree /\ OutsTypeOK' /\ SettledRight' /\ Settled' = Settled /\ ~NothingToDo
      /\ InBatch' = InBatch
      /\ \A v : Node(v)' = Node(v)
      /\ \A q, v : OnPath(q, v)' <=> OnPath(q, v)
  BY <1>1, Quiet DEF IInv, Phases
<1>3. RangesNarrow'
  BY <1>1 DEF RangesNarrow
<1>4. n \in Nat /\ batch_start \in Nat /\ n # 0
  BY <1>2, GroupFacts DEF NothingToDo
<1>5. Phases'
  BY <1>1, <1>2, <1>4 DEF Phases
<1>6. CASE batch_start < n
  <2>1. curr_nodes' = [i \in Group |-> IF i \in InBatch THEN tree.root ELSE curr_nodes[i]]
    BY <1>6 DEF NextGroup
  <2>2. tree.root \in NodeIds(tree) /\ \A i \in InBatch : OnPath(batch_start + i, tree.root)
    <3>1. WellFormed(tree) /\ \A i \in InBatch : KeyAt(batch_start + i) \in Key
      BY GroupFacts DEF KeyOf
    <3> QED  BY <1>2, <3>1 DEF WellFormed, NothingToDo, OnPath
  <2>3. TypeOK'
    BY <1>1, <1>2, <1>6, <2>1, <2>2 DEF IInv, TypeOK
  <2>4. GroupInStep'
    <3>1. \A i \in InBatch : curr_nodes'[i] = tree.root
      BY <2>1 DEF InBatch
    <3>2. 0 \in InBatch
      BY <1>6, GroupFacts
    <3>3. ASSUME NEW i \in InBatch'
          PROVE  /\ curr_nodes'[i] \in NodeIds(tree)'
                 /\ Node(curr_nodes[i])'.level = Node(curr_nodes[0])'.level
                 /\ OnPath(batch_start + i, curr_nodes[i])'
      <4>1. curr_nodes'[i] = tree.root /\ curr_nodes'[0] = tree.root
        BY <1>2, <3>1, <3>2
      <4> QED  BY <1>1, <1>2, <2>2, <4>1 DEF Node, OnPath, KeyAt, args
    <3> QED  BY <3>3 DEF GroupInStep
  <2> QED  BY <1>2, <1>3, <1>5, <2>3, <2>4 DEF IInv
<1>7. CASE ~(batch_start < n)
  <2>1. pc' = "returned" /\ curr_nodes' = curr_nodes
    BY <1>7 DEF NextGroup
  <2>2. TypeOK' /\ GroupInStep'
    BY <1>1, <1>2, <2>1 DEF IInv, TypeOK, GroupInStep
  <2> QED  BY <1>2, <1>3, <1>5, <2>2 DEF IInv
<1> QED  BY <1>6, <1>7

(* A step that moves no query keeps the group in step. *)
LEMMA GroupStays ==
  ASSUME IInv, UNCHANGED <<args, outs, batch_start, curr_nodes>>,
         pc \in {"level", "inner", "leaf"}
  PROVE  GroupInStep'
<1>1. /\ NodeIds(tree)' = NodeIds(tree) /\ tree' = tree /\ queries' = queries
      /\ InBatch' = InBatch
  BY Quiet
<1>2. ASSUME NEW i \in InBatch'
      PROVE  /\ curr_nodes'[i] \in NodeIds(tree)'
             /\ Node(curr_nodes[i])'.level = Node(curr_nodes[0])'.level
             /\ OnPath(batch_start + i, curr_nodes[i])'
  <2>1. /\ curr_nodes[i] \in NodeIds(tree)
        /\ Node(curr_nodes[i]).level = Node(curr_nodes[0]).level
        /\ OnPath(batch_start + i, curr_nodes[i])
    BY <1>1, <1>2 DEF IInv, GroupInStep
  <2> QED  BY <1>1, <2>1 DEF Node, OnPath, KeyAt
<1> QED  BY <1>2 DEF GroupInStep

(* What opening all ranges leaves: whole nodes, no wider than their capacity. *)
LEMMA RangesOpened ==
  ASSUME IInv, pc = "level", OpenRanges
  PROVE  /\ range' \in [Group -> [lo : Nat, hi : Nat]]
         /\ \A i \in InBatch :
              /\ Searching(Node(curr_nodes[i]), KeyOf(i), range'[i])
              /\ range'[i].hi - range'[i].lo <=
                   IF IsLeafId(curr_nodes[0]) THEN leafslotmax ELSE innerslotmax
<1>1. range \in [Group -> [lo : Nat, hi : Nat]]
  BY DEF IInv, TypeOK
<1>2. ASSUME NEW i \in InBatch
      PROVE  /\ WholeRange(Node(curr_nodes[i])) \in [lo : Nat, hi : Nat]
             /\ Searching(Node(curr_nodes[i]), KeyOf(i), WholeRange(Node(curr_nodes[i])))
             /\ WholeRange(Node(curr_nodes[i])).hi - WholeRange(Node(curr_nodes[i])).lo <=
                   IF IsLeafId(curr_nodes[0]) THEN leafslotmax ELSE innerslotmax
  <2>1. PICK nd : nd = Node(curr_nodes[i])
    OBVIOUS
  <2>2. /\ nd.slotuse \in Nat
        /\ nd.slotuse <= IF IsLeafId(curr_nodes[0]) THEN leafslotmax ELSE innerslotmax
    BY <1>2, <2>1, NodeFacts
  <2>3. Searching(nd, KeyOf(i), WholeRange(nd))
    BY <2>2, WholeRangeSearching
  <2> QED  BY <2>1, <2>2, <2>3 DEF WholeRange
<1>3. /\ range' = [i \in Group |-> IF i \in InBatch THEN WholeRange(Node(curr_nodes[i])) ELSE range[i]]
      /\ \A i \in InBatch : i \in Group
  BY DEF OpenRanges, InBatch
<1>4. range' \in [Group -> [lo : Nat, hi : Nat]]
  BY <1>1, <1>2, <1>3, Zenon
<1>5. \A i \in InBatch : range'[i] = WholeRange(Node(curr_nodes[i]))
  BY <1>3
<1> QED  BY <1>2, <1>4, <1>5

LEMMA BeginInnerStep ==
  ASSUME IInv, BeginInner
  PROVE  IInv' /\ Settled' = Settled
<1>1. /\ UNCHANGED <<args, outs, batch_start, curr_nodes>> /\ OpenRanges
      /\ pc = "level" /\ pc' = "inner" /\ step' = 0 /\ ~IsLeafId(curr_nodes[0])
  BY DEF BeginInner
<1>2. /\ n' = n /\ NodeIds(tree)' = NodeIds(tree) /\ (NothingToDo' <=> NothingToDo)
      /\ InBatch' = InBatch /\ OutsTypeOK' /\ SettledRight' /\ Settled' = Settled
      /\ \A i : KeyOf(i)' = KeyOf(i)
      /\ \A v : Node(v)' = Node(v)
  BY <1>1, Quiet
<1>3. GroupInStep'
  BY <1>1, GroupStays
<1>4. TypeOK'
  BY <1>1, <1>2, RangesOpened DEF IInv, TypeOK
<1>5. Phases'
  BY <1>1, <1>2 DEF IInv, Phases, IsLeafId
<1>6. RangesNarrow'
  <2>1. INNER_STEPS \in Nat \ {0} /\ innerslotmax < pow2[INNER_STEPS] /\ innerslotmax \in Nat
        /\ pow2[INNER_STEPS] \in Nat /\ LEAF_STEPS \in Nat
    BY StepCounts, CapacityAssumption
  <2>2. StepsLeft' = INNER_STEPS
    BY <1>1, <2>1 DEF StepsLeft
  <2>3. ASSUME NEW i \in InBatch'
        PROVE  /\ Searching(Node(curr_nodes[i])', KeyOf(i)', range'[i])
               /\ range'[i].hi - range'[i].lo < pow2[StepsLeft']
    <3>1. /\ Searching(Node(curr_nodes[i]), KeyOf(i), range'[i])
          /\ range'[i].hi - range'[i].lo <= innerslotmax
          /\ range'[i].hi \in Nat /\ range'[i].lo \in Nat
      BY <1>1, <1>2, RangesOpened DEF Searching
    <3>2. Node(curr_nodes[i])' = Node(curr_nodes[i]) /\ KeyOf(i)' = KeyOf(i)
      BY <1>1, <1>2 DEF Node
    <3> QED  BY <2>1, <2>2, <3>1, <3>2
  <2> QED  BY <1>1, <2>1, <2>3 DEF RangesNarrow, Searching
<1> QED  BY <1>2, <1>3, <1>4, <1>5, <1>6 DEF IInv

LEMMA BeginLeafStep ==
  ASSUME IInv, BeginLeaf
  PROVE  IInv' /\ Settled' = Settled
<1>1. /\ UNCHANGED <<args, outs, batch_start, curr_nodes>> /\ OpenRanges
      /\ pc = "level" /\ pc' = "leaf" /\ step' = 0 /\ IsLeafId(curr_nodes[0])
  BY DEF BeginLeaf
<1>2. /\ n' = n /\ NodeIds(tree)' = NodeIds(tree) /\ (NothingToDo' <=> NothingToDo)
      /\ InBatch' = InBatch /\ OutsTypeOK' /\ SettledRight' /\ Settled' = Settled
      /\ \A i : KeyOf(i)' = KeyOf(i)
      /\ \A v : Node(v)' = Node(v)
  BY <1>1, Quiet
<1>3. GroupInStep'
  BY <1>1, GroupStays
<1>4. TypeOK'
  BY <1>1, <1>2, RangesOpened DEF IInv, TypeOK
<1>5. Phases'
  BY <1>1, <1>2 DEF IInv, Phases, IsLeafId
<1>6. RangesNarrow'
  <2>1. LEAF_STEPS \in Nat \ {0} /\ leafslotmax < pow2[LEAF_STEPS] /\ leafslotmax \in Nat
        /\ pow2[LEAF_STEPS] \in Nat /\ INNER_STEPS \in Nat
    BY StepCounts, CapacityAssumption
  <2>2. StepsLeft' = LEAF_STEPS
    BY <1>1, <2>1 DEF StepsLeft
  <2>3. ASSUME NEW i \in InBatch'
        PROVE  /\ Searching(Node(curr_nodes[i])', KeyOf(i)', range'[i])
               /\ range'[i].hi - range'[i].lo < pow2[StepsLeft']
    <3>1. /\ Searching(Node(curr_nodes[i]), KeyOf(i), range'[i])
          /\ range'[i].hi - range'[i].lo <= leafslotmax
          /\ range'[i].hi \in Nat /\ range'[i].lo \in Nat
      BY <1>1, <1>2, RangesOpened DEF Searching
    <3>2. Node(curr_nodes[i])' = Node(curr_nodes[i]) /\ KeyOf(i)' = KeyOf(i)
      BY <1>1, <1>2 DEF Node
    <3> QED  BY <2>1, <2>2, <3>1, <3>2
  <2> QED  BY <1>1, <2>1, <2>3 DEF RangesNarrow, Searching
<1> QED  BY <1>2, <1>3, <1>4, <1>5, <1>6 DEF IInv

(* One halving of every range, with at least one step left: all ranges stay *)
(* searches in progress and fit the steps that then remain.                 *)
LEMMA OneHalving ==
  ASSUME IInv, pc \in {"inner", "leaf"}, StepsLeft \in 1 .. INNER_STEPS + LEAF_STEPS,
         NEW i \in InBatch
  PROVE  /\ Searching(Node(curr_nodes[i]), KeyOf(i), Halved(i))
         /\ Halved(i).hi - Halved(i).lo < pow2[StepsLeft - 1]
         /\ Halved(i) \in [lo : Nat, hi : Nat]
<1>1. PICK e : e = StepsLeft
  OBVIOUS
<1>2. e \in 1 .. INNER_STEPS + LEAF_STEPS /\ INNER_STEPS \in Nat /\ LEAF_STEPS \in Nat
  BY <1>1, StepCounts
<1>3. pow2[e] = 2 * pow2[e - 1]
  BY <1>2, StepCounts
<1>4. e - 1 \in 0 .. INNER_STEPS + LEAF_STEPS
  BY <1>2
<1>5. pow2[e - 1] \in Nat
  BY <1>4, StepCounts
<1>6. PICK nd : nd = Node(curr_nodes[i])
  OBVIOUS
<1>7. nd.slotuse \in Nat /\ nd.slotkey \in [Slots(nd) -> Key] /\ Sorted(nd) /\ KeyOf(i) \in Key
  BY <1>6, NodeFacts, GroupFacts
<1>8. Searching(nd, KeyOf(i), range[i]) /\ range[i].hi - range[i].lo < 2 * pow2[e - 1]
  BY <1>1, <1>3, <1>6 DEF IInv, RangesNarrow
<1>9. /\ Searching(nd, KeyOf(i), Halve(nd, KeyOf(i), range[i]))
      /\ Halve(nd, KeyOf(i), range[i]).hi - Halve(nd, KeyOf(i), range[i]).lo < pow2[e - 1]
  BY <1>5, <1>7, <1>8, HalveSearching
<1> QED  BY <1>1, <1>6, <1>9 DEF Halved, Searching

LEMMA RangesHalved ==
  ASSUME IInv, pc \in {"inner", "leaf"}, StepsLeft \in 1 .. INNER_STEPS + LEAF_STEPS, HalveAll
  PROVE  /\ range' \in [Group -> [lo : Nat, hi : Nat]]
         /\ \A i \in InBatch : range'[i] = Halved(i)
<1>1. range \in [Group -> [lo : Nat, hi : Nat]]
  BY DEF IInv, TypeOK
<1>2. \A i \in InBatch : Halved(i) \in [lo : Nat, hi : Nat]
  BY OneHalving
<1>3. /\ range' = [i \in Group |-> IF i \in InBatch THEN Halved(i) ELSE range[i]]
      /\ \A i \in InBatch : i \in Group
  BY DEF HalveAll, InBatch
<1>4. range' \in [Group -> [lo : Nat, hi : Nat]]
  BY <1>1, <1>2, <1>3, Zenon
<1>5. \A i \in InBatch : range'[i] = Halved(i)
  BY <1>3
<1> QED  BY <1>4, <1>5

LEMMA HalveInnerStep ==
  ASSUME IInv, HalveInner
  PROVE  IInv' /\ Settled' = Settled
<1>1. /\ UNCHANGED <<args, outs, pc, batch_start, curr_nodes>> /\ HalveAll
      /\ pc = "inner" /\ step < INNER_STEPS - 1 /\ step' = step + 1
  BY DEF HalveInner
<1>2. /\ n' = n /\ NodeIds(tree)' = NodeIds(tree) /\ (NothingToDo' <=> NothingToDo)
      /\ InBatch' = InBatch /\ OutsTypeOK' /\ SettledRight' /\ Settled' = Settled
      /\ \A i : KeyOf(i)' = KeyOf(i)
      /\ \A v : Node(v)' = Node(v)
  BY <1>1, Quiet
<1>3. GroupInStep'
  BY <1>1, GroupStays
<1>4. step \in Nat /\ INNER_STEPS \in Nat /\ LEAF_STEPS \in Nat
  BY StepCounts DEF IInv, TypeOK
<1>5. /\ StepsLeft = INNER_STEPS - step /\ StepsLeft' = StepsLeft - 1
      /\ StepsLeft \in 1 .. INNER_STEPS + LEAF_STEPS
  BY <1>1, <1>4 DEF StepsLeft
<1>6. TypeOK'
  BY <1>1, <1>2, <1>4, <1>5, RangesHalved DEF IInv, TypeOK
<1>7. Phases'
  BY <1>1, <1>2 DEF IInv, Phases, IsLeafId
<1>8. RangesNarrow'
  <2>1. ASSUME NEW i \in InBatch'
        PROVE  /\ Searching(Node(curr_nodes[i])', KeyOf(i)', range'[i])
               /\ range'[i].hi - range'[i].lo < pow2[StepsLeft']
    <3>1. i \in InBatch /\ range'[i] = Halved(i)
      BY <1>1, <1>2, <1>5, <2>1, RangesHalved
    <3>2. /\ Searching(Node(curr_nodes[i]), KeyOf(i), Halved(i))
          /\ Halved(i).hi - Halved(i).lo < pow2[StepsLeft - 1]
      BY <1>1, <1>5, <3>1, OneHalving
    <3>3. Node(curr_nodes[i])' = Node(curr_nodes[i]) /\ KeyOf(i)' = KeyOf(i)
      BY <1>1, <1>2 DEF Node
    <3> QED  BY <1>5, <3>1, <3>2, <3>3
  <2>2. step' < INNER_STEPS
    BY <1>1, <1>4
  <2> QED  BY <1>1, <2>1, <2>2 DEF RangesNarrow, Searching
<1> QED  BY <1>2, <1>3, <1>6, <1>7, <1>8 DEF IInv

LEMMA HalveLeafStep ==
  ASSUME IInv, HalveLeaf
  PROVE  IInv' /\ Settled' = Settled
<1>1. /\ UNCHANGED <<args, outs, pc, batch_start, curr_nodes>> /\ HalveAll
      /\ pc = "leaf" /\ step < LEAF_STEPS /\ step' = step + 1
  BY DEF HalveLeaf
<1>2. /\ n' = n /\ NodeIds(tree)' = NodeIds(tree) /\ (NothingToDo' <=> NothingToDo)
      /\ InBatch' = InBatch /\ OutsTypeOK' /\ SettledRight' /\ Settled' = Settled
      /\ \A i : KeyOf(i)' = KeyOf(i)
      /\ \A v : Node(v)' = Node(v)
  BY <1>1, Quiet
<1>3. GroupInStep'
  BY <1>1, GroupStays
<1>4. step \in Nat /\ INNER_STEPS \in Nat /\ LEAF_STEPS \in Nat
  BY StepCounts DEF IInv, TypeOK
<1>5. /\ StepsLeft = LEAF_STEPS - step /\ StepsLeft' = StepsLeft - 1
      /\ StepsLeft \in 1 .. INNER_STEPS + LEAF_STEPS
  BY <1>1, <1>4 DEF StepsLeft
<1>6. TypeOK'
  BY <1>1, <1>2, <1>4, <1>5, RangesHalved DEF IInv, TypeOK
<1>7. Phases'
  BY <1>1, <1>2 DEF IInv, Phases, IsLeafId
<1>8. RangesNarrow'
  <2>1. ASSUME NEW i \in InBatch'
        PROVE  /\ Searching(Node(curr_nodes[i])', KeyOf(i)', range'[i])
               /\ range'[i].hi - range'[i].lo < pow2[StepsLeft']
    <3>1. i \in InBatch /\ range'[i] = Halved(i)
      BY <1>1, <1>2, <1>5, <2>1, RangesHalved
    <3>2. /\ Searching(Node(curr_nodes[i]), KeyOf(i), Halved(i))
          /\ Halved(i).hi - Halved(i).lo < pow2[StepsLeft - 1]
      BY <1>1, <1>5, <3>1, OneHalving
    <3>3. Node(curr_nodes[i])' = Node(curr_nodes[i]) /\ KeyOf(i)' = KeyOf(i)
      BY <1>1, <1>2 DEF Node
    <3> QED  BY <1>5, <3>1, <3>2, <3>3
  <2>2. step' <= LEAF_STEPS
    BY <1>1, <1>4
  <2> QED  BY <1>1, <2>1, <2>2 DEF RangesNarrow, Searching
<1> QED  BY <1>2, <1>3, <1>6, <1>7, <1>8 DEF IInv

(* When the steps of an inner node run out, the last halving gives the child *)
(* that the search of the node would give.                                   *)
LEMMA LastHalving ==
  ASSUME IInv, pc = "inner", ~(step < INNER_STEPS - 1), NEW i \in InBatch
  PROVE  /\ StepsLeft \in 1 .. INNER_STEPS + LEAF_STEPS
         /\ Halved(i).lo = Halved(i).hi
         /\ Halved(i).lo = find_lower(Node(curr_nodes[i]), KeyOf(i))
<1>1. step \in Nat /\ INNER_STEPS \in Nat /\ LEAF_STEPS \in Nat /\ step < INNER_STEPS
  BY StepCounts DEF IInv, TypeOK, RangesNarrow
<1>2. StepsLeft = 1
  BY <1>1 DEF StepsLeft
<1>3. StepsLeft \in 1 .. INNER_STEPS + LEAF_STEPS
  BY <1>1, <1>2
<1>4. pow2[StepsLeft - 1] = 1
  BY <1>2, StepCounts
<1>5. Searching(Node(curr_nodes[i]), KeyOf(i), Halved(i)) /\ Halved(i).hi - Halved(i).lo < 1
  BY <1>3, <1>4, OneHalving
<1>6. PICK nd, rg : nd = Node(curr_nodes[i]) /\ rg = Halved(i)
  OBVIOUS
<1>7. nd.slotuse \in Nat /\ nd.slotkey \in [Slots(nd) -> Key] /\ KeyOf(i) \in Key
  BY <1>6, NodeFacts, GroupFacts
<1>8. rg.lo = rg.hi /\ rg.lo = find_lower(nd, KeyOf(i))
  BY <1>5, <1>6, <1>7, OnePointLeft
<1> QED  BY <1>3, <1>6, <1>8

(* When the steps of a leaf run out, every range is the lower bound. *)
LEMMA LeafSettled ==
  ASSUME IInv, pc = "leaf", ~(step < LEAF_STEPS), NEW i \in InBatch
  PROVE  /\ range[i].lo = range[i].hi
         /\ range[i].lo = find_lower(Node(curr_nodes[i]), KeyOf(i))
<1>1. step \in Nat /\ LEAF_STEPS \in Nat /\ step <= LEAF_STEPS
  BY StepCounts DEF IInv, TypeOK, RangesNarrow
<1>2. StepsLeft = 0
  BY <1>1 DEF StepsLeft
<1>3. pow2[StepsLeft] = 1
  BY <1>2, StepCounts
<1>4. Searching(Node(curr_nodes[i]), KeyOf(i), range[i]) /\ range[i].hi - range[i].lo < 1
  BY <1>3 DEF IInv, RangesNarrow
<1>5. PICK nd, rg : nd = Node(curr_nodes[i]) /\ rg = range[i]
  OBVIOUS
<1>6. nd.slotuse \in Nat /\ nd.slotkey \in [Slots(nd) -> Key] /\ KeyOf(i) \in Key
  BY <1>5, NodeFacts, GroupFacts
<1>7. rg.lo = rg.hi /\ rg.lo = find_lower(nd, KeyOf(i))
  BY <1>4, <1>5, <1>6, OnePointLeft
<1> QED  BY <1>5, <1>7

LEMMA DescendStep ==
  ASSUME IInv, Descend
  PROVE  IInv' /\ Settled' = Settled
<1>1. /\ UNCHANGED <<args, outs, batch_start, step>> /\ HalveAll
      /\ pc = "inner" /\ pc' = "level" /\ ~(step < INNER_STEPS - 1)
      /\ curr_nodes' = [i \in Group |-> IF i \in InBatch THEN Node(curr_nodes[i]).childid[Halved(i).lo]
                                        ELSE curr_nodes[i]]
  BY DEF Descend
<1>2. /\ n' = n /\ NodeIds(tree)' = NodeIds(tree) /\ (NothingToDo' <=> NothingToDo)
      /\ InBatch' = InBatch /\ OutsTypeOK' /\ SettledRight' /\ Settled' = Settled
      /\ tree' = tree
      /\ \A v : Node(v)' = Node(v)
  BY <1>1, Quiet
<1>3. batch_start < n /\ 0 \in InBatch /\ WellFormed(tree) /\ ~IsLeafId(curr_nodes[0]) /\ ~NothingToDo
  BY <1>1, GroupFacts DEF IInv, Phases
<1>4. ASSUME NEW i \in InBatch
      PROVE  /\ curr_nodes'[i] \in NodeIds(tree)
             /\ tree.node[curr_nodes'[i]].level + 1 = Node(curr_nodes[0]).level
             /\ tree.node[curr_nodes'[i]].level \in Nat
             /\ OnPath(batch_start + i, curr_nodes'[i])
  <2>1. i \in Group /\ KeyOf(i) \in Key
    BY GroupFacts
  <2>2. curr_nodes'[i] = Child(Node(curr_nodes[i]), KeyOf(i))
    BY <1>1, <2>1, LastHalving DEF Child
  <2>3. /\ curr_nodes[i] \in NodeIds(tree) /\ ~IsLeafId(curr_nodes[i])
        /\ Node(curr_nodes[i]).level = Node(curr_nodes[0]).level
    BY <1>1, <1>3, NodeFacts DEF IsLeafId
  <2>4. OnPath(batch_start + i, curr_nodes[i])
    BY <1>1 DEF IInv, GroupInStep
  <2>5. PICK v, c, key : v = curr_nodes[i] /\ c = curr_nodes'[i] /\ key = KeyOf(i)
    OBVIOUS
  <2>6. /\ v \in NodeIds(tree) /\ ~isleafnode(tree.node[v]) /\ key \in Key
        /\ tree.lo[v] < key /\ key <= tree.hi[v] /\ c = Child(tree.node[v], key)
    BY <2>1, <2>2, <2>3, <2>4, <2>5 DEF IsLeafId, Node, OnPath, KeyOf
  <2>7. /\ c \in NodeIds(tree) /\ tree.node[c].level + 1 = tree.node[v].level
        /\ tree.lo[c] < key /\ key <= tree.hi[c]
    BY <1>3, <2>6, DescentStep
  <2>8. tree.node[c].level \in Nat
    BY <1>3, <2>7 DEF WellFormed, NodeOK
  <2> QED  BY <2>3, <2>5, <2>7, <2>8 DEF OnPath, KeyOf, Node
<1>5. curr_nodes' \in [Group -> NodeIds(tree) \cup {NULL}]
  <2>1. curr_nodes \in [Group -> NodeIds(tree) \cup {NULL}]
    BY DEF IInv, TypeOK
  <2>2. /\ \A i \in Group : i \notin InBatch => curr_nodes'[i] = curr_nodes[i]
        /\ DOMAIN curr_nodes' = Group /\ curr_nodes' = [i \in Group |-> curr_nodes'[i]]
    BY <1>1
  <2> QED  BY <1>4, <2>1, <2>2
<1>6. StepsLeft \in 1 .. INNER_STEPS + LEAF_STEPS
  BY <1>1, <1>3, LastHalving
<1>7. TypeOK'
  BY <1>1, <1>2, <1>5, <1>6, RangesHalved DEF IInv, TypeOK
<1>8. Phases'
  BY <1>1, <1>2, <1>3 DEF Phases
<1>9. GroupInStep'
  <2>1. ASSUME NEW i \in InBatch'
        PROVE  /\ curr_nodes'[i] \in NodeIds(tree)'
               /\ Node(curr_nodes[i])'.level = Node(curr_nodes[0])'.level
               /\ OnPath(batch_start + i, curr_nodes[i])'
    <3>1. i \in InBatch
      BY <1>2, <2>1
    <3>2. PICK a, b, top : /\ a = tree.node[curr_nodes'[i]].level
                           /\ b = tree.node[curr_nodes'[0]].level
                           /\ top = Node(curr_nodes[0]).level
      OBVIOUS
    <3>3. a \in Nat /\ b \in Nat /\ a + 1 = top /\ b + 1 = top
      BY <1>3, <1>4, <3>1, <3>2
    <3>4. a = b
      BY <3>3
    <3>5. curr_nodes'[i] \in NodeIds(tree) /\ OnPath(batch_start + i, curr_nodes'[i])
      BY <1>4, <3>1
    <3> QED  BY <1>1, <1>2, <3>2, <3>4, <3>5 DEF Node, OnPath, KeyAt, args
  <2> QED  BY <2>1 DEF GroupInStep
<1>10. RangesNarrow'
  BY <1>1 DEF RangesNarrow
<1> QED  BY <1>2, <1>7, <1>8, <1>9, <1>10 DEF IInv

(* Gathering from slots that are lower bounds is answering at the leaves. *)
LEMMA GatherIsWrite ==
  ASSUME NEW reached, NEW slot, Gather(reached, slot),
         \A q \in DOMAIN reached : slot[q] = find_lower(Node(reached[q]), KeyAt(q))
  PROVE  WriteAnswers(reached)
BY DEF Gather, WriteAnswers, Hit, Data

(* Collect answers exactly the queries of the group. *)
LEMMA CollectStep ==
  ASSUME IInv, Collect
  PROVE  /\ IInv'
         /\ \E Qs \in SUBSET (QueryIdx \ Settled) :
               /\ Qs # {}
               /\ Settled' = Settled \cup Qs
               /\ \A r \in QueryIdx \ Qs : found'[r] = found[r] /\ results'[r] = results[r]
<1> DEFINE Qs == {batch_start + i : i \in InBatch}
           reached == [q \in Qs |-> curr_nodes[q - batch_start]]
           slot == [q \in Qs |-> range[q - batch_start].lo]
<1>1. /\ UNCHANGED <<args, curr_nodes, range, step>> /\ Gather(reached, slot)
      /\ batch_start' = batch_start + GROUP_SIZE
      /\ pc = "leaf" /\ pc' = "group" /\ ~(step < LEAF_STEPS)
  BY DEF Collect
<1>2. /\ n \in Nat /\ batch_start \in Nat /\ GROUP_SIZE \in Nat \ {0}
      /\ OutsTypeOK /\ IsLeafId(curr_nodes[0]) /\ ~NothingToDo
      /\ batch_start < n /\ 0 \in InBatch
  BY <1>1, GroupFacts DEF IInv, Phases, TypeOK
<1>3. Qs \subseteq QueryIdx \ Settled /\ Qs # {}
  BY <1>2, GroupFacts
<1>4. ASSUME NEW q \in Qs
      PROVE  /\ reached[q] \in NodeIds(tree) /\ IsLeafId(reached[q])
             /\ OnPath(q, reached[q]) /\ Unanswered(q)
             /\ slot[q] = find_lower(Node(reached[q]), KeyAt(q))
  <2>1. PICK i \in InBatch : q = batch_start + i
    OBVIOUS
  <2>2. i \in Int
    BY DEF InBatch, Group
  <2>3. q - batch_start = i
    BY <1>2, <2>1, <2>2
  <2>4. reached[q] = curr_nodes[i] /\ slot[q] = range[i].lo
    BY <2>3
  <2>5. /\ curr_nodes[i] \in NodeIds(tree) /\ IsLeafId(curr_nodes[i])
        /\ OnPath(batch_start + i, curr_nodes[i]) /\ Unanswered(batch_start + i)
    BY <1>1, <1>2, NodeFacts, GroupFacts DEF IsLeafId, IInv, GroupInStep
  <2>6. range[i].lo = find_lower(Node(curr_nodes[i]), KeyAt(q))
    BY <1>1, <2>1, LeafSettled DEF KeyOf
  <2> QED  BY <2>1, <2>4, <2>5, <2>6
<1>5. DOMAIN reached = Qs
  OBVIOUS
<1> HIDE DEF reached, slot
<1>6. WriteAnswers(reached)
  BY <1>1, <1>4, <1>5, GatherIsWrite
<1>7. /\ OutsTypeOK' /\ QueryIdx' = QueryIdx
      /\ \A q \in Qs : RightAnswer(q)'
      /\ \A q \in QueryIdx \ Qs : found'[q] = found[q] /\ results'[q] = results[q]
  BY <1>1, <1>2, <1>3, <1>4, <1>5, <1>6, LeavesGiveRightAnswers
<1>8. Settled' = Settled \cup Qs
  <2>1. Settled' = {q \in QueryIdx : q < batch_start + GROUP_SIZE}
    BY <1>1, <1>7 DEF Settled
  <2>2. ASSUME NEW q \in QueryIdx, q < batch_start + GROUP_SIZE, ~(q < batch_start)
        PROVE  q \in Qs
    <3>1. q - batch_start \in InBatch /\ q = batch_start + (q - batch_start)
      BY <1>2, <2>2 DEF InBatch, Group, QueryIdx
    <3> QED  BY <3>1
  <2>3. ASSUME NEW q \in Qs
        PROVE  q \in QueryIdx /\ q < batch_start + GROUP_SIZE
    <3>1. PICK i \in InBatch : q = batch_start + i
      OBVIOUS
    <3>2. i \in 0 .. GROUP_SIZE - 1
      BY DEF InBatch, Group
    <3> QED  BY <1>2, <1>3, <3>1, <3>2
  <2>4. \A q \in Settled : q \in QueryIdx /\ q < batch_start + GROUP_SIZE
    BY <1>2 DEF Settled, QueryIdx
  <2>5. Settled' \subseteq Settled \cup Qs
    BY <2>1, <2>2 DEF Settled
  <2>6. Settled \cup Qs \subseteq Settled'
    BY <2>1, <2>3, <2>4
  <2> QED  BY <2>5, <2>6
<1>9. TypeOK'
  <2>1. NodeIds(tree)' = NodeIds(tree)
    BY <1>1 DEF args, NodeIds
  <2> QED  BY <1>1, <1>2, <1>7, <2>1 DEF IInv, TypeOK
<1>10. Phases'
  BY <1>1, <1>2 DEF Phases, NothingToDo, args, n
<1>11. GroupInStep' /\ RangesNarrow'
  BY <1>1 DEF GroupInStep, RangesNarrow
<1>12. SettledRight'
  <2>1. ASSUME NEW q \in QueryIdx, q \in Settled
        PROVE  RightAnswer(q)'
    <3>1. RightAnswer(q) /\ q \notin Qs
      BY <1>3, <2>1 DEF IInv, SettledRight
    <3>2. found'[q] = found[q] /\ results'[q] = results[q]
      BY <1>7, <3>1
    <3>3. tree' = tree /\ queries' = queries
      BY <1>1 DEF args
    <3> QED  BY <3>1, <3>2, <3>3 DEF RightAnswer, Present, KeyAt
  <2>2. ASSUME NEW q \in QueryIdx, q \notin Settled, q \notin Qs
        PROVE  Unanswered(q)'
    <3>1. Unanswered(q)
      BY <2>2 DEF IInv, SettledRight
    <3> QED  BY <1>7, <2>2, <3>1 DEF Unanswered
  <2> QED  BY <1>7, <1>8, <2>1, <2>2 DEF SettledRight
<1>13. IInv'
  BY <1>9, <1>10, <1>11, <1>12 DEF IInv
<1> QED  BY <1>3, <1>7, <1>8, <1>13

LEMMA StepIInv ==
  ASSUME IInv, [Next]_vars
  PROVE  IInv'
<1>1. CASE Start
  BY <1>1, StartStep
<1>2. CASE NextGroup
  BY <1>2, NextGroupStep
<1>3. CASE BeginInner
  BY <1>3, BeginInnerStep
<1>4. CASE HalveInner
  BY <1>4, HalveInnerStep
<1>5. CASE Descend
  BY <1>5, DescendStep
<1>6. CASE BeginLeaf
  BY <1>6, BeginLeafStep
<1>7. CASE HalveLeaf
  BY <1>7, HalveLeafStep
<1>8. CASE Collect
  BY <1>8, CollectStep
<1>9. CASE UNCHANGED vars
  <2>1. /\ UNCHANGED <<args, outs, batch_start, curr_nodes, range, step>> /\ pc' = pc
        /\ tree' = tree /\ queries' = queries
    BY <1>9 DEF vars, args, outs
  <2>2. /\ n' = n /\ NodeIds(tree)' = NodeIds(tree) /\ (NothingToDo' <=> NothingToDo)
        /\ InBatch' = InBatch /\ OutsTypeOK' /\ SettledRight'
    BY <2>1, Quiet
  <2>3. TypeOK'
    BY <2>1, <2>2 DEF IInv, TypeOK
  <2>4. Phases'
    BY <2>1, <2>2 DEF IInv, Phases, IsLeafId, Node
  <2>5. GroupInStep'
    BY <2>1, <2>2 DEF IInv, GroupInStep, Node, OnPath, KeyAt
  <2>6. RangesNarrow'
    BY <2>1, <2>2 DEF IInv, RangesNarrow, StepsLeft, Node, KeyOf, KeyAt, Searching
  <2> QED  BY <2>2, <2>3, <2>4, <2>5, <2>6 DEF IInv
<1> QED  BY <1>1, <1>2, <1>3, <1>4, <1>5, <1>6, <1>7, <1>8, <1>9 DEF Next, Returned

-----------------------------------------------------------------------------
(* What the invariant gives.                                               *)

LEMMA IInvImpliesRangeHoldsBound == IInv => RangeHoldsBound
<1> SUFFICES ASSUME IInv, pc \in {"inner", "leaf"}, NEW i \in InBatch
             PROVE  LET bound == find_lower(Node(curr_nodes[i]), KeyOf(i))
                    IN  range[i].lo <= bound /\ bound <= range[i].hi
  BY DEF RangeHoldsBound
<1>1. PICK nd, rg : nd = Node(curr_nodes[i]) /\ rg = range[i]
  OBVIOUS
<1>2. nd.slotuse \in Nat /\ nd.slotkey \in [Slots(nd) -> Key] /\ KeyOf(i) \in Key
  BY <1>1, NodeFacts, GroupFacts
<1>3. Searching(nd, KeyOf(i), rg)
  BY <1>1 DEF IInv, RangesNarrow
<1>4. rg.lo <= find_lower(nd, KeyOf(i)) /\ find_lower(nd, KeyOf(i)) <= rg.hi
  BY <1>2, <1>3, SearchingHoldsBound
<1> QED  BY <1>1, <1>4

LEMMA IInvImpliesStepsSuffice == IInv => StepsSuffice
<1> SUFFICES ASSUME IInv, NEW i \in InBatch
             PROVE  /\ pc = "inner" /\ step = INNER_STEPS - 1 => Halved(i).lo = Halved(i).hi
                    /\ pc = "leaf" /\ step = LEAF_STEPS => range[i].lo = range[i].hi
  BY DEF StepsSuffice
<1>1. INNER_STEPS \in Nat /\ LEAF_STEPS \in Nat
  BY StepCounts
<1>2. ASSUME pc = "inner", step = INNER_STEPS - 1
      PROVE  Halved(i).lo = Halved(i).hi
  BY <1>1, <1>2, LastHalving
<1>3. ASSUME pc = "leaf", step = LEAF_STEPS
      PROVE  range[i].lo = range[i].hi
  BY <1>1, <1>3, LeafSettled
<1> QED  BY <1>2, <1>3

(* When the call has returned after real work, every group is settled. *)
LEMMA AllSettledAtReturn ==
  ASSUME IInv, batch_start >= n
  PROVE  Settled = QueryIdx
<1>1. n \in Nat /\ batch_start \in Nat
  BY GroupFacts
<1> QED  BY <1>1 DEF Settled, QueryIdx

LEMMA IInvImpliesAnswersRight == IInv => AnswersRight
<1> SUFFICES ASSUME IInv, NEW q \in QueryIdx
             PROVE  IF q \in Answered THEN RightAnswer(q) ELSE Unanswered(q)
  BY DEF AnswersRight
<1>1. IF q \in Settled THEN RightAnswer(q) ELSE Unanswered(q)
  BY DEF IInv, SettledRight
<1>2. CASE pc # "returned"
  BY <1>1, <1>2 DEF Answered
<1>3. CASE pc = "returned" /\ NothingToDo
  <2>1. Unanswered(q) \/ RightAnswer(q)
    BY <1>1
  <2> QED  BY <1>3, <2>1, NothingToDoIsRight DEF Answered, IInv, TypeOK
<1>4. CASE pc = "returned" /\ ~NothingToDo
  BY <1>1, <1>4, AllSettledAtReturn DEF Answered, IInv, Phases
<1> QED  BY <1>2, <1>3, <1>4

-----------------------------------------------------------------------------
(* The theorems.                                                           *)

LEMMA Invariance == Spec => []IInv
<1>1. Init => IInv
  BY InitIInv
<1>2. IInv /\ [Next]_vars => IInv'
  BY StepIInv
<1> QED  BY <1>1, <1>2, PTL DEF Spec

(* Pointers, ranges, counters and output vectors keep their types. *)
THEOREM TypeCorrect == Spec => []TypeOK
<1>1. IInv => TypeOK
  BY DEF IInv
<1> QED  BY <1>1, Invariance, PTL

(* Asking the first query of a group whether it stands at a leaf answers   *)
(* for the whole group, in every tree.                                     *)
THEOREM OneLevelPerGroup == Spec => []GroupInStep
<1>1. IInv => GroupInStep
  BY DEF IInv
<1> QED  BY <1>1, Invariance, PTL

(* No halving ever loses the lower bound. *)
THEOREM BoundNeverLost == Spec => []RangeHoldsBound
BY Invariance, IInvImpliesRangeHoldsBound, PTL

(* The number of steps calc_steps gives for a capacity is enough for every *)
(* node within that capacity.                                              *)
THEOREM CalcStepsSuffices == Spec => []StepsSuffice
BY Invariance, IInvImpliesStepsSuffice, PTL

(* Every answer given is the right one, and no other entry has been touched. *)
THEOREM EveryAnswerRight == Spec => []AnswersRight
BY Invariance, IInvImpliesAnswersRight, PTL

(* All the parts together: groups, ranges and answers always agree. *)
THEOREM StaysExact == Spec => []GroupExact
BY TypeCorrect, OneLevelPerGroup, BoundNeverLost, CalcStepsSuffices, EveryAnswerRight, PTL DEF GroupExact

-----------------------------------------------------------------------------
(* The groups implement the abstract batch lookup.                         *)

LEMMA InitRefines == Init => Abstract!Init
<1> SUFFICES ASSUME Init PROVE Abstract!Init
  OBVIOUS
<1>1. OutsTypeOK /\ Settled = {}
  BY InitIInv DEF IInv, TypeOK
<1>2. Answered = {}
  BY <1>1 DEF Init, Answered
<1> QED  BY <1>1, <1>2, AbstractTypes
         DEF Init, ArgsAndOutsInit, Abstract!Init, Abstract!Positions, QueryIdx, n

LEMMA StepRefines ==
  ASSUME IInv, [Next]_vars
  PROVE  [Abstract!Next]_(Abstract!vars)
<1>1. IInv'
  BY StepIInv
<1>2. ASSUME UNCHANGED <<args, outs>>, Answered' = Answered
      PROVE  UNCHANGED Abstract!vars
  <2>1. tree' = tree /\ queries' = queries /\ found' = found /\ results' = results
    BY <1>2 DEF args, outs
  <2>2. Stored(tree)' = Stored(tree)
    BY <2>1 DEF Stored, Leaves, NodeIds, Slots, isleafnode
  <2> QED  BY <1>2, <2>1, <2>2 DEF Abstract!vars
<1>3. ASSUME UNCHANGED args, Answered \subseteq Answered', Answered' \subseteq QueryIdx,
             \A q \in Answered' \ Answered : RightAnswer(q)',
             \A q \in QueryIdx \ (Answered' \ Answered) :
                  found'[q] = found[q] /\ results'[q] = results[q],
             Answered # Answered'
      PROVE  Abstract!Answer
  <2>1. tree' = tree /\ queries' = queries
    BY <1>3 DEF args
  <2>2. Stored(tree)' = Stored(tree) /\ QueryIdx' = QueryIdx
    BY <2>1 DEF Stored, Leaves, NodeIds, Slots, isleafnode, QueryIdx, n
  <2>3. Abstract!Positions = QueryIdx
    BY DEF Abstract!Positions, QueryIdx, n
  <2>4. ASSUME NEW q \in Answered' \ Answered PROVE Abstract!RightAnswer(q)'
    <3>1. RightAnswer(q)'
      BY <1>3
    <3> QED  BY <3>1 DEF RightAnswer, Present, KeyAt, Abstract!RightAnswer, Abstract!KeyAt
  <2>5. DOMAIN found' = QueryIdx /\ DOMAIN results' = QueryIdx
    BY <1>1, <2>2 DEF IInv, TypeOK, OutsTypeOK
  <2> QED  BY <1>3, <2>1, <2>2, <2>3, <2>4, <2>5 DEF Abstract!Answer
<1>4. CASE Start
  <2>1. UNCHANGED <<args, outs>> /\ pc = "start" /\ pc' \in {"returned", "group"}
    BY <1>4 DEF Start
  <2>2. Settled = {} /\ Answered = {} /\ Settled' = {}
    BY <1>4, <2>1, StartStep DEF Answered
  <2>3. CASE NothingToDo
    <3>1. Answered' = QueryIdx /\ QueryIdx' = QueryIdx
      BY <1>4, <2>1, <2>3, OutsUnchanged DEF Start, Answered
    <3>2. \A q \in QueryIdx : RightAnswer(q)'
      BY <2>1, <2>2, <2>3, OutsUnchanged, NothingToDoIsRight DEF IInv, TypeOK, SettledRight
    <3>3. found' = found /\ results' = results
      BY <2>1 DEF outs
    <3>4. CASE QueryIdx = {}
      BY <1>2, <2>1, <2>2, <3>1, <3>4
    <3>5. CASE QueryIdx # {}
      BY <1>3, <2>1, <2>2, <3>1, <3>2, <3>3, <3>5 DEF Abstract!Next
    <3> QED  BY <3>4, <3>5
  <2>4. CASE ~NothingToDo
    <3>1. pc' = "group"
      BY <1>4, <2>4 DEF Start
    <3> QED  BY <1>2, <2>1, <2>2, <3>1 DEF Answered
  <2> QED  BY <2>3, <2>4
<1>5. CASE BeginInner \/ HalveInner \/ Descend \/ BeginLeaf \/ HalveLeaf
  <2>1. UNCHANGED <<args, outs>> /\ pc # "returned" /\ pc' # "returned"
    BY <1>5 DEF BeginInner, HalveInner, Descend, BeginLeaf, HalveLeaf
  <2>2. Settled' = Settled
    BY <1>5, BeginInnerStep, HalveInnerStep, DescendStep, BeginLeafStep, HalveLeafStep
  <2> QED  BY <1>2, <2>1, <2>2 DEF Answered
<1>6. CASE NextGroup
  <2>1. UNCHANGED <<args, outs>> /\ pc = "group" /\ Settled' = Settled
    BY <1>6, NextGroupStep DEF NextGroup
  <2>2. CASE batch_start < n
    <3>1. pc' = "level"
      BY <1>6, <2>2 DEF NextGroup
    <3> QED  BY <1>2, <2>1, <3>1 DEF Answered
  <2>3. CASE ~(batch_start < n)
    <3>1. pc' = "returned" /\ QueryIdx' = QueryIdx
      BY <1>6, <2>1, <2>3, OutsUnchanged DEF NextGroup
    <3>2. n \in Nat /\ batch_start \in Nat
      BY GroupFacts
    <3>3. Settled = QueryIdx
      BY <2>3, <3>2, AllSettledAtReturn
    <3> QED  BY <1>2, <2>1, <3>1, <3>3 DEF Answered
  <2> QED  BY <2>2, <2>3
<1>7. CASE Collect
  <2>1. UNCHANGED args /\ pc = "leaf" /\ pc' = "group"
    BY <1>7 DEF Collect
  <2>2. PICK Qs \in SUBSET (QueryIdx \ Settled) :
           /\ Qs # {} /\ Settled' = Settled \cup Qs
           /\ \A r \in QueryIdx \ Qs : found'[r] = found[r] /\ results'[r] = results[r]
    BY <1>7, CollectStep
  <2>3. Answered = Settled /\ Answered' = Settled \cup Qs
    BY <2>1, <2>2 DEF Answered
  <2>4. QueryIdx' = QueryIdx /\ Settled \subseteq QueryIdx
    BY <2>1 DEF QueryIdx, n, args, Settled
  <2>5. \A q \in Qs : RightAnswer(q)'
    BY <1>1, <2>2, <2>4 DEF IInv, SettledRight
  <2>6. Answered' \ Answered = Qs
    BY <2>2, <2>3
  <2>7. Answered \subseteq Answered' /\ Answered' \subseteq QueryIdx /\ Answered # Answered'
    BY <2>2, <2>3, <2>4, <2>6
  <2>8. Abstract!Answer
    BY <1>3, <2>1, <2>2, <2>5, <2>6, <2>7
  <2> QED  BY <2>8 DEF Abstract!Next
<1>8. CASE UNCHANGED vars
  <2>1. UNCHANGED <<args, outs, batch_start>> /\ pc' = pc
    BY <1>8 DEF vars, args, outs
  <2>2. Answered' = Answered
    BY <2>1, Quiet DEF Answered
  <2> QED  BY <1>2, <2>1, <2>2
<1> QED  BY <1>4, <1>5, <1>6, <1>7, <1>8 DEF Next, Returned

(* GroupPrefetch implements the abstract batch lookup: it answers the      *)
(* queries of a whole group at a time, or all at once when there is no tree. *)
THEOREM Refinement == Spec => RefinesBatchLookup
<1>1. Init => Abstract!Init
  BY InitRefines
<1>2. IInv /\ [Next]_vars => [Abstract!Next]_(Abstract!vars)
  BY StepRefines
<1> QED  BY <1>1, <1>2, Invariance, PTL DEF Spec, RefinesBatchLookup, Abstract!SafeSpec

-----------------------------------------------------------------------------
(* The others: what they share with the lookups above.                     *)

(* The lemmas about lookups, for the outputs the other four share. *)
Lookup == INSTANCE BTreeLookup_proofs WITH found <- v_found, results <- v_results

(* Lookup and the instances of the others import the same definitions. *)
LEMMA LookupSameTrees ==
  \A t : /\ Lookup!WellFormed(t) <=> WellFormed(t)
         /\ Lookup!NodeIds(t) = NodeIds(t)
         /\ Lookup!Stored(t) = Stored(t)
BY DEF Lookup!WellFormed, WellFormed, Lookup!NodeOK, NodeOK, Lookup!ChildrenOK, ChildrenOK,
       Lookup!LeafOwns, LeafOwns, Lookup!Sorted, Sorted, Lookup!Slots, Slots,
       Lookup!isleafnode, isleafnode, Lookup!NodeIds, NodeIds,
       Lookup!Stored, Stored, Lookup!Leaves, Leaves

LEMMA LookupCounts ==
  \A S : Lookup!Cardinality(S) = Cardinality(S) /\ (Lookup!IsFiniteSet(S) <=> IsFiniteSet(S))
BY DEF Lookup!Cardinality, Cardinality, Lookup!IsFiniteSet, IsFiniteSet

-----------------------------------------------------------------------------
(* NoPrefetch: the operators and the lemmas it has from the lookup.        *)

LEMMA BaselineSameTrees ==
  \A t : /\ Baseline!WellFormed(t) <=> WellFormed(t)
         /\ Baseline!NodeIds(t) = NodeIds(t)
         /\ Baseline!Stored(t) = Stored(t)
BY DEF Baseline!WellFormed, WellFormed, Baseline!NodeOK, NodeOK, Baseline!ChildrenOK, ChildrenOK,
       Baseline!LeafOwns, LeafOwns, Baseline!Sorted, Sorted, Baseline!Slots, Slots,
       Baseline!isleafnode, isleafnode, Baseline!NodeIds, NodeIds,
       Baseline!Stored, Stored, Baseline!Leaves, Leaves

LEMMA BaselineSameChild ==
  \A nd, key : /\ Baseline!Child(nd, key) = Child(nd, key)
               /\ Baseline!isleafnode(nd) <=> isleafnode(nd)
BY DEF Baseline!Child, Child, Baseline!find_lower, find_lower,
       Baseline!IsLowerBound, IsLowerBound, Baseline!isleafnode, isleafnode

LEMMA BaselineSame ==
  /\ \A t : Baseline!WellFormed(t) <=> Lookup!WellFormed(t)
  /\ Baseline!n = Lookup!n /\ Baseline!QueryIdx = Lookup!QueryIdx
  /\ Baseline!args = Lookup!args /\ Baseline!outs = Lookup!outs
  /\ Baseline!n' = Lookup!n' /\ Baseline!QueryIdx' = Lookup!QueryIdx'
  /\ Baseline!args' = Lookup!args' /\ Baseline!outs' = Lookup!outs'
  /\ Baseline!NodeIds(tree) = Lookup!NodeIds(tree) /\ Baseline!NodeIds(tree)' = Lookup!NodeIds(tree)'
  /\ Baseline!Stored(tree) = Lookup!Stored(tree)
  /\ Baseline!OutsTypeOK <=> Lookup!OutsTypeOK
  /\ Baseline!OutsTypeOK' <=> Lookup!OutsTypeOK'
  /\ Baseline!NothingToDo <=> Lookup!NothingToDo
  /\ Baseline!NothingToDo' <=> Lookup!NothingToDo'
  /\ \A q : /\ Baseline!RightAnswer(q) <=> Lookup!RightAnswer(q)
            /\ Baseline!RightAnswer(q)' <=> Lookup!RightAnswer(q)'
            /\ Baseline!Unanswered(q) <=> Lookup!Unanswered(q)
            /\ Baseline!Unanswered(q)' <=> Lookup!Unanswered(q)'
            /\ Baseline!KeyAt(q) = Lookup!KeyAt(q)
            /\ Baseline!KeyAt(q)' = Lookup!KeyAt(q)'
  /\ \A q, v : /\ Baseline!OnPath(q, v) <=> Lookup!OnPath(q, v)
               /\ Baseline!OnPath(q, v)' <=> Lookup!OnPath(q, v)'
               /\ Baseline!IsLeafId(v) <=> Lookup!IsLeafId(v)
  /\ \A reached : Baseline!WriteAnswers(reached) <=> Lookup!WriteAnswers(reached)
<1>1. \A t : Baseline!WellFormed(t) <=> Lookup!WellFormed(t)
  BY BaselineSameTrees, LookupSameTrees
<1>2. \A reached : Baseline!WriteAnswers(reached) <=> Lookup!WriteAnswers(reached)
  BY DEF Baseline!WriteAnswers, Lookup!WriteAnswers, Baseline!Hit, Lookup!Hit, Baseline!Data, Lookup!Data,
         Baseline!find_lower, Lookup!find_lower, Baseline!IsLowerBound, Lookup!IsLowerBound,
         Baseline!KeyAt, Lookup!KeyAt, Baseline!QueryIdx, Lookup!QueryIdx, Baseline!n, Lookup!n,
         Baseline!Node, Lookup!Node
<1> QED
  BY <1>1, <1>2
  DEF Baseline!OutsTypeOK, Lookup!OutsTypeOK, Baseline!n, Lookup!n, Baseline!QueryIdx, Lookup!QueryIdx,
      Baseline!RightAnswer, Lookup!RightAnswer, Baseline!Present, Lookup!Present,
      Baseline!Stored, Lookup!Stored, Baseline!Leaves, Lookup!Leaves, Baseline!KeyAt, Lookup!KeyAt,
      Baseline!NodeIds, Lookup!NodeIds, Baseline!Slots, Lookup!Slots, Baseline!isleafnode, Lookup!isleafnode,
      Baseline!args, Lookup!args, Baseline!outs, Lookup!outs, Baseline!NothingToDo, Lookup!NothingToDo,
      Baseline!Unanswered, Lookup!Unanswered, Baseline!OnPath, Lookup!OnPath,
      Baseline!IsLeafId, Lookup!IsLeafId, Baseline!Node, Lookup!Node

LEMMA BaselineCounts == \A S : Baseline!Cardinality(S) = Cardinality(S)
BY DEF Baseline!Cardinality, Cardinality

LEMMA BaselineArgsFacts ==
  ASSUME Baseline!OutsTypeOK
  PROVE  /\ Baseline!WellFormed(tree)
         /\ Baseline!n \in Nat
         /\ \A q \in Baseline!QueryIdx : Baseline!KeyAt(q) \in Key
BY BaselineSame, LookupSameTrees, Lookup!ArgsFacts, KeyAssumption, TreesAssumption, BatchesAssumption,
   StaleAssumption

LEMMA BaselinePositionsFinite ==
  ASSUME Baseline!OutsTypeOK, NEW S, S \subseteq Baseline!QueryIdx
  PROVE  /\ IsFiniteSet(S)
         /\ Cardinality(S) \in Nat
         /\ Cardinality(S) <= Baseline!n
         /\ Cardinality(S) = Baseline!n => S = Baseline!QueryIdx
BY BaselineSame, LookupSameTrees, LookupCounts, Lookup!PositionsFinite, KeyAssumption, TreesAssumption,
   BatchesAssumption, StaleAssumption

LEMMA BaselineLeavesGiveRightAnswers ==
  ASSUME Baseline!OutsTypeOK, NEW Qs, Qs \subseteq Baseline!QueryIdx, NEW reached, DOMAIN reached = Qs,
         \A q \in Qs : /\ reached[q] \in Baseline!NodeIds(tree) /\ Baseline!IsLeafId(reached[q])
                       /\ Baseline!OnPath(q, reached[q]) /\ Baseline!Unanswered(q),
         Baseline!WriteAnswers(reached), UNCHANGED Baseline!args
  PROVE  /\ Baseline!OutsTypeOK'
         /\ Baseline!QueryIdx' = Baseline!QueryIdx
         /\ \A q \in Qs : Baseline!RightAnswer(q)'
         /\ \A q \in Baseline!QueryIdx \ Qs : v_found'[q] = v_found[q] /\ v_results'[q] = v_results[q]
BY BaselineSame, LookupSameTrees, Lookup!LeavesGiveRightAnswers, KeyAssumption, TreesAssumption,
   BatchesAssumption, StaleAssumption

LEMMA BaselineOutsUnchanged ==
  ASSUME UNCHANGED <<Baseline!args, Baseline!outs>>
  PROVE  /\ Baseline!n' = Baseline!n /\ Baseline!QueryIdx' = Baseline!QueryIdx
         /\ Baseline!NodeIds(tree)' = Baseline!NodeIds(tree)
         /\ (Baseline!NothingToDo' <=> Baseline!NothingToDo)
         /\ (Baseline!OutsTypeOK => Baseline!OutsTypeOK')
         /\ \A q : /\ Baseline!RightAnswer(q)' <=> Baseline!RightAnswer(q)
                   /\ Baseline!Unanswered(q)' <=> Baseline!Unanswered(q)
                   /\ Baseline!KeyAt(q)' = Baseline!KeyAt(q)
         /\ \A q, v : Baseline!OnPath(q, v)' <=> Baseline!OnPath(q, v)
BY BaselineSame, LookupSameTrees, Lookup!OutsUnchanged, KeyAssumption, TreesAssumption,
   BatchesAssumption, StaleAssumption

LEMMA BaselineNothingToDoIsRight ==
  ASSUME Baseline!OutsTypeOK, Baseline!NothingToDo, NEW q \in Baseline!QueryIdx, Baseline!Unanswered(q)
  PROVE  Baseline!RightAnswer(q)
BY BaselineSame, LookupSameTrees, Lookup!NothingToDoIsRight, KeyAssumption, TreesAssumption,
   BatchesAssumption, StaleAssumption

LEMMA BaselineAbstractTypes ==
  ASSUME Baseline!OutsTypeOK
  PROVE  Baseline!Stored(tree) \in SUBSET (Key \X Value) /\ queries \in Seq(Key)
BY BaselineSame, LookupSameTrees, Lookup!AbstractTypes, KeyAssumption, TreesAssumption,
   BatchesAssumption, StaleAssumption

LEMMA BaselineDescentStep ==
  ASSUME NEW t, Baseline!WellFormed(t), NEW v \in Baseline!NodeIds(t), ~Baseline!isleafnode(t.node[v]),
         NEW key \in Key, t.lo[v] < key, key <= t.hi[v]
  PROVE  LET c == Baseline!Child(t.node[v], key)
         IN  /\ c \in Baseline!NodeIds(t)
             /\ t.node[c].level + 1 = t.node[v].level
             /\ t.lo[c] < key
             /\ key <= t.hi[c]
BY BaselineSameTrees, BaselineSameChild, DescentStep, KeyAssumption

-----------------------------------------------------------------------------
(* The inductive invariant of NoPrefetch.                                  *)

(* The call has a tree once its loop runs, and the query it is at stands on *)
(* the path of its key.                                                     *)
BaselinePhases ==
  /\ v_pc \in {"start", "loop", "descend", "returned"}
  /\ base_i \in Nat
  /\ v_pc = "start" => base_i = 0
  /\ v_pc \in {"loop", "descend"} => tree.root # NULL
  /\ v_pc = "descend" => base_i < Baseline!n /\ base_curr \in Baseline!NodeIds(tree) /\ Baseline!OnPath(base_i, base_curr)
  /\ v_pc = "returned" => tree.root = NULL \/ base_i >= Baseline!n

BaselineSettledRight ==
  \A q \in Baseline!QueryIdx : IF q \in Baseline!Settled THEN Baseline!RightAnswer(q) ELSE Baseline!Unanswered(q)

BaselineIInv == Baseline!OutsTypeOK /\ BaselinePhases /\ BaselineSettledRight

-----------------------------------------------------------------------------
(* The invariant is inductive.                                             *)

LEMMA BaselineInitIInv ==
  ASSUME Baseline!Init
  PROVE  BaselineIInv /\ Baseline!Settled = {}
<1>1. Baseline!OutsTypeOK
  BY DEF Baseline!Init, Baseline!ArgsAndOutsInit, Baseline!OutsTypeOK
<1>2. Baseline!n \in Nat
  BY <1>1, BaselineArgsFacts
<1>3. Baseline!Settled = {}
  BY <1>2 DEF Baseline!Init, Baseline!Settled, Baseline!QueryIdx
<1>4. BaselinePhases
  BY DEF Baseline!Init, BaselinePhases
<1>5. BaselineSettledRight
  BY <1>3 DEF Baseline!Init, Baseline!ArgsAndOutsInit, BaselineSettledRight, Baseline!Unanswered
<1> QED  BY <1>1, <1>3, <1>4, <1>5 DEF BaselineIInv

(* A step that leaves arguments, answers and the position in the batch alone. *)
LEMMA BaselineQuiet ==
  ASSUME BaselineIInv, UNCHANGED <<Baseline!args, Baseline!outs, base_i>>
  PROVE  /\ Baseline!n' = Baseline!n /\ Baseline!QueryIdx' = Baseline!QueryIdx
         /\ Baseline!NodeIds(tree)' = Baseline!NodeIds(tree)
         /\ tree' = tree /\ queries' = queries /\ Baseline!n \in Nat
         /\ Baseline!Settled' = Baseline!Settled /\ Baseline!OutsTypeOK' /\ BaselineSettledRight'
         /\ \A q, v : Baseline!OnPath(q, v)' <=> Baseline!OnPath(q, v)
<1>1. tree' = tree /\ queries' = queries /\ base_i' = base_i
  BY DEF Baseline!args
<1>2. /\ Baseline!n' = Baseline!n /\ Baseline!QueryIdx' = Baseline!QueryIdx
      /\ Baseline!NodeIds(tree)' = Baseline!NodeIds(tree)
      /\ Baseline!OutsTypeOK'
      /\ \A q : (Baseline!RightAnswer(q)' <=> Baseline!RightAnswer(q)) /\ (Baseline!Unanswered(q)' <=> Baseline!Unanswered(q))
      /\ \A q, v : Baseline!OnPath(q, v)' <=> Baseline!OnPath(q, v)
  BY BaselineOutsUnchanged DEF BaselineIInv
<1>3. Baseline!Settled' = Baseline!Settled
  BY <1>1, <1>2 DEF Baseline!Settled
<1>4. BaselineSettledRight'
  BY <1>2, <1>3 DEF BaselineIInv, BaselineSettledRight
<1>5. Baseline!n \in Nat
  BY BaselineArgsFacts DEF BaselineIInv
<1> QED  BY <1>1, <1>2, <1>3, <1>4, <1>5

LEMMA BaselineStartStep ==
  ASSUME BaselineIInv, Baseline!Start
  PROVE  BaselineIInv' /\ Baseline!Settled' = Baseline!Settled /\ Baseline!Settled = {}
<1>1. /\ UNCHANGED <<Baseline!args, Baseline!outs, base_i>> /\ v_pc = "start" /\ base_i = 0
      /\ v_pc' = IF tree.root = NULL THEN "returned" ELSE "loop"
  BY DEF Baseline!Start, BaselineIInv, BaselinePhases
<1>2. /\ Baseline!n \in Nat /\ tree' = tree /\ Baseline!OutsTypeOK' /\ BaselineSettledRight'
      /\ Baseline!Settled' = Baseline!Settled
  BY <1>1, BaselineQuiet
<1>3. BaselinePhases'
  BY <1>1, <1>2 DEF BaselinePhases
<1>4. Baseline!Settled = {}
  BY <1>1, <1>2 DEF Baseline!Settled, Baseline!QueryIdx
<1> QED  BY <1>2, <1>3, <1>4 DEF BaselineIInv

LEMMA BaselineBeginQueryStep ==
  ASSUME BaselineIInv, Baseline!BeginQuery
  PROVE  BaselineIInv' /\ Baseline!Settled' = Baseline!Settled
<1>1. /\ UNCHANGED <<Baseline!args, Baseline!outs, base_i>> /\ v_pc = "loop" /\ tree.root # NULL
      /\ base_i \in Nat
  BY DEF Baseline!BeginQuery, BaselineIInv, BaselinePhases
<1>2. /\ Baseline!n \in Nat /\ Baseline!n' = Baseline!n /\ tree' = tree /\ base_i' = base_i
      /\ Baseline!NodeIds(tree)' = Baseline!NodeIds(tree)
      /\ Baseline!OutsTypeOK' /\ BaselineSettledRight' /\ Baseline!Settled' = Baseline!Settled
      /\ \A q, v : Baseline!OnPath(q, v)' <=> Baseline!OnPath(q, v)
  BY <1>1, BaselineQuiet
<1>3. CASE base_i < Baseline!n
  <2>1. v_pc' = "descend" /\ base_curr' = tree.root
    BY <1>3 DEF Baseline!BeginQuery
  <2>2. tree.root \in Baseline!NodeIds(tree) /\ Baseline!OnPath(base_i, tree.root)
    <3>1. Baseline!WellFormed(tree) /\ base_i \in Baseline!QueryIdx /\ \A q \in Baseline!QueryIdx : Baseline!KeyAt(q) \in Key
      BY <1>1, <1>2, <1>3, BaselineArgsFacts DEF BaselineIInv, Baseline!QueryIdx
    <3> QED  BY <1>1, <3>1 DEF Baseline!WellFormed, Baseline!OnPath
  <2>3. Baseline!OnPath(base_i, base_curr)'
    BY <1>1, <1>2, <2>1, <2>2 DEF Baseline!OnPath, Baseline!KeyAt, Baseline!args
  <2> QED  BY <1>1, <1>2, <1>3, <2>1, <2>2, <2>3 DEF BaselineIInv, BaselinePhases
<1>4. CASE ~(base_i < Baseline!n)
  <2>1. v_pc' = "returned"
    BY <1>4 DEF Baseline!BeginQuery
  <2> QED  BY <1>1, <1>2, <1>4, <2>1 DEF BaselineIInv, BaselinePhases
<1> QED  BY <1>3, <1>4

LEMMA BaselineDescendStep ==
  ASSUME BaselineIInv, Baseline!Descend
  PROVE  BaselineIInv' /\ Baseline!Settled' = Baseline!Settled
<1>1. /\ UNCHANGED <<Baseline!args, Baseline!outs, v_pc, base_i>> /\ v_pc = "descend"
      /\ ~Baseline!IsLeafId(base_curr)
      /\ base_curr' = Baseline!Child(Baseline!Node(base_curr), Baseline!KeyAt(base_i))
      /\ tree.root # NULL /\ base_i \in Nat
      /\ base_i < Baseline!n /\ base_curr \in Baseline!NodeIds(tree)
      /\ Baseline!OnPath(base_i, base_curr)
  BY DEF Baseline!Descend, BaselineIInv, BaselinePhases
<1>2. /\ Baseline!n \in Nat /\ Baseline!n' = Baseline!n /\ tree' = tree /\ base_i' = base_i
      /\ Baseline!NodeIds(tree)' = Baseline!NodeIds(tree)
      /\ Baseline!OutsTypeOK' /\ BaselineSettledRight' /\ Baseline!Settled' = Baseline!Settled
  BY <1>1, BaselineQuiet
<1>3. Baseline!WellFormed(tree) /\ Baseline!KeyAt(base_i) \in Key
  <2>1. Baseline!WellFormed(tree) /\ \A q \in Baseline!QueryIdx : Baseline!KeyAt(q) \in Key
    BY BaselineArgsFacts DEF BaselineIInv
  <2>2. base_i \in Baseline!QueryIdx
    BY <1>1, <1>2 DEF Baseline!QueryIdx
  <2> QED  BY <2>1, <2>2
<1>4. base_curr' \in Baseline!NodeIds(tree) /\ Baseline!OnPath(base_i, base_curr')
  <2>1. /\ ~Baseline!isleafnode(tree.node[base_curr]) /\ tree.lo[base_curr] < Baseline!KeyAt(base_i)
        /\ Baseline!KeyAt(base_i) <= tree.hi[base_curr]
    BY <1>1 DEF Baseline!IsLeafId, Baseline!Node, Baseline!OnPath
  <2> QED  BY <1>1, <1>3, <2>1, BaselineDescentStep DEF Baseline!OnPath, Baseline!Node
<1>5. Baseline!OnPath(base_i, base_curr)'
  BY <1>1, <1>2, <1>4 DEF Baseline!OnPath, Baseline!KeyAt, Baseline!args
<1> QED  BY <1>1, <1>2, <1>4, <1>5 DEF BaselineIInv, BaselinePhases

(* A search of a leaf answers its query. *)
LEMMA BaselineSearchLeafStep ==
  ASSUME BaselineIInv, Baseline!SearchLeaf
  PROVE  /\ BaselineIInv'
         /\ \E q \in Baseline!QueryIdx \ Baseline!Settled :
               /\ Baseline!Settled' = Baseline!Settled \cup {q}
               /\ Baseline!RightAnswer(q)'
               /\ \A r \in Baseline!QueryIdx \ {q} : v_found'[r] = v_found[r] /\ v_results'[r] = v_results[r]
<1>1. PICK q : q = base_i
  OBVIOUS
<1>2. /\ UNCHANGED Baseline!args /\ v_pc = "descend" /\ v_pc' = "loop" /\ base_i' = q + 1
      /\ Baseline!IsLeafId(base_curr) /\ tree.root # NULL /\ q \in Nat /\ q < Baseline!n
      /\ base_curr \in Baseline!NodeIds(tree) /\ Baseline!OnPath(q, base_curr)
  BY <1>1 DEF Baseline!SearchLeaf, BaselineIInv, BaselinePhases
<1>3. Baseline!n \in Nat
  BY BaselineArgsFacts DEF BaselineIInv
<1>4. q \in Baseline!QueryIdx /\ q \notin Baseline!Settled
  BY <1>1, <1>2, <1>3 DEF Baseline!QueryIdx, Baseline!Settled
<1>5. PICK reached : reached = [r \in {q} |-> base_curr]
  OBVIOUS
<1>6. DOMAIN reached = {q} /\ reached[q] = base_curr /\ Baseline!WriteAnswers(reached)
  BY <1>1, <1>5 DEF Baseline!SearchLeaf
<1>7. Baseline!Unanswered(q)
  BY <1>4 DEF BaselineIInv, BaselineSettledRight
<1>8. \A r \in {q} : /\ reached[r] \in Baseline!NodeIds(tree) /\ Baseline!IsLeafId(reached[r])
                     /\ Baseline!OnPath(r, reached[r]) /\ Baseline!Unanswered(r)
  BY <1>2, <1>6, <1>7
<1>9. /\ Baseline!OutsTypeOK' /\ Baseline!QueryIdx' = Baseline!QueryIdx
      /\ Baseline!RightAnswer(q)'
      /\ \A r \in Baseline!QueryIdx \ {q} : v_found'[r] = v_found[r] /\ v_results'[r] = v_results[r]
  <2>1. {q} \subseteq Baseline!QueryIdx
    BY <1>4
  <2> QED  BY <1>2, <1>6, <1>8, <2>1, BaselineLeavesGiveRightAnswers DEF BaselineIInv
<1>10. Baseline!Settled' = Baseline!Settled \cup {q}
  <2>1. Baseline!Settled' = {r \in Baseline!QueryIdx : r < q + 1}
    BY <1>2, <1>9 DEF Baseline!Settled
  <2>2. \A r \in Baseline!QueryIdx : r < q + 1 <=> r < q \/ r = q
    BY <1>2, <1>3 DEF Baseline!QueryIdx
  <2> QED  BY <1>1, <1>4, <2>1, <2>2 DEF Baseline!Settled
<1>11. BaselineSettledRight'
  <2>1. tree' = tree /\ queries' = queries
    BY <1>2 DEF Baseline!args
  <2>2. ASSUME NEW r \in Baseline!QueryIdx, r # q
        PROVE  IF r \in Baseline!Settled' THEN Baseline!RightAnswer(r)' ELSE Baseline!Unanswered(r)'
    <3>1. r \in Baseline!Settled' <=> r \in Baseline!Settled
      BY <1>10, <2>2
    <3>2. v_found'[r] = v_found[r] /\ v_results'[r] = v_results[r]
      BY <1>9, <2>2
    <3>3. Baseline!Stored(tree)' = Baseline!Stored(tree) /\ Baseline!KeyAt(r)' = Baseline!KeyAt(r)
      BY <2>1
         DEF Baseline!Stored, Baseline!Leaves, Baseline!NodeIds, Baseline!Slots, Baseline!isleafnode,
             Baseline!KeyAt
    <3>4. Baseline!Present(tree, Baseline!KeyAt(r))' <=> Baseline!Present(tree, Baseline!KeyAt(r))
      BY <3>3 DEF Baseline!Present
    <3>5. IF r \in Baseline!Settled THEN Baseline!RightAnswer(r) ELSE Baseline!Unanswered(r)
      BY <2>2 DEF BaselineIInv, BaselineSettledRight
    <3> QED  BY <3>1, <3>2, <3>3, <3>4, <3>5 DEF Baseline!RightAnswer, Baseline!Unanswered
  <2>3. q \in Baseline!Settled' /\ Baseline!RightAnswer(q)'
    BY <1>9, <1>10
  <2> QED  BY <1>9, <2>2, <2>3 DEF BaselineSettledRight
<1>12. BaselinePhases'
  <2>1. tree' = tree
    BY <1>2 DEF Baseline!args
  <2> QED  BY <1>2, <2>1 DEF BaselinePhases
<1> QED  BY <1>4, <1>9, <1>10, <1>11, <1>12 DEF BaselineIInv

LEMMA BaselineStepIInv ==
  ASSUME BaselineIInv, [Baseline!Next]_(Baseline!vars)
  PROVE  BaselineIInv'
<1>1. CASE Baseline!Start       BY <1>1, BaselineStartStep
<1>2. CASE Baseline!BeginQuery  BY <1>2, BaselineBeginQueryStep
<1>3. CASE Baseline!Descend     BY <1>3, BaselineDescendStep
<1>4. CASE Baseline!SearchLeaf  BY <1>4, BaselineSearchLeafStep
<1>5. CASE UNCHANGED Baseline!vars
  <2>1. UNCHANGED <<Baseline!args, Baseline!outs, base_i>> /\ v_pc' = v_pc /\ base_curr' = base_curr
    BY <1>5 DEF Baseline!vars, Baseline!args, Baseline!outs
  <2>2. /\ Baseline!n' = Baseline!n /\ tree' = tree
        /\ Baseline!NodeIds(tree)' = Baseline!NodeIds(tree) /\ Baseline!OutsTypeOK'
        /\ BaselineSettledRight'
        /\ queries' = queries
    BY <2>1, BaselineQuiet
  <2>3. BaselinePhases'
    BY <2>1, <2>2 DEF BaselineIInv, BaselinePhases, Baseline!OnPath, Baseline!KeyAt
  <2> QED  BY <2>2, <2>3 DEF BaselineIInv
<1> QED  BY <1>1, <1>2, <1>3, <1>4, <1>5 DEF Baseline!Next, Baseline!Returned

-----------------------------------------------------------------------------
(* NoPrefetch takes steps of the abstract batch lookup.                    *)

LEMMA BaselineInitRefines == Baseline!Init => Baseline!Abstract!Init
<1> SUFFICES ASSUME Baseline!Init PROVE Baseline!Abstract!Init
  OBVIOUS
<1>1. Baseline!OutsTypeOK /\ Baseline!Settled = {} /\ v_pc = "start"
  BY BaselineInitIInv DEF BaselineIInv, Baseline!Init
<1>2. Baseline!Answered = {}
  BY <1>1 DEF Baseline!Answered
<1>3. v_found = [q \in Baseline!QueryIdx |-> FALSE] /\ v_results = [q \in Baseline!QueryIdx |-> Stale]
  BY DEF Baseline!Init, Baseline!ArgsAndOutsInit
<1> QED  BY <1>1, <1>2, <1>3, BaselineAbstractTypes
            DEF Baseline!Abstract!Init, Baseline!Abstract!Positions, Baseline!QueryIdx, Baseline!n

LEMMA BaselineAbstractStutter ==
  ASSUME UNCHANGED <<Baseline!args, Baseline!outs>>, Baseline!Answered' = Baseline!Answered
  PROVE  UNCHANGED Baseline!Abstract!vars
<1>1. tree' = tree /\ queries' = queries /\ v_found' = v_found /\ v_results' = v_results
  BY DEF Baseline!args, Baseline!outs
<1>2. Baseline!Stored(tree)' = Baseline!Stored(tree)
  BY <1>1 DEF Baseline!Stored, Baseline!Leaves, Baseline!NodeIds, Baseline!Slots, Baseline!isleafnode
<1> QED  BY <1>1, <1>2 DEF Baseline!Abstract!vars

LEMMA BaselineAbstractAnswer ==
  ASSUME Baseline!OutsTypeOK', UNCHANGED Baseline!args, Baseline!Answered \subseteq Baseline!Answered', Baseline!Answered' \subseteq Baseline!QueryIdx,
         \A q \in Baseline!Answered' \ Baseline!Answered : Baseline!RightAnswer(q)',
         \A q \in Baseline!QueryIdx \ (Baseline!Answered' \ Baseline!Answered) :
              v_found'[q] = v_found[q] /\ v_results'[q] = v_results[q],
         Baseline!Answered # Baseline!Answered'
  PROVE  Baseline!Abstract!Answer
<1>1. tree' = tree /\ queries' = queries
  BY DEF Baseline!args
<1>2. Baseline!Stored(tree)' = Baseline!Stored(tree) /\ Baseline!QueryIdx' = Baseline!QueryIdx
  BY <1>1
     DEF Baseline!Stored, Baseline!Leaves, Baseline!NodeIds, Baseline!Slots, Baseline!isleafnode,
         Baseline!QueryIdx, Baseline!n
<1>3. Baseline!Abstract!Positions = Baseline!QueryIdx
  BY DEF Baseline!Abstract!Positions, Baseline!QueryIdx, Baseline!n
<1>4. ASSUME NEW q \in Baseline!Answered' \ Baseline!Answered PROVE Baseline!Abstract!RightAnswer(q)'
  <2>1. Baseline!RightAnswer(q)'
    OBVIOUS
  <2> QED  BY <2>1
              DEF Baseline!RightAnswer, Baseline!Present, Baseline!KeyAt,
                  Baseline!Abstract!RightAnswer, Baseline!Abstract!KeyAt
<1>5. DOMAIN v_found' = Baseline!QueryIdx /\ DOMAIN v_results' = Baseline!QueryIdx
  BY <1>2 DEF Baseline!OutsTypeOK
<1> QED  BY <1>1, <1>2, <1>3, <1>4, <1>5 DEF Baseline!Abstract!Answer

LEMMA BaselineStepRefines ==
  ASSUME BaselineIInv, [Baseline!Next]_(Baseline!vars)
  PROVE  [Baseline!Abstract!Next]_(Baseline!Abstract!vars)
<1>1. BaselineIInv' /\ Baseline!OutsTypeOK'
  BY BaselineStepIInv DEF BaselineIInv
<1>2. CASE Baseline!Start
  <2>1. UNCHANGED <<Baseline!args, Baseline!outs>> /\ v_pc = "start"
        /\ v_pc' = IF tree.root = NULL THEN "returned" ELSE "loop"
    BY <1>2 DEF Baseline!Start
  <2>2. Baseline!Answered = {} /\ Baseline!Settled' = {} /\ Baseline!Settled = {}
    BY <1>2, <2>1, BaselineStartStep DEF Baseline!Answered
  <2>3. CASE tree.root = NULL
    <3>1. Baseline!Answered' = Baseline!QueryIdx /\ Baseline!QueryIdx' = Baseline!QueryIdx
      BY <2>1, <2>3, BaselineOutsUnchanged DEF Baseline!Answered
    <3>2. \A q \in Baseline!QueryIdx : Baseline!RightAnswer(q)'
      BY <2>1, <2>2, <2>3, BaselineOutsUnchanged, BaselineNothingToDoIsRight
         DEF BaselineIInv, BaselineSettledRight, Baseline!NothingToDo
    <3>3. v_found' = v_found /\ v_results' = v_results
      BY <2>1 DEF Baseline!outs
    <3>4. CASE Baseline!QueryIdx = {}
      BY <2>1, <2>2, <3>1, <3>4, BaselineAbstractStutter
    <3>5. CASE Baseline!QueryIdx # {}
      BY <1>1, <2>1, <2>2, <3>1, <3>2, <3>3, <3>5, BaselineAbstractAnswer DEF Baseline!Abstract!Next
    <3> QED  BY <3>4, <3>5
  <2>4. CASE tree.root # NULL
    BY <2>1, <2>2, <2>4, BaselineAbstractStutter DEF Baseline!Answered
  <2> QED  BY <2>3, <2>4
<1>3. CASE Baseline!BeginQuery
  <2>1. /\ UNCHANGED <<Baseline!args, Baseline!outs>> /\ v_pc = "loop"
        /\ Baseline!Settled' = Baseline!Settled /\ Baseline!QueryIdx' = Baseline!QueryIdx
    BY <1>3, BaselineBeginQueryStep, BaselineOutsUnchanged DEF Baseline!BeginQuery
  <2>2. Baseline!n \in Nat /\ base_i \in Nat
    BY BaselineArgsFacts DEF BaselineIInv, BaselinePhases
  <2>3. CASE base_i < Baseline!n
    <3>1. v_pc' = "descend"
      BY <1>3, <2>3 DEF Baseline!BeginQuery
    <3> QED  BY <2>1, <3>1, BaselineAbstractStutter DEF Baseline!Answered
  <2>4. CASE ~(base_i < Baseline!n)
    <3>1. Baseline!Settled = Baseline!QueryIdx
      BY <2>2, <2>4 DEF Baseline!Settled, Baseline!QueryIdx
    <3> QED  BY <2>1, <3>1, BaselineAbstractStutter DEF Baseline!Answered
  <2> QED  BY <2>3, <2>4
<1>4. CASE Baseline!Descend
  <2>1. /\ UNCHANGED <<Baseline!args, Baseline!outs>> /\ v_pc' = v_pc
        /\ Baseline!Settled' = Baseline!Settled /\ v_pc # "returned"
    BY <1>4, BaselineDescendStep DEF Baseline!Descend
  <2> QED  BY <2>1, BaselineAbstractStutter DEF Baseline!Answered
<1>5. CASE Baseline!SearchLeaf
  <2>1. UNCHANGED Baseline!args /\ v_pc = "descend" /\ v_pc' = "loop"
    BY <1>5 DEF Baseline!SearchLeaf
  <2>2. PICK q \in Baseline!QueryIdx \ Baseline!Settled :
           /\ Baseline!Settled' = Baseline!Settled \cup {q}
           /\ Baseline!RightAnswer(q)'
           /\ \A r \in Baseline!QueryIdx \ {q} : v_found'[r] = v_found[r] /\ v_results'[r] = v_results[r]
    BY <1>5, BaselineSearchLeafStep
  <2>3. Baseline!Answered = Baseline!Settled /\ Baseline!Answered' = Baseline!Settled \cup {q}
    BY <2>1, <2>2 DEF Baseline!Answered
  <2>4. Baseline!Settled \subseteq Baseline!QueryIdx
    BY DEF Baseline!Settled
  <2>5. Baseline!Answered' \ Baseline!Answered = {q}
    BY <2>2, <2>3
  <2>6. /\ Baseline!Answered \subseteq Baseline!Answered'
        /\ Baseline!Answered' \subseteq Baseline!QueryIdx /\ Baseline!Answered # Baseline!Answered'
    BY <2>2, <2>3, <2>4, <2>5
  <2>7. Baseline!Abstract!Answer
    BY <1>1, <2>1, <2>2, <2>5, <2>6, BaselineAbstractAnswer
  <2> QED  BY <2>7 DEF Baseline!Abstract!Next
<1>6. CASE UNCHANGED Baseline!vars
  <2>1. UNCHANGED <<Baseline!args, Baseline!outs, base_i>> /\ v_pc' = v_pc
    BY <1>6 DEF Baseline!vars, Baseline!args, Baseline!outs
  <2>2. Baseline!Answered' = Baseline!Answered
    BY <2>1, BaselineQuiet DEF Baseline!Answered
  <2> QED  BY <2>1, <2>2, BaselineAbstractStutter
<1> QED  BY <1>2, <1>3, <1>4, <1>5, <1>6 DEF Baseline!Next, Baseline!Returned

-----------------------------------------------------------------------------
(* Vectorized: the operators and the lemmas it has from the lookup.        *)

LEMMA VectorsSameTrees ==
  \A t : /\ Vectors!WellFormed(t) <=> WellFormed(t)
         /\ Vectors!NodeIds(t) = NodeIds(t)
         /\ Vectors!Stored(t) = Stored(t)
BY DEF Vectors!WellFormed, WellFormed, Vectors!NodeOK, NodeOK, Vectors!ChildrenOK, ChildrenOK,
       Vectors!LeafOwns, LeafOwns, Vectors!Sorted, Sorted, Vectors!Slots, Slots,
       Vectors!isleafnode, isleafnode, Vectors!NodeIds, NodeIds,
       Vectors!Stored, Stored, Vectors!Leaves, Leaves

LEMMA VectorsSameChild ==
  \A nd, key : /\ Vectors!Child(nd, key) = Child(nd, key)
               /\ Vectors!isleafnode(nd) <=> isleafnode(nd)
BY DEF Vectors!Child, Child, Vectors!find_lower, find_lower,
       Vectors!IsLowerBound, IsLowerBound, Vectors!isleafnode, isleafnode

LEMMA VectorsSame ==
  /\ \A t : Vectors!WellFormed(t) <=> Lookup!WellFormed(t)
  /\ Vectors!n = Lookup!n /\ Vectors!QueryIdx = Lookup!QueryIdx
  /\ Vectors!args = Lookup!args /\ Vectors!outs = Lookup!outs
  /\ Vectors!n' = Lookup!n' /\ Vectors!QueryIdx' = Lookup!QueryIdx'
  /\ Vectors!args' = Lookup!args' /\ Vectors!outs' = Lookup!outs'
  /\ Vectors!NodeIds(tree) = Lookup!NodeIds(tree) /\ Vectors!NodeIds(tree)' = Lookup!NodeIds(tree)'
  /\ Vectors!Stored(tree) = Lookup!Stored(tree)
  /\ Vectors!OutsTypeOK <=> Lookup!OutsTypeOK
  /\ Vectors!OutsTypeOK' <=> Lookup!OutsTypeOK'
  /\ Vectors!NothingToDo <=> Lookup!NothingToDo
  /\ Vectors!NothingToDo' <=> Lookup!NothingToDo'
  /\ \A q : /\ Vectors!RightAnswer(q) <=> Lookup!RightAnswer(q)
            /\ Vectors!RightAnswer(q)' <=> Lookup!RightAnswer(q)'
            /\ Vectors!Unanswered(q) <=> Lookup!Unanswered(q)
            /\ Vectors!Unanswered(q)' <=> Lookup!Unanswered(q)'
            /\ Vectors!KeyAt(q) = Lookup!KeyAt(q)
            /\ Vectors!KeyAt(q)' = Lookup!KeyAt(q)'
  /\ \A q, v : /\ Vectors!OnPath(q, v) <=> Lookup!OnPath(q, v)
               /\ Vectors!OnPath(q, v)' <=> Lookup!OnPath(q, v)'
               /\ Vectors!IsLeafId(v) <=> Lookup!IsLeafId(v)
  /\ \A reached : Vectors!WriteAnswers(reached) <=> Lookup!WriteAnswers(reached)
<1>1. \A t : Vectors!WellFormed(t) <=> Lookup!WellFormed(t)
  BY VectorsSameTrees, LookupSameTrees
<1>2. \A reached : Vectors!WriteAnswers(reached) <=> Lookup!WriteAnswers(reached)
  BY DEF Vectors!WriteAnswers, Lookup!WriteAnswers, Vectors!Hit, Lookup!Hit, Vectors!Data, Lookup!Data,
         Vectors!find_lower, Lookup!find_lower, Vectors!IsLowerBound, Lookup!IsLowerBound,
         Vectors!KeyAt, Lookup!KeyAt, Vectors!QueryIdx, Lookup!QueryIdx, Vectors!n, Lookup!n,
         Vectors!Node, Lookup!Node
<1> QED
  BY <1>1, <1>2
  DEF Vectors!OutsTypeOK, Lookup!OutsTypeOK, Vectors!n, Lookup!n, Vectors!QueryIdx, Lookup!QueryIdx,
      Vectors!RightAnswer, Lookup!RightAnswer, Vectors!Present, Lookup!Present,
      Vectors!Stored, Lookup!Stored, Vectors!Leaves, Lookup!Leaves, Vectors!KeyAt, Lookup!KeyAt,
      Vectors!NodeIds, Lookup!NodeIds, Vectors!Slots, Lookup!Slots, Vectors!isleafnode, Lookup!isleafnode,
      Vectors!args, Lookup!args, Vectors!outs, Lookup!outs, Vectors!NothingToDo, Lookup!NothingToDo,
      Vectors!Unanswered, Lookup!Unanswered, Vectors!OnPath, Lookup!OnPath,
      Vectors!IsLeafId, Lookup!IsLeafId, Vectors!Node, Lookup!Node

LEMMA VectorsCounts == \A S : Vectors!Cardinality(S) = Cardinality(S)
BY DEF Vectors!Cardinality, Cardinality

LEMMA VectorsSameSearch ==
  /\ \A nd : (Vectors!Sorted(nd) <=> Sorted(nd)) /\ Vectors!Slots(nd) = Slots(nd)
  /\ \A nd, key : /\ Vectors!find_lower(nd, key) = find_lower(nd, key)
                  /\ Vectors!Hit(nd, key) <=> Hit(nd, key)
  /\ \A nd, key, p : Vectors!IsLowerBound(nd, key, p) <=> IsLowerBound(nd, key, p)
BY DEF Vectors!Sorted, Sorted, Vectors!Slots, Slots, Vectors!find_lower, find_lower, Vectors!Hit, Hit,
       Vectors!IsLowerBound, IsLowerBound

LEMMA VectorsArgsFacts ==
  ASSUME Vectors!OutsTypeOK
  PROVE  /\ Vectors!WellFormed(tree)
         /\ Vectors!n \in Nat
         /\ \A q \in Vectors!QueryIdx : Vectors!KeyAt(q) \in Key
BY VectorsSame, LookupSameTrees, Lookup!ArgsFacts, KeyAssumption, TreesAssumption, BatchesAssumption,
   StaleAssumption

LEMMA VectorsPositionsFinite ==
  ASSUME Vectors!OutsTypeOK, NEW S, S \subseteq Vectors!QueryIdx
  PROVE  /\ IsFiniteSet(S)
         /\ Cardinality(S) \in Nat
         /\ Cardinality(S) <= Vectors!n
         /\ Cardinality(S) = Vectors!n => S = Vectors!QueryIdx
BY VectorsSame, LookupSameTrees, LookupCounts, Lookup!PositionsFinite, KeyAssumption, TreesAssumption,
   BatchesAssumption, StaleAssumption

LEMMA VectorsLeavesGiveRightAnswers ==
  ASSUME Vectors!OutsTypeOK, NEW Qs, Qs \subseteq Vectors!QueryIdx, NEW reached, DOMAIN reached = Qs,
         \A q \in Qs : /\ reached[q] \in Vectors!NodeIds(tree) /\ Vectors!IsLeafId(reached[q])
                       /\ Vectors!OnPath(q, reached[q]) /\ Vectors!Unanswered(q),
         Vectors!WriteAnswers(reached), UNCHANGED Vectors!args
  PROVE  /\ Vectors!OutsTypeOK'
         /\ Vectors!QueryIdx' = Vectors!QueryIdx
         /\ \A q \in Qs : Vectors!RightAnswer(q)'
         /\ \A q \in Vectors!QueryIdx \ Qs : v_found'[q] = v_found[q] /\ v_results'[q] = v_results[q]
BY VectorsSame, LookupSameTrees, Lookup!LeavesGiveRightAnswers, KeyAssumption, TreesAssumption,
   BatchesAssumption, StaleAssumption

LEMMA VectorsOutsUnchanged ==
  ASSUME UNCHANGED <<Vectors!args, Vectors!outs>>
  PROVE  /\ Vectors!n' = Vectors!n /\ Vectors!QueryIdx' = Vectors!QueryIdx
         /\ Vectors!NodeIds(tree)' = Vectors!NodeIds(tree)
         /\ (Vectors!NothingToDo' <=> Vectors!NothingToDo)
         /\ (Vectors!OutsTypeOK => Vectors!OutsTypeOK')
         /\ \A q : /\ Vectors!RightAnswer(q)' <=> Vectors!RightAnswer(q)
                   /\ Vectors!Unanswered(q)' <=> Vectors!Unanswered(q)
                   /\ Vectors!KeyAt(q)' = Vectors!KeyAt(q)
         /\ \A q, v : Vectors!OnPath(q, v)' <=> Vectors!OnPath(q, v)
BY VectorsSame, LookupSameTrees, Lookup!OutsUnchanged, KeyAssumption, TreesAssumption,
   BatchesAssumption, StaleAssumption

LEMMA VectorsNothingToDoIsRight ==
  ASSUME Vectors!OutsTypeOK, Vectors!NothingToDo, NEW q \in Vectors!QueryIdx, Vectors!Unanswered(q)
  PROVE  Vectors!RightAnswer(q)
BY VectorsSame, LookupSameTrees, Lookup!NothingToDoIsRight, KeyAssumption, TreesAssumption,
   BatchesAssumption, StaleAssumption

LEMMA VectorsAbstractTypes ==
  ASSUME Vectors!OutsTypeOK
  PROVE  Vectors!Stored(tree) \in SUBSET (Key \X Value) /\ queries \in Seq(Key)
BY VectorsSame, LookupSameTrees, Lookup!AbstractTypes, KeyAssumption, TreesAssumption,
   BatchesAssumption, StaleAssumption

LEMMA VectorsDescentStep ==
  ASSUME NEW t, Vectors!WellFormed(t), NEW v \in Vectors!NodeIds(t), ~Vectors!isleafnode(t.node[v]),
         NEW key \in Key, t.lo[v] < key, key <= t.hi[v]
  PROVE  LET c == Vectors!Child(t.node[v], key)
         IN  /\ c \in Vectors!NodeIds(t)
             /\ t.node[c].level + 1 = t.node[v].level
             /\ t.lo[c] < key
             /\ key <= t.hi[c]
BY VectorsSameTrees, VectorsSameChild, DescentStep, KeyAssumption

LEMMA VectorsFindLowerIsLowerBound ==
  ASSUME NEW nd, NEW key \in Key,
         nd.slotuse \in Nat, nd.slotkey \in [Vectors!Slots(nd) -> Key]
  PROVE  /\ Vectors!IsLowerBound(nd, key, Vectors!find_lower(nd, key))
         /\ Vectors!find_lower(nd, key) \in 0 .. nd.slotuse
BY VectorsSameSearch, FindLowerIsLowerBound, KeyAssumption

LEMMA VectorsOneLowerBound ==
  ASSUME NEW nd, NEW key \in Key,
         nd.slotuse \in Nat, nd.slotkey \in [Vectors!Slots(nd) -> Key],
         NEW p, Vectors!IsLowerBound(nd, key, p)
  PROVE  p = Vectors!find_lower(nd, key)
BY VectorsSameSearch, OneLowerBound, KeyAssumption

-----------------------------------------------------------------------------
(* The inductive invariant of Vectorized.                                  *)

VectorsPhases ==
  /\ v_pc = "start" => v_start = 0
  /\ v_pc \notin {"start", "returned"} => ~Vectors!NothingToDo
  /\ v_pc \in {"level", "move", "collect"} => v_start < Vectors!n
  /\ v_pc = "move" => ~Vectors!IsLeafId(v_nodes[0])
  /\ v_pc = "collect" => Vectors!IsLeafId(v_nodes[0])
  /\ v_pc = "returned" /\ ~Vectors!NothingToDo => v_start >= Vectors!n

(* The answers written so far are those of the vectors before this one. *)
VectorsSettledRight ==
  \A q \in Vectors!QueryIdx : IF q \in Vectors!Settled THEN Vectors!RightAnswer(q) ELSE Vectors!Unanswered(q)

(* All but the bound on slots, which SlotsFresh implies. *)
VectorsTypes ==
  /\ Vectors!OutsTypeOK
  /\ v_pc \in {"start", "vector", "level", "move", "collect", "returned"}
  /\ v_start \in Nat
  /\ v_nodes \in [Vectors!Vector -> Vectors!NodeIds(tree) \cup {NULL}]
  /\ v_slots \in [Vectors!Vector -> Nat]

VectorsIInv == VectorsTypes /\ VectorsPhases /\ Vectors!VectorInStep /\ Vectors!SlotsFresh /\ VectorsSettledRight

LEMMA VectorsIInvImpliesVectorExact == VectorsIInv => Vectors!VectorExact
<1> SUFFICES ASSUME VectorsIInv PROVE Vectors!VectorExact
  OBVIOUS
<1>1. v_pc \in {"move", "collect"} => \A j \in Vectors!InBatch : v_slots[j] <= Vectors!Node(v_nodes[j]).slotuse
  <2> SUFFICES ASSUME v_pc \in {"move", "collect"}, NEW j \in Vectors!InBatch
               PROVE  v_slots[j] <= Vectors!Node(v_nodes[j]).slotuse
    OBVIOUS
  <2>1. v_slots[j] \in 0 .. Vectors!Node(v_nodes[j]).slotuse
    BY DEF VectorsIInv, Vectors!SlotsFresh, Vectors!IsLowerBound
  <2> QED  BY <2>1
<1>2. Vectors!TypeOK
  BY <1>1 DEF VectorsIInv, VectorsTypes, Vectors!TypeOK, Vectors!OutsTypeOK
<1> QED  BY <1>2 DEF VectorsIInv, Vectors!VectorExact, Vectors!FoundRight

(* The queries of the vector are queries of the batch, and the first is one. *)
LEMMA VectorsVectorFacts ==
  ASSUME VectorsIInv
  PROVE  /\ Vectors!n \in Nat /\ v_start \in Nat /\ GROUP_SIZE \in Nat \ {0}
         /\ Vectors!WellFormed(tree)
         /\ \A j \in Vectors!InBatch : /\ j \in Vectors!Vector /\ v_start + j \in Vectors!QueryIdx
                                       /\ Vectors!KeyOf(j) \in Key
                                       /\ v_start + j \notin Vectors!Settled
                                       /\ Vectors!Unanswered(v_start + j)
         /\ v_start < Vectors!n => 0 \in Vectors!InBatch
<1>1. /\ Vectors!n \in Nat /\ v_start \in Nat /\ GROUP_SIZE \in Nat \ {0} /\ Vectors!WellFormed(tree)
      /\ \A q \in Vectors!QueryIdx : Vectors!KeyAt(q) \in Key
  BY VectorsArgsFacts, GroupAssumption DEF VectorsIInv, VectorsTypes
<1>2. ASSUME NEW j \in Vectors!InBatch
      PROVE  /\ j \in Vectors!Vector /\ v_start + j \in Vectors!QueryIdx
             /\ Vectors!KeyOf(j) \in Key
             /\ v_start + j \notin Vectors!Settled
             /\ Vectors!Unanswered(v_start + j)
  <2>1. j \in Vectors!Vector /\ j \in Nat /\ v_start + j \in Vectors!QueryIdx /\ ~(v_start + j < v_start)
    BY <1>1 DEF Vectors!InBatch, Vectors!Vector, Vectors!QueryIdx
  <2>2. Vectors!KeyOf(j) \in Key
    BY <1>1, <2>1 DEF Vectors!KeyOf
  <2>3. v_start + j \notin Vectors!Settled
    BY <2>1 DEF Vectors!Settled
  <2> QED  BY <2>1, <2>2, <2>3 DEF VectorsIInv, VectorsSettledRight
<1>3. v_start < Vectors!n => 0 \in Vectors!InBatch
  BY <1>1 DEF Vectors!InBatch, Vectors!Vector
<1> QED  BY <1>1, <1>2, <1>3

(* A step that leaves arguments, answers and the position in the batch alone. *)
LEMMA VectorsQuiet ==
  ASSUME VectorsIInv, UNCHANGED <<Vectors!args, Vectors!outs, v_start>>
  PROVE  /\ Vectors!n' = Vectors!n /\ Vectors!QueryIdx' = Vectors!QueryIdx
         /\ Vectors!NodeIds(tree)' = Vectors!NodeIds(tree)
         /\ tree' = tree /\ queries' = queries
         /\ Vectors!InBatch' = Vectors!InBatch /\ Vectors!Settled' = Vectors!Settled
         /\ (Vectors!NothingToDo' <=> Vectors!NothingToDo) /\ Vectors!OutsTypeOK' /\ VectorsSettledRight'
         /\ \A j : Vectors!KeyOf(j)' = Vectors!KeyOf(j)
         /\ \A v : Vectors!Node(v)' = Vectors!Node(v)
         /\ \A q, v : Vectors!OnPath(q, v)' <=> Vectors!OnPath(q, v)
<1>1. tree' = tree /\ queries' = queries /\ v_start' = v_start
  BY DEF Vectors!args
<1>2. /\ Vectors!n' = Vectors!n /\ Vectors!QueryIdx' = Vectors!QueryIdx
      /\ Vectors!NodeIds(tree)' = Vectors!NodeIds(tree)
      /\ (Vectors!NothingToDo' <=> Vectors!NothingToDo) /\ Vectors!OutsTypeOK'
      /\ \A q : (Vectors!RightAnswer(q)' <=> Vectors!RightAnswer(q)) /\ (Vectors!Unanswered(q)' <=> Vectors!Unanswered(q))
      /\ \A q, v : Vectors!OnPath(q, v)' <=> Vectors!OnPath(q, v)
  BY VectorsOutsUnchanged DEF VectorsIInv, VectorsTypes
<1>3. Vectors!InBatch' = Vectors!InBatch /\ Vectors!Settled' = Vectors!Settled
  BY <1>1, <1>2 DEF Vectors!InBatch, Vectors!Settled
<1>4. VectorsSettledRight'
  BY <1>2, <1>3 DEF VectorsIInv, VectorsSettledRight
<1>5. \A j : Vectors!KeyOf(j)' = Vectors!KeyOf(j)
  BY <1>1 DEF Vectors!KeyOf, Vectors!KeyAt
<1>6. \A v : Vectors!Node(v)' = Vectors!Node(v)
  BY <1>1 DEF Vectors!Node
<1> QED  BY <1>1, <1>2, <1>3, <1>4, <1>5, <1>6

-----------------------------------------------------------------------------
(* The invariant is inductive.                                             *)

LEMMA VectorsInitIInv ==
  ASSUME Vectors!Init
  PROVE  VectorsIInv /\ Vectors!Settled = {}
<1>1. Vectors!OutsTypeOK
  BY DEF Vectors!Init, Vectors!ArgsAndOutsInit, Vectors!OutsTypeOK
<1>2. Vectors!n \in Nat
  BY <1>1, VectorsArgsFacts
<1>3. VectorsTypes
  BY <1>1 DEF Vectors!Init, VectorsTypes
<1>4. Vectors!Settled = {}
  BY <1>2 DEF Vectors!Init, Vectors!Settled, Vectors!QueryIdx
<1>5. VectorsPhases /\ Vectors!VectorInStep /\ Vectors!SlotsFresh
  BY DEF Vectors!Init, VectorsPhases, Vectors!VectorInStep, Vectors!SlotsFresh
<1>6. VectorsSettledRight
  BY <1>4 DEF Vectors!Init, Vectors!ArgsAndOutsInit, VectorsSettledRight, Vectors!Unanswered
<1> QED  BY <1>3, <1>4, <1>5, <1>6 DEF VectorsIInv

LEMMA VectorsStartStep ==
  ASSUME VectorsIInv, Vectors!Start
  PROVE  VectorsIInv' /\ Vectors!Settled' = Vectors!Settled /\ Vectors!Settled = {}
<1>1. /\ UNCHANGED <<Vectors!args, Vectors!outs, v_start, v_nodes, v_slots>>
      /\ v_pc = "start" /\ v_pc' = IF Vectors!NothingToDo THEN "returned" ELSE "vector"
  BY DEF Vectors!Start
<1>2. /\ Vectors!NodeIds(tree)' = Vectors!NodeIds(tree) /\ (Vectors!NothingToDo' <=> Vectors!NothingToDo)
      /\ Vectors!OutsTypeOK' /\ VectorsSettledRight' /\ Vectors!Settled' = Vectors!Settled
  BY <1>1, VectorsQuiet
<1>3. VectorsTypes'
  BY <1>1, <1>2 DEF VectorsIInv, VectorsTypes
<1>4. VectorsPhases' /\ Vectors!VectorInStep' /\ Vectors!SlotsFresh'
  BY <1>1, <1>2 DEF VectorsPhases, Vectors!VectorInStep, Vectors!SlotsFresh
<1>5. Vectors!Settled = {}
  BY <1>1, VectorsVectorFacts DEF Vectors!Settled, VectorsIInv, VectorsPhases, Vectors!QueryIdx
<1> QED  BY <1>2, <1>3, <1>4, <1>5 DEF VectorsIInv

LEMMA VectorsNextVectorStep ==
  ASSUME VectorsIInv, Vectors!NextVector
  PROVE  VectorsIInv' /\ Vectors!Settled' = Vectors!Settled
<1>1. /\ UNCHANGED <<Vectors!args, Vectors!outs, v_start, v_slots>> /\ v_pc = "vector"
      /\ v_pc' = IF v_start < Vectors!n THEN "level" ELSE "returned"
  BY DEF Vectors!NextVector
<1>2. /\ Vectors!n' = Vectors!n /\ Vectors!NodeIds(tree)' = Vectors!NodeIds(tree)
      /\ (Vectors!NothingToDo' <=> Vectors!NothingToDo)
      /\ tree' = tree /\ Vectors!OutsTypeOK' /\ VectorsSettledRight'
      /\ Vectors!Settled' = Vectors!Settled /\ ~Vectors!NothingToDo
      /\ Vectors!InBatch' = Vectors!InBatch
      /\ \A v : Vectors!Node(v)' = Vectors!Node(v)
      /\ \A q, v : Vectors!OnPath(q, v)' <=> Vectors!OnPath(q, v)
  BY <1>1, VectorsQuiet DEF VectorsIInv, VectorsPhases
<1>3. Vectors!SlotsFresh'
  BY <1>1 DEF Vectors!SlotsFresh
<1>4. Vectors!n \in Nat /\ v_start \in Nat /\ Vectors!n # 0
  BY <1>2, VectorsVectorFacts DEF Vectors!NothingToDo
<1>5. VectorsPhases'
  BY <1>1, <1>2, <1>4 DEF VectorsPhases
<1>6. CASE v_start < Vectors!n
  <2>1. v_nodes' = [j \in Vectors!Vector |-> IF j \in Vectors!InBatch THEN tree.root ELSE v_nodes[j]]
    BY <1>6 DEF Vectors!NextVector
  <2>2. tree.root \in Vectors!NodeIds(tree) /\ \A j \in Vectors!InBatch : Vectors!OnPath(v_start + j, tree.root)
    <3>1. Vectors!WellFormed(tree) /\ \A j \in Vectors!InBatch : Vectors!KeyAt(v_start + j) \in Key
      BY VectorsVectorFacts DEF Vectors!KeyOf
    <3> QED  BY <1>2, <3>1 DEF Vectors!WellFormed, Vectors!NothingToDo, Vectors!OnPath
  <2>3. VectorsTypes'
    BY <1>1, <1>2, <1>6, <2>1, <2>2 DEF VectorsIInv, VectorsTypes
  <2>4. Vectors!VectorInStep'
    <3>1. \A j \in Vectors!InBatch : v_nodes'[j] = tree.root
      BY <2>1 DEF Vectors!InBatch
    <3>2. 0 \in Vectors!InBatch
      BY <1>6, VectorsVectorFacts
    <3>3. ASSUME NEW j \in Vectors!InBatch'
          PROVE  /\ v_nodes'[j] \in Vectors!NodeIds(tree)'
                 /\ Vectors!Node(v_nodes[j])'.level = Vectors!Node(v_nodes[0])'.level
                 /\ Vectors!OnPath(v_start + j, v_nodes[j])'
      <4>1. v_nodes'[j] = tree.root /\ v_nodes'[0] = tree.root
        BY <1>2, <3>1, <3>2
      <4> QED  BY <1>1, <1>2, <2>2, <4>1 DEF Vectors!Node, Vectors!OnPath, Vectors!KeyAt, Vectors!args
    <3> QED  BY <3>3 DEF Vectors!VectorInStep
  <2> QED  BY <1>2, <1>3, <1>5, <2>3, <2>4 DEF VectorsIInv
<1>7. CASE ~(v_start < Vectors!n)
  <2>1. v_pc' = "returned" /\ v_nodes' = v_nodes
    BY <1>7 DEF Vectors!NextVector
  <2>2. VectorsTypes' /\ Vectors!VectorInStep'
    BY <1>1, <1>2, <2>1 DEF VectorsIInv, VectorsTypes, Vectors!VectorInStep
  <2> QED  BY <1>2, <1>3, <1>5, <2>2 DEF VectorsIInv
<1> QED  BY <1>6, <1>7

(* A node where a query of the vector stands is a node that can be searched. *)
LEMMA VectorsNodeFacts ==
  ASSUME VectorsIInv, v_pc \in {"level", "move", "collect"}, NEW j \in Vectors!InBatch
  PROVE  /\ v_nodes[j] \in Vectors!NodeIds(tree)
         /\ Vectors!OnPath(v_start + j, v_nodes[j])
         /\ Vectors!IsLeafId(v_nodes[j]) <=> Vectors!IsLeafId(v_nodes[0])
         /\ Vectors!IsLowerBound(Vectors!Node(v_nodes[j]), Vectors!KeyOf(j), Vectors!find_lower(Vectors!Node(v_nodes[j]), Vectors!KeyOf(j)))
         /\ Vectors!find_lower(Vectors!Node(v_nodes[j]), Vectors!KeyOf(j)) \in Nat
         /\ \A p : Vectors!IsLowerBound(Vectors!Node(v_nodes[j]), Vectors!KeyOf(j), p)
                     => p = Vectors!find_lower(Vectors!Node(v_nodes[j]), Vectors!KeyOf(j))
<1>1. /\ v_nodes[j] \in Vectors!NodeIds(tree) /\ Vectors!OnPath(v_start + j, v_nodes[j])
      /\ Vectors!Node(v_nodes[j]).level = Vectors!Node(v_nodes[0]).level
  BY DEF VectorsIInv, Vectors!VectorInStep
<1>2. PICK nd, key : nd = Vectors!Node(v_nodes[j]) /\ key = Vectors!KeyOf(j)
  OBVIOUS
<1>3. Vectors!NodeOK(tree, v_nodes[j]) /\ key \in Key
  BY <1>1, <1>2, VectorsVectorFacts DEF Vectors!WellFormed
<1>4. nd.slotuse \in Nat /\ nd.slotkey \in [Vectors!Slots(nd) -> Key] /\ Vectors!Sorted(nd)
  BY <1>2, <1>3 DEF Vectors!NodeOK, Vectors!Node
<1>5. /\ Vectors!IsLowerBound(nd, key, Vectors!find_lower(nd, key))
      /\ Vectors!find_lower(nd, key) \in 0 .. nd.slotuse
  BY <1>3, <1>4, VectorsFindLowerIsLowerBound
<1>6. \A p : Vectors!IsLowerBound(nd, key, p) => p = Vectors!find_lower(nd, key)
  BY <1>3, <1>4, VectorsOneLowerBound
<1>7. Vectors!find_lower(nd, key) \in Nat
  BY <1>4, <1>5
<1> QED  BY <1>1, <1>2, <1>5, <1>6, <1>7 DEF Vectors!IsLeafId, Vectors!isleafnode

(* The first pass leaves the lower bounds. *)
LEMMA VectorsSearchPassStep ==
  ASSUME VectorsIInv, Vectors!SearchPass
  PROVE  VectorsIInv' /\ Vectors!Settled' = Vectors!Settled
<1>1. /\ UNCHANGED <<Vectors!args, Vectors!outs, v_start, v_nodes>> /\ v_pc = "level"
      /\ v_pc' = IF Vectors!IsLeafId(v_nodes[0]) THEN "collect" ELSE "move"
      /\ v_slots' = [j \in Vectors!Vector |-> IF j \in Vectors!InBatch THEN Vectors!find_lower(Vectors!Node(v_nodes[j]), Vectors!KeyOf(j))
                                              ELSE v_slots[j]]
  BY DEF Vectors!SearchPass
<1>2. /\ Vectors!n' = Vectors!n /\ Vectors!NodeIds(tree)' = Vectors!NodeIds(tree)
      /\ (Vectors!NothingToDo' <=> Vectors!NothingToDo)
      /\ tree' = tree /\ queries' = queries /\ Vectors!OutsTypeOK' /\ VectorsSettledRight'
      /\ Vectors!Settled' = Vectors!Settled
      /\ Vectors!InBatch' = Vectors!InBatch
      /\ \A j : Vectors!KeyOf(j)' = Vectors!KeyOf(j)
  BY <1>1, VectorsQuiet
<1>3. VectorsTypes'
  <2>1. \A j \in Vectors!InBatch : Vectors!find_lower(Vectors!Node(v_nodes[j]), Vectors!KeyOf(j)) \in Nat
    BY <1>1, VectorsNodeFacts
  <2>2. v_slots' \in [Vectors!Vector -> Nat]
    BY <1>1, <2>1 DEF VectorsIInv, VectorsTypes
  <2> QED  BY <1>1, <1>2, <2>2 DEF VectorsIInv, VectorsTypes
<1>4. VectorsPhases'
  BY <1>1, <1>2 DEF VectorsIInv, VectorsPhases, Vectors!IsLeafId, Vectors!Node
<1>5. Vectors!VectorInStep'
  BY <1>1, <1>2 DEF VectorsIInv, Vectors!VectorInStep, Vectors!OnPath, Vectors!KeyAt, Vectors!Node
<1>6. Vectors!SlotsFresh'
  <2> SUFFICES ASSUME NEW j \in Vectors!InBatch' PROVE Vectors!IsLowerBound(Vectors!Node(v_nodes[j]), Vectors!KeyOf(j), v_slots[j])'
    BY DEF Vectors!SlotsFresh
  <2>1. j \in Vectors!InBatch /\ j \in Vectors!Vector
    BY <1>2 DEF Vectors!InBatch
  <2>2. v_slots'[j] = Vectors!find_lower(Vectors!Node(v_nodes[j]), Vectors!KeyOf(j))
    BY <1>1, <2>1
  <2>3. Vectors!IsLowerBound(Vectors!Node(v_nodes[j]), Vectors!KeyOf(j), v_slots'[j])
    BY <1>1, <2>1, <2>2, VectorsNodeFacts
  <2> QED  BY <1>1, <1>2, <2>3 DEF Vectors!IsLowerBound, Vectors!Node
<1> QED  BY <1>2, <1>3, <1>4, <1>5, <1>6 DEF VectorsIInv

(* The second pass follows them to the children. *)
LEMMA VectorsChildPassStep ==
  ASSUME VectorsIInv, Vectors!ChildPass
  PROVE  VectorsIInv' /\ Vectors!Settled' = Vectors!Settled
<1>1. /\ UNCHANGED <<Vectors!args, Vectors!outs, v_start, v_slots>> /\ v_pc = "move" /\ v_pc' = "level"
      /\ v_nodes' = [j \in Vectors!Vector |-> IF j \in Vectors!InBatch THEN Vectors!Node(v_nodes[j]).childid[v_slots[j]]
                                              ELSE v_nodes[j]]
  BY DEF Vectors!ChildPass
<1>2. /\ Vectors!n' = Vectors!n /\ Vectors!NodeIds(tree)' = Vectors!NodeIds(tree)
      /\ (Vectors!NothingToDo' <=> Vectors!NothingToDo)
      /\ tree' = tree /\ queries' = queries /\ Vectors!OutsTypeOK' /\ VectorsSettledRight'
      /\ Vectors!Settled' = Vectors!Settled
      /\ Vectors!InBatch' = Vectors!InBatch
  BY <1>1, VectorsQuiet
<1>3. /\ v_start < Vectors!n /\ 0 \in Vectors!InBatch /\ Vectors!WellFormed(tree)
      /\ ~Vectors!IsLeafId(v_nodes[0]) /\ ~Vectors!NothingToDo
  BY <1>1, VectorsVectorFacts DEF VectorsIInv, VectorsPhases
<1>4. ASSUME NEW j \in Vectors!InBatch
      PROVE  /\ v_nodes'[j] \in Vectors!NodeIds(tree)
             /\ tree.node[v_nodes'[j]].level + 1 = Vectors!Node(v_nodes[0]).level
             /\ tree.node[v_nodes'[j]].level \in Nat
             /\ Vectors!OnPath(v_start + j, v_nodes'[j])
  <2>1. j \in Vectors!Vector /\ Vectors!KeyOf(j) \in Key
    BY VectorsVectorFacts
  <2>2. /\ v_nodes[j] \in Vectors!NodeIds(tree) /\ ~Vectors!IsLeafId(v_nodes[j])
        /\ Vectors!OnPath(v_start + j, v_nodes[j])
    BY <1>1, <1>3, VectorsNodeFacts
  <2>3. Vectors!Node(v_nodes[j]).level = Vectors!Node(v_nodes[0]).level
    BY <1>1 DEF VectorsIInv, Vectors!VectorInStep
  <2>4. v_slots[j] = Vectors!find_lower(Vectors!Node(v_nodes[j]), Vectors!KeyOf(j))
    <3>1. Vectors!IsLowerBound(Vectors!Node(v_nodes[j]), Vectors!KeyOf(j), v_slots[j])
      BY <1>1 DEF VectorsIInv, Vectors!SlotsFresh
    <3> QED  BY <1>1, <3>1, VectorsNodeFacts
  <2>5. v_nodes'[j] = Vectors!Child(Vectors!Node(v_nodes[j]), Vectors!KeyOf(j))
    BY <1>1, <2>1, <2>4 DEF Vectors!Child
  <2>6. PICK v, c : v = v_nodes[j] /\ c = Vectors!Child(Vectors!Node(v_nodes[j]), Vectors!KeyOf(j))
    OBVIOUS
  <2>7. /\ c \in Vectors!NodeIds(tree) /\ tree.node[c].level + 1 = tree.node[v].level
        /\ tree.lo[c] < Vectors!KeyOf(j) /\ Vectors!KeyOf(j) <= tree.hi[c]
    <3>1. /\ v \in Vectors!NodeIds(tree) /\ ~Vectors!isleafnode(tree.node[v])
          /\ tree.lo[v] < Vectors!KeyOf(j)
          /\ Vectors!KeyOf(j) <= tree.hi[v] /\ c = Vectors!Child(tree.node[v], Vectors!KeyOf(j))
      BY <2>2, <2>6 DEF Vectors!IsLeafId, Vectors!Node, Vectors!OnPath, Vectors!KeyOf
    <3> QED  BY <1>3, <2>1, <3>1, VectorsDescentStep
  <2>8. tree.node[c].level \in Nat
    BY <1>3, <2>7 DEF Vectors!WellFormed, Vectors!NodeOK
  <2> QED  BY <2>3, <2>5, <2>6, <2>7, <2>8 DEF Vectors!OnPath, Vectors!KeyOf, Vectors!Node
<1>5. VectorsTypes'
  <2>1. v_nodes' \in [Vectors!Vector -> Vectors!NodeIds(tree) \cup {NULL}]
    BY <1>1, <1>4 DEF VectorsIInv, VectorsTypes
  <2> QED  BY <1>1, <1>2, <2>1 DEF VectorsIInv, VectorsTypes
<1>6. VectorsPhases'
  BY <1>1, <1>2, <1>3 DEF VectorsPhases
<1>7. Vectors!VectorInStep'
  <2> SUFFICES ASSUME NEW j \in Vectors!InBatch'
               PROVE  /\ v_nodes'[j] \in Vectors!NodeIds(tree)'
                      /\ Vectors!Node(v_nodes[j])'.level = Vectors!Node(v_nodes[0])'.level
                      /\ Vectors!OnPath(v_start + j, v_nodes[j])'
    BY DEF Vectors!VectorInStep
  <2>1. v_nodes'[j] \in Vectors!NodeIds(tree) /\ Vectors!OnPath(v_start + j, v_nodes'[j])
    BY <1>2, <1>4
  <2>2. tree.node[v_nodes'[j]].level = tree.node[v_nodes'[0]].level
    <3>1. PICK a, b, m : /\ a = tree.node[v_nodes'[j]].level /\ b = tree.node[v_nodes'[0]].level
                         /\ m = Vectors!Node(v_nodes[0]).level
      OBVIOUS
    <3>2. a \in Nat /\ b \in Nat /\ a + 1 = m /\ b + 1 = m
      BY <1>2, <1>3, <1>4, <3>1
    <3>3. a = b
      BY <3>2
    <3> QED  BY <3>1, <3>3
  <2> QED  BY <1>1, <1>2, <2>1, <2>2 DEF Vectors!Node, Vectors!OnPath, Vectors!KeyAt
<1>8. Vectors!SlotsFresh'
  BY <1>1 DEF Vectors!SlotsFresh
<1> QED  BY <1>2, <1>5, <1>6, <1>7, <1>8 DEF VectorsIInv

(* Gathering from slots that are lower bounds is answering at the leaves. *)
LEMMA VectorsGatherIsWrite ==
  ASSUME NEW reached, NEW slot, Vectors!Gather(reached, slot),
         \A q \in DOMAIN reached : slot[q] = Vectors!find_lower(Vectors!Node(reached[q]), Vectors!KeyAt(q))
  PROVE  Vectors!WriteAnswers(reached)
BY DEF Vectors!Gather, Vectors!WriteAnswers, Vectors!Hit, Vectors!Data

(* Collect answers exactly the queries of the vector. *)
LEMMA VectorsCollectStep ==
  ASSUME VectorsIInv, Vectors!Collect
  PROVE  /\ VectorsIInv'
         /\ \E Qs \in SUBSET (Vectors!QueryIdx \ Vectors!Settled) :
               /\ Qs # {}
               /\ Vectors!Settled' = Vectors!Settled \cup Qs
               /\ \A r \in Vectors!QueryIdx \ Qs : v_found'[r] = v_found[r] /\ v_results'[r] = v_results[r]
<1>1. PICK Qs, reached, slot :
         /\ Qs = {v_start + j : j \in Vectors!InBatch}
         /\ reached = [q \in Qs |-> v_nodes[q - v_start]]
         /\ slot = [q \in Qs |-> v_slots[q - v_start]]
  OBVIOUS
<1>2. /\ UNCHANGED <<Vectors!args, v_nodes, v_slots>> /\ Vectors!Gather(reached, slot)
      /\ v_start' = v_start + GROUP_SIZE
      /\ v_pc = "collect" /\ v_pc' = "vector"
  BY <1>1 DEF Vectors!Collect
<1>3. /\ Vectors!n \in Nat /\ v_start \in Nat /\ GROUP_SIZE \in Nat \ {0}
      /\ Vectors!OutsTypeOK /\ Vectors!IsLeafId(v_nodes[0]) /\ ~Vectors!NothingToDo
      /\ v_start < Vectors!n /\ 0 \in Vectors!InBatch
  BY <1>2, VectorsVectorFacts DEF VectorsIInv, VectorsPhases, VectorsTypes
<1>4. Qs \subseteq Vectors!QueryIdx \ Vectors!Settled /\ Qs # {}
  BY <1>1, <1>3, VectorsVectorFacts
<1>5. ASSUME NEW q \in Qs
      PROVE  /\ reached[q] \in Vectors!NodeIds(tree) /\ Vectors!IsLeafId(reached[q])
             /\ Vectors!OnPath(q, reached[q]) /\ Vectors!Unanswered(q)
             /\ slot[q] = Vectors!find_lower(Vectors!Node(reached[q]), Vectors!KeyAt(q))
  <2>1. PICK j \in Vectors!InBatch : q = v_start + j
    BY <1>1, <1>5
  <2>2. j \in Nat /\ q - v_start = j
    BY <1>3, <2>1 DEF Vectors!InBatch, Vectors!Vector
  <2>3. reached[q] = v_nodes[j] /\ slot[q] = v_slots[j] /\ Vectors!KeyAt(q) = Vectors!KeyOf(j)
    BY <1>1, <1>5, <2>1, <2>2 DEF Vectors!KeyOf
  <2>4. Vectors!IsLowerBound(Vectors!Node(v_nodes[j]), Vectors!KeyOf(j), v_slots[j])
    BY <1>2 DEF VectorsIInv, Vectors!SlotsFresh
  <2>5. /\ v_nodes[j] \in Vectors!NodeIds(tree) /\ Vectors!IsLeafId(v_nodes[j])
        /\ Vectors!OnPath(v_start + j, v_nodes[j]) /\ Vectors!Unanswered(v_start + j)
        /\ v_slots[j] = Vectors!find_lower(Vectors!Node(v_nodes[j]), Vectors!KeyOf(j))
    BY <1>2, <1>3, <2>4, VectorsNodeFacts, VectorsVectorFacts
  <2> QED  BY <2>1, <2>3, <2>5
<1>6. DOMAIN reached = Qs
  BY <1>1
<1>7. Vectors!WriteAnswers(reached)
  BY <1>2, <1>5, <1>6, VectorsGatherIsWrite
<1>8. /\ Vectors!OutsTypeOK' /\ Vectors!QueryIdx' = Vectors!QueryIdx
      /\ \A q \in Qs : Vectors!RightAnswer(q)'
      /\ \A q \in Vectors!QueryIdx \ Qs : v_found'[q] = v_found[q] /\ v_results'[q] = v_results[q]
  <2>1. Qs \subseteq Vectors!QueryIdx
    BY <1>4
  <2>2. \A q \in Qs : /\ reached[q] \in Vectors!NodeIds(tree) /\ Vectors!IsLeafId(reached[q])
                      /\ Vectors!OnPath(q, reached[q]) /\ Vectors!Unanswered(q)
    BY <1>5
  <2>3. UNCHANGED Vectors!args
    BY <1>2
  <2> QED  BY <1>3, <1>6, <1>7, <2>1, <2>2, <2>3, VectorsLeavesGiveRightAnswers
<1>9. Vectors!Settled' = Vectors!Settled \cup Qs
  <2>1. Vectors!Settled' = {q \in Vectors!QueryIdx : q < v_start + GROUP_SIZE}
    BY <1>2, <1>8 DEF Vectors!Settled
  <2>2. ASSUME NEW q \in Vectors!QueryIdx, q < v_start + GROUP_SIZE, ~(q < v_start)
        PROVE  q \in Qs
    <3>1. q - v_start \in Vectors!InBatch /\ q = v_start + (q - v_start)
      BY <1>3, <2>2 DEF Vectors!InBatch, Vectors!Vector, Vectors!QueryIdx
    <3> QED  BY <1>1, <3>1
  <2>3. ASSUME NEW q \in Qs PROVE q < v_start + GROUP_SIZE
    BY <1>1, <1>3 DEF Vectors!InBatch, Vectors!Vector
  <2>4. \A q \in Vectors!QueryIdx : q < v_start => q < v_start + GROUP_SIZE
    BY <1>3 DEF Vectors!QueryIdx
  <2> QED  BY <1>4, <2>1, <2>2, <2>3, <2>4 DEF Vectors!Settled
<1>10. tree' = tree /\ queries' = queries
  BY <1>2 DEF Vectors!args
<1>11. VectorsSettledRight'
  <2>1. ASSUME NEW r \in Vectors!QueryIdx, r \notin Qs
        PROVE  IF r \in Vectors!Settled' THEN Vectors!RightAnswer(r)' ELSE Vectors!Unanswered(r)'
    <3>1. r \in Vectors!Settled' <=> r \in Vectors!Settled
      BY <1>9, <2>1
    <3>2. v_found'[r] = v_found[r] /\ v_results'[r] = v_results[r]
      BY <1>8, <2>1
    <3>3. Vectors!Stored(tree)' = Vectors!Stored(tree) /\ Vectors!KeyAt(r)' = Vectors!KeyAt(r)
      BY <1>10
         DEF Vectors!Stored, Vectors!Leaves, Vectors!NodeIds, Vectors!Slots, Vectors!isleafnode,
             Vectors!KeyAt
    <3>4. Vectors!Present(tree, Vectors!KeyAt(r))' <=> Vectors!Present(tree, Vectors!KeyAt(r))
      BY <3>3 DEF Vectors!Present
    <3>5. IF r \in Vectors!Settled THEN Vectors!RightAnswer(r) ELSE Vectors!Unanswered(r)
      BY <2>1 DEF VectorsIInv, VectorsSettledRight
    <3> QED  BY <3>1, <3>2, <3>3, <3>4, <3>5 DEF Vectors!RightAnswer, Vectors!Unanswered
  <2> QED  BY <1>8, <1>9, <2>1 DEF VectorsSettledRight
<1>12. VectorsTypes'
  BY <1>2, <1>3, <1>8, <1>10 DEF VectorsIInv, VectorsTypes, Vectors!NodeIds
<1>13. VectorsPhases' /\ Vectors!VectorInStep' /\ Vectors!SlotsFresh'
  BY <1>2, <1>3, <1>10
     DEF VectorsPhases, Vectors!VectorInStep, Vectors!SlotsFresh, Vectors!NothingToDo, Vectors!n
<1> QED  BY <1>4, <1>8, <1>9, <1>11, <1>12, <1>13 DEF VectorsIInv

LEMMA VectorsStepIInv ==
  ASSUME VectorsIInv, [Vectors!Next]_(Vectors!vars)
  PROVE  VectorsIInv'
<1>1. CASE Vectors!Start       BY <1>1, VectorsStartStep
<1>2. CASE Vectors!NextVector  BY <1>2, VectorsNextVectorStep
<1>3. CASE Vectors!SearchPass  BY <1>3, VectorsSearchPassStep
<1>4. CASE Vectors!ChildPass   BY <1>4, VectorsChildPassStep
<1>5. CASE Vectors!Collect     BY <1>5, VectorsCollectStep
<1>6. CASE UNCHANGED Vectors!vars
  <2>1. /\ UNCHANGED <<Vectors!args, Vectors!outs, v_start, v_nodes, v_slots>> /\ v_pc' = v_pc
        /\ tree' = tree /\ queries' = queries
    BY <1>6 DEF Vectors!vars, Vectors!args, Vectors!outs
  <2>2. /\ Vectors!n' = Vectors!n /\ Vectors!NodeIds(tree)' = Vectors!NodeIds(tree)
        /\ (Vectors!NothingToDo' <=> Vectors!NothingToDo)
        /\ Vectors!InBatch' = Vectors!InBatch /\ Vectors!OutsTypeOK' /\ VectorsSettledRight'
    BY <2>1, VectorsQuiet
  <2>3. VectorsTypes' /\ VectorsPhases'
    BY <2>1, <2>2 DEF VectorsIInv, VectorsTypes, VectorsPhases, Vectors!IsLeafId, Vectors!Node
  <2>4. Vectors!VectorInStep'
    BY <2>1, <2>2 DEF VectorsIInv, Vectors!VectorInStep, Vectors!Node, Vectors!OnPath, Vectors!KeyAt
  <2>5. Vectors!SlotsFresh'
    BY <2>1, <2>2
       DEF VectorsIInv, Vectors!SlotsFresh, Vectors!Node, Vectors!KeyOf, Vectors!KeyAt,
           Vectors!IsLowerBound
  <2> QED  BY <2>2, <2>3, <2>4, <2>5 DEF VectorsIInv
<1> QED  BY <1>1, <1>2, <1>3, <1>4, <1>5, <1>6
            DEF Vectors!Next, Vectors!Returned, Vectors!Descend, Vectors!CollectKeys

-----------------------------------------------------------------------------
(* Vectorized takes steps of the abstract batch lookup.                    *)

LEMMA VectorsInitRefines == Vectors!Init => Vectors!Abstract!Init
<1> SUFFICES ASSUME Vectors!Init PROVE Vectors!Abstract!Init
  OBVIOUS
<1>1. Vectors!OutsTypeOK /\ Vectors!Settled = {} /\ v_pc = "start"
  BY VectorsInitIInv DEF VectorsIInv, VectorsTypes, Vectors!Init
<1>2. Vectors!Answered = {}
  BY <1>1 DEF Vectors!Answered
<1>3. v_found = [q \in Vectors!QueryIdx |-> FALSE] /\ v_results = [q \in Vectors!QueryIdx |-> Stale]
  BY DEF Vectors!Init, Vectors!ArgsAndOutsInit
<1> QED  BY <1>1, <1>2, <1>3, VectorsAbstractTypes
            DEF Vectors!Abstract!Init, Vectors!Abstract!Positions, Vectors!QueryIdx, Vectors!n

LEMMA VectorsAbstractStutter ==
  ASSUME UNCHANGED <<Vectors!args, Vectors!outs>>, Vectors!Answered' = Vectors!Answered
  PROVE  UNCHANGED Vectors!Abstract!vars
<1>1. tree' = tree /\ queries' = queries /\ v_found' = v_found /\ v_results' = v_results
  BY DEF Vectors!args, Vectors!outs
<1>2. Vectors!Stored(tree)' = Vectors!Stored(tree)
  BY <1>1 DEF Vectors!Stored, Vectors!Leaves, Vectors!NodeIds, Vectors!Slots, Vectors!isleafnode
<1> QED  BY <1>1, <1>2 DEF Vectors!Abstract!vars

LEMMA VectorsAbstractAnswer ==
  ASSUME Vectors!OutsTypeOK', UNCHANGED Vectors!args, Vectors!Answered \subseteq Vectors!Answered', Vectors!Answered' \subseteq Vectors!QueryIdx,
         \A q \in Vectors!Answered' \ Vectors!Answered : Vectors!RightAnswer(q)',
         \A q \in Vectors!QueryIdx \ (Vectors!Answered' \ Vectors!Answered) :
              v_found'[q] = v_found[q] /\ v_results'[q] = v_results[q],
         Vectors!Answered # Vectors!Answered'
  PROVE  Vectors!Abstract!Answer
<1>1. tree' = tree /\ queries' = queries
  BY DEF Vectors!args
<1>2. Vectors!Stored(tree)' = Vectors!Stored(tree) /\ Vectors!QueryIdx' = Vectors!QueryIdx
  BY <1>1
     DEF Vectors!Stored, Vectors!Leaves, Vectors!NodeIds, Vectors!Slots, Vectors!isleafnode,
         Vectors!QueryIdx, Vectors!n
<1>3. Vectors!Abstract!Positions = Vectors!QueryIdx
  BY DEF Vectors!Abstract!Positions, Vectors!QueryIdx, Vectors!n
<1>4. ASSUME NEW q \in Vectors!Answered' \ Vectors!Answered PROVE Vectors!Abstract!RightAnswer(q)'
  <2>1. Vectors!RightAnswer(q)'
    OBVIOUS
  <2> QED  BY <2>1
              DEF Vectors!RightAnswer, Vectors!Present, Vectors!KeyAt, Vectors!Abstract!RightAnswer,
                  Vectors!Abstract!KeyAt
<1>5. DOMAIN v_found' = Vectors!QueryIdx /\ DOMAIN v_results' = Vectors!QueryIdx
  BY <1>2 DEF Vectors!OutsTypeOK
<1> QED  BY <1>1, <1>2, <1>3, <1>4, <1>5 DEF Vectors!Abstract!Answer

LEMMA VectorsStepRefines ==
  ASSUME VectorsIInv, [Vectors!Next]_(Vectors!vars)
  PROVE  [Vectors!Abstract!Next]_(Vectors!Abstract!vars)
<1>1. VectorsIInv' /\ Vectors!OutsTypeOK'
  BY VectorsStepIInv DEF VectorsIInv, VectorsTypes
<1>2. CASE Vectors!Start
  <2>1. UNCHANGED <<Vectors!args, Vectors!outs>> /\ v_pc = "start" /\ v_pc' = IF Vectors!NothingToDo THEN "returned" ELSE "vector"
    BY <1>2 DEF Vectors!Start
  <2>2. Vectors!Answered = {} /\ Vectors!Settled' = {} /\ Vectors!Settled = {}
    BY <1>2, <2>1, VectorsStartStep DEF Vectors!Answered
  <2>3. CASE Vectors!NothingToDo
    <3>1. Vectors!Answered' = Vectors!QueryIdx /\ Vectors!QueryIdx' = Vectors!QueryIdx
      BY <2>1, <2>3, VectorsOutsUnchanged DEF Vectors!Answered
    <3>2. \A q \in Vectors!QueryIdx : Vectors!RightAnswer(q)'
      BY <2>1, <2>2, <2>3, VectorsOutsUnchanged, VectorsNothingToDoIsRight
         DEF VectorsIInv, VectorsTypes, VectorsSettledRight
    <3>3. v_found' = v_found /\ v_results' = v_results
      BY <2>1 DEF Vectors!outs
    <3>4. CASE Vectors!QueryIdx = {}
      BY <2>1, <2>2, <3>1, <3>4, VectorsAbstractStutter
    <3>5. CASE Vectors!QueryIdx # {}
      BY <1>1, <2>1, <2>2, <3>1, <3>2, <3>3, <3>5, VectorsAbstractAnswer DEF Vectors!Abstract!Next
    <3> QED  BY <3>4, <3>5
  <2>4. CASE ~Vectors!NothingToDo
    BY <2>1, <2>2, <2>4, VectorsAbstractStutter DEF Vectors!Answered
  <2> QED  BY <2>3, <2>4
<1>3. CASE Vectors!NextVector
  <2>1. /\ UNCHANGED <<Vectors!args, Vectors!outs>> /\ v_pc = "vector"
        /\ Vectors!Settled' = Vectors!Settled /\ Vectors!QueryIdx' = Vectors!QueryIdx
    BY <1>3, VectorsNextVectorStep, VectorsOutsUnchanged DEF Vectors!NextVector
  <2>2. Vectors!n \in Nat /\ v_start \in Nat
    BY VectorsVectorFacts
  <2>3. CASE v_start < Vectors!n
    <3>1. v_pc' = "level"
      BY <1>3, <2>3 DEF Vectors!NextVector
    <3> QED  BY <2>1, <3>1, VectorsAbstractStutter DEF Vectors!Answered
  <2>4. CASE ~(v_start < Vectors!n)
    <3>1. Vectors!Settled = Vectors!QueryIdx
      BY <2>2, <2>4 DEF Vectors!Settled, Vectors!QueryIdx
    <3> QED  BY <2>1, <3>1, VectorsAbstractStutter DEF Vectors!Answered
  <2> QED  BY <2>3, <2>4
<1>4. CASE Vectors!SearchPass \/ Vectors!ChildPass
  <2>1. /\ UNCHANGED <<Vectors!args, Vectors!outs>> /\ Vectors!Settled' = Vectors!Settled
        /\ v_pc # "returned" /\ v_pc' # "returned"
    BY <1>4, VectorsSearchPassStep, VectorsChildPassStep DEF Vectors!SearchPass, Vectors!ChildPass
  <2> QED  BY <2>1, VectorsAbstractStutter DEF Vectors!Answered
<1>5. CASE Vectors!Collect
  <2>1. UNCHANGED Vectors!args /\ v_pc = "collect" /\ v_pc' = "vector"
    BY <1>5 DEF Vectors!Collect
  <2>2. PICK Qs \in SUBSET (Vectors!QueryIdx \ Vectors!Settled) :
           /\ Qs # {} /\ Vectors!Settled' = Vectors!Settled \cup Qs
           /\ \A r \in Vectors!QueryIdx \ Qs : v_found'[r] = v_found[r] /\ v_results'[r] = v_results[r]
    BY <1>5, VectorsCollectStep
  <2>3. Vectors!Answered = Vectors!Settled /\ Vectors!Answered' = Vectors!Settled \cup Qs
    BY <2>1, <2>2 DEF Vectors!Answered
  <2>4. Vectors!QueryIdx' = Vectors!QueryIdx /\ Vectors!Settled \subseteq Vectors!QueryIdx
    BY <2>1 DEF Vectors!QueryIdx, Vectors!n, Vectors!args, Vectors!Settled
  <2>5. \A q \in Qs : Vectors!RightAnswer(q)'
    BY <1>1, <2>2, <2>4 DEF VectorsIInv, VectorsSettledRight
  <2>6. Vectors!Answered' \ Vectors!Answered = Qs
    BY <2>2, <2>3
  <2>7. /\ Vectors!Answered \subseteq Vectors!Answered'
        /\ Vectors!Answered' \subseteq Vectors!QueryIdx /\ Vectors!Answered # Vectors!Answered'
    BY <2>2, <2>3, <2>4, <2>6
  <2>8. Vectors!Abstract!Answer
    BY <1>1, <2>1, <2>2, <2>5, <2>6, <2>7, VectorsAbstractAnswer
  <2> QED  BY <2>8 DEF Vectors!Abstract!Next
<1>6. CASE UNCHANGED Vectors!vars
  <2>1. UNCHANGED <<Vectors!args, Vectors!outs, v_start>> /\ v_pc' = v_pc
    BY <1>6 DEF Vectors!vars, Vectors!args, Vectors!outs
  <2>2. Vectors!Answered' = Vectors!Answered
    BY <2>1, VectorsQuiet DEF Vectors!Answered
  <2> QED  BY <2>1, <2>2, VectorsAbstractStutter
<1> QED  BY <1>2, <1>3, <1>4, <1>5, <1>6
            DEF Vectors!Next, Vectors!Returned, Vectors!Descend, Vectors!CollectKeys

-----------------------------------------------------------------------------
(* Vectorized_Linear: the operators and the lemmas it has from the lookup. *)

LEMMA LinearSameTrees ==
  \A t : /\ Linear!WellFormed(t) <=> WellFormed(t)
         /\ Linear!NodeIds(t) = NodeIds(t)
         /\ Linear!Stored(t) = Stored(t)
BY DEF Linear!WellFormed, WellFormed, Linear!NodeOK, NodeOK, Linear!ChildrenOK, ChildrenOK,
       Linear!LeafOwns, LeafOwns, Linear!Sorted, Sorted, Linear!Slots, Slots,
       Linear!isleafnode, isleafnode, Linear!NodeIds, NodeIds,
       Linear!Stored, Stored, Linear!Leaves, Leaves

LEMMA LinearSameChild ==
  \A nd, key : /\ Linear!Child(nd, key) = Child(nd, key)
               /\ Linear!isleafnode(nd) <=> isleafnode(nd)
BY DEF Linear!Child, Child, Linear!find_lower, find_lower,
       Linear!IsLowerBound, IsLowerBound, Linear!isleafnode, isleafnode

LEMMA LinearSame ==
  /\ \A t : Linear!WellFormed(t) <=> Lookup!WellFormed(t)
  /\ Linear!n = Lookup!n /\ Linear!QueryIdx = Lookup!QueryIdx
  /\ Linear!args = Lookup!args /\ Linear!outs = Lookup!outs
  /\ Linear!n' = Lookup!n' /\ Linear!QueryIdx' = Lookup!QueryIdx'
  /\ Linear!args' = Lookup!args' /\ Linear!outs' = Lookup!outs'
  /\ Linear!NodeIds(tree) = Lookup!NodeIds(tree) /\ Linear!NodeIds(tree)' = Lookup!NodeIds(tree)'
  /\ Linear!Stored(tree) = Lookup!Stored(tree)
  /\ Linear!OutsTypeOK <=> Lookup!OutsTypeOK
  /\ Linear!OutsTypeOK' <=> Lookup!OutsTypeOK'
  /\ Linear!NothingToDo <=> Lookup!NothingToDo
  /\ Linear!NothingToDo' <=> Lookup!NothingToDo'
  /\ \A q : /\ Linear!RightAnswer(q) <=> Lookup!RightAnswer(q)
            /\ Linear!RightAnswer(q)' <=> Lookup!RightAnswer(q)'
            /\ Linear!Unanswered(q) <=> Lookup!Unanswered(q)
            /\ Linear!Unanswered(q)' <=> Lookup!Unanswered(q)'
            /\ Linear!KeyAt(q) = Lookup!KeyAt(q)
            /\ Linear!KeyAt(q)' = Lookup!KeyAt(q)'
  /\ \A q, v : /\ Linear!OnPath(q, v) <=> Lookup!OnPath(q, v)
               /\ Linear!OnPath(q, v)' <=> Lookup!OnPath(q, v)'
               /\ Linear!IsLeafId(v) <=> Lookup!IsLeafId(v)
  /\ \A reached : Linear!WriteAnswers(reached) <=> Lookup!WriteAnswers(reached)
<1>1. \A t : Linear!WellFormed(t) <=> Lookup!WellFormed(t)
  BY LinearSameTrees, LookupSameTrees
<1>2. \A reached : Linear!WriteAnswers(reached) <=> Lookup!WriteAnswers(reached)
  BY DEF Linear!WriteAnswers, Lookup!WriteAnswers, Linear!Hit, Lookup!Hit, Linear!Data, Lookup!Data,
         Linear!find_lower, Lookup!find_lower, Linear!IsLowerBound, Lookup!IsLowerBound,
         Linear!KeyAt, Lookup!KeyAt, Linear!QueryIdx, Lookup!QueryIdx, Linear!n, Lookup!n,
         Linear!Node, Lookup!Node
<1> QED
  BY <1>1, <1>2
  DEF Linear!OutsTypeOK, Lookup!OutsTypeOK, Linear!n, Lookup!n, Linear!QueryIdx, Lookup!QueryIdx,
      Linear!RightAnswer, Lookup!RightAnswer, Linear!Present, Lookup!Present,
      Linear!Stored, Lookup!Stored, Linear!Leaves, Lookup!Leaves, Linear!KeyAt, Lookup!KeyAt,
      Linear!NodeIds, Lookup!NodeIds, Linear!Slots, Lookup!Slots, Linear!isleafnode, Lookup!isleafnode,
      Linear!args, Lookup!args, Linear!outs, Lookup!outs, Linear!NothingToDo, Lookup!NothingToDo,
      Linear!Unanswered, Lookup!Unanswered, Linear!OnPath, Lookup!OnPath,
      Linear!IsLeafId, Lookup!IsLeafId, Linear!Node, Lookup!Node

LEMMA LinearCounts == \A S : Linear!Cardinality(S) = Cardinality(S)
BY DEF Linear!Cardinality, Cardinality

LEMMA LinearSameSearch ==
  /\ \A nd : (Linear!Sorted(nd) <=> Sorted(nd)) /\ Linear!Slots(nd) = Slots(nd)
  /\ \A nd, key : /\ Linear!find_lower(nd, key) = find_lower(nd, key)
                  /\ Linear!Hit(nd, key) <=> Hit(nd, key)
  /\ \A nd, key, p : Linear!IsLowerBound(nd, key, p) <=> IsLowerBound(nd, key, p)
BY DEF Linear!Sorted, Sorted, Linear!Slots, Slots, Linear!find_lower, find_lower, Linear!Hit, Hit,
       Linear!IsLowerBound, IsLowerBound

LEMMA LinearArgsFacts ==
  ASSUME Linear!OutsTypeOK
  PROVE  /\ Linear!WellFormed(tree)
         /\ Linear!n \in Nat
         /\ \A q \in Linear!QueryIdx : Linear!KeyAt(q) \in Key
BY LinearSame, LookupSameTrees, Lookup!ArgsFacts, KeyAssumption, TreesAssumption, BatchesAssumption,
   StaleAssumption

LEMMA LinearPositionsFinite ==
  ASSUME Linear!OutsTypeOK, NEW S, S \subseteq Linear!QueryIdx
  PROVE  /\ IsFiniteSet(S)
         /\ Cardinality(S) \in Nat
         /\ Cardinality(S) <= Linear!n
         /\ Cardinality(S) = Linear!n => S = Linear!QueryIdx
BY LinearSame, LookupSameTrees, LookupCounts, Lookup!PositionsFinite, KeyAssumption, TreesAssumption,
   BatchesAssumption, StaleAssumption

LEMMA LinearLeavesGiveRightAnswers ==
  ASSUME Linear!OutsTypeOK, NEW Qs, Qs \subseteq Linear!QueryIdx, NEW reached, DOMAIN reached = Qs,
         \A q \in Qs : /\ reached[q] \in Linear!NodeIds(tree) /\ Linear!IsLeafId(reached[q])
                       /\ Linear!OnPath(q, reached[q]) /\ Linear!Unanswered(q),
         Linear!WriteAnswers(reached), UNCHANGED Linear!args
  PROVE  /\ Linear!OutsTypeOK'
         /\ Linear!QueryIdx' = Linear!QueryIdx
         /\ \A q \in Qs : Linear!RightAnswer(q)'
         /\ \A q \in Linear!QueryIdx \ Qs : v_found'[q] = v_found[q] /\ v_results'[q] = v_results[q]
BY LinearSame, LookupSameTrees, Lookup!LeavesGiveRightAnswers, KeyAssumption, TreesAssumption,
   BatchesAssumption, StaleAssumption

LEMMA LinearOutsUnchanged ==
  ASSUME UNCHANGED <<Linear!args, Linear!outs>>
  PROVE  /\ Linear!n' = Linear!n /\ Linear!QueryIdx' = Linear!QueryIdx
         /\ Linear!NodeIds(tree)' = Linear!NodeIds(tree)
         /\ (Linear!NothingToDo' <=> Linear!NothingToDo)
         /\ (Linear!OutsTypeOK => Linear!OutsTypeOK')
         /\ \A q : /\ Linear!RightAnswer(q)' <=> Linear!RightAnswer(q)
                   /\ Linear!Unanswered(q)' <=> Linear!Unanswered(q)
                   /\ Linear!KeyAt(q)' = Linear!KeyAt(q)
         /\ \A q, v : Linear!OnPath(q, v)' <=> Linear!OnPath(q, v)
BY LinearSame, LookupSameTrees, Lookup!OutsUnchanged, KeyAssumption, TreesAssumption,
   BatchesAssumption, StaleAssumption

LEMMA LinearNothingToDoIsRight ==
  ASSUME Linear!OutsTypeOK, Linear!NothingToDo, NEW q \in Linear!QueryIdx, Linear!Unanswered(q)
  PROVE  Linear!RightAnswer(q)
BY LinearSame, LookupSameTrees, Lookup!NothingToDoIsRight, KeyAssumption, TreesAssumption,
   BatchesAssumption, StaleAssumption

LEMMA LinearAbstractTypes ==
  ASSUME Linear!OutsTypeOK
  PROVE  Linear!Stored(tree) \in SUBSET (Key \X Value) /\ queries \in Seq(Key)
BY LinearSame, LookupSameTrees, Lookup!AbstractTypes, KeyAssumption, TreesAssumption,
   BatchesAssumption, StaleAssumption

LEMMA LinearDescentStep ==
  ASSUME NEW t, Linear!WellFormed(t), NEW v \in Linear!NodeIds(t), ~Linear!isleafnode(t.node[v]),
         NEW key \in Key, t.lo[v] < key, key <= t.hi[v]
  PROVE  LET c == Linear!Child(t.node[v], key)
         IN  /\ c \in Linear!NodeIds(t)
             /\ t.node[c].level + 1 = t.node[v].level
             /\ t.lo[c] < key
             /\ key <= t.hi[c]
BY LinearSameTrees, LinearSameChild, DescentStep, KeyAssumption

LEMMA LinearLeafAnswers ==
  ASSUME NEW t, Linear!WellFormed(t), NEW v \in Linear!NodeIds(t), Linear!isleafnode(t.node[v]),
         NEW key \in Key, t.lo[v] < key, key <= t.hi[v]
  PROVE  Linear!Hit(t.node[v], key) <=> Linear!Present(t, key)
<1>1. Linear!isleafnode(t.node[v]) <=> isleafnode(t.node[v])
  BY LinearSameChild
<1>2. WellFormed(t) /\ v \in NodeIds(t) /\ isleafnode(t.node[v])
  BY <1>1, LinearSameTrees
<1>3. Hit(t.node[v], key) <=> Present(t, key)
  BY <1>2, LeafAnswers
<1>4. Linear!Present(t, key) <=> Present(t, key)
  BY LinearSameTrees DEF Linear!Present, Present
<1> QED  BY <1>3, <1>4, LinearSameSearch

-----------------------------------------------------------------------------
(* The inductive invariant of Vectorized_Linear.                           *)

LinearPhases ==
  /\ v_pc = "start" => v_start = 0
  /\ v_pc \notin {"start", "returned"} => ~Linear!NothingToDo
  /\ v_pc = "level" => v_start < Linear!n
  /\ v_pc = "returned" /\ ~Linear!NothingToDo => v_start >= Linear!n

(* The hits of the vectors before this one have been answered with keys. *)
LinearKeysGiven ==
  \A q \in Linear!QueryIdx :
    IF q \in Linear!Settled /\ Linear!Present(tree, Linear!KeyAt(q)) THEN v_found[q] /\ v_results[q] = Linear!KeyAt(q)
    ELSE Linear!Unanswered(q)

LinearTypes ==
  /\ tree \in Trees /\ queries \in Batches
  /\ v_found \in [Linear!QueryIdx -> BOOLEAN]
  /\ v_results \in [Linear!QueryIdx -> Key \cup {Stale}]
  /\ v_pc \in {"start", "vector", "level", "returned"}
  /\ v_start \in Nat
  /\ v_nodes \in [Linear!Vector -> Linear!NodeIds(tree) \cup {NULL}]
  /\ v_slots \in [Linear!Vector -> Nat]

LinearIInv == LinearTypes /\ LinearPhases /\ Linear!VectorInStep /\ LinearKeysGiven

LEMMA LinearVectorFacts ==
  ASSUME LinearIInv
  PROVE  /\ Linear!n \in Nat /\ v_start \in Nat /\ GROUP_SIZE \in Nat \ {0}
         /\ Linear!WellFormed(tree)
         /\ \A q \in Linear!QueryIdx : Linear!KeyAt(q) \in Key
         /\ \A j \in Linear!InBatch : /\ j \in Linear!Vector /\ j \in Nat /\ v_start + j \in Linear!QueryIdx
                                      /\ Linear!KeyOf(j) \in Key
                                      /\ v_start + j \notin Linear!Settled
         /\ v_start < Linear!n => 0 \in Linear!InBatch
<1>1. Linear!WellFormed(tree) /\ queries \in Seq(Key) /\ v_start \in Nat /\ GROUP_SIZE \in Nat \ {0}
  BY LinearSameTrees, TreesAssumption, BatchesAssumption, GroupAssumption DEF LinearIInv, LinearTypes
<1>2. Linear!n \in Nat
  BY <1>1 DEF Linear!n
<1>3. \A q \in Linear!QueryIdx : Linear!KeyAt(q) \in Key
  BY <1>1 DEF Linear!n, Linear!QueryIdx, Linear!KeyAt
<1>4. ASSUME NEW j \in Linear!InBatch
      PROVE  /\ j \in Linear!Vector /\ j \in Nat /\ v_start + j \in Linear!QueryIdx
             /\ Linear!KeyOf(j) \in Key
             /\ v_start + j \notin Linear!Settled
  <2>1. j \in Linear!Vector /\ j \in Nat /\ v_start + j \in Linear!QueryIdx /\ ~(v_start + j < v_start)
    BY <1>1, <1>2 DEF Linear!InBatch, Linear!Vector, Linear!QueryIdx
  <2> QED  BY <1>3, <2>1 DEF Linear!KeyOf, Linear!Settled
<1>5. v_start < Linear!n => 0 \in Linear!InBatch
  BY <1>1, <1>2 DEF Linear!InBatch, Linear!Vector
<1> QED  BY <1>1, <1>2, <1>3, <1>4, <1>5

LEMMA LinearIInvImpliesVectorExact == LinearIInv => Linear!VectorExact
<1> SUFFICES ASSUME LinearIInv PROVE Linear!VectorExact
  OBVIOUS
<1>1. Linear!TypeOK
  BY DEF LinearIInv, LinearTypes, Linear!TypeOK
<1>2. Linear!SlotsFresh
  BY DEF LinearIInv, LinearTypes, Linear!SlotsFresh
<1>3. Linear!FoundRight
  <2>1. CASE v_pc = "returned" /\ Linear!NothingToDo
    <3>1. \A q \in Linear!QueryIdx : ~Linear!Present(tree, Linear!KeyAt(q))
      <4>1. CASE tree.root = NULL
        BY <4>1, LinearVectorFacts DEF Linear!WellFormed, Linear!Present, Linear!Stored, Linear!Leaves
      <4>2. CASE Linear!n = 0
        BY <4>2 DEF Linear!QueryIdx
      <4> QED  BY <2>1, <4>1, <4>2 DEF Linear!NothingToDo
    <3> QED  BY <3>1 DEF Linear!FoundRight, LinearIInv, LinearKeysGiven
  <2>2. CASE v_pc = "returned" /\ ~Linear!NothingToDo
    <3>1. Linear!Settled = Linear!QueryIdx
      BY <2>2, LinearVectorFacts DEF LinearIInv, LinearPhases, Linear!Settled, Linear!QueryIdx
    <3> QED  BY <2>2, <3>1 DEF Linear!FoundRight, LinearIInv, LinearKeysGiven, Linear!Answered
  <2>3. CASE v_pc # "returned"
    BY <2>3 DEF Linear!FoundRight, LinearIInv, LinearKeysGiven, Linear!Answered
  <2> QED  BY <2>1, <2>2, <2>3
<1> QED  BY <1>1, <1>2, <1>3 DEF LinearIInv, Linear!VectorExact

(* A step that leaves arguments, answers and the position in the batch alone. *)
LEMMA LinearQuiet ==
  ASSUME LinearIInv, UNCHANGED <<Linear!args, Linear!outs, v_start>>
  PROVE  /\ Linear!n' = Linear!n /\ Linear!QueryIdx' = Linear!QueryIdx
         /\ Linear!NodeIds(tree)' = Linear!NodeIds(tree)
         /\ tree' = tree /\ queries' = queries /\ v_found' = v_found /\ v_results' = v_results
         /\ Linear!InBatch' = Linear!InBatch /\ (Linear!NothingToDo' <=> Linear!NothingToDo)
         /\ LinearKeysGiven'
         /\ \A q, v : Linear!OnPath(q, v)' <=> Linear!OnPath(q, v)
<1>1. /\ tree' = tree /\ queries' = queries /\ v_start' = v_start
      /\ v_found' = v_found /\ v_results' = v_results
  BY DEF Linear!args, Linear!outs
<1>2. /\ Linear!n' = Linear!n /\ Linear!QueryIdx' = Linear!QueryIdx
      /\ Linear!NodeIds(tree)' = Linear!NodeIds(tree)
      /\ (Linear!NothingToDo' <=> Linear!NothingToDo)
      /\ \A q, v : Linear!OnPath(q, v)' <=> Linear!OnPath(q, v)
  BY LinearOutsUnchanged
<1>3. Linear!InBatch' = Linear!InBatch /\ Linear!Settled' = Linear!Settled
  BY <1>1, <1>2 DEF Linear!InBatch, Linear!Settled
<1>4. Linear!Stored(tree)' = Linear!Stored(tree) /\ \A q : Linear!KeyAt(q)' = Linear!KeyAt(q)
  BY <1>1 DEF Linear!Stored, Linear!Leaves, Linear!NodeIds, Linear!Slots, Linear!isleafnode, Linear!KeyAt
<1>5. \A q : Linear!Present(tree, Linear!KeyAt(q))' <=> Linear!Present(tree, Linear!KeyAt(q))
  BY <1>4 DEF Linear!Present
<1>6. LinearKeysGiven'
  BY <1>1, <1>2, <1>3, <1>4, <1>5 DEF LinearIInv, LinearKeysGiven, Linear!Unanswered
<1> QED  BY <1>1, <1>2, <1>3, <1>6

-----------------------------------------------------------------------------
(* The invariant is inductive.                                             *)

LEMMA LinearInitIInv ==
  ASSUME Linear!Init
  PROVE  LinearIInv
<1>1. queries \in Seq(Key)
  BY BatchesAssumption DEF Linear!Init, Linear!ArgsAndOutsInit
<1>2. Linear!n \in Nat
  BY <1>1 DEF Linear!n
<1>3. LinearTypes
  BY DEF Linear!Init, Linear!ArgsAndOutsInit, LinearTypes
<1>4. Linear!Settled = {}
  BY <1>2 DEF Linear!Init, Linear!Settled, Linear!QueryIdx
<1>5. LinearPhases /\ Linear!VectorInStep
  BY DEF Linear!Init, LinearPhases, Linear!VectorInStep
<1>6. LinearKeysGiven
  BY <1>4 DEF Linear!Init, Linear!ArgsAndOutsInit, LinearKeysGiven, Linear!Unanswered
<1> QED  BY <1>3, <1>5, <1>6 DEF LinearIInv

LEMMA LinearStartStep ==
  ASSUME LinearIInv, Linear!Start
  PROVE  LinearIInv'
<1>1. /\ UNCHANGED <<Linear!args, Linear!outs, v_start, v_nodes, v_slots>>
      /\ v_pc = "start" /\ v_pc' = IF Linear!NothingToDo THEN "returned" ELSE "vector"
  BY DEF Linear!Start
<1>2. /\ Linear!NodeIds(tree)' = Linear!NodeIds(tree)
      /\ (Linear!NothingToDo' <=> Linear!NothingToDo) /\ Linear!QueryIdx' = Linear!QueryIdx
      /\ tree' = tree /\ queries' = queries /\ v_found' = v_found /\ v_results' = v_results
      /\ LinearKeysGiven'
  BY <1>1, LinearQuiet
<1>3. LinearTypes'
  BY <1>1, <1>2 DEF LinearIInv, LinearTypes
<1>4. LinearPhases' /\ Linear!VectorInStep'
  BY <1>1, <1>2 DEF LinearPhases, Linear!VectorInStep
<1> QED  BY <1>2, <1>3, <1>4 DEF LinearIInv

LEMMA LinearNextVectorStep ==
  ASSUME LinearIInv, Linear!NextVector
  PROVE  LinearIInv'
<1>1. /\ UNCHANGED <<Linear!args, Linear!outs, v_start, v_slots>> /\ v_pc = "vector"
      /\ v_pc' = IF v_start < Linear!n THEN "level" ELSE "returned"
  BY DEF Linear!NextVector
<1>2. /\ Linear!n' = Linear!n /\ Linear!NodeIds(tree)' = Linear!NodeIds(tree)
      /\ (Linear!NothingToDo' <=> Linear!NothingToDo)
      /\ Linear!QueryIdx' = Linear!QueryIdx /\ Linear!InBatch' = Linear!InBatch
      /\ tree' = tree /\ queries' = queries /\ v_found' = v_found /\ v_results' = v_results
      /\ LinearKeysGiven' /\ ~Linear!NothingToDo
  BY <1>1, LinearQuiet DEF LinearIInv, LinearPhases
<1>3. Linear!n \in Nat /\ v_start \in Nat
  BY LinearVectorFacts
<1>4. LinearPhases'
  BY <1>1, <1>2, <1>3 DEF LinearPhases
<1>5. CASE v_start < Linear!n
  <2>1. v_nodes' = [j \in Linear!Vector |-> IF j \in Linear!InBatch THEN tree.root ELSE v_nodes[j]]
    BY <1>5 DEF Linear!NextVector
  <2>2. tree.root \in Linear!NodeIds(tree) /\ \A j \in Linear!InBatch : Linear!OnPath(v_start + j, tree.root)
    <3>1. Linear!WellFormed(tree) /\ \A j \in Linear!InBatch : Linear!KeyAt(v_start + j) \in Key
      BY LinearVectorFacts DEF Linear!KeyOf
    <3> QED  BY <1>2, <3>1 DEF Linear!WellFormed, Linear!NothingToDo, Linear!OnPath
  <2>3. LinearTypes'
    BY <1>1, <1>2, <1>5, <2>1, <2>2 DEF LinearIInv, LinearTypes
  <2>4. Linear!VectorInStep'
    <3>1. \A j \in Linear!InBatch : v_nodes'[j] = tree.root
      BY <2>1 DEF Linear!InBatch
    <3>2. 0 \in Linear!InBatch
      BY <1>5, LinearVectorFacts
    <3>3. ASSUME NEW j \in Linear!InBatch'
          PROVE  /\ v_nodes'[j] \in Linear!NodeIds(tree)'
                 /\ Linear!Node(v_nodes[j])'.level = Linear!Node(v_nodes[0])'.level
                 /\ Linear!OnPath(v_start + j, v_nodes[j])'
      <4>1. v_nodes'[j] = tree.root /\ v_nodes'[0] = tree.root
        BY <1>2, <3>1, <3>2
      <4> QED  BY <1>1, <1>2, <2>2, <4>1 DEF Linear!Node, Linear!OnPath, Linear!KeyAt
    <3> QED  BY <3>3 DEF Linear!VectorInStep
  <2> QED  BY <1>2, <1>4, <2>3, <2>4 DEF LinearIInv
<1>6. CASE ~(v_start < Linear!n)
  <2>1. v_pc' = "returned" /\ v_nodes' = v_nodes
    BY <1>6 DEF Linear!NextVector
  <2>2. LinearTypes' /\ Linear!VectorInStep'
    BY <1>1, <1>2, <2>1 DEF LinearIInv, LinearTypes, Linear!VectorInStep
  <2> QED  BY <1>2, <1>4, <2>2 DEF LinearIInv
<1> QED  BY <1>5, <1>6

(* The one pass moves every query of the vector to its child. *)
LEMMA LinearDescendStep ==
  ASSUME LinearIInv, Linear!Descend
  PROVE  LinearIInv'
<1>1. /\ UNCHANGED <<Linear!args, Linear!outs, v_pc, v_start, v_slots>> /\ v_pc = "level"
      /\ ~Linear!IsLeafId(v_nodes[0])
      /\ v_nodes' = [j \in Linear!Vector |-> IF j \in Linear!InBatch THEN Linear!Child(Linear!Node(v_nodes[j]), Linear!KeyOf(j))
                                             ELSE v_nodes[j]]
  BY DEF Linear!Descend
<1>2. /\ Linear!n' = Linear!n /\ Linear!NodeIds(tree)' = Linear!NodeIds(tree)
      /\ (Linear!NothingToDo' <=> Linear!NothingToDo)
      /\ Linear!QueryIdx' = Linear!QueryIdx /\ Linear!InBatch' = Linear!InBatch
      /\ tree' = tree /\ queries' = queries /\ v_found' = v_found /\ v_results' = v_results
      /\ LinearKeysGiven'
  BY <1>1, LinearQuiet
<1>3. v_start < Linear!n /\ 0 \in Linear!InBatch /\ Linear!WellFormed(tree)
  BY <1>1, LinearVectorFacts DEF LinearIInv, LinearPhases
<1>4. ASSUME NEW j \in Linear!InBatch
      PROVE  /\ v_nodes'[j] \in Linear!NodeIds(tree)
             /\ tree.node[v_nodes'[j]].level + 1 = Linear!Node(v_nodes[0]).level
             /\ tree.node[v_nodes'[j]].level \in Nat
             /\ Linear!OnPath(v_start + j, v_nodes'[j])
  <2>1. j \in Linear!Vector /\ Linear!KeyOf(j) \in Key
    BY LinearVectorFacts
  <2>2. /\ v_nodes[j] \in Linear!NodeIds(tree)
        /\ Linear!Node(v_nodes[j]).level = Linear!Node(v_nodes[0]).level
        /\ Linear!OnPath(v_start + j, v_nodes[j])
    BY <1>1 DEF LinearIInv, Linear!VectorInStep
  <2>3. v_nodes'[j] = Linear!Child(Linear!Node(v_nodes[j]), Linear!KeyOf(j))
    BY <1>1, <2>1
  <2>4. PICK v, c : v = v_nodes[j] /\ c = Linear!Child(Linear!Node(v_nodes[j]), Linear!KeyOf(j))
    OBVIOUS
  <2>5. /\ c \in Linear!NodeIds(tree) /\ tree.node[c].level + 1 = tree.node[v].level
        /\ tree.lo[c] < Linear!KeyOf(j) /\ Linear!KeyOf(j) <= tree.hi[c]
    <3>1. /\ v \in Linear!NodeIds(tree) /\ ~Linear!isleafnode(tree.node[v])
          /\ tree.lo[v] < Linear!KeyOf(j)
          /\ Linear!KeyOf(j) <= tree.hi[v] /\ c = Linear!Child(tree.node[v], Linear!KeyOf(j))
      BY <1>1, <2>2, <2>4 DEF Linear!IsLeafId, Linear!isleafnode, Linear!Node, Linear!OnPath, Linear!KeyOf
    <3> QED  BY <1>3, <2>1, <3>1, LinearDescentStep
  <2>6. tree.node[c].level \in Nat
    BY <1>3, <2>5 DEF Linear!WellFormed, Linear!NodeOK
  <2> QED  BY <2>2, <2>3, <2>4, <2>5, <2>6 DEF Linear!OnPath, Linear!KeyOf, Linear!Node
<1>5. LinearTypes'
  <2>1. v_nodes' \in [Linear!Vector -> Linear!NodeIds(tree) \cup {NULL}]
    BY <1>1, <1>4 DEF LinearIInv, LinearTypes
  <2> QED  BY <1>1, <1>2, <2>1 DEF LinearIInv, LinearTypes
<1>6. LinearPhases'
  BY <1>1, <1>2 DEF LinearIInv, LinearPhases
<1>7. Linear!VectorInStep'
  <2> SUFFICES ASSUME NEW j \in Linear!InBatch'
               PROVE  /\ v_nodes'[j] \in Linear!NodeIds(tree)'
                      /\ Linear!Node(v_nodes[j])'.level = Linear!Node(v_nodes[0])'.level
                      /\ Linear!OnPath(v_start + j, v_nodes[j])'
    BY DEF Linear!VectorInStep
  <2>1. v_nodes'[j] \in Linear!NodeIds(tree) /\ Linear!OnPath(v_start + j, v_nodes'[j])
    BY <1>2, <1>4
  <2>2. tree.node[v_nodes'[j]].level = tree.node[v_nodes'[0]].level
    <3>1. PICK a, b, m : /\ a = tree.node[v_nodes'[j]].level /\ b = tree.node[v_nodes'[0]].level
                         /\ m = Linear!Node(v_nodes[0]).level
      OBVIOUS
    <3>2. a \in Nat /\ b \in Nat /\ a + 1 = m /\ b + 1 = m
      BY <1>2, <1>3, <1>4, <3>1
    <3>3. a = b
      BY <3>2
    <3> QED  BY <3>1, <3>3
  <2> QED  BY <1>1, <1>2, <2>1, <2>2 DEF Linear!Node, Linear!OnPath, Linear!KeyAt
<1> QED  BY <1>2, <1>5, <1>6, <1>7 DEF LinearIInv

(* The leaves that a vector reaches say which of its keys are stored. *)
LEMMA LinearHitsArePresent ==
  ASSUME LinearIInv, v_pc = "level", Linear!IsLeafId(v_nodes[0]), NEW q, q - v_start \in Linear!InBatch, q \in Int
  PROVE  /\ q \in Linear!QueryIdx /\ q \notin Linear!Settled
         /\ Linear!HitAt(q) \in BOOLEAN
         /\ Linear!HitAt(q) <=> Linear!Present(tree, Linear!KeyAt(q))
         /\ Linear!HitAt(q) => Linear!SlotKeyAt(q) = Linear!KeyAt(q)
<1>1. PICK j : j = q - v_start
  OBVIOUS
<1>2. v_start \in Nat /\ j \in Linear!InBatch /\ q = v_start + j /\ Linear!WellFormed(tree)
  <2>1. v_start \in Nat /\ j \in Linear!InBatch /\ Linear!WellFormed(tree)
    BY <1>1, LinearVectorFacts
  <2> QED  BY <1>1, <2>1
<1>3. q \in Linear!QueryIdx /\ q \notin Linear!Settled /\ Linear!KeyAt(q) \in Key
  BY <1>2, LinearVectorFacts
<1>4. /\ v_nodes[j] \in Linear!NodeIds(tree) /\ Linear!isleafnode(tree.node[v_nodes[j]])
      /\ tree.lo[v_nodes[j]] < Linear!KeyAt(q) /\ Linear!KeyAt(q) <= tree.hi[v_nodes[j]]
  BY <1>2 DEF LinearIInv, Linear!VectorInStep, Linear!OnPath, Linear!IsLeafId, Linear!isleafnode, Linear!Node
<1>5. Linear!Hit(tree.node[v_nodes[j]], Linear!KeyAt(q)) <=> Linear!Present(tree, Linear!KeyAt(q))
  BY <1>2, <1>3, <1>4, LinearLeafAnswers
<1>6. Linear!HitAt(q) <=> Linear!Hit(tree.node[v_nodes[j]], Linear!KeyAt(q))
  BY <1>1, <1>2 DEF Linear!HitAt, Linear!Node
<1>7. Linear!HitAt(q) => Linear!SlotKeyAt(q) = Linear!KeyAt(q)
  BY <1>1, <1>6 DEF Linear!SlotKeyAt, Linear!Node, Linear!Hit
<1>8. Linear!HitAt(q) \in BOOLEAN
  BY DEF Linear!HitAt, Linear!Hit
<1> QED  BY <1>3, <1>5, <1>6, <1>7, <1>8

LEMMA LinearCollectKeysStep ==
  ASSUME LinearIInv, Linear!CollectKeys
  PROVE  LinearIInv'
<1>1. /\ UNCHANGED <<Linear!args, v_nodes, v_slots>>
      /\ v_start' = v_start + GROUP_SIZE
      /\ v_pc = "level" /\ v_pc' = "vector" /\ Linear!IsLeafId(v_nodes[0])
      /\ v_found' = [q \in Linear!QueryIdx |-> IF q - v_start \in Linear!InBatch THEN Linear!HitAt(q) ELSE v_found[q]]
      /\ v_results' = [q \in Linear!QueryIdx |-> IF Linear!HitAt(q) THEN Linear!SlotKeyAt(q) ELSE v_results[q]]
  BY DEF Linear!CollectKeys
<1>2. /\ Linear!n \in Nat /\ v_start \in Nat /\ GROUP_SIZE \in Nat \ {0} /\ ~Linear!NothingToDo
      /\ \A q \in Linear!QueryIdx : Linear!KeyAt(q) \in Key
  BY <1>1, LinearVectorFacts DEF LinearIInv, LinearPhases
<1>3. tree' = tree /\ queries' = queries
  BY <1>1 DEF Linear!args
<1>4. /\ Linear!n' = Linear!n /\ Linear!QueryIdx' = Linear!QueryIdx
      /\ Linear!NodeIds(tree)' = Linear!NodeIds(tree)
      /\ (Linear!NothingToDo' <=> Linear!NothingToDo)
  BY <1>3 DEF Linear!n, Linear!QueryIdx, Linear!NodeIds, Linear!NothingToDo
<1>5. \A q \in Linear!QueryIdx : q \in Int
  BY <1>2 DEF Linear!QueryIdx
<1>6. \A q \in Linear!QueryIdx : q \in Linear!Settled' <=> q \in Linear!Settled \/ q - v_start \in Linear!InBatch
  <2> TAKE q \in Linear!QueryIdx
  <2>1. q \in Linear!Settled' <=> q < v_start + GROUP_SIZE
    BY <1>1, <1>4 DEF Linear!Settled
  <2>2. q \in Linear!Settled <=> q < v_start
    BY DEF Linear!Settled
  <2>3. q - v_start \in Linear!InBatch <=> ~(q < v_start) /\ q < v_start + GROUP_SIZE
    BY <1>2 DEF Linear!InBatch, Linear!Vector, Linear!QueryIdx
  <2> QED  BY <1>2, <1>5, <2>1, <2>2, <2>3
<1>7. \A q \in Linear!QueryIdx : q - v_start \in Linear!InBatch =>
        /\ q \notin Linear!Settled
        /\ Linear!HitAt(q) \in BOOLEAN
        /\ Linear!HitAt(q) <=> Linear!Present(tree, Linear!KeyAt(q))
        /\ Linear!HitAt(q) => Linear!SlotKeyAt(q) = Linear!KeyAt(q)
  BY <1>1, <1>5, LinearHitsArePresent
<1>8. \A q : q - v_start \notin Linear!InBatch => ~Linear!HitAt(q)
  BY DEF Linear!HitAt
<1>9. LinearTypes'
  <2>1. v_found' \in [Linear!QueryIdx -> BOOLEAN]
    BY <1>1, <1>7 DEF LinearIInv, LinearTypes
  <2>2. \A q \in Linear!QueryIdx : Linear!HitAt(q) => Linear!SlotKeyAt(q) \in Key
    BY <1>2, <1>7, <1>8
  <2>3. v_results' \in [Linear!QueryIdx -> Key \cup {Stale}]
    BY <1>1, <2>2 DEF LinearIInv, LinearTypes
  <2> QED  BY <1>1, <1>2, <1>3, <1>4, <2>1, <2>3 DEF LinearIInv, LinearTypes
<1>10. LinearKeysGiven'
  <2>1. Linear!Stored(tree)' = Linear!Stored(tree) /\ \A q : Linear!KeyAt(q)' = Linear!KeyAt(q)
    BY <1>3 DEF Linear!Stored, Linear!Leaves, Linear!NodeIds, Linear!Slots, Linear!isleafnode, Linear!KeyAt
  <2>2. \A q : Linear!Present(tree, Linear!KeyAt(q))' <=> Linear!Present(tree, Linear!KeyAt(q))
    BY <2>1 DEF Linear!Present
  <2>3. ASSUME NEW q \in Linear!QueryIdx
        PROVE  IF q \in Linear!Settled' /\ Linear!Present(tree, Linear!KeyAt(q)) THEN v_found'[q] /\ v_results'[q] = Linear!KeyAt(q)
               ELSE ~v_found'[q] /\ v_results'[q] = Stale
    <3>1. IF q \in Linear!Settled /\ Linear!Present(tree, Linear!KeyAt(q)) THEN v_found[q] /\ v_results[q] = Linear!KeyAt(q)
          ELSE ~v_found[q] /\ v_results[q] = Stale
      BY DEF LinearIInv, LinearKeysGiven, Linear!Unanswered
    <3>2. CASE q - v_start \in Linear!InBatch
      <4>1. v_found'[q] = Linear!HitAt(q) /\ v_results'[q] = IF Linear!HitAt(q) THEN Linear!SlotKeyAt(q) ELSE v_results[q]
        BY <1>1, <3>2
      <4> QED  BY <1>6, <1>7, <3>1, <3>2, <4>1
    <3>3. CASE q - v_start \notin Linear!InBatch
      <4>1. v_found'[q] = v_found[q] /\ v_results'[q] = v_results[q]
        BY <1>1, <1>8, <3>3
      <4> QED  BY <1>6, <3>1, <3>3, <4>1
    <3> QED  BY <3>2, <3>3
  <2> QED  BY <1>4, <2>1, <2>2, <2>3 DEF LinearKeysGiven, Linear!Unanswered
<1>11. LinearPhases' /\ Linear!VectorInStep'
  BY <1>1, <1>2, <1>4 DEF LinearPhases, Linear!VectorInStep
<1> QED  BY <1>9, <1>10, <1>11 DEF LinearIInv

LEMMA LinearStepIInv ==
  ASSUME LinearIInv, [Linear!Next]_(Linear!vars)
  PROVE  LinearIInv'
<1>1. CASE Linear!Start        BY <1>1, LinearStartStep
<1>2. CASE Linear!NextVector   BY <1>2, LinearNextVectorStep
<1>3. CASE Linear!Descend      BY <1>3, LinearDescendStep
<1>4. CASE Linear!CollectKeys  BY <1>4, LinearCollectKeysStep
<1>5. CASE Linear!ChildPass \/ Linear!Collect
  BY <1>5 DEF Linear!ChildPass, Linear!Collect, LinearIInv, LinearTypes
<1>6. CASE UNCHANGED Linear!vars
  <2>1. /\ UNCHANGED <<Linear!args, Linear!outs, v_start, v_nodes, v_slots>> /\ v_pc' = v_pc
    BY <1>6 DEF Linear!vars, Linear!args, Linear!outs
  <2>2. /\ Linear!n' = Linear!n /\ Linear!NodeIds(tree)' = Linear!NodeIds(tree)
        /\ (Linear!NothingToDo' <=> Linear!NothingToDo)
        /\ Linear!QueryIdx' = Linear!QueryIdx /\ Linear!InBatch' = Linear!InBatch
        /\ tree' = tree /\ queries' = queries /\ v_found' = v_found /\ v_results' = v_results
        /\ LinearKeysGiven'
    BY <2>1, LinearQuiet
  <2>3. LinearTypes' /\ LinearPhases'
    BY <2>1, <2>2 DEF LinearIInv, LinearTypes, LinearPhases
  <2>4. Linear!VectorInStep'
    BY <2>1, <2>2 DEF LinearIInv, Linear!VectorInStep, Linear!Node, Linear!OnPath, Linear!KeyAt
  <2> QED  BY <2>2, <2>3, <2>4 DEF LinearIInv
<1> QED  BY <1>1, <1>2, <1>3, <1>4, <1>5, <1>6 DEF Linear!Next, Linear!Returned, Linear!SearchPass

-----------------------------------------------------------------------------
(* find_group: the operators and the lemmas it has from the lookup.        *)

LEMMA FindSameTrees ==
  \A t : /\ Find!WellFormed(t) <=> WellFormed(t)
         /\ Find!NodeIds(t) = NodeIds(t)
         /\ Find!Stored(t) = Stored(t)
BY DEF Find!WellFormed, WellFormed, Find!NodeOK, NodeOK, Find!ChildrenOK, ChildrenOK,
       Find!LeafOwns, LeafOwns, Find!Sorted, Sorted, Find!Slots, Slots,
       Find!isleafnode, isleafnode, Find!NodeIds, NodeIds,
       Find!Stored, Stored, Find!Leaves, Leaves

LEMMA FindSameChild ==
  \A nd, key : /\ Find!Child(nd, key) = Child(nd, key)
               /\ Find!isleafnode(nd) <=> isleafnode(nd)
BY DEF Find!Child, Child, Find!find_lower, find_lower,
       Find!IsLowerBound, IsLowerBound, Find!isleafnode, isleafnode

LEMMA FindSame ==
  /\ \A t : Find!WellFormed(t) <=> Lookup!WellFormed(t)
  /\ Find!n = Lookup!n /\ Find!QueryIdx = Lookup!QueryIdx
  /\ Find!args = Lookup!args /\ Find!outs = Lookup!outs
  /\ Find!n' = Lookup!n' /\ Find!QueryIdx' = Lookup!QueryIdx'
  /\ Find!args' = Lookup!args' /\ Find!outs' = Lookup!outs'
  /\ Find!NodeIds(tree) = Lookup!NodeIds(tree) /\ Find!NodeIds(tree)' = Lookup!NodeIds(tree)'
  /\ Find!Stored(tree) = Lookup!Stored(tree)
  /\ Find!OutsTypeOK <=> Lookup!OutsTypeOK
  /\ Find!OutsTypeOK' <=> Lookup!OutsTypeOK'
  /\ Find!NothingToDo <=> Lookup!NothingToDo
  /\ Find!NothingToDo' <=> Lookup!NothingToDo'
  /\ \A q : /\ Find!RightAnswer(q) <=> Lookup!RightAnswer(q)
            /\ Find!RightAnswer(q)' <=> Lookup!RightAnswer(q)'
            /\ Find!Unanswered(q) <=> Lookup!Unanswered(q)
            /\ Find!Unanswered(q)' <=> Lookup!Unanswered(q)'
            /\ Find!KeyAt(q) = Lookup!KeyAt(q)
            /\ Find!KeyAt(q)' = Lookup!KeyAt(q)'
  /\ \A q, v : /\ Find!OnPath(q, v) <=> Lookup!OnPath(q, v)
               /\ Find!OnPath(q, v)' <=> Lookup!OnPath(q, v)'
               /\ Find!IsLeafId(v) <=> Lookup!IsLeafId(v)
  /\ \A reached : Find!WriteAnswers(reached) <=> Lookup!WriteAnswers(reached)
<1>1. \A t : Find!WellFormed(t) <=> Lookup!WellFormed(t)
  BY FindSameTrees, LookupSameTrees
<1>2. \A reached : Find!WriteAnswers(reached) <=> Lookup!WriteAnswers(reached)
  BY DEF Find!WriteAnswers, Lookup!WriteAnswers, Find!Hit, Lookup!Hit, Find!Data, Lookup!Data,
         Find!find_lower, Lookup!find_lower, Find!IsLowerBound, Lookup!IsLowerBound,
         Find!KeyAt, Lookup!KeyAt, Find!QueryIdx, Lookup!QueryIdx, Find!n, Lookup!n,
         Find!Node, Lookup!Node
<1> QED
  BY <1>1, <1>2
  DEF Find!OutsTypeOK, Lookup!OutsTypeOK, Find!n, Lookup!n, Find!QueryIdx, Lookup!QueryIdx,
      Find!RightAnswer, Lookup!RightAnswer, Find!Present, Lookup!Present,
      Find!Stored, Lookup!Stored, Find!Leaves, Lookup!Leaves, Find!KeyAt, Lookup!KeyAt,
      Find!NodeIds, Lookup!NodeIds, Find!Slots, Lookup!Slots, Find!isleafnode, Lookup!isleafnode,
      Find!args, Lookup!args, Find!outs, Lookup!outs, Find!NothingToDo, Lookup!NothingToDo,
      Find!Unanswered, Lookup!Unanswered, Find!OnPath, Lookup!OnPath,
      Find!IsLeafId, Lookup!IsLeafId, Find!Node, Lookup!Node

LEMMA FindCounts == \A S : Find!Cardinality(S) = Cardinality(S)
BY DEF Find!Cardinality, Cardinality

LEMMA FindSameSearch ==
  /\ \A nd : (Find!Sorted(nd) <=> Sorted(nd)) /\ Find!Slots(nd) = Slots(nd)
  /\ \A nd, key : /\ Find!find_lower(nd, key) = find_lower(nd, key)
                  /\ Find!Hit(nd, key) <=> Hit(nd, key)
  /\ \A nd, key, p : Find!IsLowerBound(nd, key, p) <=> IsLowerBound(nd, key, p)
BY DEF Find!Sorted, Sorted, Find!Slots, Slots, Find!find_lower, find_lower, Find!Hit, Hit,
       Find!IsLowerBound, IsLowerBound

LEMMA FindSameHalving ==
  /\ \A nd : Find!WholeRange(nd) = WholeRange(nd)
  /\ \A nd, key, rg : Find!Halve(nd, key, rg) = Halve(nd, key, rg)
BY DEF Find!WholeRange, WholeRange, Find!Halve, Halve

LEMMA FindArgsFacts ==
  ASSUME Find!OutsTypeOK
  PROVE  /\ Find!WellFormed(tree)
         /\ Find!n \in Nat
         /\ \A q \in Find!QueryIdx : Find!KeyAt(q) \in Key
BY FindSame, LookupSameTrees, Lookup!ArgsFacts, KeyAssumption, TreesAssumption, BatchesAssumption,
   StaleAssumption

LEMMA FindPositionsFinite ==
  ASSUME Find!OutsTypeOK, NEW S, S \subseteq Find!QueryIdx
  PROVE  /\ IsFiniteSet(S)
         /\ Cardinality(S) \in Nat
         /\ Cardinality(S) <= Find!n
         /\ Cardinality(S) = Find!n => S = Find!QueryIdx
BY FindSame, LookupSameTrees, LookupCounts, Lookup!PositionsFinite, KeyAssumption, TreesAssumption,
   BatchesAssumption, StaleAssumption

LEMMA FindLeavesAnswer ==
  ASSUME Find!OutsTypeOK, NEW Qs, Qs \subseteq Find!QueryIdx, NEW reached, DOMAIN reached = Qs,
         \A q \in Qs : /\ reached[q] \in Find!NodeIds(tree) /\ Find!IsLeafId(reached[q])
                       /\ Find!OnPath(q, reached[q]) /\ v_results[q] = Stale,
         Find!WriteAnswers(reached), UNCHANGED Find!args
  PROVE  /\ Find!OutsTypeOK'
         /\ Find!QueryIdx' = Find!QueryIdx
         /\ \A q \in Qs : Find!RightAnswer(q)'
         /\ \A q \in Find!QueryIdx \ Qs : v_found'[q] = v_found[q] /\ v_results'[q] = v_results[q]
BY FindSame, LookupSameTrees, Lookup!LeavesAnswer, KeyAssumption, TreesAssumption, BatchesAssumption,
   StaleAssumption

LEMMA FindOutsUnchanged ==
  ASSUME UNCHANGED <<Find!args, Find!outs>>
  PROVE  /\ Find!n' = Find!n /\ Find!QueryIdx' = Find!QueryIdx
         /\ Find!NodeIds(tree)' = Find!NodeIds(tree)
         /\ (Find!NothingToDo' <=> Find!NothingToDo)
         /\ (Find!OutsTypeOK => Find!OutsTypeOK')
         /\ \A q : /\ Find!RightAnswer(q)' <=> Find!RightAnswer(q)
                   /\ Find!Unanswered(q)' <=> Find!Unanswered(q)
                   /\ Find!KeyAt(q)' = Find!KeyAt(q)
         /\ \A q, v : Find!OnPath(q, v)' <=> Find!OnPath(q, v)
BY FindSame, LookupSameTrees, Lookup!OutsUnchanged, KeyAssumption, TreesAssumption, BatchesAssumption,
   StaleAssumption

LEMMA FindNothingToDoIsRight ==
  ASSUME Find!OutsTypeOK, Find!NothingToDo, NEW q \in Find!QueryIdx, Find!Unanswered(q)
  PROVE  Find!RightAnswer(q)
BY FindSame, LookupSameTrees, Lookup!NothingToDoIsRight, KeyAssumption, TreesAssumption,
   BatchesAssumption, StaleAssumption

LEMMA FindAbstractTypes ==
  ASSUME Find!OutsTypeOK
  PROVE  Find!Stored(tree) \in SUBSET (Key \X Value) /\ queries \in Seq(Key)
BY FindSame, LookupSameTrees, Lookup!AbstractTypes, KeyAssumption, TreesAssumption, BatchesAssumption,
   StaleAssumption

LEMMA FindDescentStep ==
  ASSUME NEW t, Find!WellFormed(t), NEW v \in Find!NodeIds(t), ~Find!isleafnode(t.node[v]),
         NEW key \in Key, t.lo[v] < key, key <= t.hi[v]
  PROVE  LET c == Find!Child(t.node[v], key)
         IN  /\ c \in Find!NodeIds(t)
             /\ t.node[c].level + 1 = t.node[v].level
             /\ t.lo[c] < key
             /\ key <= t.hi[c]
BY FindSameTrees, FindSameChild, DescentStep, KeyAssumption

LEMMA FindFindLowerIsLowerBound ==
  ASSUME NEW nd, NEW key \in Key,
         nd.slotuse \in Nat, nd.slotkey \in [Find!Slots(nd) -> Key]
  PROVE  /\ Find!IsLowerBound(nd, key, Find!find_lower(nd, key))
         /\ Find!find_lower(nd, key) \in 0 .. nd.slotuse
BY FindSameSearch, FindLowerIsLowerBound, KeyAssumption

LEMMA FindHalvingsSuffice ==
  ASSUME NEW nd, NEW key \in Key,
         nd.slotuse \in Nat, nd.slotkey \in [Find!Slots(nd) -> Key], Find!Sorted(nd),
         nd.slotuse < pow2[LEAF_STEPS],
         NEW g, g = CHOOSE h : h = [s \in 0 .. LEAF_STEPS |-> IF s = 0 THEN Find!WholeRange(nd)
                                                              ELSE Find!Halve(nd, key, h[s - 1])]
  PROVE  g[LEAF_STEPS].lo = Find!find_lower(nd, key)
<1> DEFINE Steps(h) == h = [s \in 0 .. LEAF_STEPS |-> IF s = 0 THEN Find!WholeRange(nd)
                                                      ELSE Find!Halve(nd, key, h[s - 1])]
<1>1. \A h : Steps(h) <=> Halvings(nd, key, LEAF_STEPS, h)
  BY FindSameHalving DEF Halvings
<1>2. \E h : Steps(h)
  BY <1>1, HalvingsExist, StepCounts
<1>3. Steps(g)
  BY <1>2
<1>4. \A e \in 0 .. LEAF_STEPS : e \in 0 .. INNER_STEPS + LEAF_STEPS
  BY StepCounts
<1>5. \A e \in 1 .. LEAF_STEPS : e \in 1 .. INNER_STEPS + LEAF_STEPS
  BY StepCounts
<1>6. /\ nd.slotkey \in [Slots(nd) -> Key] /\ Sorted(nd)
      /\ LEAF_STEPS \in Nat /\ pow2[0] = 1
      /\ \A e \in 0 .. LEAF_STEPS : pow2[e] \in Nat
      /\ \A e \in 1 .. LEAF_STEPS : pow2[e] = 2 * pow2[e - 1]
  BY <1>4, <1>5, FindSameSearch, StepCounts
<1> HIDE DEF Steps
<1>7. Halvings(nd, key, LEAF_STEPS, g)
  BY <1>1, <1>3
<1>8. g[LEAF_STEPS].lo = find_lower(nd, key)
  BY <1>6, <1>7, HalvingsSuffice
<1> QED  BY <1>8, FindSameSearch

-----------------------------------------------------------------------------
(* The inductive invariant of find_group.                                  *)

(* Whatever the tree, its nodes have fewer keys than the halvings can tell apart. *)
FindStepsEnough == \A t \in Trees : \A v \in Find!NodeIds(t) : t.node[v].slotuse < pow2[LEAF_STEPS]

FindPhases ==
  /\ v_pc = "start" => v_start = 0
  /\ v_pc \in {"group", "level"} => ~Find!NothingToDo
  /\ v_pc = "level" => v_start < Find!n
  /\ v_pc = "returned" /\ tree.root # NULL => v_start >= Find!n

(* All queries of the group are on one level, each on the path of its key. *)
FindInStep ==
  v_pc = "level" =>
    \A j \in Find!InBatch : /\ v_nodes[j] \in Find!NodeIds(tree)
                            /\ Find!Node(v_nodes[j]).level = Find!Node(v_nodes[0]).level
                            /\ Find!OnPath(v_start + j, v_nodes[j])

(* A query nothing was written for yet is as it was passed in. *)
FindUntouched(q) == v_found[q] = before /\ v_results[q] = Stale

FindPassed == {q \in Find!QueryIdx : q < v_start}

FindAnswers == \A q \in Find!QueryIdx : IF q \in FindPassed THEN Find!RightAnswer(q) ELSE FindUntouched(q)

FindIInv == Find!GroupTypeOK /\ FindPhases /\ FindInStep /\ FindAnswers

(* The queries of the group are queries of the batch, and the first is one. *)
LEMMA FindGroupFacts ==
  ASSUME FindIInv
  PROVE  /\ Find!n \in Nat /\ v_start \in Nat /\ GROUP_SIZE \in Nat \ {0}
         /\ Find!WellFormed(tree) /\ tree \in Trees /\ Find!OutsTypeOK
         /\ \A j \in Find!InBatch : /\ j \in Find!Group /\ j \in Nat /\ v_start + j \in Find!QueryIdx
                                    /\ Find!KeyOf(j) \in Key
                                    /\ v_start + j \notin FindPassed
                                    /\ v_results[v_start + j] = Stale
         /\ v_start < Find!n => 0 \in Find!InBatch
<1>1. /\ Find!n \in Nat /\ v_start \in Nat /\ GROUP_SIZE \in Nat \ {0} /\ Find!WellFormed(tree)
      /\ tree \in Trees /\ Find!OutsTypeOK
      /\ \A q \in Find!QueryIdx : Find!KeyAt(q) \in Key
  BY FindArgsFacts, GroupAssumption DEF FindIInv, Find!GroupTypeOK, Find!CallTypeOK, Find!OutsTypeOK
<1>2. ASSUME NEW j \in Find!InBatch
      PROVE  /\ j \in Find!Group /\ j \in Nat /\ v_start + j \in Find!QueryIdx
             /\ Find!KeyOf(j) \in Key
             /\ v_start + j \notin FindPassed
             /\ v_results[v_start + j] = Stale
  <2>1. j \in Find!Group /\ j \in Nat /\ v_start + j \in Find!QueryIdx /\ ~(v_start + j < v_start)
    BY <1>1 DEF Find!InBatch, Find!Group, Find!QueryIdx
  <2>2. Find!KeyOf(j) \in Key
    BY <1>1, <2>1 DEF Find!KeyOf
  <2>3. v_start + j \notin FindPassed
    BY <2>1 DEF FindPassed
  <2> QED  BY <2>1, <2>2, <2>3 DEF FindIInv, FindAnswers, FindUntouched
<1>3. v_start < Find!n => 0 \in Find!InBatch
  BY <1>1 DEF Find!InBatch, Find!Group
<1> QED  BY <1>1, <1>2, <1>3

(* The fixed number of halvings finds the slot that a search would. *)
LEMMA FindFoundIsLowerBound ==
  ASSUME FindStepsEnough, FindIInv, v_pc = "level", NEW j \in Find!InBatch
  PROVE  /\ v_nodes[j] \in Find!NodeIds(tree)
         /\ Find!Found(j) = Find!find_lower(Find!Node(v_nodes[j]), Find!KeyOf(j))
         /\ Find!IsLowerBound(Find!Node(v_nodes[j]), Find!KeyOf(j), Find!Found(j))
<1>1. /\ v_nodes[j] \in Find!NodeIds(tree) /\ Find!KeyOf(j) \in Key /\ Find!WellFormed(tree)
      /\ tree \in Trees
  BY FindGroupFacts DEF FindIInv, FindInStep
<1>2. PICK nd, key : nd = Find!Node(v_nodes[j]) /\ key = Find!KeyOf(j)
  OBVIOUS
<1>3. Find!NodeOK(tree, v_nodes[j]) /\ key \in Key
  BY <1>1, <1>2 DEF Find!WellFormed
<1>4. nd.slotuse \in Nat /\ nd.slotkey \in [Find!Slots(nd) -> Key] /\ Find!Sorted(nd)
  BY <1>2, <1>3 DEF Find!NodeOK, Find!Node
<1>5. nd.slotuse < pow2[LEAF_STEPS]
  BY <1>1, <1>2 DEF FindStepsEnough, Find!Node
<1>6. PICK g : g = CHOOSE h : h = [s \in 0 .. LEAF_STEPS |-> IF s = 0 THEN Find!WholeRange(nd)
                                                             ELSE Find!Halve(nd, key, h[s - 1])]
  OBVIOUS
<1>7. g[LEAF_STEPS].lo = Find!find_lower(nd, key)
  BY <1>3, <1>4, <1>5, <1>6, FindHalvingsSuffice
<1>8. Find!Found(j) = g[LEAF_STEPS].lo
  BY <1>2, <1>6, Zenon DEF Find!Found
<1>9. Find!IsLowerBound(nd, key, Find!find_lower(nd, key))
  BY <1>3, <1>4, FindFindLowerIsLowerBound
<1> QED  BY <1>1, <1>2, <1>7, <1>8, <1>9

LEMMA FindIInvImpliesFindGroupExact ==
  ASSUME FindStepsEnough, FindIInv
  PROVE  Find!FindGroupExact
<1>1. v_pc = "level" =>
        \A j \in Find!InBatch : /\ Find!Node(v_nodes[j]).level = Find!Node(v_nodes[0]).level
                                /\ Find!OnPath(v_start + j, v_nodes[j])
                                /\ Find!IsLowerBound(Find!Node(v_nodes[j]), Find!KeyOf(j), Find!Found(j))
  BY FindFoundIsLowerBound DEF FindIInv, FindInStep
<1>2. \A q \in Find!QueryIdx : IF q < v_start THEN Find!RightAnswer(q)
                               ELSE v_found[q] = before /\ v_results[q] = Stale
  BY DEF FindIInv, FindAnswers, FindPassed, FindUntouched
<1>3. v_pc = "returned" /\ tree.root # NULL => v_start >= Find!n
  BY DEF FindIInv, FindPhases
<1>4. Find!GroupTypeOK
  BY DEF FindIInv
<1> QED  BY <1>1, <1>2, <1>3, <1>4 DEF Find!FindGroupExact

(* A step that leaves arguments, answers and the position in the batch alone. *)
LEMMA FindQuiet ==
  ASSUME FindIInv, UNCHANGED <<Find!args, Find!outs, v_start, before>>
  PROVE  /\ Find!n' = Find!n /\ Find!QueryIdx' = Find!QueryIdx
         /\ Find!NodeIds(tree)' = Find!NodeIds(tree)
         /\ tree' = tree /\ queries' = queries
         /\ Find!InBatch' = Find!InBatch /\ (Find!NothingToDo' <=> Find!NothingToDo)
         /\ Find!CallTypeOK' /\ FindAnswers'
         /\ \A q, v : Find!OnPath(q, v)' <=> Find!OnPath(q, v)
<1>1. /\ tree' = tree /\ queries' = queries /\ v_start' = v_start
      /\ v_found' = v_found /\ v_results' = v_results /\ before' = before
  BY DEF Find!args, Find!outs
<1>2. /\ Find!n' = Find!n /\ Find!QueryIdx' = Find!QueryIdx /\ Find!NodeIds(tree)' = Find!NodeIds(tree)
      /\ (Find!NothingToDo' <=> Find!NothingToDo) /\ Find!OutsTypeOK'
      /\ \A q : Find!RightAnswer(q)' <=> Find!RightAnswer(q)
      /\ \A q, v : Find!OnPath(q, v)' <=> Find!OnPath(q, v)
  BY FindOutsUnchanged, FindGroupFacts
<1>3. Find!InBatch' = Find!InBatch /\ FindPassed' = FindPassed
  BY <1>1, <1>2 DEF Find!InBatch, FindPassed
<1>4. FindAnswers'
  BY <1>1, <1>2, <1>3 DEF FindIInv, FindAnswers, FindUntouched
<1>5. Find!CallTypeOK'
  BY <1>1, <1>2 DEF FindIInv, Find!GroupTypeOK, Find!CallTypeOK
<1> QED  BY <1>1, <1>2, <1>3, <1>4, <1>5

-----------------------------------------------------------------------------
(* The invariant is inductive.                                             *)

LEMMA FindInitIInv ==
  ASSUME Find!GroupInit
  PROVE  FindIInv
<1>1. Find!OutsTypeOK /\ before \in BOOLEAN
  BY DEF Find!GroupInit, Find!CallInit, Find!OutsTypeOK
<1>2. Find!n \in Nat
  BY <1>1, FindArgsFacts
<1>3. Find!GroupTypeOK
  BY <1>1 DEF Find!GroupInit, Find!CallInit, Find!GroupTypeOK, Find!CallTypeOK
<1>4. FindPassed = {}
  BY <1>2 DEF Find!GroupInit, FindPassed, Find!QueryIdx
<1>5. FindPhases /\ FindInStep
  BY DEF Find!GroupInit, Find!CallInit, FindPhases, FindInStep
<1>6. FindAnswers
  BY <1>4 DEF Find!GroupInit, Find!CallInit, FindAnswers, FindUntouched
<1> QED  BY <1>3, <1>5, <1>6 DEF FindIInv

LEMMA FindStartStep ==
  ASSUME FindIInv, Find!GroupStart
  PROVE  FindIInv'
<1>1. /\ UNCHANGED <<Find!args, Find!outs, before, v_start, v_nodes>> /\ v_pc = "start"
      /\ v_pc' = IF Find!NothingToDo THEN "returned" ELSE "group"
  BY DEF Find!GroupStart, Find!EarlyReturn, Find!groupVars
<1>2. /\ Find!n' = Find!n /\ Find!NodeIds(tree)' = Find!NodeIds(tree)
      /\ (Find!NothingToDo' <=> Find!NothingToDo)
      /\ tree' = tree /\ Find!CallTypeOK' /\ FindAnswers'
  BY <1>1, FindQuiet
<1>3. Find!GroupTypeOK'
  BY <1>1, <1>2 DEF FindIInv, Find!GroupTypeOK
<1>4. Find!n \in Nat /\ v_start = 0
  BY <1>1, FindGroupFacts DEF FindIInv, FindPhases
<1>5. FindPhases' /\ FindInStep'
  BY <1>1, <1>2, <1>4 DEF FindPhases, FindInStep, Find!NothingToDo
<1> QED  BY <1>2, <1>3, <1>5 DEF FindIInv

LEMMA FindNextGroupStep ==
  ASSUME FindIInv, Find!NextGroup
  PROVE  FindIInv'
<1>1. /\ UNCHANGED <<Find!args, Find!outs, v_start, before>> /\ v_pc = "group"
      /\ v_pc' = IF v_start < Find!n THEN "level" ELSE "returned"
  BY DEF Find!NextGroup
<1>2. /\ Find!n' = Find!n /\ Find!NodeIds(tree)' = Find!NodeIds(tree)
      /\ (Find!NothingToDo' <=> Find!NothingToDo)
      /\ Find!InBatch' = Find!InBatch
      /\ tree' = tree /\ queries' = queries /\ Find!CallTypeOK' /\ FindAnswers' /\ ~Find!NothingToDo
  BY <1>1, FindQuiet DEF FindIInv, FindPhases
<1>3. Find!n \in Nat /\ v_start \in Nat
  BY FindGroupFacts
<1>4. FindPhases'
  BY <1>1, <1>2, <1>3 DEF FindPhases
<1>5. CASE v_start < Find!n
  <2>1. v_nodes' = [j \in Find!Group |-> IF j \in Find!InBatch THEN tree.root ELSE v_nodes[j]]
    BY <1>5 DEF Find!NextGroup
  <2>2. tree.root \in Find!NodeIds(tree) /\ \A j \in Find!InBatch : Find!OnPath(v_start + j, tree.root)
    <3>1. Find!WellFormed(tree) /\ \A j \in Find!InBatch : Find!KeyAt(v_start + j) \in Key
      BY FindGroupFacts DEF Find!KeyOf
    <3> QED  BY <1>2, <3>1 DEF Find!WellFormed, Find!NothingToDo, Find!OnPath
  <2>3. Find!GroupTypeOK'
    BY <1>1, <1>2, <1>5, <2>1, <2>2 DEF FindIInv, Find!GroupTypeOK
  <2>4. FindInStep'
    <3>1. \A j \in Find!InBatch : v_nodes'[j] = tree.root
      BY <2>1 DEF Find!InBatch
    <3>2. 0 \in Find!InBatch
      BY <1>5, FindGroupFacts
    <3>3. ASSUME NEW j \in Find!InBatch'
          PROVE  /\ v_nodes'[j] \in Find!NodeIds(tree)'
                 /\ Find!Node(v_nodes[j])'.level = Find!Node(v_nodes[0])'.level
                 /\ Find!OnPath(v_start + j, v_nodes[j])'
      <4>1. v_nodes'[j] = tree.root /\ v_nodes'[0] = tree.root
        BY <1>2, <3>1, <3>2
      <4> QED  BY <1>1, <1>2, <2>2, <4>1 DEF Find!Node, Find!OnPath, Find!KeyAt
    <3> QED  BY <3>3 DEF FindInStep
  <2> QED  BY <1>2, <1>4, <2>3, <2>4 DEF FindIInv
<1>6. CASE ~(v_start < Find!n)
  <2>1. v_pc' = "returned" /\ v_nodes' = v_nodes
    BY <1>6 DEF Find!NextGroup
  <2>2. Find!GroupTypeOK' /\ FindInStep'
    BY <1>1, <1>2, <2>1 DEF FindIInv, Find!GroupTypeOK, FindInStep
  <2> QED  BY <1>2, <1>4, <2>2 DEF FindIInv
<1> QED  BY <1>5, <1>6

LEMMA FindDescendStep ==
  ASSUME FindStepsEnough, FindIInv, Find!GroupDescend
  PROVE  FindIInv'
<1>1. /\ UNCHANGED <<Find!args, Find!outs, v_pc, v_start, before>> /\ v_pc = "level"
      /\ ~Find!IsLeafId(v_nodes[0])
      /\ v_nodes' = [j \in Find!Group |-> IF j \in Find!InBatch THEN Find!Node(v_nodes[j]).childid[Find!Found(j)]
                                          ELSE v_nodes[j]]
  BY DEF Find!GroupDescend
<1>2. /\ Find!n' = Find!n /\ Find!NodeIds(tree)' = Find!NodeIds(tree)
      /\ (Find!NothingToDo' <=> Find!NothingToDo)
      /\ Find!InBatch' = Find!InBatch
      /\ tree' = tree /\ queries' = queries /\ Find!CallTypeOK' /\ FindAnswers'
  BY <1>1, FindQuiet
<1>3. v_start < Find!n /\ 0 \in Find!InBatch /\ Find!WellFormed(tree)
  BY <1>1, FindGroupFacts DEF FindIInv, FindPhases
<1>4. ASSUME NEW j \in Find!InBatch
      PROVE  /\ v_nodes'[j] \in Find!NodeIds(tree)
             /\ tree.node[v_nodes'[j]].level + 1 = Find!Node(v_nodes[0]).level
             /\ tree.node[v_nodes'[j]].level \in Nat
             /\ Find!OnPath(v_start + j, v_nodes'[j])
  <2>1. j \in Find!Group /\ Find!KeyOf(j) \in Key
    BY FindGroupFacts
  <2>2. /\ v_nodes[j] \in Find!NodeIds(tree) /\ Find!Node(v_nodes[j]).level = Find!Node(v_nodes[0]).level
        /\ Find!OnPath(v_start + j, v_nodes[j])
    BY <1>1 DEF FindIInv, FindInStep
  <2>3. v_nodes'[j] = Find!Child(Find!Node(v_nodes[j]), Find!KeyOf(j))
    <3>1. Find!Found(j) = Find!find_lower(Find!Node(v_nodes[j]), Find!KeyOf(j))
      BY <1>1, FindFoundIsLowerBound
    <3> QED  BY <1>1, <2>1, <3>1 DEF Find!Child
  <2>4. PICK v, c : v = v_nodes[j] /\ c = Find!Child(Find!Node(v_nodes[j]), Find!KeyOf(j))
    OBVIOUS
  <2>5. /\ c \in Find!NodeIds(tree) /\ tree.node[c].level + 1 = tree.node[v].level
        /\ tree.lo[c] < Find!KeyOf(j) /\ Find!KeyOf(j) <= tree.hi[c]
    <3>1. /\ v \in Find!NodeIds(tree) /\ ~Find!isleafnode(tree.node[v]) /\ tree.lo[v] < Find!KeyOf(j)
          /\ Find!KeyOf(j) <= tree.hi[v] /\ c = Find!Child(tree.node[v], Find!KeyOf(j))
      BY <1>1, <2>2, <2>4 DEF Find!IsLeafId, Find!isleafnode, Find!Node, Find!OnPath, Find!KeyOf
    <3> QED  BY <1>3, <2>1, <3>1, FindDescentStep
  <2>6. tree.node[c].level \in Nat
    BY <1>3, <2>5 DEF Find!WellFormed, Find!NodeOK
  <2> QED  BY <2>2, <2>3, <2>4, <2>5, <2>6 DEF Find!OnPath, Find!KeyOf, Find!Node
<1>5. Find!GroupTypeOK'
  <2>1. v_nodes' \in [Find!Group -> Find!NodeIds(tree) \cup {NULL}]
    BY <1>1, <1>4 DEF FindIInv, Find!GroupTypeOK
  <2> QED  BY <1>1, <1>2, <2>1 DEF FindIInv, Find!GroupTypeOK
<1>6. FindPhases'
  BY <1>1, <1>2 DEF FindIInv, FindPhases
<1>7. FindInStep'
  <2> SUFFICES ASSUME NEW j \in Find!InBatch'
               PROVE  /\ v_nodes'[j] \in Find!NodeIds(tree)'
                      /\ Find!Node(v_nodes[j])'.level = Find!Node(v_nodes[0])'.level
                      /\ Find!OnPath(v_start + j, v_nodes[j])'
    BY DEF FindInStep
  <2>1. v_nodes'[j] \in Find!NodeIds(tree) /\ Find!OnPath(v_start + j, v_nodes'[j])
    BY <1>2, <1>4
  <2>2. tree.node[v_nodes'[j]].level = tree.node[v_nodes'[0]].level
    <3>1. PICK a, b, m : /\ a = tree.node[v_nodes'[j]].level /\ b = tree.node[v_nodes'[0]].level
                         /\ m = Find!Node(v_nodes[0]).level
      OBVIOUS
    <3>2. a \in Nat /\ b \in Nat /\ a + 1 = m /\ b + 1 = m
      BY <1>2, <1>3, <1>4, <3>1
    <3>3. a = b
      BY <3>2
    <3> QED  BY <3>1, <3>3
  <2> QED  BY <1>1, <1>2, <2>1, <2>2 DEF Find!Node, Find!OnPath, Find!KeyAt
<1> QED  BY <1>2, <1>5, <1>6, <1>7 DEF FindIInv

(* Gathering from slots that are lower bounds is answering at the leaves. *)
LEMMA FindGatherIsWrite ==
  ASSUME NEW reached, NEW slot, Find!Gather(reached, slot),
         \A q \in DOMAIN reached : slot[q] = Find!find_lower(Find!Node(reached[q]), Find!KeyAt(q))
  PROVE  Find!WriteAnswers(reached)
BY DEF Find!Gather, Find!WriteAnswers, Find!Hit, Find!Data

LEMMA FindCollectStep ==
  ASSUME FindStepsEnough, FindIInv, Find!GroupCollect
  PROVE  FindIInv'
<1>1. PICK Qs, reached, slot :
         /\ Qs = {v_start + j : j \in Find!InBatch}
         /\ reached = [q \in Qs |-> v_nodes[q - v_start]]
         /\ slot = [q \in Qs |-> Find!Found(q - v_start)]
  OBVIOUS
<1>2. /\ UNCHANGED <<Find!args, v_nodes, before>> /\ Find!Gather(reached, slot)
      /\ v_start' = v_start + GROUP_SIZE
      /\ v_pc = "level" /\ v_pc' = "group" /\ Find!IsLeafId(v_nodes[0])
  BY <1>1 DEF Find!GroupCollect
<1>3. /\ Find!n \in Nat /\ v_start \in Nat /\ GROUP_SIZE \in Nat \ {0}
      /\ Find!OutsTypeOK /\ ~Find!NothingToDo /\ v_start < Find!n /\ 0 \in Find!InBatch
  BY <1>2, FindGroupFacts DEF FindIInv, FindPhases
<1>4. Qs \subseteq Find!QueryIdx /\ \A q \in Qs : q \notin FindPassed
  BY <1>1, <1>3, FindGroupFacts
<1>5. ASSUME NEW q \in Qs
      PROVE  /\ reached[q] \in Find!NodeIds(tree) /\ Find!IsLeafId(reached[q])
             /\ Find!OnPath(q, reached[q]) /\ v_results[q] = Stale
             /\ slot[q] = Find!find_lower(Find!Node(reached[q]), Find!KeyAt(q))
  <2>1. PICK j \in Find!InBatch : q = v_start + j
    BY <1>1, <1>5
  <2>2. j \in Nat /\ q - v_start = j
    BY <1>3, <2>1, FindGroupFacts
  <2>3. reached[q] = v_nodes[j] /\ slot[q] = Find!Found(j) /\ Find!KeyAt(q) = Find!KeyOf(j)
    BY <1>1, <1>5, <2>1, <2>2 DEF Find!KeyOf
  <2>4. Find!Found(j) = Find!find_lower(Find!Node(v_nodes[j]), Find!KeyOf(j))
    BY <1>2, FindFoundIsLowerBound
  <2>5. /\ v_nodes[j] \in Find!NodeIds(tree) /\ Find!IsLeafId(v_nodes[j])
        /\ Find!OnPath(v_start + j, v_nodes[j])
    BY <1>2 DEF FindIInv, FindInStep, Find!IsLeafId, Find!isleafnode
  <2>6. v_results[q] = Stale
    BY <2>1, FindGroupFacts
  <2> QED  BY <2>1, <2>3, <2>4, <2>5, <2>6
<1>6. DOMAIN reached = Qs
  BY <1>1
<1>7. Find!WriteAnswers(reached)
  BY <1>2, <1>5, <1>6, FindGatherIsWrite
<1>8. /\ Find!OutsTypeOK' /\ Find!QueryIdx' = Find!QueryIdx
      /\ \A q \in Qs : Find!RightAnswer(q)'
      /\ \A q \in Find!QueryIdx \ Qs : v_found'[q] = v_found[q] /\ v_results'[q] = v_results[q]
  <2>1. \A q \in Qs : /\ reached[q] \in Find!NodeIds(tree) /\ Find!IsLeafId(reached[q])
                      /\ Find!OnPath(q, reached[q]) /\ v_results[q] = Stale
    BY <1>5
  <2>2. UNCHANGED Find!args
    BY <1>2
  <2> QED  BY <1>3, <1>4, <1>6, <1>7, <2>1, <2>2, FindLeavesAnswer
<1>9. FindPassed' = FindPassed \cup Qs
  <2>1. FindPassed' = {q \in Find!QueryIdx : q < v_start + GROUP_SIZE}
    BY <1>2, <1>8 DEF FindPassed
  <2>2. ASSUME NEW q \in Find!QueryIdx, q < v_start + GROUP_SIZE, ~(q < v_start)
        PROVE  q \in Qs
    <3>1. q - v_start \in Find!InBatch /\ q = v_start + (q - v_start)
      BY <1>3, <2>2 DEF Find!InBatch, Find!Group, Find!QueryIdx
    <3> QED  BY <1>1, <3>1
  <2>3. ASSUME NEW q \in Qs PROVE q < v_start + GROUP_SIZE
    BY <1>1, <1>3 DEF Find!InBatch, Find!Group
  <2>4. \A q \in Find!QueryIdx : q < v_start => q < v_start + GROUP_SIZE
    BY <1>3 DEF Find!QueryIdx
  <2> QED  BY <1>4, <2>1, <2>2, <2>3, <2>4 DEF FindPassed
<1>10. tree' = tree /\ queries' = queries /\ before' = before
  BY <1>2 DEF Find!args
<1>11. FindAnswers'
  <2>1. ASSUME NEW r \in Find!QueryIdx, r \notin Qs
        PROVE  IF r \in FindPassed' THEN Find!RightAnswer(r)' ELSE FindUntouched(r)'
    <3>1. r \in FindPassed' <=> r \in FindPassed
      BY <1>9, <2>1
    <3>2. v_found'[r] = v_found[r] /\ v_results'[r] = v_results[r]
      BY <1>8, <2>1
    <3>3. Find!Stored(tree)' = Find!Stored(tree) /\ Find!KeyAt(r)' = Find!KeyAt(r)
      BY <1>10 DEF Find!Stored, Find!Leaves, Find!NodeIds, Find!Slots, Find!isleafnode, Find!KeyAt
    <3>4. Find!Present(tree, Find!KeyAt(r))' <=> Find!Present(tree, Find!KeyAt(r))
      BY <3>3 DEF Find!Present
    <3>5. IF r \in FindPassed THEN Find!RightAnswer(r) ELSE FindUntouched(r)
      BY <2>1 DEF FindIInv, FindAnswers
    <3> QED  BY <1>10, <3>1, <3>2, <3>3, <3>4, <3>5 DEF Find!RightAnswer, FindUntouched
  <2> QED  BY <1>8, <1>9, <2>1 DEF FindAnswers
<1>12. Find!GroupTypeOK'
  BY <1>2, <1>3, <1>8, <1>10 DEF FindIInv, Find!GroupTypeOK, Find!CallTypeOK, Find!NodeIds
<1>13. FindPhases' /\ FindInStep'
  BY <1>2, <1>3, <1>10 DEF FindPhases, FindInStep, Find!NothingToDo, Find!n
<1> QED  BY <1>11, <1>12, <1>13 DEF FindIInv

LEMMA FindStepIInv ==
  ASSUME FindStepsEnough, FindIInv, Find!GroupNext \/ UNCHANGED <<Find!args, Find!outs, v_pc, before, v_start, v_nodes>>
  PROVE  FindIInv'
<1>1. CASE Find!GroupStart    BY <1>1, FindStartStep
<1>2. CASE Find!NextGroup     BY <1>2, FindNextGroupStep
<1>3. CASE Find!GroupDescend  BY <1>3, FindDescendStep
<1>4. CASE Find!GroupCollect  BY <1>4, FindCollectStep
<1>5. CASE UNCHANGED <<Find!args, Find!outs, v_pc, before, v_start, v_nodes>>
  <2>1. /\ Find!n' = Find!n /\ Find!NodeIds(tree)' = Find!NodeIds(tree)
        /\ (Find!NothingToDo' <=> Find!NothingToDo)
        /\ Find!InBatch' = Find!InBatch
        /\ tree' = tree /\ queries' = queries /\ Find!CallTypeOK' /\ FindAnswers'
    BY <1>5, FindQuiet
  <2>2. Find!GroupTypeOK' /\ FindPhases'
    BY <1>5, <2>1 DEF FindIInv, Find!GroupTypeOK, FindPhases
  <2>3. FindInStep'
    BY <1>5, <2>1 DEF FindIInv, FindInStep, Find!Node, Find!OnPath, Find!KeyAt
  <2> QED  BY <2>1, <2>2, <2>3 DEF FindIInv
<1>6. CASE Find!Returned
  <2>1. UNCHANGED <<Find!args, Find!outs, v_pc, before, v_start, v_nodes>>
    BY <1>6 DEF Find!Returned, Find!vars, Find!args, Find!outs, Find!groupVars
  <2> QED  BY <2>1, <1>5
<1> QED  BY <1>1, <1>2, <1>3, <1>4, <1>5, <1>6 DEF Find!GroupNext

-----------------------------------------------------------------------------
(* The theorems about whichever of them is called.                         *)

(* The invariant of the one that runs. *)
OthersIInv == /\ strategy = "NoPrefetch" => BaselineIInv
              /\ strategy = "Vectorized" => VectorsIInv
              /\ strategy = "Vectorized_Linear" => LinearIInv

LEMMA OthersInvariance == MCSpec => []OthersIInv
<1>1. MCInit => OthersIInv
  <2> SUFFICES ASSUME MCInit PROVE OthersIInv
    OBVIOUS
  <2>1. ASSUME strategy # "find_group" PROVE Baseline!Init /\ Vectors!Init /\ Linear!Init
    <3>1. Vectors!Init /\ base_i = 0 /\ base_curr = NULL
      BY <2>1 DEF MCInit
    <3> QED
      BY <3>1
      DEF Vectors!Init, Linear!Init, Baseline!Init,
          Vectors!ArgsAndOutsInit, Linear!ArgsAndOutsInit, Baseline!ArgsAndOutsInit,
          Vectors!QueryIdx, Linear!QueryIdx, Baseline!QueryIdx, Vectors!n, Linear!n, Baseline!n,
          Vectors!Vector, Linear!Vector
  <2>2. strategy = "NoPrefetch" => BaselineIInv
    BY <2>1, BaselineInitIInv
  <2>3. strategy = "Vectorized" => VectorsIInv
    BY <2>1, VectorsInitIInv
  <2>4. strategy = "Vectorized_Linear" => LinearIInv
    BY <2>1, LinearInitIInv
  <2> QED  BY <2>2, <2>3, <2>4 DEF OthersIInv
<1>2. OthersIInv /\ [MCNext]_allVars => OthersIInv'
  <2> SUFFICES ASSUME OthersIInv, [MCNext]_allVars PROVE OthersIInv'
    OBVIOUS
  <2>1. strategy' = strategy
    BY DEF MCNext, allVars
  <2>2. ASSUME strategy = "NoPrefetch" PROVE BaselineIInv'
    <3>1. BaselineIInv
      BY <2>2 DEF OthersIInv
    <3>2. [Baseline!Next]_(Baseline!vars)
      BY <2>2 DEF MCNext, allVars, vars, vectorVars, Baseline!vars
    <3> QED  BY <3>1, <3>2, BaselineStepIInv
  <2>3. ASSUME strategy = "Vectorized" PROVE VectorsIInv'
    <3>1. VectorsIInv
      BY <2>3 DEF OthersIInv
    <3>2. [Vectors!Next]_(Vectors!vars)
      BY <2>3 DEF MCNext, allVars, vars, vectorVars, Vectors!vars
    <3> QED  BY <3>1, <3>2, VectorsStepIInv
  <2>4. ASSUME strategy = "Vectorized_Linear" PROVE LinearIInv'
    <3>1. LinearIInv
      BY <2>4 DEF OthersIInv
    <3>2. [Linear!Next]_(Linear!vars)
      BY <2>4 DEF MCNext, allVars, vars, vectorVars, Linear!vars
    <3> QED  BY <3>1, <3>2, LinearStepIInv
  <2> QED  BY <2>1, <2>2, <2>3, <2>4 DEF OthersIInv
<1> QED  BY <1>1, <1>2, PTL DEF MCSpec

(* find_group halves as often at inner nodes as at leaves, however many keys  *)
(* they have: this is enough when it is enough for the fullest of either.     *)
LEMMA FindStepsSuffice ==
  ASSUME innerslotmax < pow2[LEAF_STEPS]
  PROVE  FindStepsEnough
<1> SUFFICES ASSUME NEW t \in Trees, NEW v \in Find!NodeIds(t)
             PROVE  t.node[v].slotuse < pow2[LEAF_STEPS]
  BY DEF FindStepsEnough
<1>1. v \in NodeIds(t) /\ NodeOK(t, v)
  BY FindSameTrees, TreesAssumption DEF WellFormed
<1>2. PICK u, p, a, b : /\ u = t.node[v].slotuse /\ p = pow2[LEAF_STEPS]
                        /\ a = innerslotmax /\ b = leafslotmax
  OBVIOUS
<1>3. u \in Nat /\ p \in Nat /\ a \in Nat /\ b \in Nat /\ a < p /\ b < p
  <2>1. LEAF_STEPS \in 0 .. INNER_STEPS + LEAF_STEPS
    BY StepCounts
  <2> QED  BY <1>1, <1>2, <2>1, StepCounts, CapacityAssumption DEF NodeOK
<1>4. u <= a \/ u <= b
  BY <1>1, <1>2, CapacityAssumption
<1>5. u < p
  BY <1>3, <1>4
<1> QED  BY <1>2, <1>5

LEMMA FindInvariance ==
  ASSUME innerslotmax < pow2[LEAF_STEPS]
  PROVE  MCSpec => [](strategy = "find_group" => FindIInv)
<1>1. MCInit => (strategy = "find_group" => FindIInv)
  BY FindInitIInv DEF MCInit
<1>2. (strategy = "find_group" => FindIInv) /\ [MCNext]_allVars
        => (strategy = "find_group" => FindIInv)'
  <2> SUFFICES ASSUME strategy = "find_group" => FindIInv, [MCNext]_allVars, strategy' = "find_group"
               PROVE  FindIInv'
    OBVIOUS
  <2>1. strategy = "find_group" /\ FindIInv
    BY DEF MCNext, allVars
  <2>2. \/ Find!GroupNext
        \/ UNCHANGED <<Find!args, Find!outs, v_pc, before, v_start, v_nodes>>
    BY <2>1 DEF MCNext, allVars, vars, vectorVars, Find!args, Find!outs
  <2> QED  BY <2>1, <2>2, FindStepsSuffice, FindStepIInv
<1> QED  BY <1>1, <1>2, PTL DEF MCSpec

(* Vectorized's two passes stay on one level and follow fresh slots only;    *)
(* Vectorized_Linear's one pass finds exactly what is stored; and so does     *)
(* find_group, when its number of halvings is enough for the fullest inner   *)
(* node too (2^8 in btree.h, against the 32 keys of main.cpp).               *)
THEOREM VectorsStayExact ==
  ASSUME innerslotmax < pow2[LEAF_STEPS]
  PROVE  MCSpec => []VectorsExact
<1>1. OthersIInv /\ (strategy = "find_group" => FindIInv) => VectorsExact
  <2> SUFFICES ASSUME OthersIInv, strategy = "find_group" => FindIInv PROVE VectorsExact
    OBVIOUS
  <2>1. strategy = "Vectorized" => Vectors!VectorExact
    BY VectorsIInvImpliesVectorExact DEF OthersIInv
  <2>2. strategy = "Vectorized_Linear" => Linear!VectorExact
    BY LinearIInvImpliesVectorExact DEF OthersIInv
  <2>3. strategy = "find_group" => Find!FindGroupExact
    BY FindStepsSuffice, FindIInvImpliesFindGroupExact
  <2> QED  BY <2>1, <2>2, <2>3 DEF VectorsExact
<1> QED  BY <1>1, OthersInvariance, FindInvariance, PTL

(* NoPrefetch implements the abstract batch lookup one query at a time, and  *)
(* Vectorized one vector at a time, or all at once when there is no tree.     *)
THEOREM VectorsRefinement == MCSpec => VectorsRefineBatchLookup
<1>1. MCInit => (strategy # "find_group" => Baseline!Abstract!Init /\ Vectors!Abstract!Init)
  <2> SUFFICES ASSUME MCInit, strategy # "find_group"
               PROVE  Baseline!Abstract!Init /\ Vectors!Abstract!Init
    OBVIOUS
  <2>1. Vectors!Init /\ base_i = 0 /\ base_curr = NULL
    BY DEF MCInit
  <2>2. Baseline!Init
    BY <2>1 DEF Vectors!Init, Baseline!Init, Vectors!ArgsAndOutsInit, Baseline!ArgsAndOutsInit,
                Vectors!QueryIdx, Baseline!QueryIdx, Vectors!n, Baseline!n
  <2> QED  BY <2>1, <2>2, BaselineInitRefines, VectorsInitRefines
<1>2. OthersIInv /\ [MCNext]_allVars
        => /\ strategy = "NoPrefetch" => [Baseline!Abstract!Next]_(Baseline!Abstract!vars)
           /\ strategy = "Vectorized" => [Vectors!Abstract!Next]_(Vectors!Abstract!vars)
  <2> SUFFICES ASSUME OthersIInv, [MCNext]_allVars
               PROVE  /\ strategy = "NoPrefetch" => [Baseline!Abstract!Next]_(Baseline!Abstract!vars)
                      /\ strategy = "Vectorized" => [Vectors!Abstract!Next]_(Vectors!Abstract!vars)
    OBVIOUS
  <2>1. ASSUME strategy = "NoPrefetch"
        PROVE  [Baseline!Abstract!Next]_(Baseline!Abstract!vars)
    <3>1. BaselineIInv
      BY <2>1 DEF OthersIInv
    <3>2. [Baseline!Next]_(Baseline!vars)
      BY <2>1 DEF MCNext, allVars, vars, vectorVars, Baseline!vars
    <3> QED  BY <3>1, <3>2, BaselineStepRefines
  <2>2. ASSUME strategy = "Vectorized"
        PROVE  [Vectors!Abstract!Next]_(Vectors!Abstract!vars)
    <3>1. VectorsIInv
      BY <2>2 DEF OthersIInv
    <3>2. [Vectors!Next]_(Vectors!vars)
      BY <2>2 DEF MCNext, allVars, vars, vectorVars, Vectors!vars
    <3> QED  BY <3>1, <3>2, VectorsStepRefines
  <2> QED  BY <2>1, <2>2
<1> QED  BY <1>1, <1>2, OthersInvariance, PTL DEF MCSpec, VectorsRefineBatchLookup

-----------------------------------------------------------------------------
(* The same of each lookup by itself, whose calls take every tree of Trees   *)
(* with every batch of Batches.                                              *)

(* NoPrefetch implements the abstract batch lookup.                          *)
THEOREM NoPrefetchRefinement == Baseline!Spec => Baseline!Abstract!SafeSpec
<1>1. Baseline!Init => BaselineIInv /\ Baseline!Abstract!Init
  BY BaselineInitIInv, BaselineInitRefines
<1>2. BaselineIInv /\ [Baseline!Next]_(Baseline!vars) => BaselineIInv'
  BY BaselineStepIInv
<1>3. BaselineIInv /\ [Baseline!Next]_(Baseline!vars)
        => [Baseline!Abstract!Next]_(Baseline!Abstract!vars)
  BY BaselineStepRefines
<1> QED  BY <1>1, <1>2, <1>3, PTL DEF Baseline!Spec, Baseline!Abstract!SafeSpec

(* Vectorized keeps its vectors in step and its slots fresh, and implements  *)
(* the abstract batch lookup.                                                *)
THEOREM VectorizedRefinement == Vectors!Spec => []Vectors!VectorExact /\ Vectors!Abstract!SafeSpec
<1>1. Vectors!Init => VectorsIInv /\ Vectors!Abstract!Init
  BY VectorsInitIInv, VectorsInitRefines
<1>2. VectorsIInv /\ [Vectors!Next]_(Vectors!vars) => VectorsIInv'
  BY VectorsStepIInv
<1>3. VectorsIInv /\ [Vectors!Next]_(Vectors!vars)
        => [Vectors!Abstract!Next]_(Vectors!Abstract!vars)
  BY VectorsStepRefines
<1> QED
  BY <1>1, <1>2, <1>3, VectorsIInvImpliesVectorExact, PTL DEF Vectors!Spec, Vectors!Abstract!SafeSpec

(* Vectorized_Linear, too, finds what is stored, and answers it with its key. *)
THEOREM VectorizedLinearExact == Linear!Spec => []Linear!VectorExact
<1>1. Linear!Init => LinearIInv
  BY LinearInitIInv
<1>2. LinearIInv /\ [Linear!Next]_(Linear!vars) => LinearIInv'
  BY LinearStepIInv
<1> QED  BY <1>1, <1>2, LinearIInvImpliesVectorExact, PTL DEF Linear!Spec

(* find_group's answers are right, over any contents of found, when its      *)
(* halvings are enough for the fullest inner node.                           *)
THEOREM FindGroupStaysExact ==
  ASSUME innerslotmax < pow2[LEAF_STEPS]
  PROVE  Find!GroupInit /\ [][Find!GroupNext]_(Find!vars) => []Find!FindGroupExact
<1>1. Find!GroupInit => FindIInv
  BY FindInitIInv
<1>2. FindIInv /\ [Find!GroupNext]_(Find!vars) => FindIInv'
  BY FindStepsSuffice, FindStepIInv DEF Find!vars, Find!groupVars, Find!args, Find!outs
<1>3. FindIInv => Find!FindGroupExact
  BY FindStepsSuffice, FindIInvImpliesFindGroupExact
<1> QED  BY <1>1, <1>2, <1>3, PTL
=============================================================================
