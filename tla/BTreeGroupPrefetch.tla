-------------------------- MODULE BTreeGroupPrefetch --------------------------
(***************************************************************************)
(* GroupPrefetch on the B+ tree (algorithms/GroupPrefetch.hpp): the batch  *)
(* is cut into groups, and the queries of a group descend side by side.    *)
(* The binary searches of a level are interleaved, one halving of every    *)
(* query after another, and run for a number of steps fixed at compile     *)
(* time; the last halving of an inner node is fused with the move to the   *)
(* child.  When to stop descending is asked of the first query only.       *)
(***************************************************************************)
EXTENDS BTreeLookup

CONSTANTS GROUP_SIZE,
          innerslotmax, leafslotmax,   (* the capacities of the nodes         *)
          INNER_STEPS, LEAF_STEPS,     (* calc_steps of these capacities      *)
          pow2                         (* the powers of two, as far as needed *)

ASSUME GroupAssumption == GROUP_SIZE \in Nat \ {0}

(* innerslotmax and leafslotmax really bound the nodes the call can meet. *)
ASSUME CapacityAssumption ==
  /\ innerslotmax \in Nat \ {0}
  /\ leafslotmax \in Nat \ {0}
  /\ \A t \in Trees : \A v \in NodeIds(t) :
       t.node[v].slotuse <= IF isleafnode(t.node[v]) THEN leafslotmax ELSE innerslotmax

(* calc_steps(max_slots): capacity is doubled until it exceeds max_slots. *)
calc_steps(max_slots, steps) ==
  /\ steps \in Nat
  /\ max_slots < pow2[steps]
  /\ \A fewer \in 0 .. steps - 1 : pow2[fewer] <= max_slots

ASSUME StepsAssumption ==
  /\ pow2 \in [0 .. INNER_STEPS + LEAF_STEPS -> Nat]
  /\ pow2[0] = 1
  /\ \A e \in 1 .. INNER_STEPS + LEAF_STEPS : pow2[e] = 2 * pow2[e - 1]
  /\ calc_steps(innerslotmax, INNER_STEPS)
  /\ calc_steps(leafslotmax, LEAF_STEPS)

VARIABLES pc, batch_start,
          curr_nodes,   (* curr_nodes[i]: where query batch_start + i stands   *)
          range,        (* range[i]: the lo[i] and hi[i] of its binary search  *)
          step          (* the halvings done at this node                      *)

vars == <<tree, queries, found, results, pc, batch_start, curr_nodes, range, step>>

Group   == 0 .. GROUP_SIZE - 1
InBatch == {i \in Group : batch_start + i < n}
KeyOf(i) == KeyAt(batch_start + i)

Init ==
  /\ ArgsAndOutsInit
  /\ pc = "start"
  /\ batch_start = 0
  /\ curr_nodes = [i \in Group |-> NULL]
  /\ range = [i \in Group |-> [lo |-> 0, hi |-> 0]]
  /\ step = 0

Start ==
  /\ pc = "start"
  /\ pc' = IF NothingToDo THEN "returned" ELSE "group"
  /\ UNCHANGED <<args, outs, batch_start, curr_nodes, range, step>>

(* The next group starts at the root, or there is none. *)
NextGroup ==
  /\ pc = "group"
  /\ IF batch_start < n
     THEN /\ pc' = "level"
          /\ curr_nodes' = [i \in Group |-> IF i \in InBatch THEN tree.root ELSE curr_nodes[i]]
     ELSE pc' = "returned" /\ UNCHANGED curr_nodes
  /\ UNCHANGED <<args, outs, batch_start, range, step>>

-----------------------------------------------------------------------------
(* A node search: all ranges opened, then halved together.                 *)

OpenRanges ==
  range' = [i \in Group |-> IF i \in InBatch THEN WholeRange(Node(curr_nodes[i])) ELSE range[i]]

Halved(i) == Halve(Node(curr_nodes[i]), KeyOf(i), range[i])

HalveAll ==
  range' = [i \in Group |-> IF i \in InBatch THEN Halved(i) ELSE range[i]]

(* while (!curr_nodes[0]->isleafnode()) decides for the whole group. *)
BeginInner ==
  /\ pc = "level"
  /\ ~IsLeafId(curr_nodes[0])
  /\ OpenRanges
  /\ step' = 0
  /\ pc' = "inner"
  /\ UNCHANGED <<args, outs, batch_start, curr_nodes>>

HalveInner ==
  /\ pc = "inner"
  /\ step < INNER_STEPS - 1
  /\ HalveAll
  /\ step' = step + 1
  /\ UNCHANGED <<args, outs, pc, batch_start, curr_nodes>>

(* The last halving, and the child that its result selects. *)
Descend ==
  /\ pc = "inner"
  /\ ~(step < INNER_STEPS - 1)
  /\ HalveAll
  /\ curr_nodes' = [i \in Group |-> IF i \in InBatch THEN Node(curr_nodes[i]).childid[Halved(i).lo]
                                    ELSE curr_nodes[i]]
  /\ pc' = "level"
  /\ UNCHANGED <<args, outs, batch_start, step>>

BeginLeaf ==
  /\ pc = "level"
  /\ IsLeafId(curr_nodes[0])
  /\ OpenRanges
  /\ step' = 0
  /\ pc' = "leaf"
  /\ UNCHANGED <<args, outs, batch_start, curr_nodes>>

HalveLeaf ==
  /\ pc = "leaf"
  /\ step < LEAF_STEPS
  /\ HalveAll
  /\ step' = step + 1
  /\ UNCHANGED <<args, outs, pc, batch_start, curr_nodes>>

Collect ==
  LET positions == {batch_start + i : i \in InBatch}
  IN  /\ pc = "leaf"
      /\ ~(step < LEAF_STEPS)
      /\ Gather([q \in positions |-> curr_nodes[q - batch_start]],
                [q \in positions |-> range[q - batch_start].lo])
      /\ batch_start' = batch_start + GROUP_SIZE
      /\ pc' = "group"
      /\ UNCHANGED <<args, curr_nodes, range, step>>

Returned == pc = "returned" /\ UNCHANGED vars

Next == \/ Start \/ NextGroup
        \/ BeginInner \/ HalveInner \/ Descend
        \/ BeginLeaf \/ HalveLeaf \/ Collect
        \/ Returned

Spec == Init /\ [][Next]_vars

-----------------------------------------------------------------------------
(* Properties.                                                             *)

Settled  == {q \in QueryIdx : q < batch_start}
Answered == IF pc = "returned" THEN QueryIdx ELSE Settled

(* Types, and indices within their arrays.                                 *)
TypeOK ==
  /\ OutsTypeOK
  /\ pc \in {"start", "group", "level", "inner", "leaf", "returned"}
  /\ batch_start \in Nat
  /\ curr_nodes \in [Group -> NodeIds(tree) \cup {NULL}]
  /\ range \in [Group -> [lo : Nat, hi : Nat]]
  /\ step \in Nat

(* All queries of a group stand at nodes of one level, each on the path of  *)
(* its own key, so that asking the first one answers for all, and the casts *)
(* to inner_node and leaf_node are right (GroupPrefetch.hpp 67, 94, 121).   *)
GroupInStep ==
  pc \in {"level", "inner", "leaf"} =>
    \A i \in InBatch : /\ curr_nodes[i] \in NodeIds(tree)
                       /\ Node(curr_nodes[i]).level = Node(curr_nodes[0]).level
                       /\ OnPath(batch_start + i, curr_nodes[i])

(* The lower bound is inside the range at every step of the search          *)
(* (GroupPrefetch.hpp 75-93, 108-117).                                      *)
RangeHoldsBound ==
  pc \in {"inner", "leaf"} =>
    \A i \in InBatch : LET bound == find_lower(Node(curr_nodes[i]), KeyOf(i))
                       IN  range[i].lo <= bound /\ bound <= range[i].hi

(* The fixed number of halvings is enough: when it is used up, the range is *)
(* one point, whatever the node (GroupPrefetch.hpp 17-28, 87-95, 122).      *)
StepsSuffice ==
  \A i \in InBatch : /\ pc = "inner" /\ step = INNER_STEPS - 1 => Halved(i).lo = Halved(i).hi
                     /\ pc = "leaf" /\ step = LEAF_STEPS => range[i].lo = range[i].hi

(* Answered groups have the right answers; the others have none yet.        *)
AnswersRight ==
  \A q \in QueryIdx : IF q \in Answered THEN RightAnswer(q) ELSE Unanswered(q)

(* All of the above: at every step of the call, groups, ranges and answers   *)
(* agree with each other.                                                    *)
GroupExact ==
  /\ TypeOK
  /\ GroupInStep
  /\ RangeHoldsBound
  /\ StepsSuffice
  /\ AnswersRight

(* The groups implement the abstract batch lookup, a group at a time.      *)
Abstract == INSTANCE BatchLookup WITH stored <- Stored(tree), answered <- Answered
RefinesBatchLookup == Abstract!SafeSpec
=============================================================================
