---------------------------- MODULE BTreeSPPLinear ----------------------------
(***************************************************************************)
(* SPP (Linear) on the B+ tree (algorithms/SPP_Linear.hpp): as many        *)
(* batches as the tree has levels, whose tasks are copied to the same      *)
(* place of the next batch when they move down, and are told from stale    *)
(* ones by a flag of their own.  The loops over the GROUP_SIZE tasks of a  *)
(* batch are one action each.                                              *)
(***************************************************************************)
EXTENDS BTreeLookup

CONSTANT GROUP_SIZE   (* at least one *)

VARIABLES pc,
          depth, curr,     (* get_tree_height: levels counted, node reached  *)
          batches,         (* batches[s][i] = [query_idx, node, active]      *)
          stage,           (* the batch to be shifted next                   *)
          next_query_idx, finished_count

vars == <<tree, queries, found, results, pc, depth, curr, batches, stage,
          next_query_idx, finished_count>>

Group == 0 .. GROUP_SIZE - 1
NoTask == [query_idx |-> 0, node |-> NULL, active |-> FALSE]

Init ==
  /\ ArgsAndOutsInit
  /\ pc = "start"
  /\ depth = 0
  /\ curr = NULL
  /\ batches = <<>>
  /\ stage = 0
  /\ next_query_idx = 0
  /\ finished_count = 0

Start ==
  /\ pc = "start"
  /\ IF NothingToDo
     THEN pc' = "returned" /\ UNCHANGED <<depth, curr>>
     ELSE pc' = "height" /\ depth' = 1 /\ curr' = tree.root
  /\ UNCHANGED <<args, outs, batches, stage, next_query_idx, finished_count>>

CountLevel ==
  /\ pc = "height"
  /\ ~IsLeafId(curr)
  /\ curr' = Node(curr).childid[0]
  /\ depth' = depth + 1
  /\ UNCHANGED <<args, outs, pc, batches, stage, next_query_idx, finished_count>>

Allocate ==
  /\ pc = "height"
  /\ IsLeafId(curr)
  /\ batches' = [s \in 0 .. depth - 1 |-> [i \in Group |-> NoTask]]
  /\ pc' = "loop"
  /\ UNCHANGED <<args, outs, depth, curr, stage, next_query_idx, finished_count>>

LoopTest_WhileDealing ==   \* mutant
  /\ pc = "loop"
  /\ pc' = IF next_query_idx < n THEN "leaves" ELSE "returned"
  /\ UNCHANGED <<args, outs, depth, curr, batches, stage, next_query_idx, finished_count>>
LoopTest ==
  /\ pc = "loop"
  /\ pc' = IF finished_count < n THEN "leaves" ELSE "returned"
  /\ UNCHANGED <<args, outs, depth, curr, batches, stage, next_query_idx, finished_count>>

Active(s) == {i \in Group : batches[s][i].active}
Off(task) == [query_idx |-> task.query_idx, node |-> task.node, active |-> FALSE]

(* The leaf of each active task of the last batch, by query. *)
LastReached ==
  LET last == batches[depth - 1]
  IN  [q \in {last[i].query_idx : i \in Active(depth - 1)} |->
         last[CHOOSE i \in Active(depth - 1) : last[i].query_idx = q].node]

LeafStage ==
  /\ pc = "leaves"
  /\ WriteAnswers(LastReached)
  /\ finished_count' = finished_count + Cardinality(Active(depth - 1))
  /\ batches' = [batches EXCEPT ![depth - 1] = [i \in Group |-> Off(@[i])]]
  /\ pc' = "shift"
  /\ stage' = depth - 2
  /\ UNCHANGED <<args, depth, curr, next_query_idx>>

(* A task on its way down: its query at the child its key selects. *)
Moved(task) == [query_idx |-> task.query_idx,
                node |-> Child(Node(task.node), KeyAt(task.query_idx)),
                active |-> TRUE]

(* Batch stage moves into batch stage + 1, from the last inner batch to the first. *)
Shift_KeepsTarget ==   \* mutant: a place nothing moves into keeps its flag
  /\ pc = "shift"
  /\ stage >= 0
  /\ batches' = [batches EXCEPT
       ![stage + 1] = [i \in Group |-> IF i \in Active(stage) THEN Moved(batches[stage][i]) ELSE @[i]],
       ![stage]     = [i \in Group |-> @[i]]]
  /\ stage' = stage - 1
  /\ UNCHANGED <<args, outs, pc, depth, curr, next_query_idx, finished_count>>
Shift ==
  /\ pc = "shift"
  /\ stage >= 0
  /\ batches' = [batches EXCEPT
       ![stage + 1] = [i \in Group |-> IF i \in Active(stage) THEN Moved(batches[stage][i])
                                       ELSE Off(@[i])],
       ![stage]     = [i \in Group |-> Off(@[i])]]
  /\ stage' = stage - 1
  /\ UNCHANGED <<args, outs, pc, depth, curr, next_query_idx, finished_count>>

Refill ==
  /\ pc = "shift"
  /\ stage < 0
  /\ batches' = [batches EXCEPT ![0] =
                   [i \in Group |-> IF next_query_idx + i < n
                                    THEN [query_idx |-> next_query_idx + i, node |-> tree.root,
                                          active |-> TRUE]
                                    ELSE Off(@[i])]]
  /\ next_query_idx' = Min2(next_query_idx + GROUP_SIZE, n)
  /\ pc' = "loop"
  /\ UNCHANGED <<args, outs, depth, curr, stage, finished_count>>

Returned == pc = "returned" /\ UNCHANGED vars

Next == \/ Start \/ CountLevel \/ Allocate
        \/ LoopTest \/ LeafStage \/ Shift \/ Refill
        \/ Returned

Spec == Init /\ [][Next]_vars /\ WF_vars(Next)

-----------------------------------------------------------------------------
(* Properties.                                                             *)

Task(x)  == batches[x[1]][x[2]]
Tasks    == {x \in (DOMAIN batches) \X Group : Task(x).active}
InFlight == {Task(x).query_idx : x \in Tasks}
Settled  == (0 .. next_query_idx - 1) \ InFlight
Answered == IF pc = "returned" THEN QueryIdx ELSE Settled

(* Types, and indices within their arrays.                                 *)
TypeOK ==
  /\ OutsTypeOK
  /\ pc \in {"start", "height", "loop", "leaves", "shift", "returned"}
  /\ depth \in Nat
  /\ curr \in NodeIds(tree) \cup {NULL}
  /\ pc \notin {"start", "height"} /\ ~NothingToDo =>
       batches \in [0 .. depth - 1 -> [Group -> [query_idx : QueryIdx,
                                                 node : NodeIds(tree) \cup {NULL},
                                                 active : BOOLEAN]]]
  /\ stage \in -1 .. depth
  /\ next_query_idx \in 0 .. n
  /\ finished_count \in 0 .. n

(* Every active task is on the level of its batch and on the path of its    *)
(* key; between stages of a shift the batch just emptied has none, and its  *)
(* tasks are one level further down (SPP_Linear.hpp 73-76, 96-120).         *)
BatchesAligned ==
  \A x \in Tasks : /\ Node(Task(x).node).level = depth - 1 - x[1]
                   /\ OnPath(Task(x).query_idx, Task(x).node)

(* A task is never copied over one that is still active: the target of a    *)
(* shift is empty, and so is the batch that is refilled.                    *)
TargetsEmpty ==
  pc = "shift" => Active(stage + 1) = {}

(* Every query dealt is in at most one place of the pipeline.               *)
OneTaskPerQuery ==
  \A x, y \in Tasks : Task(x).query_idx = Task(y).query_idx => x = y

(* finished_count counts exactly the queries that left (SPP_Linear.hpp 70). *)
FinishedCountExact == finished_count = Cardinality(Settled)

(* All of the above: batches, flags and counters agree with each other.     *)
PipelineExact ==
  /\ TypeOK
  /\ BatchesAligned
  /\ TargetsEmpty
  /\ OneTaskPerQuery
  /\ FinishedCountExact

(* The pipeline implements the abstract batch lookup: queries that left it  *)
(* have the right answers, the others none, and all have them when the call *)
(* returns (SPP_Linear.hpp 70-93).                                          *)
Abstract == INSTANCE BatchLookup WITH stored <- Stored(tree), answered <- Answered
RefinesBatchLookup == Abstract!SafeSpec

(* The call returns: the pipeline drains (SPP_Linear.hpp 70).                *)
Terminates == <>(pc = "returned")
=============================================================================
