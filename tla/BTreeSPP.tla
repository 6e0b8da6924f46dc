------------------------------- MODULE BTreeSPP -------------------------------
(***************************************************************************)
(* SPP on the B+ tree (algorithms/SPP.hpp): a software pipeline with one   *)
(* stage more than the tree has levels.  Every round answers the queries   *)
(* of the last stage, moves those of the middle stages down one level,     *)
(* passes each stage's buffer to the next by rotating an array of          *)
(* pointers, and fills the buffer that falls free with waiting queries.    *)
(*                                                                         *)
(* The loops over the GROUP_SIZE tasks of a stage are one action each:     *)
(* their iterations touch different tasks and different queries.           *)
(***************************************************************************)
EXTENDS BTreeLookup

CONSTANT GROUP_SIZE
ASSUME GroupAssumption == GROUP_SIZE \in Nat \ {0}

VARIABLES pc,              (* the part of the code reached                    *)
          H, curr,         (* get_tree_height: levels counted, node reached   *)
          memory,          (* the buffers: memory[b][i] = [query_idx, node]   *)
          stages,          (* stages[s] is the buffer stage s works on        *)
          s,               (* the inner stage to be processed                 *)
          next_query_idx, finished_count

vars == <<tree, queries, found, results, pc, H, curr, memory, stages, s,
          next_query_idx, finished_count>>

Group == 0 .. GROUP_SIZE - 1
NoTask == [query_idx |-> 0, node |-> NULL]

Init ==
  /\ ArgsAndOutsInit
  /\ pc = "start"
  /\ H = 0
  /\ curr = NULL
  /\ memory = <<>>
  /\ stages = <<>>
  /\ s = 0
  /\ next_query_idx = 0
  /\ finished_count = 0

Start ==
  /\ pc = "start"
  /\ IF NothingToDo
     THEN pc' = "returned" /\ UNCHANGED <<H, curr>>
     ELSE pc' = "height" /\ H' = 1 /\ curr' = tree.root
  /\ UNCHANGED <<args, outs, memory, stages, s, next_query_idx, finished_count>>

(* The loop of get_tree_height, which follows the leftmost children. *)
CountLevel ==
  /\ pc = "height"
  /\ ~IsLeafId(curr)
  /\ curr' = Node(curr).childid[0]
  /\ H' = H + 1
  /\ UNCHANGED <<args, outs, pc, memory, stages, s, next_query_idx, finished_count>>

Allocate ==
  /\ pc = "height"
  /\ IsLeafId(curr)
  /\ memory' = [b \in 0 .. H |-> [i \in Group |-> NoTask]]
  /\ stages' = [t \in 0 .. H |-> t]
  /\ pc' = "loop"
  /\ UNCHANGED <<args, outs, H, curr, s, next_query_idx, finished_count>>

-----------------------------------------------------------------------------
(* One round of the pipeline.                                              *)

Stage(t) == memory[stages[t]]
Live(t)  == {i \in Group : Stage(t)[i].node # NULL}

(* while (finished_count < total_queries) *)
LoopTest ==
  /\ pc = "loop"
  /\ pc' = IF finished_count < n THEN "leaves" ELSE "returned"
  /\ UNCHANGED <<args, outs, H, curr, memory, stages, s, next_query_idx, finished_count>>

(* Mutant: only hits are counted. *)
LeafStage_CountsHits ==
  LET reached == [q \in {Stage(H)[i].query_idx : i \in Live(H)} |->
                    Stage(H)[CHOOSE i \in Live(H) : Stage(H)[i].query_idx = q].node]
  IN  /\ pc = "leaves"
      /\ WriteAnswers(reached)
      /\ finished_count' = finished_count
           + Cardinality({q \in DOMAIN reached : Hit(Node(reached[q]), KeyAt(q))})
      /\ memory' = [memory EXCEPT ![stages[H]] =
                      [i \in Group |-> [query_idx |-> @[i].query_idx, node |-> NULL]]]
      /\ pc' = "inner"
      /\ s' = H - 1
      /\ UNCHANGED <<args, H, curr, stages, next_query_idx>>

(* Stage H: the queries that have reached their leaves are answered. *)
LeafStage ==
  LET reached == [q \in {Stage(H)[i].query_idx : i \in Live(H)} |->
                    Stage(H)[CHOOSE i \in Live(H) : Stage(H)[i].query_idx = q].node]
  IN  /\ pc = "leaves"
      /\ WriteAnswers(reached)
      /\ finished_count' = finished_count + Cardinality(Live(H))
      /\ memory' = [memory EXCEPT ![stages[H]] =
                      [i \in Group |-> [query_idx |-> @[i].query_idx, node |-> NULL]]]
      /\ pc' = "inner"
      /\ s' = H - 1
      /\ UNCHANGED <<args, H, curr, stages, next_query_idx>>

(* Mutant: every task follows the leftmost children. *)
Advance_Leftmost(task) ==
  IF task.node = NULL THEN task
  ELSE [query_idx |-> task.query_idx, node |-> Node(task.node).childid[0]]

(* Where a task goes next: to the child that its key selects. *)
Advance(task) ==
  IF task.node = NULL THEN task
  ELSE [query_idx |-> task.query_idx, node |-> Child(Node(task.node), KeyAt(task.query_idx))]

(* Stages H-1 down to 1: every task moves to a child. *)
InnerStage ==
  /\ pc = "inner"
  /\ s >= 1
  /\ memory' = [memory EXCEPT ![stages[s]] = [i \in Group |-> Advance(@[i])]]
  /\ s' = s - 1
  /\ UNCHANGED <<args, outs, pc, H, curr, stages, next_query_idx, finished_count>>

(* Mutant: the rotation goes the wrong way. *)
Rotate_Backwards ==
  /\ pc = "inner"
  /\ s < 1
  /\ stages' = [t \in 0 .. H |-> IF t = H THEN stages[0] ELSE stages[t + 1]]
  /\ pc' = "refill"
  /\ UNCHANGED <<args, outs, H, curr, memory, s, next_query_idx, finished_count>>

(* The stages are shifted by one, the buffer of stage H becoming stage 0. *)
Rotate ==
  /\ pc = "inner"
  /\ s < 1
  /\ stages' = [t \in 0 .. H |-> IF t = 0 THEN stages[H] ELSE stages[t - 1]]
  /\ pc' = "refill"
  /\ UNCHANGED <<args, outs, H, curr, memory, s, next_query_idx, finished_count>>

(* Mutants: one query of the group is not counted as dealt; the group is    *)
(* counted but its last query is not put in.                                *)
Refill_Drops ==
  /\ pc = "refill"
  /\ memory' = [memory EXCEPT ![stages[0]] =
                  [i \in Group |-> IF next_query_idx + i < n - 1
                                   THEN [query_idx |-> next_query_idx + i, node |-> tree.root]
                                   ELSE [query_idx |-> @[i].query_idx, node |-> NULL]]]
  /\ next_query_idx' = Min2(next_query_idx + GROUP_SIZE, n)
  /\ pc' = "loop"
  /\ UNCHANGED <<args, outs, H, curr, stages, s, finished_count>>

(* Stage 0 takes the waiting queries; what it has no query for is emptied. *)
Refill ==
  /\ pc = "refill"
  /\ memory' = [memory EXCEPT ![stages[0]] =
                  [i \in Group |-> IF next_query_idx + i < n
                                   THEN [query_idx |-> next_query_idx + i, node |-> tree.root]
                                   ELSE [query_idx |-> @[i].query_idx, node |-> NULL]]]
  /\ next_query_idx' = Min2(next_query_idx + GROUP_SIZE, n)
  /\ pc' = "loop"
  /\ UNCHANGED <<args, outs, H, curr, stages, s, finished_count>>

Returned == pc = "returned" /\ UNCHANGED vars

Next == \/ Start \/ CountLevel \/ Allocate
        \/ LoopTest \/ LeafStage \/ InnerStage \/ Rotate \/ Refill
        \/ Returned

Spec == Init /\ [][Next]_vars /\ WF_vars(Next)

-----------------------------------------------------------------------------
(* Properties.                                                             *)

(* A task is named by its buffer and its place there, so that a rotation   *)
(* does not rename it.                                                     *)
Task(x)  == memory[x[1]][x[2]]
Tasks    == {x \in (DOMAIN memory) \X Group : Task(x).node # NULL}
InFlight == {Task(x).query_idx : x \in Tasks}

(* The queries dealt to the pipeline that have left it. *)
Settled  == (0 .. next_query_idx - 1) \ InFlight
Answered == IF pc = "returned" THEN QueryIdx ELSE Settled

(* Types, and indices within their arrays.                                 *)
TypeOK ==
  /\ OutsTypeOK
  /\ pc \in {"start", "height", "loop", "leaves", "inner", "refill", "returned"}
  /\ H \in Nat
  /\ curr \in NodeIds(tree) \cup {NULL}
  /\ pc \notin {"start", "height"} /\ ~NothingToDo =>
        /\ memory \in [0 .. H -> [Group -> [query_idx : QueryIdx,
                                            node : NodeIds(tree) \cup {NULL}]]]
        /\ stages \in [0 .. H -> 0 .. H]
  /\ s \in 0 .. H
  /\ next_query_idx \in 0 .. n
  /\ finished_count \in 0 .. n

(* No two stages work on the same buffer: the rotation of the pointers      *)
(* loses none and duplicates none (SPP.hpp 129-133).                        *)
StagesDistinct ==
  \A t, u \in DOMAIN stages : stages[t] = stages[u] => t = u

(* How far down the tasks of stage t are.  Stage t holds nodes of level     *)
(* H - t, until its turn in the round moves them one level down.            *)
LevelOf(t) ==
  IF t = 0 THEN H - 1
  ELSE IF pc = "inner" /\ t > s THEN H - t - 1 ELSE H - t

(* The stages stay aligned with the levels of the tree, so that only leaves *)
(* are cast to leaves and only inner nodes to inner nodes (SPP.hpp 87, 110) *)
(* and every task is on the path of its own key; the buffer to be refilled  *)
(* holds no task that would be lost (SPP.hpp 136-140).                      *)
StagesAligned ==
  /\ \A t \in DOMAIN stages : \A i \in Live(t) :
        /\ Node(Stage(t)[i].node).level = LevelOf(t)
        /\ OnPath(Stage(t)[i].query_idx, Stage(t)[i].node)
  /\ pc = "refill" => Live(0) = {}

(* Every query dealt is in at most one place of the pipeline.               *)
OneTaskPerQuery ==
  \A x, y \in Tasks : Task(x).query_idx = Task(y).query_idx => x = y

(* finished_count, which alone decides when the loop ends, counts exactly   *)
(* the queries that have left the pipeline (SPP.hpp 81, 100).               *)
FinishedCountExact ==
  finished_count = Cardinality(Settled)

(* The pipeline is first-in first-out: what is settled is always a prefix   *)
(* of the batch.                                                            *)
AnsweredInOrder ==
  Settled = 0 .. finished_count - 1

(* Queries that left the pipeline have the right answer, all others none.   *)
AnswersRight ==
  \A q \in QueryIdx : IF q \in Answered THEN RightAnswer(q) ELSE Unanswered(q)

(* The call returns only when every query was dealt and none is in flight:  *)
(* queries in the upper stages are not left behind (SPP.hpp 81).            *)
ReturnsComplete ==
  pc = "returned" /\ ~NothingToDo => next_query_idx = n /\ Tasks = {}

(* All of these but the order: at every step of the call, whatever the tree  *)
(* height, pipeline, counters and answers agree with each other.             *)
PipelineExact ==
  /\ TypeOK
  /\ StagesDistinct
  /\ StagesAligned
  /\ OneTaskPerQuery
  /\ FinishedCountExact
  /\ AnswersRight
  /\ ReturnsComplete

(* The pipeline implements the abstract batch lookup.                      *)
Abstract == INSTANCE BatchLookup WITH stored <- Stored(tree), answered <- Answered
RefinesBatchLookup == Abstract!SafeSpec

(* The loop ends: the pipeline is drained; fairness only says that the     *)
(* call keeps running (SPP.hpp 81).                                        *)
Terminates == <>(pc = "returned")
=============================================================================
