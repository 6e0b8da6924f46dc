------------------------------ MODULE WindowSPP ------------------------------
(***************************************************************************)
(* RS/algorithms/SPP.hpp and PGM/algorithms/SPP.hpp: a pipeline of as many *)
(* stages as a binary search has steps, and one more for the answers.      *)
(* Every stage holds GROUP_SIZE tasks; a turn answers the last stage,      *)
(* halves the windows of all others, moves every stage on, and fills the   *)
(* first anew.  A task whose lo is past its hi is none.                    *)
(***************************************************************************)
EXTENDS WindowLookup

CONSTANT GROUP_SIZE

VARIABLES pc,
          stages,           (* [query_idx, lo, hi] by stage and lane         *)
          next_query_idx,   (* the first query not yet in the pipeline       *)
          finished          (* finished_count                                *)

vars == <<index, queries, found, results, pc, stages, next_query_idx, finished>>

Lanes     == 0 .. GROUP_SIZE - 1
H         == BSEARCH_STEPS
NoTask    == [query_idx |-> 0, lo |-> 1, hi |-> 0]
Active(t) == t.lo <= t.hi
Task(q)   == [query_idx |-> q, lo |-> Window(q).lo, hi |-> Window(q).hi]

Init ==
  /\ ArgsAndOutsInit
  /\ pc = "start"
  /\ stages = [s \in 0 .. H |-> [j \in Lanes |-> NoTask]]
  /\ next_query_idx = 0
  /\ finished = 0

Start ==
  /\ pc = "start"
  /\ pc' = IF data_size = 0 \/ n = 0 THEN "returned" ELSE "loop"
  /\ UNCHANGED <<args, outs, stages, next_query_idx, finished>>

LoopTest ==
  /\ pc = "loop"
  /\ pc' = IF finished < n THEN "verify" ELSE "returned"
  /\ UNCHANGED <<args, outs, stages, next_query_idx, finished>>

Ending == {j \in Lanes : Active(stages[H][j])}

VerifyStage ==
  /\ pc = "verify"
  /\ Collect([q \in {stages[H][j].query_idx : j \in Ending} |->
                stages[H][CHOOSE j \in Ending : stages[H][j].query_idx = q].lo])
  /\ finished' = finished + Cardinality(Ending)
  /\ stages' = [stages EXCEPT ![H] = [j \in Lanes |-> IF j \in Ending
                                       THEN [@[j] EXCEPT !.lo = 1, !.hi = 0] ELSE @[j]]]
  /\ pc' = "halve"
  /\ UNCHANGED <<args, next_query_idx>>

HalvedTask(t) ==
  LET w == Halved(t.query_idx, [lo |-> t.lo, hi |-> t.hi])
  IN  [query_idx |-> t.query_idx, lo |-> w.lo, hi |-> w.hi]
HalveStages ==
  /\ pc = "halve"
  /\ stages' = [s \in 0 .. H |-> [j \in Lanes |->
                 IF s < H /\ Active(stages[s][j]) THEN HalvedTask(stages[s][j]) ELSE stages[s][j]]]
  /\ pc' = "refill"
  /\ UNCHANGED <<args, outs, next_query_idx, finished>>

(* The stage that ended becomes the first; a lane without a query left only *)
(* has its window emptied.                                                 *)
Refilled(j, old) ==
  IF next_query_idx + j < n THEN Task(next_query_idx + j) ELSE [old EXCEPT !.lo = 1, !.hi = 0]

(* Mutant: the stages move on, but the last stays where it is. *)
RotateAndRefill_KeepsLast ==
  /\ pc = "refill"
  /\ stages' = [s \in 0 .. H |-> IF s = 0 THEN [j \in Lanes |-> Refilled(j, stages[H][j])]
                                 ELSE IF s = H THEN stages[H] ELSE stages[s - 1]]
  /\ next_query_idx' = Min2(n, next_query_idx + GROUP_SIZE)
  /\ pc' = "loop"
  /\ UNCHANGED <<args, outs, finished>>

RotateAndRefill ==
  /\ pc = "refill"
  /\ stages' = [s \in 0 .. H |-> IF s = 0 THEN [j \in Lanes |-> Refilled(j, stages[H][j])]
                                 ELSE stages[s - 1]]
  /\ next_query_idx' = Min2(n, next_query_idx + GROUP_SIZE)
  /\ pc' = "loop"
  /\ UNCHANGED <<args, outs, finished>>

Returned == pc = "returned" /\ UNCHANGED vars

Next == Start \/ LoopTest \/ VerifyStage \/ HalveStages \/ RotateAndRefill \/ Returned

Spec == Init /\ [][Next]_vars

-----------------------------------------------------------------------------
TaskAt(x) == stages[x[1]][x[2]]
Places   == {x \in (0 .. H) \X Lanes : Active(TaskAt(x))}
InFlight == {TaskAt(x).query_idx : x \in Places}
Settled  == (0 .. next_query_idx - 1) \ InFlight
Answered == IF pc = "returned" THEN QueryIdx ELSE Settled

(* No query is in the pipeline twice, none loses its goal, a search that    *)
(* comes to the last stage is over, and the queries that left the pipeline  *)
(* are the ones counted and answered.                                      *)
PipelineExact ==
  /\ \A x, y \in Places : x # y => TaskAt(x).query_idx # TaskAt(y).query_idx
  /\ \A x \in Places : OnTrack(TaskAt(x).query_idx, [lo |-> TaskAt(x).lo, hi |-> TaskAt(x).hi])
  /\ \A x \in Places : x[1] = H => ~Open(TaskAt(x))
  /\ finished = Cardinality(Settled)
  /\ AnswersRight(Items, Answered)

Abstract == INSTANCE BatchLookup WITH stored <- Items, answered <- Answered
=============================================================================
