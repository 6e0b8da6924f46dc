------------------------------- MODULE LIPPSPP -------------------------------
(***************************************************************************)
(* LIPP/algorithms/SPP.hpp: PIPELINE_DEPTH tasks, each a query on its way  *)
(* down, visited in turn.  A task that has ended is given the next query   *)
(* in the visit that follows, and takes its first step there and then.     *)
(***************************************************************************)
EXTENDS LIPPLookup

CONSTANT PIPELINE_DEPTH

VARIABLES pc,
          tasks,            (* [query_idx, node, active]                     *)
          next_query_idx,   (* the first query no task was given yet         *)
          finished,         (* how many queries have ended                   *)
          i                 (* the task being visited                        *)

vars == <<tree, queries, found, results, pc, tasks, next_query_idx, finished, i>>

Slots   == 0 .. PIPELINE_DEPTH - 1
NoTask  == [query_idx |-> 0, node |-> <<>>, active |-> FALSE]
Task(q) == [query_idx |-> q, node |-> <<>>, active |-> TRUE]

Init ==
  /\ ArgsAndOutsInit
  /\ pc = "start"
  /\ tasks = [j \in Slots |-> NoTask]
  /\ next_query_idx = 0
  /\ finished = 0
  /\ i = 0

(* Early return, or the first queries are dealt to the tasks. *)
Start ==
  /\ pc = "start"
  /\ IF n = 0
     THEN pc' = "returned" /\ UNCHANGED <<tasks, next_query_idx>>
     ELSE /\ pc' = "loop"
          /\ tasks' = [j \in Slots |-> IF j < n THEN Task(j) ELSE NoTask]
          /\ next_query_idx' = Min2(PIPELINE_DEPTH, n)
  /\ UNCHANGED <<args, outs, finished, i>>

(* while (finished < total): looked at between rounds. *)
LoopTest ==
  /\ pc = "loop"
  /\ pc' = IF finished < n THEN "visit" ELSE "returned"
  /\ i' = 0
  /\ UNCHANGED <<args, outs, tasks, next_query_idx, finished>>

-----------------------------------------------------------------------------
Refill  == ~tasks[i].active /\ next_query_idx < n
Current == IF Refill THEN Task(next_query_idx) ELSE tasks[i]

VisitCommon ==
  /\ pc = "visit"
  /\ next_query_idx' = IF Refill THEN next_query_idx + 1 ELSE next_query_idx
  /\ i' = i + 1
  /\ pc' = IF i + 1 = PIPELINE_DEPTH THEN "loop" ELSE "visit"
  /\ UNCHANGED args

VisitIdle ==
  /\ VisitCommon
  /\ ~Current.active
  /\ UNCHANGED <<outs, tasks, finished>>

VisitMoves ==
  /\ VisitCommon
  /\ Current.active
  /\ IsChild(Current.query_idx, Current.node)
  /\ tasks' = [tasks EXCEPT ![i] = [Current EXCEPT !.node = Child(Current.query_idx, Current.node)]]
  /\ UNCHANGED <<outs, finished>>

VisitEnds ==
  /\ VisitCommon
  /\ Current.active
  /\ ~IsChild(Current.query_idx, Current.node)
  /\ Collect([q \in {Current.query_idx} |-> Current.node])
  /\ tasks' = [tasks EXCEPT ![i] = [Current EXCEPT !.active = FALSE]]
  /\ finished' = finished + 1

Returned == pc = "returned" /\ UNCHANGED vars

Next == Start \/ LoopTest \/ VisitIdle \/ VisitMoves \/ VisitEnds \/ Returned

Spec == Init /\ [][Next]_vars /\ WF_vars(Next)

-----------------------------------------------------------------------------
Busy     == {j \in Slots : tasks[j].active}
InFlight == {tasks[j].query_idx : j \in Busy}
Settled  == (0 .. next_query_idx - 1) \ InFlight
Answered == IF pc = "returned" THEN QueryIdx ELSE Settled

(* No query is carried twice, each stands on the way of its own key,        *)
(* finished counts the queries dealt and no longer carried, those and only  *)
(* those are answered, and the call returns when all were (SPP.hpp 50-91).  *)
PoolExact ==
  /\ \A a, b \in Busy : a # b => tasks[a].query_idx # tasks[b].query_idx
  /\ \A j \in Busy : tasks[j].query_idx < next_query_idx /\ OnWay(tasks[j].query_idx, tasks[j].node)
  /\ finished = Cardinality(Settled)
  /\ AnswersRight(Stored(tree), Answered)

Abstract == INSTANCE BatchLookup WITH stored <- Stored(tree), answered <- Answered
=============================================================================
