------------------------------- MODULE LIPPAMAC -------------------------------
(***************************************************************************)
(* LIPP/algorithms/AMAC.hpp: a pool of small state machines.  Unlike the   *)
(* tasks of SPP, a machine that is given a query is only sent to the root  *)
(* in that visit, and steps from the next on.                              *)
(***************************************************************************)
EXTENDS LIPPLookup

CONSTANT POOL_SIZE
ASSUME PoolAssumption == POOL_SIZE \in Nat \ {0}

VARIABLES pc,
          pool,             (* [state, query_idx, node]                      *)
          next_query_idx,   (* the first query no machine was given yet      *)
          finished,         (* how many queries have ended                   *)
          i                 (* the machine being visited                     *)

vars == <<tree, queries, found, results, pc, pool, next_query_idx, finished, i>>

NULL     == <<-1>>   (* no node has this path *)
Slots    == 0 .. POOL_SIZE - 1
Idle     == [state |-> "DONE", query_idx |-> 0, node |-> NULL]
Dealt(q) == [state |-> "INIT", query_idx |-> q, node |-> NULL]

Init ==
  /\ ArgsAndOutsInit
  /\ pc = "start"
  /\ pool = [j \in Slots |-> Idle]
  /\ next_query_idx = 0
  /\ finished = 0
  /\ i = 0

Start ==
  /\ pc = "start"
  /\ IF n = 0
     THEN pc' = "returned" /\ UNCHANGED <<pool, next_query_idx>>
     ELSE /\ pc' = "loop"
          /\ pool' = [j \in Slots |-> IF j < n THEN Dealt(j) ELSE Idle]
          /\ next_query_idx' = Min2(POOL_SIZE, n)
  /\ UNCHANGED <<args, outs, finished, i>>

LoopTest ==
  /\ pc = "loop"
  /\ pc' = IF finished < n THEN "visit" ELSE "returned"
  /\ i' = 0
  /\ UNCHANGED <<args, outs, pool, next_query_idx, finished>>

-----------------------------------------------------------------------------
Refill  == pool[i].state = "DONE" /\ next_query_idx < n
Machine == IF Refill THEN Dealt(next_query_idx) ELSE pool[i]

VisitCommon ==
  /\ pc = "visit"
  /\ next_query_idx' = IF Refill THEN next_query_idx + 1 ELSE next_query_idx
  /\ i' = i + 1
  /\ pc' = IF i + 1 = POOL_SIZE THEN "loop" ELSE "visit"
  /\ UNCHANGED args

VisitInit ==
  /\ VisitCommon
  /\ Machine.state = "INIT"
  /\ pool' = [pool EXCEPT ![i] = [Machine EXCEPT !.state = "SEARCH", !.node = <<>>]]
  /\ UNCHANGED <<outs, finished>>

VisitMoves ==
  /\ VisitCommon
  /\ Machine.state = "SEARCH"
  /\ IsChild(Machine.query_idx, Machine.node)
  /\ pool' = [pool EXCEPT ![i].node = Child(Machine.query_idx, Machine.node)]
  /\ UNCHANGED <<outs, finished>>

(* Mutant: a miss ends a machine without being counted. *)
VisitEnds_CountsHits ==
  /\ VisitCommon
  /\ Machine.state = "SEARCH"
  /\ ~IsChild(Machine.query_idx, Machine.node)
  /\ Collect([q \in {Machine.query_idx} |-> Machine.node])
  /\ pool' = [pool EXCEPT ![i].state = "DONE"]
  /\ finished' = IF IsNone(Machine.query_idx, Machine.node) THEN finished ELSE finished + 1

VisitEnds ==
  /\ VisitCommon
  /\ Machine.state = "SEARCH"
  /\ ~IsChild(Machine.query_idx, Machine.node)
  /\ Collect([q \in {Machine.query_idx} |-> Machine.node])
  /\ pool' = [pool EXCEPT ![i].state = "DONE"]
  /\ finished' = finished + 1

VisitDone ==
  /\ VisitCommon
  /\ Machine.state = "DONE"
  /\ UNCHANGED <<outs, pool, finished>>

Returned == pc = "returned" /\ UNCHANGED vars

Next == Start \/ LoopTest \/ VisitInit \/ VisitMoves \/ VisitEnds \/ VisitDone \/ Returned

Spec == Init /\ [][Next]_vars /\ WF_vars(Next)

-----------------------------------------------------------------------------
Busy     == {j \in Slots : pool[j].state # "DONE"}
InFlight == {pool[j].query_idx : j \in Busy}
Settled  == (0 .. next_query_idx - 1) \ InFlight
Answered == IF pc = "returned" THEN QueryIdx ELSE Settled

(* As for SPP; a machine that searches stands on the way of its own key, so *)
(* the node of an earlier query is never taken for it (AMAC.hpp 53-108).    *)
PoolExact ==
  /\ \A a, b \in Busy : a # b => pool[a].query_idx # pool[b].query_idx
  /\ \A j \in Busy : /\ pool[j].query_idx < next_query_idx
                     /\ pool[j].state = "SEARCH" => OnWay(pool[j].query_idx, pool[j].node)
  /\ finished = Cardinality(Settled)
  /\ AnswersRight(Stored(tree), Answered)

Abstract == INSTANCE BatchLookup WITH stored <- Stored(tree), answered <- Answered
=============================================================================
