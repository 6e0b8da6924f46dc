---------------------------- MODULE BTreeAMACLinear ----------------------------
(***************************************************************************)
(* FSM_AMAC (Linear) on the B+ tree (algorithms/AMAC_Linear.hpp).  It      *)
(* differs from AMAC.hpp in its schedule: one visit per turn of the while  *)
(* loop, whose condition is therefore looked at before every visit, a      *)
(* position k that wraps around, and a visit of its own between reaching a *)
(* leaf and searching it.                                                  *)
(***************************************************************************)
EXTENDS BTreeLookup

CONSTANT POOL_SIZE   (* at least one *)

VARIABLES pc, pool, next_query_idx, all_done, k

vars == <<tree, queries, found, results, pc, pool, next_query_idx, all_done, k>>

PoolIdx == 0 .. POOL_SIZE - 1
NoQuery == -1   (* the i of a machine that was never given a query *)

Dealt(m, q) == [state |-> "INIT", i |-> q, v |-> m.v]

Init ==
  /\ ArgsAndOutsInit
  /\ pc = "start"
  /\ pool = [j \in PoolIdx |-> [state |-> "DONE", i |-> NoQuery, v |-> NULL]]
  /\ next_query_idx = 0
  /\ all_done = 0
  /\ k = 0

Start ==
  /\ pc = "start"
  /\ IF NothingToDo
     THEN /\ pc' = "returned"
          /\ UNCHANGED <<pool, next_query_idx>>
     ELSE /\ pc' = "loop"
          /\ pool' = [j \in PoolIdx |-> IF j < n THEN Dealt(pool[j], j) ELSE pool[j]]
          /\ next_query_idx' = Min2(POOL_SIZE, n)
  /\ UNCHANGED <<args, outs, all_done, k>>

(* The position visited: k wraps at the head of the loop body. *)
Turn_NoWrap == IF k = POOL_SIZE THEN k - 1 ELSE k   \* mutant: stuck at the last
Turn == IF k = POOL_SIZE THEN 0 ELSE k

Refill  == pool[Turn].state = "DONE" /\ next_query_idx < n
Machine == IF Refill THEN Dealt(pool[Turn], next_query_idx) ELSE pool[Turn]

VisitCommon ==
  /\ pc = "loop"
  /\ all_done < n
  /\ next_query_idx' = IF Refill THEN next_query_idx + 1 ELSE next_query_idx
  /\ k' = Turn + 1
  /\ UNCHANGED <<args, pc>>

(* The machine visited is left in this state, at this node, with its query. *)
Leave(state, v) ==
  pool' = [pool EXCEPT ![Turn] = [state |-> state, i |-> Machine.i, v |-> v]]

VisitInit ==
  /\ VisitCommon
  /\ Machine.state = "INIT"
  /\ Leave("SEARCH_INNER", tree.root)
  /\ UNCHANGED <<outs, all_done>>

VisitInner ==
  /\ VisitCommon
  /\ Machine.state = "SEARCH_INNER"
  /\ ~IsLeafId(Machine.v)
  /\ Leave("SEARCH_INNER", Child(Node(Machine.v), KeyAt(Machine.i)))
  /\ UNCHANGED <<outs, all_done>>

(* A leaf is only recognised on this visit; it is searched on the next. *)
VisitReached ==
  /\ VisitCommon
  /\ Machine.state = "SEARCH_INNER"
  /\ IsLeafId(Machine.v)
  /\ Leave("SEARCH_LEAF", Machine.v)
  /\ UNCHANGED <<outs, all_done>>

VisitLeaf_StaysLeaf ==   \* mutant: counted, but not marked DONE
  /\ VisitCommon
  /\ Machine.state = "SEARCH_LEAF"
  /\ WriteAnswers([q \in {Machine.i} |-> Machine.v])
  /\ UNCHANGED pool
  /\ all_done' = all_done + 1
VisitLeaf ==
  /\ VisitCommon
  /\ Machine.state = "SEARCH_LEAF"
  /\ WriteAnswers([q \in {Machine.i} |-> Machine.v])
  /\ Leave("DONE", Machine.v)
  /\ all_done' = all_done + 1

VisitDone ==
  /\ VisitCommon
  /\ Machine.state = "DONE"
  /\ UNCHANGED <<outs, pool, all_done>>

Visit == VisitInit \/ VisitInner \/ VisitReached \/ VisitLeaf \/ VisitDone

LeaveLoop ==
  /\ pc = "loop"
  /\ ~(all_done < n)
  /\ pc' = "returned"
  /\ UNCHANGED <<args, outs, pool, next_query_idx, all_done, k>>

Returned == pc = "returned" /\ UNCHANGED vars

Next == Start \/ Visit \/ LeaveLoop \/ Returned

Spec == Init /\ [][Next]_vars /\ WF_vars(Next)

-----------------------------------------------------------------------------
(* Properties.                                                             *)

Busy     == {j \in PoolIdx : pool[j].state # "DONE"}
InFlight == {pool[j].i : j \in Busy}
Settled  == (0 .. next_query_idx - 1) \ InFlight
Answered == IF pc = "returned" THEN QueryIdx ELSE Settled

(* Types, and indices within their arrays.                                 *)
TypeOK ==
  /\ OutsTypeOK
  /\ pc \in {"start", "loop", "returned"}
  /\ pool \in [PoolIdx -> [state : {"INIT", "SEARCH_INNER", "SEARCH_LEAF", "DONE"},
                           i : QueryIdx \cup {NoQuery},
                           v : NodeIds(tree) \cup {NULL}]]
  /\ next_query_idx \in 0 .. n
  /\ all_done \in 0 .. n
  /\ k \in 0 .. POOL_SIZE

(* No query is carried by two machines (AMAC_Linear.hpp 53-60, 68-71).      *)
OneMachinePerQuery ==
  \A a, b \in Busy : a # b => pool[a].i # pool[b].i

(* Whatever the state, a searching machine stands on the path of its own    *)
(* key, and in SEARCH_LEAF, where the node is cast without a test, at a     *)
(* leaf (AMAC_Linear.hpp 74-98).                                            *)
CursorFollowsKey ==
  \A j \in Busy : pool[j].state # "INIT" =>
     /\ pool[j].v \in NodeIds(tree)
     /\ OnPath(pool[j].i, pool[j].v)
     /\ pool[j].state = "SEARCH_LEAF" => IsLeafId(pool[j].v)

(* all_done counts exactly the queries dealt and no longer carried; since   *)
(* it is tested before every visit, it alone keeps the loop from stopping   *)
(* with machines still searching (AMAC_Linear.hpp 65, 110).                 *)
DoneCountsAnswered == all_done = Cardinality(Settled)

(* All of the above: pool, position and counters agree with each other.     *)
PoolExact ==
  /\ TypeOK
  /\ OneMachinePerQuery
  /\ CursorFollowsKey
  /\ DoneCountsAnswered

(* The pool implements the abstract batch lookup: settled queries have the  *)
(* right answers, the others none, and all have them when the call returns  *)
(* (AMAC_Linear.hpp 65, 96-112).                                            *)
Abstract == INSTANCE BatchLookup WITH stored <- Stored(tree), answered <- Answered
RefinesBatchLookup == Abstract!SafeSpec

(* The promise of the abstract lookup: in the end every query is answered.  *)
(* The position k must come back to every machine for that to hold          *)
(* (AMAC_Linear.hpp 65-66, 117).                                            *)
AnswersAll == Abstract!AllAnswered
=============================================================================
