------------------------------ MODULE BTreeAMAC ------------------------------
(***************************************************************************)
(* FSM_AMAC on the B+ tree (algorithms/AMAC.hpp): a pool of POOL_SIZE      *)
(* small state machines, each carrying one query down the tree, visited in *)
(* turn.  A visit advances its machine by one node; a machine that is done *)
(* is given the next waiting query on the visit that follows, and starts   *)
(* it in that same visit.                                                  *)
(***************************************************************************)
EXTENDS BTreeLookup

CONSTANT POOL_SIZE
ASSUME PoolAssumption == POOL_SIZE \in Nat \ {0}

VARIABLES pc,              (* "start", the loop head, a visit, or returned   *)
          pool,            (* the machines: [state, i, v]                    *)
          next_query_idx,  (* the first query not given to a machine yet     *)
          all_done,        (* the number of machines' searches completed     *)
          k                (* the pool position being visited                *)

vars == <<tree, queries, found, results, pc, pool, next_query_idx, all_done, k>>

PoolIdx == 0 .. POOL_SIZE - 1
NoQuery == -1   (* the i of a machine that was never given a query *)

(* A machine given query q; its cursor still points where it last stood. *)
Dealt(m, q) == [state |-> "INIT", i |-> q, v |-> m.v]

Init ==
  /\ ArgsAndOutsInit
  /\ pc = "start"
  /\ pool = [j \in PoolIdx |-> [state |-> "DONE", i |-> NoQuery, v |-> NULL]]
  /\ next_query_idx = 0
  /\ all_done = 0
  /\ k = 0

(* Early return, or the first queries are dealt to the pool. *)
Start ==
  /\ pc = "start"
  /\ IF NothingToDo
     THEN /\ pc' = "returned"
          /\ UNCHANGED <<pool, next_query_idx>>
     ELSE /\ pc' = "loop"
          /\ pool' = [j \in PoolIdx |-> IF j < n THEN Dealt(pool[j], j) ELSE pool[j]]
          /\ next_query_idx' = Min2(POOL_SIZE, n)
  /\ UNCHANGED <<args, outs, all_done, k>>

(* while (all_done < n): the condition is looked at between sweeps only. *)
Sweep ==
  /\ pc = "loop"
  /\ pc' = IF all_done < n THEN "visit" ELSE "returned"
  /\ k' = 0
  /\ UNCHANGED <<args, outs, pool, next_query_idx, all_done>>

-----------------------------------------------------------------------------
(* One visit: the machine refilled if it can be, then its switch.          *)

Refill == pool[k].state = "DONE" /\ next_query_idx < n

Machine == IF Refill THEN Dealt(pool[k], next_query_idx) ELSE pool[k]

(* Mutant: next_query_idx is not advanced by a refill. *)
VisitCommon_SameQuery ==
  /\ pc = "visit"
  /\ next_query_idx' = next_query_idx
  /\ k' = k + 1
  /\ pc' = IF k + 1 = POOL_SIZE THEN "loop" ELSE "visit"
  /\ UNCHANGED args
VisitCommon ==
  /\ pc = "visit"
  /\ next_query_idx' = IF Refill THEN next_query_idx + 1 ELSE next_query_idx
  /\ k' = k + 1
  /\ pc' = IF k + 1 = POOL_SIZE THEN "loop" ELSE "visit"
  /\ UNCHANGED args

VisitInit ==
  /\ VisitCommon
  /\ Machine.state = "INIT"
  /\ pool' = [pool EXCEPT ![k] = [state |-> "SEARCH", i |-> Machine.i, v |-> tree.root]]
  /\ UNCHANGED <<outs, all_done>>

VisitInner ==
  /\ VisitCommon
  /\ Machine.state = "SEARCH"
  /\ ~IsLeafId(Machine.v)
  /\ pool' = [pool EXCEPT ![k] = [state |-> "SEARCH", i |-> Machine.i,
                                   v |-> Child(Node(Machine.v), KeyAt(Machine.i))]]
  /\ UNCHANGED <<outs, all_done>>

(* Mutants: the answer goes to entry k; only hits are counted. *)
VisitLeaf_EntryK ==
  /\ VisitCommon
  /\ Machine.state = "SEARCH"
  /\ IsLeafId(Machine.v)
  /\ WriteAnswers([q \in {k} |-> Machine.v])
  /\ pool' = [pool EXCEPT ![k] = [state |-> "DONE", i |-> Machine.i, v |-> Machine.v]]
  /\ all_done' = all_done + 1

VisitLeaf ==
  /\ VisitCommon
  /\ Machine.state = "SEARCH"
  /\ IsLeafId(Machine.v)
  /\ WriteAnswers([q \in {Machine.i} |-> Machine.v])
  /\ pool' = [pool EXCEPT ![k] = [state |-> "DONE", i |-> Machine.i, v |-> Machine.v]]
  /\ all_done' = all_done + 1

VisitDone ==
  /\ VisitCommon
  /\ Machine.state = "DONE"
  /\ UNCHANGED <<outs, pool, all_done>>

Visit == VisitInit \/ VisitInner \/ VisitLeaf \/ VisitDone

Returned == pc = "returned" /\ UNCHANGED vars

Next == Start \/ Sweep \/ Visit \/ Returned

Spec == Init /\ [][Next]_vars /\ WF_vars(Next)

-----------------------------------------------------------------------------
(* Properties.                                                             *)

Busy     == {j \in PoolIdx : pool[j].state # "DONE"}
InFlight == {pool[j].i : j \in Busy}

(* The queries dealt to a machine that has finished with them; once the call *)
(* has returned, the caller takes every entry for an answer.                 *)
Settled  == (0 .. next_query_idx - 1) \ InFlight
Answered == IF pc = "returned" THEN QueryIdx ELSE Settled

(* Types, and indices within their arrays.                                 *)
TypeOK ==
  /\ OutsTypeOK
  /\ pc \in {"start", "loop", "visit", "returned"}
  /\ pool \in [PoolIdx -> [state : {"INIT", "SEARCH", "DONE"},
                           i : QueryIdx \cup {NoQuery},
                           v : NodeIds(tree) \cup {NULL}]]
  /\ next_query_idx \in 0 .. n
  /\ all_done \in 0 .. n
  /\ k \in 0 .. POOL_SIZE
  /\ pc = "visit" => k < POOL_SIZE

(* No query is carried by two machines: refills never hand out a query that *)
(* is still being searched for (AMAC.hpp 58-65, 73-76).                     *)
OneMachinePerQuery ==
  \A a, b \in Busy : a # b => pool[a].i # pool[b].i

(* A machine that is searching stands at a node of this tree whose          *)
(* separators admit its own key: the cursor left in a slot by an earlier    *)
(* query is never followed for a later one (AMAC.hpp 79-96).                *)
CursorFollowsKey ==
  \A j \in Busy : /\ pool[j].i \in 0 .. next_query_idx - 1
                  /\ pool[j].state = "SEARCH" => /\ pool[j].v \in NodeIds(tree)
                                                 /\ OnPath(pool[j].i, pool[j].v)

(* all_done, which alone decides when the loop ends, counts exactly the     *)
(* queries that were dealt and are no longer carried (AMAC.hpp 67-69, 114). *)
DoneCountsAnswered ==
  all_done = Cardinality(Settled)

(* Queries let go of have the right answer, all others have none yet.       *)
AnswersRight ==
  \A q \in QueryIdx : IF q \in Answered THEN RightAnswer(q) ELSE Unanswered(q)

(* The call returns only when every query has been dealt and no machine is  *)
(* still carrying one (AMAC.hpp 69).                                        *)
ReturnsComplete ==
  pc = "returned" /\ ~NothingToDo => next_query_idx = n /\ Busy = {}

(* All of the above: at every step of the call, whatever the pool, the pool, *)
(* its counters and the answers agree with each other.                       *)
PoolExact ==
  /\ TypeOK
  /\ OneMachinePerQuery
  /\ CursorFollowsKey
  /\ DoneCountsAnswered
  /\ AnswersRight
  /\ ReturnsComplete

(* The call is an implementation of the abstract batch lookup.              *)
Abstract == INSTANCE BatchLookup WITH stored <- Stored(tree), answered <- Answered
RefinesBatchLookup == Abstract!SafeSpec

(* The loop ends: fairness only says that the call keeps running.           *)
Terminates == <>(pc = "returned")
=============================================================================
