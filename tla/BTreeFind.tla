------------------------------ MODULE BTreeFind ------------------------------
(***************************************************************************)
(* The batch lookups inside btree.h, to which the caller passes found and  *)
(* results with whatever they hold.                                        *)
(* stx::btree::find_group: the queries of a group go down a level          *)
(* together, each level searched with FIND_STEPS halvings whatever the     *)
(* node, 8 in the code.                                                    *)
(* stx::btree::find_spp: a ring of PipelineDepth slots, visited in turn.   *)
(* A visit moves the query of the slot to a child, or answers it and gives *)
(* the slot the next query at once, so that queries are answered out of    *)
(* order.                                                                  *)
(***************************************************************************)
EXTENDS BTreeLookup

CONSTANTS GroupSize,      (* at least one                                         *)
          FIND_STEPS,     (* enough when nodes have less than 2^FIND_STEPS keys   *)
          PipelineDepth   (* at least one                                         *)

VARIABLES pc,
          before,                    (* what all of found holds when it is passed *)
          batch_start, curr_nodes,   (* of find_group                             *)
          ring, next_query_idx, finished_count,
          i                          (* of find_spp: the slot being visited       *)

groupVars == <<batch_start, curr_nodes>>
ringVars  == <<ring, next_query_idx, finished_count, i>>
vars      == <<tree, queries, found, results, pc, before, groupVars, ringVars>>

(* As the caller passes it in; pc is where the call is. *)
CallInit ==
  /\ tree \in Trees
  /\ queries \in Batches
  /\ before \in BOOLEAN
  /\ found = [q \in QueryIdx |-> before]
  /\ results = [q \in QueryIdx |-> Stale]
  /\ pc = "start"

(* The early return of either leaves found and results as they were passed in. *)
EarlyReturn == pc = "start" /\ NothingToDo /\ pc' = "returned"

Returned == pc = "returned" /\ UNCHANGED vars

-----------------------------------------------------------------------------
(* find_group                                                              *)

Group    == 0 .. GroupSize - 1
InBatch  == {j \in Group : batch_start + j < n}
KeyOf(j) == KeyAt(batch_start + j)

GroupInit ==
  /\ CallInit
  /\ batch_start = 0
  /\ curr_nodes = [j \in Group |-> NULL]

GroupStart ==
  /\ \/ EarlyReturn
     \/ pc = "start" /\ ~NothingToDo /\ pc' = "group"
  /\ UNCHANGED <<args, outs, before, groupVars>>

NextGroup ==
  /\ pc = "group"
  /\ IF batch_start < n
     THEN /\ pc' = "level"
          /\ curr_nodes' = [j \in Group |-> IF j \in InBatch THEN tree.root ELSE curr_nodes[j]]
     ELSE pc' = "returned" /\ UNCHANGED curr_nodes
  /\ UNCHANGED <<args, outs, batch_start, before>>

(* What the interleaved halvings leave in lo[j]. *)
Found_OneLess(j) ==   \* mutant
  LET range[s \in 0 .. FIND_STEPS] ==
        IF s = 0 THEN WholeRange(Node(curr_nodes[j]))
        ELSE Halve(Node(curr_nodes[j]), KeyOf(j), range[s - 1])
  IN  range[FIND_STEPS - 1].lo
Found(j) ==
  LET range[s \in 0 .. FIND_STEPS] ==
        IF s = 0 THEN WholeRange(Node(curr_nodes[j]))
        ELSE Halve(Node(curr_nodes[j]), KeyOf(j), range[s - 1])
  IN  range[FIND_STEPS].lo

(* while (!curr_nodes[0]->isleafnode()) decides for the whole group. *)
GroupDescend ==
  /\ pc = "level"
  /\ ~IsLeafId(curr_nodes[0])
  /\ curr_nodes' = [j \in Group |-> IF j \in InBatch THEN Node(curr_nodes[j]).childid[Found(j)]
                                    ELSE curr_nodes[j]]
  /\ UNCHANGED <<args, outs, pc, batch_start, before>>

GroupCollect ==
  LET positions == {batch_start + j : j \in InBatch}
  IN  /\ pc = "level"
      /\ IsLeafId(curr_nodes[0])
      /\ Gather([q \in positions |-> curr_nodes[q - batch_start]],
                [q \in positions |-> Found(q - batch_start)])
      /\ batch_start' = batch_start + GroupSize
      /\ pc' = "group"
      /\ UNCHANGED <<args, curr_nodes, before>>

GroupNext == (GroupStart \/ NextGroup \/ GroupDescend \/ GroupCollect \/ Returned) /\ UNCHANGED ringVars

-----------------------------------------------------------------------------
(* find_spp                                                                *)

Slot    == 0 .. PipelineDepth - 1
NoQuery == -1   (* the key_idx of a slot that was never filled *)

(* The slot s after try_fill_slot, when next is the first query not dealt. *)
Filled(s, next) == IF next < n
                   THEN [curr_node |-> tree.root, key_idx |-> next, is_active |-> TRUE]
                   ELSE [ring[s] EXCEPT !.is_active = FALSE]

RingInit ==
  /\ CallInit
  /\ ring = [s \in Slot |-> [curr_node |-> NULL, key_idx |-> NoQuery, is_active |-> FALSE]]
  /\ next_query_idx = 0
  /\ finished_count = 0
  /\ i = 0

RingStart ==
  /\ \/ EarlyReturn /\ UNCHANGED <<ring, next_query_idx>>
     \/ /\ pc = "start" /\ ~NothingToDo
        /\ pc' = "loop"
        /\ ring' = [s \in Slot |-> Filled(s, s)]
        /\ next_query_idx' = Min2(PipelineDepth, n)
  /\ UNCHANGED <<args, outs, before, finished_count, i>>

(* while (finished_count < total_queries), looked at between sweeps. *)
Sweep ==
  /\ pc = "loop"
  /\ pc' = IF finished_count < n THEN "visit" ELSE "returned"
  /\ i' = 0
  /\ UNCHANGED <<args, outs, ring, next_query_idx, finished_count, before>>

Visit ==
  /\ pc = "visit"
  /\ i' = i + 1
  /\ pc' = IF i + 1 = PipelineDepth THEN "loop" ELSE "visit"
  /\ UNCHANGED <<args, before>>

VisitIdle ==
  /\ Visit
  /\ ~ring[i].is_active
  /\ UNCHANGED <<outs, ring, next_query_idx, finished_count>>

VisitInner ==
  /\ Visit
  /\ ring[i].is_active /\ ~IsLeafId(ring[i].curr_node)
  /\ ring' = [ring EXCEPT ![i].curr_node = Child(Node(@), KeyAt(ring[i].key_idx))]
  /\ UNCHANGED <<outs, next_query_idx, finished_count>>

VisitLeaf ==
  /\ Visit
  /\ ring[i].is_active /\ IsLeafId(ring[i].curr_node)
  /\ WriteAnswers([q \in {ring[i].key_idx} |-> ring[i].curr_node])
  /\ finished_count' = finished_count + 1
  /\ ring' = [ring EXCEPT ![i] = Filled(i, next_query_idx)]
  /\ next_query_idx' = Min2(next_query_idx + 1, n)

RingNext ==
  /\ RingStart \/ Sweep \/ VisitIdle \/ VisitInner \/ VisitLeaf \/ Returned
  /\ UNCHANGED groupVars

-----------------------------------------------------------------------------
(* Properties.                                                             *)

(* Types of the arguments and outputs of either, and of its own variables.  *)
CallTypeOK  == OutsTypeOK /\ before \in BOOLEAN
GroupTypeOK ==
  /\ CallTypeOK
  /\ pc \in {"start", "group", "level", "returned"}
  /\ batch_start \in Nat
  /\ curr_nodes \in [Group -> NodeIds(tree) \cup {NULL}]
RingTypeOK ==
  /\ CallTypeOK
  /\ pc \in {"start", "loop", "visit", "returned"}
  /\ ring \in [Slot -> [curr_node : NodeIds(tree) \cup {NULL},
                        key_idx : QueryIdx \cup {NoQuery}, is_active : BOOLEAN]]
  /\ next_query_idx \in 0 .. n
  /\ i \in 0 .. PipelineDepth

(* The group stays on one level and every query on the path of its key, for *)
(* which the fixed number of halvings must do; groups passed have the right *)
(* answers, misses over a true passed in included, and the others are as    *)
(* they were passed in, all of them when there is no tree                   *)
(* (btree.h 1995, 2023, 2040-2071, 2091-2099).                              *)
FindGroupExact ==
  /\ GroupTypeOK
  /\ pc = "level" =>
       \A j \in InBatch : /\ Node(curr_nodes[j]).level = Node(curr_nodes[0]).level
                          /\ OnPath(batch_start + j, curr_nodes[j])
                          /\ IsLowerBound(Node(curr_nodes[j]), KeyOf(j), Found(j))
  /\ \A q \in QueryIdx : IF q < batch_start THEN RightAnswer(q)
                         ELSE found[q] = before /\ results[q] = Stale
  /\ pc = "returned" /\ tree.root # NULL => batch_start >= n

Busy     == {s \in Slot : ring[s].is_active}
InFlight == {ring[s].key_idx : s \in Busy}
Settled  == (0 .. next_query_idx - 1) \ InFlight

(* Whatever order the queries end in: every active slot carries a query of  *)
(* its own and stands on the path of its key, the count of finished queries *)
(* is that of the queries dealt and not in flight, these have the right     *)
(* answers, a miss over a true passed in included, and all others are as    *)
(* they were passed in, all of them when there is no tree                   *)
(* (btree.h 2121, 2165, 2182-2199).                                         *)
RingExact ==
  /\ RingTypeOK
  /\ \A s, t \in Busy : s # t => ring[s].key_idx # ring[t].key_idx
  /\ \A s \in Busy : OnPath(ring[s].key_idx, ring[s].curr_node)
  /\ finished_count = Cardinality(Settled)
  /\ \A q \in QueryIdx : IF q \in Settled THEN RightAnswer(q)
                         ELSE found[q] = before /\ results[q] = Stale
  /\ pc = "returned" /\ tree.root # NULL => Settled = QueryIdx
=============================================================================
