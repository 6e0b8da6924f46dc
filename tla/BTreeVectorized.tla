---------------------------- MODULE BTreeVectorized ----------------------------
(***************************************************************************)
(* Vectorized, GroupPrefetch_Linear and Vectorized_Linear on the B+ tree   *)
(* (algorithms/Vectorized.hpp, GroupPrefetch_Linear.hpp,                   *)
(* Vectorized_Linear.hpp): the batch is cut into vectors.  In the first    *)
(* two the queries of a vector go down a level in two passes, one that     *)
(* leaves every query's slot in an array and one that follows the slots to *)
(* the children; they differ in how a node is searched (SIMD comparison or *)
(* linear scan, see NodeSearch), not in what the search returns.           *)
(* Vectorized_Linear searches and moves in one pass, and answers a hit     *)
(* with leaf->slotkey[slot], where every other strategy answers with       *)
(* leaf->slotdata[slot]: the caller gets back the key it asked for.        *)
(***************************************************************************)
EXTENDS BTreeLookup

CONSTANTS VECTOR_SIZE,   (* at least one                             *)
          OnePass        (* TRUE is Vectorized_Linear, FALSE the others *)

VARIABLES pc, batch_start,
          curr_nodes,   (* curr_nodes[i]: where query batch_start + i stands *)
          slots         (* slots[i]: what the last search of query i left,
                           which Vectorized_Linear does not keep             *)

vars == <<tree, queries, found, results, pc, batch_start, curr_nodes, slots>>

Vector   == 0 .. VECTOR_SIZE - 1
InBatch  == {i \in Vector : batch_start + i < n}
KeyOf(i) == KeyAt(batch_start + i)

Init ==
  /\ ArgsAndOutsInit
  /\ pc = "start"
  /\ batch_start = 0
  /\ curr_nodes = [i \in Vector |-> NULL]
  /\ slots = [i \in Vector |-> 0]

Start ==
  /\ pc = "start"
  /\ pc' = IF NothingToDo THEN "returned" ELSE "vector"
  /\ UNCHANGED <<args, outs, batch_start, curr_nodes, slots>>

NextVector ==
  /\ pc = "vector"
  /\ IF batch_start < n
     THEN /\ pc' = "level"
          /\ curr_nodes' = [i \in Vector |-> IF i \in InBatch THEN tree.root ELSE curr_nodes[i]]
     ELSE pc' = "returned" /\ UNCHANGED curr_nodes
  /\ UNCHANGED <<args, outs, batch_start, slots>>

(* The first pass, at inner nodes or, when the first query is at one, at leaves. *)
SearchPass ==
  /\ ~OnePass
  /\ pc = "level"
  /\ slots' = [i \in Vector |-> IF i \in InBatch THEN find_lower(Node(curr_nodes[i]), KeyOf(i))
                                ELSE slots[i]]
  /\ pc' = IF IsLeafId(curr_nodes[0]) THEN "collect" ELSE "move"
  /\ UNCHANGED <<args, outs, batch_start, curr_nodes>>

ChildPass ==
  /\ pc = "move"
  /\ curr_nodes' = [i \in Vector |-> IF i \in InBatch THEN Node(curr_nodes[i]).childid[slots[i]]
                                     ELSE curr_nodes[i]]
  /\ pc' = "level"
  /\ UNCHANGED <<args, outs, batch_start, slots>>

Collect ==
  LET positions == {batch_start + i : i \in InBatch}
  IN  /\ pc = "collect"
      /\ Gather([q \in positions |-> curr_nodes[q - batch_start]],
                [q \in positions |-> slots[q - batch_start]])
      /\ batch_start' = batch_start + VECTOR_SIZE
      /\ pc' = "vector"
      /\ UNCHANGED <<args, curr_nodes, slots>>

(* The one pass of Vectorized_Linear. *)
Descend ==
  /\ OnePass
  /\ pc = "level"
  /\ ~IsLeafId(curr_nodes[0])
  /\ curr_nodes' = [i \in Vector |-> IF i \in InBatch THEN Child(Node(curr_nodes[i]), KeyOf(i))
                                     ELSE curr_nodes[i]]
  /\ UNCHANGED <<args, outs, pc, batch_start, slots>>

HitAt(q) == /\ q - batch_start \in InBatch
            /\ Hit(Node(curr_nodes[q - batch_start]), KeyAt(q))

(* What a hit is answered with: the key in the slot. *)
SlotKeyAt(q) == LET leaf == Node(curr_nodes[q - batch_start])
                IN  leaf.slotkey[find_lower(leaf, KeyAt(q))]

CollectKeys ==
  /\ OnePass
  /\ pc = "level"
  /\ IsLeafId(curr_nodes[0])
  /\ found' = [q \in QueryIdx |-> IF q - batch_start \in InBatch THEN HitAt(q) ELSE found[q]]
  /\ results' = [q \in QueryIdx |-> IF HitAt(q) THEN SlotKeyAt(q) ELSE results[q]]
  /\ batch_start' = batch_start + VECTOR_SIZE
  /\ pc' = "vector"
  /\ UNCHANGED <<args, curr_nodes, slots>>

Returned == pc = "returned" /\ UNCHANGED vars

Next == \/ Start \/ NextVector
        \/ SearchPass \/ ChildPass \/ Collect   (* two passes *)
        \/ Descend \/ CollectKeys               (* one pass   *)
        \/ Returned

Spec == Init /\ [][Next]_vars

-----------------------------------------------------------------------------
(* Properties.                                                             *)

Settled  == {q \in QueryIdx : q < batch_start}
Answered == IF pc = "returned" THEN QueryIdx ELSE Settled

(* Types; and a slot left by a search is within the node it was left for.   *)
TypeOK ==
  /\ tree \in Trees /\ queries \in Batches
  /\ found \in [QueryIdx -> BOOLEAN]
  /\ results \in [QueryIdx -> (IF OnePass THEN Key ELSE Value) \cup {Stale}]
  /\ pc \in {"start", "vector", "level", "move", "collect", "returned"}
  /\ batch_start \in Nat
  /\ curr_nodes \in [Vector -> NodeIds(tree) \cup {NULL}]
  /\ slots \in [Vector -> Nat]
  /\ pc \in {"move", "collect"} => \A i \in InBatch : slots[i] <= Node(curr_nodes[i]).slotuse

(* All queries of a vector stand on one level, each on the path of its own  *)
(* key, though only the first is asked (Vectorized.hpp 138, 140, 151).      *)
VectorInStep ==
  pc \in {"level", "move", "collect"} =>
    \A i \in InBatch : /\ curr_nodes[i] \in NodeIds(tree)
                       /\ Node(curr_nodes[i]).level = Node(curr_nodes[0]).level
                       /\ OnPath(batch_start + i, curr_nodes[i])

(* A slot that is followed or read belongs to the node and the key it is    *)
(* used with, not to an earlier level, vector or query                      *)
(* (Vectorized.hpp 145, 156-159).                                           *)
SlotsFresh ==
  pc \in {"move", "collect"} =>
    \A i \in InBatch : IsLowerBound(Node(curr_nodes[i]), KeyOf(i), slots[i])

(* In Vectorized_Linear the found flags are right in every tree, and a      *)
(* hit's entry is the key that was looked up, which is the right answer     *)
(* only where every key is its own value, as in the trees of main.cpp       *)
(* (Vectorized_Linear.hpp 74-80).                                           *)
FoundRight ==
  OnePass =>
    \A q \in QueryIdx :
      IF q \in Answered /\ Present(tree, KeyAt(q)) THEN found[q] /\ results[q] = KeyAt(q)
      ELSE Unanswered(q)

(* All of the above: types, vectors in step, slots fresh, hits found.       *)
VectorExact == TypeOK /\ VectorInStep /\ SlotsFresh /\ FoundRight

(* What the comment at Vectorized_Linear.hpp 67 says: nothing but the       *)
(* search was changed, so the data of the hit is gathered.                  *)
GathersData ==
  \A q \in Answered : Present(tree, KeyAt(q)) => <<KeyAt(q), results[q]>> \in Stored(tree)

(* The two passes implement the abstract batch lookup, a vector at a time.  *)
Abstract == INSTANCE BatchLookup WITH stored <- Stored(tree), answered <- Answered
=============================================================================
