--------------------------- MODULE BTreeNoPrefetch ---------------------------
(***************************************************************************)
(* NoPrefetch and NoPrefetch (Linear) on the B+ tree (algorithms/          *)
(* NoPrefetch.hpp, NoPrefetch_Linear.hpp), the baseline: each query goes   *)
(* from the root to a leaf before the next one starts.  The files differ   *)
(* in how a node is searched (NodeSearch), not in what is returned.        *)
(***************************************************************************)
EXTENDS BTreeLookup

VARIABLES pc,
          i,      (* the query being looked up *)
          curr    (* the node it has reached   *)

vars == <<tree, queries, found, results, pc, i, curr>>

Init ==
  /\ ArgsAndOutsInit
  /\ pc = "start"
  /\ i = 0
  /\ curr = NULL

(* Only a missing root is tested; a batch of no queries skips the loop. *)
Start ==
  /\ pc = "start"
  /\ pc' = IF tree.root = NULL THEN "returned" ELSE "loop"
  /\ UNCHANGED <<args, outs, i, curr>>

BeginQuery_KeepsCursor ==   \* mutant: only the first query starts at the root
  /\ pc = "loop"
  /\ IF i < n THEN pc' = "descend" /\ curr' = IF i = 0 THEN tree.root ELSE curr
              ELSE pc' = "returned" /\ UNCHANGED curr
  /\ UNCHANGED <<args, outs, i>>
BeginQuery ==
  /\ pc = "loop"
  /\ IF i < n THEN pc' = "descend" /\ curr' = tree.root
              ELSE pc' = "returned" /\ UNCHANGED curr
  /\ UNCHANGED <<args, outs, i>>

Descend ==
  /\ pc = "descend"
  /\ ~IsLeafId(curr)
  /\ curr' = Child(Node(curr), KeyAt(i))
  /\ UNCHANGED <<args, outs, pc, i>>

SearchLeaf ==
  /\ pc = "descend"
  /\ IsLeafId(curr)
  /\ WriteAnswers([q \in {i} |-> curr])
  /\ i' = i + 1
  /\ pc' = "loop"
  /\ UNCHANGED <<args, curr>>

Returned == pc = "returned" /\ UNCHANGED vars

Next == Start \/ BeginQuery \/ Descend \/ SearchLeaf \/ Returned

Spec == Init /\ [][Next]_vars

-----------------------------------------------------------------------------
(* Properties.                                                             *)

Settled  == {q \in QueryIdx : q < i}
Answered == IF pc = "returned" THEN QueryIdx ELSE Settled

(* The baseline implements the abstract batch lookup, a query at a time: the *)
(* queries passed have the right answers, keys repeated across leaves        *)
(* included, and the others have none yet (NoPrefetch.hpp 39-63).            *)
Abstract == INSTANCE BatchLookup WITH stored <- Stored(tree), answered <- Answered
=============================================================================
