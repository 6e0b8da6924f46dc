------------------------------ MODULE LIPPGroup ------------------------------
(***************************************************************************)
(* GroupPrefetch.hpp, Vectorized.hpp and NoPrefetch.hpp of LIPP: groups of *)
(* GROUP_SIZE queries go down together, a node at a time; those that have  *)
(* ended are passed over until the last of the group ends.  GroupPrefetch  *)
(* moves a query as soon as its position is predicted; in Vectorized a     *)
(* pass first predicts the positions of all active queries, and a second   *)
(* one follows them.  NoPrefetch is a group of one: a query goes down from *)
(* the root until it ends.                                                 *)
(***************************************************************************)
EXTENDS LIPPLookup

VARIABLES GROUP_SIZE,    (* VECTOR_SIZE in Vectorized, 1 in NoPrefetch       *)
          TwoPasses,     (* whether positions are predicted in their own     *)
                         (* pass; neither changes during a call              *)
          pc,
          batch_start,   (* where the group begins                           *)
          nodes,         (* the nodes its queries stand at                   *)
          active,        (* which of them are still searching                *)
          remaining,     (* how many                                         *)
          pos            (* of Vectorized: the positions predicted, or NoPos *)

call == <<args, GROUP_SIZE, TwoPasses>>
vars == <<call, outs, pc, batch_start, nodes, active, remaining, pos>>

NoPos      == -1
Lanes      == 0 .. GROUP_SIZE - 1
batch_size == Min2(GROUP_SIZE, n - batch_start)
Members    == 0 .. batch_size - 1

Init ==
  /\ ArgsAndOutsInit
  /\ GROUP_SIZE \in Nat \ {0}
  /\ TwoPasses \in BOOLEAN
  /\ pc = "for"
  /\ batch_start = 0
  /\ nodes = [j \in Lanes |-> <<>>]
  /\ active = [j \in Lanes |-> FALSE]
  /\ remaining = 0
  /\ pos = [j \in Lanes |-> NoPos]

NextGroup ==
  /\ pc = "for"
  /\ IF batch_start < n
     THEN /\ pc' = "while"
          /\ nodes' = [j \in Lanes |-> IF j \in Members THEN <<>> ELSE nodes[j]]
          /\ active' = [j \in Lanes |-> IF j \in Members THEN TRUE ELSE active[j]]
          /\ remaining' = batch_size
     ELSE pc' = "returned" /\ UNCHANGED <<nodes, active, remaining>>
  /\ UNCHANGED <<call, outs, batch_start, pos>>

Moving == {j \in Members : active[j] /\ IsChild(batch_start + j, nodes[j])}
Ending == {j \in Members : active[j] /\ ~IsChild(batch_start + j, nodes[j])}

(* Mutant: queries that ended before are ended, and counted, again. *)
Sweep_EndsTwice ==
  /\ ~TwoPasses
  /\ pc = "while"
  /\ remaining > 0
  /\ nodes' = [j \in Lanes |-> IF j \in Moving THEN Child(batch_start + j, nodes[j]) ELSE nodes[j]]
  /\ active' = active
  /\ remaining' = remaining - Cardinality(Ending)
  /\ Collect([q \in {batch_start + j : j \in Ending} |-> nodes[q - batch_start]])
  /\ UNCHANGED <<call, pc, batch_start, pos>>

(* One pass over the group; its members do not touch each other's entries. *)
Sweep ==
  /\ ~TwoPasses
  /\ pc = "while"
  /\ remaining > 0
  /\ nodes' = [j \in Lanes |-> IF j \in Moving THEN Child(batch_start + j, nodes[j]) ELSE nodes[j]]
  /\ active' = [j \in Lanes |-> active[j] /\ j \notin Ending]
  /\ remaining' = remaining - Cardinality(Ending)
  /\ Collect([q \in {batch_start + j : j \in Ending} |-> nodes[q - batch_start]])
  /\ UNCHANGED <<call, pc, batch_start, pos>>

PredictPass ==
  /\ TwoPasses
  /\ pc = "while"
  /\ remaining > 0
  /\ pc' = "move"
  /\ pos' = [j \in Lanes |-> IF j \in Members /\ active[j] THEN ItemOf(batch_start + j, nodes[j])
                             ELSE pos[j]]
  /\ UNCHANGED <<call, outs, batch_start, nodes, active, remaining>>

(* What the second pass does with lane j depends on the position kept. *)
Moves(j) == active[j] /\ pos[j] \in tree[nodes[j]].child_bitmap
Ends(j)  == active[j] /\ ~Moves(j)
Hits(j)  == /\ Ends(j)
            /\ pos[j] \notin tree[nodes[j]].none_bitmap
            /\ tree[nodes[j]].data[pos[j]][1] = KeyAt(batch_start + j)

MovePass ==
  /\ pc = "move"
  /\ pc' = "while"
  /\ nodes' = [j \in Lanes |-> IF j \in Members /\ Moves(j) THEN Append(nodes[j], pos[j])
                               ELSE nodes[j]]
  /\ active' = [j \in Lanes |-> active[j] /\ (j \in Members => Moves(j))]
  /\ remaining' = remaining - Cardinality({j \in Members : Ends(j)})
  /\ Settle([q \in {batch_start + j : j \in {x \in Members : Hits(x)}}
               |-> tree[nodes[q - batch_start]].data[pos[q - batch_start]][2]])
  /\ UNCHANGED <<call, batch_start, pos>>

EndGroup ==
  /\ pc = "while"
  /\ remaining = 0
  /\ pc' = "for"
  /\ batch_start' = batch_start + GROUP_SIZE
  /\ UNCHANGED <<call, outs, nodes, active, remaining, pos>>

Returned == pc = "returned" /\ UNCHANGED vars

Next == NextGroup \/ Sweep \/ PredictPass \/ MovePass \/ EndGroup \/ Returned

Spec == Init /\ [][Next]_vars

-----------------------------------------------------------------------------
(* The groups before this one, and the members that have ended. *)
Answered ==
  (0 .. Min2(n, batch_start) - 1)
  \cup (IF pc \in {"while", "move"} THEN {batch_start + j : j \in {x \in Members : ~active[x]}}
        ELSE {})

(* Every active query of a group stands on the way of its own key; a        *)
(* position that the second pass follows was predicted by the node where    *)
(* the query now stands; the counter that ends the group counts the active  *)
(* queries; and exactly the queries ended are answered                      *)
(* (GroupPrefetch.hpp 42-77, Vectorized.hpp 43-80).                         *)
GroupExact ==
  /\ pc \in {"while", "move"} =>
       /\ \A j \in Members : active[j] => OnWay(batch_start + j, nodes[j])
       /\ remaining = Cardinality({j \in Members : active[j]})
  /\ pc = "move" => \A j \in Members : active[j] => pos[j] = ItemOf(batch_start + j, nodes[j])
  /\ AnswersRight(Stored(tree), Answered)
  /\ pc = "returned" => Answered = QueryIdx

Abstract == INSTANCE BatchLookup WITH stored <- Stored(tree), answered <- Answered
=============================================================================
