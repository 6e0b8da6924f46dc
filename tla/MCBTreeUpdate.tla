----------------------------- MODULE MCBTreeUpdate -----------------------------
(***************************************************************************)
(* BTreeUpdate on the smallest nodes the code is correct for, three times; *)
(* the case is chosen in the beginning.  "deep": a multimap that is one    *)
(* long run of two keys, large enough for three levels and every split,    *)
(* merge and shift; "unique": a map, whose keys can be rejected; "values": *)
(* a multimap whose items of one key can be told apart.                    *)
(***************************************************************************)
EXTENDS BTreeUpdate

VARIABLE case

MCKey   == {0, 1}
MCValue == {0}
MCAbove == 9
MCBelow == -1

Unique == INSTANCE BTreeUpdate WITH Key <- 0 .. 5, Value <- {0, 1}, MaxItems <- 6,
                                    innerslotmax <- 3, allow_duplicates <- FALSE
Values == INSTANCE BTreeUpdate WITH Key <- {0, 1}, Value <- {0, 1}, MaxItems <- 7,
                                    innerslotmax <- 3

MCInit == Init /\ case \in {"deep", "unique", "values"}

MCNext ==
  /\ \/ case = "deep" /\ Next
     \/ case = "unique" /\ Unique!Next
     \/ case = "values" /\ Values!Next
  /\ UNCHANGED case

(* States that differ in the call that led to them only are one state. *)
MCView == <<btree, done, asserted, case>>

MCSpec == MCInit /\ [][MCNext]_<<vars, case>>

-----------------------------------------------------------------------------
(* No call breaks the tree, in any of the cases.                           *)
EveryUpdateExact ==
  /\ case = "deep" => UpdatesExact
  /\ case = "unique" => Unique!UpdatesExact
  /\ case = "values" => Values!UpdatesExact

(* What is read from the largest trees is right.                           *)
EveryQueryRight == case = "deep" => QueriesRight

(* In every case every call does to the tree what the same call does to    *)
(* the sorted sequence of its items.                                       *)
EveryTreeSorted ==
  /\ Sorted_Items!Init
  /\ [][/\ case = "deep"   => [Sorted_Items!Next]_(Sorted_Items!vars)
        /\ case = "unique" => [Unique!Sorted_Items!Next]_(Unique!Sorted_Items!vars)
        /\ case = "values" => [Values!Sorted_Items!Next]_(Values!Sorted_Items!vars)]_<<vars, case>>
=============================================================================
