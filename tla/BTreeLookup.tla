----------------------------- MODULE BTreeLookup -----------------------------
(***************************************************************************)
(* What all B+ tree lookup strategies share: their arguments and their     *)
(* output vectors.  The tree and the query batch are parameters of the     *)
(* call; they are variables chosen by Init and never changed, so that one  *)
(* run covers every tree in Trees with every batch in Batches.             *)
(***************************************************************************)
EXTENDS BPlusTree, Sequences

CONSTANTS Trees,     (* the trees the call may be given        *)
          Batches,   (* the query vectors it may be given      *)
          Stale      (* what a results entry holds before      *)

ASSUME TreesAssumption   == \A t \in Trees : WellFormed(t)
ASSUME BatchesAssumption == Batches \subseteq Seq(Key)
ASSUME StaleAssumption   == Stale \notin Value

VARIABLES tree, queries,   (* the arguments                      *)
          found, results   (* the vectors the call fills in      *)

args == <<tree, queries>>
outs == <<found, results>>

Min2(a, b) == IF a < b THEN a ELSE b

n           == Len(queries)
QueryIdx    == 0 .. n - 1
KeyAt(q)    == queries[q + 1]
Node(v)     == tree.node[v]
IsLeafId(v) == isleafnode(Node(v))

(* found(n, false) and results.resize(n): the results keep what they held. *)
ArgsAndOutsInit ==
  /\ tree \in Trees
  /\ queries \in Batches
  /\ found = [q \in QueryIdx |-> FALSE]
  /\ results = [q \in QueryIdx |-> Stale]

(* The early return of every strategy: no root, or nothing to look up. *)
NothingToDo == tree.root = NULL \/ n = 0

(* Mutant: the answers given earlier are wiped out. *)
WriteAnswers_Wipes(reached) ==
  LET HitAt(q) == q \in DOMAIN reached /\ Hit(Node(reached[q]), KeyAt(q))
  IN  /\ found'   = [q \in QueryIdx |-> HitAt(q)]
      /\ results' = [q \in QueryIdx |-> IF HitAt(q) THEN Data(Node(reached[q]), KeyAt(q))
                                        ELSE results[q]]

(* Some queries get their answers, each at the leaf its search has reached: *)
(* reached is a function from query positions to leaves.                     *)
WriteAnswers(reached) ==
  LET HitAt(q) == q \in DOMAIN reached /\ Hit(Node(reached[q]), KeyAt(q))
  IN  /\ found'   = [q \in QueryIdx |-> IF q \in DOMAIN reached THEN HitAt(q) ELSE found[q]]
      /\ results' = [q \in QueryIdx |-> IF HitAt(q) THEN Data(Node(reached[q]), KeyAt(q))
                                        ELSE results[q]]

(* Mutant: a slot is enough to be found. *)
Gather_AnySlot(reached, slot) ==
  LET HitAt(q) == q \in DOMAIN reached /\ slot[q] < Node(reached[q]).slotuse
  IN  /\ found'   = [q \in QueryIdx |-> IF q \in DOMAIN reached THEN HitAt(q) ELSE found[q]]
      /\ results' = [q \in QueryIdx |-> IF HitAt(q) THEN Node(reached[q]).slotdata[slot[q]]
                                        ELSE results[q]]
(* The same for the strategies that search first and gather afterwards:     *)
(* slot[q] is the slot that the search of the leaf has left for query q.     *)
Gather(reached, slot) ==
  LET HitAt(q) == /\ q \in DOMAIN reached
                  /\ slot[q] < Node(reached[q]).slotuse
                  /\ KeyAt(q) = Node(reached[q]).slotkey[slot[q]]
  IN  /\ found'   = [q \in QueryIdx |-> IF q \in DOMAIN reached THEN HitAt(q) ELSE found[q]]
      /\ results' = [q \in QueryIdx |-> IF HitAt(q) THEN Node(reached[q]).slotdata[slot[q]]
                                        ELSE results[q]]

-----------------------------------------------------------------------------
(* The vocabulary of the properties.                                       *)

OutsTypeOK ==
  /\ tree \in Trees
  /\ queries \in Batches
  /\ found \in [QueryIdx -> BOOLEAN]
  /\ results \in [QueryIdx -> Value \cup {Stale}]

(* Found exactly when stored, and then with a value stored for that key; a *)
(* miss leaves the results entry alone.                                    *)
RightAnswer(q) ==
  IF Present(tree, KeyAt(q))
  THEN found[q] /\ <<KeyAt(q), results[q]>> \in Stored(tree)
  ELSE ~found[q] /\ results[q] = Stale

Unanswered(q) == ~found[q] /\ results[q] = Stale

(* The separators on the path to v admit the key of query q. *)
OnPath(q, v) == tree.lo[v] < KeyAt(q) /\ KeyAt(q) <= tree.hi[v]
=============================================================================
