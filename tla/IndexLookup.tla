----------------------------- MODULE IndexLookup -----------------------------
(***************************************************************************)
(* What the batch lookups of the learned indexes (LIPP, RS, PGM) share:    *)
(* the query batch, which is chosen by Init and never changes, and the two *)
(* vectors they fill in.                                                   *)
(***************************************************************************)
EXTENDS Integers, Sequences, FiniteSets

CONSTANTS Batches,   (* the query vectors the call may be given            *)
          Stale      (* what a results entry holds before                  *)

VARIABLES queries, found, results

outs == <<found, results>>

Min2(a, b) == IF a < b THEN a ELSE b

n        == Len(queries)
QueryIdx == 0 .. n - 1
KeyAt(q) == queries[q + 1]

(* found(n, false) and results.resize(n). *)
LookupInit ==
  /\ queries \in Batches
  /\ found = [q \in QueryIdx |-> FALSE]
  /\ results = [q \in QueryIdx |-> Stale]

(* The queries in the domain of hits are found, with the values given there; *)
(* a miss writes nothing.                                                    *)
Settle(hits) ==
  /\ found'   = [q \in QueryIdx |-> q \in DOMAIN hits \/ found[q]]
  /\ results' = [q \in QueryIdx |-> IF q \in DOMAIN hits THEN hits[q] ELSE results[q]]

-----------------------------------------------------------------------------
(* The vocabulary of the properties; items is the set of <<key, value>>     *)
(* pairs of the index.                                                      *)

RightAnswer(items, q) ==
  IF \E item \in items : item[1] = KeyAt(q)
  THEN found[q] /\ <<KeyAt(q), results[q]>> \in items
  ELSE ~found[q] /\ results[q] = Stale

Unanswered(q) == ~found[q] /\ results[q] = Stale

(* Exactly the queries in answered have their answer. *)
AnswersRight(items, answered) ==
  \A q \in QueryIdx : IF q \in answered THEN RightAnswer(items, q) ELSE Unanswered(q)
=============================================================================
