----------------------------- MODULE BatchLookup -----------------------------
(***************************************************************************)
(* What every batch_lookup promises, whatever the order it visits memory   *)
(* in: each query of the batch is answered exactly once, the answer is the *)
(* one the stored pairs dictate, an answer once given never changes, and   *)
(* all queries are answered in the end.  How many queries are answered in  *)
(* one step, and in which order, is left open.                             *)
(***************************************************************************)
EXTENDS Integers, Sequences

CONSTANTS Key, Value,
          Stale     (* what a results entry holds before the call          *)

VARIABLES stored,   (* the set of <<key, value>> pairs of the index        *)
          queries,  (* the sequence of keys to look up                     *)
          answered, (* the positions of queries already answered           *)
          found,    (* the vector<bool> returned                           *)
          results   (* the vector of values filled in                      *)

vars == <<stored, queries, answered, found, results>>

Positions == 0 .. Len(queries) - 1
KeyAt(q)  == queries[q + 1]

(* A key that is stored is found, with a value stored for it; a key that is *)
(* not stored is not found and its results entry is left alone.             *)
RightAnswer(q) ==
  IF \E pair \in stored : pair[1] = KeyAt(q)
  THEN found[q] /\ <<KeyAt(q), results[q]>> \in stored
  ELSE ~found[q] /\ results[q] = Stale

Unanswered(q) == ~found[q] /\ results[q] = Stale

Init ==
  /\ stored \in SUBSET (Key \X Value)
  /\ queries \in Seq(Key)
  /\ answered = {}
  /\ found = [q \in Positions |-> FALSE]
  /\ results = [q \in Positions |-> Stale]

(* Some queries get their answers; every other entry keeps what it has. *)
Answer ==
  /\ answered' \subseteq Positions
  /\ answered \subseteq answered'
  /\ answered # answered'
  /\ \A q \in answered' \ answered : RightAnswer(q)'
  /\ \A q \in Positions \ (answered' \ answered) :
        found'[q] = found[q] /\ results'[q] = results[q]
  /\ DOMAIN found' = Positions
  /\ DOMAIN results' = Positions
  /\ UNCHANGED <<stored, queries>>

Next == Answer

(* The safety part, which the strategies refine step by step, and the promise *)
(* that the call comes to an end with every query answered.                   *)
SafeSpec    == Init /\ [][Next]_vars
AllAnswered == <>(answered = Positions)
=============================================================================
