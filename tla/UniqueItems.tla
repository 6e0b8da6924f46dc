---------------------------- MODULE UniqueItems ----------------------------
(***************************************************************************)
(* What LIPP promises as a container: one value for each key.  A key that  *)
(* is stored already must not be inserted, nor a range loaded that is not  *)
(* strictly increasing: the program ends.                                  *)
(***************************************************************************)
EXTENDS Integers, Sequences

CONSTANTS Items,    (* the <<key, value>> pairs that may be inserted      *)
          Ranges    (* the sequences of pairs that may be loaded          *)

VARIABLES stored,   (* <<key, value>> pairs                                *)
          alive,    (* whether the program still runs                      *)
          called    (* the last call, with its arguments                   *)

vars == <<stored, alive, called>>

Init == stored = {} /\ alive = TRUE /\ called = <<>>

Insert(key, value) ==
  /\ alive = TRUE
  /\ called' = <<"insert", key, value>>
  /\ alive' = (\A item \in stored : item[1] # key)
  /\ stored' = IF alive' THEN stored \cup {<<key, value>>} ELSE stored

StrictlyIncreasing(range) == \A p \in 1 .. Len(range) - 1 : range[p][1] < range[p + 1][1]

BulkLoad(range) ==
  /\ alive = TRUE
  /\ called' = <<"bulk_load", range>>
  /\ alive' = StrictlyIncreasing(range)
  /\ stored' = IF alive' THEN {range[p] : p \in DOMAIN range} ELSE stored

(* The index is destroyed. *)
Destroy ==
  /\ alive = TRUE
  /\ called' = <<"destroy">>
  /\ alive' = FALSE
  /\ stored' = {}

Next == \/ \E item \in Items : Insert(item[1], item[2])
        \/ \E range \in Ranges : BulkLoad(range)
        \/ Destroy

Spec == Init /\ [][Next]_vars
=============================================================================
