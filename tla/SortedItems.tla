----------------------------- MODULE SortedItems -----------------------------
(***************************************************************************)
(* What the B+ tree promises as a container: a sequence of items sorted by *)
(* key.  An insert goes before the items with the same key (or fails, when *)
(* keys are unique); erase_one takes the first item of a key, erase(key)   *)
(* all of them, erase(iterator) the one pointed to.                        *)
(***************************************************************************)
EXTENDS Integers, SequencesExt

CONSTANTS Key, Value,
          allow_duplicates

VARIABLES items,      (* <<key, value>> pairs                              *)
          done,       (* whether the last call inserted or erased an item  *)
          called      (* which call that was, with its arguments           *)

vars == <<items, done, called>>

Has(key) == \E p \in 1 .. Len(items) : items[p][1] = key

(* The place of the first item whose key is not less. *)
LowerBound(key) == 1 + Cardinality({p \in 1 .. Len(items) : items[p][1] < key})

Init == items = <<>> /\ done = FALSE /\ called = <<>>

Insert(key, value) ==
  /\ called' = <<"insert", key, value>>
  /\ IF Has(key) /\ ~allow_duplicates
     THEN done' = FALSE /\ UNCHANGED items
     ELSE done' = TRUE /\ items' = InsertAt(items, LowerBound(key), <<key, value>>)

EraseOne(key) ==
  /\ called' = <<"erase_one", key>>
  /\ done' = Has(key)
  /\ items' = IF Has(key) THEN RemoveAt(items, LowerBound(key)) ELSE items

EraseKey(key) ==
  /\ called' = <<"erase_key", key>>
  /\ done' = Has(key)
  /\ items' = SelectSeq(items, LAMBDA item : item[1] # key)

(* The iterator points to the item at p. *)
EraseIter(p) ==
  /\ called' = <<"erase_iter", p>>
  /\ done' = TRUE
  /\ items' = RemoveAt(items, p)

Clear ==
  /\ called' = <<"clear">>
  /\ done' = FALSE
  /\ items' = <<>>

Next == \/ \E key \in Key : \/ \E value \in Value : Insert(key, value)
                            \/ EraseOne(key)
                            \/ EraseKey(key)
        \/ \E p \in 1 .. Len(items) : EraseIter(p)
        \/ Clear

Spec == Init /\ [][Next]_vars
=============================================================================
