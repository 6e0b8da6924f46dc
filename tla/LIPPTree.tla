------------------------------ MODULE LIPPTree ------------------------------
(***************************************************************************)
(* A LIPP tree as a value (lipp.h): a function from paths to nodes.  A     *)
(* path is the sequence of item positions that leads from the root to the  *)
(* node; the child held by item p of the node at r is the node at          *)
(* Append(r, p).  The items of a node are kept as in the code: a bitmap of *)
(* empty items, a bitmap of children, and the data of the others.          *)
(***************************************************************************)
EXTENDS Integers, Sequences, FiniteSetsExt

CONSTANTS Key, Value

Positions(nd) == 0 .. nd.num_items - 1

(* model[key] is the integer part of the prediction a * key + b, which is   *)
(* clamped to the items of the node.                                       *)
PREDICT_POS(nd, key) ==
  IF nd.model[key] < 0 THEN 0
  ELSE IF nd.model[key] < nd.num_items THEN nd.model[key] ELSE nd.num_items - 1

(* The path r is the one that predictions for key follow. *)
Follows(t, r, key) ==
  \A j \in 1 .. Len(r) : r[j] = PREDICT_POS(t[SubSeq(r, 1, j - 1)], key)

(* Where the search for key stops: the first node on its way whose item for *)
(* key is no child.                                                        *)
Route(t, key) ==
  CHOOSE r \in DOMAIN t :
    Follows(t, r, key) /\ PREDICT_POS(t[r], key) \notin t[r].child_bitmap

(* Mutant: any item at the predicted position will do. *)
exists_AnyKey(t, key) ==
  LET nd == t[Route(t, key)] IN PREDICT_POS(nd, key) \notin nd.none_bitmap
exists(t, key) ==
  LET nd  == t[Route(t, key)]
      pos == PREDICT_POS(nd, key)
  IN  pos \notin nd.none_bitmap /\ nd.data[pos][1] = key

(* The value read for a key, which the caller knows to be stored: with the  *)
(* default arguments neither the bitmap nor the key is looked at.          *)
at(t, key) == t[Route(t, key)].data[PREDICT_POS(t[Route(t, key)], key)][2]

Stored(t) == UNION {{t[r].data[p] : p \in DOMAIN t[r].data} : r \in DOMAIN t}

(* The items in front of position p of the node at r, those below children  *)
(* included.                                                               *)
Before(t, r, p) ==
  Cardinality({x \in DOMAIN t[r].data : x < p})
  + MapThenSumSet(LAMBDA x : t[Append(r, x)].size, {x \in t[r].child_bitmap : x < p})

(* LIPP::verify. *)
verify(t) == \A r \in DOMAIN t : Before(t, r, t[r].num_items) = t[r].size

-----------------------------------------------------------------------------
(* What searches rely on.                                                  *)

(* A node has items, its model predicts, and its data are keys with values. *)
NodeOK(nd) ==
  /\ nd.num_items \in Nat \ {0}
  /\ DOMAIN nd.model = Key /\ \A key \in Key : nd.model[key] \in Int
  /\ \A p \in DOMAIN nd.data : nd.data[p] \in Key \X Value

(* Every item is empty, data or a child, and children are there. *)
ItemsOK(t, r) ==
  /\ t[r].none_bitmap \cap t[r].child_bitmap = {}
  /\ DOMAIN t[r].data = Positions(t[r]) \ (t[r].none_bitmap \cup t[r].child_bitmap)
  /\ \A p \in Positions(t[r]) : p \in t[r].child_bitmap <=> Append(r, p) \in DOMAIN t

(* Every item is data only where the predictions for its key lead. *)
DataOK(t, r) ==
  \A p \in DOMAIN t[r].data :
    LET key == t[r].data[p][1] IN Follows(t, r, key) /\ PREDICT_POS(t[r], key) = p

SoundTree(t) ==
  /\ <<>> \in DOMAIN t
  /\ \A r \in DOMAIN t : /\ r \in Seq(Nat)
                         /\ r # <<>> => SubSeq(r, 1, Len(r) - 1) \in DOMAIN t
                         /\ NodeOK(t[r])
                         /\ ItemsOK(t, r)
                         /\ DataOK(t, r)
=============================================================================
