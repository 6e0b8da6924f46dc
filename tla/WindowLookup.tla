----------------------------- MODULE WindowLookup -----------------------------
(***************************************************************************)
(* What the RS and PGM lookup strategies share: the sorted keys and their  *)
(* values, for every key the window of positions predicted for it, and the *)
(* binary search in a window.  An index is a record                        *)
(*   keys, values   vectors, functions from 0 .. size - 1                  *)
(*   window         key -> [lo, hi]                                        *)
(*   error          the error the predictions are allowed                  *)
(*   levels         the visits it takes AMAC to find a window              *)
(***************************************************************************)
EXTENDS IndexLookup

CONSTANTS Key, Value, Indexes

(* The positions of an index are numbered from 0, its keys sorted. *)
Size(x)     == Cardinality(DOMAIN x.keys)
SortedOK(x) ==
  /\ Size(x) \in Nat
  /\ x.keys \in [0 .. Size(x) - 1 -> Key]
  /\ x.values \in [0 .. Size(x) - 1 -> Value]
  /\ \A p, r \in DOMAIN x.keys : p <= r => x.keys[p] <= x.keys[r]

(* What the prediction for a key promises: if the window has positions they *)
(* are those of keys, no more than the error allows; and a key that is      *)
(* stored is in its window or right behind it.                             *)
WindowOK(x, key) ==
  LET w == x.window[key]
  IN  /\ w.hi - w.lo <= 2 * x.error + 2
      /\ w.lo < w.hi => w.hi <= Size(x)
      /\ \A p \in DOMAIN x.keys : x.keys[p] = key =>
            \E r \in w.lo .. w.hi : r \in DOMAIN x.keys /\ x.keys[r] = key

SoundIndex(x) ==
  /\ SortedOK(x)
  /\ x.error \in Nat /\ x.levels \in Nat \ {0}
  /\ x.window \in [Key -> [lo : Nat, hi : Nat]]
  /\ \A key \in Key : WindowOK(x, key)

(* The composition that instantiates the strategies assumes, of all its     *)
(* strategies at once, that Indexes are sound and Batches of keys.          *)
VARIABLE index

args == <<index, queries>>

ArgsAndOutsInit == index \in Indexes /\ LookupInit

data_size == Size(index)
Window(q) == index.window[KeyAt(q)]

(* One step of the search for the first key that is not less. *)
Open(w)      == w.lo < w.hi
Mid(w)       == (w.lo + w.hi) \div 2
Halved(q, w) ==
  IF ~Open(w) THEN w
  ELSE IF KeyAt(q) <= index.keys[Mid(w)] THEN [w EXCEPT !.hi = Mid(w)]
  ELSE [w EXCEPT !.lo = Mid(w) + 1]

pow2[e \in Nat] == IF e = 0 THEN 1 ELSE 2 * pow2[e - 1]

(* The steps that close a window of up to max_range positions. *)
(* Mutant: one step too few. *)
calc_steps_Less(max_range) ==
  CHOOSE s \in 0 .. max_range : pow2[s] <= max_range /\ max_range < pow2[s + 1]
calc_steps(max_range) ==
  CHOOSE s \in 1 .. max_range + 1 : pow2[s - 1] <= max_range /\ max_range < pow2[s]
BSEARCH_STEPS         == calc_steps(2 * index.error + 2)

(* The queries in the domain of slots have their searches ended there. *)
IsHit(q, slot) == slot < data_size /\ index.keys[slot] = KeyAt(q)
Collect(slots) ==
  Settle([q \in {x \in DOMAIN slots : IsHit(x, slots[x])} |-> index.values[slots[q]]])

-----------------------------------------------------------------------------
Items == {<<index.keys[p], index.values[p]>> : p \in DOMAIN index.keys}

(* Where the search for q has to end: at the first key of its window that   *)
(* is not less.  A window without positions is never touched.              *)
Goal(q) == Window(q).lo + Cardinality({p \in Window(q).lo .. Window(q).hi - 1 :
                                         index.keys[p] < KeyAt(q)})
OnTrack(q, w) == IF Open(Window(q)) THEN w.lo <= Goal(q) /\ Goal(q) <= w.hi ELSE w = Window(q)
=============================================================================
