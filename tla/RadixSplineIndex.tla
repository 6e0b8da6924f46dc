--------------------------- MODULE RadixSplineIndex ---------------------------
(***************************************************************************)
(* RadixSplineIndex (RS/RS_index/rs_index.hpp), the other radix spline of  *)
(* the repository: its points are chosen greedily, as far apart as the     *)
(* error allows, and its table holds one point for every value of a key's  *)
(* leading bits.  No lookup strategy uses it.                              *)
(***************************************************************************)
EXTENDS Integers, SequencesExt

CONSTANTS Error, RadixBits,
          KeyBits,      (* 64 *)
          Gaps, MaxKeys (* it is made for at most MaxKeys keys with these gaps *)

VARIABLES keys, spline_points, radix_table

vars == <<keys, spline_points, radix_table>>

Keys(gaps) == [p \in 0 .. Len(gaps) - 1 |-> FoldLeft(+, 0, SubSeq(gaps, 1, p + 1))]
Inputs     == {Keys(gaps) : gaps \in UNION {[1 .. m -> Gaps] : m \in 1 .. MaxKeys}}

Size(v)     == Cardinality(DOMAIN v)
Point(v, p) == [x |-> v[p], y |-> p]

-----------------------------------------------------------------------------
(* Whether the line from point last to key i leaves no key in between more  *)
(* than Error away.  The line between equal keys is no number, and so it is *)
(* never found to be too far.                                              *)
CanExtend(v, last, i) ==
  LET dx == v[i] - v[last]
  IN  dx = 0 \/ \A j \in last + 1 .. i :
        LET off == (v[j] - v[last]) * (i - last) - (j - last) * dx
        IN  -Error * dx <= off /\ off <= Error * dx

(* The key before the one that cannot be reached becomes a point; from      *)
(* there the next one always can be.                                       *)
Extended(points, v, i) ==
  IF CanExtend(v, Last(points).y, i) THEN points ELSE Append(points, Point(v, i - 1))
Ended(points, v) ==
  IF Last(points) = Point(v, Size(v) - 1) THEN points ELSE Append(points, Point(v, Size(v) - 1))
SplinePoints(v) ==
  Ended(FoldLeft(LAMBDA points, i : Extended(points, v, i), <<Point(v, 0)>>,
                 [i \in 1 .. Size(v) - 1 |-> i]), v)

(* The last point not after the bucket's first key, or the first point.     *)
RadixTable(points) ==
  [b \in 0 .. 2^RadixBits |->
     IF b = 2^RadixBits THEN Len(points)
     ELSE Max({m \in 1 .. Len(points) : m = 1 \/ points[m].x <= b * 2^(KeyBits - RadixBits)})]

Init == keys = <<>> /\ spline_points = <<>> /\ radix_table = <<>>

build(v) ==
  /\ keys' = v
  /\ spline_points' = SplinePoints(v)
  /\ radix_table' = RadixTable(spline_points')

Next == \E v \in Inputs : build(v)

Spec == Init /\ [][Next]_vars

-----------------------------------------------------------------------------
(* search: one line from the bucket's point to that of the next bucket. *)
Around(pred) == [lo |-> Max({0, pred - Error}), hi |-> Min({pred + Error + 1, Size(keys)})]
Predicted(p, q, key) ==
  IF key >= q.x THEN q.y ELSE p.y + ((q.y - p.y) * (key - p.x)) \div (q.x - p.x)
search(key) ==
  LET bucket == key \div 2^(KeyBits - RadixBits)
  IN  Around(Predicted(spline_points[radix_table[bucket]],
                       spline_points[radix_table[bucket + 1]], key))

(* "A search range [lo, hi) guaranteed to contain the key (if it exists)"   *)
(* (rs_index.hpp 31-33).                                                   *)
ContainsKey ==
  \A p \in DOMAIN keys : \E q \in search(keys[p]).lo .. search(keys[p]).hi - 1 : keys[q] = keys[p]
=============================================================================
