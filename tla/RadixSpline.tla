----------------------------- MODULE RadixSpline -----------------------------
(***************************************************************************)
(* The radix spline (RS/RS_index/builder.hpp, radix_spline.hpp) and its    *)
(* users.  A radix spline is points of the function from keys to           *)
(* positions, a table that leads from the leading bits of a key to the     *)
(* points that may be next to it, and the window of positions predicted    *)
(* for a key.  A Builder is given keys one by one; RSWrapper               *)
(* (RSWrapper.hpp) sorts keys and values and keeps them with the spline    *)
(* built for them.  Vectors are functions from 0 .. size - 1.              *)
(***************************************************************************)
EXTENDS Integers, SequencesExt

CONSTANTS KeyBits,     (* the width of KeyType                                *)
          Key,
          Settings,    (* what a Builder is made for: [min_key, max_key,       *)
                       (* num_radix_bits, max_error]                           *)
          NumRadixBits, MaxError,   (* the template arguments of RSWrapper     *)
          Inputs,      (* the <<keys, values>> that build is given             *)
          MaxKeys      (* bounds the keys added to a Builder                   *)

VARIABLES builder,     (* its settings and keys, or NoBuilder                  *)
          rs           (* RSWrapper: [keys, values, index]                     *)

vars == <<builder, rs>>

Size(v) == Cardinality(DOMAIN v)

BitWidth(x) ==
  IF x = 0 THEN 1 ELSE CHOOSE bits \in 1 .. KeyBits : 2^(bits - 1) <= x /\ x < 2^bits

(* The first num_radix_bits of the key's distance from min_key, counted in  *)
(* the width that the whole range of keys needs; b is a Builder or a spline. *)
GetPrefix(b, key) ==
  LET diff  == Min({Max({key, b.min_key}), b.max_key}) - b.min_key
      shift == BitWidth(b.max_key - b.min_key) - b.num_radix_bits
  IN  IF b.num_radix_bits = 0 THEN 0
      ELSE Min({2^b.num_radix_bits - 1,
                IF shift > 0 THEN diff \div 2^shift ELSE diff * 2^(-shift)})

-----------------------------------------------------------------------------
(* Builder *)

(* A point at every stride-th key, and at the last one. *)
Nth(positions, m) == CHOOSE i \in positions : Cardinality({j \in positions : j < i}) = m
PointsAt(keys, positions) ==
  [m \in 0 .. Cardinality(positions) - 1 |->
     [x |-> keys[Nth(positions, m)], y |-> Nth(positions, m)]]
(* Mutant: the stride is the length of a window. *)
BuildSplinePoints_Sparse(keys, max_error) ==
  PointsAt(keys, {i \in DOMAIN keys : i % (2 * max_error + 2) = 0 \/ i = Size(keys) - 1})
BuildSplinePoints(keys, max_error) ==
  PointsAt(keys, {i \in DOMAIN keys : i % Max({1, max_error}) = 0 \/ i = Size(keys) - 1})

(* Every prefix is led to the first point that has it or a greater one; the *)
(* prefixes of the points are computed once.                               *)
TableOf(prefixes, limit) ==
  [p \in 0 .. limit |-> Min({Size(prefixes)} \cup {i \in DOMAIN prefixes : p < limit /\ prefixes[i] >= p})]
BuildRadixTable(b, points) ==
  TableOf([i \in DOMAIN points |-> GetPrefix(b, points[i].x)], 2^b.num_radix_bits)

SplineOf(b, points) ==
  [min_key |-> b.min_key, max_key |-> b.max_key,
   num_keys |-> Size(b.keys), num_radix_bits |-> b.num_radix_bits,
   max_error |-> b.max_error, spline_points |-> points,
   radix_table |-> BuildRadixTable(b, points)]
Finalize(b) == SplineOf(b, BuildSplinePoints(b.keys, b.max_error))

NoKeys == [i \in {} |-> 0]

(* RadixSpline(). *)
EmptySpline ==
  [min_key |-> 0, max_key |-> 0, num_keys |-> 0, num_radix_bits |-> 0, max_error |-> 0,
   spline_points |-> <<>>, radix_table |-> <<>>]

(* What RSWrapper builds for its sorted keys: a Builder for the range they  *)
(* span is given them all.                                                 *)
IndexOf(keys, num_radix_bits, max_error) ==
  IF keys = NoKeys THEN EmptySpline
  ELSE Finalize([min_key |-> keys[0], max_key |-> keys[Size(keys) - 1], keys |-> keys,
                 num_radix_bits |-> num_radix_bits, max_error |-> max_error])

-----------------------------------------------------------------------------
(* RadixSpline *)

(* The points among which the one left of the key is looked for. *)
SearchBegin(spline, p) == Min({Max({spline.radix_table[p] - 1, 0}), Size(spline.spline_points) - 1})
SearchEnd(spline, p)   == Max({Min({spline.radix_table[p + 1] + 1, Size(spline.spline_points)}),
                           SearchBegin(spline, p) + 1})

(* std::upper_bound between two points, less one; kept off the last point,  *)
(* for a segment needs a right end.                                        *)
SegmentIn(points, begin, end, key) ==
  Min({Size(points) - 2,
       Max({0, Min({end} \cup {i \in begin .. end - 1 : key < points[i].x}) - 1})})
GetSplineSegment(spline, key) ==
  LET p == GetPrefix(spline, key)
  IN  IF Size(spline.spline_points) <= 1 THEN 0
      ELSE SegmentIn(spline.spline_points, SearchBegin(spline, p), SearchEnd(spline, p), key)

ClampPosition(spline, pos) == Min({Max({0, pos}), spline.num_keys})

(* left.y + slope * (key - left.x), cut to an integer.  Where the exact     *)
(* value is one, floating point may fall short of it.                      *)
Interpolated(left, right, key, falls) ==
  LET num == (right.y - left.y) * (key - left.x)
      den == right.x - left.x
  IN  left.y + (num \div den) - (IF falls /\ num > 0 /\ num % den = 0 THEN 1 ELSE 0)

GetEstimatedPosition(spline, key, falls) ==
  LET points == spline.spline_points
      last   == points[Size(points) - 1]
      left   == points[GetSplineSegment(spline, key)]
      right  == points[GetSplineSegment(spline, key) + 1]
  IN  CASE key <= points[0].x \/ Size(points) = 1 -> ClampPosition(spline, points[0].y)
        [] key > points[0].x /\ key >= last.x /\ Size(points) > 1 -> ClampPosition(spline, last.y)
        [] OTHER -> IF right.x = left.x THEN ClampPosition(spline, left.y)
                    ELSE ClampPosition(spline, Interpolated(left, right, key, falls))

BoundAround(spline, pos) ==
  LET end == Min({pos + spline.max_error + 2, spline.num_keys})
  IN  [begin |-> Min({Max({pos - spline.max_error, 0}), end}), end |-> end]
GetSearchBound(spline, key, falls) ==
  IF spline.num_keys = 0 THEN [begin |-> 0, end |-> 0]
  ELSE BoundAround(spline, GetEstimatedPosition(spline, key, falls))

-----------------------------------------------------------------------------
(* What lookups rely on: a window lies inside the keys, is no longer than   *)
(* the steps of a search are counted for, and holds the key if any does.   *)
WindowRight(bound, keys, max_error, key) ==
  /\ 0 <= bound.begin /\ bound.begin <= bound.end /\ bound.end <= Size(keys)
  /\ bound.end - bound.begin <= 2 * max_error + 2
  /\ (\E i \in DOMAIN keys : keys[i] = key)
       => \E i \in bound.begin .. bound.end - 1 : keys[i] = key

-----------------------------------------------------------------------------
(* The Builder and RSWrapper in use.                                       *)

NoBuilder == [min_key |-> 0, max_key |-> 0, num_radix_bits |-> 0, max_error |-> 0, keys |-> NoKeys]
WithKeys(setting, keys) ==
  [min_key |-> setting.min_key, max_key |-> setting.max_key, keys |-> keys,
   num_radix_bits |-> setting.num_radix_bits, max_error |-> setting.max_error]

Init ==
  /\ builder = NoBuilder
  /\ rs = [keys |-> NoKeys, values |-> NoKeys, index |-> EmptySpline]

-----------------------------------------------------------------------------
(* Builder: min_key > max_key throws, and no Builder is made. *)
NewBuilder(setting) ==
  /\ builder = NoBuilder
  /\ setting.min_key <= setting.max_key
  /\ builder' = WithKeys(setting, NoKeys)
  /\ UNCHANGED rs

(* The two tests of AddKey; the throw leaves the Builder as it was. *)
Accepts(key) ==
  /\ builder.keys # NoKeys => builder.keys[Size(builder.keys) - 1] <= key
  /\ builder.min_key <= key /\ key <= builder.max_key

AddKey(key) ==
  /\ builder # NoBuilder
  /\ Size(builder.keys) < MaxKeys
  /\ Accepts(key)
  /\ builder' = [builder EXCEPT !.keys =
                   [i \in 0 .. Size(builder.keys) |->
                      IF i = Size(builder.keys) THEN key ELSE builder.keys[i]]]
  /\ UNCHANGED rs

BuilderNext ==
  \/ \E setting \in Settings : NewBuilder(setting)
  \/ \E key \in Key : AddKey(key)

-----------------------------------------------------------------------------
(* RSWrapper::build.  The order that a stable sort by key gives. *)
Rank(keys, i) == Cardinality({j \in DOMAIN keys : \/ keys[j] < keys[i]
                                                  \/ keys[j] = keys[i] /\ j < i})
(* Mutant: the values stay where they were. *)
SortByKey_KeysOnly(keys, v) ==
  IF v = keys THEN [p \in DOMAIN v |-> v[CHOOSE i \in DOMAIN keys : Rank(keys, i) = p]] ELSE v
SortByKey(keys, v) ==
  [p \in DOMAIN v |-> v[CHOOSE i \in DOMAIN keys : Rank(keys, i) = p]]

(* Vectors of different sizes throw before anything is stored. *)
build(keys, values) ==
  /\ IF Size(keys) # Size(values)
     THEN UNCHANGED rs
     ELSE rs' = [keys   |-> SortByKey(keys, keys),
                 values |-> SortByKey(keys, values),
                 index  |-> IndexOf(SortByKey(keys, keys), NumRadixBits, MaxError)]
  /\ UNCHANGED builder

WrapperNext ==
  \E input \in Inputs : build(input[1], input[2])

Next == BuilderNext \/ WrapperNext

Spec == Init /\ [][Next]_vars

-----------------------------------------------------------------------------
WindowsRight(spline, keys) ==
  \A key \in Key, falls \in BOOLEAN :
    WindowRight(GetSearchBound(spline, key, falls), keys, spline.max_error, key)

(* Whatever keys a Builder has been given, and whatever range it was made   *)
(* for, the windows that its spline predicts hold the keys, and so do those *)
(* of the spline that RSWrapper keeps (radix_spline.hpp 55-77).            *)
SplineWindows ==
  /\ WindowsRight(Finalize(builder), builder.keys)
  /\ WindowsRight(rs.index, rs.keys)

(* What is stored is what one call of build was given: sorted, with each    *)
(* key's values in the order they came in (RSWrapper.hpp 48-78).           *)
OfKey(keys, values, key) ==
  SelectSeq([i \in 1 .. Size(keys) |-> <<keys[i - 1], values[i - 1]>>], LAMBDA item : item[1] = key)
RSItemsKept ==
  /\ \A p \in DOMAIN rs.keys : p > 0 => rs.keys[p - 1] <= rs.keys[p]
  /\ rs.keys = NoKeys \/ \E input \in Inputs :
       /\ Size(input[1]) = Size(input[2])
       /\ \A key \in Key : OfKey(rs.keys, rs.values, key) = OfKey(input[1], input[2], key)
=============================================================================
