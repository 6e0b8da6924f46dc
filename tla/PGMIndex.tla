------------------------------ MODULE PGMIndex ------------------------------
(***************************************************************************)
(* The PGM index (PGM/PGM_index/piecewise_linear_model.hpp, pgm_index.hpp, *)
(* PGM/PGMWrapper.hpp), from the points to the wrapper.                    *)
(*                                                                         *)
(* The optimal piecewise linear model takes points (x, y) with increasing  *)
(* x into a segment as long as one line passes within epsilon of all of    *)
(* them.  The lines that do are those between the two extreme ones, which  *)
(* the rectangle holds; lower and upper are the hulls from which the next  *)
(* extreme lines are found.                                                *)
(*                                                                         *)
(* In an index levels[1] holds the segments over the keys, levels[l + 1]   *)
(* those over the first keys of the segments of level l.  Levels are       *)
(* vectors, functions from 0 .. size - 1, and end with a segment for the   *)
(* sentinel.                                                               *)
(*                                                                         *)
(* PGMWrapper keeps the keys and values loaded, and the index built for    *)
(* them.                                                                   *)
(***************************************************************************)
EXTENDS Integers, SequencesExt

CONSTANTS Epsilon, EpsilonRecursive,
          KeyBits,        (* the width of keys and of size_t                 *)
          Inputs,         (* the <<keys, values>> that bulk_load is given    *)
          Key,            (* the keys that may be looked up                  *)
          MaxKeys         (* bounds the keys loaded                          *)

VARIABLE pgm     (* [keys, values, index]                                    *)

vars == <<pgm>>

-----------------------------------------------------------------------------
(* OptimalPiecewiseLinearModel                                             *)

Point(x, y) == [x |-> x, y |-> y]

(* Slopes are pairs of differences, compared without dividing. *)
Slope(p, q)   == [dx |-> p.x - q.x, dy |-> p.y - q.y]
Less(s, t)    == s.dy * t.dx < s.dx * t.dy
Greater(s, t) == s.dy * t.dx > s.dx * t.dy

cross(o, a, b) == Slope(a, o).dx * Slope(b, o).dy - Slope(a, o).dy * Slope(b, o).dx

NoModel == [points_in_hull |-> 0, first_x |-> 0, rectangle |-> <<>>,
            lower |-> <<>>, upper |-> <<>>, lower_start |-> 1, upper_start |-> 1]

-----------------------------------------------------------------------------
(* add_point, by the number of points it has; p1 and p2 are epsilon above   *)
(* and below the point.                                                    *)

FirstPoint(p1, p2) ==
  [points_in_hull |-> 1, first_x |-> p1.x, rectangle |-> <<p1, p2, p1, p2>>,
   lower |-> <<p2>>, upper |-> <<p1>>, lower_start |-> 1, upper_start |-> 1]

SecondPoint(opt, p1, p2) ==
  [opt EXCEPT !.rectangle = <<@[1], @[2], p2, p1>>,
              !.upper = Append(@, p1), !.lower = Append(@, p2), !.points_in_hull = 2]

(* Outside one of the extreme lines no line is left. *)
Outside(opt, p1, p2) ==
  \/ Less(Slope(p1, opt.rectangle[3]), Slope(opt.rectangle[3], opt.rectangle[1]))
  \/ Greater(Slope(p2, opt.rectangle[4]), Slope(opt.rectangle[4], opt.rectangle[2]))

(* Along a hull from start, the last point before the slope towards p grows  *)
(* (min_i) or falls (max_i).                                               *)
FlattestPoint(hull, start, p) ==
  Max({m \in start .. Len(hull) :
         \A i \in start + 1 .. m : ~Greater(Slope(hull[i], p), Slope(hull[i - 1], p))})
SteepestPoint(hull, start, p) ==
  Max({m \in start .. Len(hull) :
         \A i \in start + 1 .. m : ~Less(Slope(hull[i], p), Slope(hull[i - 1], p))})

(* The hull with p at its end, without the points that p makes superfluous. *)
UpperHull(upper, start, p1) ==
  Append(SubSeq(upper, 1, Max({e \in 0 .. Len(upper) :
                                 e < start + 1 \/ cross(upper[e - 1], upper[e], p1) > 0})), p1)
LowerHull(lower, start, p2) ==
  Append(SubSeq(lower, 1, Max({e \in 0 .. Len(lower) :
                                 e < start + 1 \/ cross(lower[e - 1], lower[e], p2) < 0})), p2)

(* The steepest line gets flatter through p1, the flattest steeper through  *)
(* p2, where they do not pass between.                                     *)
Flattened(opt, p1, min_i) ==
  [opt EXCEPT !.rectangle = <<@[1], opt.lower[min_i], @[3], p1>>,
              !.lower_start = min_i,
              !.upper = UpperHull(@, opt.upper_start, p1)]
FlattenedIf(opt, p1) ==
  IF Less(Slope(p1, opt.rectangle[2]), Slope(opt.rectangle[4], opt.rectangle[2]))
  THEN Flattened(opt, p1, FlattestPoint(opt.lower, opt.lower_start, p1))
  ELSE opt
Steepened(opt, p2, max_i) ==
  [opt EXCEPT !.rectangle = <<opt.upper[max_i], @[2], p2, @[4]>>,
              !.upper_start = max_i,
              !.lower = LowerHull(@, opt.lower_start, p2)]
SteepenedIf(opt, p2, slope1) ==
  IF Greater(Slope(p2, opt.rectangle[1]), slope1)
  THEN Steepened(opt, p2, SteepestPoint(opt.upper, opt.upper_start, p2))
  ELSE opt

(* Mutant: the flattest line is left as it was. *)
Tightened_OneSide(opt, p1, p2) == [FlattenedIf(opt, p1) EXCEPT !.points_in_hull = @ + 1]

Tightened(opt, p1, p2) ==
  [SteepenedIf(FlattenedIf(opt, p1), p2, Slope(opt.rectangle[3], opt.rectangle[1]))
     EXCEPT !.points_in_hull = @ + 1]

-----------------------------------------------------------------------------
(* get_segment and get_floating_point_segment at the segment's first x:     *)
(* the steepest line, the intercept rounded to the nearest integer.        *)
SteepestLine(first_x, lo, hi) ==
  LET slope == Slope(hi, lo)
      drop  == slope.dy * (lo.x - first_x)
  IN  [key |-> first_x, slope |-> slope,
       intercept |-> lo.y - (drop + slope.dx \div 2) \div slope.dx]
FlatLine(first_x, p1, p2) ==
  [key |-> first_x, slope |-> [dx |-> 1, dy |-> 0], intercept |-> (p1.y + p2.y) \div 2]
get_segment(opt) ==
  IF opt.points_in_hull = 1
  THEN FlatLine(opt.first_x, opt.rectangle[1], opt.rectangle[2])
  ELSE SteepestLine(opt.first_x, opt.rectangle[2], opt.rectangle[4])

(* A point joins the segment at hand, or closes it and opens the next. *)
Joined(acc, p1, p2) ==
  CASE acc.opt.points_in_hull = 0 -> [acc EXCEPT !.opt = FirstPoint(p1, p2)]
    [] acc.opt.points_in_hull = 1 -> [acc EXCEPT !.opt = SecondPoint(acc.opt, p1, p2)]
    [] acc.opt.points_in_hull > 1 ->
         IF Outside(acc.opt, p1, p2)
         THEN [out |-> Append(acc.out, get_segment(acc.opt)), opt |-> FirstPoint(p1, p2)]
         ELSE [acc EXCEPT !.opt = Tightened(acc.opt, p1, p2)]
WithPoint(acc, p, epsilon) ==
  Joined(acc, Point(p.x, p.y + epsilon), Point(p.x, Max({0, p.y - epsilon})))

-----------------------------------------------------------------------------
(* make_segmentation over n sorted keys.                                    *)

(* The point that key number i adds: a repeated key adds the value after it *)
(* at the end of its run.                                                  *)
(* Mutant: a run of equal keys adds nothing at its end. *)
PointOf_NoRunEnd(keys, i) ==
  IF i > 0 /\ keys[i] = keys[i - 1] THEN <<>> ELSE <<Point(keys[i], i)>>
PointOf(keys, i) ==
  IF keys[i] # keys[i - 1] THEN <<Point(keys[i], i)>>
  ELSE IF keys[i] + 1 < keys[i + 1] THEN <<Point(keys[i] + 1, i)>> ELSE <<>>

PointsOf(keys, n) ==
  <<Point(keys[0], 0)>>
  \o FlattenSeq([i \in 1 .. Max({0, n - 2}) |-> PointOf(keys, i)])
  \o (IF n >= 2 /\ keys[n - 1] # keys[n - 2] THEN <<Point(keys[n - 1], n - 1)>> ELSE <<>>)
  \o <<Point(keys[n - 1] + 1, n)>>

Closed(acc) == Append(acc.out, get_segment(acc.opt))
make_segmentation(keys, n, epsilon) ==
  Closed(FoldLeft(LAMBDA acc, p : WithPoint(acc, p, epsilon), [out |-> <<>>, opt |-> NoModel],
                  PointsOf(keys, n)))

(* add_point throws on an x that is not greater than the last: keys that    *)
(* are not sorted.                                                         *)
Throws(keys, n) == \E i \in 1 .. n - 1 : keys[i] < keys[i - 1]

(* A build without OpenMP, as the build files make it, defines the number   *)
(* of threads as 1: make_segmentation_par segments all keys at once.       *)
make_segmentation_par(keys, n, epsilon) == make_segmentation(keys, n, epsilon)

-----------------------------------------------------------------------------
(* PGMIndex                                                                *)

Size(v)      == Cardinality(DOMAIN v)
Vector(s)    == [i \in 0 .. Len(s) - 1 |-> s[i + 1]]
Width        == 2^KeyBits
sentinel     == Width - 1
NoIndex      == [n |-> 0, first_key |-> 0, levels |-> <<>>]

-----------------------------------------------------------------------------
(* Segment::operator(): slope * (k - key), cut, plus the intercept.  A      *)
(* slope that is no binary fraction is rounded, and where the exact product *)
(* is an integer the rounded one may fall short of it.                     *)
Rounded(slope) == \A b \in 0 .. KeyBits : (slope.dy * 2^b) % slope.dx # 0
Cut(slope, distance, falls) ==
  (slope.dy * distance) \div slope.dx
  - (IF falls /\ distance > 0 /\ (slope.dy * distance) % slope.dx = 0 /\ Rounded(slope) THEN 1 ELSE 0)
Position(segment, k, falls) ==
  Cut(segment.slope, (k - segment.key) % Width, falls) + segment.intercept

(* build_level: the segments, one that maps what is greater than the last   *)
(* key to last_n if the last segment does not, and the sentinel's.         *)
Flat(key, y) == [key |-> key, slope |-> [dx |-> 1, dy |-> 0], intercept |-> y]
Ended(segments, last_key, last_n, falls) ==
  IF Last(segments).key = sentinel THEN segments
  ELSE segments
       \o (IF Position(Last(segments), sentinel - 1, falls) < last_n
           THEN <<Flat(last_key + 1, last_n)>> ELSE <<>>)
       \o <<Flat(sentinel, last_n)>>
NSegments(segments) ==
  IF Last(segments).key = sentinel THEN Len(segments) - 1 ELSE Len(segments)

(* The upper levels index the first keys of the segments below, until there *)
(* is one segment; acc is the levels so far and the keys the next is for.  *)
Below(acc, segments, last_key, falls) ==
  [levels |-> Append(acc.levels, Vector(Ended(segments, last_key, Size(acc.keys), falls))),
   keys   |-> [i \in 0 .. NSegments(segments) - 1 |-> segments[i + 1].key]]
NextLevel(acc, epsilon, last_key, falls) ==
  Below(acc, make_segmentation_par(acc.keys, Size(acc.keys), epsilon), last_key, falls)

(* while (epsilon_recursive && last_n > 1); a level has fewer segments than *)
(* the one below has.                                                      *)
UpperLevels(acc, last_key, falls) ==
  FoldLeft(LAMBDA a, l : IF EpsilonRecursive = 0 \/ Size(a.keys) <= 1 THEN a
                         ELSE NextLevel(a, EpsilonRecursive, last_key, falls),
           acc, [l \in 1 .. KeyBits |-> l])

build(keys, falls) ==
  IF keys = <<>> THEN NoIndex
  ELSE [n |-> Size(keys), first_key |-> keys[0],
        levels |-> UpperLevels(NextLevel([levels |-> <<>>, keys |-> keys], Epsilon,
                                         keys[Size(keys) - 1], falls),
                               keys[Size(keys) - 1], falls).levels]

-----------------------------------------------------------------------------
(* segment_for_key: level by level, from the predicted segment less the     *)
(* error on to the one after which the key is passed.                      *)
Clamped(level, i, k, falls) == Min({Position(level[i], k, falls), level[i + 1].intercept})
Onwards(level, lo, key) == CHOOSE i \in lo .. Size(level) - 2 :
                             /\ level[i + 1].key > key
                             /\ \A j \in lo .. i - 1 : level[j + 1].key <= key
segment_for_key(index, key, falls) ==
  LET height == Len(index.levels)
      At[l \in 1 .. height] ==
        IF l = height THEN 0
        ELSE Onwards(index.levels[l],
                     Max({0, Clamped(index.levels[l + 1], At[l + 1], key, falls)
                               - (EpsilonRecursive + 1)}), key)
  IN  IF EpsilonRecursive = 0 THEN Onwards(index.levels[1], 0, key) ELSE At[1]

(* search: the window around the position predicted for the key. *)
WindowAround(pos, n) == [pos |-> pos, begin |-> Max({0, pos - Epsilon}),
                         end |-> Min({n, pos + Epsilon + 2})]
SearchFrom(index, k, falls) ==
  WindowAround(Clamped(index.levels[1], segment_for_key(index, k, falls), k, falls), index.n)
search(index, key, falls) == SearchFrom(index, Max({index.first_key, key}), falls)

-----------------------------------------------------------------------------
(* What GroupPrefetch and AMAC do instead of search: the last segment of    *)
(* the bottom level, the sentinel's included, that does not begin after the *)
(* key, or the first; no clamp.  In front of the first key the distance     *)
(* wraps, and what the product, too great for size_t, is cast to is not     *)
(* defined: cast stands for it.                                            *)
BottomSegment(level, key) == level[Max({0} \cup {i \in DOMAIN level : level[i].key <= key})]
BottomPosition(segment, k, falls, cast) ==
  IF Cut(segment.slope, (k - segment.key) % Width, falls) >= Width
  THEN (cast + segment.intercept) % Width
  ELSE Position(segment, k, falls) % Width
BottomAround(pos, data_size) ==
  [lo |-> IF pos < Epsilon THEN 0 ELSE pos - Epsilon,
   hi |-> Min({(pos + Epsilon + 2) % Width, data_size})]
BottomWindow(index, key, falls, cast) ==
  BottomAround(BottomPosition(BottomSegment(index.levels[1], key), key, falls, cast), index.n)

-----------------------------------------------------------------------------
(* PGMWrapper::bulk_load appends to the vectors, then builds the index anew.*)
Appended(v, s) == [i \in 0 .. Size(v) + Len(s) - 1 |-> IF i < Size(v) THEN v[i] ELSE s[i - Size(v) + 1]]

Init == pgm = [keys |-> <<>>, values |-> <<>>, index |-> NoIndex]

(* The sentinel among the keys and keys out of order throw: the vectors     *)
(* have grown, the index is the old one.                                   *)
Rejected(keys) == keys # <<>> /\ (keys[Size(keys) - 1] = sentinel \/ Throws(keys, Size(keys)))
Loaded(keys, values, falls) ==
  pgm' = [keys |-> keys, values |-> values,
          index |-> IF Rejected(keys) THEN pgm.index ELSE build(keys, falls)]

bulk_load(input, falls) ==
  /\ Size(pgm.keys) + Len(input[1]) <= MaxKeys
  /\ Loaded(Appended(pgm.keys, input[1]), Appended(pgm.values, input[2]), falls)

Next == \E input \in Inputs, falls \in BOOLEAN : bulk_load(input, falls)

Spec == Init /\ [][Next]_vars

-----------------------------------------------------------------------------
Indexed   == 0 .. pgm.index.n - 1
Rank(key) == Cardinality({i \in Indexed : pgm.keys[i] < key})
Holds(key) == \E i \in Indexed : pgm.keys[i] = key

(* A window is inside the keys, short enough for the steps of a search, and *)
(* holds the first occurrence of a key that is there.                      *)
WindowRight(window, key) ==
  /\ 0 <= window.begin /\ window.begin <= window.end /\ window.end <= pgm.index.n
  /\ window.end - window.begin <= 2 * Epsilon + 2
  /\ Holds(key) => window.begin <= Rank(key) /\ Rank(key) < window.end

(* A search in the window for a key that is absent ends at the first greater *)
(* one, if any.                                                            *)
RankRight(window, key) ==
  Rank(key) < pgm.index.n => window.begin <= Rank(key) /\ Rank(key) <= window.end

(* What was built last predicts the windows of its keys, whether or not a   *)
(* later load was rejected (pgm_index.hpp 37-48).                          *)
PGMWindows ==
  pgm.index.n > 0 => \A key \in Key, falls \in BOOLEAN :
    WindowRight(search(pgm.index, key, falls), key)

(* It also leads absent keys to the next greater one, after runs of equal   *)
(* keys too (pgm_index.hpp 47-48).                                         *)
AbsentKeysRanked ==
  pgm.index.n > 0 => \A key \in Key, falls \in BOOLEAN :
    RankRight(search(pgm.index, key, falls), key)
=============================================================================
