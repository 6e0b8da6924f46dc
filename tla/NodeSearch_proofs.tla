-------------------------- MODULE NodeSearch_proofs --------------------------
(***************************************************************************)
(* Theorems about the searches of one node, for every set of sorted nodes, *)
(* every key range, every width of a vector register and every number of   *)
(* fixed halvings: they read slots in use only, and return the lower       *)
(* bound.                                                                  *)
(***************************************************************************)
EXTENDS NodeSearch, WellFoundedInduction, TLAPS

-----------------------------------------------------------------------------
(* The lower bound and the halvings.  BTreeLookup_proofs has the same facts *)
(* among those of a lookup, whose arguments and output vectors are no part  *)
(* of the search of one node.                                               *)

(* Every non-empty set of naturals has a least element. *)
LEMMA LeastNatural ==
  ASSUME NEW T, T \subseteq Nat, T # {}
  PROVE  \E m \in T : \A j \in T : m <= j
<1>1. IsWellFoundedOn(OpToRel(<, Nat), Nat)
  BY NatLessThanWellFounded
<1>2. PICK m \in T : \A j \in T : ~(<<j, m>> \in OpToRel(<, Nat))
  BY <1>1, WFMin, Zenon
<1>3. \A j \in T : m <= j
  <2> SUFFICES ASSUME NEW j \in T, ~(m <= j)
               PROVE  FALSE
    OBVIOUS
  <2>1. m \in Nat /\ j \in Nat /\ j < m
    OBVIOUS
  <2>2. <<j, m>> \in OpToRel(<, Nat)
    BY <2>1 DEF OpToRel
  <2> QED  BY <1>2, <2>2
<1> QED  BY <1>3

(* find_lower always returns a lower bound: there is one, whatever the keys *)
(* of the node are and in whatever order (NoPrefetch_Linear.hpp 16-21).     *)
LEMMA FindLowerIsLowerBound ==
  ASSUME NEW x, NEW k \in Key,
         x.slotuse \in Nat, x.slotkey \in [Slots(x) -> Key]
  PROVE  /\ IsLowerBound(x, k, find_lower(x, k))
         /\ find_lower(x, k) \in 0 .. x.slotuse
<1> USE KeyAssumption
<1> DEFINE T == {s \in 0 .. x.slotuse : s = x.slotuse \/ k <= x.slotkey[s]}
<1>1. T \subseteq Nat /\ x.slotuse \in T
  OBVIOUS
<1>2. PICK m \in T : \A j \in T : m <= j
  BY <1>1, LeastNatural, Zenon
<1>3. IsLowerBound(x, k, m)
  <2>1. m \in 0 .. x.slotuse
    OBVIOUS
  <2>2. ASSUME NEW s \in 0 .. m - 1 PROVE x.slotkey[s] < k
    <3>1. s \in 0 .. x.slotuse /\ s < m /\ s \in Slots(x)
      BY <2>1, <2>2 DEF Slots
    <3>2. s \notin T
      BY <3>1, <1>2, <2>1
    <3>3. ~(k <= x.slotkey[s])
      BY <3>1, <3>2
    <3>4. x.slotkey[s] \in Int /\ k \in Int
      BY <3>1
    <3> QED  BY <3>3, <3>4
  <2>3. m < x.slotuse => k <= x.slotkey[m]
    OBVIOUS
  <2> QED  BY <2>1, <2>2, <2>3 DEF IsLowerBound
<1>4. m \in 0 .. x.slotuse
  OBVIOUS
<1> QED  BY <1>3, <1>4, Zenon DEF find_lower

(* There is one lower bound only, so what find_lower returns is it. *)
LEMMA OneLowerBound ==
  ASSUME NEW x, NEW k \in Key,
         x.slotuse \in Nat, x.slotkey \in [Slots(x) -> Key],
         NEW p, IsLowerBound(x, k, p)
  PROVE  p = find_lower(x, k)
<1>1. PICK b : b = find_lower(x, k)
  OBVIOUS
<1>2. IsLowerBound(x, k, b) /\ b \in 0 .. x.slotuse
  BY <1>1, FindLowerIsLowerBound
<1>3. p \in 0 .. x.slotuse /\ p \in Int /\ b \in Int /\ k \in Int
  BY <1>2, KeyAssumption DEF IsLowerBound
<1>4. \A s \in Slots(x) : x.slotkey[s] \in Int
  BY KeyAssumption
<1>5. ~(p < b)
  <2> SUFFICES ASSUME p < b PROVE FALSE
    OBVIOUS
  <2>1. p \in Slots(x) /\ p < x.slotuse /\ p \in 0 .. b - 1
    BY <1>2, <1>3 DEF Slots
  <2>2. x.slotkey[p] < k /\ k <= x.slotkey[p]
    BY <1>2, <2>1 DEF IsLowerBound
  <2> QED  BY <1>3, <1>4, <2>1, <2>2
<1>6. ~(b < p)
  <2> SUFFICES ASSUME b < p PROVE FALSE
    OBVIOUS
  <2>1. b \in Slots(x) /\ b < x.slotuse /\ b \in 0 .. p - 1
    BY <1>2, <1>3 DEF Slots
  <2>2. x.slotkey[b] < k /\ k <= x.slotkey[b]
    BY <1>2, <2>1 DEF IsLowerBound
  <2> QED  BY <1>3, <1>4, <2>1, <2>2
<1> QED  BY <1>1, <1>3, <1>5, <1>6

(* The invariant of the binary searches: the keys below the range are       *)
(* smaller than the one sought, the key at its upper end is not.            *)
Searching(x, k, r) ==
  /\ r \in [lo : Nat, hi : Nat]
  /\ r.lo <= r.hi
  /\ r.hi <= x.slotuse
  /\ \A s \in 0 .. r.lo - 1 : x.slotkey[s] < k
  /\ r.hi < x.slotuse => k <= x.slotkey[r.hi]

LEMMA WholeRangeSearching ==
  ASSUME NEW x, NEW k, x.slotuse \in Nat
  PROVE  Searching(x, k, WholeRange(x))
BY DEF Searching, WholeRange

(* A halving keeps the invariant and leaves less than half of the range. *)
LEMMA HalveSearching ==
  ASSUME NEW x, NEW k \in Key, NEW r, NEW w \in Nat,
         x.slotuse \in Nat, x.slotkey \in [Slots(x) -> Key], Sorted(x),
         Searching(x, k, r), r.hi - r.lo < 2 * w
  PROVE  /\ Searching(x, k, Halve(x, k, r))
         /\ Halve(x, k, r).hi - Halve(x, k, r).lo < w
<1>1. PICK l, h : l = r.lo /\ h = r.hi
  OBVIOUS
<1>2. /\ l \in Nat /\ h \in Nat /\ l <= h /\ h <= x.slotuse /\ h - l < 2 * w
      /\ \A s \in 0 .. l - 1 : x.slotkey[s] < k
      /\ h < x.slotuse => k <= x.slotkey[h]
  BY <1>1 DEF Searching
<1>a. k \in Int /\ \A s \in Slots(x) : x.slotkey[s] \in Int
  BY KeyAssumption
<1>3. CASE ~(l < h)
  <2>1. Halve(x, k, r) = r
    BY <1>1, <1>3 DEF Halve
  <2> QED  BY <1>1, <1>2, <1>3, <2>1
<1>4. CASE l < h
  <2>1. PICK mid : mid = (l + h) \div 2
    OBVIOUS
  <2>2. mid \in Nat /\ l <= mid /\ mid < h /\ mid - l < w /\ h - (mid + 1) < w
    BY <1>2, <1>4, <2>1
  <2>3. mid \in Slots(x) /\ x.slotkey[mid] \in Int /\ k \in Int
    <3>1. mid \in Slots(x)
      BY <1>2, <2>2 DEF Slots
    <3> QED  BY <3>1, <1>a
  <2>4. CASE k <= x.slotkey[mid]
    <3>1. Halve(x, k, r) = [lo |-> l, hi |-> mid]
      BY <1>1, <1>4, <2>1, <2>4 DEF Halve
    <3> QED  BY <1>2, <2>2, <2>4, <3>1 DEF Searching
  <2>5. CASE ~(k <= x.slotkey[mid])
    <3>1. Halve(x, k, r) = [lo |-> mid + 1, hi |-> h]
      BY <1>1, <1>4, <2>1, <2>5 DEF Halve
    <3>2. ASSUME NEW s \in 0 .. (mid + 1) - 1 PROVE x.slotkey[s] < k
      <4>1. s \in Slots(x) /\ s <= mid
        BY <1>2, <2>2 DEF Slots
      <4>a. x.slotkey[s] \in Int
        BY <4>1, <1>a
      <4>2. x.slotkey[s] <= x.slotkey[mid]
        <5>1. CASE s = mid
          BY <2>3, <5>1
        <5>2. CASE s < mid
          BY <2>3, <4>1, <5>2 DEF Sorted
        <5> QED  BY <2>2, <4>1, <5>1, <5>2
      <4> QED  BY <2>3, <2>5, <4>a, <4>2
    <3>3. [lo |-> mid + 1, hi |-> h] \in [lo : Nat, hi : Nat]
      BY <1>2, <2>2
    <3>4. Searching(x, k, [lo |-> mid + 1, hi |-> h])
      BY <1>2, <2>2, <3>2, <3>3 DEF Searching
    <3> QED  BY <2>2, <3>1, <3>4
  <2> QED  BY <2>4, <2>5
<1> QED  BY <1>3, <1>4

-----------------------------------------------------------------------------
(* The inductive invariant.                                                *)

(* The halving searches keep the bound in their range; the fixed one has    *)
(* a range narrow enough for the halvings left.                             *)
RangeInv ==
  method \in {"binary", "fixed"} =>
    /\ Searching(nd, key, range)
    /\ method = "fixed" /\ nd.slotuse < pow2[FIXED_STEPS]
         => range.hi - range.lo < pow2[FIXED_STEPS - step]

(* The scanning searches have only passed slots with smaller keys. *)
ScanInv ==
  method \in {"linear", "simd"} => \A s \in 0 .. pos - 1 : nd.slotkey[s] < key

Settles == method = "fixed" => nd.slotuse < pow2[FIXED_STEPS]

ReturnInv == ret # NoResult /\ Settles => IsLowerBound(nd, key, ret)

IInv == TypeOK /\ RangeInv /\ ScanInv /\ ReturnInv

-----------------------------------------------------------------------------
(* Facts of a single state.                                                *)

(* The node searched is sorted and its keys and the one sought are words. *)
LEMMA NodeFacts ==
  ASSUME TypeOK
  PROVE  /\ nd.slotuse \in Nat
         /\ nd.slotkey \in [Slots(nd) -> Key]
         /\ Sorted(nd)
         /\ key \in Key /\ key \in Int
         /\ \A s \in Slots(nd) : nd.slotkey[s] \in Key /\ nd.slotkey[s] \in Int
<1>1. nd \in Nodes /\ key \in Key
  BY DEF TypeOK
<1>2. nd.slotuse \in Nat /\ nd.slotkey \in [Slots(nd) -> Key] /\ Sorted(nd)
  BY <1>1, NodesAssumption
<1>3. \A s \in Slots(nd) : nd.slotkey[s] \in Key
  BY <1>2
<1> QED  BY <1>1, <1>2, <1>3, KeyAssumption

(* There is one lower bound only, so what find_lower returns is it. *)
LEMMA LowerBoundUnique ==
  ASSUME TypeOK, NEW p, IsLowerBound(nd, key, p)
  PROVE  p = find_lower(nd, key)
BY NodeFacts, OneLowerBound

(* Flipping the sign bit turns the order of unsigned words into that of     *)
(* signed ones (Vectorized.hpp 63-74).                                      *)
LEMMA FlipKeepsOrder ==
  ASSUME NEW x \in Key, NEW y \in Key
  PROVE  (AsSigned(FlipSign(x)) > AsSigned(FlipSign(y))) <=> x > y
<1>1. /\ HALF \in Nat /\ x \in Int /\ y \in Int
      /\ 0 <= x /\ x < 2 * HALF /\ 0 <= y /\ y < 2 * HALF
  BY WordAssumption
<1>2. AsSigned(FlipSign(x)) = x - HALF
  BY <1>1 DEF AsSigned, FlipSign
<1>3. AsSigned(FlipSign(y)) = y - HALF
  BY <1>1 DEF AsSigned, FlipSign
<1> QED  BY <1>1, <1>2, <1>3

(* A chunk is within the slots in use, and its mask tells which keys are less. *)
LEMMA ChunkFacts ==
  ASSUME TypeOK, ChunkFits
  PROVE  /\ pos \in Nat /\ CHUNK \in Nat \ {0}
         /\ pos + CHUNK <= nd.slotuse
         /\ \A lane \in Lanes : lane \in Nat /\ pos + lane \in Slots(nd)
         /\ \A lane \in Lanes : lane \in Greater <=> nd.slotkey[pos + lane] < key
<1>1. nd.slotuse \in Nat /\ pos \in 0 .. nd.slotuse
  BY NodeFacts DEF TypeOK
<1>2. pos \in Nat /\ CHUNK \in Nat \ {0} /\ pos + CHUNK <= nd.slotuse
  BY <1>1, ChunkAssumption DEF ChunkFits
<1>3. ASSUME NEW lane \in Lanes
      PROVE  lane \in Nat /\ pos + lane \in Slots(nd)
  BY <1>1, <1>2 DEF Lanes, Slots
<1>4. ASSUME NEW lane \in Lanes
      PROVE  lane \in Greater <=> nd.slotkey[pos + lane] < key
  <2>1. PICK x : x = nd.slotkey[pos + lane]
    OBVIOUS
  <2>2. x \in Key /\ key \in Key /\ x \in Int /\ key \in Int
    BY <1>3, <2>1, NodeFacts
  <2>3. lane \in Greater <=> AsSigned(FlipSign(key)) > AsSigned(FlipSign(x))
    BY <2>1 DEF Greater
  <2>4. lane \in Greater <=> key > x
    BY <2>2, <2>3, FlipKeepsOrder
  <2> QED  BY <2>1, <2>2, <2>4
<1> QED  BY <1>2, <1>3, <1>4

-----------------------------------------------------------------------------
(* The invariant is inductive.                                             *)

LEMMA InitIInv == Init => IInv
<1> SUFFICES ASSUME Init PROVE IInv
  OBVIOUS
<1>1. /\ method \in Methods /\ nd \in Nodes /\ key \in Key
      /\ range = WholeRange(nd) /\ step = 0 /\ pos = 0 /\ ret = NoResult
  BY DEF Init
<1>2. nd.slotuse \in Nat
  BY <1>1, NodesAssumption
<1>3. TypeOK
  BY <1>1, <1>2, StepsAssumption DEF TypeOK, WholeRange
<1>4. RangeInv
  <2>1. Searching(nd, key, range)
    BY <1>1, <1>2, WholeRangeSearching
  <2>2. range.hi - range.lo = nd.slotuse /\ FIXED_STEPS - step = FIXED_STEPS
    BY <1>1, <1>2, StepsAssumption DEF WholeRange
  <2> QED  BY <2>1, <2>2 DEF RangeInv
<1>5. ScanInv
  BY <1>1 DEF ScanInv
<1>6. ReturnInv
  BY <1>1 DEF ReturnInv
<1> QED  BY <1>3, <1>4, <1>5, <1>6 DEF IInv

(* A step that returns a slot within the node, the lower bound if it must be. *)
LEMMA ReturnStep ==
  ASSUME IInv, NEW slot, Return(slot), slot \in 0 .. nd.slotuse,
         Settles => IsLowerBound(nd, key, slot)
  PROVE  IInv'
<1>1. /\ method' = method /\ nd' = nd /\ key' = key /\ range' = range
      /\ step' = step /\ pos' = pos /\ ret' = slot
  BY DEF Return, call
<1>2. TypeOK'
  BY <1>1 DEF IInv, TypeOK
<1>3. RangeInv' /\ ScanInv'
  BY <1>1 DEF IInv, RangeInv, ScanInv
<1>4. ReturnInv'
  BY <1>1 DEF ReturnInv, Settles
<1> QED  BY <1>2, <1>3, <1>4 DEF IInv

(* A step that only advances the scan keeps the invariant. *)
LEMMA AdvanceStep ==
  ASSUME IInv, method \in {"linear", "simd"}, ret = NoResult,
         NEW far \in 0 .. nd.slotuse,
         \A s \in 0 .. far - 1 : nd.slotkey[s] < key,
         pos' = far, UNCHANGED <<call, range, step, ret>>
  PROVE  IInv'
<1>1. /\ method' = method /\ nd' = nd /\ key' = key /\ range' = range
      /\ step' = step /\ ret' = NoResult
  BY DEF call
<1>2. TypeOK'
  BY <1>1 DEF IInv, TypeOK
<1>3. RangeInv'
  BY <1>1 DEF RangeInv
<1>4. ScanInv'
  BY <1>1 DEF ScanInv
<1>5. ReturnInv'
  BY <1>1 DEF ReturnInv
<1> QED  BY <1>2, <1>3, <1>4, <1>5 DEF IInv

LEMMA EmptyNodeStep == ASSUME IInv, EmptyNode PROVE IInv'
<1>1. nd.slotuse = 0 /\ Return(0)
  BY DEF EmptyNode
<1>2. IsLowerBound(nd, key, 0)
  BY <1>1 DEF IsLowerBound
<1> QED  BY <1>1, <1>2, ReturnStep

LEMMA HalveOnceStep == ASSUME IInv, HalveOnce PROVE IInv'
<1>1. /\ method = "binary" /\ ret = NoResult
      /\ range' = Halve(nd, key, range)
      /\ method' = method /\ nd' = nd /\ key' = key /\ step' = step /\ pos' = pos /\ ret' = ret
  BY DEF HalveOnce, Under, call
<1>2. TypeOK /\ Searching(nd, key, range)
  BY <1>1 DEF IInv, RangeInv
<1>3. nd.slotuse \in Nat
  BY <1>2, NodeFacts
<1>4. nd.slotuse + 1 \in Nat /\ range.hi - range.lo < 2 * (nd.slotuse + 1)
  BY <1>2, <1>3 DEF Searching
<1>5. Searching(nd, key, range')
  BY <1>1, <1>2, <1>4, NodeFacts, HalveSearching
<1>6. range' \in [lo : 0 .. nd.slotuse, hi : 0 .. nd.slotuse]
  BY <1>3, <1>5 DEF Searching
<1>7. TypeOK'
  BY <1>1, <1>2, <1>6 DEF TypeOK
<1>8. RangeInv'
  BY <1>1, <1>5 DEF RangeInv
<1>9. ScanInv' /\ ReturnInv'
  BY <1>1 DEF ScanInv, ReturnInv
<1> QED  BY <1>7, <1>8, <1>9 DEF IInv

(* A range that is one point is the lower bound. *)
LEMMA PointIsBound ==
  ASSUME TypeOK, Searching(nd, key, range), ~(range.lo < range.hi)
  PROVE  range.lo \in 0 .. nd.slotuse /\ IsLowerBound(nd, key, range.lo)
<1>1. PICK l, h : l = range.lo /\ h = range.hi
  OBVIOUS
<1>2. /\ l \in Nat /\ h \in Nat /\ l <= h /\ h <= nd.slotuse /\ ~(l < h)
      /\ \A s \in 0 .. l - 1 : nd.slotkey[s] < key
      /\ h < nd.slotuse => key <= nd.slotkey[h]
  BY <1>1 DEF Searching
<1>3. l = h /\ l \in 0 .. nd.slotuse
  BY <1>2, NodeFacts
<1>4. IsLowerBound(nd, key, l)
  BY <1>2, <1>3 DEF IsLowerBound
<1> QED  BY <1>1, <1>3, <1>4

LEMMA HalveEndStep == ASSUME IInv, HalveEnd PROVE IInv'
<1>1. method = "binary" /\ ~(range.lo < range.hi) /\ Return(range.lo)
  BY DEF HalveEnd, Under
<1>2. TypeOK /\ Searching(nd, key, range)
  BY <1>1 DEF IInv, RangeInv
<1> QED  BY <1>1, <1>2, PointIsBound, ReturnStep

LEMMA FixedStepStep == ASSUME IInv, FixedStep PROVE IInv'
<1>1. /\ method = "fixed" /\ ret = NoResult /\ step < FIXED_STEPS
      /\ range' = Halve(nd, key, range) /\ step' = step + 1
      /\ method' = method /\ nd' = nd /\ key' = key /\ pos' = pos /\ ret' = ret
  BY DEF FixedStep, Under, call
<1>2. TypeOK /\ Searching(nd, key, range)
  BY <1>1 DEF IInv, RangeInv
<1>3. nd.slotuse \in Nat /\ step \in Nat /\ FIXED_STEPS \in Nat
  BY <1>2, NodeFacts, StepsAssumption DEF TypeOK
<1>4. nd.slotuse + 1 \in Nat /\ range.hi - range.lo < 2 * (nd.slotuse + 1)
  BY <1>2, <1>3 DEF Searching
<1>5. Searching(nd, key, range')
  BY <1>1, <1>2, <1>4, NodeFacts, HalveSearching
<1>6. range' \in [lo : 0 .. nd.slotuse, hi : 0 .. nd.slotuse]
  BY <1>3, <1>5 DEF Searching
<1>7. ASSUME nd.slotuse < pow2[FIXED_STEPS]
      PROVE  range'.hi - range'.lo < pow2[FIXED_STEPS - step']
  <2>1. PICK e : e = FIXED_STEPS - step
    OBVIOUS
  <2>2. e \in 1 .. FIXED_STEPS /\ e - 1 \in 0 .. FIXED_STEPS /\ FIXED_STEPS - step' = e - 1
    BY <1>1, <1>3, <2>1
  <2>3. range.hi - range.lo < pow2[e]
    BY <1>1, <1>7, <2>1 DEF IInv, RangeInv
  <2>4. pow2[e] = 2 * pow2[e - 1] /\ pow2[e - 1] \in Nat
    BY <2>2, StepsAssumption
  <2>5. range.hi - range.lo < 2 * pow2[e - 1]
    BY <2>3, <2>4
  <2>6. range'.hi - range'.lo < pow2[e - 1]
    BY <1>1, <1>2, <2>4, <2>5, NodeFacts, HalveSearching
  <2> QED  BY <2>2, <2>6
<1>8. TypeOK'
  <2>1. step' \in 0 .. FIXED_STEPS
    BY <1>1, <1>3
  <2> QED  BY <1>1, <1>2, <1>6, <2>1 DEF TypeOK
<1>9. RangeInv'
  BY <1>1, <1>5, <1>7 DEF RangeInv
<1>10. ScanInv' /\ ReturnInv'
  BY <1>1 DEF ScanInv, ReturnInv
<1> QED  BY <1>8, <1>9, <1>10 DEF IInv

LEMMA FixedEndStep == ASSUME IInv, FixedEnd PROVE IInv'
<1>1. method = "fixed" /\ ~(step < FIXED_STEPS) /\ Return(range.lo)
  BY DEF FixedEnd, Under
<1>2. TypeOK /\ Searching(nd, key, range)
  BY <1>1 DEF IInv, RangeInv
<1>3. step = FIXED_STEPS
  BY <1>1, <1>2, StepsAssumption DEF TypeOK
<1>4. range.lo \in 0 .. nd.slotuse
  BY <1>2 DEF TypeOK
<1>5. ASSUME Settles PROVE IsLowerBound(nd, key, range.lo)
  <2>1. FIXED_STEPS - step = 0 /\ pow2[0] = 1
    BY <1>3, StepsAssumption
  <2>2. range.hi - range.lo < pow2[FIXED_STEPS - step]
    BY <1>1, <1>5 DEF IInv, RangeInv, Settles
  <2>3. ~(range.lo < range.hi)
    BY <1>2, <2>1, <2>2 DEF Searching
  <2> QED  BY <1>2, <2>3, PointIsBound
<1> QED  BY <1>1, <1>4, <1>5, ReturnStep

LEMMA ChunkStepStep == ASSUME IInv, ChunkStep PROVE IInv'
<1>1. /\ method = "simd" /\ ret = NoResult /\ ChunkFits
      /\ IF Lanes \ Greater # {} THEN Return(pos + FirstCandidate)
         ELSE pos' = pos + CHUNK /\ UNCHANGED <<call, range, step, ret>>
  BY DEF ChunkStep, Under
<1>2. TypeOK /\ \A s \in 0 .. pos - 1 : nd.slotkey[s] < key
  BY <1>1 DEF IInv, ScanInv
<1>3. /\ pos \in Nat /\ CHUNK \in Nat \ {0} /\ pos + CHUNK <= nd.slotuse /\ nd.slotuse \in Nat
      /\ \A lane \in Lanes : lane \in Nat /\ pos + lane \in Slots(nd)
      /\ \A lane \in Lanes : lane \in Greater <=> nd.slotkey[pos + lane] < key
  BY <1>1, <1>2, ChunkFacts, NodeFacts
<1>4. CASE Lanes \ Greater # {}
  <2>1. Lanes \ Greater \subseteq Nat
    BY <1>3
  <2>2. \E m \in Lanes \ Greater : \A j \in Lanes \ Greater : m <= j
    BY <1>4, <2>1, LeastNatural
  <2>3. PICK c : c = FirstCandidate
    OBVIOUS
  <2>4. c \in Lanes \ Greater /\ \A j \in Lanes \ Greater : c <= j
    BY <2>2, <2>3 DEF FirstCandidate
  <2>5. PICK b : b = pos + c
    OBVIOUS
  <2>6. c \in Nat /\ b \in Slots(nd) /\ b \in Nat /\ ~(nd.slotkey[b] < key)
    BY <1>3, <2>4, <2>5
  <2>7. key <= nd.slotkey[b]
    BY <1>2, <2>6, NodeFacts
  <2>8. ASSUME NEW s \in 0 .. b - 1 PROVE nd.slotkey[s] < key
    <3>1. CASE s < pos
      BY <1>2, <1>3, <2>6, <3>1
    <3>2. CASE ~(s < pos)
      <4>1. PICK j : j = s - pos
        OBVIOUS
      <4>2. j \in Nat /\ j < c /\ j \in Lanes /\ pos + j = s
        BY <1>3, <2>4, <2>5, <2>6, <3>2, <4>1 DEF Lanes
      <4>3. j \in Greater
        BY <2>4, <2>6, <4>2
      <4> QED  BY <1>3, <4>2, <4>3
    <3> QED  BY <3>1, <3>2
  <2>9. b \in 0 .. nd.slotuse
    BY <1>3, <2>6 DEF Slots
  <2>10. IsLowerBound(nd, key, b)
    BY <2>7, <2>8, <2>9 DEF IsLowerBound
  <2> QED  BY <1>1, <1>4, <2>3, <2>5, <2>9, <2>10, ReturnStep
<1>5. CASE Lanes \ Greater = {}
  <2>1. PICK far : far = pos + CHUNK
    OBVIOUS
  <2>2. far \in 0 .. nd.slotuse
    BY <1>3, <2>1
  <2>3. ASSUME NEW s \in 0 .. far - 1 PROVE nd.slotkey[s] < key
    <3>1. CASE s < pos
      BY <1>2, <1>3, <2>2, <3>1
    <3>2. CASE ~(s < pos)
      <4>1. PICK j : j = s - pos
        OBVIOUS
      <4>2. j \in Lanes /\ pos + j = s
        BY <1>3, <2>1, <3>2, <4>1 DEF Lanes
      <4> QED  BY <1>3, <1>5, <4>2
    <3> QED  BY <3>1, <3>2
  <2> QED  BY <1>1, <1>5, <2>1, <2>2, <2>3, AdvanceStep
<1> QED  BY <1>4, <1>5

LEMMA ScanStepStep == ASSUME IInv, ScanStep PROVE IInv'
<1>1. /\ method \in {"linear", "simd"} /\ ret = NoResult /\ pos < nd.slotuse
      /\ IF key <= nd.slotkey[pos] THEN Return(pos)
         ELSE pos' = pos + 1 /\ UNCHANGED <<call, range, step, ret>>
  BY DEF ScanStep, Scanning, Under
<1>2. TypeOK /\ \A s \in 0 .. pos - 1 : nd.slotkey[s] < key
  BY <1>1 DEF IInv, ScanInv
<1>3. nd.slotuse \in Nat /\ pos \in 0 .. nd.slotuse /\ pos \in Nat
  BY <1>2, NodeFacts DEF TypeOK
<1>4. CASE key <= nd.slotkey[pos]
  <2>1. IsLowerBound(nd, key, pos)
    BY <1>2, <1>3, <1>4 DEF IsLowerBound
  <2> QED  BY <1>1, <1>3, <1>4, <2>1, ReturnStep
<1>5. CASE ~(key <= nd.slotkey[pos])
  <2>1. pos \in Slots(nd)
    BY <1>1, <1>3 DEF Slots
  <2>2. nd.slotkey[pos] < key
    BY <1>2, <1>5, <2>1, NodeFacts
  <2>3. pos + 1 \in 0 .. nd.slotuse
    BY <1>1, <1>3
  <2>4. ASSUME NEW s \in 0 .. (pos + 1) - 1 PROVE nd.slotkey[s] < key
    <3>1. s \in 0 .. pos - 1 \/ s = pos
      BY <1>3
    <3> QED  BY <1>2, <2>2, <3>1
  <2> QED  BY <1>1, <1>5, <2>3, <2>4, AdvanceStep
<1> QED  BY <1>4, <1>5

LEMMA ScanEndStep == ASSUME IInv, ScanEnd PROVE IInv'
<1>1. method \in {"linear", "simd"} /\ ~(pos < nd.slotuse) /\ Return(nd.slotuse)
  BY DEF ScanEnd, Scanning, Under
<1>2. TypeOK /\ \A s \in 0 .. pos - 1 : nd.slotkey[s] < key
  BY <1>1 DEF IInv, ScanInv
<1>3. nd.slotuse \in Nat /\ pos = nd.slotuse
  BY <1>1, <1>2, NodeFacts DEF TypeOK
<1>4. IsLowerBound(nd, key, nd.slotuse)
  BY <1>2, <1>3 DEF IsLowerBound
<1> QED  BY <1>1, <1>3, <1>4, ReturnStep

LEMMA StepIInv == IInv /\ [Next]_vars => IInv'
<1> SUFFICES ASSUME IInv, [Next]_vars PROVE IInv'
  OBVIOUS
<1>1. CASE EmptyNode
  BY <1>1, EmptyNodeStep
<1>2. CASE HalveOnce
  BY <1>2, HalveOnceStep
<1>3. CASE HalveEnd
  BY <1>3, HalveEndStep
<1>4. CASE FixedStep
  BY <1>4, FixedStepStep
<1>5. CASE FixedEnd
  BY <1>5, FixedEndStep
<1>6. CASE ChunkStep
  BY <1>6, ChunkStepStep
<1>7. CASE ScanStep
  BY <1>7, ScanStepStep
<1>8. CASE ScanEnd
  BY <1>8, ScanEndStep
<1>9. CASE Returned \/ UNCHANGED vars
  BY <1>9 DEF Returned, vars, IInv, TypeOK, RangeInv, ScanInv, ReturnInv, Settles
<1> QED  BY <1>1, <1>2, <1>3, <1>4, <1>5, <1>6, <1>7, <1>8, <1>9 DEF Next

LEMMA Invariance == Spec => []IInv
BY InitIInv, StepIInv, PTL DEF Spec

-----------------------------------------------------------------------------
(* The theorems.                                                           *)

(* In a state of the invariant, the next step reads slots in use only. *)
LEMMA IInvImpliesReadsUsedSlots == IInv => ReadsUsedSlots
<1> SUFFICES ASSUME IInv, NEW s \in Reads PROVE s \in Slots(nd)
  BY DEF ReadsUsedSlots
<1>1. TypeOK /\ nd.slotuse \in Nat
  BY NodeFacts DEF IInv
<1>2. ret = NoResult
  BY DEF Reads
<1>3. CASE method \in {"binary", "fixed"}
  <2>1. Searching(nd, key, range)
    BY <1>3 DEF IInv, RangeInv
  <2>2. range.lo < range.hi /\ s = (range.lo + range.hi) \div 2
    BY <1>2, <1>3 DEF Reads
  <2> QED  BY <1>1, <2>1, <2>2 DEF Searching, Slots
<1>4. CASE method \notin {"binary", "fixed"}
  <2>1. CASE method = "simd" /\ nd.slotuse # 0 /\ ChunkFits
    <3>1. PICK lane \in Lanes : s = pos + lane
      BY <1>2, <1>4, <2>1 DEF Reads
    <3> QED  BY <1>1, <2>1, <3>1, ChunkFacts
  <2>2. CASE ~(method = "simd" /\ nd.slotuse # 0 /\ ChunkFits)
    <3>1. pos < nd.slotuse /\ s = pos
      BY <1>2, <1>4, <2>2 DEF Reads
    <3>2. pos \in 0 .. nd.slotuse
      BY <1>1 DEF TypeOK
    <3> QED  BY <1>1, <3>1, <3>2 DEF Slots
  <2> QED  BY <2>1, <2>2
<1> QED  BY <1>3, <1>4

(* All variables keep their types, and no search ever reads a slot beyond   *)
(* slotuse, whatever the node, the key and the width of a chunk.            *)
THEOREM OnlyUsedSlotsRead == Spec => []SearchSafe
<1>1. IInv => SearchSafe
  BY IInvImpliesReadsUsedSlots DEF IInv, SearchSafe
<1> QED  BY <1>1, Invariance, PTL

(* Every search returns the lower bound: binary, linear, and vector search  *)
(* for unsigned keys on both sides of the sign bit; the fixed halvings on   *)
(* nodes of fewer slots than the power of two they can settle.              *)
THEOREM LowerBoundReturned == Spec => []ReturnsLowerBound
<1>1. IInv => ReturnsLowerBound
  <2> SUFFICES ASSUME IInv, ret # NoResult, Settles PROVE ret = find_lower(nd, key)
    BY DEF ReturnsLowerBound, Settles
  <2>1. TypeOK /\ IsLowerBound(nd, key, ret)
    BY DEF IInv, ReturnInv
  <2> QED  BY <2>1, LowerBoundUnique
<1> QED  BY <1>1, Invariance, PTL
=============================================================================
