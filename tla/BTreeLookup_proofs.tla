------------------------- MODULE BTreeLookup_proofs -------------------------
(***************************************************************************)
(* What the proofs about the strategies of the B+ tree share.  First, what *)
(* a lookup may rely on when it searches a node or descends a well-formed  *)
(* tree: the search of a node returns the lower bound, a halving keeps it  *)
(* in the range, a step to the child it selects stays on the path of the   *)
(* key, and the leaf at the end of that path gives the answer of the whole *)
(* tree.  Then, facts about the arguments and the output vectors.          *)
(***************************************************************************)
EXTENDS BTreeLookup, FiniteSetTheorems, WellFoundedInduction, TLAPS

-----------------------------------------------------------------------------
(* The tree.                                                               *)

(* Every non-empty set of naturals has a least element. *)
LEMMA LeastNatural ==
  ASSUME NEW T, T \subseteq Nat, T # {}
  PROVE  \E m \in T : \A j \in T : m <= j
<1>1. IsWellFoundedOn(OpToRel(<, Nat), Nat)
  BY NatLessThanWellFounded
<1>2. PICK m \in T : \A j \in T : ~(<<j, m>> \in OpToRel(<, Nat))
  BY <1>1, WFMin, Zenon
<1>3. \A j \in T : m <= j
  <2> SUFFICES ASSUME NEW j \in T, ~(m <= j)
               PROVE  FALSE
    OBVIOUS
  <2>1. m \in Nat /\ j \in Nat /\ j < m
    OBVIOUS
  <2>2. <<j, m>> \in OpToRel(<, Nat)
    BY <2>1 DEF OpToRel
  <2> QED  BY <1>2, <2>2
<1> QED  BY <1>3

(* find_lower always returns a lower bound: there is one, whatever the keys *)
(* of the node are and in whatever order (NoPrefetch_Linear.hpp 16-21).     *)
LEMMA FindLowerIsLowerBound ==
  ASSUME NEW nd, NEW key \in Key,
         nd.slotuse \in Nat, nd.slotkey \in [Slots(nd) -> Key]
  PROVE  /\ IsLowerBound(nd, key, find_lower(nd, key))
         /\ find_lower(nd, key) \in 0 .. nd.slotuse
<1> USE KeyAssumption
<1> DEFINE T == {s \in 0 .. nd.slotuse : s = nd.slotuse \/ key <= nd.slotkey[s]}
<1>1. T \subseteq Nat /\ nd.slotuse \in T
  OBVIOUS
<1>2. PICK m \in T : \A j \in T : m <= j
  BY <1>1, LeastNatural, Zenon
<1>3. IsLowerBound(nd, key, m)
  <2>1. m \in 0 .. nd.slotuse
    OBVIOUS
  <2>2. ASSUME NEW s \in 0 .. m - 1 PROVE nd.slotkey[s] < key
    <3>1. s \in 0 .. nd.slotuse /\ s < m /\ s \in Slots(nd)
      BY <2>1, <2>2 DEF Slots
    <3>2. s \notin T
      BY <3>1, <1>2, <2>1
    <3>3. ~(key <= nd.slotkey[s])
      BY <3>1, <3>2
    <3>4. nd.slotkey[s] \in Int /\ key \in Int
      BY <3>1
    <3> QED  BY <3>3, <3>4
  <2>3. m < nd.slotuse => key <= nd.slotkey[m]
    OBVIOUS
  <2> QED  BY <2>1, <2>2, <2>3 DEF IsLowerBound
<1>4. m \in 0 .. nd.slotuse
  OBVIOUS
<1> QED  BY <1>3, <1>4, Zenon DEF find_lower

(* There is one lower bound only, so what find_lower returns is it. *)
LEMMA OneLowerBound ==
  ASSUME NEW nd, NEW key \in Key,
         nd.slotuse \in Nat, nd.slotkey \in [Slots(nd) -> Key],
         NEW p, IsLowerBound(nd, key, p)
  PROVE  p = find_lower(nd, key)
<1>1. PICK b : b = find_lower(nd, key)
  OBVIOUS
<1>2. IsLowerBound(nd, key, b) /\ b \in 0 .. nd.slotuse
  BY <1>1, FindLowerIsLowerBound
<1>3. p \in 0 .. nd.slotuse /\ p \in Int /\ b \in Int /\ key \in Int
  BY <1>2, KeyAssumption DEF IsLowerBound
<1>4. \A s \in Slots(nd) : nd.slotkey[s] \in Int
  BY KeyAssumption
<1>5. ~(p < b)
  <2> SUFFICES ASSUME p < b PROVE FALSE
    OBVIOUS
  <2>1. p \in Slots(nd) /\ p < nd.slotuse /\ p \in 0 .. b - 1
    BY <1>2, <1>3 DEF Slots
  <2>2. nd.slotkey[p] < key /\ key <= nd.slotkey[p]
    BY <1>2, <2>1 DEF IsLowerBound
  <2> QED  BY <1>3, <1>4, <2>1, <2>2
<1>6. ~(b < p)
  <2> SUFFICES ASSUME b < p PROVE FALSE
    OBVIOUS
  <2>1. b \in Slots(nd) /\ b < nd.slotuse /\ b \in 0 .. p - 1
    BY <1>2, <1>3 DEF Slots
  <2>2. nd.slotkey[b] < key /\ key <= nd.slotkey[b]
    BY <1>2, <2>1 DEF IsLowerBound
  <2> QED  BY <1>3, <1>4, <2>1, <2>2
<1> QED  BY <1>1, <1>3, <1>5, <1>6

(* In a sorted leaf the test after the search is exact. *)
LEMMA HitIffHeld ==
  ASSUME NEW nd, NEW key \in Key,
         nd.slotuse \in Nat, nd.slotkey \in [Slots(nd) -> Key], Sorted(nd)
  PROVE  Hit(nd, key) <=> \E s \in Slots(nd) : nd.slotkey[s] = key
<1> DEFINE pos == find_lower(nd, key)
<1>1. IsLowerBound(nd, key, pos)
  BY FindLowerIsLowerBound
<1> HIDE DEF pos
<1>2. pos \in Int /\ key \in Int /\ \A s \in Slots(nd) : nd.slotkey[s] \in Int
  <2>1. pos \in Int
    BY <1>1 DEF IsLowerBound
  <2>2. key \in Int
    BY KeyAssumption
  <2>3. ASSUME NEW s \in Slots(nd) PROVE nd.slotkey[s] \in Int
    BY KeyAssumption
  <2> QED  BY <2>1, <2>2, <2>3
<1>3. Hit(nd, key) <=> pos < nd.slotuse /\ key = nd.slotkey[pos]
  BY DEF Hit, pos
<1>4. ASSUME pos < nd.slotuse, key = nd.slotkey[pos]
      PROVE  \E s \in Slots(nd) : nd.slotkey[s] = key
  BY <1>1, <1>4 DEF IsLowerBound, Slots
<1>5. ASSUME NEW s \in Slots(nd), nd.slotkey[s] = key
      PROVE  pos < nd.slotuse /\ key = nd.slotkey[pos]
  <2>1. pos <= s
    BY <1>1, <1>2, <1>5 DEF IsLowerBound, Slots
  <2>2. pos \in Slots(nd) /\ key <= nd.slotkey[pos]
    BY <1>1, <2>1 DEF IsLowerBound, Slots
  <2>3. nd.slotkey[pos] <= nd.slotkey[s]
    <3>1. CASE pos = s
      BY <3>1, <1>2
    <3>2. CASE pos < s
      BY <3>2, <2>2 DEF Sorted
    <3> QED  BY <3>1, <3>2, <2>1, <1>2 DEF Slots
  <2> QED  BY <2>2, <2>3, <1>2, <1>5 DEF Slots
<1> QED  BY <1>3, <1>4, <1>5

(* One step of a descent: the child selected exists, is one level down, and *)
(* its separators admit the key if those of the node did.                   *)
LEMMA DescentStep ==
  ASSUME NEW t, WellFormed(t), NEW v \in NodeIds(t), ~isleafnode(t.node[v]),
         NEW key \in Key, t.lo[v] < key, key <= t.hi[v]
  PROVE  LET c == Child(t.node[v], key)
         IN  /\ c \in NodeIds(t)
             /\ t.node[c].level + 1 = t.node[v].level
             /\ t.lo[c] < key
             /\ key <= t.hi[c]
<1> DEFINE nd  == t.node[v]
           pos == find_lower(nd, key)
           c   == nd.childid[pos]
<1>1. NodeOK(t, v) /\ ChildrenOK(t, v)
  BY DEF WellFormed
<1>2. nd.slotuse \in Nat /\ nd.slotkey \in [Slots(nd) -> Key]
  BY <1>1 DEF NodeOK
<1>3. IsLowerBound(nd, key, pos) /\ pos \in 0 .. nd.slotuse
  BY <1>2, FindLowerIsLowerBound
<1>4. c \in NodeIds(t)
  BY <1>1, <1>3 DEF NodeOK
<1>5. /\ t.node[c].level + 1 = nd.level
      /\ t.lo[c] = IF pos = 0 THEN t.lo[v] ELSE nd.slotkey[pos - 1]
      /\ t.hi[c] = IF pos = nd.slotuse THEN t.hi[v] ELSE nd.slotkey[pos]
  BY <1>1, <1>3 DEF ChildrenOK
<1>6. t.lo[c] < key
  BY <1>2, <1>3, <1>5 DEF IsLowerBound
<1>7. key <= t.hi[c]
  BY <1>2, <1>3, <1>5 DEF IsLowerBound
<1> QED  BY <1>4, <1>5, <1>6, <1>7 DEF Child

(* The leaf a descent ends at answers for the tree: it hits exactly the keys *)
(* stored anywhere, and the datum it returns is stored with the key.         *)
LEMMA LeafAnswers ==
  ASSUME NEW t, WellFormed(t), NEW v \in NodeIds(t), isleafnode(t.node[v]),
         NEW key \in Key, t.lo[v] < key, key <= t.hi[v]
  PROVE  /\ Hit(t.node[v], key) <=> Present(t, key)
         /\ Hit(t.node[v], key) => /\ <<key, Data(t.node[v], key)>> \in Stored(t)
                                   /\ Data(t.node[v], key) \in Value
<1> DEFINE nd  == t.node[v]
           pos == find_lower(nd, key)
<1>1. NodeOK(t, v) /\ LeafOwns(t, v)
  BY DEF WellFormed
<1>2. /\ nd.slotuse \in Nat /\ nd.slotkey \in [Slots(nd) -> Key] /\ Sorted(nd)
      /\ nd.slotdata \in [Slots(nd) -> Value]
  BY <1>1 DEF NodeOK
<1>3. Hit(nd, key) <=> \E s \in Slots(nd) : nd.slotkey[s] = key
  BY <1>2, HitIffHeld
<1>4. \A s \in Slots(nd) : <<nd.slotkey[s], nd.slotdata[s]>> \in Stored(t)
  BY DEF Stored, Leaves
<1>5. ASSUME Hit(nd, key)
      PROVE  <<key, Data(nd, key)>> \in Stored(t) /\ Data(nd, key) \in Value
  <2>1. pos \in Slots(nd) /\ key = nd.slotkey[pos]
    BY <1>2, <1>5, FindLowerIsLowerBound DEF Hit, Slots
  <2> QED  BY <2>1, <1>4, <1>2 DEF Data
<1>6. Hit(nd, key) => Present(t, key)
  <2> SUFFICES ASSUME Hit(nd, key) PROVE Present(t, key)
    OBVIOUS
  <2>1. <<key, Data(nd, key)>> \in Stored(t)
    BY <1>5
  <2>2. <<key, Data(nd, key)>>[1] = key
    OBVIOUS
  <2> QED  BY <2>1, <2>2 DEF Present
<1>7. Present(t, key) => Hit(nd, key)
  BY <1>1, <1>3 DEF Present, LeafOwns
<1> QED  BY <1>5, <1>6, <1>7

(* The invariant of the binary searches: the keys below the range are       *)
(* smaller than the one sought, the key at its upper end is not.            *)
Searching(nd, key, range) ==
  /\ range \in [lo : Nat, hi : Nat]
  /\ range.lo <= range.hi
  /\ range.hi <= nd.slotuse
  /\ \A s \in 0 .. range.lo - 1 : nd.slotkey[s] < key
  /\ range.hi < nd.slotuse => key <= nd.slotkey[range.hi]

LEMMA WholeRangeSearching ==
  ASSUME NEW nd, NEW key, nd.slotuse \in Nat
  PROVE  Searching(nd, key, WholeRange(nd))
BY DEF Searching, WholeRange

(* A halving keeps the invariant and leaves less than half of the range. *)
LEMMA HalveSearching ==
  ASSUME NEW nd, NEW key \in Key, NEW range, NEW w \in Nat,
         nd.slotuse \in Nat, nd.slotkey \in [Slots(nd) -> Key], Sorted(nd),
         Searching(nd, key, range), range.hi - range.lo < 2 * w
  PROVE  /\ Searching(nd, key, Halve(nd, key, range))
         /\ Halve(nd, key, range).hi - Halve(nd, key, range).lo < w
<1>1. PICK l, h : l = range.lo /\ h = range.hi
  OBVIOUS
<1>2. /\ l \in Nat /\ h \in Nat /\ l <= h /\ h <= nd.slotuse /\ h - l < 2 * w
      /\ \A s \in 0 .. l - 1 : nd.slotkey[s] < key
      /\ h < nd.slotuse => key <= nd.slotkey[h]
  BY <1>1 DEF Searching
<1>a. key \in Int /\ \A s \in Slots(nd) : nd.slotkey[s] \in Int
  BY KeyAssumption
<1>3. CASE ~(l < h)
  <2>1. Halve(nd, key, range) = range
    BY <1>1, <1>3 DEF Halve
  <2> QED  BY <1>1, <1>2, <1>3, <2>1
<1>4. CASE l < h
  <2>1. PICK mid : mid = (l + h) \div 2
    OBVIOUS
  <2>2. mid \in Nat /\ l <= mid /\ mid < h /\ mid - l < w /\ h - (mid + 1) < w
    BY <1>2, <1>4, <2>1
  <2>3. mid \in Slots(nd) /\ nd.slotkey[mid] \in Int /\ key \in Int
    <3>1. mid \in Slots(nd)
      BY <1>2, <2>2 DEF Slots
    <3> QED  BY <3>1, <1>a
  <2>4. CASE key <= nd.slotkey[mid]
    <3>1. Halve(nd, key, range) = [lo |-> l, hi |-> mid]
      BY <1>1, <1>4, <2>1, <2>4 DEF Halve
    <3> QED  BY <1>2, <2>2, <2>4, <3>1 DEF Searching
  <2>5. CASE ~(key <= nd.slotkey[mid])
    <3>1. Halve(nd, key, range) = [lo |-> mid + 1, hi |-> h]
      BY <1>1, <1>4, <2>1, <2>5 DEF Halve
    <3>2. ASSUME NEW s \in 0 .. (mid + 1) - 1 PROVE nd.slotkey[s] < key
      <4>1. s \in Slots(nd) /\ s <= mid
        BY <1>2, <2>2 DEF Slots
      <4>a. nd.slotkey[s] \in Int
        BY <4>1, <1>a
      <4>2. nd.slotkey[s] <= nd.slotkey[mid]
        <5>1. CASE s = mid
          BY <2>3, <5>1
        <5>2. CASE s < mid
          BY <2>3, <4>1, <5>2 DEF Sorted
        <5> QED  BY <2>2, <4>1, <5>1, <5>2
      <4> QED  BY <2>3, <2>5, <4>a, <4>2
    <3>3. [lo |-> mid + 1, hi |-> h] \in [lo : Nat, hi : Nat]
      BY <1>2, <2>2
    <3>4. Searching(nd, key, [lo |-> mid + 1, hi |-> h])
      BY <1>2, <2>2, <3>2, <3>3 DEF Searching
    <3> QED  BY <2>2, <3>1, <3>4
  <2> QED  BY <2>4, <2>5
<1> QED  BY <1>3, <1>4

(* What find_lower returns is never outside the range. *)
LEMMA SearchingHoldsBound ==
  ASSUME NEW nd, NEW key \in Key, NEW range,
         nd.slotuse \in Nat, nd.slotkey \in [Slots(nd) -> Key],
         Searching(nd, key, range)
  PROVE  range.lo <= find_lower(nd, key) /\ find_lower(nd, key) <= range.hi
<1>1. PICK b : b = find_lower(nd, key)
  OBVIOUS
<1>2. IsLowerBound(nd, key, b) /\ b \in 0 .. nd.slotuse
  BY <1>1, FindLowerIsLowerBound
<1>3. PICK l, h : l = range.lo /\ h = range.hi
  OBVIOUS
<1>4. /\ l \in Nat /\ h \in Nat /\ l <= h /\ h <= nd.slotuse
      /\ \A s \in 0 .. l - 1 : nd.slotkey[s] < key
      /\ h < nd.slotuse => key <= nd.slotkey[h]
  BY <1>3 DEF Searching
<1>5. \A s \in Slots(nd) : nd.slotkey[s] \in Int /\ key \in Int
  BY KeyAssumption
<1>6. l <= b
  <2> SUFFICES ASSUME b < l PROVE FALSE
    BY <1>2, <1>4
  <2>1. b \in Slots(nd) /\ nd.slotkey[b] < key /\ key <= nd.slotkey[b]
    BY <1>2, <1>4 DEF IsLowerBound, Slots
  <2> QED  BY <1>5, <2>1
<1>7. b <= h
  <2> SUFFICES ASSUME h < b PROVE FALSE
    BY <1>2, <1>4
  <2>1. h \in Slots(nd) /\ nd.slotkey[h] < key /\ key <= nd.slotkey[h]
    BY <1>2, <1>4 DEF IsLowerBound, Slots
  <2> QED  BY <1>5, <2>1
<1> QED  BY <1>1, <1>3, <1>6, <1>7

(* A longer interval from zero holds the indices of a shorter one. *)
LEMMA BelowGrows ==
  ASSUME NEW a \in Int, NEW b \in Int, a <= b, NEW q, q \in 0 .. a - 1
  PROVE  q \in 0 .. b - 1 /\ q \in Nat
OBVIOUS

(* A search whose range is one point has found the lower bound. *)
LEMMA OnePointLeft ==
  ASSUME NEW nd, NEW key \in Key, NEW rg,
         nd.slotuse \in Nat, nd.slotkey \in [Slots(nd) -> Key],
         Searching(nd, key, rg), rg.hi - rg.lo < 1
  PROVE  rg.lo = rg.hi /\ rg.lo = find_lower(nd, key)
<1>1. PICK l, h, b : l = rg.lo /\ h = rg.hi /\ b = find_lower(nd, key)
  OBVIOUS
<1>2. l <= b /\ b <= h
  BY <1>1, SearchingHoldsBound
<1>3. l \in Nat /\ h \in Nat /\ h - l < 1 /\ b \in Nat
  <2>1. find_lower(nd, key) \in 0 .. nd.slotuse
    BY FindLowerIsLowerBound
  <2> QED  BY <1>1, <2>1 DEF Searching
<1>4. l = b /\ h = b
  BY <1>2, <1>3
<1> QED  BY <1>1, <1>4

-----------------------------------------------------------------------------
(* A number of halvings fixed beforehand, as a recursive function: what it *)
(* computes is shown by induction, which here is the argument that a set   *)
(* of counterexamples has a least element.                                 *)

(* The ranges after each of the first steps halvings. *)
Halvings(nd, key, steps, g) ==
  g = [s \in 0 .. steps |-> IF s = 0 THEN WholeRange(nd) ELSE Halve(nd, key, g[s - 1])]

(* The recursion defines a function. *)
LEMMA HalvingsExist ==
  ASSUME NEW nd, NEW key
  PROVE  \A steps \in Nat : \E g : Halvings(nd, key, steps, g)
<1> DEFINE T == {k \in Nat : ~ \E g : Halvings(nd, key, k, g)}
<1> SUFFICES ASSUME T # {} PROVE FALSE
  OBVIOUS
<1>1. PICK k \in T : \A m \in T : k <= m
  <2>1. T \subseteq Nat
    OBVIOUS
  <2> HIDE DEF T
  <2> QED  BY <2>1, LeastNatural
<1>2. k \in Nat /\ ~ \E g : Halvings(nd, key, k, g)
  OBVIOUS
<1>3. CASE k = 0
  <2>1. Halvings(nd, key, 0, [s \in 0 .. 0 |-> WholeRange(nd)])
    BY DEF Halvings
  <2> QED  BY <1>2, <1>3, <2>1
<1>4. CASE k # 0
  <2>1. k - 1 \in Nat /\ k - 1 \notin T
    BY <1>1, <1>2, <1>4
  <2>2. PICK g : Halvings(nd, key, k - 1, g)
    BY <2>1
  <2>3. PICK h : h = [s \in 0 .. k |-> IF s = 0 THEN WholeRange(nd) ELSE Halve(nd, key, g[s - 1])]
    OBVIOUS
  <2>4. \A s \in 0 .. k : s # 0 => h[s - 1] = g[s - 1]
    BY <1>2, <2>2, <2>3 DEF Halvings
  <2>5. Halvings(nd, key, k, h)
    BY <2>3, <2>4 DEF Halvings
  <2> QED  BY <1>2, <2>5
<1> QED  BY <1>3, <1>4

(* Each of them is a search in progress, narrow enough for those left. *)
LEMMA HalvingsSearch ==
  ASSUME NEW nd, NEW key \in Key, NEW steps \in Nat, NEW g, NEW pw,
         nd.slotuse \in Nat, nd.slotkey \in [Slots(nd) -> Key], Sorted(nd),
         \A e \in 0 .. steps : pw[e] \in Nat,
         \A e \in 1 .. steps : pw[e] = 2 * pw[e - 1],
         nd.slotuse < pw[steps], Halvings(nd, key, steps, g)
  PROVE  \A s \in 0 .. steps : Searching(nd, key, g[s]) /\ g[s].hi - g[s].lo < pw[steps - s]
<1> DEFINE Narrow(s) == Searching(nd, key, g[s]) /\ g[s].hi - g[s].lo < pw[steps - s]
           T == {s \in 0 .. steps : ~ Narrow(s)}
<1> SUFFICES ASSUME T # {} PROVE FALSE
  OBVIOUS
<1>1. PICK k \in T : \A m \in T : k <= m
  <2>1. T \subseteq Nat
    OBVIOUS
  <2> HIDE DEF T
  <2> QED  BY <2>1, LeastNatural
<1>2. k \in 0 .. steps /\ ~ Narrow(k)
  OBVIOUS
<1>3. \A s \in 0 .. steps : g[s] = IF s = 0 THEN WholeRange(nd) ELSE Halve(nd, key, g[s - 1])
  BY DEF Halvings
<1>4. CASE k = 0
  <2>1. g[0] = WholeRange(nd)
    BY <1>3
  <2>2. Searching(nd, key, g[0]) /\ g[0].hi - g[0].lo = nd.slotuse
    BY <2>1, WholeRangeSearching DEF WholeRange
  <2> QED  BY <1>2, <1>4, <2>2
<1>5. CASE k # 0
  <2>1. k - 1 \in 0 .. steps /\ k - 1 \notin T
    BY <1>1, <1>2, <1>5
  <2>2. Narrow(k - 1)
    BY <2>1
  <2>3. PICK a, b, w : a = g[k - 1] /\ b = g[k] /\ w = pw[steps - k]
    OBVIOUS
  <2>4. w \in Nat /\ pw[steps - (k - 1)] = 2 * w
    <3>1. steps - k \in 0 .. steps /\ steps - k + 1 \in 1 .. steps /\ steps - (k - 1) = steps - k + 1
      BY <1>2, <1>5
    <3>2. PICK e : e = steps - k
      OBVIOUS
    <3>3. e \in 0 .. steps /\ e + 1 \in 1 .. steps /\ e + 1 - 1 = e /\ steps - (k - 1) = e + 1
      BY <3>1, <3>2
    <3>4. pw[e] \in Nat /\ pw[e + 1] = 2 * pw[e + 1 - 1]
      BY <3>3
    <3> QED  BY <2>3, <3>2, <3>3, <3>4
  <2>5. Searching(nd, key, a) /\ a.hi - a.lo < 2 * w
    BY <2>2, <2>3, <2>4
  <2>6. b = Halve(nd, key, a)
    BY <1>2, <1>3, <1>5, <2>3
  <2>7. Searching(nd, key, b) /\ b.hi - b.lo < w
    BY <2>4, <2>5, <2>6, HalveSearching
  <2> QED  BY <1>2, <2>3, <2>7
<1> QED  BY <1>4, <1>5

(* Enough of them for the node find its lower bound. *)
LEMMA HalvingsSuffice ==
  ASSUME NEW nd, NEW key \in Key, NEW steps \in Nat, NEW g, NEW pw,
         nd.slotuse \in Nat, nd.slotkey \in [Slots(nd) -> Key], Sorted(nd),
         \A e \in 0 .. steps : pw[e] \in Nat, pw[0] = 1,
         \A e \in 1 .. steps : pw[e] = 2 * pw[e - 1],
         nd.slotuse < pw[steps], Halvings(nd, key, steps, g)
  PROVE  g[steps].lo = find_lower(nd, key)
<1>1. \A s \in 0 .. steps : Searching(nd, key, g[s]) /\ g[s].hi - g[s].lo < pw[steps - s]
  BY HalvingsSearch
<1>2. Searching(nd, key, g[steps]) /\ g[steps].hi - g[steps].lo < 1
  <2>1. steps \in 0 .. steps /\ steps - steps = 0
    OBVIOUS
  <2> QED  BY <1>1, <2>1
<1> QED  BY <1>2, OnePointLeft

-----------------------------------------------------------------------------
(* The arguments and the output vectors.                                   *)

(* The arguments of a call are a well-formed tree and a vector of keys. *)
LEMMA ArgsFacts ==
  ASSUME OutsTypeOK
  PROVE  /\ WellFormed(tree)
         /\ n \in Nat
         /\ \A q \in QueryIdx : KeyAt(q) \in Key
<1>1. WellFormed(tree)
  BY TreesAssumption DEF OutsTypeOK
<1>2. queries \in Seq(Key)
  BY BatchesAssumption DEF OutsTypeOK
<1>3. n \in Nat
  BY <1>2 DEF n
<1>4. \A q \in QueryIdx : KeyAt(q) \in Key
  BY <1>2 DEF n, QueryIdx, KeyAt
<1> QED  BY <1>1, <1>3, <1>4

(* The positions of the batch are finite in number, and so is any set of them. *)
LEMMA PositionsFinite ==
  ASSUME OutsTypeOK, NEW S, S \subseteq QueryIdx
  PROVE  /\ IsFiniteSet(S)
         /\ Cardinality(S) \in Nat
         /\ Cardinality(S) <= n
         /\ Cardinality(S) = n => S = QueryIdx
<1>1. n \in Nat
  BY ArgsFacts
<1>2. IsFiniteSet(QueryIdx) /\ Cardinality(QueryIdx) = n
  BY <1>1, FS_Interval DEF QueryIdx
<1>3. /\ IsFiniteSet(S)
      /\ Cardinality(S) <= Cardinality(QueryIdx)
      /\ Cardinality(QueryIdx) = Cardinality(S) => QueryIdx = S
  BY <1>2, FS_Subset
<1>4. Cardinality(S) \in Nat
  BY <1>3, FS_CardinalityType
<1> QED  BY <1>2, <1>3, <1>4

(* Searches that stand at leaves on the paths of their keys give the right   *)
(* answers, whatever found held before, and touch no other entry.            *)
LEMMA LeavesAnswer ==
  ASSUME OutsTypeOK, NEW Qs, Qs \subseteq QueryIdx, NEW reached, DOMAIN reached = Qs,
         \A q \in Qs : /\ reached[q] \in NodeIds(tree) /\ IsLeafId(reached[q])
                       /\ OnPath(q, reached[q]) /\ results[q] = Stale,
         WriteAnswers(reached), UNCHANGED args
  PROVE  /\ OutsTypeOK'
         /\ QueryIdx' = QueryIdx
         /\ \A q \in Qs : RightAnswer(q)'
         /\ \A q \in QueryIdx \ Qs : found'[q] = found[q] /\ results'[q] = results[q]
<1> DEFINE hit(q) == Hit(Node(reached[q]), KeyAt(q))
           dat(q) == Data(Node(reached[q]), KeyAt(q))
<1>1. WellFormed(tree) /\ \A q \in QueryIdx : KeyAt(q) \in Key
  BY ArgsFacts
<1>2. \A q \in Qs : /\ hit(q) \in BOOLEAN
                    /\ hit(q) <=> Present(tree, KeyAt(q))
                    /\ hit(q) => <<KeyAt(q), dat(q)>> \in Stored(tree) /\ dat(q) \in Value
  <2> TAKE q \in Qs
  <2>1. KeyAt(q) \in Key
    BY <1>1
  <2>2. /\ reached[q] \in NodeIds(tree) /\ isleafnode(tree.node[reached[q]])
        /\ tree.lo[reached[q]] < KeyAt(q) /\ KeyAt(q) <= tree.hi[reached[q]]
    BY DEF IsLeafId, Node, OnPath
  <2>3. hit(q) \in BOOLEAN
    BY DEF Hit
  <2> QED  BY <2>1, <2>2, <2>3, <1>1, LeafAnswers DEF Node
<1>3. tree' = tree /\ queries' = queries
  BY DEF args
<1>4. QueryIdx' = QueryIdx /\ \A q : KeyAt(q)' = KeyAt(q)
  BY <1>3 DEF QueryIdx, KeyAt, n
<1>5. Stored(tree)' = Stored(tree) /\ \A q : Present(tree, KeyAt(q))' <=> Present(tree, KeyAt(q))
  <2>1. Stored(tree)' = Stored(tree)
    BY <1>3 DEF Stored, Leaves, NodeIds, Slots, isleafnode
  <2> QED  BY <2>1, <1>4 DEF Present
<1> HIDE DEF hit, dat
<1>6. found' = [q \in QueryIdx |-> IF q \in Qs THEN q \in Qs /\ hit(q) ELSE found[q]]
  BY DEF WriteAnswers, hit
<1>7. results' = [q \in QueryIdx |-> IF q \in Qs /\ hit(q) THEN dat(q) ELSE results[q]]
  BY DEF WriteAnswers, hit, dat
<1>8. \A q \in QueryIdx \ Qs : found'[q] = found[q] /\ results'[q] = results[q]
  BY <1>6, <1>7
<1>9. ASSUME NEW q \in Qs PROVE RightAnswer(q)'
  <2>1. found'[q] = hit(q) /\ results'[q] = IF hit(q) THEN dat(q) ELSE results[q]
    BY <1>2, <1>6, <1>7
  <2>2. CASE hit(q)
    BY <2>1, <2>2, <1>2, <1>4, <1>5 DEF RightAnswer
  <2>3. CASE ~hit(q)
    <3>1. ~found'[q] /\ results'[q] = Stale
      BY <2>1, <2>3
    <3> QED  BY <3>1, <2>3, <1>2, <1>4, <1>5 DEF RightAnswer
  <2> QED  BY <2>2, <2>3
<1>10. found' \in [QueryIdx -> BOOLEAN]
  BY <1>2, <1>6 DEF OutsTypeOK
<1>11. results' \in [QueryIdx -> Value \cup {Stale}]
  BY <1>2, <1>7 DEF OutsTypeOK
<1>12. OutsTypeOK'
  BY <1>3, <1>4, <1>10, <1>11 DEF OutsTypeOK
<1> QED  BY <1>4, <1>8, <1>9, <1>12

(* The same for queries that have no answer yet. *)
LEMMA LeavesGiveRightAnswers ==
  ASSUME OutsTypeOK, NEW Qs, Qs \subseteq QueryIdx, NEW reached, DOMAIN reached = Qs,
         \A q \in Qs : /\ reached[q] \in NodeIds(tree) /\ IsLeafId(reached[q])
                       /\ OnPath(q, reached[q]) /\ Unanswered(q),
         WriteAnswers(reached), UNCHANGED args
  PROVE  /\ OutsTypeOK'
         /\ QueryIdx' = QueryIdx
         /\ \A q \in Qs : RightAnswer(q)'
         /\ \A q \in QueryIdx \ Qs : found'[q] = found[q] /\ results'[q] = results[q]
<1>1. \A q \in Qs : results[q] = Stale
  BY DEF Unanswered
<1> QED  BY <1>1, LeavesAnswer

(* A step that leaves arguments and outputs alone leaves every answer alone. *)
LEMMA OutsUnchanged ==
  ASSUME UNCHANGED <<args, outs>>
  PROVE  /\ n' = n /\ QueryIdx' = QueryIdx /\ NodeIds(tree)' = NodeIds(tree)
         /\ (NothingToDo' <=> NothingToDo)
         /\ (OutsTypeOK => OutsTypeOK')
         /\ \A q : /\ RightAnswer(q)' <=> RightAnswer(q)
                   /\ Unanswered(q)' <=> Unanswered(q)
                   /\ KeyAt(q)' = KeyAt(q)
         /\ \A q, v : OnPath(q, v)' <=> OnPath(q, v)
<1>1. tree' = tree /\ queries' = queries /\ found' = found /\ results' = results
  BY DEF args, outs
<1>2. n' = n /\ QueryIdx' = QueryIdx /\ NodeIds(tree)' = NodeIds(tree)
  BY <1>1 DEF n, QueryIdx, NodeIds
<1>3. \A q : KeyAt(q)' = KeyAt(q)
  BY <1>1 DEF KeyAt
<1>4. Stored(tree)' = Stored(tree)
  BY <1>1 DEF Stored, Leaves, NodeIds, Slots, isleafnode
<1>5. \A q : Present(tree, KeyAt(q))' <=> Present(tree, KeyAt(q))
  BY <1>3, <1>4 DEF Present
<1> QED  BY <1>1, <1>2, <1>3, <1>4, <1>5
         DEF NothingToDo, OutsTypeOK, RightAnswer, Unanswered, OnPath

(* With no root there is nothing stored, and "not found" is right. *)
LEMMA NothingToDoIsRight ==
  ASSUME OutsTypeOK, NothingToDo, NEW q \in QueryIdx, Unanswered(q)
  PROVE  RightAnswer(q)
<1>1. n \in Nat /\ WellFormed(tree)
  BY ArgsFacts
<1>2. tree.root = NULL
  BY <1>1 DEF NothingToDo, QueryIdx
<1>3. NodeIds(tree) = {}
  BY <1>1, <1>2 DEF WellFormed
<1>4. ~Present(tree, KeyAt(q))
  BY <1>3 DEF Present, Stored, Leaves
<1> QED  BY <1>4 DEF RightAnswer, Unanswered

(* The arguments of a call are arguments of the abstract specification. *)
LEMMA AbstractTypes ==
  ASSUME OutsTypeOK
  PROVE  Stored(tree) \in SUBSET (Key \X Value) /\ queries \in Seq(Key)
<1>1. WellFormed(tree)
  BY ArgsFacts
<1>2. ASSUME NEW v \in Leaves(tree), NEW s \in Slots(tree.node[v])
      PROVE  <<tree.node[v].slotkey[s], tree.node[v].slotdata[s]>> \in Key \X Value
  <2>1. NodeOK(tree, v) /\ isleafnode(tree.node[v])
    BY <1>1 DEF Leaves, WellFormed
  <2> QED  BY <2>1 DEF NodeOK
<1>3. Stored(tree) \subseteq Key \X Value
  BY <1>2 DEF Stored
<1>4. queries \in Seq(Key)
  BY BatchesAssumption DEF OutsTypeOK
<1> QED  BY <1>3, <1>4
=============================================================================
