------------------------ MODULE LearnedLookup_proofs ------------------------
(***************************************************************************)
(* Theorems about the lookups of the learned indexes: the lemmas about RS   *)
(* and PGM, and what they and those about LIPP come to.  The binary search  *)
(* of a query has not lost the first key of its window that is not less,    *)
(* and the window is narrow enough for the halvings left.                  *)
(***************************************************************************)
EXTENDS LIPPLookup_proofs

-----------------------------------------------------------------------------
(* Binary search in a window.  The powers of two are a recursive function,  *)
(* so that it has to be shown that there is one.                           *)

PowersTo(g, k) == g[0] = 1 /\ \A e \in 1 .. k : g[e] = 2 * g[e - 1]
Powers(f)      == f[0] = 1 /\ \A e \in Nat : f[e] \in Nat \ {0} /\ f[e + 1] = 2 * f[e]

LEMMA PowersToExist == \A k \in Nat : \E g : PowersTo(g, k)
<1> DEFINE T == {k \in Nat : ~ \E g : PowersTo(g, k)}
<1> SUFFICES ASSUME T # {} PROVE FALSE
  OBVIOUS
<1>1. PICK k \in T : \A j \in T : k <= j
  <2>1. T \subseteq Nat
    OBVIOUS
  <2> HIDE DEF T
  <2> QED  BY <2>1, LeastNatural
<1>2. k \in Nat /\ ~ \E g : PowersTo(g, k)
  OBVIOUS
<1>3. CASE k = 0
  <2>1. PowersTo([e \in 0 .. 0 |-> 1], 0)
    BY DEF PowersTo
  <2> QED  BY <1>2, <1>3, <2>1
<1>4. CASE k # 0
  <2>1. k - 1 \in Nat /\ k - 1 \notin T
    BY <1>1, <1>2, <1>4
  <2>2. PICK g : PowersTo(g, k - 1)
    BY <2>1
  <2>3. PICK h : h = [e \in 0 .. k |-> IF e = k THEN 2 * g[k - 1] ELSE g[e]]
    OBVIOUS
  <2>4. PowersTo(h, k)
    <3>1. h[0] = 1
      BY <1>2, <1>4, <2>2, <2>3 DEF PowersTo
    <3>2. ASSUME NEW e \in 1 .. k PROVE h[e] = 2 * h[e - 1]
      <4>1. e \in 0 .. k /\ e - 1 \in 0 .. k /\ e - 1 # k
        BY <1>2, <3>2
      <4>2. h[e - 1] = g[e - 1]
        BY <2>3, <4>1
      <4>3. CASE e = k
        BY <2>3, <4>1, <4>2, <4>3
      <4>4. CASE e # k
        <5>1. e \in 1 .. k - 1
          BY <1>2, <3>2, <4>4
        <5>2. g[e] = 2 * g[e - 1]
          BY <2>2, <5>1 DEF PowersTo
        <5> QED  BY <2>3, <4>1, <4>2, <4>4, <5>2
      <4> QED  BY <4>3, <4>4
    <3> QED  BY <3>1, <3>2 DEF PowersTo
  <2> QED  BY <1>2, <2>4
<1> QED  BY <1>3, <1>4

LEMMA PowersAgree ==
  ASSUME NEW k \in Nat, NEW g, PowersTo(g, k), NEW j \in Nat, j <= k, NEW h, PowersTo(h, j)
  PROVE  \A e \in 0 .. j : g[e] = h[e]
<1> DEFINE T == {e \in 0 .. j : g[e] # h[e]}
<1> SUFFICES ASSUME T # {} PROVE FALSE
  OBVIOUS
<1>1. PICK e \in T : \A x \in T : e <= x
  <2>1. T \subseteq Nat
    OBVIOUS
  <2> HIDE DEF T
  <2> QED  BY <2>1, LeastNatural
<1>2. e \in 0 .. j /\ g[e] # h[e]
  OBVIOUS
<1>3. e # 0
  BY <1>2 DEF PowersTo
<1>4. e - 1 \in 0 .. j /\ e \in 1 .. j /\ e \in 1 .. k /\ ~(e <= e - 1)
  BY <1>2, <1>3
<1>5. g[e - 1] = h[e - 1]
  BY <1>1, <1>4
<1>6. g[e] = 2 * g[e - 1] /\ h[e] = 2 * h[e - 1]
  BY <1>4 DEF PowersTo
<1> QED  BY <1>2, <1>5, <1>6

(* The powers of two are those that their recursive definition says. *)
LEMMA PowersDefined ==
  \E f : f = [e \in Nat |-> IF e = 0 THEN 1 ELSE 2 * f[e - 1]]
<1> DEFINE G(k) == CHOOSE g : PowersTo(g, k)
<1>1. \A k \in Nat : PowersTo(G(k), k)
  BY PowersToExist
<1> HIDE DEF G
<1>2. PICK f : f = [e \in Nat |-> G(e)[e]]
  OBVIOUS
<1>3. ASSUME NEW e \in Nat PROVE f[e] = IF e = 0 THEN 1 ELSE 2 * f[e - 1]
  <2>1. f[e] = G(e)[e] /\ PowersTo(G(e), e)
    BY <1>1, <1>2
  <2>2. CASE e = 0
    BY <2>1, <2>2 DEF PowersTo
  <2>3. CASE e # 0
    <3>1. e - 1 \in Nat /\ e - 1 <= e /\ e - 1 \in 0 .. e - 1 /\ e \in 1 .. e
      BY <2>3
    <3>2. f[e - 1] = G(e - 1)[e - 1] /\ PowersTo(G(e - 1), e - 1)
      BY <1>1, <1>2, <3>1
    <3>3. G(e)[e - 1] = G(e - 1)[e - 1]
      BY <2>1, <3>1, <3>2, PowersAgree
    <3>4. G(e)[e] = 2 * G(e)[e - 1]
      BY <2>1, <3>1 DEF PowersTo
    <3> QED  BY <2>1, <2>3, <3>2, <3>3, <3>4
  <2> QED  BY <2>2, <2>3
<1>4. f = [e \in Nat |-> IF e = 0 THEN 1 ELSE 2 * f[e - 1]]
  BY <1>2, <1>3
<1> QED  BY <1>4

LEMMA PowersFacts ==
  ASSUME NEW f, f = [e \in Nat |-> IF e = 0 THEN 1 ELSE 2 * f[e - 1]]
  PROVE  Powers(f) /\ \A e \in Nat : f[e] > e
<1>1. f[0] = 1
  OBVIOUS
<1>2. ASSUME NEW e \in Nat PROVE f[e + 1] = 2 * f[e]
  <2>1. e + 1 \in Nat /\ e + 1 # 0 /\ (e + 1) - 1 = e
    OBVIOUS
  <2> QED  BY <2>1
<1> DEFINE T == {e \in Nat : ~(f[e] \in Nat /\ f[e] > e)}
<1>3. T = {}
  <2> SUFFICES ASSUME T # {} PROVE FALSE
    OBVIOUS
  <2>1. PICK e \in T : \A x \in T : e <= x
    <3>1. T \subseteq Nat
      OBVIOUS
    <3> HIDE DEF T
    <3> QED  BY <3>1, LeastNatural
  <2>2. e \in Nat /\ ~(f[e] \in Nat /\ f[e] > e)
    OBVIOUS
  <2>3. e # 0
    BY <1>1, <2>2
  <2>4. e - 1 \in Nat /\ e - 1 \notin T /\ (e - 1) + 1 = e
    BY <2>1, <2>2, <2>3
  <2>5. f[e - 1] \in Nat /\ f[e - 1] > e - 1
    BY <2>4
  <2>6. f[e] = 2 * f[e - 1]
    BY <1>2, <2>4
  <2> QED  BY <2>2, <2>3, <2>5, <2>6
<1>4. \A e \in Nat : f[e] \in Nat \ {0} /\ f[e] > e
  <2> TAKE e \in Nat
  <2>1. e \notin T
    BY <1>3
  <2> QED  BY <2>1
<1> QED  BY <1>1, <1>2, <1>4 DEF Powers

(* There are steps that suffice, and no more than needed. *)
LEMMA StepsExist ==
  ASSUME NEW f, Powers(f), \A e \in Nat : f[e] > e, NEW m \in Nat \ {0}
  PROVE  \E s \in 1 .. m + 1 : f[s - 1] <= m /\ m < f[s]
<1> DEFINE T == {e \in Nat : m < f[e]}
<1>1. m \in T
  OBVIOUS
<1>2. PICK e \in T : \A x \in T : e <= x
  <2>1. T \subseteq Nat /\ T # {}
    BY <1>1
  <2> HIDE DEF T
  <2> QED  BY <2>1, LeastNatural
<1>3. e \in Nat /\ m < f[e] /\ e <= m
  BY <1>1, <1>2
<1>4. e # 0
  BY <1>3 DEF Powers
<1>5. e - 1 \in Nat /\ e - 1 \notin T
  BY <1>2, <1>3, <1>4
<1>6. f[e - 1] <= m
  BY <1>5 DEF Powers
<1>7. e \in 1 .. m + 1
  BY <1>3, <1>4
<1> QED  BY <1>3, <1>6, <1>7

-----------------------------------------------------------------------------
(* The windows.                                                            *)

Windows == INSTANCE WindowLookup WITH Indexes <- AnyIndex, Batches <- WindowBatches

(* The definitions that the index lookups share with those of LIPP. *)
LEMMA WindowsSame ==
  /\ Windows!n = n /\ Windows!QueryIdx = QueryIdx
  /\ \A q : Windows!KeyAt(q) = KeyAt(q)
  /\ \A S : Windows!Cardinality(S) = Cardinality(S)
  /\ \A hits : Windows!Settle(hits) <=> Settle(hits)
  /\ \A items, A : Windows!AnswersRight(items, A) <=> AnswersRight(items, A)
<1>1. Windows!n = n /\ Windows!QueryIdx = QueryIdx
  BY DEF Windows!n, n, Windows!QueryIdx, QueryIdx
<1>2. \A q : Windows!KeyAt(q) = KeyAt(q)
  BY DEF Windows!KeyAt, KeyAt
<1>3. \A S : Windows!Cardinality(S) = Cardinality(S)
  BY DEF Windows!Cardinality, Cardinality
<1>4. \A hits : Windows!Settle(hits) <=> Settle(hits)
  BY <1>1 DEF Windows!Settle, Settle
<1>5. \A items, A : Windows!AnswersRight(items, A) <=> AnswersRight(items, A)
  BY <1>1, <1>2 DEF Windows!AnswersRight, AnswersRight, Windows!RightAnswer, RightAnswer,
                    Windows!Unanswered, Unanswered
<1> QED  BY <1>1, <1>2, <1>3, <1>4, <1>5

(* Every index looked up in is sound. *)
LEMMA AnyIndexSound == \A x \in AnyIndex : Windows!SoundIndex(x)
<1>1. \A x : Machines!SoundIndex(x) <=> Windows!SoundIndex(x)
  <2>1. \A S : Windows!Cardinality(S) = Machines!Cardinality(S)
    BY DEF Windows!Cardinality, Machines!Cardinality
  <2>2. \A x : Windows!Size(x) = Machines!Size(x)
    BY <2>1 DEF Windows!Size, Machines!Size
  <2>3. \A x : Windows!SortedOK(x) <=> Machines!SortedOK(x)
    BY <2>2 DEF Windows!SortedOK, Machines!SortedOK
  <2>4. \A x, key : Windows!WindowOK(x, key) <=> Machines!WindowOK(x, key)
    BY <2>2 DEF Windows!WindowOK, Machines!WindowOK
  <2> QED  BY <2>3, <2>4 DEF Windows!SoundIndex, Machines!SoundIndex
<1> QED  BY <1>1, IndexesAssumption, Zenon DEF AnyIndex

WindowCallOK == index \in AnyIndex /\ queries \in Seq(Key) /\ OutsOK

(* A position of the batch has a key, and this a window in a sorted index. *)
LEMMA WindowFacts ==
  ASSUME WindowCallOK, NEW q \in QueryIdx
  PROVE  /\ KeyAt(q) \in Int /\ KeyAt(q) \in Key
         /\ Windows!Window(q) \in [lo : Nat, hi : Nat]
         /\ Windows!Size(index) \in Nat /\ DOMAIN index.keys = 0 .. Windows!Size(index) - 1
         /\ index.error \in Nat
         /\ Windows!Window(q).hi - Windows!Window(q).lo <= 2 * index.error + 2
         /\ Windows!Window(q).lo < Windows!Window(q).hi => Windows!Window(q).hi <= Windows!Size(index)
         /\ \A p \in DOMAIN index.keys : index.keys[p] \in Int /\ index.values[p] \in Value
         /\ \A p, r \in DOMAIN index.keys : p <= r => index.keys[p] <= index.keys[r]
         /\ \A p \in DOMAIN index.keys : index.keys[p] = KeyAt(q) =>
              \E r \in Windows!Window(q).lo .. Windows!Window(q).hi :
                r \in DOMAIN index.keys /\ index.keys[r] = KeyAt(q)
<1>1. KeyAt(q) \in Key /\ KeyAt(q) \in Int
  BY BatchFacts, KeyAssumption DEF WindowCallOK
<1>2. Windows!SoundIndex(index)
  BY AnyIndexSound DEF WindowCallOK
<1>3. /\ Windows!SortedOK(index) /\ index.error \in Nat /\ index.window \in [Key -> [lo : Nat, hi : Nat]]
      /\ Windows!WindowOK(index, KeyAt(q))
  BY <1>1, <1>2 DEF Windows!SoundIndex
<1>4. Windows!Window(q) = index.window[KeyAt(q)]
  BY WindowsSame DEF Windows!Window
<1>5. Windows!Window(q) \in [lo : Nat, hi : Nat]
  BY <1>1, <1>3, <1>4
<1>6. /\ Windows!Size(index) \in Nat
      /\ index.keys \in [0 .. Windows!Size(index) - 1 -> Key]
      /\ index.values \in [0 .. Windows!Size(index) - 1 -> Value]
      /\ \A p, r \in DOMAIN index.keys : p <= r => index.keys[p] <= index.keys[r]
  BY <1>3 DEF Windows!SortedOK
<1>7. /\ DOMAIN index.keys = 0 .. Windows!Size(index) - 1
      /\ \A p \in DOMAIN index.keys : index.keys[p] \in Int /\ index.values[p] \in Value
  BY <1>6, KeyAssumption
<1> QED  BY <1>1, <1>3, <1>4, <1>5, <1>6, <1>7 DEF Windows!WindowOK

(* In a window with positions the goal is the first key not less than the   *)
(* one looked for, or right behind the window.                             *)
LEMMA GoalFirst ==
  ASSUME WindowCallOK, NEW q \in QueryIdx, NEW lo, NEW hi,
         lo = Windows!Window(q).lo, hi = Windows!Window(q).hi, lo < hi
  PROVE  /\ Windows!Goal(q) \in Nat /\ lo <= Windows!Goal(q) /\ Windows!Goal(q) <= hi
         /\ \A p \in lo .. hi - 1 : index.keys[p] < KeyAt(q) <=> p < Windows!Goal(q)
<1> DEFINE T == {p \in lo .. hi : p = hi \/ ~(index.keys[p] < KeyAt(q))}
<1>1. lo \in Nat /\ hi \in Nat /\ KeyAt(q) \in Int
  BY WindowFacts
<1>2. \A p \in lo .. hi - 1 : p \in DOMAIN index.keys /\ index.keys[p] \in Int
  BY <1>1, WindowFacts
<1>3. PICK g \in T : \A x \in T : g <= x
  <2>1. T \subseteq Nat /\ T # {}
    BY <1>1
  <2> HIDE DEF T
  <2> QED  BY <2>1, LeastNatural
<1>4. g \in lo .. hi /\ g \in Nat
  BY <1>1
<1>5. \A p \in lo .. hi - 1 : index.keys[p] < KeyAt(q) <=> p < g
  <2> TAKE p \in lo .. hi - 1
  <2>0. p \in lo .. hi /\ p # hi /\ p \in Int
    BY <1>1
  <2>1. CASE p < g
    <3>1. p \notin T
      BY <1>3, <1>4, <2>0, <2>1
    <3> QED  BY <2>0, <2>1, <3>1
  <2>2. CASE ~(p < g)
    <3>1. g \in lo .. hi - 1 /\ g # hi /\ g <= p
      BY <1>1, <1>4, <2>0, <2>2
    <3>2. ~(index.keys[g] < KeyAt(q))
      BY <3>1
    <3>3. index.keys[g] <= index.keys[p]
      BY <1>2, <3>1, WindowFacts
    <3>4. index.keys[g] \in Int /\ index.keys[p] \in Int
      BY <1>2, <3>1
    <3> QED  BY <1>1, <2>2, <3>2, <3>3, <3>4
  <2> QED  BY <2>1, <2>2
<1>6. {p \in lo .. hi - 1 : index.keys[p] < KeyAt(q)} = lo .. g - 1
  BY <1>1, <1>4, <1>5
<1>7. Cardinality(lo .. g - 1) = g - lo
  <2>1. PICK e \in Int : e = g - 1
    BY <1>4
  <2>2. Cardinality(lo .. e) = IF lo > e THEN 0 ELSE e - lo + 1
    <3>1. \A a, b \in Int : Cardinality(a .. b) = IF a > b THEN 0 ELSE b - a + 1
      BY FS_Interval
    <3>2. lo \in Int /\ e \in Int
      BY <1>1, <2>1
    <3> QED  BY <3>1, <3>2
  <2>3. e - lo + 1 = g - lo /\ (lo > e => g - lo = 0)
    BY <1>1, <1>4, <2>1
  <2> QED  BY <2>1, <2>2, <2>3
<1>8. Windows!Goal(q) = g
  <2>1. Windows!Goal(q) = lo + Cardinality(lo .. g - 1)
    BY <1>6, WindowsSame DEF Windows!Goal
  <2> QED  BY <1>1, <1>4, <1>7, <2>1
<1> QED  BY <1>4, <1>5, <1>8

(* What a search keeps: the window it has is part of the one predicted, and *)
(* has not lost the goal.                                                  *)
Search(q, w) ==
  /\ w \in [lo : Nat, hi : Nat]
  /\ Windows!OnTrack(q, w)
  /\ Windows!Open(Windows!Window(q)) => Windows!Window(q).lo <= w.lo /\ w.hi <= Windows!Window(q).hi

LEMMA SearchStarts ==
  ASSUME WindowCallOK, NEW q \in QueryIdx
  PROVE  /\ Search(q, Windows!Window(q))
         /\ Windows!Window(q).hi - Windows!Window(q).lo <= 2 * index.error + 2
<1>1. PICK lo, hi : lo = Windows!Window(q).lo /\ hi = Windows!Window(q).hi
  OBVIOUS
<1>2. Windows!Window(q) \in [lo : Nat, hi : Nat] /\ lo \in Nat /\ hi \in Nat
  BY <1>1, WindowFacts
<1>3. lo < hi => lo <= Windows!Goal(q) /\ Windows!Goal(q) <= hi
  BY <1>1, GoalFirst
<1> QED  BY <1>1, <1>2, <1>3, WindowFacts DEF Search, Windows!OnTrack, Windows!Open

(* A step keeps the goal, and halves the window while it is open. *)
LEMMA SearchHalves ==
  ASSUME WindowCallOK, NEW q \in QueryIdx, NEW w, Search(q, w)
  PROVE  /\ Search(q, Windows!Halved(q, w))
         /\ w.lo <= w.hi => Windows!Halved(q, w).lo <= Windows!Halved(q, w).hi
         /\ \A e \in Nat : w.hi - w.lo < 2 * e => Windows!Halved(q, w).hi - Windows!Halved(q, w).lo < e \/ e = 0
<1>1. PICK lo, hi, a, b, m, h : /\ lo = Windows!Window(q).lo /\ hi = Windows!Window(q).hi
                                /\ a = w.lo /\ b = w.hi /\ m = Windows!Mid(w) /\ h = Windows!Halved(q, w)
  OBVIOUS
<1>2. lo \in Nat /\ hi \in Nat /\ a \in Nat /\ b \in Nat /\ w = [lo |-> a, hi |-> b]
  BY <1>1, WindowFacts DEF Search
<1>3. CASE ~(a < b)
  <2>1. h = w
    BY <1>1, <1>3 DEF Windows!Halved, Windows!Open
  <2> QED  BY <1>1, <1>2, <1>3, <2>1
<1>4. CASE a < b
  <2>1. lo < hi
    <3>1. CASE ~(lo < hi)
      <4>1. w = Windows!Window(q)
        BY <1>1, <3>1 DEF Search, Windows!OnTrack, Windows!Open
      <4> QED  BY <1>1, <1>4, <3>1, <4>1
    <3> QED  BY <3>1
  <2>2. lo <= a /\ b <= hi /\ a <= Windows!Goal(q) /\ Windows!Goal(q) <= b
    BY <1>1, <2>1 DEF Search, Windows!OnTrack, Windows!Open
  <2>3. m = (a + b) \div 2
    BY <1>1 DEF Windows!Mid
  <2>4. m \in Nat /\ a <= m /\ m < b
    BY <1>2, <1>4, <2>3
  <2>5. m \in lo .. hi - 1
    BY <1>2, <2>2, <2>4
  <2>6. Windows!Goal(q) \in Nat /\ (index.keys[m] < KeyAt(q) <=> m < Windows!Goal(q))
    BY <1>1, <2>1, <2>5, GoalFirst
  <2>7. KeyAt(q) \in Int /\ index.keys[m] \in Int
    <3>1. m \in DOMAIN index.keys
      BY <1>1, <1>2, <2>1, <2>5, WindowFacts
    <3> QED  BY <3>1, WindowFacts
  <2>8. h = IF KeyAt(q) <= index.keys[m] THEN [lo |-> a, hi |-> m] ELSE [lo |-> m + 1, hi |-> b]
    BY <1>1, <1>2, <1>4, WindowsSame DEF Windows!Halved, Windows!Open
  <2>9. CASE KeyAt(q) <= index.keys[m]
    <3>1. h = [lo |-> a, hi |-> m] /\ Windows!Goal(q) <= m
      BY <2>4, <2>6, <2>7, <2>8, <2>9
    <3>2. Search(q, h)
      BY <1>1, <1>2, <2>1, <2>2, <2>4, <3>1 DEF Search, Windows!OnTrack, Windows!Open
    <3>3. \A e \in Nat : b - a < 2 * e => m - a < e
      BY <1>2, <1>4, <2>3
    <3> QED  BY <1>1, <2>4, <3>1, <3>2, <3>3
  <2>10. CASE ~(KeyAt(q) <= index.keys[m])
    <3>1. h = [lo |-> m + 1, hi |-> b] /\ m + 1 <= Windows!Goal(q)
      BY <2>4, <2>6, <2>7, <2>8, <2>10
    <3>2. Search(q, h)
      BY <1>1, <1>2, <2>1, <2>2, <2>4, <3>1 DEF Search, Windows!OnTrack, Windows!Open
    <3>3. \A e \in Nat : b - a < 2 * e => b - (m + 1) < e
      BY <1>2, <1>4, <2>3
    <3> QED  BY <1>1, <1>2, <2>4, <3>1, <3>2, <3>3
  <2> QED  BY <2>9, <2>10
<1> QED  BY <1>3, <1>4

(* A search whose window is closed stands at its key, if this is stored.    *)
LEMMA SearchEnds ==
  ASSUME WindowCallOK, NEW q \in QueryIdx, NEW w, Search(q, w), ~Windows!Open(w)
  PROVE  IF Windows!IsHit(q, w.lo) THEN <<KeyAt(q), index.values[w.lo]>> \in Windows!Items
         ELSE \A item \in Windows!Items : item[1] # KeyAt(q)
<1>1. PICK lo, hi, s : lo = Windows!Window(q).lo /\ hi = Windows!Window(q).hi /\ s = w.lo
  OBVIOUS
<1>2. lo \in Nat /\ hi \in Nat /\ s \in Nat /\ KeyAt(q) \in Int /\ Windows!Size(index) \in Nat
      /\ DOMAIN index.keys = 0 .. Windows!Size(index) - 1
  BY <1>1, WindowFacts DEF Search
<1>3. Windows!IsHit(q, s) <=> s \in DOMAIN index.keys /\ index.keys[s] = KeyAt(q)
  BY <1>2, WindowsSame DEF Windows!IsHit, Windows!data_size
<1>4. CASE Windows!IsHit(q, s)
  BY <1>1, <1>3, <1>4 DEF Windows!Items
<1>5. CASE ~Windows!IsHit(q, s)
  <2> SUFFICES ASSUME NEW p \in DOMAIN index.keys, index.keys[p] = KeyAt(q) PROVE FALSE
    BY <1>1, <1>5 DEF Windows!Items
  <2>1. PICK r \in lo .. hi : r \in DOMAIN index.keys /\ index.keys[r] = KeyAt(q)
    BY <1>1, WindowFacts
  <2>2. CASE ~(lo < hi)
    <3>1. w = Windows!Window(q)
      BY <1>1, <2>2 DEF Search, Windows!OnTrack, Windows!Open
    <3>2. r = s
      BY <1>1, <1>2, <2>1, <2>2, <3>1
    <3> QED  BY <1>3, <1>5, <2>1, <3>2
  <2>3. CASE lo < hi
    <3>1. PICK g : g = Windows!Goal(q)
      OBVIOUS
    <3>2. g \in Nat /\ lo <= g /\ g <= hi /\ \A x \in lo .. hi - 1 : index.keys[x] < KeyAt(q) <=> x < g
      BY <1>1, <2>3, <3>1, GoalFirst
    <3>3. s = g
      <4>1. w.hi \in Nat /\ s <= g /\ g <= w.hi /\ ~(s < w.hi)
        BY <1>1, <2>3, <3>1 DEF Search, Windows!OnTrack, Windows!Open
      <4> QED  BY <1>2, <3>2, <4>1
    <3>4. g <= r
      <4>1. CASE r = hi
        BY <3>2, <4>1
      <4>2. CASE r # hi
        <5>1. r \in lo .. hi - 1
          BY <1>2, <2>1, <4>2
        <5>2. ~(r < g)
          BY <1>2, <2>1, <3>2, <5>1
        <5> QED  BY <1>2, <3>2, <5>1, <5>2
      <4> QED  BY <4>1, <4>2
    <3>5. g \in DOMAIN index.keys
      BY <1>2, <2>1, <3>2, <3>4
    <3>6. index.keys[g] \in Int /\ index.keys[g] <= index.keys[r]
      BY <2>1, <3>4, <3>5, WindowFacts
    <3>7. ~(index.keys[g] < KeyAt(q))
      <4>1. CASE g = hi
        <5>1. r = g
          BY <1>2, <2>1, <3>2, <3>4, <4>1
        <5> QED  BY <1>2, <2>1, <5>1
      <4>2. CASE g # hi
        <5>1. g \in lo .. hi - 1 /\ ~(g < g)
          BY <1>2, <3>2, <4>2
        <5> QED  BY <3>2, <5>1
      <4> QED  BY <4>1, <4>2
    <3>8. index.keys[g] = KeyAt(q)
      BY <1>2, <2>1, <3>6, <3>7
    <3> QED  BY <1>3, <1>5, <3>3, <3>5, <3>8
  <2> QED  BY <2>2, <2>3
<1> QED  BY <1>1, <1>4, <1>5

(* The window of a search that has k halvings left. *)
Narrow(w, f, k) == w.hi - w.lo < f[k]

LEMMA NarrowHalves ==
  ASSUME WindowCallOK, NEW q \in QueryIdx, NEW w, Search(q, w),
         NEW f, Powers(f), NEW k \in Nat, Narrow(w, f, k + 1)
  PROVE  Narrow(Windows!Halved(q, w), f, k)
<1>1. PICK e : e = f[k] /\ e \in Nat \ {0} /\ f[k + 1] = 2 * e
  BY DEF Powers
<1>2. w.hi - w.lo < 2 * e
  BY <1>1 DEF Narrow
<1>3. Windows!Halved(q, w).hi - Windows!Halved(q, w).lo < e \/ e = 0
  BY <1>1, <1>2, SearchHalves
<1> QED  BY <1>1, <1>3 DEF Narrow

LEMMA NarrowClosed ==
  ASSUME NEW q, NEW w, Search(q, w), NEW f, Powers(f), Narrow(w, f, 0)
  PROVE  ~Windows!Open(w)
<1>1. w.lo \in Nat /\ w.hi \in Nat /\ w.hi - w.lo < 1
  BY DEF Search, Powers, Narrow
<1> QED  BY <1>1 DEF Windows!Open

(* A halving leaves a closed window alone, and one without positions too. *)
LEMMA HalvedKeeps ==
  ASSUME NEW q, NEW w, w \in [lo : Nat, hi : Nat]
  PROVE  Windows!Halved(q, w) \in [lo : Nat, hi : Nat]
<1>1. w.lo \in Nat /\ w.hi \in Nat
  OBVIOUS
<1>2. Windows!Mid(w) \in Nat
  BY <1>1 DEF Windows!Mid
<1> QED  BY <1>2 DEF Windows!Halved

(* A step that leaves the index and the batch alone changes no search. *)
LEMMA SearchKept ==
  ASSUME UNCHANGED <<index, queries>>
  PROVE  /\ n' = n /\ QueryIdx' = QueryIdx /\ Windows!Items' = Windows!Items
         /\ Windows!Size(index)' = Windows!Size(index)
         /\ \A q : Windows!Window(q)' = Windows!Window(q)
         /\ \A q, w : Search(q, w)' <=> Search(q, w)
         /\ \A q, w : Windows!Halved(q, w)' = Windows!Halved(q, w)
<1>1. n' = n /\ QueryIdx' = QueryIdx /\ Windows!Items' = Windows!Items
  BY DEF n, QueryIdx, Windows!Items
<1>2. Windows!Size(index)' = Windows!Size(index)
  BY DEF Windows!Size, Windows!Cardinality
<1>3. \A q : Windows!KeyAt(q)' = Windows!KeyAt(q)
  BY DEF Windows!KeyAt
<1>4. \A q : Windows!Window(q)' = Windows!Window(q)
  BY <1>3 DEF Windows!Window
<1>5. \A q : Windows!Goal(q)' = Windows!Goal(q)
  <2> TAKE q
  <2>1. PICK lo, hi, key : /\ lo = Windows!Window(q).lo /\ hi = Windows!Window(q).hi
                           /\ key = Windows!KeyAt(q)
    OBVIOUS
  <2>2. Windows!Goal(q) = lo + Windows!Cardinality({p \in lo .. hi - 1 : index.keys[p] < key})
    BY <2>1 DEF Windows!Goal
  <2>3. Windows!Goal(q)' = lo + Windows!Cardinality({p \in lo .. hi - 1 : index.keys[p] < key})
    BY <1>3, <1>4, <2>1 DEF Windows!Goal
  <2> QED  BY <2>2, <2>3
<1>6. \A q, w : Search(q, w)' <=> Search(q, w)
  BY <1>4, <1>5 DEF Search, Windows!OnTrack, Windows!Open
<1>7. \A q, w : Windows!Halved(q, w)' = Windows!Halved(q, w)
  BY <1>3 DEF Windows!Halved, Windows!Open, Windows!Mid
<1> QED  BY <1>1, <1>2, <1>4, <1>6, <1>7

LEMMA WindowCallUnchanged ==
  ASSUME UNCHANGED <<index, queries, found, results>>
  PROVE  /\ WindowCallOK' <=> WindowCallOK
         /\ \A A : AnswersRight(Windows!Items, A)' <=> AnswersRight(Windows!Items, A)
<1>1. Windows!Items' = Windows!Items /\ UNCHANGED <<queries, found, results>>
  BY DEF Windows!Items
<1>2. \A A : AnswersRight(Windows!Items, A)' <=> AnswersRight(Windows!Items, A)
  BY <1>1 DEF AnswersRight, RightAnswer, Unanswered, QueryIdx, n, KeyAt
<1> QED  BY <1>1, <1>2, OutsUnchanged DEF WindowCallOK

(* Queries whose searches end at the positions given are answered, and no   *)
(* others.                                                                 *)
LEMMA WindowCollectStep ==
  ASSUME WindowCallOK, UNCHANGED <<index, queries>>, NEW A, AnswersRight(Windows!Items, A),
         NEW Qs, Qs \subseteq QueryIdx, Qs \cap A = {}, NEW slots, DOMAIN slots = Qs,
         \A q \in Qs : \E w : Search(q, w) /\ ~Windows!Open(w) /\ slots[q] = w.lo,
         Windows!Collect(slots)
  PROVE  /\ WindowCallOK' /\ Answers(Windows!Items, A, Qs)
         /\ AnswersRight(Windows!Items, A \cup Qs)'
<1>1. PICK items : items = Windows!Items
  OBVIOUS
<1>2. PICK hits : hits = [q \in {x \in Qs : Windows!IsHit(x, slots[x])} |-> index.values[slots[q]]]
  OBVIOUS
<1>3. Settle(hits) /\ DOMAIN hits \subseteq Qs
  <2>1. Windows!Settle(hits)
    BY <1>2 DEF Windows!Collect
  <2> QED  BY <1>2, <2>1, WindowsSame
<1>4. HitsRight(items, Qs, hits)
  <2> SUFFICES ASSUME NEW q \in Qs
               PROVE  IF q \in DOMAIN hits THEN <<KeyAt(q), hits[q]>> \in items
                      ELSE \A item \in items : item[1] # KeyAt(q)
    BY DEF HitsRight
  <2>1. PICK w : Search(q, w) /\ ~Windows!Open(w) /\ slots[q] = w.lo
    OBVIOUS
  <2>2. q \in DOMAIN hits <=> Windows!IsHit(q, w.lo)
    BY <1>2, <2>1
  <2>3. q \in DOMAIN hits => hits[q] = index.values[w.lo]
    BY <1>2, <2>1
  <2>4. IF Windows!IsHit(q, w.lo) THEN <<KeyAt(q), index.values[w.lo]>> \in Windows!Items
        ELSE \A item \in Windows!Items : item[1] # KeyAt(q)
    BY <2>1, SearchEnds
  <2> QED  BY <1>1, <2>2, <2>3, <2>4
<1>5. AnswersRight(items, A) /\ OutsOK
  BY <1>1 DEF WindowCallOK
<1>6. Answers(items, A, Qs)
  BY <1>3, <1>4, <1>5, SettleStep
<1>7. WindowCallOK'
  BY <1>6 DEF WindowCallOK, Answers
<1>8. AnswersRight(Windows!Items, A \cup Qs)'
  <2>1. Windows!Items' = items
    BY <1>1, SearchKept
  <2> QED  BY <1>6, <2>1 DEF AnswersRight, RightAnswer, Answers
<1> QED  BY <1>1, <1>6, <1>7, <1>8

(* In an empty index every query has its answer before the call.            *)
LEMMA EmptyIndexAnswers ==
  ASSUME WindowCallOK, Windows!Size(index) = 0
  PROVE  /\ Windows!Items = {}
         /\ \A A, B : AnswersRight(Windows!Items, A) <=> AnswersRight(Windows!Items, B)
<1>1. Windows!SoundIndex(index)
  BY AnyIndexSound DEF WindowCallOK
<1>2. DOMAIN index.keys = {}
  BY <1>1 DEF Windows!SoundIndex, Windows!SortedOK
<1>3. Windows!Items = {}
  BY <1>2 DEF Windows!Items
<1> QED  BY <1>3 DEF AnswersRight, RightAnswer, Unanswered

(* The stored pairs are keys with values. *)
LEMMA ItemPairs == ASSUME index \in AnyIndex PROVE Windows!Items \in SUBSET (Key \X Value)
<1>1. Windows!SoundIndex(index)
  BY AnyIndexSound
<1> QED  BY <1>1 DEF Windows!SoundIndex, Windows!SortedOK, Windows!Items

(* Where nothing is stored, all queries are answered by writing nothing.    *)
LEMMA EmptyAnswered ==
  ASSUME WindowCallOK, Windows!Size(index) = 0, UNCHANGED <<index, queries, found, results>>,
         NEW A, AnswersRight(Windows!Items, A)
  PROVE  Answers(Windows!Items, A, QueryIdx)
<1>1. PICK items : items = Windows!Items
  OBVIOUS
<1>2. items = {} /\ AnswersRight(items, QueryIdx) /\ OutsOK
  BY <1>1, EmptyIndexAnswers DEF WindowCallOK
<1>3. n' = n /\ QueryIdx' = QueryIdx /\ OutsOK' /\ \A q : KeyAt(q)' = KeyAt(q)
  BY <1>2, OutsUnchanged
<1>4. Answers(items, A, QueryIdx)
  BY <1>2, <1>3 DEF Answers, AnswersRight, RightAnswer, Unanswered
<1>5. Windows!Items' = items
  BY <1>1, SearchKept
<1> QED  BY <1>1, <1>4, <1>5 DEF Answers, AnswersRight, RightAnswer

-----------------------------------------------------------------------------
(* RS and PGM AMAC.                                                        *)

LEMMA MachinesSame ==
  /\ Machines!n = n /\ Machines!QueryIdx = QueryIdx /\ Machines!args = <<index, queries>> /\ Machines!outs = outs
  /\ Machines!Items = Windows!Items /\ Machines!data_size = Windows!Size(index)
  /\ \A q : Machines!Window(q) = Windows!Window(q)
  /\ \A w : Machines!Open(w) <=> Windows!Open(w)
  /\ \A q, w : Machines!Halved(q, w) = Windows!Halved(q, w)
  /\ \A q, w : Machines!OnTrack(q, w) <=> Windows!OnTrack(q, w)
  /\ \A slots : Machines!Collect(slots) <=> Windows!Collect(slots)
  /\ \A items, A : Machines!AnswersRight(items, A) <=> AnswersRight(items, A)
  /\ \A a, b : Machines!Min2(a, b) = Min2(a, b)
  /\ \A S : Machines!Cardinality(S) = Cardinality(S)
<1>1. /\ Machines!n = n /\ Machines!QueryIdx = QueryIdx /\ Machines!args = <<index, queries>> /\ Machines!outs = outs
      /\ Machines!Items = Windows!Items
  BY DEF Machines!n, n, Machines!QueryIdx, QueryIdx, Machines!args, Machines!outs, outs, Machines!Items, Windows!Items
<1>2. \A q : Machines!KeyAt(q) = KeyAt(q) /\ Windows!KeyAt(q) = KeyAt(q)
  BY DEF Machines!KeyAt, KeyAt, Windows!KeyAt
<1>3. \A S : Machines!Cardinality(S) = Cardinality(S) /\ Windows!Cardinality(S) = Cardinality(S)
  BY DEF Machines!Cardinality, Cardinality, Windows!Cardinality
<1>4. Machines!Size(index) = Windows!Size(index) /\ Machines!data_size = Windows!Size(index)
      /\ Windows!data_size = Windows!Size(index)
  BY <1>3 DEF Machines!Size, Windows!Size, Machines!data_size, Windows!data_size
<1>5. \A q : Machines!Window(q) = Windows!Window(q)
  BY <1>2 DEF Machines!Window, Windows!Window
<1>6. \A w : (Machines!Open(w) <=> Windows!Open(w)) /\ Machines!Mid(w) = Windows!Mid(w)
  BY DEF Machines!Open, Windows!Open, Machines!Mid, Windows!Mid
<1>7. \A q, w : Machines!Halved(q, w) = Windows!Halved(q, w)
  BY <1>2, <1>6 DEF Machines!Halved, Windows!Halved
<1>8. \A q : Machines!Goal(q) = Windows!Goal(q)
  BY <1>2, <1>3, <1>5 DEF Machines!Goal, Windows!Goal
<1>9. \A q, w : Machines!OnTrack(q, w) <=> Windows!OnTrack(q, w)
  BY <1>5, <1>6, <1>8 DEF Machines!OnTrack, Windows!OnTrack
<1>10. \A q, s : Machines!IsHit(q, s) <=> Windows!IsHit(q, s)
  BY <1>2, <1>4 DEF Machines!IsHit, Windows!IsHit
<1>11. ASSUME NEW slots PROVE Machines!Collect(slots) <=> Windows!Collect(slots)
  <2>1. {x \in DOMAIN slots : Machines!IsHit(x, slots[x])} = {x \in DOMAIN slots : Windows!IsHit(x, slots[x])}
    BY <1>10
  <2>2. \A hits : Machines!Settle(hits) <=> Windows!Settle(hits)
    BY <1>1, WindowsSame DEF Machines!Settle, Windows!Settle
  <2> QED  BY <2>1, <2>2 DEF Machines!Collect, Windows!Collect
<1>12. \A items, A : Machines!AnswersRight(items, A) <=> AnswersRight(items, A)
  BY <1>1, <1>2 DEF Machines!AnswersRight, AnswersRight, Machines!RightAnswer, RightAnswer, Machines!Unanswered, Unanswered
<1>13. \A a, b : Machines!Min2(a, b) = Min2(a, b)
  BY DEF Machines!Min2, Min2
<1> QED  BY <1>1, <1>3, <1>4, <1>5, <1>6, <1>7, <1>9, <1>11, <1>12, <1>13

(* The steps of the search close every window that is predicted. *)
LEMMA MachinesSteps ==
  ASSUME WindowCallOK
  PROVE  /\ Powers(Machines!pow2) /\ Machines!BSEARCH_STEPS \in Nat \ {0}
         /\ \A q \in QueryIdx : Narrow(Windows!Window(q), Machines!pow2, Machines!BSEARCH_STEPS)
<1>1. Machines!pow2 = [e \in Nat |-> IF e = 0 THEN 1 ELSE 2 * Machines!pow2[e - 1]]
  <2>1. \E f : f = [e \in Nat |-> IF e = 0 THEN 1 ELSE 2 * f[e - 1]]
    BY PowersDefined
  <2> QED  BY <2>1, Zenon DEF Machines!pow2
<1>2. Powers(Machines!pow2) /\ \A e \in Nat : Machines!pow2[e] > e
  BY <1>1, PowersFacts
<1>3. index.error \in Nat
  BY AnyIndexSound DEF WindowCallOK, Windows!SoundIndex
<1>4. PICK m : m = 2 * index.error + 2 /\ m \in Nat \ {0}
  BY <1>3
<1>5. \E s \in 1 .. m + 1 : Machines!pow2[s - 1] <= m /\ m < Machines!pow2[s]
  BY <1>2, <1>4, StepsExist
<1>6. Machines!BSEARCH_STEPS \in 1 .. m + 1 /\ m < Machines!pow2[Machines!BSEARCH_STEPS]
  <2>1. Machines!BSEARCH_STEPS = CHOOSE s \in 1 .. m + 1 : Machines!pow2[s - 1] <= m /\ m < Machines!pow2[s]
    BY <1>4 DEF Machines!BSEARCH_STEPS, Machines!calc_steps
  <2> QED  BY <1>5, <2>1
<1>7. Machines!BSEARCH_STEPS \in Nat \ {0} /\ Machines!pow2[Machines!BSEARCH_STEPS] \in Nat
  BY <1>2, <1>4, <1>6 DEF Powers
<1>8. ASSUME NEW q \in QueryIdx PROVE Narrow(Windows!Window(q), Machines!pow2, Machines!BSEARCH_STEPS)
  <2>1. Windows!Window(q).hi - Windows!Window(q).lo <= m /\ Windows!Window(q) \in [lo : Nat, hi : Nat]
    BY <1>4, WindowFacts
  <2>2. PICK d, f : d = Windows!Window(q).hi - Windows!Window(q).lo /\ d \in Int /\ f = Machines!pow2[Machines!BSEARCH_STEPS]
    BY <2>1
  <2>3. d <= m /\ m < f /\ f \in Nat
    BY <1>6, <1>7, <2>1, <2>2
  <2>4. d < f
    BY <1>4, <2>2, <2>3
  <2> QED  BY <2>2, <2>4 DEF Narrow
<1> QED  BY <1>2, <1>7, <1>8

(* A step that answers the queries Qs is one of the abstract lookup.        *)
LEMMA MachinesAnswer ==
  ASSUME WindowCallOK, UNCHANGED <<index, queries>>, NEW A, NEW Qs, Qs # {},
         A \cup Qs \subseteq QueryIdx, Qs \cap A = {}, Answers(Windows!Items, A, Qs),
         Machines!Answered = A, Machines!Answered' = A \cup Qs
  PROVE  Machines!Abstract!Answer
<1>1. Machines!Items = Windows!Items /\ Machines!Items' = Windows!Items /\ Windows!Items' = Windows!Items
  BY DEF Machines!Items, Windows!Items
<1>2. PICK items : items = Windows!Items
  OBVIOUS
<1>3. \A q \in Qs : Machines!Abstract!RightAnswer(q)'
  BY <1>1, <1>2 DEF Answers, RightAnswer, KeyAt, Machines!Abstract!RightAnswer, Machines!Abstract!KeyAt
<1>4. DOMAIN found' = QueryIdx /\ DOMAIN results' = QueryIdx
  BY DEF Answers, OutsOK
<1>5. \A q \in QueryIdx \ Qs : found'[q] = found[q] /\ results'[q] = results[q]
  BY DEF Answers
<1>6. QueryIdx = 0 .. Len(queries) - 1
  BY DEF QueryIdx, n
<1> QED  BY <1>1, <1>3, <1>4, <1>5, <1>6 DEF Machines!Abstract!Answer, Machines!Abstract!Positions

MachineType == [state : {"DONE", "INIT", "SEARCH", "BSEARCH"}, i : Nat, lo : Nat, hi : Nat,
                step : Nat, level : Nat]
Searches(m) == /\ Search(m.i, Machines!Of(m))
               /\ m.step <= Machines!BSEARCH_STEPS
               /\ Narrow(Machines!Of(m), Machines!pow2, Machines!BSEARCH_STEPS - m.step)

MachinesCarried == [j \in Slots |-> pool[j].i]

MachinesTypeOK ==
  /\ WindowCallOK
  /\ pc \in {"start", "loop", "visit", "returned"}
  /\ pool \in [Slots -> MachineType]
  /\ next_query_idx \in 0 .. n
  /\ i \in Nat

(* As for LIPP; a search has kept its goal, and halvings enough. *)
MachinesIInv ==
  /\ MachinesTypeOK
  /\ pc = "start" => next_query_idx = 0 /\ Machines!Busy = {}
  /\ pc = "visit" => i \in Slots
  /\ OneEach(Machines!Busy, MachinesCarried, next_query_idx)
  /\ \A j \in Machines!Busy : pool[j].state = "BSEARCH" => Searches(pool[j])
  /\ finished = Cardinality(Machines!Settled)
  /\ AnswersRight(Windows!Items, Machines!Settled)
  /\ pc = "returned" => Machines!Settled = QueryIdx \/ Windows!Size(index) = 0

LEMMA MachinesSlots == Machines!Slots = Slots
BY DEF Machines!Slots, Slots

LEMMA MachinesSettledLanded ==
  /\ Machines!Settled = Landed(Machines!Busy, MachinesCarried, next_query_idx)
  /\ Machines!Settled' = Landed(Machines!Busy', MachinesCarried', next_query_idx')
BY MachinesSlots DEF Machines!Settled, Machines!InFlight, Landed, MachinesCarried, Machines!Busy

LEMMA MachinesSettledCounted ==
  ASSUME MachinesTypeOK
  PROVE  /\ n \in Nat /\ QueryIdx = 0 .. n - 1
         /\ Machines!Settled \subseteq QueryIdx /\ IsFiniteSet(Machines!Settled)
         /\ Cardinality(Machines!Settled) \in Nat
         /\ Cardinality(Machines!Settled) >= n => Machines!Settled = QueryIdx
<1>1. n \in Nat /\ QueryIdx = 0 .. n - 1
  BY BatchFacts DEF MachinesTypeOK, WindowCallOK
<1>2. Machines!Settled \subseteq QueryIdx
  BY <1>1 DEF Machines!Settled, MachinesTypeOK
<1>3. /\ IsFiniteSet(Machines!Settled)
      /\ Cardinality(Machines!Settled) \in Nat
      /\ Cardinality(Machines!Settled) <= n
      /\ Cardinality(Machines!Settled) = n => Machines!Settled = QueryIdx
  BY <1>2, PositionsFinite DEF MachinesTypeOK, WindowCallOK
<1> QED  BY <1>1, <1>2, <1>3

(* A step that leaves the index and the batch alone leaves the searches alone. *)
LEMMA SearchesKept ==
  ASSUME UNCHANGED <<index, queries>>
  PROVE  /\ \A m : Searches(m)' <=> Searches(m)
         /\ Machines!BSEARCH_STEPS' = Machines!BSEARCH_STEPS
<1>1. Machines!BSEARCH_STEPS' = Machines!BSEARCH_STEPS
  BY DEF Machines!BSEARCH_STEPS
<1>2. \A q, w : Search(q, w)' <=> Search(q, w)
  BY SearchKept
<1> QED  BY <1>1, <1>2 DEF Searches

LEMMA MachinesVisitFacts ==
  ASSUME MachinesIInv, Machines!VisitCommon
  PROVE  /\ UNCHANGED <<index, queries>> /\ n' = n /\ QueryIdx' = QueryIdx /\ i \in Slots
         /\ pc = "visit" /\ pc' \in {"loop", "visit"} /\ i' \in Nat /\ (pc' = "visit" => i' \in Slots)
         /\ next_query_idx' \in 0 .. n
         /\ next_query_idx' = IF Machines!Refill THEN next_query_idx + 1 ELSE next_query_idx
<1>1. n \in Nat /\ next_query_idx \in 0 .. n /\ pc = "visit" /\ i \in Slots /\ i \in Nat
  BY MachinesSettledCounted DEF MachinesIInv, MachinesTypeOK, Machines!VisitCommon
<1>2. i' = i + 1 /\ pc' = IF i + 1 = POOL_SIZE THEN "loop" ELSE "visit"
  BY DEF Machines!VisitCommon
<1>3. UNCHANGED <<index, queries>> /\ n' = n /\ QueryIdx' = QueryIdx
  BY DEF Machines!VisitCommon, Machines!args, n, QueryIdx
<1>4. pc' = "visit" => i' \in Slots
  BY <1>1, <1>2, PoolAssumption DEF Slots
<1>5. next_query_idx' = IF Machines!Refill THEN next_query_idx + 1 ELSE next_query_idx
  BY DEF Machines!VisitCommon
<1>6. next_query_idx' \in 0 .. n
  BY <1>1, <1>5, MachinesSame DEF Machines!Refill
<1> QED  BY <1>1, <1>2, <1>3, <1>4, <1>5, <1>6

(* The machine that is visited, when it is not done, carries a query. *)
LEMMA MachinesMachineCarries ==
  ASSUME MachinesIInv, Machines!VisitCommon, Machines!Machine.state # "DONE"
  PROVE  /\ Carries(i, Machines!Machine.i, Machines!Busy, MachinesCarried, next_query_idx, next_query_idx')
         /\ Machines!Machine.i \in QueryIdx
         /\ Machines!Machine \in MachineType
         /\ Machines!Machine.state # "INIT" => Machines!Machine = pool[i]
         /\ Machines!Machine.state = "BSEARCH" => Searches(Machines!Machine)
<1>1. /\ i \in Slots /\ next_query_idx \in 0 .. n /\ n \in Nat /\ QueryIdx = 0 .. n - 1
      /\ next_query_idx' = IF Machines!Refill THEN next_query_idx + 1 ELSE next_query_idx
  BY MachinesSettledCounted, MachinesVisitFacts DEF MachinesIInv, MachinesTypeOK
<1>2. pool[i] \in MachineType
  BY <1>1 DEF MachinesIInv, MachinesTypeOK
<1>3. CASE Machines!Refill
  <2>1. Machines!Machine = [state |-> "INIT", i |-> next_query_idx, lo |-> 1, hi |-> 0, step |-> 0, level |-> 0]
    BY <1>3 DEF Machines!Machine, Machines!Dealt, Machines!Idle
  <2>2. i \notin Machines!Busy /\ next_query_idx < n
    BY <1>3, MachinesSame DEF Machines!Busy, Machines!Refill
  <2>3. Machines!Machine \in MachineType
    BY <1>1, <2>1 DEF MachineType
  <2>4. Machines!Machine.i = next_query_idx /\ Machines!Machine.state = "INIT"
    BY <2>1
  <2>5. Carries(i, Machines!Machine.i, Machines!Busy, MachinesCarried, next_query_idx, next_query_idx')
    BY <1>1, <1>3, <2>2, <2>4 DEF Carries
  <2> QED  BY <1>1, <2>2, <2>3, <2>4, <2>5
<1>4. CASE ~Machines!Refill
  <2>1. Machines!Machine = pool[i] /\ i \in Machines!Busy /\ pool[i].i = MachinesCarried[i]
    BY <1>1, <1>4, MachinesSlots DEF Machines!Machine, Machines!Busy, MachinesCarried
  <2>2. MachinesCarried[i] \in 0 .. next_query_idx - 1
    BY <2>1 DEF MachinesIInv, OneEach
  <2>3. pool[i].i \in QueryIdx
    BY <1>1, <2>1, <2>2
  <2>4. Carries(i, pool[i].i, Machines!Busy, MachinesCarried, next_query_idx, next_query_idx')
    BY <1>1, <1>4, <2>1 DEF Carries
  <2>5. pool[i].state = "BSEARCH" => Searches(pool[i])
    BY <2>1 DEF MachinesIInv
  <2> QED  BY <1>2, <2>1, <2>3, <2>4, <2>5
<1> QED  BY <1>3, <1>4

LEMMA MachinesInitInv == Machines!Init => MachinesIInv
<1> SUFFICES ASSUME Machines!Init PROVE MachinesIInv
  OBVIOUS
<1>1. index \in AnyIndex /\ queries \in WindowBatches /\ found = [q \in QueryIdx |-> FALSE]
      /\ results = [q \in QueryIdx |-> Stale]
  BY MachinesSame DEF Machines!Init, Machines!ArgsAndOutsInit, Machines!LookupInit
<1>2. WindowCallOK
  BY <1>1, WindowBatchesAssumption DEF WindowCallOK, OutsOK
<1>3. n \in Nat /\ QueryIdx = 0 .. n - 1
  BY <1>2, BatchFacts DEF WindowCallOK
<1>4. MachinesTypeOK
  BY <1>2, <1>3, MachinesSlots DEF Machines!Init, MachinesTypeOK, Machines!Idle, MachineType
<1>5. next_query_idx = 0 /\ Machines!Busy = {} /\ Machines!Settled = {}
  BY DEF Machines!Init, Machines!Busy, Machines!Idle, Machines!Settled
<1>6. finished = Cardinality(Machines!Settled)
  BY <1>5, FS_EmptySet DEF Machines!Init
<1>7. AnswersRight(Windows!Items, Machines!Settled)
  BY <1>1, <1>5 DEF AnswersRight, Unanswered
<1>8. OneEach(Machines!Busy, MachinesCarried, next_query_idx)
  BY <1>5 DEF OneEach
<1>9. pc = "start"
  BY DEF Machines!Init
<1> QED  BY <1>4, <1>5, <1>6, <1>7, <1>8, <1>9 DEF MachinesIInv

LEMMA MachinesQuietStep ==
  ASSUME MachinesIInv, UNCHANGED <<index, queries, found, results>>, finished' = finished,
         pc' \in {"loop", "visit", "returned"}, pc' = "visit" => i' \in Slots, i' \in Nat,
         next_query_idx' \in 0 .. n, pool' \in [Slots -> MachineType],
         OneEach(Machines!Busy', MachinesCarried', next_query_idx'),
         \A j \in Machines!Busy' : pool'[j].state = "BSEARCH" => Searches(pool'[j]),
         Machines!Settled' = Machines!Settled,
         pc' = "returned" => Machines!Settled = QueryIdx \/ Windows!Size(index) = 0
  PROVE  MachinesIInv'
<1>1. /\ n' = n /\ QueryIdx' = QueryIdx /\ (WindowCallOK' <=> WindowCallOK)
      /\ Windows!Size(index)' = Windows!Size(index)
  BY WindowCallUnchanged, SearchKept
<1>2. MachinesTypeOK'
  BY <1>1 DEF MachinesTypeOK, MachinesIInv
<1>3. (\A j \in Machines!Busy : pool[j].state = "BSEARCH" => Searches(pool[j]))'
  <2>1. Machines!BSEARCH_STEPS' = Machines!BSEARCH_STEPS /\ \A q, w : Search(q, w)' <=> Search(q, w)
    BY SearchKept, SearchesKept
  <2> QED  BY <2>1, SearchesKept
<1>4. AnswersRight(Windows!Items, Machines!Settled)'
  <2>1. AnswersRight(Windows!Items, Machines!Settled)
    BY DEF MachinesIInv
  <2>2. Windows!Items' = Windows!Items
    BY SearchKept
  <2> QED  BY <2>1, <2>2 DEF AnswersRight, RightAnswer, Unanswered, QueryIdx, n, KeyAt
<1>5. finished' = Cardinality(Machines!Settled')
  BY DEF MachinesIInv
<1>6. OneEach(Machines!Busy, MachinesCarried, next_query_idx)'
  BY DEF OneEach
<1> QED  BY <1>1, <1>2, <1>3, <1>4, <1>5, <1>6 DEF MachinesIInv

LEMMA MachineDealt == ASSUME NEW q \in Nat PROVE Machines!Dealt(q) \in MachineType
<1>1. Machines!Idle \in MachineType
  BY DEF Machines!Idle, MachineType
<1>2. PICK m : m = Machines!Idle
  OBVIOUS
<1>3. Machines!Dealt(q) = [m EXCEPT !.state = "INIT", !.i = q]
  BY <1>2 DEF Machines!Dealt
<1> QED  BY <1>1, <1>2, <1>3 DEF MachineType

LEMMA MachinesStart ==
  ASSUME MachinesIInv, Machines!Start
  PROVE  MachinesIInv' /\ [Machines!Abstract!Next]_(Machines!Abstract!vars)
<1>1. UNCHANGED <<index, queries, found, results>> /\ finished' = finished /\ i' = i /\ pc = "start"
  BY DEF Machines!Start, Machines!args, Machines!outs
<1>2. n \in Nat /\ QueryIdx = 0 .. n - 1 /\ next_query_idx = 0 /\ Machines!Busy = {} /\ Machines!Settled = {}
  BY <1>1, MachinesSettledCounted DEF MachinesIInv, Machines!Settled
<1>3. Machines!QueryIdx = QueryIdx /\ Machines!QueryIdx' = QueryIdx
  BY <1>1, MachinesSame DEF Machines!QueryIdx, Machines!n, QueryIdx, n
<1>4. Machines!Items' = Machines!Items
  BY <1>1 DEF Machines!Items
<1>5. CASE Windows!Size(index) = 0 \/ n = 0
  <2>1. pc' = "returned" /\ pool' = pool /\ next_query_idx' = next_query_idx
    BY <1>5, MachinesSame DEF Machines!Start
  <2>2. /\ Machines!Busy' = Machines!Busy /\ MachinesCarried' = MachinesCarried
        /\ Machines!Settled' = Machines!Settled
    BY <2>1 DEF Machines!Busy, MachinesCarried, Machines!Settled, Machines!InFlight, Machines!Slots
  <2>3. n = 0 => QueryIdx = {}
    BY <1>2
  <2>4. MachinesIInv'
    BY <1>1, <1>2, <1>5, <2>1, <2>2, <2>3, MachinesQuietStep DEF MachinesIInv, MachinesTypeOK
  <2>5. Machines!Answered = {} /\ Machines!Answered' = QueryIdx
    BY <1>1, <1>2, <1>3, <2>1 DEF Machines!Answered
  <2>6. CASE QueryIdx = {}
    <3>1. UNCHANGED Machines!Abstract!vars
      BY <1>1, <1>4, <2>5, <2>6 DEF Machines!Abstract!vars
    <3> QED  BY <2>4, <3>1
  <2>7. CASE QueryIdx # {}
    <3>1. Windows!Size(index) = 0 /\ WindowCallOK /\ AnswersRight(Windows!Items, {})
      BY <1>2, <1>5, <2>3, <2>7 DEF MachinesIInv, MachinesTypeOK
    <3>2. Answers(Windows!Items, {}, QueryIdx)
      BY <1>1, <3>1, EmptyAnswered
    <3>3. Machines!Answered' = {} \cup QueryIdx
      BY <2>5
    <3>4. Machines!Abstract!Answer
      BY <1>1, <2>5, <2>7, <3>1, <3>2, <3>3, MachinesAnswer
    <3> QED  BY <2>4, <3>4 DEF Machines!Abstract!Next
  <2> QED  BY <2>6, <2>7
<1>6. CASE ~(Windows!Size(index) = 0 \/ n = 0)
  <2>1. /\ pc' = "loop" /\ next_query_idx' = Min2(POOL_SIZE, n)
        /\ pool' = [j \in Slots |-> IF j < n THEN Machines!Dealt(j) ELSE Machines!Idle]
    BY <1>6, MachinesSame, MachinesSlots DEF Machines!Start
  <2>2. /\ Machines!Busy' = {j \in 0 .. POOL_SIZE - 1 : j < n}
        /\ \A j \in Machines!Busy' : MachinesCarried'[j] = j /\ pool'[j].state = "INIT"
    BY <2>1 DEF Machines!Busy, MachinesCarried, Machines!Dealt, Machines!Idle, Machines!Slots, Slots
  <2>3. /\ next_query_idx' \in 0 .. n /\ OneEach(Machines!Busy', MachinesCarried', next_query_idx')
        /\ Landed(Machines!Busy', MachinesCarried', next_query_idx') = {}
    BY <1>2, <2>1, <2>2, FirstDeal, PoolAssumption
  <2>4. Machines!Settled' = Machines!Settled
    BY <1>2, <2>3, MachinesSettledLanded
  <2>5. pool' \in [Slots -> MachineType]
    <3>1. Machines!Idle \in MachineType
      BY DEF Machines!Idle, MachineType
    <3> QED  BY <2>1, <3>1, MachineDealt DEF Slots
  <2>6. MachinesIInv'
    BY <1>1, <2>1, <2>2, <2>3, <2>4, <2>5, MachinesQuietStep DEF MachinesIInv, MachinesTypeOK
  <2>7. UNCHANGED Machines!Abstract!vars
    BY <1>1, <1>4, <2>1, <2>4 DEF Machines!Abstract!vars, Machines!Answered
  <2> QED  BY <2>6, <2>7
<1> QED  BY <1>5, <1>6

LEMMA MachinesLoopTest ==
  ASSUME MachinesIInv, Machines!LoopTest
  PROVE  /\ MachinesIInv' /\ UNCHANGED <<index, queries, found, results>>
         /\ Machines!Answered' = Machines!Answered
<1>1. /\ UNCHANGED <<index, queries, found, results>> /\ UNCHANGED <<pool, next_query_idx, finished>>
      /\ pc = "loop" /\ pc' = (IF finished < n THEN "visit" ELSE "returned") /\ i' = 0
  BY MachinesSame DEF Machines!LoopTest, Machines!args, Machines!outs
<1>2. /\ Machines!Busy' = Machines!Busy /\ MachinesCarried' = MachinesCarried
      /\ Machines!Settled' = Machines!Settled
  BY <1>1 DEF Machines!Busy, MachinesCarried, Machines!Settled, Machines!InFlight, Machines!Slots
<1>3. pc' = "returned" => Machines!Settled = QueryIdx
  BY <1>1, MachinesSettledCounted DEF MachinesIInv
<1>4. 0 \in Slots
  BY PoolAssumption DEF Slots
<1>5. MachinesIInv'
  <2>1. \A j \in Machines!Busy' : pool'[j].state = "BSEARCH" => Searches(pool'[j])
    BY <1>1, <1>2 DEF MachinesIInv
  <2>2. OneEach(Machines!Busy', MachinesCarried', next_query_idx') /\ pool' \in [Slots -> MachineType]
        /\ next_query_idx' \in 0 .. n
    BY <1>1, <1>2 DEF MachinesIInv, MachinesTypeOK
  <2>3. pc' \in {"loop", "visit", "returned"} /\ i' \in Nat /\ (pc' = "visit" => i' \in Slots)
    BY <1>1, <1>4
  <2> QED  BY <1>1, <1>2, <1>3, <2>1, <2>2, <2>3, MachinesQuietStep
<1>6. Machines!QueryIdx' = QueryIdx
  BY <1>1 DEF Machines!QueryIdx, QueryIdx, n, Machines!n
<1> QED  BY <1>1, <1>2, <1>3, <1>5, <1>6 DEF Machines!Answered

(* The machine visited stays busy with its query. *)
LEMMA MachinesMoves ==
  ASSUME MachinesIInv, Machines!VisitCommon, UNCHANGED <<found, results, finished>>,
         Machines!Machine.state # "DONE",
         NEW m \in MachineType, m.state # "DONE", m.i = Machines!Machine.i,
         m.state = "BSEARCH" => Searches(m), pool' = [pool EXCEPT ![i] = m]
  PROVE  /\ MachinesIInv' /\ UNCHANGED <<index, queries, found, results>>
         /\ Machines!Answered' = Machines!Answered
<1>1. /\ UNCHANGED <<index, queries>> /\ n' = n /\ QueryIdx' = QueryIdx /\ pc = "visit" /\ i \in Slots
      /\ pc' \in {"loop", "visit"} /\ i' \in Nat /\ (pc' = "visit" => i' \in Slots)
      /\ next_query_idx' \in 0 .. n
  BY MachinesVisitFacts
<1>2. PICK q : q = Machines!Machine.i
  OBVIOUS
<1>3. Carries(i, q, Machines!Busy, MachinesCarried, next_query_idx, next_query_idx')
  BY <1>2, MachinesMachineCarries
<1>4. pool \in [Slots -> MachineType] /\ DOMAIN pool = Slots /\ next_query_idx \in Nat
  BY DEF MachinesIInv, MachinesTypeOK
<1>5. pool' \in [Slots -> MachineType] /\ pool'[i] = m /\ \A j \in Slots : j # i => pool'[j] = pool[j]
  BY <1>1, <1>4
<1>6. /\ Machines!Busy' = Machines!Busy \cup {i} /\ MachinesCarried'[i] = q
      /\ OthersKept(i, Machines!Busy, MachinesCarried, MachinesCarried')
  BY <1>1, <1>2, <1>5, MachinesSlots DEF Machines!Busy, MachinesCarried, OthersKept
<1>7. OneEach(Machines!Busy, MachinesCarried, next_query_idx)
  BY DEF MachinesIInv
<1>8. /\ OneEach(Machines!Busy \cup {i}, MachinesCarried', next_query_idx')
      /\ Landed(Machines!Busy \cup {i}, MachinesCarried', next_query_idx')
         = Landed(Machines!Busy, MachinesCarried, next_query_idx)
  BY <1>3, <1>4, <1>6, <1>7, SlotGoesOn
<1>9. Machines!Settled' = Machines!Settled
  BY <1>6, <1>8, MachinesSettledLanded
<1>10. \A j \in Machines!Busy' : pool'[j].state = "BSEARCH" => Searches(pool'[j])
  <2> TAKE j \in Machines!Busy'
  <2>1. CASE j = i
    BY <1>5, <2>1
  <2>2. CASE j # i
    <3>1. j \in Machines!Busy /\ pool'[j] = pool[j]
      BY <1>5, <1>6, <2>2, MachinesSlots DEF Machines!Busy
    <3> QED  BY <3>1 DEF MachinesIInv
  <2> QED  BY <2>1, <2>2
<1>11. OneEach(Machines!Busy', MachinesCarried', next_query_idx')
  BY <1>6, <1>8
<1>12. MachinesIInv'
  BY <1>1, <1>5, <1>9, <1>10, <1>11, MachinesQuietStep
<1> QED  BY <1>1, <1>9, <1>12 DEF Machines!Answered

LEMMA MachinesVisitInit ==
  ASSUME MachinesIInv, Machines!VisitInit
  PROVE  /\ MachinesIInv' /\ UNCHANGED <<index, queries, found, results>>
         /\ Machines!Answered' = Machines!Answered
<1>1. Machines!VisitCommon /\ UNCHANGED <<found, results, finished>> /\ Machines!Machine.state = "INIT"
  BY DEF Machines!VisitInit, Machines!outs
<1>2. PICK m : m = [Machines!Machine EXCEPT !.state = "SEARCH", !.level = index.levels - 1]
  OBVIOUS
<1>3. Machines!Machine \in MachineType
  BY <1>1, MachinesMachineCarries
<1>4. index.levels \in Nat \ {0}
  BY AnyIndexSound DEF MachinesIInv, MachinesTypeOK, WindowCallOK, Windows!SoundIndex
<1>5. m \in MachineType /\ m.state = "SEARCH" /\ m.i = Machines!Machine.i
  <2>1. PICK v, e : v = Machines!Machine /\ e = index.levels - 1
    OBVIOUS
  <2>2. v \in MachineType /\ e \in Nat /\ m = [v EXCEPT !.state = "SEARCH", !.level = e]
    BY <1>2, <1>3, <1>4, <2>1
  <2>3. m \in MachineType /\ m.state = "SEARCH" /\ m.i = v.i
    BY <2>2 DEF MachineType
  <2> QED  BY <2>1, <2>3
<1>6. pool' = [pool EXCEPT ![i] = m]
  BY <1>2 DEF Machines!VisitInit
<1> QED  BY <1>1, <1>5, <1>6, MachinesMoves

LEMMA MachinesVisitInternal ==
  ASSUME MachinesIInv, Machines!VisitInternal
  PROVE  /\ MachinesIInv' /\ UNCHANGED <<index, queries, found, results>>
         /\ Machines!Answered' = Machines!Answered
<1>1. /\ Machines!VisitCommon /\ UNCHANGED <<found, results, finished>>
      /\ Machines!Machine.state = "SEARCH" /\ Machines!Machine.level > 0
      /\ pool' = [pool EXCEPT ![i].level = @ - 1]
  BY DEF Machines!VisitInternal, Machines!outs
<1>2. Machines!Machine \in MachineType /\ Machines!Machine = pool[i]
  BY <1>1, MachinesMachineCarries
<1>3. PICK m : m = [pool[i] EXCEPT !.level = @ - 1]
  OBVIOUS
<1>4. m \in MachineType /\ m.state = "SEARCH" /\ m.i = Machines!Machine.i
  BY <1>1, <1>2, <1>3 DEF MachineType
<1>5. pool' = [pool EXCEPT ![i] = m]
  BY <1>1, <1>3
<1> QED  BY <1>1, <1>4, <1>5, MachinesMoves

LEMMA MachinesVisitBottom ==
  ASSUME MachinesIInv, Machines!VisitBottom
  PROVE  /\ MachinesIInv' /\ UNCHANGED <<index, queries, found, results>>
         /\ Machines!Answered' = Machines!Answered
<1>1. PICK q, w : q = Machines!Machine.i /\ w = Windows!Window(q)
  OBVIOUS
<1>2. /\ Machines!VisitCommon /\ UNCHANGED <<found, results, finished>>
      /\ Machines!Machine.state = "SEARCH"
      /\ pool' = [pool EXCEPT ![i] = [@ EXCEPT !.state = "BSEARCH", !.step = 0, !.lo = w.lo, !.hi = w.hi]]
  BY <1>1, MachinesSame DEF Machines!VisitBottom, Machines!outs
<1>3. Machines!Machine \in MachineType /\ Machines!Machine = pool[i] /\ q \in QueryIdx
  BY <1>1, <1>2, MachinesMachineCarries
<1>4. WindowCallOK
  BY DEF MachinesIInv, MachinesTypeOK
<1>5. /\ Search(q, w) /\ w \in [lo : Nat, hi : Nat]
      /\ Machines!BSEARCH_STEPS \in Nat \ {0} /\ Narrow(w, Machines!pow2, Machines!BSEARCH_STEPS)
  BY <1>1, <1>3, <1>4, SearchStarts, WindowFacts, MachinesSteps
<1>6. PICK m : m = [pool[i] EXCEPT !.state = "BSEARCH", !.step = 0, !.lo = w.lo, !.hi = w.hi]
  OBVIOUS
<1>7. /\ m \in MachineType /\ m.state = "BSEARCH" /\ m.i = q /\ m.step = 0
      /\ m.lo = w.lo /\ m.hi = w.hi
  BY <1>1, <1>3, <1>5, <1>6 DEF MachineType
<1>8. Machines!Of(m) = w
  BY <1>5, <1>7 DEF Machines!Of
<1>9. Searches(m)
  <2>1. Machines!BSEARCH_STEPS - m.step = Machines!BSEARCH_STEPS /\ m.step <= Machines!BSEARCH_STEPS
    BY <1>5, <1>7
  <2> QED  BY <1>5, <1>7, <1>8, <2>1 DEF Searches
<1>10. pool' = [pool EXCEPT ![i] = m]
  BY <1>2, <1>6
<1> QED  BY <1>1, <1>2, <1>7, <1>9, <1>10, MachinesMoves

LEMMA MachinesVisitHalves ==
  ASSUME MachinesIInv, Machines!VisitHalves
  PROVE  /\ MachinesIInv' /\ UNCHANGED <<index, queries, found, results>>
         /\ Machines!Answered' = Machines!Answered
<1>1. PICK q, v, w : /\ q = Machines!Machine.i /\ v = Machines!Of(Machines!Machine)
                     /\ w = Windows!Halved(q, v)
  OBVIOUS
<1>2. /\ Machines!VisitCommon /\ UNCHANGED <<found, results, finished>>
      /\ Machines!Machine.state = "BSEARCH" /\ Machines!Machine.step < Machines!BSEARCH_STEPS
      /\ pool' = [pool EXCEPT ![i] = Machines!WithWindow(Machines!Machine, w)]
  BY <1>1, MachinesSame DEF Machines!VisitHalves, Machines!outs
<1>3. Machines!Machine \in MachineType /\ q \in QueryIdx /\ Searches(Machines!Machine)
  BY <1>1, <1>2, MachinesMachineCarries
<1>4. WindowCallOK
  BY DEF MachinesIInv, MachinesTypeOK
<1>5. PICK s, H : s = Machines!Machine.step /\ H = Machines!BSEARCH_STEPS
  OBVIOUS
<1>6. s \in Nat /\ H \in Nat /\ s < H /\ Powers(Machines!pow2)
  BY <1>2, <1>3, <1>4, <1>5, MachinesSteps DEF MachineType
<1>7. Search(q, v) /\ Narrow(v, Machines!pow2, H - s)
  BY <1>1, <1>3, <1>5 DEF Searches
<1>8. H - (s + 1) \in Nat /\ H - s = (H - (s + 1)) + 1 /\ s + 1 <= H
  BY <1>6
<1>9. Search(q, w) /\ Narrow(w, Machines!pow2, H - (s + 1))
  <2>1. Search(q, w)
    BY <1>1, <1>3, <1>4, <1>7, SearchHalves
  <2>2. PICK k \in Nat : k = H - (s + 1) /\ Narrow(v, Machines!pow2, k + 1)
    BY <1>7, <1>8
  <2> QED  BY <1>1, <1>3, <1>4, <1>6, <1>7, <2>1, <2>2, NarrowHalves
<1>10. w \in [lo : Nat, hi : Nat]
  BY <1>9 DEF Search
<1>11. PICK m : m = Machines!WithWindow(Machines!Machine, w)
  OBVIOUS
<1>12. /\ m \in MachineType /\ m.state = "BSEARCH" /\ m.i = q /\ m.step = s + 1
       /\ m.lo = w.lo /\ m.hi = w.hi
  <2>1. PICK u, a, b : u = Machines!Machine /\ a = w.lo /\ b = w.hi
    OBVIOUS
  <2>2. u \in MachineType /\ a \in Nat /\ b \in Nat /\ u.state = "BSEARCH" /\ u.i = q /\ u.step = s
    BY <1>1, <1>2, <1>3, <1>5, <1>10, <2>1
  <2>3. m = [u EXCEPT !.lo = a, !.hi = b, !.step = s + 1]
    BY <1>11, <2>1, <2>2 DEF Machines!WithWindow
  <2>4. PICK t \in Nat : t = s + 1
    BY <1>6
  <2>5. m = [u EXCEPT !.lo = a, !.hi = b, !.step = t]
    BY <2>3, <2>4
  <2>6. m \in MachineType /\ m.state = "BSEARCH" /\ m.i = q /\ m.step = t /\ m.lo = a /\ m.hi = b
    BY <2>2, <2>4, <2>5 DEF MachineType
  <2> QED  BY <2>1, <2>4, <2>6
<1>13. Machines!Of(m) = w
  BY <1>10, <1>12 DEF Machines!Of
<1>14. Searches(m)
  BY <1>5, <1>8, <1>9, <1>12, <1>13 DEF Searches
<1>15. pool' = [pool EXCEPT ![i] = m]
  BY <1>2, <1>11
<1> QED  BY <1>1, <1>2, <1>12, <1>14, <1>15, MachinesMoves

LEMMA MachinesVisitDone ==
  ASSUME MachinesIInv, Machines!VisitDone
  PROVE  /\ MachinesIInv' /\ UNCHANGED <<index, queries, found, results>>
         /\ Machines!Answered' = Machines!Answered
<1>1. /\ Machines!VisitCommon /\ UNCHANGED <<found, results, pool, finished>>
      /\ Machines!Machine.state = "DONE"
  BY DEF Machines!VisitDone, Machines!outs
<1>2. /\ UNCHANGED <<index, queries>> /\ pc = "visit"
      /\ pc' \in {"loop", "visit"} /\ i' \in Nat /\ (pc' = "visit" => i' \in Slots)
      /\ next_query_idx' \in 0 .. n
      /\ next_query_idx' = IF Machines!Refill THEN next_query_idx + 1 ELSE next_query_idx
  BY <1>1, MachinesVisitFacts
<1>3. ~Machines!Refill
  BY <1>1 DEF Machines!Machine, Machines!Dealt
<1>4. /\ Machines!Busy' = Machines!Busy /\ MachinesCarried' = MachinesCarried
      /\ Machines!Settled' = Machines!Settled
  BY <1>1, <1>2, <1>3 DEF Machines!Busy, MachinesCarried, Machines!Settled, Machines!InFlight, Machines!Slots
<1>5. MachinesIInv'
  <2>1. \A j \in Machines!Busy' : pool'[j].state = "BSEARCH" => Searches(pool'[j])
    BY <1>1, <1>4 DEF MachinesIInv
  <2>2. OneEach(Machines!Busy', MachinesCarried', next_query_idx') /\ pool' \in [Slots -> MachineType]
    BY <1>1, <1>2, <1>3, <1>4 DEF MachinesIInv, MachinesTypeOK
  <2> QED  BY <1>1, <1>2, <1>4, <2>1, <2>2, MachinesQuietStep
<1> QED  BY <1>1, <1>2, <1>4, <1>5 DEF Machines!Answered

(* A search that ends answers its query, and no other. *)
LEMMA MachinesVisitEnds ==
  ASSUME MachinesIInv, Machines!VisitEnds
  PROVE  MachinesIInv' /\ Machines!Abstract!Answer
<1>1. PICK q, w : q = Machines!Machine.i /\ w = Machines!Of(Machines!Machine)
  OBVIOUS
<1>2. /\ Machines!VisitCommon /\ Machines!Machine.state = "BSEARCH" /\ finished' = finished + 1
      /\ Machines!Machine.step >= Machines!BSEARCH_STEPS
      /\ pool' = [pool EXCEPT ![i].state = "DONE"]
      /\ Windows!Collect([x \in {q} |-> Machines!Machine.lo])
  BY <1>1, MachinesSame DEF Machines!VisitEnds
<1>3. /\ UNCHANGED <<index, queries>> /\ n' = n /\ QueryIdx' = QueryIdx /\ pc = "visit" /\ i \in Slots
      /\ pc' \in {"loop", "visit"} /\ i' \in Nat /\ (pc' = "visit" => i' \in Slots)
      /\ next_query_idx' \in 0 .. n
  BY <1>2, MachinesVisitFacts
<1>4. /\ Carries(i, q, Machines!Busy, MachinesCarried, next_query_idx, next_query_idx')
      /\ q \in QueryIdx /\ Machines!Machine \in MachineType /\ Machines!Machine = pool[i]
      /\ Searches(Machines!Machine)
  BY <1>1, <1>2, MachinesMachineCarries
<1>5. WindowCallOK /\ AnswersRight(Windows!Items, Machines!Settled)
  BY DEF MachinesIInv, MachinesTypeOK
<1>6. Search(q, w) /\ ~Windows!Open(w) /\ Machines!Machine.lo = w.lo
  <2>1. PICK s, H : s = Machines!Machine.step /\ H = Machines!BSEARCH_STEPS
    OBVIOUS
  <2>2. s \in Nat /\ H \in Nat /\ s >= H /\ s <= H /\ Powers(Machines!pow2)
    BY <1>2, <1>4, <1>5, <2>1, MachinesSteps DEF MachineType, Searches
  <2>3. H - s = 0
    BY <2>2
  <2>4. Search(q, w) /\ Narrow(w, Machines!pow2, 0)
    BY <1>1, <1>4, <2>1, <2>3 DEF Searches
  <2>5. Machines!Machine.lo = w.lo
    BY <1>1 DEF Machines!Of
  <2> QED  BY <2>2, <2>4, <2>5, NarrowClosed
<1>7. pool \in [Slots -> MachineType] /\ DOMAIN pool = Slots /\ next_query_idx \in Nat
  BY DEF MachinesIInv, MachinesTypeOK
<1>8. PICK m : m = [pool[i] EXCEPT !.state = "DONE"]
  OBVIOUS
<1>9. m \in MachineType /\ m.state = "DONE"
  BY <1>4, <1>8 DEF MachineType
<1>10. /\ pool' \in [Slots -> MachineType] /\ pool'[i] = m
       /\ \A j \in Slots : j # i => pool'[j] = pool[j]
  <2>1. pool' = [pool EXCEPT ![i] = m]
    BY <1>2, <1>8
  <2> QED  BY <1>3, <1>7, <1>9, <2>1
<1>11. /\ Machines!Busy' = Machines!Busy \ {i}
       /\ OthersKept(i, Machines!Busy, MachinesCarried, MachinesCarried')
  BY <1>3, <1>9, <1>10, MachinesSlots DEF Machines!Busy, MachinesCarried, OthersKept
<1>12. OneEach(Machines!Busy, MachinesCarried, next_query_idx)
  BY DEF MachinesIInv
<1>13. /\ OneEach(Machines!Busy \ {i}, MachinesCarried', next_query_idx')
       /\ Landed(Machines!Busy \ {i}, MachinesCarried', next_query_idx')
          = Landed(Machines!Busy, MachinesCarried, next_query_idx) \cup {q}
       /\ q \notin Landed(Machines!Busy, MachinesCarried, next_query_idx)
  BY <1>4, <1>7, <1>11, <1>12, SlotEnds
<1>14. Machines!Settled' = Machines!Settled \cup {q} /\ q \notin Machines!Settled
  BY <1>11, <1>13, MachinesSettledLanded
<1>15. /\ Machines!Settled \subseteq QueryIdx /\ IsFiniteSet(Machines!Settled)
       /\ Cardinality(Machines!Settled) \in Nat /\ finished = Cardinality(Machines!Settled)
  BY MachinesSettledCounted DEF MachinesIInv
<1>16. finished' = Cardinality(Machines!Settled')
  BY <1>2, <1>14, <1>15, FS_AddElement
<1>17. /\ WindowCallOK' /\ Answers(Windows!Items, Machines!Settled, {q})
       /\ AnswersRight(Windows!Items, Machines!Settled)'
  <2>1. PICK A, slots : A = Machines!Settled /\ slots = [x \in {q} |-> Machines!Machine.lo]
    OBVIOUS
  <2>2. \A x \in {q} : \E v : Search(x, v) /\ ~Windows!Open(v) /\ slots[x] = v.lo
    BY <1>6, <2>1
  <2>3. AnswersRight(Windows!Items, A) /\ {q} \subseteq QueryIdx /\ {q} \cap A = {}
        /\ DOMAIN slots = {q} /\ Windows!Collect(slots)
    BY <1>2, <1>4, <1>5, <1>14, <2>1
  <2>4. /\ WindowCallOK' /\ Answers(Windows!Items, A, {q})
        /\ AnswersRight(Windows!Items, A \cup {q})'
    BY <1>3, <1>5, <2>2, <2>3, WindowCollectStep
  <2>5. Machines!Settled' = A \cup {q}
    BY <1>14, <2>1
  <2>6. AnswersRight(Windows!Items, Machines!Settled)'
    BY <2>4, <2>5 DEF AnswersRight
  <2> QED  BY <2>1, <2>4, <2>6
<1>18. MachinesIInv'
  <2>1. MachinesTypeOK'
    BY <1>3, <1>10, <1>17 DEF MachinesTypeOK
  <2>2. OneEach(Machines!Busy, MachinesCarried, next_query_idx)'
    BY <1>11, <1>13 DEF OneEach
  <2>3. (\A j \in Machines!Busy : pool[j].state = "BSEARCH" => Searches(pool[j]))'
    <3>1. \A j \in Machines!Busy' : pool'[j].state = "BSEARCH" => Searches(pool'[j])
      <4> TAKE j \in Machines!Busy'
      <4>1. j \in Machines!Busy /\ pool'[j] = pool[j]
        BY <1>10, <1>11, MachinesSlots DEF Machines!Busy
      <4> QED  BY <4>1 DEF MachinesIInv
    <3> QED  BY <1>3, <3>1, SearchesKept
  <2> QED  BY <1>3, <1>16, <1>17, <2>1, <2>2, <2>3 DEF MachinesIInv
<1>19. Machines!Abstract!Answer
  <2>1. PICK A : A = Machines!Settled
    OBVIOUS
  <2>2. Machines!Answered = A /\ Machines!Answered' = A \cup {q}
    BY <1>3, <1>14, <2>1 DEF Machines!Answered
  <2>3. A \cup {q} \subseteq QueryIdx /\ {q} \cap A = {} /\ {q} # {}
    BY <1>4, <1>14, <1>15, <2>1
  <2>4. Answers(Windows!Items, A, {q})
    BY <1>17, <2>1
  <2> QED  BY <1>3, <1>5, <2>2, <2>3, <2>4, MachinesAnswer
<1> QED  BY <1>18, <1>19

LEMMA MachinesStutter ==
  ASSUME MachinesIInv, UNCHANGED Machines!vars
  PROVE  /\ MachinesIInv' /\ UNCHANGED <<index, queries, found, results>>
         /\ Machines!Answered' = Machines!Answered
<1>1. UNCHANGED <<index, queries, found, results, pc, pool, next_query_idx, finished, i>>
  BY DEF Machines!vars
<1>2. /\ Machines!Busy' = Machines!Busy /\ MachinesCarried' = MachinesCarried
      /\ Machines!Settled' = Machines!Settled /\ Machines!QueryIdx' = Machines!QueryIdx
      /\ QueryIdx' = QueryIdx /\ n' = n /\ Windows!Size(index)' = Windows!Size(index)
  BY <1>1, SearchKept DEF Machines!Busy, MachinesCarried, Machines!Settled, Machines!InFlight, QueryIdx, n,
              Machines!QueryIdx, Machines!n, Machines!Slots
<1>3. MachinesTypeOK'
  BY <1>1, <1>2, WindowCallUnchanged DEF MachinesTypeOK, MachinesIInv
<1>4. (\A j \in Machines!Busy : pool[j].state = "BSEARCH" => Searches(pool[j]))'
  BY <1>1, <1>2, SearchesKept DEF MachinesIInv
<1>5. AnswersRight(Windows!Items, Machines!Settled)'
  <2>1. Windows!Items' = Windows!Items
    BY <1>1, SearchKept
  <2> QED  BY <1>1, <1>2, <2>1 DEF MachinesIInv, AnswersRight, RightAnswer, Unanswered, KeyAt
<1>6. OneEach(Machines!Busy, MachinesCarried, next_query_idx)'
  BY <1>1, <1>2 DEF MachinesIInv, OneEach
<1>7. MachinesIInv'
  BY <1>1, <1>2, <1>3, <1>4, <1>5, <1>6 DEF MachinesIInv
<1> QED  BY <1>1, <1>2, <1>7 DEF Machines!Answered

LEMMA MachinesNext ==
  ASSUME MachinesIInv, [Machines!Next]_(Machines!vars)
  PROVE  MachinesIInv' /\ [Machines!Abstract!Next]_(Machines!Abstract!vars)
<1>1. CASE Machines!VisitEnds
  BY <1>1, MachinesVisitEnds DEF Machines!Abstract!Next
<1>2. CASE Machines!Start
  BY <1>2, MachinesStart
<1>3. CASE ~(Machines!VisitEnds \/ Machines!Start)
  <2>1. /\ MachinesIInv' /\ UNCHANGED <<index, queries, found, results>>
        /\ Machines!Answered' = Machines!Answered
    BY <1>3, MachinesLoopTest, MachinesVisitInit, MachinesVisitInternal, MachinesVisitBottom,
       MachinesVisitHalves, MachinesVisitDone, MachinesStutter
    DEF Machines!Next, Machines!Returned
  <2>2. UNCHANGED Machines!Abstract!vars
    BY <2>1 DEF Machines!Abstract!vars, Machines!Items
  <2> QED  BY <2>1, <2>2
<1> QED  BY <1>1, <1>2, <1>3

LEMMA MachinesIInvImplies == ASSUME MachinesIInv PROVE Machines!PoolExact
<1>1. \A a, b \in Machines!Busy : a # b => pool[a].i # pool[b].i
  BY MachinesSlots DEF MachinesIInv, OneEach, MachinesCarried, Machines!Busy
<1>2. WindowCallOK /\ \A j \in Machines!Busy : pool[j].state = "BSEARCH" => Searches(pool[j])
  BY DEF MachinesIInv, MachinesTypeOK
<1>3. ASSUME NEW j \in Machines!Busy, pool[j].state = "BSEARCH"
      PROVE  /\ Machines!OnTrack(pool[j].i, Machines!Of(pool[j]))
             /\ pool[j].step = Machines!BSEARCH_STEPS => ~Machines!Open(pool[j])
  <2>1. PICK m, w : m = pool[j] /\ w = Machines!Of(m)
    OBVIOUS
  <2>2. /\ Search(m.i, w) /\ Narrow(w, Machines!pow2, Machines!BSEARCH_STEPS - m.step)
    BY <1>2, <1>3, <2>1 DEF Searches
  <2>3. Machines!OnTrack(m.i, w)
    BY <2>2, MachinesSame DEF Search
  <2>4. ASSUME m.step = Machines!BSEARCH_STEPS PROVE ~Machines!Open(m)
    <3>1. Machines!BSEARCH_STEPS \in Nat /\ Powers(Machines!pow2)
      BY <1>2, MachinesSteps
    <3>2. Machines!BSEARCH_STEPS - m.step = 0
      BY <2>4, <3>1
    <3>3. ~Windows!Open(w)
      BY <2>2, <3>1, <3>2, NarrowClosed
    <3> QED  BY <2>1, <3>3 DEF Machines!Of, Machines!Open, Windows!Open
  <2> QED  BY <2>1, <2>3, <2>4
<1>4. finished = Machines!Cardinality(Machines!Settled)
  BY MachinesSame DEF MachinesIInv
<1>5. AnswersRight(Windows!Items, Machines!Answered)
  <2>1. CASE pc = "returned" /\ Windows!Size(index) = 0
    BY <1>2, <2>1, EmptyIndexAnswers DEF MachinesIInv
  <2>2. CASE ~(pc = "returned" /\ Windows!Size(index) = 0)
    BY <2>2, MachinesSame DEF MachinesIInv, Machines!Answered
  <2> QED  BY <2>1, <2>2
<1>6. Machines!AnswersRight(Machines!Items, Machines!Answered)
  BY <1>5, MachinesSame
<1> QED  BY <1>1, <1>3, <1>4, <1>6 DEF Machines!PoolExact

LEMMA MachinesAbstractInit == Machines!Init => Machines!Abstract!Init
<1> SUFFICES ASSUME Machines!Init PROVE Machines!Abstract!Init
  OBVIOUS
<1>1. index \in AnyIndex /\ queries \in WindowBatches /\ found = [q \in QueryIdx |-> FALSE]
      /\ results = [q \in QueryIdx |-> Stale]
  BY MachinesSame DEF Machines!Init, Machines!ArgsAndOutsInit, Machines!LookupInit
<1>2. queries \in Seq(Key) /\ Machines!Items \in SUBSET (Key \X Value)
  BY <1>1, WindowBatchesAssumption, ItemPairs, MachinesSame
<1>3. Machines!Answered = {}
  BY DEF Machines!Init, Machines!Answered, Machines!Settled
<1> QED  BY <1>1, <1>2, <1>3 DEF QueryIdx, n, Machines!Abstract!Init, Machines!Abstract!Positions

-----------------------------------------------------------------------------
(* Pipelines: many places end, move or are filled in one step.             *)

(* Places that end settle their queries, as many as they are. *)
LEMMA PlacesEnd ==
  ASSUME NEW B, NEW idx, NEW next \in Nat, OneEach(B, idx, next), NEW C, C \subseteq B,
         NEW idx2, \A b \in B \ C : idx2[b] = idx[b]
  PROVE  /\ OneEach(B \ C, idx2, next)
         /\ Landed(B \ C, idx2, next) = Landed(B, idx, next) \cup {idx[b] : b \in C}
         /\ {idx[b] : b \in C} \cap Landed(B, idx, next) = {}
<1>1. OneEach(B \ C, idx2, next)
  BY DEF OneEach
<1>2. {idx2[b] : b \in B \ C} = {idx[b] : b \in B} \ {idx[b] : b \in C}
  BY DEF OneEach
<1>3. {idx[b] : b \in C} \subseteq 0 .. next - 1 /\ {idx[b] : b \in C} \subseteq {idx[b] : b \in B}
  BY DEF OneEach
<1> QED  BY <1>1, <1>2, <1>3 DEF Landed

(* Places that move keep their queries, and the new ones take the next.     *)
LEMMA PlacesMove ==
  ASSUME NEW B, NEW idx, NEW next \in Nat, OneEach(B, idx, next),
         NEW next2 \in Nat, next <= next2, NEW B2, NEW idx2,
         \A x \in B2 : (\E b \in B : idx2[x] = idx[b]) \/ idx2[x] \in next .. next2 - 1,
         \A x, y \in B2 : x # y => idx2[x] # idx2[y],
         \A b \in B : \E x \in B2 : idx2[x] = idx[b],
         \A q \in next .. next2 - 1 : \E x \in B2 : idx2[x] = q
  PROVE  /\ OneEach(B2, idx2, next2)
         /\ Landed(B2, idx2, next2) = Landed(B, idx, next)
<1>1. \A b \in B : idx[b] \in 0 .. next - 1
  BY DEF OneEach
<1>2. \A x \in B2 : idx2[x] \in 0 .. next2 - 1
  BY <1>1
<1>3. OneEach(B2, idx2, next2)
  BY <1>2 DEF OneEach
<1>4. {idx2[x] : x \in B2} = {idx[b] : b \in B} \cup (next .. next2 - 1)
  OBVIOUS
<1>5. 0 .. next2 - 1 = (0 .. next - 1) \cup (next .. next2 - 1)
  OBVIOUS
<1>6. (0 .. next - 1) \cap (next .. next2 - 1) = {}
  OBVIOUS
<1> QED  BY <1>1, <1>3, <1>4, <1>5, <1>6 DEF Landed

(* As many queries as places carry them. *)
LEMMA AsManyQueries ==
  ASSUME NEW C, IsFiniteSet(C), NEW f, \A x, y \in C : x # y => f[x] # f[y]
  PROVE  IsFiniteSet({f[x] : x \in C}) /\ Cardinality({f[x] : x \in C}) = Cardinality(C)
<1>1. PICK g : g = [x \in C |-> f[x]]
  OBVIOUS
<1>2. PICK S : S = {f[x] : x \in C}
  OBVIOUS
<1>3. g \in Bijection(C, S)
  BY <1>1, <1>2 DEF Bijection, Injection, Surjection, IsInjective
<1> QED  BY <1>2, <1>3, FS_Bijection DEF ExistsBijection

(* RS and PGM SPP.                                                         *)

LEMMA StagesSame ==
  /\ Stages!n = n /\ Stages!QueryIdx = QueryIdx /\ Stages!args = <<index, queries>> /\ Stages!outs = outs
  /\ Stages!Items = Windows!Items /\ Stages!data_size = Windows!Size(index)
  /\ \A q : Stages!Window(q) = Windows!Window(q)
  /\ \A w : Stages!Open(w) <=> Windows!Open(w)
  /\ \A q, w : Stages!Halved(q, w) = Windows!Halved(q, w)
  /\ \A q, w : Stages!OnTrack(q, w) <=> Windows!OnTrack(q, w)
  /\ \A slots : Stages!Collect(slots) <=> Windows!Collect(slots)
  /\ \A items, A : Stages!AnswersRight(items, A) <=> AnswersRight(items, A)
  /\ \A a, b : Stages!Min2(a, b) = Min2(a, b)
  /\ \A S : Stages!Cardinality(S) = Cardinality(S)
<1>1. /\ Stages!n = n /\ Stages!QueryIdx = QueryIdx /\ Stages!args = <<index, queries>> /\ Stages!outs = outs
      /\ Stages!Items = Windows!Items
  BY DEF Stages!n, n, Stages!QueryIdx, QueryIdx, Stages!args, Stages!outs, outs, Stages!Items, Windows!Items
<1>2. \A q : Stages!KeyAt(q) = KeyAt(q) /\ Windows!KeyAt(q) = KeyAt(q)
  BY DEF Stages!KeyAt, KeyAt, Windows!KeyAt
<1>3. \A S : Stages!Cardinality(S) = Cardinality(S) /\ Windows!Cardinality(S) = Cardinality(S)
  BY DEF Stages!Cardinality, Cardinality, Windows!Cardinality
<1>4. Stages!Size(index) = Windows!Size(index) /\ Stages!data_size = Windows!Size(index)
      /\ Windows!data_size = Windows!Size(index)
  BY <1>3 DEF Stages!Size, Windows!Size, Stages!data_size, Windows!data_size
<1>5. \A q : Stages!Window(q) = Windows!Window(q)
  BY <1>2 DEF Stages!Window, Windows!Window
<1>6. \A w : (Stages!Open(w) <=> Windows!Open(w)) /\ Stages!Mid(w) = Windows!Mid(w)
  BY DEF Stages!Open, Windows!Open, Stages!Mid, Windows!Mid
<1>7. \A q, w : Stages!Halved(q, w) = Windows!Halved(q, w)
  BY <1>2, <1>6 DEF Stages!Halved, Windows!Halved
<1>8. \A q : Stages!Goal(q) = Windows!Goal(q)
  BY <1>2, <1>3, <1>5 DEF Stages!Goal, Windows!Goal
<1>9. \A q, w : Stages!OnTrack(q, w) <=> Windows!OnTrack(q, w)
  BY <1>5, <1>6, <1>8 DEF Stages!OnTrack, Windows!OnTrack
<1>10. \A q, s : Stages!IsHit(q, s) <=> Windows!IsHit(q, s)
  BY <1>2, <1>4 DEF Stages!IsHit, Windows!IsHit
<1>11. ASSUME NEW slots PROVE Stages!Collect(slots) <=> Windows!Collect(slots)
  <2>1. {x \in DOMAIN slots : Stages!IsHit(x, slots[x])} = {x \in DOMAIN slots : Windows!IsHit(x, slots[x])}
    BY <1>10
  <2>2. \A hits : Stages!Settle(hits) <=> Windows!Settle(hits)
    BY <1>1, WindowsSame DEF Stages!Settle, Windows!Settle
  <2> QED  BY <2>1, <2>2 DEF Stages!Collect, Windows!Collect
<1>12. \A items, A : Stages!AnswersRight(items, A) <=> AnswersRight(items, A)
  BY <1>1, <1>2 DEF Stages!AnswersRight, AnswersRight, Stages!RightAnswer, RightAnswer, Stages!Unanswered, Unanswered
<1>13. \A a, b : Stages!Min2(a, b) = Min2(a, b)
  BY DEF Stages!Min2, Min2
<1> QED  BY <1>1, <1>3, <1>4, <1>5, <1>6, <1>7, <1>9, <1>11, <1>12, <1>13

(* The steps of the search close every window that is predicted. *)
LEMMA StagesSteps ==
  ASSUME WindowCallOK
  PROVE  /\ Powers(Stages!pow2) /\ Stages!BSEARCH_STEPS \in Nat \ {0}
         /\ \A q \in QueryIdx : Narrow(Windows!Window(q), Stages!pow2, Stages!BSEARCH_STEPS)
<1>1. Stages!pow2 = [e \in Nat |-> IF e = 0 THEN 1 ELSE 2 * Stages!pow2[e - 1]]
  <2>1. \E f : f = [e \in Nat |-> IF e = 0 THEN 1 ELSE 2 * f[e - 1]]
    BY PowersDefined
  <2> QED  BY <2>1, Zenon DEF Stages!pow2
<1>2. Powers(Stages!pow2) /\ \A e \in Nat : Stages!pow2[e] > e
  BY <1>1, PowersFacts
<1>3. index.error \in Nat
  BY AnyIndexSound DEF WindowCallOK, Windows!SoundIndex
<1>4. PICK m : m = 2 * index.error + 2 /\ m \in Nat \ {0}
  BY <1>3
<1>5. \E s \in 1 .. m + 1 : Stages!pow2[s - 1] <= m /\ m < Stages!pow2[s]
  BY <1>2, <1>4, StepsExist
<1>6. Stages!BSEARCH_STEPS \in 1 .. m + 1 /\ m < Stages!pow2[Stages!BSEARCH_STEPS]
  <2>1. Stages!BSEARCH_STEPS = CHOOSE s \in 1 .. m + 1 : Stages!pow2[s - 1] <= m /\ m < Stages!pow2[s]
    BY <1>4 DEF Stages!BSEARCH_STEPS, Stages!calc_steps
  <2> QED  BY <1>5, <2>1
<1>7. Stages!BSEARCH_STEPS \in Nat \ {0} /\ Stages!pow2[Stages!BSEARCH_STEPS] \in Nat
  BY <1>2, <1>4, <1>6 DEF Powers
<1>8. ASSUME NEW q \in QueryIdx PROVE Narrow(Windows!Window(q), Stages!pow2, Stages!BSEARCH_STEPS)
  <2>1. Windows!Window(q).hi - Windows!Window(q).lo <= m /\ Windows!Window(q) \in [lo : Nat, hi : Nat]
    BY <1>4, WindowFacts
  <2>2. PICK d, f : d = Windows!Window(q).hi - Windows!Window(q).lo /\ d \in Int /\ f = Stages!pow2[Stages!BSEARCH_STEPS]
    BY <2>1
  <2>3. d <= m /\ m < f /\ f \in Nat
    BY <1>6, <1>7, <2>1, <2>2
  <2>4. d < f
    BY <1>4, <2>2, <2>3
  <2> QED  BY <2>2, <2>4 DEF Narrow
<1> QED  BY <1>2, <1>7, <1>8

(* A step that answers the queries Qs is one of the abstract lookup.        *)
LEMMA StagesAnswer ==
  ASSUME WindowCallOK, UNCHANGED <<index, queries>>, NEW A, NEW Qs, Qs # {},
         A \cup Qs \subseteq QueryIdx, Qs \cap A = {}, Answers(Windows!Items, A, Qs),
         Stages!Answered = A, Stages!Answered' = A \cup Qs
  PROVE  Stages!Abstract!Answer
<1>1. Stages!Items = Windows!Items /\ Stages!Items' = Windows!Items /\ Windows!Items' = Windows!Items
  BY DEF Stages!Items, Windows!Items
<1>2. PICK items : items = Windows!Items
  OBVIOUS
<1>3. \A q \in Qs : Stages!Abstract!RightAnswer(q)'
  BY <1>1, <1>2 DEF Answers, RightAnswer, KeyAt, Stages!Abstract!RightAnswer, Stages!Abstract!KeyAt
<1>4. DOMAIN found' = QueryIdx /\ DOMAIN results' = QueryIdx
  BY DEF Answers, OutsOK
<1>5. \A q \in QueryIdx \ Qs : found'[q] = found[q] /\ results'[q] = results[q]
  BY DEF Answers
<1>6. QueryIdx = 0 .. Len(queries) - 1
  BY DEF QueryIdx, n
<1> QED  BY <1>1, <1>3, <1>4, <1>5, <1>6 DEF Stages!Abstract!Answer, Stages!Abstract!Positions

StageIndexes == UNION {Indexes[s] : s \in ByStages}
StageTask    == [query_idx : Nat, lo : Nat, hi : Nat]
SpanOf(t)    == [lo |-> t.lo, hi |-> t.hi]
Searching(t, left) == Search(t.query_idx, SpanOf(t)) /\ Narrow(SpanOf(t), Stages!pow2, left)

(* The halvings that a task of stage s has before it. *)
Left(p, s)    == IF p = "refill" THEN Stages!H - s - 1 ELSE Stages!H - s
StagesCarried == [x \in (0 .. Stages!H) \X Stages!Lanes |-> Stages!TaskAt(x).query_idx]

StagesTypeOK ==
  /\ WindowCallOK /\ index \in StageIndexes
  /\ pc \in {"start", "loop", "verify", "halve", "refill", "returned"}
  /\ stages \in [0 .. Stages!H -> [Stages!Lanes -> StageTask]]
  /\ next_query_idx \in 0 .. n

(* As for AMAC; the last stage is empty from its answers to the refill.     *)
StagesIInv ==
  /\ StagesTypeOK
  /\ pc = "start" => next_query_idx = 0 /\ Stages!Places = {}
  /\ pc \in {"halve", "refill"} => Stages!Ending = {}
  /\ OneEach(Stages!Places, StagesCarried, next_query_idx)
  /\ \A x \in Stages!Places : Searching(Stages!TaskAt(x), Left(pc, x[1]))
  /\ finished = Cardinality(Stages!Settled)
  /\ AnswersRight(Windows!Items, Stages!Settled)
  /\ pc = "returned" => Stages!Settled = QueryIdx \/ Windows!Size(index) = 0

LEMMA StagesSettledLanded ==
  /\ Stages!Settled = Landed(Stages!Places, StagesCarried, next_query_idx)
  /\ Stages!Settled' = Landed(Stages!Places', StagesCarried', next_query_idx')
BY DEF Stages!Settled, Stages!InFlight, Landed, StagesCarried, Stages!Places

LEMMA StagesSettledCounted ==
  ASSUME StagesTypeOK
  PROVE  /\ n \in Nat /\ QueryIdx = 0 .. n - 1
         /\ Stages!Settled \subseteq QueryIdx /\ IsFiniteSet(Stages!Settled)
         /\ Cardinality(Stages!Settled) \in Nat
         /\ Cardinality(Stages!Settled) >= n => Stages!Settled = QueryIdx
<1>1. n \in Nat /\ QueryIdx = 0 .. n - 1
  BY BatchFacts DEF StagesTypeOK, WindowCallOK
<1>2. Stages!Settled \subseteq QueryIdx
  BY <1>1 DEF Stages!Settled, StagesTypeOK
<1>3. /\ IsFiniteSet(Stages!Settled)
      /\ Cardinality(Stages!Settled) \in Nat
      /\ Cardinality(Stages!Settled) <= n
      /\ Cardinality(Stages!Settled) = n => Stages!Settled = QueryIdx
  BY <1>2, PositionsFinite DEF StagesTypeOK, WindowCallOK
<1> QED  BY <1>1, <1>2, <1>3

(* The places of the pipeline, and what is in them. *)
LEMMA StagesPlaces ==
  ASSUME StagesTypeOK
  PROVE  /\ Stages!H \in Nat \ {0} /\ Stages!Lanes = 0 .. POOL_SIZE - 1
         /\ Stages!Places = {x \in (0 .. Stages!H) \X Stages!Lanes :
                                stages[x[1]][x[2]].lo <= stages[x[1]][x[2]].hi}
         /\ \A x \in (0 .. Stages!H) \X Stages!Lanes :
              /\ x[1] \in 0 .. Stages!H /\ x[2] \in Stages!Lanes /\ x = <<x[1], x[2]>>
              /\ stages[x[1]][x[2]] \in StageTask
              /\ Stages!TaskAt(x) = stages[x[1]][x[2]]
              /\ StagesCarried[x] = stages[x[1]][x[2]].query_idx
<1>1. Stages!H \in Nat \ {0}
  BY StagesSteps DEF StagesTypeOK, Stages!H
<1>2. stages \in [0 .. Stages!H -> [Stages!Lanes -> StageTask]]
  BY DEF StagesTypeOK
<1>3. Stages!Lanes = 0 .. POOL_SIZE - 1
  BY DEF Stages!Lanes
<1>4. PICK P : P = (0 .. Stages!H) \X Stages!Lanes
  OBVIOUS
<1>5. \A x \in P : x[1] \in 0 .. Stages!H /\ x[2] \in Stages!Lanes /\ x = <<x[1], x[2]>>
  BY <1>4
<1>6. \A x \in P : /\ Stages!TaskAt(x) = stages[x[1]][x[2]]
                   /\ StagesCarried[x] = stages[x[1]][x[2]].query_idx
  BY <1>4 DEF Stages!TaskAt, StagesCarried
<1>7. \A x \in P : stages[x[1]][x[2]] \in StageTask
  BY <1>2, <1>5
<1>8. Stages!Places = {x \in P : stages[x[1]][x[2]].lo <= stages[x[1]][x[2]].hi}
  BY <1>4 DEF Stages!Places, Stages!Active, Stages!TaskAt
<1> QED  BY <1>1, <1>3, <1>4, <1>5, <1>6, <1>7, <1>8

LEMMA StagesPlacesNext ==
  ASSUME UNCHANGED index
  PROVE  /\ Stages!H' = Stages!H /\ StageIndexes' = StageIndexes
         /\ Stages!Places' = {x \in (0 .. Stages!H) \X Stages!Lanes :
                                stages'[x[1]][x[2]].lo <= stages'[x[1]][x[2]].hi}
         /\ \A x \in (0 .. Stages!H) \X Stages!Lanes :
              StagesCarried'[x] = stages'[x[1]][x[2]].query_idx
<1>1. Stages!H' = Stages!H /\ Stages!Lanes' = Stages!Lanes
  BY DEF Stages!H, Stages!BSEARCH_STEPS, Stages!Lanes
<1>2. StageIndexes' = StageIndexes
  BY DEF StageIndexes
<1> QED  BY <1>1, <1>2 DEF Stages!Places, Stages!Active, Stages!TaskAt, StagesCarried

LEMMA StagesCarries ==
  ASSUME StagesIInv, NEW x \in Stages!Places
  PROVE  /\ x \in (0 .. Stages!H) \X Stages!Lanes
         /\ stages[x[1]][x[2]].query_idx \in QueryIdx
         /\ StagesCarried[x] = stages[x[1]][x[2]].query_idx
         /\ Searching(stages[x[1]][x[2]], Left(pc, x[1]))
<1>1. /\ x \in (0 .. Stages!H) \X Stages!Lanes /\ Stages!TaskAt(x) = stages[x[1]][x[2]]
      /\ StagesCarried[x] = stages[x[1]][x[2]].query_idx
  BY StagesPlaces DEF StagesIInv
<1>2. StagesCarried[x] \in 0 .. next_query_idx - 1
  BY DEF StagesIInv, OneEach
<1>3. n \in Nat /\ QueryIdx = 0 .. n - 1 /\ next_query_idx \in 0 .. n
  BY StagesSettledCounted DEF StagesIInv, StagesTypeOK
<1>4. Searching(Stages!TaskAt(x), Left(pc, x[1]))
  BY DEF StagesIInv
<1> QED  BY <1>1, <1>2, <1>3, <1>4

(* A step that leaves the index and the batch alone leaves the searches alone. *)
LEMMA SearchingKept ==
  ASSUME UNCHANGED <<index, queries>>
  PROVE  /\ \A t, left : Searching(t, left)' <=> Searching(t, left)
         /\ \A p, s : Left(p, s)' = Left(p, s)
<1>1. \A q, w : Search(q, w)' <=> Search(q, w)
  BY SearchKept
<1>2. \A t, left : Searching(t, left)' <=> Searching(t, left)
  BY <1>1 DEF Searching
<1>3. Stages!H' = Stages!H
  BY StagesPlacesNext
<1> QED  BY <1>2, <1>3 DEF Left

LEMMA StagesInitInv ==
  ASSUME Stages!Init, index \in StageIndexes
  PROVE  StagesIInv
<1>1. index \in AnyIndex /\ queries \in WindowBatches /\ found = [q \in QueryIdx |-> FALSE]
      /\ results = [q \in QueryIdx |-> Stale]
  BY StagesSame DEF Stages!Init, Stages!ArgsAndOutsInit, Stages!LookupInit
<1>2. WindowCallOK
  BY <1>1, WindowBatchesAssumption DEF WindowCallOK, OutsOK
<1>3. n \in Nat /\ QueryIdx = 0 .. n - 1
  BY <1>2, BatchFacts DEF WindowCallOK
<1>4. StagesTypeOK
  <2>1. Stages!NoTask \in StageTask
    BY DEF Stages!NoTask, StageTask
  <2>2. stages = [s \in 0 .. Stages!H |-> [j \in Stages!Lanes |-> Stages!NoTask]]
        /\ pc = "start" /\ next_query_idx = 0
    BY DEF Stages!Init
  <2> QED  BY <1>2, <1>3, <2>1, <2>2 DEF StagesTypeOK
<1>5. next_query_idx = 0 /\ Stages!Places = {} /\ Stages!Settled = {}
  <2>1. \A x \in (0 .. Stages!H) \X Stages!Lanes : stages[x[1]][x[2]].lo = 1 /\ stages[x[1]][x[2]].hi = 0
    BY <1>4, StagesPlaces DEF Stages!Init, Stages!NoTask
  <2> QED  BY <1>4, <2>1, StagesPlaces DEF Stages!Init, Stages!Settled
<1>6. finished = Cardinality(Stages!Settled)
  BY <1>5, FS_EmptySet DEF Stages!Init
<1>7. AnswersRight(Windows!Items, Stages!Settled)
  BY <1>1, <1>5 DEF AnswersRight, Unanswered
<1>8. OneEach(Stages!Places, StagesCarried, next_query_idx)
  BY <1>5 DEF OneEach
<1>9. pc = "start"
  BY DEF Stages!Init
<1> QED  BY <1>4, <1>5, <1>6, <1>7, <1>8, <1>9 DEF StagesIInv

LEMMA StagesQuietStep ==
  ASSUME StagesIInv, UNCHANGED <<index, queries, found, results>>, finished' = finished,
         pc' \in {"loop", "verify", "halve", "refill", "returned"},
         next_query_idx' \in 0 .. n, stages' \in [0 .. Stages!H -> [Stages!Lanes -> StageTask]],
         pc' \in {"halve", "refill"} => Stages!Ending' = {},
         OneEach(Stages!Places', StagesCarried', next_query_idx'),
         \A x \in Stages!Places' : Searching(stages'[x[1]][x[2]], Left(pc', x[1])),
         Stages!Settled' = Stages!Settled,
         pc' = "returned" => Stages!Settled = QueryIdx \/ Windows!Size(index) = 0
  PROVE  StagesIInv'
<1>1. /\ n' = n /\ QueryIdx' = QueryIdx /\ (WindowCallOK' <=> WindowCallOK)
      /\ Windows!Size(index)' = Windows!Size(index)
  BY WindowCallUnchanged, SearchKept
<1>2. Stages!H' = Stages!H /\ StageIndexes' = StageIndexes
  BY StagesPlacesNext
<1>3. StagesTypeOK'
  BY <1>1, <1>2 DEF StagesTypeOK, StagesIInv, Stages!Lanes
<1>4. (\A x \in Stages!Places : Searching(Stages!TaskAt(x), Left(pc, x[1])))'
  <2>1. /\ \A t, left : Searching(t, left)' <=> Searching(t, left)
        /\ \A p, s : Left(p, s)' = Left(p, s)
    BY SearchingKept
  <2> QED  BY <2>1 DEF Stages!TaskAt
<1>5. AnswersRight(Windows!Items, Stages!Settled)'
  <2>1. AnswersRight(Windows!Items, Stages!Settled)
    BY DEF StagesIInv
  <2>2. Windows!Items' = Windows!Items
    BY SearchKept
  <2> QED  BY <2>1, <2>2 DEF AnswersRight, RightAnswer, Unanswered, QueryIdx, n, KeyAt
<1>6. finished' = Cardinality(Stages!Settled')
  BY DEF StagesIInv
<1>7. OneEach(Stages!Places, StagesCarried, next_query_idx)'
  BY DEF OneEach
<1> QED  BY <1>1, <1>3, <1>4, <1>5, <1>6, <1>7 DEF StagesIInv

(* A step that leaves the stages alone. *)
LEMMA StagesWait ==
  ASSUME StagesIInv, UNCHANGED <<index, queries, found, results, stages, next_query_idx, finished>>,
         pc' \in {"loop", "verify", "returned"}, pc \in {"start", "loop"},
         pc' = "returned" => Stages!Settled = QueryIdx \/ Windows!Size(index) = 0
  PROVE  StagesIInv' /\ Stages!Settled' = Stages!Settled
<1>1. Stages!H' = Stages!H
  BY StagesPlacesNext
<1>2. /\ Stages!Places' = Stages!Places /\ StagesCarried' = StagesCarried
      /\ Stages!Settled' = Stages!Settled
  BY <1>1 DEF Stages!Places, StagesCarried, Stages!TaskAt, Stages!Lanes, Stages!Settled, Stages!InFlight
<1>3. \A x \in Stages!Places' : Searching(stages'[x[1]][x[2]], Left(pc', x[1]))
  <2> SUFFICES ASSUME NEW x \in Stages!Places PROVE Searching(stages[x[1]][x[2]], Left(pc', x[1]))
    BY <1>2
  <2>1. Searching(stages[x[1]][x[2]], Left(pc, x[1]))
    BY StagesCarries
  <2>2. Left(pc', x[1]) = Left(pc, x[1])
    BY DEF Left
  <2> QED  BY <2>1, <2>2
<1>4. /\ OneEach(Stages!Places', StagesCarried', next_query_idx')
      /\ stages' \in [0 .. Stages!H -> [Stages!Lanes -> StageTask]] /\ next_query_idx' \in 0 .. n
  BY <1>2 DEF StagesIInv, StagesTypeOK
<1> QED  BY <1>2, <1>3, <1>4, StagesQuietStep

LEMMA StagesStart ==
  ASSUME StagesIInv, Stages!Start
  PROVE  StagesIInv' /\ [Stages!Abstract!Next]_(Stages!Abstract!vars)
<1>1. /\ UNCHANGED <<index, queries, found, results, stages, next_query_idx, finished>> /\ pc = "start"
      /\ pc' = IF Windows!Size(index) = 0 \/ n = 0 THEN "returned" ELSE "loop"
  BY StagesSame DEF Stages!Start, Stages!args, Stages!outs
<1>2. n \in Nat /\ QueryIdx = 0 .. n - 1 /\ next_query_idx = 0 /\ Stages!Settled = {}
  BY <1>1, StagesSettledCounted DEF StagesIInv, Stages!Settled
<1>3. Stages!QueryIdx = QueryIdx /\ Stages!QueryIdx' = QueryIdx
  BY <1>1, StagesSame DEF Stages!QueryIdx, Stages!n, QueryIdx, n
<1>4. Stages!Items' = Stages!Items
  BY <1>1 DEF Stages!Items
<1>5. n = 0 => QueryIdx = {}
  BY <1>2
<1>6. StagesIInv' /\ Stages!Settled' = Stages!Settled
  BY <1>1, <1>2, <1>5, StagesWait
<1>7. CASE Windows!Size(index) = 0 \/ n = 0
  <2>1. Stages!Answered = {} /\ Stages!Answered' = QueryIdx
    BY <1>1, <1>2, <1>3, <1>7 DEF Stages!Answered
  <2>2. CASE QueryIdx = {}
    <3>1. UNCHANGED Stages!Abstract!vars
      BY <1>1, <1>4, <2>1, <2>2 DEF Stages!Abstract!vars
    <3> QED  BY <1>6, <3>1
  <2>3. CASE QueryIdx # {}
    <3>1. Windows!Size(index) = 0 /\ WindowCallOK /\ AnswersRight(Windows!Items, {})
      BY <1>2, <1>5, <1>7, <2>3 DEF StagesIInv, StagesTypeOK
    <3>2. Answers(Windows!Items, {}, QueryIdx)
      BY <1>1, <3>1, EmptyAnswered
    <3>3. Stages!Answered' = {} \cup QueryIdx
      BY <2>1
    <3>4. Stages!Abstract!Answer
      BY <1>1, <2>1, <2>3, <3>1, <3>2, <3>3, StagesAnswer
    <3> QED  BY <1>6, <3>4 DEF Stages!Abstract!Next
  <2> QED  BY <2>2, <2>3
<1>8. CASE ~(Windows!Size(index) = 0 \/ n = 0)
  <2>1. UNCHANGED Stages!Abstract!vars
    BY <1>1, <1>4, <1>6, <1>8 DEF Stages!Abstract!vars, Stages!Answered
  <2> QED  BY <1>6, <2>1
<1> QED  BY <1>7, <1>8

LEMMA StagesLoopTest ==
  ASSUME StagesIInv, Stages!LoopTest
  PROVE  /\ StagesIInv' /\ UNCHANGED <<index, queries, found, results>>
         /\ Stages!Answered' = Stages!Answered
<1>1. /\ UNCHANGED <<index, queries, found, results, stages, next_query_idx, finished>> /\ pc = "loop"
      /\ pc' = IF finished < n THEN "verify" ELSE "returned"
  BY StagesSame DEF Stages!LoopTest, Stages!args, Stages!outs
<1>2. pc' = "returned" => Stages!Settled = QueryIdx
  BY <1>1, StagesSettledCounted DEF StagesIInv
<1>3. StagesIInv' /\ Stages!Settled' = Stages!Settled
  BY <1>1, <1>2, StagesWait
<1>4. Stages!QueryIdx' = QueryIdx
  BY <1>1 DEF Stages!QueryIdx, QueryIdx, n, Stages!n
<1> QED  BY <1>1, <1>2, <1>3, <1>4 DEF Stages!Answered

(* A halving leaves every task in its place, with one halving less to come. *)
LEMMA StagesHalveStages ==
  ASSUME StagesIInv, Stages!HalveStages
  PROVE  /\ StagesIInv' /\ UNCHANGED <<index, queries, found, results>>
         /\ Stages!Answered' = Stages!Answered
<1>1. /\ UNCHANGED <<index, queries, found, results, next_query_idx, finished>>
      /\ pc = "halve" /\ pc' = "refill"
      /\ stages' = [s \in 0 .. Stages!H |-> [j \in Stages!Lanes |->
                      IF s < Stages!H /\ Stages!Active(stages[s][j]) THEN Stages!HalvedTask(stages[s][j])
                      ELSE stages[s][j]]]
  BY DEF Stages!HalveStages, Stages!args, Stages!outs
<1>2. WindowCallOK /\ StagesTypeOK /\ Stages!Ending = {} /\ Powers(Stages!pow2)
  BY <1>1, StagesSteps DEF StagesIInv, StagesTypeOK
<1>3. PICK P : P = (0 .. Stages!H) \X Stages!Lanes
  OBVIOUS
<1>4. /\ Stages!H \in Nat \ {0}
      /\ Stages!Places = {x \in P : stages[x[1]][x[2]].lo <= stages[x[1]][x[2]].hi}
      /\ Stages!Places' = {x \in P : stages'[x[1]][x[2]].lo <= stages'[x[1]][x[2]].hi}
      /\ \A x \in P : StagesCarried'[x] = stages'[x[1]][x[2]].query_idx
  BY <1>1, <1>2, <1>3, StagesPlaces, StagesPlacesNext
<1>5. \A x \in P : /\ x[1] \in 0 .. Stages!H /\ x[2] \in Stages!Lanes
                   /\ stages[x[1]][x[2]] \in StageTask
                   /\ StagesCarried[x] = stages[x[1]][x[2]].query_idx
  BY <1>2, <1>3, StagesPlaces
<1>6. ASSUME NEW x \in P, x \notin Stages!Places
      PROVE  stages'[x[1]][x[2]] = stages[x[1]][x[2]]
  BY <1>1, <1>4, <1>5, <1>6 DEF Stages!Active
<1>7. ASSUME NEW x \in Stages!Places
      PROVE  /\ x[1] < Stages!H
             /\ stages'[x[1]][x[2]] \in StageTask
             /\ stages'[x[1]][x[2]].query_idx = stages[x[1]][x[2]].query_idx
             /\ stages'[x[1]][x[2]].lo <= stages'[x[1]][x[2]].hi
             /\ Searching(stages'[x[1]][x[2]], Left("refill", x[1]))
  <2>1. /\ x \in P /\ x[1] \in 0 .. Stages!H /\ x[2] \in Stages!Lanes
        /\ stages[x[1]][x[2]] \in StageTask /\ stages[x[1]][x[2]].query_idx \in QueryIdx
        /\ Searching(stages[x[1]][x[2]], Left(pc, x[1]))
        /\ stages[x[1]][x[2]].lo <= stages[x[1]][x[2]].hi
    BY <1>3, <1>4, <1>5, StagesCarries
  <2>2. x[1] # Stages!H
    BY <1>2, <2>1 DEF Stages!Ending, Stages!Active
  <2>3. PICK s, t, H : s = x[1] /\ t = stages[x[1]][x[2]] /\ H = Stages!H
    OBVIOUS
  <2>4. PICK q, v, w : q = t.query_idx /\ v = SpanOf(t) /\ w = Windows!Halved(q, v)
    OBVIOUS
  <2>5. s \in Nat /\ H \in Nat /\ s < H
    <3>1. s \in 0 .. H /\ s # H /\ H \in Nat
      BY <1>4, <2>1, <2>2, <2>3
    <3> QED  BY <3>1
  <2>6. stages'[x[1]][x[2]] = Stages!HalvedTask(t)
    BY <1>1, <2>1, <2>3, <2>5 DEF Stages!Active
  <2>7. Stages!HalvedTask(t) = [query_idx |-> q, lo |-> w.lo, hi |-> w.hi]
    BY <2>4, StagesSame DEF Stages!HalvedTask, SpanOf
  <2>8. Search(q, v) /\ Narrow(v, Stages!pow2, H - s) /\ q \in QueryIdx /\ v.lo <= v.hi
    BY <1>1, <2>1, <2>3, <2>4 DEF Searching, Left, SpanOf
  <2>9. Search(q, w) /\ w.lo <= w.hi
    BY <1>2, <2>4, <2>8, SearchHalves
  <2>10. PICK k \in Nat : k = H - s - 1 /\ k + 1 = H - s
    BY <2>5
  <2>11. Narrow(w, Stages!pow2, k)
    <3>1. Narrow(v, Stages!pow2, k + 1)
      BY <2>8, <2>10
    <3> QED  BY <1>2, <2>4, <2>8, <3>1, NarrowHalves
  <2>12. w \in [lo : Nat, hi : Nat]
    BY <2>9 DEF Search
  <2>13. PICK u : u = [query_idx |-> q, lo |-> w.lo, hi |-> w.hi]
    OBVIOUS
  <2>14. u \in StageTask /\ u.query_idx = q /\ u.lo <= u.hi /\ SpanOf(u) = w
    <3>1. q \in Nat
      BY <2>1, <2>3, <2>4 DEF StageTask
    <3> QED  BY <2>9, <2>12, <2>13, <3>1 DEF StageTask, SpanOf
  <2>15. Searching(u, k)
    BY <2>9, <2>11, <2>14 DEF Searching
  <2>16. k = Left("refill", x[1])
    BY <2>3, <2>10 DEF Left
  <2> QED  BY <2>3, <2>4, <2>5, <2>6, <2>7, <2>13, <2>14, <2>15, <2>16
<1>8. Stages!Places' = Stages!Places
  BY <1>4, <1>6, <1>7
<1>9. \A b \in Stages!Places : StagesCarried'[b] = StagesCarried[b]
  BY <1>4, <1>5, <1>7
<1>10. OneEach(Stages!Places, StagesCarried, next_query_idx)
  BY DEF StagesIInv
<1>11. OneEach(Stages!Places', StagesCarried', next_query_idx')
  BY <1>1, <1>8, <1>9, <1>10 DEF OneEach
<1>12. Stages!Settled' = Stages!Settled
  <2>1. {StagesCarried'[b] : b \in Stages!Places} = {StagesCarried[b] : b \in Stages!Places}
    BY <1>9
  <2> QED  BY <1>1, <1>8, <2>1, StagesSettledLanded DEF Landed
<1>13. stages' \in [0 .. Stages!H -> [Stages!Lanes -> StageTask]]
  <2>1. \A s \in 0 .. Stages!H, j \in Stages!Lanes : stages'[s][j] \in StageTask
    <3> TAKE s \in 0 .. Stages!H, j \in Stages!Lanes
    <3>1. PICK x : x = <<s, j>>
      OBVIOUS
    <3>2. x \in P /\ x[1] = s /\ x[2] = j
      BY <1>3, <3>1
    <3> QED  BY <1>5, <1>6, <1>7, <3>2
  <2> QED  BY <1>1, <2>1
<1>14. Stages!Ending' = {}
  <2> SUFFICES ASSUME NEW j \in Stages!Lanes, Stages!Active(stages'[Stages!H][j]) PROVE FALSE
    <3>1. Stages!H' = Stages!H /\ Stages!Lanes' = Stages!Lanes
      BY <1>1, StagesPlacesNext DEF Stages!Lanes
    <3> QED  BY <3>1 DEF Stages!Ending, Stages!Active
  <2>1. stages'[Stages!H][j] = stages[Stages!H][j]
    BY <1>1, <1>4
  <2> QED  BY <1>2, <2>1 DEF Stages!Ending
<1>15. \A x \in Stages!Places' : Searching(stages'[x[1]][x[2]], Left(pc', x[1]))
  BY <1>1, <1>7, <1>8
<1>16. next_query_idx' \in 0 .. n
  BY <1>1 DEF StagesIInv, StagesTypeOK
<1>17. StagesIInv'
  BY <1>1, <1>11, <1>12, <1>13, <1>14, <1>15, <1>16, StagesQuietStep
<1> QED  BY <1>1, <1>12, <1>17 DEF Stages!Answered

(* The stages move on, and the first takes the next queries. *)
LEMMA StagesRotateAndRefill ==
  ASSUME StagesIInv, Stages!RotateAndRefill
  PROVE  /\ StagesIInv' /\ UNCHANGED <<index, queries, found, results>>
         /\ Stages!Answered' = Stages!Answered
<1>1. /\ UNCHANGED <<index, queries, found, results, finished>>
      /\ pc = "refill" /\ pc' = "loop" /\ next_query_idx' = Min2(n, next_query_idx + POOL_SIZE)
      /\ stages' = [s \in 0 .. Stages!H |->
                      IF s = 0 THEN [j \in Stages!Lanes |-> Stages!Refilled(j, stages[Stages!H][j])]
                      ELSE stages[s - 1]]
  BY StagesSame DEF Stages!RotateAndRefill, Stages!args, Stages!outs
<1>2. WindowCallOK /\ StagesTypeOK /\ Stages!Ending = {} /\ index \in StageIndexes
  BY <1>1 DEF StagesIInv, StagesTypeOK
<1>3. PICK P : P = (0 .. Stages!H) \X Stages!Lanes
  OBVIOUS
<1>4. PICK H, next, next2 : H = Stages!H /\ next = next_query_idx /\ next2 = next_query_idx'
  OBVIOUS
<1>5. /\ n \in Nat /\ QueryIdx = 0 .. n - 1 /\ next \in 0 .. n /\ H \in Nat \ {0}
      /\ Stages!Lanes = 0 .. POOL_SIZE - 1 /\ POOL_SIZE \in Nat \ {0}
  BY <1>2, <1>4, StagesSettledCounted, StagesPlaces, PoolAssumption DEF StagesTypeOK
<1>6. next2 \in 0 .. n /\ next <= next2 /\ \A j \in Stages!Lanes : next + j < n <=> next + j < next2
  <2>1. next2 = IF n < next + POOL_SIZE THEN n ELSE next + POOL_SIZE
    BY <1>1, <1>4 DEF Min2
  <2> QED  BY <1>5, <2>1
<1>7. /\ Stages!Places = {x \in P : stages[x[1]][x[2]].lo <= stages[x[1]][x[2]].hi}
      /\ Stages!Places' = {x \in P : stages'[x[1]][x[2]].lo <= stages'[x[1]][x[2]].hi}
      /\ \A x \in P : StagesCarried'[x] = stages'[x[1]][x[2]].query_idx
  BY <1>1, <1>2, <1>3, StagesPlaces, StagesPlacesNext
<1>8. \A x \in P : /\ x[1] \in 0 .. H /\ x[2] \in Stages!Lanes /\ x = <<x[1], x[2]>>
                   /\ stages[x[1]][x[2]] \in StageTask
                   /\ StagesCarried[x] = stages[x[1]][x[2]].query_idx
  BY <1>2, <1>3, <1>4, StagesPlaces
<1>9. ASSUME NEW j \in Stages!Lanes
      PROVE  /\ stages'[0][j] \in StageTask
             /\ stages'[0][j].lo <= stages'[0][j].hi <=> next + j < next2
             /\ next + j < next2 => stages'[0][j].query_idx = next + j /\ Searching(stages'[0][j], H)
  <2>1. stages'[0][j] = Stages!Refilled(j, stages[H][j]) /\ stages[H][j] \in StageTask
    BY <1>1, <1>2, <1>4, <1>5 DEF StagesTypeOK
  <2>2. CASE next + j < next2
    <3>1. PICK q : q = next + j
      OBVIOUS
    <3>2. q \in QueryIdx /\ q \in Nat
      <4>1. next \in Nat /\ j \in Nat /\ next2 \in 0 .. n
        BY <1>5, <1>6
      <4> QED  BY <1>5, <2>2, <3>1, <4>1
    <3>3. stages'[0][j] = [query_idx |-> q, lo |-> Windows!Window(q).lo, hi |-> Windows!Window(q).hi]
      <4>1. next + j < n
        BY <1>6, <2>2
      <4>2. Stages!Refilled(j, stages[H][j]) = Stages!Task(q)
        BY <1>4, <3>1, <4>1, StagesSame DEF Stages!Refilled
      <4> QED  BY <2>1, <4>2, StagesSame DEF Stages!Task
    <3>4. PICK w : w = Windows!Window(q)
      OBVIOUS
    <3>5. w \in [lo : Nat, hi : Nat] /\ Search(q, w) /\ Narrow(w, Stages!pow2, H)
      BY <1>2, <1>4, <3>2, <3>4, WindowFacts, SearchStarts, StagesSteps DEF Stages!H
    <3>6. w.lo <= w.hi
      <4>1. KeyAt(q) \in Key
        BY <1>2, <3>2, WindowFacts
      <4>2. w = index.window[KeyAt(q)]
        BY <3>4, WindowsSame DEF Windows!Window
      <4> QED  BY <1>2, <4>1, <4>2, StagesAssumption DEF StageIndexes
    <3>7. PICK u : u = [query_idx |-> q, lo |-> w.lo, hi |-> w.hi]
      OBVIOUS
    <3>8. u \in StageTask /\ u.query_idx = q /\ u.lo <= u.hi /\ SpanOf(u) = w
      BY <3>2, <3>5, <3>6, <3>7 DEF StageTask, SpanOf
    <3>9. Searching(u, H)
      BY <3>5, <3>8 DEF Searching
    <3> QED  BY <2>2, <3>1, <3>3, <3>4, <3>7, <3>8, <3>9
  <2>3. CASE ~(next + j < next2)
    <3>1. ~(next + j < n)
      BY <1>6, <2>3
    <3>2. stages'[0][j] = [stages[H][j] EXCEPT !.lo = 1, !.hi = 0]
      BY <1>4, <2>1, <3>1, StagesSame DEF Stages!Refilled
    <3>3. PICK u, m : u = stages[H][j] /\ m = stages'[0][j]
      OBVIOUS
    <3>4. u \in StageTask /\ m = [u EXCEPT !.lo = 1, !.hi = 0]
      BY <2>1, <3>2, <3>3
    <3>5. m \in StageTask /\ m.lo = 1 /\ m.hi = 0
      BY <3>4 DEF StageTask
    <3>6. ~(m.lo <= m.hi)
      BY <3>5
    <3> QED  BY <2>3, <3>3, <3>5, <3>6
  <2> QED  BY <2>2, <2>3
<1>10. \A s \in 1 .. H : stages'[s] = stages[s - 1]
  BY <1>1, <1>4, <1>5
<1>11. ASSUME NEW x \in Stages!Places
       PROVE  /\ x[1] \in 0 .. H - 1
              /\ <<x[1] + 1, x[2]>> \in Stages!Places'
              /\ StagesCarried'[<<x[1] + 1, x[2]>>] = StagesCarried[x]
  <2>1. /\ x \in P /\ x[1] \in 0 .. H /\ x[2] \in Stages!Lanes
        /\ StagesCarried[x] = stages[x[1]][x[2]].query_idx
        /\ stages[x[1]][x[2]].lo <= stages[x[1]][x[2]].hi
    BY <1>7, <1>8
  <2>2. x[1] # H
    BY <1>2, <1>4, <2>1 DEF Stages!Ending, Stages!Active
  <2>3. PICK s, j, y : s = x[1] /\ j = x[2] /\ y = <<s + 1, j>>
    OBVIOUS
  <2>4. s \in 0 .. H /\ s # H /\ j \in Stages!Lanes
    BY <2>1, <2>2, <2>3
  <2>5. s \in 0 .. H - 1 /\ s + 1 \in 1 .. H /\ (s + 1) - 1 = s
    BY <1>5, <2>4
  <2>6. y \in P /\ y[1] = s + 1 /\ y[2] = j
    BY <1>3, <1>4, <2>3, <2>4, <2>5
  <2>7. stages'[s + 1] = stages[s]
    BY <1>10, <2>5
  <2> QED  BY <1>7, <2>1, <2>3, <2>5, <2>6, <2>7
<1>12. ASSUME NEW x \in Stages!Places', x[1] # 0
       PROVE  \E b \in Stages!Places : /\ x = <<b[1] + 1, b[2]>> /\ b[1] \in 0 .. H - 1
                                       /\ stages'[x[1]][x[2]] = stages[b[1]][b[2]]
  <2>1. /\ x \in P /\ x[1] \in 0 .. H /\ x[2] \in Stages!Lanes /\ x = <<x[1], x[2]>>
        /\ stages'[x[1]][x[2]].lo <= stages'[x[1]][x[2]].hi
    BY <1>7, <1>8
  <2>2. PICK s, j, b : s = x[1] - 1 /\ j = x[2] /\ b = <<s, j>>
    OBVIOUS
  <2>3. s \in 0 .. H - 1 /\ s \in 0 .. H /\ x[1] = s + 1 /\ s + 1 \in 1 .. H /\ (s + 1) - 1 = s
    BY <1>5, <1>12, <2>1, <2>2
  <2>4. b \in P /\ b[1] = s /\ b[2] = j
    BY <1>3, <1>4, <2>1, <2>2, <2>3
  <2>5. stages'[x[1]][x[2]] = stages[b[1]][b[2]]
    BY <1>10, <2>2, <2>3, <2>4
  <2> QED  BY <1>7, <2>1, <2>2, <2>3, <2>4, <2>5
<1>13. ASSUME NEW x \in Stages!Places', x[1] = 0
       PROVE  /\ x[2] \in Stages!Lanes /\ x = <<0, x[2]>> /\ next + x[2] < next2
              /\ StagesCarried'[x] = next + x[2] /\ Searching(stages'[x[1]][x[2]], H)
  BY <1>7, <1>8, <1>9, <1>13
<1>14. \A q \in next .. next2 - 1 : \E x \in Stages!Places' : x[1] = 0 /\ StagesCarried'[x] = q
  <2> TAKE q \in next .. next2 - 1
  <2>1. PICK j : j = q - next
    OBVIOUS
  <2>2. next2 <= next + POOL_SIZE
    BY <1>1, <1>4, <1>5 DEF Min2
  <2>3. j \in Stages!Lanes /\ next + j = q /\ next + j < next2
    BY <1>5, <1>6, <2>1, <2>2
  <2>4. PICK x : x = <<0, j>>
    OBVIOUS
  <2>5. x \in P /\ x[1] = 0 /\ x[2] = j
    BY <1>3, <1>4, <1>5, <2>3, <2>4
  <2> QED  BY <1>7, <1>9, <2>3, <2>5
<1>15. OneEach(Stages!Places, StagesCarried, next)
  BY <1>4 DEF StagesIInv
<1>16. /\ OneEach(Stages!Places', StagesCarried', next2)
       /\ Landed(Stages!Places', StagesCarried', next2) = Landed(Stages!Places, StagesCarried, next)
  <2>1. PICK B, idx, B2, idx2 : /\ B = Stages!Places /\ idx = StagesCarried
                                /\ B2 = Stages!Places' /\ idx2 = StagesCarried'
    OBVIOUS
  <2>2. \A b \in B : /\ idx[b] \in 0 .. next - 1 /\ <<b[1] + 1, b[2]>> \in B2
                     /\ idx2[<<b[1] + 1, b[2]>>] = idx[b]
    BY <1>11, <1>15, <2>1 DEF OneEach
  <2>3. \A x \in B2 : x[1] # 0 => \E b \in B : x = <<b[1] + 1, b[2]>> /\ idx2[x] = idx[b]
    <3> SUFFICES ASSUME NEW x \in B2, x[1] # 0
                 PROVE  \E b \in B : x = <<b[1] + 1, b[2]>> /\ idx2[x] = idx[b]
      OBVIOUS
    <3>1. PICK b \in B : x = <<b[1] + 1, b[2]>>
      BY <1>12, <2>1
    <3> QED  BY <2>2, <3>1
  <2>4. \A x \in B2 : x[1] = 0 => x = <<0, x[2]>> /\ idx2[x] = next + x[2] /\ idx2[x] \in next .. next2 - 1
    <3> SUFFICES ASSUME NEW x \in B2, x[1] = 0
                 PROVE  x = <<0, x[2]>> /\ idx2[x] = next + x[2] /\ idx2[x] \in next .. next2 - 1
      OBVIOUS
    <3>1. x[2] \in Stages!Lanes /\ x = <<0, x[2]>> /\ next + x[2] < next2 /\ idx2[x] = next + x[2]
      BY <1>13, <2>1
    <3>2. PICK j : j = x[2]
      OBVIOUS
    <3>3. j \in Nat /\ next \in Nat /\ next2 \in Nat /\ next + j < next2
      BY <1>5, <1>6, <3>1, <3>2
    <3> QED  BY <3>1, <3>2, <3>3
  <2>5. \A x \in B2 : (\E b \in B : idx2[x] = idx[b]) \/ idx2[x] \in next .. next2 - 1
    BY <2>3, <2>4
  <2>6. ASSUME NEW x \in B2, NEW y \in B2, idx2[x] = idx2[y] PROVE x = y
    <3>1. CASE x[1] # 0 /\ y[1] # 0
      <4>1. PICK a \in B : x = <<a[1] + 1, a[2]>> /\ idx2[x] = idx[a]
        BY <2>3, <3>1
      <4>2. PICK b \in B : y = <<b[1] + 1, b[2]>> /\ idx2[y] = idx[b]
        BY <2>3, <3>1
      <4>3. a = b
        BY <1>15, <2>1, <2>6, <4>1, <4>2 DEF OneEach
      <4> QED  BY <4>1, <4>2, <4>3
    <3>2. CASE x[1] = 0 /\ y[1] = 0
      <4>1. PICK a, b : a = x[2] /\ b = y[2]
        OBVIOUS
      <4>2. x = <<0, a>> /\ y = <<0, b>> /\ next + a = next + b
        BY <2>4, <2>6, <3>2, <4>1
      <4>3. a \in Nat /\ b \in Nat /\ next \in Nat
        BY <1>5, <1>13, <2>1, <3>2, <4>1
      <4>4. a = b
        BY <4>2, <4>3
      <4> QED  BY <4>2, <4>4
    <3>3. CASE x[1] # 0 /\ y[1] = 0
      <4>1. idx2[x] \in 0 .. next - 1
        BY <2>2, <2>3, <3>3
      <4>2. idx2[y] \in next .. next2 - 1
        BY <2>4, <3>3
      <4> QED  BY <1>5, <2>6, <4>1, <4>2
    <3>4. CASE x[1] = 0 /\ y[1] # 0
      <4>1. idx2[y] \in 0 .. next - 1
        BY <2>2, <2>3, <3>4
      <4>2. idx2[x] \in next .. next2 - 1
        BY <2>4, <3>4
      <4> QED  BY <1>5, <2>6, <4>1, <4>2
    <3> QED  BY <3>1, <3>2, <3>3, <3>4
  <2>7. \A x, y \in B2 : x # y => idx2[x] # idx2[y]
    BY <2>6
  <2>8. \A b \in B : \E x \in B2 : idx2[x] = idx[b]
    BY <2>2
  <2>9. \A q \in next .. next2 - 1 : \E x \in B2 : idx2[x] = q
    BY <1>14, <2>1
  <2>10. next \in Nat /\ next2 \in Nat /\ next <= next2 /\ OneEach(B, idx, next)
    BY <1>5, <1>6, <1>15, <2>1
  <2>11. OneEach(B2, idx2, next2) /\ Landed(B2, idx2, next2) = Landed(B, idx, next)
    BY <2>5, <2>7, <2>8, <2>9, <2>10, PlacesMove
  <2> QED  BY <2>1, <2>11
<1>17. Stages!Settled' = Stages!Settled
  BY <1>4, <1>16, StagesSettledLanded
<1>18. stages' \in [0 .. Stages!H -> [Stages!Lanes -> StageTask]]
  <2>1. \A s \in 0 .. H : stages'[s] \in [Stages!Lanes -> StageTask]
    <3> TAKE s \in 0 .. H
    <3>1. CASE s = 0
      <4>1. stages'[0] = [j \in Stages!Lanes |-> Stages!Refilled(j, stages[Stages!H][j])]
        BY <1>1, <1>4, <1>5
      <4>2. \A j \in Stages!Lanes : stages'[0][j] \in StageTask
        BY <1>9
      <4> QED  BY <3>1, <4>1, <4>2
    <3>2. CASE s # 0
      <4>1. s \in 1 .. H /\ s - 1 \in 0 .. H
        BY <1>5, <3>2
      <4> QED  BY <1>2, <1>4, <1>10, <4>1 DEF StagesTypeOK
    <3> QED  BY <3>1, <3>2
  <2> QED  BY <1>1, <1>4, <2>1
<1>19. \A x \in Stages!Places' : Searching(stages'[x[1]][x[2]], Left(pc', x[1]))
  <2> TAKE x \in Stages!Places'
  <2>1. CASE x[1] = 0
    <3>1. Left(pc', x[1]) = H
      BY <1>1, <1>4, <1>5, <2>1 DEF Left
    <3> QED  BY <1>13, <2>1, <3>1
  <2>2. CASE x[1] # 0
    <3>1. PICK b \in Stages!Places : /\ x = <<b[1] + 1, b[2]>> /\ b[1] \in 0 .. H - 1
                                    /\ stages'[x[1]][x[2]] = stages[b[1]][b[2]]
      BY <1>12, <2>2
    <3>2. Searching(stages[b[1]][b[2]], Left(pc, b[1]))
      BY StagesCarries
    <3>3. Left(pc, b[1]) = Left(pc', x[1])
      <4>1. PICK s : s = b[1] /\ x[1] = s + 1
        BY <3>1
      <4>2. s \in Nat /\ H - s - 1 = H - (s + 1)
        BY <1>5, <3>1, <4>1
      <4>3. Left(pc, s) = H - s - 1 /\ Left(pc', s + 1) = H - (s + 1)
        BY <1>1, <1>4 DEF Left
      <4> QED  BY <4>1, <4>2, <4>3
    <3> QED  BY <3>1, <3>2, <3>3
  <2> QED  BY <2>1, <2>2
<1>20. StagesIInv'
  BY <1>1, <1>4, <1>6, <1>16, <1>17, <1>18, <1>19, StagesQuietStep
<1> QED  BY <1>1, <1>17, <1>20 DEF Stages!Answered

(* The tasks of the last stage end: their queries are answered, all of them *)
(* at once, and no others.                                                 *)
LEMMA StagesVerifyStage ==
  ASSUME StagesIInv, Stages!VerifyStage
  PROVE  StagesIInv' /\ [Stages!Abstract!Next]_(Stages!Abstract!vars)
<1>1. PICK H, E, Qs, slots :
        /\ H = Stages!H /\ E = Stages!Ending
        /\ Qs = {stages[Stages!H][j].query_idx : j \in Stages!Ending}
        /\ slots = [q \in {stages[Stages!H][j].query_idx : j \in Stages!Ending} |->
                      stages[Stages!H][CHOOSE j \in Stages!Ending : stages[Stages!H][j].query_idx = q].lo]
  OBVIOUS
<1>2. /\ UNCHANGED <<index, queries, next_query_idx>> /\ pc = "verify" /\ pc' = "halve"
      /\ Windows!Collect(slots) /\ finished' = finished + Cardinality(E)
      /\ \E row : /\ row = [j \in Stages!Lanes |-> IF j \in E
                                THEN [stages[H][j] EXCEPT !.lo = 1, !.hi = 0] ELSE stages[H][j]]
                   /\ stages' = [stages EXCEPT ![H] = row]
  <2>1. /\ UNCHANGED <<index, queries, next_query_idx>> /\ pc = "verify" /\ pc' = "halve"
        /\ finished' = finished + Stages!Cardinality(Stages!Ending)
    BY DEF Stages!VerifyStage, Stages!args
  <2>2. Stages!Collect(slots)
    BY <1>1, Zenon DEF Stages!VerifyStage
  <2>3. stages' = [stages EXCEPT ![Stages!H] = [j \in Stages!Lanes |-> IF j \in Stages!Ending
                                    THEN [stages[Stages!H][j] EXCEPT !.lo = 1, !.hi = 0]
                                    ELSE stages[Stages!H][j]]]
    BY Zenon DEF Stages!VerifyStage
  <2>4. PICK row : row = [j \in Stages!Lanes |-> IF j \in Stages!Ending
                                    THEN [stages[Stages!H][j] EXCEPT !.lo = 1, !.hi = 0]
                                    ELSE stages[Stages!H][j]]
    OBVIOUS
  <2>5. stages' = [stages EXCEPT ![Stages!H] = row]
    BY <2>3, <2>4, Zenon
  <2>6. row = [j \in Stages!Lanes |-> IF j \in E THEN [stages[H][j] EXCEPT !.lo = 1, !.hi = 0]
                                     ELSE stages[H][j]]
    BY <1>1, <2>4, Zenon
  <2> QED  BY <1>1, <2>1, <2>2, <2>5, <2>6, StagesSame
<1>3. WindowCallOK /\ StagesTypeOK /\ AnswersRight(Windows!Items, Stages!Settled) /\ Powers(Stages!pow2)
  BY StagesSteps DEF StagesIInv, StagesTypeOK
<1>4. PICK P : P = (0 .. Stages!H) \X Stages!Lanes
  OBVIOUS
<1>5. /\ n \in Nat /\ QueryIdx = 0 .. n - 1 /\ next_query_idx \in 0 .. n /\ H \in Nat \ {0}
      /\ Stages!Lanes = 0 .. POOL_SIZE - 1 /\ POOL_SIZE \in Nat \ {0}
  BY <1>1, <1>3, StagesSettledCounted, StagesPlaces, PoolAssumption DEF StagesTypeOK
<1>6. /\ Stages!Places = {x \in P : stages[x[1]][x[2]].lo <= stages[x[1]][x[2]].hi}
      /\ Stages!Places' = {x \in P : stages'[x[1]][x[2]].lo <= stages'[x[1]][x[2]].hi}
      /\ \A x \in P : StagesCarried'[x] = stages'[x[1]][x[2]].query_idx
  BY <1>2, <1>3, <1>4, StagesPlaces, StagesPlacesNext
<1>7. \A x \in P : /\ x[1] \in 0 .. H /\ x[2] \in Stages!Lanes /\ x = <<x[1], x[2]>>
                   /\ stages[x[1]][x[2]] \in StageTask
                   /\ StagesCarried[x] = stages[x[1]][x[2]].query_idx
  BY <1>1, <1>3, <1>4, StagesPlaces
<1>8. /\ stages \in [0 .. H -> [Stages!Lanes -> StageTask]]
      /\ E = {j \in Stages!Lanes : stages[H][j].lo <= stages[H][j].hi}
  BY <1>1, <1>3 DEF StagesTypeOK, Stages!Ending, Stages!Active
<1>28. PICK row : /\ row = [j \in Stages!Lanes |-> IF j \in E
                             THEN [stages[H][j] EXCEPT !.lo = 1, !.hi = 0] ELSE stages[H][j]]
                  /\ stages' = [stages EXCEPT ![H] = row]
  BY <1>2
<1>29. stages'[H] = row /\ stages' = [s \in 0 .. H |-> stages'[s]]
  <2>1. DOMAIN stages = 0 .. H /\ H \in 0 .. H
    BY <1>5, <1>8
  <2>2. PICK D : D = 0 .. H
    OBVIOUS
  <2>3. stages' = [s \in D |-> IF s = H THEN row ELSE stages[s]]
    BY <1>28, <2>1, <2>2
  <2> QED  BY <2>1, <2>2, <2>3
<1>9. PICK C : C = {<<H, j>> : j \in E}
  OBVIOUS
<1>10. C \subseteq Stages!Places /\ \A x \in Stages!Places : x \in C <=> x[1] = H
  <2>1. ASSUME NEW j \in E PROVE <<H, j>> \in Stages!Places
    <3>1. PICK x : x = <<H, j>>
      OBVIOUS
    <3>2. x \in P /\ x[1] = H /\ x[2] = j
      BY <1>1, <1>4, <1>5, <1>8, <3>1
    <3> QED  BY <1>6, <1>8, <3>1, <3>2
  <2>2. ASSUME NEW x \in Stages!Places, x[1] = H PROVE x \in C
    <3>1. x \in P /\ x[2] \in Stages!Lanes /\ x = <<H, x[2]>> /\ stages[H][x[2]].lo <= stages[H][x[2]].hi
      BY <1>6, <1>7, <2>2
    <3> QED  BY <1>8, <1>9, <3>1
  <2>3. \A x \in C : x[1] = H
    BY <1>9
  <2> QED  BY <1>9, <2>1, <2>2, <2>3
<1>11. \A s \in 0 .. H : s # H => stages'[s] = stages[s]
  BY <1>8, <1>28
<1>12. ASSUME NEW j \in Stages!Lanes
       PROVE  /\ stages'[H][j] \in StageTask
              /\ j \notin E => stages'[H][j] = stages[H][j]
              /\ ~(stages'[H][j].lo <= stages'[H][j].hi)
  <2>1. stages'[H][j] = IF j \in E THEN [stages[H][j] EXCEPT !.lo = 1, !.hi = 0] ELSE stages[H][j]
    BY <1>28, <1>29
  <2>2. stages[H][j] \in StageTask
    BY <1>5, <1>8
  <2>3. PICK u, m : u = stages[H][j] /\ m = stages'[H][j]
    OBVIOUS
  <2>4. CASE j \in E
    <3>1. u \in StageTask /\ m = [u EXCEPT !.lo = 1, !.hi = 0]
      BY <2>1, <2>2, <2>3, <2>4
    <3>2. m \in StageTask /\ m.lo = 1 /\ m.hi = 0
      BY <3>1 DEF StageTask
    <3>3. ~(m.lo <= m.hi)
      BY <3>2
    <3> QED  BY <2>3, <2>4, <3>2, <3>3
  <2>5. CASE j \notin E
    BY <1>8, <2>1, <2>2, <2>5
  <2> QED  BY <2>4, <2>5
<1>13. Stages!Places' = Stages!Places \ C
  <2>1. ASSUME NEW x \in P PROVE x \in Stages!Places' <=> x \in Stages!Places /\ x[1] # H
    <3>1. CASE x[1] = H
      BY <1>6, <1>7, <1>12, <3>1
    <3>2. CASE x[1] # H
      <4>1. stages'[x[1]] = stages[x[1]]
        BY <1>7, <1>11, <3>2
      <4> QED  BY <1>6, <3>2, <4>1
    <3> QED  BY <3>1, <3>2
  <2>2. Stages!Places \subseteq P /\ Stages!Places' \subseteq P
    BY <1>6
  <2> QED  BY <1>10, <2>1, <2>2
<1>14. \A b \in Stages!Places \ C : /\ StagesCarried'[b] = StagesCarried[b]
                                     /\ stages'[b[1]][b[2]] = stages[b[1]][b[2]] /\ b[1] # H
  <2> TAKE b \in Stages!Places \ C
  <2>1. b \in P /\ b[1] \in 0 .. H /\ b[1] # H /\ StagesCarried[b] = stages[b[1]][b[2]].query_idx
        /\ StagesCarried'[b] = stages'[b[1]][b[2]].query_idx
    BY <1>6, <1>7, <1>10
  <2>2. stages'[b[1]] = stages[b[1]]
    BY <1>11, <2>1
  <2> QED  BY <2>1, <2>2
<1>15. OneEach(Stages!Places, StagesCarried, next_query_idx)
  BY DEF StagesIInv
<1>16. PICK A : A = Stages!Settled
  OBVIOUS
<1>17. Qs = {StagesCarried[x] : x \in C}
  <2>1. \A j \in E : StagesCarried[<<H, j>>] = stages[H][j].query_idx
    <3> TAKE j \in E
    <3>1. PICK x : x = <<H, j>>
      OBVIOUS
    <3>2. x \in P /\ x[1] = H /\ x[2] = j
      BY <1>1, <1>4, <1>5, <1>8, <3>1
    <3> QED  BY <1>7, <3>1, <3>2
  <2>2. ASSUME NEW x \in C PROVE StagesCarried[x] \in Qs
    <3>1. PICK j \in E : x = <<H, j>>
      BY <1>9
    <3> QED  BY <1>1, <2>1, <3>1
  <2>3. ASSUME NEW q \in Qs PROVE \E x \in C : StagesCarried[x] = q
    <3>1. PICK j \in E : q = stages[H][j].query_idx
      BY <1>1
    <3> QED  BY <1>9, <2>1, <3>1
  <2> QED  BY <2>2, <2>3
<1>18. /\ OneEach(Stages!Places', StagesCarried', next_query_idx')
       /\ Stages!Settled' = A \cup Qs /\ Qs \cap A = {}
  <2>1. \A b \in Stages!Places \ C : StagesCarried'[b] = StagesCarried[b]
    BY <1>14
  <2>2. next_query_idx \in Nat
    BY <1>5
  <2>3. /\ OneEach(Stages!Places \ C, StagesCarried', next_query_idx)
        /\ Landed(Stages!Places \ C, StagesCarried', next_query_idx)
           = Landed(Stages!Places, StagesCarried, next_query_idx) \cup {StagesCarried[b] : b \in C}
        /\ {StagesCarried[b] : b \in C} \cap Landed(Stages!Places, StagesCarried, next_query_idx) = {}
    BY <1>10, <1>15, <2>1, <2>2, PlacesEnd
  <2> QED  BY <1>2, <1>13, <1>16, <1>17, <2>3, StagesSettledLanded
<1>19. Qs \subseteq QueryIdx
  <2>1. \A x \in C : StagesCarried[x] \in 0 .. next_query_idx - 1
    BY <1>10, <1>15 DEF OneEach
  <2> QED  BY <1>5, <1>17, <2>1
<1>20. \A q \in Qs : \E w : Search(q, w) /\ ~Windows!Open(w) /\ slots[q] = w.lo
  <2> TAKE q \in Qs
  <2>1. PICK j : j = CHOOSE k \in Stages!Ending : stages[Stages!H][k].query_idx = q
    OBVIOUS
  <2>2. j \in E /\ stages[H][j].query_idx = q /\ slots[q] = stages[H][j].lo
    BY <1>1, <2>1
  <2>3. PICK x : x = <<H, j>>
    OBVIOUS
  <2>4. x \in Stages!Places /\ x[1] = H /\ x[2] = j
    BY <1>9, <1>10, <2>2, <2>3
  <2>5. Searching(stages[H][j], Left(pc, H))
    BY <2>4, StagesCarries
  <2>6. Left(pc, H) = 0
    <3>1. Left(pc, H) = H - H
      BY <1>1, <1>2 DEF Left
    <3> QED  BY <1>5, <3>1
  <2>7. PICK w : w = SpanOf(stages[H][j])
    OBVIOUS
  <2>8. Search(q, w) /\ Narrow(w, Stages!pow2, 0) /\ slots[q] = w.lo
    BY <2>2, <2>5, <2>6, <2>7 DEF Searching, SpanOf
  <2> QED  BY <1>3, <2>8, NarrowClosed
<1>21. /\ WindowCallOK' /\ Answers(Windows!Items, A, Qs)
       /\ AnswersRight(Windows!Items, A \cup Qs)'
  <2>1. DOMAIN slots = Qs /\ AnswersRight(Windows!Items, A)
    BY <1>1, <1>3, <1>16
  <2>2. WindowCallOK /\ UNCHANGED <<index, queries>> /\ Windows!Collect(slots) /\ Qs \cap A = {}
    BY <1>2, <1>3, <1>18
  <2> QED  BY <1>19, <1>20, <2>1, <2>2, WindowCollectStep
<1>22. /\ A \subseteq QueryIdx /\ IsFiniteSet(A) /\ Cardinality(A) \in Nat /\ finished = Cardinality(A)
  BY <1>3, <1>16, StagesSettledCounted DEF StagesIInv
<1>23. finished' = Cardinality(Stages!Settled')
  <2>1. IsFiniteSet(E)
    <3>1. IsFiniteSet(Stages!Lanes)
      <4>1. \A a, b \in Int : IsFiniteSet(a .. b)
        BY FS_Interval
      <4> QED  BY <1>5, <4>1
    <3> QED  BY <1>8, <3>1, FS_Subset
  <2>2. PICK f : f = [j \in E |-> stages[H][j].query_idx]
    OBVIOUS
  <2>3. \A j, k \in E : j # k => f[j] # f[k]
    <3> TAKE j, k \in E
    <3>1. PICK x, y : x = <<H, j>> /\ y = <<H, k>>
      OBVIOUS
    <3>2. x \in Stages!Places /\ y \in Stages!Places /\ x[1] = H /\ x[2] = j /\ y[1] = H /\ y[2] = k
      BY <1>9, <1>10, <3>1
    <3>3. x \in P /\ y \in P
      BY <1>6, <3>2
    <3>4. StagesCarried[x] = f[j] /\ StagesCarried[y] = f[k]
      BY <1>7, <2>2, <3>2, <3>3
    <3>5. x # y => StagesCarried[x] # StagesCarried[y]
      BY <1>15, <3>2 DEF OneEach
    <3> QED  BY <3>2, <3>4, <3>5
  <2>4. IsFiniteSet({f[j] : j \in E}) /\ Cardinality({f[j] : j \in E}) = Cardinality(E)
    BY <2>1, <2>3, AsManyQueries
  <2>5. {f[j] : j \in E} = Qs
    BY <1>1, <2>2
  <2>6. IsFiniteSet(Qs) /\ Cardinality(Qs) = Cardinality(E) /\ Cardinality(E) \in Nat
    BY <2>1, <2>4, <2>5, FS_CardinalityType
  <2>7. Cardinality(A \cup Qs) = Cardinality(A) + Cardinality(Qs) - Cardinality(A \cap Qs)
    BY <1>22, <2>6, FS_Union
  <2>8. A \cap Qs = {} /\ Cardinality({}) = 0
    BY <1>18, FS_EmptySet
  <2>9. Cardinality(A \cap Qs) = 0
    BY <2>8
  <2>10. Cardinality(A \cup Qs) = Cardinality(A) + Cardinality(E)
    BY <1>22, <2>6, <2>7, <2>9
  <2> QED  BY <1>2, <1>18, <1>22, <2>10
<1>24. StagesIInv'
  <2>1. Stages!H' = Stages!H /\ StageIndexes' = StageIndexes /\ Stages!Lanes' = Stages!Lanes
    BY <1>2, StagesPlacesNext DEF Stages!Lanes
  <2>2. stages' \in [0 .. Stages!H -> [Stages!Lanes -> StageTask]]
    <3>1. \A s \in 0 .. H : stages'[s] \in [Stages!Lanes -> StageTask]
      <4> TAKE s \in 0 .. H
      <4>1. CASE s = H
        <5>1. stages'[H] = [j \in Stages!Lanes |-> stages'[H][j]]
          <6>1. row = [j \in Stages!Lanes |-> row[j]]
            BY <1>28
          <6> QED  BY <1>29, <6>1
        <5> QED  BY <1>12, <4>1, <5>1
      <4>2. CASE s # H
        BY <1>8, <1>11, <4>2
      <4> QED  BY <4>1, <4>2
    <3> QED  BY <1>1, <1>29, <3>1
  <2>3. n' = n /\ QueryIdx' = QueryIdx
    BY <1>2, SearchKept
  <2>4. StagesTypeOK'
    BY <1>2, <1>3, <1>21, <2>1, <2>2, <2>3 DEF StagesTypeOK
  <2>5. Stages!Ending' = {}
    BY <1>1, <1>12, <2>1 DEF Stages!Ending, Stages!Active
  <2>6. OneEach(Stages!Places, StagesCarried, next_query_idx)'
    BY <1>18 DEF OneEach
  <2>7. (\A x \in Stages!Places : Searching(Stages!TaskAt(x), Left(pc, x[1])))'
    <3>1. ASSUME NEW x \in Stages!Places' PROVE Searching(stages'[x[1]][x[2]], Left(pc', x[1]))
      <4>1. x \in Stages!Places /\ stages'[x[1]][x[2]] = stages[x[1]][x[2]]
        BY <1>13, <1>14
      <4>2. Searching(stages[x[1]][x[2]], Left(pc, x[1]))
        BY <4>1, StagesCarries
      <4>3. Left(pc', x[1]) = Left(pc, x[1])
        BY <1>2 DEF Left
      <4> QED  BY <4>1, <4>2, <4>3
    <3>2. /\ \A t, left : Searching(t, left)' <=> Searching(t, left)
          /\ \A p, s : Left(p, s)' = Left(p, s)
      BY <1>2, SearchingKept
    <3> QED  BY <3>1, <3>2 DEF Stages!TaskAt
  <2>8. AnswersRight(Windows!Items, Stages!Settled)'
    BY <1>18, <1>21 DEF AnswersRight
  <2> QED  BY <1>2, <1>23, <2>4, <2>5, <2>6, <2>7, <2>8 DEF StagesIInv
<1>25. Stages!Answered = A /\ Stages!Answered' = A \cup Qs
  BY <1>2, <1>16, <1>18 DEF Stages!Answered
<1>26. CASE Qs = {}
  <2>1. UNCHANGED outs
    BY <1>3, <1>21, <1>26, NoneAnswered DEF WindowCallOK
  <2>2. UNCHANGED Stages!Abstract!vars
    BY <1>2, <1>25, <1>26, <2>1 DEF outs, Stages!Abstract!vars, Stages!Items
  <2> QED  BY <1>24, <2>2
<1>27. CASE Qs # {}
  <2>1. A \cup Qs \subseteq QueryIdx
    BY <1>19, <1>22
  <2>2. Stages!Abstract!Answer
    BY <1>2, <1>3, <1>18, <1>21, <1>25, <1>27, <2>1, StagesAnswer
  <2> QED  BY <1>24, <2>2 DEF Stages!Abstract!Next
<1> QED  BY <1>26, <1>27

LEMMA StagesStutter ==
  ASSUME StagesIInv, UNCHANGED Stages!vars
  PROVE  /\ StagesIInv' /\ UNCHANGED <<index, queries, found, results>>
         /\ Stages!Answered' = Stages!Answered
<1>1. UNCHANGED <<index, queries, found, results, pc, stages, next_query_idx, finished>>
  BY DEF Stages!vars
<1>2. Stages!H' = Stages!H /\ StageIndexes' = StageIndexes
  BY <1>1, StagesPlacesNext
<1>3. /\ Stages!Places' = Stages!Places /\ StagesCarried' = StagesCarried
      /\ Stages!Settled' = Stages!Settled /\ Stages!QueryIdx' = Stages!QueryIdx
      /\ QueryIdx' = QueryIdx /\ n' = n /\ Windows!Size(index)' = Windows!Size(index)
      /\ Stages!Ending' = Stages!Ending
  BY <1>1, <1>2, SearchKept DEF Stages!Places, StagesCarried, Stages!TaskAt, Stages!Lanes, Stages!Settled,
     Stages!InFlight, QueryIdx, n, Stages!QueryIdx, Stages!n, Stages!Ending
<1>4. StagesTypeOK'
  BY <1>1, <1>2, <1>3, WindowCallUnchanged DEF StagesTypeOK, StagesIInv, Stages!Lanes
<1>5. (\A x \in Stages!Places : Searching(Stages!TaskAt(x), Left(pc, x[1])))'
  <2>1. /\ \A t, left : Searching(t, left)' <=> Searching(t, left)
        /\ \A p, s : Left(p, s)' = Left(p, s)
    BY <1>1, SearchingKept
  <2> QED  BY <1>1, <1>3, <2>1 DEF StagesIInv, Stages!TaskAt
<1>6. AnswersRight(Windows!Items, Stages!Settled)'
  <2>1. Windows!Items' = Windows!Items
    BY <1>1, SearchKept
  <2> QED  BY <1>1, <1>3, <2>1 DEF StagesIInv, AnswersRight, RightAnswer, Unanswered, KeyAt
<1>7. OneEach(Stages!Places, StagesCarried, next_query_idx)'
  BY <1>1, <1>3 DEF StagesIInv, OneEach
<1>8. StagesIInv'
  BY <1>1, <1>3, <1>4, <1>5, <1>6, <1>7 DEF StagesIInv
<1> QED  BY <1>1, <1>3, <1>8 DEF Stages!Answered

LEMMA StagesNext ==
  ASSUME StagesIInv, [Stages!Next]_(Stages!vars)
  PROVE  StagesIInv' /\ [Stages!Abstract!Next]_(Stages!Abstract!vars)
<1>1. CASE Stages!VerifyStage \/ Stages!Start
  BY <1>1, StagesVerifyStage, StagesStart
<1>2. CASE ~(Stages!VerifyStage \/ Stages!Start)
  <2>1. /\ StagesIInv' /\ UNCHANGED <<index, queries, found, results>>
        /\ Stages!Answered' = Stages!Answered
    BY <1>2, StagesLoopTest, StagesHalveStages, StagesRotateAndRefill, StagesStutter
    DEF Stages!Next, Stages!Returned
  <2>2. UNCHANGED Stages!Abstract!vars
    BY <2>1 DEF Stages!Abstract!vars, Stages!Items
  <2> QED  BY <2>1, <2>2
<1> QED  BY <1>1, <1>2

LEMMA StagesIInvImplies == ASSUME StagesIInv PROVE Stages!PipelineExact
<1>1. WindowCallOK /\ StagesTypeOK /\ Stages!H \in Nat \ {0} /\ Powers(Stages!pow2)
  BY StagesPlaces, StagesSteps DEF StagesIInv, StagesTypeOK
<1>2. \A x, y \in Stages!Places : x # y => Stages!TaskAt(x).query_idx # Stages!TaskAt(y).query_idx
  <2>1. \A x \in Stages!Places : StagesCarried[x] = Stages!TaskAt(x).query_idx
    BY DEF StagesCarried, Stages!Places
  <2> QED  BY <2>1 DEF StagesIInv, OneEach
<1>3. ASSUME NEW x \in Stages!Places
      PROVE  /\ Stages!OnTrack(Stages!TaskAt(x).query_idx,
                               [lo |-> Stages!TaskAt(x).lo, hi |-> Stages!TaskAt(x).hi])
             /\ x[1] = Stages!H => ~Stages!Open(Stages!TaskAt(x))
  <2>1. PICK t, w : t = Stages!TaskAt(x) /\ w = SpanOf(t)
    OBVIOUS
  <2>2. Search(t.query_idx, w) /\ Narrow(w, Stages!pow2, Left(pc, x[1]))
    BY <2>1 DEF StagesIInv, Searching
  <2>3. Stages!OnTrack(t.query_idx, w)
    BY <2>2, StagesSame DEF Search
  <2>4. ASSUME x[1] = Stages!H PROVE ~Stages!Open(t)
    <3>1. pc # "refill"
      <4>1. x \in (0 .. Stages!H) \X Stages!Lanes /\ Stages!Active(stages[x[1]][x[2]]) /\ x[2] \in Stages!Lanes
        BY DEF Stages!Places, Stages!TaskAt
      <4>2. x[2] \in Stages!Ending
        BY <2>4, <4>1 DEF Stages!Ending
      <4> QED  BY <4>2 DEF StagesIInv
    <3>2. Left(pc, x[1]) = 0
      BY <1>1, <2>4, <3>1 DEF Left
    <3>3. ~Windows!Open(w)
      BY <1>1, <2>2, <3>2, NarrowClosed
    <3> QED  BY <2>1, <3>3 DEF SpanOf, Stages!Open, Windows!Open
  <2> QED  BY <2>1, <2>3, <2>4 DEF SpanOf
<1>4. finished = Stages!Cardinality(Stages!Settled)
  BY StagesSame DEF StagesIInv
<1>5. AnswersRight(Windows!Items, Stages!Answered)
  <2>1. CASE pc = "returned" /\ Windows!Size(index) = 0
    BY <1>1, <2>1, EmptyIndexAnswers DEF StagesIInv
  <2>2. CASE ~(pc = "returned" /\ Windows!Size(index) = 0)
    BY <2>2, StagesSame DEF StagesIInv, Stages!Answered
  <2> QED  BY <2>1, <2>2
<1>6. Stages!AnswersRight(Stages!Items, Stages!Answered)
  BY <1>5, StagesSame
<1> QED  BY <1>2, <1>3, <1>4, <1>6 DEF Stages!PipelineExact

LEMMA StagesAbstractInit == Stages!Init => Stages!Abstract!Init
<1> SUFFICES ASSUME Stages!Init PROVE Stages!Abstract!Init
  OBVIOUS
<1>1. index \in AnyIndex /\ queries \in WindowBatches /\ found = [q \in QueryIdx |-> FALSE]
      /\ results = [q \in QueryIdx |-> Stale]
  BY StagesSame DEF Stages!Init, Stages!ArgsAndOutsInit, Stages!LookupInit
<1>2. queries \in Seq(Key) /\ Stages!Items \in SUBSET (Key \X Value)
  BY <1>1, WindowBatchesAssumption, ItemPairs, StagesSame
<1>3. Stages!Answered = {}
  BY DEF Stages!Init, Stages!Answered, Stages!Settled
<1> QED  BY <1>1, <1>2, <1>3 DEF QueryIdx, n, Stages!Abstract!Init, Stages!Abstract!Positions

-----------------------------------------------------------------------------
(* RS and PGM NoPrefetch, GroupPrefetch and Vectorized.                    *)

LEMMA RoundsSame ==
  /\ Rounds!n = n /\ Rounds!QueryIdx = QueryIdx /\ Rounds!args = <<index, queries>> /\ Rounds!outs = outs
  /\ Rounds!Items = Windows!Items /\ Rounds!data_size = Windows!Size(index)
  /\ \A q : Rounds!Window(q) = Windows!Window(q)
  /\ \A w : Rounds!Open(w) <=> Windows!Open(w)
  /\ \A q, w : Rounds!Halved(q, w) = Windows!Halved(q, w)
  /\ \A q, w : Rounds!OnTrack(q, w) <=> Windows!OnTrack(q, w)
  /\ \A slots : Rounds!Collect(slots) <=> Windows!Collect(slots)
  /\ \A items, A : Rounds!AnswersRight(items, A) <=> AnswersRight(items, A)
  /\ \A a, b : Rounds!Min2(a, b) = Min2(a, b)
  /\ \A S : Rounds!Cardinality(S) = Cardinality(S)
<1>1. /\ Rounds!n = n /\ Rounds!QueryIdx = QueryIdx /\ Rounds!args = <<index, queries>> /\ Rounds!outs = outs
      /\ Rounds!Items = Windows!Items
  BY DEF Rounds!n, n, Rounds!QueryIdx, QueryIdx, Rounds!args, Rounds!outs, outs, Rounds!Items, Windows!Items
<1>2. \A q : Rounds!KeyAt(q) = KeyAt(q) /\ Windows!KeyAt(q) = KeyAt(q)
  BY DEF Rounds!KeyAt, KeyAt, Windows!KeyAt
<1>3. \A S : Rounds!Cardinality(S) = Cardinality(S) /\ Windows!Cardinality(S) = Cardinality(S)
  BY DEF Rounds!Cardinality, Cardinality, Windows!Cardinality
<1>4. Rounds!Size(index) = Windows!Size(index) /\ Rounds!data_size = Windows!Size(index)
      /\ Windows!data_size = Windows!Size(index)
  BY <1>3 DEF Rounds!Size, Windows!Size, Rounds!data_size, Windows!data_size
<1>5. \A q : Rounds!Window(q) = Windows!Window(q)
  BY <1>2 DEF Rounds!Window, Windows!Window
<1>6. \A w : (Rounds!Open(w) <=> Windows!Open(w)) /\ Rounds!Mid(w) = Windows!Mid(w)
  BY DEF Rounds!Open, Windows!Open, Rounds!Mid, Windows!Mid
<1>7. \A q, w : Rounds!Halved(q, w) = Windows!Halved(q, w)
  BY <1>2, <1>6 DEF Rounds!Halved, Windows!Halved
<1>8. \A q : Rounds!Goal(q) = Windows!Goal(q)
  BY <1>2, <1>3, <1>5 DEF Rounds!Goal, Windows!Goal
<1>9. \A q, w : Rounds!OnTrack(q, w) <=> Windows!OnTrack(q, w)
  BY <1>5, <1>6, <1>8 DEF Rounds!OnTrack, Windows!OnTrack
<1>10. \A q, s : Rounds!IsHit(q, s) <=> Windows!IsHit(q, s)
  BY <1>2, <1>4 DEF Rounds!IsHit, Windows!IsHit
<1>11. ASSUME NEW slots PROVE Rounds!Collect(slots) <=> Windows!Collect(slots)
  <2>1. {x \in DOMAIN slots : Rounds!IsHit(x, slots[x])} = {x \in DOMAIN slots : Windows!IsHit(x, slots[x])}
    BY <1>10
  <2>2. \A hits : Rounds!Settle(hits) <=> Windows!Settle(hits)
    BY <1>1, WindowsSame DEF Rounds!Settle, Windows!Settle
  <2> QED  BY <2>1, <2>2 DEF Rounds!Collect, Windows!Collect
<1>12. \A items, A : Rounds!AnswersRight(items, A) <=> AnswersRight(items, A)
  BY <1>1, <1>2 DEF Rounds!AnswersRight, AnswersRight, Rounds!RightAnswer, RightAnswer, Rounds!Unanswered, Unanswered
<1>13. \A a, b : Rounds!Min2(a, b) = Min2(a, b)
  BY DEF Rounds!Min2, Min2
<1> QED  BY <1>1, <1>3, <1>4, <1>5, <1>6, <1>7, <1>9, <1>11, <1>12, <1>13

(* The steps of the search close every window that is predicted. *)
LEMMA RoundsSteps ==
  ASSUME WindowCallOK
  PROVE  /\ Powers(Rounds!pow2) /\ Rounds!BSEARCH_STEPS \in Nat \ {0}
         /\ \A q \in QueryIdx : Narrow(Windows!Window(q), Rounds!pow2, Rounds!BSEARCH_STEPS)
<1>1. Rounds!pow2 = [e \in Nat |-> IF e = 0 THEN 1 ELSE 2 * Rounds!pow2[e - 1]]
  <2>1. \E f : f = [e \in Nat |-> IF e = 0 THEN 1 ELSE 2 * f[e - 1]]
    BY PowersDefined
  <2> QED  BY <2>1, Zenon DEF Rounds!pow2
<1>2. Powers(Rounds!pow2) /\ \A e \in Nat : Rounds!pow2[e] > e
  BY <1>1, PowersFacts
<1>3. index.error \in Nat
  BY AnyIndexSound DEF WindowCallOK, Windows!SoundIndex
<1>4. PICK m : m = 2 * index.error + 2 /\ m \in Nat \ {0}
  BY <1>3
<1>5. \E s \in 1 .. m + 1 : Rounds!pow2[s - 1] <= m /\ m < Rounds!pow2[s]
  BY <1>2, <1>4, StepsExist
<1>6. Rounds!BSEARCH_STEPS \in 1 .. m + 1 /\ m < Rounds!pow2[Rounds!BSEARCH_STEPS]
  <2>1. Rounds!BSEARCH_STEPS = CHOOSE s \in 1 .. m + 1 : Rounds!pow2[s - 1] <= m /\ m < Rounds!pow2[s]
    BY <1>4 DEF Rounds!BSEARCH_STEPS, Rounds!calc_steps
  <2> QED  BY <1>5, <2>1
<1>7. Rounds!BSEARCH_STEPS \in Nat \ {0} /\ Rounds!pow2[Rounds!BSEARCH_STEPS] \in Nat
  BY <1>2, <1>4, <1>6 DEF Powers
<1>8. ASSUME NEW q \in QueryIdx PROVE Narrow(Windows!Window(q), Rounds!pow2, Rounds!BSEARCH_STEPS)
  <2>1. Windows!Window(q).hi - Windows!Window(q).lo <= m /\ Windows!Window(q) \in [lo : Nat, hi : Nat]
    BY <1>4, WindowFacts
  <2>2. PICK d, f : d = Windows!Window(q).hi - Windows!Window(q).lo /\ d \in Int /\ f = Rounds!pow2[Rounds!BSEARCH_STEPS]
    BY <2>1
  <2>3. d <= m /\ m < f /\ f \in Nat
    BY <1>6, <1>7, <2>1, <2>2
  <2>4. d < f
    BY <1>4, <2>2, <2>3
  <2> QED  BY <2>2, <2>4 DEF Narrow
<1> QED  BY <1>2, <1>7, <1>8

(* A step that answers the queries Qs is one of the abstract lookup.        *)
LEMMA RoundsAnswer ==
  ASSUME WindowCallOK, UNCHANGED <<index, queries>>, NEW A, NEW Qs, Qs # {},
         A \cup Qs \subseteq QueryIdx, Qs \cap A = {}, Answers(Windows!Items, A, Qs),
         Rounds!Answered = A, Rounds!Answered' = A \cup Qs
  PROVE  Rounds!Abstract!Answer
<1>1. Rounds!Items = Windows!Items /\ Rounds!Items' = Windows!Items /\ Windows!Items' = Windows!Items
  BY DEF Rounds!Items, Windows!Items
<1>2. PICK items : items = Windows!Items
  OBVIOUS
<1>3. \A q \in Qs : Rounds!Abstract!RightAnswer(q)'
  BY <1>1, <1>2 DEF Answers, RightAnswer, KeyAt, Rounds!Abstract!RightAnswer, Rounds!Abstract!KeyAt
<1>4. DOMAIN found' = QueryIdx /\ DOMAIN results' = QueryIdx
  BY DEF Answers, OutsOK
<1>5. \A q \in QueryIdx \ Qs : found'[q] = found[q] /\ results'[q] = results[q]
  BY DEF Answers
<1>6. QueryIdx = 0 .. Len(queries) - 1
  BY DEF QueryIdx, n
<1> QED  BY <1>1, <1>3, <1>4, <1>5, <1>6 DEF Rounds!Abstract!Answer, Rounds!Abstract!Positions

(* The queries of the groups collected; what a window of a group keeps.     *)
Collected   == 0 .. Min2(n, batch_start) - 1
GroupSearch(q, w, left) == /\ Search(q, w)
                           /\ strategy \in BySteps => Narrow(w, Rounds!pow2, left)
RoundsTypeOK ==
  /\ WindowCallOK
  /\ pc \in {"for", "rounds", "returned"}
  /\ batch_start \in Nat /\ step \in Nat
  /\ pc = "rounds" => batch_start < n

RoundsIInv ==
  /\ RoundsTypeOK
  /\ pc = "rounds" =>
       /\ strategy \in BySteps => step <= Rounds!BSEARCH_STEPS
       /\ \A j \in Rounds!Members : GroupSearch(batch_start + j, windows[j], Rounds!BSEARCH_STEPS - step)
  /\ pc = "returned" => ~(batch_start < n) \/ Windows!Size(index) = 0
  /\ strategy \notin ByOne /\ Windows!Size(index) = 0 => batch_start = 0 /\ pc # "rounds"
  /\ AnswersRight(Windows!Items, Collected)

LEMMA RoundsFacts ==
  ASSUME RoundsTypeOK
  PROVE  /\ n \in Nat /\ QueryIdx = 0 .. n - 1 /\ GroupSize \in Nat \ {0} /\ batch_start \in Nat
         /\ Rounds!Members = 0 .. LaneCount - 1 /\ Rounds!Lanes = 0 .. GroupSize - 1
         /\ Collected \subseteq QueryIdx
         /\ ~(batch_start < n) => Collected = QueryIdx
         /\ batch_start < n =>
              /\ LaneCount \in Nat \ {0} /\ Rounds!Members \subseteq Rounds!Lanes
              /\ batch_start + LaneCount <= n /\ LaneCount <= GroupSize
              /\ LaneCount = GroupSize \/ batch_start + LaneCount = n
              /\ \A j \in Rounds!Members : j \in Nat /\ batch_start + j \in QueryIdx
              /\ Collected = 0 .. batch_start - 1
<1>1. n \in Nat /\ QueryIdx = 0 .. n - 1 /\ batch_start \in Nat
  BY BatchFacts DEF RoundsTypeOK, WindowCallOK
<1>2. GroupSize \in Nat \ {0}
  <2>1. 1 \in Nat \ {0}
    OBVIOUS
  <2> QED  BY <2>1, PoolAssumption, Zenon DEF GroupSize
<1>3. Rounds!Members = 0 .. LaneCount - 1 /\ Rounds!Lanes = 0 .. GroupSize - 1
  BY RoundsSame DEF Rounds!Members, Rounds!batch_size, Rounds!Lanes, LaneCount, Min2
<1>4. batch_start < n =>
        /\ LaneCount \in Nat \ {0} /\ batch_start + LaneCount <= n /\ LaneCount <= GroupSize
        /\ LaneCount = GroupSize \/ batch_start + LaneCount = n
  BY <1>1, <1>2 DEF LaneCount
<1>5. batch_start < n => \A j \in 0 .. LaneCount - 1 : j \in Nat /\ batch_start + j \in 0 .. n - 1
  BY <1>1, <1>4
<1>6. batch_start < n => 0 .. LaneCount - 1 \subseteq 0 .. GroupSize - 1
  BY <1>2, <1>4
<1>7. /\ Min2(n, batch_start) \in 0 .. n
      /\ ~(batch_start < n) => Min2(n, batch_start) = n
      /\ batch_start < n => Min2(n, batch_start) = batch_start
  BY <1>1 DEF Min2
<1>8. Collected \subseteq QueryIdx
  BY <1>1, <1>7 DEF Collected
<1> QED  BY <1>1, <1>2, <1>3, <1>4, <1>5, <1>6, <1>7, <1>8 DEF Collected

(* A step that leaves the call and the group alone changes none of these. *)
LEMMA RoundsKept ==
  ASSUME UNCHANGED <<index, queries, strategy, batch_start>>
  PROVE  /\ n' = n /\ QueryIdx' = QueryIdx /\ Collected' = Collected
         /\ Rounds!Members' = Rounds!Members /\ Rounds!BSEARCH_STEPS' = Rounds!BSEARCH_STEPS
         /\ \A q, w, left : GroupSearch(q, w, left)' <=> GroupSearch(q, w, left)
<1>1. n' = n /\ QueryIdx' = QueryIdx /\ \A q, w : Search(q, w)' <=> Search(q, w)
  BY SearchKept
<1>2. Rounds!n' = Rounds!n /\ GroupSize' = GroupSize /\ Rounds!BSEARCH_STEPS' = Rounds!BSEARCH_STEPS
  BY Zenon DEF Rounds!n, GroupSize, Rounds!BSEARCH_STEPS
<1>3. Rounds!Members' = Rounds!Members
  BY <1>2 DEF Rounds!Members, Rounds!batch_size, Rounds!Min2
<1>4. Collected' = Collected
  BY <1>1 DEF Collected, Min2
<1>5. \A q, w, left : GroupSearch(q, w, left)' <=> GroupSearch(q, w, left)
  BY <1>1 DEF GroupSearch
<1> QED  BY <1>1, <1>2, <1>3, <1>4, <1>5

LEMMA RoundsAnswered ==
  /\ pc = "returned" => Rounds!Answered = QueryIdx
  /\ pc # "returned" => Rounds!Answered = Collected
BY RoundsSame DEF Rounds!Answered, Collected

LEMMA RoundsInitInv == Rounds!Init => RoundsIInv
<1> SUFFICES ASSUME Rounds!Init PROVE RoundsIInv
  OBVIOUS
<1>1. /\ index \in AnyIndex /\ queries \in WindowBatches /\ found = [q \in QueryIdx |-> FALSE]
      /\ results = [q \in QueryIdx |-> Stale]
  BY RoundsSame DEF Rounds!Init, Rounds!ArgsAndOutsInit, Rounds!LookupInit
<1>2. pc = "for" /\ batch_start = 0 /\ step = 0
  BY DEF Rounds!Init
<1>3. WindowCallOK
  BY <1>1, WindowBatchesAssumption DEF WindowCallOK, OutsOK
<1>4. RoundsTypeOK
  BY <1>2, <1>3 DEF RoundsTypeOK
<1>5. Collected = {}
  <2>1. n \in Nat
    BY <1>4, RoundsFacts
  <2>2. Min2(n, batch_start) = 0
    BY <1>2, <2>1 DEF Min2
  <2> QED  BY <2>2 DEF Collected
<1>6. AnswersRight(Windows!Items, Collected)
  BY <1>1, <1>5 DEF AnswersRight, Unanswered
<1> QED  BY <1>2, <1>4, <1>6 DEF RoundsIInv

(* A group is begun with the windows predicted, or the call returns: all    *)
(* groups are collected, or the index is empty and nothing is to be found.  *)
LEMMA RoundsNextGroup ==
  ASSUME RoundsIInv, Rounds!NextGroup, strategy' = strategy
  PROVE  RoundsIInv' /\ [Rounds!Abstract!Next]_(Rounds!Abstract!vars)
<1>1. /\ UNCHANGED <<index, queries, found, results, strategy, batch_start>> /\ pc = "for" /\ step' = 0
  BY DEF Rounds!NextGroup, Rounds!call, Rounds!args, Rounds!outs
<1>2. /\ n' = n /\ QueryIdx' = QueryIdx /\ Collected' = Collected
      /\ Rounds!Members' = Rounds!Members /\ Rounds!BSEARCH_STEPS' = Rounds!BSEARCH_STEPS
      /\ \A q, w, left : GroupSearch(q, w, left)' <=> GroupSearch(q, w, left)
  BY <1>1, RoundsKept
<1>3. /\ WindowCallOK' /\ AnswersRight(Windows!Items, Collected)'
      /\ Windows!Size(index)' = Windows!Size(index) /\ Rounds!Items' = Rounds!Items
  <2>1. WindowCallOK /\ AnswersRight(Windows!Items, Collected)
    BY DEF RoundsIInv, RoundsTypeOK
  <2>2. \A A : AnswersRight(Windows!Items, A)' <=> AnswersRight(Windows!Items, A)
    BY <1>1, WindowCallUnchanged
  <2>3. AnswersRight(Windows!Items, Collected)'
    <3>1. Windows!Items' = Windows!Items
      BY <1>1, SearchKept
    <3> QED  BY <1>1, <1>2, <2>1, <3>1 DEF AnswersRight, RightAnswer, Unanswered, KeyAt
  <2>4. Rounds!Items' = Rounds!Items
    BY <1>1 DEF Rounds!Items
  <2> QED  BY <1>1, <2>1, <2>3, <2>4, WindowCallUnchanged, SearchKept
<1>4. /\ RoundsTypeOK /\ WindowCallOK /\ Rounds!Answered = Collected
      /\ AnswersRight(Windows!Items, Collected)
      /\ strategy \notin ByOne /\ Windows!Size(index) = 0 => batch_start = 0
  BY <1>1, RoundsAnswered DEF RoundsIInv, RoundsTypeOK
<1>5. Windows!Size(index) \in Nat /\ Rounds!data_size = Windows!Size(index)
  BY <1>4, AnyIndexSound, RoundsSame DEF WindowCallOK, Windows!SoundIndex, Windows!SortedOK
<1>6. Rounds!n = n
  BY RoundsSame
<1>7. CASE (strategy \notin ByOne => Rounds!data_size > 0) /\ batch_start < n
  <2>1. /\ pc' = "rounds"
        /\ windows' = [j \in Rounds!Lanes |-> IF j \in Rounds!Members THEN Rounds!Window(Rounds!Query(j))
                                              ELSE windows[j]]
    BY <1>6, <1>7 DEF Rounds!NextGroup
  <2>2. /\ Powers(Rounds!pow2) /\ Rounds!BSEARCH_STEPS \in Nat \ {0}
        /\ \A q \in QueryIdx : Narrow(Windows!Window(q), Rounds!pow2, Rounds!BSEARCH_STEPS)
    BY <1>4, RoundsSteps
  <2>3. Rounds!Members \subseteq Rounds!Lanes /\ \A j \in Rounds!Members : batch_start + j \in QueryIdx
    BY <1>4, <1>7, RoundsFacts
  <2>4. ASSUME NEW j \in Rounds!Members
        PROVE  GroupSearch(batch_start + j, windows'[j], Rounds!BSEARCH_STEPS)
    <3>1. windows'[j] = Windows!Window(batch_start + j)
      BY <2>1, <2>3, RoundsSame DEF Rounds!Query
    <3>2. Search(batch_start + j, windows'[j]) /\ Narrow(windows'[j], Rounds!pow2, Rounds!BSEARCH_STEPS)
      BY <1>4, <2>2, <2>3, <3>1, SearchStarts
    <3> QED  BY <3>2 DEF GroupSearch
  <2>5. Rounds!BSEARCH_STEPS - step' = Rounds!BSEARCH_STEPS /\ step' <= Rounds!BSEARCH_STEPS
    BY <1>1, <2>2
  <2>6. (\A j \in Rounds!Members :
           GroupSearch(batch_start + j, windows[j], Rounds!BSEARCH_STEPS - step))'
    <3>1. \A j \in Rounds!Members' :
            GroupSearch(batch_start' + j, windows'[j], Rounds!BSEARCH_STEPS' - step')
      BY <1>1, <1>2, <2>4, <2>5
    <3> QED  BY <1>2, <3>1
  <2>7. RoundsTypeOK'
    BY <1>1, <1>2, <1>3, <1>4, <1>7, <2>1 DEF RoundsTypeOK
  <2>8. strategy \notin ByOne => Windows!Size(index) # 0
    BY <1>5, <1>7
  <2>9. RoundsIInv'
    BY <1>1, <1>2, <1>3, <2>1, <2>5, <2>6, <2>7, <2>8 DEF RoundsIInv
  <2>10. Rounds!Answered' = Rounds!Answered
    <3>1. (pc # "returned" => Rounds!Answered = Collected)'
      BY RoundsAnswered, PTL
    <3> QED  BY <1>2, <1>4, <2>1, <3>1
  <2>11. UNCHANGED Rounds!Abstract!vars
    BY <1>1, <1>3, <2>10 DEF Rounds!Abstract!vars
  <2> QED  BY <2>9, <2>11
<1>8. CASE ~((strategy \notin ByOne => Rounds!data_size > 0) /\ batch_start < n)
  <2>1. pc' = "returned"
    BY <1>6, <1>8 DEF Rounds!NextGroup
  <2>2. ~(batch_start < n) \/ (strategy \notin ByOne /\ Windows!Size(index) = 0)
    BY <1>5, <1>8
  <2>3. RoundsIInv'
    <3>1. RoundsTypeOK'
      BY <1>1, <1>2, <1>3, <1>4, <2>1 DEF RoundsTypeOK
    <3> QED  BY <1>1, <1>2, <1>3, <1>4, <2>1, <2>2, <3>1 DEF RoundsIInv
  <2>4. Rounds!Answered' = QueryIdx
    <3>1. (pc = "returned" => Rounds!Answered = QueryIdx)'
      BY RoundsAnswered, PTL
    <3> QED  BY <1>2, <2>1, <3>1
  <2>5. CASE Collected = QueryIdx
    <3>1. UNCHANGED Rounds!Abstract!vars
      BY <1>1, <1>3, <1>4, <2>4, <2>5 DEF Rounds!Abstract!vars
    <3> QED  BY <2>3, <3>1
  <2>6. CASE Collected # QueryIdx
    <3>1. strategy \notin ByOne /\ Windows!Size(index) = 0
      BY <1>4, <2>2, <2>6, RoundsFacts
    <3>2. Collected = {}
      <4>1. n \in Nat /\ batch_start = 0
        BY <1>4, <3>1, RoundsFacts
      <4>2. Min2(n, batch_start) = 0
        BY <4>1 DEF Min2
      <4> QED  BY <4>2 DEF Collected
    <3>3. Answers(Windows!Items, Collected, QueryIdx)
      BY <1>1, <1>4, <3>1, EmptyAnswered
    <3>4. QueryIdx # {} /\ Collected \cup QueryIdx \subseteq QueryIdx /\ QueryIdx \cap Collected = {}
          /\ Rounds!Answered' = Collected \cup QueryIdx
      BY <2>4, <2>6, <3>2
    <3>5. Rounds!Abstract!Answer
      BY <1>1, <1>4, <3>3, <3>4, RoundsAnswer
    <3> QED  BY <2>3, <3>5 DEF Rounds!Abstract!Next
  <2> QED  BY <2>5, <2>6
<1> QED  BY <1>7, <1>8

(* A round halves every window of the group.                                *)
LEMMA RoundsHalveRound ==
  ASSUME RoundsIInv, Rounds!HalveRound, strategy' = strategy
  PROVE  RoundsIInv' /\ UNCHANGED <<index, queries, found, results>> /\ Rounds!Answered' = Rounds!Answered
<1>1. /\ UNCHANGED <<index, queries, found, results, strategy, batch_start>>
      /\ pc = "rounds" /\ pc' = "rounds"
  BY DEF Rounds!HalveRound, Rounds!call, Rounds!args, Rounds!outs
<1>2. /\ n' = n /\ QueryIdx' = QueryIdx /\ Collected' = Collected
      /\ Rounds!Members' = Rounds!Members /\ Rounds!BSEARCH_STEPS' = Rounds!BSEARCH_STEPS
      /\ \A q, w, left : GroupSearch(q, w, left)' <=> GroupSearch(q, w, left)
  BY <1>1, RoundsKept
<1>3. /\ RoundsTypeOK /\ WindowCallOK /\ AnswersRight(Windows!Items, Collected) /\ batch_start < n
      /\ strategy \in BySteps => step <= Rounds!BSEARCH_STEPS
      /\ \A j \in Rounds!Members : GroupSearch(batch_start + j, windows[j], Rounds!BSEARCH_STEPS - step)
      /\ ~(strategy \notin ByOne /\ Windows!Size(index) = 0) /\ step \in Nat
  BY <1>1 DEF RoundsIInv, RoundsTypeOK
<1>4. Powers(Rounds!pow2) /\ Rounds!BSEARCH_STEPS \in Nat
  BY <1>3, RoundsSteps
<1>5. /\ step' \in Nat
      /\ strategy \in BySteps => step' = step + 1 /\ step < Rounds!BSEARCH_STEPS
  BY <1>3 DEF Rounds!HalveRound, Rounds!MoreRounds
<1>6. windows' = [j \in Rounds!Lanes |-> IF j \in Rounds!Members THEN Rounds!Halved(Rounds!Query(j), windows[j])
                                         ELSE windows[j]]
  BY DEF Rounds!HalveRound
<1>7. Rounds!Members \subseteq Rounds!Lanes /\ \A j \in Rounds!Members : batch_start + j \in QueryIdx
  BY <1>3, RoundsFacts
<1>8. ASSUME NEW j \in Rounds!Members
      PROVE  GroupSearch(batch_start + j, windows'[j], Rounds!BSEARCH_STEPS - step')
  <2>1. PICK q, w, h : q = batch_start + j /\ w = windows[j] /\ h = Windows!Halved(q, w)
    OBVIOUS
  <2>2. windows'[j] = h
    BY <1>6, <1>7, <2>1, RoundsSame DEF Rounds!Query
  <2>3. q \in QueryIdx /\ GroupSearch(q, w, Rounds!BSEARCH_STEPS - step)
    BY <1>3, <1>7, <2>1
  <2>4. Search(q, h)
    BY <1>3, <2>1, <2>3, SearchHalves DEF GroupSearch
  <2>5. ASSUME strategy \in BySteps PROVE Narrow(h, Rounds!pow2, Rounds!BSEARCH_STEPS - step')
    <3>1. PICK H, left : H = Rounds!BSEARCH_STEPS /\ left = H - (step + 1)
      OBVIOUS
    <3>2. left \in Nat /\ left + 1 = H - step /\ left = H - step'
      BY <1>3, <1>4, <1>5, <2>5, <3>1
    <3>3. Search(q, w) /\ Narrow(w, Rounds!pow2, left + 1)
      BY <2>3, <2>5, <3>1, <3>2 DEF GroupSearch
    <3>4. Narrow(h, Rounds!pow2, left)
      BY <1>3, <1>4, <2>1, <2>3, <3>2, <3>3, NarrowHalves
    <3> QED  BY <3>1, <3>2, <3>4
  <2> QED  BY <2>1, <2>2, <2>4, <2>5 DEF GroupSearch
<1>9. (\A j \in Rounds!Members :
         GroupSearch(batch_start + j, windows[j], Rounds!BSEARCH_STEPS - step))'
  <2>1. \A j \in Rounds!Members' : GroupSearch(batch_start' + j, windows'[j], Rounds!BSEARCH_STEPS' - step')
    BY <1>1, <1>2, <1>8
  <2> QED  BY <1>2, <2>1
<1>10. /\ WindowCallOK' /\ AnswersRight(Windows!Items, Collected)'
       /\ Windows!Size(index)' = Windows!Size(index) /\ Windows!Items' = Windows!Items
  <2>1. Windows!Items' = Windows!Items
    BY <1>1, SearchKept
  <2>2. AnswersRight(Windows!Items, Collected)'
    BY <1>1, <1>2, <1>3, <2>1 DEF AnswersRight, RightAnswer, Unanswered, KeyAt
  <2> QED  BY <1>1, <1>3, <2>1, <2>2, WindowCallUnchanged, SearchKept
<1>11. strategy \in BySteps => step' <= Rounds!BSEARCH_STEPS
  BY <1>3, <1>4, <1>5
<1>12. RoundsTypeOK'
  BY <1>1, <1>2, <1>3, <1>5, <1>10 DEF RoundsTypeOK
<1>13. RoundsIInv'
  BY <1>1, <1>2, <1>3, <1>9, <1>10, <1>11, <1>12 DEF RoundsIInv
<1>14. Rounds!Answered' = Rounds!Answered
  <2>1. (pc # "returned" => Rounds!Answered = Collected)'
    BY RoundsAnswered, PTL
  <2> QED  BY <1>1, <1>2, <2>1, RoundsAnswered
<1> QED  BY <1>1, <1>13, <1>14

(* When the rounds end, every window of the group is closed. *)
LEMMA RoundsClosed ==
  ASSUME RoundsIInv, pc = "rounds", ~Rounds!MoreRounds, NEW j \in Rounds!Members
  PROVE  Search(batch_start + j, windows[j]) /\ ~Windows!Open(windows[j])
<1>1. PICK q, w : q = batch_start + j /\ w = windows[j]
  OBVIOUS
<1>2. /\ WindowCallOK /\ step \in Nat /\ GroupSearch(q, w, Rounds!BSEARCH_STEPS - step)
      /\ strategy \in BySteps => step <= Rounds!BSEARCH_STEPS
  BY <1>1 DEF RoundsIInv, RoundsTypeOK
<1>3. Powers(Rounds!pow2) /\ Rounds!BSEARCH_STEPS \in Nat
  BY <1>2, RoundsSteps
<1>4. CASE strategy \in BySteps
  <2>1. PICK H : H = Rounds!BSEARCH_STEPS
    OBVIOUS
  <2>2. ~(step < H)
    BY <1>4, <2>1 DEF Rounds!MoreRounds
  <2>3. H - step = 0
    BY <1>2, <1>3, <1>4, <2>1, <2>2
  <2>4. Search(q, w) /\ Narrow(w, Rounds!pow2, 0)
    BY <1>2, <1>4, <2>1, <2>3 DEF GroupSearch
  <2> QED  BY <1>1, <1>3, <2>4, NarrowClosed
<1>5. CASE strategy \notin BySteps
  <2>1. ~Rounds!Open(windows[j])
    BY <1>5 DEF Rounds!MoreRounds
  <2> QED  BY <1>1, <1>2, <2>1, RoundsSame DEF GroupSearch
<1> QED  BY <1>4, <1>5

(* The queries of a group are answered, all of them at once.                *)
LEMMA RoundsCollectGroup ==
  ASSUME RoundsIInv, Rounds!CollectGroup, strategy' = strategy
  PROVE  RoundsIInv' /\ [Rounds!Abstract!Next]_(Rounds!Abstract!vars)
<1>1. PICK Qs, slots : /\ Qs = {Rounds!Query(j) : j \in Rounds!Members}
                       /\ slots = [q \in {Rounds!Query(j) : j \in Rounds!Members} |->
                                     windows[q - batch_start].lo]
  OBVIOUS
<1>2. /\ UNCHANGED <<index, queries, strategy, windows, step>> /\ pc = "rounds" /\ pc' = "for"
      /\ ~Rounds!MoreRounds /\ batch_start' = batch_start + GroupSize
  BY DEF Rounds!CollectGroup, Rounds!call, Rounds!args
<1>3. Windows!Collect(slots)
  <2>1. Rounds!Collect(slots)
    BY <1>1, Zenon DEF Rounds!CollectGroup
  <2> QED  BY <2>1, RoundsSame
<1>4. /\ RoundsTypeOK /\ WindowCallOK /\ AnswersRight(Windows!Items, Collected) /\ batch_start < n
      /\ ~(strategy \notin ByOne /\ Windows!Size(index) = 0) /\ step \in Nat
      /\ Rounds!Answered = Collected
  BY <1>2, RoundsAnswered DEF RoundsIInv, RoundsTypeOK
<1>5. /\ n \in Nat /\ QueryIdx = 0 .. n - 1 /\ GroupSize \in Nat \ {0} /\ batch_start \in Nat
      /\ Rounds!Members = 0 .. LaneCount - 1 /\ LaneCount \in Nat \ {0}
      /\ batch_start + LaneCount <= n /\ LaneCount <= GroupSize
      /\ LaneCount = GroupSize \/ batch_start + LaneCount = n
      /\ Collected = 0 .. batch_start - 1
  BY <1>4, RoundsFacts
<1>6. PICK b, c : b = batch_start /\ c = LaneCount
  OBVIOUS
<1>7. b \in Nat /\ c \in Nat \ {0}
  BY <1>5, <1>6
<1>8. Qs = b .. b + c - 1
  <2>1. \A q \in Qs : \E j \in 0 .. c - 1 : q = b + j
    BY <1>1, <1>5, <1>6 DEF Rounds!Query
  <2>2. \A j \in 0 .. c - 1 : b + j \in Qs
    BY <1>1, <1>5, <1>6 DEF Rounds!Query
  <2>3. \A q \in Qs : q \in b .. b + c - 1
    BY <1>7, <2>1
  <2>4. ASSUME NEW q \in b .. b + c - 1 PROVE q \in Qs
    <3>1. q - b \in 0 .. c - 1 /\ b + (q - b) = q
      BY <1>7
    <3> QED  BY <2>2, <3>1
  <2> QED  BY <2>3, <2>4
<1>9. /\ Collected = 0 .. b - 1 /\ Qs \cap Collected = {} /\ Qs \subseteq QueryIdx /\ Qs # {}
      /\ Collected \cup Qs = 0 .. b + c - 1
  <2>1. Collected = 0 .. b - 1 /\ b + c <= n
    BY <1>5, <1>6
  <2>2. Qs \cap (0 .. b - 1) = {}
    BY <1>7, <1>8
  <2>3. b .. b + c - 1 \subseteq 0 .. n - 1 /\ b \in Qs
    BY <1>5, <1>7, <1>8, <2>1
  <2>4. (0 .. b - 1) \cup (b .. b + c - 1) = 0 .. b + c - 1
    BY <1>7
  <2> QED  BY <1>5, <1>8, <2>1, <2>2, <2>3, <2>4
<1>10. \A q \in Qs : \E w : Search(q, w) /\ ~Windows!Open(w) /\ slots[q] = w.lo
  <2> TAKE q \in Qs
  <2>1. PICK j \in Rounds!Members : q = batch_start + j
    BY <1>1 DEF Rounds!Query
  <2>2. Search(q, windows[j]) /\ ~Windows!Open(windows[j])
    BY <1>2, <2>1, RoundsClosed
  <2>3. q - batch_start = j
    BY <1>5, <2>1
  <2>4. slots[q] = windows[j].lo
    BY <1>1, <2>3
  <2> QED  BY <2>2, <2>4
<1>18. PICK A : A = Collected
  OBVIOUS
<1>11. /\ WindowCallOK' /\ Answers(Windows!Items, A, Qs)
       /\ AnswersRight(Windows!Items, A \cup Qs)'
  <2>1. DOMAIN slots = Qs
    BY <1>1
  <2>2. AnswersRight(Windows!Items, A) /\ Qs \cap A = {}
    BY <1>4, <1>9, <1>18
  <2> QED  BY <1>2, <1>3, <1>4, <1>9, <1>10, <2>1, <2>2, WindowCollectStep
<1>12. n' = n /\ QueryIdx' = QueryIdx /\ Windows!Size(index)' = Windows!Size(index)
  BY <1>2, SearchKept
<1>13. Collected' = A \cup Qs
  <2>1. Min2(n, batch_start + GroupSize) = b + c
    BY <1>5, <1>6 DEF Min2
  <2>2. Collected' = 0 .. Min2(n, batch_start + GroupSize) - 1
    BY <1>2, <1>12 DEF Collected, Min2
  <2>3. Collected \cup Qs = 0 .. b + c - 1
    BY <1>9
  <2>4. PICK m : m = Min2(n, batch_start + GroupSize)
    OBVIOUS
  <2>5. Collected' = 0 .. m - 1 /\ m = b + c
    BY <2>1, <2>2, <2>4
  <2>6. 0 .. m - 1 = 0 .. b + c - 1
    BY <1>7, <2>5
  <2> QED  BY <1>18, <2>3, <2>5, <2>6
<1>14. batch_start' \in Nat
  BY <1>2, <1>5
<1>15. RoundsIInv'
  <2>1. RoundsTypeOK'
    BY <1>2, <1>4, <1>11, <1>14 DEF RoundsTypeOK
  <2>2. AnswersRight(Windows!Items, Collected)'
    BY <1>11, <1>13 DEF AnswersRight
  <2> QED  BY <1>2, <1>4, <1>12, <2>1, <2>2 DEF RoundsIInv
<1>16. Rounds!Answered' = A \cup Qs /\ Rounds!Answered = A
  <2>1. (pc # "returned" => Rounds!Answered = Collected)'
    BY RoundsAnswered, PTL
  <2> QED  BY <1>2, <1>4, <1>13, <1>18, <2>1
<1>17. Rounds!Abstract!Answer
  <2>1. A \cup Qs \subseteq QueryIdx /\ Qs \cap A = {}
    BY <1>4, <1>9, <1>18, RoundsFacts
  <2> QED  BY <1>2, <1>4, <1>9, <1>11, <1>16, <2>1, RoundsAnswer
<1> QED  BY <1>15, <1>17 DEF Rounds!Abstract!Next

LEMMA RoundsStutter ==
  ASSUME RoundsIInv, UNCHANGED Rounds!vars, strategy' = strategy
  PROVE  RoundsIInv' /\ UNCHANGED <<index, queries, found, results>> /\ Rounds!Answered' = Rounds!Answered
<1>1. UNCHANGED <<index, queries, found, results, strategy, batch_start, pc, windows, step>>
  BY DEF Rounds!vars, Rounds!call, Rounds!args, Rounds!outs
<1>2. /\ n' = n /\ QueryIdx' = QueryIdx /\ Collected' = Collected
      /\ Rounds!Members' = Rounds!Members /\ Rounds!BSEARCH_STEPS' = Rounds!BSEARCH_STEPS
      /\ \A q, w, left : GroupSearch(q, w, left)' <=> GroupSearch(q, w, left)
  BY <1>1, RoundsKept
<1>3. /\ WindowCallOK' <=> WindowCallOK
      /\ Windows!Size(index)' = Windows!Size(index) /\ Windows!Items' = Windows!Items
  BY <1>1, WindowCallUnchanged, SearchKept
<1>4. RoundsTypeOK'
  BY <1>1, <1>2, <1>3 DEF RoundsIInv, RoundsTypeOK
<1>5. AnswersRight(Windows!Items, Collected)'
  <2>1. AnswersRight(Windows!Items, Collected)
    BY DEF RoundsIInv
  <2> QED  BY <1>1, <1>2, <1>3, <2>1 DEF AnswersRight, RightAnswer, Unanswered, KeyAt
<1>6. (pc = "rounds" =>
         /\ strategy \in BySteps => step <= Rounds!BSEARCH_STEPS
         /\ \A j \in Rounds!Members : GroupSearch(batch_start + j, windows[j], Rounds!BSEARCH_STEPS - step))'
  <2>1. pc = "rounds" =>
          /\ strategy \in BySteps => step <= Rounds!BSEARCH_STEPS
          /\ \A j \in Rounds!Members : GroupSearch(batch_start + j, windows[j], Rounds!BSEARCH_STEPS - step)
    BY DEF RoundsIInv
  <2> QED  BY <1>1, <1>2, <2>1
<1>7. RoundsIInv'
  BY <1>1, <1>2, <1>3, <1>4, <1>5, <1>6 DEF RoundsIInv
<1>8. Rounds!Answered' = Rounds!Answered
  BY <1>1 DEF Rounds!Answered, Rounds!QueryIdx, Rounds!n, Rounds!Min2
<1> QED  BY <1>1, <1>7, <1>8

LEMMA RoundsNext ==
  ASSUME RoundsIInv, [Rounds!Next]_(Rounds!vars), strategy' = strategy
  PROVE  RoundsIInv' /\ [Rounds!Abstract!Next]_(Rounds!Abstract!vars)
<1>1. CASE Rounds!NextGroup \/ Rounds!CollectGroup
  BY <1>1, RoundsNextGroup, RoundsCollectGroup
<1>2. CASE ~(Rounds!NextGroup \/ Rounds!CollectGroup)
  <2>1. /\ RoundsIInv' /\ UNCHANGED <<index, queries, found, results>>
        /\ Rounds!Answered' = Rounds!Answered
    BY <1>2, RoundsHalveRound, RoundsStutter DEF Rounds!Next, Rounds!Returned
  <2>2. UNCHANGED Rounds!Abstract!vars
    BY <2>1 DEF Rounds!Abstract!vars, Rounds!Items
  <2> QED  BY <2>1, <2>2
<1> QED  BY <1>1, <1>2

LEMMA RoundsIInvImplies == ASSUME RoundsIInv PROVE Rounds!GroupExact
<1>1. WindowCallOK /\ RoundsTypeOK
  BY DEF RoundsIInv, RoundsTypeOK
<1>2. ASSUME pc = "rounds", NEW j \in Rounds!Members
      PROVE  /\ Rounds!OnTrack(Rounds!Query(j), windows[j])
             /\ ~Rounds!MoreRounds => ~Rounds!Open(windows[j])
  <2>1. Search(batch_start + j, windows[j])
    BY <1>2 DEF RoundsIInv, GroupSearch
  <2> QED  BY <1>2, <2>1, RoundsClosed, RoundsSame DEF Search, Rounds!Query
<1>3. AnswersRight(Windows!Items, Rounds!Answered)
  <2>1. CASE pc = "returned" /\ Windows!Size(index) = 0
    BY <1>1, <2>1, EmptyIndexAnswers DEF RoundsIInv
  <2>2. CASE ~(pc = "returned" /\ Windows!Size(index) = 0)
    BY <1>1, <2>2, RoundsFacts, RoundsAnswered DEF RoundsIInv
  <2> QED  BY <2>1, <2>2
<1>4. Rounds!AnswersRight(Rounds!Items, Rounds!Answered)
  BY <1>3, RoundsSame
<1> QED  BY <1>2, <1>4 DEF Rounds!GroupExact

LEMMA RoundsAbstractInit == Rounds!Init => Rounds!Abstract!Init
<1> SUFFICES ASSUME Rounds!Init PROVE Rounds!Abstract!Init
  OBVIOUS
<1>1. index \in AnyIndex /\ queries \in WindowBatches /\ found = [q \in QueryIdx |-> FALSE]
      /\ results = [q \in QueryIdx |-> Stale] /\ pc = "for" /\ batch_start = 0
  BY RoundsSame DEF Rounds!Init, Rounds!ArgsAndOutsInit, Rounds!LookupInit
<1>2. queries \in Seq(Key) /\ Rounds!Items \in SUBSET (Key \X Value)
  BY <1>1, WindowBatchesAssumption, ItemPairs, RoundsSame
<1>3. Rounds!Answered = {}
  <2>1. n \in Nat
    BY <1>2, BatchFacts
  <2>2. Min2(n, batch_start) = 0
    BY <1>1, <2>1 DEF Min2
  <2> QED  BY <1>1, <2>2, RoundsAnswered DEF Collected
<1> QED  BY <1>1, <1>2, <1>3 DEF QueryIdx, n, Rounds!Abstract!Init, Rounds!Abstract!Positions

-----------------------------------------------------------------------------
(* All strategies together.  A strategy is of one kind, and its invariant   *)
(* is the one of its kind.                                                 *)
MCIInv ==
  /\ strategy \in LIPPGroups => SweepsIInv
  /\ strategy = "LIPP_SPP" => TasksIInv
  /\ strategy = "LIPP_AMAC" => PoolIInv
  /\ strategy \in WindowGroups => RoundsIInv
  /\ strategy \in ByStages => StagesIInv
  /\ strategy \in ByMachine => MachinesIInv

(* The steps the abstract lookup allows, by kind of strategy. *)
LookupStep ==
  /\ strategy \in LIPPGroups => [Sweeps!Abstract!Next]_(Sweeps!Abstract!vars)
  /\ strategy = "LIPP_SPP" => [Tasks!Abstract!Next]_(Tasks!Abstract!vars)
  /\ strategy = "LIPP_AMAC" => [Abstract!Next]_(Abstract!vars)
  /\ strategy \in WindowGroups => [Rounds!Abstract!Next]_(Rounds!Abstract!vars)
  /\ strategy \in ByStages => [Stages!Abstract!Next]_(Stages!Abstract!vars)
  /\ strategy \in ByMachine => [Machines!Abstract!Next]_(Machines!Abstract!vars)

LookupStart ==
  /\ strategy \in LIPPGroups => Sweeps!Abstract!Init
  /\ strategy = "LIPP_SPP" => Tasks!Abstract!Init
  /\ strategy = "LIPP_AMAC" => Abstract!Init
  /\ strategy \in WindowGroups => Rounds!Abstract!Init
  /\ strategy \in ByStages => Stages!Abstract!Init
  /\ strategy \in ByMachine => Machines!Abstract!Init

LEMMA KindsApart ==
  /\ strategy \in LIPPGroups =>
       strategy \notin {"LIPP_SPP", "LIPP_AMAC"} \cup WindowGroups \cup ByStages \cup ByMachine
  /\ strategy \in {"LIPP_SPP", "LIPP_AMAC"} =>
       strategy \notin LIPPGroups \cup WindowGroups \cup ByStages \cup ByMachine
  /\ strategy \in WindowGroups =>
       strategy \notin {"LIPP_SPP", "LIPP_AMAC"} \cup LIPPGroups \cup ByStages \cup ByMachine
  /\ strategy \in ByStages =>
       strategy \notin {"LIPP_SPP", "LIPP_AMAC"} \cup LIPPGroups \cup WindowGroups \cup ByMachine
  /\ strategy \in ByMachine =>
       strategy \notin {"LIPP_SPP", "LIPP_AMAC"} \cup LIPPGroups \cup WindowGroups \cup ByStages
<1> QED  BY DEF LIPPGroups, WindowGroups, ByStages, ByMachine, ByOne, BySteps

LEMMA MCInitCall ==
  ASSUME MCInit
  PROVE  /\ strategy \in LIPPGroups \cup {"LIPP_SPP", "LIPP_AMAC"} => ArgsAndOutsInit
         /\ strategy \in Windowed =>
              /\ index \in Indexes[strategy] /\ index \in AnyIndex /\ queries \in WindowBatches
              /\ found = [q \in QueryIdx |-> FALSE] /\ results = [q \in QueryIdx |-> Stale]
<1>1. found = [q \in QueryIdx |-> FALSE] /\ results = [q \in QueryIdx |-> Stale]
  BY DEF MCInit
<1>2. strategy \in LIPPGroups \cup {"LIPP_SPP", "LIPP_AMAC"} => strategy \notin Windowed
  BY KindsApart DEF Windowed
<1>3. strategy \in LIPPGroups \cup {"LIPP_SPP", "LIPP_AMAC"} => tree \in Trees /\ queries \in Batches
  BY <1>2 DEF MCInit
<1>4. strategy \in Windowed => index \in Indexes[strategy] /\ queries \in WindowBatches
  BY <1>2 DEF MCInit
<1> QED  BY <1>1, <1>3, <1>4 DEF ArgsAndOutsInit, LookupInit, AnyIndex

LEMMA MCInitKinds ==
  ASSUME MCInit
  PROVE  /\ strategy \in LIPPGroups => Sweeps!Init
         /\ strategy = "LIPP_SPP" => Tasks!Init
         /\ strategy = "LIPP_AMAC" => Init
         /\ strategy \in WindowGroups => Rounds!Init
         /\ strategy \in ByStages => Stages!Init /\ index \in StageIndexes
         /\ strategy \in ByMachine => Machines!Init
<1>1. GroupSize \in Nat \ {0} /\ POOL_SIZE \in Nat \ {0}
  <2>1. 1 \in Nat \ {0}
    OBVIOUS
  <2> QED  BY <2>1, PoolAssumption, Zenon DEF GroupSize
<1>2. /\ pc = IF strategy \in LIPPGroups \cup WindowGroups THEN "for" ELSE "start"
      /\ pool = [j \in Slots |-> IF strategy \in ByMachine THEN Machines!Idle ELSE Idle]
      /\ next_query_idx = 0 /\ finished = 0 /\ i = 0
      /\ batch_start = 0 /\ remaining = 0 /\ step = 0
  BY DEF MCInit
<1>3. CASE strategy \in LIPPGroups
  <2>1. ArgsAndOutsInit /\ pc = "for"
    BY <1>2, <1>3, MCInitCall
  <2>2. /\ nodes = [j \in Sweeps!Lanes |-> <<>>] /\ active = [j \in Sweeps!Lanes |-> FALSE]
        /\ pos = [j \in Sweeps!Lanes |-> Sweeps!NoPos]
    BY DEF MCInit
  <2>3. (strategy = "LIPP_Vectorized") \in BOOLEAN
    OBVIOUS
  <2>4. Sweeps!Init
    BY <1>1, <1>2, <2>1, <2>2, <2>3, SweepsSameSteps DEF Sweeps!Init
  <2> QED  BY <1>3, <2>4, KindsApart
<1>4. CASE strategy = "LIPP_SPP"
  <2>1. ArgsAndOutsInit /\ pc = "start"
    BY <1>2, <1>4, MCInitCall, KindsApart
  <2>2. tasks = [j \in Slots |-> Tasks!NoTask] /\ Tasks!Slots = Slots
    BY DEF MCInit, Tasks!Slots, Slots
  <2>3. Tasks!Init
    BY <1>2, <2>1, <2>2, TasksSameSteps DEF Tasks!Init
  <2> QED  BY <1>4, <2>3, KindsApart
<1>5. CASE strategy = "LIPP_AMAC"
  <2>1. ArgsAndOutsInit /\ pc = "start" /\ pool = [j \in Slots |-> Idle]
    BY <1>2, <1>5, MCInitCall, KindsApart
  <2>2. Init
    BY <1>2, <2>1 DEF Init
  <2> QED  BY <1>5, <2>2, KindsApart
<1>6. CASE strategy \in WindowGroups
  <2>1. /\ index \in AnyIndex /\ queries \in WindowBatches
        /\ found = [q \in QueryIdx |-> FALSE] /\ results = [q \in QueryIdx |-> Stale]
    BY <1>6, MCInitCall DEF Windowed
  <2>2. Rounds!ArgsAndOutsInit
    BY <2>1, RoundsSame DEF Rounds!ArgsAndOutsInit, Rounds!LookupInit
  <2>3. windows = [j \in Rounds!Lanes |-> Rounds!NoWindow] /\ pc = "for"
    BY <1>2, <1>6 DEF MCInit
  <2>4. (strategy \in BySteps) \in BOOLEAN /\ (strategy \notin ByOne) \in BOOLEAN
    OBVIOUS
  <2>5. Rounds!Init
    BY <1>1, <1>2, <2>2, <2>3, <2>4 DEF Rounds!Init
  <2> QED  BY <1>6, <2>5, KindsApart
<1>7. CASE strategy \in ByStages
  <2>1. /\ index \in AnyIndex /\ queries \in WindowBatches /\ index \in Indexes[strategy]
        /\ found = [q \in QueryIdx |-> FALSE] /\ results = [q \in QueryIdx |-> Stale]
    BY <1>7, MCInitCall DEF Windowed
  <2>2. Stages!ArgsAndOutsInit
    BY <2>1, StagesSame DEF Stages!ArgsAndOutsInit, Stages!LookupInit
  <2>3. /\ stages = [s \in 0 .. Stages!H |-> [j \in Slots |-> Stages!NoTask]]
        /\ Stages!Lanes = Slots /\ pc = "start"
    BY <1>2, <1>7, KindsApart DEF MCInit, Stages!Lanes, Slots
  <2>4. Stages!Init
    BY <1>2, <2>2, <2>3 DEF Stages!Init
  <2>5. index \in StageIndexes
    BY <1>7, <2>1 DEF StageIndexes
  <2> QED  BY <1>7, <2>4, <2>5, KindsApart
<1>8. CASE strategy \in ByMachine
  <2>1. /\ index \in AnyIndex /\ queries \in WindowBatches
        /\ found = [q \in QueryIdx |-> FALSE] /\ results = [q \in QueryIdx |-> Stale]
    BY <1>8, MCInitCall DEF Windowed
  <2>2. Machines!ArgsAndOutsInit
    BY <2>1, MachinesSame DEF Machines!ArgsAndOutsInit, Machines!LookupInit
  <2>3. pool = [j \in Slots |-> Machines!Idle] /\ Machines!Slots = Slots /\ pc = "start"
    BY <1>2, <1>8, KindsApart, MachinesSlots
  <2>4. Machines!Init
    BY <1>2, <2>2, <2>3 DEF Machines!Init
  <2> QED  BY <1>8, <2>4, KindsApart
<1> QED  BY <1>3, <1>4, <1>5, <1>6, <1>7, <1>8

LEMMA MCStarts == ASSUME MCInit PROVE MCIInv /\ LookupStart
<1>1. MCIInv
  BY MCInitKinds, SweepsInitInv, TasksInitInv, PoolInitInv, RoundsInitInv, StagesInitInv, MachinesInitInv
  DEF MCIInv
<1>2. LookupStart
  BY MCInitKinds, SweepsAbstractInit, TasksAbstractInit, PoolAbstractInit, RoundsAbstractInit,
     StagesAbstractInit, MachinesAbstractInit
  DEF LookupStart
<1> QED  BY <1>1, <1>2

(* The strategy that runs takes a step of its own, or none. *)
LEMMA MCNextKinds ==
  ASSUME [MCNext]_allVars
  PROVE  /\ strategy' = strategy
         /\ strategy \in LIPPGroups => [Sweeps!Next]_(Sweeps!vars)
         /\ strategy = "LIPP_SPP" => [Tasks!Next]_(Tasks!vars)
         /\ strategy = "LIPP_AMAC" => [Next]_vars
         /\ strategy \in WindowGroups => [Rounds!Next]_(Rounds!vars)
         /\ strategy \in ByStages => [Stages!Next]_(Stages!vars)
         /\ strategy \in ByMachine => [Machines!Next]_(Machines!vars)
<1>1. CASE UNCHANGED allVars
  <2>1. /\ UNCHANGED <<tree, queries, found, results, pc, pool, next_query_idx, finished, i, strategy>>
        /\ UNCHANGED <<index, tasks, nodes, active, remaining, pos, stages, windows, step, batch_start>>
    BY <1>1 DEF allVars, vars, ofGroups, ofWindows
  <2>2. UNCHANGED vars /\ UNCHANGED Tasks!vars /\ UNCHANGED Stages!vars /\ UNCHANGED Machines!vars
    BY <2>1 DEF vars, Tasks!vars, Stages!vars, Machines!vars
  <2>3. GroupSize' = GroupSize
    BY <2>1 DEF GroupSize
  <2>4. UNCHANGED Sweeps!vars
    BY <2>1, <2>3 DEF Sweeps!vars, Sweeps!call, Sweeps!args, Sweeps!outs
  <2>5. UNCHANGED Rounds!vars
    BY <2>1, <2>3 DEF Rounds!vars, Rounds!call, Rounds!args, Rounds!outs
  <2> QED  BY <2>1, <2>2, <2>4, <2>5
<1>2. CASE MCNext
  <2>1. strategy' = strategy /\ (LIPPNext \/ WindowNext)
    BY <1>2 DEF MCNext
  <2>2. \/ strategy \in LIPPGroups /\ Sweeps!Next
        \/ strategy = "LIPP_SPP" /\ Tasks!Next
        \/ strategy = "LIPP_AMAC" /\ Next
        \/ strategy \in WindowGroups /\ Rounds!Next
        \/ strategy \in ByStages /\ Stages!Next
        \/ strategy \in ByMachine /\ Machines!Next
    BY <2>1 DEF LIPPNext, WindowNext
  <2>3. /\ strategy \in LIPPGroups => Sweeps!Next
        /\ strategy = "LIPP_SPP" => Tasks!Next
        /\ strategy = "LIPP_AMAC" => Next
        /\ strategy \in WindowGroups => Rounds!Next
        /\ strategy \in ByStages => Stages!Next
        /\ strategy \in ByMachine => Machines!Next
    BY <2>2, KindsApart
  <2> QED  BY <2>1, <2>3
<1> QED  BY <1>1, <1>2

LEMMA MCSteps ==
  ASSUME MCIInv, [MCNext]_allVars
  PROVE  MCIInv' /\ LookupStep
<1>1. strategy' = strategy
  BY MCNextKinds
<1>2. strategy \in LIPPGroups => SweepsIInv' /\ [Sweeps!Abstract!Next]_(Sweeps!Abstract!vars)
  BY <1>1, MCNextKinds, SweepsNext DEF MCIInv
<1>3. strategy = "LIPP_SPP" => TasksIInv' /\ [Tasks!Abstract!Next]_(Tasks!Abstract!vars)
  BY MCNextKinds, TasksNext DEF MCIInv
<1>4. strategy = "LIPP_AMAC" => PoolIInv' /\ [Abstract!Next]_(Abstract!vars)
  BY MCNextKinds, PoolNext DEF MCIInv
<1>5. strategy \in WindowGroups => RoundsIInv' /\ [Rounds!Abstract!Next]_(Rounds!Abstract!vars)
  BY <1>1, MCNextKinds, RoundsNext DEF MCIInv
<1>6. strategy \in ByStages => StagesIInv' /\ [Stages!Abstract!Next]_(Stages!Abstract!vars)
  BY MCNextKinds, StagesNext DEF MCIInv
<1>7. strategy \in ByMachine => MachinesIInv' /\ [Machines!Abstract!Next]_(Machines!Abstract!vars)
  BY MCNextKinds, MachinesNext DEF MCIInv
<1>8. MCIInv'
  BY <1>1, <1>2, <1>3, <1>4, <1>5, <1>6, <1>7 DEF MCIInv
<1>9. LookupStep
  BY <1>2, <1>3, <1>4, <1>5, <1>6, <1>7 DEF LookupStep
<1> QED  BY <1>8, <1>9

(* The invariants of the six kinds hold in every run of every strategy.     *)
THEOREM MCInvariant == MCSpec => []MCIInv
<1>1. MCInit => MCIInv
  BY MCStarts
<1>2. MCIInv /\ [MCNext]_allVars => MCIInv'
  BY MCSteps
<1> QED  BY <1>1, <1>2, PTL DEF MCSpec

(* SPP and AMAC of LIPP, RS and PGM: no query is carried by two slots or     *)
(* stages, none leaves the way of its predictions or loses the goal of its  *)
(* binary search, the queries finished are counted, and exactly these are   *)
(* answered, and rightly, however the pool is sized and the batch is long.  *)
THEOREM PoolsStayExact == MCSpec => []PoolsExact
<1>1. MCIInv => PoolsExact
  BY TasksIInvImplies, PoolIInvImplies, StagesIInvImplies, MachinesIInvImplies DEF MCIInv, PoolsExact
<1> QED  BY <1>1, MCInvariant, PTL

(* NoPrefetch, GroupPrefetch and Vectorized of LIPP, RS and PGM: the count   *)
(* of remaining queries is that of the active members, no window of a group *)
(* loses its goal, the counted rounds close every window, and exactly the   *)
(* queries that ended are answered.                                        *)
THEOREM GroupsStayExact == MCSpec => []GroupsExact
<1>1. MCIInv => GroupsExact
  BY SweepsIInvImplies, RoundsIInvImplies DEF MCIInv, GroupsExact
<1> QED  BY <1>1, MCInvariant, PTL

(* Every step of every strategy of the learned indexes answers queries that *)
(* had no answer, with the value that is stored under their key or as       *)
(* missing, and touches no other output, or is none of the abstract lookup. *)
THEOREM LearnedRefinement == MCSpec => RefineBatchLookup
<1>1. MCInit => LookupStart
  BY MCStarts
<1>2. MCIInv /\ [MCNext]_allVars => [LookupStep]_allVars
  BY MCSteps
<1>3. MCSpec => [][LookupStep]_allVars
  BY <1>2, MCInvariant, PTL DEF MCSpec
<1>4. MCSpec => LookupStart
  BY <1>1, PTL DEF MCSpec
<1> QED  BY <1>3, <1>4 DEF RefineBatchLookup, LookupStart, LookupStep
=============================================================================
