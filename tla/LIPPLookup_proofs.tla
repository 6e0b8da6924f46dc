-------------------------- MODULE LIPPLookup_proofs --------------------------
(***************************************************************************)
(* Lemmas about the lookups of LIPP.  A query stands on the one way that    *)
(* the predictions for its key lead, and a sound tree keeps an item with    *)
(* this key nowhere else than at its end.  What the schedules have to keep  *)
(* is that the queries dealt, in flight and answered are told apart by     *)
(* their counters; the lemmas that say so serve RS and PGM as well.        *)
(***************************************************************************)
EXTENDS MCLearnedLookup, FiniteSetTheorems, SequenceTheorems, WellFoundedInduction, TLAPS

-----------------------------------------------------------------------------
(* Induction.                                                              *)

(* Every non-empty set of naturals has a least element. *)
LEMMA LeastNatural ==
  ASSUME NEW T, T \subseteq Nat, T # {}
  PROVE  \E m \in T : \A j \in T : m <= j
<1>1. IsWellFoundedOn(OpToRel(<, Nat), Nat)
  BY NatLessThanWellFounded
<1>2. PICK m \in T : \A j \in T : ~(<<j, m>> \in OpToRel(<, Nat))
  BY <1>1, WFMin, Zenon
<1>3. \A j \in T : m <= j
  <2> SUFFICES ASSUME NEW j \in T, ~(m <= j)
               PROVE  FALSE
    OBVIOUS
  <2>1. m \in Nat /\ j \in Nat /\ j < m
    OBVIOUS
  <2>2. <<j, m>> \in OpToRel(<, Nat)
    BY <2>1 DEF OpToRel
  <2> QED  BY <1>2, <2>2
<1> QED  BY <1>3

-----------------------------------------------------------------------------
(* LIPP: the way of a key.                                                 *)

(* The predicted position is one of the node. *)
LEMMA PredictedPosition ==
  ASSUME NEW nd, NodeOK(nd), NEW key \in Key
  PROVE  PREDICT_POS(nd, key) \in Positions(nd) /\ PREDICT_POS(nd, key) \in Nat
BY DEF NodeOK, PREDICT_POS, Positions

(* With a node a tree holds all those on the way to it. *)
LEMMA WayStored ==
  ASSUME NEW t, SoundTree(t), NEW r \in DOMAIN t, NEW k \in 0 .. Len(r)
  PROVE  SubSeq(r, 1, k) \in DOMAIN t
<1> DEFINE T == {d \in 0 .. Len(r) : SubSeq(r, 1, Len(r) - d) \notin DOMAIN t}
<1>1. r \in Seq(Nat) /\ Len(r) \in Nat
  BY DEF SoundTree
<1>2. SUFFICES T = {}
  <2>1. Len(r) - k \in 0 .. Len(r) /\ Len(r) - (Len(r) - k) = k
    BY <1>1
  <2> QED  BY <2>1
<1>3. SUFFICES ASSUME T # {} PROVE FALSE
  OBVIOUS
<1>4. PICK d \in T : \A e \in T : d <= e
  <2>1. T \subseteq Nat
    BY <1>1
  <2> HIDE DEF T
  <2> QED  BY <1>3, <2>1, LeastNatural
<1>5. d \in 0 .. Len(r) /\ SubSeq(r, 1, Len(r) - d) \notin DOMAIN t
  OBVIOUS
<1>6. CASE d = 0
  <2>1. SubSeq(r, 1, Len(r)) = r
    BY <1>1, SubSeqFull
  <2>2. Len(r) - d = Len(r)
    BY <1>1, <1>6
  <2> QED  BY <1>5, <2>1, <2>2
<1>7. CASE d # 0
  <2>1. PICK m : m = Len(r) - (d - 1)
    OBVIOUS
  <2>2. m \in 1 .. Len(r) /\ Len(r) - d = m - 1
    BY <1>1, <1>5, <1>7, <2>1
  <2>3. PICK s : s = SubSeq(r, 1, m)
    OBVIOUS
  <2>4. d - 1 \in 0 .. Len(r) /\ d - 1 \notin T
    BY <1>1, <1>4, <1>5, <1>7
  <2>5. s \in DOMAIN t
    BY <2>1, <2>3, <2>4
  <2>6. s \in Seq(Nat) /\ Len(s) = m /\ \A j \in 1 .. m : s[j] = r[j]
    <3>1. \A j \in 1 .. m : r[j] \in Nat
      BY <1>1, <2>2
    <3> QED  BY <2>2, <2>3, <3>1, SubSeqProperties
  <2>7. SubSeq(s, 1, m - 1) \in DOMAIN t
    <3>1. s # <<>>
      BY <2>2, <2>6
    <3> QED  BY <2>5, <2>6, <3>1 DEF SoundTree
  <2>8. SubSeq(s, 1, m - 1) = SubSeq(r, 1, m - 1)
    <3>1. \A j \in 1 .. m - 1 : s[j] \in Nat /\ s[j] = r[j] /\ r[j] \in Nat
      <4> TAKE j \in 1 .. m - 1
      <4>1. PICK c : c = Len(r)
        OBVIOUS
      <4>2. m \in 1 .. c /\ c \in Nat
        BY <1>1, <2>2, <4>1
      <4>3. j \in 1 .. m /\ j \in 1 .. c
        BY <4>2
      <4>4. s[j] = r[j]
        BY <2>6, <4>3
      <4>5. r[j] \in Nat
        BY <1>1, <4>1, <4>3, ElementOfSeq
      <4> QED  BY <4>4, <4>5
    <3>2. /\ SubSeq(s, 1, m - 1) \in Seq(Nat)
          /\ Len(SubSeq(s, 1, m - 1)) = IF 1 <= m - 1 THEN m - 1 - 1 + 1 ELSE 0
          /\ \A j \in 1 .. m - 1 - 1 + 1 : SubSeq(s, 1, m - 1)[j] = s[1 + j - 1]
      BY <2>2, <3>1, SubSeqProperties
    <3>3. /\ SubSeq(r, 1, m - 1) \in Seq(Nat)
          /\ Len(SubSeq(r, 1, m - 1)) = IF 1 <= m - 1 THEN m - 1 - 1 + 1 ELSE 0
          /\ \A j \in 1 .. m - 1 - 1 + 1 : SubSeq(r, 1, m - 1)[j] = r[1 + j - 1]
      BY <2>2, <3>1, SubSeqProperties
    <3>4. PICK a, b : a = SubSeq(s, 1, m - 1) /\ b = SubSeq(r, 1, m - 1)
      OBVIOUS
    <3>5. a \in Seq(Nat) /\ b \in Seq(Nat) /\ Len(a) = m - 1 /\ Len(b) = m - 1
      BY <2>2, <3>2, <3>3, <3>4
    <3>6. \A j \in 1 .. m - 1 : a[j] = b[j]
      BY <2>2, <3>1, <3>2, <3>3, <3>4
    <3> QED  BY <3>4, <3>5, <3>6, SeqEqual
  <2> QED  BY <1>5, <2>2, <2>7, <2>8
<1> QED  BY <1>5, <1>6, <1>7

(* Two nodes on the way of one key lie on one path. *)
LEMMA OneWay ==
  ASSUME NEW t, SoundTree(t), NEW r \in DOMAIN t, NEW u \in DOMAIN t, NEW key \in Key,
         Follows(t, r, key), Follows(t, u, key), Len(r) <= Len(u)
  PROVE  SubSeq(u, 1, Len(r)) = r
<1> DEFINE T == {k \in 1 .. Len(r) : r[k] # u[k]}
<1>1. r \in Seq(Nat) /\ u \in Seq(Nat) /\ Len(r) \in Nat /\ Len(u) \in Nat
  BY DEF SoundTree
<1>2. T = {}
  <2> SUFFICES ASSUME T # {} PROVE FALSE
    OBVIOUS
  <2>1. PICK k \in T : \A e \in T : k <= e
    <3>1. T \subseteq Nat
      BY <1>1
    <3> HIDE DEF T
    <3> QED  BY <3>1, LeastNatural
  <2>2. k \in 1 .. Len(r) /\ k \in 1 .. Len(u) /\ r[k] # u[k] /\ k \in Nat
    <3>1. k \in 1 .. Len(r) /\ r[k] # u[k]
      OBVIOUS
    <3>2. PICK a, b : a = Len(r) /\ b = Len(u)
      OBVIOUS
    <3>3. a \in Nat /\ b \in Nat /\ a <= b /\ k \in 1 .. a
      BY <1>1, <3>1, <3>2
    <3>4. k \in 1 .. b /\ k \in Nat
      BY <3>3
    <3> QED  BY <3>1, <3>2, <3>4
  <2>3. \A j \in 1 .. k - 1 : r[j] = u[j] /\ r[j] \in Nat /\ u[j] \in Nat
    <3> TAKE j \in 1 .. k - 1
    <3>1. j \in 1 .. Len(r) /\ j \in 1 .. Len(u) /\ ~(k <= j)
      <4>1. PICK a, b : a = Len(r) /\ b = Len(u)
        OBVIOUS
      <4>2. a \in Nat /\ b \in Nat /\ k \in 1 .. a /\ k \in 1 .. b /\ j \in 1 .. k - 1
        BY <1>1, <2>2, <4>1
      <4>3. j \in 1 .. a /\ j \in 1 .. b /\ ~(k <= j)
        BY <4>2
      <4> QED  BY <4>1, <4>3
    <3>2. j \notin T
      BY <2>1, <3>1
    <3>3. r[j] = u[j]
      BY <3>1, <3>2
    <3>4. r[j] \in Nat
      BY <1>1, <3>1, ElementOfSeq
    <3> QED  BY <3>3, <3>4
  <2>4. SubSeq(r, 1, k - 1) = SubSeq(u, 1, k - 1)
    <3>1. /\ SubSeq(r, 1, k - 1) \in Seq(Nat)
          /\ Len(SubSeq(r, 1, k - 1)) = IF 1 <= k - 1 THEN k - 1 - 1 + 1 ELSE 0
          /\ \A j \in 1 .. k - 1 - 1 + 1 : SubSeq(r, 1, k - 1)[j] = r[1 + j - 1]
      BY <2>2, <2>3, SubSeqProperties
    <3>2. /\ SubSeq(u, 1, k - 1) \in Seq(Nat)
          /\ Len(SubSeq(u, 1, k - 1)) = IF 1 <= k - 1 THEN k - 1 - 1 + 1 ELSE 0
          /\ \A j \in 1 .. k - 1 - 1 + 1 : SubSeq(u, 1, k - 1)[j] = u[1 + j - 1]
      BY <2>2, <2>3, SubSeqProperties
    <3>3. PICK a, b : a = SubSeq(r, 1, k - 1) /\ b = SubSeq(u, 1, k - 1)
      OBVIOUS
    <3>4. a \in Seq(Nat) /\ b \in Seq(Nat) /\ Len(a) = k - 1 /\ Len(b) = k - 1
      BY <2>2, <3>1, <3>2, <3>3
    <3>5. \A j \in 1 .. k - 1 : a[j] = b[j]
      BY <2>2, <2>3, <3>1, <3>2, <3>3
    <3> QED  BY <3>3, <3>4, <3>5, SeqEqual
  <2> QED  BY <2>2, <2>4 DEF Follows
<1>3. \A k \in 1 .. Len(r) : u[k] = r[k] /\ u[k] \in Nat
  BY <1>1, <1>2
<1>4. PICK a : a = SubSeq(u, 1, Len(r))
  OBVIOUS
<1>5. /\ a \in Seq(Nat)
      /\ Len(a) = IF 1 <= Len(r) THEN Len(r) - 1 + 1 ELSE 0
      /\ \A j \in 1 .. Len(r) - 1 + 1 : a[j] = u[1 + j - 1]
  BY <1>1, <1>3, <1>4, SubSeqProperties
<1>6. Len(a) = Len(r) /\ \A j \in 1 .. Len(r) : a[j] = r[j]
  BY <1>1, <1>3, <1>5
<1> QED  BY <1>1, <1>4, <1>5, <1>6, SeqEqual

(* Where a way goes on, its next node is a child. *)
LEMMA WayGoesOn ==
  ASSUME NEW t, SoundTree(t), NEW r \in DOMAIN t, NEW u \in DOMAIN t, NEW key \in Key,
         Follows(t, r, key), Follows(t, u, key), Len(r) < Len(u)
  PROVE  PREDICT_POS(t[r], key) \in t[r].child_bitmap
<1>1. r \in Seq(Nat) /\ u \in Seq(Nat) /\ Len(r) \in Nat /\ Len(u) \in Nat /\ NodeOK(t[r]) /\ ItemsOK(t, r)
  BY DEF SoundTree
<1>2. SubSeq(u, 1, Len(r)) = r
  BY <1>1, OneWay
<1>3. PICK m : m = Len(r) + 1
  OBVIOUS
<1>4. m \in 1 .. Len(u) /\ m - 1 = Len(r)
  BY <1>1, <1>3
<1>5. u[m] = PREDICT_POS(t[r], key)
  BY <1>2, <1>4 DEF Follows
<1>6. SubSeq(u, 1, m) \in DOMAIN t
  BY <1>1, <1>4, WayStored
<1>7. SubSeq(u, 1, m) = Append(r, u[m])
  <2>1. \A j \in 1 .. m : u[j] \in Nat
    BY <1>1, <1>4
  <2>2. \A j \in 1 .. Len(r) : u[j] = r[j]
    <3>1. \A j \in 1 .. Len(r) - 1 + 1 : SubSeq(u, 1, Len(r))[j] = u[1 + j - 1]
      BY <1>1, <1>4, <2>1, SubSeqProperties
    <3> QED  BY <1>1, <1>2, <3>1
  <2>3. PICK a, b, e : a = SubSeq(u, 1, m) /\ b = Append(r, u[m]) /\ e = u[m]
    OBVIOUS
  <2>4. a \in Seq(Nat) /\ Len(a) = m /\ \A j \in 1 .. m - 1 + 1 : a[j] = u[1 + j - 1]
    BY <1>1, <1>4, <2>1, <2>3, SubSeqProperties
  <2>5. /\ b \in Seq(Nat) /\ Len(b) = Len(r) + 1 /\ b[Len(r) + 1] = e
        /\ \A j \in 1 .. Len(r) : b[j] = r[j]
    <3>1. e \in Nat
      BY <1>4, <2>1, <2>3
    <3> QED  BY <1>1, <2>3, <3>1, AppendProperties
  <2>6. \A j \in 1 .. m : a[j] = b[j]
    <3> TAKE j \in 1 .. m
    <3>1. a[j] = u[j]
      <4>1. m \in Nat /\ j \in Nat
        BY <1>1, <1>4
      <4>2. m - 1 + 1 = m /\ 1 + j - 1 = j
        BY <4>1
      <4>3. j \in 1 .. m - 1 + 1
        BY <4>2
      <4>4. a[j] = u[1 + j - 1]
        BY <2>4, <4>3
      <4> QED  BY <4>2, <4>4
    <3>2. CASE j = m
      BY <1>3, <2>3, <2>5, <3>1, <3>2
    <3>3. CASE j # m
      <4>1. j \in 1 .. Len(r)
        BY <1>1, <1>4, <3>3
      <4> QED  BY <2>2, <2>5, <3>1, <4>1
    <3> QED  BY <3>2, <3>3
  <2> QED  BY <1>3, <2>3, <2>4, <2>5, <2>6, SeqEqual
<1>8. PREDICT_POS(t[r], key) \in Positions(t[r])
  BY <1>1, PredictedPosition
<1> QED  BY <1>1, <1>5, <1>6, <1>7, <1>8 DEF ItemsOK

(* An item with a key lies where the way of the key ends, and nowhere else. *)
LEMMA ItemAtTheEnd ==
  ASSUME NEW t, SoundTree(t), NEW r \in DOMAIN t, NEW key \in Key, Follows(t, r, key),
         PREDICT_POS(t[r], key) \notin t[r].child_bitmap,
         NEW item \in Stored(t), item[1] = key
  PROVE  /\ PREDICT_POS(t[r], key) \in DOMAIN t[r].data
         /\ item = t[r].data[PREDICT_POS(t[r], key)]
<1>1. PICK u \in DOMAIN t : \E p \in DOMAIN t[u].data : item = t[u].data[p]
  BY DEF Stored
<1>2. PICK p \in DOMAIN t[u].data : item = t[u].data[p]
  BY <1>1
<1>3. Follows(t, u, key) /\ PREDICT_POS(t[u], key) = p
  BY <1>2 DEF SoundTree, DataOK
<1>4. r \in Seq(Nat) /\ u \in Seq(Nat) /\ Len(r) \in Nat /\ Len(u) \in Nat
  BY DEF SoundTree
<1>5. PREDICT_POS(t[u], key) \notin t[u].child_bitmap
  BY <1>2, <1>3 DEF SoundTree, ItemsOK
<1>6. ~(Len(r) < Len(u)) /\ ~(Len(u) < Len(r))
  BY <1>3, <1>5, WayGoesOn
<1>7. Len(r) = Len(u)
  BY <1>4, <1>6
<1>8. u = r
  <2>1. SubSeq(u, 1, Len(r)) = r
    BY <1>3, <1>4, <1>7, OneWay
  <2>2. SubSeq(u, 1, Len(u)) = u
    BY <1>4, SubSeqFull
  <2> QED  BY <1>7, <2>1, <2>2
<1> QED  BY <1>2, <1>3, <1>8

(* A step to the predicted child stays on the way. *)
LEMMA ChildOnWay ==
  ASSUME NEW t, SoundTree(t), NEW r \in DOMAIN t, NEW key \in Key, Follows(t, r, key),
         PREDICT_POS(t[r], key) \in t[r].child_bitmap
  PROVE  /\ Append(r, PREDICT_POS(t[r], key)) \in DOMAIN t
         /\ Follows(t, Append(r, PREDICT_POS(t[r], key)), key)
<1>1. r \in Seq(Nat) /\ Len(r) \in Nat /\ NodeOK(t[r]) /\ ItemsOK(t, r)
  BY DEF SoundTree
<1>2. PICK p, u : p = PREDICT_POS(t[r], key) /\ u = Append(r, p)
  OBVIOUS
<1>3. p \in Positions(t[r]) /\ p \in Nat
  BY <1>1, <1>2, PredictedPosition
<1>4. u \in DOMAIN t
  BY <1>1, <1>2, <1>3 DEF ItemsOK
<1>5. /\ u \in Seq(Nat) /\ Len(u) = Len(r) + 1 /\ u[Len(r) + 1] = p
      /\ \A j \in 1 .. Len(r) : u[j] = r[j]
  BY <1>1, <1>2, <1>3, AppendProperties
<1>6. ASSUME NEW j \in 1 .. Len(u)
      PROVE  u[j] = PREDICT_POS(t[SubSeq(u, 1, j - 1)], key)
  <2> j \in Int /\ j - 1 \in Int /\ j \in 1 .. Len(r) + 1
    BY <1>1, <1>5, <1>6
  <2>1. \A k \in 1 .. j - 1 : k \in 1 .. Len(r) /\ u[k] = r[k] /\ u[k] \in Nat /\ r[k] \in Nat
    <3> TAKE k \in 1 .. j - 1
    <3>1. PICK c : c = Len(r)
      OBVIOUS
    <3>2. c \in Nat /\ j \in 1 .. c + 1
      BY <1>1, <3>1
    <3>3. k \in 1 .. c
      BY <3>2
    <3>4. u[k] = r[k]
      BY <1>5, <3>1, <3>3
    <3>5. r[k] \in Nat
      BY <1>1, <3>1, <3>3, ElementOfSeq
    <3> QED  BY <3>1, <3>3, <3>4, <3>5
  <2>2. /\ SubSeq(r, 1, j - 1) \in Seq(Nat)
        /\ Len(SubSeq(r, 1, j - 1)) = IF 1 <= j - 1 THEN j - 1 - 1 + 1 ELSE 0
        /\ \A k \in 1 .. j - 1 - 1 + 1 : SubSeq(r, 1, j - 1)[k] = r[1 + k - 1]
    BY <2>1, SubSeqProperties
  <2>3. /\ SubSeq(u, 1, j - 1) \in Seq(Nat)
        /\ Len(SubSeq(u, 1, j - 1)) = IF 1 <= j - 1 THEN j - 1 - 1 + 1 ELSE 0
        /\ \A k \in 1 .. j - 1 - 1 + 1 : SubSeq(u, 1, j - 1)[k] = u[1 + k - 1]
    BY <2>1, SubSeqProperties
  <2>4. PICK a, b : a = SubSeq(r, 1, j - 1) /\ b = SubSeq(u, 1, j - 1)
    OBVIOUS
  <2>5. a \in Seq(Nat) /\ b \in Seq(Nat) /\ Len(a) = j - 1 /\ Len(b) = j - 1
    BY <1>1, <1>5, <1>6, <2>2, <2>3, <2>4
  <2>6. \A k \in 1 .. j - 1 : a[k] = b[k]
    BY <1>1, <1>5, <1>6, <2>1, <2>2, <2>3, <2>4
  <2>7. a = b
    BY <2>5, <2>6, SeqEqual
  <2>8. CASE j \in 1 .. Len(r)
    BY <1>5, <2>4, <2>7, <2>8 DEF Follows
  <2>9. CASE j = Len(r) + 1
    <3>1. SubSeq(r, 1, Len(r)) = r
      BY <1>1, SubSeqFull
    <3>2. j - 1 = Len(r)
      BY <1>1, <2>9
    <3> QED  BY <1>2, <1>5, <2>4, <2>7, <2>9, <3>1, <3>2
  <2> QED  BY <1>1, <1>5, <1>6, <2>8, <2>9
<1> QED  BY <1>2, <1>4, <1>6 DEF Follows

-----------------------------------------------------------------------------
(* Batches: answers and counters.                                          *)

OutsOK ==
  /\ found \in [QueryIdx -> BOOLEAN]
  /\ DOMAIN results = QueryIdx /\ results = [q \in DOMAIN results |-> results[q]]

(* A batch of keys has positions 0 to n - 1. *)
LEMMA BatchFacts ==
  ASSUME queries \in Seq(Key)
  PROVE  /\ n \in Nat /\ QueryIdx = 0 .. n - 1
         /\ \A q \in QueryIdx : KeyAt(q) \in Key
<1>1. n \in Nat
  BY DEF n
<1>2. \A q \in QueryIdx : KeyAt(q) \in Key
  BY ElementOfSeq DEF n, QueryIdx, KeyAt
<1> QED  BY <1>1, <1>2 DEF QueryIdx

(* Sets of positions are finite; one with as many as there are has all. *)
LEMMA PositionsFinite ==
  ASSUME queries \in Seq(Key), NEW S, S \subseteq QueryIdx
  PROVE  /\ IsFiniteSet(S)
         /\ Cardinality(S) \in Nat
         /\ Cardinality(S) <= n
         /\ Cardinality(S) = n => S = QueryIdx
<1>1. IsFiniteSet(QueryIdx) /\ Cardinality(QueryIdx) = n
  BY BatchFacts, FS_Interval
<1>2. /\ IsFiniteSet(S)
      /\ Cardinality(S) <= Cardinality(QueryIdx)
      /\ Cardinality(QueryIdx) = Cardinality(S) => QueryIdx = S
  BY <1>1, FS_Subset
<1>3. Cardinality(S) \in Nat
  BY <1>2, FS_CardinalityType
<1> QED  BY <1>1, <1>2, <1>3

(* The hits of the queries Qs are right, and the others of them misses. *)
HitsRight(items, Qs, hits) ==
  \A q \in Qs : IF q \in DOMAIN hits THEN <<KeyAt(q), hits[q]>> \in items
                ELSE \A item \in items : item[1] # KeyAt(q)

(* A step that answers Qs after A, and touches no other query. *)
Answers(items, A, Qs) ==
  /\ OutsOK' /\ n' = n /\ QueryIdx' = QueryIdx /\ queries' = queries
  /\ AnswersRight(items, A \cup Qs)'
  /\ \A q \in Qs : RightAnswer(items, q)'
  /\ \A q \in QueryIdx \ Qs : found'[q] = found[q] /\ results'[q] = results[q]

(* Writing the hits of queries without an answer, when these are right and  *)
(* the others misses, answers these queries and touches no other.          *)
LEMMA SettleStep ==
  ASSUME OutsOK, queries' = queries, NEW items, NEW A, AnswersRight(items, A),
         NEW Qs, Qs \subseteq QueryIdx, Qs \cap A = {},
         NEW hits, DOMAIN hits \subseteq Qs, Settle(hits), HitsRight(items, Qs, hits)
  PROVE  Answers(items, A, Qs)
<1>1. n' = n /\ QueryIdx' = QueryIdx /\ \A q : KeyAt(q)' = KeyAt(q)
  BY DEF n, QueryIdx, KeyAt
<1>2. /\ found' = [q \in QueryIdx |-> q \in DOMAIN hits \/ found[q]]
      /\ results' = [q \in QueryIdx |-> IF q \in DOMAIN hits THEN hits[q] ELSE results[q]]
  BY DEF Settle
<1>3. OutsOK'
  <2>1. found' \in [QueryIdx -> BOOLEAN]
    BY <1>2 DEF OutsOK
  <2>2. DOMAIN results' = QueryIdx /\ results' = [q \in DOMAIN results' |-> results'[q]]
    BY <1>2
  <2> QED  BY <1>1, <2>1, <2>2 DEF OutsOK
<1>4. \A q \in QueryIdx \ Qs : found'[q] = found[q] /\ results'[q] = results[q]
  BY <1>2 DEF OutsOK
<1>5. ASSUME NEW q \in Qs
      PROVE  RightAnswer(items, q)'
  <2>1. Unanswered(q)
    BY DEF AnswersRight
  <2>2. CASE q \in DOMAIN hits
    <3>1. found'[q] /\ results'[q] = hits[q]
      BY <1>2, <2>2
    <3>2. <<KeyAt(q), hits[q]>> \in items /\ <<KeyAt(q), hits[q]>>[1] = KeyAt(q)
      BY <2>2 DEF HitsRight
    <3> QED  BY <1>1, <3>1, <3>2 DEF RightAnswer
  <2>3. CASE q \notin DOMAIN hits
    <3>1. found'[q] = found[q] /\ results'[q] = results[q]
      BY <1>2, <2>3 DEF OutsOK
    <3> QED  BY <1>1, <2>1, <2>3, <3>1 DEF RightAnswer, Unanswered, HitsRight
  <2> QED  BY <2>2, <2>3
<1>6. AnswersRight(items, A \cup Qs)'
  <2> SUFFICES ASSUME NEW q \in QueryIdx
               PROVE  IF q \in A \cup Qs THEN RightAnswer(items, q)' ELSE Unanswered(q)'
    BY <1>1 DEF AnswersRight
  <2>1. CASE q \in Qs
    BY <1>5, <2>1
  <2>2. CASE q \notin Qs
    <3>1. found'[q] = found[q] /\ results'[q] = results[q] /\ KeyAt(q)' = KeyAt(q)
      BY <1>1, <1>4, <2>2
    <3>2. IF q \in A THEN RightAnswer(items, q) ELSE Unanswered(q)
      BY DEF AnswersRight
    <3> QED  BY <2>2, <3>1, <3>2 DEF RightAnswer, Unanswered
  <2> QED  BY <2>1, <2>2
<1> QED  BY <1>1, <1>3, <1>4, <1>5, <1>6 DEF Answers

(* A step that answers no query leaves the outputs as they were. *)
LEMMA NoneAnswered ==
  ASSUME OutsOK, NEW items, NEW A, Answers(items, A, {})
  PROVE  UNCHANGED outs
<1>1. \A q \in QueryIdx : found'[q] = found[q] /\ results'[q] = results[q]
  BY DEF Answers
<1>2. found' \in [QueryIdx -> BOOLEAN] /\ found \in [QueryIdx -> BOOLEAN]
  BY DEF Answers, OutsOK
<1>3. found' = found
  BY <1>1, <1>2
<1>4. /\ DOMAIN results' = QueryIdx /\ DOMAIN results = QueryIdx
      /\ results' = [q \in DOMAIN results' |-> results'[q]]
      /\ results = [q \in DOMAIN results |-> results[q]]
  BY DEF Answers, OutsOK
<1>5. results' = results
  BY <1>1, <1>4, Zenon
<1> QED  BY <1>3, <1>5 DEF outs

(* A step that leaves batch and outputs alone leaves every answer alone. *)
LEMMA OutsUnchanged ==
  ASSUME UNCHANGED <<queries, found, results>>
  PROVE  /\ n' = n /\ QueryIdx' = QueryIdx /\ (OutsOK' <=> OutsOK)
         /\ \A q : KeyAt(q)' = KeyAt(q)
         /\ \A items, A : AnswersRight(items, A)' <=> AnswersRight(items, A)
<1>1. n' = n /\ QueryIdx' = QueryIdx /\ \A q : KeyAt(q)' = KeyAt(q)
  BY DEF n, QueryIdx, KeyAt
<1>2. \A items, q : (RightAnswer(items, q)' <=> RightAnswer(items, q)) /\ (Unanswered(q)' <=> Unanswered(q))
  BY <1>1 DEF RightAnswer, Unanswered
<1> QED  BY <1>1, <1>2 DEF OutsOK, AnswersRight

-----------------------------------------------------------------------------
(* Pools: the queries dealt are in flight, one with each busy slot, or     *)
(* settled.                                                                *)

OneEach(B, idx, next) == \A a \in B : /\ idx[a] \in 0 .. next - 1
                                      /\ \A b \in B : a # b => idx[a] # idx[b]
Landed(B, idx, next)  == (0 .. next - 1) \ {idx[b] : b \in B}

(* The query of the slot visited: the next of the batch, or its own. *)
Carries(k, q, B, idx, next, next2) ==
  \/ k \notin B /\ q = next /\ next2 = next + 1
  \/ k \in B /\ q = idx[k] /\ next2 = next
OthersKept(k, B, idx, idx2) == \A b \in B : b # k => idx2[b] = idx[b]

(* A slot that keeps its query, or is given one, settles nothing. *)
LEMMA SlotGoesOn ==
  ASSUME NEW B, NEW idx, NEW next \in Nat, OneEach(B, idx, next),
         NEW k, NEW q, NEW next2, Carries(k, q, B, idx, next, next2),
         NEW idx2, idx2[k] = q, OthersKept(k, B, idx, idx2)
  PROVE  /\ OneEach(B \cup {k}, idx2, next2)
         /\ Landed(B \cup {k}, idx2, next2) = Landed(B, idx, next)
<1>1. q \in 0 .. next2 - 1 /\ \A b \in B : b # k => idx[b] # q
  BY DEF Carries, OneEach
<1>2. \A b \in B : idx[b] \in 0 .. next2 - 1
  BY DEF OneEach, Carries
<1>3. OneEach(B \cup {k}, idx2, next2)
  BY <1>1, <1>2 DEF OneEach, OthersKept
<1>4. {idx2[b] : b \in B \cup {k}} = {idx[b] : b \in B} \cup {q}
  BY DEF Carries, OthersKept
<1>5. CASE k \notin B /\ q = next /\ next2 = next + 1
  <2>1. 0 .. next2 - 1 = (0 .. next - 1) \cup {next} /\ q = next
    BY <1>5
  <2> QED  BY <1>3, <1>4, <2>1 DEF Landed
<1>6. CASE k \in B /\ q = idx[k] /\ next2 = next
  BY <1>3, <1>4, <1>6 DEF Landed
<1> QED  BY <1>5, <1>6 DEF Carries

(* A slot that ends settles its query, and this query alone. *)
LEMMA SlotEnds ==
  ASSUME NEW B, NEW idx, NEW next \in Nat, OneEach(B, idx, next),
         NEW k, NEW q, NEW next2, Carries(k, q, B, idx, next, next2),
         NEW idx2, OthersKept(k, B, idx, idx2)
  PROVE  /\ OneEach(B \ {k}, idx2, next2)
         /\ Landed(B \ {k}, idx2, next2) = Landed(B, idx, next) \cup {q}
         /\ q \notin Landed(B, idx, next)
<1>1. q \in 0 .. next2 - 1 /\ \A b \in B : b # k => idx[b] # q
  BY DEF Carries, OneEach
<1>2. \A b \in B : idx[b] \in 0 .. next2 - 1
  BY DEF OneEach, Carries
<1>3. OneEach(B \ {k}, idx2, next2)
  BY <1>2 DEF OneEach, OthersKept
<1>4. {idx2[b] : b \in B \ {k}} = {idx[b] : b \in B} \ {q}
  BY <1>1 DEF Carries, OthersKept
<1>5. CASE k \notin B /\ q = next /\ next2 = next + 1
  <2>1. 0 .. next2 - 1 = (0 .. next - 1) \cup {next} /\ q = next /\ next \notin 0 .. next - 1
    BY <1>5
  <2> QED  BY <1>1, <1>3, <1>4, <2>1 DEF Landed
<1>6. CASE k \in B /\ q = idx[k] /\ next2 = next
  BY <1>1, <1>3, <1>4, <1>6 DEF Landed
<1> QED  BY <1>5, <1>6 DEF Carries

(* Dealing the first queries, one to each slot, settles nothing. *)
LEMMA FirstDeal ==
  ASSUME NEW m \in Nat, NEW size \in Nat \ {0},
         NEW B, B = {j \in 0 .. size - 1 : j < m}, NEW idx, \A j \in B : idx[j] = j,
         NEW next, next = Min2(size, m)
  PROVE  /\ next \in 0 .. m /\ OneEach(B, idx, next) /\ Landed(B, idx, next) = {}
<1>1. next \in 0 .. m /\ B = 0 .. next - 1
  BY DEF Min2
<1>2. {idx[b] : b \in B} = B
  OBVIOUS
<1> QED  BY <1>1, <1>2 DEF OneEach, Landed

-----------------------------------------------------------------------------
(* The end of a search in LIPP gives the right answer.                     *)

CallOK == tree \in Trees /\ queries \in Seq(Key) /\ OutsOK

LEMMA EndIsRight ==
  ASSUME CallOK, NEW q \in QueryIdx, NEW r, OnWay(q, r), ~IsChild(q, r)
  PROVE  IF IsHit(q, r) THEN <<KeyAt(q), Data(q, r)[2]>> \in Stored(tree)
         ELSE \A item \in Stored(tree) : item[1] # KeyAt(q)
<1>1. SoundTree(tree) /\ KeyAt(q) \in Key /\ r \in DOMAIN tree /\ Follows(tree, r, KeyAt(q))
  BY BatchFacts, TreesAssumption DEF CallOK, OnWay
<1>2. PICK p : p = ItemOf(q, r)
  OBVIOUS
<1>3. p = PREDICT_POS(tree[r], KeyAt(q)) /\ p \notin tree[r].child_bitmap
  BY <1>2 DEF ItemOf, IsChild
<1>4. NodeOK(tree[r]) /\ ItemsOK(tree, r)
  BY <1>1 DEF SoundTree
<1>5. p \in Positions(tree[r])
  BY <1>1, <1>3, <1>4, PredictedPosition
<1>6. CASE IsHit(q, r)
  <2>1. p \notin tree[r].none_bitmap /\ tree[r].data[p][1] = KeyAt(q)
    BY <1>2, <1>6 DEF IsHit, IsNone, Data
  <2>2. p \in DOMAIN tree[r].data
    BY <1>3, <1>4, <1>5, <2>1 DEF ItemsOK
  <2>3. tree[r].data[p] \in Stored(tree)
    BY <1>1, <2>2 DEF Stored
  <2>4. tree[r].data[p] = <<KeyAt(q), tree[r].data[p][2]>>
    BY <1>4, <2>1, <2>2 DEF NodeOK
  <2> QED  BY <1>2, <1>6, <2>3, <2>4 DEF Data
<1>7. CASE ~IsHit(q, r)
  <2> SUFFICES ASSUME NEW item \in Stored(tree), item[1] = KeyAt(q) PROVE FALSE
    BY <1>7
  <2>1. p \in DOMAIN tree[r].data /\ item = tree[r].data[p]
    BY <1>1, <1>3, ItemAtTheEnd
  <2>2. p \notin tree[r].none_bitmap
    BY <1>4, <2>1 DEF ItemsOK
  <2> QED  BY <1>2, <1>3, <1>7, <2>1, <2>2 DEF IsHit, IsNone, IsChild, Data
<1> QED  BY <1>6, <1>7

(* Queries whose ways end at the nodes given are answered, and no others.   *)
LEMMA CollectStep ==
  ASSUME CallOK, UNCHANGED args, NEW A, AnswersRight(Stored(tree), A),
         NEW Qs, Qs \subseteq QueryIdx, Qs \cap A = {}, NEW reached, DOMAIN reached = Qs,
         \A q \in Qs : OnWay(q, reached[q]) /\ ~IsChild(q, reached[q]), Collect(reached)
  PROVE  CallOK' /\ Answers(Stored(tree), A, Qs) /\ AnswersRight(Stored(tree), A \cup Qs)'
<1>1. tree' = tree /\ queries' = queries
  BY DEF args
<1>2. PICK items : items = Stored(tree)
  OBVIOUS
<1>3. PICK hits : hits = [q \in {x \in Qs : IsHit(x, reached[x])} |-> Data(q, reached[q])[2]]
  OBVIOUS
<1>4. Settle(hits) /\ DOMAIN hits \subseteq Qs
  BY <1>3 DEF Collect
<1>5. HitsRight(items, Qs, hits)
  BY <1>2, <1>3, EndIsRight DEF HitsRight
<1>6. AnswersRight(items, A) /\ OutsOK
  BY <1>2 DEF CallOK
<1>7. Answers(items, A, Qs)
  BY <1>1, <1>4, <1>5, <1>6, SettleStep
<1>8. CallOK'
  BY <1>1, <1>7 DEF CallOK, Answers
<1>9. AnswersRight(Stored(tree), A \cup Qs)'
  <2>1. Stored(tree)' = items
    BY <1>1, <1>2 DEF Stored
  <2> QED  BY <1>7, <2>1 DEF AnswersRight, RightAnswer, Answers
<1> QED  BY <1>2, <1>7, <1>8, <1>9

(* A step to the child stays on the way of the query. *)
LEMMA MoveStep ==
  ASSUME CallOK, NEW q \in QueryIdx, NEW r, OnWay(q, r), IsChild(q, r)
  PROVE  OnWay(q, Child(q, r))
<1>1. SoundTree(tree) /\ KeyAt(q) \in Key /\ r \in DOMAIN tree /\ Follows(tree, r, KeyAt(q))
  BY BatchFacts, TreesAssumption DEF CallOK, OnWay
<1> QED  BY <1>1, ChildOnWay DEF OnWay, IsChild, ItemOf, Child

(* Every way starts at the root. *)
LEMMA RootOnWay ==
  ASSUME CallOK, NEW q
  PROVE  OnWay(q, <<>>)
<1>1. <<>> \in DOMAIN tree
  BY TreesAssumption DEF CallOK, SoundTree
<1>2. Len(<<>>) = 0
  OBVIOUS
<1> QED  BY <1>1, <1>2 DEF OnWay, Follows

(* A step that leaves arguments and outputs alone changes no answer and no way. *)
LEMMA CallUnchanged ==
  ASSUME UNCHANGED <<args, outs>>
  PROVE  /\ n' = n /\ QueryIdx' = QueryIdx /\ (CallOK' <=> CallOK) /\ DOMAIN tree' = DOMAIN tree
         /\ \A A : AnswersRight(Stored(tree), A)' <=> AnswersRight(Stored(tree), A)
         /\ \A q, r : OnWay(q, r)' <=> OnWay(q, r)
<1>1. tree' = tree /\ UNCHANGED <<queries, found, results>>
  BY DEF args, outs
<1>2. Stored(tree)' = Stored(tree)
  BY <1>1 DEF Stored
<1>3. \A q, r : OnWay(q, r)' <=> OnWay(q, r)
  BY <1>1 DEF OnWay, Follows, PREDICT_POS, KeyAt
<1>4. \A A : AnswersRight(Stored(tree), A)' <=> AnswersRight(Stored(tree), A)
  BY <1>1, <1>2 DEF AnswersRight, RightAnswer, Unanswered, QueryIdx, n, KeyAt
<1> QED  BY <1>1, <1>3, <1>4, OutsUnchanged DEF CallOK


-----------------------------------------------------------------------------
(* LIPP AMAC.                                                              *)

Carried == [j \in Slots |-> pool[j].query_idx]

PoolTypeOK ==
  /\ CallOK
  /\ pc \in {"start", "loop", "visit", "returned"}
  /\ pool \in [Slots -> [state : {"DONE", "INIT", "SEARCH"}, query_idx : Nat,
                         node : DOMAIN tree \cup {NULL}]]
  /\ next_query_idx \in 0 .. n
  /\ i \in Nat

(* Before the call starts no machine is busy; while one is visited it is    *)
(* one of the pool; when the call has returned every query is settled.     *)
PoolIInv ==
  /\ PoolTypeOK
  /\ pc = "start" => next_query_idx = 0 /\ Busy = {}
  /\ pc = "visit" => i \in Slots
  /\ OneEach(Busy, Carried, next_query_idx)
  /\ \A j \in Busy : pool[j].state = "SEARCH" => OnWay(pool[j].query_idx, pool[j].node)
  /\ finished = Cardinality(Settled)
  /\ AnswersRight(Stored(tree), Settled)
  /\ pc = "returned" => Settled = QueryIdx

LEMMA SettledLanded ==
  /\ Settled = Landed(Busy, Carried, next_query_idx)
  /\ Settled' = Landed(Busy', Carried', next_query_idx')
BY DEF Settled, InFlight, Landed, Carried, Busy

(* The queries settled are positions, and counted. *)
LEMMA SettledCounted ==
  ASSUME PoolTypeOK
  PROVE  /\ n \in Nat /\ QueryIdx = 0 .. n - 1
         /\ Settled \subseteq QueryIdx /\ IsFiniteSet(Settled) /\ Cardinality(Settled) \in Nat
         /\ Cardinality(Settled) >= n => Settled = QueryIdx
<1>1. n \in Nat /\ QueryIdx = 0 .. n - 1
  BY BatchFacts DEF PoolTypeOK, CallOK
<1>2. Settled \subseteq QueryIdx
  BY <1>1 DEF Settled, PoolTypeOK
<1>3. /\ IsFiniteSet(Settled)
      /\ Cardinality(Settled) \in Nat
      /\ Cardinality(Settled) <= n
      /\ Cardinality(Settled) = n => Settled = QueryIdx
  BY <1>2, PositionsFinite DEF PoolTypeOK, CallOK
<1> QED  BY <1>1, <1>2, <1>3

(* The machine that is visited, when it is not done, carries a query. *)
LEMMA MachineCarries ==
  ASSUME PoolIInv, VisitCommon, Machine.state # "DONE"
  PROVE  /\ i \in Slots
         /\ Carries(i, Machine.query_idx, Busy, Carried, next_query_idx, next_query_idx')
         /\ Machine.query_idx \in QueryIdx
         /\ Machine \in [state : {"DONE", "INIT", "SEARCH"}, query_idx : Nat,
                         node : DOMAIN tree \cup {NULL}]
         /\ Machine.state = "SEARCH" => Machine = pool[i] /\ OnWay(Machine.query_idx, Machine.node)
<1>1. i \in Slots /\ next_query_idx \in 0 .. n /\ n \in Nat /\ QueryIdx = 0 .. n - 1
      /\ next_query_idx' = IF Refill THEN next_query_idx + 1 ELSE next_query_idx
  BY SettledCounted DEF PoolIInv, PoolTypeOK, VisitCommon
<1>2. pool[i] \in [state : {"DONE", "INIT", "SEARCH"}, query_idx : Nat, node : DOMAIN tree \cup {NULL}]
  BY <1>1 DEF PoolIInv, PoolTypeOK
<1>3. CASE Refill
  <2>1. Machine = [state |-> "INIT", query_idx |-> next_query_idx, node |-> NULL]
    BY <1>3 DEF Machine, Dealt
  <2>2. i \notin Busy /\ next_query_idx < n
    BY <1>3 DEF Busy, Refill
  <2> QED  BY <1>1, <1>3, <2>1, <2>2 DEF Carries
<1>4. CASE ~Refill
  <2>1. Machine = pool[i] /\ i \in Busy /\ pool[i].query_idx = Carried[i]
    BY <1>1, <1>4 DEF Machine, Busy, Carried
  <2>2. Carried[i] \in 0 .. next_query_idx - 1
    BY <2>1 DEF PoolIInv, OneEach
  <2>3. Machine.query_idx \in QueryIdx
    BY <1>1, <2>1, <2>2
  <2>4. Carries(i, Machine.query_idx, Busy, Carried, next_query_idx, next_query_idx')
    BY <1>1, <1>4, <2>1 DEF Carries
  <2>5. Machine.state = "SEARCH" => OnWay(Machine.query_idx, Machine.node)
    BY <2>1 DEF PoolIInv
  <2> QED  BY <1>1, <1>2, <2>1, <2>3, <2>4, <2>5
<1> QED  BY <1>3, <1>4

(* What the visits share. *)
LEMMA VisitFacts ==
  ASSUME PoolIInv, VisitCommon
  PROVE  /\ UNCHANGED args /\ n' = n /\ QueryIdx' = QueryIdx
         /\ pc' \in {"loop", "visit"} /\ i' \in Nat /\ (pc' = "visit" => i' \in Slots)
         /\ next_query_idx' \in 0 .. n
         /\ next_query_idx' = IF Refill THEN next_query_idx + 1 ELSE next_query_idx
<1>1. n \in Nat /\ next_query_idx \in 0 .. n /\ pc = "visit" /\ i \in Slots /\ i \in Nat
  BY SettledCounted DEF PoolIInv, PoolTypeOK, VisitCommon
<1>2. i' = i + 1 /\ pc' = IF i + 1 = POOL_SIZE THEN "loop" ELSE "visit"
  BY DEF VisitCommon
<1>3. UNCHANGED args /\ n' = n /\ QueryIdx' = QueryIdx
  BY DEF VisitCommon, args, n, QueryIdx
<1>4. pc' = "visit" => i' \in Slots
  BY <1>1, <1>2, PoolAssumption DEF Slots
<1>5. next_query_idx' = IF Refill THEN next_query_idx + 1 ELSE next_query_idx
  BY DEF VisitCommon
<1>6. next_query_idx' \in 0 .. n
  BY <1>1, <1>5 DEF Refill
<1> QED  BY <1>1, <1>2, <1>3, <1>4, <1>5, <1>6

LEMMA PoolInitInv == Init => PoolIInv
<1> SUFFICES ASSUME Init PROVE PoolIInv
  OBVIOUS
<1>1. CallOK
  <2>1. tree \in Trees /\ queries \in Seq(Key)
    BY BatchesAssumption DEF Init, ArgsAndOutsInit, LookupInit
  <2>2. OutsOK
    BY DEF Init, ArgsAndOutsInit, LookupInit, OutsOK
  <2> QED  BY <2>1, <2>2 DEF CallOK
<1>2. n \in Nat /\ QueryIdx = 0 .. n - 1
  BY <1>1, BatchFacts DEF CallOK
<1>3. PoolTypeOK
  BY <1>1, <1>2 DEF Init, PoolTypeOK, Idle
<1>4. next_query_idx = 0 /\ Busy = {} /\ Settled = {}
  BY DEF Init, Busy, Idle, Settled
<1>5. finished = Cardinality(Settled)
  BY <1>4, FS_EmptySet DEF Init
<1>6. AnswersRight(Stored(tree), Settled)
  BY <1>4 DEF Init, ArgsAndOutsInit, LookupInit, AnswersRight, Unanswered
<1>7. OneEach(Busy, Carried, next_query_idx)
  BY <1>4 DEF OneEach
<1> QED  BY <1>3, <1>4, <1>5, <1>6, <1>7 DEF PoolIInv, Init

(* A step that changes neither arguments nor outputs and settles nothing. *)
LEMMA PoolQuietStep ==
  ASSUME PoolIInv, UNCHANGED <<args, outs>>, finished' = finished,
         pc' \in {"loop", "visit", "returned"}, pc' = "visit" => i' \in Slots, i' \in Nat,
         next_query_idx' \in 0 .. n,
         pool' \in [Slots -> [state : {"DONE", "INIT", "SEARCH"}, query_idx : Nat,
                              node : DOMAIN tree \cup {NULL}]],
         OneEach(Busy', Carried', next_query_idx'),
         \A j \in Busy' : pool'[j].state = "SEARCH" => OnWay(pool'[j].query_idx, pool'[j].node),
         Settled' = Settled, pc' = "returned" => Settled = QueryIdx
  PROVE  PoolIInv'
<1>1. /\ n' = n /\ QueryIdx' = QueryIdx /\ (CallOK' <=> CallOK) /\ DOMAIN tree' = DOMAIN tree
      /\ \A A : AnswersRight(Stored(tree), A)' <=> AnswersRight(Stored(tree), A)
      /\ \A q, r : OnWay(q, r)' <=> OnWay(q, r)
  BY CallUnchanged
<1>2. PoolTypeOK'
  BY <1>1 DEF PoolTypeOK, PoolIInv
<1>3. (\A j \in Busy : pool[j].state = "SEARCH" => OnWay(pool[j].query_idx, pool[j].node))'
  <2>1. tree' = tree /\ queries' = queries
    BY DEF args, outs
  <2> QED  BY <2>1 DEF OnWay, Follows, PREDICT_POS, KeyAt
<1>4. AnswersRight(Stored(tree), Settled)'
  <2>1. AnswersRight(Stored(tree), Settled)
    BY DEF PoolIInv
  <2>2. tree' = tree /\ UNCHANGED <<queries, found, results>>
    BY DEF args, outs
  <2> QED
    <3>1. Stored(tree)' = Stored(tree)
      BY <2>2 DEF Stored
    <3> QED
      BY <2>1, <2>2, <3>1 DEF AnswersRight, RightAnswer, Unanswered, QueryIdx, n, KeyAt
<1>5. finished' = Cardinality(Settled')
  BY DEF PoolIInv
<1>6. OneEach(Busy, Carried, next_query_idx)'
  BY DEF OneEach
<1> QED  BY <1>1, <1>2, <1>3, <1>4, <1>5, <1>6 DEF PoolIInv

LEMMA PoolStart == ASSUME PoolIInv, Start PROVE PoolIInv' /\ UNCHANGED <<args, outs>> /\ Answered' = Answered
<1>1. UNCHANGED <<args, outs>> /\ finished' = finished /\ i' = i /\ pc = "start"
  BY DEF Start
<1>2. n \in Nat /\ QueryIdx = 0 .. n - 1 /\ next_query_idx = 0 /\ Busy = {} /\ Settled = {}
  BY <1>1, SettledCounted DEF PoolIInv, Settled
<1>3. CASE n = 0
  <2>1. pc' = "returned" /\ pool' = pool /\ next_query_idx' = next_query_idx
    BY <1>3 DEF Start
  <2>2. Busy' = Busy /\ Carried' = Carried /\ Settled' = Settled
    BY <2>1 DEF Busy, Carried, Settled, InFlight
  <2>3. QueryIdx = {} /\ QueryIdx' = QueryIdx
    BY <1>1, <1>2, <1>3 DEF args, QueryIdx, n
  <2>4. PoolIInv'
    BY <1>1, <1>2, <2>1, <2>2, <2>3, PoolQuietStep DEF PoolIInv, PoolTypeOK
  <2> QED  BY <1>1, <1>2, <2>1, <2>2, <2>3, <2>4 DEF Answered
<1>4. CASE n # 0
  <2>1. /\ pc' = "loop" /\ next_query_idx' = Min2(POOL_SIZE, n)
        /\ pool' = [j \in Slots |-> IF j < n THEN Dealt(j) ELSE Idle]
    BY <1>4 DEF Start
  <2>2. Busy' = {j \in 0 .. POOL_SIZE - 1 : j < n} /\ \A j \in Busy' : Carried'[j] = j /\ pool'[j].state = "INIT"
    BY <2>1 DEF Busy, Carried, Dealt, Idle, Slots
  <2>3. next_query_idx' \in 0 .. n /\ OneEach(Busy', Carried', next_query_idx')
        /\ Landed(Busy', Carried', next_query_idx') = {}
    BY <1>2, <2>1, <2>2, FirstDeal, PoolAssumption
  <2>4. Settled' = Settled
    BY <1>2, <2>3, SettledLanded
  <2>5. pool' \in [Slots -> [state : {"DONE", "INIT", "SEARCH"}, query_idx : Nat,
                             node : DOMAIN tree \cup {NULL}]]
    BY <2>1 DEF Dealt, Idle, Slots
  <2>6. PoolIInv'
    BY <1>1, <2>1, <2>2, <2>3, <2>4, <2>5, PoolQuietStep DEF PoolIInv, PoolTypeOK
  <2> QED  BY <1>1, <2>1, <2>4, <2>6 DEF Answered
<1> QED  BY <1>3, <1>4

LEMMA PoolLoopTest == ASSUME PoolIInv, LoopTest PROVE PoolIInv' /\ UNCHANGED <<args, outs>> /\ Answered' = Answered
<1>1. /\ UNCHANGED <<args, outs>> /\ UNCHANGED <<pool, next_query_idx, finished>> /\ pc = "loop"
      /\ pc' = (IF finished < n THEN "visit" ELSE "returned") /\ i' = 0
  BY DEF LoopTest
<1>2. Busy' = Busy /\ Carried' = Carried /\ Settled' = Settled
  BY <1>1 DEF Busy, Carried, Settled, InFlight
<1>3. pc' = "returned" => Settled = QueryIdx
  BY <1>1, SettledCounted DEF PoolIInv
<1>4. 0 \in Slots
  BY PoolAssumption DEF Slots
<1>5. PoolIInv'
  BY <1>1, <1>2, <1>3, <1>4, PoolQuietStep DEF PoolIInv, PoolTypeOK
<1>6. QueryIdx' = QueryIdx
  BY <1>1 DEF args, QueryIdx, n
<1> QED  BY <1>1, <1>2, <1>3, <1>5, <1>6 DEF Answered

(* The machine visited stays busy with its query. *)
LEMMA PoolMoves ==
  ASSUME PoolIInv, VisitCommon, UNCHANGED <<outs, finished>>, Machine.state # "DONE",
         NEW m \in [state : {"INIT", "SEARCH"}, query_idx : {Machine.query_idx},
                    node : DOMAIN tree \cup {NULL}],
         m.state = "SEARCH" => OnWay(m.query_idx, m.node), pool' = [pool EXCEPT ![i] = m]
  PROVE  PoolIInv' /\ UNCHANGED <<args, outs>> /\ Answered' = Answered
<1>1. /\ UNCHANGED args /\ n' = n /\ QueryIdx' = QueryIdx /\ pc = "visit"
      /\ pc' \in {"loop", "visit"} /\ i' \in Nat /\ (pc' = "visit" => i' \in Slots)
      /\ next_query_idx' \in 0 .. n
      /\ next_query_idx' = IF Refill THEN next_query_idx + 1 ELSE next_query_idx
  BY VisitFacts DEF VisitCommon
<1>2. /\ i \in Slots /\ Machine.query_idx \in QueryIdx
      /\ Carries(i, Machine.query_idx, Busy, Carried, next_query_idx, next_query_idx')
  BY <1>1, MachineCarries
<1>3. DOMAIN pool = Slots /\ next_query_idx \in Nat
  BY DEF PoolIInv, PoolTypeOK
<1>4. pool'[i] = m /\ \A j \in Slots : j # i => pool'[j] = pool[j]
  BY <1>2, <1>3
<1>5. /\ Busy' = Busy \cup {i} /\ Carried'[i] = Machine.query_idx
      /\ \A b \in Busy : b # i => Carried'[b] = Carried[b]
  BY <1>2, <1>4 DEF Busy, Carried
<1>6. OneEach(Busy, Carried, next_query_idx)
  BY DEF PoolIInv
<1>7. /\ OneEach(Busy \cup {i}, Carried', next_query_idx')
      /\ Landed(Busy \cup {i}, Carried', next_query_idx') = Landed(Busy, Carried, next_query_idx)
  <2> OthersKept(i, Busy, Carried, Carried')
    BY <1>5 DEF OthersKept
  <2> QED  BY <1>2, <1>3, <1>5, <1>6, SlotGoesOn
<1>8. Settled' = Settled
  BY <1>5, <1>7, SettledLanded
<1>9. Machine.query_idx \in Nat
  BY <1>2, SettledCounted DEF PoolIInv
<1>10. pool' \in [Slots -> [state : {"DONE", "INIT", "SEARCH"}, query_idx : Nat,
                            node : DOMAIN tree \cup {NULL}]]
  <2>1. m \in [state : {"DONE", "INIT", "SEARCH"}, query_idx : Nat, node : DOMAIN tree \cup {NULL}]
    BY <1>9
  <2> QED  BY <2>1 DEF PoolIInv, PoolTypeOK
<1>11. \A j \in Busy' : pool'[j].state = "SEARCH" => OnWay(pool'[j].query_idx, pool'[j].node)
  <2> TAKE j \in Busy'
  <2>1. CASE j = i
    BY <1>4, <2>1
  <2>2. CASE j # i
    <3>1. j \in Busy /\ pool'[j] = pool[j]
      BY <1>4, <1>5, <2>2 DEF Busy
    <3> QED  BY <3>1 DEF PoolIInv
  <2> QED  BY <2>1, <2>2
<1>12. PoolIInv'
  BY <1>1, <1>5, <1>7, <1>8, <1>10, <1>11, PoolQuietStep
<1> QED  BY <1>1, <1>8, <1>12 DEF Answered

LEMMA PoolVisitInit ==
  ASSUME PoolIInv, VisitInit
  PROVE  PoolIInv' /\ UNCHANGED <<args, outs>> /\ Answered' = Answered
<1>1. VisitCommon /\ UNCHANGED <<outs, finished>> /\ Machine.state = "INIT" /\ pc = "visit"
  BY DEF VisitInit, VisitCommon
<1>2. PICK m : m = [Machine EXCEPT !.state = "SEARCH", !.node = <<>>]
  OBVIOUS
<1>3. Machine \in [state : {"DONE", "INIT", "SEARCH"}, query_idx : Nat, node : DOMAIN tree \cup {NULL}]
  BY <1>1, MachineCarries
<1>4. OnWay(Machine.query_idx, <<>>)
  BY RootOnWay DEF PoolIInv, PoolTypeOK
<1>5. m \in [state : {"INIT", "SEARCH"}, query_idx : {Machine.query_idx}, node : DOMAIN tree \cup {NULL}]
      /\ OnWay(m.query_idx, m.node)
  BY <1>2, <1>3, <1>4 DEF OnWay
<1>6. pool' = [pool EXCEPT ![i] = m]
  BY <1>2 DEF VisitInit
<1> QED  BY <1>1, <1>5, <1>6, PoolMoves

LEMMA PoolVisitMoves ==
  ASSUME PoolIInv, VisitMoves
  PROVE  PoolIInv' /\ UNCHANGED <<args, outs>> /\ Answered' = Answered
<1>1. VisitCommon /\ UNCHANGED <<outs, finished>> /\ Machine.state = "SEARCH" /\ pc = "visit"
      /\ IsChild(Machine.query_idx, Machine.node)
  BY DEF VisitMoves, VisitCommon
<1>2. PICK m : m = [Machine EXCEPT !.node = Child(Machine.query_idx, Machine.node)]
  OBVIOUS
<1>3. /\ Machine \in [state : {"DONE", "INIT", "SEARCH"}, query_idx : Nat, node : DOMAIN tree \cup {NULL}]
      /\ Machine.query_idx \in QueryIdx /\ Machine = pool[i]
      /\ OnWay(Machine.query_idx, Machine.node)
  BY <1>1, MachineCarries
<1>4. OnWay(Machine.query_idx, Child(Machine.query_idx, Machine.node))
  BY <1>1, <1>3, MoveStep DEF PoolIInv, PoolTypeOK
<1>5. m \in [state : {"INIT", "SEARCH"}, query_idx : {Machine.query_idx}, node : DOMAIN tree \cup {NULL}]
      /\ OnWay(m.query_idx, m.node)
  BY <1>1, <1>2, <1>3, <1>4 DEF OnWay
<1>6. pool' = [pool EXCEPT ![i] = m]
  <2>1. pool' = [pool EXCEPT ![i].node = Child(Machine.query_idx, Machine.node)]
    BY DEF VisitMoves
  <2> QED  BY <1>2, <1>3, <2>1
<1> QED  BY <1>1, <1>5, <1>6, PoolMoves

LEMMA PoolVisitDone ==
  ASSUME PoolIInv, VisitDone
  PROVE  PoolIInv' /\ UNCHANGED <<args, outs>> /\ Answered' = Answered
<1>1. VisitCommon /\ UNCHANGED <<outs, pool, finished>> /\ Machine.state = "DONE" /\ pc = "visit"
  BY DEF VisitDone, VisitCommon
<1>2. /\ UNCHANGED args /\ n' = n /\ QueryIdx' = QueryIdx
      /\ pc' \in {"loop", "visit"} /\ i' \in Nat /\ (pc' = "visit" => i' \in Slots)
      /\ next_query_idx' \in 0 .. n
      /\ next_query_idx' = IF Refill THEN next_query_idx + 1 ELSE next_query_idx
  BY <1>1, VisitFacts
<1>3. ~Refill
  BY <1>1 DEF Machine, Dealt
<1>4. Busy' = Busy /\ Carried' = Carried /\ Settled' = Settled
  BY <1>1, <1>2, <1>3 DEF Busy, Carried, Settled, InFlight
<1>5. PoolIInv'
  BY <1>1, <1>2, <1>3, <1>4, PoolQuietStep DEF PoolIInv, PoolTypeOK
<1> QED  BY <1>1, <1>2, <1>4, <1>5 DEF Answered

(* A search that ends answers its query, and no other. *)
LEMMA PoolVisitEnds ==
  ASSUME PoolIInv, VisitEnds
  PROVE  PoolIInv' /\ Abstract!Answer
<1>1. /\ VisitCommon /\ Machine.state = "SEARCH" /\ pc = "visit" /\ finished' = finished + 1
      /\ ~IsChild(Machine.query_idx, Machine.node)
      /\ pool' = [pool EXCEPT ![i].state = "DONE"]
  BY DEF VisitEnds, VisitCommon
<1>2. /\ UNCHANGED args /\ n' = n /\ QueryIdx' = QueryIdx
      /\ pc' \in {"loop", "visit"} /\ i' \in Nat /\ (pc' = "visit" => i' \in Slots)
      /\ next_query_idx' \in 0 .. n
      /\ next_query_idx' = IF Refill THEN next_query_idx + 1 ELSE next_query_idx
  BY <1>1, VisitFacts
<1>3. PICK q, r : q = Machine.query_idx /\ r = Machine.node
  OBVIOUS
<1>4. /\ i \in Slots /\ q \in QueryIdx
      /\ Carries(i, q, Busy, Carried, next_query_idx, next_query_idx')
      /\ Machine = pool[i] /\ OnWay(q, r) /\ ~IsChild(q, r)
      /\ pool[i] \in [state : {"DONE", "INIT", "SEARCH"}, query_idx : Nat, node : DOMAIN tree \cup {NULL}]
  BY <1>1, <1>3, MachineCarries
<1>5. DOMAIN pool = Slots /\ next_query_idx \in Nat
  BY DEF PoolIInv, PoolTypeOK
<1>6. /\ pool'[i].state = "DONE" /\ pool'[i].query_idx = q /\ pool'[i] = [pool[i] EXCEPT !.state = "DONE"]
      /\ \A j \in Slots : j # i => pool'[j] = pool[j]
  BY <1>1, <1>3, <1>4, <1>5
<1>7. Busy' = Busy \ {i} /\ \A b \in Busy : b # i => Carried'[b] = Carried[b]
  BY <1>4, <1>6 DEF Busy, Carried
<1>8. OneEach(Busy, Carried, next_query_idx)
  BY DEF PoolIInv
<1>9. /\ OneEach(Busy \ {i}, Carried', next_query_idx')
      /\ Landed(Busy \ {i}, Carried', next_query_idx') = Landed(Busy, Carried, next_query_idx) \cup {q}
      /\ q \notin Landed(Busy, Carried, next_query_idx)
  <2>1. OthersKept(i, Busy, Carried, Carried')
    BY <1>7 DEF OthersKept
  <2>2. Carries(i, q, Busy, Carried, next_query_idx, next_query_idx') /\ next_query_idx \in Nat
    BY <1>4, <1>5
  <2> QED  BY <1>8, <2>1, <2>2, SlotEnds
<1>10. Settled' = Settled \cup {q} /\ q \notin Settled
  BY <1>7, <1>9, SettledLanded
<1>11. /\ Settled \subseteq QueryIdx /\ IsFiniteSet(Settled) /\ Cardinality(Settled) \in Nat
       /\ finished = Cardinality(Settled)
  BY SettledCounted DEF PoolIInv
<1>12. finished' = Cardinality(Settled')
  BY <1>1, <1>10, <1>11, FS_AddElement
<1>13. CallOK /\ AnswersRight(Stored(tree), Settled)
  BY DEF PoolIInv, PoolTypeOK
<1>14. Collect([x \in {q} |-> r])
  BY <1>3 DEF VisitEnds
<1>15. CallOK' /\ Answers(Stored(tree), Settled, {q}) /\ AnswersRight(Stored(tree), Settled)'
  <2>1. PICK A, reached : A = Settled /\ reached = [x \in {q} |-> r]
    OBVIOUS
  <2>2. \A x \in {q} : OnWay(x, reached[x]) /\ ~IsChild(x, reached[x])
    BY <1>4, <2>1
  <2>3. AnswersRight(Stored(tree), A) /\ {q} \subseteq QueryIdx /\ {q} \cap A = {}
        /\ DOMAIN reached = {q} /\ Collect(reached)
    BY <1>4, <1>10, <1>13, <1>14, <2>1
  <2>4. CallOK' /\ Answers(Stored(tree), A, {q}) /\ AnswersRight(Stored(tree), A \cup {q})'
    BY <1>2, <1>13, <2>2, <2>3, CollectStep
  <2>5. Settled' = A \cup {q}
    BY <1>10, <2>1
  <2>6. AnswersRight(Stored(tree), Settled)'
    BY <2>4, <2>5 DEF AnswersRight
  <2> QED  BY <2>1, <2>4, <2>6
<1>16. PoolIInv'
  <2>1. DOMAIN tree' = DOMAIN tree
    BY <1>2 DEF args
  <2>2. pool' \in [Slots -> [state : {"DONE", "INIT", "SEARCH"}, query_idx : Nat,
                             node : DOMAIN tree \cup {NULL}]]
    BY <1>1, <1>4 DEF PoolIInv, PoolTypeOK
  <2>3. PoolTypeOK'
    BY <1>2, <1>15, <2>1, <2>2 DEF PoolTypeOK
  <2>4. OneEach(Busy, Carried, next_query_idx)'
    BY <1>7, <1>9 DEF OneEach
  <2>5. (\A j \in Busy : pool[j].state = "SEARCH" => OnWay(pool[j].query_idx, pool[j].node))'
    <3>1. \A j \in Busy' : pool'[j].state = "SEARCH" => OnWay(pool'[j].query_idx, pool'[j].node)
      BY <1>6, <1>7 DEF PoolIInv, Busy
    <3>2. tree' = tree /\ queries' = queries
      BY <1>2 DEF args
    <3> QED  BY <3>1, <3>2 DEF OnWay, Follows, PREDICT_POS, KeyAt
  <2> QED  BY <1>2, <1>12, <1>15, <2>3, <2>4, <2>5 DEF PoolIInv
<1>17. Abstract!Answer
  <2>1. Answered = Settled /\ Answered' = Settled \cup {q}
    BY <1>1, <1>2, <1>10 DEF Answered
  <2>2. tree' = tree /\ queries' = queries /\ Stored(tree)' = Stored(tree)
    BY <1>2 DEF args, Stored
  <2>3. DOMAIN found' = QueryIdx /\ DOMAIN results' = QueryIdx
    BY <1>2, <1>15 DEF CallOK, OutsOK
  <2>4. Abstract!RightAnswer(q)'
    BY <1>15, <2>2 DEF Answers, RightAnswer, KeyAt, Abstract!RightAnswer, Abstract!KeyAt
  <2>5. \A x \in {q} : Abstract!RightAnswer(x)'
    BY <2>4
  <2>6. \A x \in QueryIdx \ {q} : found'[x] = found[x] /\ results'[x] = results[x]
    BY <1>15 DEF Answers
  <2>7. QueryIdx = 0 .. Len(queries) - 1
    BY DEF QueryIdx, n
  <2> QED  BY <1>4, <1>10, <1>11, <2>1, <2>2, <2>3, <2>5, <2>6, <2>7 DEF Abstract!Answer, Abstract!Positions
<1> QED  BY <1>16, <1>17

LEMMA PoolStutter == ASSUME PoolIInv, UNCHANGED vars PROVE PoolIInv' /\ UNCHANGED <<args, outs>> /\ Answered' = Answered
<1>1. UNCHANGED <<tree, queries, found, results, pc, pool, next_query_idx, finished, i>>
  BY DEF vars
<1>2. Busy' = Busy /\ Carried' = Carried /\ Settled' = Settled /\ QueryIdx' = QueryIdx /\ n' = n
  BY <1>1 DEF Busy, Carried, Settled, InFlight, QueryIdx, n
<1>3. PoolTypeOK'
  BY <1>1, <1>2 DEF PoolTypeOK, CallOK, OutsOK, PoolIInv
<1>4. (\A j \in Busy : pool[j].state = "SEARCH" => OnWay(pool[j].query_idx, pool[j].node))'
  BY <1>1, <1>2 DEF PoolIInv, OnWay, Follows, PREDICT_POS, KeyAt
<1>5. AnswersRight(Stored(tree), Settled)'
  <2>1. Stored(tree)' = Stored(tree)
    BY <1>1 DEF Stored
  <2> QED  BY <1>1, <1>2, <2>1 DEF PoolIInv, AnswersRight, RightAnswer, Unanswered, KeyAt
<1>6. OneEach(Busy, Carried, next_query_idx)'
  BY <1>1, <1>2 DEF PoolIInv, OneEach
<1>7. PoolIInv'
  BY <1>1, <1>2, <1>3, <1>4, <1>5, <1>6 DEF PoolIInv
<1> QED  BY <1>1, <1>2, <1>7 DEF Answered, args, outs

(* Every step of LIPP AMAC keeps the invariant, and is one of the abstract  *)
(* lookup or none.                                                         *)
LEMMA PoolNext ==
  ASSUME PoolIInv, [Next]_vars
  PROVE  PoolIInv' /\ [Abstract!Next]_(Abstract!vars)
<1>1. CASE VisitEnds
  BY <1>1, PoolVisitEnds DEF Abstract!Next
<1>2. CASE ~VisitEnds
  <2>1. PoolIInv' /\ UNCHANGED <<args, outs>> /\ Answered' = Answered
    BY <1>2, PoolStart, PoolLoopTest, PoolVisitInit, PoolVisitMoves, PoolVisitDone, PoolStutter
    DEF Next, Returned
  <2>2. UNCHANGED Abstract!vars
    BY <2>1 DEF args, outs, Abstract!vars, Stored
  <2> QED  BY <2>1, <2>2
<1> QED  BY <1>1, <1>2

LEMMA PoolIInvImplies == ASSUME PoolIInv PROVE PoolExact
<1>1. \A a, b \in Busy : a # b => pool[a].query_idx # pool[b].query_idx
  BY DEF PoolIInv, OneEach, Carried, Busy
<1>2. \A j \in Busy : pool[j].query_idx < next_query_idx
  BY DEF PoolIInv, OneEach, Carried, Busy, PoolTypeOK
<1>3. AnswersRight(Stored(tree), Answered)
  BY DEF PoolIInv, Answered
<1> QED  BY <1>1, <1>2, <1>3 DEF PoolIInv, PoolExact

(* The stored pairs of a tree are keys with values. *)
LEMMA StoredPairs == ASSUME NEW t, SoundTree(t) PROVE Stored(t) \in SUBSET (Key \X Value)
BY DEF SoundTree, NodeOK, Stored

LEMMA PoolAbstractInit == Init => Abstract!Init
<1> SUFFICES ASSUME Init PROVE Abstract!Init
  OBVIOUS
<1>1. tree \in Trees /\ queries \in Seq(Key)
  BY BatchesAssumption DEF Init, ArgsAndOutsInit, LookupInit
<1>2. Stored(tree) \in SUBSET (Key \X Value)
  BY <1>1, TreesAssumption, StoredPairs
<1>3. Answered = {}
  BY DEF Init, Answered, Settled
<1> QED  BY <1>1, <1>2, <1>3 DEF Init, ArgsAndOutsInit, LookupInit, QueryIdx, n, Abstract!Init, Abstract!Positions

-----------------------------------------------------------------------------
(* LIPP SPP.  The definitions that its module shares with the others.      *)

LEMMA TasksSame ==
  /\ Tasks!n = n /\ Tasks!QueryIdx = QueryIdx /\ Tasks!Slots = Slots
  /\ \A q : Tasks!KeyAt(q) = KeyAt(q)
  /\ \A q, r : /\ Tasks!IsChild(q, r) <=> IsChild(q, r)
               /\ Tasks!IsHit(q, r) <=> IsHit(q, r)
               /\ Tasks!OnWay(q, r) <=> OnWay(q, r)
               /\ Tasks!Child(q, r) = Child(q, r)
               /\ Tasks!Data(q, r) = Data(q, r)
  /\ Tasks!Stored(tree) = Stored(tree)
  /\ \A a, b : Tasks!Min2(a, b) = Min2(a, b)
<1>1. Tasks!n = n /\ Tasks!QueryIdx = QueryIdx /\ Tasks!Slots = Slots
  BY DEF Tasks!n, n, Tasks!QueryIdx, QueryIdx, Tasks!Slots, Slots
<1>2. \A q : Tasks!KeyAt(q) = KeyAt(q)
  BY DEF Tasks!KeyAt, KeyAt
<1>3. \A nd, key : Tasks!PREDICT_POS(nd, key) = PREDICT_POS(nd, key)
  BY DEF Tasks!PREDICT_POS, PREDICT_POS
<1>4. \A q, r : Tasks!ItemOf(q, r) = ItemOf(q, r)
  BY <1>2, <1>3 DEF Tasks!ItemOf, ItemOf
<1>5. \A q, r : /\ Tasks!IsChild(q, r) <=> IsChild(q, r)
                /\ Tasks!IsNone(q, r) <=> IsNone(q, r)
                /\ Tasks!Child(q, r) = Child(q, r)
                /\ Tasks!Data(q, r) = Data(q, r)
  BY <1>4 DEF Tasks!IsChild, IsChild, Tasks!IsNone, IsNone, Tasks!Child, Child, Tasks!Data, Data
<1>6. \A q, r : Tasks!IsHit(q, r) <=> IsHit(q, r)
  BY <1>2, <1>5 DEF Tasks!IsHit, IsHit
<1>7. \A q, r : Tasks!OnWay(q, r) <=> OnWay(q, r)
  BY <1>2, <1>3 DEF Tasks!OnWay, OnWay, Tasks!Follows, Follows
<1>8. Tasks!Stored(tree) = Stored(tree) /\ \A a, b : Tasks!Min2(a, b) = Min2(a, b)
  BY DEF Tasks!Stored, Stored, Tasks!Min2, Min2
<1> QED  BY <1>1, <1>2, <1>5, <1>6, <1>7, <1>8

LEMMA TasksSameSteps ==
  /\ \A reached : Tasks!Collect(reached) <=> Collect(reached)
  /\ \A A : Tasks!AnswersRight(Stored(tree), A) <=> AnswersRight(Stored(tree), A)
  /\ Tasks!ArgsAndOutsInit <=> ArgsAndOutsInit
  /\ Tasks!args = args /\ Tasks!outs = outs
<1>1. ASSUME NEW reached PROVE Tasks!Collect(reached) <=> Collect(reached)
  <2>1. {x \in DOMAIN reached : Tasks!IsHit(x, reached[x])} = {x \in DOMAIN reached : IsHit(x, reached[x])}
    BY TasksSame
  <2>2. [q \in {x \in DOMAIN reached : Tasks!IsHit(x, reached[x])} |-> Tasks!Data(q, reached[q])[2]]
        = [q \in {x \in DOMAIN reached : IsHit(x, reached[x])} |-> Data(q, reached[q])[2]]
    BY <2>1, TasksSame
  <2> QED  BY <2>2, TasksSame DEF Tasks!Collect, Collect, Tasks!Settle, Settle
<1>2. \A A : Tasks!AnswersRight(Stored(tree), A) <=> AnswersRight(Stored(tree), A)
  BY TasksSame DEF Tasks!AnswersRight, AnswersRight, Tasks!RightAnswer, RightAnswer,
                   Tasks!Unanswered, Unanswered
<1>3. Tasks!ArgsAndOutsInit <=> ArgsAndOutsInit
  BY TasksSame DEF Tasks!ArgsAndOutsInit, ArgsAndOutsInit, Tasks!LookupInit, LookupInit
<1>4. Tasks!args = args /\ Tasks!outs = outs
  BY DEF Tasks!args, args, Tasks!outs, outs
<1> QED  BY <1>1, <1>2, <1>3, <1>4

TasksCarried == [j \in Slots |-> tasks[j].query_idx]

TasksTypeOK ==
  /\ CallOK
  /\ pc \in {"start", "loop", "visit", "returned"}
  /\ tasks \in [Slots -> [query_idx : Nat, node : DOMAIN tree, active : BOOLEAN]]
  /\ next_query_idx \in 0 .. n
  /\ i \in Nat

(* As for AMAC; an active task is on its way from the start. *)
TasksIInv ==
  /\ TasksTypeOK
  /\ pc = "start" => next_query_idx = 0 /\ Tasks!Busy = {}
  /\ pc = "visit" => i \in Slots
  /\ OneEach(Tasks!Busy, TasksCarried, next_query_idx)
  /\ \A j \in Tasks!Busy : OnWay(tasks[j].query_idx, tasks[j].node)
  /\ finished = Cardinality(Tasks!Settled)
  /\ AnswersRight(Stored(tree), Tasks!Settled)
  /\ pc = "returned" => Tasks!Settled = QueryIdx

LEMMA TasksSettledLanded ==
  /\ Tasks!Settled = Landed(Tasks!Busy, TasksCarried, next_query_idx)
  /\ Tasks!Settled' = Landed(Tasks!Busy', TasksCarried', next_query_idx')
BY TasksSame DEF Tasks!Settled, Tasks!InFlight, Landed, TasksCarried, Tasks!Busy

LEMMA TasksSettledCounted ==
  ASSUME TasksTypeOK
  PROVE  /\ n \in Nat /\ QueryIdx = 0 .. n - 1
         /\ Tasks!Settled \subseteq QueryIdx /\ IsFiniteSet(Tasks!Settled)
         /\ Cardinality(Tasks!Settled) \in Nat
         /\ Cardinality(Tasks!Settled) >= n => Tasks!Settled = QueryIdx
<1>1. n \in Nat /\ QueryIdx = 0 .. n - 1
  BY BatchFacts DEF TasksTypeOK, CallOK
<1>2. Tasks!Settled \subseteq QueryIdx
  BY <1>1 DEF Tasks!Settled, TasksTypeOK
<1>3. /\ IsFiniteSet(Tasks!Settled)
      /\ Cardinality(Tasks!Settled) \in Nat
      /\ Cardinality(Tasks!Settled) <= n
      /\ Cardinality(Tasks!Settled) = n => Tasks!Settled = QueryIdx
  BY <1>2, PositionsFinite DEF TasksTypeOK, CallOK
<1> QED  BY <1>1, <1>2, <1>3

LEMMA TasksVisitFacts ==
  ASSUME TasksIInv, Tasks!VisitCommon
  PROVE  /\ UNCHANGED args /\ n' = n /\ QueryIdx' = QueryIdx /\ i \in Slots
         /\ pc = "visit" /\ pc' \in {"loop", "visit"} /\ i' \in Nat /\ (pc' = "visit" => i' \in Slots)
         /\ next_query_idx' \in 0 .. n
         /\ next_query_idx' = IF Tasks!Refill THEN next_query_idx + 1 ELSE next_query_idx
<1>1. n \in Nat /\ next_query_idx \in 0 .. n /\ pc = "visit" /\ i \in Slots /\ i \in Nat
  BY TasksSettledCounted DEF TasksIInv, TasksTypeOK, Tasks!VisitCommon
<1>2. i' = i + 1 /\ pc' = IF i + 1 = POOL_SIZE THEN "loop" ELSE "visit"
  BY DEF Tasks!VisitCommon
<1>3. UNCHANGED args /\ n' = n /\ QueryIdx' = QueryIdx
  BY DEF Tasks!VisitCommon, Tasks!args, args, n, QueryIdx
<1>4. pc' = "visit" => i' \in Slots
  BY <1>1, <1>2, PoolAssumption DEF Slots
<1>5. next_query_idx' = IF Tasks!Refill THEN next_query_idx + 1 ELSE next_query_idx
  BY DEF Tasks!VisitCommon
<1>6. next_query_idx' \in 0 .. n
  BY <1>1, <1>5, TasksSame DEF Tasks!Refill
<1> QED  BY <1>1, <1>2, <1>3, <1>4, <1>5, <1>6

(* The task that is visited, when it is active, carries a query. *)
LEMMA TaskCarries ==
  ASSUME TasksIInv, Tasks!VisitCommon, Tasks!Current.active
  PROVE  /\ Carries(i, Tasks!Current.query_idx, Tasks!Busy, TasksCarried, next_query_idx, next_query_idx')
         /\ Tasks!Current.query_idx \in QueryIdx
         /\ Tasks!Current \in [query_idx : Nat, node : DOMAIN tree, active : BOOLEAN]
         /\ OnWay(Tasks!Current.query_idx, Tasks!Current.node)
<1>1. /\ i \in Slots /\ next_query_idx \in 0 .. n /\ n \in Nat /\ QueryIdx = 0 .. n - 1
      /\ next_query_idx' = IF Tasks!Refill THEN next_query_idx + 1 ELSE next_query_idx
  BY TasksSettledCounted, TasksVisitFacts DEF TasksIInv, TasksTypeOK
<1>2. tasks[i] \in [query_idx : Nat, node : DOMAIN tree, active : BOOLEAN]
  BY <1>1 DEF TasksIInv, TasksTypeOK
<1>3. OnWay(next_query_idx, <<>>) /\ <<>> \in DOMAIN tree
  BY RootOnWay DEF TasksIInv, TasksTypeOK, OnWay
<1>4. CASE Tasks!Refill
  <2>1. Tasks!Current = [query_idx |-> next_query_idx, node |-> <<>>, active |-> TRUE]
    BY <1>4 DEF Tasks!Current, Tasks!Task
  <2>2. i \notin Tasks!Busy /\ next_query_idx < n
    BY <1>4, TasksSame DEF Tasks!Busy, Tasks!Refill
  <2>3. Carries(i, next_query_idx, Tasks!Busy, TasksCarried, next_query_idx, next_query_idx')
    BY <1>1, <1>4, <2>2 DEF Carries
  <2> QED  BY <1>1, <1>3, <2>1, <2>2, <2>3
<1>5. CASE ~Tasks!Refill
  <2>1. Tasks!Current = tasks[i] /\ i \in Tasks!Busy /\ tasks[i].query_idx = TasksCarried[i]
    BY <1>1, <1>5, TasksSame DEF Tasks!Current, Tasks!Busy, TasksCarried
  <2>2. TasksCarried[i] \in 0 .. next_query_idx - 1
    BY <2>1 DEF TasksIInv, OneEach
  <2>3. tasks[i].query_idx \in QueryIdx
    BY <1>1, <2>1, <2>2
  <2>4. Carries(i, tasks[i].query_idx, Tasks!Busy, TasksCarried, next_query_idx, next_query_idx')
    BY <1>1, <1>5, <2>1 DEF Carries
  <2>5. OnWay(tasks[i].query_idx, tasks[i].node)
    BY <2>1 DEF TasksIInv
  <2> QED  BY <1>2, <2>1, <2>3, <2>4, <2>5
<1> QED  BY <1>4, <1>5

LEMMA TasksInitInv == Tasks!Init => TasksIInv
<1> SUFFICES ASSUME Tasks!Init PROVE TasksIInv
  OBVIOUS
<1>0. ArgsAndOutsInit
  BY TasksSameSteps DEF Tasks!Init
<1>1. CallOK
  <2>1. tree \in Trees /\ queries \in Seq(Key)
    BY <1>0, BatchesAssumption DEF ArgsAndOutsInit, LookupInit
  <2>2. OutsOK
    BY <1>0 DEF ArgsAndOutsInit, LookupInit, OutsOK
  <2> QED  BY <2>1, <2>2 DEF CallOK
<1>2. n \in Nat /\ QueryIdx = 0 .. n - 1 /\ <<>> \in DOMAIN tree
  BY <1>1, BatchFacts, RootOnWay DEF CallOK, OnWay
<1>3. TasksTypeOK
  BY <1>1, <1>2, TasksSame DEF Tasks!Init, TasksTypeOK, Tasks!NoTask
<1>4. next_query_idx = 0 /\ Tasks!Busy = {} /\ Tasks!Settled = {}
  BY DEF Tasks!Init, Tasks!Busy, Tasks!NoTask, Tasks!Settled
<1>5. finished = Cardinality(Tasks!Settled)
  BY <1>4, FS_EmptySet DEF Tasks!Init
<1>6. AnswersRight(Stored(tree), Tasks!Settled)
  BY <1>0, <1>4 DEF ArgsAndOutsInit, LookupInit, AnswersRight, Unanswered
<1>7. OneEach(Tasks!Busy, TasksCarried, next_query_idx)
  BY <1>4 DEF OneEach
<1>8. pc = "start"
  BY DEF Tasks!Init
<1> QED  BY <1>3, <1>4, <1>5, <1>6, <1>7, <1>8 DEF TasksIInv

LEMMA TasksQuietStep ==
  ASSUME TasksIInv, UNCHANGED <<args, outs>>, finished' = finished,
         pc' \in {"loop", "visit", "returned"}, pc' = "visit" => i' \in Slots, i' \in Nat,
         next_query_idx' \in 0 .. n,
         tasks' \in [Slots -> [query_idx : Nat, node : DOMAIN tree, active : BOOLEAN]],
         OneEach(Tasks!Busy', TasksCarried', next_query_idx'),
         \A j \in Tasks!Busy' : OnWay(tasks'[j].query_idx, tasks'[j].node),
         Tasks!Settled' = Tasks!Settled, pc' = "returned" => Tasks!Settled = QueryIdx
  PROVE  TasksIInv'
<1>1. /\ n' = n /\ QueryIdx' = QueryIdx /\ (CallOK' <=> CallOK) /\ DOMAIN tree' = DOMAIN tree
      /\ \A A : AnswersRight(Stored(tree), A)' <=> AnswersRight(Stored(tree), A)
      /\ \A q, r : OnWay(q, r)' <=> OnWay(q, r)
  BY CallUnchanged
<1>2. TasksTypeOK'
  BY <1>1 DEF TasksTypeOK, TasksIInv
<1>3. (\A j \in Tasks!Busy : OnWay(tasks[j].query_idx, tasks[j].node))'
  <2>1. tree' = tree /\ queries' = queries
    BY DEF args, outs
  <2> QED  BY <2>1 DEF OnWay, Follows, PREDICT_POS, KeyAt
<1>4. AnswersRight(Stored(tree), Tasks!Settled)'
  <2>1. AnswersRight(Stored(tree), Tasks!Settled)
    BY DEF TasksIInv
  <2>2. tree' = tree /\ UNCHANGED <<queries, found, results>>
    BY DEF args, outs
  <2>3. Stored(tree)' = Stored(tree)
    BY <2>2 DEF Stored
  <2> QED
    BY <2>1, <2>2, <2>3 DEF AnswersRight, RightAnswer, Unanswered, QueryIdx, n, KeyAt
<1>5. finished' = Cardinality(Tasks!Settled')
  BY DEF TasksIInv
<1>6. OneEach(Tasks!Busy, TasksCarried, next_query_idx)'
  BY DEF OneEach
<1> QED  BY <1>1, <1>2, <1>3, <1>4, <1>5, <1>6 DEF TasksIInv

LEMMA TasksStart ==
  ASSUME TasksIInv, Tasks!Start
  PROVE  TasksIInv' /\ UNCHANGED <<args, outs>> /\ Tasks!Answered' = Tasks!Answered
<1>1. UNCHANGED <<args, outs>> /\ finished' = finished /\ i' = i /\ pc = "start"
  BY TasksSameSteps DEF Tasks!Start, Tasks!args, Tasks!outs, args, outs
<1>2. n \in Nat /\ QueryIdx = 0 .. n - 1 /\ next_query_idx = 0 /\ Tasks!Busy = {} /\ Tasks!Settled = {}
  BY <1>1, TasksSettledCounted DEF TasksIInv, Tasks!Settled
<1>3. CASE n = 0
  <2>1. pc' = "returned" /\ tasks' = tasks /\ next_query_idx' = next_query_idx
    BY <1>3, TasksSame DEF Tasks!Start
  <2>2. Tasks!Busy' = Tasks!Busy /\ TasksCarried' = TasksCarried /\ Tasks!Settled' = Tasks!Settled
    BY <2>1 DEF Tasks!Busy, TasksCarried, Tasks!Settled, Tasks!InFlight, Tasks!Slots
  <2>3. QueryIdx = {} /\ QueryIdx' = QueryIdx
    BY <1>1, <1>2, <1>3 DEF args, QueryIdx, n
  <2>4. TasksIInv'
    BY <1>1, <1>2, <2>1, <2>2, <2>3, TasksQuietStep DEF TasksIInv, TasksTypeOK
  <2>5. Tasks!QueryIdx' = {}
    BY <2>3 DEF QueryIdx, n, Tasks!QueryIdx, Tasks!n
  <2> QED  BY <1>1, <1>2, <2>1, <2>2, <2>4, <2>5 DEF Tasks!Answered
<1>4. CASE n # 0
  <2>1. /\ pc' = "loop" /\ next_query_idx' = Min2(POOL_SIZE, n)
        /\ tasks' = [j \in Slots |-> IF j < n THEN Tasks!Task(j) ELSE Tasks!NoTask]
    BY <1>4, TasksSame DEF Tasks!Start
  <2>2. /\ Tasks!Busy' = {j \in 0 .. POOL_SIZE - 1 : j < n}
        /\ \A j \in Tasks!Busy' : TasksCarried'[j] = j
    BY <2>1 DEF Tasks!Busy, TasksCarried, Tasks!Task, Tasks!NoTask, Tasks!Slots, Slots
  <2>9. \A j \in Tasks!Busy' : tasks'[j].query_idx = j /\ tasks'[j].node = <<>>
    BY <2>1 DEF Tasks!Busy, Tasks!Task, Tasks!NoTask, Tasks!Slots, Slots
  <2>3. next_query_idx' \in 0 .. n /\ OneEach(Tasks!Busy', TasksCarried', next_query_idx')
        /\ Landed(Tasks!Busy', TasksCarried', next_query_idx') = {}
    BY <1>2, <2>1, <2>2, FirstDeal, PoolAssumption
  <2>4. Tasks!Settled' = Tasks!Settled
    BY <1>2, <2>3, TasksSettledLanded
  <2>5. \A q : OnWay(q, <<>>)
    BY RootOnWay DEF TasksIInv, TasksTypeOK
  <2>6. tasks' \in [Slots -> [query_idx : Nat, node : DOMAIN tree, active : BOOLEAN]]
    <3>1. <<>> \in DOMAIN tree
      BY <2>5 DEF OnWay
    <3> QED  BY <2>1, <3>1 DEF Tasks!Task, Tasks!NoTask, Slots
  <2>7. \A j \in Tasks!Busy' : OnWay(tasks'[j].query_idx, tasks'[j].node)
    BY <2>5, <2>9
  <2>8. TasksIInv'
    BY <1>1, <2>1, <2>3, <2>4, <2>6, <2>7, TasksQuietStep DEF TasksIInv, TasksTypeOK
  <2> QED  BY <1>1, <2>1, <2>4, <2>8 DEF Tasks!Answered
<1> QED  BY <1>3, <1>4

LEMMA TasksLoopTest ==
  ASSUME TasksIInv, Tasks!LoopTest
  PROVE  TasksIInv' /\ UNCHANGED <<args, outs>> /\ Tasks!Answered' = Tasks!Answered
<1>1. /\ UNCHANGED <<args, outs>> /\ UNCHANGED <<tasks, next_query_idx, finished>> /\ pc = "loop"
      /\ pc' = (IF finished < n THEN "visit" ELSE "returned") /\ i' = 0
  BY TasksSame DEF Tasks!LoopTest, Tasks!args, Tasks!outs, args, outs
<1>2. Tasks!Busy' = Tasks!Busy /\ TasksCarried' = TasksCarried /\ Tasks!Settled' = Tasks!Settled
  BY <1>1 DEF Tasks!Busy, TasksCarried, Tasks!Settled, Tasks!InFlight, Tasks!Slots
<1>3. pc' = "returned" => Tasks!Settled = QueryIdx
  BY <1>1, TasksSettledCounted DEF TasksIInv
<1>4. 0 \in Slots
  BY PoolAssumption DEF Slots
<1>5. TasksIInv'
  BY <1>1, <1>2, <1>3, <1>4, TasksQuietStep DEF TasksIInv, TasksTypeOK
<1>6. Tasks!QueryIdx' = QueryIdx
  BY <1>1 DEF args, Tasks!QueryIdx, QueryIdx, n, Tasks!n
<1> QED  BY <1>1, <1>2, <1>3, <1>5, <1>6 DEF Tasks!Answered

LEMMA TasksVisitIdle ==
  ASSUME TasksIInv, Tasks!VisitIdle
  PROVE  TasksIInv' /\ UNCHANGED <<args, outs>> /\ Tasks!Answered' = Tasks!Answered
<1>1. Tasks!VisitCommon /\ UNCHANGED <<outs, tasks, finished>> /\ ~Tasks!Current.active
  BY DEF Tasks!VisitIdle, Tasks!outs, outs
<1>2. /\ UNCHANGED args /\ pc = "visit"
      /\ pc' \in {"loop", "visit"} /\ i' \in Nat /\ (pc' = "visit" => i' \in Slots)
      /\ next_query_idx' \in 0 .. n
      /\ next_query_idx' = IF Tasks!Refill THEN next_query_idx + 1 ELSE next_query_idx
  BY <1>1, TasksVisitFacts
<1>3. ~Tasks!Refill
  BY <1>1 DEF Tasks!Current, Tasks!Task
<1>4. Tasks!Busy' = Tasks!Busy /\ TasksCarried' = TasksCarried /\ Tasks!Settled' = Tasks!Settled
  BY <1>1, <1>2, <1>3 DEF Tasks!Busy, TasksCarried, Tasks!Settled, Tasks!InFlight, Tasks!Slots
<1>5. TasksIInv'
  BY <1>1, <1>2, <1>3, <1>4, TasksQuietStep DEF TasksIInv, TasksTypeOK
<1> QED  BY <1>1, <1>2, <1>4, <1>5 DEF Tasks!Answered

LEMMA TasksVisitMoves ==
  ASSUME TasksIInv, Tasks!VisitMoves
  PROVE  TasksIInv' /\ UNCHANGED <<args, outs>> /\ Tasks!Answered' = Tasks!Answered
<1>1. Tasks!VisitCommon /\ UNCHANGED <<outs, finished>> /\ Tasks!Current.active
  BY DEF Tasks!VisitMoves, Tasks!outs, outs
<1>2. PICK q, r, m : q = Tasks!Current.query_idx /\ r = Tasks!Current.node
                     /\ m = [Tasks!Current EXCEPT !.node = Child(q, r)]
  OBVIOUS
<1>3. IsChild(q, r) /\ tasks' = [tasks EXCEPT ![i] = m]
  BY <1>2, TasksSame DEF Tasks!VisitMoves
<1>4. /\ UNCHANGED args /\ pc = "visit" /\ i \in Slots
      /\ pc' \in {"loop", "visit"} /\ i' \in Nat /\ (pc' = "visit" => i' \in Slots)
      /\ next_query_idx' \in 0 .. n
  BY <1>1, TasksVisitFacts
<1>5. /\ Carries(i, q, Tasks!Busy, TasksCarried, next_query_idx, next_query_idx')
      /\ q \in QueryIdx /\ OnWay(q, r)
      /\ Tasks!Current \in [query_idx : Nat, node : DOMAIN tree, active : BOOLEAN]
  BY <1>1, <1>2, TaskCarries
<1>6. OnWay(q, Child(q, r))
  BY <1>3, <1>5, MoveStep DEF TasksIInv, TasksTypeOK
<1>7. /\ m \in [query_idx : Nat, node : DOMAIN tree, active : BOOLEAN]
      /\ m.query_idx = q /\ m.active /\ OnWay(m.query_idx, m.node)
  BY <1>1, <1>2, <1>5, <1>6 DEF OnWay
<1>8. DOMAIN tasks = Slots /\ next_query_idx \in Nat
      /\ tasks' \in [Slots -> [query_idx : Nat, node : DOMAIN tree, active : BOOLEAN]]
  <2>1. tasks \in [Slots -> [query_idx : Nat, node : DOMAIN tree, active : BOOLEAN]]
        /\ next_query_idx \in Nat
    BY DEF TasksIInv, TasksTypeOK
  <2>2. PICK R : R = [query_idx : Nat, node : DOMAIN tree, active : BOOLEAN]
    OBVIOUS
  <2>3. tasks \in [Slots -> R] /\ m \in R
    BY <1>7, <2>1, <2>2
  <2>4. tasks' \in [Slots -> R] /\ DOMAIN tasks = Slots
    BY <1>3, <2>3
  <2> QED  BY <2>1, <2>2, <2>4
<1>9. tasks'[i] = m /\ \A j \in Slots : j # i => tasks'[j] = tasks[j]
  BY <1>3, <1>4, <1>8
<1>10. Tasks!Busy' = Tasks!Busy \cup {i} /\ TasksCarried'[i] = q
       /\ OthersKept(i, Tasks!Busy, TasksCarried, TasksCarried')
  BY <1>4, <1>7, <1>9, TasksSame DEF Tasks!Busy, TasksCarried, OthersKept
<1>11. OneEach(Tasks!Busy, TasksCarried, next_query_idx)
  BY DEF TasksIInv
<1>12. /\ OneEach(Tasks!Busy \cup {i}, TasksCarried', next_query_idx')
       /\ Landed(Tasks!Busy \cup {i}, TasksCarried', next_query_idx')
          = Landed(Tasks!Busy, TasksCarried, next_query_idx)
  BY <1>5, <1>8, <1>10, <1>11, SlotGoesOn
<1>13. Tasks!Settled' = Tasks!Settled
  BY <1>10, <1>12, TasksSettledLanded
<1>14. \A j \in Tasks!Busy' : OnWay(tasks'[j].query_idx, tasks'[j].node)
  <2> TAKE j \in Tasks!Busy'
  <2>1. CASE j = i
    BY <1>7, <1>9, <2>1
  <2>2. CASE j # i
    <3>1. j \in Tasks!Busy /\ tasks'[j] = tasks[j]
      BY <1>9, <1>10, <2>2, TasksSame DEF Tasks!Busy
    <3> QED  BY <3>1 DEF TasksIInv
  <2> QED  BY <2>1, <2>2
<1>15. TasksIInv'
  BY <1>1, <1>4, <1>8, <1>10, <1>12, <1>13, <1>14, TasksQuietStep
<1> QED  BY <1>1, <1>4, <1>13, <1>15 DEF Tasks!Answered

(* A search that ends answers its query, and no other. *)
LEMMA TasksVisitEnds ==
  ASSUME TasksIInv, Tasks!VisitEnds
  PROVE  TasksIInv' /\ Tasks!Abstract!Answer
<1>1. Tasks!VisitCommon /\ Tasks!Current.active /\ finished' = finished + 1
  BY DEF Tasks!VisitEnds
<1>2. PICK q, r, m : q = Tasks!Current.query_idx /\ r = Tasks!Current.node
                     /\ m = [Tasks!Current EXCEPT !.active = FALSE]
  OBVIOUS
<1>3. ~IsChild(q, r) /\ tasks' = [tasks EXCEPT ![i] = m] /\ Collect([x \in {q} |-> r])
  BY <1>2, TasksSame, TasksSameSteps DEF Tasks!VisitEnds
<1>4. /\ UNCHANGED args /\ n' = n /\ QueryIdx' = QueryIdx /\ pc = "visit" /\ i \in Slots
      /\ pc' \in {"loop", "visit"} /\ i' \in Nat /\ (pc' = "visit" => i' \in Slots)
      /\ next_query_idx' \in 0 .. n
  BY <1>1, TasksVisitFacts
<1>5. /\ Carries(i, q, Tasks!Busy, TasksCarried, next_query_idx, next_query_idx')
      /\ q \in QueryIdx /\ OnWay(q, r)
      /\ Tasks!Current \in [query_idx : Nat, node : DOMAIN tree, active : BOOLEAN]
  BY <1>1, <1>2, TaskCarries
<1>6. m \in [query_idx : Nat, node : DOMAIN tree, active : BOOLEAN] /\ ~m.active
  BY <1>2, <1>5
<1>7. /\ DOMAIN tasks = Slots /\ next_query_idx \in Nat
      /\ tasks' \in [Slots -> [query_idx : Nat, node : DOMAIN tree, active : BOOLEAN]]
  <2>1. tasks \in [Slots -> [query_idx : Nat, node : DOMAIN tree, active : BOOLEAN]]
        /\ next_query_idx \in Nat
    BY DEF TasksIInv, TasksTypeOK
  <2>2. PICK R : R = [query_idx : Nat, node : DOMAIN tree, active : BOOLEAN]
    OBVIOUS
  <2>3. tasks \in [Slots -> R] /\ m \in R
    BY <1>6, <2>1, <2>2
  <2>4. tasks' \in [Slots -> R] /\ DOMAIN tasks = Slots
    BY <1>3, <2>3
  <2> QED  BY <2>1, <2>2, <2>4
<1>8. tasks'[i] = m /\ \A j \in Slots : j # i => tasks'[j] = tasks[j]
  BY <1>3, <1>4, <1>7
<1>9. Tasks!Busy' = Tasks!Busy \ {i} /\ OthersKept(i, Tasks!Busy, TasksCarried, TasksCarried')
  BY <1>4, <1>6, <1>8, TasksSame DEF Tasks!Busy, TasksCarried, OthersKept
<1>10. OneEach(Tasks!Busy, TasksCarried, next_query_idx)
  BY DEF TasksIInv
<1>11. /\ OneEach(Tasks!Busy \ {i}, TasksCarried', next_query_idx')
       /\ Landed(Tasks!Busy \ {i}, TasksCarried', next_query_idx')
          = Landed(Tasks!Busy, TasksCarried, next_query_idx) \cup {q}
       /\ q \notin Landed(Tasks!Busy, TasksCarried, next_query_idx)
  <2>1. Carries(i, q, Tasks!Busy, TasksCarried, next_query_idx, next_query_idx') /\ next_query_idx \in Nat
    BY <1>5, <1>7
  <2>2. OthersKept(i, Tasks!Busy, TasksCarried, TasksCarried')
    BY <1>9
  <2> QED  BY <1>10, <2>1, <2>2, SlotEnds
<1>12. Tasks!Settled' = Tasks!Settled \cup {q} /\ q \notin Tasks!Settled
  BY <1>9, <1>11, TasksSettledLanded
<1>13. /\ Tasks!Settled \subseteq QueryIdx /\ IsFiniteSet(Tasks!Settled)
       /\ Cardinality(Tasks!Settled) \in Nat /\ finished = Cardinality(Tasks!Settled)
  BY TasksSettledCounted DEF TasksIInv
<1>14. finished' = Cardinality(Tasks!Settled')
  BY <1>1, <1>12, <1>13, FS_AddElement
<1>15. CallOK' /\ Answers(Stored(tree), Tasks!Settled, {q}) /\ AnswersRight(Stored(tree), Tasks!Settled)'
  <2>1. PICK A, reached : A = Tasks!Settled /\ reached = [x \in {q} |-> r]
    OBVIOUS
  <2>2. \A x \in {q} : OnWay(x, reached[x]) /\ ~IsChild(x, reached[x])
    BY <1>3, <1>5, <2>1
  <2>3. CallOK /\ AnswersRight(Stored(tree), A) /\ {q} \subseteq QueryIdx /\ {q} \cap A = {}
        /\ DOMAIN reached = {q} /\ Collect(reached)
    BY <1>3, <1>5, <1>12, <2>1 DEF TasksIInv, TasksTypeOK
  <2>4. CallOK' /\ Answers(Stored(tree), A, {q}) /\ AnswersRight(Stored(tree), A \cup {q})'
    BY <1>4, <2>2, <2>3, CollectStep
  <2>5. Tasks!Settled' = A \cup {q}
    BY <1>12, <2>1
  <2>6. AnswersRight(Stored(tree), Tasks!Settled)'
    BY <2>4, <2>5 DEF AnswersRight
  <2> QED  BY <2>1, <2>4, <2>6
<1>16. TasksIInv'
  <2>1. DOMAIN tree' = DOMAIN tree
    BY <1>4 DEF args
  <2>2. TasksTypeOK'
    BY <1>4, <1>7, <1>15, <2>1 DEF TasksTypeOK
  <2>3. OneEach(Tasks!Busy, TasksCarried, next_query_idx)'
    BY <1>9, <1>11 DEF OneEach
  <2>4. (\A j \in Tasks!Busy : OnWay(tasks[j].query_idx, tasks[j].node))'
    <3>1. \A j \in Tasks!Busy' : OnWay(tasks'[j].query_idx, tasks'[j].node)
      BY <1>8, <1>9, TasksSame DEF TasksIInv, Tasks!Busy
    <3>2. tree' = tree /\ queries' = queries
      BY <1>4 DEF args
    <3> QED  BY <3>1, <3>2 DEF OnWay, Follows, PREDICT_POS, KeyAt
  <2> QED  BY <1>4, <1>14, <1>15, <2>2, <2>3, <2>4 DEF TasksIInv
<1>17. Tasks!Abstract!Answer
  <2>1. Tasks!Answered = Tasks!Settled /\ Tasks!Answered' = Tasks!Settled \cup {q}
    BY <1>4, <1>12 DEF Tasks!Answered
  <2>2. tree' = tree /\ queries' = queries /\ Stored(tree)' = Stored(tree)
        /\ Tasks!Stored(tree) = Stored(tree) /\ Tasks!Stored(tree)' = Stored(tree)
    BY <1>4 DEF args, Stored, Tasks!Stored
  <2>3. DOMAIN found' = QueryIdx /\ DOMAIN results' = QueryIdx
    BY <1>4, <1>15 DEF CallOK, OutsOK
  <2>4. Tasks!Abstract!RightAnswer(q)'
    BY <1>15, <2>2 DEF Answers, RightAnswer, KeyAt, Tasks!Abstract!RightAnswer, Tasks!Abstract!KeyAt
  <2>5. \A x \in {q} : Tasks!Abstract!RightAnswer(x)'
    BY <2>4
  <2>6. \A x \in QueryIdx \ {q} : found'[x] = found[x] /\ results'[x] = results[x]
    BY <1>15 DEF Answers
  <2>7. QueryIdx = 0 .. Len(queries) - 1
    BY DEF QueryIdx, n
  <2> QED  BY <1>5, <1>12, <1>13, <2>1, <2>2, <2>3, <2>5, <2>6, <2>7
           DEF Tasks!Abstract!Answer, Tasks!Abstract!Positions
<1> QED  BY <1>16, <1>17

LEMMA TasksStutter ==
  ASSUME TasksIInv, UNCHANGED Tasks!vars
  PROVE  TasksIInv' /\ UNCHANGED <<args, outs>> /\ Tasks!Answered' = Tasks!Answered
<1>1. UNCHANGED <<tree, queries, found, results, pc, tasks, next_query_idx, finished, i>>
  BY DEF Tasks!vars
<1>2. /\ Tasks!Busy' = Tasks!Busy /\ TasksCarried' = TasksCarried /\ Tasks!Settled' = Tasks!Settled
      /\ QueryIdx' = QueryIdx /\ n' = n /\ Tasks!QueryIdx' = Tasks!QueryIdx
  BY <1>1 DEF Tasks!Busy, TasksCarried, Tasks!Settled, Tasks!InFlight, QueryIdx, n, Tasks!QueryIdx, Tasks!n,
              Tasks!Slots
<1>3. TasksTypeOK'
  BY <1>1, <1>2 DEF TasksTypeOK, CallOK, OutsOK, TasksIInv
<1>4. (\A j \in Tasks!Busy : OnWay(tasks[j].query_idx, tasks[j].node))'
  BY <1>1, <1>2 DEF TasksIInv, OnWay, Follows, PREDICT_POS, KeyAt
<1>5. AnswersRight(Stored(tree), Tasks!Settled)'
  <2>1. Stored(tree)' = Stored(tree)
    BY <1>1 DEF Stored
  <2> QED  BY <1>1, <1>2, <2>1 DEF TasksIInv, AnswersRight, RightAnswer, Unanswered, KeyAt
<1>6. OneEach(Tasks!Busy, TasksCarried, next_query_idx)'
  BY <1>1, <1>2 DEF TasksIInv, OneEach
<1>7. TasksIInv'
  BY <1>1, <1>2, <1>3, <1>4, <1>5, <1>6 DEF TasksIInv
<1> QED  BY <1>1, <1>2, <1>7 DEF Tasks!Answered, args, outs

LEMMA TasksNext ==
  ASSUME TasksIInv, [Tasks!Next]_(Tasks!vars)
  PROVE  TasksIInv' /\ [Tasks!Abstract!Next]_(Tasks!Abstract!vars)
<1>1. CASE Tasks!VisitEnds
  BY <1>1, TasksVisitEnds DEF Tasks!Abstract!Next
<1>2. CASE ~Tasks!VisitEnds
  <2>1. TasksIInv' /\ UNCHANGED <<args, outs>> /\ Tasks!Answered' = Tasks!Answered
    BY <1>2, TasksStart, TasksLoopTest, TasksVisitIdle, TasksVisitMoves, TasksStutter
    DEF Tasks!Next, Tasks!Returned
  <2>2. UNCHANGED Tasks!Abstract!vars
    BY <2>1 DEF args, outs, Tasks!Abstract!vars, Tasks!Stored
  <2> QED  BY <2>1, <2>2
<1> QED  BY <1>1, <1>2

LEMMA TasksIInvImplies == ASSUME TasksIInv PROVE Tasks!PoolExact
<1>1. \A a, b \in Tasks!Busy : a # b => tasks[a].query_idx # tasks[b].query_idx
  BY TasksSame DEF TasksIInv, OneEach, TasksCarried, Tasks!Busy
<1>2. \A j \in Tasks!Busy : tasks[j].query_idx < next_query_idx
  BY TasksSame DEF TasksIInv, OneEach, TasksCarried, Tasks!Busy, TasksTypeOK
<1>3. AnswersRight(Stored(tree), Tasks!Answered)
  BY TasksSame DEF TasksIInv, Tasks!Answered
<1>4. Tasks!AnswersRight(Tasks!Stored(tree), Tasks!Answered)
  BY <1>3, TasksSame, TasksSameSteps
<1>5. \A j \in Tasks!Busy : Tasks!OnWay(tasks[j].query_idx, tasks[j].node)
  BY TasksSame DEF TasksIInv
<1>6. finished = Cardinality(Tasks!Settled)
  BY DEF TasksIInv
<1>7. \A j \in Tasks!Busy : tasks[j].query_idx < next_query_idx
                             /\ Tasks!OnWay(tasks[j].query_idx, tasks[j].node)
  BY <1>2, <1>5, Zenon
<1>8. finished = Tasks!Cardinality(Tasks!Settled)
  BY <1>6 DEF Tasks!Cardinality, Cardinality
<1> QED  BY <1>1, <1>4, <1>7, <1>8 DEF Tasks!PoolExact

LEMMA TasksAbstractInit == Tasks!Init => Tasks!Abstract!Init
<1> SUFFICES ASSUME Tasks!Init PROVE Tasks!Abstract!Init
  OBVIOUS
<1>1. ArgsAndOutsInit
  BY TasksSameSteps DEF Tasks!Init
<1>2. tree \in Trees /\ queries \in Seq(Key)
  BY <1>1, BatchesAssumption DEF ArgsAndOutsInit, LookupInit
<1>3. Tasks!Stored(tree) \in SUBSET (Key \X Value)
  BY <1>2, TreesAssumption, StoredPairs, TasksSame
<1>4. Tasks!Answered = {}
  BY DEF Tasks!Init, Tasks!Answered, Tasks!Settled
<1> QED  BY <1>1, <1>2, <1>3, <1>4
         DEF ArgsAndOutsInit, LookupInit, QueryIdx, n, Tasks!Abstract!Init, Tasks!Abstract!Positions

-----------------------------------------------------------------------------
(* LIPP NoPrefetch, GroupPrefetch and Vectorized.                          *)

LEMMA SweepsSame ==
  /\ Sweeps!n = n /\ Sweeps!QueryIdx = QueryIdx
  /\ \A q : Sweeps!KeyAt(q) = KeyAt(q)
  /\ \A q, r : /\ Sweeps!ItemOf(q, r) = ItemOf(q, r)
               /\ Sweeps!IsChild(q, r) <=> IsChild(q, r)
               /\ Sweeps!IsHit(q, r) <=> IsHit(q, r)
               /\ Sweeps!OnWay(q, r) <=> OnWay(q, r)
               /\ Sweeps!Child(q, r) = Child(q, r)
               /\ Sweeps!Data(q, r) = Data(q, r)
  /\ Sweeps!Stored(tree) = Stored(tree)
  /\ \A a, b : Sweeps!Min2(a, b) = Min2(a, b)
  /\ \A S : Sweeps!Cardinality(S) = Cardinality(S)
<1>1. Sweeps!n = n /\ Sweeps!QueryIdx = QueryIdx
  BY DEF Sweeps!n, n, Sweeps!QueryIdx, QueryIdx
<1>2. \A q : Sweeps!KeyAt(q) = KeyAt(q)
  BY DEF Sweeps!KeyAt, KeyAt
<1>3. \A nd, key : Sweeps!PREDICT_POS(nd, key) = PREDICT_POS(nd, key)
  BY DEF Sweeps!PREDICT_POS, PREDICT_POS
<1>4. \A q, r : Sweeps!ItemOf(q, r) = ItemOf(q, r)
  BY <1>2, <1>3 DEF Sweeps!ItemOf, ItemOf
<1>5. \A q, r : /\ Sweeps!IsChild(q, r) <=> IsChild(q, r)
                /\ Sweeps!IsNone(q, r) <=> IsNone(q, r)
                /\ Sweeps!Child(q, r) = Child(q, r)
                /\ Sweeps!Data(q, r) = Data(q, r)
  BY <1>4 DEF Sweeps!IsChild, IsChild, Sweeps!IsNone, IsNone, Sweeps!Child, Child, Sweeps!Data, Data
<1>6. \A q, r : Sweeps!IsHit(q, r) <=> IsHit(q, r)
  BY <1>2, <1>5 DEF Sweeps!IsHit, IsHit
<1>7. \A q, r : Sweeps!OnWay(q, r) <=> OnWay(q, r)
  BY <1>2, <1>3 DEF Sweeps!OnWay, OnWay, Sweeps!Follows, Follows
<1>8. Sweeps!Stored(tree) = Stored(tree) /\ \A a, b : Sweeps!Min2(a, b) = Min2(a, b)
  BY DEF Sweeps!Stored, Stored, Sweeps!Min2, Min2
<1>9. \A S : Sweeps!Cardinality(S) = Cardinality(S)
  BY DEF Sweeps!Cardinality, Cardinality
<1> QED  BY <1>1, <1>2, <1>4, <1>5, <1>6, <1>7, <1>8, <1>9

LEMMA SweepsSameSteps ==
  /\ \A reached : Sweeps!Collect(reached) <=> Collect(reached)
  /\ \A hits : Sweeps!Settle(hits) <=> Settle(hits)
  /\ \A A : Sweeps!AnswersRight(Stored(tree), A) <=> AnswersRight(Stored(tree), A)
  /\ Sweeps!ArgsAndOutsInit <=> ArgsAndOutsInit
<1>1. ASSUME NEW reached PROVE Sweeps!Collect(reached) <=> Collect(reached)
  <2>1. {x \in DOMAIN reached : Sweeps!IsHit(x, reached[x])} = {x \in DOMAIN reached : IsHit(x, reached[x])}
    BY SweepsSame
  <2>2. [q \in {x \in DOMAIN reached : Sweeps!IsHit(x, reached[x])} |-> Sweeps!Data(q, reached[q])[2]]
        = [q \in {x \in DOMAIN reached : IsHit(x, reached[x])} |-> Data(q, reached[q])[2]]
    BY <2>1, SweepsSame
  <2> QED  BY <2>2, SweepsSame DEF Sweeps!Collect, Collect, Sweeps!Settle, Settle
<1>2. \A hits : Sweeps!Settle(hits) <=> Settle(hits)
  BY SweepsSame DEF Sweeps!Settle, Settle
<1>3. \A A : Sweeps!AnswersRight(Stored(tree), A) <=> AnswersRight(Stored(tree), A)
  BY SweepsSame DEF Sweeps!AnswersRight, AnswersRight, Sweeps!RightAnswer, RightAnswer,
                    Sweeps!Unanswered, Unanswered
<1>4. Sweeps!ArgsAndOutsInit <=> ArgsAndOutsInit
  BY SweepsSame DEF Sweeps!ArgsAndOutsInit, ArgsAndOutsInit, Sweeps!LookupInit, LookupInit
<1> QED  BY <1>1, <1>2, <1>3, <1>4

(* The lanes of a group, and the queries before it and of its ended lanes. *)
LaneCount == IF GroupSize < n - batch_start THEN GroupSize ELSE n - batch_start
Ended     == {j \in 0 .. LaneCount - 1 : ~active[j]}
SweepsTypeOK ==
  /\ CallOK
  /\ pc \in {"for", "while", "move", "returned"}
  /\ batch_start \in Nat
  /\ pc \in {"while", "move"} => batch_start < n
  /\ pc = "returned" => ~(batch_start < n)

SweepsIInv ==
  /\ SweepsTypeOK
  /\ pc \in {"while", "move"} =>
       /\ \A j \in Sweeps!Members : active[j] => OnWay(batch_start + j, nodes[j])
       /\ remaining = Cardinality({j \in Sweeps!Members : active[j]})
  /\ pc = "move" => \A j \in Sweeps!Members : active[j] => pos[j] = ItemOf(batch_start + j, nodes[j])
  /\ AnswersRight(Stored(tree), Sweeps!Answered)

LEMMA SweepsFacts ==
  ASSUME SweepsTypeOK
  PROVE  /\ n \in Nat /\ QueryIdx = 0 .. n - 1 /\ GroupSize \in Nat \ {0} /\ batch_start \in Nat
         /\ Sweeps!Members = 0 .. LaneCount - 1 /\ Sweeps!Lanes = 0 .. GroupSize - 1
         /\ batch_start < n =>
              /\ LaneCount \in Nat \ {0} /\ Sweeps!Members \subseteq Sweeps!Lanes
              /\ batch_start + LaneCount <= n
              /\ LaneCount = GroupSize \/ batch_start + LaneCount = n
              /\ \A j \in Sweeps!Members : j \in Nat /\ batch_start + j \in QueryIdx
              /\ IsFiniteSet(Sweeps!Members)
<1>1. n \in Nat /\ QueryIdx = 0 .. n - 1 /\ batch_start \in Nat
  BY BatchFacts DEF SweepsTypeOK, CallOK
<1>2. GroupSize \in Nat \ {0}
  <2>1. 1 \in Nat \ {0}
    OBVIOUS
  <2> QED  BY <2>1, PoolAssumption, Zenon DEF GroupSize
<1>3. Sweeps!Members = 0 .. LaneCount - 1 /\ Sweeps!Lanes = 0 .. GroupSize - 1
  BY SweepsSame DEF Sweeps!Members, Sweeps!batch_size, Sweeps!Lanes, LaneCount, Min2
<1>4. batch_start < n =>
        /\ LaneCount \in Nat \ {0} /\ batch_start + LaneCount <= n /\ LaneCount <= GroupSize
        /\ LaneCount = GroupSize \/ batch_start + LaneCount = n
  BY <1>1, <1>2 DEF LaneCount
<1>5. batch_start < n => \A j \in 0 .. LaneCount - 1 : j \in Nat /\ batch_start + j \in 0 .. n - 1
  BY <1>1, <1>4
<1>6. batch_start < n => 0 .. LaneCount - 1 \subseteq 0 .. GroupSize - 1
  BY <1>2, <1>4
<1>7. batch_start < n => IsFiniteSet(0 .. LaneCount - 1)
  BY <1>4, FS_Interval
<1> QED  BY <1>1, <1>2, <1>3, <1>4, <1>5, <1>6, <1>7

LEMMA SweepsAnswered ==
  ASSUME SweepsTypeOK
  PROVE  /\ pc \in {"while", "move"} =>
              Sweeps!Answered = (0 .. batch_start - 1) \cup {batch_start + j : j \in Ended}
         /\ pc = "for" => Sweeps!Answered = 0 .. (IF n < batch_start THEN n ELSE batch_start) - 1
         /\ pc = "returned" => Sweeps!Answered = QueryIdx
<1>1. Sweeps!Min2(n, batch_start) = IF n < batch_start THEN n ELSE batch_start
  BY SweepsSame DEF Min2
<1>2. Sweeps!Answered = (0 .. Sweeps!Min2(n, batch_start) - 1)
        \cup (IF pc \in {"while", "move"} THEN {batch_start + j : j \in Ended} ELSE {})
  BY SweepsFacts, SweepsSame DEF Sweeps!Answered, Ended
<1>3. pc \in {"while", "move"} => Sweeps!Min2(n, batch_start) = batch_start
  BY <1>1, SweepsFacts DEF SweepsTypeOK
<1>4. pc = "returned" => Sweeps!Min2(n, batch_start) = n
  BY <1>1, SweepsFacts DEF SweepsTypeOK
<1> QED  BY <1>1, <1>2, <1>3, <1>4, SweepsFacts

LEMMA SweepsIInvImplies == ASSUME SweepsIInv PROVE Sweeps!GroupExact
<1>1. Sweeps!AnswersRight(Sweeps!Stored(tree), Sweeps!Answered)
  BY SweepsSame, SweepsSameSteps DEF SweepsIInv
<1>2. pc = "returned" => Sweeps!Answered = Sweeps!QueryIdx
  BY SweepsAnswered, SweepsSame DEF SweepsIInv
<1> QED  BY <1>1, <1>2, SweepsSame DEF SweepsIInv, Sweeps!GroupExact

LEMMA SweepsInitInv == Sweeps!Init => SweepsIInv
<1> SUFFICES ASSUME Sweeps!Init PROVE SweepsIInv
  OBVIOUS
<1>1. ArgsAndOutsInit /\ pc = "for" /\ batch_start = 0
  BY SweepsSameSteps DEF Sweeps!Init
<1>2. SweepsTypeOK
  <2>1. tree \in Trees /\ queries \in Seq(Key) /\ OutsOK
    BY <1>1, BatchesAssumption DEF ArgsAndOutsInit, LookupInit, OutsOK
  <2> QED  BY <1>1, <2>1 DEF SweepsTypeOK, CallOK
<1>3. Sweeps!Answered = {}
  BY <1>1, <1>2, SweepsAnswered, SweepsFacts
<1>4. AnswersRight(Stored(tree), Sweeps!Answered)
  BY <1>1, <1>3 DEF ArgsAndOutsInit, LookupInit, AnswersRight, Unanswered
<1> QED  BY <1>1, <1>2, <1>4 DEF SweepsIInv

(* A step that changes neither arguments nor outputs, and answers nothing. *)
LEMMA SweepsQuietStep ==
  ASSUME SweepsIInv, UNCHANGED <<args, outs, strategy>>,
         pc' \in {"for", "while", "move", "returned"}, batch_start' \in Nat,
         pc' \in {"while", "move"} => batch_start' < n, pc' = "returned" => ~(batch_start' < n),
         pc' \in {"while", "move"} =>
           /\ \A j \in Sweeps!Members' : active'[j] => OnWay(batch_start' + j, nodes'[j])
           /\ remaining' = Cardinality({j \in Sweeps!Members' : active'[j]}),
         pc' = "move" =>
           \A j \in Sweeps!Members' : active'[j] => pos'[j] = ItemOf(batch_start' + j, nodes'[j]),
         Sweeps!Answered' = Sweeps!Answered
  PROVE  SweepsIInv'
<1>1. tree' = tree /\ UNCHANGED <<queries, found, results>>
  BY DEF args, outs
<1>2. n' = n /\ QueryIdx' = QueryIdx /\ (CallOK' <=> CallOK)
  BY CallUnchanged
<1>3. SweepsTypeOK'
  BY <1>2 DEF SweepsTypeOK, SweepsIInv
<1>4. (pc \in {"while", "move"} =>
         /\ \A j \in Sweeps!Members : active[j] => OnWay(batch_start + j, nodes[j])
         /\ remaining = Cardinality({j \in Sweeps!Members : active[j]}))'
  BY <1>1 DEF OnWay, Follows, PREDICT_POS, KeyAt
<1>5. (pc = "move" => \A j \in Sweeps!Members : active[j] => pos[j] = ItemOf(batch_start + j, nodes[j]))'
  BY <1>1 DEF ItemOf, PREDICT_POS, KeyAt
<1>6. AnswersRight(Stored(tree), Sweeps!Answered)'
  <2>1. AnswersRight(Stored(tree), Sweeps!Answered)
    BY DEF SweepsIInv
  <2>2. Stored(tree)' = Stored(tree)
    BY <1>1 DEF Stored
  <2> QED
    BY <1>1, <2>1, <2>2 DEF AnswersRight, RightAnswer, Unanswered, QueryIdx, n, KeyAt
<1> QED  BY <1>3, <1>4, <1>5, <1>6 DEF SweepsIInv

LEMMA SweepsNextGroup ==
  ASSUME SweepsIInv, Sweeps!NextGroup, strategy' = strategy
  PROVE  SweepsIInv' /\ UNCHANGED <<args, outs>> /\ Sweeps!Answered' = Sweeps!Answered
<1>1. /\ UNCHANGED <<args, outs, strategy, batch_start>> /\ pc = "for"
      /\ n' = n /\ QueryIdx' = QueryIdx /\ Sweeps!Members' = Sweeps!Members
  <2>1. UNCHANGED <<tree, queries, found, results, strategy, batch_start>> /\ pc = "for"
    BY DEF Sweeps!NextGroup, Sweeps!call, Sweeps!args, Sweeps!outs
  <2> QED
    BY <2>1, Zenon DEF args, outs, n, QueryIdx, Sweeps!Members, Sweeps!batch_size, Sweeps!Min2, Sweeps!n, GroupSize
<1>2. SweepsTypeOK
  BY DEF SweepsIInv
<1>3. /\ n \in Nat /\ batch_start \in Nat
      /\ Sweeps!Answered = 0 .. (IF n < batch_start THEN n ELSE batch_start) - 1
  BY <1>1, <1>2, SweepsFacts, SweepsAnswered
<1>4. CASE batch_start < n
  <2>1. /\ pc' = "while" /\ Sweeps!Members \subseteq Sweeps!Lanes
        /\ nodes' = [j \in Sweeps!Lanes |-> IF j \in Sweeps!Members THEN <<>> ELSE nodes[j]]
        /\ active' = [j \in Sweeps!Lanes |-> IF j \in Sweeps!Members THEN TRUE ELSE active[j]]
        /\ remaining' = Sweeps!batch_size
    BY <1>2, <1>4, SweepsSame, SweepsFacts DEF Sweeps!NextGroup
  <2>2. \A j \in Sweeps!Members : active'[j] /\ nodes'[j] = <<>>
    BY <2>1
  <2>3. \A q : OnWay(q, <<>>)
    BY <1>2, RootOnWay DEF SweepsTypeOK
  <2>4. remaining' = Cardinality({j \in Sweeps!Members' : active'[j]})
    <3>1. {j \in Sweeps!Members' : active'[j]} = 0 .. LaneCount - 1 /\ LaneCount \in Nat
      BY <1>1, <1>2, <1>4, <2>2, SweepsFacts
    <3>2. Cardinality(0 .. LaneCount - 1) = LaneCount
      BY <3>1, FS_Interval
    <3>3. Sweeps!batch_size = LaneCount
      BY SweepsSame DEF Sweeps!batch_size, LaneCount, Min2
    <3> QED  BY <2>1, <3>1, <3>2, <3>3
  <2>5. \A j \in Sweeps!Members' : OnWay(batch_start' + j, nodes'[j])
    BY <1>1, <2>2, <2>3
  <2>6. Sweeps!Answered' = Sweeps!Answered
    <3>1. {j \in Sweeps!Members' : ~active'[j]} = {}
      BY <1>1, <2>2
    <3>2. Sweeps!Answered' = 0 .. (IF n < batch_start THEN n ELSE batch_start) - 1
      <4>1. Sweeps!n' = n /\ Sweeps!Min2(Sweeps!n', batch_start') = IF n < batch_start THEN n ELSE batch_start
        BY <1>1, SweepsSame DEF Sweeps!n, n, Sweeps!Min2
      <4>2. Sweeps!Answered' = (0 .. Sweeps!Min2(Sweeps!n', batch_start') - 1) \cup {batch_start' + j : j \in {}}
        BY <2>1, <3>1 DEF Sweeps!Answered
      <4> QED  BY <4>1, <4>2
    <3> QED  BY <1>3, <3>2
  <2> QED  BY <1>1, <1>3, <1>4, <2>1, <2>4, <2>5, <2>6, SweepsQuietStep
<1>5. CASE ~(batch_start < n)
  <2>1. pc' = "returned" /\ UNCHANGED <<nodes, active, remaining>>
    BY <1>5, SweepsSame DEF Sweeps!NextGroup
  <2>2. Sweeps!Answered' = Sweeps!Answered
    <3>1. Sweeps!n' = Sweeps!n
      BY <1>1 DEF Sweeps!n, n, args
    <3> QED  BY <1>1, <2>1, <3>1 DEF Sweeps!Answered, Sweeps!Min2
  <2> QED  BY <1>1, <1>3, <1>5, <2>1, <2>2, SweepsQuietStep
<1> QED  BY <1>4, <1>5

MovingLanes == {j \in Sweeps!Members : active[j] /\ IsChild(batch_start + j, nodes[j])}
EndingLanes == {j \in Sweeps!Members : active[j] /\ ~IsChild(batch_start + j, nodes[j])}

(* A pass over a group moves or ends each of its active queries. *)
LEMMA GroupPass ==
  ASSUME SweepsIInv, pc \in {"while", "move"}, pc' = "while",
         UNCHANGED <<args, strategy, batch_start>>,
         nodes' = [j \in Sweeps!Lanes |-> IF j \in MovingLanes THEN Child(batch_start + j, nodes[j])
                                          ELSE nodes[j]],
         active' = [j \in Sweeps!Lanes |-> active[j] /\ j \notin EndingLanes],
         remaining' = remaining - Cardinality(EndingLanes),
         Collect([q \in {batch_start + j : j \in EndingLanes} |-> nodes[q - batch_start]])
  PROVE  SweepsIInv' /\ [Sweeps!Abstract!Next]_(Sweeps!Abstract!vars)
<1>1. /\ SweepsTypeOK /\ CallOK /\ batch_start < n
      /\ \A j \in Sweeps!Members : active[j] => OnWay(batch_start + j, nodes[j])
      /\ remaining = Cardinality({j \in Sweeps!Members : active[j]})
      /\ AnswersRight(Stored(tree), Sweeps!Answered)
  BY DEF SweepsIInv, SweepsTypeOK
<1>2. /\ n \in Nat /\ QueryIdx = 0 .. n - 1 /\ batch_start \in Nat
      /\ Sweeps!Members \subseteq Sweeps!Lanes /\ IsFiniteSet(Sweeps!Members)
      /\ \A j \in Sweeps!Members : j \in Nat /\ batch_start + j \in QueryIdx
  BY <1>1, SweepsFacts
<1>3. /\ n' = n /\ QueryIdx' = QueryIdx /\ Sweeps!Members' = Sweeps!Members
      /\ tree' = tree /\ queries' = queries
  <2>1. UNCHANGED <<tree, queries, strategy, batch_start>>
    BY DEF args
  <2> QED
    BY <2>1, Zenon DEF n, QueryIdx, Sweeps!Members, Sweeps!batch_size, Sweeps!Min2, Sweeps!n, GroupSize
<1>4. PICK Qs, A, reached, items : /\ Qs = {batch_start + j : j \in EndingLanes}
                            /\ A = Sweeps!Answered /\ items = Stored(tree)
                            /\ reached = [q \in Qs |-> nodes[q - batch_start]]
  OBVIOUS
<1>5. A = (0 .. batch_start - 1) \cup {batch_start + j : j \in {x \in Sweeps!Members : ~active[x]}}
  BY <1>1, <1>4, SweepsAnswered, SweepsFacts DEF Ended
<1>6. /\ \A j \in Sweeps!Members : active'[j] <=> active[j] /\ j \notin EndingLanes
      /\ \A j \in Sweeps!Members :
            nodes'[j] = IF j \in MovingLanes THEN Child(batch_start + j, nodes[j]) ELSE nodes[j]
  BY <1>2
<1>7. Qs \subseteq QueryIdx
  BY <1>2, <1>4 DEF EndingLanes
<1>8. Qs \cap A = {}
  <2> SUFFICES ASSUME NEW j \in EndingLanes PROVE batch_start + j \notin A
    BY <1>4
  <2>1. j \in Sweeps!Members /\ active[j] /\ j \in Nat
    BY <1>2 DEF EndingLanes
  <2>2. batch_start + j \notin 0 .. batch_start - 1
    BY <1>2, <2>1
  <2>3. \A x \in Sweeps!Members : batch_start + x = batch_start + j => x = j
    BY <1>2, <2>1
  <2> QED  BY <1>5, <2>1, <2>2, <2>3
<1>9. \A q \in Qs : OnWay(q, reached[q]) /\ ~IsChild(q, reached[q])
  <2> SUFFICES ASSUME NEW j \in EndingLanes
               PROVE  OnWay(batch_start + j, reached[batch_start + j])
                      /\ ~IsChild(batch_start + j, reached[batch_start + j])
    BY <1>4
  <2>1. j \in Sweeps!Members /\ active[j] /\ ~IsChild(batch_start + j, nodes[j]) /\ j \in Nat
    BY <1>2 DEF EndingLanes
  <2>2. batch_start + j \in Qs /\ batch_start + j - batch_start = j
    BY <1>2, <1>4, <2>1
  <2>3. reached[batch_start + j] = nodes[j]
    <3>1. PICK q : q = batch_start + j
      OBVIOUS
    <3>2. q \in Qs /\ q - batch_start = j
      BY <1>2, <2>1, <2>2, <3>1
    <3>3. reached[q] = nodes[q - batch_start]
      BY <1>4, <3>2
    <3> QED  BY <3>1, <3>2, <3>3
  <2> QED  BY <1>1, <2>1, <2>3
<1>10. DOMAIN reached = Qs /\ Collect(reached) /\ AnswersRight(Stored(tree), A)
  BY <1>1, <1>4
<1>11. CallOK' /\ Answers(Stored(tree), A, Qs) /\ AnswersRight(Stored(tree), A \cup Qs)'
  BY <1>1, <1>7, <1>8, <1>9, <1>10, CollectStep
<1>12. Sweeps!Answered' = A \cup Qs
  <2>1. {x \in Sweeps!Members' : ~active'[x]} = {x \in Sweeps!Members : ~active[x]} \cup EndingLanes
    BY <1>3, <1>6 DEF EndingLanes
  <2>2. Sweeps!n' = n /\ Sweeps!Min2(Sweeps!n', batch_start') = batch_start
    BY <1>1, <1>2, <1>3 DEF Sweeps!n, n, Sweeps!Min2
  <2>3. Sweeps!Answered' = (0 .. batch_start - 1)
          \cup {batch_start + j : j \in {x \in Sweeps!Members' : ~active'[x]}}
    BY <2>2 DEF Sweeps!Answered
  <2> QED  BY <1>4, <1>5, <2>1, <2>3
<1>13. SweepsIInv'
  <2>1. SweepsTypeOK'
    BY <1>1, <1>2, <1>3, <1>11 DEF SweepsTypeOK
  <2>2. (\A j \in Sweeps!Members : active[j] => OnWay(batch_start + j, nodes[j]))'
    <3>1. \A j \in Sweeps!Members : active'[j] => OnWay(batch_start + j, nodes'[j])
      <4> SUFFICES ASSUME NEW j \in Sweeps!Members, active'[j]
                   PROVE  OnWay(batch_start + j, nodes'[j])
        OBVIOUS
      <4>1. /\ active[j] /\ j \in MovingLanes /\ IsChild(batch_start + j, nodes[j])
            /\ nodes'[j] = Child(batch_start + j, nodes[j])
        BY <1>6 DEF EndingLanes, MovingLanes
      <4>2. PICK q, r : q = batch_start + j /\ r = nodes[j]
        OBVIOUS
      <4>3. q \in QueryIdx /\ OnWay(q, r) /\ IsChild(q, r)
        BY <1>1, <1>2, <4>1, <4>2
      <4>4. OnWay(q, Child(q, r))
        BY <1>1, <4>3, MoveStep
      <4> QED  BY <4>1, <4>2, <4>4
    <3>2. batch_start' = batch_start
      OBVIOUS
    <3> SUFFICES ASSUME NEW j \in Sweeps!Members, active'[j] PROVE OnWay(batch_start + j, nodes[j])'
      BY <1>3
    <3>3. PICK q, r : q = batch_start + j /\ r = nodes'[j]
      OBVIOUS
    <3>4. OnWay(q, r)
      BY <3>1, <3>3
    <3>5. OnWay(q, r)'
      BY <1>3, <3>4 DEF OnWay, Follows, PREDICT_POS, KeyAt
    <3>6. batch_start' + j = q
      BY <3>2, <3>3
    <3> QED  BY <3>3, <3>5, <3>6 DEF OnWay
  <2>3. (remaining = Cardinality({j \in Sweeps!Members : active[j]}))'
    <3>1. PICK S : S = {j \in Sweeps!Members : active[j]}
      OBVIOUS
    <3>2. {j \in Sweeps!Members' : active'[j]} = S \ EndingLanes /\ S \cap EndingLanes = EndingLanes
      BY <1>3, <1>6, <3>1 DEF EndingLanes
    <3>3. IsFiniteSet(S)
      BY <1>2, <3>1, FS_Subset
    <3>4. Cardinality(S \ EndingLanes) = Cardinality(S) - Cardinality(S \cap EndingLanes)
      BY <3>3, FS_Difference
    <3> QED  BY <1>1, <3>1, <3>2, <3>4
  <2>4. AnswersRight(Stored(tree), Sweeps!Answered)'
    BY <1>11, <1>12 DEF AnswersRight
  <2>5. (pc = "move" => \A j \in Sweeps!Members : active[j] => pos[j] = ItemOf(batch_start + j, nodes[j]))'
    OBVIOUS
  <2> QED  BY <2>1, <2>2, <2>3, <2>4, <2>5 DEF SweepsIInv
<1>14. tree' = tree /\ queries' = queries /\ Sweeps!Stored(tree) = items /\ Sweeps!Stored(tree)' = items
  BY <1>3, <1>4 DEF Stored, Sweeps!Stored
<1>15. CASE Qs = {}
  <2>1. UNCHANGED outs /\ Sweeps!Answered' = Sweeps!Answered
    BY <1>1, <1>4, <1>11, <1>12, <1>15, NoneAnswered DEF CallOK
  <2> QED  BY <1>13, <1>14, <2>1 DEF Sweeps!Abstract!vars, outs
<1>16. CASE Qs # {}
  <2>1. Sweeps!Answered \subseteq QueryIdx
    BY <1>2, <1>1, <1>4, <1>5
  <2>2. DOMAIN found' = QueryIdx /\ DOMAIN results' = QueryIdx
    BY <1>3, <1>11 DEF CallOK, OutsOK
  <2>3. ASSUME NEW q \in Qs PROVE Sweeps!Abstract!RightAnswer(q)'
    BY <1>4, <1>11, <1>14 DEF Answers, RightAnswer, KeyAt, Sweeps!Abstract!RightAnswer, Sweeps!Abstract!KeyAt
  <2>4. \A q \in QueryIdx \ Qs : found'[q] = found[q] /\ results'[q] = results[q]
    BY <1>11 DEF Answers
  <2>5. /\ Sweeps!Answered' \subseteq QueryIdx /\ Sweeps!Answered \subseteq Sweeps!Answered'
        /\ Sweeps!Answered # Sweeps!Answered' /\ Sweeps!Answered' \ Sweeps!Answered = Qs
    BY <1>4, <1>7, <1>8, <1>12, <1>16, <2>1
  <2>6. Sweeps!Abstract!Positions = QueryIdx
    BY DEF Sweeps!Abstract!Positions, QueryIdx, n
  <2>7. Sweeps!Abstract!Answer
    BY <1>14, <2>2, <2>3, <2>4, <2>5, <2>6
    DEF Sweeps!Abstract!Answer, Sweeps!Abstract!RightAnswer, Sweeps!Abstract!KeyAt
  <2> QED  BY <1>13, <2>7 DEF Sweeps!Abstract!Next
<1> QED  BY <1>15, <1>16

LEMMA SweepsSweep ==
  ASSUME SweepsIInv, Sweeps!Sweep, strategy' = strategy
  PROVE  SweepsIInv' /\ [Sweeps!Abstract!Next]_(Sweeps!Abstract!vars)
<1>1. Sweeps!Moving = MovingLanes /\ Sweeps!Ending = EndingLanes
  BY SweepsSame DEF Sweeps!Moving, MovingLanes, Sweeps!Ending, EndingLanes
<1>2. /\ pc = "while" /\ pc' = "while" /\ UNCHANGED <<args, strategy, batch_start>>
      /\ active' = [j \in Sweeps!Lanes |-> active[j] /\ j \notin EndingLanes]
      /\ remaining' = remaining - Cardinality(EndingLanes)
  BY <1>1, SweepsSame DEF Sweeps!Sweep, Sweeps!call, Sweeps!args, args
<1>3. nodes' = [j \in Sweeps!Lanes |-> IF j \in MovingLanes THEN Child(batch_start + j, nodes[j])
                                       ELSE nodes[j]]
  BY <1>1, SweepsSame DEF Sweeps!Sweep
<1>4. Collect([q \in {batch_start + j : j \in EndingLanes} |-> nodes[q - batch_start]])
  BY <1>1, SweepsSameSteps DEF Sweeps!Sweep
<1> QED  BY <1>2, <1>3, <1>4, GroupPass

(* What the second pass of Vectorized follows is what the first predicted. *)
LEMMA SweepsMovePass ==
  ASSUME SweepsIInv, Sweeps!MovePass, strategy' = strategy
  PROVE  SweepsIInv' /\ [Sweeps!Abstract!Next]_(Sweeps!Abstract!vars)
<1>1. pc = "move" /\ pc' = "while" /\ UNCHANGED <<args, strategy, batch_start>>
  BY DEF Sweeps!MovePass, Sweeps!call, Sweeps!args, args
<1>2. \A j \in Sweeps!Members : active[j] => pos[j] = ItemOf(batch_start + j, nodes[j])
  BY <1>1 DEF SweepsIInv
<1>3. /\ SweepsTypeOK /\ batch_start \in Nat /\ Sweeps!Members \subseteq Sweeps!Lanes
      /\ \A j \in Sweeps!Members : j \in Nat /\ batch_start + j \in QueryIdx
  BY <1>1, SweepsFacts DEF SweepsIInv, SweepsTypeOK
<1>4. \A j \in Sweeps!Members : /\ Sweeps!Moves(j) <=> j \in MovingLanes
                                /\ Sweeps!Ends(j) <=> j \in EndingLanes
  BY <1>2 DEF Sweeps!Moves, Sweeps!Ends, MovingLanes, EndingLanes, IsChild
<1>5. \A j \in Sweeps!Members : j \in MovingLanes => Append(nodes[j], pos[j]) = Child(batch_start + j, nodes[j])
  BY <1>2 DEF MovingLanes, Child
<1>6. nodes' = [j \in Sweeps!Lanes |-> IF j \in MovingLanes THEN Child(batch_start + j, nodes[j])
                                       ELSE nodes[j]]
  <2>1. MovingLanes \subseteq Sweeps!Members
    BY DEF MovingLanes
  <2>2. nodes' = [j \in Sweeps!Lanes |-> IF j \in Sweeps!Members /\ Sweeps!Moves(j) THEN Append(nodes[j], pos[j])
                                         ELSE nodes[j]]
    BY DEF Sweeps!MovePass
  <2> QED  BY <1>4, <1>5, <2>1, <2>2
<1>7. active' = [j \in Sweeps!Lanes |-> active[j] /\ j \notin EndingLanes]
  <2>1. \A j : active[j] /\ (j \in Sweeps!Members => Sweeps!Moves(j)) <=> active[j] /\ j \notin EndingLanes
    BY <1>4 DEF EndingLanes, MovingLanes
  <2>2. active' = [j \in Sweeps!Lanes |-> active[j] /\ (j \in Sweeps!Members => Sweeps!Moves(j))]
    BY DEF Sweeps!MovePass
  <2> QED  BY <2>1, <2>2
<1>8. remaining' = remaining - Cardinality(EndingLanes)
  <2>1. {j \in Sweeps!Members : Sweeps!Ends(j)} = EndingLanes
    BY <1>4 DEF EndingLanes
  <2> QED  BY <2>1, SweepsSame DEF Sweeps!MovePass
<1>9. Collect([q \in {batch_start + j : j \in EndingLanes} |-> nodes[q - batch_start]])
  <2>1. PICK Qs, reached, hits :
           /\ Qs = {batch_start + j : j \in EndingLanes}
           /\ reached = [q \in Qs |-> nodes[q - batch_start]]
           /\ hits = [q \in {batch_start + j : j \in {x \in Sweeps!Members : Sweeps!Hits(x)}}
                        |-> tree[nodes[q - batch_start]].data[pos[q - batch_start]][2]]
    OBVIOUS
  <2>2. Settle(hits)
    BY <2>1, SweepsSameSteps DEF Sweeps!MovePass
  <2>3. \A j \in Sweeps!Members : Sweeps!Hits(j) <=> j \in EndingLanes /\ IsHit(batch_start + j, nodes[j])
    <3> TAKE j \in Sweeps!Members
    <3>1. Sweeps!KeyAt(batch_start + j) = KeyAt(batch_start + j)
      BY SweepsSame
    <3>2. CASE j \in EndingLanes
      <4>1. pos[j] = ItemOf(batch_start + j, nodes[j]) /\ ~IsChild(batch_start + j, nodes[j]) /\ Sweeps!Ends(j)
        BY <1>2, <1>4, <3>2 DEF EndingLanes
      <4> QED  BY <3>1, <3>2, <4>1 DEF Sweeps!Hits, IsHit, IsNone, Data
    <3>3. CASE j \notin EndingLanes
      BY <1>4, <3>3 DEF Sweeps!Hits
    <3> QED  BY <3>2, <3>3
  <2>4. \A j \in EndingLanes : /\ j \in Sweeps!Members /\ batch_start + j - batch_start = j
                               /\ pos[j] = ItemOf(batch_start + j, nodes[j])
    BY <1>2, <1>3 DEF EndingLanes
  <2>5. \A q \in Qs : q - batch_start \in EndingLanes /\ q = batch_start + (q - batch_start)
                      /\ reached[q] = nodes[q - batch_start]
    BY <1>3, <2>1, <2>4
  <2>6. {batch_start + j : j \in {x \in Sweeps!Members : Sweeps!Hits(x)}} = {q \in Qs : IsHit(q, reached[q])}
    <3>1. ASSUME NEW j \in Sweeps!Members, Sweeps!Hits(j)
          PROVE  batch_start + j \in {q \in Qs : IsHit(q, reached[q])}
      <4>1. j \in EndingLanes /\ IsHit(batch_start + j, nodes[j])
        BY <2>3, <3>1
      <4>2. batch_start + j \in Qs /\ batch_start + j - batch_start = j
        BY <2>1, <2>4, <4>1
      <4>3. reached[batch_start + j] = nodes[j]
        <5>1. PICK q : q = batch_start + j
          OBVIOUS
        <5>2. q \in Qs /\ q - batch_start = j
          BY <1>3, <4>2, <5>1
        <5> QED  BY <2>5, <5>1, <5>2
      <4> QED  BY <4>1, <4>2, <4>3
    <3>2. ASSUME NEW q \in Qs, IsHit(q, reached[q])
          PROVE  \E j \in Sweeps!Members : Sweeps!Hits(j) /\ q = batch_start + j
      <4>1. PICK j \in EndingLanes : q = batch_start + j
        BY <2>1
      <4>2. j \in Sweeps!Members /\ reached[q] = nodes[j]
        <5>1. q - batch_start = j
          <6>1. j \in Nat /\ batch_start \in Nat
            BY <1>3 DEF EndingLanes
          <6> QED  BY <4>1, <6>1
        <5> QED  BY <2>4, <2>5, <5>1
      <4> QED  BY <2>3, <3>2, <4>1, <4>2
    <3> QED  BY <3>1, <3>2
  <2>7. \A q \in Qs : tree[nodes[q - batch_start]].data[pos[q - batch_start]][2] = Data(q, reached[q])[2]
    <3> TAKE q \in Qs
    <3>1. PICK j \in EndingLanes : j = q - batch_start /\ q = batch_start + j /\ reached[q] = nodes[j]
      BY <2>5
    <3>2. pos[j] = ItemOf(q, nodes[j])
      BY <2>4, <3>1
    <3> QED  BY <3>1, <3>2 DEF Data
  <2>8. hits = [q \in {x \in Qs : IsHit(x, reached[x])} |-> Data(q, reached[q])[2]]
    BY <2>1, <2>6, <2>7
  <2>9. DOMAIN reached = Qs
    BY <2>1
  <2>10. Collect(reached)
    BY <2>2, <2>8, <2>9 DEF Collect
  <2> QED  BY <2>1, <2>10
<1> QED  BY <1>1, <1>6, <1>7, <1>8, <1>9, GroupPass

LEMMA SweepsPredictPass ==
  ASSUME SweepsIInv, Sweeps!PredictPass, strategy' = strategy
  PROVE  SweepsIInv' /\ UNCHANGED <<args, outs>> /\ Sweeps!Answered' = Sweeps!Answered
<1>1. /\ pc = "while" /\ pc' = "move"
      /\ UNCHANGED <<tree, queries, found, results, strategy, batch_start, nodes, active, remaining>>
  BY DEF Sweeps!PredictPass, Sweeps!call, Sweeps!args, Sweeps!outs
<1>2. pos' = [j \in Sweeps!Lanes |-> IF j \in Sweeps!Members /\ active[j] THEN ItemOf(batch_start + j, nodes[j])
                                     ELSE pos[j]]
  BY SweepsSame DEF Sweeps!PredictPass
<1>3. /\ UNCHANGED <<args, outs, strategy>> /\ Sweeps!Members' = Sweeps!Members
      /\ n' = n /\ Sweeps!n' = Sweeps!n
  BY <1>1, Zenon DEF args, outs, n, Sweeps!Members, Sweeps!batch_size, Sweeps!Min2, Sweeps!n, GroupSize
<1>4. /\ batch_start < n /\ batch_start \in Nat /\ Sweeps!Members \subseteq Sweeps!Lanes
      /\ \A j \in Sweeps!Members : active[j] => OnWay(batch_start + j, nodes[j])
      /\ remaining = Cardinality({j \in Sweeps!Members : active[j]})
  BY <1>1, SweepsFacts DEF SweepsIInv, SweepsTypeOK
<1>5. \A j \in Sweeps!Members : active[j] => pos'[j] = ItemOf(batch_start + j, nodes[j])
  BY <1>2, <1>4
<1>6. Sweeps!Answered' = Sweeps!Answered
  BY <1>1, <1>3 DEF Sweeps!Answered, Sweeps!Min2
<1> QED  BY <1>1, <1>3, <1>4, <1>5, <1>6, SweepsQuietStep

(* A group ends when none of its queries is active, so that all are answered. *)
LEMMA SweepsEndGroup ==
  ASSUME SweepsIInv, Sweeps!EndGroup, strategy' = strategy
  PROVE  SweepsIInv' /\ UNCHANGED <<args, outs>> /\ Sweeps!Answered' = Sweeps!Answered
<1>1. /\ pc = "while" /\ pc' = "for" /\ remaining = 0 /\ batch_start' = batch_start + GroupSize
      /\ UNCHANGED <<tree, queries, found, results, nodes, active, remaining>>
  BY Zenon DEF Sweeps!EndGroup, Sweeps!call, Sweeps!args, Sweeps!outs
<1>2. UNCHANGED <<args, outs, strategy>> /\ n' = n /\ Sweeps!n' = n
  BY <1>1 DEF args, outs, n, Sweeps!n
<1>3. /\ SweepsTypeOK /\ batch_start < n
      /\ remaining = Cardinality({j \in Sweeps!Members : active[j]})
  BY <1>1 DEF SweepsIInv, SweepsTypeOK
<1>4. /\ n \in Nat /\ GroupSize \in Nat \ {0} /\ batch_start \in Nat /\ LaneCount \in Nat \ {0}
      /\ Sweeps!Members = 0 .. LaneCount - 1 /\ IsFiniteSet(Sweeps!Members)
      /\ batch_start + LaneCount <= n /\ LaneCount <= GroupSize
      /\ LaneCount = GroupSize \/ batch_start + LaneCount = n
  <2>1. LaneCount <= GroupSize
    BY <1>3, SweepsFacts DEF LaneCount
  <2> QED  BY <1>3, <2>1, SweepsFacts
<1>5. Ended = 0 .. LaneCount - 1
  <2>1. PICK S : S = {j \in Sweeps!Members : active[j]}
    OBVIOUS
  <2>2. IsFiniteSet(S) /\ Cardinality(S) = 0
    BY <1>1, <1>3, <1>4, <2>1, FS_Subset
  <2>3. S = {}
    BY <2>2, FS_EmptySet
  <2> QED  BY <1>4, <2>1, <2>3 DEF Ended
<1>6. Sweeps!Answered = 0 .. (batch_start + LaneCount) - 1
  <2>1. Sweeps!Answered = (0 .. batch_start - 1) \cup {batch_start + j : j \in 0 .. LaneCount - 1}
    BY <1>1, <1>3, <1>5, SweepsAnswered
  <2>2. PICK b, c : b = batch_start /\ c = LaneCount
    OBVIOUS
  <2>3. b \in Nat /\ c \in Nat
    BY <1>4, <2>2
  <2>4. ASSUME NEW x \in 0 .. (b + c) - 1, ~(x \in 0 .. b - 1) PROVE \E j \in 0 .. c - 1 : x = b + j
    <3>1. x - b \in 0 .. c - 1 /\ x = b + (x - b)
      BY <2>3, <2>4
    <3> QED  BY <3>1
  <2>5. \A j \in 0 .. c - 1 : b + j \in 0 .. (b + c) - 1
    BY <2>3
  <2>6. 0 .. b - 1 \subseteq 0 .. (b + c) - 1
    BY <2>3
  <2>7. (0 .. b - 1) \cup {b + j : j \in 0 .. c - 1} = 0 .. (b + c) - 1
    BY <2>4, <2>5, <2>6
  <2> QED  BY <2>1, <2>2, <2>7
<1>7. Sweeps!Answered' = 0 .. (IF n < batch_start + GroupSize THEN n ELSE batch_start + GroupSize) - 1
  BY <1>1, <1>2 DEF Sweeps!Answered, Sweeps!Min2
<1>8. (IF n < batch_start + GroupSize THEN n ELSE batch_start + GroupSize) = batch_start + LaneCount
  BY <1>4
<1>9. Sweeps!Answered' = Sweeps!Answered
  BY <1>6, <1>7, <1>8
<1>10. batch_start' \in Nat
  BY <1>1, <1>4
<1> QED  BY <1>1, <1>2, <1>9, <1>10, SweepsQuietStep

LEMMA SweepsStutter ==
  ASSUME SweepsIInv, UNCHANGED Sweeps!vars, strategy' = strategy
  PROVE  SweepsIInv' /\ UNCHANGED <<args, outs>> /\ Sweeps!Answered' = Sweeps!Answered
<1>1. UNCHANGED <<tree, queries, found, results, strategy, pc, batch_start, nodes, active, remaining, pos>>
  BY DEF Sweeps!vars, Sweeps!call, Sweeps!args, Sweeps!outs
<1>2. /\ UNCHANGED <<args, outs, strategy>> /\ Sweeps!Members' = Sweeps!Members
      /\ n' = n /\ Sweeps!n' = Sweeps!n
  BY <1>1, Zenon DEF args, outs, n, Sweeps!Members, Sweeps!batch_size, Sweeps!Min2, Sweeps!n, GroupSize
<1>3. Sweeps!Answered' = Sweeps!Answered
  BY <1>1, <1>2 DEF Sweeps!Answered, Sweeps!Min2
<1>4. /\ pc \in {"for", "while", "move", "returned"} /\ batch_start \in Nat
      /\ pc \in {"while", "move"} => batch_start < n
      /\ pc = "returned" => ~(batch_start < n)
      /\ pc \in {"while", "move"} =>
           /\ \A j \in Sweeps!Members : active[j] => OnWay(batch_start + j, nodes[j])
           /\ remaining = Cardinality({j \in Sweeps!Members : active[j]})
      /\ pc = "move" => \A j \in Sweeps!Members : active[j] => pos[j] = ItemOf(batch_start + j, nodes[j])
  BY DEF SweepsIInv, SweepsTypeOK
<1>5. SweepsIInv'
  BY <1>1, <1>2, <1>3, <1>4, SweepsQuietStep
<1> QED  BY <1>2, <1>3, <1>5

LEMMA SweepsNext ==
  ASSUME SweepsIInv, [Sweeps!Next]_(Sweeps!vars), strategy' = strategy
  PROVE  SweepsIInv' /\ [Sweeps!Abstract!Next]_(Sweeps!Abstract!vars)
<1>1. CASE Sweeps!Sweep \/ Sweeps!MovePass
  BY <1>1, SweepsSweep, SweepsMovePass
<1>2. CASE ~(Sweeps!Sweep \/ Sweeps!MovePass)
  <2>1. SweepsIInv' /\ UNCHANGED <<args, outs>> /\ Sweeps!Answered' = Sweeps!Answered
    BY <1>2, SweepsNextGroup, SweepsPredictPass, SweepsEndGroup, SweepsStutter
    DEF Sweeps!Next, Sweeps!Returned
  <2>2. UNCHANGED Sweeps!Abstract!vars
    BY <2>1 DEF args, outs, Sweeps!Abstract!vars, Sweeps!Stored
  <2> QED  BY <2>1, <2>2
<1> QED  BY <1>1, <1>2

LEMMA SweepsAbstractInit == Sweeps!Init => Sweeps!Abstract!Init
<1> SUFFICES ASSUME Sweeps!Init PROVE Sweeps!Abstract!Init
  OBVIOUS
<1>1. ArgsAndOutsInit
  BY SweepsSameSteps DEF Sweeps!Init
<1>2. tree \in Trees /\ queries \in Seq(Key)
  BY <1>1, BatchesAssumption DEF ArgsAndOutsInit, LookupInit
<1>3. Sweeps!Stored(tree) \in SUBSET (Key \X Value)
  BY <1>2, TreesAssumption, StoredPairs, SweepsSame
<1>4. Sweeps!Answered = {}
  <2>1. SweepsTypeOK /\ pc = "for" /\ batch_start = 0
    BY SweepsInitInv DEF SweepsIInv, Sweeps!Init
  <2> QED  BY <2>1, SweepsAnswered, SweepsFacts
<1> QED  BY <1>1, <1>2, <1>3, <1>4
         DEF ArgsAndOutsInit, LookupInit, QueryIdx, n, Sweeps!Abstract!Init, Sweeps!Abstract!Positions
=============================================================================
