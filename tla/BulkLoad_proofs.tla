--------------------------- MODULE BulkLoad_proofs ---------------------------
(***************************************************************************)
(* Theorems about bulk_load and verify, for ranges of any length, leaves   *)
(* and inner nodes of any capacity and any set of integer keys:            *)
(* every state of a load is consistent, its levels halve until one         *)
(* node is left, and the tree it ends with passes verify, holds exactly    *)
(* the items of the range and leads every search to them.                  *)
(*                                                                         *)
(* The invariant describes the nodes by two sequences of numbers: e[v] is  *)
(* the last item of the range under node v, and f[v] .. f[v + 1] - 1 are   *)
(* the children of inner node v.  All that the code reads off the nodes,   *)
(* the keys it copies up, the shares it hands out, and what the recursions *)
(* of verify compute on the finished tree, is a function of these two.     *)
(***************************************************************************)
EXTENDS BulkLoad, FiniteSetTheorems, SequenceTheorems, WellFoundedInduction, TLAPS

-----------------------------------------------------------------------------
(* Shares.                                                                 *)

(* Of what is left, each of p parts gets the quotient. *)
LEMMA Quotient ==
  ASSUME NEW x \in Nat, NEW p \in Nat \ {0}
  PROVE  x \div p \in Nat /\ p * (x \div p) <= x /\ x < p * (x \div p) + p
OBVIOUS

(* Every non-empty set of naturals has a least element. *)
LEMMA LeastNatural ==
  ASSUME NEW T, T \subseteq Nat, T # {}
  PROVE  \E m \in T : \A j \in T : m <= j
<1>1. IsWellFoundedOn(OpToRel(<, Nat), Nat)
  BY NatLessThanWellFounded
<1>2. PICK m \in T : \A j \in T : ~(<<j, m>> \in OpToRel(<, Nat))
  BY <1>1, WFMin, Zenon
<1>3. \A j \in T : m <= j
  <2> SUFFICES ASSUME NEW j \in T, ~(m <= j)
               PROVE  FALSE
    OBVIOUS
  <2>1. m \in Nat /\ j \in Nat /\ j < m
    OBVIOUS
  <2>2. <<j, m>> \in OpToRel(<, Nat)
    BY <2>1 DEF OpToRel
  <2> QED  BY <1>2, <2>2
<1> QED  BY <1>3

(* A factor can be cancelled. *)
LEMMA Cancel ==
  ASSUME NEW a \in Int, NEW b \in Int, NEW p \in Nat \ {0}
  PROVE  p * a <= p * b <=> a <= b
OBVIOUS

(* What divides evenly among p divides evenly among the others when one has *)
(* taken its share.                                                         *)
LEMMA Share ==
  ASSUME NEW x \in Nat, NEW p \in Nat \ {0}, NEW a \in Nat, NEW b \in Nat,
         p * a <= x, x <= p * b
  PROVE  /\ x \div p \in a .. b
         /\ (p - 1) * a <= x - (x \div p)
         /\ x - (x \div p) <= (p - 1) * b
<1>1. PICK m \in Nat : m = x \div p /\ p * m <= x /\ x < p * m + p
  BY Quotient
<1>2. p * a < p * (m + 1)
  BY <1>1
<1>3. a <= m
  BY <1>1, <1>2
<1>4. p * m <= p * b
  BY <1>1
<1>5. m <= b
  BY <1>4
<1>6. (p - 1) * a <= x - m
  BY <1>1, <1>3
<1>7. x - m <= (p - 1) * b
  BY <1>1, <1>5
<1> QED  BY <1>1, <1>3, <1>5, <1>6, <1>7

(* A quotient rounded up is enough parts for all, and not one too many. *)
LEMMA RoundedUp ==
  ASSUME NEW k \in Nat, NEW d \in Nat \ {0}
  PROVE  /\ DivUp(k, d) \in Nat
         /\ k <= DivUp(k, d) * d
         /\ DivUp(k, d) * d <= k + d - 1
         /\ k = 0 <=> DivUp(k, d) = 0
<1>1. k + d - 1 \in Nat
  OBVIOUS
<1>2. PICK m \in Nat : m = DivUp(k, d) /\ d * m <= k + d - 1 /\ k + d - 1 < d * m + d
  BY <1>1, Quotient DEF DivUp
<1> QED  BY <1>2

(* Nodes for at least two things, each with room for three or more: there   *)
(* are fewer, each gets two or more, and half of its room unless it is one. *)
LEMMA InnerShares ==
  ASSUME NEW k \in Nat, k >= 2
  PROVE  /\ NumParents(k) \in Nat \ {0}
         /\ NumParents(k) < k
         /\ NumParents(k) * 2 <= k
         /\ k <= NumParents(k) * (innerslotmax + 1)
         /\ NumParents(k) > 1 => NumParents(k) * (innerslotmax \div 2 + 1) <= k
<1>1. PICK d \in Nat : d = innerslotmax + 1 /\ d >= 3
  BY CapacityAssumption, FanOutAssumption
<1>2. PICK p \in Nat : p = NumParents(k) /\ k <= p * d /\ p * d <= k + d - 1 /\ p # 0
  <2>1. NumParents(k) = DivUp(k, d)
    BY <1>1 DEF NumParents
  <2>2. DivUp(k, d) \in Nat /\ k <= DivUp(k, d) * d /\ DivUp(k, d) * d <= k + d - 1 /\ DivUp(k, d) # 0
    <3>1. d \in Nat \ {0} /\ k # 0
      BY <1>1
    <3> HIDE <1>1
    <3> QED  BY <3>1, RoundedUp
  <2> QED  BY <2>1, <2>2
<1>3. p * 2 <= k
  <2>1. CASE p = 1
    BY <2>1
  <2>2. CASE p >= 2
    <3>1. p * d = p * 2 + p * (d - 2)
      BY <1>1, <1>2
    <3>2. p * (d - 2) >= 2 * (d - 2) /\ p * (d - 2) >= p
      BY <1>1, <1>2, <2>2
    <3>3. (p - 1) * (d - 2) >= p - 1
      BY <1>1, <1>2, <2>2
    <3>4. p * (d - 2) = (p - 1) * (d - 2) + (d - 2)
      BY <1>1, <1>2
    <3> QED  BY <1>1, <1>2, <2>2, <3>1, <3>3, <3>4
  <2> QED  BY <1>2, <2>1, <2>2
<1>4. ASSUME p > 1 PROVE p * (innerslotmax \div 2 + 1) <= k
  <2>1. PICK h \in Nat : h = innerslotmax \div 2 /\ 2 * h + 1 <= d
    BY <1>1, Quotient, CapacityAssumption
  <2>2. (p - 1) * (2 * h + 1) <= (p - 1) * d
    BY <1>2, <2>1, <1>4
  <2>3. (p - 1) * d = p * d - d
    BY <1>1, <1>2
  <2>4. (p - 1) * (2 * h + 1) = p * (h + 1) + h * (p - 2) - 1
    BY <1>2, <2>1
  <2>5. h * (p - 2) >= 0
    BY <1>2, <2>1, <1>4
  <2>6. PICK y \in Int : y = p * (h + 1)
    BY <1>2, <2>1
  <2> QED  BY <1>1, <1>2, <2>1, <2>2, <2>3, <2>4, <2>5, <2>6
<1>5. k <= p * d
  BY <1>2
<1> QED  BY <1>1, <1>2, <1>3, <1>4

(* The leaves allotted to a range can hold it, and half fill where there are several. *)
LEMMA LeafShares ==
  ASSUME NEW k \in Nat
  PROVE  /\ DivUp(k, leafslotmax) \in Nat
         /\ DivUp(k, leafslotmax) <= k
         /\ k <= DivUp(k, leafslotmax) * leafslotmax
         /\ k = 0 <=> DivUp(k, leafslotmax) = 0
         /\ DivUp(k, leafslotmax) > 1 => DivUp(k, leafslotmax) * (leafslotmax \div 2) <= k
<1>1. PICK d \in Nat \ {0} : d = leafslotmax
  BY CapacityAssumption
<1>2. PICK p \in Nat : p = DivUp(k, d) /\ k <= p * d /\ p * d <= k + d - 1 /\ (k = 0 <=> p = 0)
  BY <1>1, RoundedUp
<1>3. p <= k
  <2>1. CASE p = 0
    BY <2>1
  <2>2. CASE p # 0
    <3>1. (p - 1) * d >= p - 1 /\ (p - 1) * d = p * d - d
      BY <1>1, <1>2, <2>2
    <3> QED  BY <1>1, <1>2, <3>1
  <2> QED  BY <2>1, <2>2
<1>4. ASSUME p > 1 PROVE p * (d \div 2) <= k
  <2>1. PICK h \in Nat : h = d \div 2 /\ 2 * h <= d
    BY <1>1, Quotient
  <2>2. (p - 1) * (2 * h) <= (p - 1) * d
    BY <1>2, <2>1, <1>4
  <2>3. (p - 1) * d = p * d - d
    BY <1>1, <1>2
  <2>4. (p - 1) * (2 * h) = p * h + h * (p - 2)
    BY <1>2, <2>1
  <2>5. h * (p - 2) >= 0
    BY <1>2, <2>1, <1>4
  <2>6. PICK y \in Int : y = p * h
    BY <1>2, <2>1
  <2> QED  BY <1>1, <1>2, <2>1, <2>2, <2>3, <2>4, <2>5, <2>6
<1> QED  BY <1>1, <1>2, <1>3, <1>4

-----------------------------------------------------------------------------
(* Sets of the first naturals.                                             *)

LEMMA FirstNaturals ==
  ASSUME NEW k \in Nat
  PROVE  IsFiniteSet(1 .. k) /\ Cardinality(1 .. k) = k
BY FS_Interval

LEMMA Places ==
  ASSUME NEW k \in Nat
  PROVE  IsFiniteSet(0 .. k - 1) /\ Cardinality(0 .. k - 1) = k
BY FS_Interval

(* A set of the first naturals has a greatest. *)
LEMMA Greatest ==
  ASSUME NEW k \in Nat, NEW T, T \subseteq 1 .. k, T # {}
  PROVE  \E m \in T : \A j \in T : j <= m
<1> DEFINE U == {x \in Nat : \E y \in T : x = k - y}
<1>1. U \subseteq Nat /\ U # {}
  <2>1. PICK y : y \in T
    OBVIOUS
  <2>2. k - y \in U
    BY <2>1
  <2> QED  BY <2>2
<1>2. PICK u \in U : \A x \in U : u <= x
  BY <1>1, LeastNatural, Zenon
<1>3. PICK m \in T : u = k - m
  OBVIOUS
<1>4. ASSUME NEW j \in T PROVE j <= m
  <2>1. k - j \in U
    OBVIOUS
  <2>2. u <= k - j
    BY <1>2, <2>1
  <2> QED  BY <1>3, <2>2
<1> QED  BY <1>4

(* The address of a new node. *)
LEMMA NextAddress ==
  ASSUME NEW t, NEW k \in Nat, DOMAIN t.node = 1 .. k
  PROVE  Fresh(t) = k + 1
<1>1. Cardinality(DOMAIN t.node) = k
  BY FirstNaturals
<1>2. \A v \in 1 .. k + 1 : (v \notin 1 .. k /\ \A u \in 1 .. v - 1 : u \in 1 .. k) <=> v = k + 1
  OBVIOUS
<1>3. k + 1 \in 1 .. k + 1
  OBVIOUS
<1>4. Fresh(t) = CHOOSE v \in 1 .. k + 1 : v \notin 1 .. k /\ \A u \in 1 .. v - 1 : u \in 1 .. k
  BY <1>1 DEF Fresh
<1> QED  BY <1>2, <1>3, <1>4

-----------------------------------------------------------------------------
(* What has been built, at any time.  Nodes have the addresses 1 .. k in    *)
(* the order they were allocated, the leaves 1 .. l.  Two functions that    *)
(* are not in the code describe them: e[v] is the number of the last item   *)
(* below node v, and the children of an inner node v are the nodes from     *)
(* f[v] to f[v + 1] - 1.                                                    *)

Before(e, v) == IF v = 1 THEN 0 ELSE e[v - 1]

LeafAt(its, from, to) ==
  [level |-> 0, slotuse |-> to - from,
   slotkey |-> [s \in 0 .. to - from - 1 |-> its[from + s + 1][1]],
   childid |-> <<>>,
   slotdata |-> [s \in 0 .. to - from - 1 |-> its[from + s + 1][2]]]

InnerAt(its, e, lev, first, next) ==
  [level |-> lev, slotuse |-> next - first - 1,
   slotkey |-> [s \in 0 .. next - first - 2 |-> its[e[first + s]][1]],
   childid |-> [s \in 0 .. next - first - 1 |-> first + s],
   slotdata |-> <<>>]

LeavesBuilt(its, nd, e, l) ==
  \A v \in 1 .. l : /\ Before(e, v) < e[v]
                    /\ e[v] - Before(e, v) <= leafslotmax
                    /\ nd[v] = LeafAt(its, Before(e, v), e[v])

InnersBuilt(its, nd, e, f, l, k) ==
  \A v \in l + 1 .. k : /\ f[v] + 1 < f[v + 1]
                        /\ f[v + 1] - f[v] <= innerslotmax + 1
                        /\ f[v + 1] <= v
                        /\ nd[v] = InnerAt(its, e, nd[v].level, f[v], f[v + 1])
                        /\ nd[v].level \in Nat \ {0}
                        /\ \A c \in f[v] .. f[v + 1] - 1 : nd[c].level + 1 = nd[v].level
                        /\ e[v] = e[f[v + 1] - 1]

(* Every node up to f[k + 1] - 1 has one parent. *)
Tiled(f, l, k) ==
  /\ f \in [l + 1 .. k + 1 -> 1 .. k + 1]
  /\ f[l + 1] = 1
  /\ \A v, w \in l + 1 .. k + 1 : v < w => f[v] < f[w]
  /\ \A c \in 1 .. f[k + 1] - 1 : \E p \in l + 1 .. k : f[p] <= c /\ c < f[p + 1]

(* Level follows level, each of which ends with the last of the items. *)
LevelsBuilt(its, nd, e, k) ==
  /\ \A u, v \in 1 .. k : u < v => /\ nd[u].level <= nd[v].level
                                   /\ nd[u].level = nd[v].level => e[u] < e[v]
  /\ \A u \in 1 .. k - 1 : \/ nd[u + 1].level = nd[u].level
                           \/ nd[u + 1].level = nd[u].level + 1 /\ e[u] = Len(its)

Built(its, nd, e, f, l, k) ==
  /\ l \in Nat /\ k \in Nat /\ l <= k
  /\ nd = [v \in 1 .. k |-> nd[v]]
  /\ e \in [1 .. k -> 1 .. Len(its)]
  /\ LeavesBuilt(its, nd, e, l)
  /\ Tiled(f, l, k)
  /\ InnersBuilt(its, nd, e, f, l, k)
  /\ LevelsBuilt(its, nd, e, k)

(* The btree around these nodes. *)
StoreOf(its, nd, l, k, root) ==
  [node |-> nd,
   nextleaf |-> [v \in 1 .. l |-> IF v = l THEN NULL ELSE v + 1],
   prevleaf |-> [v \in 1 .. l |-> IF v = 1 THEN NULL ELSE v - 1],
   headleaf |-> IF l = 0 THEN NULL ELSE 1,
   tailleaf |-> IF l = 0 THEN NULL ELSE l,
   root |-> root,
   stats |-> [itemcount |-> Len(its), leaves |-> l, innernodes |-> k - l]]

NoneUnderflows(nd, to) == \A v \in 1 .. to : ~isunderflow(nd[v])

-----------------------------------------------------------------------------
(* The invariant.                                                          *)

NumLeaves == btree.stats.leaves
NumNodes  == btree.stats.leaves + btree.stats.innernodes

(* What is left to share, and among how many, for their greatest number. *)
Shared(left, parts, least, most) == parts * least <= left /\ left <= parts * most

LeavesLoop(e) ==
  /\ NumNodes = i /\ NumLeaves = i /\ i <= num_leaves
  /\ num_leaves = DivUp(Len(items), leafslotmax)
  /\ it = Before(e, i + 1) /\ num_items = Len(items) - it
  /\ level = 0 /\ leaf = NULL /\ num_parents = 0 /\ num_children = 0 /\ inner_index = 0
  /\ btree.root = NULL
  /\ Shared(num_items, num_leaves - i, 1, leafslotmax)
  /\ num_leaves > 1 => /\ Shared(num_items, num_leaves - i, leafslotmax \div 2, leafslotmax)
                       /\ NoneUnderflows(btree.node, i)

(* A level of inner nodes: i of num_parents are built, over nodes of the    *)
(* level below of which some have no parent yet.                           *)
Left == IF phase = "parents" THEN num_leaves ELSE num_children

LevelLoop(e, f) ==
  LET left == Left
      last == NumNodes - i
  IN  /\ num_leaves \in Nat /\ num_items = 0 /\ it = Len(items)
      /\ num_children \in Nat /\ inner_index \in Nat
      /\ btree.root = NULL
      /\ num_parents \in Nat \ {0} /\ i \in 0 .. num_parents /\ NumLeaves <= last
      /\ level \in Nat \ {0} /\ NumLeaves >= 1
      /\ e[last] = Len(items)
      /\ left \in Nat /\ f[NumNodes + 1] = last - left + 1
      /\ btree.node[last].level = level - 1
      /\ \A v \in last - left + 1 .. last : btree.node[v].level = level - 1
      /\ \A v \in last + 1 .. NumNodes : btree.node[v].level = level
      /\ Shared(left, num_parents - i, 2, innerslotmax + 1)
      /\ NoneUnderflows(btree.node, last)
      /\ num_parents > 1 => /\ Shared(left, num_parents - i, innerslotmax \div 2 + 1, innerslotmax + 1)
                            /\ NoneUnderflows(btree.node, NumNodes)
      /\ 0 .. num_parents - 1 \subseteq DOMAIN nextlevel
      /\ inner_index .. inner_index + num_children - 1 \subseteq DOMAIN nextlevel
      /\ \A j \in 0 .. i - 1 : nextlevel[j] = Entry(last + 1 + j, items[e[last + 1 + j]][1])

ParentsLoop(e, f) ==
  /\ LevelLoop(e, f)
  /\ level = 1 /\ num_children = 0 /\ inner_index = 0
  /\ NumNodes - i = NumLeaves
  /\ leaf = IF num_leaves = 0 THEN NULL ELSE f[NumNodes + 1]

InnerLoop(e, f) ==
  /\ LevelLoop(e, f)
  /\ num_leaves = 0 /\ leaf = NULL
  /\ i <= inner_index
  /\ LET first == f[NumNodes + 1]
     IN  \A s \in 0 .. num_children - 1 :
           nextlevel[inner_index + s] = Entry(first + s, items[e[first + s]][1])

LoadDone(e, f) ==
  /\ num_leaves \in Nat /\ num_items = 0 /\ it = Len(items)
  /\ leaf = NULL /\ {level, i, num_parents, num_children, inner_index} \subseteq Nat
  /\ IF items = <<>>
     THEN NumNodes = 0 /\ btree.root = NULL
     ELSE /\ NumNodes > 0 /\ NumLeaves >= 1
          /\ btree.root = NumNodes
          /\ f[NumNodes + 1] = NumNodes
          /\ e[NumNodes] = Len(items)
          /\ NoneUnderflows(btree.node, NumNodes - 1)

LoadInv(e, f) ==
  /\ items \in Ranges
  /\ phase \in {"leaves", "parents", "inner", "done"}
  /\ btree = StoreOf(items, btree.node, NumLeaves, NumNodes, btree.root)
  /\ Built(items, btree.node, e, f, NumLeaves, NumNodes)
  /\ phase = "leaves" => LeavesLoop(e)
  /\ phase = "parents" => ParentsLoop(e, f)
  /\ phase = "inner" => InnerLoop(e, f)
  /\ phase = "done" => LoadDone(e, f)

IInv == \E e, f : LoadInv(e, f)

-----------------------------------------------------------------------------
(* Steps of the construction, of nodes alone.                              *)

(* What the invariant says of the nodes filled so far. *)
LEMMA BuiltFacts ==
  ASSUME NEW its, NEW nd, NEW e, NEW f, NEW l, NEW k, Built(its, nd, e, f, l, k)
  PROVE  /\ DOMAIN nd = 1 .. k
         /\ \A v \in 1 .. k : e[v] \in 1 .. Len(its)
         /\ \A v \in l + 1 .. k + 1 : f[v] \in 1 .. k + 1
BY DEF Built, Tiled

(* The levels of leaves, and of others. *)
LEMMA BuiltLevels ==
  ASSUME NEW its, NEW nd, NEW e, NEW f, NEW l, NEW k, Built(its, nd, e, f, l, k)
  PROVE  /\ \A v \in 1 .. l : nd[v].level = 0 /\ isleafnode(nd[v])
         /\ \A v \in l + 1 .. k : nd[v].level \in Nat \ {0} /\ ~isleafnode(nd[v])
         /\ \A v \in 1 .. k : nd[v].level \in Nat
<1>1. ASSUME NEW v \in 1 .. l PROVE nd[v].level = 0
  <2>1. nd[v] = LeafAt(its, Before(e, v), e[v])
    BY DEF Built, LeavesBuilt
  <2> QED  BY <2>1 DEF LeafAt
<1>2. ASSUME NEW v \in l + 1 .. k PROVE nd[v].level \in Nat \ {0}
  BY DEF Built, InnersBuilt
<1>3. l \in Nat /\ k \in Nat /\ l <= k
  BY DEF Built
<1>4. \A v \in 1 .. k : v \in 1 .. l \/ v \in l + 1 .. k
  BY <1>3
<1>5. \A v \in l + 1 .. k : nd[v].level # 0
  BY <1>2
<1> QED  BY <1>1, <1>2, <1>4, <1>5 DEF isleafnode

(* A leaf filled with the next items extends the nodes built. *)
LEMMA GrowLeaf ==
  ASSUME NEW its, NEW nd, NEW e, NEW f, NEW l, Built(its, nd, e, f, l, l),
         NEW m \in 1 .. leafslotmax, Before(e, l + 1) + m <= Len(its), Len(its) \in Nat,
         NEW e2, e2 = [v \in 1 .. l + 1 |-> IF v = l + 1 THEN Before(e, l + 1) + m ELSE e[v]],
         NEW nd2, nd2 = With(nd, l + 1, LeafAt(its, Before(e, l + 1), Before(e, l + 1) + m)),
         NEW f2, f2 = [v \in l + 2 .. l + 2 |-> 1]
  PROVE  Built(its, nd2, e2, f2, l + 1, l + 1)
<1> DEFINE b == Before(e, l + 1)
<1>1. l \in Nat /\ DOMAIN nd = 1 .. l /\ leafslotmax \in Nat
  BY CapacityAssumption DEF Built
<1>2. b \in Nat /\ (l = 0 => b = 0) /\ (l > 0 => b = e[l])
  BY <1>1, BuiltFacts DEF Before
<1> HIDE DEF b
<1>3. /\ nd2 = [v \in 1 .. l + 1 |-> IF v = l + 1 THEN LeafAt(its, b, b + m) ELSE nd[v]]
  BY <1>1 DEF With, b
<1>4. nd2 = [v \in 1 .. l + 1 |-> nd2[v]]
  BY <1>3
<1>5. e2 \in [1 .. l + 1 -> 1 .. Len(its)]
  BY <1>1, <1>2, BuiltFacts DEF b
<1>6. LeavesBuilt(its, nd2, e2, l + 1)
  <2> SUFFICES ASSUME NEW v \in 1 .. l + 1
               PROVE  /\ Before(e2, v) < e2[v] /\ e2[v] - Before(e2, v) <= leafslotmax
                      /\ nd2[v] = LeafAt(its, Before(e2, v), e2[v])
    BY DEF LeavesBuilt
  <2>1. CASE v = l + 1
    <3>1. Before(e2, v) = b /\ e2[v] = b + m
      BY <1>1, <1>2, <2>1 DEF Before, b
    <3> QED  BY <1>1, <1>2, <1>3, <2>1, <3>1
  <2>2. CASE v \in 1 .. l
    <3>1. Before(e2, v) = Before(e, v) /\ e2[v] = e[v] /\ nd2[v] = nd[v]
      BY <1>1, <1>3, <2>2 DEF Before
    <3> QED  BY <2>2, <3>1 DEF Built, LeavesBuilt
  <2> QED  BY <1>1, <2>1, <2>2
<1>7. Tiled(f2, l + 1, l + 1)
  <2>1. \A c \in 1 .. 1 - 1 : FALSE
    OBVIOUS
  <2>2. f2[l + 2] = 1 /\ (l + 1) + 1 = l + 2
    BY <1>1
  <2> QED  BY <1>1, <2>1, <2>2 DEF Tiled
<1>8. InnersBuilt(its, nd2, e2, f2, l + 1, l + 1)
  BY <1>1 DEF InnersBuilt
<1>9. \A v \in 1 .. l + 1 : nd2[v].level = 0
  <2> TAKE v \in 1 .. l + 1
  <2>1. nd2[v] = LeafAt(its, Before(e2, v), e2[v])
    BY <1>6 DEF LeavesBuilt
  <2> QED  BY <2>1 DEF LeafAt
<1>10. ASSUME NEW u \in 1 .. l + 1, NEW v \in 1 .. l + 1, u < v PROVE e2[u] < e2[v]
  <2>1. CASE v \in 1 .. l
    <3>1. u \in 1 .. l /\ nd[u].level = nd[v].level
      BY <1>1, <1>10, <2>1, BuiltLevels
    <3>2. e[u] < e[v]
      BY <1>10, <2>1, <3>1 DEF Built, LevelsBuilt
    <3> QED  BY <1>1, <2>1, <3>1, <3>2
  <2>2. CASE v = l + 1
    <3>1. u \in 1 .. l /\ l \in 1 .. l
      BY <1>1, <1>10, <2>2
    <3>2. e[u] <= e[l]
      <4>1. CASE u = l
        BY <3>1, <4>1, BuiltFacts
      <4>2. CASE u < l
        <5>1. nd[u].level = nd[l].level
          BY <3>1, BuiltLevels
        <5>2. e[u] < e[l] /\ e[u] \in Int /\ e[l] \in Int
          BY <3>1, <4>2, <5>1, BuiltFacts DEF Built, LevelsBuilt
        <5> QED  BY <5>2
      <4> QED  BY <3>1, <4>1, <4>2
    <3>3. e2[u] = e[u] /\ e2[v] = e[l] + m /\ e[u] \in Int /\ e[l] \in Int
      BY <1>1, <1>2, <2>2, <3>1, BuiltFacts DEF b
    <3> QED  BY <3>2, <3>3
  <2> QED  BY <1>1, <2>1, <2>2
<1>11. LevelsBuilt(its, nd2, e2, l + 1)
  <2>1. \A u \in 1 .. (l + 1) - 1 : u \in 1 .. l + 1 /\ u + 1 \in 1 .. l + 1
    BY <1>1
  <2> QED  BY <1>9, <1>10, <2>1 DEF LevelsBuilt
<1>12. l + 1 \in Nat /\ l + 1 <= l + 1
  BY <1>1
<1> QED  BY <1>4, <1>5, <1>6, <1>7, <1>8, <1>11, <1>12, Zenon DEF Built

(* Node k + 1 is an inner node over the next m nodes without parent. *)
InnerAdded(its, nd, e, f, l, k, m, lev, nd2, e2, f2) ==
  LET c == f[k + 1]
  IN  /\ m \in 2 .. innerslotmax + 1 /\ c + m <= k + 1
      /\ \A v \in c .. c + m - 1 : nd[v].level + 1 = lev
      /\ nd[k].level = lev \/ (nd[k].level + 1 = lev /\ e[k] = Len(its))
      /\ nd2 = With(nd, k + 1, InnerAt(its, e, lev, c, c + m))
      /\ e2 = [v \in 1 .. k + 1 |-> IF v = k + 1 THEN e[c + m - 1] ELSE e[v]]
      /\ f2 = [v \in l + 1 .. k + 2 |-> IF v = k + 2 THEN c + m ELSE f[v]]

(* So does an inner node over the next orphans. *)
LEMMA GrowInner ==
  ASSUME NEW its, NEW nd, NEW e, NEW f, NEW l, NEW k, NEW m, NEW lev, NEW nd2, NEW e2, NEW f2,
         Built(its, nd, e, f, l, k), Len(its) \in Nat, lev \in Nat \ {0},
         InnerAdded(its, nd, e, f, l, k, m, lev, nd2, e2, f2)
  PROVE  Built(its, nd2, e2, f2, l, k + 1)
<1>0. PICK c : c = f[k + 1]
  OBVIOUS
<1>1. l \in Nat /\ k \in Nat /\ l <= k /\ DOMAIN nd = 1 .. k /\ innerslotmax \in Nat
  BY CapacityAssumption DEF Built
<1>2. c \in 1 .. k + 1 /\ c - 1 \in Nat /\ k >= 1 /\ c + m \in 1 .. k + 1 /\ m \in Nat /\ m >= 2
      /\ m <= innerslotmax + 1
  <2>1. \A v \in l + 1 .. k + 1 : f[v] \in 1 .. k + 1
    BY BuiltFacts
  <2>2. c \in 1 .. k + 1
    BY <1>0, <1>1, <2>1
  <2>3. m \in 2 .. innerslotmax + 1 /\ c + m <= k + 1
    BY <1>0 DEF InnerAdded
  <2> QED  BY <1>1, <2>2, <2>3
<1>91. nd2 = With(nd, k + 1, InnerAt(its, e, lev, c, c + m))
  BY <1>0 DEF InnerAdded
<1>92. e2 = [v \in 1 .. k + 1 |-> IF v = k + 1 THEN e[c + m - 1] ELSE e[v]]
  BY <1>0 DEF InnerAdded
<1>93. f2 = [v \in l + 1 .. k + 2 |-> IF v = k + 2 THEN c + m ELSE f[v]]
  BY <1>0 DEF InnerAdded
<1>94. \A v \in c .. c + m - 1 : nd[v].level + 1 = lev
  BY <1>0 DEF InnerAdded
<1>95. nd[k].level = lev \/ (nd[k].level + 1 = lev /\ e[k] = Len(its))
  BY DEF InnerAdded
<1>96. f2[k + 2] = c + m /\ (k + 1) + 1 = k + 2 /\ \A v \in l + 1 .. k + 1 : f2[v] = f[v]
  BY <1>1, <1>93
<1> HIDE <1>0
<1>3. /\ nd2 = [v \in 1 .. k + 1 |-> IF v = k + 1 THEN InnerAt(its, e, lev, c, c + m) ELSE nd[v]]
  BY <1>1, <1>91 DEF With
<1>4. nd2 = [v \in 1 .. k + 1 |-> nd2[v]]
  BY <1>3
<1>5. e2 \in [1 .. k + 1 -> 1 .. Len(its)]
  <2>1. c + m - 1 \in 1 .. k
    BY <1>1, <1>2
  <2>2. \A v \in 1 .. k : e[v] \in 1 .. Len(its)
    BY BuiltFacts
  <2>3. \A v \in 1 .. k + 1 : v = k + 1 \/ v \in 1 .. k
    BY <1>1
  <2> QED  BY <1>92, <2>1, <2>2, <2>3
<1>8. ASSUME NEW v \in 1 .. k PROVE nd2[v] = nd[v] /\ e2[v] = e[v]
  BY <1>1, <1>3, <1>92
<1>9. /\ nd2[k + 1] = InnerAt(its, e, lev, c, c + m) /\ nd2[k + 1].level = lev
      /\ e2[k + 1] = e[c + m - 1]
  <2>1. nd2[k + 1] = InnerAt(its, e, lev, c, c + m)
    BY <1>1, <1>3
  <2>2. InnerAt(its, e, lev, c, c + m).level = lev
    BY DEF InnerAt
  <2> QED  BY <1>1, <1>92, <2>1, <2>2
<1>6. LeavesBuilt(its, nd2, e2, l)
  <2> SUFFICES ASSUME NEW v \in 1 .. l
               PROVE  /\ Before(e2, v) < e2[v] /\ e2[v] - Before(e2, v) <= leafslotmax
                      /\ nd2[v] = LeafAt(its, Before(e2, v), e2[v])
    BY DEF LeavesBuilt
  <2>1. Before(e2, v) = Before(e, v) /\ e2[v] = e[v] /\ nd2[v] = nd[v]
    <3>1. v \in 1 .. k /\ (v # 1 => v - 1 \in 1 .. k)
      BY <1>1
    <3> QED  BY <1>8, <3>1 DEF Before
  <2> QED  BY <2>1 DEF Built, LeavesBuilt
<1>7. Tiled(f2, l, k + 1)
  <2>0. Tiled(f, l, k)
    BY DEF Built
  <2>1. f2 \in [l + 1 .. (k + 1) + 1 -> 1 .. (k + 1) + 1]
    <3>1. \A v \in l + 1 .. k + 1 : f[v] \in 1 .. k + 1
      BY BuiltFacts
    <3>2. \A v \in l + 1 .. k + 2 : v = k + 2 \/ v \in l + 1 .. k + 1
      BY <1>1
    <3>3. \A x \in 1 .. k + 1 : x \in 1 .. k + 2
      BY <1>1
    <3> QED  BY <1>2, <1>93, <1>96, <3>1, <3>2, <3>3
  <2>2. f2[l + 1] = 1
    <3>1. l + 1 \in l + 1 .. k + 1
      BY <1>1
    <3> QED  BY <1>96, <2>0, <3>1 DEF Tiled
  <2>3. ASSUME NEW v \in l + 1 .. k + 2, NEW w \in l + 1 .. k + 2, v < w
        PROVE  f2[v] < f2[w]
    <3>1. CASE w \in l + 1 .. k + 1
      <4>1. v \in l + 1 .. k + 1
        BY <1>1, <2>3, <3>1
      <4> QED  BY <1>96, <2>0, <2>3, <3>1, <4>1 DEF Tiled
    <3>2. CASE w = k + 2
      <4>1. v \in l + 1 .. k + 1 /\ k + 1 \in l + 1 .. k + 1
        BY <1>1, <2>3, <3>2
      <4>0. f[v] \in 1 .. k + 1
        BY <4>1, BuiltFacts
      <4>2. f[v] <= c
        <5>1. v = k + 1 \/ v < k + 1
          BY <1>1, <4>1
        <5>2. v < k + 1 => f[v] < f[k + 1]
          BY <2>0, <4>1 DEF Tiled
        <5> QED  BY <1>0, <1>2, <4>0, <5>1, <5>2
      <4>3. f2[v] = f[v] /\ f2[w] = c + m
        BY <1>96, <3>2, <4>1
      <4> QED  BY <1>1, <1>2, <4>0, <4>2, <4>3
    <3> QED  BY <1>1, <3>1, <3>2
  <2>4. ASSUME NEW x \in 1 .. c + m - 1 PROVE \E p \in l + 1 .. k + 1 : f2[p] <= x /\ x < f2[p + 1]
    <3>1. CASE x < c
      <4>1. PICK p \in l + 1 .. k : f[p] <= x /\ x < f[p + 1]
        <5>1. x \in 1 .. f[k + 1] - 1
          BY <1>0, <1>2, <3>1
        <5> QED  BY <2>0, <5>1 DEF Tiled
      <4>2. f2[p] = f[p] /\ f2[p + 1] = f[p + 1] /\ p \in l + 1 .. k + 1
        <5>1. p \in l + 1 .. k + 1 /\ p + 1 \in l + 1 .. k + 1
          BY <1>1
        <5> QED  BY <1>96, <5>1
      <4> QED  BY <4>1, <4>2
    <3>2. CASE c <= x
      <4>1. f2[k + 1] = c /\ f2[(k + 1) + 1] = c + m /\ k + 1 \in l + 1 .. k + 1
        <5>1. k + 1 \in l + 1 .. k + 1
          BY <1>1
        <5> QED  BY <1>0, <1>96, <5>1
      <4>2. c <= x /\ x < c + m
        BY <1>2, <3>2
      <4> QED  BY <4>1, <4>2
    <3> QED  BY <1>2, <3>1, <3>2
  <2>5. \A v, w \in l + 1 .. (k + 1) + 1 : v < w => f2[v] < f2[w]
    BY <1>96, <2>3
  <2>6. \A x \in 1 .. f2[(k + 1) + 1] - 1 : \E p \in l + 1 .. k + 1 : f2[p] <= x /\ x < f2[p + 1]
    <3>1. f2[(k + 1) + 1] = c + m
      BY <1>96
    <3> TAKE x \in 1 .. f2[(k + 1) + 1] - 1
    <3>2. x \in 1 .. c + m - 1
      <4>1. PICK y \in Int : y = f2[(k + 1) + 1] /\ y = c + m
        BY <1>2, <3>1
      <4>2. x \in 1 .. y - 1
        BY <4>1
      <4> QED  BY <1>1, <1>2, <4>1, <4>2
    <3> QED  BY <2>4, <3>2
  <2> QED  BY <2>1, <2>2, <2>5, <2>6, Zenon DEF Tiled
<1>10. ASSUME NEW first, NEW next, NEW x, first \in 1 .. k + 1, next \in 1 .. k + 1, first < next
       PROVE  InnerAt(its, e2, x, first, next) = InnerAt(its, e, x, first, next)
  <2>1. ASSUME NEW s \in 0 .. next - first - 2 PROVE e2[first + s] = e[first + s]
    <3>1. first + s \in 1 .. k
      BY <1>1, <1>10
    <3> QED  BY <1>8, <3>1
  <2>2. [s \in 0 .. next - first - 2 |-> its[e2[first + s]][1]] = [s \in 0 .. next - first - 2 |-> its[e[first + s]][1]]
    BY <2>1
  <2> QED  BY <2>2 DEF InnerAt
<1>11. InnersBuilt(its, nd2, e2, f2, l, k + 1)
  <2> SUFFICES ASSUME NEW v \in l + 1 .. k + 1
               PROVE  /\ f2[v] + 1 < f2[v + 1]
                      /\ f2[v + 1] - f2[v] <= innerslotmax + 1
                      /\ f2[v + 1] <= v
                      /\ nd2[v] = InnerAt(its, e2, nd2[v].level, f2[v], f2[v + 1])
                      /\ nd2[v].level \in Nat \ {0}
                      /\ \A x \in f2[v] .. f2[v + 1] - 1 : nd2[x].level + 1 = nd2[v].level
                      /\ e2[v] = e2[f2[v + 1] - 1]
    BY DEF InnersBuilt
  <2>1. CASE v \in l + 1 .. k
    <3>1. f2[v] = f[v] /\ f2[v + 1] = f[v + 1] /\ nd2[v] = nd[v] /\ e2[v] = e[v] /\ v + 1 \in l + 1 .. k + 1
          /\ v \in 1 .. k
      <4>1. v \in 1 .. k /\ v \in l + 1 .. k + 1 /\ v + 1 \in l + 1 .. k + 1
        BY <1>1, <2>1
      <4> QED  BY <1>8, <1>96, <4>1
    <3>2. f[v] \in 1 .. k + 1 /\ f[v + 1] \in 1 .. k + 1
      BY <2>1, <3>1, BuiltFacts
    <3>3. /\ f[v] + 1 < f[v + 1]
          /\ f[v + 1] - f[v] <= innerslotmax + 1
          /\ f[v + 1] <= v
          /\ nd[v] = InnerAt(its, e, nd[v].level, f[v], f[v + 1])
          /\ nd[v].level \in Nat \ {0}
          /\ \A x \in f[v] .. f[v + 1] - 1 : nd[x].level + 1 = nd[v].level
          /\ e[v] = e[f[v + 1] - 1]
      BY <2>1 DEF Built, InnersBuilt
    <3>4. \A x \in f[v] .. f[v + 1] - 1 : x \in 1 .. k
      <4>1. PICK a, b : a = f[v] /\ b = f[v + 1]
        OBVIOUS
      <4>2. a \in Nat /\ b \in Nat /\ 1 <= a /\ b <= v /\ v <= k /\ v \in Nat
        BY <1>1, <3>1, <3>2, <3>3, <4>1
      <4> QED  BY <1>1, <4>1, <4>2
    <3>5. \A x \in f[v] .. f[v + 1] - 1 : nd2[x].level + 1 = nd2[v].level
      BY <1>8, <3>1, <3>3, <3>4
    <3>6. f[v + 1] - 1 \in f[v] .. f[v + 1] - 1
      BY <3>2, <3>3
    <3>7. e2[v] = e2[f[v + 1] - 1]
      BY <1>8, <3>1, <3>3, <3>4, <3>6
    <3>8. nd2[v] = InnerAt(its, e2, nd2[v].level, f[v], f[v + 1])
      BY <1>10, <3>1, <3>2, <3>3
    <3> QED  BY <3>1, <3>3, <3>5, <3>7, <3>8
  <2>2. CASE v = k + 1
    <3>1. f2[v] = c /\ f2[v + 1] = c + m
      <4>1. k + 1 \in l + 1 .. k + 1
        BY <1>1
      <4> QED  BY <1>0, <1>96, <2>2, <4>1
    <3>2. \A x \in c .. c + m - 1 : x \in 1 .. k
      BY <1>1, <1>2
    <3>3. \A x \in c .. c + m - 1 : nd2[x].level + 1 = nd2[v].level
      <4> TAKE x \in c .. c + m - 1
      <4>1. x \in 1 .. k
        BY <3>2
      <4> QED  BY <1>8, <1>9, <1>94, <2>2, <4>1
    <3>4. e2[v] = e2[c + m - 1]
      BY <1>1, <1>2, <1>8, <1>9, <2>2, <3>2
    <3>5. c < c + m
      BY <1>2
    <3>6. nd2[v] = InnerAt(its, e2, nd2[v].level, c, c + m)
      BY <1>2, <1>9, <1>10, <2>2, <3>5
    <3>7. c + 1 < c + m /\ c + m - c <= innerslotmax + 1 /\ c + m <= v
      BY <1>1, <1>2, <2>2
    <3>8. nd2[v].level \in Nat \ {0}
      BY <1>9, <2>2
    <3>9. PICK x, y : x = f2[v] /\ y = f2[v + 1] /\ x = c /\ y = c + m
      BY <3>1
    <3>10. /\ x + 1 < y /\ y - x <= innerslotmax + 1 /\ y <= v
           /\ nd2[v] = InnerAt(its, e2, nd2[v].level, x, y)
           /\ \A z \in x .. y - 1 : nd2[z].level + 1 = nd2[v].level
           /\ e2[v] = e2[y - 1]
      <4>1. y = c + m /\ x = c /\ y - 1 = c + m - 1 /\ y \in Int
        BY <1>2, <3>9
      <4>2. c + 1 < y /\ y - c <= innerslotmax + 1 /\ y <= v
        BY <1>1, <1>2, <3>7, <4>1
      <4>3. \A z \in c .. y - 1 : nd2[z].level + 1 = nd2[v].level
        BY <3>3, <4>1
      <4>4. e2[v] = e2[y - 1] /\ nd2[v] = InnerAt(its, e2, nd2[v].level, c, y)
        BY <3>4, <3>6, <4>1
      <4> HIDE <3>9
      <4> QED  BY <4>1, <4>2, <4>3, <4>4
    <3> HIDE <3>1
    <3> QED  BY <3>8, <3>9, <3>10
  <2> QED  BY <1>1, <2>1, <2>2
<1>12. \A v \in 1 .. k : nd[v].level \in Nat /\ e[v] \in 1 .. Len(its)
  BY BuiltLevels, BuiltFacts
<1>13. nd[k].level <= lev /\ k \in 1 .. k /\ nd[k].level \in Nat
  BY <1>1, <1>2, <1>12, <1>95
<1>14. nd[k].level = lev => e[k] < e[c + m - 1]
  <2> SUFFICES ASSUME nd[k].level = lev PROVE e[k] < e[c + m - 1]
    OBVIOUS
  <2>1. k \in l + 1 .. k
    <3>1. k \notin 1 .. l
      BY BuiltLevels
    <3> QED  BY <1>1, <1>2, <3>1
  <2>2. e[k] = e[c - 1] /\ f[k] + 1 < c /\ \A x \in f[k] .. c - 1 : nd[x].level + 1 = nd[k].level
    BY <1>0, <2>1 DEF Built, InnersBuilt
  <2>3. f[k] \in 1 .. k + 1
    BY <1>1, <2>1, BuiltFacts
  <2>4. c - 1 \in f[k] .. c - 1 /\ c - 1 \in 1 .. k /\ c + m - 1 \in 1 .. k /\ c - 1 < c + m - 1
    BY <1>1, <1>2, <2>2, <2>3
  <2>5. nd[c - 1].level + 1 = lev /\ nd[c + m - 1].level + 1 = lev
    BY <1>2, <1>94, <2>2, <2>4
  <2>6. nd[c - 1].level = nd[c + m - 1].level
    BY <1>12, <2>4, <2>5
  <2>7. e[c - 1] < e[c + m - 1]
    BY <2>4, <2>6 DEF Built, LevelsBuilt
  <2> QED  BY <2>2, <2>7
<1>15. LevelsBuilt(its, nd2, e2, k + 1)
  <2>1. ASSUME NEW u \in 1 .. k + 1, NEW v \in 1 .. k + 1, u < v
        PROVE  nd2[u].level <= nd2[v].level /\ (nd2[u].level = nd2[v].level => e2[u] < e2[v])
    <3>1. u \in 1 .. k
      BY <1>1, <2>1
    <3>2. CASE v \in 1 .. k
      BY <1>8, <2>1, <3>1, <3>2 DEF Built, LevelsBuilt
    <3>3. CASE v = k + 1
      <4>1. nd[u].level <= nd[k].level /\ (nd[u].level = nd[k].level => e[u] <= e[k])
        <5>1. CASE u = k
          BY <1>12, <3>1, <5>1
        <5>2. CASE u # k
          <6>1. u < k /\ k \in 1 .. k
            BY <1>1, <3>1, <5>2
          <6>2. nd[u].level <= nd[k].level /\ (nd[u].level = nd[k].level => e[u] < e[k])
            BY <3>1, <6>1 DEF Built, LevelsBuilt
          <6> QED  BY <1>12, <3>1, <6>1, <6>2
        <5> QED  BY <5>1, <5>2
      <4>2. nd2[u].level = nd[u].level /\ e2[u] = e[u] /\ nd2[v].level = lev /\ e2[v] = e[c + m - 1]
        BY <1>8, <1>9, <3>1, <3>3
      <4>3. e[u] \in Int /\ e[k] \in Int /\ e[c + m - 1] \in Int /\ nd[u].level \in Nat
        BY <1>2, <1>12, <1>13, <3>1
      <4>4. nd[u].level <= lev
        BY <1>13, <4>1, <4>3
      <4>5. ASSUME nd[u].level = lev PROVE e[u] < e[c + m - 1]
        <5>1. nd[u].level = nd[k].level /\ nd[k].level = lev
          BY <1>13, <4>1, <4>3, <4>5
        <5> QED  BY <1>14, <4>1, <4>3, <5>1
      <4> QED  BY <4>2, <4>4, <4>5
    <3> QED  BY <1>1, <3>2, <3>3
  <2>2. ASSUME NEW u \in 1 .. (k + 1) - 1
        PROVE  nd2[u + 1].level = nd2[u].level \/ (nd2[u + 1].level = nd2[u].level + 1 /\ e2[u] = Len(its))
    <3>1. CASE u \in 1 .. k - 1
      <4>1. u \in 1 .. k /\ u + 1 \in 1 .. k
        BY <1>1, <3>1
      <4>2. nd[u + 1].level = nd[u].level \/ (nd[u + 1].level = nd[u].level + 1 /\ e[u] = Len(its))
        <5>1. LevelsBuilt(its, nd, e, k)
          BY DEF Built
        <5> QED  BY <3>1, <5>1, Zenon DEF LevelsBuilt
      <4> QED  BY <1>8, <4>1, <4>2
    <3>2. CASE u = k
      <4>1. nd2[u + 1].level = lev /\ nd2[u].level = nd[k].level /\ e2[u] = e[k]
        BY <1>8, <1>9, <1>13, <3>2
      <4> QED  BY <1>95, <4>1
    <3> QED  BY <1>1, <3>1, <3>2
  <2> QED  BY <2>1, <2>2 DEF LevelsBuilt
<1>16. l <= k + 1 /\ k + 1 \in Nat /\ l \in Nat
  BY <1>1
<1> QED  BY <1>4, <1>5, <1>6, <1>7, <1>11, <1>15, <1>16, Zenon DEF Built

-----------------------------------------------------------------------------
(* Steps of the construction, of the btree around the nodes.               *)

HasFields(t, nd, nl, pl, h, tl, root, st) ==
  t = [node |-> nd, nextleaf |-> nl, prevleaf |-> pl, headleaf |-> h, tailleaf |-> tl,
       root |-> root, stats |-> st]

LEMMA StoreFields ==
  ASSUME NEW t, NEW nd, NEW nl, NEW pl, NEW h, NEW tl, NEW root, NEW st,
         HasFields(t, nd, nl, pl, h, tl, root, st),
         NEW nd1, NEW nl1, NEW pl1, NEW st1
  PROVE  /\ HasFields([t EXCEPT !.node = nd1, !.nextleaf = nl1, !.prevleaf = pl1, !.stats = st1],
                      nd1, nl1, pl1, h, tl, root, st1)
         /\ HasFields([t EXCEPT !.node = nd1, !.stats = st1], nd1, nl, pl, h, tl, root, st1)
<1>0. t = [node |-> nd, nextleaf |-> nl, prevleaf |-> pl, headleaf |-> h, tailleaf |-> tl,
           root |-> root, stats |-> st]
  BY DEF HasFields
<1>1. PICK q, r : /\ q = [t EXCEPT !.node = nd1, !.nextleaf = nl1, !.prevleaf = pl1, !.stats = st1]
                  /\ r = [t EXCEPT !.node = nd1, !.stats = st1]
  OBVIOUS
<1>2. q = [node |-> nd1, nextleaf |-> nl1, prevleaf |-> pl1, headleaf |-> h, tailleaf |-> tl,
           root |-> root, stats |-> st1]
  BY <1>0, <1>1
<1>3. r = [node |-> nd1, nextleaf |-> nl, prevleaf |-> pl, headleaf |-> h, tailleaf |-> tl,
           root |-> root, stats |-> st1]
  BY <1>0, <1>1
<1> QED  BY <1>1, <1>2, <1>3 DEF HasFields

LEMMA LeafAllocated ==
  ASSUME NEW its, NEW nd, NEW l \in Nat, NEW root, NEW x, NEW t, DOMAIN nd = 1 .. l,
         t = StoreOf(its, nd, l, l, root)
  PROVE  /\ Fresh(t) = l + 1
         /\ Link(allocate_leaf(t, x), Fresh(t)) = StoreOf(its, With(nd, l + 1, x), l + 1, l + 1, root)
<1>1. DOMAIN t.node = 1 .. l /\ t.node = nd
  BY DEF StoreOf
<1>2. Fresh(t) = l + 1
  BY <1>1, NextAddress
<1>3. PICK a : a = allocate_leaf(t, x)
  OBVIOUS
<1>4. a = [node |-> With(nd, l + 1, x),
           nextleaf |-> With([v \in 1 .. l |-> IF v = l THEN NULL ELSE v + 1], l + 1, NULL),
           prevleaf |-> With([v \in 1 .. l |-> IF v = 1 THEN NULL ELSE v - 1], l + 1, NULL),
           headleaf |-> IF l = 0 THEN NULL ELSE 1,
           tailleaf |-> IF l = 0 THEN NULL ELSE l,
           root |-> root,
           stats |-> [itemcount |-> Len(its), leaves |-> l + 1, innernodes |-> 0]]
  <2>1. l - l = 0
    OBVIOUS
  <2>2. PICK st : st = [itemcount |-> Len(its), leaves |-> l, innernodes |-> 0]
    OBVIOUS
  <2>3. [st EXCEPT !.leaves = @ + 1] = [itemcount |-> Len(its), leaves |-> l + 1, innernodes |-> 0]
    BY <2>2
  <2>4. PICK nl, pl : /\ nl = [v \in 1 .. l |-> IF v = l THEN NULL ELSE v + 1]
                      /\ pl = [v \in 1 .. l |-> IF v = 1 THEN NULL ELSE v - 1]
    OBVIOUS
  <2>5. t = [node |-> nd, nextleaf |-> nl, prevleaf |-> pl,
             headleaf |-> IF l = 0 THEN NULL ELSE 1,
             tailleaf |-> IF l = 0 THEN NULL ELSE l,
             root |-> root, stats |-> st]
    BY <2>1, <2>2, <2>4 DEF StoreOf
  <2>6. PICK u, nd1, nl1, pl1 : /\ u = [st EXCEPT !.leaves = @ + 1]
                                /\ nd1 = With(nd, l + 1, x)
                                /\ nl1 = With(nl, l + 1, NULL)
                                /\ pl1 = With(pl, l + 1, NULL)
    OBVIOUS
  <2>7. a = [t EXCEPT !.node = nd1, !.nextleaf = nl1, !.prevleaf = pl1, !.stats = u]
    <3>1. u = [t.stats EXCEPT !.leaves = @ + 1] /\ nd1 = With(t.node, l + 1, x)
          /\ nl1 = With(t.nextleaf, l + 1, NULL) /\ pl1 = With(t.prevleaf, l + 1, NULL)
      BY <2>5, <2>6
    <3> QED  BY <1>2, <1>3, <3>1 DEF allocate_leaf
  <2>8. a = [node |-> nd1, nextleaf |-> nl1, prevleaf |-> pl1,
             headleaf |-> IF l = 0 THEN NULL ELSE 1,
             tailleaf |-> IF l = 0 THEN NULL ELSE l,
             root |-> root, stats |-> u]
    <3>1. HasFields(t, nd, nl, pl, IF l = 0 THEN NULL ELSE 1, IF l = 0 THEN NULL ELSE l, root, st)
      BY <2>5 DEF HasFields
    <3>2. HasFields(a, nd1, nl1, pl1, IF l = 0 THEN NULL ELSE 1, IF l = 0 THEN NULL ELSE l, root, u)
      BY <2>7, <3>1, StoreFields, Zenon
    <3> QED  BY <3>2 DEF HasFields
  <2> QED  BY <2>3, <2>4, <2>6, <2>8
<1>5. PICK next, prev : /\ next = With([v \in 1 .. l |-> IF v = l THEN NULL ELSE v + 1], l + 1, NULL)
                        /\ prev = With([v \in 1 .. l |-> IF v = 1 THEN NULL ELSE v - 1], l + 1, NULL)
  OBVIOUS
<1>6. /\ next = [v \in 1 .. l + 1 |-> IF v = l + 1 THEN NULL ELSE IF v = l THEN NULL ELSE v + 1]
      /\ prev = [v \in 1 .. l + 1 |-> IF v = l + 1 THEN NULL ELSE IF v = 1 THEN NULL ELSE v - 1]
  <2>1. 1 .. l \cup {l + 1} = 1 .. l + 1
    OBVIOUS
  <2>2. \A v \in 1 .. l + 1 : v # l + 1 => v \in 1 .. l
    OBVIOUS
  <2> QED  BY <1>5, <2>1, <2>2 DEF With
<1>7. CASE l = 0
  <2>1. AppendLeaf(a, l + 1) = [node |-> With(nd, l + 1, x), nextleaf |-> next, prevleaf |-> prev,
                                headleaf |-> l + 1, tailleaf |-> l + 1, root |-> root,
                                stats |-> [itemcount |-> Len(its), leaves |-> l + 1, innernodes |-> 0]]
    BY <1>4, <1>5, <1>7 DEF AppendLeaf
  <2>2. next = [v \in 1 .. l + 1 |-> IF v = l + 1 THEN NULL ELSE v + 1]
    BY <1>6, <1>7
  <2>3. prev = [v \in 1 .. l + 1 |-> IF v = 1 THEN NULL ELSE v - 1]
    BY <1>6, <1>7
  <2>4. l + 1 = 1 /\ l + 1 # 0 /\ (l + 1) - (l + 1) = 0
    BY <1>7
  <2> QED  BY <1>2, <1>3, <2>1, <2>2, <2>3, <2>4 DEF Link, StoreOf
<1>8. CASE l # 0
  <2>1. a.tailleaf = l /\ l # NULL
    BY <1>4, <1>8, NullAssumption
  <2>2. AppendLeaf(a, l + 1) = [node |-> With(nd, l + 1, x), nextleaf |-> [next EXCEPT ![l] = l + 1],
                                prevleaf |-> [prev EXCEPT ![l + 1] = l],
                                headleaf |-> 1, tailleaf |-> l + 1, root |-> root,
                                stats |-> [itemcount |-> Len(its), leaves |-> l + 1, innernodes |-> 0]]
    BY <1>4, <1>5, <1>8, <2>1 DEF AppendLeaf
  <2>3. [next EXCEPT ![l] = l + 1] = [v \in 1 .. l + 1 |-> IF v = l + 1 THEN NULL ELSE v + 1]
    <3>1. l \in 1 .. l + 1
      BY <1>8
    <3>2. DOMAIN next = 1 .. l + 1
      BY <1>6
    <3>3. \A v \in 1 .. l + 1 : [next EXCEPT ![l] = l + 1][v] = IF v = l + 1 THEN NULL ELSE v + 1
      BY <1>6, <3>1, <3>2
    <3> QED  BY <3>2, <3>3
  <2>4. [prev EXCEPT ![l + 1] = l] = [v \in 1 .. l + 1 |-> IF v = 1 THEN NULL ELSE v - 1]
    <3>1. l + 1 \in 1 .. l + 1 /\ l + 1 # 1 /\ (l + 1) - 1 = l
      BY <1>8
    <3>2. DOMAIN prev = 1 .. l + 1
      BY <1>6
    <3>3. \A v \in 1 .. l + 1 : [prev EXCEPT ![l + 1] = l][v] = IF v = 1 THEN NULL ELSE v - 1
      BY <1>6, <3>1, <3>2
    <3> QED  BY <3>2, <3>3
  <2>5. l + 1 # 0 /\ (l + 1) - (l + 1) = 0
    OBVIOUS
  <2> QED  BY <1>2, <1>3, <2>2, <2>3, <2>4, <2>5 DEF Link, StoreOf
<1> QED  BY <1>2, <1>7, <1>8

LEMMA InnerAllocated ==
  ASSUME NEW its, NEW nd, NEW l \in Nat, NEW k \in Nat, NEW root, NEW x, NEW t, DOMAIN nd = 1 .. k,
         t = StoreOf(its, nd, l, k, root)
  PROVE  /\ Fresh(t) = k + 1
         /\ allocate_inner(t, x) = StoreOf(its, With(nd, k + 1, x), l, k + 1, root)
<1>1. DOMAIN t.node = 1 .. k /\ t.node = nd
  BY DEF StoreOf
<1>2. Fresh(t) = k + 1
  BY <1>1, NextAddress
<1>3. (k - l) + 1 = (k + 1) - l
  OBVIOUS
<1>4. allocate_inner(t, x) = StoreOf(its, With(nd, k + 1, x), l, k + 1, root)
  <2>1. PICK st : st = [itemcount |-> Len(its), leaves |-> l, innernodes |-> k - l]
    OBVIOUS
  <2>2. [st EXCEPT !.innernodes = @ + 1]
        = [itemcount |-> Len(its), leaves |-> l, innernodes |-> (k + 1) - l]
    BY <1>3, <2>1
  <2>3. PICK nl, pl, h, tl : /\ nl = [v \in 1 .. l |-> IF v = l THEN NULL ELSE v + 1]
                             /\ pl = [v \in 1 .. l |-> IF v = 1 THEN NULL ELSE v - 1]
                             /\ h = IF l = 0 THEN NULL ELSE 1
                             /\ tl = IF l = 0 THEN NULL ELSE l
    OBVIOUS
  <2>4. t = [node |-> nd, nextleaf |-> nl, prevleaf |-> pl, headleaf |-> h, tailleaf |-> tl,
             root |-> root, stats |-> st]
    BY <2>1, <2>3 DEF StoreOf
  <2>5. PICK a, u, nd1 : /\ a = allocate_inner(t, x)
                         /\ u = [st EXCEPT !.innernodes = @ + 1]
                         /\ nd1 = With(nd, k + 1, x)
    OBVIOUS
  <2>6. a = [t EXCEPT !.node = nd1, !.stats = u]
    <3>1. u = [t.stats EXCEPT !.innernodes = @ + 1] /\ nd1 = With(t.node, k + 1, x)
      BY <2>4, <2>5
    <3> QED  BY <1>2, <2>5, <3>1 DEF allocate_inner
  <2>7. a = [node |-> nd1, nextleaf |-> nl, prevleaf |-> pl, headleaf |-> h,
             tailleaf |-> tl, root |-> root, stats |-> u]
    <3>1. HasFields(t, nd, nl, pl, h, tl, root, st)
      BY <2>4 DEF HasFields
    <3>2. HasFields(a, nd1, nl, pl, h, tl, root, u)
      BY <2>6, <3>1, StoreFields, Zenon
    <3> QED  BY <3>2 DEF HasFields
  <2> QED  BY <2>2, <2>3, <2>5, <2>7 DEF StoreOf
<1> QED  BY <1>2, <1>4

(* What a node is filled with. *)
LEMMA LeafFilled ==
  ASSUME NEW from \in Nat, NEW m \in Nat
  PROVE  LeafOf(from, m) = LeafAt(items, from, from + m)
<1>1. (from + m) - from = m
  OBVIOUS
<1>2. LeafOf(from, m).slotuse = m
  <2>1. Cardinality(0 .. m - 1) = m
    BY Places
  <2> QED  BY <2>1 DEF LeafOf, LeafNode, Size
<1>3. LeafOf(from, m) = [level |-> 0, slotuse |-> m,
                         slotkey |-> [s \in 0 .. m - 1 |-> items[from + s + 1][1]],
                         childid |-> <<>>,
                         slotdata |-> [s \in 0 .. m - 1 |-> items[from + s + 1][2]]]
  BY <1>2 DEF LeafOf, LeafNode
<1> QED  BY <1>1, <1>3 DEF LeafAt

LEMMA InnerFilled ==
  ASSUME NEW e, NEW c \in Nat, NEW m \in Nat \ {0}, NEW child, NEW maxkey,
         \A s \in 0 .. m - 1 : child[s] = c + s,
         \A s \in 0 .. m - 2 : maxkey[s] = items[e[c + s]][1]
  PROVE  InnerOf(m, child, maxkey) = InnerAt(items, e, level, c, c + m)
<1>1. (c + m) - c - 1 = m - 1 /\ (c + m) - c - 2 = m - 2
  OBVIOUS
<1>2. Cardinality(0 .. m - 2) = m - 1
  <2>1. m - 1 \in Nat /\ (m - 1) - 1 = m - 2
    OBVIOUS
  <2> QED  BY <2>1, Places
<1>3. [s \in 0 .. m - 2 |-> maxkey[s]] = [s \in 0 .. m - 2 |-> items[e[c + s]][1]]
  OBVIOUS
<1>4. [s \in 0 .. m - 1 |-> child[s]] = [s \in 0 .. m - 1 |-> c + s]
  OBVIOUS
<1>5. InnerOf(m, child, maxkey) = [level |-> level, slotuse |-> m - 1,
                                   slotkey |-> [s \in 0 .. m - 2 |-> items[e[c + s]][1]],
                                   childid |-> [s \in 0 .. m - 1 |-> c + s],
                                   slotdata |-> <<>>]
  BY <1>2, <1>3, <1>4 DEF InnerOf, InnerNode, Size
<1> QED  BY <1>1, <1>5 DEF InnerAt

-----------------------------------------------------------------------------
(* What the invariant says of the btree.                                   *)

IsStore(t, its, nd, l, k, root) ==
  l \in Nat /\ k \in Nat /\ l <= k /\ t = StoreOf(its, nd, l, k, root)

LEMMA StoreParts ==
  ASSUME NEW its, NEW nd, NEW l, NEW k, NEW root, NEW t, IsStore(t, its, nd, l, k, root)
  PROVE  /\ t.node = nd /\ t.root = root
         /\ t.stats.itemcount = Len(its) /\ t.stats.leaves = l
         /\ t.stats.innernodes = k - l /\ t.stats.leaves + t.stats.innernodes = k
<1>1. l \in Nat /\ k \in Nat /\ l + (k - l) = k
  BY DEF IsStore
<1>2. t = StoreOf(its, nd, l, k, root)
  BY DEF IsStore
<1> QED  BY <1>1, <1>2 DEF StoreOf

LEMMA StoreLeaves ==
  ASSUME NEW its, NEW nd, NEW l, NEW k, NEW root, NEW t, IsStore(t, its, nd, l, k, root)
  PROVE  /\ t.headleaf = (IF l = 0 THEN NULL ELSE 1)
         /\ t.tailleaf = (IF l = 0 THEN NULL ELSE l)
         /\ DOMAIN t.nextleaf = 1 .. l /\ DOMAIN t.prevleaf = 1 .. l
         /\ \A v \in 1 .. l : /\ t.nextleaf[v] = (IF v = l THEN NULL ELSE v + 1)
                             /\ t.prevleaf[v] = (IF v = 1 THEN NULL ELSE v - 1)
BY DEF IsStore, StoreOf

LEMMA NewRoot ==
  ASSUME NEW its, NEW nd, NEW l, NEW k, NEW root, NEW t, t = StoreOf(its, nd, l, k, root), NEW r
  PROVE  [t EXCEPT !.root = r] = StoreOf(its, nd, l, k, r)
<1>1. PICK nl, pl, h, tl, st :
        /\ nl = [v \in 1 .. l |-> IF v = l THEN NULL ELSE v + 1]
        /\ pl = [v \in 1 .. l |-> IF v = 1 THEN NULL ELSE v - 1]
        /\ h = IF l = 0 THEN NULL ELSE 1
        /\ tl = IF l = 0 THEN NULL ELSE l
        /\ st = [itemcount |-> Len(its), leaves |-> l, innernodes |-> k - l]
  OBVIOUS
<1>2. t = [node |-> nd, nextleaf |-> nl, prevleaf |-> pl, headleaf |-> h, tailleaf |-> tl,
           root |-> root, stats |-> st]
  BY <1>1 DEF StoreOf
<1>3. [t EXCEPT !.root = r] = [node |-> nd, nextleaf |-> nl, prevleaf |-> pl, headleaf |-> h,
                               tailleaf |-> tl, root |-> r, stats |-> st]
  BY <1>2
<1> QED  BY <1>1, <1>3 DEF StoreOf

LEMMA RangeFacts ==
  ASSUME items \in Ranges
  PROVE  /\ items \in Seq(Key \X Value) /\ Len(items) \in Nat
         /\ \A n \in 1 .. Len(items) : items[n] \in Key \X Value /\ items[n][1] \in Int
         /\ \A a, b \in 1 .. Len(items) : a <= b => items[a][1] <= items[b][1]
<1>1. items \in Seq(Key \X Value)
      /\ \A a, b \in 1 .. Len(items) : a < b => items[a][1] <= items[b][1]
  BY RangesAssumption
<1>2. \A n \in 1 .. Len(items) : items[n] \in Key \X Value
  BY <1>1
<1>3. \A n \in 1 .. Len(items) : items[n][1] \in Int
  BY <1>2, KeyAssumption
<1>4. \A a, b \in 1 .. Len(items) : a <= b => items[a][1] <= items[b][1]
  <2> TAKE a, b \in 1 .. Len(items)
  <2> HAVE a <= b
  <2>1. CASE a = b
    BY <1>3, <2>1
  <2>2. CASE a < b
    BY <1>1, <2>2
  <2> QED  BY <1>1, <2>1, <2>2
<1> QED  BY <1>1, <1>2, <1>3, <1>4

(* What every state of a load satisfies. *)
LEMMA InvFacts ==
  ASSUME NEW e, NEW f, LoadInv(e, f)
  PROVE  /\ items \in Ranges /\ Len(items) \in Nat
         /\ NumLeaves \in Nat /\ NumNodes \in Nat /\ NumLeaves <= NumNodes
         /\ btree = StoreOf(items, btree.node, NumLeaves, NumNodes, btree.root)
         /\ Built(items, btree.node, e, f, NumLeaves, NumNodes)
         /\ DOMAIN btree.node = 1 .. NumNodes
         /\ \A v \in 1 .. NumNodes : e[v] \in 1 .. Len(items)
         /\ \A v \in NumLeaves + 1 .. NumNodes + 1 : f[v] \in 1 .. NumNodes + 1
<1>1. items \in Ranges
  BY DEF LoadInv
<1>2. btree = StoreOf(items, btree.node, NumLeaves, NumNodes, btree.root)
      /\ Built(items, btree.node, e, f, NumLeaves, NumNodes)
  BY DEF LoadInv
<1>3. NumLeaves \in Nat /\ NumNodes \in Nat /\ NumLeaves <= NumNodes
  BY <1>2 DEF Built
<1>4. /\ DOMAIN btree.node = 1 .. NumNodes
      /\ \A v \in 1 .. NumNodes : e[v] \in 1 .. Len(items)
      /\ \A v \in NumLeaves + 1 .. NumNodes + 1 : f[v] \in 1 .. NumNodes + 1
  BY <1>2, BuiltFacts
<1> QED  BY <1>1, <1>2, <1>3, <1>4, RangeFacts

-----------------------------------------------------------------------------
(* The invariant is inductive: one lemma per action.                       *)

(* The invariant holds when bulk_load has computed the number of leaves, *)
LEMMA InitInv == Init => IInv
<1> SUFFICES ASSUME Init PROVE IInv
  OBVIOUS
<1>1. items \in Ranges /\ Len(items) \in Nat
  BY RangeFacts DEF Init
<1>2. PICK e, f : e = [v \in 1 .. 0 |-> v] /\ f = [v \in 1 .. 1 |-> 1]
  OBVIOUS
<1>3. btree = [node |-> <<>>, nextleaf |-> <<>>, prevleaf |-> <<>>,
               headleaf |-> NULL, tailleaf |-> NULL, root |-> NULL,
               stats |-> [itemcount |-> Len(items), leaves |-> 0, innernodes |-> 0]]
  <2>1. PICK t, st : t = EmptyTree /\ st = t.stats
    OBVIOUS
  <2>2. st = [itemcount |-> 0, leaves |-> 0, innernodes |-> 0]
    BY <2>1 DEF EmptyTree
  <2>3. [st EXCEPT !.itemcount = Len(items)]
        = [itemcount |-> Len(items), leaves |-> 0, innernodes |-> 0]
    BY <2>2
  <2>4. btree = [t EXCEPT !.stats = [st EXCEPT !.itemcount = Len(items)]]
    BY <2>1 DEF Init
  <2>5. PICK u : u = [st EXCEPT !.itemcount = Len(items)]
    OBVIOUS
  <2>6. btree = [t EXCEPT !.stats = u]
    BY <2>4, <2>5
  <2>7. btree = [node |-> <<>>, nextleaf |-> <<>>, prevleaf |-> <<>>,
                 headleaf |-> NULL, tailleaf |-> NULL, root |-> NULL, stats |-> u]
    BY <2>1, <2>6 DEF EmptyTree
  <2> QED  BY <2>3, <2>5, <2>7
<1>4. /\ btree.node = <<>> /\ btree.root = NULL /\ NumLeaves = 0 /\ NumNodes = 0
      /\ btree.stats = [itemcount |-> Len(items), leaves |-> 0, innernodes |-> 0]
  BY <1>3 DEF NumLeaves, NumNodes
<1>5. /\ <<>> = [v \in 1 .. 0 |-> IF v = 0 THEN NULL ELSE v + 1]
      /\ <<>> = [v \in 1 .. 0 |-> IF v = 1 THEN NULL ELSE v - 1]
      /\ btree.node = [v \in 1 .. 0 |-> btree.node[v]]
  BY <1>4
<1>6. btree = StoreOf(items, btree.node, NumLeaves, NumNodes, btree.root)
  BY <1>3, <1>4, <1>5 DEF StoreOf
<1>7. Built(items, btree.node, e, f, 0, 0)
  <2>1. LeavesBuilt(items, btree.node, e, 0) /\ InnersBuilt(items, btree.node, e, f, 0, 0)
    BY DEF LeavesBuilt, InnersBuilt
  <2>2. LevelsBuilt(items, btree.node, e, 0)
    BY DEF LevelsBuilt
  <2>3. Tiled(f, 0, 0)
    <3>1. f \in [0 + 1 .. 0 + 1 -> 1 .. 0 + 1] /\ f[0 + 1] = 1
      BY <1>2
    <3>2. \A v, w \in 0 + 1 .. 0 + 1 : ~(v < w)
      OBVIOUS
    <3> QED  BY <3>1, <3>2 DEF Tiled
  <2>4. e \in [1 .. 0 -> 1 .. Len(items)]
    BY <1>2
  <2>5. 0 \in Nat /\ 0 <= 0
    OBVIOUS
  <2> QED  BY <1>5, <2>1, <2>2, <2>3, <2>4, <2>5 DEF Built
<1>8. LeavesLoop(e)
  <2>1. PICK p \in Nat : /\ p = DivUp(Len(items), leafslotmax)
                         /\ p <= Len(items) /\ Len(items) <= p * leafslotmax
                         /\ p > 1 => p * (leafslotmax \div 2) <= Len(items)
    BY <1>1, LeafShares
  <2>2. num_leaves = p /\ num_items = Len(items) /\ i = 0 /\ it = 0
    BY <2>1 DEF Init
  <2>3. num_leaves - i = p /\ p * 1 = p
    BY <2>2
  <2>4. Shared(num_items, num_leaves - i, 1, leafslotmax)
    BY <2>1, <2>2, <2>3 DEF Shared
  <2>5. num_leaves > 1 => Shared(num_items, num_leaves - i, leafslotmax \div 2, leafslotmax)
    BY <2>1, <2>2, <2>3 DEF Shared
  <2>6. NoneUnderflows(btree.node, i)
    BY <2>2 DEF NoneUnderflows
  <2>7. Before(e, i + 1) = 0 /\ Len(items) - 0 = Len(items)
    BY <1>1, <2>2 DEF Before
  <2> QED  BY <1>4, <2>1, <2>2, <2>4, <2>5, <2>6, <2>7 DEF LeavesLoop, Init
<1> QED  BY <1>1, <1>4, <1>6, <1>7, <1>8 DEF IInv, LoadInv, Init

(* it is kept by the filling of a leaf, *)
LEMMA LeafInv ==
  ASSUME NEW e, NEW f, LoadInv(e, f), LoadLeaf
  PROVE  IInv'
<1>1. phase = "leaves" /\ i < num_leaves /\ LeavesLoop(e)
  BY DEF LoadLeaf, FillLeaf, LoadInv
<1>2. PICK n, l, p, left, from, m :
        /\ n = Len(items) /\ l = i /\ p = num_leaves - i /\ left = num_items /\ from = it
        /\ m = num_items \div (num_leaves - i)
  OBVIOUS
<1>3. /\ n \in Nat /\ l \in Nat /\ NumNodes = l /\ NumLeaves = l /\ num_leaves \in Nat
      /\ p \in Nat \ {0} /\ num_leaves = l + p
  <2>1. n \in Nat /\ NumNodes = l /\ NumLeaves = l /\ l \in Nat
    BY <1>1, <1>2, InvFacts DEF LeavesLoop
  <2>2. num_leaves \in Nat
    BY <1>1, <1>2, <2>1, LeafShares DEF LeavesLoop
  <2> QED  BY <1>1, <1>2, <2>1, <2>2
<1>4. from = Before(e, l + 1) /\ left = n - from /\ from \in Nat /\ left \in Nat
  <2>1. from = Before(e, l + 1) /\ left = n - from /\ Shared(left, p, 1, leafslotmax)
    BY <1>1, <1>2 DEF LeavesLoop
  <2>2. from \in Nat
    <3>1. CASE l = 0
      BY <2>1, <3>1 DEF Before
    <3>2. CASE l # 0
      <4>1. from = e[l] /\ l \in 1 .. NumNodes
        BY <1>3, <2>1, <3>2 DEF Before
      <4>2. e[l] \in 1 .. Len(items)
        BY <4>1, InvFacts
      <4> QED  BY <1>2, <1>3, <4>1, <4>2
    <3> QED  BY <3>1, <3>2
  <2>3. p * 1 <= left
    BY <2>1 DEF Shared
  <2> QED  BY <1>3, <2>1, <2>2, <2>3
<1>5. m \in 1 .. leafslotmax /\ Shared(left - m, p - 1, 1, leafslotmax) /\ m <= left
  <2>1. p * 1 <= left /\ left <= p * leafslotmax /\ leafslotmax \in Nat
    BY <1>1, <1>2, CapacityAssumption DEF LeavesLoop, Shared
  <2>2. m = left \div p
    BY <1>2
  <2>3. m \in 1 .. leafslotmax /\ (p - 1) * 1 <= left - m /\ left - m <= (p - 1) * leafslotmax
    BY <1>3, <1>4, <2>1, <2>2, Share
  <2> QED  BY <1>3, <1>4, <2>3 DEF Shared
<1>6. ASSUME num_leaves > 1
      PROVE  m >= leafslotmax \div 2 /\ Shared(left - m, p - 1, leafslotmax \div 2, leafslotmax)
  <2>1. PICK h \in Nat : h = leafslotmax \div 2
    BY CapacityAssumption, Quotient
  <2>2. p * h <= left /\ left <= p * leafslotmax /\ leafslotmax \in Nat
    BY <1>1, <1>2, <1>6, <2>1, CapacityAssumption DEF LeavesLoop, Shared
  <2>3. m = left \div p
    BY <1>2
  <2>4. m \in h .. leafslotmax /\ (p - 1) * h <= left - m /\ left - m <= (p - 1) * leafslotmax
    BY <1>3, <1>4, <2>2, <2>3, Share
  <2> QED  BY <2>1, <2>4 DEF Shared
<1>7. PICK e2, f2, nd2 :
        /\ e2 = [v \in 1 .. l + 1 |-> IF v = l + 1 THEN from + m ELSE e[v]]
        /\ f2 = [v \in l + 2 .. l + 2 |-> 1]
        /\ nd2 = With(btree.node, l + 1, LeafAt(items, from, from + m))
  OBVIOUS
<1>8. Built(items, nd2, e2, f2, l + 1, l + 1)
  <2>1. Built(items, btree.node, e, f, l, l)
    BY <1>3, InvFacts
  <2>2. Before(e, l + 1) + m <= Len(items) /\ Len(items) \in Nat
    <3>1. Len(items) = n
      BY <1>2, Zenon
    <3>2. m \in Nat /\ m <= left
      BY <1>5
    <3>3. from + m <= n
      BY <1>3, <1>4, <3>2
    <3> QED  BY <1>3, <1>4, <3>1, <3>3
  <2> QED  BY <1>4, <1>5, <1>7, <2>1, <2>2, GrowLeaf
<1>9. btree' = StoreOf(items, nd2, l + 1, l + 1, NULL)
  <2>1. LeafOf(from, m) = LeafAt(items, from, from + m)
    BY <1>4, <1>5, LeafFilled
  <2>2. btree = StoreOf(items, btree.node, l, l, NULL)
    BY <1>1, <1>3, InvFacts DEF LeavesLoop
  <2>3. DOMAIN btree.node = 1 .. l
    BY <1>3, InvFacts
  <2>4. btree' = Link(allocate_leaf(btree, LeafOf(from, m)), Fresh(btree))
    BY <1>2 DEF LoadLeaf, FillLeaf
  <2> QED  BY <1>3, <1>7, <2>1, <2>2, <2>3, <2>4, LeafAllocated
<1>10. btree'.node = nd2 /\ btree'.root = NULL /\ NumLeaves' = l + 1 /\ NumNodes' = l + 1
  <2>1. l + 1 \in Nat /\ l + 1 <= l + 1
    BY <1>3
  <2>2. PICK t : t = btree'
    OBVIOUS
  <2>3. IsStore(t, items, nd2, l + 1, l + 1, NULL)
    BY <1>9, <2>1, <2>2 DEF IsStore
  <2>4. t.node = nd2 /\ t.root = NULL /\ t.stats.leaves = l + 1
        /\ t.stats.leaves + t.stats.innernodes = l + 1
    BY <2>3, StoreParts
  <2> QED  BY <2>2, <2>4 DEF NumLeaves, NumNodes
<1>11. /\ it' = from + m /\ num_items' = left - m /\ i' = l + 1
       /\ UNCHANGED <<items, phase, level, num_leaves, leaf, num_parents, num_children, inner_index>>
  BY <1>2 DEF LoadLeaf, FillLeaf, above
<1>12. Before(e2, l + 2) = from + m
  BY <1>3, <1>7 DEF Before
<1>13. ASSUME num_leaves > 1 PROVE NoneUnderflows(nd2, l + 1)
  <2> SUFFICES ASSUME NEW v \in 1 .. l + 1 PROVE ~isunderflow(nd2[v])
    BY DEF NoneUnderflows
  <2>1. CASE v = l + 1
    <3>1. nd2[v] = LeafAt(items, from, from + m)
      BY <1>7, <2>1 DEF With
    <3>2. nd2[v].level = 0 /\ nd2[v].slotuse = m
      BY <1>4, <1>5, <3>1 DEF LeafAt
    <3>3. m >= leafslotmax \div 2 /\ leafslotmax \div 2 \in Nat
      BY <1>6, <1>13, CapacityAssumption
    <3> QED  BY <1>5, <3>2, <3>3 DEF isunderflow, isleafnode
  <2>2. CASE v # l + 1
    <3>1. v \in 1 .. l /\ v \in DOMAIN btree.node
      BY <1>3, <2>2, InvFacts
    <3>2. nd2[v] = btree.node[v]
      BY <1>7, <2>2, <3>1 DEF With
    <3>3. NoneUnderflows(btree.node, l)
      BY <1>1, <1>2, <1>13 DEF LeavesLoop
    <3> QED  BY <3>1, <3>2, <3>3 DEF NoneUnderflows
  <2> QED  BY <2>1, <2>2
<1>14. LeavesLoop(e2)'
  <2>1. num_leaves - (l + 1) = p - 1 /\ l + 1 <= num_leaves /\ (l + 1) + 1 = l + 2
    BY <1>3
  <2>2. left - m = n - (from + m)
    BY <1>3, <1>4, <1>5
  <2>3. /\ level = 0 /\ leaf = NULL /\ num_parents = 0 /\ num_children = 0 /\ inner_index = 0
        /\ num_leaves = DivUp(Len(items), leafslotmax)
    BY <1>1 DEF LeavesLoop
  <2> QED  BY <1>2, <1>5, <1>6, <1>10, <1>11, <1>12, <1>13, <2>1, <2>2, <2>3 DEF LeavesLoop
<1> QED
  <2>1. items' \in Ranges /\ phase' = "leaves"
    BY <1>1, <1>11, InvFacts
  <2>2. btree' = StoreOf(items', btree'.node, NumLeaves', NumNodes', btree'.root)
    BY <1>9, <1>10, <1>11
  <2>3. Built(items', btree'.node, e2, f2, NumLeaves', NumNodes')
    BY <1>8, <1>10, <1>11
  <2>4. LoadInv(e2, f2)'
    BY <1>14, <2>1, <2>2, <2>3 DEF LoadInv
  <2> QED  BY <2>4 DEF IInv

(* by the end of the leaves, *)
LEMMA EndLeavesInv ==
  ASSUME NEW e, NEW f, LoadInv(e, f), EndLeaves
  PROVE  IInv'
<1>1. phase = "leaves" /\ ~(i < num_leaves) /\ LeavesLoop(e)
  BY DEF EndLeaves, LoadInv
<1>2. PICK n, l : n = Len(items) /\ l = i
  OBVIOUS
<1>3. /\ n \in Nat /\ l \in Nat /\ NumNodes = l /\ NumLeaves = l /\ num_leaves = l
  <2>1. n \in Nat /\ NumNodes = l /\ NumLeaves = l /\ l \in Nat /\ l <= num_leaves
    BY <1>1, <1>2, InvFacts DEF LeavesLoop
  <2>2. num_leaves \in Nat
    BY <1>1, <1>2, <2>1, LeafShares DEF LeavesLoop
  <2> QED  BY <1>1, <1>2, <2>1, <2>2
<1>4. num_items = 0 /\ it = n /\ n = Before(e, l + 1)
  <2>1. it = Before(e, l + 1) /\ num_items = n - it /\ Shared(num_items, 0, 1, leafslotmax)
    <3>1. num_leaves - i = 0
      BY <1>2, <1>3
    <3> QED  BY <1>1, <1>2, <3>1 DEF LeavesLoop
  <2>2. it \in Int
    <3>1. CASE l = 0
      BY <2>1, <3>1 DEF Before
    <3>2. CASE l # 0
      <4>1. it = e[l] /\ l \in 1 .. NumNodes
        BY <1>3, <2>1, <3>2 DEF Before
      <4>2. e[l] \in 1 .. Len(items)
        BY <4>1, InvFacts
      <4> QED  BY <1>2, <1>3, <4>1, <4>2
    <3> QED  BY <3>1, <3>2
  <2>3. num_items \in Int /\ 0 * 1 <= num_items /\ num_items <= 0 * leafslotmax /\ leafslotmax \in Nat
    BY <1>3, <2>1, <2>2, CapacityAssumption DEF Shared
  <2> QED  BY <1>3, <2>1, <2>2, <2>3
<1>5. /\ btree = StoreOf(items, btree.node, l, l, NULL)
      /\ Built(items, btree.node, e, f, l, l)
      /\ btree.root = NULL
  BY <1>1, <1>3, InvFacts DEF LeavesLoop
<1>6. /\ btree.headleaf = IF l = 0 THEN NULL ELSE 1
      /\ btree.tailleaf = IF l = 0 THEN NULL ELSE l
  <2>1. IsStore(btree, items, btree.node, l, l, NULL)
    BY <1>3, <1>5 DEF IsStore
  <2> QED  BY <2>1, StoreLeaves
<1>7. n = 0 <=> l = 0
  BY <1>1, <1>2, <1>3, LeafShares DEF LeavesLoop
<1>8. f[l + 1] = 1
  BY <1>5 DEF Built, Tiled
<1>9. l # 0 => e[l] = n
  <2>1. l # 0 => l + 1 # 1 /\ (l + 1) - 1 = l
    BY <1>3
  <2> QED  BY <1>4, <2>1 DEF Before
<1>10. UNCHANGED <<items, it, num_items, num_leaves, num_children, inner_index>>
  BY DEF EndLeaves, copying
<1>11. CASE l = 0 \/ l = 1
  <2>1. btree.headleaf = btree.tailleaf
    BY <1>6, <1>11
  <2>2. btree' = [btree EXCEPT !.root = btree.headleaf] /\ phase' = "done"
        /\ UNCHANGED <<level, i, leaf, num_parents, nextlevel>>
    BY <2>1 DEF EndLeaves
  <2>3. btree' = StoreOf(items, btree.node, l, l, IF l = 0 THEN NULL ELSE 1)
    BY <1>5, <1>6, <2>2, NewRoot
  <2>4. /\ btree'.node = btree.node /\ NumLeaves' = l /\ NumNodes' = l
        /\ btree'.root = IF l = 0 THEN NULL ELSE 1
    <3>1. PICK t, r : t = btree' /\ r = IF l = 0 THEN NULL ELSE 1
      OBVIOUS
    <3>2. IsStore(t, items, btree.node, l, l, r)
      BY <1>3, <2>3, <3>1 DEF IsStore
    <3>4. t.node = btree.node /\ t.root = r /\ t.stats.leaves = l
          /\ t.stats.leaves + t.stats.innernodes = l
      BY <3>2, StoreParts
    <3> QED  BY <3>1, <3>4 DEF NumLeaves, NumNodes
  <2>5. LoadDone(e, f)'
    <3>1. /\ level = 0 /\ leaf = NULL /\ num_parents = 0 /\ num_children = 0 /\ inner_index = 0
      BY <1>1 DEF LeavesLoop
    <3>2. NoneUnderflows(btree.node, l - 1)
      <4>1. \A v \in 1 .. l - 1 : FALSE
        BY <1>11
      <4> QED  BY <4>1 DEF NoneUnderflows
    <3>3. items = <<>> <=> l = 0
      <4>1. items = <<>> <=> n = 0
        BY <1>2, RangeFacts, InvFacts
      <4> QED  BY <1>7, <4>1
    <3>4. l = 1 => e[l] = n /\ f[l + 1] = l
      BY <1>8, <1>9
    <3>5. {level, i, num_parents, num_children, inner_index} \subseteq Nat
      BY <1>2, <1>3, <3>1
    <3>6. num_leaves' \in Nat /\ num_items' = 0 /\ it' = Len(items') /\ leaf' = NULL
          /\ {level', i', num_parents', num_children', inner_index'} \subseteq Nat
      BY <1>2, <1>3, <1>4, <1>10, <2>2, <3>1, <3>5
    <3>7. ASSUME items = <<>> PROVE NumNodes' = 0 /\ btree'.root = NULL
      BY <2>4, <3>3, <3>7
    <3>8. ASSUME items # <<>>
          PROVE  /\ NumNodes' > 0 /\ NumLeaves' >= 1 /\ btree'.root = NumNodes'
                 /\ f[NumNodes' + 1] = NumNodes' /\ e[NumNodes'] = Len(items')
                 /\ NoneUnderflows(btree'.node, NumNodes' - 1)
      <4>1. l = 1
        BY <1>11, <3>3, <3>8
      <4> QED  BY <1>2, <1>10, <2>4, <3>2, <3>4, <4>1
    <3> QED  BY <1>10, <3>6, <3>7, <3>8 DEF LoadDone
  <2> QED
    <3>1. items' \in Ranges
      BY <1>10, InvFacts
    <3>2. btree' = StoreOf(items', btree'.node, NumLeaves', NumNodes', btree'.root)
      BY <2>3, <2>4, <1>10
    <3>3. Built(items', btree'.node, e, f, NumLeaves', NumNodes')
      BY <1>5, <1>10, <2>4
    <3>4. LoadInv(e, f)'
      BY <2>2, <2>5, <3>1, <3>2, <3>3 DEF LoadInv
    <3> QED  BY <3>4 DEF IInv
<1>12. CASE l >= 2
  <2>1. btree.headleaf # btree.tailleaf
    BY <1>3, <1>6, <1>12
  <2>2. PICK np : np = NumParents(l)
    OBVIOUS
  <2>3. /\ num_parents' = np /\ nextlevel' = [s \in 0 .. np - 1 |-> NULL]
        /\ leaf' = btree.headleaf /\ level' = 1 /\ i' = 0 /\ phase' = "parents" /\ btree' = btree
    BY <1>3, <2>1, <2>2 DEF EndLeaves
  <2>4. /\ np \in Nat \ {0} /\ np * 2 <= l /\ l <= np * (innerslotmax + 1)
        /\ np > 1 => np * (innerslotmax \div 2 + 1) <= l
    BY <1>3, <1>12, <2>2, InnerShares
  <2>5. NumNodes' = l /\ NumLeaves' = l
    BY <1>3, <2>3 DEF NumLeaves, NumNodes
  <2>6. NoneUnderflows(btree.node, l)
    BY <1>1, <1>2, <1>3, <1>12 DEF LeavesLoop
  <2>7. \A v \in 1 .. l : btree.node[v].level = 0
    BY <1>5, BuiltLevels
  <2>8. Left' = l /\ np - 0 = np /\ l - 0 = l /\ 1 - 1 = 0 /\ l - l + 1 = 1
    BY <1>3, <1>10, <2>3, <2>4 DEF Left
  <2>9. /\ Shared(l, np, 2, innerslotmax + 1)
        /\ np > 1 => Shared(l, np, innerslotmax \div 2 + 1, innerslotmax + 1)
    BY <2>4 DEF Shared
  <2>10. num_children = 0 /\ inner_index = 0
    BY <1>1 DEF LeavesLoop
  <2>11. LevelLoop(e, f)'
    <3>1. /\ num_leaves' \in Nat /\ num_items' = 0 /\ it' = Len(items')
          /\ num_children' \in Nat /\ inner_index' \in Nat /\ btree'.root = NULL
      BY <1>2, <1>3, <1>4, <1>5, <1>10, <2>3, <2>10
    <3>2. num_parents' \in Nat \ {0} /\ i' \in 0 .. num_parents' /\ NumLeaves' <= l
          /\ level' \in Nat \ {0} /\ NumLeaves' >= 1
      BY <1>3, <1>12, <2>3, <2>4, <2>5
    <3>3. e[l] = Len(items') /\ l \in Nat /\ f[NumNodes' + 1] = l - l + 1
      BY <1>2, <1>3, <1>8, <1>9, <1>10, <1>12, <2>5
    <3>4. /\ btree'.node[l].level = level' - 1
          /\ \A v \in l - l + 1 .. l : btree'.node[v].level = level' - 1
          /\ \A v \in l + 1 .. NumNodes' : btree'.node[v].level = level'
      BY <1>3, <1>12, <2>3, <2>5, <2>7
    <3>5. 0 .. num_parents' - 1 \subseteq DOMAIN nextlevel'
          /\ inner_index' .. inner_index' + num_children' - 1 \subseteq DOMAIN nextlevel'
      BY <1>10, <2>3, <2>4, <2>10
    <3>6. \A j \in 0 .. i' - 1 : FALSE
      BY <2>3
    <3>7. NumNodes' - i' = l /\ num_parents' - i' = np /\ num_parents' = np
      BY <1>3, <2>3, <2>4, <2>5
    <3>8. NoneUnderflows(btree'.node, l) /\ NoneUnderflows(btree'.node, NumNodes')
      BY <2>3, <2>5, <2>6
    <3> QED  BY <2>8, <2>9, <3>1, <3>2, <3>3, <3>4, <3>5, <3>6, <3>7, <3>8 DEF LevelLoop
  <2>12. ParentsLoop(e, f)'
    <3>1. leaf' = 1 /\ f[NumNodes' + 1] = 1 /\ num_leaves' # 0
      BY <1>3, <1>6, <1>8, <1>10, <1>12, <2>3, <2>5
    <3>2. NumNodes' - i' = NumLeaves'
      BY <1>3, <2>3, <2>5
    <3> QED  BY <1>10, <2>3, <2>10, <2>11, <3>1, <3>2 DEF ParentsLoop
  <2> QED
    <3>1. items' \in Ranges
      BY <1>10, InvFacts
    <3>2. btree' = StoreOf(items', btree'.node, NumLeaves', NumNodes', btree'.root)
      BY <1>5, <1>10, <2>3, <2>5
    <3>3. Built(items', btree'.node, e, f, NumLeaves', NumNodes')
      BY <1>5, <1>10, <2>3, <2>5
    <3>4. LoadInv(e, f)'
      BY <2>3, <2>12, <3>1, <3>2, <3>3 DEF LoadInv
    <3> QED  BY <3>4 DEF IInv
<1> QED  BY <1>3, <1>11, <1>12

(* The next inner node and its children. *)
LEMMA LevelFacts ==
  ASSUME NEW e, NEW f, LoadInv(e, f), LevelLoop(e, f), i < num_parents,
         NEW m, m = Left \div (num_parents - i),
         NEW k, k = NumNodes, NEW last, last = k - i, NEW c, c = f[k + 1], NEW left, left = Left
  PROVE  /\ k \in Nat /\ last \in 1 .. k /\ c \in 1 .. k + 1 /\ left \in Nat
         /\ i \in Nat /\ num_parents \in Nat \ {0}
         /\ c = last - left + 1
         /\ m \in 2 .. innerslotmax + 1 /\ m <= left /\ c + m - 1 <= last
         /\ Shared(left - m, num_parents - i - 1, 2, innerslotmax + 1)
         /\ num_parents > 1 => /\ m >= innerslotmax \div 2 + 1
                               /\ Shared(left - m, num_parents - i - 1,
                                         innerslotmax \div 2 + 1, innerslotmax + 1)
<1>1. k \in Nat /\ NumLeaves \in Nat /\ NumLeaves <= k
  BY InvFacts
<1>2. i \in Nat /\ num_parents \in Nat \ {0} /\ left \in Nat /\ NumLeaves >= 1 /\ NumLeaves <= last
      /\ c = last - left + 1
  BY DEF LevelLoop
<1>3. last \in 1 .. k
  BY <1>1, <1>2
<1>4. c \in 1 .. k + 1
  <2>1. \A v \in NumLeaves + 1 .. k + 1 : f[v] \in 1 .. k + 1
    BY InvFacts
  <2> QED  BY <1>1, <2>1
<1>5. PICK p \in Nat \ {0} : p = num_parents - i /\ p - 1 = num_parents - i - 1
  BY <1>2
<1>6. PICK d \in Nat : d = innerslotmax + 1
  BY CapacityAssumption
<1>7. m \in 2 .. d /\ (p - 1) * 2 <= left - m /\ left - m <= (p - 1) * d
  <2>1. p * 2 <= left /\ left <= p * d
    BY <1>5, <1>6 DEF LevelLoop, Shared
  <2>2. m = left \div p
    BY <1>5
  <2>3. left \in Nat /\ p \in Nat \ {0} /\ d \in Nat /\ 2 \in Nat
    BY <1>2
  <2> QED  BY ONLY <2>1, <2>2, <2>3, Share
<1>8. ASSUME num_parents > 1
      PROVE  /\ m >= innerslotmax \div 2 + 1
             /\ Shared(left - m, num_parents - i - 1, innerslotmax \div 2 + 1, innerslotmax + 1)
  <2>1. PICK h \in Nat : h = innerslotmax \div 2 + 1
    BY CapacityAssumption, Quotient
  <2>2. p * h <= left /\ left <= p * d
    BY <1>5, <1>6, <1>8, <2>1 DEF LevelLoop, Shared
  <2>3. m = left \div p
    BY <1>5
  <2>4. m \in h .. d /\ (p - 1) * h <= left - m /\ left - m <= (p - 1) * d
    <3>1. left \in Nat /\ p \in Nat \ {0} /\ d \in Nat /\ h \in Nat
      BY <1>2
    <3> QED  BY ONLY <2>2, <2>3, <3>1, Share
  <2> QED  BY <1>5, <1>6, <2>1, <2>4 DEF Shared
<1>9. m <= left
  BY <1>2, <1>7
<1>10. c + m - 1 <= last
  BY <1>1, <1>2, <1>3, <1>7, <1>9
<1> QED  BY <1>1, <1>2, <1>3, <1>4, <1>5, <1>6, <1>7, <1>8, <1>9, <1>10 DEF Shared

(* The step that adds it, as both loops over inner nodes take it. *)
NodeAdded(e, f, m) ==
  LET c == f[NumNodes + 1]
  IN  /\ i < num_parents
      /\ m = Left \div (num_parents - i)
      /\ btree' = allocate_inner(btree, InnerAt(items, e, level, c, c + m))
      /\ nextlevel' = [nextlevel EXCEPT ![i] = Entry(Fresh(btree), items[e[c + m - 1]][1])]
      /\ i' = i + 1
      /\ Left' = Left - m
      /\ num_leaves' \in Nat /\ num_children' \in Nat /\ inner_index' \in Nat
      /\ inner_index' .. inner_index' + num_children' - 1
           \subseteq inner_index .. inner_index + num_children - 1
      /\ UNCHANGED <<items, level, it, num_items, num_parents>>

(* The next node of a level takes its share of the orphans below it. *)
LEMMA LevelStep ==
  ASSUME NEW e, NEW f, LoadInv(e, f), LevelLoop(e, f), NEW m, NodeAdded(e, f, m),
         NEW k, k = NumNodes, NEW c, c = f[k + 1],
         NEW e2, e2 = [v \in 1 .. k + 1 |-> IF v = k + 1 THEN e[c + m - 1] ELSE e[v]],
         NEW f2, f2 = [v \in NumLeaves + 1 .. k + 2 |-> IF v = k + 2 THEN c + m ELSE f[v]]
  PROVE  /\ items' \in Ranges
         /\ btree' = StoreOf(items', btree'.node, NumLeaves', NumNodes', btree'.root)
         /\ Built(items', btree'.node, e2, f2, NumLeaves', NumNodes')
         /\ NumLeaves' = NumLeaves /\ NumNodes' = k + 1
         /\ LevelLoop(e2, f2)'
<1>1. PICK l, last, left, p, np :
        l = NumLeaves /\ last = k - i /\ left = Left /\ p = i /\ np = num_parents
  OBVIOUS
<1>2. /\ k \in Nat /\ last \in 1 .. k /\ c \in 1 .. k + 1 /\ left \in Nat
      /\ p \in Nat /\ np \in Nat \ {0} /\ p < np
      /\ c = last - left + 1
      /\ m \in 2 .. innerslotmax + 1 /\ m <= left /\ c + m - 1 <= last
      /\ Shared(left - m, np - p - 1, 2, innerslotmax + 1)
      /\ np > 1 => /\ m >= innerslotmax \div 2 + 1
                   /\ Shared(left - m, np - p - 1, innerslotmax \div 2 + 1, innerslotmax + 1)
  <2>1. i < num_parents /\ m = Left \div (num_parents - i)
    BY DEF NodeAdded
  <2>2. last = k - i /\ left = Left /\ p = i /\ np = num_parents
    BY <1>1
  <2> QED  BY <2>1, <2>2, LevelFacts
<1>3. l \in Nat /\ l <= k /\ innerslotmax \in Nat /\ l <= last /\ l >= 1 /\ level \in Nat \ {0}
  <2>1. l \in Nat /\ l <= k /\ innerslotmax \in Nat
    BY <1>1, InvFacts, CapacityAssumption
  <2>2. l <= last /\ l >= 1 /\ level \in Nat \ {0}
    BY <1>1 DEF LevelLoop
  <2> QED  BY <2>1, <2>2
<1>4. PICK nd, nd2, x : /\ nd = btree.node /\ x = InnerAt(items, e, level, c, c + m)
                        /\ nd2 = With(nd, k + 1, x)
  OBVIOUS
<1>5. DOMAIN nd = 1 .. k
  BY <1>4, InvFacts
<1>6. Fresh(btree) = k + 1 /\ btree' = StoreOf(items, nd2, l, k + 1, NULL)
  <2>1. btree = StoreOf(items, nd, l, k, NULL)
    <3>1. btree.root = NULL
      BY DEF LevelLoop
    <3> QED  BY <1>1, <1>4, <3>1, InvFacts
  <2>2. btree' = allocate_inner(btree, x)
    BY <1>4 DEF NodeAdded
  <2> QED  BY <1>2, <1>3, <1>4, <1>5, <2>1, <2>2, InnerAllocated
<1>7. btree'.node = nd2 /\ btree'.root = NULL /\ NumLeaves' = l /\ NumNodes' = k + 1
  <2>1. PICK t : t = btree'
    OBVIOUS
  <2>2. IsStore(t, items, nd2, l, k + 1, NULL)
    BY <1>2, <1>3, <1>6, <2>1 DEF IsStore
  <2>3. t.node = nd2 /\ t.root = NULL /\ t.stats.leaves = l
        /\ t.stats.leaves + t.stats.innernodes = k + 1
    BY <2>2, StoreParts
  <2> QED  BY <2>1, <2>3 DEF NumLeaves, NumNodes
<1>8. /\ items' = items /\ level' = level /\ it' = it /\ num_items' = num_items
      /\ num_parents' = np /\ i' = p + 1 /\ Left' = left - m
      /\ nextlevel' = [nextlevel EXCEPT ![p] = Entry(k + 1, items[e[c + m - 1]][1])]
  BY <1>1, <1>6 DEF NodeAdded
<1>9. /\ \A v \in c .. last : nd[v].level = level - 1
      /\ \A v \in last + 1 .. k : nd[v].level = level
      /\ nd[last].level = level - 1 /\ e[last] = Len(items)
  <2>1. \A v \in last - left + 1 .. last : nd[v].level = level - 1
    BY <1>1, <1>4 DEF LevelLoop
  <2>2. \A v \in last + 1 .. k : nd[v].level = level
    BY <1>1, <1>4 DEF LevelLoop
  <2>3. nd[last].level = level - 1 /\ e[last] = Len(items)
    BY <1>1, <1>4 DEF LevelLoop
  <2> QED  BY <1>2, <2>1, <2>2, <2>3
<1>10. InnerAdded(items, nd, e, f, l, k, m, level, nd2, e2, f2)
  <2>1. \A v \in c .. c + m - 1 : nd[v].level + 1 = level
    <3> TAKE v \in c .. c + m - 1
    <3>1. v \in c .. last
      BY <1>2
    <3>2. nd[v].level = level - 1
      BY <1>9, <3>1
    <3> QED  BY <1>3, <3>2
  <2>2. nd[k].level = level \/ (nd[k].level + 1 = level /\ e[k] = Len(items))
    <3>1. CASE last = k
      BY <1>3, <1>9, <3>1
    <3>2. CASE last < k
      <4>1. k \in last + 1 .. k
        BY <1>2, <3>2
      <4> QED  BY <1>9, <4>1
    <3> QED  BY <1>2, <3>1, <3>2
  <2>3. c + m <= k + 1
    BY <1>2
  <2>4. f2 = [v \in l + 1 .. k + 2 |-> IF v = k + 2 THEN c + m ELSE f[v]]
    BY <1>1
  <2> QED  BY <1>2, <1>4, <2>1, <2>2, <2>3, <2>4 DEF InnerAdded
<1>11. Built(items, nd2, e2, f2, l, k + 1)
  <2>1. Built(items, nd, e, f, l, k) /\ Len(items) \in Nat
    BY <1>1, <1>4, InvFacts
  <2> QED  BY <1>3, <1>10, <2>1, GrowInner
<1>12. /\ \A v \in 1 .. k : e2[v] = e[v] /\ nd2[v] = nd[v]
       /\ e2[k + 1] = e[c + m - 1] /\ f2[k + 2] = c + m /\ nd2[k + 1] = x
       /\ x.level = level /\ x.slotuse = m - 1
  <2>1. \A v \in 1 .. k : v # k + 1 /\ v \in DOMAIN nd /\ v \in 1 .. k + 1
    BY <1>2, <1>5
  <2>2. \A v \in 1 .. k : e2[v] = e[v] /\ nd2[v] = nd[v]
    BY <1>4, <2>1 DEF With
  <2>3. e2[k + 1] = e[c + m - 1] /\ nd2[k + 1] = x
    BY <1>2, <1>4 DEF With
  <2>4. f2[k + 2] = c + m
    BY <1>1, <1>2, <1>3
  <2>5. x.level = level /\ x.slotuse = (c + m) - c - 1
    BY <1>4 DEF InnerAt
  <2>6. (c + m) - c - 1 = m - 1
    BY <1>2
  <2> QED  BY <2>2, <2>3, <2>4, <2>5, <2>6
<1>13. LevelLoop(e2, f2)'
  <2>1. /\ num_leaves' \in Nat /\ num_items' = 0 /\ it' = Len(items')
        /\ num_children' \in Nat /\ inner_index' \in Nat /\ btree'.root = NULL
    BY <1>7, <1>8 DEF NodeAdded, LevelLoop
  <2>2. num_parents' \in Nat \ {0} /\ i' \in 0 .. num_parents' /\ NumLeaves' <= last
        /\ level' \in Nat \ {0} /\ NumLeaves' >= 1
    BY <1>2, <1>3, <1>7, <1>8
  <2>3. e2[last] = Len(items') /\ left - m \in Nat /\ f2[NumNodes' + 1] = last - (left - m) + 1
    <3>1. e2[last] = Len(items')
      BY <1>2, <1>8, <1>9, <1>12
    <3>2. left - m \in Nat /\ c + m = last - (left - m) + 1 /\ NumNodes' + 1 = k + 2
      BY <1>2, <1>7
    <3> QED  BY <1>12, <3>1, <3>2
  <2>4. btree'.node[last].level = level' - 1
    BY <1>2, <1>7, <1>8, <1>9, <1>12
  <2>5. \A v \in last - (left - m) + 1 .. last : btree'.node[v].level = level' - 1
    <3> TAKE v \in last - (left - m) + 1 .. last
    <3>1. v \in c .. last /\ v \in 1 .. k
      BY <1>2
    <3> QED  BY <1>7, <1>8, <1>9, <1>12, <3>1
  <2>6. \A v \in last + 1 .. NumNodes' : btree'.node[v].level = level'
    <3> SUFFICES ASSUME NEW v \in last + 1 .. k + 1 PROVE nd2[v].level = level
      BY <1>7, <1>8
    <3>1. CASE v = k + 1
      BY <1>12, <3>1
    <3>2. CASE v # k + 1
      <4>1. v \in last + 1 .. k /\ v \in 1 .. k
        BY <1>2, <3>2
      <4> QED  BY <1>9, <1>12, <4>1
    <3> QED  BY <3>1, <3>2
  <2>7. /\ 0 .. num_parents' - 1 \subseteq DOMAIN nextlevel'
        /\ inner_index' .. inner_index' + num_children' - 1 \subseteq DOMAIN nextlevel'
    <3>1. DOMAIN nextlevel' = DOMAIN nextlevel
      BY <1>8
    <3>2. 0 .. np - 1 \subseteq DOMAIN nextlevel
          /\ inner_index .. inner_index + num_children - 1 \subseteq DOMAIN nextlevel
      BY <1>1 DEF LevelLoop
    <3>3. inner_index' .. inner_index' + num_children' - 1
            \subseteq inner_index .. inner_index + num_children - 1
      BY DEF NodeAdded
    <3> QED  BY <1>8, <3>1, <3>2, <3>3
  <2>8. \A j \in 0 .. i' - 1 :
          nextlevel'[j] = Entry(last + 1 + j, items'[e2[last + 1 + j]][1])
    <3> SUFFICES ASSUME NEW j \in 0 .. p
                 PROVE  nextlevel'[j] = Entry(last + 1 + j, items[e2[last + 1 + j]][1])
      <4>1. 0 .. i' - 1 = 0 .. p
        BY <1>2, <1>8
      <4> QED  BY <1>8, <4>1
    <3>1. p \in DOMAIN nextlevel
      <4>1. 0 .. np - 1 \subseteq DOMAIN nextlevel
        BY <1>1 DEF LevelLoop
      <4> QED  BY <1>2, <4>1
    <3>2. last + 1 + p = k + 1
      BY <1>1, <1>2
    <3>3. CASE j = p
      BY <1>8, <1>12, <3>1, <3>2, <3>3
    <3>4. CASE j # p
      <4>1. j \in 0 .. p - 1 /\ last + 1 + j \in 1 .. k
        BY <1>2, <3>2, <3>4
      <4>2. nextlevel[j] = Entry(last + 1 + j, items[e[last + 1 + j]][1])
        BY <1>1, <4>1 DEF LevelLoop
      <4>3. nextlevel'[j] = nextlevel[j]
        <5>1. j \in DOMAIN nextlevel
          <6>1. 0 .. np - 1 \subseteq DOMAIN nextlevel
            BY <1>1 DEF LevelLoop
          <6> QED  BY <1>2, <4>1, <6>1
        <5> QED  BY <1>8, <3>4, <5>1
      <4> QED  BY <1>12, <4>1, <4>2, <4>3
    <3> QED  BY <3>3, <3>4
  <2>9. NumNodes' - i' = last /\ num_parents' - i' = np - p - 1
    BY <1>1, <1>2, <1>7, <1>8
  <2>10. NoneUnderflows(btree'.node, last)
    <3>1. NoneUnderflows(nd, last)
      BY <1>1, <1>4 DEF LevelLoop
    <3>2. \A v \in 1 .. last : nd2[v] = nd[v]
      <4>1. \A v \in 1 .. last : v \in 1 .. k
        BY <1>2
      <4> QED  BY <1>12, <4>1
    <3> QED  BY <1>7, <3>1, <3>2 DEF NoneUnderflows
  <2>11. ASSUME np > 1 PROVE NoneUnderflows(btree'.node, NumNodes')
    <3> SUFFICES ASSUME NEW v \in 1 .. k + 1 PROVE ~isunderflow(nd2[v])
      BY <1>7 DEF NoneUnderflows
    <3>1. CASE v = k + 1
      <4>1. m - 1 >= innerslotmax \div 2 /\ innerslotmax \div 2 \in Int
        BY <1>2, <1>3, <2>11, CapacityAssumption, Quotient
      <4>2. ~isleafnode(x)
        BY <1>3, <1>12 DEF isleafnode
      <4> QED  BY <1>2, <1>12, <3>1, <4>1, <4>2 DEF isunderflow
    <3>2. CASE v # k + 1
      <4>1. v \in 1 .. k
        BY <1>2, <3>2
      <4>2. NoneUnderflows(nd, k)
        BY <1>1, <1>4, <2>11 DEF LevelLoop
      <4> QED  BY <1>12, <4>1, <4>2 DEF NoneUnderflows
    <3> QED  BY <3>1, <3>2
  <2>12. /\ Shared(left - m, np - p - 1, 2, innerslotmax + 1)
         /\ np > 1 => Shared(left - m, np - p - 1, innerslotmax \div 2 + 1, innerslotmax + 1)
    BY <1>2
  <2> HIDE <1>4
  <2>13. LET left1 == Left'
             last1 == NumNodes' - i'
         IN  left1 = left - m /\ last1 = last
    BY <1>8, <2>9
  <2>14. /\ e2[last] = Len(items') /\ left - m \in Nat
         /\ f2[NumNodes' + 1] = last - (left - m) + 1
         /\ btree'.node[last].level = level' - 1
         /\ \A v \in last - (left - m) + 1 .. last : btree'.node[v].level = level' - 1
         /\ \A v \in last + 1 .. NumNodes' : btree'.node[v].level = level'
         /\ Shared(left - m, num_parents' - i', 2, innerslotmax + 1)
         /\ NoneUnderflows(btree'.node, last)
    BY <2>3, <2>4, <2>5, <2>6, <2>9, <2>10, <2>12
  <2>15. num_parents' > 1 => /\ Shared(left - m, num_parents' - i', innerslotmax \div 2 + 1,
                                        innerslotmax + 1)
                             /\ NoneUnderflows(btree'.node, NumNodes')
    BY <1>8, <2>9, <2>11, <2>12
  <2> QED  BY <2>1, <2>2, <2>7, <2>8, <2>13, <2>14, <2>15 DEF LevelLoop
<1>14. items \in Ranges
  BY InvFacts
<1> QED  BY <1>1, <1>6, <1>7, <1>8, <1>11, <1>13, <1>14

(* The walk along the list of leaves. *)
LEMMA WalkIs ==
  ASSUME NEW m \in Nat \ {0}, NEW c \in Int, NEW next,
         \A v \in c .. c + m - 2 : next[v] = v + 1,
         NEW w, w = CHOOSE g : g = [s \in 0 .. m - 1 |-> IF s = 0 THEN c ELSE next[g[s - 1]]]
  PROVE  w = [s \in 0 .. m - 1 |-> c + s]
<1> DEFINE W(g) == g = [s \in 0 .. m - 1 |-> IF s = 0 THEN c ELSE next[g[s - 1]]]
<1>1. PICK x : x = [s \in 0 .. m - 1 |-> c + s]
  OBVIOUS
<1>2. W(x)
  <2>1. \A s \in 0 .. m - 1 : x[s] = IF s = 0 THEN c ELSE next[x[s - 1]]
    <3> TAKE s \in 0 .. m - 1
    <3>1. CASE s = 0
      BY <1>1, <3>1
    <3>2. CASE s # 0
      <4>1. s - 1 \in 0 .. m - 1 /\ c + (s - 1) \in c .. c + m - 2
        BY <3>2
      <4>2. x[s - 1] = c + (s - 1) /\ next[c + (s - 1)] = c + (s - 1) + 1
        BY <1>1, <4>1
      <4> QED  BY <1>1, <3>2, <4>2
    <3> QED  BY <3>1, <3>2
  <2>2. DOMAIN x = 0 .. m - 1 /\ x = [s \in DOMAIN x |-> x[s]]
    BY <1>1
  <2> QED  BY <2>1, <2>2
<1>3. W(w)
  <2>1. \E g : W(g)
    BY <1>2
  <2> QED  BY <2>1
<1>4. \A s \in 0 .. m - 1 : w[s] = c + s
  <2> SUFFICES ASSUME NEW z \in 0 .. m - 1, w[z] # c + z PROVE FALSE
    OBVIOUS
  <2>0. PICK Bad : Bad = {s \in 0 .. m - 1 : w[s] # c + s}
    OBVIOUS
  <2>1. Bad \subseteq Nat /\ z \in Bad
    BY <2>0
  <2>2. PICK s \in Bad : \A r \in Bad : s <= r
    BY <2>1, LeastNatural, Zenon
  <2>5. s \in 0 .. m - 1 /\ w[s] # c + s /\ w[s] = IF s = 0 THEN c ELSE next[w[s - 1]]
    <3>1. s \in 0 .. m - 1 /\ w[s] # c + s
      BY <2>0
    <3>2. \A r \in 0 .. m - 1 : w[r] = IF r = 0 THEN c ELSE next[w[r - 1]]
      BY ONLY <1>3
    <3> QED  BY <3>1, <3>2
  <2>3. CASE s = 0
    BY <2>3, <2>5
  <2>4. CASE s # 0
    <3>1. s - 1 \in 0 .. m - 1 /\ c + (s - 1) \in c .. c + m - 2 /\ s - 1 \in Nat /\ ~(s <= s - 1)
      BY <2>4, <2>5
    <3>2. w[s - 1] = c + (s - 1)
      BY <2>0, <2>2, <3>1
    <3>3. w[s] = next[w[s - 1]]
      BY <2>4, <2>5
    <3>4. next[c + (s - 1)] = c + (s - 1) + 1
      BY <3>1
    <3>5. c + (s - 1) + 1 = c + s
      BY <2>5
    <3> QED  BY <2>5, <3>2, <3>3, <3>4, <3>5
  <2> QED  BY <2>3, <2>4
<1>5. w = [s \in 0 .. m - 1 |-> w[s]]
  BY <1>3
<1> QED  BY <1>4, <1>5

(* The first and the last key of a leaf. *)
LEMMA LeafEnds ==
  ASSUME NEW e, NEW f, LoadInv(e, f), NEW v \in 1 .. NumLeaves
  PROVE  /\ btree.node[v] = LeafAt(items, Before(e, v), e[v])
         /\ Before(e, v) \in Nat /\ e[v] \in 1 .. Len(items) /\ Before(e, v) < e[v]
         /\ e[v] - Before(e, v) <= leafslotmax
         /\ LastKey(btree, v) = items[e[v]][1]
         /\ FirstKey(btree, v) = items[Before(e, v) + 1][1]
<1>1. v \in 1 .. NumNodes /\ NumLeaves \in Nat /\ v \in Nat
  BY InvFacts
<1>2. e[v] \in 1 .. Len(items) /\ Len(items) \in Nat
  BY <1>1, InvFacts
<1>3. /\ btree.node[v] = LeafAt(items, Before(e, v), e[v]) /\ Before(e, v) < e[v]
      /\ e[v] - Before(e, v) <= leafslotmax
  BY InvFacts DEF Built, LeavesBuilt
<1>4. Before(e, v) \in Nat
  <2>1. CASE v = 1
    BY <2>1 DEF Before
  <2>2. CASE v # 1
    <3>1. v - 1 \in 1 .. NumNodes
      BY <1>1, <2>2, InvFacts
    <3>2. e[v - 1] \in 1 .. Len(items)
      BY <3>1, InvFacts
    <3> QED  BY <1>2, <2>2, <3>2 DEF Before
  <2> QED  BY <2>1, <2>2
<1>5. PICK a, b, nd : a = Before(e, v) /\ b = e[v] /\ nd = btree.node[v]
  OBVIOUS
<1>6. /\ nd.slotuse = b - a /\ \A s \in 0 .. b - a - 1 : nd.slotkey[s] = items[a + s + 1][1]
  BY <1>3, <1>5 DEF LeafAt
<1>7. b - a - 1 \in 0 .. b - a - 1 /\ 0 \in 0 .. b - a - 1 /\ a + (b - a - 1) + 1 = b /\ a + 0 + 1 = a + 1
  BY <1>2, <1>3, <1>4, <1>5
<1>8. nd.slotkey[b - a - 1] = items[b][1] /\ nd.slotkey[0] = items[a + 1][1]
  BY <1>6, <1>7
<1> QED  BY <1>2, <1>3, <1>4, <1>5, <1>6, <1>8 DEF LastKey, FirstKey

(* by the filling of a parent of leaves, *)
LEMMA ParentInv ==
  ASSUME NEW e, NEW f, LoadInv(e, f), LoadParent
  PROVE  IInv'
<1>1. phase = "parents" /\ i < num_parents /\ ParentsLoop(e, f) /\ LevelLoop(e, f)
  BY DEF LoadParent, FillParent, LoadInv, ParentsLoop
<1>2. PICK m, k, l, c, left :
        /\ m = num_leaves \div (num_parents - i) /\ k = NumNodes /\ l = NumLeaves
        /\ c = f[k + 1] /\ left = num_leaves
  OBVIOUS
<1>3. Left = left
  BY <1>1, <1>2 DEF Left
<1>4. k - i = l
  BY <1>1, <1>2 DEF ParentsLoop
<1>5. /\ k \in Nat /\ l \in 1 .. k /\ c \in 1 .. k + 1 /\ left \in Nat /\ i \in Nat
      /\ c = l - left + 1 /\ m \in 2 .. innerslotmax + 1 /\ m <= left /\ c + m - 1 <= l
      /\ innerslotmax \in Nat
  <2>1. m = Left \div (num_parents - i)
    BY <1>2, <1>3
  <2>2. l = k - i
    BY <1>4
  <2>3. innerslotmax \in Nat
    BY CapacityAssumption
  <2> QED  BY <1>1, <1>2, <1>3, <2>1, <2>2, <2>3, LevelFacts
<1>6. leaf = c
  BY <1>1, <1>2, <1>5 DEF ParentsLoop
<1>7. /\ DOMAIN btree.nextleaf = 1 .. l
      /\ \A v \in 1 .. l : btree.nextleaf[v] = IF v = l THEN NULL ELSE v + 1
  <2>1. IsStore(btree, items, btree.node, l, k, btree.root)
    BY <1>2, InvFacts DEF IsStore
  <2> QED  BY <2>1, StoreLeaves
<1>8. PICK keyOf : keyOf = [v \in DOMAIN btree.nextleaf |-> LastKey(btree, v)]
  OBVIOUS
<1>9. Walk(m) = [s \in 0 .. m - 1 |-> c + s]
  <2>1. \A v \in c .. c + m - 2 : btree.nextleaf[v] = v + 1
    <3> TAKE v \in c .. c + m - 2
    <3>1. v \in 1 .. l /\ v # l
      BY <1>5
    <3> QED  BY <1>7, <3>1
  <2>2. m \in Nat \ {0} /\ c \in Int
    BY <1>5
  <2>3. PICK w : w = CHOOSE g : g = [s \in 0 .. m - 1 |-> IF s = 0 THEN leaf
                                                        ELSE btree.nextleaf[g[s - 1]]]
    OBVIOUS
  <2>4. w = CHOOSE g : g = [s \in 0 .. m - 1 |-> IF s = 0 THEN c ELSE btree.nextleaf[g[s - 1]]]
    BY <1>6, <2>3
  <2>5. Walk(m) = w
    BY <2>3, Zenon DEF Walk
  <2>6. w = [s \in 0 .. m - 1 |-> c + s]
    BY <2>1, <2>2, <2>4, WalkIs
  <2> QED  BY <2>5, <2>6
<1>10. /\ btree' = allocate_inner(btree, InnerOf(m, Walk(m), [s \in 0 .. m - 1 |-> keyOf[Walk(m)[s]]]))
       /\ nextlevel' = [nextlevel EXCEPT ![i] = Entry(Fresh(btree), LastKey(btree, Walk(m)[m - 1]))]
       /\ leaf' = btree.nextleaf[Walk(m)[m - 1]]
       /\ num_leaves' = num_leaves - m
       /\ i' = i + 1
       /\ UNCHANGED <<items, phase, level, copying, num_parents, num_children, inner_index>>
  <2>1. FillParent(m, keyOf)
    BY <1>2, <1>8, Zenon DEF LoadParent
  <2> QED  BY <2>1, Zenon DEF FillParent
<1>11. \A s \in 0 .. m - 1 : /\ Walk(m)[s] = c + s /\ c + s \in 1 .. l
                             /\ LastKey(btree, c + s) = items[e[c + s]][1]
  <2> TAKE s \in 0 .. m - 1
  <2>1. c + s \in 1 .. l
    BY <1>5
  <2>2. LastKey(btree, c + s) = items[e[c + s]][1]
    BY <1>2, <2>1, LeafEnds
  <2> QED  BY <1>9, <2>1, <2>2
<1>12. InnerOf(m, Walk(m), [s \in 0 .. m - 1 |-> keyOf[Walk(m)[s]]]) = InnerAt(items, e, level, c, c + m)
  <2>1. \A s \in 0 .. m - 2 : [z \in 0 .. m - 1 |-> keyOf[Walk(m)[z]]][s] = items[e[c + s]][1]
    <3> TAKE s \in 0 .. m - 2
    <3>1. s \in 0 .. m - 1
      BY <1>5
    <3>2. Walk(m)[s] = c + s /\ c + s \in DOMAIN btree.nextleaf
      BY <1>7, <1>11, <3>1
    <3>3. keyOf[c + s] = LastKey(btree, c + s)
      BY <1>8, <3>2
    <3> QED  BY <1>11, <3>1, <3>2, <3>3
  <2>2. PICK maxkey : maxkey = [z \in 0 .. m - 1 |-> keyOf[Walk(m)[z]]]
    OBVIOUS
  <2>3. \A s \in 0 .. m - 2 : maxkey[s] = items[e[c + s]][1]
    BY <2>1, <2>2
  <2>4. c \in Nat /\ m \in Nat \ {0} /\ \A s \in 0 .. m - 1 : Walk(m)[s] = c + s
    BY <1>5, <1>11
  <2>5. InnerOf(m, Walk(m), maxkey) = InnerAt(items, e, level, c, c + m)
    BY <2>3, <2>4, InnerFilled
  <2> QED  BY <2>2, <2>5
<1>13. Walk(m)[m - 1] = c + m - 1 /\ LastKey(btree, Walk(m)[m - 1]) = items[e[c + m - 1]][1]
  <2>1. m - 1 \in 0 .. m - 1 /\ c + (m - 1) = c + m - 1
    BY <1>5
  <2> QED  BY <1>11, <2>1
<1>14. num_leaves' = left - m /\ left - m \in Nat /\ num_children = 0 /\ inner_index = 0
       /\ num_children' = 0 /\ inner_index' = 0 /\ phase' = "parents" /\ level' = level
  BY <1>1, <1>2, <1>5, <1>10 DEF ParentsLoop
<1>15. NodeAdded(e, f, m)
  <2>1. Left' = left - m
    BY <1>14 DEF Left
  <2>2. m = Left \div (num_parents - i)
    BY <1>2, <1>3
  <2>3. btree' = allocate_inner(btree, InnerAt(items, e, level, c, c + m))
    BY <1>10, <1>12
  <2>4. nextlevel' = [nextlevel EXCEPT ![i] = Entry(Fresh(btree), items[e[c + m - 1]][1])]
    BY <1>10, <1>13
  <2>5. UNCHANGED <<items, level, it, num_items, num_parents>>
    BY <1>10 DEF copying
  <2>6. num_leaves' \in Nat /\ num_children' \in Nat /\ inner_index' \in Nat
        /\ inner_index' .. inner_index' + num_children' - 1
             \subseteq inner_index .. inner_index + num_children - 1
    BY <1>14
  <2>7. i < num_parents /\ i' = i + 1 /\ Left' = Left - m
    BY <1>1, <1>3, <1>10, <2>1
  <2>8. c = f[NumNodes + 1]
    BY <1>2
  <2> HIDE <1>2, <1>3, <1>8
  <2> QED  BY <2>2, <2>3, <2>4, <2>5, <2>6, <2>7, <2>8 DEF NodeAdded
<1>16. PICK e2, f2 :
         /\ e2 = [v \in 1 .. k + 1 |-> IF v = k + 1 THEN e[c + m - 1] ELSE e[v]]
         /\ f2 = [v \in NumLeaves + 1 .. k + 2 |-> IF v = k + 2 THEN c + m ELSE f[v]]
  OBVIOUS
<1>17. /\ items' \in Ranges
       /\ btree' = StoreOf(items', btree'.node, NumLeaves', NumNodes', btree'.root)
       /\ Built(items', btree'.node, e2, f2, NumLeaves', NumNodes')
       /\ NumLeaves' = l /\ NumNodes' = k + 1
       /\ LevelLoop(e2, f2)'
  BY <1>1, <1>2, <1>15, <1>16, LevelStep
<1>18. f2[k + 2] = c + m
  BY <1>2, <1>5, <1>16
<1>19. ParentsLoop(e2, f2)'
  <2>1. level = 1
    BY <1>1 DEF ParentsLoop
  <2>2. NumNodes' - i' = NumLeaves' /\ NumNodes' + 1 = k + 2
    BY <1>4, <1>5, <1>10, <1>17
  <2>3. leaf' = IF left - m = 0 THEN NULL ELSE c + m
    <3>1. c + m - 1 \in 1 .. l /\ (c + m - 1) + 1 = c + m
      BY <1>5
    <3>2. left - m = 0 <=> c + m - 1 = l
      BY <1>5
    <3> QED  BY <1>7, <1>10, <1>13, <3>1, <3>2
  <2> QED  BY <1>14, <1>17, <1>18, <2>1, <2>2, <2>3 DEF ParentsLoop
<1>20. LoadInv(e2, f2)'
  BY <1>14, <1>17, <1>19 DEF LoadInv
<1> QED  BY <1>20 DEF IInv

(* by that of a node above it, *)
LEMMA InnerInv ==
  ASSUME NEW e, NEW f, LoadInv(e, f), LoadInner
  PROVE  IInv'
<1>1. phase = "inner" /\ i < num_parents /\ InnerLoop(e, f) /\ LevelLoop(e, f)
  BY DEF LoadInner, FillInner, LoadInv, InnerLoop
<1>2. PICK m, k, last, c, left, x :
        /\ m = num_children \div (num_parents - i) /\ k = NumNodes /\ last = k - i
        /\ c = f[k + 1] /\ left = num_children /\ x = inner_index
  OBVIOUS
<1>3. Left = left
  BY <1>1, <1>2 DEF Left
<1>4. /\ k \in Nat /\ last \in 1 .. k /\ c \in 1 .. k + 1 /\ left \in Nat /\ i \in Nat
      /\ c = last - left + 1 /\ m \in 2 .. innerslotmax + 1 /\ m <= left /\ c + m - 1 <= last
      /\ innerslotmax \in Nat
  <2>1. m = Left \div (num_parents - i)
    BY <1>2, <1>3
  <2>2. last = k - i
    BY <1>2
  <2>3. innerslotmax \in Nat
    BY CapacityAssumption
  <2> QED  BY <1>1, <1>2, <1>3, <2>1, <2>2, <2>3, LevelFacts
<1>5. /\ x \in Nat /\ i <= x
      /\ \A s \in 0 .. left - 1 : nextlevel[x + s] = Entry(c + s, items[e[c + s]][1])
      /\ x .. x + left - 1 \subseteq DOMAIN nextlevel
  <2>1. x \in Nat /\ x .. x + left - 1 \subseteq DOMAIN nextlevel
    BY <1>1, <1>2 DEF LevelLoop
  <2> QED  BY <1>1, <1>2, <2>1 DEF InnerLoop
<1>6. PICK below : below = [s \in 0 .. m - 1 |-> nextlevel[x + s]]
  OBVIOUS
<1>7. \A s \in 0 .. m - 1 : below[s].first = c + s /\ below[s].second = items[e[c + s]][1]
  <2> TAKE s \in 0 .. m - 1
  <2>1. s \in 0 .. left - 1
    BY <1>4
  <2>2. below[s] = Entry(c + s, items[e[c + s]][1])
    BY <1>5, <1>6, <2>1
  <2> QED  BY <2>2 DEF Entry
<1>8. /\ btree' = allocate_inner(btree, InnerOf(m, [s \in 0 .. m - 1 |-> below[s].first],
                                                   [s \in 0 .. m - 1 |-> below[s].second]))
      /\ nextlevel' = [nextlevel EXCEPT ![i] = Entry(Fresh(btree), below[m - 1].second)]
      /\ inner_index' = x + m
      /\ num_children' = left - m
      /\ i' = i + 1
      /\ UNCHANGED <<items, phase, level, copying, num_leaves, leaf, num_parents>>
  BY <1>2, <1>6 DEF LoadInner, FillInner
<1>9. InnerOf(m, [s \in 0 .. m - 1 |-> below[s].first], [s \in 0 .. m - 1 |-> below[s].second])
      = InnerAt(items, e, level, c, c + m)
  <2>1. PICK child, maxkey : /\ child = [s \in 0 .. m - 1 |-> below[s].first]
                             /\ maxkey = [s \in 0 .. m - 1 |-> below[s].second]
    OBVIOUS
  <2>2. \A s \in 0 .. m - 1 : child[s] = c + s
    BY <1>7, <2>1
  <2>3. \A s \in 0 .. m - 2 : maxkey[s] = items[e[c + s]][1]
    <3> TAKE s \in 0 .. m - 2
    <3>1. s \in 0 .. m - 1
      BY <1>4
    <3> QED  BY <1>7, <2>1, <3>1
  <2>4. c \in Nat /\ m \in Nat \ {0}
    BY <1>4
  <2>5. InnerOf(m, child, maxkey) = InnerAt(items, e, level, c, c + m)
    BY <2>2, <2>3, <2>4, InnerFilled
  <2> QED  BY <2>1, <2>5
<1>10. below[m - 1].second = items[e[c + m - 1]][1]
  <2>1. m - 1 \in 0 .. m - 1 /\ c + (m - 1) = c + m - 1
    BY <1>4
  <2> QED  BY <1>7, <2>1
<1>11. num_leaves = 0 /\ leaf = NULL
  BY <1>1 DEF InnerLoop
<1>12. NodeAdded(e, f, m)
  <2>1. Left' = left - m
    BY <1>1, <1>8 DEF Left
  <2>2. m = Left \div (num_parents - i)
    BY <1>2, <1>3
  <2>3. btree' = allocate_inner(btree, InnerAt(items, e, level, c, c + m))
    BY <1>8, <1>9
  <2>4. nextlevel' = [nextlevel EXCEPT ![i] = Entry(Fresh(btree), items[e[c + m - 1]][1])]
    BY <1>8, <1>10
  <2>5. UNCHANGED <<items, level, it, num_items, num_parents>>
    BY <1>8 DEF copying
  <2>6. num_leaves' \in Nat /\ num_children' \in Nat /\ inner_index' \in Nat
        /\ inner_index' .. inner_index' + num_children' - 1
             \subseteq inner_index .. inner_index + num_children - 1
    <3>1. num_leaves' = 0 /\ num_children' = left - m /\ inner_index' = x + m
      BY <1>8, <1>11
    <3>2. left - m \in Nat /\ x + m \in Nat
      BY <1>4, <1>5
    <3>3. x + m .. x + m + (left - m) - 1 \subseteq x .. x + left - 1
      BY <1>4, <1>5
    <3> QED  BY <1>2, <3>1, <3>2, <3>3
  <2>7. i < num_parents /\ i' = i + 1 /\ Left' = Left - m
    BY <1>1, <1>3, <1>8, <2>1
  <2>8. c = f[NumNodes + 1]
    BY <1>2
  <2> HIDE <1>2, <1>3, <1>6
  <2> QED  BY <2>2, <2>3, <2>4, <2>5, <2>6, <2>7, <2>8 DEF NodeAdded
<1>13. PICK e2, f2 :
         /\ e2 = [v \in 1 .. k + 1 |-> IF v = k + 1 THEN e[c + m - 1] ELSE e[v]]
         /\ f2 = [v \in NumLeaves + 1 .. k + 2 |-> IF v = k + 2 THEN c + m ELSE f[v]]
  OBVIOUS
<1>14. /\ items' \in Ranges
       /\ btree' = StoreOf(items', btree'.node, NumLeaves', NumNodes', btree'.root)
       /\ Built(items', btree'.node, e2, f2, NumLeaves', NumNodes')
       /\ NumNodes' = k + 1
       /\ LevelLoop(e2, f2)'
  BY <1>1, <1>2, <1>12, <1>13, LevelStep
<1>15. f2[NumNodes' + 1] = c + m
  <2>1. NumLeaves \in Nat /\ NumLeaves <= k
    BY <1>2, InvFacts
  <2>2. k + 2 \in NumLeaves + 1 .. k + 2 /\ NumNodes' + 1 = k + 2
    BY <1>4, <1>14, <2>1
  <2> QED  BY <1>13, <2>2
<1>16. \A s \in 0 .. left - m - 1 :
         nextlevel'[x + m + s] = Entry(c + m + s, items[e2[c + m + s]][1])
  <2> TAKE s \in 0 .. left - m - 1
  <2>1. m + s \in 0 .. left - 1 /\ x + (m + s) = x + m + s /\ c + (m + s) = c + m + s
        /\ x + m + s # i /\ x + m + s \in x .. x + left - 1
    BY <1>4, <1>5
  <2>2. nextlevel[x + m + s] = Entry(c + m + s, items[e[c + m + s]][1])
    BY <1>5, <2>1
  <2>3. nextlevel'[x + m + s] = nextlevel[x + m + s]
    BY <1>5, <1>8, <2>1
  <2>4. c + m + s \in 1 .. k /\ c + m + s # k + 1
    BY <1>4
  <2>5. e2[c + m + s] = e[c + m + s]
    <3>1. \A v \in 1 .. k : v # k + 1 /\ v \in 1 .. k + 1
      BY <1>4
    <3>2. \A v \in 1 .. k : e2[v] = e[v]
      BY <1>13, <3>1
    <3> QED  BY <2>4, <3>2
  <2> QED  BY <2>2, <2>3, <2>5
<1>17. InnerLoop(e2, f2)'
  <2>1. i' <= inner_index' /\ num_leaves' = 0 /\ leaf' = NULL
    BY <1>4, <1>5, <1>8, <1>11
  <2>2. items' = items
    BY <1>8
  <2> QED  BY <1>8, <1>14, <1>15, <1>16, <2>1, <2>2 DEF InnerLoop
<1>18. phase' = "inner"
  BY <1>1, <1>8
<1>19. LoadInv(e2, f2)'
  BY <1>14, <1>17, <1>18 DEF LoadInv
<1> QED  BY <1>19 DEF IInv

(* by the end of a level, *)
LEMMA EndLevelInv ==
  ASSUME NEW e, NEW f, LoadInv(e, f), EndLevel
  PROVE  IInv'
<1>1. phase \in {"parents", "inner"} /\ ~(i < num_parents) /\ LevelLoop(e, f)
  BY DEF EndLevel, LoadInv, ParentsLoop, InnerLoop
<1>2. PICK l, k, last, np : l = NumLeaves /\ k = NumNodes /\ last = k - i /\ np = num_parents
  OBVIOUS
<1>3. /\ k \in Nat /\ l \in Nat /\ np \in Nat \ {0} /\ i = np /\ last = k - np
      /\ l >= 1 /\ l <= last /\ last \in 1 .. k - 1 /\ Len(items) \in Nat
      /\ level \in Nat \ {0} /\ num_items = 0 /\ it = Len(items)
      /\ num_leaves \in Nat /\ num_children \in Nat /\ inner_index \in Nat
  <2>1. k \in Nat /\ l \in Nat /\ l <= k /\ Len(items) \in Nat
    BY <1>2, InvFacts
  <2>2. /\ np \in Nat \ {0} /\ i \in 0 .. np /\ l >= 1 /\ l <= last
        /\ level \in Nat \ {0} /\ num_items = 0 /\ it = Len(items)
        /\ num_leaves \in Nat /\ num_children \in Nat /\ inner_index \in Nat
    BY <1>1, <1>2 DEF LevelLoop
  <2>3. i = np
    BY <1>1, <1>2, <2>2
  <2>4. last = k - np
    BY <1>2, <2>3
  <2>5. last \in 1 .. k - 1
    BY <2>1, <2>2, <2>4
  <2> QED  BY <2>1, <2>2, <2>3, <2>4, <2>5
<1>4. Left = 0 /\ f[k + 1] = last + 1
  <2>1. Left \in Nat /\ f[k + 1] = last - Left + 1 /\ Shared(Left, np - i, 2, innerslotmax + 1)
    BY <1>1, <1>2 DEF LevelLoop
  <2>2. np - i = 0 /\ 0 * (innerslotmax + 1) = 0
    BY <1>3, CapacityAssumption
  <2>3. Left <= 0
    BY <2>1, <2>2 DEF Shared
  <2> QED  BY <1>3, <2>1, <2>3
<1>5. num_leaves = 0 /\ leaf = NULL
  <2>1. CASE phase = "parents"
    <3>1. num_leaves = 0
      BY <1>4, <2>1 DEF Left
    <3> QED  BY <2>1, <3>1 DEF LoadInv, ParentsLoop
  <2>2. CASE phase = "inner"
    BY <2>2 DEF LoadInv, InnerLoop
  <2> QED  BY <1>1, <2>1, <2>2
<1>6. e[k] = Len(items) /\ e[last] = Len(items)
  <2>1. e[last] = Len(items)
    BY <1>1, <1>2 DEF LevelLoop
  <2>2. k \in l + 1 .. k
    BY <1>3
  <2>3. e[k] = e[f[k + 1] - 1]
    <3>1. Built(items, btree.node, e, f, l, k)
      BY <1>2, InvFacts
    <3>2. InnersBuilt(items, btree.node, e, f, l, k)
      BY <3>1 DEF Built
    <3> QED  BY <2>2, <3>2 DEF InnersBuilt
  <2>4. f[k + 1] - 1 = last
    BY <1>3, <1>4
  <2> QED  BY <2>1, <2>3, <2>4
<1>7. /\ UNCHANGED <<items, it, num_items, num_leaves, leaf, nextlevel>>
  BY DEF EndLevel, copying
<1>8. \A j \in 0 .. np - 1 : nextlevel[j] = Entry(last + 1 + j, items[e[last + 1 + j]][1])
  BY <1>1, <1>2, <1>3 DEF LevelLoop
<1>9. items \in Ranges /\ btree = StoreOf(items, btree.node, l, k, btree.root)
      /\ Built(items, btree.node, e, f, l, k) /\ btree.root = NULL
  BY <1>1, <1>2, InvFacts DEF LevelLoop
<1>10. CASE np = 1
  <2>1. /\ btree' = [btree EXCEPT !.root = nextlevel[0].first] /\ phase' = "done"
        /\ UNCHANGED <<level, i, num_parents, num_children, inner_index>>
    BY <1>2, <1>10 DEF EndLevel
  <2>2. nextlevel[0].first = k
    <3>1. nextlevel[0] = Entry(last + 1 + 0, items[e[last + 1 + 0]][1])
      <4>1. 0 \in 0 .. np - 1
        BY <1>10
      <4> QED  BY <1>8, <4>1
    <3>2. last + 1 + 0 = k
      BY <1>3, <1>10
    <3> QED  BY <3>1, <3>2 DEF Entry
  <2>3. btree' = StoreOf(items, btree.node, l, k, k)
    <3>1. [btree EXCEPT !.root = k] = StoreOf(items, btree.node, l, k, k)
      BY <1>9, NewRoot
    <3> QED  BY <2>1, <2>2, <3>1
  <2>4. btree'.node = btree.node /\ NumLeaves' = l /\ NumNodes' = k /\ btree'.root = k
    <3>1. PICK t : t = btree'
      OBVIOUS
    <3>2. IsStore(t, items, btree.node, l, k, k)
      BY <1>3, <2>3, <3>1 DEF IsStore
    <3>3. t.node = btree.node /\ t.root = k /\ t.stats.leaves = l
          /\ t.stats.leaves + t.stats.innernodes = k
      BY <3>2, StoreParts
    <3> QED  BY <3>1, <3>3 DEF NumLeaves, NumNodes
  <2>5. LoadDone(e, f)'
    <3>1. NoneUnderflows(btree.node, k - 1)
      <4>1. last = k - 1
        BY <1>3, <1>10
      <4>2. NoneUnderflows(btree.node, last)
        BY <1>1, <1>2 DEF LevelLoop
      <4> QED  BY <4>1, <4>2
    <3>2. items # <<>>
      <4>1. e[k] \in 1 .. Len(items)
        BY <1>2, <1>3, InvFacts
      <4>2. Len(items) # 0
        BY <1>3, <4>1
      <4> QED  BY <4>2
    <3>3. k > 0 /\ f[k + 1] = k
      BY <1>3, <1>4, <1>10
    <3>4. {level', i', num_parents', num_children', inner_index'} \subseteq Nat
      BY <1>2, <1>3, <2>1
    <3>5. num_leaves' \in Nat /\ num_items' = 0 /\ it' = Len(items') /\ leaf' = NULL
      BY <1>3, <1>5, <1>7
    <3> QED  BY <1>3, <1>6, <1>7, <2>4, <3>1, <3>2, <3>3, <3>4, <3>5 DEF LoadDone
  <2>6. LoadInv(e, f)'
    <3>1. items' = items
      BY <1>7
    <3> QED  BY <1>9, <2>1, <2>3, <2>4, <2>5, <3>1 DEF LoadInv
  <2> QED  BY <2>6 DEF IInv
<1>11. CASE np # 1
  <2>1. PICK q : q = NumParents(np)
    OBVIOUS
  <2>2. /\ num_children' = np /\ num_parents' = q /\ level' = level + 1 /\ i' = 0
        /\ inner_index' = 0 /\ phase' = "inner" /\ btree' = btree
    BY <1>2, <1>11, <2>1 DEF EndLevel
  <2>3. /\ q \in Nat \ {0} /\ q < np /\ q * 2 <= np /\ np <= q * (innerslotmax + 1)
        /\ q > 1 => q * (innerslotmax \div 2 + 1) <= np
    <3>1. np \in Nat /\ np >= 2
      BY <1>3, <1>11
    <3> QED  BY <2>1, <3>1, InnerShares
  <2>4. NumNodes' = k /\ NumLeaves' = l
    BY <1>2, <2>2 DEF NumLeaves, NumNodes
  <2>5. NoneUnderflows(btree.node, k)
    <3>1. np > 1
      BY <1>3, <1>11
    <3> QED  BY <1>1, <1>2, <3>1 DEF LevelLoop
  <2>6. \A v \in last + 1 .. k : btree.node[v].level = level
    BY <1>1, <1>2 DEF LevelLoop
  <2>7. 0 .. np - 1 \subseteq DOMAIN nextlevel
    BY <1>1, <1>2 DEF LevelLoop
  <2>8. Left' = np
    BY <2>2 DEF Left
  <2>9. LevelLoop(e, f)'
    <3>1. /\ num_leaves' \in Nat /\ num_items' = 0 /\ it' = Len(items')
          /\ num_children' \in Nat /\ inner_index' \in Nat /\ btree'.root = NULL
      BY <1>3, <1>7, <1>9, <2>2
    <3>2. num_parents' \in Nat \ {0} /\ i' \in 0 .. num_parents' /\ NumLeaves' <= k
          /\ level' \in Nat \ {0} /\ NumLeaves' >= 1
      BY <1>3, <2>2, <2>3, <2>4
    <3>3. e[k] = Len(items') /\ np \in Nat /\ f[NumNodes' + 1] = k - np + 1
      BY <1>3, <1>4, <1>6, <1>7, <2>4
    <3>4. btree'.node[k].level = level' - 1
      <4>1. k \in last + 1 .. k /\ (level + 1) - 1 = level
        BY <1>3
      <4> QED  BY <2>2, <2>6, <4>1
    <3>5. \A v \in k - np + 1 .. k : btree'.node[v].level = level' - 1
      <4>1. k - np + 1 = last + 1 /\ (level + 1) - 1 = level
        BY <1>3
      <4> QED  BY <2>2, <2>6, <4>1
    <3>6. \A v \in k + 1 .. NumNodes' : FALSE
      BY <1>3, <2>4
    <3>7. /\ 0 .. num_parents' - 1 \subseteq DOMAIN nextlevel'
          /\ inner_index' .. inner_index' + num_children' - 1 \subseteq DOMAIN nextlevel'
      <4>1. 0 .. q - 1 \subseteq 0 .. np - 1 /\ 0 + np - 1 = np - 1
        BY <1>3, <2>3
      <4> QED  BY <1>7, <2>2, <2>7, <4>1
    <3>8. \A j \in 0 .. i' - 1 : FALSE
      BY <2>2
    <3>9. NumNodes' - i' = k /\ num_parents' - i' = q /\ num_parents' = q
      BY <1>3, <2>2, <2>3, <2>4
    <3>10. NoneUnderflows(btree'.node, k) /\ NoneUnderflows(btree'.node, NumNodes')
      BY <2>2, <2>4, <2>5
    <3>11. /\ Shared(np, q, 2, innerslotmax + 1)
           /\ q > 1 => Shared(np, q, innerslotmax \div 2 + 1, innerslotmax + 1)
      BY <2>3 DEF Shared
    <3> QED  BY <2>8, <3>1, <3>2, <3>3, <3>4, <3>5, <3>6, <3>7, <3>8, <3>9, <3>10, <3>11
             DEF LevelLoop
  <2>10. InnerLoop(e, f)'
    <3>1. num_leaves' = 0 /\ leaf' = NULL /\ i' <= inner_index'
      BY <1>5, <1>7, <2>2
    <3>2. f[NumNodes' + 1] = last + 1
      BY <1>4, <2>4
    <3>3. \A s \in 0 .. num_children' - 1 :
            nextlevel'[inner_index' + s] = Entry(last + 1 + s, items'[e[last + 1 + s]][1])
      <4>1. \A s \in 0 .. np - 1 : 0 + s = s
        BY <1>3
      <4> QED  BY <1>7, <1>8, <2>2, <4>1
    <3> QED  BY <2>9, <3>1, <3>2, <3>3 DEF InnerLoop
  <2>11. LoadInv(e, f)'
    <3>1. items' = items
      BY <1>7
    <3> QED  BY <1>9, <2>2, <2>4, <2>10, <3>1 DEF LoadInv
  <2> QED  BY <2>11 DEF IInv
<1> QED  BY <1>10, <1>11

(* and so by every step. *)
LEMMA Inductive == IInv /\ [Next]_vars => IInv'
<1> SUFFICES ASSUME IInv, [Next]_vars PROVE IInv'
  OBVIOUS
<1>1. PICK e, f : LoadInv(e, f)
  BY DEF IInv
<1>2. CASE LoadLeaf
  BY <1>1, <1>2, LeafInv
<1>3. CASE EndLeaves
  BY <1>1, <1>3, EndLeavesInv
<1>4. CASE LoadParent
  BY <1>1, <1>4, ParentInv
<1>5. CASE LoadInner
  BY <1>1, <1>5, InnerInv
<1>6. CASE EndLevel
  BY <1>1, <1>6, EndLevelInv
<1>7. CASE UNCHANGED vars
  <2>1. /\ btree' = btree /\ items' = items /\ phase' = phase /\ level' = level /\ i' = i
        /\ it' = it /\ num_items' = num_items /\ num_leaves' = num_leaves /\ leaf' = leaf
        /\ num_parents' = num_parents /\ num_children' = num_children
        /\ nextlevel' = nextlevel /\ inner_index' = inner_index
    BY <1>7 DEF vars, copying, above
  <2>2. LoadInv(e, f)'
    BY <1>1, <2>1 DEF LoadInv, LeavesLoop, ParentsLoop, InnerLoop, LoadDone, LevelLoop, Left,
                      NumLeaves, NumNodes
  <2> QED  BY <2>2 DEF IInv
<1> QED  BY <1>2, <1>3, <1>4, <1>5, <1>6, <1>7 DEF Next, Loaded

LEMMA Invariance == Spec => []IInv
<1>1. Init => IInv
  BY InitInv
<1>2. IInv /\ [Next]_vars => IInv'
  BY Inductive
<1> QED  BY <1>1, <1>2, PTL DEF Spec

-----------------------------------------------------------------------------
(* Consistency of the loops.                                               *)

(* The children of a node. *)
LEMMA ChildrenAre ==
  ASSUME NEW e, NEW f, LoadInv(e, f)
  PROVE  /\ \A v \in 1 .. NumLeaves : Children(btree, v) = {}
         /\ \A v \in NumLeaves + 1 .. NumNodes : Children(btree, v) = f[v] .. f[v + 1] - 1
<1>1. PICK l, k, nd : l = NumLeaves /\ k = NumNodes /\ nd = btree.node
  OBVIOUS
<1>2. l \in Nat /\ k \in Nat /\ l <= k /\ Built(items, nd, e, f, l, k)
  BY <1>1, InvFacts
<1>3. ASSUME NEW v \in 1 .. l PROVE Children(btree, v) = {}
  <2>1. nd[v] = LeafAt(items, Before(e, v), e[v])
    BY <1>2 DEF Built, LeavesBuilt
  <2>2. nd[v].childid = <<>>
    BY <2>1 DEF LeafAt
  <2> QED  BY <1>1, <2>2 DEF Children
<1>4. ASSUME NEW v \in l + 1 .. k PROVE Children(btree, v) = f[v] .. f[v + 1] - 1
  <2>1. /\ nd[v] = InnerAt(items, e, nd[v].level, f[v], f[v + 1])
    BY <1>2 DEF Built, InnersBuilt
  <2>2. PICK a, b, x : a = f[v] /\ b = f[v + 1] /\ x = nd[v].level
    OBVIOUS
  <2>3. a \in Int /\ b \in Int
    <3>1. \A w \in l + 1 .. k + 1 : f[w] \in 1 .. k + 1
      BY <1>2, BuiltFacts
    <3>2. v \in l + 1 .. k + 1 /\ v + 1 \in l + 1 .. k + 1
      BY <1>2
    <3>3. f[v] \in 1 .. k + 1 /\ f[v + 1] \in 1 .. k + 1
      BY <3>1, <3>2
    <3> QED  BY <1>2, <2>2, <3>3
  <2>4. nd[v].childid = [s \in 0 .. b - a - 1 |-> a + s]
    <3>1. nd[v] = InnerAt(items, e, x, a, b)
      BY <2>1, <2>2
    <3> HIDE <2>2
    <3> QED  BY <3>1 DEF InnerAt
  <2>5. Children(btree, v) = {a + s : s \in 0 .. b - a - 1}
    BY <1>1, <2>4 DEF Children
  <2>6. {a + s : s \in 0 .. b - a - 1} = a .. b - 1
    <3>1. ASSUME NEW y \in a .. b - 1 PROVE \E s \in 0 .. b - a - 1 : y = a + s
      <4>1. y - a \in 0 .. b - a - 1 /\ y = a + (y - a)
        BY <2>3
      <4> QED  BY <4>1
    <3>2. \A s \in 0 .. b - a - 1 : a + s \in a .. b - 1
      BY <2>3
    <3> QED  BY <3>1, <3>2
  <2> QED  BY <2>2, <2>5, <2>6
<1> QED  BY <1>1, <1>3, <1>4

(* The nodes without parent are the last ones. *)
LEMMA OrphansAre ==
  ASSUME NEW e, NEW f, LoadInv(e, f)
  PROVE  Orphans = f[NumNodes + 1] .. NumNodes
<1>1. PICK l, k, c : l = NumLeaves /\ k = NumNodes /\ c = f[k + 1]
  OBVIOUS
<1>2. l \in Nat /\ k \in Nat /\ l <= k /\ Built(items, btree.node, e, f, l, k) /\ DOMAIN btree.node = 1 .. k
  BY <1>1, InvFacts
<1>3. c \in 1 .. k + 1 /\ \A v \in l + 1 .. k + 1 : f[v] \in 1 .. k + 1
  <2>1. \A v \in l + 1 .. k + 1 : f[v] \in 1 .. k + 1
    BY <1>2, BuiltFacts
  <2>2. k + 1 \in l + 1 .. k + 1
    BY <1>2
  <2> QED  BY <1>1, <2>1, <2>2
<1>4. Tiled(f, l, k)
  BY <1>2 DEF Built
<1>5. /\ \A v \in 1 .. l : Children(btree, v) = {}
      /\ \A v \in l + 1 .. k : Children(btree, v) = f[v] .. f[v + 1] - 1
  BY <1>1, ChildrenAre
<1>6. ASSUME NEW v \in c .. k PROVE v \in Orphans
  <2>1. v \in 1 .. k
    BY <1>2, <1>3
  <2>2. ASSUME NEW p \in 1 .. k PROVE v \notin Children(btree, p)
    <3>1. CASE p \in 1 .. l
      BY <1>5, <3>1
    <3>2. CASE p \in l + 1 .. k
      <4>1. p + 1 \in l + 1 .. k + 1 /\ k + 1 \in l + 1 .. k + 1 /\ (p + 1 = k + 1 \/ p + 1 < k + 1)
        BY <1>2, <3>2
      <4>2. f[p + 1] <= c
        <5>1. p + 1 < k + 1 => f[p + 1] < f[k + 1]
          BY <1>4, <4>1 DEF Tiled
        <5>2. f[p + 1] \in Int /\ c \in Int
          BY <1>2, <1>3, <4>1
        <5> QED  BY <1>1, <4>1, <5>1, <5>2
      <4>3. f[p] \in Int /\ f[p + 1] \in Int
        <5>1. p \in l + 1 .. k + 1
          BY <1>2, <3>2
        <5>2. f[p] \in 1 .. k + 1 /\ f[p + 1] \in 1 .. k + 1
          BY <1>3, <4>1, <5>1
        <5> QED  BY <1>2, <5>2
      <4>4. v \notin f[p] .. f[p + 1] - 1
        BY <1>3, <4>2, <4>3
      <4> QED  BY <1>5, <3>2, <4>4
    <3> QED  BY <1>2, <3>1, <3>2
  <2> QED  BY <1>2, <2>1, <2>2 DEF Orphans
<1>7. ASSUME NEW v \in Orphans PROVE v \in c .. k
  <2>1. v \in 1 .. k /\ \A p \in 1 .. k : v \notin Children(btree, p)
    BY <1>2 DEF Orphans
  <2>2. ASSUME v < c PROVE FALSE
    <3>1. v \in 1 .. c - 1
      BY <1>3, <2>1, <2>2
    <3>2. PICK p \in l + 1 .. k : f[p] <= v /\ v < f[p + 1]
      BY <1>1, <1>4, <3>1 DEF Tiled
    <3>3. p \in 1 .. k /\ p \in l + 1 .. k + 1 /\ p + 1 \in l + 1 .. k + 1
      BY <1>2
    <3>4. f[p] \in Int /\ f[p + 1] \in Int
      <4>1. f[p] \in 1 .. k + 1 /\ f[p + 1] \in 1 .. k + 1
        BY <1>3, <3>3
      <4> QED  BY <1>2, <4>1
    <3>5. v \in f[p] .. f[p + 1] - 1
      BY <2>1, <3>2, <3>4
    <3> QED  BY <1>5, <2>1, <3>3, <3>5
  <2> QED  BY <1>2, <1>3, <2>1, <2>2
<1> QED  BY <1>1, <1>6, <1>7

LEMMA IInvImpliesTypeOK == IInv => TypeOK
<1> SUFFICES ASSUME NEW e, NEW f, LoadInv(e, f) PROVE TypeOK
  BY DEF IInv
<1>1. PICK l, k : l = NumLeaves /\ k = NumNodes
  OBVIOUS
<1>2. l \in Nat /\ k \in Nat /\ l <= k /\ Len(items) \in Nat /\ items \in Ranges
      /\ DOMAIN btree.node = 1 .. k
  BY <1>1, InvFacts
<1>3. DOMAIN btree.nextleaf = 1 .. l /\ {btree.headleaf, btree.tailleaf} \subseteq 1 .. l \cup {NULL}
  <2>1. IsStore(btree, items, btree.node, l, k, btree.root)
    BY <1>1, InvFacts DEF IsStore
  <2>2. /\ btree.headleaf = (IF l = 0 THEN NULL ELSE 1)
        /\ btree.tailleaf = (IF l = 0 THEN NULL ELSE l)
        /\ DOMAIN btree.nextleaf = 1 .. l
    BY <2>1, StoreLeaves
  <2> QED  BY <1>2, <2>2
<1>4. CASE phase = "leaves"
  <2>1. LeavesLoop(e)
    BY <1>4 DEF LoadInv
  <2>2. i = l /\ num_leaves \in Nat /\ i <= num_leaves
    BY <1>1, <1>2, <2>1, LeafShares DEF LeavesLoop
  <2>3. it \in Nat /\ num_items = Len(items) - it
    <3>1. it = Before(e, l + 1) /\ num_items = Len(items) - it
      BY <1>1, <2>1 DEF LeavesLoop
    <3>2. CASE l = 0
      BY <3>1, <3>2 DEF Before
    <3>3. CASE l # 0
      <4>1. it = e[l] /\ l \in 1 .. k
        BY <1>1, <1>2, <3>1, <3>3, <2>1 DEF Before, LeavesLoop
      <4>2. e[l] \in 1 .. Len(items)
        BY <1>1, <4>1, InvFacts
      <4> QED  BY <1>2, <3>1, <4>1, <4>2
    <3> QED  BY <3>1, <3>2, <3>3
  <2>4. num_items >= 0
    <3>1. (num_leaves - i) * 1 <= num_items
      BY <2>1 DEF LeavesLoop, Shared
    <3> QED  BY <1>2, <2>2, <2>3, <3>1
  <2>5. level = 0 /\ leaf = NULL /\ num_parents = 0 /\ num_children = 0 /\ inner_index = 0
        /\ btree.root = NULL
    BY <2>1 DEF LeavesLoop
  <2>6. it \in 0 .. Len(items) /\ num_items \in 0 .. Len(items)
    BY <1>2, <2>3, <2>4
  <2>7. {level, i, num_leaves, num_parents, num_children, inner_index} \subseteq Nat
    BY <1>2, <2>2, <2>5
  <2> QED  BY <1>2, <1>3, <1>4, <2>5, <2>6, <2>7 DEF TypeOK
<1>5. CASE phase \in {"parents", "inner"}
  <2>1. LevelLoop(e, f)
    BY <1>5 DEF LoadInv, ParentsLoop, InnerLoop
  <2>2. /\ num_leaves \in Nat /\ num_items = 0 /\ it = Len(items)
        /\ num_children \in Nat /\ inner_index \in Nat /\ btree.root = NULL
        /\ num_parents \in Nat \ {0} /\ i \in 0 .. num_parents /\ level \in Nat \ {0}
    BY <2>1 DEF LevelLoop
  <2>3. leaf \in 1 .. l \cup {NULL}
    <3>1. CASE phase = "inner"
      BY <3>1 DEF LoadInv, InnerLoop
    <3>2. CASE phase = "parents" /\ num_leaves = 0
      BY <3>2 DEF LoadInv, ParentsLoop
    <3>3. CASE phase = "parents" /\ num_leaves # 0
      <4>1. leaf = f[k + 1] /\ k - i = l
        BY <1>1, <3>3 DEF LoadInv, ParentsLoop
      <4>2. f[k + 1] = (k - i) - Left + 1 /\ Left = num_leaves
        BY <1>1, <2>1, <3>3 DEF LevelLoop, Left
      <4>3. f[k + 1] \in 1 .. k + 1
        <5>1. k + 1 \in l + 1 .. k + 1
          BY <1>2
        <5> QED  BY <1>1, <5>1, InvFacts
      <4>4. f[k + 1] \in 1 .. l
        BY <1>2, <2>2, <3>3, <4>1, <4>2, <4>3
      <4> QED  BY <4>1, <4>4
    <3> QED  BY <1>5, <3>1, <3>2, <3>3
  <2>4. {level, i, num_leaves, num_parents, num_children, inner_index} \subseteq Nat
    BY <2>2
  <2>5. it \in 0 .. Len(items) /\ num_items \in 0 .. Len(items)
    BY <1>2, <2>2
  <2> QED  BY <1>2, <1>3, <1>5, <2>2, <2>3, <2>4, <2>5 DEF TypeOK
<1>6. CASE phase = "done"
  <2>1. LoadDone(e, f)
    BY <1>6 DEF LoadInv
  <2>2. /\ num_leaves \in Nat /\ num_items = 0 /\ it = Len(items) /\ leaf = NULL
        /\ {level, i, num_parents, num_children, inner_index} \subseteq Nat
    BY <2>1 DEF LoadDone
  <2>3. btree.root \in 1 .. k \cup {NULL}
    BY <1>1, <1>2, <2>1 DEF LoadDone
  <2>4. {level, i, num_leaves, num_parents, num_children, inner_index} \subseteq Nat
    BY <2>2
  <2>5. it \in 0 .. Len(items) /\ num_items \in 0 .. Len(items)
    BY <1>2, <2>2
  <2> QED  BY <1>2, <1>3, <1>6, <2>2, <2>3, <2>4, <2>5 DEF TypeOK
<1>7. phase \in {"leaves", "parents", "inner", "done"}
  BY DEF LoadInv
<1> QED  BY <1>4, <1>5, <1>6, <1>7

LEMMA IInvImpliesSharesAddUp == IInv => SharesAddUp
<1> SUFFICES ASSUME NEW e, NEW f, LoadInv(e, f) PROVE SharesAddUp
  BY DEF IInv
<1>1. TypeOK
  BY IInvImpliesTypeOK DEF IInv
<1>2. Len(items) \in Nat /\ it \in Nat /\ num_items \in Nat /\ num_leaves \in Nat
      /\ num_children \in Nat /\ num_parents \in Nat
  <2>1. Len(items) \in Nat
    BY InvFacts
  <2> QED  BY <1>1, <2>1 DEF TypeOK
<1>3. ASSUME phase = "leaves", i = num_leaves PROVE it = Len(items) /\ num_items = 0
  <2>1. Shared(num_items, num_leaves - i, 1, leafslotmax) /\ num_items = Len(items) - it
    BY <1>3 DEF LoadInv, LeavesLoop
  <2>2. num_leaves - i = 0 /\ 0 * leafslotmax = 0
    BY <1>2, <1>3, CapacityAssumption
  <2>3. num_items <= 0
    BY <2>1, <2>2 DEF Shared
  <2> QED  BY <1>2, <2>1, <2>3
<1>4. ASSUME phase \in {"parents", "inner"}, i = num_parents PROVE Left = 0
  <2>1. LevelLoop(e, f)
    BY <1>4 DEF LoadInv, ParentsLoop, InnerLoop
  <2>2. Left \in Nat /\ Shared(Left, num_parents - i, 2, innerslotmax + 1)
    BY <2>1 DEF LevelLoop
  <2>3. num_parents - i = 0 /\ 0 * (innerslotmax + 1) = 0
    BY <1>2, <1>4, CapacityAssumption
  <2>4. Left <= 0
    BY <2>2, <2>3 DEF Shared
  <2> QED  BY <2>2, <2>4
<1>5. ASSUME phase = "parents", i = num_parents PROVE leaf = NULL /\ num_leaves = 0
  <2>1. num_leaves = 0
    BY <1>4, <1>5 DEF Left
  <2> QED  BY <1>5, <2>1 DEF LoadInv, ParentsLoop
<1>6. ASSUME phase = "inner", i = num_parents PROVE num_children = 0
  BY <1>4, <1>6 DEF Left
<1>7. ASSUME NEW v \in DOMAIN btree.node PROVE btree.node[v].slotuse > 0
  <2>1. PICK l, k : l = NumLeaves /\ k = NumNodes
    OBVIOUS
  <2>2. l \in Nat /\ k \in Nat /\ l <= k /\ Built(items, btree.node, e, f, l, k) /\ v \in 1 .. k
    BY <2>1, InvFacts
  <2>3. CASE v \in 1 .. l
    <3>1. /\ btree.node[v] = LeafAt(items, Before(e, v), e[v])
          /\ Before(e, v) \in Nat /\ e[v] \in 1 .. Len(items) /\ Before(e, v) < e[v]
      BY <2>1, <2>3, LeafEnds
    <3>2. btree.node[v].slotuse = e[v] - Before(e, v)
      BY <3>1 DEF LeafAt
    <3> QED  BY <1>2, <3>1, <3>2
  <2>4. CASE v \in l + 1 .. k
    <3>1. InnersBuilt(items, btree.node, e, f, l, k)
      BY <2>2 DEF Built
    <3>2. btree.node[v] = InnerAt(items, e, btree.node[v].level, f[v], f[v + 1]) /\ f[v] + 1 < f[v + 1]
      BY <2>4, <3>1 DEF InnersBuilt
    <3>3. btree.node[v].slotuse = f[v + 1] - f[v] - 1
      BY <3>2 DEF InnerAt
    <3>4. v \in l + 1 .. k + 1 /\ v + 1 \in l + 1 .. k + 1
      BY <2>2, <2>4
    <3>5. f[v] \in 1 .. k + 1 /\ f[v + 1] \in 1 .. k + 1
      BY <2>1, <3>4, InvFacts
    <3> QED  BY <2>2, <3>2, <3>3, <3>5
  <2> QED  BY <2>2, <2>3, <2>4
<1> QED  BY <1>3, <1>5, <1>6, <1>7 DEF SharesAddUp

LEMMA IInvImpliesOrphansListedOnce == IInv => OrphansListedOnce
<1> SUFFICES ASSUME NEW e, NEW f, LoadInv(e, f), phase = "inner" PROVE OrphansListedOnce
  BY DEF IInv, OrphansListedOnce
<1>1. PICK k, p, last, c, x, left :
        /\ k = NumNodes /\ p = i /\ last = k - i /\ c = f[k + 1] /\ x = inner_index /\ left = num_children
  OBVIOUS
<1>2. LevelLoop(e, f) /\ InnerLoop(e, f)
  BY DEF LoadInv, InnerLoop
<1>3. /\ k \in Nat /\ p \in Nat /\ x \in Nat /\ left \in Nat /\ p <= x /\ c \in 1 .. k + 1
      /\ c = last - left + 1 /\ last \in Int
      /\ \A j \in 0 .. p - 1 : nextlevel[j] = Entry(last + 1 + j, items[e[last + 1 + j]][1])
      /\ \A s \in 0 .. left - 1 : nextlevel[x + s] = Entry(c + s, items[e[c + s]][1])
  <2>1. k \in Nat /\ NumLeaves \in Nat /\ NumLeaves <= k
    BY <1>1, InvFacts
  <2>2. k + 1 \in NumLeaves + 1 .. k + 1
    BY <2>1
  <2>3. c \in 1 .. k + 1
    BY <1>1, <2>2, InvFacts
  <2>4. Left = left
    BY <1>1 DEF Left
  <2>5. p \in Nat /\ x \in Nat /\ left \in Nat /\ c = last - left + 1
    BY <1>1, <1>2, <2>4 DEF LevelLoop
  <2>6. \A j \in 0 .. p - 1 : nextlevel[j] = Entry(last + 1 + j, items[e[last + 1 + j]][1])
    BY <1>1, <1>2 DEF LevelLoop
  <2>7. p <= x /\ \A s \in 0 .. left - 1 : nextlevel[x + s] = Entry(c + s, items[e[c + s]][1])
    BY <1>1, <1>2 DEF InnerLoop
  <2>8. last \in Int
    BY <1>1, <2>1, <2>5
  <2> QED  BY <2>1, <2>3, <2>5, <2>6, <2>7, <2>8
<1>4. last = k - p
  BY <1>1
<1>5. Orphans = c .. k
  BY <1>1, OrphansAre
<1> HIDE <1>1
<1>6. PICK live : live = 0 .. p - 1 \cup x .. x + left - 1
  OBVIOUS
<1>7. {nextlevel[s].first : s \in live} = c .. k
  <2>1. ASSUME NEW j \in 0 .. p - 1 PROVE nextlevel[j].first = last + 1 + j
    <3>1. nextlevel[j] = Entry(last + 1 + j, items[e[last + 1 + j]][1])
      BY <1>3
    <3> QED  BY <3>1 DEF Entry
  <2>2. ASSUME NEW s \in 0 .. left - 1 PROVE nextlevel[x + s].first = c + s
    <3>1. nextlevel[x + s] = Entry(c + s, items[e[c + s]][1])
      BY <1>3
    <3> QED  BY <3>1 DEF Entry
  <2>3. ASSUME NEW s \in live PROVE nextlevel[s].first \in c .. k
    <3>1. CASE s \in 0 .. p - 1
      <4>1. last + 1 + s \in c .. k
        BY <1>3, <1>4, <3>1
      <4> QED  BY <2>1, <3>1, <4>1
    <3>2. CASE s \in x .. x + left - 1
      <4>1. s - x \in 0 .. left - 1 /\ x + (s - x) = s /\ c + (s - x) \in c .. k
        BY <1>3, <1>4, <3>2
      <4>2. nextlevel[x + (s - x)].first = c + (s - x)
        BY <2>2, <4>1
      <4> QED  BY <4>1, <4>2
    <3> QED  BY <1>6, <3>1, <3>2
  <2>4. ASSUME NEW v \in c .. k PROVE \E s \in live : nextlevel[s].first = v
    <3>1. CASE v <= last
      <4>1. v - c \in 0 .. left - 1 /\ c + (v - c) = v /\ x + (v - c) \in x .. x + left - 1
        BY <1>3, <3>1
      <4>2. nextlevel[x + (v - c)].first = v
        BY <2>2, <4>1
      <4> QED  BY <1>6, <4>1, <4>2
    <3>2. CASE v > last
      <4>1. v - (last + 1) \in 0 .. p - 1 /\ last + 1 + (v - (last + 1)) = v
        BY <1>3, <1>4, <3>2
      <4>2. nextlevel[v - (last + 1)].first = v
        BY <2>1, <4>1
      <4> QED  BY <1>6, <4>1, <4>2
    <3> QED  BY <1>3, <3>1, <3>2
  <2> QED  BY <2>3, <2>4
<1>8. Cardinality(live) = p + left
  <2>1. PICK A, B : A = 0 .. p - 1 /\ B = x .. x + left - 1
    OBVIOUS
  <2>2. IsFiniteSet(A) /\ Cardinality(A) = p
    BY <1>3, <2>1, FS_Interval
  <2>3. IsFiniteSet(B) /\ Cardinality(B) = left
    <3>1. x \in Int /\ x + left - 1 \in Int
      BY <1>3
    <3>2. IsFiniteSet(B) /\ Cardinality(B) = IF x > x + left - 1 THEN 0 ELSE (x + left - 1) - x + 1
      BY <2>1, <3>1, FS_Interval
    <3>3. (IF x > x + left - 1 THEN 0 ELSE (x + left - 1) - x + 1) = left
      BY <1>3
    <3> QED  BY <3>2, <3>3
  <2>4. A \cap B = {}
    BY <1>3, <2>1
  <2>5. Cardinality(A \cap B) = 0
    BY <2>4, FS_EmptySet
  <2>6. Cardinality(A \cup B) = Cardinality(A) + Cardinality(B) - Cardinality(A \cap B)
    BY <2>2, <2>3, FS_Union
  <2> QED  BY <1>3, <1>6, <2>1, <2>2, <2>3, <2>5, <2>6
<1>9. Cardinality(Orphans) = p + left
  <2>1. c \in Int /\ k \in Int
    BY <1>3
  <2>2. Cardinality(c .. k) = IF c > k THEN 0 ELSE k - c + 1
    BY <2>1, FS_Interval
  <2>3. (IF c > k THEN 0 ELSE k - c + 1) = p + left
    BY <1>3, <1>4
  <2> QED  BY <1>5, <2>2, <2>3
<1> USE <1>1
<1>10. live = 0 .. i - 1 \cup inner_index .. inner_index + num_children - 1
  BY <1>6
<1> QED  BY <1>5, <1>7, <1>8, <1>9, <1>10 DEF OrphansListedOnce

(* The loops of bulk_load keep their counters in range, share out every     *)
(* item, every leaf and every node of the level below, and the array that   *)
(* holds two levels at once lists each node without parent exactly once,    *)
(* for ranges of any length and nodes of any capacity (btree.h 2832-2928).  *)
THEOREM LoadStaysConsistent == Spec => []LoadConsistent
<1>1. IInv => LoadConsistent
  BY IInvImpliesTypeOK, IInvImpliesSharesAddUp, IInvImpliesOrphansListedOnce DEF LoadConsistent
<1> QED  BY <1>1, Invariance, PTL

(* At the end of the loop over the leaves there are as many as were planned. *)
LEMMA LeavesWidth ==
  ASSUME NEW e, NEW f, LoadInv(e, f), EndLeaves
  PROVE  num_leaves \in Nat /\ Cardinality(LevelNodes(level)) = num_leaves
<1>1. LeavesLoop(e) /\ ~(i < num_leaves)
  BY DEF EndLeaves, LoadInv
<1>2. NumNodes \in Nat /\ DOMAIN btree.node = 1 .. NumNodes
      /\ Built(items, btree.node, e, f, NumLeaves, NumNodes)
  BY InvFacts
<1>3. num_leaves \in Nat
  BY <1>1, InvFacts, LeafShares DEF LeavesLoop
<1>4. NumNodes = num_leaves /\ NumLeaves = num_leaves /\ level = 0
  <2>1. NumNodes = i /\ NumLeaves = i /\ i <= num_leaves /\ level = 0
    BY <1>1 DEF LeavesLoop
  <2> QED  BY <1>1, <1>2, <1>3, <2>1
<1>5. \A v \in 1 .. num_leaves : btree.node[v].level = 0
  BY <1>2, <1>4, BuiltLevels
<1>6. LevelNodes(level) = 1 .. num_leaves
  BY <1>2, <1>4, <1>5 DEF LevelNodes
<1> QED  BY <1>3, <1>6, FirstNaturals

(* At the end of a level of inner nodes there are as many as were planned:  *)
(* the last num_parents nodes, and none before them.                        *)
LEMMA InnerWidth ==
  ASSUME NEW e, NEW f, LoadInv(e, f), EndLevel
  PROVE  num_parents \in Nat \ {0} /\ Cardinality(LevelNodes(level)) = num_parents
<1>1. phase \in {"parents", "inner"} /\ ~(i < num_parents) /\ LevelLoop(e, f)
  BY DEF EndLevel, LoadInv, ParentsLoop, InnerLoop
<1>2. PICK k, p, last : k = NumNodes /\ p = num_parents /\ last = k - i
  OBVIOUS
<1>3. /\ k \in Nat /\ DOMAIN btree.node = 1 .. k
      /\ Built(items, btree.node, e, f, NumLeaves, k)
  BY <1>2, InvFacts
<1>4. p \in Nat \ {0} /\ last = k - p /\ last \in 1 .. k /\ level \in Nat \ {0}
  <2>1. /\ p \in Nat \ {0} /\ i \in 0 .. p /\ NumLeaves <= last /\ NumLeaves >= 1
        /\ level \in Nat \ {0}
    BY <1>1, <1>2 DEF LevelLoop
  <2>2. i = p
    BY <1>1, <1>2, <2>1
  <2>3. NumLeaves \in Nat
    BY InvFacts
  <2> QED  BY <1>2, <1>3, <2>1, <2>2, <2>3
<1>5. /\ btree.node[last].level = level - 1
      /\ \A v \in last + 1 .. k : btree.node[v].level = level
  BY <1>1, <1>2 DEF LevelLoop
<1>6. ASSUME NEW v \in 1 .. last PROVE btree.node[v].level # level
  <2>1. v = last \/ v < last
    BY <1>4
  <2>2. v < last => btree.node[v].level <= btree.node[last].level
    <3>1. LevelsBuilt(items, btree.node, e, k)
      BY <1>3 DEF Built
    <3>2. v \in 1 .. k
      BY <1>3, <1>4
    <3> QED  BY <1>4, <3>1, <3>2 DEF LevelsBuilt
  <2>3. btree.node[v].level \in Nat
    <3>1. v \in 1 .. k
      BY <1>3, <1>4
    <3> QED  BY <1>3, <3>1, BuiltLevels
  <2>4. btree.node[v].level <= level - 1
    <3>1. CASE v = last
      BY <1>4, <1>5, <3>1
    <3>2. CASE v < last
      BY <1>5, <2>2, <3>2
    <3> QED  BY <2>1, <3>1, <3>2
  <2> QED  BY <1>4, <2>3, <2>4
<1>7. LevelNodes(level) = last + 1 .. k
  <2>1. ASSUME NEW v \in 1 .. k PROVE btree.node[v].level = level <=> v \in last + 1 .. k
    <3>1. v \in 1 .. last \/ v \in last + 1 .. k
      BY <1>4
    <3>2. v \in 1 .. last => v \notin last + 1 .. k
      BY <1>4
    <3> QED  BY <1>5, <1>6, <3>1, <3>2
  <2>2. last + 1 .. k \subseteq 1 .. k
    BY <1>4
  <2> QED  BY <1>3, <2>1, <2>2 DEF LevelNodes
<1>8. Cardinality(last + 1 .. k) = p
  <2>1. Cardinality(last + 1 .. k) = IF last + 1 > k THEN 0 ELSE k - (last + 1) + 1
    BY <1>3, <1>4, FS_Interval
  <2>2. (IF last + 1 > k THEN 0 ELSE k - (last + 1) + 1) = p
    BY <1>3, <1>4
  <2> QED  BY <2>1, <2>2
<1> QED  BY <1>2, <1>4, <1>7, <1>8

(* A new level has at most half as many nodes as the one below it. *)
LEMMA NarrowStep ==
  ASSUME IInv, [Next]_vars
  PROVE  level' > level => /\ num_parents' > 0
                           /\ 2 * num_parents' <= Cardinality(LevelNodes(level))
<1> SUFFICES ASSUME level' > level
             PROVE  /\ num_parents' > 0
                    /\ 2 * num_parents' <= Cardinality(LevelNodes(level))
  OBVIOUS
<1>1. level \in Nat
  BY IInvImpliesTypeOK DEF TypeOK
<1>2. level' # level
  BY <1>1
<1>3. ~LoadLeaf /\ ~LoadParent /\ ~LoadInner /\ ~UNCHANGED vars /\ ~Loaded
  BY <1>2 DEF LoadLeaf, FillLeaf, LoadParent, FillParent, LoadInner, FillInner, Loaded, vars
<1>4. PICK e, f : LoadInv(e, f)
  BY DEF IInv
<1>5. PICK w : w = Cardinality(LevelNodes(level))
  OBVIOUS
<1>6. w \in Nat /\ w >= 2 /\ num_parents' = NumParents(w)
  <2>1. CASE EndLeaves
    <3>1. num_leaves \in Nat /\ w = num_leaves
      BY <1>4, <1>5, <2>1, LeavesWidth
    <3>2. btree.headleaf # btree.tailleaf /\ num_parents' = NumParents(num_leaves)
      BY <1>2, <2>1 DEF EndLeaves
    <3>3. num_leaves >= 2
      <4>1. PICK l : l = NumLeaves
        OBVIOUS
      <4>2. l \in Nat /\ IsStore(btree, items, btree.node, l, NumNodes, btree.root)
        BY <1>4, <4>1, InvFacts DEF IsStore
      <4>3. /\ btree.headleaf = IF l = 0 THEN NULL ELSE 1
            /\ btree.tailleaf = IF l = 0 THEN NULL ELSE l
        BY <4>2, StoreLeaves
      <4>4. l # 0 /\ l # 1
        BY <3>2, <4>3
      <4>5. l <= num_leaves
        BY <1>4, <2>1, <4>1 DEF EndLeaves, LoadInv, LeavesLoop
      <4> QED  BY <3>1, <4>2, <4>4, <4>5
    <3> QED  BY <3>1, <3>2, <3>3
  <2>2. CASE EndLevel
    <3>1. num_parents \in Nat \ {0} /\ w = num_parents
      BY <1>4, <1>5, <2>2, InnerWidth
    <3>2. num_parents # 1 /\ num_parents' = NumParents(num_parents)
      BY <1>2, <2>2 DEF EndLevel
    <3> QED  BY <3>1, <3>2
  <2> QED  BY <1>3, <2>1, <2>2 DEF Next
<1>7. NumParents(w) \in Nat \ {0} /\ NumParents(w) * 2 <= w
  BY <1>6, InnerShares
<1> QED  BY <1>5, <1>6, <1>7

(* Every level, the parents of the leaves and the first inner level over    *)
(* them included, has a node or more and at most half as many as the one    *)
(* below it, so that the loop over the levels comes to one node             *)
(* (btree.h 2851, 2889).                                                    *)
THEOREM LevelsGetNarrower == Spec => LevelsNarrow
<1>1. IInv /\ [Next]_vars =>
        [level' > level => /\ num_parents' > 0
                           /\ 2 * num_parents' <= Cardinality(LevelNodes(level))]_vars
  BY NarrowStep
<1> QED  BY <1>1, Invariance, PTL DEF Spec, LevelsNarrow

-----------------------------------------------------------------------------
(* The shape of the loaded tree.                                           *)

Shape(its, nd, e, f, l, k) ==
  /\ Built(its, nd, e, f, l, k)
  /\ l \in 1 .. k
  /\ f[k + 1] = k
  /\ e[k] = Len(its)
  /\ Len(its) \in Nat

(* The numbers of a finished tree are in range. *)
LEMMA ShapeFacts ==
  ASSUME NEW its, NEW nd, NEW e, NEW f, NEW l, NEW k, Shape(its, nd, e, f, l, k)
  PROVE  /\ l \in Nat /\ k \in Nat /\ l \in 1 .. k /\ l >= 1 /\ Len(its) \in Nat
         /\ DOMAIN nd = 1 .. k /\ f[k + 1] = k /\ e[k] = Len(its)
         /\ \A v \in 1 .. k : e[v] \in 1 .. Len(its) /\ e[v] \in Nat
         /\ \A v \in l + 1 .. k + 1 : f[v] \in 1 .. k + 1 /\ f[v] \in Nat
         /\ Built(its, nd, e, f, l, k)
<1>1. Built(its, nd, e, f, l, k) /\ l \in 1 .. k /\ f[k + 1] = k /\ e[k] = Len(its) /\ Len(its) \in Nat
  BY DEF Shape
<1>2. l \in Nat /\ k \in Nat
  BY <1>1 DEF Built
<1>3. /\ DOMAIN nd = 1 .. k
      /\ \A v \in 1 .. k : e[v] \in 1 .. Len(its)
      /\ \A v \in l + 1 .. k + 1 : f[v] \in 1 .. k + 1
  BY <1>1, BuiltFacts
<1>4. \A v \in 1 .. k : e[v] \in Nat
  BY <1>1, <1>3
<1>5. \A v \in l + 1 .. k + 1 : f[v] \in Nat
  BY <1>2, <1>3
<1> QED  BY <1>1, <1>2, <1>3, <1>4, <1>5

(* Inner nodes. *)
LEMMA ShapeSpan ==
  ASSUME NEW its, NEW nd, NEW e, NEW f, NEW l, NEW k, Shape(its, nd, e, f, l, k),
         NEW p \in l + 1 .. k
  PROVE  /\ p \in 1 .. k /\ f[p] \in 1 .. k /\ f[p + 1] \in 1 .. k /\ f[p] \in Nat /\ f[p + 1] \in Nat
         /\ f[p] + 1 < f[p + 1] /\ f[p + 1] <= p /\ f[p + 1] - f[p] <= innerslotmax + 1
         /\ e[p] = e[f[p + 1] - 1]
<1>1. /\ l \in Nat /\ k \in Nat /\ l >= 1 /\ Built(its, nd, e, f, l, k)
      /\ \A v \in l + 1 .. k + 1 : f[v] \in 1 .. k + 1 /\ f[v] \in Nat
  BY ShapeFacts
<1>2. p \in 1 .. k /\ p \in l + 1 .. k + 1 /\ p + 1 \in l + 1 .. k + 1
  BY <1>1
<1>3. InnersBuilt(its, nd, e, f, l, k)
  BY <1>1 DEF Built
<1>4. /\ f[p] + 1 < f[p + 1] /\ f[p + 1] <= p /\ f[p + 1] - f[p] <= innerslotmax + 1
      /\ e[p] = e[f[p + 1] - 1]
  BY <1>3 DEF InnersBuilt
<1>5. f[p] \in 1 .. k + 1 /\ f[p] \in Nat /\ f[p + 1] \in 1 .. k + 1 /\ f[p + 1] \in Nat
  BY <1>1, <1>2
<1>6. f[p] \in 1 .. k /\ f[p + 1] \in 1 .. k
  BY <1>1, <1>2, <1>4, <1>5
<1> QED  BY <1>2, <1>4, <1>5, <1>6

LEMMA ShapeBelow ==
  ASSUME NEW its, NEW nd, NEW e, NEW f, NEW l, NEW k, Shape(its, nd, e, f, l, k),
         NEW p \in l + 1 .. k
  PROVE  /\ nd[p].level \in Nat \ {0}
         /\ \A c \in f[p] .. f[p + 1] - 1 : c \in 1 .. p - 1 /\ nd[c].level + 1 = nd[p].level
<1>1. p \in 1 .. k /\ f[p] \in 1 .. k /\ f[p] \in Nat /\ f[p + 1] \in Nat /\ f[p + 1] <= p
  BY ShapeSpan
<1>2. InnersBuilt(its, nd, e, f, l, k) /\ k \in Nat
  BY ShapeFacts DEF Built
<1>3. /\ nd[p].level \in Nat \ {0}
      /\ \A c \in f[p] .. f[p + 1] - 1 : nd[c].level + 1 = nd[p].level
  BY <1>2 DEF InnersBuilt
<1>4. \A c \in f[p] .. f[p + 1] - 1 : c \in 1 .. p - 1
  BY <1>1, <1>2
<1> QED  BY <1>3, <1>4

LEMMA ShapeInner ==
  ASSUME NEW its, NEW nd, NEW e, NEW f, NEW l, NEW k, Shape(its, nd, e, f, l, k),
         NEW p \in l + 1 .. k
  PROVE  nd[p] = InnerAt(its, e, nd[p].level, f[p], f[p + 1])
<1>1. InnersBuilt(its, nd, e, f, l, k)
  BY ShapeFacts DEF Built
<1> QED  BY <1>1 DEF InnersBuilt

LEMMA ShapeChild ==
  ASSUME NEW its, NEW nd, NEW e, NEW f, NEW l, NEW k, Shape(its, nd, e, f, l, k),
         NEW p \in l + 1 .. k
  PROVE  /\ DOMAIN nd[p].childid = 0 .. f[p + 1] - f[p] - 1
         /\ \A s \in 0 .. f[p + 1] - f[p] - 1 : nd[p].childid[s] = f[p] + s
<1>1. PICK a, b, x, lev : a = f[p] /\ b = f[p + 1] /\ x = nd[p] /\ lev = nd[p].level
  OBVIOUS
<1>2. x = InnerAt(its, e, lev, a, b)
  BY <1>1, ShapeInner
<1>3. x.childid = [s \in 0 .. b - a - 1 |-> a + s]
  BY ONLY <1>2 DEF InnerAt
<1> QED  BY <1>1, <1>3

LEMMA ShapeRow ==
  ASSUME NEW its, NEW nd, NEW e, NEW f, NEW l, NEW k, Shape(its, nd, e, f, l, k),
         NEW p \in l + 1 .. k
  PROVE  /\ nd[p].slotuse = f[p + 1] - f[p] - 1
         /\ nd[p].slotkey = [s \in 0 .. f[p + 1] - f[p] - 2 |-> its[e[f[p] + s]][1]]
<1>1. PICK a, b, x, lev : a = f[p] /\ b = f[p + 1] /\ x = nd[p] /\ lev = nd[p].level
  OBVIOUS
<1>2. x = InnerAt(its, e, lev, a, b)
  BY <1>1, ShapeInner
<1>3. x.slotuse = b - a - 1 /\ x.slotkey = [s \in 0 .. b - a - 2 |-> its[e[a + s]][1]]
  BY ONLY <1>2 DEF InnerAt
<1> QED  BY <1>1, <1>3

(* The keys an inner node holds are the largest below its children. *)
LEMMA ShapeKeys ==
  ASSUME NEW its, NEW nd, NEW e, NEW f, NEW l, NEW k, Shape(its, nd, e, f, l, k),
         NEW p \in l + 1 .. k
  PROVE  /\ nd[p].slotuse = f[p + 1] - f[p] - 1
         /\ DOMAIN nd[p].slotkey = 0 .. f[p + 1] - f[p] - 2
         /\ \A s \in 0 .. f[p + 1] - f[p] - 2 : nd[p].slotkey[s] = its[e[f[p] + s]][1]
<1>1. /\ nd[p].slotuse = f[p + 1] - f[p] - 1
      /\ nd[p].slotkey = [s \in 0 .. f[p + 1] - f[p] - 2 |-> its[e[f[p] + s]][1]]
  BY ShapeRow
<1> QED  BY ONLY <1>1

(* Leaves. *)
LEMMA ShapeLeaf ==
  ASSUME NEW its, NEW nd, NEW e, NEW f, NEW l, NEW k, Shape(its, nd, e, f, l, k),
         NEW v \in 1 .. l
  PROVE  /\ v \in 1 .. k /\ Before(e, v) \in Nat /\ Before(e, v) < e[v] /\ e[v] \in 1 .. Len(its)
         /\ e[v] - Before(e, v) <= leafslotmax
         /\ nd[v] = LeafAt(its, Before(e, v), e[v])
         /\ nd[v].level = 0 /\ nd[v].slotuse = e[v] - Before(e, v)
         /\ \A s \in 0 .. e[v] - Before(e, v) - 1 :
              /\ nd[v].slotkey[s] = its[Before(e, v) + s + 1][1]
              /\ nd[v].slotdata[s] = its[Before(e, v) + s + 1][2]
<1>1. /\ l \in Nat /\ k \in Nat /\ l \in 1 .. k /\ Built(its, nd, e, f, l, k)
      /\ \A u \in 1 .. k : e[u] \in 1 .. Len(its) /\ e[u] \in Nat
  BY ShapeFacts
<1>2. v \in 1 .. k /\ (v # 1 => v - 1 \in 1 .. k)
  BY <1>1
<1>3. Before(e, v) \in Nat
  BY <1>1, <1>2 DEF Before
<1>4. LeavesBuilt(its, nd, e, l)
  BY <1>1 DEF Built
<1>5. /\ Before(e, v) < e[v] /\ e[v] - Before(e, v) <= leafslotmax
      /\ nd[v] = LeafAt(its, Before(e, v), e[v])
  BY <1>4 DEF LeavesBuilt
<1>6. PICK a, b : a = Before(e, v) /\ b = e[v]
  OBVIOUS
<1>7. /\ LeafAt(its, a, b).level = 0 /\ LeafAt(its, a, b).slotuse = b - a
      /\ \A s \in 0 .. b - a - 1 : /\ LeafAt(its, a, b).slotkey[s] = its[a + s + 1][1]
                                   /\ LeafAt(its, a, b).slotdata[s] = its[a + s + 1][2]
  <2> HIDE <1>6
  <2> QED  BY DEF LeafAt
<1> QED  BY <1>1, <1>2, <1>3, <1>5, <1>6, <1>7

(* Levels. *)
LEMMA ShapeLevels ==
  ASSUME NEW its, NEW nd, NEW e, NEW f, NEW l, NEW k, Shape(its, nd, e, f, l, k)
  PROVE  /\ \A v \in 1 .. k : nd[v].level \in Nat /\ (nd[v].level = 0 <=> v \in 1 .. l)
                              /\ (isleafnode(nd[v]) <=> v \in 1 .. l)
         /\ \A u, v \in 1 .. k : u < v /\ nd[u].level = nd[v].level => e[u] < e[v]
         /\ \A u \in 1 .. k - 1 : nd[u + 1].level # nd[u].level => e[u] = Len(its)
         /\ \A u, v \in 1 .. l : u <= v => e[u] <= e[v]
<1>1. /\ l \in Nat /\ k \in Nat /\ l \in 1 .. k /\ Built(its, nd, e, f, l, k)
      /\ \A u \in 1 .. k : e[u] \in 1 .. Len(its) /\ e[u] \in Nat
  BY ShapeFacts
<1>2. /\ \A v \in 1 .. l : nd[v].level = 0 /\ isleafnode(nd[v])
      /\ \A v \in l + 1 .. k : nd[v].level \in Nat \ {0} /\ ~isleafnode(nd[v])
      /\ \A v \in 1 .. k : nd[v].level \in Nat
  BY <1>1, BuiltLevels
<1>3. LevelsBuilt(its, nd, e, k)
  BY <1>1 DEF Built
<1>4. \A u, v \in 1 .. k : u < v /\ nd[u].level = nd[v].level => e[u] < e[v]
  BY <1>3 DEF LevelsBuilt
<1>5. \A u \in 1 .. k - 1 : nd[u + 1].level # nd[u].level => e[u] = Len(its)
  BY <1>3 DEF LevelsBuilt
<1>6. ASSUME NEW u \in 1 .. l, NEW v \in 1 .. l, u <= v PROVE e[u] <= e[v]
  <2>1. u \in 1 .. k /\ v \in 1 .. k /\ nd[u].level = nd[v].level
    BY <1>1, <1>2
  <2>2. e[u] \in Nat /\ e[v] \in Nat /\ (u = v \/ u < v)
    BY <1>1, <1>6, <2>1
  <2> QED  BY <1>4, <2>1, <2>2
<1>7. \A v \in 1 .. k : nd[v].level \in Nat /\ (nd[v].level = 0 <=> v \in 1 .. l)
                        /\ (isleafnode(nd[v]) <=> v \in 1 .. l)
  <2> TAKE v \in 1 .. k
  <2>1. v \in 1 .. l \/ (v \in l + 1 .. k /\ v \notin 1 .. l)
    BY <1>1
  <2> QED  BY <1>2, <2>1
<1> QED  BY <1>4, <1>5, <1>6, <1>7

(* The parent of a node, and its place there. *)
ParentOf(f, l, k, v) == CHOOSE p \in l + 1 .. k : f[p] <= v /\ v < f[p + 1]

(* Every node but the root is the child of exactly one. *)
LEMMA ShapeParent ==
  ASSUME NEW its, NEW nd, NEW e, NEW f, NEW l, NEW k, Shape(its, nd, e, f, l, k),
         NEW v \in 1 .. k - 1, NEW t, t.node = nd
  PROVE  /\ ParentOf(f, l, k, v) \in l + 1 .. k
         /\ f[ParentOf(f, l, k, v)] <= v /\ v < f[ParentOf(f, l, k, v) + 1]
         /\ v < ParentOf(f, l, k, v)
         /\ Parent(t, v) = ParentOf(f, l, k, v)
         /\ Place(t, v) = v - f[ParentOf(f, l, k, v)]
<1>1. /\ l \in Nat /\ k \in Nat /\ l \in 1 .. k /\ Built(its, nd, e, f, l, k)
      /\ DOMAIN nd = 1 .. k /\ f[k + 1] = k
  BY ShapeFacts
<1>2. Tiled(f, l, k)
  BY <1>1 DEF Built
<1>3. \E p \in l + 1 .. k : f[p] <= v /\ v < f[p + 1]
  BY <1>1, <1>2 DEF Tiled
<1>4. PICK p \in l + 1 .. k : p = ParentOf(f, l, k, v) /\ f[p] <= v /\ v < f[p + 1]
  BY <1>3 DEF ParentOf
<1>5. PICK a, b : a = f[p] /\ b = f[p + 1]
  OBVIOUS
<1>6. /\ p \in 1 .. k /\ a \in Nat /\ b \in Nat /\ b <= p
      /\ DOMAIN nd[p].childid = 0 .. b - a - 1
      /\ \A s \in 0 .. b - a - 1 : nd[p].childid[s] = a + s
  BY <1>5, ShapeSpan, ShapeChild
<1>7. v < p
  BY <1>1, <1>4, <1>5, <1>6
<1>8. \A q \in 1 .. k : v \in Children(t, q) <=> q = p
  <2> TAKE q \in 1 .. k
  <2>1. CASE q = p
    <3>1. v - a \in 0 .. b - a - 1 /\ a + (v - a) = v
      BY <1>4, <1>5, <1>6
    <3> QED  BY <1>6, <2>1, <3>1 DEF Children
  <2>2. CASE q \in 1 .. l
    <3>1. nd[q] = LeafAt(its, Before(e, q), e[q])
      BY <2>2, ShapeLeaf
    <3>2. nd[q].childid = <<>>
      BY <3>1 DEF LeafAt
    <3>3. q # p
      BY <1>1, <2>2
    <3> QED  BY <3>2, <3>3 DEF Children
  <2>3. CASE q \in l + 1 .. k /\ q # p
    <3>1. /\ f[q] \in Nat /\ f[q + 1] \in Nat
          /\ DOMAIN nd[q].childid = 0 .. f[q + 1] - f[q] - 1
          /\ \A s \in 0 .. f[q + 1] - f[q] - 1 : nd[q].childid[s] = f[q] + s
      BY <2>3, ShapeSpan, ShapeChild
    <3>2. v < f[q] \/ f[q + 1] <= v
      <4>1. /\ p \in l + 1 .. k + 1 /\ p + 1 \in l + 1 .. k + 1
            /\ q \in l + 1 .. k + 1 /\ q + 1 \in l + 1 .. k + 1
        BY <1>1, <2>3
      <4>2. CASE p < q
        <5>1. p + 1 = q \/ p + 1 < q
          BY <1>6, <4>2
        <5>2. f[p + 1] = f[q] \/ f[p + 1] < f[q]
          BY <1>2, <4>1, <5>1 DEF Tiled
        <5>3. v < f[q]
          BY <1>4, <1>5, <1>6, <3>1, <5>2
        <5> QED  BY <5>3
      <4>3. CASE q < p
        <5>1. q + 1 = p \/ q + 1 < p
          BY <1>6, <4>3
        <5>2. f[q + 1] = f[p] \/ f[q + 1] < f[p]
          BY <1>2, <4>1, <5>1 DEF Tiled
        <5> QED  BY <1>1, <1>4, <1>5, <1>6, <3>1, <5>2
      <4> QED  BY <1>1, <1>6, <2>3, <4>2, <4>3
    <3>3. \A s \in 0 .. f[q + 1] - f[q] - 1 : f[q] + s # v
      BY <1>1, <3>1, <3>2
    <3>4. \A s \in DOMAIN nd[q].childid : nd[q].childid[s] # v
      BY <3>1, <3>3
    <3> QED  BY <2>3, <3>4 DEF Children
  <2> QED  BY <1>1, <2>1, <2>2, <2>3
<1>9. Parent(t, v) = p
  BY <1>1, <1>6, <1>8 DEF Parent
<1>10. Place(t, v) = v - a
  <2>1. v - a \in 0 .. b - a - 1 /\ a + (v - a) = v
    BY <1>4, <1>5, <1>6
  <2>2. \A s \in 0 .. b - a - 1 : nd[p].childid[s] = v <=> s = v - a
    BY <1>1, <1>6
  <2> QED  BY <1>6, <1>9, <2>1, <2>2 DEF Place
<1> QED  BY <1>4, <1>5, <1>7, <1>9, <1>10

-----------------------------------------------------------------------------
(* The separators around the nodes of the loaded tree.                     *)

First(nd, v) == v = 1 \/ nd[v - 1].level # nd[v].level

LoAt(its, nd, e, v) == IF First(nd, v) THEN BELOW ELSE its[e[v - 1]][1]
HiAt(its, e, v)     == IF e[v] = Len(its) THEN ABOVE ELSE its[e[v]][1]

(* The root is the first and the last node of its level. *)
LEMMA RootEnds ==
  ASSUME NEW its, NEW nd, NEW e, NEW f, NEW l, NEW k, Shape(its, nd, e, f, l, k)
  PROVE  First(nd, k) /\ LoAt(its, nd, e, k) = BELOW /\ HiAt(its, e, k) = ABOVE /\ (k # 1 => k \in l + 1 .. k)
<1>1. l \in Nat /\ k \in Nat /\ l \in 1 .. k /\ f[k + 1] = k /\ e[k] = Len(its) /\ Built(its, nd, e, f, l, k)
  BY ShapeFacts
<1>2. HiAt(its, e, k) = ABOVE
  BY <1>1 DEF HiAt
<1>3. k # 1 => k \in l + 1 .. k
  <2>1. f[l + 1] = 1
    BY <1>1 DEF Built, Tiled
  <2>2. l = k => f[l + 1] = f[k + 1]
    OBVIOUS
  <2> QED  BY <1>1, <2>1, <2>2
<1>4. First(nd, k)
  <2>1. CASE k = 1
    BY <2>1 DEF First
  <2>2. CASE k # 1
    <3>1. k \in l + 1 .. k
      BY <1>3, <2>2
    <3>2. /\ nd[k].level \in Nat \ {0}
          /\ \A c \in f[k] .. f[k + 1] - 1 : nd[c].level + 1 = nd[k].level
      BY <3>1, ShapeBelow
    <3>3. f[k] \in Nat /\ f[k] + 1 < f[k + 1]
      BY <3>1, ShapeSpan
    <3>4. k - 1 \in f[k] .. f[k + 1] - 1
      BY <1>1, <3>3
    <3>5. nd[k - 1].level + 1 = nd[k].level
      BY <3>2, <3>4
    <3>6. nd[k - 1].level \in Nat
      <4>1. k - 1 \in 1 .. k
        BY <1>1, <2>2
      <4> QED  BY <4>1, ShapeLevels
    <3> QED  BY <3>5, <3>6 DEF First
  <2> QED  BY <2>1, <2>2
<1> QED  BY <1>2, <1>3, <1>4 DEF LoAt

(* The first of the children is the first of its level if its parent is. *)
LEMMA FirstUp ==
  ASSUME NEW its, NEW nd, NEW e, NEW f, NEW l, NEW k, Shape(its, nd, e, f, l, k),
         NEW p \in l + 1 .. k, NEW v \in f[p] .. f[p + 1] - 1
  PROVE  /\ v # f[p] => ~First(nd, v)
         /\ v = f[p] => /\ First(nd, v) <=> First(nd, p)
                        /\ ~First(nd, v) => e[v - 1] = e[p - 1]
<1>1. l \in Nat /\ k \in Nat /\ l \in 1 .. k /\ Built(its, nd, e, f, l, k)
  BY ShapeFacts
<1>2. f[p] \in 1 .. k /\ f[p + 1] \in 1 .. k /\ f[p] \in Nat /\ f[p + 1] \in Nat /\ f[p] + 1 < f[p + 1]
  BY ShapeSpan
<1>3. /\ nd[p].level \in Nat \ {0} /\ v \in 1 .. p - 1 /\ nd[v].level + 1 = nd[p].level
      /\ \A c \in f[p] .. f[p + 1] - 1 : nd[c].level + 1 = nd[p].level
  BY ShapeBelow
<1>4. \A u \in 1 .. k : nd[u].level \in Nat /\ (nd[u].level = 0 <=> u \in 1 .. l)
  BY ShapeLevels
<1>5. p \in 1 .. k /\ v \in 1 .. k /\ p \in Nat /\ v \in Nat
  BY <1>1, <1>3
<1>6. CASE v # f[p]
  <2>1. v - 1 \in f[p] .. f[p + 1] - 1 /\ v # 1 /\ v - 1 \in 1 .. k
    BY <1>1, <1>2, <1>5, <1>6
  <2>2. nd[v - 1].level + 1 = nd[v].level + 1
    BY <1>3, <2>1
  <2>3. nd[v - 1].level = nd[v].level
    BY <1>4, <1>5, <2>1, <2>2
  <2>4. ~First(nd, v)
    BY <2>1, <2>3 DEF First
  <2> QED  BY <1>6, <2>4
<1>7. CASE v = f[p] /\ p = l + 1
  <2>1. v = 1
    BY <1>1, <1>7 DEF Built, Tiled
  <2>2. First(nd, v)
    BY <2>1 DEF First
  <2>3. First(nd, p)
    <3>1. p - 1 = l /\ l \in 1 .. k /\ l \in 1 .. l
      BY <1>1, <1>7
    <3>2. nd[p - 1].level = 0
      BY <1>4, <3>1
    <3> QED  BY <1>3, <3>2 DEF First
  <2> QED  BY <1>7, <2>2, <2>3
<1>8. CASE v = f[p] /\ p # l + 1
  <2>1. PICK q \in l + 1 .. k : q = p - 1 /\ q + 1 = p
    BY <1>1, <1>8
  <2>2. f[q] \in Nat /\ f[q] \in 1 .. k /\ f[q] + 1 < f[q + 1] /\ e[q] = e[f[q + 1] - 1]
    BY ShapeSpan
  <2>3. \A c \in f[q] .. f[q + 1] - 1 : nd[c].level + 1 = nd[q].level
    BY ShapeBelow
  <2>4. v - 1 \in f[q] .. f[q + 1] - 1 /\ v # 1 /\ v - 1 \in 1 .. k
    BY <1>1, <1>2, <1>5, <1>8, <2>1, <2>2
  <2>5. nd[v - 1].level + 1 = nd[q].level /\ nd[v].level + 1 = nd[p].level
    BY <1>3, <2>3, <2>4
  <2>6. nd[v - 1].level \in Nat /\ nd[v].level \in Nat
    BY <1>4, <1>5, <2>4
  <2>7. First(nd, v) <=> nd[v - 1].level # nd[v].level
    BY <2>4 DEF First
  <2>8. p # 1
    BY <1>1
  <2>9. First(nd, p) <=> nd[q].level # nd[p].level
    BY <2>1, <2>8 DEF First
  <2>10. First(nd, v) <=> First(nd, p)
    BY <2>5, <2>6, <2>7, <2>9
  <2>11. e[v - 1] = e[p - 1]
    BY <1>8, <2>1, <2>2
  <2> QED  BY <1>8, <2>10, <2>11
<1> QED  BY <1>6, <1>7, <1>8

LEMMA LoUp ==
  ASSUME NEW its, NEW nd, NEW e, NEW f, NEW l, NEW k, Shape(its, nd, e, f, l, k),
         NEW p \in l + 1 .. k, NEW v \in f[p] .. f[p + 1] - 1
  PROVE  LoAt(its, nd, e, v) = IF v = f[p] THEN LoAt(its, nd, e, p) ELSE its[e[v - 1]][1]
BY FirstUp DEF LoAt

LEMMA HiUp ==
  ASSUME NEW its, NEW nd, NEW e, NEW f, NEW l, NEW k, Shape(its, nd, e, f, l, k),
         NEW p \in l + 1 .. k, NEW v \in f[p] .. f[p + 1] - 1
  PROVE  HiAt(its, e, v) = IF v = f[p + 1] - 1 THEN HiAt(its, e, p) ELSE its[e[v]][1]
<1>1. f[p] \in Nat /\ f[p + 1] \in Nat /\ e[p] = e[f[p + 1] - 1] /\ p \in 1 .. k
  BY ShapeSpan
<1>2. CASE v = f[p + 1] - 1
  BY <1>1, <1>2 DEF HiAt
<1>3. CASE v # f[p + 1] - 1
  <2>1. v + 1 \in f[p] .. f[p + 1] - 1
    BY <1>1, <1>3
  <2>2. /\ nd[p].level \in Nat \ {0}
        /\ \A c \in f[p] .. f[p + 1] - 1 : c \in 1 .. p - 1 /\ nd[c].level + 1 = nd[p].level
    BY ShapeBelow
  <2>3. k \in Nat /\ p \in Nat
    BY <1>1, ShapeFacts
  <2>4. v \in 1 .. k /\ v + 1 \in 1 .. k /\ v < v + 1 /\ nd[v].level + 1 = nd[v + 1].level + 1
    BY <1>1, <2>1, <2>2, <2>3
  <2>5. nd[v].level = nd[v + 1].level
    <3>1. nd[v].level \in Nat /\ nd[v + 1].level \in Nat
      BY <2>4, ShapeLevels
    <3> QED  BY <2>4, <3>1
  <2>6. e[v] < e[v + 1]
    BY <2>4, <2>5, ShapeLevels
  <2>7. e[v] \in Nat /\ e[v + 1] \in 1 .. Len(its) /\ Len(its) \in Nat
    BY <2>4, ShapeFacts
  <2> QED  BY <1>3, <2>6, <2>7 DEF HiAt
<1> QED  BY <1>2, <1>3

LEMMA LoParent ==
  ASSUME NEW its, NEW nd, NEW e, NEW f, NEW l, NEW k, Shape(its, nd, e, f, l, k),
         NEW t, t.node = nd, NEW v \in 1 .. k - 1
  PROVE  /\ Parent(t, v) \in 1 .. k /\ v < Parent(t, v)
         /\ LoAt(its, nd, e, v) = IF Place(t, v) = 0 THEN LoAt(its, nd, e, Parent(t, v))
                                  ELSE t.node[Parent(t, v)].slotkey[Place(t, v) - 1]
<1>0. l \in Nat /\ k \in Nat /\ l \in 1 .. k
  BY ShapeFacts
<1>1. PICK p \in l + 1 .. k : /\ p = Parent(t, v) /\ f[p] <= v /\ v < f[p + 1] /\ v < p
                              /\ Place(t, v) = v - f[p]
  BY ShapeParent
<1>2. f[p] \in Nat /\ f[p + 1] \in Nat /\ p \in 1 .. k /\ v \in Nat
  BY <1>0, ShapeSpan
<1>3. v \in f[p] .. f[p + 1] - 1
  BY <1>1, <1>2
<1>4. LoAt(its, nd, e, v) = IF v = f[p] THEN LoAt(its, nd, e, p) ELSE its[e[v - 1]][1]
  BY <1>3, LoUp
<1>5. CASE v = f[p]
  BY <1>1, <1>2, <1>4, <1>5
<1>6. CASE v # f[p]
  <2>1. (v - f[p]) - 1 \in 0 .. f[p + 1] - f[p] - 2 /\ f[p] + ((v - f[p]) - 1) = v - 1 /\ v - f[p] # 0
    BY <1>1, <1>2, <1>6
  <2>2. nd[p].slotkey[(v - f[p]) - 1] = its[e[f[p] + ((v - f[p]) - 1)]][1]
    BY <2>1, ShapeKeys
  <2> QED  BY <1>1, <1>2, <1>4, <1>6, <2>1, <2>2
<1> QED  BY <1>1, <1>2, <1>5, <1>6

(* They are the separators the recursion of TreeOf computes. *)
IsLo(t, g) ==
  g = CHOOSE h : h = [v \in DOMAIN t.node |->
                        IF v = t.root THEN BELOW
                        ELSE IF Place(t, v) = 0 THEN h[Parent(t, v)]
                        ELSE t.node[Parent(t, v)].slotkey[Place(t, v) - 1]]

(* The lower separator of a node is the last key before it, *)
LEMMA LoIs ==
  ASSUME NEW its, NEW nd, NEW e, NEW f, NEW l, NEW k, Shape(its, nd, e, f, l, k),
         NEW t, t.node = nd, t.root = k,
         NEW g, IsLo(t, g)
  PROVE  g = [v \in 1 .. k |-> LoAt(its, nd, e, v)]
<1>1. l \in Nat /\ k \in Nat /\ l \in 1 .. k /\ DOMAIN nd = 1 .. k
  BY ShapeFacts
<1> DEFINE Lo(h) == h = [v \in DOMAIN t.node |->
                           IF v = t.root THEN BELOW
                           ELSE IF Place(t, v) = 0 THEN h[Parent(t, v)]
                           ELSE t.node[Parent(t, v)].slotkey[Place(t, v) - 1]]
<1>2. PICK x : x = [v \in 1 .. k |-> LoAt(its, nd, e, v)]
  OBVIOUS
<1>3. ASSUME NEW v \in 1 .. k - 1
      PROVE  /\ Parent(t, v) \in 1 .. k /\ v < Parent(t, v)
             /\ LoAt(its, nd, e, v) = IF Place(t, v) = 0 THEN LoAt(its, nd, e, Parent(t, v))
                                      ELSE t.node[Parent(t, v)].slotkey[Place(t, v) - 1]
  BY LoParent
<1>4. LoAt(its, nd, e, k) = BELOW
  BY RootEnds
<1>5. Lo(x)
  <2>1. \A v \in 1 .. k : x[v] = IF v = t.root THEN BELOW
                                 ELSE IF Place(t, v) = 0 THEN x[Parent(t, v)]
                                 ELSE t.node[Parent(t, v)].slotkey[Place(t, v) - 1]
    <3> TAKE v \in 1 .. k
    <3>1. CASE v = k
      BY <1>2, <1>4, <3>1
    <3>2. CASE v # k
      <4>1. v \in 1 .. k - 1
        BY <1>1, <3>2
      <4>2. /\ Parent(t, v) \in 1 .. k
            /\ LoAt(its, nd, e, v) = IF Place(t, v) = 0 THEN LoAt(its, nd, e, Parent(t, v))
                                     ELSE t.node[Parent(t, v)].slotkey[Place(t, v) - 1]
        BY <1>3, <4>1
      <4> QED  BY <1>2, <3>2, <4>2
    <3> QED  BY <3>1, <3>2
  <2>2. DOMAIN x = 1 .. k /\ x = [v \in DOMAIN x |-> x[v]]
    BY <1>2
  <2> QED  BY <1>1, <2>1, <2>2
<1>6. Lo(g)
  <2>1. \E h : Lo(h)
    BY <1>5
  <2> QED  BY <2>1 DEF IsLo
<1>7. DOMAIN g = 1 .. k /\ g = [v \in DOMAIN g |-> g[v]]
  BY ONLY <1>1, <1>6, t.node = nd
<1>8. \A v \in 1 .. k : g[v] = IF v = k THEN BELOW
                               ELSE IF Place(t, v) = 0 THEN g[Parent(t, v)]
                               ELSE t.node[Parent(t, v)].slotkey[Place(t, v) - 1]
  BY ONLY <1>1, <1>6, t.node = nd, t.root = k
<1>9. \A v \in 1 .. k : g[v] = LoAt(its, nd, e, v)
  <2>0. PICK Bad : Bad = {v \in 1 .. k : g[v] # LoAt(its, nd, e, v)}
    OBVIOUS
  <2> SUFFICES ASSUME Bad # {} PROVE FALSE
    BY <2>0
  <2>1. Bad \subseteq 1 .. k
    BY <2>0
  <2>2. PICK v \in Bad : \A u \in Bad : u <= v
    BY <1>1, <2>1, Greatest
  <2>3. v \in 1 .. k /\ g[v] # LoAt(its, nd, e, v)
    BY <2>0
  <2>4. v # k
    BY <1>4, <1>8, <2>3
  <2>5. v \in 1 .. k - 1
    BY <1>1, <2>3, <2>4
  <2>6. /\ Parent(t, v) \in 1 .. k /\ v < Parent(t, v)
        /\ LoAt(its, nd, e, v) = IF Place(t, v) = 0 THEN LoAt(its, nd, e, Parent(t, v))
                                 ELSE t.node[Parent(t, v)].slotkey[Place(t, v) - 1]
    BY <1>3, <2>5
  <2>7. ~(Parent(t, v) <= v)
    BY <1>1, <2>3, <2>6
  <2>8. g[Parent(t, v)] = LoAt(its, nd, e, Parent(t, v))
    BY <2>0, <2>2, <2>6, <2>7
  <2> QED  BY <1>8, <2>3, <2>4, <2>6, <2>8
<1> QED  BY <1>7, <1>9

LEMMA HiParent ==
  ASSUME NEW its, NEW nd, NEW e, NEW f, NEW l, NEW k, Shape(its, nd, e, f, l, k),
         NEW t, t.node = nd, NEW v \in 1 .. k - 1
  PROVE  /\ Parent(t, v) \in 1 .. k /\ v < Parent(t, v)
         /\ HiAt(its, e, v) = IF Place(t, v) = t.node[Parent(t, v)].slotuse
                              THEN HiAt(its, e, Parent(t, v))
                              ELSE t.node[Parent(t, v)].slotkey[Place(t, v)]
<1>0. l \in Nat /\ k \in Nat /\ l \in 1 .. k
  BY ShapeFacts
<1>1. PICK p \in l + 1 .. k : /\ p = Parent(t, v) /\ f[p] <= v /\ v < f[p + 1] /\ v < p
                              /\ Place(t, v) = v - f[p]
  BY ShapeParent
<1>2. f[p] \in Nat /\ f[p + 1] \in Nat /\ p \in 1 .. k /\ v \in Nat
  BY <1>0, ShapeSpan
<1>3. v \in f[p] .. f[p + 1] - 1
  BY <1>1, <1>2
<1>4. HiAt(its, e, v) = IF v = f[p + 1] - 1 THEN HiAt(its, e, p) ELSE its[e[v]][1]
  BY <1>3, HiUp
<1>5. nd[p].slotuse = f[p + 1] - f[p] - 1
  BY ShapeKeys
<1>6. CASE v = f[p + 1] - 1
  <2>1. v - f[p] = f[p + 1] - f[p] - 1
    BY <1>2, <1>6
  <2> QED  BY <1>1, <1>4, <1>5, <1>6, <2>1
<1>7. CASE v # f[p + 1] - 1
  <2>1. v - f[p] \in 0 .. f[p + 1] - f[p] - 2 /\ f[p] + (v - f[p]) = v
        /\ v - f[p] # f[p + 1] - f[p] - 1
    BY <1>1, <1>2, <1>7
  <2>2. nd[p].slotkey[v - f[p]] = its[e[f[p] + (v - f[p])]][1]
    BY <2>1, ShapeKeys
  <2> QED  BY <1>1, <1>4, <1>5, <1>7, <2>1, <2>2
<1> QED  BY <1>1, <1>2, <1>6, <1>7

IsHi(t, g) ==
  g = CHOOSE h : h = [v \in DOMAIN t.node |->
                        IF v = t.root THEN ABOVE
                        ELSE IF Place(t, v) = t.node[Parent(t, v)].slotuse THEN h[Parent(t, v)]
                        ELSE t.node[Parent(t, v)].slotkey[Place(t, v)]]

(* the upper one the last key under it. *)
LEMMA HiIs ==
  ASSUME NEW its, NEW nd, NEW e, NEW f, NEW l, NEW k, Shape(its, nd, e, f, l, k),
         NEW t, t.node = nd, t.root = k,
         NEW g, IsHi(t, g)
  PROVE  g = [v \in 1 .. k |-> HiAt(its, e, v)]
<1>1. l \in Nat /\ k \in Nat /\ l \in 1 .. k /\ DOMAIN nd = 1 .. k
  BY ShapeFacts
<1> DEFINE Hi(h) == h = [v \in DOMAIN t.node |->
                           IF v = t.root THEN ABOVE
                           ELSE IF Place(t, v) = t.node[Parent(t, v)].slotuse THEN h[Parent(t, v)]
                           ELSE t.node[Parent(t, v)].slotkey[Place(t, v)]]
<1>2. PICK x : x = [v \in 1 .. k |-> HiAt(its, e, v)]
  OBVIOUS
<1>3. ASSUME NEW v \in 1 .. k - 1
      PROVE  /\ Parent(t, v) \in 1 .. k /\ v < Parent(t, v)
             /\ HiAt(its, e, v) = IF Place(t, v) = t.node[Parent(t, v)].slotuse
                                  THEN HiAt(its, e, Parent(t, v))
                                  ELSE t.node[Parent(t, v)].slotkey[Place(t, v)]
  BY HiParent
<1>4. HiAt(its, e, k) = ABOVE
  BY RootEnds
<1>5. Hi(x)
  <2>1. \A v \in 1 .. k : x[v] = IF v = t.root THEN ABOVE
                                 ELSE IF Place(t, v) = t.node[Parent(t, v)].slotuse THEN x[Parent(t, v)]
                                 ELSE t.node[Parent(t, v)].slotkey[Place(t, v)]
    <3> TAKE v \in 1 .. k
    <3>1. CASE v = k
      BY <1>2, <1>4, <3>1
    <3>2. CASE v # k
      <4>1. v \in 1 .. k - 1
        BY <1>1, <3>2
      <4>2. /\ Parent(t, v) \in 1 .. k
            /\ HiAt(its, e, v) = IF Place(t, v) = t.node[Parent(t, v)].slotuse
                                 THEN HiAt(its, e, Parent(t, v))
                                 ELSE t.node[Parent(t, v)].slotkey[Place(t, v)]
        BY <1>3, <4>1
      <4> QED  BY <1>2, <3>2, <4>2
    <3> QED  BY <3>1, <3>2
  <2>2. DOMAIN x = 1 .. k /\ x = [v \in DOMAIN x |-> x[v]]
    BY <1>2
  <2> QED  BY <1>1, <2>1, <2>2
<1>6. Hi(g)
  <2>1. \E h : Hi(h)
    BY <1>5
  <2> QED  BY <2>1 DEF IsHi
<1>7. DOMAIN g = 1 .. k /\ g = [v \in DOMAIN g |-> g[v]]
  BY ONLY <1>1, <1>6, t.node = nd
<1>8. \A v \in 1 .. k : g[v] = IF v = k THEN ABOVE
                               ELSE IF Place(t, v) = t.node[Parent(t, v)].slotuse THEN g[Parent(t, v)]
                               ELSE t.node[Parent(t, v)].slotkey[Place(t, v)]
  BY ONLY <1>1, <1>6, t.node = nd, t.root = k
<1>9. \A v \in 1 .. k : g[v] = HiAt(its, e, v)
  <2>0. PICK Bad : Bad = {v \in 1 .. k : g[v] # HiAt(its, e, v)}
    OBVIOUS
  <2> SUFFICES ASSUME Bad # {} PROVE FALSE
    BY <2>0
  <2>1. Bad \subseteq 1 .. k
    BY <2>0
  <2>2. PICK v \in Bad : \A u \in Bad : u <= v
    BY <1>1, <2>1, Greatest
  <2>3. v \in 1 .. k /\ g[v] # HiAt(its, e, v)
    BY <2>0
  <2>4. v # k
    BY <1>4, <1>8, <2>3
  <2>5. v \in 1 .. k - 1
    BY <1>1, <2>3, <2>4
  <2>6. /\ Parent(t, v) \in 1 .. k /\ v < Parent(t, v)
        /\ HiAt(its, e, v) = IF Place(t, v) = t.node[Parent(t, v)].slotuse
                             THEN HiAt(its, e, Parent(t, v))
                             ELSE t.node[Parent(t, v)].slotkey[Place(t, v)]
    BY <1>3, <2>5
  <2>7. ~(Parent(t, v) <= v)
    BY <1>1, <2>3, <2>6
  <2>8. g[Parent(t, v)] = HiAt(its, e, Parent(t, v))
    BY <2>0, <2>2, <2>6, <2>7
  <2> QED  BY <1>8, <2>3, <2>4, <2>6, <2>8
<1> QED  BY <1>7, <1>9

-----------------------------------------------------------------------------
(* The loaded tree can be searched.                                        *)

IsRange(its) ==
  /\ its \in Seq(Key \X Value)
  /\ \A a, b \in 1 .. Len(its) : a < b => its[a][1] <= its[b][1]

LEMMA IsRangeFacts ==
  ASSUME NEW its, IsRange(its)
  PROVE  /\ Len(its) \in Nat
         /\ \A n \in 1 .. Len(its) : its[n][1] \in Key /\ its[n][2] \in Value /\ its[n][1] \in Int
         /\ \A a, b \in 1 .. Len(its) : a <= b => its[a][1] <= its[b][1]
<1>1. its \in Seq(Key \X Value) /\ \A a, b \in 1 .. Len(its) : a < b => its[a][1] <= its[b][1]
  BY DEF IsRange
<1>2. \A n \in 1 .. Len(its) : its[n] \in Key \X Value
  BY <1>1
<1>3. \A n \in 1 .. Len(its) : its[n][1] \in Key /\ its[n][2] \in Value /\ its[n][1] \in Int
  BY <1>2, KeyAssumption
<1>4. \A a, b \in 1 .. Len(its) : a <= b => its[a][1] <= its[b][1]
  <2> TAKE a, b \in 1 .. Len(its)
  <2> HAVE a <= b
  <2>1. CASE a = b
    BY <1>3, <2>1
  <2>2. CASE a < b
    BY <1>1, <2>2
  <2> QED  BY <1>1, <2>1, <2>2
<1> QED  BY <1>1, <1>3, <1>4

(* A loaded leaf is a node of a well-formed tree, *)
LEMMA LeafOK ==
  ASSUME NEW its, NEW nd, NEW e, NEW f, NEW l, NEW k, Shape(its, nd, e, f, l, k), IsRange(its),
         NEW t, t.node = nd, NEW v \in 1 .. l
  PROVE  NodeOK(t, v) /\ nd[v].slotuse <= leafslotmax /\ isleafnode(nd[v])
<1>1. PICK a, b, x : a = Before(e, v) /\ b = e[v] /\ x = nd[v]
  OBVIOUS
<1>2. a \in Nat /\ a < b /\ b \in 1 .. Len(its) /\ b - a <= leafslotmax /\ x = LeafAt(its, a, b)
  BY <1>1, ShapeLeaf
<1>3. /\ x.level = 0 /\ x.slotuse = b - a
      /\ x.slotkey = [s \in 0 .. b - a - 1 |-> its[a + s + 1][1]]
      /\ x.slotdata = [s \in 0 .. b - a - 1 |-> its[a + s + 1][2]]
  BY ONLY <1>2 DEF LeafAt
<1>4. /\ Len(its) \in Nat
      /\ \A n \in 1 .. Len(its) : its[n][1] \in Key /\ its[n][2] \in Value /\ its[n][1] \in Int
      /\ \A c, d \in 1 .. Len(its) : c <= d => its[c][1] <= its[d][1]
  BY IsRangeFacts
<1>5. b \in Nat /\ b - a \in Nat /\ \A s \in 0 .. b - a - 1 : a + s + 1 \in 1 .. Len(its)
  BY <1>2, <1>4
<1>6. x.slotkey \in [0 .. b - a - 1 -> Key] /\ x.slotdata \in [0 .. b - a - 1 -> Value]
  BY <1>3, <1>4, <1>5
<1>7. \A r, s \in 0 .. b - a - 1 : r < s => x.slotkey[r] <= x.slotkey[s]
  <2> TAKE r, s \in 0 .. b - a - 1
  <2> HAVE r < s
  <2>1. a + r + 1 \in 1 .. Len(its) /\ a + s + 1 \in 1 .. Len(its) /\ a + r + 1 <= a + s + 1
    BY <1>2, <1>5
  <2>2. its[a + r + 1][1] <= its[a + s + 1][1]
    BY <1>4, <2>1
  <2>3. x.slotkey[r] = its[a + r + 1][1] /\ x.slotkey[s] = its[a + s + 1][1]
    BY <1>3
  <2> QED  BY <2>2, <2>3
<1>8. isleafnode(x) /\ Sorted(x)
  BY <1>3, <1>7 DEF isleafnode, Sorted, Slots
<1>9. NodeOK(t, v)
  <2>1. /\ x.level \in Nat /\ x.slotuse \in Nat /\ x.slotkey \in [Slots(x) -> Key]
        /\ x.slotdata \in [Slots(x) -> Value]
    BY <1>3, <1>5, <1>6 DEF Slots
  <2> QED  BY <1>1, <1>8, <2>1 DEF NodeOK
<1> QED  BY <1>1, <1>2, <1>3, <1>8, <1>9

(* and so is a loaded inner node. *)
LEMMA InnerOK ==
  ASSUME NEW its, NEW nd, NEW e, NEW f, NEW l, NEW k, Shape(its, nd, e, f, l, k), IsRange(its),
         NEW t, t.node = nd, NEW p \in l + 1 .. k
  PROVE  NodeOK(t, p) /\ nd[p].slotuse <= innerslotmax /\ ~isleafnode(nd[p])
<1>1. PICK a, b, x : a = f[p] /\ b = f[p + 1] /\ x = nd[p]
  OBVIOUS
<1>2. a \in Nat /\ b \in Nat /\ a + 1 < b /\ b \in 1 .. k /\ a \in 1 .. k /\ b - a <= innerslotmax + 1
  BY <1>1, ShapeSpan
<1>3. k \in Nat /\ DOMAIN nd = 1 .. k /\ Len(its) \in Nat /\ innerslotmax \in Nat
      /\ \A u \in 1 .. k : e[u] \in 1 .. Len(its) /\ e[u] \in Nat
  BY ShapeFacts, CapacityAssumption
<1>4. /\ x.slotuse = b - a - 1
      /\ x.slotkey = [s \in 0 .. b - a - 2 |-> its[e[a + s]][1]]
  BY <1>1, ShapeRow
<1>5. DOMAIN x.childid = 0 .. b - a - 1 /\ \A s \in 0 .. b - a - 1 : x.childid[s] = a + s
  BY <1>1, ShapeChild
<1>51. x.childid = [s \in 0 .. b - a - 1 |-> x.childid[s]]
  <2>1. nd[p] = InnerAt(its, e, nd[p].level, f[p], f[p + 1])
    BY ShapeInner
  <2>2. PICK lev : x = InnerAt(its, e, lev, a, b)
    BY <1>1, <2>1
  <2>3. x.childid = [s \in 0 .. b - a - 1 |-> a + s]
    BY ONLY <2>2 DEF InnerAt
  <2> QED  BY ONLY <2>3
<1>6. x.level \in Nat \ {0} /\ \A c \in a .. b - 1 : nd[c].level + 1 = x.level
  BY <1>1, ShapeBelow
<1>7. \A c \in a .. b - 1 : c \in 1 .. k /\ nd[c].level \in Nat
  <2>1. \A c \in a .. b - 1 : c \in 1 .. k
    BY <1>2, <1>3
  <2> QED  BY <2>1, ShapeLevels
<1>8. /\ \A n \in 1 .. Len(its) : its[n][1] \in Key
      /\ \A c, d \in 1 .. Len(its) : c <= d => its[c][1] <= its[d][1]
  BY IsRangeFacts
<1>9. \A s \in 0 .. b - a - 2 : a + s \in a .. b - 1 /\ a + s \in 1 .. k /\ e[a + s] \in 1 .. Len(its)
  <2>1. \A s \in 0 .. b - a - 2 : a + s \in a .. b - 1
    BY <1>2
  <2> QED  BY <1>3, <1>7, <2>1
<1>10. x.slotkey \in [0 .. b - a - 2 -> Key]
  BY <1>4, <1>8, <1>9
<1>11. \A r, s \in 0 .. b - a - 2 : r < s => x.slotkey[r] <= x.slotkey[s]
  <2> TAKE r, s \in 0 .. b - a - 2
  <2> HAVE r < s
  <2>0. /\ a + r \in a .. b - 1 /\ a + r \in 1 .. k /\ e[a + r] \in 1 .. Len(its)
        /\ a + s \in a .. b - 1 /\ a + s \in 1 .. k /\ e[a + s] \in 1 .. Len(its)
    BY <1>9
  <2>01. a + r < a + s
    BY <1>2
  <2>1. PICK c, d : c = a + r /\ d = a + s
    OBVIOUS
  <2>2. c \in a .. b - 1 /\ d \in a .. b - 1 /\ c \in 1 .. k /\ d \in 1 .. k /\ c < d
        /\ e[c] \in 1 .. Len(its) /\ e[d] \in 1 .. Len(its)
    BY <2>0, <2>01, <2>1
  <2>3. nd[c].level = nd[d].level
    <3>1. nd[c].level + 1 = nd[d].level + 1 /\ nd[c].level \in Nat /\ nd[d].level \in Nat
      BY <1>6, <1>7, <2>2
    <3> QED  BY <3>1
  <2>4. e[c] < e[d]
    BY <2>2, <2>3, ShapeLevels
  <2>5. e[c] <= e[d]
    BY <1>3, <2>2, <2>4
  <2>6. its[e[c]][1] <= its[e[d]][1]
    BY <1>8, <2>2, <2>5
  <2>7. x.slotkey[r] = its[e[c]][1] /\ x.slotkey[s] = its[e[d]][1]
    BY <1>4, <2>1
  <2> QED  BY <2>6, <2>7
<1>12. b - a - 1 \in Nat /\ (b - a - 1) - 1 = b - a - 2 /\ b - a - 1 <= innerslotmax
  BY <1>2, <1>3
<1>13. ~isleafnode(x) /\ Sorted(x) /\ Slots(x) = 0 .. b - a - 2
  <2>1. Slots(x) = 0 .. b - a - 2
    BY <1>4, <1>12 DEF Slots
  <2> QED  BY <1>6, <1>11, <2>1 DEF isleafnode, Sorted
<1>14. x.childid \in [0 .. b - a - 1 -> 1 .. k]
  <2>1. \A s \in 0 .. b - a - 1 : a + s \in 1 .. k
    BY <1>2, <1>3
  <2>2. \A s \in 0 .. b - a - 1 : x.childid[s] \in 1 .. k
    BY <1>5, <2>1
  <2> QED  BY <1>51, <2>2
<1>15. NodeOK(t, p)
  <2>1. x.level \in Nat /\ x.slotuse \in Nat /\ x.slotkey \in [Slots(x) -> Key]
    BY <1>4, <1>6, <1>10, <1>12, <1>13
  <2>2. x.childid \in [0 .. x.slotuse -> NodeIds(t)]
    BY <1>3, <1>4, <1>14 DEF NodeIds
  <2> QED  BY <1>1, <1>13, <2>1, <2>2 DEF NodeOK
<1> QED  BY <1>1, <1>4, <1>12, <1>13, <1>15

(* The tree with its separators. *)
SeenFrom(nd, its, e, k) ==
  [root |-> k, node |-> nd, lo |-> [v \in 1 .. k |-> LoAt(its, nd, e, v)],
   hi |-> [v \in 1 .. k |-> HiAt(its, e, v)]]

Sees(T, nd, its, e, k) ==
  /\ T.root = k /\ T.node = nd
  /\ DOMAIN T.lo = 1 .. k /\ DOMAIN T.hi = 1 .. k
  /\ \A v \in 1 .. k : T.lo[v] = LoAt(its, nd, e, v) /\ T.hi[v] = HiAt(its, e, v)

LEMMA SeenFromFacts ==
  ASSUME NEW nd, NEW its, NEW e, NEW k, NEW T, T = SeenFrom(nd, its, e, k)
  PROVE  /\ Sees(T, nd, its, e, k)
         /\ T.lo = [v \in DOMAIN T.lo |-> T.lo[v]] /\ T.hi = [v \in DOMAIN T.hi |-> T.hi[v]]
BY DEF SeenFrom, Sees

(* The tree a search sees is the nodes, with those separators. *)
LEMMA TreeIs ==
  ASSUME NEW its, NEW nd, NEW e, NEW f, NEW l, NEW k, Shape(its, nd, e, f, l, k),
         NEW t, t.node = nd, t.root = k
  PROVE  TreeOf(t) = SeenFrom(nd, its, e, k)
<1>1. \E g, d : IsLo(t, g) /\ IsHi(t, d) /\ TreeOf(t) = [root |-> t.root, node |-> t.node, lo |-> g, hi |-> d]
  BY ONLY Zenon DEF TreeOf, IsLo, IsHi
<1>2. PICK g, d : IsLo(t, g) /\ IsHi(t, d)
                  /\ TreeOf(t) = [root |-> t.root, node |-> t.node, lo |-> g, hi |-> d]
  BY <1>1
<1>4. g = [v \in 1 .. k |-> LoAt(its, nd, e, v)]
  BY <1>2, LoIs
<1>5. d = [v \in 1 .. k |-> HiAt(its, e, v)]
  BY <1>2, HiIs
<1> QED  BY <1>2, <1>4, <1>5, Zenon DEF SeenFrom

LEMMA SepsInt ==
  ASSUME NEW its, NEW nd, NEW e, NEW f, NEW l, NEW k, Shape(its, nd, e, f, l, k), IsRange(its),
         NEW v \in 1 .. k
  PROVE  LoAt(its, nd, e, v) \in Int /\ HiAt(its, e, v) \in Int
<1>1. k \in Nat /\ \A u \in 1 .. k : e[u] \in 1 .. Len(its)
  BY ShapeFacts
<1>2. \A n \in 1 .. Len(its) : its[n][1] \in Int
  BY IsRangeFacts
<1>3. v = 1 \/ v - 1 \in 1 .. k
  BY <1>1
<1> QED  BY <1>1, <1>2, <1>3, BoundsAssumption DEF LoAt, HiAt, First

(* Child pos of an inner node. *)
LEMMA ChildAt ==
  ASSUME NEW its, NEW nd, NEW e, NEW f, NEW l, NEW k, Shape(its, nd, e, f, l, k),
         NEW p \in l + 1 .. k, NEW pos \in 0 .. nd[p].slotuse,
         NEW c, c = nd[p].childid[pos]
  PROVE  /\ c = f[p] + pos /\ c \in f[p] .. f[p + 1] - 1 /\ c \in 1 .. k
         /\ nd[c].level + 1 = nd[p].level
         /\ LoAt(its, nd, e, c) = IF pos = 0 THEN LoAt(its, nd, e, p) ELSE nd[p].slotkey[pos - 1]
         /\ HiAt(its, e, c) = IF pos = nd[p].slotuse THEN HiAt(its, e, p) ELSE nd[p].slotkey[pos]
<1>1. /\ nd[p].slotuse = f[p + 1] - f[p] - 1
      /\ \A s \in 0 .. f[p + 1] - f[p] - 2 : nd[p].slotkey[s] = its[e[f[p] + s]][1]
  BY ShapeKeys
<1>2. f[p] \in Nat /\ f[p + 1] \in Nat /\ f[p] \in 1 .. k /\ f[p + 1] \in 1 .. k /\ f[p] + 1 < f[p + 1]
  BY ShapeSpan
<1>3. \A s \in 0 .. f[p + 1] - f[p] - 1 : nd[p].childid[s] = f[p] + s
  BY ShapeChild
<1>4. PICK a, b, x : a = f[p] /\ b = f[p + 1] /\ x = nd[p]
  OBVIOUS
<1>5. k \in Nat
  BY ShapeFacts
<1>6. c = a + pos /\ c \in a .. b - 1 /\ c \in 1 .. k /\ pos \in 0 .. b - a - 1
  BY <1>1, <1>2, <1>3, <1>4, <1>5
<1>7. nd[c].level + 1 = x.level
  BY <1>4, <1>6, ShapeBelow
<1>8. LoAt(its, nd, e, c) = IF c = a THEN LoAt(its, nd, e, p) ELSE its[e[c - 1]][1]
  BY <1>4, <1>6, LoUp
<1>9. HiAt(its, e, c) = IF c = b - 1 THEN HiAt(its, e, p) ELSE its[e[c]][1]
  BY <1>4, <1>6, HiUp
<1>10. pos # 0 => x.slotkey[pos - 1] = its[e[c - 1]][1]
  <2> SUFFICES ASSUME pos # 0 PROVE x.slotkey[pos - 1] = its[e[c - 1]][1]
    OBVIOUS
  <2>1. pos - 1 \in 0 .. b - a - 2 /\ a + (pos - 1) = c - 1
    BY <1>2, <1>4, <1>6
  <2>2. x.slotkey[pos - 1] = its[e[a + (pos - 1)]][1]
    BY <1>1, <1>4, <2>1
  <2> QED  BY <2>1, <2>2
<1>11. pos # b - a - 1 => x.slotkey[pos] = its[e[c]][1]
  <2> SUFFICES ASSUME pos # b - a - 1 PROVE x.slotkey[pos] = its[e[c]][1]
    OBVIOUS
  <2>1. pos \in 0 .. b - a - 2
    BY <1>2, <1>4, <1>6
  <2> QED  BY <1>1, <1>4, <1>6, <2>1
<1>12. (c = a <=> pos = 0) /\ (c = b - 1 <=> pos = b - a - 1)
  BY <1>2, <1>4, <1>6
<1>13. x.slotuse = b - a - 1
  BY <1>1, <1>4
<1> QED  BY <1>4, <1>6, <1>7, <1>8, <1>9, <1>10, <1>11, <1>12, <1>13

LEMMA ShapeChildrenOK ==
  ASSUME NEW its, NEW nd, NEW e, NEW f, NEW l, NEW k, Shape(its, nd, e, f, l, k),
         NEW T, Sees(T, nd, its, e, k), NEW p \in l + 1 .. k
  PROVE  ChildrenOK(T, p)
<1>1. /\ T.node = nd
      /\ \A v \in 1 .. k : T.lo[v] = LoAt(its, nd, e, v) /\ T.hi[v] = HiAt(its, e, v)
  BY DEF Sees
<1>2. p \in 1 .. k
  BY ShapeSpan
<1>3. ASSUME NEW pos \in 0 .. nd[p].slotuse, NEW c, c = nd[p].childid[pos]
      PROVE  /\ nd[c].level + 1 = nd[p].level
             /\ T.lo[c] = IF pos = 0 THEN T.lo[p] ELSE nd[p].slotkey[pos - 1]
             /\ T.hi[c] = IF pos = nd[p].slotuse THEN T.hi[p] ELSE nd[p].slotkey[pos]
  <2>1. /\ c \in 1 .. k
        /\ nd[c].level + 1 = nd[p].level
        /\ LoAt(its, nd, e, c) = IF pos = 0 THEN LoAt(its, nd, e, p) ELSE nd[p].slotkey[pos - 1]
        /\ HiAt(its, e, c) = IF pos = nd[p].slotuse THEN HiAt(its, e, p) ELSE nd[p].slotkey[pos]
    BY <1>3, ChildAt
  <2> QED  BY <1>1, <1>2, <2>1
<1> QED  BY <1>1, <1>3 DEF ChildrenOK

(* Where a stored pair stands in the range. *)
LEMMA StoredAt ==
  ASSUME NEW its, NEW nd, NEW e, NEW f, NEW l, NEW k, Shape(its, nd, e, f, l, k),
         NEW T, T.node = nd, NEW pair \in Stored(T)
  PROVE  \E u \in 1 .. l, j \in 1 .. Len(its) :
           /\ Before(e, u) < j /\ j <= e[u] /\ pair[1] = its[j][1]
           /\ \E s \in Slots(nd[u]) : nd[u].slotkey[s] = pair[1]
<1>0. PICK u \in Leaves(T) : pair \in {<<nd[u].slotkey[s], nd[u].slotdata[s]>> : s \in Slots(nd[u])}
  BY DEF Stored
<1>1. PICK s \in Slots(nd[u]) : pair = <<nd[u].slotkey[s], nd[u].slotdata[s]>>
  BY <1>0
<1>2. u \in 1 .. l
  <2>1. u \in 1 .. k /\ isleafnode(nd[u])
    BY ShapeFacts DEF Leaves, NodeIds
  <2> QED  BY <2>1, ShapeLevels
<1>3. PICK a, b : a = Before(e, u) /\ b = e[u]
  OBVIOUS
<1>4. a \in Nat /\ a < b /\ b \in 1 .. Len(its) /\ nd[u].slotuse = b - a
      /\ \A r \in 0 .. b - a - 1 : nd[u].slotkey[r] = its[a + r + 1][1]
  BY <1>2, <1>3, ShapeLeaf
<1>5. Len(its) \in Nat
  BY ShapeFacts
<1>6. s \in 0 .. b - a - 1
  BY <1>4 DEF Slots
<1>7. a + s + 1 \in 1 .. Len(its) /\ a < a + s + 1 /\ a + s + 1 <= b
  BY <1>4, <1>5, <1>6
<1>8. pair[1] = nd[u].slotkey[s]
  BY <1>1
<1>9. pair[1] = its[a + s + 1][1]
  BY <1>4, <1>6, <1>8
<1>10. Before(e, u) < a + s + 1 /\ a + s + 1 <= e[u]
  BY <1>3, <1>7
<1> QED  BY <1>2, <1>7, <1>8, <1>9, <1>10

(* The leaf whose separators admit a key holds it if any leaf does. *)
LEMMA ShapeOwns ==
  ASSUME NEW its, NEW nd, NEW e, NEW f, NEW l, NEW k, Shape(its, nd, e, f, l, k), IsRange(its),
         NEW T, Sees(T, nd, its, e, k), NEW v \in 1 .. l
  PROVE  LeafOwns(T, v)
<1>1. T.node = nd
  BY DEF Sees
<1>2. l \in Nat /\ k \in Nat /\ l <= k /\ v \in 1 .. k /\ Len(its) \in Nat
  BY ShapeFacts, ShapeLeaf
<1>3. T.lo[v] = LoAt(its, nd, e, v) /\ T.hi[v] = HiAt(its, e, v)
  BY <1>2 DEF Sees
<1>4. SUFFICES ASSUME NEW pair \in Stored(T), LoAt(its, nd, e, v) < pair[1], pair[1] <= HiAt(its, e, v)
      PROVE  \E s \in Slots(nd[v]) : nd[v].slotkey[s] = pair[1]
  BY <1>1, <1>3 DEF LeafOwns
<1>5. PICK u \in 1 .. l, j \in 1 .. Len(its) :
           /\ Before(e, u) < j /\ j <= e[u] /\ pair[1] = its[j][1]
           /\ \E s \in Slots(nd[u]) : nd[u].slotkey[s] = pair[1]
  BY <1>1, StoredAt
<1>6. /\ \A n \in 1 .. Len(its) : its[n][1] \in Int
      /\ \A a, b \in 1 .. Len(its) : a <= b => its[a][1] <= its[b][1]
  BY IsRangeFacts
<1>7. \A w \in 1 .. k : e[w] \in 1 .. Len(its) /\ e[w] \in Nat
  BY ShapeFacts
<1>8. /\ \A w \in 1 .. l : w \in 1 .. k /\ nd[w].level = 0
      /\ \A w, x \in 1 .. l : w <= x => e[w] <= e[x]
  <2>1. \A w \in 1 .. l : w \in 1 .. k
    BY <1>2
  <2> QED  BY <2>1, ShapeLevels
<1>9. CASE u = v
  BY <1>5, <1>9
<1>10. CASE u < v
  <2>1. v # 1 /\ v - 1 \in 1 .. l /\ u <= v - 1
    BY <1>2, <1>10
  <2>2. ~First(nd, v)
    BY <1>8, <2>1 DEF First
  <2>3. LoAt(its, nd, e, v) = its[e[v - 1]][1]
    BY <2>2 DEF LoAt
  <2>4. e[u] <= e[v - 1] /\ e[v - 1] \in 1 .. Len(its) /\ e[u] \in Nat /\ e[v - 1] \in Nat
    BY <1>7, <1>8, <2>1
  <2>5. j <= e[v - 1]
    BY <1>5, <2>4
  <2>6. its[j][1] <= its[e[v - 1]][1] /\ its[j][1] \in Int /\ its[e[v - 1]][1] \in Int
    BY <1>6, <2>4, <2>5
  <2> QED  BY <1>4, <1>5, <2>3, <2>6
<1>11. CASE v < u
  <2>1. v + 1 \in 1 .. l /\ u - 1 \in 1 .. l /\ v <= u - 1 /\ u # 1
    BY <1>2, <1>11
  <2>2. Before(e, u) = e[u - 1]
    BY <2>1 DEF Before
  <2>3. e[v] <= e[u - 1] /\ e[v] \in 1 .. Len(its) /\ e[v] \in Nat /\ e[u - 1] \in Nat
    BY <1>7, <1>8, <2>1
  <2>4. e[v] <= j /\ e[v] # Len(its)
    BY <1>2, <1>5, <2>2, <2>3
  <2>5. HiAt(its, e, v) = its[e[v]][1]
    BY <2>4 DEF HiAt
  <2>6. its[e[v]][1] <= its[j][1] /\ its[j][1] \in Int /\ its[e[v]][1] \in Int
    BY <1>6, <2>3, <2>4
  <2>7. pair[1] = its[e[v]][1]
    BY <1>4, <1>5, <2>5, <2>6
  <2>8. PICK a, b : a = Before(e, v) /\ b = e[v]
    OBVIOUS
  <2>9. a \in Nat /\ a < b /\ b \in Nat /\ nd[v].slotuse = b - a
        /\ \A r \in 0 .. b - a - 1 : nd[v].slotkey[r] = its[a + r + 1][1]
    BY <2>3, <2>8, ShapeLeaf
  <2>10. b - a - 1 \in 0 .. b - a - 1 /\ a + (b - a - 1) + 1 = b
    BY <2>9
  <2>11. nd[v].slotkey[b - a - 1] = its[a + (b - a - 1) + 1][1]
    BY <2>9, <2>10
  <2>12. nd[v].slotkey[b - a - 1] = its[b][1]
    BY <2>10, <2>11
  <2>13. b - a - 1 \in Slots(nd[v])
    BY <2>9, <2>10 DEF Slots
  <2> QED  BY <2>7, <2>8, <2>12, <2>13
<1> QED  BY <1>2, <1>9, <1>10, <1>11

(* A finished tree that is not empty is well formed. *)
LEMMA ShapeSearchable ==
  ASSUME NEW its, NEW nd, NEW e, NEW f, NEW l, NEW k, Shape(its, nd, e, f, l, k), IsRange(its),
         NEW t, t.node = nd, t.root = k
  PROVE  Searchable(t)
<1>1. PICK T : T = SeenFrom(nd, its, e, k)
  OBVIOUS
<1>2. /\ T.root = k /\ T.node = nd /\ Sees(T, nd, its, e, k)
      /\ \A v \in 1 .. k : T.lo[v] = LoAt(its, nd, e, v) /\ T.hi[v] = HiAt(its, e, v)
      /\ T.lo = [v \in 1 .. k |-> T.lo[v]] /\ T.hi = [v \in 1 .. k |-> T.hi[v]]
  <2>1. Sees(T, nd, its, e, k)
    BY <1>1, SeenFromFacts
  <2>2. T.lo = [v \in DOMAIN T.lo |-> T.lo[v]] /\ T.hi = [v \in DOMAIN T.hi |-> T.hi[v]]
    BY <1>1, SeenFromFacts
  <2> QED  BY ONLY <2>1, <2>2 DEF Sees
<1>3. k \in Nat /\ k \in 1 .. k /\ l \in Nat /\ DOMAIN nd = 1 .. k /\ NodeIds(T) = 1 .. k
  BY <1>2, ShapeFacts DEF NodeIds
<1>4. NULL \notin NodeIds(T)
  BY <1>3, NullAssumption
<1>5. T.lo \in [NodeIds(T) -> Int] /\ T.hi \in [NodeIds(T) -> Int]
  <2>1. \A v \in 1 .. k : T.lo[v] \in Int /\ T.hi[v] \in Int
    BY <1>2, SepsInt
  <2> QED  BY <1>2, <1>3, <2>1
<1>6. \A key \in Key : T.lo[k] < key /\ key <= T.hi[k]
  <2>1. LoAt(its, nd, e, k) = BELOW /\ HiAt(its, e, k) = ABOVE
    BY RootEnds
  <2> QED  BY <1>2, <1>3, <2>1, BoundsAssumption
<1>7. \A v \in 1 .. k : v \in 1 .. l \/ v \in l + 1 .. k
  BY <1>3
<1>8. ASSUME NEW v \in 1 .. k
      PROVE  /\ NodeOK(T, v)
             /\ isleafnode(nd[v]) => LeafOwns(T, v)
             /\ ~isleafnode(nd[v]) => ChildrenOK(T, v)
             /\ nd[v].slotuse <= IF isleafnode(nd[v]) THEN leafslotmax ELSE innerslotmax
  <2>1. CASE v \in 1 .. l
    <3>1. NodeOK(T, v) /\ nd[v].slotuse <= leafslotmax /\ isleafnode(nd[v])
      BY <1>2, <2>1, LeafOK
    <3>2. LeafOwns(T, v)
      BY <1>2, <2>1, ShapeOwns
    <3> QED  BY <3>1, <3>2
  <2>2. CASE v \in l + 1 .. k
    <3>1. NodeOK(T, v) /\ nd[v].slotuse <= innerslotmax /\ ~isleafnode(nd[v])
      BY <1>2, <2>2, InnerOK
    <3>2. ChildrenOK(T, v)
      BY <1>2, <2>2, ShapeChildrenOK
    <3> QED  BY <3>1, <3>2
  <2> QED  BY <1>7, <2>1, <2>2
<1>9. WellFormed(T)
  <2>1. T.root # NULL /\ T.root \in NodeIds(T)
    BY <1>2, <1>3, <1>4
  <2>2. \A v \in NodeIds(T) : /\ NodeOK(T, v)
                              /\ isleafnode(T.node[v]) => LeafOwns(T, v)
                              /\ ~isleafnode(T.node[v]) => ChildrenOK(T, v)
    BY <1>2, <1>3, <1>8
  <2> QED  BY <1>2, <1>4, <1>5, <1>6, <2>1, <2>2 DEF WellFormed
<1>10. TreeOf(t) = T
  BY <1>1, TreeIs
<1> QED  BY <1>3, <1>8, <1>9, <1>10 DEF Searchable

(* A load that is done has one node left, over all the items: the root. *)
LEMMA DoneFacts ==
  ASSUME NEW e, NEW f, LoadInv(e, f), phase = "done"
  PROVE  /\ IsRange(items)
         /\ IsStore(btree, items, btree.node, NumLeaves, NumNodes, btree.root)
         /\ items = <<>> => NumNodes = 0 /\ NumLeaves = 0 /\ btree.root = NULL /\ DOMAIN btree.node = {}
         /\ items # <<>> => /\ Shape(items, btree.node, e, f, NumLeaves, NumNodes)
                            /\ btree.root = NumNodes
                            /\ NoneUnderflows(btree.node, NumNodes - 1)
<1>1. /\ items \in Ranges /\ Len(items) \in Nat
      /\ NumLeaves \in Nat /\ NumNodes \in Nat /\ NumLeaves <= NumNodes
      /\ btree = StoreOf(items, btree.node, NumLeaves, NumNodes, btree.root)
      /\ Built(items, btree.node, e, f, NumLeaves, NumNodes)
      /\ DOMAIN btree.node = 1 .. NumNodes
  BY InvFacts
<1>2. IsRange(items)
  BY <1>1, RangesAssumption DEF IsRange
<1>3. IsStore(btree, items, btree.node, NumLeaves, NumNodes, btree.root)
  BY <1>1 DEF IsStore
<1>4. LoadDone(e, f)
  BY DEF LoadInv
<1>5. ASSUME items = <<>>
      PROVE  NumNodes = 0 /\ NumLeaves = 0 /\ btree.root = NULL /\ DOMAIN btree.node = {}
  <2>1. NumNodes = 0 /\ btree.root = NULL
    BY <1>4, <1>5 DEF LoadDone
  <2> QED  BY <1>1, <2>1
<1>6. ASSUME items # <<>>
      PROVE  /\ Shape(items, btree.node, e, f, NumLeaves, NumNodes)
             /\ btree.root = NumNodes
             /\ NoneUnderflows(btree.node, NumNodes - 1)
  <2>1. /\ NumNodes > 0 /\ NumLeaves >= 1 /\ btree.root = NumNodes
        /\ f[NumNodes + 1] = NumNodes /\ e[NumNodes] = Len(items)
        /\ NoneUnderflows(btree.node, NumNodes - 1)
    BY <1>4, <1>6 DEF LoadDone
  <2>2. NumLeaves \in 1 .. NumNodes
    BY <1>1, <2>1
  <2> QED  BY <1>1, <2>1, <2>2 DEF Shape
<1> QED  BY <1>2, <1>3, <1>5, <1>6

LEMMA EmptySearchable ==
  ASSUME NEW t, DOMAIN t.node = {}, t.root = NULL
  PROVE  Searchable(t)
<1>1. PICK g, d : IsLo(t, g) /\ IsHi(t, d)
                  /\ TreeOf(t) = [root |-> t.root, node |-> t.node, lo |-> g, hi |-> d]
  <2>1. \E g, d : IsLo(t, g) /\ IsHi(t, d) /\ TreeOf(t) = [root |-> t.root, node |-> t.node, lo |-> g, hi |-> d]
    BY ONLY Zenon DEF TreeOf, IsLo, IsHi
  <2> QED  BY <2>1
<1> DEFINE Lo(h) == h = [v \in DOMAIN t.node |->
                           IF v = t.root THEN BELOW
                           ELSE IF Place(t, v) = 0 THEN h[Parent(t, v)]
                           ELSE t.node[Parent(t, v)].slotkey[Place(t, v) - 1]]
           Hi(h) == h = [v \in DOMAIN t.node |->
                           IF v = t.root THEN ABOVE
                           ELSE IF Place(t, v) = t.node[Parent(t, v)].slotuse THEN h[Parent(t, v)]
                           ELSE t.node[Parent(t, v)].slotkey[Place(t, v)]]
<1>2. PICK x : x = [v \in {} |-> 0]
  OBVIOUS
<1>3. Lo(x) /\ Hi(x)
  BY <1>2
<1>4. Lo(g)
  <2>1. \E h : Lo(h)
    BY <1>3
  <2> QED  BY <1>1, <2>1 DEF IsLo
<1>5. Hi(d)
  <2>1. \E h : Hi(h)
    BY <1>3
  <2> QED  BY <1>1, <2>1 DEF IsHi
<1>6. g \in [{} -> Int]
  BY ONLY <1>4, DOMAIN t.node = {}
<1>7. d \in [{} -> Int]
  BY ONLY <1>5, DOMAIN t.node = {}
<1>8. PICK T : T = TreeOf(t)
  OBVIOUS
<1>9. T.root = NULL /\ DOMAIN T.node = {} /\ T.lo = g /\ T.hi = d
  BY <1>1, <1>8
<1>10. WellFormed(T)
  BY <1>6, <1>7, <1>9 DEF WellFormed, NodeIds
<1> QED  BY <1>8, <1>10 DEF Searchable

(* The tree bulk_load leaves behind is one the lookup strategies can work   *)
(* on, for every range and every capacity: nodes sorted and within their    *)
(* capacity, children one level down between their separators, and every    *)
(* leaf holding the keys the separators send to it.                         *)
THEOREM LoadedTreesSearchable == Spec => []LoadedSearchable
<1>1. IInv => LoadedSearchable
  <2> SUFFICES ASSUME NEW e, NEW f, LoadInv(e, f), phase = "done" PROVE Searchable(btree)
    BY DEF IInv, LoadedSearchable
  <2>1. CASE items = <<>>
    BY <2>1, DoneFacts, EmptySearchable
  <2>2. CASE items # <<>>
    <3>1. IsRange(items) /\ Shape(items, btree.node, e, f, NumLeaves, NumNodes) /\ btree.root = NumNodes
      BY <2>2, DoneFacts
    <3> QED  BY <3>1, ShapeSearchable
  <2> QED  BY <2>1, <2>2
<1> QED  BY <1>1, Invariance, PTL

-----------------------------------------------------------------------------
(* Read along the leaves.                                                  *)

(* Two pieces of a range make one. *)
LEMMA Pieces ==
  ASSUME NEW its, IsRange(its), NEW a \in Nat, NEW b \in Nat, a <= b, b <= Len(its)
  PROVE  /\ SubSeq(its, a + 1, b) \in Seq(Key \X Value)
         /\ Len(SubSeq(its, a + 1, b)) = b - a
         /\ \A s \in 1 .. b - a : SubSeq(its, a + 1, b)[s] = its[a + s]
<1>1. Len(its) \in Nat /\ its \in Seq(Key \X Value)
  BY DEF IsRange
<1>2. \A n \in a + 1 .. b : its[n] \in Key \X Value
  <2>1. \A n \in a + 1 .. b : n \in 1 .. Len(its)
    BY <1>1
  <2> QED  BY <1>1, <2>1, ElementOfSeq
<1>3. PICK m \in Int : m = a + 1
  OBVIOUS
<1>4. \A n \in m .. b : its[n] \in Key \X Value
  BY <1>2, <1>3
<1>5. /\ SubSeq(its, m, b) \in Seq(Key \X Value)
      /\ Len(SubSeq(its, m, b)) = IF m <= b THEN b - m + 1 ELSE 0
      /\ \A s \in 1 .. b - m + 1 : SubSeq(its, m, b)[s] = its[m + s - 1]
  BY <1>4, SubSeqProperties
<1>6. /\ (IF m <= b THEN b - m + 1 ELSE 0) = b - a
      /\ \A s \in 1 .. b - a : s \in 1 .. b - m + 1 /\ m + s - 1 = a + s
  BY <1>3
<1>7. PICK x : x = SubSeq(its, m, b)
  OBVIOUS
<1>8. \A s \in 1 .. b - a : x[s] = its[a + s]
  <2> TAKE s \in 1 .. b - a
  <2>1. s \in 1 .. b - m + 1 /\ m + s - 1 = a + s
    BY <1>6
  <2>2. x[s] = its[m + s - 1]
    BY <1>5, <1>7, <2>1
  <2> QED  BY <2>1, <2>2
<1>9. x \in Seq(Key \X Value) /\ Len(x) = b - a
  BY <1>5, <1>6, <1>7
<1>10. x = SubSeq(its, a + 1, b)
  BY <1>3, <1>7
<1> QED  BY ONLY <1>8, <1>9, <1>10

LEMMA Rejoin ==
  ASSUME NEW its, IsRange(its), NEW a \in Nat, NEW b \in Nat, a <= b, b <= Len(its)
  PROVE  SubSeq(its, a + 1, b) \o SubSeq(its, b + 1, Len(its)) = SubSeq(its, a + 1, Len(its))
<1>1. PICK len \in Nat : len = Len(its)
  BY IsRangeFacts
<1>11. Len(its) \in Nat /\ a <= Len(its) /\ Len(its) <= Len(its)
  BY <1>1
<1>2. PICK x, y, z : /\ x = SubSeq(its, a + 1, b)
                     /\ y = SubSeq(its, b + 1, Len(its))
                     /\ z = SubSeq(its, a + 1, Len(its))
  OBVIOUS
<1>3. x \in Seq(Key \X Value) /\ Len(x) = b - a /\ \A s \in 1 .. b - a : x[s] = its[a + s]
  BY <1>2, Pieces
<1>4. y \in Seq(Key \X Value) /\ Len(y) = len - b /\ \A s \in 1 .. len - b : y[s] = its[b + s]
  <2>1. /\ SubSeq(its, b + 1, Len(its)) \in Seq(Key \X Value)
        /\ Len(SubSeq(its, b + 1, Len(its))) = Len(its) - b
        /\ \A s \in 1 .. Len(its) - b : SubSeq(its, b + 1, Len(its))[s] = its[b + s]
    BY ONLY <1>11, Pieces, IsRange(its), a \in Nat, b \in Nat, b <= Len(its)
  <2> QED  BY ONLY <1>1, <1>2, <2>1
<1>5. z \in Seq(Key \X Value) /\ Len(z) = len - a /\ \A s \in 1 .. len - a : z[s] = its[a + s]
  <2>1. /\ SubSeq(its, a + 1, Len(its)) \in Seq(Key \X Value)
        /\ Len(SubSeq(its, a + 1, Len(its))) = Len(its) - a
        /\ \A s \in 1 .. Len(its) - a : SubSeq(its, a + 1, Len(its))[s] = its[a + s]
    BY ONLY <1>11, Pieces, IsRange(its), a \in Nat, b \in Nat, b <= Len(its)
  <2> QED  BY ONLY <1>1, <1>2, <2>1
<1>6. PICK w : w = x \o y
  OBVIOUS
<1>7. /\ w \in Seq(Key \X Value)
      /\ Len(w) = Len(x) + Len(y)
      /\ \A s \in 1 .. Len(x) + Len(y) : w[s] = IF s <= Len(x) THEN x[s] ELSE y[s - Len(x)]
  BY ONLY <1>3, <1>4, <1>6, ConcatProperties
<1>8. Len(w) = len - a
  BY <1>3, <1>4, <1>7
<1>9. \A s \in 1 .. len - a : w[s] = z[s]
  <2> TAKE s \in 1 .. len - a
  <2>1. w[s] = IF s <= b - a THEN x[s] ELSE y[s - (b - a)]
    <3>1. s \in 1 .. Len(x) + Len(y)
      BY <1>3, <1>4
    <3> QED  BY <1>3, <1>7, <3>1
  <2>2. z[s] = its[a + s]
    BY <1>5
  <2>3. CASE s <= b - a
    <3>1. s \in 1 .. b - a
      BY <2>3
    <3> QED  BY <1>3, <2>1, <2>2, <2>3, <3>1
  <2>4. CASE ~(s <= b - a)
    <3>1. s - (b - a) \in 1 .. len - b /\ b + (s - (b - a)) = a + s
      BY <2>4
    <3>2. y[s - (b - a)] = its[b + (s - (b - a))]
      BY <1>4, <3>1
    <3> QED  BY <2>1, <2>2, <2>4, <3>1, <3>2
  <2> QED  BY <2>3, <2>4
<1>10. w = z
  BY <1>5, <1>7, <1>8, <1>9, SeqEqual
<1> QED  BY ONLY <1>1, <1>2, <1>6, <1>10

(* The items of a leaf are a piece of the range. *)
LEMMA LeafItems ==
  ASSUME NEW its, NEW nd, NEW e, NEW f, NEW l, NEW k, Shape(its, nd, e, f, l, k), IsRange(its),
         NEW v \in 1 .. l
  PROVE  [s \in 1 .. nd[v].slotuse |-> <<nd[v].slotkey[s - 1], nd[v].slotdata[s - 1]>>]
         = SubSeq(its, Before(e, v) + 1, e[v])
<1>1. PICK a, b, x : a = Before(e, v) /\ b = e[v] /\ x = nd[v]
  OBVIOUS
<1>2. /\ a \in Nat /\ a < b /\ b \in 1 .. Len(its) /\ x.slotuse = b - a
      /\ \A s \in 0 .. b - a - 1 : /\ x.slotkey[s] = its[a + s + 1][1]
                                   /\ x.slotdata[s] = its[a + s + 1][2]
  BY <1>1, ShapeLeaf
<1>3. Len(its) \in Nat /\ its \in Seq(Key \X Value) /\ b \in Nat
  BY <1>2 DEF IsRange
<1>4. PICK z : z = SubSeq(its, a + 1, b)
  OBVIOUS
<1>5. z \in Seq(Key \X Value) /\ Len(z) = b - a /\ \A s \in 1 .. b - a : z[s] = its[a + s]
  <2>1. a <= b /\ b <= Len(its)
    BY <1>2, <1>3
  <2> QED  BY <1>2, <1>3, <1>4, <2>1, Pieces
<1>6. PICK w : w = [s \in 1 .. b - a |-> <<x.slotkey[s - 1], x.slotdata[s - 1]>>]
  OBVIOUS
<1>7. \A s \in 1 .. b - a : w[s] = z[s] /\ w[s] \in Key \X Value
  <2> TAKE s \in 1 .. b - a
  <2>1. s - 1 \in 0 .. b - a - 1 /\ a + (s - 1) + 1 = a + s /\ a + s \in 1 .. Len(its)
    BY <1>2, <1>3
  <2>2. x.slotkey[s - 1] = its[a + (s - 1) + 1][1] /\ x.slotdata[s - 1] = its[a + (s - 1) + 1][2]
    BY <1>2, <2>1
  <2>3. PICK y : y = its[a + s]
    OBVIOUS
  <2>4. y \in Key \X Value
    BY <1>3, <2>1, <2>3, ElementOfSeq
  <2>5. x.slotkey[s - 1] = y[1] /\ x.slotdata[s - 1] = y[2]
    BY <2>1, <2>2, <2>3
  <2>6. w[s] = <<y[1], y[2]>>
    BY ONLY <1>6, <2>5, s \in 1 .. b - a
  <2>7. y = <<y[1], y[2]>>
    BY ONLY <2>4
  <2> QED  BY <1>5, <2>3, <2>4, <2>6, <2>7
<1>8. b - a \in Nat
  BY <1>2, <1>3
<1>9. w \in Seq(Key \X Value) /\ Len(w) = b - a
  <2>1. w \in [1 .. b - a -> Key \X Value]
    BY ONLY <1>6, <1>7
  <2> QED  BY ONLY <1>8, <2>1
<1>10. w = z
  BY ONLY <1>5, <1>7, <1>9, SeqEqual
<1> QED  BY <1>1, <1>2, <1>4, <1>6, <1>10

LEMMA LastLeaf ==
  ASSUME NEW its, NEW nd, NEW e, NEW f, NEW l, NEW k, Shape(its, nd, e, f, l, k)
  PROVE  e[l] = Len(its)
<1>1. l \in Nat /\ k \in Nat /\ l \in 1 .. k /\ e[k] = Len(its)
  BY ShapeFacts
<1>2. CASE l = k
  BY <1>1, <1>2
<1>3. CASE l # k
  <2>1. l \in 1 .. k - 1 /\ l + 1 \in 1 .. k /\ l \in 1 .. l /\ l + 1 \notin 1 .. l
    BY <1>1, <1>3
  <2>2. nd[l].level = 0 /\ nd[l + 1].level # 0
    BY <1>1, <2>1, ShapeLevels
  <2> QED  BY <2>1, <2>2, ShapeLevels
<1> QED  BY <1>2, <1>3

(* The recursion of Items. *)
IsFrom(t, g) ==
  g = CHOOSE h : h = [v \in DOMAIN t.nextleaf |->
        [s \in 1 .. t.node[v].slotuse |-> <<t.node[v].slotkey[s - 1], t.node[v].slotdata[s - 1]>>]
        \o IF t.nextleaf[v] = NULL THEN <<>> ELSE h[t.nextleaf[v]]]

LEMMA ItemsFrom ==
  ASSUME NEW t
  PROVE  \E g : /\ IsFrom(t, g)
                /\ t.headleaf = NULL => Items(t) = <<>>
                /\ t.headleaf # NULL => Items(t) = g[t.headleaf]
<1>1. CASE t.headleaf = NULL
  BY ONLY <1>1, Zenon DEF Items, IsFrom
<1>2. CASE t.headleaf # NULL
  BY ONLY <1>2, Zenon DEF Items, IsFrom
<1> QED  BY <1>1, <1>2, Zenon

(* From leaf v to the end: the items of v, and what follows. *)
ReadsFrom(its, e, l, v) ==
  /\ v = l => SubSeq(its, Before(e, v) + 1, Len(its))
              = SubSeq(its, Before(e, v) + 1, e[v]) \o <<>>
  /\ v # l => /\ v + 1 \in 1 .. l
              /\ SubSeq(its, Before(e, v) + 1, Len(its))
                 = SubSeq(its, Before(e, v) + 1, e[v]) \o SubSeq(its, Before(e, v + 1) + 1, Len(its))

LEMMA ReadsOn ==
  ASSUME NEW its, NEW nd, NEW e, NEW f, NEW l, NEW k, Shape(its, nd, e, f, l, k), IsRange(its),
         NEW v \in 1 .. l
  PROVE  ReadsFrom(its, e, l, v)
<1>1. PICK a, b : a = Before(e, v) /\ b = e[v]
  OBVIOUS
<1>2. a \in Nat /\ a < b /\ b \in 1 .. Len(its) /\ Len(its) \in Nat /\ l \in Nat
  BY <1>1, ShapeLeaf, ShapeFacts
<1>3. a <= b /\ b <= Len(its) /\ b \in Nat
  BY <1>2
<1>4. CASE v = l
  <2>1. b = Len(its)
    BY <1>1, <1>4, LastLeaf
  <2>2. SubSeq(its, a + 1, b) \in Seq(Key \X Value)
    BY <1>2, <1>3, Pieces
  <2>3. SubSeq(its, a + 1, b) \o <<>> = SubSeq(its, a + 1, b)
    BY <2>2, ConcatEmptySeq
  <2> QED  BY ONLY <1>1, <1>4, <2>1, <2>3 DEF ReadsFrom
<1>5. CASE v # l
  <2>1. v + 1 \in 1 .. l /\ Before(e, v + 1) = b
    BY <1>1, <1>2, <1>5 DEF Before
  <2>2. SubSeq(its, a + 1, b) \o SubSeq(its, b + 1, Len(its)) = SubSeq(its, a + 1, Len(its))
    BY <1>2, <1>3, Rejoin
  <2> QED  BY ONLY <1>1, <1>5, <2>1, <2>2 DEF ReadsFrom
<1> QED  BY <1>4, <1>5

LEMMA FromIs ==
  ASSUME NEW its, NEW nd, NEW e, NEW f, NEW l, NEW k, Shape(its, nd, e, f, l, k), IsRange(its),
         NEW t, NEW root, IsStore(t, its, nd, l, k, root), NEW g, IsFrom(t, g)
  PROVE  g[1] = SubSeq(its, 1, Len(its))
<1>1. l \in Nat /\ k \in Nat /\ l \in 1 .. k /\ 1 \in 1 .. l
  BY ShapeFacts
<1>2. /\ t.node = nd /\ DOMAIN t.nextleaf = 1 .. l
      /\ \A v \in 1 .. l : t.nextleaf[v] = (IF v = l THEN NULL ELSE v + 1)
  BY StoreParts, StoreLeaves
<1>3. \A v \in 1 .. l : t.nextleaf[v] = NULL <=> v = l
  BY <1>1, <1>2, NullAssumption
<1> DEFINE Leaf(v) == [s \in 1 .. t.node[v].slotuse |-> <<t.node[v].slotkey[s - 1], t.node[v].slotdata[s - 1]>>]
           From(h) == h = [v \in DOMAIN t.nextleaf |->
                            Leaf(v) \o IF t.nextleaf[v] = NULL THEN <<>> ELSE h[t.nextleaf[v]]]
<1>4. \A v \in 1 .. l : Leaf(v) = SubSeq(its, Before(e, v) + 1, e[v])
  BY <1>2, LeafItems
<1>40. IsFrom(t, g) => (g = CHOOSE h : From(h))
  BY Zenon DEF IsFrom
<1>41. PICK R : R = [v \in 1 .. l |-> Leaf(v)]
  OBVIOUS
<1>42. \A v \in 1 .. l : R[v] = Leaf(v)
  BY ONLY <1>41
<1>43. \A h : From(h) <=> h = [v \in 1 .. l |-> R[v] \o IF v = l THEN <<>> ELSE h[v + 1]]
  <2> TAKE h
  <2> HIDE DEF Leaf
  <2>1. [v \in DOMAIN t.nextleaf |-> Leaf(v) \o IF t.nextleaf[v] = NULL THEN <<>> ELSE h[t.nextleaf[v]]]
        = [v \in 1 .. l |-> R[v] \o IF v = l THEN <<>> ELSE h[v + 1]]
    <3>1. \A v \in 1 .. l : (Leaf(v) \o IF t.nextleaf[v] = NULL THEN <<>> ELSE h[t.nextleaf[v]])
                            = (R[v] \o IF v = l THEN <<>> ELSE h[v + 1])
      <4> TAKE v \in 1 .. l
      <4>1. (IF t.nextleaf[v] = NULL THEN <<>> ELSE h[t.nextleaf[v]]) = (IF v = l THEN <<>> ELSE h[v + 1])
        BY <1>2, <1>3
      <4>2. Leaf(v) = R[v]
        BY <1>42
      <4> QED  BY ONLY <4>1, <4>2
    <3>2. DOMAIN t.nextleaf = 1 .. l
      BY <1>2
    <3> QED  BY ONLY <3>1, <3>2
  <2> QED  BY ONLY <2>1
<1>44. \A v \in 1 .. l : R[v] = SubSeq(its, Before(e, v) + 1, e[v])
  BY <1>4, <1>42
<1> HIDE DEF Leaf, From
<1>5. PICK x : x = [v \in 1 .. l |-> SubSeq(its, Before(e, v) + 1, Len(its))]
  OBVIOUS
<1>6. \A v \in 1 .. l : x[v] = R[v] \o IF v = l THEN <<>> ELSE x[v + 1]
  <2> TAKE v \in 1 .. l
  <2>1. x[v] = SubSeq(its, Before(e, v) + 1, Len(its))
    BY ONLY <1>5, v \in 1 .. l
  <2>2. v + 1 \in 1 .. l => x[v + 1] = SubSeq(its, Before(e, v + 1) + 1, Len(its))
    BY ONLY <1>5
  <2>3. R[v] = SubSeq(its, Before(e, v) + 1, e[v])
    BY <1>44
  <2>4. ReadsFrom(its, e, l, v)
    BY ReadsOn
  <2>5. CASE v = l
    BY ONLY <2>1, <2>3, <2>4, <2>5 DEF ReadsFrom
  <2>6. CASE v # l
    BY ONLY <2>1, <2>2, <2>3, <2>4, <2>6 DEF ReadsFrom
  <2> QED  BY <2>5, <2>6
<1>7. From(x)
  <2>1. DOMAIN x = 1 .. l /\ x = [v \in DOMAIN x |-> x[v]]
    BY ONLY <1>5
  <2>2. x = [v \in 1 .. l |-> R[v] \o IF v = l THEN <<>> ELSE x[v + 1]]
    BY ONLY <1>6, <2>1
  <2> QED  BY <1>43, <2>2
<1>8. From(g)
  <2>1. \E h : From(h)
    BY <1>7
  <2>2. g = CHOOSE h : From(h)
    BY <1>40
  <2> QED  BY ONLY <2>1, <2>2
<1>9. \A v \in 1 .. l : g[v] = R[v] \o IF v = l THEN <<>> ELSE g[v + 1]
  <2>1. g = [v \in 1 .. l |-> R[v] \o IF v = l THEN <<>> ELSE g[v + 1]]
    BY <1>8, <1>43
  <2>2. PICK F : F = [v \in 1 .. l |-> R[v] \o IF v = l THEN <<>> ELSE g[v + 1]]
    OBVIOUS
  <2>3. \A v \in 1 .. l : F[v] = R[v] \o IF v = l THEN <<>> ELSE g[v + 1]
    BY ONLY <2>2
  <2>4. g = F
    BY ONLY <2>1, <2>2
  <2> QED  BY ONLY <2>3, <2>4
<1>10. \A v \in 1 .. l : g[v] = x[v]
  <2>0. PICK Bad : Bad = {v \in 1 .. l : g[v] # x[v]}
    OBVIOUS
  <2> SUFFICES ASSUME Bad # {} PROVE FALSE
    BY <2>0
  <2>1. Bad \subseteq 1 .. l
    BY ONLY <2>0
  <2>2. PICK v \in Bad : \A u \in Bad : u <= v
    BY <1>1, <2>1, Greatest
  <2>3. v \in 1 .. l /\ g[v] # x[v]
    BY ONLY <2>0, v \in Bad
  <2>4. v # l => v + 1 \in 1 .. l /\ ~(v + 1 <= v)
    BY ONLY <1>1, <2>3
  <2>5. v # l => g[v + 1] = x[v + 1]
    BY ONLY <2>0, <2>2, <2>4
  <2>6. g[v] = R[v] \o (IF v = l THEN <<>> ELSE g[v + 1]) /\ x[v] = R[v] \o (IF v = l THEN <<>> ELSE x[v + 1])
    BY ONLY <1>6, <1>9, <2>3
  <2> QED  BY ONLY <2>3, <2>5, <2>6
<1>11. Before(e, 1) = 0
  BY DEF Before
<1>12. x[1] = SubSeq(its, Before(e, 1) + 1, Len(its))
  BY ONLY <1>1, <1>5
<1>13. Before(e, 1) + 1 = 1
  BY <1>11
<1> QED  BY ONLY <1>1, <1>10, <1>12, <1>13

(* Read along the list of its leaves, a finished tree is the range. *)
LEMMA ItemsAre ==
  ASSUME NEW its, NEW nd, NEW e, NEW f, NEW l, NEW k, Shape(its, nd, e, f, l, k), IsRange(its),
         NEW t, NEW root, IsStore(t, its, nd, l, k, root)
  PROVE  Items(t) = its
<1>1. l \in Nat /\ l >= 1 /\ Len(its) \in Nat
  BY ShapeFacts
<1>2. t.headleaf = 1 /\ t.headleaf # NULL
  <2>1. t.headleaf = (IF l = 0 THEN NULL ELSE 1)
    BY StoreLeaves
  <2> QED  BY <1>1, <2>1, NullAssumption
<1>3. PICK g : IsFrom(t, g) /\ (t.headleaf # NULL => Items(t) = g[t.headleaf])
  BY ItemsFrom
<1>4. g[1] = SubSeq(its, 1, Len(its))
  BY <1>3, FromIs
<1>5. SubSeq(its, 1, Len(its)) = its
  <2>1. PICK z : z = SubSeq(its, 0 + 1, Len(its))
    OBVIOUS
  <2>2. /\ SubSeq(its, 0 + 1, Len(its)) \in Seq(Key \X Value)
        /\ Len(SubSeq(its, 0 + 1, Len(its))) = Len(its) - 0
        /\ \A s \in 1 .. Len(its) - 0 : SubSeq(its, 0 + 1, Len(its))[s] = its[0 + s]
    <3>1. 0 \in Nat /\ 0 <= Len(its) /\ Len(its) <= Len(its)
      BY <1>1
    <3> QED  BY ONLY <1>1, <3>1, Pieces, IsRange(its)
  <2>3. z \in Seq(Key \X Value) /\ Len(z) = Len(its) /\ \A s \in 1 .. Len(its) : z[s] = its[s]
    BY ONLY <1>1, <2>1, <2>2
  <2>4. its \in Seq(Key \X Value)
    BY DEF IsRange
  <2>5. z = its
    BY ONLY <2>3, <2>4, SeqEqual
  <2> QED  BY <2>1, <2>5
<1> QED  BY ONLY <1>2, <1>3, <1>4, <1>5

LEMMA EmptyItems ==
  ASSUME NEW t, NEW its, NEW nd, NEW root, IsStore(t, its, nd, 0, 0, root)
  PROVE  Items(t) = <<>>
<1>1. t.headleaf = NULL
  BY StoreLeaves
<1> QED  BY <1>1, ItemsFrom

(* No item is lost, doubled or moved: read along the list of leaves, the    *)
(* loaded tree is the range, for every range and every capacity             *)
(* (btree.h 2806-2840).                                                     *)
THEOREM LoadedTreeIsTheRange == Spec => []LoadedIsTheRange
<1>1. IInv => LoadedIsTheRange
  <2> SUFFICES ASSUME NEW e, NEW f, LoadInv(e, f), phase = "done" PROVE items = Items(btree)
    BY DEF IInv, LoadedIsTheRange
  <2>1. /\ IsRange(items)
        /\ IsStore(btree, items, btree.node, NumLeaves, NumNodes, btree.root)
    BY DoneFacts
  <2>2. CASE items = <<>>
    <3>1. IsStore(btree, items, btree.node, 0, 0, btree.root)
      BY <2>1, <2>2, DoneFacts
    <3> QED  BY <2>2, <3>1, EmptyItems
  <2>3. CASE items # <<>>
    <3>1. Shape(items, btree.node, e, f, NumLeaves, NumNodes)
      BY <2>3, DoneFacts
    <3> QED  BY <2>1, <3>1, ItemsAre
  <2> QED  BY <2>2, <2>3
<1> QED  BY <1>1, Invariance, PTL

-----------------------------------------------------------------------------
(* What lies below a node.  The items below node v are those from          *)
(* Start(v) + 1 to e[v]; on one level they are apart.                      *)

Start(nd, e, v) == IF First(nd, v) THEN 0 ELSE e[v - 1]

LEMMA ShapeMonotone ==
  ASSUME NEW its, NEW nd, NEW e, NEW f, NEW l, NEW k, Shape(its, nd, e, f, l, k)
  PROVE  \A u, v \in 1 .. k : u <= v => nd[u].level <= nd[v].level
<1>1. LevelsBuilt(its, nd, e, k) /\ k \in Nat
  BY ShapeFacts DEF Built
<1>2. \A u, v \in 1 .. k : u < v => nd[u].level <= nd[v].level
  BY <1>1 DEF LevelsBuilt
<1>3. \A u \in 1 .. k : nd[u].level \in Nat
  BY ShapeLevels
<1> TAKE u, v \in 1 .. k
<1> HAVE u <= v
<1>4. CASE u = v
  BY <1>3, <1>4
<1>5. CASE u < v
  BY <1>2, <1>5
<1> QED  BY <1>1, <1>4, <1>5

LEMMA StartFacts ==
  ASSUME NEW its, NEW nd, NEW e, NEW f, NEW l, NEW k, Shape(its, nd, e, f, l, k),
         NEW v \in 1 .. k
  PROVE  /\ Start(nd, e, v) \in Nat /\ Start(nd, e, v) < e[v]
         /\ e[v] \in 1 .. Len(its) /\ e[v] \in Nat
         /\ Start(nd, e, v) + 1 \in 1 .. Len(its)
         /\ v \in 1 .. l => Start(nd, e, v) = Before(e, v)
<1>1. k \in Nat /\ l \in Nat /\ l <= k /\ Len(its) \in Nat
      /\ \A u \in 1 .. k : e[u] \in 1 .. Len(its) /\ e[u] \in Nat
  BY ShapeFacts
<1>2. CASE First(nd, v)
  <2>1. Start(nd, e, v) = 0
    BY <1>2 DEF Start
  <2>2. v \in 1 .. l => Before(e, v) = 0
    <3> SUFFICES ASSUME v \in 1 .. l, v # 1 PROVE FALSE
      BY DEF Before
    <3>1. v - 1 \in 1 .. l /\ v - 1 \in 1 .. k
      BY <1>1
    <3>2. nd[v - 1].level = 0 /\ nd[v].level = 0
      BY <3>1, ShapeLevels
    <3> QED  BY <1>2, <3>2 DEF First
  <2> QED  BY <1>1, <2>1, <2>2
<1>3. CASE ~First(nd, v)
  <2>1. v # 1 /\ nd[v - 1].level = nd[v].level
    BY <1>3 DEF First
  <2>2. v - 1 \in 1 .. k /\ v - 1 < v
    BY <1>1, <2>1
  <2>3. e[v - 1] < e[v]
    BY <2>1, <2>2, ShapeLevels
  <2>4. Start(nd, e, v) = e[v - 1] /\ Before(e, v) = e[v - 1]
    BY <1>3, <2>1 DEF Start, Before
  <2> QED  BY <1>1, <2>2, <2>3, <2>4
<1> QED  BY <1>2, <1>3

LEMMA StartUp ==
  ASSUME NEW its, NEW nd, NEW e, NEW f, NEW l, NEW k, Shape(its, nd, e, f, l, k),
         NEW p \in l + 1 .. k, NEW v \in f[p] .. f[p + 1] - 1
  PROVE  Start(nd, e, v) = IF v = f[p] THEN Start(nd, e, p) ELSE e[v - 1]
BY FirstUp DEF Start

(* No two nodes of a level have items in common. *)
LEMMA Apart ==
  ASSUME NEW its, NEW nd, NEW e, NEW f, NEW l, NEW k, Shape(its, nd, e, f, l, k),
         NEW u \in 1 .. k, NEW v \in 1 .. k, nd[u].level = nd[v].level,
         Start(nd, e, u) < e[v], e[v] <= e[u]
  PROVE  u = v
<1>1. k \in Nat /\ \A w \in 1 .. k : e[w] \in Nat /\ nd[w].level \in Nat
  BY ShapeFacts, ShapeLevels
<1>2. CASE v < u
  <2>1. u - 1 \in 1 .. k /\ v <= u - 1 /\ u - 1 <= u /\ u # 1
    BY <1>1, <1>2
  <2>2. nd[v].level <= nd[u - 1].level /\ nd[u - 1].level <= nd[u].level
    BY <2>1, ShapeMonotone
  <2>3. nd[u - 1].level = nd[u].level /\ nd[v].level = nd[u - 1].level
    BY <1>1, <2>1, <2>2
  <2>4. Start(nd, e, u) = e[u - 1]
    BY <2>1, <2>3 DEF Start, First
  <2>5. e[v] <= e[u - 1]
    <3>1. CASE v = u - 1
      BY <1>1, <3>1
    <3>2. CASE v < u - 1
      <4>1. e[v] < e[u - 1]
        BY <2>1, <2>3, <3>2, ShapeLevels
      <4> QED  BY <1>1, <2>1, <4>1
    <3> QED  BY <1>1, <2>1, <3>1, <3>2
  <2> QED  BY <1>1, <2>1, <2>4, <2>5
<1>3. CASE u < v
  <2>1. e[u] < e[v]
    BY <1>3, ShapeLevels
  <2> QED  BY <1>1, <2>1
<1> QED  BY <1>1, <1>2, <1>3

LEMMA ShapeChildren ==
  ASSUME NEW its, NEW nd, NEW e, NEW f, NEW l, NEW k, Shape(its, nd, e, f, l, k),
         NEW t, t.node = nd
  PROVE  /\ \A u \in 1 .. l : Children(t, u) = {}
         /\ \A u \in l + 1 .. k : Children(t, u) = f[u] .. f[u + 1] - 1
<1>1. ASSUME NEW u \in 1 .. l PROVE Children(t, u) = {}
  <2>1. nd[u] = LeafAt(its, Before(e, u), e[u])
    BY ShapeLeaf
  <2>2. nd[u].childid = <<>>
    BY <2>1 DEF LeafAt
  <2> QED  BY <2>2 DEF Children
<1>2. ASSUME NEW u \in l + 1 .. k PROVE Children(t, u) = f[u] .. f[u + 1] - 1
  <2>1. PICK a, b, x : a = f[u] /\ b = f[u + 1] /\ x = nd[u]
    OBVIOUS
  <2>2. a \in Nat /\ b \in Nat
    BY <2>1, ShapeSpan
  <2>3. DOMAIN x.childid = 0 .. b - a - 1 /\ \A s \in 0 .. b - a - 1 : x.childid[s] = a + s
    BY <2>1, ShapeChild
  <2>4. Children(t, u) = {x.childid[s] : s \in 0 .. b - a - 1}
    BY <2>1, <2>3 DEF Children
  <2>5. \A c \in a .. b - 1 : c - a \in 0 .. b - a - 1 /\ a + (c - a) = c
    BY <2>2
  <2>6. \A s \in 0 .. b - a - 1 : a + s \in a .. b - 1
    BY <2>2
  <2>7. {x.childid[s] : s \in 0 .. b - a - 1} = a .. b - 1
    <3>1. \A c \in a .. b - 1 : \E s \in 0 .. b - a - 1 : x.childid[s] = c
      BY ONLY <2>3, <2>5
    <3>2. \A s \in 0 .. b - a - 1 : x.childid[s] \in a .. b - 1
      BY ONLY <2>3, <2>6
    <3> QED  BY ONLY <3>1, <3>2
  <2> QED  BY <2>1, <2>4, <2>7
<1> QED  BY <1>1, <1>2

(* The nodes below u, itself included. *)
Under(nd, e, k, u) ==
  {v \in 1 .. k : nd[v].level <= nd[u].level /\ Start(nd, e, u) < e[v] /\ e[v] <= e[u]}

LEMMA UnderLeaf ==
  ASSUME NEW its, NEW nd, NEW e, NEW f, NEW l, NEW k, Shape(its, nd, e, f, l, k),
         NEW u \in 1 .. l
  PROVE  Under(nd, e, k, u) = {u}
<1>1. u \in 1 .. k /\ k \in Nat
  BY ShapeFacts
<1>2. nd[u].level = 0 /\ \A v \in 1 .. k : nd[v].level \in Nat
  BY <1>1, ShapeLevels
<1>3. Start(nd, e, u) < e[u] /\ e[u] \in Nat
  BY <1>1, StartFacts
<1>4. u \in Under(nd, e, k, u)
  BY <1>1, <1>2, <1>3 DEF Under
<1>5. ASSUME NEW v \in Under(nd, e, k, u) PROVE v = u
  <2>1. v \in 1 .. k /\ nd[v].level <= nd[u].level /\ Start(nd, e, u) < e[v] /\ e[v] <= e[u]
    BY DEF Under
  <2>2. nd[u].level = nd[v].level
    BY <1>2, <2>1
  <2> QED  BY <1>1, <2>1, <2>2, Apart
<1> QED  BY <1>4, <1>5

LEMMA UnderInner ==
  ASSUME NEW its, NEW nd, NEW e, NEW f, NEW l, NEW k, Shape(its, nd, e, f, l, k),
         NEW u \in l + 1 .. k
  PROVE  Under(nd, e, k, u) = {u} \cup UNION {Under(nd, e, k, c) : c \in f[u] .. f[u + 1] - 1}
<1>1. PICK a, b : a = f[u] /\ b = f[u + 1]
  OBVIOUS
<1>2. a \in Nat /\ a \in 1 .. k /\ b \in Nat /\ a + 1 < b /\ b \in 1 .. k /\ u \in 1 .. k /\ e[u] = e[b - 1] /\ k \in Nat
  BY <1>1, ShapeSpan, ShapeFacts
<1>3. \A c \in a .. b - 1 : c \in 1 .. k /\ nd[c].level + 1 = nd[u].level
  <2>1. \A c \in a .. b - 1 : nd[c].level + 1 = nd[u].level
    BY <1>1, ShapeBelow
  <2> QED  BY <1>2, <2>1
<1>4. \A v \in 1 .. k : nd[v].level \in Nat /\ e[v] \in Nat /\ Start(nd, e, v) \in Nat /\ Start(nd, e, v) < e[v]
  BY ShapeLevels, StartFacts
<1>5. \A c \in a .. b - 1 : Start(nd, e, c) = IF c = a THEN Start(nd, e, u) ELSE e[c - 1]
  BY <1>1, StartUp
<1>6. \A c, d \in a .. b - 1 : c <= d => e[c] <= e[d]
  <2> TAKE c, d \in a .. b - 1
  <2> HAVE c <= d
  <2>1. c \in 1 .. k /\ d \in 1 .. k /\ nd[c].level + 1 = nd[d].level + 1
    BY <1>3
  <2>2. nd[c].level = nd[d].level /\ e[c] \in Nat /\ e[d] \in Nat
    BY <1>4, <2>1
  <2>3. CASE c = d
    BY <2>2, <2>3
  <2>4. CASE c < d
    <3>1. e[c] < e[d]
      BY <2>1, <2>2, <2>4, ShapeLevels
    <3> QED  BY <2>2, <3>1
  <2> QED  BY <1>2, <2>3, <2>4
<1>7. u \in Under(nd, e, k, u)
  BY <1>2, <1>4 DEF Under
<1>8. ASSUME NEW c \in a .. b - 1, NEW v \in Under(nd, e, k, c) PROVE v \in Under(nd, e, k, u)
  <2>1. v \in 1 .. k /\ nd[v].level <= nd[c].level /\ Start(nd, e, c) < e[v] /\ e[v] <= e[c]
    BY DEF Under
  <2>2. a \in a .. b - 1 /\ b - 1 \in a .. b - 1 /\ c \in 1 .. k
    BY <1>2, <1>3
  <2>3. nd[v].level <= nd[u].level
    BY <1>2, <1>3, <1>4, <2>1, <2>2
  <2>4. e[v] <= e[u]
    <3>1. e[c] <= e[b - 1]
      BY <1>2, <1>6, <2>2
    <3> QED  BY <1>2, <1>4, <2>1, <2>2, <3>1
  <2>5. Start(nd, e, u) < e[v]
    <3>1. CASE c = a
      BY <1>5, <2>1, <3>1
    <3>2. CASE c # a
      <4>1. c - 1 \in a .. b - 1 /\ a <= c - 1 /\ c - 1 \in 1 .. k /\ a \in 1 .. k
        BY <1>2, <1>3, <2>2, <3>2
      <4>2. e[a] <= e[c - 1]
        BY <1>6, <2>2, <4>1
      <4>3. Start(nd, e, c) = e[c - 1] /\ Start(nd, e, a) = Start(nd, e, u)
        BY <1>5, <2>2, <3>2
      <4>4. Start(nd, e, a) < e[a]
        BY <1>4, <4>1
      <4> QED  BY <1>2, <1>4, <2>1, <4>1, <4>2, <4>3, <4>4
    <3> QED  BY <3>1, <3>2
  <2> QED  BY <2>1, <2>3, <2>4, <2>5 DEF Under
<1>9. ASSUME NEW v \in Under(nd, e, k, u), v # u PROVE \E c \in a .. b - 1 : v \in Under(nd, e, k, c)
  <2>1. v \in 1 .. k /\ nd[v].level <= nd[u].level /\ Start(nd, e, u) < e[v] /\ e[v] <= e[u]
    BY DEF Under
  <2>2. nd[v].level # nd[u].level
    BY <1>2, <1>9, <2>1, Apart
  <2>3. PICK C : C = {c \in a .. b - 1 : e[v] <= e[c]}
    OBVIOUS
  <2>4. C \subseteq Nat /\ b - 1 \in C
    BY <1>2, <2>1, <2>3
  <2>5. PICK c \in C : \A d \in C : c <= d
    BY <2>4, LeastNatural
  <2>6. c \in a .. b - 1 /\ e[v] <= e[c] /\ c \in 1 .. k
    BY <1>3, <2>3
  <2>7. nd[v].level <= nd[c].level
    <3>1. nd[c].level + 1 = nd[u].level
      BY <1>3, <2>6
    <3> QED  BY <1>2, <1>4, <2>1, <2>2, <2>6, <3>1
  <2>8. Start(nd, e, c) < e[v]
    <3>1. CASE c = a
      BY <1>5, <2>1, <2>6, <3>1
    <3>2. CASE c # a
      <4>1. c - 1 \in a .. b - 1 /\ ~(c <= c - 1) /\ c - 1 \in 1 .. k
        BY <1>2, <1>3, <2>6, <3>2
      <4>2. ~(e[v] <= e[c - 1])
        BY <2>3, <2>5, <4>1
      <4>3. Start(nd, e, c) = e[c - 1]
        BY <1>5, <2>6, <3>2
      <4> QED  BY <1>4, <2>1, <4>1, <4>2, <4>3
    <3> QED  BY <3>1, <3>2
  <2>9. v \in Under(nd, e, k, c)
    BY <2>1, <2>6, <2>7, <2>8 DEF Under
  <2> QED  BY <2>6, <2>9
<1>10. Under(nd, e, k, u) = {u} \cup UNION {Under(nd, e, k, c) : c \in a .. b - 1}
  BY ONLY <1>7, <1>8, <1>9
<1> QED  BY ONLY <1>1, <1>10

LEMMA UnderRoot ==
  ASSUME NEW its, NEW nd, NEW e, NEW f, NEW l, NEW k, Shape(its, nd, e, f, l, k)
  PROVE  Under(nd, e, k, k) = 1 .. k
<1>1. k \in Nat /\ k \in 1 .. k /\ e[k] = Len(its) /\ Len(its) \in Nat
      /\ \A v \in 1 .. k : e[v] \in 1 .. Len(its)
  BY ShapeFacts
<1>3. First(nd, k)
  BY RootEnds
<1>4. Start(nd, e, k) = 0
  BY <1>3 DEF Start
<1>5. \A v \in 1 .. k : nd[v].level <= nd[k].level
  BY <1>1, ShapeMonotone
<1> QED  BY <1>1, <1>4, <1>5 DEF Under

(* The recursion of Below. *)
IsReach(t, g) ==
  g = CHOOSE h : h = [u \in DOMAIN t.node |-> {u} \cup UNION {h[c] : c \in Children(t, u)}]

(* Below is a solution of its recursion, whose value at the root is every node. *)
LEMMA BelowIs ==
  ASSUME NEW t, NEW v
  PROVE  \E g : IsReach(t, g) /\ Below(t, v) = g[v]
BY ONLY Zenon DEF Below, IsReach

LEMMA UnderStep ==
  ASSUME NEW its, NEW nd, NEW e, NEW f, NEW l, NEW k, Shape(its, nd, e, f, l, k),
         NEW t, t.node = nd, NEW u \in 1 .. k
  PROVE  /\ \A c \in Children(t, u) : c \in 1 .. k /\ c < u
         /\ Under(nd, e, k, u) = {u} \cup UNION {Under(nd, e, k, c) : c \in Children(t, u)}
<1>1. k \in Nat /\ l \in Nat /\ l \in 1 .. k
  BY ShapeFacts
<1>2. CASE u \in 1 .. l
  <2>1. Children(t, u) = {}
    BY <1>2, ShapeChildren
  <2>2. Under(nd, e, k, u) = {u}
    BY <1>2, UnderLeaf
  <2> QED  BY ONLY <2>1, <2>2
<1>3. CASE u \in l + 1 .. k
  <2>1. Children(t, u) = f[u] .. f[u + 1] - 1
    BY <1>3, ShapeChildren
  <2>2. \A c \in f[u] .. f[u + 1] - 1 : c \in 1 .. u - 1
    BY <1>3, ShapeBelow
  <2>3. \A c \in f[u] .. f[u + 1] - 1 : c \in 1 .. k /\ c < u
    BY <1>1, <2>2
  <2>4. Under(nd, e, k, u) = {u} \cup UNION {Under(nd, e, k, c) : c \in f[u] .. f[u + 1] - 1}
    BY <1>3, UnderInner
  <2> QED  BY ONLY <2>1, <2>3, <2>4
<1> QED  BY <1>1, <1>2, <1>3

(* Any solution has every node at the root. *)
LEMMA ReachIs ==
  ASSUME NEW its, NEW nd, NEW e, NEW f, NEW l, NEW k, Shape(its, nd, e, f, l, k),
         NEW t, t.node = nd, NEW g, IsReach(t, g)
  PROVE  g[k] = 1 .. k
<1>1. k \in Nat /\ k \in 1 .. k /\ DOMAIN t.node = 1 .. k
  BY ShapeFacts
<1>2. PICK x : x = [u \in 1 .. k |-> Under(nd, e, k, u)]
  OBVIOUS
<1>3. \A u \in 1 .. k : \A c \in Children(t, u) : c \in 1 .. k /\ c < u
  BY UnderStep
<1>4. \A u \in 1 .. k : Under(nd, e, k, u) = {u} \cup UNION {Under(nd, e, k, c) : c \in Children(t, u)}
  BY UnderStep
<1>5. \A u \in 1 .. k : x[u] = {u} \cup UNION {x[c] : c \in Children(t, u)}
  <2> TAKE u \in 1 .. k
  <2>1. \A c \in Children(t, u) : x[c] = Under(nd, e, k, c)
    BY <1>2, <1>3
  <2>2. UNION {x[c] : c \in Children(t, u)} = UNION {Under(nd, e, k, c) : c \in Children(t, u)}
    BY ONLY <2>1
  <2>3. x[u] = Under(nd, e, k, u)
    BY <1>2
  <2>4. Under(nd, e, k, u) = {u} \cup UNION {Under(nd, e, k, c) : c \in Children(t, u)}
    BY <1>4
  <2> QED  BY ONLY <2>2, <2>3, <2>4
<1> DEFINE Reach(h) == h = [u \in DOMAIN t.node |-> {u} \cup UNION {h[c] : c \in Children(t, u)}]
<1>6. Reach(x)
  <2>1. x = [u \in DOMAIN x |-> x[u]] /\ DOMAIN x = 1 .. k
    BY <1>2
  <2> QED  BY ONLY <1>1, <1>5, <2>1
<1>7. Reach(g)
  <2>1. \E h : Reach(h)
    BY <1>6
  <2>2. IsReach(t, g) => (g = CHOOSE h : Reach(h))
    BY Zenon DEF IsReach
  <2> HIDE DEF Reach
  <2> QED  BY <2>1, <2>2
<1>8. \A u \in 1 .. k : g[u] = {u} \cup UNION {g[c] : c \in Children(t, u)}
  BY ONLY <1>1, <1>7
<1>9. \A u \in 1 .. k : g[u] = x[u]
  <2>0. PICK Bad : Bad = {u \in 1 .. k : g[u] # x[u]}
    OBVIOUS
  <2> SUFFICES ASSUME Bad # {} PROVE FALSE
    BY <2>0
  <2>1. Bad \subseteq Nat
    BY <1>1, <2>0
  <2>2. PICK u \in Bad : \A w \in Bad : u <= w
    BY <2>1, LeastNatural
  <2>3. u \in 1 .. k /\ g[u] # x[u]
    BY <2>0
  <2>4. \A c \in Children(t, u) : g[c] = x[c]
    <3> TAKE c \in Children(t, u)
    <3>1. c \in 1 .. k /\ ~(u <= c)
      BY <1>1, <1>3, <2>3
    <3> QED  BY <2>0, <2>2, <3>1
  <2>5. UNION {g[c] : c \in Children(t, u)} = UNION {x[c] : c \in Children(t, u)}
    BY ONLY <2>4
  <2>6. g[u] = {u} \cup UNION {g[c] : c \in Children(t, u)} /\ x[u] = {u} \cup UNION {x[c] : c \in Children(t, u)}
    BY ONLY <1>5, <1>8, <2>3
  <2> QED  BY ONLY <2>3, <2>5, <2>6
<1>10. x[k] = 1 .. k
  <2>1. x[k] = Under(nd, e, k, k)
    BY <1>1, <1>2
  <2> QED  BY <2>1, UnderRoot
<1> QED  BY ONLY <1>1, <1>9, <1>10

LEMMA BelowAll ==
  ASSUME NEW its, NEW nd, NEW e, NEW f, NEW l, NEW k, Shape(its, nd, e, f, l, k),
         NEW t, t.node = nd
  PROVE  Below(t, k) = 1 .. k
BY BelowIs, ReachIs

-----------------------------------------------------------------------------
(* The smallest and the largest key below a node, as verify_node finds them. *)

IsMin(t, g) ==
  g = CHOOSE h : h = [u \in DOMAIN t.node |-> IF isleafnode(t.node[u]) THEN FirstKey(t, u)
                                              ELSE h[t.node[u].childid[0]]]
IsMax(t, g) ==
  g = CHOOSE h : h = [u \in DOMAIN t.node |-> IF isleafnode(t.node[u]) THEN LastKey(t, u)
                                              ELSE h[t.node[u].childid[t.node[u].slotuse]]]

(* The keys at both ends of a leaf; the first and the last child of others. *)
LEMMA EndKeys ==
  ASSUME NEW its, NEW nd, NEW e, NEW f, NEW l, NEW k, Shape(its, nd, e, f, l, k),
         NEW t, t.node = nd, NEW u \in 1 .. k
  PROVE  /\ isleafnode(nd[u]) => /\ FirstKey(t, u) = its[Start(nd, e, u) + 1][1]
                                 /\ LastKey(t, u) = its[e[u]][1]
         /\ ~isleafnode(nd[u]) =>
              /\ nd[u].childid[0] \in 1 .. k /\ nd[u].childid[0] < u
              /\ Start(nd, e, nd[u].childid[0]) = Start(nd, e, u)
              /\ nd[u].childid[nd[u].slotuse] \in 1 .. k /\ nd[u].childid[nd[u].slotuse] < u
              /\ e[nd[u].childid[nd[u].slotuse]] = e[u]
<1>1. k \in Nat /\ l \in Nat /\ l \in 1 .. k /\ (isleafnode(nd[u]) <=> u \in 1 .. l)
  BY ShapeFacts, ShapeLevels
<1>2. CASE u \in 1 .. l
  <2>1. PICK a, b, x : a = Before(e, u) /\ b = e[u] /\ x = nd[u]
    OBVIOUS
  <2>2. /\ a \in Nat /\ a < b /\ b \in 1 .. Len(its) /\ x.slotuse = b - a
        /\ \A s \in 0 .. b - a - 1 : x.slotkey[s] = its[a + s + 1][1]
    BY <1>2, <2>1, ShapeLeaf
  <2>3. 0 \in 0 .. b - a - 1 /\ a + 0 + 1 = a + 1
        /\ b - a - 1 \in 0 .. b - a - 1 /\ a + (b - a - 1) + 1 = b
    BY <2>2
  <2>4. x.slotkey[0] = its[a + 0 + 1][1] /\ x.slotkey[b - a - 1] = its[a + (b - a - 1) + 1][1]
    BY <2>2, <2>3
  <2>5. x.slotkey[0] = its[a + 1][1] /\ x.slotkey[x.slotuse - 1] = its[b][1]
    BY <2>2, <2>3, <2>4
  <2>6. Start(nd, e, u) = a
    BY <1>2, <2>1, StartFacts
  <2> QED  BY <1>1, <1>2, <2>1, <2>5, <2>6 DEF FirstKey, LastKey
<1>3. CASE u \in l + 1 .. k
  <2>1. PICK a, b, x : a = f[u] /\ b = f[u + 1] /\ x = nd[u]
    OBVIOUS
  <2>2. a \in Nat /\ b \in Nat /\ a + 1 < b /\ b <= u /\ a \in 1 .. k /\ b \in 1 .. k /\ e[u] = e[b - 1]
    BY <1>3, <2>1, ShapeSpan
  <2>3. \A s \in 0 .. b - a - 1 : x.childid[s] = a + s
    BY <1>3, <2>1, ShapeChild
  <2>4. x.slotuse = b - a - 1
    BY <1>3, <2>1, ShapeKeys
  <2>5. 0 \in 0 .. b - a - 1 /\ b - a - 1 \in 0 .. b - a - 1 /\ a + 0 = a /\ a + (b - a - 1) = b - 1
    BY <2>2
  <2>6. x.childid[0] = a /\ x.childid[x.slotuse] = b - 1
    BY <2>3, <2>4, <2>5
  <2>7. Start(nd, e, a) = Start(nd, e, u)
    <3>1. a \in f[u] .. f[u + 1] - 1
      BY <2>1, <2>2
    <3> QED  BY <1>3, <2>1, <3>1, StartUp
  <2>8. a < u /\ b - 1 < u /\ b - 1 \in 1 .. k
    BY <1>1, <2>2
  <2>9. ~isleafnode(nd[u])
    BY <1>1, <1>3
  <2> QED  BY ONLY <2>1, <2>2, <2>6, <2>7, <2>8, <2>9
<1> QED  BY <1>1, <1>2, <1>3

(* The smallest key below a node is that of its first item, *)
LEMMA MinIs ==
  ASSUME NEW its, NEW nd, NEW e, NEW f, NEW l, NEW k, Shape(its, nd, e, f, l, k),
         NEW t, t.node = nd, NEW g, IsMin(t, g)
  PROVE  \A u \in 1 .. k : g[u] = its[Start(nd, e, u) + 1][1]
<1>1. k \in Nat /\ DOMAIN t.node = 1 .. k
  BY ShapeFacts
<1>2. PICK x : x = [u \in 1 .. k |-> its[Start(nd, e, u) + 1][1]]
  OBVIOUS
<1>20. \A u \in 1 .. k : x[u] = its[Start(nd, e, u) + 1][1]
  BY ONLY <1>2
<1>3. \A u \in 1 .. k : ~isleafnode(t.node[u]) =>
           t.node[u].childid[0] \in 1 .. k /\ t.node[u].childid[0] < u
  BY EndKeys
<1>4. \A u \in 1 .. k : x[u] = IF isleafnode(t.node[u]) THEN FirstKey(t, u)
                               ELSE x[t.node[u].childid[0]]
  <2> TAKE u \in 1 .. k
  <2>1. isleafnode(t.node[u]) => FirstKey(t, u) = its[Start(nd, e, u) + 1][1]
    BY EndKeys
  <2>2. ~isleafnode(t.node[u]) => Start(nd, e, t.node[u].childid[0]) = Start(nd, e, u)
    BY EndKeys
  <2>3. ~isleafnode(t.node[u]) => x[t.node[u].childid[0]] = its[Start(nd, e, t.node[u].childid[0]) + 1][1]
    BY <1>3, <1>20
  <2> QED  BY <1>20, <2>1, <2>2, <2>3
<1> DEFINE Least(h) == h = [u \in DOMAIN t.node |-> IF isleafnode(t.node[u]) THEN FirstKey(t, u)
                                                  ELSE h[t.node[u].childid[0]]]
<1>5. Least(x)
  <2>1. x = [u \in DOMAIN x |-> x[u]] /\ DOMAIN x = 1 .. k
    BY ONLY <1>2
  <2> QED  BY ONLY <1>1, <1>4, <2>1
<1>6. Least(g)
  <2>1. \E h : Least(h)
    BY <1>5
  <2>2. IsMin(t, g) => (g = CHOOSE h : Least(h))
    BY Zenon DEF IsMin
  <2> HIDE DEF Least
  <2> QED  BY <2>1, <2>2
<1>7. \A u \in 1 .. k : g[u] = IF isleafnode(t.node[u]) THEN FirstKey(t, u)
                               ELSE g[t.node[u].childid[0]]
  BY ONLY <1>1, <1>6
<1>8. \A u \in 1 .. k : g[u] = x[u]
  <2>0. PICK Bad : Bad = {u \in 1 .. k : g[u] # x[u]}
    OBVIOUS
  <2> SUFFICES ASSUME Bad # {} PROVE FALSE
    BY <2>0
  <2>1. Bad \subseteq Nat
    BY <1>1, <2>0
  <2>2. PICK u \in Bad : \A w \in Bad : u <= w
    BY <2>1, LeastNatural
  <2>3. u \in 1 .. k /\ g[u] # x[u]
    BY <2>0
  <2>4. ~isleafnode(t.node[u]) => t.node[u].childid[0] \in 1 .. k /\ ~(u <= t.node[u].childid[0])
    BY <1>1, <1>3, <2>3
  <2>5. ~isleafnode(t.node[u]) => g[t.node[u].childid[0]] = x[t.node[u].childid[0]]
    BY <2>0, <2>2, <2>4
  <2> QED  BY ONLY <1>4, <1>7, <2>3, <2>5
<1> QED  BY ONLY <1>8, <1>20

(* the largest that of its last. *)
LEMMA MaxIs ==
  ASSUME NEW its, NEW nd, NEW e, NEW f, NEW l, NEW k, Shape(its, nd, e, f, l, k),
         NEW t, t.node = nd, NEW g, IsMax(t, g)
  PROVE  \A u \in 1 .. k : g[u] = its[e[u]][1]
<1>1. k \in Nat /\ DOMAIN t.node = 1 .. k
  BY ShapeFacts
<1>2. PICK x : x = [u \in 1 .. k |-> its[e[u]][1]]
  OBVIOUS
<1>20. \A u \in 1 .. k : x[u] = its[e[u]][1]
  BY ONLY <1>2
<1>3. \A u \in 1 .. k : ~isleafnode(t.node[u]) =>
           t.node[u].childid[t.node[u].slotuse] \in 1 .. k /\ t.node[u].childid[t.node[u].slotuse] < u
  BY EndKeys
<1>4. \A u \in 1 .. k : x[u] = IF isleafnode(t.node[u]) THEN LastKey(t, u)
                               ELSE x[t.node[u].childid[t.node[u].slotuse]]
  <2> TAKE u \in 1 .. k
  <2>1. isleafnode(t.node[u]) => LastKey(t, u) = its[e[u]][1]
    BY EndKeys
  <2>2. ~isleafnode(t.node[u]) => e[t.node[u].childid[t.node[u].slotuse]] = e[u]
    BY EndKeys
  <2>3. ~isleafnode(t.node[u]) => x[t.node[u].childid[t.node[u].slotuse]] = its[e[t.node[u].childid[t.node[u].slotuse]]][1]
    BY <1>3, <1>20
  <2> QED  BY <1>20, <2>1, <2>2, <2>3
<1> DEFINE Most(h) == h = [u \in DOMAIN t.node |-> IF isleafnode(t.node[u]) THEN LastKey(t, u)
                                                  ELSE h[t.node[u].childid[t.node[u].slotuse]]]
<1>5. Most(x)
  <2>1. x = [u \in DOMAIN x |-> x[u]] /\ DOMAIN x = 1 .. k
    BY ONLY <1>2
  <2> QED  BY ONLY <1>1, <1>4, <2>1
<1>6. Most(g)
  <2>1. \E h : Most(h)
    BY <1>5
  <2>2. IsMax(t, g) => (g = CHOOSE h : Most(h))
    BY Zenon DEF IsMax
  <2> HIDE DEF Most
  <2> QED  BY <2>1, <2>2
<1>7. \A u \in 1 .. k : g[u] = IF isleafnode(t.node[u]) THEN LastKey(t, u)
                               ELSE g[t.node[u].childid[t.node[u].slotuse]]
  BY ONLY <1>1, <1>6
<1>8. \A u \in 1 .. k : g[u] = x[u]
  <2>0. PICK Bad : Bad = {u \in 1 .. k : g[u] # x[u]}
    OBVIOUS
  <2> SUFFICES ASSUME Bad # {} PROVE FALSE
    BY <2>0
  <2>1. Bad \subseteq Nat
    BY <1>1, <2>0
  <2>2. PICK u \in Bad : \A w \in Bad : u <= w
    BY <2>1, LeastNatural
  <2>3. u \in 1 .. k /\ g[u] # x[u]
    BY <2>0
  <2>4. ~isleafnode(t.node[u]) => t.node[u].childid[t.node[u].slotuse] \in 1 .. k /\ ~(u <= t.node[u].childid[t.node[u].slotuse])
    BY <1>1, <1>3, <2>3
  <2>5. ~isleafnode(t.node[u]) => g[t.node[u].childid[t.node[u].slotuse]] = x[t.node[u].childid[t.node[u].slotuse]]
    BY <2>0, <2>2, <2>4
  <2> QED  BY ONLY <1>4, <1>7, <2>3, <2>5
<1> QED  BY ONLY <1>8, <1>20


-----------------------------------------------------------------------------
(* The loaded tree passes verify.                                          *)

(* verify_node, from the smallest and the largest keys below the nodes. *)
NodeVerifies(t, v, mn, mx) ==
  LET nd == t.node[v]
  IN  /\ v = t.root \/ ~isunderflow(nd)
      /\ nd.slotuse > 0
      /\ Sorted(nd)
      /\ ~isleafnode(nd) =>
           /\ \A s \in 0 .. nd.slotuse : t.node[nd.childid[s]].level + 1 = nd.level
           /\ \A s \in 1 .. nd.slotuse : mn[nd.childid[s]] >= nd.slotkey[s - 1]
           /\ \A s \in Slots(nd) : mx[nd.childid[s]] = nd.slotkey[s]
           /\ nd.level = 1 => \A s \in Slots(nd) : Linked(t, nd.childid[s], nd.childid[s + 1])
           /\ nd.level = 2 => \A s \in Slots(nd) :
                LET a == t.node[nd.childid[s]]
                    b == t.node[nd.childid[s + 1]]
                IN  Linked(t, a.childid[a.slotuse], b.childid[0])

(* verify_node reads the smallest and largest keys off solutions of their recursions. *)
LEMMA VerifyNodeIs ==
  ASSUME NEW t, NEW v
  PROVE  \E mn, mx : IsMin(t, mn) /\ IsMax(t, mx) /\ (verify_node(t, v) <=> NodeVerifies(t, v, mn, mx))
BY ONLY Zenon DEF verify_node, NodeVerifies, IsMin, IsMax

(* The neighbours in the list of leaves are neighbours in numbers. *)
LEMMA LeavesLinked ==
  ASSUME NEW its, NEW nd, NEW l, NEW k, NEW t, NEW root, IsStore(t, its, nd, l, k, root),
         NEW u \in 1 .. l, u + 1 \in 1 .. l
  PROVE  Linked(t, u, u + 1)
<1>1. l \in Nat
  BY DEF IsStore
<1>2. t.nextleaf[u] = u + 1
  <2>1. t.nextleaf[u] = (IF u = l THEN NULL ELSE u + 1)
    BY StoreLeaves
  <2>2. u # l
    BY <1>1
  <2> QED  BY <2>1, <2>2
<1>3. t.prevleaf[u + 1] = u
  <2>1. t.prevleaf[u + 1] = (IF u + 1 = 1 THEN NULL ELSE (u + 1) - 1)
    BY StoreLeaves
  <2>2. u + 1 # 1 /\ (u + 1) - 1 = u
    BY <1>1
  <2> QED  BY <2>1, <2>2
<1> QED  BY <1>2, <1>3 DEF Linked

(* The keys between the children, and the leaves below them. *)
LEMMA InnerVerifies ==
  ASSUME NEW its, NEW nd, NEW e, NEW f, NEW l, NEW k, Shape(its, nd, e, f, l, k), IsRange(its),
         NEW t, NEW root, IsStore(t, its, nd, l, k, root), NEW p \in l + 1 .. k,
         NEW mn, NEW mx,
         \A u \in 1 .. k : mn[u] = its[Start(nd, e, u) + 1][1] /\ mx[u] = its[e[u]][1]
  PROVE  /\ \A s \in 0 .. nd[p].slotuse : nd[nd[p].childid[s]].level + 1 = nd[p].level
         /\ \A s \in 1 .. nd[p].slotuse : mn[nd[p].childid[s]] >= nd[p].slotkey[s - 1]
         /\ \A s \in Slots(nd[p]) : mx[nd[p].childid[s]] = nd[p].slotkey[s]
         /\ nd[p].level = 1 =>
              \A s \in Slots(nd[p]) : Linked(t, nd[p].childid[s], nd[p].childid[s + 1])
         /\ nd[p].level = 2 => \A s \in Slots(nd[p]) :
              Linked(t, nd[nd[p].childid[s]].childid[nd[nd[p].childid[s]].slotuse],
                     nd[nd[p].childid[s + 1]].childid[0])
<1>1. PICK a, b, x : a = f[p] /\ b = f[p + 1] /\ x = nd[p]
  OBVIOUS
<1>2. a \in Nat /\ b \in Nat /\ a + 1 < b /\ b <= p /\ a \in 1 .. k /\ b \in 1 .. k
  BY <1>1, ShapeSpan
<1>3. x.slotuse = b - a - 1 /\ \A s \in 0 .. b - a - 2 : x.slotkey[s] = its[e[a + s]][1]
  BY <1>1, ShapeKeys
<1>4. \A s \in 0 .. b - a - 1 : x.childid[s] = a + s
  BY <1>1, ShapeChild
<1>5. \A c \in a .. b - 1 : nd[c].level + 1 = x.level
  BY <1>1, ShapeBelow
<1>6. k \in Nat /\ l \in Nat /\ l \in 1 .. k /\ b - a - 1 - 1 = b - a - 2 /\ Slots(x) = 0 .. b - a - 2
  <2>1. b - a - 1 - 1 = b - a - 2
    BY <1>2
  <2> QED  BY <1>3, <2>1, ShapeFacts DEF Slots
<1>7. \A s \in 0 .. b - a - 1 : a + s \in a .. b - 1 /\ a + s \in 1 .. k
  BY <1>2, <1>6
<1>8. \A c \in a .. b - 1 : Start(nd, e, c) = IF c = a THEN Start(nd, e, p) ELSE e[c - 1]
  BY <1>1, StartUp
<1>9. \A s \in 0 .. b - a - 2 : s \in 0 .. b - a - 1 /\ s + 1 \in 0 .. b - a - 1 /\ a + (s + 1) = (a + s) + 1
  BY <1>2
<1>10. ASSUME NEW s \in 0 .. b - a - 1 PROVE nd[x.childid[s]].level + 1 = x.level
  BY <1>4, <1>5, <1>7
<1>11. ASSUME NEW s \in 1 .. b - a - 1 PROVE mn[x.childid[s]] >= x.slotkey[s - 1]
  <2>1. PICK c : c = a + s
    OBVIOUS
  <2>2. s \in 0 .. b - a - 1 /\ s - 1 \in 0 .. b - a - 2 /\ c - 1 = a + (s - 1) /\ c # a
    BY <1>2, <2>1
  <2>3. c \in a .. b - 1 /\ c \in 1 .. k /\ x.childid[s] = c
    BY <1>4, <1>7, <2>1, <2>2
  <2>4. x.slotkey[s - 1] = its[e[c - 1]][1]
    BY <1>3, <2>2
  <2>5. c - 1 \in 1 .. k
    BY <1>2, <1>6, <2>2
  <2>6. mn[c] = its[e[c - 1] + 1][1]
    BY <1>8, <2>2, <2>3
  <2>7. e[c - 1] \in 1 .. Len(its) /\ e[c - 1] \in Nat
    BY <2>5, StartFacts
  <2>8. Start(nd, e, c) = e[c - 1] /\ Start(nd, e, c) + 1 \in 1 .. Len(its)
    BY <1>8, <2>2, <2>3, StartFacts
  <2>9. e[c - 1] + 1 \in 1 .. Len(its) /\ e[c - 1] <= e[c - 1] + 1
    BY <2>7, <2>8
  <2>10. its[e[c - 1]][1] <= its[e[c - 1] + 1][1]
         /\ its[e[c - 1]][1] \in Int /\ its[e[c - 1] + 1][1] \in Int
    BY <2>7, <2>9, IsRangeFacts
  <2> QED  BY <2>3, <2>4, <2>6, <2>10
<1>12. ASSUME NEW s \in 0 .. b - a - 2 PROVE mx[x.childid[s]] = x.slotkey[s]
  <2>1. x.childid[s] = a + s /\ a + s \in 1 .. k
    BY <1>4, <1>7, <1>9
  <2>2. mx[a + s] = its[e[a + s]][1]
    BY <2>1
  <2> QED  BY <1>3, <2>1, <2>2
<1>13. ASSUME x.level = 1, NEW s \in 0 .. b - a - 2 PROVE Linked(t, x.childid[s], x.childid[s + 1])
  <2>1. PICK c : c = a + s
    OBVIOUS
  <2>2. /\ x.childid[s] = c /\ x.childid[s + 1] = c + 1 /\ c \in a .. b - 1 /\ c + 1 \in a .. b - 1
        /\ c \in 1 .. k /\ c + 1 \in 1 .. k
    BY <1>4, <1>7, <1>9, <2>1
  <2>3. nd[c].level + 1 = 1 /\ nd[c + 1].level + 1 = 1
    BY <1>5, <1>13, <2>2
  <2>4. nd[c].level = 0 /\ nd[c + 1].level = 0
    <3>1. nd[c].level \in Nat /\ nd[c + 1].level \in Nat
      BY <2>2, ShapeLevels
    <3> QED  BY <2>3, <3>1
  <2>5. c \in 1 .. l /\ c + 1 \in 1 .. l
    BY <2>2, <2>4, ShapeLevels
  <2>6. Linked(t, c, c + 1)
    BY <2>5, LeavesLinked
  <2> QED  BY <2>2, <2>6
<1>14. ASSUME x.level = 2, NEW s \in 0 .. b - a - 2
       PROVE  Linked(t, nd[x.childid[s]].childid[nd[x.childid[s]].slotuse], nd[x.childid[s + 1]].childid[0])
  <2>1. PICK c : c = a + s
    OBVIOUS
  <2>2. /\ x.childid[s] = c /\ x.childid[s + 1] = c + 1 /\ c \in a .. b - 1 /\ c + 1 \in a .. b - 1
        /\ c \in 1 .. k /\ c + 1 \in 1 .. k
    BY <1>4, <1>7, <1>9, <2>1
  <2>3. nd[c].level + 1 = 2 /\ nd[c + 1].level + 1 = 2
    BY <1>5, <1>14, <2>2
  <2>4. nd[c].level = 1 /\ nd[c + 1].level = 1
    <3>1. nd[c].level \in Nat /\ nd[c + 1].level \in Nat
      BY <2>2, ShapeLevels
    <3> QED  BY <2>3, <3>1
  <2>5. c \notin 1 .. l /\ c + 1 \notin 1 .. l
    BY <2>2, <2>4, ShapeLevels
  <2>6. c \in l + 1 .. k /\ c + 1 \in l + 1 .. k
    BY <1>6, <2>2, <2>5
  <2>7. PICK a1, b1, a2, b2 : a1 = f[c] /\ b1 = f[c + 1] /\ a2 = f[c + 1] /\ b2 = f[(c + 1) + 1]
    OBVIOUS
  <2>8. /\ a1 \in Nat /\ b1 \in Nat /\ a1 + 1 < b1 /\ b1 \in 1 .. k /\ a1 \in 1 .. k
        /\ nd[c].slotuse = b1 - a1 - 1
        /\ \A r \in 0 .. b1 - a1 - 1 : nd[c].childid[r] = a1 + r
        /\ \A w \in a1 .. b1 - 1 : nd[w].level + 1 = nd[c].level
    <3>1. /\ a1 \in Nat /\ b1 \in Nat /\ a1 + 1 < b1 /\ b1 \in 1 .. k /\ a1 \in 1 .. k
      BY <2>6, <2>7, ShapeSpan
    <3>2. nd[c].slotuse = b1 - a1 - 1
      BY <2>6, <2>7, ShapeKeys
    <3>3. \A r \in 0 .. b1 - a1 - 1 : nd[c].childid[r] = a1 + r
      BY <2>6, <2>7, ShapeChild
    <3>4. \A w \in a1 .. b1 - 1 : nd[w].level + 1 = nd[c].level
      BY <2>6, <2>7, ShapeBelow
    <3> QED  BY <3>1, <3>2, <3>3, <3>4
  <2>9. /\ a2 \in Nat /\ b2 \in Nat /\ a2 + 1 < b2 /\ b2 \in 1 .. k /\ a2 \in 1 .. k
        /\ \A r \in 0 .. b2 - a2 - 1 : nd[c + 1].childid[r] = a2 + r
        /\ \A w \in a2 .. b2 - 1 : nd[w].level + 1 = nd[c + 1].level
    <3>1. /\ a2 \in Nat /\ b2 \in Nat /\ a2 + 1 < b2 /\ b2 \in 1 .. k /\ a2 \in 1 .. k
      BY <2>6, <2>7, ShapeSpan
    <3>3. \A r \in 0 .. b2 - a2 - 1 : nd[c + 1].childid[r] = a2 + r
      BY <2>6, <2>7, ShapeChild
    <3>4. \A w \in a2 .. b2 - 1 : nd[w].level + 1 = nd[c + 1].level
      BY <2>6, <2>7, ShapeBelow
    <3> QED  BY <3>1, <3>3, <3>4
  <2>10. b1 = a2
    BY <2>7
  <2>11. nd[c].childid[nd[c].slotuse] = b1 - 1 /\ nd[c + 1].childid[0] = b1
    <3>1. b1 - a1 - 1 \in 0 .. b1 - a1 - 1 /\ a1 + (b1 - a1 - 1) = b1 - 1 /\ 0 \in 0 .. b2 - a2 - 1 /\ a2 + 0 = b1
      BY <2>8, <2>9, <2>10
    <3>2. nd[c].childid[b1 - a1 - 1] = a1 + (b1 - a1 - 1) /\ nd[c + 1].childid[0] = a2 + 0
      BY <2>8, <2>9, <3>1
    <3> QED  BY <2>8, <3>1, <3>2
  <2>12. nd[b1 - 1].level + 1 = 1 /\ nd[b1].level + 1 = 1 /\ b1 - 1 \in 1 .. k /\ b1 \in 1 .. k
    <3>1. b1 - 1 \in a1 .. b1 - 1 /\ b1 \in a2 .. b2 - 1 /\ b1 - 1 \in 1 .. k /\ b1 \in 1 .. k
      BY <1>6, <2>8, <2>9, <2>10
    <3> QED  BY <2>4, <2>8, <2>9, <3>1
  <2>13. b1 - 1 \in 1 .. l /\ b1 \in 1 .. l
    <3>1. nd[b1 - 1].level \in Nat /\ nd[b1].level \in Nat
      BY <2>12, ShapeLevels
    <3>2. nd[b1 - 1].level = 0 /\ nd[b1].level = 0
      BY <2>12, <3>1
    <3> QED  BY <2>12, <3>2, ShapeLevels
  <2>14. (b1 - 1) + 1 = b1
    BY <2>8
  <2>15. Linked(t, b1 - 1, (b1 - 1) + 1)
    <3>1. (b1 - 1) + 1 \in 1 .. l
      BY <2>13, <2>14
    <3> QED  BY <2>13, <3>1, LeavesLinked
  <2> QED  BY <2>2, <2>11, <2>14, <2>15
<1>15. /\ \A s \in 0 .. x.slotuse : nd[x.childid[s]].level + 1 = x.level
       /\ \A s \in 1 .. x.slotuse : mn[x.childid[s]] >= x.slotkey[s - 1]
  BY <1>3, <1>10, <1>11
<1>16. /\ \A s \in Slots(x) : mx[x.childid[s]] = x.slotkey[s]
       /\ x.level = 1 => \A s \in Slots(x) : Linked(t, x.childid[s], x.childid[s + 1])
       /\ x.level = 2 => \A s \in Slots(x) :
            Linked(t, nd[x.childid[s]].childid[nd[x.childid[s]].slotuse], nd[x.childid[s + 1]].childid[0])
  BY <1>6, <1>12, <1>13, <1>14
<1> QED  BY ONLY <1>1, <1>15, <1>16

(* verify_node accepts every node of a finished tree, *)
LEMMA NodesVerify ==
  ASSUME NEW its, NEW nd, NEW e, NEW f, NEW l, NEW k, Shape(its, nd, e, f, l, k), IsRange(its),
         NEW t, IsStore(t, its, nd, l, k, k), NoneUnderflows(nd, k - 1), NEW v \in 1 .. k
  PROVE  verify_node(t, v)
<1>1. t.node = nd /\ t.root = k
  BY StoreParts
<1>2. PICK mn, mx : IsMin(t, mn) /\ IsMax(t, mx) /\ (verify_node(t, v) <=> NodeVerifies(t, v, mn, mx))
  BY VerifyNodeIs
<1>3. \A u \in 1 .. k : mn[u] = its[Start(nd, e, u) + 1][1]
  BY <1>1, <1>2, MinIs
<1>4. \A u \in 1 .. k : mx[u] = its[e[u]][1]
  BY <1>1, <1>2, MaxIs
<1>5. k \in Nat /\ l \in Nat /\ l \in 1 .. k
  BY ShapeFacts
<1>6. v = t.root \/ ~isunderflow(nd[v])
  <2>1. v = k \/ v \in 1 .. k - 1
    BY <1>5
  <2> QED  BY <1>1, <2>1 DEF NoneUnderflows
<1>7. CASE v \in 1 .. l
  <2>1. NodeOK(t, v) /\ isleafnode(nd[v])
    BY <1>1, <1>7, LeafOK
  <2>2. Sorted(nd[v])
    BY <1>1, <2>1 DEF NodeOK
  <2>3. nd[v].slotuse > 0
    <3>1. /\ Before(e, v) \in Nat /\ Before(e, v) < e[v] /\ e[v] \in 1 .. Len(its)
          /\ nd[v].slotuse = e[v] - Before(e, v)
      BY <1>7, ShapeLeaf
    <3> QED  BY <3>1
  <2>4. NodeVerifies(t, v, mn, mx)
    BY <1>1, <1>6, <2>1, <2>2, <2>3 DEF NodeVerifies
  <2> QED  BY <1>2, <2>4
<1>8. CASE v \in l + 1 .. k
  <2>1. NodeOK(t, v) /\ ~isleafnode(nd[v])
    BY <1>1, <1>8, InnerOK
  <2>2. Sorted(nd[v])
    BY <1>1, <2>1 DEF NodeOK
  <2>3. nd[v].slotuse > 0
    <3>1. nd[v].slotuse = f[v + 1] - f[v] - 1
      BY <1>8, ShapeKeys
    <3>2. f[v] \in Nat /\ f[v + 1] \in Nat /\ f[v] + 1 < f[v + 1]
      BY <1>8, ShapeSpan
    <3> QED  BY <3>1, <3>2
  <2>4. \A u \in 1 .. k : mn[u] = its[Start(nd, e, u) + 1][1] /\ mx[u] = its[e[u]][1]
    BY <1>3, <1>4
  <2>5. /\ \A s \in 0 .. nd[v].slotuse : nd[nd[v].childid[s]].level + 1 = nd[v].level
        /\ \A s \in 1 .. nd[v].slotuse : mn[nd[v].childid[s]] >= nd[v].slotkey[s - 1]
        /\ \A s \in Slots(nd[v]) : mx[nd[v].childid[s]] = nd[v].slotkey[s]
        /\ nd[v].level = 1 =>
             \A s \in Slots(nd[v]) : Linked(t, nd[v].childid[s], nd[v].childid[s + 1])
        /\ nd[v].level = 2 => \A s \in Slots(nd[v]) :
             Linked(t, nd[nd[v].childid[s]].childid[nd[nd[v].childid[s]].slotuse],
                    nd[nd[v].childid[s + 1]].childid[0])
    BY <1>8, <2>4, InnerVerifies
  <2>6. NodeVerifies(t, v, mn, mx)
    BY ONLY <1>1, <1>6, <2>1, <2>2, <2>3, <2>5, Zenon DEF NodeVerifies
  <2> QED  BY <1>2, <2>6
<1> QED  BY <1>5, <1>7, <1>8

(* verify_leaflinks the links between its leaves, *)
LEMMA LinksVerify ==
  ASSUME NEW its, NEW nd, NEW e, NEW f, NEW l, NEW k, Shape(its, nd, e, f, l, k), IsRange(its),
         NEW t, IsStore(t, its, nd, l, k, k)
  PROVE  verify_leaflinks(t)
<1>1. t.node = nd /\ t.stats.itemcount = Len(its)
  BY StoreParts
<1>2. l \in Nat /\ k \in Nat /\ l \in 1 .. k /\ l >= 1 /\ 1 \in 1 .. l
  BY ShapeFacts
<1>3. /\ t.headleaf = 1 /\ t.tailleaf = l /\ DOMAIN t.nextleaf = 1 .. l
      /\ \A v \in 1 .. l : t.nextleaf[v] = (IF v = l THEN NULL ELSE v + 1)
      /\ t.prevleaf[1] = NULL
  <2>1. /\ t.headleaf = (IF l = 0 THEN NULL ELSE 1)
        /\ t.tailleaf = (IF l = 0 THEN NULL ELSE l)
        /\ DOMAIN t.nextleaf = 1 .. l
        /\ \A v \in 1 .. l : /\ t.nextleaf[v] = (IF v = l THEN NULL ELSE v + 1)
                             /\ t.prevleaf[v] = (IF v = 1 THEN NULL ELSE v - 1)
    BY StoreLeaves
  <2> QED  BY <1>2, <2>1
<1>4. nd[1].level = 0
  BY <1>2, ShapeLevels
<1>5. ASSUME NEW v \in 1 .. l
      PROVE  IF t.nextleaf[v] = NULL THEN t.tailleaf = v
             ELSE Linked(t, v, t.nextleaf[v]) /\ LastKey(t, v) <= FirstKey(t, t.nextleaf[v])
  <2>1. CASE v = l
    BY <1>3, <2>1
  <2>2. CASE v # l
    <3>1. v + 1 \in 1 .. l /\ v \in 1 .. k /\ v + 1 \in 1 .. k /\ v # 0
      BY <1>2, <2>2
    <3>2. t.nextleaf[v] = v + 1 /\ t.nextleaf[v] # NULL
      BY <1>3, <2>2, <3>1, NullAssumption
    <3>3. Linked(t, v, v + 1)
      BY <3>1, LeavesLinked
    <3>4. isleafnode(nd[v]) /\ isleafnode(nd[v + 1])
      BY <3>1, ShapeLevels
    <3>5. LastKey(t, v) = its[e[v]][1] /\ FirstKey(t, v + 1) = its[Start(nd, e, v + 1) + 1][1]
      <4>1. LastKey(t, v) = its[e[v]][1]
        BY <1>1, <3>1, <3>4, EndKeys
      <4>2. FirstKey(t, v + 1) = its[Start(nd, e, v + 1) + 1][1]
        BY <1>1, <3>1, <3>4, EndKeys
      <4> QED  BY <4>1, <4>2
    <3>6. Start(nd, e, v + 1) = e[v]
      <4>1. Start(nd, e, v + 1) = Before(e, v + 1)
        BY <3>1, StartFacts
      <4>2. v + 1 # 1 /\ (v + 1) - 1 = v
        BY <1>2, <3>1
      <4> QED  BY <4>1, <4>2 DEF Before
    <3>7. e[v] \in 1 .. Len(its) /\ e[v] \in Nat /\ e[v] + 1 \in 1 .. Len(its) /\ e[v] <= e[v] + 1
      <4>1. e[v] \in 1 .. Len(its) /\ e[v] \in Nat
        BY <3>1, StartFacts
      <4>2. Start(nd, e, v + 1) + 1 \in 1 .. Len(its)
        BY <3>1, StartFacts
      <4> QED  BY <3>6, <4>1, <4>2
    <3>8. its[e[v]][1] <= its[e[v] + 1][1]
      BY <3>7, IsRangeFacts
    <3> QED  BY <3>2, <3>3, <3>5, <3>6, <3>8
  <2> QED  BY <2>1, <2>2
<1>6. Items(t) = its
  BY ItemsAre
<1> QED  BY <1>1, <1>3, <1>4, <1>5, <1>6 DEF verify_leaflinks

(* so verify accepts it. *)
LEMMA ShapeVerifies ==
  ASSUME NEW its, NEW nd, NEW e, NEW f, NEW l, NEW k, Shape(its, nd, e, f, l, k), IsRange(its),
         NEW t, IsStore(t, its, nd, l, k, k), NoneUnderflows(nd, k - 1)
  PROVE  verify(t)
<1>1. t.node = nd /\ t.root = k /\ t.stats.leaves = l /\ t.stats.innernodes = k - l
  BY StoreParts
<1>2. l \in Nat /\ k \in Nat /\ l \in 1 .. k /\ DOMAIN nd = 1 .. k /\ k # NULL
  BY ShapeFacts, NullAssumption
<1>3. PICK below : below = Below(t, t.root)
  OBVIOUS
<1>4. below = 1 .. k
  BY <1>1, <1>3, BelowAll
<1>5. PICK leaves : leaves = {v \in below : isleafnode(t.node[v])}
  OBVIOUS
<1>6. leaves = 1 .. l
  <2>1. \A v \in 1 .. k : isleafnode(nd[v]) <=> v \in 1 .. l
    BY ShapeLevels
  <2>2. \A v \in 1 .. l : v \in 1 .. k
    BY <1>2
  <2> QED  BY ONLY <1>1, <1>4, <1>5, <2>1, <2>2
<1>7. t.stats.leaves = Cardinality(leaves)
  BY <1>1, <1>2, <1>6, FirstNaturals
<1>8. t.stats.innernodes = Cardinality(below \ leaves)
  <2>1. below \ leaves = l + 1 .. k
    BY <1>2, <1>4, <1>6
  <2>2. l + 1 \in Int /\ k \in Int
    BY <1>2
  <2>3. Cardinality(l + 1 .. k) = IF l + 1 > k THEN 0 ELSE k - (l + 1) + 1
    BY <2>2, FS_Interval
  <2>4. (IF l + 1 > k THEN 0 ELSE k - (l + 1) + 1) = k - l
    BY <1>2
  <2> QED  BY <1>1, <2>1, <2>3, <2>4
<1>9. \A v \in below : verify_node(t, v)
  BY <1>4, NodesVerify
<1>10. verify_leaflinks(t)
  BY LinksVerify
<1>11. below = DOMAIN t.node
  BY <1>1, <1>2, <1>4
<1>12. t.root # NULL
  BY <1>1, <1>2
<1> QED  BY ONLY <1>3, <1>5, <1>7, <1>8, <1>9, <1>10, <1>11, <1>12, Zenon DEF verify

(* verify accepts a tree without a root. *)
LEMMA EmptyVerifies ==
  ASSUME NEW t, NEW nd, DOMAIN nd = {}, nd = [v \in DOMAIN nd |-> nd[v]], IsStore(t, <<>>, nd, 0, 0, NULL)
  PROVE  verify(t)
<1>1. t = StoreOf(<<>>, nd, 0, 0, NULL)
  BY DEF IsStore
<1>2. nd = <<>> /\ 1 .. 0 = {}
  OBVIOUS
<1>3. /\ [v \in 1 .. 0 |-> IF v = 0 THEN NULL ELSE v + 1] = <<>>
      /\ [v \in 1 .. 0 |-> IF v = 1 THEN NULL ELSE v - 1] = <<>>
      /\ Len(<<>>) = 0
  OBVIOUS
<1>4. t = EmptyTree
  BY ONLY <1>1, <1>2, <1>3 DEF StoreOf, EmptyTree
<1>5. t.root = NULL
  BY <1>4 DEF EmptyTree
<1> QED  BY ONLY <1>4, <1>5, Zenon DEF verify

(* The loaded tree passes btree::verify, for every range and every          *)
(* capacity: no node underfull but the root, separators equal to the        *)
(* largest key below, leaves linked both ways across parents, statistics    *)
(* exact, and no node that the root does not reach (btree.h 2806-2928,      *)
(* 4033-4175).                                                              *)
THEOREM LoadedTreeVerifies == Spec => []LoadedVerifies
<1>1. IInv => LoadedVerifies
  <2> SUFFICES ASSUME NEW e, NEW f, LoadInv(e, f), phase = "done" PROVE verify(btree)
    BY DEF IInv, LoadedVerifies
  <2>1. /\ IsRange(items)
        /\ IsStore(btree, items, btree.node, NumLeaves, NumNodes, btree.root)
    BY DoneFacts
  <2>2. CASE items = <<>>
    <3>1. NumNodes = 0 /\ NumLeaves = 0 /\ btree.root = NULL /\ DOMAIN btree.node = {}
      BY <2>2, DoneFacts
    <3>2. IsStore(btree, <<>>, btree.node, 0, 0, NULL)
      BY <2>1, <2>2, <3>1
    <3>3. btree.node = [v \in DOMAIN btree.node |-> btree.node[v]]
      <4>1. Built(items, btree.node, e, f, NumLeaves, NumNodes) /\ DOMAIN btree.node = 1 .. NumNodes
        BY InvFacts
      <4> QED  BY <4>1 DEF Built
    <3> QED  BY <3>1, <3>2, <3>3, EmptyVerifies
  <2>3. CASE items # <<>>
    <3>1. /\ Shape(items, btree.node, e, f, NumLeaves, NumNodes)
          /\ NoneUnderflows(btree.node, NumNodes - 1)
      BY <2>3, DoneFacts
    <3>2. IsStore(btree, items, btree.node, NumLeaves, NumNodes, NumNodes)
      BY <2>1, <2>3, DoneFacts
    <3> QED  BY <2>1, <3>1, <3>2, ShapeVerifies
  <2> QED  BY <2>2, <2>3
<1> QED  BY <1>1, Invariance, PTL
=============================================================================
