-------------------------- MODULE BTreeAMAC_proofs --------------------------
(***************************************************************************)
(* Theorems about FSM_AMAC on the B+ tree, and about the two lookups that  *)
(* MCBTreeAMAC puts beside it, AMAC_Linear and find_spp, for every pool    *)
(* size, every set of well-formed trees and every batch of keys.           *)
(***************************************************************************)
EXTENDS MCBTreeAMAC, BTreeLookup_proofs

-----------------------------------------------------------------------------
(* The inductive invariant.                                                *)

(* Before the first deal nothing has happened; afterwards there is a root. *)
Phases ==
  /\ pc = "start" => next_query_idx = 0 /\ Busy = {}
  /\ pc \in {"loop", "visit"} => ~NothingToDo
  /\ pc = "returned" /\ ~NothingToDo => all_done >= n

(* The answers written so far are those of the settled queries. *)
SettledRight ==
  \A q \in QueryIdx : IF q \in Settled THEN RightAnswer(q) ELSE Unanswered(q)

IInv == /\ TypeOK
        /\ OneMachinePerQuery
        /\ CursorFollowsKey
        /\ DoneCountsAnswered
        /\ SettledRight
        /\ Phases

-----------------------------------------------------------------------------
(* Facts of a single state.                                                *)

(* Settled queries are positions of the batch that no machine carries. *)
LEMMA SettledFacts ==
  ASSUME TypeOK, CursorFollowsKey
  PROVE  /\ n \in Nat /\ next_query_idx \in 0 .. n
         /\ Settled \subseteq QueryIdx
         /\ InFlight \subseteq 0 .. next_query_idx - 1
<1>1. n \in Nat /\ next_query_idx \in 0 .. n
  BY ArgsFacts DEF TypeOK
<1>2. Settled \subseteq QueryIdx
  BY <1>1 DEF Settled, QueryIdx
<1>3. InFlight \subseteq 0 .. next_query_idx - 1
  BY DEF InFlight, CursorFollowsKey
<1> QED  BY <1>1, <1>2, <1>3

-----------------------------------------------------------------------------
(* The invariant is inductive.                                             *)

LEMMA InitIInv == Init => IInv
<1> SUFFICES ASSUME Init PROVE IInv
  OBVIOUS
<1>1. OutsTypeOK
  BY DEF Init, ArgsAndOutsInit, OutsTypeOK
<1>2. n \in Nat
  BY <1>1, ArgsFacts
<1>3. Busy = {} /\ InFlight = {} /\ Settled = {}
  BY DEF Init, Busy, InFlight, Settled
<1>4. TypeOK
  BY <1>1, <1>2, PoolAssumption DEF Init, TypeOK, PoolIdx, NoQuery
<1>5. OneMachinePerQuery /\ CursorFollowsKey
  BY <1>3 DEF OneMachinePerQuery, CursorFollowsKey
<1>6. DoneCountsAnswered
  BY <1>3, FS_EmptySet DEF Init, DoneCountsAnswered
<1>7. SettledRight
  BY <1>3 DEF Init, ArgsAndOutsInit, SettledRight, Unanswered
<1>8. Phases
  BY <1>3 DEF Init, Phases
<1> QED  BY <1>4, <1>5, <1>6, <1>7, <1>8 DEF IInv

LEMMA StartStep ==
  ASSUME IInv, Start
  PROVE  IInv' /\ Settled' = Settled
<1>1. UNCHANGED <<args, outs, all_done, k>> /\ pc = "start"
  BY DEF Start
<1>2. /\ n' = n /\ QueryIdx' = QueryIdx /\ NodeIds(tree)' = NodeIds(tree)
      /\ (NothingToDo' <=> NothingToDo) /\ OutsTypeOK'
      /\ \A q : (RightAnswer(q)' <=> RightAnswer(q)) /\ (Unanswered(q)' <=> Unanswered(q))
  BY <1>1, OutsUnchanged DEF IInv, TypeOK
<1>3. n \in Nat /\ next_query_idx = 0 /\ Busy = {} /\ Settled = {}
  BY <1>1, SettledFacts DEF IInv, Phases, Settled
<1>4. CASE NothingToDo
  <2>1. pc' = "returned" /\ pool' = pool /\ next_query_idx' = next_query_idx
    BY <1>4 DEF Start
  <2>2. Busy' = Busy /\ InFlight' = InFlight /\ Settled' = Settled
    BY <2>1 DEF Busy, InFlight, Settled
  <2>3. TypeOK'
    BY <1>1, <1>2, <2>1 DEF IInv, TypeOK
  <2>4. OneMachinePerQuery' /\ CursorFollowsKey'
    BY <1>3, <2>2 DEF OneMachinePerQuery, CursorFollowsKey
  <2>5. DoneCountsAnswered' /\ SettledRight' /\ Phases'
    BY <1>1, <1>2, <1>4, <2>1, <2>2 DEF IInv, DoneCountsAnswered, SettledRight, Phases
  <2> QED  BY <2>2, <2>3, <2>4, <2>5 DEF IInv
<1>5. CASE ~NothingToDo
  <2> DEFINE m == Min2(POOL_SIZE, n)
  <2>1. /\ pc' = "loop"
        /\ pool' = [j \in PoolIdx |-> IF j < n THEN Dealt(pool[j], j) ELSE pool[j]]
        /\ next_query_idx' = m
    BY <1>5 DEF Start
  <2>2. m \in 0 .. n /\ \A j \in PoolIdx : j \in 0 .. m - 1 <=> j < n
    BY <1>3, PoolAssumption DEF Min2, PoolIdx
  <2>3. \A j \in PoolIdx : pool[j].state = "DONE"
    BY <1>3 DEF Busy
  <2>4. \A j \in PoolIdx :
           /\ j < n => pool'[j].state = "INIT" /\ pool'[j].i = j /\ pool'[j].v = pool[j].v
           /\ ~(j < n) => pool'[j] = pool[j]
    BY <2>1 DEF Dealt
  <2>5. Busy' = {j \in PoolIdx : j < n}
    BY <2>3, <2>4 DEF Busy
  <2>6. InFlight' = 0 .. m - 1
    <3>1. \A j \in Busy' : pool'[j].i = j
      BY <2>4, <2>5
    <3>2. Busy' = 0 .. m - 1
      BY <1>3, <2>2, <2>5, PoolAssumption DEF PoolIdx, Min2
    <3> QED  BY <3>1, <3>2 DEF InFlight
  <2>7. Settled' = {}
    BY <2>1, <2>6 DEF Settled
  <2>8. TypeOK'
    <3>1. \A j \in PoolIdx : pool'[j] \in [state : {"INIT", "SEARCH", "DONE"},
                                           i : QueryIdx \cup {NoQuery},
                                           v : NodeIds(tree) \cup {NULL}]
      BY <2>1, <1>3 DEF IInv, TypeOK, QueryIdx, PoolIdx, Dealt
    <3>2. pool' \in [PoolIdx -> [state : {"INIT", "SEARCH", "DONE"},
                                 i : QueryIdx \cup {NoQuery},
                                 v : NodeIds(tree) \cup {NULL}]]
      BY <2>1, <3>1
    <3> QED  BY <1>1, <1>2, <2>1, <2>2, <3>2 DEF IInv, TypeOK
  <2>9. OneMachinePerQuery' /\ CursorFollowsKey'
    <3>1. \A j \in Busy' : j \in 0 .. m - 1 /\ pool'[j].i = j /\ pool'[j].state = "INIT"
      BY <2>2, <2>4, <2>5
    <3> QED  BY <3>1, <2>1 DEF OneMachinePerQuery, CursorFollowsKey
  <2>10. DoneCountsAnswered' /\ SettledRight' /\ Phases'
    BY <1>1, <1>2, <1>3, <1>5, <2>1, <2>7 DEF IInv, DoneCountsAnswered, SettledRight, Phases
  <2> QED  BY <1>3, <2>7, <2>8, <2>9, <2>10 DEF IInv
<1> QED  BY <1>4, <1>5

LEMMA SweepStep ==
  ASSUME IInv, Sweep
  PROVE  IInv' /\ Settled' = Settled
<1>1. /\ UNCHANGED <<args, outs, pool, next_query_idx, all_done>>
      /\ pc = "loop" /\ k' = 0 /\ pc' = IF all_done < n THEN "visit" ELSE "returned"
  BY DEF Sweep
<1>2. /\ n' = n /\ QueryIdx' = QueryIdx /\ NodeIds(tree)' = NodeIds(tree)
      /\ (NothingToDo' <=> NothingToDo) /\ OutsTypeOK'
      /\ \A q : (RightAnswer(q)' <=> RightAnswer(q)) /\ (Unanswered(q)' <=> Unanswered(q))
      /\ \A q, v : OnPath(q, v)' <=> OnPath(q, v)
  BY <1>1, OutsUnchanged DEF IInv, TypeOK
<1>3. Busy' = Busy /\ InFlight' = InFlight /\ Settled' = Settled
  BY <1>1 DEF Busy, InFlight, Settled
<1>4. TypeOK'
  BY <1>1, <1>2, PoolAssumption DEF IInv, TypeOK
<1>5. OneMachinePerQuery' /\ CursorFollowsKey'
  BY <1>1, <1>2, <1>3 DEF IInv, OneMachinePerQuery, CursorFollowsKey
<1>6. DoneCountsAnswered' /\ SettledRight'
  BY <1>1, <1>2, <1>3 DEF IInv, DoneCountsAnswered, SettledRight
<1>7. Phases'
  <2>1. n \in Nat /\ all_done \in Nat
    BY SettledFacts DEF IInv, TypeOK
  <2> QED  BY <1>1, <1>2, <2>1 DEF IInv, Phases
<1> QED  BY <1>3, <1>4, <1>5, <1>6, <1>7 DEF IInv

(* A visit leaves the machines it does not visit alone; the machine it does   *)
(* visit is given a new query only if it is done and one is waiting.          *)
LEMMA VisitFacts ==
  ASSUME IInv, VisitCommon
  PROVE  /\ k \in PoolIdx /\ pc = "visit" /\ pc' \in {"loop", "visit"} /\ ~NothingToDo
         /\ k' \in 0 .. POOL_SIZE /\ (pc' = "visit" => k' < POOL_SIZE)
         /\ UNCHANGED args
         /\ pool[k] \in [state : {"INIT", "SEARCH", "DONE"}, i : QueryIdx \cup {NoQuery},
                         v : NodeIds(tree) \cup {NULL}]
         /\ n \in Nat /\ next_query_idx \in 0 .. n
         /\ Refill => /\ k \notin Busy /\ next_query_idx < n
                      /\ next_query_idx' = next_query_idx + 1
                      /\ Machine = [state |-> "INIT", i |-> next_query_idx, v |-> pool[k].v]
         /\ ~Refill => next_query_idx' = next_query_idx /\ Machine = pool[k]
<1>1. pc = "visit" /\ k' = k + 1 /\ pc' = IF k + 1 = POOL_SIZE THEN "loop" ELSE "visit"
  BY DEF VisitCommon
<1>2. k \in PoolIdx
  BY <1>1, PoolAssumption DEF IInv, TypeOK, PoolIdx
<1>3. k' \in 0 .. POOL_SIZE /\ (pc' = "visit" => k' < POOL_SIZE)
  BY <1>1, <1>2, PoolAssumption DEF PoolIdx
<1>4. /\ UNCHANGED args
      /\ next_query_idx' = IF Refill THEN next_query_idx + 1 ELSE next_query_idx
  BY DEF VisitCommon
<1>5. pool[k] \in [state : {"INIT", "SEARCH", "DONE"}, i : QueryIdx \cup {NoQuery},
                   v : NodeIds(tree) \cup {NULL}]
  BY <1>2 DEF IInv, TypeOK
<1>6. n \in Nat /\ next_query_idx \in 0 .. n
  BY SettledFacts DEF IInv
<1>7. Refill => k \notin Busy /\ next_query_idx < n
  BY DEF Refill, Busy
<1> QED  BY <1>1, <1>2, <1>3, <1>4, <1>5, <1>6, <1>7 DEF Machine, Dealt, IInv, Phases

LEMMA VisitInitStep ==
  ASSUME IInv, VisitInit
  PROVE  IInv' /\ Settled' = Settled
<1>0. PICK q : q = Machine.i
  OBVIOUS
<1>1. /\ VisitCommon /\ UNCHANGED <<outs, all_done>>
      /\ Machine.state = "INIT"
      /\ pool' = [pool EXCEPT ![k] = [state |-> "SEARCH", i |-> q, v |-> tree.root]]
  BY <1>0 DEF VisitInit
<1>2. /\ k \in PoolIdx /\ UNCHANGED args /\ n \in Nat /\ next_query_idx \in 0 .. n
      /\ pc = "visit" /\ pc' \in {"loop", "visit"} /\ ~NothingToDo
      /\ k' \in 0 .. POOL_SIZE /\ (pc' = "visit" => k' < POOL_SIZE)
  BY <1>1, VisitFacts
<1>3. /\ n' = n /\ QueryIdx' = QueryIdx /\ NodeIds(tree)' = NodeIds(tree)
      /\ (NothingToDo' <=> NothingToDo) /\ OutsTypeOK'
      /\ \A r : (RightAnswer(r)' <=> RightAnswer(r)) /\ (Unanswered(r)' <=> Unanswered(r))
      /\ \A r, v : OnPath(r, v)' <=> OnPath(r, v)
  BY <1>1, <1>2, OutsUnchanged DEF IInv, TypeOK
<1>4. next_query_idx' \in 0 .. n /\ next_query_idx <= next_query_idx'
  BY <1>1, VisitFacts
<1>5. q \in 0 .. next_query_idx' - 1 /\ \A j \in Busy \ {k} : pool[j].i # q
  <2>1. CASE Refill
    <3>1. q = next_query_idx /\ next_query_idx' = next_query_idx + 1
      BY <1>0, <1>1, <2>1, VisitFacts
    <3>2. \A j \in Busy : pool[j].i \in 0 .. next_query_idx - 1
      BY DEF IInv, CursorFollowsKey
    <3> QED  BY <1>2, <3>1, <3>2
  <2>2. CASE ~Refill
    <3>1. Machine = pool[k] /\ next_query_idx' = next_query_idx
      BY <1>1, <2>2, VisitFacts
    <3>2. k \in Busy
      BY <1>1, <1>2, <3>1 DEF Busy
    <3> QED  BY <1>0, <3>1, <3>2 DEF IInv, CursorFollowsKey, OneMachinePerQuery
  <2> QED  BY <2>1, <2>2
<1>6. /\ \A j \in PoolIdx \ {k} : pool'[j] = pool[j]
      /\ pool'[k] = [state |-> "SEARCH", i |-> q, v |-> tree.root]
  BY <1>1, <1>2 DEF IInv, TypeOK
<1>7. Busy' = Busy \cup {k}
  BY <1>2, <1>6 DEF Busy
<1>8. tree.root \in NodeIds(tree) /\ \A r \in QueryIdx : OnPath(r, tree.root)
  <2>1. WellFormed(tree) /\ \A r \in QueryIdx : KeyAt(r) \in Key
    BY ArgsFacts DEF IInv, TypeOK
  <2> QED  BY <1>2, <2>1 DEF WellFormed, OnPath, NothingToDo
<1>9. Settled' = Settled
  <2>1. CASE Refill
    <3>1. q = next_query_idx /\ next_query_idx' = next_query_idx + 1 /\ k \notin Busy
      BY <1>0, <1>1, <2>1, VisitFacts
    <3>2. InFlight' = InFlight \cup {q}
      BY <1>6, <1>7, <3>1 DEF InFlight, Busy
    <3> QED  BY <1>2, <3>1, <3>2 DEF Settled
  <2>2. CASE ~Refill
    <3>1. Machine = pool[k] /\ next_query_idx' = next_query_idx
      BY <1>1, <2>2, VisitFacts
    <3>2. k \in Busy
      BY <1>1, <1>2, <3>1 DEF Busy
    <3>3. Busy' = Busy /\ \A j \in Busy : pool'[j].i = pool[j].i
      BY <1>0, <1>6, <1>7, <3>1, <3>2 DEF Busy
    <3>4. InFlight' = InFlight
      BY <3>3 DEF InFlight
    <3> QED  BY <3>1, <3>4 DEF Settled
  <2> QED  BY <2>1, <2>2
<1>a. q \in QueryIdx
  <2>1. n \in Int /\ next_query_idx' \in Int /\ next_query_idx' <= n
    BY <1>2, <1>4
  <2>2. q \in 0 .. next_query_idx' - 1
    BY <1>5
  <2>3. q \in 0 .. n - 1
    BY <2>1, <2>2, BelowGrows
  <2> QED  BY <2>3 DEF QueryIdx
<1>10. TypeOK'
  <2>2. pool' \in [PoolIdx -> [state : {"INIT", "SEARCH", "DONE"}, i : QueryIdx \cup {NoQuery},
                               v : NodeIds(tree) \cup {NULL}]]
    BY <1>1, <1>8, <1>a DEF IInv, TypeOK
  <2> QED  BY <1>1, <1>2, <1>3, <1>4, <2>2 DEF IInv, TypeOK
<1>11. OneMachinePerQuery'
  BY <1>5, <1>6, <1>7 DEF IInv, OneMachinePerQuery, Busy
<1>12. CursorFollowsKey'
  <2>1. tree' = tree /\ queries' = queries
    BY <1>2 DEF args
  <2>2. ASSUME NEW j \in Busy', j # k
        PROVE  /\ pool'[j].i \in 0 .. next_query_idx' - 1
               /\ pool'[j].state = "SEARCH" => /\ pool'[j].v \in NodeIds(tree)'
                                               /\ OnPath(pool[j].i, pool[j].v)'
    <3>1. j \in Busy /\ pool'[j] = pool[j]
      BY <2>2, <1>6, <1>7 DEF Busy
    <3>2. /\ pool[j].i \in 0 .. next_query_idx - 1
          /\ pool[j].state = "SEARCH" => pool[j].v \in NodeIds(tree) /\ OnPath(pool[j].i, pool[j].v)
      BY <3>1 DEF IInv, CursorFollowsKey
    <3>3. pool'[j].i \in 0 .. next_query_idx' - 1
      BY <3>1, <3>2, <1>2, <1>4
    <3>4. OnPath(pool[j].i, pool[j].v)' <=> OnPath(pool[j].i, pool[j].v)
      BY <2>1, <3>1 DEF OnPath, KeyAt
    <3> QED  BY <3>1, <3>2, <3>3, <3>4, <2>1 DEF NodeIds
  <2>3. ASSUME NEW j \in Busy', j = k
        PROVE  /\ pool'[j].i \in 0 .. next_query_idx' - 1
               /\ pool'[j].v \in NodeIds(tree)'
               /\ OnPath(pool[j].i, pool[j].v)'
    <3>1. pool'[j].i = q /\ pool'[j].v = tree.root
      BY <2>3, <1>6
    <3> QED  BY <2>1, <3>1, <1>5, <1>8, <1>a DEF OnPath, KeyAt, NodeIds
  <2> QED  BY <2>2, <2>3 DEF CursorFollowsKey
<1>13. DoneCountsAnswered' /\ SettledRight'
  BY <1>1, <1>3, <1>9 DEF IInv, DoneCountsAnswered, SettledRight
<1>14. Phases'
  BY <1>2, <1>3 DEF Phases
<1> QED  BY <1>9, <1>10, <1>11, <1>12, <1>13, <1>14 DEF IInv

LEMMA VisitInnerStep ==
  ASSUME IInv, VisitInner
  PROVE  IInv' /\ Settled' = Settled
<1>0. PICK m : m = pool[k]
  OBVIOUS
<1>1. VisitCommon /\ UNCHANGED <<outs, all_done>> /\ Machine.state = "SEARCH" /\ ~IsLeafId(Machine.v)
  BY DEF VisitInner
<1>2. /\ k \in PoolIdx /\ UNCHANGED args /\ n \in Nat /\ next_query_idx \in 0 .. n
      /\ pc = "visit" /\ pc' \in {"loop", "visit"} /\ ~NothingToDo
      /\ k' \in 0 .. POOL_SIZE /\ (pc' = "visit" => k' < POOL_SIZE)
  BY <1>1, VisitFacts
<1>3. Machine = m /\ next_query_idx' = next_query_idx /\ m.state = "SEARCH" /\ k \in Busy
  <2>1. ~Refill
    BY <1>1, VisitFacts
  <2> QED  BY <1>0, <1>1, <1>2, <2>1, VisitFacts DEF Busy
<1>4. /\ n' = n /\ QueryIdx' = QueryIdx /\ NodeIds(tree)' = NodeIds(tree)
      /\ (NothingToDo' <=> NothingToDo) /\ OutsTypeOK'
      /\ \A r : (RightAnswer(r)' <=> RightAnswer(r)) /\ (Unanswered(r)' <=> Unanswered(r))
  BY <1>1, <1>2, OutsUnchanged DEF IInv, TypeOK
<1>5. /\ m.i \in 0 .. next_query_idx - 1 /\ m.i \in QueryIdx
      /\ m.v \in NodeIds(tree) /\ OnPath(m.i, m.v)
  <2>1. m.i \in 0 .. next_query_idx - 1 /\ m.v \in NodeIds(tree) /\ OnPath(m.i, m.v)
    BY <1>0, <1>3 DEF IInv, CursorFollowsKey
  <2> QED  BY <1>2, <2>1 DEF QueryIdx
<1>6. PICK c : c = Child(Node(m.v), KeyAt(m.i))
  OBVIOUS
<1>7. c \in NodeIds(tree) /\ OnPath(m.i, c)
  <2>1. WellFormed(tree) /\ KeyAt(m.i) \in Key
    BY <1>5, ArgsFacts DEF IInv, TypeOK
  <2>2. /\ ~isleafnode(tree.node[m.v]) /\ tree.lo[m.v] < KeyAt(m.i) /\ KeyAt(m.i) <= tree.hi[m.v]
    BY <1>1, <1>3, <1>5 DEF IsLeafId, Node, OnPath
  <2> QED  BY <1>5, <1>6, <2>1, <2>2, DescentStep DEF OnPath, Node
<1>8. pool' = [pool EXCEPT ![k] = [state |-> "SEARCH", i |-> m.i, v |-> c]]
  BY <1>3, <1>6 DEF VisitInner
<1>9. /\ \A j \in PoolIdx \ {k} : pool'[j] = pool[j]
      /\ pool'[k] = [state |-> "SEARCH", i |-> m.i, v |-> c]
  BY <1>2, <1>8 DEF IInv, TypeOK
<1>10. Busy' = Busy /\ \A j \in Busy : pool'[j].i = pool[j].i
  BY <1>0, <1>3, <1>9 DEF Busy
<1>11. InFlight' = InFlight /\ Settled' = Settled
  BY <1>3, <1>10 DEF InFlight, Settled
<1>12. TypeOK'
  <2>1. pool' \in [PoolIdx -> [state : {"INIT", "SEARCH", "DONE"}, i : QueryIdx \cup {NoQuery},
                               v : NodeIds(tree) \cup {NULL}]]
    BY <1>5, <1>7, <1>8 DEF IInv, TypeOK
  <2> QED  BY <1>1, <1>2, <1>3, <1>4, <2>1 DEF IInv, TypeOK
<1>13. OneMachinePerQuery'
  BY <1>10 DEF IInv, OneMachinePerQuery
<1>14. CursorFollowsKey'
  <2>1. tree' = tree /\ queries' = queries
    BY <1>2 DEF args
  <2>2. ASSUME NEW j \in Busy'
        PROVE  /\ pool'[j].i \in 0 .. next_query_idx' - 1
               /\ pool'[j].state = "SEARCH" => /\ pool'[j].v \in NodeIds(tree)'
                                               /\ OnPath(pool[j].i, pool[j].v)'
    <3>1. CASE j = k
      <4>1. pool'[j].i = m.i /\ pool'[j].v = c
        BY <3>1, <1>9
      <4> QED  BY <2>1, <4>1, <1>3, <1>5, <1>7 DEF OnPath, KeyAt, NodeIds
    <3>2. CASE j # k
      <4>1. j \in Busy /\ pool'[j] = pool[j]
        BY <3>2, <1>9, <1>10 DEF Busy
      <4>2. /\ pool[j].i \in 0 .. next_query_idx - 1
            /\ pool[j].state = "SEARCH" => pool[j].v \in NodeIds(tree) /\ OnPath(pool[j].i, pool[j].v)
        BY <4>1 DEF IInv, CursorFollowsKey
      <4> QED  BY <2>1, <4>1, <4>2, <1>3 DEF OnPath, KeyAt, NodeIds
    <3> QED  BY <3>1, <3>2
  <2> QED  BY <2>2 DEF CursorFollowsKey
<1>15. DoneCountsAnswered' /\ SettledRight'
  BY <1>1, <1>4, <1>11 DEF IInv, DoneCountsAnswered, SettledRight
<1>16. Phases'
  BY <1>2, <1>4 DEF Phases
<1> QED  BY <1>11, <1>12, <1>13, <1>14, <1>15, <1>16 DEF IInv

LEMMA VisitLeafStep ==
  ASSUME IInv, VisitLeaf
  PROVE  /\ IInv'
         /\ QueryIdx' = QueryIdx
         /\ \E q \in QueryIdx \ Settled :
               /\ Settled' = Settled \cup {q}
               /\ \A r \in QueryIdx \ {q} : found'[r] = found[r] /\ results'[r] = results[r]
<1>0. PICK m : m = pool[k]
  OBVIOUS
<1>1. VisitCommon /\ Machine.state = "SEARCH" /\ IsLeafId(Machine.v) /\ all_done' = all_done + 1
  BY DEF VisitLeaf
<1>2. /\ k \in PoolIdx /\ UNCHANGED args /\ n \in Nat /\ next_query_idx \in 0 .. n
      /\ pc = "visit" /\ pc' \in {"loop", "visit"} /\ ~NothingToDo
      /\ k' \in 0 .. POOL_SIZE /\ (pc' = "visit" => k' < POOL_SIZE)
  BY <1>1, VisitFacts
<1>3. Machine = m /\ next_query_idx' = next_query_idx /\ m.state = "SEARCH" /\ k \in Busy
  <2>1. ~Refill
    BY <1>1, VisitFacts
  <2> QED  BY <1>0, <1>1, <1>2, <2>1, VisitFacts DEF Busy
<1>4. /\ m.i \in 0 .. next_query_idx - 1 /\ m.i \in QueryIdx /\ m.i \in InFlight
      /\ m.v \in NodeIds(tree) /\ OnPath(m.i, m.v)
  <2>1. m.i \in 0 .. next_query_idx - 1 /\ m.v \in NodeIds(tree) /\ OnPath(m.i, m.v)
    BY <1>0, <1>3 DEF IInv, CursorFollowsKey
  <2> QED  BY <1>0, <1>2, <1>3, <2>1 DEF QueryIdx, InFlight
<1>5. m.i \notin Settled /\ Unanswered(m.i)
  BY <1>4 DEF Settled, IInv, SettledRight
<1>6. PICK reached : reached = [q \in {m.i} |-> m.v]
  OBVIOUS
<1>7. WriteAnswers(reached)
  BY <1>3, <1>6 DEF VisitLeaf
<1>8. /\ OutsTypeOK' /\ QueryIdx' = QueryIdx /\ RightAnswer(m.i)'
      /\ \A r \in QueryIdx \ {m.i} : found'[r] = found[r] /\ results'[r] = results[r]
  <2>1. DOMAIN reached = {m.i} /\ reached[m.i] = m.v /\ {m.i} \subseteq QueryIdx
    BY <1>4, <1>6
  <2>2. IsLeafId(m.v)
    BY <1>1, <1>3
  <2>3. \A q \in {m.i} : /\ reached[q] \in NodeIds(tree) /\ IsLeafId(reached[q])
                         /\ OnPath(q, reached[q]) /\ Unanswered(q)
    BY <1>4, <1>5, <2>1, <2>2
  <2> QED  BY <1>2, <1>7, <2>1, <2>3, LeavesGiveRightAnswers DEF IInv, TypeOK
<1>9. tree' = tree /\ queries' = queries
  BY <1>2 DEF args
<1>10. pool' = [pool EXCEPT ![k] = [state |-> "DONE", i |-> m.i, v |-> m.v]]
  BY <1>3 DEF VisitLeaf
<1>11. /\ \A j \in PoolIdx \ {k} : pool'[j] = pool[j]
       /\ pool'[k] = [state |-> "DONE", i |-> m.i, v |-> m.v]
  BY <1>2, <1>10 DEF IInv, TypeOK
<1>12. Busy' = Busy \ {k}
  BY <1>2, <1>11 DEF Busy
<1>13. InFlight' = InFlight \ {m.i}
  <2>1. \A j \in Busy' : pool'[j].i = pool[j].i /\ pool[j].i # m.i
    BY <1>0, <1>3, <1>11, <1>12 DEF IInv, OneMachinePerQuery, Busy
  <2>2. \A j \in Busy : j \in Busy' \/ pool[j].i = m.i
    BY <1>0, <1>12
  <2> QED  BY <1>12, <2>1, <2>2 DEF InFlight
<1>14. Settled' = Settled \cup {m.i}
  BY <1>3, <1>4, <1>13 DEF Settled
<1>15. Settled \subseteq QueryIdx /\ Settled' \subseteq QueryIdx
  BY <1>4, <1>14, SettledFacts DEF IInv
<1>16. /\ all_done' = Cardinality(Settled') /\ all_done' \in 0 .. n
  <2>1. IsFiniteSet(Settled) /\ Cardinality(Settled \cup {m.i}) = Cardinality(Settled) + 1
    BY <1>5, <1>15, PositionsFinite, FS_AddElement DEF IInv, TypeOK
  <2>2. Cardinality(Settled \cup {m.i}) \in Nat /\ Cardinality(Settled \cup {m.i}) <= n
    BY <1>14, <1>15, PositionsFinite DEF IInv, TypeOK
  <2>3. all_done = Cardinality(Settled)
    BY DEF IInv, DoneCountsAnswered
  <2> QED  BY <1>1, <1>2, <1>14, <2>1, <2>2, <2>3
<1>17. TypeOK'
  <2>1. pool' \in [PoolIdx -> [state : {"INIT", "SEARCH", "DONE"}, i : QueryIdx \cup {NoQuery},
                               v : NodeIds(tree) \cup {NULL}]]
    BY <1>4, <1>10 DEF IInv, TypeOK
  <2>2. n' = n /\ NodeIds(tree)' = NodeIds(tree)
    BY <1>9 DEF n, NodeIds
  <2> QED  BY <1>2, <1>3, <1>8, <1>16, <2>1, <2>2 DEF IInv, TypeOK
<1>18. OneMachinePerQuery' /\ CursorFollowsKey'
  <2>1. \A j \in Busy' : j \in Busy /\ pool'[j] = pool[j]
    BY <1>11, <1>12 DEF Busy
  <2>2. OneMachinePerQuery'
    BY <2>1 DEF IInv, OneMachinePerQuery
  <2>3. ASSUME NEW j \in Busy'
        PROVE  /\ pool'[j].i \in 0 .. next_query_idx' - 1
               /\ pool'[j].state = "SEARCH" => /\ pool'[j].v \in NodeIds(tree)'
                                               /\ OnPath(pool[j].i, pool[j].v)'
    <3>1. /\ pool[j].i \in 0 .. next_query_idx - 1
          /\ pool[j].state = "SEARCH" => pool[j].v \in NodeIds(tree) /\ OnPath(pool[j].i, pool[j].v)
      BY <2>1 DEF IInv, CursorFollowsKey
    <3> QED  BY <1>3, <1>9, <2>1, <3>1 DEF OnPath, KeyAt, NodeIds
  <2> QED  BY <2>2, <2>3 DEF CursorFollowsKey
<1>19. SettledRight'
  <2>1. ASSUME NEW r \in QueryIdx, r # m.i
        PROVE  IF r \in Settled' THEN RightAnswer(r)' ELSE Unanswered(r)'
    <3>1. r \in Settled' <=> r \in Settled
      BY <1>14, <2>1
    <3>2. found'[r] = found[r] /\ results'[r] = results[r]
      BY <1>8, <2>1
    <3>3. Stored(tree)' = Stored(tree) /\ KeyAt(r)' = KeyAt(r)
      BY <1>9 DEF Stored, Leaves, NodeIds, Slots, isleafnode, KeyAt
    <3>4. Present(tree, KeyAt(r))' <=> Present(tree, KeyAt(r))
      BY <3>3 DEF Present
    <3>5. IF r \in Settled THEN RightAnswer(r) ELSE Unanswered(r)
      BY DEF IInv, SettledRight
    <3> QED  BY <3>1, <3>2, <3>3, <3>4, <3>5 DEF RightAnswer, Unanswered
  <2>2. m.i \in Settled' /\ RightAnswer(m.i)'
    BY <1>8, <1>14
  <2> QED  BY <1>8, <2>1, <2>2 DEF SettledRight
<1>20. DoneCountsAnswered' /\ Phases'
  BY <1>2, <1>9, <1>16 DEF DoneCountsAnswered, Phases, NothingToDo, n
<1> QED  BY <1>4, <1>5, <1>8, <1>14, <1>17, <1>18, <1>19, <1>20 DEF IInv

LEMMA VisitDoneStep ==
  ASSUME IInv, VisitDone
  PROVE  UNCHANGED <<args, outs, pool, next_query_idx, all_done>> /\ IInv'
<1>1. VisitCommon /\ Machine.state = "DONE" /\ UNCHANGED <<outs, pool, all_done>>
  BY DEF VisitDone
<1>2. /\ UNCHANGED args /\ pc = "visit" /\ pc' \in {"loop", "visit"} /\ ~NothingToDo
      /\ k' \in 0 .. POOL_SIZE /\ (pc' = "visit" => k' < POOL_SIZE)
      /\ next_query_idx' = next_query_idx
  <2>1. ~Refill
    BY <1>1, VisitFacts
  <2> QED  BY <1>1, <2>1, VisitFacts
<1>3. /\ n' = n /\ QueryIdx' = QueryIdx /\ NodeIds(tree)' = NodeIds(tree)
      /\ (NothingToDo' <=> NothingToDo) /\ OutsTypeOK'
      /\ \A r : (RightAnswer(r)' <=> RightAnswer(r)) /\ (Unanswered(r)' <=> Unanswered(r))
      /\ \A r, v : OnPath(r, v)' <=> OnPath(r, v)
  BY <1>1, <1>2, OutsUnchanged DEF IInv, TypeOK
<1>4. Busy' = Busy /\ InFlight' = InFlight /\ Settled' = Settled
  BY <1>1, <1>2 DEF Busy, InFlight, Settled
<1>5. TypeOK'
  BY <1>1, <1>2, <1>3 DEF IInv, TypeOK
<1>6. OneMachinePerQuery' /\ CursorFollowsKey'
  BY <1>1, <1>2, <1>3, <1>4 DEF IInv, OneMachinePerQuery, CursorFollowsKey
<1>7. DoneCountsAnswered' /\ SettledRight' /\ Phases'
  BY <1>1, <1>2, <1>3, <1>4 DEF IInv, DoneCountsAnswered, SettledRight, Phases
<1> QED  BY <1>1, <1>2, <1>5, <1>6, <1>7 DEF IInv

LEMMA StepIInv ==
  ASSUME IInv, [Next]_vars
  PROVE  IInv'
<1>1. CASE Start       BY <1>1, StartStep
<1>2. CASE Sweep       BY <1>2, SweepStep
<1>3. CASE VisitInit   BY <1>3, VisitInitStep
<1>4. CASE VisitInner  BY <1>4, VisitInnerStep
<1>5. CASE VisitLeaf   BY <1>5, VisitLeafStep
<1>6. CASE VisitDone   BY <1>6, VisitDoneStep
<1>7. CASE UNCHANGED vars
  <2>1. UNCHANGED <<args, outs>> /\ UNCHANGED <<pc, pool, next_query_idx, all_done, k>>
    BY <1>7 DEF vars, args, outs
  <2>2. Busy' = Busy /\ InFlight' = InFlight /\ Settled' = Settled
    BY <2>1 DEF Busy, InFlight, Settled
  <2>3. TypeOK' /\ OneMachinePerQuery' /\ CursorFollowsKey'
    BY <2>1, <2>2, OutsUnchanged DEF IInv, TypeOK, OneMachinePerQuery, CursorFollowsKey
  <2>4. DoneCountsAnswered' /\ SettledRight' /\ Phases'
    BY <2>1, <2>2, OutsUnchanged DEF IInv, DoneCountsAnswered, SettledRight, Phases
  <2> QED  BY <2>3, <2>4 DEF IInv
<1> QED  BY <1>1, <1>2, <1>3, <1>4, <1>5, <1>6, <1>7 DEF Next, Visit, Returned

-----------------------------------------------------------------------------
(* What the invariant says once the call has returned.                     *)

LEMMA AllSettledAtReturn ==
  ASSUME IInv, all_done >= n
  PROVE  Settled = QueryIdx /\ next_query_idx = n /\ Busy = {}
<1>1. n \in Nat /\ next_query_idx \in 0 .. n /\ Settled \subseteq QueryIdx
  BY SettledFacts DEF IInv
<1>2. Settled = QueryIdx
  <2>1. Cardinality(Settled) \in Nat /\ Cardinality(Settled) <= n
    BY <1>1, PositionsFinite DEF IInv, TypeOK
  <2>2. Cardinality(Settled) = n
    BY <1>1, <2>1 DEF IInv, DoneCountsAnswered
  <2> QED  BY <1>1, <2>2, PositionsFinite DEF IInv, TypeOK
<1>3. next_query_idx = n
  <2> SUFFICES ASSUME next_query_idx < n PROVE FALSE
    BY <1>1
  <2>1. n - 1 \in QueryIdx
    BY <1>1 DEF QueryIdx
  <2>2. n - 1 \notin Settled
    BY <1>1 DEF Settled
  <2> QED  BY <1>2, <2>1, <2>2
<1>4. Busy = {}
  <2> SUFFICES ASSUME NEW j \in Busy PROVE FALSE
    OBVIOUS
  <2>1. pool[j].i \in 0 .. next_query_idx - 1 /\ pool[j].i \in InFlight
    BY DEF IInv, CursorFollowsKey, InFlight
  <2>2. pool[j].i \in QueryIdx /\ pool[j].i \notin Settled
    BY <1>3, <2>1 DEF Settled, QueryIdx
  <2> QED  BY <1>2, <2>2
<1> QED  BY <1>2, <1>3, <1>4

LEMMA IInvImpliesAnswersRight == IInv => AnswersRight
<1> SUFFICES ASSUME IInv, NEW q \in QueryIdx
             PROVE  IF q \in Answered THEN RightAnswer(q) ELSE Unanswered(q)
  BY DEF AnswersRight
<1>1. IF q \in Settled THEN RightAnswer(q) ELSE Unanswered(q)
  BY DEF IInv, SettledRight
<1>2. CASE pc # "returned"
  BY <1>1, <1>2 DEF Answered
<1>3. CASE pc = "returned" /\ NothingToDo
  BY <1>1, <1>3, NothingToDoIsRight DEF Answered, IInv, TypeOK
<1>4. CASE pc = "returned" /\ ~NothingToDo
  BY <1>1, <1>4, AllSettledAtReturn DEF Answered, IInv, Phases
<1> QED  BY <1>2, <1>3, <1>4

LEMMA IInvImpliesReturnsComplete == IInv => ReturnsComplete
BY AllSettledAtReturn DEF ReturnsComplete, IInv, Phases

-----------------------------------------------------------------------------
(* The theorems.                                                           *)

LEMMA Invariance == Spec => []IInv
<1>1. Init => IInv
  BY InitIInv
<1>2. IInv /\ [Next]_vars => IInv'
  BY StepIInv
<1> QED  BY <1>1, <1>2, PTL DEF Spec

(* The machines' fields, the counters and the output vectors keep their types. *)
THEOREM TypeCorrect == Spec => []TypeOK
<1>1. IInv => TypeOK
  BY DEF IInv
<1> QED  BY <1>1, Invariance, PTL

(* No query is ever carried by two machines of the pool. *)
THEOREM NoQueryCarriedTwice == Spec => []OneMachinePerQuery
<1>1. IInv => OneMachinePerQuery
  BY DEF IInv
<1> QED  BY <1>1, Invariance, PTL

(* A searching machine always stands on the path of its own key. *)
THEOREM CursorsFollowKeys == Spec => []CursorFollowsKey
<1>1. IInv => CursorFollowsKey
  BY DEF IInv
<1> QED  BY <1>1, Invariance, PTL

(* all_done is the number of settled queries. *)
THEOREM DoneCounterExact == Spec => []DoneCountsAnswered
<1>1. IInv => DoneCountsAnswered
  BY DEF IInv
<1> QED  BY <1>1, Invariance, PTL

(* Every answer given is the right one, and no other entry has been touched. *)
THEOREM EveryAnswerRight == Spec => []AnswersRight
BY Invariance, IInvImpliesAnswersRight, PTL

(* The call returns with every query dealt and every machine done. *)
THEOREM ReturnIsComplete == Spec => []ReturnsComplete
BY Invariance, IInvImpliesReturnsComplete, PTL

(* All the parts together: the pool, its counters and the answers always agree. *)
THEOREM StaysExact == Spec => []PoolExact
BY TypeCorrect, NoQueryCarriedTwice, CursorsFollowKeys, DoneCounterExact, EveryAnswerRight,
   ReturnIsComplete, PTL DEF PoolExact

-----------------------------------------------------------------------------
(* The strategy implements the abstract batch lookup.                      *)

LEMMA InitRefines == Init => Abstract!Init
<1> SUFFICES ASSUME Init PROVE Abstract!Init
  OBVIOUS
<1>1. OutsTypeOK
  BY InitIInv DEF IInv, TypeOK
<1>2. Answered = {}
  BY DEF Init, Answered, Settled
<1> QED  BY <1>1, <1>2, AbstractTypes
         DEF Init, ArgsAndOutsInit, Abstract!Init, Abstract!Positions, QueryIdx, n

LEMMA StepRefines ==
  ASSUME IInv, [Next]_vars
  PROVE  [Abstract!Next]_(Abstract!vars)
<1>1. IInv'
  BY StepIInv
<1>2. ASSUME UNCHANGED <<args, outs>>, Answered' = Answered
      PROVE  UNCHANGED Abstract!vars
  <2>1. tree' = tree /\ queries' = queries /\ found' = found /\ results' = results
    BY <1>2 DEF args, outs
  <2>2. Stored(tree)' = Stored(tree)
    BY <2>1 DEF Stored, Leaves, NodeIds, Slots, isleafnode
  <2> QED  BY <1>2, <2>1, <2>2 DEF Abstract!vars
<1>3. ASSUME UNCHANGED args, Answered \subseteq Answered', Answered' \subseteq QueryIdx,
             \A q \in Answered' \ Answered : RightAnswer(q)',
             \A q \in QueryIdx \ (Answered' \ Answered) :
                  found'[q] = found[q] /\ results'[q] = results[q],
             Answered # Answered'
      PROVE  Abstract!Answer
  <2>1. tree' = tree /\ queries' = queries
    BY <1>3 DEF args
  <2>2. Stored(tree)' = Stored(tree) /\ QueryIdx' = QueryIdx
    BY <2>1 DEF Stored, Leaves, NodeIds, Slots, isleafnode, QueryIdx, n
  <2>3. Abstract!Positions = QueryIdx
    BY DEF Abstract!Positions, QueryIdx, n
  <2>4. ASSUME NEW q \in Answered' \ Answered PROVE Abstract!RightAnswer(q)'
    <3>1. RightAnswer(q)'
      BY <1>3
    <3> QED  BY <3>1 DEF RightAnswer, Present, KeyAt, Abstract!RightAnswer, Abstract!KeyAt
  <2>5. DOMAIN found' = QueryIdx /\ DOMAIN results' = QueryIdx
    BY <1>1, <2>2 DEF IInv, TypeOK, OutsTypeOK
  <2> QED  BY <1>3, <2>1, <2>2, <2>3, <2>4, <2>5 DEF Abstract!Answer
<1>4. CASE Start
  <2>1. UNCHANGED <<args, outs>> /\ pc = "start" /\ pc' \in {"returned", "loop"}
    BY <1>4 DEF Start
  <2>2. Settled = {} /\ Answered = {}
    BY <2>1 DEF IInv, Phases, Answered, Settled
  <2>3. CASE NothingToDo
    <3>1. Answered' = QueryIdx /\ QueryIdx' = QueryIdx
      BY <1>4, <2>1, <2>3, OutsUnchanged DEF Start, Answered
    <3>2. \A q \in QueryIdx : RightAnswer(q)'
      BY <2>1, <2>2, <2>3, OutsUnchanged, NothingToDoIsRight DEF IInv, TypeOK, SettledRight
    <3>3. found' = found /\ results' = results
      BY <2>1 DEF outs
    <3>4. CASE QueryIdx = {}
      BY <1>2, <2>1, <2>2, <3>1, <3>4
    <3>5. CASE QueryIdx # {}
      BY <1>3, <2>1, <2>2, <3>1, <3>2, <3>3, <3>5 DEF Abstract!Next
    <3> QED  BY <3>4, <3>5
  <2>4. CASE ~NothingToDo
    <3>1. pc' = "loop"
      BY <1>4, <2>4 DEF Start
    <3>2. Settled' = {}
      BY <1>4, <2>2, StartStep
    <3> QED  BY <1>2, <2>1, <2>2, <3>1, <3>2 DEF Answered
  <2> QED  BY <2>3, <2>4
<1>5. CASE Sweep
  <2>1. UNCHANGED <<args, outs>> /\ pc = "loop" /\ Settled' = Settled
    BY <1>5, SweepStep DEF Sweep
  <2>2. CASE all_done < n
    <3>1. pc' = "visit"
      BY <1>5, <2>2 DEF Sweep
    <3> QED  BY <1>2, <2>1, <3>1 DEF Answered
  <2>3. CASE ~(all_done < n)
    <3>1. pc' = "returned" /\ QueryIdx' = QueryIdx
      BY <1>5, <2>1, <2>3, OutsUnchanged DEF Sweep
    <3>2. n \in Nat /\ all_done \in Nat
      BY SettledFacts DEF IInv, TypeOK
    <3>3. Settled = QueryIdx
      BY <2>3, <3>2, AllSettledAtReturn
    <3> QED  BY <1>2, <2>1, <3>1, <3>3 DEF Answered
  <2> QED  BY <2>2, <2>3
<1>6. CASE VisitInit \/ VisitInner \/ VisitDone
  <2>1. UNCHANGED <<args, outs>> /\ VisitCommon
    BY <1>6 DEF VisitInit, VisitInner, VisitDone, VisitCommon
  <2>2. pc = "visit" /\ pc' \in {"loop", "visit"}
    BY <2>1, VisitFacts
  <2>3. Settled' = Settled
    <3>1. CASE VisitDone
      BY <3>1, VisitDoneStep DEF Settled, InFlight, Busy
    <3> QED  BY <1>6, <3>1, VisitInitStep, VisitInnerStep
  <2> QED  BY <1>2, <2>1, <2>2, <2>3 DEF Answered
<1>7. CASE VisitLeaf
  <2>1. UNCHANGED args /\ pc = "visit" /\ pc' \in {"loop", "visit"}
    BY <1>7, VisitFacts DEF VisitLeaf
  <2>2. PICK q \in QueryIdx \ Settled :
           /\ Settled' = Settled \cup {q}
           /\ \A r \in QueryIdx \ {q} : found'[r] = found[r] /\ results'[r] = results[r]
    BY <1>7, VisitLeafStep
  <2>3. Answered = Settled /\ Answered' = Settled \cup {q}
    BY <2>1, <2>2 DEF Answered
  <2>4. Settled' \subseteq QueryIdx /\ QueryIdx' = QueryIdx
    BY <1>7, <2>2, VisitLeafStep, SettledFacts DEF IInv
  <2>5. RightAnswer(q)'
    BY <1>1, <2>2, <2>4 DEF IInv, SettledRight
  <2>6. Answered' \ Answered = {q}
    BY <2>2, <2>3
  <2>7. Abstract!Answer
    BY <1>3, <2>1, <2>2, <2>3, <2>4, <2>5, <2>6
  <2> QED  BY <2>7 DEF Abstract!Next
<1>8. CASE UNCHANGED vars
  <2>1. UNCHANGED <<args, outs>> /\ UNCHANGED <<pc, pool, next_query_idx>>
    BY <1>8 DEF vars, args, outs
  <2>2. Answered' = Answered
    BY <2>1, OutsUnchanged DEF Answered, Settled, InFlight, Busy
  <2> QED  BY <1>2, <2>1, <2>2
<1> QED  BY <1>4, <1>5, <1>6, <1>7, <1>8 DEF Next, Visit, Returned

(* FSM_AMAC implements the abstract batch lookup: it answers one query at a *)
(* time, or all of them at once when the tree is empty.                     *)
THEOREM Refinement == Spec => RefinesBatchLookup
<1>1. Init => Abstract!Init
  BY InitRefines
<1>2. IInv /\ [Next]_vars => [Abstract!Next]_(Abstract!vars)
  BY StepRefines
<1> QED  BY <1>1, <1>2, Invariance, PTL DEF Spec, RefinesBatchLookup, Abstract!SafeSpec

-----------------------------------------------------------------------------
(* The siblings: what they share with the lookups above.                   *)

(* The lemmas about lookups, for the outputs the other two share. *)
Lookup == INSTANCE BTreeLookup_proofs WITH found <- linear_found, results <- linear_results

(* Lookup and the instances of the siblings import the same definitions. *)
LEMMA LookupSameTrees ==
  \A t : /\ Lookup!WellFormed(t) <=> WellFormed(t)
         /\ Lookup!NodeIds(t) = NodeIds(t)
         /\ Lookup!Stored(t) = Stored(t)
BY DEF Lookup!WellFormed, WellFormed, Lookup!NodeOK, NodeOK, Lookup!ChildrenOK, ChildrenOK,
       Lookup!LeafOwns, LeafOwns, Lookup!Sorted, Sorted, Lookup!Slots, Slots,
       Lookup!isleafnode, isleafnode, Lookup!NodeIds, NodeIds,
       Lookup!Stored, Stored, Lookup!Leaves, Leaves

LEMMA LookupCounts ==
  \A S : Lookup!Cardinality(S) = Cardinality(S) /\ (Lookup!IsFiniteSet(S) <=> IsFiniteSet(S))
BY DEF Lookup!Cardinality, Cardinality, Lookup!IsFiniteSet, IsFiniteSet

-----------------------------------------------------------------------------
(* AMAC_Linear: the operators and the lemmas it has from the lookup.       *)

LEMMA LinearSameTrees ==
  \A t : /\ Linear!WellFormed(t) <=> WellFormed(t)
         /\ Linear!NodeIds(t) = NodeIds(t)
         /\ Linear!Stored(t) = Stored(t)
BY DEF Linear!WellFormed, WellFormed, Linear!NodeOK, NodeOK, Linear!ChildrenOK, ChildrenOK,
       Linear!LeafOwns, LeafOwns, Linear!Sorted, Sorted, Linear!Slots, Slots,
       Linear!isleafnode, isleafnode, Linear!NodeIds, NodeIds,
       Linear!Stored, Stored, Linear!Leaves, Leaves

LEMMA LinearSameChild ==
  \A nd, key : /\ Linear!Child(nd, key) = Child(nd, key)
               /\ Linear!isleafnode(nd) <=> isleafnode(nd)
BY DEF Linear!Child, Child, Linear!find_lower, find_lower,
       Linear!IsLowerBound, IsLowerBound, Linear!isleafnode, isleafnode

LEMMA LinearSame ==
  /\ \A t : Linear!WellFormed(t) <=> Lookup!WellFormed(t)
  /\ Linear!n = Lookup!n /\ Linear!QueryIdx = Lookup!QueryIdx
  /\ Linear!args = Lookup!args /\ Linear!outs = Lookup!outs
  /\ Linear!n' = Lookup!n' /\ Linear!QueryIdx' = Lookup!QueryIdx'
  /\ Linear!args' = Lookup!args' /\ Linear!outs' = Lookup!outs'
  /\ Linear!NodeIds(tree) = Lookup!NodeIds(tree) /\ Linear!NodeIds(tree)' = Lookup!NodeIds(tree)'
  /\ Linear!Stored(tree) = Lookup!Stored(tree)
  /\ Linear!OutsTypeOK <=> Lookup!OutsTypeOK
  /\ Linear!OutsTypeOK' <=> Lookup!OutsTypeOK'
  /\ Linear!NothingToDo <=> Lookup!NothingToDo
  /\ Linear!NothingToDo' <=> Lookup!NothingToDo'
  /\ \A q : /\ Linear!RightAnswer(q) <=> Lookup!RightAnswer(q)
            /\ Linear!RightAnswer(q)' <=> Lookup!RightAnswer(q)'
            /\ Linear!Unanswered(q) <=> Lookup!Unanswered(q)
            /\ Linear!Unanswered(q)' <=> Lookup!Unanswered(q)'
            /\ Linear!KeyAt(q) = Lookup!KeyAt(q)
            /\ Linear!KeyAt(q)' = Lookup!KeyAt(q)'
  /\ \A q, v : /\ Linear!OnPath(q, v) <=> Lookup!OnPath(q, v)
               /\ Linear!OnPath(q, v)' <=> Lookup!OnPath(q, v)'
               /\ Linear!IsLeafId(v) <=> Lookup!IsLeafId(v)
  /\ \A reached : Linear!WriteAnswers(reached) <=> Lookup!WriteAnswers(reached)
<1>1. \A t : Linear!WellFormed(t) <=> Lookup!WellFormed(t)
  BY LinearSameTrees, LookupSameTrees
<1>2. \A reached : Linear!WriteAnswers(reached) <=> Lookup!WriteAnswers(reached)
  BY DEF Linear!WriteAnswers, Lookup!WriteAnswers, Linear!Hit, Lookup!Hit, Linear!Data, Lookup!Data,
         Linear!find_lower, Lookup!find_lower, Linear!IsLowerBound, Lookup!IsLowerBound,
         Linear!KeyAt, Lookup!KeyAt, Linear!QueryIdx, Lookup!QueryIdx, Linear!n, Lookup!n,
         Linear!Node, Lookup!Node
<1> QED
  BY <1>1, <1>2
  DEF Linear!OutsTypeOK, Lookup!OutsTypeOK, Linear!n, Lookup!n, Linear!QueryIdx, Lookup!QueryIdx,
      Linear!RightAnswer, Lookup!RightAnswer, Linear!Present, Lookup!Present,
      Linear!Stored, Lookup!Stored, Linear!Leaves, Lookup!Leaves, Linear!KeyAt, Lookup!KeyAt,
      Linear!NodeIds, Lookup!NodeIds, Linear!Slots, Lookup!Slots, Linear!isleafnode, Lookup!isleafnode,
      Linear!args, Lookup!args, Linear!outs, Lookup!outs, Linear!NothingToDo, Lookup!NothingToDo,
      Linear!Unanswered, Lookup!Unanswered, Linear!OnPath, Lookup!OnPath,
      Linear!IsLeafId, Lookup!IsLeafId, Linear!Node, Lookup!Node

LEMMA LinearCounts == \A S : Linear!Cardinality(S) = Cardinality(S)
BY DEF Linear!Cardinality, Cardinality

LEMMA LinearArgsFacts ==
  ASSUME Linear!OutsTypeOK
  PROVE  /\ Linear!WellFormed(tree)
         /\ Linear!n \in Nat
         /\ \A q \in Linear!QueryIdx : Linear!KeyAt(q) \in Key
BY LinearSame, LookupSameTrees, Lookup!ArgsFacts, KeyAssumption, TreesAssumption, BatchesAssumption,
   StaleAssumption

LEMMA LinearPositionsFinite ==
  ASSUME Linear!OutsTypeOK, NEW S, S \subseteq Linear!QueryIdx
  PROVE  /\ IsFiniteSet(S)
         /\ Cardinality(S) \in Nat
         /\ Cardinality(S) <= Linear!n
         /\ Cardinality(S) = Linear!n => S = Linear!QueryIdx
BY LinearSame, LookupSameTrees, LookupCounts, Lookup!PositionsFinite, KeyAssumption, TreesAssumption,
   BatchesAssumption, StaleAssumption

LEMMA LinearLeavesGiveRightAnswers ==
  ASSUME Linear!OutsTypeOK, NEW Qs, Qs \subseteq Linear!QueryIdx, NEW reached, DOMAIN reached = Qs,
         \A q \in Qs : /\ reached[q] \in Linear!NodeIds(tree) /\ Linear!IsLeafId(reached[q])
                       /\ Linear!OnPath(q, reached[q]) /\ Linear!Unanswered(q),
         Linear!WriteAnswers(reached), UNCHANGED Linear!args
  PROVE  /\ Linear!OutsTypeOK'
         /\ Linear!QueryIdx' = Linear!QueryIdx
         /\ \A q \in Qs : Linear!RightAnswer(q)'
         /\ \A q \in Linear!QueryIdx \ Qs : linear_found'[q] = linear_found[q] /\ linear_results'[q] = linear_results[q]
BY LinearSame, LookupSameTrees, Lookup!LeavesGiveRightAnswers, KeyAssumption, TreesAssumption,
   BatchesAssumption, StaleAssumption

LEMMA LinearOutsUnchanged ==
  ASSUME UNCHANGED <<Linear!args, Linear!outs>>
  PROVE  /\ Linear!n' = Linear!n /\ Linear!QueryIdx' = Linear!QueryIdx /\ Linear!NodeIds(tree)' = Linear!NodeIds(tree)
         /\ (Linear!NothingToDo' <=> Linear!NothingToDo)
         /\ (Linear!OutsTypeOK => Linear!OutsTypeOK')
         /\ \A q : /\ Linear!RightAnswer(q)' <=> Linear!RightAnswer(q)
                   /\ Linear!Unanswered(q)' <=> Linear!Unanswered(q)
                   /\ Linear!KeyAt(q)' = Linear!KeyAt(q)
         /\ \A q, v : Linear!OnPath(q, v)' <=> Linear!OnPath(q, v)
BY LinearSame, LookupSameTrees, Lookup!OutsUnchanged, KeyAssumption, TreesAssumption,
   BatchesAssumption, StaleAssumption

LEMMA LinearNothingToDoIsRight ==
  ASSUME Linear!OutsTypeOK, Linear!NothingToDo, NEW q \in Linear!QueryIdx, Linear!Unanswered(q)
  PROVE  Linear!RightAnswer(q)
BY LinearSame, LookupSameTrees, Lookup!NothingToDoIsRight, KeyAssumption, TreesAssumption,
   BatchesAssumption, StaleAssumption

LEMMA LinearAbstractTypes ==
  ASSUME Linear!OutsTypeOK
  PROVE  Linear!Stored(tree) \in SUBSET (Key \X Value) /\ queries \in Seq(Key)
BY LinearSame, LookupSameTrees, Lookup!AbstractTypes, KeyAssumption, TreesAssumption,
   BatchesAssumption, StaleAssumption

LEMMA LinearDescentStep ==
  ASSUME NEW t, Linear!WellFormed(t), NEW v \in Linear!NodeIds(t), ~Linear!isleafnode(t.node[v]),
         NEW key \in Key, t.lo[v] < key, key <= t.hi[v]
  PROVE  LET c == Linear!Child(t.node[v], key)
         IN  /\ c \in Linear!NodeIds(t)
             /\ t.node[c].level + 1 = t.node[v].level
             /\ t.lo[c] < key
             /\ key <= t.hi[c]
BY LinearSameTrees, LinearSameChild, DescentStep, KeyAssumption

-----------------------------------------------------------------------------
(* The inductive invariant of AMAC_Linear.                                 *)

(* A machine that is not done carries a query that was dealt. *)
LinearMachinesDealt == \A j \in Linear!Busy : linear_pool[j].i \in 0 .. linear_next - 1

(* Before the deal nothing has happened; the loop has a tree to search. *)
LinearPhases ==
  /\ linear_pc = "start" => linear_next = 0 /\ Linear!Busy = {}
  /\ linear_pc = "loop" => ~Linear!NothingToDo
  /\ linear_pc = "returned" /\ ~Linear!NothingToDo => linear_done >= Linear!n

(* The answers written so far are those of the settled queries. *)
LinearSettledRight ==
  \A q \in Linear!QueryIdx : IF q \in Linear!Settled THEN Linear!RightAnswer(q) ELSE Linear!Unanswered(q)

LinearIInv == /\ Linear!PoolExact
              /\ LinearMachinesDealt
              /\ LinearSettledRight
              /\ LinearPhases

LinearMachineType == [state : {"INIT", "SEARCH_INNER", "SEARCH_LEAF", "DONE"},
                      i : Linear!QueryIdx \cup {Linear!NoQuery}, v : Linear!NodeIds(tree) \cup {NULL}]

(* Settled queries are positions of the batch that no machine carries. *)
LEMMA LinearSettledFacts ==
  ASSUME Linear!TypeOK, LinearMachinesDealt
  PROVE  /\ Linear!n \in Nat /\ linear_next \in 0 .. Linear!n
         /\ Linear!Settled \subseteq Linear!QueryIdx
         /\ Linear!InFlight \subseteq 0 .. linear_next - 1
<1>1. Linear!n \in Nat /\ linear_next \in 0 .. Linear!n
  BY LinearArgsFacts DEF Linear!TypeOK
<1>2. Linear!Settled \subseteq Linear!QueryIdx
  BY <1>1 DEF Linear!Settled, Linear!QueryIdx
<1>3. Linear!InFlight \subseteq 0 .. linear_next - 1
  BY DEF Linear!InFlight, LinearMachinesDealt
<1> QED  BY <1>1, <1>2, <1>3

LEMMA LinearInitIInv ==
  ASSUME Linear!Init
  PROVE  LinearIInv
<1>1. Linear!OutsTypeOK
  BY DEF Linear!Init, Linear!ArgsAndOutsInit, Linear!OutsTypeOK
<1>2. Linear!n \in Nat
  BY <1>1, LinearArgsFacts
<1>3. Linear!Busy = {} /\ Linear!InFlight = {} /\ Linear!Settled = {}
  BY DEF Linear!Init, Linear!Busy, Linear!InFlight, Linear!Settled
<1>4. Linear!TypeOK
  BY <1>1, <1>2, PoolAssumption DEF Linear!Init, Linear!TypeOK, Linear!PoolIdx, Linear!NoQuery
<1>5. Linear!OneMachinePerQuery /\ Linear!CursorFollowsKey /\ LinearMachinesDealt
  BY <1>3 DEF Linear!OneMachinePerQuery, Linear!CursorFollowsKey, LinearMachinesDealt
<1>6. Linear!DoneCountsAnswered
  BY LinearCounts, <1>3, FS_EmptySet DEF Linear!Init, Linear!DoneCountsAnswered
<1>7. LinearSettledRight
  BY <1>3 DEF Linear!Init, Linear!ArgsAndOutsInit, LinearSettledRight, Linear!Unanswered
<1>8. LinearPhases
  BY <1>3 DEF Linear!Init, LinearPhases
<1> QED  BY <1>4, <1>5, <1>6, <1>7, <1>8 DEF LinearIInv, Linear!PoolExact

LEMMA LinearQuiet ==
  ASSUME LinearIInv, UNCHANGED <<Linear!args, Linear!outs, linear_pool, linear_next, linear_done>>
  PROVE  /\ Linear!Busy' = Linear!Busy /\ Linear!InFlight' = Linear!InFlight /\ Linear!Settled' = Linear!Settled
         /\ Linear!n' = Linear!n /\ (Linear!NothingToDo' <=> Linear!NothingToDo)
         /\ Linear!OneMachinePerQuery' /\ Linear!CursorFollowsKey' /\ Linear!DoneCountsAnswered'
         /\ LinearMachinesDealt' /\ LinearSettledRight'
         /\ (linear_pc' \in {"start", "loop", "returned"} /\ linear_k' \in 0 .. POOL_SIZE => Linear!TypeOK')
<1>1. /\ Linear!n' = Linear!n /\ Linear!QueryIdx' = Linear!QueryIdx /\ Linear!NodeIds(tree)' = Linear!NodeIds(tree)
      /\ (Linear!NothingToDo' <=> Linear!NothingToDo) /\ Linear!OutsTypeOK' /\ tree' = tree
      /\ \A q : (Linear!RightAnswer(q)' <=> Linear!RightAnswer(q)) /\ (Linear!Unanswered(q)' <=> Linear!Unanswered(q))
      /\ \A q, v : Linear!OnPath(q, v)' <=> Linear!OnPath(q, v)
  BY LinearOutsUnchanged DEF LinearIInv, Linear!PoolExact, Linear!TypeOK, Linear!args
<1>2. Linear!Busy' = Linear!Busy /\ Linear!InFlight' = Linear!InFlight /\ Linear!Settled' = Linear!Settled
  BY DEF Linear!Busy, Linear!InFlight, Linear!Settled
<1>3. linear_pc' \in {"start", "loop", "returned"} /\ linear_k' \in 0 .. POOL_SIZE => Linear!TypeOK'
  BY <1>1 DEF LinearIInv, Linear!PoolExact, Linear!TypeOK
<1>4. Linear!OneMachinePerQuery' /\ Linear!CursorFollowsKey' /\ LinearMachinesDealt'
  BY <1>1, <1>2
     DEF LinearIInv, Linear!PoolExact, Linear!OneMachinePerQuery, Linear!CursorFollowsKey,
         LinearMachinesDealt, Linear!IsLeafId, Linear!Node
<1>5. Linear!DoneCountsAnswered' /\ LinearSettledRight'
  BY LinearCounts, <1>1, <1>2 DEF LinearIInv, Linear!PoolExact, Linear!DoneCountsAnswered, LinearSettledRight
<1> QED  BY <1>1, <1>2, <1>3, <1>4, <1>5

LEMMA LinearStartStep ==
  ASSUME LinearIInv, Linear!Start
  PROVE  LinearIInv' /\ Linear!Settled = {} /\ Linear!Settled' = {}
<1>1. UNCHANGED <<Linear!args, Linear!outs, linear_done, linear_k>> /\ linear_pc = "start"
  BY DEF Linear!Start
<1>2. /\ Linear!n' = Linear!n /\ Linear!QueryIdx' = Linear!QueryIdx /\ Linear!NodeIds(tree)' = Linear!NodeIds(tree)
      /\ (Linear!NothingToDo' <=> Linear!NothingToDo) /\ Linear!OutsTypeOK'
      /\ \A q : (Linear!RightAnswer(q)' <=> Linear!RightAnswer(q)) /\ (Linear!Unanswered(q)' <=> Linear!Unanswered(q))
  BY <1>1, LinearOutsUnchanged DEF LinearIInv, Linear!PoolExact, Linear!TypeOK
<1>3. Linear!n \in Nat /\ linear_next = 0 /\ Linear!Busy = {} /\ Linear!Settled = {}
  BY <1>1, LinearSettledFacts DEF LinearIInv, Linear!PoolExact, LinearPhases, Linear!Settled
<1>4. CASE Linear!NothingToDo
  <2>1. linear_pc' = "returned" /\ linear_pool' = linear_pool /\ linear_next' = linear_next
    BY <1>4 DEF Linear!Start
  <2>2. linear_k' \in 0 .. POOL_SIZE
    BY <1>1 DEF LinearIInv, Linear!PoolExact, Linear!TypeOK
  <2>3. LinearPhases'
    BY <1>2, <1>4, <2>1 DEF LinearPhases
  <2> QED  BY <1>1, <1>3, <2>1, <2>2, <2>3, LinearQuiet DEF LinearIInv, Linear!PoolExact
<1>5. CASE ~Linear!NothingToDo
  <2> DEFINE m == Linear!Min2(POOL_SIZE, Linear!n)
  <2>1. /\ linear_pc' = "loop"
        /\ linear_pool' = [j \in Linear!PoolIdx |-> IF j < Linear!n THEN Linear!Dealt(linear_pool[j], j) ELSE linear_pool[j]]
        /\ linear_next' = m
    BY <1>5 DEF Linear!Start
  <2>2. m \in 0 .. Linear!n /\ \A j \in Linear!PoolIdx : j \in 0 .. m - 1 <=> j < Linear!n
    BY <1>3, PoolAssumption DEF Linear!Min2, Linear!PoolIdx
  <2>3. \A j \in Linear!PoolIdx : linear_pool[j].state = "DONE" /\ linear_pool[j] \in LinearMachineType
    BY <1>3 DEF Linear!Busy, LinearMachineType, LinearIInv, Linear!PoolExact, Linear!TypeOK
  <2>4. \A j \in Linear!PoolIdx :
           /\ j < Linear!n => linear_pool'[j].state = "INIT" /\ linear_pool'[j].i = j /\ linear_pool'[j].v = linear_pool[j].v
           /\ ~(j < Linear!n) => linear_pool'[j] = linear_pool[j]
    BY <2>1 DEF Linear!Dealt
  <2>5. Linear!Busy' = {j \in Linear!PoolIdx : j < Linear!n}
    BY <2>3, <2>4 DEF Linear!Busy
  <2>6. Linear!InFlight' = 0 .. m - 1
    <3>1. \A j \in Linear!Busy' : linear_pool'[j].i = j
      BY <2>4, <2>5
    <3>2. Linear!Busy' = 0 .. m - 1
      BY <1>3, <2>2, <2>5, PoolAssumption DEF Linear!PoolIdx, Linear!Min2
    <3> QED  BY <3>1, <3>2 DEF Linear!InFlight
  <2>7. Linear!Settled' = {}
    BY <2>1, <2>6 DEF Linear!Settled
  <2>8. Linear!TypeOK'
    <3>1. \A j \in Linear!PoolIdx : linear_pool'[j] \in LinearMachineType
      BY <2>1, <2>3, <1>3 DEF Linear!QueryIdx, Linear!PoolIdx, Linear!Dealt, LinearMachineType
    <3>2. linear_pool' \in [Linear!PoolIdx -> LinearMachineType]
      BY <2>1, <3>1
    <3> QED  BY <1>1, <1>2, <2>1, <2>2, <3>2
                DEF LinearIInv, Linear!PoolExact, Linear!TypeOK, LinearMachineType
  <2>9. Linear!OneMachinePerQuery' /\ Linear!CursorFollowsKey' /\ LinearMachinesDealt'
    <3>1. \A j \in Linear!Busy' : j \in 0 .. m - 1 /\ linear_pool'[j].i = j /\ linear_pool'[j].state = "INIT"
      BY <2>2, <2>4, <2>5
    <3> QED  BY <3>1, <2>1 DEF Linear!OneMachinePerQuery, Linear!CursorFollowsKey, LinearMachinesDealt
  <2>10. Linear!DoneCountsAnswered' /\ LinearSettledRight' /\ LinearPhases'
    BY LinearCounts, <1>1, <1>2, <1>3, <1>5, <2>1, <2>7
       DEF LinearIInv, Linear!PoolExact, Linear!DoneCountsAnswered, LinearSettledRight, LinearPhases
  <2> QED  BY <1>3, <2>7, <2>8, <2>9, <2>10 DEF LinearIInv, Linear!PoolExact
<1> QED  BY <1>4, <1>5

(* A visit leaves the machines it does not visit alone; the machine it does   *)
(* visit is given a new query only if it is done and one is waiting.          *)
LEMMA LinearVisitFacts ==
  ASSUME LinearIInv, Linear!VisitCommon
  PROVE  /\ Linear!Turn \in Linear!PoolIdx /\ linear_pc = "loop" /\ linear_pc' = "loop" /\ ~Linear!NothingToDo
         /\ linear_k' \in 0 .. POOL_SIZE
         /\ UNCHANGED Linear!args
         /\ linear_pool[Linear!Turn] \in LinearMachineType
         /\ Linear!n \in Nat /\ linear_next \in 0 .. Linear!n
         /\ Linear!Refill => /\ Linear!Turn \notin Linear!Busy /\ linear_next < Linear!n
                             /\ linear_next' = linear_next + 1
                             /\ Linear!Machine = [state |-> "INIT", i |-> linear_next, v |-> linear_pool[Linear!Turn].v]
         /\ ~Linear!Refill => linear_next' = linear_next /\ Linear!Machine = linear_pool[Linear!Turn]
<1>1. linear_pc = "loop" /\ linear_k' = Linear!Turn + 1 /\ linear_pc' = linear_pc /\ UNCHANGED Linear!args
      /\ linear_next' = IF Linear!Refill THEN linear_next + 1 ELSE linear_next
  BY DEF Linear!VisitCommon
<1>2. Linear!Turn \in Linear!PoolIdx
  BY <1>1, PoolAssumption DEF LinearIInv, Linear!PoolExact, Linear!TypeOK, Linear!PoolIdx, Linear!Turn
<1>3. linear_k' \in 0 .. POOL_SIZE
  BY <1>1, <1>2, PoolAssumption DEF Linear!PoolIdx
<1>5. linear_pool[Linear!Turn] \in LinearMachineType
  BY <1>2 DEF LinearIInv, Linear!PoolExact, Linear!TypeOK, LinearMachineType
<1>6. Linear!n \in Nat /\ linear_next \in 0 .. Linear!n
  BY LinearSettledFacts DEF LinearIInv, Linear!PoolExact
<1>7. Linear!Refill => Linear!Turn \notin Linear!Busy /\ linear_next < Linear!n
  BY DEF Linear!Refill, Linear!Busy
<1> QED  BY <1>1, <1>2, <1>3, <1>5, <1>6, <1>7 DEF Linear!Machine, Linear!Dealt, LinearIInv, LinearPhases

(* A visit that leaves the machine searching keeps the invariant when the     *)
(* node it is left at is on the path of its key.                              *)
LEMMA LinearSearchGoesOn ==
  ASSUME LinearIInv, Linear!VisitCommon, UNCHANGED <<Linear!outs, linear_done>>, Linear!Machine.state # "DONE",
         NEW st \in {"SEARCH_INNER", "SEARCH_LEAF"}, NEW v \in Linear!NodeIds(tree), Linear!Leave(st, v),
         Linear!Machine.i \in Linear!QueryIdx => Linear!OnPath(Linear!Machine.i, v),
         st = "SEARCH_LEAF" => Linear!IsLeafId(v)
  PROVE  LinearIInv' /\ Linear!Settled' = Linear!Settled
<1>0. PICK q : q = Linear!Machine.i
  OBVIOUS
<1>00. PICK t : t = Linear!Turn
  OBVIOUS
<1>1. /\ t \in Linear!PoolIdx /\ UNCHANGED Linear!args /\ Linear!n \in Nat /\ linear_next \in 0 .. Linear!n
      /\ linear_pc = "loop" /\ linear_pc' = "loop" /\ ~Linear!NothingToDo /\ linear_k' \in 0 .. POOL_SIZE
  BY <1>00, LinearVisitFacts
<1>2. /\ Linear!n' = Linear!n /\ Linear!QueryIdx' = Linear!QueryIdx /\ Linear!NodeIds(tree)' = Linear!NodeIds(tree)
      /\ (Linear!NothingToDo' <=> Linear!NothingToDo) /\ Linear!OutsTypeOK' /\ tree' = tree
      /\ \A r : (Linear!RightAnswer(r)' <=> Linear!RightAnswer(r)) /\ (Linear!Unanswered(r)' <=> Linear!Unanswered(r))
      /\ \A r, w : Linear!OnPath(r, w)' <=> Linear!OnPath(r, w)
  BY <1>1, LinearOutsUnchanged DEF LinearIInv, Linear!PoolExact, Linear!TypeOK, Linear!args
<1>3. linear_next' \in 0 .. Linear!n /\ linear_next <= linear_next'
  BY LinearVisitFacts
<1>4. q \in 0 .. linear_next' - 1 /\ \A j \in Linear!Busy \ {t} : linear_pool[j].i # q
  <2>1. CASE Linear!Refill
    <3>1. q = linear_next /\ linear_next' = linear_next + 1
      BY <1>0, <2>1, LinearVisitFacts
    <3>2. \A j \in Linear!Busy : linear_pool[j].i \in 0 .. linear_next - 1
      BY DEF LinearIInv, LinearMachinesDealt
    <3> QED  BY <1>1, <3>1, <3>2
  <2>2. CASE ~Linear!Refill
    <3>1. Linear!Machine = linear_pool[t] /\ linear_next' = linear_next
      BY <1>00, <2>2, LinearVisitFacts
    <3>2. t \in Linear!Busy
      BY <1>1, <3>1 DEF Linear!Busy
    <3> QED  BY <1>0, <3>1, <3>2
                DEF LinearIInv, Linear!PoolExact, LinearMachinesDealt, Linear!OneMachinePerQuery
  <2> QED  BY <2>1, <2>2
<1>5. q \in Linear!QueryIdx /\ Linear!OnPath(q, v)
  <2>1. q \in 0 .. Linear!n - 1
    BY <1>1, <1>3, <1>4
  <2> QED  BY <1>0, <2>1 DEF Linear!QueryIdx
<1>6. linear_pool' = [linear_pool EXCEPT ![t] = [state |-> st, i |-> q, v |-> v]]
  BY <1>0, <1>00 DEF Linear!Leave
<1>7. /\ \A j \in Linear!PoolIdx \ {t} : linear_pool'[j] = linear_pool[j]
      /\ linear_pool'[t] = [state |-> st, i |-> q, v |-> v]
  BY <1>1, <1>6 DEF LinearIInv, Linear!PoolExact, Linear!TypeOK
<1>8. Linear!Busy' = Linear!Busy \cup {t}
  BY <1>1, <1>7 DEF Linear!Busy
<1>9. Linear!Settled' = Linear!Settled
  <2>1. CASE Linear!Refill
    <3>1. q = linear_next /\ linear_next' = linear_next + 1 /\ t \notin Linear!Busy
      BY <1>0, <1>00, <2>1, LinearVisitFacts
    <3>2. Linear!InFlight' = Linear!InFlight \cup {q}
      BY <1>7, <1>8, <3>1 DEF Linear!InFlight, Linear!Busy
    <3> QED  BY <1>1, <3>1, <3>2 DEF Linear!Settled
  <2>2. CASE ~Linear!Refill
    <3>1. Linear!Machine = linear_pool[t] /\ linear_next' = linear_next
      BY <1>00, <2>2, LinearVisitFacts
    <3>2. t \in Linear!Busy
      BY <1>1, <3>1 DEF Linear!Busy
    <3>3. Linear!Busy' = Linear!Busy /\ \A j \in Linear!Busy : linear_pool'[j].i = linear_pool[j].i
      BY <1>0, <1>7, <1>8, <3>1, <3>2 DEF Linear!Busy
    <3>4. Linear!InFlight' = Linear!InFlight
      BY <3>3 DEF Linear!InFlight
    <3> QED  BY <3>1, <3>4 DEF Linear!Settled
  <2> QED  BY <2>1, <2>2
<1>10. Linear!TypeOK'
  <2>1. linear_pool' \in [Linear!PoolIdx -> LinearMachineType]
    BY <1>5, <1>6 DEF LinearIInv, Linear!PoolExact, Linear!TypeOK, LinearMachineType
  <2> QED  BY <1>1, <1>2, <1>3, <2>1 DEF LinearIInv, Linear!PoolExact, Linear!TypeOK, LinearMachineType
<1>11. Linear!OneMachinePerQuery'
  BY <1>4, <1>7, <1>8 DEF LinearIInv, Linear!PoolExact, Linear!OneMachinePerQuery, Linear!Busy
<1>12. \A j \in Linear!Busy' : j # t => j \in Linear!Busy /\ linear_pool'[j] = linear_pool[j]
  BY <1>7, <1>8 DEF Linear!Busy
<1>13. Linear!CursorFollowsKey'
  <2>1. \A w : Linear!IsLeafId(w)' <=> Linear!IsLeafId(w)
    BY <1>2 DEF Linear!IsLeafId, Linear!Node
  <2> QED  BY <1>2, <1>5, <1>7, <1>12, <2>1 DEF LinearIInv, Linear!PoolExact, Linear!CursorFollowsKey
<1>14. LinearMachinesDealt'
  BY <1>1, <1>3, <1>4, <1>7, <1>12 DEF LinearIInv, LinearMachinesDealt
<1>15. Linear!DoneCountsAnswered' /\ LinearSettledRight' /\ LinearPhases'
  BY LinearCounts, <1>1, <1>2, <1>9
     DEF LinearIInv, Linear!PoolExact, Linear!DoneCountsAnswered, LinearSettledRight, LinearPhases
<1> QED  BY <1>9, <1>10, <1>11, <1>13, <1>14, <1>15 DEF LinearIInv, Linear!PoolExact

(* The machine visited is the one in the pool unless it was done.             *)
LEMMA LinearMachineFacts ==
  ASSUME LinearIInv, Linear!VisitCommon, Linear!Machine.state \notin {"INIT", "DONE"}
  PROVE  /\ Linear!Machine = linear_pool[Linear!Turn] /\ linear_next' = linear_next /\ Linear!Turn \in Linear!Busy
         /\ Linear!Machine.i \in 0 .. linear_next - 1 /\ Linear!Machine.i \in Linear!QueryIdx
         /\ Linear!Machine.v \in Linear!NodeIds(tree) /\ Linear!OnPath(Linear!Machine.i, Linear!Machine.v)
         /\ Linear!Machine.state = "SEARCH_LEAF" => Linear!IsLeafId(Linear!Machine.v)
<1>1. Linear!Machine = linear_pool[Linear!Turn] /\ linear_next' = linear_next /\ Linear!Turn \in Linear!PoolIdx
  BY LinearVisitFacts
<1>2. Linear!Turn \in Linear!Busy
  BY <1>1 DEF Linear!Busy
<1>3. Linear!Machine.i \in 0 .. linear_next - 1
  BY <1>1, <1>2 DEF LinearIInv, LinearMachinesDealt
<1>4. Linear!Machine.i \in Linear!QueryIdx
  BY <1>3, LinearVisitFacts DEF Linear!QueryIdx
<1> QED  BY <1>1, <1>2, <1>3, <1>4 DEF LinearIInv, Linear!PoolExact, Linear!CursorFollowsKey

LEMMA LinearVisitInitStep ==
  ASSUME LinearIInv, Linear!VisitInit
  PROVE  LinearIInv' /\ Linear!Settled' = Linear!Settled
<1>1. /\ Linear!VisitCommon /\ UNCHANGED <<Linear!outs, linear_done>> /\ Linear!Machine.state = "INIT"
      /\ Linear!Leave("SEARCH_INNER", tree.root)
  BY DEF Linear!VisitInit
<1>2. tree.root \in Linear!NodeIds(tree) /\ \A r \in Linear!QueryIdx : Linear!OnPath(r, tree.root)
  <2>1. Linear!WellFormed(tree) /\ \A r \in Linear!QueryIdx : Linear!KeyAt(r) \in Key
    BY LinearArgsFacts DEF LinearIInv, Linear!PoolExact, Linear!TypeOK
  <2>2. ~Linear!NothingToDo
    BY <1>1, LinearVisitFacts
  <2> QED  BY <2>1, <2>2 DEF Linear!WellFormed, Linear!OnPath, Linear!NothingToDo
<1> QED  BY <1>1, <1>2, LinearSearchGoesOn

LEMMA LinearVisitInnerStep ==
  ASSUME LinearIInv, Linear!VisitInner
  PROVE  LinearIInv' /\ Linear!Settled' = Linear!Settled
<1>1. /\ Linear!VisitCommon /\ UNCHANGED <<Linear!outs, linear_done>> /\ Linear!Machine.state = "SEARCH_INNER"
      /\ ~Linear!IsLeafId(Linear!Machine.v)
      /\ Linear!Leave("SEARCH_INNER", Linear!Child(Linear!Node(Linear!Machine.v), Linear!KeyAt(Linear!Machine.i)))
  BY DEF Linear!VisitInner
<1>2. /\ Linear!Machine.i \in Linear!QueryIdx /\ Linear!Machine.v \in Linear!NodeIds(tree) /\ Linear!OnPath(Linear!Machine.i, Linear!Machine.v)
  BY <1>1, LinearMachineFacts
<1>3. PICK q, w : q = Linear!Machine.i /\ w = Linear!Machine.v
  OBVIOUS
<1>4. PICK c : c = Linear!Child(Linear!Node(w), Linear!KeyAt(q))
  OBVIOUS
<1>5. c \in Linear!NodeIds(tree) /\ Linear!OnPath(q, c)
  <2>1. Linear!WellFormed(tree) /\ Linear!KeyAt(q) \in Key
    BY <1>2, <1>3, LinearArgsFacts DEF LinearIInv, Linear!PoolExact, Linear!TypeOK
  <2>2. ~Linear!isleafnode(tree.node[w]) /\ tree.lo[w] < Linear!KeyAt(q) /\ Linear!KeyAt(q) <= tree.hi[w]
    BY <1>1, <1>2, <1>3 DEF Linear!IsLeafId, Linear!Node, Linear!OnPath
  <2> QED  BY <1>2, <1>3, <1>4, <2>1, <2>2, LinearDescentStep DEF Linear!OnPath, Linear!Node
<1> QED  BY <1>1, <1>3, <1>4, <1>5, LinearSearchGoesOn

LEMMA LinearVisitReachedStep ==
  ASSUME LinearIInv, Linear!VisitReached
  PROVE  LinearIInv' /\ Linear!Settled' = Linear!Settled
<1>1. /\ Linear!VisitCommon /\ UNCHANGED <<Linear!outs, linear_done>> /\ Linear!Machine.state = "SEARCH_INNER"
      /\ Linear!IsLeafId(Linear!Machine.v) /\ Linear!Leave("SEARCH_LEAF", Linear!Machine.v)
  BY DEF Linear!VisitReached
<1> QED  BY <1>1, LinearMachineFacts, LinearSearchGoesOn

LEMMA LinearVisitLeafStep ==
  ASSUME LinearIInv, Linear!VisitLeaf
  PROVE  /\ LinearIInv' /\ Linear!QueryIdx' = Linear!QueryIdx
         /\ \E q \in Linear!QueryIdx \ Linear!Settled :
               /\ Linear!Settled' = Linear!Settled \cup {q}
               /\ \A r \in Linear!QueryIdx \ {q} : linear_found'[r] = linear_found[r] /\ linear_results'[r] = linear_results[r]
<1>1. /\ Linear!VisitCommon /\ Linear!Machine.state = "SEARCH_LEAF" /\ linear_done' = linear_done + 1
      /\ Linear!WriteAnswers([q \in {Linear!Machine.i} |-> Linear!Machine.v]) /\ Linear!Leave("DONE", Linear!Machine.v)
  BY DEF Linear!VisitLeaf
<1>2. PICK q, w, t : q = Linear!Machine.i /\ w = Linear!Machine.v /\ t = Linear!Turn
  OBVIOUS
<1>3. /\ t \in Linear!PoolIdx /\ UNCHANGED Linear!args /\ Linear!n \in Nat /\ linear_next \in 0 .. Linear!n
      /\ linear_pc = "loop" /\ linear_pc' = "loop" /\ ~Linear!NothingToDo /\ linear_k' \in 0 .. POOL_SIZE
  BY <1>1, <1>2, LinearVisitFacts
<1>4. /\ Linear!Machine = linear_pool[t] /\ linear_next' = linear_next /\ t \in Linear!Busy
      /\ q \in 0 .. linear_next - 1 /\ q \in Linear!QueryIdx
      /\ w \in Linear!NodeIds(tree) /\ Linear!OnPath(q, w) /\ Linear!IsLeafId(w)
  BY <1>1, <1>2, LinearMachineFacts
<1>5. q \in Linear!InFlight /\ q \notin Linear!Settled
  BY <1>2, <1>4 DEF Linear!InFlight, Linear!Settled
<1>6. PICK reached : reached = [x \in {q} |-> w]
  OBVIOUS
<1>7. /\ Linear!OutsTypeOK' /\ Linear!QueryIdx' = Linear!QueryIdx /\ Linear!RightAnswer(q)'
      /\ \A r \in Linear!QueryIdx \ {q} : linear_found'[r] = linear_found[r] /\ linear_results'[r] = linear_results[r]
  <2>1. DOMAIN reached = {q} /\ reached[q] = w /\ {q} \subseteq Linear!QueryIdx
    BY <1>4, <1>6
  <2>2. Linear!Unanswered(q)
    BY <1>4, <1>5 DEF LinearIInv, LinearSettledRight
  <2>3. \A x \in {q} : /\ reached[x] \in Linear!NodeIds(tree) /\ Linear!IsLeafId(reached[x])
                       /\ Linear!OnPath(x, reached[x]) /\ Linear!Unanswered(x)
    BY <1>4, <2>1, <2>2
  <2>4. Linear!WriteAnswers(reached)
    BY <1>1, <1>2, <1>6
  <2> QED  BY <1>3, <2>1, <2>3, <2>4, LinearLeavesGiveRightAnswers
              DEF LinearIInv, Linear!PoolExact, Linear!TypeOK
<1>8. tree' = tree /\ queries' = queries
  BY <1>3 DEF Linear!args
<1>9. linear_pool' = [linear_pool EXCEPT ![t] = [state |-> "DONE", i |-> q, v |-> w]]
  BY <1>1, <1>2 DEF Linear!Leave
<1>10. /\ \A j \in Linear!PoolIdx \ {t} : linear_pool'[j] = linear_pool[j]
       /\ linear_pool'[t] = [state |-> "DONE", i |-> q, v |-> w]
  BY <1>3, <1>9 DEF LinearIInv, Linear!PoolExact, Linear!TypeOK
<1>11. Linear!Busy' = Linear!Busy \ {t} /\ \A j \in Linear!Busy' : linear_pool'[j] = linear_pool[j]
  BY <1>3, <1>10 DEF Linear!Busy
<1>12. Linear!InFlight' = Linear!InFlight \ {q}
  <2>1. \A j \in Linear!Busy' : linear_pool[j].i # q
    BY <1>2, <1>4, <1>11 DEF LinearIInv, Linear!PoolExact, Linear!OneMachinePerQuery
  <2>2. \A j \in Linear!Busy : j \in Linear!Busy' \/ linear_pool[j].i = q
    BY <1>2, <1>4, <1>11
  <2> QED  BY <1>11, <2>1, <2>2 DEF Linear!InFlight
<1>13. Linear!Settled' = Linear!Settled \cup {q}
  BY <1>4, <1>12 DEF Linear!Settled
<1>14. Linear!Settled \subseteq Linear!QueryIdx /\ Linear!Settled' \subseteq Linear!QueryIdx
  BY <1>4, <1>13, LinearSettledFacts DEF LinearIInv, Linear!PoolExact
<1>15. linear_done' = Cardinality(Linear!Settled') /\ linear_done' \in 0 .. Linear!n
  <2>1. IsFiniteSet(Linear!Settled) /\ Cardinality(Linear!Settled \cup {q}) = Cardinality(Linear!Settled) + 1
    BY <1>5, <1>14, LinearPositionsFinite, FS_AddElement DEF LinearIInv, Linear!PoolExact, Linear!TypeOK
  <2>2. Cardinality(Linear!Settled \cup {q}) \in Nat /\ Cardinality(Linear!Settled \cup {q}) <= Linear!n
    BY <1>13, <1>14, LinearPositionsFinite DEF LinearIInv, Linear!PoolExact, Linear!TypeOK
  <2>3. linear_done = Cardinality(Linear!Settled)
    BY LinearCounts DEF LinearIInv, Linear!PoolExact, Linear!DoneCountsAnswered
  <2> QED  BY <1>1, <1>3, <1>13, <2>1, <2>2, <2>3
<1>16. /\ Linear!n' = Linear!n /\ Linear!NodeIds(tree)' = Linear!NodeIds(tree) /\ (Linear!NothingToDo' <=> Linear!NothingToDo)
       /\ \A r, v : Linear!OnPath(r, v)' <=> Linear!OnPath(r, v)
       /\ \A v : Linear!IsLeafId(v)' <=> Linear!IsLeafId(v)
  BY <1>8
     DEF Linear!n, Linear!NodeIds, Linear!NothingToDo, Linear!OnPath, Linear!KeyAt, Linear!IsLeafId,
         Linear!Node
<1>17. Linear!TypeOK'
  <2>1. linear_pool' \in [Linear!PoolIdx -> LinearMachineType]
    BY <1>4, <1>9 DEF LinearIInv, Linear!PoolExact, Linear!TypeOK, LinearMachineType
  <2> QED  BY <1>3, <1>4, <1>7, <1>15, <1>16, <2>1 DEF Linear!TypeOK, LinearMachineType
<1>18. Linear!OneMachinePerQuery' /\ LinearMachinesDealt' /\ Linear!CursorFollowsKey'
  <2>1. \A j \in Linear!Busy' : j \in Linear!Busy
    BY <1>11
  <2> QED  BY <1>4, <1>11, <1>16, <2>1
           DEF LinearIInv, Linear!PoolExact, Linear!OneMachinePerQuery, LinearMachinesDealt,
               Linear!CursorFollowsKey
<1>19. LinearSettledRight'
  <2>1. ASSUME NEW r \in Linear!QueryIdx, r # q
        PROVE  IF r \in Linear!Settled' THEN Linear!RightAnswer(r)' ELSE Linear!Unanswered(r)'
    <3>1. r \in Linear!Settled' <=> r \in Linear!Settled
      BY <1>13, <2>1
    <3>2. linear_found'[r] = linear_found[r] /\ linear_results'[r] = linear_results[r]
      BY <1>7, <2>1
    <3>3. Linear!Stored(tree)' = Linear!Stored(tree) /\ Linear!KeyAt(r)' = Linear!KeyAt(r)
      BY <1>8 DEF Linear!Stored, Linear!Leaves, Linear!NodeIds, Linear!Slots, Linear!isleafnode, Linear!KeyAt
    <3>4. Linear!Present(tree, Linear!KeyAt(r))' <=> Linear!Present(tree, Linear!KeyAt(r))
      BY <3>3 DEF Linear!Present
    <3>5. IF r \in Linear!Settled THEN Linear!RightAnswer(r) ELSE Linear!Unanswered(r)
      BY DEF LinearIInv, LinearSettledRight
    <3> QED  BY <3>1, <3>2, <3>3, <3>4, <3>5 DEF Linear!RightAnswer, Linear!Unanswered
  <2>2. q \in Linear!Settled' /\ Linear!RightAnswer(q)'
    BY <1>7, <1>13
  <2> QED  BY <1>7, <2>1, <2>2 DEF LinearSettledRight
<1>20. Linear!DoneCountsAnswered' /\ LinearPhases'
  BY LinearCounts, <1>3, <1>15, <1>16 DEF Linear!DoneCountsAnswered, LinearPhases
<1> QED  BY <1>4, <1>5, <1>7, <1>13, <1>17, <1>18, <1>19, <1>20 DEF LinearIInv, Linear!PoolExact

LEMMA LinearVisitDoneStep ==
  ASSUME LinearIInv, Linear!VisitDone
  PROVE  LinearIInv' /\ Linear!Settled' = Linear!Settled
<1>1. Linear!VisitCommon /\ Linear!Machine.state = "DONE" /\ UNCHANGED <<Linear!outs, linear_pool, linear_done>>
  BY DEF Linear!VisitDone
<1>2. /\ UNCHANGED Linear!args /\ linear_pc = "loop" /\ linear_pc' = "loop" /\ ~Linear!NothingToDo
      /\ linear_k' \in 0 .. POOL_SIZE /\ linear_next' = linear_next
  <2>1. ~Linear!Refill
    BY <1>1, LinearVisitFacts
  <2> QED  BY <1>1, <2>1, LinearVisitFacts
<1>3. LinearPhases'
  BY <1>1, <1>2, LinearQuiet DEF LinearPhases
<1> QED  BY <1>1, <1>2, <1>3, LinearQuiet DEF LinearIInv, Linear!PoolExact

LEMMA LinearLeaveLoopStep ==
  ASSUME LinearIInv, Linear!LeaveLoop
  PROVE  LinearIInv' /\ Linear!Settled' = Linear!Settled
<1>1. /\ UNCHANGED <<Linear!args, Linear!outs, linear_pool, linear_next, linear_done, linear_k>>
      /\ linear_pc = "loop" /\ linear_pc' = "returned" /\ ~(linear_done < Linear!n)
  BY DEF Linear!LeaveLoop
<1>2. Linear!n \in Nat /\ linear_done \in Nat /\ linear_k' \in 0 .. POOL_SIZE
  BY <1>1, LinearSettledFacts DEF LinearIInv, Linear!PoolExact, Linear!TypeOK
<1>3. LinearPhases'
  BY <1>1, <1>2, LinearQuiet DEF LinearPhases
<1> QED  BY <1>1, <1>2, <1>3, LinearQuiet DEF LinearIInv, Linear!PoolExact

LEMMA LinearStepIInv ==
  ASSUME LinearIInv, [Linear!Next]_(Linear!vars)
  PROVE  LinearIInv'
<1>1. CASE Linear!Start         BY <1>1, LinearStartStep
<1>2. CASE Linear!VisitInit     BY <1>2, LinearVisitInitStep
<1>3. CASE Linear!VisitInner    BY <1>3, LinearVisitInnerStep
<1>4. CASE Linear!VisitReached  BY <1>4, LinearVisitReachedStep
<1>5. CASE Linear!VisitLeaf     BY <1>5, LinearVisitLeafStep
<1>6. CASE Linear!VisitDone     BY <1>6, LinearVisitDoneStep
<1>7. CASE Linear!LeaveLoop     BY <1>7, LinearLeaveLoopStep
<1>8. CASE UNCHANGED Linear!vars
  <2>1. /\ UNCHANGED <<Linear!args, Linear!outs, linear_pool, linear_next, linear_done>>
        /\ UNCHANGED <<linear_pc, linear_k>>
    BY <1>8 DEF Linear!vars, Linear!args, Linear!outs
  <2>2. LinearPhases'
    BY <2>1, LinearQuiet DEF LinearIInv, LinearPhases
  <2>3. linear_pc' \in {"start", "loop", "returned"} /\ linear_k' \in 0 .. POOL_SIZE
    BY <2>1 DEF LinearIInv, Linear!PoolExact, Linear!TypeOK
  <2> QED  BY <2>1, <2>2, <2>3, LinearQuiet DEF LinearIInv, Linear!PoolExact
<1> QED  BY <1>1, <1>2, <1>3, <1>4, <1>5, <1>6, <1>7, <1>8 DEF Linear!Next, Linear!Visit, Linear!Returned

LEMMA LinearAllSettledAtReturn ==
  ASSUME LinearIInv, linear_done >= Linear!n
  PROVE  Linear!Settled = Linear!QueryIdx
<1>1. Linear!n \in Nat /\ Linear!Settled \subseteq Linear!QueryIdx
  BY LinearSettledFacts DEF LinearIInv, Linear!PoolExact
<1>2. Cardinality(Linear!Settled) \in Nat /\ Cardinality(Linear!Settled) <= Linear!n
  BY <1>1, LinearPositionsFinite DEF LinearIInv, Linear!PoolExact, Linear!TypeOK
<1>3. Cardinality(Linear!Settled) = Linear!n
  BY LinearCounts, <1>1, <1>2 DEF LinearIInv, Linear!PoolExact, Linear!DoneCountsAnswered
<1> QED  BY <1>1, <1>3, LinearPositionsFinite DEF LinearIInv, Linear!PoolExact, Linear!TypeOK

LEMMA LinearInitRefines ==
  ASSUME Linear!Init
  PROVE  Linear!Abstract!Init
<1>1. Linear!OutsTypeOK
  BY LinearInitIInv DEF LinearIInv, Linear!PoolExact, Linear!TypeOK
<1>2. Linear!Answered = {}
  BY DEF Linear!Init, Linear!Answered, Linear!Settled
<1> QED  BY <1>1, <1>2, LinearAbstractTypes
         DEF Linear!Init, Linear!ArgsAndOutsInit, Linear!Abstract!Init, Linear!Abstract!Positions,
             Linear!QueryIdx, Linear!n

LEMMA LinearStepRefines ==
  ASSUME LinearIInv, [Linear!Next]_(Linear!vars)
  PROVE  [Linear!Abstract!Next]_(Linear!Abstract!vars)
<1>1. LinearIInv'
  BY LinearStepIInv
<1>2. ASSUME UNCHANGED <<Linear!args, Linear!outs>>, Linear!Answered' = Linear!Answered
      PROVE  UNCHANGED Linear!Abstract!vars
  <2>1. tree' = tree /\ queries' = queries /\ linear_found' = linear_found /\ linear_results' = linear_results
    BY <1>2 DEF Linear!args, Linear!outs
  <2>2. Linear!Stored(tree)' = Linear!Stored(tree)
    BY <2>1 DEF Linear!Stored, Linear!Leaves, Linear!NodeIds, Linear!Slots, Linear!isleafnode
  <2> QED  BY <1>2, <2>1, <2>2 DEF Linear!Abstract!vars
<1>3. ASSUME UNCHANGED Linear!args, Linear!Answered \subseteq Linear!Answered', Linear!Answered' \subseteq Linear!QueryIdx,
             \A q \in Linear!Answered' \ Linear!Answered : Linear!RightAnswer(q)',
             \A q \in Linear!QueryIdx \ (Linear!Answered' \ Linear!Answered) :
                  linear_found'[q] = linear_found[q] /\ linear_results'[q] = linear_results[q],
             Linear!Answered # Linear!Answered'
      PROVE  Linear!Abstract!Answer
  <2>1. tree' = tree /\ queries' = queries
    BY <1>3 DEF Linear!args
  <2>2. Linear!Stored(tree)' = Linear!Stored(tree) /\ Linear!QueryIdx' = Linear!QueryIdx
    BY <2>1
       DEF Linear!Stored, Linear!Leaves, Linear!NodeIds, Linear!Slots, Linear!isleafnode,
           Linear!QueryIdx, Linear!n
  <2>3. Linear!Abstract!Positions = Linear!QueryIdx
    BY DEF Linear!Abstract!Positions, Linear!QueryIdx, Linear!n
  <2>4. ASSUME NEW q \in Linear!Answered' \ Linear!Answered PROVE Linear!Abstract!RightAnswer(q)'
    <3>1. Linear!RightAnswer(q)'
      BY <1>3
    <3> QED  BY <3>1
                DEF Linear!RightAnswer, Linear!Present, Linear!KeyAt, Linear!Abstract!RightAnswer,
                    Linear!Abstract!KeyAt
  <2>5. DOMAIN linear_found' = Linear!QueryIdx /\ DOMAIN linear_results' = Linear!QueryIdx
    BY <1>1, <2>2 DEF LinearIInv, Linear!PoolExact, Linear!TypeOK, Linear!OutsTypeOK
  <2> QED  BY <1>3, <2>1, <2>2, <2>3, <2>4, <2>5 DEF Linear!Abstract!Answer
<1>4. CASE Linear!Start
  <2>1. UNCHANGED <<Linear!args, Linear!outs>> /\ linear_pc = "start" /\ linear_pc' \in {"returned", "loop"}
    BY <1>4 DEF Linear!Start
  <2>2. Linear!Settled = {} /\ Linear!Answered = {} /\ Linear!Settled' = {}
    BY <1>4, <2>1, LinearStartStep DEF Linear!Answered
  <2>3. CASE Linear!NothingToDo
    <3>1. Linear!Answered' = Linear!QueryIdx /\ Linear!QueryIdx' = Linear!QueryIdx
      BY <1>4, <2>1, <2>3, LinearOutsUnchanged DEF Linear!Start, Linear!Answered
    <3>2. \A q \in Linear!QueryIdx : Linear!RightAnswer(q)'
      BY <2>1, <2>2, <2>3, LinearOutsUnchanged, LinearNothingToDoIsRight
         DEF LinearIInv, Linear!PoolExact, Linear!TypeOK, LinearSettledRight
    <3>3. linear_found' = linear_found /\ linear_results' = linear_results
      BY <2>1 DEF Linear!outs
    <3>4. CASE Linear!QueryIdx = {}
      BY <1>2, <2>1, <2>2, <3>1, <3>4
    <3>5. CASE Linear!QueryIdx # {}
      BY <1>3, <2>1, <2>2, <3>1, <3>2, <3>3, <3>5 DEF Linear!Abstract!Next
    <3> QED  BY <3>4, <3>5
  <2>4. CASE ~Linear!NothingToDo
    <3>1. linear_pc' = "loop"
      BY <1>4, <2>4 DEF Linear!Start
    <3> QED  BY <1>2, <2>1, <2>2, <3>1 DEF Linear!Answered
  <2> QED  BY <2>3, <2>4
<1>5. CASE Linear!VisitInit \/ Linear!VisitInner \/ Linear!VisitReached \/ Linear!VisitDone
  <2>1. UNCHANGED <<Linear!args, Linear!outs>> /\ Linear!VisitCommon
    BY <1>5 DEF Linear!VisitInit, Linear!VisitInner, Linear!VisitReached, Linear!VisitDone, Linear!VisitCommon
  <2>2. linear_pc = "loop" /\ linear_pc' = "loop"
    BY <2>1, LinearVisitFacts
  <2>3. Linear!Settled' = Linear!Settled
    BY <1>5, LinearVisitInitStep, LinearVisitInnerStep, LinearVisitReachedStep, LinearVisitDoneStep
  <2> QED  BY <1>2, <2>1, <2>2, <2>3 DEF Linear!Answered
<1>6. CASE Linear!LeaveLoop
  <2>1. /\ UNCHANGED <<Linear!args, Linear!outs>> /\ linear_pc = "loop" /\ linear_pc' = "returned" /\ ~(linear_done < Linear!n)
        /\ Linear!QueryIdx' = Linear!QueryIdx
    BY <1>6, LinearOutsUnchanged DEF Linear!LeaveLoop
  <2>2. Linear!n \in Nat /\ linear_done \in Nat
    BY LinearSettledFacts DEF LinearIInv, Linear!PoolExact, Linear!TypeOK
  <2>3. Linear!Settled = Linear!QueryIdx
    BY <2>1, <2>2, LinearAllSettledAtReturn
  <2> QED  BY <1>2, <2>1, <2>3 DEF Linear!Answered
<1>7. CASE Linear!VisitLeaf
  <2>1. UNCHANGED Linear!args /\ linear_pc = "loop" /\ linear_pc' = "loop"
    BY <1>7, LinearVisitFacts DEF Linear!VisitLeaf
  <2>2. PICK q \in Linear!QueryIdx \ Linear!Settled :
           /\ Linear!Settled' = Linear!Settled \cup {q}
           /\ \A r \in Linear!QueryIdx \ {q} : linear_found'[r] = linear_found[r] /\ linear_results'[r] = linear_results[r]
    BY <1>7, LinearVisitLeafStep
  <2>3. Linear!Answered = Linear!Settled /\ Linear!Answered' = Linear!Settled \cup {q}
    BY <2>1, <2>2 DEF Linear!Answered
  <2>4. Linear!Settled' \subseteq Linear!QueryIdx /\ Linear!QueryIdx' = Linear!QueryIdx
    BY <1>7, <2>2, LinearVisitLeafStep, LinearSettledFacts DEF LinearIInv, Linear!PoolExact
  <2>5. Linear!RightAnswer(q)'
    BY <1>1, <2>2, <2>4 DEF LinearIInv, LinearSettledRight
  <2>6. Linear!Answered' \ Linear!Answered = {q}
    BY <2>2, <2>3
  <2>7. Linear!Abstract!Answer
    BY <1>3, <2>1, <2>2, <2>3, <2>4, <2>5, <2>6
  <2> QED  BY <2>7 DEF Linear!Abstract!Next
<1>8. CASE UNCHANGED Linear!vars
  <2>1. UNCHANGED <<Linear!args, Linear!outs, linear_pool, linear_next, linear_done>> /\ UNCHANGED <<linear_pc>>
    BY <1>8 DEF Linear!vars, Linear!args, Linear!outs
  <2>2. Linear!n' = Linear!n /\ Linear!Settled' = Linear!Settled
    BY <2>1, LinearQuiet
  <2>3. Linear!Answered' = Linear!Answered
    BY <2>1, <2>2 DEF Linear!Answered, Linear!QueryIdx
  <2> QED  BY <1>2, <2>1, <2>3
<1> QED  BY <1>4, <1>5, <1>6, <1>7, <1>8 DEF Linear!Next, Linear!Visit, Linear!Returned

-----------------------------------------------------------------------------
(* find_spp: the operators and the lemmas it has from the lookup.          *)

LEMMA RingSameTrees ==
  \A t : /\ Find!WellFormed(t) <=> WellFormed(t)
         /\ Find!NodeIds(t) = NodeIds(t)
         /\ Find!Stored(t) = Stored(t)
BY DEF Find!WellFormed, WellFormed, Find!NodeOK, NodeOK, Find!ChildrenOK, ChildrenOK,
       Find!LeafOwns, LeafOwns, Find!Sorted, Sorted, Find!Slots, Slots,
       Find!isleafnode, isleafnode, Find!NodeIds, NodeIds,
       Find!Stored, Stored, Find!Leaves, Leaves

LEMMA RingSameChild ==
  \A nd, key : /\ Find!Child(nd, key) = Child(nd, key)
               /\ Find!isleafnode(nd) <=> isleafnode(nd)
BY DEF Find!Child, Child, Find!find_lower, find_lower,
       Find!IsLowerBound, IsLowerBound, Find!isleafnode, isleafnode

LEMMA RingSame ==
  /\ \A t : Find!WellFormed(t) <=> Lookup!WellFormed(t)
  /\ Find!n = Lookup!n /\ Find!QueryIdx = Lookup!QueryIdx
  /\ Find!args = Lookup!args /\ Find!outs = Lookup!outs
  /\ Find!n' = Lookup!n' /\ Find!QueryIdx' = Lookup!QueryIdx'
  /\ Find!args' = Lookup!args' /\ Find!outs' = Lookup!outs'
  /\ Find!NodeIds(tree) = Lookup!NodeIds(tree) /\ Find!NodeIds(tree)' = Lookup!NodeIds(tree)'
  /\ Find!Stored(tree) = Lookup!Stored(tree)
  /\ Find!OutsTypeOK <=> Lookup!OutsTypeOK
  /\ Find!OutsTypeOK' <=> Lookup!OutsTypeOK'
  /\ Find!NothingToDo <=> Lookup!NothingToDo
  /\ Find!NothingToDo' <=> Lookup!NothingToDo'
  /\ \A q : /\ Find!RightAnswer(q) <=> Lookup!RightAnswer(q)
            /\ Find!RightAnswer(q)' <=> Lookup!RightAnswer(q)'
            /\ Find!Unanswered(q) <=> Lookup!Unanswered(q)
            /\ Find!Unanswered(q)' <=> Lookup!Unanswered(q)'
            /\ Find!KeyAt(q) = Lookup!KeyAt(q)
            /\ Find!KeyAt(q)' = Lookup!KeyAt(q)'
  /\ \A q, v : /\ Find!OnPath(q, v) <=> Lookup!OnPath(q, v)
               /\ Find!OnPath(q, v)' <=> Lookup!OnPath(q, v)'
               /\ Find!IsLeafId(v) <=> Lookup!IsLeafId(v)
  /\ \A reached : Find!WriteAnswers(reached) <=> Lookup!WriteAnswers(reached)
<1>1. \A t : Find!WellFormed(t) <=> Lookup!WellFormed(t)
  BY RingSameTrees, LookupSameTrees
<1>2. \A reached : Find!WriteAnswers(reached) <=> Lookup!WriteAnswers(reached)
  BY DEF Find!WriteAnswers, Lookup!WriteAnswers, Find!Hit, Lookup!Hit, Find!Data, Lookup!Data,
         Find!find_lower, Lookup!find_lower, Find!IsLowerBound, Lookup!IsLowerBound,
         Find!KeyAt, Lookup!KeyAt, Find!QueryIdx, Lookup!QueryIdx, Find!n, Lookup!n,
         Find!Node, Lookup!Node
<1> QED
  BY <1>1, <1>2
  DEF Find!OutsTypeOK, Lookup!OutsTypeOK, Find!n, Lookup!n, Find!QueryIdx, Lookup!QueryIdx,
      Find!RightAnswer, Lookup!RightAnswer, Find!Present, Lookup!Present,
      Find!Stored, Lookup!Stored, Find!Leaves, Lookup!Leaves, Find!KeyAt, Lookup!KeyAt,
      Find!NodeIds, Lookup!NodeIds, Find!Slots, Lookup!Slots, Find!isleafnode, Lookup!isleafnode,
      Find!args, Lookup!args, Find!outs, Lookup!outs, Find!NothingToDo, Lookup!NothingToDo,
      Find!Unanswered, Lookup!Unanswered, Find!OnPath, Lookup!OnPath,
      Find!IsLeafId, Lookup!IsLeafId, Find!Node, Lookup!Node

LEMMA RingCounts == \A S : Find!Cardinality(S) = Cardinality(S)
BY DEF Find!Cardinality, Cardinality

LEMMA RingArgsFacts ==
  ASSUME Find!OutsTypeOK
  PROVE  /\ Find!WellFormed(tree)
         /\ Find!n \in Nat
         /\ \A q \in Find!QueryIdx : Find!KeyAt(q) \in Key
BY RingSame, LookupSameTrees, Lookup!ArgsFacts, KeyAssumption, TreesAssumption, BatchesAssumption,
   StaleAssumption

LEMMA RingPositionsFinite ==
  ASSUME Find!OutsTypeOK, NEW S, S \subseteq Find!QueryIdx
  PROVE  /\ IsFiniteSet(S)
         /\ Cardinality(S) \in Nat
         /\ Cardinality(S) <= Find!n
         /\ Cardinality(S) = Find!n => S = Find!QueryIdx
BY RingSame, LookupSameTrees, LookupCounts, Lookup!PositionsFinite, KeyAssumption, TreesAssumption,
   BatchesAssumption, StaleAssumption

LEMMA RingLeavesAnswer ==
  ASSUME Find!OutsTypeOK, NEW Qs, Qs \subseteq Find!QueryIdx, NEW reached, DOMAIN reached = Qs,
         \A q \in Qs : /\ reached[q] \in Find!NodeIds(tree) /\ Find!IsLeafId(reached[q])
                       /\ Find!OnPath(q, reached[q]) /\ linear_results[q] = Stale,
         Find!WriteAnswers(reached), UNCHANGED Find!args
  PROVE  /\ Find!OutsTypeOK'
         /\ Find!QueryIdx' = Find!QueryIdx
         /\ \A q \in Qs : Find!RightAnswer(q)'
         /\ \A q \in Find!QueryIdx \ Qs : linear_found'[q] = linear_found[q] /\ linear_results'[q] = linear_results[q]
BY RingSame, LookupSameTrees, Lookup!LeavesAnswer, KeyAssumption, TreesAssumption, BatchesAssumption,
   StaleAssumption

LEMMA RingOutsUnchanged ==
  ASSUME UNCHANGED <<Find!args, Find!outs>>
  PROVE  /\ Find!n' = Find!n /\ Find!QueryIdx' = Find!QueryIdx /\ Find!NodeIds(tree)' = Find!NodeIds(tree)
         /\ (Find!NothingToDo' <=> Find!NothingToDo)
         /\ (Find!OutsTypeOK => Find!OutsTypeOK')
         /\ \A q : /\ Find!RightAnswer(q)' <=> Find!RightAnswer(q)
                   /\ Find!Unanswered(q)' <=> Find!Unanswered(q)
                   /\ Find!KeyAt(q)' = Find!KeyAt(q)
         /\ \A q, v : Find!OnPath(q, v)' <=> Find!OnPath(q, v)
BY RingSame, LookupSameTrees, Lookup!OutsUnchanged, KeyAssumption, TreesAssumption, BatchesAssumption,
   StaleAssumption

LEMMA RingDescentStep ==
  ASSUME NEW t, Find!WellFormed(t), NEW v \in Find!NodeIds(t), ~Find!isleafnode(t.node[v]),
         NEW key \in Key, t.lo[v] < key, key <= t.hi[v]
  PROVE  LET c == Find!Child(t.node[v], key)
         IN  /\ c \in Find!NodeIds(t)
             /\ t.node[c].level + 1 = t.node[v].level
             /\ t.lo[c] < key
             /\ key <= t.hi[c]
BY RingSameTrees, RingSameChild, DescentStep, KeyAssumption

-----------------------------------------------------------------------------
(* The inductive invariant of find_spp.                                    *)

(* A query nothing was written for yet is as it was passed in. *)
RingUntouched(q) == linear_found[q] = before /\ linear_results[q] = Stale

(* The settled queries have the right answers, whatever the order they were given in. *)
RingAnswers == \A q \in Find!QueryIdx : IF q \in Find!Settled THEN Find!RightAnswer(q) ELSE RingUntouched(q)

(* An active slot carries a query that was dealt, at a node of the tree. *)
RingSlotsDealt == \A s \in Find!Busy : ring[s].key_idx \in 0 .. linear_next - 1 /\ ring[s].curr_node \in Find!NodeIds(tree)

(* Before the call nothing has happened; the sweeps have a tree to search. *)
RingPhases ==
  /\ linear_pc = "start" => linear_next = 0 /\ Find!Busy = {}
  /\ linear_pc \in {"loop", "visit"} => ~Find!NothingToDo
  /\ linear_pc = "visit" => linear_k < POOL_SIZE

RingIInv == Find!RingExact /\ RingSlotsDealt /\ RingPhases

RingSlotType == [curr_node : Find!NodeIds(tree) \cup {NULL}, key_idx : Find!QueryIdx \cup {Find!NoQuery}, is_active : BOOLEAN]

(* The invariant in the form the steps use it. *)
LEMMA RingIInvFacts ==
  ASSUME RingIInv
  PROVE  /\ Find!OutsTypeOK /\ before \in BOOLEAN /\ RingAnswers
         /\ linear_pc \in {"start", "loop", "visit", "returned"}
         /\ ring \in [Find!Slot -> RingSlotType]
         /\ Find!n \in Nat /\ linear_next \in 0 .. Find!n /\ linear_k \in 0 .. POOL_SIZE
         /\ Find!Settled \subseteq Find!QueryIdx
         /\ linear_done = Cardinality(Find!Settled) /\ linear_done \in Nat
         /\ \A s \in Find!Busy : /\ s \in Find!Slot
                                 /\ ring[s].key_idx \in Find!QueryIdx
                                 /\ ring[s].key_idx \in 0 .. linear_next - 1
                                 /\ ring[s].curr_node \in Find!NodeIds(tree)
                                 /\ Find!OnPath(ring[s].key_idx, ring[s].curr_node)
                                 /\ \A t \in Find!Busy : s # t => ring[s].key_idx # ring[t].key_idx
<1>1. /\ Find!OutsTypeOK /\ before \in BOOLEAN /\ linear_pc \in {"start", "loop", "visit", "returned"}
      /\ ring \in [Find!Slot -> RingSlotType]
      /\ linear_next \in 0 .. Find!n /\ linear_k \in 0 .. POOL_SIZE
  BY DEF RingIInv, Find!RingExact, Find!RingTypeOK, Find!CallTypeOK, RingSlotType
<1>2. Find!n \in Nat
  BY <1>1, RingArgsFacts
<1>3. Find!Settled \subseteq Find!QueryIdx
  BY <1>1, <1>2 DEF Find!Settled, Find!QueryIdx
<1>4. linear_done = Cardinality(Find!Settled)
  BY RingCounts DEF RingIInv, Find!RingExact
<1>5. linear_done \in Nat
  BY <1>1, <1>3, <1>4, RingPositionsFinite
<1>6. ASSUME NEW s \in Find!Busy
      PROVE  /\ s \in Find!Slot
             /\ ring[s].key_idx \in Find!QueryIdx
             /\ ring[s].key_idx \in 0 .. linear_next - 1
             /\ ring[s].curr_node \in Find!NodeIds(tree)
             /\ Find!OnPath(ring[s].key_idx, ring[s].curr_node)
             /\ \A t \in Find!Busy : s # t => ring[s].key_idx # ring[t].key_idx
  <2>1. ring[s].key_idx \in 0 .. linear_next - 1 /\ ring[s].curr_node \in Find!NodeIds(tree)
    BY DEF RingIInv, RingSlotsDealt
  <2>2. ring[s].key_idx \in Find!QueryIdx
    BY <1>1, <1>2, <2>1 DEF Find!QueryIdx
  <2>3. /\ Find!OnPath(ring[s].key_idx, ring[s].curr_node)
        /\ \A t \in Find!Busy : s # t => ring[s].key_idx # ring[t].key_idx
    BY DEF RingIInv, Find!RingExact
  <2>4. s \in Find!Slot
    BY DEF Find!Busy
  <2> QED  BY <2>1, <2>2, <2>3, <2>4
<1>7. RingAnswers
  BY DEF RingIInv, Find!RingExact, RingAnswers, RingUntouched
<1> QED  BY <1>1, <1>2, <1>3, <1>4, <1>5, <1>6, <1>7

(* The same facts are what has to be shown of the next state. *)
(* The same for the next state: what a step has to establish. *)
LEMMA RingNextIInv ==
  ASSUME Find!OutsTypeOK', before' \in BOOLEAN, RingAnswers',
         linear_pc' \in {"start", "loop", "visit", "returned"},
         ring' \in [Find!Slot -> RingSlotType'], linear_next' \in 0 .. Find!n', linear_k' \in 0 .. POOL_SIZE,
         linear_done' = Cardinality(Find!Settled'),
         \A s \in Find!Busy' : /\ ring'[s].key_idx \in 0 .. linear_next' - 1
                               /\ ring'[s].curr_node \in Find!NodeIds(tree)'
                               /\ Find!OnPath(ring[s].key_idx, ring[s].curr_node)'
                               /\ \A t \in Find!Busy' : s # t => ring'[s].key_idx # ring'[t].key_idx,
         linear_pc' = "returned" /\ tree'.root # NULL => Find!Settled' = Find!QueryIdx',
         RingPhases'
  PROVE  RingIInv'
<1>1. Find!RingTypeOK'
  BY DEF Find!RingTypeOK, Find!CallTypeOK, RingSlotType
<1>2. RingSlotsDealt'
  BY DEF RingSlotsDealt
<1>3. \A q \in Find!QueryIdx' : IF q \in Find!Settled' THEN Find!RightAnswer(q)'
                                ELSE linear_found'[q] = before' /\ linear_results'[q] = Stale
  BY DEF RingAnswers, RingUntouched
<1>4. Find!RingExact'
  BY RingCounts, <1>1, <1>3 DEF Find!RingExact
<1> QED  BY <1>2, <1>4 DEF RingIInv

LEMMA RingInitIInv ==
  ASSUME Find!RingInit
  PROVE  RingIInv
<1>1. Find!OutsTypeOK /\ before \in BOOLEAN
  BY DEF Find!RingInit, Find!CallInit, Find!OutsTypeOK
<1>2. Find!n \in Nat
  BY <1>1, RingArgsFacts
<1>3. Find!Busy = {} /\ Find!InFlight = {} /\ Find!Settled = {}
  BY DEF Find!RingInit, Find!Busy, Find!InFlight, Find!Settled
<1>4. Find!RingTypeOK
  BY <1>1, <1>2, PoolAssumption
     DEF Find!RingInit, Find!CallInit, Find!RingTypeOK, Find!CallTypeOK, Find!Slot, Find!NoQuery
<1>5. linear_done = Cardinality(Find!Settled)
  BY <1>3, FS_EmptySet DEF Find!RingInit
<1>6. Find!RingExact
  BY RingCounts, <1>3, <1>4, <1>5 DEF Find!RingExact, Find!RingInit, Find!CallInit
<1>7. RingSlotsDealt /\ RingPhases
  BY <1>3 DEF RingSlotsDealt, RingPhases, Find!RingInit, Find!CallInit
<1> QED  BY <1>6, <1>7 DEF RingIInv

LEMMA RingQuiet ==
  ASSUME RingIInv, UNCHANGED <<Find!args, Find!outs, before, ring, linear_next, linear_done>>,
         linear_pc' \in {"start", "loop", "visit", "returned"}, linear_k' \in 0 .. POOL_SIZE,
         linear_pc' = "returned" /\ tree.root # NULL => Find!Settled = Find!QueryIdx,
         Find!Busy' = Find!Busy => RingPhases'
  PROVE  RingIInv'
<1>1. /\ Find!n' = Find!n /\ Find!QueryIdx' = Find!QueryIdx /\ Find!NodeIds(tree)' = Find!NodeIds(tree)
      /\ (Find!NothingToDo' <=> Find!NothingToDo) /\ Find!OutsTypeOK' /\ tree' = tree
      /\ \A q : (Find!RightAnswer(q)' <=> Find!RightAnswer(q)) /\ (Find!Unanswered(q)' <=> Find!Unanswered(q))
      /\ \A q, v : Find!OnPath(q, v)' <=> Find!OnPath(q, v)
  BY RingOutsUnchanged, RingIInvFacts DEF Find!args
<1>2. Find!Busy' = Find!Busy /\ Find!InFlight' = Find!InFlight /\ Find!Settled' = Find!Settled
  BY DEF Find!Busy, Find!InFlight, Find!Settled
<1>3. RingAnswers'
  <2>1. linear_found' = linear_found /\ linear_results' = linear_results /\ before' = before
    BY DEF Find!outs
  <2> QED  BY <1>1, <1>2, <2>1, RingIInvFacts DEF RingAnswers, RingUntouched
<1>4. RingSlotType' = RingSlotType
  BY <1>1 DEF RingSlotType
<1> QED  BY <1>1, <1>2, <1>3, <1>4, RingIInvFacts, RingNextIInv

LEMMA RingStartStep ==
  ASSUME RingIInv, Find!RingStart
  PROVE  RingIInv'
<1>1. UNCHANGED <<Find!args, Find!outs, before, linear_done, linear_k>> /\ linear_pc = "start"
  BY DEF Find!RingStart, Find!EarlyReturn
<1>2. /\ Find!n' = Find!n /\ Find!QueryIdx' = Find!QueryIdx /\ Find!NodeIds(tree)' = Find!NodeIds(tree)
      /\ (Find!NothingToDo' <=> Find!NothingToDo) /\ Find!OutsTypeOK' /\ tree' = tree
      /\ \A q : (Find!RightAnswer(q)' <=> Find!RightAnswer(q)) /\ (Find!Unanswered(q)' <=> Find!Unanswered(q))
      /\ \A q, v : Find!OnPath(q, v)' <=> Find!OnPath(q, v)
  BY <1>1, RingOutsUnchanged, RingIInvFacts DEF Find!args
<1>3. Find!n \in Nat /\ linear_next = 0 /\ Find!Busy = {} /\ Find!Settled = {}
  BY <1>1, RingIInvFacts DEF RingIInv, RingPhases, Find!Settled
<1>4. CASE Find!NothingToDo
  <2>1. linear_pc' = "returned" /\ UNCHANGED <<ring, linear_next>>
    BY <1>4 DEF Find!RingStart, Find!EarlyReturn
  <2>2. tree.root # NULL => Find!Settled = Find!QueryIdx
    BY <1>3, <1>4 DEF Find!NothingToDo, Find!QueryIdx
  <2> QED  BY <1>1, <2>1, <2>2, RingIInvFacts, RingQuiet DEF RingPhases
<1>5. CASE ~Find!NothingToDo
  <2> DEFINE m == Find!Min2(POOL_SIZE, Find!n)
  <2>1. /\ linear_pc' = "loop"
        /\ ring' = [s \in Find!Slot |-> Find!Filled(s, s)]
        /\ linear_next' = m
    BY <1>5 DEF Find!RingStart, Find!EarlyReturn
  <2>2. m \in 0 .. Find!n /\ m <= POOL_SIZE /\ (\A s \in Find!Slot : s < Find!n <=> s \in 0 .. m - 1) /\ 0 .. m - 1 \subseteq Find!Slot
    BY <1>3, PoolAssumption DEF Find!Min2, Find!Slot
  <2>3. \A s \in Find!Slot : ring[s] \in RingSlotType /\ ring[s].is_active = FALSE
    BY <1>3, RingIInvFacts DEF Find!Busy, RingSlotType
  <2>4. tree.root \in Find!NodeIds(tree) /\ \A q \in Find!QueryIdx : Find!OnPath(q, tree.root)
    <3>1. Find!WellFormed(tree) /\ \A r \in Find!QueryIdx : Find!KeyAt(r) \in Key
      BY RingIInvFacts, RingArgsFacts
    <3> QED  BY <1>5, <3>1 DEF Find!WellFormed, Find!OnPath, Find!NothingToDo
  <2>5. ASSUME NEW s \in Find!Slot
        PROVE  /\ ring'[s] \in RingSlotType
               /\ s < Find!n => /\ ring'[s].is_active /\ ring'[s].key_idx = s
                                /\ ring'[s].curr_node = tree.root
               /\ ~(s < Find!n) => ~ring'[s].is_active
    <3>1. ring'[s] = Find!Filled(s, s) /\ s \in Nat
      BY <2>1, PoolAssumption DEF Find!Slot
    <3>2. CASE s < Find!n
      <4>1. ring'[s] = [curr_node |-> tree.root, key_idx |-> s, is_active |-> TRUE]
        BY <3>1, <3>2 DEF Find!Filled
      <4> QED  BY <1>3, <2>4, <3>1, <3>2, <4>1 DEF RingSlotType, Find!QueryIdx
    <3>3. CASE ~(s < Find!n)
      <4>1. ring'[s] = [ring[s] EXCEPT !.is_active = FALSE]
        BY <3>1, <3>3 DEF Find!Filled
      <4> QED  BY <2>3, <3>3, <4>1 DEF RingSlotType
    <3> QED  BY <3>2, <3>3
  <2>6. Find!Busy' = 0 .. m - 1 /\ \A s \in Find!Busy' : s \in Find!Slot /\ s < Find!n
    BY <2>2, <2>5 DEF Find!Busy
  <2>7. Find!InFlight' = 0 .. m - 1
    BY <2>5, <2>6 DEF Find!InFlight
  <2>8. Find!Settled' = {}
    BY <2>1, <2>7 DEF Find!Settled
  <2>9. RingAnswers'
    <3>1. linear_found' = linear_found /\ linear_results' = linear_results /\ before' = before
      BY <1>1 DEF Find!outs
    <3> QED  BY <1>2, <1>3, <2>8, <3>1, RingIInvFacts DEF RingAnswers, RingUntouched
  <2>10. RingPhases'
    BY <1>2, <1>5, <2>1 DEF RingPhases
  <2>11. ring' \in [Find!Slot -> RingSlotType'] /\ RingSlotType' = RingSlotType
    BY <1>2, <2>1, <2>5 DEF RingSlotType
  <2>12. linear_done' = Cardinality(Find!Settled')
    BY <1>1, <1>3, <2>8, RingIInvFacts
  <2>13. \A s \in Find!Busy' : /\ ring'[s].key_idx \in 0 .. linear_next' - 1
                               /\ ring'[s].curr_node \in Find!NodeIds(tree)'
                               /\ Find!OnPath(ring[s].key_idx, ring[s].curr_node)'
                               /\ \A t \in Find!Busy' : s # t => ring'[s].key_idx # ring'[t].key_idx
    <3>1. ASSUME NEW s \in Find!Busy'
          PROVE  /\ s \in 0 .. m - 1 /\ s \in Find!QueryIdx
                 /\ ring'[s].key_idx = s /\ ring'[s].curr_node = tree.root
      BY <1>3, <2>2, <2>5, <2>6 DEF Find!QueryIdx
    <3>2. ASSUME NEW s \in Find!Busy' PROVE Find!OnPath(ring[s].key_idx, ring[s].curr_node)'
      BY <1>2, <2>4, <3>1 DEF Find!OnPath, Find!KeyAt, Find!args
    <3> QED  BY <1>2, <2>1, <2>4, <3>1, <3>2
  <2> QED  BY <1>1, <1>2, <2>1, <2>2, <2>9, <2>10, <2>11, <2>12, <2>13, RingIInvFacts, RingNextIInv
<1> QED  BY <1>4, <1>5

LEMMA RingAllSettled ==
  ASSUME RingIInv, linear_done >= Find!n
  PROVE  Find!Settled = Find!QueryIdx
<1>1. Cardinality(Find!Settled) <= Find!n /\ Cardinality(Find!Settled) = linear_done /\ Find!n \in Nat /\ linear_done \in Nat
  BY RingIInvFacts, RingPositionsFinite
<1> QED  BY <1>1, RingIInvFacts, RingPositionsFinite

LEMMA RingSweepStep ==
  ASSUME RingIInv, Find!Sweep
  PROVE  RingIInv'
<1>1. /\ UNCHANGED <<Find!args, Find!outs, ring, linear_next, linear_done, before>>
      /\ linear_pc = "loop" /\ linear_k' = 0 /\ linear_pc' = IF linear_done < Find!n THEN "visit" ELSE "returned"
  BY DEF Find!Sweep
<1>2. Find!n \in Nat /\ linear_done \in Nat /\ linear_k' \in 0 .. POOL_SIZE /\ linear_k' < POOL_SIZE
  BY <1>1, RingIInvFacts, PoolAssumption
<1>3. linear_pc' = "returned" => Find!Settled = Find!QueryIdx
  BY <1>1, <1>2, RingAllSettled
<1>4. Find!NothingToDo' <=> Find!NothingToDo
  BY <1>1, RingOutsUnchanged
<1>5. RingPhases'
  BY <1>1, <1>2, <1>4 DEF RingIInv, RingPhases
<1> QED  BY <1>1, <1>2, <1>3, <1>5, RingQuiet

LEMMA RingVisitFacts ==
  ASSUME RingIInv, Find!Visit
  PROVE  /\ linear_k \in Find!Slot /\ UNCHANGED <<Find!args, before>> /\ ~Find!NothingToDo
         /\ linear_pc' \in {"loop", "visit"} /\ linear_k' \in 0 .. POOL_SIZE
         /\ (linear_pc' = "visit" => linear_k' < POOL_SIZE)
<1>1. /\ linear_pc = "visit" /\ linear_k' = linear_k + 1 /\ linear_pc' = IF linear_k + 1 = POOL_SIZE THEN "loop" ELSE "visit"
      /\ UNCHANGED <<Find!args, before>>
  BY DEF Find!Visit
<1>2. linear_k \in 0 .. POOL_SIZE /\ linear_k < POOL_SIZE /\ ~Find!NothingToDo
  BY <1>1, RingIInvFacts DEF RingIInv, RingPhases
<1> QED  BY <1>1, <1>2, PoolAssumption DEF Find!Slot

LEMMA RingVisitIdleStep ==
  ASSUME RingIInv, Find!VisitIdle
  PROVE  RingIInv'
<1>1. Find!Visit /\ UNCHANGED <<Find!outs, ring, linear_next, linear_done>>
  BY DEF Find!VisitIdle
<1>2. Find!NothingToDo' <=> Find!NothingToDo
  BY <1>1, RingVisitFacts, RingOutsUnchanged
<1>3. RingPhases'
  BY <1>1, <1>2, RingVisitFacts DEF RingPhases
<1> QED  BY <1>1, <1>3, RingVisitFacts, RingQuiet

LEMMA RingVisitInnerStep ==
  ASSUME RingIInv, Find!VisitInner
  PROVE  RingIInv'
<1>1. /\ Find!Visit /\ UNCHANGED <<Find!outs, linear_next, linear_done>>
      /\ ring[linear_k].is_active /\ ~Find!IsLeafId(ring[linear_k].curr_node)
  BY DEF Find!VisitInner
<1>2. PICK q, v, t : q = ring[linear_k].key_idx /\ v = ring[linear_k].curr_node /\ t = linear_k
  OBVIOUS
<1>3. PICK c : c = Find!Child(Find!Node(v), Find!KeyAt(q))
  OBVIOUS
<1>4. ring' = [ring EXCEPT ![t].curr_node = c]
  BY <1>2, <1>3 DEF Find!VisitInner
<1>5. t \in Find!Slot /\ t \in Find!Busy /\ UNCHANGED <<Find!args, before>> /\ ring[t] \in RingSlotType
  BY <1>1, <1>2, RingVisitFacts, RingIInvFacts DEF Find!Busy
<1>6. q \in Find!QueryIdx /\ v \in Find!NodeIds(tree) /\ Find!OnPath(q, v)
  BY <1>2, <1>5, RingIInvFacts
<1>7. c \in Find!NodeIds(tree) /\ Find!OnPath(q, c)
  <2>1. Find!WellFormed(tree) /\ Find!KeyAt(q) \in Key
    BY <1>6, RingIInvFacts, RingArgsFacts
  <2>2. ~Find!isleafnode(tree.node[v]) /\ tree.lo[v] < Find!KeyAt(q) /\ Find!KeyAt(q) <= tree.hi[v]
    BY <1>1, <1>2, <1>6 DEF Find!IsLeafId, Find!Node, Find!OnPath
  <2> QED  BY <1>3, <1>6, <2>1, <2>2, RingDescentStep DEF Find!OnPath, Find!Node
<1>8. /\ Find!n' = Find!n /\ Find!QueryIdx' = Find!QueryIdx /\ Find!NodeIds(tree)' = Find!NodeIds(tree)
      /\ (Find!NothingToDo' <=> Find!NothingToDo) /\ Find!OutsTypeOK' /\ tree' = tree
      /\ \A r : (Find!RightAnswer(r)' <=> Find!RightAnswer(r)) /\ (Find!Unanswered(r)' <=> Find!Unanswered(r))
      /\ \A r, w : Find!OnPath(r, w)' <=> Find!OnPath(r, w)
  BY <1>1, <1>5, RingOutsUnchanged, RingIInvFacts DEF Find!args
<1>9. /\ ring' \in [Find!Slot -> RingSlotType'] /\ RingSlotType' = RingSlotType
      /\ \A s \in Find!Slot : s # t => ring'[s] = ring[s]
      /\ ring'[t].curr_node = c /\ ring'[t].key_idx = q /\ ring'[t].is_active
  <2>1. RingSlotType' = RingSlotType
    BY <1>8 DEF RingSlotType
  <2>2. \A s \in Find!Slot : s # t => ring'[s] = ring[s]
    BY <1>4, RingIInvFacts
  <2>3. ring'[t] = [ring[t] EXCEPT !.curr_node = c]
    BY <1>4, <1>5, RingIInvFacts
  <2>4. ring'[t].curr_node = c /\ ring'[t].key_idx = q /\ ring'[t].is_active /\ ring'[t] \in RingSlotType
    BY <1>1, <1>2, <1>5, <1>7, <2>3 DEF RingSlotType
  <2>5. ring' \in [Find!Slot -> RingSlotType]
    BY <1>4, <1>5, <2>2, <2>4, RingIInvFacts
  <2> QED  BY <2>1, <2>2, <2>4, <2>5
<1>10. Find!Busy' = Find!Busy /\ \A s \in Find!Busy : ring'[s].key_idx = ring[s].key_idx
  BY <1>2, <1>5, <1>9 DEF Find!Busy
<1>11. Find!InFlight' = Find!InFlight /\ Find!Settled' = Find!Settled
  BY <1>1, <1>10 DEF Find!InFlight, Find!Settled
<1>12. RingAnswers'
  <2>1. linear_found' = linear_found /\ linear_results' = linear_results /\ before' = before
    BY <1>1, <1>5 DEF Find!outs
  <2> QED  BY <1>8, <1>11, <2>1, RingIInvFacts DEF RingAnswers, RingUntouched
<1>13. RingPhases'
  BY <1>1, <1>8, RingVisitFacts DEF RingPhases
<1>14. \A s \in Find!Busy' : /\ ring'[s].key_idx \in 0 .. linear_next' - 1
                             /\ ring'[s].curr_node \in Find!NodeIds(tree)'
                             /\ Find!OnPath(ring[s].key_idx, ring[s].curr_node)'
                             /\ \A u \in Find!Busy' : s # u => ring'[s].key_idx # ring'[u].key_idx
  <2> TAKE s \in Find!Busy'
  <2>1. /\ s \in Find!Busy /\ ring'[s].key_idx \in 0 .. linear_next' - 1
        /\ \A u \in Find!Busy' : s # u => ring'[s].key_idx # ring'[u].key_idx
    BY <1>1, <1>10, RingIInvFacts
  <2>2. ring'[s].curr_node \in Find!NodeIds(tree)' /\ Find!OnPath(ring[s].key_idx, ring[s].curr_node)'
    <3>1. CASE s = t
      BY <1>5, <1>7, <1>8, <1>9, <3>1 DEF Find!OnPath, Find!KeyAt, Find!args
    <3>2. CASE s # t
      <4>1. ring'[s] = ring[s]
        BY <1>9, <2>1, <3>2 DEF Find!Busy
      <4>2. ring[s].curr_node \in Find!NodeIds(tree) /\ Find!OnPath(ring[s].key_idx, ring[s].curr_node)
        BY <2>1, RingIInvFacts
      <4> QED  BY <1>5, <1>8, <4>1, <4>2 DEF Find!OnPath, Find!KeyAt, Find!args
    <3> QED  BY <3>1, <3>2
  <2> QED  BY <2>1, <2>2
<1>15. /\ linear_done' = Cardinality(Find!Settled') /\ linear_next' \in 0 .. Find!n' /\ before' \in BOOLEAN
       /\ linear_pc' \in {"loop", "visit"} /\ linear_k' \in 0 .. POOL_SIZE
  BY <1>1, <1>5, <1>8, <1>11, RingVisitFacts, RingIInvFacts
<1> QED  BY <1>8, <1>9, <1>12, <1>13, <1>14, <1>15, RingNextIInv

LEMMA RingVisitLeafStep ==
  ASSUME RingIInv, Find!VisitLeaf
  PROVE  RingIInv'
<1>1. /\ Find!Visit /\ ring[linear_k].is_active /\ Find!IsLeafId(ring[linear_k].curr_node)
      /\ linear_done' = linear_done + 1
      /\ linear_next' = Find!Min2(linear_next + 1, Find!n)
      /\ Find!WriteAnswers([x \in {ring[linear_k].key_idx} |-> ring[linear_k].curr_node])
      /\ ring' = [ring EXCEPT ![linear_k] = Find!Filled(linear_k, linear_next)]
  BY DEF Find!VisitLeaf
<1>2. PICK q, v, t, next : q = ring[linear_k].key_idx /\ v = ring[linear_k].curr_node /\ t = linear_k /\ next = linear_next
  OBVIOUS
<1>3. PICK slot : slot = Find!Filled(t, next)
  OBVIOUS
<1>4. ring' = [ring EXCEPT ![t] = slot]
  BY <1>1, <1>2, <1>3
<1>5. /\ t \in Find!Slot /\ t \in Find!Busy /\ UNCHANGED <<Find!args, before>> /\ ring[t] \in RingSlotType
      /\ Find!n \in Nat /\ next \in 0 .. Find!n
  BY <1>1, <1>2, RingVisitFacts, RingIInvFacts DEF Find!Busy
<1>6. q \in Find!QueryIdx /\ q \in 0 .. next - 1 /\ v \in Find!NodeIds(tree) /\ Find!OnPath(q, v) /\ Find!IsLeafId(v)
  BY <1>1, <1>2, <1>5, RingIInvFacts
<1>7. q \in Find!InFlight /\ q \notin Find!Settled
  BY <1>2, <1>5 DEF Find!InFlight, Find!Settled
<1>8. /\ Find!OutsTypeOK' /\ Find!QueryIdx' = Find!QueryIdx /\ Find!RightAnswer(q)'
      /\ \A r \in Find!QueryIdx \ {q} : linear_found'[r] = linear_found[r] /\ linear_results'[r] = linear_results[r]
  <2>1. PICK reached : reached = [x \in {q} |-> v]
    OBVIOUS
  <2>2. DOMAIN reached = {q} /\ reached[q] = v /\ {q} \subseteq Find!QueryIdx
    BY <1>6, <2>1
  <2>3. linear_results[q] = Stale
    BY <1>6, <1>7, RingIInvFacts DEF RingAnswers, RingUntouched
  <2>4. \A x \in {q} : /\ reached[x] \in Find!NodeIds(tree) /\ Find!IsLeafId(reached[x])
                       /\ Find!OnPath(x, reached[x]) /\ linear_results[x] = Stale
    BY <1>6, <2>2, <2>3
  <2>5. Find!WriteAnswers(reached) /\ UNCHANGED Find!args
    BY <1>1, <1>2, <1>5, <2>1
  <2> QED  BY <2>2, <2>4, <2>5, RingIInvFacts, RingLeavesAnswer
<1>9. tree' = tree /\ queries' = queries /\ before' = before
  BY <1>5 DEF Find!args
<1>10. /\ Find!n' = Find!n /\ Find!NodeIds(tree)' = Find!NodeIds(tree) /\ (Find!NothingToDo' <=> Find!NothingToDo)
       /\ RingSlotType' = RingSlotType
       /\ \A r, w : Find!OnPath(r, w)' <=> Find!OnPath(r, w)
  BY <1>9 DEF Find!n, Find!NodeIds, Find!NothingToDo, Find!OnPath, Find!KeyAt, RingSlotType, Find!QueryIdx
<1>11. (\A s \in Find!Slot : s # t => ring'[s] = ring[s]) /\ ring'[t] = slot
  BY <1>4, <1>5, RingIInvFacts
<1>12. /\ next < Find!n => slot = [curr_node |-> tree.root, key_idx |-> next, is_active |-> TRUE]
       /\ ~(next < Find!n) => slot = [ring[t] EXCEPT !.is_active = FALSE]
  BY <1>3 DEF Find!Filled
<1>13. tree.root \in Find!NodeIds(tree) /\ \A r \in Find!QueryIdx : Find!OnPath(r, tree.root)
  <2>1. Find!WellFormed(tree) /\ \A r \in Find!QueryIdx : Find!KeyAt(r) \in Key
    BY RingIInvFacts, RingArgsFacts
  <2>2. ~Find!NothingToDo
    BY <1>1, RingVisitFacts
  <2> QED  BY <2>1, <2>2 DEF Find!WellFormed, Find!OnPath, Find!NothingToDo
<1>14. slot \in RingSlotType /\ ring' \in [Find!Slot -> RingSlotType]
  <2>1. CASE next < Find!n
    <3>1. next \in Find!QueryIdx
      BY <1>5, <2>1 DEF Find!QueryIdx
    <3>2. slot \in RingSlotType
      <4>1. slot = [curr_node |-> tree.root, key_idx |-> next, is_active |-> TRUE]
        BY <1>12, <2>1
      <4> QED  BY <1>13, <3>1, <4>1 DEF RingSlotType
    <3> QED  BY <1>4, <3>2, RingIInvFacts
  <2>2. CASE ~(next < Find!n)
    BY <1>4, <1>5, <1>12, <2>2, RingIInvFacts DEF RingSlotType
  <2> QED  BY <2>1, <2>2
<1>15. \A s \in Find!Busy \ {t} : s \in Find!Slot /\ ring'[s] = ring[s] /\ ring[s].key_idx # q /\ ring[s].key_idx \in 0 .. next - 1
  BY <1>2, <1>5, <1>11, RingIInvFacts DEF Find!Busy
<1>16. ASSUME next < Find!n
       PROVE  /\ Find!Settled' = Find!Settled \cup {q} /\ linear_next' \in 0 .. Find!n
              /\ \A s \in Find!Busy' : /\ ring'[s].key_idx \in 0 .. linear_next' - 1
                                       /\ ring'[s].curr_node \in Find!NodeIds(tree)'
                                       /\ Find!OnPath(ring[s].key_idx, ring[s].curr_node)'
                                       /\ \A u \in Find!Busy' : s # u => ring'[s].key_idx # ring'[u].key_idx
  <2>1. linear_next' = next + 1
    BY <1>1, <1>2, <1>5, <1>16 DEF Find!Min2
  <2>2. Find!Busy' = Find!Busy
    BY <1>5, <1>11, <1>12, <1>16 DEF Find!Busy
  <2>3. Find!InFlight' = (Find!InFlight \ {q}) \cup {next}
    <3>1. Find!InFlight = {ring[s].key_idx : s \in Find!Busy \ {t}} \cup {q}
      BY <1>2, <1>5 DEF Find!InFlight
    <3>2. q \notin {ring[s].key_idx : s \in Find!Busy \ {t}}
      BY <1>15
    <3>3. Find!InFlight' = {ring[s].key_idx : s \in Find!Busy \ {t}} \cup {next}
      BY <1>5, <1>11, <1>12, <1>15, <1>16, <2>2 DEF Find!InFlight
    <3> QED  BY <3>1, <3>2, <3>3
  <2>4. Find!Settled' = Find!Settled \cup {q}
    <3>1. next \notin Find!InFlight
      BY <1>2, <1>5, RingIInvFacts DEF Find!InFlight
    <3> QED  BY <1>2, <1>5, <1>6, <2>1, <2>3, <3>1 DEF Find!Settled
  <2>5. \A s \in Find!Busy' : /\ ring'[s].key_idx \in 0 .. linear_next' - 1
                              /\ ring'[s].curr_node \in Find!NodeIds(tree)'
                              /\ Find!OnPath(ring[s].key_idx, ring[s].curr_node)'
                              /\ \A u \in Find!Busy' : s # u => ring'[s].key_idx # ring'[u].key_idx
    <3>1. next \in Find!QueryIdx /\ next \in 0 .. linear_next' - 1
      BY <1>5, <1>16, <2>1 DEF Find!QueryIdx
    <3>2. ASSUME NEW s \in Find!Busy', s # t
          PROVE  /\ ring'[s].key_idx \in 0 .. linear_next' - 1 /\ ring'[s].key_idx \in 0 .. next - 1
                 /\ ring'[s].curr_node \in Find!NodeIds(tree)'
                 /\ Find!OnPath(ring[s].key_idx, ring[s].curr_node)'
                 /\ \A u \in Find!Busy' : s # u => ring'[s].key_idx # ring'[u].key_idx
      <4>1. /\ s \in Find!Busy /\ ring'[s] = ring[s] /\ ring[s].key_idx \in 0 .. next - 1
            /\ ring[s].curr_node \in Find!NodeIds(tree) /\ Find!OnPath(ring[s].key_idx, ring[s].curr_node)
        BY <1>15, <2>2, <3>2, RingIInvFacts
      <4>2. ring'[s].key_idx \in 0 .. linear_next' - 1
        BY <1>5, <2>1, <4>1
      <4>3. Find!OnPath(ring[s].key_idx, ring[s].curr_node)'
        BY <1>9, <4>1 DEF Find!OnPath, Find!KeyAt
      <4>4. ASSUME NEW u \in Find!Busy', s # u PROVE ring'[s].key_idx # ring'[u].key_idx
        <5>1. CASE u = t
          BY <1>5, <1>11, <1>12, <1>16, <4>1, <5>1
        <5>2. CASE u # t
          BY <1>15, <2>2, <4>1, <4>4, <5>2, RingIInvFacts
        <5> QED  BY <5>1, <5>2
      <4> QED  BY <1>10, <4>1, <4>2, <4>3, <4>4
    <3>3. /\ ring'[t].key_idx = next /\ ring'[t].curr_node = tree.root
          /\ Find!OnPath(ring[t].key_idx, ring[t].curr_node)'
      <4>1. ring'[t].key_idx = next /\ ring'[t].curr_node = tree.root
        BY <1>11, <1>12, <1>16
      <4> QED  BY <1>9, <1>13, <3>1, <4>1 DEF Find!OnPath, Find!KeyAt
    <3>4. \A u \in Find!Busy' : t # u => ring'[t].key_idx # ring'[u].key_idx
      BY <1>5, <3>2, <3>3
    <3> QED  BY <1>10, <1>13, <3>1, <3>2, <3>3, <3>4
  <2>6. linear_next' \in 0 .. Find!n
    BY <1>5, <1>16, <2>1
  <2> QED  BY <1>1, <2>4, <2>5, <2>6
<1>17. ASSUME ~(next < Find!n)
       PROVE  /\ Find!Settled' = Find!Settled \cup {q} /\ linear_next' \in 0 .. Find!n
              /\ \A s \in Find!Busy' : /\ ring'[s].key_idx \in 0 .. linear_next' - 1
                                       /\ ring'[s].curr_node \in Find!NodeIds(tree)'
                                       /\ Find!OnPath(ring[s].key_idx, ring[s].curr_node)'
                                       /\ \A u \in Find!Busy' : s # u => ring'[s].key_idx # ring'[u].key_idx
  <2>1. linear_next' = next
    BY <1>1, <1>2, <1>5, <1>17 DEF Find!Min2
  <2>2. Find!Busy' = Find!Busy \ {t}
    BY <1>5, <1>11, <1>12, <1>17 DEF Find!Busy, RingSlotType
  <2>3. Find!InFlight' = Find!InFlight \ {q}
    <3>1. Find!InFlight = {ring[s].key_idx : s \in Find!Busy \ {t}} \cup {q}
      BY <1>2, <1>5 DEF Find!InFlight
    <3>2. q \notin {ring[s].key_idx : s \in Find!Busy \ {t}}
      BY <1>15
    <3>3. Find!InFlight' = {ring[s].key_idx : s \in Find!Busy \ {t}}
      BY <1>15, <2>2 DEF Find!InFlight
    <3> QED  BY <3>1, <3>2, <3>3
  <2>4. Find!Settled' = Find!Settled \cup {q}
    BY <1>2, <1>6, <2>1, <2>3 DEF Find!Settled
  <2>5. \A s \in Find!Busy' : /\ ring'[s].key_idx \in 0 .. linear_next' - 1
                              /\ ring'[s].curr_node \in Find!NodeIds(tree)'
                              /\ Find!OnPath(ring[s].key_idx, ring[s].curr_node)'
                              /\ \A u \in Find!Busy' : s # u => ring'[s].key_idx # ring'[u].key_idx
    <3> TAKE s \in Find!Busy'
    <3>1. /\ s \in Find!Busy /\ ring'[s] = ring[s] /\ ring[s].key_idx \in 0 .. next - 1
          /\ ring[s].curr_node \in Find!NodeIds(tree) /\ Find!OnPath(ring[s].key_idx, ring[s].curr_node)
      BY <1>15, <2>2, RingIInvFacts
    <3>2. Find!OnPath(ring[s].key_idx, ring[s].curr_node)'
      BY <1>9, <3>1 DEF Find!OnPath, Find!KeyAt
    <3>3. \A u \in Find!Busy' : s # u => ring'[s].key_idx # ring'[u].key_idx
      BY <1>15, <2>2, <3>1, RingIInvFacts
    <3> QED  BY <1>10, <2>1, <3>1, <3>2, <3>3
  <2>6. linear_next' \in 0 .. Find!n
    BY <1>5, <2>1
  <2> QED  BY <2>4, <2>5, <2>6
<1>18. /\ Find!Settled' = Find!Settled \cup {q} /\ linear_next' \in 0 .. Find!n
       /\ \A s \in Find!Busy' : /\ ring'[s].key_idx \in 0 .. linear_next' - 1
                                /\ ring'[s].curr_node \in Find!NodeIds(tree)'
                                /\ Find!OnPath(ring[s].key_idx, ring[s].curr_node)'
                                /\ \A u \in Find!Busy' : s # u => ring'[s].key_idx # ring'[u].key_idx
  BY <1>16, <1>17
<1>19. linear_done' = Cardinality(Find!Settled')
  <2>1. IsFiniteSet(Find!Settled) /\ linear_done = Cardinality(Find!Settled)
    BY RingIInvFacts, RingPositionsFinite
  <2> QED  BY <1>1, <1>7, <1>18, <2>1, FS_AddElement
<1>20. RingAnswers'
  <2>1. ASSUME NEW r \in Find!QueryIdx, r # q
        PROVE  IF r \in Find!Settled' THEN Find!RightAnswer(r)' ELSE RingUntouched(r)'
    <3>1. r \in Find!Settled' <=> r \in Find!Settled
      BY <1>18, <2>1
    <3>2. linear_found'[r] = linear_found[r] /\ linear_results'[r] = linear_results[r]
      BY <1>8, <2>1
    <3>3. Find!Stored(tree)' = Find!Stored(tree) /\ Find!KeyAt(r)' = Find!KeyAt(r)
      BY <1>9 DEF Find!Stored, Find!Leaves, Find!NodeIds, Find!Slots, Find!isleafnode, Find!KeyAt
    <3>4. Find!Present(tree, Find!KeyAt(r))' <=> Find!Present(tree, Find!KeyAt(r))
      BY <3>3 DEF Find!Present
    <3>5. IF r \in Find!Settled THEN Find!RightAnswer(r) ELSE RingUntouched(r)
      BY RingIInvFacts DEF RingAnswers
    <3> QED  BY <1>9, <3>1, <3>2, <3>3, <3>4, <3>5 DEF Find!RightAnswer, RingUntouched
  <2>2. q \in Find!Settled' /\ Find!RightAnswer(q)'
    BY <1>8, <1>18
  <2> QED  BY <1>8, <2>1, <2>2 DEF RingAnswers
<1>21. RingPhases'
  BY <1>1, <1>10, RingVisitFacts DEF RingPhases
<1>22. linear_pc' \in {"loop", "visit"} /\ linear_k' \in 0 .. POOL_SIZE /\ before' \in BOOLEAN
  BY <1>1, <1>9, RingVisitFacts, RingIInvFacts
<1> QED  BY <1>8, <1>10, <1>14, <1>18, <1>19, <1>20, <1>21, <1>22, RingNextIInv

LEMMA RingStepIInv ==
  ASSUME RingIInv, Find!RingNext \/ UNCHANGED <<Find!args, Find!outs, before, linear_pc, ring, linear_next, linear_done, linear_k>>
  PROVE  RingIInv'
<1>1. CASE Find!RingStart   BY <1>1, RingStartStep
<1>2. CASE Find!Sweep       BY <1>2, RingSweepStep
<1>3. CASE Find!VisitIdle   BY <1>3, RingVisitIdleStep
<1>4. CASE Find!VisitInner  BY <1>4, RingVisitInnerStep
<1>5. CASE Find!VisitLeaf   BY <1>5, RingVisitLeafStep
<1>6. CASE UNCHANGED <<Find!args, Find!outs, before, linear_pc, ring, linear_next, linear_done, linear_k>>
  <2>1. Find!NothingToDo' <=> Find!NothingToDo
    BY <1>6, RingOutsUnchanged
  <2>2. Find!Busy' = Find!Busy => RingPhases'
    BY <1>6, <2>1 DEF RingIInv, RingPhases
  <2>3. linear_pc' = "returned" /\ tree.root # NULL => Find!Settled = Find!QueryIdx
    BY <1>6 DEF RingIInv, Find!RingExact
  <2> QED  BY <1>6, <2>2, <2>3, RingIInvFacts, RingQuiet
<1>7. CASE Find!Returned
  <2>1. UNCHANGED <<Find!args, Find!outs, before, linear_pc, ring, linear_next, linear_done, linear_k>>
    BY <1>7 DEF Find!Returned, Find!vars, Find!args, Find!outs, Find!ringVars
  <2> QED  BY <2>1, <1>6
<1> QED  BY <1>1, <1>2, <1>3, <1>4, <1>5, <1>6, <1>7 DEF Find!RingNext

-----------------------------------------------------------------------------
(* The theorems about whichever of them is called.                         *)

(* The invariant of the one that runs. *)
SiblingIInv == /\ strategy = "AMAC_Linear" => LinearIInv
               /\ strategy = "find_spp" => RingIInv

LEMMA SiblingInvariance == MCSpec => []SiblingIInv
<1>1. MCInit => SiblingIInv
  <2> SUFFICES ASSUME MCInit PROVE SiblingIInv
    OBVIOUS
  <2>1. strategy = "AMAC_Linear" => LinearIInv
    BY LinearInitIInv DEF MCInit
  <2>2. strategy = "find_spp" => RingIInv
    BY RingInitIInv DEF MCInit
  <2> QED  BY <2>1, <2>2 DEF SiblingIInv
<1>2. SiblingIInv /\ [MCNext]_allVars => SiblingIInv'
  <2> SUFFICES ASSUME SiblingIInv, [MCNext]_allVars PROVE SiblingIInv'
    OBVIOUS
  <2>1. strategy' = strategy
    BY DEF MCNext, allVars
  <2>2. ASSUME strategy = "AMAC_Linear" PROVE LinearIInv'
    <3>1. LinearIInv
      BY <2>2 DEF SiblingIInv
    <3>2. [Linear!Next]_(Linear!vars)
      BY <2>2 DEF MCNext, allVars, vars, linearVars, Linear!vars
    <3> QED  BY <3>1, <3>2, LinearStepIInv
  <2>3. ASSUME strategy = "find_spp" PROVE RingIInv'
    <3>1. RingIInv
      BY <2>3 DEF SiblingIInv
    <3>2. \/ Find!RingNext
          \/ UNCHANGED <<Find!args, Find!outs, before, linear_pc, ring, linear_next, linear_done, linear_k>>
      BY <2>3 DEF MCNext, allVars, vars, linearVars, Find!args, Find!outs
    <3> QED  BY <3>1, <3>2, RingStepIInv
  <2> QED  BY <2>1, <2>2, <2>3 DEF SiblingIInv
<1> QED  BY <1>1, <1>2, PTL DEF MCSpec

(* AMAC_Linear's machines, position and counters agree with each other and  *)
(* with the answers written; so do find_spp's slots and counters, although  *)
(* it answers out of order and fills a slot in the visit that empties it.   *)
THEOREM SiblingsExact == MCSpec => []LinearPoolExact
<1>1. SiblingIInv => LinearPoolExact
  BY DEF SiblingIInv, LinearIInv, RingIInv, LinearPoolExact
<1> QED  BY <1>1, SiblingInvariance, PTL

(* AMAC_Linear implements the abstract batch lookup: it answers one query   *)
(* at a time, or all of them at once when the tree is empty.                *)
THEOREM LinearRefinement == MCSpec => LinearRefinesBatchLookup
<1>1. MCInit => (strategy = "AMAC_Linear" => Linear!Abstract!Init)
  <2> SUFFICES ASSUME MCInit, strategy = "AMAC_Linear" PROVE Linear!Abstract!Init
    OBVIOUS
  <2> QED  BY LinearInitRefines DEF MCInit
<1>2. SiblingIInv /\ [MCNext]_allVars
        => (strategy = "AMAC_Linear" => [Linear!Abstract!Next]_(Linear!Abstract!vars))
  <2> SUFFICES ASSUME SiblingIInv, [MCNext]_allVars, strategy = "AMAC_Linear"
               PROVE  [Linear!Abstract!Next]_(Linear!Abstract!vars)
    OBVIOUS
  <2>1. LinearIInv
    BY DEF SiblingIInv
  <2>2. [Linear!Next]_(Linear!vars)
    BY DEF MCNext, allVars, vars, linearVars, Linear!vars
  <2> QED  BY <2>1, <2>2, LinearStepRefines
<1> QED  BY <1>1, <1>2, SiblingInvariance, PTL DEF MCSpec, LinearRefinesBatchLookup
=============================================================================
