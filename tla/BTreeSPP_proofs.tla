--------------------------- MODULE BTreeSPP_proofs ---------------------------
(***************************************************************************)
(* Theorems about SPP on the B+ tree and about SPP_Linear, which           *)
(* MCBTreeSPP puts beside it, for every group size, every set of           *)
(* well-formed trees (so every height) and every batch of keys.            *)
(***************************************************************************)
EXTENDS MCBTreeSPP, BTreeLookup_proofs

-----------------------------------------------------------------------------
(* The inductive invariant.                                                *)

(* The pipeline exists and has work to do. *)
Built == pc \notin {"start", "height"} /\ ~NothingToDo

(* The leftmost descent counts the levels it has seen. *)
HeightCounted ==
  /\ pc \in {"start", "height"} => DOMAIN memory = {} /\ DOMAIN stages = {} /\ next_query_idx = 0
  /\ pc = "start" => H = 0
  /\ pc = "height" => /\ H \in Nat \ {0}
                      /\ curr \in NodeIds(tree)
                      /\ Node(curr).level + H = Node(tree.root).level + 1
  /\ Built => H \in Nat \ {0} /\ H = Node(tree.root).level + 1

Phases ==
  /\ pc \notin {"start", "returned"} => ~NothingToDo
  /\ pc = "returned" /\ NothingToDo => DOMAIN memory = {} /\ DOMAIN stages = {}
  /\ pc = "returned" /\ ~NothingToDo => finished_count >= n
  /\ pc = "inner" => s < H /\ Live(H) = {}

(* A task is working on a query that was dealt. *)
TasksDealt == \A x \in Tasks : Task(x).query_idx \in 0 .. next_query_idx - 1

(* The answers written so far are those of the settled queries. *)
SettledRight ==
  \A q \in QueryIdx : IF q \in Settled THEN RightAnswer(q) ELSE Unanswered(q)

IInv == /\ TypeOK
        /\ HeightCounted
        /\ Phases
        /\ StagesDistinct
        /\ StagesAligned
        /\ OneTaskPerQuery
        /\ TasksDealt
        /\ FinishedCountExact
        /\ SettledRight

-----------------------------------------------------------------------------
(* Facts of a single state.                                                *)

(* The shape of the pipeline once it is built. *)
LEMMA BuiltFacts ==
  ASSUME IInv, Built
  PROVE  /\ H \in Nat \ {0} /\ H = Node(tree.root).level + 1
         /\ memory \in [0 .. H -> [Group -> [query_idx : QueryIdx, node : NodeIds(tree) \cup {NULL}]]]
         /\ stages \in [0 .. H -> 0 .. H]
         /\ DOMAIN stages = 0 .. H /\ DOMAIN memory = 0 .. H
         /\ n \in Nat \ {0} /\ next_query_idx \in 0 .. n
         /\ WellFormed(tree) /\ NULL \notin NodeIds(tree)
         /\ tree.root \in NodeIds(tree)
         /\ \A q \in QueryIdx : KeyAt(q) \in Key /\ OnPath(q, tree.root)
<1>1. n \in Nat /\ WellFormed(tree) /\ \A q \in QueryIdx : KeyAt(q) \in Key
  BY ArgsFacts DEF IInv, TypeOK
<1>2. H \in Nat \ {0} /\ H = Node(tree.root).level + 1
  BY DEF IInv, HeightCounted
<1>3. /\ memory \in [0 .. H -> [Group -> [query_idx : QueryIdx, node : NodeIds(tree) \cup {NULL}]]]
      /\ stages \in [0 .. H -> 0 .. H] /\ next_query_idx \in 0 .. n
  BY DEF IInv, TypeOK, Built
<1>4. DOMAIN stages = 0 .. H /\ DOMAIN memory = 0 .. H
  BY <1>3
<1>5. n # 0 /\ tree.root # NULL
  BY DEF Built, NothingToDo
<1>6. NULL \notin NodeIds(tree) /\ tree.root \in NodeIds(tree)
  BY <1>1, <1>5 DEF WellFormed
<1>7. \A q \in QueryIdx : OnPath(q, tree.root)
  BY <1>1, <1>5 DEF WellFormed, OnPath
<1> QED  BY <1>1, <1>2, <1>3, <1>4, <1>5, <1>6, <1>7

(* Settled queries are positions of the batch that no task is working on. *)
LEMMA SettledFacts ==
  ASSUME IInv
  PROVE  /\ n \in Nat /\ next_query_idx \in 0 .. n
         /\ Settled \subseteq QueryIdx
         /\ InFlight \subseteq 0 .. next_query_idx - 1
<1>1. n \in Nat /\ next_query_idx \in 0 .. n
  BY ArgsFacts DEF IInv, TypeOK
<1>2. Settled \subseteq QueryIdx
  BY <1>1 DEF Settled, QueryIdx
<1>3. InFlight \subseteq 0 .. next_query_idx - 1
  BY DEF InFlight, IInv, TasksDealt
<1> QED  BY <1>1, <1>2, <1>3

(* A live task of a stage is a task, on a node of the tree and a query of the *)
(* batch that is not settled.                                                 *)
LEMMA LiveFacts ==
  ASSUME IInv, Built, NEW t \in 0 .. H, NEW i \in Live(t)
  PROVE  /\ i \in Group /\ stages[t] \in 0 .. H
         /\ <<stages[t], i>> \in Tasks
         /\ Task(<<stages[t], i>>) = Stage(t)[i]
         /\ Stage(t)[i].node \in NodeIds(tree)
         /\ Stage(t)[i].query_idx \in QueryIdx
         /\ Stage(t)[i].query_idx \in InFlight
         /\ Stage(t)[i].query_idx \notin Settled
         /\ Unanswered(Stage(t)[i].query_idx)
         /\ Node(Stage(t)[i].node).level = LevelOf(t)
         /\ OnPath(Stage(t)[i].query_idx, Stage(t)[i].node)
<1>1. i \in Group /\ Stage(t)[i].node # NULL
  BY DEF Live
<1>2. /\ memory \in [0 .. H -> [Group -> [query_idx : QueryIdx, node : NodeIds(tree) \cup {NULL}]]]
      /\ stages[t] \in 0 .. H /\ DOMAIN stages = 0 .. H /\ DOMAIN memory = 0 .. H
  BY BuiltFacts
<1>3. Task(<<stages[t], i>>) = Stage(t)[i]
  BY DEF Task, Stage
<1>4. <<stages[t], i>> \in Tasks
  BY <1>1, <1>2, <1>3 DEF Tasks
<1>5. Stage(t)[i].node \in NodeIds(tree) /\ Stage(t)[i].query_idx \in QueryIdx
  BY <1>1, <1>2 DEF Stage
<1>6. Stage(t)[i].query_idx \in InFlight
  BY <1>3, <1>4 DEF InFlight
<1>7. Stage(t)[i].query_idx \notin Settled
  BY <1>6 DEF Settled
<1>8. Unanswered(Stage(t)[i].query_idx)
  BY <1>5, <1>7 DEF IInv, SettledRight
<1>9. /\ Node(Stage(t)[i].node).level = LevelOf(t)
      /\ OnPath(Stage(t)[i].query_idx, Stage(t)[i].node)
  BY <1>2 DEF IInv, StagesAligned
<1> QED  BY <1>1, <1>2, <1>3, <1>4, <1>5, <1>6, <1>7, <1>8, <1>9

(* Steps that leave buffers, queries and answers alone settle nothing. *)
LEMMA Quiet ==
  ASSUME IInv, UNCHANGED <<args, outs, memory, next_query_idx, finished_count>>
  PROVE  /\ Tasks' = Tasks /\ InFlight' = InFlight /\ Settled' = Settled
         /\ n' = n /\ QueryIdx' = QueryIdx /\ NodeIds(tree)' = NodeIds(tree)
         /\ (NothingToDo' <=> NothingToDo) /\ OutsTypeOK'
         /\ OneTaskPerQuery' /\ TasksDealt' /\ FinishedCountExact' /\ SettledRight'
<1>1. /\ n' = n /\ QueryIdx' = QueryIdx /\ NodeIds(tree)' = NodeIds(tree)
      /\ (NothingToDo' <=> NothingToDo) /\ OutsTypeOK'
      /\ \A q : (RightAnswer(q)' <=> RightAnswer(q)) /\ (Unanswered(q)' <=> Unanswered(q))
  BY OutsUnchanged DEF IInv, TypeOK
<1>2. \A x : Task(x)' = Task(x)
  BY DEF Task
<1>3. Tasks' = Tasks
  BY <1>2 DEF Tasks
<1>4. InFlight' = InFlight /\ Settled' = Settled
  BY <1>2, <1>3 DEF InFlight, Settled
<1>5. OneTaskPerQuery' /\ TasksDealt'
  BY <1>2, <1>3 DEF IInv, OneTaskPerQuery, TasksDealt
<1>6. FinishedCountExact' /\ SettledRight'
  BY <1>1, <1>4 DEF IInv, FinishedCountExact, SettledRight
<1> QED  BY <1>1, <1>3, <1>4, <1>5, <1>6

-----------------------------------------------------------------------------
(* The invariant is inductive.                                             *)

LEMMA InitIInv ==
  ASSUME Init
  PROVE  IInv /\ Settled = {}
<1>1. OutsTypeOK
  BY DEF Init, ArgsAndOutsInit, OutsTypeOK
<1>2. n \in Nat
  BY <1>1, ArgsFacts
<1>3. DOMAIN memory = {} /\ DOMAIN stages = {}
  BY DEF Init
<1>4. Tasks = {} /\ InFlight = {} /\ Settled = {}
  BY <1>3 DEF Init, Tasks, InFlight, Settled
<1>5. TypeOK
  BY <1>1, <1>2 DEF Init, TypeOK
<1>6. HeightCounted /\ Phases
  BY <1>3 DEF Init, HeightCounted, Phases, Built
<1>7. StagesDistinct /\ StagesAligned
  BY <1>3 DEF Init, StagesDistinct, StagesAligned
<1>8. OneTaskPerQuery /\ TasksDealt
  BY <1>4 DEF OneTaskPerQuery, TasksDealt
<1>9. FinishedCountExact
  BY <1>4, FS_EmptySet DEF Init, FinishedCountExact
<1>10. SettledRight
  BY <1>4 DEF Init, ArgsAndOutsInit, SettledRight, Unanswered
<1> QED  BY <1>4, <1>5, <1>6, <1>7, <1>8, <1>9, <1>10 DEF IInv

LEMMA StartStep ==
  ASSUME IInv, Start
  PROVE  IInv' /\ Settled' = Settled
<1>1. /\ UNCHANGED <<args, outs, memory, stages, s, next_query_idx, finished_count>>
      /\ pc = "start"
  BY DEF Start
<1>2. /\ Settled' = Settled /\ n' = n /\ QueryIdx' = QueryIdx /\ NodeIds(tree)' = NodeIds(tree)
      /\ (NothingToDo' <=> NothingToDo) /\ OutsTypeOK'
      /\ OneTaskPerQuery' /\ TasksDealt' /\ FinishedCountExact' /\ SettledRight'
  BY <1>1, Quiet
<1>3. DOMAIN memory = {} /\ DOMAIN stages = {} /\ next_query_idx = 0
  BY <1>1 DEF IInv, HeightCounted
<1>4. StagesDistinct'
  BY <1>1, <1>3 DEF StagesDistinct
<1>5. CASE NothingToDo
  <2>1. pc' = "returned" /\ UNCHANGED <<H, curr>>
    BY <1>5 DEF Start
  <2>2. TypeOK'
    BY <1>1, <1>2, <1>5, <2>1 DEF IInv, TypeOK
  <2>3. HeightCounted' /\ Phases' /\ StagesAligned'
    BY <1>1, <1>2, <1>3, <1>5, <2>1 DEF HeightCounted, Phases, Built, StagesAligned
  <2> QED  BY <1>2, <1>4, <2>2, <2>3 DEF IInv
<1>6. CASE ~NothingToDo
  <2>1. pc' = "height" /\ H' = 1 /\ curr' = tree.root
    BY <1>6 DEF Start
  <2>2. WellFormed(tree) /\ tree.root \in NodeIds(tree) /\ tree' = tree
    BY <1>1, <1>6, ArgsFacts DEF IInv, TypeOK, WellFormed, NothingToDo, args
  <2>3. Node(tree.root).level \in Nat
    BY <2>2 DEF WellFormed, NodeOK, Node
  <2>4. s' \in 0 .. H'
    BY <1>1, <2>1 DEF IInv, TypeOK, HeightCounted
  <2>5. TypeOK'
    BY <1>1, <1>2, <2>1, <2>2, <2>4 DEF IInv, TypeOK
  <2>6. HeightCounted'
    BY <1>1, <1>3, <2>1, <2>2, <2>3 DEF HeightCounted, Built, Node, NodeIds
  <2>7. Phases' /\ StagesAligned'
    BY <1>1, <1>2, <1>3, <1>6, <2>1 DEF Phases, StagesAligned
  <2> QED  BY <1>2, <1>4, <2>5, <2>6, <2>7 DEF IInv
<1> QED  BY <1>5, <1>6

LEMMA CountLevelStep ==
  ASSUME IInv, CountLevel
  PROVE  IInv' /\ Settled' = Settled
<1>1. /\ UNCHANGED <<args, outs, pc, memory, stages, s, next_query_idx, finished_count>>
      /\ pc = "height" /\ ~IsLeafId(curr)
      /\ curr' = Node(curr).childid[0] /\ H' = H + 1
  BY DEF CountLevel
<1>2. /\ Settled' = Settled /\ n' = n /\ QueryIdx' = QueryIdx /\ NodeIds(tree)' = NodeIds(tree)
      /\ (NothingToDo' <=> NothingToDo) /\ OutsTypeOK'
      /\ OneTaskPerQuery' /\ TasksDealt' /\ FinishedCountExact' /\ SettledRight'
  BY <1>1, Quiet
<1>3. /\ H \in Nat \ {0} /\ curr \in NodeIds(tree)
      /\ Node(curr).level + H = Node(tree.root).level + 1
      /\ DOMAIN memory = {} /\ DOMAIN stages = {} /\ next_query_idx = 0
  BY <1>1 DEF IInv, HeightCounted
<1>4. WellFormed(tree) /\ tree' = tree /\ tree.root \in NodeIds(tree)
  BY <1>1, ArgsFacts DEF IInv, TypeOK, args, Phases, NothingToDo, WellFormed
<1>5. curr' \in NodeIds(tree) /\ Node(curr').level + 1 = Node(curr).level
  <2>1. NodeOK(tree, curr) /\ ChildrenOK(tree, curr)
    BY <1>1, <1>3, <1>4 DEF WellFormed, IsLeafId, Node
  <2>2. 0 \in 0 .. Node(curr).slotuse
    BY <2>1 DEF NodeOK, Node
  <2> QED  BY <1>1, <2>1, <2>2 DEF NodeOK, ChildrenOK, Node, IsLeafId
<1>6. Node(curr').level \in Nat /\ Node(curr).level \in Nat /\ Node(tree.root).level \in Nat
  BY <1>3, <1>4, <1>5 DEF WellFormed, NodeOK, Node
<1>7. TypeOK'
  BY <1>1, <1>2, <1>3, <1>5 DEF IInv, TypeOK
<1>8. HeightCounted'
  <2>1. Node(curr').level + (H + 1) = Node(tree.root).level + 1
    BY <1>3, <1>5, <1>6
  <2> QED  BY <1>1, <1>3, <1>4, <1>5, <2>1 DEF HeightCounted, Built, Node, NodeIds
<1>9. Phases' /\ StagesDistinct' /\ StagesAligned'
  BY <1>1, <1>2, <1>3 DEF IInv, Phases, StagesDistinct, StagesAligned
<1> QED  BY <1>2, <1>7, <1>8, <1>9 DEF IInv

LEMMA AllocateStep ==
  ASSUME IInv, Allocate
  PROVE  IInv' /\ Settled' = Settled
<1>1. /\ UNCHANGED <<args, outs, H, curr, s, next_query_idx, finished_count>>
      /\ pc = "height" /\ pc' = "loop" /\ IsLeafId(curr)
      /\ memory' = [b \in 0 .. H |-> [i \in Group |-> NoTask]]
      /\ stages' = [t \in 0 .. H |-> t]
  BY DEF Allocate
<1>2. /\ n' = n /\ QueryIdx' = QueryIdx /\ NodeIds(tree)' = NodeIds(tree)
      /\ (NothingToDo' <=> NothingToDo) /\ OutsTypeOK' /\ ~NothingToDo
      /\ \A q : (RightAnswer(q)' <=> RightAnswer(q)) /\ (Unanswered(q)' <=> Unanswered(q))
  BY <1>1, OutsUnchanged DEF IInv, TypeOK, Phases
<1>3. /\ H \in Nat \ {0} /\ curr \in NodeIds(tree)
      /\ Node(curr).level + H = Node(tree.root).level + 1
      /\ DOMAIN memory = {} /\ next_query_idx = 0
  BY <1>1 DEF IInv, HeightCounted
<1>4. H = Node(tree.root).level + 1 /\ Node(tree.root)' = Node(tree.root)
  <2>1. WellFormed(tree) /\ tree.root \in NodeIds(tree) /\ tree' = tree
    BY <1>1, <1>2, ArgsFacts DEF IInv, TypeOK, args, NothingToDo, WellFormed
  <2>2. Node(tree.root).level \in Nat /\ Node(curr).level = 0
    BY <1>1, <1>3, <2>1 DEF WellFormed, NodeOK, Node, IsLeafId, isleafnode
  <2> QED  BY <1>3, <2>1, <2>2 DEF Node
<1>5. \A b \in 0 .. H : \A i \in Group : memory'[b][i] = NoTask
  BY <1>1
<1>6. Tasks = {} /\ Tasks' = {}
  BY <1>1, <1>3, <1>5 DEF Tasks, Task, NoTask
<1>7. InFlight' = {} /\ InFlight = {}
  BY <1>6 DEF InFlight
<1>8. Settled' = {} /\ Settled = {}
  BY <1>1, <1>3, <1>7 DEF Settled
<1>9. TypeOK'
  <2>1. n \in Nat \ {0}
    BY <1>2, ArgsFacts DEF IInv, TypeOK, NothingToDo
  <2>2. NoTask \in [query_idx : QueryIdx, node : NodeIds(tree) \cup {NULL}]
    BY <2>1 DEF NoTask, QueryIdx
  <2>3. /\ memory' \in [0 .. H -> [Group -> [query_idx : QueryIdx, node : NodeIds(tree) \cup {NULL}]]]
        /\ stages' \in [0 .. H -> 0 .. H]
    BY <1>1, <2>2
  <2> QED  BY <1>1, <1>2, <2>3 DEF IInv, TypeOK
<1>10. HeightCounted' /\ Phases'
  BY <1>1, <1>2, <1>3, <1>4 DEF HeightCounted, Phases, Built
<1>11. StagesDistinct'
  BY <1>1 DEF StagesDistinct
<1>12. StagesAligned'
  <2>1. \A t \in DOMAIN stages' : Live(t)' = {}
    BY <1>1, <1>5 DEF Live, Stage, NoTask
  <2> QED  BY <1>1, <2>1 DEF StagesAligned
<1>13. OneTaskPerQuery' /\ TasksDealt'
  BY <1>6 DEF OneTaskPerQuery, TasksDealt
<1>14. FinishedCountExact' /\ SettledRight'
  BY <1>1, <1>2, <1>8 DEF IInv, FinishedCountExact, SettledRight
<1> QED  BY <1>8, <1>9, <1>10, <1>11, <1>12, <1>13, <1>14 DEF IInv

LEMMA LoopTestStep ==
  ASSUME IInv, LoopTest
  PROVE  IInv' /\ Settled' = Settled
<1>1. /\ UNCHANGED <<args, outs, H, curr, memory, stages, s, next_query_idx, finished_count>>
      /\ pc = "loop" /\ pc' = IF finished_count < n THEN "leaves" ELSE "returned"
  BY DEF LoopTest
<1>2. /\ Settled' = Settled /\ n' = n /\ QueryIdx' = QueryIdx /\ NodeIds(tree)' = NodeIds(tree)
      /\ (NothingToDo' <=> NothingToDo) /\ OutsTypeOK' /\ ~NothingToDo
      /\ OneTaskPerQuery' /\ TasksDealt' /\ FinishedCountExact' /\ SettledRight'
  BY <1>1, Quiet DEF IInv, Phases
<1>3. Built /\ tree' = tree
  BY <1>1, <1>2 DEF Built, args
<1>4. TypeOK'
  BY <1>1, <1>2 DEF IInv, TypeOK
<1>5. HeightCounted'
  BY <1>1, <1>3 DEF IInv, HeightCounted, Built, Node
<1>6. Phases'
  <2>1. n \in Nat /\ finished_count \in Nat
    BY SettledFacts DEF IInv, TypeOK
  <2> QED  BY <1>1, <1>2, <2>1 DEF Phases
<1>7. StagesDistinct' /\ StagesAligned'
  <2>1. \A t : Live(t)' = Live(t) /\ Stage(t)' = Stage(t) /\ LevelOf(t)' = LevelOf(t)
    BY <1>1 DEF Live, Stage, LevelOf
  <2>2. \A q, v : OnPath(q, v)' <=> OnPath(q, v)
    BY <1>1, OutsUnchanged
  <2>3. StagesDistinct'
    BY <1>1 DEF IInv, StagesDistinct
  <2>4. StagesAligned'
    BY <1>1, <1>3, <2>1, <2>2 DEF IInv, StagesAligned, Node
  <2> QED  BY <2>3, <2>4
<1> QED  BY <1>2, <1>4, <1>5, <1>6, <1>7 DEF IInv

(* A step that rewrites the buffer of one stage changes no other stage. *)
LEMMA OneBuffer ==
  ASSUME IInv, Built, NEW t \in 0 .. H, NEW row,
         stages' = stages, memory' = [memory EXCEPT ![stages[t]] = row]
  PROVE  /\ Stage(t)' = row
         /\ \A u \in 0 .. H : u # t => Stage(u)' = Stage(u) /\ Live(u)' = Live(u)
         /\ DOMAIN memory' = 0 .. H /\ DOMAIN stages' = 0 .. H
         /\ memory'[stages[t]] = row
         /\ \A b \in 0 .. H : b # stages[t] => memory'[b] = memory[b]
<1>1. /\ DOMAIN memory = 0 .. H /\ DOMAIN stages = 0 .. H
      /\ stages \in [0 .. H -> 0 .. H] /\ memory \in [0 .. H -> [Group -> [query_idx : QueryIdx, node : NodeIds(tree) \cup {NULL}]]]
  BY BuiltFacts
<1>2. /\ memory'[stages[t]] = row
      /\ \A b \in 0 .. H : b # stages[t] => memory'[b] = memory[b]
  BY <1>1
<1>3. Stage(t)' = row
  BY <1>2 DEF Stage
<1>4. ASSUME NEW u \in 0 .. H, u # t PROVE Stage(u)' = Stage(u)
  <2>1. stages[u] # stages[t] /\ stages[u] \in 0 .. H
    BY <1>1, <1>4 DEF IInv, StagesDistinct
  <2> QED  BY <1>2, <2>1 DEF Stage
<1>5. ASSUME NEW u \in 0 .. H, u # t PROVE Live(u)' = Live(u)
  BY <1>4, <1>5 DEF Live
<1> QED  BY <1>1, <1>2, <1>3, <1>4, <1>5

(* The queries of the live tasks of a stage are as many as those tasks. *)
LEMMA StageCardinality ==
  ASSUME IInv, Built, NEW t \in 0 .. H, NEW Qs,
         Qs = {Stage(t)[i].query_idx : i \in Live(t)}
  PROVE  IsFiniteSet(Qs) /\ Cardinality(Qs) = Cardinality(Live(t))
<1> DEFINE f == [i \in Live(t) |-> Stage(t)[i].query_idx]
<1>1. \A i, j \in Live(t) : f[i] = f[j] => i = j
  <2> TAKE i, j \in Live(t)
  <2>1. /\ <<stages[t], i>> \in Tasks /\ Task(<<stages[t], i>>) = Stage(t)[i]
        /\ <<stages[t], j>> \in Tasks /\ Task(<<stages[t], j>>) = Stage(t)[j]
    BY LiveFacts
  <2> HAVE f[i] = f[j]
  <2>2. <<stages[t], i>> = <<stages[t], j>>
    BY <2>1 DEF IInv, OneTaskPerQuery
  <2> QED  BY <2>2
<1>2. f \in Bijection(Live(t), Qs)
  BY <1>1 DEF Bijection, Injection, Surjection, IsInjective
<1>3. IsFiniteSet(Live(t))
  <2>1. IsFiniteSet(Group)
    BY GroupAssumption, FS_Interval DEF Group
  <2> QED  BY <2>1, FS_Subset DEF Live
<1> QED  BY <1>2, <1>3, FS_Bijection DEF ExistsBijection

LEMMA LeafStageStep ==
  ASSUME IInv, LeafStage
  PROVE  /\ IInv'
         /\ QueryIdx' = QueryIdx
         /\ \E Qs \in SUBSET (QueryIdx \ Settled) :
               /\ Settled' = Settled \cup Qs
               /\ \A r \in QueryIdx \ Qs : found'[r] = found[r] /\ results'[r] = results[r]
<1>1. /\ pc = "leaves" /\ pc' = "inner" /\ s' = H - 1
      /\ UNCHANGED <<args, H, curr, stages, next_query_idx>>
      /\ finished_count' = finished_count + Cardinality(Live(H))
  BY DEF LeafStage
<1>2. Built /\ tree' = tree /\ queries' = queries
  BY <1>1 DEF IInv, Phases, Built, args
<1>3. PICK Qs : Qs = {Stage(H)[i].query_idx : i \in Live(H)}
  OBVIOUS
<1>4. PICK reached : reached = [q \in Qs |->
                       Stage(H)[CHOOSE i \in Live(H) : Stage(H)[i].query_idx = q].node]
  OBVIOUS
<1>5. WriteAnswers(reached)
  BY <1>3, <1>4 DEF LeafStage
<1>6. PICK row : row = [i \in Group |-> [query_idx |-> Stage(H)[i].query_idx, node |-> NULL]]
  OBVIOUS
<1>7. memory' = [memory EXCEPT ![stages[H]] = row]
  BY <1>6 DEF LeafStage, Stage
<1>8. H \in 0 .. H /\ H \in Nat \ {0}
  BY <1>2, BuiltFacts
<1>9. /\ Stage(H)' = row
      /\ \A u \in 0 .. H : u # H => Stage(u)' = Stage(u) /\ Live(u)' = Live(u)
      /\ DOMAIN memory' = 0 .. H /\ DOMAIN stages' = 0 .. H
      /\ memory'[stages[H]] = row
      /\ \A b \in 0 .. H : b # stages[H] => memory'[b] = memory[b]
  BY <1>1, <1>2, <1>7, <1>8, OneBuffer
<1>10. ASSUME NEW q \in Qs
       PROVE  /\ q \in QueryIdx \ Settled /\ q \in InFlight
              /\ reached[q] \in NodeIds(tree) /\ IsLeafId(reached[q])
              /\ OnPath(q, reached[q]) /\ Unanswered(q)
  <2>1. PICK i \in Live(H) : Stage(H)[i].query_idx = q /\ reached[q] = Stage(H)[i].node
    <3>1. \E i \in Live(H) : Stage(H)[i].query_idx = q
      BY <1>3
    <3> QED  BY <3>1, <1>4
  <2>2. PICK v : v = Stage(H)[i].node
    OBVIOUS
  <2>3. /\ v \in NodeIds(tree) /\ q \in QueryIdx /\ q \in InFlight /\ q \notin Settled
        /\ Unanswered(q) /\ Node(v).level = LevelOf(H) /\ OnPath(q, v)
    BY <1>2, <1>8, <2>1, <2>2, LiveFacts
  <2>4. LevelOf(H) = 0
    BY <1>1, <1>8 DEF LevelOf
  <2>5. IsLeafId(v)
    BY <2>3, <2>4 DEF IsLeafId, isleafnode
  <2> QED  BY <2>1, <2>2, <2>3, <2>5
<1>11. /\ OutsTypeOK' /\ QueryIdx' = QueryIdx /\ \A q \in Qs : RightAnswer(q)'
       /\ \A r \in QueryIdx \ Qs : found'[r] = found[r] /\ results'[r] = results[r]
  <2>1. DOMAIN reached = Qs
    BY <1>4
  <2>2. Qs \subseteq QueryIdx
    BY <1>10
  <2> QED  BY <1>1, <1>5, <1>10, <2>1, <2>2, LeavesGiveRightAnswers DEF IInv, TypeOK
<1>12. /\ n' = n /\ NodeIds(tree)' = NodeIds(tree) /\ (NothingToDo' <=> NothingToDo)
       /\ \A v : Node(v)' = Node(v)
       /\ \A q, v : OnPath(q, v)' <=> OnPath(q, v)
  BY <1>2 DEF n, NodeIds, NothingToDo, Node, OnPath, KeyAt
<1>13. Live(H)' = {} /\ \A t \in 0 .. H : t = H => Live(t)' = {}
  BY <1>6, <1>9, <1>1 DEF Live, Stage
<1>14. /\ Tasks' = {x \in Tasks : x[1] # stages[H]}
       /\ \A x \in Tasks' : Task(x)' = Task(x)
  <2>1. DOMAIN memory = 0 .. H
    BY <1>2, BuiltFacts
  <2>2. \A x \in (0 .. H) \X Group : x[1] = stages[H] => Task(x)'.node = NULL
    BY <1>6, <1>9 DEF Task
  <2>3. \A x \in (0 .. H) \X Group : x[1] # stages[H] => Task(x)' = Task(x)
    BY <1>9 DEF Task
  <2> QED  BY <1>9, <2>1, <2>2, <2>3 DEF Tasks
<1>15. \A x \in Tasks : x[1] = stages[H] <=> Task(x).query_idx \in Qs
  <2> TAKE x \in Tasks
  <2>1. x \in (0 .. H) \X Group /\ Task(x).node # NULL
    BY <1>2, BuiltFacts DEF Tasks
  <2>2. ASSUME x[1] = stages[H] PROVE Task(x).query_idx \in Qs
    <3>1. Task(x) = Stage(H)[x[2]] /\ x[2] \in Live(H)
      BY <2>1, <2>2 DEF Task, Stage, Live
    <3> QED  BY <3>1, <1>3
  <2>3. ASSUME Task(x).query_idx \in Qs PROVE x[1] = stages[H]
    <3>1. PICK i \in Live(H) : Stage(H)[i].query_idx = Task(x).query_idx
      BY <1>3, <2>3
    <3>2. <<stages[H], i>> \in Tasks /\ Task(<<stages[H], i>>) = Stage(H)[i]
      BY <1>2, <1>8, LiveFacts
    <3>3. x = <<stages[H], i>>
      BY <3>1, <3>2 DEF IInv, OneTaskPerQuery
    <3> QED  BY <3>3
  <2> QED  BY <2>2, <2>3
<1>16. InFlight' = InFlight \ Qs
  BY <1>14, <1>15 DEF InFlight
<1>17. Settled' = Settled \cup Qs
  <2>1. Qs \subseteq 0 .. next_query_idx - 1
    BY <1>10, SettledFacts
  <2> QED  BY <1>1, <1>16, <2>1, <1>10 DEF Settled
<1>18. Settled \subseteq QueryIdx /\ Settled' \subseteq QueryIdx /\ Qs \subseteq QueryIdx \ Settled
  BY <1>10, <1>17, SettledFacts
<1>19. finished_count' = Cardinality(Settled') /\ finished_count' \in 0 .. n
  <2>1. IsFiniteSet(Settled) /\ IsFiniteSet(Qs) /\ Cardinality(Settled') \in Nat /\ Cardinality(Settled') <= n
    <3>1. IsFiniteSet(Settled) /\ IsFiniteSet(Qs)
      BY <1>18, PositionsFinite DEF IInv, TypeOK
    <3>2. Cardinality(Settled \cup Qs) \in Nat /\ Cardinality(Settled \cup Qs) <= n
      BY <1>18, PositionsFinite DEF IInv, TypeOK
    <3> QED  BY <3>1, <3>2, <1>17
  <2>2. Cardinality(Settled \cap Qs) = 0
    <3>1. Settled \cap Qs = {}
      BY <1>18
    <3> QED  BY <3>1, FS_EmptySet
  <2>3. Cardinality(Settled \cup Qs) = Cardinality(Settled) + Cardinality(Qs) - Cardinality(Settled \cap Qs)
    BY <2>1, FS_Union
  <2>4. Cardinality(Qs) = Cardinality(Live(H)) /\ Cardinality(Qs) \in Nat /\ Cardinality(Settled) \in Nat
    BY <1>2, <1>3, <1>8, <2>1, StageCardinality, FS_CardinalityType
  <2>5. finished_count = Cardinality(Settled)
    BY DEF IInv, FinishedCountExact
  <2>6. n \in Nat
    BY SettledFacts
  <2> QED  BY <1>1, <1>17, <2>1, <2>2, <2>3, <2>4, <2>5, <2>6
<1>20. TypeOK'
  <2>1. row \in [Group -> [query_idx : QueryIdx, node : NodeIds(tree) \cup {NULL}]]
    BY <1>2, <1>6, <1>8, BuiltFacts DEF Stage
  <2>2. memory' \in [0 .. H -> [Group -> [query_idx : QueryIdx, node : NodeIds(tree) \cup {NULL}]]]
    BY <1>2, <1>7, <2>1, BuiltFacts
  <2>3. s' \in 0 .. H
    BY <1>1, <1>8
  <2> QED  BY <1>1, <1>11, <1>12, <1>19, <2>2, <2>3 DEF IInv, TypeOK
<1>21. HeightCounted' /\ Phases'
  BY <1>1, <1>2, <1>8, <1>12, <1>13 DEF IInv, HeightCounted, Phases, Built
<1>22. StagesDistinct'
  BY <1>1 DEF IInv, StagesDistinct
<1>23. StagesAligned'
  <2>1. ASSUME NEW t \in DOMAIN stages', NEW i \in Live(t)'
        PROVE  /\ Node(Stage(t)[i].node)'.level = LevelOf(t)'
               /\ OnPath(Stage(t)[i].query_idx, Stage(t)[i].node)'
    <3>1. t \in 0 .. H /\ t # H
      BY <1>9, <1>13, <2>1
    <3>2. Stage(t)' = Stage(t) /\ i \in Live(t)
      BY <1>9, <2>1, <3>1
    <3>3. /\ Node(Stage(t)[i].node).level = LevelOf(t)
          /\ OnPath(Stage(t)[i].query_idx, Stage(t)[i].node)
      BY <1>2, <3>1, <3>2, LiveFacts
    <3>4. LevelOf(t)' = LevelOf(t)
      BY <1>1, <1>8, <3>1 DEF LevelOf
    <3> QED  BY <1>2, <3>2, <3>3, <3>4 DEF Node, OnPath, KeyAt
  <2> QED  BY <2>1, <1>1 DEF StagesAligned
<1>24. OneTaskPerQuery' /\ TasksDealt'
  BY <1>1, <1>14 DEF IInv, OneTaskPerQuery, TasksDealt
<1>25. FinishedCountExact'
  BY <1>19 DEF FinishedCountExact
<1>26. SettledRight'
  <2>1. ASSUME NEW r \in QueryIdx, r \notin Qs
        PROVE  IF r \in Settled' THEN RightAnswer(r)' ELSE Unanswered(r)'
    <3>1. r \in Settled' <=> r \in Settled
      BY <1>17, <2>1
    <3>2. found'[r] = found[r] /\ results'[r] = results[r]
      BY <1>11, <2>1
    <3>3. Stored(tree)' = Stored(tree) /\ KeyAt(r)' = KeyAt(r)
      BY <1>2 DEF Stored, Leaves, NodeIds, Slots, isleafnode, KeyAt
    <3>4. Present(tree, KeyAt(r))' <=> Present(tree, KeyAt(r))
      BY <3>3 DEF Present
    <3>5. IF r \in Settled THEN RightAnswer(r) ELSE Unanswered(r)
      BY DEF IInv, SettledRight
    <3> QED  BY <3>1, <3>2, <3>3, <3>4, <3>5 DEF RightAnswer, Unanswered
  <2> QED  BY <1>11, <1>17, <2>1 DEF SettledRight
<1>27. IInv'
  BY <1>20, <1>21, <1>22, <1>23, <1>24, <1>25, <1>26 DEF IInv
<1> QED  BY <1>11, <1>17, <1>18, <1>27

LEMMA InnerStageStep ==
  ASSUME IInv, InnerStage
  PROVE  IInv' /\ Settled' = Settled
<1>1. /\ pc = "inner" /\ pc' = pc /\ s >= 1 /\ s' = s - 1
      /\ UNCHANGED <<args, outs, H, curr, stages, next_query_idx, finished_count>>
  BY DEF InnerStage
<1>2. Built /\ tree' = tree /\ queries' = queries /\ s \in 0 .. H /\ s < H /\ Live(H) = {}
  BY <1>1 DEF IInv, Phases, Built, args, TypeOK
<1>3. PICK t : t = s
  OBVIOUS
<1>4. PICK row : row = [i \in Group |-> Advance(Stage(t)[i])]
  OBVIOUS
<1>5. memory' = [memory EXCEPT ![stages[t]] = row]
  BY <1>3, <1>4 DEF InnerStage, Stage
<1>6. t \in 0 .. H /\ t \in 1 .. H - 1 /\ H \in Nat \ {0} /\ stages[t] \in 0 .. H
  BY <1>1, <1>2, <1>3, BuiltFacts
<1>7. /\ Stage(t)' = row
      /\ \A u \in 0 .. H : u # t => Stage(u)' = Stage(u) /\ Live(u)' = Live(u)
      /\ DOMAIN memory' = 0 .. H /\ DOMAIN stages' = 0 .. H
      /\ memory'[stages[t]] = row
      /\ \A b \in 0 .. H : b # stages[t] => memory'[b] = memory[b]
  BY <1>1, <1>2, <1>5, <1>6, OneBuffer
<1>8. /\ n' = n /\ QueryIdx' = QueryIdx /\ NodeIds(tree)' = NodeIds(tree)
      /\ (NothingToDo' <=> NothingToDo) /\ OutsTypeOK'
      /\ \A q : (RightAnswer(q)' <=> RightAnswer(q)) /\ (Unanswered(q)' <=> Unanswered(q))
  BY <1>1, OutsUnchanged DEF IInv, TypeOK
<1>9. ASSUME NEW i \in Live(t)
      PROVE  /\ row[i].query_idx = Stage(t)[i].query_idx
             /\ row[i].node \in NodeIds(tree)
             /\ Node(row[i].node).level = H - t - 1
             /\ OnPath(row[i].query_idx, row[i].node)
  <2>1. PICK v, q : v = Stage(t)[i].node /\ q = Stage(t)[i].query_idx
    OBVIOUS
  <2>2. /\ i \in Group /\ v \in NodeIds(tree) /\ q \in QueryIdx
        /\ Node(v).level = LevelOf(t) /\ OnPath(q, v)
    BY <1>2, <1>6, <2>1, LiveFacts
  <2>3. LevelOf(t) = H - t
    BY <1>1, <1>3, <1>6 DEF LevelOf
  <2>4. WellFormed(tree) /\ NULL \notin NodeIds(tree) /\ KeyAt(q) \in Key
    BY <1>2, <2>2, BuiltFacts
  <2>5. ~isleafnode(tree.node[v]) /\ tree.node[v].level = H - t
    BY <1>6, <2>2, <2>3 DEF isleafnode, Node
  <2>6. PICK c : c = Child(tree.node[v], KeyAt(q))
    OBVIOUS
  <2>7. /\ c \in NodeIds(tree) /\ tree.node[c].level + 1 = tree.node[v].level
        /\ tree.lo[c] < KeyAt(q) /\ KeyAt(q) <= tree.hi[c]
    BY <2>2, <2>4, <2>5, <2>6, DescentStep DEF OnPath
  <2>8. row[i] = [query_idx |-> q, node |-> c]
    BY <1>4, <2>1, <2>2, <2>4, <2>6 DEF Advance, Node
  <2>9. tree.node[c].level \in Nat
    BY <2>4, <2>7 DEF WellFormed, NodeOK
  <2>10. tree.node[c].level = H - t - 1
    BY <1>6, <2>5, <2>7, <2>9
  <2>11. row[i].query_idx = q /\ row[i].node = c
    BY <2>8
  <2> QED  BY <2>1, <2>7, <2>10, <2>11 DEF Node, OnPath
<1>10. ASSUME NEW i \in Group, i \notin Live(t) PROVE row[i] = Stage(t)[i]
  BY <1>4, <1>10 DEF Live, Advance
<1>11. Live(t)' = Live(t)
  <2>1. \A i \in Group : row[i].node # NULL <=> Stage(t)[i].node # NULL
    <3> TAKE i \in Group
    <3>1. CASE i \in Live(t)
      <4>1. row[i].node \in NodeIds(tree) /\ NULL \notin NodeIds(tree)
        BY <1>2, <1>9, <3>1, BuiltFacts
      <4> QED  BY <3>1, <4>1 DEF Live
    <3>2. CASE i \notin Live(t)
      BY <1>10, <3>2
    <3> QED  BY <3>1, <3>2
  <2> QED  BY <1>7, <2>1 DEF Live
<1>12. \A x \in (0 .. H) \X Group : /\ Task(x)'.query_idx = Task(x).query_idx
                                    /\ Task(x)'.node # NULL <=> Task(x).node # NULL
  <2> TAKE x \in (0 .. H) \X Group
  <2>1. CASE x[1] # stages[t]
    BY <1>7, <2>1 DEF Task
  <2>2. CASE x[1] = stages[t]
    <3>1. Task(x) = Stage(t)[x[2]] /\ Task(x)' = row[x[2]] /\ x[2] \in Group
      BY <1>7, <2>2 DEF Task, Stage
    <3>2. CASE x[2] \in Live(t)
      <4>1. row[x[2]].node \in NodeIds(tree) /\ NULL \notin NodeIds(tree)
        BY <1>2, <1>9, <3>2, BuiltFacts
      <4>2. Stage(t)[x[2]].node # NULL
        BY <3>2 DEF Live
      <4> QED  BY <1>9, <3>1, <3>2, <4>1, <4>2
    <3>3. CASE x[2] \notin Live(t)
      BY <1>10, <3>1, <3>3
    <3> QED  BY <3>2, <3>3
  <2> QED  BY <2>1, <2>2
<1>13. DOMAIN memory = 0 .. H
  BY <1>2, BuiltFacts
<1>14. Tasks' = Tasks
  BY <1>7, <1>12, <1>13 DEF Tasks
<1>15. \A x \in Tasks : Task(x)'.query_idx = Task(x).query_idx
  BY <1>12, <1>13 DEF Tasks
<1>16. InFlight' = InFlight
  BY <1>14, <1>15 DEF InFlight
<1>17. Settled' = Settled
  BY <1>1, <1>16 DEF Settled
<1>18. TypeOK'
  <2>1. Stage(t) \in [Group -> [query_idx : QueryIdx, node : NodeIds(tree) \cup {NULL}]]
    BY <1>2, <1>6, BuiltFacts DEF Stage
  <2>2. ASSUME NEW i \in Group
        PROVE  row[i] \in [query_idx : QueryIdx, node : NodeIds(tree) \cup {NULL}]
    <3>1. CASE i \in Live(t)
      <4>1. PICK q, c : row[i] = [query_idx |-> q, node |-> c]
        BY <1>4, <3>1 DEF Advance, Live
      <4>2. q \in QueryIdx
        BY <1>9, <2>1, <3>1, <4>1
      <4>3. c \in NodeIds(tree)
        BY <1>9, <3>1, <4>1
      <4> QED  BY <4>1, <4>2, <4>3
    <3>2. CASE i \notin Live(t)
      BY <1>10, <2>1, <3>2
    <3> QED  BY <3>1, <3>2
  <2>3. row \in [Group -> [query_idx : QueryIdx, node : NodeIds(tree) \cup {NULL}]]
    BY <1>4, <2>2
  <2>4. memory' \in [0 .. H -> [Group -> [query_idx : QueryIdx, node : NodeIds(tree) \cup {NULL}]]]
    BY <1>2, <1>5, <2>3, BuiltFacts
  <2>5. s' \in 0 .. H
    BY <1>1, <1>2, <1>6
  <2> QED  BY <1>1, <1>8, <2>4, <2>5 DEF IInv, TypeOK
<1>19. HeightCounted' /\ Phases'
  <2>1. \A u \in 0 .. H : u = H => Live(u)' = {}
    BY <1>2, <1>6, <1>7
  <2>2. Live(H)' = {}
    BY <1>1, <1>6, <2>1 DEF Live, Stage
  <2> QED  BY <1>1, <1>2, <1>6, <1>8, <2>2 DEF IInv, HeightCounted, Phases, Built, Node
<1>20. StagesDistinct'
  BY <1>1 DEF IInv, StagesDistinct
<1>21. StagesAligned'
  <2>1. ASSUME NEW u \in DOMAIN stages', NEW i \in Live(u)'
        PROVE  /\ Node(Stage(u)[i].node)'.level = LevelOf(u)'
               /\ OnPath(Stage(u)[i].query_idx, Stage(u)[i].node)'
    <3>1. u \in 0 .. H
      BY <1>7
    <3>2. CASE u = t
      <4>1. i \in Live(t) /\ Stage(u)' = row
        BY <1>7, <1>11, <2>1, <3>2
      <4>2. LevelOf(u)' = H - t - 1
        BY <1>1, <1>3, <1>6, <3>2 DEF LevelOf
      <4> QED  BY <1>2, <1>9, <4>1, <4>2 DEF Node, OnPath, KeyAt
    <3>3. CASE u # t
      <4>1. Stage(u)' = Stage(u) /\ i \in Live(u)
        BY <1>7, <2>1, <3>1, <3>3
      <4>2. /\ Node(Stage(u)[i].node).level = LevelOf(u)
            /\ OnPath(Stage(u)[i].query_idx, Stage(u)[i].node)
        BY <1>2, <3>1, <4>1, LiveFacts
      <4>3. LevelOf(u)' = LevelOf(u)
        BY <1>1, <1>3, <1>6, <3>1, <3>3 DEF LevelOf
      <4> QED  BY <1>2, <4>1, <4>2, <4>3 DEF Node, OnPath, KeyAt
    <3> QED  BY <3>2, <3>3
  <2> QED  BY <2>1, <1>1 DEF StagesAligned
<1>22. OneTaskPerQuery' /\ TasksDealt'
  BY <1>1, <1>14, <1>15 DEF IInv, OneTaskPerQuery, TasksDealt
<1>23. FinishedCountExact' /\ SettledRight'
  BY <1>1, <1>8, <1>17 DEF IInv, FinishedCountExact, SettledRight
<1> QED  BY <1>17, <1>18, <1>19, <1>20, <1>21, <1>22, <1>23 DEF IInv

LEMMA RotateStep ==
  ASSUME IInv, Rotate
  PROVE  IInv' /\ Settled' = Settled
<1>1. /\ pc = "inner" /\ pc' = "refill" /\ s < 1
      /\ stages' = [t \in 0 .. H |-> IF t = 0 THEN stages[H] ELSE stages[t - 1]]
      /\ UNCHANGED <<args, outs, H, curr, memory, s, next_query_idx, finished_count>>
  BY DEF Rotate
<1>2. /\ Settled' = Settled /\ n' = n /\ QueryIdx' = QueryIdx /\ NodeIds(tree)' = NodeIds(tree)
      /\ (NothingToDo' <=> NothingToDo) /\ OutsTypeOK' /\ ~NothingToDo
      /\ OneTaskPerQuery' /\ TasksDealt' /\ FinishedCountExact' /\ SettledRight'
  BY <1>1, Quiet DEF IInv, Phases
<1>3. Built /\ tree' = tree /\ queries' = queries /\ Live(H) = {} /\ s \in 0 .. H /\ s = 0
  BY <1>1, <1>2 DEF Built, args, IInv, Phases, TypeOK
<1>4. /\ H \in Nat \ {0} /\ stages \in [0 .. H -> 0 .. H] /\ DOMAIN stages = 0 .. H
  BY <1>3, BuiltFacts
<1>5. stages' \in [0 .. H -> 0 .. H]
  <2>1. \A t \in 0 .. H : t # 0 => t - 1 \in 0 .. H
    BY <1>4
  <2>2. H \in 0 .. H
    BY <1>4
  <2> QED  BY <1>1, <1>4, <2>1, <2>2
<1>6. /\ \A t \in 0 .. H : t # 0 => /\ t - 1 \in 0 .. H
                                    /\ stages'[t] = stages[t - 1]
                                    /\ Stage(t)' = Stage(t - 1)
                                    /\ Live(t)' = Live(t - 1)
      /\ \A t \in 0 .. H : t = 0 => stages'[t] = stages[H] /\ Live(t)' = {}
  <2>1. \A t \in 0 .. H : t # 0 => t - 1 \in 0 .. H /\ stages'[t] = stages[t - 1]
    BY <1>1, <1>4
  <2>2. \A t \in 0 .. H : t # 0 => Stage(t)' = Stage(t - 1) /\ Live(t)' = Live(t - 1)
    BY <1>1, <2>1 DEF Stage, Live
  <2>3. \A t \in 0 .. H : t = 0 => stages'[t] = stages[H]
    BY <1>1, <1>4
  <2>4. \A t \in 0 .. H : t = 0 => Live(t)' = {}
    BY <1>1, <1>3, <2>3 DEF Live, Stage
  <2> QED  BY <2>1, <2>2, <2>3, <2>4
<1>7. TypeOK'
  <2>1. memory' = memory /\ memory \in [0 .. H -> [Group -> [query_idx : QueryIdx, node : NodeIds(tree) \cup {NULL}]]]
    BY <1>1, <1>3, BuiltFacts
  <2> QED  BY <1>1, <1>2, <1>5, <2>1 DEF IInv, TypeOK
<1>8. HeightCounted' /\ Phases'
  BY <1>1, <1>2, <1>3 DEF IInv, HeightCounted, Phases, Built, Node
<1>9. StagesDistinct'
  <2>1. ASSUME NEW t \in 0 .. H, NEW u \in 0 .. H, stages'[t] = stages'[u]
        PROVE  t = u
    <3>1. H \in 0 .. H
      BY <1>4
    <3>2. CASE t = 0 /\ u = 0
      BY <3>2
    <3>3. CASE t # 0 /\ u # 0
      <4>1. stages[t - 1] = stages[u - 1] /\ t - 1 \in 0 .. H /\ u - 1 \in 0 .. H
        BY <1>6, <2>1, <3>3
      <4>2. t - 1 = u - 1
        BY <1>4, <4>1 DEF IInv, StagesDistinct
      <4> QED  BY <4>2
    <3>4. CASE t = 0 /\ u # 0
      <4>1. stages[H] = stages[u - 1] /\ u - 1 \in 0 .. H
        BY <1>6, <2>1, <3>4
      <4>2. H = u - 1
        BY <1>4, <3>1, <4>1 DEF IInv, StagesDistinct
      <4> QED  BY <1>4, <4>2
    <3>5. CASE t # 0 /\ u = 0
      <4>1. stages[t - 1] = stages[H] /\ t - 1 \in 0 .. H
        BY <1>6, <2>1, <3>5
      <4>2. t - 1 = H
        BY <1>4, <3>1, <4>1 DEF IInv, StagesDistinct
      <4> QED  BY <1>4, <4>2
    <3> QED  BY <3>2, <3>3, <3>4, <3>5
  <2>2. DOMAIN stages' = 0 .. H
    BY <1>1
  <2> QED  BY <2>1, <2>2 DEF StagesDistinct
<1>10. StagesAligned'
  <2>1. ASSUME NEW t \in DOMAIN stages', NEW i \in Live(t)'
        PROVE  /\ Node(Stage(t)[i].node)'.level = LevelOf(t)'
               /\ OnPath(Stage(t)[i].query_idx, Stage(t)[i].node)'
    <3>1. t \in 0 .. H
      BY <1>1
    <3>2. t # 0
      BY <1>6, <2>1, <3>1
    <3>3. PICK u : u = t - 1
      OBVIOUS
    <3>4. Stage(t)' = Stage(u) /\ i \in Live(u) /\ u \in 0 .. H
      BY <1>6, <2>1, <3>1, <3>2, <3>3
    <3>5. /\ Node(Stage(u)[i].node).level = LevelOf(u)
          /\ OnPath(Stage(u)[i].query_idx, Stage(u)[i].node)
      BY <1>3, <3>4, LiveFacts
    <3>6. LevelOf(t)' = LevelOf(u)
      BY <1>1, <1>3, <1>4, <3>1, <3>2, <3>3, <3>4 DEF LevelOf
    <3> QED  BY <1>3, <3>4, <3>5, <3>6 DEF Node, OnPath, KeyAt
  <2>2. pc' = "refill" => Live(0)' = {}
    BY <1>4, <1>6
  <2> QED  BY <2>1, <2>2 DEF StagesAligned
<1> QED  BY <1>2, <1>7, <1>8, <1>9, <1>10 DEF IInv

LEMMA RefillStep ==
  ASSUME IInv, Refill
  PROVE  IInv' /\ Settled' = Settled
<1>1. /\ pc = "refill" /\ pc' = "loop"
      /\ UNCHANGED <<args, outs, H, curr, stages, s, finished_count>>
      /\ next_query_idx' = Min2(next_query_idx + GROUP_SIZE, n)
  BY DEF Refill
<1>2. /\ n' = n /\ QueryIdx' = QueryIdx /\ NodeIds(tree)' = NodeIds(tree)
      /\ (NothingToDo' <=> NothingToDo) /\ OutsTypeOK' /\ ~NothingToDo
      /\ \A q : (RightAnswer(q)' <=> RightAnswer(q)) /\ (Unanswered(q)' <=> Unanswered(q))
  BY <1>1, OutsUnchanged DEF IInv, TypeOK, Phases
<1>3. Built /\ tree' = tree /\ queries' = queries
  BY <1>1, <1>2 DEF Built, args
<1>4. /\ H \in Nat \ {0} /\ H = Node(tree.root).level + 1 /\ DOMAIN memory = 0 .. H
      /\ n \in Nat \ {0} /\ next_query_idx \in 0 .. n
      /\ tree.root \in NodeIds(tree) /\ NULL \notin NodeIds(tree)
      /\ \A q \in QueryIdx : OnPath(q, tree.root)
      /\ GROUP_SIZE \in Nat \ {0}
  BY <1>3, BuiltFacts, GroupAssumption
<1>5. PICK t \in 0 .. H : t = 0
  BY <1>4
<1>6. PICK row : row = [i \in Group |-> IF next_query_idx + i < n
                                        THEN [query_idx |-> next_query_idx + i, node |-> tree.root]
                                        ELSE [query_idx |-> Stage(t)[i].query_idx, node |-> NULL]]
  OBVIOUS
<1>7. memory' = [memory EXCEPT ![stages[t]] = row]
  BY <1>5, <1>6 DEF Refill, Stage
<1>8. /\ Stage(t)' = row
      /\ \A u \in 0 .. H : u # t => Stage(u)' = Stage(u) /\ Live(u)' = Live(u)
      /\ DOMAIN memory' = 0 .. H /\ DOMAIN stages' = 0 .. H
      /\ memory'[stages[t]] = row
      /\ \A b \in 0 .. H : b # stages[t] => memory'[b] = memory[b]
      /\ stages[t] \in 0 .. H
  BY <1>1, <1>3, <1>7, OneBuffer, BuiltFacts
<1>9. /\ \A i \in Group : next_query_idx + i < n =>
            /\ row[i].query_idx = next_query_idx + i /\ row[i].node = tree.root
            /\ next_query_idx + i \in QueryIdx /\ next_query_idx + i \in 0 .. next_query_idx' - 1
      /\ \A i \in Group : ~(next_query_idx + i < n) => row[i].node = NULL
      /\ next_query_idx' \in 0 .. n /\ next_query_idx <= next_query_idx'
      /\ \A q \in 0 .. next_query_idx' - 1 :
            q \notin 0 .. next_query_idx - 1 =>
              \E i \in Group : q = next_query_idx + i /\ next_query_idx + i < n
  <2>1. next_query_idx' \in 0 .. n /\ next_query_idx <= next_query_idx'
    BY <1>1, <1>4 DEF Min2
  <2>2. ASSUME NEW i \in Group, next_query_idx + i < n
        PROVE  /\ row[i].query_idx = next_query_idx + i /\ row[i].node = tree.root
               /\ next_query_idx + i \in QueryIdx /\ next_query_idx + i \in 0 .. next_query_idx' - 1
    <3>1. row[i] = [query_idx |-> next_query_idx + i, node |-> tree.root]
      BY <1>6, <2>2
    <3>2. next_query_idx + i \in QueryIdx /\ next_query_idx + i \in 0 .. next_query_idx' - 1
      BY <1>1, <1>4, <2>2 DEF Min2, Group, QueryIdx
    <3> QED  BY <3>1, <3>2
  <2>3. ASSUME NEW i \in Group, ~(next_query_idx + i < n) PROVE row[i].node = NULL
    BY <1>6, <2>3
  <2>4. ASSUME NEW q \in 0 .. next_query_idx' - 1, q \notin 0 .. next_query_idx - 1
        PROVE  \E i \in Group : q = next_query_idx + i /\ next_query_idx + i < n
    <3>1. q - next_query_idx \in Group /\ q = next_query_idx + (q - next_query_idx) /\ q < n
      BY <1>1, <1>4, <2>1, <2>4 DEF Min2, Group
    <3> QED  BY <3>1
  <2> QED  BY <2>1, <2>2, <2>3, <2>4
<1>10. Live(t) = {}
  BY <1>1, <1>5 DEF IInv, StagesAligned
<1>11. \A x \in Tasks : x[1] # stages[t]
  <2> TAKE x \in Tasks
  <2>1. x \in (0 .. H) \X Group /\ Task(x).node # NULL
    BY <1>4 DEF Tasks
  <2> QED  BY <2>1, <1>10 DEF Task, Live, Stage
<1>12. /\ \A x \in Tasks : x \in Tasks' /\ Task(x)' = Task(x)
       /\ \A x \in Tasks' : \/ x \in Tasks
                            \/ /\ x = <<stages[t], x[2]>> /\ x[2] \in Group
                               /\ next_query_idx + x[2] < n
                               /\ Task(x)' = row[x[2]]
       /\ \A i \in Group : next_query_idx + i < n => <<stages[t], i>> \in Tasks'
  <2>1. ASSUME NEW x \in Tasks PROVE x \in Tasks' /\ Task(x)' = Task(x)
    <3>1. x \in (0 .. H) \X Group /\ x[1] # stages[t] /\ Task(x).node # NULL
      BY <1>4, <1>11 DEF Tasks
    <3>2. Task(x)' = Task(x)
      BY <1>8, <3>1 DEF Task
    <3> QED  BY <1>8, <3>1, <3>2 DEF Tasks
  <2>2. ASSUME NEW x \in Tasks', x \notin Tasks
        PROVE  /\ x = <<stages[t], x[2]>> /\ x[2] \in Group /\ next_query_idx + x[2] < n
               /\ Task(x)' = row[x[2]]
    <3>1. x \in (0 .. H) \X Group /\ Task(x)'.node # NULL
      BY <1>8 DEF Tasks
    <3>2. x[1] = stages[t]
      BY <1>4, <1>8, <2>2, <3>1 DEF Tasks, Task
    <3>3. Task(x)' = row[x[2]]
      BY <1>8, <3>2 DEF Task
    <3> QED  BY <1>9, <3>1, <3>2, <3>3
  <2>3. ASSUME NEW i \in Group, next_query_idx + i < n PROVE <<stages[t], i>> \in Tasks'
    <3>1. row[i].node # NULL
      BY <1>4, <1>9, <2>3
    <3> QED  BY <1>8, <3>1 DEF Tasks, Task
  <2> QED  BY <2>1, <2>2, <2>3
<1>13. \A x \in Tasks : Task(x).query_idx \in 0 .. next_query_idx - 1
  BY DEF IInv, TasksDealt
<1>14. \A x \in Tasks' : \/ x \in Tasks /\ Task(x)' = Task(x)
                         \/ \E i \in Group : /\ x = <<stages[t], i>> /\ next_query_idx + i < n
                                             /\ Task(x)'.query_idx = next_query_idx + i
  BY <1>9, <1>12
<1>15. OneTaskPerQuery' /\ TasksDealt'
  <2>1. ASSUME NEW x \in Tasks', NEW y \in Tasks', Task(x)'.query_idx = Task(y)'.query_idx
        PROVE  x = y
    <3>1. CASE x \in Tasks /\ y \in Tasks
      BY <1>12, <2>1, <3>1 DEF IInv, OneTaskPerQuery
    <3>2. CASE x \in Tasks /\ y \notin Tasks
      BY <1>4, <1>12, <1>13, <1>14, <2>1, <3>2 DEF Group
    <3>3. CASE x \notin Tasks /\ y \in Tasks
      BY <1>4, <1>12, <1>13, <1>14, <2>1, <3>3 DEF Group
    <3>4. CASE x \notin Tasks /\ y \notin Tasks
      BY <1>4, <1>14, <2>1, <3>4 DEF Group
    <3> QED  BY <3>1, <3>2, <3>3, <3>4
  <2>2. ASSUME NEW x \in Tasks' PROVE Task(x)'.query_idx \in 0 .. next_query_idx' - 1
    <3>1. CASE x \in Tasks /\ Task(x)' = Task(x)
      <4>1. Task(x).query_idx \in 0 .. next_query_idx - 1
        BY <1>13, <3>1
      <4> QED  BY <1>4, <1>9, <3>1, <4>1, BelowGrows
    <3>2. CASE \E i \in Group : /\ x = <<stages[t], i>> /\ next_query_idx + i < n
                                /\ Task(x)'.query_idx = next_query_idx + i
      BY <1>9, <3>2
    <3> QED  BY <1>14, <3>1, <3>2
  <2> QED  BY <2>1, <2>2 DEF OneTaskPerQuery, TasksDealt
<1>16. Settled' = Settled
  <2>1. ASSUME NEW q \in Settled PROVE q \in Settled'
    <3>1. q \in 0 .. next_query_idx - 1 /\ q \notin InFlight
      BY DEF Settled
    <3>2. q \in 0 .. next_query_idx' - 1
      <4>1. next_query_idx \in Int /\ next_query_idx' \in Int /\ next_query_idx <= next_query_idx'
        BY <1>4, <1>9
      <4> QED  BY <3>1, <4>1, BelowGrows
    <3>3. q \notin InFlight'
      <4> SUFFICES ASSUME NEW x \in Tasks', Task(x)'.query_idx = q PROVE FALSE
        BY DEF InFlight
      <4>1. CASE x \in Tasks /\ Task(x)' = Task(x)
        BY <3>1, <4>1 DEF InFlight
      <4>2. CASE \E i \in Group : Task(x)'.query_idx = next_query_idx + i
        BY <1>4, <3>1, <4>2 DEF Group
      <4> QED  BY <1>14, <4>1, <4>2
    <3> QED  BY <3>2, <3>3 DEF Settled
  <2>2. ASSUME NEW q \in Settled' PROVE q \in Settled
    <3>1. q \in 0 .. next_query_idx' - 1 /\ q \notin InFlight'
      BY DEF Settled
    <3>2. q \in 0 .. next_query_idx - 1
      <4> SUFFICES ASSUME q \notin 0 .. next_query_idx - 1 PROVE FALSE
        OBVIOUS
      <4>1. PICK i \in Group : q = next_query_idx + i /\ next_query_idx + i < n
        BY <1>9, <3>1
      <4>2. PICK x : x = <<stages[t], i>>
        OBVIOUS
      <4>3. x \in Tasks' /\ x \notin Tasks
        BY <1>11, <1>12, <4>1, <4>2
      <4>4. Task(x)'.query_idx = q
        BY <1>9, <1>12, <4>1, <4>2, <4>3
      <4> QED  BY <3>1, <4>3, <4>4 DEF InFlight
    <3>3. q \notin InFlight
      BY <1>12, <3>1 DEF InFlight
    <3> QED  BY <3>2, <3>3 DEF Settled
  <2> QED  BY <2>1, <2>2
<1>17. TypeOK'
  <2>1. Stage(t) \in [Group -> [query_idx : QueryIdx, node : NodeIds(tree) \cup {NULL}]]
    BY <1>3, BuiltFacts DEF Stage
  <2>2. row \in [Group -> [query_idx : QueryIdx, node : NodeIds(tree) \cup {NULL}]]
    BY <1>4, <1>6, <1>9, <2>1
  <2>3. memory' \in [0 .. H -> [Group -> [query_idx : QueryIdx, node : NodeIds(tree) \cup {NULL}]]]
    BY <1>3, <1>7, <2>2, BuiltFacts
  <2> QED  BY <1>1, <1>2, <1>9, <2>3 DEF IInv, TypeOK
<1>18. HeightCounted' /\ Phases' /\ StagesDistinct'
  BY <1>1, <1>2, <1>3 DEF IInv, HeightCounted, Phases, Built, Node, StagesDistinct
<1>19. StagesAligned'
  <2>1. ASSUME NEW u \in DOMAIN stages', NEW i \in Live(u)'
        PROVE  /\ Node(Stage(u)[i].node)'.level = LevelOf(u)'
               /\ OnPath(Stage(u)[i].query_idx, Stage(u)[i].node)'
    <3>1. u \in 0 .. H
      BY <1>8
    <3>2. CASE u = t
      <4>1. Stage(u)' = row /\ i \in Group /\ row[i].node # NULL
        BY <1>8, <2>1, <3>2 DEF Live
      <4>2. row[i].node = tree.root /\ row[i].query_idx \in QueryIdx
        BY <1>9, <4>1
      <4>3. LevelOf(u)' = H - 1
        BY <1>1, <1>5, <3>2 DEF LevelOf
      <4>4. Node(tree.root).level = H - 1
        <5>1. Node(tree.root).level \in Nat
          BY <1>3, <1>4, BuiltFacts DEF WellFormed, NodeOK, Node
        <5> QED  BY <1>4, <5>1
      <4> QED  BY <1>3, <1>4, <4>1, <4>2, <4>3, <4>4 DEF Node, OnPath, KeyAt
    <3>3. CASE u # t
      <4>1. Stage(u)' = Stage(u) /\ i \in Live(u)
        BY <1>8, <2>1, <3>1, <3>3
      <4>2. /\ Node(Stage(u)[i].node).level = LevelOf(u)
            /\ OnPath(Stage(u)[i].query_idx, Stage(u)[i].node)
        BY <1>3, <3>1, <4>1, LiveFacts
      <4>3. LevelOf(u)' = LevelOf(u)
        BY <1>1, <1>5, <3>3 DEF LevelOf
      <4> QED  BY <1>3, <4>1, <4>2, <4>3 DEF Node, OnPath, KeyAt
    <3> QED  BY <3>2, <3>3
  <2> QED  BY <2>1, <1>1 DEF StagesAligned
<1>20. FinishedCountExact' /\ SettledRight'
  BY <1>1, <1>2, <1>16 DEF IInv, FinishedCountExact, SettledRight
<1> QED  BY <1>15, <1>16, <1>17, <1>18, <1>19, <1>20 DEF IInv

LEMMA StepIInv ==
  ASSUME IInv, [Next]_vars
  PROVE  IInv'
<1>1. CASE Start       BY <1>1, StartStep
<1>2. CASE CountLevel  BY <1>2, CountLevelStep
<1>3. CASE Allocate    BY <1>3, AllocateStep
<1>4. CASE LoopTest    BY <1>4, LoopTestStep
<1>5. CASE LeafStage   BY <1>5, LeafStageStep
<1>6. CASE InnerStage  BY <1>6, InnerStageStep
<1>7. CASE Rotate      BY <1>7, RotateStep
<1>8. CASE Refill      BY <1>8, RefillStep
<1>9. CASE UNCHANGED vars
  <2>1. /\ UNCHANGED <<args, outs, memory, next_query_idx, finished_count>>
        /\ UNCHANGED <<tree, queries, pc, H, curr, stages, s>>
    BY <1>9 DEF vars, args, outs
  <2>2. /\ n' = n /\ QueryIdx' = QueryIdx /\ NodeIds(tree)' = NodeIds(tree)
        /\ (NothingToDo' <=> NothingToDo) /\ OutsTypeOK'
        /\ OneTaskPerQuery' /\ TasksDealt' /\ FinishedCountExact' /\ SettledRight'
    BY <2>1, Quiet
  <2>3. \A t : Live(t)' = Live(t) /\ Stage(t)' = Stage(t) /\ LevelOf(t)' = LevelOf(t)
    BY <2>1 DEF Live, Stage, LevelOf
  <2>4. Live(H)' = Live(H) /\ (Built' <=> Built)
    BY <2>1, <2>2 DEF Live, Stage, Built
  <2>5. TypeOK'
    BY <2>1, <2>2 DEF IInv, TypeOK
  <2>6. HeightCounted' /\ Phases' /\ StagesDistinct'
    BY <2>1, <2>2, <2>4 DEF IInv, HeightCounted, Phases, StagesDistinct, Node
  <2>7. StagesAligned'
    BY <2>1, <2>3 DEF IInv, StagesAligned, Node, OnPath, KeyAt
  <2> QED  BY <2>2, <2>5, <2>6, <2>7 DEF IInv
<1> QED  BY <1>1, <1>2, <1>3, <1>4, <1>5, <1>6, <1>7, <1>8, <1>9 DEF Next, Returned

-----------------------------------------------------------------------------
(* What the invariant says once the call has returned.                     *)

LEMMA AllSettledAtReturn ==
  ASSUME IInv, finished_count >= n
  PROVE  Settled = QueryIdx /\ next_query_idx = n /\ Tasks = {}
<1>1. n \in Nat /\ next_query_idx \in 0 .. n /\ Settled \subseteq QueryIdx
  BY SettledFacts
<1>2. Settled = QueryIdx
  <2>1. Cardinality(Settled) \in Nat /\ Cardinality(Settled) <= n
    BY <1>1, PositionsFinite DEF IInv, TypeOK
  <2>2. Cardinality(Settled) = n
    BY <1>1, <2>1 DEF IInv, FinishedCountExact
  <2> QED  BY <1>1, <2>2, PositionsFinite DEF IInv, TypeOK
<1>3. next_query_idx = n
  <2> SUFFICES ASSUME next_query_idx < n PROVE FALSE
    BY <1>1
  <2>1. n - 1 \in QueryIdx
    BY <1>1 DEF QueryIdx
  <2>2. n - 1 \notin Settled
    BY <1>1 DEF Settled
  <2> QED  BY <1>2, <2>1, <2>2
<1>4. Tasks = {}
  <2> SUFFICES ASSUME NEW x \in Tasks PROVE FALSE
    OBVIOUS
  <2>1. Task(x).query_idx \in 0 .. next_query_idx - 1 /\ Task(x).query_idx \in InFlight
    BY DEF IInv, TasksDealt, InFlight
  <2>2. Task(x).query_idx \in QueryIdx /\ Task(x).query_idx \notin Settled
    BY <1>3, <2>1 DEF Settled, QueryIdx
  <2> QED  BY <1>2, <2>2
<1> QED  BY <1>2, <1>3, <1>4

LEMMA IInvImpliesAnswersRight == IInv => AnswersRight
<1> SUFFICES ASSUME IInv, NEW q \in QueryIdx
             PROVE  IF q \in Answered THEN RightAnswer(q) ELSE Unanswered(q)
  BY DEF AnswersRight
<1>1. IF q \in Settled THEN RightAnswer(q) ELSE Unanswered(q)
  BY DEF IInv, SettledRight
<1>2. CASE pc # "returned"
  BY <1>1, <1>2 DEF Answered
<1>3. CASE pc = "returned" /\ NothingToDo
  <2>1. Unanswered(q) \/ RightAnswer(q)
    BY <1>1
  <2> QED  BY <1>3, <2>1, NothingToDoIsRight DEF Answered, IInv, TypeOK
<1>4. CASE pc = "returned" /\ ~NothingToDo
  BY <1>1, <1>4, AllSettledAtReturn DEF Answered, IInv, Phases
<1> QED  BY <1>2, <1>3, <1>4

LEMMA IInvImpliesReturnsComplete == IInv => ReturnsComplete
BY AllSettledAtReturn DEF ReturnsComplete, IInv, Phases

-----------------------------------------------------------------------------
(* The theorems.                                                           *)

LEMMA Invariance == Spec => []IInv
<1>1. Init => IInv
  BY InitIInv
<1>2. IInv /\ [Next]_vars => IInv'
  BY StepIInv
<1> QED  BY <1>1, <1>2, PTL DEF Spec

(* Buffers, pointers, counters and output vectors keep their types. *)
THEOREM TypeCorrect == Spec => []TypeOK
<1>1. IInv => TypeOK
  BY DEF IInv
<1> QED  BY <1>1, Invariance, PTL

(* The rotation never loses a buffer or gives one to two stages. *)
THEOREM NoBufferShared == Spec => []StagesDistinct
<1>1. IInv => StagesDistinct
  BY DEF IInv
<1> QED  BY <1>1, Invariance, PTL

(* Whatever the height of the tree, every stage works on nodes of its own  *)
(* level, and every task is on the path of its key.                        *)
THEOREM LevelsAligned == Spec => []StagesAligned
<1>1. IInv => StagesAligned
  BY DEF IInv
<1> QED  BY <1>1, Invariance, PTL

(* No query is in two places of the pipeline. *)
THEOREM NoQueryTwice == Spec => []OneTaskPerQuery
<1>1. IInv => OneTaskPerQuery
  BY DEF IInv
<1> QED  BY <1>1, Invariance, PTL

(* finished_count is the number of queries that have left the pipeline. *)
THEOREM FinishedCounterExact == Spec => []FinishedCountExact
<1>1. IInv => FinishedCountExact
  BY DEF IInv
<1> QED  BY <1>1, Invariance, PTL

(* Every answer given is the right one, and no other entry has been touched. *)
THEOREM EveryAnswerRight == Spec => []AnswersRight
BY Invariance, IInvImpliesAnswersRight, PTL

(* The call returns with every query dealt and the pipeline drained. *)
THEOREM ReturnIsComplete == Spec => []ReturnsComplete
BY Invariance, IInvImpliesReturnsComplete, PTL

(* All the parts together: pipeline, counters and answers always agree. *)
THEOREM StaysExact == Spec => []PipelineExact
BY TypeCorrect, NoBufferShared, LevelsAligned, NoQueryTwice, FinishedCounterExact,
   EveryAnswerRight, ReturnIsComplete, PTL DEF PipelineExact

-----------------------------------------------------------------------------
(* The pipeline implements the abstract batch lookup.                      *)

LEMMA InitRefines == Init => Abstract!Init
<1> SUFFICES ASSUME Init PROVE Abstract!Init
  OBVIOUS
<1>1. OutsTypeOK /\ Settled = {}
  BY InitIInv DEF IInv, TypeOK
<1>2. Answered = {}
  BY <1>1 DEF Init, Answered
<1> QED  BY <1>1, <1>2, AbstractTypes
         DEF Init, ArgsAndOutsInit, Abstract!Init, Abstract!Positions, QueryIdx, n

LEMMA StepRefines ==
  ASSUME IInv, [Next]_vars
  PROVE  [Abstract!Next]_(Abstract!vars)
<1>1. IInv'
  BY StepIInv
<1>2. ASSUME UNCHANGED <<args, outs>>, Answered' = Answered
      PROVE  UNCHANGED Abstract!vars
  <2>1. tree' = tree /\ queries' = queries /\ found' = found /\ results' = results
    BY <1>2 DEF args, outs
  <2>2. Stored(tree)' = Stored(tree)
    BY <2>1 DEF Stored, Leaves, NodeIds, Slots, isleafnode
  <2> QED  BY <1>2, <2>1, <2>2 DEF Abstract!vars
<1>3. ASSUME UNCHANGED args, Answered \subseteq Answered', Answered' \subseteq QueryIdx,
             \A q \in Answered' \ Answered : RightAnswer(q)',
             \A q \in QueryIdx \ (Answered' \ Answered) :
                  found'[q] = found[q] /\ results'[q] = results[q],
             Answered # Answered'
      PROVE  Abstract!Answer
  <2>1. tree' = tree /\ queries' = queries
    BY <1>3 DEF args
  <2>2. Stored(tree)' = Stored(tree) /\ QueryIdx' = QueryIdx
    BY <2>1 DEF Stored, Leaves, NodeIds, Slots, isleafnode, QueryIdx, n
  <2>3. Abstract!Positions = QueryIdx
    BY DEF Abstract!Positions, QueryIdx, n
  <2>4. ASSUME NEW q \in Answered' \ Answered PROVE Abstract!RightAnswer(q)'
    <3>1. RightAnswer(q)'
      BY <1>3
    <3> QED  BY <3>1 DEF RightAnswer, Present, KeyAt, Abstract!RightAnswer, Abstract!KeyAt
  <2>5. DOMAIN found' = QueryIdx /\ DOMAIN results' = QueryIdx
    BY <1>1, <2>2 DEF IInv, TypeOK, OutsTypeOK
  <2> QED  BY <1>3, <2>1, <2>2, <2>3, <2>4, <2>5 DEF Abstract!Answer
<1>4. CASE Start
  <2>1. UNCHANGED <<args, outs>> /\ pc = "start" /\ pc' \in {"returned", "height"}
    BY <1>4 DEF Start
  <2>2. Settled = {} /\ Answered = {} /\ Settled' = {}
    <3>1. next_query_idx = 0
      BY <2>1 DEF IInv, HeightCounted
    <3> QED  BY <1>4, <2>1, <3>1, StartStep DEF Answered, Settled
  <2>3. CASE NothingToDo
    <3>1. Answered' = QueryIdx /\ QueryIdx' = QueryIdx
      BY <1>4, <2>1, <2>3, OutsUnchanged DEF Start, Answered
    <3>2. \A q \in QueryIdx : RightAnswer(q)'
      BY <2>1, <2>2, <2>3, OutsUnchanged, NothingToDoIsRight DEF IInv, TypeOK, SettledRight
    <3>3. found' = found /\ results' = results
      BY <2>1 DEF outs
    <3>4. CASE QueryIdx = {}
      BY <1>2, <2>1, <2>2, <3>1, <3>4
    <3>5. CASE QueryIdx # {}
      BY <1>3, <2>1, <2>2, <3>1, <3>2, <3>3, <3>5 DEF Abstract!Next
    <3> QED  BY <3>4, <3>5
  <2>4. CASE ~NothingToDo
    <3>1. pc' = "height"
      BY <1>4, <2>4 DEF Start
    <3> QED  BY <1>2, <2>1, <2>2, <3>1 DEF Answered
  <2> QED  BY <2>3, <2>4
<1>5. CASE CountLevel \/ Allocate \/ InnerStage \/ Rotate \/ Refill
  <2>1. UNCHANGED <<args, outs>> /\ pc # "returned" /\ pc' # "returned"
    BY <1>5 DEF CountLevel, Allocate, InnerStage, Rotate, Refill
  <2>2. Settled' = Settled
    BY <1>5, CountLevelStep, AllocateStep, InnerStageStep, RotateStep, RefillStep
  <2> QED  BY <1>2, <2>1, <2>2 DEF Answered
<1>6. CASE LoopTest
  <2>1. UNCHANGED <<args, outs>> /\ pc = "loop" /\ Settled' = Settled
    BY <1>6, LoopTestStep DEF LoopTest
  <2>2. CASE finished_count < n
    <3>1. pc' = "leaves"
      BY <1>6, <2>2 DEF LoopTest
    <3> QED  BY <1>2, <2>1, <3>1 DEF Answered
  <2>3. CASE ~(finished_count < n)
    <3>1. pc' = "returned" /\ QueryIdx' = QueryIdx
      BY <1>6, <2>1, <2>3, OutsUnchanged DEF LoopTest
    <3>2. n \in Nat /\ finished_count \in Nat
      BY SettledFacts DEF IInv, TypeOK
    <3>3. Settled = QueryIdx
      BY <2>3, <3>2, AllSettledAtReturn
    <3> QED  BY <1>2, <2>1, <3>1, <3>3 DEF Answered
  <2> QED  BY <2>2, <2>3
<1>7. CASE LeafStage
  <2>1. UNCHANGED args /\ pc = "leaves" /\ pc' = "inner"
    BY <1>7 DEF LeafStage
  <2>2. PICK Qs \in SUBSET (QueryIdx \ Settled) :
           /\ Settled' = Settled \cup Qs
           /\ \A r \in QueryIdx \ Qs : found'[r] = found[r] /\ results'[r] = results[r]
    BY <1>7, LeafStageStep
  <2>3. Answered = Settled /\ Answered' = Settled \cup Qs
    BY <2>1, <2>2 DEF Answered
  <2>4. Settled' \subseteq QueryIdx /\ QueryIdx' = QueryIdx /\ Settled \subseteq QueryIdx
    BY <1>7, <2>2, LeafStageStep, SettledFacts
  <2>5. \A q \in Qs : RightAnswer(q)'
    BY <1>1, <2>2, <2>4 DEF IInv, SettledRight
  <2>6. Answered' \ Answered = Qs
    BY <2>2, <2>3
  <2>7. CASE Qs = {}
    <3>1. DOMAIN found = QueryIdx /\ DOMAIN results = QueryIdx
          /\ DOMAIN found' = QueryIdx /\ DOMAIN results' = QueryIdx
      BY <1>1, <2>4 DEF IInv, TypeOK, OutsTypeOK
    <3>2. found' = found /\ results' = results
      <4>1. /\ found \in [QueryIdx -> BOOLEAN] /\ found' \in [QueryIdx -> BOOLEAN]
            /\ results \in [QueryIdx -> Value \cup {Stale}]
            /\ results' \in [QueryIdx -> Value \cup {Stale}]
        BY <1>1, <2>4 DEF IInv, TypeOK, OutsTypeOK
      <4>2. \A r \in QueryIdx : found'[r] = found[r] /\ results'[r] = results[r]
        BY <2>2, <2>7
      <4> QED  BY <4>1, <4>2
    <3> QED  BY <1>2, <2>1, <2>3, <2>7, <3>2 DEF outs
  <2>8. CASE Qs # {}
    <3>1. Answered \subseteq Answered' /\ Answered' \subseteq QueryIdx /\ Answered # Answered'
      BY <2>2, <2>3, <2>4, <2>6, <2>8
    <3>2. Abstract!Answer
      BY <1>3, <2>1, <2>2, <2>5, <2>6, <3>1
    <3> QED  BY <3>2 DEF Abstract!Next
  <2> QED  BY <2>7, <2>8
<1>8. CASE UNCHANGED vars
  <2>1. UNCHANGED <<args, outs, memory, next_query_idx, finished_count>> /\ pc' = pc
    BY <1>8 DEF vars, args, outs
  <2>2. Answered' = Answered
    BY <2>1, Quiet DEF Answered
  <2> QED  BY <1>2, <2>1, <2>2
<1> QED  BY <1>4, <1>5, <1>6, <1>7, <1>8 DEF Next, Returned

(* SPP implements the abstract batch lookup: it answers the queries of a   *)
(* whole stage at a time, or all of them at once when the tree is empty.   *)
THEOREM Refinement == Spec => RefinesBatchLookup
<1>1. Init => Abstract!Init
  BY InitRefines
<1>2. IInv /\ [Next]_vars => [Abstract!Next]_(Abstract!vars)
  BY StepRefines
<1> QED  BY <1>1, <1>2, Invariance, PTL DEF Spec, RefinesBatchLookup, Abstract!SafeSpec

-----------------------------------------------------------------------------
(* The pipeline is first-in first-out.                                     *)

(* Every buffer is some stage's, so that no task escapes the stages. *)
BuffersStaged == \A b \in DOMAIN memory : \E t \in DOMAIN stages : stages[t] = b

(* A later stage holds earlier queries. *)
StagesOrdered ==
  \A t, u \in DOMAIN stages : t < u =>
     \A i \in Live(t), j \in Live(u) : Stage(u)[j].query_idx < Stage(t)[i].query_idx

(* Every settled query is older than every query in the pipeline. *)
OldestSettled == \A q \in Settled : \A x \in Tasks : q < Task(x).query_idx

Fifo == BuffersStaged /\ StagesOrdered /\ OldestSettled

(* Before there is a pipeline there is nothing to order. *)
LEMMA NoBuffersFifo ==
  ASSUME DOMAIN memory = {}, DOMAIN stages = {}
  PROVE  Fifo
<1>1. Tasks = {}
  BY DEF Tasks
<1> QED  BY <1>1 DEF Fifo, BuffersStaged, StagesOrdered, OldestSettled

(* Steps that leave pipeline and counters alone keep the order. *)
LEMMA QuietFifo ==
  ASSUME Fifo, UNCHANGED <<memory, stages>>, Settled' = Settled
  PROVE  Fifo'
<1>1. /\ \A t : Stage(t)' = Stage(t) /\ Live(t)' = Live(t)
      /\ \A x : Task(x)' = Task(x)
  BY DEF Stage, Live, Task
<1>2. Tasks' = Tasks
  BY <1>1 DEF Tasks
<1> QED  BY <1>1, <1>2 DEF Fifo, BuffersStaged, StagesOrdered, OldestSettled

(* A stage that only moves or drops its tasks keeps the order of the stages. *)
LEMMA StageWorked ==
  ASSUME IInv, Built, Fifo, NEW t \in 0 .. H, NEW row,
         stages' = stages, memory' = [memory EXCEPT ![stages[t]] = row],
         \A i \in Group : /\ row[i].query_idx = Stage(t)[i].query_idx
                          /\ Stage(t)[i].node = NULL => row[i].node = NULL
  PROVE  /\ BuffersStaged' /\ StagesOrdered'
         /\ \A x \in Tasks' : x \in Tasks /\ Task(x)'.query_idx = Task(x).query_idx
         /\ \A x \in Tasks : x[1] # stages[t] => x \in Tasks'
<1>1. /\ DOMAIN memory = 0 .. H /\ DOMAIN stages = 0 .. H /\ stages[t] \in 0 .. H
  BY BuiltFacts
<1>2. /\ Stage(t)' = row
      /\ \A u \in 0 .. H : u # t => Stage(u)' = Stage(u) /\ Live(u)' = Live(u)
      /\ DOMAIN memory' = 0 .. H /\ DOMAIN stages' = 0 .. H
      /\ memory'[stages[t]] = row
      /\ \A b \in 0 .. H : b # stages[t] => memory'[b] = memory[b]
  BY OneBuffer
<1>3. \A u \in 0 .. H : \A i \in Live(u)' :
        i \in Live(u) /\ Stage(u)'[i].query_idx = Stage(u)[i].query_idx
  <2>1. \A i \in Live(t)' : i \in Live(t) /\ Stage(t)'[i].query_idx = Stage(t)[i].query_idx
    BY <1>2 DEF Live
  <2>2. \A u \in 0 .. H : u # t =>
           \A i \in Live(u)' : i \in Live(u) /\ Stage(u)'[i].query_idx = Stage(u)[i].query_idx
    BY <1>2
  <2> QED  BY <2>1, <2>2
<1>4. BuffersStaged'
  BY <1>1, <1>2 DEF Fifo, BuffersStaged
<1>5. StagesOrdered'
  BY <1>1, <1>2, <1>3 DEF Fifo, StagesOrdered
<1>6. ASSUME NEW x \in (0 .. H) \X Group
      PROVE  /\ x[1] # stages[t] => Task(x)' = Task(x)
             /\ Task(x)'.query_idx = Task(x).query_idx
             /\ Task(x).node = NULL => Task(x)'.node = NULL
  BY <1>2 DEF Task, Stage
<1>7. \A x \in Tasks' : x \in Tasks /\ Task(x)'.query_idx = Task(x).query_idx
  BY <1>1, <1>2, <1>6 DEF Tasks
<1>8. \A x \in Tasks : x[1] # stages[t] => x \in Tasks'
  BY <1>1, <1>2, <1>6 DEF Tasks
<1> QED  BY <1>4, <1>5, <1>7, <1>8

LEMMA AllocateFifo ==
  ASSUME IInv, Allocate
  PROVE  Fifo'
<1>1. /\ memory' = [b \in 0 .. H |-> [i \in Group |-> NoTask]]
      /\ stages' = [t \in 0 .. H |-> t]
  BY DEF Allocate
<1>2. Tasks' = {}
  BY <1>1 DEF Tasks, Task, NoTask
<1>3. \A t \in DOMAIN stages' : Live(t)' = {}
  BY <1>1 DEF Live, Stage, NoTask
<1>4. BuffersStaged'
  BY <1>1 DEF BuffersStaged
<1> QED  BY <1>2, <1>3, <1>4 DEF Fifo, StagesOrdered, OldestSettled

(* The leaf stage settles the queries of the last stage, the oldest of all. *)
LEMMA LeafStageFifo ==
  ASSUME IInv, Fifo, LeafStage
  PROVE  Fifo'
<1>1. /\ pc = "leaves" /\ UNCHANGED <<args, H, curr, stages, next_query_idx>>
  BY DEF LeafStage
<1>2. Built
  BY <1>1 DEF IInv, Phases, Built
<1>3. /\ H \in 0 .. H /\ H \in Nat \ {0} /\ DOMAIN memory = 0 .. H /\ DOMAIN stages = 0 .. H
      /\ stages[H] \in 0 .. H
  BY <1>2, BuiltFacts
<1>4. PICK row : row = [i \in Group |-> [query_idx |-> Stage(H)[i].query_idx, node |-> NULL]]
  OBVIOUS
<1>5. memory' = [memory EXCEPT ![stages[H]] = row]
  BY <1>4 DEF LeafStage, Stage
<1>6. \A i \in Group : row[i].query_idx = Stage(H)[i].query_idx /\ row[i].node = NULL
  BY <1>4
<1>7. /\ BuffersStaged' /\ StagesOrdered'
      /\ \A x \in Tasks' : x \in Tasks /\ Task(x)'.query_idx = Task(x).query_idx
      /\ \A x \in Tasks : x[1] # stages[H] => x \in Tasks'
  BY <1>1, <1>2, <1>3, <1>5, <1>6, StageWorked
<1>8. \A x \in Tasks' : x[1] # stages[H]
  BY <1>3, <1>5, <1>6 DEF Tasks, Task
<1>9. ASSUME NEW q \in Settled', NEW x \in Tasks'
      PROVE  q < Task(x)'.query_idx
  <2>1. CASE q \in Settled
    BY <1>7, <2>1 DEF Fifo, OldestSettled
  <2>2. CASE q \notin Settled
    <3>1. q \in InFlight /\ q \notin InFlight'
      BY <1>1, <2>2 DEF Settled
    <3>2. PICK y \in Tasks : Task(y).query_idx = q
      BY <3>1 DEF InFlight
    <3>3. y[1] = stages[H]
      <4>1. y \notin Tasks'
        BY <1>7, <3>1, <3>2 DEF InFlight
      <4> QED  BY <1>7, <4>1
    <3>4. y[2] \in Live(H) /\ Task(y) = Stage(H)[y[2]]
      BY <3>2, <3>3 DEF Tasks, Task, Live, Stage
    <3>5. x \in Tasks /\ x[1] # stages[H] /\ x[1] \in DOMAIN memory
      BY <1>7, <1>8 DEF Tasks
    <3>6. PICK t \in DOMAIN stages : stages[t] = x[1]
      BY <3>5 DEF Fifo, BuffersStaged
    <3>7. x[2] \in Live(t) /\ Task(x) = Stage(t)[x[2]]
      BY <3>5, <3>6 DEF Tasks, Task, Live, Stage
    <3>8. t < H
      BY <1>3, <3>5, <3>6
    <3>9. Task(y).query_idx < Task(x).query_idx
      BY <1>3, <3>4, <3>7, <3>8 DEF Fifo, StagesOrdered
    <3> QED  BY <1>7, <3>2, <3>9
  <2> QED  BY <2>1, <2>2
<1> QED  BY <1>7, <1>9 DEF Fifo, OldestSettled

LEMMA InnerStageFifo ==
  ASSUME IInv, Fifo, InnerStage
  PROVE  Fifo'
<1>1. pc = "inner" /\ s >= 1 /\ UNCHANGED stages
  BY DEF InnerStage
<1>2. Built /\ s \in 0 .. H
  BY <1>1 DEF IInv, Phases, Built, TypeOK
<1>3. PICK row : row = [i \in Group |-> Advance(Stage(s)[i])]
  OBVIOUS
<1>4. memory' = [memory EXCEPT ![stages[s]] = row]
  BY <1>3 DEF InnerStage, Stage
<1>5. \A i \in Group : /\ row[i].query_idx = Stage(s)[i].query_idx
                       /\ Stage(s)[i].node = NULL => row[i].node = NULL
  BY <1>3 DEF Advance
<1>6. /\ BuffersStaged' /\ StagesOrdered'
      /\ \A x \in Tasks' : x \in Tasks /\ Task(x)'.query_idx = Task(x).query_idx
  BY <1>1, <1>2, <1>4, <1>5, StageWorked
<1>7. Settled' = Settled
  BY InnerStageStep
<1> QED  BY <1>6, <1>7 DEF Fifo, OldestSettled

(* The rotation gives stage 0 the emptied buffer and ages all the others. *)
LEMMA RotateFifo ==
  ASSUME IInv, Fifo, Rotate
  PROVE  Fifo'
<1>1. /\ pc = "inner" /\ UNCHANGED <<H, memory>>
      /\ stages' = [t \in 0 .. H |-> IF t = 0 THEN stages[H] ELSE stages[t - 1]]
  BY DEF Rotate
<1>2. Built /\ Live(H) = {}
  BY <1>1 DEF IInv, Phases, Built
<1>3. H \in Nat \ {0} /\ DOMAIN stages = 0 .. H /\ DOMAIN stages' = 0 .. H
  BY <1>1, <1>2, BuiltFacts
<1>4. /\ stages'[0] = stages[H]
      /\ \A t \in 0 .. H - 1 : stages'[t + 1] = stages[t]
      /\ \A t \in 0 .. H : t # 0 => stages'[t] = stages[t - 1] /\ t - 1 \in 0 .. H
  BY <1>1, <1>3
<1>5. BuffersStaged'
  <2> SUFFICES ASSUME NEW b \in DOMAIN memory PROVE \E t \in 0 .. H : stages'[t] = b
    BY <1>1, <1>3 DEF BuffersStaged
  <2>1. PICK t \in 0 .. H : stages[t] = b
    BY <1>3 DEF Fifo, BuffersStaged
  <2>2. CASE t = H
    BY <1>3, <1>4, <2>1, <2>2
  <2>3. CASE t # H
    BY <1>3, <1>4, <2>1, <2>3
  <2> QED  BY <2>2, <2>3
<1>6. /\ Live(0)' = {}
      /\ \A t \in 0 .. H : t # 0 => Stage(t)' = Stage(t - 1) /\ Live(t)' = Live(t - 1)
  BY <1>1, <1>2, <1>3, <1>4 DEF Live, Stage
<1>7. StagesOrdered'
  <2> SUFFICES ASSUME NEW t \in 0 .. H, NEW u \in 0 .. H, t < u, NEW i \in Live(t)', NEW j \in Live(u)'
               PROVE  Stage(u)'[j].query_idx < Stage(t)'[i].query_idx
    BY <1>3 DEF StagesOrdered
  <2>1. t # 0 /\ u # 0
    BY <1>6
  <2>2. i \in Live(t - 1) /\ j \in Live(u - 1) /\ t - 1 < u - 1 /\ t - 1 \in 0 .. H /\ u - 1 \in 0 .. H
    BY <1>3, <1>6, <2>1
  <2> QED  BY <1>3, <1>6, <2>1, <2>2 DEF Fifo, StagesOrdered
<1>8. OldestSettled'
  <2>1. Settled' = Settled
    BY RotateStep
  <2>2. Tasks' = Tasks /\ \A x : Task(x)' = Task(x)
    BY <1>1 DEF Tasks, Task
  <2> QED  BY <2>1, <2>2 DEF Fifo, OldestSettled
<1> QED  BY <1>5, <1>7, <1>8 DEF Fifo

(* The queries put in at stage 0 are younger than all that were dealt. *)
LEMMA RefillFifo ==
  ASSUME IInv, Fifo, Refill
  PROVE  Fifo'
<1>1. pc = "refill" /\ UNCHANGED <<H, stages>>
  BY DEF Refill
<1>2. Built
  BY <1>1 DEF IInv, Phases, Built
<1>3. /\ H \in Nat \ {0} /\ DOMAIN memory = 0 .. H /\ DOMAIN stages = 0 .. H
      /\ next_query_idx \in Nat /\ stages \in [0 .. H -> 0 .. H]
  BY <1>2, BuiltFacts
<1>4. PICK t \in 0 .. H : t = 0
  BY <1>3
<1>5. PICK row : row = [i \in Group |-> IF next_query_idx + i < n
                                        THEN [query_idx |-> next_query_idx + i, node |-> tree.root]
                                        ELSE [query_idx |-> Stage(t)[i].query_idx, node |-> NULL]]
  OBVIOUS
<1>6. memory' = [memory EXCEPT ![stages[t]] = row]
  BY <1>4, <1>5 DEF Refill, Stage
<1>7. /\ Stage(t)' = row
      /\ \A u \in 0 .. H : u # t => Stage(u)' = Stage(u) /\ Live(u)' = Live(u)
      /\ DOMAIN memory' = 0 .. H /\ DOMAIN stages' = 0 .. H
      /\ memory'[stages[t]] = row
      /\ \A b \in 0 .. H : b # stages[t] => memory'[b] = memory[b]
  BY <1>1, <1>2, <1>6, OneBuffer
<1>8. \A i \in Group : row[i].node # NULL =>
         \A p \in 0 .. next_query_idx - 1 : p < row[i].query_idx
  <2> SUFFICES ASSUME NEW i \in Group, row[i].node # NULL, NEW p \in 0 .. next_query_idx - 1
               PROVE  p < row[i].query_idx
    OBVIOUS
  <2>1. row[i].query_idx = next_query_idx + i
    BY <1>5
  <2>2. i \in Nat /\ next_query_idx \in Nat
    BY <1>3, GroupAssumption DEF Group
  <2>3. p < next_query_idx + i
    BY <2>2
  <2> QED  BY <2>1, <2>3
<1>9. BuffersStaged'
  BY <1>1, <1>3, <1>7 DEF Fifo, BuffersStaged
<1>10. \A u \in 0 .. H : \A j \in Live(u) : Stage(u)[j].query_idx \in 0 .. next_query_idx - 1
  BY <1>2, LiveFacts DEF IInv, TasksDealt
<1>11. StagesOrdered'
  <2> SUFFICES ASSUME NEW a \in 0 .. H, NEW u \in 0 .. H, a < u, NEW i \in Live(a)', NEW j \in Live(u)'
               PROVE  Stage(u)'[j].query_idx < Stage(a)'[i].query_idx
    BY <1>7 DEF StagesOrdered
  <2>1. u # t /\ j \in Live(u) /\ Stage(u)' = Stage(u)
    BY <1>4, <1>7
  <2>2. CASE a = t
    <3>1. i \in Group /\ Stage(a)' = row /\ row[i].node # NULL
      BY <1>7, <2>2 DEF Live
    <3>2. Stage(u)[j].query_idx \in 0 .. next_query_idx - 1
      BY <1>10, <2>1
    <3> QED  BY <1>8, <2>1, <3>1, <3>2
  <2>3. CASE a # t
    BY <1>3, <1>7, <2>1, <2>3 DEF Fifo, StagesOrdered
  <2> QED  BY <2>2, <2>3
<1>12. OldestSettled'
  <2> SUFFICES ASSUME NEW q \in Settled, NEW x \in Tasks' PROVE q < Task(x)'.query_idx
    BY RefillStep DEF OldestSettled
  <2>1. q \in 0 .. next_query_idx - 1
    BY DEF Settled
  <2>2. x \in (0 .. H) \X Group /\ Task(x)'.node # NULL
    BY <1>7 DEF Tasks
  <2>3. CASE x[1] = stages[t]
    <3>1. Task(x)' = row[x[2]] /\ x[2] \in Group
      BY <1>7, <2>2, <2>3 DEF Task
    <3> QED  BY <1>8, <2>1, <2>2, <3>1
  <2>4. CASE x[1] # stages[t]
    <3>1. Task(x)' = Task(x)
      BY <1>7, <2>2, <2>4 DEF Task
    <3>2. x \in Tasks
      BY <1>3, <2>2, <3>1 DEF Tasks
    <3> QED  BY <3>1, <3>2 DEF Fifo, OldestSettled
  <2> QED  BY <2>3, <2>4
<1> QED  BY <1>9, <1>11, <1>12 DEF Fifo

LEMMA StepFifo ==
  ASSUME IInv, Fifo, [Next]_vars
  PROVE  Fifo'
<1>1. CASE Start \/ CountLevel
  <2>1. UNCHANGED <<memory, stages>> /\ Settled' = Settled
    BY <1>1, StartStep, CountLevelStep DEF Start, CountLevel
  <2> QED  BY <2>1, QuietFifo
<1>2. CASE Allocate    BY <1>2, AllocateFifo
<1>3. CASE LoopTest
  <2>1. UNCHANGED <<memory, stages>> /\ Settled' = Settled
    BY <1>3, LoopTestStep DEF LoopTest
  <2> QED  BY <2>1, QuietFifo
<1>4. CASE LeafStage   BY <1>4, LeafStageFifo
<1>5. CASE InnerStage  BY <1>5, InnerStageFifo
<1>6. CASE Rotate      BY <1>6, RotateFifo
<1>7. CASE Refill      BY <1>7, RefillFifo
<1>8. CASE UNCHANGED vars
  <2>1. UNCHANGED <<memory, stages, next_query_idx>>
    BY <1>8 DEF vars
  <2>2. Settled' = Settled
    BY <2>1 DEF Settled, InFlight, Tasks, Task
  <2> QED  BY <2>1, <2>2, QuietFifo
<1> QED  BY <1>1, <1>2, <1>3, <1>4, <1>5, <1>6, <1>7, <1>8 DEF Next, Returned

(* A set of positions that holds everything below its members is a prefix, *)
(* as long as its size.                                                    *)
LEMMA PrefixOfSize ==
  ASSUME NEW m \in Nat, NEW S \in SUBSET (0 .. m - 1),
         \A q \in S : \A p \in 0 .. q : p \in S
  PROVE  S = 0 .. Cardinality(S) - 1
<1>1. PICK l \in Nat : l \notin S /\ \A p \in 0 .. l - 1 : p \in S
  <2>1. m \notin S
    OBVIOUS
  <2> DEFINE Out == {p \in Nat : p \notin S}
  <2>2. PICK l \in Out : \A p \in Out : l <= p
    <3>1. Out \subseteq Nat /\ Out # {}
      BY <2>1
    <3> HIDE DEF Out
    <3> QED  BY <3>1, LeastNatural
  <2> QED  BY <2>2
<1>2. \A q \in S : q < l
  BY <1>1
<1>3. S = 0 .. l - 1
  <2>1. \A q \in S : q \in 0 .. l - 1
    BY <1>1, <1>2
  <2> QED  BY <1>1, <2>1
<1>4. Cardinality(0 .. l - 1) = l
  BY FS_Interval
<1> QED  BY <1>3, <1>4

(* The queries are settled in the order of the batch: what is settled is at *)
(* every step the prefix of finished_count queries (SPP.hpp 81-141).        *)
THEOREM SettledInOrder == Spec => []AnsweredInOrder
<1>1. Init => Fifo
  <2> SUFFICES ASSUME Init PROVE Fifo
    OBVIOUS
  <2>1. DOMAIN memory = {} /\ DOMAIN stages = {}
    BY DEF Init
  <2> QED  BY <2>1, NoBuffersFifo
<1>2. IInv /\ Fifo /\ [Next]_vars => Fifo'
  BY StepFifo
<1>3. IInv /\ Fifo => AnsweredInOrder
  <2> SUFFICES ASSUME IInv, Fifo PROVE AnsweredInOrder
    OBVIOUS
  <2>1. n \in Nat /\ Settled \in SUBSET (0 .. n - 1) /\ next_query_idx \in 0 .. n
    BY SettledFacts DEF QueryIdx
  <2>2. ASSUME NEW q \in Settled, NEW p \in 0 .. q PROVE p \in Settled
    <3>1. p \in 0 .. next_query_idx - 1
      BY <2>1, <2>2 DEF Settled
    <3>2. \A x \in Tasks : Task(x).query_idx # p
      <4>1. \A x \in Tasks : Task(x).query_idx \in 0 .. next_query_idx - 1 /\ q < Task(x).query_idx
        BY DEF IInv, TasksDealt, Fifo, OldestSettled
      <4> QED  BY <2>1, <4>1
    <3> QED  BY <3>1, <3>2 DEF Settled, InFlight
  <2>3. Settled = 0 .. Cardinality(Settled) - 1
    BY <2>1, <2>2, PrefixOfSize
  <2> QED  BY <2>3 DEF AnsweredInOrder, IInv, FinishedCountExact
<1> QED  BY <1>1, <1>2, <1>3, Invariance, PTL DEF Spec

-----------------------------------------------------------------------------
(* SPP_Linear: the operators and the lemmas it has from the lookup.        *)

(* The lemmas about lookups, for the outputs SPP_Linear has of its own. *)
Lookup == INSTANCE BTreeLookup_proofs WITH found <- linear_found, results <- linear_results

(* Lookup and the instance of SPP_Linear import the same definitions. *)
LEMMA LookupSameTrees ==
  \A t : /\ Lookup!WellFormed(t) <=> WellFormed(t)
         /\ Lookup!NodeIds(t) = NodeIds(t)
         /\ Lookup!Stored(t) = Stored(t)
BY DEF Lookup!WellFormed, WellFormed, Lookup!NodeOK, NodeOK, Lookup!ChildrenOK, ChildrenOK,
       Lookup!LeafOwns, LeafOwns, Lookup!Sorted, Sorted, Lookup!Slots, Slots,
       Lookup!isleafnode, isleafnode, Lookup!NodeIds, NodeIds,
       Lookup!Stored, Stored, Lookup!Leaves, Leaves

LEMMA LookupCounts ==
  \A S : Lookup!Cardinality(S) = Cardinality(S) /\ (Lookup!IsFiniteSet(S) <=> IsFiniteSet(S))
BY DEF Lookup!Cardinality, Cardinality, Lookup!IsFiniteSet, IsFiniteSet

LEMMA LinearSameTrees ==
  \A t : /\ Linear!WellFormed(t) <=> WellFormed(t)
         /\ Linear!NodeIds(t) = NodeIds(t)
         /\ Linear!Stored(t) = Stored(t)
BY DEF Linear!WellFormed, WellFormed, Linear!NodeOK, NodeOK, Linear!ChildrenOK, ChildrenOK,
       Linear!LeafOwns, LeafOwns, Linear!Sorted, Sorted, Linear!Slots, Slots,
       Linear!isleafnode, isleafnode, Linear!NodeIds, NodeIds,
       Linear!Stored, Stored, Linear!Leaves, Leaves

LEMMA LinearSameChild ==
  \A nd, key : /\ Linear!Child(nd, key) = Child(nd, key)
               /\ Linear!isleafnode(nd) <=> isleafnode(nd)
BY DEF Linear!Child, Child, Linear!find_lower, find_lower,
       Linear!IsLowerBound, IsLowerBound, Linear!isleafnode, isleafnode

LEMMA LinearSame ==
  /\ \A t : Linear!WellFormed(t) <=> Lookup!WellFormed(t)
  /\ Linear!n = Lookup!n /\ Linear!QueryIdx = Lookup!QueryIdx
  /\ Linear!args = Lookup!args /\ Linear!outs = Lookup!outs
  /\ Linear!n' = Lookup!n' /\ Linear!QueryIdx' = Lookup!QueryIdx'
  /\ Linear!args' = Lookup!args' /\ Linear!outs' = Lookup!outs'
  /\ Linear!NodeIds(tree) = Lookup!NodeIds(tree) /\ Linear!NodeIds(tree)' = Lookup!NodeIds(tree)'
  /\ Linear!Stored(tree) = Lookup!Stored(tree)
  /\ Linear!OutsTypeOK <=> Lookup!OutsTypeOK
  /\ Linear!OutsTypeOK' <=> Lookup!OutsTypeOK'
  /\ Linear!NothingToDo <=> Lookup!NothingToDo
  /\ Linear!NothingToDo' <=> Lookup!NothingToDo'
  /\ \A q : /\ Linear!RightAnswer(q) <=> Lookup!RightAnswer(q)
            /\ Linear!RightAnswer(q)' <=> Lookup!RightAnswer(q)'
            /\ Linear!Unanswered(q) <=> Lookup!Unanswered(q)
            /\ Linear!Unanswered(q)' <=> Lookup!Unanswered(q)'
            /\ Linear!KeyAt(q) = Lookup!KeyAt(q)
            /\ Linear!KeyAt(q)' = Lookup!KeyAt(q)'
  /\ \A q, v : /\ Linear!OnPath(q, v) <=> Lookup!OnPath(q, v)
               /\ Linear!OnPath(q, v)' <=> Lookup!OnPath(q, v)'
               /\ Linear!IsLeafId(v) <=> Lookup!IsLeafId(v)
  /\ \A reached : Linear!WriteAnswers(reached) <=> Lookup!WriteAnswers(reached)
<1>1. \A t : Linear!WellFormed(t) <=> Lookup!WellFormed(t)
  BY LinearSameTrees, LookupSameTrees
<1>2. \A reached : Linear!WriteAnswers(reached) <=> Lookup!WriteAnswers(reached)
  BY DEF Linear!WriteAnswers, Lookup!WriteAnswers, Linear!Hit, Lookup!Hit, Linear!Data, Lookup!Data,
         Linear!find_lower, Lookup!find_lower, Linear!IsLowerBound, Lookup!IsLowerBound,
         Linear!KeyAt, Lookup!KeyAt, Linear!QueryIdx, Lookup!QueryIdx, Linear!n, Lookup!n,
         Linear!Node, Lookup!Node
<1> QED
  BY <1>1, <1>2
  DEF Linear!OutsTypeOK, Lookup!OutsTypeOK, Linear!n, Lookup!n, Linear!QueryIdx, Lookup!QueryIdx,
      Linear!RightAnswer, Lookup!RightAnswer, Linear!Present, Lookup!Present,
      Linear!Stored, Lookup!Stored, Linear!Leaves, Lookup!Leaves, Linear!KeyAt, Lookup!KeyAt,
      Linear!NodeIds, Lookup!NodeIds, Linear!Slots, Lookup!Slots, Linear!isleafnode, Lookup!isleafnode,
      Linear!args, Lookup!args, Linear!outs, Lookup!outs, Linear!NothingToDo, Lookup!NothingToDo,
      Linear!Unanswered, Lookup!Unanswered, Linear!OnPath, Lookup!OnPath,
      Linear!IsLeafId, Lookup!IsLeafId, Linear!Node, Lookup!Node

LEMMA LinearCounts == \A S : Linear!Cardinality(S) = Cardinality(S)
BY DEF Linear!Cardinality, Cardinality

LEMMA LinearArgsFacts ==
  ASSUME Linear!OutsTypeOK
  PROVE  /\ Linear!WellFormed(tree)
         /\ Linear!n \in Nat
         /\ \A q \in Linear!QueryIdx : Linear!KeyAt(q) \in Key
BY LinearSame, LookupSameTrees, Lookup!ArgsFacts, KeyAssumption, TreesAssumption, BatchesAssumption,
   StaleAssumption

LEMMA LinearPositionsFinite ==
  ASSUME Linear!OutsTypeOK, NEW S, S \subseteq Linear!QueryIdx
  PROVE  /\ IsFiniteSet(S)
         /\ Cardinality(S) \in Nat
         /\ Cardinality(S) <= Linear!n
         /\ Cardinality(S) = Linear!n => S = Linear!QueryIdx
BY LinearSame, LookupSameTrees, LookupCounts, Lookup!PositionsFinite, KeyAssumption, TreesAssumption,
   BatchesAssumption, StaleAssumption

LEMMA LinearLeavesGiveRightAnswers ==
  ASSUME Linear!OutsTypeOK, NEW Qs, Qs \subseteq Linear!QueryIdx, NEW reached, DOMAIN reached = Qs,
         \A q \in Qs : /\ reached[q] \in Linear!NodeIds(tree) /\ Linear!IsLeafId(reached[q])
                       /\ Linear!OnPath(q, reached[q]) /\ Linear!Unanswered(q),
         Linear!WriteAnswers(reached), UNCHANGED Linear!args
  PROVE  /\ Linear!OutsTypeOK'
         /\ Linear!QueryIdx' = Linear!QueryIdx
         /\ \A q \in Qs : Linear!RightAnswer(q)'
         /\ \A q \in Linear!QueryIdx \ Qs : linear_found'[q] = linear_found[q] /\ linear_results'[q] = linear_results[q]
BY LinearSame, LookupSameTrees, Lookup!LeavesGiveRightAnswers, KeyAssumption, TreesAssumption,
   BatchesAssumption, StaleAssumption

LEMMA LinearOutsUnchanged ==
  ASSUME UNCHANGED <<Linear!args, Linear!outs>>
  PROVE  /\ Linear!n' = Linear!n /\ Linear!QueryIdx' = Linear!QueryIdx /\ Linear!NodeIds(tree)' = Linear!NodeIds(tree)
         /\ (Linear!NothingToDo' <=> Linear!NothingToDo)
         /\ (Linear!OutsTypeOK => Linear!OutsTypeOK')
         /\ \A q : /\ Linear!RightAnswer(q)' <=> Linear!RightAnswer(q)
                   /\ Linear!Unanswered(q)' <=> Linear!Unanswered(q)
                   /\ Linear!KeyAt(q)' = Linear!KeyAt(q)
         /\ \A q, v : Linear!OnPath(q, v)' <=> Linear!OnPath(q, v)
BY LinearSame, LookupSameTrees, Lookup!OutsUnchanged, KeyAssumption, TreesAssumption,
   BatchesAssumption, StaleAssumption

LEMMA LinearNothingToDoIsRight ==
  ASSUME Linear!OutsTypeOK, Linear!NothingToDo, NEW q \in Linear!QueryIdx, Linear!Unanswered(q)
  PROVE  Linear!RightAnswer(q)
BY LinearSame, LookupSameTrees, Lookup!NothingToDoIsRight, KeyAssumption, TreesAssumption,
   BatchesAssumption, StaleAssumption

LEMMA LinearAbstractTypes ==
  ASSUME Linear!OutsTypeOK
  PROVE  Linear!Stored(tree) \in SUBSET (Key \X Value) /\ queries \in Seq(Key)
BY LinearSame, LookupSameTrees, Lookup!AbstractTypes, KeyAssumption, TreesAssumption,
   BatchesAssumption, StaleAssumption

LEMMA LinearDescentStep ==
  ASSUME NEW t, Linear!WellFormed(t), NEW v \in Linear!NodeIds(t), ~Linear!isleafnode(t.node[v]),
         NEW key \in Key, t.lo[v] < key, key <= t.hi[v]
  PROVE  LET c == Linear!Child(t.node[v], key)
         IN  /\ c \in Linear!NodeIds(t)
             /\ t.node[c].level + 1 = t.node[v].level
             /\ t.lo[c] < key
             /\ key <= t.hi[c]
BY LinearSameTrees, LinearSameChild, DescentStep, KeyAssumption

-----------------------------------------------------------------------------
(* The inductive invariant of SPP_Linear.                                  *)

(* The batches exist and there is work to do. *)
LinearBuilt == linear_pc \notin {"start", "height"} /\ ~Linear!NothingToDo

(* The leftmost descent counts the levels it has seen. *)
LinearHeightCounted ==
  /\ linear_pc \in {"start", "height"} => DOMAIN linear_batches = {} /\ linear_next = 0
  /\ linear_pc = "start" => linear_depth = 0
  /\ linear_pc = "height" => /\ linear_depth \in Nat \ {0}
                             /\ linear_curr \in Linear!NodeIds(tree)
                             /\ Linear!Node(linear_curr).level + linear_depth = Linear!Node(tree.root).level + 1
  /\ LinearBuilt => linear_depth \in Nat \ {0} /\ linear_depth = Linear!Node(tree.root).level + 1

LinearPhases ==
  /\ linear_pc \notin {"start", "returned"} => ~Linear!NothingToDo
  /\ linear_pc = "returned" /\ Linear!NothingToDo => DOMAIN linear_batches = {}
  /\ linear_pc = "returned" /\ ~Linear!NothingToDo => linear_finished >= Linear!n
  /\ linear_pc = "shift" => linear_stage \in -1 .. linear_depth - 2

(* A task is at a node of the tree, for a query that was dealt. *)
LinearTasksDealt ==
  \A x \in Linear!Tasks : Linear!Task(x).query_idx \in 0 .. linear_next - 1 /\ Linear!Task(x).node \in Linear!NodeIds(tree)

(* The answers written so far are those of the settled queries. *)
LinearSettledRight ==
  \A q \in Linear!QueryIdx : IF q \in Linear!Settled THEN Linear!RightAnswer(q) ELSE Linear!Unanswered(q)

LinearIInv == /\ Linear!PipelineExact
              /\ LinearHeightCounted
              /\ LinearPhases
              /\ LinearTasksDealt
              /\ LinearSettledRight

-----------------------------------------------------------------------------
(* Facts of a single state.                                                *)

LEMMA LinearBuiltFacts ==
  ASSUME LinearIInv, LinearBuilt
  PROVE  /\ linear_depth \in Nat \ {0} /\ linear_depth = Linear!Node(tree.root).level + 1
         /\ linear_batches \in [0 .. linear_depth - 1 -> [Linear!Group -> [query_idx : Linear!QueryIdx,
                                                                           node : Linear!NodeIds(tree) \cup {NULL},
                                                                           active : BOOLEAN]]]
         /\ DOMAIN linear_batches = 0 .. linear_depth - 1
         /\ Linear!n \in Nat \ {0} /\ linear_next \in 0 .. Linear!n
         /\ Linear!WellFormed(tree) /\ tree.root \in Linear!NodeIds(tree)
         /\ \A q \in Linear!QueryIdx : Linear!KeyAt(q) \in Key /\ Linear!OnPath(q, tree.root)
<1>1. Linear!n \in Nat /\ Linear!WellFormed(tree) /\ \A q \in Linear!QueryIdx : Linear!KeyAt(q) \in Key
  BY LinearArgsFacts DEF LinearIInv, Linear!PipelineExact, Linear!TypeOK
<1>2. linear_depth \in Nat \ {0} /\ linear_depth = Linear!Node(tree.root).level + 1
  BY DEF LinearIInv, LinearHeightCounted
<1>3. /\ linear_batches \in [0 .. linear_depth - 1 -> [Linear!Group -> [query_idx : Linear!QueryIdx,
                                                                        node : Linear!NodeIds(tree) \cup {NULL},
                                                                        active : BOOLEAN]]]
      /\ linear_next \in 0 .. Linear!n
  BY DEF LinearIInv, Linear!PipelineExact, Linear!TypeOK, LinearBuilt
<1>4. DOMAIN linear_batches = 0 .. linear_depth - 1
  BY <1>3
<1>5. Linear!n # 0 /\ tree.root # NULL
  BY DEF LinearBuilt, Linear!NothingToDo
<1>6. tree.root \in Linear!NodeIds(tree)
  BY <1>1, <1>5, LinearSameTrees DEF Linear!WellFormed
<1>7. \A q \in Linear!QueryIdx : Linear!OnPath(q, tree.root)
  BY <1>1, <1>5 DEF Linear!WellFormed, Linear!OnPath
<1> QED  BY <1>1, <1>2, <1>3, <1>4, <1>5, <1>6, <1>7

LEMMA LinearSettledFacts ==
  ASSUME LinearIInv
  PROVE  /\ Linear!n \in Nat /\ linear_next \in 0 .. Linear!n
         /\ Linear!Settled \subseteq Linear!QueryIdx
         /\ Linear!InFlight \subseteq 0 .. linear_next - 1
<1>1. Linear!n \in Nat /\ linear_next \in 0 .. Linear!n
  BY LinearArgsFacts DEF LinearIInv, Linear!PipelineExact, Linear!TypeOK
<1>2. Linear!Settled \subseteq Linear!QueryIdx
  BY <1>1 DEF Linear!Settled, Linear!QueryIdx
<1>3. Linear!InFlight \subseteq 0 .. linear_next - 1
  BY DEF Linear!InFlight, LinearIInv, LinearTasksDealt
<1> QED  BY <1>1, <1>2, <1>3

(* An active task is at a node of the tree, and its query is not settled. *)
LEMMA LinearTaskFacts ==
  ASSUME LinearIInv, LinearBuilt, NEW x \in Linear!Tasks
  PROVE  /\ x[1] \in 0 .. linear_depth - 1 /\ x[2] \in Linear!Group /\ x = <<x[1], x[2]>>
         /\ x[2] \in Linear!Active(x[1]) /\ Linear!Task(x) = linear_batches[x[1]][x[2]]
         /\ Linear!Task(x).node \in Linear!NodeIds(tree)
         /\ Linear!Task(x).query_idx \in Linear!QueryIdx
         /\ Linear!Task(x).query_idx \in Linear!InFlight
         /\ Linear!Task(x).query_idx \notin Linear!Settled
         /\ Linear!Unanswered(Linear!Task(x).query_idx)
         /\ Linear!Node(Linear!Task(x).node).level = linear_depth - 1 - x[1]
         /\ Linear!OnPath(Linear!Task(x).query_idx, Linear!Task(x).node)
<1>1. DOMAIN linear_batches = 0 .. linear_depth - 1 /\ Linear!n \in Nat \ {0} /\ linear_next \in 0 .. Linear!n
  BY LinearBuiltFacts
<1>2. x[1] \in 0 .. linear_depth - 1 /\ x[2] \in Linear!Group /\ x = <<x[1], x[2]>> /\ Linear!Task(x).active
  BY <1>1 DEF Linear!Tasks
<1>3. x[2] \in Linear!Active(x[1]) /\ Linear!Task(x) = linear_batches[x[1]][x[2]]
  BY <1>2 DEF Linear!Task, Linear!Active
<1>4. Linear!Task(x).node \in Linear!NodeIds(tree) /\ Linear!Task(x).query_idx \in 0 .. linear_next - 1
  BY DEF LinearIInv, LinearTasksDealt
<1>5. Linear!Task(x).query_idx \in Linear!QueryIdx
  BY <1>1, <1>4 DEF Linear!QueryIdx
<1>6. Linear!Task(x).query_idx \in Linear!InFlight
  BY DEF Linear!InFlight
<1>7. Linear!Task(x).query_idx \notin Linear!Settled
  BY <1>6 DEF Linear!Settled
<1>8. Linear!Unanswered(Linear!Task(x).query_idx)
  BY <1>5, <1>7 DEF LinearIInv, LinearSettledRight
<1>9. /\ Linear!Node(Linear!Task(x).node).level = linear_depth - 1 - x[1]
      /\ Linear!OnPath(Linear!Task(x).query_idx, Linear!Task(x).node)
  BY DEF LinearIInv, Linear!PipelineExact, Linear!BatchesAligned
<1> QED  BY <1>2, <1>3, <1>4, <1>5, <1>6, <1>7, <1>8, <1>9

(* The active places of a batch are tasks. *)
LEMMA LinearActiveFacts ==
  ASSUME LinearIInv, LinearBuilt, NEW t \in 0 .. linear_depth - 1, NEW i \in Linear!Active(t)
  PROVE  <<t, i>> \in Linear!Tasks /\ Linear!Task(<<t, i>>) = linear_batches[t][i] /\ i \in Linear!Group
BY LinearBuiltFacts DEF Linear!Tasks, Linear!Task, Linear!Active

(* Steps that leave batches, queries and answers alone settle nothing. *)
LEMMA LinearQuiet ==
  ASSUME LinearIInv, UNCHANGED <<Linear!args, Linear!outs, linear_batches, linear_next, linear_finished>>
  PROVE  /\ Linear!Tasks' = Linear!Tasks /\ Linear!InFlight' = Linear!InFlight /\ Linear!Settled' = Linear!Settled
         /\ Linear!n' = Linear!n /\ Linear!QueryIdx' = Linear!QueryIdx /\ Linear!NodeIds(tree)' = Linear!NodeIds(tree)
         /\ (Linear!NothingToDo' <=> Linear!NothingToDo) /\ Linear!OutsTypeOK'
         /\ \A x : Linear!Task(x)' = Linear!Task(x)
         /\ \A q, v : Linear!OnPath(q, v)' <=> Linear!OnPath(q, v)
         /\ Linear!OneTaskPerQuery' /\ LinearTasksDealt' /\ Linear!FinishedCountExact' /\ LinearSettledRight'
<1>1. /\ Linear!n' = Linear!n /\ Linear!QueryIdx' = Linear!QueryIdx /\ Linear!NodeIds(tree)' = Linear!NodeIds(tree)
      /\ (Linear!NothingToDo' <=> Linear!NothingToDo) /\ Linear!OutsTypeOK'
      /\ \A q : (Linear!RightAnswer(q)' <=> Linear!RightAnswer(q)) /\ (Linear!Unanswered(q)' <=> Linear!Unanswered(q))
      /\ \A q, v : Linear!OnPath(q, v)' <=> Linear!OnPath(q, v)
  BY LinearOutsUnchanged DEF LinearIInv, Linear!PipelineExact, Linear!TypeOK
<1>2. \A x : Linear!Task(x)' = Linear!Task(x)
  BY DEF Linear!Task
<1>3. Linear!Tasks' = Linear!Tasks
  BY <1>2 DEF Linear!Tasks
<1>4. Linear!InFlight' = Linear!InFlight /\ Linear!Settled' = Linear!Settled
  BY <1>2, <1>3 DEF Linear!InFlight, Linear!Settled
<1>5. Linear!OneTaskPerQuery' /\ LinearTasksDealt'
  BY <1>1, <1>2, <1>3 DEF LinearIInv, Linear!PipelineExact, Linear!OneTaskPerQuery, LinearTasksDealt
<1>6. Linear!FinishedCountExact' /\ LinearSettledRight'
  BY <1>1, <1>4 DEF LinearIInv, Linear!PipelineExact, Linear!FinishedCountExact, LinearSettledRight
<1> QED  BY <1>1, <1>2, <1>3, <1>4, <1>5, <1>6

-----------------------------------------------------------------------------
(* The invariant is inductive.                                             *)

LEMMA LinearInitIInv ==
  ASSUME Linear!Init
  PROVE  LinearIInv /\ Linear!Settled = {}
<1>1. Linear!OutsTypeOK
  BY DEF Linear!Init, Linear!ArgsAndOutsInit, Linear!OutsTypeOK
<1>2. Linear!n \in Nat
  BY <1>1, LinearArgsFacts
<1>3. DOMAIN linear_batches = {} /\ linear_pc = "start"
  BY DEF Linear!Init
<1>4. Linear!Tasks = {} /\ Linear!InFlight = {} /\ Linear!Settled = {}
  BY <1>3 DEF Linear!Init, Linear!Tasks, Linear!InFlight, Linear!Settled
<1>5. Linear!TypeOK
  BY <1>1, <1>2 DEF Linear!Init, Linear!TypeOK
<1>6. LinearHeightCounted /\ LinearPhases
  BY <1>3 DEF Linear!Init, LinearHeightCounted, LinearPhases, LinearBuilt
<1>7. Linear!BatchesAligned /\ Linear!TargetsEmpty /\ Linear!OneTaskPerQuery /\ LinearTasksDealt
  BY <1>3, <1>4 DEF Linear!BatchesAligned, Linear!TargetsEmpty, Linear!OneTaskPerQuery, LinearTasksDealt
<1>8. Linear!FinishedCountExact
  BY <1>4, FS_EmptySet, LinearCounts DEF Linear!Init, Linear!FinishedCountExact
<1>9. LinearSettledRight
  BY <1>4 DEF Linear!Init, Linear!ArgsAndOutsInit, LinearSettledRight, Linear!Unanswered
<1> QED  BY <1>4, <1>5, <1>6, <1>7, <1>8, <1>9 DEF LinearIInv, Linear!PipelineExact

LEMMA LinearStartStep ==
  ASSUME LinearIInv, Linear!Start
  PROVE  LinearIInv' /\ Linear!Settled' = Linear!Settled
<1>1. /\ UNCHANGED <<Linear!args, Linear!outs, linear_batches, linear_stage, linear_next, linear_finished>>
      /\ linear_pc = "start" /\ linear_pc' # "shift"
  BY DEF Linear!Start
<1>2. /\ Linear!Settled' = Linear!Settled /\ Linear!n' = Linear!n /\ Linear!QueryIdx' = Linear!QueryIdx /\ Linear!NodeIds(tree)' = Linear!NodeIds(tree)
      /\ (Linear!NothingToDo' <=> Linear!NothingToDo) /\ Linear!OutsTypeOK' /\ Linear!Tasks' = Linear!Tasks
      /\ Linear!OneTaskPerQuery' /\ LinearTasksDealt' /\ Linear!FinishedCountExact' /\ LinearSettledRight'
  BY <1>1, LinearQuiet
<1>3. DOMAIN linear_batches = {} /\ linear_next = 0 /\ linear_depth = 0 /\ linear_stage \in -1 .. 0
  BY <1>1 DEF LinearIInv, Linear!PipelineExact, Linear!TypeOK, LinearHeightCounted
<1>4. Linear!BatchesAligned' /\ Linear!TargetsEmpty'
  <2>1. Linear!Tasks' = {}
    BY <1>2, <1>3 DEF Linear!Tasks
  <2> QED  BY <1>1, <2>1 DEF Linear!BatchesAligned, Linear!TargetsEmpty
<1>5. CASE Linear!NothingToDo
  <2>1. linear_pc' = "returned" /\ UNCHANGED <<linear_depth, linear_curr>>
    BY <1>5 DEF Linear!Start
  <2>2. Linear!TypeOK'
    BY <1>1, <1>2, <1>5, <2>1 DEF LinearIInv, Linear!PipelineExact, Linear!TypeOK
  <2>3. LinearHeightCounted' /\ LinearPhases'
    BY <1>1, <1>2, <1>3, <1>5, <2>1 DEF LinearHeightCounted, LinearPhases, LinearBuilt
  <2> QED  BY <1>2, <1>4, <2>2, <2>3 DEF LinearIInv, Linear!PipelineExact
<1>6. CASE ~Linear!NothingToDo
  <2>1. linear_pc' = "height" /\ linear_depth' = 1 /\ linear_curr' = tree.root
    BY <1>6 DEF Linear!Start
  <2>2. Linear!WellFormed(tree) /\ tree.root \in Linear!NodeIds(tree) /\ tree' = tree
    BY <1>1, <1>6, LinearArgsFacts
       DEF LinearIInv, Linear!PipelineExact, Linear!TypeOK, Linear!WellFormed, Linear!NothingToDo,
           Linear!args
  <2>3. Linear!Node(tree.root).level \in Nat
    BY <2>2 DEF Linear!WellFormed, Linear!NodeOK, Linear!Node
  <2>4. linear_stage' \in -1 .. linear_depth'
    BY <1>1, <1>3, <2>1
  <2>5. Linear!TypeOK'
    BY <1>1, <1>2, <2>1, <2>2, <2>4 DEF LinearIInv, Linear!PipelineExact, Linear!TypeOK
  <2>6. LinearHeightCounted'
    BY <1>1, <1>3, <2>1, <2>2, <2>3 DEF LinearHeightCounted, LinearBuilt, Linear!Node, Linear!NodeIds
  <2>7. LinearPhases'
    BY <1>1, <1>2, <1>3, <1>6, <2>1 DEF LinearPhases
  <2> QED  BY <1>2, <1>4, <2>5, <2>6, <2>7 DEF LinearIInv, Linear!PipelineExact
<1> QED  BY <1>5, <1>6

LEMMA LinearCountLevelStep ==
  ASSUME LinearIInv, Linear!CountLevel
  PROVE  LinearIInv' /\ Linear!Settled' = Linear!Settled
<1>1. /\ UNCHANGED <<Linear!args, Linear!outs, linear_pc, linear_batches, linear_stage, linear_next, linear_finished>>
      /\ linear_pc = "height" /\ ~Linear!IsLeafId(linear_curr)
      /\ linear_curr' = Linear!Node(linear_curr).childid[0] /\ linear_depth' = linear_depth + 1
  BY DEF Linear!CountLevel
<1>2. /\ Linear!Settled' = Linear!Settled /\ Linear!n' = Linear!n /\ Linear!QueryIdx' = Linear!QueryIdx /\ Linear!NodeIds(tree)' = Linear!NodeIds(tree)
      /\ (Linear!NothingToDo' <=> Linear!NothingToDo) /\ Linear!OutsTypeOK' /\ Linear!Tasks' = Linear!Tasks
      /\ Linear!OneTaskPerQuery' /\ LinearTasksDealt' /\ Linear!FinishedCountExact' /\ LinearSettledRight'
  BY <1>1, LinearQuiet
<1>3. /\ linear_depth \in Nat \ {0} /\ linear_curr \in Linear!NodeIds(tree)
      /\ Linear!Node(linear_curr).level + linear_depth = Linear!Node(tree.root).level + 1
      /\ DOMAIN linear_batches = {} /\ linear_next = 0 /\ linear_stage \in -1 .. linear_depth
  BY <1>1 DEF LinearIInv, Linear!PipelineExact, Linear!TypeOK, LinearHeightCounted
<1>4. Linear!WellFormed(tree) /\ tree' = tree /\ tree.root \in Linear!NodeIds(tree)
  BY <1>1, LinearArgsFacts
     DEF LinearIInv, Linear!PipelineExact, Linear!TypeOK, Linear!args, LinearPhases,
         Linear!NothingToDo, Linear!WellFormed
<1>5. linear_curr' \in Linear!NodeIds(tree) /\ Linear!Node(linear_curr').level + 1 = Linear!Node(linear_curr).level
  <2>1. Linear!NodeOK(tree, linear_curr) /\ Linear!ChildrenOK(tree, linear_curr)
    BY <1>1, <1>3, <1>4 DEF Linear!WellFormed, Linear!IsLeafId, Linear!Node
  <2>2. 0 \in 0 .. Linear!Node(linear_curr).slotuse
    BY <2>1 DEF Linear!NodeOK, Linear!Node
  <2> QED  BY <1>1, <2>1, <2>2 DEF Linear!NodeOK, Linear!ChildrenOK, Linear!Node, Linear!IsLeafId
<1>6. Linear!Node(linear_curr').level \in Nat /\ Linear!Node(linear_curr).level \in Nat /\ Linear!Node(tree.root).level \in Nat
  BY <1>3, <1>4, <1>5 DEF Linear!WellFormed, Linear!NodeOK, Linear!Node
<1>7. Linear!TypeOK'
  <2>1. linear_depth' \in Nat /\ linear_stage' \in -1 .. linear_depth'
    BY <1>1, <1>3
  <2> QED  BY <1>1, <1>2, <1>3, <1>5, <2>1 DEF LinearIInv, Linear!PipelineExact, Linear!TypeOK
<1>8. LinearHeightCounted'
  <2>1. Linear!Node(linear_curr').level + (linear_depth + 1) = Linear!Node(tree.root).level + 1
    BY <1>3, <1>5, <1>6
  <2> QED  BY <1>1, <1>3, <1>4, <1>5, <2>1 DEF LinearHeightCounted, LinearBuilt, Linear!Node, Linear!NodeIds
<1>9. LinearPhases' /\ Linear!BatchesAligned' /\ Linear!TargetsEmpty'
  <2>1. Linear!Tasks' = {}
    BY <1>2, <1>3 DEF Linear!Tasks
  <2> QED  BY <1>1, <1>2, <1>3, <2>1 DEF LinearIInv, LinearPhases, Linear!BatchesAligned, Linear!TargetsEmpty
<1> QED  BY <1>2, <1>7, <1>8, <1>9 DEF LinearIInv, Linear!PipelineExact

LEMMA LinearAllocateStep ==
  ASSUME LinearIInv, Linear!Allocate
  PROVE  LinearIInv' /\ Linear!Settled' = Linear!Settled
<1>1. /\ UNCHANGED <<Linear!args, Linear!outs, linear_depth, linear_curr, linear_stage, linear_next, linear_finished>>
      /\ linear_pc = "height" /\ linear_pc' = "loop" /\ Linear!IsLeafId(linear_curr)
      /\ linear_batches' = [z \in 0 .. linear_depth - 1 |-> [i \in Linear!Group |-> Linear!NoTask]]
  BY DEF Linear!Allocate
<1>2. /\ Linear!n' = Linear!n /\ Linear!QueryIdx' = Linear!QueryIdx /\ Linear!NodeIds(tree)' = Linear!NodeIds(tree)
      /\ (Linear!NothingToDo' <=> Linear!NothingToDo) /\ Linear!OutsTypeOK' /\ ~Linear!NothingToDo
      /\ \A q : (Linear!RightAnswer(q)' <=> Linear!RightAnswer(q)) /\ (Linear!Unanswered(q)' <=> Linear!Unanswered(q))
  BY <1>1, LinearOutsUnchanged DEF LinearIInv, Linear!PipelineExact, Linear!TypeOK, LinearPhases
<1>3. /\ linear_depth \in Nat \ {0} /\ linear_curr \in Linear!NodeIds(tree)
      /\ Linear!Node(linear_curr).level + linear_depth = Linear!Node(tree.root).level + 1
      /\ DOMAIN linear_batches = {} /\ linear_next = 0
  BY <1>1 DEF LinearIInv, LinearHeightCounted
<1>4. linear_depth = Linear!Node(tree.root).level + 1 /\ Linear!Node(tree.root)' = Linear!Node(tree.root)
  <2>1. Linear!WellFormed(tree) /\ tree.root \in Linear!NodeIds(tree) /\ tree' = tree
    BY <1>1, <1>2, LinearArgsFacts
       DEF LinearIInv, Linear!PipelineExact, Linear!TypeOK, Linear!args, Linear!NothingToDo,
           Linear!WellFormed
  <2>2. Linear!Node(tree.root).level \in Nat /\ Linear!Node(linear_curr).level = 0
    BY <1>1, <1>3, <2>1 DEF Linear!WellFormed, Linear!NodeOK, Linear!Node, Linear!IsLeafId, Linear!isleafnode
  <2> QED  BY <1>3, <2>1, <2>2 DEF Linear!Node
<1>5. \A b \in 0 .. linear_depth - 1 : \A i \in Linear!Group : ~linear_batches'[b][i].active
  BY <1>1 DEF Linear!NoTask
<1>6. Linear!Tasks = {} /\ Linear!Tasks' = {}
  BY <1>1, <1>3, <1>5 DEF Linear!Tasks, Linear!Task
<1>7. Linear!InFlight' = {} /\ Linear!InFlight = {}
  BY <1>6 DEF Linear!InFlight
<1>8. Linear!Settled' = {} /\ Linear!Settled = {}
  BY <1>1, <1>3, <1>7 DEF Linear!Settled
<1>9. Linear!TypeOK'
  <2>1. Linear!n \in Nat \ {0}
    BY <1>2, LinearArgsFacts DEF LinearIInv, Linear!PipelineExact, Linear!TypeOK, Linear!NothingToDo
  <2>2. Linear!NoTask \in [query_idx : Linear!QueryIdx, node : Linear!NodeIds(tree) \cup {NULL}, active : BOOLEAN]
    BY <2>1 DEF Linear!NoTask, Linear!QueryIdx
  <2>3. linear_batches' \in [0 .. linear_depth - 1 -> [Linear!Group -> [query_idx : Linear!QueryIdx,
                                                                        node : Linear!NodeIds(tree) \cup {NULL},
                                                                        active : BOOLEAN]]]
    BY <1>1, <2>2
  <2> QED  BY <1>1, <1>2, <2>3 DEF LinearIInv, Linear!PipelineExact, Linear!TypeOK
<1>10. LinearHeightCounted' /\ LinearPhases'
  BY <1>1, <1>2, <1>3, <1>4 DEF LinearHeightCounted, LinearPhases, LinearBuilt
<1>11. Linear!BatchesAligned' /\ Linear!TargetsEmpty' /\ Linear!OneTaskPerQuery' /\ LinearTasksDealt'
  BY <1>1, <1>6 DEF Linear!BatchesAligned, Linear!TargetsEmpty, Linear!OneTaskPerQuery, LinearTasksDealt
<1>12. Linear!FinishedCountExact' /\ LinearSettledRight'
  BY <1>1, <1>2, <1>8 DEF LinearIInv, Linear!PipelineExact, Linear!FinishedCountExact, LinearSettledRight
<1> QED  BY <1>8, <1>9, <1>10, <1>11, <1>12 DEF LinearIInv, Linear!PipelineExact

LEMMA LinearLoopTestStep ==
  ASSUME LinearIInv, Linear!LoopTest
  PROVE  LinearIInv' /\ Linear!Settled' = Linear!Settled
<1>1. /\ UNCHANGED <<Linear!args, Linear!outs, linear_depth, linear_curr, linear_batches, linear_stage, linear_next, linear_finished>>
      /\ linear_pc = "loop" /\ linear_pc' = IF linear_finished < Linear!n THEN "leaves" ELSE "returned"
  BY DEF Linear!LoopTest
<1>2. /\ Linear!Settled' = Linear!Settled /\ Linear!n' = Linear!n /\ Linear!QueryIdx' = Linear!QueryIdx /\ Linear!NodeIds(tree)' = Linear!NodeIds(tree)
      /\ (Linear!NothingToDo' <=> Linear!NothingToDo) /\ Linear!OutsTypeOK' /\ ~Linear!NothingToDo
      /\ Linear!Tasks' = Linear!Tasks /\ \A x : Linear!Task(x)' = Linear!Task(x)
      /\ \A q, v : Linear!OnPath(q, v)' <=> Linear!OnPath(q, v)
      /\ Linear!OneTaskPerQuery' /\ LinearTasksDealt' /\ Linear!FinishedCountExact' /\ LinearSettledRight'
  BY <1>1, LinearQuiet DEF LinearIInv, LinearPhases
<1>3. LinearBuilt /\ tree' = tree
  BY <1>1, <1>2 DEF LinearBuilt, Linear!args
<1>4. Linear!TypeOK'
  BY <1>1, <1>2 DEF LinearIInv, Linear!PipelineExact, Linear!TypeOK
<1>5. LinearHeightCounted'
  BY <1>1, <1>3 DEF LinearIInv, LinearHeightCounted, LinearBuilt, Linear!Node
<1>6. LinearPhases'
  <2>1. Linear!n \in Nat /\ linear_finished \in Nat
    BY LinearSettledFacts DEF LinearIInv, Linear!PipelineExact, Linear!TypeOK
  <2> QED  BY <1>1, <1>2, <2>1 DEF LinearPhases
<1>7. Linear!BatchesAligned' /\ Linear!TargetsEmpty'
  BY <1>1, <1>2, <1>3
     DEF LinearIInv, Linear!PipelineExact, Linear!BatchesAligned, Linear!TargetsEmpty, Linear!Node
<1> QED  BY <1>2, <1>4, <1>5, <1>6, <1>7 DEF LinearIInv, Linear!PipelineExact

(* The queries of the tasks of a batch are as many as those tasks. *)
LEMMA LinearBatchCardinality ==
  ASSUME LinearIInv, LinearBuilt, NEW t \in 0 .. linear_depth - 1, NEW Qs,
         Qs = {linear_batches[t][i].query_idx : i \in Linear!Active(t)}
  PROVE  IsFiniteSet(Qs) /\ Cardinality(Qs) = Cardinality(Linear!Active(t))
<1> DEFINE f == [i \in Linear!Active(t) |-> linear_batches[t][i].query_idx]
<1>1. \A i, j \in Linear!Active(t) : f[i] = f[j] => i = j
  <2> TAKE i, j \in Linear!Active(t)
  <2>1. /\ <<t, i>> \in Linear!Tasks /\ Linear!Task(<<t, i>>) = linear_batches[t][i]
        /\ <<t, j>> \in Linear!Tasks /\ Linear!Task(<<t, j>>) = linear_batches[t][j]
    BY LinearActiveFacts
  <2> HAVE f[i] = f[j]
  <2>2. <<t, i>> = <<t, j>>
    BY <2>1 DEF LinearIInv, Linear!PipelineExact, Linear!OneTaskPerQuery
  <2> QED  BY <2>2
<1>2. f \in Bijection(Linear!Active(t), Qs)
  BY <1>1 DEF Bijection, Injection, Surjection, IsInjective
<1>3. IsFiniteSet(Linear!Active(t))
  <2>1. IsFiniteSet(Linear!Group)
    BY GroupAssumption, FS_Interval DEF Linear!Group
  <2> QED  BY <2>1, FS_Subset DEF Linear!Active
<1> QED  BY <1>2, <1>3, FS_Bijection, LinearCounts DEF ExistsBijection

LEMMA LinearLeafStageStep ==
  ASSUME LinearIInv, Linear!LeafStage
  PROVE  /\ LinearIInv'
         /\ Linear!QueryIdx' = Linear!QueryIdx
         /\ \E Qs \in SUBSET (Linear!QueryIdx \ Linear!Settled) :
               /\ Linear!Settled' = Linear!Settled \cup Qs
               /\ \A r \in Linear!QueryIdx \ Qs : linear_found'[r] = linear_found[r] /\ linear_results'[r] = linear_results[r]
<1>1. /\ linear_pc = "leaves" /\ linear_pc' = "shift" /\ linear_stage' = linear_depth - 2
      /\ UNCHANGED <<Linear!args, linear_depth, linear_curr, linear_next>>
      /\ linear_finished' = linear_finished + Cardinality(Linear!Active(linear_depth - 1))
  BY LinearCounts DEF Linear!LeafStage
<1>2. LinearBuilt /\ tree' = tree /\ queries' = queries
  BY <1>1 DEF LinearIInv, LinearPhases, LinearBuilt, Linear!args
<1>3. PICK t : t = linear_depth - 1
  OBVIOUS
<1>4. /\ t \in 0 .. linear_depth - 1 /\ linear_depth \in Nat \ {0} /\ linear_depth - 1 - t = 0
      /\ DOMAIN linear_batches = 0 .. linear_depth - 1
  BY <1>2, <1>3, LinearBuiltFacts
<1>5. PICK Qs : Qs = {linear_batches[t][i].query_idx : i \in Linear!Active(t)}
  OBVIOUS
<1>6. PICK reached : reached = [q \in Qs |->
                       linear_batches[t][CHOOSE i \in Linear!Active(t) : linear_batches[t][i].query_idx = q].node]
  OBVIOUS
<1>7. Linear!WriteAnswers(reached)
  BY <1>3, <1>5, <1>6 DEF Linear!LeafStage, Linear!LastReached
<1>8. PICK row : row = [i \in Linear!Group |-> Linear!Off(linear_batches[t][i])]
  OBVIOUS
<1>9. linear_batches' = [linear_batches EXCEPT ![t] = row]
  BY <1>3, <1>8 DEF Linear!LeafStage
<1>10. /\ DOMAIN linear_batches' = 0 .. linear_depth - 1 /\ linear_batches'[t] = row
       /\ \A b \in 0 .. linear_depth - 1 : b # t => linear_batches'[b] = linear_batches[b]
  BY <1>4, <1>9
<1>11. ASSUME NEW q \in Qs
       PROVE  /\ q \in Linear!QueryIdx \ Linear!Settled /\ q \in Linear!InFlight
              /\ reached[q] \in Linear!NodeIds(tree) /\ Linear!IsLeafId(reached[q])
              /\ Linear!OnPath(q, reached[q]) /\ Linear!Unanswered(q)
  <2>1. PICK i \in Linear!Active(t) : linear_batches[t][i].query_idx = q /\ reached[q] = linear_batches[t][i].node
    <3>1. \E i \in Linear!Active(t) : linear_batches[t][i].query_idx = q
      BY <1>5
    <3> QED  BY <3>1, <1>6
  <2>2. PICK x \in Linear!Tasks : x = <<t, i>> /\ Linear!Task(x).query_idx = q /\ Linear!Task(x).node = reached[q]
    BY <1>2, <1>4, <2>1, LinearActiveFacts
  <2>3. /\ reached[q] \in Linear!NodeIds(tree) /\ q \in Linear!QueryIdx /\ q \in Linear!InFlight /\ q \notin Linear!Settled
        /\ Linear!Unanswered(q) /\ Linear!Node(reached[q]).level = 0 /\ Linear!OnPath(q, reached[q])
    BY <1>2, <1>4, <2>2, LinearTaskFacts
  <2> QED  BY <2>3 DEF Linear!IsLeafId, Linear!isleafnode
<1>12. /\ Linear!OutsTypeOK' /\ Linear!QueryIdx' = Linear!QueryIdx /\ \A q \in Qs : Linear!RightAnswer(q)'
       /\ \A r \in Linear!QueryIdx \ Qs : linear_found'[r] = linear_found[r] /\ linear_results'[r] = linear_results[r]
  <2>1. DOMAIN reached = Qs
    BY <1>6
  <2>2. Qs \subseteq Linear!QueryIdx
    BY <1>11
  <2> QED  BY <1>1, <1>7, <1>11, <2>1, <2>2, LinearLeavesGiveRightAnswers
              DEF LinearIInv, Linear!PipelineExact, Linear!TypeOK
<1>13. /\ Linear!n' = Linear!n /\ Linear!NodeIds(tree)' = Linear!NodeIds(tree) /\ (Linear!NothingToDo' <=> Linear!NothingToDo)
       /\ \A v : Linear!Node(v)' = Linear!Node(v)
       /\ \A q, v : Linear!OnPath(q, v)' <=> Linear!OnPath(q, v)
  BY <1>2 DEF Linear!n, Linear!NodeIds, Linear!NothingToDo, Linear!Node, Linear!OnPath, Linear!KeyAt
<1>14. /\ Linear!Tasks' = {x \in Linear!Tasks : x[1] # t}
       /\ \A x \in Linear!Tasks' : Linear!Task(x)' = Linear!Task(x)
  <2>1. \A x \in (0 .. linear_depth - 1) \X Linear!Group : x[1] = t => ~Linear!Task(x)'.active
    BY <1>8, <1>10 DEF Linear!Task, Linear!Off
  <2>2. \A x \in (0 .. linear_depth - 1) \X Linear!Group : x[1] # t => Linear!Task(x)' = Linear!Task(x)
    BY <1>10 DEF Linear!Task
  <2> QED  BY <1>4, <1>10, <2>1, <2>2 DEF Linear!Tasks
<1>15. \A x \in Linear!Tasks : x[1] = t <=> Linear!Task(x).query_idx \in Qs
  <2> TAKE x \in Linear!Tasks
  <2>1. ASSUME x[1] = t PROVE Linear!Task(x).query_idx \in Qs
    BY <1>2, <1>5, <2>1, LinearTaskFacts
  <2>2. ASSUME Linear!Task(x).query_idx \in Qs PROVE x[1] = t
    <3>1. PICK i \in Linear!Active(t) : linear_batches[t][i].query_idx = Linear!Task(x).query_idx
      BY <1>5, <2>2
    <3>2. <<t, i>> \in Linear!Tasks /\ Linear!Task(<<t, i>>) = linear_batches[t][i]
      BY <1>2, <1>4, LinearActiveFacts
    <3>3. x = <<t, i>>
      BY <3>1, <3>2 DEF LinearIInv, Linear!PipelineExact, Linear!OneTaskPerQuery
    <3> QED  BY <3>3
  <2> QED  BY <2>1, <2>2
<1>16. Linear!InFlight' = Linear!InFlight \ Qs
  BY <1>14, <1>15 DEF Linear!InFlight
<1>17. Linear!Settled' = Linear!Settled \cup Qs
  <2>1. Qs \subseteq 0 .. linear_next - 1
    BY <1>11, LinearSettledFacts
  <2> QED  BY <1>1, <1>16, <2>1, <1>11 DEF Linear!Settled
<1>18. Linear!Settled \subseteq Linear!QueryIdx /\ Linear!Settled' \subseteq Linear!QueryIdx /\ Qs \subseteq Linear!QueryIdx \ Linear!Settled
  BY <1>11, <1>17, LinearSettledFacts
<1>19. linear_finished' = Cardinality(Linear!Settled') /\ linear_finished' \in 0 .. Linear!n
  <2>1. IsFiniteSet(Linear!Settled) /\ IsFiniteSet(Qs) /\ Cardinality(Linear!Settled') \in Nat /\ Cardinality(Linear!Settled') <= Linear!n
    <3>1. IsFiniteSet(Linear!Settled) /\ IsFiniteSet(Qs)
      BY <1>18, LinearPositionsFinite DEF LinearIInv, Linear!PipelineExact, Linear!TypeOK
    <3>2. Cardinality(Linear!Settled \cup Qs) \in Nat /\ Cardinality(Linear!Settled \cup Qs) <= Linear!n
      BY <1>18, LinearPositionsFinite DEF LinearIInv, Linear!PipelineExact, Linear!TypeOK
    <3> QED  BY <3>1, <3>2, <1>17
  <2>2. Cardinality(Linear!Settled \cap Qs) = 0
    <3>1. Linear!Settled \cap Qs = {}
      BY <1>18
    <3> QED  BY <3>1, FS_EmptySet
  <2>3. Cardinality(Linear!Settled \cup Qs) = Cardinality(Linear!Settled) + Cardinality(Qs) - Cardinality(Linear!Settled \cap Qs)
    BY <2>1, FS_Union
  <2>4. Cardinality(Qs) = Cardinality(Linear!Active(linear_depth - 1)) /\ Cardinality(Qs) \in Nat /\ Cardinality(Linear!Settled) \in Nat
    BY <1>2, <1>3, <1>4, <1>5, <2>1, LinearBatchCardinality, FS_CardinalityType
  <2>5. linear_finished = Cardinality(Linear!Settled)
    BY LinearCounts DEF LinearIInv, Linear!PipelineExact, Linear!FinishedCountExact
  <2>6. Linear!n \in Nat
    BY LinearSettledFacts
  <2> QED  BY <1>1, <1>17, <2>1, <2>2, <2>3, <2>4, <2>5, <2>6
<1>20. Linear!TypeOK'
  <2>1. ASSUME NEW i \in Linear!Group
        PROVE  row[i] \in [query_idx : Linear!QueryIdx, node : Linear!NodeIds(tree) \cup {NULL}, active : BOOLEAN]
    BY <1>2, <1>4, <1>8, LinearBuiltFacts DEF Linear!Off
  <2>2. row \in [Linear!Group -> [query_idx : Linear!QueryIdx, node : Linear!NodeIds(tree) \cup {NULL}, active : BOOLEAN]]
    BY <1>8, <2>1
  <2>3. linear_batches' \in [0 .. linear_depth - 1 -> [Linear!Group -> [query_idx : Linear!QueryIdx,
                                                                        node : Linear!NodeIds(tree) \cup {NULL},
                                                                        active : BOOLEAN]]]
    BY <1>2, <1>9, <2>2, LinearBuiltFacts
  <2>4. linear_stage' \in -1 .. linear_depth
    BY <1>1, <1>4
  <2> QED  BY <1>1, <1>12, <1>13, <1>19, <2>3, <2>4 DEF LinearIInv, Linear!PipelineExact, Linear!TypeOK
<1>21. LinearHeightCounted' /\ LinearPhases'
  <2>1. linear_stage' \in -1 .. linear_depth - 2
    BY <1>1, <1>4
  <2> QED  BY <1>1, <1>2, <1>13, <2>1 DEF LinearIInv, LinearHeightCounted, LinearPhases, LinearBuilt
<1>22. Linear!BatchesAligned'
  BY <1>1, <1>13, <1>14 DEF LinearIInv, Linear!PipelineExact, Linear!BatchesAligned
<1>23. Linear!TargetsEmpty'
  <2>1. linear_stage' + 1 = t
    BY <1>1, <1>3, <1>4
  <2>2. \A b : b = t => Linear!Active(b)' = {}
    BY <1>8, <1>10 DEF Linear!Active, Linear!Off
  <2> QED  BY <2>1, <2>2 DEF Linear!TargetsEmpty, Linear!Active
<1>24. Linear!OneTaskPerQuery' /\ LinearTasksDealt'
  BY <1>1, <1>13, <1>14 DEF LinearIInv, Linear!PipelineExact, Linear!OneTaskPerQuery, LinearTasksDealt
<1>25. Linear!FinishedCountExact'
  BY <1>19, LinearCounts DEF Linear!FinishedCountExact
<1>26. LinearSettledRight'
  <2>1. ASSUME NEW r \in Linear!QueryIdx, r \notin Qs
        PROVE  IF r \in Linear!Settled' THEN Linear!RightAnswer(r)' ELSE Linear!Unanswered(r)'
    <3>1. r \in Linear!Settled' <=> r \in Linear!Settled
      BY <1>17, <2>1
    <3>2. linear_found'[r] = linear_found[r] /\ linear_results'[r] = linear_results[r]
      BY <1>12, <2>1
    <3>3. Linear!Stored(tree)' = Linear!Stored(tree) /\ Linear!KeyAt(r)' = Linear!KeyAt(r)
      BY <1>2 DEF Linear!Stored, Linear!Leaves, Linear!NodeIds, Linear!Slots, Linear!isleafnode, Linear!KeyAt
    <3>4. Linear!Present(tree, Linear!KeyAt(r))' <=> Linear!Present(tree, Linear!KeyAt(r))
      BY <3>3 DEF Linear!Present
    <3>5. IF r \in Linear!Settled THEN Linear!RightAnswer(r) ELSE Linear!Unanswered(r)
      BY DEF LinearIInv, LinearSettledRight
    <3> QED  BY <3>1, <3>2, <3>3, <3>4, <3>5 DEF Linear!RightAnswer, Linear!Unanswered
  <2> QED  BY <1>12, <1>17, <2>1 DEF LinearSettledRight
<1>27. LinearIInv'
  BY <1>20, <1>21, <1>22, <1>23, <1>24, <1>25, <1>26 DEF LinearIInv, Linear!PipelineExact
<1> QED  BY <1>12, <1>17, <1>18, <1>27

LEMMA LinearShiftStep ==
  ASSUME LinearIInv, Linear!Shift
  PROVE  LinearIInv' /\ Linear!Settled' = Linear!Settled
<1>1. /\ linear_pc = "shift" /\ linear_pc' = linear_pc /\ linear_stage >= 0 /\ linear_stage' = linear_stage - 1
      /\ UNCHANGED <<Linear!args, Linear!outs, linear_depth, linear_curr, linear_next, linear_finished>>
  BY DEF Linear!Shift
<1>2. LinearBuilt /\ tree' = tree /\ queries' = queries /\ linear_stage \in -1 .. linear_depth - 2 /\ Linear!Active(linear_stage + 1) = {}
  BY <1>1 DEF LinearIInv, Linear!PipelineExact, Linear!TargetsEmpty, LinearPhases, LinearBuilt, Linear!args
<1>3. PICK t, u : t = linear_stage /\ u = linear_stage + 1
  OBVIOUS
<1>4. /\ linear_depth \in Nat \ {0} /\ DOMAIN linear_batches = 0 .. linear_depth - 1
      /\ linear_batches \in [0 .. linear_depth - 1 -> [Linear!Group -> [query_idx : Linear!QueryIdx,
                                                                        node : Linear!NodeIds(tree) \cup {NULL},
                                                                        active : BOOLEAN]]]
  BY <1>2, LinearBuiltFacts
<1>5. /\ t \in 0 .. linear_depth - 1 /\ u \in 0 .. linear_depth - 1 /\ t # u /\ linear_stage' + 1 = t
      /\ linear_depth - 1 - u \in Nat /\ (linear_depth - 1 - t) = (linear_depth - 1 - u) + 1
  BY <1>1, <1>2, <1>3, <1>4
<1>6. PICK moved : moved = [i \in Linear!Group |-> IF i \in Linear!Active(t) THEN Linear!Moved(linear_batches[t][i])
                                                   ELSE Linear!Off(linear_batches[u][i])]
  OBVIOUS
<1>7. PICK left : left = [i \in Linear!Group |-> Linear!Off(linear_batches[t][i])]
  OBVIOUS
<1>8. linear_batches' = [linear_batches EXCEPT ![u] = moved, ![t] = left]
  <2>1. linear_batches' = [linear_batches EXCEPT
          ![u] = [i \in Linear!Group |-> IF i \in Linear!Active(t) THEN Linear!Moved(linear_batches[t][i]) ELSE Linear!Off(@[i])],
          ![t] = [i \in Linear!Group |-> Linear!Off(@[i])]]
    BY <1>3 DEF Linear!Shift
  <2> QED  BY <1>4, <1>5, <1>6, <1>7, <2>1
<1>9. /\ DOMAIN linear_batches' = 0 .. linear_depth - 1 /\ linear_batches'[u] = moved /\ linear_batches'[t] = left
      /\ \A b \in 0 .. linear_depth - 1 : b # t /\ b # u => linear_batches'[b] = linear_batches[b]
  BY <1>4, <1>5, <1>8
<1>10. /\ Linear!n' = Linear!n /\ Linear!QueryIdx' = Linear!QueryIdx /\ Linear!NodeIds(tree)' = Linear!NodeIds(tree)
       /\ (Linear!NothingToDo' <=> Linear!NothingToDo) /\ Linear!OutsTypeOK'
       /\ \A q : (Linear!RightAnswer(q)' <=> Linear!RightAnswer(q)) /\ (Linear!Unanswered(q)' <=> Linear!Unanswered(q))
       /\ \A q, v : Linear!OnPath(q, v)' <=> Linear!OnPath(q, v)
       /\ \A v : Linear!Node(v)' = Linear!Node(v)
  BY <1>1, <1>2, LinearOutsUnchanged DEF LinearIInv, Linear!PipelineExact, Linear!TypeOK, Linear!Node
<1>11. ASSUME NEW i \in Linear!Active(t)
       PROVE  /\ i \in Linear!Group /\ <<t, i>> \in Linear!Tasks
              /\ moved[i].query_idx = Linear!Task(<<t, i>>).query_idx
              /\ moved[i].node \in Linear!NodeIds(tree)
              /\ moved[i].active
              /\ Linear!Node(moved[i].node).level = linear_depth - 1 - u
              /\ Linear!OnPath(moved[i].query_idx, moved[i].node)
              /\ moved[i] \in [query_idx : Linear!QueryIdx, node : Linear!NodeIds(tree) \cup {NULL}, active : BOOLEAN]
  <2>1. PICK x \in Linear!Tasks : x = <<t, i>> /\ Linear!Task(x) = linear_batches[t][i] /\ i \in Linear!Group
    BY <1>2, <1>5, LinearActiveFacts
  <2>2. PICK v, q : v = Linear!Task(x).node /\ q = Linear!Task(x).query_idx
    OBVIOUS
  <2>3. /\ v \in Linear!NodeIds(tree) /\ q \in Linear!QueryIdx
        /\ Linear!Node(v).level = linear_depth - 1 - t /\ Linear!OnPath(q, v)
    BY <1>2, <2>1, <2>2, LinearTaskFacts
  <2>4. Linear!WellFormed(tree) /\ Linear!KeyAt(q) \in Key
    BY <1>2, <2>3, LinearBuiltFacts
  <2>5. ~Linear!isleafnode(tree.node[v]) /\ tree.node[v].level = (linear_depth - 1 - u) + 1
    BY <1>5, <2>3 DEF Linear!isleafnode, Linear!Node
  <2>6. PICK c : c = Linear!Child(tree.node[v], Linear!KeyAt(q))
    OBVIOUS
  <2>7. /\ c \in Linear!NodeIds(tree) /\ tree.node[c].level + 1 = tree.node[v].level
        /\ tree.lo[c] < Linear!KeyAt(q) /\ Linear!KeyAt(q) <= tree.hi[c]
    BY <2>3, <2>4, <2>5, <2>6, LinearDescentStep DEF Linear!OnPath
  <2>8. moved[i] = [query_idx |-> q, node |-> c, active |-> TRUE]
    BY <1>6, <2>1, <2>2, <2>6 DEF Linear!Moved, Linear!Node
  <2>9. tree.node[c].level \in Nat
    BY <2>4, <2>7, LinearSameTrees DEF Linear!WellFormed, Linear!NodeOK
  <2>10. tree.node[c].level = linear_depth - 1 - u
    BY <1>5, <2>5, <2>7, <2>9
  <2>11. moved[i].query_idx = q /\ moved[i].node = c /\ moved[i].active
    BY <2>8
  <2> QED  BY <2>1, <2>2, <2>3, <2>7, <2>8, <2>10, <2>11 DEF Linear!Node, Linear!OnPath
<1>12. ASSUME NEW i \in Linear!Group, i \notin Linear!Active(t)
       PROVE  /\ ~moved[i].active
              /\ moved[i] \in [query_idx : Linear!QueryIdx, node : Linear!NodeIds(tree) \cup {NULL}, active : BOOLEAN]
  <2>1. moved[i] = Linear!Off(linear_batches[u][i])
    BY <1>6, <1>12
  <2>2. linear_batches[u][i] \in [query_idx : Linear!QueryIdx, node : Linear!NodeIds(tree) \cup {NULL}, active : BOOLEAN]
    BY <1>4, <1>5
  <2> QED  BY <2>1, <2>2 DEF Linear!Off
<1>13. \A i \in Linear!Group : ~left[i].active
  BY <1>7 DEF Linear!Off
<1>14. \A x \in Linear!Tasks : x[1] # u
  BY <1>2, <1>3, LinearTaskFacts
<1>15. ASSUME NEW x \in Linear!Tasks'
       PROVE  \/ x[1] = u /\ x[2] \in Linear!Active(t) /\ x = <<u, x[2]>> /\ Linear!Task(x)' = moved[x[2]]
              \/ x[1] # t /\ x \in Linear!Tasks /\ Linear!Task(x)' = Linear!Task(x)
  <2>1. x \in (0 .. linear_depth - 1) \X Linear!Group /\ Linear!Task(x)'.active
    BY <1>9 DEF Linear!Tasks
  <2>2. CASE x[1] = u
    <3>1. Linear!Task(x)' = moved[x[2]] /\ x[2] \in Linear!Group /\ x = <<u, x[2]>>
      BY <1>9, <2>1, <2>2 DEF Linear!Task
    <3> QED  BY <1>12, <2>1, <2>2, <3>1
  <2>3. CASE x[1] = t
    BY <1>9, <1>13, <2>1, <2>3 DEF Linear!Task
  <2>4. CASE x[1] # u /\ x[1] # t
    BY <1>4, <1>9, <2>1, <2>4 DEF Linear!Task, Linear!Tasks
  <2> QED  BY <2>2, <2>3, <2>4
<1>16. \A x \in Linear!Tasks : /\ x[1] = t => /\ x = <<t, x[2]>> /\ x[2] \in Linear!Active(t)
                                              /\ <<u, x[2]>> \in Linear!Tasks'
                                              /\ Linear!Task(<<u, x[2]>>)' = moved[x[2]]
                               /\ x[1] # t => x \in Linear!Tasks' /\ Linear!Task(x)' = Linear!Task(x)
  <2> TAKE x \in Linear!Tasks
  <2>1. x[1] \in 0 .. linear_depth - 1 /\ x[2] \in Linear!Group /\ x = <<x[1], x[2]>> /\ x[2] \in Linear!Active(x[1])
    BY <1>2, LinearTaskFacts
  <2>2. ASSUME x[1] = t
        PROVE  /\ x = <<t, x[2]>> /\ x[2] \in Linear!Active(t)
               /\ <<u, x[2]>> \in Linear!Tasks' /\ Linear!Task(<<u, x[2]>>)' = moved[x[2]]
    <3>1. Linear!Task(<<u, x[2]>>)' = moved[x[2]] /\ moved[x[2]].active
      BY <1>9, <1>11, <2>1, <2>2 DEF Linear!Task
    <3> QED  BY <1>5, <1>9, <2>1, <2>2, <3>1 DEF Linear!Tasks
  <2>3. ASSUME x[1] # t PROVE x \in Linear!Tasks' /\ Linear!Task(x)' = Linear!Task(x)
    <3>1. Linear!Task(x)' = Linear!Task(x)
      BY <1>9, <1>14, <2>1, <2>3 DEF Linear!Task
    <3> QED  BY <1>9, <2>1, <3>1 DEF Linear!Tasks
  <2> QED  BY <2>2, <2>3
<1>17. \A x \in Linear!Tasks' :
          \E y \in Linear!Tasks : /\ Linear!Task(x)'.query_idx = Linear!Task(y).query_idx
                                  /\ x = IF y[1] = t THEN <<u, y[2]>> ELSE y
  <2> TAKE x \in Linear!Tasks'
  <2>1. CASE x[1] = u /\ x[2] \in Linear!Active(t) /\ x = <<u, x[2]>> /\ Linear!Task(x)' = moved[x[2]]
    <3>1. PICK y \in Linear!Tasks : y = <<t, x[2]>> /\ moved[x[2]].query_idx = Linear!Task(y).query_idx
      BY <1>11, <2>1
    <3> QED  BY <2>1, <3>1
  <2>2. CASE x[1] # t /\ x \in Linear!Tasks /\ Linear!Task(x)' = Linear!Task(x)
    BY <2>2
  <2> QED  BY <1>15, <2>1, <2>2
<1>18. Linear!OneTaskPerQuery'
  <2>1. ASSUME NEW x \in Linear!Tasks', NEW y \in Linear!Tasks', Linear!Task(x)'.query_idx = Linear!Task(y)'.query_idx
        PROVE  x = y
    <3>1. PICK w \in Linear!Tasks : /\ Linear!Task(x)'.query_idx = Linear!Task(w).query_idx
                                    /\ x = IF w[1] = t THEN <<u, w[2]>> ELSE w
      BY <1>17
    <3>2. PICK z \in Linear!Tasks : /\ Linear!Task(y)'.query_idx = Linear!Task(z).query_idx
                                    /\ y = IF z[1] = t THEN <<u, z[2]>> ELSE z
      BY <1>17
    <3>3. w = z
      BY <2>1, <3>1, <3>2 DEF LinearIInv, Linear!PipelineExact, Linear!OneTaskPerQuery
    <3> QED  BY <3>1, <3>2, <3>3
  <2> QED  BY <2>1 DEF Linear!OneTaskPerQuery
<1>19. Linear!InFlight' = Linear!InFlight
  <2>1. ASSUME NEW x \in Linear!Tasks' PROVE Linear!Task(x)'.query_idx \in Linear!InFlight
    BY <1>17 DEF Linear!InFlight
  <2>2. ASSUME NEW x \in Linear!Tasks PROVE Linear!Task(x).query_idx \in Linear!InFlight'
    <3>1. CASE x[1] = t
      <4>1. x[2] \in Linear!Active(t) /\ x = <<t, x[2]>> /\ <<u, x[2]>> \in Linear!Tasks'
            /\ Linear!Task(<<u, x[2]>>)' = moved[x[2]]
        BY <1>16, <3>1
      <4>2. moved[x[2]].query_idx = Linear!Task(x).query_idx
        BY <1>11, <4>1
      <4> QED  BY <4>1, <4>2 DEF Linear!InFlight
    <3>2. CASE x[1] # t
      BY <1>16, <3>2 DEF Linear!InFlight
    <3> QED  BY <3>1, <3>2
  <2> QED  BY <2>1, <2>2 DEF Linear!InFlight
<1>20. Linear!Settled' = Linear!Settled
  BY <1>1, <1>19 DEF Linear!Settled
<1>21. Linear!TypeOK'
  <2>1. moved \in [Linear!Group -> [query_idx : Linear!QueryIdx, node : Linear!NodeIds(tree) \cup {NULL}, active : BOOLEAN]]
    <3>1. \A i \in Linear!Group :
             moved[i] \in [query_idx : Linear!QueryIdx, node : Linear!NodeIds(tree) \cup {NULL}, active : BOOLEAN]
      BY <1>11, <1>12
    <3>2. moved = [i \in Linear!Group |-> moved[i]]
      BY <1>6
    <3> QED  BY <3>1, <3>2
  <2>2. left \in [Linear!Group -> [query_idx : Linear!QueryIdx, node : Linear!NodeIds(tree) \cup {NULL}, active : BOOLEAN]]
    <3>1. \A i \in Linear!Group :
             left[i] \in [query_idx : Linear!QueryIdx, node : Linear!NodeIds(tree) \cup {NULL}, active : BOOLEAN]
      BY <1>4, <1>5, <1>7 DEF Linear!Off
    <3>2. left = [i \in Linear!Group |-> left[i]]
      BY <1>7
    <3> QED  BY <3>1, <3>2
  <2>3. linear_batches' \in [0 .. linear_depth - 1 -> [Linear!Group -> [query_idx : Linear!QueryIdx,
                                                                        node : Linear!NodeIds(tree) \cup {NULL},
                                                                        active : BOOLEAN]]]
    BY <1>4, <1>8, <2>1, <2>2
  <2>4. linear_stage' \in -1 .. linear_depth
    BY <1>1, <1>2, <1>4
  <2> QED  BY <1>1, <1>10, <2>3, <2>4 DEF LinearIInv, Linear!PipelineExact, Linear!TypeOK
<1>22. LinearHeightCounted' /\ LinearPhases'
  <2>1. linear_stage' \in -1 .. linear_depth - 2
    BY <1>1, <1>2, <1>4
  <2> QED  BY <1>1, <1>2, <1>10, <2>1 DEF LinearIInv, LinearHeightCounted, LinearPhases, LinearBuilt
<1>23. Linear!BatchesAligned'
  <2>1. ASSUME NEW x \in Linear!Tasks'
        PROVE  /\ Linear!Node(Linear!Task(x)'.node).level = linear_depth - 1 - x[1]
               /\ Linear!OnPath(Linear!Task(x)'.query_idx, Linear!Task(x)'.node)
    <3>1. CASE x[1] = u /\ x[2] \in Linear!Active(t) /\ x = <<u, x[2]>> /\ Linear!Task(x)' = moved[x[2]]
      BY <1>11, <3>1
    <3>2. CASE x[1] # t /\ x \in Linear!Tasks /\ Linear!Task(x)' = Linear!Task(x)
      BY <1>2, <3>2, LinearTaskFacts
    <3> QED  BY <1>15, <3>1, <3>2
  <2> QED  BY <1>1, <1>10, <2>1 DEF Linear!BatchesAligned
<1>24. Linear!TargetsEmpty'
  <2>1. \A b : b = t => Linear!Active(b)' = {}
    BY <1>9, <1>13 DEF Linear!Active
  <2> QED  BY <1>5, <2>1 DEF Linear!TargetsEmpty, Linear!Active
<1>25. LinearTasksDealt'
  <2>1. ASSUME NEW x \in Linear!Tasks'
        PROVE  Linear!Task(x)'.query_idx \in 0 .. linear_next - 1 /\ Linear!Task(x)'.node \in Linear!NodeIds(tree)
    <3>1. CASE x[1] = u /\ x[2] \in Linear!Active(t) /\ x = <<u, x[2]>> /\ Linear!Task(x)' = moved[x[2]]
      BY <1>11, <3>1 DEF LinearIInv, LinearTasksDealt
    <3>2. CASE x[1] # t /\ x \in Linear!Tasks /\ Linear!Task(x)' = Linear!Task(x)
      BY <3>2 DEF LinearIInv, LinearTasksDealt
    <3> QED  BY <1>15, <3>1, <3>2
  <2> QED  BY <1>1, <1>10, <2>1 DEF LinearTasksDealt
<1>26. Linear!FinishedCountExact' /\ LinearSettledRight'
  BY <1>1, <1>10, <1>20 DEF LinearIInv, Linear!PipelineExact, Linear!FinishedCountExact, LinearSettledRight
<1> QED  BY <1>18, <1>20, <1>21, <1>22, <1>23, <1>24, <1>25, <1>26 DEF LinearIInv, Linear!PipelineExact

LEMMA LinearRefillStep ==
  ASSUME LinearIInv, Linear!Refill
  PROVE  LinearIInv' /\ Linear!Settled' = Linear!Settled
<1>1. /\ linear_pc = "shift" /\ linear_pc' = "loop" /\ linear_stage < 0
      /\ UNCHANGED <<Linear!args, Linear!outs, linear_depth, linear_curr, linear_stage, linear_finished>>
      /\ linear_next' = Linear!Min2(linear_next + GROUP_SIZE, Linear!n)
  BY DEF Linear!Refill
<1>2. /\ Linear!n' = Linear!n /\ Linear!QueryIdx' = Linear!QueryIdx /\ Linear!NodeIds(tree)' = Linear!NodeIds(tree)
      /\ (Linear!NothingToDo' <=> Linear!NothingToDo) /\ Linear!OutsTypeOK' /\ ~Linear!NothingToDo
      /\ \A q : (Linear!RightAnswer(q)' <=> Linear!RightAnswer(q)) /\ (Linear!Unanswered(q)' <=> Linear!Unanswered(q))
      /\ \A q, v : Linear!OnPath(q, v)' <=> Linear!OnPath(q, v)
  BY <1>1, LinearOutsUnchanged DEF LinearIInv, Linear!PipelineExact, Linear!TypeOK, LinearPhases
<1>3. LinearBuilt /\ tree' = tree /\ queries' = queries /\ \A v : Linear!Node(v)' = Linear!Node(v)
  BY <1>1, <1>2 DEF LinearBuilt, Linear!args, Linear!Node
<1>4. /\ linear_depth \in Nat \ {0} /\ linear_depth = Linear!Node(tree.root).level + 1 /\ DOMAIN linear_batches = 0 .. linear_depth - 1
      /\ linear_batches \in [0 .. linear_depth - 1 -> [Linear!Group -> [query_idx : Linear!QueryIdx,
                                                                        node : Linear!NodeIds(tree) \cup {NULL},
                                                                        active : BOOLEAN]]]
      /\ Linear!n \in Nat \ {0} /\ linear_next \in 0 .. Linear!n
      /\ tree.root \in Linear!NodeIds(tree)
      /\ \A q \in Linear!QueryIdx : Linear!OnPath(q, tree.root)
      /\ GROUP_SIZE \in Nat \ {0}
  BY <1>3, LinearBuiltFacts, GroupAssumption
<1>5. PICK t \in 0 .. linear_depth - 1 : t = 0
  BY <1>4
<1>6. Linear!Node(tree.root).level = linear_depth - 1 - t
  <2>1. Linear!Node(tree.root).level \in Nat
    BY <1>3, <1>4, LinearBuiltFacts DEF Linear!WellFormed, Linear!NodeOK, Linear!Node
  <2> QED  BY <1>4, <1>5, <2>1
<1>7. PICK row : row = [i \in Linear!Group |-> IF linear_next + i < Linear!n
                                               THEN [query_idx |-> linear_next + i, node |-> tree.root,
                                                     active |-> TRUE]
                                               ELSE Linear!Off(linear_batches[t][i])]
  OBVIOUS
<1>8. linear_batches' = [linear_batches EXCEPT ![t] = row]
  BY <1>5, <1>7 DEF Linear!Refill
<1>9. /\ DOMAIN linear_batches' = 0 .. linear_depth - 1 /\ linear_batches'[t] = row
      /\ \A b \in 0 .. linear_depth - 1 : b # t => linear_batches'[b] = linear_batches[b]
  BY <1>4, <1>8
<1>10. linear_next' \in 0 .. Linear!n /\ linear_next <= linear_next'
  BY <1>1, <1>4 DEF Linear!Min2
<1>11. ASSUME NEW i \in Linear!Group, linear_next + i < Linear!n
       PROVE  /\ row[i].query_idx = linear_next + i /\ row[i].node = tree.root /\ row[i].active
              /\ linear_next + i \in Linear!QueryIdx /\ linear_next + i \in 0 .. linear_next' - 1
              /\ row[i] \in [query_idx : Linear!QueryIdx, node : Linear!NodeIds(tree) \cup {NULL}, active : BOOLEAN]
  <2>1. row[i] = [query_idx |-> linear_next + i, node |-> tree.root, active |-> TRUE]
    BY <1>7, <1>11
  <2>2. linear_next + i \in Linear!QueryIdx /\ linear_next + i \in 0 .. linear_next' - 1
    BY <1>1, <1>4, <1>11 DEF Linear!Min2, Linear!Group, Linear!QueryIdx
  <2> QED  BY <1>4, <2>1, <2>2
<1>12. ASSUME NEW i \in Linear!Group, ~(linear_next + i < Linear!n)
       PROVE  /\ ~row[i].active
              /\ row[i] \in [query_idx : Linear!QueryIdx, node : Linear!NodeIds(tree) \cup {NULL}, active : BOOLEAN]
  <2>1. row[i] = Linear!Off(linear_batches[t][i])
    BY <1>7, <1>12
  <2>2. linear_batches[t][i] \in [query_idx : Linear!QueryIdx, node : Linear!NodeIds(tree) \cup {NULL}, active : BOOLEAN]
    BY <1>4
  <2> QED  BY <2>1, <2>2 DEF Linear!Off
<1>13. ASSUME NEW q \in 0 .. linear_next' - 1, q \notin 0 .. linear_next - 1
       PROVE  \E i \in Linear!Group : q = linear_next + i /\ linear_next + i < Linear!n
  <2>1. q - linear_next \in Linear!Group /\ q = linear_next + (q - linear_next) /\ q < Linear!n
    BY <1>1, <1>4, <1>10, <1>13 DEF Linear!Min2, Linear!Group
  <2> QED  BY <2>1
<1>14. Linear!Active(t) = {}
  <2>1. linear_stage = -1
    BY <1>1, <1>4 DEF LinearIInv, LinearPhases
  <2>2. linear_stage + 1 = t
    BY <1>5, <2>1
  <2> QED  BY <1>1, <2>2 DEF LinearIInv, Linear!PipelineExact, Linear!TargetsEmpty
<1>15. \A x \in Linear!Tasks : x[1] # t
  BY <1>3, <1>14, LinearTaskFacts
<1>16. /\ \A x \in Linear!Tasks : x \in Linear!Tasks' /\ Linear!Task(x)' = Linear!Task(x)
       /\ \A x \in Linear!Tasks' : \/ x \in Linear!Tasks /\ Linear!Task(x)' = Linear!Task(x)
                                   \/ \E i \in Linear!Group : /\ x = <<t, i>> /\ linear_next + i < Linear!n
                                                              /\ Linear!Task(x)' = row[i]
       /\ \A i \in Linear!Group : linear_next + i < Linear!n => /\ <<t, i>> \in Linear!Tasks'
                                                                /\ Linear!Task(<<t, i>>)' = row[i]
  <2>1. ASSUME NEW x \in Linear!Tasks PROVE x \in Linear!Tasks' /\ Linear!Task(x)' = Linear!Task(x)
    <3>1. x \in (0 .. linear_depth - 1) \X Linear!Group /\ x[1] # t /\ Linear!Task(x).active
      BY <1>4, <1>15 DEF Linear!Tasks
    <3>2. Linear!Task(x)' = Linear!Task(x)
      BY <1>9, <3>1 DEF Linear!Task
    <3> QED  BY <1>9, <3>1, <3>2 DEF Linear!Tasks
  <2>2. ASSUME NEW x \in Linear!Tasks', x \notin Linear!Tasks
        PROVE  \E i \in Linear!Group : x = <<t, i>> /\ linear_next + i < Linear!n /\ Linear!Task(x)' = row[i]
    <3>1. x \in (0 .. linear_depth - 1) \X Linear!Group /\ Linear!Task(x)'.active
      BY <1>9 DEF Linear!Tasks
    <3>2. x[1] = t
      BY <1>4, <1>9, <2>2, <3>1 DEF Linear!Tasks, Linear!Task
    <3>3. Linear!Task(x)' = row[x[2]]
      BY <1>9, <3>2 DEF Linear!Task
    <3>4. x[2] \in Linear!Group /\ x = <<t, x[2]>> /\ linear_next + x[2] < Linear!n
      BY <1>12, <3>1, <3>2, <3>3
    <3> QED  BY <3>3, <3>4
  <2>3. ASSUME NEW i \in Linear!Group, linear_next + i < Linear!n
        PROVE  <<t, i>> \in Linear!Tasks' /\ Linear!Task(<<t, i>>)' = row[i]
    <3>1. Linear!Task(<<t, i>>)' = row[i] /\ row[i].active
      BY <1>9, <1>11, <2>3 DEF Linear!Task
    <3> QED  BY <1>9, <3>1 DEF Linear!Tasks
  <2>4. \A x \in Linear!Tasks' : x \in Linear!Tasks => Linear!Task(x)' = Linear!Task(x)
    BY <2>1
  <2> QED  BY <2>1, <2>2, <2>3, <2>4
<1>17. \A x \in Linear!Tasks : Linear!Task(x).query_idx \in 0 .. linear_next - 1 /\ Linear!Task(x).node \in Linear!NodeIds(tree)
  BY DEF LinearIInv, LinearTasksDealt
<1>18. \A x \in Linear!Tasks' : \/ x \in Linear!Tasks /\ Linear!Task(x)' = Linear!Task(x)
                                \/ \E i \in Linear!Group : /\ x = <<t, i>> /\ linear_next + i < Linear!n
                                                           /\ Linear!Task(x)'.query_idx = linear_next + i
                                                           /\ Linear!Task(x)'.node = tree.root
                                                           /\ linear_next + i \in Linear!QueryIdx
                                                           /\ linear_next + i \in 0 .. linear_next' - 1
                                                           /\ linear_next + i \notin 0 .. linear_next - 1
  <2>1. \A i \in Linear!Group : linear_next + i \notin 0 .. linear_next - 1
    BY <1>4 DEF Linear!Group
  <2> QED  BY <1>11, <1>16, <2>1
<1>19. Linear!OneTaskPerQuery'
  <2>1. ASSUME NEW x \in Linear!Tasks', NEW y \in Linear!Tasks', Linear!Task(x)'.query_idx = Linear!Task(y)'.query_idx
        PROVE  x = y
    <3>1. CASE x \in Linear!Tasks /\ y \in Linear!Tasks
      BY <1>16, <2>1, <3>1 DEF LinearIInv, Linear!PipelineExact, Linear!OneTaskPerQuery
    <3>2. CASE x \in Linear!Tasks /\ y \notin Linear!Tasks
      BY <1>16, <1>17, <1>18, <2>1, <3>2
    <3>3. CASE x \notin Linear!Tasks /\ y \in Linear!Tasks
      BY <1>16, <1>17, <1>18, <2>1, <3>3
    <3>4. CASE x \notin Linear!Tasks /\ y \notin Linear!Tasks
      <4>1. \A i, j \in Linear!Group : linear_next + i = linear_next + j => i = j
        BY <1>4 DEF Linear!Group
      <4> QED  BY <1>18, <2>1, <3>4, <4>1
    <3> QED  BY <3>1, <3>2, <3>3, <3>4
  <2> QED  BY <2>1 DEF Linear!OneTaskPerQuery
<1>20. \A q : q \in 0 .. linear_next - 1 => q \in 0 .. linear_next' - 1
  <2>1. linear_next \in Int /\ linear_next' \in Int /\ linear_next <= linear_next'
    BY <1>4, <1>10
  <2> QED  BY <2>1, BelowGrows
<1>21. LinearTasksDealt'
  <2>1. ASSUME NEW x \in Linear!Tasks'
        PROVE  Linear!Task(x)'.query_idx \in 0 .. linear_next' - 1 /\ Linear!Task(x)'.node \in Linear!NodeIds(tree)
    BY <1>4, <1>17, <1>18, <1>20
  <2> QED  BY <1>2, <2>1 DEF LinearTasksDealt
<1>22. Linear!Settled' = Linear!Settled
  <2>1. ASSUME NEW q \in Linear!Settled PROVE q \in Linear!Settled'
    <3>1. q \in 0 .. linear_next - 1 /\ q \notin Linear!InFlight
      BY DEF Linear!Settled
    <3>2. q \notin Linear!InFlight'
      <4> SUFFICES ASSUME NEW x \in Linear!Tasks', Linear!Task(x)'.query_idx = q PROVE FALSE
        BY DEF Linear!InFlight
      <4> QED  BY <1>18, <3>1 DEF Linear!InFlight
    <3> QED  BY <1>20, <3>1, <3>2 DEF Linear!Settled
  <2>2. ASSUME NEW q \in Linear!Settled' PROVE q \in Linear!Settled
    <3>1. q \in 0 .. linear_next' - 1 /\ q \notin Linear!InFlight'
      BY DEF Linear!Settled
    <3>2. q \in 0 .. linear_next - 1
      <4> SUFFICES ASSUME q \notin 0 .. linear_next - 1 PROVE FALSE
        OBVIOUS
      <4>1. PICK i \in Linear!Group : q = linear_next + i /\ linear_next + i < Linear!n
        BY <1>13, <3>1
      <4>2. <<t, i>> \in Linear!Tasks' /\ Linear!Task(<<t, i>>)'.query_idx = q
        BY <1>11, <1>16, <4>1
      <4> QED  BY <3>1, <4>2 DEF Linear!InFlight
    <3>3. q \notin Linear!InFlight
      BY <1>16, <3>1 DEF Linear!InFlight
    <3> QED  BY <3>2, <3>3 DEF Linear!Settled
  <2> QED  BY <2>1, <2>2
<1>23. Linear!TypeOK'
  <2>1. row \in [Linear!Group -> [query_idx : Linear!QueryIdx, node : Linear!NodeIds(tree) \cup {NULL}, active : BOOLEAN]]
    <3>1. \A i \in Linear!Group :
             row[i] \in [query_idx : Linear!QueryIdx, node : Linear!NodeIds(tree) \cup {NULL}, active : BOOLEAN]
      BY <1>11, <1>12
    <3>2. row = [i \in Linear!Group |-> row[i]]
      BY <1>7
    <3> QED  BY <3>1, <3>2
  <2>2. linear_batches' \in [0 .. linear_depth - 1 -> [Linear!Group -> [query_idx : Linear!QueryIdx,
                                                                        node : Linear!NodeIds(tree) \cup {NULL},
                                                                        active : BOOLEAN]]]
    BY <1>4, <1>8, <2>1
  <2> QED  BY <1>1, <1>2, <1>10, <2>2 DEF LinearIInv, Linear!PipelineExact, Linear!TypeOK
<1>24. LinearHeightCounted' /\ LinearPhases' /\ Linear!TargetsEmpty'
  BY <1>1, <1>2, <1>3 DEF LinearIInv, LinearHeightCounted, LinearPhases, LinearBuilt, Linear!TargetsEmpty
<1>25. Linear!BatchesAligned'
  <2>1. ASSUME NEW x \in Linear!Tasks'
        PROVE  /\ Linear!Node(Linear!Task(x)'.node).level = linear_depth - 1 - x[1]
               /\ Linear!OnPath(Linear!Task(x)'.query_idx, Linear!Task(x)'.node)
    <3>1. CASE x \in Linear!Tasks /\ Linear!Task(x)' = Linear!Task(x)
      BY <1>3, <3>1, LinearTaskFacts
    <3>2. CASE x[1] = t /\ Linear!Task(x)'.node = tree.root /\ Linear!Task(x)'.query_idx \in Linear!QueryIdx
      BY <1>4, <1>6, <3>2
    <3> QED  BY <1>18, <3>1, <3>2
  <2> QED  BY <1>1, <1>2, <1>3, <2>1 DEF Linear!BatchesAligned
<1>26. Linear!FinishedCountExact' /\ LinearSettledRight'
  BY <1>1, <1>2, <1>22 DEF LinearIInv, Linear!PipelineExact, Linear!FinishedCountExact, LinearSettledRight
<1> QED  BY <1>19, <1>21, <1>22, <1>23, <1>24, <1>25, <1>26 DEF LinearIInv, Linear!PipelineExact

LEMMA LinearStepIInv ==
  ASSUME LinearIInv, [Linear!Next]_(Linear!vars)
  PROVE  LinearIInv'
<1>1. CASE Linear!Start       BY <1>1, LinearStartStep
<1>2. CASE Linear!CountLevel  BY <1>2, LinearCountLevelStep
<1>3. CASE Linear!Allocate    BY <1>3, LinearAllocateStep
<1>4. CASE Linear!LoopTest    BY <1>4, LinearLoopTestStep
<1>5. CASE Linear!LeafStage   BY <1>5, LinearLeafStageStep
<1>6. CASE Linear!Shift       BY <1>6, LinearShiftStep
<1>7. CASE Linear!Refill      BY <1>7, LinearRefillStep
<1>8. CASE UNCHANGED Linear!vars
  <2>1. /\ UNCHANGED <<Linear!args, Linear!outs, linear_batches, linear_next, linear_finished>>
        /\ UNCHANGED <<tree, queries, linear_pc, linear_depth, linear_curr, linear_stage>>
    BY <1>8 DEF Linear!vars, Linear!args, Linear!outs
  <2>2. /\ Linear!n' = Linear!n /\ Linear!QueryIdx' = Linear!QueryIdx /\ Linear!NodeIds(tree)' = Linear!NodeIds(tree)
        /\ (Linear!NothingToDo' <=> Linear!NothingToDo) /\ Linear!OutsTypeOK'
        /\ Linear!Tasks' = Linear!Tasks /\ \A x : Linear!Task(x)' = Linear!Task(x)
        /\ \A q, v : Linear!OnPath(q, v)' <=> Linear!OnPath(q, v)
        /\ Linear!OneTaskPerQuery' /\ LinearTasksDealt' /\ Linear!FinishedCountExact' /\ LinearSettledRight'
    BY <2>1, LinearQuiet
  <2>3. Linear!TypeOK'
    BY <2>1, <2>2 DEF LinearIInv, Linear!PipelineExact, Linear!TypeOK
  <2>4. LinearHeightCounted' /\ LinearPhases' /\ Linear!TargetsEmpty'
    BY <2>1, <2>2
       DEF LinearIInv, Linear!PipelineExact, LinearHeightCounted, LinearPhases, LinearBuilt,
           Linear!TargetsEmpty, Linear!Active, Linear!Node
  <2>5. Linear!BatchesAligned'
    BY <2>1, <2>2 DEF LinearIInv, Linear!PipelineExact, Linear!BatchesAligned, Linear!Node
  <2> QED  BY <2>2, <2>3, <2>4, <2>5 DEF LinearIInv, Linear!PipelineExact
<1> QED  BY <1>1, <1>2, <1>3, <1>4, <1>5, <1>6, <1>7, <1>8 DEF Linear!Next, Linear!Returned

-----------------------------------------------------------------------------
(* SPP_Linear takes steps of the abstract batch lookup.                    *)

LEMMA LinearAllSettledAtReturn ==
  ASSUME LinearIInv, linear_finished >= Linear!n
  PROVE  Linear!Settled = Linear!QueryIdx
<1>1. Linear!n \in Nat /\ Linear!Settled \subseteq Linear!QueryIdx
  BY LinearSettledFacts
<1>2. Cardinality(Linear!Settled) \in Nat /\ Cardinality(Linear!Settled) <= Linear!n
  BY <1>1, LinearPositionsFinite DEF LinearIInv, Linear!PipelineExact, Linear!TypeOK
<1>3. Cardinality(Linear!Settled) = Linear!n
  BY <1>1, <1>2, LinearCounts DEF LinearIInv, Linear!PipelineExact, Linear!FinishedCountExact
<1> QED  BY <1>1, <1>3, LinearPositionsFinite DEF LinearIInv, Linear!PipelineExact, Linear!TypeOK

LEMMA LinearInitRefines == Linear!Init => Linear!Abstract!Init
<1> SUFFICES ASSUME Linear!Init PROVE Linear!Abstract!Init
  OBVIOUS
<1>1. Linear!OutsTypeOK /\ Linear!Settled = {}
  BY LinearInitIInv DEF LinearIInv, Linear!PipelineExact, Linear!TypeOK
<1>2. Linear!Answered = {}
  BY <1>1 DEF Linear!Init, Linear!Answered
<1> QED  BY <1>1, <1>2, LinearAbstractTypes
         DEF Linear!Init, Linear!ArgsAndOutsInit, Linear!Abstract!Init, Linear!Abstract!Positions,
             Linear!QueryIdx, Linear!n

LEMMA LinearStepRefines ==
  ASSUME LinearIInv, [Linear!Next]_(Linear!vars)
  PROVE  [Linear!Abstract!Next]_(Linear!Abstract!vars)
<1>1. LinearIInv'
  BY LinearStepIInv
<1>2. ASSUME UNCHANGED <<Linear!args, Linear!outs>>, Linear!Answered' = Linear!Answered
      PROVE  UNCHANGED Linear!Abstract!vars
  <2>1. tree' = tree /\ queries' = queries /\ linear_found' = linear_found /\ linear_results' = linear_results
    BY <1>2 DEF Linear!args, Linear!outs
  <2>2. Linear!Stored(tree)' = Linear!Stored(tree)
    BY <2>1 DEF Linear!Stored, Linear!Leaves, Linear!NodeIds, Linear!Slots, Linear!isleafnode
  <2> QED  BY <1>2, <2>1, <2>2 DEF Linear!Abstract!vars
<1>3. ASSUME UNCHANGED Linear!args, Linear!Answered \subseteq Linear!Answered', Linear!Answered' \subseteq Linear!QueryIdx,
             \A q \in Linear!Answered' \ Linear!Answered : Linear!RightAnswer(q)',
             \A q \in Linear!QueryIdx \ (Linear!Answered' \ Linear!Answered) :
                  linear_found'[q] = linear_found[q] /\ linear_results'[q] = linear_results[q],
             Linear!Answered # Linear!Answered'
      PROVE  Linear!Abstract!Answer
  <2>1. tree' = tree /\ queries' = queries
    BY <1>3 DEF Linear!args
  <2>2. Linear!Stored(tree)' = Linear!Stored(tree) /\ Linear!QueryIdx' = Linear!QueryIdx
    BY <2>1
       DEF Linear!Stored, Linear!Leaves, Linear!NodeIds, Linear!Slots, Linear!isleafnode,
           Linear!QueryIdx, Linear!n
  <2>3. Linear!Abstract!Positions = Linear!QueryIdx
    BY DEF Linear!Abstract!Positions, Linear!QueryIdx, Linear!n
  <2>4. ASSUME NEW q \in Linear!Answered' \ Linear!Answered PROVE Linear!Abstract!RightAnswer(q)'
    <3>1. Linear!RightAnswer(q)'
      BY <1>3
    <3> QED  BY <3>1
                DEF Linear!RightAnswer, Linear!Present, Linear!KeyAt, Linear!Abstract!RightAnswer,
                    Linear!Abstract!KeyAt
  <2>5. DOMAIN linear_found' = Linear!QueryIdx /\ DOMAIN linear_results' = Linear!QueryIdx
    BY <1>1, <2>2 DEF LinearIInv, Linear!PipelineExact, Linear!TypeOK, Linear!OutsTypeOK
  <2> QED  BY <1>3, <2>1, <2>2, <2>3, <2>4, <2>5 DEF Linear!Abstract!Answer
<1>4. CASE Linear!Start
  <2>1. UNCHANGED <<Linear!args, Linear!outs>> /\ linear_pc = "start" /\ linear_pc' \in {"returned", "height"}
    BY <1>4 DEF Linear!Start
  <2>2. Linear!Settled = {} /\ Linear!Answered = {} /\ Linear!Settled' = {}
    <3>1. linear_next = 0
      BY <2>1 DEF LinearIInv, LinearHeightCounted
    <3> QED  BY <1>4, <2>1, <3>1, LinearStartStep DEF Linear!Answered, Linear!Settled
  <2>3. CASE Linear!NothingToDo
    <3>1. Linear!Answered' = Linear!QueryIdx /\ Linear!QueryIdx' = Linear!QueryIdx
      BY <1>4, <2>1, <2>3, LinearOutsUnchanged DEF Linear!Start, Linear!Answered
    <3>2. \A q \in Linear!QueryIdx : Linear!RightAnswer(q)'
      BY <2>1, <2>2, <2>3, LinearOutsUnchanged, LinearNothingToDoIsRight
         DEF LinearIInv, Linear!PipelineExact, Linear!TypeOK, LinearSettledRight
    <3>3. linear_found' = linear_found /\ linear_results' = linear_results
      BY <2>1 DEF Linear!outs
    <3>4. CASE Linear!QueryIdx = {}
      BY <1>2, <2>1, <2>2, <3>1, <3>4
    <3>5. CASE Linear!QueryIdx # {}
      BY <1>3, <2>1, <2>2, <3>1, <3>2, <3>3, <3>5 DEF Linear!Abstract!Next
    <3> QED  BY <3>4, <3>5
  <2>4. CASE ~Linear!NothingToDo
    <3>1. linear_pc' = "height"
      BY <1>4, <2>4 DEF Linear!Start
    <3> QED  BY <1>2, <2>1, <2>2, <3>1 DEF Linear!Answered
  <2> QED  BY <2>3, <2>4
<1>5. CASE Linear!CountLevel \/ Linear!Allocate \/ Linear!Shift \/ Linear!Refill
  <2>1. UNCHANGED <<Linear!args, Linear!outs>> /\ linear_pc # "returned" /\ linear_pc' # "returned"
    BY <1>5 DEF Linear!CountLevel, Linear!Allocate, Linear!Shift, Linear!Refill
  <2>2. Linear!Settled' = Linear!Settled
    BY <1>5, LinearCountLevelStep, LinearAllocateStep, LinearShiftStep, LinearRefillStep
  <2> QED  BY <1>2, <2>1, <2>2 DEF Linear!Answered
<1>6. CASE Linear!LoopTest
  <2>1. UNCHANGED <<Linear!args, Linear!outs>> /\ linear_pc = "loop" /\ Linear!Settled' = Linear!Settled
    BY <1>6, LinearLoopTestStep DEF Linear!LoopTest
  <2>2. CASE linear_finished < Linear!n
    <3>1. linear_pc' = "leaves"
      BY <1>6, <2>2 DEF Linear!LoopTest
    <3> QED  BY <1>2, <2>1, <3>1 DEF Linear!Answered
  <2>3. CASE ~(linear_finished < Linear!n)
    <3>1. linear_pc' = "returned" /\ Linear!QueryIdx' = Linear!QueryIdx
      BY <1>6, <2>1, <2>3, LinearOutsUnchanged DEF Linear!LoopTest
    <3>2. Linear!n \in Nat /\ linear_finished \in Nat
      BY LinearSettledFacts DEF LinearIInv, Linear!PipelineExact, Linear!TypeOK
    <3>3. Linear!Settled = Linear!QueryIdx
      BY <2>3, <3>2, LinearAllSettledAtReturn
    <3> QED  BY <1>2, <2>1, <3>1, <3>3 DEF Linear!Answered
  <2> QED  BY <2>2, <2>3
<1>7. CASE Linear!LeafStage
  <2>1. UNCHANGED Linear!args /\ linear_pc = "leaves" /\ linear_pc' = "shift"
    BY <1>7 DEF Linear!LeafStage
  <2>2. PICK Qs \in SUBSET (Linear!QueryIdx \ Linear!Settled) :
           /\ Linear!Settled' = Linear!Settled \cup Qs
           /\ \A r \in Linear!QueryIdx \ Qs : linear_found'[r] = linear_found[r] /\ linear_results'[r] = linear_results[r]
    BY <1>7, LinearLeafStageStep
  <2>3. Linear!Answered = Linear!Settled /\ Linear!Answered' = Linear!Settled \cup Qs
    BY <2>1, <2>2 DEF Linear!Answered
  <2>4. Linear!Settled' \subseteq Linear!QueryIdx /\ Linear!QueryIdx' = Linear!QueryIdx /\ Linear!Settled \subseteq Linear!QueryIdx
    BY <1>7, <2>2, LinearLeafStageStep, LinearSettledFacts
  <2>5. \A q \in Qs : Linear!RightAnswer(q)'
    BY <1>1, <2>2, <2>4 DEF LinearIInv, LinearSettledRight
  <2>6. Linear!Answered' \ Linear!Answered = Qs
    BY <2>2, <2>3
  <2>7. CASE Qs = {}
    <3>1. DOMAIN linear_found = Linear!QueryIdx /\ DOMAIN linear_results = Linear!QueryIdx
          /\ DOMAIN linear_found' = Linear!QueryIdx /\ DOMAIN linear_results' = Linear!QueryIdx
      BY <1>1, <2>4 DEF LinearIInv, Linear!PipelineExact, Linear!TypeOK, Linear!OutsTypeOK
    <3>2. linear_found' = linear_found /\ linear_results' = linear_results
      <4>1. /\ linear_found \in [Linear!QueryIdx -> BOOLEAN] /\ linear_found' \in [Linear!QueryIdx -> BOOLEAN]
            /\ linear_results \in [Linear!QueryIdx -> Value \cup {Stale}]
            /\ linear_results' \in [Linear!QueryIdx -> Value \cup {Stale}]
        BY <1>1, <2>4 DEF LinearIInv, Linear!PipelineExact, Linear!TypeOK, Linear!OutsTypeOK
      <4>2. \A r \in Linear!QueryIdx : linear_found'[r] = linear_found[r] /\ linear_results'[r] = linear_results[r]
        BY <2>2, <2>7
      <4> QED  BY <4>1, <4>2
    <3> QED  BY <1>2, <2>1, <2>3, <2>7, <3>2 DEF Linear!outs
  <2>8. CASE Qs # {}
    <3>1. Linear!Answered \subseteq Linear!Answered' /\ Linear!Answered' \subseteq Linear!QueryIdx /\ Linear!Answered # Linear!Answered'
      BY <2>2, <2>3, <2>4, <2>6, <2>8
    <3>2. Linear!Abstract!Answer
      BY <1>3, <2>1, <2>2, <2>5, <2>6, <3>1
    <3> QED  BY <3>2 DEF Linear!Abstract!Next
  <2> QED  BY <2>7, <2>8
<1>8. CASE UNCHANGED Linear!vars
  <2>1. UNCHANGED <<Linear!args, Linear!outs, linear_batches, linear_next, linear_finished>> /\ linear_pc' = linear_pc
    BY <1>8 DEF Linear!vars, Linear!args, Linear!outs
  <2>2. Linear!Answered' = Linear!Answered
    BY <2>1, LinearQuiet DEF Linear!Answered
  <2> QED  BY <1>2, <2>1, <2>2
<1> QED  BY <1>4, <1>5, <1>6, <1>7, <1>8 DEF Linear!Next, Linear!Returned

-----------------------------------------------------------------------------
(* The theorems about SPP_Linear, whichever of the two pipelines is called. *)

(* A step of the other pipeline stutters here: it keeps the arguments. *)
LEMMA LinearStepOrStutter ==
  ASSUME [MCNext]_allVars
  PROVE  [Linear!Next]_(Linear!vars)
<1>1. CASE Next /\ UNCHANGED linearVars
  <2>1. tree' = tree /\ queries' = queries
    BY <1>1
    DEF Next, Start, CountLevel, Allocate, LoopTest, LeafStage, InnerStage, Rotate, Refill,
        Returned, args, vars
  <2> QED  BY <1>1, <2>1 DEF linearVars, Linear!vars
<1>2. CASE Linear!Next
  BY <1>2
<1>3. CASE UNCHANGED allVars
  BY <1>3 DEF allVars, vars, linearVars, Linear!vars
<1> QED  BY <1>1, <1>2, <1>3 DEF MCNext

LEMMA LinearInvariance == MCSpec => []LinearIInv
<1>1. MCInit => LinearIInv
  BY LinearInitIInv DEF MCInit
<1>2. LinearIInv /\ [MCNext]_allVars => LinearIInv'
  BY LinearStepOrStutter, LinearStepIInv
<1> QED  BY <1>1, <1>2, PTL DEF MCSpec

(* SPP_Linear's batches, flags and counters always agree: tasks are on the  *)
(* level of their batch and on the path of their key, nothing is copied     *)
(* over an active task, and finished_count counts the queries that left.    *)
THEOREM LinearStaysExact == MCSpec => []LinearPipelineExact
<1>1. LinearIInv => LinearPipelineExact
  BY DEF LinearIInv, LinearPipelineExact
<1> QED  BY <1>1, LinearInvariance, PTL

(* SPP_Linear implements the abstract batch lookup: it answers the queries  *)
(* of its last batch at a time, or all of them when the tree is empty.      *)
THEOREM LinearRefinement == MCSpec => LinearRefinesBatchLookup
<1>1. MCInit => Linear!Abstract!Init
  BY LinearInitRefines DEF MCInit
<1>2. LinearIInv /\ [MCNext]_allVars => [Linear!Abstract!Next]_(Linear!Abstract!vars)
  BY LinearStepOrStutter, LinearStepRefines
<1> QED
  BY <1>1, <1>2, LinearInvariance, PTL
  DEF MCSpec, LinearRefinesBatchLookup, Linear!RefinesBatchLookup, Linear!Abstract!SafeSpec
=============================================================================
