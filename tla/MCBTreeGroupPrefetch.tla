------------------------- MODULE MCBTreeGroupPrefetch -------------------------
(***************************************************************************)
(* The strategies that finish a query, a group or a vector before the next *)
(* one starts: GroupPrefetch, Vectorized (with GroupPrefetch_Linear),      *)
(* Vectorized_Linear, NoPrefetch and find_group, on trees with half full   *)
(* and full nodes, with batches that are less than a group, whole groups,  *)
(* and whole groups and a part.  One of the five is called; GroupPrefetch  *)
(* has outputs and variables of its own, the others share theirs.          *)
(***************************************************************************)
EXTENDS BTreeGroupPrefetch, SampleTrees

CONSTANT MaxQueries

VARIABLES strategy,
          v_found, v_results, v_pc, v_start, v_nodes, v_slots,   (* of the vectors *)
          base_i, base_curr,                                     (* of NoPrefetch  *)
          before                                                 (* of find_group  *)

Baseline == INSTANCE BTreeNoPrefetch WITH
              found <- v_found, results <- v_results, pc <- v_pc, i <- base_i, curr <- base_curr
Vectors  == INSTANCE BTreeVectorized WITH
              VECTOR_SIZE <- GROUP_SIZE, OnePass <- FALSE, found <- v_found, results <- v_results,
              pc <- v_pc, batch_start <- v_start, curr_nodes <- v_nodes, slots <- v_slots
Linear   == INSTANCE BTreeVectorized WITH
              VECTOR_SIZE <- GROUP_SIZE, OnePass <- TRUE, found <- v_found, results <- v_results,
              pc <- v_pc, batch_start <- v_start, curr_nodes <- v_nodes, slots <- v_slots
Find     == INSTANCE BTreeFind WITH
              GroupSize <- GROUP_SIZE, FIND_STEPS <- LEAF_STEPS, found <- v_found,
              results <- v_results, pc <- v_pc, batch_start <- v_start, curr_nodes <- v_nodes,
              PipelineDepth <- 0, ring <- <<>>, next_query_idx <- 0, finished_count <- 0, i <- 0

MCKey     == 0 .. 10
Shapes    == {EmptyTree(NULL), OneLeaf, ThreeLevels, Repeated, Wide, WideTall}
MCTrees   == Shapes \cup {TwoLevels, FourLevels, KeysAsData(OneLeaf), KeysAsData(Repeated)}
BatchesOf(keys, most) == UNION {[1 .. m -> keys] : m \in 0 .. most}
GroupBatches  == BatchesOf({0, 2, 4, 8, 10}, MaxQueries)
VectorBatches == BatchesOf({0, 4, 5, 9}, MaxQueries + 1)
MCBatches == GroupBatches \cup VectorBatches
MCpow2    == [e \in 0 .. INNER_STEPS + LEAF_STEPS |-> 2 ^ e]

vectorVars == <<v_found, v_results, v_pc, v_start, v_nodes, v_slots>>
allVars    == <<vars, strategy, vectorVars, base_i, base_curr, before>>

MCInit ==
  /\ \/ strategy = "GroupPrefetch" /\ tree \in Shapes /\ queries \in GroupBatches
     \/ strategy \in {"NoPrefetch", "Vectorized", "Vectorized_Linear"} /\ queries \in VectorBatches
     \/ strategy = "find_group" /\ tree \in Shapes /\ queries \in GroupBatches
  /\ Init
  /\ IF strategy = "find_group" THEN Find!GroupInit /\ v_slots = <<>>
     ELSE Vectors!Init /\ before = FALSE
  /\ base_i = 0 /\ base_curr = NULL

MCNext ==
  /\ \/ strategy = "GroupPrefetch" /\ Next /\ UNCHANGED <<vectorVars, base_i, base_curr, before>>
     \/ strategy = "find_group" /\ Find!GroupNext /\ UNCHANGED <<vars, v_slots, base_i, base_curr>>
     \/ /\ \/ strategy = "NoPrefetch" /\ Baseline!Next /\ UNCHANGED <<v_start, v_nodes, v_slots>>
           \/ strategy = "Vectorized" /\ Vectors!Next /\ UNCHANGED <<base_i, base_curr>>
           \/ strategy = "Vectorized_Linear" /\ Linear!Next /\ UNCHANGED <<base_i, base_curr>>
        /\ UNCHANGED <<vars, before>>
  /\ UNCHANGED strategy

MCSpec == MCInit /\ [][MCNext]_allVars

-----------------------------------------------------------------------------
(* Vectorized keeps a vector on one level and follows fresh slots only;     *)
(* Vectorized_Linear keeps its vectors on their paths and finds exactly     *)
(* what is stored; find_group does both with its fixed number of halvings.  *)
VectorsExact == /\ strategy = "Vectorized" => Vectors!VectorExact
                /\ strategy = "Vectorized_Linear" => Linear!VectorExact
                /\ strategy = "find_group" => Find!FindGroupExact

(* NoPrefetch a query at a time, and Vectorized a vector at a time, do what *)
(* the abstract batch lookup allows.  Vectorized_Linear does not: it        *)
(* answers with keys.                                                       *)
VectorsRefineBatchLookup ==
  /\ strategy # "find_group" => Baseline!Abstract!Init /\ Vectors!Abstract!Init
  /\ [][/\ strategy = "NoPrefetch" => [Baseline!Abstract!Next]_(Baseline!Abstract!vars)
        /\ strategy = "Vectorized" => [Vectors!Abstract!Next]_(Vectors!Abstract!vars)]_allVars

(* What the comment at Vectorized_Linear.hpp 67 says of Vectorized_Linear:  *)
(* nothing but the search was changed, so it gathers the data of a hit.     *)
GathersData == strategy = "Vectorized_Linear" => Linear!GathersData
=============================================================================
