----------------------------- MODULE MCBTreeAMAC -----------------------------
(***************************************************************************)
(* The two pools, BTreeAMAC and BTreeAMACLinear, and the ring of find_spp, *)
(* on every sample tree with every batch of up to MaxQueries keys,         *)
(* present, absent and repeated.  One of the three is called; BTreeAMAC    *)
(* has outputs and variables of its own, the other two share theirs.       *)
(***************************************************************************)
EXTENDS BTreeAMAC, SampleTrees

CONSTANT MaxQueries

VARIABLES strategy,
          linear_found, linear_results, linear_pc, linear_pool, linear_next, linear_done, linear_k,
          ring, before   (* of find_spp *)

Linear == INSTANCE BTreeAMACLinear WITH
            found <- linear_found, results <- linear_results, pc <- linear_pc, pool <- linear_pool,
            next_query_idx <- linear_next, all_done <- linear_done, k <- linear_k

Find == INSTANCE BTreeFind WITH
          PipelineDepth <- POOL_SIZE, found <- linear_found, results <- linear_results,
          pc <- linear_pc, next_query_idx <- linear_next,
          finished_count <- linear_done, i <- linear_k,
          GroupSize <- 0, FIND_STEPS <- 0, batch_start <- 0, curr_nodes <- <<>>

MCKey     == 0 .. 9
MCTrees   == {EmptyTree(NULL), OneLeaf, TwoLevels, ThreeLevels, Repeated}
QueryKeys == {0, 4, 5, 9}
MCBatches == UNION {[1 .. m -> QueryKeys] : m \in 0 .. MaxQueries}

linearVars == <<linear_found, linear_results, linear_pc, linear_pool, linear_next, linear_done, linear_k>>
allVars    == <<vars, strategy, linearVars, ring, before>>

MCInit ==
  /\ Init
  /\ \/ strategy \in {"AMAC", "AMAC_Linear"} /\ Linear!Init /\ before = FALSE /\ ring = <<>>
     \/ strategy = "find_spp" /\ Find!RingInit /\ linear_pool = pool

MCNext ==
  /\ \/ strategy = "AMAC" /\ Next /\ UNCHANGED <<linearVars, ring, before>>
     \/ strategy = "AMAC_Linear" /\ Linear!Next /\ UNCHANGED <<vars, ring, before>>
     \/ strategy = "find_spp" /\ Find!RingNext /\ UNCHANGED <<vars, linear_pool>>
  /\ UNCHANGED strategy

MCSpec == MCInit /\ [][MCNext]_allVars /\ WF_allVars(MCNext)

-----------------------------------------------------------------------------
(* Pool, position and counters of AMAC_Linear agree with each other; so do  *)
(* ring, counters and answers of find_spp, which fills a slot again in the  *)
(* visit that empties it and answers the queries out of order.              *)
LinearPoolExact == /\ strategy = "AMAC_Linear" => Linear!PoolExact
                   /\ strategy = "find_spp" => Find!RingExact

(* AMAC_Linear implements the abstract batch lookup, too.                   *)
LinearRefinesBatchLookup ==
  /\ strategy = "AMAC_Linear" => Linear!Abstract!Init
  /\ [][strategy = "AMAC_Linear" => [Linear!Abstract!Next]_(Linear!Abstract!vars)]_allVars

(* AMAC returns; AMAC_Linear answers every query, for which its position k  *)
(* must come back to every machine; find_spp returns, for which every query *)
(* must be counted once.  Fairness only says that the call keeps running    *)
(* (AMAC.hpp 69, AMAC_Linear.hpp 65-66, 117, btree.h 2161).                 *)
CallsReturn == /\ strategy = "AMAC" => Terminates
               /\ strategy = "AMAC_Linear" => Linear!AnswersAll
               /\ strategy = "find_spp" => <>(linear_pc = "returned")
=============================================================================
