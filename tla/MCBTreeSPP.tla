------------------------------ MODULE MCBTreeSPP ------------------------------
(***************************************************************************)
(* The two pipelines, BTreeSPP and BTreeSPPLinear, on trees of every       *)
(* height from one to four: every batch of up to ShortBatch keys, and      *)
(* batches of up to LongBatch keys, enough to fill the longest pipeline,   *)
(* keep it full for a round and drain it, with a last group that is full   *)
(* or not.  One of the two is called; each has outputs and variables of    *)
(* its own.                                                                *)
(***************************************************************************)
EXTENDS BTreeSPP, SampleTrees

CONSTANTS ShortBatch, LongBatch

VARIABLES strategy,
          linear_found, linear_results, linear_pc, linear_depth, linear_curr, linear_batches,
          linear_stage, linear_next, linear_finished

Linear == INSTANCE BTreeSPPLinear WITH
            found <- linear_found, results <- linear_results, pc <- linear_pc, depth <- linear_depth,
            curr <- linear_curr, batches <- linear_batches, stage <- linear_stage,
            next_query_idx <- linear_next, finished_count <- linear_finished

MCKey     == 0 .. 9
MCTrees   == {EmptyTree(NULL), OneLeaf, TwoLevels, ThreeLevels, FourLevels, Repeated}
QueryKeys == {0, 4, 5, 9}
MCBatches == UNION {[1 .. m -> QueryKeys] : m \in 0 .. ShortBatch}
             \cup {[j \in 1 .. m |-> (3 * j + c) % 10] : m \in ShortBatch + 1 .. LongBatch, c \in 0 .. 3}

linearVars == <<linear_found, linear_results, linear_pc, linear_depth, linear_curr, linear_batches,
                linear_stage, linear_next, linear_finished>>
allVars    == <<vars, strategy, linearVars>>

MCInit == strategy \in {"SPP", "SPP_Linear"} /\ Init /\ Linear!Init

MCNext ==
  /\ \/ strategy = "SPP" /\ Next /\ UNCHANGED linearVars
     \/ strategy = "SPP_Linear" /\ Linear!Next /\ UNCHANGED vars
  /\ UNCHANGED strategy

MCSpec == MCInit /\ [][MCNext]_allVars /\ WF_allVars(MCNext)

-----------------------------------------------------------------------------
(* Batches, flags and counters of SPP_Linear agree with each other.         *)
LinearPipelineExact == Linear!PipelineExact

(* SPP_Linear implements the abstract batch lookup, too.                    *)
LinearRefinesBatchLookup == Linear!RefinesBatchLookup

(* Both return: their pipelines drain.  Fairness only says that the call    *)
(* keeps running (SPP.hpp 81, SPP_Linear.hpp 70).                           *)
CallsReturn == /\ strategy = "SPP" => Terminates
               /\ strategy = "SPP_Linear" => Linear!Terminates
=============================================================================
