-------------------------- MODULE MCLearnedLookup --------------------------
(***************************************************************************)
(* The fifteen lookup strategies of the learned indexes: LIPP, on trees as *)
(* LIPPIndex builds them, RS and PGM, on indexes that RadixSpline and      *)
(* PGMIndex build.  Batches are all those of up to MaxQueries keys:     *)
(* stored once and more than once, absent between, before and after the    *)
(* others.  A strategy is chosen in the beginning; what the strategies     *)
(* call by one name is one variable here.                                  *)
(***************************************************************************)
EXTENDS LIPPAMAC

CONSTANTS MaxQueries, Error,
          Indexes,        (* for every strategy of RS and PGM, the indexes   *)
          WindowBatches   (* it is called on, and the batches                *)

VARIABLES strategy, index,
          tasks, nodes, active, remaining, pos,   (* of LIPP                 *)
          stages, windows, step,                  (* of RS and PGM           *)
          batch_start

NoTree    == <<>>
NoIndex   == [keys |-> <<>>]
LIPPGroups   == {"LIPP_NoPrefetch", "LIPP_GroupPrefetch", "LIPP_Vectorized"}
ByOne        == {"RS_NoPrefetch", "PGM_NoPrefetch"}
BySteps      == {"RS_Vectorized", "PGM_Vectorized", "PGM_GroupPrefetch"}
WindowGroups == ByOne \cup BySteps \cup {"RS_GroupPrefetch"}
ByStages     == {"RS_SPP", "PGM_SPP"}
ByMachine    == {"RS_AMAC", "PGM_AMAC"}
Windowed     == WindowGroups \cup ByStages \cup ByMachine
AnyIndex     == UNION {Indexes[s] : s \in Windowed}

(* NoPrefetch takes a query at a time.                                      *)
GroupSize == IF strategy \in {"LIPP_NoPrefetch"} \cup ByOne THEN 1 ELSE POOL_SIZE

Sweeps   == INSTANCE LIPPGroup WITH GROUP_SIZE <- GroupSize,
                                    TwoPasses <- (strategy = "LIPP_Vectorized")
Tasks    == INSTANCE LIPPSPP WITH PIPELINE_DEPTH <- POOL_SIZE
Rounds   == INSTANCE WindowGroup WITH Indexes <- AnyIndex, Batches <- WindowBatches,
                                      GROUP_SIZE <- GroupSize,
                                      FixedSteps <- (strategy \in BySteps),
                                      EarlyReturn <- (strategy \notin ByOne)
Stages   == INSTANCE WindowSPP WITH Indexes <- AnyIndex, Batches <- WindowBatches,
                                    GROUP_SIZE <- POOL_SIZE
Machines == INSTANCE WindowAMAC WITH Indexes <- AnyIndex, Batches <- WindowBatches

ASSUME KeyAssumption == Key \subseteq Int
ASSUME IndexesAssumption == \A s \in Windowed : \A x \in Indexes[s] : Machines!SoundIndex(x)
ASSUME WindowBatchesAssumption == \A batch \in WindowBatches : batch \in Seq(Key)

(* The stages of SPP take a window with lo past hi for an empty place.      *)
ASSUME StagesAssumption ==
  \A s \in ByStages : \A x \in Indexes[s] : \A key \in Key : x.window[key].lo <= x.window[key].hi

-----------------------------------------------------------------------------
(* Every call starts from the outputs and the working state its strategy    *)
(* allocates.                                                              *)
MCInit ==
  /\ \/ strategy \in LIPPGroups \cup {"LIPP_SPP", "LIPP_AMAC"}
        /\ tree \in Trees /\ index = NoIndex /\ queries \in Batches
     \/ strategy \in Windowed
        /\ tree = NoTree /\ index \in Indexes[strategy] /\ queries \in WindowBatches
  /\ found = [q \in QueryIdx |-> FALSE]
  /\ results = [q \in QueryIdx |-> Stale]
  /\ pc = IF strategy \in LIPPGroups \cup WindowGroups THEN "for" ELSE "start"
  /\ pool = [j \in Slots |-> IF strategy \in ByMachine THEN Machines!Idle ELSE Idle]
  /\ tasks = [j \in Slots |-> Tasks!NoTask]
  /\ stages = IF strategy \in ByStages THEN [s \in 0 .. Stages!H |-> [j \in Slots |-> Stages!NoTask]]
              ELSE <<>>
  /\ next_query_idx = 0 /\ finished = 0 /\ i = 0
  /\ batch_start = 0 /\ remaining = 0 /\ step = 0
  /\ nodes = [j \in Sweeps!Lanes |-> <<>>]
  /\ active = [j \in Sweeps!Lanes |-> FALSE]
  /\ pos = [j \in Sweeps!Lanes |-> Sweeps!NoPos]
  /\ windows = [j \in Rounds!Lanes |-> Rounds!NoWindow]

ofPools   == <<next_query_idx, finished>>
ofGroups  == <<nodes, active, remaining, pos>>
ofWindows == <<stages, windows, step>>
allVars   == <<vars, strategy, index, tasks, ofGroups, ofWindows, batch_start>>

LIPPNext ==
  /\ \/ strategy \in LIPPGroups /\ Sweeps!Next /\ UNCHANGED <<pool, tasks, ofPools, i>>
     \/ strategy = "LIPP_SPP" /\ Tasks!Next /\ UNCHANGED <<pool, ofGroups, batch_start>>
     \/ strategy = "LIPP_AMAC" /\ Next /\ UNCHANGED <<tasks, ofGroups, batch_start>>
  /\ UNCHANGED <<index, ofWindows>>

WindowNext ==
  /\ \/ strategy \in WindowGroups /\ Rounds!Next /\ UNCHANGED <<pool, ofPools, i, stages>>
     \/ strategy \in ByStages /\ Stages!Next /\ UNCHANGED <<pool, i, batch_start, windows, step>>
     \/ strategy \in ByMachine /\ Machines!Next /\ UNCHANGED <<batch_start, ofWindows>>
  /\ UNCHANGED <<tree, tasks, ofGroups>>

MCNext == UNCHANGED strategy /\ (LIPPNext \/ WindowNext)

MCSpec == MCInit /\ [][MCNext]_allVars /\ WF_allVars(MCNext)

(* SPP and AMAC: no query is carried twice, none leaves its way or its      *)
(* window, and counters and answers agree at every step.                   *)
PoolsExact == /\ strategy = "LIPP_SPP" => Tasks!PoolExact
              /\ strategy = "LIPP_AMAC" => PoolExact
              /\ strategy \in ByStages => Stages!PipelineExact
              /\ strategy \in ByMachine => Machines!PoolExact

(* Groups and vectors keep members, counters and answers together, and the  *)
(* counted rounds of a binary search are enough.                           *)
GroupsExact == /\ strategy \in LIPPGroups => Sweeps!GroupExact
               /\ strategy \in WindowGroups => Rounds!GroupExact

(* Every strategy does what the abstract batch lookup allows.               *)
RefineBatchLookup ==
  /\ strategy \in LIPPGroups => Sweeps!Abstract!Init
  /\ strategy = "LIPP_SPP" => Tasks!Abstract!Init
  /\ strategy = "LIPP_AMAC" => Abstract!Init
  /\ strategy \in WindowGroups => Rounds!Abstract!Init
  /\ strategy \in ByStages => Stages!Abstract!Init
  /\ strategy \in ByMachine => Machines!Abstract!Init
  /\ [][/\ strategy \in LIPPGroups => [Sweeps!Abstract!Next]_(Sweeps!Abstract!vars)
        /\ strategy = "LIPP_SPP" => [Tasks!Abstract!Next]_(Tasks!Abstract!vars)
        /\ strategy = "LIPP_AMAC" => [Abstract!Next]_(Abstract!vars)
        /\ strategy \in WindowGroups => [Rounds!Abstract!Next]_(Rounds!Abstract!vars)
        /\ strategy \in ByStages => [Stages!Abstract!Next]_(Stages!Abstract!vars)
        /\ strategy \in ByMachine => [Machines!Abstract!Next]_(Machines!Abstract!vars)]_allVars

(* Every call returns; fairness only says that it keeps running.           *)
CallsReturn == <>(pc = "returned")

-----------------------------------------------------------------------------
(* Samples for TLC.                                                         *)

RS        == INSTANCE RadixSpline WITH
               KeyBits <- 6, NumRadixBits <- 2, MaxError <- Error, Settings <- {}, Inputs <- {},
               MaxKeys <- 0, builder <- <<>>, rs <- <<>>
PGM       == INSTANCE PGMIndex WITH
               KeyBits <- 6, Epsilon <- Error, EpsilonRecursive <- 1,
               Inputs <- {}, MaxKeys <- 0, pgm <- <<>>

(* Trees of keys 0, 1, 2, 30, 31 and 60 inserted one after the other into   *)
(* the empty index, and the empty index: a root of one item, two-key nodes  *)
(* of eight, and the positions their models predict.                        *)
Two(lo, hi, none, child, data) ==
  [num_items |-> 8, model |-> [key \in Key |-> (2 * (hi - lo) + 3 * (key - lo)) \div (hi - lo)],
   none_bitmap |-> none, child_bitmap |-> child, data |-> data]
Single(none, child, data) ==
  [num_items |-> 1, model |-> [key \in Key |-> 0],
   none_bitmap |-> none, child_bitmap |-> child, data |-> data]
Fn(pairs) == [x \in {pair[1] : pair \in pairs} |-> (CHOOSE pair \in pairs : pair[1] = x)[2]]
Item(key) == <<key, key + 100>>

EmptyIndex == Fn({<<<<>>, Single({0}, {}, Fn({}))>>})
OneItem    == Fn({<<<<>>, Single({}, {}, Fn({<<0, Item(2)>>}))>>})
Chain      == Fn({<<<<>>, Single({}, {0}, Fn({}))>>,
                  <<<<0>>, Two(0, 30, {0, 1, 3, 4, 6, 7}, {2}, Fn({<<5, Item(30)>>}))>>,
                  <<<<0, 2>>, Two(0, 2, {0, 1, 4, 6, 7}, {}, Fn({<<2, Item(0)>>, <<3, Item(1)>>, <<5, Item(2)>>}))>>})
Forked     == Fn({<<<<>>, Two(1, 60, {0, 1, 4, 6, 7}, {2}, Fn({<<3, Item(30)>>, <<5, Item(60)>>}))>>,
                  <<<<2>>, Two(1, 2, {0, 1, 3, 4, 6, 7}, {}, Fn({<<2, Item(1)>>, <<5, Item(2)>>}))>>})
MCTrees == {EmptyIndex, OneItem, Chain, Forked}

(* RS and PGM indexes over sorted keys with and without repetitions.  A     *)
(* value tells the position it is stored at.                               *)
Sorted    == {<<3>>, <<3, 3, 3, 3, 9, 9>>, <<3, 4, 9, 10, 11, 30, 40, 41>>}
Vec(s)    == [p \in 0 .. Len(s) - 1 |-> s[p + 1]]
Index(keys, window, levels) ==
  [keys |-> keys, values |-> [p \in DOMAIN keys |-> p], window |-> window,
   error |-> Error, levels |-> levels]
AsWindow(bound) == [lo |-> bound.begin, hi |-> bound.end]
RSOver(keys, spline) ==
  {Index(keys, [key \in Key |-> AsWindow(RS!GetSearchBound(spline, key, falls))], 1) :
     falls \in BOOLEAN}
PGMOver(keys, pgm) ==
  {Index(keys, [key \in Key |-> AsWindow(PGM!search(pgm, key, falls))], 1) :
     falls \in BOOLEAN}
BottomOver(keys, pgm) ==
  {Index(keys, [key \in Key |-> PGM!BottomWindow(pgm, key, falls, cast)], Len(pgm.levels)) :
     falls \in BOOLEAN, cast \in {0, 32, 63}}
RSIndexes     == {Index(<<>>, [key \in Key |-> [lo |-> 0, hi |-> 0]], 1)}
                 \cup UNION {RSOver(Vec(v), RS!IndexOf(Vec(v), 2, Error)) : v \in Sorted}
PGMIndexes    == UNION {PGMOver(Vec(v), PGM!build(Vec(v), FALSE)) : v \in Sorted}
BottomIndexes == UNION {BottomOver(Vec(v), PGM!build(Vec(v), FALSE)) : v \in Sorted}

MCKey       == {0, 1, 2, 3, 4, 9, 10, 11, 20, 30, 31, 40, 41, 60}
MCValue     == {key + 100 : key \in MCKey} \cup 0 .. 7
BatchesOf(keys) == UNION {[1 .. m -> keys] : m \in 0 .. MaxQueries}
MCBatches   == BatchesOf({1, 2, 3, 30})
MCWindowBatches == BatchesOf({1, 3, 9, 20, 41})

(* PGM GroupPrefetch and AMAC find their windows themselves; PGM is not     *)
(* looked up in before it is loaded.                                       *)
MCIndexes ==
  [s \in Windowed |->
     CASE s \in {"PGM_GroupPrefetch", "PGM_AMAC"}               -> BottomIndexes
       [] s \in {"PGM_NoPrefetch", "PGM_Vectorized", "PGM_SPP"} -> PGMIndexes
       [] OTHER                                                 -> RSIndexes]
=============================================================================
