# TLA+ verification of prefetch-bench-framework

The framework measures strategies for looking up a *batch* of keys in an
in-memory index: one query at a time, or many interleaved so that the memory
accesses of one hide behind the work on others. It is sequential C++17; what
makes it hard is that every strategy schedules many half-finished lookups by
hand, in pools, pipelines and vectors whose bookkeeping (counters, cursors,
reused arrays) is easy to get wrong for a particular batch length, pool size or
tree height, and that `main.cpp` never compares the answers. The modules here
state what a batch lookup promises, model each scheduling strategy from its
source, check them with TLC and prove the most important results with TLAPS.

All source paths below are relative to `src/`.

## 1. Inventory of the system

| part | state | operations | correct when |
|---|---|---|---|
| `src/main.cpp` driver | times, results per strategy | load, sort, `run_benchmark` (warm-up, 15 runs, trimmed mean) | the mean is over the middle runs, never over none |
| `include/structures/btree/BTree.hpp` | the stx tree | `bulk_load`, `batch_lookup_*` | each call hands the tree to the strategy it names |
| `btree/stx-btree-0.9` (`btree.h`) | nodes, leaf list, counters | `bulk_load`, `insert`, `erase`, `find*`, `verify`, iterators, dump and restore | `verify()` holds after every update, and the leaves hold exactly the items |
| `btree/algorithms/*.hpp` (10) | pool, pipeline, group or vector of lookups; `found`, `results` | `batch_lookup` | every query is answered once, from the leaf its key belongs to, in its own entry, and the call returns |
| `btree/BTreeStatistics.hpp`, `profiling` | counters per level | instrumented lookups | levels within `MAX_LEVELS` |
| `PGM/PGM_index`, `PGMWrapper.hpp` | keys, values, levels of segments | `bulk_load`, `search` | a key is within epsilon of its predicted position |
| `PGM/algorithms` (5) | as above, over windows of positions | `batch_lookup` | as above, and the steps of every search suffice |
| `RS/RS_index` | keys, values, radix table, spline points | `Builder`, `build`, `GetSearchBound`; `RadixSplineIndex` | the window returned holds the key |
| `RS/algorithms` (5) | as above | `batch_lookup` | as above |
| `LIPP/LIPP_index`, `LIPPWrapper.hpp` | nodes with bitmaps of items and children, pool of two-key nodes | `bulk_load`, `insert` with rebuilds, `at`, `exists`, destruction | no item is lost by conflicts and rebuilds, no node is lost or kept |
| `LIPP/algorithms` (5) | a path down the tree for every lookup | `batch_lookup` | as above |
| `include/utils`, `analysis`, scripts | none of their own | timing, plots | not a subject of this project |

`main.cpp` loads one sorted key array into an index through its wrapper
(`bulk_load`), then calls every strategy of the wrapper on the same query batch.
A strategy reads the index through raw node pointers (`get_root`, `slotkey`,
`childid`, `slotdata`), never changes it, and returns a vector `found` beside
the caller's vector `results`. There are no threads, callbacks or persistent
state; the interleaving is that of lookups inside one call. Nothing can crash
half-way and be resumed, so no module models crashes.

Hard behaviour: recycling of pool entries; pipeline fill, saturation and drain
against tree height; decisions made for a whole group from its first member;
arrays reused between levels, groups and vectors; binary searches with a number
of steps fixed at compile time; SIMD comparison of unsigned keys and the tail
after the last whole chunk; repeated integer division that shares items among
nodes; an array overwritten while it is still read (`bulk_load`); batches that
are empty, short, or not a multiple of anything; keys repeated across leaves;
windows of predicted positions whose width depends on rounding, segment ends and
repeated keys; subtrees rebuilt from counters kept along the paths of inserts;
nodes recycled with their old contents.
`PROJECT.json` lists the hazards line by line with the properties that cover
them.

## 2. Modules

```
BatchLookup                     what any batch lookup promises (abstract)
BPlusTree                       tree as a value, node search, well-formedness
 |- NodeSearch                  the loops that search one node
 |- BTreeStore                  the btree object: nodes, verify, queries, iterators
 |   |- BulkLoad                btree::bulk_load
 |   `- BTreeUpdate             insert, erase, clear, copy, restore
 `- BTreeLookup                 arguments and outputs common to the strategies
     |- BTreeNoPrefetch         NoPrefetch, NoPrefetch_Linear
     |- BTreeGroupPrefetch      GroupPrefetch
     |- BTreeVectorized         Vectorized, GroupPrefetch_Linear, Vectorized_Linear
     |- BTreeSPP                SPP
     |- BTreeSPPLinear          SPP_Linear
     |- BTreeAMAC               AMAC
     |- BTreeAMACLinear         AMAC_Linear
     `- BTreeFind               btree::find_group, btree::find_spp
SortedItems                     what the B+ tree promises (abstract)
UniqueItems                     what LIPP promises (abstract)
LIPPTree                        LIPP tree as a value, exists, at, verify
 |- LIPPIndex                   insert, rebuild, bulk_load, node pool, destruction
 `- LIPPLookup                  one item of a LIPP node (with IndexLookup)
     |- LIPPGroup               NoPrefetch, GroupPrefetch, Vectorized of LIPP
     |- LIPPSPP                 SPP of LIPP
     `- LIPPAMAC                AMAC of LIPP
RadixSpline                     Builder, RadixSpline, RSWrapper
RadixSplineIndex                the spline of rs_index.hpp
PGMIndex                        segmentation, levels, search, PGMWrapper
IndexLookup                     arguments and outputs of the learned lookups
 `- WindowLookup                binary search in a predicted window
     |- WindowGroup             NoPrefetch, GroupPrefetch, Vectorized of RS and PGM
     |- WindowSPP               SPP of RS and PGM
     `- WindowAMAC              AMAC of RS and PGM
SampleTrees                     trees for model checking
MC*                             constants for TLC and compositions (NodeSearch and
                                BulkLoad hold their own samples)
BTreeLookup_proofs              lemmas on trees (descents, lower bounds, halvings) and
                                on batches (answers, counters, refinement)
BTreeAMAC_proofs                AMAC, AMAC_Linear, find_spp
BTreeSPP_proofs                 SPP, SPP_Linear
BTreeGroupPrefetch_proofs       GroupPrefetch, NoPrefetch, Vectorized,
                                Vectorized_Linear, find_group
NodeSearch_proofs               the node searches
BulkLoad_proofs                 bulk_load and verify
LIPPLookup_proofs               the lookups of LIPP
LearnedLookup_proofs            the lookups of RS and PGM, and all fifteen together
```

**BPlusTree** is a tree as a record of nodes; `WellFormed` is the part of
`btree::verify` a lookup relies on, with two ghost functions `lo`, `hi` that
name the separators on the way to a node. `find_lower` is the search's result;
the loops that compute it are `NodeSearch`. `BulkLoad` shows that the trees the
benchmark builds are `WellFormed` (`LoadedSearchable`), so the assumption all
strategy modules make on their trees is itself checked against the builder.

**BatchLookup** has one action: settle any set of unanswered queries, each with
found = "the key is stored" and, if so, a value stored with that key, leaving
the other entries as they are. Every strategy except Vectorized_Linear is shown
to implement it under the mapping `stored <- Stored(tree)`,
`answered <- Answered`, where `Answered` is what the strategy's own bookkeeping
says is finished; so the refinement checks the bookkeeping as well as the
answers. A results entry of a missed query keeps what it held (`Stale`); the
code's `results.resize(n)` does the same.

**The strategies** keep the names of the code's variables. One action is one
pass of the code's innermost scheduling loop: a visit of one machine (AMAC), one
stage (SPP), one halving of a whole group (GroupPrefetch), one pass over a vector
(Vectorized). The loops over the members of a group, a stage or a vector are one
action when the members do not touch each other's entries. Prefetch hints have
no effect on state and are left out. The code writes `results` under
`if (!BTree::traits::selfverify)`; the traits of `BTree.hpp` set
`selfverify = false`, so the write is unconditional in the model. `slotdata` is
read as the value of a slot. A pool entry that was never dealt has no query
(`NoQuery`) and no node; the code leaves these fields uninitialised, and the
models show they are never read.

**BTreeStore** is the `btree` object as a record: nodes, both directions of the
leaf list, head and tail, root, and the counters of `tree_stats`. `verify` is
translated with everything the code asserts, the statistics and the list
included; `Searchable` relates such a tree to the `WellFormed` trees of the
strategies.

**BTreeUpdate** has one action per public call that changes a tree. A call is
atomic because nothing else holds the object. The recursive descents are
recursive functions on nodes that return what the C++ functions return
(`result_t` with its flags, the key and child split off), and `ok`, whether the
`BTREE_ASSERT`s on the way hold. The erase descent is written as the path of
frames it passes down (`Frames`: the neighbours and parents computed at each
level) and what each level repairs on the way back (`Balance`: collapse, merge
or shift, chosen by `Remedy`). `erase_one` and `erase(iterator)` share this
code, which the source repeats. Between calls the nodes are renumbered by
`CopyOf`, the model of `operator=`; this makes trees that differ in addresses one
state, and checks the copy along the way. `MinSlotsAssumption` (leaves of at
least 4 slots, inner nodes of 3) is what the code needs: a smaller leaf may
be emptied below a parent, and then `slotkey[slotuse - 1]` is read at -1. The
default traits have at least 8 slots. Two branches of the source are never
taken: after a leaf split (2713) an item at the end of the left half would have
gone to the right half, so the separator need not be updated, and the model
does not write this out; and in `shift_left_leaf` (3780) the left leaf always has
a separator in the common parent, so the model's branch for it is not reached.

**SortedItems** is the container as a sorted sequence. `called` records the call
with its arguments in both modules, so the refinement compares call by call: an
`erase(iterator)` that removed an equal item somewhere else would not do. No
guard reads `called`, and the run leaves it out of the state by a `VIEW`.

**BulkLoad** fills one node per action. Nodes are numbered in the order of
allocation. An entry of `nextlevel` holds the largest key where the code holds a
pointer to it in a leaf that no longer changes. Ranges are sorted, as the code
requires, and may repeat keys, which it does not refuse.

**BTreeFind** holds the batch lookups inside `btree.h`. They are given `found`
and `results` by their caller, with whatever these hold (`before`); on an empty
tree they return them as they are, stale answers included. `find_spp` refills a
slot within the visit that empties it.

**Reverse iterators** stand one item behind the item they point at. `ReverseRight`
(a part of `QueriesRight`) walks from `rbegin` to `rend` and back. The const
iterators repeat this code.

**LIPPTree** keeps a tree as a function from paths (the item positions from the
root) to nodes, so that a subtree is the set of paths below one. `Route` is where
predictions lead; `PREDICT_POS` clamps the integer part of a node's model, which
is a function from keys, as the code's `double` line is for the keys at hand.

**LIPPIndex** has one action per call. `insert` follows `insert_tree`: raise the
counters on the way, put the item into an empty position or both items into a
two-key node from the pool, then rebuild the first subtree on the path that is
due: scan its items into an array, destroy it, build it again. Building chooses
FMCD or the line through two thirds (the template parameter `USE_FMCD`) and
distributes the items over the positions the model predicts. Lines are fitted in
exact fractions. The code fits in `double` and `long double`: where the exact
prediction is an integer, the computed one may fall just below, so `falls` is
any set of keys for which it does. `pending` is the stack of recycled nodes,
which keep what the code leaves in them; `headers` and `arrays` count what
is allocated. The order in which `destroy_tree` returns nodes is that of a
stack walk; pooled nodes turn out equal (`IndexExact`), so it does not matter.
A failed `RT_ASSERT` ends the program (`pc = "exited"`).

**UniqueItems** is LIPP as a set of items with distinct keys, in which a repeated
key or a range that does not increase ends the program. As in `SortedItems`,
`called` records the call, so that the refinement is call by call; in particular
an assertion may fail for no other reason than the caller's keys.

**RadixSpline** has `BitWidth`, prefixes, points, table and window as the code
computes them on integers; only the interpolation uses `double`, treated as
above (`falls`). It gives a `Builder` keys one at a time, for any range the
Builder was made for, and models `build` of the wrapper with its stable sort.
**RadixSplineIndex** is the second spline of the repository.

**PGMIndex** begins with the online convex hull of `OptimalPiecewiseLinearModel`:
the hulls, the rectangle of the extreme lines, and the segment they leave, with
slopes as pairs of integers, compared by cross products as the code does. Then
come the levels and their sentinels, `segment_for_key` and `search`, and the
windows that GroupPrefetch and AMAC compute for themselves (upper_bound on the
segments, no clamp, unsigned arithmetic that wraps in front of the first key; a
product too great for `size_t` is converted to any value, `cast`). Last is the
wrapper: keys are appended, and a load that throws leaves grown vectors and the
old index.

**IndexLookup**, **LIPPLookup** and **WindowLookup** hold what the fifteen lookups
of the learned indexes share. RS and PGM differ in how a window is found, not in
how it is searched, so their strategies are one module each; AMAC spends
`levels` visits on finding a PGM window. NoPrefetch is a group of one: in LIPP one
that goes down until it ends, in RS and PGM one that is halved until its window
is closed and that does not ask first whether the index is empty. The size of
the group and these two differences are parameters of a call, variables that no
step changes (`call`). A lookup takes a tree that is `SoundTree` or an index that
is `SoundIndex`: `LIPPIndex` checks the first of every tree it builds, and
`SplineWindows` and `PGMWindows` check what the second says of windows.
`MCLearnedLookup` composes all of them with windows predicted by `RadixSpline` and
`PGMIndex` and with trees that `LIPPIndex` builds.

**NodeSearch** runs the four loops on any sorted node: words are integers below
`2 * HALF`, and a signed comparison reads them in two's complement, so the sign
flip is modelled by what it does.

Operators named `Op_Variant` and marked as mutants are deliberately wrong
versions of `Op`; no specification uses them. `PROJECT.json` names the property
that notices each.

## 3. Runs

| run | instance | shows |
|---|---|---|
| `group_prefetch` | GroupPrefetch, NoPrefetch, Vectorized, Vectorized_Linear, find_group; ten trees, groups of 2, nodes of up to 4 keys, batches of up to 4 | groups stay in step, fixed halvings suffice, slots are fresh when followed, partial groups right |
| `vectorized_linear_data` | Vectorized_Linear, data differ from keys | violated: finding 1 |
| `spp` | SPP and SPP_Linear, heights 1 to 4, batches of up to 3, and of 10 and 12 | stages distinct and aligned, FIFO, nothing overwritten or lost, drained |
| `amac` | AMAC, AMAC_Linear and find_spp, pool of 2, batches of up to 4 | machines and counters agree, complete return, nobody starves |
| `node_search` | all sorted nodes of 0 to 5 two-bit keys | all searches agree, only used slots are read |
| `bulk_load` | 0 to 30 items, distinct, tripled and all equal | loaded trees verify, can be searched, hold the range |
| `btree_update` | three cases, see below | trees verify after every call, queries are right, the tree is a sorted sequence |
| `learned_index` | LIPP with eight keys, a `Builder` for six settings, RSWrapper, PGM with every sequence of gaps | LIPP is a set of items, its counters and nodes are exact, no rebuild is left undone; predicted windows hold their keys |
| `learned_lookup` | five strategies each of LIPP, RS and PGM; groups, pools and pipelines of 2, batches of up to 3 | every strategy refines `BatchLookup`, its bookkeeping is exact, and it returns |
| `erase_siblings` | as `btree_update` | violated: finding 2 |
| `restore_truncated` | as `btree_update` | violated: finding 3 |
| `rs_index` | up to four keys of six bits, small and large gaps | violated: finding 4 |

Strategies that do not run at the same time are composed in one run: a variable
`strategy`, chosen by the initial state, says which is called.

Each run checks few properties, and each is the conjunction of the named parts
that make one thing true. `PoolExact` (AMAC, AMAC_Linear) is types,
`OneMachinePerQuery`, `CursorFollowsKey`, `DoneCountsAnswered` and, for AMAC,
`AnswersRight` and `ReturnsComplete`. `PipelineExact` (SPP, SPP_Linear) is types,
`StagesDistinct`, `StagesAligned`, `OneTaskPerQuery`, `FinishedCountExact`,
`AnswersRight` and `ReturnsComplete`; for SPP_Linear, `BatchesAligned` and
`TargetsEmpty` in place of the first two, and the answers by refinement.
`GroupExact` is types, `GroupInStep`, `RangeHoldsBound`, `StepsSuffice` and
`AnswersRight`. `VectorsExact` is, for Vectorized, types, `VectorInStep` and
`SlotsFresh`; for Vectorized_Linear, types and `FoundRight`; for find_group,
`FindGroupExact`. `LinearPoolExact` and `LinearPipelineExact` are the properties of
the linear variants, and of find_spp's ring (`RingExact`). `PoolsExact` and
`GroupsExact` do the same for the learned indexes. `SearchSafe` is types and
`ReadsUsedSlots`. `LoadConsistent` is types, `SharesAddUp` and
`OrphansListedOnce`. `EveryUpdateExact` is `UpdatesExact` in each case: `verify`,
`Searchable`, and no assertion failed. `EveryQueryRight` is `BoundsRight` (exists,
find, count and both bounds for every key), `StepsRight` (every step of an
iterator, both ways) and `ReverseRight`. `IndexExact` is `verify` and `SoundTree`
(every item lies where the predictions for its key lead) with the counts of nodes.
TLC names the conjunction when a part fails; the trace shows which part.

Bounds. `MaxQueries` (and `ShortBatch`, `LongBatch`) bound the batch: enough to
fill the pool or pipeline, recycle every place, and end with a partial group;
longer batches repeat these situations. Query keys are four: present, absent
between keys, equal to a separator, beyond the largest. Sample trees have
heights one to four (SPP's pipeline), an uneven split, a key repeated across
leaves, and nodes wide enough for several halvings; the empty tree is one of
them. `leafslotmax = 3`, `innerslotmax = 2` and `MaxItems = 30` in `bulk_load`
give every remainder and four levels. In `node_search`, chunks of two lanes and
up to five slots give no chunk, whole chunks, and a tail; keys lie on both sides
of the sign bit. `btree_update` explores all sequences of calls, with the cap
`MaxItems` on the size of the tree. The case "deep" is a multimap of two keys
with leaves and inner nodes of 4 slots and up to 17 items, which makes three
levels: experiments with a trap at each branch showed that every split, every
merge and every shift of leaves and of inner nodes is reached, both halves of an
uneven inner split and the insert between the halves included. Few keys are
no loss there: the structure depends on how keys compare, and long runs of an
equal key are the hard case for separators. The case "unique" is a map of six
keys, where an insert may be refused; "values" a multimap of two keys whose items
carry different values, so that it matters which of them goes.

`learned_index`: LIPP's thresholds are scaled down with the number of keys
(`MIN_REBUILD`, `GROWTH`, `GAPS`, the sizes where gaps get fewer and where nodes
are never rebuilt), keeping their order; eight keys in pairs of neighbours far
from each other give conflicts, chains, rebuilds of the root and of inner
nodes, and nodes that FMCD fits and gives up. `MAX_DEPTH = 4` is just enough for
these keys: with 3, `ImplementsItems` fails. `POOL = 1` node in advance makes the
pool run dry; `MaxPooled` keeps loads from filling it without end. Keys in the
code are integers that a `double` holds exactly. The `Builder` is given any
sequence of up to six of eight keys, for ranges the keys fill, leave and
start late in, and for 0 to 4 radix bits; RSWrapper all vectors of up to four
of three keys. PGM is loaded with every five gaps of 0, 1 and 7 and seven of 0
and 7, for an error of 1, and again with keys that continue, precede or contain
the sentinel; every key from 0 to 55 is looked up. Deadlock is not checked there,
because a Builder and a loaded PGM may have reached their bounds.

`learned_lookup`: four LIPP trees up to three levels deep, the empty index
included, and RS and PGM indexes of one key, of a key repeated beyond the error,
and of eight keys in four segments; queries are stored once, repeated, absent
between, before and after. Three queries in groups of 2 recycle a place and
leave a part of a group.

The theorems do not depend on these bounds.

Fairness. The pools and pipelines (AMAC, AMAC_Linear, SPP, SPP_Linear, find_spp)
and the learned lookups, whose loops end on counters, have `WF_vars(Next)` and
nothing more: a called function keeps running. There is one process, so nothing
is assumed of any single branch, and that a machine or a stage gets its turn is
for the code's own schedule to show (`CallsReturn`). The other modules are safety
only: their loops run over fixed counts or down a finite tree, and a deadlock
before the end would be reported. `BulkLoad` states its progress as safety:
whenever it moves up a level it provides for at least one node, and for at most
half as many as the level below is made of, from the leaves to the root
(`LevelsNarrow`). Deadlock is checked in every run but `learned_index`; a call that
has returned stutters explicitly.

## 4. Proofs

Proved for every value of the constants (any pool, group and capacity, any set
of well-formed trees, any batches):

* **AMAC** (`BTreeAMAC_proofs`): types, `OneMachinePerQuery`, `CursorFollowsKey`,
  `DoneCountsAnswered`, `AnswersRight`, `ReturnsComplete`, and refinement of
  `BatchLookup`. The inductive invariant adds that every machine carries a dealt
  query and that unanswered queries are untouched. The counter is the
  difficult part: it equals the cardinality of the settled queries, so leaving
  the loop at `all_done >= n` is the same as having no busy machine.
* **SPP** (`BTreeSPP_proofs`): types, `StagesDistinct`, `StagesAligned`,
  `OneTaskPerQuery`, `FinishedCountExact`, `AnswersRight`, `ReturnsComplete`,
  refinement. The invariant says the stage pointers are a permutation of the
  buffers and ties the level of every node in stage s to the height counted in
  advance; without the permutation a refill could overwrite tasks in flight.
* **GroupPrefetch** (`BTreeGroupPrefetch_proofs`): types, `GroupInStep`,
  `RangeHoldsBound`, `StepsSuffice`, `AnswersRight`, refinement. The variant of
  the halvings is the invariant `hi - lo < 2^(steps left)`, in terms of the
  capacity `calc_steps` computes with.
* **Node searches** (`NodeSearch_proofs`): types, `ReadsUsedSlots` and
  `ReturnsLowerBound` for every node, key range and chunk width; for the fixed
  halvings, for nodes of fewer than `2^FIXED_STEPS` slots. The invariant
  says that all slots before `lo` (or `pos`) are less than the key and those
  from `hi` on are not; for the vector search it needs the lemma that flipping
  the sign bit turns unsigned into signed order.

* **SPP's order** (`SettledInOrder`): queries are answered in the order of the
  batch. The invariant reads the rotating buffers as one queue, from the last
  stage to the first and by place within a stage: query numbers increase along
  it (`BuffersStaged`, `StagesOrdered`), the next query to deal is
  beyond them, and everything answered is before them (`OldestSettled`). A
  buffer is emptied only as the last stage, so the oldest leave first.
* **AMAC_Linear and find_spp** (`SiblingsExact`, `LinearRefinement`): the sibling
  pools of the AMAC run, with the same shape of invariant (machines carry dealt
  queries, settled ones are right, the others untouched). find_spp refills a
  slot within the visit that empties it and answers out of order; what it must not
  touch is whatever its caller passed in (`RingUntouched`).
* **SPP_Linear** (`LinearStaysExact`, `LinearRefinement`): batches move from row to
  row, and `TargetsEmpty` says that the row moved into holds nothing, so that no
  task is overwritten. The invariant adds that tasks carry dealt queries at
  nodes of the tree and that the rows are as many as the levels.
* **NoPrefetch, Vectorized, Vectorized_Linear, find_group** (`VectorsStayExact`,
  `VectorsRefinement`): `VectorInStep`, `SlotsFresh`, `FoundRight`,
  `FindGroupExact`, and the refinements. `slots[]` is used again at each level; its
  invariant says that it has been written at this level before it is
  followed. Vectorized_Linear stores keys where it should store data (finding 1),
  so what is proved of it is that `found` is right.
* **Halvings** (`HalvingsSearch`, `HalvingsSuffice` in `BTreeLookup_proofs`): a number of
  halvings fixed in advance ends at the lower bound when `2^steps` exceeds the
  number of slots. `Halvings` is a recursive function over the natural
  numbers; the proofs take the least number that would refute them.

* **Lookups of the learned indexes** (`LIPPLookup_proofs`, `LearnedLookup_proofs`):
  `PoolsExact` for SPP and AMAC, `GroupsExact` for NoPrefetch, GroupPrefetch and
  Vectorized, and the refinement, for any number of slots and any group. The
  invariant `MCIInv` has one part for each of six kinds of strategy. In LIPP a
  query stands on the one way its predictions lead (`OneWay`), so a stored
  item can only be at the end of it (`ItemAtTheEnd`), and an empty position there
  answers "missing" rightly. In RS and PGM the search has not lost the first key
  of its window that is not less (`Search`), and where the halvings are counted
  in advance, `hi - lo < 2^(halvings left)` (`Narrow`), so that the last one
  closes the window; `calc_steps` is shown to count enough of them for a window
  of `2 * error + 2`. Pools and pipelines share the bookkeeping of queries dealt,
  carried and settled (`OneEach`, `Landed`), whatever the order in which the slots
  are visited.

* **bulk_load and verify** (`BulkLoad_proofs`): all five properties of the run
  `bulk_load`, for ranges of any length and nodes of any capacity:
  `LoadConsistent`, `LevelsNarrow`, and of the finished tree `LoadedSearchable`,
  `LoadedIsTheRange` and `LoadedVerifies`. Nodes are numbered in the order of
  their allocation, level by level. The invariant `LoadInv(e, f)` says that there
  are two sequences of numbers that determine every node: `e[v]` is the last item
  of the range below node v, and an inner node v has the children `f[v]` to
  `f[v + 1] - 1`. `Built` gives each node's keys and children in terms of `e`
  and `f`; `LeavesLoop`, `ParentsLoop` and `InnerLoop` say where the counters, the
  leaf pointer and the two levels in `nextlevel` stand. `Shared`, that what is left
  is at least the minimum and at most the capacity times the nodes left, is why no
  node is overfull, and none but the root underfull; it rests on facts about the
  rounding of the shares (`Share`, `RoundedUp`), which need products of variables and so
  have proofs of their own. The finished tree has a `Shape` from which `verify` and
  `WellFormed` follow. Their recursive functions (separators, smallest and largest
  keys, the nodes below, the list of leaves) are given in closed form in `e` and
  `f`; that the recursion computes it is shown by the least or greatest node
  where it would not, since children are allocated before their parents.
  With `LoadedTreesSearchable` the assumption of the lookup theorems on their
  trees is itself a theorem for every tree bulk_load builds.

How the theorems are stated. A proof module extends the MC module of a run, so
that its theorems name the very properties the run checks. Where the MC module
composes strategies as instances (`Linear!`, `Vectors!`, `Find!`, `Baseline!`), the
theorem of `MCSpec` is put together from one invariant per strategy. Only
constants and variables are renamed by these instances; short lemmas (`*Same*`)
say that an operator of the tree means the same there as in `BPlusTree`, and then
the lemmas of `BTreeLookup_proofs` serve every strategy.
`MCInit` of the group prefetch run takes the batches from sample sets; the theorems
`NoPrefetchRefinement`, `VectorizedRefinement`, `VectorizedLinearExact` and
`FindGroupStaysExact` are therefore stated of the strategies' own specifications,
for all batches, as well.

Assumptions: the named `ASSUME`s (keys are integers, sizes positive, trees
`WellFormed`, and for GroupPrefetch nodes within the capacities). `WellFormed`
is checked on the sample trees by TLC and proved of loaded trees
(`LoadedTreesSearchable`). The proofs about `bulk_load` found two assumptions the
model had not named: `NullAssumption`, that NULL is the address of no node, and
`FanOutAssumption`, that an inner node has room for two keys. With one key (two
children) an odd level would leave a parent with a single child and no key. The
code does not test for that; its traits never have fewer than 8 slots
(`btree.h:108-142`). The
theorems on find_group (and those of `MCSpec` that contain it) have one more
hypothesis, `innerslotmax < pow2[LEAF_STEPS]`: `btree.h:2035` halves 8 times in
inner nodes too, which is enough for 255 keys. The benchmark's nodes have 32
(`main.cpp:251`). Nodes of the default traits, for which the build sets 512 and
1024 slots (`CMakeLists.txt:4`), would be too large; nothing calls find_group on
them.
The theorems on learned lookups assume `SoundTree` and `SoundIndex`: sorted keys,
windows of at most `2 * error + 2` positions that lie in the index unless they
are empty, and a stored key in its window or right behind it. SPP of RS and
PGM marks an empty place by a window with `lo` past `hi`, so for it
no predicted window may look like that (`StagesAssumption`). TLC evaluates these
assumptions on the indexes of `learned_lookup`, which `RadixSpline`, `PGMIndex` and
`LIPPIndex` construct. That every constructed index meets them is checked, not
proved.
`BTreeLookup_proofs` has the lemmas all strategies use: a
well-formed descent keeps the key between the separators and reaches a leaf one
level at a time; an answer given at such a leaf is right (`LeavesAnswer`).

Only model-checked: all liveness (termination, starvation), which is beyond the
prover, as is `ENABLED`; and, without a proof so far, all properties of
`BTreeUpdate` and of the learned indexes (`MCLearnedIndex`). Induction over natural
numbers goes through a least counterexample, as for the halvings and for the
trees that bulk_load numbers. The recursions over trees and sequences (rebuilds
and segments of LIPP, erase descents, segmentations of PGM, `SelectSeq` in the order
RSWrapper keeps) would need induction over data, which the library states only
with an operator for a parameter and the installed provers cannot instantiate.
`SplineWindows` needs none, but the prefixes of `RadixSpline` are quotients by powers
of two, and the provers know nothing of `^`, not even that these are positive.

## 5. Findings

1. `Vectorized_Linear.hpp:76` stores `leaf->slotkey[slot]` in `results` where
   all other strategies store `leaf->slotdata[slot]`; the comment at line 67 says
   only the search was replaced. Unnoticed because the driver loads values equal
   to keys and does not check results.
2. `btree.h:3212` and `:3514` take `left->childid[left->slotuse - 1]` as the left
   neighbour of a first child; a node with `slotuse` keys has `slotuse + 1`
   children, so this is the last but one. The comment at 3069 says the
   siblings are passed down. The run `btree_update` shows that trees stay
   correct: such a neighbour has another parent, is only asked `isfew()`, and so
   can only change the choice between a merge and a shift. With `slotuse` in its
   place `SiblingsPassedDown` holds.
3. `btree.h:4376` stores the child read by `restore_node` without testing it, so
   `restore` returns true for an image that ends after the root, although the
   comment at 4262 says "true if the restore was successful". Children are then
   null, and when the image ends after a leaf, that leaf keeps a link into the
   process that dumped the tree (`Restored`).
4. `rs_index.hpp:106` draws one line from the spline point of the key's bucket to
   that of the next bucket; points of several segments may lie between. The
   comment at line 33 guarantees that the range holds the key. With an error of 1
   and two radix bits, of the six-bit keys 1, 5, 9, 24 the key 9, at position 2,
   gets the range [0, 2). No lookup strategy uses the class, which is why no
   benchmark can notice; the spline that is used, `radix_spline.hpp`, looks the
   segment up among all points and keeps its promise (`SplineWindows`).

Three more disagreements are no finding of a run. The comment at `btree.h:2034`
says 8 halvings cover 256 slots; they cover 255. A `reverse_iterator` made from
an iterator at the first slot of a later leaf fails the assertion of its own
`operator*` (`btree.h:919`); `rbegin` and the steps never make one, except `rend`,
which may not be dereferenced. And the comment at
`btree.h:4184` says that the signature of a dump stops `restore` from loading
garbage; `dump_header::same` (4226) looks at its own signature only, and `restore`
calls it on the header it has just filled, so the signature of the file is not
compared. No module models the header.

## 6. Plan

Done in this order: abstract lookup and tree; AMAC, SPP, GroupPrefetch with
their proofs; the remaining B+ tree strategies; node searches; bulk load;
insert, erase, queries and copy of the B+ tree; LIPP and its lookups; the radix
splines and RS lookups; PGM and its lookups; the batch lookups and the reverse
iterators of `btree.h`.

Then proofs: the remaining pools and pipelines of the B+ tree along the
invariants of AMAC and SPP; NoPrefetch, Vectorized, Vectorized_Linear and
find_group; SPP's order of answers; the fifteen lookups of the learned indexes; bulk
load and verify.

Next, most important first:

1. `RadixSpline`: that the window around an interpolation between points at most
   an error apart holds the key, once the powers of two in its prefixes are a
   recursive function of the model. With it the assumption
   on windows becomes a theorem for RS.
2. `BTreeUpdate`: a merge or a shift keeps the nodes within their bounds.

## 7. Not modelled

* Timing, printing, plotting, loading of files, `perf` counters: I/O around the
  lookups. `run_benchmark`'s trimmed mean is two expressions over 15 samples.
* The statistics and the layer profiler, which repeat the lookup paths with
  counters in between.
* The byte layout of a dump and its header; comparison operators of trees; `swap`,
  which exchanges the members of two trees and makes no tree of its own; the
  const iterators, which repeat the others; the container wrappers, which forward.
* The rounding of slopes and intercepts themselves, beyond a prediction that
  falls short of an integer: fractions are exact in the models. Real keys that a
  `double` does not hold exactly are outside of them too.
* The chunks that several threads segment in `make_segmentation_par`
  (`piecewise_linear_model.hpp:337-363`). No build file enables OpenMP, without which
  the number of threads is the constant 1 and line 334 returns first; `PGMIndex` is
  that build. Reading the code for a build that does, with 2^15 keys or more: a chunk
  that ends in a run of equal keys leaves out the point after the run, so that
  absent keys may not be ranked as `pgm_index.hpp:47` says; keys out of order exactly
  where a chunk begins are not noticed; and the exception for keys out of order
  inside a chunk cannot leave the parallel region and ends the program.
* `BUILD_LR_REMAIN`, extra room at both ends of a new LIPP node
  (`lipp.h:513`, `lipp.h:663`): 0 unless a caller sets it, and none does.
* `index_size`, `show` and the print functions of LIPP, which only read.
* PGM lookups before the first load and of the sentinel, which the code does not
  guard against; the driver does neither.
