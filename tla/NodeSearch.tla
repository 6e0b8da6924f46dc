------------------------------ MODULE NodeSearch ------------------------------
(***************************************************************************)
(* The loops that search one node for the first slot whose key is not less *)
(* than the one sought, as the strategies run them:                        *)
(*   binary  find_lower of NoPrefetch, SPP, AMAC, Vectorized and btree.h   *)
(*   linear  linear_lower_bound of the _Linear strategies                  *)
(*   simd    simd_lower_bound_u64 of Vectorized: whole chunks of slots     *)
(*           compared at once, as signed words, then a scalar tail         *)
(*   fixed   btree::find_group: a number of halvings fixed beforehand      *)
(* The strategies' modules use find_lower of BPlusTree for all of them.    *)
(***************************************************************************)
EXTENDS BPlusTree

CONSTANTS Nodes,        (* the nodes searched                                *)
          HALF,         (* half the range of a key: 2^63 for uint64_t        *)
          CHUNK,        (* lanes of a vector register: 8 (AVX-512), 4 (AVX2) *)
          FIXED_STEPS,  (* the halvings of find_group: 8                     *)
          pow2,         (* the powers of two, up to that of FIXED_STEPS      *)
          MaxSlots      (* of the samples                                    *)

ASSUME WordAssumption  == HALF \in Nat \ {0} /\ Key \subseteq 0 .. 2 * HALF - 1
ASSUME ChunkAssumption == CHUNK \in Nat \ {0}
ASSUME StepsAssumption ==
  /\ FIXED_STEPS \in Nat
  /\ pow2 \in [0 .. FIXED_STEPS -> Nat]
  /\ pow2[0] = 1
  /\ \A e \in 1 .. FIXED_STEPS : pow2[e] = 2 * pow2[e - 1]
ASSUME NodesAssumption ==
  \A node \in Nodes : /\ node.slotuse \in Nat
                      /\ node.slotkey \in [Slots(node) -> Key]
                      /\ Sorted(node)

Methods == {"binary", "linear", "simd", "fixed"}
NoResult == -1

VARIABLES method, nd, key,   (* which search, of which node, for which key *)
          range,             (* lo and hi of the halving searches          *)
          step,              (* halvings done (fixed)                      *)
          pos,               (* the slot the scanning searches have got to *)
          ret                (* what the search returned, or NoResult      *)

vars == <<method, nd, key, range, step, pos, ret>>

Init ==
  /\ method \in Methods
  /\ nd \in Nodes
  /\ key \in Key
  /\ range = WholeRange(nd)
  /\ step = 0
  /\ pos = 0
  /\ ret = NoResult

call         == <<method, nd, key>>
Under(m)    == method = m /\ ret = NoResult   \* a search by m is under way
Return(slot) == ret' = slot /\ UNCHANGED <<call, range, step, pos>>

-----------------------------------------------------------------------------
(* Halving.                                                                *)

(* if (n->slotuse == 0) return 0; *)
EmptyNode ==
  /\ method \in {"binary", "simd"}
  /\ ret = NoResult
  /\ nd.slotuse = 0
  /\ Return(0)

HalveOnce ==
  /\ Under("binary")
  /\ range.lo < range.hi
  /\ range' = Halve(nd, key, range)
  /\ UNCHANGED <<call, step, pos, ret>>

HalveEnd ==
  /\ Under("binary")
  /\ nd.slotuse # 0
  /\ ~(range.lo < range.hi)
  /\ Return(range.lo)

(* for (step = 0; step < 8; ++step), each halving if there is what to halve. *)
FixedStep ==
  /\ Under("fixed")
  /\ step < FIXED_STEPS
  /\ range' = Halve(nd, key, range)
  /\ step' = step + 1
  /\ UNCHANGED <<call, pos, ret>>

FixedEnd ==
  /\ Under("fixed")
  /\ ~(step < FIXED_STEPS)
  /\ Return(range.lo)

-----------------------------------------------------------------------------
(* Scanning.                                                               *)

(* An unsigned word with its top bit flipped, and read as a signed word.   *)
FlipSign(x) == IF x >= HALF THEN x - HALF ELSE x + HALF
AsSigned(x) == IF x >= HALF THEN x - 2 * HALF ELSE x

ChunkFits_OneMore == pos + CHUNK <= nd.slotuse + 1   \* mutant
ChunkFits == pos + CHUNK <= nd.slotuse
Lanes     == 0 .. CHUNK - 1

(* The lanes for which key > slotkey[pos + lane], found by a signed comparison. *)
Greater_Unsigned ==   \* mutant: the sign bits are not flipped
  {lane \in Lanes : AsSigned(key) > AsSigned(nd.slotkey[pos + lane])}
Greater ==
  {lane \in Lanes : AsSigned(FlipSign(key)) > AsSigned(FlipSign(nd.slotkey[pos + lane]))}

(* __builtin_ctz of the mask of the lanes that are not greater. *)
FirstCandidate == CHOOSE lane \in Lanes \ Greater : \A other \in Lanes \ Greater : lane <= other

ChunkStep ==
  /\ Under("simd")
  /\ nd.slotuse # 0
  /\ ChunkFits
  /\ IF Lanes \ Greater # {}
     THEN Return(pos + FirstCandidate)
     ELSE pos' = pos + CHUNK /\ UNCHANGED <<call, range, step, ret>>

(* The scan of single slots: all of linear, and the tail of simd. *)
Scanning == Under("linear") \/ (Under("simd") /\ nd.slotuse # 0 /\ ~ChunkFits)

ScanStep ==
  /\ Scanning
  /\ pos < nd.slotuse
  /\ IF key <= nd.slotkey[pos] THEN Return(pos)
     ELSE pos' = pos + 1 /\ UNCHANGED <<call, range, step, ret>>

ScanEnd ==
  /\ Scanning
  /\ ~(pos < nd.slotuse)
  /\ Return(nd.slotuse)

Returned == ret # NoResult /\ UNCHANGED vars

Next == \/ EmptyNode \/ HalveOnce \/ HalveEnd \/ FixedStep \/ FixedEnd
        \/ ChunkStep \/ ScanStep \/ ScanEnd
        \/ Returned

Spec == Init /\ [][Next]_vars

-----------------------------------------------------------------------------
(* Properties.                                                             *)

(* Types, and positions that never leave the node.                          *)
TypeOK ==
  /\ method \in Methods
  /\ nd \in Nodes
  /\ key \in Key
  /\ range \in [lo : 0 .. nd.slotuse, hi : 0 .. nd.slotuse]
  /\ step \in 0 .. FIXED_STEPS
  /\ pos \in 0 .. nd.slotuse
  /\ ret \in 0 .. nd.slotuse \cup {NoResult}

(* The slots the next step of the search reads. *)
Reads ==
  IF ret # NoResult THEN {}
  ELSE IF method \in {"binary", "fixed"}
  THEN IF range.lo < range.hi THEN {(range.lo + range.hi) \div 2} ELSE {}
  ELSE IF method = "simd" /\ nd.slotuse # 0 /\ ChunkFits THEN {pos + lane : lane \in Lanes}
  ELSE IF pos < nd.slotuse THEN {pos} ELSE {}

(* No search reads a slot beyond slotuse, where the key array holds         *)
(* garbage: not at the last halving, and not with a chunk that reaches      *)
(* over the end (Vectorized.hpp 69, 87; NoPrefetch.hpp 20-24).              *)
ReadsUsedSlots == Reads \subseteq Slots(nd)

(* Types, and the slots read.                                               *)
SearchSafe == TypeOK /\ ReadsUsedSlots

(* Scalar or vector, halving or scanning, all searches return the same      *)
(* slot, on any sorted node and for keys on both sides of the sign bit; the *)
(* fixed halvings do so on nodes of fewer than 2 ^ FIXED_STEPS slots        *)
(* (NoPrefetch.hpp 15-26, Vectorized.hpp 52-106, btree.h 2035-2051).        *)
ReturnsLowerBound ==
  ret # NoResult /\ (method = "fixed" => nd.slotuse < pow2[FIXED_STEPS]) => ret = find_lower(nd, key)

-----------------------------------------------------------------------------
(* Samples for TLC: every sorted node of up to MaxSlots two-bit keys, with   *)
(* repeated keys, and every key: nodes of no chunk, a chunk and a tail, and *)
(* two chunks and a tail.                                                  *)
MCPow2  == [e \in 0 .. FIXED_STEPS |-> 2 ^ e]
MCKey   == 0 .. 2 * HALF - 1
MCNodes == UNION {{[slotuse |-> m, slotkey |-> keys] :
                     keys \in {f \in [0 .. m - 1 -> MCKey] : \A s \in 1 .. m - 1 : f[s - 1] <= f[s]}}
                  : m \in 0 .. MaxSlots}
=============================================================================
