--------------------------- MODULE MCLearnedIndex ---------------------------
(***************************************************************************)
(* The learned indexes as they are built and updated.                      *)
(*   LIPP       seven keys, near each other and far apart, inserted in     *)
(*              every order, and ranges that are empty, short, long enough *)
(*              for both ways to fit a node, and not increasing; a rebuild *)
(*              is due at five items and twice the first size              *)
(*   Builder    given keys one by one, for every setting                   *)
(*   RSWrapper  built for unsorted keys with and without repetitions       *)
(*   PGM        loaded with every sequence of gaps, and loaded again       *)
(***************************************************************************)
EXTENDS LIPPIndex

VARIABLES subject, builder, rs, pgm

MCKey   == {0, 1, 2, 3, 250, 251, 500, 501}
MCItems == {<<key, key>> : key \in MCKey} \cup {<<2, 4>>}
MCValue == MCKey \cup {4}
Loads(keys) == [j \in 1 .. Len(keys) |-> <<keys[j], keys[j]>>]
MCRanges == {Loads(keys) : keys \in
              {<<>>, <<2>>, <<2, 250>>, <<2, 2>>, <<0, 3, 500>>, <<0, 1, 500, 501>>,
               <<0, 1, 250, 251, 500, 501>>, <<0, 1, 2, 3, 250, 251, 500>>,
               <<0, 250, 250>>, <<3, 2, 250>>}}
MCFalling == {{}, MCKey}

Setting(min_key, max_key, num_radix_bits, max_error) ==
  [min_key |-> min_key, max_key |-> max_key, num_radix_bits |-> num_radix_bits, max_error |-> max_error]
Settings  == {Setting(0, 15, 2, 1), Setting(0, 15, 0, 1), Setting(0, 15, 1, 2),
              Setting(2, 8, 4, 2), Setting(3, 14, 2, 0), Setting(8, 2, 1, 1)}
Given(s)  == <<[p \in 0 .. Len(s) - 1 |-> s[p + 1]], [p \in 0 .. Len(s) - 1 |-> 100 * s[p + 1] + p]>>
RSInputs  == {Given(s) : s \in UNION {[1 .. m -> {0, 3, 15}] : m \in 0 .. 4}}
             \cup {<<[p \in 0 .. 1 |-> 3 - p], [p \in 0 .. 0 |-> 1]>>}
RS == INSTANCE RadixSpline WITH Key <- {0, 1, 2, 3, 7, 8, 12, 15}, Inputs <- RSInputs,
                                NumRadixBits <- 2, MaxError <- 1, KeyBits <- 4, MaxKeys <- 6

(* Keys from the gaps between them; the keys that a second load appends     *)
(* continue them, precede them, or are the sentinel.                       *)
Keys(gaps) == [j \in 1 .. Len(gaps) |-> FoldLeft(+, 0, SubSeq(gaps, 1, j))]
Load(s)    == <<s, [j \in 1 .. Len(s) |-> j]>>
PGMInputs  == {Load(Keys(gaps)) : gaps \in [1 .. 5 -> {0, 1, 7}] \cup [1 .. 7 -> {0, 7}]}
              \cup {Load(s) : s \in {<<>>, <<50, 52>>, <<50, 0>>, <<50, 63>>}}
PGM == INSTANCE PGMIndex WITH Key <- 0 .. 55, Inputs <- PGMInputs, Epsilon <- 1, EpsilonRecursive <- 1,
                              KeyBits <- 6, MaxKeys <- 7

MCInit ==
  /\ Init /\ RS!Init /\ PGM!Init
  /\ subject \in {"LIPP", "Builder", "RSWrapper", "PGM"}
  /\ subject # "LIPP" => falls = {} /\ USE_FMCD

MCNext ==
  /\ \/ subject = "LIPP" /\ Next /\ UNCHANGED <<builder, rs, pgm>>
     \/ subject = "Builder" /\ RS!BuilderNext /\ UNCHANGED <<vars, pgm>>
     \/ subject = "RSWrapper" /\ RS!WrapperNext /\ UNCHANGED <<vars, pgm>>
     \/ subject = "PGM" /\ PGM!Next /\ UNCHANGED <<vars, builder, rs>>
  /\ UNCHANGED subject

MCSpec == MCInit /\ [][MCNext]_<<vars, subject, builder, rs, pgm>>

(* called is left out of the state: no guard reads it. *)
MCView == <<lipp, falls, USE_FMCD, pc, subject, builder, rs, pgm>>

-----------------------------------------------------------------------------
(* The windows that radix splines predict hold their keys: whatever keys a  *)
(* Builder was given, and of what RSWrapper built (radix_spline.hpp 55-77). *)
SplineWindows == subject \in {"Builder", "RSWrapper"} => RS!SplineWindows

(* RSWrapper keeps values with their keys (RSWrapper.hpp 48-78).            *)
RSItemsKept == RS!RSItemsKept

(* The windows that PGM predicts hold the first of the keys looked up, also *)
(* after a load that was rejected (pgm_index.hpp 192-199).                 *)
PGMWindows == subject = "PGM" => PGM!PGMWindows

(* They lead absent keys to the next greater one, after runs of equal keys  *)
(* too (pgm_index.hpp 47-48).                                              *)
AbsentKeysRanked == subject = "PGM" => PGM!AbsentKeysRanked
=============================================================================
