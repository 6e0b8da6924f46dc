----------------------------- MODULE WindowGroup -----------------------------
(***************************************************************************)
(* GroupPrefetch.hpp, Vectorized.hpp and NoPrefetch.hpp of RS and PGM: the *)
(* windows of a whole group are predicted, then halved together, a round   *)
(* at a time, then the answers are collected.  RS GroupPrefetch makes      *)
(* rounds until no window is open; RS Vectorized, PGM Vectorized and PGM   *)
(* GroupPrefetch make as many as the error may need, and do not look       *)
(* whether that was enough.  NoPrefetch is a group of one whose window is  *)
(* halved until it is closed; it does not return early.                    *)
(***************************************************************************)
EXTENDS WindowLookup

VARIABLES GROUP_SIZE,    (* 1 in NoPrefetch                                *)
          FixedSteps,    (* whether the rounds are counted                 *)
          EarlyReturn,   (* whether the call looks for an empty index;     *)
                         (* none of the three changes during a call        *)
          pc, batch_start,
          windows,       (* lo and hi, kept from group to group              *)
          step           (* the rounds made                                  *)

call == <<args, GROUP_SIZE, FixedSteps, EarlyReturn>>
vars == <<call, outs, pc, batch_start, windows, step>>

Lanes      == 0 .. GROUP_SIZE - 1
batch_size == Min2(GROUP_SIZE, n - batch_start)
Members    == 0 .. batch_size - 1
Query(j)   == batch_start + j
NoWindow   == [lo |-> 0, hi |-> 0]

Init ==
  /\ ArgsAndOutsInit
  /\ GROUP_SIZE \in Nat \ {0}
  /\ FixedSteps \in BOOLEAN /\ EarlyReturn \in BOOLEAN
  /\ pc = "for"
  /\ batch_start = 0
  /\ windows = [j \in Lanes |-> NoWindow]
  /\ step = 0

(* An empty batch returns before the loop, or is looped over.              *)
NextGroup ==
  /\ pc = "for"
  /\ IF (EarlyReturn => data_size > 0) /\ batch_start < n
     THEN /\ pc' = "rounds"
          /\ windows' = [j \in Lanes |-> IF j \in Members THEN Window(Query(j)) ELSE windows[j]]
     ELSE pc' = "returned" /\ UNCHANGED windows
  /\ step' = 0
  /\ UNCHANGED <<call, outs, batch_start>>

MoreRounds == IF FixedSteps THEN step < BSEARCH_STEPS ELSE \E j \in Members : Open(windows[j])

HalveRound ==
  /\ pc = "rounds"
  /\ MoreRounds
  /\ windows' = [j \in Lanes |-> IF j \in Members THEN Halved(Query(j), windows[j]) ELSE windows[j]]
  /\ step' = IF FixedSteps THEN step + 1 ELSE step
  /\ UNCHANGED <<call, outs, pc, batch_start>>

CollectGroup ==
  /\ pc = "rounds"
  /\ ~MoreRounds
  /\ Collect([q \in {Query(j) : j \in Members} |-> windows[q - batch_start].lo])
  /\ batch_start' = batch_start + GROUP_SIZE
  /\ pc' = "for"
  /\ UNCHANGED <<call, windows, step>>

Returned == pc = "returned" /\ UNCHANGED vars

Next == NextGroup \/ HalveRound \/ CollectGroup \/ Returned

Spec == Init /\ [][Next]_vars

-----------------------------------------------------------------------------
Answered == IF pc = "returned" THEN QueryIdx ELSE 0 .. Min2(n, batch_start) - 1

(* No window of a group loses its goal, all are closed when the rounds    *)
(* end, and exactly the groups collected are answered.                     *)
GroupExact ==
  /\ pc = "rounds" => \A j \in Members :
       /\ OnTrack(Query(j), windows[j])
       /\ ~MoreRounds => ~Open(windows[j])
  /\ AnswersRight(Items, Answered)

Abstract == INSTANCE BatchLookup WITH stored <- Items, answered <- Answered
=============================================================================
