------------------------------ MODULE WindowAMAC ------------------------------
(***************************************************************************)
(* RS/algorithms/AMAC.hpp and PGM/algorithms/AMAC.hpp: a pool of state     *)
(* machines.  A visit sends a new machine to the top of the index, takes   *)
(* it down one level (RS has one, PGM as many as its index), makes a step  *)
(* of the binary search, or gives the answer once the steps are made.      *)
(***************************************************************************)
EXTENDS WindowLookup

CONSTANT POOL_SIZE

VARIABLES pc,
          pool,             (* [state, i, lo, hi, step, level]               *)
          next_query_idx,
          finished,         (* all_done                                      *)
          i                 (* the machine being visited, k in the code      *)

vars == <<index, queries, found, results, pc, pool, next_query_idx, finished, i>>

Slots    == 0 .. POOL_SIZE - 1
Idle     == [state |-> "DONE", i |-> 0, lo |-> 1, hi |-> 0, step |-> 0, level |-> 0]
Dealt(q) == [Idle EXCEPT !.state = "INIT", !.i = q]

Init ==
  /\ ArgsAndOutsInit
  /\ pc = "start"
  /\ pool = [j \in Slots |-> Idle]
  /\ next_query_idx = 0
  /\ finished = 0
  /\ i = 0

Start ==
  /\ pc = "start"
  /\ IF data_size = 0 \/ n = 0
     THEN pc' = "returned" /\ UNCHANGED <<pool, next_query_idx>>
     ELSE /\ pc' = "loop"
          /\ pool' = [j \in Slots |-> IF j < n THEN Dealt(j) ELSE Idle]
          /\ next_query_idx' = Min2(POOL_SIZE, n)
  /\ UNCHANGED <<args, outs, finished, i>>

LoopTest ==
  /\ pc = "loop"
  /\ pc' = IF finished < n THEN "visit" ELSE "returned"
  /\ i' = 0
  /\ UNCHANGED <<args, outs, pool, next_query_idx, finished>>

-----------------------------------------------------------------------------
Refill  == pool[i].state = "DONE" /\ next_query_idx < n
Machine == IF Refill THEN Dealt(next_query_idx) ELSE pool[i]

VisitCommon ==
  /\ pc = "visit"
  /\ next_query_idx' = IF Refill THEN next_query_idx + 1 ELSE next_query_idx
  /\ i' = i + 1
  /\ pc' = IF i + 1 = POOL_SIZE THEN "loop" ELSE "visit"
  /\ UNCHANGED args

VisitInit ==
  /\ VisitCommon
  /\ Machine.state = "INIT"
  /\ pool' = [pool EXCEPT ![i] = [Machine EXCEPT !.state = "SEARCH", !.level = index.levels - 1]]
  /\ UNCHANGED <<outs, finished>>

(* Above the bottom level only the next node is prefetched. *)
VisitInternal ==
  /\ VisitCommon
  /\ Machine.state = "SEARCH"
  /\ Machine.level > 0
  /\ pool' = [pool EXCEPT ![i].level = @ - 1]
  /\ UNCHANGED <<outs, finished>>

VisitBottom ==
  /\ VisitCommon
  /\ Machine.state = "SEARCH"
  /\ Machine.level = 0
  /\ pool' = [pool EXCEPT ![i] = [@ EXCEPT !.state = "BSEARCH", !.step = 0,
                                           !.lo = Window(Machine.i).lo, !.hi = Window(Machine.i).hi]]
  /\ UNCHANGED <<outs, finished>>

Of(m) == [lo |-> m.lo, hi |-> m.hi]
WithWindow(m, w) == [m EXCEPT !.lo = w.lo, !.hi = w.hi, !.step = @ + 1]
VisitHalves ==
  /\ VisitCommon
  /\ Machine.state = "BSEARCH"
  /\ Machine.step < BSEARCH_STEPS
  /\ pool' = [pool EXCEPT ![i] = WithWindow(Machine, Halved(Machine.i, Of(Machine)))]
  /\ UNCHANGED <<outs, finished>>

VisitEnds ==
  /\ VisitCommon
  /\ Machine.state = "BSEARCH"
  /\ Machine.step >= BSEARCH_STEPS
  /\ Collect([q \in {Machine.i} |-> Machine.lo])
  /\ pool' = [pool EXCEPT ![i].state = "DONE"]
  /\ finished' = finished + 1

VisitDone ==
  /\ VisitCommon
  /\ Machine.state = "DONE"
  /\ UNCHANGED <<outs, pool, finished>>

Returned == pc = "returned" /\ UNCHANGED vars

Next == \/ Start \/ LoopTest \/ VisitInit \/ VisitInternal \/ VisitBottom
        \/ VisitHalves \/ VisitEnds \/ VisitDone \/ Returned

Spec == Init /\ [][Next]_vars

-----------------------------------------------------------------------------
Busy     == {j \in Slots : pool[j].state # "DONE"}
InFlight == {pool[j].i : j \in Busy}
Settled  == (0 .. next_query_idx - 1) \ InFlight
Answered == IF pc = "returned" THEN QueryIdx ELSE Settled

(* Every query dealt is with one machine or counted and answered; a machine *)
(* that searches has not lost its goal, and is over when its steps are.    *)
PoolExact ==
  /\ \A a, b \in Busy : a # b => pool[a].i # pool[b].i
  /\ \A j \in Busy : pool[j].state = "BSEARCH" =>
       /\ OnTrack(pool[j].i, Of(pool[j]))
       /\ pool[j].step = BSEARCH_STEPS => ~Open(pool[j])
  /\ finished = Cardinality(Settled)
  /\ AnswersRight(Items, Answered)

Abstract == INSTANCE BatchLookup WITH stored <- Items, answered <- Answered
=============================================================================
