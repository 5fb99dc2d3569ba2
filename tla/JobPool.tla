------------------------------ MODULE JobPool ------------------------------
(***************************************************************************)
(* What the managed job executor promises (head comment of                 *)
(* jobs/execution.rs): at most one heavy and two light jobs at a time, a    *)
(* job id never twice at once, a request that cannot start now waits once,  *)
(* and nothing waits that could run.  No counters, no queue order, no       *)
(* tasks: JobSlots is the structure that keeps this promise.                *)
(***************************************************************************)
EXTENDS Naturals, FiniteSets

CONSTANTS Heavy,   \* ids of the heavy jobs
          Light    \* ids of the light jobs

Jobs == Heavy \cup Light

Weights == {"heavy", "light"}
Ids(w) == IF w = "heavy" THEN Heavy ELSE Light
WeightOf(j) == IF j \in Heavy THEN "heavy" ELSE "light"
Limit(w) == IF w = "heavy" THEN 1 ELSE 2

VARIABLES running,  \* the ids whose run holds a slot
          waiting,  \* the ids asked for that wait for one
          open      \* FALSE once the executor is stopped

vars == <<running, waiting, open>>

\* A run of j may join the runs of R.
Room(R, j) == /\ j \notin R
              /\ Cardinality(R \cap Ids(WeightOf(j))) < Limit(WeightOf(j))

WithinLimits(R) == \A w \in Weights : Cardinality(R \cap Ids(w)) <= Limit(w)

Init == /\ running = {}
        /\ waiting = {}
        /\ open = TRUE

Start(j) == /\ open
            /\ Room(running, j)
            /\ running' = running \cup {j}
            /\ UNCHANGED <<waiting, open>>

Wait(j) == /\ open
           /\ ~Room(running, j)
           /\ waiting' = waiting \cup {j}
           /\ UNCHANGED <<running, open>>

\* A run ends and as many waiting ids start as the limits allow.
Finish(j) == /\ j \in running
             /\ \E S \in SUBSET waiting :
                  /\ running' = (running \ {j}) \cup S
                  /\ waiting' = waiting \ S
             /\ WithinLimits(running')
             /\ \A k \in waiting' : ~Room(running', k)
             /\ UNCHANGED open

Close == /\ open' = FALSE
         /\ waiting' = {}
         /\ UNCHANGED running

Next == \/ \E j \in Jobs : Start(j) \/ Wait(j) \/ Finish(j)
        \/ Close

Spec == Init /\ [][Next]_vars
=============================================================================
