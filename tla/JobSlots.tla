------------------------------ MODULE JobSlots ------------------------------
(***************************************************************************)
(* The slots of the managed job executor: `Slots` of jobs/execution.rs      *)
(* behind the one mutex of jobs/scheduler.rs.  Every action is one critical *)
(* section of that mutex.  How a run spends its time between taking its     *)
(* slot and releasing it is JobExecutor's subject.                          *)
(*                                                                          *)
(* `active` is a Vec whose order nothing reads: it is kept as the number of *)
(* entries each id has, so that an id entered twice would show.  `pending`  *)
(* is a list with one entry per id, in the order of the first request: it   *)
(* is kept as each id's place in it, 0 for an id that is not queued.        *)
(***************************************************************************)
EXTENDS Naturals, FiniteSets

CONSTANTS Heavy,   \* ids of the heavy jobs: one slot
          Light    \* ids of the light jobs: two slots

Jobs == Heavy \cup Light

Weights == {"heavy", "light"}
WeightOf(j) == IF j \in Heavy THEN "heavy" ELSE "light"
Ids(w) == IF w = "heavy" THEN Heavy ELSE Light

\* `self.heavy < 1`, `self.light < 2`.
Limit(w) == IF w = "heavy" THEN 1 ELSE 2

\* The job table is a constant with one weight per id.
ASSUME SlotsAssumption == /\ Heavy \cap Light = {}
                          /\ IsFiniteSet(Heavy)
                          /\ IsFiniteSet(Light)

VARIABLES active,   \* entries of each id in `active`
          used,     \* the counters `heavy` and `light`
          place,    \* place of each id in `pending`, 0 when absent
          stopped   \* `stopJobs()` ran

slotVars == <<active, used, place, stopped>>

-----------------------------------------------------------------------------
\* State formulae

ActiveIds == {j \in Jobs : active[j] > 0}
Queued == {j \in Jobs : place[j] > 0}

SlotsInit == /\ active = [j \in Jobs |-> 0]
             /\ used = [w \in Weights |-> 0]
             /\ place = [j \in Jobs |-> 0]
             /\ stopped = FALSE

\* Mutant: only the counter is looked at, not the ids.
CanAdmitTwice(act, use, j) == use[WeightOf(j)] < Limit(WeightOf(j))

\* `can_admit` against given active entries and counters.
CanAdmit(act, use, j) == /\ act[j] = 0
                         /\ use[WeightOf(j)] < Limit(WeightOf(j))

-----------------------------------------------------------------------------
\* `execute_managed`: one of these two, or nothing at all once stopped.

\* Mutant: the admission forgets to look at `stopped`.
AdmitUnchecked(j) == /\ CanAdmit(active, used, j)
                     /\ active' = [active EXCEPT ![j] = @ + 1]
                     /\ used' = [used EXCEPT ![WeightOf(j)] = @ + 1]
                     /\ UNCHANGED <<place, stopped>>

Admit(j) == /\ ~stopped
            /\ CanAdmit(active, used, j)
            /\ active' = [active EXCEPT ![j] = @ + 1]
            /\ used' = [used EXCEPT ![WeightOf(j)] = @ + 1]
            /\ UNCHANGED <<place, stopped>>

\* A second request for a queued id keeps its place.
Defer(j) == /\ ~stopped
            /\ ~CanAdmit(active, used, j)
            /\ place' = IF j \in Queued THEN place
                        ELSE [place EXCEPT ![j] = Cardinality(Queued) + 1]
            /\ UNCHANGED <<active, used, stopped>>

-----------------------------------------------------------------------------
\* `release`: free the slot, then walk the queue in order and admit what
\* fits.  Of a weight with c free slots the walk admits the first c ids that
\* hold no slot themselves, which is what Drained says without the walk.

\* Mutant: the walk starts at the back of the queue.
Behind(act, j) == {k \in Queued : /\ place[k] > place[j]
                                  /\ act[k] = 0
                                  /\ WeightOf(k) = WeightOf(j)}

Ahead(act, j) == {k \in Queued : /\ place[k] < place[j]
                                 /\ act[k] = 0
                                 /\ WeightOf(k) = WeightOf(j)}

Drained(act, use) ==
    {j \in Queued : /\ act[j] = 0
                    /\ use[WeightOf(j)] + Cardinality(Ahead(act, j))
                         < Limit(WeightOf(j))}

\* Mutant: the others keep their places.
WithoutClosingUp(S) == [j \in Jobs |-> IF j \in S THEN 0 ELSE place[j]]

\* The queue without the ids of S, the others closing up.
Without(S) ==
    [j \in Jobs |-> IF j \in S \/ place[j] = 0 THEN 0
                    ELSE place[j] - Cardinality({k \in S : place[k] < place[j]})]

Freed(j) == [active EXCEPT ![j] = @ - 1]
\* saturating_sub
Spared(j) == [used EXCEPT ![WeightOf(j)] = IF @ > 0 THEN @ - 1 ELSE 0]

\* Mutant: a release frees its slot and leaves the queue alone.
StartedNone(j) == {}

\* The ids that the release of j starts.
Started(j) == Drained(Freed(j), Spared(j))

Release(j) ==
    LET S == Started(j)
        freed == Freed(j)
        spared == Spared(j)
    IN
    /\ active[j] > 0
    /\ active' = [k \in Jobs |-> freed[k] + IF k \in S THEN 1 ELSE 0]
    /\ used' = [w \in Weights |-> spared[w] + Cardinality(S \cap Ids(w))]
    /\ place' = Without(S)
    /\ UNCHANGED stopped

-----------------------------------------------------------------------------
\* `Inner::stop`: no more admissions, the queue dropped; the runs carry on.
\* Mutant: the queue survives the stop.
StopKeepingQueue == /\ stopped' = TRUE
                    /\ UNCHANGED <<active, used, place>>

Stop == /\ stopped' = TRUE
        /\ place' = [j \in Jobs |-> 0]
        /\ UNCHANGED <<active, used>>

SlotsNext == \/ \E j \in Jobs : Admit(j) \/ Defer(j) \/ Release(j)
             \/ Stop

SlotsSpec == SlotsInit /\ [][SlotsNext]_slotVars

\* Before the stop every run ends: a job is a finite sequence of calls that
\* each return, fail or time out, and `run_admitted` releases the slot on every
\* path.  Nothing is assumed of the runs that the stop finds: the one that a
\* catch-up of the desktop app awaits is dropped with it and releases nothing.
SlotsFairness == \A j \in Jobs : WF_slotVars(~stopped /\ Release(j))

FairSlotsSpec == SlotsSpec /\ SlotsFairness

-----------------------------------------------------------------------------
\* Properties

\* Types of the slots; `pending` is a list: its n ids hold the places 1..n,
\* whatever the drain took out of its middle.
SlotsTypeOK == /\ active \in [Jobs -> Nat]
               /\ used \in [Weights -> Nat]
               /\ place \in [Jobs -> Nat]
               /\ stopped \in BOOLEAN
               /\ {place[j] : j \in Queued} = 1..Cardinality(Queued)

\* The counters and the list of active ids tell the same story, within the
\* limits, and no id runs twice at once: the two are updated separately by
\* take and release, and a counter left one too high loses a slot for good.
SlotsAccounted ==
    /\ \A j \in Jobs : active[j] <= 1
    /\ \A w \in Weights : /\ used[w] = Cardinality(ActiveIds \cap Ids(w))
                          /\ used[w] <= Limit(w)

\* Nothing waits that could run: the queue is only drained by a release, so a
\* queued id that fits would sit there until some unrelated run ends.
WorkConserving == \A j \in Queued : ~CanAdmit(active, used, j)

\* First come, first served within a weight: when a queued id starts, every id
\* queued before it that stays queued is one that is still running itself.
QueueOrder ==
    [][\A j, k \in Queued :
         /\ WeightOf(j) = WeightOf(k)
         /\ place[k] < place[j]
         /\ active'[j] > active[j]
         /\ k \in Queued'
         => active'[k] > 0]_slotVars

\* Once stopped the slots only drain: no request takes one, and no release
\* gives one to an id that was queued before the stop.
StoppedOnlyDrains == [][stopped => /\ stopped'
                                   /\ ActiveIds' \subseteq ActiveIds]_slotVars

\* A queued request is not forgotten: its run starts, or the executor stops
\* and drops it.
QueuedStarts == \A j \in Jobs : (j \in Queued) ~> (j \notin Queued)

Pool == INSTANCE JobPool WITH running <- ActiveIds, waiting <- Queued,
                              open <- ~stopped

\* The slots keep the executor's promise.
ImplementsPool == Pool!Spec
=============================================================================
