------------------------- MODULE JobExecutorProofs -------------------------
(***************************************************************************)
(* Proofs about the runs of the managed job executor, for every set of      *)
(* jobs.  That the runs' steps are the slots' steps comes first: with it    *)
(* everything JobSlotsProofs shows of the slots holds of the executor.      *)
(***************************************************************************)
EXTENDS JobExecutor, JobSlotsProofs

\* A run past its registration has a Run in the map.
RegisteredIsListed ==
    \A j \in Jobs : phase[j] \in Undecided \cup Recording => runs[j] # NoRun

\* The inductive invariant.  ExecStop raises the flags of the ids that hold a
\* slot and have a Run: RunsHoldSlots and RegisteredIsListed say that these are
\* all the runs StopReachesRuns speaks of.
ExecInv == /\ ExecTypeOK
           /\ RunsHoldSlots
           /\ RegisteredIsListed
           /\ StopReachesRuns
           /\ CountIsFresh

-----------------------------------------------------------------------------
(* The slots inside the executor *)

LEMMA ExecInitIsSlotsInit == ExecInit => SlotsInit
BY DEF ExecInit

\* A step of the executor takes the slots one step or leaves them alone.
LEMMA ExecStepIsSlotsStep == [ExecNext]_execVars => [SlotsNext]_slotVars
<1> SUFFICES ASSUME [ExecNext]_execVars PROVE [SlotsNext]_slotVars
  OBVIOUS
<1>1. ASSUME NEW j \in Jobs, ExecAdmit(j) PROVE SlotsNext
  BY <1>1 DEF ExecAdmit, SlotsNext
<1>2. ASSUME NEW j \in Jobs, ExecDefer(j) PROVE SlotsNext
  BY <1>2 DEF ExecDefer, SlotsNext
<1>3. ASSUME NEW j \in Jobs, RunStep(j) PROVE [SlotsNext]_slotVars
  <2>1. CASE ExecRelease(j)
    BY <2>1 DEF ExecRelease, SlotsNext
  <2>2. CASE ~ExecRelease(j)
    BY <1>3, <2>2 DEF RunStep, SettingsFail, Register, RecordStart,
         RecordStartFails, WorkReturns, WorkFails, RecordCancelled,
         RecordSuccess, RecordSuccessFails, FailedCancelled, FailedFailure
  <2>3. QED BY <2>1, <2>2
<1>4. ASSUME NEW j \in Jobs, CancelManaged(j) \/ CancelJob(j) \/ DropRun(j)
      PROVE  UNCHANGED slotVars
  BY <1>4 DEF CancelManaged, CancelJob, DropRun
<1>5. CASE ExecStop
  BY <1>5 DEF ExecStop, SlotsNext
<1>6. CASE UNCHANGED execVars
  BY <1>6 DEF execVars, slotVars
<1>7. QED BY <1>1, <1>2, <1>3, <1>4, <1>5, <1>6 DEF ExecNext

\* The executor's runs use the slots only in the ways JobSlots describes.
THEOREM ExecRefinesSlots == ExecSpec => SlotsSpec
BY ExecInitIsSlotsInit, ExecStepIsSlotsStep, PTL DEF ExecSpec, SlotsSpec

\* The slots' invariant holds whatever the runs do: no counter is lost.
THEOREM ExecKeepsSlots == ExecSpec => []SlotsInv
BY ExecRefinesSlots, SlotsInvariance, PTL

\* What JobPool promises is kept by the runs themselves, error paths, late
\* registrations and cancellations included.
THEOREM ExecImplementsPool == ExecSpec => ImplementsPool
BY ExecRefinesSlots, SlotsImplementPool, PTL

\* The runs take their slots in the order of the queue, and none after the stop.
THEOREM ExecKeepsOrder == ExecSpec => QueueOrder /\ StoppedOnlyDrains
BY ExecRefinesSlots, SlotsKeepOrder, StoppedSlotsOnlyDrain, PTL

-----------------------------------------------------------------------------
(* The steps of a run *)

LEMMA FlagsType ==
    ASSUME NEW b \in BOOLEAN
    PROVE  /\ Flags(b) \in [aborted : BOOLEAN, cancelled : BOOLEAN]
           /\ Flags(b) # NoRun
BY ExecAssumption DEF Flags

\* The registration: the flags it writes are those of a run that knows of a
\* stop exactly when there was one.
LEMMA RegisterInv ==
    ASSUME ExecInv, SlotsInv, NEW j \in Jobs, Register(j)
    PROVE  ExecInv'
<1>1. Flags(stopped) \in [aborted : BOOLEAN, cancelled : BOOLEAN]
      /\ Flags(stopped) # NoRun
  BY FlagsType DEF SlotsInv, SlotsTypeOK
<1>2. /\ runs' = [runs EXCEPT ![j] = Flags(stopped)]
      /\ phase[j] = "admitted"
      /\ phase' = [phase EXCEPT ![j] = "recordStart"]
      /\ UNCHANGED <<slotVars, count, row>>
  BY DEF Register, Moves
<1>3. ExecTypeOK'
  BY <1>1, <1>2 DEF ExecInv, ExecTypeOK, Phases, Undecided
<1>4. RunsHoldSlots'
  BY <1>2 DEF ExecInv, ExecTypeOK, RunsHoldSlots, Dropped, slotVars
<1>5. RegisteredIsListed'
  BY <1>1, <1>2 DEF ExecInv, ExecTypeOK, RegisteredIsListed
<1>6. StopReachesRuns'
  <2> SUFFICES ASSUME stopped', NEW k \in Jobs, phase'[k] \in Undecided
               PROVE  runs'[k] = Flags(TRUE)
    BY DEF StopReachesRuns
  <2>1. stopped = TRUE
    BY <1>2 DEF slotVars, SlotsInv, SlotsTypeOK
  <2>2. CASE k = j
    BY <1>2, <2>1, <2>2 DEF ExecInv, ExecTypeOK
  <2>3. CASE k # j
    BY <1>2, <2>1, <2>3 DEF ExecInv, ExecTypeOK, StopReachesRuns
  <2>4. QED BY <2>2, <2>3
<1>7. CountIsFresh'
  BY <1>2 DEF ExecInv, ExecTypeOK, CountIsFresh
<1>8. QED BY <1>3, <1>4, <1>5, <1>6, <1>7 DEF ExecInv

\* Every other step of a run before its release.
LEMMA StretchInv ==
    ASSUME ExecInv, NEW j \in Jobs,
           RunStep(j), ~Register(j), ~ExecRelease(j)
    PROVE  ExecInv'
<1> USE ExecAssumption
    DEF ExecInv, ExecTypeOK, RunsHoldSlots, Dropped, RegisteredIsListed,
        StopReachesRuns, CountIsFresh, Moves, Phases, Undecided, Recording, Flags,
        slotVars
<1>1. CASE SettingsFail(j)
  BY <1>1 DEF SettingsFail
<1>2. CASE RecordStart(j)
  BY <1>2 DEF RecordStart, CountOf
<1>3. CASE RecordStartFails(j)
  BY <1>3 DEF RecordStartFails, CountOf
<1>4. CASE WorkReturns(j)
  BY <1>4 DEF WorkReturns, Aborted
<1>5. CASE WorkFails(j)
  BY <1>5 DEF WorkFails, Aborted
<1>6. CASE RecordCancelled(j)
  BY <1>6 DEF RecordCancelled, Aborted
<1>7. CASE RecordSuccess(j)
  BY <1>7 DEF RecordSuccess
<1>8. CASE RecordSuccessFails(j)
  BY <1>8 DEF RecordSuccessFails, Aborted
<1>9. CASE FailedCancelled(j)
  BY <1>9 DEF FailedCancelled
<1>10. CASE FailedFailure(j)
  BY <1>10 DEF FailedFailure
<1>11. QED
  BY <1>1, <1>2, <1>3, <1>4, <1>5, <1>6, <1>7, <1>8, <1>9, <1>10 DEF RunStep

-----------------------------------------------------------------------------
(* The steps that move slots *)

LEMMA ExecAdmitInv ==
    ASSUME ExecInv, SlotsInv, NEW j \in Jobs, ExecAdmit(j)
    PROVE  ExecInv'
<1>1. /\ active' = [active EXCEPT ![j] = @ + 1]
      /\ phase[j] = "idle"
      /\ phase' = [phase EXCEPT ![j] = "admitted"]
      /\ UNCHANGED <<stopped, runs, count, row>>
  BY DEF ExecAdmit, Admit, Moves
<1>2. active \in [Jobs -> Nat]
  BY DEF SlotsInv, SlotsTypeOK
<1>3. ExecTypeOK'
  BY <1>1 DEF ExecInv, ExecTypeOK, Phases
<1>4. RunsHoldSlots'
  BY <1>1, <1>2 DEF ExecInv, ExecTypeOK, RunsHoldSlots, Dropped
<1>5. RegisteredIsListed' /\ StopReachesRuns' /\ CountIsFresh'
  BY <1>1 DEF ExecInv, ExecTypeOK, RegisteredIsListed, StopReachesRuns,
              CountIsFresh, Undecided, Recording
<1>6. QED BY <1>3, <1>4, <1>5 DEF ExecInv

LEMMA ExecDeferInv ==
    ASSUME ExecInv, NEW j \in Jobs, ExecDefer(j) PROVE ExecInv'
BY DEF ExecDefer, Defer, ExecInv, ExecTypeOK, RunsHoldSlots, Dropped,
       RegisteredIsListed, StopReachesRuns, CountIsFresh

\* The drain: the ids that get a slot are the ids that get a task.
LEMMA ExecReleaseInv ==
    ASSUME ExecInv, SlotsInv, NEW j \in Jobs, ExecRelease(j)
    PROVE  ExecInv'
<1>1. /\ Release(j)
      /\ phase[j] = "ending"
      /\ phase' = [k \in Jobs |-> IF k \in Started(j) THEN "admitted"
                                  ELSE IF k = j THEN "idle" ELSE phase[k]]
      /\ UNCHANGED <<stopped, runs, count, row>>
  BY DEF ExecRelease, Release
<1>2. ExecTypeOK'
  BY <1>1 DEF ExecInv, ExecTypeOK, Phases
<1>3. RunsHoldSlots'
  <2> SUFFICES ASSUME NEW k \in Jobs
               PROVE  /\ active'[k] = 0 <=> phase'[k] = "idle"
                      /\ k \in Dropped' => k \in Dropped
    BY DEF ExecInv, RunsHoldSlots, Dropped
  <2>1. /\ active[k] \in Nat
        /\ active'[k] \in Nat
        /\ active'[k] > 0 <=> (k # j /\ active[k] > 0) \/ k \in Started(j)
    BY <1>1, ReleaseSets DEF SlotsInv, SlotsTypeOK, ActiveIds
  <2>2. phase'[k] = IF k \in Started(j) THEN "admitted"
                    ELSE IF k = j THEN "idle" ELSE phase[k]
    BY <1>1
  <2>3. active[k] = 0 <=> phase[k] = "idle"
    BY DEF ExecInv, RunsHoldSlots
  <2>4. QED BY <2>1, <2>2, <2>3 DEF Dropped
<1>4. RegisteredIsListed' /\ StopReachesRuns' /\ CountIsFresh'
  BY <1>1 DEF ExecInv, ExecTypeOK, RegisteredIsListed, StopReachesRuns,
              CountIsFresh, Undecided, Recording
<1>5. QED BY <1>2, <1>3, <1>4 DEF ExecInv

-----------------------------------------------------------------------------
(* Stop and cancellations *)

\* Each run whose work is under way holds a slot and has a Run, so the stop
\* finds it.
LEMMA ExecStopInv ==
    ASSUME ExecInv, SlotsInv, ExecStop PROVE ExecInv'
<1>1. /\ runs' = [k \in Jobs |-> IF k \in Listed THEN Flags(TRUE) ELSE runs[k]]
      /\ UNCHANGED <<active, phase, count, row>>
  BY DEF ExecStop, Stop
<1>2. Flags(TRUE) \in [aborted : BOOLEAN, cancelled : BOOLEAN] /\ Flags(TRUE) # NoRun
  BY FlagsType
<1>3. ExecTypeOK'
  BY <1>1, <1>2 DEF ExecInv, ExecTypeOK
<1>4. RunsHoldSlots'
  BY <1>1 DEF ExecInv, RunsHoldSlots, Dropped
<1>5. RegisteredIsListed'
  BY <1>1, <1>2 DEF ExecInv, RegisteredIsListed
<1>6. StopReachesRuns'
  <2> SUFFICES ASSUME NEW k \in Jobs, phase[k] \in Undecided
               PROVE  runs'[k] = Flags(TRUE)
    BY <1>1 DEF StopReachesRuns
  <2>1. runs[k] # NoRun
    BY DEF ExecInv, RegisteredIsListed
  <2>2. active[k] \in Nat /\ active[k] # 0
    BY DEF ExecInv, RunsHoldSlots, Undecided, SlotsInv, SlotsTypeOK
  <2>3. k \in Listed
    BY <2>1, <2>2 DEF Listed, ActiveIds
  <2>4. QED BY <1>1, <2>3
<1>7. CountIsFresh'
  BY <1>1 DEF ExecInv, CountIsFresh
<1>8. QED BY <1>3, <1>4, <1>5, <1>6, <1>7 DEF ExecInv

LEMMA CancelInv ==
    ASSUME ExecInv, NEW j \in Jobs, CancelManaged(j) \/ CancelJob(j)
    PROVE  ExecInv'
<1>1. UNCHANGED <<active, stopped, phase, count, row>>
  BY DEF CancelManaged, CancelJob, slotVars
<1>2. /\ runs'[j] \in {NoRun} \cup [aborted : BOOLEAN, cancelled : BOOLEAN]
      /\ runs' = [runs EXCEPT ![j] = runs'[j]]
      /\ runs'[j] = NoRun <=> runs[j] = NoRun
      /\ runs[j] = Flags(TRUE) => runs'[j] = Flags(TRUE)
  <2>1. CASE CancelManaged(j)
    <3>1. CASE j \in Listed
      BY <2>1, <3>1, FlagsType DEF CancelManaged, Listed, ExecInv, ExecTypeOK
    <3>2. CASE j \notin Listed
      BY <2>1, <3>2 DEF CancelManaged, ExecInv, ExecTypeOK
    <3>3. QED BY <3>1, <3>2
  <2>2. CASE CancelJob(j)
    <3>1. /\ runs[j] \in [aborted : BOOLEAN, cancelled : BOOLEAN]
          /\ runs' = [runs EXCEPT ![j] = [aborted |-> runs[j].aborted,
                                          cancelled |-> TRUE]]
      BY <2>2 DEF CancelJob, Listed, ExecInv, ExecTypeOK
    <3>2. /\ runs'[j] = [aborted |-> runs[j].aborted, cancelled |-> TRUE]
          /\ runs'[j] \in [aborted : BOOLEAN, cancelled : BOOLEAN]
      BY <3>1 DEF ExecInv, ExecTypeOK
    <3>3. runs[j] = Flags(TRUE) => runs'[j] = Flags(TRUE)
      BY <3>2 DEF Flags
    <3>4. QED BY <3>1, <3>2, <3>3, ExecAssumption DEF ExecInv, ExecTypeOK
  <2>3. QED BY <2>1, <2>2
<1>3. ExecTypeOK'
  BY <1>1, <1>2 DEF ExecInv, ExecTypeOK
<1>4. RunsHoldSlots' /\ CountIsFresh'
  BY <1>1 DEF ExecInv, RunsHoldSlots, Dropped, CountIsFresh
<1>5. RegisteredIsListed' /\ StopReachesRuns'
  BY <1>1, <1>2 DEF ExecInv, ExecTypeOK, RegisteredIsListed, StopReachesRuns
<1>6. QED BY <1>3, <1>4, <1>5 DEF ExecInv

\* The dropped run keeps its slot, and is the only one.
LEMMA DropRunInv ==
    ASSUME ExecInv, NEW j \in Jobs, DropRun(j) PROVE ExecInv'
<1>1. /\ phase[j] \in Awaiting
      /\ Dropped = {}
      /\ phase' = [phase EXCEPT ![j] = "dropped"]
      /\ UNCHANGED <<active, stopped, runs, count, row>>
  BY DEF DropRun, slotVars
<1>2. ExecTypeOK'
  BY <1>1 DEF ExecInv, ExecTypeOK, Phases
<1>3. RunsHoldSlots'
  BY <1>1 DEF ExecInv, ExecTypeOK, RunsHoldSlots, Dropped, Awaiting, Undecided, Recording
<1>4. RegisteredIsListed' /\ StopReachesRuns' /\ CountIsFresh'
  BY <1>1 DEF ExecInv, ExecTypeOK, RegisteredIsListed, StopReachesRuns,
              CountIsFresh, Undecided, Recording
<1>5. QED BY <1>2, <1>3, <1>4 DEF ExecInv

-----------------------------------------------------------------------------
(* The theorems *)

\* Every reachable state of the executor satisfies the inductive invariant.
THEOREM ExecInvariance == ExecSpec => []ExecInv
<1>1. ExecInit => ExecInv
  BY ExecAssumption DEF ExecInit, SlotsInit, ExecInv, ExecTypeOK, RunsHoldSlots,
     Dropped, RegisteredIsListed, StopReachesRuns, CountIsFresh, Phases, Undecided, Recording
<1>2. ExecInv /\ SlotsInv /\ [ExecNext]_execVars => ExecInv'
  <2> SUFFICES ASSUME ExecInv, SlotsInv, [ExecNext]_execVars PROVE ExecInv'
    OBVIOUS
  <2>1. ASSUME NEW j \in Jobs, ExecAdmit(j) PROVE ExecInv'
    BY <2>1, ExecAdmitInv
  <2>2. ASSUME NEW j \in Jobs, ExecDefer(j) PROVE ExecInv'
    BY <2>2, ExecDeferInv
  <2>3. ASSUME NEW j \in Jobs, RunStep(j) PROVE ExecInv'
    BY <2>3, RegisterInv, StretchInv, ExecReleaseInv
  <2>4. ASSUME NEW j \in Jobs, CancelManaged(j) \/ CancelJob(j) PROVE ExecInv'
    BY <2>4, CancelInv
  <2>5. ASSUME NEW j \in Jobs, DropRun(j) PROVE ExecInv'
    BY <2>5, DropRunInv
  <2>6. CASE ExecStop
    BY <2>6, ExecStopInv
  <2>7. CASE UNCHANGED execVars
    BY <2>7 DEF execVars, ExecInv, ExecTypeOK, RunsHoldSlots, Dropped,
                RegisteredIsListed, StopReachesRuns, CountIsFresh
  <2>8. QED BY <2>1, <2>2, <2>3, <2>4, <2>5, <2>6, <2>7 DEF ExecNext
<1>3. QED BY <1>1, <1>2, ExecKeepsSlots, PTL DEF ExecSpec

\* The runs, their flags and the failure counts stay in their types.
THEOREM ExecTypeCorrect == ExecSpec => []ExecTypeOK
<1>1. ExecInv => ExecTypeOK
  BY DEF ExecInv
<1>2. QED BY <1>1, ExecInvariance, PTL

\* No slot without a run and no run without a slot, on every error path and
\* after every stop, but for the one run that an aborted catch-up awaited.
THEOREM RunsAlwaysHoldSlots == ExecSpec => []RunsHoldSlots
<1>1. ExecInv => RunsHoldSlots
  BY DEF ExecInv
<1>2. QED BY <1>1, ExecInvariance, PTL

\* The stop reaches every run, whichever side of it the registration falls.
THEOREM StopAlwaysReachesRuns == ExecSpec => []StopReachesRuns
<1>1. ExecInv => StopReachesRuns
  BY DEF ExecInv
<1>2. QED BY <1>1, ExecInvariance, PTL

\* No run writes back a failure count that another write overtook.
THEOREM CountIsAlwaysFresh == ExecSpec => []CountIsFresh
<1>1. ExecInv => CountIsFresh
  BY DEF ExecInv
<1>2. QED BY <1>1, ExecInvariance, PTL

\* An aborted run ends as cancelled, never as a success or a failure.
THEOREM AbortedRunsAreCancelled == ExecSpec => AbortedIsCancelled
<1> DEFINE Step == \A j \in Jobs :
                     /\ phase[j] \in Undecided \cup {"recordCancelled", "failedCancelled"}
                     /\ Aborted(j)
                     => phase'[j] \notin {"recordSuccess", "failedFailure"}
<1>1. ExecInv /\ SlotsInv /\ [ExecNext]_execVars => Step
  <2> SUFFICES ASSUME ExecInv, SlotsInv, [ExecNext]_execVars, NEW j \in Jobs,
                      phase[j] \in Undecided \cup {"recordCancelled", "failedCancelled"},
                      Aborted(j)
               PROVE  phase'[j] \notin {"recordSuccess", "failedFailure"}
    OBVIOUS
  <2>1. phase \in [Jobs -> Phases]
    BY DEF ExecInv, ExecTypeOK
  <2>2. ASSUME NEW k \in Jobs, ExecAdmit(k) \/ RunStep(k)
        PROVE  phase'[j] \notin {"recordSuccess", "failedFailure"}
    <3>1. CASE ExecRelease(k)
      BY <2>1, <3>1 DEF ExecRelease, Undecided
    <3>2. CASE ~ExecRelease(k)
      BY <2>1, <2>2, <3>2 DEF ExecAdmit, RunStep, SettingsFail, Register,
         RecordStart, RecordStartFails, WorkReturns, WorkFails, RecordCancelled,
         RecordSuccess, RecordSuccessFails, FailedCancelled, FailedFailure,
         Moves, Undecided
    <3>3. QED BY <3>1, <3>2
  <2>3. ASSUME NEW k \in Jobs, DropRun(k)
        PROVE  phase'[j] \notin {"recordSuccess", "failedFailure"}
    BY <2>1, <2>3 DEF DropRun, Undecided
  <2>4. CASE UNCHANGED phase
    BY <2>4 DEF Undecided
  <2>5. QED BY <2>2, <2>3, <2>4 DEF ExecNext, ExecDefer, CancelManaged, CancelJob,
                                    ExecStop, execVars
<1>2. QED BY <1>1, ExecInvariance, ExecKeepsSlots, PTL DEF ExecSpec, AbortedIsCancelled
=============================================================================
