---------------------------- MODULE JobExecutor ----------------------------
(***************************************************************************)
(* The runs behind the slots of JobSlots: `run_admitted` of                 *)
(* jobs/scheduler.rs and `run_recorded` of jobs/execution.rs, one action    *)
(* per stretch between two awaits.  A run is a task; `phase` is the await   *)
(* it is at.  Requests, cancellations and the stop come in between.         *)
(*                                                                          *)
(* Of a row of `job_execution_state` only the failure count is kept: no run *)
(* reads the timestamps.  A statement that answers with an error may have   *)
(* been applied.                                                            *)
(***************************************************************************)
EXTENDS JobSlots

CONSTANTS NoRun,     \* a job id without a Run in `runs`
          NoRow,     \* a job id without a row in `job_execution_state`
          MaxFails   \* bound: failures in a row that a run may add to

ASSUME ExecAssumption == /\ MaxFails \in Nat
                         /\ NoRow \notin Nat
                         /\ NoRun \notin [aborted : BOOLEAN, cancelled : BOOLEAN]

VARIABLES phase,   \* where the run of each id is
          runs,    \* the flags of the latest registered run of each id
          count,   \* the run's copy of `consecutive_failures`
          row      \* `consecutiveFailures` of the row, or NoRow

execVars == <<active, used, place, stopped, phase, runs, count, row>>

\* Registered, and its work has not returned yet.
Undecided == {"recordStart", "work"}
\* The record of how it ended is being written.
Recording == {"recordSuccess", "recordCancelled",
              "failedCancelled", "failedFailure"}
\* "admitted" reads the settings, "ending" is about to release the slot.  A
\* "dropped" run is no more, but its slot was never released.
Phases == {"idle", "admitted", "ending", "dropped"} \cup Undecided \cup Recording
\* At an await.
Awaiting == {"admitted"} \cup Undecided \cup Recording

Flags(b) == [aborted |-> b, cancelled |-> b]

Aborted(j) == runs[j] # NoRun /\ runs[j].aborted

\* Mutant: a missing row is not told from one with a count.
CountRaw(r) == r

\* The failure count a run finds.
CountOf(r) == IF r = NoRow THEN 0 ELSE r

-----------------------------------------------------------------------------

ExecInit == /\ SlotsInit
            /\ phase = [j \in Jobs |-> "idle"]
            /\ runs = [j \in Jobs |-> NoRun]
            /\ count = [j \in Jobs |-> 0]
            /\ row \in [Jobs -> {NoRow} \cup 0..MaxFails]

Moves(j, from, to) == /\ phase[j] = from
                      /\ phase' = [phase EXCEPT ![j] = to]

-----------------------------------------------------------------------------
\* `execute_managed`

ExecAdmit(j) == /\ Admit(j)
                /\ Moves(j, "idle", "admitted")
                /\ UNCHANGED <<runs, count, row>>

ExecDefer(j) == /\ Defer(j)
                /\ UNCHANGED <<phase, runs, count, row>>

-----------------------------------------------------------------------------
\* `run_admitted` and `run_recorded`

\* Mutant: the error returns before the slot is released.
SettingsFailReturns(j) == /\ Moves(j, "admitted", "idle")
                          /\ UNCHANGED <<slotVars, runs, count, row>>

\* `settings.current()` fails: nothing is registered or recorded.
SettingsFail(j) == /\ Moves(j, "admitted", "ending")
                   /\ UNCHANGED <<slotVars, runs, count, row>>

\* Mutant: the registration does not look at `stopped`.
RegisterFresh(j) == /\ Moves(j, "admitted", "recordStart")
                    /\ runs' = [runs EXCEPT ![j] = Flags(FALSE)]
                    /\ UNCHANGED <<slotVars, count, row>>

\* The settings are read; the run is registered with fresh flags, which a
\* stop in the meantime finds already raised.
Register(j) == /\ Moves(j, "admitted", "recordStart")
               /\ runs' = [runs EXCEPT ![j] = Flags(stopped)]
               /\ UNCHANGED <<slotVars, count, row>>

\* Mutant: every run starts from no failures.
RecordStartFromZero(j) == /\ Moves(j, "recordStart", "work")
                          /\ count' = [count EXCEPT ![j] = 0]
                          /\ row' = [row EXCEPT ![j] = CountOf(@)]
                          /\ UNCHANGED <<slotVars, runs>>

\* `record_start`: the count is read, a missing row inserted with count 0.
RecordStart(j) == /\ Moves(j, "recordStart", "work")
                  /\ count' = [count EXCEPT ![j] = CountOf(row[j])]
                  /\ row' = [row EXCEPT ![j] = CountOf(@)]
                  /\ UNCHANGED <<slotVars, runs>>

\* `record_start` fails: `failed` without a record writes nothing.
RecordStartFails(j) == /\ Moves(j, "recordStart", "ending")
                       /\ row' \in {row, [row EXCEPT ![j] = CountOf(@)]}
                       /\ UNCHANGED <<slotVars, runs, count>>

\* `aborted()` is read as the work returns.
WorkReturns(j) == /\ Moves(j, "work", IF Aborted(j) THEN "recordCancelled"
                                                    ELSE "recordSuccess")
                  /\ UNCHANGED <<slotVars, runs, count, row>>

\* Mutant: `failed` counts an aborted run as a failure.
WorkFailsUnchecked(j) == /\ Moves(j, "work", "failedFailure")
                         /\ CountOf(row[j]) < MaxFails
                         /\ UNCHANGED <<slotVars, runs, count, row>>

\* The work errs or panics.
WorkFails(j) == /\ Moves(j, "work", IF Aborted(j) THEN "failedCancelled"
                                                  ELSE "failedFailure")
                /\ CountOf(row[j]) < MaxFails
                /\ UNCHANGED <<slotVars, runs, count, row>>

\* `record_cancelled`, and on an error `failed`.
RecordCancelled(j) ==
    /\ \/ Moves(j, "recordCancelled", "ending")
       \/ Moves(j, "recordCancelled", IF Aborted(j) THEN "failedCancelled"
                                                    ELSE "failedFailure")
    /\ UNCHANGED <<slotVars, runs, count, row>>

RecordSuccess(j) == /\ Moves(j, "recordSuccess", "ending")
                    /\ row' = [row EXCEPT ![j] = 0]
                    /\ UNCHANGED <<slotVars, runs, count>>

\* The success cannot be recorded: a failure after zero failures, or, when
\* aborted in the meantime, a cancellation.
RecordSuccessFails(j) ==
    /\ MaxFails > 0
    /\ Moves(j, "recordSuccess", IF Aborted(j) THEN "failedCancelled"
                                               ELSE "failedFailure")
    /\ count' = [count EXCEPT ![j] = 0]
    /\ row' \in {row, [row EXCEPT ![j] = 0]}
    /\ UNCHANGED <<slotVars, runs>>

\* The `catch`: the record is written or not, the run is over either way.
FailedCancelled(j) == /\ Moves(j, "failedCancelled", "ending")
                      /\ UNCHANGED <<slotVars, runs, count, row>>

FailedFailure(j) == /\ Moves(j, "failedFailure", "ending")
                    /\ count' = [count EXCEPT ![j] = @ + 1]
                    /\ row' \in {row, [row EXCEPT ![j] = count[j] + 1]}
                    /\ UNCHANGED <<slotVars, runs>>

\* Mutant: the queue is drained but the started ids are not spawned.
ReleaseUnspawned(j) == /\ Release(j)
                       /\ Moves(j, "ending", "idle")
                       /\ UNCHANGED <<runs, count, row>>

\* The slot is freed; every id the queue gives it to is spawned.
ExecRelease(j) ==
    /\ Release(j)
    /\ phase[j] = "ending"
    /\ phase' = [k \in Jobs |-> IF k \in Started(j) THEN "admitted"
                                ELSE IF k = j THEN "idle" ELSE phase[k]]
    /\ UNCHANGED <<runs, count, row>>

-----------------------------------------------------------------------------
\* Stop and cancellations

Dropped == {j \in Jobs : phase[j] = "dropped"}

\* `stop_jobs` of the desktop app aborts its catch-up task.  When that task is
\* at an await of `execute_managed`, the run it awaits is dropped there: nothing
\* more is recorded and no slot released, though the job itself, a task of its
\* own, may work on.  The one catch-up awaits one run at a time.
DropRun(j) == /\ phase[j] \in Awaiting
              /\ Dropped = {}
              /\ phase' = [phase EXCEPT ![j] = "dropped"]
              /\ UNCHANGED <<slotVars, runs, count, row>>

\* The ids with a slot and a Run.  A run between its admission and its
\* registration has a slot but no Run yet, or the one of an earlier run.
Listed == {j \in ActiveIds : runs[j] # NoRun}

\* `stopJobs()`: the listed runs are aborted and told to stop.
ExecStop == /\ Stop
            /\ runs' = [j \in Jobs |-> IF j \in Listed THEN Flags(TRUE) ELSE runs[j]]
            /\ UNCHANGED <<phase, count, row>>

\* `cancelManagedJob(id)`: the abort and the job's own cancel.
CancelManaged(j) == /\ runs' = IF j \in Listed
                               THEN [runs EXCEPT ![j] = Flags(TRUE)] ELSE runs
                    /\ UNCHANGED <<slotVars, phase, count, row>>

\* The job's own cancel alone: the run is not aborted.
CancelJob(j) == /\ j \in Listed
                /\ runs' = [runs EXCEPT ![j] = [aborted |-> @.aborted,
                                                cancelled |-> TRUE]]
                /\ UNCHANGED <<slotVars, phase, count, row>>

-----------------------------------------------------------------------------

RunStep(j) == \/ SettingsFail(j) \/ Register(j)
              \/ RecordStart(j) \/ RecordStartFails(j)
              \/ WorkReturns(j) \/ WorkFails(j)
              \/ RecordCancelled(j)
              \/ RecordSuccess(j) \/ RecordSuccessFails(j)
              \/ FailedCancelled(j) \/ FailedFailure(j)
              \/ ExecRelease(j)

ExecNext == \/ \E j \in Jobs : \/ ExecAdmit(j) \/ ExecDefer(j) \/ RunStep(j)
                               \/ CancelManaged(j) \/ CancelJob(j) \/ DropRun(j)
            \/ ExecStop

\* A run is a task the runtime polls whenever its await is over, and every
\* await is over some time: the work is a finite sequence of calls that
\* return, fail or time out.  Nothing is assumed of requests.  After the abort
\* `stop_jobs` goes on to the executor's stop.
ExecSpec == ExecInit /\ [][ExecNext]_execVars

FairExecSpec == /\ ExecSpec
                /\ \A j \in Jobs : WF_execVars(RunStep(j))
                /\ WF_execVars(Dropped # {} /\ ~stopped /\ ExecStop)

-----------------------------------------------------------------------------
\* Properties

ExecTypeOK ==
    /\ phase \in [Jobs -> Phases]
    /\ runs \in [Jobs -> {NoRun} \cup [aborted : BOOLEAN, cancelled : BOOLEAN]]
    /\ count \in [Jobs -> Nat]
    /\ row \in [Jobs -> {NoRow} \cup Nat]

\* A slot is held exactly while a task of that id is there to release it, with
\* one exception: the run dropped with the catch-up that awaited it.  No error
\* path, drain or stop leaves another slot without a run, or runs without one.
RunsHoldSlots ==
    /\ \A j \in Jobs : active[j] = 0 <=> phase[j] = "idle"
    /\ \A j, k \in Dropped : j = k

\* Once stopped, every run that registered knows it, on whichever side of the
\* stop its registration fell: the runs stop() listed and the late ones.
StopReachesRuns ==
    stopped => \A j \in Jobs : phase[j] \in Undecided => runs[j] = Flags(TRUE)

\* A run aborted while its work was under way is never recorded as a success
\* or counted as a failure, also when recording the cancellation fails.
AbortedIsCancelled ==
    [][\A j \in Jobs :
         /\ phase[j] \in Undecided \cup {"recordCancelled", "failedCancelled"}
         /\ Aborted(j)
         => phase'[j] \notin {"recordSuccess", "failedFailure"}]_execVars

\* The count that a run writes back plus one is the row's own, which a run of
\* the same id in between would have made stale; only a success that could
\* not be recorded starts again from zero.
CountIsFresh ==
    \A j \in Jobs :
        /\ phase[j] \in {"work", "recordSuccess", "recordCancelled"}
              => count[j] = row[j]
        /\ phase[j] = "failedFailure" => count[j] \in {0, row[j]}

\* The slots' specification with its fairness: whatever a run meets, its slot
\* is released in the end or the executor stops.
ImplementsSlots == FairSlotsSpec

\* What `idle()` waits for: once stopped, every run gives its slot back and none
\* takes one again, but for the run whose catch-up was aborted.  Only that run
\* can keep `idle()` from resolving.
DrainEnds == stopped ~> [](ActiveIds = Dropped)
=============================================================================
