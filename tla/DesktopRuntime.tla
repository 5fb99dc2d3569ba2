--------------------------- MODULE DesktopRuntime ---------------------------
(***************************************************************************)
(* One desktop process: it takes the instance lock, starts its jobs after a *)
(* sign-in, puts heavy jobs off while a film plays, makes up for what it    *)
(* missed, and is stopped by its host (runtime/desktop.rs, control.rs,      *)
(* process.rs).  Its jobs run in the slots of JobSlots; other processes     *)
(* come and go around the lock of InstanceLock.                             *)
(*                                                                          *)
(* The host's messages, the timers, the catch-up passes and the stop are    *)
(* tasks of their own; the statics they share are atomics and mutexes, and  *)
(* a step is what a task does between two of them, except for a job that is *)
(* put off: PLAYBACK is read and the list extended in one step.  Memory is  *)
(* gone with the process.  Left out: HTTP requests (the drain may take as   *)
(* long as it wants), when exactly a cron fires (any time once loaded), and *)
(* a second caller of `start_catch_up` beside the first (bound).            *)
(***************************************************************************)
EXTENDS JobSlots, InstanceLock, Sequences

CONSTANTS Me,         \* the process modelled in full
          Downloads,  \* ids of the download poll, in the order they are run
          Table,      \* ids in the job table that a catch-up looks at, in order
          Succeeded,  \* ids that have a success on record, without which none is missed
          Passes,     \* bound: catch-up passes under way at a time
          NoJob       \* a pass that waits for no run

TableIds == {Table[i] : i \in DOMAIN Table}

ASSUME DesktopAssumption == /\ Me \in Procs
                            /\ Downloads \in Seq(Light)
                            /\ Table \in Seq(Jobs)
                            /\ Succeeded \subseteq Jobs
                            /\ NoJob \notin Jobs

VARIABLES serving,     \* started up: requests and messages find their state
          loaded,      \* the job table is filled, its timers run
          missed,      \* jobs whose rows say that an occurrence was missed
          playback,    \* PLAYBACK
          deferred,    \* DEFERRED
          pending,     \* CATCH_UP_PENDING
          downloaded,  \* DOWNLOAD_STARTUP_RUN
          pass,        \* the catch-up passes
          caller,      \* where the caller of start_catch_up is
          stop         \* where the stop sequence is

upVars == <<serving, loaded, missed, playback>>
passVars == <<pending, downloaded, pass>>
runtimeVars == <<upVars, deferred, passVars, caller, stop>>
desktopVars == <<lockVars, slotVars, runtimeVars>>

CallerStages == {"idle", "start", "check", "queue"}

PassStages == {"idle", "woken", "download", "deferred", "missed", "due",
               "failed", "dropped"}
\* What a pass still has to hand over, and the run it waits for.  A doomed one
\* was aborted while it was not at an await; it is dropped at the next one.
PassState == [at : PassStages, todo : Seq(Jobs), job : Jobs \cup {NoJob}, doomed : BOOLEAN]
NoPass == [at |-> "idle", todo |-> <<>>, job |-> NoJob, doomed |-> FALSE]

Failed == [NoPass EXCEPT !.at = "failed"]

StopStages == {"no", "flagged", "unqueued", "draining", "drained", "overdue", "over"}

\* STOPPING
Stopping == stop # "no"

\* Mutant: an id may be on the list twice.
PutAgain(q, j) == Append(q, j)

Put(q, j) == IF j \in {q[i] : i \in DOMAIN q} THEN q ELSE Append(q, j)

Up == stage[Me] \in {"owner", "released"}

-----------------------------------------------------------------------------

RuntimeInit == /\ serving = FALSE
               /\ loaded = FALSE
               /\ missed \in SUBSET Succeeded
               /\ playback = FALSE
               /\ deferred = <<>>
               /\ pending = FALSE
               /\ downloaded = FALSE
               /\ pass = [k \in Passes |-> NoPass]
               /\ caller = "idle"
               /\ stop = "no"

DesktopInit == LockInit /\ SlotsInit /\ RuntimeInit

\* The process is gone, and with it all but the database.
Blank == /\ serving' = FALSE
         /\ loaded' = FALSE
         /\ playback' = FALSE
         /\ deferred' = <<>>
         /\ pending' = FALSE
         /\ downloaded' = FALSE
         /\ pass' = [k \in Passes |-> NoPass]
         /\ caller' = "idle"
         /\ stop' = "over"
         /\ active' = [j \in Jobs |-> 0]
         /\ used' = [w \in Weights |-> 0]
         /\ place' = [j \in Jobs |-> 0]
         /\ stopped' = TRUE
         /\ UNCHANGED <<missed>>

-----------------------------------------------------------------------------
\* The life of the process.

\* Bound: no other process lives while Me serves.
Alone == \A p \in Procs \ {Me} : ~Alive(p)

Acquire == /\ Launch(Me) \/ AcquireStep(Me)
           /\ IF stage'[Me] = "gone" THEN Blank ELSE UNCHANGED <<slotVars, runtimeVars>>

Serve == /\ Up
         /\ ~serving
         /\ Alone
         /\ serving' = TRUE
         /\ UNCHANGED <<lockVars, slotVars, loaded, missed, playback, deferred,
                        passVars, stop, caller>>

\* `failed`: a start that fails gives the lock back before the process ends.
FailedStart == /\ ~serving
               /\ stage[Me] = "owner"
               /\ stage' = [stage EXCEPT ![Me] = "gone"]
               /\ file' = NoFile
               /\ UNCHANGED <<seen, crossed>>
               /\ Blank

Crash == Leave(Me) /\ Blank

Others == /\ ~serving
          /\ \E p \in Procs \ {Me} : LockStep(p)
          /\ UNCHANGED <<slotVars, runtimeVars>>

-----------------------------------------------------------------------------
\* Messages and sign-ins.

CallerGoes(from, to) == caller = from /\ caller' = to

\* `set_playback`: the store, then `start_catch_up` when it ended.  The control
\* channel is read from the very start.  Bound: none follows a stop.
SetPlayback(on) == /\ playback # on
                   /\ ~Stopping
                   /\ playback' = on
                   /\ CallerGoes("idle", IF on THEN "idle" ELSE "check")
                   /\ UNCHANGED <<lockVars, slotVars, serving, loaded, missed,
                                  deferred, passVars, stop>>

\* A sign-in or `GET /auth/me` spawns the timer of `schedule_jobs`; the first
\* account only calls `start_catch_up`.  Stopping, they are answered with 503.
SignIn == /\ serving
          /\ ~Stopping
          /\ CallerGoes("idle", "start") \/ CallerGoes("idle", "check")
          /\ UNCHANGED <<lockVars, slotVars, upVars, deferred, passVars, stop>>

\* Seconds later: `scheduler::start`, which does nothing once stopped either.
StartJobs == /\ \/ Stopping /\ CallerGoes("start", "idle") /\ UNCHANGED loaded
                \/ CallerGoes("start", "check") /\ loaded' = (loaded \/ ~stopped)
             /\ UNCHANGED <<lockVars, slotVars, serving, missed, playback, deferred,
                            passVars, stop>>

\* `start_catch_up`: stopping, or no state to run with yet.
CheckStopping ==
    /\ CallerGoes("check", IF Stopping \/ ~serving THEN "idle" ELSE "queue")
    /\ UNCHANGED <<lockVars, slotVars, upVars, deferred, passVars, stop>>

\* Mutant: no second pass while one is under way.
QueueUnlessRunning ==
    /\ CallerGoes("queue", "idle")
    /\ pending' = (pending \/ \A k \in Passes : pass[k] = NoPass)
    /\ UNCHANGED <<lockVars, slotVars, upVars, deferred, downloaded, pass,
                   stop>>

\* One pass is queued, unless there is one already.
QueueCatchUp ==
    /\ CallerGoes("queue", "idle")
    /\ pending' = TRUE
    /\ UNCHANGED <<lockVars, slotVars, upVars, deferred, downloaded, pass,
                   stop>>

-----------------------------------------------------------------------------
\* A job that fires.

PutOff(j) == j \in Heavy /\ playback

\* `invoke`: put off, or started or queued by `execute_managed` (the stop has
\* unloaded the table).  The occurrence is missed for as long as no run has
\* succeeded, for a job that ever did.
Fire(j) == /\ loaded
           /\ j \in TableIds
           /\ missed' = missed \cup ({j} \cap Succeeded)
           /\ IF PutOff(j) THEN deferred' = Put(deferred, j) /\ UNCHANGED slotVars
              ELSE (Admit(j) \/ Defer(j)) /\ UNCHANGED deferred
           /\ UNCHANGED <<lockVars, serving, loaded, playback, passVars,
                          stop, caller>>

-----------------------------------------------------------------------------
\* A catch-up pass.

PassGoes(k, from, to) == /\ pass[k].at = from
                         /\ pass' = [pass EXCEPT ![k] = to]

\* The thirty seconds are over; the handle is still there.
Wake(k) == /\ pending
           /\ \A l \in Passes : pass[l].at # "woken"
           /\ PassGoes(k, "idle", [NoPass EXCEPT !.at = "woken"])
           /\ UNCHANGED <<lockVars, slotVars, upVars, deferred, pending,
                          downloaded, stop, caller>>

\* The handle is dropped, whoever's it is by now; the download poll is for
\* the first pass.
Begin(k) == /\ PassGoes(k, "woken",
                 [pass[k] EXCEPT !.at = "download",
                                 !.todo = IF downloaded THEN <<>> ELSE Downloads])
            /\ pending' = FALSE
            /\ downloaded' = TRUE
            /\ UNCHANGED <<lockVars, slotVars, upVars, deferred, stop, caller>>

\* The job at the head is dealt with.
Advance(s) == [s EXCEPT !.at = IF @ = "due" THEN "missed" ELSE @,
                        !.todo = Tail(@),
                        !.job = NoJob]

\* An admitted run is waited for.  A doomed pass is dropped at that wait, and
\* its run with it.
Await(s, j) == [s EXCEPT !.job = j,
                         !.at = IF s.doomed THEN "dropped" ELSE @]

\* `execute_managed` of the next job.
HandOver(k) ==
    /\ pass[k].at \in {"download", "deferred", "due"}
    /\ pass[k].todo # <<>>
    /\ pass[k].job = NoJob
    /\ pass[k].at = "due" => ~PutOff(Head(pass[k].todo))
    /\ LET j == Head(pass[k].todo) IN
       \/ /\ \/ stopped /\ UNCHANGED slotVars
             \/ Defer(j)
          /\ pass' = [pass EXCEPT ![k] = Advance(@)]
       \/ /\ Admit(j)
          /\ pass' = [pass EXCEPT ![k] = Await(@, j)]
    /\ UNCHANGED <<lockVars, upVars, deferred, pending, downloaded, stop,
                   caller>>

\* Mutant: the list is taken before playback is looked at.
TakeDeferredFirst(k) ==
    /\ pass[k].todo = <<>>
    /\ PassGoes(k, "download", [pass[k] EXCEPT !.at = "deferred",
                                               !.todo = IF playback THEN <<>> ELSE deferred])
    /\ deferred' = <<>>
    /\ UNCHANGED <<lockVars, slotVars, upVars, pending, downloaded,
                   stop, caller>>

\* `run_deferred`: the whole list, or nothing during playback.
TakeDeferred(k) ==
    /\ pass[k].todo = <<>>
    /\ PassGoes(k, "download", [pass[k] EXCEPT !.at = "deferred",
                                               !.todo = IF playback THEN <<>> ELSE deferred])
    /\ deferred' = IF playback THEN deferred ELSE <<>>
    /\ UNCHANGED <<lockVars, slotVars, upVars, pending, downloaded,
                   stop, caller>>

ListJobs(k) ==
    /\ pass[k].todo = <<>>
    /\ PassGoes(k, "deferred", [pass[k] EXCEPT !.at = "missed",
                                               !.todo = IF loaded THEN Table ELSE <<>>])
    /\ UNCHANGED <<lockVars, slotVars, upVars, deferred, pending, downloaded,
                   stop, caller>>

\* The row of the next job: an occurrence was missed or not.
ReadRow(k) ==
    /\ pass[k].todo # <<>>
    /\ PassGoes(k, "missed", IF pass[k].doomed THEN NoPass
                             ELSE IF Head(pass[k].todo) \in missed
                                  THEN [pass[k] EXCEPT !.at = "due"]
                                  ELSE Advance(pass[k]))
    /\ UNCHANGED <<lockVars, slotVars, upVars, deferred, pending, downloaded,
                   stop, caller>>

\* Mutant: a row that cannot be read is passed over.
ReadRowOrSkip(k) ==
    /\ pass[k].todo # <<>>
    /\ PassGoes(k, "missed", Advance(pass[k]))
    /\ UNCHANGED <<lockVars, slotVars, upVars, deferred, pending, downloaded,
                   stop, caller>>

\* The row cannot be read: the pass is over.
ReadRowFails(k) ==
    /\ pass[k].todo # <<>>
    /\ PassGoes(k, "missed", Failed)
    /\ UNCHANGED <<lockVars, slotVars, upVars, deferred, pending, downloaded,
                   stop, caller>>

\* `run_scheduled` during playback.
PutOffDue(k) ==
    /\ pass[k].todo # <<>>
    /\ pass[k].job = NoJob
    /\ pass[k].at = "due"
    /\ PutOff(Head(pass[k].todo))
    /\ deferred' = Put(deferred, Head(pass[k].todo))
    /\ PassGoes(k, "due", Advance(pass[k]))
    /\ UNCHANGED <<lockVars, slotVars, upVars, pending, downloaded, stop, caller>>

EndPass(k) ==
    /\ pass[k].todo = <<>>
    /\ PassGoes(k, "missed", NoPass) \/ PassGoes(k, "failed", NoPass)
    /\ UNCHANGED <<lockVars, slotVars, upVars, deferred, pending, downloaded,
                   stop, caller>>

-----------------------------------------------------------------------------
\* A run ends.  Its slot was admitted by a pass that waits for it, by a cron,
\* or by a release; a run dropped with its pass never ends.

Waiting(j) == {k \in Passes : pass[k].job = j}
Dropped(j) == \E k \in Waiting(j) : pass[k].at = "dropped"

\* A success, or a failure and its back-off, settles what was missed.
RunEnds(j) ==
    /\ ~Dropped(j)
    /\ Release(j)
    /\ missed' \in {missed \ {j}} \cup (IF stopped THEN {missed} ELSE {})
    /\ pass' = [k \in Passes |-> IF k \in Waiting(j) THEN Advance(pass[k]) ELSE pass[k]]
    /\ UNCHANGED <<lockVars, serving, loaded, playback, deferred, pending,
                   downloaded, stop, caller>>

\* Its record fails, which ends a pass that is not at the job table yet.
RunFails(j) ==
    /\ ~Dropped(j)
    /\ Release(j)
    /\ pass' = [k \in Passes |->
                  IF k \notin Waiting(j) THEN pass[k]
                  ELSE IF pass[k].at = "due" THEN Advance(pass[k]) ELSE Failed]
    /\ UNCHANGED <<lockVars, upVars, deferred, pending, downloaded, stop,
                   caller>>

-----------------------------------------------------------------------------
\* The stop.  The control channel is installed before the lock is taken.

StopGoes(from, to) == stop = from /\ stop' = to

Installed == stage[Me] \notin {"unborn", "gone"}

\* A `shutdown` message, a signal, or the end of stdin; STOPPING is set.
AskStop == /\ Installed
           /\ StopGoes("no", "flagged")
           /\ UNCHANGED <<lockVars, slotVars, upVars, deferred, passVars, caller>>

\* A second request: no way back, and no release either.
AskAgain == /\ Installed
            /\ stop # "no"
            /\ stop' = "over"
            /\ UNCHANGED <<lockVars, slotVars, upVars, deferred, passVars, caller>>

\* `stop_jobs`: the queued catch-up is aborted.  One that is just waking up
\* runs on until its next await.
DropCatchUp == /\ StopGoes("flagged", "unqueued")
               /\ pending' = FALSE
               /\ pass' = [k \in Passes |-> IF pass[k].at = "woken"
                                            THEN [pass[k] EXCEPT !.doomed = TRUE]
                                            ELSE pass[k]]
               /\ UNCHANGED <<lockVars, slotVars, upVars, deferred, downloaded, caller>>

\* Mutant: the scheduler goes on.
StopNothing == /\ StopGoes("unqueued", "draining")
               /\ downloaded' = FALSE
               /\ deferred' = <<>>
               /\ UNCHANGED <<lockVars, slotVars, upVars, pending, pass, caller>>

\* The deferred jobs are forgotten and the scheduler stopped.
StopJobs == /\ StopGoes("unqueued", "draining")
            /\ Stop
            /\ downloaded' = FALSE
            /\ deferred' = <<>>
            /\ loaded' = FALSE
            /\ UNCHANGED <<lockVars, serving, missed, playback, pending, pass,
                           caller>>

\* `idle()`, and the last request answered.
WoundDown == /\ StopGoes("draining", "drained")
             /\ ActiveIds = {}
             /\ UNCHANGED <<lockVars, slotVars, upVars, deferred, passVars,
                            caller>>

\* Mutant: the drain is waited for without a deadline.
DeadlineIdle == WoundDown

Deadline == /\ StopGoes("draining", "overdue")
            /\ UNCHANGED <<lockVars, slotVars, upVars, deferred, passVars, caller>>

\* The database is closed or out of time; then `release_lock`, which finds
\* nothing while the start has not put its lock there.
CloseAndRelease == /\ StopGoes("drained", "over") \/ StopGoes("overdue", "over")
                   /\ IF stage[Me] = "owner" THEN ReleaseLock(Me) ELSE UNCHANGED lockVars
                   /\ UNCHANGED <<slotVars, upVars, deferred, passVars,
                                  caller>>

\* `exit_requested`, which nobody looks at before `acquire` has returned.
Exit == /\ stop = "over"
        /\ Up
        /\ Leave(Me)
        /\ Blank

-----------------------------------------------------------------------------

CallerStep == StartJobs \/ CheckStopping \/ QueueCatchUp

PassStep(k) == \/ Wake(k) \/ Begin(k) \/ HandOver(k) \/ TakeDeferred(k) \/ ListJobs(k)
               \/ ReadRow(k) \/ PutOffDue(k) \/ EndPass(k)

RunStep(j) == RunEnds(j) \/ RunFails(j)

StopStep == DropCatchUp \/ StopJobs \/ Deadline \/ CloseAndRelease \/ Exit

DesktopNext ==
    \/ Acquire \/ Serve \/ FailedStart \/ Crash \/ Others
    \/ SetPlayback(TRUE) \/ SetPlayback(FALSE) \/ SignIn \/ CallerStep
    \/ \E j \in Jobs : Fire(j) \/ RunStep(j)
    \/ \E k \in Passes : PassStep(k) \/ ReadRowFails(k)
    \/ AskStop \/ AskAgain \/ StopStep \/ WoundDown

DesktopSpec == DesktopInit /\ [][DesktopNext]_desktopVars

\* The tasks go on, and a run ends (every call it makes returns, fails or times
\* out).  Nothing else is promised: no message, no cron, no start of the
\* process, and the drain of the stop may never be over.
DesktopFairness == /\ WF_desktopVars(AcquireStep(Me) /\ Acquire)
                   /\ WF_desktopVars(CallerStep)
                   /\ WF_desktopVars(StopStep)
                   /\ \A k \in Passes : WF_desktopVars(PassStep(k))
                   /\ \A j \in Jobs : WF_desktopVars(RunStep(j))

FairDesktopSpec == DesktopSpec /\ DesktopFairness

-----------------------------------------------------------------------------
\* Properties

\* Types of the runtime's own variables (statics of runtime/desktop.rs); the
\* list of deferred jobs has every id once.
DesktopTypeOK ==
    /\ {serving, loaded, playback, pending, downloaded} \subseteq BOOLEAN
    /\ missed \subseteq Succeeded
    /\ deferred \in Seq(Heavy)
    /\ \A a, b \in DOMAIN deferred : deferred[a] = deferred[b] => a = b
    /\ pass \in [Passes -> PassState]
    /\ caller \in CallerStages
    /\ stop \in StopStages

\* Once the stop sequence went on from the drain because nothing ran, nothing
\* runs until it closes the database and gives the lock back: a catch-up pass
\* that the stop could not abort any more hands its jobs over in vain.
DrainedStaysIdle == stop = "drained" => ActiveIds = {}

\* A job that was put off and waits for its turn: on the list, or taken by a
\* pass that did not reach it yet.
Awaits(j) == \/ \E i \in DOMAIN deferred : deferred[i] = j
             \/ \E k \in Passes : \E i \in DOMAIN pass[k].todo :
                    /\ pass[k].todo[i] = j
                    /\ pass[k].at = "deferred"
                    /\ pass[k].job # j

PassFails == \E k \in Passes : pass[k] = Failed

\* A job put off during playback does not get lost on the way from the list
\* over a pass to the executor: it stops waiting only because it runs or is
\* queued there, the process stops, or its pass fails.
DeferredIsHandedOver ==
    [][\A j \in Heavy : Awaits(j) /\ ~Awaits(j)'
         => active'[j] > 0 \/ place'[j] > 0 \/ Stopping' \/ PassFails']_desktopVars

\* The pass has job j of the table still to look at.
Checks(k, j) == /\ pass[k].at \in {"missed", "due"}
                /\ pass[k].job # j
                /\ \E i \in DOMAIN pass[k].todo : pass[k].todo[i] = j

\* A pass skips no job of the table that missed an occurrence, whatever runs,
\* is queued or put off beside it: it is done with a job only because its row
\* says that nothing was missed, the job runs, is queued or put off, the
\* process stops, or the pass fails.
MissedIsHandedOver ==
    [][\A k \in Passes : \A j \in TableIds : Checks(k, j) /\ ~Checks(k, j)'
         => \/ pass[k].at = "missed" /\ j \notin missed
            \/ active'[j] > 0
            \/ place'[j] > 0
            \/ \E i \in DOMAIN deferred' : deferred'[i] = j
            \/ Stopping'
            \/ pass'[k] = Failed]_desktopVars

\* When the end of a film reaches `start_catch_up`, a job that was put off is
\* taken from the list in the end, whatever pass is under way by then, unless
\* another film starts, a pass fails or the process stops.
DeferredIsResumed ==
    \A j \in Heavy :
        (j \in {deferred[i] : i \in DOMAIN deferred} /\ ~playback /\ caller = "check")
        ~> (j \notin {deferred[i] : i \in DOMAIN deferred} \/ playback \/ Stopping \/ PassFails)

\* A catch-up asked for once the table is loaded reaches every job that missed
\* an occurrence: it succeeds, runs, is queued, or waits for the film to end.
MissedIsMadeUp ==
    \A j \in Succeeded \cap TableIds :
        (j \in missed /\ loaded /\ caller = "check")
        ~> (j \notin missed \/ active[j] > 0 \/ place[j] > 0 \/ Awaits(j)
            \/ Stopping \/ PassFails)

\* A process that was asked to stop ends: when it is asked while it starts,
\* when a run hangs, and when an aborted pass takes a slot with it.
ShutdownEnds == Stopping ~> stage[Me] = "gone"
=============================================================================
