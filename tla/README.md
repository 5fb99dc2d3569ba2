# A verification project for the Foreseerr backend

TLA+ models of the backend in `src/backend-rs/src` (paths below are relative
to it), checked with TLC on small instances and, where it matters most, proved
with TLAPS for every value of the constants.

## 1. Inventory

Foreseerr is a request manager for movies and series: users ask for titles,
administrators decide, approved titles go to Radarr and Sonarr, and scans of the
media server find out what has arrived. The backend is one Rust process (tokio
tasks over one SQLite or Postgres database).

| Component | State it keeps | Operations | Hard parts | What makes it correct |
|---|---|---|---|---|
| Job slots (`jobs/execution.rs`, `jobs/scheduler.rs`) | active ids, two counters, a queue, `stopped`; one mutex | admit, defer, release, stop, idle | two representations of one fact, a queue drained while it is edited, a stop at any time | limits, no id twice, first come first served, nothing waits that could run, the stop drains |
| Job runs (the same files) | a task per run, `runs` (flags of the latest run per id), rows of `job_execution_state` | `execute_managed`, `run_admitted`, `run_recorded`, `cancel_managed`, `cancel`, `stop` | every await can fail; the stop and the cancellations come between admission and registration; a run is dropped with the catch-up that awaits it | no slot lost but the dropped run's, a stop reaches every run, counts not stale, aborted is recorded as cancelled |
| Job timers (`jobs/scheduler.rs`, `jobs/cron.rs`) | job table, next run, generation, timer task | start, reschedule, fire, run now | a timer that fires while it is replaced | one live timer per job, the next run shown is the one that fires |
| Movie requests (`routes/requestcreate.rs`, `requestwrite.rs`, `requestedit.rs`, `mediasave.rs`, `mediawrite.rs`, `lifecycle.rs`) | request rows, the media row's status, `REQUEST_LOCK`, spawned adds | create, approve, decline, retry, remove, media saves of scans and routes, hooks | reads several awaits before the write, hooks that save again, spawned tasks with old snapshots, one lock that only some handlers take, handlers dropped when their client hangs up | an available title leaves no approved request, an approval is sent or failed, no duplicate, the media status fits the requests |
| Series requests (the same, `requestepisodes.rs`, `quota.rs`) | season and episode rows, owners, quota units, `REQUEST_LOCK` | as above, and edit | seasons claimed by several requests; creations and edits that check long before they write, beside handlers that do not take the lock; answers of Sonarr that come late | one claim per season, quotas kept, the lock given back; seasons settle |
| Episode request sync (`jobs/episode_request_sync.rs`) | episode rows, skipped episodes | a periodic pass over ongoing requests | long passes over data others edit | no episode lost or requested twice |
| Desktop runtime (`runtime/desktop.rs`, `control.rs`, `session.rs`, `process.rs`, `jobs/catchup.rs`) | stop flag, playback flag, deferred jobs, catch-up handle, the passes under way | start, sign-in, playback messages, catch-up, stop, exit | the stop against a catch-up in progress, deferred jobs against playback, a stop while the process starts, crashes | a stop ends the process, nothing runs after the drain, deferred and missed jobs are not lost |
| Instance lock (`runtime/lock.rs`) | a file with a pid | acquire, release | stale and half-written files, reused pids, two starters | one live owner |
| Library scans, availability sync (`jobs/*scan*.rs`, `availability_sync.rs`) | media rows | media saves | slow passes with rows loaded early | as the media saves above |
| Caches (`memcache.rs`, `rowcache.rs`, `dnscache.rs`, `imagecache.rs`, `mappinglayer/synccache.rs`) | entries with expiry | get, fill, invalidate | a fill that lands after the invalidation | no stale entry outlives its invalidation |
| Trakt and Simkl state (`routes/procstate/`, `trakt.rs`, `simkl.rs`) | tokens, sync cooldowns | refresh, sync | two refreshes of one token | one refresh at a time |
| Database, settings, mapping layer, media actions, authentication, notifications, other routes | rows, files | queries, migrations, formatting, calls | mostly data | not control: left out, see `PROJECT.json` |

The components meet in four places: the scheduler starts jobs whose bodies save
media rows; media saves and request handlers call each other's hooks; the
desktop runtime takes the instance lock before anything else and gives it back
last; its catch-up and its stop call the scheduler and wait for it. Frontend, charts, tools,
documentation and locales are not modelled.

## 2. Modules

| Module | What it models | Lines of code |
|---|---|---|
| `JobPool` | what the executor promises: limits, a job id once, nothing waits that could run | abstract |
| `JobSlots` | `Slots` behind the scheduler's mutex, one action per critical section; implements `JobPool` | `execution.rs` 12-111, `scheduler.rs` 347-390, 598-640 |
| `JobSlotsProofs` | the proofs about `JobSlots` | |
| `JobExecutor` | extends `JobSlots`: each run as a task, one action per stretch between two awaits; implements `JobSlots` with its fairness | `execution.rs` 113-335, `scheduler.rs` 598-720 |
| `JobExecutorProofs` | the proofs about `JobExecutor` | |
| `MCCancelManaged` | `JobExecutor` with a history variable for cancellations | |
| `JobTimers` | the job table and the timer task of each entry, while starts, reschedules and a stop replace them | `scheduler.rs` 254-589, 792-827, `jobsettings.rs` 197-231 |
| `JobTimersProofs` | the proofs about `JobTimers` | |
| `MovieRequests` | the requests of one movie in one quality and its media status, split at every await | `requestcreate.rs`, `requestwrite.rs`, `requestedit.rs`, `mediasave.rs`, `lifecycle.rs` |
| `MovieRequestsProofs`, `MovieOutcomesProofs` | the proofs about `MovieRequests`: what handlers remember, then what becomes of approved requests | |
| `Ownership` | what the instance lock promises: one owner at a time, the next only after it | abstract |
| `InstanceLock` | the lock file between processes that start, crash and exit, one action per call on the file system; implements `Ownership` | `lock.rs` 32-126, `process.rs` 79-95 |
| `InstanceLockProofs` | the proofs about `InstanceLock` | |
| `DesktopRuntime` | extends `JobSlots` and `InstanceLock`: one desktop process from its lock to its exit, with its messages, catch-up passes and stop as tasks | `desktop.rs` 39-100, 419-425, 567-733, `control.rs` 55-186, `process.rs` 76-210, `scheduler.rs` 565-665 |
| `DesktopRuntimeProofs` | the proofs about `DesktopRuntime` | |
| `SeasonLedger` | what series requests promise: a book of claims, within quotas, changed in single steps | abstract |
| `SeriesRequests` | the requests of one series in one quality, split at every await; implements `SeasonLedger` | `requestcreate.rs`, `requestedit.rs`, `requestwrite.rs`, `mediasave.rs`, `lifecycle.rs`, `db.rs` 276-312 |
| `SeriesRequestsProofs` | the proofs about `SeriesRequests` | |
| `MCJobSlots`, `MCJobExecutor`, `MCJobTimers`, `MCMovieRequests`, `MCDesktop`, `MCSeriesRequests` | the instances that TLC checks | |

`PROJECT.json` has the exact lines of each definition.

### How state and actions correspond to the code

**JobSlots.** `active` counts the entries each id has in `Slots::active` (so that
an id entered twice would show), `used` is the two counters, `place` the position
in `pending`. `Admit` and `Defer` are the two outcomes of `Slots::admit` behind
`Inner::admit`, `Release` is `Slots::release` with its whole drain loop: instead of
the walk, `Drained` says which ids it starts. `Stop` is the slots' part of
`Inner::stop`. All of it is under one mutex, so each is one action.

**JobExecutor.** `phase` is the await a run is at; `runs` the `Run` map with its
two flags; `row` and `count` are `consecutiveFailures` in `job_execution_state` and
the run's copy. Each await can also fail, and a statement that fails may have been
applied. `CancelManaged`, `CancelJob` and `ExecStop` come between any two steps.
`DropRun` is what `stop_jobs` of the desktop app can do to a run: crons spawn a task
for each run, but a catch-up awaits `execute_managed` in its own task, and its abort
drops the run that it awaits there, between its slot and its release. There is one
catch-up to abort and it awaits one run at a time, so at most one run is "dropped".

**JobTimers.** `table` is `scheduledJobs` (kind, next run, generation, which timer
the abort handle belongs to), `timers` the timer tasks of each id, those that were
replaced and are not over yet included. `startJobs()` is two steps, the read of
settings and clock and the replacement of the table under the lock; `timer` is
three: `sleep_until` returns, `set_next`, `invoke`. An abort takes effect where the
task awaits, which is only in its sleep; a timer past it carries on. `caller` is
what a call of `start` read, or what a route has still to write to settings.json.

**MovieRequests.** A task is a handler or a job; `task[t].at` is the await it is at
and the rest of the record its local state: the entity's id and status, the media
status read or planned, the loaded rows still to be saved. The hooks are part of
the save: `Lc::save`, `after_update` (send, then the parent's status),
`approve_children` before a media write, `complete_related` after it. `adding` are
the spawned calls to Radarr. `lock` is `REQUEST_LOCK`. `Ctx::run` awaits a handler
inside its connection, so that a client that hangs up drops it at the await it is at
(`Drop`): what it wrote stays, and the guard of the lock is dropped with it. `Restart`
is the end of the process and its next start, which takes up no request. The code
does leave approved requests behind that way, neither sent nor failed, or beside an
available movie; the history variables tell them from all others: `sent` (Radarr took
the request), `unsent` and `unsettled` (a handler or an add that was still to send it,
or to settle it, was dropped), each since the request was last written, and
`unsettled` since the media was last saved, for that save settles anew.

**InstanceLock.** `stage[p]` is the call of `acquire` that process p is at, `file`
what the path leads to: who created it and whether its pid is written, which are
two calls. `Open` and `Reopen` are the two `create_exclusive`, `Read` to
`RemoveStale` the branch of an existing file. `kill -0` may also find another
program under the pid of a process that is gone (`RefuseReused`). `Leave` is any
end without a release: a crash, `SIGKILL`, or the failed write of the pid. The
refinement maps the owners of `Ownership` to the processes that `acquire` let
through, and to nobody once two starts have crossed (`crossed`): then the code
promises nothing, as `OwnerHasFile` says as well.

**DesktopRuntime.** The statics of `desktop.rs` are variables: `playback`,
`deferred`, `pending` (is `CATCH_UP_PENDING` set), `downloaded`; `stop` is where the
stop task of `control.rs` is, and STOPPING is set once it has begun. `pass[k]` is
one run of `catch_up` after its thirty seconds: the stretch it is at, the jobs it
has still to hand over, the run it waits for. `HandOver` is `execute_managed` of the
next job, with the slots' `Admit` (whose run it waits for, `Await`) and `Defer`; a run ends by the slots' `Release`.
`doomed` is a task whose `AbortHandle` was used while it was not at an await: tokio
drops it at the next one, together with the run it just admitted, whose slot is
then never released (`Dropped`). `missed` stands for the rows of
`job_execution_state` and the clock. `Blank` is the end of the process: everything
but the lock file and the database is gone.

**SeriesRequests.** Tasks and stages as in `MovieRequests`; `st`, `owner` and
`claims` are the request rows with their season rows, whose number is
`tvQuotaUnits`. A task that waits for `REQUEST_LOCK` has done nothing yet and is not
told from one that was not called. The library and Sonarr are choices: which
seasons the media row covers (`ReadOthers`), whether the series is there
(`SendCompletes`), whether and when an add fails (`AddFails`). `Drop` and `Restart`
are those of `MovieRequests`. The refinement maps a
request to its entry in the book; a request that an outdated write revived
(`revived`: declined or completed by then, and set to FAILED or APPROVED by someone
who had loaded it before) is taken out of the book, as the code has no check there.

## 3. What the runs check

| Run | Shows | Instance | States |
|---|---|---|---|
| `job_slots` | limits and counters (`SlotsAccounted`), no idle slot beside a waiting id that fits (`WorkConserving`), `QueueOrder`, no queued id is forgotten (`QueuedStarts`), after a stop no id gets a slot (`StoppedOnlyDrains`), `JobPool` is implemented | 2 heavy and 3 light ids: one more of each than there are slots, so both kinds queue and overtake each other | 2 138 |
| `job_executor` | a slot is held by a run that will release it or by the one that was dropped (`RunsHoldSlots`), a stop reaches all runs, the failure count is fresh, an aborted run is recorded as cancelled, until the stop every slot is released in the end (`ImplementsSlots` with its fairness), and after it all but the dropped run's are (`DrainEnds`) | 2 heavy ids sharing one slot, failures up to 1 | 18 648 |
| `job_timers` | `NextRunFires`: the run shown is the one the only live timer makes; `ShownRunMovesOn`: only a later one follows it, once its moment has come; `ShownRunHappens`: it takes place | 1 job, 2 callers, 3 moments, a cron of all moments and one date, 2 timers, 1 reschedule | 205 658 |
| `movie_requests` | `AvailableSettles`, `ApprovedIsSent`, `CheckStandsUntilInsert`, `LockHeldThroughout`, and `HandlersAdvance`: each step of a handler brings it closer to its end | 2 tasks, 2 requests, 1 add under way per request; media saves to available and deleted, the two that settle requests (creations and hooks make the movie pending, processing and unknown), drops and restarts at any moment | 1 993 920 |
| `movie_ends` | `HandlersEnd`: no handler hangs and `REQUEST_LOCK` is always given back | as above, media saves to available only, no spawned adds | 252 788 |
| `desktop` | `OwnerHasFile`: an owner whose start crossed no other keeps its file; `DrainedStaysIdle`: nothing runs between the drain and the exit; `DeferredIsHandedOver`, `DeferredIsResumed`, `MissedIsHandedOver`, `MissedIsMadeUp`: no job is lost on the way to the executor; `ShutdownEnds`; `Ownership` is implemented | 2 processes over one directory and the file of a third, 1 heavy job that may be deferred or missed, 1 download poll, 1 pass under way and one queued | 100 418 |
| `series_requests` | `ClaimedOnce`, `QuotaKept`, `LockHeldThroughout`, `HandlersAdvance`, and `SeasonLedger` is implemented | 2 tasks, 2 users, 2 seasons, 2 requests, a quota of 1, 1 add under way, drops and restarts at any moment | 1 120 184 |

The bounds are enough for what they are for: two tasks already give every
interleaving of two handlers, and all the properties speak of two parties (a
request's hook and a media save, a timer and what replaces it, a run and the
stop); the theorems of section 5 lift them for the safety properties. `MaxFails`,
`MaxRequests`, `MaxAdds`, `MaxTime`, `MaxTimers` and `MaxGeneration` are guards of
the actions that would go beyond them. `job_timers` needs no second job: jobs only
meet in a start, which treats each by itself. `TaskSymmetry` and `SeriesSymmetry`
are used only in runs without liveness. Deadlock is checked everywhere but in
`movie_ends`, where all requests may be gone and all handlers over, and in
`desktop`, where all processes may be. A quota of one is where a second claim, an
owner that changes and a revived request matter; two seasons let one be shared while
the other is free. In `desktop` no other process lives while the modelled one serves
(`Alone`): they meet at the lock and nowhere else.

### Fairness

* A run's next step, a handler's next step and a timer's next step are weakly
  fair: tokio polls every task that is ready, and the calls to the database, TMDB
  and Radarr return, fail or time out. The slots assume weak fairness of `Release`
  until the stop only, and it is not assumed for the executor but checked of it: the
  stop can drop a run that holds a slot. What the drain owes then is the executor's
  `DrainEnds`: the slots of all other runs are free in the end, so that `idle()`
  resolves unless a run was dropped; `ShutdownEnds` is the deadline's part of it.
* After an abort of the catch-up `ExecStop` is weakly fair: `stop_jobs` goes on to
  `scheduler::stop` without an await.
* Taking `REQUEST_LOCK` is strongly fair: tokio's `Mutex` is first come, first served.
* The clock (`Tick`) is weakly fair.
* In the desktop process the caller of `start_catch_up`, each pass, each run and the
  stop task are weakly fair for the same reason; so are the steps of `acquire`. The
  drain of the HTTP requests (`WoundDown`) is not: `Deadline` is what ends it.
* Nothing is assumed of users, administrators, starts, reschedules, a stop, clients
  that hang up or restarts. The answer of a spawned add is not fair either: no handler
  waits for it.

### Where the code differs from what it says

Each is a run in which TLC finds the counterexample; details are in `findings`. The
three about movies are checked under `ServedSpec`, without drops and restarts, so
that none of them rests on a handler that went away.

* `cancel_managed`: a cancellation between a run's admission and its registration
  finds no `Run`, and the run is recorded as a success.
* `declined_stays`: approve and decline check the status of a loaded entity and
  write several awaits later; a declined request can turn approved.
* `second_open`: the duplicate check looks at the oldest request only; when it is
  declined or completed, a second open request passes. One handler at a time is enough.
* `falls_back`: a removal computes the media's fallback before its transaction and
  without `REQUEST_LOCK`: the status falls back beside an open request.
* `new_server`: `start` reads the settings before it takes the lock; a boot call
  with the old settings can come last and remove the new server's jobs.

## 4. What is left out of the models

* `JobSlots`, `JobExecutor`: the bodies of the jobs; of a row of
  `job_execution_state` all but the failure count.
* `JobTimers`: the calendar. A schedule is the set of its moments, `next_after` the
  least one after the last; time zones, daylight saving and the loop limit of
  `cron.rs` are not modelled. A clock that is set back is not modelled, and the
  settings' read and the clock's read that follows it are one step. A run at once
  (`run_now`) changes nothing of the schedule.
* `JobTimers`, `DesktopRuntime`: handlers that are dropped have no step of their own.
  A caller of `start` that is dropped is one that never goes on, which no fairness of
  `JobTimers` forbids; a reschedule dropped before it wrote settings.json is one whose
  write failed (`SaveFails`). A sign-in dropped at its only await, the read of the
  settings, is in `DesktopRuntime` one that was not made.
* `MovieRequests`: one quality, which every creation names: a body without `is4k` is
  compared with nothing (`same_title`), so that `Check` would not be made for it; the media row exists; no database errors; a
  default Radarr server is configured; each load of several rows is one step; no
  quotas (a refusal is always possible), overrides, blocklist, edits or
  notifications. A request's modifier counts as a change of the row, so a save may
  write although the status is the same.
* `InstanceLock`: a process starts once; directories exist, files of other users and
  contents that are no pid are like a file without one; Windows.
* `DesktopRuntime`: HTTP requests and the server's own drain (it may take as long as
  it wants); when a cron fires (any time); the back-off after a failure beyond that
  it settles what was missed; a second caller of `start_catch_up` beside the first;
  `defer` reads PLAYBACK and extends the list in one step; the runs are the slots'
  only, without the records of `JobExecutor`.
* `SeriesRequests`: the media row and the statuses of seasons, the other quality,
  requests that name no quality (the code compares them with nothing), requests for
  episodes, quota windows and `ignoreQuota`, series without TVDB id, the deletion of
  the media row, database errors once a save has begun.
* The database's transactions are single steps, its isolation is not modelled; a
  dropped one is rolled back.

## 5. What is proved

All theorems hold for every value of the constants that satisfies the named
assumptions: `SlotsAssumption` (finitely many ids, none both heavy and light),
`ExecAssumption` and `MovieAssumption` (bounds are natural numbers, null values
are apart), `LockAssumption`, `DesktopAssumption` and `SeriesAssumption` (the same;
the quota is positive, the seasons are finitely many), `TimersAssumption` (the same, and crons and dates are moments).

| Theorem | Establishes | Argument |
|---|---|---|
| `SlotsTypeCorrect`, `SlotsAreAccounted`, `NothingWaitsThatFits`, `SlotsKeepOrder`, `StoppedSlotsOnlyDrain`, `SlotsImplementPool` | the run's invariants and `JobPool` | `SlotsInv` = types, accounting and work conservation together: that a drain never starts more than it has room for needs to know that what waits is blocked, and that the queue has no gaps; that a stopped scheduler starts nothing needs that nothing is queued then (`StopEmptiesQueue`) |
| `ExecRefinesSlots`, `ExecKeepsSlots`, `ExecImplementsPool`, `ExecKeepsOrder` | the executor's steps are the slots' steps | step by step; with it the slots' theorems hold of the executor: `JobPool`, the order of the queue, the drain after a stop |
| `ExecTypeCorrect`, `RunsAlwaysHoldSlots`, `StopAlwaysReachesRuns`, `CountIsAlwaysFresh`, `AbortedRunsAreCancelled` | the executor's safety: a slot is held by a run under way or by the one dropped run, and no other | `ExecInv` adds that a run past its registration is in the map: the stop only finds ids that hold a slot and are in the map. A dropped run keeps its id active, so that no second run of the id is admitted |
| `TimersTypeCorrectness`, `ShownIsNextRun` | one timer counts and makes the run shown | `TimersInv`: the timers that are not the entry's are aborted and of an older generation. Without the generations it is not inductive, as a timer past its sleep survives its abort |
| `ShownRunsMoveOn` | the run shown is replaced only by a later one | `Woken`: a timer that is past its sleep and still counts has slept until the run that is shown, so that the clock has reached it; then `next_after` of that moment is later. A timer that does not count changes nothing (`TimersInv`) |
| `MovieTypeCorrectness`, `ChecksStand` | types; the check of a creation stands until its insert | `MovieInv`: what a handler remembers fits its stage, and creations past their wait hold the lock |
| `LockIsHeld` (movies) | a creation holds `REQUEST_LOCK` from its wait to its end, and it is never left behind | `LockTended`: who holds the lock creates or runs the hooks of its insert, with no further request loaded; so its last save ends it, and the end gives the lock back, as a drop and a restart do |
| `HandlersAlwaysAdvance` (movies, series) | every step of a handler that is not waiting for the lock brings it closer to its end | `WorkLeft` counts the awaits that a handler can still have: the requests it has still to save weigh more than the hooks of one save, and a hook that saves again takes one step down. Other handlers may change every row in between, so the measure is of the handler's own record only |
| `OutcomeInvariance`, `AvailableSettled`, `ApprovedSent` | what becomes of approved requests, where only a drop or a restart leaves one behind | `Outcome` names for each approved request the task that will still settle it (if the movie is available) and the one that will still send it, unless that one was dropped since the request was last written and, for the settling, the media last saved (`unsettled`, `unsent`); when all tasks are over there is none. No other step adds to the two histories, so neither a failure nor an interleaving is excused |
| `LockTypeCorrect`, `OwnerKeepsFile` | the lock's types; the owner keeps its file | `LockInv`: while no starts cross, at most one process is in `acquire`, and it goes beyond the question whether the pid lives only when there is no owner |
| `LockImplementsOwnership`, `DesktopImplementsOwnership` | `Ownership` is implemented, by the lock alone and in the process that uses it | `LockInv` again: a process becomes owner only when it is alone in `acquire` and nobody owns; each step then maps to `Take`, `Give` or a stutter |
| `DesktopTypeCorrect`, `OwnerKeepsFileInDesktop`, `DrainedStaysIdleForAll`, `DeferredIsHandedOverForAll`, `MissedIsHandedOverForAll`, `DesktopKeepsSlots`, `DesktopKeepsOrder`, `StoppedDesktopOnlyDrains` | types; the lock, the slots, the drain and the deferred and missed jobs in the process that composes the lock and the slots | `DesktopInv`: the invariants of the lock and the slots hold in the composition (`LockMoves`, `SlotMoves`: each step is one of theirs, a failed start, or the end of the process). A drained process stays idle because its scheduler is stopped with nothing queued (`StopHeld`); a pass loses no job because it waits for the job at the head of its list (`PassHeld`) and is doomed only by a stop (`DoomHeld`) |
| `SeriesTypeCorrect`, `LockIsHeld`, `ClaimsAreDisjoint`, `QuotasAreKept`, `SeriesImplementsLedger` | types, the lock, the claims, the quotas, and `SeasonLedger` | `SeriesInv`: what a creation or edit has read stays true until it writes. All other handlers only make the account smaller (`Shrinks`: fewer open requests, fewer that pay), and the only steps that add to it are `Insert` and `Update` of the task that holds the lock |

Every invariant and every action property of the passing runs is stated by one of
these theorems, and so are the refinements of `JobPool`, `Ownership` and
`SeasonLedger`. Only model-checked are the liveness properties and the fairness part
of `ImplementsSlots`, since liveness under fairness and `ENABLED` are out of the
prover's reach, as is induction over data. Where a liveness property has a half
that a single step can violate, that half is an action property of its own, and proved:

| Model-checked | Its proved half |
|---|---|
| `QueuedStarts` | `WorkConserving`, `QueueOrder` |
| `DrainEnds` | `RunsHoldSlots`, `StoppedOnlyDrains` |
| `ImplementsSlots` (fairness) | `ExecRefinesSlots`, `RunsHoldSlots` |
| `ShownRunHappens` | `NextRunFires`, `ShownRunMovesOn` |
| `HandlersEnd` | `HandlersAdvance`, `LockHeldThroughout` |
| `DeferredIsResumed` | `DeferredIsHandedOver` |
| `MissedIsMadeUp` | `MissedIsHandedOver` |
| `ShutdownEnds` | `DrainedStaysIdle`, `StoppedOnlyDrains` |

## 6. Plan

What is left, in this order:

1. Requests for episodes and the episode request sync (`requestepisodes.rs`,
   `jobs/episode_request_sync.rs`) over `SeriesRequests`: a long pass over rows that
   handlers edit, and the partial unique index on ongoing requests. Property: no
   episode requested twice, none lost by a pass.
2. The settling of seasons: the media row with the status of each season in both
   qualities, two media saves at once, the seasons that Sonarr's order leaves out.
   Property: a request whose seasons are all available is completed in the end.
3. `DesktopRuntime` over `JobExecutor` instead of `JobSlots`, with the records of the
   runs.
4. A cache with invalidation, and the refresh of tokens.
