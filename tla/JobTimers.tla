----------------------------- MODULE JobTimers -----------------------------
(***************************************************************************)
(* The schedule of the jobs in jobs/scheduler.rs: the table of scheduled    *)
(* jobs, a timer task for each, and what replaces them while they fire:     *)
(* `startJobs()` at boot and when a media server is set up, a reschedule    *)
(* by an administrator (routes/jobsettings.rs), `stopJobs()`.               *)
(*                                                                          *)
(* An abort reaches a timer task only where it awaits, which is its sleep:  *)
(* a timer whose sleep is over goes on, on another thread, through its two  *)
(* critical sections (`set_next`, then `invoke`) whatever happens to the    *)
(* table in between.  What a timer invokes is JobExecutor's subject.        *)
(***************************************************************************)
EXTENDS Naturals

CONSTANTS CommonJobs,     \* ids scheduled whatever the media server
          ServerJobs,     \* ids scheduled once a media server is configured
          Callers,        \* `startJobs()` calls and schedule routes under way at a time
          Crons,          \* the moments of each cron expression that is tried
          Dates,          \* one-off dates that are tried as a schedule
          MaxTime,        \* bound: moments
          MaxTimers,      \* bound: timer tasks of a job that are not over
          MaxGeneration   \* bound: generations of a job

Jobs == CommonJobs \cup ServerJobs
Times == 1..MaxTime
TimerNos == 1..MaxTimers

ASSUME TimersAssumption == /\ CommonJobs \cap ServerJobs = {}
                           /\ MaxTime \in Nat
                           /\ MaxTimers \in Nat
                           /\ MaxGeneration \in Nat
                           /\ Crons \subseteq SUBSET Times
                           /\ Dates \subseteq Times

\* No next run, no timer.
None == 0

\* A schedule as it is parsed; one with no moment left is a rejected one.
Specs == [kind : {"cron"}, moments : Crons] \cup
         [kind : {"once"}, moments : {{d} : d \in Dates}]

VARIABLES now,        \* the wall clock
          stopped,    \* `stopJobs()` ran
          settings,   \* settings.json: a media server is set, the schedules
          table,      \* `scheduledJobs`
          timers,     \* the timer tasks of each job
          caller,     \* what each call is at, and what it remembers
          ran         \* history: the occurrence last invoked of each job

timerVars == <<now, stopped, settings, table, timers, caller, ran>>

Settings == [server : BOOLEAN, schedule : [Jobs -> Specs]]

Entry == [kind : {"absent", "broken", "ok"},
          next : Times \cup {None},
          generation : 0..MaxGeneration,
          timer : TimerNos \cup {None}]

Absent == [kind |-> "absent", next |-> None, generation |-> 0, timer |-> None]

Ended == [stage |-> "ended"]

Timer == {Ended} \cup
         [stage : {"sleep", "due", "invoke"},
          aborted : BOOLEAN,
          generation : 0..MaxGeneration,
          spec : Specs,
          at : Times]

\* A call reads, then replaces the table; a route saves what it rescheduled.
CallerState == [at : {"idle", "read"}] \cup
               [at : {"table"}, read : Settings, seen : 0..MaxTime] \cup
               [at : {"save"}, job : Jobs, spec : Specs]

-----------------------------------------------------------------------------
\* Helpers

Earliest(S) == IF S = {} THEN None ELSE CHOOSE m \in S : \A n \in S : m <= n

\* `plan`: the first moment of a schedule, seen from a moment.
First(spec, seen) ==
    Earliest({m \in spec.moments : m > seen \/ (m = seen /\ spec.kind = "once")})

\* `Plan::Cron(it) => it.next_after()`, `Plan::Once => None`.
Following(timer) == Earliest({m \in timer.spec.moments : m > timer.at})

\* `AbortHandle::abort`.
Abort(timer) == IF timer.stage \in {"sleep", "ended"} THEN Ended
                ELSE [timer EXCEPT !.aborted = TRUE]

\* The timers of job j once the one in the table is aborted.
Dropped(j) == [i \in TimerNos |-> IF i = table[j].timer THEN Abort(timers[j][i])
                                  ELSE timers[j][i]]

Free(tasks) == {i \in TimerNos : tasks[i] = Ended}
Unused(tasks) == CHOOSE i \in Free(tasks) : TRUE

Spawn(tasks, generation, spec, first) ==
    [tasks EXCEPT ![Unused(tasks)] =
       [stage |-> "sleep", aborted |-> FALSE, generation |-> generation,
        spec |-> spec, at |-> first]]

-----------------------------------------------------------------------------
\* `startJobs()`: the settings and the clock are read, then the table is
\* replaced under the lock.

Idle == [at |-> "idle"]

\* At boot, and when the desktop's playback or start-up delay is over.
Call(c) == /\ caller[c] = Idle
           /\ caller' = [caller EXCEPT ![c] = [at |-> "read"]]
           /\ UNCHANGED <<now, stopped, settings, table, timers, ran>>

\* A sign-in sets the media server up and starts the jobs again.
SetServerUp(c) == /\ caller[c] = Idle
                  /\ ~settings.server
                  /\ settings' = [settings EXCEPT !.server = TRUE]
                  /\ caller' = [caller EXCEPT ![c] = [at |-> "read"]]
                  /\ UNCHANGED <<now, stopped, table, timers, ran>>

ReadSettings(c) ==
    /\ caller[c].at = "read"
    /\ caller' = [caller EXCEPT ![c] = [at |-> "table", read |-> settings, seen |-> now]]
    /\ UNCHANGED <<now, stopped, settings, table, timers, ran>>

\* Unable to read settings to start the jobs.
ReadFails(c) == /\ caller[c].at = "read"
                /\ caller' = [caller EXCEPT ![c] = Idle]
                /\ UNCHANGED <<now, stopped, settings, table, timers, ran>>

JobsFor(read) == IF read.server THEN Jobs ELSE CommonJobs

\* Mutant: a job that is scheduled again keeps its generation.
SameGeneration(j) == table[j].generation

\* `drop_schedule`, and 0 for an id that was not in the table.
NextGeneration(j) == IF table[j].kind = "absent" THEN 0 ELSE table[j].generation + 1

Planned(j, spec, seen) ==
    LET first == First(spec, seen) IN
    [kind |-> IF first = None THEN "broken" ELSE "ok",
     next |-> first,
     generation |-> NextGeneration(j),
     timer |-> IF first = None THEN None ELSE Unused(Dropped(j))]

\* Bounds: a free timer and a generation for every job.
Schedule(c) ==
    LET read == caller[c].read
        seen == caller[c].seen
        spec(j) == read.schedule[j]
    IN /\ caller[c].at = "table"
       /\ ~stopped
       /\ \A j \in Jobs : Free(Dropped(j)) # {} /\ NextGeneration(j) <= MaxGeneration
       /\ table' = [j \in Jobs |-> IF j \in JobsFor(read) THEN Planned(j, spec(j), seen)
                                   ELSE Absent]
       /\ timers' = [j \in Jobs |->
                       IF j \in JobsFor(read) /\ First(spec(j), seen) # None
                       THEN Spawn(Dropped(j), NextGeneration(j), spec(j), First(spec(j), seen))
                       ELSE Dropped(j)]
       /\ caller' = [caller EXCEPT ![c] = Idle]
       /\ UNCHANGED <<now, stopped, settings, ran>>

ScheduleStopped(c) == /\ caller[c].at = "table"
                      /\ stopped
                      /\ caller' = [caller EXCEPT ![c] = Idle]
                      /\ UNCHANGED <<now, stopped, settings, table, timers, ran>>

-----------------------------------------------------------------------------
\* `POST /settings/jobs/{id}/schedule`: `reschedule`, then the route's write.
\* The clock is read before the lock is taken.

Renewed(j) == [table[j] EXCEPT !.generation = @ + 1, !.timer = None]

Reschedule(c, j, spec, seen) ==
    /\ caller[c] = Idle
    /\ table[j].kind = "ok"
    /\ table[j].generation < MaxGeneration
    /\ First(spec, seen) # None
    /\ Free(Dropped(j)) # {}
    /\ table' = [table EXCEPT ![j] = [Renewed(j) EXCEPT !.next = First(spec, seen),
                                                        !.timer = Unused(Dropped(j))]]
    /\ timers' = [timers EXCEPT ![j] = Spawn(Dropped(j), Renewed(j).generation, spec,
                                             First(spec, seen))]
    /\ caller' = [caller EXCEPT ![c] = [at |-> "save", job |-> j, spec |-> spec]]
    /\ UNCHANGED <<now, stopped, settings, ran>>

\* 400: the old timer is gone all the same, the old next run still shown.
RescheduleRejected(j, spec, seen) ==
    /\ table[j].kind = "ok"
    /\ table[j].generation < MaxGeneration
    /\ First(spec, seen) = None
    /\ table' = [table EXCEPT ![j] = Renewed(j)]
    /\ timers' = [timers EXCEPT ![j] = Dropped(j)]
    /\ UNCHANGED <<now, stopped, settings, caller, ran>>

SaveSchedule(c) == /\ caller[c].at = "save"
                   /\ caller' = [caller EXCEPT ![c] = Idle]
                   /\ settings' = [settings EXCEPT !.schedule[caller[c].job] = caller[c].spec]
                   /\ UNCHANGED <<now, stopped, table, timers, ran>>

SaveFails(c) == /\ caller[c].at = "save"
                /\ caller' = [caller EXCEPT ![c] = Idle]
                /\ UNCHANGED <<now, stopped, settings, table, timers, ran>>

-----------------------------------------------------------------------------
\* `timer`

\* `sleep_until` is over.
Wake(j, i) == /\ timers[j][i].stage = "sleep"
              /\ timers[j][i].at <= now
              /\ timers' = [timers EXCEPT ![j][i].stage = "due"]
              /\ UNCHANGED <<now, stopped, settings, table, caller, ran>>

\* Mutant: a timer that was replaced while it fired still sets the next run.
SetNextStale(j, i) ==
    LET timer == timers[j][i] IN
    /\ timer.stage = "due"
    /\ table[j].kind # "absent"
    /\ table' = [table EXCEPT ![j].next = Following(timer)]
    /\ timers' = [timers EXCEPT ![j][i].stage = "invoke"]
    /\ UNCHANGED <<now, stopped, settings, caller, ran>>

\* `set_next`: the table shows the next occurrence, unless the timer is stale.
SetNext(j, i) ==
    LET timer == timers[j][i] IN
    /\ timer.stage = "due"
    /\ table[j].kind # "absent"
    /\ table[j].generation = timer.generation
    /\ table' = [table EXCEPT ![j].next = Following(timer)]
    /\ timers' = [timers EXCEPT ![j][i].stage = "invoke"]
    /\ UNCHANGED <<now, stopped, settings, caller, ran>>

Stale(j, i) ==
    LET timer == timers[j][i] IN
    /\ timer.stage = "due"
    /\ table[j].kind = "absent" \/ table[j].generation # timer.generation
    /\ timers' = [timers EXCEPT ![j][i] = Ended]
    /\ UNCHANGED <<now, stopped, settings, table, caller, ran>>

\* Mutant: the timer ends with its first occurrence.
InvokeOnce(j, i) ==
    LET timer == timers[j][i] IN
    /\ timer.stage = "invoke"
    /\ ran' = IF stopped THEN ran ELSE [ran EXCEPT ![j] = timer.at]
    /\ timers' = [timers EXCEPT ![j][i] = Ended]
    /\ UNCHANGED <<now, stopped, settings, table, caller>>

\* Mutant: a timer without a following occurrence goes on.
InvokeForever(j, i) ==
    LET timer == timers[j][i] IN
    /\ timer.stage = "invoke"
    /\ ran' = IF stopped THEN ran ELSE [ran EXCEPT ![j] = timer.at]
    /\ timers' = [timers EXCEPT ![j][i] =
                    IF timer.aborted THEN Ended
                    ELSE [timer EXCEPT !.stage = "sleep", !.at = Following(timer)]]
    /\ UNCHANGED <<now, stopped, settings, table, caller>>

\* `invoke`, then the timer sleeps again: there an abort takes effect, unless
\* the following occurrence is over already and `sleep_until` returns at once.
Invoke(j, i) ==
    LET timer == timers[j][i]
        following == Following(timer)
    IN /\ timer.stage = "invoke"
       /\ ran' = IF stopped THEN ran ELSE [ran EXCEPT ![j] = timer.at]
       /\ timers' = [timers EXCEPT ![j][i] =
                       IF following = None \/ (timer.aborted /\ following > now) THEN Ended
                       ELSE [timer EXCEPT !.stage = "sleep", !.at = following]]
       /\ UNCHANGED <<now, stopped, settings, table, caller>>

-----------------------------------------------------------------------------

\* `stopJobs()`
Stop == /\ ~stopped
        /\ stopped' = TRUE
        /\ table' = [j \in Jobs |-> Absent]
        /\ timers' = [j \in Jobs |-> Dropped(j)]
        /\ UNCHANGED <<now, settings, caller, ran>>

Tick == /\ now < MaxTime
        /\ now' = now + 1
        /\ UNCHANGED <<stopped, settings, table, timers, caller, ran>>

TimersInit == /\ now = 0
              /\ stopped = FALSE
              /\ settings \in [server : {FALSE}, schedule : [Jobs -> Specs]]
              /\ table = [j \in Jobs |-> Absent]
              /\ timers = [j \in Jobs |-> [i \in TimerNos |-> Ended]]
              /\ caller = [c \in Callers |-> Idle]
              /\ ran = [j \in Jobs |-> None]

CallerStep(c) == \/ ReadSettings(c) \/ ReadFails(c) \/ Schedule(c) \/ ScheduleStopped(c)
                 \/ SaveSchedule(c) \/ SaveFails(c)

Administrator(c, j) == \E spec \in Specs, seen \in 0..now :
                         Reschedule(c, j, spec, seen) \/ RescheduleRejected(j, spec, seen)

TimerStep(j, i) == Wake(j, i) \/ SetNext(j, i) \/ Stale(j, i) \/ Invoke(j, i)

TimersNext == \/ \E c \in Callers : \/ Call(c) \/ SetServerUp(c) \/ CallerStep(c)
                                    \/ \E j \in Jobs : Administrator(c, j)
              \/ \E j \in Jobs, i \in TimerNos : TimerStep(j, i)
              \/ Stop
              \/ Tick

TimersSpec == TimersInit /\ [][TimersNext]_timerVars

\* Time passes, and a task that sleeps to a moment wakes at it.
FairTimersSpec == /\ TimersSpec
                  /\ WF_timerVars(Tick)
                  /\ \A j \in Jobs, i \in TimerNos : WF_timerVars(TimerStep(j, i))

-----------------------------------------------------------------------------
\* Properties

TimersTypeOK == /\ now \in 0..MaxTime
                /\ stopped \in BOOLEAN
                /\ settings \in Settings
                /\ table \in [Jobs -> Entry]
                /\ timers \in [Jobs -> [TimerNos -> Timer]]
                /\ caller \in [Callers -> CallerState]
                /\ ran \in [Jobs -> Times \cup {None}]

\* What a timer task that is not aborted will still do for its job.
Upcoming(timer) == IF timer.stage = "ended" THEN None
                   ELSE IF timer.stage = "invoke" THEN Following(timer)
                   ELSE timer.at

\* The run that a job shows as its next one is the one its timer will make, and
\* no other timer of the job is left, whatever replaced it while it was firing.
NextRunFires ==
    \A j \in CommonJobs :
      /\ table[j].timer # None => Upcoming(timers[j][table[j].timer]) = table[j].next
      /\ \A i \in TimerNos : \/ i = table[j].timer
                             \/ timers[j][i] = Ended
                             \/ timers[j][i].aborted

\* The job is scheduled as it was: not dropped, started again or rescheduled.
SameSchedule(j) == /\ "absent" \notin {table[j].kind, table'[j].kind}
                   /\ table'[j].generation = table[j].generation

\* As long as a job stays scheduled as it is, the run it shows is replaced only
\* once its moment has come, and by a later one or none: no timer that was
\* replaced while it fired brings an earlier run back or skips one.
Outdates(old, new) == old \in 1..now /\ (new = None \/ old < new)

ShownRunMovesOn ==
    [][\A j \in CommonJobs :
         SameSchedule(j) => \/ table'[j].next = table[j].next
                            \/ Outdates(table[j].next, table'[j].next)]_timerVars

\* A run that is shown and has its timer takes place, unless the job is
\* rescheduled or the jobs are started again or stopped.
ShownRunHappens ==
    \A j \in CommonJobs : \A m \in Times : \A g \in 0..MaxGeneration :
      /\ table[j].timer # None
      /\ table[j].next = m
      /\ table[j].generation = g
      ~> ran[j] = m \/ table[j].generation # g \/ table[j].timer = None

-----------------------------------------------------------------------------
\* What the documentation says

\* "A later call (a media server was set up after boot) drops the jobs scheduled
\* before and schedules them again, for the new server" (doc of start): the new
\* server's jobs, once scheduled, are not dropped again for the old one.
NewServerStays ==
    [][\A j \in ServerJobs : /\ table[j].kind # "absent"
                             /\ table'[j].kind = "absent"
                             => stopped']_timerVars
=============================================================================
