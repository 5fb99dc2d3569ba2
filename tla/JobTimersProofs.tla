-------------------------- MODULE JobTimersProofs --------------------------
(***************************************************************************)
(* Proofs about the schedule, for all job tables, crons, callers and bounds. *)
(*                                                                          *)
(* That the run a job shows is the one its timer makes is not inductive: a   *)
(* timer that is past its sleep when its job is rescheduled still reaches    *)
(* the table.  It is kept off by its generation, so the invariant says that  *)
(* only the timer of the table carries the table's generation.               *)
(***************************************************************************)
EXTENDS JobTimers, WellFoundedInduction, TLAPS

\* The timer of an entry will make the run it shows; the others were aborted
\* and are of an older generation.
Tracked(tasks, entry, over) ==
    /\ entry.kind = "absent" => entry.timer = None
    /\ entry.timer # None => Upcoming(tasks[entry.timer]) = entry.next
    /\ \A i \in TimerNos : tasks[i].stage # "ended" =>
         /\ entry.kind = "absent" => over
         /\ i = entry.timer => /\ ~tasks[i].aborted
                               /\ tasks[i].generation = entry.generation
         /\ i # entry.timer => tasks[i].aborted
         /\ i # entry.timer /\ entry.kind # "absent" =>
              tasks[i].generation < entry.generation

TimersInv == /\ TimersTypeOK
             /\ \A j \in CommonJobs : Tracked(timers[j], table[j], stopped)

\* What is left once the timer of an entry is aborted.
Loose(tasks, entry, over) ==
    \A i \in TimerNos : tasks[i].stage # "ended" =>
      /\ tasks[i].aborted
      /\ entry.kind = "absent" => over
      /\ entry.kind # "absent" => tasks[i].generation <= entry.generation

-----------------------------------------------------------------------------
(* Moments *)

\* The earliest of some moments is one of them.
LEMMA EarliestIn ==
    ASSUME NEW S, S \subseteq Times
    PROVE  Earliest(S) \in S \cup {None} /\ (S # {} => Earliest(S) \in S)
<1>1. CASE S = {}
  BY <1>1 DEF Earliest
<1>2. CASE S # {}
  <2> DEFINE R == {p \in Nat \X Nat : p[1] < p[2]}
  <2>1. IsWellFoundedOn(R, Nat)
    BY NatLessThanWellFounded DEF OpToRel
  <2>2. S \subseteq Nat
    BY TimersAssumption DEF Times
  <2>3. \E m \in S : \A n \in S : <<n, m>> \notin R
    <3> HIDE DEF R
    <3> QED BY <1>2, <2>1, <2>2, WFMin
  <2>4. PICK m \in S : \A n \in S : <<n, m>> \notin R
    BY <2>3
  <2>5. ASSUME NEW n \in S PROVE m <= n
    <3>1. n \in Nat /\ m \in Nat /\ <<n, m>> \in Nat \X Nat
      BY <2>2, <2>4, <2>5
    <3>2. ~ (<<n, m>>[1] < <<n, m>>[2])
      BY <2>4, <2>5, <3>1, Zenon
    <3>3. QED BY <3>1, <3>2
  <2>6. QED BY <1>2, <2>4, <2>5 DEF Earliest
<1>3. QED BY <1>1, <1>2

LEMMA SpecMoments == ASSUME NEW spec \in Specs PROVE spec.moments \subseteq Times
BY TimersAssumption DEF Specs

\* None is no moment and no timer's number.
LEMMA NoneApart == None \notin Times /\ None \notin TimerNos
BY TimersAssumption DEF None, Times, TimerNos

LEMMA FirstType ==
    ASSUME NEW spec \in Specs, NEW seen
    PROVE  First(spec, seen) \in Times \cup {None}
BY EarliestIn, SpecMoments DEF First

LEMMA FollowingType ==
    ASSUME NEW timer \in Timer, timer # Ended
    PROVE  Following(timer) \in Times \cup {None}
<1>1. timer.spec \in Specs
  BY DEF Timer
<1>2. QED BY <1>1, EarliestIn, SpecMoments DEF Following

\* A timer that is not over has all its fields; the fields of an aborted one.
LEMMA TimerFields ==
    ASSUME NEW timer \in Timer
    PROVE  /\ timer.stage = "ended" <=> timer = Ended
           /\ timer.stage # "ended" =>
                /\ timer.stage \in {"sleep", "due", "invoke"}
                /\ timer.aborted \in BOOLEAN
                /\ timer.generation \in 0..MaxGeneration
                /\ timer.spec \in Specs
                /\ timer.at \in Times
BY DEF Timer, Ended

LEMMA AbortType ==
    ASSUME NEW timer \in Timer
    PROVE  /\ Abort(timer) \in Timer
           /\ Abort(timer).stage # "ended" =>
                /\ timer.stage # "ended"
                /\ Abort(timer).aborted
                /\ Abort(timer).generation = timer.generation
<1>1. CASE timer.stage \in {"sleep", "ended"}
  BY <1>1 DEF Abort, Timer, Ended
<1>2. CASE timer.stage \notin {"sleep", "ended"}
  <2>1. Abort(timer) = [stage |-> timer.stage, aborted |-> TRUE,
                        generation |-> timer.generation, spec |-> timer.spec,
                        at |-> timer.at]
    <3>1. Abort(timer) = [timer EXCEPT !.aborted = TRUE]
      BY <1>2 DEF Abort
    <3>2. timer \in [stage : {"sleep", "due", "invoke"}, aborted : BOOLEAN,
                     generation : 0..MaxGeneration, spec : Specs, at : Times]
      BY <1>2 DEF Timer, Ended
    <3>3. QED BY <3>1, <3>2
  <2>2. QED BY <1>2, <2>1, TimerFields DEF Timer
<1>3. QED BY <1>1, <1>2

-----------------------------------------------------------------------------
(* Aborting and spawning *)

LEMMA DropLeavesLoose ==
    ASSUME TimersTypeOK, NEW j \in Jobs
    PROVE  /\ Dropped(j) \in [TimerNos -> Timer]
           /\ Tracked(timers[j], table[j], stopped) =>
                Loose(Dropped(j), table[j], stopped)
<1>1. timers[j] \in [TimerNos -> Timer] /\ table[j] \in Entry
  BY DEF TimersTypeOK
<1>2. \A i \in TimerNos : Dropped(j)[i] = IF i = table[j].timer THEN Abort(timers[j][i])
                                          ELSE timers[j][i]
  BY DEF Dropped
<1>3. Dropped(j) \in [TimerNos -> Timer]
  BY <1>1, AbortType DEF Dropped
<1>4. ASSUME Tracked(timers[j], table[j], stopped), NEW i \in TimerNos,
             Dropped(j)[i].stage # "ended"
      PROVE  /\ Dropped(j)[i].aborted
             /\ table[j].kind = "absent" => stopped
             /\ table[j].kind # "absent" =>
                  Dropped(j)[i].generation <= table[j].generation
  <2>1. table[j].generation \in Nat /\ timers[j][i] \in Timer
    BY <1>1, TimersAssumption DEF Entry
  <2>2. CASE i = table[j].timer
    <3>1. Dropped(j)[i] = Abort(timers[j][i])
      BY <1>2, <2>2
    <3>2. QED BY <1>4, <2>1, <2>2, <3>1, AbortType DEF Tracked
  <2>3. CASE i # table[j].timer
    <3>1. Dropped(j)[i] = timers[j][i]
      BY <1>2, <2>3
    <3>2. timers[j][i].generation \in Nat
      BY <1>4, <2>1, <3>1, TimerFields, TimersAssumption
    <3>3. QED BY <1>4, <2>1, <2>3, <3>1, <3>2 DEF Tracked
  <2>4. QED BY <2>2, <2>3
<1>5. QED BY <1>3, <1>4 DEF Loose

\* A new timer takes a number that is free, and nothing else changes.
LEMMA SpawnType ==
    ASSUME NEW tasks \in [TimerNos -> Timer], Free(tasks) # {},
           NEW generation \in 0..MaxGeneration, NEW spec \in Specs, NEW first \in Times
    PROVE  /\ Unused(tasks) \in TimerNos
           /\ Spawn(tasks, generation, spec, first) \in [TimerNos -> Timer]
           /\ Spawn(tasks, generation, spec, first)[Unused(tasks)]
                = [stage |-> "sleep", aborted |-> FALSE, generation |-> generation,
                   spec |-> spec, at |-> first]
           /\ \A i \in TimerNos \ {Unused(tasks)} :
                Spawn(tasks, generation, spec, first)[i] = tasks[i]
<1> DEFINE new == [stage |-> "sleep", aborted |-> FALSE, generation |-> generation,
                   spec |-> spec, at |-> first]
<1>1. Unused(tasks) \in TimerNos
  BY DEF Unused, Free
<1>2. new \in Timer
  BY DEF Timer
<1>3. Spawn(tasks, generation, spec, first) = [tasks EXCEPT ![Unused(tasks)] = new]
  BY DEF Spawn
<1> HIDE DEF new
<1>4. /\ Spawn(tasks, generation, spec, first) \in [TimerNos -> Timer]
      /\ Spawn(tasks, generation, spec, first)[Unused(tasks)] = new
      /\ \A i \in TimerNos \ {Unused(tasks)} :
           Spawn(tasks, generation, spec, first)[i] = tasks[i]
  BY <1>1, <1>2, <1>3
<1>5. QED BY <1>1, <1>4 DEF new

\* The new timer is the one of its entry when no older one has its generation.
LEMMA SpawnTracked ==
    ASSUME NEW tasks \in [TimerNos -> Timer], Free(tasks) # {},
           NEW generation \in 0..MaxGeneration, NEW spec \in Specs, NEW first \in Times,
           NEW entry \in Entry, NEW over,
           entry.kind # "absent", entry.next = first,
           entry.generation = generation, entry.timer = Unused(tasks),
           \A i \in TimerNos : tasks[i].stage # "ended" =>
             tasks[i].aborted /\ tasks[i].generation < generation
    PROVE  Tracked(Spawn(tasks, generation, spec, first), entry, over)
<1> DEFINE after == Spawn(tasks, generation, spec, first)
<1>1. /\ Unused(tasks) \in TimerNos
      /\ after[Unused(tasks)] = [stage |-> "sleep", aborted |-> FALSE,
                                 generation |-> generation, spec |-> spec, at |-> first]
      /\ \A i \in TimerNos \ {Unused(tasks)} : after[i] = tasks[i]
  BY SpawnType
<1> HIDE DEF after
<1>2. Upcoming(after[entry.timer]) = entry.next
  BY <1>1 DEF Upcoming
<1>3. ASSUME NEW i \in TimerNos, after[i].stage # "ended"
      PROVE  /\ i = entry.timer => ~after[i].aborted /\ after[i].generation = entry.generation
             /\ i # entry.timer => after[i].aborted /\ after[i].generation < entry.generation
  <2>1. CASE i = entry.timer
    BY <1>1, <2>1
  <2>2. CASE i # entry.timer
    BY <1>1, <1>3, <2>2
  <2>3. QED BY <2>1, <2>2
<1>4. Tracked(after, entry, over)
  BY <1>2, <1>3 DEF Tracked
<1>5. QED BY <1>4 DEF after

\* An entry without a timer, once its generation is past those left.
LEMMA LooseTracked ==
    ASSUME NEW tasks \in [TimerNos -> Timer], NEW entry \in Entry, NEW over,
           entry.timer = None,
           \A i \in TimerNos : tasks[i].stage # "ended" =>
             /\ tasks[i].aborted
             /\ entry.kind = "absent" => over
             /\ entry.kind # "absent" => tasks[i].generation < entry.generation
    PROVE  Tracked(tasks, entry, over)
BY NoneApart DEF Tracked

-----------------------------------------------------------------------------
(* The invariant, step by step *)

\* At first no job is in the table and no timer is there.
LEMMA TimersInitInv == TimersInit => TimersInv
<1> SUFFICES ASSUME TimersInit PROVE TimersInv
  OBVIOUS
<1>1. TimersTypeOK
  <2>1. Absent \in Entry /\ Ended \in Timer /\ Idle \in CallerState
    BY TimersAssumption DEF Absent, Entry, Timer, Ended, Idle, CallerState, None
  <2>2. settings \in Settings /\ now \in 0..MaxTime
    <3>1. {FALSE} \subseteq BOOLEAN
      OBVIOUS
    <3>2. [server : {FALSE}, schedule : [Jobs -> Specs]] \subseteq Settings
      BY <3>1, Zenon DEF Settings
    <3>3. now \in 0..MaxTime
      BY TimersAssumption DEF TimersInit
    <3>4. QED BY <3>2, <3>3 DEF TimersInit
  <2>3. /\ table \in [Jobs -> Entry] /\ timers \in [Jobs -> [TimerNos -> Timer]]
        /\ caller \in [Callers -> CallerState] /\ ran \in [Jobs -> Times \cup {None}]
    BY <2>1 DEF TimersInit
  <2>4. QED BY <2>2, <2>3 DEF TimersInit, TimersTypeOK
<1>2. ASSUME NEW j \in CommonJobs PROVE Tracked(timers[j], table[j], stopped)
  BY DEF TimersInit, Tracked, Absent, Ended, Jobs
<1>3. QED BY <1>1, <1>2 DEF TimersInv

\* What only touches the clock, the settings or the memory of a call.
LEMMA MemoryStep ==
    ASSUME TimersInv, UNCHANGED <<stopped, table, timers, ran>>,
           now' \in 0..MaxTime, settings' \in Settings,
           caller' \in [Callers -> CallerState]
    PROVE  TimersInv'
BY DEF TimersInv, TimersTypeOK

LEMMA CallerKeeps ==
    ASSUME TimersInv, NEW c \in Callers,
           Call(c) \/ SetServerUp(c) \/ ReadSettings(c) \/ ReadFails(c)
             \/ ScheduleStopped(c) \/ SaveSchedule(c) \/ SaveFails(c)
    PROVE  TimersInv'
<1>1. /\ now \in 0..MaxTime /\ settings \in Settings
      /\ caller \in [Callers -> CallerState] /\ caller[c] \in CallerState
  BY DEF TimersInv, TimersTypeOK
<1>2. Idle \in CallerState /\ [at |-> "read"] \in CallerState
  BY DEF Idle, CallerState
<1>3. CASE Call(c) \/ ReadFails(c) \/ ScheduleStopped(c) \/ SaveFails(c)
  BY <1>1, <1>2, <1>3, MemoryStep DEF Call, ReadFails, ScheduleStopped, SaveFails
<1>4. CASE SetServerUp(c)
  <2>1. settings' \in Settings
    BY <1>1, <1>4 DEF SetServerUp, Settings
  <2>2. QED BY <1>1, <1>2, <1>4, <2>1, MemoryStep DEF SetServerUp
<1>5. CASE ReadSettings(c)
  <2>1. [at |-> "table", read |-> settings, seen |-> now] \in CallerState
    BY <1>1 DEF CallerState
  <2>2. QED BY <1>1, <1>5, <2>1, MemoryStep DEF ReadSettings
<1>6. CASE SaveSchedule(c)
  <2>1. caller[c].job \in Jobs /\ caller[c].spec \in Specs
    BY <1>1, <1>6 DEF SaveSchedule, CallerState
  <2>2. settings' \in Settings
    BY <1>1, <1>6, <2>1 DEF SaveSchedule, Settings
  <2>3. QED BY <1>1, <1>2, <1>6, <2>2, MemoryStep DEF SaveSchedule
<1>7. QED BY <1>3, <1>4, <1>5, <1>6

LEMMA TickKeeps == ASSUME TimersInv, Tick PROVE TimersInv'
<1>1. now' \in 0..MaxTime
  BY TimersAssumption DEF Tick, TimersInv, TimersTypeOK
<1>2. QED BY <1>1, MemoryStep DEF Tick, TimersInv, TimersTypeOK

\* After a stop no entry is left; the timers that are not over were aborted.
LEMMA StopKeeps == ASSUME TimersInv, Stop PROVE TimersInv'
<1>1. ASSUME NEW j \in Jobs
      PROVE  /\ timers'[j] = Dropped(j) /\ table'[j] = Absent
             /\ Dropped(j) \in [TimerNos -> Timer]
  BY DropLeavesLoose DEF Stop, TimersInv
<1>2. Absent \in Entry
  BY TimersAssumption DEF Absent, Entry, None
<1>3. TimersTypeOK'
  <2>1. table' \in [Jobs -> Entry] /\ timers' \in [Jobs -> [TimerNos -> Timer]]
    BY <1>1, <1>2 DEF Stop
  <2>2. QED BY <2>1 DEF Stop, TimersInv, TimersTypeOK
<1>4. ASSUME NEW j \in CommonJobs PROVE Tracked(timers'[j], table'[j], stopped')
  <2>1. j \in Jobs /\ stopped'
    BY DEF Jobs, Stop
  <2>2. Loose(Dropped(j), table[j], stopped)
    BY <2>1, DropLeavesLoose DEF TimersInv
  <2>3. Absent.timer = None /\ Absent.kind = "absent"
    BY DEF Absent
  <2>4. Tracked(Dropped(j), Absent, stopped')
    BY <1>1, <1>2, <2>1, <2>2, <2>3, LooseTracked DEF Loose
  <2>5. QED BY <1>1, <2>1, <2>4
<1>5. QED BY <1>3, <1>4 DEF TimersInv

\* A job that is planned again: its entry, its timers and what they do.
LEMMA ScheduleKeeps == ASSUME TimersInv, NEW c \in Callers, Schedule(c) PROVE TimersInv'
<1> DEFINE read == caller[c].read
           seen == caller[c].seen
           spec(j) == read.schedule[j]
           first(j) == First(spec(j), seen)
           generation(j) == NextGeneration(j)
           planned(j) == Planned(j, spec(j), seen)
<1>1. caller[c].at = "table" /\ caller[c] \in CallerState
  BY DEF Schedule, TimersInv, TimersTypeOK
<1>2. read \in Settings
  BY <1>1 DEF CallerState
<1>3. ASSUME NEW j \in Jobs
      PROVE  /\ spec(j) \in Specs
             /\ first(j) \in Times \cup {None}
             /\ table[j] \in Entry
             /\ Dropped(j) \in [TimerNos -> Timer]
             /\ Free(Dropped(j)) # {}
             /\ generation(j) \in 0..MaxGeneration
             /\ table[j].kind # "absent" => generation(j) = table[j].generation + 1
             /\ table[j].kind # "absent" => table[j].generation \in Nat
  <2>1. spec(j) \in Specs
    BY <1>2 DEF Settings
  <2>2. table[j] \in Entry
    BY DEF TimersInv, TimersTypeOK
  <2>3. /\ NextGeneration(j) <= MaxGeneration /\ Free(Dropped(j)) # {}
        /\ NextGeneration(j) \in Nat
    BY <2>2, TimersAssumption DEF Schedule, NextGeneration, Entry
  <2>4. QED BY <2>1, <2>2, <2>3, FirstType, DropLeavesLoose, TimersAssumption
            DEF TimersInv, NextGeneration, Entry
<1>4. \A j \in CommonJobs : j \in Jobs /\ j \in JobsFor(read)
  BY DEF Jobs, JobsFor
<1>5. /\ table' = [j \in Jobs |-> IF j \in JobsFor(read) THEN planned(j) ELSE Absent]
      /\ timers' = [j \in Jobs |->
                      IF j \in JobsFor(read) /\ first(j) # None
                      THEN Spawn(Dropped(j), generation(j), spec(j), first(j))
                      ELSE Dropped(j)]
      /\ stopped' = stopped /\ ~stopped
  BY DEF Schedule
<1>6. \A j \in Jobs :
        planned(j) = [kind |-> IF first(j) = None THEN "broken" ELSE "ok",
                      next |-> first(j), generation |-> generation(j),
                      timer |-> IF first(j) = None THEN None ELSE Unused(Dropped(j))]
  BY DEF Planned
<1>7. caller' \in [Callers -> CallerState] /\ UNCHANGED <<now, stopped, settings, ran>>
  BY DEF Schedule, Idle, CallerState, TimersInv, TimersTypeOK
<1> HIDE DEF read, seen, spec, first, generation, planned
<1>8. ASSUME NEW j \in Jobs
      PROVE  /\ planned(j) \in Entry
             /\ first(j) # None =>
                  Spawn(Dropped(j), generation(j), spec(j), first(j)) \in [TimerNos -> Timer]
  <2>1. CASE first(j) = None
    BY <1>3, <1>6, <2>1 DEF Entry
  <2>2. CASE first(j) # None
    <3>1. first(j) \in Times
      BY <1>3, <2>2
    <3>2. /\ Unused(Dropped(j)) \in TimerNos
          /\ Spawn(Dropped(j), generation(j), spec(j), first(j)) \in [TimerNos -> Timer]
      BY <1>3, <3>1, SpawnType
    <3>3. planned(j) = [kind |-> "ok", next |-> first(j), generation |-> generation(j),
                        timer |-> Unused(Dropped(j))]
      BY <1>6, <2>2
    <3>4. QED BY <1>3, <3>1, <3>2, <3>3 DEF Entry
  <2>3. QED BY <2>1, <2>2
<1>9. TimersTypeOK'
  <2>1. Absent \in Entry
    BY TimersAssumption DEF Absent, Entry, None
  <2>2. table' \in [Jobs -> Entry]
    BY <1>5, <1>8, <2>1
  <2>3. timers' \in [Jobs -> [TimerNos -> Timer]]
    BY <1>3, <1>5, <1>8
  <2>4. QED BY <1>7, <2>2, <2>3 DEF TimersInv, TimersTypeOK
<1>10. ASSUME NEW j \in CommonJobs PROVE Tracked(timers'[j], table'[j], stopped')
  <2>1. j \in Jobs /\ table'[j] = planned(j)
    BY <1>4, <1>5
  <2>2. Loose(Dropped(j), table[j], stopped)
    BY <2>1, DropLeavesLoose DEF TimersInv
  <2>3. ASSUME NEW i \in TimerNos, Dropped(j)[i].stage # "ended"
        PROVE  Dropped(j)[i].aborted /\ Dropped(j)[i].generation < generation(j)
    <3>1. Dropped(j)[i].aborted /\ table[j].kind # "absent"
            /\ Dropped(j)[i].generation <= table[j].generation
      BY <1>5, <2>2, <2>3 DEF Loose
    <3>2. Dropped(j)[i] \in Timer
      BY <1>3, <2>1
    <3>3. Dropped(j)[i].generation \in Nat
      BY <2>3, <3>2, TimerFields, TimersAssumption
    <3>4. Dropped(j)[i].generation < generation(j)
      BY <1>3, <2>1, <3>1, <3>3
    <3>5. QED BY <3>1, <3>4
  <2>4. planned(j) \in Entry /\ planned(j).kind # "absent"
    BY <1>6, <1>8, <2>1
  <2>5. CASE first(j) = None
    <3>1. timers'[j] = Dropped(j) /\ planned(j).timer = None
            /\ planned(j).generation = generation(j)
      BY <1>5, <1>6, <2>1, <2>5
    <3>2. QED BY <1>3, <2>1, <2>3, <2>4, <3>1, LooseTracked
  <2>6. CASE first(j) # None
    <3>1. /\ timers'[j] = Spawn(Dropped(j), generation(j), spec(j), first(j))
          /\ planned(j).timer = Unused(Dropped(j)) /\ planned(j).next = first(j)
          /\ planned(j).generation = generation(j)
      BY <1>4, <1>5, <1>6, <2>1, <2>6
    <3>2. first(j) \in Times
      BY <1>3, <2>1, <2>6
    <3>3. QED BY <1>3, <2>1, <2>3, <2>4, <3>1, <3>2, SpawnTracked
  <2>7. QED BY <2>5, <2>6
<1>11. QED BY <1>9, <1>10 DEF TimersInv

\* A reschedule, accepted or rejected, replaces one entry and its timers.
LEMMA OneJob ==
    ASSUME TimersInv, NEW j \in Jobs, NEW entry \in Entry,
           NEW tasks \in [TimerNos -> Timer],
           table' = [table EXCEPT ![j] = entry], timers' = [timers EXCEPT ![j] = tasks],
           Tracked(timers[j], table[j], stopped) => Tracked(tasks, entry, stopped),
           UNCHANGED <<now, stopped, settings, ran>>,
           caller' \in [Callers -> CallerState]
    PROVE  TimersInv'
<1>1. TimersTypeOK'
  BY DEF TimersInv, TimersTypeOK
<1>2. ASSUME NEW k \in CommonJobs PROVE Tracked(timers'[k], table'[k], stopped')
  <2>1. k \in Jobs /\ Tracked(timers[k], table[k], stopped)
    BY DEF TimersInv, Jobs
  <2>2. /\ table'[k] = IF k = j THEN entry ELSE table[k]
        /\ timers'[k] = IF k = j THEN tasks ELSE timers[k]
    BY <2>1 DEF TimersInv, TimersTypeOK
  <2>3. QED BY <2>1, <2>2
<1>3. QED BY <1>1, <1>2 DEF TimersInv

\* What is left of a job's timers is behind its renewed entry.
LEMMA RenewedAhead ==
    ASSUME TimersInv, NEW j \in Jobs, table[j].kind = "ok",
           table[j].generation < MaxGeneration
    PROVE  /\ Renewed(j) \in Entry
           /\ Renewed(j).kind = "ok" /\ Renewed(j).timer = None
           /\ Renewed(j).generation \in 0..MaxGeneration
           /\ Dropped(j) \in [TimerNos -> Timer]
           /\ Tracked(timers[j], table[j], stopped) =>
                \A i \in TimerNos : Dropped(j)[i].stage # "ended" =>
                  /\ Dropped(j)[i].aborted
                  /\ Dropped(j)[i].generation < Renewed(j).generation
<1>1. table[j] \in Entry
  BY DEF TimersInv, TimersTypeOK
<1>2. table[j].generation \in Nat /\ table[j].generation + 1 \in 0..MaxGeneration
  BY <1>1, TimersAssumption DEF Entry
<1>3. Renewed(j) = [table[j] EXCEPT !.generation = table[j].generation + 1, !.timer = None]
  BY DEF Renewed
<1>4. /\ Renewed(j) \in Entry
      /\ Renewed(j).kind = "ok" /\ Renewed(j).timer = None
      /\ Renewed(j).generation = table[j].generation + 1
  BY <1>1, <1>2, <1>3 DEF Entry
<1>5. Dropped(j) \in [TimerNos -> Timer]
  BY DropLeavesLoose DEF TimersInv
<1>6. ASSUME Tracked(timers[j], table[j], stopped), NEW i \in TimerNos,
             Dropped(j)[i].stage # "ended"
      PROVE  Dropped(j)[i].aborted /\ Dropped(j)[i].generation < Renewed(j).generation
  <2>1. Loose(Dropped(j), table[j], stopped)
    BY <1>6, DropLeavesLoose DEF TimersInv
  <2>2. Dropped(j)[i].aborted /\ Dropped(j)[i].generation <= table[j].generation
    BY <1>6, <2>1 DEF Loose
  <2>3. Dropped(j)[i].generation \in Nat
    BY <1>5, <1>6, TimerFields, TimersAssumption
  <2>4. QED BY <1>2, <1>4, <2>2, <2>3
<1>7. QED BY <1>2, <1>4, <1>5, <1>6

LEMMA RescheduleKeeps ==
    ASSUME TimersInv, NEW c \in Callers, NEW j \in Jobs, NEW spec \in Specs, NEW seen,
           Reschedule(c, j, spec, seen)
    PROVE  TimersInv'
<1> DEFINE first == First(spec, seen)
           entry == [Renewed(j) EXCEPT !.next = first, !.timer = Unused(Dropped(j))]
           tasks == Spawn(Dropped(j), Renewed(j).generation, spec, first)
<1>1. /\ table[j].kind = "ok" /\ table[j].generation < MaxGeneration
      /\ Free(Dropped(j)) # {} /\ first # None
      /\ table' = [table EXCEPT ![j] = entry] /\ timers' = [timers EXCEPT ![j] = tasks]
      /\ UNCHANGED <<now, stopped, settings, ran>>
  BY DEF Reschedule
<1>2. first \in Times
  BY <1>1, FirstType
<1>3. caller' \in [Callers -> CallerState]
  <2>1. [at |-> "save", job |-> j, spec |-> spec] \in CallerState
    BY DEF CallerState
  <2>2. QED BY <2>1 DEF Reschedule, TimersInv, TimersTypeOK
<1> HIDE DEF first
<1>4. /\ Unused(Dropped(j)) \in TimerNos /\ tasks \in [TimerNos -> Timer]
  BY <1>1, <1>2, RenewedAhead, SpawnType
<1>5. /\ entry \in Entry /\ entry.kind = "ok" /\ entry.next = first
      /\ entry.generation = Renewed(j).generation /\ entry.timer = Unused(Dropped(j))
  BY <1>1, <1>2, <1>4, RenewedAhead DEF Entry
<1> HIDE DEF entry
<1>6. ASSUME Tracked(timers[j], table[j], stopped) PROVE Tracked(tasks, entry, stopped)
  <2>1. /\ entry.kind # "absent" /\ entry.next = first
        /\ entry.generation = Renewed(j).generation /\ entry.timer = Unused(Dropped(j))
    BY <1>5
  <2>2. QED BY <1>1, <1>2, <1>5, <1>6, <2>1, RenewedAhead, SpawnTracked
<1> HIDE DEF tasks
<1>7. QED BY <1>1, <1>3, <1>4, <1>5, <1>6, OneJob

LEMMA RejectedKeeps ==
    ASSUME TimersInv, NEW j \in Jobs, NEW spec, NEW seen, RescheduleRejected(j, spec, seen)
    PROVE  TimersInv'
<1>1. /\ table[j].kind = "ok" /\ table[j].generation < MaxGeneration
      /\ table' = [table EXCEPT ![j] = Renewed(j)]
      /\ timers' = [timers EXCEPT ![j] = Dropped(j)]
      /\ UNCHANGED <<now, stopped, settings, caller, ran>>
  BY DEF RescheduleRejected
<1>2. Renewed(j) \in Entry /\ Dropped(j) \in [TimerNos -> Timer]
        /\ Renewed(j).timer = None /\ Renewed(j).kind = "ok"
  BY <1>1, RenewedAhead
<1>3. ASSUME Tracked(timers[j], table[j], stopped)
      PROVE  Tracked(Dropped(j), Renewed(j), stopped)
  BY <1>1, <1>2, <1>3, RenewedAhead, LooseTracked
<1>4. caller' \in [Callers -> CallerState]
  BY <1>1 DEF TimersInv, TimersTypeOK
<1>5. QED BY <1>1, <1>2, <1>3, <1>4, OneJob

\* A step of one timer: it stays what it was to its entry, and what the entry
\* shows is only changed for its own timer.
LEMMA OneTimer ==
    ASSUME TimersInv, NEW j \in Jobs, NEW i \in TimerNos, NEW after \in Timer,
           timers' = [timers EXCEPT ![j][i] = after],
           after.stage # "ended" => /\ timers[j][i].stage # "ended"
                                    /\ after.aborted = timers[j][i].aborted
                                    /\ after.generation = timers[j][i].generation,
           NEW next \in Times \cup {None}, table' = [table EXCEPT ![j].next = next],
           Tracked(timers[j], table[j], stopped) /\ table[j].timer # None =>
             /\ i = table[j].timer => Upcoming(after) = next
             /\ i # table[j].timer => next = table[j].next,
           UNCHANGED <<now, stopped, settings, caller>>,
           ran' \in [Jobs -> Times \cup {None}]
    PROVE  TimersInv'
<1> DEFINE tasks == [timers[j] EXCEPT ![i] = after]
           entry == [table[j] EXCEPT !.next = next]
<1>1. table[j] \in Entry /\ timers[j] \in [TimerNos -> Timer]
  BY DEF TimersInv, TimersTypeOK
<1>2. /\ entry \in Entry /\ entry.next = next /\ entry.kind = table[j].kind
      /\ entry.generation = table[j].generation /\ entry.timer = table[j].timer
  BY <1>1 DEF Entry
<1>3. tasks \in [TimerNos -> Timer] /\ tasks[i] = after
        /\ \A k \in TimerNos \ {i} : tasks[k] = timers[j][k]
  BY <1>1
<1>4. table' = [table EXCEPT ![j] = entry] /\ timers' = [timers EXCEPT ![j] = tasks]
  BY DEF TimersInv, TimersTypeOK
<1> HIDE DEF tasks, entry
<1>5. TimersTypeOK'
  <2>1. table \in [Jobs -> Entry] /\ timers \in [Jobs -> [TimerNos -> Timer]]
    BY DEF TimersInv, TimersTypeOK
  <2>2. table' \in [Jobs -> Entry]
    BY <1>2, <1>4, <2>1
  <2>3. timers' \in [Jobs -> [TimerNos -> Timer]]
    BY <1>3, <1>4, <2>1
  <2>4. QED BY <2>2, <2>3 DEF TimersInv, TimersTypeOK
<1>6. ASSUME Tracked(timers[j], table[j], stopped) PROVE Tracked(tasks, entry, stopped)
  <2>1. entry.timer \in TimerNos \cup {None}
    BY <1>2 DEF Entry
  <2>2. entry.timer # None => Upcoming(tasks[entry.timer]) = entry.next
    BY <1>2, <1>3, <1>6, <2>1 DEF Tracked
  <2>3. ASSUME NEW k \in TimerNos, tasks[k].stage # "ended"
        PROVE  /\ timers[j][k].stage # "ended"
               /\ tasks[k].aborted = timers[j][k].aborted
               /\ tasks[k].generation = timers[j][k].generation
    BY <1>3, <2>3
  <2>4. QED BY <1>2, <1>6, <2>2, <2>3 DEF Tracked
<1>7. ASSUME NEW k \in CommonJobs PROVE Tracked(timers'[k], table'[k], stopped')
  <2>1. k \in Jobs /\ Tracked(timers[k], table[k], stopped)
    BY DEF TimersInv, Jobs
  <2>2. /\ table'[k] = IF k = j THEN entry ELSE table[k]
        /\ timers'[k] = IF k = j THEN tasks ELSE timers[k]
    BY <1>4, <2>1 DEF TimersInv, TimersTypeOK
  <2>3. QED BY <1>6, <2>1, <2>2
<1>8. QED BY <1>5, <1>7 DEF TimersInv

\* A timer that goes on keeps its generation and is aborted as before.
LEMMA TimerMoves ==
    ASSUME NEW timer \in Timer, timer.stage # "ended",
           NEW stage \in {"sleep", "due", "invoke"},
           NEW after, after = [timer EXCEPT !.stage = stage]
    PROVE  /\ after \in Timer
           /\ after.stage = stage /\ after.aborted = timer.aborted
           /\ after.generation = timer.generation
           /\ after.at = timer.at /\ after.spec = timer.spec
<1>1. timer \in [stage : {"sleep", "due", "invoke"}, aborted : BOOLEAN,
                 generation : 0..MaxGeneration, spec : Specs, at : Times]
  BY DEF Timer, Ended
<1>2. QED BY <1>1 DEF Timer

\* The table as it is.
LEMMA SameTable ==
    ASSUME TimersInv, NEW j \in Jobs, UNCHANGED table
    PROVE  /\ table[j].next \in Times \cup {None}
           /\ table' = [table EXCEPT ![j].next = table[j].next]
<1>1. table \in [Jobs -> Entry] /\ table[j] \in Entry
  BY DEF TimersInv, TimersTypeOK
<1>2. table[j] = [table[j] EXCEPT !.next = table[j].next]
  BY <1>1 DEF Entry
<1>3. QED BY <1>1, <1>2 DEF Entry

LEMMA TimerOnly ==
    ASSUME TimersInv, NEW j \in Jobs, NEW i \in TimerNos, NEW after \in Timer,
           timers' = [timers EXCEPT ![j][i] = after],
           after.stage # "ended" => /\ timers[j][i].stage # "ended"
                                    /\ after.aborted = timers[j][i].aborted
                                    /\ after.generation = timers[j][i].generation,
           Tracked(timers[j], table[j], stopped) /\ table[j].timer # None =>
             (i = table[j].timer => Upcoming(after) = table[j].next),
           UNCHANGED <<now, stopped, settings, table, caller>>,
           ran' \in [Jobs -> Times \cup {None}]
    PROVE  TimersInv'
<1> DEFINE next == table[j].next
<1>1. next \in Times \cup {None} /\ table' = [table EXCEPT ![j].next = next]
  BY SameTable
<1>2. Tracked(timers[j], table[j], stopped) /\ table[j].timer # None =>
        /\ i = table[j].timer => Upcoming(after) = next
        /\ i # table[j].timer => next = table[j].next
  OBVIOUS
<1>3. UNCHANGED <<now, stopped, settings, caller>>
  OBVIOUS
<1> HIDE DEF next
<1>4. QED BY <1>1, <1>2, <1>3, OneTimer

LEMMA WakeKeeps ==
    ASSUME TimersInv, NEW j \in Jobs, NEW i \in TimerNos, Wake(j, i) PROVE TimersInv'
<1> DEFINE timer == timers[j][i]
           after == [timer EXCEPT !.stage = "due"]
<1>1. timer \in Timer /\ timer.stage = "sleep" /\ timer.at \in Times
  BY TimerFields DEF Wake, TimersInv, TimersTypeOK
<1>2. /\ timers' = [timers EXCEPT ![j][i] = after]
      /\ UNCHANGED <<now, stopped, settings, table, caller>> /\ ran' = ran
  BY DEF Wake
<1>3. /\ after \in Timer /\ after.stage = "due" /\ after.aborted = timer.aborted
      /\ after.generation = timer.generation /\ after.at = timer.at
  BY <1>1, TimerMoves
<1> HIDE DEF after
<1>4. Tracked(timers[j], table[j], stopped) /\ table[j].timer # None =>
        (i = table[j].timer => Upcoming(after) = table[j].next)
  BY <1>1, <1>3 DEF Tracked, Upcoming
<1>5. ran' \in [Jobs -> Times \cup {None}]
  BY <1>2 DEF TimersInv, TimersTypeOK
<1>6. QED BY <1>1, <1>2, <1>3, <1>4, <1>5, TimerOnly

\* A timer that ends is over for its entry only when the entry shows no run.
LEMMA EndedKeeps ==
    ASSUME TimersInv, NEW j \in Jobs, NEW i \in TimerNos,
           timers' = [timers EXCEPT ![j][i] = Ended],
           Tracked(timers[j], table[j], stopped) /\ i = table[j].timer =>
             table[j].next = None,
           UNCHANGED <<now, stopped, settings, table, caller>>,
           ran' \in [Jobs -> Times \cup {None}]
    PROVE  TimersInv'
<1> DEFINE after == Ended
<1>1. after \in Timer /\ after.stage = "ended" /\ Upcoming(after) = None
  BY DEF Timer, Ended, Upcoming
<1>2. timers' = [timers EXCEPT ![j][i] = after]
  OBVIOUS
<1> HIDE DEF after
<1>3. QED BY <1>1, <1>2, TimerOnly

LEMMA StaleKeeps ==
    ASSUME TimersInv, NEW j \in Jobs, NEW i \in TimerNos, Stale(j, i) PROVE TimersInv'
<1>1. /\ timers[j][i].stage = "due"
      /\ table[j].kind = "absent" \/ table[j].generation # timers[j][i].generation
      /\ timers' = [timers EXCEPT ![j][i] = Ended]
      /\ UNCHANGED <<now, stopped, settings, table, caller, ran>>
  BY DEF Stale
<1>2. Tracked(timers[j], table[j], stopped) => i # table[j].timer
  BY <1>1, NoneApart DEF Tracked
<1>3. ran' \in [Jobs -> Times \cup {None}]
  BY <1>1 DEF TimersInv, TimersTypeOK
<1>4. QED BY <1>1, <1>2, <1>3, EndedKeeps

LEMMA SetNextKeeps ==
    ASSUME TimersInv, NEW j \in Jobs, NEW i \in TimerNos, SetNext(j, i) PROVE TimersInv'
<1> DEFINE timer == timers[j][i]
           after == [timer EXCEPT !.stage = "invoke"]
           next == Following(timer)
<1>1. timer \in Timer /\ timer.stage = "due" /\ table[j].kind # "absent"
        /\ table[j].generation = timer.generation
  BY DEF SetNext, TimersInv, TimersTypeOK
<1>2. /\ timers' = [timers EXCEPT ![j][i] = after]
      /\ table' = [table EXCEPT ![j].next = next]
      /\ UNCHANGED <<now, stopped, settings, caller, ran>>
  BY DEF SetNext
<1>3. /\ after \in Timer /\ after.stage = "invoke" /\ after.aborted = timer.aborted
      /\ after.generation = timer.generation /\ Following(after) = next
  BY <1>1, TimerMoves DEF Following
<1>4. next \in Times \cup {None}
  BY <1>1, FollowingType, TimerFields
<1> HIDE DEF after, next
<1>5. timer.generation \in Nat
  BY <1>1, TimerFields, TimersAssumption
<1>6. Tracked(timers[j], table[j], stopped) /\ table[j].timer # None =>
        /\ i = table[j].timer => Upcoming(after) = next
        /\ i # table[j].timer => next = table[j].next
  BY <1>1, <1>3, <1>5 DEF Tracked, Upcoming
<1>7. ran' \in [Jobs -> Times \cup {None}]
  BY <1>2 DEF TimersInv, TimersTypeOK
<1>8. QED BY <1>1, <1>2, <1>3, <1>4, <1>6, <1>7, OneTimer

LEMMA InvokeKeeps ==
    ASSUME TimersInv, NEW j \in Jobs, NEW i \in TimerNos, Invoke(j, i) PROVE TimersInv'
<1> DEFINE timer == timers[j][i]
           following == Following(timer)
           after == [timer EXCEPT !.stage = "sleep", !.at = following]
           next == table[j].next
           ends == following = None \/ (timer.aborted /\ following > now)
<1>1. timer \in Timer /\ timer.stage = "invoke"
  BY DEF Invoke, TimersInv, TimersTypeOK
<1>2. /\ timers' = [timers EXCEPT ![j][i] = IF ends THEN Ended ELSE after]
      /\ UNCHANGED <<now, stopped, settings, table, caller>>
      /\ ran' = IF stopped THEN ran ELSE [ran EXCEPT ![j] = timer.at]
  BY DEF Invoke
<1>3. following \in Times \cup {None} /\ timer.at \in Times
  BY <1>1, FollowingType, TimerFields
<1>4. ran' \in [Jobs -> Times \cup {None}]
  BY <1>2, <1>3 DEF TimersInv, TimersTypeOK
<1>5. Tracked(timers[j], table[j], stopped) /\ i = table[j].timer =>
        following = next /\ ~timer.aborted
  BY <1>1, NoneApart DEF Tracked, Upcoming
<1>6. CASE ends
  <2>1. timers' = [timers EXCEPT ![j][i] = Ended]
    BY <1>2, <1>6
  <2>2. Tracked(timers[j], table[j], stopped) /\ i = table[j].timer => next = None
    BY <1>5, <1>6
  <2>3. QED BY <1>2, <1>4, <2>1, <2>2, EndedKeeps
<1>7. CASE ~ends
  <2>1. following \in Times /\ timers' = [timers EXCEPT ![j][i] = after]
    BY <1>2, <1>3, <1>7
  <2>2. timer = timers[j][i] /\ UNCHANGED <<now, stopped, settings, table, caller>>
    BY <1>2
  <2>3. after = [timer EXCEPT !.stage = "sleep", !.at = following]
    OBVIOUS
  <2> HIDE DEF timer, following, after, ends
  <2>4. /\ after \in Timer /\ after.stage = "sleep" /\ after.aborted = timer.aborted
        /\ after.generation = timer.generation /\ after.at = following
    <3>1. timer \in [stage : {"sleep", "due", "invoke"}, aborted : BOOLEAN,
                     generation : 0..MaxGeneration, spec : Specs, at : Times]
      BY <1>1 DEF Timer, Ended
    <3>2. QED BY <2>1, <2>3, <3>1 DEF Timer
  <2>5. Tracked(timers[j], table[j], stopped) /\ table[j].timer # None =>
          (i = table[j].timer => Upcoming(after) = table[j].next)
    BY <1>5, <2>4 DEF Upcoming
  <2>6. after.stage # "ended" => /\ timers[j][i].stage # "ended"
                                 /\ after.aborted = timers[j][i].aborted
                                 /\ after.generation = timers[j][i].generation
    BY <1>1, <2>2, <2>4
  <2>7. QED BY <1>4, <2>1, <2>2, <2>4, <2>5, <2>6, TimerOnly
<1>8. QED BY <1>6, <1>7

-----------------------------------------------------------------------------

\* Every step keeps the invariant.
LEMMA TimersStep == TimersInv /\ [TimersNext]_timerVars => TimersInv'
<1> SUFFICES ASSUME TimersInv, [TimersNext]_timerVars PROVE TimersInv'
  OBVIOUS
<1>1. ASSUME NEW c \in Callers, Call(c) \/ SetServerUp(c) \/ CallerStep(c)
      PROVE  TimersInv'
  BY <1>1, CallerKeeps, ScheduleKeeps DEF CallerStep
<1>2. ASSUME NEW c \in Callers, NEW j \in Jobs, Administrator(c, j) PROVE TimersInv'
  BY <1>2, RescheduleKeeps, RejectedKeeps DEF Administrator
<1>3. ASSUME NEW j \in Jobs, NEW i \in TimerNos, TimerStep(j, i) PROVE TimersInv'
  BY <1>3, WakeKeeps, SetNextKeeps, StaleKeeps, InvokeKeeps DEF TimerStep
<1>4. CASE Stop
  BY <1>4, StopKeeps
<1>5. CASE Tick
  BY <1>5, TickKeeps
<1>6. CASE UNCHANGED timerVars
  BY <1>6 DEF timerVars, TimersInv, TimersTypeOK
<1>7. QED BY <1>1, <1>2, <1>3, <1>4, <1>5, <1>6 DEF TimersNext

\* Each job has one timer that counts, whatever replaces it while it fires
\* (start, reschedule, stop, set_next, timer of jobs/scheduler.rs).
THEOREM TimersInvariance == TimersSpec => []TimersInv
<1>1. QED BY TimersInitInv, TimersStep, PTL DEF TimersSpec

\* The clock, the settings, the table, the timers and the calls stay in their
\* types: the next run that an entry shows is a moment or none.
THEOREM TimersTypeCorrectness == TimersSpec => []TimersTypeOK
<1>1. TimersInv => TimersTypeOK
  BY DEF TimersInv
<1>2. QED BY <1>1, TimersInvariance, PTL

\* The run a job shows as its next one is the one its timer will make, and no
\* other timer of the job is left (set_next and the generations of
\* jobs/scheduler.rs).
THEOREM ShownIsNextRun == TimersSpec => []NextRunFires
<1>1. TimersInv => NextRunFires
  <2> SUFFICES ASSUME TimersInv PROVE NextRunFires
    OBVIOUS
  <2>1. ASSUME NEW j \in CommonJobs, NEW i \in TimerNos
        PROVE  i = table[j].timer \/ timers[j][i] = Ended \/ timers[j][i].aborted
    <3>1. timers[j][i] \in Timer
      BY DEF TimersInv, TimersTypeOK, Jobs
    <3>2. QED BY <3>1, TimerFields DEF TimersInv, Tracked
  <2>2. QED BY <2>1 DEF TimersInv, Tracked, NextRunFires
<1>2. QED BY <1>1, TimersInvariance, PTL

-----------------------------------------------------------------------------
(* The run a job shows, from one step to the next *)

\* A timer whose sleep is over woke at its moment or later.
WokeInTime(tasks, time) == \A i \in TimerNos : tasks[i].stage = "due" => tasks[i].at <= time

Woken == \A j \in Jobs : WokeInTime(timers[j], now)

LEMMA DroppedWoken == ASSUME NEW j \in Jobs, WokeInTime(timers[j], now),
                             timers[j] \in [TimerNos -> Timer]
                      PROVE  WokeInTime(Dropped(j), now)
<1> SUFFICES ASSUME NEW i \in TimerNos, Dropped(j)[i].stage = "due"
             PROVE  Dropped(j)[i].at <= now
  BY DEF WokeInTime
<1>1. timers[j][i] \in Timer
  OBVIOUS
<1>2. CASE i = table[j].timer /\ timers[j][i].stage \notin {"sleep", "ended"}
  <2>1. Dropped(j)[i] = [timers[j][i] EXCEPT !.aborted = TRUE]
    BY <1>2 DEF Dropped, Abort
  <2>2. timers[j][i].stage = "due" /\ Dropped(j)[i].at = timers[j][i].at
    BY <1>1, <1>2, <2>1 DEF Timer, Ended
  <2>3. QED BY <2>2 DEF WokeInTime
<1>3. CASE i = table[j].timer /\ timers[j][i].stage \in {"sleep", "ended"}
  BY <1>3 DEF Dropped, Abort, Ended
<1>4. CASE i # table[j].timer
  BY <1>4 DEF Dropped, WokeInTime
<1>5. QED BY <1>2, <1>3, <1>4

LEMMA SpawnedWoken ==
    ASSUME NEW tasks \in [TimerNos -> Timer], WokeInTime(tasks, now), Free(tasks) # {},
           NEW generation \in 0..MaxGeneration, NEW spec \in Specs, NEW first \in Times
    PROVE  WokeInTime(Spawn(tasks, generation, spec, first), now)
<1> DEFINE after == Spawn(tasks, generation, spec, first)
           new == [stage |-> "sleep", aborted |-> FALSE, generation |-> generation,
                   spec |-> spec, at |-> first]
<1>1. /\ after[Unused(tasks)] = new
      /\ \A i \in TimerNos \ {Unused(tasks)} : after[i] = tasks[i]
  BY SpawnType
<1>2. new.stage = "sleep"
  BY Zenon
<1> HIDE DEF after, new
<1>3. WokeInTime(after, now)
  BY <1>1, <1>2 DEF WokeInTime
<1>4. QED BY <1>3 DEF after

\* One timer moves on, or one wakes in time.
LEMMA TimerWoken ==
    ASSUME TimersTypeOK, Woken, NEW j \in Jobs, NEW i \in TimerNos, NEW after,
           timers' = [timers EXCEPT ![j][i] = after], now' = now,
           after.stage = "due" => after.at <= now
    PROVE  Woken'
BY DEF TimersTypeOK, Woken, WokeInTime

LEMMA WokenStep == TimersInv /\ Woken /\ [TimersNext]_timerVars => Woken'
<1> SUFFICES ASSUME TimersInv, Woken, [TimersNext]_timerVars PROVE Woken'
  OBVIOUS
<1>0. TimersTypeOK /\ now \in 0..MaxTime
  BY DEF TimersInv, TimersTypeOK
<1>1. CASE UNCHANGED <<timers, now>>
  BY <1>1 DEF Woken
<1>2. ASSUME NEW j \in Jobs, NEW i \in TimerNos, Wake(j, i) PROVE Woken'
  <2> DEFINE timer == timers[j][i]
             after == [timer EXCEPT !.stage = "due"]
  <2>1. timer \in Timer /\ timer.stage = "sleep" /\ timer.at <= now
    BY <1>0, <1>2 DEF Wake, TimersTypeOK
  <2>2. timers' = [timers EXCEPT ![j][i] = after] /\ now' = now
    BY <1>2 DEF Wake
  <2>3. after.at = timer.at
    BY <2>1, TimerMoves
  <2> HIDE DEF after
  <2>4. QED BY <1>0, <2>1, <2>2, <2>3, TimerWoken
<1>3. ASSUME NEW j \in Jobs, NEW i \in TimerNos, SetNext(j, i) PROVE Woken'
  <2> DEFINE timer == timers[j][i]
             after == [timer EXCEPT !.stage = "invoke"]
  <2>1. timer \in Timer /\ timer.stage = "due"
    BY <1>0, <1>3 DEF SetNext, TimersTypeOK
  <2>2. timers' = [timers EXCEPT ![j][i] = after] /\ now' = now
    BY <1>3 DEF SetNext
  <2>3. after.stage = "invoke"
    BY <2>1, TimerMoves
  <2> HIDE DEF after
  <2>4. QED BY <1>0, <2>2, <2>3, TimerWoken
<1>4. ASSUME NEW j \in Jobs, NEW i \in TimerNos, Stale(j, i) PROVE Woken'
  BY <1>0, <1>4, TimerWoken DEF Stale, Ended
<1>5. ASSUME NEW j \in Jobs, NEW i \in TimerNos, Invoke(j, i) PROVE Woken'
  <2> DEFINE timer == timers[j][i]
             sleeps == [timer EXCEPT !.stage = "sleep", !.at = Following(timer)]
             after == IF Following(timer) = None \/ (timer.aborted /\ Following(timer) > now)
                      THEN Ended ELSE sleeps
  <2>1. timer \in Timer /\ timer.stage = "invoke"
    BY <1>0, <1>5 DEF Invoke, TimersTypeOK
  <2>2. timers' = [timers EXCEPT ![j][i] = after] /\ now' = now
    BY <1>5 DEF Invoke
  <2>3. sleeps.stage = "sleep"
    BY <2>1 DEF Timer, Ended
  <2>4. after.stage # "due"
    BY <2>3 DEF Ended
  <2> HIDE DEF after
  <2>5. QED BY <1>0, <2>2, <2>4, TimerWoken
<1>6. ASSUME NEW c \in Callers, Schedule(c) PROVE Woken'
  <2> SUFFICES ASSUME NEW j \in Jobs PROVE WokeInTime(timers'[j], now)
    BY <1>6 DEF Schedule, Woken
  <2> DEFINE read == caller[c].read
             seen == caller[c].seen
             spec == read.schedule[j]
  <2>1. read \in Settings
    BY <1>0, <1>6 DEF Schedule, TimersTypeOK, CallerState
  <2>2. spec \in Specs
    BY <2>1 DEF Settings
  <2>3. First(spec, seen) \in Times \cup {None}
    BY <2>2, FirstType
  <2>4. Dropped(j) \in [TimerNos -> Timer] /\ WokeInTime(Dropped(j), now)
    BY <1>0, DropLeavesLoose, DroppedWoken DEF Woken, TimersTypeOK
  <2>5. NextGeneration(j) \in 0..MaxGeneration /\ Free(Dropped(j)) # {}
    <3>1. table[j] \in Entry
      BY <1>0 DEF TimersTypeOK
    <3>2. QED BY <1>6, <3>1, TimersAssumption DEF Schedule, NextGeneration, Entry
  <2>6. \/ timers'[j] = Dropped(j)
        \/ /\ First(spec, seen) # None
           /\ timers'[j] = Spawn(Dropped(j), NextGeneration(j), spec, First(spec, seen))
    BY <1>6 DEF Schedule
  <2> HIDE DEF read, seen, spec
  <2>7. QED BY <2>2, <2>3, <2>4, <2>5, <2>6, SpawnedWoken
<1>7. ASSUME NEW j \in Jobs, NEW spec \in Specs, NEW seen,
             \/ \E c \in Callers : Reschedule(c, j, spec, seen)
             \/ RescheduleRejected(j, spec, seen)
      PROVE  Woken'
  <2>1. table[j] \in Entry /\ timers[j] \in [TimerNos -> Timer]
    BY <1>0 DEF TimersTypeOK
  <2>2. Dropped(j) \in [TimerNos -> Timer] /\ WokeInTime(Dropped(j), now)
    BY <1>0, <2>1, DropLeavesLoose, DroppedWoken DEF Woken
  <2>3. \E tasks : timers' = [timers EXCEPT ![j] = tasks] /\ WokeInTime(tasks, now)
    <3>1. CASE RescheduleRejected(j, spec, seen)
      BY <2>2, <3>1 DEF RescheduleRejected
    <3>2. CASE \E c \in Callers : Reschedule(c, j, spec, seen)
      <4> DEFINE generation == Renewed(j).generation
                 first == First(spec, seen)
      <4>1. /\ table[j].kind = "ok" /\ table[j].generation < MaxGeneration
            /\ first # None /\ Free(Dropped(j)) # {}
            /\ timers' = [timers EXCEPT ![j] = Spawn(Dropped(j), generation, spec, first)]
        BY <3>2 DEF Reschedule
      <4>2. generation \in 0..MaxGeneration /\ first \in Times
        BY <2>1, <4>1, FirstType, TimersAssumption DEF Renewed, Entry
      <4> HIDE DEF generation, first
      <4>3. QED BY <2>2, <4>1, <4>2, SpawnedWoken
    <3>3. QED BY <1>7, <3>1, <3>2
  <2>4. now' = now
    BY <1>7 DEF Reschedule, RescheduleRejected
  <2>5. QED BY <1>0, <2>3, <2>4 DEF Woken, TimersTypeOK
<1>8. CASE Stop
  BY <1>0, <1>8, DroppedWoken DEF Stop, Woken, TimersTypeOK
<1>9. CASE Tick
  <2>1. \A j \in Jobs, i \in TimerNos : timers[j][i].stage = "due" => timers[j][i].at \in Nat
    BY <1>0, TimerFields DEF TimersTypeOK, Times
  <2>2. QED BY <1>0, <1>9, <2>1 DEF Tick, Woken, WokeInTime
<1>10. ASSUME NEW c \in Callers, NEW j \in Jobs, Administrator(c, j) PROVE Woken'
  BY <1>7, <1>10 DEF Administrator
<1>11. ASSUME NEW j \in Jobs, NEW i \in TimerNos, TimerStep(j, i) PROVE Woken'
  BY <1>2, <1>3, <1>4, <1>5, <1>11 DEF TimerStep
<1>12. ASSUME NEW c \in Callers, Call(c) \/ SetServerUp(c) \/ CallerStep(c) PROVE Woken'
  BY <1>1, <1>6, <1>12 DEF Call, SetServerUp, CallerStep, ReadSettings, ReadFails,
                           ScheduleStopped, SaveSchedule, SaveFails
<1>13. QED BY <1>1, <1>8, <1>9, <1>10, <1>11, <1>12 DEF TimersNext, timerVars

\* The moment after that of a timer is later.
LEMMA FollowingIsLater ==
    ASSUME NEW timer \in Timer, timer.stage # "ended"
    PROVE  Following(timer) = None \/ timer.at < Following(timer)
<1> DEFINE S == {m \in timer.spec.moments : m > timer.at}
<1>1. S \subseteq Times
  BY TimerFields, SpecMoments
<1>2. Earliest(S) \in S \cup {None}
  BY <1>1, EarliestIn
<1>3. QED BY <1>2 DEF Following

\* Only the timer of the entry sets its next run.
LEMMA SetNextMovesOn ==
    ASSUME TimersInv, Woken, NEW k \in Jobs, NEW i \in TimerNos, SetNext(k, i),
           NEW j \in CommonJobs
    PROVE  table'[j].next = table[j].next \/ Outdates(table[j].next, table'[j].next)
<1>1. /\ j \in Jobs /\ table[j] \in Entry /\ Tracked(timers[j], table[j], stopped)
      /\ timers[k][i] \in Timer
  BY DEF TimersInv, TimersTypeOK, Jobs
<1>2. CASE j # k
  BY <1>1, <1>2 DEF SetNext, TimersInv, TimersTypeOK
<1>3. CASE j = k
  <2> DEFINE timer == timers[j][i]
  <2>1. /\ timer.stage = "due" /\ timer \in Timer
        /\ table[j].kind # "absent" /\ table[j].generation = timer.generation
        /\ table' = [table EXCEPT ![j].next = Following(timer)]
    BY <1>1, <1>3 DEF SetNext
  <2>2. timer.at \in Times /\ timer.generation \in Nat
    BY <2>1, TimerFields, TimersAssumption
  <2>3. i = table[j].timer
    BY <1>1, <2>1, <2>2 DEF Tracked
  <2>4. table[j].next = timer.at
    BY <1>1, <2>1, <2>3, NoneApart DEF Tracked, Upcoming
  <2>5. timer.at <= now
    BY <1>1, <2>1 DEF Woken, WokeInTime
  <2>6. now \in Nat
    BY TimersAssumption DEF TimersInv, TimersTypeOK
  <2>7. table'[j].next = Following(timer)
    BY <1>1, <2>1 DEF TimersInv, TimersTypeOK, Entry
  <2>8. Following(timer) = None \/ timer.at < Following(timer)
    BY <2>1, FollowingIsLater
  <2> HIDE DEF timer
  <2>9. QED BY <2>2, <2>4, <2>5, <2>6, <2>7, <2>8, TimersAssumption DEF Outdates, Times
<1>4. QED BY <1>2, <1>3

\* What replaces an entry drops it or gives it another generation.
LEMMA ReplacedIsAnother ==
    ASSUME TimersInv, NEW j \in Jobs, NEW c \in Callers,
           \/ Schedule(c) \/ Stop
           \/ \E k \in Jobs : \E spec, seen : \/ Reschedule(c, k, spec, seen)
                                              \/ RescheduleRejected(k, spec, seen)
    PROVE  SameSchedule(j) => table'[j] = table[j]
<1>1. table[j] \in Entry /\ table \in [Jobs -> Entry]
  BY DEF TimersInv, TimersTypeOK
<1>2. table[j].generation \in Nat
  BY <1>1, TimersAssumption DEF Entry
<1>3. CASE Schedule(c)
  <2>1. \/ table'[j] = Absent
        \/ table'[j].generation = NextGeneration(j)
    BY <1>3 DEF Schedule, Planned
  <2>2. QED BY <1>2, <2>1 DEF SameSchedule, Absent, NextGeneration
<1>4. CASE Stop
  BY <1>4 DEF Stop, SameSchedule, Absent
<1>5. ASSUME NEW k \in Jobs, NEW spec, NEW seen,
             Reschedule(c, k, spec, seen) \/ RescheduleRejected(k, spec, seen)
      PROVE  SameSchedule(j) => table'[j] = table[j]
  <2>1. PICK entry : table' = [table EXCEPT ![k] = entry]
                       /\ entry.generation = table[k].generation + 1
    <3>1. table[k] \in Entry
      BY <1>1
    <3>2. /\ Renewed(k).generation = table[k].generation + 1
          /\ [Renewed(k) EXCEPT !.next = First(spec, seen),
                                !.timer = Unused(Dropped(k))].generation
               = table[k].generation + 1
      BY <3>1 DEF Renewed, Entry
    <3>3. CASE RescheduleRejected(k, spec, seen)
      BY <3>2, <3>3 DEF RescheduleRejected
    <3>4. CASE Reschedule(c, k, spec, seen)
      BY <3>2, <3>4 DEF Reschedule
    <3>5. QED BY <1>5, <3>3, <3>4
  <2>2. QED BY <1>1, <1>2, <2>1 DEF SameSchedule
<1>6. QED BY <1>3, <1>4, <1>5

\* As long as a job stays scheduled as it is, the run it shows is replaced only
\* when its moment has come, and by a later one or none, whatever timers of
\* earlier schedules still fire (set_next and the generations of
\* jobs/scheduler.rs).
THEOREM ShownRunsMoveOn == TimersSpec => ShownRunMovesOn
<1>1. TimersInit => Woken
  BY DEF TimersInit, Woken, WokeInTime, Ended
<1>2. ASSUME TimersInv, Woken, [TimersNext]_timerVars, NEW j \in CommonJobs, SameSchedule(j)
      PROVE  table'[j].next = table[j].next \/ Outdates(table[j].next, table'[j].next)
  <2>0. j \in Jobs
    BY DEF Jobs
  <2>1. CASE UNCHANGED table
    BY <2>1
  <2>2. ASSUME NEW k \in Jobs, NEW i \in TimerNos, TimerStep(k, i)
        PROVE  table'[j].next = table[j].next \/ Outdates(table[j].next, table'[j].next)
    BY <1>2, <2>1, <2>2, SetNextMovesOn DEF TimerStep, Wake, Stale, Invoke
  <2>3. ASSUME NEW c \in Callers, NEW k \in Jobs, Administrator(c, k)
        PROVE  table'[j].next = table[j].next
    BY <1>2, <2>0, <2>3, ReplacedIsAnother DEF Administrator
  <2>4. ASSUME NEW c \in Callers, Call(c) \/ SetServerUp(c) \/ CallerStep(c)
        PROVE  table'[j].next = table[j].next
    BY <1>2, <2>0, <2>4, ReplacedIsAnother
       DEF Call, SetServerUp, CallerStep, ReadSettings, ReadFails, ScheduleStopped,
           SaveSchedule, SaveFails
  <2>5. CASE Stop
    BY <1>2, <2>0, <2>5 DEF Stop, SameSchedule, Absent
  <2>6. QED BY <1>2, <2>1, <2>2, <2>3, <2>4, <2>5 DEF TimersNext, Tick, timerVars
<1>3. TimersInv /\ Woken /\ [TimersNext]_timerVars
        => [\A j \in CommonJobs :
              SameSchedule(j) => \/ table'[j].next = table[j].next
                                 \/ Outdates(table[j].next, table'[j].next)]_timerVars
  BY <1>2
<1>4. QED BY <1>1, <1>3, WokenStep, TimersInvariance, PTL DEF TimersSpec, ShownRunMovesOn

=============================================================================
