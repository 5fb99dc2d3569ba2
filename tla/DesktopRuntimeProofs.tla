------------------------ MODULE DesktopRuntimeProofs ------------------------
(***************************************************************************)
(* Proofs about DesktopRuntime, for every job table and every number of     *)
(* processes and catch-up passes: the lock and the slots keep their         *)
(* invariants in the process that uses both, nothing runs after a drain,    *)
(* and a job that was put off is handed over.                               *)
(*                                                                          *)
(* DesktopInv is inductive.  That a drained process stays idle needs to     *)
(* know that its scheduler is stopped with nothing queued (StopHeld); that  *)
(* a pass loses no job needs to know that it waits for the run of the job   *)
(* at the head of its list (PassHeld).                                      *)
(***************************************************************************)
EXTENDS DesktopRuntime, InstanceLockProofs, JobSlotsProofs

StopHeld == /\ stopped => Stopping
            /\ stop \in {"draining", "drained", "overdue"} => stopped /\ Queued = {}
            /\ stop = "drained" => ActiveIds = {}

PassHeld == \A k \in Passes :
                /\ pass[k].job # NoJob => /\ pass[k].todo # <<>>
                                          /\ pass[k].job = Head(pass[k].todo)
                /\ pass[k].at = "woken" => pass[k].todo = <<>>

\* Only a stop dooms a pass.
DoomHeld == \A k \in Passes : pass[k].doomed => Stopping

DesktopInv == /\ LockInv /\ SlotsInv
              /\ DesktopTypeOK /\ StopHeld /\ PassHeld /\ DoomHeld

-----------------------------------------------------------------------------
(* The lock and the slots in the process *)

\* Every step is one of the lock's, except that a start that fails gives the
\* lock back and ends in one.
LEMMA LockMoves == [DesktopNext]_desktopVars => [LockNext]_lockVars \/ FailedStart
<1> SUFFICES ASSUME [DesktopNext]_desktopVars, ~FailedStart
             PROVE  [LockNext]_lockVars
  OBVIOUS
<1> USE DesktopAssumption DEF LockNext, LockStep, lockVars
<1>1. CASE UNCHANGED desktopVars
  BY <1>1 DEF desktopVars
<1>2. CASE Acquire \/ Serve \/ Crash \/ Others \/ Exit
  BY <1>2 DEF Acquire, Serve, Crash, Others, Exit
<1>3. CASE \/ SetPlayback(TRUE) \/ SetPlayback(FALSE) \/ SignIn \/ CallerStep
  BY <1>3 DEF SetPlayback, SignIn, CallerStep, StartJobs, CheckStopping, QueueCatchUp
<1>4. ASSUME NEW j \in Jobs, Fire(j) \/ RunStep(j)
      PROVE  [LockNext]_lockVars
  BY <1>4 DEF Fire, RunStep, RunEnds, RunFails
<1>5. ASSUME NEW k \in Passes, PassStep(k) \/ ReadRowFails(k)
      PROVE  [LockNext]_lockVars
  BY <1>5 DEF PassStep, Wake, Begin, HandOver, TakeDeferred, ListJobs, ReadRow,
              ReadRowFails, PutOffDue, EndPass
<1>6. CASE AskStop \/ AskAgain \/ DropCatchUp \/ StopJobs \/ Deadline \/ CloseAndRelease
           \/ WoundDown
  BY <1>6 DEF AskStop, AskAgain, DropCatchUp, StopJobs, Deadline, CloseAndRelease,
              WoundDown
<1> QED
  BY <1>1, <1>2, <1>3, <1>4, <1>5, <1>6 DEF DesktopNext, StopStep

LEMMA LockInDesktop == LockInv /\ [DesktopNext]_desktopVars => LockInv'
<1> SUFFICES ASSUME LockInv, [DesktopNext]_desktopVars
             PROVE  LockInv'
  OBVIOUS
<1>1. CASE [LockNext]_lockVars
  BY <1>1, LockTypes, NoCrossStep DEF LockInv
<1>2. CASE FailedStart
  <2> USE <1>2, DesktopAssumption DEF FailedStart, LockInv, LockTypeOK
  <2>1. LockTypeOK'
    BY DEF Stages, Acquiring, Files
  <2>2. ASSUME ~crossed'
        PROVE  NoCross'
    <3>1. /\ \A q \in Procs : stage[q] = "owner" => q = Me
          /\ \A q \in Procs : stage[q] # "write"
      BY <2>2, <1>2 DEF NoCross, Acquiring
    <3> QED
      BY <2>2, <3>1 DEF NoCross, Acquiring
  <2> QED
    BY <2>1, <2>2 DEF NoCross
<1> QED
  BY <1>1, <1>2, LockMoves

\* What a pass hands over are jobs.
LEMMA HeadsAreJobs ==
    ASSUME DesktopTypeOK, NEW k \in Passes, pass[k].todo # <<>>
    PROVE  Head(pass[k].todo) \in Jobs
<1>1. pass[k].todo \in Seq(Jobs)
  BY DEF DesktopTypeOK, PassState
<1> QED
  BY <1>1

SlotStep == \E j \in Jobs : Admit(j) \/ Defer(j) \/ Release(j)

\* What a step does to the slots and to the stop.
LEMMA SlotMoves ==
    ASSUME DesktopTypeOK, [DesktopNext]_desktopVars
    PROVE  \/ UNCHANGED <<slotVars, stop>>
           \/ SlotStep /\ UNCHANGED stop
           \/ Blank
           \/ StopJobs
           \/ /\ UNCHANGED slotVars
              /\ \/ AskStop \/ AskAgain \/ DropCatchUp \/ WoundDown \/ Deadline
                 \/ CloseAndRelease
<1> DEFINE Goal == \/ UNCHANGED <<slotVars, stop>>
                   \/ SlotStep /\ UNCHANGED stop
                   \/ Blank
<1>0. \A j \in Jobs : Admit(j) \/ Defer(j) \/ Release(j) => SlotStep
  BY DEF SlotStep
<1>1. CASE UNCHANGED desktopVars
  BY <1>1 DEF desktopVars, runtimeVars
<1>2. CASE Acquire \/ Serve \/ FailedStart \/ Crash \/ Others \/ Exit
  BY <1>2 DEF Acquire, Serve, FailedStart, Crash, Others, Exit, runtimeVars
<1>3. CASE \/ SetPlayback(TRUE) \/ SetPlayback(FALSE) \/ SignIn \/ CallerStep
  BY <1>3 DEF SetPlayback, SignIn, CallerStep, StartJobs, CheckStopping, QueueCatchUp
<1>4. ASSUME NEW j \in Jobs, Fire(j) \/ RunStep(j)
      PROVE  Goal
  BY <1>0, <1>4 DEF Fire, RunStep, RunEnds, RunFails
<1>5. ASSUME NEW k \in Passes, PassStep(k) \/ ReadRowFails(k)
      PROVE  Goal
  <2>1. CASE HandOver(k)
    BY <1>0, <2>1, HeadsAreJobs DEF HandOver
  <2> QED
    BY <1>5, <2>1 DEF PassStep, Wake, Begin, TakeDeferred, ListJobs, ReadRow,
                      ReadRowFails, PutOffDue, EndPass
<1>6. CASE AskStop \/ AskAgain \/ DropCatchUp \/ Deadline \/ CloseAndRelease \/ WoundDown
  BY <1>6 DEF AskStop, AskAgain, DropCatchUp, Deadline, CloseAndRelease, WoundDown
<1> QED
  BY <1>1, <1>2, <1>3, <1>4, <1>5, <1>6 DEF DesktopNext, StopStep

\* The next process starts with empty slots, closed.
LEMMA BlankSlots == ASSUME Blank PROVE SlotsInv' /\ Queued' = {} /\ ActiveIds' = {}
<1>1. Queued' = {} /\ ActiveIds' = {}
  BY DEF Blank, Queued, ActiveIds
<1>2. Cardinality({}) = 0
  BY FS_EmptySet
<1>3. SlotsTypeOK'
  <2>1. ({place[j] : j \in Queued} = 1..Cardinality(Queued))'
    BY <1>1, <1>2
  <2> QED
    BY <2>1 DEF SlotsTypeOK, Blank
<1>4. SlotsAccounted'
  <2>1. \A j \in Jobs : active'[j] <= 1
    BY DEF Blank
  <2>2. ASSUME NEW w \in Weights
        PROVE  (used[w] = Cardinality(ActiveIds \cap Ids(w)) /\ used[w] <= Limit(w))'
    <3>1. used'[w] = 0
      BY DEF Blank
    <3>2. ActiveIds' \cap Ids(w) = {}
      BY <1>1
    <3>3. used'[w] = Cardinality(ActiveIds' \cap Ids(w))
      BY <3>1, <3>2, <1>2
    <3>4. used'[w] <= Limit(w)
      BY <3>1, LimitType
    <3> QED
      BY <3>3, <3>4 DEF Ids, Limit
  <2> QED
    BY <2>1, <2>2 DEF SlotsAccounted
<1>5. WorkConserving'
  BY <1>1 DEF WorkConserving
<1> QED
  BY <1>1, <1>3, <1>4, <1>5 DEF SlotsInv

LEMMA SlotsInDesktop ==
    ASSUME SlotsInv, DesktopTypeOK, [DesktopNext]_desktopVars
    PROVE  SlotsInv'
<1>1. CASE UNCHANGED slotVars
  <2>1. Queued' = Queued /\ ActiveIds' = ActiveIds
    BY <1>1 DEF slotVars, Queued, ActiveIds
  <2> QED
    BY <1>1, <2>1 DEF slotVars, SlotsInv, SlotsTypeOK, SlotsAccounted,
                      WorkConserving, CanAdmit
<1>2. CASE SlotStep
  BY <1>2, AdmitInv, DeferInv, ReleaseInv DEF SlotStep
<1>3. CASE Blank
  BY <1>3, BlankSlots
<1>4. CASE StopJobs
  BY <1>4, StopInv DEF StopJobs
<1> QED
  BY <1>1, <1>2, <1>3, <1>4, SlotMoves

LEMMA StopHeldStep ==
    ASSUME SlotsInv, DesktopTypeOK, StopHeld, [DesktopNext]_desktopVars
    PROVE  StopHeld'
<1> USE DEF StopHeld, Stopping
<1>1. CASE UNCHANGED slotVars
  <2>1. Queued' = Queued /\ ActiveIds' = ActiveIds /\ stopped' = stopped
    BY <1>1 DEF slotVars, Queued, ActiveIds
  <2>2. CASE UNCHANGED stop
    BY <2>1, <2>2
  <2>3. CASE \/ AskStop \/ AskAgain \/ DropCatchUp \/ WoundDown \/ Deadline
             \/ CloseAndRelease
    BY <2>1, <2>3 DEF AskStop, AskAgain, DropCatchUp, WoundDown, Deadline,
                      CloseAndRelease, StopGoes
  <2>4. CASE Blank
    BY <2>4 DEF Blank
  <2>5. CASE StopJobs
    <3>1. Queued' = {}
      BY <2>5 DEF StopJobs, Stop, Queued
    <3> QED
      BY <2>5, <3>1 DEF StopJobs, Stop, StopGoes
  <2>6. CASE SlotStep /\ UNCHANGED stop
    BY <2>2, <2>6
  <2> QED
    BY <2>2, <2>3, <2>4, <2>5, <2>6, SlotMoves
<1>2. CASE SlotStep /\ UNCHANGED stop
  <2>1. PICK j \in Jobs : Admit(j) \/ Defer(j) \/ Release(j)
    BY <1>2 DEF SlotStep
  <2>2. stopped' = stopped
    BY <2>1 DEF Admit, Defer, Release
  <2>3. CASE ~stopped
    BY <1>2, <2>2, <2>3
  <2>4. CASE stopped
    <3>1. Release(j)
      BY <2>1, <2>4 DEF Admit, Defer
    <3>2. /\ Queued = {} => Queued' = {}
          /\ Queued = {} /\ ActiveIds = {} => ActiveIds' = {}
      BY <3>1, ReleaseSets
    <3> QED
      BY <1>2, <2>2, <3>2
  <2> QED
    BY <2>3, <2>4
<1>3. CASE Blank
  BY <1>3 DEF Blank
<1>4. CASE StopJobs
  <2>1. Queued' = {}
    BY <1>4 DEF StopJobs, Stop, Queued
  <2> QED
    BY <1>4, <2>1 DEF StopJobs, Stop, StopGoes
<1> QED
  BY <1>1, <1>2, <1>3, <1>4, SlotMoves

-----------------------------------------------------------------------------
(* Types of the runtime *)

\* A pass keeps its type and waits for the job at the head of its list.
PassOK(s) == /\ s \in PassState
             /\ s.job # NoJob => s.todo # <<>> /\ s.job = Head(s.todo)
             /\ s.at = "woken" => s.todo = <<>>

LEMMA PassesOK == DesktopTypeOK /\ PassHeld
                    <=> /\ DesktopTypeOK
                        /\ \A k \in Passes : PassOK(pass[k])
BY DEF DesktopTypeOK, PassHeld, PassOK

LEMMA NewPasses == /\ PassOK(NoPass)
                   /\ PassOK(Failed)
                   /\ PassOK([NoPass EXCEPT !.at = "woken"])
<1> DEFINE no == FALSE
<1>1. no \in BOOLEAN /\ <<>> \in Seq(Jobs)
  OBVIOUS
<1>2. NoPass = [at |-> "idle", todo |-> <<>>, job |-> NoJob, doomed |-> no]
  BY DEF NoPass
<1> HIDE DEF no
<1>3. NoPass \in PassState
  BY <1>1, <1>2 DEF PassState, PassStages
<1>4. NoPass.todo = <<>> /\ NoPass.job = NoJob /\ NoPass.at = "idle"
  BY <1>2
<1>5. ASSUME NEW at \in PassStages
      PROVE  PassOK([NoPass EXCEPT !.at = at])
  BY <1>3, <1>4 DEF PassOK, PassState
<1>6. NoPass = [NoPass EXCEPT !.at = "idle"]
  BY <1>3, <1>4 DEF PassState
<1> QED
  BY <1>3, <1>4, <1>5, <1>6 DEF Failed, PassOK, PassStages

\* The job at the head is waited for, or done with.
LEMMA PassMoves ==
    ASSUME NEW s, PassOK(s)
    PROVE  /\ s.todo # <<>> => PassOK(Advance(s))
           /\ s.todo # <<>> => PassOK(Await(s, Head(s.todo)))
           /\ s.todo = <<>> => \A at \in PassStages \ {"woken"}, q \in Seq(Jobs) :
                PassOK([s EXCEPT !.at = at, !.todo = q])
           /\ \A at \in PassStages \ {"woken"} : PassOK([s EXCEPT !.at = at])
           /\ \A yes \in BOOLEAN : PassOK([s EXCEPT !.doomed = yes])
<1> USE DEF PassOK, PassState
<1>1. s \in PassState /\ s.todo \in Seq(Jobs) /\ s.at \in PassStages
  OBVIOUS
<1>2. ASSUME s.todo # <<>>
      PROVE  PassOK(Advance(s))
  <2>1. Tail(s.todo) \in Seq(Jobs) /\ s.at # "woken"
    BY <1>1, <1>2
  <2> QED
    BY <1>1, <2>1 DEF Advance, PassStages
<1>3. ASSUME s.todo # <<>>
      PROVE  PassOK(Await(s, Head(s.todo)))
  <2>1. Head(s.todo) \in Jobs
    BY <1>1, <1>3
  <2> QED
    BY <1>1, <1>3, <2>1 DEF Await, PassStages
<1>4. ASSUME s.todo = <<>>, NEW at \in PassStages \ {"woken"}, NEW q \in Seq(Jobs)
      PROVE  PassOK([s EXCEPT !.at = at, !.todo = q])
  BY <1>1, <1>4
<1>5. ASSUME NEW at \in PassStages \ {"woken"}
      PROVE  PassOK([s EXCEPT !.at = at])
  BY <1>1, <1>5
<1>6. ASSUME NEW yes \in BOOLEAN
      PROVE  PassOK([s EXCEPT !.doomed = yes])
  BY <1>1, <1>6
<1> QED
  BY <1>2, <1>3, <1>4, <1>5, <1>6

\* An id that is put on the list is there once.
ListOK(q) == /\ q \in Seq(Heavy)
             /\ \A a, b \in DOMAIN q : q[a] = q[b] => a = b

LEMMA PutOnce == ASSUME NEW q, ListOK(q), NEW j \in Heavy
                 PROVE  ListOK(Put(q, j))
<1>1. CASE j \in {q[i] : i \in DOMAIN q}
  BY <1>1 DEF Put
<1>2. CASE j \notin {q[i] : i \in DOMAIN q}
  <2>1. Put(q, j) = Append(q, j)
    BY <1>2 DEF Put
  <2>2. \A i \in DOMAIN q : q[i] # j
    BY <1>2
  <2> QED
    BY <2>1, <2>2 DEF ListOK
<1> QED
  BY <1>1, <1>2

PassesFine == /\ pass \in [Passes -> PassState]
              /\ PassHeld

\* One pass moves, the others are left alone.
LEMMA PassSteps ==
    ASSUME DesktopTypeOK, PassHeld, NEW k \in Passes, PassStep(k) \/ ReadRowFails(k)
    PROVE  PassesFine'
<1>0. ASSUME NEW t, PassOK(t), pass' = [pass EXCEPT ![k] = t]
      PROVE  PassesFine'
  <2>1. \A l \in Passes : PassOK(pass[l])
    BY PassesOK
  <2>2. \A l \in Passes : PassOK(pass'[l])
    BY <1>0, <2>1 DEF DesktopTypeOK
  <2>3. pass' \in [Passes -> PassState]
    BY <1>0 DEF DesktopTypeOK, PassOK
  <2> QED
    BY <2>2, <2>3 DEF PassesFine, PassHeld, PassOK
<1>1. PassOK(pass[k])
  BY PassesOK
<1>2. CASE Wake(k)
  BY <1>0, <1>2, NewPasses DEF Wake, PassGoes
<1>3. CASE Begin(k)
  <2> DEFINE q == IF downloaded THEN <<>> ELSE Downloads
  <2>1. q \in Seq(Jobs)
    BY DesktopAssumption DEF Jobs
  <2>2. pass[k].todo = <<>>
    BY <1>3 DEF Begin, PassGoes, PassHeld
  <2> QED
    BY <1>0, <1>1, <1>3, <2>1, <2>2, PassMoves DEF Begin, PassGoes, PassStages
<1>4. CASE HandOver(k)
  <2>1. pass[k].todo # <<>>
    BY <1>4 DEF HandOver
  <2>2. \/ pass' = [pass EXCEPT ![k] = Advance(pass[k])]
        \/ pass' = [pass EXCEPT ![k] = Await(pass[k], Head(pass[k].todo))]
    BY <1>4 DEF HandOver
  <2>3. /\ PassOK(Advance(pass[k]))
        /\ PassOK(Await(pass[k], Head(pass[k].todo)))
    BY <1>1, <2>1, PassMoves
  <2> QED
    BY <1>0, <2>2, <2>3
<1>5. CASE TakeDeferred(k)
  <2> DEFINE q == IF playback THEN <<>> ELSE deferred
  <2>1. q \in Seq(Jobs)
    BY DEF DesktopTypeOK, Jobs
  <2> QED
    BY <1>0, <1>1, <1>5, <2>1, PassMoves DEF TakeDeferred, PassGoes, PassStages
<1>6. CASE ListJobs(k)
  <2> DEFINE q == IF loaded THEN Table ELSE <<>>
  <2>1. q \in Seq(Jobs)
    BY DesktopAssumption
  <2> QED
    BY <1>0, <1>1, <1>6, <2>1, PassMoves DEF ListJobs, PassGoes, PassStages
<1>7. CASE ReadRow(k)
  <2>1. /\ PassOK([pass[k] EXCEPT !.at = "due"])
        /\ PassOK(Advance(pass[k]))
    BY <1>1, <1>7, PassMoves DEF ReadRow, PassStages
  <2> QED
    BY <1>0, <1>7, <2>1, NewPasses DEF ReadRow, PassGoes
<1>8. CASE ReadRowFails(k)
  BY <1>0, <1>8, NewPasses DEF ReadRowFails, PassGoes
<1>9. CASE PutOffDue(k)
  <2>1. pass[k].todo # <<>>
    BY <1>9 DEF PutOffDue
  <2> QED
    BY <1>0, <1>1, <1>9, <2>1, PassMoves DEF PutOffDue, PassGoes
<1>10. CASE EndPass(k)
  BY <1>0, <1>10, NewPasses DEF EndPass, PassGoes
<1> QED
  BY <1>2, <1>3, <1>4, <1>5, <1>6, <1>7, <1>8, <1>9, <1>10 DEF PassStep

\* A run that ends moves the passes that wait for it.
LEMMA PassRuns ==
    ASSUME DesktopTypeOK, PassHeld, NEW j \in Jobs, RunStep(j)
    PROVE  PassesFine'
<1>1. \A l \in Passes : PassOK(pass[l])
  BY PassesOK
<1>2. \A l \in Waiting(j) : PassOK(Advance(pass[l]))
  BY <1>1, PassMoves, DesktopAssumption DEF Waiting, PassOK
<1>3. /\ DOMAIN pass' = Passes
      /\ pass' = [l \in Passes |-> pass'[l]]
      /\ \A l \in Passes :
           \/ pass'[l] = pass[l]
           \/ pass'[l] = Failed
           \/ l \in Waiting(j) /\ pass'[l] = Advance(pass[l])
  BY DEF RunStep, RunEnds, RunFails
<1>4. \A l \in Passes : PassOK(pass'[l])
  BY <1>1, <1>2, <1>3, NewPasses
<1>5. pass' \in [Passes -> PassState]
  BY <1>3, <1>4 DEF PassOK
<1> QED
  BY <1>4, <1>5 DEF PassesFine, PassHeld, PassOK

LEMMA PassesInDesktop ==
    ASSUME DesktopTypeOK, PassHeld, [DesktopNext]_desktopVars
    PROVE  PassesFine'
<1>0. ASSUME UNCHANGED pass
      PROVE  PassesFine'
  BY <1>0 DEF DesktopTypeOK, PassHeld, PassesFine
<1>1. CASE UNCHANGED desktopVars
  BY <1>0, <1>1 DEF desktopVars, runtimeVars, passVars
<1>2. CASE Blank
  BY <1>2, NewPasses DEF Blank, PassesFine, PassHeld, PassOK
<1>3. CASE Acquire \/ Serve \/ FailedStart \/ Crash \/ Others \/ Exit
  BY <1>0, <1>2, <1>3 DEF Acquire, Serve, FailedStart, Crash, Others, Exit,
                          runtimeVars, passVars
<1>4. CASE \/ SetPlayback(TRUE) \/ SetPlayback(FALSE) \/ SignIn \/ CallerStep
  BY <1>0, <1>4 DEF SetPlayback, SignIn, CallerStep, StartJobs, CheckStopping,
                    QueueCatchUp, passVars
<1>5. ASSUME NEW j \in Jobs, Fire(j) \/ RunStep(j)
      PROVE  PassesFine'
  BY <1>0, <1>5, PassRuns DEF Fire, passVars
<1>6. ASSUME NEW k \in Passes, PassStep(k) \/ ReadRowFails(k)
      PROVE  PassesFine'
  BY <1>6, PassSteps
<1>7. CASE AskStop \/ AskAgain \/ Deadline \/ CloseAndRelease \/ WoundDown \/ StopJobs
  BY <1>0, <1>7 DEF AskStop, AskAgain, Deadline, CloseAndRelease, WoundDown, StopJobs,
                    passVars
<1>8. CASE DropCatchUp
  <2>1. \A l \in Passes : PassOK([pass[l] EXCEPT !.doomed = TRUE]) /\ PassOK(pass[l])
    BY PassesOK, PassMoves
  <2>2. /\ pass' = [l \in Passes |-> pass'[l]]
        /\ \A l \in Passes : PassOK(pass'[l])
    BY <1>8, <2>1 DEF DropCatchUp
  <2>3. pass' \in [Passes -> PassState]
    BY <2>2 DEF PassOK
  <2> QED
    BY <2>2, <2>3 DEF PassesFine, PassHeld, PassOK
<1> QED
  BY <1>1, <1>3, <1>4, <1>5, <1>6, <1>7, <1>8 DEF DesktopNext, StopStep

LEMMA ListInDesktop ==
    ASSUME DesktopTypeOK, [DesktopNext]_desktopVars
    PROVE  ListOK(deferred')
<1>0. ListOK(deferred) /\ ListOK(<<>>)
  BY DEF DesktopTypeOK, ListOK
<1>1. CASE UNCHANGED desktopVars
  BY <1>0, <1>1 DEF desktopVars, runtimeVars
<1>2. CASE Acquire \/ Serve \/ FailedStart \/ Crash \/ Others \/ Exit
  BY <1>0, <1>2 DEF Acquire, Serve, FailedStart, Crash, Others, Exit, Blank, runtimeVars
<1>3. CASE \/ SetPlayback(TRUE) \/ SetPlayback(FALSE) \/ SignIn \/ CallerStep
  BY <1>0, <1>3 DEF SetPlayback, SignIn, CallerStep, StartJobs, CheckStopping, QueueCatchUp
<1>4. ASSUME NEW j \in Jobs, Fire(j) \/ RunStep(j)
      PROVE  ListOK(deferred')
  BY <1>0, <1>4, PutOnce DEF Fire, PutOff, RunStep, RunEnds, RunFails
<1>5. ASSUME NEW k \in Passes, PassStep(k) \/ ReadRowFails(k)
      PROVE  ListOK(deferred')
  <2>1. CASE PutOffDue(k)
    BY <1>0, <2>1, PutOnce DEF PutOffDue, PutOff
  <2> QED
    BY <1>0, <1>5, <2>1 DEF PassStep, Wake, Begin, HandOver, TakeDeferred, ListJobs,
                            ReadRow, ReadRowFails, EndPass
<1>6. CASE AskStop \/ AskAgain \/ DropCatchUp \/ StopJobs \/ Deadline \/ CloseAndRelease
           \/ WoundDown
  BY <1>0, <1>6 DEF AskStop, AskAgain, DropCatchUp, StopJobs, Deadline, CloseAndRelease,
                    WoundDown
<1> QED
  BY <1>1, <1>2, <1>3, <1>4, <1>5, <1>6 DEF DesktopNext, StopStep

LEMMA NotDoomed == ~NoPass.doomed /\ ~Failed.doomed
                   /\ ~[NoPass EXCEPT !.at = "woken"].doomed
BY Zenon DEF NoPass, Failed

LEMMA DoomInDesktop ==
    ASSUME DesktopTypeOK, DoomHeld, [DesktopNext]_desktopVars
    PROVE  DoomHeld'
<1> USE DEF DoomHeld, Stopping
<1>0. ASSUME UNCHANGED pass, stop # "no" => stop' # "no"
      PROVE  DoomHeld'
  BY <1>0
<1>1. CASE UNCHANGED desktopVars
  BY <1>0, <1>1 DEF desktopVars, runtimeVars, passVars
<1>2. CASE Blank
  BY <1>2 DEF Blank
<1>3. CASE Acquire \/ Serve \/ FailedStart \/ Crash \/ Others \/ Exit
  BY <1>0, <1>2, <1>3 DEF Acquire, Serve, FailedStart, Crash, Others, Exit,
                          runtimeVars, passVars
<1>4. CASE \/ SetPlayback(TRUE) \/ SetPlayback(FALSE) \/ SignIn \/ CallerStep
  BY <1>0, <1>4 DEF SetPlayback, SignIn, CallerStep, StartJobs, CheckStopping,
                    QueueCatchUp, passVars
<1>5. ASSUME NEW j \in Jobs, Fire(j) \/ RunStep(j)
      PROVE  DoomHeld'
  <2>1. CASE Fire(j)
    BY <1>0, <2>1 DEF Fire, passVars
  <2>2. CASE RunStep(j)
    <3>1. stop' = stop
      BY <2>2 DEF RunStep, RunEnds, RunFails
    <3>2. \A l \in Passes : Advance(pass[l]).doomed = pass[l].doomed
      BY DEF DesktopTypeOK, PassState, Advance
    <3>3. \A l \in Passes : pass'[l].doomed => pass[l].doomed
      BY <2>2, <3>2, NotDoomed DEF RunStep, RunEnds, RunFails
    <3> QED
      BY <3>1, <3>3
  <2> QED
    BY <1>5, <2>1, <2>2
<1>6. ASSUME NEW k \in Passes, PassStep(k) \/ ReadRowFails(k)
      PROVE  DoomHeld'
  <2>1. stop' = stop
    BY <1>6 DEF PassStep, Wake, Begin, HandOver, TakeDeferred, ListJobs, ReadRow,
                ReadRowFails, PutOffDue, EndPass
  <2>2. \A l \in Passes : l # k => pass'[l] = pass[l]
    BY <1>6 DEF PassStep, Wake, Begin, HandOver, TakeDeferred, ListJobs, ReadRow,
                ReadRowFails, PutOffDue, EndPass, PassGoes, DesktopTypeOK
  <2>3. pass'[k].doomed => pass[k].doomed
    <3>1. pass[k] \in PassState /\ pass \in [Passes -> PassState]
      BY DEF DesktopTypeOK
    <3>0. \A t : [pass EXCEPT ![k] = t][k] = t
      BY <3>1
    <3>2. /\ Advance(pass[k]).doomed = pass[k].doomed
          /\ \A j : Await(pass[k], j).doomed = pass[k].doomed
      BY <3>1 DEF PassState, Advance, Await
    <3>3. CASE Wake(k) \/ ReadRow(k) \/ ReadRowFails(k) \/ EndPass(k)
      <4>1. [pass[k] EXCEPT !.at = "due"].doomed = pass[k].doomed
        BY <3>1 DEF PassState
      <4>2. CASE Wake(k)
        BY <3>0, <4>1, <4>2, NotDoomed DEF Wake, PassGoes
      <4>3. CASE ReadRow(k)
        BY <3>0, <3>2, <4>1, <4>3, NotDoomed DEF ReadRow, PassGoes
      <4>4. CASE ReadRowFails(k)
        BY <3>0, <4>1, <4>4, NotDoomed DEF ReadRowFails, PassGoes
      <4>5. CASE EndPass(k)
        BY <3>0, <4>1, <4>5, NotDoomed DEF EndPass, PassGoes
      <4> QED
        BY <3>3, <4>2, <4>3, <4>4, <4>5
    <3>4. CASE HandOver(k) \/ PutOffDue(k)
      <4>1. \/ pass' = [pass EXCEPT ![k] = Advance(pass[k])]
            \/ \E j : pass' = [pass EXCEPT ![k] = Await(pass[k], j)]
        BY <3>4 DEF HandOver, PutOffDue, PassGoes
      <4> QED
        BY <3>0, <3>2, <4>1
    <3>5. CASE Begin(k) \/ TakeDeferred(k) \/ ListJobs(k)
      <4>1. \A at, q : [pass[k] EXCEPT !.at = at, !.todo = q].doomed = pass[k].doomed
        BY <3>1 DEF PassState
      <4>2. \E at, q : pass' = [pass EXCEPT ![k] = [pass[k] EXCEPT !.at = at, !.todo = q]]
        BY <3>5, Zenon DEF Begin, TakeDeferred, ListJobs, PassGoes
      <4> QED
        BY <3>0, <4>1, <4>2
    <3> QED
      BY <1>6, <3>3, <3>4, <3>5 DEF PassStep
  <2> QED
    BY <2>1, <2>2, <2>3
<1>7. CASE AskStop \/ AskAgain \/ Deadline \/ CloseAndRelease \/ WoundDown \/ StopJobs
  BY <1>0, <1>7 DEF AskStop, AskAgain, Deadline, CloseAndRelease, WoundDown, StopJobs,
                    StopGoes, passVars
<1>8. CASE DropCatchUp
  BY <1>8 DEF DropCatchUp, StopGoes
<1> QED
  BY <1>1, <1>3, <1>4, <1>5, <1>6, <1>7, <1>8 DEF DesktopNext, StopStep

\* The flags, the caller and the stop.
FlagsOK == /\ serving \in BOOLEAN /\ loaded \in BOOLEAN /\ playback \in BOOLEAN
           /\ pending \in BOOLEAN /\ downloaded \in BOOLEAN
           /\ missed \subseteq Succeeded
           /\ caller \in CallerStages
           /\ stop \in StopStages

LEMMA FlagsInDesktop ==
    ASSUME FlagsOK, stopped \in BOOLEAN, [DesktopNext]_desktopVars
    PROVE  FlagsOK'
<1> USE DEF FlagsOK
<1>0. ASSUME Blank
      PROVE  FlagsOK'
  BY <1>0 DEF Blank, CallerStages, StopStages
<1>1. CASE UNCHANGED desktopVars
  BY <1>1 DEF desktopVars, runtimeVars, upVars, passVars
<1>2. CASE Acquire \/ Serve \/ FailedStart \/ Crash \/ Others \/ Exit
  BY <1>0, <1>2 DEF Acquire, Serve, FailedStart, Crash, Others, Exit,
                    runtimeVars, upVars, passVars
<1>3. CASE \/ SetPlayback(TRUE) \/ SetPlayback(FALSE) \/ SignIn \/ CallerStep
  BY <1>3 DEF SetPlayback, SignIn, CallerStep, StartJobs, CheckStopping, QueueCatchUp,
              CallerGoes, CallerStages, upVars, passVars
<1>4. ASSUME NEW j \in Jobs, Fire(j) \/ RunStep(j)
      PROVE  FlagsOK'
  BY <1>4 DEF Fire, RunStep, RunEnds, RunFails, upVars, passVars
<1>5. ASSUME NEW k \in Passes, PassStep(k) \/ ReadRowFails(k)
      PROVE  FlagsOK'
  BY <1>5 DEF PassStep, Wake, Begin, HandOver, TakeDeferred, ListJobs, ReadRow,
              ReadRowFails, PutOffDue, EndPass, upVars
<1>6. CASE AskStop \/ AskAgain \/ DropCatchUp \/ StopJobs \/ Deadline \/ CloseAndRelease
           \/ WoundDown
  BY <1>6 DEF AskStop, AskAgain, DropCatchUp, StopJobs, Deadline, CloseAndRelease,
              WoundDown, StopGoes, StopStages, upVars, passVars
<1> QED
  BY <1>1, <1>2, <1>3, <1>4, <1>5, <1>6 DEF DesktopNext, StopStep

LEMMA TypeParts == DesktopTypeOK <=> /\ FlagsOK
                                     /\ ListOK(deferred)
                                     /\ pass \in [Passes -> PassState]
BY DEF DesktopTypeOK, FlagsOK, ListOK

LEMMA TypePartsNext == DesktopTypeOK' <=> /\ FlagsOK'
                                          /\ ListOK(deferred')
                                          /\ pass' \in [Passes -> PassState]
BY DEF DesktopTypeOK, FlagsOK, ListOK

-----------------------------------------------------------------------------

LEMMA DesktopInvInductive == DesktopSpec => []DesktopInv
<1>1. DesktopInit => DesktopInv
  <2> SUFFICES ASSUME DesktopInit
               PROVE  DesktopInv
    OBVIOUS
  <2>1. LockInv
    BY DEF DesktopInit, LockInit, LockInv, LockTypeOK, NoCross, Stages, Acquiring, Files,
           Pids, NoFile, NoPid
  <2>2. SlotsInv
    BY SlotsInitInv DEF DesktopInit
  <2>3. FlagsOK /\ ListOK(deferred)
    <3>1. FlagsOK
      BY DEF DesktopInit, RuntimeInit, FlagsOK, CallerStages, StopStages
    <3>2. deferred = <<>>
      BY DEF DesktopInit, RuntimeInit
    <3> QED
      BY <3>1, <3>2 DEF ListOK
  <2>4. pass \in [Passes -> PassState] /\ PassHeld
    BY NewPasses DEF DesktopInit, RuntimeInit, PassHeld, PassOK
  <2>5. StopHeld /\ DoomHeld
    BY NotDoomed DEF DesktopInit, RuntimeInit, SlotsInit, StopHeld, DoomHeld
  <2> QED
    BY <2>1, <2>2, <2>3, <2>4, <2>5, TypeParts DEF DesktopInv
<1>2. DesktopInv /\ [DesktopNext]_desktopVars => DesktopInv'
  <2> SUFFICES ASSUME DesktopInv, [DesktopNext]_desktopVars
               PROVE  DesktopInv'
    OBVIOUS
  <2> USE DEF DesktopInv
  <2>1. LockInv' /\ SlotsInv' /\ StopHeld' /\ DoomHeld'
    BY LockInDesktop, SlotsInDesktop, StopHeldStep, DoomInDesktop
  <2>2. FlagsOK'
    BY TypeParts, FlagsInDesktop DEF SlotsInv, SlotsTypeOK
  <2>3. ListOK(deferred') /\ PassesFine'
    BY ListInDesktop, PassesInDesktop
  <2> QED
    BY <2>1, <2>2, <2>3, TypePartsNext DEF PassesFine
<1> QED
  BY <1>1, <1>2, PTL DEF DesktopSpec

\* The runtime's variables have their types, whatever jobs are in the table and
\* however many passes are under way (statics of runtime/desktop.rs).
THEOREM DesktopTypeCorrect == DesktopSpec => []DesktopTypeOK
BY DesktopInvInductive, PTL DEF DesktopInv

\* In the process that uses it, failed starts, forced exits and crashes
\* included, an owner keeps its lock file unless its start crossed another
\* (runtime/desktop.rs `run` and runtime/lock.rs).
THEOREM OwnerKeepsFileInDesktop == DesktopSpec => []OwnerHasFile
<1>1. DesktopInv => OwnerHasFile
  BY DEF DesktopInv, LockInv, NoCross, OwnerHasFile
<1> QED
  BY <1>1, DesktopInvInductive, PTL

\* The same for the hand-over of the lock: a failed start gives it back, and
\* what a forced exit or a crash leaves is never taken from a live owner.
THEOREM DesktopImplementsOwnership == DesktopSpec => ImplementsOwnership
<1>1. DesktopInit => Owned!Init
  BY DEF DesktopInit, LockInit, Owned!Init, Owners
<1>2. DesktopInv /\ [DesktopNext]_desktopVars
        => [Owned!Next]_(IF crossed THEN {} ELSE Owners)
  <2>1. LockInv /\ [LockNext]_lockVars => OwnedStep
    BY OwnershipSteps
  <2>2. LockInv /\ FailedStart => OwnedStep
    BY DesktopAssumption, EndIsOwned DEF FailedStart
  <2> QED
    BY <2>1, <2>2, LockMoves DEF DesktopInv, OwnedStep, OwnedBy
<1> QED
  BY <1>1, <1>2, DesktopInvInductive, PTL DEF DesktopSpec, ImplementsOwnership, Owned!Spec

\* For every job table nothing runs between the end of the drain and the exit
\* (`stop_jobs`, `idle` and the shutdown of runtime/desktop.rs).
THEOREM DrainedStaysIdleForAll == DesktopSpec => []DrainedStaysIdle
<1>1. DesktopInv => DrainedStaysIdle
  BY DEF DesktopInv, StopHeld, DrainedStaysIdle
<1> QED
  BY <1>1, DesktopInvInductive, PTL

\* The process keeps what the slots promise: crons, passes, a run dropped with
\* its pass, the stop and the end of the process leave no slot lost and no job
\* waiting for one that is free.
THEOREM DesktopKeepsSlots == DesktopSpec => [](SlotsAccounted /\ WorkConserving)
<1>1. DesktopInv => SlotsAccounted /\ WorkConserving
  BY DEF DesktopInv, SlotsInv
<1> QED
  BY <1>1, DesktopInvInductive, PTL

\* What a step does to the slots: one of their own, or the process ends.
LEMMA SlotMovesOrEnds ==
    ASSUME DesktopTypeOK, [DesktopNext]_desktopVars
    PROVE  [SlotsNext]_slotVars \/ Blank
<1>1. SlotStep => SlotsNext
  BY DEF SlotStep, SlotsNext
<1>2. StopJobs => SlotsNext
  BY DEF StopJobs, SlotsNext
<1> QED
  BY <1>1, <1>2, SlotMoves DEF slotVars

LEMMA DesktopQueueStaysEmpty == DesktopSpec => []StopEmptiesQueue
<1>1. DesktopInit => StopEmptiesQueue
  BY DEF DesktopInit, SlotsInit, StopEmptiesQueue
<1>2. DesktopInv /\ StopEmptiesQueue /\ [DesktopNext]_desktopVars => StopEmptiesQueue'
  BY SlotMovesOrEnds, QueueStaysEmptyStep, BlankSlots DEF DesktopInv, StopEmptiesQueue
<1> QED
  BY <1>1, <1>2, DesktopInvInductive, PTL DEF DesktopSpec

\* After `stop_jobs` no job of the process takes a slot: not a pass that the
\* abort missed, not a queued one, and not after the process has ended.
THEOREM StoppedDesktopOnlyDrains == DesktopSpec => StoppedOnlyDrains
<1>1. ASSUME DesktopInv, StopEmptiesQueue, [DesktopNext]_desktopVars, stopped
      PROVE  stopped' /\ ActiveIds' \subseteq ActiveIds
  <2>1. CASE [SlotsNext]_slotVars
    BY <1>1, <2>1, StoppedStep DEF DesktopInv
  <2>2. CASE Blank
    BY <2>2, BlankSlots DEF Blank
  <2> QED
    BY <1>1, <2>1, <2>2, SlotMovesOrEnds DEF DesktopInv
<1>2. DesktopInv /\ StopEmptiesQueue /\ [DesktopNext]_desktopVars
        => [stopped => stopped' /\ ActiveIds' \subseteq ActiveIds]_slotVars
  BY <1>1
<1> QED
  BY <1>2, DesktopInvInductive, DesktopQueueStaysEmpty, PTL
     DEF DesktopSpec, StoppedOnlyDrains

\* Crons, passes and releases start the queued jobs of a weight in their order.
THEOREM DesktopKeepsOrder == DesktopSpec => QueueOrder
<1> DEFINE Step(j, k) == /\ WeightOf(j) = WeightOf(k)
                         /\ place[k] < place[j]
                         /\ active'[j] > active[j]
                         /\ k \in Queued'
                         => active'[k] > 0
<1>1. ASSUME DesktopInv, [DesktopNext]_desktopVars, NEW j \in Queued, NEW k \in Queued
      PROVE  Step(j, k)
  <2>1. CASE [SlotsNext]_slotVars
    BY <1>1, <2>1, OrderStep DEF DesktopInv
  <2>2. CASE Blank
    BY <2>2, BlankSlots
  <2> QED
    BY <1>1, <2>1, <2>2, SlotMovesOrEnds DEF DesktopInv
<1>2. DesktopInv /\ [DesktopNext]_desktopVars
        => [\A j, k \in Queued :
              /\ WeightOf(j) = WeightOf(k)
              /\ place[k] < place[j]
              /\ active'[j] > active[j]
              /\ k \in Queued'
              => active'[k] > 0]_slotVars
  BY <1>1
<1> QED
  BY <1>2, DesktopInvInductive, PTL DEF DesktopSpec, QueueOrder

-----------------------------------------------------------------------------
(* The way of a job that was put off *)

Listed(q, j) == \E i \in DOMAIN q : q[i] = j

Holds(s, j) == s.at = "deferred" /\ s.job # j /\ Listed(s.todo, j)

LEMMA AwaitsParts ==
    ASSUME NEW j
    PROVE  /\ Awaits(j) <=> \/ Listed(deferred, j)
                            \/ \E k \in Passes : Holds(pass[k], j)
           /\ Awaits(j)' <=> \/ Listed(deferred', j)
                             \/ \E k \in Passes : Holds(pass'[k], j)
BY Zenon DEF Awaits, Listed, Holds

\* What is behind the head stays on the list.
LEMMA TailKeeps ==
    ASSUME NEW q \in Seq(Jobs), NEW j, Listed(q, j), Head(q) # j
    PROVE  q # <<>> /\ Listed(Tail(q), j)
<1>1. PICK i \in DOMAIN q : q[i] = j
  BY DEF Listed
<1>2. q # <<>> /\ i \in 1..Len(q) /\ i # 1
  BY <1>1
<1>3. i - 1 \in DOMAIN Tail(q) /\ Tail(q)[i - 1] = j
  BY <1>1, <1>2
<1> QED
  BY <1>2, <1>3 DEF Listed

LEMMA PutKeeps ==
    ASSUME NEW q \in Seq(Heavy), NEW h, NEW j, Listed(q, j)
    PROVE  Listed(Put(q, h), j)
<1>1. PICK i \in DOMAIN q : q[i] = j
  BY DEF Listed
<1>2. i \in DOMAIN Append(q, h) /\ Append(q, h)[i] = j
  BY <1>1
<1> QED
  BY <1>1, <1>2 DEF Put, Listed

LEMMA AdvanceHolds ==
    ASSUME NEW s \in PassState, NEW j \in Jobs, Holds(s, j), Head(s.todo) # j
    PROVE  Holds(Advance(s), j)
<1>1. s.todo \in Seq(Jobs)
  BY DEF PassState
<1>2. Listed(Tail(s.todo), j)
  BY <1>1, TailKeeps DEF Holds
<1>3. /\ Advance(s).at = "deferred"
      /\ Advance(s).job = NoJob
      /\ Advance(s).todo = Tail(s.todo)
  BY DEF Advance, PassState, Holds
<1> QED
  BY <1>2, <1>3, DesktopAssumption DEF Holds

Arrived(j) == active'[j] > 0 \/ place'[j] > 0 \/ Stopping' \/ PassFails'

\* A job that is on the list.
LEMMA ListedIsKept ==
    ASSUME DesktopInv, [DesktopNext]_desktopVars, NEW j \in Heavy, Listed(deferred, j)
    PROVE  Awaits(j)' \/ Arrived(j)
<1> DEFINE Goal == Awaits(j)' \/ Arrived(j)
<1> USE DEF DesktopInv
<1>0. /\ Listed(deferred', j) => Goal
      /\ Stopping' => Goal
  BY AwaitsParts DEF Arrived
<1>1. CASE UNCHANGED desktopVars
  BY <1>0, <1>1 DEF desktopVars, runtimeVars
<1>2. CASE Blank \/ AskStop \/ AskAgain \/ DropCatchUp \/ StopJobs \/ Deadline
           \/ CloseAndRelease \/ WoundDown
  BY <1>0, <1>2 DEF Blank, AskStop, AskAgain, DropCatchUp, StopJobs, Deadline,
                    CloseAndRelease, WoundDown, StopGoes, Stopping
<1>3. CASE Acquire \/ Serve \/ FailedStart \/ Crash \/ Others \/ Exit
  BY <1>0, <1>2, <1>3 DEF Acquire, Serve, FailedStart, Crash, Others, Exit, runtimeVars
<1>4. CASE \/ SetPlayback(TRUE) \/ SetPlayback(FALSE) \/ SignIn \/ CallerStep
  BY <1>0, <1>4 DEF SetPlayback, SignIn, CallerStep, StartJobs, CheckStopping, QueueCatchUp
<1>5. ASSUME NEW h \in Jobs, Fire(h) \/ RunStep(h)
      PROVE  Goal
  <2>1. Listed(Put(deferred, h), j)
    BY PutKeeps DEF DesktopTypeOK
  <2> QED
    BY <1>0, <1>5, <2>1 DEF Fire, RunStep, RunEnds, RunFails
<1>6. ASSUME NEW k \in Passes, PassStep(k) \/ ReadRowFails(k)
      PROVE  Goal
  <2>1. CASE PutOffDue(k)
    BY <1>0, <2>1, PutKeeps DEF PutOffDue, DesktopTypeOK
  <2>2. CASE TakeDeferred(k) /\ ~playback
    <3>1. pass'[k] = [pass[k] EXCEPT !.at = "deferred", !.todo = deferred]
      BY <2>2 DEF TakeDeferred, PassGoes, DesktopTypeOK
    <3>2. pass[k].job = NoJob /\ pass[k] \in PassState
      BY <2>2 DEF TakeDeferred, PassHeld, DesktopTypeOK
    <3>3. /\ pass'[k].at = "deferred"
          /\ pass'[k].todo = deferred
          /\ pass'[k].job = NoJob
      BY <3>1, <3>2 DEF PassState
    <3>4. NoJob # j
      BY DesktopAssumption DEF Jobs
    <3>5. Holds(pass'[k], j)
      BY <3>3, <3>4 DEF Holds
    <3> QED
      BY <3>5, AwaitsParts
  <2>3. CASE TakeDeferred(k) /\ playback
    BY <1>0, <2>3 DEF TakeDeferred
  <2> QED
    BY <1>0, <1>6, <2>1, <2>2, <2>3
       DEF PassStep, Wake, Begin, HandOver, ListJobs, ReadRow, ReadRowFails, EndPass
<1> QED
  BY <1>1, <1>2, <1>3, <1>4, <1>5, <1>6 DEF DesktopNext, StopStep

\* A job that a pass has taken.
LEMMA HeldIsKept ==
    ASSUME DesktopInv, [DesktopNext]_desktopVars, NEW j \in Heavy,
           NEW l \in Passes, Holds(pass[l], j)
    PROVE  Awaits(j)' \/ Arrived(j)
<1> DEFINE Goal == Awaits(j)' \/ Arrived(j)
<1> USE DEF DesktopInv
<1>0. /\ Holds(pass'[l], j) => Goal
      /\ pass' = pass => Goal
      /\ Stopping' => Goal
      /\ pass'[l] = Failed => Goal
  BY AwaitsParts DEF Arrived, PassFails
<1>1. /\ pass[l] \in PassState
      /\ pass[l].at = "deferred"
      /\ pass[l].job # j
      /\ pass[l].todo \in Seq(Jobs)
      /\ Listed(pass[l].todo, j)
      /\ j \in Jobs
  BY DEF DesktopTypeOK, PassState, Holds, Jobs
<1>2. Head(pass[l].todo) # j => Holds(Advance(pass[l]), j)
  BY <1>1, AdvanceHolds
<1>3. CASE UNCHANGED desktopVars
  BY <1>0, <1>3 DEF desktopVars, runtimeVars, passVars
<1>4. CASE Blank \/ AskStop \/ AskAgain \/ DropCatchUp \/ StopJobs \/ Deadline
           \/ CloseAndRelease \/ WoundDown
  BY <1>0, <1>4 DEF Blank, AskStop, AskAgain, DropCatchUp, StopJobs, Deadline,
                    CloseAndRelease, WoundDown, StopGoes, Stopping
<1>5. CASE Acquire \/ Serve \/ FailedStart \/ Crash \/ Others \/ Exit
  BY <1>0, <1>4, <1>5 DEF Acquire, Serve, FailedStart, Crash, Others, Exit,
                          runtimeVars, passVars
<1>6. CASE \/ SetPlayback(TRUE) \/ SetPlayback(FALSE) \/ SignIn \/ CallerStep
  BY <1>0, <1>6 DEF SetPlayback, SignIn, CallerStep, StartJobs, CheckStopping,
                    QueueCatchUp, passVars
<1>7. ASSUME NEW h \in Jobs, Fire(h) \/ RunStep(h)
      PROVE  Goal
  <2>1. CASE Fire(h)
    BY <1>0, <2>1 DEF Fire, passVars
  <2>2. CASE RunStep(h)
    <3>1. l \in Waiting(h) => Head(pass[l].todo) # j
      BY <1>1, DesktopAssumption DEF Waiting, PassHeld
    <3>2. \/ pass'[l] = pass[l]
          \/ pass'[l] = Failed
          \/ l \in Waiting(h) /\ pass'[l] = Advance(pass[l])
      BY <2>2 DEF RunStep, RunEnds, RunFails
    <3> QED
      BY <1>0, <1>2, <3>1, <3>2
  <2> QED
    BY <1>7, <2>1, <2>2
<1>8. ASSUME NEW k \in Passes, PassStep(k) \/ ReadRowFails(k)
      PROVE  Goal
  <2>1. CASE k # l
    <3>1. pass'[l] = pass[l]
      BY <1>8, <2>1
         DEF PassStep, Wake, Begin, HandOver, TakeDeferred, ListJobs, ReadRow,
             ReadRowFails, PutOffDue, EndPass, PassGoes, DesktopTypeOK
    <3> QED
      BY <1>0, <3>1
  <2>2. CASE HandOver(l) /\ Head(pass[l].todo) # j
    <3> DEFINE h == Head(pass[l].todo)
    <3>1. CASE pass'[l] = Advance(pass[l])
      BY <1>0, <1>2, <2>2, <3>1
    <3>2. CASE pass'[l] = Await(pass[l], h)
      <4>1. pass[l].doomed => Stopping'
        BY <2>2 DEF DoomHeld, HandOver, Stopping
      <4>2. ~pass[l].doomed => Holds(Await(pass[l], h), j)
        BY <1>1, <2>2 DEF Await, Holds, PassState
      <4> QED
        BY <1>0, <3>2, <4>1, <4>2
    <3>3. \/ pass' = [pass EXCEPT ![l] = Advance(pass[l])]
          \/ pass' = [pass EXCEPT ![l] = Await(pass[l], h)]
      BY <2>2 DEF HandOver
    <3> QED
      BY <3>1, <3>2, <3>3 DEF DesktopTypeOK
  <2>3. CASE HandOver(l) /\ Head(pass[l].todo) = j
    <3>1. \/ stopped /\ stop' = stop
          \/ Defer(j)
          \/ Admit(j)
      BY <2>3 DEF HandOver
    <3>2. CASE stopped /\ stop' = stop
      BY <1>0, <3>2 DEF StopHeld, Stopping
    <3>3. CASE Defer(j)
      <4>1. Cardinality(Queued) \in Nat
        BY JobsFinite DEF Queued
      <4>2. place'[j] > 0
        BY <1>1, <3>3, <4>1 DEF Defer, Queued, SlotsInv, SlotsTypeOK
      <4> QED
        BY <4>2 DEF Arrived
    <3>4. CASE Admit(j)
      <4>1. active'[j] > 0
        BY <1>1, <3>4 DEF Admit, SlotsInv, SlotsTypeOK
      <4> QED
        BY <4>1 DEF Arrived
    <3> QED
      BY <3>1, <3>2, <3>3, <3>4
  <2>4. ~ListJobs(l)
    BY <1>1 DEF ListJobs, Listed
  <2>5. \/ HandOver(l)
        \/ k # l
    BY <1>1, <1>8, <2>4 DEF PassStep, Wake, Begin, TakeDeferred, ReadRow, ReadRowFails,
                            PutOffDue, EndPass, PassGoes
  <2> QED
    BY <2>1, <2>2, <2>3, <2>5
<1> QED
  BY <1>3, <1>4, <1>5, <1>6, <1>7, <1>8 DEF DesktopNext, StopStep

\* For every job table, list and number of passes a job that was put off gets
\* from the list over a pass to the executor, unless the process stops or a
\* pass fails (`run_deferred` and `catch_up` of runtime/desktop.rs).
THEOREM DeferredIsHandedOverForAll == DesktopSpec => DeferredIsHandedOver
<1>1. ASSUME DesktopInv, [DesktopNext]_desktopVars, NEW j \in Heavy, Awaits(j), ~Awaits(j)'
      PROVE  active'[j] > 0 \/ place'[j] > 0 \/ Stopping' \/ PassFails'
  BY <1>1, AwaitsParts, ListedIsKept, HeldIsKept DEF Arrived
<1>2. DesktopInv /\ [DesktopNext]_desktopVars
        => [\A j \in Heavy : Awaits(j) /\ ~Awaits(j)'
              => active'[j] > 0 \/ place'[j] > 0 \/ Stopping' \/ PassFails']_desktopVars
  BY <1>1
<1> QED
  BY <1>2, DesktopInvInductive, PTL DEF DesktopSpec, DeferredIsHandedOver

-----------------------------------------------------------------------------
(* The way of a job that missed an occurrence *)

Looks(s, j) == s.at \in {"missed", "due"} /\ s.job # j /\ Listed(s.todo, j)

LEMMA ChecksParts ==
    ASSUME NEW k, NEW j
    PROVE  /\ Checks(k, j) <=> Looks(pass[k], j)
           /\ Checks(k, j)' <=> Looks(pass'[k], j)
BY Zenon DEF Checks, Looks, Listed

LEMMA AdvanceLooks ==
    ASSUME NEW s \in PassState, NEW j \in Jobs, Looks(s, j), Head(s.todo) # j
    PROVE  Looks(Advance(s), j)
<1>1. s.todo \in Seq(Jobs)
  BY DEF PassState
<1>2. Listed(Tail(s.todo), j)
  BY <1>1, TailKeeps DEF Looks
<1>3. /\ Advance(s).at = "missed"
      /\ Advance(s).job = NoJob
      /\ Advance(s).todo = Tail(s.todo)
  BY DEF Advance, PassState, Looks
<1> QED
  BY <1>2, <1>3, DesktopAssumption DEF Looks

\* A job that was put off is on the list.
LEMMA PutLists ==
    ASSUME NEW q \in Seq(Heavy), NEW j
    PROVE  Listed(Put(q, j), j)
<1>1. Len(q) + 1 \in DOMAIN Append(q, j) /\ Append(q, j)[Len(q) + 1] = j
  OBVIOUS
<1> QED
  BY <1>1 DEF Put, Listed

SeenTo(k, j) == \/ pass[k].at = "missed" /\ j \notin missed
                \/ active'[j] > 0
                \/ place'[j] > 0
                \/ Listed(deferred', j)
                \/ Stopping'
                \/ pass'[k] = Failed

LEMMA CheckedIsKept ==
    ASSUME DesktopInv, [DesktopNext]_desktopVars, NEW j \in Jobs,
           NEW l \in Passes, Looks(pass[l], j)
    PROVE  Looks(pass'[l], j) \/ SeenTo(l, j)
<1> DEFINE Goal == Looks(pass'[l], j) \/ SeenTo(l, j)
<1> USE DEF DesktopInv
<1>0. /\ Looks(pass'[l], j) => Goal
      /\ pass' = pass => Goal
      /\ Stopping' => Goal
      /\ pass'[l] = Failed => Goal
  BY DEF SeenTo
<1>1. /\ pass[l] \in PassState
      /\ pass[l].at \in {"missed", "due"}
      /\ pass[l].job # j
      /\ pass[l].todo \in Seq(Jobs)
      /\ Listed(pass[l].todo, j)
  BY DEF DesktopTypeOK, PassState, Looks
<1>2. Head(pass[l].todo) # j => Looks(Advance(pass[l]), j)
  BY <1>1, AdvanceLooks
<1>3. CASE UNCHANGED desktopVars
  BY <1>0, <1>3 DEF desktopVars, runtimeVars, passVars
<1>4. CASE Blank \/ AskStop \/ AskAgain \/ DropCatchUp \/ StopJobs \/ Deadline
           \/ CloseAndRelease \/ WoundDown
  BY <1>0, <1>4 DEF Blank, AskStop, AskAgain, DropCatchUp, StopJobs, Deadline,
                    CloseAndRelease, WoundDown, StopGoes, Stopping
<1>5. CASE Acquire \/ Serve \/ FailedStart \/ Crash \/ Others \/ Exit
  BY <1>0, <1>4, <1>5 DEF Acquire, Serve, FailedStart, Crash, Others, Exit,
                          runtimeVars, passVars
<1>6. CASE \/ SetPlayback(TRUE) \/ SetPlayback(FALSE) \/ SignIn \/ CallerStep
  BY <1>0, <1>6 DEF SetPlayback, SignIn, CallerStep, StartJobs, CheckStopping,
                    QueueCatchUp, passVars
<1>7. ASSUME NEW h \in Jobs, Fire(h) \/ RunStep(h)
      PROVE  Goal
  <2>1. CASE Fire(h)
    BY <1>0, <2>1 DEF Fire, passVars
  <2>2. CASE RunStep(h)
    <3>1. l \in Waiting(h) => Head(pass[l].todo) # j
      BY <1>1, DesktopAssumption DEF Waiting, PassHeld
    <3>2. \/ pass'[l] = pass[l]
          \/ pass'[l] = Failed
          \/ l \in Waiting(h) /\ pass'[l] = Advance(pass[l])
      BY <2>2 DEF RunStep, RunEnds, RunFails
    <3> QED
      BY <1>0, <1>2, <3>1, <3>2
  <2> QED
    BY <1>7, <2>1, <2>2
<1>8. ASSUME NEW k \in Passes, PassStep(k) \/ ReadRowFails(k)
      PROVE  Goal
  <2>1. CASE k # l
    <3>1. pass'[l] = pass[l]
      BY <1>8, <2>1
         DEF PassStep, Wake, Begin, HandOver, TakeDeferred, ListJobs, ReadRow,
             ReadRowFails, PutOffDue, EndPass, PassGoes, DesktopTypeOK
    <3> QED
      BY <1>0, <3>1
  <2>2. CASE HandOver(l) /\ Head(pass[l].todo) # j
    <3> DEFINE h == Head(pass[l].todo)
    <3>1. CASE pass'[l] = Advance(pass[l])
      BY <1>0, <1>2, <2>2, <3>1
    <3>2. CASE pass'[l] = Await(pass[l], h)
      <4>1. pass[l].doomed => Stopping'
        BY <2>2 DEF DoomHeld, HandOver, Stopping
      <4>2. ~pass[l].doomed => Looks(Await(pass[l], h), j)
        BY <1>1, <2>2 DEF Await, Looks, PassState
      <4> QED
        BY <1>0, <3>2, <4>1, <4>2
    <3>3. \/ pass' = [pass EXCEPT ![l] = Advance(pass[l])]
          \/ pass' = [pass EXCEPT ![l] = Await(pass[l], h)]
      BY <2>2 DEF HandOver
    <3> QED
      BY <3>1, <3>2, <3>3 DEF DesktopTypeOK
  <2>3. CASE HandOver(l) /\ Head(pass[l].todo) = j
    <3>1. \/ stopped /\ stop' = stop
          \/ Defer(j)
          \/ Admit(j)
      BY <2>3 DEF HandOver
    <3>2. CASE stopped /\ stop' = stop
      BY <1>0, <3>2 DEF StopHeld, Stopping
    <3>3. CASE Defer(j)
      <4>1. Cardinality(Queued) \in Nat
        BY JobsFinite DEF Queued
      <4>2. place'[j] > 0
        BY <1>1, <3>3, <4>1 DEF Defer, Queued, SlotsInv, SlotsTypeOK
      <4> QED
        BY <4>2 DEF SeenTo
    <3>4. CASE Admit(j)
      <4>1. active'[j] > 0
        BY <1>1, <3>4 DEF Admit, SlotsInv, SlotsTypeOK
      <4> QED
        BY <4>1 DEF SeenTo
    <3> QED
      BY <3>1, <3>2, <3>3, <3>4
  <2>4. CASE ReadRow(l)
    <3>1. \/ pass[l].doomed
          \/ pass'[l] = [pass[l] EXCEPT !.at = "due"]
          \/ pass[l].at = "missed" /\ Head(pass[l].todo) \notin missed
             /\ pass'[l] = Advance(pass[l])
      BY <2>4 DEF ReadRow, PassGoes, DesktopTypeOK
    <3>2. CASE pass[l].doomed
      BY <1>0, <2>4, <3>2 DEF DoomHeld, ReadRow, Stopping
    <3>3. CASE pass'[l] = [pass[l] EXCEPT !.at = "due"]
      BY <1>0, <1>1, <3>3 DEF Looks, PassState
    <3>4. CASE /\ pass[l].at = "missed" /\ Head(pass[l].todo) \notin missed
               /\ pass'[l] = Advance(pass[l])
      BY <1>0, <1>2, <3>4 DEF SeenTo
    <3> QED
      BY <3>1, <3>2, <3>3, <3>4
  <2>5. CASE PutOffDue(l)
    <3>1. /\ deferred' = Put(deferred, Head(pass[l].todo))
          /\ pass'[l] = Advance(pass[l])
      BY <2>5 DEF PutOffDue, PassGoes, DesktopTypeOK
    <3>2. Head(pass[l].todo) = j => Listed(deferred', j)
      BY <3>1, PutLists DEF DesktopTypeOK
    <3> QED
      BY <1>0, <1>2, <3>1, <3>2 DEF SeenTo
  <2>6. CASE ReadRowFails(l)
    <3>1. pass'[l] = Failed
      BY <2>6 DEF ReadRowFails, PassGoes, DesktopTypeOK
    <3> QED
      BY <1>0, <3>1
  <2>7. ~EndPass(l)
    BY <1>1 DEF EndPass, Listed
  <2>8. \/ HandOver(l) \/ ReadRow(l) \/ PutOffDue(l) \/ ReadRowFails(l)
        \/ k # l
    BY <1>1, <1>8, <2>7 DEF PassStep, Wake, Begin, TakeDeferred, ListJobs, PassGoes
  <2> QED
    BY <2>1, <2>2, <2>3, <2>4, <2>5, <2>6, <2>8
<1> QED
  BY <1>3, <1>4, <1>5, <1>6, <1>7, <1>8 DEF DesktopNext, StopStep

\* For every job table and number of passes a pass deals with each job that
\* missed an occurrence, unless the process stops or the pass fails
\* (`catch_up` and `run_scheduled` of runtime/desktop.rs).
THEOREM MissedIsHandedOverForAll == DesktopSpec => MissedIsHandedOver
<1>1. TableIds \subseteq Jobs
  BY DesktopAssumption DEF TableIds
<1>2. ASSUME DesktopInv, [DesktopNext]_desktopVars, NEW k \in Passes, NEW j \in TableIds
      PROVE  Checks(k, j) /\ ~Checks(k, j)'
         => \/ pass[k].at = "missed" /\ j \notin missed
            \/ active'[j] > 0
            \/ place'[j] > 0
            \/ \E i \in DOMAIN deferred' : deferred'[i] = j
            \/ Stopping'
            \/ pass'[k] = Failed
  <2>1. Checks(k, j) /\ ~Checks(k, j)' => SeenTo(k, j)
    BY <1>1, <1>2, ChecksParts, CheckedIsKept
  <2> QED
    BY <2>1 DEF SeenTo, Listed
<1>3. DesktopInv /\ [DesktopNext]_desktopVars
    => [\A k \in Passes : \A j \in TableIds : Checks(k, j) /\ ~Checks(k, j)'
         => \/ pass[k].at = "missed" /\ j \notin missed
            \/ active'[j] > 0
            \/ place'[j] > 0
            \/ \E i \in DOMAIN deferred' : deferred'[i] = j
            \/ Stopping'
            \/ pass'[k] = Failed]_desktopVars
  BY <1>2
<1> QED
  BY <1>3, DesktopInvInductive, PTL DEF DesktopSpec, MissedIsHandedOver
=============================================================================
