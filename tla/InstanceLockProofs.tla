------------------------- MODULE InstanceLockProofs -------------------------
(***************************************************************************)
(* The instance lock keeps its file for its owner, whatever number of       *)
(* processes start, crash and exit, as long as their starts do not cross.   *)
(***************************************************************************)
EXTENDS InstanceLock, TLAPS

\* Without a crossing: one process at most is in `acquire`; it knows a live
\* owner by its pid, and goes beyond the question only when there is none.
NoCross ==
    ~crossed =>
      /\ \A p, q \in Procs : stage[p] \in Acquiring /\ stage[q] \in Acquiring => p = q
      /\ \A p \in Procs : stage[p] = "owner" => file = [by |-> p, full |-> TRUE]
      /\ \A p \in Procs : stage[p] = "write" => file = [by |-> p, full |-> FALSE]
      /\ \A p, q \in Procs : /\ stage[q] = "owner"
                             /\ stage[p] \in Acquiring
                             => /\ stage[p] \in {"open", "read", "probe"}
                                /\ stage[p] = "probe" => seen[p] = q

LockInv == LockTypeOK /\ NoCross

LEMMA LockTypes == LockTypeOK /\ [LockNext]_lockVars => LockTypeOK'
<1> SUFFICES ASSUME LockTypeOK, [LockNext]_lockVars
             PROVE  LockTypeOK'
  OBVIOUS
<1> USE DEF LockTypeOK, Stages, Acquiring, Files, Pids, NoFile, NoPid, Goes, Probed
<1>1. CASE UNCHANGED lockVars
  BY <1>1 DEF lockVars
<1>2. ASSUME NEW p \in Procs, Launch(p)
      PROVE  LockTypeOK'
  BY <1>2 DEF Launch
<1>3. ASSUME NEW p \in Procs, Open(p)
      PROVE  LockTypeOK'
  <2>1. [by |-> p, full |-> FALSE] \in Files
    OBVIOUS
  <2>2. stage' \in [Procs -> Stages]
    BY <1>3 DEF Open
  <2> QED
    BY <1>3, <2>1, <2>2 DEF Open
<1>4. ASSUME NEW p \in Procs, Read(p)
      PROVE  LockTypeOK'
  <2>1. file.full => file.by \in Pids
    <3>1. CASE file = NoFile
      BY <3>1
    <3>2. CASE file \in [by : Procs \cup {Earlier}, full : BOOLEAN]
      BY <3>2
    <3> QED
      BY <3>1, <3>2
  <2> QED
    BY <1>4, <2>1 DEF Read
<1>5. ASSUME NEW p \in Procs, Refuse(p) \/ RefuseReused(p) \/ TakeOver(p)
      PROVE  LockTypeOK'
  BY <1>5 DEF Refuse, RefuseReused, TakeOver
<1>6. ASSUME NEW p \in Procs, RemoveStale(p)
      PROVE  LockTypeOK'
  BY <1>6 DEF RemoveStale
<1>7. ASSUME NEW p \in Procs, Reopen(p)
      PROVE  LockTypeOK'
  <2>1. [by |-> p, full |-> FALSE] \in Files
    OBVIOUS
  <2>2. stage' \in [Procs -> Stages]
    BY <1>7 DEF Reopen
  <2> QED
    BY <1>7, <2>1, <2>2 DEF Reopen
<1>8. ASSUME NEW p \in Procs, WritePid(p)
      PROVE  LockTypeOK'
  <2>1. file' \in Files
    <3>1. CASE file = NoFile
      <4>1. file.by = p => file' = [by |-> p, full |-> TRUE]
        BY <1>8, <3>1 DEF WritePid
      <4> QED
        BY <1>8, <3>1, <4>1 DEF WritePid
    <3>2. CASE file \in [by : Procs \cup {Earlier}, full : BOOLEAN]
      BY <1>8, <3>2 DEF WritePid
    <3> QED
      BY <3>1, <3>2
  <2>2. stage' \in [Procs -> Stages]
    BY <1>8 DEF WritePid
  <2> QED
    BY <1>8, <2>1, <2>2 DEF WritePid
<1>9. ASSUME NEW p \in Procs, ReleaseLock(p) \/ Leave(p)
      PROVE  LockTypeOK'
  BY <1>9 DEF ReleaseLock, Leave
<1> QED
  BY <1>1, <1>2, <1>3, <1>4, <1>5, <1>6, <1>7, <1>8, <1>9
     DEF LockNext, LockStep, AcquireStep

LEMMA NoCrossStep == LockInv /\ [LockNext]_lockVars => NoCross'
<1> SUFFICES ASSUME LockInv, [LockNext]_lockVars, ~crossed'
             PROVE  NoCross'
  BY DEF NoCross
<1> USE DEF LockInv, LockTypeOK, NoCross, Acquiring, Goes, Probed
<1>1. CASE UNCHANGED lockVars
  BY <1>1 DEF lockVars
<1>2. ASSUME NEW p \in Procs, Launch(p)
      PROVE  NoCross'
  BY <1>2 DEF Launch
<1>3. ASSUME NEW p \in Procs, Open(p)
      PROVE  NoCross'
  <2>2. CASE file = NoFile
    <3>1. \A q \in Procs : stage[q] # "owner"
      BY <1>3, <2>2 DEF Open, NoFile
    <3> QED
      BY <1>3, <2>2, <3>1 DEF Open
  <2>3. CASE file # NoFile
    BY <1>3, <2>3 DEF Open
  <2> QED
    BY <2>2, <2>3
<1>4. ASSUME NEW p \in Procs, Read(p)
      PROVE  NoCross'
  BY <1>4 DEF Read
<1>5. ASSUME NEW p \in Procs, Refuse(p) \/ RefuseReused(p) \/ TakeOver(p)
      PROVE  NoCross'
  BY <1>5 DEF Refuse, RefuseReused, TakeOver, Alive
<1>6. ASSUME NEW p \in Procs, RemoveStale(p)
      PROVE  NoCross'
  BY <1>6 DEF RemoveStale
<1>7. ASSUME NEW p \in Procs, Reopen(p)
      PROVE  NoCross'
  BY <1>7 DEF Reopen
<1>8. ASSUME NEW p \in Procs, WritePid(p)
      PROVE  NoCross'
  <2>1. file = [by |-> p, full |-> FALSE]
    BY <1>8 DEF WritePid
  <2>2. file' = [by |-> p, full |-> TRUE]
    BY <1>8, <2>1 DEF WritePid
  <2>3. \A q \in Procs : stage[q] # "owner" /\ (q # p => stage[q] \notin Acquiring)
    BY <1>8 DEF WritePid
  <2> QED
    BY <1>8, <2>2, <2>3 DEF WritePid
<1>9. ASSUME NEW p \in Procs, ReleaseLock(p)
      PROVE  NoCross'
  <2>1. \A q \in Procs : stage[q] = "owner" => q = p
    BY <1>9 DEF ReleaseLock
  <2>2. \A q \in Procs : stage[q] # "write"
    BY <1>9 DEF ReleaseLock
  <2> QED
    BY <1>9, <2>1, <2>2 DEF ReleaseLock
<1>10. ASSUME NEW p \in Procs, Leave(p)
       PROVE  NoCross'
  BY <1>10 DEF Leave
<1> QED
  BY <1>1, <1>2, <1>3, <1>4, <1>5, <1>6, <1>7, <1>8, <1>9, <1>10
     DEF LockNext, LockStep, AcquireStep

LEMMA LockInvInductive == LockSpec => []LockInv
<1>1. LockInit => LockInv
  BY DEF LockInit, LockInv, LockTypeOK, NoCross, Stages, Acquiring, Files, Pids,
         NoFile, NoPid
<1>2. LockInv /\ [LockNext]_lockVars => LockInv'
  BY LockTypes, NoCrossStep DEF LockInv
<1> QED
  BY <1>1, <1>2, PTL DEF LockSpec

\* For every number of processes the results of `acquire`'s calls have their
\* types (runtime/lock.rs, `acquire` and `release`).
THEOREM LockTypeCorrect == LockSpec => []LockTypeOK
BY LockInvInductive, PTL DEF LockInv

\* For every number of processes an owner whose start crossed no other has its
\* own file with its pid at the path until it gives it back (runtime/lock.rs).
THEOREM OwnerKeepsFile == LockSpec => []OwnerHasFile
<1>1. LockInv => OwnerHasFile
  BY DEF LockInv, NoCross, OwnerHasFile
<1> QED
  BY <1>1, LockInvInductive, PTL

-----------------------------------------------------------------------------
(* The abstract lock *)

OwnedBy == IF crossed THEN {} ELSE Owners

OwnedStep == [Owned!Next]_OwnedBy

LEMMA OneOwner == ASSUME LockInv, ~crossed, NEW p \in Procs, stage[p] = "owner"
                  PROVE  Owners = {p} /\ (\A q \in Procs : stage[q] # "write")
<1>1. \A q \in Procs : stage[q] = "owner" => q = p
  BY DEF LockInv, NoCross
<1>2. \A q \in Procs : stage[q] # "write"
  BY DEF LockInv, NoCross, Acquiring
<1> QED
  BY <1>1, <1>2 DEF Owners

\* From one owner to none.
LEMMA GiveIsOwned == ASSUME LockInv, OwnedBy' = {}
                     PROVE  OwnedStep
<1>1. CASE OwnedBy = {}
  BY <1>1 DEF OwnedStep
<1>2. CASE OwnedBy # {}
  <2>1. PICK p \in Procs : ~crossed /\ stage[p] = "owner"
    BY <1>2 DEF OwnedBy, Owners
  <2>2. OwnedBy = {p}
    BY <2>1, OneOwner DEF OwnedBy
  <2>3. Owned!Give(p)
    BY <2>2 DEF Owned!Give, OwnedBy
  <2> QED
    BY <2>3 DEF OwnedStep, Owned!Next, OwnedBy
<1> QED
  BY <1>1, <1>2

\* The owner gives the lock back or is gone.
LEMMA EndIsOwned == ASSUME LockInv, NEW p \in Procs, stage[p] = "owner", NEW to,
                           to # "owner", stage' = [stage EXCEPT ![p] = to],
                           UNCHANGED crossed
                    PROVE  OwnedStep
<1>1. ~crossed => Owners = {p}
  BY OneOwner
<1>2. ~crossed => Owners' = {}
  BY <1>1 DEF Owners, LockInv, LockTypeOK
<1> QED
  BY <1>2, GiveIsOwned DEF OwnedBy

\* Nobody becomes an owner or ceases to be one.
LEMMA OwnersStay == ASSUME LockInv, NEW p \in Procs, NEW to, stage[p] # "owner",
                           to # "owner", stage' = [stage EXCEPT ![p] = to],
                           UNCHANGED crossed
                    PROVE  OwnedStep
<1>1. Owners' = Owners
  BY DEF Owners, LockInv, LockTypeOK
<1> QED
  BY <1>1 DEF OwnedStep, OwnedBy

LEMMA OwnershipSteps == LockInv /\ [LockNext]_lockVars => OwnedStep
<1> SUFFICES ASSUME LockInv, [LockNext]_lockVars
             PROVE  OwnedStep
  OBVIOUS
<1>1. CASE UNCHANGED lockVars
  BY <1>1 DEF lockVars, OwnedStep, OwnedBy, Owners
<1>2. ASSUME NEW p \in Procs, Launch(p)
      PROVE  OwnedStep
  <2>1. CASE crossed' /\ ~crossed
    BY <2>1, GiveIsOwned DEF OwnedBy
  <2>2. CASE crossed' <=> crossed
    <3>1. Owners' = Owners
      BY <1>2 DEF Launch, Goes, Owners, LockInv, LockTypeOK
    <3> QED
      BY <2>2, <3>1 DEF OwnedStep, OwnedBy
  <2> QED
    BY <1>2, <2>1, <2>2 DEF Launch
<1>3. ASSUME NEW p \in Procs,
             Open(p) \/ Read(p) \/ Refuse(p) \/ RefuseReused(p) \/ TakeOver(p)
               \/ RemoveStale(p) \/ Reopen(p)
      PROVE  OwnedStep
  BY <1>3, OwnersStay
     DEF Open, Read, Refuse, RefuseReused, TakeOver, RemoveStale, Reopen, Probed, Goes
<1>4. ASSUME NEW p \in Procs, WritePid(p)
      PROVE  OwnedStep
  <2>1. CASE crossed
    BY <1>4, <2>1 DEF WritePid, OwnedStep, OwnedBy
  <2>2. CASE ~crossed
    <3>1. Owners = {}
      BY <1>4, <2>2, OneOwner DEF WritePid, Goes, Owners
    <3>2. Owners' = {p}
      BY <1>4, <3>1 DEF WritePid, Goes, Owners, LockInv, LockTypeOK
    <3>3. Owned!Take(p)
      BY <1>4, <2>2, <3>1, <3>2 DEF Owned!Take, WritePid
    <3> QED
      BY <3>3 DEF OwnedStep, Owned!Next, OwnedBy
  <2> QED
    BY <2>1, <2>2
<1>5. ASSUME NEW p \in Procs, ReleaseLock(p)
      PROVE  OwnedStep
  BY <1>5, EndIsOwned DEF ReleaseLock, Goes
<1>6. ASSUME NEW p \in Procs, Leave(p)
      PROVE  OwnedStep
  BY <1>6, EndIsOwned, OwnersStay DEF Leave
<1> QED
  BY <1>1, <1>2, <1>3, <1>4, <1>5, <1>6 DEF LockNext, LockStep, AcquireStep

\* For every number of processes the lock changes hands one owner at a time
\* (runtime/lock.rs, `acquire` and `release`).
THEOREM LockImplementsOwnership == LockSpec => ImplementsOwnership
<1>1. LockInit => Owned!Init
  BY DEF LockInit, Owned!Init, Owners
<1>2. LockInv /\ [LockNext]_lockVars => [Owned!Next]_(IF crossed THEN {} ELSE Owners)
  BY OwnershipSteps DEF OwnedStep, OwnedBy
<1> QED
  BY <1>1, <1>2, LockInvInductive, PTL DEF LockSpec, ImplementsOwnership, Owned!Spec
=============================================================================
