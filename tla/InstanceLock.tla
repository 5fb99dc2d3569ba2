---------------------------- MODULE InstanceLock ----------------------------
(***************************************************************************)
(* The desktop's instance lock (runtime/lock.rs): the file state/           *)
(* instance.lock, created exclusively and then filled with the pid of the   *)
(* process that created it.  Each call on the file system is a step, and    *)
(* so is the question whether a pid is alive; processes die at any time.    *)
(*                                                                          *)
(* The path and the file are two things: a process writes its pid to the    *)
(* file it opened, also when the path leads to another one by then, and     *)
(* removes what the path leads to.  A process here lives once.              *)
(***************************************************************************)
EXTENDS Naturals

CONSTANTS Procs,   \* desktop processes over one configuration directory
          Earlier  \* one that is gone and may have left its file behind

ASSUME LockAssumption == Earlier \notin Procs

VARIABLES stage,    \* where each process is
          file,     \* the file the path leads to
          seen,     \* what the process read from it
          crossed   \* history: two starts were under way at the same time

lockVars == <<stage, file, seen, crossed>>

NoFile == [by |-> "nobody", full |-> FALSE]
NoPid == "no pid"

\* A file says who created it and whether the pid is in it yet.
Files == {NoFile} \cup [by : Procs \cup {Earlier}, full : BOOLEAN]
Pids == Procs \cup {Earlier, NoPid}

\* The steps of `acquire`.
Acquiring == {"open", "read", "probe", "remove", "reopen", "write"}
Stages == Acquiring \cup {"unborn", "owner", "released", "gone"}

Alive(p) == p \in Procs /\ stage[p] \notin {"unborn", "gone"}

Goes(p, from, to) == /\ stage[p] = from
                     /\ stage' = [stage EXCEPT ![p] = to]

LockInit == /\ stage = [p \in Procs |-> "unborn"]
            /\ file \in {NoFile} \cup [by : {Earlier}, full : BOOLEAN]
            /\ seen = [p \in Procs |-> NoPid]
            /\ crossed = FALSE

-----------------------------------------------------------------------------
\* `acquire`

Launch(p) == /\ Goes(p, "unborn", "open")
             /\ crossed' = (crossed \/ \E q \in Procs : stage[q] \in Acquiring)
             /\ UNCHANGED <<file, seen>>

\* `create_exclusive` makes a file without a pid, or finds one.
Open(p) == /\ \/ /\ file = NoFile
                 /\ Goes(p, "open", "write")
                 /\ file' = [by |-> p, full |-> FALSE]
              \/ /\ file # NoFile
                 /\ Goes(p, "open", "read")
                 /\ UNCHANGED file
           /\ UNCHANGED <<seen, crossed>>

\* No file by now, or one that is still empty: no pid.
Read(p) == /\ Goes(p, "read", "probe")
           /\ seen' = [seen EXCEPT ![p] = IF file.full THEN file.by ELSE NoPid]
           /\ UNCHANGED <<file, crossed>>

\* The pid that was read is looked at for the last time.
Probed(p, to) == /\ Goes(p, "probe", to)
                 /\ seen' = [seen EXCEPT ![p] = NoPid]
                 /\ UNCHANGED <<file, crossed>>

\* `kill -0`: exit code 73 for a live one.
Refuse(p) == Alive(seen[p]) /\ Probed(p, "gone")

\* The pid of a process that is gone was given to another program.
RefuseReused(p) == /\ seen[p] # NoPid
                   /\ ~Alive(seen[p])
                   /\ Probed(p, "gone")

\* Mutant: a live owner is not told from one that is gone.
TakeOverLive(p) == Probed(p, "remove")

TakeOver(p) == ~Alive(seen[p]) /\ Probed(p, "remove")

\* Whatever file is there now.
RemoveStale(p) == /\ Goes(p, "remove", "reopen")
                  /\ file' = NoFile
                  /\ UNCHANGED <<seen, crossed>>

\* The second `create_exclusive`: code 73 if another start was faster.
Reopen(p) == /\ \/ /\ file = NoFile
                   /\ Goes(p, "reopen", "write")
                   /\ file' = [by |-> p, full |-> FALSE]
                \/ /\ file # NoFile
                   /\ Goes(p, "reopen", "gone")
                   /\ UNCHANGED file
             /\ UNCHANGED <<seen, crossed>>

\* The pid, to the file that this process created.
WritePid(p) == /\ Goes(p, "write", "owner")
               /\ file' = IF file.by = p THEN [file EXCEPT !.full = TRUE] ELSE file
               /\ UNCHANGED <<seen, crossed>>

-----------------------------------------------------------------------------
\* `release` and the end of a process

ReleaseLock(p) == /\ Goes(p, "owner", "released")
                  /\ file' = NoFile
                  /\ UNCHANGED <<seen, crossed>>

\* An exit, a crash, or a failed write of the pid: the file stays.
Leave(p) == /\ Alive(p)
            /\ stage' = [stage EXCEPT ![p] = "gone"]
            /\ seen' = [seen EXCEPT ![p] = NoPid]
            /\ UNCHANGED <<file, crossed>>

AcquireStep(p) == \/ Open(p) \/ Read(p) \/ Refuse(p) \/ RefuseReused(p)
                  \/ TakeOver(p) \/ RemoveStale(p) \/ Reopen(p) \/ WritePid(p)

LockStep(p) == Launch(p) \/ AcquireStep(p) \/ ReleaseLock(p) \/ Leave(p)

LockNext == \E p \in Procs : LockStep(p)

LockSpec == LockInit /\ [][LockNext]_lockVars

-----------------------------------------------------------------------------
\* Properties

\* Types of the processes and the file (the results of `acquire`'s calls).
LockTypeOK == /\ stage \in [Procs -> Stages]
              /\ file \in Files
              /\ seen \in [Procs -> Pids]
              /\ crossed \in BOOLEAN

\* As long as no two starts were under way at once, the owner's own file with
\* its pid is at the path until it releases it, so that there is one owner:
\* whatever crashes, half-written files and reused pids came before.  Starts
\* that cross may both become owners (the second removes a file that is still
\* empty, or one that the first has just put in place of a stale one).
OwnerHasFile == \A p \in Procs : stage[p] = "owner" /\ ~crossed
                                 => file = [by |-> p, full |-> TRUE]

Owners == {p \in Procs : stage[p] = "owner"}

Owned == INSTANCE Ownership WITH owners <- IF crossed THEN {} ELSE Owners

\* The lock passes from one process to the next only when the first has given
\* it back or is gone: a file that is left behind, empty or not, is never taken
\* over from a live owner.  Starts that cross are excepted as above.
ImplementsOwnership == Owned!Spec
=============================================================================
