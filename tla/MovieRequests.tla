--------------------------- MODULE MovieRequests ---------------------------
(***************************************************************************)
(* The requests of one movie in one quality, and the movie's media status:  *)
(* creation (routes/requestcreate.rs), approve, decline and retry           *)
(* (routes/requestwrite.rs), removal (routes/requestedit.rs), the media     *)
(* saves of the library scans, the availability sync and the media routes   *)
(* (routes/mediasave.rs), and the hooks that tie the two together           *)
(* (lifecycle.rs).                                                          *)
(*                                                                          *)
(* A handler or a job is a task.  Every database call, every wait for a     *)
(* lock and every call to TMDB or Radarr is an await: what a task read      *)
(* before one it still believes after it, and the others run in between.    *)
(* A transaction is one step.  The answer of an add in Radarr comes from a  *)
(* task that the hook spawned and nobody waits for.  A handler may be       *)
(* dropped at any await, and the process may end.                           *)
(*                                                                          *)
(* Database errors, blocklisting and the deletion of the media row are left *)
(* out; a default Radarr server is configured; a creation names its quality *)
(* (the check of a body without `is4k` finds nothing).  A modifier that     *)
(* differs counts as a change of the row: it is a choice here.              *)
(***************************************************************************)
EXTENDS Naturals, FiniteSets

CONSTANTS Tasks,        \* handlers and jobs that run at a time
          NoTask,       \* nobody holds REQUEST_LOCK
          Targets,      \* bound: media statuses that media saves set
          MaxRequests,  \* bound: request rows ever inserted
          MaxAdds       \* bound: adds under way in Radarr for one request

ASSUME MovieAssumption == /\ NoTask \notin Tasks
                          /\ Targets \subseteq {"unknown", "pending", "processing",
                                            "available", "deleted"}
                          /\ MaxRequests \in Nat
                          /\ MaxAdds \in Nat

Requests == 1..MaxRequests

MediaStatus == {"unknown", "pending", "processing", "available", "deleted"}
RequestStatus == {"pending", "approved", "declined", "failed", "completed"}

\* A write that leaves the media status alone.
Keep == "keep"

VARIABLES media,   \* the media status of the movie
          rows,    \* the status of each request, "unborn" or "gone" without a row
          lock,    \* the holder of REQUEST_LOCK
          task,    \* what each task is at, and what it remembers
          adding,  \* adds under way in Radarr, by request
          sent,    \* history: the approved requests that Radarr took
          unsettled, unsent   \* history: the approved requests that a handler was
                              \* to settle, or to send, when it was dropped

history == <<sent, unsettled, unsent>>
movieVars == <<media, rows, lock, task, adding, history>>

Stages == {"idle",
           "lock", "plan", "check", "insert", "inserted",      \* create
           "save", "write", "send", "tmdb", "parent", "parentWrite",
           "removeMedia", "removeRequests", "delete",          \* remove
           "approve", "mediaWrite", "complete"}                \* media save

TaskState == [at : Stages,
              r : {0} \cup Requests,                 \* the request entity's id
              st : RequestStatus \cup {"none"},      \* its status in memory
              val : MediaStatus \cup {Keep},         \* the media status read or planned
              target : MediaStatus \cup {Keep},      \* of a media save, until written
              todo : SUBSET Requests]                \* loaded, not saved yet

Idle == [at |-> "idle", r |-> 0, st |-> "none", val |-> Keep, target |-> Keep,
         todo |-> {}]

-----------------------------------------------------------------------------
\* Helpers

Stored == {r \in Requests : rows[r] \in RequestStatus}
Unborn == {r \in Requests : rows[r] = "unborn"}
Lowest(S) == CHOOSE r \in S : \A s \in S : r <= s

Put(old, val) == IF val = Keep THEN old ELSE val

Continue(t, from, state) == /\ task[t].at = from
                            /\ task' = [task EXCEPT ![t] = state]

\* A task that has nothing left to do drops the lock it holds.
Unlock(t, state) == lock' = IF lock = t /\ state = Idle THEN NoTask ELSE lock

\* After a save and its hooks: the next loaded request, then the media row.
AfterSave(s) ==
    IF s.todo # {}
    THEN [s EXCEPT !.at = "save", !.r = Lowest(s.todo), !.val = Keep,
                   !.st = IF s.target = Keep THEN "completed" ELSE "approved",
                   !.todo = @ \ {Lowest(@)}]
    ELSE IF s.target # Keep THEN [Idle EXCEPT !.at = "mediaWrite", !.target = s.target]
    ELSE Idle

SaveOver(t, from, s) == /\ Continue(t, from, AfterSave(s))
                        /\ Unlock(t, AfterSave(s))

\* The history of an approval ends when its request is written or deleted.
Forget(r) == /\ sent' = sent \ {r}
             /\ unsettled' = unsettled \ {r}
             /\ unsent' = unsent \ {r}

-----------------------------------------------------------------------------
\* `POST /request`

\* The actor's permissions decide whether the request is approved at once.
Create(t, st) ==
    /\ Continue(t, "idle", [Idle EXCEPT !.at = "lock", !.st = st])
    /\ UNCHANGED <<media, rows, lock, adding, history>>

\* Mutant: the guard is dropped at once.
TakeNoLock(t) == /\ lock = NoTask
                 /\ Continue(t, "lock", [task[t] EXCEPT !.at = "plan"])
                 /\ UNCHANGED <<media, rows, lock, adding, history>>

\* REQUEST_LOCK, held until the insert hooks are over.
TakeLock(t) == /\ lock = NoTask
               /\ lock' = t
               /\ Continue(t, "lock", [task[t] EXCEPT !.at = "plan"])
               /\ UNCHANGED <<media, rows, adding, history>>

\* `media_plan`: the status the media row will be given.
Plan(t) == /\ Continue(t, "plan",
                [task[t] EXCEPT !.at = "check",
                                !.val = IF media \in {"unknown", "deleted"}
                                        THEN "pending" ELSE Keep])
           /\ UNCHANGED <<media, rows, lock, adding, history>>

\* Mutant: the refusal keeps the lock.
RefuseLocked(t) == /\ task[t].at \in {"plan", "check"}
                   /\ task' = [task EXCEPT ![t] = Idle]
                   /\ UNCHANGED <<media, rows, lock, adding, history>>

\* `prepare` answers with an error: a quota, TMDB, a duplicate.
Refuse(t) == /\ task[t].at \in {"plan", "check"}
             /\ task' = [task EXCEPT ![t] = Idle]
             /\ lock' = NoTask
             /\ UNCHANGED <<media, rows, adding, history>>

\* `duplicate`: the oldest request of the movie decides.
Duplicate == Stored # {} /\ rows[Lowest(Stored)] \notin {"declined", "completed"}

\* Bound: without an id left only Refuse is possible.
Check(t) == /\ ~Duplicate
            /\ Unborn # {}
            /\ Continue(t, "check", [task[t] EXCEPT !.at = "insert"])
            /\ UNCHANGED <<media, rows, lock, adding, history>>

\* Mutant: the planned status is written whether or not it changes anything.
InsertPlain(t) ==
    LET r == Lowest(Unborn) IN
    /\ task[t].at = "insert"
    /\ rows' = [rows EXCEPT ![r] = task[t].st]
    /\ media' = task[t].val
    /\ Continue(t, "insert", [Idle EXCEPT !.at = "inserted", !.r = r])
    /\ UNCHANGED <<lock, adding, history>>

\* `write`: the media row as planned and the request, in one transaction.
Insert(t) ==
    LET r == Lowest(Unborn) IN
    /\ task[t].at = "insert"
    /\ rows' = [rows EXCEPT ![r] = task[t].st]
    /\ media' = Put(media, task[t].val)
    /\ Continue(t, "insert", [Idle EXCEPT !.at = "inserted", !.r = r])
    /\ UNCHANGED <<lock, adding, history>>

\* The new request is loaded again for `after_insert`; it may be gone.
LoadInserted(t) ==
    LET r == task[t].r
        next == IF r \in Stored
                THEN [task[t] EXCEPT !.at = "send", !.st = rows[r]] ELSE Idle
    IN /\ Continue(t, "inserted", next)
       /\ Unlock(t, next)
       /\ UNCHANGED <<media, rows, adding, history>>

-----------------------------------------------------------------------------
\* `POST /request/{id}/approve`, `/decline` and `/retry`

SetStatus(t, r, from, to) ==
    /\ rows[r] = from
    /\ Continue(t, "idle", [Idle EXCEPT !.at = "save", !.r = r, !.st = to])
    /\ UNCHANGED <<media, rows, lock, adding, history>>

Approve(t, r) == SetStatus(t, r, "pending", "approved")
Decline(t, r) == SetStatus(t, r, "pending", "declined")
Retry(t, r) == SetStatus(t, r, "failed", "approved")

-----------------------------------------------------------------------------
\* `Lc::save` and the hooks

\* `write_request` compares with the row as stored; no row or no change, no
\* hooks.
SaveUnchanged(t) == /\ task[t].at = "save"
                    /\ rows[task[t].r] \in {"gone", task[t].st}
                    /\ SaveOver(t, "save", task[t])
                    /\ UNCHANGED <<media, rows, adding, history>>

SaveChanged(t) == /\ task[t].at = "save"
                  /\ rows[task[t].r] # "gone"
                  /\ Continue(t, "save", [task[t] EXCEPT !.at = "write"])
                  /\ UNCHANGED <<media, rows, lock, adding, history>>

\* The row is written whatever it says by now.
Write(t) == /\ Continue(t, "write", [task[t] EXCEPT !.at = "send"])
            /\ rows' = [rows EXCEPT ![task[t].r] = IF @ = "gone" THEN @ ELSE task[t].st]
            /\ Forget(task[t].r)
            /\ UNCHANGED <<media, lock, adding>>

\* Mutant: the media row is not looked at before the movie is sent.
SendUnchecked(t) ==
    /\ Continue(t, "send",
         IF task[t].st # "approved" THEN [task[t] EXCEPT !.at = "parent"]
         ELSE [task[t] EXCEPT !.at = "tmdb"])
    /\ UNCHANGED <<media, rows, lock, adding, history>>

\* Mutant: the save that completes the request sends it once more.
SendAgain(t) ==
    /\ Continue(t, "send",
         IF task[t].st # "approved" THEN [task[t] EXCEPT !.at = "parent"]
         ELSE IF media = "available" THEN [task[t] EXCEPT !.at = "save"]
              ELSE [task[t] EXCEPT !.at = "tmdb"])
    /\ UNCHANGED <<media, rows, lock, adding, history>>

\* `send_to_radarr`: an approved movie that is there already is completed by
\* a save of its own, whose hooks and those that follow write nothing more.
Send(t) ==
    /\ Continue(t, "send",
         IF task[t].st # "approved" THEN [task[t] EXCEPT !.at = "parent"]
         ELSE IF media = "available"
              THEN [task[t] EXCEPT !.at = "save", !.st = "completed"]
              ELSE [task[t] EXCEPT !.at = "tmdb"])
    /\ UNCHANGED <<media, rows, lock, adding, history>>

\* TMDB and Radarr answered; the add is spawned.
SpawnAdd(t) == /\ task[t].at = "tmdb"
               /\ adding[task[t].r] < MaxAdds
               /\ Continue(t, "tmdb", [task[t] EXCEPT !.at = "parent"])
               /\ adding' = [adding EXCEPT ![task[t].r] = @ + 1]
               /\ UNCHANGED <<media, rows, lock, history>>

\* Mutant: the failure is logged and nothing else.
SendFailsQuietly(t) == /\ Continue(t, "tmdb", [task[t] EXCEPT !.at = "parent"])
                       /\ UNCHANGED <<media, rows, lock, adding, history>>

\* A connection or configuration error: a save as FAILED.
SendFails(t) == /\ Continue(t, "tmdb", [task[t] EXCEPT !.at = "save", !.st = "failed"])
                /\ UNCHANGED <<media, rows, lock, adding, history>>

\* What `update_parent_status` makes of media status m.
ParentStatus(m, st) ==
    IF st = "approved" /\ m \notin {"available", "processing"} THEN "processing"
    ELSE IF st = "declined" /\ m # "deleted" THEN "unknown"
    ELSE Keep

ReadParent(t) ==
    LET val == ParentStatus(media, task[t].st) IN
    /\ IF val = Keep THEN SaveOver(t, "parent", task[t])
       ELSE /\ Continue(t, "parent", [task[t] EXCEPT !.at = "parentWrite", !.val = val])
            /\ UNCHANGED lock
    /\ UNCHANGED <<media, rows, adding, history>>

WriteParent(t) == /\ media' = task[t].val
                  /\ SaveOver(t, "parentWrite", task[t])
                  /\ UNCHANGED <<rows, adding, history>>

\* The spawned add: Radarr takes the movie, or an error saves the entity as it
\* was when it was sent, as FAILED.
AddSucceeds(r) == /\ adding[r] > 0
                  /\ adding' = [adding EXCEPT ![r] = @ - 1]
                  /\ sent' = sent \cup {q \in {r} : rows[q] = "approved"}
                  /\ UNCHANGED <<media, rows, lock, task, unsettled, unsent>>

AddFails(t, r) == /\ adding[r] > 0
                  /\ adding' = [adding EXCEPT ![r] = @ - 1]
                  /\ Continue(t, "idle", [Idle EXCEPT !.at = "save", !.r = r, !.st = "failed"])
                  /\ UNCHANGED <<media, rows, lock, history>>

-----------------------------------------------------------------------------
\* `DELETE /request/{id}`: without REQUEST_LOCK.

Remove(t, r) == /\ r \in Stored
                /\ Continue(t, "idle", [Idle EXCEPT !.at = "removeMedia", !.r = r])
                /\ UNCHANGED <<media, rows, lock, adding, history>>

\* `after_remove` reads the media, then the other requests, before the
\* transaction that deletes the request and writes the fallback.
ReadMedia(t) == /\ Continue(t, "removeMedia",
                     [task[t] EXCEPT !.at = "removeRequests", !.val = media])
                /\ UNCHANGED <<media, rows, lock, adding, history>>

Open(r) == rows[r] \in {"pending", "approved", "failed"}

Fallback(m, others) ==
    IF (\E o \in others : Open(o)) \/ m = "available" THEN Keep
    ELSE IF \E o \in others : rows[o] = "completed" THEN "deleted"
    ELSE "unknown"

ReadRequests(t) == /\ Continue(t, "removeRequests",
                        [task[t] EXCEPT !.at = "delete",
                                        !.val = Fallback(@, Stored \ {task[t].r})])
                   /\ UNCHANGED <<media, rows, lock, adding, history>>

Delete(t) == /\ Continue(t, "delete", Idle)
             /\ rows' = [rows EXCEPT ![task[t].r] = "gone"]
             /\ media' = Put(media, task[t].val)
             /\ Forget(task[t].r)
             /\ UNCHANGED <<lock, adding>>

-----------------------------------------------------------------------------
\* `mediasave::save` of a media row loaded as it is now, with a new status.

SaveMedia(t, target) ==
    /\ target # media
    /\ Continue(t, "idle",
         [Idle EXCEPT !.target = target,
                      !.at = IF target = "available" /\ media = "pending"
                             THEN "approve" ELSE "mediaWrite"])
    /\ UNCHANGED <<media, rows, lock, adding, history>>

\* `approve_children`: the pending requests are loaded, then saved in turn.
ApproveChildren(t) ==
    /\ SaveOver(t, "approve",
         [task[t] EXCEPT !.todo = {r \in Stored : rows[r] = "pending"}])
    /\ UNCHANGED <<media, rows, adding, history>>

\* The statuses that settle a movie's requests.
Settling == {"available", "deleted"}

\* It settles anew, whatever was left unsettled before.
WriteMedia(t) ==
    /\ media' = task[t].target
    /\ unsettled' = {}
    /\ Continue(t, "mediaWrite",
         IF task[t].target \in Settling THEN [Idle EXCEPT !.at = "complete"] ELSE Idle)
    /\ UNCHANGED <<rows, lock, adding, sent, unsent>>

\* `complete_related`: the approved and failed requests are loaded, then saved
\* as completed in turn.
CompleteRelated(t) ==
    /\ SaveOver(t, "complete",
         [task[t] EXCEPT !.todo = {r \in Stored : rows[r] \in {"approved", "failed"}}])
    /\ UNCHANGED <<media, rows, adding, history>>

-----------------------------------------------------------------------------
\* Dropped handlers

\* The task s will still see that request r does not stay approved beside an
\* available movie: it completes the approved requests, has r on its list, is
\* about to look at the movie for r, or is completing r.
SettlesIt(s, r) ==
    \/ s.at = "complete"
    \/ r \in s.todo /\ s.target = Keep
    \/ /\ s.r = r
       /\ \/ s.at = "inserted"
          \/ s.at = "send" /\ s.st = "approved"
          \/ s.at \in {"save", "write"} /\ s.st = "completed"

\* The task s will still send the approved request r, or write it off.
SendsIt(s, r) ==
    /\ s.r = r
    /\ \/ s.at = "inserted"
       \/ s.at \in {"send", "tmdb"} /\ s.st = "approved"
       \/ s.at \in {"save", "write"} /\ s.st \in {"failed", "completed"}

\* What the tasks of T, and the adds of the requests in R, leave behind when they
\* end where they are.
Abandon(T, R) ==
    /\ unsettled' = unsettled \cup
         {r \in Requests : /\ rows[r] = "approved" /\ media = "available"
                           /\ \E t \in T : SettlesIt(task[t], r)}
    /\ unsent' = unsent \cup
         {r \in Requests \ sent : /\ rows[r] = "approved"
                                  /\ r \in R \/ \E t \in T : SendsIt(task[t], r)}

\* Mutant: the lock outlives the handler, as a flag would that it resets itself.
DropLocked(t) == /\ task[t] # Idle
                 /\ task' = [task EXCEPT ![t] = Idle]
                 /\ Abandon({t}, {})
                 /\ UNCHANGED <<media, rows, lock, adding, sent>>

\* A client that hangs up ends its handler at the await it is at: what it wrote
\* stays, a transaction is rolled back, the guard of REQUEST_LOCK is dropped.
\* Jobs and spawned answers are tasks too, which no client ends: that they may
\* be dropped as well is more than the code does.
Drop(t) == /\ task[t] # Idle
           /\ task' = [task EXCEPT ![t] = Idle]
           /\ lock' = IF lock = t THEN NoTask ELSE lock
           /\ Abandon({t}, {})
           /\ UNCHANGED <<media, rows, adding, sent>>

\* The process ends and starts again: no task, lock or add is left, and nobody
\* goes through the approved requests.
Restart == /\ task' = [t \in Tasks |-> Idle]
           /\ lock' = NoTask
           /\ adding' = [r \in Requests |-> 0]
           /\ Abandon(Tasks, {r \in Requests : adding[r] > 0})
           /\ UNCHANGED <<media, rows, sent>>

-----------------------------------------------------------------------------

MovieInit == /\ media = "unknown"
             /\ rows = [r \in Requests |-> "unborn"]
             /\ lock = NoTask
             /\ task = [t \in Tasks |-> Idle]
             /\ adding = [r \in Requests |-> 0]
             /\ sent = {} /\ unsettled = {} /\ unsent = {}

\* What users, administrators and jobs start.
Start(t) == \/ \E st \in {"pending", "approved"} : Create(t, st)
            \/ \E r \in Requests : \/ Approve(t, r) \/ Decline(t, r) \/ Retry(t, r)
                                   \/ Remove(t, r)
            \/ \E target \in Targets : SaveMedia(t, target)

\* The next await of a task is over.
TaskStep(t) == \/ TakeLock(t) \/ Refuse(t) \/ Plan(t) \/ Check(t)
               \/ Insert(t) \/ LoadInserted(t)
               \/ SaveUnchanged(t) \/ SaveChanged(t) \/ Write(t)
               \/ Send(t) \/ SpawnAdd(t) \/ SendFails(t)
               \/ ReadParent(t) \/ WriteParent(t)
               \/ ReadMedia(t) \/ ReadRequests(t) \/ Delete(t)
               \/ ApproveChildren(t) \/ WriteMedia(t) \/ CompleteRelated(t)

AddAnswers(r) == AddSucceeds(r) \/ \E t \in Tasks : AddFails(t, r)

\* Nobody hangs up.
Served == \/ \E t \in Tasks : Start(t) \/ TaskStep(t)
          \/ \E r \in Requests : AddAnswers(r)

MovieNext == Served \/ (\E t \in Tasks : Drop(t)) \/ Restart

MovieSpec == MovieInit /\ [][MovieNext]_movieVars

\* The runtime polls every task whose await is over, calls to TMDB and Radarr
\* have a timeout, and tokio's Mutex serves its waiters in turn.  Nothing is
\* assumed of clients and of the process.
FairMovieSpec == /\ MovieSpec
                 /\ \A t \in Tasks : WF_movieVars(TaskStep(t)) /\ SF_movieVars(TakeLock(t))

-----------------------------------------------------------------------------
\* Properties

MovieTypeOK == /\ media \in MediaStatus
               /\ rows \in [Requests -> RequestStatus \cup {"unborn", "gone"}]
               /\ lock \in Tasks \cup {NoTask}
               /\ task \in [Tasks -> TaskState]
               /\ adding \in [Requests -> 0..MaxAdds]
               /\ sent \subseteq Requests
               /\ unsettled \subseteq Requests
               /\ unsent \subseteq Requests

\* Every handler, job and add has come to its end.
Quiet == /\ \A t \in Tasks : task[t] = Idle
         /\ \A r \in Requests : adding[r] = 0

\* No request of an available movie stays approved: either the request's hook
\* sees the movie or the media save sees the request, however they interleave.
\* The one excuse is a handler on its way to settle the request that was dropped
\* since the request was last written and the media row last saved.
AvailableSettles ==
    Quiet /\ media = "available" =>
      \A r \in Requests : rows[r] = "approved" => r \in unsettled

\* An approval is not lost: once nothing is under way, an approved request
\* is one that Radarr took; every failure on the way there ended as FAILED.
\* The one excuse is a handler on its way to send the request, or an add, that
\* was dropped since the request was last written.
ApprovedIsSent ==
    Quiet => \A r \in Requests : rows[r] = "approved" => r \in sent \cup unsent

\* The duplicate check of a new request is not overtaken: between its look at
\* the requests and its insert no other request is inserted.
CheckStandsUntilInsert ==
    [][\A t \in Tasks : /\ task[t].at = "insert"
                        /\ task'[t].at = "insert"
                        => Unborn' = Unborn]_movieVars

\* Under the lock: from the plan of a creation to its insert.
Creating == {"plan", "check", "insert", "inserted"}

\* REQUEST_LOCK is with the creation that is under way, from its first read to
\* its insert, and is not left behind by one that was refused, that failed to
\* send its movie, or whose request was removed meanwhile.
LockHeldThroughout ==
    /\ \A t \in Tasks : task[t].at \in Creating => lock = t
    /\ lock # NoTask => task[lock].at \notin {"idle", "lock"}

\* A bound on the awaits that are left to a task.  One save and its hooks take
\* six; an approved one can be followed by the save that completes or fails it,
\* so that each loaded request still to be saved counts twelve.
HooksLeft(at) == CASE at = "save" -> 5 [] at = "write" -> 4 [] at = "send" -> 3
                   [] at = "tmdb" -> 2 [] at = "parent" -> 1 [] at = "parentWrite" -> 0

Sweep == 12 * MaxRequests

SavesLeft(s) == 1 + 12 * Cardinality(s.todo) + HooksLeft(s.at)
                  + (IF s.st = "approved" THEN 6 ELSE 0)
                  + (IF s.target = Keep THEN 0 ELSE Sweep + 2)

WorkLeft(s) == CASE s.at = "idle" -> 0
                 [] s.at = "lock" -> 17 [] s.at = "plan" -> 16 [] s.at = "check" -> 15
                 [] s.at = "insert" -> 14 [] s.at = "inserted" -> 13
                 [] s.at = "removeMedia" -> 3 [] s.at = "removeRequests" -> 2
                 [] s.at = "delete" -> 1
                 [] s.at = "approve" -> 2 * Sweep + 3
                 [] s.at = "mediaWrite" -> Sweep + 2
                 [] s.at = "complete" -> Sweep + 1
                 [] OTHER -> SavesLeft(s)

\* A task that is idle, or waits, or has come closer to its end.
Advancing(t) == \/ task[t].at = "idle"
                \/ task'[t] = task[t]
                \/ WorkLeft(task'[t]) < WorkLeft(task[t])

\* Saves end: hooks that save again, which run hooks again, and a media save
\* that saves one request after the other never send a handler back to where
\* it was, so that each has a bounded number of awaits however the others
\* change the rows in between.
HandlersAdvance == [][\A t \in Tasks : Advancing(t)]_movieVars

\* No handler is stuck, and whoever waits for REQUEST_LOCK gets it: refusals,
\* failed sends and vanished rows included.
HandlersEnd == \A t \in Tasks : task[t].at # "idle" ~> task[t].at = "idle"

-----------------------------------------------------------------------------
\* What the documentation says

\* "Only pending requests can be approved or declined." (routes/requestwrite.rs):
\* no declined request becomes an approved one.
DeclinedStaysDeclined ==
    [][\A r \in Requests : rows[r] = "declined" => rows'[r] # "approved"]_movieVars

\* "The duplicate checks: an open movie request" (routes/requestcreate.rs): no
\* request is inserted beside an open one.
NoSecondOpenRequest ==
    [][\A r \in Requests : rows[r] = "unborn" /\ rows'[r] # "unborn"
                           => \A o \in Requests : ~Open(o)]_movieVars

\* "falls back when no active request is left" (doc of after_remove): a media
\* status does not fall back while a request is open.
FallsBackWhenNoneLeft ==
    [][\A r \in Requests : /\ rows[r] # "gone"
                           /\ rows'[r] = "gone"
                           /\ media' # media
                           => \A o \in Requests \ {r} : ~Open(o)]_movieVars
=============================================================================
