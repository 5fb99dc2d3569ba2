--------------------------- MODULE SeriesRequests ---------------------------
(***************************************************************************)
(* The requests of one series in one quality: which seasons each of them    *)
(* claims and whose quota pays for them.  Creation                          *)
(* (routes/requestcreate.rs) and edit (routes/requestedit.rs) hold          *)
(* REQUEST_LOCK from their first read to their last write; approve, decline *)
(* and retry (routes/requestwrite.rs), removal, the media saves that settle *)
(* requests (routes/mediasave.rs) and Sonarr's late answers (lifecycle.rs)  *)
(* do not.                                                                  *)
(*                                                                          *)
(* A handler or a job is a task, and every database call, every wait for    *)
(* the lock and every call to TMDB is an await, as in MovieRequests.  A     *)
(* request counts as many quota units as it has season rows: every          *)
(* transaction writes the two together.                                     *)
(*                                                                          *)
(* The media row is not kept: which seasons the library covers, whether the *)
(* series is there already, and which requests a media save settles are     *)
(* choices, and so an await between two of them is none.  Left out: episode *)
(* requests, requests that name no quality, quota windows and               *)
(* `ignoreQuota`, a series without TVDB id, a deleted media row, database   *)
(* errors once a save has begun.                                            *)
(***************************************************************************)
EXTENDS Naturals, FiniteSets

CONSTANTS Tasks,        \* handlers and jobs that run at a time
          NoTask,       \* nobody holds REQUEST_LOCK
          Users,
          NoUser,       \* the owner of a request that is not there
          Seasons,
          MaxRequests,  \* bound: request rows ever inserted
          Limit         \* tv quota limit of every user

ASSUME SeriesAssumption == /\ NoTask \notin Tasks
                           /\ NoUser \notin Users
                           /\ IsFiniteSet(Seasons)
                           /\ MaxRequests \in Nat
                           /\ Limit \in Nat \ {0}

Requests == 1..MaxRequests

RequestStatus == {"pending", "approved", "declined", "failed", "completed"}

\* A request of these claims nothing.
Closed == {"declined", "completed"}

VARIABLES st,        \* the status of each request, "unborn" or "gone" without a row
          owner,     \* `requestedById`
          claims,    \* the seasons with a row of the request
          lock,      \* the holder of REQUEST_LOCK
          task,      \* what each task is at, and what it remembers
          adding,    \* requests with an add under way in Sonarr
          revived    \* history: requests that an outdated save brought back

rowVars == <<st, owner, claims, revived>>
seriesVars == <<rowVars, lock, task, adding>>

Stages == {"idle",
           "load", "quota", "others", "insert", "update", "inserted",
           "save", "write", "send",
           "delete", "approve", "complete"}

TaskState == [at : Stages,
              r : {0} \cup Requests,             \* the request's id; 0 for a new one
              to : RequestStatus \cup {"none"},  \* the entity's status
              who : Users \cup {NoUser},         \* who pays
              want : SUBSET Seasons,             \* the seasons asked for, later granted
              own : SUBSET Seasons,              \* the entity's seasons
              room : Nat,                        \* quota units known to be free
              todo : SUBSET Requests,            \* loaded, not saved yet
              sweep : BOOLEAN]                   \* a media save that goes on to settle

Idle == [at |-> "idle", r |-> 0, to |-> "none", who |-> NoUser, want |-> {},
         own |-> {}, room |-> 0, todo |-> {}, sweep |-> FALSE]

-----------------------------------------------------------------------------
\* Helpers

Stored == {r \in Requests : st[r] \in RequestStatus}
Unborn == {r \in Requests : st[r] = "unborn"}
Lowest(S) == CHOOSE r \in S : \A s \in S : r <= s

\* Requests that claim their seasons, those that a user pays for, and the rows
\* of requests: pairs of a request and a season.
Open == {r \in Stored : st[r] \notin Closed}
Paying(u) == {r \in Stored : st[r] # "declined" /\ owner[r] = u}

Rows(S) == {p \in S \X Seasons : p[2] \in claims[p[1]]}
Used(u) == Cardinality(Rows(Paying(u)))

Remaining(u) == IF Used(u) < Limit THEN Limit - Used(u) ELSE 0

Elsewhere(r) == UNION {claims[o] : o \in Open \ {r}}

Continue(t, from, state) == /\ task[t].at = from
                            /\ task' = [task EXCEPT ![t] = state]

Unlock(t, state) == lock' = IF lock = t /\ state.at = "idle" THEN NoTask ELSE lock

\* What claims nothing claims again, or what costs nothing costs again.
Revives(from, to) == \/ from \in Closed /\ to \notin Closed
                     \/ from = "declined" /\ to # "declined"

\* The status of a row that is still there.
SetRow(r, to) ==
    /\ st' = [st EXCEPT ![r] = IF r \in Stored THEN to ELSE @]
    /\ revived' = IF r \in Stored /\ Revives(st[r], to) THEN revived \cup {r} ELSE revived
    /\ UNCHANGED <<owner, claims>>

\* After a save and its hooks: the next loaded request, then what settles.
AfterSave(s) ==
    IF s.todo # {}
    THEN [s EXCEPT !.at = "save", !.r = Lowest(s.todo), !.todo = @ \ {Lowest(@)},
                   !.to = IF s.sweep THEN "approved" ELSE "completed"]
    ELSE IF s.sweep THEN [Idle EXCEPT !.at = "complete"]
    ELSE Idle

SaveOver(t, from, s) == /\ Continue(t, from, AfterSave(s))
                        /\ Unlock(t, AfterSave(s))

-----------------------------------------------------------------------------
\* `POST /request` and `PUT /request/{id}`

Creation(u, S) == [Idle EXCEPT !.at = "quota", !.who = u, !.want = S]

\* The owner that is named may be another user than before.
Edition(r, u, S) == [Idle EXCEPT !.at = "load", !.r = r, !.who = u, !.want = S]

Bodies == {Creation(u, S) : u \in Users, S \in (SUBSET Seasons) \ {{}}}
          \cup {Edition(r, u, S) : r \in Stored, u \in Users, S \in (SUBSET Seasons) \ {{}}}

\* Mutant: an edit does not take the lock.
TakeLockToCreate(t) ==
    \E body \in Bodies :
      /\ lock = NoTask \/ body.r # 0
      /\ lock' = IF body.r = 0 THEN t ELSE lock
      /\ Continue(t, "idle", body)
      /\ UNCHANGED <<rowVars, adding>>

\* A handler that waits for the lock has done nothing yet, and is not told from
\* one that has not been called.
TakeLock(t) == /\ lock = NoTask
               /\ lock' = t
               /\ \E body \in Bodies : Continue(t, "idle", body)
               /\ UNCHANGED <<rowVars, adding>>

\* Between the first read and the last write of a creation or edit.
Inside == {"load", "quota", "others", "insert", "update"}

\* Mutant: the refusal keeps the lock.
RefuseLocked(t) ==
    /\ task[t].at \in Inside
    /\ task' = [task EXCEPT ![t] = Idle]
    /\ UNCHANGED <<rowVars, lock, adding>>

\* Any of the reads or the write answers with an error, or a check refuses.
Refuse(t) == /\ task[t].at \in Inside
             /\ task' = [task EXCEPT ![t] = Idle]
             /\ lock' = NoTask
             /\ UNCHANGED <<rowVars, adding>>

\* Mutant: a new owner is given what the old one paid.
LoadHeld(t) ==
    LET r == task[t].r IN
    /\ r \in Stored
    /\ st[r] = "pending"
    /\ Continue(t, "load", [task[t] EXCEPT !.at = "others", !.own = claims[r],
                                           !.room = Cardinality(claims[r])])
    /\ UNCHANGED <<rowVars, lock, adding>>

\* Only pending requests are edited; what the owner pays for one already is
\* `held_units`.
Load(t) ==
    LET r == task[t].r IN
    /\ r \in Stored
    /\ st[r] = "pending"
    /\ Continue(t, "load", [task[t] EXCEPT !.at = "others", !.own = claims[r],
                              !.room = IF owner[r] = task[t].who
                                       THEN Cardinality(claims[r]) ELSE 0])
    /\ UNCHANGED <<rowVars, lock, adding>>

\* `quotas` of a creation comes first: 403 when nothing is left.
ReadQuota(t) == /\ task[t].r = 0
                /\ Remaining(task[t].who) > 0
                /\ Continue(t, "quota", [task[t] EXCEPT !.at = "others",
                                                        !.room = Remaining(task[t].who)])
                /\ UNCHANGED <<rowVars, lock, adding>>

\* Mutant: a request for which nothing is left goes on.
ReadOthersUnchecked(t) ==
    LET r == task[t].r IN
    \E covered \in SUBSET (task[t].want \ task[t].own) :
      LET granted == task[t].want \ (covered \cup Elsewhere(r)) IN
      /\ r = 0 => Cardinality(granted) <= task[t].room
      /\ Continue(t, "others",
           IF r = 0 THEN [task[t] EXCEPT !.at = "insert", !.want = granted, !.room = 0]
           ELSE [task[t] EXCEPT !.at = "quota", !.want = granted])
      /\ UNCHANGED <<rowVars, lock, adding>>

\* The media row, then the requests of the media: what the library covers and
\* what others claim is left out (`plan_seasons`, `plan_season_edit`), and
\* something must be left.  An edit keeps covered seasons that it holds; a
\* creation compares the rest with the quota as it was read before.
ReadOthers(t) ==
    LET r == task[t].r IN
    \E covered \in SUBSET (task[t].want \ task[t].own) :
      LET granted == task[t].want \ (covered \cup Elsewhere(r)) IN
      /\ granted # {}
      /\ r = 0 => Cardinality(granted) <= task[t].room
      /\ Continue(t, "others",
           IF r = 0 THEN [task[t] EXCEPT !.at = "insert", !.want = granted, !.room = 0]
           ELSE [task[t] EXCEPT !.at = "quota", !.want = granted])
      /\ UNCHANGED <<rowVars, lock, adding>>

\* `edit_exceeds`, with the quota as it is now.
EditQuota(t) ==
    /\ task[t].r # 0
    /\ Cardinality(task[t].want) <= Remaining(task[t].who) + task[t].room
    /\ Continue(t, "quota", [task[t] EXCEPT !.at = "update", !.room = 0])
    /\ UNCHANGED <<rowVars, lock, adding>>

\* `write`: the request and its seasons, in one transaction; the permissions of
\* the actor decide whether it is approved at once.  Bound: without an id left
\* only Refuse is possible.
Insert(t) ==
    LET r == Lowest(Unborn) IN
    /\ Unborn # {}
    /\ Continue(t, "insert", [Idle EXCEPT !.at = "inserted", !.r = r])
    /\ \E to \in {"pending", "approved"} : st' = [st EXCEPT ![r] = to]
    /\ owner' = [owner EXCEPT ![r] = task[t].who]
    /\ claims' = [claims EXCEPT ![r] = task[t].want]
    /\ UNCHANGED <<revived, lock, adding>>

\* The new request is loaded again for `after_insert`; it may be gone.
LoadInserted(t) ==
    LET r == task[t].r
        next == IF r \in Stored
                THEN [task[t] EXCEPT !.at = "send", !.to = st[r]] ELSE Idle
    IN /\ Continue(t, "inserted", next)
       /\ Unlock(t, next)
       /\ UNCHANGED <<rowVars, adding>>

\* `save` of an edit: seasons are added and detached and the owner is set,
\* whatever became of the status since it was loaded.  A season cannot be
\* added to a row that is gone: the transaction fails.
Update(t) ==
    LET r == task[t].r IN
    /\ Continue(t, "update", Idle)
    /\ lock' = NoTask
    /\ claims' = [claims EXCEPT ![r] =
                    IF r \in Stored THEN (@ \ (task[t].own \ task[t].want))
                                         \cup (task[t].want \ task[t].own)
                    ELSE @]
    /\ owner' = [owner EXCEPT ![r] = IF r \in Stored THEN task[t].who ELSE @]
    /\ UNCHANGED <<st, revived, adding>>

-----------------------------------------------------------------------------
\* `POST /request/{id}/approve`, `/decline`, `/retry` and `DELETE /request/{id}`

SetStatus(t, r, from, to) ==
    /\ st[r] = from
    /\ Continue(t, "idle", [Idle EXCEPT !.at = "save", !.r = r, !.to = to])
    /\ UNCHANGED <<rowVars, lock, adding>>

Approve(t, r) == SetStatus(t, r, "pending", "approved")
Decline(t, r) == SetStatus(t, r, "pending", "declined")
Retry(t, r) == SetStatus(t, r, "failed", "approved")

Remove(t, r) == /\ r \in Stored
                /\ Continue(t, "idle", [Idle EXCEPT !.at = "delete", !.r = r])
                /\ UNCHANGED <<rowVars, lock, adding>>

\* The season rows go with the request.
Delete(t) == LET r == task[t].r IN
             /\ Continue(t, "delete", Idle)
             /\ st' = [st EXCEPT ![r] = "gone"]
             /\ owner' = [owner EXCEPT ![r] = NoUser]
             /\ claims' = [claims EXCEPT ![r] = {}]
             /\ UNCHANGED <<revived, lock, adding>>

-----------------------------------------------------------------------------
\* `Lc::save` and the hooks

\* No row or no change, no hooks.
SaveUnchanged(t) == /\ task[t].at = "save"
                    /\ st[task[t].r] \in {"gone", task[t].to}
                    /\ SaveOver(t, "save", task[t])
                    /\ UNCHANGED <<rowVars, adding>>

SaveChanged(t) == /\ task[t].at = "save"
                  /\ st[task[t].r] # "gone"
                  /\ Continue(t, "save", [task[t] EXCEPT !.at = "write"])
                  /\ UNCHANGED <<rowVars, lock, adding>>

\* The row is written whatever it says by now.
Write(t) == /\ Continue(t, "write", [task[t] EXCEPT !.at = "send"])
            /\ SetRow(task[t].r, task[t].to)
            /\ UNCHANGED <<lock, adding>>

\* `send_to_sonarr`: not approved, or no Sonarr server to send it to.
SendNothing(t) == /\ SaveOver(t, "send", task[t])
                  /\ UNCHANGED <<rowVars, adding>>

\* Mutant: the nested save sends the request once more.
SendCompletesAgain(t) ==
    /\ task[t].to = "approved"
    /\ Continue(t, "send", [task[t] EXCEPT !.at = "save"])
    /\ UNCHANGED <<rowVars, lock, adding>>

\* A series that is there already: a nested save completes the request.
SendCompletes(t) == /\ task[t].to = "approved"
                    /\ Continue(t, "send", [task[t] EXCEPT !.at = "save", !.to = "completed"])
                    /\ UNCHANGED <<rowVars, lock, adding>>

\* TMDB and Sonarr answered; the add is spawned.  Bound: one at a time.
SpawnAdd(t) == /\ task[t].to = "approved"
               /\ adding = {}
               /\ adding' = {task[t].r}
               /\ SaveOver(t, "send", task[t])
               /\ UNCHANGED rowVars

\* `mark_failed_quietly`: an UPDATE of the status alone, without hooks.
SendFails(t) == /\ task[t].to = "approved"
                /\ SaveOver(t, "send", task[t])
                /\ SetRow(task[t].r, "failed")
                /\ UNCHANGED adding

AddSucceeds(r) == /\ r \in adding
                  /\ adding' = adding \ {r}
                  /\ UNCHANGED <<rowVars, lock, task>>

\* The same UPDATE, from the task that waited for Sonarr.
AddFails(r) == /\ r \in adding
               /\ adding' = adding \ {r}
               /\ SetRow(r, "failed")
               /\ UNCHANGED <<lock, task>>

-----------------------------------------------------------------------------
\* Media saves: `approve_children`, then the media row, then
\* `complete_related`.

SaveMedia(t, first) == /\ Continue(t, "idle", [Idle EXCEPT !.at = first])
                       /\ UNCHANGED <<rowVars, lock, adding>>

\* The pending requests are loaded, then saved in turn.
ApproveChildren(t) ==
    /\ SaveOver(t, "approve", [task[t] EXCEPT !.sweep = TRUE,
                                   !.todo = {r \in Stored : st[r] = "pending"}])
    /\ UNCHANGED <<rowVars, adding>>

\* Approved and failed requests are loaded; some have their seasons settled.
CompleteRelated(t) ==
    /\ \E settled \in SUBSET {r \in Stored : st[r] \in {"approved", "failed"}} :
         SaveOver(t, "complete", [task[t] EXCEPT !.todo = settled])
    /\ UNCHANGED <<rowVars, adding>>

-----------------------------------------------------------------------------
\* Dropped handlers

\* A client that hangs up ends its handler at the await it is at, as in
\* MovieRequests: a sweep keeps the rest of its requests as they are.
Drop(t) == /\ task[t] # Idle
           /\ task' = [task EXCEPT ![t] = Idle]
           /\ lock' = IF lock = t THEN NoTask ELSE lock
           /\ UNCHANGED <<rowVars, adding>>

\* The process ends and starts again: no task, lock or add is left.
Restart == /\ task' = [t \in Tasks |-> Idle]
           /\ lock' = NoTask
           /\ adding' = {}
           /\ UNCHANGED rowVars

-----------------------------------------------------------------------------

SeriesInit == /\ st = [r \in Requests |-> "unborn"]
              /\ owner = [r \in Requests |-> NoUser]
              /\ claims = [r \in Requests |-> {}]
              /\ lock = NoTask
              /\ task = [t \in Tasks |-> Idle]
              /\ adding = {}
              /\ revived = {}

\* What users, administrators and jobs start.
Start(t) == \/ TakeLock(t)
            \/ \E r \in Requests : Approve(t, r) \/ Decline(t, r) \/ Retry(t, r) \/ Remove(t, r)
            \/ \E first \in {"approve", "complete"} : SaveMedia(t, first)

\* The next await of a task is over.
LockedStep(t) == \/ Refuse(t) \/ Load(t) \/ ReadQuota(t) \/ ReadOthers(t)
                 \/ EditQuota(t) \/ Insert(t) \/ LoadInserted(t)
                 \/ Update(t)

SaveStep(t) == \/ SaveUnchanged(t) \/ SaveChanged(t) \/ Write(t)
               \/ SendNothing(t) \/ SendCompletes(t)
               \/ SpawnAdd(t) \/ SendFails(t)
               \/ Delete(t) \/ ApproveChildren(t) \/ CompleteRelated(t)

TaskStep(t) == LockedStep(t) \/ SaveStep(t)

SeriesNext == \/ \E t \in Tasks : Start(t) \/ TaskStep(t)
              \/ \E r \in Requests : AddSucceeds(r) \/ AddFails(r)
              \/ \E t \in Tasks : Drop(t)
              \/ Restart

SeriesSpec == SeriesInit /\ [][SeriesNext]_seriesVars

-----------------------------------------------------------------------------
\* Properties

\* Types, and who has a row at all: it has an owner and seasons.
SeriesTypeOK ==
    /\ st \in [Requests -> RequestStatus \cup {"unborn", "gone"}]
    /\ owner \in [Requests -> Users \cup {NoUser}]
    /\ claims \in [Requests -> SUBSET Seasons]
    /\ lock \in Tasks \cup {NoTask}
    /\ task \in [Tasks -> TaskState]
    /\ adding \subseteq Requests
    /\ revived \subseteq Requests
    /\ \A r \in Requests : /\ r \in Stored <=> owner[r] # NoUser
                           /\ r \in Stored <=> claims[r] # {}

\* REQUEST_LOCK is with the creation or edit that is under way, from its first
\* read to its last write, and is not left behind by one that was refused,
\* failed or found its request gone.
LockHeldThroughout ==
    /\ \A t \in Tasks : task[t].at \in Inside => lock = t
    /\ lock # NoTask => task[lock].at # "idle"

\* A bound on the awaits that are left to a task.  A save and its hook take
\* three; an approved one can be followed by the save that completes it, so
\* that each loaded request still to be saved counts six.
HooksLeft(at) == CASE at = "save" -> 2 [] at = "write" -> 1 [] at = "send" -> 0

Sweep == 6 * MaxRequests

SavesLeft(s) == 1 + 6 * Cardinality(s.todo) + HooksLeft(s.at)
                  + (IF s.to = "approved" THEN 3 ELSE 0)
                  + (IF s.sweep THEN Sweep + 1 ELSE 0)

WorkLeft(s) == CASE s.at = "idle" -> 0
                 [] s.at = "load" -> 8
                 [] s.at = "quota" -> (IF s.r = 0 THEN 8 ELSE 2)
                 [] s.at = "others" -> 7
                 [] s.at = "insert" -> 6 [] s.at = "inserted" -> 5
                 [] s.at = "update" -> 1 [] s.at = "delete" -> 1
                 [] s.at = "approve" -> 2 * Sweep + 2
                 [] s.at = "complete" -> Sweep + 1
                 [] OTHER -> SavesLeft(s)

\* A task that is idle, or waits, or has come closer to its end.
Advancing(t) == \/ task[t].at = "idle"
                \/ task'[t] = task[t]
                \/ WorkLeft(task'[t]) < WorkLeft(task[t])

\* Every handler and job has a bounded number of awaits: the nested save of a
\* series that is there already, the sweep over the loaded requests and the
\* settling that follows it never bring one back to where it was.
HandlersAdvance == [][\A t \in Tasks : Advancing(t)]_seriesVars

\* No season is asked for twice: creations, edits, removals and decisions in
\* any order leave the claims of two open requests disjoint, except for one
\* that an outdated save revived.
ClaimedOnce == \A r, o \in Open \ revived : r # o => claims[r] \cap claims[o] = {}

\* No user gets more seasons than the quota, by creations and edits of any
\* request in any order, an edit that changes the owner included; a declined
\* request that an outdated save revived is not counted.
QuotaKept == \A u \in Users : Cardinality(Rows(Paying(u) \ revived)) <= Limit

\* A request in the book: revived ones are not.
Entry(r) == IF r \in Stored \ revived /\ st[r] # "declined"
            THEN [who |-> owner[r], seasons |-> claims[r], open |-> r \in Open]
            ELSE [who |-> NoUser, seasons |-> {}, open |-> FALSE]

Ledger == INSTANCE SeasonLedger WITH entry <- [r \in Requests |-> Entry(r)]

\* Whatever awaits lie between the checks of a creation or edit and its write,
\* the two take effect as one step of the book.
ImplementsLedger == Ledger!Spec
=============================================================================
