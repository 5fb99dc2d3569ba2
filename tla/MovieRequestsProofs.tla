------------------------ MODULE MovieRequestsProofs ------------------------
(***************************************************************************)
(* Proofs about the requests of a movie, for every number of tasks, request *)
(* rows and adds.  Fits says what a task's memory looks like at each stage. *)
(***************************************************************************)
EXTENDS MovieRequests, FiniteSetTheorems, WellFoundedInduction, TLAPS

\* The types of the history variables.
HistoryTyped == /\ sent \subseteq Requests
                /\ unsettled \subseteq Requests
                /\ unsent \subseteq Requests

USE DEF history, HistoryTyped

\* The stages with a request entity, and those of a save and its hooks.
HasRequest == {"inserted", "save", "write", "send", "tmdb", "parent", "parentWrite",
               "removeMedia", "removeRequests", "delete"}
Saving == {"save", "write", "send", "tmdb", "parent", "parentWrite"}

\* What a task remembers at each stage, against the rows R.
Fits(s, R) ==
    /\ s \in TaskState
    /\ s.at \in HasRequest => s.r \in Requests /\ R[s.r] # "unborn"
    /\ s.at \in Saving => s.st \in RequestStatus
    /\ s.at \in {"lock", "plan", "check", "insert"} => s.st \in {"pending", "approved"}
    /\ s.at \in {"check", "insert"} => s.val \in {Keep, "pending"}
    /\ s.at = "tmdb" => s.st = "approved"
    /\ s.at \in {"lock"} \cup Creating => s.target = Keep
    /\ s.at = "parentWrite" => s.val \in {"processing", "unknown"}
    /\ s.at = "removeRequests" => s.val \in MediaStatus
    /\ s.at = "delete" => s.val \in {Keep, "deleted", "unknown"}
    /\ s.at = "mediaWrite" => s.target \in MediaStatus
    /\ s.at = "complete" => s.target = Keep
    /\ s.at = "idle" => s = Idle
    /\ s.at \notin Saving => s.todo = {}
    /\ \A r \in s.todo : R[r] # "unborn"

TasksFit == \A t \in Tasks : Fits(task[t], rows)

\* A creation past its wait holds the lock, and an id is left for its insert.
LockHeld == \A t \in Tasks : task[t].at \in Creating => lock = t
InsertReady == \A t \in Tasks : task[t].at = "insert" => Unborn # {}

\* Radarr is only asked for requests that were inserted.
AddsBorn == \A r \in Requests : adding[r] > 0 => rows[r] # "unborn"

MovieInv == MovieTypeOK /\ TasksFit /\ LockHeld /\ InsertReady /\ AddsBorn

-----------------------------------------------------------------------------
(* Helpers *)

LEMMA KeepIsNoStatus == Keep \notin MediaStatus
BY DEF Keep, MediaStatus

LEMMA LowestIn == ASSUME NEW S, S \subseteq Requests, S # {} PROVE Lowest(S) \in S
<1>1. S \subseteq Nat
  BY DEF Requests
<1>2. \E n \in S : \A k \in S : n <= k
  <2>1. IsWellFoundedOn({p \in Nat \X Nat : p[1] < p[2]}, Nat)
    BY NatLessThanWellFounded DEF OpToRel
  <2>2. \E n \in S : \A k \in S : ~ <<k, n>> \in {p \in Nat \X Nat : p[1] < p[2]}
    BY <1>1, <2>1, WFMin, Zenon
  <2>3. PICK n \in S : \A k \in S : ~ <<k, n>> \in {p \in Nat \X Nat : p[1] < p[2]}
    BY <2>2
  <2>4. ASSUME NEW k \in S PROVE n <= k
    <3>1. n \in Nat /\ k \in Nat /\ <<k, n>> \in Nat \X Nat
      BY <1>1
    <3>2. ~ (<<k, n>>[1] < <<k, n>>[2])
      BY <2>3, <3>1, Zenon
    <3>3. QED BY <3>1, <3>2
  <2>5. QED BY <2>4
<1>3. QED BY <1>2 DEF Lowest

LEMMA IdleFits == ASSUME NEW R PROVE Fits(Idle, R)
BY DEF Fits, Idle, TaskState, Stages, HasRequest, Saving, Keep, MediaStatus

\* After a save: the next request of the list, the media row, or the end.
LEMMA AfterSaveCases ==
    ASSUME NEW s \in TaskState
    PROVE  \/ s.todo = {} /\ s.target = Keep /\ AfterSave(s) = Idle
           \/ /\ s.todo = {} /\ s.target # Keep
              /\ AfterSave(s) = [at |-> "mediaWrite", r |-> 0, st |-> "none", val |-> Keep,
                                 target |-> s.target, todo |-> {}]
           \/ \E r \in s.todo :
                AfterSave(s) = [at |-> "save", r |-> r,
                                st |-> IF s.target = Keep THEN "completed" ELSE "approved",
                                val |-> Keep, target |-> s.target, todo |-> s.todo \ {r}]
<1>1. CASE s.todo # {}
  <2>1. s.todo \subseteq Requests
    BY DEF TaskState
  <2>2. Lowest(s.todo) \in s.todo
    BY <1>1, <2>1, LowestIn
  <2>3. AfterSave(s) = [at |-> "save", r |-> Lowest(s.todo),
                        st |-> IF s.target = Keep THEN "completed" ELSE "approved",
                        val |-> Keep, target |-> s.target,
                        todo |-> s.todo \ {Lowest(s.todo)}]
    BY <1>1 DEF AfterSave, TaskState
  <2>4. QED BY <2>2, <2>3
<1>2. CASE s.todo = {}
  BY <1>2 DEF AfterSave, Idle
<1>3. QED BY <1>1, <1>2

LEMMA AfterSaveFits ==
    ASSUME NEW s \in TaskState, NEW R, \A r \in s.todo : R[r] # "unborn"
    PROVE  Fits(AfterSave(s), R) /\ AfterSave(s).at \notin Creating
<1>1. CASE AfterSave(s) = Idle
  BY <1>1, IdleFits DEF Idle, Creating
<1>2. CASE /\ s.target # Keep
           /\ AfterSave(s) = [at |-> "mediaWrite", r |-> 0, st |-> "none", val |-> Keep,
                              target |-> s.target, todo |-> {}]
  BY <1>2 DEF Fits, TaskState, Stages, HasRequest, Saving, Creating, Keep, MediaStatus
<1>3. ASSUME NEW r \in s.todo,
             AfterSave(s) = [at |-> "save", r |-> r,
                             st |-> IF s.target = Keep THEN "completed" ELSE "approved",
                             val |-> Keep, target |-> s.target, todo |-> s.todo \ {r}]
      PROVE  Fits(AfterSave(s), R) /\ AfterSave(s).at \notin Creating
  <2>1. r \in Requests /\ s.todo \ {r} \in SUBSET Requests /\ s.target \in MediaStatus \cup {Keep}
    BY <1>3 DEF TaskState
  <2>2. R[r] # "unborn"
    BY <1>3
  <2>3. QED
    BY <1>3, <2>1, <2>2 DEF Fits, TaskState, Stages, RequestStatus, HasRequest, Saving, Creating
<1>4. QED BY <1>1, <1>2, <1>3, AfterSaveCases

\* A step of one task: what has to hold of its new state, and what the others
\* need so that they still fit.
LEMMA OneTask ==
    ASSUME MovieInv, NEW t \in Tasks, NEW x,
           task' = [task EXCEPT ![t] = x],
           Fits(x, rows'),
           x.at \in Creating => lock' = t,
           x.at = "insert" => Unborn' # {},
           \/ lock' = lock
           \/ lock' = t /\ lock = NoTask
           \/ lock' = NoTask /\ lock = t,
           media' \in MediaStatus,
           rows' \in [Requests -> RequestStatus \cup {"unborn", "gone"}],
           \A r \in Requests : rows'[r] = "unborn" => rows[r] = "unborn",
           Unborn' = Unborn \/ lock = t,
           adding' \in [Requests -> 0..MaxAdds],
           \A r \in Requests : adding'[r] <= adding[r] \/ rows[r] # "unborn",
           HistoryTyped'
    PROVE  MovieInv'
<1>1. x \in TaskState
  BY DEF Fits
<1>2. MovieTypeOK'
  BY <1>1 DEF MovieInv, MovieTypeOK
<1>3. \A u \in Tasks : task'[u] = IF u = t THEN x ELSE task[u]
  BY DEF MovieInv, MovieTypeOK
<1>4. ASSUME NEW u \in Tasks PROVE Fits(task'[u], rows')
  <2>1. CASE u = t
    BY <1>3, <2>1
  <2>2. CASE u # t
    BY <1>3, <2>2 DEF MovieInv, TasksFit, Fits, TaskState
  <2>3. QED BY <2>1, <2>2
<1>5. LockHeld'
  BY <1>3, MovieAssumption DEF MovieInv, LockHeld
<1>6. InsertReady'
  BY <1>3, MovieAssumption DEF MovieInv, LockHeld, InsertReady, Creating
<1>7. AddsBorn'
  BY MovieAssumption DEF MovieInv, AddsBorn, MovieTypeOK
<1>8. QED BY <1>2, <1>4, <1>5, <1>6, <1>7 DEF MovieInv, TasksFit

\* A step that changes what a task remembers, and the lock at most.
LEMMA MemoryOnly ==
    ASSUME MovieInv, NEW t \in Tasks, NEW x,
           task' = [task EXCEPT ![t] = x],
           Fits(x, rows),
           x.at \in Creating => lock' = t,
           x.at = "insert" => Unborn # {},
           \/ lock' = lock
           \/ lock' = t /\ lock = NoTask
           \/ lock' = NoTask /\ lock = t,
           UNCHANGED <<media, rows, adding, history>>
    PROVE  MovieInv'
<1>1. Fits(x, rows') /\ Unborn' = Unborn
  BY DEF Unborn
<1>2. /\ media' \in MediaStatus
      /\ rows' \in [Requests -> RequestStatus \cup {"unborn", "gone"}]
      /\ adding' \in [Requests -> 0..MaxAdds]
      /\ HistoryTyped'
  BY DEF MovieInv, MovieTypeOK
<1>3. \A r \in Requests : /\ rows'[r] = "unborn" => rows[r] = "unborn"
                          /\ adding'[r] <= adding[r]
  BY MovieAssumption DEF MovieInv, MovieTypeOK
<1>4. QED BY <1>1, <1>2, <1>3, OneTask

\* What an invariant state says of a task.
LEMMA TaskFits ==
    ASSUME MovieInv, NEW t \in Tasks
    PROVE  /\ task[t] \in TaskState
           /\ Fits(task[t], rows)
           /\ task[t].at \in Creating => lock = t
           /\ task[t].at = "insert" => Unborn # {}
BY DEF MovieInv, TasksFit, Fits, LockHeld, InsertReady

\* The end of a save leaves a task that fits, whatever else it wrote.
LEMMA SaveEnds ==
    ASSUME MovieInv, NEW t \in Tasks, NEW s \in TaskState, NEW from,
           \A r \in s.todo : rows[r] # "unborn",
           SaveOver(t, from, s), media' \in MediaStatus,
           UNCHANGED <<rows, adding, history>>
    PROVE  MovieInv'
<1> DEFINE x == AfterSave(s)
<1>1. Fits(x, rows) /\ x.at \notin Creating
  BY AfterSaveFits
<1>2. task' = [task EXCEPT ![t] = x] /\ lock' = IF lock = t /\ x = Idle THEN NoTask ELSE lock
  BY DEF SaveOver, Continue, Unlock
<1>3. /\ rows' \in [Requests -> RequestStatus \cup {"unborn", "gone"}]
      /\ adding' \in [Requests -> 0..MaxAdds]
      /\ HistoryTyped'
  BY DEF MovieInv, MovieTypeOK
<1>4. Unborn' = Unborn /\ \A r \in Requests : adding'[r] <= adding[r]
  BY MovieAssumption DEF Unborn, MovieInv, MovieTypeOK
<1>5. x.at # "insert" /\ Fits(x, rows')
  BY <1>1 DEF Creating
<1> HIDE DEF x
<1>6. QED BY <1>1, <1>2, <1>3, <1>4, <1>5, OneTask

-----------------------------------------------------------------------------
(* Starts *)

LEMMA StartKeeps == ASSUME MovieInv, NEW t \in Tasks, Start(t) PROVE MovieInv'
<1>1. ASSUME NEW st \in {"pending", "approved"}, Create(t, st) PROVE MovieInv'
  <2> DEFINE x == [Idle EXCEPT !.at = "lock", !.st = st]
  <2>1. Fits(x, rows) /\ x.at = "lock"
    BY DEF Fits, Idle, TaskState, Stages, RequestStatus, HasRequest, Saving, Keep, MediaStatus
  <2>2. task' = [task EXCEPT ![t] = x] /\ UNCHANGED <<media, rows, lock, adding, history>>
    BY <1>1 DEF Create, Continue
  <2> HIDE DEF x
  <2>3. QED BY <2>1, <2>2, MemoryOnly DEF Creating
<1>2. ASSUME NEW r \in Requests, NEW from \in RequestStatus, NEW to \in RequestStatus,
             SetStatus(t, r, from, to)
      PROVE  MovieInv'
  <2> DEFINE x == [Idle EXCEPT !.at = "save", !.r = r, !.st = to]
  <2>1. rows[r] # "unborn"
    BY <1>2 DEF SetStatus, RequestStatus
  <2>2. Fits(x, rows) /\ x.at = "save"
    BY <2>1 DEF Fits, Idle, TaskState, Stages, RequestStatus, HasRequest, Saving, Keep, MediaStatus
  <2>3. task' = [task EXCEPT ![t] = x] /\ UNCHANGED <<media, rows, lock, adding, history>>
    BY <1>2 DEF SetStatus, Continue
  <2> HIDE DEF x
  <2>4. QED BY <2>2, <2>3, MemoryOnly DEF Creating
<1>3. ASSUME NEW r \in Requests, Remove(t, r) PROVE MovieInv'
  <2> DEFINE x == [Idle EXCEPT !.at = "removeMedia", !.r = r]
  <2>1. rows[r] # "unborn"
    BY <1>3 DEF Remove, Stored, RequestStatus
  <2>2. Fits(x, rows) /\ x.at = "removeMedia"
    BY <2>1 DEF Fits, Idle, TaskState, Stages, RequestStatus, HasRequest, Saving, Keep, MediaStatus
  <2>3. task' = [task EXCEPT ![t] = x] /\ UNCHANGED <<media, rows, lock, adding, history>>
    BY <1>3 DEF Remove, Continue
  <2> HIDE DEF x
  <2>4. QED BY <2>2, <2>3, MemoryOnly DEF Creating
<1>4. ASSUME NEW target \in Targets, SaveMedia(t, target) PROVE MovieInv'
  <2> DEFINE at == IF target = "available" /\ media = "pending" THEN "approve" ELSE "mediaWrite"
             x == [Idle EXCEPT !.target = target, !.at = at]
  <2>1. target \in MediaStatus
    BY MovieAssumption DEF MediaStatus
  <2>2. Fits(x, rows) /\ x.at \notin Creating /\ x.at # "insert"
    BY <2>1 DEF Fits, Idle, TaskState, Stages, RequestStatus, HasRequest, Saving, Creating,
                Keep, MediaStatus
  <2>3. task' = [task EXCEPT ![t] = x] /\ UNCHANGED <<media, rows, lock, adding, history>>
    BY <1>4 DEF SaveMedia, Continue
  <2> HIDE DEF x
  <2>4. QED BY <2>2, <2>3, MemoryOnly
<1>5. QED
  BY <1>1, <1>2, <1>3, <1>4 DEF Start, Approve, Decline, Retry, RequestStatus

-----------------------------------------------------------------------------
(* A creation *)

LEMMA CreationKeeps ==
    ASSUME MovieInv, NEW t \in Tasks,
           TakeLock(t) \/ Refuse(t) \/ Plan(t) \/ Check(t) \/ Insert(t) \/ LoadInserted(t)
    PROVE  MovieInv'
<1> USE TaskFits
<1>1. CASE TakeLock(t)
  <2> DEFINE x == [task[t] EXCEPT !.at = "plan"]
  <2>1. task[t].at = "lock" /\ task' = [task EXCEPT ![t] = x]
    BY <1>1 DEF TakeLock, Continue
  <2>2. Fits(x, rows) /\ x.at = "plan"
    BY <2>1 DEF Fits, TaskState, Stages, HasRequest, Saving, Creating
  <2> HIDE DEF x
  <2>3. QED BY <1>1, <2>1, <2>2, MemoryOnly DEF TakeLock
<1>2. CASE Refuse(t)
  <2>1. lock = t
    BY <1>2 DEF Refuse, Creating
  <2>2. Fits(Idle, rows) /\ Idle.at = "idle"
    BY IdleFits DEF Idle
  <2>3. QED BY <1>2, <2>1, <2>2, MemoryOnly DEF Refuse, Creating
<1>3. CASE Plan(t)
  <2> DEFINE val == IF media \in {"unknown", "deleted"} THEN "pending" ELSE Keep
             x == [task[t] EXCEPT !.at = "check", !.val = val]
  <2>1. /\ task[t].at = "plan" /\ task' = [task EXCEPT ![t] = x]
        /\ UNCHANGED <<media, rows, lock, adding, history>>
    BY <1>3 DEF Plan, Continue
  <2>2. val \in {Keep, "pending"} /\ "pending" \in MediaStatus
    BY DEF MediaStatus
  <2>3. Fits(x, rows) /\ x.at = "check"
    BY <2>1, <2>2 DEF Fits, TaskState, Stages, HasRequest, Saving, Creating
  <2> HIDE DEF x
  <2>4. QED BY <2>1, <2>3, MemoryOnly DEF Creating
<1>4. CASE Check(t)
  <2> DEFINE x == [task[t] EXCEPT !.at = "insert"]
  <2>1. /\ task[t].at = "check" /\ task' = [task EXCEPT ![t] = x]
        /\ UNCHANGED <<media, rows, lock, adding, history>>
        /\ Unborn # {}
    BY <1>4 DEF Check, Continue
  <2>2. Fits(x, rows) /\ x.at = "insert"
    BY <2>1 DEF Fits, TaskState, Stages, HasRequest, Saving, Creating
  <2> HIDE DEF x
  <2>3. QED BY <2>1, <2>2, MemoryOnly DEF Creating
<1>5. CASE Insert(t)
  <2> DEFINE r == Lowest(Unborn)
             x == [Idle EXCEPT !.at = "inserted", !.r = r]
  <2>1. /\ task[t].at = "insert" /\ task' = [task EXCEPT ![t] = x]
        /\ rows' = [rows EXCEPT ![r] = task[t].st]
        /\ media' = Put(media, task[t].val)
        /\ UNCHANGED <<lock, adding, history>>
    BY <1>5 DEF Insert, Continue
  <2>2. r \in Requests
    BY <2>1, LowestIn DEF Unborn
  <2>3. /\ lock = t
        /\ task[t].st \in {"pending", "approved"}
        /\ task[t].val \in {Keep, "pending"}
    BY <2>1 DEF Creating, Fits
  <2> HIDE DEF r
  <2>4. /\ rows' \in [Requests -> RequestStatus \cup {"unborn", "gone"}]
        /\ \A q \in Requests : rows'[q] = "unborn" => rows[q] = "unborn"
        /\ rows'[r] # "unborn"
    BY <2>1, <2>2, <2>3 DEF MovieInv, MovieTypeOK, RequestStatus
  <2>5. media' \in MediaStatus
    BY <2>1, <2>3 DEF Put, MovieInv, MovieTypeOK, MediaStatus
  <2>6. Fits(x, rows') /\ x.at = "inserted"
    BY <2>2, <2>4 DEF Fits, Idle, TaskState, Stages, HasRequest, Saving, Keep, MediaStatus
  <2>7. /\ adding' \in [Requests -> 0..MaxAdds] /\ HistoryTyped'
        /\ \A q \in Requests : adding'[q] <= adding[q]
    BY <2>1, MovieAssumption DEF MovieInv, MovieTypeOK
  <2> HIDE DEF x
  <2>8. QED BY <2>1, <2>3, <2>4, <2>5, <2>6, <2>7, OneTask
<1>6. CASE LoadInserted(t)
  <2> DEFINE r == task[t].r
             x == IF r \in Stored THEN [task[t] EXCEPT !.at = "send", !.st = rows[r]] ELSE Idle
  <2>1. /\ task[t].at = "inserted" /\ task' = [task EXCEPT ![t] = x]
        /\ lock' = IF lock = t /\ x = Idle THEN NoTask ELSE lock
        /\ UNCHANGED <<media, rows, adding, history>>
    BY <1>6 DEF LoadInserted, Continue, Unlock
  <2>2. Fits(x, rows) /\ x.at \notin Creating
    <3>1. CASE r \in Stored
      BY <2>1, <3>1 DEF Fits, TaskState, Stages, HasRequest, Saving, Creating, Stored
    <3>2. CASE r \notin Stored
      BY <3>2, IdleFits DEF Idle, Creating
    <3>3. QED BY <3>1, <3>2
  <2> HIDE DEF x
  <2>3. x.at # "insert"
    BY <2>2 DEF Creating
  <2>4. QED BY <2>1, <2>2, <2>3, MemoryOnly
<1>7. QED BY <1>1, <1>2, <1>3, <1>4, <1>5, <1>6

-----------------------------------------------------------------------------
(* A save and its hooks *)

LEMMA SavingKeeps ==
    ASSUME MovieInv, NEW t \in Tasks,
           \/ SaveUnchanged(t) \/ SaveChanged(t) \/ Write(t) \/ Send(t)
           \/ SpawnAdd(t) \/ SendFails(t) \/ ReadParent(t) \/ WriteParent(t)
    PROVE  MovieInv'
<1> USE TaskFits
<1> DEFINE s == task[t]
<1>0. /\ media \in MediaStatus
      /\ rows \in [Requests -> RequestStatus \cup {"unborn", "gone"}]
      /\ adding \in [Requests -> 0..MaxAdds]
      /\ HistoryTyped
  BY DEF MovieInv, MovieTypeOK
<1>a. s.at \in Saving => /\ s.r \in Requests /\ rows[s.r] # "unborn"
                         /\ s.st \in RequestStatus
                         /\ \A r \in s.todo : rows[r] # "unborn"
  BY DEF Fits, HasRequest, Saving
<1>1. CASE SaveUnchanged(t)
  <2>1. s.at \in Saving /\ UNCHANGED <<media, rows, adding, history>> /\ SaveOver(t, "save", s)
    BY <1>1 DEF SaveUnchanged, Saving
  <2>2. QED BY <1>0, <1>a, <2>1, SaveEnds
<1>2. CASE SaveChanged(t)
  <2> DEFINE x == [s EXCEPT !.at = "write"]
  <2>1. /\ s.at \in Saving /\ task' = [task EXCEPT ![t] = x]
        /\ UNCHANGED <<media, rows, lock, adding, history>>
    BY <1>2 DEF SaveChanged, Continue, Saving
  <2>2. Fits(x, rows) /\ x.at = "write"
    BY <1>a, <2>1 DEF Fits, TaskState, Stages, HasRequest, Saving, Creating
  <2> HIDE DEF x
  <2>3. QED BY <2>1, <2>2, MemoryOnly DEF Creating
<1>3. CASE Write(t)
  <2> DEFINE x == [s EXCEPT !.at = "send"]
  <2>1. /\ s.at \in Saving /\ task' = [task EXCEPT ![t] = x]
        /\ rows' = [rows EXCEPT ![s.r] = IF rows[s.r] = "gone" THEN "gone" ELSE s.st]
        /\ HistoryTyped'
        /\ UNCHANGED <<media, lock, adding>>
    BY <1>0, <1>3 DEF Write, Forget, Continue, Saving
  <2>2. s.st # "unborn"
    BY <1>a, <2>1 DEF RequestStatus
  <2>3. /\ rows' \in [Requests -> RequestStatus \cup {"unborn", "gone"}]
        /\ \A q \in Requests : (rows'[q] = "unborn") = (rows[q] = "unborn")
    BY <1>0, <1>a, <2>1, <2>2
  <2>4. Unborn' = Unborn
    BY <2>3 DEF Unborn
  <2>5. s.todo \subseteq Requests
    BY DEF TaskState
  <2>6. Fits(x, rows) /\ x.at = "send"
    BY <1>a, <2>1 DEF Fits, TaskState, Stages, HasRequest, Saving, Creating
  <2>7. Fits(x, rows')
    BY <1>a, <2>1, <2>3, <2>5, <2>6 DEF Fits, TaskState
  <2>8. \A q \in Requests : adding'[q] <= adding[q]
    BY <1>0, <2>1, MovieAssumption
  <2> HIDE DEF x
  <2>9. QED BY <1>0, <2>1, <2>3, <2>4, <2>6, <2>7, <2>8, OneTask DEF Creating
<1>4. CASE Send(t)
  <2> DEFINE x == IF s.st # "approved" THEN [s EXCEPT !.at = "parent"]
                  ELSE IF media = "available"
                       THEN [s EXCEPT !.at = "save", !.st = "completed"]
                       ELSE [s EXCEPT !.at = "tmdb"]
  <2>1. /\ s.at \in Saving /\ task' = [task EXCEPT ![t] = x]
        /\ UNCHANGED <<media, rows, lock, adding, history>>
    BY <1>4 DEF Send, Continue, Saving
  <2>2. x.at \in {"parent", "save", "tmdb"}
    BY DEF TaskState
  <2>3. ASSUME NEW at \in {"parent", "tmdb", "save"}, NEW st \in RequestStatus,
               x = [s EXCEPT !.at = at, !.st = st],
               at = "tmdb" => st = "approved"
        PROVE  Fits(x, rows)
    <3> HIDE DEF x
    <3>1. QED
      BY <1>a, <2>1, <2>3 DEF Fits, TaskState, Stages, HasRequest, Saving, Creating
  <2>4. \/ x = [s EXCEPT !.at = "parent", !.st = s.st]
        \/ x = [s EXCEPT !.at = "tmdb", !.st = s.st] /\ s.st = "approved"
        \/ x = [s EXCEPT !.at = "save", !.st = "completed"]
    BY DEF TaskState
  <2> HIDE DEF x
  <2>5. Fits(x, rows)
    BY <1>a, <2>1, <2>3, <2>4 DEF RequestStatus
  <2>6. QED BY <2>1, <2>2, <2>5, MemoryOnly DEF Creating
<1>5. CASE SpawnAdd(t)
  <2> DEFINE x == [s EXCEPT !.at = "parent"]
  <2>1. /\ s.at \in Saving /\ task' = [task EXCEPT ![t] = x]
        /\ adding[s.r] < MaxAdds
        /\ adding' = [adding EXCEPT ![s.r] = adding[s.r] + 1]
        /\ UNCHANGED <<media, rows, lock, history>>
    BY <1>5 DEF SpawnAdd, Continue, Saving
  <2>2. Fits(x, rows) /\ x.at = "parent"
    BY <1>a, <2>1 DEF Fits, TaskState, Stages, HasRequest, Saving, Creating
  <2>3. /\ adding' \in [Requests -> 0..MaxAdds]
        /\ \A q \in Requests : adding'[q] <= adding[q] \/ rows[q] # "unborn"
    BY <1>0, <1>a, <2>1, MovieAssumption
  <2>4. Unborn' = Unborn /\ Fits(x, rows')
    BY <2>1, <2>2 DEF Unborn
  <2> HIDE DEF x
  <2>5. QED BY <1>0, <2>1, <2>2, <2>3, <2>4, OneTask DEF Creating
<1>6. CASE SendFails(t)
  <2> DEFINE x == [s EXCEPT !.at = "save", !.st = "failed"]
  <2>1. /\ s.at \in Saving /\ task' = [task EXCEPT ![t] = x]
        /\ UNCHANGED <<media, rows, lock, adding, history>>
    BY <1>6 DEF SendFails, Continue, Saving
  <2>2. Fits(x, rows) /\ x.at = "save"
    BY <1>a, <2>1 DEF Fits, TaskState, Stages, HasRequest, Saving, Creating, RequestStatus
  <2> HIDE DEF x
  <2>3. QED BY <2>1, <2>2, MemoryOnly DEF Creating
<1>7. CASE ReadParent(t)
  <2> DEFINE val == ParentStatus(media, s.st)
             x == [s EXCEPT !.at = "parentWrite", !.val = val]
  <2>1. UNCHANGED <<media, rows, adding, history>>
    BY <1>7 DEF ReadParent
  <2>2. CASE val = Keep
    <3>1. SaveOver(t, "parent", s)
      BY <1>7, <2>2 DEF ReadParent
    <3>2. s.at \in Saving
      BY <3>1 DEF SaveOver, Continue, Saving
    <3>3. QED BY <1>0, <1>a, <2>1, <3>1, <3>2, SaveEnds
  <2>3. CASE val # Keep
    <3>1. s.at \in Saving /\ task' = [task EXCEPT ![t] = x] /\ lock' = lock
      BY <1>7, <2>3 DEF ReadParent, Continue, Saving
    <3>2. val \in {"processing", "unknown"} /\ val \in MediaStatus
      BY <2>3 DEF ParentStatus, MediaStatus
    <3> HIDE DEF val
    <3>3. Fits(x, rows) /\ x.at = "parentWrite"
      BY <1>a, <3>1, <3>2 DEF Fits, TaskState, Stages, HasRequest, Saving, Creating
    <3> HIDE DEF x
    <3>4. QED BY <2>1, <3>1, <3>3, MemoryOnly DEF Creating
  <2>4. QED BY <2>2, <2>3
<1>8. CASE WriteParent(t)
  <2>1. SaveOver(t, "parentWrite", s) /\ media' = s.val /\ UNCHANGED <<rows, adding, history>>
    BY <1>8 DEF WriteParent
  <2>2. s.at = "parentWrite"
    BY <2>1 DEF SaveOver, Continue
  <2>3. media' \in MediaStatus /\ s.at \in Saving
    BY <2>1, <2>2 DEF Fits, MediaStatus, Saving
  <2>4. QED BY <1>a, <2>1, <2>3, SaveEnds
<1>9. QED BY <1>1, <1>2, <1>3, <1>4, <1>5, <1>6, <1>7, <1>8

-----------------------------------------------------------------------------
(* Removals, media saves and the answers of Radarr *)

LEMMA RemovalKeeps ==
    ASSUME MovieInv, NEW t \in Tasks, ReadMedia(t) \/ ReadRequests(t) \/ Delete(t)
    PROVE  MovieInv'
<1> USE TaskFits
<1> DEFINE s == task[t]
<1>0. /\ media \in MediaStatus
      /\ rows \in [Requests -> RequestStatus \cup {"unborn", "gone"}]
      /\ adding \in [Requests -> 0..MaxAdds]
      /\ HistoryTyped
  BY DEF MovieInv, MovieTypeOK
<1>1. CASE ReadMedia(t)
  <2> DEFINE x == [s EXCEPT !.at = "removeRequests", !.val = media]
  <2>1. /\ s.at = "removeMedia" /\ task' = [task EXCEPT ![t] = x]
        /\ UNCHANGED <<media, rows, lock, adding, history>>
    BY <1>1 DEF ReadMedia, Continue
  <2>2. Fits(x, rows) /\ x.at = "removeRequests"
    BY <1>0, <2>1 DEF Fits, TaskState, Stages, HasRequest, Saving, Creating
  <2> HIDE DEF x
  <2>3. QED BY <2>1, <2>2, MemoryOnly DEF Creating
<1>2. CASE ReadRequests(t)
  <2> DEFINE val == Fallback(s.val, Stored \ {s.r})
             x == [s EXCEPT !.at = "delete", !.val = val]
  <2>1. /\ s.at = "removeRequests" /\ task' = [task EXCEPT ![t] = x]
        /\ UNCHANGED <<media, rows, lock, adding, history>>
    BY <1>2 DEF ReadRequests, Continue
  <2>2. val \in {Keep, "deleted", "unknown"} /\ val \in MediaStatus \cup {Keep}
    BY DEF Fallback, MediaStatus
  <2> HIDE DEF val
  <2>3. Fits(x, rows) /\ x.at = "delete"
    BY <2>1, <2>2 DEF Fits, TaskState, Stages, HasRequest, Saving, Creating
  <2> HIDE DEF x
  <2>4. QED BY <2>1, <2>3, MemoryOnly DEF Creating
<1>3. CASE Delete(t)
  <2>1. /\ s.at = "delete" /\ task' = [task EXCEPT ![t] = Idle]
        /\ rows' = [rows EXCEPT ![s.r] = "gone"]
        /\ media' = Put(media, s.val)
        /\ HistoryTyped'
        /\ UNCHANGED <<lock, adding>>
    BY <1>0, <1>3 DEF Delete, Forget, Continue
  <2>2. s.r \in Requests /\ rows[s.r] # "unborn" /\ s.val \in {Keep, "deleted", "unknown"}
    BY <2>1 DEF Fits, HasRequest
  <2>3. /\ rows' \in [Requests -> RequestStatus \cup {"unborn", "gone"}]
        /\ \A q \in Requests : (rows'[q] = "unborn") = (rows[q] = "unborn")
        /\ \A q \in Requests : adding'[q] <= adding[q]
    BY <1>0, <2>1, <2>2, MovieAssumption
  <2>4. Unborn' = Unborn
    BY <2>3 DEF Unborn
  <2>5. media' \in MediaStatus
    BY <1>0, <2>1, <2>2 DEF Put, MediaStatus
  <2>6. Fits(Idle, rows') /\ Idle.at = "idle"
    BY IdleFits DEF Idle
  <2>7. QED BY <1>0, <2>1, <2>3, <2>4, <2>5, <2>6, OneTask DEF Creating
<1>4. QED BY <1>1, <1>2, <1>3

LEMMA MediaSaveKeeps ==
    ASSUME MovieInv, NEW t \in Tasks,
           ApproveChildren(t) \/ WriteMedia(t) \/ CompleteRelated(t)
    PROVE  MovieInv'
<1> USE TaskFits
<1> DEFINE s == task[t]
<1>0. /\ media \in MediaStatus
      /\ rows \in [Requests -> RequestStatus \cup {"unborn", "gone"}]
      /\ adding \in [Requests -> 0..MaxAdds]
      /\ HistoryTyped
  BY DEF MovieInv, MovieTypeOK
<1>1. ASSUME NEW from, NEW todo \in SUBSET Stored, SaveOver(t, from, [s EXCEPT !.todo = todo]),
             UNCHANGED <<media, rows, adding, history>>
      PROVE  MovieInv'
  <2>1. \A r \in todo : rows[r] # "unborn" /\ r \in Requests
    BY DEF Stored, RequestStatus
  <2>2. [s EXCEPT !.todo = todo] \in TaskState /\ [s EXCEPT !.todo = todo].todo = todo
    BY <2>1 DEF TaskState
  <2>3. QED BY <1>0, <1>1, <2>1, <2>2, SaveEnds
<1>2. CASE ApproveChildren(t)
  <2>1. {r \in Stored : rows[r] = "pending"} \in SUBSET Stored
    OBVIOUS
  <2>2. QED BY <1>1, <1>2, <2>1 DEF ApproveChildren
<1>3. CASE CompleteRelated(t)
  <2>1. {r \in Stored : rows[r] \in {"approved", "failed"}} \in SUBSET Stored
    OBVIOUS
  <2>2. QED BY <1>1, <1>3, <2>1 DEF CompleteRelated
<1>4. CASE WriteMedia(t)
  <2> DEFINE x == IF s.target \in Settling THEN [Idle EXCEPT !.at = "complete"] ELSE Idle
  <2>1. /\ s.at = "mediaWrite" /\ task' = [task EXCEPT ![t] = x]
        /\ media' = s.target
        /\ unsettled' = {} /\ UNCHANGED <<rows, lock, adding, sent, unsent>>
    BY <1>4 DEF WriteMedia, Continue
  <2>2. media' \in MediaStatus
    BY <2>1 DEF Fits
  <2>3. Fits(x, rows) /\ x.at \notin Creating /\ x.at # "insert"
    BY DEF Fits, Idle, TaskState, Stages, HasRequest, Saving, Creating, Keep, MediaStatus
  <2> HIDE DEF x
  <2>4. /\ Unborn' = Unborn /\ Fits(x, rows')
        /\ \A q \in Requests : adding'[q] <= adding[q]
    BY <1>0, <2>1, <2>3, MovieAssumption DEF Unborn
  <2>5. QED BY <1>0, <2>1, <2>2, <2>3, <2>4, OneTask
<1>5. QED BY <1>2, <1>3, <1>4

LEMMA AddAnswersKeeps ==
    ASSUME MovieInv, NEW r \in Requests, AddAnswers(r) PROVE MovieInv'
<1>0. /\ media \in MediaStatus
      /\ rows \in [Requests -> RequestStatus \cup {"unborn", "gone"}]
      /\ adding \in [Requests -> 0..MaxAdds]
      /\ HistoryTyped
  BY DEF MovieInv, MovieTypeOK
<1>1. ASSUME adding[r] > 0, adding' = [adding EXCEPT ![r] = adding[r] - 1]
      PROVE  /\ adding' \in [Requests -> 0..MaxAdds]
             /\ \A q \in Requests : adding'[q] <= adding[q]
  BY <1>0, <1>1, MovieAssumption
<1>2. CASE AddSucceeds(r)
  <2>1. /\ adding' \in [Requests -> 0..MaxAdds]
        /\ \A q \in Requests : adding'[q] <= adding[q]
        /\ HistoryTyped'
        /\ UNCHANGED <<media, rows, lock, task>>
    BY <1>0, <1>1, <1>2 DEF AddSucceeds
  <2>2. MovieTypeOK' /\ TasksFit' /\ LockHeld'
    BY <2>1 DEF MovieInv, MovieTypeOK, TasksFit, LockHeld
  <2>3. InsertReady'
    BY <2>1 DEF MovieInv, InsertReady, Unborn
  <2>4. AddsBorn'
    BY <1>0, <2>1, MovieAssumption DEF MovieInv, AddsBorn
  <2>5. QED BY <2>2, <2>3, <2>4 DEF MovieInv
<1>3. ASSUME NEW t \in Tasks, AddFails(t, r) PROVE MovieInv'
  <2> DEFINE x == [Idle EXCEPT !.at = "save", !.r = r, !.st = "failed"]
  <2>1. /\ task' = [task EXCEPT ![t] = x]
        /\ adding' \in [Requests -> 0..MaxAdds]
        /\ \A q \in Requests : adding'[q] <= adding[q]
        /\ UNCHANGED <<media, rows, lock, history>>
        /\ adding[r] > 0
    BY <1>1, <1>3 DEF AddFails, Continue
  <2>2. rows[r] # "unborn"
    BY <2>1 DEF MovieInv, AddsBorn
  <2>3. Fits(x, rows) /\ x.at = "save"
    BY <2>2 DEF Fits, Idle, TaskState, Stages, RequestStatus, HasRequest, Saving, Keep, MediaStatus
  <2> HIDE DEF x
  <2>4. Unborn' = Unborn /\ Fits(x, rows')
    BY <2>1, <2>3 DEF Unborn
  <2>5. QED BY <1>0, <2>1, <2>3, <2>4, OneTask DEF Creating
<1>4. QED BY <1>2, <1>3 DEF AddAnswers

-----------------------------------------------------------------------------
(* Dropped handlers and restarts *)

LEMMA AbandonTyped ==
    ASSUME MovieInv, NEW T, NEW R, Abandon(T, R), UNCHANGED sent
    PROVE  HistoryTyped'
BY DEF Abandon, MovieInv, MovieTypeOK

LEMMA DropKeeps == ASSUME MovieInv, NEW t \in Tasks, Drop(t) PROVE MovieInv'
<1>1. /\ task' = [task EXCEPT ![t] = Idle]
      /\ lock' = IF lock = t THEN NoTask ELSE lock
      /\ UNCHANGED <<media, rows, adding>>
      /\ HistoryTyped'
  BY AbandonTyped DEF Drop
<1>2. Fits(Idle, rows) /\ Idle.at = "idle"
  BY IdleFits DEF Idle
<1>3. Fits(Idle, rows') /\ Unborn' = Unborn
  BY <1>1, <1>2 DEF Unborn
<1>4. /\ media' \in MediaStatus
      /\ rows' \in [Requests -> RequestStatus \cup {"unborn", "gone"}]
      /\ adding' \in [Requests -> 0..MaxAdds]
      /\ \A r \in Requests : adding'[r] <= adding[r] /\ rows'[r] = rows[r]
  BY <1>1, MovieAssumption DEF MovieInv, MovieTypeOK
<1>5. QED BY <1>1, <1>2, <1>3, <1>4, OneTask DEF Creating

LEMMA RestartKeeps == ASSUME MovieInv, Restart PROVE MovieInv'
<1>1. /\ task' = [t \in Tasks |-> Idle]
      /\ lock' = NoTask
      /\ adding' = [r \in Requests |-> 0]
      /\ UNCHANGED <<media, rows>>
      /\ HistoryTyped'
  BY AbandonTyped DEF Restart
<1>2. \A t \in Tasks : task'[t] = Idle /\ Fits(Idle, rows')
  BY <1>1, IdleFits
<1>3. Idle \in TaskState /\ Idle.at \notin Creating /\ Idle.at # "insert"
  BY IdleFits DEF Idle, Creating, Fits
<1>4. MovieTypeOK'
  BY <1>1, <1>3, MovieAssumption DEF MovieInv, MovieTypeOK
<1>5. AddsBorn'
  BY <1>1 DEF AddsBorn
<1>6. QED BY <1>2, <1>3, <1>4, <1>5 DEF MovieInv, TasksFit, LockHeld, InsertReady

-----------------------------------------------------------------------------
(* The invariant *)

\* A step of any handler, job or spawned add keeps what the tasks remember in
\* accord with the rows, the lock and the adds.
LEMMA MovieNextKeeps == ASSUME MovieInv, [MovieNext]_movieVars PROVE MovieInv'
<1>1. ASSUME NEW t \in Tasks, TaskStep(t) PROVE MovieInv'
  BY <1>1, CreationKeeps, SavingKeeps, RemovalKeeps, MediaSaveKeeps DEF TaskStep
<1>2. CASE UNCHANGED movieVars
  BY <1>2 DEF movieVars, MovieInv, MovieTypeOK, TasksFit, LockHeld, InsertReady, AddsBorn,
              Unborn
<1>3. QED
  BY <1>1, <1>2, StartKeeps, AddAnswersKeeps, DropKeeps, RestartKeeps DEF MovieNext, Served

LEMMA MovieInitInv == MovieInit => MovieInv
<1> SUFFICES ASSUME MovieInit PROVE MovieInv
  OBVIOUS
<1>1. \A t \in Tasks : task[t] = Idle /\ Fits(Idle, rows)
  BY IdleFits DEF MovieInit
<1>2. Idle \in TaskState /\ Idle.at \notin Creating /\ Idle.at # "insert"
  BY DEF Idle, TaskState, Stages, Creating, Keep, MediaStatus
<1>3. MovieTypeOK
  BY <1>2, MovieAssumption DEF MovieInit, MovieTypeOK, MediaStatus
<1>4. AddsBorn
  BY DEF MovieInit, AddsBorn
<1>5. QED BY <1>1, <1>2, <1>3, <1>4 DEF MovieInv, TasksFit, LockHeld, InsertReady

\* In every state a task that holds a request entity holds one that was
\* inserted, and a creation past its wait for REQUEST_LOCK holds the lock.
THEOREM MovieInvariance == MovieSpec => []MovieInv
<1>1. MovieInv /\ [MovieNext]_movieVars => MovieInv'
  BY MovieNextKeeps
<1>2. QED BY <1>1, MovieInitInv, PTL DEF MovieSpec

\* The state has its types: no media status outside the five is ever written,
\* no task writes a request without a row.
THEOREM MovieTypeCorrectness == MovieSpec => []MovieTypeOK
<1>1. MovieInv => MovieTypeOK
  BY DEF MovieInv
<1>2. QED BY <1>1, MovieInvariance, PTL

-----------------------------------------------------------------------------
(* The duplicate check *)

\* REQUEST_LOCK makes the check and the insert of a creation one step as far as
\* other creations go, for any number of handlers.
THEOREM ChecksStand == MovieSpec => CheckStandsUntilInsert
<1>1. ASSUME MovieInv, MovieNext,
             NEW t \in Tasks, task[t].at = "insert", task'[t].at = "insert"
      PROVE  Unborn' = Unborn
  <2>1. CASE \E u \in Tasks : Insert(u)
    <3>1. PICK u \in Tasks : Insert(u)
      BY <2>1
    <3>2. u = t
      BY <1>1, <3>1, MovieAssumption DEF MovieInv, LockHeld, Creating, Insert
    <3>3. task'[t].at = "inserted"
      BY <1>1, <3>1, <3>2 DEF Insert, Continue, Idle, MovieInv, MovieTypeOK
    <3>4. QED BY <1>1, <3>3
  <2>2. CASE \E u \in Tasks : Write(u)
    <3>1. PICK u \in Tasks : Write(u)
      BY <2>2
    <3>2. rows[task[u].r] # "unborn" /\ task[u].st \in RequestStatus /\ task[u].r \in Requests
      BY <1>1, <3>1, TaskFits DEF Fits, Write, Continue, HasRequest, Saving
    <3>3. QED
      BY <1>1, <3>1, <3>2 DEF Write, Unborn, RequestStatus, MovieInv, MovieTypeOK
  <2>3. CASE \E u \in Tasks : Delete(u)
    <3>1. PICK u \in Tasks : Delete(u)
      BY <2>3
    <3>2. rows[task[u].r] # "unborn" /\ task[u].r \in Requests
      BY <1>1, <3>1, TaskFits DEF Fits, Delete, Continue, HasRequest
    <3>3. QED
      BY <1>1, <3>1, <3>2 DEF Delete, Unborn, MovieInv, MovieTypeOK
  <2>4. CASE UNCHANGED rows
    BY <2>4 DEF Unborn
  <2>5. QED
    BY <1>1, <2>1, <2>2, <2>3, <2>4
       DEF MovieNext, Served, Drop, Restart,
           Start, TaskStep, AddAnswers, Create, Approve, Decline, Retry, SetStatus,
           Remove, SaveMedia, TakeLock, Refuse, Plan, Check, LoadInserted, SaveUnchanged,
           SaveChanged, Send, SpawnAdd, SendFails, ReadParent, WriteParent, ReadMedia,
           ReadRequests, ApproveChildren, WriteMedia, CompleteRelated, AddSucceeds, AddFails
<1>2. MovieInv /\ [MovieNext]_movieVars
        => [\A t \in Tasks : /\ task[t].at = "insert"
                             /\ task'[t].at = "insert"
                             => Unborn' = Unborn]_movieVars
  BY <1>1
<1>3. QED BY <1>2, MovieInvariance, PTL DEF MovieSpec, CheckStandsUntilInsert

-----------------------------------------------------------------------------
(* The lock *)

\* Who holds the lock creates a request or runs the hooks of its insert, with
\* nothing loaded and no media save to go on with: its last save ends it.
Tended(s) == s.at \in Creating \cup Saving /\ s.target = Keep /\ s.todo = {}

LockTended == lock # NoTask => Tended(task[lock])

LEMMA LockByOneTask ==
    ASSUME MovieInv, LockTended, NEW t \in Tasks, NEW x, task' = [task EXCEPT ![t] = x],
           \/ lock' = t /\ Tended(x)
           \/ lock' = NoTask
           \/ lock' = lock /\ (lock = t => Tended(x))
    PROVE  LockTended'
<1>1. \A u \in Tasks : task'[u] = IF u = t THEN x ELSE task[u]
  BY DEF MovieInv, MovieTypeOK
<1>2. lock \in Tasks \cup {NoTask}
  BY DEF MovieInv, MovieTypeOK
<1>3. QED BY <1>1, <1>2 DEF LockTended

\* A holder that has saved its request is done.
LEMMA LockAfterSave ==
    ASSUME MovieInv, LockTended, NEW t \in Tasks, NEW s \in TaskState, NEW from,
           SaveOver(t, from, s), lock = t => s.todo = {} /\ s.target = Keep
    PROVE  LockTended'
<1> DEFINE x == AfterSave(s)
<1>1. task' = [task EXCEPT ![t] = x] /\ lock' = IF lock = t /\ x = Idle THEN NoTask ELSE lock
  BY DEF SaveOver, Continue, Unlock
<1>2. lock = t => x = Idle
  BY AfterSaveCases
<1> HIDE DEF x
<1>3. QED BY <1>1, <1>2, LockByOneTask

LEMMA LockTendedStep ==
    ASSUME MovieInv, LockTended, [MovieNext]_movieVars
    PROVE  LockTended'
<1>0. ASSUME NEW t \in Tasks
      PROVE  /\ lock = t => Tended(task[t])
             /\ task[t] \in TaskState /\ Fits(task[t], rows)
  BY TaskFits, MovieAssumption DEF LockTended
<1>1. ASSUME NEW t \in Tasks, NEW from, NEW x, Continue(t, from, x), UNCHANGED lock,
             lock = t => Tended(x)
      PROVE  LockTended'
  BY <1>1, LockByOneTask DEF Continue
<1>2. ASSUME NEW t \in Tasks, NEW from, from \notin Creating \cup Saving, task[t].at = from
      PROVE  lock # t
  BY <1>0, <1>2 DEF Tended
<1>3. ASSUME NEW t \in Tasks, Start(t) PROVE LockTended'
  <2>1. ASSUME NEW x, Continue(t, "idle", x), UNCHANGED lock PROVE LockTended'
    BY <1>1, <1>2, <2>1 DEF Continue, Creating, Saving
  <2>2. QED BY <1>3, <2>1 DEF Start, Create, Approve, Decline, Retry, SetStatus, Remove,
                              SaveMedia
<1>4. ASSUME NEW t \in Tasks, TakeLock(t) \/ Refuse(t) \/ Insert(t) PROVE LockTended'
  <2>1. CASE TakeLock(t)
    <3> DEFINE x == [task[t] EXCEPT !.at = "plan"]
    <3>1. task[t].at = "lock" /\ task' = [task EXCEPT ![t] = x] /\ lock' = t
      BY <2>1 DEF TakeLock, Continue
    <3>2. Tended(x)
      BY <1>0, <3>1 DEF Fits, TaskState, Creating, Saving, Tended
    <3> HIDE DEF x
    <3>3. QED BY <3>1, <3>2, LockByOneTask
  <2>2. CASE Refuse(t)
    BY <2>2, LockByOneTask DEF Refuse
  <2>3. CASE Insert(t)
    <3> DEFINE x == [Idle EXCEPT !.at = "inserted", !.r = Lowest(Unborn)]
    <3>1. Continue(t, "insert", x) /\ UNCHANGED lock
      BY <2>3 DEF Insert
    <3>2. Tended(x)
      BY DEF Idle, Tended, Creating
    <3> HIDE DEF x
    <3>3. QED BY <1>1, <3>1, <3>2
  <2>4. QED BY <1>4, <2>1, <2>2, <2>3
<1>5. ASSUME NEW t \in Tasks, NEW from \in Creating \cup Saving,
             NEW x, Continue(t, from, x), UNCHANGED lock,
             x.at \in Creating \cup Saving, x.target = task[t].target, x.todo = task[t].todo
      PROVE  LockTended'
  BY <1>0, <1>1, <1>5 DEF Tended
<1>6. ASSUME NEW t \in Tasks, Plan(t) \/ Check(t) \/ LoadInserted(t) PROVE LockTended'
  <2>1. CASE Plan(t)
    <3> DEFINE val == IF media \in {"unknown", "deleted"} THEN "pending" ELSE Keep
               x == [task[t] EXCEPT !.at = "check", !.val = val]
    <3>1. Continue(t, "plan", x) /\ UNCHANGED lock
      BY <2>1 DEF Plan
    <3> HIDE DEF val
    <3>2. x.at = "check" /\ x.target = task[t].target /\ x.todo = task[t].todo
      BY <1>0 DEF TaskState
    <3> HIDE DEF x
    <3>3. QED BY <1>5, <3>1, <3>2 DEF Creating
  <2>2. CASE Check(t)
    <3> DEFINE x == [task[t] EXCEPT !.at = "insert"]
    <3>1. Continue(t, "check", x) /\ UNCHANGED lock
      BY <2>2 DEF Check
    <3>2. x.at = "insert" /\ x.target = task[t].target /\ x.todo = task[t].todo
      BY <1>0 DEF TaskState
    <3> HIDE DEF x
    <3>3. QED BY <1>5, <3>1, <3>2 DEF Creating
  <2>3. CASE LoadInserted(t)
    <3> DEFINE r == task[t].r
               x == [task[t] EXCEPT !.at = "send", !.st = rows[r]]
    <3>1. CASE r \in Stored
      <4>1. task' = [task EXCEPT ![t] = x]
        BY <2>3, <3>1 DEF LoadInserted, Continue
      <4>2. x.at = "send" /\ x.target = task[t].target /\ x.todo = task[t].todo
        BY <1>0 DEF TaskState
      <4>3. x # Idle
        BY <4>2 DEF Idle
      <4>4. lock' = lock
        BY <2>3, <3>1, <4>3 DEF LoadInserted, Unlock
      <4> HIDE DEF x
      <4>5. lock = t => Tended(x)
        BY <1>0, <4>2 DEF Tended, Saving
      <4>6. QED BY <4>1, <4>4, <4>5, LockByOneTask
    <3>2. CASE r \notin Stored
      <4>1. task' = [task EXCEPT ![t] = Idle] /\ lock' = IF lock = t THEN NoTask ELSE lock
        BY <2>3, <3>2 DEF LoadInserted, Continue, Unlock
      <4>2. QED BY <4>1, LockByOneTask
    <3>3. QED BY <3>1, <3>2
  <2>4. QED BY <1>6, <2>1, <2>2, <2>3
<1>7. ASSUME NEW t \in Tasks, NEW from, NEW T \in SUBSET Requests,
             SaveOver(t, from, [task[t] EXCEPT !.todo = T]),
             T = task[t].todo \/ from \in {"approve", "complete"}
      PROVE  LockTended'
  <2> DEFINE s == [task[t] EXCEPT !.todo = T]
  <2>1. s \in TaskState /\ s.todo = T /\ s.target = task[t].target
    BY <1>0 DEF TaskState
  <2>2. task[t].at = from
    BY <1>7 DEF SaveOver, Continue
  <2>3. lock = t => s.todo = {} /\ s.target = Keep
    BY <1>0, <1>7, <2>1, <2>2 DEF Tended, Creating, Saving
  <2> HIDE DEF s
  <2>4. QED BY <1>7, <2>1, <2>3, LockAfterSave DEF s
<1>8. ASSUME NEW t \in Tasks, SaveUnchanged(t) \/ ReadParent(t) \/ WriteParent(t)
             \/ ApproveChildren(t) \/ CompleteRelated(t)
      PROVE  LockTended'
  <2>1. ASSUME NEW from, SaveOver(t, from, task[t]) PROVE LockTended'
    <3>1. lock = t => task[t].todo = {} /\ task[t].target = Keep
      BY <1>0 DEF Tended
    <3>2. QED BY <1>0, <2>1, <3>1, LockAfterSave
  <2>2. CASE SaveUnchanged(t) \/ WriteParent(t)
    BY <2>1, <2>2 DEF SaveUnchanged, WriteParent
  <2>3. CASE ReadParent(t)
    <3> DEFINE val == ParentStatus(media, task[t].st)
               x == [task[t] EXCEPT !.at = "parentWrite", !.val = val]
    <3>1. SaveOver(t, "parent", task[t]) \/ (Continue(t, "parent", x) /\ UNCHANGED lock)
      BY <2>3 DEF ReadParent
    <3> HIDE DEF val
    <3>2. x.at = "parentWrite" /\ x.target = task[t].target /\ x.todo = task[t].todo
      BY <1>0 DEF TaskState
    <3> HIDE DEF x
    <3>3. QED BY <1>5, <2>1, <3>1, <3>2 DEF Saving
  <2>4. CASE ApproveChildren(t)
    <3>1. {r \in Stored : rows[r] = "pending"} \in SUBSET Requests
      BY DEF Stored
    <3>2. QED BY <1>7, <2>4, <3>1 DEF ApproveChildren
  <2>5. CASE CompleteRelated(t)
    <3>1. {r \in Stored : rows[r] \in {"approved", "failed"}} \in SUBSET Requests
      BY DEF Stored
    <3>2. QED BY <1>7, <2>5, <3>1 DEF CompleteRelated
  <2>6. QED BY <1>8, <2>2, <2>3, <2>4, <2>5
<1>9. ASSUME NEW t \in Tasks, SaveChanged(t) \/ Write(t) \/ Send(t) \/ SpawnAdd(t) \/ SendFails(t)
      PROVE  LockTended'
  <2>1. ASSUME NEW from \in Saving, NEW at \in Saving, NEW st,
               Continue(t, from, [task[t] EXCEPT !.at = at, !.st = st]), UNCHANGED lock
        PROVE  LockTended'
    <3> DEFINE x == [task[t] EXCEPT !.at = at, !.st = st]
    <3>1. x.at = at /\ x.target = task[t].target /\ x.todo = task[t].todo
      BY <1>0 DEF TaskState
    <3> HIDE DEF x
    <3>2. QED BY <1>5, <2>1, <3>1 DEF x
  <2>2. UNCHANGED lock
    BY <1>9 DEF SaveChanged, Write, Send, SpawnAdd, SendFails
  <2>3. \A at : [task[t] EXCEPT !.at = at] = [task[t] EXCEPT !.at = at, !.st = task[t].st]
    BY <1>0 DEF TaskState
  <2>4. CASE SaveChanged(t)
    BY <2>1, <2>2, <2>3, <2>4 DEF SaveChanged, Saving
  <2>5. CASE Write(t)
    BY <2>1, <2>2, <2>3, <2>5 DEF Write, Saving
  <2>6. CASE Send(t)
    BY <2>1, <2>2, <2>3, <2>6 DEF Send, Saving
  <2>7. CASE SpawnAdd(t)
    BY <2>1, <2>2, <2>3, <2>7 DEF SpawnAdd, Saving
  <2>8. CASE SendFails(t)
    BY <2>1, <2>2, <2>8 DEF SendFails, Saving
  <2>9. QED BY <1>9, <2>4, <2>5, <2>6, <2>7, <2>8
<1>10. ASSUME NEW t \in Tasks, ReadMedia(t) \/ ReadRequests(t) \/ Delete(t) \/ WriteMedia(t)
       PROVE  LockTended'
  <2>1. ASSUME NEW from \in {"removeMedia", "removeRequests", "delete", "mediaWrite"}, NEW x,
               Continue(t, from, x), UNCHANGED lock
        PROVE  LockTended'
    BY <1>1, <1>2, <2>1 DEF Continue, Creating, Saving
  <2>2. QED BY <1>10, <2>1 DEF ReadMedia, ReadRequests, Delete, WriteMedia
<1>11. ASSUME NEW r \in Requests, AddAnswers(r) PROVE LockTended'
  <2>1. CASE AddSucceeds(r)
    BY <2>1 DEF AddSucceeds, LockTended
  <2>2. ASSUME NEW t \in Tasks, AddFails(t, r) PROVE LockTended'
    BY <1>1, <1>2, <2>2 DEF AddFails, Continue, Creating, Saving
  <2>3. QED BY <1>11, <2>1, <2>2 DEF AddAnswers
<1>12. ASSUME NEW t \in Tasks, Drop(t) PROVE LockTended'
  <2>1. /\ task' = [task EXCEPT ![t] = Idle]
        /\ lock' = IF lock = t THEN NoTask ELSE lock
    BY <1>12 DEF Drop
  <2>2. QED BY <2>1, LockByOneTask
<1>13. CASE Restart
  BY <1>13 DEF Restart, LockTended
<1>14. CASE UNCHANGED movieVars
  BY <1>14 DEF movieVars, LockTended
<1>15. QED
  BY <1>3, <1>4, <1>6, <1>8, <1>9, <1>10, <1>11, <1>12, <1>13, <1>14
     DEF MovieNext, Served, TaskStep

\* REQUEST_LOCK is with the creation under way and nobody leaves it behind, for
\* any number of handlers.
THEOREM LockIsHeld == MovieSpec => []LockHeldThroughout
<1>1. MovieInit => LockTended
  BY DEF MovieInit, LockTended
<1>2. MovieInv /\ LockTended => LockHeldThroughout
  BY DEF MovieInv, LockHeld, LockTended, LockHeldThroughout, Tended, Creating, Saving
<1>3. QED BY <1>1, <1>2, MovieInvariance, LockTendedStep, PTL DEF MovieSpec

-----------------------------------------------------------------------------
(* The awaits that are left *)

LEMMA SweepType == Sweep \in Nat
BY MovieAssumption DEF Sweep

\* No more requests are loaded than there are.
LEMMA TodoFinite == ASSUME NEW T \in SUBSET Requests
                    PROVE  /\ IsFiniteSet(T)
                           /\ Cardinality(T) \in Nat
                           /\ 12 * Cardinality(T) <= Sweep
<1>1. IsFiniteSet(Requests) /\ Cardinality(Requests) = MaxRequests
  BY FS_Interval, MovieAssumption DEF Requests
<1>2. IsFiniteSet(T) /\ Cardinality(T) <= MaxRequests
  BY <1>1, FS_Subset
<1>3. Cardinality(T) \in Nat
  BY <1>2, FS_CardinalityType
<1>4. QED BY <1>2, <1>3, MovieAssumption DEF Sweep

\* What is left by stage.
LEMMA WorkCases == ASSUME NEW s
                   PROVE  /\ s.at = "idle" => WorkLeft(s) = 0
                          /\ s.at = "lock" => WorkLeft(s) = 17
                          /\ s.at = "plan" => WorkLeft(s) = 16
                          /\ s.at = "check" => WorkLeft(s) = 15
                          /\ s.at = "insert" => WorkLeft(s) = 14
                          /\ s.at = "inserted" => WorkLeft(s) = 13
                          /\ s.at = "removeMedia" => WorkLeft(s) = 3
                          /\ s.at = "removeRequests" => WorkLeft(s) = 2
                          /\ s.at = "delete" => WorkLeft(s) = 1
                          /\ s.at = "approve" => WorkLeft(s) = 2 * Sweep + 3
                          /\ s.at = "mediaWrite" => WorkLeft(s) = Sweep + 2
                          /\ s.at = "complete" => WorkLeft(s) = Sweep + 1
                          /\ s.at \in Saving => WorkLeft(s) = SavesLeft(s)
<1> HIDE DEF Sweep
<1>1. s.at \in Saving => WorkLeft(s) = SavesLeft(s)
  BY DEF WorkLeft, Saving
<1>2. QED BY <1>1 DEF WorkLeft

LEMMA HooksCases == /\ HooksLeft("save") = 5
                    /\ HooksLeft("write") = 4
                    /\ HooksLeft("send") = 3
                    /\ HooksLeft("tmdb") = 2
                    /\ HooksLeft("parent") = 1
                    /\ HooksLeft("parentWrite") = 0
BY DEF HooksLeft

\* What is left when the current save is over.
SweepsLeft(s) == 12 * Cardinality(s.todo) + (IF s.target = Keep THEN 0 ELSE Sweep + 2)

LEMMA SavesLeftType ==
    ASSUME NEW s \in TaskState
    PROVE  /\ SweepsLeft(s) \in Nat
           /\ s.at \in Saving =>
                SavesLeft(s) = 1 + SweepsLeft(s) + HooksLeft(s.at)
                                 + (IF s.st = "approved" THEN 6 ELSE 0)
<1>1. Cardinality(s.todo) \in Nat
  BY TodoFinite DEF TaskState
<1>2. SweepsLeft(s) \in Nat
  BY <1>1, SweepType DEF SweepsLeft
<1>3. s.at \in Saving => HooksLeft(s.at) \in Nat
  BY HooksCases DEF Saving
<1>4. QED BY <1>1, <1>2, <1>3, SweepType DEF SweepsLeft, SavesLeft

LEMMA WorkLeftType == ASSUME NEW s \in TaskState PROVE WorkLeft(s) \in Nat
<1>1. CASE s.at \in Saving
  <2>1. HooksLeft(s.at) \in Nat
    BY <1>1, HooksCases DEF Saving
  <2>2. SavesLeft(s) \in Nat
    BY <1>1, <2>1, SavesLeftType
  <2>3. QED BY <1>1, <2>2, WorkCases
<1>2. CASE s.at \notin Saving
  <2>1. s.at \in Stages
    BY DEF TaskState
  <2>2. s.at \in {"idle", "lock", "plan", "check", "insert", "inserted", "removeMedia",
                  "removeRequests", "delete", "approve", "mediaWrite", "complete"}
    BY <1>2, <2>1 DEF Stages, Saving
  <2>3. QED BY <2>2, WorkCases, SweepType
<1>3. QED BY <1>1, <1>2

\* The next save, the media row or the end: less than the current save and
\* what was to follow it.
LEMMA AfterSaveLeaves ==
    ASSUME NEW s \in TaskState
    PROVE  WorkLeft(AfterSave(s)) <= SweepsLeft(s)
<1>1. SweepsLeft(s) \in Nat /\ Cardinality(s.todo) \in Nat /\ IsFiniteSet(s.todo)
  BY SavesLeftType, TodoFinite DEF TaskState
<1>2. CASE AfterSave(s) = Idle
  BY <1>1, <1>2, WorkCases DEF Idle
<1>3. CASE /\ s.todo = {} /\ s.target # Keep
           /\ AfterSave(s) = [at |-> "mediaWrite", r |-> 0, st |-> "none", val |-> Keep,
                              target |-> s.target, todo |-> {}]
  <2>1. WorkLeft(AfterSave(s)) = Sweep + 2
    BY <1>3, WorkCases
  <2>2. SweepsLeft(s) = Sweep + 2
    BY <1>3, FS_EmptySet, SweepType DEF SweepsLeft
  <2>3. QED BY <2>1, <2>2, SweepType
<1>4. ASSUME NEW r \in s.todo,
             AfterSave(s) = [at |-> "save", r |-> r,
                             st |-> IF s.target = Keep THEN "completed" ELSE "approved",
                             val |-> Keep, target |-> s.target, todo |-> s.todo \ {r}]
      PROVE  WorkLeft(AfterSave(s)) <= SweepsLeft(s)
  <2> DEFINE x == AfterSave(s)
  <2>1. x.at = "save" /\ x.target = s.target /\ x.todo = s.todo \ {r}
    BY <1>4
  <2>2. Cardinality(x.todo) = Cardinality(s.todo) - 1
    BY <1>1, <2>1, FS_RemoveElement
  <2> HIDE DEF x
  <2>3. WorkLeft(x) = SavesLeft(x)
    BY <2>1, WorkCases DEF Saving
  <2>4. WorkLeft(x) = 1 + 12 * (Cardinality(s.todo) - 1) + 5
                        + (IF x.st = "approved" THEN 6 ELSE 0)
                        + (IF s.target = Keep THEN 0 ELSE Sweep + 2)
    BY <2>1, <2>2, <2>3, HooksCases DEF SavesLeft
  <2>5. QED BY <1>1, <2>4, SweepType DEF SweepsLeft, x
<1>5. QED BY <1>2, <1>3, <1>4, AfterSaveCases

\* One await of a handler: its own state alone changes, and less is left.
Advances(t) == /\ WorkLeft(task'[t]) < WorkLeft(task[t])
               /\ \A u \in Tasks \ {t} : task'[u] = task[u]

LEMMA AdvancesBy ==
    ASSUME MovieInv, NEW t \in Tasks, NEW x, task' = [task EXCEPT ![t] = x],
           WorkLeft(x) < WorkLeft(task[t])
    PROVE  Advances(t)
BY DEF MovieInv, MovieTypeOK, Advances

LEMMA CreationAdvances ==
    ASSUME MovieInv, NEW t \in Tasks,
           TakeLock(t) \/ Refuse(t) \/ Plan(t) \/ Check(t) \/ Insert(t) \/ LoadInserted(t)
    PROVE  Advances(t)
<1> DEFINE s == task[t]
<1>0. s \in TaskState /\ Fits(s, rows)
  BY TaskFits
<1>1. CASE TakeLock(t) \/ Refuse(t) \/ Plan(t) \/ Check(t) \/ Insert(t)
  <2>1. ASSUME NEW x, task' = [task EXCEPT ![t] = x],
               \/ s.at = "lock" /\ x.at = "plan"
               \/ s.at \in {"plan", "check"} /\ x.at = "idle"
               \/ s.at = "plan" /\ x.at = "check"
               \/ s.at = "check" /\ x.at = "insert"
               \/ s.at = "insert" /\ x.at = "inserted"
        PROVE  Advances(t)
    <3>1. WorkLeft(x) < WorkLeft(s)
      BY <2>1, WorkCases
    <3>2. QED BY <2>1, <3>1, AdvancesBy
  <2>2. CASE TakeLock(t)
    BY <1>0, <2>1, <2>2 DEF TakeLock, Continue, TaskState
  <2>3. CASE Refuse(t)
    BY <2>1, <2>3 DEF Refuse, Idle
  <2>4. CASE Plan(t)
    <3> DEFINE x == [s EXCEPT !.at = "check",
                              !.val = IF media \in {"unknown", "deleted"}
                                      THEN "pending" ELSE Keep]
    <3>1. s.at = "plan" /\ task' = [task EXCEPT ![t] = x]
      BY <2>4 DEF Plan, Continue
    <3>2. x.at = "check"
      BY <1>0 DEF TaskState
    <3> HIDE DEF x
    <3>3. QED BY <2>1, <3>1, <3>2
  <2>5. CASE Check(t)
    BY <1>0, <2>1, <2>5 DEF Check, Continue, TaskState
  <2>6. CASE Insert(t)
    BY <1>0, <2>1, <2>6 DEF Insert, Continue, Idle
  <2>7. QED BY <1>1, <2>2, <2>3, <2>4, <2>5, <2>6
<1>2. CASE LoadInserted(t)
  <2> DEFINE r == s.r
             x == IF r \in Stored THEN [s EXCEPT !.at = "send", !.st = rows[r]] ELSE Idle
  <2>1. s.at = "inserted" /\ task' = [task EXCEPT ![t] = x]
    BY <1>2 DEF LoadInserted, Continue
  <2>2. WorkLeft(s) = 13
    BY <2>1, WorkCases
  <2>3. r \notin Stored => WorkLeft(x) < WorkLeft(s)
    <3> SUFFICES ASSUME r \notin Stored PROVE WorkLeft(x) < WorkLeft(s)
      OBVIOUS
    <3>1. x.at = "idle"
      BY DEF Idle
    <3> HIDE DEF x
    <3>2. WorkLeft(x) = 0
      BY <3>1, WorkCases
    <3>3. QED BY <2>2, <3>2
  <2>4. r \in Stored => WorkLeft(x) < WorkLeft(s)
    <3> SUFFICES ASSUME r \in Stored PROVE WorkLeft(x) < WorkLeft(s)
      OBVIOUS
    <3>1. x.at = "send" /\ x.todo = {} /\ x.target = Keep
      BY <1>0, <2>1 DEF TaskState, Fits, Saving, Creating
    <3> HIDE DEF x
    <3>2. WorkLeft(x) = 1 + 12 * 0 + 3 + (IF x.st = "approved" THEN 6 ELSE 0) + 0
      BY <3>1, WorkCases, HooksCases, FS_EmptySet DEF SavesLeft, Saving
    <3>3. QED BY <2>2, <3>2
  <2>5. WorkLeft(x) < WorkLeft(s)
    BY <2>3, <2>4
  <2> HIDE DEF x
  <2>6. QED BY <2>1, <2>5, AdvancesBy
<1>3. QED BY <1>1, <1>2

\* Within a save and its hooks.
LEMMA HooksAdvance ==
    ASSUME NEW s \in TaskState, NEW x, x.todo = s.todo, x.target = s.target,
           \/ x.st = s.st /\ \/ s.at = "save" /\ x.at = "write"
                             \/ s.at = "write" /\ x.at = "send"
                             \/ s.at = "send" /\ x.at \in {"parent", "tmdb"}
                             \/ s.at = "tmdb" /\ x.at = "parent"
                             \/ s.at = "parent" /\ x.at = "parentWrite"
           \/ /\ s.at \in {"send", "tmdb"} /\ s.st = "approved"
              /\ x.at = "save" /\ x.st \in {"completed", "failed"}
    PROVE  WorkLeft(x) < WorkLeft(s)
<1> DEFINE N(a, b) == HooksLeft(a) + (IF b = "approved" THEN 6 ELSE 0)
<1>1. s.at \in Saving /\ x.at \in Saving
  BY DEF Saving
<1>2. WorkLeft(s) = SavesLeft(s) /\ WorkLeft(x) = SavesLeft(x)
  BY <1>1, WorkCases
<1>3. SweepsLeft(x) = SweepsLeft(s) /\ SweepsLeft(s) \in Nat
  BY SavesLeftType DEF SweepsLeft
<1>4. HooksLeft(s.at) \in Nat /\ HooksLeft(x.at) \in Nat
  BY <1>1, HooksCases DEF Saving
<1>5. /\ SavesLeft(s) = 1 + SweepsLeft(s) + N(s.at, s.st)
      /\ SavesLeft(x) = 1 + SweepsLeft(s) + N(x.at, x.st)
  <2>1. Cardinality(s.todo) \in Nat
    BY TodoFinite DEF TaskState
  <2>2. QED BY <1>4, <2>1, SweepType DEF SweepsLeft, SavesLeft
<1>6. N(x.at, x.st) < N(s.at, s.st) /\ N(x.at, x.st) \in Nat /\ N(s.at, s.st) \in Nat
  BY HooksCases
<1> HIDE DEF N
<1>7. QED BY <1>2, <1>3, <1>5, <1>6

LEMMA SaveOverAdvances ==
    ASSUME MovieInv, NEW t \in Tasks, NEW s \in TaskState, NEW from,
           SaveOver(t, from, s), SweepsLeft(s) < WorkLeft(task[t]),
           WorkLeft(task[t]) \in Nat
    PROVE  Advances(t)
<1> DEFINE x == AfterSave(s)
<1>1. task' = [task EXCEPT ![t] = x]
  BY DEF SaveOver, Continue
<1>2. WorkLeft(x) <= SweepsLeft(s) /\ SweepsLeft(s) \in Nat
  BY AfterSaveLeaves, SavesLeftType
<1>3. WorkLeft(x) \in Nat
  <2> DEFINE R == [r \in Requests |-> "gone"]
  <2>1. \A r \in s.todo : R[r] # "unborn"
    BY DEF TaskState
  <2>2. x \in TaskState
    BY <2>1, AfterSaveFits DEF Fits
  <2> HIDE DEF x
  <2>3. QED BY <2>2, WorkLeftType
<1> HIDE DEF x
<1>4. WorkLeft(x) < WorkLeft(task[t])
  BY <1>2, <1>3
<1>5. QED BY <1>1, <1>4, AdvancesBy

LEMMA SavingAdvances ==
    ASSUME MovieInv, NEW t \in Tasks,
           \/ SaveUnchanged(t) \/ SaveChanged(t) \/ Write(t) \/ Send(t)
           \/ SpawnAdd(t) \/ SendFails(t) \/ ReadParent(t) \/ WriteParent(t)
    PROVE  Advances(t)
<1> DEFINE s == task[t]
<1>0. s \in TaskState /\ Fits(s, rows) /\ WorkLeft(s) \in Nat
  BY TaskFits, WorkLeftType
<1>1. ASSUME NEW from, SaveOver(t, from, s), s.at \in Saving PROVE Advances(t)
  <2>1. SweepsLeft(s) < WorkLeft(s)
    BY <1>0, <1>1, WorkCases, SavesLeftType, HooksCases DEF Saving
  <2>2. QED BY <1>0, <1>1, <2>1, SaveOverAdvances
<1>2. ASSUME NEW at \in Stages, NEW st \in RequestStatus,
             Continue(t, s.at, [s EXCEPT !.at = at, !.st = st]),
             \/ st = s.st /\ \/ s.at = "save" /\ at = "write"
                             \/ s.at = "write" /\ at = "send"
                             \/ s.at = "send" /\ at \in {"parent", "tmdb"}
                             \/ s.at = "tmdb" /\ at = "parent"
             \/ /\ s.at \in {"send", "tmdb"} /\ s.st = "approved"
                /\ at = "save" /\ st \in {"completed", "failed"}
      PROVE  Advances(t)
  <2> DEFINE x == [s EXCEPT !.at = at, !.st = st]
  <2>1. x.at = at /\ x.st = st /\ x.todo = s.todo /\ x.target = s.target
    BY <1>0 DEF TaskState
  <2>2. task' = [task EXCEPT ![t] = x]
    BY <1>2 DEF Continue
  <2> HIDE DEF x
  <2>3. WorkLeft(x) < WorkLeft(s)
    BY <1>0, <1>2, <2>1, HooksAdvance
  <2>4. QED BY <2>2, <2>3, AdvancesBy
<1>3. s.at \in Saving => s.st \in RequestStatus
  BY <1>0 DEF Fits
<1>4. CASE SaveUnchanged(t)
  BY <1>1, <1>4 DEF SaveUnchanged, Saving
<1>5. CASE SaveChanged(t)
  <2>1. Continue(t, s.at, [s EXCEPT !.at = "write", !.st = s.st]) /\ s.at = "save"
    BY <1>0, <1>5 DEF SaveChanged, Continue, TaskState
  <2>2. QED BY <1>2, <1>3, <2>1 DEF Saving, Stages
<1>6. CASE Write(t)
  <2>1. Continue(t, s.at, [s EXCEPT !.at = "send", !.st = s.st]) /\ s.at = "write"
    BY <1>0, <1>6 DEF Write, Continue, TaskState
  <2>2. QED BY <1>2, <1>3, <2>1 DEF Saving, Stages
<1>7. CASE Send(t)
  <2>1. s.at = "send"
    BY <1>7 DEF Send, Continue
  <2>2. \/ Continue(t, s.at, [s EXCEPT !.at = "parent", !.st = s.st])
        \/ Continue(t, s.at, [s EXCEPT !.at = "tmdb", !.st = s.st])
        \/ /\ s.st = "approved"
           /\ Continue(t, s.at, [s EXCEPT !.at = "save", !.st = "completed"])
    BY <1>0, <1>7 DEF Send, Continue, TaskState
  <2>3. QED BY <1>2, <1>3, <2>1, <2>2 DEF Saving, Stages, RequestStatus
<1>8. CASE SpawnAdd(t)
  <2>1. Continue(t, s.at, [s EXCEPT !.at = "parent", !.st = s.st]) /\ s.at = "tmdb"
    BY <1>0, <1>8 DEF SpawnAdd, Continue, TaskState
  <2>2. QED BY <1>2, <1>3, <2>1 DEF Saving, Stages
<1>9. CASE SendFails(t)
  <2>1. Continue(t, s.at, [s EXCEPT !.at = "save", !.st = "failed"]) /\ s.at = "tmdb"
    BY <1>9 DEF SendFails, Continue
  <2>2. s.st = "approved"
    BY <1>0, <2>1 DEF Fits
  <2>3. QED BY <1>2, <2>1, <2>2 DEF Stages, RequestStatus
<1>10. CASE ReadParent(t)
  <2> DEFINE val == ParentStatus(media, s.st)
             x == [s EXCEPT !.at = "parentWrite", !.val = val]
  <2>1. CASE val = Keep
    BY <1>1, <1>10, <2>1 DEF ReadParent, SaveOver, Continue, Saving
  <2>2. CASE val # Keep
    <3>1. task' = [task EXCEPT ![t] = x] /\ s.at = "parent"
      BY <1>10, <2>2 DEF ReadParent, Continue
    <3>2. x.at = "parentWrite" /\ x.st = s.st /\ x.todo = s.todo /\ x.target = s.target
      BY <1>0 DEF TaskState
    <3> HIDE DEF x
    <3>3. WorkLeft(x) < WorkLeft(s)
      BY <1>0, <3>1, <3>2, HooksAdvance
    <3>4. QED BY <3>1, <3>3, AdvancesBy
  <2>3. QED BY <2>1, <2>2
<1>11. CASE WriteParent(t)
  BY <1>1, <1>11 DEF WriteParent, SaveOver, Continue, Saving
<1>12. QED BY <1>4, <1>5, <1>6, <1>7, <1>8, <1>9, <1>10, <1>11

LEMMA RemovalAndMediaSaveAdvance ==
    ASSUME MovieInv, NEW t \in Tasks,
           \/ ReadMedia(t) \/ ReadRequests(t) \/ Delete(t)
           \/ ApproveChildren(t) \/ WriteMedia(t) \/ CompleteRelated(t)
    PROVE  Advances(t)
<1> DEFINE s == task[t]
<1>0. s \in TaskState /\ Fits(s, rows) /\ WorkLeft(s) \in Nat
  BY TaskFits, WorkLeftType
<1>1. ASSUME NEW x, task' = [task EXCEPT ![t] = x],
             \/ s.at = "removeMedia" /\ x.at = "removeRequests"
             \/ s.at = "removeRequests" /\ x.at = "delete"
             \/ s.at = "delete" /\ x.at = "idle"
             \/ s.at = "mediaWrite" /\ x.at \in {"complete", "idle"}
      PROVE  Advances(t)
  <2>1. WorkLeft(x) < WorkLeft(s)
    BY <1>1, WorkCases, SweepType
  <2>2. QED BY <1>1, <2>1, AdvancesBy
<1>2. CASE ReadMedia(t)
  BY <1>0, <1>1, <1>2 DEF ReadMedia, Continue, TaskState
<1>3. CASE ReadRequests(t)
  <2> DEFINE x == [s EXCEPT !.at = "delete", !.val = Fallback(s.val, Stored \ {s.r})]
  <2>1. task' = [task EXCEPT ![t] = x] /\ s.at = "removeRequests"
    BY <1>3 DEF ReadRequests, Continue
  <2>2. x.at = "delete"
    BY <1>0 DEF TaskState
  <2> HIDE DEF x
  <2>3. QED BY <1>1, <2>1, <2>2
<1>4. CASE Delete(t)
  BY <1>1, <1>4 DEF Delete, Continue, Idle
<1>5. CASE WriteMedia(t)
  <2> DEFINE x == IF s.target \in Settling THEN [Idle EXCEPT !.at = "complete"] ELSE Idle
  <2>1. task' = [task EXCEPT ![t] = x] /\ s.at = "mediaWrite"
    BY <1>5 DEF WriteMedia, Continue
  <2>2. x.at \in {"complete", "idle"}
    BY DEF Idle
  <2> HIDE DEF x
  <2>3. QED BY <1>1, <2>1, <2>2
<1>6. ASSUME NEW from, NEW T \in SUBSET Requests, SaveOver(t, from, [s EXCEPT !.todo = T]),
             s.at = "approve" \/ s.at = "complete"
      PROVE  Advances(t)
  <2> DEFINE x == [s EXCEPT !.todo = T]
  <2>1. x \in TaskState /\ x.todo = T /\ x.target = s.target
    BY <1>0 DEF TaskState
  <2>2. Cardinality(T) \in Nat /\ 12 * Cardinality(T) <= Sweep
    BY TodoFinite
  <2>3. s.at = "complete" => s.target = Keep
    BY <1>0 DEF Fits
  <2> HIDE DEF x
  <2>4. SweepsLeft(x) < WorkLeft(s)
    BY <1>6, <2>1, <2>2, <2>3, WorkCases, SweepType DEF SweepsLeft
  <2>5. QED BY <1>0, <1>6, <2>1, <2>4, SaveOverAdvances DEF x
<1>7. CASE ApproveChildren(t)
  <2>1. {r \in Stored : rows[r] = "pending"} \in SUBSET Requests
    BY DEF Stored
  <2>2. s.at = "approve"
    BY <1>7 DEF ApproveChildren, SaveOver, Continue
  <2>3. QED BY <1>6, <1>7, <2>1, <2>2 DEF ApproveChildren
<1>8. CASE CompleteRelated(t)
  <2>1. {r \in Stored : rows[r] \in {"approved", "failed"}} \in SUBSET Requests
    BY DEF Stored
  <2>2. s.at = "complete"
    BY <1>8 DEF CompleteRelated, SaveOver, Continue
  <2>3. QED BY <1>6, <1>8, <2>1, <2>2 DEF CompleteRelated
<1>9. QED BY <1>2, <1>3, <1>4, <1>5, <1>7, <1>8

\* Only an idle task has nothing left to do.
LEMMA IdleHasNoWork ==
    ASSUME MovieInv, NEW t \in Tasks
    PROVE  task[t].at = "idle" \/ 0 < WorkLeft(task[t])
<1> DEFINE s == task[t]
<1>1. s \in TaskState
  BY TaskFits
<1> HIDE DEF s
<1>2. CASE s.at \in Saving
  <2>1. HooksLeft(s.at) \in Nat
    BY <1>2, HooksCases DEF Saving
  <2>2. SweepsLeft(s) \in Nat
        /\ SavesLeft(s) = 1 + SweepsLeft(s) + HooksLeft(s.at)
                             + (IF s.st = "approved" THEN 6 ELSE 0)
    BY <1>1, <1>2, SavesLeftType
  <2>3. WorkLeft(s) = SavesLeft(s)
    BY <1>2, WorkCases
  <2>4. QED BY <2>1, <2>2, <2>3 DEF s
<1>3. CASE s.at \notin Saving
  <2>1. s.at \in {"idle", "lock", "plan", "check", "insert", "inserted", "removeMedia",
                  "removeRequests", "delete", "approve", "mediaWrite", "complete"}
    BY <1>1, <1>3 DEF TaskState, Stages, Saving
  <2>2. QED BY <2>1, WorkCases, SweepType DEF s
<1>4. QED BY <1>2, <1>3

\* Every await of a handler or job leaves less to do: with any number of
\* requests in the table each of them has at most WorkLeft awaits.
THEOREM HandlersAlwaysAdvance == MovieSpec => HandlersAdvance
<1>1. ASSUME MovieInv, MovieNext, NEW t \in Tasks PROVE Advancing(t)
  <2>1. ASSUME NEW u \in Tasks, TaskStep(u) PROVE Advancing(t)
    <3>1. Advances(u)
      BY <1>1, <2>1, CreationAdvances, SavingAdvances, RemovalAndMediaSaveAdvance DEF TaskStep
    <3>2. QED BY <3>1 DEF Advances, Advancing
  <2>2. ASSUME NEW u \in Tasks, NEW x, Continue(u, "idle", x) PROVE Advancing(t)
    BY <1>1, <2>2 DEF Continue, MovieInv, MovieTypeOK, Advancing
  <2>3. ASSUME NEW u \in Tasks, Start(u) PROVE Advancing(t)
    BY <2>2, <2>3 DEF Start, Create, Approve, Decline, Retry, SetStatus, Remove, SaveMedia
  <2>4. ASSUME NEW r \in Requests, AddAnswers(r) PROVE Advancing(t)
    BY <2>2, <2>4 DEF AddAnswers, AddSucceeds, AddFails, Advancing
  <2>5. CASE Restart
    <3>1. task'[t] = Idle /\ Idle.at = "idle"
      BY <2>5 DEF Restart, Idle
    <3>2. WorkLeft(Idle) = 0
      BY <3>1, WorkCases
    <3>3. task[t].at = "idle" \/ 0 < WorkLeft(task[t])
      BY <1>1, IdleHasNoWork
    <3>4. QED BY <3>1, <3>2, <3>3 DEF Advancing
  <2>6. ASSUME NEW u \in Tasks, Drop(u) PROVE Advancing(t)
    <3>1. task'[t] = IF t = u THEN Idle ELSE task[t]
      BY <1>1, <2>6 DEF Drop, MovieInv, MovieTypeOK
    <3>2. Idle.at = "idle" /\ WorkLeft(Idle) = 0
      BY WorkCases DEF Idle
    <3>3. task[t].at = "idle" \/ 0 < WorkLeft(task[t])
      BY <1>1, IdleHasNoWork
    <3>4. QED BY <3>1, <3>2, <3>3 DEF Advancing
  <2>7. QED BY <1>1, <2>1, <2>3, <2>4, <2>5, <2>6 DEF MovieNext, Served
<1>2. MovieInv /\ [MovieNext]_movieVars
        => [\A t \in Tasks : Advancing(t)]_movieVars
  BY <1>1
<1>3. QED BY <1>2, MovieInvariance, PTL DEF MovieSpec, HandlersAdvance
=============================================================================
