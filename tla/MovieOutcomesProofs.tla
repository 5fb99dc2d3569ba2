----------------------- MODULE MovieOutcomesProofs -----------------------
(***************************************************************************)
(* What becomes of approved requests, for every number of tasks, requests   *)
(* and adds: Settled and Underway name, for every approved request, the     *)
(* task that will still see to it, or say that such a task was dropped.     *)
(* Once all tasks are over there is none, and what is left are              *)
(* AvailableSettles and ApprovedIsSent.                                     *)
(***************************************************************************)
EXTENDS MovieRequestsProofs

Settled == media = "available" =>
             \A r \in Requests : rows[r] = "approved" =>
               r \in unsettled \/ \E t \in Tasks : SettlesIt(task[t], r)

Underway == \A r \in Requests : rows[r] = "approved" =>
              \/ r \in sent \cup unsent
              \/ adding[r] > 0
              \/ \E t \in Tasks : SendsIt(task[t], r)

Outcome == Settled /\ Underway

\* The stages at which a task will do neither for any request.
Elsewhere == {"idle", "lock", "plan", "check", "insert", "removeMedia", "removeRequests",
              "delete", "approve", "mediaWrite"}

-----------------------------------------------------------------------------
(* Helpers *)

LEMMA Bystander ==
    ASSUME MovieInv, NEW t \in Tasks, task[t].at \in Elsewhere, NEW r
    PROVE  ~SettlesIt(task[t], r) /\ ~SendsIt(task[t], r)
<1>1. task[t].todo = {}
  BY TaskFits DEF Fits, Elsewhere, Saving
<1>2. QED BY <1>1 DEF SettlesIt, SendsIt, Elsewhere

\* A request on the list of a completing task is still completed.
LEMMA ListedIsSettled ==
    ASSUME NEW s \in TaskState, NEW r \in s.todo, s.target = Keep
    PROVE  SettlesIt(AfterSave(s), r)
<1>1. PICK q \in s.todo :
        AfterSave(s) = [at |-> "save", r |-> q,
                        st |-> IF s.target = Keep THEN "completed" ELSE "approved",
                        val |-> Keep, target |-> s.target, todo |-> s.todo \ {q}]
  BY AfterSaveCases
<1>2. CASE q = r
  BY <1>1, <1>2 DEF SettlesIt
<1>3. CASE q # r
  BY <1>1, <1>3 DEF SettlesIt
<1>4. QED BY <1>2, <1>3

\* A step of one task: what it has to see to for the requests that are
\* approved after it.
LEMMA OneTaskOutcome ==
    ASSUME MovieInv, Outcome, NEW t \in Tasks, NEW x,
           task' = [task EXCEPT ![t] = x],
           media' = "available" => media = "available" \/ x.at = "complete",
           \A r \in Requests :
             /\ rows'[r] = "approved"
                  => rows[r] = "approved" \/ (SettlesIt(x, r) /\ SendsIt(x, r))
             /\ rows'[r] = "approved" /\ r \in unsettled
                  => r \in unsettled' \/ SettlesIt(x, r) \/ media' # "available"
             /\ rows'[r] = "approved" /\ r \in sent \cup unsent
                  => r \in sent' \cup unsent' \/ SendsIt(x, r)
             /\ adding[r] > 0 => adding'[r] > 0 \/ SendsIt(x, r)
             /\ rows'[r] = "approved" /\ SettlesIt(task[t], r)
                  => SettlesIt(x, r) \/ media' # "available"
             /\ rows'[r] = "approved" /\ SendsIt(task[t], r)
                  => SendsIt(x, r) \/ adding'[r] > 0
    PROVE  Outcome'
<1>1. \A u \in Tasks : task'[u] = IF u = t THEN x ELSE task[u]
  BY DEF MovieInv, MovieTypeOK
<1>2. task'[t] = x
  BY <1>1
<1>3. ASSUME NEW r \in Requests, media' = "available", rows'[r] = "approved"
      PROVE  r \in unsettled' \/ \E u \in Tasks : SettlesIt(task'[u], r)
  <2>1. CASE SettlesIt(x, r)
    BY <1>2, <2>1
  <2>2. CASE x.at = "complete"
    BY <1>2, <2>2 DEF SettlesIt
  <2>3. CASE media = "available" /\ rows[r] = "approved" /\ ~SettlesIt(x, r)
    <3>1. CASE r \in unsettled
      BY <1>3, <2>3, <3>1
    <3>2. ASSUME NEW u \in Tasks, SettlesIt(task[u], r)
          PROVE  SettlesIt(task'[u], r)
      <4>1. u # t
        BY <1>3, <2>3, <3>2
      <4>2. QED BY <1>1, <3>2, <4>1
    <3>3. QED BY <2>3, <3>1, <3>2 DEF Outcome, Settled
  <2>4. QED BY <1>3, <2>1, <2>2, <2>3
<1>4. ASSUME NEW r \in Requests, rows'[r] = "approved"
      PROVE  \/ r \in sent' \cup unsent'
             \/ adding'[r] > 0
             \/ \E u \in Tasks : SendsIt(task'[u], r)
  <2>1. CASE SendsIt(x, r)
    BY <1>2, <2>1
  <2>2. CASE rows[r] = "approved" /\ ~SendsIt(x, r)
    <3>1. CASE r \in sent \cup unsent
      BY <1>4, <2>2, <3>1
    <3>2. CASE adding[r] > 0
      BY <2>2, <3>2
    <3>3. ASSUME NEW u \in Tasks, SendsIt(task[u], r)
          PROVE  adding'[r] > 0 \/ SendsIt(task'[u], r)
      <4>1. CASE u = t
        BY <1>4, <2>2, <3>3, <4>1
      <4>2. CASE u # t
        BY <1>1, <3>3, <4>2
      <4>3. QED BY <4>1, <4>2
    <3>4. QED BY <2>2, <3>1, <3>2, <3>3 DEF Outcome, Underway
  <2>3. QED BY <1>4, <2>1, <2>2
<1>5. QED BY <1>3, <1>4 DEF Outcome, Settled, Underway

\* The same of a step that leaves the history alone.
LEMMA PlainOutcome ==
    ASSUME MovieInv, Outcome, NEW t \in Tasks, NEW x,
           task' = [task EXCEPT ![t] = x],
           media' = "available" => media = "available" \/ x.at = "complete",
           UNCHANGED history,
           \A r \in Requests :
             /\ rows'[r] = "approved"
                  => rows[r] = "approved" \/ (SettlesIt(x, r) /\ SendsIt(x, r))
             /\ adding[r] > 0 => adding'[r] > 0 \/ SendsIt(x, r)
             /\ rows'[r] = "approved" /\ SettlesIt(task[t], r)
                  => SettlesIt(x, r) \/ media' # "available"
             /\ rows'[r] = "approved" /\ SendsIt(task[t], r)
                  => SendsIt(x, r) \/ adding'[r] > 0
    PROVE  Outcome'
<1>1. sent' = sent /\ unsettled' = unsettled /\ unsent' = unsent
  BY DEF history
<1>2. \A r \in Requests :
        /\ rows'[r] = "approved"
             => rows[r] = "approved" \/ (SettlesIt(x, r) /\ SendsIt(x, r))
        /\ rows'[r] = "approved" /\ r \in unsettled
             => r \in unsettled' \/ SettlesIt(x, r) \/ media' # "available"
        /\ rows'[r] = "approved" /\ r \in sent \cup unsent
             => r \in sent' \cup unsent' \/ SendsIt(x, r)
        /\ adding[r] > 0 => adding'[r] > 0 \/ SendsIt(x, r)
        /\ rows'[r] = "approved" /\ SettlesIt(task[t], r)
             => SettlesIt(x, r) \/ media' # "available"
        /\ rows'[r] = "approved" /\ SendsIt(task[t], r)
             => SendsIt(x, r) \/ adding'[r] > 0
  BY <1>1
<1>3. QED BY <1>2, OneTaskOutcome

\* A task that sees to nothing moves on, and no row changes.
LEMMA ElsewhereOutcome ==
    ASSUME MovieInv, Outcome, NEW t \in Tasks, NEW x,
           task[t].at \in Elsewhere,
           task' = [task EXCEPT ![t] = x],
           media' = "available" => media = "available",
           \A r \in Requests : rows'[r] = "approved" => rows[r] = "approved",
           UNCHANGED <<adding, history>>
    PROVE  Outcome'
BY Bystander, PlainOutcome

-----------------------------------------------------------------------------
(* Steps *)

LEMMA StartOutcome == ASSUME MovieInv, Outcome, NEW t \in Tasks, Start(t) PROVE Outcome'
<1>1. ASSUME NEW x, Continue(t, "idle", x), UNCHANGED <<media, rows, adding, history>>
      PROVE  Outcome'
  <2>1. task[t].at \in Elsewhere /\ task' = [task EXCEPT ![t] = x]
    BY <1>1 DEF Continue, Elsewhere
  <2>2. QED BY <1>1, <2>1, ElsewhereOutcome
<1>2. QED
  BY <1>1 DEF Start, Create, Approve, Decline, Retry, SetStatus, Remove, SaveMedia

LEMMA CreationOutcome ==
    ASSUME MovieInv, Outcome, NEW t \in Tasks,
           TakeLock(t) \/ Refuse(t) \/ Plan(t) \/ Check(t) \/ Insert(t) \/ LoadInserted(t)
    PROVE  Outcome'
<1>1. CASE TakeLock(t) \/ Refuse(t) \/ Plan(t) \/ Check(t)
  <2>1. task[t].at \in Elsewhere
    BY <1>1 DEF TakeLock, Refuse, Plan, Check, Continue, Elsewhere
  <2>2. ASSUME NEW x, task' = [task EXCEPT ![t] = x], UNCHANGED <<media, rows, adding, history>>
        PROVE  Outcome'
    BY <2>1, <2>2, ElsewhereOutcome
  <2>3. QED
    BY <1>1, <2>2 DEF TakeLock, Refuse, Plan, Check, Continue
<1>2. CASE Insert(t)
  <2> DEFINE r == Lowest(Unborn)
             x == [Idle EXCEPT !.at = "inserted", !.r = r]
  <2>1. /\ task[t].at = "insert" /\ task' = [task EXCEPT ![t] = x]
        /\ rows' = [rows EXCEPT ![r] = task[t].st]
        /\ media' = Put(media, task[t].val)
        /\ UNCHANGED <<adding, history>>
    BY <1>2 DEF Insert, Continue
  <2>2. SettlesIt(x, r) /\ SendsIt(x, r)
    BY DEF SettlesIt, SendsIt, Idle
  <2>3. \A q \in Requests : rows'[q] = "approved" => rows[q] = "approved" \/ q = r
    BY <2>1 DEF MovieInv, MovieTypeOK
  <2>4. media' = "available" => media = "available"
    BY <2>1, TaskFits DEF Fits, Put
  <2>5. \A q : ~SettlesIt(task[t], q) /\ ~SendsIt(task[t], q)
    BY <2>1, Bystander DEF Elsewhere
  <2> HIDE DEF x, r
  <2>6. QED BY <2>1, <2>2, <2>3, <2>4, <2>5, PlainOutcome
<1>3. CASE LoadInserted(t)
  <2> DEFINE r == task[t].r
             x == IF r \in Stored THEN [task[t] EXCEPT !.at = "send", !.st = rows[r]] ELSE Idle
  <2>1. /\ task[t].at = "inserted" /\ task' = [task EXCEPT ![t] = x]
        /\ UNCHANGED <<media, rows, adding, history>>
    BY <1>3 DEF LoadInserted, Continue
  <2>2. task[t] \in TaskState /\ task[t].todo = {} /\ r \in Requests
    BY <2>1, TaskFits DEF Fits, Saving, HasRequest
  <2>3. rows[r] = "approved" => SettlesIt(x, r) /\ SendsIt(x, r)
    BY <2>1, <2>2 DEF SettlesIt, SendsIt, Stored, RequestStatus, TaskState
  <2>4. \A q : SettlesIt(task[t], q) \/ SendsIt(task[t], q) => q = r
    BY <2>1, <2>2 DEF SettlesIt, SendsIt
  <2> HIDE DEF x
  <2>5. \A q : rows[q] = "approved" =>
                 /\ SettlesIt(task[t], q) => SettlesIt(x, q)
                 /\ SendsIt(task[t], q) => SendsIt(x, q)
    BY <2>3, <2>4
  <2>6. QED BY <2>1, <2>5, PlainOutcome
<1>4. QED BY <1>1, <1>2, <1>3

LEMMA SavingOutcome ==
    ASSUME MovieInv, Outcome, NEW t \in Tasks,
           \/ SaveUnchanged(t) \/ SaveChanged(t) \/ Write(t) \/ Send(t)
           \/ SpawnAdd(t) \/ SendFails(t) \/ ReadParent(t) \/ WriteParent(t)
    PROVE  Outcome'
<1> DEFINE s == task[t]
<1>0. s \in TaskState /\ Fits(s, rows)
  BY TaskFits
\* The list of a completing task.
<1>a. ASSUME NEW at, NEW st, NEW val, NEW q, q \in s.todo, s.target = Keep
      PROVE  /\ SettlesIt([s EXCEPT !.at = at], q)
             /\ SettlesIt([s EXCEPT !.at = at, !.st = st], q)
             /\ SettlesIt([s EXCEPT !.at = at, !.val = val], q)
             /\ SettlesIt(AfterSave(s), q)
  BY <1>0, <1>a, ListedIsSettled DEF SettlesIt, TaskState
<1>1. CASE SaveUnchanged(t)
  <2> DEFINE x == AfterSave(s)
  <2>1. /\ s.at = "save" /\ task' = [task EXCEPT ![t] = x]
        /\ rows[s.r] \in {"gone", s.st}
        /\ UNCHANGED <<media, rows, adding, history>>
    BY <1>1 DEF SaveUnchanged, SaveOver, Continue
  <2>2. \A q : rows[q] = "approved" => ~SendsIt(s, q)
    BY <2>1 DEF SendsIt
  <2>3. \A q : rows[q] = "approved" /\ SettlesIt(s, q) => SettlesIt(x, q)
    BY <1>a, <2>1 DEF SettlesIt
  <2> HIDE DEF x
  <2>4. QED BY <2>1, <2>2, <2>3, PlainOutcome
<1>2. CASE SaveChanged(t)
  <2> DEFINE x == [s EXCEPT !.at = "write"]
  <2>1. /\ s.at = "save" /\ task' = [task EXCEPT ![t] = x]
        /\ UNCHANGED <<media, rows, adding, history>>
    BY <1>2 DEF SaveChanged, Continue
  <2>2. \A q : /\ SendsIt(s, q) => SendsIt(x, q)
               /\ SettlesIt(s, q) => SettlesIt(x, q)
    BY <1>0, <2>1 DEF SendsIt, SettlesIt, TaskState
  <2> HIDE DEF x
  <2>3. QED BY <2>1, <2>2, PlainOutcome
<1>3. CASE Write(t)
  <2> DEFINE x == [s EXCEPT !.at = "send"]
  <2>1. /\ s.at = "write" /\ task' = [task EXCEPT ![t] = x]
        /\ rows' = [rows EXCEPT ![s.r] = IF rows[s.r] = "gone" THEN "gone" ELSE s.st]
        /\ Forget(s.r)
        /\ UNCHANGED <<media, adding>>
    BY <1>3 DEF Write, Continue
  <2>2. s.r \in Requests
    BY <1>0, <2>1 DEF Fits, HasRequest
  <2>3. s.st = "approved" => SettlesIt(x, s.r) /\ SendsIt(x, s.r)
    BY <1>0 DEF SendsIt, SettlesIt, TaskState
  <2>4. \A q \in Requests :
          rows'[q] = IF q = s.r THEN IF rows[s.r] = "gone" THEN "gone" ELSE s.st ELSE rows[q]
    BY <2>1, <2>2 DEF MovieInv, MovieTypeOK
  <2>5. \A q \in Requests :
          rows'[q] = "approved" => rows[q] = "approved" \/ (SettlesIt(x, q) /\ SendsIt(x, q))
    BY <2>3, <2>4
  <2>6. \A q \in Requests : rows'[q] = "approved" /\ SendsIt(s, q) => SendsIt(x, q)
    BY <2>1, <2>3, <2>4 DEF SendsIt
  <2>7. \A q \in Requests : rows'[q] = "approved" /\ SettlesIt(s, q) => SettlesIt(x, q)
    <3> SUFFICES ASSUME NEW q \in Requests, rows'[q] = "approved", SettlesIt(s, q)
                 PROVE  SettlesIt(x, q)
      OBVIOUS
    <3>1. CASE q \in s.todo /\ s.target = Keep
      BY <1>a, <3>1
    <3>2. CASE s.r = q
      BY <2>3, <2>4, <3>2
    <3>3. QED BY <2>1, <3>1, <3>2 DEF SettlesIt
  <2>8. \A q \in Requests :
          /\ rows'[q] = "approved" /\ q \in unsettled => q \in unsettled' \/ SettlesIt(x, q)
          /\ rows'[q] = "approved" /\ q \in sent \cup unsent
               => q \in sent' \cup unsent' \/ SendsIt(x, q)
    BY <2>1, <2>3, <2>4 DEF Forget
  <2> HIDE DEF x
  <2>9. QED BY <2>1, <2>5, <2>6, <2>7, <2>8, OneTaskOutcome
<1>4. CASE Send(t)
  <2> DEFINE x == IF s.st # "approved" THEN [s EXCEPT !.at = "parent"]
                  ELSE IF media = "available"
                       THEN [s EXCEPT !.at = "save", !.st = "completed"]
                       ELSE [s EXCEPT !.at = "tmdb"]
  <2>1. /\ s.at = "send" /\ task' = [task EXCEPT ![t] = x]
        /\ UNCHANGED <<media, rows, adding, history>>
    BY <1>4 DEF Send, Continue
  <2>2. \A q : SendsIt(s, q) => SendsIt(x, q)
    BY <1>0, <2>1 DEF SendsIt, TaskState
  <2>3. \A q : SettlesIt(s, q) => SettlesIt(x, q) \/ media # "available"
    BY <1>0, <2>1 DEF SettlesIt, TaskState
  <2> HIDE DEF x
  <2>4. QED BY <2>1, <2>2, <2>3, PlainOutcome
<1>5. CASE SpawnAdd(t)
  <2> DEFINE x == [s EXCEPT !.at = "parent"]
  <2>1. /\ s.at = "tmdb" /\ task' = [task EXCEPT ![t] = x]
        /\ adding' = [adding EXCEPT ![s.r] = adding[s.r] + 1]
        /\ UNCHANGED <<media, rows, history>>
    BY <1>5 DEF SpawnAdd, Continue
  <2>2. \A q \in Requests : /\ adding[q] > 0 => adding'[q] > 0
                            /\ q = s.r => adding'[q] > 0
    BY <2>1, MovieAssumption DEF MovieInv, MovieTypeOK
  <2>3. \A q : /\ SendsIt(s, q) => q = s.r
               /\ SettlesIt(s, q) => SettlesIt(x, q)
    BY <1>a, <2>1 DEF SendsIt, SettlesIt
  <2> HIDE DEF x
  <2>4. QED BY <2>1, <2>2, <2>3, PlainOutcome
<1>6. CASE SendFails(t)
  <2> DEFINE x == [s EXCEPT !.at = "save", !.st = "failed"]
  <2>1. /\ s.at = "tmdb" /\ task' = [task EXCEPT ![t] = x]
        /\ UNCHANGED <<media, rows, adding, history>>
    BY <1>6 DEF SendFails, Continue
  <2>2. \A q : SendsIt(s, q) => SendsIt(x, q)
    BY <1>0, <2>1 DEF SendsIt, TaskState
  <2>3. \A q : SettlesIt(s, q) => SettlesIt(x, q)
    BY <1>a, <2>1 DEF SettlesIt
  <2> HIDE DEF x
  <2>4. QED BY <2>1, <2>2, <2>3, PlainOutcome
<1>7. CASE ReadParent(t) \/ WriteParent(t)
  <2> DEFINE y == [s EXCEPT !.at = "parentWrite", !.val = ParentStatus(media, s.st)]
  <2>1. /\ s.at \in {"parent", "parentWrite"}
        /\ task' = [task EXCEPT ![t] = AfterSave(s)] \/ task' = [task EXCEPT ![t] = y]
        /\ UNCHANGED <<rows, adding, history>>
    BY <1>7 DEF ReadParent, WriteParent, SaveOver, Continue
  <2>2. media' = "available" => media = "available"
    BY <1>0, <1>7 DEF ReadParent, WriteParent, SaveOver, Continue, Fits
  <2>3. \A q : /\ ~SendsIt(s, q)
               /\ SettlesIt(s, q) => SettlesIt(AfterSave(s), q) /\ SettlesIt(y, q)
    BY <1>a, <2>1 DEF SendsIt, SettlesIt
  <2> HIDE DEF y
  <2>4. QED BY <2>1, <2>2, <2>3, PlainOutcome
<1>8. QED BY <1>1, <1>2, <1>3, <1>4, <1>5, <1>6, <1>7

LEMMA RemovalOutcome ==
    ASSUME MovieInv, Outcome, NEW t \in Tasks, ReadMedia(t) \/ ReadRequests(t) \/ Delete(t)
    PROVE  Outcome'
<1>1. CASE ReadMedia(t) \/ ReadRequests(t)
  <2>1. task[t].at \in Elsewhere
    BY <1>1 DEF ReadMedia, ReadRequests, Continue, Elsewhere
  <2>2. ASSUME NEW x, task' = [task EXCEPT ![t] = x], UNCHANGED <<media, rows, adding, history>>
        PROVE  Outcome'
    BY <2>1, <2>2, ElsewhereOutcome
  <2>3. QED
    BY <1>1, <2>2 DEF ReadMedia, ReadRequests, Continue
<1>2. CASE Delete(t)
  <2>1. /\ task[t].at = "delete" /\ task' = [task EXCEPT ![t] = Idle]
        /\ rows' = [rows EXCEPT ![task[t].r] = "gone"]
        /\ media' = Put(media, task[t].val)
        /\ Forget(task[t].r)
        /\ UNCHANGED adding
    BY <1>2 DEF Delete, Continue
  <2>2. media' = "available" => media = "available"
    BY <2>1, TaskFits DEF Fits, Put
  <2>3. \A r \in Requests : rows'[r] = "approved" => rows[r] = "approved" /\ r # task[t].r
    BY <2>1 DEF MovieInv, MovieTypeOK
  <2>4. task[t].at \in Elsewhere
    BY <2>1 DEF Elsewhere
  <2>5. \A r \in Requests : rows'[r] = "approved" =>
          /\ r \in unsettled => r \in unsettled'
          /\ r \in sent \cup unsent => r \in sent' \cup unsent'
    BY <2>1, <2>3 DEF Forget
  <2>6. \A r : ~SettlesIt(task[t], r) /\ ~SendsIt(task[t], r)
    BY <2>4, Bystander
  <2>7. QED BY <2>1, <2>2, <2>3, <2>5, <2>6, OneTaskOutcome
<1>3. QED BY <1>1, <1>2

LEMMA MediaSaveOutcome ==
    ASSUME MovieInv, Outcome, NEW t \in Tasks,
           ApproveChildren(t) \/ WriteMedia(t) \/ CompleteRelated(t)
    PROVE  Outcome'
<1> DEFINE s == task[t]
<1>1. CASE ApproveChildren(t)
  <2>1. task[t].at \in Elsewhere
    BY <1>1 DEF ApproveChildren, SaveOver, Continue, Elsewhere
  <2>2. ASSUME NEW x, task' = [task EXCEPT ![t] = x], UNCHANGED <<media, rows, adding, history>>
        PROVE  Outcome'
    BY <2>1, <2>2, ElsewhereOutcome
  <2>3. QED
    BY <1>1, <2>2 DEF ApproveChildren, SaveOver, Continue
<1>2. CASE WriteMedia(t)
  <2> DEFINE x == IF s.target \in Settling THEN [Idle EXCEPT !.at = "complete"] ELSE Idle
  <2>1. /\ s.at = "mediaWrite" /\ task' = [task EXCEPT ![t] = x]
        /\ media' = s.target
        /\ UNCHANGED <<rows, adding, sent, unsent>>
    BY <1>2 DEF WriteMedia, Continue
  <2>2. media' = "available" => x.at = "complete"
    BY <2>1 DEF Settling, Idle
  <2>3. \A q : ~SettlesIt(task[t], q) /\ ~SendsIt(task[t], q)
    BY <2>1, Bystander DEF Elsewhere
  <2> HIDE DEF x
  <2>4. \A q : SettlesIt(x, q) \/ media' # "available"
    BY <2>2 DEF SettlesIt
  <2>5. QED BY <2>1, <2>2, <2>3, <2>4, OneTaskOutcome
<1>3. CASE CompleteRelated(t)
  <2> DEFINE todo == {r \in Stored : rows[r] \in {"approved", "failed"}}
             y == [s EXCEPT !.todo = todo]
             x == AfterSave(y)
  <2>1. /\ s.at = "complete" /\ task' = [task EXCEPT ![t] = x]
        /\ UNCHANGED <<media, rows, adding, history>>
    BY <1>3 DEF CompleteRelated, SaveOver, Continue
  <2>2. s \in TaskState /\ s.target = Keep
    BY <2>1, TaskFits DEF Fits
  <2>3. y \in TaskState /\ y.target = Keep /\ y.todo = todo
    BY <2>2 DEF TaskState, Stored
  <2>4. \A q \in Requests : rows[q] = "approved" => q \in todo
    BY DEF Stored, RequestStatus
  <2>5. \A q \in Requests : rows[q] = "approved" => SettlesIt(x, q)
    <3> HIDE DEF y, todo
    <3>1. QED BY <2>3, <2>4, ListedIsSettled
  <2>6. \A q : ~SendsIt(s, q)
    BY <2>1 DEF SendsIt
  <2> HIDE DEF x
  <2>7. QED BY <2>1, <2>5, <2>6, PlainOutcome
<1>4. QED BY <1>1, <1>2, <1>3

LEMMA AddAnswersOutcome ==
    ASSUME MovieInv, Outcome, NEW r \in Requests, AddAnswers(r) PROVE Outcome'
<1>1. adding' = [adding EXCEPT ![r] = adding[r] - 1] /\ UNCHANGED <<media, rows>>
  BY DEF AddAnswers, AddSucceeds, AddFails
<1>2. \A q \in Requests : q # r => adding'[q] = adding[q]
  BY <1>1 DEF MovieInv, MovieTypeOK
<1>3. CASE AddSucceeds(r)
  <2>1. /\ sent' = sent \cup {q \in {r} : rows[q] = "approved"}
        /\ UNCHANGED <<task, unsettled, unsent>>
    BY <1>3 DEF AddSucceeds
  <2>2. Settled'
    BY <1>1, <2>1 DEF Outcome, Settled
  <2>3. Underway'
    BY <1>1, <1>2, <2>1 DEF Outcome, Underway
  <2>4. QED BY <2>2, <2>3 DEF Outcome
<1>4. ASSUME NEW t \in Tasks, AddFails(t, r) PROVE Outcome'
  <2> DEFINE x == [Idle EXCEPT !.at = "save", !.r = r, !.st = "failed"]
  <2>1. task[t].at = "idle" /\ task' = [task EXCEPT ![t] = x] /\ UNCHANGED history
    BY <1>4 DEF AddFails, Continue
  <2>2. SendsIt(x, r)
    BY DEF SendsIt, Idle
  <2>3. \A q : ~SettlesIt(task[t], q) /\ ~SendsIt(task[t], q)
    BY <2>1, Bystander DEF Elsewhere
  <2> HIDE DEF x
  <2>4. \A q \in Requests : adding[q] > 0 => adding'[q] > 0 \/ SendsIt(x, q)
    BY <1>2, <2>2
  <2>5. media' = media /\ rows' = rows
    BY <1>1
  <2>6. QED BY <2>1, <2>3, <2>4, <2>5, PlainOutcome
<1>5. QED BY <1>3, <1>4 DEF AddAnswers

\* What a dropped task was to settle or to send, it leaves unsettled or unsent.
LEMMA AbandonOutcome ==
    ASSUME MovieInv, Outcome, NEW T \in SUBSET Tasks, NEW R,
           Abandon(T, R), UNCHANGED <<media, rows, sent>>,
           \A u \in Tasks \ T : task'[u] = task[u],
           \A r \in Requests : adding[r] > 0 => adding'[r] > 0 \/ r \in R
    PROVE  Outcome'
<1>1. \A r \in Requests :
        /\ r \in unsettled => r \in unsettled'
        /\ rows[r] = "approved" /\ media = "available" /\ (\E t \in T : SettlesIt(task[t], r))
             => r \in unsettled'
  BY DEF Abandon
<1>2. \A r \in Requests :
        /\ r \in unsent => r \in unsent'
        /\ rows[r] = "approved" /\ r \notin sent
           /\ (r \in R \/ \E t \in T : SendsIt(task[t], r))
             => r \in unsent'
  BY DEF Abandon
<1>3. Settled'
  <2> SUFFICES ASSUME media = "available", NEW r \in Requests, rows[r] = "approved"
               PROVE  r \in unsettled' \/ \E u \in Tasks : SettlesIt(task'[u], r)
    BY DEF Settled
  <2>1. ASSUME NEW u \in Tasks, SettlesIt(task[u], r), u \notin T
        PROVE  SettlesIt(task'[u], r)
    BY <2>1
  <2>2. QED BY <1>1, <2>1 DEF Outcome, Settled
<1>4. Underway'
  <2> SUFFICES ASSUME NEW r \in Requests, rows[r] = "approved", r \notin sent
               PROVE  r \in unsent' \/ adding'[r] > 0 \/ \E u \in Tasks : SendsIt(task'[u], r)
    BY DEF Underway
  <2>1. ASSUME NEW u \in Tasks, SendsIt(task[u], r), u \notin T
        PROVE  SendsIt(task'[u], r)
    BY <2>1
  <2>2. CASE adding[r] > 0
    BY <1>2, <2>2
  <2>3. QED BY <1>2, <2>1, <2>2 DEF Outcome, Underway
<1>5. QED BY <1>3, <1>4 DEF Outcome

LEMMA DropOutcome == ASSUME MovieInv, Outcome, NEW t \in Tasks, Drop(t) PROVE Outcome'
<1>1. Abandon({t}, {}) /\ UNCHANGED <<media, rows, adding, sent>>
  BY DEF Drop
<1>2. \A u \in Tasks \ {t} : task'[u] = task[u]
  BY DEF Drop, MovieInv, MovieTypeOK
<1>3. QED BY <1>1, <1>2, AbandonOutcome

LEMMA RestartOutcome == ASSUME MovieInv, Outcome, Restart PROVE Outcome'
<1> DEFINE R == {r \in Requests : adding[r] > 0}
<1>1. Abandon(Tasks, R) /\ UNCHANGED <<media, rows, sent>>
  BY DEF Restart
<1>2. PICK Q : Q = R
  OBVIOUS
<1>3. Abandon(Tasks, Q)
  BY <1>1, <1>2
<1>4. \A r \in Requests : adding[r] > 0 => adding'[r] > 0 \/ r \in Q
  BY <1>2
<1>5. Tasks \in SUBSET Tasks /\ \A u \in Tasks \ Tasks : task'[u] = task[u]
  OBVIOUS
<1> HIDE DEF R
<1>6. QED BY <1>1, <1>3, <1>4, <1>5, AbandonOutcome

-----------------------------------------------------------------------------
(* The outcomes *)

LEMMA OutcomeNext == ASSUME MovieInv, Outcome, [MovieNext]_movieVars PROVE Outcome'
<1>1. ASSUME NEW t \in Tasks, TaskStep(t) PROVE Outcome'
  BY <1>1, CreationOutcome, SavingOutcome, RemovalOutcome, MediaSaveOutcome DEF TaskStep
<1>2. CASE UNCHANGED movieVars
  BY <1>2 DEF movieVars, history, Outcome, Settled, Underway
<1>3. QED
  BY <1>1, <1>2, StartOutcome, AddAnswersOutcome, DropOutcome, RestartOutcome
     DEF MovieNext, Served

\* For every approved request somebody is left to settle it when the movie is
\* available, and somebody is left to send it until Radarr took it, unless the
\* one who was to do so was dropped since the request was last written: by a
\* client that hung up or by a restart, and by nothing else.
THEOREM OutcomeInvariance == MovieSpec => []Outcome
<1>1. MovieInit => Outcome
  BY DEF MovieInit, Outcome, Settled, Underway
<1>2. MovieInv /\ Outcome /\ [MovieNext]_movieVars => Outcome'
  BY OutcomeNext
<1>3. QED BY <1>1, <1>2, MovieInvariance, PTL DEF MovieSpec

LEMMA QuietTasks ==
    ASSUME Quiet, NEW t \in Tasks, NEW r
    PROVE  ~SettlesIt(task[t], r) /\ ~SendsIt(task[t], r)
BY DEF Quiet, Idle, SettlesIt, SendsIt

\* Whatever way the hook of a request and the save of its media interleave, an
\* available movie keeps no approved request once all handlers are over, except
\* one that a dropped handler was to settle.
THEOREM AvailableSettled == MovieSpec => []AvailableSettles
<1>1. Outcome => AvailableSettles
  BY QuietTasks DEF Outcome, Settled, AvailableSettles
<1>2. QED BY <1>1, OutcomeInvariance, PTL

\* An approved request that nobody works on any more is one that Radarr took or
\* one that a dropped handler or add was to send: every failure on the way, the
\* spawned add's too, ended as FAILED.
THEOREM ApprovedSent == MovieSpec => []ApprovedIsSent
<1>1. Outcome => ApprovedIsSent
  BY QuietTasks DEF Outcome, Underway, ApprovedIsSent, Quiet
<1>2. QED BY <1>1, OutcomeInvariance, PTL
=============================================================================
