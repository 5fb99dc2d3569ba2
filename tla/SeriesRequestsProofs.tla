------------------------ MODULE SeriesRequestsProofs ------------------------
(***************************************************************************)
(* The claims and quotas of series requests, for every number of tasks,     *)
(* users, seasons and requests.  What a creation or edit has found out      *)
(* stays true until its write, because all else only takes requests out of  *)
(* the account: nothing but the holder of the lock adds to it.              *)
(***************************************************************************)
EXTENDS SeriesRequests, FiniteSetTheorems, WellFoundedInduction, TLAPS

\* The rows that count: A claim their seasons, P are paid for.
Counted == {r \in Stored : st[r] # "declined"} \ revived
Claiming == Open \ revived

\* The same as Rows and Paying, of any requests R with owners O and claims C.
RowsOf(R, C) == {p \in R \X Seasons : p[2] \in C[p[1]]}
PaidBy(u, P, O) == {r \in P : O[r] = u}
Cost(u, P, O, C) == Cardinality(RowsOf(PaidBy(u, P, O), C))

\* What the memory of a task looks like at each stage.
HasRequest == {"load", "update", "inserted", "save", "write", "send", "delete"}

Fits(s) == /\ s \in TaskState
           /\ s.at \in HasRequest => s.r \in Requests
           /\ s.at \in {"save", "write", "send"} => s.to \in RequestStatus
           /\ s.at \in Inside => s.who \in Users
           /\ s.at \in {"quota", "insert", "update"} => s.want # {}

\* What a creation or edit knows of the rows: H are stored, A claim, P count.
Knows(s, H, A, P, O, C) ==
    /\ s.at = "others" /\ s.r = 0 => s.room + Cost(s.who, P, O, C) <= Limit
    /\ s.at = "insert" => /\ Cardinality(s.want) + Cost(s.who, P, O, C) <= Limit
                          /\ \A o \in A : s.want \cap C[o] = {}
    /\ s.at \in {"others", "quota", "update"} /\ s.r \in H => s.own = C[s.r]
    /\ s.at \in {"others", "quota"} /\ s.r \in H =>
         /\ O[s.r] = s.who => s.room = Cardinality(C[s.r])
         /\ O[s.r] # s.who => s.room = 0
    /\ s.at \in {"quota", "update"} /\ s.r \in A => \A o \in A \ {s.r} : s.want \cap C[o] = {}
    /\ s.at = "update" /\ s.r \in P => Cardinality(s.want) + Cost(s.who, P \ {s.r}, O, C) <= Limit

\* The account itself.
Booked(A, P, O, C) == /\ \A r, o \in A : r # o => C[r] \cap C[o] = {}
                      /\ \A u \in Users : Cost(u, P, O, C) <= Limit

\* Requests only leave the account.
Shrinks(H, A, P, O, C, H2, A2, P2, O2, C2) ==
    /\ H2 \subseteq H
    /\ A2 \subseteq A
    /\ P2 \subseteq P
    /\ \A r \in H2 : O2[r] = O[r] /\ C2[r] = C[r]

TasksFit == \A t \in Tasks : Fits(task[t])
TasksKnow == \A t \in Tasks : Knows(task[t], Stored, Claiming, Counted, owner, claims)
LockHeld == /\ \A t \in Tasks : task[t].at \in Inside => lock = t
            /\ \A t \in Tasks : lock = t => task[t].at \notin {"idle", "delete"}
SeriesInv == /\ SeriesTypeOK
             /\ TasksFit
             /\ LockHeld
             /\ TasksKnow
             /\ Booked(Claiming, Counted, owner, claims)

-----------------------------------------------------------------------------
(* Counting rows *)

LEMMA RequestsFinite == IsFiniteSet(Requests) /\ 0 \notin Requests /\ Requests \subseteq Nat
<1>1. IsFiniteSet(1..MaxRequests)
  BY SeriesAssumption, FS_Interval
<1> QED
  BY <1>1, SeriesAssumption DEF Requests

LEMMA SeasonsFinite == ASSUME NEW S \in SUBSET Seasons
                       PROVE  IsFiniteSet(S) /\ Cardinality(S) \in Nat
BY SeriesAssumption, FS_Subset, FS_CardinalityType

LEMMA RowsFinite == ASSUME NEW R \in SUBSET Requests, NEW C
                    PROVE  IsFiniteSet(RowsOf(R, C)) /\ Cardinality(RowsOf(R, C)) \in Nat
<1>1. IsFiniteSet(Requests \X Seasons)
  BY RequestsFinite, SeriesAssumption, FS_Product
<1>2. RowsOf(R, C) \in SUBSET (Requests \X Seasons)
  BY DEF RowsOf
<1> QED
  BY <1>1, <1>2, FS_Subset, FS_CardinalityType

LEMMA RowsGrow == ASSUME NEW R \in SUBSET Requests, NEW C, NEW Q \in SUBSET R, NEW D,
                         \A r \in Q : D[r] = C[r]
                  PROVE  Cardinality(RowsOf(Q, D)) <= Cardinality(RowsOf(R, C))
<1>1. RowsOf(Q, D) \in SUBSET RowsOf(R, C)
  BY DEF RowsOf
<1> QED
  BY <1>1, RowsFinite, FS_Subset

\* One request costs as many units as it has seasons.
LEMMA RowsOfOne == ASSUME NEW r \in Requests, NEW C, C[r] \in SUBSET Seasons
                   PROVE  Cardinality(RowsOf({r}, C)) = Cardinality(C[r])
<1>1. RowsOf({r}, C) = {r} \X C[r]
  BY DEF RowsOf
<1>2. IsFiniteSet({r}) /\ Cardinality({r}) = 1
  BY FS_Singleton
<1>3. IsFiniteSet(C[r]) /\ Cardinality(C[r]) \in Nat
  BY SeasonsFinite
<1>4. Cardinality({r} \X C[r]) = 1 * Cardinality(C[r])
  BY <1>2, <1>3, FS_Product
<1>5. \A n \in Nat : 1 * n = n
  OBVIOUS
<1>6. 1 * Cardinality(C[r]) = Cardinality(C[r])
  BY <1>3, <1>5
<1> QED
  BY <1>1, <1>4, <1>6

LEMMA RowsAdd == ASSUME NEW R \in SUBSET Requests, NEW r \in Requests \ R, NEW C,
                        C[r] \in SUBSET Seasons
                 PROVE  Cardinality(RowsOf(R \cup {r}, C))
                          = Cardinality(RowsOf(R, C)) + Cardinality(C[r])
<1>1. RowsOf(R \cup {r}, C) = RowsOf(R, C) \cup RowsOf({r}, C)
  BY DEF RowsOf
<1>2. RowsOf(R, C) \cap RowsOf({r}, C) = {}
  BY DEF RowsOf
<1>3. {r} \in SUBSET Requests
  OBVIOUS
<1>4. /\ IsFiniteSet(RowsOf(R, C)) /\ Cardinality(RowsOf(R, C)) \in Nat
      /\ IsFiniteSet(RowsOf({r}, C)) /\ Cardinality(RowsOf({r}, C)) \in Nat
  BY <1>3, RowsFinite
<1>5. Cardinality(RowsOf(R, C) \cap RowsOf({r}, C)) = 0
  BY <1>2, FS_EmptySet
<1>6. Cardinality(RowsOf({r}, C)) = Cardinality(C[r])
  BY RowsOfOne
<1>7. Cardinality(RowsOf(R, C) \cup RowsOf({r}, C))
        = Cardinality(RowsOf(R, C)) + Cardinality(RowsOf({r}, C))
            - Cardinality(RowsOf(R, C) \cap RowsOf({r}, C))
  BY <1>4, FS_Union
<1>8. \A a, b \in Nat : a + b - 0 = a + b
  OBVIOUS
<1>9. Cardinality(RowsOf(R, C) \cup RowsOf({r}, C))
        = Cardinality(RowsOf(R, C)) + Cardinality(RowsOf({r}, C))
  BY <1>4, <1>5, <1>7, <1>8
<1> QED
  BY <1>1, <1>6, <1>9

LEMMA CostNat == ASSUME NEW u, NEW P \in SUBSET Requests, NEW O, NEW C
                 PROVE  Cost(u, P, O, C) \in Nat
BY RowsFinite DEF Cost, PaidBy

LEMMA CostGrows == ASSUME NEW u, NEW P \in SUBSET Requests, NEW O, NEW C,
                          NEW Q \in SUBSET P, NEW U, NEW D,
                          \A r \in Q : U[r] = O[r] /\ D[r] = C[r]
                   PROVE  Cost(u, Q, U, D) <= Cost(u, P, O, C)
<1>1. PaidBy(u, Q, U) \in SUBSET PaidBy(u, P, O) /\ PaidBy(u, P, O) \in SUBSET Requests
  BY DEF PaidBy
<1>2. \A r \in PaidBy(u, Q, U) : D[r] = C[r]
  BY DEF PaidBy
<1> QED
  BY <1>1, <1>2, RowsGrow DEF Cost

-----------------------------------------------------------------------------
(* What is known stays true while requests only leave the account. *)

LEMMA KnowsOutside == ASSUME NEW s, s.at \notin {"others", "quota", "insert", "update"},
                             NEW H, NEW A, NEW P, NEW O, NEW C
                      PROVE  Knows(s, H, A, P, O, C)
BY DEF Knows

LEMMA KnowsShrinks ==
    ASSUME NEW s, Fits(s),
           NEW H \in SUBSET Requests, NEW A \in SUBSET H, NEW P \in SUBSET H, NEW O, NEW C,
           NEW H2, NEW A2 \in SUBSET H2, NEW P2 \in SUBSET H2, NEW O2, NEW C2,
           Shrinks(H, A, P, O, C, H2, A2, P2, O2, C2),
           Knows(s, H, A, P, O, C)
    PROVE  Knows(s, H2, A2, P2, O2, C2)
<1> USE DEF Shrinks
<1>1. P \in SUBSET Requests /\ P2 \in SUBSET P /\ \A r \in P2 : O2[r] = O[r] /\ C2[r] = C[r]
  OBVIOUS
<1>2. Cost(s.who, P2, O2, C2) <= Cost(s.who, P, O, C)
  BY <1>1, CostGrows
<1>3. Cost(s.who, P2 \ {s.r}, O2, C2) <= Cost(s.who, P \ {s.r}, O, C)
  <2>1. /\ P \ {s.r} \in SUBSET Requests
        /\ P2 \ {s.r} \in SUBSET (P \ {s.r})
        /\ \A r \in P2 \ {s.r} : O2[r] = O[r] /\ C2[r] = C[r]
    BY <1>1
  <2> QED
    BY <2>1, CostGrows
<1>4. /\ Cost(s.who, P, O, C) \in Nat /\ Cost(s.who, P2, O2, C2) \in Nat
      /\ Cost(s.who, P \ {s.r}, O, C) \in Nat /\ Cost(s.who, P2 \ {s.r}, O2, C2) \in Nat
  <2>1. /\ P2 \in SUBSET Requests /\ P \ {s.r} \in SUBSET Requests
        /\ P2 \ {s.r} \in SUBSET Requests
    BY <1>1
  <2> QED
    BY <1>1, <2>1, CostNat
<1>5. s.room \in Nat /\ Cardinality(s.want) \in Nat /\ Limit \in Nat
  BY SeasonsFinite, SeriesAssumption DEF Fits, TaskState
<1>6. s.at = "others" /\ s.r = 0 => s.room + Cost(s.who, P2, O2, C2) <= Limit
  <2>1. s.at = "others" /\ s.r = 0 => s.room + Cost(s.who, P, O, C) <= Limit
    BY DEF Knows
  <2> QED
    BY <1>2, <1>4, <1>5, <2>1
<1>7. s.at = "insert" => /\ Cardinality(s.want) + Cost(s.who, P2, O2, C2) <= Limit
                         /\ \A o \in A2 : s.want \cap C2[o] = {}
  <2>1. s.at = "insert" => /\ Cardinality(s.want) + Cost(s.who, P, O, C) <= Limit
                           /\ \A o \in A : s.want \cap C[o] = {}
    BY DEF Knows
  <2>2. s.at = "insert" => Cardinality(s.want) + Cost(s.who, P2, O2, C2) <= Limit
    BY <1>2, <1>4, <1>5, <2>1
  <2> QED
    BY <2>1, <2>2
<1>8. s.at = "update" /\ s.r \in P2
        => Cardinality(s.want) + Cost(s.who, P2 \ {s.r}, O2, C2) <= Limit
  <2>1. s.at = "update" /\ s.r \in P2
          => Cardinality(s.want) + Cost(s.who, P \ {s.r}, O, C) <= Limit
    BY <1>1 DEF Knows
  <2> QED
    BY <1>3, <1>4, <1>5, <2>1
<1>9. s.at \in {"others", "quota", "update"} /\ s.r \in H2 => s.own = C2[s.r]
  BY DEF Knows
<1>10. s.at \in {"others", "quota"} /\ s.r \in H2 =>
         /\ O2[s.r] = s.who => s.room = Cardinality(C2[s.r])
         /\ O2[s.r] # s.who => s.room = 0
  <2>1. s.r \in H2 => C2[s.r] = C[s.r] /\ O2[s.r] = O[s.r] /\ s.r \in H
    OBVIOUS
  <2> QED
    BY <2>1 DEF Knows
<1>11. s.at \in {"quota", "update"} /\ s.r \in A2
         => \A o \in A2 \ {s.r} : s.want \cap C2[o] = {}
  BY DEF Knows
<1> QED
  BY <1>6, <1>7, <1>8, <1>9, <1>10, <1>11 DEF Knows

LEMMA BookedShrinks ==
    ASSUME NEW H \in SUBSET Requests, NEW A \in SUBSET H, NEW P \in SUBSET H, NEW O, NEW C,
           NEW H2, NEW A2 \in SUBSET H2, NEW P2 \in SUBSET H2, NEW O2, NEW C2,
           Shrinks(H, A, P, O, C, H2, A2, P2, O2, C2),
           Booked(A, P, O, C)
    PROVE  Booked(A2, P2, O2, C2)
<1> USE DEF Shrinks
<1>1. P \in SUBSET Requests /\ P2 \in SUBSET P /\ \A r \in P2 : O2[r] = O[r] /\ C2[r] = C[r]
  OBVIOUS
<1>2. \A r, o \in A2 : r # o => C2[r] \cap C2[o] = {}
  BY DEF Booked
<1>3. ASSUME NEW u \in Users PROVE Cost(u, P2, O2, C2) <= Limit
  <2>1. Cost(u, P2, O2, C2) <= Cost(u, P, O, C)
    BY <1>1, CostGrows
  <2>2. P2 \in SUBSET Requests
    BY <1>1
  <2>3. Cost(u, P2, O2, C2) \in Nat /\ Cost(u, P, O, C) \in Nat
    BY <1>1, <2>2, CostNat
  <2>4. Cost(u, P, O, C) <= Limit
    BY DEF Booked
  <2> QED
    BY <2>1, <2>3, <2>4, SeriesAssumption
<1> QED
  BY <1>2, <1>3 DEF Booked

-----------------------------------------------------------------------------
(* Helpers of the actions *)

LEMMA LowestIn == ASSUME NEW S, S \subseteq Requests, S # {} PROVE Lowest(S) \in S
<1>1. S \subseteq Nat
  BY RequestsFinite
<1>2. IsWellFoundedOn({p \in Nat \X Nat : p[1] < p[2]}, Nat)
  BY NatLessThanWellFounded DEF OpToRel
<1>3. \E r \in S : \A k \in S : ~ <<k, r>> \in {p \in Nat \X Nat : p[1] < p[2]}
  BY <1>1, <1>2, WFMin, Zenon
<1>4. PICK r \in S : \A k \in S : ~ <<k, r>> \in {p \in Nat \X Nat : p[1] < p[2]}
  BY <1>3
<1>5. ASSUME NEW k \in S PROVE r <= k
  <2>1. r \in Nat /\ k \in Nat /\ <<k, r>> \in Nat \X Nat
    BY <1>1
  <2>2. ~ (<<k, r>>[1] < <<k, r>>[2])
    BY <1>4, <2>1, Zenon
  <2> QED
    BY <2>1, <2>2
<1> QED
  BY <1>5 DEF Lowest

LEMMA IdleFits == Fits(Idle)
BY DEF Fits, Idle, TaskState, Stages, HasRequest, Inside

\* After a save: the next loaded request, the settling, or the end.
LEMMA AfterSaveFits == ASSUME NEW s, Fits(s)
                       PROVE  /\ Fits(AfterSave(s))
                              /\ AfterSave(s).at \in {"save", "complete", "idle"}
<1>1. CASE s.todo # {}
  <2>1. s.todo \subseteq Requests
    BY DEF Fits, TaskState
  <2>2. Lowest(s.todo) \in s.todo
    BY <1>1, <2>1, LowestIn
  <2>3. AfterSave(s) = [at |-> "save", r |-> Lowest(s.todo),
                        to |-> IF s.sweep THEN "approved" ELSE "completed",
                        who |-> s.who, want |-> s.want, own |-> s.own, room |-> s.room,
                        todo |-> s.todo \ {Lowest(s.todo)}, sweep |-> s.sweep]
    BY <1>1 DEF AfterSave, Fits, TaskState
  <2>4. AfterSave(s) \in TaskState
    BY <2>1, <2>2, <2>3 DEF Fits, TaskState, Stages, RequestStatus
  <2> QED
    BY <2>1, <2>2, <2>3, <2>4 DEF Fits, HasRequest, Inside, RequestStatus
<1>2. CASE s.todo = {}
  <2>1. AfterSave(s) = [Idle EXCEPT !.at = "complete"] \/ AfterSave(s) = Idle
    BY <1>2 DEF AfterSave
  <2>2. Fits([Idle EXCEPT !.at = "complete"])
    BY DEF Fits, Idle, TaskState, Stages, HasRequest, Inside
  <2>3. [Idle EXCEPT !.at = "complete"].at = "complete" /\ Idle.at = "idle"
    BY DEF Idle
  <2>4. CASE AfterSave(s) = Idle
    BY <2>3, <2>4, IdleFits
  <2>5. CASE AfterSave(s) = [Idle EXCEPT !.at = "complete"]
    BY <2>2, <2>3, <2>5
  <2> QED
    BY <2>1, <2>4, <2>5
<1> QED
  BY <1>1, <1>2

-----------------------------------------------------------------------------
(* What a step does to the rows *)

RowTypes == /\ st \in [Requests -> RequestStatus \cup {"unborn", "gone"}]
            /\ owner \in [Requests -> Users \cup {NoUser}]
            /\ claims \in [Requests -> SUBSET Seasons]
            /\ revived \subseteq Requests
            /\ \A r \in Requests : /\ r \in Stored <=> owner[r] # NoUser
                                   /\ r \in Stored <=> claims[r] # {}

RowShrink == Shrinks(Stored, Claiming, Counted, owner, claims,
                     Stored', Claiming', Counted', owner', claims')

\* Rows stay, one changes its status, is deleted, inserted or edited.
RowStep == \/ UNCHANGED rowVars
           \/ \E r \in Requests, to \in RequestStatus : SetRow(r, to)
           \/ \E t \in Tasks : Delete(t)
           \/ \E t \in Tasks : Insert(t) \/ Update(t)

\* A handler is dropped, or all of them end with the process.
Ending == (\E t \in Tasks : Drop(t)) \/ Restart

LEMMA RowSteps == TasksFit /\ [SeriesNext]_seriesVars => RowStep
<1> SUFFICES ASSUME TasksFit, [SeriesNext]_seriesVars
             PROVE  RowStep
  OBVIOUS
<1> USE DEF RowStep
<1>1. CASE UNCHANGED seriesVars
  BY <1>1 DEF seriesVars
<1>2. ASSUME NEW t \in Tasks, Start(t)
      PROVE  RowStep
  BY <1>2 DEF Start, TakeLock, Approve, Decline, Retry, SetStatus, Remove, SaveMedia
<1>3. ASSUME NEW t \in Tasks, LockedStep(t)
      PROVE  RowStep
  BY <1>3 DEF LockedStep, Refuse, Load, ReadQuota, ReadOthers, EditQuota, LoadInserted
<1>4. ASSUME NEW t \in Tasks, SaveStep(t)
      PROVE  RowStep
  <2>1. CASE Write(t)
    BY <2>1 DEF Write, Continue, TasksFit, Fits, HasRequest
  <2>2. CASE SendFails(t)
    BY <2>2 DEF SendFails, SaveOver, Continue, TasksFit, Fits, HasRequest, RequestStatus
  <2>3. CASE Delete(t)
    BY <2>3
  <2> QED
    BY <1>4, <2>1, <2>2, <2>3
       DEF SaveStep, SaveUnchanged, SaveChanged, SendNothing, SendCompletes, SpawnAdd,
           ApproveChildren, CompleteRelated
<1>5. ASSUME NEW r \in Requests, AddSucceeds(r) \/ AddFails(r)
      PROVE  RowStep
  BY <1>5 DEF AddSucceeds, AddFails, rowVars, RequestStatus
<1>6. CASE Ending
  BY <1>6 DEF Ending, Drop, Restart
<1> QED
  BY <1>1, <1>2, <1>3, <1>4, <1>5, <1>6 DEF SeriesNext, TaskStep, Ending

LEMMA SetRowShrinks ==
    ASSUME RowTypes, NEW r \in Requests, NEW to \in RequestStatus, SetRow(r, to)
    PROVE  RowTypes' /\ RowShrink
<1> USE DEF RowTypes, SetRow
<1>1. Stored' = Stored
  BY DEF Stored, RequestStatus
<1>2. RowTypes'
  <2>1. st' \in [Requests -> RequestStatus \cup {"unborn", "gone"}]
    OBVIOUS
  <2>2. revived' \subseteq Requests
    OBVIOUS
  <2> QED
    BY <1>1, <2>1, <2>2
<1>3. \A o \in Stored \ revived' : /\ st'[o] \notin Closed => st[o] \notin Closed
                                   /\ st'[o] # "declined" => st[o] # "declined"
  <2> SUFFICES ASSUME NEW o \in Stored \ revived'
               PROVE  /\ st'[o] \notin Closed => st[o] \notin Closed
                      /\ st'[o] # "declined" => st[o] # "declined"
    OBVIOUS
  <2>1. CASE o = r
    BY <2>1 DEF Stored, Revives
  <2>2. CASE o # r
    BY <2>2 DEF Stored
  <2> QED
    BY <2>1, <2>2
<1>4. revived \subseteq revived'
  OBVIOUS
<1> QED
  BY <1>1, <1>2, <1>3, <1>4 DEF RowShrink, Shrinks, Claiming, Counted, Open

LEMMA DeleteShrinks ==
    ASSUME RowTypes, TasksFit, NEW t \in Tasks, Delete(t)
    PROVE  RowTypes' /\ RowShrink
<1> DEFINE r == task[t].r
<1>1. /\ r \in Requests
      /\ st' = [st EXCEPT ![r] = "gone"]
      /\ owner' = [owner EXCEPT ![r] = NoUser]
      /\ claims' = [claims EXCEPT ![r] = {}]
      /\ revived' = revived
  BY DEF Delete, Continue, TasksFit, Fits, HasRequest
<1> HIDE DEF r
<1>2. Stored' = Stored \ {r}
  BY <1>1 DEF Stored, RequestStatus, RowTypes
<1>3. RowTypes'
  <2>1. /\ st' \in [Requests -> RequestStatus \cup {"unborn", "gone"}]
        /\ owner' \in [Requests -> Users \cup {NoUser}]
        /\ claims' \in [Requests -> SUBSET Seasons]
        /\ revived' \subseteq Requests
    BY <1>1 DEF RowTypes
  <2>2. ASSUME NEW o \in Requests
        PROVE  (o \in Stored' <=> owner'[o] # NoUser) /\ (o \in Stored' <=> claims'[o] # {})
    BY <1>1, <1>2 DEF RowTypes
  <2> QED
    BY <2>1, <2>2 DEF RowTypes
<1>4. \A o \in Stored' : st'[o] = st[o] /\ owner'[o] = owner[o] /\ claims'[o] = claims[o]
  BY <1>1, <1>2 DEF RowTypes, Stored
<1> QED
  BY <1>1, <1>2, <1>3, <1>4 DEF RowShrink, Shrinks, Claiming, Counted, Open

LEMMA SameShrinks == ASSUME RowTypes, UNCHANGED rowVars PROVE RowTypes' /\ RowShrink
<1>1. Stored' = Stored /\ Claiming' = Claiming /\ Counted' = Counted
  BY DEF rowVars, Stored, Claiming, Counted, Open
<1>2. RowTypes'
  BY <1>1 DEF RowTypes, rowVars
<1> QED
  BY <1>1, <1>2 DEF RowShrink, Shrinks, rowVars

-----------------------------------------------------------------------------
(* The two writes under the lock *)

\* A request enters the account, or its entry changes.
LEMMA BookPut ==
    ASSUME NEW A \in SUBSET Requests, NEW P \in SUBSET Requests, NEW O, NEW C,
           NEW r \in Requests,
           NEW A2 \in SUBSET (A \cup {r}), NEW P2 \in SUBSET (P \cup {r}), NEW O2, NEW C2,
           \A o \in (A \cup P) \ {r} : O2[o] = O[o] /\ C2[o] = C[o],
           C2[r] \in SUBSET Seasons,
           r \in A2 => \A o \in A \ {r} : C2[r] \cap C[o] = {},
           r \in P2 => Cardinality(C2[r]) + Cost(O2[r], P \ {r}, O, C) <= Limit,
           Booked(A, P, O, C)
    PROVE  Booked(A2, P2, O2, C2)
<1>1. \A a, b \in A2 : a # b => C2[a] \cap C2[b] = {}
  <2> SUFFICES ASSUME NEW a \in A2, NEW b \in A2, a # b
               PROVE  C2[a] \cap C2[b] = {}
    OBVIOUS
  <2>1. CASE a # r /\ b # r
    BY <2>1 DEF Booked
  <2>2. CASE a = r
    BY <2>2
  <2>3. CASE b = r
    BY <2>3
  <2> QED
    BY <2>1, <2>2, <2>3
<1>2. ASSUME NEW u \in Users
      PROVE  Cost(u, P2, O2, C2) <= Limit
  <2>1. /\ P2 \in SUBSET Requests /\ P \ {r} \in SUBSET Requests
        /\ P2 \ {r} \in SUBSET (P \ {r}) /\ P2 \ {r} \in SUBSET P
        /\ P2 \ {r} \in SUBSET Requests
        /\ \A o \in P2 \ {r} : O2[o] = O[o] /\ C2[o] = C[o]
    OBVIOUS
  <2>2. /\ Cost(u, P2, O2, C2) \in Nat /\ Cost(u, P2 \ {r}, O2, C2) \in Nat
        /\ Cost(u, P \ {r}, O, C) \in Nat /\ Cost(u, P, O, C) \in Nat
        /\ Cardinality(C2[r]) \in Nat /\ Limit \in Nat
    BY <2>1, CostNat, SeasonsFinite, SeriesAssumption
  <2>3. CASE r \in P2 /\ O2[r] = u
    <3>1. Cost(u, P2, O2, C2) = Cost(u, P2 \ {r}, O2, C2) + Cardinality(C2[r])
      <4>1. PaidBy(u, P2, O2) = PaidBy(u, P2 \ {r}, O2) \cup {r}
        BY <2>3 DEF PaidBy
      <4>2. /\ PaidBy(u, P2 \ {r}, O2) \in SUBSET Requests
            /\ r \in Requests \ PaidBy(u, P2 \ {r}, O2)
        BY <2>1 DEF PaidBy
      <4>3. Cardinality(RowsOf(PaidBy(u, P2 \ {r}, O2) \cup {r}, C2))
              = Cardinality(RowsOf(PaidBy(u, P2 \ {r}, O2), C2)) + Cardinality(C2[r])
        BY <4>2, RowsAdd
      <4> QED
        BY <4>1, <4>3 DEF Cost
    <3>2. Cost(u, P2 \ {r}, O2, C2) <= Cost(u, P \ {r}, O, C)
      BY <2>1, CostGrows
    <3>3. Cardinality(C2[r]) + Cost(u, P \ {r}, O, C) <= Limit
      BY <2>3
    <3> QED
      BY <2>2, <3>1, <3>2, <3>3
  <2>4. CASE ~(r \in P2 /\ O2[r] = u)
    <3>1. PaidBy(u, P2, O2) = PaidBy(u, P2 \ {r}, O2)
      BY <2>4 DEF PaidBy
    <3>2. Cost(u, P2, O2, C2) = Cost(u, P2 \ {r}, O2, C2)
      BY <3>1 DEF Cost
    <3>3. Cost(u, P2 \ {r}, O2, C2) <= Cost(u, P, O, C)
      BY <2>1, CostGrows
    <3>4. Cost(u, P, O, C) <= Limit
      BY DEF Booked
    <3> QED
      BY <2>2, <3>2, <3>3, <3>4
  <2> QED
    BY <2>3, <2>4
<1> QED
  BY <1>1, <1>2 DEF Booked

LEMMA InsertBooks ==
    ASSUME RowTypes, TasksFit, TasksKnow, Booked(Claiming, Counted, owner, claims),
           NEW t \in Tasks, Insert(t)
    PROVE  RowTypes' /\ Booked(Claiming', Counted', owner', claims')
<1> DEFINE r == Lowest(Unborn)
           s == task[t]
<1>1. PICK to \in {"pending", "approved"} :
      /\ s.at = "insert" /\ Unborn # {}
      /\ st' = [st EXCEPT ![r] = to]
      /\ owner' = [owner EXCEPT ![r] = s.who]
      /\ claims' = [claims EXCEPT ![r] = s.want]
      /\ revived' = revived
  BY DEF Insert, Continue
<1>2. r \in Unborn
  BY <1>1, LowestIn DEF Unborn
<1>3. /\ to \in RequestStatus /\ s.who \in Users /\ s.want \in SUBSET Seasons /\ s.want # {}
  BY <1>1 DEF TasksFit, Fits, TaskState, Inside, RequestStatus
<1>4. Knows(s, Stored, Claiming, Counted, owner, claims)
  BY DEF TasksKnow
<1> HIDE DEF r, s
<1>5. r \in Requests /\ r \notin Stored
  BY <1>2 DEF Unborn, Stored, RequestStatus
<1>6. Stored' = Stored \cup {r}
  BY <1>1, <1>3, <1>5 DEF Stored, RowTypes
<1>7. RowTypes'
  <2>1. /\ st' \in [Requests -> RequestStatus \cup {"unborn", "gone"}]
        /\ owner' \in [Requests -> Users \cup {NoUser}]
        /\ claims' \in [Requests -> SUBSET Seasons]
        /\ revived' \subseteq Requests
    BY <1>1, <1>3, <1>5 DEF RowTypes
  <2>2. ASSUME NEW o \in Requests
        PROVE  (o \in Stored' <=> owner'[o] # NoUser) /\ (o \in Stored' <=> claims'[o] # {})
    BY <1>1, <1>3, <1>5, <1>6, SeriesAssumption DEF RowTypes
  <2> QED
    BY <2>1, <2>2 DEF RowTypes
<1>8. \A o \in Stored : st'[o] = st[o] /\ owner'[o] = owner[o] /\ claims'[o] = claims[o]
  BY <1>1, <1>5 DEF RowTypes, Stored
<1>9. /\ Claiming \subseteq Stored /\ Counted \subseteq Stored
      /\ Stored \subseteq Requests
  BY DEF Claiming, Counted, Open, Stored
<1>10. Claiming' \subseteq Claiming \cup {r} /\ Counted' \subseteq Counted \cup {r}
  BY <1>1, <1>6, <1>8 DEF Claiming, Counted, Open
<1>11. owner'[r] = s.who /\ claims'[r] = s.want
  BY <1>1, <1>5 DEF RowTypes
<1>12. /\ Cardinality(s.want) + Cost(s.who, Counted, owner, claims) <= Limit
       /\ \A o \in Claiming : s.want \cap claims[o] = {}
  BY <1>1, <1>4 DEF Knows
<1>13. Counted \ {r} = Counted
  BY <1>5, <1>9
<1>14. /\ \A o \in Claiming \ {r} : claims'[r] \cap claims[o] = {}
       /\ Cardinality(claims'[r]) + Cost(owner'[r], Counted \ {r}, owner, claims) <= Limit
  BY <1>11, <1>12, <1>13
<1> QED
  BY <1>3, <1>5, <1>7, <1>8, <1>9, <1>10, <1>11, <1>14, BookPut

LEMMA UpdateBooks ==
    ASSUME RowTypes, TasksFit, TasksKnow, Booked(Claiming, Counted, owner, claims),
           NEW t \in Tasks, Update(t)
    PROVE  RowTypes' /\ Booked(Claiming', Counted', owner', claims')
<1> DEFINE r == task[t].r
           s == task[t]
<1>1. /\ s.at = "update"
      /\ claims' = [claims EXCEPT ![r] = IF r \in Stored THEN (@ \ (s.own \ s.want)) \cup (s.want \ s.own)
                                         ELSE @]
      /\ owner' = [owner EXCEPT ![r] = IF r \in Stored THEN s.who ELSE @]
      /\ st' = st /\ revived' = revived
  BY DEF Update, Continue
<1>2. r \in Requests /\ s.who \in Users /\ s.want \in SUBSET Seasons /\ s.want # {}
  BY <1>1 DEF TasksFit, Fits, TaskState, Inside, HasRequest
<1>3. Knows(s, Stored, Claiming, Counted, owner, claims)
  BY DEF TasksKnow
<1>4. s.r = r
  OBVIOUS
<1> HIDE DEF r, s
<1>5. Stored' = Stored /\ Claiming' = Claiming /\ Counted' = Counted
  BY <1>1 DEF Stored, Claiming, Counted, Open
<1>6. CASE r \notin Stored
  <2>1. owner' = owner /\ claims' = claims
    BY <1>1, <1>6 DEF RowTypes
  <2> QED
    BY <1>1, <1>5, <2>1 DEF RowTypes
<1>7. CASE r \in Stored
  <2>1. s.own = claims[r]
    BY <1>1, <1>3, <1>4, <1>7 DEF Knows
  <2>2. claims' = [claims EXCEPT ![r] = s.want]
    BY <1>1, <1>7, <2>1
  <2>3. owner' = [owner EXCEPT ![r] = s.who]
    BY <1>1, <1>7
  <2>4. RowTypes'
    BY <1>1, <1>2, <1>5, <1>7, <2>2, <2>3, SeriesAssumption DEF RowTypes
  <2>5. owner'[r] = s.who /\ claims'[r] = s.want
    BY <1>2, <2>2, <2>3 DEF RowTypes
  <2>6. \A o \in Requests \ {r} : owner'[o] = owner[o] /\ claims'[o] = claims[o]
    BY <1>2, <2>2, <2>3 DEF RowTypes
  <2>7. /\ r \in Claiming => \A o \in Claiming \ {r} : claims'[r] \cap claims[o] = {}
        /\ r \in Counted => Cardinality(claims'[r]) + Cost(owner'[r], Counted \ {r}, owner, claims)
                              <= Limit
    BY <1>1, <1>3, <1>4, <2>5 DEF Knows
  <2>8. /\ Claiming \in SUBSET Requests /\ Counted \in SUBSET Requests
        /\ Claiming \in SUBSET (Claiming \cup {r}) /\ Counted \in SUBSET (Counted \cup {r})
        /\ claims'[r] \in SUBSET Seasons
    BY <1>2, <2>5 DEF Claiming, Counted, Open, Stored
  <2>9. Booked(Claiming, Counted, owner', claims')
    BY <1>2, <2>6, <2>7, <2>8, BookPut
  <2> QED
    BY <1>5, <2>4, <2>9
<1> QED
  BY <1>6, <1>7

-----------------------------------------------------------------------------
(* What tasks remember, and the lock *)

LEMMA TaskPut == ASSUME NEW t \in Tasks, NEW x, Fits(x), SeriesTypeOK, TasksFit,
                        task' = [task EXCEPT ![t] = x]
                 PROVE  TasksFit' /\ task' \in [Tasks -> TaskState]
<1>1. \A q \in Tasks : task'[q] = IF q = t THEN x ELSE task[q]
  BY DEF SeriesTypeOK
<1> QED
  BY <1>1 DEF TasksFit, Fits, SeriesTypeOK

\* Who is dropped is idle.
LEMMA EndingIdles == ASSUME SeriesTypeOK, Ending, NEW q \in Tasks
                     PROVE  task'[q] = task[q] \/ task'[q] = Idle
BY DEF Ending, Drop, Restart, SeriesTypeOK

LEMMA FitsStep == SeriesTypeOK /\ TasksFit /\ [SeriesNext]_seriesVars
                    => TasksFit' /\ task' \in [Tasks -> TaskState]
<1> SUFFICES ASSUME SeriesTypeOK, TasksFit, [SeriesNext]_seriesVars
             PROVE  TasksFit' /\ task' \in [Tasks -> TaskState]
  OBVIOUS
<1>1. CASE UNCHANGED task
  BY <1>1 DEF TasksFit, SeriesTypeOK
<1>2. ASSUME NEW t \in Tasks
      PROVE  Fits(task[t])
  BY DEF TasksFit
<1>3. ASSUME NEW t \in Tasks, NEW u \in Users, NEW S \in (SUBSET Seasons) \ {{}},
             Continue(t, "idle", Creation(u, S))
      PROVE  TasksFit' /\ task' \in [Tasks -> TaskState]
  <2>2. S # {}
    OBVIOUS
  <2>3. Creation(u, S) \in TaskState
    BY DEF Creation, Idle, TaskState, Stages
  <2>4. Creation(u, S).at = "quota" /\ Creation(u, S).who = u /\ Creation(u, S).want = S
    BY DEF Creation, Idle
  <2>1. Fits(Creation(u, S))
    BY <2>2, <2>3, <2>4 DEF Fits, HasRequest, Inside
  <2> QED
    BY <1>3, <2>1, TaskPut DEF Continue
<1>4. ASSUME NEW t \in Tasks, NEW r \in Requests, NEW u \in Users,
             NEW S \in (SUBSET Seasons) \ {{}}, Continue(t, "idle", Edition(r, u, S))
      PROVE  TasksFit' /\ task' \in [Tasks -> TaskState]
  <2>1. Fits(Edition(r, u, S))
    BY DEF Edition, Fits, Idle, TaskState, Stages, RequestStatus, HasRequest, Inside
  <2> QED
    BY <1>4, <2>1, TaskPut DEF Continue
<1>5. ASSUME NEW t \in Tasks, TakeLock(t)
      PROVE  TasksFit' /\ task' \in [Tasks -> TaskState]
  <2>1. PICK body \in Bodies : Continue(t, "idle", body)
    BY <1>5 DEF TakeLock
  <2>2. CASE \E u \in Users, S \in (SUBSET Seasons) \ {{}} : body = Creation(u, S)
    BY <1>3, <2>1, <2>2
  <2>3. CASE \E r \in Stored, u \in Users, S \in (SUBSET Seasons) \ {{}} : body = Edition(r, u, S)
    BY <1>4, <2>1, <2>3 DEF Stored
  <2> QED
    BY <2>1, <2>2, <2>3 DEF Bodies
<1>6. ASSUME NEW t \in Tasks, NEW r \in Requests, Approve(t, r) \/ Decline(t, r) \/ Retry(t, r)
      PROVE  TasksFit' /\ task' \in [Tasks -> TaskState]
  <2>1. PICK to \in {"approved", "declined"} : Continue(t, "idle", [Idle EXCEPT !.at = "save", !.r = r, !.to = to])
    BY <1>6 DEF Approve, Decline, Retry, SetStatus
  <2>2. Fits([Idle EXCEPT !.at = "save", !.r = r, !.to = to])
    BY DEF Fits, Idle, TaskState, Stages, RequestStatus, HasRequest, Inside
  <2> QED
    BY <2>1, <2>2, TaskPut DEF Continue
<1>7. ASSUME NEW t \in Tasks, NEW r \in Requests, Remove(t, r)
      PROVE  TasksFit' /\ task' \in [Tasks -> TaskState]
  <2>1. Fits([Idle EXCEPT !.at = "delete", !.r = r])
    BY DEF Fits, Idle, TaskState, Stages, RequestStatus, HasRequest, Inside
  <2> QED
    BY <1>7, <2>1, TaskPut DEF Remove, Continue
<1>8. ASSUME NEW t \in Tasks, NEW first \in {"approve", "complete"}, SaveMedia(t, first)
      PROVE  TasksFit' /\ task' \in [Tasks -> TaskState]
  <2>1. Fits([Idle EXCEPT !.at = first])
    BY DEF Fits, Idle, TaskState, Stages, RequestStatus, HasRequest, Inside
  <2> QED
    BY <1>8, <2>1, TaskPut DEF SaveMedia, Continue
<1>9. ASSUME NEW t \in Tasks, Refuse(t) \/ Update(t) \/ Delete(t)
      PROVE  TasksFit' /\ task' \in [Tasks -> TaskState]
  BY <1>9, IdleFits, TaskPut DEF Refuse, Update, Delete, Continue
<1>10. ASSUME NEW t \in Tasks, Load(t)
       PROVE  TasksFit' /\ task' \in [Tasks -> TaskState]
  <2> DEFINE s == task[t]
             room == IF owner[s.r] = s.who THEN Cardinality(claims[s.r]) ELSE 0
             x == [s EXCEPT !.at = "others", !.own = claims[s.r], !.room = room]
  <2>1. s.at = "load" /\ task' = [task EXCEPT ![t] = x] /\ s.r \in Stored
    BY <1>10 DEF Load, Continue
  <2>2. claims[s.r] \in SUBSET Seasons /\ s.r # 0
    BY <2>1, RequestsFinite DEF SeriesTypeOK, Stored
  <2>3. room \in Nat
    BY <2>2, SeasonsFinite
  <2> HIDE DEF room
  <2>4. Fits(x)
    BY <1>2, <2>1, <2>2, <2>3 DEF Fits, TaskState, Stages, HasRequest, Inside
  <2> HIDE DEF x
  <2> QED
    BY <2>1, <2>4, TaskPut
<1>11. ASSUME NEW t \in Tasks, ReadQuota(t)
       PROVE  TasksFit' /\ task' \in [Tasks -> TaskState]
  <2> DEFINE s == task[t]
             room == Remaining(s.who)
             x == [s EXCEPT !.at = "others", !.room = room]
  <2>1. s.at = "quota" /\ task' = [task EXCEPT ![t] = x]
    BY <1>11 DEF ReadQuota, Continue
  <2>2. room \in Nat
    <3>1. Rows(Paying(s.who)) = RowsOf(Paying(s.who), claims)
      BY DEF Rows, RowsOf
    <3>2. Used(s.who) \in Nat
      BY <3>1, RowsFinite DEF Used, Paying, Stored
    <3> QED
      BY <3>2, SeriesAssumption DEF Remaining
  <2> HIDE DEF room
  <2>3. Fits(x)
    BY <1>2, <2>1, <2>2 DEF Fits, TaskState, Stages, HasRequest, Inside
  <2> HIDE DEF x
  <2> QED
    BY <2>1, <2>3, TaskPut
<1>12. ASSUME NEW t \in Tasks, ReadOthers(t)
       PROVE  TasksFit' /\ task' \in [Tasks -> TaskState]
  <2> DEFINE s == task[t]
             x(G) == IF s.r = 0 THEN [s EXCEPT !.at = "insert", !.want = G, !.room = 0]
                     ELSE [s EXCEPT !.at = "quota", !.want = G]
  <2>1. PICK covered \in SUBSET (s.want \ s.own) :
           LET G == s.want \ (covered \cup Elsewhere(s.r))
           IN  G # {} /\ Continue(t, "others", x(G))
    BY <1>12 DEF ReadOthers
  <2> DEFINE G == s.want \ (covered \cup Elsewhere(s.r))
  <2>2. G # {} /\ s.at = "others" /\ task' = [task EXCEPT ![t] = x(G)]
    BY <2>1 DEF Continue
  <2>3. G \in SUBSET Seasons
    BY <1>2 DEF Fits, TaskState
  <2> HIDE DEF G
  <2>4. Fits(x(G))
    BY <1>2, <2>2, <2>3 DEF Fits, TaskState, Stages, HasRequest, Inside
  <2> HIDE DEF x
  <2> QED
    BY <2>2, <2>4, TaskPut
<1>13. ASSUME NEW t \in Tasks, EditQuota(t)
       PROVE  TasksFit' /\ task' \in [Tasks -> TaskState]
  <2> DEFINE s == task[t]
             x == [s EXCEPT !.at = "update", !.room = 0]
  <2>1. s.at = "quota" /\ s.r # 0 /\ task' = [task EXCEPT ![t] = x]
    BY <1>13 DEF EditQuota, Continue
  <2>2. Fits(x)
    BY <1>2, <2>1 DEF Fits, TaskState, Stages, HasRequest, Inside
  <2> HIDE DEF x
  <2> QED
    BY <2>1, <2>2, TaskPut
<1>14. ASSUME NEW t \in Tasks, Insert(t)
       PROVE  TasksFit' /\ task' \in [Tasks -> TaskState]
  <2> DEFINE r == Lowest(Unborn)
             x == [Idle EXCEPT !.at = "inserted", !.r = r]
  <2>1. Unborn # {} /\ task' = [task EXCEPT ![t] = x]
    BY <1>14 DEF Insert, Continue
  <2>2. r \in Requests
    BY <2>1, LowestIn DEF Unborn
  <2> HIDE DEF r
  <2>3. Fits(x)
    BY <2>2 DEF Fits, Idle, TaskState, Stages, RequestStatus, HasRequest, Inside
  <2> HIDE DEF x
  <2> QED
    BY <2>1, <2>3, TaskPut
<1>15. ASSUME NEW t \in Tasks, LoadInserted(t)
       PROVE  TasksFit' /\ task' \in [Tasks -> TaskState]
  <2> DEFINE s == task[t]
             y == [s EXCEPT !.at = "send", !.to = st[s.r]]
             x == IF s.r \in Stored THEN y ELSE Idle
  <2>1. s.at = "inserted" /\ task' = [task EXCEPT ![t] = x]
    BY <1>15 DEF LoadInserted, Continue
  <2>2. s.r \in Stored => Fits(y)
    BY <1>2, <2>1 DEF Fits, TaskState, Stages, HasRequest, Inside, Stored
  <2> HIDE DEF y
  <2>3. Fits(x)
    BY <2>2, IdleFits
  <2> HIDE DEF x
  <2> QED
    BY <2>1, <2>3, TaskPut
<1>16. ASSUME NEW t \in Tasks, NEW from, NEW y, Fits(y), SaveOver(t, from, y)
       PROVE  TasksFit' /\ task' \in [Tasks -> TaskState]
  BY <1>16, AfterSaveFits, TaskPut DEF SaveOver, Continue
<1>17. ASSUME NEW t \in Tasks, SaveUnchanged(t) \/ SendNothing(t) \/ SpawnAdd(t) \/ SendFails(t)
       PROVE  TasksFit' /\ task' \in [Tasks -> TaskState]
  <2>1. SaveOver(t, "save", task[t]) \/ SaveOver(t, "send", task[t])
    BY <1>17 DEF SaveUnchanged, SendNothing, SpawnAdd, SendFails
  <2> QED
    BY <1>2, <1>16, <2>1
<1>18. ASSUME NEW t \in Tasks, SaveChanged(t) \/ Write(t) \/ SendCompletes(t)
       PROVE  TasksFit' /\ task' \in [Tasks -> TaskState]
  <2> DEFINE s == task[t]
  <2>1. PICK at \in {"write", "send"} : \/ s.at \in {"save", "write"}
                                            /\ task' = [task EXCEPT ![t] = [s EXCEPT !.at = at]]
                                        \/ s.at = "send"
                                            /\ task' = [task EXCEPT ![t] = [s EXCEPT !.at = "save", !.to = "completed"]]
    BY <1>18 DEF SaveChanged, Write, SendCompletes, Continue
  <2>2. s.at \in {"save", "write"} => Fits([s EXCEPT !.at = at])
    BY <1>2 DEF Fits, TaskState, Stages, HasRequest, Inside
  <2>3. s.at = "send" => Fits([s EXCEPT !.at = "save", !.to = "completed"])
    BY <1>2 DEF Fits, TaskState, Stages, HasRequest, Inside, RequestStatus
  <2> QED
    BY <2>1, <2>2, <2>3, TaskPut
<1>19. ASSUME NEW t \in Tasks, ApproveChildren(t) \/ CompleteRelated(t)
       PROVE  TasksFit' /\ task' \in [Tasks -> TaskState]
  <2> DEFINE s == task[t]
  <2>1. PICK S \in SUBSET Requests, sweep \in BOOLEAN :
           \/ s.at = "approve" /\ SaveOver(t, "approve", [s EXCEPT !.sweep = sweep, !.todo = S])
           \/ s.at = "complete" /\ SaveOver(t, "complete", [s EXCEPT !.todo = S])
    <3>1. CASE ApproveChildren(t)
      BY <3>1 DEF ApproveChildren, SaveOver, Continue, Stored
    <3>2. CASE CompleteRelated(t)
      BY <3>2 DEF CompleteRelated, SaveOver, Continue, Stored
    <3> QED
      BY <1>19, <3>1, <3>2
  <2>2. s.at = "approve" => Fits([s EXCEPT !.sweep = sweep, !.todo = S])
    BY <1>2 DEF Fits, TaskState, HasRequest, Inside
  <2>3. s.at = "complete" => Fits([s EXCEPT !.todo = S])
    BY <1>2 DEF Fits, TaskState, HasRequest, Inside
  <2> QED
    BY <1>16, <2>1, <2>2, <2>3
<1>20. CASE Ending
  <2>1. \A q \in Tasks : Fits(task'[q])
    BY <1>2, <1>20, EndingIdles, IdleFits
  <2>2. task' = [q \in Tasks |-> task'[q]]
    BY <1>20 DEF Ending, Drop, Restart, SeriesTypeOK
  <2>3. \A q \in Tasks : task'[q] \in TaskState
    BY <2>1 DEF Fits
  <2> QED
    BY <2>1, <2>2, <2>3 DEF TasksFit
<1> QED
  BY <1>1, <1>5, <1>6, <1>7, <1>8, <1>9, <1>10, <1>11, <1>12, <1>13, <1>14, <1>15, <1>17,
     <1>18, <1>19, <1>20
     DEF SeriesNext, Start, TaskStep, LockedStep, SaveStep, AddSucceeds, AddFails, seriesVars, Ending

\* Task t alone goes on from one stage to one of the stages S.
Moves(t, from, S) == /\ task[t].at = from
                     /\ task'[t].at \in S
                     /\ \A q \in Tasks : q # t => task'[q] = task[q]

LEMMA ContinueMoves == ASSUME SeriesTypeOK, NEW t \in Tasks, NEW from, NEW x, NEW S,
                              Continue(t, from, x), x.at \in S
                       PROVE  Moves(t, from, S)
BY DEF Continue, Moves, SeriesTypeOK

\* How it leaves the lock.
LEMMA LockPut ==
    ASSUME SeriesTypeOK, LockHeld, NEW t \in Tasks, NEW from, NEW S, Moves(t, from, S),
           \/ lock' = lock /\ S \cap (Inside \cup {"idle", "delete"}) = {}
           \/ lock' = lock /\ S \subseteq Inside /\ from \in Inside
           \/ lock' = lock /\ S \cap Inside = {} /\ from \in {"idle", "delete"}
           \/ lock' = NoTask /\ S \cap Inside = {} /\ from \in Inside
           \/ lock' = t /\ S \subseteq Inside /\ lock = NoTask
           \/ Unlock(t, task'[t]) /\ S \cap (Inside \cup {"delete"}) = {}
    PROVE  LockHeld' /\ lock' \in Tasks \cup {NoTask}
<1>1. /\ task[t].at = from /\ task'[t].at \in S
      /\ \A q \in Tasks : q # t => task'[q] = task[q]
  BY DEF Moves
<1>2. NoTask \notin Tasks
  BY SeriesAssumption
<1>3. /\ \A q \in Tasks : task[q].at \in Inside => lock = q
      /\ \A q \in Tasks : lock = q => task[q].at \notin {"idle", "delete"}
  BY DEF LockHeld
<1>4. lock \in Tasks \cup {NoTask} /\ "idle" \notin Inside /\ "delete" \notin Inside
  BY DEF SeriesTypeOK, Inside
<1>5. CASE Unlock(t, task'[t]) /\ S \cap (Inside \cup {"delete"}) = {}
  <2>1. CASE lock = t /\ task'[t].at = "idle"
    BY <1>1, <1>2, <1>3, <1>4, <1>5, <2>1 DEF LockHeld, Unlock
  <2>2. CASE ~(lock = t /\ task'[t].at = "idle")
    BY <1>1, <1>2, <1>3, <1>4, <1>5, <2>2 DEF LockHeld, Unlock
  <2> QED
    BY <2>1, <2>2
<1>6. CASE lock' = lock /\ S \cap (Inside \cup {"idle", "delete"}) = {}
  BY <1>1, <1>3, <1>4, <1>6 DEF LockHeld
<1>7. CASE lock' = lock /\ S \subseteq Inside /\ from \in Inside
  BY <1>1, <1>3, <1>4, <1>7 DEF LockHeld
<1>8. CASE lock' = lock /\ S \cap Inside = {} /\ from \in {"idle", "delete"}
  BY <1>1, <1>3, <1>4, <1>8 DEF LockHeld
<1>9. CASE lock' = NoTask /\ S \cap Inside = {} /\ from \in Inside
  BY <1>1, <1>2, <1>3, <1>4, <1>9 DEF LockHeld
<1>10. CASE lock' = t /\ S \subseteq Inside /\ lock = NoTask
  BY <1>1, <1>2, <1>3, <1>4, <1>10 DEF LockHeld
<1> QED
  BY <1>5, <1>6, <1>7, <1>8, <1>9, <1>10

LEMMA LockStepHeld == SeriesTypeOK /\ TasksFit /\ LockHeld /\ [SeriesNext]_seriesVars
                        => LockHeld' /\ lock' \in Tasks \cup {NoTask}
<1> SUFFICES ASSUME SeriesTypeOK, TasksFit, LockHeld, [SeriesNext]_seriesVars
             PROVE  LockHeld' /\ lock' \in Tasks \cup {NoTask}
  OBVIOUS
<1>1. CASE UNCHANGED <<task, lock>>
  BY <1>1 DEF LockHeld, SeriesTypeOK
<1>0. ASSUME NEW t \in Tasks PROVE task[t] \in TaskState
  BY DEF SeriesTypeOK
<1>2. ASSUME NEW t \in Tasks, TakeLock(t)
      PROVE  LockHeld' /\ lock' \in Tasks \cup {NoTask}
  <2>1. PICK body \in Bodies : Continue(t, "idle", body)
    BY <1>2 DEF TakeLock
  <2>2. body.at \in {"quota", "load"}
    <3>1. \A u, S : Creation(u, S).at = "quota"
      BY DEF Creation, Idle
    <3>2. \A r, u, S : Edition(r, u, S).at = "load"
      BY DEF Edition, Idle
    <3> QED
      BY <3>1, <3>2 DEF Bodies
  <2>3. Moves(t, "idle", {"quota", "load"})
    BY <2>1, <2>2, ContinueMoves
  <2> QED
    BY <1>2, <2>3, LockPut DEF TakeLock, Inside
<1>3. ASSUME NEW t \in Tasks, NEW r \in Requests,
             Approve(t, r) \/ Decline(t, r) \/ Retry(t, r) \/ Remove(t, r)
      PROVE  LockHeld' /\ lock' \in Tasks \cup {NoTask}
  <2> DEFINE S == {"save", "delete"}
  <2>1. /\ \A to : [Idle EXCEPT !.at = "save", !.r = r, !.to = to].at \in S
        /\ [Idle EXCEPT !.at = "delete", !.r = r].at \in S
    BY DEF Idle
  <2> HIDE DEF S
  <2>2. Moves(t, "idle", S) /\ lock' = lock
    BY <1>3, <2>1, ContinueMoves DEF Approve, Decline, Retry, SetStatus, Remove
  <2> QED
    BY <2>2, LockPut DEF Inside, S
<1>4. ASSUME NEW t \in Tasks, Refuse(t) \/ Update(t)
      PROVE  LockHeld' /\ lock' \in Tasks \cup {NoTask}
  <2>1. /\ task[t].at \in Inside /\ Continue(t, task[t].at, Idle) /\ lock' = NoTask
        /\ Idle.at \in {"idle"}
    BY <1>4 DEF Refuse, Update, Continue, Inside, Idle
  <2>2. Moves(t, task[t].at, {"idle"})
    BY <2>1, ContinueMoves
  <2> QED
    BY <2>1, <2>2, LockPut DEF Inside
<1>5. ASSUME NEW t \in Tasks, Load(t) \/ ReadQuota(t) \/ ReadOthers(t) \/ EditQuota(t)
      PROVE  LockHeld' /\ lock' \in Tasks \cup {NoTask}
  <2> DEFINE S == {"others", "insert", "quota", "update"}
  <2>1. Moves(t, task[t].at, S) /\ task[t].at \in Inside
    <3>1. CASE Load(t)
      <4>1. \A own, room : [task[t] EXCEPT !.at = "others", !.own = own, !.room = room].at \in S
        BY <1>0 DEF TaskState
      <4>2. task[t].at = "load"
        BY <3>1 DEF Load, Continue
      <4> HIDE DEF S
      <4> QED
        BY <3>1, <4>1, <4>2, ContinueMoves DEF Load, Inside
    <3>2. CASE ReadQuota(t)
      <4>1. \A room : [task[t] EXCEPT !.at = "others", !.room = room].at \in S
        BY <1>0 DEF TaskState
      <4>2. task[t].at = "quota"
        BY <3>2 DEF ReadQuota, Continue
      <4> HIDE DEF S
      <4> QED
        BY <3>2, <4>1, <4>2, ContinueMoves DEF ReadQuota, Inside
    <3>3. CASE EditQuota(t)
      <4>1. [task[t] EXCEPT !.at = "update", !.room = 0].at \in S
        BY <1>0 DEF TaskState
      <4>2. task[t].at = "quota"
        BY <3>3 DEF EditQuota, Continue
      <4> HIDE DEF S
      <4> QED
        BY <3>3, <4>1, <4>2, ContinueMoves DEF EditQuota, Inside
    <3>4. CASE ReadOthers(t)
      <4> DEFINE x(G) == IF task[t].r = 0
                         THEN [task[t] EXCEPT !.at = "insert", !.want = G, !.room = 0]
                         ELSE [task[t] EXCEPT !.at = "quota", !.want = G]
      <4>1. \A G : x(G).at \in S
        BY <1>0 DEF TaskState
      <4>2. \E G : Continue(t, "others", x(G))
        BY <3>4 DEF ReadOthers
      <4>3. task[t].at = "others"
        BY <3>4 DEF ReadOthers, Continue
      <4> HIDE DEF S, x
      <4> QED
        BY <4>1, <4>2, <4>3, ContinueMoves DEF Inside
    <3> QED
      BY <1>5, <3>1, <3>2, <3>3, <3>4
  <2>2. lock' = lock
    BY <1>5 DEF Load, ReadQuota, EditQuota, ReadOthers
  <2> QED
    BY <2>1, <2>2, LockPut DEF Inside
<1>6. ASSUME NEW t \in Tasks, Insert(t) \/ SaveChanged(t) \/ Write(t) \/ SendCompletes(t)
      PROVE  LockHeld' /\ lock' \in Tasks \cup {NoTask}
  <2> DEFINE S == {"inserted", "write", "send", "save"}
  <2>1. Moves(t, task[t].at, S)
    <3>1. /\ \A at \in S : [task[t] EXCEPT !.at = at].at \in S
          /\ [task[t] EXCEPT !.at = "save", !.to = "completed"].at \in S
          /\ \A r : [Idle EXCEPT !.at = "inserted", !.r = r].at \in S
      BY <1>0 DEF TaskState, Idle
    <3>2. "write" \in S /\ "send" \in S
      OBVIOUS
    <3>3. \E from, x : Continue(t, from, x) /\ x.at \in S
      <4> HIDE DEF S
      <4> QED
        BY <1>6, <3>1, <3>2 DEF Insert, SaveChanged, Write, SendCompletes
    <3> HIDE DEF S
    <3>4. \E from : Moves(t, from, S)
      BY <3>3, ContinueMoves
    <3> QED
      BY <3>4 DEF Moves
  <2>2. lock' = lock
    BY <1>6 DEF Insert, SaveChanged, Write, SendCompletes
  <2> QED
    BY <2>1, <2>2, LockPut DEF Inside
<1>7. ASSUME NEW t \in Tasks, LoadInserted(t)
      PROVE  LockHeld' /\ lock' \in Tasks \cup {NoTask}
  <2> DEFINE x == IF task[t].r \in Stored
                  THEN [task[t] EXCEPT !.at = "send", !.to = st[task[t].r]] ELSE Idle
  <2>1. Continue(t, "inserted", x) /\ Unlock(t, x)
    BY <1>7 DEF LoadInserted
  <2>2. x.at \in {"send", "idle"}
    BY <1>0 DEF TaskState, Idle
  <2> HIDE DEF x
  <2>3. Moves(t, "inserted", {"send", "idle"}) /\ task'[t] = x
    BY <2>1, <2>2, ContinueMoves DEF Continue, SeriesTypeOK
  <2> QED
    BY <2>1, <2>3, LockPut DEF Inside
<1>8. ASSUME NEW t \in Tasks, NEW from, NEW s, Fits(s), SaveOver(t, from, s)
      PROVE  LockHeld' /\ lock' \in Tasks \cup {NoTask}
  <2>1. Moves(t, from, {"save", "complete", "idle"}) /\ task'[t] = AfterSave(s)
    BY <1>8, AfterSaveFits, ContinueMoves DEF SaveOver, Continue, SeriesTypeOK
  <2>2. Unlock(t, task'[t])
    BY <1>8, <2>1 DEF SaveOver
  <2> QED
    BY <2>1, <2>2, LockPut DEF Inside
<1>9. ASSUME NEW t \in Tasks, SaveUnchanged(t) \/ SendNothing(t) \/ SpawnAdd(t) \/ SendFails(t)
      PROVE  LockHeld' /\ lock' \in Tasks \cup {NoTask}
  <2>1. SaveOver(t, "save", task[t]) \/ SaveOver(t, "send", task[t])
    BY <1>9 DEF SaveUnchanged, SendNothing, SpawnAdd, SendFails
  <2> QED
    BY <1>8, <2>1 DEF TasksFit
<1>10. ASSUME NEW t \in Tasks, ApproveChildren(t) \/ CompleteRelated(t)
       PROVE  LockHeld' /\ lock' \in Tasks \cup {NoTask}
  <2>1. PICK S \in SUBSET Requests :
           \/ task[t].at = "approve" /\ SaveOver(t, "approve", [task[t] EXCEPT !.sweep = TRUE, !.todo = S])
           \/ task[t].at = "complete" /\ SaveOver(t, "complete", [task[t] EXCEPT !.todo = S])
    <3>1. CASE ApproveChildren(t)
      BY <3>1 DEF ApproveChildren, SaveOver, Continue, Stored
    <3>2. CASE CompleteRelated(t)
      BY <3>2 DEF CompleteRelated, SaveOver, Continue, Stored
    <3> QED
      BY <1>10, <3>1, <3>2
  <2>2. Fits(task[t])
    BY DEF TasksFit
  <2>3. task[t].at = "approve" => Fits([task[t] EXCEPT !.sweep = TRUE, !.todo = S])
    BY <2>2 DEF Fits, TaskState, HasRequest, Inside
  <2>4. task[t].at = "complete" => Fits([task[t] EXCEPT !.todo = S])
    BY <2>2 DEF Fits, TaskState, HasRequest, Inside
  <2> QED
    BY <1>8, <2>1, <2>3, <2>4
<1>11. ASSUME NEW t \in Tasks, Delete(t)
       PROVE  LockHeld' /\ lock' \in Tasks \cup {NoTask}
  <2>1. Continue(t, "delete", Idle) /\ lock' = lock /\ Idle.at \in {"idle"}
    BY <1>11 DEF Delete, Idle
  <2>2. Moves(t, "delete", {"idle"})
    BY <2>1, ContinueMoves
  <2> QED
    BY <2>1, <2>2, LockPut DEF Inside
<1>12. ASSUME NEW t \in Tasks, Start(t)
       PROVE  LockHeld' /\ lock' \in Tasks \cup {NoTask}
  <2>1. CASE \E r \in Requests : Approve(t, r) \/ Decline(t, r) \/ Retry(t, r) \/ Remove(t, r)
    BY <1>3, <2>1
  <2>2. ASSUME NEW first \in {"approve", "complete"}, SaveMedia(t, first)
        PROVE  LockHeld' /\ lock' \in Tasks \cup {NoTask}
    <3>1. Continue(t, "idle", [Idle EXCEPT !.at = first]) /\ lock' = lock
      BY <2>2 DEF SaveMedia
    <3>2. [Idle EXCEPT !.at = first].at \in {"approve", "complete"}
      BY DEF Idle
    <3>3. Moves(t, "idle", {"approve", "complete"})
      BY <3>1, <3>2, ContinueMoves
    <3> QED
      BY <3>1, <3>3, LockPut DEF Inside
  <2> QED
    BY <1>2, <1>12, <2>1, <2>2 DEF Start
<1>13. ASSUME NEW t \in Tasks, Drop(t)
       PROVE  LockHeld' /\ lock' \in Tasks \cup {NoTask}
  <2>1. /\ task'[t].at = "idle" /\ \A q \in Tasks : q # t => task'[q] = task[q]
        /\ lock' = IF lock = t THEN NoTask ELSE lock
    BY <1>13 DEF Drop, Idle, SeriesTypeOK
  <2> QED
    BY <2>1, SeriesAssumption DEF LockHeld, SeriesTypeOK, Inside
<1>14. CASE Restart
  <2>1. lock' = NoTask /\ \A q \in Tasks : task'[q].at = "idle"
    BY <1>14 DEF Restart, Idle
  <2> QED
    BY <2>1, SeriesAssumption DEF LockHeld, Inside
<1> QED
  BY <1>1, <1>4, <1>5, <1>6, <1>7, <1>9, <1>10, <1>11, <1>12, <1>13, <1>14
     DEF SeriesNext, TaskStep, LockedStep, SaveStep, AddSucceeds, AddFails, seriesVars

-----------------------------------------------------------------------------
(* What a creation or edit finds out *)

Learns(t) == TakeLock(t) \/ Load(t) \/ ReadQuota(t) \/ ReadOthers(t) \/ EditQuota(t)

LEMMA PaidIsCounted == ASSUME NEW u
                       PROVE  /\ PaidBy(u, Counted, owner) = Paying(u) \ revived
                              /\ Cost(u, Counted, owner, claims)
                                   = Cardinality(Rows(Paying(u) \ revived))
<1>1. PaidBy(u, Counted, owner) = Paying(u) \ revived
  BY DEF PaidBy, Counted, Paying
<1>2. Rows(Paying(u) \ revived) = RowsOf(Paying(u) \ revived, claims)
  BY DEF Rows, RowsOf
<1> QED
  BY <1>1, <1>2 DEF Cost

\* The quota the code reads counts the requests that were revived as well.
LEMMA UsedCovers == ASSUME NEW u
                    PROVE  /\ Cost(u, Counted, owner, claims) \in Nat /\ Used(u) \in Nat
                           /\ Cost(u, Counted, owner, claims) <= Used(u)
<1>1. Rows(Paying(u)) = RowsOf(Paying(u), claims)
  BY DEF Rows, RowsOf
<1>2. Paying(u) \in SUBSET Requests /\ PaidBy(u, Counted, owner) \in SUBSET Paying(u)
  BY PaidIsCounted DEF Paying, Stored
<1>3. PaidBy(u, Counted, owner) \in SUBSET Requests
  BY <1>2
<1> QED
  BY <1>1, <1>2, <1>3, RowsFinite, RowsGrow DEF Cost, Used

LEMMA LearnsKnows ==
    ASSUME SeriesInv, NEW t \in Tasks, Learns(t)
    PROVE  Knows(task'[t], Stored, Claiming, Counted, owner, claims)
<1> DEFINE s == task[t]
<1>1. Fits(s) /\ Knows(s, Stored, Claiming, Counted, owner, claims) /\ s \in TaskState
  BY DEF SeriesInv, TasksFit, TasksKnow, SeriesTypeOK
<1>2. 0 \notin Requests /\ Stored \subseteq Requests
  BY RequestsFinite DEF Stored
<1>3. \A from, x : Continue(t, from, x) => task'[t] = x /\ s.at = from
  BY DEF Continue, SeriesInv, SeriesTypeOK
<1>4. CASE TakeLock(t)
  <2>1. PICK body \in Bodies : task'[t] = body
    BY <1>3, <1>4 DEF TakeLock
  <2>2. (body.at = "quota" /\ body.r = 0) \/ body.at = "load"
    <3>1. \A u, S : Creation(u, S).at = "quota" /\ Creation(u, S).r = 0
      BY DEF Creation, Idle
    <3>2. \A r, u, S : Edition(r, u, S).at = "load"
      BY DEF Edition, Idle
    <3> QED
      BY <3>1, <3>2 DEF Bodies
  <2>3. 0 \notin Stored /\ 0 \notin Claiming
    BY <1>2 DEF Claiming, Open
  <2> QED
    BY <2>1, <2>2, <2>3 DEF Knows
<1>5. CASE Load(t)
  <2> DEFINE room == IF owner[s.r] = s.who THEN Cardinality(claims[s.r]) ELSE 0
             x == [s EXCEPT !.at = "others", !.own = claims[s.r], !.room = room]
  <2>1. task'[t] = x /\ s.r \in Stored
    BY <1>3, <1>5 DEF Load
  <2>2. /\ x.at = "others" /\ x.r = s.r /\ x.own = claims[s.r] /\ x.room = room /\ x.who = s.who
    BY <1>1 DEF TaskState
  <2>3. s.r # 0
    BY <1>2, <2>1
  <2> HIDE DEF x
  <2> QED
    BY <2>1, <2>2, <2>3 DEF Knows
<1>6. CASE ReadQuota(t)
  <2> DEFINE x == [s EXCEPT !.at = "others", !.room = Remaining(s.who)]
  <2>1. task'[t] = x /\ s.r = 0 /\ Remaining(s.who) > 0
    BY <1>3, <1>6 DEF ReadQuota
  <2>2. x.at = "others" /\ x.r = 0 /\ x.who = s.who /\ x.room = Remaining(s.who)
    BY <1>1, <2>1 DEF TaskState
  <2> HIDE DEF x
  <2>3. Used(s.who) < Limit /\ Remaining(s.who) = Limit - Used(s.who)
    BY <2>1, UsedCovers DEF Remaining
  <2>4. x.room + Cost(x.who, Counted, owner, claims) <= Limit
    BY <2>2, <2>3, UsedCovers, SeriesAssumption
  <2> QED
    BY <1>2, <2>1, <2>2, <2>4 DEF Knows
<1>7. CASE ReadOthers(t)
  <2>1. PICK covered \in SUBSET (s.want \ s.own) :
          LET G == s.want \ (covered \cup Elsewhere(s.r)) IN
          /\ s.r = 0 => Cardinality(G) <= s.room
          /\ Continue(t, "others", IF s.r = 0 THEN [s EXCEPT !.at = "insert", !.want = G, !.room = 0]
                                   ELSE [s EXCEPT !.at = "quota", !.want = G])
    BY <1>7 DEF ReadOthers
  <2> DEFINE G == s.want \ (covered \cup Elsewhere(s.r))
             x == [s EXCEPT !.at = "insert", !.want = G, !.room = 0]
             y == [s EXCEPT !.at = "quota", !.want = G]
  <2>2. \A o \in Claiming \ {s.r} : G \cap claims[o] = {}
    BY DEF Elsewhere, Claiming
  <2>3. s.at = "others" /\ G \in SUBSET Seasons
    BY <1>1, <1>3, <2>1 DEF TaskState
  <2>4. CASE s.r = 0
    <3>1. task'[t] = x /\ Cardinality(G) <= s.room
      BY <1>3, <2>1, <2>4
    <3>2. x.at = "insert" /\ x.who = s.who /\ x.want = G
      BY <1>1 DEF TaskState
    <3> HIDE DEF x
    <3>3. s.room + Cost(s.who, Counted, owner, claims) <= Limit /\ s.room \in Nat
      BY <1>1, <2>3, <2>4 DEF Knows, TaskState
    <3>4. Cardinality(G) \in Nat
      BY <2>3, SeasonsFinite
    <3>5. Cardinality(G) + Cost(s.who, Counted, owner, claims) <= Limit
      BY <3>1, <3>3, <3>4, UsedCovers, SeriesAssumption
    <3>6. \A o \in Claiming : G \cap claims[o] = {}
      BY <1>2, <2>2, <2>4 DEF Claiming, Open
    <3> HIDE DEF G
    <3> QED
      BY <3>1, <3>2, <3>5, <3>6 DEF Knows
  <2>5. CASE s.r # 0
    <3>1. task'[t] = y
      BY <1>3, <2>1, <2>5
    <3>2. /\ y.at = "quota" /\ y.r = s.r /\ y.who = s.who /\ y.want = G
          /\ y.own = s.own /\ y.room = s.room
      BY <1>1 DEF TaskState
    <3> HIDE DEF y, G
    <3> QED
      BY <1>1, <2>2, <2>3, <3>1, <3>2 DEF Knows
  <2> QED
    BY <2>4, <2>5
<1>8. CASE EditQuota(t)
  <2> DEFINE x == [s EXCEPT !.at = "update", !.room = 0]
             r == s.r
  <2>1. /\ task'[t] = x /\ s.at = "quota"
        /\ Cardinality(s.want) <= Remaining(s.who) + s.room
    BY <1>3, <1>8 DEF EditQuota
  <2>2. x.at = "update" /\ x.r = s.r /\ x.who = s.who /\ x.want = s.want /\ x.own = s.own
    BY <1>1 DEF TaskState
  <2> HIDE DEF x
  <2>3. ASSUME r \in Counted
        PROVE  Cardinality(s.want) + Cost(s.who, Counted \ {r}, owner, claims) <= Limit
    <3> DEFINE rest == Cost(s.who, Counted \ {r}, owner, claims)
               all == Cost(s.who, Counted, owner, claims)
    <3>1. /\ r \in Stored /\ r \in Requests /\ claims[r] \in SUBSET Seasons
          /\ Counted \in SUBSET Requests /\ Counted \ {r} \in SUBSET Requests
          /\ Counted \ {r} \in SUBSET Counted
      BY <2>3 DEF Counted, Stored, SeriesInv, SeriesTypeOK
    <3>2. /\ rest \in Nat /\ all \in Nat /\ Used(s.who) \in Nat /\ all <= Used(s.who)
          /\ Cardinality(s.want) \in Nat /\ Cardinality(claims[r]) \in Nat /\ Limit \in Nat
      BY <1>1, <3>1, CostNat, UsedCovers, SeasonsFinite, SeriesAssumption DEF TaskState
    <3>3. s.who \in Users
      BY <1>1, <2>1 DEF Fits, Inside
    <3>4. all <= Limit
      BY <3>3 DEF SeriesInv, Booked
    <3>5. /\ Used(s.who) < Limit => Remaining(s.who) = Limit - Used(s.who)
          /\ ~(Used(s.who) < Limit) => Remaining(s.who) = 0
      BY DEF Remaining
    <3>6. CASE owner[r] = s.who
      <4>1. s.room = Cardinality(claims[r])
        BY <1>1, <2>1, <3>1, <3>6 DEF Knows
      <4>2. all = rest + Cardinality(claims[r])
        <5>1. PaidBy(s.who, Counted, owner) = PaidBy(s.who, Counted \ {r}, owner) \cup {r}
          BY <2>3, <3>6 DEF PaidBy
        <5>2. /\ PaidBy(s.who, Counted \ {r}, owner) \in SUBSET Requests
              /\ r \in Requests \ PaidBy(s.who, Counted \ {r}, owner)
          BY <3>1 DEF PaidBy
        <5>3. Cardinality(RowsOf(PaidBy(s.who, Counted \ {r}, owner) \cup {r}, claims))
                = Cardinality(RowsOf(PaidBy(s.who, Counted \ {r}, owner), claims))
                    + Cardinality(claims[r])
          BY <3>1, <5>2, RowsAdd
        <5> QED
          BY <5>1, <5>3 DEF Cost
      <4> HIDE DEF rest, all
      <4>3. Cardinality(s.want) + rest <= Limit
        BY <2>1, <3>2, <3>4, <3>5, <4>1, <4>2
      <4> QED
        BY <4>3 DEF rest
    <3>7. CASE owner[r] # s.who
      <4>1. s.room = 0
        BY <1>1, <2>1, <3>1, <3>7 DEF Knows
      <4>2. rest <= all
        BY <3>1, CostGrows
      <4> HIDE DEF rest, all
      <4>3. Cardinality(s.want) + rest <= Limit
        BY <2>1, <3>2, <3>4, <3>5, <4>1, <4>2
      <4> QED
        BY <4>3 DEF rest
    <3> QED
      BY <3>6, <3>7
  <2>4. /\ s.r \in Stored => s.own = claims[s.r]
        /\ s.r \in Claiming => \A o \in Claiming \ {s.r} : s.want \cap claims[o] = {}
    BY <1>1, <2>1 DEF Knows
  <2> QED
    BY <2>1, <2>2, <2>3, <2>4 DEF Knows
<1> QED
  BY <1>4, <1>5, <1>6, <1>7, <1>8 DEF Learns

-----------------------------------------------------------------------------
(* The invariant *)

\* One task moves at a time, and learns something or is outside the lock's care,
\* where those that end are too.
Moved == \/ \A q \in Tasks : task'[q] = task[q] \/ task'[q].at \notin Inside
         \/ \E t \in Tasks : /\ \A q \in Tasks : q # t => task'[q] = task[q]
                             /\ Learns(t) \/ task'[t].at \notin Inside

LEMMA StepMoves == SeriesTypeOK /\ TasksFit /\ [SeriesNext]_seriesVars => Moved
<1> SUFFICES ASSUME SeriesTypeOK, TasksFit, [SeriesNext]_seriesVars
             PROVE  Moved
  OBVIOUS
<1>1. CASE UNCHANGED task
  BY <1>1 DEF Moved
<1>2. ASSUME NEW t \in Tasks, NEW from, NEW x, Continue(t, from, x), x.at \notin Inside
      PROVE  Moved
  BY <1>2 DEF Moved, Continue, SeriesTypeOK
<1>3. ASSUME NEW t \in Tasks, Learns(t)
      PROVE  Moved
  <2>1. \A q \in Tasks : q # t => task'[q] = task[q]
    BY <1>3 DEF Learns, TakeLock, Load, ReadQuota, ReadOthers, EditQuota, Continue, SeriesTypeOK
  <2> QED
    BY <1>3, <2>1 DEF Moved
<1>4. Idle.at \notin Inside
  BY DEF Idle, Inside
<1>5. ASSUME NEW t \in Tasks
      PROVE  task[t] \in TaskState /\ Fits(task[t])
  BY DEF SeriesTypeOK, TasksFit
<1>6. ASSUME NEW t \in Tasks, NEW r \in Requests, Approve(t, r) \/ Decline(t, r) \/ Retry(t, r) \/ Remove(t, r)
      PROVE  Moved
  <2>1. /\ \A to : [Idle EXCEPT !.at = "save", !.r = r, !.to = to].at \notin Inside
        /\ [Idle EXCEPT !.at = "delete", !.r = r].at \notin Inside
    BY DEF Idle, Inside
  <2> QED
    BY <1>2, <1>6, <2>1 DEF Approve, Decline, Retry, SetStatus, Remove
<1>7. ASSUME NEW t \in Tasks, NEW first \in {"approve", "complete"}, SaveMedia(t, first)
      PROVE  Moved
  <2>1. [Idle EXCEPT !.at = first].at \notin Inside
    BY DEF Idle, Inside
  <2> QED
    BY <1>2, <1>7, <2>1 DEF SaveMedia
<1>8. ASSUME NEW t \in Tasks, Refuse(t) \/ Update(t) \/ Delete(t)
      PROVE  Moved
  <2>1. Continue(t, task[t].at, Idle)
    BY <1>8 DEF Refuse, Update, Delete, Continue
  <2> QED
    BY <1>2, <1>4, <2>1
<1>9. ASSUME NEW t \in Tasks, Insert(t) \/ SaveChanged(t) \/ Write(t) \/ SendCompletes(t)
      PROVE  Moved
  <2>1. /\ \A at \in {"write", "send"} : [task[t] EXCEPT !.at = at].at \notin Inside
        /\ [task[t] EXCEPT !.at = "save", !.to = "completed"].at \notin Inside
        /\ \A r : [Idle EXCEPT !.at = "inserted", !.r = r].at \notin Inside
    BY <1>5 DEF TaskState, Idle, Inside
  <2>2. \E from, x : Continue(t, from, x) /\ x.at \notin Inside
    BY <1>9, <2>1 DEF Insert, SaveChanged, Write, SendCompletes
  <2> QED
    BY <1>2, <2>2
<1>10. ASSUME NEW t \in Tasks, LoadInserted(t)
       PROVE  Moved
  <2> DEFINE x == IF task[t].r \in Stored
                  THEN [task[t] EXCEPT !.at = "send", !.to = st[task[t].r]] ELSE Idle
  <2>1. Continue(t, "inserted", x)
    BY <1>10 DEF LoadInserted
  <2>2. x.at \notin Inside
    BY <1>4, <1>5 DEF TaskState, Inside
  <2> HIDE DEF x
  <2> QED
    BY <1>2, <2>1, <2>2
<1>11. ASSUME NEW t \in Tasks, NEW from, NEW s, Fits(s), SaveOver(t, from, s)
       PROVE  Moved
  <2>1. AfterSave(s).at \notin Inside
    BY <1>11, AfterSaveFits DEF Inside
  <2> QED
    BY <1>2, <1>11, <2>1 DEF SaveOver
<1>12. ASSUME NEW t \in Tasks, SaveUnchanged(t) \/ SendNothing(t) \/ SpawnAdd(t) \/ SendFails(t)
       PROVE  Moved
  <2>1. SaveOver(t, "save", task[t]) \/ SaveOver(t, "send", task[t])
    BY <1>12 DEF SaveUnchanged, SendNothing, SpawnAdd, SendFails
  <2> QED
    BY <1>5, <1>11, <2>1
<1>13. ASSUME NEW t \in Tasks, ApproveChildren(t) \/ CompleteRelated(t)
       PROVE  Moved
  <2>1. PICK S \in SUBSET Requests :
           \/ task[t].at = "approve" /\ SaveOver(t, "approve", [task[t] EXCEPT !.sweep = TRUE, !.todo = S])
           \/ task[t].at = "complete" /\ SaveOver(t, "complete", [task[t] EXCEPT !.todo = S])
    <3>1. CASE ApproveChildren(t)
      BY <3>1 DEF ApproveChildren, SaveOver, Continue, Stored
    <3>2. CASE CompleteRelated(t)
      BY <3>2 DEF CompleteRelated, SaveOver, Continue, Stored
    <3> QED
      BY <1>13, <3>1, <3>2
  <2>2. task[t].at = "approve" => Fits([task[t] EXCEPT !.sweep = TRUE, !.todo = S])
    BY <1>5 DEF Fits, TaskState, HasRequest, Inside
  <2>3. task[t].at = "complete" => Fits([task[t] EXCEPT !.todo = S])
    BY <1>5 DEF Fits, TaskState, HasRequest, Inside
  <2> QED
    BY <1>11, <2>1, <2>2, <2>3
<1>14. ASSUME NEW t \in Tasks, Start(t)
       PROVE  Moved
  BY <1>3, <1>6, <1>7, <1>14 DEF Start, Learns
<1>15. CASE Ending
  BY <1>4, <1>15, EndingIdles DEF Moved
<1> QED
  BY <1>1, <1>3, <1>8, <1>9, <1>10, <1>12, <1>13, <1>14, <1>15
     DEF SeriesNext, TaskStep, LockedStep, SaveStep, AddSucceeds, AddFails, seriesVars, Learns,
         Ending

LEMMA Subsets == /\ Stored \in SUBSET Requests
                 /\ Claiming \in SUBSET Stored
                 /\ Counted \in SUBSET Stored
BY DEF Stored, Claiming, Counted, Open

LEMMA PrimedSubsets == /\ Claiming' \in SUBSET Stored'
                       /\ Counted' \in SUBSET Stored'
BY DEF Claiming, Counted, Open

\* The account, and what tasks know of it, after any step.
LEMMA KnowledgeStays ==
    SeriesInv /\ [SeriesNext]_seriesVars => RowTypes' /\ TasksKnow'
                                              /\ Booked(Claiming', Counted', owner', claims')
<1> SUFFICES ASSUME SeriesInv, [SeriesNext]_seriesVars
             PROVE  RowTypes' /\ TasksKnow' /\ Booked(Claiming', Counted', owner', claims')
  OBVIOUS
<1>1. /\ RowTypes /\ TasksFit /\ TasksKnow /\ SeriesTypeOK /\ LockHeld
      /\ Booked(Claiming, Counted, owner, claims)
  BY DEF SeriesInv, SeriesTypeOK, RowTypes
<1>2. RowStep /\ Moved
  BY <1>1, RowSteps, StepMoves
<1>3. ASSUME RowTypes' /\ RowShrink
      PROVE  RowTypes' /\ TasksKnow' /\ Booked(Claiming', Counted', owner', claims')
  <2>1. Booked(Claiming', Counted', owner', claims')
    BY <1>1, <1>3, Subsets, PrimedSubsets, BookedShrinks DEF RowShrink
  <2>2. ASSUME NEW t \in Tasks, task'[t] = task[t] \/ task'[t].at \notin Inside \/ Learns(t)
        PROVE  Knows(task'[t], Stored', Claiming', Counted', owner', claims')
    <3>1. CASE task'[t].at \notin Inside
      BY <3>1, KnowsOutside DEF Inside
    <3>2. CASE task'[t] = task[t]
      <4>1. Fits(task[t]) /\ Knows(task[t], Stored, Claiming, Counted, owner, claims)
        BY <1>1 DEF TasksFit, TasksKnow
      <4>2. Knows(task[t], Stored', Claiming', Counted', owner', claims')
        BY <1>3, <4>1, Subsets, PrimedSubsets, KnowsShrinks DEF RowShrink
      <4> QED
        BY <3>2, <4>2
    <3>3. CASE Learns(t)
      <4>1. Knows(task'[t], Stored, Claiming, Counted, owner, claims)
        BY <3>3, LearnsKnows
      <4>2. UNCHANGED rowVars
        BY <3>3 DEF Learns, TakeLock, Load, ReadQuota, ReadOthers, EditQuota
      <4>3. Stored' = Stored /\ Claiming' = Claiming /\ Counted' = Counted
        BY <4>2 DEF rowVars, Stored, Claiming, Counted, Open
      <4> QED
        BY <4>1, <4>2, <4>3 DEF rowVars
    <3> QED
      BY <2>2, <3>1, <3>2, <3>3
  <2>3. TasksKnow'
    BY <1>2, <2>2 DEF TasksKnow, Moved
  <2> QED
    BY <1>3, <2>1, <2>3
<1>4. ASSUME NEW t \in Tasks, Insert(t) \/ Update(t)
      PROVE  RowTypes' /\ TasksKnow' /\ Booked(Claiming', Counted', owner', claims')
  <2>1. RowTypes' /\ Booked(Claiming', Counted', owner', claims')
    BY <1>1, <1>4, InsertBooks, UpdateBooks
  <2>2. task[t].at \in Inside /\ task'[t].at \notin Inside
    <3>1. /\ \A r : [Idle EXCEPT !.at = "inserted", !.r = r].at \notin Inside
          /\ Idle.at \notin Inside
      BY DEF Idle, Inside
    <3>2. \A from, x : Continue(t, from, x) => task'[t] = x /\ task[t].at = from
      BY <1>1 DEF Continue, SeriesTypeOK
    <3> QED
      BY <1>4, <3>1, <3>2 DEF Insert, Update, Inside
  <2>3. \A q \in Tasks : q # t => task'[q] = task[q]
    BY <1>1, <1>4 DEF Insert, Update, Continue, SeriesTypeOK
  <2>4. \A q \in Tasks : task'[q].at \notin Inside
    BY <1>1, <2>2, <2>3 DEF LockHeld
  <2>5. TasksKnow'
    BY <2>4, KnowsOutside DEF TasksKnow, Inside
  <2> QED
    BY <2>1, <2>5
<1>5. CASE UNCHANGED rowVars
  BY <1>1, <1>3, <1>5, SameShrinks
<1>6. ASSUME NEW r \in Requests, NEW to \in RequestStatus, SetRow(r, to)
      PROVE  RowTypes' /\ RowShrink
  BY <1>1, <1>6, SetRowShrinks
<1>7. ASSUME NEW t \in Tasks, Delete(t)
      PROVE  RowTypes' /\ RowShrink
  BY <1>1, <1>7, DeleteShrinks
<1> QED
  BY <1>2, <1>3, <1>4, <1>5, <1>6, <1>7 DEF RowStep

LEMMA SeriesInvInductive == SeriesSpec => []SeriesInv
<1>1. SeriesInit => SeriesInv
  <2> SUFFICES ASSUME SeriesInit PROVE SeriesInv
    OBVIOUS
  <2>1. Stored = {} /\ Claiming = {} /\ Counted = {}
    BY DEF SeriesInit, Stored, Claiming, Counted, Open, RequestStatus
  <2>2. SeriesTypeOK
    BY <2>1, IdleFits DEF SeriesInit, SeriesTypeOK, Fits
  <2>3. TasksFit
    BY IdleFits DEF SeriesInit, TasksFit
  <2>4. LockHeld
    BY SeriesAssumption DEF SeriesInit, LockHeld, Idle, Inside
  <2>5. TasksKnow
    <3>1. Idle.at \notin Inside
      BY DEF Idle, Inside
    <3> QED
      BY <3>1, KnowsOutside DEF SeriesInit, TasksKnow, Inside
  <2>6. Booked(Claiming, Counted, owner, claims)
    <3>1. \A u : RowsOf(PaidBy(u, Counted, owner), claims) = {}
      BY <2>1 DEF RowsOf, PaidBy
    <3>2. Cardinality({}) = 0 /\ 0 <= Limit
      BY FS_EmptySet, SeriesAssumption
    <3> QED
      BY <2>1, <3>1, <3>2 DEF Booked, Cost
  <2> QED
    BY <2>2, <2>3, <2>4, <2>5, <2>6 DEF SeriesInv
<1>2. SeriesInv /\ [SeriesNext]_seriesVars => SeriesInv'
  <2> SUFFICES ASSUME SeriesInv, [SeriesNext]_seriesVars PROVE SeriesInv'
    OBVIOUS
  <2>1. SeriesTypeOK /\ TasksFit /\ LockHeld
    BY DEF SeriesInv
  <2>2. TasksFit' /\ task' \in [Tasks -> TaskState]
    BY <2>1, FitsStep
  <2>3. LockHeld' /\ lock' \in Tasks \cup {NoTask}
    BY <2>1, LockStepHeld
  <2>4. RowTypes' /\ TasksKnow' /\ Booked(Claiming', Counted', owner', claims')
    BY KnowledgeStays
  <2>5. adding' \subseteq Requests
    <3>1. CASE adding' \subseteq adding
      BY <2>1, <3>1 DEF SeriesTypeOK
    <3>2. ASSUME NEW t \in Tasks, SpawnAdd(t)
          PROVE  adding' \subseteq Requests
      BY <2>1, <3>2 DEF SpawnAdd, SaveOver, Continue, TasksFit, Fits, HasRequest
    <3> QED
      BY <3>1, <3>2
         DEF SeriesNext, Start, TaskStep, LockedStep, SaveStep, TakeLock, Approve, Decline, Retry,
             SetStatus, Remove, SaveMedia, Refuse, Load, ReadQuota, ReadOthers, EditQuota, Insert,
             LoadInserted, Update, SaveUnchanged, SaveChanged, Write, SendNothing, SendCompletes,
             SendFails, Delete, ApproveChildren, CompleteRelated, AddSucceeds, AddFails, seriesVars,
             Drop, Restart
  <2>6. SeriesTypeOK'
    BY <2>2, <2>3, <2>4, <2>5 DEF SeriesTypeOK, RowTypes
  <2> QED
    BY <2>2, <2>3, <2>4, <2>6 DEF SeriesInv
<1> QED
  BY <1>1, <1>2, PTL DEF SeriesSpec

\* For all constants: what handlers and rows of series requests look like
\* (routes/requestcreate.rs, requestedit.rs, lifecycle.rs).
THEOREM SeriesTypeCorrect == SeriesSpec => []SeriesTypeOK
BY SeriesInvInductive, PTL DEF SeriesInv

\* For every number of handlers, REQUEST_LOCK is with the creation or edit that
\* is under way, and is given back however it ends (routes/requestcreate.rs,
\* `create`; routes/requestedit.rs, `edit`).
THEOREM LockIsHeld == SeriesSpec => []LockHeldThroughout
<1>1. SeriesInv => LockHeldThroughout
  BY SeriesAssumption DEF SeriesInv, LockHeld, LockHeldThroughout, SeriesTypeOK
<1> QED
  BY <1>1, SeriesInvInductive, PTL

\* For every number of requests and seasons, no season is claimed by two open
\* requests (`plan_seasons`, `plan_season_edit` and the writes that follow).
THEOREM ClaimsAreDisjoint == SeriesSpec => []ClaimedOnce
<1>1. SeriesInv => ClaimedOnce
  BY DEF SeriesInv, Booked, Claiming, ClaimedOnce
<1> QED
  BY <1>1, SeriesInvInductive, PTL

\* For every limit, creations and edits keep every user within the quota
\* (`quotas`, `quota_checks` and `edit_exceeds`).
THEOREM QuotasAreKept == SeriesSpec => []QuotaKept
<1>1. SeriesInv => QuotaKept
  BY PaidIsCounted DEF SeriesInv, Booked, QuotaKept
<1> QED
  BY <1>1, SeriesInvInductive, PTL

-----------------------------------------------------------------------------
(* The book of SeasonLedger *)

Entries == [r \in Requests |-> Entry(r)]

LEMMA LedgerCardinality == ASSUME NEW S PROVE Ledger!Cardinality(S) = Cardinality(S)
BY DEF Ledger!Cardinality, Cardinality

LEMMA EntryCases ==
    /\ \A r \in Counted : Entry(r) = [who |-> owner[r], seasons |-> claims[r], open |-> r \in Open]
    /\ \A r : r \notin Counted => Entry(r) = Ledger!Blank
BY DEF Entry, Counted, Ledger!Blank

\* What others claim and what else is paid, in the book and in the rows.
LEMMA BookReads ==
    ASSUME RowTypes, NEW r \in Requests, NEW u \in Users
    PROVE  /\ Ledger!Claimed(r) = UNION {claims[o] : o \in Claiming \ {r}}
           /\ Ledger!Paid(r, u) = Cost(u, Counted \ {r}, owner, claims)
<1>1. Counted \subseteq Requests /\ Counted \subseteq Stored /\ Claiming = Counted \cap Open
  BY DEF Counted, Claiming, Stored, Open, Closed
<1>2. \A o \in Counted : /\ Entries[o].who = owner[o] /\ Entries[o].seasons = claims[o]
                         /\ Entries[o].open <=> o \in Open
  <2> SUFFICES ASSUME NEW o \in Counted
               PROVE  /\ Entries[o].who = owner[o] /\ Entries[o].seasons = claims[o]
                      /\ Entries[o].open <=> o \in Open
    OBVIOUS
  <2> DEFINE e == [who |-> owner[o], seasons |-> claims[o], open |-> o \in Open]
  <2>1. Entries[o] = e
    BY <1>1, EntryCases DEF Entries
  <2>2. e.who = owner[o] /\ e.seasons = claims[o] /\ (e.open <=> o \in Open)
    BY Zenon
  <2> HIDE DEF e
  <2> QED
    BY <2>1, <2>2
<1>3. \A o \in Requests \ Counted : /\ Entries[o].who = NoUser /\ Entries[o].seasons = {}
                                    /\ ~Entries[o].open /\ Entries[o] = Ledger!Blank
  BY EntryCases DEF Entries, Ledger!Blank
<1>4. {o \in Requests : Entries[o] # Ledger!Blank} = Counted
  <2>1. \A o \in Counted : Entries[o] # Ledger!Blank
    BY <1>1, <1>2 DEF Ledger!Blank, RowTypes
  <2> QED
    BY <1>1, <1>3, <2>1
<1>5. Ledger!Entered = Counted
  BY <1>4 DEF Ledger!Entered, Entries
<1>6. {q \in Counted : q # r /\ Entries[q].open} = Claiming \ {r}
  BY <1>1, <1>2
<1>7. Ledger!Claimed(r) = UNION {claims[o] : o \in Claiming \ {r}}
  <2>1. Ledger!Claimed(r)
          = UNION {Entries[o].seasons : o \in {q \in Counted : q # r /\ Entries[q].open}}
    BY <1>5 DEF Ledger!Claimed, Entries
  <2> QED
    BY <1>1, <1>2, <1>6, <2>1
<1>8. {p \in (Requests \ {r}) \X Seasons : Entries[p[1]].who = u /\ p[2] \in Entries[p[1]].seasons}
        = RowsOf(PaidBy(u, Counted \ {r}, owner), claims)
  BY <1>1, <1>2, <1>3, SeriesAssumption DEF RowsOf, PaidBy
<1>9. Ledger!Paid(r, u) = Cost(u, Counted \ {r}, owner, claims)
  BY <1>8, LedgerCardinality DEF Ledger!Paid, Entries, Cost
<1> QED
  BY <1>7, <1>9

BookStep == [Ledger!Next]_Entries

LEMMA EntriesPut == ASSUME NEW r \in Requests, NEW x, Entry(r)' = x,
                           \A o \in Requests \ {r} : Entry(o)' = Entry(o)
                    PROVE  Entries' = [Entries EXCEPT ![r] = x]
<1>1. \A o \in Requests : Entries'[o] = IF o = r THEN x ELSE Entries[o]
  BY DEF Entries
<1> QED
  BY <1>1 DEF Entries

LEMMA SetOpen == ASSUME NEW u, NEW S, NEW open, NEW no, NEW e,
                        e = [who |-> u, seasons |-> S, open |-> open]
                 PROVE  [e EXCEPT !.open = no] = [who |-> u, seasons |-> S, open |-> no]
OBVIOUS

\* A changed entry is settled or struck.
LEMMA ShrinkIsBooked ==
    ASSUME RowTypes, NEW r \in Requests,
           \A o \in Requests \ {r} : Entry(o)' = Entry(o),
           \/ r \notin Counted'
           \/ /\ r \in Counted /\ r \in Counted' /\ (r \in Open' => r \in Open)
              /\ owner'[r] = owner[r] /\ claims'[r] = claims[r]
    PROVE  BookStep
<1>1. CASE r \notin Counted'
  <2>1. Entry(r)' = Ledger!Blank
    BY <1>1 DEF Entry, Counted, Ledger!Blank
  <2>2. Entries' = [Entries EXCEPT ![r] = Ledger!Blank]
    BY <2>1, EntriesPut
  <2>3. Ledger!Strike(r)
    BY <2>2 DEF Ledger!Strike, Entries
  <2> QED
    BY <2>3 DEF BookStep, Ledger!Next, Entries
<1>2. CASE /\ r \in Counted /\ r \in Counted' /\ (r \in Open' => r \in Open)
           /\ owner'[r] = owner[r] /\ claims'[r] = claims[r]
  <2>1. Entry(r) = [who |-> owner[r], seasons |-> claims[r], open |-> r \in Open]
    BY <1>2, EntryCases
  <2>2. Entry(r)' = [who |-> owner'[r], seasons |-> claims'[r], open |-> r \in Open']
    BY <1>2 DEF Entry, Counted
  <2>3. CASE r \in Open' <=> r \in Open
    <3>1. Entry(r)' = Entry(r)
      BY <1>2, <2>1, <2>2, <2>3
    <3>2. Entries' = Entries
      BY <3>1 DEF Entries
    <3> QED
      BY <3>2 DEF BookStep
  <2>4. CASE r \in Open /\ r \notin Open'
    <3> DEFINE old == r \in Open
               new == r \in Open'
               no == FALSE
    <3>1. /\ Entry(r) = [who |-> owner[r], seasons |-> claims[r], open |-> old]
          /\ Entry(r)' = [who |-> owner[r], seasons |-> claims[r], open |-> new]
      BY <1>2, <2>1, <2>2
    <3>2. new = no
      BY <2>4
    <3> HIDE DEF old, new, no
    <3>3. Entry(r)' = [Entry(r) EXCEPT !.open = no]
      BY <3>1, <3>2, SetOpen
    <3>4. Entries' = [Entries EXCEPT ![r] = [Entries[r] EXCEPT !.open = no]]
      BY <3>3, EntriesPut DEF Entries
    <3>5. Entries' = [Entries EXCEPT ![r].open = no]
      BY <3>4
    <3>6. Ledger!Settle(r)
      BY <3>5 DEF Ledger!Settle, Entries, no
    <3> QED
      BY <3>6 DEF BookStep, Ledger!Next, Entries
  <2> QED
    BY <1>2, <2>3, <2>4
<1> QED
  BY <1>1, <1>2

\* A new or changed entry is granted.
LEMMA GrantIsBooked ==
    ASSUME RowTypes, NEW r \in Requests, NEW u \in Users, NEW S \in SUBSET Seasons, S # {},
           \A o \in Requests \ {r} : Entry(o)' = Entry(o),
           r \in Counted', owner'[r] = u, claims'[r] = S,
           r \in Counted => (r \in Open' <=> r \in Open),
           r \notin Counted => r \in Open',
           r \in Open' => \A o \in Claiming \ {r} : S \cap claims[o] = {},
           Cardinality(S) + Cost(u, Counted \ {r}, owner, claims) <= Limit
    PROVE  BookStep
<1> DEFINE open == r \in Open'
           x == [who |-> u, seasons |-> S, open |-> open]
<1>1. Entry(r)' = x
  BY DEF Entry, Counted
<1>2. Entries' = [Entries EXCEPT ![r] = x]
  BY <1>1, EntriesPut
<1>3. Ledger!Paid(r, u) + Ledger!Cardinality(S) <= Limit
  <2>1. Counted \ {r} \in SUBSET Requests
    BY Subsets
  <2>2. Cost(u, Counted \ {r}, owner, claims) \in Nat /\ Cardinality(S) \in Nat
    BY <2>1, CostNat, SeasonsFinite
  <2> QED
    BY <2>2, BookReads, LedgerCardinality
<1>4. open => S \cap Ledger!Claimed(r) = {}
  BY BookReads
<1>5. open \in BOOLEAN
  OBVIOUS
<1> HIDE DEF open
<1>6. Ledger!Grant(r, u, S, open)
  BY <1>2, <1>3, <1>4 DEF Ledger!Grant, Entries
<1>7. CASE r \notin Counted
  <2>1. open = TRUE
    BY <1>5, <1>7 DEF open
  <2>2. Entries[r] = Ledger!Blank
    BY <1>7, EntryCases DEF Entries
  <2>3. Ledger!Enter(r, u, S)
    BY <1>6, <2>1, <2>2 DEF Ledger!Enter, Entries
  <2> QED
    BY <2>3 DEF BookStep, Ledger!Next, Entries
<1>8. CASE r \in Counted
  <2>1. Entries[r] = [who |-> owner[r], seasons |-> claims[r], open |-> r \in Open]
    BY <1>8, EntryCases DEF Entries
  <2>2. Entries[r].open = open
    BY <1>8, <2>1 DEF open
  <2>3. Entries[r] # Ledger!Blank
    <3>1. Entries[r].who = owner[r]
      BY <2>1
    <3>2. r \in Stored
      BY <1>8, Subsets
    <3> QED
      BY <3>1, <3>2 DEF Ledger!Blank, RowTypes
  <2>4. Ledger!Change(r, u, S)
    BY <1>6, <2>2, <2>3 DEF Ledger!Change, Entries
  <2> QED
    BY <2>4 DEF BookStep, Ledger!Next, Entries
<1> QED
  BY <1>7, <1>8

LEMMA EntrySame == ASSUME NEW o, o \in Requests \ revived <=> o \in Requests \ revived',
                          st'[o] = st[o], owner'[o] = owner[o], claims'[o] = claims[o]
                   PROVE  Entry(o)' = Entry(o)
<1>1. o \in Stored \ revived /\ st[o] # "declined" <=> o \in Stored' \ revived' /\ st'[o] # "declined"
  BY DEF Stored
<1>2. o \in Open <=> o \in Open'
  BY DEF Open, Stored
<1> QED
  BY <1>1, <1>2 DEF Entry

LEMMA BookSteps == SeriesInv /\ [SeriesNext]_seriesVars => BookStep
<1> SUFFICES ASSUME SeriesInv, [SeriesNext]_seriesVars
             PROVE  BookStep
  OBVIOUS
<1>1. /\ RowTypes /\ TasksFit /\ TasksKnow /\ SeriesTypeOK
      /\ Booked(Claiming, Counted, owner, claims)
  BY DEF SeriesInv, SeriesTypeOK, RowTypes
<1>2. RowStep
  BY <1>1, RowSteps
<1>3. CASE UNCHANGED rowVars
  <2>1. \A o : Entry(o)' = Entry(o)
    BY <1>3, EntrySame DEF rowVars
  <2>2. Entries' = Entries
    BY <2>1 DEF Entries
  <2> QED
    BY <2>2 DEF BookStep
<1>4. ASSUME NEW r \in Requests, NEW to \in RequestStatus, SetRow(r, to)
      PROVE  BookStep
  <2>1. \A o \in Requests \ {r} : Entry(o)' = Entry(o)
    <3>1. /\ \A o \in Requests \ {r} : st'[o] = st[o] /\ (o \in revived <=> o \in revived')
          /\ owner' = owner /\ claims' = claims
      BY <1>1, <1>4 DEF SetRow, RowTypes
    <3> QED
      BY <3>1, EntrySame
  <2>2. RowShrink
    BY <1>1, <1>4, SetRowShrinks
  <2>3. r \in Counted' => r \in Counted /\ (r \in Open' => r \in Open)
    <3>1. Counted' \subseteq Counted /\ Claiming' \subseteq Claiming
      BY <2>2 DEF RowShrink, Shrinks
    <3>2. r \in Counted' /\ r \in Open' => r \in Claiming'
      BY DEF Counted, Claiming
    <3> QED
      BY <3>1, <3>2 DEF Claiming
  <2>4. owner'[r] = owner[r] /\ claims'[r] = claims[r]
    BY <1>4 DEF SetRow
  <2> QED
    BY <1>1, <2>1, <2>3, <2>4, ShrinkIsBooked
<1>5. ASSUME NEW t \in Tasks, Delete(t)
      PROVE  BookStep
  <2> DEFINE r == task[t].r
  <2>1. /\ r \in Requests
        /\ st' = [st EXCEPT ![r] = "gone"]
        /\ owner' = [owner EXCEPT ![r] = NoUser]
        /\ claims' = [claims EXCEPT ![r] = {}]
        /\ revived' = revived
    BY <1>1, <1>5 DEF Delete, Continue, TasksFit, Fits, HasRequest
  <2> HIDE DEF r
  <2>2. \A o \in Requests \ {r} : Entry(o)' = Entry(o)
    BY <1>1, <2>1, EntrySame DEF RowTypes
  <2>3. r \notin Counted'
    BY <1>1, <2>1 DEF Counted, Stored, RequestStatus, RowTypes
  <2> QED
    BY <1>1, <2>1, <2>2, <2>3, ShrinkIsBooked
<1>6. ASSUME NEW t \in Tasks, Insert(t)
      PROVE  BookStep
  <2> DEFINE r == Lowest(Unborn)
             s == task[t]
  <2>1. PICK to \in {"pending", "approved"} :
        /\ s.at = "insert" /\ Unborn # {}
        /\ st' = [st EXCEPT ![r] = to]
        /\ owner' = [owner EXCEPT ![r] = s.who]
        /\ claims' = [claims EXCEPT ![r] = s.want]
        /\ revived' = revived
    BY <1>6 DEF Insert, Continue
  <2>2. r \in Unborn
    BY <2>1, LowestIn DEF Unborn
  <2>3. /\ to \in {"pending", "approved"} /\ s.who \in Users
        /\ s.want \in SUBSET Seasons /\ s.want # {}
    BY <1>1, <2>1 DEF TasksFit, Fits, TaskState, Inside
  <2>4. Knows(s, Stored, Claiming, Counted, owner, claims)
    BY <1>1 DEF TasksKnow
  <2> HIDE DEF r, s
  <2>5. r \in Requests /\ r \notin Counted /\ Counted \ {r} = Counted
    BY <2>2 DEF Unborn, Stored, Counted, RequestStatus
  <2>6. \A o \in Requests \ {r} : Entry(o)' = Entry(o)
    BY <1>1, <2>1, <2>5, EntrySame DEF RowTypes
  <2>7. owner'[r] = s.who /\ claims'[r] = s.want /\ r \in Open'
    BY <1>1, <2>1, <2>3, <2>5 DEF RowTypes, Open, Stored, RequestStatus, Closed
  <2>8. /\ Cardinality(s.want) + Cost(s.who, Counted \ {r}, owner, claims) <= Limit
        /\ \A o \in Claiming \ {r} : s.want \cap claims[o] = {}
    BY <2>1, <2>4, <2>5 DEF Knows
  <2>9. CASE r \in Counted'
    BY <1>1, <2>3, <2>5, <2>6, <2>7, <2>8, <2>9, GrantIsBooked
  <2>10. CASE r \notin Counted'
    BY <1>1, <2>5, <2>6, <2>10, ShrinkIsBooked
  <2> QED
    BY <2>9, <2>10
<1>7. ASSUME NEW t \in Tasks, Update(t)
      PROVE  BookStep
  <2> DEFINE r == task[t].r
             s == task[t]
  <2>1. /\ s.at = "update"
        /\ claims' = [claims EXCEPT ![r] =
                        IF r \in Stored THEN (@ \ (s.own \ s.want)) \cup (s.want \ s.own) ELSE @]
        /\ owner' = [owner EXCEPT ![r] = IF r \in Stored THEN s.who ELSE @]
        /\ st' = st /\ revived' = revived
    BY <1>7 DEF Update, Continue
  <2>2. r \in Requests /\ s.who \in Users /\ s.want \in SUBSET Seasons /\ s.want # {}
    BY <1>1, <2>1 DEF TasksFit, Fits, TaskState, Inside, HasRequest
  <2>3. Knows(s, Stored, Claiming, Counted, owner, claims) /\ s.r = r
    BY <1>1 DEF TasksKnow
  <2> HIDE DEF r, s
  <2>4. \A o \in Requests \ {r} : Entry(o)' = Entry(o)
    BY <1>1, <2>1, <2>2, EntrySame DEF RowTypes
  <2>5. (r \in Counted' <=> r \in Counted) /\ (r \in Open' <=> r \in Open)
    BY <2>1 DEF Counted, Open, Stored
  <2>6. CASE r \notin Counted
    BY <1>1, <2>2, <2>4, <2>5, <2>6, ShrinkIsBooked
  <2>7. CASE r \in Counted
    <3>1. r \in Stored
      BY <2>7, Subsets
    <3>2. s.own = claims[r]
      BY <2>1, <2>3, <3>1 DEF Knows
    <3>3. owner'[r] = s.who /\ claims'[r] = s.want
      BY <1>1, <2>1, <2>2, <3>1, <3>2 DEF RowTypes
    <3>4. Cardinality(s.want) + Cost(s.who, Counted \ {r}, owner, claims) <= Limit
      BY <2>1, <2>3, <2>7 DEF Knows
    <3>5. r \in Open' => \A o \in Claiming \ {r} : s.want \cap claims[o] = {}
      <4>1. r \in Open' => r \in Claiming
        BY <2>5, <2>7 DEF Counted, Claiming
      <4> QED
        BY <2>1, <2>3, <4>1 DEF Knows
    <3> QED
      BY <1>1, <2>2, <2>4, <2>5, <2>7, <3>3, <3>4, <3>5, GrantIsBooked
  <2> QED
    BY <2>6, <2>7
<1> QED
  BY <1>2, <1>3, <1>4, <1>5, <1>6, <1>7 DEF RowStep

\* For all constants, whatever awaits lie between the checks of a creation or
\* edit and its write, the two take effect as one step of the book
\* (REQUEST_LOCK in routes/requestcreate.rs and requestedit.rs).
THEOREM SeriesImplementsLedger == SeriesSpec => ImplementsLedger
<1>1. SeriesInit => Ledger!Init
  <2>1. SeriesInit => Counted = {}
    BY DEF SeriesInit, Counted, Stored, RequestStatus
  <2> QED
    BY <2>1, EntryCases DEF Ledger!Init
<1>2. SeriesInv /\ [SeriesNext]_seriesVars => [Ledger!Next]_[r \in Requests |-> Entry(r)]
  BY BookSteps DEF BookStep, Entries
<1> QED
  BY <1>1, <1>2, SeriesInvInductive, PTL DEF SeriesSpec, ImplementsLedger, Ledger!Spec
-----------------------------------------------------------------------------
(* The awaits that are left *)

Hooked == {"save", "write", "send"}

\* Nothing is loaded while a new request is, and the settling is swept once.
Calm(s) == /\ s.at = "inserted" => s.todo = {}
           /\ s.at \in {"inserted", "complete"} => ~s.sweep

TasksCalm == \A t \in Tasks : Calm(task[t])

LEMMA IdleFields == /\ Idle \in TaskState
                    /\ Idle.at = "idle" /\ Idle.todo = {} /\ ~Idle.sweep
<1>1. Idle.at = "idle" /\ Idle.todo = {} /\ ~Idle.sweep
  BY Zenon DEF Idle
<1> QED
  BY <1>1, IdleFits DEF Fits

LEMMA SweepType == Sweep \in Nat
BY SeriesAssumption DEF Sweep

\* No more requests are loaded than there are.
LEMMA TodoFinite == ASSUME NEW T \in SUBSET Requests
                    PROVE  /\ IsFiniteSet(T)
                           /\ Cardinality(T) \in Nat
                           /\ 6 * Cardinality(T) <= Sweep
<1>1. IsFiniteSet(Requests) /\ Cardinality(Requests) = MaxRequests
  BY FS_Interval, SeriesAssumption DEF Requests
<1>2. IsFiniteSet(T) /\ Cardinality(T) <= MaxRequests
  BY <1>1, FS_Subset
<1>3. Cardinality(T) \in Nat
  BY <1>2, FS_CardinalityType
<1> QED
  BY <1>2, <1>3, SeriesAssumption DEF Sweep

\* What is left by stage.
LEMMA WorkCases == ASSUME NEW s
                   PROVE  /\ s.at = "idle" => WorkLeft(s) = 0
                          /\ s.at = "load" => WorkLeft(s) = 8
                          /\ s.at = "quota" /\ s.r = 0 => WorkLeft(s) = 8
                          /\ s.at = "quota" /\ s.r # 0 => WorkLeft(s) = 2
                          /\ s.at = "others" => WorkLeft(s) = 7
                          /\ s.at = "insert" => WorkLeft(s) = 6
                          /\ s.at = "inserted" => WorkLeft(s) = 5
                          /\ s.at \in {"update", "delete"} => WorkLeft(s) = 1
                          /\ s.at = "approve" => WorkLeft(s) = 2 * Sweep + 2
                          /\ s.at = "complete" => WorkLeft(s) = Sweep + 1
                          /\ s.at \in Hooked => WorkLeft(s) = SavesLeft(s)
<1> HIDE DEF Sweep
<1>1. s.at \in Hooked => WorkLeft(s) = SavesLeft(s)
  BY DEF WorkLeft, Hooked
<1> QED
  BY <1>1 DEF WorkLeft

LEMMA HooksCases == HooksLeft("save") = 2 /\ HooksLeft("write") = 1 /\ HooksLeft("send") = 0
BY DEF HooksLeft

\* What is left when the current save is over.
SweepsLeft(s) == 6 * Cardinality(s.todo) + (IF s.sweep THEN Sweep + 1 ELSE 0)

LEMMA SavesLeftType ==
    ASSUME NEW s \in TaskState
    PROVE  /\ SweepsLeft(s) \in Nat
           /\ s.at \in Hooked =>
                SavesLeft(s) = 1 + SweepsLeft(s) + HooksLeft(s.at)
                                 + (IF s.to = "approved" THEN 3 ELSE 0)
<1>1. Cardinality(s.todo) \in Nat
  BY TodoFinite DEF TaskState
<1>2. SweepsLeft(s) \in Nat
  BY <1>1, SweepType DEF SweepsLeft
<1>3. s.at \in Hooked => HooksLeft(s.at) \in Nat
  BY HooksCases DEF Hooked
<1> QED
  BY <1>1, <1>2, <1>3, SweepType DEF SweepsLeft, SavesLeft

LEMMA WorkLeftType == ASSUME NEW s \in TaskState PROVE WorkLeft(s) \in Nat
<1>1. CASE s.at \in Hooked
  <2>1. HooksLeft(s.at) \in Nat
    BY <1>1, HooksCases DEF Hooked
  <2>2. SavesLeft(s) \in Nat
    BY <1>1, <2>1, SavesLeftType
  <2> QED
    BY <1>1, <2>2, WorkCases
<1>2. CASE s.at \notin Hooked
  <2>1. s.at \in Stages
    BY DEF TaskState
  <2>2. s.at \in {"idle", "load", "quota", "others", "insert", "inserted", "update",
                  "delete", "approve", "complete"}
    BY <1>2, <2>1 DEF Stages, Hooked
  <2> QED
    BY <2>2, WorkCases, SweepType
<1> QED
  BY <1>1, <1>2

\* Who is not idle has something left to do.
LEMMA WorkIsLeft == ASSUME NEW s \in TaskState, s.at # "idle" PROVE WorkLeft(s) > 0
<1>1. CASE s.at \in Hooked
  <2>1. HooksLeft(s.at) \in Nat
    BY <1>1, HooksCases DEF Hooked
  <2>2. SavesLeft(s) > 0
    BY <1>1, <2>1, SavesLeftType
  <2> QED
    BY <1>1, <2>2, WorkCases
<1>2. CASE s.at \notin Hooked
  <2>1. s.at \in Stages
    BY DEF TaskState
  <2>2. s.at \in {"load", "quota", "others", "insert", "inserted", "update",
                  "delete", "approve", "complete"}
    BY <1>2, <2>1 DEF Stages, Hooked
  <2> QED
    BY <2>2, WorkCases, SweepType
<1> QED
  BY <1>1, <1>2

\* The next save, the settling or the end: less than the current save and what
\* was to follow it.
LEMMA AfterSaveLeaves ==
    ASSUME NEW s \in TaskState
    PROVE  WorkLeft(AfterSave(s)) <= SweepsLeft(s) /\ Calm(AfterSave(s))
<1>1. SweepsLeft(s) \in Nat /\ Cardinality(s.todo) \in Nat /\ IsFiniteSet(s.todo)
  BY SavesLeftType, TodoFinite DEF TaskState
<1>2. CASE s.todo # {}
  <2> DEFINE r == Lowest(s.todo)
             x == [s EXCEPT !.at = "save", !.r = r, !.todo = s.todo \ {r},
                            !.to = IF s.sweep THEN "approved" ELSE "completed"]
  <2>1. AfterSave(s) = x
    BY <1>2 DEF AfterSave, TaskState
  <2>2. /\ x.at = "save" /\ x.todo = s.todo \ {r} /\ x.sweep = s.sweep
        /\ x.to = IF s.sweep THEN "approved" ELSE "completed"
    BY DEF TaskState
  <2>3. r \in s.todo
    BY <1>2, LowestIn DEF TaskState
  <2> HIDE DEF x, r
  <2>4. Cardinality(x.todo) = Cardinality(s.todo) - 1
    BY <1>1, <2>2, <2>3, FS_RemoveElement
  <2>5. WorkLeft(x) = SavesLeft(x)
    BY <2>2, WorkCases DEF Hooked
  <2>6. WorkLeft(x) = 1 + 6 * (Cardinality(s.todo) - 1) + 2
                        + (IF x.to = "approved" THEN 3 ELSE 0)
                        + (IF s.sweep THEN Sweep + 1 ELSE 0)
    BY <2>2, <2>4, <2>5, HooksCases DEF SavesLeft
  <2>7. WorkLeft(x) <= SweepsLeft(s)
    BY <1>1, <2>6, SweepType DEF SweepsLeft
  <2> QED
    BY <2>1, <2>2, <2>7 DEF Calm
<1>3. CASE s.todo = {} /\ s.sweep
  <2> DEFINE x == [Idle EXCEPT !.at = "complete"]
  <2>1. AfterSave(s) = x
    BY <1>3 DEF AfterSave
  <2>2. x.at = "complete" /\ x.sweep = Idle.sweep
    BY IdleFields DEF TaskState
  <2> HIDE DEF x
  <2>3. WorkLeft(x) = Sweep + 1 /\ Calm(x)
    BY <2>2, WorkCases, IdleFields DEF Calm
  <2>4. SweepsLeft(s) = Sweep + 1
    BY <1>3, FS_EmptySet, SweepType DEF SweepsLeft
  <2> QED
    BY <2>1, <2>3, <2>4, SweepType
<1>4. CASE s.todo = {} /\ ~s.sweep
  <2>1. AfterSave(s) = Idle
    BY <1>4 DEF AfterSave
  <2>2. WorkLeft(Idle) = 0 /\ Calm(Idle)
    BY WorkCases, IdleFields DEF Calm
  <2> QED
    BY <1>1, <2>1, <2>2
<1> QED
  BY <1>2, <1>3, <1>4

\* One await of a handler: its own state alone changes, and less is left.
Advances(t) == /\ WorkLeft(task'[t]) < WorkLeft(task[t])
               /\ Calm(task'[t])
               /\ \A u \in Tasks \ {t} : task'[u] = task[u]

LEMMA AdvancesBy ==
    ASSUME SeriesTypeOK, NEW t \in Tasks, NEW x, task' = [task EXCEPT ![t] = x],
           WorkLeft(x) < WorkLeft(task[t]), Calm(x)
    PROVE  Advances(t)
BY DEF SeriesTypeOK, Advances

LEMMA MemoryFits == ASSUME SeriesTypeOK, TasksFit, TasksCalm, NEW t \in Tasks
                    PROVE  /\ task[t] \in TaskState /\ Fits(task[t]) /\ Calm(task[t])
                           /\ WorkLeft(task[t]) \in Nat
BY WorkLeftType DEF SeriesTypeOK, TasksFit, TasksCalm

LEMMA CreationAdvances ==
    ASSUME SeriesTypeOK, TasksFit, TasksCalm, NEW t \in Tasks, LockedStep(t) \/ Delete(t)
    PROVE  Advances(t)
<1> DEFINE s == task[t]
<1>0. s \in TaskState /\ Fits(s) /\ Calm(s)
  BY MemoryFits
<1>1. ASSUME NEW x, task' = [task EXCEPT ![t] = x],
             \/ s.at \in Inside \cup {"delete"} /\ x.at = "idle"
             \/ s.at = "load" /\ x.at = "others"
             \/ s.at = "quota" /\ s.r = 0 /\ x.at = "others"
             \/ s.at = "others" /\ x.at = "insert"
             \/ s.at = "others" /\ x.at = "quota" /\ x.r # 0
             \/ s.at = "quota" /\ x.at = "update"
      PROVE  Advances(t)
  <2>1. WorkLeft(x) < WorkLeft(s)
    BY <1>1, WorkCases DEF Inside
  <2>2. Calm(x)
    BY <1>1 DEF Calm
  <2> QED
    BY <1>1, <2>1, <2>2, AdvancesBy
<1>2. CASE Refuse(t) \/ Update(t) \/ Delete(t)
  BY <1>1, <1>2, IdleFields DEF Refuse, Update, Delete, Continue, Inside
<1>3. CASE Load(t)
  <2> DEFINE x == [s EXCEPT !.at = "others", !.own = claims[s.r],
                            !.room = IF owner[s.r] = s.who THEN Cardinality(claims[s.r]) ELSE 0]
  <2>1. task' = [task EXCEPT ![t] = x] /\ s.at = "load"
    BY <1>3 DEF Load, Continue
  <2>2. x.at = "others"
    BY <1>0 DEF TaskState
  <2> HIDE DEF x
  <2> QED
    BY <1>1, <2>1, <2>2
<1>4. CASE ReadQuota(t)
  <2> DEFINE x == [s EXCEPT !.at = "others", !.room = Remaining(s.who)]
  <2>1. task' = [task EXCEPT ![t] = x] /\ s.at = "quota" /\ s.r = 0
    BY <1>4 DEF ReadQuota, Continue
  <2>2. x.at = "others"
    BY <1>0 DEF TaskState
  <2> HIDE DEF x
  <2> QED
    BY <1>1, <2>1, <2>2
<1>5. CASE ReadOthers(t)
  <2>1. PICK granted :
          Continue(t, "others",
            IF s.r = 0 THEN [s EXCEPT !.at = "insert", !.want = granted, !.room = 0]
            ELSE [s EXCEPT !.at = "quota", !.want = granted])
    BY <1>5 DEF ReadOthers
  <2> DEFINE x == IF s.r = 0 THEN [s EXCEPT !.at = "insert", !.want = granted, !.room = 0]
                  ELSE [s EXCEPT !.at = "quota", !.want = granted]
  <2>2. task' = [task EXCEPT ![t] = x] /\ s.at = "others"
    BY <2>1 DEF Continue
  <2>3. x.at = "insert" \/ (x.at = "quota" /\ x.r # 0)
    BY <1>0 DEF TaskState
  <2> HIDE DEF x
  <2> QED
    BY <1>1, <2>2, <2>3
<1>6. CASE EditQuota(t)
  <2> DEFINE x == [s EXCEPT !.at = "update", !.room = 0]
  <2>1. task' = [task EXCEPT ![t] = x] /\ s.at = "quota"
    BY <1>6 DEF EditQuota, Continue
  <2>2. x.at = "update"
    BY <1>0 DEF TaskState
  <2> HIDE DEF x
  <2> QED
    BY <1>1, <2>1, <2>2
<1>7. CASE Insert(t)
  <2> DEFINE r == Lowest(Unborn)
             x == [Idle EXCEPT !.at = "inserted", !.r = r]
  <2>1. task' = [task EXCEPT ![t] = x] /\ s.at = "insert"
    BY <1>7 DEF Insert, Continue
  <2>2. x.at = "inserted" /\ x.todo = Idle.todo /\ x.sweep = Idle.sweep
    BY IdleFields DEF TaskState
  <2> HIDE DEF x, r
  <2>3. Calm(x) /\ WorkLeft(x) < WorkLeft(s)
    BY <2>1, <2>2, IdleFields, WorkCases DEF Calm
  <2> QED
    BY <2>1, <2>3, AdvancesBy
<1>8. CASE LoadInserted(t)
  <2> DEFINE r == s.r
             y == [s EXCEPT !.at = "send", !.to = st[r]]
  <2>1. s.at = "inserted" /\ task' = [task EXCEPT ![t] = IF r \in Stored THEN y ELSE Idle]
    BY <1>8 DEF LoadInserted, Continue
  <2>2. WorkLeft(s) = 5
    BY <2>1, WorkCases
  <2>3. y.at = "send" /\ y.todo = {} /\ ~y.sweep
    BY <1>0, <2>1 DEF TaskState, Calm
  <2> HIDE DEF y
  <2>4. WorkLeft(y) = 1 + 6 * 0 + 0 + (IF y.to = "approved" THEN 3 ELSE 0) + 0
    BY <2>3, WorkCases, HooksCases, FS_EmptySet DEF SavesLeft, Hooked
  <2>5. WorkLeft(y) < WorkLeft(s) /\ Calm(y)
    BY <2>2, <2>3, <2>4 DEF Calm
  <2>6. WorkLeft(Idle) < WorkLeft(s) /\ Calm(Idle)
    BY <2>2, IdleFields, WorkCases DEF Calm
  <2>7. CASE r \in Stored
    BY <2>1, <2>5, <2>7, AdvancesBy
  <2>8. CASE r \notin Stored
    BY <2>1, <2>6, <2>8, AdvancesBy
  <2> QED
    BY <2>7, <2>8
<1> QED
  BY <1>2, <1>3, <1>4, <1>5, <1>6, <1>7, <1>8 DEF LockedStep

\* Within a save and its hook.
LEMMA HooksAdvance ==
    ASSUME SeriesTypeOK, TasksFit, TasksCalm, NEW t \in Tasks,
           SaveChanged(t) \/ Write(t) \/ SendCompletes(t)
    PROVE  Advances(t)
<1> DEFINE s == task[t]
<1>0. s \in TaskState
  BY MemoryFits
<1>1. ASSUME NEW x, task' = [task EXCEPT ![t] = x], x.todo = s.todo, x.sweep = s.sweep,
             \/ x.to = s.to /\ \/ s.at = "save" /\ x.at = "write"
                               \/ s.at = "write" /\ x.at = "send"
             \/ s.at = "send" /\ s.to = "approved" /\ x.at = "save" /\ x.to = "completed"
      PROVE  Advances(t)
  <2> DEFINE N(a, b) == HooksLeft(a) + (IF b = "approved" THEN 3 ELSE 0)
  <2>1. s.at \in Hooked /\ x.at \in Hooked
    BY <1>1 DEF Hooked
  <2>2. WorkLeft(s) = SavesLeft(s) /\ WorkLeft(x) = SavesLeft(x)
    BY <2>1, WorkCases
  <2>3. SweepsLeft(x) = SweepsLeft(s) /\ SweepsLeft(s) \in Nat
    BY <1>0, <1>1, SavesLeftType DEF SweepsLeft
  <2>4. HooksLeft(s.at) \in Nat /\ HooksLeft(x.at) \in Nat
    BY <2>1, HooksCases DEF Hooked
  <2>5. /\ SavesLeft(s) = 1 + SweepsLeft(s) + N(s.at, s.to)
        /\ SavesLeft(x) = 1 + SweepsLeft(s) + N(x.at, x.to)
    <3>1. Cardinality(s.todo) \in Nat
      BY <1>0, TodoFinite DEF TaskState
    <3> QED
      BY <1>1, <2>4, <3>1, SweepType DEF SweepsLeft, SavesLeft
  <2>6. N(x.at, x.to) < N(s.at, s.to) /\ N(x.at, x.to) \in Nat /\ N(s.at, s.to) \in Nat
    BY <1>1, HooksCases
  <2> HIDE DEF N
  <2>7. WorkLeft(x) < WorkLeft(s)
    BY <2>2, <2>3, <2>5, <2>6
  <2>8. Calm(x)
    BY <1>1 DEF Calm
  <2> QED
    BY <1>1, <2>7, <2>8, AdvancesBy
<1>2. CASE SaveChanged(t)
  <2> DEFINE x == [s EXCEPT !.at = "write"]
  <2>1. task' = [task EXCEPT ![t] = x] /\ s.at = "save"
    BY <1>2 DEF SaveChanged, Continue
  <2>2. x.at = "write" /\ x.to = s.to /\ x.todo = s.todo /\ x.sweep = s.sweep
    BY <1>0 DEF TaskState
  <2> HIDE DEF x
  <2> QED
    BY <1>1, <2>1, <2>2
<1>3. CASE Write(t)
  <2> DEFINE x == [s EXCEPT !.at = "send"]
  <2>1. task' = [task EXCEPT ![t] = x] /\ s.at = "write"
    BY <1>3 DEF Write, Continue
  <2>2. x.at = "send" /\ x.to = s.to /\ x.todo = s.todo /\ x.sweep = s.sweep
    BY <1>0 DEF TaskState
  <2> HIDE DEF x
  <2> QED
    BY <1>1, <2>1, <2>2
<1>4. CASE SendCompletes(t)
  <2> DEFINE x == [s EXCEPT !.at = "save", !.to = "completed"]
  <2>1. task' = [task EXCEPT ![t] = x] /\ s.at = "send" /\ s.to = "approved"
    BY <1>4 DEF SendCompletes, Continue
  <2>2. x.at = "save" /\ x.to = "completed" /\ x.todo = s.todo /\ x.sweep = s.sweep
    BY <1>0 DEF TaskState
  <2> HIDE DEF x
  <2> QED
    BY <1>1, <2>1, <2>2
<1> QED
  BY <1>2, <1>3, <1>4

LEMMA SaveOverAdvances ==
    ASSUME SeriesTypeOK, NEW t \in Tasks, NEW s, Fits(s), NEW from,
           SaveOver(t, from, s), SweepsLeft(s) < WorkLeft(task[t]),
           WorkLeft(task[t]) \in Nat
    PROVE  Advances(t)
<1> DEFINE x == AfterSave(s)
<1>0. s \in TaskState /\ x \in TaskState
  BY AfterSaveFits DEF Fits
<1>1. task' = [task EXCEPT ![t] = x]
  BY DEF SaveOver, Continue
<1>2. WorkLeft(x) <= SweepsLeft(s) /\ Calm(x) /\ SweepsLeft(s) \in Nat
  BY <1>0, AfterSaveLeaves, SavesLeftType
<1>3. WorkLeft(x) \in Nat
  BY <1>0, WorkLeftType
<1> HIDE DEF x
<1>4. WorkLeft(x) < WorkLeft(task[t])
  BY <1>2, <1>3
<1> QED
  BY <1>1, <1>2, <1>4, AdvancesBy

LEMMA SavingAdvances ==
    ASSUME SeriesTypeOK, TasksFit, TasksCalm, NEW t \in Tasks, SaveStep(t)
    PROVE  Advances(t)
<1> DEFINE s == task[t]
<1>0. s \in TaskState /\ Fits(s) /\ Calm(s) /\ WorkLeft(s) \in Nat
  BY MemoryFits
<1>1. ASSUME NEW from, SaveOver(t, from, s), s.at \in Hooked PROVE Advances(t)
  <2>1. HooksLeft(s.at) \in Nat
    BY <1>1, HooksCases DEF Hooked
  <2>2. SweepsLeft(s) < WorkLeft(s)
    BY <1>0, <1>1, <2>1, WorkCases, SavesLeftType
  <2> QED
    BY <1>0, <1>1, <2>2, SaveOverAdvances
<1>2. CASE SaveUnchanged(t) \/ SendNothing(t) \/ SpawnAdd(t) \/ SendFails(t)
  BY <1>1, <1>2 DEF SaveUnchanged, SendNothing, SpawnAdd, SendFails, SaveOver, Continue, Hooked
<1>3. ASSUME NEW from, NEW T \in SUBSET Requests, NEW on \in BOOLEAN,
             SaveOver(t, from, [s EXCEPT !.sweep = on, !.todo = T]),
             s.at = "approve" \/ (s.at = "complete" /\ ~on)
      PROVE  Advances(t)
  <2> DEFINE x == [s EXCEPT !.sweep = on, !.todo = T]
  <2>1. x \in TaskState /\ x.todo = T /\ x.sweep = on /\ x.at = s.at
    BY <1>0 DEF TaskState
  <2>2. Cardinality(T) \in Nat /\ 6 * Cardinality(T) <= Sweep
    BY TodoFinite
  <2> HIDE DEF x
  <2>3. Fits(x)
    BY <1>3, <2>1 DEF Fits, HasRequest, Inside
  <2>4. SweepsLeft(x) < WorkLeft(s)
    BY <1>3, <2>1, <2>2, WorkCases, SweepType DEF SweepsLeft
  <2> QED
    BY <1>0, <1>3, <2>3, <2>4, SaveOverAdvances DEF x
<1>4. CASE ApproveChildren(t)
  <2> DEFINE on == TRUE
             T == {r \in Stored : st[r] = "pending"}
  <2>1. SaveOver(t, "approve", [s EXCEPT !.sweep = on, !.todo = T])
    BY <1>4 DEF ApproveChildren
  <2>2. s.at = "approve"
    BY <1>4 DEF ApproveChildren, SaveOver, Continue
  <2>3. T \in SUBSET Requests /\ on \in BOOLEAN
    BY DEF Stored
  <2> HIDE DEF on, T
  <2> QED
    BY <1>3, <2>1, <2>2, <2>3
<1>5. CASE CompleteRelated(t)
  <2>1. PICK T \in SUBSET {r \in Stored : st[r] \in {"approved", "failed"}} :
             SaveOver(t, "complete", [s EXCEPT !.todo = T])
    BY <1>5 DEF CompleteRelated
  <2> DEFINE on == s.sweep
  <2>2. s.at = "complete"
    BY <2>1 DEF SaveOver, Continue
  <2>3. ~on /\ on \in BOOLEAN
    BY <1>0, <2>2 DEF Calm, TaskState
  <2>4. [s EXCEPT !.todo = T] = [s EXCEPT !.sweep = on, !.todo = T]
    BY <1>0 DEF TaskState
  <2>5. SaveOver(t, "complete", [s EXCEPT !.sweep = on, !.todo = T])
    BY <2>1, <2>4
  <2>6. T \in SUBSET Requests
    BY DEF Stored
  <2> HIDE DEF on
  <2> QED
    BY <1>3, <2>2, <2>3, <2>5, <2>6
<1>6. CASE SaveChanged(t) \/ Write(t) \/ SendCompletes(t)
  BY <1>6, HooksAdvance
<1>7. CASE Delete(t)
  BY <1>7, CreationAdvances
<1> QED
  BY <1>2, <1>4, <1>5, <1>6, <1>7 DEF SaveStep

\* What is started is calm.
LEMMA StartCalm ==
    ASSUME NEW t \in Tasks, Start(t)
    PROVE  \E x : Continue(t, "idle", x) /\ Calm(x)
<1>1. ASSUME NEW x, Continue(t, "idle", x), x.at \notin {"inserted", "complete"}
      PROVE  \E y : Continue(t, "idle", y) /\ Calm(y)
  BY <1>1 DEF Calm
<1>2. CASE TakeLock(t)
  <2>1. PICK body \in Bodies : Continue(t, "idle", body)
    BY <1>2 DEF TakeLock
  <2>2. body.at \in {"quota", "load"}
    <3>1. \A u \in Users, S \in SUBSET Seasons : Creation(u, S).at = "quota"
      BY DEF Creation, Idle
    <3>2. \A r \in Stored, u \in Users, S \in SUBSET Seasons : Edition(r, u, S).at = "load"
      BY DEF Edition, Idle
    <3> QED
      BY <3>1, <3>2 DEF Bodies
  <2> QED
    BY <1>1, <2>1, <2>2
<1>3. ASSUME NEW r \in Requests, Approve(t, r) \/ Decline(t, r) \/ Retry(t, r) \/ Remove(t, r)
      PROVE  \E x : Continue(t, "idle", x) /\ Calm(x)
  <2>1. PICK at \in {"save", "delete"}, to \in RequestStatus \cup {"none"} :
          \/ Continue(t, "idle", [Idle EXCEPT !.at = at, !.r = r, !.to = to])
          \/ Continue(t, "idle", [Idle EXCEPT !.at = at, !.r = r])
    BY <1>3 DEF Approve, Decline, Retry, SetStatus, Remove, RequestStatus
  <2>2. /\ [Idle EXCEPT !.at = at, !.r = r, !.to = to].at = at
        /\ [Idle EXCEPT !.at = at, !.r = r].at = at
    BY IdleFields DEF TaskState
  <2> QED
    BY <1>1, <2>1, <2>2
<1>4. ASSUME NEW first \in {"approve", "complete"}, SaveMedia(t, first)
      PROVE  \E x : Continue(t, "idle", x) /\ Calm(x)
  <2> DEFINE x == [Idle EXCEPT !.at = first]
  <2>1. Continue(t, "idle", x)
    BY <1>4 DEF SaveMedia
  <2>2. x.at = first /\ x.sweep = Idle.sweep
    BY IdleFields DEF TaskState
  <2> HIDE DEF x
  <2>3. Calm(x)
    BY <2>2, IdleFields DEF Calm
  <2> QED
    BY <2>1, <2>3
<1> QED
  BY <1>2, <1>3, <1>4 DEF Start

\* Every await of a handler or job leaves less to do: with any number of
\* requests of the series each of them has at most WorkLeft awaits.
THEOREM HandlersAlwaysAdvance == SeriesSpec => HandlersAdvance
<1>1. ASSUME SeriesTypeOK, TasksFit, TasksCalm, [SeriesNext]_seriesVars, NEW t \in Tasks
      PROVE  Calm(task'[t]) /\ Advancing(t)
  <2>1. Calm(task[t])
    BY <1>1 DEF TasksCalm
  <2>2. ASSUME NEW u \in Tasks, TaskStep(u) PROVE Calm(task'[t]) /\ Advancing(t)
    <3>1. Advances(u)
      BY <1>1, <2>2, CreationAdvances, SavingAdvances DEF TaskStep
    <3> QED
      BY <2>1, <3>1 DEF Advances, Advancing
  <2>3. ASSUME NEW u \in Tasks, Start(u) PROVE Calm(task'[t]) /\ Advancing(t)
    <3>1. PICK x : Continue(u, "idle", x) /\ Calm(x)
      BY <2>3, StartCalm
    <3> QED
      BY <1>1, <2>1, <3>1 DEF Continue, SeriesTypeOK, Advancing
  <2>4. CASE UNCHANGED task
    BY <2>1, <2>4 DEF Advancing
  <2>5. CASE Ending
    <3>1. CASE task'[t] = task[t]
      BY <2>1, <3>1 DEF Advancing
    <3>2. CASE task'[t] = Idle
      <4>1. task[t].at # "idle" => WorkLeft(task[t]) > 0
        BY <1>1, WorkIsLeft DEF SeriesTypeOK, TasksFit
      <4>2. WorkLeft(Idle) = 0 /\ Calm(Idle)
        BY IdleFields, WorkCases DEF Calm
      <4> QED
        BY <3>2, <4>1, <4>2 DEF Advancing
    <3> QED
      BY <1>1, <2>5, <3>1, <3>2, EndingIdles
  <2> QED
    BY <1>1, <2>2, <2>3, <2>4, <2>5 DEF SeriesNext, AddSucceeds, AddFails, seriesVars, Ending
<1>2. SeriesInit => TasksCalm
  BY IdleFields DEF SeriesInit, TasksCalm, Calm
<1>3. SeriesInv /\ TasksCalm /\ [SeriesNext]_seriesVars => TasksCalm'
  BY <1>1 DEF SeriesInv, TasksCalm
<1>4. SeriesInv /\ TasksCalm /\ [SeriesNext]_seriesVars
        => [\A t \in Tasks : Advancing(t)]_seriesVars
  BY <1>1 DEF SeriesInv
<1> QED
  BY <1>2, <1>3, <1>4, SeriesInvInductive, PTL DEF SeriesSpec, HandlersAdvance
=============================================================================
