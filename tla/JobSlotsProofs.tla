--------------------------- MODULE JobSlotsProofs ---------------------------
(***************************************************************************)
(* Proofs about JobSlots, for every job table: the slots are accounted for,  *)
(* nothing waits that could run, and the slots keep the promise of JobPool.  *)
(*                                                                          *)
(* SlotsInv is inductive.  The accounting alone is not: that a release never *)
(* starts more than it frees needs to know that what waits is blocked        *)
(* (WorkConserving), and that needs the queue to be a list (SlotsTypeOK).    *)
(***************************************************************************)
EXTENDS JobSlots, FiniteSetTheorems, WellFoundedInduction, TLAPS

SlotsInv == SlotsTypeOK /\ SlotsAccounted /\ WorkConserving

\* There are finitely many jobs, so every set of them can be counted.
LEMMA JobsFinite == /\ IsFiniteSet(Jobs)
                    /\ \A S \in SUBSET Jobs : /\ IsFiniteSet(S)
                                              /\ Cardinality(S) \in Nat
<1>1. IsFiniteSet(Jobs)
  BY FS_Union, SlotsAssumption DEF Jobs
<1>2. ASSUME NEW S \in SUBSET Jobs
      PROVE  IsFiniteSet(S) /\ Cardinality(S) \in Nat
  BY <1>1, FS_Subset, FS_CardinalityType
<1>3. QED BY <1>1, <1>2

\* The ids of a weight, and the weight of an id.
LEMMA WeightsOfIds == /\ \A j \in Jobs : WeightOf(j) \in Weights
                      /\ \A w \in Weights : Ids(w) \subseteq Jobs
                      /\ \A j \in Jobs, w \in Weights :
                           j \in Ids(w) <=> WeightOf(j) = w
  BY SlotsAssumption DEF Jobs, Weights, Ids, WeightOf

LEMMA LimitType == \A w \in Weights : Limit(w) \in Nat /\ Limit(w) > 0
  BY DEF Weights, Limit

\* A set of places that is not empty has a first one.
LEMMA FirstPlace ==
    ASSUME NEW T \in SUBSET Nat, T # {}
    PROVE  \E x \in T : \A y \in T : x <= y
<1> DEFINE R == {ss \in Nat \X Nat : ss[1] < ss[2]}
<1>1. IsWellFoundedOn(R, Nat)
  BY NatLessThanWellFounded DEF OpToRel
<1>2. PICK x \in T : \A y \in T : <<y, x>> \notin R
  <2> HIDE DEF R
  <2> QED BY <1>1, WFMin
<1>3. ASSUME NEW y \in T PROVE x <= y
  <2>1. x \in Nat /\ y \in Nat
    BY <1>3
  <2>2. <<y, x>> \in Nat \X Nat /\ <<y, x>>[1] = y /\ <<y, x>>[2] = x
    BY <2>1
  <2>3. ~(y < x)
    BY <1>2, <2>2
  <2>4. QED BY <2>1, <2>3
<1>4. QED BY <1>3

\* No two queued ids share a place: n ids cover the n places 1..n.
LEMMA PlacesDistinct ==
    ASSUME SlotsTypeOK, NEW j \in Queued, NEW k \in Queued, j # k
    PROVE  place[j] # place[k]
<1> DEFINE f == [q \in Queued |-> place[q]]
<1> DEFINE n == Cardinality(Queued)
<1>1. IsFiniteSet(Queued) /\ n \in Nat
  BY JobsFinite DEF Queued
<1>2. f \in Surjection(Queued, 1..n)
  BY Zenon DEF SlotsTypeOK, Surjection
<1>3. Cardinality(1..n) = n
  <2> HIDE DEF n
  <2> QED BY <1>1, FS_Interval
<1>4. f \in Injection(Queued, 1..n)
  BY <1>1, <1>2, <1>3, FS_Surjection
<1>5. QED BY <1>4 DEF Injection, IsInjective

THEOREM SlotsInitInv == SlotsInit => SlotsInv
<1> SUFFICES ASSUME SlotsInit PROVE SlotsInv
  OBVIOUS
<1>1. Queued = {} /\ ActiveIds = {}
  BY DEF SlotsInit, Queued, ActiveIds
<1>2. Cardinality({}) = 0
  BY FS_EmptySet
<1>3. SlotsTypeOK
  <2>1. {place[j] : j \in Queued} = 1..Cardinality(Queued)
    BY <1>1, <1>2
  <2>2. QED BY <2>1 DEF SlotsTypeOK, SlotsInit
<1>4. SlotsAccounted
  <2>1. \A w \in Weights : ActiveIds \cap Ids(w) = {}
    BY <1>1
  <2>2. QED BY <2>1, <1>2, LimitType DEF SlotsAccounted, SlotsInit
<1>5. WorkConserving
  BY <1>1 DEF WorkConserving
<1>6. QED BY <1>3, <1>4, <1>5 DEF SlotsInv

-----------------------------------------------------------------------------
(* Taking a slot and queueing *)

\* An admitted id joins the active ids, and its weight's counter counts it.
LEMMA AdmitCounts ==
    ASSUME SlotsInv, NEW j \in Jobs, Admit(j)
    PROVE  /\ active[j] = 0
           /\ ActiveIds' = ActiveIds \cup {j}
           /\ \A w \in Weights :
                Cardinality(ActiveIds' \cap Ids(w)) =
                  Cardinality(ActiveIds \cap Ids(w))
                    + IF w = WeightOf(j) THEN 1 ELSE 0
<1>1. active[j] = 0 /\ ActiveIds' = ActiveIds \cup {j}
  BY DEF Admit, CanAdmit, ActiveIds, SlotsInv, SlotsTypeOK
<1>2. ASSUME NEW w \in Weights, w = WeightOf(j)
      PROVE  Cardinality(ActiveIds' \cap Ids(w)) = Cardinality(ActiveIds \cap Ids(w)) + 1
  <2>1. ActiveIds' \cap Ids(w) = (ActiveIds \cap Ids(w)) \cup {j}
    BY <1>1, <1>2, WeightsOfIds
  <2>2. j \notin ActiveIds \cap Ids(w)
    BY <1>1 DEF ActiveIds
  <2>3. IsFiniteSet(ActiveIds \cap Ids(w))
    BY JobsFinite, WeightsOfIds
  <2>4. QED BY <2>1, <2>2, <2>3, FS_AddElement
<1>3. ASSUME NEW w \in Weights, w # WeightOf(j)
      PROVE  ActiveIds' \cap Ids(w) = ActiveIds \cap Ids(w)
  BY <1>1, <1>3, WeightsOfIds
<1>4. \A w \in Weights : Cardinality(ActiveIds \cap Ids(w)) \in Nat
  BY JobsFinite, WeightsOfIds
<1>5. QED BY <1>1, <1>2, <1>3, <1>4

THEOREM AdmitInv ==
    ASSUME SlotsInv, NEW j \in Jobs, Admit(j)
    PROVE  SlotsInv'
<1>1. WeightOf(j) \in Weights
  BY WeightsOfIds
<1>2. Queued' = Queued
  BY DEF Admit, Queued
<1>3. SlotsTypeOK'
  <2>1. ({place[k] : k \in Queued} = 1..Cardinality(Queued))'
    BY <1>2 DEF Admit, SlotsInv, SlotsTypeOK
  <2>2. QED BY <1>1, <2>1 DEF Admit, SlotsInv, SlotsTypeOK
<1>4. SlotsAccounted'
  <2>1. (\A k \in Jobs : active[k] <= 1)'
    <3>1. active[j] = 0
      BY AdmitCounts
    <3>2. QED BY <3>1 DEF Admit, SlotsInv, SlotsTypeOK, SlotsAccounted
  <2>2. ASSUME NEW w \in Weights
        PROVE  (used[w] = Cardinality(ActiveIds \cap Ids(w)) /\ used[w] <= Limit(w))'
    <3>1. used'[w] = used[w] + IF w = WeightOf(j) THEN 1 ELSE 0
      BY <1>1, <2>2 DEF Admit, SlotsInv, SlotsTypeOK
    <3>2. used'[w] = Cardinality(ActiveIds' \cap Ids(w))
      <4>1. Cardinality(ActiveIds' \cap Ids(w)) =
              Cardinality(ActiveIds \cap Ids(w)) + IF w = WeightOf(j) THEN 1 ELSE 0
        BY <2>2, AdmitCounts
      <4>2. used[w] = Cardinality(ActiveIds \cap Ids(w))
        BY <2>2 DEF SlotsInv, SlotsAccounted
      <4>3. QED BY <3>1, <4>1, <4>2
    <3>3. used'[w] <= Limit(w)
      <4>1. used[w] \in Nat /\ used[w] <= Limit(w)
        BY <2>2 DEF SlotsInv, SlotsTypeOK, SlotsAccounted
      <4>2. w = WeightOf(j) => used[w] < Limit(w)
        BY DEF Admit, CanAdmit
      <4>3. QED BY <2>2, <3>1, <4>1, <4>2, LimitType
    <3>4. QED BY <3>2, <3>3 DEF Ids, Limit
  <2>3. QED BY <2>1, <2>2 DEF SlotsAccounted
<1>5. WorkConserving'
  BY <1>1, <1>2, LimitType, WeightsOfIds
     DEF Admit, CanAdmit, WorkConserving, Queued, SlotsInv, SlotsTypeOK
<1>6. QED BY <1>3, <1>4, <1>5 DEF SlotsInv

THEOREM DeferInv ==
    ASSUME SlotsInv, NEW j \in Jobs, Defer(j)
    PROVE  SlotsInv'
<1> DEFINE n == Cardinality(Queued)
<1>0. n \in Nat /\ IsFiniteSet(Queued)
  BY JobsFinite DEF Queued
<1> HIDE DEF n
<1>1. CASE j \in Queued
  <2>1. UNCHANGED slotVars
    BY <1>1 DEF Defer, slotVars
  <2>2. Queued' = Queued /\ ActiveIds' = ActiveIds
    BY <2>1 DEF slotVars, Queued, ActiveIds
  <2>3. QED BY <2>1, <2>2 DEF slotVars, SlotsInv, SlotsTypeOK, SlotsAccounted,
                              WorkConserving, CanAdmit
<1>2. CASE j \notin Queued
  <2>1. place' = [place EXCEPT ![j] = n + 1]
    BY <1>2 DEF Defer, n
  <2>2. Queued' = Queued \cup {j}
    <3>1. \A k \in Jobs : place'[k] = IF k = j THEN n + 1 ELSE place[k]
      BY <2>1 DEF SlotsInv, SlotsTypeOK
    <3>2. QED BY <1>0, <3>1 DEF Queued
  <2>3. Cardinality(Queued') = n + 1
    BY <1>0, <1>2, <2>2, FS_AddElement DEF n
  <2>4. {place[k] : k \in Queued} = 1..n
    BY DEF SlotsInv, SlotsTypeOK, n
  <2>5. {place'[k] : k \in Queued'} = {place[k] : k \in Queued} \cup {n + 1}
    BY <1>2, <2>1, <2>2 DEF Queued, SlotsInv, SlotsTypeOK
  <2>6. 1..(n + 1) = (1..n) \cup {n + 1}
    BY <1>0
  <2>7. ({place[k] : k \in Queued} = 1..Cardinality(Queued))'
    BY <2>3, <2>4, <2>5, <2>6
  <2>8. SlotsTypeOK'
    BY <1>0, <2>1, <2>7 DEF Defer, SlotsInv, SlotsTypeOK
  <2>9. SlotsAccounted'
    <3>1. ActiveIds' = ActiveIds
      BY DEF Defer, ActiveIds
    <3>2. QED BY <3>1 DEF Defer, SlotsInv, SlotsAccounted
  <2>10. WorkConserving'
    BY <2>2 DEF Defer, CanAdmit, WorkConserving, SlotsInv
  <2>11. QED BY <2>8, <2>9, <2>10 DEF SlotsInv
<1>3. QED BY <1>1, <1>2

THEOREM StopInv == ASSUME SlotsInv, Stop PROVE SlotsInv'
<1>1. Queued' = {} /\ ActiveIds' = ActiveIds
  BY DEF Stop, Queued, ActiveIds
<1>2. ({place[k] : k \in Queued} = 1..Cardinality(Queued))'
  BY <1>1, FS_EmptySet
<1>3. SlotsTypeOK'
  BY <1>2 DEF Stop, SlotsInv, SlotsTypeOK
<1>4. SlotsAccounted' /\ WorkConserving'
  BY <1>1 DEF Stop, SlotsInv, SlotsAccounted, WorkConserving
<1>5. QED BY <1>3, <1>4 DEF SlotsInv

-----------------------------------------------------------------------------
(* Releasing a slot *)

\* What the release frees before it looks at the queue.
LEMMA FreedSlot ==
    ASSUME SlotsInv, NEW j \in Jobs, active[j] > 0
    PROVE  /\ \A k \in Jobs : Freed(j)[k] = IF k = j THEN 0 ELSE active[k]
           /\ \A w \in Weights :
                /\ Spared(j)[w] = IF w = WeightOf(j) THEN used[w] - 1 ELSE used[w]
                /\ Spared(j)[w] \in Nat
<1>1. \A k \in Jobs : Freed(j)[k] = IF k = j THEN 0 ELSE active[k]
  BY DEF Freed, SlotsInv, SlotsTypeOK, SlotsAccounted
<1>2. used[WeightOf(j)] > 0
  <2>1. j \in ActiveIds \cap Ids(WeightOf(j))
    BY WeightsOfIds DEF ActiveIds
  <2>2. IsFiniteSet(ActiveIds \cap Ids(WeightOf(j)))
    BY JobsFinite DEF ActiveIds
  <2>3. Cardinality(ActiveIds \cap Ids(WeightOf(j))) # 0
    BY <2>1, <2>2, FS_EmptySet
  <2>4. used[WeightOf(j)] = Cardinality(ActiveIds \cap Ids(WeightOf(j)))
    BY WeightsOfIds DEF SlotsInv, SlotsAccounted
  <2>5. QED BY <2>3, <2>4, WeightsOfIds DEF SlotsInv, SlotsTypeOK
<1>3. \A w \in Weights :
        /\ Spared(j)[w] = IF w = WeightOf(j) THEN used[w] - 1 ELSE used[w]
        /\ Spared(j)[w] \in Nat
  BY <1>2, WeightsOfIds DEF Spared, SlotsInv, SlotsTypeOK
<1>4. QED BY <1>1, <1>3

\* An id the drain starts was queued, holds no slot, and has the weight of the
\* slot just freed: what waited for the other weight is as blocked as before.
LEMMA StartedFits ==
    ASSUME SlotsInv, NEW j \in Jobs, active[j] > 0, NEW k \in Started(j)
    PROVE  /\ k \in Queued
           /\ Freed(j)[k] = 0
           /\ WeightOf(k) = WeightOf(j)
           /\ used[WeightOf(j)] < Limit(WeightOf(j)) => k = j
           /\ used[WeightOf(j)] - 1 + Cardinality(Ahead(Freed(j), k)) < Limit(WeightOf(j))
<1>1. /\ k \in Queued
      /\ Freed(j)[k] = 0
      /\ Spared(j)[WeightOf(k)] + Cardinality(Ahead(Freed(j), k)) < Limit(WeightOf(k))
  BY DEF Started, Drained
<1>2. k \in Jobs /\ WeightOf(k) \in Weights /\ WeightOf(j) \in Weights
  BY <1>1, WeightsOfIds DEF Queued
<1>3. Cardinality(Ahead(Freed(j), k)) \in Nat
  BY JobsFinite DEF Ahead, Queued
<1>4. ~CanAdmit(active, used, k)
  BY <1>1 DEF SlotsInv, WorkConserving
<1>5. active[k] # 0 \/ used[WeightOf(k)] >= Limit(WeightOf(k))
  BY <1>2, <1>4, LimitType DEF CanAdmit, SlotsInv, SlotsTypeOK
<1>6. k # j => active[k] = 0
  BY <1>1, <1>2, FreedSlot
<1>7. Spared(j)[WeightOf(k)] =
        IF WeightOf(k) = WeightOf(j) THEN used[WeightOf(k)] - 1 ELSE used[WeightOf(k)]
  BY <1>2, FreedSlot
<1>8. used[WeightOf(k)] \in Nat /\ Limit(WeightOf(k)) \in Nat
  BY <1>2, LimitType DEF SlotsInv, SlotsTypeOK
<1>9. WeightOf(k) = WeightOf(j)
  BY <1>1, <1>3, <1>5, <1>6, <1>7, <1>8
<1>10. QED BY <1>1, <1>3, <1>5, <1>6, <1>7, <1>8, <1>9

\* A release starts at most one run: two ids that both found room would be two
\* ids queued one behind the other for the one slot that was freed.
LEMMA StartedAtMostOne ==
    ASSUME SlotsInv, NEW j \in Jobs, active[j] > 0,
           NEW k \in Started(j), NEW l \in Started(j)
    PROVE  k = l
<1> DEFINE w == WeightOf(j)
<1>1. used[w] \in Nat /\ Limit(w) \in Nat /\ used[w] <= Limit(w)
  BY WeightsOfIds, LimitType DEF SlotsInv, SlotsTypeOK, SlotsAccounted
<1>2. CASE used[w] < Limit(w)
  BY <1>2, StartedFits
<1>3. CASE used[w] = Limit(w)
  <2>1. ASSUME NEW m \in Started(j) PROVE Ahead(Freed(j), m) = {}
    <3>1. IsFiniteSet(Ahead(Freed(j), m)) /\ Cardinality(Ahead(Freed(j), m)) \in Nat
      BY JobsFinite DEF Ahead, Queued
    <3>2. used[w] - 1 + Cardinality(Ahead(Freed(j), m)) < Limit(w)
      BY StartedFits
    <3>3. Cardinality(Ahead(Freed(j), m)) = 0
      BY <1>1, <1>3, <3>1, <3>2
    <3>4. QED BY <3>1, <3>3, FS_EmptySet
  <2>2. /\ k \in Queued /\ Freed(j)[k] = 0 /\ WeightOf(k) = w
        /\ l \in Queued /\ Freed(j)[l] = 0 /\ WeightOf(l) = w
    BY StartedFits
  <2>3. ~(place[k] < place[l]) /\ ~(place[l] < place[k])
    BY <2>1, <2>2 DEF Ahead
  <2>4. place[k] \in Nat /\ place[l] \in Nat
    BY <2>2 DEF Queued, SlotsInv, SlotsTypeOK
  <2>5. place[k] = place[l]
    BY <2>3, <2>4
  <2>6. QED BY <2>2, <2>5, PlacesDistinct DEF SlotsInv
<1>4. QED BY <1>1, <1>2, <1>3

\* Who holds a slot and who waits after a release.
LEMMA ReleaseSets ==
    ASSUME SlotsInv, NEW j \in Jobs, Release(j)
    PROVE  /\ active[j] > 0
           /\ Started(j) \subseteq Queued
           /\ \A k \in Jobs : active'[k] =
                IF k \in Started(j) THEN 1 ELSE IF k = j THEN 0 ELSE active[k]
           /\ ActiveIds' = (ActiveIds \ {j}) \cup Started(j)
           /\ (ActiveIds \ {j}) \cap Started(j) = {}
           /\ Queued' = Queued \ Started(j)
<1> DEFINE S == Started(j)
<1>1. active[j] > 0
  BY DEF Release
<1>2. S \subseteq Queued /\ \A k \in S : Freed(j)[k] = 0
  BY <1>1, StartedFits
<1>3. \A k \in Jobs : Freed(j)[k] = IF k = j THEN 0 ELSE active[k]
  BY <1>1, FreedSlot
<1>4. \A k \in Jobs : active'[k] = Freed(j)[k] + IF k \in S THEN 1 ELSE 0
  BY DEF Release
<1>5. \A k \in Jobs : active[k] \in Nat
  BY DEF SlotsInv, SlotsTypeOK
<1>6. \A k \in Jobs : active'[k] =
        IF k \in S THEN 1 ELSE IF k = j THEN 0 ELSE active[k]
  BY <1>2, <1>3, <1>4, <1>5
<1>7. ActiveIds' = (ActiveIds \ {j}) \cup S
  BY <1>2, <1>5, <1>6 DEF ActiveIds, Queued
<1>8. (ActiveIds \ {j}) \cap S = {}
  BY <1>2, <1>3 DEF ActiveIds
<1>9. Queued' = Queued \ S
  <2> DEFINE C(k) == Cardinality({m \in S : place[m] < place[k]})
  <2>1. \A k \in Jobs : place'[k] = IF k \in S \/ place[k] = 0 THEN 0
                                    ELSE place[k] - C(k)
    BY DEF Release, Without
  <2> HIDE DEF C
  <2>2. ASSUME NEW k \in Queued, k \notin S
        PROVE  place'[k] > 0
    <3>1. k \in Jobs /\ place[k] \in Nat /\ place[k] > 0
      BY <2>2 DEF Queued, SlotsInv, SlotsTypeOK
    <3>2. CASE {m \in S : place[m] < place[k]} = {}
      <4>1. C(k) = 0
        BY <3>2, FS_EmptySet DEF C
      <4>2. QED BY <2>1, <2>2, <3>1, <4>1
    <3>3. CASE {m \in S : place[m] < place[k]} # {}
      <4>1. PICK s \in S : place[s] < place[k]
        BY <3>3
      <4>2. {m \in S : place[m] < place[k]} = {s}
        BY <1>1, <4>1, StartedAtMostOne
      <4>3. place[s] \in Nat /\ place[s] > 0
        BY <1>2, <4>1 DEF Queued, SlotsInv, SlotsTypeOK
      <4>4. C(k) = 1
        BY <4>2, FS_Singleton DEF C
      <4>5. place'[k] = place[k] - 1
        BY <2>1, <2>2, <3>1, <4>4
      <4>6. QED BY <3>1, <4>1, <4>3, <4>5
    <3>4. QED BY <3>2, <3>3
  <2>3. \A k \in Jobs : (k \in S \/ k \notin Queued) => place'[k] = 0
    <3>1. \A k \in Jobs : k \notin Queued => place[k] = 0
      BY DEF Queued, SlotsInv, SlotsTypeOK
    <3>2. QED BY <2>1, <3>1
  <2>4. QED BY <2>2, <2>3 DEF Queued
<1>10. QED BY <1>1, <1>2, <1>6, <1>7, <1>8, <1>9

\* The queue closes up behind the id that left it.
LEMMA ReleasePlaces ==
    ASSUME SlotsInv, NEW j \in Jobs, Release(j)
    PROVE  /\ place' \in [Jobs -> Nat]
           /\ {place'[k] : k \in Queued'} = 1..Cardinality(Queued')
<1> DEFINE S == Started(j)
<1> DEFINE n == Cardinality(Queued)
<1> DEFINE C(k) == Cardinality({m \in S : place[m] < place[k]})
<1>1. /\ \A k \in Jobs : place'[k] = IF k \in S \/ place[k] = 0 THEN 0
                                    ELSE place[k] - C(k)
      /\ DOMAIN place' = Jobs
      /\ place' = [k \in Jobs |-> place'[k]]
  BY DEF Release, Without
<1> HIDE DEF C
<1>2. /\ \A k \in Jobs : place[k] \in Nat
      /\ {place[k] : k \in Queued} = 1..n
      /\ \A k \in Queued : k \in Jobs /\ place[k] > 0 /\ place[k] <= n
  BY DEF SlotsInv, SlotsTypeOK, Queued
<1>3. Queued' = Queued \ S /\ active[j] > 0 /\ S \subseteq Queued
  BY ReleaseSets
<1>4. n \in Nat /\ IsFiniteSet(Queued)
  BY JobsFinite DEF Queued
<1>5. CASE S = {}
  <2>1. \A k \in Jobs : C(k) = 0
    BY <1>5, FS_EmptySet DEF C
  <2>2. \A k \in Jobs : place'[k] = place[k]
    BY <1>1, <1>2, <1>5, <2>1
  <2>3. Queued' = Queued
    BY <1>3, <1>5
  <2>4. {place'[k] : k \in Queued'} = {place[k] : k \in Queued}
    BY <1>2, <2>2, <2>3
  <2>5. QED BY <1>1, <1>2, <2>2, <2>3, <2>4
<1>6. CASE S # {}
  <2>1. PICK s \in S : TRUE
    BY <1>6
  <2>2. S = {s} /\ s \in Queued
    BY <1>3, <2>1, StartedAtMostOne
  <2>3. ASSUME NEW k \in Jobs
        PROVE  C(k) = IF place[s] < place[k] THEN 1 ELSE 0
    <3>1. place[s] < place[k] => {m \in S : place[m] < place[k]} = {s}
      BY <2>2
    <3>2. ~(place[s] < place[k]) => {m \in S : place[m] < place[k]} = {}
      BY <2>2
    <3>3. QED BY <3>1, <3>2, FS_EmptySet, FS_Singleton DEF C
  <2>4. \A k \in Queued' : place'[k] = IF place[s] < place[k] THEN place[k] - 1
                                        ELSE place[k]
    <3>1. \A k \in Queued' : k \in Jobs /\ k \notin S /\ place[k] # 0
      BY <1>2, <1>3
    <3>2. QED BY <1>1, <1>2, <2>3, <3>1
  <2>5. place[s] \in 1..n
    BY <1>2, <2>2
  <2>6. \A k \in Queued' : place[k] \in 1..n /\ place[k] # place[s]
    BY <1>2, <1>3, <2>2, PlacesDistinct DEF SlotsInv
  <2>7. Cardinality(Queued') = n - 1
    BY <1>3, <1>4, <2>2, FS_RemoveElement
  <2>8. ASSUME NEW v \in 1..(n - 1)
        PROVE  \E k \in Queued' : place'[k] = v
    <3>1. CASE v < place[s]
      <4>1. PICK k \in Queued : place[k] = v
        BY <1>2, <1>4, <2>8
      <4>2. k \in Queued'
        BY <1>3, <2>2, <2>5, <3>1, <4>1
      <4>3. QED BY <1>4, <2>4, <2>5, <2>8, <3>1, <4>1, <4>2
    <3>2. CASE v >= place[s]
      <4>1. PICK k \in Queued : place[k] = v + 1
        BY <1>2, <1>4, <2>8
      <4>2. k \in Queued'
        BY <1>3, <1>4, <2>2, <2>5, <2>8, <3>2, <4>1
      <4>3. QED BY <1>4, <2>4, <2>5, <2>8, <3>2, <4>1, <4>2
    <3>3. QED BY <1>4, <2>5, <2>8, <3>1, <3>2
  <2>9. \A k \in Queued' : place'[k] \in 1..(n - 1)
    BY <1>4, <2>4, <2>5, <2>6
  <2>10. {place'[k] : k \in Queued'} = 1..Cardinality(Queued')
    BY <2>7, <2>8, <2>9
  <2>11. ASSUME NEW k \in Jobs PROVE place'[k] \in Nat
    <3>1. k \in Queued' => place'[k] \in Nat
      BY <1>4, <2>9
    <3>2. k \notin Queued' => place'[k] = 0
      BY <1>1, <1>2, <1>3 DEF Queued
    <3>3. QED BY <3>1, <3>2
  <2>12. QED BY <1>1, <2>10, <2>11
<1>7. QED BY <1>5, <1>6

\* The counters follow: what was freed, plus what the drain took again.
LEMMA ReleaseCounts ==
    ASSUME SlotsInv, NEW j \in Jobs, Release(j), NEW w \in Weights
    PROVE  /\ used'[w] \in Nat
           /\ used'[w] = Cardinality(ActiveIds' \cap Ids(w))
           /\ used'[w] <= Limit(w)
           /\ w # WeightOf(j) => used'[w] = used[w]
           /\ (w = WeightOf(j) /\ Started(j) # {}) => used'[w] = used[w]
<1> DEFINE S == Started(j)
<1> DEFINE A == (ActiveIds \ {j}) \cap Ids(w)
<1> DEFINE B == S \cap Ids(w)
<1>1. active[j] > 0 /\ S \subseteq Queued
      /\ ActiveIds' = (ActiveIds \ {j}) \cup S /\ (ActiveIds \ {j}) \cap S = {}
  BY ReleaseSets
<1>2. /\ Spared(j)[w] = IF w = WeightOf(j) THEN used[w] - 1 ELSE used[w]
      /\ Spared(j)[w] \in Nat
  BY <1>1, FreedSlot
<1>3. used'[w] = Spared(j)[w] + Cardinality(B)
  BY DEF Release
<1>4. used[w] \in Nat /\ used[w] = Cardinality(ActiveIds \cap Ids(w))
      /\ used[w] <= Limit(w) /\ Limit(w) \in Nat
  BY LimitType DEF SlotsInv, SlotsTypeOK, SlotsAccounted
<1>5. /\ IsFiniteSet(A) /\ IsFiniteSet(B) /\ IsFiniteSet(ActiveIds \cap Ids(w))
      /\ Cardinality(B) \in Nat /\ Cardinality(A) \in Nat
  BY <1>1, JobsFinite, WeightsOfIds DEF ActiveIds, Queued
<1>6. Cardinality(A) = Spared(j)[w]
  <2>1. A = (ActiveIds \cap Ids(w)) \ {j}
    OBVIOUS
  <2>2. j \in ActiveIds \cap Ids(w) <=> w = WeightOf(j)
    BY <1>1, WeightsOfIds DEF ActiveIds
  <2>3. Cardinality((ActiveIds \cap Ids(w)) \ {j}) =
          IF j \in ActiveIds \cap Ids(w) THEN Cardinality(ActiveIds \cap Ids(w)) - 1
          ELSE Cardinality(ActiveIds \cap Ids(w))
    BY <1>5, FS_RemoveElement
  <2> HIDE DEF A
  <2>4. QED BY <1>2, <1>4, <2>1, <2>2, <2>3
<1>7. Cardinality(ActiveIds' \cap Ids(w)) = Cardinality(A) + Cardinality(B)
  <2>1. ActiveIds' \cap Ids(w) = A \cup B /\ A \cap B = {}
    BY <1>1
  <2>2. Cardinality(A \cup B) = Cardinality(A) + Cardinality(B) - Cardinality(A \cap B)
    <3> HIDE DEF A, B
    <3> QED BY <1>5, FS_Union
  <2>3. Cardinality(A \cap B) = 0
    BY <2>1, FS_EmptySet
  <2>4. Cardinality(ActiveIds' \cap Ids(w)) = Cardinality(A \cup B)
    BY <2>1
  <2> HIDE DEF A, B
  <2>5. QED BY <1>5, <2>2, <2>3, <2>4
<1>8. B # {} => w = WeightOf(j) /\ B = S /\ Cardinality(B) = 1
  <2>1. ASSUME NEW k \in B
        PROVE  w = WeightOf(j) /\ B = S /\ Cardinality(B) = 1
    <3>1. k \in Jobs /\ WeightOf(k) = WeightOf(j)
      BY <1>1, StartedFits DEF Queued
    <3>2. w = WeightOf(j)
      BY <3>1, WeightsOfIds
    <3>3. S = {k}
      BY <1>1, StartedAtMostOne
    <3>4. B = {k}
      BY <3>3
    <3>5. QED BY <3>2, <3>3, <3>4, FS_Singleton
  <2>2. QED BY <2>1
<1>9. B = {} => Cardinality(B) = 0
  BY FS_EmptySet
<1>10. (w = WeightOf(j) /\ S # {}) => B # {}
  <2>1. ASSUME NEW k \in S, w = WeightOf(j) PROVE k \in B
    BY <1>1, <2>1, StartedFits, WeightsOfIds DEF Queued
  <2>2. QED BY <2>1
<1> HIDE DEF A, B, S
<1>11. /\ used'[w] \in Nat
       /\ used'[w] = Cardinality(ActiveIds' \cap Ids(w))
       /\ used'[w] <= Limit(w)
       /\ w # WeightOf(j) => used'[w] = used[w]
       /\ (w = WeightOf(j) /\ S # {}) => used'[w] = used[w]
  BY <1>2, <1>3, <1>4, <1>5, <1>6, <1>7, <1>8, <1>9, <1>10
<1>12. QED BY <1>11 DEF S

\* Nothing that fits is left behind: of the ids still queued, one that holds no
\* slot finds its weight full, by the run that was started ahead of it.
LEMMA ReleaseConserves ==
    ASSUME SlotsInv, NEW j \in Jobs, Release(j), NEW k \in Queued'
    PROVE  ~CanAdmit(active', used', k)
<1> DEFINE w == WeightOf(k)
<1>1. /\ active[j] > 0 /\ k \in Queued /\ k \notin Started(j)
      /\ \A m \in Jobs : active'[m] =
           IF m \in Started(j) THEN 1 ELSE IF m = j THEN 0 ELSE active[m]
  BY ReleaseSets
<1>2. k \in Jobs /\ w \in Weights /\ WeightOf(j) \in Weights
  BY <1>1, WeightsOfIds DEF Queued
<1>3. SUFFICES ASSUME active'[k] = 0 PROVE used'[w] >= Limit(w)
  <2>1. used'[w] \in Nat /\ Limit(w) \in Nat
    BY <1>2, ReleaseCounts, LimitType
  <2>2. QED BY <1>3, <2>1 DEF CanAdmit
<1>4. Freed(j)[k] = 0 /\ (k # j => active[k] = 0)
  BY <1>1, <1>2, <1>3, FreedSlot
<1>5. /\ used[w] \in Nat /\ Limit(w) \in Nat /\ used[w] <= Limit(w)
      /\ \A m \in Queued : active[m] = 0 => used[WeightOf(m)] >= Limit(WeightOf(m))
  <2>1. used[w] \in Nat /\ Limit(w) \in Nat /\ used[w] <= Limit(w)
    BY <1>2, LimitType DEF SlotsInv, SlotsTypeOK, SlotsAccounted
  <2>2. ASSUME NEW m \in Queued, active[m] = 0
        PROVE  used[WeightOf(m)] >= Limit(WeightOf(m))
    <3>1. ~CanAdmit(active, used, m) /\ WeightOf(m) \in Weights
      BY WeightsOfIds DEF SlotsInv, WorkConserving, Queued
    <3>2. QED BY <2>2, <3>1, LimitType DEF CanAdmit, SlotsInv, SlotsTypeOK
  <2>3. QED BY <2>1, <2>2
<1>6. CASE w # WeightOf(j)
  <2>1. k # j
    BY <1>6
  <2>2. used'[w] = used[w]
    BY <1>2, <1>6, ReleaseCounts
  <2>3. QED BY <1>1, <1>4, <1>5, <2>1, <2>2
<1>7. CASE w = WeightOf(j)
  <2>1. Spared(j)[w] + Cardinality(Ahead(Freed(j), k)) >= Limit(w)
    <3>1. ~(Spared(j)[w] + Cardinality(Ahead(Freed(j), k)) < Limit(w))
      BY <1>1, <1>4 DEF Started, Drained
    <3>2. Cardinality(Ahead(Freed(j), k)) \in Nat
      BY JobsFinite DEF Ahead, Queued
    <3>3. Spared(j)[w] \in Nat
      BY <1>1, <1>2, FreedSlot
    <3>4. QED BY <1>5, <3>1, <3>2, <3>3
  <2>2. Spared(j)[w] = used[w] - 1
    BY <1>1, <1>2, <1>7, FreedSlot
  <2>3. Ahead(Freed(j), k) # {}
    <3>1. Ahead(Freed(j), k) = {} => Cardinality(Ahead(Freed(j), k)) = 0
      BY FS_EmptySet
    <3>2. QED BY <1>5, <2>1, <2>2, <3>1
  <2>4. PICK m \in Ahead(Freed(j), k) :
               \A q \in Ahead(Freed(j), k) : place[m] <= place[q]
    <3> DEFINE T == {place[q] : q \in Ahead(Freed(j), k)}
    <3>1. T \in SUBSET Nat
      BY DEF Ahead, Queued, SlotsInv, SlotsTypeOK
    <3>2. T # {}
      BY <2>3
    <3>3. PICK x \in T : \A y \in T : x <= y
      <4> HIDE DEF T
      <4> QED BY <3>1, <3>2, FirstPlace
    <3>4. QED BY <3>3
  <2>5. m \in Queued /\ Freed(j)[m] = 0 /\ WeightOf(m) = w /\ m \in Jobs
        /\ place[m] < place[k] /\ place[m] \in Nat /\ place[k] \in Nat
    BY <1>1, <1>2, <2>4 DEF Ahead, Queued, SlotsInv, SlotsTypeOK
  <2>6. Ahead(Freed(j), m) = {}
    <3>1. ASSUME NEW q \in Ahead(Freed(j), m) PROVE FALSE
      <4>1. q \in Queued /\ place[q] \in Nat /\ place[q] < place[m]
            /\ Freed(j)[q] = 0 /\ WeightOf(q) = WeightOf(m)
        BY DEF Ahead, Queued, SlotsInv, SlotsTypeOK
      <4>2. q \in Ahead(Freed(j), k)
        BY <2>5, <4>1 DEF Ahead
      <4>3. QED BY <2>4, <2>5, <4>1, <4>2
    <3>2. QED BY <3>1
  <2>7. m \in Started(j)
    <3>1. Spared(j)[w] + Cardinality(Ahead(Freed(j), m)) < Limit(w)
      BY <1>5, <2>2, <2>6, FS_EmptySet
    <3>2. QED BY <2>5, <3>1 DEF Started, Drained
  <2>8. used'[w] = used[w]
    BY <1>2, <1>7, <2>7, ReleaseCounts
  <2>9. used[w] >= Limit(w)
    <3>1. CASE m # j
      <4>1. active[m] = 0
        BY <1>1, <2>5, <3>1, FreedSlot
      <4>2. QED BY <1>5, <2>5, <4>1
    <3>2. CASE m = j
      <4>1. k # j
        BY <1>1, <2>7, <3>2
      <4>2. QED BY <1>1, <1>4, <1>5, <4>1
    <3>3. QED BY <3>1, <3>2
  <2>10. QED BY <2>8, <2>9
<1>8. QED BY <1>6, <1>7

THEOREM ReleaseInv ==
    ASSUME SlotsInv, NEW j \in Jobs, Release(j)
    PROVE  SlotsInv'
<1>1. SlotsTypeOK'
  <2>1. \A k \in Jobs : active'[k] \in Nat
    BY ReleaseSets DEF SlotsInv, SlotsTypeOK
  <2>2. active' \in [Jobs -> Nat]
    BY <2>1 DEF Release
  <2>3. used' \in [Weights -> Nat]
    BY ReleaseCounts DEF Release
  <2>4. QED BY <2>2, <2>3, ReleasePlaces DEF Release, SlotsInv, SlotsTypeOK
<1>2. SlotsAccounted'
  <2>1. \A k \in Jobs : active'[k] <= 1
    BY ReleaseSets DEF SlotsInv, SlotsTypeOK, SlotsAccounted
  <2>2. QED BY <2>1, ReleaseCounts DEF SlotsAccounted
<1>3. WorkConserving'
  BY ReleaseConserves DEF WorkConserving
<1>4. QED BY <1>1, <1>2, <1>3 DEF SlotsInv

-----------------------------------------------------------------------------
(* The theorems *)

\* Every reachable state of the slots satisfies the inductive invariant.
THEOREM SlotsInvariance == SlotsSpec => []SlotsInv
<1>1. SlotsInit => SlotsInv
  BY SlotsInitInv
<1>2. SlotsInv /\ [SlotsNext]_slotVars => SlotsInv'
  <2> SUFFICES ASSUME SlotsInv, [SlotsNext]_slotVars PROVE SlotsInv'
    OBVIOUS
  <2>1. ASSUME NEW j \in Jobs, Admit(j) PROVE SlotsInv'
    BY <2>1, AdmitInv
  <2>2. ASSUME NEW j \in Jobs, Defer(j) PROVE SlotsInv'
    BY <2>2, DeferInv
  <2>3. ASSUME NEW j \in Jobs, Release(j) PROVE SlotsInv'
    BY <2>3, ReleaseInv
  <2>4. CASE Stop
    BY <2>4, StopInv
  <2>5. CASE UNCHANGED slotVars
    <3>1. Queued' = Queued /\ ActiveIds' = ActiveIds
      BY <2>5 DEF slotVars, Queued, ActiveIds
    <3>2. QED BY <2>5, <3>1 DEF slotVars, SlotsInv, SlotsTypeOK, SlotsAccounted,
                                WorkConserving, CanAdmit
  <2>6. QED BY <2>1, <2>2, <2>3, <2>4, <2>5 DEF SlotsNext
<1>3. QED BY <1>1, <1>2, PTL DEF SlotsSpec

\* At most one heavy and two light jobs hold slots, no id holds two, and the
\* counters say so, whatever the order of requests and releases.
THEOREM SlotsAreAccounted == SlotsSpec => []SlotsAccounted
<1>1. SlotsInv => SlotsAccounted
  BY DEF SlotsInv
<1>2. QED BY <1>1, SlotsInvariance, PTL

\* The slots stay in their types and the queue a list, whatever a drain takes
\* out of its middle.
THEOREM SlotsTypeCorrect == SlotsSpec => []SlotsTypeOK
<1>1. SlotsInv => SlotsTypeOK
  BY DEF SlotsInv
<1>2. QED BY <1>1, SlotsInvariance, PTL

\* Nothing waits that could run.
THEOREM NothingWaitsThatFits == SlotsSpec => []WorkConserving
<1>1. SlotsInv => WorkConserving
  BY DEF SlotsInv
<1>2. QED BY <1>1, SlotsInvariance, PTL

\* The stop drops the queue and nothing is queued after it: what a release
\* would start must have been queued before.
StopEmptiesQueue == stopped => Queued = {}

LEMMA QueueStaysEmptyStep ==
    ASSUME SlotsInv, StopEmptiesQueue, [SlotsNext]_slotVars
    PROVE  StopEmptiesQueue'
<1> SUFFICES ASSUME stopped' PROVE Queued' = {}
  BY DEF StopEmptiesQueue
<1>1. ASSUME NEW j \in Jobs, Admit(j) \/ Defer(j) PROVE FALSE
  BY <1>1 DEF Admit, Defer
<1>2. ASSUME NEW j \in Jobs, Release(j) PROVE Queued' = {}
  <2>1. Queued' = Queued \ Started(j)
    BY <1>2, ReleaseSets
  <2>2. stopped
    BY <1>2 DEF Release
  <2>3. QED BY <2>1, <2>2 DEF StopEmptiesQueue
<1>3. CASE Stop
  BY <1>3 DEF Stop, Queued
<1>4. CASE UNCHANGED slotVars
  BY <1>4 DEF slotVars, StopEmptiesQueue, Queued
<1>5. QED BY <1>1, <1>2, <1>3, <1>4 DEF SlotsNext

LEMMA QueueStaysEmpty == SlotsSpec => []StopEmptiesQueue
<1>1. SlotsInit => StopEmptiesQueue
  BY DEF SlotsInit, StopEmptiesQueue
<1>2. QED BY <1>1, QueueStaysEmptyStep, SlotsInvariance, PTL DEF SlotsSpec

\* A step after the stop.
LEMMA StoppedStep ==
    ASSUME SlotsInv, StopEmptiesQueue, [SlotsNext]_slotVars, stopped
    PROVE  stopped' /\ ActiveIds' \subseteq ActiveIds
<1>1. ASSUME NEW j \in Jobs, Admit(j) \/ Defer(j) PROVE FALSE
  BY <1>1 DEF Admit, Defer
<1>2. ASSUME NEW j \in Jobs, Release(j)
      PROVE  stopped' /\ ActiveIds' \subseteq ActiveIds
  <2>1. /\ Started(j) \in SUBSET Queued
        /\ \A k \in Jobs : active'[k] = IF k \in Started(j) THEN 1
                                       ELSE IF k = j THEN 0 ELSE active[k]
    BY <1>2, ReleaseSets
  <2>2. Started(j) = {}
    BY <2>1 DEF StopEmptiesQueue
  <2>3. ActiveIds' \subseteq ActiveIds
    BY <2>1, <2>2 DEF ActiveIds
  <2>4. QED BY <1>2, <2>3 DEF Release
<1>3. CASE Stop \/ UNCHANGED slotVars
  BY <1>3 DEF Stop, slotVars, ActiveIds
<1>4. QED BY <1>1, <1>2, <1>3 DEF SlotsNext

\* After the stop no id takes a slot again, whatever was queued before it: the
\* safety half of `idle()`, whose other half is that every run ends.
THEOREM StoppedSlotsOnlyDrain == SlotsSpec => StoppedOnlyDrains
<1>1. SlotsInv /\ StopEmptiesQueue /\ [SlotsNext]_slotVars
        => [stopped => stopped' /\ ActiveIds' \subseteq ActiveIds]_slotVars
  BY StoppedStep
<1>2. QED BY <1>1, SlotsInvariance, QueueStaysEmpty, PTL
             DEF SlotsSpec, StoppedOnlyDrains

\* What was queued ahead of a started id, with its weight, runs itself: there
\* was one slot to give, or the id was waiting for its own run to end.
LEMMA StartedIsFirst ==
    ASSUME SlotsInv, NEW i \in Jobs, active[i] > 0, NEW j \in Started(i),
           NEW k \in Queued, WeightOf(k) = WeightOf(j), place[k] < place[j]
    PROVE  k # i /\ active[k] > 0
<1> DEFINE w == WeightOf(i)
<1>1. /\ j \in Queued /\ Freed(i)[j] = 0 /\ WeightOf(j) = w
      /\ used[w] < Limit(w) => j = i
      /\ used[w] - 1 + Cardinality(Ahead(Freed(i), j)) < Limit(w)
  BY StartedFits
<1>2. /\ used[w] \in Nat /\ Limit(w) \in Nat /\ used[w] <= Limit(w)
      /\ k \in Jobs /\ active[k] \in Nat /\ place[k] \in Nat /\ place[j] \in Nat
  BY <1>1, WeightsOfIds, LimitType DEF SlotsInv, SlotsTypeOK, SlotsAccounted, Queued
<1>3. CASE used[w] < Limit(w)
  <2>1. k # i
    BY <1>1, <1>2, <1>3
  <2>2. ~CanAdmit(active, used, k)
    BY DEF SlotsInv, WorkConserving
  <2>3. active[k] # 0
    BY <1>1, <1>3, <2>2 DEF CanAdmit
  <2>4. QED BY <1>2, <2>1, <2>3
<1>4. CASE used[w] = Limit(w)
  <2>1. IsFiniteSet(Ahead(Freed(i), j)) /\ Cardinality(Ahead(Freed(i), j)) \in Nat
    BY JobsFinite DEF Ahead, Queued
  <2>2. Cardinality(Ahead(Freed(i), j)) = 0
    BY <1>1, <1>2, <1>4, <2>1
  <2>3. Ahead(Freed(i), j) = {}
    BY <2>1, <2>2, FS_EmptySet
  <2>4. Freed(i)[k] # 0
    BY <1>1, <2>3 DEF Ahead
  <2>5. QED BY <1>2, <2>4, FreedSlot
<1>5. QED BY <1>2, <1>3, <1>4

\* A queued id that starts: what was queued before it, with its weight, and
\* stays queued is running itself.
LEMMA OrderStep ==
    ASSUME SlotsInv, [SlotsNext]_slotVars, NEW j \in Queued, NEW k \in Queued,
           WeightOf(j) = WeightOf(k), place[k] < place[j],
           active'[j] > active[j], k \in Queued'
    PROVE  active'[k] > 0
<1>1. j \in Jobs /\ k \in Jobs /\ active[j] \in Nat
  BY DEF Queued, SlotsInv, SlotsTypeOK
<1>2. ASSUME NEW i \in Jobs, Admit(i) PROVE FALSE
  <2>1. i = j
    BY <1>1, <1>2 DEF Admit, SlotsInv, SlotsTypeOK
  <2>2. QED BY <1>2, <2>1 DEF Admit, SlotsInv, WorkConserving
<1>3. ASSUME NEW i \in Jobs, Release(i) PROVE active'[k] > 0
  <2>1. /\ active[i] > 0 /\ Queued' = Queued \ Started(i)
        /\ \A l \in Jobs : active'[l] =
             IF l \in Started(i) THEN 1 ELSE IF l = i THEN 0 ELSE active[l]
    BY <1>3, ReleaseSets
  <2>2. j \in Started(i)
    BY <1>1, <2>1
  <2>3. k # i /\ active[k] > 0
    BY <2>1, <2>2, StartedIsFirst
  <2>4. QED BY <1>1, <2>1, <2>3
<1>4. CASE \E i \in Jobs : Defer(i)
  BY <1>1, <1>4 DEF Defer
<1>5. CASE Stop \/ UNCHANGED slotVars
  BY <1>1, <1>5 DEF Stop, slotVars
<1>6. QED BY <1>2, <1>3, <1>4, <1>5 DEF SlotsNext

\* First come, first served within a weight, whatever the job table: a drain
\* overtakes only ids that are running themselves (Slots::release).
THEOREM SlotsKeepOrder == SlotsSpec => QueueOrder
<1>1. SlotsInv /\ [SlotsNext]_slotVars =>
        [\A j, k \in Queued :
          /\ WeightOf(j) = WeightOf(k)
          /\ place[k] < place[j]
          /\ active'[j] > active[j]
          /\ k \in Queued'
          => active'[k] > 0]_slotVars
  BY OrderStep
<1>2. QED BY <1>1, SlotsInvariance, PTL DEF SlotsSpec, QueueOrder

\* The pool counts as the slots do.
LEMMA PoolCardinality == ASSUME NEW S PROVE Pool!Cardinality(S) = Cardinality(S)
BY DEF Pool!Cardinality, Cardinality

\* The pool's names for the ids of a weight and its limit are the slots' own.
LEMMA PoolRoom ==
    ASSUME NEW R, NEW k \in Jobs
    PROVE  Pool!Room(R, k) <=> /\ k \notin R
                               /\ Cardinality(R \cap Ids(WeightOf(k)))
                                    < Limit(WeightOf(k))
<1> DEFINE w == WeightOf(k)
<1>1. Pool!WeightOf(k) = w
  BY DEF Pool!WeightOf, WeightOf
<1>2. Pool!Ids(w) = Ids(w)
  BY DEF Pool!Ids, Ids
<1>3. Pool!Limit(w) = Limit(w)
  BY DEF Pool!Limit, Limit
<1> HIDE DEF w
<1>4. Pool!Room(R, k) <=> /\ k \notin R
                          /\ Cardinality(R \cap Ids(w)) < Limit(w)
  BY <1>1, <1>2, <1>3, PoolCardinality DEF Pool!Room
<1>5. QED BY <1>4 DEF w

\* The slots' room for an id is the pool's, before a step...
LEMMA RoomIsCanAdmit ==
    ASSUME SlotsInv, NEW k \in Jobs
    PROVE  Pool!Room(ActiveIds, k) <=> CanAdmit(active, used, k)
<1>1. WeightOf(k) \in Weights /\ active[k] \in Nat
  BY WeightsOfIds DEF SlotsInv, SlotsTypeOK
<1>2. k \in ActiveIds <=> active[k] # 0
  BY <1>1 DEF ActiveIds
<1>3. used[WeightOf(k)] = Cardinality(ActiveIds \cap Ids(WeightOf(k)))
  BY <1>1 DEF SlotsInv, SlotsAccounted
<1>4. QED BY <1>2, <1>3, PoolRoom DEF CanAdmit

\* ... and after it.
LEMMA RoomIsCanAdmitNext ==
    ASSUME SlotsInv', NEW k \in Jobs
    PROVE  Pool!Room(ActiveIds', k) <=> CanAdmit(active', used', k)
<1>1. WeightOf(k) \in Weights /\ active'[k] \in Nat
  BY WeightsOfIds DEF SlotsInv, SlotsTypeOK
<1>2. k \in ActiveIds' <=> active'[k] # 0
  BY <1>1 DEF ActiveIds
<1>3. used'[WeightOf(k)] = Cardinality(ActiveIds' \cap Ids(WeightOf(k)))
  BY <1>1 DEF SlotsInv, SlotsAccounted
<1>4. QED BY <1>2, <1>3, PoolRoom DEF CanAdmit

\* The slots keep the executor's promise: every step of theirs is one of the
\* pool's, where nobody sees counters or a queue.
THEOREM SlotsImplementPool == SlotsSpec => ImplementsPool
<1>1. SlotsInit => Pool!Init
  BY DEF SlotsInit, Pool!Init, ActiveIds, Queued
<1>2. SlotsInv /\ SlotsInv' /\ [SlotsNext]_slotVars => [Pool!Next]_(Pool!vars)
  <2> SUFFICES ASSUME SlotsInv, SlotsInv', [SlotsNext]_slotVars
               PROVE  [Pool!Next]_(Pool!vars)
    OBVIOUS
  <2>1. ASSUME NEW j \in Jobs, Admit(j) PROVE Pool!Start(j)
    <3>1. ActiveIds' = ActiveIds \cup {j} /\ Queued' = Queued
      BY <2>1, AdmitCounts DEF Admit, Queued
    <3>2. Pool!Room(ActiveIds, j)
      BY <2>1, RoomIsCanAdmit DEF Admit
    <3>3. QED BY <2>1, <3>1, <3>2 DEF Pool!Start, Admit
  <2>2. ASSUME NEW j \in Jobs, Defer(j) PROVE Pool!Wait(j)
    <3>1. ActiveIds' = ActiveIds
      BY <2>2 DEF Defer, ActiveIds
    <3>2. Queued' = Queued \cup {j}
      <4>1. Cardinality(Queued) + 1 > 0
        BY JobsFinite DEF Queued
      <4>2. CASE j \in Queued
        BY <2>2, <4>2 DEF Defer, Queued
      <4>3. CASE j \notin Queued
        <5>1. \A k \in Jobs : place'[k] = IF k = j THEN Cardinality(Queued) + 1
                                          ELSE place[k]
          BY <2>2, <4>3 DEF Defer, SlotsInv, SlotsTypeOK
        <5>2. QED BY <4>1, <5>1 DEF Queued
      <4>4. QED BY <4>2, <4>3
    <3>3. ~Pool!Room(ActiveIds, j)
      BY <2>2, RoomIsCanAdmit DEF Defer
    <3>4. QED BY <2>2, <3>1, <3>2, <3>3 DEF Pool!Wait, Defer
  <2>3. ASSUME NEW j \in Jobs, Release(j) PROVE Pool!Finish(j)
    <3>1. /\ j \in ActiveIds
          /\ Started(j) \in SUBSET Queued
          /\ ActiveIds' = (ActiveIds \ {j}) \cup Started(j)
          /\ Queued' = Queued \ Started(j)
      BY <2>3, ReleaseSets DEF ActiveIds
    <3>2. Pool!WithinLimits(ActiveIds')
      <4>1. ASSUME NEW w \in Weights
            PROVE  Cardinality(ActiveIds' \cap Ids(w)) <= Limit(w)
        BY <4>1 DEF SlotsInv, SlotsAccounted
      <4>2. \A w \in Weights : Pool!Ids(w) = Ids(w)
        BY DEF Pool!Ids, Ids
      <4>3. \A w \in Weights : Pool!Limit(w) = Limit(w)
        BY DEF Pool!Limit, Limit
      <4>4. Pool!Weights = Weights
        BY DEF Pool!Weights, Weights
      <4>5. QED BY <4>1, <4>2, <4>3, <4>4, PoolCardinality DEF Pool!WithinLimits
    <3>3. ASSUME NEW k \in Queued' PROVE ~Pool!Room(ActiveIds', k)
      <4>1. k \in Jobs
        BY <3>3 DEF Queued
      <4>2. ~CanAdmit(active', used', k)
        BY <3>3 DEF SlotsInv, WorkConserving
      <4>3. QED BY <4>1, <4>2, RoomIsCanAdmitNext
    <3>4. QED BY <2>3, <3>1, <3>2, <3>3 DEF Pool!Finish, Release
  <2>4. CASE Stop
    <3>1. ActiveIds' = ActiveIds /\ Queued' = {}
      BY <2>4 DEF Stop, ActiveIds, Queued
    <3>2. Pool!Close
      BY <2>4, <3>1 DEF Pool!Close, Stop
    <3>3. QED BY <3>2 DEF Pool!Next
  <2>5. CASE UNCHANGED slotVars
    BY <2>5 DEF slotVars, Pool!vars, ActiveIds, Queued
  <2>6. Jobs = Pool!Jobs
    BY DEF Jobs, Pool!Jobs
  <2>7. QED BY <2>1, <2>2, <2>3, <2>4, <2>5, <2>6 DEF SlotsNext, Pool!Next
<1>3. QED BY <1>1, <1>2, SlotsInvariance, PTL DEF SlotsSpec, ImplementsPool, Pool!Spec
=============================================================================
