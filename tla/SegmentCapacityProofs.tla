----------------------- MODULE SegmentCapacityProofs ------------------------
(***************************************************************************)
(* Proofs about SegmentCapacity for every set of requests and every        *)
(* maximum.  Inv is inductive: it is shown conjunct by conjunct, one case  *)
(* per action, and the bound on overbooking, the lock's mutual exclusion   *)
(* and the refinement of SlotLedger follow from it.                        *)
(***************************************************************************)
EXTENDS SegmentCapacity, FiniteSetTheorems, TLAPS

-----------------------------------------------------------------------------
\* Lemmas about the sets being counted.

\* The requests are finitely many and the overshoot is a natural number.
LEMMA OvershootType ==
    /\ IsFiniteSet(Workers)
    /\ Cardinality(Workers) \in Nat \ {0}
    /\ Cardinality(LocalSagas) \in Nat
    /\ Overshoot \in Nat
<1>1. IsFiniteSet(Workers)
  BY FS_Union, WorkersAssumption DEF Workers
<1>2. Cardinality(Workers) \in Nat
  BY <1>1, FS_CardinalityType
<1>3. Cardinality(Workers) # 0
  BY <1>1, FS_EmptySet, WorkersAssumption
<1>4. Cardinality(LocalSagas) \in Nat
  BY FS_CardinalityType, WorkersAssumption
<1> QED
  BY <1>1, <1>2, <1>3, <1>4, LapseAssumption DEF Overshoot

\* So are the requests that hold a stake, before and after a step.
LEMMA StakedFinite ==
    /\ IsFiniteSet(Staked) /\ Cardinality(Staked) \in Nat
    /\ IsFiniteSet(Staked') /\ Cardinality(Staked') \in Nat
    /\ Staked \subseteq Workers /\ Staked' \subseteq Workers
<1>1. Staked \subseteq Workers /\ Staked' \subseteq Workers
  BY DEF Staked
<1>2. IsFiniteSet(Staked) /\ IsFiniteSet(Staked')
  BY <1>1, OvershootType, FS_Subset
<1> QED
  BY <1>1, <1>2, FS_CardinalityType

\* Giving up a stake, or a reservation, keeps the bound.
LEMMA FewerStakes ==
    ASSUME TypeOK, TypeOK', StakesBounded,
           Staked' \subseteq Staked, booked' <= booked
    PROVE  StakesBounded'
<1>1. Cardinality(Staked') <= Cardinality(Staked)
  BY StakedFinite, FS_Subset
<1> QED
  BY <1>1, StakedFinite, OvershootType, CapacityAssumption
  DEF StakesBounded, TypeOK

\* Turning a stake into a reservation keeps the bound.
LEMMA SpentStake ==
    ASSUME TypeOK, TypeOK', StakesBounded,
           NEW w \in Staked, Staked' \subseteq Staked \ {w},
           booked' = booked + 1
    PROVE  StakesBounded'
<1>1. /\ IsFiniteSet(Staked \ {w})
      /\ Cardinality(Staked \ {w}) = Cardinality(Staked) - 1
  BY StakedFinite, FS_RemoveElement
<1>2. Cardinality(Staked') <= Cardinality(Staked \ {w})
  BY <1>1, FS_Subset
<1> QED
  BY <1>1, <1>2, StakedFinite, OvershootType, CapacityAssumption
  DEF StakesBounded, TypeOK

\* A stake is taken only while there is a free place: the bound holds
\* whenever at most one request besides the local sagas has a stake.
LEMMA NewStake ==
    ASSUME TypeOK', booked' < Capacity,
           NEW w, LockMayLapse \/ Staked' \subseteq LocalSagas \cup {w}
    PROVE  StakesBounded'
<1>1. CASE LockMayLapse
  <2>1. Cardinality(Staked') <= Cardinality(Workers)
    BY StakedFinite, OvershootType, FS_Subset
  <2>2. Overshoot = Cardinality(Workers) - 1
    BY <1>1 DEF Overshoot
  <2> QED
    BY <2>1, <2>2, StakedFinite, OvershootType, CapacityAssumption
    DEF StakesBounded, TypeOK
<1>2. CASE ~LockMayLapse
  <2>1. /\ IsFiniteSet(LocalSagas \cup {w})
        /\ Cardinality(LocalSagas \cup {w}) <= Cardinality(LocalSagas) + 1
    <3>1. IsFiniteSet(LocalSagas)
      BY WorkersAssumption
    <3>2. /\ IsFiniteSet(LocalSagas \cup {w})
          /\ Cardinality(LocalSagas \cup {w})
                = IF w \in LocalSagas THEN Cardinality(LocalSagas)
                                      ELSE Cardinality(LocalSagas) + 1
      BY <3>1, FS_AddElement
    <3> QED
      BY <3>2, OvershootType
  <2>2. Cardinality(Staked') <= Cardinality(LocalSagas \cup {w})
    BY <1>2, <2>1, FS_Subset
  <2>3. Overshoot = Cardinality(LocalSagas)
    BY <1>2 DEF Overshoot
  <2>4. Cardinality(Staked') <= Overshoot + 1
    BY <2>1, <2>2, <2>3, StakedFinite, OvershootType, FS_CardinalityType
  <2> QED
    BY <2>4, StakedFinite, OvershootType, CapacityAssumption
    DEF StakesBounded, TypeOK
<1> QED
  BY <1>1, <1>2, LapseAssumption
-----------------------------------------------------------------------------
\* The inductive invariant, one conjunct at a time.

\* Typing is preserved by every action.
LEMMA TypeStep == TypeOK /\ [Next]_vars => TypeOK'
<1> SUFFICES ASSUME TypeOK, [Next]_vars PROVE TypeOK'
  OBVIOUS
<1> USE TokenAssumption, CapacityAssumption DEF TypeOK, Stages
<1>1. ASSUME NEW w \in Workers, Ends(w)
      PROVE  /\ pc' \in [Workers -> Stages]
             /\ snap' \in [Workers -> Nat]
             /\ row' \in [Workers -> BOOLEAN]
  BY <1>1 DEF Ends
<1>2. ASSUME NEW w \in Workers, LeavesLock(w)
      PROVE  /\ pc' \in [Workers -> Stages]
             /\ snap' \in [Workers -> Nat]
             /\ row' \in [Workers -> BOOLEAN]
  BY <1>1, <1>2 DEF LeavesLock
<1>3. ASSUME NEW w \in Workers, BeginSaga(w) PROVE TypeOK'
  BY <1>3 DEF BeginSaga
<1>4. ASSUME NEW w \in Workers, AcquireLock(w) PROVE TypeOK'
  BY <1>4 DEF AcquireLock
<1>5. ASSUME NEW w \in Workers, LockBusy(w) PROVE TypeOK'
  BY <1>5, <1>1 DEF LockBusy
<1>6. ASSUME NEW w \in Workers, CheckCapacity(w) PROVE TypeOK'
  BY <1>6 DEF CheckCapacity, Visible
<1>7. ASSUME NEW w \in Workers, InsertRow(w) PROVE TypeOK'
  BY <1>7 DEF InsertRow
<1>8. ASSUME NEW w \in Workers, CommitPeer(w) PROVE TypeOK'
  BY <1>8 DEF CommitPeer
<1>9. ASSUME NEW w \in Workers, BodyFails(w) PROVE TypeOK'
  BY <1>9 DEF BodyFails
<1>10. ASSUME NEW w \in Workers, ReadToken(w) PROVE TypeOK'
  BY <1>10, <1>2 DEF ReadToken
<1>11. ASSUME NEW w \in Workers, DeleteKey(w) PROVE TypeOK'
  BY <1>11, <1>2 DEF DeleteKey
<1>12. ASSUME NEW w \in Workers, CommitSaga(w) PROVE TypeOK'
  BY <1>12, <1>1 DEF CommitSaga
<1>13. ASSUME NEW w \in Workers, AbortSaga(w) PROVE TypeOK'
  BY <1>13, <1>1 DEF AbortSaga
<1>14. ASSUME NEW w \in Workers, Crash(w) PROVE TypeOK'
  BY <1>14, <1>1 DEF Crash
<1>15. CASE ReleaseRow
  BY <1>15 DEF ReleaseRow
<1>16. CASE LockExpires
  BY <1>16 DEF LockExpires
<1>17. CASE UNCHANGED vars
  BY <1>17 DEF vars
<1> QED
  BY <1>3, <1>4, <1>5, <1>6, <1>7, <1>8, <1>9, <1>10, <1>11, <1>12, <1>13,
     <1>14, <1>15, <1>16, <1>17
  DEF Next, Proceed

\* Uncommitted rows stay where the code puts them.
LEMMA RowsStep == TypeOK /\ RowsInPlace /\ [Next]_vars => RowsInPlace'
<1> SUFFICES ASSUME TypeOK, RowsInPlace, [Next]_vars PROVE RowsInPlace'
  OBVIOUS
<1> USE WorkersAssumption DEF TypeOK, RowsInPlace, Workers
<1>1. ASSUME NEW w \in Workers, Ends(w) PROVE RowsInPlace'
  BY <1>1 DEF Ends
<1>2. ASSUME NEW w \in Workers, LeavesLock(w),
             pc[w] \in {"leaving", "deleting"}
      PROVE  RowsInPlace'
  BY <1>1, <1>2 DEF LeavesLock
<1>3. ASSUME NEW w \in Workers, BeginSaga(w) PROVE RowsInPlace'
  BY <1>3 DEF BeginSaga
<1>4. ASSUME NEW w \in Workers, AcquireLock(w) PROVE RowsInPlace'
  BY <1>4 DEF AcquireLock, WantsLock
<1>5. ASSUME NEW w \in Workers, CheckCapacity(w) PROVE RowsInPlace'
  BY <1>5 DEF CheckCapacity
<1>6. ASSUME NEW w \in Workers, InsertRow(w) PROVE RowsInPlace'
  BY <1>6 DEF InsertRow
<1>7. ASSUME NEW w \in Workers, CommitPeer(w) PROVE RowsInPlace'
  BY <1>7 DEF CommitPeer
<1>8. ASSUME NEW w \in Workers, BodyFails(w) PROVE RowsInPlace'
  BY <1>8 DEF BodyFails
<1>9. ASSUME NEW w \in Workers, ReadToken(w) PROVE RowsInPlace'
  BY <1>9, <1>2 DEF ReadToken
<1>10. ASSUME NEW w \in Workers, DeleteKey(w) PROVE RowsInPlace'
  BY <1>10, <1>2 DEF DeleteKey
<1>11. ASSUME NEW w \in Workers,
              LockBusy(w) \/ CommitSaga(w) \/ AbortSaga(w) \/ Crash(w)
       PROVE  RowsInPlace'
  BY <1>11, <1>1 DEF LockBusy, CommitSaga, AbortSaga, Crash
<1>12. CASE ReleaseRow \/ LockExpires \/ UNCHANGED vars
  BY <1>12 DEF ReleaseRow, LockExpires, vars
<1> QED
  BY <1>3, <1>4, <1>5, <1>6, <1>7, <1>8, <1>9, <1>10, <1>11, <1>12
  DEF Next, Proceed

\* While locks are kept in time, the key names the one request inside.
LEMMA MutexStep ==
    TypeOK /\ RowsInPlace /\ MutualExclusion /\ [Next]_vars => MutualExclusion'
<1> SUFFICES ASSUME TypeOK, RowsInPlace, MutualExclusion, [Next]_vars,
                    ~LockMayLapse
             PROVE  \A w \in Workers : pc'[w] \in CriticalSection <=> lock' = w
  BY DEF MutualExclusion
<1> DEFINE Mutex == \A w \in Workers : pc[w] \in CriticalSection <=> lock = w
<1>0. Mutex
  BY DEF MutualExclusion
<1> USE <1>0, TokenAssumption DEF TypeOK, CriticalSection
<1>1. ASSUME NEW w \in Workers, BeginSaga(w) PROVE Mutex'
  BY <1>1 DEF BeginSaga
<1>2. ASSUME NEW w \in Workers, AcquireLock(w) PROVE Mutex'
  BY <1>2 DEF AcquireLock, WantsLock
<1>3. ASSUME NEW w \in Workers, CheckCapacity(w) PROVE Mutex'
  BY <1>3 DEF CheckCapacity
<1>4. ASSUME NEW w \in Workers, InsertRow(w) PROVE Mutex'
  BY <1>4 DEF InsertRow
<1>5. ASSUME NEW w \in Workers, CommitPeer(w) PROVE Mutex'
  BY <1>5 DEF CommitPeer
<1>6. ASSUME NEW w \in Workers, BodyFails(w) PROVE Mutex'
  BY <1>6 DEF BodyFails
<1>7. ASSUME NEW w \in Workers, ReadToken(w) PROVE Mutex'
  BY <1>7 DEF ReadToken
<1>8. ASSUME NEW w \in Workers, DeleteKey(w) PROVE Mutex'
  <2>1. lock = w
    BY <1>8 DEF DeleteKey
  <2> QED
    BY <1>8, <2>1 DEF DeleteKey, LeavesLock, Ends
<1>9. ASSUME NEW w \in Workers, LockBusy(w) \/ CommitSaga(w) \/ AbortSaga(w)
      PROVE  Mutex'
  BY <1>9 DEF LockBusy, CommitSaga, AbortSaga, Ends
<1>10. ASSUME NEW w \in Workers, Crash(w) PROVE Mutex'
  BY <1>10 DEF Crash, Ends
<1>11. CASE ReleaseRow \/ LockExpires \/ UNCHANGED vars
  BY <1>11 DEF ReleaseRow, LockExpires, vars
<1> QED
  BY <1>1, <1>2, <1>3, <1>4, <1>5, <1>6, <1>7, <1>8, <1>9, <1>10, <1>11
  DEF Next, Proceed

\* A peer request has a stake only inside the lock: after a step, only the
\* sagas and the holder of the lock can have one.
LEMMA OnePeerStake ==
    ASSUME RowsInPlace', MutualExclusion', ~LockMayLapse
    PROVE  Staked' \subseteq LocalSagas \cup {lock'}
<1> SUFFICES ASSUME NEW w \in Staked', w \notin LocalSagas PROVE w = lock'
  OBVIOUS
<1>1. w \in Workers /\ (row'[w] \/ pc'[w] = "checked")
  BY DEF Staked, HasStake
<1>2. pc'[w] \in {"inserted", "checked"}
  BY <1>1 DEF RowsInPlace
<1> QED
  BY <1>1, <1>2 DEF MutualExclusion, CriticalSection

\* The places taken and at stake stay within the bound.
LEMMA StakesStep ==
    ASSUME Inv, TypeOK', RowsInPlace', MutualExclusion', [Next]_vars
    PROVE  StakesBounded'
<1> USE WorkersAssumption DEF Inv
<1>1. ASSUME Staked' \subseteq Staked, booked' <= booked PROVE StakesBounded'
  BY <1>1, FewerStakes
<1>2. ASSUME booked' < Capacity PROVE StakesBounded'
  <2>1. LockMayLapse \/ Staked' \subseteq LocalSagas \cup {lock'}
    BY OnePeerStake, LapseAssumption
  <2> QED
    BY <1>2, <2>1, NewStake
<1>3. ASSUME NEW w \in Workers, LockBusy(w) \/ AbortSaga(w) \/ Crash(w)
      PROVE  StakesBounded'
  BY <1>1, <1>3
  DEF LockBusy, AbortSaga, Crash, Ends, TypeOK, Staked, HasStake
<1>4. ASSUME NEW w \in Workers, BeginSaga(w) PROVE StakesBounded'
  <2>1. CASE booked < Capacity
    BY <1>2, <1>4, <2>1 DEF BeginSaga
  <2>2. CASE ~(booked < Capacity)
    BY <1>1, <1>4, <2>2 DEF BeginSaga, TypeOK, Staked, HasStake
  <2> QED
    BY <2>1, <2>2
<1>5. ASSUME NEW w \in Workers, AcquireLock(w) PROVE StakesBounded'
  BY <1>1, <1>5
  DEF AcquireLock, WantsLock, TypeOK, RowsInPlace, Staked, HasStake
<1>6. ASSUME NEW w \in Workers, CheckCapacity(w) PROVE StakesBounded'
  <2>1. CASE booked < Capacity
    BY <1>2, <1>6, <2>1 DEF CheckCapacity
  <2>2. CASE ~(booked < Capacity)
    BY <1>1, <1>6, <2>2, CapacityAssumption
    DEF CheckCapacity, Visible, TypeOK, Staked, HasStake
  <2> QED
    BY <2>1, <2>2
<1>7. ASSUME NEW w \in Workers, InsertRow(w) PROVE StakesBounded'
  BY <1>1, <1>7 DEF InsertRow, TypeOK, Staked, HasStake
<1>8. ASSUME NEW w \in Workers, CommitPeer(w) PROVE StakesBounded'
  <2>1. w \in Staked /\ Staked' \subseteq Staked \ {w}
    BY <1>8 DEF CommitPeer, TypeOK, RowsInPlace, Staked, HasStake
  <2> QED
    BY <1>8, <2>1, SpentStake DEF CommitPeer
<1>9. ASSUME NEW w \in Workers, CommitSaga(w) PROVE StakesBounded'
  <2>1. w \in Staked /\ Staked' \subseteq Staked \ {w}
    BY <1>9 DEF CommitSaga, Ends, TypeOK, RowsInPlace, Staked, HasStake
  <2> QED
    BY <1>9, <2>1, SpentStake DEF CommitSaga
<1>10. ASSUME NEW w \in Workers, BodyFails(w) PROVE StakesBounded'
  BY <1>1, <1>10 DEF BodyFails, TypeOK, Staked, HasStake
<1>11. ASSUME NEW w \in Workers, ReadToken(w) \/ DeleteKey(w)
       PROVE  StakesBounded'
  BY <1>1, <1>11
  DEF ReadToken, DeleteKey, LeavesLock, Ends, TypeOK, Staked, HasStake
<1>12. CASE ReleaseRow \/ LockExpires \/ UNCHANGED vars
  BY <1>1, <1>12
  DEF ReleaseRow, LockExpires, vars, TypeOK, Staked, HasStake
<1> QED
  BY <1>3, <1>4, <1>5, <1>6, <1>7, <1>8, <1>9, <1>10, <1>11, <1>12
  DEF Next, Proceed

-----------------------------------------------------------------------------
\* Theorems about the specification.

\* Init establishes the invariant: nobody has started, the table holds at
\* most the maximum.
LEMMA InitInv == Init => Inv
<1> SUFFICES ASSUME Init PROVE Inv
  OBVIOUS
<1>1. TypeOK
  BY CapacityAssumption DEF Init, TypeOK, Stages
<1>2. RowsInPlace /\ MutualExclusion
  BY TokenAssumption DEF Init, RowsInPlace, MutualExclusion, CriticalSection
<1>3. Staked = {}
  BY DEF Init, Staked, HasStake
<1>4. StakesBounded
  BY <1>1, <1>3, FS_EmptySet, OvershootType, CapacityAssumption
  DEF Init, StakesBounded, TypeOK
<1> QED
  BY <1>1, <1>2, <1>4 DEF Inv

\* Every step preserves it.
LEMMA NextInv == Inv /\ [Next]_vars => Inv'
<1> SUFFICES ASSUME Inv, [Next]_vars PROVE Inv'
  OBVIOUS
<1>1. TypeOK'
  BY TypeStep DEF Inv
<1>2. RowsInPlace'
  BY RowsStep DEF Inv
<1>3. MutualExclusion'
  BY MutexStep DEF Inv
<1>4. StakesBounded'
  BY <1>1, <1>2, <1>3, StakesStep
<1> QED
  BY <1>1, <1>2, <1>3, <1>4 DEF Inv

\* The inductive invariant holds in every reachable state, whatever the
\* requests, the maximum, and whether or not locks lapse.
THEOREM InvHolds == Spec => []Inv
BY InitInv, NextInv, PTL DEF Spec

\* Types are right (the variables of saga.py, capacity.py and the lock key).
THEOREM TypeCorrect == Spec => []TypeOK
<1>1. Inv => TypeOK
  BY DEF Inv
<1> QED
  BY <1>1, InvHolds, PTL

\* The lock of distributed_lock.py:17-26 excludes, as long as its holders
\* are faster than its expiry.
THEOREM LockExcludes == Spec => []MutualExclusion
<1>1. Inv => MutualExclusion
  BY DEF Inv
<1> QED
  BY <1>1, InvHolds, PTL

\* No number of concurrent requests books a slot beyond the maximum by more
\* than the number of concurrent sagas of the owning VM; with locks that
\* lapse, by more than the number of requests less one.
THEOREM OverbookingBounded == Spec => []BoundedOverbooking
<1>1. Inv => BoundedOverbooking
  BY StakedFinite, OvershootType, CapacityAssumption
  DEF Inv, StakesBounded, BoundedOverbooking, TypeOK
<1> QED
  BY <1>1, InvHolds, PTL

\* Without local sagas and with timely locks, the maximum itself holds: the
\* order of routes.py:152-170 (count, insert and commit under the lock) is
\* the one that keeps it.
THEOREM PeersNeverOverbook ==
    LocalSagas = {} /\ ~LockMayLapse => (Spec => []NoOverbooking)
<1> SUFFICES ASSUME LocalSagas = {}, ~LockMayLapse
             PROVE  Spec => []NoOverbooking
  OBVIOUS
<1>1. Overshoot = 0
  BY FS_EmptySet DEF Overshoot
<1>2. BoundedOverbooking => NoOverbooking
  BY <1>1, CapacityAssumption DEF BoundedOverbooking, NoOverbooking
<1> QED
  BY <1>2, OverbookingBounded, PTL

\* No request deletes the lock of another while no lock lapses.
THEOREM HolderFrees == Spec => OnlyHolderFrees
<1>1. ASSUME Inv, [Next]_vars,
             NEW w \in Workers, ~LockMayLapse, lock = w, lock' # w
      PROVE  (pc[w] = "deleting" /\ lock' = None) \/ lock' = Orphan
  <2>1. ASSUME NEW x \in Workers, AcquireLock(x) PROVE FALSE
    BY <1>1, <2>1, TokenAssumption DEF AcquireLock
  <2>2. ASSUME NEW x \in Workers, DeleteKey(x)
        PROVE  pc[w] = "deleting" /\ lock' = None
    BY <1>1, <2>2 DEF DeleteKey, Inv, MutualExclusion, CriticalSection
  <2>3. ASSUME NEW x \in Workers, Crash(x) PROVE lock' = Orphan
    BY <1>1, <2>3 DEF Crash
  <2>4. CASE LockExpires
    BY <1>1, <2>4, TokenAssumption DEF LockExpires
  <2> QED
    BY <1>1, <2>1, <2>2, <2>3, <2>4
    DEF Next, Proceed, BeginSaga, LockBusy, CheckCapacity, InsertRow,
        CommitPeer, BodyFails, ReadToken, CommitSaga, AbortSaga, ReleaseRow,
        vars
<1>2. Inv /\ [Next]_vars =>
         [\A w \in Workers :
             ~LockMayLapse /\ lock = w /\ lock' # w =>
                 \/ pc[w] = "deleting" /\ lock' = None
                 \/ lock' = Orphan]_vars
  BY <1>1
<1> QED
  BY <1>2, InvHolds, PTL DEF Spec, OnlyHolderFrees

\* The table, the lock and the snapshots implement the ledger of SlotLedger
\* with the limit Capacity + Overshoot: every step is one reservation below
\* the limit, one release, or leaves the count alone.
THEOREM RefinesLedger == Spec => ImplementsLedger
<1>1. Init => Ledger!Init
  BY OvershootType, CapacityAssumption DEF Init, Ledger!Init
<1>2. Inv /\ [Next]_vars => [Ledger!Next]_booked
  <2> SUFFICES ASSUME Inv, [Next]_vars, booked' # booked PROVE Ledger!Next
    OBVIOUS
  <2>1. ASSUME NEW w \in Workers, CommitPeer(w) \/ CommitSaga(w)
        PROVE  Ledger!Reserve
    <3>1. w \in Staked
      BY <2>1
      DEF CommitPeer, CommitSaga, Inv, RowsInPlace, Staked, HasStake
    <3>2. Cardinality(Staked) # 0
      BY <3>1, StakedFinite, FS_EmptySet
    <3>3. booked < Capacity + Overshoot
      BY <3>2, StakedFinite, OvershootType, CapacityAssumption
      DEF Inv, StakesBounded, TypeOK
    <3> QED
      BY <2>1, <3>3 DEF CommitPeer, CommitSaga, Ledger!Reserve
  <2>2. CASE ReleaseRow
    BY <2>2 DEF ReleaseRow, Ledger!Release, Ledger!Next
  <2> QED
    BY <2>1, <2>2
    DEF Next, Proceed, BeginSaga, AcquireLock, LockBusy, CheckCapacity,
        InsertRow, BodyFails, ReadToken, DeleteKey, AbortSaga, Crash,
        LockExpires, Ledger!Next, vars
<1> QED
  BY <1>1, <1>2, InvHolds, PTL DEF Spec, ImplementsLedger, Ledger!Spec
=============================================================================
