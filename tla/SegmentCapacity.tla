-------------------------- MODULE SegmentCapacity ---------------------------
(***************************************************************************)
(* Reservations of ONE road segment in ONE hour slot on the VM that owns   *)
(* it: the capacity check and the insert (capacity.py), the Redis lock     *)
(* around them (distributed_lock.py) and the two callers, which differ in  *)
(* when their REPEATABLE READ snapshot is taken and when they commit:      *)
(*                                                                         *)
(*   - a saga of this VM (saga.py) flushed its bookings row before it      *)
(*     asked for any lock (service.py:55-56), so its snapshot is older     *)
(*     than the lock, and it commits after the lock is released            *)
(*     (saga.py:131-197);                                                  *)
(*   - a request of the peer VM (routes.py:138-175) runs its first         *)
(*     statement and its commit while it holds the lock.                   *)
(*                                                                         *)
(* Every statement that another request can see or be delayed by is a step *)
(* of its own.                                                             *)
(***************************************************************************)
EXTENDS Integers, FiniteSets

CONSTANTS
    LocalSagas,     \* the sagas of this VM that may run at the same time
    PeerRequests,   \* the peer-reserve requests that may run at the same time
    Capacity,       \* road_segments.max_capacity_per_slot
    LockMayLapse,   \* may a live holder outlast the 5 s of LOCK_TIMEOUT_MS?
    None,           \* the lock key does not exist
    Orphan          \* the lock key holds the token of a request that died

Workers == LocalSagas \cup PeerRequests

ASSUME WorkersAssumption ==
    /\ IsFiniteSet(LocalSagas)
    /\ IsFiniteSet(PeerRequests)
    /\ LocalSagas \cap PeerRequests = {}
    /\ Workers # {}
ASSUME CapacityAssumption == Capacity \in Nat
ASSUME LapseAssumption == LockMayLapse \in BOOLEAN
ASSUME TokenAssumption ==
    None \notin Workers /\ Orphan \notin Workers /\ None # Orphan

VARIABLES
    pc,         \* how far each request has come
    snap,       \* active reservations in the snapshot its check reads
    row,        \* has it an uncommitted reservation row?
    lock,       \* whose token the Redis key of the segment and slot holds
    booked      \* committed reservations not CANCELLED or REJECTED

vars == <<pc, snap, row, lock, booked>>

Stages == {"idle", "begun", "locked", "checked", "inserted",
           "leaving", "deleting", "holding"}

\* Inside "async with segment_lock": from the SET NX to the DELETE.
CriticalSection == {"locked", "checked", "inserted", "leaving", "deleting"}

TypeOK ==
    /\ pc \in [Workers -> Stages]
    /\ snap \in [Workers -> Nat]
    /\ row \in [Workers -> BOOLEAN]
    /\ lock \in Workers \cup {None, Orphan}
    /\ booked \in Nat

-----------------------------------------------------------------------------

Init ==
    /\ pc = [w \in Workers |-> "idle"]
    /\ snap = [w \in Workers |-> 0]
    /\ row = [w \in Workers |-> FALSE]
    /\ lock = None
    /\ booked \in 0..Capacity

\* The request ends; what its transaction had not committed is gone.
Ends(w) ==
    /\ pc' = [pc EXCEPT ![w] = "idle"]
    /\ snap' = [snap EXCEPT ![w] = 0]
    /\ row' = [row EXCEPT ![w] = FALSE]

\* The saga's first statement fixes its snapshot, before any lock.
BeginSaga(w) ==
    /\ w \in LocalSagas
    /\ pc[w] = "idle"
    /\ pc' = [pc EXCEPT ![w] = "begun"]
    /\ snap' = [snap EXCEPT ![w] = booked]
    /\ UNCHANGED <<row, lock, booked>>

\* SET key token NX PX 5000.
WantsLock(w) == pc[w] = IF w \in LocalSagas THEN "begun" ELSE "idle"

\* Mutant of AcquireLock: SET without NX.
AcquireLockPlainSet(w) ==
    /\ WantsLock(w)
    /\ lock' = w
    /\ pc' = [pc EXCEPT ![w] = "locked"]
    /\ UNCHANGED <<snap, row, booked>>

AcquireLock(w) ==
    /\ WantsLock(w)
    /\ lock = None
    /\ lock' = w
    /\ pc' = [pc EXCEPT ![w] = "locked"]
    /\ UNCHANGED <<snap, row, booked>>

\* The key exists: LockAcquisitionError, the saga rolls back.
LockBusy(w) ==
    /\ pc[w] = "begun"
    /\ lock # None
    /\ Ends(w)
    /\ UNCHANGED <<lock, booked>>

\* The count the check reads: the saga's old snapshot, or, for a peer
\* request, whose transaction starts here, what is committed now.
Visible(w) == IF w \in LocalSagas THEN snap[w] ELSE booked

\* Mutant of CheckCapacity: ">" for ">=".
CheckCapacityOffByOne(w) ==
    /\ pc[w] = "locked"
    /\ pc' = [pc EXCEPT ![w] = IF Visible(w) > Capacity THEN "leaving"
                                                        ELSE "checked"]
    /\ snap' = [snap EXCEPT ![w] = Visible(w)]
    /\ UNCHANGED <<row, lock, booked>>

\* check_capacity and the comparison with the maximum.  A saga always finds the
\* segment: resolve_route read it from the same table in the same snapshot
\* (routing.py:58-67), so the branch at saga.py:138-139 is never taken.
CheckCapacity(w) ==
    /\ pc[w] = "locked"
    /\ pc' = [pc EXCEPT ![w] = IF Visible(w) >= Capacity THEN "leaving"
                                                         ELSE "checked"]
    /\ snap' = [snap EXCEPT ![w] = Visible(w)]
    /\ UNCHANGED <<row, lock, booked>>

\* reserve_segment; a saga then leaves the lock without committing.
InsertRow(w) ==
    /\ pc[w] = "checked"
    /\ pc' = [pc EXCEPT ![w] = IF w \in LocalSagas THEN "leaving"
                                                   ELSE "inserted"]
    /\ row' = [row EXCEPT ![w] = TRUE]
    /\ UNCHANGED <<snap, lock, booked>>

\* The peer request commits inside the lock.
CommitPeer(w) ==
    /\ pc[w] = "inserted"
    /\ booked' = booked + 1
    /\ row' = [row EXCEPT ![w] = FALSE]
    /\ pc' = [pc EXCEPT ![w] = "leaving"]
    /\ UNCHANGED <<snap, lock>>

\* A statement of the body raises: the exception leaves through "finally".
BodyFails(w) ==
    /\ pc[w] \in {"locked", "checked", "inserted"}
    /\ row' = [row EXCEPT ![w] = FALSE]
    /\ pc' = [pc EXCEPT ![w] = "leaving"]
    /\ UNCHANGED <<snap, lock, booked>>

\* After the lock: a saga with a row goes on holding it, the others are done.
LeavesLock(w) ==
    IF w \in LocalSagas /\ row[w]
    THEN pc' = [pc EXCEPT ![w] = "holding"] /\ UNCHANGED <<snap, row>>
    ELSE Ends(w)

\* GET key; a token that is not ours is left alone.
ReadToken(w) ==
    /\ pc[w] = "leaving"
    /\ \/ /\ lock = w
          /\ pc' = [pc EXCEPT ![w] = "deleting"]
          /\ UNCHANGED <<snap, row>>
       \/ /\ lock # w
          /\ LeavesLock(w)
    /\ UNCHANGED <<lock, booked>>

\* DELETE key, whoever holds it by now.
DeleteKey(w) ==
    /\ pc[w] = "deleting"
    /\ lock' = None
    /\ LeavesLock(w)
    /\ UNCHANGED booked

\* The saga's one commit, after all its segments.
CommitSaga(w) ==
    /\ pc[w] = "holding"
    /\ booked' = booked + 1
    /\ Ends(w)
    /\ UNCHANGED lock

\* Another segment of its route failed: the saga rolls back.
AbortSaga(w) ==
    /\ pc[w] = "holding"
    /\ Ends(w)
    /\ UNCHANGED <<lock, booked>>

\* Mutant of ReleaseRow: a row is released that was never there.
ReleaseUnchecked ==
    /\ booked' = booked - 1
    /\ UNCHANGED <<pc, snap, row, lock>>

\* release_segment, called by a compensation, peer_release or the reconciler.
ReleaseRow ==
    /\ booked > 0
    /\ booked' = booked - 1
    /\ UNCHANGED <<pc, snap, row, lock>>

\* The request dies at any point (the process, or its Redis or database
\* connection); its token stays in Redis.
Crash(w) ==
    /\ pc[w] # "idle"
    /\ Ends(w)
    /\ lock' = IF lock = w THEN Orphan ELSE lock
    /\ UNCHANGED booked

\* Mutant of LockExpires: SET without PX, only a lapse frees the key.
LockNeverExpires ==
    /\ lock # None
    /\ LockMayLapse
    /\ lock' = None
    /\ UNCHANGED <<pc, snap, row, booked>>

\* PX: Redis drops the key of a dead request, and of a slow one.
LockExpires ==
    /\ lock # None
    /\ lock = Orphan \/ LockMayLapse
    /\ lock' = None
    /\ UNCHANGED <<pc, snap, row, booked>>

\* The steps a running request takes by itself.
Proceed(w) ==
    \/ AcquireLock(w)
    \/ LockBusy(w)
    \/ CheckCapacity(w)
    \/ InsertRow(w)
    \/ CommitPeer(w)
    \/ ReadToken(w)
    \/ DeleteKey(w)
    \/ CommitSaga(w)

Next ==
    \/ \E w \in Workers :
          \/ BeginSaga(w)
          \/ Proceed(w)
          \/ BodyFails(w)
          \/ AbortSaga(w)
          \/ Crash(w)
    \/ ReleaseRow
    \/ LockExpires

Spec == Init /\ [][Next]_vars

\* A request inside the lock keeps executing and Redis expires keys; nothing
\* obliges anyone to start a request, to fail, or to release a reservation.
Fairness ==
    /\ \A w \in Workers :
          WF_vars(pc[w] \in CriticalSection /\ Proceed(w))
    /\ WF_vars(LockExpires)

FairSpec == Spec /\ Fairness

-----------------------------------------------------------------------------

\* By how much the maximum can be exceeded: by the sagas whose snapshot is
\* older than their lock and, once locks lapse, by all but one request.
Overshoot == IF LockMayLapse THEN Cardinality(Workers) - 1
                             ELSE Cardinality(LocalSagas)

\* The slot is never booked beyond its maximum by more than the number of
\* sagas running at the same time, or of requests when a lock can lapse
\* under its holder (saga.py:131-197, routes.py:152-170).
BoundedOverbooking == booked <= Capacity + Overshoot

\* What tests/test_concurrent_booking.py:8 and consistency_model.md:12 say of
\* two drivers who book the last place: only one of them gets it.
NoOverbooking == booked <= Capacity

\* While no lock lapses under a live holder, at most one request is between
\* its SET NX and its DELETE, and the key holds its token
\* (distributed_lock.py:17-26).
MutualExclusion ==
    ~LockMayLapse =>
        \A w \in Workers : pc[w] \in CriticalSection <=> lock = w

\* While no lock lapses, only the DELETE of its own holder frees the key of
\* a live request: no request deletes another's lock
\* (distributed_lock.py:23-26).
OnlyHolderFrees ==
    [][\A w \in Workers :
          ~LockMayLapse /\ lock = w /\ lock' # w =>
              \/ pc[w] = "deleting" /\ lock' = None
              \/ lock' = Orphan]_vars

\* The key never stays taken: holders finish or die, and a dead holder's
\* token expires (distributed_lock.py:17, PX).
LockComesFree == lock # None ~> lock = None

\* The requests that may still raise the count: their check has passed, or
\* their snapshot is old enough for it to pass.
HasStake(w) ==
    \/ row[w]
    \/ pc[w] = "checked"
    \/ w \in LocalSagas /\ pc[w] \in {"begun", "locked"} /\ snap[w] < Capacity

Staked == {w \in Workers : HasStake(w)}

\* Where an uncommitted row can be.
RowsInPlace ==
    \A w \in Workers :
        /\ pc[w] = "inserted" => w \in PeerRequests /\ row[w]
        /\ pc[w] \in {"begun", "holding"} => w \in LocalSagas
        /\ pc[w] = "holding" => row[w]
        /\ row[w] => IF w \in LocalSagas
                     THEN pc[w] \in {"leaving", "deleting", "holding"}
                     ELSE pc[w] = "inserted"

\* The strengthening of BoundedOverbooking that every step preserves: the
\* places taken and the places still at stake stay within the bound.
StakesBounded == booked + Cardinality(Staked) <= Capacity + Overshoot

Inv == TypeOK /\ RowsInPlace /\ MutualExclusion /\ StakesBounded

\* The slot as callers should see it, with the limit the code can keep.
Ledger == INSTANCE SlotLedger WITH Limit <- Capacity + Overshoot

\* Every change of the count is one reservation below that limit, or one
\* release (capacity.py:29-83).
ImplementsLedger == Ledger!Spec
=============================================================================
