---------------------------- MODULE BookingSaga -----------------------------
(***************************************************************************)
(* The life of bookings on two VMs that reserve segments from each other:  *)
(* the saga (service.py:30-97, saga.py), the peer endpoints                *)
(* (routes.py:134-189), the driver's cancellation (service.py:108-142) and *)
(* the reconciler of each VM (reconciler.py).                              *)
(*                                                                         *)
(* Every commit, publication and message is a step of its own.  Whether a  *)
(* segment has room is decided by SegmentCapacity; here a reservation may  *)
(* be granted or refused.  A VM's regional schemas are one table.          *)
(***************************************************************************)
EXTENDS Naturals, Sequences, FiniteSets

CONSTANTS
    VMs,            \* the two deployments
    Bookings,       \* booking ids, one per POST /bookings
    Segments,       \* road segments
    Home,           \* Home[b]: the VM whose API was asked for booking b
    Owner,          \* Owner[s]: the VM whose LOCAL_REGIONS hold segment s
    Route,          \* Route[b]: what resolve_route returned for b
    SlowSagas,      \* may a saga still run ORPHAN_THRESHOLD_SECONDS after its start?
    CancelWhen,     \* the statuses in which drivers cancel
    MaxFaults       \* bound: crashes, lost calls, early timeouts, failed statements

Statuses == {"SAGA_IN_PROGRESS", "CONFIRMED", "REJECTED", "CANCELLED"}

ASSUME RouteAssumption ==
    /\ Home \in [Bookings -> VMs]
    /\ Owner \in [Segments -> VMs]
    /\ Route \in [Bookings -> Seq(Segments) \ {<<>>}]
ASSUME CancelAssumption == CancelWhen \subseteq Statuses \ {"CANCELLED"}
ASSUME SwitchAssumption == SlowSagas \in BOOLEAN /\ MaxFaults \in Nat

VARIABLES
    pc,         \* pc[b]: how far the request for b has come
    step,       \* step[b]: the leg of Route[b] it is working on
    undo,       \* undo[b]: will its failure handler call the peer?
    status,     \* status[b]: committed bookings.status, "absent" before
    legs,       \* legs[b]: are there CONFIRMED segment_reservations of b?
    age,        \* age[b]: 0, 1 (over 60 s) or 2 (over 2 min) since created_at
    res,        \* active regional reservations, pairs <<booking, segment>>
    calls,      \* peer calls and answers under way
    told,       \* told[b]: the last event published about b
    rec,        \* rec[v]: the reconciliation pass running on v
    faults      \* faults so far

sagaVars == <<pc, step, undo>>
vars == <<sagaVars, status, legs, age, res, calls, told, rec, faults>>

Stages == {"idle", "running", "waiting", "committed", "published",
           "failed", "released", "undone", "rejecting", "ended", "dead"}

Over == {"ended", "dead"}           \* the request no longer runs
Active(b) == pc[b] \notin Over \cup {"idle"}

Phases == {"orphans", "dangling", "lingering"}
NoPass == [phase |-> "idle", todo |-> {}, first |-> FALSE]

Message ==
    [kind : {"reserve", "granted", "refused"}, b : Bookings, s : Segments]
        \cup [kind : {"release"}, b : Bookings]

TypeOK ==
    /\ pc \in [Bookings -> Stages]
    /\ step \in [Bookings -> Nat \ {0}]
    /\ undo \in [Bookings -> BOOLEAN]
    /\ status \in [Bookings -> Statuses \cup {"absent"}]
    /\ legs \in [Bookings -> BOOLEAN]
    /\ age \in [Bookings -> 0..2]
    /\ res \subseteq Bookings \X Segments
    /\ calls \subseteq Message
    /\ told \in [Bookings -> {"none", "confirmed", "failed", "cancelled"}]
    /\ rec \in [VMs -> [phase : Phases \cup {"idle"}, todo : SUBSET Bookings,
                        first : BOOLEAN]]
    /\ faults \in 0..MaxFaults

-----------------------------------------------------------------------------
(* Routes and rows *)

Legs(b) == {Route[b][i] : i \in DOMAIN Route[b]}
LocalLegs(b) == {s \in Legs(b) : Owner[s] = Home[b]}
RemoteLegs(b) == Legs(b) \ LocalLegs(b)
Leg(b) == Route[b][step[b]]
AtEnd(b) == step[b] > Len(Route[b])

\* Mutant of PeerReserved: the flag is reset by every leg.
LastLegRemote(b) == step[b] > 1 /\ Owner[Route[b][step[b] - 1]] # Home[b]

\* peer_reserved: some peer call of this saga returned.
PeerReserved(b) ==
    \E i \in 1..(step[b] - 1) : Owner[Route[b][i]] # Home[b]

Rows(b, S) == {b} \X S
LocalRows(b) == res \cap Rows(b, LocalLegs(b))

Replies(b) == {m \in calls : m.b = b /\ m.kind \in {"granted", "refused"}}

\* A fault happens only while there are any left.
Fault == faults < MaxFaults /\ faults' = faults + 1

Goto(b, stage) == pc' = [pc EXCEPT ![b] = stage]
SetStatus(b, new) == status' = [status EXCEPT ![b] = new]

\* Mutant of Tell: a routing key that no queue is bound to.
TellWrongKey(b, event) == told' \in {told, [told EXCEPT ![b] = "rejected"]}

\* publish_event whose failure is only logged.
Tell(b, event) == told' \in {told, [told EXCEPT ![b] = event]}

Init ==
    /\ pc = [b \in Bookings |-> "idle"]
    /\ step = [b \in Bookings |-> 1]
    /\ undo = [b \in Bookings |-> FALSE]
    /\ status = [b \in Bookings |-> "absent"]
    /\ legs = [b \in Bookings |-> FALSE]
    /\ age = [b \in Bookings |-> 0]
    /\ res = {}
    /\ calls = {}
    /\ told = [b \in Bookings |-> "none"]
    /\ rec = [v \in VMs |-> NoPass]
    /\ faults = 0

-----------------------------------------------------------------------------
(* The saga *)

\* The bookings row is flushed, not committed.
StartSaga(b) ==
    /\ pc[b] = "idle"
    /\ Goto(b, "running")
    /\ UNCHANGED <<step, undo, status, legs, age, res, calls, told, rec, faults>>

\* resolve_route raises before the try of execute_booking_saga: nothing is to
\* be released and no event is published.
NoRoute(b) ==
    /\ pc[b] = "running" /\ step[b] = 1
    /\ Goto(b, "rejecting")
    /\ UNCHANGED <<step, undo, status, legs, age, res, calls, told, rec, faults>>

\* The except branch of execute_booking_saga is entered; "peer" says whether
\* it will send the peer a release.
Fail(b, peer) ==
    /\ Goto(b, "failed")
    /\ undo' = [undo EXCEPT ![b] = peer]

\* A local leg: the row is inserted, uncommitted.
ReserveLocal(b) ==
    /\ pc[b] = "running" /\ ~AtEnd(b)
    /\ Owner[Leg(b)] = Home[b]
    /\ step' = [step EXCEPT ![b] = @ + 1]
    /\ UNCHANGED <<pc, undo, status, legs, age, res, calls, told, rec, faults>>

\* The leg is full, its lock is taken, or Redis or the database fails.
RefuseLocal(b) ==
    /\ pc[b] = "running" /\ ~AtEnd(b)
    /\ Owner[Leg(b)] = Home[b]
    /\ Fail(b, PeerReserved(b))
    /\ UNCHANGED <<step, status, legs, age, res, calls, told, rec, faults>>

\* A remote leg: POST /bookings/peer/reserve.
CallPeer(b) ==
    /\ pc[b] = "running" /\ ~AtEnd(b)
    /\ Owner[Leg(b)] # Home[b]
    /\ calls' = calls \cup {[kind |-> "reserve", b |-> b, s |-> Leg(b)]}
    /\ Goto(b, "waiting")
    /\ UNCHANGED <<step, undo, status, legs, age, res, told, rec, faults>>

Granted(b) ==
    /\ pc[b] = "waiting"
    /\ \E m \in Replies(b) : m.kind = "granted" /\ calls' = calls \ {m}
    /\ Goto(b, "running")
    /\ step' = [step EXCEPT ![b] = @ + 1]
    /\ UNCHANGED <<undo, status, legs, age, res, told, rec, faults>>

\* Mutant of Refused: the status of the answer is not looked at.
RefusalIgnored(b) ==
    /\ pc[b] = "waiting"
    /\ \E m \in Replies(b) : m.kind = "refused" /\ calls' = calls \ {m}
    /\ Goto(b, "running")
    /\ step' = [step EXCEPT ![b] = @ + 1]
    /\ UNCHANGED <<undo, status, legs, age, res, told, rec, faults>>

\* 409, or the 500 of a busy lock or a failed statement on the peer.
Refused(b) ==
    /\ pc[b] = "waiting"
    /\ \E m \in Replies(b) : m.kind = "refused" /\ calls' = calls \ {m}
    /\ Fail(b, PeerReserved(b))
    /\ UNCHANGED <<step, status, legs, age, res, told, rec, faults>>

\* Mutant of GiveUp: no timeout while nothing comes back.
GiveUpOnErrorOnly(b) ==
    /\ pc[b] = "waiting"
    /\ \E m \in calls : m.b = b
    /\ Fault
    /\ calls' = calls \ Replies(b)
    /\ Fail(b, FALSE)
    /\ UNCHANGED <<step, status, legs, age, res, told, rec>>

\* The call gives no answer: a timeout or a connection error is
\* RegionUnavailableError, which skips the peer's release; a connection
\* dropped by the peer without a response is any other exception.
GiveUp(b) ==
    /\ pc[b] = "waiting"
    /\ IF \E m \in calls : m.b = b THEN Fault ELSE UNCHANGED faults
    /\ calls' = calls \ Replies(b)
    /\ \E peer \in {FALSE, PeerReserved(b)} : Fail(b, peer)
    /\ UNCHANGED <<step, status, legs, age, res, told, rec>>

\* Mutant of CommitSaga: no segment_reservations are written.
CommitWithoutLegs(b) ==
    /\ pc[b] = "running" /\ AtEnd(b)
    /\ SetStatus(b, "SAGA_IN_PROGRESS")
    /\ res' = res \cup Rows(b, LocalLegs(b))
    /\ Goto(b, "committed")
    /\ UNCHANGED <<step, undo, legs, age, calls, told, rec, faults>>

\* Line 197: the bookings row, the local reservations and the
\* segment_reservations of the local legs become visible together.
CommitSaga(b) ==
    /\ pc[b] = "running" /\ AtEnd(b)
    /\ SetStatus(b, "SAGA_IN_PROGRESS")
    /\ res' = res \cup Rows(b, LocalLegs(b))
    /\ legs' = [legs EXCEPT ![b] = LocalLegs(b) # {}]
    /\ Goto(b, "committed")
    /\ UNCHANGED <<step, undo, age, calls, told, rec, faults>>

CommitFails(b) ==
    /\ pc[b] = "running" /\ AtEnd(b)
    /\ Fault
    /\ Fail(b, PeerReserved(b))
    /\ UNCHANGED <<step, status, legs, age, res, calls, told, rec>>

PublishConfirmed(b) ==
    /\ pc[b] = "committed"
    /\ told' = [told EXCEPT ![b] = "confirmed"]
    /\ Goto(b, "published")
    /\ UNCHANGED <<step, undo, status, legs, age, res, calls, rec, faults>>

\* Mutant of PublishFails: the exception is swallowed.
PublishSkipped(b) ==
    /\ pc[b] = "committed"
    /\ Goto(b, "published")
    /\ UNCHANGED <<step, undo, status, legs, age, res, calls, told, rec, faults>>

\* No broker: the exception is caught like any failure of the saga.
PublishFails(b) ==
    /\ pc[b] = "committed"
    /\ Fail(b, PeerReserved(b))
    /\ UNCHANGED <<step, status, legs, age, res, calls, told, rec, faults>>

\* service.py:76-77, an UPDATE by primary key whatever the row holds by now.
ConfirmBooking(b) ==
    /\ pc[b] = "published"
    /\ SetStatus(b, "CONFIRMED")
    /\ Goto(b, "ended")
    /\ UNCHANGED <<step, undo, legs, age, res, calls, told, rec, faults>>

\* Local compensation: a committed reservation is cancelled, or the
\* statement fails and is logged.  segment_reservations are left alone.
ReleaseLocal(b) ==
    /\ pc[b] = "failed"
    /\ \/ res' = res \ LocalRows(b) /\ UNCHANGED faults
       \/ LocalRows(b) # {} /\ Fault /\ UNCHANGED res
    /\ Goto(b, "released")
    /\ UNCHANGED <<step, undo, status, legs, age, calls, told, rec>>

\* _peer_release, unless it is skipped; its outcome is not looked at.
ReleasePeer(b) ==
    /\ pc[b] = "released"
    /\ calls' = IF undo[b] THEN calls \cup {[kind |-> "release", b |-> b]}
                           ELSE calls
    /\ Goto(b, "undone")
    /\ UNCHANGED <<step, undo, status, legs, age, res, told, rec, faults>>

\* Raised or not, the booking is rejected next.
PublishFailed(b) ==
    /\ pc[b] = "undone"
    /\ Tell(b, "failed")
    /\ Goto(b, "rejecting")
    /\ UNCHANGED <<step, undo, status, legs, age, res, calls, rec, faults>>

RejectBooking(b) ==
    /\ pc[b] = "rejecting"
    /\ SetStatus(b, "REJECTED")
    /\ Goto(b, "ended")
    /\ UNCHANGED <<step, undo, legs, age, res, calls, told, rec, faults>>

-----------------------------------------------------------------------------
(* The peer's endpoints and the network *)

Awaits(b, s) == pc[b] = "waiting" /\ Leg(b) = s

\* peer_reserve: the row is committed before the answer is sent.  A caller
\* that gave up no longer hears it.
HandleReserve(m) ==
    /\ m.kind = "reserve"
    /\ \E answer \in {"granted", "refused"} :
          /\ res' = IF answer = "granted" THEN res \cup {<<m.b, m.s>>} ELSE res
          /\ calls' = (calls \ {m}) \cup
                IF Awaits(m.b, m.s)
                THEN {[kind |-> answer, b |-> m.b, s |-> m.s]} ELSE {}
    /\ UNCHANGED <<sagaVars, status, legs, age, told, rec, faults>>

\* peer_release: every reservation the peer's tables hold for the booking.
HandleRelease(m) ==
    /\ m.kind = "release"
    /\ res' = res \ Rows(m.b, RemoteLegs(m.b))
    /\ calls' = calls \ {m}
    /\ UNCHANGED <<sagaVars, status, legs, age, told, rec, faults>>

Lose(m) ==
    /\ m.kind \in {"reserve", "release"}
    /\ Fault
    /\ calls' = calls \ {m}
    /\ UNCHANGED <<sagaVars, status, legs, age, res, told, rec>>

-----------------------------------------------------------------------------
(* Drivers, crashes and time *)

\* Mutant of CancelBooking: segment_reservations are left CONFIRMED.
CancelRowOnly(b) ==
    /\ status[b] \in CancelWhen
    /\ SetStatus(b, "CANCELLED")
    /\ Tell(b, "cancelled")
    /\ UNCHANGED <<sagaVars, legs, age, res, calls, rec, faults>>

\* cancel_booking: regional reservations and the peer are not told.
CancelBooking(b) ==
    /\ status[b] \in CancelWhen
    /\ SetStatus(b, "CANCELLED")
    /\ legs' = [legs EXCEPT ![b] = FALSE]
    /\ Tell(b, "cancelled")
    /\ UNCHANGED <<sagaVars, age, res, calls, rec, faults>>

\* The booking service of a VM dies and is restarted.
Crash(v) ==
    /\ Fault
    /\ pc' = [b \in Bookings |->
                 IF Home[b] = v /\ Active(b) THEN "dead" ELSE pc[b]]
    /\ calls' = calls \ UNION {Replies(b) : b \in {c \in Bookings : Home[c] = v}}
    /\ rec' = [rec EXCEPT ![v] = NoPass]
    /\ UNCHANGED <<step, undo, status, legs, age, res, told>>

\* created_at falls behind the reconciler's thresholds.
GrowOld(b) ==
    /\ pc[b] # "idle" /\ age[b] < 2
    /\ SlowSagas \/ pc[b] \in Over
    /\ age' = [age EXCEPT ![b] = @ + 1]
    /\ UNCHANGED <<sagaVars, status, legs, res, calls, told, rec, faults>>

-----------------------------------------------------------------------------
(* The reconciler *)

\* Mutant of Orphans: no cutoff.
OrphansAnyAge(v) ==
    {b \in Bookings : Home[b] = v /\ status[b] = "SAGA_IN_PROGRESS"}

\* What the reconciler of a VM finds: its own stale SAGA_IN_PROGRESS rows.
Orphans(v) ==
    {b \in Bookings : Home[b] = v /\ status[b] = "SAGA_IN_PROGRESS" /\ age[b] >= 1}

\* Case A asks segment_reservations, which never list a remote leg.
Dangling(v) ==
    {b \in Bookings :
        Home[b] = v /\ status[b] = "CONFIRMED" /\ age[b] = 2 /\ ~legs[b]}

\* Mutant of Lingering: REJECTED bookings are forgotten.
LingeringCancelled(v) ==
    {b \in Bookings :
        Home[b] = v /\ status[b] = "CANCELLED" /\ LocalRows(b) # {}}

\* Case B joins the VM's own bookings and regional tables.
Lingering(v) ==
    {b \in Bookings :
        /\ Home[b] = v
        /\ status[b] \in {"CANCELLED", "REJECTED"}
        /\ LocalRows(b) # {}}

Found(v, phase) ==
    CASE phase = "orphans" -> Orphans(v)
      [] phase = "dangling" -> Dangling(v)
      [] phase = "lingering" -> Lingering(v)

\* The queries run in the order of "phases" in one snapshot until one of them
\* returns rows: the commit of the first row handled ends the snapshot.
Survey(v, phases) ==
    LET hits == {i \in DOMAIN phases : Found(v, phases[i]) # {}}
    IN  IF hits = {} THEN NoPass
        ELSE LET i == CHOOSE j \in hits : \A k \in hits : j <= k
             IN  [phase |-> phases[i], todo |-> Found(v, phases[i]),
                  first |-> TRUE]

\* Mutant of Later: a pass starts with Case A.
LaterSkipsOrphans(phase) ==
    CASE phase = "idle" -> <<"dangling", "lingering">>
      [] phase = "orphans" -> <<"dangling", "lingering">>
      [] phase = "dangling" -> <<"lingering">>
      [] phase = "lingering" -> <<>>

\* The queries still to run after those of a phase.
Later(phase) ==
    CASE phase = "idle" -> <<"orphans", "dangling", "lingering">>
      [] phase = "orphans" -> <<"dangling", "lingering">>
      [] phase = "dangling" -> <<"lingering">>
      [] phase = "lingering" -> <<>>

\* A pass starts, or goes on to its next query.
RunQueries(v) ==
    /\ rec[v].todo = {}
    /\ rec' = [rec EXCEPT ![v] = Survey(v, Later(rec[v].phase))]
    /\ UNCHANGED <<sagaVars, status, legs, age, res, calls, told, faults>>

\* The first row is updated in the snapshot of the query; a row that another
\* transaction changed meanwhile is a serialization failure.
Unchanged(v, b) ==
    CASE rec[v].phase = "orphans" -> status[b] = "SAGA_IN_PROGRESS"
      [] rec[v].phase = "dangling" -> status[b] = "CONFIRMED"
      [] OTHER -> LocalRows(b) # {}

Handles(v, b, phase) ==
    /\ rec[v].phase = phase
    /\ b \in rec[v].todo
    /\ rec[v].first => Unchanged(v, b)
    /\ res' = res \ LocalRows(b)
    /\ rec' = [rec EXCEPT ![v].todo = @ \ {b}, ![v].first = FALSE]
    /\ UNCHANGED <<sagaVars, age, calls, faults>>

\* Mutant of FixOrphan: segment_reservations are forgotten.
FixOrphanKeepsLegs(v, b) ==
    /\ Handles(v, b, "orphans")
    /\ SetStatus(b, "REJECTED")
    /\ Tell(b, "failed")
    /\ UNCHANGED legs

\* Booking, reservations and segment_reservations by primary key, whatever
\* they have become since the query unless it is the first row.
FixOrphan(v, b) ==
    /\ Handles(v, b, "orphans")
    /\ legs' = [legs EXCEPT ![b] = FALSE]
    /\ SetStatus(b, "REJECTED")
    /\ Tell(b, "failed")

FixDangling(v, b) ==
    /\ Handles(v, b, "dangling")
    /\ SetStatus(b, "CANCELLED")
    /\ Tell(b, "cancelled")
    /\ UNCHANGED legs

FixLingering(v, b) ==
    /\ Handles(v, b, "lingering")
    /\ UNCHANGED <<status, legs, told>>

\* The loop logs the exception and waits for its next turn.
Conflict(v) ==
    /\ rec[v].first
    /\ \E b \in rec[v].todo : ~Unchanged(v, b)
    /\ rec' = [rec EXCEPT ![v] = NoPass]
    /\ UNCHANGED <<sagaVars, status, legs, age, res, calls, told, faults>>

AbortPass(v) ==
    /\ rec[v] # NoPass
    /\ Fault
    /\ rec' = [rec EXCEPT ![v] = NoPass]
    /\ UNCHANGED <<sagaVars, status, legs, age, res, calls, told>>

-----------------------------------------------------------------------------

SagaStep(b) ==
    \/ NoRoute(b) \/ ReserveLocal(b) \/ RefuseLocal(b)
    \/ CallPeer(b) \/ Granted(b) \/ Refused(b) \/ GiveUp(b)
    \/ CommitSaga(b) \/ CommitFails(b)
    \/ PublishConfirmed(b) \/ PublishFails(b) \/ ConfirmBooking(b)
    \/ ReleaseLocal(b) \/ ReleasePeer(b)
    \/ PublishFailed(b) \/ RejectBooking(b)

Deliver(m) == HandleReserve(m) \/ HandleRelease(m)

Reconcile(v) ==
    \/ RunQueries(v)
    \/ Conflict(v)
    \/ \E b \in Bookings :
          FixOrphan(v, b) \/ FixDangling(v, b) \/ FixLingering(v, b)

Next ==
    \/ \E b \in Bookings :
          StartSaga(b) \/ SagaStep(b) \/ CancelBooking(b) \/ GrowOld(b)
    \/ \E m \in calls : Deliver(m) \/ Lose(m)
    \/ \E v \in VMs : Reconcile(v) \/ AbortPass(v) \/ Crash(v)

Spec == Init /\ [][Next]_vars

\* A running request and the reconciler loop keep executing, calls that are
\* not lost arrive, and time passes.  Drivers owe nothing.
Fairness ==
    /\ \A b \in Bookings : WF_vars(SagaStep(b)) /\ WF_vars(GrowOld(b))
    /\ \A v \in VMs : WF_vars(Reconcile(v))
    /\ WF_vars(\E m \in calls : Deliver(m))

FairSpec == Spec /\ Fairness

-----------------------------------------------------------------------------
(* Safety *)

\* Assumptions some guarantees need: no saga outlives the 60 s threshold and
\* no driver cancels a booking whose saga is still running.
Undisturbed == ~SlowSagas /\ "SAGA_IN_PROGRESS" \notin CancelWhen

Backed(b) == Rows(b, Legs(b)) \subseteq res

\* A CONFIRMED booking holds an active reservation for every leg of its
\* route, on both VMs: no compensation, late call, reconciliation pass or
\* crash takes one away (saga.py:120-262, reconciler.py:83-112, 179-197).
ConfirmedBacked ==
    Undisturbed => \A b \in Bookings : status[b] = "CONFIRMED" => Backed(b)

\* Without those assumptions a CONFIRMED booking still holds every leg on
\* the peer, and a lost local leg shows in segment_reservations, which is
\* what Case A of the reconciler looks at (reconciler.py:160-171).
LossIsVisible ==
    \A b \in Bookings : status[b] = "CONFIRMED" =>
        /\ Rows(b, RemoteLegs(b)) \subseteq res
        /\ legs[b] => Rows(b, LocalLegs(b)) \subseteq res

\* A saga that failed without any fault (a refusal, a missing broker) leaves
\* nothing behind on either VM once its release has arrived
\* (saga.py:223-248, routes.py:178-189).
CompensationComplete ==
    \A b \in Bookings :
        /\ faults = 0
        /\ status[b] = "REJECTED"
        /\ pc[b] = "ended"
        /\ \A m \in calls : m.b # b
        => Rows(b, Legs(b)) \cap res = {}

\* A booking becomes REJECTED or CANCELLED for good (reconciler.py:41-42).
DeadStaysDead ==
    [][\A b \in Bookings :
          status[b] \in {"REJECTED", "CANCELLED"}
              => status'[b] \in {"REJECTED", "CANCELLED"}]_vars

\* What its driver can see of a booking: nothing until its row is committed, and
\* from then on what the row says.
Fate(b) == IF pc[b] = "idle" THEN "unused"
           ELSE IF status[b] = "absent" THEN "asked" ELSE status[b]

Life == INSTANCE BookingLife WITH
    Posts <- Bookings, server <- [b \in Bookings |-> Fate(b)]

\* Requests end within the 60 s of the reconciler, and drivers cancel what the
\* pages offer them to, the CONFIRMED bookings (MyJourneys.tsx).
AsOffered == ~SlowSagas /\ CancelWhen \subseteq {"CONFIRMED"}

\* What the pages rely on, where AsOffered holds: whatever is lost, late or
\* crashes, a booking lives the life of BookingLife (service.py:30-142,
\* saga.py:197-262, reconciler.py:83-112, 157-217).
ServesPages == Life!Spec

\* Nobody else cancels a CONFIRMED booking of which every reservation is in
\* place (reconciler.py:143-147, 157-159).
HealthyStaysConfirmed ==
    [][\A b \in Bookings :
          "CONFIRMED" \notin CancelWhen /\ status[b] = "CONFIRMED" /\ Backed(b)
              => status'[b] = "CONFIRMED"]_vars

\* A CONFIRMED booking with at least one leg on its own VM, whose health
\* segment_reservations show, is cancelled by its driver or not at all: no
\* reconciliation pass touches it (reconciler.py:83-112, 157-217).
OnlyDriversCancel ==
    [][\A b \in Bookings :
          Undisturbed /\ LocalLegs(b) # {} /\ status[b] = "CONFIRMED"
              => status'[b] = "CONFIRMED" \/ rec' = rec]_vars

\* The last event consumers can have heard of a CONFIRMED booking is its
\* booking.confirmed (saga.py:197-217, service.py:75-77).
ConfirmedWasTold ==
    Undisturbed =>
        \A b \in Bookings : status[b] = "CONFIRMED" => told[b] = "confirmed"

-----------------------------------------------------------------------------
(* Liveness *)

\* Every request is answered in the end.
RequestsEnd == \A b \in Bookings : Active(b) ~> pc[b] \in Over

\* No booking stays SAGA_IN_PROGRESS: the saga or the reconciler settles it
\* (reconciler.py:51-134).
OrphansSettle ==
    \A b \in Bookings :
        status[b] = "SAGA_IN_PROGRESS" ~> status[b] # "SAGA_IN_PROGRESS"

\* The reservations that a REJECTED or CANCELLED booking has on its own VM
\* are given back (reconciler.py:219-247).
LocalRowsFreed ==
    \A b \in Bookings :
        status[b] \in {"REJECTED", "CANCELLED"} /\ LocalRows(b) # {}
            ~> LocalRows(b) = {} \/ status[b] = "CONFIRMED"

\* A CONFIRMED booking that lost a reservation does not stay CONFIRMED
\* (reconciler.py:157-217).
LossIsHealed ==
    \A b \in Bookings :
        status[b] = "CONFIRMED" /\ ~Backed(b) ~> status[b] # "CONFIRMED"

\* What failure_model.md:21 says of a partition that heals: the reservations
\* of a dead booking are given back "on both sides".
BothSidesFreed ==
    \A b \in Bookings :
        status[b] \in {"REJECTED", "CANCELLED"}
            ~> Rows(b, Legs(b)) \cap res = {} \/ status[b] = "CONFIRMED"
=============================================================================
