------------------------- MODULE BookingSagaProofs ---------------------------
(***************************************************************************)
(* Bookings on any number of VMs, with any routes: what a CONFIRMED        *)
(* booking holds, what consumers were told of it, what a failed one leaves *)
(* behind, and which bookings a reconciliation pass may touch.             *)
(***************************************************************************)
EXTENDS BookingSaga, TLAPS

(***************************************************************************)
(* The first inductive invariant holds whatever sagas, drivers and         *)
(* reconcilers do to each other.  It is stated booking by booking.         *)
(***************************************************************************)
Early == {"idle", "running", "waiting"}
Kept == {"running", "waiting", "committed", "published"}
Committed(b) == pc[b] \in {"committed", "published"} \/ status[b] = "CONFIRMED"
About(b) == {m \in calls : m.b = b}
RemoteAt(b, i) == Owner[Route[b][i]] # Home[b]

\* How the committed status follows the request.
StageInv(b) ==
    /\ step[b] <= Len(Route[b]) + 1
    /\ pc[b] = "idle" => step[b] = 1
    /\ pc[b] = "waiting" => ~AtEnd(b) /\ Owner[Leg(b)] # Home[b]
    /\ pc[b] \in {"committed", "published"} => AtEnd(b)
    /\ pc[b] \in Early => status[b] = "absent"
    /\ status[b] = "CONFIRMED" => pc[b] = "ended"
    /\ status[b] \in {"REJECTED", "CANCELLED"} => ~legs[b] \/ pc[b] = "ended"

\* A saga has at most one call under way and waits for nothing else; nothing
\* is under way for a booking that is CONFIRMED or about to be.
CallInv(b) ==
    /\ pc[b] \in {"idle", "running", "committed", "published"}
          \/ status[b] = "CONFIRMED" => About(b) = {}
    /\ \A m \in About(b) : m.kind \in {"granted", "refused"} => pc[b] = "waiting"
    /\ pc[b] = "waiting" => \A m \in About(b) :
          /\ m.kind # "release" /\ m.s = Leg(b)
          /\ m.kind = "granted" => <<b, Leg(b)>> \in res
          /\ About(b) = {m}

\* The legs a saga has passed on the peer are reserved, and so are those at
\* home while segment_reservations say so.
RowInv(b) ==
    /\ pc[b] \in Kept => \A i \in 1..(step[b] - 1) :
          RemoteAt(b, i) => <<b, Route[b][i]>> \in res
    /\ status[b] = "CONFIRMED" => Rows(b, RemoteLegs(b)) \subseteq res
    /\ Committed(b) /\ legs[b] => Rows(b, LocalLegs(b)) \subseteq res

\* A pass takes reservations only from bookings without segment_reservations
\* or from those that will not be CONFIRMED.
PassInv(b) == \A v \in VMs : b \in rec[v].todo =>
    /\ pc[b] \notin Early
    /\ rec[v].phase = "dangling" => ~legs[b] /\ pc[b] = "ended"
    /\ rec[v].phase = "lingering" =>
          ~legs[b] \/ (pc[b] = "ended" /\ status[b] # "CONFIRMED")

BookingInv(b) == StageInv(b) /\ CallInv(b) /\ RowInv(b) /\ PassInv(b)
SagaInv == TypeOK /\ \A b \in Bookings : BookingInv(b)

(***************************************************************************)
(* The second one holds while no saga outlives the threshold and no driver *)
(* cancels a booking that is still running.                                *)
(***************************************************************************)
\* A saga that still runs is too young for a pass, and what a pass has found
\* belongs to a request that died or ended.
CalmStage(b) ==
    /\ age[b] >= 1 => pc[b] \in Over
    /\ status[b] = "SAGA_IN_PROGRESS" => pc[b] # "ended"
    /\ status[b] \in {"REJECTED", "CANCELLED"} => pc[b] \in Over
CalmRows(b) ==
    /\ pc[b] = "published" \/ status[b] = "CONFIRMED" => told[b] = "confirmed"
    /\ Committed(b) => /\ legs[b] <=> LocalLegs(b) # {}
                       /\ Rows(b, LocalLegs(b)) \subseteq res
CalmPass(b) == \A v \in VMs : b \in rec[v].todo =>
    /\ rec[v].phase = "orphans" => pc[b] = "dead"
    /\ rec[v].phase = "dangling" => LocalLegs(b) = {} /\ pc[b] = "ended"
    /\ rec[v].phase = "lingering" => pc[b] \in Over /\ status[b] # "CONFIRMED"

CalmInv == \A b \in Bookings : CalmStage(b) /\ CalmRows(b) /\ CalmPass(b)

(***************************************************************************)
(* The third one adds that nothing has gone wrong yet, and follows what a  *)
(* saga that fails has to give back.                                       *)
(***************************************************************************)
RemoteRows(b) == res \cap Rows(b, RemoteLegs(b))
Rejected(b) == pc[b] = "ended" /\ status[b] = "REJECTED"
ReleaseSent(b) == [kind |-> "release", b |-> b] \in calls

CleanStage(b) ==
    /\ pc[b] # "dead"
    /\ pc[b] = "waiting" => About(b) # {}
    /\ pc[b] \in {"failed", "released"} => About(b) = {}
    /\ pc[b] \in {"undone", "rejecting"} \/ Rejected(b) =>
          \A m \in About(b) : m.kind = "release"
CleanRows(b) ==
    /\ pc[b] \in Early \cup {"released", "undone", "rejecting"} \/ Rejected(b) =>
          LocalRows(b) = {}
    /\ pc[b] \in {"idle", "running", "committed"} /\ ~PeerReserved(b) =>
          RemoteRows(b) = {}
    /\ pc[b] = "waiting" /\ ~PeerReserved(b) /\ RemoteRows(b) # {} =>
          \E m \in About(b) : m.kind = "granted"
    /\ pc[b] \in {"failed", "released"} /\ ~undo[b] => RemoteRows(b) = {}
    /\ pc[b] \in {"undone", "rejecting"} \/ Rejected(b) =>
          RemoteRows(b) = {} \/ ReleaseSent(b)

CleanInv == faults = 0 => \A b \in Bookings : CleanStage(b) /\ CleanRows(b)

-----------------------------------------------------------------------------
(* Lemmas on routes, rows, messages and passes *)

LEMMA RouteFacts ==
    ASSUME NEW b \in Bookings
    PROVE  /\ Len(Route[b]) \in Nat
           /\ DOMAIN Route[b] = 1..Len(Route[b])
           /\ \A i \in 1..Len(Route[b]) : Route[b][i] \in Segments
           /\ Legs(b) \subseteq Segments
           /\ Home[b] \in VMs
<1>1. Route[b] \in Seq(Segments) /\ Home[b] \in VMs
  BY RouteAssumption
<1>2. \A i \in 1..Len(Route[b]) : Route[b][i] \in Segments
  BY <1>1
<1> QED BY <1>1, <1>2 DEF Legs

\* A booking's rows of one VM are not those of the other, nor another booking's.
LEMMA LocalRowsOnly ==
    ASSUME NEW b \in Bookings, res' = res \ LocalRows(b)
    PROVE  /\ \A c \in Bookings : \A s : c # b \/ s \in RemoteLegs(b) =>
                (<<c, s>> \in res' <=> <<c, s>> \in res)
           /\ LocalRows(b)' = {}
BY DEF LocalRows, RemoteLegs, Rows, LocalLegs, Legs

LEMMA MessageFacts ==
    /\ \A m \in Message : m.b \in Bookings
    /\ \A m \in Message : m.kind \in {"reserve", "granted", "refused", "release"}
    /\ \A m \in Message : m.kind # "release" => m.s \in Segments
    /\ \A m \in Message : m.kind = "release" => m = [kind |-> "release", b |-> m.b]
    /\ \A b \in Bookings : [kind |-> "release", b |-> b] \in Message
    /\ \A b \in Bookings, s \in Segments, k \in {"reserve", "granted", "refused"} :
          [kind |-> k, b |-> b, s |-> s] \in Message
BY DEF Message

\* What a query finds, whichever of the queries it is.
LEMMA SurveyFacts ==
    ASSUME TypeOK, NEW v \in VMs
    PROVE  LET pass == Survey(v, Later(rec[v].phase))
           IN  /\ pass \in [phase : Phases \cup {"idle"}, todo : SUBSET Bookings,
                            first : BOOLEAN]
               /\ \A b \in pass.todo :
                    /\ pass.phase = "orphans" => b \in Orphans(v)
                    /\ pass.phase = "dangling" => b \in Dangling(v)
                    /\ pass.phase = "lingering" => b \in Lingering(v)
                    /\ pass.phase # "idle"
<1> DEFINE phases == Later(rec[v].phase)
           hits == {i \in DOMAIN phases : Found(v, phases[i]) # {}}
           i == CHOOSE j \in hits : \A k \in hits : j <= k
<1>1. rec[v].phase \in Phases \cup {"idle"}
  BY DEF TypeOK
<1>2. DOMAIN phases \subseteq 1..3 /\ \A j \in DOMAIN phases : phases[j] \in Phases
  BY <1>1 DEF Later, Phases
<1>3. CASE hits = {}
  BY <1>3 DEF Survey, NoPass, Phases
<1>4. CASE hits # {}
  <2>1. \E j \in hits : \A k \in hits : j <= k
    <3>1. CASE 1 \in hits
      BY <1>2, <3>1
    <3>2. CASE 1 \notin hits /\ 2 \in hits
      BY <1>2, <3>2
    <3>3. CASE 1 \notin hits /\ 2 \notin hits
      BY <1>2, <1>4, <3>3
    <3> QED BY <3>1, <3>2, <3>3
  <2>2. i \in hits
    BY <2>1
  <2>3. phases[i] \in Phases
    BY <1>2, <2>2
  <2>4. Survey(v, phases) = [phase |-> phases[i], todo |-> Found(v, phases[i]),
                             first |-> TRUE]
    BY <1>4 DEF Survey
  <2>5. /\ Found(v, "orphans") = Orphans(v)
        /\ Found(v, "dangling") = Dangling(v)
        /\ Found(v, "lingering") = Lingering(v)
    BY DEF Found
  <2>6. Found(v, phases[i]) \subseteq Bookings
    BY <2>3, <2>5 DEF Phases, Orphans, Dangling, Lingering
  <2> HIDE DEF phases, i, hits
  <2>7. phases[i] # "idle"
    BY <2>3 DEF Phases
  <2> QED BY <2>3, <2>4, <2>5, <2>6, <2>7 DEF phases
<1> QED BY <1>3, <1>4

\* What handling a row does to the passes.
LEMMA PassShrinks ==
    ASSUME TypeOK, NEW v \in VMs, NEW b \in Bookings, NEW phase, Handles(v, b, phase)
    PROVE  /\ rec' \in [VMs -> [phase : Phases \cup {"idle"}, todo : SUBSET Bookings,
                                first : BOOLEAN]]
           /\ \A w \in VMs : /\ rec'[w].phase = rec[w].phase
                             /\ rec'[w].todo \subseteq rec[w].todo
<1>1. rec' = [rec EXCEPT ![v].todo = @ \ {b}, ![v].first = FALSE]
  BY DEF Handles
<1>2. rec \in [VMs -> [phase : Phases \cup {"idle"}, todo : SUBSET Bookings, first : BOOLEAN]]
  BY DEF TypeOK
<1>3. /\ rec' \in [VMs -> [phase : Phases \cup {"idle"}, todo : SUBSET Bookings,
                           first : BOOLEAN]]
      /\ \A w \in VMs : rec'[w].phase = rec[w].phase
  BY <1>1, <1>2
<1>4. \A w \in VMs : rec'[w].todo \subseteq rec[w].todo
  BY <1>1, <1>2
<1> QED BY <1>3, <1>4

-----------------------------------------------------------------------------
(* Types *)

LEMMA PeerReservedIsBoolean == \A b \in Bookings : PeerReserved(b) \in BOOLEAN
BY DEF PeerReserved

LEMMA GiveUpFails ==
    ASSUME NEW b \in Bookings, GiveUp(b)
    PROVE  \E peer \in BOOLEAN : Fail(b, peer)
<1>1. PICK peer \in {FALSE, PeerReserved(b)} : Fail(b, peer)
  BY DEF GiveUp
<1>2. peer \in BOOLEAN
  BY PeerReservedIsBoolean
<1> QED BY <1>1, <1>2

LEMMA SagaTypes ==
    ASSUME TypeOK, NEW b \in Bookings, SagaStep(b) \/ StartSaga(b)
    PROVE  TypeOK'
<1> USE DEF TypeOK, Goto, Stages, Fault, Fail, SetStatus, Statuses
<1>0. faults \in 0..MaxFaults /\ MaxFaults \in Nat
  BY SwitchAssumption
<1>1. CASE StartSaga(b)
  BY <1>1 DEF StartSaga
<1>2. CASE NoRoute(b) \/ ReserveLocal(b) \/ RefuseLocal(b)
  BY <1>2, PeerReservedIsBoolean DEF NoRoute, ReserveLocal, RefuseLocal
<1>3. CASE CallPeer(b)
  <2>1. Leg(b) \in Segments
    BY <1>3, RouteFacts DEF CallPeer, AtEnd, Leg
  <2>2. calls' \subseteq Message
    BY <1>3, <2>1, MessageFacts, ZenonT(40) DEF CallPeer
  <2> QED BY <1>3, <2>2 DEF CallPeer
<1>4. CASE Granted(b) \/ Refused(b)
  BY <1>4, PeerReservedIsBoolean DEF Granted, Refused
<1>5. CASE GiveUp(b)
  <2>1. faults' \in 0..MaxFaults
    BY <1>0, <1>5 DEF GiveUp
  <2>2. calls' \subseteq Message /\ UNCHANGED <<step, status, legs, age, res, told, rec>>
    BY <1>5 DEF GiveUp
  <2>3. pc' \in [Bookings -> Stages] /\ undo' \in [Bookings -> BOOLEAN]
    BY <1>5, GiveUpFails
  <2> QED BY <2>1, <2>2, <2>3
<1>6. CASE CommitSaga(b)
  <2>1. res' \subseteq Bookings \X Segments
    BY <1>6, RouteFacts DEF CommitSaga, Rows, LocalLegs
  <2>2. legs' \in [Bookings -> BOOLEAN]
    BY <1>6 DEF CommitSaga
  <2> QED BY <1>6, <2>1, <2>2 DEF CommitSaga
<1>7. CASE CommitFails(b)
  BY <1>0, <1>7, PeerReservedIsBoolean DEF CommitFails
<1>8. CASE PublishConfirmed(b) \/ PublishFails(b)
  BY <1>8, PeerReservedIsBoolean DEF PublishConfirmed, PublishFails
<1>9. CASE ConfirmBooking(b) \/ RejectBooking(b)
  BY <1>9 DEF ConfirmBooking, RejectBooking
<1>10. CASE ReleaseLocal(b)
  BY <1>0, <1>10 DEF ReleaseLocal
<1>11. CASE ReleasePeer(b)
  <2>1. calls' \subseteq Message
    BY <1>11, MessageFacts DEF ReleasePeer
  <2> QED BY <1>11, <2>1 DEF ReleasePeer
<1>12. CASE PublishFailed(b)
  BY <1>12 DEF PublishFailed, Tell
<1> QED BY <1>1, <1>2, <1>3, <1>4, <1>5, <1>6, <1>7, <1>8, <1>9, <1>10, <1>11, <1>12
        DEF SagaStep

LEMMA OtherTypes ==
    ASSUME TypeOK,
           \/ \E b \in Bookings : CancelBooking(b) \/ GrowOld(b)
           \/ \E m \in calls : Deliver(m) \/ Lose(m)
           \/ \E v \in VMs : AbortPass(v) \/ Crash(v)
    PROVE  TypeOK'
<1> USE DEF TypeOK, Fault, sagaVars, Statuses
<1>0. faults \in 0..MaxFaults /\ MaxFaults \in Nat
  BY SwitchAssumption
<1>1. NoPass \in [phase : Phases \cup {"idle"}, todo : SUBSET Bookings, first : BOOLEAN]
  BY DEF NoPass
<1>2. ASSUME NEW b \in Bookings, CancelBooking(b) PROVE TypeOK'
  BY <1>2 DEF CancelBooking, SetStatus, Tell
<1>3. ASSUME NEW b \in Bookings, GrowOld(b) PROVE TypeOK'
  BY <1>3 DEF GrowOld
<1>4. ASSUME NEW m \in calls, HandleReserve(m) PROVE TypeOK'
  <2>1. m.b \in Bookings /\ m.s \in Segments
    BY <1>4, MessageFacts DEF HandleReserve
  <2>2. PICK answer \in {"granted", "refused"} :
          /\ res' = IF answer = "granted" THEN res \cup {<<m.b, m.s>>} ELSE res
          /\ calls' = (calls \ {m}) \cup
                IF Awaits(m.b, m.s)
                THEN {[kind |-> answer, b |-> m.b, s |-> m.s]} ELSE {}
    BY <1>4 DEF HandleReserve
  <2>3. calls' \subseteq Message
    <3>1. [kind |-> answer, b |-> m.b, s |-> m.s] \in Message
      BY <2>1 DEF Message
    <3> QED BY <2>2, <3>1
  <2>4. res' \subseteq Bookings \X Segments
    BY <2>1, <2>2
  <2> QED BY <1>4, <2>3, <2>4 DEF HandleReserve
<1>5. ASSUME NEW m \in calls, HandleRelease(m) PROVE TypeOK'
  BY <1>5 DEF HandleRelease
<1>6. ASSUME NEW m \in calls, Lose(m) PROVE TypeOK'
  BY <1>0, <1>6 DEF Lose
<1>7. ASSUME NEW v \in VMs, AbortPass(v) PROVE TypeOK'
  BY <1>0, <1>1, <1>7 DEF AbortPass
<1>8. ASSUME NEW v \in VMs, Crash(v) PROVE TypeOK'
  <2>1. pc' \in [Bookings -> Stages]
    BY <1>8 DEF Crash, Stages
  <2>2. calls' \subseteq Message
    BY <1>8 DEF Crash
  <2> QED BY <1>0, <1>1, <1>8, <2>1, <2>2 DEF Crash
<1> QED BY <1>2, <1>3, <1>4, <1>5, <1>6, <1>7, <1>8 DEF Deliver

LEMMA PassTypes ==
    ASSUME TypeOK, NEW v \in VMs, Reconcile(v)
    PROVE  TypeOK'
<1> USE DEF TypeOK
<1>1. CASE RunQueries(v)
  <2>1. rec' = [rec EXCEPT ![v] = Survey(v, Later(rec[v].phase))]
    BY <1>1 DEF RunQueries
  <2>2. rec' \in [VMs -> [phase : Phases \cup {"idle"}, todo : SUBSET Bookings,
                          first : BOOLEAN]]
    BY <2>1, SurveyFacts
  <2> QED BY <1>1, <2>2 DEF RunQueries, sagaVars
<1>2. CASE Conflict(v)
  BY <1>2 DEF Conflict, NoPass, sagaVars
<1>3. ASSUME NEW b \in Bookings, FixOrphan(v, b) \/ FixDangling(v, b) \/ FixLingering(v, b)
      PROVE  TypeOK'
  <2>1. PICK phase : Handles(v, b, phase)
    BY <1>3 DEF FixOrphan, FixDangling, FixLingering
  <2>2. rec' \in [VMs -> [phase : Phases \cup {"idle"}, todo : SUBSET Bookings,
                          first : BOOLEAN]]
    BY <2>1, PassShrinks
  <2>3. res' \subseteq Bookings \X Segments /\ UNCHANGED <<pc, step, undo, age, calls, faults>>
    BY <2>1 DEF Handles, sagaVars
  <2>4. status' \in [Bookings -> Statuses \cup {"absent"}]
    BY <1>3 DEF FixOrphan, FixDangling, FixLingering, SetStatus, Statuses
  <2>5. legs' \in [Bookings -> BOOLEAN]
    BY <1>3 DEF FixOrphan, FixDangling, FixLingering
  <2>6. told' \in [Bookings -> {"none", "confirmed", "failed", "cancelled"}]
    BY <1>3 DEF FixOrphan, FixDangling, FixLingering, Tell
  <2> QED BY <2>2, <2>3, <2>4, <2>5, <2>6
<1> QED BY <1>1, <1>2, <1>3 DEF Reconcile

LEMMA TypeStep == TypeOK /\ [Next]_vars => TypeOK'
<1>1. ASSUME TypeOK, UNCHANGED vars PROVE TypeOK'
  BY <1>1 DEF TypeOK, vars, sagaVars
<1> QED BY <1>1, SagaTypes, OtherTypes, PassTypes DEF Next

-----------------------------------------------------------------------------
(* The first invariant *)

LEMMA SagaInvInit == Init => SagaInv
<1> SUFFICES ASSUME Init PROVE SagaInv
  OBVIOUS
<1>1. TypeOK
  BY SwitchAssumption DEF Init, TypeOK, Stages, NoPass
<1>2. ASSUME NEW b \in Bookings PROVE BookingInv(b)
  <2>1. Len(Route[b]) \in Nat /\ Len(Route[b]) # 0
    BY RouteAssumption
  <2>2. StageInv(b)
    BY <2>1 DEF Init, StageInv, Early
  <2>3. CallInv(b) /\ PassInv(b)
    BY DEF Init, CallInv, PassInv, About, NoPass
  <2>4. RowInv(b)
    BY DEF Init, RowInv, Kept, Committed
  <2> QED BY <2>2, <2>3, <2>4 DEF BookingInv
<1> QED BY <1>1, <1>2 DEF SagaInv

\* A step that leaves the request, the row and the calls of a booking alone,
\* takes none of its reservations and finds nothing new for a pass.
PassesSame(b) == \A v \in VMs : b \in rec'[v].todo =>
    b \in rec[v].todo /\ rec'[v].phase = rec[v].phase
Same(b) ==
    /\ pc'[b] = pc[b] /\ step'[b] = step[b] /\ undo'[b] = undo[b]
    /\ status'[b] = status[b] /\ legs'[b] = legs[b]
    /\ About(b)' = About(b)
    /\ \A s \in Segments : <<b, s>> \in res => <<b, s>> \in res'
    /\ PassesSame(b)

LEMMA SameBooking ==
    ASSUME NEW b \in Bookings, BookingInv(b), Same(b), TypeOK
    PROVE  BookingInv(b)'
<1> USE DEF Same
<1>1. StageInv(b)'
  BY DEF BookingInv, StageInv, AtEnd, Leg
<1>2. CallInv(b)'
  <2>1. Leg(b)' = Leg(b)
    BY DEF Leg
  <2>2. pc[b] = "waiting" => Leg(b) \in Segments
    BY RouteFacts DEF BookingInv, StageInv, AtEnd, Leg, TypeOK
  <2> QED BY <2>1, <2>2 DEF BookingInv, CallInv
<1>3. RowInv(b)'
  <2>1. step[b] - 1 <= Len(Route[b])
    BY RouteFacts DEF BookingInv, StageInv, TypeOK
  <2>2. \A i \in 1..(step[b] - 1) : Route[b][i] \in Segments
    BY <2>1, RouteFacts DEF TypeOK
  <2>3. LocalLegs(b) \subseteq Segments /\ RemoteLegs(b) \subseteq Segments
    BY RouteFacts DEF LocalLegs, RemoteLegs
  <2>4. /\ (pc[b] \in Kept)' <=> pc[b] \in Kept
        /\ Committed(b)' <=> Committed(b)
    BY DEF Kept, Committed
  <2>5. (pc[b] \in Kept => \A i \in 1..(step[b] - 1) :
          RemoteAt(b, i) => <<b, Route[b][i]>> \in res)'
    BY <2>2, <2>4 DEF BookingInv, RowInv, RemoteAt
  <2>6. \A S \in SUBSET Segments : Rows(b, S) \subseteq res => Rows(b, S) \subseteq res'
    BY DEF Rows
  <2>7. (status[b] = "CONFIRMED" => Rows(b, RemoteLegs(b)) \subseteq res)'
    BY <2>3, <2>6 DEF BookingInv, RowInv, RemoteLegs, Legs, LocalLegs, Rows
  <2>8. (Committed(b) /\ legs[b] => Rows(b, LocalLegs(b)) \subseteq res)'
    BY <2>3, <2>4, <2>6 DEF BookingInv, RowInv, Legs, LocalLegs, Rows
  <2> QED BY <2>5, <2>7, <2>8 DEF RowInv
<1>4. PassInv(b)'
  BY DEF BookingInv, PassInv, PassesSame
<1> QED BY <1>1, <1>2, <1>3, <1>4 DEF BookingInv

\* The steps of one request disturb no other booking.
LEMMA OtherRequests ==
    ASSUME TypeOK, NEW c \in Bookings, NEW b \in Bookings, b # c,
           SagaStep(c) \/ StartSaga(c) \/ CancelBooking(c) \/ GrowOld(c)
    PROVE  Same(b)
<1> USE DEF Same
<1>1. rec' = rec
  BY DEF SagaStep, StartSaga, CancelBooking, GrowOld, NoRoute, ReserveLocal, RefuseLocal, CallPeer,
         Granted, Refused, GiveUp, CommitSaga, CommitFails, PublishConfirmed, PublishFails,
         ConfirmBooking, ReleaseLocal, ReleasePeer, PublishFailed, RejectBooking
<1>2. PassesSame(b)
  BY <1>1 DEF PassesSame
<1>3. /\ pc'[b] = pc[b] /\ step'[b] = step[b] /\ undo'[b] = undo[b]
      /\ status'[b] = status[b] /\ legs'[b] = legs[b]
  BY DEF SagaStep, StartSaga, CancelBooking, GrowOld, NoRoute, ReserveLocal, RefuseLocal, CallPeer,
         Granted, Refused, GiveUp, CommitSaga, CommitFails, PublishConfirmed, PublishFails,
         ConfirmBooking, ReleaseLocal, ReleasePeer, PublishFailed, RejectBooking,
         Goto, Fail, SetStatus, TypeOK, sagaVars
<1>4. \A m : m.b = b => (m \in calls' <=> m \in calls)
  <2>1. CASE CallPeer(c)
    BY <2>1 DEF CallPeer
  <2>2. CASE Granted(c) \/ Refused(c)
    <3>1. \E r \in Replies(c) : calls' = calls \ {r}
      BY <2>2 DEF Granted, Refused
    <3> QED BY <3>1 DEF Replies
  <2>3. CASE GiveUp(c)
    BY <2>3 DEF GiveUp, Replies
  <2>4. CASE ReleasePeer(c)
    BY <2>4 DEF ReleasePeer
  <2>5. CASE ~(CallPeer(c) \/ Granted(c) \/ Refused(c) \/ GiveUp(c) \/ ReleasePeer(c))
    <3>1. calls' = calls
      BY <2>5 DEF SagaStep, StartSaga, CancelBooking, GrowOld, NoRoute, ReserveLocal, RefuseLocal,
             CommitSaga, CommitFails, PublishConfirmed, PublishFails, ConfirmBooking,
             ReleaseLocal, PublishFailed, RejectBooking
    <3> QED BY <3>1
  <2> QED BY <2>1, <2>2, <2>3, <2>4, <2>5
<1>5. About(b)' = About(b)
  BY <1>4 DEF About
<1>6. \A s \in Segments : <<b, s>> \in res => <<b, s>> \in res'
  BY DEF SagaStep, StartSaga, CancelBooking, GrowOld, NoRoute, ReserveLocal, RefuseLocal, CallPeer,
         Granted, Refused, GiveUp, CommitSaga, CommitFails, PublishConfirmed, PublishFails,
         ConfirmBooking, ReleaseLocal, ReleasePeer, PublishFailed, RejectBooking,
         LocalRows, Rows
<1> QED BY <1>2, <1>3, <1>5, <1>6

\* What a step of the request for b does to its own booking, first for the
\* steps that send and release nothing.
LEMMA QuietStep ==
    ASSUME SagaInv, NEW b \in Bookings,
           \/ StartSaga(b) \/ NoRoute(b) \/ ReserveLocal(b) \/ RefuseLocal(b)
           \/ CommitFails(b) \/ PublishConfirmed(b) \/ PublishFails(b) \/ ConfirmBooking(b)
           \/ PublishFailed(b) \/ RejectBooking(b)
    PROVE  BookingInv(b)'
<1> USE DEF StartSaga, NoRoute, ReserveLocal, RefuseLocal, CommitFails, PublishConfirmed,
            PublishFails, ConfirmBooking, PublishFailed, RejectBooking, Goto, Fail, SetStatus
<1>1. TypeOK /\ StageInv(b) /\ CallInv(b) /\ RowInv(b) /\ PassInv(b)
  BY DEF SagaInv, BookingInv
<1>2. res' = res /\ calls' = calls /\ rec' = rec /\ legs' = legs
  OBVIOUS
<1>3. Len(Route[b]) \in Nat /\ DOMAIN Route[b] = 1..Len(Route[b])
  BY RouteFacts
<1>4. About(b)' = About(b)
  BY <1>2 DEF About
<1>5. StageInv(b)'
  BY <1>1, <1>2, <1>3 DEF TypeOK, StageInv, Early, AtEnd, Leg
<1>6. CallInv(b)'
  BY <1>1, <1>2, <1>4 DEF TypeOK, CallInv, StageInv
<1>7. RowInv(b)'
  <2>1. (pc[b] \in Kept => \A i \in 1..(step[b] - 1) :
          RemoteAt(b, i) => <<b, Route[b][i]>> \in res)'
    <3>1. CASE ReserveLocal(b)
      <4>1. step'[b] = step[b] + 1 /\ step[b] \in Nat /\ pc[b] \in Kept
        BY <1>1, <3>1 DEF TypeOK, Kept
      <4>2. ~RemoteAt(b, step[b])
        BY <3>1 DEF RemoteAt, Leg
      <4>3. \A i \in 1..step[b] : i \in 1..(step[b] - 1) \/ i = step[b]
        BY <4>1
      <4> QED BY <1>1, <1>2, <4>1, <4>2, <4>3 DEF RowInv, RemoteAt
    <3>2. CASE StartSaga(b)
      <4>1. step'[b] = 1
        BY <1>1, <3>2 DEF StageInv
      <4> QED BY <4>1
    <3>3. CASE ~ReserveLocal(b) /\ ~StartSaga(b)
      <4>1. step'[b] = step[b] /\ (pc'[b] \in Kept => pc[b] \in Kept)
        BY <1>1, <3>3 DEF TypeOK, Kept
      <4> QED BY <1>1, <1>2, <4>1 DEF RowInv, RemoteAt, Kept
    <3> QED BY <3>1, <3>2, <3>3
  <2>2. (status[b] = "CONFIRMED" => Rows(b, RemoteLegs(b)) \subseteq res)'
    <3>1. CASE ConfirmBooking(b)
      <4>1. pc[b] = "published" /\ step[b] > Len(Route[b]) /\ step[b] \in Nat
        BY <1>1, <3>1 DEF StageInv, AtEnd, TypeOK
      <4>2. \A s \in RemoteLegs(b) : <<b, s>> \in res
        <5> TAKE s \in RemoteLegs(b)
        <5>1. PICK i \in 1..Len(Route[b]) : s = Route[b][i]
          BY <1>3 DEF RemoteLegs, Legs
        <5>2. RemoteAt(b, i)
          BY <5>1, <1>3 DEF RemoteLegs, LocalLegs, Legs, RemoteAt
        <5>3. i \in 1..(step[b] - 1)
          BY <1>3, <4>1
        <5> QED BY <1>1, <4>1, <5>1, <5>2, <5>3 DEF RowInv, Kept
      <4>3. Rows(b, RemoteLegs(b)) \subseteq res
        BY <4>2 DEF Rows
      <4> QED BY <1>2, <4>3 DEF Rows, RemoteLegs, Legs, LocalLegs
    <3>2. CASE ~ConfirmBooking(b)
      <4>1. status'[b] = "CONFIRMED" => status[b] = "CONFIRMED"
        BY <1>1, <3>2 DEF TypeOK
      <4> QED BY <1>1, <1>2, <4>1 DEF RowInv, Rows, RemoteLegs, Legs, LocalLegs
    <3> QED BY <3>1, <3>2
  <2>3. Committed(b)' => Committed(b)
    BY <1>1 DEF Committed, TypeOK
  <2>4. (Committed(b) /\ legs[b] => Rows(b, LocalLegs(b)) \subseteq res)'
    BY <1>1, <1>2, <2>3 DEF RowInv, Rows, Legs, LocalLegs
  <2> QED BY <2>1, <2>2, <2>4 DEF RowInv
<1>8. PassInv(b)'
  BY <1>1, <1>2 DEF PassInv, StageInv, Early, TypeOK
<1> QED BY <1>5, <1>6, <1>7, <1>8 DEF BookingInv

LEMMA CallStep ==
    ASSUME SagaInv, NEW b \in Bookings, CallPeer(b) \/ Granted(b) \/ Refused(b) \/ GiveUp(b)
    PROVE  BookingInv(b)'
<1>1. TypeOK /\ StageInv(b) /\ CallInv(b) /\ RowInv(b) /\ PassInv(b)
  BY DEF SagaInv, BookingInv
<1>2. res' = res /\ rec' = rec /\ legs' = legs /\ status' = status
  BY DEF CallPeer, Granted, Refused, GiveUp
<1>3. Len(Route[b]) \in Nat /\ step[b] \in Nat
  BY <1>1, RouteFacts DEF TypeOK
<1>4. pc' = [pc EXCEPT ![b] = pc'[b]] /\ pc'[b] \in {"waiting", "running", "failed"}
  BY <1>1 DEF CallPeer, Granted, Refused, GiveUp, Goto, Fail, TypeOK
<1>5. /\ pc'[b] # "running" => step' = step
      /\ pc'[b] = "running" => Granted(b) /\ step'[b] = step[b] + 1
  BY <1>1, <1>4 DEF CallPeer, Granted, Refused, GiveUp, Goto, Fail, TypeOK
<1>6. status[b] # "CONFIRMED" /\ pc[b] \in {"running", "waiting"}
  BY <1>1 DEF CallPeer, Granted, Refused, GiveUp, StageInv
<1>7. StageInv(b)'
  <2>1. (pc[b] = "waiting" => ~AtEnd(b) /\ Owner[Leg(b)] # Home[b])'
    <3>1. pc'[b] = "waiting" => CallPeer(b)
      BY <1>1, <1>6 DEF CallPeer, Granted, Refused, GiveUp, Goto, Fail, TypeOK
    <3> QED BY <1>5, <3>1 DEF CallPeer, AtEnd, Leg
  <2>2. step'[b] <= Len(Route[b]) + 1
    BY <1>1, <1>3, <1>4, <1>5 DEF Granted, StageInv, AtEnd
  <2>3. status'[b] = "absent"
    BY <1>1, <1>2, <1>6 DEF StageInv, Early
  <2> QED BY <1>1, <1>2, <1>4, <1>5, <2>1, <2>2, <2>3 DEF StageInv
<1>8. CallInv(b)'
  <2>1. CASE CallPeer(b)
    <3>1. About(b) = {}
      BY <1>1, <2>1 DEF CallPeer, CallInv
    <3>2. About(b)' = {[kind |-> "reserve", b |-> b, s |-> Leg(b)]}
      BY <2>1, <3>1 DEF CallPeer, About
    <3>3. pc'[b] = "waiting" /\ Leg(b)' = Leg(b)
      BY <1>1, <2>1 DEF CallPeer, Goto, Leg, TypeOK
    <3>4. \A m \in About(b)' : m.kind = "reserve" /\ m.s = Leg(b)' /\ About(b)' = {m}
      BY <3>2, <3>3
    <3> QED BY <1>2, <1>6, <3>3, <3>4 DEF CallInv
  <2>2. CASE Granted(b) \/ Refused(b)
    <3>1. PICK r \in Replies(b) : calls' = calls \ {r}
      BY <2>2 DEF Granted, Refused
    <3>2. r \in About(b) /\ pc[b] = "waiting"
      BY <2>2, <3>1 DEF Granted, Refused, Replies, About
    <3>3. About(b) = {r}
      BY <1>1, <3>2 DEF CallInv
    <3>4. About(b)' = {}
      BY <3>1, <3>3 DEF About
    <3>5. pc'[b] # "waiting"
      BY <1>1, <2>2 DEF Granted, Refused, Goto, Fail, TypeOK
    <3> QED BY <3>4, <3>5 DEF CallInv
  <2>3. CASE GiveUp(b)
    <3>1. pc'[b] = "failed"
      BY <1>1, <2>3 DEF GiveUp, Fail, Goto, TypeOK
    <3>2. \A m \in About(b)' : m.kind \notin {"granted", "refused"}
      BY <2>3 DEF GiveUp, About, Replies
    <3> QED BY <1>2, <1>6, <3>1, <3>2 DEF CallInv
  <2> QED BY <2>1, <2>2, <2>3
<1>9. RowInv(b)'
  <2>1. (pc[b] \in Kept => \A i \in 1..(step[b] - 1) :
          RemoteAt(b, i) => <<b, Route[b][i]>> \in res)'
    <3>1. CASE pc'[b] = "running"
      <4>1. PICK m \in Replies(b) : m.kind = "granted"
        BY <1>5, <3>1 DEF Granted
      <4>2. m \in About(b) /\ pc[b] = "waiting"
        BY <1>5, <3>1, <4>1 DEF Granted, Replies, About
      <4>3. <<b, Route[b][step[b]]>> \in res
        BY <1>1, <4>1, <4>2 DEF CallInv, Leg
      <4>4. \A i \in 1..step[b] : i \in 1..(step[b] - 1) \/ i = step[b]
        BY <1>3
      <4>5. step'[b] - 1 = step[b]
        BY <1>3, <1>5, <3>1
      <4> QED BY <1>1, <1>2, <4>2, <4>3, <4>4, <4>5 DEF RowInv, RemoteAt, Kept
    <3>2. CASE pc'[b] # "running"
      <4>1. step'[b] = step[b] /\ pc[b] \in Kept
        BY <1>5, <1>6, <3>2 DEF Kept
      <4> QED BY <1>1, <1>2, <4>1 DEF RowInv, RemoteAt, Kept
    <3> QED BY <3>1, <3>2
  <2>2. status'[b] # "CONFIRMED" /\ ~Committed(b)'
    BY <1>2, <1>4, <1>6 DEF Committed
  <2> QED BY <2>1, <2>2 DEF RowInv
<1>10. PassInv(b)'
  <2>1. \A v \in VMs : b \notin rec[v].todo
    BY <1>1, <1>6 DEF PassInv, Early
  <2> QED BY <1>2, <2>1 DEF PassInv
<1> QED BY <1>7, <1>8, <1>9, <1>10 DEF BookingInv

LEMMA CommitStep ==
    ASSUME SagaInv, NEW b \in Bookings, CommitSaga(b)
    PROVE  BookingInv(b)'
<1> USE DEF CommitSaga, Goto, SetStatus
<1>1. TypeOK /\ StageInv(b) /\ CallInv(b) /\ RowInv(b) /\ PassInv(b)
  BY DEF SagaInv, BookingInv
<1>2. About(b)' = {} /\ pc'[b] = "committed" /\ status'[b] = "SAGA_IN_PROGRESS"
  BY <1>1 DEF CallInv, About, TypeOK
<1>3. StageInv(b)'
  BY <1>1, <1>2 DEF StageInv, AtEnd, Early, TypeOK
<1>4. CallInv(b)'
  BY <1>2 DEF CallInv
<1>5. RowInv(b)'
  <2>1. Rows(b, LocalLegs(b)) \subseteq res'
    OBVIOUS
  <2>2. Rows(b, LocalLegs(b))' = Rows(b, LocalLegs(b))
    BY DEF Rows, LocalLegs, Legs
  <2>3. \A i \in 1..(step[b] - 1) : RemoteAt(b, i) => <<b, Route[b][i]>> \in res'
    BY <1>1 DEF RowInv, Kept
  <2> QED BY <1>2, <2>1, <2>2, <2>3 DEF RowInv, RemoteAt
<1>6. PassInv(b)'
  <2>1. \A v \in VMs : b \notin rec[v].todo
    BY <1>1 DEF PassInv, Early
  <2> QED BY <2>1 DEF PassInv
<1> QED BY <1>3, <1>4, <1>5, <1>6 DEF BookingInv

LEMMA ReleaseStep ==
    ASSUME SagaInv, NEW b \in Bookings, ReleaseLocal(b) \/ ReleasePeer(b)
    PROVE  BookingInv(b)'
<1> USE DEF ReleaseLocal, ReleasePeer, Goto
<1>1. TypeOK /\ StageInv(b) /\ CallInv(b) /\ RowInv(b) /\ PassInv(b)
  BY DEF SagaInv, BookingInv
<1>2. /\ pc[b] \in {"failed", "released"} /\ pc'[b] \in {"released", "undone"}
      /\ UNCHANGED <<step, status, legs, rec>>
  BY <1>1 DEF TypeOK
<1>3. status[b] # "CONFIRMED"
  BY <1>1, <1>2 DEF StageInv
<1>4. StageInv(b)'
  BY <1>1, <1>2, <1>3 DEF StageInv, AtEnd, Early
<1>5. CallInv(b)'
  <2>1. \A m \in calls' : m \in calls \/ m.kind = "release"
    OBVIOUS
  <2>2. \A m \in About(b)' : m.kind \notin {"granted", "refused"}
    BY <1>1, <1>2, <2>1 DEF CallInv, About
  <2> QED BY <1>2, <1>3, <2>2 DEF CallInv
<1>6. RowInv(b)'
  BY <1>2, <1>3 DEF RowInv, Committed, Kept
<1>7. PassInv(b)'
  BY <1>1, <1>2, <1>3 DEF PassInv, Early
<1> QED BY <1>4, <1>5, <1>6, <1>7 DEF BookingInv

LEMMA DriverStep ==
    ASSUME SagaInv, NEW b \in Bookings, CancelBooking(b) \/ GrowOld(b)
    PROVE  BookingInv(b)'
<1>1. TypeOK /\ StageInv(b) /\ CallInv(b) /\ RowInv(b) /\ PassInv(b)
  BY DEF SagaInv, BookingInv
<1>2. UNCHANGED <<pc, step, res, calls, rec>>
  BY DEF CancelBooking, GrowOld, sagaVars
<1>3. About(b)' = About(b)
  BY <1>2 DEF About
<1>4. \/ status'[b] = status[b] /\ legs'[b] = legs[b]
      \/ status'[b] = "CANCELLED" /\ ~legs'[b] /\ status[b] # "absent"
  BY <1>1, CancelAssumption DEF CancelBooking, GrowOld, SetStatus, TypeOK, Statuses
<1>5. StageInv(b)'
  BY <1>1, <1>2, <1>4 DEF StageInv, AtEnd, Leg
<1>6. CallInv(b)'
  BY <1>1, <1>2, <1>3, <1>4 DEF CallInv, Leg
<1>7. RowInv(b)'
  BY <1>1, <1>2, <1>4 DEF RowInv, Committed, RemoteAt, Rows, RemoteLegs, LocalLegs, Legs
<1>8. PassInv(b)'
  BY <1>1, <1>2, <1>4 DEF PassInv
<1> QED BY <1>5, <1>6, <1>7, <1>8 DEF BookingInv

LEMMA MessageStep ==
    ASSUME SagaInv, NEW m \in calls, Deliver(m) \/ Lose(m), NEW b \in Bookings
    PROVE  BookingInv(b)'
<1>1. TypeOK /\ StageInv(b) /\ CallInv(b) /\ RowInv(b) /\ PassInv(b)
  BY DEF SagaInv, BookingInv
<1>2. UNCHANGED <<pc, step, undo, status, legs, rec>> /\ m.b \in Bookings
  BY <1>1, MessageFacts DEF Deliver, HandleReserve, HandleRelease, Lose, sagaVars, TypeOK
<1>3. Leg(b)' = Leg(b) /\ AtEnd(b)' = AtEnd(b)
  BY <1>2 DEF Leg, AtEnd
<1>4. StageInv(b)' /\ PassInv(b)'
  BY <1>1, <1>2, <1>3 DEF StageInv, PassInv
<1>5. PassesSame(b)
  BY <1>2 DEF PassesSame
<1>6. CASE HandleReserve(m)
  <2>1. PICK answer \in {"granted", "refused"} :
          /\ res' = IF answer = "granted" THEN res \cup {<<m.b, m.s>>} ELSE res
          /\ calls' = (calls \ {m}) \cup
                IF Awaits(m.b, m.s)
                THEN {[kind |-> answer, b |-> m.b, s |-> m.s]} ELSE {}
    BY <1>6 DEF HandleReserve
  <2>2. res \subseteq res'
    BY <2>1
  <2>3. CASE m.b # b
    <3>1. About(b)' = About(b)
      BY <2>1, <2>3 DEF About
    <3>2. Same(b)
      BY <1>2, <1>5, <2>2, <3>1 DEF Same
    <3> QED BY <1>1, <3>2, SameBooking DEF BookingInv
  <2>4. CASE m.b = b /\ Awaits(m.b, m.s)
    <3> DEFINE reply == [kind |-> answer, b |-> m.b, s |-> m.s]
    <3>1. pc[b] = "waiting" /\ m.s = Leg(b) /\ m \in About(b)
      BY <2>4 DEF Awaits, About
    <3>2. About(b) = {m}
      BY <1>1, <3>1 DEF CallInv
    <3>3. About(b)' = {reply}
      BY <2>1, <2>4, <3>2 DEF About
    <3>4. answer = "granted" => <<b, Leg(b)>> \in res'
      BY <2>1, <2>4, <3>1
    <3>5. status[b] # "CONFIRMED"
      BY <1>1, <3>1 DEF StageInv
    <3>6. CallInv(b)'
      <4>1. reply.kind = answer /\ reply.s = Leg(b)
        BY <3>1
      <4>2. \A n \in About(b)' : n = reply
        BY <3>3
      <4> HIDE DEF reply
      <4> QED BY <1>2, <1>3, <3>1, <3>3, <3>4, <3>5, <4>1, <4>2 DEF CallInv
    <3>7. RowInv(b)'
      BY <1>1, <1>2, <2>2, <3>1, <3>5 DEF RowInv, Committed, Kept, RemoteAt
    <3> QED BY <1>4, <3>6, <3>7 DEF BookingInv
  <2>5. CASE m.b = b /\ ~Awaits(m.b, m.s)
    <3>1. m \in About(b) /\ m.kind = "reserve" /\ About(b)' = About(b) \ {m}
      BY <1>6, <2>1, <2>5 DEF About, HandleReserve
    <3>2. pc[b] # "waiting"
      BY <1>1, <2>5, <3>1 DEF CallInv, Awaits
    <3>3. pc[b] \notin Kept /\ status[b] # "CONFIRMED" /\ ~Committed(b)
      BY <1>1, <3>1, <3>2 DEF CallInv, Kept, Committed
    <3>4. CallInv(b)'
      BY <1>1, <1>2, <3>1, <3>2 DEF CallInv
    <3>5. RowInv(b)'
      BY <1>2, <3>3 DEF RowInv, Committed
    <3> QED BY <1>4, <3>4, <3>5 DEF BookingInv
  <2> QED BY <2>3, <2>4, <2>5
<1>7. CASE HandleRelease(m) \/ Lose(m)
  <2>1. calls' = calls \ {m}
    BY <1>7 DEF HandleRelease, Lose
  <2>2. CASE m.b # b
    <3>1. About(b)' = About(b)
      BY <2>1, <2>2 DEF About
    <3>2. \A s \in Segments : <<b, s>> \in res => <<b, s>> \in res'
      BY <1>7, <2>2 DEF HandleRelease, Lose, Rows
    <3>3. Same(b)
      BY <1>2, <1>5, <3>1, <3>2 DEF Same
    <3> QED BY <1>1, <3>3, SameBooking DEF BookingInv
  <2>3. CASE m.b = b
    <3>1. m \in About(b) /\ About(b)' = About(b) \ {m}
      BY <2>1, <2>3 DEF About
    <3>2. status[b] # "CONFIRMED" /\ ~Committed(b)
      BY <1>1, <3>1 DEF CallInv, Committed
    <3>3. CallInv(b)'
      <4>1. pc[b] = "waiting" => About(b)' = {}
        BY <1>1, <3>1 DEF CallInv
      <4> QED BY <1>1, <1>2, <3>1, <3>2, <4>1 DEF CallInv
    <3>4. RowInv(b)'
      <4>1. CASE Lose(m)
        BY <1>1, <1>2, <4>1 DEF RowInv, Committed, Kept, RemoteAt, Lose, Rows, RemoteLegs,
                            LocalLegs, Legs
      <4>2. CASE HandleRelease(m)
        <5>1. pc[b] \notin Kept
          BY <1>1, <3>1, <4>2 DEF CallInv, Kept, HandleRelease
        <5> QED BY <1>2, <3>2, <5>1 DEF RowInv, Committed
      <4> QED BY <1>7, <4>1, <4>2
    <3> QED BY <1>4, <3>3, <3>4 DEF BookingInv
  <2> QED BY <2>2, <2>3
<1> QED BY <1>6, <1>7 DEF Deliver

LEMMA CrashStep ==
    ASSUME SagaInv, NEW v \in VMs, Crash(v), NEW b \in Bookings
    PROVE  BookingInv(b)'
<1>1. TypeOK /\ StageInv(b) /\ CallInv(b) /\ RowInv(b) /\ PassInv(b)
  BY DEF SagaInv, BookingInv
<1>2. UNCHANGED <<step, undo, status, legs, res>>
  BY DEF Crash
<1>3. PassesSame(b)
  BY <1>1 DEF Crash, PassesSame, TypeOK, NoPass
<1>4. About(b)' = IF Home[b] = v THEN About(b) \ Replies(b) ELSE About(b)
  <2>1. \A n : n \in About(b)' <=>
          n \in calls /\ n.b = b /\ ~(Home[b] = v /\ n \in Replies(b))
    BY DEF Crash, About, Replies
  <2> QED BY <2>1 DEF About
<1>5. CASE Home[b] = v /\ Active(b)
  <2>1. pc'[b] = "dead" /\ status[b] # "CONFIRMED"
    BY <1>1, <1>5 DEF Crash, StageInv, Active, Over
  <2>2. StageInv(b)'
    BY <1>1, <1>2, <1>5, <2>1 DEF StageInv, Early, Active, Over
  <2>3. CallInv(b)'
    BY <1>2, <1>4, <1>5, <2>1 DEF CallInv, Replies, About
  <2>4. RowInv(b)'
    BY <1>2, <2>1 DEF RowInv, Committed, Kept
  <2>5. PassInv(b)'
    BY <1>1, <1>2, <1>3, <1>5, <2>1 DEF PassInv, PassesSame, Active, Over, Early
  <2> QED BY <2>2, <2>3, <2>4, <2>5 DEF BookingInv
<1>6. CASE ~(Home[b] = v /\ Active(b))
  <2>1. pc'[b] = pc[b]
    BY <1>6 DEF Crash
  <2>2. Home[b] = v => pc[b] # "waiting"
    BY <1>6 DEF Active, Over
  <2>3. About(b)' = About(b)
    BY <1>1, <1>4, <2>2 DEF CallInv, Replies, About
  <2>4. Same(b)
    BY <1>2, <1>3, <2>1, <2>3 DEF Same
  <2> QED BY <1>1, <2>4, SameBooking DEF BookingInv
<1> QED BY <1>5, <1>6

LEMMA PassStep ==
    ASSUME SagaInv, NEW v \in VMs, Reconcile(v) \/ AbortPass(v), NEW b \in Bookings
    PROVE  BookingInv(b)'
<1>1. TypeOK /\ StageInv(b) /\ CallInv(b) /\ RowInv(b) /\ PassInv(b)
  BY DEF SagaInv, BookingInv
<1>2. CASE RunQueries(v)
  <2>1. /\ rec' = [rec EXCEPT ![v] = Survey(v, Later(rec[v].phase))]
        /\ UNCHANGED <<pc, step, undo, status, legs, res, calls>>
    BY <1>2 DEF RunQueries, sagaVars
  <2>2. StageInv(b)' /\ RowInv(b)'
    BY <1>1, <2>1 DEF StageInv, RowInv, AtEnd, Leg, Committed, RemoteAt, Rows, RemoteLegs,
                      LocalLegs, Legs
  <2>3. CallInv(b)'
    BY <1>1, <2>1 DEF CallInv, About, Leg
  <2>4. PassInv(b)'
    <3> DEFINE pass == Survey(v, Later(rec[v].phase))
    <3>1. b \in pass.todo =>
            /\ pass.phase = "dangling" => b \in Dangling(v)
            /\ pass.phase = "lingering" => b \in Lingering(v)
            /\ pass.phase = "orphans" => b \in Orphans(v)
            /\ pass.phase \in Phases
      BY <1>1, SurveyFacts
    <3>2. rec'[v] = pass /\ \A w \in VMs \ {v} : rec'[w] = rec[w]
      BY <1>1, <2>1 DEF TypeOK
    <3> HIDE DEF pass
    <3>3. b \in pass.todo =>
            /\ pc[b] \notin Early
            /\ pass.phase = "dangling" => ~legs[b] /\ pc[b] = "ended"
            /\ pass.phase = "lingering" =>
                  ~legs[b] \/ (pc[b] = "ended" /\ status[b] # "CONFIRMED")
      BY <1>1, <3>1 DEF StageInv, Dangling, Lingering, Orphans, Phases
    <3> QED BY <1>1, <2>1, <3>2, <3>3 DEF PassInv
  <2> QED BY <2>2, <2>3, <2>4 DEF BookingInv
<1>3. CASE Conflict(v) \/ AbortPass(v)
  <2>1. /\ rec' = [rec EXCEPT ![v] = NoPass]
        /\ UNCHANGED <<pc, step, undo, status, legs, res, calls>>
    BY <1>3 DEF Conflict, AbortPass, sagaVars
  <2>2. PassesSame(b)
    BY <1>1, <2>1 DEF PassesSame, TypeOK, NoPass
  <2>3. Same(b)
    BY <2>1, <2>2 DEF Same, About
  <2> QED BY <1>1, <2>3, SameBooking DEF BookingInv
<1>4. ASSUME NEW c \in Bookings, FixOrphan(v, c) \/ FixDangling(v, c) \/ FixLingering(v, c)
      PROVE  BookingInv(b)'
  <2>1. PICK phase \in Phases :
          /\ Handles(v, c, phase)
          /\ phase = "orphans" => status'[c] = "REJECTED" /\ ~legs'[c]
          /\ phase = "dangling" => status'[c] = "CANCELLED" /\ legs'[c] = legs[c]
          /\ phase = "lingering" => status'[c] = status[c] /\ legs'[c] = legs[c]
          /\ \A d \in Bookings \ {c} : status'[d] = status[d] /\ legs'[d] = legs[d]
    BY <1>1, <1>4 DEF FixOrphan, FixDangling, FixLingering, SetStatus, TypeOK, Phases
  <2>2. UNCHANGED <<pc, step, undo, calls>> /\ c \in rec[v].todo /\ rec[v].phase = phase
    BY <2>1 DEF Handles, sagaVars
  <2>3. PassesSame(b)
    BY <1>1, <2>1, PassShrinks DEF PassesSame
  <2>4. res' = res \ LocalRows(c)
    BY <2>1 DEF Handles
  <2>5. CASE b # c
    <3>1. \A s \in Segments : <<b, s>> \in res => <<b, s>> \in res'
      BY <2>4, <2>5, LocalRowsOnly
    <3>2. Same(b)
      BY <2>1, <2>2, <2>3, <2>5, <3>1 DEF Same, About
    <3> QED BY <1>1, <3>2, SameBooking DEF BookingInv
  <2>6. CASE b = c
    <3>1. pc[b] \notin Early
      BY <1>1, <2>2, <2>6 DEF PassInv
    <3>2. /\ \/ status'[b] = status[b]
             \/ status'[b] \in {"REJECTED", "CANCELLED"}
          /\ legs'[b] => legs[b]
      BY <2>1, <2>6 DEF Phases
    <3>3. StageInv(b)'
      BY <1>1, <2>1, <2>2, <2>6, <3>1, <3>2 DEF StageInv, PassInv, AtEnd, Leg, Phases
    <3>4. CallInv(b)'
      <4>1. About(b)' = About(b) /\ Leg(b)' = Leg(b)
        BY <2>2 DEF About, Leg
      <4>2. pc[b] # "waiting" /\ (status'[b] = "CONFIRMED" => status[b] = "CONFIRMED")
        BY <3>1, <3>2 DEF Early
      <4> QED BY <1>1, <2>2, <4>1, <4>2 DEF CallInv
    <3>5. RowInv(b)'
      <4>1. \A s \in RemoteLegs(b) : <<b, s>> \in res => <<b, s>> \in res'
        BY <2>4, LocalRowsOnly
      <4>2. StageInv(b) /\ step[b] \in Nat /\ Len(Route[b]) \in Nat
        BY <1>1, RouteFacts DEF TypeOK
      <4>3. \A i \in 1..(step[b] - 1) : RemoteAt(b, i) => Route[b][i] \in RemoteLegs(b)
        BY <4>2, RouteFacts DEF RemoteAt, RemoteLegs, LocalLegs, Legs, StageInv
      <4>4. (pc[b] \in Kept => \A i \in 1..(step[b] - 1) :
              RemoteAt(b, i) => <<b, Route[b][i]>> \in res)'
        BY <1>1, <2>2, <4>1, <4>3 DEF RowInv, RemoteAt
      <4>5. (status[b] = "CONFIRMED" => Rows(b, RemoteLegs(b)) \subseteq res)'
        BY <1>1, <2>2, <3>2, <4>1 DEF RowInv, Rows, RemoteLegs, LocalLegs, Legs
      <4>6. (Committed(b) /\ legs[b])' => FALSE
        BY <1>1, <2>1, <2>2, <2>6, <3>2 DEF Committed, PassInv, StageInv, Phases
      <4> QED BY <4>4, <4>5, <4>6 DEF RowInv
    <3>6. PassInv(b)'
      BY <1>1, <2>2, <2>3, <3>2 DEF PassInv, PassesSame
    <3> QED BY <3>3, <3>4, <3>5, <3>6 DEF BookingInv
  <2> QED BY <2>5, <2>6
<1> QED BY <1>2, <1>3, <1>4 DEF Reconcile

LEMMA SagaInvStep == SagaInv /\ [Next]_vars => SagaInv'
<1> SUFFICES ASSUME SagaInv, [Next]_vars, NEW b \in Bookings PROVE BookingInv(b)'
  BY TypeStep DEF SagaInv
<1>1. TypeOK /\ BookingInv(b)
  BY DEF SagaInv
<1>2. ASSUME NEW c \in Bookings, SagaStep(c) \/ StartSaga(c) \/ CancelBooking(c) \/ GrowOld(c)
      PROVE  BookingInv(b)'
  <2>1. CASE c = b
    BY <1>2, <2>1, QuietStep, CallStep, CommitStep, ReleaseStep, DriverStep DEF SagaStep
  <2>2. CASE c # b
    BY <1>1, <1>2, <2>2, OtherRequests, SameBooking
  <2> QED BY <2>1, <2>2
<1>3. ASSUME UNCHANGED vars PROVE BookingInv(b)'
  <2>1. Same(b)
    BY <1>3 DEF vars, sagaVars, Same, About, PassesSame
  <2> QED BY <1>1, <2>1, SameBooking
<1> QED BY <1>2, <1>3, MessageStep, CrashStep, PassStep DEF Next

-----------------------------------------------------------------------------
(* What holds whatever the timing *)

\* The first invariant holds in every reachable state.
THEOREM SagaInvHolds == Spec => []SagaInv
BY SagaInvInit, SagaInvStep, PTL DEF Spec

\* Every variable keeps its type.
THEOREM SagaTypeCorrect == Spec => []TypeOK
<1>1. SagaInv => TypeOK
  BY DEF SagaInv
<1> QED BY <1>1, SagaInvHolds, PTL

\* A CONFIRMED booking holds every leg on the peer, and every leg at home
\* unless segment_reservations show the loss: however slow sagas are and
\* whenever drivers cancel.
THEOREM LossIsVisibleHolds == Spec => []LossIsVisible
<1>1. SagaInv => LossIsVisible
  BY DEF SagaInv, BookingInv, RowInv, Committed, LossIsVisible
<1> QED BY <1>1, SagaInvHolds, PTL

-----------------------------------------------------------------------------
(* The second invariant *)

LEMMA CalmInvInit == Init => CalmInv
BY DEF Init, CalmInv, CalmStage, CalmRows, CalmPass, Committed, NoPass

CalmSame(b) ==
    /\ pc'[b] = pc[b] /\ status'[b] = status[b] /\ legs'[b] = legs[b]
    /\ told'[b] = told[b] /\ age'[b] = age[b]
    /\ \A s \in LocalLegs(b) : <<b, s>> \in res => <<b, s>> \in res'
    /\ PassesSame(b)

Calm(b) == CalmStage(b) /\ CalmRows(b) /\ CalmPass(b)

LEMMA CalmSameBooking ==
    ASSUME NEW b \in Bookings, Calm(b), CalmSame(b)
    PROVE  Calm(b)'
<1> USE DEF CalmSame, Calm
<1>1. CalmStage(b)' /\ CalmPass(b)'
  BY DEF CalmStage, CalmPass, PassesSame, LocalLegs, Legs
<1>2. CalmRows(b)'
  <2>1. LocalLegs(b)' = LocalLegs(b)
    BY DEF LocalLegs, Legs
  <2> QED BY <2>1 DEF CalmRows, Committed, Rows
<1> QED BY <1>1, <1>2

\* Whatever makes a row of this VM disappear takes it from one booking.
LEMMA CalmOthers ==
    ASSUME TypeOK, NEW c \in Bookings, NEW b \in Bookings, b # c,
           SagaStep(c) \/ StartSaga(c) \/ CancelBooking(c) \/ GrowOld(c)
    PROVE  CalmSame(b)
<1>1. Same(b)
  BY OtherRequests
<1>2. told'[b] = told[b] /\ age'[b] = age[b]
  BY DEF SagaStep, StartSaga, CancelBooking, GrowOld, NoRoute, ReserveLocal, RefuseLocal, CallPeer,
         Granted, Refused, GiveUp, CommitSaga, CommitFails, PublishConfirmed, PublishFails,
         ConfirmBooking, ReleaseLocal, ReleasePeer, PublishFailed, RejectBooking,
         Tell, TypeOK
<1>3. LocalLegs(b) \subseteq Segments
  BY RouteFacts DEF LocalLegs
<1> QED BY <1>1, <1>2, <1>3 DEF Same, CalmSame

LEMMA CalmSagaStep ==
    ASSUME SagaInv, NEW b \in Bookings, Calm(b), SagaStep(b) \/ StartSaga(b)
    PROVE  Calm(b)'
<1> USE DEF StartSaga, NoRoute, ReserveLocal, RefuseLocal, CallPeer, Granted, Refused, GiveUp,
            CommitSaga, CommitFails, PublishConfirmed, PublishFails, ConfirmBooking,
            ReleaseLocal, ReleasePeer, PublishFailed, RejectBooking, Goto, Fail, SetStatus
<1>1. TypeOK /\ StageInv(b) /\ CalmStage(b) /\ CalmRows(b) /\ CalmPass(b)
  BY DEF SagaInv, BookingInv, Calm
<1>2. UNCHANGED <<age, rec>> /\ pc[b] \notin Over /\ pc'[b] # "dead"
  BY <1>1 DEF SagaStep, Over, TypeOK
<1>3. /\ pc'[b] = "ended" => ConfirmBooking(b) \/ RejectBooking(b)
      /\ pc'[b] = "published" => PublishConfirmed(b)
      /\ pc'[b] = "committed" => CommitSaga(b)
      /\ ConfirmBooking(b) => status'[b] = "CONFIRMED" /\ told' = told /\ pc'[b] = "ended"
      /\ RejectBooking(b) => status'[b] = "REJECTED" /\ pc'[b] = "ended"
      /\ status'[b] # status[b] => ConfirmBooking(b) \/ RejectBooking(b) \/ CommitSaga(b)
  BY <1>1 DEF SagaStep, TypeOK
<1>4. CalmStage(b)'
  BY <1>1, <1>2, <1>3 DEF CalmStage, Over, TypeOK
<1>5. CalmRows(b)'
  <2>1. status'[b] = "CONFIRMED" => ConfirmBooking(b)
    BY <1>1, <1>2, <1>3 DEF StageInv, Over, TypeOK
  <2>2. (pc[b] = "published" \/ status[b] = "CONFIRMED" => told[b] = "confirmed")'
    BY <1>1, <1>3, <2>1 DEF CalmRows, TypeOK
  <2>3. LocalLegs(b)' = LocalLegs(b) /\ Rows(b, LocalLegs(b))' = Rows(b, LocalLegs(b))
    BY DEF LocalLegs, Legs, Rows
  <2>4. Committed(b)' => CommitSaga(b) \/ PublishConfirmed(b) \/ ConfirmBooking(b)
    BY <1>3, <2>1 DEF Committed
  <2>5. CASE CommitSaga(b)
    <3>1. legs'[b] <=> LocalLegs(b) # {}
      BY <1>1, <2>5 DEF TypeOK
    <3>2. Rows(b, LocalLegs(b)) \subseteq res'
      BY <2>5
    <3> QED BY <2>2, <2>3, <3>1, <3>2 DEF CalmRows
  <2>6. CASE PublishConfirmed(b) \/ ConfirmBooking(b)
    <3>1. Committed(b) /\ res' = res /\ legs' = legs
      BY <2>6 DEF Committed
    <3> QED BY <1>1, <2>2, <2>3, <3>1 DEF CalmRows
  <2> QED BY <2>2, <2>4, <2>5, <2>6 DEF CalmRows
<1>6. CalmPass(b)'
  <2>1. \A v \in VMs : b \in rec[v].todo => rec[v].phase \notin Phases
    BY <1>1, <1>2 DEF CalmPass, Over, Phases
  <2> QED BY <1>2, <2>1 DEF CalmPass, Phases
<1> QED BY <1>4, <1>5, <1>6 DEF Calm

LEMMA CalmDriverStep ==
    ASSUME SagaInv, Undisturbed, NEW b \in Bookings, Calm(b), CancelBooking(b) \/ GrowOld(b)
    PROVE  Calm(b)'
<1>1. TypeOK /\ StageInv(b) /\ CalmStage(b) /\ CalmRows(b) /\ CalmPass(b)
  BY DEF SagaInv, BookingInv, Calm
<1>2. CASE CancelBooking(b)
  <2>1. status[b] \in {"CONFIRMED", "REJECTED"}
    BY <1>2, CancelAssumption DEF CancelBooking, Undisturbed, Statuses
  <2>2. UNCHANGED <<pc, age, rec>> /\ status'[b] = "CANCELLED" /\ pc[b] \in Over
    BY <1>1, <1>2, <2>1
    DEF CancelBooking, SetStatus, sagaVars, StageInv, CalmStage, Over, TypeOK
  <2>3. CalmStage(b)' /\ CalmRows(b)'
    BY <2>2 DEF CalmStage, CalmRows, Committed, Over
  <2>4. CalmPass(b)'
    BY <1>1, <2>2 DEF CalmPass, LocalLegs, Legs
  <2> QED BY <2>3, <2>4 DEF Calm
<1>3. CASE GrowOld(b)
  <2>1. UNCHANGED <<pc, status, legs, res, told, rec>> /\ pc[b] \in Over
    BY <1>3 DEF GrowOld, Undisturbed, sagaVars
  <2>2. CalmStage(b)' /\ CalmRows(b)' /\ CalmPass(b)'
    BY <1>1, <2>1 DEF CalmStage, CalmRows, CalmPass, Committed, Rows, LocalLegs, Legs
  <2> QED BY <2>2 DEF Calm
<1> QED BY <1>2, <1>3

LEMMA CalmMessageStep ==
    ASSUME TypeOK, NEW m \in calls, Deliver(m) \/ Lose(m), NEW b \in Bookings
    PROVE  CalmSame(b)
<1>1. UNCHANGED <<pc, status, legs, age, told, rec>>
  BY DEF Deliver, HandleReserve, HandleRelease, Lose, sagaVars
<1>2. \A s \in LocalLegs(b) : <<b, s>> \in res => <<b, s>> \in res'
  BY DEF Deliver, HandleReserve, HandleRelease, Lose, Rows, RemoteLegs
<1> QED BY <1>1, <1>2 DEF CalmSame, PassesSame

LEMMA CalmCrashStep ==
    ASSUME SagaInv, NEW v \in VMs, Crash(v), NEW b \in Bookings, Calm(b)
    PROVE  Calm(b)'
<1>1. TypeOK /\ StageInv(b) /\ CalmStage(b) /\ CalmRows(b) /\ CalmPass(b)
  BY DEF SagaInv, BookingInv, Calm
<1>2. UNCHANGED <<status, legs, age, res, told>>
  BY DEF Crash
<1>3. PassesSame(b)
  BY <1>1 DEF Crash, PassesSame, TypeOK, NoPass
<1>4. CASE Home[b] = v /\ Active(b)
  <2>1. pc'[b] = "dead" /\ status[b] # "CONFIRMED" /\ pc[b] \notin Over
    BY <1>1, <1>4 DEF Crash, StageInv, Active, Over
  <2>2. CalmStage(b)' /\ CalmRows(b)'
    BY <1>1, <1>2, <2>1 DEF CalmStage, CalmRows, Committed, Over
  <2>3. CalmPass(b)'
    BY <1>1, <1>2, <1>3, <2>1 DEF CalmPass, PassesSame, Over
  <2> QED BY <2>2, <2>3 DEF Calm
<1>5. CASE ~(Home[b] = v /\ Active(b))
  <2>1. CalmSame(b)
    BY <1>2, <1>3, <1>5 DEF Crash, CalmSame
  <2> QED BY <2>1, CalmSameBooking
<1> QED BY <1>4, <1>5

LEMMA CalmPassStep ==
    ASSUME SagaInv, NEW v \in VMs, Reconcile(v) \/ AbortPass(v), NEW b \in Bookings, Calm(b)
    PROVE  Calm(b)'
<1>1. TypeOK /\ StageInv(b) /\ CalmStage(b) /\ CalmRows(b) /\ CalmPass(b)
  BY DEF SagaInv, BookingInv, Calm
<1>2. CASE RunQueries(v)
  <2>1. /\ rec' = [rec EXCEPT ![v] = Survey(v, Later(rec[v].phase))]
        /\ UNCHANGED <<pc, status, legs, age, res, told>>
    BY <1>2 DEF RunQueries, sagaVars
  <2>2. CalmStage(b)' /\ CalmRows(b)'
    BY <1>1, <2>1 DEF CalmStage, CalmRows, Committed, Rows, LocalLegs, Legs
  <2>3. CalmPass(b)'
    <3> DEFINE pass == Survey(v, Later(rec[v].phase))
    <3>1. b \in pass.todo =>
            /\ pass.phase = "orphans" => b \in Orphans(v)
            /\ pass.phase = "dangling" => b \in Dangling(v)
            /\ pass.phase = "lingering" => b \in Lingering(v)
      BY <1>1, SurveyFacts
    <3>2. rec'[v] = pass /\ \A w \in VMs \ {v} : rec'[w] = rec[w]
      BY <1>1, <2>1 DEF TypeOK
    <3> HIDE DEF pass
    <3>3. b \in pass.todo =>
            /\ pass.phase = "orphans" => pc[b] = "dead"
            /\ pass.phase = "dangling" => LocalLegs(b) = {} /\ pc[b] = "ended"
            /\ pass.phase = "lingering" => pc[b] \in Over /\ status[b] # "CONFIRMED"
      BY <1>1, <3>1
      DEF StageInv, CalmStage, CalmRows, Committed, Over, Dangling, Lingering, Orphans
    <3> QED BY <1>1, <2>1, <3>2, <3>3 DEF CalmPass, LocalLegs, Legs
  <2> QED BY <2>2, <2>3 DEF Calm
<1>3. CASE Conflict(v) \/ AbortPass(v)
  <2>1. /\ rec' = [rec EXCEPT ![v] = NoPass]
        /\ UNCHANGED <<pc, status, legs, age, res, told>>
    BY <1>3 DEF Conflict, AbortPass, sagaVars
  <2>2. CalmSame(b)
    BY <1>1, <2>1 DEF CalmSame, PassesSame, TypeOK, NoPass
  <2> QED BY <2>2, CalmSameBooking
<1>4. ASSUME NEW c \in Bookings, FixOrphan(v, c) \/ FixDangling(v, c) \/ FixLingering(v, c)
      PROVE  Calm(b)'
  <2>1. PICK phase \in Phases :
          /\ Handles(v, c, phase)
          /\ phase = "orphans" => status'[c] = "REJECTED"
          /\ phase = "dangling" => status'[c] = "CANCELLED"
          /\ phase = "lingering" => status'[c] = status[c]
          /\ \A d \in Bookings \ {c} :
                status'[d] = status[d] /\ legs'[d] = legs[d] /\ told'[d] = told[d]
    BY <1>1, <1>4 DEF FixOrphan, FixDangling, FixLingering, SetStatus, Tell, TypeOK, Phases
  <2>2. /\ UNCHANGED <<pc, age>> /\ c \in rec[v].todo /\ rec[v].phase = phase
        /\ res' = res \ LocalRows(c)
    BY <2>1 DEF Handles, sagaVars
  <2>3. PassesSame(b)
    BY <1>1, <2>1, PassShrinks DEF PassesSame
  <2>4. CASE b # c
    <3>1. CalmSame(b)
      BY <2>1, <2>2, <2>3, <2>4, LocalRowsOnly DEF CalmSame
    <3> QED BY <3>1, CalmSameBooking
  <2>5. CASE b = c
    <3>1. pc[b] \in Over /\ status'[b] # "CONFIRMED"
      BY <1>1, <2>1, <2>2, <2>5 DEF CalmPass, Over, Phases
    <3>2. CalmStage(b)' /\ CalmRows(b)'
      BY <1>1, <2>1, <2>2, <2>5, <3>1 DEF CalmStage, CalmRows, Committed, Over, Phases
    <3>3. CalmPass(b)'
      BY <1>1, <2>2, <2>3, <3>1 DEF CalmPass, PassesSame, LocalLegs, Legs
    <3> QED BY <3>2, <3>3 DEF Calm
  <2> QED BY <2>4, <2>5
<1> QED BY <1>2, <1>3, <1>4 DEF Reconcile

LEMMA CalmInvStep == SagaInv /\ Undisturbed /\ CalmInv /\ [Next]_vars => CalmInv'
<1> SUFFICES ASSUME SagaInv, Undisturbed, CalmInv, [Next]_vars, NEW b \in Bookings
             PROVE  Calm(b)'
  BY DEF CalmInv, Calm
<1>1. TypeOK /\ Calm(b)
  BY DEF SagaInv, CalmInv, Calm
<1>2. ASSUME NEW c \in Bookings, SagaStep(c) \/ StartSaga(c) \/ CancelBooking(c) \/ GrowOld(c)
      PROVE  Calm(b)'
  <2>1. CASE c = b
    BY <1>1, <1>2, <2>1, CalmSagaStep, CalmDriverStep
  <2>2. CASE c # b
    BY <1>1, <1>2, <2>2, CalmOthers, CalmSameBooking
  <2> QED BY <2>1, <2>2
<1>3. ASSUME NEW m \in calls, Deliver(m) \/ Lose(m) PROVE Calm(b)'
  BY <1>1, <1>3, CalmMessageStep, CalmSameBooking
<1>4. ASSUME UNCHANGED vars PROVE Calm(b)'
  <2>1. CalmSame(b)
    BY <1>4 DEF vars, sagaVars, CalmSame, PassesSame
  <2> QED BY <1>1, <2>1, CalmSameBooking
<1> QED BY <1>1, <1>2, <1>3, <1>4, CalmCrashStep, CalmPassStep DEF Next

\* The second invariant holds in every reachable state of an undisturbed system.
LEMMA CalmInvHolds == Spec => [](Undisturbed => CalmInv)
<1>1. Init => (Undisturbed => CalmInv)
  BY CalmInvInit
<1>2. SagaInv /\ (Undisturbed => CalmInv) /\ [Next]_vars => (Undisturbed => CalmInv)'
  BY CalmInvStep DEF Undisturbed
<1> QED BY <1>1, <1>2, SagaInvHolds, PTL DEF Spec

-----------------------------------------------------------------------------
(* What holds while nothing is disturbed *)

\* A CONFIRMED booking holds every leg of its route, on both VMs.
THEOREM ConfirmedBackedHolds == Spec => []ConfirmedBacked
<1>1. SagaInv /\ (Undisturbed => CalmInv) => ConfirmedBacked
  <2> SUFFICES ASSUME SagaInv, CalmInv, NEW b \in Bookings, status[b] = "CONFIRMED"
               PROVE  Backed(b)
    BY DEF ConfirmedBacked
  <2>1. Rows(b, RemoteLegs(b)) \subseteq res /\ Rows(b, LocalLegs(b)) \subseteq res
    BY DEF SagaInv, BookingInv, RowInv, CalmInv, CalmRows, Committed
  <2> QED BY <2>1 DEF Backed, Rows, RemoteLegs
<1> QED BY <1>1, SagaInvHolds, CalmInvHolds, PTL

\* The last event consumers can have heard of a CONFIRMED booking is its
\* booking.confirmed.
THEOREM ConfirmedWasToldHolds == Spec => []ConfirmedWasTold
<1>1. (Undisturbed => CalmInv) => ConfirmedWasTold
  BY DEF CalmInv, CalmRows, ConfirmedWasTold
<1> QED BY <1>1, CalmInvHolds, PTL

\* A row taken by a pass, a request or a driver, and what becomes of it.
LEMMA StatusChanges ==
    ASSUME SagaInv, Undisturbed, CalmInv, [Next]_vars, NEW b \in Bookings,
           status'[b] # status[b]
    PROVE  \/ /\ pc[b] \notin Over /\ rec' = rec
              /\ status'[b] \in {"SAGA_IN_PROGRESS", "CONFIRMED", "REJECTED"}
           \/ status'[b] = "CANCELLED" /\ rec' = rec
           \/ /\ status'[b] \in {"REJECTED", "CANCELLED"}
              /\ status[b] = "CONFIRMED" => LocalLegs(b) = {}
<1>1. TypeOK /\ StageInv(b) /\ CalmPass(b)
  BY DEF SagaInv, BookingInv, CalmInv
<1>2. ASSUME NEW c \in Bookings, SagaStep(c) \/ StartSaga(c)
      PROVE  /\ c = b /\ pc[b] \notin Over /\ rec' = rec
             /\ status'[b] \in {"SAGA_IN_PROGRESS", "CONFIRMED", "REJECTED"}
  BY <1>1, <1>2 DEF SagaStep, StartSaga, NoRoute, ReserveLocal, RefuseLocal, CallPeer, Granted,
         Refused, GiveUp, CommitSaga, CommitFails, PublishConfirmed, PublishFails,
         ConfirmBooking, ReleaseLocal, ReleasePeer, PublishFailed, RejectBooking,
         SetStatus, Over, TypeOK
<1>3. ASSUME NEW c \in Bookings, CancelBooking(c) \/ GrowOld(c)
      PROVE  status'[b] = "CANCELLED" /\ rec' = rec
  BY <1>1, <1>3 DEF CancelBooking, GrowOld, SetStatus, sagaVars, TypeOK
<1>4. ASSUME NEW m \in calls, Deliver(m) \/ Lose(m) PROVE FALSE
  BY <1>4 DEF Deliver, HandleReserve, HandleRelease, Lose
<1>5. ASSUME NEW v \in VMs, RunQueries(v) \/ Conflict(v) \/ AbortPass(v) \/ Crash(v)
      PROVE  FALSE
  BY <1>5 DEF RunQueries, Conflict, AbortPass, Crash
<1>6. ASSUME NEW v \in VMs, NEW c \in Bookings,
             FixOrphan(v, c) \/ FixDangling(v, c) \/ FixLingering(v, c)
      PROVE  /\ status'[b] \in {"REJECTED", "CANCELLED"}
             /\ status[b] = "CONFIRMED" => LocalLegs(b) = {}
  <2>1. PICK phase \in {"orphans", "dangling"} :
          /\ Handles(v, c, phase) /\ c = b
          /\ status'[b] \in {"REJECTED", "CANCELLED"}
    BY <1>1, <1>6 DEF FixOrphan, FixDangling, FixLingering, SetStatus, TypeOK
  <2>2. b \in rec[v].todo /\ rec[v].phase = phase
    BY <2>1 DEF Handles
  <2> QED BY <1>1, <2>1, <2>2 DEF CalmPass, StageInv
<1> QED BY <1>2, <1>3, <1>4, <1>5, <1>6 DEF Next, Reconcile, vars

\* While nothing is disturbed, a booking becomes REJECTED or CANCELLED for
\* good.
THEOREM DeadStaysDeadHolds == Undisturbed /\ Spec => DeadStaysDead
<1>1. SagaInv /\ CalmInv /\ Undisturbed /\ [Next]_vars =>
        [\A b \in Bookings :
          status[b] \in {"REJECTED", "CANCELLED"}
              => status'[b] \in {"REJECTED", "CANCELLED"}]_vars
  <2> SUFFICES ASSUME SagaInv, CalmInv, Undisturbed, [Next]_vars, NEW b \in Bookings,
                      status[b] \in {"REJECTED", "CANCELLED"}
               PROVE  status'[b] \in {"REJECTED", "CANCELLED"}
    OBVIOUS
  <2>1. pc[b] \in Over
    BY DEF CalmInv, CalmStage
  <2> QED BY <2>1, StatusChanges
<1>2. Undisturbed => Undisturbed'
  BY DEF Undisturbed
<1> QED BY <1>1, <1>2, SagaInvHolds, CalmInvHolds, PTL DEF Spec, DeadStaysDead

\* A CONFIRMED booking with a leg on its own VM is cancelled by its driver or
\* not at all.
THEOREM OnlyDriversCancelHolds == Spec => OnlyDriversCancel
<1>1. SagaInv /\ (Undisturbed => CalmInv) /\ [Next]_vars =>
        [\A b \in Bookings :
          Undisturbed /\ LocalLegs(b) # {} /\ status[b] = "CONFIRMED"
              => status'[b] = "CONFIRMED" \/ rec' = rec]_vars
  <2> SUFFICES ASSUME SagaInv, CalmInv, Undisturbed, [Next]_vars, NEW b \in Bookings,
                      LocalLegs(b) # {}, status[b] = "CONFIRMED"
               PROVE  status'[b] = "CONFIRMED" \/ rec' = rec
    OBVIOUS
  <2> QED BY StatusChanges
<1> QED BY <1>1, SagaInvHolds, CalmInvHolds, PTL DEF Spec, OnlyDriversCancel

-----------------------------------------------------------------------------
(* What the pages rely on *)

\* A saga past its commit has a row in progress.  A pass has found bookings of
\* its own VM, and they are as it found them, but for those that a driver
\* cancelled before the pass does.
PlainPass(b) == \A v \in VMs : b \in rec[v].todo =>
    /\ Home[b] = v
    /\ rec[v].phase = "orphans" => status[b] = "SAGA_IN_PROGRESS"
    /\ rec[v].phase = "dangling" => status[b] \in {"CONFIRMED", "CANCELLED"}
Plain(b) ==
    /\ pc[b] \in {"committed", "published"} => status[b] = "SAGA_IN_PROGRESS"
    /\ PlainPass(b)
PlainInv == \A b \in Bookings : Plain(b)

\* How a booking's fate may change in a step.
Moves(b) ==
    \/ Fate(b)' = Fate(b)
    \/ Fate(b) = "unused" /\ Fate(b)' = "asked"
    \/ Fate(b) = "asked" /\ Fate(b)' \in {"SAGA_IN_PROGRESS", "REJECTED"}
    \/ Fate(b) = "SAGA_IN_PROGRESS" /\ Fate(b)' \in {"CONFIRMED", "REJECTED"}
    \/ Fate(b) = "CONFIRMED" /\ Fate(b)' = "CANCELLED"

LEMMA PlainInvInit == Init => PlainInv
BY DEF Init, PlainInv, Plain, PlainPass, NoPass

\* A step that has nothing to do with the row of b.
LEMMA PlainSame ==
    ASSUME NEW b \in Bookings, Plain(b), PassesSame(b),
           pc'[b] = pc[b], status'[b] = status[b]
    PROVE  Plain(b)' /\ Moves(b)
BY DEF Plain, PlainPass, PassesSame, Moves, Fate

\* Its own request.
LEMMA PlainRequest ==
    ASSUME SagaInv, NEW b \in Bookings, Calm(b), Plain(b), SagaStep(b) \/ StartSaga(b)
    PROVE  Plain(b)' /\ Moves(b)
<1> USE DEF SagaStep, StartSaga, NoRoute, ReserveLocal, RefuseLocal, CallPeer, Granted, Refused,
            GiveUp, CommitSaga, CommitFails, PublishConfirmed, PublishFails, ConfirmBooking,
            ReleaseLocal, ReleasePeer, PublishFailed, RejectBooking, Goto, Fail, SetStatus
<1>1. TypeOK /\ StageInv(b) /\ CalmStage(b) /\ CalmPass(b)
  BY DEF SagaInv, BookingInv, Calm
<1>2. rec' = rec /\ pc[b] \notin Over
  BY DEF Over
<1>3. PlainPass(b)'
  BY <1>1, <1>2 DEF Plain, PlainPass, CalmPass, Over
<1>4. CASE CommitSaga(b) \/ ConfirmBooking(b) \/ RejectBooking(b)
  <2>1. status[b] \in Statuses \cup {"absent"}
    BY <1>1 DEF TypeOK
  <2>2. pc'[b] \in {"committed", "ended"} /\ pc[b] # "idle"
    BY <1>1, <1>4 DEF TypeOK
  <2>3. \/ /\ status[b] = "absent" /\ status'[b] = "SAGA_IN_PROGRESS"
        \/ /\ status[b] = "SAGA_IN_PROGRESS" /\ status'[b] = "CONFIRMED"
           /\ pc'[b] = "ended"
        \/ /\ status[b] \in {"absent", "SAGA_IN_PROGRESS"} /\ status'[b] = "REJECTED"
           /\ pc'[b] = "ended"
    BY <1>1, <1>2, <1>4, <2>1 DEF TypeOK, StageInv, CalmStage, Early, Plain, Over, Statuses
  <2> QED BY <1>3, <2>2, <2>3 DEF Plain, Moves, Fate
<1>5. CASE ~(CommitSaga(b) \/ ConfirmBooking(b) \/ RejectBooking(b))
  <2>1. status' = status /\ pc'[b] # "idle"
    BY <1>1, <1>5 DEF TypeOK
  <2>2. pc'[b] \in {"committed", "published"} => pc[b] \in {"committed", "published"}
    BY <1>1, <1>5 DEF TypeOK
  <2>3. pc[b] = "idle" => status[b] = "absent"
    BY <1>1 DEF StageInv, Early
  <2> QED BY <1>3, <2>1, <2>2, <2>3 DEF Plain, Moves, Fate
<1> QED BY <1>4, <1>5

\* The driver, who cancels what is offered.
LEMMA PlainDriver ==
    ASSUME SagaInv, AsOffered, NEW b \in Bookings, Calm(b), Plain(b),
           CancelBooking(b) \/ GrowOld(b)
    PROVE  Plain(b)' /\ Moves(b)
<1>1. TypeOK /\ StageInv(b) /\ CalmPass(b)
  BY DEF SagaInv, BookingInv, Calm
<1>2. UNCHANGED <<pc, rec>>
  BY DEF CancelBooking, GrowOld, sagaVars
<1>3. CASE CancelBooking(b)
  <2>1. status[b] = "CONFIRMED" /\ status'[b] = "CANCELLED" /\ pc[b] = "ended"
    BY <1>1, <1>3 DEF CancelBooking, SetStatus, AsOffered, TypeOK, StageInv
  <2> QED BY <1>1, <1>2, <2>1 DEF Plain, PlainPass, CalmPass, Moves, Fate
<1>4. CASE GrowOld(b)
  BY <1>2, <1>4, PlainSame DEF GrowOld, PassesSame
<1> QED BY <1>3, <1>4

\* A pass of either reconciler.
LEMMA PlainPasses ==
    ASSUME SagaInv, NEW v \in VMs, Reconcile(v) \/ AbortPass(v), NEW b \in Bookings,
           Calm(b), Plain(b)
    PROVE  Plain(b)' /\ Moves(b)
<1>1. TypeOK /\ StageInv(b) /\ CalmStage(b) /\ CalmPass(b)
  BY DEF SagaInv, BookingInv, Calm
<1>2. CASE RunQueries(v)
  <2> DEFINE pass == Survey(v, Later(rec[v].phase))
  <2>1. /\ rec' = [rec EXCEPT ![v] = pass]
        /\ UNCHANGED <<pc, status>>
    BY <1>2 DEF RunQueries, sagaVars
  <2>2. b \in pass.todo =>
          /\ pass.phase \in Phases
          /\ pass.phase = "orphans" => b \in Orphans(v)
          /\ pass.phase = "dangling" => b \in Dangling(v)
          /\ pass.phase = "lingering" => b \in Lingering(v)
    BY <1>1, SurveyFacts
  <2>3. rec'[v] = pass /\ \A w \in VMs \ {v} : rec'[w] = rec[w]
    BY <1>1, <2>1 DEF TypeOK
  <2> HIDE DEF pass
  <2>4. b \in pass.todo =>
          /\ Home[b] = v
          /\ pass.phase = "orphans" => status[b] = "SAGA_IN_PROGRESS"
          /\ pass.phase = "dangling" => status[b] = "CONFIRMED"
    BY <2>2 DEF Phases, Orphans, Dangling, Lingering
  <2> QED BY <2>1, <2>3, <2>4 DEF Plain, PlainPass, Moves, Fate
<1>3. CASE Conflict(v) \/ AbortPass(v)
  <2>1. rec' = [rec EXCEPT ![v] = NoPass] /\ UNCHANGED <<pc, status>>
    BY <1>3 DEF Conflict, AbortPass, sagaVars
  <2>2. PassesSame(b)
    BY <1>1, <2>1 DEF PassesSame, TypeOK, NoPass
  <2> QED BY <2>1, <2>2, PlainSame
<1>4. ASSUME NEW c \in Bookings, FixOrphan(v, c) \/ FixDangling(v, c) \/ FixLingering(v, c)
      PROVE  Plain(b)' /\ Moves(b)
  <2>1. PICK phase \in Phases :
          /\ Handles(v, c, phase)
          /\ phase = "orphans" => status'[c] = "REJECTED"
          /\ phase = "dangling" => status'[c] = "CANCELLED"
          /\ phase = "lingering" => status'[c] = status[c]
          /\ \A d \in Bookings \ {c} : status'[d] = status[d]
    BY <1>1, <1>4 DEF FixOrphan, FixDangling, FixLingering, SetStatus, TypeOK, Phases
  <2>2. pc' = pc /\ c \in rec[v].todo /\ rec[v].phase = phase
    BY <2>1 DEF Handles, sagaVars
  <2>3. PassesSame(b)
    BY <1>1, <2>1, PassShrinks DEF PassesSame
  <2>4. CASE status'[b] = status[b]
    BY <2>2, <2>3, <2>4, PlainSame
  <2>5. CASE status'[b] # status[b]
    <3>1. b = c /\ b \in rec[v].todo /\ phase # "lingering"
      BY <2>1, <2>2, <2>5
    <3>2. /\ pc[b] \in Over /\ Home[b] = v
          /\ \/ status[b] = "SAGA_IN_PROGRESS" /\ status'[b] = "REJECTED"
             \/ status[b] = "CONFIRMED" /\ status'[b] = "CANCELLED"
      BY <1>1, <2>1, <2>2, <2>5, <3>1 DEF CalmPass, Plain, PlainPass, Over, Phases
    <3>3. \A w \in VMs : b \notin rec'[w].todo
      <4>1. rec' = [rec EXCEPT ![v].todo = @ \ {b}, ![v].first = FALSE]
        BY <2>1, <3>1 DEF Handles
      <4>2. b \notin rec'[v].todo
        BY <1>1, <4>1 DEF TypeOK
      <4>3. \A w \in VMs : b \in rec'[w].todo => w = v
        BY <2>3, <3>2 DEF PassesSame, Plain, PlainPass
      <4> QED BY <4>2, <4>3
    <3> QED BY <2>2, <3>2, <3>3 DEF Plain, PlainPass, Moves, Fate, Over
  <2> QED BY <2>4, <2>5
<1> QED BY <1>2, <1>3, <1>4 DEF Reconcile

\* Every step.
LEMMA PlainStep ==
    ASSUME SagaInv, CalmInv, PlainInv, AsOffered, [Next]_vars, NEW b \in Bookings
    PROVE  Plain(b)' /\ Moves(b)
<1>1. TypeOK /\ Calm(b) /\ Plain(b)
  BY DEF SagaInv, CalmInv, PlainInv, Calm
<1>2. ASSUME NEW c \in Bookings, SagaStep(c) \/ StartSaga(c) \/ CancelBooking(c) \/ GrowOld(c)
      PROVE  Plain(b)' /\ Moves(b)
  <2>1. CASE c = b
    BY <1>1, <1>2, <2>1, PlainRequest, PlainDriver
  <2>2. CASE c # b
    <3>1. Same(b)
      BY <1>1, <1>2, <2>2, OtherRequests
    <3> QED BY <1>1, <3>1, PlainSame DEF Same
  <2> QED BY <2>1, <2>2
<1>3. ASSUME NEW m \in calls, Deliver(m) \/ Lose(m) PROVE Plain(b)' /\ Moves(b)
  <2>1. UNCHANGED <<pc, status, rec>>
    BY <1>3 DEF Deliver, HandleReserve, HandleRelease, Lose, sagaVars
  <2> QED BY <1>1, <2>1, PlainSame DEF PassesSame
<1>4. ASSUME NEW v \in VMs, Crash(v) PROVE Plain(b)' /\ Moves(b)
  <2>1. status' = status /\ rec' = [rec EXCEPT ![v] = NoPass]
    BY <1>4 DEF Crash
  <2>2. pc'[b] = pc[b] \/ (pc'[b] = "dead" /\ pc[b] # "idle")
    BY <1>4 DEF Crash, Active
  <2>3. PassesSame(b)
    BY <1>1, <2>1 DEF PassesSame, TypeOK, NoPass
  <2> QED BY <1>1, <2>1, <2>2, <2>3 DEF Plain, PlainPass, PassesSame, Moves, Fate
<1>5. ASSUME UNCHANGED vars PROVE Plain(b)' /\ Moves(b)
  BY <1>1, <1>5, PlainSame DEF vars, sagaVars, PassesSame
<1> QED BY <1>1, <1>2, <1>3, <1>4, <1>5, PlainPasses DEF Next

\* A step changes what is seen of one booking at most.
LEMMA OneMoves ==
    ASSUME SagaInv, [Next]_vars, NEW b \in Bookings, Fate(b)' # Fate(b), NEW d \in Bookings,
           d # b
    PROVE  Fate(d)' = Fate(d)
<1>1. TypeOK
  BY DEF SagaInv
<1>2. ASSUME NEW c \in Bookings, SagaStep(c) \/ StartSaga(c) \/ CancelBooking(c) \/ GrowOld(c)
      PROVE  Fate(d)' = Fate(d)
  <2>1. \A a \in Bookings \ {c} : Fate(a)' = Fate(a)
    <3>1. \A a \in Bookings \ {c} : Same(a)
      BY <1>1, <1>2, OtherRequests
    <3> QED BY <3>1 DEF Same, Fate
  <2> QED BY <2>1
<1>3. ASSUME NEW v \in VMs, NEW c \in Bookings,
             FixOrphan(v, c) \/ FixDangling(v, c) \/ FixLingering(v, c)
      PROVE  Fate(d)' = Fate(d)
  <2>1. pc' = pc /\ \A a \in Bookings \ {c} : status'[a] = status[a]
    BY <1>1, <1>3 DEF FixOrphan, FixDangling, FixLingering, Handles, SetStatus, TypeOK,
                      sagaVars
  <2> QED BY <2>1 DEF Fate
<1>4. ASSUME status' = status, NEW a \in Bookings,
             pc' = pc \/ \E v \in VMs : Crash(v)
      PROVE  Fate(a)' = Fate(a)
  BY <1>4 DEF Fate, Crash, Active
<1>5. ASSUME NEW m \in calls, Deliver(m) \/ Lose(m) PROVE FALSE
  BY <1>4, <1>5 DEF Deliver, HandleReserve, HandleRelease, Lose, sagaVars
<1>6. ASSUME NEW v \in VMs, RunQueries(v) \/ Conflict(v) \/ AbortPass(v) \/ Crash(v)
      PROVE  FALSE
  <2>1. status' = status
    BY <1>6 DEF RunQueries, Conflict, AbortPass, Crash
  <2>2. pc' = pc \/ Crash(v)
    BY <1>6 DEF RunQueries, Conflict, AbortPass, sagaVars
  <2> QED BY <1>4, <2>1, <2>2
<1>7. ASSUME UNCHANGED vars PROVE FALSE
  BY <1>4, <1>7 DEF vars, sagaVars
<1> QED BY <1>2, <1>3, <1>5, <1>6, <1>7 DEF Next, Reconcile

\* Where AsOffered holds, the sagas, the reconcilers and the drivers between them
\* implement the life of a booking, though VMs crash and calls are lost or late.
THEOREM ServesPagesHolds == AsOffered /\ Spec => ServesPages
<1>1. Init => Life!Init
  BY DEF Init, Life!Init, Fate
<1>2. SagaInv /\ CalmInv /\ PlainInv /\ AsOffered /\ [Next]_vars =>
        PlainInv' /\ [Life!Next]_([b \in Bookings |-> Fate(b)])
  <2> SUFFICES ASSUME SagaInv, CalmInv, PlainInv, AsOffered, [Next]_vars
               PROVE  /\ PlainInv'
                      /\ \/ Life!Next
                         \/ UNCHANGED [b \in Bookings |-> Fate(b)]
    OBVIOUS
  <2>1. \A b \in Bookings : Plain(b)' /\ Moves(b)
    BY PlainStep
  <2>2. PlainInv'
    BY <2>1 DEF PlainInv
  <2>3. CASE \A b \in Bookings : Fate(b)' = Fate(b)
    BY <2>2, <2>3
  <2>4. CASE \E b \in Bookings : Fate(b)' # Fate(b)
    <3>1. PICK b \in Bookings : Fate(b)' # Fate(b)
      BY <2>4
    <3>2. \A d \in Bookings : d # b => Fate(d)' = Fate(d)
      BY <3>1, OneMoves
    <3>3. Life!Becomes(b, Fate(b)')
      BY <3>2 DEF Life!Becomes
    <3>4. Life!Ask(b) \/ Life!Receive(b) \/ Life!Settle(b) \/ Life!Cancel(b)
      BY <2>1, <3>1, <3>3 DEF Moves, Life!Ask, Life!Receive, Life!Settle, Life!Cancel
    <3> QED BY <2>2, <3>4 DEF Life!Next
  <2> QED BY <2>3, <2>4
<1>3. AsOffered => Undisturbed /\ AsOffered'
  BY DEF AsOffered, Undisturbed
<1> QED BY <1>1, <1>2, <1>3, PlainInvInit, SagaInvHolds, CalmInvHolds, PTL
        DEF Spec, ServesPages, Life!Spec

-----------------------------------------------------------------------------
(* The third invariant *)

Clean(b) == CleanStage(b) /\ CleanRows(b)

LEMMA CleanInvInit == Init => CleanInv
BY DEF Init, CleanInv, CleanStage, CleanRows, About, LocalRows, RemoteRows, Rejected

CleanSame(b) ==
    /\ pc'[b] = pc[b] /\ step'[b] = step[b] /\ undo'[b] = undo[b] /\ status'[b] = status[b]
    /\ About(b)' = About(b)
    /\ \A s \in Legs(b) : <<b, s>> \in res' => <<b, s>> \in res

\* Rows of b that do not grow leave none where there were none.
LEMMA NoNewRows ==
    ASSUME NEW b \in Bookings, \A s \in Legs(b) : <<b, s>> \in res' => <<b, s>> \in res
    PROVE  /\ LocalRows(b)' \subseteq LocalRows(b)
           /\ RemoteRows(b)' \subseteq RemoteRows(b)
BY DEF LocalRows, RemoteRows, Rows, RemoteLegs, LocalLegs, Legs

LEMMA ReleaseIsAbout == \A b \in Bookings :
    /\ ReleaseSent(b) <=> [kind |-> "release", b |-> b] \in About(b)
    /\ ReleaseSent(b)' <=> [kind |-> "release", b |-> b] \in About(b)'
BY DEF ReleaseSent, About

LEMMA CleanSameBooking ==
    ASSUME NEW b \in Bookings, Clean(b), CleanSame(b)
    PROVE  Clean(b)'
<1> USE DEF CleanSame, Clean
<1>1. Rejected(b)' = Rejected(b) /\ PeerReserved(b)' = PeerReserved(b)
  BY DEF Rejected, PeerReserved
<1>2. ReleaseSent(b)' <=> ReleaseSent(b)
  BY ReleaseIsAbout
<1>3. CleanStage(b)'
  BY <1>1 DEF CleanStage
<1>4. CleanRows(b)'
  BY <1>1, <1>2, NoNewRows DEF CleanRows
<1> QED BY <1>3, <1>4

LEMMA CleanOthers ==
    ASSUME TypeOK, NEW c \in Bookings, NEW b \in Bookings, b # c,
           SagaStep(c) \/ StartSaga(c) \/ CancelBooking(c) \/ GrowOld(c)
    PROVE  CleanSame(b)
<1>1. Same(b)
  BY OtherRequests
<1>2. CASE CommitSaga(c)
  <2>1. \A s : <<b, s>> \notin Rows(c, LocalLegs(c))
    BY DEF Rows
  <2> QED BY <1>1, <1>2, <2>1 DEF CommitSaga, Same, CleanSame
<1>3. CASE ~CommitSaga(c)
  <2>1. res' = res \/ res' = res \ LocalRows(c)
    BY <1>3 DEF SagaStep, StartSaga, CancelBooking, GrowOld, NoRoute, ReserveLocal, RefuseLocal,
           CallPeer, Granted, Refused, GiveUp, CommitFails, PublishConfirmed, PublishFails,
           ConfirmBooking, ReleaseLocal, ReleasePeer, PublishFailed, RejectBooking
  <2> QED BY <1>1, <2>1 DEF Same, CleanSame
<1> QED BY <1>2, <1>3

\* Steps of a request that change neither rows nor calls.
LEMMA CleanQuietStep ==
    ASSUME SagaInv, NEW b \in Bookings, Clean(b), faults = 0, faults' = 0,
           \/ StartSaga(b) \/ NoRoute(b) \/ ReserveLocal(b) \/ RefuseLocal(b)
           \/ CommitFails(b) \/ PublishConfirmed(b) \/ PublishFails(b) \/ ConfirmBooking(b)
           \/ PublishFailed(b) \/ RejectBooking(b)
    PROVE  Clean(b)'
<1> USE DEF StartSaga, NoRoute, ReserveLocal, RefuseLocal, PublishConfirmed,
            PublishFails, ConfirmBooking, PublishFailed, RejectBooking, Goto, Fail, SetStatus
<1>1. TypeOK /\ StageInv(b) /\ CallInv(b) /\ CleanStage(b) /\ CleanRows(b)
  BY DEF SagaInv, BookingInv, Clean
<1>2. ~CommitFails(b)
  BY DEF CommitFails, Fault
<1>3. res' = res /\ calls' = calls
  BY <1>2
<1>4. /\ About(b)' = About(b) /\ ReleaseSent(b)' = ReleaseSent(b)
      /\ LocalRows(b)' = LocalRows(b) /\ RemoteRows(b)' = RemoteRows(b)
  BY <1>3 DEF About, ReleaseSent, LocalRows, RemoteRows, Rows, LocalLegs, RemoteLegs, Legs
<1>5. CASE StartSaga(b) \/ ReserveLocal(b)
  <2>1. step'[b] = step[b] \/ step'[b] = step[b] + 1
    BY <1>1, <1>5 DEF TypeOK
  <2>2. PeerReserved(b) => PeerReserved(b)'
    BY <1>1, <2>1 DEF PeerReserved, TypeOK
  <2>3. pc'[b] = "running" /\ pc[b] \in {"idle", "running"}
    BY <1>1, <1>5 DEF TypeOK
  <2>4. CleanStage(b)'
    BY <2>3 DEF CleanStage, Rejected
  <2>5. CleanRows(b)'
    BY <1>1, <1>4, <2>2, <2>3 DEF CleanRows, Rejected, Early
  <2> QED BY <2>4, <2>5 DEF Clean
<1>6. CASE RefuseLocal(b) \/ PublishFails(b)
  <2>1. /\ pc'[b] = "failed" /\ pc[b] \in {"running", "committed"}
        /\ undo' = [undo EXCEPT ![b] = PeerReserved(b)]
    BY <1>1, <1>6 DEF TypeOK
  <2>2. undo'[b] = PeerReserved(b)
    BY <1>1, <2>1 DEF TypeOK
  <2>3. CleanStage(b)'
    BY <1>1, <1>4, <2>1 DEF CleanStage, CallInv, Rejected
  <2>4. CleanRows(b)'
    BY <1>1, <1>4, <2>1, <2>2 DEF CleanRows, Rejected, Early
  <2> QED BY <2>3, <2>4 DEF Clean
<1>7. CASE PublishConfirmed(b) \/ ConfirmBooking(b)
  <2>1. pc'[b] = "published" \/ (pc'[b] = "ended" /\ status'[b] = "CONFIRMED")
    BY <1>1, <1>7 DEF TypeOK
  <2> QED BY <2>1 DEF Clean, CleanStage, CleanRows, Rejected, Early
<1>8. CASE PublishFailed(b) \/ RejectBooking(b)
  <2>1. /\ pc[b] \in {"undone", "rejecting"} /\ undo'[b] = undo[b]
        /\ pc'[b] = "rejecting" \/ (pc'[b] = "ended" /\ status'[b] = "REJECTED")
    BY <1>1, <1>8 DEF TypeOK
  <2>2. CleanStage(b)'
    BY <1>1, <1>4, <2>1 DEF CleanStage
  <2>3. CleanRows(b)'
    BY <1>1, <1>4, <2>1 DEF CleanRows, Early
  <2> QED BY <2>2, <2>3 DEF Clean
<1>9. CASE NoRoute(b)
  <2>1. pc[b] = "running" /\ pc'[b] = "rejecting" /\ step[b] = 1
    BY <1>1, <1>9 DEF TypeOK
  <2>2. ~PeerReserved(b)
    BY <2>1 DEF PeerReserved
  <2>3. CleanStage(b)'
    BY <1>1, <1>4, <2>1 DEF CleanStage, CallInv, Rejected
  <2>4. CleanRows(b)'
    BY <1>1, <1>4, <2>1, <2>2 DEF CleanRows, Rejected, Early
  <2> QED BY <2>3, <2>4 DEF Clean
<1> QED BY <1>2, <1>5, <1>6, <1>7, <1>8, <1>9

LEMMA CleanSagaStep ==
    ASSUME SagaInv, NEW b \in Bookings, Clean(b), faults = 0, faults' = 0, SagaStep(b)
    PROVE  Clean(b)'
<1> USE DEF Goto, Fail
<1>1. TypeOK /\ StageInv(b) /\ CallInv(b) /\ CleanStage(b) /\ CleanRows(b)
  BY DEF SagaInv, BookingInv, Clean
<1>2. CASE CallPeer(b)
  <2>1. /\ pc'[b] = "waiting" /\ pc[b] = "running" /\ step' = step /\ res' = res
        /\ [kind |-> "reserve", b |-> b, s |-> Leg(b)] \in About(b)'
    BY <1>1, <1>2 DEF CallPeer, About, TypeOK
  <2>2. /\ LocalRows(b)' = LocalRows(b) /\ RemoteRows(b)' = RemoteRows(b)
        /\ PeerReserved(b)' = PeerReserved(b)
    BY <2>1 DEF LocalRows, RemoteRows, Rows, LocalLegs, RemoteLegs, Legs, PeerReserved
  <2>3. CleanStage(b)'
    BY <2>1 DEF CleanStage, Rejected
  <2>4. CleanRows(b)'
    BY <1>1, <2>1, <2>2 DEF CleanRows, Rejected, Early
  <2> QED BY <2>3, <2>4 DEF Clean
<1>3. CASE Granted(b)
  <2>1. /\ pc'[b] = "running" /\ pc[b] = "waiting" /\ step'[b] = step[b] + 1 /\ res' = res
    BY <1>1, <1>3 DEF Granted, TypeOK
  <2>2. PeerReserved(b)'
    <3>1. step[b] \in 1..(step'[b] - 1) /\ Owner[Route[b][step[b]]] # Home[b]
      BY <1>1, <2>1 DEF StageInv, Leg, TypeOK
    <3> QED BY <3>1 DEF PeerReserved
  <2>3. LocalRows(b)' = LocalRows(b)
    BY <2>1 DEF LocalRows, Rows, LocalLegs, Legs
  <2> QED BY <1>1, <2>1, <2>2, <2>3 DEF Clean, CleanStage, CleanRows, Rejected, Early
<1>4. CASE Refused(b)
  <2>1. PICK r \in Replies(b) : r.kind = "refused" /\ calls' = calls \ {r}
    BY <1>4 DEF Refused
  <2>2. /\ pc'[b] = "failed" /\ pc[b] = "waiting" /\ res' = res
        /\ undo' = [undo EXCEPT ![b] = PeerReserved(b)]
    BY <1>1, <1>4 DEF Refused, TypeOK
  <2>3. undo'[b] = PeerReserved(b)
    BY <1>1, <2>2 DEF TypeOK
  <2>4. About(b) = {r}
    BY <1>1, <2>1, <2>2 DEF CallInv, Replies, About
  <2>5. About(b)' = {}
    BY <2>1, <2>4 DEF About
  <2>6. ~PeerReserved(b) => RemoteRows(b) = {}
    BY <1>1, <2>1, <2>2, <2>4 DEF CleanRows
  <2>7. RemoteRows(b)' = RemoteRows(b)
    BY <2>2 DEF RemoteRows, Rows, RemoteLegs, LocalLegs, Legs
  <2> QED BY <2>2, <2>3, <2>5, <2>6, <2>7 DEF Clean, CleanStage, CleanRows, Rejected, Early
<1>5. CASE GiveUp(b)
  <2>1. \E m \in calls : m.b = b
    BY <1>1, <1>5 DEF GiveUp, CleanStage, About
  <2> QED BY <1>5, <2>1 DEF GiveUp, Fault
<1>6. CASE CommitSaga(b)
  <2>1. pc'[b] = "committed" /\ pc[b] = "running" /\ step' = step
    BY <1>1, <1>6 DEF CommitSaga, TypeOK
  <2>2. RemoteRows(b)' = RemoteRows(b) /\ PeerReserved(b)' = PeerReserved(b)
    BY <1>6 DEF CommitSaga, RemoteRows, Rows, RemoteLegs, LocalLegs, Legs, PeerReserved
  <2> QED BY <1>1, <2>1, <2>2 DEF Clean, CleanStage, CleanRows, Rejected, Early
<1>7. CASE ReleaseLocal(b)
  <2>1. /\ pc'[b] = "released" /\ pc[b] = "failed" /\ undo' = undo /\ calls' = calls
        /\ res' = res \ LocalRows(b)
    BY <1>1, <1>7 DEF ReleaseLocal, Fault, TypeOK
  <2>2. LocalRows(b)' = {} /\ RemoteRows(b)' \subseteq RemoteRows(b) /\ About(b)' = About(b)
    BY <2>1, LocalRowsOnly DEF RemoteRows, Rows, RemoteLegs, LocalLegs, Legs, About
  <2> QED BY <1>1, <2>1, <2>2 DEF Clean, CleanStage, CleanRows, Rejected, Early
<1>8. CASE ReleasePeer(b)
  <2>1. /\ pc'[b] = "undone" /\ pc[b] = "released" /\ undo' = undo /\ res' = res
        /\ calls' = IF undo[b] THEN calls \cup {[kind |-> "release", b |-> b]} ELSE calls
    BY <1>1, <1>8 DEF ReleasePeer, TypeOK
  <2>2. About(b) = {} /\ LocalRows(b) = {} /\ (~undo[b] => RemoteRows(b) = {})
    BY <1>1, <2>1 DEF CleanStage, CleanRows
  <2>3. LocalRows(b)' = {} /\ RemoteRows(b)' = RemoteRows(b)
    BY <2>1, <2>2 DEF LocalRows, RemoteRows, Rows, LocalLegs, RemoteLegs, Legs
  <2>4. \A m \in About(b)' : m.kind = "release"
    BY <2>1, <2>2 DEF About
  <2>5. undo[b] => ReleaseSent(b)'
    BY <2>1 DEF ReleaseSent
  <2> QED BY <2>1, <2>2, <2>3, <2>4, <2>5 DEF Clean, CleanStage, CleanRows, Rejected, Early
<1> QED BY <1>2, <1>3, <1>4, <1>5, <1>6, <1>7, <1>8, CleanQuietStep DEF SagaStep

LEMMA CleanMessageStep ==
    ASSUME SagaInv, NEW m \in calls, Deliver(m) \/ Lose(m), faults = 0, faults' = 0,
           NEW b \in Bookings, Clean(b)
    PROVE  Clean(b)'
<1>1. TypeOK /\ StageInv(b) /\ CallInv(b) /\ CleanStage(b) /\ CleanRows(b)
  BY DEF SagaInv, BookingInv, Clean
<1>2. ~Lose(m)
  BY DEF Lose, Fault
<1>3. UNCHANGED <<pc, step, undo, status>>
  BY <1>2 DEF Deliver, HandleReserve, HandleRelease, sagaVars
<1>4. Rejected(b)' = Rejected(b) /\ PeerReserved(b)' = PeerReserved(b)
  BY <1>3 DEF Rejected, PeerReserved
<1>5. CASE HandleReserve(m)
  <2>1. PICK answer \in {"granted", "refused"} :
          /\ res' = IF answer = "granted" THEN res \cup {<<m.b, m.s>>} ELSE res
          /\ calls' = (calls \ {m}) \cup
                IF Awaits(m.b, m.s)
                THEN {[kind |-> answer, b |-> m.b, s |-> m.s]} ELSE {}
    BY <1>5 DEF HandleReserve
  <2>2. CASE m.b # b
    <3>1. About(b)' = About(b)
      BY <2>1, <2>2 DEF About
    <3>2. \A s \in Legs(b) : <<b, s>> \in res' => <<b, s>> \in res
      BY <2>1, <2>2
    <3>3. CleanSame(b)
      BY <1>3, <3>1, <3>2 DEF CleanSame
    <3> QED BY <3>3, CleanSameBooking
  <2>3. CASE m.b = b /\ Awaits(m.b, m.s)
    <3> DEFINE reply == [kind |-> answer, b |-> m.b, s |-> m.s]
    <3>1. pc[b] = "waiting" /\ m.s = Leg(b) /\ m \in About(b)
      BY <2>3 DEF Awaits, About
    <3>2. About(b) = {m} /\ m.kind = "reserve"
      BY <1>1, <1>5, <3>1 DEF CallInv, HandleReserve
    <3>3. reply \in About(b)' /\ reply.kind = answer
      BY <2>1, <2>3 DEF About
    <3>4. LocalRows(b)' = LocalRows(b)
      <4>1. m.s \notin LocalLegs(b)
        BY <1>1, <3>1 DEF StageInv, LocalLegs
      <4> QED BY <2>1, <4>1 DEF LocalRows, Rows, LocalLegs, Legs
    <3>5. answer = "refused" => RemoteRows(b)' = RemoteRows(b)
      BY <2>1 DEF RemoteRows, Rows, RemoteLegs, LocalLegs, Legs
    <3>6. CleanStage(b)'
      BY <1>3, <3>1, <3>3 DEF CleanStage, Rejected
    <3>7. answer = "refused" /\ ~PeerReserved(b) => RemoteRows(b)' = {}
      BY <1>1, <3>1, <3>2, <3>5 DEF CleanRows
    <3>8. CleanRows(b)'
      BY <1>1, <1>3, <1>4, <3>1, <3>3, <3>4, <3>7 DEF CleanRows, Rejected, Early
    <3> QED BY <3>6, <3>8 DEF Clean
  <2>4. CASE m.b = b /\ ~Awaits(m.b, m.s)
    <3>1. m \in About(b) /\ m.kind = "reserve"
      BY <1>5, <2>4 DEF About, HandleReserve
    <3>2. pc[b] = "ended" /\ ~Rejected(b)
      <4>1. pc[b] # "waiting"
        BY <1>1, <2>4, <3>1 DEF CallInv, Awaits
      <4> QED BY <1>1, <3>1, <4>1 DEF CallInv, CleanStage, TypeOK, Stages
    <3> QED BY <1>3, <1>4, <3>2 DEF Clean, CleanStage, CleanRows, Early
  <2> QED BY <2>2, <2>3, <2>4
<1>6. CASE HandleRelease(m)
  <2>1. calls' = calls \ {m} /\ res' = res \ Rows(m.b, RemoteLegs(m.b)) /\ m.kind = "release"
    BY <1>6 DEF HandleRelease
  <2>2. CASE m.b # b
    <3>1. About(b)' = About(b)
      BY <2>1, <2>2 DEF About
    <3>2. CleanSame(b)
      BY <1>3, <2>1, <3>1 DEF CleanSame
    <3> QED BY <3>2, CleanSameBooking
  <2>3. CASE m.b = b
    <3>1. m \in About(b) /\ About(b)' = About(b) \ {m}
      BY <2>1, <2>3 DEF About
    <3>2. LocalRows(b)' \subseteq LocalRows(b) /\ RemoteRows(b)' = {}
      BY <2>1, <2>3 DEF LocalRows, RemoteRows, Rows, RemoteLegs, LocalLegs, Legs
    <3>3. pc[b] # "waiting"
      BY <1>1, <2>1, <3>1 DEF CallInv
    <3>4. CleanStage(b)'
      BY <1>1, <1>3, <1>4, <3>1, <3>3 DEF CleanStage
    <3>5. CleanRows(b)'
      BY <1>1, <1>3, <1>4, <3>2, <3>3 DEF CleanRows
    <3> QED BY <3>4, <3>5 DEF Clean
  <2> QED BY <2>2, <2>3
<1> QED BY <1>2, <1>5, <1>6 DEF Deliver

LEMMA CleanPassStep ==
    ASSUME SagaInv, CalmInv, NEW v \in VMs, Reconcile(v), NEW b \in Bookings, Clean(b)
    PROVE  Clean(b)'
<1>1. TypeOK /\ CalmPass(b) /\ CleanStage(b) /\ CleanRows(b)
  BY DEF SagaInv, CalmInv, Clean
<1>2. CASE RunQueries(v) \/ Conflict(v)
  <2>1. CleanSame(b)
    BY <1>2 DEF RunQueries, Conflict, CleanSame, About, sagaVars
  <2> QED BY <2>1, CleanSameBooking
<1>3. ASSUME NEW c \in Bookings, FixOrphan(v, c) \/ FixDangling(v, c) \/ FixLingering(v, c)
      PROVE  Clean(b)'
  <2>1. PICK phase \in Phases :
          /\ Handles(v, c, phase)
          /\ phase = "dangling" => status'[c] = "CANCELLED"
          /\ phase = "lingering" => status'[c] = status[c]
          /\ \A d \in Bookings \ {c} : status'[d] = status[d]
    BY <1>1, <1>3 DEF FixOrphan, FixDangling, FixLingering, SetStatus, TypeOK, Phases
  <2>2. /\ UNCHANGED <<pc, step, undo, calls>> /\ c \in rec[v].todo /\ rec[v].phase = phase
        /\ res' = res \ LocalRows(c)
    BY <2>1 DEF Handles, sagaVars
  <2>3. CASE status'[b] = status[b]
    <3>1. CleanSame(b)
      BY <2>2, <2>3 DEF CleanSame, About
    <3> QED BY <3>1, CleanSameBooking
  <2>4. CASE status'[b] # status[b]
    <3>1. b = c /\ phase \in {"orphans", "dangling"}
      BY <2>1, <2>4 DEF Phases
    <3>2. pc[b] = "ended" /\ status'[b] = "CANCELLED"
      BY <1>1, <2>1, <2>2, <3>1 DEF CalmPass, CleanStage
    <3> QED BY <2>2, <3>2 DEF Clean, CleanStage, CleanRows, Rejected, Early
  <2> QED BY <2>3, <2>4
<1> QED BY <1>2, <1>3 DEF Reconcile

LEMMA CleanInvStep ==
    SagaInv /\ Undisturbed /\ CalmInv /\ CleanInv /\ [Next]_vars => CleanInv'
<1> SUFFICES ASSUME SagaInv, Undisturbed, CalmInv, CleanInv, [Next]_vars, faults' = 0,
                    NEW b \in Bookings
             PROVE  Clean(b)'
  BY DEF CleanInv, Clean
<1>1. TypeOK
  BY DEF SagaInv
<1>2. faults = 0
  <2>1. faults' = faults \/ faults' = faults + 1
    BY ZenonT(40) DEF Next, SagaStep, StartSaga, CancelBooking, GrowOld, NoRoute, ReserveLocal, RefuseLocal,
           CallPeer, Granted, Refused, GiveUp, CommitSaga, CommitFails, PublishConfirmed,
           PublishFails, ConfirmBooking, ReleaseLocal, ReleasePeer, PublishFailed,
           RejectBooking, Deliver, HandleReserve, HandleRelease, Lose, Reconcile,
           RunQueries, Conflict, FixOrphan, FixDangling, FixLingering, Handles,
           AbortPass, Crash, Fault, vars
  <2>2. faults \in Nat
    BY <1>1, SwitchAssumption DEF TypeOK
  <2> QED BY <2>1, <2>2
<1>3. Clean(b)
  BY <1>2 DEF CleanInv, Clean
<1>4. ASSUME NEW c \in Bookings, SagaStep(c) \/ StartSaga(c) PROVE Clean(b)'
  <2>1. CASE c = b
    BY <1>2, <1>3, <1>4, <2>1, CleanSagaStep, CleanQuietStep
  <2>2. CASE c # b
    BY <1>1, <1>3, <1>4, <2>2, CleanOthers, CleanSameBooking
  <2> QED BY <2>1, <2>2
<1>5. ASSUME NEW c \in Bookings, CancelBooking(c) \/ GrowOld(c) PROVE Clean(b)'
  <2>1. UNCHANGED <<pc, step, undo, calls, res>>
    BY <1>5 DEF CancelBooking, GrowOld, sagaVars
  <2>2. CASE status'[b] = status[b]
    <3>1. CleanSame(b)
      BY <2>1, <2>2 DEF CleanSame, About
    <3> QED BY <1>3, <3>1, CleanSameBooking
  <2>3. CASE status'[b] # status[b]
    <3>1. status[b] \in {"CONFIRMED", "REJECTED"} /\ status'[b] = "CANCELLED"
      BY <1>1, <1>5, <2>3, CancelAssumption
      DEF CancelBooking, GrowOld, SetStatus, Undisturbed, Statuses, TypeOK
    <3>2. pc[b] = "ended"
      BY <1>3, <3>1 DEF SagaInv, BookingInv, StageInv, CalmInv, CalmStage, Over, Clean,
                        CleanStage
    <3> QED BY <2>1, <3>1, <3>2 DEF Clean, CleanStage, CleanRows, Rejected, Early
  <2> QED BY <2>2, <2>3
<1>6. ASSUME NEW v \in VMs, AbortPass(v) \/ Crash(v) PROVE FALSE
  BY <1>2, <1>6 DEF AbortPass, Crash, Fault
<1>7. ASSUME UNCHANGED vars PROVE Clean(b)'
  <2>1. CleanSame(b)
    BY <1>7 DEF vars, sagaVars, CleanSame, About
  <2> QED BY <1>3, <2>1, CleanSameBooking
<1> QED BY <1>2, <1>3, <1>4, <1>5, <1>6, <1>7, CleanMessageStep, CleanPassStep DEF Next

\* A saga that failed while nothing went wrong leaves nothing behind on
\* either VM once its release has arrived.
THEOREM CompensationHolds == Spec => [](Undisturbed => CompensationComplete)
<1>1. Init => (Undisturbed => CleanInv)
  BY CleanInvInit
<1>2. SagaInv /\ (Undisturbed => CalmInv) /\ (Undisturbed => CleanInv) /\ [Next]_vars
        => (Undisturbed => CleanInv)'
  BY CleanInvStep DEF Undisturbed
<1>3. CleanInv => CompensationComplete
  <2> SUFFICES ASSUME CleanInv, NEW b \in Bookings, faults = 0, status[b] = "REJECTED",
                      pc[b] = "ended", \A m \in calls : m.b # b
               PROVE  Rows(b, Legs(b)) \cap res = {}
    BY DEF CompensationComplete
  <2>1. Rejected(b) /\ ~ReleaseSent(b)
    BY DEF Rejected, ReleaseSent
  <2>2. LocalRows(b) = {} /\ RemoteRows(b) = {}
    BY <2>1 DEF CleanInv, CleanRows
  <2> QED BY <2>2 DEF LocalRows, RemoteRows, Rows, RemoteLegs
<1> QED BY <1>1, <1>2, <1>3, SagaInvHolds, CalmInvHolds, PTL DEF Spec

-----------------------------------------------------------------------------
(* Why requests end *)

\* How many steps a request for b has before it at most: two for each leg to
\* come, and those of the end or of the compensation.
Ahead(b) == Len(Route[b]) + 1 - step[b]
StepsLeft(b) ==
    CASE pc[b] = "idle" -> 2 * Ahead(b) + 7
      [] pc[b] = "running" -> 2 * Ahead(b) + 6
      [] pc[b] = "waiting" -> 2 * Ahead(b) + 5
      [] pc[b] = "committed" -> 5
      [] pc[b] = "failed" -> 4
      [] pc[b] = "released" -> 3
      [] pc[b] = "undone" -> 2
      [] pc[b] \in {"rejecting", "published"} -> 1
      [] OTHER -> 0

LEMMA StepsLeftBounds ==
    ASSUME TypeOK, NEW b \in Bookings, StageInv(b)
    PROVE  /\ StepsLeft(b) \in 0..(2 * Len(Route[b]) + 7)
           /\ StepsLeft(b) = 0 <=> pc[b] \in Over
<1>1. Len(Route[b]) \in Nat /\ step[b] \in Nat \ {0} /\ pc[b] \in Stages
  BY RouteAssumption DEF TypeOK
<1>2. Ahead(b) \in 0..Len(Route[b])
  BY <1>1 DEF StageInv, Ahead
<1>3. CASE pc[b] = "idle"
  BY <1>1, <1>2, <1>3 DEF StepsLeft, Over
<1>4. CASE pc[b] \in {"running", "waiting"}
  BY <1>1, <1>2, <1>4, SMTT(30) DEF StepsLeft, Over
<1>5. CASE pc[b] \in {"committed", "published"}
  BY <1>1, <1>5 DEF StepsLeft, Over
<1>6. CASE pc[b] \in {"failed", "released", "undone", "rejecting"}
  BY <1>1, <1>6 DEF StepsLeft, Over
<1>7. CASE pc[b] \in Over
  BY <1>1, <1>7 DEF StepsLeft, Over
<1> QED BY <1>1, <1>3, <1>4, <1>5, <1>6, <1>7 DEF Stages, Over

\* A step of the request of b takes it nearer to its end.
LEMMA RequestDescends ==
    ASSUME TypeOK, NEW b \in Bookings, StageInv(b), StartSaga(b) \/ SagaStep(b)
    PROVE  StepsLeft(b)' < StepsLeft(b)
<1>1. /\ Len(Route[b]) \in Nat /\ step[b] \in Nat \ {0} /\ pc[b] \in Stages
      /\ step[b] <= Len(Route[b]) + 1
      /\ pc \in [Bookings -> Stages] /\ step \in [Bookings -> Nat \ {0}]
  BY RouteAssumption DEF TypeOK, StageInv
<1>2. CASE StartSaga(b)
  BY <1>1, <1>2 DEF StartSaga, Goto, StepsLeft, Ahead
<1>3. CASE ReserveLocal(b) \/ Granted(b)
  <2>1. /\ pc[b] \in {"running", "waiting"} /\ pc'[b] = "running"
        /\ step'[b] = step[b] + 1
    BY <1>1, <1>3 DEF ReserveLocal, Granted, Goto
  <2>2. Ahead(b) \in Nat /\ Ahead(b)' = Ahead(b) - 1
    BY <1>1, <2>1 DEF Ahead
  <2> QED BY <2>1, <2>2 DEF StepsLeft
<1>4. CASE CallPeer(b)
  BY <1>1, <1>4 DEF CallPeer, Goto, StepsLeft, Ahead
<1>5. CASE RefuseLocal(b) \/ Refused(b) \/ GiveUp(b) \/ CommitFails(b) \/ PublishFails(b)
  <2>1. /\ pc[b] \in {"running", "waiting", "committed"} /\ pc'[b] = "failed"
    BY <1>1, <1>5 DEF RefuseLocal, Refused, GiveUp, CommitFails, PublishFails, Fail, Goto
  <2> QED BY <1>1, <2>1 DEF StepsLeft, Ahead
<1>6. CASE CommitSaga(b)
  BY <1>1, <1>6 DEF CommitSaga, Goto, StepsLeft, Ahead
<1>7. CASE PublishConfirmed(b) \/ ConfirmBooking(b)
  BY <1>1, <1>7 DEF PublishConfirmed, ConfirmBooking, Goto, StepsLeft, Ahead
<1>8. CASE ReleaseLocal(b) \/ ReleasePeer(b) \/ PublishFailed(b) \/ RejectBooking(b)
  BY <1>1, <1>8 DEF ReleaseLocal, ReleasePeer, PublishFailed, RejectBooking, Goto,
                    StepsLeft, Ahead
<1>9. CASE NoRoute(b)
  BY <1>1, <1>9 DEF NoRoute, Goto, StepsLeft, Ahead
<1> QED BY <1>2, <1>3, <1>4, <1>5, <1>6, <1>7, <1>8, <1>9 DEF SagaStep

\* A request never starts anew, and nothing that happens to it, to its calls or
\* to its rows gives it more to do: it ends after two steps for each leg of its
\* route and seven more (saga.py:95-262, service.py:70-101).
RequestsDescend ==
    /\ [](\A b \in Bookings : /\ StepsLeft(b) \in 0..(2 * Len(Route[b]) + 7)
                              /\ StepsLeft(b) = 0 <=> pc[b] \in Over)
    /\ [][\A b \in Bookings :
            /\ StepsLeft(b)' <= StepsLeft(b)
            /\ StartSaga(b) \/ SagaStep(b) => StepsLeft(b)' < StepsLeft(b)]_vars

\* This is why RequestsEnd needs no more than that a running request goes on,
\* whatever the length of the route and however slow the saga.
THEOREM RequestsDescendHolds == Spec => RequestsDescend
<1>1. SagaInv => TypeOK /\ \A b \in Bookings : StageInv(b)
  BY DEF SagaInv, BookingInv
<1>2. SagaInv => \A b \in Bookings : /\ StepsLeft(b) \in 0..(2 * Len(Route[b]) + 7)
                                     /\ StepsLeft(b) = 0 <=> pc[b] \in Over
  BY <1>1, StepsLeftBounds
<1>3. SagaInv' => \A b \in Bookings : StepsLeft(b)' \in 0..(2 * Len(Route[b]) + 7)
  <2>1. SagaInv => \A b \in Bookings : StepsLeft(b) \in 0..(2 * Len(Route[b]) + 7)
    BY <1>2
  <2>2. SagaInv' => (\A b \in Bookings : StepsLeft(b) \in 0..(2 * Len(Route[b]) + 7))'
    BY <2>1, PTL
  <2> QED BY <2>2
<1>4. SagaInv /\ SagaInv' /\ [Next]_vars =>
        [\A b \in Bookings :
            /\ StepsLeft(b)' <= StepsLeft(b)
            /\ StartSaga(b) \/ SagaStep(b) => StepsLeft(b)' < StepsLeft(b)]_vars
  <2> SUFFICES ASSUME SagaInv, SagaInv', [Next]_vars, NEW b \in Bookings
               PROVE  /\ StepsLeft(b)' <= StepsLeft(b)
                      /\ StartSaga(b) \/ SagaStep(b) => StepsLeft(b)' < StepsLeft(b)
    OBVIOUS
  <2>1. TypeOK /\ StageInv(b) /\ StepsLeft(b) \in Nat /\ StepsLeft(b)' \in Nat
    <3>1. StepsLeft(b) \in 0..(2 * Len(Route[b]) + 7)
      BY <1>2
    <3>2. StepsLeft(b)' \in 0..(2 * Len(Route[b]) + 7)
      BY <1>3
    <3> QED BY <1>1, <3>1, <3>2, RouteAssumption
  <2>2. CASE StartSaga(b) \/ SagaStep(b)
    BY <2>1, <2>2, RequestDescends
  <2>3. CASE ~(StartSaga(b) \/ SagaStep(b))
    <3>1. CASE pc'[b] = pc[b] /\ step'[b] = step[b]
      BY <2>1, <2>3, <3>1 DEF StepsLeft, Ahead
    <3>2. CASE pc'[b] = "dead"
      <4>1. StepsLeft(b)' = 0
        BY <3>2 DEF StepsLeft, Ahead
      <4> QED BY <2>1, <2>3, <4>1
    <3>3. (pc'[b] = pc[b] /\ step'[b] = step[b]) \/ pc'[b] = "dead"
      <4>1. ASSUME NEW c \in Bookings, SagaStep(c) \/ StartSaga(c) \/ CancelBooking(c) \/ GrowOld(c)
            PROVE  pc'[b] = pc[b] /\ step'[b] = step[b]
        <5>1. CASE c # b
          BY <2>1, <4>1, <5>1, OtherRequests DEF Same
        <5>2. CASE CancelBooking(b) \/ GrowOld(b)
          BY <5>2 DEF CancelBooking, GrowOld, sagaVars
        <5> QED BY <2>3, <4>1, <5>1, <5>2
      <4>2. ASSUME NEW v \in VMs, Crash(v)
            PROVE  (pc'[b] = pc[b] /\ step'[b] = step[b]) \/ pc'[b] = "dead"
        BY <4>2 DEF Crash
      <4>3. ASSUME UNCHANGED sagaVars
            PROVE  pc'[b] = pc[b] /\ step'[b] = step[b]
        BY <4>3 DEF sagaVars
      <4>4. ASSUME NEW m \in calls, Deliver(m) \/ Lose(m) PROVE UNCHANGED sagaVars
        BY <4>4 DEF Deliver, HandleReserve, HandleRelease, Lose
      <4>5. ASSUME NEW v \in VMs, Reconcile(v) \/ AbortPass(v) PROVE UNCHANGED sagaVars
        BY <4>5 DEF Reconcile, RunQueries, Conflict, AbortPass, FixOrphan, FixDangling,
                    FixLingering, Handles
      <4> QED BY <4>1, <4>2, <4>3, <4>4, <4>5 DEF Next, vars
    <3> QED BY <3>1, <3>2, <3>3
  <2> QED BY <2>2, <2>3, <2>1
<1> QED BY <1>2, <1>4, SagaInvHolds, PTL DEF Spec, RequestsDescend
=============================================================================
