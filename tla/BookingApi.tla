----------------------------- MODULE BookingApi ------------------------------
(***************************************************************************)
(* The booking service as the pages see it through api/bookings.ts: the    *)
(* bookings one driver has asked for, and the DELETE calls under way.      *)
(* What becomes of a booking is BookingLife, which BookingSaga implements.  *)
(***************************************************************************)
EXTENDS Integers, FiniteSets

CONSTANT MaxBookings        \* bound: POST /bookings sent by this browser

ASSUME BookingAssumption == MaxBookings \in Nat

VARIABLES
    server,     \* server[b]: what became of the b-th POST
    calls       \* the bookings with a DELETE under way

api == <<server, calls>>

Ids == 1..MaxBookings

\* What becomes of a request, whoever sees to it.
Life == INSTANCE BookingLife WITH Posts <- Ids

Statuses == Life!Statuses
Fates == Life!Fates

ApiTypeOK == server \in [Ids -> Fates] /\ calls \subseteq Ids

ApiInit == Life!Init /\ calls = {}

Unused == {b \in Ids : server[b] = "unused"}
IsNext(b) == b \in Unused /\ \A c \in Unused : b <= c

\* getMyJourneys: the rows of this driver.
Rows == [b \in Ids |-> IF server[b] \in Statuses THEN server[b] ELSE "none"]

\* createBooking: the request leaves the browser.
SendPost(b) == Life!Ask(b)

Receive(b) == Life!Receive(b) /\ UNCHANGED calls

Settle(b) == Life!Settle(b) /\ UNCHANGED calls

\* cancelBooking: sets CANCELLED whatever the status was, and again.
HandleDelete(b) ==
    /\ b \in calls
    /\ calls' = calls \ {b}
    /\ Life!Becomes(b, "CANCELLED")

\* Another device, or a reconciler, cancels the booking.
CancelElsewhere(b) == Life!Cancel(b) /\ UNCHANGED calls

ServerStep == \E b \in Ids : Receive(b) \/ Settle(b) \/ HandleDelete(b)
=============================================================================
