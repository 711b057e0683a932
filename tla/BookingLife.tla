----------------------------- MODULE BookingLife -----------------------------
(***************************************************************************)
(* The life of bookings as their driver can see it, from the request on:   *)
(* what BookingSaga promises, and all that the pages rely on (BookingApi). *)
(***************************************************************************)
CONSTANT Posts          \* the requests for a booking, POST /bookings

VARIABLE server         \* server[b]: what became of the request

Statuses == {"SAGA_IN_PROGRESS", "CONFIRMED", "REJECTED", "CANCELLED"}
Fates == Statuses \cup {"unused", "asked", "refused"}

Init == server = [b \in Posts |-> "unused"]

Becomes(b, fate) == server' = [server EXCEPT ![b] = fate]

\* The request leaves for the service.
Ask(b) == server[b] = "unused" /\ Becomes(b, "asked")

\* A booking is made, or the request refused (limiter, invalid input), or it
\* never gets there.  A request without a route, or a saga that fails before
\* its commit, leaves a row that is REJECTED from the start.
Receive(b) ==
    /\ server[b] = "asked"
    /\ \E fate \in {"SAGA_IN_PROGRESS", "REJECTED", "refused"} : Becomes(b, fate)

\* The saga ends, or a reconciler ends it.
Settle(b) ==
    /\ server[b] = "SAGA_IN_PROGRESS"
    /\ \E fate \in {"CONFIRMED", "REJECTED"} : Becomes(b, fate)

\* The driver, or a reconciler, cancels the booking.
Cancel(b) == server[b] = "CONFIRMED" /\ Becomes(b, "CANCELLED")

Next == \E b \in Posts : Ask(b) \/ Receive(b) \/ Settle(b) \/ Cancel(b)

Spec == Init /\ [][Next]_server
=============================================================================
