----------------------------- MODULE SlotLedger -----------------------------
(***************************************************************************)
(* What the booking service promises for one road segment in one hour      *)
(* slot: a counter of active reservations that is raised only while it is  *)
(* below a limit, one reservation at a time.  The counter is the           *)
(* COUNT of capacity.py:32-35; the limit a caller hopes for is             *)
(* road_segments.max_capacity_per_slot.                                    *)
(***************************************************************************)
EXTENDS Naturals

CONSTANT Limit          \* the most reservations that may be active at once

VARIABLE booked         \* active reservations of the segment and slot

Init == booked \in 0..Limit

Reserve == booked < Limit /\ booked' = booked + 1

Release == booked > 0 /\ booked' = booked - 1

Next == Reserve \/ Release

Spec == Init /\ [][Next]_booked
=============================================================================
