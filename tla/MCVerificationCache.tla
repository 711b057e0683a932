------------------------ MODULE MCVerificationCache -------------------------
(***************************************************************************)
(* VerificationCache for TLC: two bookings of one plate whose windows      *)
(* touch, in hours, on a clock that outlasts both.                         *)
(***************************************************************************)
EXTENDS VerificationCache

CONSTANTS b1, b2

TouchingDep == [b \in Bookings |-> IF b = b1 THEN 1 ELSE 3]
=============================================================================
