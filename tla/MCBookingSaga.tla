--------------------------- MODULE MCBookingSaga ----------------------------
(***************************************************************************)
(* BookingSaga for TLC: two VMs, and sets of bookings whose routes are      *)
(* mixed, entirely remote, or both.                                        *)
(***************************************************************************)
EXTENDS BookingSaga, TLC

CONSTANTS v1, v2, b1, b2, near, far, beyond

\* "near" belongs to v1, "far" and "beyond" to v2.
MCOwner == near :> v1 @@ far :> v2 @@ beyond :> v2
MCHome == [b \in Bookings |-> v1]

\* One peer leg before a local one: the order with the most to undo.
MixedRoute == [b \in Bookings |-> <<far, near>>]

\* A route that never enters the home region.
RemoteRoute == [b \in Bookings |-> <<far, beyond>>]

\* b1 asked on v1, with two peer legs around a local one, and b2 on v2.
CrossHome == b1 :> v1 @@ b2 :> v2
CrossRoute == b1 :> <<far, near, beyond>> @@ b2 :> <<near, far>>
=============================================================================
