------------------------- MODULE MCSegmentCapacity --------------------------
(***************************************************************************)
(* SegmentCapacity for TLC: requests are model values and the requests of  *)
(* one kind are interchangeable.                                           *)
(***************************************************************************)
EXTENDS SegmentCapacity, TLC

Symmetry == Permutations(LocalSagas) \cup Permutations(PeerRequests)
=============================================================================
