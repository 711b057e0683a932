----------------------------- MODULE MCFrontend ------------------------------
(***************************************************************************)
(* Frontend for TLC.                                                       *)
(***************************************************************************)
EXTENDS Frontend

\* Nine rows, with ties and an overbooked segment, one more than the table
\* shows; one row; none.
MCReports == {<<50, 90, 10, 100, 90, 0, 20, 105, 30>>, <<70>>, <<>>}
=============================================================================
