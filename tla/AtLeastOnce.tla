----------------------------- MODULE AtLeastOnce -----------------------------
(***************************************************************************)
(* What a consumer of events promises: nothing is finished of which a part *)
(* was not recorded, and nothing is recorded of what was not published or  *)
(* is finished.  A part may be recorded more than once.                    *)
(***************************************************************************)
EXTENDS Integers

CONSTANT Events

VARIABLES
    open,           \* the events published and not finished
    closed,         \* the events finished
    copies          \* copies[e][i]: records of the i-th part of e

abstractVars == <<open, closed, copies>>

Publish(e) ==
    /\ e \notin open \cup closed
    /\ open' = open \cup {e}
    /\ UNCHANGED <<closed, copies>>

Record(e) ==
    /\ e \in open
    /\ \E i \in DOMAIN copies[e] : copies' = [copies EXCEPT ![e][i] = @ + 1]
    /\ UNCHANGED <<open, closed>>

Finish(e) ==
    /\ e \in open /\ \A i \in DOMAIN copies[e] : copies[e][i] > 0
    /\ open' = open \ {e}
    /\ closed' = closed \cup {e}
    /\ UNCHANGED copies

Init ==
    /\ open = {} /\ closed = {}
    /\ \A e \in Events : \A i \in DOMAIN copies[e] : copies[e][i] = 0

Next == \E e \in Events : Publish(e) \/ Record(e) \/ Finish(e)

Spec == Init /\ [][Next]_abstractVars
=============================================================================
