----------------------------- MODULE MyJourneys ------------------------------
(***************************************************************************)
(* The driver's list of bookings (pages/MyJourneys.tsx): loaded on mount   *)
(* and again after every cancellation.  Cancellations overlap, and their   *)
(* reloads may be answered in any order.                                   *)
(***************************************************************************)
EXTENDS BookingApi

CONSTANT MaxCancels     \* bound: cancellations of the page under way

ASSUME CancelAssumption == MaxCancels \in Nat

VARIABLE list           \* the state of the mounted page

journeyVars == <<api, list>>

\* Slot 0 is the load on mount, the others run handleCancel.
Slots == 0..MaxCancels
Filters == {"all", "CONFIRMED", "PENDING", "CANCELLED", "REJECTED"}

NoRows == [b \in Ids |-> "none"]
Idle == [stage |-> "idle", id |-> 0, rows |-> NoRows]
Loading(id) == [stage |-> "load", id |-> id, rows |-> NoRows]

Snapshot == [Ids -> Statuses \cup {"none"}]

ListType ==
    [rows : Snapshot, filter : Filters, loading : BOOLEAN,
     cancelling : Ids \cup {0}, error : BOOLEAN,
     ops : [Slots -> [stage : {"idle", "delete", "load", "answer"},
                      id : Ids \cup {0}, rows : Snapshot]],
     done : SUBSET Ids,         \* history: cancellations that were answered
     earlier : [Slots -> SUBSET Slots],     \* history: answers under way that
                                            \* were read before the slot's
     passed : SUBSET Slots,     \* history: answers under way that were read
                                \* before one that has been shown
     stale : BOOLEAN]           \* history: so was the one on the screen

ListTypeOK == list \in ListType

Unlisted ==
    [rows |-> NoRows, filter |-> "all", loading |-> TRUE, cancelling |-> 0,
     error |-> FALSE, ops |-> [s \in Slots |-> Idle],
     done |-> {}, earlier |-> [s \in Slots |-> {}], passed |-> {},
     stale |-> FALSE]

\* The effect on mount.
OpenedList == [Unlisted EXCEPT !.ops[0] = Loading(0)]

Running == {s \in Slots : list.ops[s].stage # "idle"}
Free == {s \in Slots \ {0} : list.ops[s].stage = "idle"}
Answers == {s \in Slots : list.ops[s].stage = "answer"}

\* The rows the page shows, and the ones with a button "Cancel".
Filtered == {b \in Ids : list.rows[b] # "none"
                            /\ list.filter \in {"all", list.rows[b]}}
Offered == {b \in Filtered : /\ ~list.loading
                             /\ list.rows[b] \in {"CONFIRMED", "PENDING"}
                             /\ list.cancelling # b}

Pills(f) == ~list.loading /\ (\E b \in Ids : list.rows[b] # "none")
                /\ f # list.filter

SetFilter(f) ==
    /\ Pills(f)
    /\ list' = [list EXCEPT !.filter = f]
    /\ UNCHANGED api

\* The driver confirms the dialog; the DELETE leaves the browser.
HandleCancel(b) ==
    /\ b \in Offered /\ Free # {}
    /\ calls' = calls \cup {b}
    /\ LET s == CHOOSE s \in Free : \A r \in Free : s <= r
       IN  list' = [list EXCEPT !.cancelling = b,
                       !.ops[s] = [Idle EXCEPT !.stage = "delete", !.id = b]]
    /\ UNCHANGED server

\* await cancelBooking is over; await load begins.
CancelAnswered(s) ==
    /\ list.ops[s].stage = "delete"
    /\ LET b == list.ops[s].id
       IN  /\ server[b] = "CANCELLED"
           /\ list' = [list EXCEPT !.ops[s] = Loading(b), !.done = @ \cup {b}]
    /\ UNCHANGED api

\* The operation in slot s is over.
Over(l, s) == [l EXCEPT !.ops[s] = Idle,
    !.earlier = [t \in Slots |-> IF t = s THEN {} ELSE l.earlier[t] \ {s}],
    !.passed = @ \ {s}]

\* Mutant of Ended: the button is reset only by what succeeds.
EndedInLoad(l, s) == [Over(l, s) EXCEPT
    !.cancelling = IF l.ops[s].stage = "answer" THEN 0 ELSE @]

\* finally { setCancelling(null) }; the load on mount has no such block.
Ended(l, s) == [Over(l, s) EXCEPT !.cancelling = IF s = 0 THEN @ ELSE 0]

\* A timeout or an error: an alert.  The service may still get the DELETE.
CancelFails(s) ==
    /\ list.ops[s].stage = "delete"
    /\ list' = Ended(list, s)
    /\ UNCHANGED api

\* The service answers GET /bookings with what is there now.
ReadRows(s) ==
    /\ list.ops[s].stage = "load"
    /\ list' = [list EXCEPT !.ops[s].stage = "answer", !.ops[s].rows = Rows,
                            !.earlier[s] = Answers]
    /\ UNCHANGED api

\* An answer is shown, in whatever order the service gave it.
Answered(s) == [Ended(list, s) EXCEPT
    !.loading = FALSE,
    !.passed = (list.passed \cup list.earlier[s]) \ {s},
    !.stale = s \in list.passed]

\* Mutant of Loaded: only the first load fills the list.
LoadedOnce(s) == [Answered(s) EXCEPT
    !.rows = IF list.loading THEN list.ops[s].rows ELSE @]

\* The effects of load(): the rows of the answer, or an error that stays.
Loaded(s) == [Answered(s) EXCEPT !.rows = list.ops[s].rows]
NotLoaded(s) == [Ended(list, s) EXCEPT !.error = TRUE, !.loading = FALSE]

LoadAnswered(s) ==
    /\ list.ops[s].stage = "answer"
    /\ list' = Loaded(s)
    /\ UNCHANGED api

LoadFails(s) ==
    /\ list.ops[s].stage \in {"load", "answer"}
    /\ list' = NotLoaded(s)
    /\ UNCHANGED api

ListAnswers(s) ==
    \/ CancelAnswered(s) \/ CancelFails(s)
    \/ ReadRows(s) \/ LoadAnswered(s) \/ LoadFails(s)

ListEvents ==
    \/ \E b \in Ids : HandleCancel(b)
    \/ \E f \in Filters : SetFilter(f)

-----------------------------------------------------------------------------
(* Properties *)

\* "Cancelling" is shown only while that cancellation runs, so its button is
\* never dead, whichever of several overlapping cancellations ends first.
SpinnerIsTrue ==
    list.cancelling # 0 =>
        \E s \in Running : list.ops[s].id = list.cancelling

\* Once the page is at rest, what it cancelled is shown as cancelled, however
\* many cancellations overlapped: unless a load has failed (the page says so),
\* or the rows on the screen were read before rows that it showed earlier,
\* which nothing in the page prevents.
CancelledIsListed ==
    Running = {} /\ ~list.error /\ ~list.stale =>
        \A b \in list.done : list.rows[b] = "CANCELLED"

\* The list is true of the cancellations that run and of those that ended.
CancelledIsShown == SpinnerIsTrue /\ CancelledIsListed
=============================================================================
