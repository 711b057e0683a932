---------------------------- MODULE DashboardPage ----------------------------
(***************************************************************************)
(* The admin's dashboard (pages/Dashboard.tsx): three reports asked for at *)
(* once, each of which counts the events at the moment it is answered.     *)
(***************************************************************************)
EXTENDS Naturals, Sequences, FiniteSets

CONSTANTS
    Reports,        \* capacity reports: utilizations, in the order they come
                    \* in; that of an overbooked segment exceeds 100
    MaxEvents       \* bound: events recorded while the page is open

ASSUME ReportAssumption == Reports \subseteq Seq(Nat)
ASSUME EventAssumption == MaxEvents \in Nat

VARIABLES
    events,         \* events the analytics service has recorded
    board           \* the state of the mounted page

boardVars == <<events, board>>

Parts == {"stats", "capacity", "usage"}

BoardTypeOK ==
    /\ events \in 0..MaxEvents
    /\ board \in
        [loading : BOOLEAN, error : BOOLEAN,
         answer : [Parts -> SUBSET Seq(Nat)],   \* {} before it came in
         shown : [Parts -> SUBSET Seq(Nat)],
         since : 0..MaxEvents]      \* history: the events when it began

NoAnswers == [p \in Parts |-> {}]
ClosedBoard == [loading |-> TRUE, error |-> FALSE, answer |-> NoAnswers,
                shown |-> NoAnswers, since |-> 0]
OpenedBoard == [ClosedBoard EXCEPT !.since = events]

\* The analytics service consumes another event.
RecordEvent ==
    /\ events < MaxEvents
    /\ events' = events + 1
    /\ UNCHANGED board

\* getDashboard, getCapacityReport, getUsageReport.
Report(p) == IF p = "capacity" THEN Reports ELSE {<<events>>}

\* Mutant of Collected: setStats as soon as the first answer is there.
CollectedPiecemeal(b) ==
    IF \A p \in Parts : b.answer[p] # {}
    THEN [b EXCEPT !.shown = b.answer, !.loading = FALSE]
    ELSE [b EXCEPT !.shown = b.answer]

\* Promise.all resolves: everything is set at once.
Collected(b) ==
    IF \A p \in Parts : b.answer[p] # {}
    THEN [b EXCEPT !.shown = b.answer, !.loading = FALSE]
    ELSE b

ReportAnswered(p) ==
    /\ board.loading /\ board.answer[p] = {}
    /\ \E r \in Report(p) :
        board' = Collected([board EXCEPT !.answer[p] = {r}])
    /\ UNCHANGED events

\* Promise.all rejects at the first failure; the other answers are ignored.
ReportFails(p) ==
    /\ board.loading /\ board.answer[p] = {}
    /\ board' = [board EXCEPT !.loading = FALSE, !.error = TRUE]
    /\ UNCHANGED events

\* The sort by utilization, descending, keeps rows of the same one in order.
Before(c, i, j) == c[i] > c[j] \/ (c[i] = c[j] /\ i < j)
Place(c, i) == Cardinality({j \in DOMAIN c : Before(c, j, i)}) + 1

\* The rows of the table: sorted, and cut to eight.
TopSegments(capacity) ==
    [k \in 1..(IF Len(capacity) < 8 THEN Len(capacity) ELSE 8) |->
        CHOOSE i \in DOMAIN capacity : Place(capacity, i) = k]

\* What the page shows: the figures, the error in their place, or a spinner.
BoardView(b) ==
    CASE b.loading -> "loading"
      [] ~b.loading /\ b.error -> "error"
      [] OTHER -> "figures"

BoardAnswers == \E p \in Parts : ReportAnswered(p) \/ ReportFails(p)

-----------------------------------------------------------------------------
(* Properties *)

\* The two totals on the page were read at different moments; they lie between
\* the number of events when the page was opened and the number now, and
\* either all three reports are shown or, after a failure, none.
FiguresAreOfThisVisit ==
    /\ \A p \in Parts \ {"capacity"} :
        \A r \in board.shown[p] : r[1] \in board.since..events
    /\ IF BoardView(board) = "figures"
       THEN \A p \in Parts : board.shown[p] # {}
       ELSE board.shown = NoAnswers

\* No segment outside the table is used more than one in it, and none that
\* fits is left out.
TableIsTop == \A capacity \in board.shown["capacity"] :
    LET rows == TopSegments(capacity)
        inside == {rows[i] : i \in DOMAIN rows}
    IN  /\ Len(rows) = (IF Len(capacity) < 8 THEN Len(capacity) ELSE 8)
        /\ \A i \in inside, j \in DOMAIN capacity \ inside :
            capacity[i] >= capacity[j]

\* What the dashboard shows is one visit's, whole, and ranked as it says.
BoardIsTrue == FiguresAreOfThisVisit /\ TableIsTop
=============================================================================
