------------------------------- MODULE WebApp --------------------------------
(***************************************************************************)
(* The pages of the browser application for a signed-in user, one of them  *)
(* mounted at a time (routes.tsx), before one booking service.  Mounting a *)
(* page starts it anew, leaving it drops its state: answers that come      *)
(* later reach nobody, but what was asked of the service goes on.          *)
(***************************************************************************)
EXTENDS BookJourney, MyJourneys, NotificationsPage, VerifyPage, DashboardPage

VARIABLE page           \* the route that is shown

pages == <<form, list, inbox, desk, board>>
webVars == <<page, api, events, pages>>

WebTypeOK ==
    /\ page \in {"book", "journeys", "notifications", "verify", "dashboard"}
    /\ ApiTypeOK /\ FormTypeOK /\ ListTypeOK
    /\ InboxTypeOK /\ DeskTypeOK /\ BoardTypeOK

WebInit ==
    /\ page = "book" /\ ApiInit /\ FormInit /\ events = 0
    /\ list = Unlisted /\ inbox = ClosedInbox /\ desk = EmptyDesk
    /\ board = ClosedBoard

\* Bound: the pages that have no state in common with the bookings are visited
\* before the first of them is made.
Unrelated == {"notifications", "verify", "dashboard"}

\* The router mounts page p in place of the one that is shown.
GoTo(p) ==
    /\ p # page /\ (p \in Unrelated => Unused = Ids)
    /\ page' = p
    /\ IF p = "book" THEN OpenForm ELSE form' = Closed
    /\ list' = IF p = "journeys" THEN OpenedList ELSE Unlisted
    /\ inbox' = IF p = "notifications" THEN OpenedInbox ELSE ClosedInbox
    /\ desk' = EmptyDesk
    /\ board' = IF p = "dashboard" THEN OpenedBoard ELSE ClosedBoard
    /\ UNCHANGED <<api, events>>

Book(A) == /\ page = "book" /\ A
           /\ UNCHANGED <<page, events, list, inbox, desk, board>>
Journeys(A) == /\ page = "journeys" /\ A
               /\ UNCHANGED <<page, events, form, inbox, desk, board>>
Inbox(A) == /\ page = "notifications" /\ A
            /\ UNCHANGED <<page, api, events, form, list, desk, board>>
Desk(A) == /\ page = "verify" /\ A
           /\ UNCHANGED <<page, api, events, form, list, inbox, board>>
Board(A) == /\ page = "dashboard" /\ A
            /\ UNCHANGED <<page, api, form, list, inbox, desk>>
Service(A) == A /\ UNCHANGED <<page, events, pages>>

WebNext ==
    \/ \E p \in {"book", "journeys", "notifications", "verify", "dashboard"} :
        GoTo(p)
    \/ Book(CheckEnds) \/ Book(SubmitEnds) \/ Book(BookEvents)
    \/ Journeys(ListEvents) \/ \E s \in Slots : Journeys(ListAnswers(s))
    \/ Inbox(InboxAnswers) \/ Inbox(InboxEvents)
    \/ Desk(DeskAnswers) \/ Desk(DeskEvents)
    \/ Board(BoardAnswers) \/ Board(RecordEvent)
    \/ Service(ServerStep) \/ \E b \in Ids : Service(CancelElsewhere(b))

WebSpec == WebInit /\ [][WebNext]_webVars

-----------------------------------------------------------------------------
(* Properties *)

\* "Submitting" and "Cancelling" end, whether or not the service answers.
\* (The panel "Route Check" may say "Checking" for ever, when a point is taken
\* away during a check; PreviewIsCurrent says when it does not.)
SpinnersStop ==
    /\ form.loading ~> ~form.loading
    /\ list.cancelling # 0 ~> list.cancelling = 0
=============================================================================
