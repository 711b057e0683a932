---------------------------- MODULE BookJourney -----------------------------
(***************************************************************************)
(* The booking page (pages/BookJourney.tsx): the driver picks two points   *)
(* and a departure; every change of them has the route checked; the button *)
(* asks for the booking.  Checks and requests are answered late, in any    *)
(* order, or not at all.                                                   *)
(***************************************************************************)
EXTENDS BookingApi

CONSTANTS
    Points,         \* the points of the map that are clicked
    Presets,        \* the ids of the presets that are clicked
    Times,          \* departures that are entered
    MaxChecks       \* bound: route checks under way

\* id |-> region
WAYPOINTS == [
    dublin |-> "EU_WEST_IRELAND", cork |-> "EU_WEST_IRELAND",
    galway |-> "EU_WEST_IRELAND", limerick |-> "EU_WEST_IRELAND",
    belfast |-> "EU_WEST_UK", holyhead |-> "EU_WEST_UK",
    london |-> "EU_WEST_UK", birmingham |-> "EU_WEST_UK",
    manchester |-> "EU_WEST_UK", paris |-> "EU_WEST_FRANCE",
    lyon |-> "EU_WEST_FRANCE", marseille |-> "EU_WEST_FRANCE",
    bordeaux |-> "EU_WEST_FRANCE", calais |-> "EU_WEST_FRANCE"]

Preset(from, to) == [origin |-> from, destination |-> to]

ROUTE_PRESETS == [
    ie_dublin_cork |-> Preset("dublin", "cork"),
    ie_dublin_birmingham |-> Preset("dublin", "birmingham"),
    gb_london_manchester |-> Preset("london", "manchester"),
    fr_paris_lyon |-> Preset("paris", "lyon"),
    fr_paris_marseille |-> Preset("paris", "marseille")]

Waypoint == DOMAIN WAYPOINTS

ASSUME PointAssumption == Points \subseteq Waypoint
ASSUME PresetAssumption == Presets \subseteq DOMAIN ROUTE_PRESETS
ASSUME TimeAssumption == Times # {} /\ "" \notin Times
ASSUME CheckAssumption == MaxChecks \in Nat

VARIABLE form       \* the state of the mounted page

bookVars == <<api, form>>

Selection == [origin : Waypoint \cup {""}, destination : Waypoint \cup {""},
              when : Times \cup {""}]

\* The selection a form shows, and whether it has all three parts.
Selected(f) == [origin |-> f.origin, destination |-> f.destination,
                when |-> f.when]
Complete(s) == s.origin # "" /\ s.destination # "" /\ s.when # ""

IsCrossRegion(s) ==
    /\ s.origin # "" /\ s.destination # ""
    /\ WAYPOINTS[s.origin] # WAYPOINTS[s.destination]

NoPreview == [sel |-> [origin |-> "", destination |-> "", when |-> ""],
              ok |-> FALSE]
Messages == {"", "down", "unavailable", "rolledBack", "full", "failed"}

FormType ==
    [preset : DOMAIN ROUTE_PRESETS \cup {""},
     origin : Waypoint \cup {""}, destination : Waypoint \cup {""},
     when : Times \cup {""},
     preview : [sel : Selection, ok : BOOLEAN],
     previewError : BOOLEAN, checking : BOOLEAN,
     checks : SUBSET [sel : Selection, live : BOOLEAN],
     loading : BOOLEAN, error : Messages, result : Ids \cup {0},
     awaits : SUBSET Ids,       \* requests this page still waits for
     last : Ids \cup {0},       \* the last request it sent
     seen : SUBSET Ids]         \* history: bookings it was told are confirmed

FormTypeOK == form \in FormType

-----------------------------------------------------------------------------
(* The route check *)

\* Mutant of Superseded: the effect has no cleanup.
StillLive(checks) == checks

\* The cleanup of the effect: answers of earlier checks are not applied.
Superseded(checks) == {[c EXCEPT !.live = FALSE] : c \in checks}

\* The effect on [origin, destination, datetime].
CheckRoute(f) ==
    IF Complete(Selected(f))
    THEN [f EXCEPT !.checks = Superseded(f.checks)
                                \cup {[sel |-> Selected(f), live |-> TRUE]},
                   !.checking = TRUE, !.previewError = FALSE]
    ELSE [f EXCEPT !.checks = Superseded(f.checks),
                   !.preview = NoPreview, !.previewError = FALSE]

\* The form after an event: the effect runs only if the selection changed.
Show(f) == form' = IF Selected(f) = Selected(form) THEN f ELSE CheckRoute(f)

\* Bound: no further change of the selection while MaxChecks are under way.
MayChange == Cardinality(form.checks) < MaxChecks

\* The state on mount; defaultDeparture fills in a time.
Blank(time) ==
    [preset |-> "", origin |-> "dublin", destination |-> "cork",
     when |-> time, preview |-> NoPreview,
     previewError |-> FALSE, checking |-> FALSE, checks |-> {},
     loading |-> FALSE, error |-> "", result |-> 0,
     awaits |-> {}, last |-> 0, seen |-> {}]

Closed == Blank(CHOOSE time \in Times : TRUE)

OpenForm == \E time \in Times : form' = CheckRoute(Blank(time))

FormInit == \E time \in Times : form = CheckRoute(Blank(time))

\* The check is answered: there is a valid path, or there is none.
CheckAnswered(c, ok) ==
    /\ c \in form.checks
    /\ LET f == [form EXCEPT !.checks = @ \ {c}]
       IN  form' = IF c.live
                   THEN [f EXCEPT !.preview = [sel |-> c.sel, ok |-> ok],
                                  !.previewError = ~ok, !.checking = FALSE]
                   ELSE f
    /\ UNCHANGED api

\* A timeout, a network error, or an error status.
CheckFails(c) ==
    /\ c \in form.checks
    /\ LET f == [form EXCEPT !.checks = @ \ {c}]
       IN  form' = IF c.live
                   THEN [f EXCEPT !.preview = NoPreview,
                                  !.previewError = TRUE, !.checking = FALSE]
                   ELSE f
    /\ UNCHANGED api

\* What the panel "Route Check" says.
Panel(f) ==
    CASE f.checking -> "checking"
      [] ~f.checking /\ f.preview.ok -> "available"
      [] ~f.checking /\ ~f.preview.ok /\ f.previewError -> "no route"
      [] OTHER -> "select two points"

\* What the map draws between the two points.
MapLine(f) ==
    CASE f.origin # "" /\ f.destination # "" /\ f.preview.ok -> "segments"
      [] f.origin # "" /\ f.destination # "" /\ ~f.preview.ok -> "straight"
      [] OTHER -> "none"

-----------------------------------------------------------------------------
(* Picking a route.  The form is replaced by the result once there is one. *)

Editing == form.result = 0

HandleRouteSelect(id) ==
    /\ Editing /\ MayChange
    /\ Show([form EXCEPT !.preset = id, !.error = "", !.result = 0,
                         !.origin = ROUTE_PRESETS[id].origin,
                         !.destination = ROUTE_PRESETS[id].destination])
    /\ UNCHANGED api

\* The first click sets the origin, the next ones the destination; a click on
\* the origin clears both, a click on the destination clears it.
Clicked(f, p) ==
    CASE f.origin = "" -> [f EXCEPT !.origin = p]
      [] f.origin = p -> [f EXCEPT !.origin = "", !.destination = ""]
      [] f.origin # "" /\ f.origin # p /\ f.destination = p ->
            [f EXCEPT !.destination = ""]
      [] OTHER -> [f EXCEPT !.destination = p]

HandleMapPointClick(p) ==
    /\ Editing /\ MayChange
    /\ Show(Clicked([form EXCEPT !.preset = "", !.error = "", !.result = 0], p))
    /\ UNCHANGED api

SetDatetime(time) ==
    /\ Editing /\ MayChange
    /\ Show([form EXCEPT !.when = time])
    /\ UNCHANGED api

-----------------------------------------------------------------------------
(* Asking for the booking *)

CanSubmit(f) == Complete(Selected(f)) /\ f.preview.ok /\ ~f.checking

ButtonEnabled(f) == ~f.loading /\ CanSubmit(f)

\* What the button says.
Label(f) ==
    CASE f.loading -> IF IsCrossRegion(Selected(f)) THEN "saga" ELSE "submitting"
      [] ~f.loading /\ ~(f.origin # "" /\ f.destination # "") -> "select"
      [] ~f.loading /\ f.origin # "" /\ f.destination # "" ->
            IF f.preview # NoPreview /\ ~f.preview.ok THEN "unavailable"
            ELSE IF f.checking THEN "checking" ELSE "request"

\* The tests at the top of handleSubmit repeat what the button demands.
HandleSubmit(b) ==
    /\ Editing /\ ButtonEnabled(form) /\ IsNext(b)
    /\ SendPost(b)
    /\ form' = [form EXCEPT !.loading = TRUE, !.error = "", !.result = 0,
                            !.awaits = @ \cup {b}, !.last = b]
    /\ UNCHANGED calls

Answer(b) == [form EXCEPT !.loading = FALSE, !.awaits = @ \ {b}]

\* 201
Confirmed(b) ==
    /\ b \in form.awaits /\ server[b] \in {"CONFIRMED", "CANCELLED"}
    /\ form' = [Answer(b) EXCEPT !.result = b, !.seen = @ \cup {b}]
    /\ UNCHANGED api

\* Mutant of Message: silence is taken for a refusal.
MessageOfRefusal(kind) ==
    CASE kind = "silence" -> "full"
      [] kind = "503" -> "unavailable"
      [] kind = "409 peer" -> "rolledBack"
      [] kind = "409" -> "full"
      [] OTHER -> "failed"

\* Mutant of Message: the status is shown as it came.
MessageVerbatim(kind) == kind

\* The text shown for each way a request can fail.
Message(kind) ==
    CASE kind = "silence" -> "down"
      [] kind = "503" -> "unavailable"
      [] kind = "409 peer" -> "rolledBack"
      [] kind = "409" -> "full"
      [] OTHER -> "failed"

\* An error status.  The service answers 409 after it has committed REJECTED.
\* A 503, a 502 of nginx and a 500 say nothing of the booking: the request may
\* not have been received, the saga may go on, or the commit may be done.
Refused(b) ==
    /\ b \in form.awaits
    /\ \E kind \in {"503", "409 peer", "409", "other"} :
        /\ kind \in {"409 peer", "409"} => server[b] = "REJECTED"
        /\ form' = [Answer(b) EXCEPT !.error = Message(kind)]
    /\ UNCHANGED api

\* 15 s without an answer, or the connection is lost: the service goes on.
NoAnswer(b) ==
    /\ b \in form.awaits
    /\ form' = [Answer(b) EXCEPT !.error = Message("silence")]
    /\ UNCHANGED api

CheckEnds ==
    \E c \in form.checks :
        CheckFails(c) \/ \E ok \in BOOLEAN : CheckAnswered(c, ok)

SubmitEnds == \E b \in Ids : Confirmed(b) \/ Refused(b) \/ NoAnswer(b)

BookEvents ==
    \/ \E id \in Presets : HandleRouteSelect(id)
    \/ \E p \in Points : HandleMapPointClick(p)
    \/ \E time \in Times \cup {""} : SetDatetime(time)
    \/ \E b \in Ids : HandleSubmit(b)

\* The page alone, with the service it talks to.
BookNext ==
    \/ CheckEnds \/ SubmitEnds \/ BookEvents
    \/ ServerStep /\ UNCHANGED form

BookSpec == ApiInit /\ FormInit /\ [][BookNext]_bookVars

-----------------------------------------------------------------------------
(* Properties *)

\* Whatever is clicked in whatever order, a destination stands beside another
\* origin, and a highlighted preset is the route that is selected.
SelectionSound ==
    /\ form.destination # "" => form.origin \notin {"", form.destination}
    /\ form.preset # "" =>
        Preset(form.origin, form.destination) = ROUTE_PRESETS[form.preset]

\* "Route available" is about the selection on the screen and no earlier one,
\* in whatever order checks are answered, and the map draws an earlier route
\* only while the panel says "Checking"; "Checking" about a complete selection
\* is a check that is under way; and the button works only when the panel and
\* its own label say so.
PreviewIsCurrent ==
    /\ Panel(form) = "available" => form.preview.sel = Selected(form)
    /\ MapLine(form) = "segments" /\ Panel(form) # "checking" =>
        form.preview.sel = Selected(form)
    /\ Panel(form) = "checking" /\ Complete(Selected(form)) =>
        [sel |-> Selected(form), live |-> TRUE] \in form.checks
    /\ ButtonEnabled(form) => Panel(form) = "available" /\ Label(form) = "request"

\* A visit of the page never waits for two bookings, and is told of at most
\* one: a second booking for the same journey exists only when the page gave
\* up on the first, since the request carries no idempotency key.
SurplusIsUnseen ==
    Cardinality(form.awaits) <= 1 /\ Cardinality(form.seen) <= 1

\* When the page says that reservations were rolled back or that the slot is
\* full, the last request made no booking and will make none.  (Of a timeout,
\* a 502 or a 503 it says that a node is down: there may be a booking.)
ToldFailedIsFailed ==
    form.error \in {"rolledBack", "full"} => server[form.last] = "REJECTED"

\* No visit learns of two bookings, and what it is told was rolled back or full
\* is no booking.
OutcomeIsTold == SurplusIsUnseen /\ ToldFailedIsFailed
=============================================================================
