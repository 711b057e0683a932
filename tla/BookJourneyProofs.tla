-------------------------- MODULE BookJourneyProofs --------------------------
(***************************************************************************)
(* Proofs about the booking page, for any points, presets, departures and  *)
(* numbers of route checks and bookings.                                   *)
(***************************************************************************)
EXTENDS BookJourney, FiniteSetTheorems, TLAPS

\* Only the check of the selection on the screen will be applied, ...
LiveIsCurrent(f) ==
    \A c \in f.checks : c.live => c.sel = Selected(f) /\ f.checking

\* ... "Checking" about a complete selection is true, ...
CheckingIsLive(f) ==
    f.checking /\ Complete(Selected(f)) =>
        [sel |-> Selected(f), live |-> TRUE] \in f.checks

\* ... and so is what a finished check has left on the screen.
PreviewFits(f) == ~f.checking /\ f.preview.ok => f.preview.sel = Selected(f)

ChecksSound(f) == LiveIsCurrent(f) /\ CheckingIsLive(f) /\ PreviewFits(f)

RouteSound(f) ==
    /\ f.destination # "" => f.origin \notin {"", f.destination}
    /\ f.preset # "" => Preset(f.origin, f.destination) = ROUTE_PRESETS[f.preset]

FormInv == FormTypeOK /\ ChecksSound(form) /\ RouteSound(form)

\* The presets: two different points of the map.
LEMMA PresetPoints ==
  ASSUME NEW id \in DOMAIN ROUTE_PRESETS
  PROVE  \E from, to \in Waypoint :
            from # "" /\ from # to /\ ROUTE_PRESETS[id] = Preset(from, to)
<1>1. DOMAIN ROUTE_PRESETS = {"ie_dublin_cork", "ie_dublin_birmingham",
            "gb_london_manchester", "fr_paris_lyon", "fr_paris_marseille"}
  BY DEF ROUTE_PRESETS
<1>2. {"dublin", "cork", "birmingham", "london", "manchester", "paris", "lyon",
       "marseille"} \subseteq Waypoint
  BY DEF Waypoint, WAYPOINTS
<1>3. CASE id = "ie_dublin_cork"
  <2>1. ROUTE_PRESETS[id] = Preset("dublin", "cork")
    BY <1>3 DEF ROUTE_PRESETS
  <2> QED BY <2>1, <1>2
<1>4. CASE id = "ie_dublin_birmingham"
  <2>1. ROUTE_PRESETS[id] = Preset("dublin", "birmingham")
    BY <1>4 DEF ROUTE_PRESETS
  <2> QED BY <2>1, <1>2
<1>5. CASE id = "gb_london_manchester"
  <2>1. ROUTE_PRESETS[id] = Preset("london", "manchester")
    BY <1>5 DEF ROUTE_PRESETS
  <2> QED BY <2>1, <1>2
<1>6. CASE id = "fr_paris_lyon"
  <2>1. ROUTE_PRESETS[id] = Preset("paris", "lyon")
    BY <1>6 DEF ROUTE_PRESETS
  <2> QED BY <2>1, <1>2
<1>7. CASE id = "fr_paris_marseille"
  <2>1. ROUTE_PRESETS[id] = Preset("paris", "marseille")
    BY <1>7 DEF ROUTE_PRESETS
  <2> QED BY <2>1, <1>2
<1> QED BY <1>1, <1>3, <1>4, <1>5, <1>6, <1>7

\* "" is neither a point nor a preset.
LEMMA NotEmpty == "" \notin Waypoint /\ "" \notin DOMAIN ROUTE_PRESETS
  BY DEF ROUTE_PRESETS, Waypoint, WAYPOINTS

LEMMA SelectedType ==
  ASSUME NEW f \in FormType PROVE Selected(f) \in Selection
  BY DEF FormType, Selected, Selection

LEMMA DeadCheck ==
  ASSUME NEW c \in [sel : Selection, live : BOOLEAN]
  PROVE  /\ [c EXCEPT !.live = FALSE] \in [sel : Selection, live : BOOLEAN]
         /\ ~[c EXCEPT !.live = FALSE].live
  OBVIOUS

LEMMA SupersededDead ==
  ASSUME NEW checks \in SUBSET [sel : Selection, live : BOOLEAN]
  PROVE  /\ Superseded(checks) \in SUBSET [sel : Selection, live : BOOLEAN]
         /\ \A c \in Superseded(checks) : ~c.live
<1>1. ASSUME NEW c \in checks
      PROVE  /\ [c EXCEPT !.live = FALSE] \in [sel : Selection, live : BOOLEAN]
             /\ ~[c EXCEPT !.live = FALSE].live
  BY DeadCheck
<1> QED BY <1>1, Zenon DEF Superseded

\* Whatever the form was, the effect leaves its checks in order.
LEMMA CheckRouteSound ==
  ASSUME NEW f \in FormType
  PROVE  /\ CheckRoute(f) \in FormType
         /\ ChecksSound(CheckRoute(f))
         /\ Selected(CheckRoute(f)) = Selected(f)
         /\ CheckRoute(f).preset = f.preset
<1> USE DEF FormType
<1>0. f.checks \in SUBSET [sel : Selection, live : BOOLEAN]
  OBVIOUS
<1>1. Superseded(f.checks) \in SUBSET [sel : Selection, live : BOOLEAN]
  BY <1>0, SupersededDead
<1>2. \A c \in Superseded(f.checks) : ~c.live
  BY <1>0, SupersededDead
<1>3. NoPreview \in [sel : Selection, ok : BOOLEAN] /\ ~NoPreview.ok
  BY DEF NoPreview, Selection
<1>4. CASE Complete(Selected(f))
  <2> DEFINE new == [sel |-> Selected(f), live |-> TRUE]
             g == [f EXCEPT !.checks = Superseded(f.checks) \cup {new},
                            !.checking = TRUE, !.previewError = FALSE]
  <2>1. CheckRoute(f) = g
    BY <1>4 DEF CheckRoute
  <2>2. new \in [sel : Selection, live : BOOLEAN]
    BY SelectedType
  <2>3. g \in FormType
    BY <1>1, <2>2
  <2>4. Selected(g) = Selected(f) /\ g.preset = f.preset
    BY DEF Selected
  <2>5. ChecksSound(g)
    <3>1. g.checks = Superseded(f.checks) \cup {new} /\ g.checking
      OBVIOUS
    <3>2. LiveIsCurrent(g)
      <4> SUFFICES ASSUME NEW c \in g.checks, c.live
                   PROVE  c.sel = Selected(g) /\ g.checking
        BY DEF LiveIsCurrent
      <4>1. c = new
        BY <1>2, <3>1
      <4> QED BY <4>1, <2>4, <3>1
    <3>3. CheckingIsLive(g) /\ PreviewFits(g)
      BY <2>4, <3>1 DEF CheckingIsLive, PreviewFits
    <3> QED BY <3>2, <3>3 DEF ChecksSound
  <2> QED BY <2>1, <2>3, <2>4, <2>5, ZenonT(40)
<1>5. CASE ~Complete(Selected(f))
  <2> DEFINE g == [f EXCEPT !.checks = Superseded(f.checks),
                            !.preview = NoPreview, !.previewError = FALSE]
  <2>1. CheckRoute(f) = g
    BY <1>5 DEF CheckRoute
  <2>2. g \in FormType
    BY <1>1, <1>3
  <2>3. Selected(g) = Selected(f) /\ g.preset = f.preset
    BY DEF Selected
  <2>4. ChecksSound(g)
    BY <1>2, <1>3, <1>5, <2>3
    DEF ChecksSound, LiveIsCurrent, CheckingIsLive, PreviewFits
  <2> QED BY <2>1, <2>2, <2>3, <2>4
<1> QED BY <1>4, <1>5

\* RouteSound looks only at the selection and the preset.
LEMMA RouteSoundKept ==
  ASSUME NEW f, NEW g, Selected(f) = Selected(g), f.preset = g.preset,
         RouteSound(f)
  PROVE  RouteSound(g)
  BY DEF RouteSound, Selected

-----------------------------------------------------------------------------
(* Steps *)

\* A step that leaves the selection and the checks alone.
LEMMA FrameSound ==
  ASSUME FormInv, NEW f \in FormType,
         Selected(f) = Selected(form), f.preset = form.preset,
         f.checks = form.checks, f.checking = form.checking,
         f.preview = form.preview
  PROVE  ChecksSound(f) /\ RouteSound(f)
<1>1. ChecksSound(f)
  BY DEF FormInv, ChecksSound, LiveIsCurrent, CheckingIsLive, PreviewFits
<1>2. RouteSound(f)
  BY RouteSoundKept DEF FormInv
<1> QED BY <1>1, <1>2

\* What an event shows, after the effect of the selection.
LEMMA ShowSound ==
  ASSUME FormInv, NEW f \in FormType, RouteSound(f), Show(f),
         f.checks = form.checks, f.checking = form.checking,
         f.preview = form.preview
  PROVE  FormInv'
<1>1. CASE Selected(f) = Selected(form)
  <2>1. form' = f
    BY <1>1 DEF Show
  <2>2. ChecksSound(f)
    BY <1>1 DEF FormInv, ChecksSound, LiveIsCurrent, CheckingIsLive, PreviewFits
  <2> QED BY <2>1, <2>2 DEF FormInv, FormTypeOK
<1>2. CASE Selected(f) # Selected(form)
  <2>1. form' = CheckRoute(f)
    BY <1>2 DEF Show
  <2>2. CheckRoute(f) \in FormType /\ ChecksSound(CheckRoute(f))
    BY CheckRouteSound
  <2>3. RouteSound(CheckRoute(f))
    BY CheckRouteSound, RouteSoundKept
  <2> QED BY <2>1, <2>2, <2>3 DEF FormInv, FormTypeOK
<1> QED BY <1>1, <1>2

LEMMA RouteSelectSound ==
  ASSUME FormInv, NEW id \in Presets, HandleRouteSelect(id)
  PROVE  FormInv'
<1> DEFINE r == ROUTE_PRESETS[id]
           f == [form EXCEPT !.preset = id, !.error = "", !.result = 0,
                             !.origin = r.origin, !.destination = r.destination]
<1>1. id \in DOMAIN ROUTE_PRESETS
  BY PresetAssumption
<1>2. PICK from \in Waypoint, to \in Waypoint :
        from # "" /\ from # to /\ r = Preset(from, to)
  BY <1>1, PresetPoints
<1>3. r.origin = from /\ r.destination = to
  <2> HIDE DEF r
  <2> QED BY <1>2 DEF Preset
<1>4. f \in FormType
  BY <1>1, <1>3 DEF FormInv, FormTypeOK, FormType, Messages
<1>5. /\ f.preset = id /\ f.origin = from /\ f.destination = to
      /\ f.checks = form.checks /\ f.checking = form.checking
      /\ f.preview = form.preview
  BY <1>3 DEF FormInv, FormTypeOK, FormType
<1>6. RouteSound(f)
  BY <1>2, <1>5 DEF RouteSound
<1>7. Show(f)
  BY DEF HandleRouteSelect
<1> QED BY <1>4, <1>5, <1>6, <1>7, ShowSound

LEMMA MapClickSound ==
  ASSUME FormInv, NEW p \in Points, HandleMapPointClick(p)
  PROVE  FormInv'
<1> DEFINE g == [form EXCEPT !.preset = "", !.error = "", !.result = 0]
           f == Clicked(g, p)
<1>1. p \in Waypoint /\ p # ""
  BY PointAssumption, NotEmpty
<1>2. g \in FormType
  BY DEF FormInv, FormTypeOK, FormType, Messages
<1>3. /\ g.preset = "" /\ g.origin = form.origin
      /\ g.destination = form.destination /\ g.checks = form.checks
      /\ g.checking = form.checking /\ g.preview = form.preview
  BY DEF FormInv, FormTypeOK, FormType
<1>4. g.destination # "" => g.origin \notin {"", g.destination}
  BY <1>3 DEF FormInv, RouteSound
<1>5. /\ f \in FormType /\ f.preset = "" /\ RouteSound(f)
      /\ f.checks = g.checks /\ f.checking = g.checking /\ f.preview = g.preview
  <2> HIDE DEF g
  <2>1. CASE g.origin = ""
    <3>1. f = [g EXCEPT !.origin = p]
      BY <1>1, <2>1 DEF Clicked
    <3>2. g.destination = ""
      BY <1>4, <2>1
    <3>3. f \in FormType
      BY <1>1, <1>2, <3>1 DEF FormType
    <3>4. f.destination = "" /\ f.preset = ""
      BY <1>2, <1>3, <3>1, <3>2 DEF FormType
    <3>5. f.checks = g.checks /\ f.checking = g.checking /\ f.preview = g.preview
      BY <1>2, <3>1 DEF FormType
    <3> QED BY <3>3, <3>4, <3>5 DEF RouteSound
  <2>2. CASE g.origin # "" /\ g.origin = p
    <3>1. f = [g EXCEPT !.origin = "", !.destination = ""]
      BY <2>2 DEF Clicked
    <3> QED BY <1>1, <1>2, <1>3, <3>1 DEF FormType, RouteSound
  <2>3. CASE g.origin # "" /\ g.origin # p /\ g.destination = p
    <3>1. f = [g EXCEPT !.destination = ""]
      BY <2>3 DEF Clicked
    <3> QED BY <1>1, <1>2, <1>3, <3>1 DEF FormType, RouteSound
  <2>4. CASE g.origin # "" /\ g.origin # p /\ g.destination # p
    <3>1. f = [g EXCEPT !.destination = p]
      BY <2>4 DEF Clicked
    <3> QED BY <1>1, <1>2, <1>3, <2>4, <3>1, ZenonT(40) DEF FormType, RouteSound
  <2> QED BY <2>1, <2>2, <2>3, <2>4
<1>6. Show(f)
  BY DEF HandleMapPointClick
<1> HIDE DEF f, g
<1> QED BY <1>3, <1>5, <1>6, ShowSound

LEMMA DatetimeSound ==
  ASSUME FormInv, NEW time \in Times \cup {""}, SetDatetime(time)
  PROVE  FormInv'
<1> DEFINE f == [form EXCEPT !.when = time]
<1>1. f \in FormType
  BY DEF FormInv, FormTypeOK, FormType
<1>2. /\ f.preset = form.preset /\ f.origin = form.origin
      /\ f.destination = form.destination /\ f.checks = form.checks
      /\ f.checking = form.checking /\ f.preview = form.preview
  BY DEF FormInv, FormTypeOK, FormType
<1>3. RouteSound(f)
  BY <1>2 DEF FormInv, RouteSound
<1>4. Show(f)
  BY DEF SetDatetime
<1> HIDE DEF f
<1> QED BY <1>1, <1>2, <1>3, <1>4, ShowSound

\* Pressing the button, and every answer to a booking.
LEMMA SubmitSound ==
  ASSUME FormInv, NEW b \in Ids, HandleSubmit(b)
  PROVE  FormInv'
<1>1. /\ form' \in FormType
      /\ Selected(form') = Selected(form) /\ form'.preset = form.preset
      /\ form'.checks = form.checks /\ form'.checking = form.checking
      /\ form'.preview = form.preview
  BY DEF HandleSubmit, FormInv, FormTypeOK, FormType, Selected, Messages
<1> QED BY <1>1, FrameSound DEF FormInv, FormTypeOK

LEMMA MessageType == \A kind : Message(kind) \in Messages
  BY DEF Message, Messages

LEMMA SubmitEndsSound ==
  ASSUME FormInv, SubmitEnds
  PROVE  FormInv'
<1>1. PICK b \in Ids : Confirmed(b) \/ Refused(b) \/ NoAnswer(b)
  BY DEF SubmitEnds
<1>2. ASSUME NEW e \in Messages, form' = [Answer(b) EXCEPT !.error = e]
      PROVE  FormInv'
  <2>1. /\ form' \in FormType
        /\ Selected(form') = Selected(form) /\ form'.preset = form.preset
        /\ form'.checks = form.checks /\ form'.checking = form.checking
        /\ form'.preview = form.preview
    BY <1>2 DEF Answer, FormInv, FormTypeOK, FormType, Selected
  <2> QED BY <2>1, FrameSound DEF FormInv, FormTypeOK
<1>3. CASE Confirmed(b)
  <2>1. /\ form' \in FormType
        /\ Selected(form') = Selected(form) /\ form'.preset = form.preset
        /\ form'.checks = form.checks /\ form'.checking = form.checking
        /\ form'.preview = form.preview
    BY <1>3 DEF Confirmed, Answer, FormInv, FormTypeOK, FormType, Selected
  <2> QED BY <2>1, FrameSound DEF FormInv, FormTypeOK
<1>4. CASE Refused(b)
  <2>1. PICK kind \in {"503", "409 peer", "409", "other"} :
            form' = [Answer(b) EXCEPT !.error = Message(kind)]
    BY <1>4 DEF Refused
  <2> QED BY <1>2, <2>1, MessageType
<1>5. CASE NoAnswer(b)
  <2>1. form' = [Answer(b) EXCEPT !.error = Message("silence")]
    BY <1>5 DEF NoAnswer
  <2> QED BY <1>2, <2>1, MessageType
<1> QED BY <1>1, <1>3, <1>4, <1>5

\* The end of a check: the one that is live is the only one of its kind.
LEMMA CheckEndsSound ==
  ASSUME FormInv, CheckEnds
  PROVE  FormInv'
<1>1. PICK c \in form.checks :
        CheckFails(c) \/ \E ok \in BOOLEAN : CheckAnswered(c, ok)
  BY DEF CheckEnds
<1> DEFINE f == [form EXCEPT !.checks = @ \ {c}]
<1>2. /\ f \in FormType /\ f.checks = form.checks \ {c}
      /\ Selected(f) = Selected(form) /\ f.preset = form.preset
      /\ f.checking = form.checking /\ f.preview = form.preview
  BY DEF FormInv, FormTypeOK, FormType, Selected
<1>3. c \in [sel : Selection, live : BOOLEAN]
  BY DEF FormInv, FormTypeOK, FormType
<1>4. RouteSound(f)
  BY <1>2, RouteSoundKept DEF FormInv
<1>5. CASE ~c.live
  <2>1. form' = f
    BY <1>1, <1>5 DEF CheckFails, CheckAnswered
  <2>2. ChecksSound(f)
    <3>1. c # [sel |-> Selected(form), live |-> TRUE]
      BY <1>5
    <3> QED
      BY <1>2, <3>1
      DEF FormInv, ChecksSound, LiveIsCurrent, CheckingIsLive, PreviewFits
  <2> QED BY <1>2, <1>4, <2>1, <2>2 DEF FormInv, FormTypeOK
<1>6. CASE c.live
  <2>1. c.sel = Selected(form)
    BY <1>6 DEF FormInv, ChecksSound, LiveIsCurrent
  <2>2. \A d \in f.checks : ~d.live
    <3>1. SUFFICES ASSUME NEW d \in f.checks, d.live PROVE FALSE
      OBVIOUS
    <3>2. d \in form.checks /\ d # c
      BY <1>2
    <3>3. d.sel = Selected(form) /\ d \in [sel : Selection, live : BOOLEAN]
      BY <3>1, <3>2 DEF FormInv, ChecksSound, LiveIsCurrent, FormTypeOK, FormType
    <3> QED BY <1>3, <1>6, <2>1, <3>1, <3>2, <3>3
  <2>3. ASSUME NEW p \in [sel : Selection, ok : BOOLEAN], NEW e \in BOOLEAN,
               p.ok => p.sel = Selected(form),
               form' = [f EXCEPT !.preview = p, !.previewError = e,
                                 !.checking = FALSE]
        PROVE  FormInv'
    <3> HIDE DEF f
    <3>1. /\ form' \in FormType /\ form'.checks = f.checks
          /\ Selected(form') = Selected(f) /\ form'.preset = f.preset
          /\ ~form'.checking /\ form'.preview = p
      BY <1>2, <2>3, ZenonT(40) DEF FormType, Selected
    <3>2. RouteSound(form')
      BY <1>4, <3>1, RouteSoundKept
    <3>3. ChecksSound(form')
      BY <1>2, <2>2, <2>3, <3>1
      DEF ChecksSound, LiveIsCurrent, CheckingIsLive, PreviewFits
    <3> QED BY <3>1, <3>2, <3>3 DEF FormInv, FormTypeOK
  <2>4. CASE CheckFails(c)
    <3>1. form' = [f EXCEPT !.preview = NoPreview, !.previewError = TRUE,
                            !.checking = FALSE]
      BY <1>6, <2>4 DEF CheckFails
    <3>2. NoPreview \in [sel : Selection, ok : BOOLEAN] /\ ~NoPreview.ok
      BY DEF NoPreview, Selection
    <3> QED BY <2>3, <3>1, <3>2
  <2>5. ASSUME NEW ok \in BOOLEAN, CheckAnswered(c, ok) PROVE FormInv'
    <3>1. form' = [f EXCEPT !.preview = [sel |-> c.sel, ok |-> ok],
                            !.previewError = ~ok, !.checking = FALSE]
      BY <1>6, <2>5 DEF CheckAnswered
    <3>2. [sel |-> c.sel, ok |-> ok] \in [sel : Selection, ok : BOOLEAN]
      BY <1>3
    <3> QED BY <2>1, <2>3, <3>1, <3>2
  <2> QED BY <1>1, <2>4, <2>5
<1> QED BY <1>5, <1>6

-----------------------------------------------------------------------------
(* The page *)

LEMMA BlankType == \A time \in Times : Blank(time) \in FormType
<1>1. {"dublin", "cork"} \subseteq Waypoint
  BY DEF Waypoint, WAYPOINTS
<1>2. NoPreview \in [sel : Selection, ok : BOOLEAN]
  BY DEF NoPreview, Selection
<1> QED BY <1>1, <1>2 DEF Blank, FormType, Messages

LEMMA BookInvInit == FormInit => FormInv
<1> SUFFICES ASSUME FormInit PROVE FormInv
  OBVIOUS
<1>1. PICK time \in Times : form = CheckRoute(Blank(time))
  BY DEF FormInit
<1>2. Blank(time) \in FormType
  BY BlankType
<1>3. RouteSound(Blank(time))
  BY DEF Blank, RouteSound
<1>4. RouteSound(form)
  BY <1>1, <1>2, <1>3, CheckRouteSound, RouteSoundKept
<1> QED BY <1>1, <1>2, <1>4, CheckRouteSound DEF FormInv, FormTypeOK

LEMMA BookInvNext == FormInv /\ [BookNext]_bookVars => FormInv'
<1> SUFFICES ASSUME FormInv, [BookNext]_bookVars PROVE FormInv'
  OBVIOUS
<1>1. CASE CheckEnds
  BY <1>1, CheckEndsSound
<1>2. CASE SubmitEnds
  BY <1>2, SubmitEndsSound
<1>3. CASE BookEvents
  BY <1>3, RouteSelectSound, MapClickSound, DatetimeSound, SubmitSound
  DEF BookEvents
<1>4. CASE UNCHANGED form
  BY <1>4 DEF FormInv, FormTypeOK, ChecksSound, LiveIsCurrent, CheckingIsLive,
              PreviewFits, RouteSound
<1> QED BY <1>1, <1>2, <1>3, <1>4 DEF BookNext, bookVars

\* What the panel and the button show follows from the invariant.
LEMMA InvShows == FormInv => PreviewIsCurrent
<1> SUFFICES ASSUME FormInv PROVE PreviewIsCurrent
  OBVIOUS
<1> USE DEF FormInv, ChecksSound
<1>1. Panel(form) = "available" => ~form.checking /\ form.preview.ok
  BY DEF Panel, FormTypeOK, FormType
<1>2. Panel(form) = "checking" => form.checking
  BY DEF Panel, FormTypeOK, FormType
<1>3. ASSUME ButtonEnabled(form)
      PROVE  Panel(form) = "available" /\ Label(form) = "request"
  <2>1. /\ ~form.loading /\ ~form.checking /\ form.preview.ok
        /\ form.origin # "" /\ form.destination # ""
    BY <1>3 DEF ButtonEnabled, CanSubmit, Complete, Selected
  <2>2. Panel(form) = "available"
    BY <2>1 DEF Panel
  <2>3. Label(form) = "request"
    BY <2>1 DEF Label
  <2> QED BY <2>2, <2>3
<1>4. MapLine(form) = "segments" /\ Panel(form) # "checking" =>
        ~form.checking /\ form.preview.ok
  BY DEF MapLine, Panel, FormTypeOK, FormType
<1> QED BY <1>1, <1>2, <1>3, <1>4 DEF PreviewIsCurrent, PreviewFits, CheckingIsLive

\* The inductive invariant of the page (BookJourney.tsx:64-210).
THEOREM FormInvHolds == BookSpec => []FormInv
  BY BookInvInit, BookInvNext, PTL DEF BookSpec

\* In whatever order checks are answered, "Route available", "Checking" and
\* the button speak of the selection on the screen (BookJourney.tsx:120-157,
\* 400-456).
THEOREM PreviewHolds == BookSpec => []PreviewIsCurrent
  BY InvShows, FormInvHolds, PTL

\* No sequence of clicks selects a destination without another origin, or
\* leaves a preset highlighted that is not selected (BookJourney.tsx:88-118).
THEOREM SelectionHolds == BookSpec => []SelectionSound
<1>1. FormInv => SelectionSound
  BY DEF FormInv, RouteSound, SelectionSound
<1> QED BY <1>1, FormInvHolds, PTL

-----------------------------------------------------------------------------
(* What the page says of a request *)

Final == {"REJECTED", "refused"}

\* At most the last request is waited for, only while there is no result, and
\* whenever the button says so; the one confirmation the page was told of is the
\* result on the screen.
RequestsSound(f) ==
    /\ f.awaits \subseteq {f.last}
    /\ f.loading <=> f.awaits # {}
    /\ f.awaits # {} => f.result = 0
    /\ f.seen = IF f.result = 0 THEN {} ELSE {f.result}

\* Only what was confirmed is ever asked to be cancelled.
Booked == {"CONFIRMED", "CANCELLED"}

CallsSound == ApiTypeOK /\ \A b \in calls : server[b] \in Booked

\* Hence what was rejected stays rejected.
RefusalsSound ==
    /\ CallsSound
    /\ form.error \in {"rolledBack", "full"} =>
            form.last \in Ids /\ server[form.last] = "REJECTED"

OutcomeInv == FormTypeOK /\ RequestsSound(form) /\ RefusalsSound

\* The fields of the form that the requests are about.
SameRequests(f, g) ==
    /\ f.awaits = g.awaits /\ f.last = g.last /\ f.loading = g.loading
    /\ f.result = g.result /\ f.seen = g.seen

LEMMA CheckSameRequests ==
  ASSUME NEW f \in FormType
  PROVE  SameRequests(CheckRoute(f), f) /\ CheckRoute(f).error = f.error
BY DEF FormType, CheckRoute, SameRequests

LEMMA RequestsKept ==
  ASSUME NEW f, NEW g, SameRequests(g, f), RequestsSound(f)
  PROVE  RequestsSound(g)
BY DEF SameRequests, RequestsSound

\* A step of the form alone, which asks for nothing and says nothing new.
LEMMA FormStepKeepsOutcome ==
  ASSUME OutcomeInv, FormTypeOK', UNCHANGED api, SameRequests(form', form),
         form'.error \in {"", form.error}
  PROVE  OutcomeInv'
<1>1. RequestsSound(form')
  BY RequestsKept DEF OutcomeInv
<1>2. form'.last = form.last
  BY DEF SameRequests
<1>3. RefusalsSound'
  BY <1>2 DEF OutcomeInv, RefusalsSound, CallsSound, ApiTypeOK, api
<1> QED BY <1>1, <1>3 DEF OutcomeInv

LEMMA EditKeepsOutcome ==
  ASSUME OutcomeInv, FormTypeOK', NEW f \in FormType, Show(f), UNCHANGED api,
         SameRequests(f, form), f.error \in {"", form.error}
  PROVE  OutcomeInv'
<1>1. form' = f \/ form' = CheckRoute(f)
  BY DEF Show
<1>2. SameRequests(form', f) /\ form'.error = f.error
  <2>1. SameRequests(CheckRoute(f), f) /\ CheckRoute(f).error = f.error
    BY CheckSameRequests
  <2> QED BY <1>1, <2>1 DEF SameRequests
<1>3. SameRequests(form', form)
  BY <1>2 DEF SameRequests
<1> QED BY <1>2, <1>3, FormStepKeepsOutcome

LEMMA CheckEndKeepsOutcome ==
  ASSUME OutcomeInv, FormTypeOK', CheckEnds
  PROVE  OutcomeInv'
<1>1. PICK c \in form.checks :
        CheckFails(c) \/ \E ok \in BOOLEAN : CheckAnswered(c, ok)
  BY DEF CheckEnds
<1> DEFINE f == [form EXCEPT !.checks = @ \ {c}]
<1>2. f \in FormType /\ SameRequests(f, form) /\ f.error = form.error
  BY DEF SameRequests, OutcomeInv, FormTypeOK, FormType
<1>3. \/ form' = f
      \/ \E p, e : form' = [f EXCEPT !.preview = p, !.previewError = e, !.checking = FALSE]
  BY <1>1 DEF CheckFails, CheckAnswered
<1> HIDE DEF f
<1>4. SameRequests(form', form) /\ form'.error = form.error
  BY <1>2, <1>3 DEF FormType, SameRequests
<1>5. UNCHANGED api
  BY <1>1 DEF CheckFails, CheckAnswered
<1> QED BY <1>4, <1>5, FormStepKeepsOutcome

LEMMA RouteSelectKeepsOutcome ==
  ASSUME OutcomeInv, FormTypeOK', NEW id \in Presets, HandleRouteSelect(id)
  PROVE  OutcomeInv'
<1> DEFINE r == ROUTE_PRESETS[id]
           f == [form EXCEPT !.preset = id, !.error = "", !.result = 0,
                             !.origin = r.origin, !.destination = r.destination]
<1>1. id \in DOMAIN ROUTE_PRESETS
  BY PresetAssumption
<1>2. r.origin \in Waypoint /\ r.destination \in Waypoint
  <2>1. PICK from \in Waypoint, to \in Waypoint : r = Preset(from, to)
    BY <1>1, PresetPoints
  <2> HIDE DEF r
  <2> QED BY <2>1 DEF Preset
<1>3. f \in FormType
  BY <1>1, <1>2, ZenonT(40) DEF OutcomeInv, FormTypeOK, FormType, Messages
<1>4. SameRequests(f, form) /\ f.error = ""
  BY DEF HandleRouteSelect, Editing, SameRequests, OutcomeInv, FormTypeOK, FormType
<1>5. Show(f) /\ UNCHANGED api
  BY DEF HandleRouteSelect
<1> QED BY <1>3, <1>4, <1>5, EditKeepsOutcome

LEMMA MapClickKeepsOutcome ==
  ASSUME OutcomeInv, FormTypeOK', NEW p \in Points, HandleMapPointClick(p)
  PROVE  OutcomeInv'
<1> DEFINE g == [form EXCEPT !.preset = "", !.error = "", !.result = 0]
           f == Clicked(g, p)
<1>1. p \in Waypoint
  BY PointAssumption
<1>2. g \in FormType /\ g.error = ""
  BY ZenonT(40) DEF OutcomeInv, FormTypeOK, FormType, Messages
<1>3. form.result = 0
  BY DEF HandleMapPointClick, Editing
<1>4. SameRequests(g, form)
  BY <1>3 DEF SameRequests, OutcomeInv, FormTypeOK, FormType
<1> HIDE DEF g
<1>5. \E o, d \in Waypoint \cup {""} :
        f = [g EXCEPT !.origin = o, !.destination = d]
  <2>1. g.origin \in Waypoint \cup {""} /\ g.destination \in Waypoint \cup {""}
    BY <1>2 DEF FormType
  <2>2. /\ [g EXCEPT !.origin = p] = [g EXCEPT !.origin = p, !.destination = g.destination]
        /\ [g EXCEPT !.destination = p] = [g EXCEPT !.origin = g.origin, !.destination = p]
        /\ [g EXCEPT !.destination = ""] = [g EXCEPT !.origin = g.origin, !.destination = ""]
    BY <1>2 DEF FormType
  <2>3. f \in {[g EXCEPT !.origin = p], [g EXCEPT !.origin = "", !.destination = ""],
               [g EXCEPT !.destination = ""], [g EXCEPT !.destination = p]}
    BY Zenon DEF Clicked
  <2>4. "" \in Waypoint \cup {""} /\ p \in Waypoint \cup {""}
    BY <1>1
  <2> HIDE DEF f
  <2>5. CASE f = [g EXCEPT !.origin = p]
    BY <2>1, <2>2, <2>4, <2>5
  <2>6. CASE f = [g EXCEPT !.origin = "", !.destination = ""]
    BY <2>4, <2>6
  <2>7. CASE f = [g EXCEPT !.destination = ""]
    BY <2>1, <2>2, <2>4, <2>7
  <2>8. CASE f = [g EXCEPT !.destination = p]
    BY <2>1, <2>2, <2>4, <2>8
  <2> QED BY <2>3, <2>5, <2>6, <2>7, <2>8
<1>6. f \in FormType /\ SameRequests(f, g) /\ f.error = g.error
  <2> HIDE DEF f
  <2>1. PICK o, d \in Waypoint \cup {""} : f = [g EXCEPT !.origin = o, !.destination = d]
    BY <1>5
  <2> QED BY <1>2, <2>1 DEF FormType, SameRequests
<1>7. Show(f) /\ UNCHANGED api
  BY DEF HandleMapPointClick, g
<1>8. SameRequests(f, form)
  BY <1>4, <1>6 DEF SameRequests
<1> HIDE DEF f
<1> QED BY <1>2, <1>6, <1>7, <1>8, EditKeepsOutcome

LEMMA DatetimeKeepsOutcome ==
  ASSUME OutcomeInv, FormTypeOK', NEW time \in Times \cup {""}, SetDatetime(time)
  PROVE  OutcomeInv'
<1> DEFINE f == [form EXCEPT !.when = time]
<1>1. f \in FormType /\ SameRequests(f, form) /\ f.error = form.error
  BY ZenonT(40) DEF OutcomeInv, FormTypeOK, FormType, SameRequests
<1>2. Show(f) /\ UNCHANGED api
  BY DEF SetDatetime
<1> QED BY <1>1, <1>2, EditKeepsOutcome

\* A new request is nobody's cancellation.
LEMMA PostKeepsCalls ==
  ASSUME CallsSound, NEW b \in Ids, IsNext(b), SendPost(b), calls' = calls
  PROVE  CallsSound'
BY DEF CallsSound, ApiTypeOK, IsNext, Unused, SendPost, Life!Ask, Life!Becomes, Booked,
       Fates, Life!Fates

\* The service confirms, refuses and cancels.
LEMMA ServerStepFates ==
  ASSUME CallsSound, ServerStep
  PROVE  /\ CallsSound'
         /\ \A b \in Ids : /\ server[b] \in Final => server'[b] = server[b]
                           /\ server[b] \in Booked => server'[b] \in Booked
                           /\ server[b] = "CANCELLED" => server'[b] = "CANCELLED"
<1>1. PICK b \in Ids : Receive(b) \/ Settle(b) \/ HandleDelete(b)
  BY DEF ServerStep
<1>2. \E fate \in Fates : /\ server' = [server EXCEPT ![b] = fate]
                          /\ server[b] \notin Final
                          /\ server[b] \in Booked => fate = "CANCELLED"
  BY <1>1 DEF Receive, Settle, HandleDelete, Life!Receive, Life!Settle, Life!Becomes,
              CallsSound, ApiTypeOK, Fates, Life!Fates, Life!Statuses, Final, Booked
<1>3. calls' \subseteq calls
  BY <1>1 DEF Receive, Settle, HandleDelete
<1> QED BY <1>2, <1>3 DEF CallsSound, ApiTypeOK, Booked, Final

\* The button works only after the last answer, and only without a result.
LEMMA SubmitKeepsOutcome ==
  ASSUME OutcomeInv, FormTypeOK', NEW b \in Ids, HandleSubmit(b)
  PROVE  OutcomeInv'
<1>1. ~form.loading /\ form.result = 0 /\ form.awaits = {}
  BY DEF HandleSubmit, Editing, ButtonEnabled, OutcomeInv, RequestsSound
<1>2. /\ form'.awaits = {b} /\ form'.last = b /\ form'.loading
      /\ form'.result = 0 /\ form'.seen = form.seen /\ form'.error = ""
  BY <1>1, ZenonT(40) DEF HandleSubmit, OutcomeInv, FormTypeOK, FormType
<1>3. RequestsSound(form')
  BY <1>1, <1>2 DEF OutcomeInv, RequestsSound
<1>4. CallsSound'
  <2>1. CallsSound
    BY DEF OutcomeInv, RefusalsSound
  <2>2. SendPost(b) /\ IsNext(b) /\ calls' = calls
    BY DEF HandleSubmit
  <2> QED BY <2>1, <2>2, PostKeepsCalls
<1>5. RefusalsSound'
  BY <1>2, <1>4 DEF RefusalsSound
<1> QED BY <1>3, <1>5 DEF OutcomeInv

\* Of a rollback or a full slot is told only after a request that made no booking.
LEMMA AnswerKeepsOutcome ==
  ASSUME OutcomeInv, FormTypeOK', SubmitEnds
  PROVE  OutcomeInv'
<1>1. PICK b \in Ids : Confirmed(b) \/ Refused(b) \/ NoAnswer(b)
  BY DEF SubmitEnds
<1>2. b \in form.awaits /\ b # 0 /\ UNCHANGED api
  <2>1. b \in form.awaits /\ UNCHANGED api
    BY <1>1 DEF Confirmed, Refused, NoAnswer
  <2>2. b # 0
    BY BookingAssumption DEF Ids
  <2> QED BY <2>1, <2>2
<1>3. form.last = b /\ form.awaits = {b} /\ form.seen = {} /\ form.result = 0
  BY <1>2 DEF OutcomeInv, RequestsSound
<1>4. form'.awaits = {} /\ form'.last = b /\ form'.loading = FALSE
  BY <1>1, <1>3, ZenonT(40)
    DEF Confirmed, Refused, NoAnswer, Answer, OutcomeInv, FormTypeOK, FormType
<1>5. CASE Confirmed(b)
  <2>1. form'.result = b /\ form'.seen = {b} /\ form'.error = form.error
    BY <1>3, <1>5, ZenonT(40) DEF Confirmed, Answer, OutcomeInv, FormTypeOK, FormType
  <2>2. server[b] # "REJECTED"
    BY <1>5 DEF Confirmed
  <2>3. RefusalsSound'
    BY <1>2, <1>3, <1>4, <2>1, <2>2
    DEF OutcomeInv, RefusalsSound, CallsSound, ApiTypeOK, api
  <2> QED BY <1>2, <1>4, <2>1, <2>3 DEF OutcomeInv, RequestsSound
<1>6. CASE Refused(b) \/ NoAnswer(b)
  <2>1. form'.result = 0 /\ form'.seen = {}
    BY <1>3, <1>6, ZenonT(40) DEF Refused, NoAnswer, Answer, OutcomeInv, FormTypeOK, FormType
  <2>2. form'.error \in {"rolledBack", "full"} => server[b] = "REJECTED"
    <3>1. CASE Refused(b)
      <4>1. PICK kind \in {"503", "409 peer", "409", "other"} :
                /\ kind \in {"409 peer", "409"} => server[b] = "REJECTED"
                /\ form' = [Answer(b) EXCEPT !.error = Message(kind)]
        BY <3>1 DEF Refused
      <4>2. form'.error = Message(kind)
        BY <4>1 DEF Answer, OutcomeInv, FormTypeOK, FormType
      <4>3. Message(kind) \in {"rolledBack", "full"} => kind \in {"409 peer", "409"}
        BY DEF Message
      <4> QED BY <4>1, <4>2, <4>3
    <3>2. CASE NoAnswer(b)
      <4>1. form'.error = "down"
        BY <3>2 DEF NoAnswer, Answer, Message, OutcomeInv, FormTypeOK, FormType
      <4> QED BY <4>1
    <3> QED BY <1>6, <3>1, <3>2
  <2>3. RefusalsSound'
    BY <1>2, <1>3, <1>4, <2>2
    DEF OutcomeInv, RefusalsSound, CallsSound, ApiTypeOK, api
  <2> QED BY <1>4, <2>1, <2>3 DEF OutcomeInv, RequestsSound
<1> QED BY <1>1, <1>5, <1>6

\* The service settles bookings and takes back nothing.
LEMMA ServerKeepsOutcome ==
  ASSUME OutcomeInv, ServerStep, UNCHANGED form
  PROVE  OutcomeInv'
<1>1. /\ CallsSound'
      /\ \A b \in Ids : server[b] \in Final => server'[b] = server[b]
  BY ServerStepFates DEF OutcomeInv, RefusalsSound
<1>2. RefusalsSound'
  BY <1>1 DEF OutcomeInv, RefusalsSound, Final
<1> QED BY <1>2 DEF OutcomeInv, FormTypeOK

LEMMA OutcomeShows == OutcomeInv => OutcomeIsTold
<1> SUFFICES ASSUME OutcomeInv PROVE OutcomeIsTold
  OBVIOUS
<1>1. form.awaits \in {{}, {form.last}} /\ form.seen \in {{}, {form.result}}
  BY DEF OutcomeInv, RequestsSound
<1>2. SurplusIsUnseen
  <2>1. Cardinality({}) = 0
    BY FS_EmptySet
  <2>2. Cardinality({form.last}) = 1 /\ Cardinality({form.result}) = 1
    BY FS_Singleton
  <2> QED BY <1>1, <2>1, <2>2 DEF SurplusIsUnseen
<1>3. ToldFailedIsFailed
  BY DEF OutcomeInv, RefusalsSound, ToldFailedIsFailed
<1> QED BY <1>2, <1>3 DEF OutcomeIsTold

\* A visit of the page never waits for two bookings and is told of at most one,
\* and what it says was rolled back or found full made no booking.
THEOREM OutcomeHolds == BookSpec => []OutcomeIsTold
<1>1. ApiInit /\ FormInit => OutcomeInv
  <2> SUFFICES ASSUME ApiInit, FormInit PROVE OutcomeInv
    OBVIOUS
  <2>1. PICK time \in Times : form = CheckRoute(Blank(time))
    BY DEF FormInit
  <2>2. Blank(time) \in FormType
    BY BlankType
  <2>3. FormTypeOK
    BY <2>1, <2>2, CheckRouteSound DEF FormTypeOK
  <2>4. /\ form.awaits = {} /\ ~form.loading /\ form.last = 0
        /\ form.result = 0 /\ form.seen = {} /\ form.error = ""
    BY <2>1, <2>2, CheckSameRequests DEF Blank, SameRequests
  <2> QED BY <2>3, <2>4 DEF OutcomeInv, RequestsSound, RefusalsSound, CallsSound, ApiTypeOK,
              ApiInit, Life!Init, Fates, Life!Fates
<1>2. OutcomeInv /\ FormTypeOK' /\ [BookNext]_bookVars => OutcomeInv'
  <2> SUFFICES ASSUME OutcomeInv, FormTypeOK', [BookNext]_bookVars PROVE OutcomeInv'
    OBVIOUS
  <2>1. CASE BookEvents
    BY <2>1, RouteSelectKeepsOutcome, MapClickKeepsOutcome, DatetimeKeepsOutcome,
       SubmitKeepsOutcome DEF BookEvents
  <2>2. CASE UNCHANGED bookVars
    BY <2>2, FormStepKeepsOutcome DEF bookVars, SameRequests
  <2> QED BY <2>1, <2>2, CheckEndKeepsOutcome, AnswerKeepsOutcome, ServerKeepsOutcome
          DEF BookNext
<1>3. FormInv => FormTypeOK
  BY DEF FormInv
<1> QED BY <1>1, <1>2, <1>3, OutcomeShows, FormInvHolds, PTL DEF BookSpec
=============================================================================
