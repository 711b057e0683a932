----------------------------- MODULE LegacyApp -------------------------------
(***************************************************************************)
(* The first browser application (App.jsx and the .jsx pages), which the   *)
(* build no longer mounts: one tab, a signed-in user, and its pages before *)
(* the same booking service.  Its list of bookings runs the operations of  *)
(* MyJourneys; a load that fails hides the list.  Its booking form has no  *)
(* route check.                                                            *)
(***************************************************************************)
EXTENDS MyJourneys, Sequences

CONSTANTS
    Offers,         \* the presets that are clicked
    LegacyRoles,    \* the roles people sign in with
    MaxSignIns      \* bound: forms of the session submitted

VARIABLES
    saved,      \* localStorage token and user, always written together
    who,        \* the role of the user of AuthProvider, which requests carry
    route,      \* the path
    gate,       \* the login or register form, and its request
    signIns,    \* submits of these forms
    draft,      \* the mounted booking form
    lookup,     \* the mounted look-up of a plate
    stats       \* the mounted dashboard

legacyPages == <<gate, draft, list, lookup, stats>>
legacyOnly == <<saved, who, route, gate, signIns, draft, lookup, stats>>
legacyVars == <<api, list, legacyOnly>>

Nobody == "nobody"
Drivers == {"bookings/new", "bookings"}
Routes == Drivers \cup {"login", "register", "verify", "dashboard"}

\* Coordinates in 1/10000 degree; cross: the preset's note says "Cross-region".
Trip(olat, olng, dlat, dlng, cross) ==
    [o |-> <<olat, olng>>, d |-> <<dlat, dlng>>, cross |-> cross]

PRESETS == <<
    Trip(533498, -62603, 518985, -84756, FALSE),    \* Dublin, Cork
    Trip(533498, -62603, 524862, -18904, TRUE),     \* Dublin, Birmingham
    Trip(515074, -1278, 534808, -22426, FALSE),     \* London, Manchester
    Trip(488566, 23522, 457640, 48357, FALSE),      \* Paris, Lyon
    Trip(515074, -1278, 488566, 23522, TRUE),       \* London, Paris
    Trip(518985, -84756, 488566, 23522, TRUE)>>     \* Cork, Paris

ASSUME OfferAssumption == Offers \subseteq DOMAIN PRESETS
ASSUME LegacyAssumption ==
    /\ LegacyRoles \subseteq {"driver", "enforcement_agent", "admin"}
    /\ MaxSignIns \in Nat

NoGate == [busy |-> FALSE, error |-> FALSE]
NoDraft == [trip |-> 0, edited |-> FALSE, loading |-> FALSE, error |-> FALSE,
            result |-> 0, asked |-> 0, awaits |-> 0]
NoLookup == [loading |-> FALSE, error |-> FALSE, result |-> "none"]

LegacyTypeOK ==
    /\ saved \in LegacyRoles \cup {Nobody} /\ who \in LegacyRoles \cup {Nobody}
    /\ route \in Routes
    /\ gate \in [busy : BOOLEAN, error : BOOLEAN]
    /\ signIns \in 0..MaxSignIns
    /\ draft \in [trip : {0} \cup DOMAIN PRESETS,  \* 0: coordinates typed in
                  edited : BOOLEAN,     \* history: not the trip of the request
                  loading : BOOLEAN, error : BOOLEAN, result : {0} \cup Ids,
                  asked : {0} \cup DOMAIN PRESETS, awaits : {0} \cup Ids]
    /\ lookup \in [loading : BOOLEAN, error : BOOLEAN,
                   result : {"none", "AUTHORIZED", "NOT AUTHORIZED"}]
    /\ stats \in {"loading", "shown", "error"}

-----------------------------------------------------------------------------
(* Session and routes *)

\* Where the router moves to r, every page starts anew.
LegacyMount(r) ==
    /\ route' = r
    /\ gate' = NoGate /\ draft' = NoDraft /\ lookup' = NoLookup
    /\ list' = IF r = "bookings" THEN OpenedList ELSE Unlisted
    /\ stats' = "loading"

PrivateRoute(u, roles, r) ==
    CASE u = Nobody -> "login" [] u \in roles -> r [] OTHER -> "bookings/new"

\* The table of routes: who may be there, and where a tab at r ends up.
Permits(r) ==
    CASE r \in {"login", "register"} -> LegacyRoles \cup {Nobody}
      [] r \in Drivers -> LegacyRoles
      [] r = "verify" -> LegacyRoles \cap {"enforcement_agent", "admin"}
      [] r = "dashboard" -> LegacyRoles \cap {"admin"}

LegacyTarget(u, r) == IF u \in Permits(r) THEN r ELSE PrivateRoute(u, Permits(r), r)

At(r) == route = r /\ LegacyTarget(who, r) = r

LegacyRedirect ==
    /\ LegacyTarget(who, route) # route
    /\ LegacyMount(LegacyTarget(who, route))
    /\ UNCHANGED <<api, saved, who, signIns>>

\* A document is loaded; the provider reads localStorage before it renders.
\* Unknown paths lead to /login.
OpenDocument(r) ==
    /\ who' = saved
    /\ LegacyMount(r)
    /\ UNCHANGED <<api, saved, signIns>>

\* The links of the bar, of the forms and of the list.
LegacyLinks ==
    CASE who = "driver" -> Drivers
      [] who = "enforcement_agent" -> {"verify"}
      [] who = "admin" -> {"verify", "dashboard"}
      [] OTHER -> {"login", "register"}

LegacyFollow(r) ==
    /\ r \in LegacyLinks /\ r # route /\ At(route)
    /\ LegacyMount(r)
    /\ UNCHANGED <<api, saved, who, signIns>>

Logout ==
    /\ who # Nobody
    /\ saved' = Nobody /\ who' = Nobody
    /\ LegacyMount("login")
    /\ UNCHANGED <<api, signIns>>

\* handleSubmit of either form, whose button is disabled while it runs.
SubmitGate(r) ==
    /\ route = r /\ ~gate.busy /\ signIns < MaxSignIns
    /\ gate' = [busy |-> TRUE, error |-> FALSE]
    /\ signIns' = signIns + 1
    /\ UNCHANGED <<api, saved, who, route, draft, list, lookup, stats>>

SubmitLogin == SubmitGate("login")
SubmitRegister == SubmitGate("register")

\* login() of the provider, and the page each role lands on.
EnterAs(role, r) ==
    /\ saved' = role /\ who' = role
    /\ LegacyMount(r)
    /\ UNCHANGED <<api, signIns>>

LoginAccepted(role) ==
    /\ route = "login" /\ gate.busy
    /\ EnterAs(role, CASE role = "admin" -> "dashboard"
                       [] role = "enforcement_agent" -> "verify"
                       [] OTHER -> "bookings/new")

\* Every new account goes to the booking form.
RegisterAccepted(role) ==
    /\ route = "register" /\ gate.busy
    /\ EnterAs(role, "bookings/new")

GateFails ==
    /\ gate.busy
    /\ gate' = [busy |-> FALSE, error |-> TRUE]
    /\ UNCHANGED <<api, saved, who, route, signIns, draft, list, lookup, stats>>

\* A 401 to any request of the page: the session is cleared, /login loaded.
LegacyUnauthorized ==
    /\ \/ gate.busy \/ draft.loading \/ lookup.loading \/ Running # {}
       \/ (route = "dashboard" /\ stats = "loading")
    /\ saved' = Nobody /\ who' = Nobody
    /\ LegacyMount("login")
    /\ UNCHANGED <<api, signIns>>

-----------------------------------------------------------------------------
(* Booking *)

InBox(p, box) == /\ box.lat[1] <= p[1] /\ p[1] <= box.lat[2]
                 /\ box.lng[1] <= p[2] /\ p[2] <= box.lng[2]

GetRegion(p) ==
    CASE InBox(p, [lat |-> <<510000, 555000>>, lng |-> <<-105000, -60000>>]) -> "IE"
      [] InBox(p, [lat |-> <<499000, 587000>>, lng |-> <<-57000, 18000>>]) -> "UK"
      [] OTHER -> "FR"

IsMultiRegion(trip) == GetRegion(PRESETS[trip].o) # GetRegion(PRESETS[trip].d)

\* Mutant of Applied: the result of the last request stays.
AppliedKeepsResult(i) ==
    [draft EXCEPT !.trip = i, !.edited = draft.loading, !.error = FALSE]

Applied(i) == [draft EXCEPT !.trip = i, !.edited = draft.loading,
                            !.result = 0, !.error = FALSE]

ApplyPreset(i) ==
    /\ At("bookings/new") /\ draft' = Applied(i)
    /\ UNCHANGED <<api, saved, who, route, gate, signIns, list, lookup, stats>>

\* onChange of a coordinate: preset, result and error stay as they are.
TypeCoordinate ==
    /\ At("bookings/new") /\ draft.trip # 0
    /\ draft' = [draft EXCEPT !.trip = 0, !.edited = TRUE]
    /\ UNCHANGED <<api, saved, who, route, gate, signIns, list, lookup, stats>>

RequestBooking(b) ==
    /\ At("bookings/new") /\ ~draft.loading /\ IsNext(b)
    /\ SendPost(b)
    /\ draft' = [draft EXCEPT !.loading = TRUE, !.error = FALSE, !.result = 0,
                    !.asked = draft.trip, !.edited = FALSE, !.awaits = b]
    /\ UNCHANGED <<calls, saved, who, route, gate, signIns, list, lookup, stats>>

\* The answer: a booking, or an error status, or nothing for 15 s.
BookingAnswered ==
    LET b == draft.awaits IN
    /\ draft.loading
    /\ \/ /\ server[b] \in {"CONFIRMED", "CANCELLED"}
          /\ draft' = [draft EXCEPT !.loading = FALSE, !.awaits = 0, !.result = b]
       \/ draft' = [draft EXCEPT !.loading = FALSE, !.awaits = 0, !.error = TRUE]
    /\ UNCHANGED <<api, saved, who, route, gate, signIns, list, lookup, stats>>

-----------------------------------------------------------------------------
(* The other pages *)

\* A load that failed hides the list with its buttons until the page is left.
LegacyList == /\ At("bookings") /\ ~list.error /\ ListEvents
              /\ UNCHANGED legacyOnly

LegacyListAnswers(s) == /\ At("bookings") /\ ListAnswers(s)
                        /\ UNCHANGED legacyOnly

LegacyLookup ==
    /\ At("verify")
    /\ \/ ~lookup.loading /\ lookup' = [NoLookup EXCEPT !.loading = TRUE]
       \/ lookup.loading /\ \E verdict \in {"AUTHORIZED", "NOT AUTHORIZED"} :
            lookup' = [NoLookup EXCEPT !.result = verdict]
       \/ lookup.loading /\ lookup' = [NoLookup EXCEPT !.error = TRUE]
    /\ UNCHANGED <<api, saved, who, route, gate, signIns, draft, list, stats>>

LegacyStats ==
    /\ At("dashboard") /\ stats = "loading"
    /\ stats' \in {"shown", "error"}
    /\ UNCHANGED <<api, saved, who, route, gate, signIns, draft, list, lookup>>

-----------------------------------------------------------------------------

LegacyInit ==
    /\ ApiInit /\ list = Unlisted
    /\ saved = Nobody /\ who = Nobody /\ route = "login"
    /\ gate = NoGate /\ signIns = 0
    /\ draft = NoDraft /\ lookup = NoLookup /\ stats = "loading"

LegacyNext ==
    \/ LegacyRedirect \/ \E r \in Routes : OpenDocument(r) \/ LegacyFollow(r)
    \/ SubmitLogin \/ SubmitRegister \/ GateFails \/ Logout \/ LegacyUnauthorized
    \/ \E role \in LegacyRoles : LoginAccepted(role) \/ RegisterAccepted(role)
    \/ \E i \in Offers : ApplyPreset(i)
    \/ TypeCoordinate \/ BookingAnswered \/ \E b \in Ids : RequestBooking(b)
    \/ LegacyList \/ \E s \in Slots : LegacyListAnswers(s)
    \/ LegacyLookup \/ LegacyStats
    \/ ServerStep /\ UNCHANGED <<list, legacyOnly>>

-----------------------------------------------------------------------------
(* Properties *)

\* A result under the form is the answer for the trip in the form, unless
\* the driver typed over it or changed it while the request ran.
ResultFitsForm ==
    draft.result # 0 /\ ~draft.edited => draft.asked = draft.trip

\* The notice "Cross-region journey" and the note on the preset, which use a
\* box of coordinates and a text, agree on every preset.
NoticeAgrees == draft.trip # 0 => IsMultiRegion(draft.trip) = PRESETS[draft.trip].cross

\* Wherever a document is opened and whoever signs in, one redirect leads to
\* a page the table of routes has for that role.
LegacySettles == who \in Permits(LegacyTarget(who, route))

\* The three of them.
LegacyIsSound == ResultFitsForm /\ NoticeAgrees /\ LegacySettles
=============================================================================
