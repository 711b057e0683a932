-------------------------- MODULE NotificationsPage --------------------------
(***************************************************************************)
(* The list of notifications (pages/Notifications.tsx).  Every change of   *)
(* the user id or of the limit, and the button "Refresh", loads it again;  *)
(* nothing keeps an earlier load from being answered last.                 *)
(***************************************************************************)
EXTENDS Naturals, Sequences, SequencesExt

CONSTANTS
    Readers,        \* user ids that are entered
    Me,             \* the id of the signed-in user
    IsAdmin,        \* user.role = 'admin'
    Limits,         \* choices of the limit
    MaxLoads        \* bound: loads under way

ASSUME ReaderAssumption == Me \in Readers /\ "" \notin Readers
ASSUME AdminAssumption == IsAdmin \in BOOLEAN
ASSUME LimitAssumption == 20 \in Limits /\ Limits \subseteq {10, 20, 50, 100}
ASSUME LoadAssumption == MaxLoads \in Nat

VARIABLE inbox          \* the state of the mounted page

Query == [of : Readers, limit : Limits]
Nothing == [of |-> "", limit |-> 20]

InboxTypeOK == inbox \in
    [target : Readers \cup {""}, limit : Limits,
     loading : BOOLEAN, error : BOOLEAN,
     items : Query \cup {Nothing},     \* the query they answer
     loads : Seq(Query),               \* loads under way, oldest first
     overtaken : BOOLEAN]              \* history: the load begun last was
                                       \* answered before one for another query

\* Mutant of Load: nothing is loaded when the id is cleared and typed again.
LoadOtherOnly(p) ==
    IF p.target \in {"", p.items.of} THEN p
    ELSE [p EXCEPT !.loading = TRUE, !.error = FALSE,
                   !.loads = Append(@, [of |-> p.target, limit |-> p.limit]),
                   !.overtaken = FALSE]

\* load(): nothing without an id.
Load(p) ==
    IF p.target = "" THEN p
    ELSE [p EXCEPT !.loading = TRUE, !.error = FALSE,
                   !.loads = Append(@, [of |-> p.target, limit |-> p.limit]),
                   !.overtaken = FALSE]

ClosedInbox == [target |-> Me, limit |-> 20, loading |-> TRUE, error |-> FALSE,
                items |-> Nothing, loads |-> <<>>, overtaken |-> FALSE]

\* The first effect sets the id that is there; the second one loads.
OpenedInbox == Load(ClosedInbox)

MayLoad == Len(inbox.loads) < MaxLoads

\* The effect on [targetUserId, limit]: it runs only when one has changed.
ReloadOnChange(p) ==
    IF <<p.target, p.limit>> = <<inbox.target, inbox.limit>> THEN p ELSE Load(p)

EnterUserId(u) ==
    /\ IsAdmin /\ MayLoad
    /\ inbox' = ReloadOnChange([inbox EXCEPT !.target = u])

ChooseLimit(n) ==
    /\ MayLoad
    /\ inbox' = ReloadOnChange([inbox EXCEPT !.limit = n])

Refresh == MayLoad /\ inbox' = Load(inbox)

\* The i-th load is the one begun last, and one for another query is under way.
Overtakes(i) ==
    /\ i = Len(inbox.loads)
    /\ \E j \in DOMAIN inbox.loads : inbox.loads[j] # inbox.loads[i]

\* finally { setLoading(false) }, though later loads may still be under way.
Taken(i) ==
    [inbox EXCEPT !.loads = RemoveAt(@, i), !.loading = FALSE,
                  !.overtaken = @ \/ Overtakes(i)]

\* The i-th oldest load is answered.
NotificationsAnswered(i) ==
    /\ i \in DOMAIN inbox.loads
    /\ inbox' = [Taken(i) EXCEPT !.items = inbox.loads[i]]

NotificationsFail(i) ==
    /\ i \in DOMAIN inbox.loads
    /\ inbox' = [Taken(i) EXCEPT !.error = TRUE]

\* What the list area shows.
InboxView(p) ==
    CASE p.loading -> "loading"
      [] ~p.loading /\ p.items = Nothing -> "No notifications yet"
      [] OTHER -> "items"

InboxAnswers == \E i \in 1..MaxLoads :
    NotificationsAnswered(i) \/ NotificationsFail(i)

InboxEvents ==
    \/ \E u \in Readers \cup {""} : EnterUserId(u)
    \/ \E n \in Limits : ChooseLimit(n)
    \/ Refresh

-----------------------------------------------------------------------------
(* Properties *)

\* No load runs, none has failed since the last one began, and that one was
\* not answered before a load for another query.
AtRest == inbox.loads = <<>> /\ ~inbox.error /\ ~inbox.overtaken

\* At rest the list is the one of the id and limit on the screen, whatever
\* else was answered out of order.  (Where the load begun last overtakes one
\* for another id, the page ends up with that one's list.)
ShowsWhoIsAsked ==
    AtRest /\ inbox.target # "" /\ InboxView(inbox) = "items" =>
        inbox.items = [of |-> inbox.target, limit |-> inbox.limit]
=============================================================================
