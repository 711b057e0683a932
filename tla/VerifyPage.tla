----------------------------- MODULE VerifyPage ------------------------------
(***************************************************************************)
(* The enforcement agent's page (pages/VerifyPlate.tsx): one look-up at a  *)
(* time, its verdict, and the five last verdicts.                          *)
(***************************************************************************)
EXTENDS Naturals, Sequences

CONSTANTS
    Plates,         \* plates that are entered
    MaxLookups      \* bound: look-ups of a visit

ASSUME PlateAssumption == "" \notin Plates
ASSUME LookupAssumption == MaxLookups \in Nat

VARIABLE desk           \* the state of the mounted page

NoVerdict == [plate |-> "", ok |-> FALSE]

DeskTypeOK == desk \in
    [plate : Plates \cup {""}, asked : Plates \cup {""},
     loading : BOOLEAN, error : BOOLEAN,
     result : {NoVerdict} \cup [plate : Plates, ok : BOOLEAN],
     recent : Seq(1..MaxLookups),   \* RecentCheck: which answer it was
     lookups : 0..MaxLookups,       \* submits of this visit
     answers : 0..MaxLookups]       \* of which answered

EmptyDesk == [plate |-> "", asked |-> "", loading |-> FALSE, error |-> FALSE,
              result |-> NoVerdict, recent |-> <<>>, lookups |-> 0, answers |-> 0]

TypePlate(p) ==
    /\ p # desk.plate
    /\ desk' = [desk EXCEPT !.plate = p]

\* Mutant of Asking: the last verdict stays while the next is awaited.
AskingKeepsResult(d) == [d EXCEPT !.loading = TRUE, !.error = FALSE,
                                  !.asked = d.plate]

Asking(d) == [d EXCEPT !.loading = TRUE, !.error = FALSE, !.result = NoVerdict,
                       !.asked = d.plate]

\* The form: the plate is required, the button is disabled during a look-up.
CheckNow ==
    /\ ~desk.loading /\ desk.plate # "" /\ desk.lookups < MaxLookups
    /\ desk' = [Asking(desk) EXCEPT !.lookups = @ + 1]

\* [new, ...prev.slice(0, 4)]
Remember(recent, n) == <<n>> \o SubSeq(recent, 1, IF Len(recent) < 4
                                                 THEN Len(recent) ELSE 4)

LookupAnswered(ok) ==
    /\ desk.loading
    /\ desk' = [desk EXCEPT !.loading = FALSE, !.answers = @ + 1,
                    !.result = [plate |-> desk.asked, ok |-> ok],
                    !.recent = Remember(@, desk.answers + 1)]

LookupFails ==
    /\ desk.loading
    /\ desk' = [desk EXCEPT !.loading = FALSE, !.error = TRUE]

\* The card of the verdict.
Card(d) == CASE d.result = NoVerdict -> "none"
             [] d.result # NoVerdict /\ d.result.ok -> "AUTHORIZED"
             [] OTHER -> "NOT AUTHORIZED"

DeskAnswers == LookupFails \/ \E ok \in BOOLEAN : LookupAnswered(ok)
DeskEvents == CheckNow \/ \E p \in Plates : TypePlate(p)

-----------------------------------------------------------------------------
(* Properties *)

\* The card is the verdict of the look-up submitted last: it is gone as soon
\* as another plate is asked for, and stays gone when that look-up fails.  The
\* list beneath has the last five answers, the newest first, and no failures.
VerdictIsLatest ==
    /\ Card(desk) # "none" =>
        ~desk.loading /\ ~desk.error /\ desk.result.plate = desk.asked
    /\ LET n == desk.answers
       IN  desk.recent = [i \in 1..(IF n < 5 THEN n ELSE 5) |-> n + 1 - i]
=============================================================================
