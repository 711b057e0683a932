--------------------------- MODULE FrontendProofs ---------------------------
(***************************************************************************)
(* Proofs about the pages of the browser, one section for each, and about  *)
(* the whole frontend: whichever application a document shows, and however *)
(* its pages, the service and the answers interleave, for any numbers of   *)
(* bookings, loads, look-ups, reports and cancellations.                   *)
(***************************************************************************)
EXTENDS Frontend, BookJourneyProofs, SequenceTheorems, WellFoundedInduction

-----------------------------------------------------------------------------
(* The sidebar of the component library (components/ui/sidebar.tsx) *)

\* The layout is the one last reported.
LayoutReported == bar.listening => bar.mobile = bar.reported

\* What the parent has yet to decide on is what the cookie says, and where
\* there is nobody to ask, the cookie is the provider's own state.
CookieFollows ==
    /\ bar.cookie \in {{}, {TRUE}, {FALSE}}
    /\ ~bar.told => bar.asked = {}
    /\ bar.asked # {} => bar.asked = bar.cookie
    /\ ~bar.told /\ bar.cookie # {} => bar.cookie = {bar.own}
    /\ bar.told /\ bar.cookie # {} /\ bar.asked = {} /\ ~bar.strayed =>
            bar.cookie = {bar.prop}

SidebarInv == SidebarTypeOK /\ LayoutReported /\ CookieFollows

\* A toggle, of whatever render, keeps the cookie with the state.
LEMMA ToggledKeepsInv ==
    ASSUME SidebarInv, NEW toggle \in Closure, bar' = Toggled(bar, toggle)
    PROVE  SidebarInv'
<1> USE DEF SidebarInv
<1>1. CASE toggle.mobile
  <2>1. bar' = [bar EXCEPT !.openMobile = ~@]
    BY <1>1, Zenon DEF Toggled
  <2>2. SidebarTypeOK'
    BY <2>1 DEF SidebarTypeOK
  <2>3. LayoutReported' /\ CookieFollows'
    BY <2>1 DEF SidebarTypeOK, LayoutReported, CookieFollows
  <2> QED BY <2>2, <2>3
<1>2. CASE ~toggle.mobile
  <2>1. PICK open \in BOOLEAN : bar' = SetOpen(bar, open)
    BY <1>2, Zenon DEF Toggled
  <2>2. CASE bar.told
    <3>1. bar' = [bar EXCEPT !.asked = {open}, !.cookie = {open}]
      BY <2>1, <2>2 DEF SetOpen, SidebarTypeOK
    <3>2. SidebarTypeOK'
      <4>1. {open} \in SUBSET BOOLEAN
        OBVIOUS
      <4> QED BY <3>1, <4>1 DEF SidebarTypeOK
    <3>3. LayoutReported' /\ CookieFollows'
      BY <2>2, <3>1 DEF SidebarTypeOK, LayoutReported, CookieFollows
    <3> QED BY <3>2, <3>3
  <2>3. CASE ~bar.told
    <3>1. bar' = [bar EXCEPT !.own = open, !.cookie = {open}]
      BY <2>1, <2>3 DEF SetOpen, SidebarTypeOK
    <3>2. SidebarTypeOK'
      <4>1. {open} \in SUBSET BOOLEAN
        OBVIOUS
      <4> QED BY <3>1, <4>1 DEF SidebarTypeOK
    <3>3. LayoutReported' /\ CookieFollows'
      BY <2>3, <3>1 DEF SidebarTypeOK, LayoutReported, CookieFollows
    <3> QED BY <3>2, <3>3
  <2> QED BY <2>2, <2>3
<1> QED BY <1>1, <1>2

\* Every step.
LEMMA SidebarStep == SidebarInv /\ [SidebarNext]_bar => SidebarInv'
<1> SUFFICES ASSUME SidebarInv, [SidebarNext]_bar PROVE SidebarInv'
  OBVIOUS
<1> USE DEF SidebarInv
<1>1. Current(bar) \in Closure /\ bar.shortcut \in Closure
  BY DEF SidebarTypeOK, Current, Closure, Open
<1>2. CASE Resize \/ UseIsMobile \/ OnChange
  <2>1. SidebarTypeOK'
    BY <1>2, ZenonT(40) DEF Resize, UseIsMobile, OnChange, SidebarTypeOK
  <2>2. LayoutReported' /\ CookieFollows'
    BY <1>2, ZenonT(40)
      DEF Resize, UseIsMobile, OnChange, SidebarTypeOK, LayoutReported, CookieFollows
  <2> QED BY <2>1, <2>2
<1>3. CASE SidebarTrigger \/ SidebarRail \/ HandleKeyDown
  BY <1>1, <1>3, ToggledKeepsInv DEF SidebarTrigger, SidebarRail, HandleKeyDown
<1>4. CASE CloseSheet \/ Rebind
  <2>1. SidebarTypeOK'
    BY <1>1, <1>4 DEF CloseSheet, Rebind, SidebarTypeOK
  <2>2. LayoutReported' /\ CookieFollows'
    BY <1>4 DEF CloseSheet, Rebind, SidebarTypeOK, LayoutReported, CookieFollows
  <2> QED BY <2>1, <2>2
<1>5. CASE ParentDecides
  <2>1. PICK open \in bar.asked :
          \/ bar' = [bar EXCEPT !.prop = open, !.asked = {}, !.strayed = FALSE]
          \/ bar' = [bar EXCEPT !.asked = {}, !.strayed = TRUE]
    BY <1>5 DEF ParentDecides
  <2>2. open \in BOOLEAN /\ bar.told /\ bar.asked = bar.cookie
    BY <2>1 DEF SidebarTypeOK, CookieFollows
  <2>3. SidebarTypeOK'
    BY <2>1, <2>2, ZenonT(40) DEF SidebarTypeOK
  <2>4. CASE bar' = [bar EXCEPT !.prop = open, !.asked = {}, !.strayed = FALSE]
    <3>1. bar.cookie = {open}
      BY <2>1, <2>2 DEF CookieFollows
    <3> QED BY <2>2, <2>4, <3>1 DEF SidebarTypeOK, LayoutReported, CookieFollows
  <2>5. CASE bar' = [bar EXCEPT !.asked = {}, !.strayed = TRUE]
    BY <2>2, <2>5 DEF SidebarTypeOK, LayoutReported, CookieFollows
  <2> QED BY <2>1, <2>3, <2>4, <2>5
<1>6. CASE ParentMoves
  <2>1. bar' = [bar EXCEPT !.prop = ~bar.prop, !.strayed = TRUE]
    BY <1>6 DEF ParentMoves
  <2>2. SidebarTypeOK'
    BY <2>1 DEF SidebarTypeOK
  <2>3. LayoutReported' /\ CookieFollows'
    BY <2>1 DEF SidebarTypeOK, LayoutReported, CookieFollows
  <2> QED BY <2>2, <2>3
<1>7. CASE UNCHANGED bar
  <2>1. SidebarTypeOK'
    BY <1>7 DEF SidebarTypeOK
  <2>2. LayoutReported' /\ CookieFollows'
    BY <1>7 DEF LayoutReported, CookieFollows
  <2> QED BY <2>1, <2>2
<1> QED BY <1>2, <1>3, <1>4, <1>5, <1>6, <1>7 DEF SidebarNext

LEMMA SidebarStarts == SidebarInit => SidebarInv
<1> SUFFICES ASSUME SidebarInit PROVE SidebarInv
  OBVIOUS
<1>1. PICK narrow, given, told, prop, own \in BOOLEAN, c \in Collapsibles :
        bar = FirstRender(narrow, c, given, told, prop, own)
  BY DEF SidebarInit
<1>2. SidebarTypeOK
  BY <1>1 DEF FirstRender, SidebarTypeOK, Closure
<1>3. LayoutReported /\ CookieFollows
  BY <1>1 DEF FirstRender, LayoutReported, CookieFollows
<1> QED BY <1>2, <1>3 DEF SidebarInv

LEMMA CookieShows == SidebarInv => CookieIsOpen
<1> SUFFICES ASSUME SidebarInv PROVE CookieIsOpen
  OBVIOUS
<1> QED
  BY DEF SidebarInv, SidebarTypeOK, LayoutReported, CookieFollows, CookieIsOpen, Open

\* A click on the trigger, or the bound shortcut, changes what is seen.
LEMMA ToggleShows == SidebarInv => TogglesAreSeen
<1> SUFFICES ASSUME SidebarInv, bar' = Toggled(bar, Current(bar)),
                    bar.mobile \/ (~bar.narrow /\ ~bar.given /\ ~bar.told),
                    bar.collapsible # "none"
             PROVE  SidebarView(bar') # SidebarView(bar)
  BY DEF TogglesAreSeen, SidebarTrigger, HandleKeyDown
<1>1. CASE bar.mobile
  <2>1. bar' = [bar EXCEPT !.openMobile = ~@]
    BY <1>1 DEF Toggled, Current
  <2> QED BY <1>1, <2>1 DEF SidebarInv, SidebarTypeOK, SidebarView
<1>2. CASE ~bar.mobile
  <2>1. bar' = [bar EXCEPT !.own = ~bar.own, !.cookie = {~bar.own}]
    BY <1>2 DEF Toggled, Current, SetOpen, Open, SidebarInv, SidebarTypeOK
  <2> QED BY <1>2, <2>1 DEF SidebarInv, SidebarTypeOK, SidebarView, Open, Collapsibles
<1> QED BY <1>1, <1>2

\* The cookie is what is open until a parent goes its own way, the layout is the
\* window's, and a click or the bound shortcut is seen (components/ui/sidebar.tsx).
THEOREM SidebarHolds == SidebarSpec => SidebarIsSound
<1>1. SidebarInv /\ [SidebarNext]_bar => [CookieIsOpen' /\ TogglesAreSeen]_bar
  <2>1. (SidebarInv => CookieIsOpen)'
    BY CookieShows, PTL
  <2> QED BY <2>1, SidebarStep, ToggleShows
<1> QED BY <1>1, SidebarStarts, SidebarStep, PTL DEF SidebarSpec, SidebarIsSound
-----------------------------------------------------------------------------
(* The look-up of a plate (pages/VerifyPlate.tsx) *)

\* The last five of n answers, the newest first.
LastFive(n) == [i \in 1..(IF n < 5 THEN n ELSE 5) |-> n + 1 - i]

LEMMA RememberLast ==
  ASSUME NEW n \in Nat
  PROVE  Remember(LastFive(n), n + 1) = LastFive(n + 1)
<1> DEFINE m == IF n < 5 THEN n ELSE 5
           k == IF n < 4 THEN n ELSE 4
           s == LastFive(n)
           old == SubSeq(s, 1, k)
<1>1. m \in 0..5 /\ k \in 0..4 /\ k <= m
  OBVIOUS
<1>2. s \in Seq(Nat) /\ Len(s) = m /\ \A i \in 1..m : s[i] = n + 1 - i
  <2>1. s = [i \in 1..m |-> n + 1 - i] /\ m \in Nat
    BY DEF LastFive
  <2>2. \A i \in 1..m : n + 1 - i \in Nat
    OBVIOUS
  <2> HIDE DEF m, s
  <2> QED BY <2>1, <2>2
<1>3. Remember(s, n + 1) = <<n + 1>> \o old
  <2>1. (IF Len(s) < 4 THEN Len(s) ELSE 4) = k
    BY <1>2
  <2> QED BY <2>1 DEF Remember
<1> HIDE DEF s
<1>4. old \in Seq(Nat) /\ Len(old) = k /\ \A i \in 1..k : old[i] = s[i]
  BY <1>1, <1>2, SMTT(30)
<1> HIDE DEF k, old
<1>5. /\ <<n + 1>> \o old \in Seq(Nat)
      /\ Len(<<n + 1>> \o old) = k + 1
      /\ (<<n + 1>> \o old)[1] = n + 1
      /\ \A i \in 2..(k + 1) : (<<n + 1>> \o old)[i] = old[i - 1]
  BY <1>1, <1>4
<1>6. \A i \in 1..(k + 1) : (<<n + 1>> \o old)[i] = n + 2 - i
  <2> SUFFICES ASSUME NEW i \in 1..(k + 1)
               PROVE  (<<n + 1>> \o old)[i] = n + 2 - i
    OBVIOUS
  <2>1. CASE i = 1
    BY <1>5, <2>1
  <2>2. CASE i # 1
    <3>1. i \in 2..(k + 1) /\ i - 1 \in 1..k /\ i - 1 \in 1..m
      BY <1>1, <2>2
    <3>2. (<<n + 1>> \o old)[i] = n + 1 - (i - 1)
      BY <1>2, <1>4, <1>5, <3>1
    <3>3. n + 1 - (i - 1) = n + 2 - i
      BY <1>1
    <3> QED BY <3>2, <3>3
  <2> QED BY <2>1, <2>2
<1>7. k + 1 = IF n + 1 < 5 THEN n + 1 ELSE 5
  BY DEF k
<1>8. LastFive(n + 1) = [i \in 1..(k + 1) |-> n + 2 - i]
  BY <1>7 DEF LastFive
<1>9. <<n + 1>> \o old = [i \in 1..(k + 1) |-> (<<n + 1>> \o old)[i]]
  BY <1>1, <1>5
<1>10. [i \in 1..(k + 1) |-> (<<n + 1>> \o old)[i]] = [i \in 1..(k + 1) |-> n + 2 - i]
  BY <1>6
<1> QED BY <1>3, <1>8, <1>9, <1>10 DEF s

\* While a look-up is under way there is neither verdict nor error, and every
\* verdict is that of the plate asked for last.
DeskInv ==
    /\ DeskTypeOK
    /\ desk.answers + (IF desk.loading THEN 1 ELSE 0) <= desk.lookups
    /\ desk.loading =>
        ~desk.error /\ desk.result = NoVerdict /\ desk.asked # ""
    /\ desk.result # NoVerdict => ~desk.error /\ desk.result.plate = desk.asked
    /\ desk.recent = LastFive(desk.answers)

\* The fields of the page, one by one.
LEMMA DeskFields ==
  ASSUME DeskTypeOK
  PROVE  /\ desk = [plate |-> desk.plate, asked |-> desk.asked,
                    loading |-> desk.loading, error |-> desk.error,
                    result |-> desk.result, recent |-> desk.recent,
                    lookups |-> desk.lookups, answers |-> desk.answers]
         /\ desk.plate \in Plates \cup {""} /\ desk.asked \in Plates \cup {""}
         /\ desk.loading \in BOOLEAN /\ desk.error \in BOOLEAN
         /\ desk.result \in {NoVerdict} \cup [plate : Plates, ok : BOOLEAN]
         /\ desk.recent \in Seq(1..MaxLookups)
         /\ desk.lookups \in 0..MaxLookups /\ desk.answers \in 0..MaxLookups
BY DEF DeskTypeOK

LEMMA DeskNumbers ==
  ASSUME DeskTypeOK
  PROVE  /\ desk.lookups \in Nat /\ desk.lookups <= MaxLookups
         /\ desk.answers \in Nat /\ desk.answers <= MaxLookups
<1>1. desk.lookups \in 0..MaxLookups /\ desk.answers \in 0..MaxLookups
  BY Zenon, DeskFields
<1> QED BY <1>1, LookupAssumption

LEMMA DeskMounted == desk = EmptyDesk => DeskInv
<1> SUFFICES ASSUME desk = EmptyDesk PROVE DeskInv
  OBVIOUS
<1>1. LastFive(0) = <<>>
  BY DEF LastFive
<1>2. <<>> \in Seq(1..MaxLookups) /\ 0 \in 0..MaxLookups
  BY LookupAssumption
<1>3. DeskTypeOK
  BY <1>2 DEF DeskTypeOK, EmptyDesk
<1>4. /\ ~desk.loading /\ desk.result = NoVerdict
      /\ desk.answers = 0 /\ desk.lookups = 0 /\ desk.recent = <<>>
  BY DEF EmptyDesk
<1>5. desk.answers + (IF desk.loading THEN 1 ELSE 0) <= desk.lookups
  BY <1>4
<1> QED BY <1>1, <1>3, <1>4, <1>5 DEF DeskInv

\* The list of the last verdicts holds numbers of answers of this visit.
LEMMA LastFiveType ==
  ASSUME NEW n \in Nat, NEW max \in Nat, n <= max
  PROVE  LastFive(n) \in Seq(1..max)
<1>1. \A i \in 1..(IF n < 5 THEN n ELSE 5) : n + 1 - i \in 1..max
  OBVIOUS
<1>2. LastFive(n) \in [1..(IF n < 5 THEN n ELSE 5) -> 1..max]
  BY <1>1 DEF LastFive
<1> QED BY <1>2

LEMMA CheckNowKeepsDesk ==
  ASSUME DeskInv, CheckNow PROVE DeskInv'
<1>1. DeskTypeOK /\ ~desk.loading /\ desk.plate # "" /\ desk.lookups < MaxLookups
  BY DEF DeskInv, CheckNow
<1>2. desk' = [plate |-> desk.plate, asked |-> desk.plate,
               loading |-> TRUE, error |-> FALSE, result |-> NoVerdict,
               recent |-> desk.recent, lookups |-> desk.lookups + 1,
               answers |-> desk.answers]
  BY <1>1, DeskFields DEF CheckNow, Asking
<1>3. desk.lookups + 1 \in 0..MaxLookups
  <2>1. /\ desk.lookups \in Nat /\ desk.lookups < MaxLookups
    BY <1>1, DeskNumbers
  <2> QED BY <2>1, LookupAssumption
<1>4. DeskTypeOK'
  BY <1>1, <1>2, <1>3, DeskFields DEF DeskTypeOK
<1>5. desk'.answers + (IF desk'.loading THEN 1 ELSE 0) <= desk'.lookups
  <2>1. desk.answers + 0 <= desk.lookups
    BY <1>1 DEF DeskInv
  <2>2. desk.answers \in Nat /\ desk.lookups \in Nat
    BY <1>1, DeskNumbers
  <2>3. /\ desk'.answers = desk.answers /\ desk'.lookups = desk.lookups + 1
        /\ desk'.loading
    BY <1>2
  <2> QED BY <2>1, <2>2, <2>3
<1> QED BY <1>1, <1>2, <1>4, <1>5 DEF DeskInv

LEMMA TypePlateKeepsDesk ==
  ASSUME DeskInv, NEW p \in Plates, TypePlate(p) PROVE DeskInv'
<1>1. DeskTypeOK'
  BY DEF DeskInv, DeskTypeOK, TypePlate
<1> QED BY <1>1 DEF DeskInv, DeskTypeOK, TypePlate

\* An answer is the verdict of the look-up that was under way.
LEMMA LookupAnsweredKeepsDesk ==
  ASSUME DeskInv, NEW ok \in BOOLEAN, LookupAnswered(ok)
  PROVE  DeskInv'
<1>1. DeskTypeOK /\ desk.loading /\ ~desk.error /\ desk.asked # ""
  BY DEF DeskInv, LookupAnswered
<1>2. /\ desk.answers \in Nat /\ desk.lookups \in Nat
      /\ desk.answers + 1 <= desk.lookups /\ desk.lookups <= MaxLookups
  <2>1. desk.answers + 1 <= desk.lookups
    BY <1>1 DEF DeskInv
  <2> QED BY <1>1, <2>1, DeskNumbers
<1>3. desk.recent = LastFive(desk.answers)
  BY DEF DeskInv
<1>4. desk' = [plate |-> desk.plate, asked |-> desk.asked,
               loading |-> FALSE, error |-> desk.error,
               result |-> [plate |-> desk.asked, ok |-> ok],
               recent |-> LastFive(desk.answers + 1),
               lookups |-> desk.lookups, answers |-> desk.answers + 1]
  BY <1>1, <1>2, <1>3, RememberLast, DeskFields DEF LookupAnswered
<1>5. LastFive(desk.answers + 1) \in Seq(1..MaxLookups)
  BY <1>2, LastFiveType, LookupAssumption
<1>6. desk.answers + 1 \in 0..MaxLookups
  BY <1>2, LookupAssumption
<1>7. [plate |-> desk.asked, ok |-> ok] \in [plate : Plates, ok : BOOLEAN]
  BY <1>1, DeskFields
<1>8. DeskTypeOK'
  BY <1>1, <1>4, <1>5, <1>6, <1>7, DeskFields DEF DeskTypeOK
<1>9. desk'.answers + (IF desk'.loading THEN 1 ELSE 0) <= desk'.lookups
  BY <1>2, <1>4
<1> QED BY <1>1, <1>4, <1>8, <1>9 DEF DeskInv

LEMMA LookupFailsKeepsDesk ==
  ASSUME DeskInv, LookupFails PROVE DeskInv'
<1>1. DeskTypeOK /\ desk.loading /\ desk.result = NoVerdict
  BY DEF DeskInv, LookupFails
<1>2. desk' = [desk EXCEPT !.loading = FALSE, !.error = TRUE]
  BY DEF LookupFails
<1>3. DeskTypeOK'
  BY <1>1, <1>2 DEF DeskTypeOK
<1>4. /\ ~desk'.loading /\ desk'.answers = desk.answers
      /\ desk'.lookups = desk.lookups /\ desk'.recent = desk.recent
      /\ desk'.result = NoVerdict
  BY <1>1, <1>2 DEF DeskTypeOK
<1>5. desk.answers <= desk.lookups
  <2>1. desk.answers + 1 <= desk.lookups
    BY <1>1 DEF DeskInv
  <2> QED BY <1>1, <2>1, DeskNumbers
<1>6. desk'.answers + (IF desk'.loading THEN 1 ELSE 0) <= desk'.lookups
  BY <1>1, <1>4, <1>5, DeskNumbers
<1> QED BY <1>3, <1>4, <1>6 DEF DeskInv

LEMMA DeskInvShows == DeskInv => VerdictIsLatest
<1> SUFFICES ASSUME DeskInv PROVE VerdictIsLatest
  OBVIOUS
<1>1. Card(desk) # "none" => desk.result # NoVerdict
  BY DEF Card
<1>2. desk.result # NoVerdict =>
        ~desk.loading /\ ~desk.error /\ desk.result.plate = desk.asked
  BY DEF DeskInv
<1> QED BY <1>1, <1>2 DEF DeskInv, VerdictIsLatest, LastFive

-----------------------------------------------------------------------------
(* The list of notifications (pages/Notifications.tsx) *)

\* What the screen asks for.
AskedFor(p) == [of |-> p.target, limit |-> p.limit]

\* Until the load begun last overtakes one for another query, the last of those
\* under way is for what the screen asks for, ...
LastLoadAsks(p) ==
    ~p.overtaken /\ p.target # "" /\ p.loads # <<>> =>
        p.loads[Len(p.loads)] = AskedFor(p)

\* ... so that the list is too once every load was answered.
ItemsAsked(p) ==
    p.loads = <<>> /\ ~p.error /\ ~p.overtaken /\ p.target # "" =>
        p.items \in {Nothing, AskedFor(p)}

InboxInv == InboxTypeOK /\ LastLoadAsks(inbox) /\ ItemsAsked(inbox)

InboxType ==
    [target : Readers \cup {""}, limit : Limits, loading : BOOLEAN,
     error : BOOLEAN, items : Query \cup {Nothing}, loads : Seq(Query),
     overtaken : BOOLEAN]

\* What remains of the loads when the i-th one is answered: one fewer, and the
\* last of them stays unless it is the one.
LEMMA RemoveLoad ==
  ASSUME NEW s \in Seq(Query), NEW i \in DOMAIN s
  PROVE  /\ RemoveAt(s, i) \in Seq(Query)
         /\ Len(RemoveAt(s, i)) = Len(s) - 1
         /\ RemoveAt(s, i) = <<>> => Len(s) = 1 /\ i = 1
         /\ RemoveAt(s, i) # <<>> =>
                /\ Len(s) - 1 \in DOMAIN s
                /\ RemoveAt(s, i)[Len(s) - 1] =
                        s[IF i = Len(s) THEN Len(s) - 1 ELSE Len(s)]
<1> DEFINE a == SubSeq(s, 1, i - 1)
           b == SubSeq(s, i + 1, Len(s))
<1>1. i \in 1..Len(s) /\ Len(s) \in Nat
  OBVIOUS
<1>2. a \in Seq(Query) /\ Len(a) = i - 1
  BY <1>1, SubSeqProperties
<1>3. b \in Seq(Query) /\ Len(b) = Len(s) - i
  BY <1>1, SubSeqProperties
<1>4. \A k \in 1..(Len(s) - i) : b[k] = s[i + k]
  BY <1>1, SubSeqProperties
<1>5. \A k \in 1..(i - 1) : a[k] = s[k]
  BY <1>1, SubSeqProperties
<1>6. RemoveAt(s, i) = a \o b
  BY DEF RemoveAt
<1> HIDE DEF a, b
<1>7. a \o b \in Seq(Query) /\ Len(a \o b) = Len(s) - 1
  BY <1>1, <1>2, <1>3
<1>8. ASSUME a \o b # <<>>
      PROVE  /\ Len(s) - 1 \in 1..(Len(s) - 1)
             /\ (a \o b)[Len(s) - 1] = s[IF i = Len(s) THEN Len(s) - 1 ELSE Len(s)]
  <2>1. Len(s) - 1 \in 1..(Len(s) - 1)
    BY <1>1, <1>7, <1>8
  <2>2. CASE i = Len(s)
    <3>1. (a \o b)[Len(s) - 1] = a[Len(s) - 1]
      BY <1>1, <1>2, <1>3, <2>1, <2>2
    <3> QED BY <1>5, <2>1, <2>2, <3>1
  <2>3. CASE i # Len(s)
    <3>1. (a \o b)[Len(s) - 1] = b[Len(s) - i]
      BY <1>1, <1>2, <1>3, <2>1, <2>3
    <3> QED BY <1>1, <1>4, <2>1, <2>3, <3>1
  <2> QED BY <2>1, <2>2, <2>3
<1>9. ASSUME a \o b = <<>> PROVE Len(s) = 1 /\ i = 1
  <2>1. Len(a \o b) = 0
    BY <1>9
  <2> QED BY <1>1, <1>7, <2>1
<1> QED BY <1>1, <1>6, <1>7, <1>8, <1>9

LEMMA InboxMounted == inbox \in {ClosedInbox, OpenedInbox} => InboxInv
<1> SUFFICES ASSUME inbox \in {ClosedInbox, OpenedInbox} PROVE InboxInv
  OBVIOUS
<1> DEFINE mine == [of |-> Me, limit |-> 20]
<1>0. /\ Me # "" /\ Me \in Readers /\ 20 \in Limits
      /\ mine \in Query /\ <<>> \in Seq(Query) /\ <<mine>> \in Seq(Query)
  <2>1. Me # "" /\ Me \in Readers /\ 20 \in Limits
    BY ReaderAssumption, LimitAssumption
  <2>2. mine \in Query
    BY <2>1 DEF Query
  <2>3. ASSUME NEW S, NEW e \in S PROVE <<>> \in Seq(S) /\ <<e>> \in Seq(S)
    OBVIOUS
  <2> HIDE DEF mine
  <2> QED BY <2>1, <2>2, <2>3, Zenon
<1>1. ClosedInbox \in InboxType
  BY <1>0 DEF ClosedInbox, InboxType
<1>2. CASE inbox = ClosedInbox
  BY <1>0, <1>1, <1>2 DEF ClosedInbox, InboxInv, InboxTypeOK, InboxType, LastLoadAsks,
                    ItemsAsked
<1>3. CASE inbox = OpenedInbox
  <2>1. inbox = [ClosedInbox EXCEPT !.loading = TRUE, !.error = FALSE,
            !.loads = Append(<<>>, [of |-> Me, limit |-> 20]), !.overtaken = FALSE]
    BY <1>0, <1>3 DEF OpenedInbox, Load, ClosedInbox
  <2>2. inbox.loads = <<mine>>
    BY <2>1 DEF ClosedInbox
  <2>3. inbox.loads \in Seq(Query) /\ inbox.loads # <<>>
    <3> HIDE DEF mine
    <3>1. <<mine>> # <<>>
      OBVIOUS
    <3> QED BY <1>0, <2>2, <3>1, Zenon
  <2>4. inbox \in InboxType
    BY <1>1, <2>1, <2>3 DEF ClosedInbox, InboxType
  <2>5. inbox.target = Me /\ inbox.limit = 20
    BY <2>1 DEF ClosedInbox
  <2>6. AskedFor(inbox) = mine
    BY <2>5 DEF AskedFor
  <2> HIDE DEF mine
  <2>7. LastLoadAsks(inbox) /\ ItemsAsked(inbox)
    BY <2>2, <2>6 DEF LastLoadAsks, ItemsAsked
  <2> QED BY <2>4, <2>7 DEF InboxInv, InboxTypeOK, InboxType
<1> QED BY <1>2, <1>3

\* Whatever was on the screen and under way, a page that loads is in order.
LEMMA LoadSound ==
  ASSUME NEW p \in InboxType
  PROVE  /\ Load(p) \in InboxType
         /\ LastLoadAsks(Load(p)) /\ ItemsAsked(Load(p))
<1>1. CASE p.target = ""
  BY <1>1 DEF Load, LastLoadAsks, ItemsAsked
<1>2. CASE p.target # ""
  <2> DEFINE new == Append(p.loads, AskedFor(p))
             q == [p EXCEPT !.loading = TRUE, !.error = FALSE, !.loads = new,
                            !.overtaken = FALSE]
  <2>1. Load(p) = q
    BY <1>2 DEF Load, AskedFor, InboxType
  <2>2. AskedFor(p) \in Query /\ p.loads \in Seq(Query)
    BY <1>2 DEF AskedFor, Query, InboxType
  <2>3. /\ new \in Seq(Query) /\ Len(new) = Len(p.loads) + 1
        /\ new[Len(new)] = AskedFor(p) /\ new # <<>>
    BY <2>2
  <2> HIDE DEF new
  <2>4. q \in InboxType
    BY <2>3 DEF InboxType
  <2>5. q.loads = new /\ q.target = p.target /\ q.limit = p.limit
    BY DEF InboxType
  <2>6. AskedFor(q) = AskedFor(p)
    BY <2>5 DEF AskedFor
  <2> HIDE DEF q
  <2>7. LastLoadAsks(q) /\ ItemsAsked(q)
    BY <2>3, <2>5, <2>6, Zenon DEF LastLoadAsks, ItemsAsked
  <2> QED BY <2>1, <2>4, <2>7
<1> QED BY <1>1, <1>2

\* Entering an id, choosing a limit, "Refresh".
LEMMA InboxEventKeepsInv ==
  ASSUME InboxInv, InboxEvents PROVE InboxInv'
<1>1. inbox \in InboxType /\ LastLoadAsks(inbox) /\ ItemsAsked(inbox)
  BY DEF InboxInv, InboxTypeOK, InboxType
<1>2. ASSUME NEW p \in InboxType, inbox' = Load(p) PROVE InboxInv'
  BY <1>2, LoadSound DEF InboxInv, InboxTypeOK, InboxType
<1>3. ASSUME NEW p \in InboxType, inbox' = ReloadOnChange(p),
             p.target = inbox.target /\ p.limit = inbox.limit => p = inbox
      PROVE  InboxInv'
  <2>1. inbox' = Load(p) \/ inbox' = inbox
    BY <1>3, Zenon DEF ReloadOnChange
  <2> QED BY <1>1, <1>2, <1>3, <2>1 DEF InboxInv, InboxTypeOK, InboxType
<1>4. ASSUME NEW u \in Readers \cup {""}, EnterUserId(u) PROVE InboxInv'
  <2>1. /\ [inbox EXCEPT !.target = u] \in InboxType
        /\ [inbox EXCEPT !.target = u].target = inbox.target =>
                [inbox EXCEPT !.target = u] = inbox
    BY <1>1 DEF InboxType
  <2> QED BY <1>3, <1>4, <2>1 DEF EnterUserId
<1>5. ASSUME NEW n \in Limits, ChooseLimit(n) PROVE InboxInv'
  <2>1. /\ [inbox EXCEPT !.limit = n] \in InboxType
        /\ [inbox EXCEPT !.limit = n].limit = inbox.limit =>
                [inbox EXCEPT !.limit = n] = inbox
    BY <1>1 DEF InboxType
  <2> QED BY <1>3, <1>5, <2>1 DEF ChooseLimit
<1>6. CASE Refresh
  BY <1>1, <1>2, <1>6 DEF Refresh
<1> QED BY <1>4, <1>5, <1>6 DEF InboxEvents

\* The end of a load, with its items or with an error.
LEMMA InboxAnswerKeepsInv ==
  ASSUME InboxInv, InboxAnswers PROVE InboxInv'
<1>1. PICK i \in DOMAIN inbox.loads :
        \/ inbox' = [Taken(i) EXCEPT !.items = inbox.loads[i]]
        \/ inbox' = [Taken(i) EXCEPT !.error = TRUE]
  BY DEF InboxAnswers, NotificationsAnswered, NotificationsFail
<1> DEFINE s == inbox.loads
           rest == RemoveAt(s, i)
           p == [inbox EXCEPT !.loads = rest, !.loading = FALSE,
                              !.overtaken = inbox.overtaken \/ Overtakes(i)]
<1>2. inbox \in InboxType /\ LastLoadAsks(inbox) /\ s \in Seq(Query)
  BY DEF InboxInv, InboxTypeOK, InboxType
<1>3. /\ rest \in Seq(Query) /\ Len(rest) = Len(s) - 1
      /\ rest = <<>> => Len(s) = 1 /\ i = 1
      /\ rest # <<>> =>
            /\ Len(s) - 1 \in DOMAIN s
            /\ rest[Len(s) - 1] = s[IF i = Len(s) THEN Len(s) - 1 ELSE Len(s)]
  BY <1>2, RemoveLoad
<1>4. Taken(i) = p
  BY <1>2 DEF Taken, InboxType
<1>5. s[i] \in Query /\ s # <<>> /\ Len(s) \in Nat
  BY <1>2
<1> HIDE DEF rest
<1>6. /\ p \in InboxType /\ p.target = inbox.target /\ p.limit = inbox.limit
      /\ p.loads = rest /\ p.overtaken = (inbox.overtaken \/ Overtakes(i))
      /\ p.items = inbox.items
  BY <1>2, <1>3 DEF InboxType
<1> HIDE DEF p
<1>7. /\ inbox' \in InboxType /\ inbox'.target = inbox.target
      /\ inbox'.limit = inbox.limit /\ inbox'.loads = rest
      /\ inbox'.overtaken = (inbox.overtaken \/ Overtakes(i))
      /\ inbox'.items = s[i] \/ inbox'.error
  BY <1>1, <1>4, <1>5, <1>6 DEF InboxType
<1>8. AskedFor(inbox') = AskedFor(inbox)
  BY <1>7 DEF AskedFor
<1>9. LastLoadAsks(inbox')
  <2> SUFFICES ASSUME ~inbox.overtaken, ~Overtakes(i), inbox.target # "",
                      rest # <<>>
               PROVE  rest[Len(rest)] = AskedFor(inbox)
    BY <1>7, <1>8 DEF LastLoadAsks
  <2>1. s[Len(s)] = AskedFor(inbox)
    BY <1>2, <1>5 DEF LastLoadAsks
  <2>2. i = Len(s) => s[Len(s) - 1] = s[Len(s)]
    BY <1>3 DEF Overtakes
  <2> QED BY <1>3, <2>1, <2>2
<1>10. ItemsAsked(inbox')
  <2> SUFFICES ASSUME ~inbox.overtaken, inbox.target # "", rest = <<>>,
                      inbox'.items = s[i]
               PROVE  s[i] = AskedFor(inbox)
    BY <1>7, <1>8 DEF ItemsAsked
  <2>1. Len(s) = 1 /\ i = 1
    BY <1>3, Zenon
  <2> QED BY <1>2, <1>5, <2>1 DEF LastLoadAsks
<1> QED BY <1>7, <1>9, <1>10 DEF InboxInv, InboxTypeOK, InboxType

LEMMA InboxInvShows == InboxInv => ShowsWhoIsAsked
<1> SUFFICES ASSUME InboxInv, AtRest, inbox.target # "", InboxView(inbox) = "items"
             PROVE  inbox.items = AskedFor(inbox)
  BY DEF ShowsWhoIsAsked, AskedFor
<1>1. inbox.items \in {Nothing, AskedFor(inbox)}
  BY DEF InboxInv, ItemsAsked, AtRest
<1>2. inbox.items # Nothing
  BY DEF InboxView
<1> QED BY <1>1, <1>2

-----------------------------------------------------------------------------
(* The dashboard (pages/Dashboard.tsx) *)

\* The rows that come before the i-th one.
Ahead(c, i) == {j \in DOMAIN c : Before(c, j, i)}

\* The order of the table is a strict total order of the rows.
LEMMA BeforeOrders ==
  ASSUME NEW c \in Seq(Nat), NEW i \in DOMAIN c, NEW j \in DOMAIN c
  PROVE  /\ ~Before(c, i, i)
         /\ i # j => Before(c, i, j) \/ Before(c, j, i)
         /\ \A k \in DOMAIN c : Before(c, i, j) /\ Before(c, j, k) => Before(c, i, k)
<1>1. DOMAIN c \subseteq Nat /\ \A k \in DOMAIN c : c[k] \in Nat
  OBVIOUS
<1> QED BY <1>1 DEF Before

\* The rows ahead are some of the others.
LEMMA AheadFinite ==
  ASSUME NEW c \in Seq(Nat), NEW i \in DOMAIN c
  PROVE  /\ IsFiniteSet(Ahead(c, i)) /\ Cardinality(Ahead(c, i)) \in Nat
         /\ Place(c, i) = Cardinality(Ahead(c, i)) + 1
         /\ Place(c, i) \in 1..Len(c)
<1>1. DOMAIN c = 1..Len(c) /\ Len(c) \in Nat
  OBVIOUS
<1>2. IsFiniteSet(1..Len(c)) /\ Cardinality(1..Len(c)) = Len(c)
  <2>1. Cardinality(1..Len(c)) = IF 1 > Len(c) THEN 0 ELSE Len(c) - 1 + 1
    BY <1>1, FS_Interval
  <2>2. IsFiniteSet(1..Len(c))
    BY <1>1, FS_Interval
  <2> QED BY <1>1, <2>1, <2>2
<1>3. Ahead(c, i) \subseteq (1..Len(c)) \ {i}
  BY <1>1, BeforeOrders DEF Ahead
<1>4. /\ IsFiniteSet((1..Len(c)) \ {i})
      /\ Cardinality((1..Len(c)) \ {i}) = Len(c) - 1
  <2> DEFINE S == 1..Len(c)
  <2>1. i \in S /\ IsFiniteSet(S) /\ Cardinality(S) = Len(c)
    BY <1>1, <1>2
  <2> HIDE DEF S
  <2>2. IsFiniteSet(S \ {i}) /\ Cardinality(S \ {i}) = Cardinality(S) - 1
    BY <2>1, FS_RemoveElement
  <2>3. IsFiniteSet(S \ {i}) /\ Cardinality(S \ {i}) = Len(c) - 1
    BY <2>1, <2>2
  <2> QED BY <2>3 DEF S
<1>5. /\ IsFiniteSet(Ahead(c, i)) /\ Cardinality(Ahead(c, i)) \in Nat
      /\ Cardinality(Ahead(c, i)) <= Len(c) - 1
  BY <1>3, <1>4, FS_Subset, FS_CardinalityType
<1>6. Place(c, i) = Cardinality(Ahead(c, i)) + 1
  BY DEF Place, Ahead
<1> QED BY <1>1, <1>5, <1>6

\* A row before another one has an earlier place.
LEMMA PlaceFollowsOrder ==
  ASSUME NEW c \in Seq(Nat), NEW i \in DOMAIN c, NEW j \in DOMAIN c, Before(c, i, j)
  PROVE  Place(c, i) < Place(c, j)
<1>1. Ahead(c, i) \subseteq Ahead(c, j)
  BY BeforeOrders DEF Ahead
<1>2. i \in Ahead(c, j) /\ i \notin Ahead(c, i)
  BY BeforeOrders DEF Ahead
<1>3. Cardinality(Ahead(c, i)) < Cardinality(Ahead(c, j))
  <2>1. IsFiniteSet(Ahead(c, j)) /\ IsFiniteSet(Ahead(c, i))
    BY AheadFinite
  <2>2. Cardinality(Ahead(c, i)) <= Cardinality(Ahead(c, j))
    BY <1>1, <2>1, FS_Subset
  <2>3. Cardinality(Ahead(c, i)) # Cardinality(Ahead(c, j))
    BY <1>1, <1>2, <2>1, FS_Subset
  <2> QED BY <2>2, <2>3, AheadFinite
<1> QED BY <1>3, AheadFinite

\* No two rows share a place, and every place is taken.
LEMMA PlacesAreTaken ==
  ASSUME NEW c \in Seq(Nat)
  PROVE  /\ \A i, j \in DOMAIN c : Place(c, i) = Place(c, j) => i = j
         /\ \A k \in 1..Len(c) : \E i \in DOMAIN c : Place(c, i) = k
<1> DEFINE S == 1..Len(c)
           place == [i \in S |-> Place(c, i)]
<1>1. DOMAIN c = S /\ Len(c) \in Nat
  OBVIOUS
<1>2. \A i, j \in S : Place(c, i) = Place(c, j) => i = j
  <2> SUFFICES ASSUME NEW i \in S, NEW j \in S, i # j
               PROVE  Place(c, i) # Place(c, j)
    OBVIOUS
  <2>1. Before(c, i, j) \/ Before(c, j, i)
    BY <1>1, BeforeOrders
  <2>2. Place(c, i) < Place(c, j) \/ Place(c, j) < Place(c, i)
    BY <1>1, <2>1, PlaceFollowsOrder
  <2>3. Place(c, i) \in Nat /\ Place(c, j) \in Nat
    BY <1>1, AheadFinite
  <2> QED BY <2>2, <2>3
<1>3. place \in Injection(S, S)
  <2>1. \A i \in S : Place(c, i) \in S
    BY <1>1, AheadFinite
  <2>2. place \in [S -> S] /\ \A i \in S : place[i] = Place(c, i)
    BY <2>1
  <2>3. \A i, j \in S : place[i] = place[j] => i = j
    BY <1>2, <2>2
  <2> QED BY <2>2, <2>3 DEF Injection, IsInjective
<1>4. IsFiniteSet(S)
  BY <1>1, FS_Interval
<1>5. place \in Surjection(S, S)
  BY <1>3, <1>4, FS_Injection
<1>6. \A k \in S : \E i \in S : place[i] = k
  BY <1>5 DEF Surjection
<1> QED BY <1>1, <1>2, <1>6

Fitting(c) == IF Len(c) < 8 THEN Len(c) ELSE 8

\* The k-th row of the table has the k-th place.
LEMMA RowHasPlace ==
  ASSUME NEW c \in Seq(Nat), NEW k \in 1..Fitting(c)
  PROVE  TopSegments(c)[k] \in DOMAIN c /\ Place(c, TopSegments(c)[k]) = k
<1>1. k \in 1..Len(c) /\ k \in 1..(IF Len(c) < 8 THEN Len(c) ELSE 8)
  BY DEF Fitting
<1>2. \E i \in DOMAIN c : Place(c, i) = k
  BY <1>1, PlacesAreTaken
<1>3. TopSegments(c)[k] = CHOOSE i \in DOMAIN c : Place(c, i) = k
  BY <1>1 DEF TopSegments
<1> QED BY <1>2, <1>3

\* The table has eight rows if there are as many, in order and none twice, and
\* no row outside it is used more than one in it (Dashboard.tsx:53-56).
THEOREM TopSegmentsAreTop ==
  ASSUME NEW c \in Seq(Nat)
  PROVE  /\ Len(TopSegments(c)) = Fitting(c)
         /\ LET inside == {TopSegments(c)[k] : k \in DOMAIN TopSegments(c)}
            IN  \A i \in inside, j \in DOMAIN c \ inside : c[i] >= c[j]
         /\ \A k, l \in DOMAIN TopSegments(c) :
                k < l => Before(c, TopSegments(c)[k], TopSegments(c)[l])
<1>1. Fitting(c) \in Nat /\ DOMAIN TopSegments(c) = 1..Fitting(c)
  BY DEF TopSegments, Fitting
<1>2. Len(TopSegments(c)) = Fitting(c)
  <2>1. TopSegments(c) \in Seq(DOMAIN c)
    <3>1. \A k \in 1..Fitting(c) : TopSegments(c)[k] \in DOMAIN c
      BY RowHasPlace
    <3>2. TopSegments(c) = [k \in 1..Fitting(c) |-> TopSegments(c)[k]]
      BY DEF TopSegments, Fitting
    <3> HIDE DEF Fitting, TopSegments
    <3>3. TopSegments(c) \in [1..Fitting(c) -> DOMAIN c]
      BY <3>1, <3>2
    <3> QED BY <1>1, <3>3, SMTT(30)
  <2> QED BY <1>1, <2>1
<1>3. ASSUME NEW k \in 1..Fitting(c), NEW j \in DOMAIN c,
             \A n \in 1..Fitting(c) : TopSegments(c)[n] # j
      PROVE  c[TopSegments(c)[k]] >= c[j]
  <2> DEFINE i == TopSegments(c)[k]
  <2>1. i \in DOMAIN c /\ Place(c, i) = k
    BY RowHasPlace
  <2>2. i # j
    BY <1>3
  <2>3. ~Before(c, j, i)
    <3> SUFFICES ASSUME Before(c, j, i) PROVE FALSE
      OBVIOUS
    <3>1. Place(c, j) < k
      BY <2>1, PlaceFollowsOrder
    <3>2. Place(c, j) \in 1..Len(c)
      BY AheadFinite
    <3>3. Place(c, j) \in 1..Fitting(c)
      BY <1>1, <3>1, <3>2
    <3>4. /\ TopSegments(c)[Place(c, j)] \in DOMAIN c
          /\ Place(c, TopSegments(c)[Place(c, j)]) = Place(c, j)
      BY <3>3, RowHasPlace
    <3>5. TopSegments(c)[Place(c, j)] = j
      BY <3>4, PlacesAreTaken
    <3> QED BY <1>3, <3>3, <3>5
  <2>4. Before(c, i, j)
    BY <2>1, <2>2, <2>3, BeforeOrders
  <2>5. c[i] \in Nat /\ c[j] \in Nat
    BY <2>1
  <2> QED BY <2>4, <2>5 DEF Before
<1>4. ASSUME NEW k \in 1..Fitting(c), NEW l \in 1..Fitting(c), k < l
      PROVE  Before(c, TopSegments(c)[k], TopSegments(c)[l])
  <2> DEFINE i == TopSegments(c)[k]
             j == TopSegments(c)[l]
  <2>1. i \in DOMAIN c /\ j \in DOMAIN c /\ Place(c, i) = k /\ Place(c, j) = l
    BY RowHasPlace
  <2> HIDE DEF i, j
  <2>2. i # j /\ ~Before(c, j, i)
    BY <1>1, <1>4, <2>1, PlaceFollowsOrder
  <2>3. Before(c, i, j)
    BY <2>1, <2>2, BeforeOrders
  <2> QED BY <2>3 DEF i, j
<1> QED BY <1>1, <1>2, <1>3, <1>4
-----------------------------------------------------------------------------

\* What one report may say during this visit.
FigureOf(p) == IF p = "capacity" THEN Reports
               ELSE {<<n>> : n \in board.since..events}

\* The page shows nothing until all three reports are there, then all of them,
\* and it waits for one of them or says what it has.
BoardInv ==
    /\ BoardTypeOK /\ board.since <= events
    /\ board.loading => ~board.error /\ \E p \in Parts : board.answer[p] = {}
    /\ \A p \in Parts : board.answer[p] \subseteq FigureOf(p)
    /\ IF board.loading \/ board.error THEN board.shown = NoAnswers
       ELSE board.shown = board.answer /\ \A p \in Parts : board.answer[p] # {}

LEMMA BoardMounted ==
  events \in 0..MaxEvents /\ board \in {ClosedBoard, OpenedBoard} => BoardInv
<1> SUFFICES ASSUME events \in 0..MaxEvents, board \in {ClosedBoard, OpenedBoard}
             PROVE  BoardInv
  OBVIOUS
<1>1. NoAnswers \in [Parts -> SUBSET Seq(Nat)] /\ \A p \in Parts : NoAnswers[p] = {}
  BY DEF NoAnswers
<1>2. /\ board \in [loading : BOOLEAN, error : BOOLEAN,
                    answer : [Parts -> SUBSET Seq(Nat)],
                    shown : [Parts -> SUBSET Seq(Nat)], since : 0..MaxEvents]
      /\ board.loading /\ ~board.error /\ board.since <= events
      /\ board.answer = NoAnswers /\ board.shown = NoAnswers
  <2>1. 0 \in 0..MaxEvents /\ events \in Nat
    BY EventAssumption
  <2>2. CASE board = ClosedBoard
    BY <1>1, <2>1, <2>2 DEF ClosedBoard
  <2>3. CASE board = OpenedBoard
    <3>1. board = [loading |-> TRUE, error |-> FALSE, answer |-> NoAnswers,
                   shown |-> NoAnswers, since |-> events]
      BY <2>3 DEF OpenedBoard, ClosedBoard
    <3> HIDE DEF NoAnswers
    <3> QED BY <1>1, <2>1, <3>1
  <2> QED BY <2>2, <2>3
<1>3. \E p \in Parts : board.answer[p] = {}
  BY <1>1, <1>2 DEF Parts
<1> QED BY <1>1, <1>2, <1>3 DEF BoardInv, BoardTypeOK

LEMMA RecordEventKeepsBoard ==
  ASSUME BoardInv, RecordEvent
  PROVE  BoardInv'
<1>1. events' = events + 1 /\ events' \in 0..MaxEvents /\ board' = board
  BY EventAssumption DEF BoardInv, BoardTypeOK, RecordEvent
<1>2. board.since \in Nat /\ events \in Nat
  BY EventAssumption DEF BoardInv, BoardTypeOK
<1>3. \A p \in Parts : FigureOf(p) \subseteq FigureOf(p)'
  <2>1. board.since..events \subseteq board.since..events'
    BY <1>1, <1>2
  <2> QED BY <1>1, <2>1 DEF FigureOf
<1>4. BoardTypeOK' /\ board'.since <= events'
  BY <1>1, <1>2 DEF BoardInv, BoardTypeOK
<1> QED BY <1>1, <1>3, <1>4 DEF BoardInv

LEMMA ReportAnsweredKeepsBoard ==
  ASSUME BoardInv, NEW p \in Parts, ReportAnswered(p)
  PROVE  BoardInv'
<1>1. PICK r \in Report(p) : board' = Collected([board EXCEPT !.answer[p] = {r}])
  BY DEF ReportAnswered
<1> DEFINE b == [board EXCEPT !.answer[p] = {r}]
<1>2. board.loading /\ ~board.error /\ board.shown = NoAnswers /\ events' = events
  BY DEF ReportAnswered, BoardInv
<1>3. board.since \in Nat /\ events \in Nat /\ board.since <= events
  BY EventAssumption DEF BoardInv, BoardTypeOK
<1>4. r \in Seq(Nat) /\ r \in FigureOf(p)
  <2>1. CASE p = "capacity"
    BY <2>1, ReportAssumption DEF Report, FigureOf
  <2>2. CASE p # "capacity"
    <3>1. r = <<events>> /\ events \in board.since..events
      BY <1>3, <2>2 DEF Report
    <3>2. <<events>> \in Seq(Nat)
      BY <1>3
    <3> QED BY <2>2, <3>1, <3>2 DEF FigureOf
  <2> QED BY <2>1, <2>2
<1>5. /\ b \in [loading : BOOLEAN, error : BOOLEAN,
                answer : [Parts -> SUBSET Seq(Nat)],
                shown : [Parts -> SUBSET Seq(Nat)], since : 0..MaxEvents]
      /\ b.answer = [board.answer EXCEPT ![p] = {r}]
      /\ b.loading /\ ~b.error /\ b.shown = NoAnswers /\ b.since = board.since
  <2>1. {r} \in SUBSET Seq(Nat)
    BY <1>4
  <2> QED BY <1>2, <2>1 DEF BoardInv, BoardTypeOK
<1> HIDE DEF b
<1>6. \A q \in Parts : b.answer[q] \subseteq FigureOf(q)
  BY <1>4, <1>5 DEF BoardInv, BoardTypeOK
<1>7. /\ BoardTypeOK' /\ board'.since = board.since /\ board'.answer = b.answer
      /\ board'.error = b.error
  BY <1>1, <1>2, <1>5 DEF Collected, BoardInv, BoardTypeOK, b
<1>8. \A q \in Parts : FigureOf(q)' = FigureOf(q)
  BY <1>2, <1>7 DEF FigureOf
<1>9. CASE \A q \in Parts : b.answer[q] # {}
  <2>1. ~board'.loading /\ board'.shown = b.answer
    BY <1>1, <1>5, <1>9 DEF Collected, b
  <2> QED BY <1>2, <1>3, <1>5, <1>6, <1>7, <1>8, <1>9, <2>1 DEF BoardInv
<1>10. CASE ~(\A q \in Parts : b.answer[q] # {})
  <2>1. board'.loading /\ board'.shown = NoAnswers
    BY <1>1, <1>5, <1>10 DEF Collected, b
  <2>2. \E q \in Parts : board'.answer[q] = {}
    BY <1>7, <1>10
  <2>3. board'.loading => ~board'.error /\ \E q \in Parts : board'.answer[q] = {}
    BY <1>5, <1>7, <2>2
  <2>4. \A q \in Parts : board'.answer[q] \subseteq FigureOf(q)'
    BY <1>6, <1>7, <1>8
  <2>5. BoardTypeOK' /\ board'.since <= events'
    BY <1>2, <1>3, <1>7
  <2> QED BY <2>1, <2>3, <2>4, <2>5 DEF BoardInv
<1> QED BY <1>9, <1>10

LEMMA ReportFailsKeepsBoard ==
  ASSUME BoardInv, NEW p \in Parts, ReportFails(p)
  PROVE  BoardInv'
<1>1. /\ BoardTypeOK' /\ board'.since = board.since /\ board'.answer = board.answer
      /\ board'.error /\ ~board'.loading /\ board'.shown = NoAnswers
      /\ events' = events
  BY DEF ReportFails, BoardInv, BoardTypeOK
<1>2. \A q \in Parts : FigureOf(q)' = FigureOf(q)
  BY <1>1 DEF FigureOf
<1> QED BY <1>1, <1>2 DEF BoardInv

\* What is shown is of this visit, whole, and ranked.
LEMMA BoardInvShows == BoardInv => BoardIsTrue
<1> SUFFICES ASSUME BoardInv PROVE FiguresAreOfThisVisit /\ TableIsTop
  BY DEF BoardIsTrue
<1>1. board.shown \in [Parts -> SUBSET Seq(Nat)]
  BY DEF BoardInv, BoardTypeOK
<1>2. FiguresAreOfThisVisit
  <2>1. \A p \in Parts : board.shown[p] \subseteq FigureOf(p)
    BY DEF BoardInv, NoAnswers
  <2>2. \A p \in Parts \ {"capacity"} :
            \A r \in board.shown[p] : r[1] \in board.since..events
    BY <2>1 DEF FigureOf
  <2>3. CASE board.loading \/ board.error
    <3>1. BoardView(board) # "figures"
      BY <2>3 DEF BoardView, BoardInv
    <3>2. board.shown = NoAnswers
      BY <2>3 DEF BoardInv
    <3> QED BY <2>2, <3>1, <3>2 DEF FiguresAreOfThisVisit
  <2>4. CASE ~board.loading /\ ~board.error
    <3>1. BoardView(board) = "figures"
      BY <2>4 DEF BoardView
    <3>2. \A p \in Parts : board.shown[p] # {}
      BY <2>4 DEF BoardInv
    <3> QED BY <2>2, <3>1, <3>2 DEF FiguresAreOfThisVisit
  <2> QED BY <2>3, <2>4
<1>3. TableIsTop
  <2>1. \A c \in board.shown["capacity"] : c \in Seq(Nat)
    BY <1>1 DEF Parts
  <2> QED BY <2>1, TopSegmentsAreTop DEF TableIsTop, Fitting
<1> QED BY <1>2, <1>3

-----------------------------------------------------------------------------
(* The booking service, whichever page asks it *)

\* A step in the life of a booking, or none: what is booked stays booked, what is
\* cancelled stays cancelled, and what was refused stays refused.
Onward ==
    /\ Life!Next \/ UNCHANGED server
    /\ \A b \in Ids :
          /\ server[b] \in Booked => server'[b] \in Booked
          /\ server[b] = "CANCELLED" => server'[b] = "CANCELLED"
          /\ server[b] \in Final => server'[b] = server[b]

LEMMA ApiStep ==
  ASSUME CallsSound,
         \/ ServerStep \/ UNCHANGED api
         \/ \E b \in Ids : CancelElsewhere(b)
         \/ \E b \in Ids : IsNext(b) /\ SendPost(b) /\ calls' = calls
  PROVE  CallsSound' /\ Onward
<1>1. CASE ServerStep
  <2>1. PICK b \in Ids : Receive(b) \/ Settle(b) \/ HandleDelete(b)
    BY <1>1 DEF ServerStep
  <2>2. HandleDelete(b) => Life!Cancel(b) \/ UNCHANGED server
    BY DEF HandleDelete, Life!Cancel, Life!Becomes, CallsSound, ApiTypeOK, Booked
  <2>3. Life!Next \/ UNCHANGED server
    BY <2>1, <2>2 DEF Receive, Settle, Life!Next
  <2> QED BY <1>1, <2>3, ServerStepFates DEF Onward
<1>2. CASE UNCHANGED api
  BY <1>2 DEF api, CallsSound, ApiTypeOK, Onward
<1>3. ASSUME NEW b \in Ids, CancelElsewhere(b) PROVE CallsSound' /\ Onward
  BY <1>3 DEF CancelElsewhere, Life!Cancel, Life!Becomes, Life!Next, CallsSound,
              ApiTypeOK, Onward, Booked, Final, Fates, Life!Fates, Life!Statuses
<1>4. ASSUME NEW b \in Ids, IsNext(b), SendPost(b), calls' = calls
      PROVE  CallsSound' /\ Onward
  <2>1. CallsSound'
    BY <1>4, PostKeepsCalls
  <2>2. Onward
    BY <1>4 DEF SendPost, Life!Ask, Life!Becomes, Life!Next, CallsSound, ApiTypeOK, Onward,
                Booked, Final
  <2> QED BY <2>1, <2>2
<1> QED BY <1>1, <1>2, <1>3, <1>4

\* The form has its say of a service that went on, and of one more DELETE.
LEMMA OnwardKeepsOutcome ==
  ASSUME OutcomeInv, CallsSound', Onward, UNCHANGED form
  PROVE  OutcomeInv'
<1>1. RefusalsSound'
  BY DEF OutcomeInv, RefusalsSound, Onward, Final
<1> QED BY <1>1 DEF OutcomeInv, FormTypeOK

\* A page that is mounted, or left, says nothing yet.
LEMMA FormMounted == CallsSound /\ (form = Closed \/ FormInit) => FormInv /\ OutcomeInv
<1> SUFFICES ASSUME CallsSound, form = Closed \/ FormInit
             PROVE  FormInv /\ OutcomeInv
  OBVIOUS
<1>1. PICK time \in Times : form = Blank(time) \/ form = CheckRoute(Blank(time))
  BY TimeAssumption DEF Closed, FormInit
<1>2. Blank(time) \in FormType
  BY BlankType
<1>3. RouteSound(Blank(time)) /\ ChecksSound(Blank(time))
  BY DEF Blank, NoPreview, RouteSound, ChecksSound, LiveIsCurrent, CheckingIsLive,
         PreviewFits
<1>4. FormInv
  <2>1. CASE form = Blank(time)
    BY <1>2, <1>3, <2>1 DEF FormInv, FormTypeOK
  <2>2. CASE form = CheckRoute(Blank(time))
    BY <1>2, <1>3, <2>2, CheckRouteSound, RouteSoundKept DEF FormInv, FormTypeOK
  <2> QED BY <1>1, <2>1, <2>2
<1>5. /\ form.awaits = {} /\ ~form.loading /\ form.last = 0 /\ form.result = 0
      /\ form.seen = {} /\ form.error = ""
  BY <1>1, <1>2, CheckSameRequests, ZenonT(40) DEF Blank, SameRequests
<1> QED BY <1>4, <1>5 DEF OutcomeInv, RequestsSound, RefusalsSound, FormInv

-----------------------------------------------------------------------------
(* The list of bookings (pages/MyJourneys.tsx) *)

\* The load on mount is nobody's cancellation, and every DELETE is one's.
SlotsSound ==
    /\ list.ops[0].id = 0
    /\ \A s \in Slots : list.ops[s].stage = "delete" => list.ops[s].id \in Ids

\* What the page has read or was told is still so, or has gone on.
RowsSound ==
    /\ \A b \in list.done : server[b] = "CANCELLED"
    /\ \A b \in Ids :
        /\ list.rows[b] \in Booked => server[b] \in Booked
        /\ \A s \in Slots :
            /\ list.ops[s].rows[b] \in Booked => server[b] \in Booked
            /\ list.ops[s].rows[b] = "CANCELLED" => server[b] = "CANCELLED"

\* Of two answers under way one was read first, and the other one has every
\* cancellation that it has.
AnswersOrdered ==
    \A t \in Answers :
        /\ list.earlier[t] \subseteq Answers \ {t}
        /\ \A r \in Answers : r # t => r \in list.earlier[t] \/ t \in list.earlier[r]
        /\ \A r \in list.earlier[t], b \in Ids :
            list.ops[r].rows[b] = "CANCELLED" => list.ops[t].rows[b] = "CANCELLED"

\* The cancellation of b still waits for its load, or for rows that have it, ...
Awaited(b) ==
    \E s \in Slots :
        /\ list.ops[s].id = b
        /\ \/ list.ops[s].stage = "load"
           \/ list.ops[s].stage = "answer" /\ list.ops[s].rows[b] = "CANCELLED"

\* ... or the page has shown it, and every answer that is read late enough has it.
Settled(b) ==
    /\ \A t \in Answers \ list.passed : list.ops[t].rows[b] = "CANCELLED"
    /\ ~list.stale => list.rows[b] = "CANCELLED"

DoneShown == ~list.error => \A b \in list.done : Awaited(b) \/ Settled(b)

ListInv == ListTypeOK /\ SlotsSound /\ RowsSound /\ SpinnerIsTrue /\ AnswersOrdered
            /\ DoneShown

Op == [stage : {"idle", "delete", "load", "answer"}, id : Ids \cup {0}, rows : Snapshot]

LEMMA OpTypes ==
  /\ NoRows \in Snapshot /\ Idle \in Op
  /\ \A id \in Ids \cup {0} : Loading(id) \in Op
<1>1. NoRows \in Snapshot
  BY DEF NoRows, Snapshot
<1> QED BY <1>1 DEF Idle, Loading, Op

LEMMA ListMounted == list \in {Unlisted, OpenedList} => ListInv
<1> SUFFICES ASSUME list = Unlisted \/ list = OpenedList PROVE ListInv
  OBVIOUS
<1>1. 0 \in Slots
  BY CancelAssumption DEF Slots
<1>2. PICK op \in {Idle, Loading(0)} :
        list = [rows |-> NoRows, filter |-> "all", loading |-> TRUE,
                 cancelling |-> 0, error |-> FALSE,
                 ops |-> [[s \in Slots |-> Idle] EXCEPT ![0] = op],
                 done |-> {}, earlier |-> [s \in Slots |-> {}], passed |-> {},
                 stale |-> FALSE]
  <2>1. [s \in Slots |-> Idle] = [[s \in Slots |-> Idle] EXCEPT ![0] = Idle]
    OBVIOUS
  <2>2. CASE list = Unlisted
    BY <2>1, <2>2 DEF Unlisted
  <2>3. CASE list = OpenedList
    BY <2>3 DEF OpenedList, Unlisted
  <2> QED BY <2>2, <2>3
<1> DEFINE ops == [[s \in Slots |-> Idle] EXCEPT ![0] = op]
<1>3. op \in Op /\ op.id = 0 /\ op.stage \in {"idle", "load"} /\ op.rows = NoRows
  BY OpTypes DEF Idle, Loading
<1>4. /\ ops \in [Slots -> Op]
      /\ \A s \in Slots : /\ ops[s].id = 0 /\ ops[s].rows = NoRows
                          /\ ops[s].stage \in {"idle", "load"}
                          /\ s # 0 => ops[s].stage = "idle"
  BY <1>1, <1>3, OpTypes DEF Idle
<1> HIDE DEF ops
<1>5. /\ list.rows = NoRows /\ list.filter = "all" /\ list.loading
      /\ list.cancelling = 0 /\ ~list.error /\ list.ops = ops
      /\ list.done = {}
  BY <1>2 DEF ops
<1>6. ListTypeOK
  <2>1. [s \in Slots |-> {}] \in [Slots -> SUBSET Slots]
    OBVIOUS
  <2> QED BY <1>2, <1>4, <1>5, <2>1, OpTypes DEF ListTypeOK, ListType, Filters, Op, ops
<1>7. \A b \in Ids : NoRows[b] \notin Booked
  BY DEF NoRows, Booked
<1>8. SlotsSound /\ RowsSound
  BY <1>1, <1>4, <1>5, <1>7 DEF SlotsSound, RowsSound, Booked
<1>9. SpinnerIsTrue /\ AnswersOrdered /\ DoneShown
  BY <1>4, <1>5 DEF SpinnerIsTrue, AnswersOrdered, DoneShown, Answers
<1> QED BY <1>6, <1>8, <1>9 DEF ListInv

LEMMA LeastOfNaturals ==
  ASSUME NEW S \in SUBSET Nat, S # {}
  PROVE  \E m \in S : \A n \in S : m <= n
<1>1. \E m \in S : \A n \in S : <<n, m>> \notin OpToRel(<, Nat)
  BY NatLessThanWellFounded, WFMin
<1>2. \A n, m \in S : <<n, m>> \notin OpToRel(<, Nat) => m <= n
  BY DEF OpToRel
<1> QED BY <1>1, <1>2

\* The slots, and what their operations are.
LEMMA SlotTypes ==
  ASSUME ListTypeOK
  PROVE  /\ 0 \in Slots /\ Slots \subseteq Nat
         /\ list.ops \in [Slots -> Op] /\ list.rows \in Snapshot
         /\ list.done \subseteq Ids /\ list.passed \subseteq Slots
         /\ list.earlier \in [Slots -> SUBSET Slots] /\ list.stale \in BOOLEAN
<1>1. 0 \in Slots /\ Slots \subseteq Nat
  BY CancelAssumption DEF Slots
<1> QED BY <1>1 DEF ListTypeOK, ListType, Op

\* The page or the service moves on, the other one stays as it is.
LEMMA ServiceKeepsList ==
  ASSUME ListInv, Onward, UNCHANGED list PROVE ListInv'
<1>1. ListTypeOK' /\ SlotsSound' /\ SpinnerIsTrue' /\ AnswersOrdered' /\ DoneShown'
  BY DEF ListInv, ListTypeOK, SlotsSound, SpinnerIsTrue, AnswersOrdered, DoneShown,
         Running, Answers, Awaited, Settled
<1>2. RowsSound'
  BY SlotTypes DEF ListInv, RowsSound, Onward
<1> QED BY <1>1, <1>2 DEF ListInv

LEMMA SetFilterKeepsList ==
  ASSUME ListInv, NEW f \in Filters, SetFilter(f) PROVE ListInv'
<1>1. ListTypeOK'
  BY DEF ListInv, ListTypeOK, ListType, SetFilter
<1>2. /\ list'.ops = list.ops /\ list'.rows = list.rows /\ list'.done = list.done
      /\ list'.cancelling = list.cancelling /\ list'.earlier = list.earlier
      /\ list'.passed = list.passed /\ list'.stale = list.stale
      /\ list'.error = list.error /\ server' = server
  BY DEF ListInv, ListTypeOK, ListType, SetFilter, api
<1>3. SlotsSound' /\ RowsSound'
  BY <1>2 DEF ListInv, SlotsSound, RowsSound
<1>4. SpinnerIsTrue' /\ AnswersOrdered' /\ DoneShown'
  BY <1>2 DEF ListInv, SpinnerIsTrue, AnswersOrdered, DoneShown, Running, Answers,
              Awaited, Settled
<1> QED BY <1>1, <1>3, <1>4 DEF ListInv

\* Only a booking that is confirmed, or was, is cancelled.
LEMMA HandleCancelKeepsList ==
  ASSUME ListInv, CallsSound, NEW b \in Ids, HandleCancel(b)
  PROVE  ListInv' /\ CallsSound' /\ Onward
<1> DEFINE s == CHOOSE x \in Free : \A r \in Free : x <= r
           op == [Idle EXCEPT !.stage = "delete", !.id = b]
<1>1. ListTypeOK
  BY DEF ListInv
<1>2. s \in Free
  <2>1. Free # {} /\ Free \in SUBSET Nat
    BY <1>1, SlotTypes DEF HandleCancel, Free
  <2>2. \E m \in Free : \A n \in Free : m <= n
    BY <2>1, LeastOfNaturals
  <2> QED BY <2>2
<1>3. list' = [list EXCEPT !.cancelling = b, !.ops[s] = op]
  BY DEF HandleCancel
<1> HIDE DEF s
<1>4. s \in Slots /\ s # 0 /\ list.ops[s].stage = "idle"
  BY <1>2 DEF Free
<1>5. /\ op \in Op /\ op.id = b /\ op.stage = "delete" /\ op.rows = NoRows
  BY OpTypes DEF Idle, Op
<1> HIDE DEF op
<1>6. /\ list'.ops = [list.ops EXCEPT ![s] = op]
      /\ list'.rows = list.rows /\ list'.done = list.done /\ list'.cancelling = b
      /\ list'.error = list.error /\ list'.earlier = list.earlier
      /\ list'.passed = list.passed /\ list'.stale = list.stale
      /\ server' = server
  BY <1>1, <1>3 DEF ListTypeOK, ListType, HandleCancel
<1>7. \A t \in Slots : list'.ops[t] = IF t = s THEN op ELSE list.ops[t]
  BY <1>1, <1>6, SlotTypes
<1>8. ListTypeOK'
  <2>1. [list.ops EXCEPT ![s] = op] \in [Slots -> Op]
    BY <1>1, <1>5, SlotTypes
  <2> QED BY <1>1, <1>3, <1>5, <1>6, <2>1 DEF ListTypeOK, ListType, Op
<1>9. SlotsSound'
  BY <1>1, <1>4, <1>5, <1>7, SlotTypes DEF ListInv, SlotsSound
<1>10. RowsSound'
  <2>1. \A x \in Ids : NoRows[x] \notin Booked
    BY DEF NoRows, Booked
  <2> QED BY <1>5, <1>6, <1>7, <2>1 DEF ListInv, RowsSound, Booked
<1>11. SpinnerIsTrue'
  BY <1>4, <1>5, <1>6, <1>7 DEF SpinnerIsTrue, Running
<1>12. AnswersOrdered' /\ DoneShown'
  <2>1. Answers' = Answers
    BY <1>4, <1>5, <1>7 DEF Answers
  <2>2. \A t \in Answers : list'.ops[t] = list.ops[t]
    BY <1>4, <1>7 DEF Answers
  <2>3. AnswersOrdered'
    BY <1>6, <2>1, <2>2 DEF ListInv, AnswersOrdered
  <2>4. \A c \in Ids : Awaited(c) => Awaited(c)'
    BY <1>4, <1>7 DEF Awaited
  <2>5. \A c \in Ids : Settled(c) => Settled(c)'
    BY <1>6, <2>1, <2>2 DEF Settled
  <2> QED BY <1>1, <1>6, <2>3, <2>4, <2>5, SlotTypes DEF ListInv, DoneShown
<1>13. CallsSound' /\ Onward
  <2>1. list.rows[b] = "CONFIRMED"
    BY <1>1, SlotTypes DEF HandleCancel, Offered, Filtered, Snapshot, Statuses, Life!Statuses
  <2>2. server[b] \in Booked
    BY <2>1 DEF ListInv, RowsSound, Booked
  <2> QED BY <1>6, <2>2 DEF HandleCancel, CallsSound, ApiTypeOK, Onward
<1> QED BY <1>8, <1>9, <1>10, <1>11, <1>12, <1>13 DEF ListInv

\* The page goes on to what its operation s does next, op.
LEMMA OperationTypes ==
  ASSUME ListTypeOK, NEW s \in Slots, NEW op \in Op,
         list'.ops = [list.ops EXCEPT ![s] = op]
  PROVE  /\ list'.ops \in [Slots -> Op]
         /\ \A t \in Slots : list'.ops[t] = IF t = s THEN op ELSE list.ops[t]
BY SlotTypes

\* await cancelBooking is over.
LEMMA CancelAnsweredKeepsList ==
  ASSUME ListInv, NEW s \in Slots, CancelAnswered(s) PROVE ListInv'
<1> DEFINE b == list.ops[s].id
           op == Loading(b)
<1>1. /\ ListTypeOK /\ list.ops[s].stage = "delete" /\ b \in Ids
      /\ server[b] = "CANCELLED" /\ server' = server
  BY DEF ListInv, SlotsSound, CancelAnswered, api
<1>2. list' = [list EXCEPT !.ops[s] = op, !.done = @ \cup {b}]
  BY DEF CancelAnswered
<1>3. s # 0
  <2>1. 0 \notin Ids
    BY BookingAssumption DEF Ids
  <2> QED BY <1>1, <2>1 DEF ListInv, SlotsSound
<1>4. op \in Op /\ op.id = b /\ op.stage = "load" /\ op.rows = NoRows
  BY <1>1, OpTypes DEF Loading
<1> HIDE DEF op
<1>5. /\ list'.ops = [list.ops EXCEPT ![s] = op]
      /\ list'.rows = list.rows /\ list'.done = list.done \cup {b}
      /\ list'.cancelling = list.cancelling
      /\ list'.error = list.error /\ list'.earlier = list.earlier
      /\ list'.passed = list.passed /\ list'.stale = list.stale
  BY <1>1, <1>2 DEF ListTypeOK, ListType
<1>6. /\ list'.ops \in [Slots -> Op]
      /\ \A t \in Slots : list'.ops[t] = IF t = s THEN op ELSE list.ops[t]
  BY <1>1, <1>4, <1>5, OperationTypes
<1> HIDE DEF b
<1>7. ListTypeOK'
  BY <1>1, <1>2, <1>5, <1>6 DEF ListTypeOK, ListType, Op
<1>8. SlotsSound'
  BY <1>1, <1>3, <1>4, <1>6, SlotTypes DEF ListInv, SlotsSound
<1>9. RowsSound'
  <2>1. \A x \in Ids : NoRows[x] \notin Booked
    BY DEF NoRows, Booked
  <2> QED BY <1>1, <1>4, <1>5, <1>6, <2>1 DEF ListInv, RowsSound, Booked
<1>10. Running' = Running
  BY <1>1, <1>4, <1>6 DEF Running
<1>11. SpinnerIsTrue'
  <2>1. \A t \in Running : list'.ops[t].id = list.ops[t].id
    BY <1>4, <1>6 DEF Running, b
  <2> QED BY <1>5, <1>10, <2>1 DEF ListInv, SpinnerIsTrue
<1>12. AnswersOrdered' /\ DoneShown'
  <2>1. Answers' = Answers
    BY <1>1, <1>4, <1>6 DEF Answers
  <2>2. \A t \in Answers : list'.ops[t] = list.ops[t]
    BY <1>1, <1>6 DEF Answers
  <2>3. AnswersOrdered'
    BY <1>5, <2>1, <2>2 DEF ListInv, AnswersOrdered
  <2>4. \A c \in Ids : Awaited(c) => Awaited(c)'
    BY <1>1, <1>6 DEF Awaited
  <2>5. \A c \in Ids : Settled(c) => Settled(c)'
    BY <1>5, <2>1, <2>2 DEF Settled
  <2>6. PICK d \in Ids : d = b
    BY <1>1
  <2>7. Awaited(d)'
    BY <1>4, <1>6, <2>6 DEF Awaited, b
  <2>8. DoneShown'
    <3> SUFFICES ASSUME ~list.error, NEW c \in list'.done
                 PROVE  Awaited(c)' \/ Settled(c)'
      BY <1>5 DEF DoneShown
    <3>1. CASE c = d
      BY <2>7, <3>1
    <3>2. CASE c \in list.done
      <4>1. c \in Ids /\ (Awaited(c) \/ Settled(c))
        BY <1>1, <3>2, SlotTypes DEF ListInv, DoneShown
      <4> QED BY <2>4, <2>5, <4>1
    <3> QED BY <1>5, <2>6, <3>1, <3>2
  <2> QED BY <2>3, <2>8
<1> QED BY <1>7, <1>8, <1>9, <1>11, <1>12 DEF ListInv

\* The service answers with the bookings as they are.
LEMMA ReadRowsKeepsList ==
  ASSUME ListInv, CallsSound, NEW s \in Slots, ReadRows(s) PROVE ListInv'
<1> DEFINE op == [list.ops[s] EXCEPT !.stage = "answer", !.rows = Rows]
<1>1. ListTypeOK /\ list.ops[s].stage = "load" /\ server' = server
  BY DEF ListInv, ReadRows, api
<1>2. list' = [list EXCEPT !.ops = [list.ops EXCEPT ![s] = op],
                           !.earlier = [list.earlier EXCEPT ![s] = Answers]]
  BY <1>1, SlotTypes DEF ReadRows, ListTypeOK, ListType, Op
<1>3. /\ Rows \in Snapshot
      /\ \A b \in Ids : server[b] \in Booked => Rows[b] = server[b]
      /\ \A b \in Ids : Rows[b] \in Booked => server[b] \in Booked
  BY DEF Rows, Snapshot, Booked, Statuses, Life!Statuses
<1>4. /\ op \in Op /\ op.id = list.ops[s].id /\ op.stage = "answer"
      /\ op.rows = Rows
  BY <1>1, <1>3, SlotTypes DEF Op
<1> HIDE DEF op
<1>5. /\ list'.ops = [list.ops EXCEPT ![s] = op]
      /\ list'.rows = list.rows /\ list'.done = list.done
      /\ list'.cancelling = list.cancelling
      /\ list'.error = list.error
      /\ list'.earlier = [list.earlier EXCEPT ![s] = Answers]
      /\ list'.passed = list.passed /\ list'.stale = list.stale
  BY <1>1, <1>2 DEF ListTypeOK, ListType
<1>6. /\ list'.ops \in [Slots -> Op]
      /\ \A t \in Slots : list'.ops[t] = IF t = s THEN op ELSE list.ops[t]
  BY <1>1, <1>4, <1>5, OperationTypes
<1>7. ListTypeOK'
  <2>1. [list.earlier EXCEPT ![s] = Answers] \in [Slots -> SUBSET Slots]
    BY <1>1, SlotTypes DEF Answers
  <2> DEFINE earlier == [list.earlier EXCEPT ![s] = Answers]
             ops == [list.ops EXCEPT ![s] = op]
  <2>2. ops \in [Slots -> Op]
    BY <1>5, <1>6
  <2>3. list' = [list EXCEPT !.ops = ops, !.earlier = earlier]
    BY <1>2
  <2> HIDE DEF earlier, ops
  <2> QED BY <1>1, <2>1, <2>2, <2>3 DEF ListTypeOK, ListType, Op, earlier
<1>8. SlotsSound'
  BY <1>1, <1>4, <1>6, SlotTypes DEF ListInv, SlotsSound
<1>9. RowsSound'
  BY <1>1, <1>3, <1>4, <1>5, <1>6 DEF ListInv, RowsSound, Booked
<1>10. Running' = Running
  BY <1>1, <1>4, <1>6 DEF Running
<1>11. SpinnerIsTrue'
  <2>1. \A t \in Running : list'.ops[t].id = list.ops[t].id
    BY <1>4, <1>6 DEF Running
  <2> QED BY <1>5, <1>10, <2>1 DEF ListInv, SpinnerIsTrue
<1>12. s \notin Answers /\ Answers' = Answers \cup {s}
  BY <1>1, <1>4, <1>6 DEF Answers
<1>13. \A u \in Slots : list'.earlier[u] = IF u = s THEN Answers ELSE list.earlier[u]
  BY <1>1, <1>5, SlotTypes
<1>14. AnswersOrdered'
  <2> SUFFICES ASSUME NEW u \in Answers'
      PROVE /\ list'.earlier[u] \subseteq Answers' \ {u}
            /\ \A r \in Answers' : r # u =>
                    r \in list'.earlier[u] \/ u \in list'.earlier[r]
            /\ \A r \in list'.earlier[u], b \in Ids :
                    list'.ops[r].rows[b] = "CANCELLED" =>
                        list'.ops[u].rows[b] = "CANCELLED"
    BY DEF AnswersOrdered
  <2>0. u \in Slots /\ Answers \subseteq Slots
    BY <1>12 DEF Answers
  <2>1. CASE u = s
    <3>1. list'.earlier[u] = Answers /\ list'.ops[u].rows = Rows
      BY <1>4, <1>6, <1>13, <2>1
    <3>2. \A r \in Answers, b \in Ids :
            list.ops[r].rows[b] = "CANCELLED" => Rows[b] = "CANCELLED"
      BY <1>3, <2>0 DEF ListInv, RowsSound, Booked
    <3>3. \A r \in Answers : list'.ops[r] = list.ops[r]
      BY <1>6, <1>12, <2>0
    <3> QED BY <1>12, <2>1, <3>1, <3>2, <3>3
  <2>2. CASE u # s
    <3>1. u \in Answers /\ list'.earlier[u] = list.earlier[u]
      BY <1>12, <1>13, <2>0, <2>2
    <3>2. /\ list.earlier[u] \subseteq Answers \ {u}
          /\ \A r \in Answers : r # u => r \in list.earlier[u] \/ u \in list.earlier[r]
          /\ \A r \in list.earlier[u], b \in Ids :
                list.ops[r].rows[b] = "CANCELLED" => list.ops[u].rows[b] = "CANCELLED"
      BY <3>1 DEF ListInv, AnswersOrdered
    <3>3. \A r \in Answers : list'.ops[r] = list.ops[r]
      BY <1>6, <1>12, <2>0
    <3>4. list'.earlier[s] = Answers
      BY <1>13
    <3>5. \A r \in Answers : list'.earlier[r] = list.earlier[r]
      BY <1>12, <1>13, <2>0
    <3> QED BY <1>12, <3>1, <3>2, <3>3, <3>4, <3>5
  <2> QED BY <2>1, <2>2
<1>15. DoneShown'
  <2> SUFFICES ASSUME NEW b \in list.done, Awaited(b) \/ Settled(b)
               PROVE  Awaited(b)' \/ Settled(b)'
    BY <1>5 DEF ListInv, DoneShown
  <2>1. b \in Ids /\ Rows[b] = "CANCELLED"
    BY <1>1, <1>3, SlotTypes DEF ListInv, RowsSound, Booked
  <2>2. CASE Awaited(b)
    <3>1. PICK x \in Slots : /\ list.ops[x].id = b
            /\ \/ list.ops[x].stage = "load"
               \/ list.ops[x].stage = "answer" /\ list.ops[x].rows[b] = "CANCELLED"
      BY <2>2 DEF Awaited
    <3>2. /\ list'.ops[x].id = b
          /\ \/ list'.ops[x].stage = "load"
             \/ list'.ops[x].stage = "answer" /\ list'.ops[x].rows[b] = "CANCELLED"
      BY <1>4, <1>6, <2>1, <3>1
    <3> QED BY <3>2 DEF Awaited
  <2>3. CASE Settled(b)
    <3>1. \A u \in Answers' \ list'.passed : list'.ops[u].rows[b] = "CANCELLED"
      <4> SUFFICES ASSUME NEW u \in Answers' \ list'.passed
                   PROVE  list'.ops[u].rows[b] = "CANCELLED"
        OBVIOUS
      <4>1. CASE u = s
        BY <1>4, <1>6, <2>1, <4>1
      <4>2. CASE u # s
        <5>1. u \in Answers \ list.passed /\ u \in Slots
          BY <1>5, <1>12, <4>2 DEF Answers
        <5> QED BY <1>6, <2>3, <4>2, <5>1 DEF Settled
      <4> QED BY <4>1, <4>2
    <3> QED BY <1>5, <2>3, <3>1 DEF Settled
  <2> QED BY <2>2, <2>3
<1> QED BY <1>7, <1>8, <1>9, <1>11, <1>14, <1>15 DEF ListInv

\* An operation ends: with an alert, with an error, or with the rows it read.
LEMMA EndedKeepsList ==
  ASSUME ListInv, UNCHANGED api, NEW s \in Slots, list.ops[s].stage # "idle",
         \/ CancelFails(s) \/ LoadAnswered(s) \/ LoadFails(s)
  PROVE  ListInv'
<1> DEFINE earlier == [t \in Slots |-> IF t = s THEN {} ELSE list.earlier[t] \ {s}]
<1>1. ListTypeOK /\ server' = server
  BY DEF ListInv, api
<1>2. Idle \in Op /\ Idle.stage = "idle" /\ Idle.id = 0 /\ Idle.rows = NoRows
  BY OpTypes DEF Idle
<1>3. PICK rows \in Snapshot, loading \in BOOLEAN, error \in BOOLEAN,
           passed \in SUBSET Slots, stale \in BOOLEAN :
        /\ list' = [Ended(list, s) EXCEPT !.rows = rows, !.loading = loading,
                        !.error = error, !.passed = passed, !.stale = stale]
        /\ \/ /\ list.ops[s].stage = "delete"
              /\ rows = list.rows /\ error = list.error
              /\ passed = list.passed \ {s} /\ stale = list.stale
           \/ /\ list.ops[s].stage = "answer"
              /\ rows = list.ops[s].rows /\ error = list.error
              /\ passed = (list.passed \cup list.earlier[s]) \ {s}
              /\ stale = (s \in list.passed)
           \/ error /\ rows = list.rows
  <2>0. earlier \in [Slots -> SUBSET Slots] /\ list.passed \ {s} \in SUBSET Slots
    BY <1>1, SlotTypes
  <2>1. Ended(list, s) \in [rows : Snapshot, filter : Filters, loading : BOOLEAN,
            cancelling : Ids \cup {0}, error : BOOLEAN, ops : [Slots -> Op],
            done : SUBSET Ids, earlier : [Slots -> SUBSET Slots],
            passed : SUBSET Slots, stale : BOOLEAN]
    BY <1>1, <1>2, <2>0 DEF Ended, Over, ListTypeOK, ListType, Op
  <2>2. /\ Ended(list, s).rows = list.rows /\ Ended(list, s).loading = list.loading
        /\ Ended(list, s).error = list.error
        /\ Ended(list, s).passed = list.passed \ {s}
        /\ Ended(list, s).stale = list.stale
    BY <1>1 DEF Ended, Over, ListTypeOK, ListType
  <2>3. /\ list.rows \in Snapshot /\ list.ops[s].rows \in Snapshot
        /\ list.loading \in BOOLEAN /\ list.error \in BOOLEAN
        /\ list.stale \in BOOLEAN /\ (s \in list.passed) \in BOOLEAN
        /\ (list.passed \cup list.earlier[s]) \ {s} \in SUBSET Slots
    BY <1>1, SlotTypes DEF ListTypeOK, ListType, Op
  <2> DEFINE e == Ended(list, s)
  <2> HIDE DEF e
  <2>4. CASE CancelFails(s)
    <3>1. list' = e /\ list.ops[s].stage = "delete"
      BY <2>4 DEF CancelFails, e
    <3>2. e = [e EXCEPT !.rows = list.rows, !.loading = list.loading,
                !.error = list.error, !.passed = list.passed \ {s},
                !.stale = list.stale]
      BY <2>1, <2>2 DEF e
    <3> QED BY <2>0, <2>3, <3>1, <3>2 DEF e
  <2>5. CASE LoadAnswered(s)
    <3> DEFINE passed == (list.passed \cup list.earlier[s]) \ {s}
               stale == s \in list.passed
    <3>1. list' = [[e EXCEPT !.loading = FALSE, !.passed = passed, !.stale = stale]
                        EXCEPT !.rows = list.ops[s].rows]
      BY <2>5 DEF LoadAnswered, Loaded, Answered, e
    <3> HIDE DEF passed, stale
    <3>2. list' = [e EXCEPT !.rows = list.ops[s].rows, !.loading = FALSE,
                            !.error = list.error, !.passed = passed, !.stale = stale]
      BY <2>1, <2>2, <3>1 DEF e
    <3> QED BY <2>3, <2>5, <3>2 DEF LoadAnswered, e, passed, stale
  <2>6. CASE LoadFails(s)
    <3>1. list' = [e EXCEPT !.error = TRUE, !.loading = FALSE]
      BY <2>6 DEF LoadFails, NotLoaded, e
    <3>2. list' = [e EXCEPT !.rows = list.rows, !.loading = FALSE, !.error = TRUE,
                            !.passed = list.passed \ {s}, !.stale = list.stale]
      BY <2>1, <2>2, <3>1 DEF e
    <3> QED BY <2>0, <2>3, <3>2 DEF e
  <2> QED BY <2>4, <2>5, <2>6
<1>4. /\ list'.ops = [list.ops EXCEPT ![s] = Idle]
      /\ list'.rows = rows /\ list'.done = list.done
      /\ list'.cancelling = (IF s = 0 THEN list.cancelling ELSE 0)
      /\ list'.error = error /\ list'.earlier = earlier
      /\ list'.passed = passed /\ list'.stale = stale
  BY <1>1, <1>3 DEF Ended, Over, ListTypeOK, ListType
<1>5. /\ list'.ops \in [Slots -> Op]
      /\ \A t \in Slots : list'.ops[t] = IF t = s THEN Idle ELSE list.ops[t]
  BY <1>1, <1>2, <1>4, OperationTypes
<1>6. ListTypeOK'
  <2>1. earlier \in [Slots -> SUBSET Slots]
    BY <1>1, SlotTypes
  <2> HIDE DEF earlier
  <2> QED BY <1>1, <1>3, <1>4, <1>5, <2>1 DEF Ended, Over, ListTypeOK, ListType, Op
<1>7. SlotsSound'
  BY <1>1, <1>2, <1>5, SlotTypes DEF ListInv, SlotsSound
<1>8. RowsSound'
  <2>1. \A x \in Ids : NoRows[x] \notin Booked
    BY DEF NoRows, Booked
  <2>2. \A x \in Ids : rows[x] \in Booked => server[x] \in Booked
    BY <1>3 DEF ListInv, RowsSound
  <2> QED BY <1>1, <1>2, <1>4, <1>5, <2>1, <2>2 DEF ListInv, RowsSound, Booked
<1>9. Running' = Running \ {s}
  BY <1>2, <1>5 DEF Running
<1>10. SpinnerIsTrue'
  <2> SUFFICES ASSUME s = 0, list.cancelling # 0
               PROVE  \E t \in Running' : list'.ops[t].id = list.cancelling
    BY <1>4 DEF SpinnerIsTrue
  <2>1. PICK t \in Running : list.ops[t].id = list.cancelling
    BY DEF ListInv, SpinnerIsTrue
  <2>2. t # s
    BY <2>1 DEF ListInv, SlotsSound
  <2> QED BY <1>5, <1>9, <2>1, <2>2 DEF Running
<1>11. Answers' = Answers \ {s}
  BY <1>2, <1>5 DEF Answers
<1>12. \A t \in Answers' : /\ t # s /\ t \in Answers /\ t \in Slots
                          /\ list'.ops[t] = list.ops[t]
                          /\ list'.earlier[t] = list.earlier[t] \ {s}
  <2>1. \A t \in Slots : t # s => earlier[t] = list.earlier[t] \ {s}
    OBVIOUS
  <2> HIDE DEF earlier
  <2> QED BY <1>4, <1>5, <1>11, <2>1 DEF Answers
<1> HIDE DEF earlier
<1>13. AnswersOrdered'
  BY <1>11, <1>12 DEF ListInv, AnswersOrdered
<1>14. DoneShown'
  <2> SUFFICES ASSUME NEW b \in list.done, ~error PROVE Awaited(b)' \/ Settled(b)'
    BY <1>4 DEF DoneShown
  <2>0. b \in Ids
    BY <1>1, SlotTypes
  <2>1. CASE /\ list.ops[s].stage = "delete"
             /\ rows = list.rows /\ error = list.error
             /\ passed = list.passed \ {s} /\ stale = list.stale
    <3>1. Awaited(b) \/ Settled(b)
      BY <2>1 DEF ListInv, DoneShown
    <3>2. Awaited(b) => Awaited(b)'
      BY <1>5, <2>1 DEF Awaited
    <3>3. Settled(b) => Settled(b)'
      BY <1>4, <1>12, <2>1 DEF Settled
    <3> QED BY <3>1, <3>2, <3>3
  <2>2. CASE /\ list.ops[s].stage = "answer"
             /\ rows = list.ops[s].rows /\ error = list.error
             /\ passed = (list.passed \cup list.earlier[s]) \ {s}
             /\ stale = (s \in list.passed)
    <3>1. Awaited(b) \/ Settled(b)
      BY <2>2 DEF ListInv, DoneShown
    <3>2. s \in Answers
      BY <2>2 DEF Answers
    \* What s has, every answer has that was not read before it.
    <3>3. ASSUME rows[b] = "CANCELLED" PROVE Settled(b)'
      <4>1. ASSUME NEW t \in Answers' \ passed PROVE list'.ops[t].rows[b] = "CANCELLED"
        <5>1. t \in Answers /\ t # s /\ t \notin list.earlier[s]
          BY <1>12, <2>2, <4>1
        <5>2. s \in list.earlier[t]
          BY <3>2, <5>1 DEF ListInv, AnswersOrdered
        <5>3. list.ops[t].rows[b] = "CANCELLED"
          BY <2>0, <2>2, <3>3, <5>1, <5>2 DEF ListInv, AnswersOrdered
        <5> QED BY <1>12, <4>1, <5>3
      <4> QED BY <1>4, <3>3, <4>1 DEF Settled
    <3>4. CASE Awaited(b)
      <4>1. PICK x \in Slots : /\ list.ops[x].id = b
              /\ \/ list.ops[x].stage = "load"
                 \/ list.ops[x].stage = "answer" /\ list.ops[x].rows[b] = "CANCELLED"
        BY <3>4 DEF Awaited
      <4>2. CASE x = s
        BY <2>2, <3>3, <4>1, <4>2
      <4>3. CASE x # s
        BY <1>5, <4>1, <4>3 DEF Awaited
      <4> QED BY <4>2, <4>3
    <3>5. CASE Settled(b)
      <4>1. \A t \in Answers' \ passed : list'.ops[t].rows[b] = "CANCELLED"
        BY <1>12, <2>2, <3>5 DEF Settled
      <4>2. s \notin list.passed => rows[b] = "CANCELLED"
        BY <2>2, <3>2, <3>5 DEF Settled
      <4> QED BY <1>4, <2>2, <4>1, <4>2 DEF Settled
    <3> QED BY <3>1, <3>4, <3>5
  <2> QED BY <1>3, <2>1, <2>2
<1> QED BY <1>6, <1>7, <1>8, <1>10, <1>13, <1>14 DEF ListInv

\* What is shown follows.
LEMMA ListInvShows == ListInv => CancelledIsShown
<1> SUFFICES ASSUME ListInv PROVE CancelledIsListed
  BY DEF ListInv, CancelledIsShown
<1> SUFFICES ASSUME Running = {}, ~list.error, ~list.stale, NEW b \in list.done
             PROVE  list.rows[b] = "CANCELLED"
  BY DEF CancelledIsListed
<1>1. ~Awaited(b)
  BY DEF Awaited, Running
<1> QED BY <1>1 DEF ListInv, DoneShown, Settled

\* Every step of the list.
LEMMA ListEventStep ==
  ASSUME ListInv, CallsSound, ListEvents
  PROVE  ListInv' /\ CallsSound' /\ Onward
<1>1. ASSUME NEW f \in Filters, SetFilter(f) PROVE ListInv' /\ CallsSound' /\ Onward
  <2>1. UNCHANGED api
    BY <1>1 DEF SetFilter
  <2> QED BY <1>1, <2>1, SetFilterKeepsList, ApiStep
<1> QED BY <1>1, HandleCancelKeepsList DEF ListEvents

LEMMA ListAnswerStep ==
  ASSUME ListInv, CallsSound, NEW s \in Slots, ListAnswers(s)
  PROVE  ListInv' /\ CallsSound' /\ Onward
<1>1. UNCHANGED api
  BY DEF ListAnswers, CancelAnswered, CancelFails, ReadRows, LoadAnswered, LoadFails
<1>2. CallsSound' /\ Onward
  BY <1>1, ApiStep
<1>3. CASE CancelFails(s) \/ LoadAnswered(s) \/ LoadFails(s)
  <2>1. list.ops[s].stage # "idle"
    BY <1>3 DEF CancelFails, LoadAnswered, LoadFails
  <2> QED BY <1>1, <1>2, <1>3, <2>1, EndedKeepsList
<1> QED BY <1>2, <1>3, CancelAnsweredKeepsList, ReadRowsKeepsList DEF ListAnswers

-----------------------------------------------------------------------------
(* The first application (App.jsx and the .jsx pages) *)

\* A request under way, or its booking on the screen, is about the trip in the
\* form, unless the trip was changed since.
DraftSound(d) ==
    /\ (d.result # 0 \/ d.loading) /\ ~d.edited => d.asked = d.trip
    /\ d.loading => d.awaits \in Ids

LegacyInv == LegacyTypeOK /\ DraftSound(draft)

DraftType ==
    [trip : {0} \cup DOMAIN PRESETS, edited : BOOLEAN, loading : BOOLEAN,
     error : BOOLEAN, result : {0} \cup Ids, asked : {0} \cup DOMAIN PRESETS,
     awaits : {0} \cup Ids]

\* The rest of what the application keeps.
SessionTypes ==
    /\ saved \in LegacyRoles \cup {Nobody} /\ who \in LegacyRoles \cup {Nobody}
    /\ route \in Routes
    /\ gate \in [busy : BOOLEAN, error : BOOLEAN]
    /\ signIns \in 0..MaxSignIns
    /\ lookup \in [loading : BOOLEAN, error : BOOLEAN,
                   result : {"none", "AUTHORIZED", "NOT AUTHORIZED"}]
    /\ stats \in {"loading", "shown", "error"}

LEMMA LegacyInvParts == LegacyInv <=> SessionTypes /\ draft \in DraftType /\ DraftSound(draft)
BY DEF LegacyInv, LegacyTypeOK, SessionTypes, DraftType

LEMMA NoDraftSound == NoDraft \in DraftType /\ DraftSound(NoDraft)
BY DEF NoDraft, DraftType, DraftSound

\* Wherever the router moves, with whomever signed in.
LEMMA MountKeepsLegacy ==
  ASSUME LegacyInv, NEW r \in Routes, LegacyMount(r),
         saved' \in LegacyRoles \cup {Nobody}, who' \in LegacyRoles \cup {Nobody},
         signIns' = signIns
  PROVE  LegacyInv'
<1>1. SessionTypes'
  BY LegacyInvParts DEF LegacyMount, SessionTypes, NoGate, NoLookup
<1>2. (draft \in DraftType /\ DraftSound(draft))'
  BY NoDraftSound DEF LegacyMount, DraftType, DraftSound
<1> QED BY <1>1, <1>2 DEF LegacyInv, LegacyTypeOK, SessionTypes, DraftType

\* The trip, the request and its answer.
LEMMA DraftStepKeepsLegacy ==
  ASSUME LegacyInv, NEW d \in DraftType, DraftSound(d), draft' = d,
         UNCHANGED <<saved, who, route, gate, signIns, lookup, stats>>
  PROVE  LegacyInv'
<1>1. SessionTypes'
  BY LegacyInvParts DEF SessionTypes
<1> QED BY <1>1 DEF LegacyInv, LegacyTypeOK, SessionTypes, DraftType, DraftSound

LEMMA ApplyPresetKeepsLegacy ==
  ASSUME LegacyInv, NEW i \in Offers, ApplyPreset(i) PROVE LegacyInv'
<1>1. draft \in DraftType /\ DraftSound(draft) /\ i \in DOMAIN PRESETS
  BY LegacyInvParts, OfferAssumption
<1>2. Applied(i) \in DraftType
  BY <1>1 DEF Applied, DraftType
<1>3. DraftSound(Applied(i))
  BY <1>1 DEF Applied, DraftType, DraftSound
<1> QED BY <1>2, <1>3, DraftStepKeepsLegacy DEF ApplyPreset

LEMMA TypeCoordinateKeepsLegacy ==
  ASSUME LegacyInv, TypeCoordinate PROVE LegacyInv'
<1> DEFINE d == [draft EXCEPT !.trip = 0, !.edited = TRUE]
<1>1. draft \in DraftType /\ DraftSound(draft)
  BY LegacyInvParts
<1>2. d \in DraftType /\ DraftSound(d)
  BY <1>1 DEF DraftType, DraftSound
<1> QED BY <1>2, DraftStepKeepsLegacy DEF TypeCoordinate

LEMMA RequestKeepsLegacy ==
  ASSUME LegacyInv, NEW b \in Ids, RequestBooking(b) PROVE LegacyInv'
<1> DEFINE d == [draft EXCEPT !.loading = TRUE, !.error = FALSE, !.result = 0,
                    !.asked = draft.trip, !.edited = FALSE, !.awaits = b]
<1>1. draft \in DraftType
  BY LegacyInvParts
<1>2. d \in DraftType /\ DraftSound(d)
  BY <1>1 DEF DraftType, DraftSound
<1> QED BY <1>2, DraftStepKeepsLegacy DEF RequestBooking

LEMMA BookingAnsweredKeepsLegacy ==
  ASSUME LegacyInv, BookingAnswered PROVE LegacyInv'
<1> DEFINE b == draft.awaits
           yes == [draft EXCEPT !.loading = FALSE, !.awaits = 0, !.result = b]
           no == [draft EXCEPT !.loading = FALSE, !.awaits = 0, !.error = TRUE]
<1>1. draft \in DraftType /\ DraftSound(draft) /\ draft.loading
  BY LegacyInvParts DEF BookingAnswered
<1>2. b \in Ids
  BY <1>1 DEF DraftSound
<1>3. yes \in DraftType /\ DraftSound(yes)
  BY <1>1, <1>2 DEF DraftType, DraftSound
<1>4. no \in DraftType /\ DraftSound(no)
  BY <1>1 DEF DraftType, DraftSound
<1>5. draft' = yes \/ draft' = no
  BY DEF BookingAnswered
<1> HIDE DEF yes, no
<1> QED BY <1>3, <1>4, <1>5, DraftStepKeepsLegacy DEF BookingAnswered

\* The forms of the session, and the two pages beside the bookings.
LEMMA PageStepKeepsLegacy ==
  ASSUME LegacyInv, SubmitLogin \/ SubmitRegister \/ GateFails \/ LegacyLookup \/ LegacyStats
  PROVE  LegacyInv'
<1>1. UNCHANGED <<saved, who, route, draft>>
  BY DEF SubmitLogin, SubmitRegister, SubmitGate, GateFails, LegacyLookup, LegacyStats
<1>2. gate' \in [busy : BOOLEAN, error : BOOLEAN] /\ signIns' \in 0..MaxSignIns
  <2>1. gate \in [busy : BOOLEAN, error : BOOLEAN] /\ signIns \in 0..MaxSignIns
    BY LegacyInvParts DEF SessionTypes
  <2>2. signIns' = signIns \/ (signIns < MaxSignIns /\ signIns' = signIns + 1)
    BY DEF SubmitLogin, SubmitRegister, SubmitGate, GateFails, LegacyLookup, LegacyStats
  <2>3. signIns' \in 0..MaxSignIns
    BY <2>1, <2>2, LegacyAssumption
  <2>4. gate' \in [busy : BOOLEAN, error : BOOLEAN]
    <3>1. CASE SubmitLogin \/ SubmitRegister \/ GateFails
      <4>1. \/ gate' = [busy |-> TRUE, error |-> FALSE]
            \/ gate' = [busy |-> FALSE, error |-> TRUE]
        BY <3>1, Zenon DEF SubmitLogin, SubmitRegister, SubmitGate, GateFails
      <4>2. \A busy, error \in BOOLEAN :
              [busy |-> busy, error |-> error] \in [busy : BOOLEAN, error : BOOLEAN]
        OBVIOUS
      <4>3. TRUE \in BOOLEAN /\ FALSE \in BOOLEAN
        OBVIOUS
      <4> QED BY <4>1, <4>2, <4>3, Zenon
    <3>2. CASE LegacyLookup \/ LegacyStats
      <4>1. gate' = gate
        BY <3>2 DEF LegacyLookup, LegacyStats
      <4> QED BY <2>1, <4>1
    <3> QED BY <3>1, <3>2
  <2> QED BY <2>3, <2>4
<1>3. /\ lookup' \in [loading : BOOLEAN, error : BOOLEAN,
                      result : {"none", "AUTHORIZED", "NOT AUTHORIZED"}]
      /\ stats' \in {"loading", "shown", "error"}
  BY LegacyInvParts
  DEF SessionTypes, NoLookup, SubmitLogin, SubmitRegister, SubmitGate, GateFails,
      LegacyLookup, LegacyStats
<1> QED BY <1>1, <1>2, <1>3 DEF LegacyInv, LegacyTypeOK, DraftSound

LEMMA TargetIsRoute ==
  ASSUME NEW u, NEW r \in Routes PROVE LegacyTarget(u, r) \in Routes
BY DEF LegacyTarget, PrivateRoute, Routes, Drivers

\* Every step of the application.
LEMMA LegacyStep == ASSUME LegacyInv, LegacyNext PROVE LegacyInv'
<1>1. /\ saved \in LegacyRoles \cup {Nobody} /\ who \in LegacyRoles \cup {Nobody}
      /\ route \in Routes
  BY LegacyInvParts DEF SessionTypes
<1>2. CASE LegacyRedirect
  BY <1>1, <1>2, TargetIsRoute, MountKeepsLegacy DEF LegacyRedirect
<1>3. ASSUME NEW r \in Routes, OpenDocument(r) \/ LegacyFollow(r) PROVE LegacyInv'
  BY <1>1, <1>3, MountKeepsLegacy DEF OpenDocument, LegacyFollow
<1>4. CASE Logout \/ LegacyUnauthorized
  <2>1. "login" \in Routes
    BY DEF Routes
  <2> QED BY <1>4, <2>1, MountKeepsLegacy DEF Logout, LegacyUnauthorized
<1>5. ASSUME NEW role \in LegacyRoles, LoginAccepted(role) \/ RegisterAccepted(role)
      PROVE  LegacyInv'
  <2>1. PICK r \in Routes : EnterAs(role, r)
    BY <1>5 DEF LoginAccepted, RegisterAccepted, Routes, Drivers
  <2> QED BY <2>1, MountKeepsLegacy DEF EnterAs
<1>6. CASE SubmitLogin \/ SubmitRegister \/ GateFails \/ LegacyLookup \/ LegacyStats
  BY <1>6, PageStepKeepsLegacy
<1>7. CASE UNCHANGED legacyOnly
  <2>1. UNCHANGED <<saved, who, route, gate, signIns, lookup, stats>> /\ draft' = draft
    BY <1>7 DEF legacyOnly
  <2> QED BY <2>1, LegacyInvParts, DraftStepKeepsLegacy
<1>8. CASE LegacyList \/ \E s \in Slots : LegacyListAnswers(s)
  BY <1>7, <1>8 DEF LegacyList, LegacyListAnswers
<1> QED
  BY <1>2, <1>3, <1>4, <1>5, <1>6, <1>7, <1>8, ApplyPresetKeepsLegacy,
     TypeCoordinateKeepsLegacy, RequestKeepsLegacy, BookingAnsweredKeepsLegacy
  DEF LegacyNext

\* What the steps of the application do to the list and to the service.
LEMMA LegacyStepKeepsRest ==
  ASSUME ListInv, CallsSound, LegacyNext
  PROVE  ListInv' /\ CallsSound' /\ Onward
<1>1. ASSUME UNCHANGED api, NEW r, LegacyMount(r)
      PROVE  ListInv' /\ CallsSound' /\ Onward
  <2>1. CallsSound' /\ Onward
    BY <1>1, ApiStep
  <2>2. (list \in {Unlisted, OpenedList} => ListInv)'
    BY ListMounted, PTL
  <2>3. list' = Unlisted \/ list' = OpenedList
    BY <1>1 DEF LegacyMount
  <2>4. ListInv'
    BY <2>2, <2>3
  <2> QED BY <2>1, <2>4
<1>2. ASSUME UNCHANGED <<api, list>> PROVE ListInv' /\ CallsSound' /\ Onward
  <2>1. CallsSound' /\ Onward
    BY <1>2, ApiStep
  <2> QED BY <1>2, <2>1, ServiceKeepsList
<1>3. ASSUME NEW b \in Ids, RequestBooking(b)
      PROVE  ListInv' /\ CallsSound' /\ Onward
  <2>1. IsNext(b) /\ SendPost(b) /\ calls' = calls /\ list' = list
    BY <1>3 DEF RequestBooking
  <2>2. CallsSound' /\ Onward
    BY <2>1, ApiStep
  <2> QED BY <2>1, <2>2, ServiceKeepsList
<1>4. CASE ServerStep /\ UNCHANGED <<list, legacyOnly>>
  <2>1. CallsSound' /\ Onward
    BY <1>4, ApiStep
  <2> QED BY <1>4, <2>1, ServiceKeepsList
<1>5. CASE LegacyList
  BY <1>5, ListEventStep DEF LegacyList
<1>6. ASSUME NEW s \in Slots, LegacyListAnswers(s)
      PROVE  ListInv' /\ CallsSound' /\ Onward
  BY <1>6, ListAnswerStep DEF LegacyListAnswers
<1>7. CASE \/ LegacyRedirect \/ Logout \/ LegacyUnauthorized
           \/ \E r \in Routes : OpenDocument(r) \/ LegacyFollow(r)
           \/ \E role \in LegacyRoles : LoginAccepted(role) \/ RegisterAccepted(role)
  <2>1. \E r : UNCHANGED api /\ LegacyMount(r)
    BY <1>7 DEF LegacyRedirect, Logout, LegacyUnauthorized, OpenDocument,
                LegacyFollow, LoginAccepted, RegisterAccepted, EnterAs
  <2> QED BY <1>1, <2>1
<1>8. CASE \/ SubmitLogin \/ SubmitRegister \/ GateFails \/ TypeCoordinate
           \/ BookingAnswered \/ LegacyLookup \/ LegacyStats
           \/ \E i \in Offers : ApplyPreset(i)
  <2>1. UNCHANGED <<api, list>>
    BY <1>8 DEF SubmitLogin, SubmitRegister, SubmitGate, GateFails, TypeCoordinate,
                BookingAnswered, LegacyLookup, LegacyStats, ApplyPreset
  <2> QED BY <1>2, <2>1
<1> QED BY <1>3, <1>4, <1>5, <1>6, <1>7, <1>8 DEF LegacyNext

\* The six presets: the box of coordinates and the note agree on each.
LEMMA NoteFitsTrip ==
  \A i \in DOMAIN PRESETS : IsMultiRegion(i) = PRESETS[i].cross
<1>1. DOMAIN PRESETS = 1..6
  BY SMT DEF PRESETS
<1>2. GetRegion(<<533498, -62603>>) = "IE" /\ GetRegion(<<518985, -84756>>) = "IE"
  BY SMT DEF GetRegion, InBox
<1>3. /\ GetRegion(<<524862, -18904>>) = "UK" /\ GetRegion(<<515074, -1278>>) = "UK"
      /\ GetRegion(<<534808, -22426>>) = "UK"
  BY SMT DEF GetRegion, InBox
<1>4. GetRegion(<<488566, 23522>>) = "FR" /\ GetRegion(<<457640, 48357>>) = "FR"
  BY SMT DEF GetRegion, InBox
<1>5. /\ PRESETS[1] = Trip(533498, -62603, 518985, -84756, FALSE)
      /\ PRESETS[2] = Trip(533498, -62603, 524862, -18904, TRUE)
      /\ PRESETS[3] = Trip(515074, -1278, 534808, -22426, FALSE)
      /\ PRESETS[4] = Trip(488566, 23522, 457640, 48357, FALSE)
      /\ PRESETS[5] = Trip(515074, -1278, 488566, 23522, TRUE)
      /\ PRESETS[6] = Trip(518985, -84756, 488566, 23522, TRUE)
  BY SMT DEF PRESETS
<1>6. IsMultiRegion(1) = PRESETS[1].cross
  <2>1. /\ PRESETS[1].o = <<533498, -62603>> /\ PRESETS[1].d = <<518985, -84756>>
        /\ PRESETS[1].cross = FALSE
    BY SMT, <1>5 DEF Trip
  <2>2. GetRegion(PRESETS[1].o) = "IE" /\ GetRegion(PRESETS[1].d) = "IE"
    BY SMT, <1>2, <2>1
  <2>3. PRESETS[1].cross = FALSE
    BY SMT, <2>1
  <2> QED BY Zenon, <2>2, <2>3 DEF IsMultiRegion
<1>7. IsMultiRegion(2) = PRESETS[2].cross
  <2>1. /\ PRESETS[2].o = <<533498, -62603>> /\ PRESETS[2].d = <<524862, -18904>>
        /\ PRESETS[2].cross = TRUE
    BY SMT, <1>5 DEF Trip
  <2>2. GetRegion(PRESETS[2].o) = "IE" /\ GetRegion(PRESETS[2].d) = "UK"
    BY SMT, <1>2, <1>3, <2>1
  <2>3. PRESETS[2].cross = TRUE
    BY SMT, <2>1
  <2> QED BY Zenon, <2>2, <2>3 DEF IsMultiRegion
<1>8. IsMultiRegion(3) = PRESETS[3].cross
  <2>1. /\ PRESETS[3].o = <<515074, -1278>> /\ PRESETS[3].d = <<534808, -22426>>
        /\ PRESETS[3].cross = FALSE
    BY SMT, <1>5 DEF Trip
  <2>2. GetRegion(PRESETS[3].o) = "UK" /\ GetRegion(PRESETS[3].d) = "UK"
    BY SMT, <1>3, <2>1
  <2>3. PRESETS[3].cross = FALSE
    BY SMT, <2>1
  <2> QED BY Zenon, <2>2, <2>3 DEF IsMultiRegion
<1>9. IsMultiRegion(4) = PRESETS[4].cross
  <2>1. /\ PRESETS[4].o = <<488566, 23522>> /\ PRESETS[4].d = <<457640, 48357>>
        /\ PRESETS[4].cross = FALSE
    BY SMT, <1>5 DEF Trip
  <2>2. GetRegion(PRESETS[4].o) = "FR" /\ GetRegion(PRESETS[4].d) = "FR"
    BY SMT, <1>4, <2>1
  <2>3. PRESETS[4].cross = FALSE
    BY SMT, <2>1
  <2> QED BY Zenon, <2>2, <2>3 DEF IsMultiRegion
<1>10. IsMultiRegion(5) = PRESETS[5].cross
  <2>1. /\ PRESETS[5].o = <<515074, -1278>> /\ PRESETS[5].d = <<488566, 23522>>
        /\ PRESETS[5].cross = TRUE
    BY SMT, <1>5 DEF Trip
  <2>2. GetRegion(PRESETS[5].o) = "UK" /\ GetRegion(PRESETS[5].d) = "FR"
    BY SMT, <1>3, <1>4, <2>1
  <2>3. PRESETS[5].cross = TRUE
    BY SMT, <2>1
  <2> QED BY Zenon, <2>2, <2>3 DEF IsMultiRegion
<1>11. IsMultiRegion(6) = PRESETS[6].cross
  <2>1. /\ PRESETS[6].o = <<518985, -84756>> /\ PRESETS[6].d = <<488566, 23522>>
        /\ PRESETS[6].cross = TRUE
    BY SMT, <1>5 DEF Trip
  <2>2. GetRegion(PRESETS[6].o) = "IE" /\ GetRegion(PRESETS[6].d) = "FR"
    BY SMT, <1>2, <1>4, <2>1
  <2>3. PRESETS[6].cross = TRUE
    BY SMT, <2>1
  <2> QED BY Zenon, <2>2, <2>3 DEF IsMultiRegion
<1> QED BY SMT, <1>1, <1>6, <1>7, <1>8, <1>9, <1>10, <1>11

\* One redirect is enough, for every role and route.
LEMMA OneRedirectSettles ==
  ASSUME NEW u \in LegacyRoles \cup {Nobody}, NEW r \in Routes
  PROVE  u \in Permits(LegacyTarget(u, r))
<1>1. u \in {"driver", "enforcement_agent", "admin", Nobody}
  BY LegacyAssumption
<1>2. CASE u \in Permits(r)
  BY <1>2 DEF LegacyTarget
<1>3. CASE u \notin Permits(r) /\ u = Nobody
  <2>1. LegacyTarget(u, r) = "login"
    BY <1>3 DEF LegacyTarget, PrivateRoute
  <2>2. Permits("login") = LegacyRoles \cup {Nobody}
    BY DEF Permits, Drivers
  <2> QED BY <2>1, <2>2
<1>4. CASE u \notin Permits(r) /\ u # Nobody
  <2>1. LegacyTarget(u, r) = "bookings/new"
    BY <1>4 DEF LegacyTarget, PrivateRoute
  <2>2. Permits("bookings/new") = LegacyRoles
    BY DEF Permits, Drivers
  <2> QED BY <1>4, <2>1, <2>2
<1> QED BY <1>2, <1>3, <1>4

LEMMA LegacyInvShows == LegacyInv => LegacyIsSound
<1> SUFFICES ASSUME LegacyInv PROVE ResultFitsForm /\ NoticeAgrees /\ LegacySettles
  BY DEF LegacyIsSound
<1>1. ResultFitsForm
  BY LegacyInvParts DEF ResultFitsForm, DraftSound
<1>2. NoticeAgrees
  BY LegacyInvParts, NoteFitsTrip DEF NoticeAgrees, DraftType
<1>3. LegacySettles
  BY LegacyInvParts, OneRedirectSettles DEF LegacySettles, SessionTypes
<1> QED BY <1>1, <1>2, <1>3
-----------------------------------------------------------------------------
(* The application that is mounted (WebApp), and the three in one *)

WebPages == {"book", "journeys", "notifications", "verify", "dashboard"}

WebInv ==
    /\ page \in WebPages
    /\ FormInv /\ OutcomeInv /\ ListInv
    /\ InboxInv /\ DeskInv /\ BoardInv

FrontendInv == bundle \in Bundles /\ WebInv /\ LegacyInv /\ SidebarInv

\* A page that a step leaves alone stays in order.
LEMMA OthersKept ==
  /\ InboxInv /\ UNCHANGED inbox => InboxInv'
  /\ DeskInv /\ UNCHANGED desk => DeskInv'
  /\ BoardInv /\ UNCHANGED boardVars => BoardInv'
  /\ LegacyInv /\ UNCHANGED legacyOnly => LegacyInv'
<1>1. InboxInv /\ UNCHANGED inbox => InboxInv'
  BY DEF InboxInv, InboxTypeOK, LastLoadAsks, ItemsAsked, AskedFor
<1>2. DeskInv /\ UNCHANGED desk => DeskInv'
  BY DEF DeskInv, DeskTypeOK
<1>3. BoardInv /\ UNCHANGED boardVars => BoardInv'
  BY DEF boardVars, BoardInv, BoardTypeOK, FigureOf
<1>4. LegacyInv /\ UNCHANGED legacyOnly => LegacyInv'
  BY DEF legacyOnly, LegacyInv, LegacyTypeOK, DraftSound
<1> QED BY <1>1, <1>2, <1>3, <1>4

\* The form while another page, or the service, moves.
LEMMA FormKept ==
  ASSUME FormInv, OutcomeInv, CallsSound', Onward, UNCHANGED form
  PROVE  FormInv' /\ OutcomeInv'
<1>1. FormInv'
  BY DEF FormInv, FormTypeOK, ChecksSound, LiveIsCurrent, CheckingIsLive,
         PreviewFits, RouteSound
<1> QED BY <1>1, OnwardKeepsOutcome

\* The steps of the booking page, and what they ask of the service.
LEMMA BookStep ==
  ASSUME FormInv, OutcomeInv, CheckEnds \/ SubmitEnds \/ BookEvents
  PROVE  FormInv' /\ OutcomeInv' /\ Onward
<1>1. CallsSound
  BY DEF OutcomeInv, RefusalsSound
<1>2. FormInv' /\ FormTypeOK'
  <2>1. FormInv'
    BY CheckEndsSound, SubmitEndsSound, RouteSelectSound, MapClickSound,
       DatetimeSound, SubmitSound DEF BookEvents
  <2> QED BY <2>1 DEF FormInv
<1>3. CASE CheckEnds
  <2>1. UNCHANGED api
    BY <1>3 DEF CheckEnds, CheckFails, CheckAnswered
  <2> QED BY <1>1, <1>2, <1>3, <2>1, CheckEndKeepsOutcome, ApiStep
<1>4. CASE SubmitEnds
  <2>1. UNCHANGED api
    BY <1>4 DEF SubmitEnds, Confirmed, Refused, NoAnswer
  <2> QED BY <1>1, <1>2, <1>4, <2>1, AnswerKeepsOutcome, ApiStep
<1>5. CASE BookEvents
  <2>1. ASSUME NEW b \in Ids, HandleSubmit(b) PROVE OutcomeInv' /\ Onward
    <3>1. IsNext(b) /\ SendPost(b) /\ calls' = calls
      BY <2>1 DEF HandleSubmit
    <3> QED BY <1>1, <1>2, <2>1, <3>1, SubmitKeepsOutcome, ApiStep
  <2>2. ASSUME NEW id \in Presets, HandleRouteSelect(id) PROVE OutcomeInv' /\ Onward
    <3>1. UNCHANGED api
      BY <2>2 DEF HandleRouteSelect
    <3> QED BY <1>1, <1>2, <2>2, <3>1, RouteSelectKeepsOutcome, ApiStep
  <2>3. ASSUME NEW p \in Points, HandleMapPointClick(p) PROVE OutcomeInv' /\ Onward
    <3>1. UNCHANGED api
      BY <2>3 DEF HandleMapPointClick
    <3> QED BY <1>1, <1>2, <2>3, <3>1, MapClickKeepsOutcome, ApiStep
  <2>4. ASSUME NEW time \in Times \cup {""}, SetDatetime(time)
        PROVE  OutcomeInv' /\ Onward
    <3>1. UNCHANGED api
      BY <2>4 DEF SetDatetime
    <3> QED BY <1>1, <1>2, <2>4, <3>1, DatetimeKeepsOutcome, ApiStep
  <2> QED BY <1>2, <1>5, <2>1, <2>2, <2>3, <2>4 DEF BookEvents
<1> QED BY <1>3, <1>4, <1>5

\* The router mounts another page: every page is as new.
LEMMA GoToKeepsInv ==
  ASSUME WebInv, NEW p \in WebPages, GoTo(p)
  PROVE  WebInv'
<1>1. page' \in WebPages /\ UNCHANGED <<api, events>>
  BY DEF GoTo
<1>2. CallsSound'
  BY <1>1, ApiStep DEF WebInv, OutcomeInv, RefusalsSound
<1>3. FormInv' /\ OutcomeInv'
  <2>1. (CallsSound /\ (form = Closed \/ FormInit) => FormInv /\ OutcomeInv)'
    BY FormMounted, PTL
  <2>2. form' = Closed \/ FormInit'
    BY DEF GoTo, OpenForm, FormInit, Closed
  <2> QED BY <1>2, <2>1, <2>2 DEF Closed
<1>4. ListInv'
  <2>1. (list \in {Unlisted, OpenedList} => ListInv)'
    BY ListMounted, PTL
  <2>2. list' \in {Unlisted, OpenedList}
    BY DEF GoTo
  <2> QED BY <2>1, <2>2
<1>5. InboxInv'
  <2>1. (inbox \in {ClosedInbox, OpenedInbox} => InboxInv)'
    BY InboxMounted, PTL
  <2>2. inbox' \in {ClosedInbox, OpenedInbox}
    BY DEF GoTo
  <2> QED BY <2>1, <2>2
<1>6. DeskInv'
  <2>1. (desk = EmptyDesk => DeskInv)'
    BY DeskMounted, PTL
  <2> QED BY <2>1 DEF GoTo
<1>7. BoardInv'
  <2>1. (events \in 0..MaxEvents /\ board \in {ClosedBoard, OpenedBoard} => BoardInv)'
    BY BoardMounted, PTL
  <2>2. board' \in {ClosedBoard, OpenedBoard'} /\ events' \in 0..MaxEvents
    BY <1>1 DEF GoTo, OpenedBoard, WebInv, BoardInv, BoardTypeOK
  <2> QED BY <2>1, <2>2
<1> QED BY <1>1, <1>3, <1>4, <1>5, <1>6, <1>7 DEF WebInv

\* Every step of the application.
LEMMA WebStep == ASSUME WebInv, WebNext PROVE WebInv' /\ Onward
<1> USE DEF WebInv
<1>1. CallsSound
  BY DEF OutcomeInv, RefusalsSound
<1>2. ASSUME NEW p \in WebPages, GoTo(p) PROVE WebInv' /\ Onward
  <2>1. UNCHANGED api
    BY <1>2 DEF GoTo
  <2> QED BY <1>1, <1>2, <2>1, GoToKeepsInv, ApiStep
<1>3. ASSUME CheckEnds \/ SubmitEnds \/ BookEvents,
             UNCHANGED <<page, events, list, inbox, desk, board>>
      PROVE  WebInv' /\ Onward
  <2>1. FormInv' /\ OutcomeInv' /\ Onward
    BY <1>3, BookStep
  <2>2. ListInv'
    BY <1>3, <2>1, ServiceKeepsList
  <2> QED BY <1>3, <2>1, <2>2, OthersKept DEF boardVars
<1>4. ASSUME ListEvents \/ \E s \in Slots : ListAnswers(s),
             UNCHANGED <<page, events, form, inbox, desk, board>>
      PROVE  WebInv' /\ Onward
  <2>1. ListInv' /\ CallsSound' /\ Onward
    BY <1>1, <1>4, ListEventStep, ListAnswerStep
  <2>2. FormInv' /\ OutcomeInv'
    BY <1>4, <2>1, FormKept
  <2> QED BY <1>4, <2>1, <2>2, OthersKept DEF boardVars
<1>5. ASSUME UNCHANGED <<page, api, form, list>>, InboxInv', DeskInv', BoardInv'
      PROVE  WebInv' /\ Onward
  <2>1. CallsSound' /\ Onward
    BY <1>1, <1>5, ApiStep
  <2>2. FormInv' /\ OutcomeInv' /\ ListInv'
    BY <1>5, <2>1, FormKept, ServiceKeepsList
  <2> QED BY <1>5, <2>1, <2>2
<1>6. ASSUME InboxAnswers \/ InboxEvents,
             UNCHANGED <<page, api, events, form, list, desk, board>>
      PROVE  WebInv' /\ Onward
  <2>1. InboxInv'
    BY <1>6, InboxAnswerKeepsInv, InboxEventKeepsInv
  <2> QED BY <1>5, <1>6, <2>1, OthersKept DEF boardVars
<1>7. ASSUME DeskAnswers \/ DeskEvents,
             UNCHANGED <<page, api, events, form, list, inbox, board>>
      PROVE  WebInv' /\ Onward
  <2>1. DeskInv'
    BY <1>7, LookupAnsweredKeepsDesk, LookupFailsKeepsDesk, CheckNowKeepsDesk,
       TypePlateKeepsDesk DEF DeskAnswers, DeskEvents
  <2> QED BY <1>5, <1>7, <2>1, OthersKept DEF boardVars
<1>8. ASSUME BoardAnswers \/ RecordEvent,
             UNCHANGED <<page, api, form, list, inbox, desk>>
      PROVE  WebInv' /\ Onward
  <2>1. BoardInv'
    BY <1>8, ReportAnsweredKeepsBoard, ReportFailsKeepsBoard, RecordEventKeepsBoard
    DEF BoardAnswers
  <2> QED BY <1>5, <1>8, <2>1, OthersKept
<1>9. ASSUME ServerStep \/ \E b \in Ids : CancelElsewhere(b),
             UNCHANGED <<page, events, pages>>
      PROVE  WebInv' /\ Onward
  <2>1. CallsSound' /\ Onward
    BY <1>1, <1>9, ApiStep
  <2>2. FormInv' /\ OutcomeInv' /\ ListInv'
    BY <1>9, <2>1, FormKept, ServiceKeepsList DEF pages
  <2> QED BY <1>9, <2>1, <2>2, OthersKept DEF pages, boardVars
<1> QED
  BY <1>2, <1>3, <1>4, <1>6, <1>7, <1>8, <1>9
  DEF WebNext, Book, Journeys, Inbox, Desk, Board, Service, WebPages

\* The invariant of every page holds from the start ...
LEMMA FrontendStarts == FrontendInit => FrontendInv
<1> SUFFICES ASSUME FrontendInit PROVE FrontendInv
  OBVIOUS
<1>1. CallsSound
  BY DEF FrontendInit, WebInit, ApiInit, Life!Init, CallsSound, ApiTypeOK, Fates,
         Life!Fates
<1>2. FormInv /\ OutcomeInv
  BY <1>1, FormMounted DEF FrontendInit, WebInit
<1>3. ListInv /\ InboxInv /\ DeskInv
  BY ListMounted, InboxMounted, DeskMounted DEF FrontendInit, WebInit
<1>4. BoardInv
  <2>1. events \in 0..MaxEvents /\ board = ClosedBoard
    BY EventAssumption DEF FrontendInit, WebInit
  <2> QED BY <2>1, BoardMounted
<1>5. LegacyInv
  <2>1. 0 \in 0..MaxSignIns
    BY LegacyAssumption
  <2>2. SessionTypes
    BY <2>1 DEF FrontendInit, LegacyInit, SessionTypes, NoGate, NoLookup, Routes
  <2>3. draft = NoDraft
    BY DEF FrontendInit, LegacyInit
  <2> QED BY <2>2, <2>3, NoDraftSound, LegacyInvParts
<1>6. SidebarInv
  BY SidebarStarts DEF FrontendInit
<1> QED BY <1>2, <1>3, <1>4, <1>5, <1>6
        DEF FrontendInv, WebInv, WebPages, FrontendInit, WebInit

\* ... and is kept by every step of whichever application a document shows.
LEMMA FrontendStep ==
  FrontendInv /\ [FrontendNext]_frontendVars => FrontendInv' /\ Onward
<1> SUFFICES ASSUME FrontendInv, [FrontendNext]_frontendVars
             PROVE  FrontendInv' /\ Onward
  OBVIOUS
<1> USE DEF FrontendInv
<1>1. SidebarInv /\ UNCHANGED bar => SidebarInv'
  BY SidebarStep
<1>2. CallsSound
  BY DEF WebInv, OutcomeInv, RefusalsSound
<1>3. CASE WebNext /\ UNCHANGED <<bundle, bar, legacyOnly>>
  BY <1>1, <1>3, WebStep, OthersKept
<1>4. ASSUME UNCHANGED webOnly, ListInv', CallsSound', Onward PROVE WebInv'
  <2>1. FormInv' /\ OutcomeInv'
    BY <1>4, FormKept DEF webOnly, WebInv
  <2> QED BY <1>4, <2>1, OthersKept DEF webOnly, WebInv, boardVars
<1>5. CASE LegacyNext /\ UNCHANGED <<bundle, bar, webOnly>>
  <2>1. ListInv' /\ CallsSound' /\ Onward
    BY <1>2, <1>5, LegacyStepKeepsRest DEF WebInv
  <2> QED BY <1>1, <1>4, <1>5, <2>1, LegacyStep
<1>6. CASE UNCHANGED <<bundle, webVars, legacyOnly>> /\ SidebarInv'
  <2>1. UNCHANGED api /\ UNCHANGED webOnly /\ UNCHANGED list
    BY <1>6 DEF webVars, pages, webOnly
  <2>2. CallsSound' /\ Onward
    BY <1>2, <2>1, ApiStep
  <2>3. ListInv'
    BY <2>1, <2>2, ServiceKeepsList DEF WebInv
  <2> QED BY <1>4, <1>6, <2>1, <2>2, <2>3, OthersKept
<1>7. CASE SidebarNext /\ UNCHANGED <<bundle, webVars, legacyOnly>>
  BY <1>6, <1>7, SidebarStep
<1>8. CASE UNCHANGED frontendVars
  <2>1. UNCHANGED <<bundle, webVars, legacyOnly>> /\ UNCHANGED bar
    BY <1>8 DEF frontendVars, legacyVars
  <2> QED BY <1>1, <1>6, <2>1
<1> QED BY <1>3, <1>5, <1>7, <1>8 DEF FrontendNext

\* The inductive invariant of the frontend.
THEOREM FrontendInvHolds == FrontendSpec => []FrontendInv
  BY FrontendStarts, FrontendStep, PTL DEF FrontendSpec

\* Every variable of every page and of both applications keeps its type.
THEOREM FrontendTypeCorrect == FrontendSpec => []FrontendTypeOK
<1>1. FrontendInv => FrontendTypeOK
  <2> SUFFICES ASSUME FrontendInv PROVE FrontendTypeOK
    OBVIOUS
  <2>1. WebTypeOK
    BY DEF FrontendInv, WebInv, WebTypeOK, WebPages, FormInv, OutcomeInv,
           RefusalsSound, CallsSound, ListInv, InboxInv, DeskInv, BoardInv
  <2> QED BY <2>1 DEF FrontendInv, FrontendTypeOK, LegacyInv, SidebarInv
<1> QED BY <1>1, FrontendInvHolds, PTL

\* What each page promises of its screen, while documents are opened, pages
\* visited and bookings settled or cancelled in whatever order:
\* the route check and the button are the selection's (BookJourney.tsx), ...
THEOREM FrontendPreviewHolds == FrontendSpec => []PreviewIsCurrent
<1>1. FrontendInv => PreviewIsCurrent
  BY InvShows DEF FrontendInv, WebInv
<1> QED BY <1>1, FrontendInvHolds, PTL

\* ... what the form says was rolled back or found full made no booking, though
\* others are made and cancelled meanwhile (BookJourney.tsx:159-210), ...
THEOREM FrontendOutcomeHolds == FrontendSpec => []OutcomeIsTold
<1>1. FrontendInv => OutcomeIsTold
  BY OutcomeShows DEF FrontendInv, WebInv
<1> QED BY <1>1, FrontendInvHolds, PTL

\* ... the list shows what it cancelled as cancelled, overlapping cancellations
\* included, unless a load failed or the rows on the screen were read before
\* rows shown earlier (MyJourneys.tsx:22-60, in both applications), ...
THEOREM CancelledIsShownHolds == FrontendSpec => []CancelledIsShown
<1>1. FrontendInv => CancelledIsShown
  BY ListInvShows DEF FrontendInv, WebInv
<1> QED BY <1>1, FrontendInvHolds, PTL

\* ... the notifications listed are the asked-for user's, unless the load begun
\* last was answered before one for another query (Notifications.tsx:19-44), ...
THEOREM ShowsWhoIsAskedHolds == FrontendSpec => []ShowsWhoIsAsked
<1>1. FrontendInv => ShowsWhoIsAsked
  BY InboxInvShows DEF FrontendInv, WebInv
<1> QED BY <1>1, FrontendInvHolds, PTL

\* ... the verdict is on the plate looked up last (VerifyPlate.tsx), ...
THEOREM VerdictIsLatestHolds == FrontendSpec => []VerdictIsLatest
<1>1. FrontendInv => VerdictIsLatest
  BY DeskInvShows DEF FrontendInv, WebInv
<1> QED BY <1>1, FrontendInvHolds, PTL

\* ... the dashboard shows the figures of one load, each read between its
\* opening and now, and ranks them as it says (Dashboard.tsx), ...
THEOREM BoardIsTrueHolds == FrontendSpec => []BoardIsTrue
<1>1. FrontendInv => BoardIsTrue
  BY BoardInvShows DEF FrontendInv, WebInv
<1> QED BY <1>1, FrontendInvHolds, PTL

\* ... and the first application's form, notice and routes fit together.
THEOREM LegacyIsSoundHolds == FrontendSpec => []LegacyIsSound
<1>1. FrontendInv => LegacyIsSound
  BY LegacyInvShows DEF FrontendInv
<1> QED BY <1>1, FrontendInvHolds, PTL

-----------------------------------------------------------------------------
(* What a page waits for *)

\* The list is on the screen, in either application.
ListOpen == \/ bundle = "app" /\ page = "journeys"
            \/ bundle = "legacy" /\ route = "bookings"

\* A list that has nothing to show yet waits for the load on mount, ...
ListAwaits == list.loading => 0 \in Running

\* ... and so do the notifications for a load of theirs.
InboxAwaits == inbox.loading => inbox.loads # <<>>

AwaitsInv == /\ ListOpen => ListAwaits
             /\ page = "notifications" => InboxAwaits

LEMMA OpenedListAwaits ==
  /\ list = OpenedList => ListAwaits
  /\ list' = OpenedList => ListAwaits'
<1>1. 0 \in Slots
  BY CancelAssumption DEF Slots
<1>2. OpenedList.ops[0].stage = "load"
  BY <1>1 DEF OpenedList, Unlisted, Loading
<1> QED BY <1>1, <1>2 DEF ListAwaits, Running

\* Nothing is cancelled and nothing filtered before the load on mount has ended.
LEMMA ListEventAwaits == ASSUME ListInv, ListAwaits, ListEvents PROVE ListAwaits'
<1>1. list \in ListType
  BY DEF ListInv, ListTypeOK
<1>2. ~list.loading
  BY DEF ListEvents, SetFilter, Pills, HandleCancel, Offered
<1>3. list'.loading = list.loading
  BY <1>1 DEF ListEvents, SetFilter, HandleCancel, ListType
<1> QED BY <1>2, <1>3 DEF ListAwaits

\* The load on mount runs until it is answered or fails; a cancellation, or the
\* load after it, runs in another slot.
LEMMA ListAnswerAwaits ==
  ASSUME ListInv, ListAwaits, NEW s \in Slots, ListAnswers(s)
  PROVE  ListAwaits'
<1>1. list \in ListType /\ 0 \in Slots
  BY CancelAssumption DEF ListInv, ListTypeOK, Slots
<1>2. list.ops[s].stage = "delete" => s # 0
  <2>1. 0 \notin Ids
    BY BookingAssumption DEF Ids
  <2> QED BY <2>1 DEF ListInv, SlotsSound
<1>3. CASE CancelAnswered(s) \/ CancelFails(s)
  <2>1. s # 0
    BY <1>2, <1>3 DEF CancelAnswered, CancelFails
  <2>2. \E op : list'.ops = [list.ops EXCEPT ![s] = op]
    <3>1. CASE CancelAnswered(s)
      BY <1>1, <3>1 DEF CancelAnswered, ListType
    <3>2. CASE CancelFails(s)
      BY <1>1, <3>2 DEF CancelFails, Ended, Over, ListType
    <3> QED BY <1>3, <3>1, <3>2
  <2>3. list'.loading = list.loading
    BY <1>1, <1>3 DEF CancelAnswered, CancelFails, Ended, Over, ListType
  <2>4. list'.ops[0] = list.ops[0]
    BY <1>1, <2>1, <2>2 DEF ListType
  <2> QED BY <2>3, <2>4 DEF ListAwaits, Running
<1>4. CASE ReadRows(s)
  <2>1. list'.loading = list.loading
    BY <1>1, <1>4 DEF ReadRows, ListType
  <2>2. list'.ops[0].stage = list.ops[0].stage \/ list'.ops[0].stage = "answer"
    BY <1>1, <1>4 DEF ReadRows, ListType
  <2> QED BY <2>1, <2>2 DEF ListAwaits, Running
<1>5. CASE LoadAnswered(s) \/ LoadFails(s)
  <2>1. ~list'.loading
    BY <1>1, <1>5 DEF LoadAnswered, LoadFails, Loaded, NotLoaded, Answered, Ended, Over,
                      ListType
  <2> QED BY <2>1 DEF ListAwaits
<1> QED BY <1>3, <1>4, <1>5 DEF ListAnswers

LEMMA LoadAwaits ==
  ASSUME NEW p \in InboxType, p.loading => p.loads # <<>>
  PROVE  Load(p).loading => Load(p).loads # <<>>
<1>1. CASE p.target = ""
  BY <1>1 DEF Load
<1>2. CASE p.target # ""
  <2> DEFINE new == Append(p.loads, AskedFor(p))
  <2>1. new # <<>>
    <3>1. AskedFor(p) \in Query /\ p.loads \in Seq(Query)
      BY <1>2 DEF AskedFor, Query, InboxType
    <3>2. Len(new) = Len(p.loads) + 1 /\ Len(p.loads) \in Nat
      BY <3>1
    <3> HIDE DEF new
    <3>3. Len(<<>>) = 0
      OBVIOUS
    <3> QED BY <3>2, <3>3
  <2>2. Load(p).loads = new
    BY <1>2 DEF Load, AskedFor, InboxType
  <2> QED BY <2>1, <2>2
<1> QED BY <1>1, <1>2

LEMMA InboxEventAwaits == ASSUME InboxInv, InboxAwaits, InboxEvents PROVE InboxAwaits'
<1>1. inbox \in InboxType
  BY DEF InboxInv, InboxTypeOK, InboxType
<1>2. PICK p \in InboxType :
        /\ inbox' = p \/ inbox' = Load(p)
        /\ p.loading = inbox.loading /\ p.loads = inbox.loads
  <2> DEFINE Kept(p) == /\ p \in InboxType
                        /\ inbox' = p \/ inbox' = Load(p)
                        /\ p.loading = inbox.loading /\ p.loads = inbox.loads
  <2>1. ASSUME NEW p \in InboxType, inbox' = ReloadOnChange(p)
        PROVE  inbox' = p \/ inbox' = Load(p)
    BY <2>1, Zenon DEF ReloadOnChange
  <2>2. ASSUME NEW u \in Readers \cup {""}, EnterUserId(u)
        PROVE  Kept([inbox EXCEPT !.target = u])
    <3>1. /\ [inbox EXCEPT !.target = u] \in InboxType
          /\ [inbox EXCEPT !.target = u].loading = inbox.loading
          /\ [inbox EXCEPT !.target = u].loads = inbox.loads
      BY <1>1 DEF InboxType
    <3> QED BY <2>1, <2>2, <3>1 DEF EnterUserId
  <2>3. ASSUME NEW n \in Limits, ChooseLimit(n)
        PROVE  Kept([inbox EXCEPT !.limit = n])
    <3>1. /\ [inbox EXCEPT !.limit = n] \in InboxType
          /\ [inbox EXCEPT !.limit = n].loading = inbox.loading
          /\ [inbox EXCEPT !.limit = n].loads = inbox.loads
      BY <1>1 DEF InboxType
    <3> QED BY <2>1, <2>3, <3>1 DEF ChooseLimit
  <2>4. Refresh => Kept(inbox)
    BY <1>1 DEF Refresh
  <2>5. \E p : Kept(p)
    <3> HIDE DEF Kept
    <3> QED BY <2>2, <2>3, <2>4 DEF InboxEvents
  <2> QED BY <2>5
<1>3. Load(p).loading => Load(p).loads # <<>>
  BY <1>2, LoadAwaits DEF InboxAwaits
<1> QED BY <1>2, <1>3 DEF InboxAwaits

LEMMA InboxAnswerAwaits == ASSUME InboxInv, InboxAnswers PROVE InboxAwaits'
<1>1. inbox \in InboxType
  BY DEF InboxInv, InboxTypeOK, InboxType
<1>2. PICK i \in DOMAIN inbox.loads :
        \/ inbox' = [Taken(i) EXCEPT !.items = inbox.loads[i]]
        \/ inbox' = [Taken(i) EXCEPT !.error = TRUE]
  BY DEF InboxAnswers, NotificationsAnswered, NotificationsFail
<1>3. ~inbox'.loading
  BY <1>1, <1>2 DEF Taken, InboxType
<1> QED BY <1>3 DEF InboxAwaits

\* The first application opens and leaves its list, or works on it.
LEMMA LegacyListMoves ==
  ASSUME LegacyNext
  PROVE  \/ route' = "bookings" => list' = OpenedList
         \/ UNCHANGED <<list, route>>
         \/ UNCHANGED route /\ (ListEvents \/ \E s \in Slots : ListAnswers(s))
<1>1. ASSUME NEW r, LegacyMount(r) PROVE route' = "bookings" => list' = OpenedList
  BY <1>1 DEF LegacyMount
<1>2. CASE \E r \in Routes : OpenDocument(r) \/ LegacyFollow(r)
  BY <1>1, <1>2 DEF OpenDocument, LegacyFollow
<1>3. CASE LegacyRedirect \/ Logout \/ LegacyUnauthorized
  BY <1>1, <1>3 DEF LegacyRedirect, Logout, LegacyUnauthorized
<1>4. CASE \E role \in LegacyRoles : LoginAccepted(role) \/ RegisterAccepted(role)
  BY <1>1, <1>4 DEF LoginAccepted, RegisterAccepted, EnterAs
<1>5. CASE SubmitLogin \/ SubmitRegister \/ GateFails
  BY <1>5 DEF SubmitLogin, SubmitRegister, SubmitGate, GateFails
<1>6. CASE \/ \E i \in Offers : ApplyPreset(i)
           \/ TypeCoordinate \/ BookingAnswered
           \/ \E b \in Ids : RequestBooking(b)
  BY <1>6 DEF ApplyPreset, TypeCoordinate, BookingAnswered, RequestBooking
<1>7. CASE LegacyLookup \/ LegacyStats
  BY <1>7 DEF LegacyLookup, LegacyStats
<1>8. CASE LegacyList \/ \E s \in Slots : LegacyListAnswers(s)
  BY <1>8 DEF LegacyList, LegacyListAnswers, legacyOnly
<1>9. CASE ServerStep /\ UNCHANGED <<list, legacyOnly>>
  BY <1>9 DEF legacyOnly
<1> QED BY <1>2, <1>3, <1>4, <1>5, <1>6, <1>7, <1>8, <1>9 DEF LegacyNext

\* The same for the application that is mounted.
LEMMA WebListMoves ==
  ASSUME WebNext
  PROVE  \/ page' = "journeys" => list' = OpenedList
         \/ UNCHANGED <<list, page>>
         \/ UNCHANGED page /\ (ListEvents \/ \E s \in Slots : ListAnswers(s))
<1>1. ASSUME NEW p, GoTo(p) PROVE page' = "journeys" => list' = OpenedList
  BY <1>1 DEF GoTo
<1> QED BY <1>1 DEF WebNext, Book, Journeys, Inbox, Desk, Board, Service, pages

LEMMA WebInboxMoves ==
  ASSUME WebNext
  PROVE  \/ page' = "notifications" => inbox' = OpenedInbox
         \/ UNCHANGED <<inbox, page>>
         \/ UNCHANGED page /\ (InboxEvents \/ InboxAnswers)
<1>1. ASSUME NEW p, GoTo(p) PROVE page' = "notifications" => inbox' = OpenedInbox
  BY <1>1 DEF GoTo
<1> QED BY <1>1 DEF WebNext, Book, Journeys, Inbox, Desk, Board, Service, pages

LEMMA OpenedInboxAwaits == inbox' = OpenedInbox => InboxAwaits'
<1>1. OpenedInbox.loads = Append(<<>>, [of |-> Me, limit |-> 20])
  BY ReaderAssumption DEF OpenedInbox, Load, ClosedInbox
<1>2. Append(<<>>, [of |-> Me, limit |-> 20]) # <<>>
  OBVIOUS
<1> QED BY <1>1, <1>2 DEF InboxAwaits

LEMMA AwaitsStarts == FrontendInit => AwaitsInv
BY DEF FrontendInit, WebInit, LegacyInit, AwaitsInv, ListOpen

LEMMA AwaitsStep ==
  FrontendInv /\ AwaitsInv /\ [FrontendNext]_frontendVars => AwaitsInv'
<1> SUFFICES ASSUME FrontendInv, AwaitsInv, [FrontendNext]_frontendVars
             PROVE  AwaitsInv'
  OBVIOUS
<1>1. ListInv /\ InboxInv
  BY DEF FrontendInv, WebInv
<1>2. UNCHANGED list => (ListAwaits => ListAwaits')
  BY DEF ListAwaits, Running
<1>3. UNCHANGED inbox => (InboxAwaits => InboxAwaits')
  BY DEF InboxAwaits
<1>4. ListEvents \/ (\E s \in Slots : ListAnswers(s)) => (ListAwaits => ListAwaits')
  BY <1>1, ListEventAwaits, ListAnswerAwaits
<1>5. CASE bundle = "app" /\ WebNext /\ UNCHANGED <<bundle, bar, legacyOnly>>
  <2>1. ListOpen' <=> page' = "journeys"
    BY <1>5 DEF ListOpen
  <2>2. ListOpen <=> page = "journeys"
    BY <1>5 DEF ListOpen
  <2>3. page' = "journeys" => ListAwaits'
    BY <1>2, <1>4, <1>5, <2>2, WebListMoves, OpenedListAwaits DEF AwaitsInv
  <2>4. page' = "notifications" => InboxAwaits'
    BY <1>1, <1>3, <1>5, WebInboxMoves, OpenedInboxAwaits, InboxEventAwaits,
       InboxAnswerAwaits DEF AwaitsInv
  <2> QED BY <2>1, <2>3, <2>4 DEF AwaitsInv
<1>6. CASE bundle = "legacy" /\ LegacyNext /\ UNCHANGED <<bundle, bar, webOnly>>
  <2>1. ListOpen' <=> route' = "bookings"
    BY <1>6 DEF ListOpen
  <2>2. ListOpen <=> route = "bookings"
    BY <1>6 DEF ListOpen
  <2>3. route' = "bookings" => ListAwaits'
    BY <1>2, <1>4, <1>6, <2>2, LegacyListMoves, OpenedListAwaits DEF AwaitsInv
  <2> QED BY <1>3, <1>6, <2>1, <2>3 DEF AwaitsInv, webOnly
<1>7. CASE UNCHANGED <<bundle, webVars, legacyOnly>>
  BY <1>2, <1>3, <1>7 DEF AwaitsInv, ListOpen, webVars, pages, legacyOnly
<1> QED BY <1>5, <1>6, <1>7 DEF FrontendNext, frontendVars, legacyVars

\* What a page says it is waiting for is under way: the button that submits for
\* the answer to a POST, "Checking" about two points for the check of these two,
\* "Cancelling" for that cancellation, an empty list for its first load, the
\* notifications for a load, the dashboard for a report.
SpinnersAreTrue ==
    /\ form.loading => form.awaits # {}
    /\ form.checking /\ Complete(Selected(form)) =>
            [sel |-> Selected(form), live |-> TRUE] \in form.checks
    /\ SpinnerIsTrue
    /\ ListOpen => ListAwaits
    /\ page = "notifications" => InboxAwaits
    /\ board.loading => \E p \in Parts : board.answer[p] = {}
    /\ draft.loading => draft.awaits \in Ids

\* No page of either application waits for nothing, whatever overlaps, comes
\* late or fails, and wherever the user goes meanwhile (BookJourney.tsx,
\* MyJourneys.tsx, Notifications.tsx, Dashboard.tsx and the .jsx pages).
THEOREM SpinnersAreTrueHolds == FrontendSpec => []SpinnersAreTrue
<1>1. FrontendInv /\ AwaitsInv => SpinnersAreTrue
  BY DEF FrontendInv, WebInv, FormInv, ChecksSound, CheckingIsLive, OutcomeInv,
         RequestsSound, ListInv, BoardInv, LegacyInv, DraftSound, AwaitsInv,
         SpinnersAreTrue
<1>2. FrontendSpec => []AwaitsInv
  BY AwaitsStarts, AwaitsStep, FrontendInvHolds, PTL DEF FrontendSpec
<1> QED BY <1>1, <1>2, FrontendInvHolds, PTL

-----------------------------------------------------------------------------
(* What the two applications ask of the service, and the sidebar *)

\* However pages are left and opened, requests doubled and answers late, what
\* the pages ask of the service is within the life of a booking: none is cancelled
\* that was not made, and what was refused, or cancelled, no page of either
\* application revives (api/bookings.ts, MyJourneys.tsx:36-47).
THEOREM LifeIsKept == FrontendSpec => Life!Spec
<1>1. FrontendInit => Life!Init
  BY DEF FrontendInit, WebInit, ApiInit
<1>2. FrontendInv /\ [FrontendNext]_frontendVars => [Life!Next]_server
  BY FrontendStep DEF Onward
<1> QED BY <1>1, <1>2, FrontendInvHolds, PTL DEF FrontendSpec, Life!Spec

\* The sidebar keeps what SidebarHolds says of it in the frontend, where a step
\* of an application is none of its own.
THEOREM FrontendSidebarHolds == FrontendSpec => SidebarIsSound
<1>1. FrontendNext => [SidebarNext]_bar
  BY DEF FrontendNext
<1>2. [FrontendNext]_frontendVars => [SidebarNext]_bar
  BY <1>1 DEF frontendVars
<1>3. FrontendSpec => SidebarSpec
  BY <1>2, PTL DEF FrontendSpec, FrontendInit, SidebarSpec
<1> QED BY <1>3, SidebarHolds
=============================================================================
