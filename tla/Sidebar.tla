------------------------------ MODULE Sidebar --------------------------------
(***************************************************************************)
(* The sidebar of the component library (components/ui/sidebar.tsx,        *)
(* use-mobile.ts) in one document.  Two layouts with a state each, a       *)
(* cookie, a parent that may hold the state, and a keyboard shortcut that  *)
(* is bound anew by an effect some time after every change.                *)
(***************************************************************************)
EXTENDS Naturals

VARIABLE bar            \* the window, the provider's state, and the parent's

Collapsibles == {"offcanvas", "icon", "none"}
Closure == [mobile : BOOLEAN, open : BOOLEAN]

SidebarTypeOK == bar \in
    [narrow : BOOLEAN,          \* window.innerWidth < 768
     reported : BOOLEAN,        \* what the media query last reported
     listening : BOOLEAN,       \* the effect of useIsMobile has run
     mobile : BOOLEAN,
     collapsible : Collapsibles,
     given : BOOLEAN,           \* the parent passes open ...
     told : BOOLEAN,            \* ... and onOpenChange
     prop : BOOLEAN,            \* the parent's open
     own : BOOLEAN,             \* _open
     openMobile : BOOLEAN,
     asked : SUBSET BOOLEAN,    \* what the parent has yet to decide on
     cookie : SUBSET BOOLEAN,   \* {} before it is written
     shortcut : Closure,        \* the toggleSidebar that the listener calls
     strayed : BOOLEAN]         \* history: the parent's state is its own idea

Open(b) == IF b.given THEN b.prop ELSE b.own

\* The toggleSidebar of this render.
Current(b) == [mobile |-> b.mobile, open |-> Open(b)]

\* A first render: useIsMobile is undefined, taken for a wide window.
FirstRender(narrow, c, given, told, prop, own) ==
    [narrow |-> narrow, reported |-> narrow, listening |-> FALSE,
     mobile |-> FALSE, collapsible |-> c, given |-> given, told |-> told,
     prop |-> prop, own |-> own, openMobile |-> FALSE, asked |-> {},
     cookie |-> {}, strayed |-> FALSE,
     shortcut |-> [mobile |-> FALSE, open |-> IF given THEN prop ELSE own]]

SidebarInit ==
    \E narrow, given, told, prop, own \in BOOLEAN, c \in Collapsibles :
        bar = FirstRender(narrow, c, given, told, prop, own)

-----------------------------------------------------------------------------
(* useIsMobile *)

Resize == bar' = [bar EXCEPT !.narrow = ~@]

\* The effect subscribes to the media query and reads the width.
UseIsMobile ==
    /\ ~bar.listening
    /\ bar' = [bar EXCEPT !.listening = TRUE, !.mobile = bar.narrow,
                          !.reported = bar.narrow]

\* The event "change" of the media query.
OnChange ==
    /\ bar.listening /\ bar.reported # bar.narrow
    /\ bar' = [bar EXCEPT !.reported = bar.narrow, !.mobile = bar.narrow]

-----------------------------------------------------------------------------
(* SidebarProvider *)

\* setOpen: to the parent if it wants to know, and to the cookie in any case.
SetOpen(b, open) ==
    [b EXCEPT !.asked = IF b.told THEN {open} ELSE @,
              !.own = IF b.told THEN @ ELSE open,
              !.cookie = {open}]

\* Mutant of Toggled: toggleSidebar does not look at the layout.
ToggledWide(b, toggle) == SetOpen(b, ~toggle.open)

\* A call of the toggleSidebar made for the state in toggle.
Toggled(b, toggle) ==
    IF toggle.mobile THEN [b EXCEPT !.openMobile = ~@]
                     ELSE SetOpen(b, ~toggle.open)

\* The parent takes what it was told, or does not.
ParentDecides ==
    \E open \in bar.asked :
        \/ bar' = [bar EXCEPT !.prop = open, !.asked = {}, !.strayed = FALSE]
        \/ bar' = [bar EXCEPT !.asked = {}, !.strayed = TRUE]

\* "Control from outside the component": it changes open by itself, and
\* nothing of this reaches the cookie.
ParentMoves == bar.given /\ bar' = [bar EXCEPT !.prop = ~@, !.strayed = TRUE]

\* The effect on [toggleSidebar]: the listener of the last change goes.
Rebind ==
    /\ bar.shortcut # Current(bar)
    /\ bar' = [bar EXCEPT !.shortcut = Current(bar)]

HandleKeyDown == bar' = Toggled(bar, bar.shortcut)

SidebarTrigger == bar' = Toggled(bar, Current(bar))

\* The rail is part of the sidebar, and goes with a closed sheet.
SidebarRail == (bar.mobile => bar.openMobile) /\ SidebarTrigger

\* Escape, or a click beside the sheet.
CloseSheet ==
    /\ bar.mobile /\ bar.openMobile
    /\ bar' = [bar EXCEPT !.openMobile = FALSE]

\* What is to be seen of it; the style sheet hides the wide layout (md:block)
\* in a window that the media query has yet to report as narrow.
SidebarView(b) ==
    CASE b.collapsible = "none" -> "full"
      [] b.collapsible # "none" /\ b.mobile ->
            IF b.openMobile THEN "sheet" ELSE "hidden"
      [] OTHER -> IF b.narrow THEN "hidden"
                  ELSE IF Open(b) THEN "full"
                  ELSE IF b.collapsible = "icon" THEN "icons" ELSE "hidden"

SidebarNext ==
    \/ Resize \/ UseIsMobile \/ OnChange
    \/ SidebarTrigger \/ SidebarRail \/ HandleKeyDown
    \/ CloseSheet \/ ParentDecides \/ ParentMoves \/ Rebind

SidebarSpec == SidebarInit /\ [][SidebarNext]_bar

-----------------------------------------------------------------------------
(* Properties *)

\* The cookie is what the wide layout shows or will show: the provider's own
\* state, or what a parent took over as it was told.  (Not once the parent has
\* refused or moved by itself, nor if it passes only one of the two props.)
\* And once the media query has reported, the layout is the window's.
CookieIsOpen ==
    /\ bar.cookie # {} /\ bar.asked = {} /\ ~bar.strayed /\ bar.given = bar.told
            => bar.cookie = {Open(bar)}
    /\ bar.listening /\ bar.reported = bar.narrow => bar.mobile = bar.narrow

\* A click shows or hides the sidebar of the layout on the screen, and so does
\* the shortcut once it is bound, where the layout fits the window and no
\* parent decides instead.
TogglesAreSeen ==
    /\ SidebarTrigger \/ (bar.shortcut = Current(bar) /\ HandleKeyDown)
    /\ bar.mobile \/ (~bar.narrow /\ ~bar.given /\ ~bar.told)
    /\ bar.collapsible # "none"
    => SidebarView(bar') # SidebarView(bar)

\* The two of them, of every step: the first render has written no cookie.
SidebarIsSound == [][CookieIsOpen' /\ TogglesAreSeen]_bar
=============================================================================
