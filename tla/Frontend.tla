------------------------------ MODULE Frontend -------------------------------
(***************************************************************************)
(* What the frontend's sources hold for a browser: the application that    *)
(* main.tsx mounts (WebApp), the one before it (App.jsx), and the sidebar  *)
(* of the component library, which neither of them mounts.  A document     *)
(* shows one of the three.                                                 *)
(***************************************************************************)
EXTENDS WebApp, LegacyApp, Sidebar

VARIABLE bundle         \* what the document shows

webOnly == <<page, events, form, inbox, desk, board>>
frontendVars == <<bundle, bar, webVars, legacyVars>>

Bundles == {"app", "legacy", "sidebar"}

FrontendTypeOK ==
    /\ bundle \in Bundles
    /\ WebTypeOK /\ LegacyTypeOK /\ SidebarTypeOK

\* Until its list is opened, the variable both applications use is Unlisted.
\* The sidebar of an application, which never shows it, is of no interest.
FrontendInit ==
    /\ bundle \in Bundles /\ WebInit /\ LegacyInit /\ SidebarInit
    /\ bundle # "sidebar" => bar = FirstRender(FALSE, "none", FALSE, FALSE, FALSE, FALSE)

FrontendNext ==
    \/ bundle = "app" /\ WebNext /\ UNCHANGED <<bundle, bar, legacyOnly>>
    \/ bundle = "legacy" /\ LegacyNext /\ UNCHANGED <<bundle, bar, webOnly>>
    \/ bundle = "sidebar" /\ SidebarNext /\ UNCHANGED <<bundle, webVars, legacyOnly>>

FrontendSpec == FrontendInit /\ [][FrontendNext]_frontendVars

\* Requests of the mounted page are answered, or fail after 15 s (client.ts,
\* client.js).
FrontendFair == FrontendSpec
    /\ WF_webVars(Book(SubmitEnds))
    /\ \A s \in Slots : WF_journeyVars(Journeys(ListAnswers(s)) \/ LegacyListAnswers(s))
=============================================================================
