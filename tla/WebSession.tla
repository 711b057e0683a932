----------------------------- MODULE WebSession -----------------------------
(***************************************************************************)
(* The session of the browser application (AuthContext.tsx, client.ts,     *)
(* Root.tsx, routes.tsx, Navbar.tsx, SignIn.tsx, Register.tsx) in several  *)
(* tabs of one browser.  The tabs share localStorage; the signed-in user   *)
(* and the default Authorization header belong to one tab.                 *)
(*                                                                         *)
(* Whether the auth service accepts a request is a free choice here; a     *)
(* token may have expired at any time.  A token is the account it was      *)
(* issued to.                                                              *)
(***************************************************************************)
EXTENDS Naturals, FiniteSets

CONSTANTS
    Tabs,           \* browser tabs of the origin
    Accounts,       \* accounts people sign in to on this browser
    BackendRole,    \* BackendRole[a]: the role the auth service stores for a
    None,           \* no account
    MaxSubmits      \* bound: forms submitted

ASSUME AccountAssumption == None \notin Accounts
ASSUME RoleAssumption ==
    BackendRole \in [Accounts -> {"driver", "enforcement_agent", "admin"}]
ASSUME SubmitAssumption == MaxSubmits \in Nat

VARIABLES
    token,      \* localStorage routepass_token
    stored,     \* localStorage routepass_user
    loading,    \* loading[t]: the provider has not read localStorage yet
    user,       \* user[t]: who the tab shows
    header,     \* header[t]: api.defaults.headers.common.Authorization
    leaving,    \* leaving[t]: a 401 has assigned window.location
    path,       \* path[t]: the route of the tab
    signin,     \* signin[t]: a running signIn: its stage and account
    signup,     \* signup[t]: the account of a running signUp
    busy,       \* busy[t]: the mounted form whose submit is running
    error,      \* error[t]: the mounted form shows an error
    request,    \* request[t]: a page waits for an answer
    submits,    \* forms submitted so far
    mixed       \* history: two accounts, or a session that ended under a sign-in

storage == <<token, stored>>
flows == <<signin, signup, busy, error>>
vars == <<storage, loading, user, header, leaving, path, flows, request,
          submits, mixed>>

Account == Accounts \cup {None}
NoFlow == [stage |-> "none", account |-> None]
Pages == {"book", "journeys", "verify", "dashboard", "notifications"}

PublicRoutes == {"signin", "register"}
Paths == Pages \cup PublicRoutes \cup {"index"}

TypeOK ==
    /\ token \in Account /\ stored \in Account
    /\ loading \in [Tabs -> BOOLEAN] /\ leaving \in [Tabs -> BOOLEAN]
    /\ user \in [Tabs -> Account] /\ header \in [Tabs -> Account]
    /\ path \in [Tabs -> Paths]
    /\ signin \in [Tabs -> {NoFlow} \cup
                     [stage : {"login", "profile"}, account : Accounts]]
    /\ signup \in [Tabs -> Account]
    /\ busy \in [Tabs -> {"none", "signin", "register"}]
    /\ error \in [Tabs -> BOOLEAN] /\ request \in [Tabs -> BOOLEAN]
    /\ submits \in 0..MaxSubmits /\ mixed \in BOOLEAN

-----------------------------------------------------------------------------
(* Routes and roles *)

Role(a) == IF BackendRole[a] = "enforcement_agent" THEN "enforcement"
                                                   ELSE BackendRole[a]

\* Mutant of DefaultRedirect: the landing page of drivers is the admins'.
RedirectToDashboard(role) ==
    IF role = "enforcement" THEN "verify" ELSE "dashboard"

DefaultRedirect(role) ==
    CASE role = "enforcement" -> "verify"
      [] role = "admin" -> "dashboard"
      [] OTHER -> "book"

Allowed(p) ==
    CASE p \in {"book", "journeys"} -> {"driver", "admin"}
      [] p = "verify" -> {"enforcement", "admin"}
      [] p = "dashboard" -> {"admin"}
      [] OTHER -> {"driver", "enforcement", "admin"}

RoleGuard(u, p) == IF Role(u) \in Allowed(p) THEN p ELSE DefaultRedirect(Role(u))

\* Where Root, the index route and RoleGuard send a tab that is at p.
Target(u, p) ==
    CASE u = None -> IF p \in PublicRoutes THEN p ELSE "signin"
      [] u # None /\ p \in PublicRoutes -> DefaultRedirect(Role(u))
      [] u # None /\ p = "index" -> "signin"
      [] OTHER -> RoleGuard(u, p)

\* The route's page is rendered, and no <Navigate>.
Settled(t) ==
    IF user[t] = None THEN path[t] \in PublicRoutes
    ELSE path[t] \in Pages /\ Role(user[t]) \in Allowed(path[t])

\* The links of the navigation bar, the brand included.
NavLinks(u) ==
    LET role == Role(u)
    IN  {p \in Pages : role \in Allowed(p)} \cup
        {CASE role = "enforcement" -> "verify"
           [] role = "admin" -> "dashboard"
           [] OTHER -> "journeys"}

\* Does the tab show page p and take input?
Shows(t, p) == ~loading[t] /\ ~leaving[t] /\ path[t] = p /\ Settled(t)

-----------------------------------------------------------------------------
(* Who a tab acts as, and who it stands for *)

\* The request interceptor: the token in localStorage wins over the default.
Acts(t) == IF token # None THEN token ELSE header[t]

\* The accounts that tab t shows, is about to show, or will show once loaded.
Claims(t) ==
    ({user[t]} \cup
        (IF signin[t].stage = "profile" THEN {signin[t].account} ELSE {}) \cup
        (IF loading[t] /\ token # None THEN {stored} ELSE {})) \ {None}

\* A session of a begins while some tab stands for another account.
Clash(a) == \E t \in Tabs : Claims(t) \ {a} # {}

Set(f, t, x) == [f EXCEPT ![t] = x]

Init ==
    /\ token = None /\ stored = None
    /\ loading = [t \in Tabs |-> TRUE] /\ leaving = [t \in Tabs |-> FALSE]
    /\ user = [t \in Tabs |-> None] /\ header = [t \in Tabs |-> None]
    /\ path = [t \in Tabs |-> "index"]
    /\ signin = [t \in Tabs |-> NoFlow] /\ signup = [t \in Tabs |-> None]
    /\ busy = [t \in Tabs |-> "none"] /\ error = [t \in Tabs |-> FALSE]
    /\ request = [t \in Tabs |-> FALSE]
    /\ submits = 0 /\ mixed = FALSE

-----------------------------------------------------------------------------
(* Loading a document, moving between routes *)

\* The effect of AuthProvider; nothing is rendered before it has run.
Rehydrate(t) ==
    /\ loading[t]
    /\ loading' = Set(loading, t, FALSE)
    /\ IF token # None /\ stored # None
       THEN header' = Set(header, t, token) /\ user' = Set(user, t, stored)
       ELSE UNCHANGED <<header, user>>
    /\ UNCHANGED <<storage, leaving, path, flows, request, submits, mixed>>

\* The browser loads the application at p: all state of the tab is new.
Load(t, p) ==
    /\ loading' = Set(loading, t, TRUE) /\ leaving' = Set(leaving, t, FALSE)
    /\ user' = Set(user, t, None) /\ header' = Set(header, t, None)
    /\ path' = Set(path, t, p)
    /\ signin' = Set(signin, t, NoFlow) /\ signup' = Set(signup, t, None)
    /\ busy' = Set(busy, t, "none") /\ error' = Set(error, t, FALSE)
    /\ request' = Set(request, t, FALSE)
    /\ UNCHANGED <<storage, submits, mixed>>

Visit(t) == ~loading[t] /\ \E p \in Paths : Load(t, p)

\* window.location.href = '/signin' takes effect.
Reload(t) == leaving[t] /\ Load(t, "signin")

\* The router shows another route: the form that was there is unmounted.
MoveTo(t, p) ==
    /\ path' = Set(path, t, p)
    /\ busy' = Set(busy, t, "none") /\ error' = Set(error, t, FALSE)

\* A <Navigate> of Root, of the index route or of RoleGuard.
Redirect(t) ==
    /\ ~loading[t] /\ ~Settled(t)
    /\ MoveTo(t, Target(user[t], path[t]))
    /\ UNCHANGED <<storage, loading, user, header, leaving, signin, signup,
                   request, submits, mixed>>

\* A click on a link of the navigation bar or between the two forms.
Follow(t, p) ==
    /\ Shows(t, path[t]) /\ p # path[t]
    /\ IF user[t] = None THEN p \in PublicRoutes ELSE p \in NavLinks(user[t])
    /\ MoveTo(t, p)
    /\ UNCHANGED <<storage, loading, user, header, leaving, signin, signup,
                   request, submits, mixed>>

-----------------------------------------------------------------------------
(* The two forms *)

\* The forms: the button is disabled while a submit runs.
SignInForm(t) == Shows(t, "signin") /\ busy[t] = "none"
RegisterForm(t) == Shows(t, "register") /\ busy[t] = "none"

Submit(t, form) ==
    /\ submits < MaxSubmits
    /\ busy' = Set(busy, t, form) /\ error' = Set(error, t, FALSE)
    /\ submits' = submits + 1
    /\ UNCHANGED <<storage, loading, user, header, leaving, path, request, mixed>>

\* Bound: one signIn and one signUp of a tab run at a time.
SubmitSignIn(t, a) ==
    /\ signin[t] = NoFlow
    /\ SignInForm(t) /\ Submit(t, "signin")
    /\ signin' = Set(signin, t, [stage |-> "login", account |-> a])
    /\ UNCHANGED signup

SubmitRegister(t, a) ==
    /\ signup[t] = None
    /\ RegisterForm(t) /\ Submit(t, "register")
    /\ signup' = Set(signup, t, a)
    /\ UNCHANGED signin

\* finally { setLoading(false) }, with the error when its form is still there.
Finish(t, form) ==
    /\ busy' = IF busy[t] = form THEN Set(busy, t, "none") ELSE busy
    /\ error' = IF busy[t] = form THEN Set(error, t, TRUE) ELSE error

\* Mutant of SessionEnded: the user stays in localStorage.
TokenEnded(t) ==
    /\ token' = None
    /\ leaving' = Set(leaving, t, TRUE)
    /\ UNCHANGED stored

\* The response interceptor on a 401.
SessionEnded(t) ==
    /\ token' = None /\ stored' = None
    /\ leaving' = Set(leaving, t, TRUE)

\* The login succeeds: the token is installed before the profile is asked for.
LoginAnswered(t) ==
    LET a == signin[t].account IN
    /\ signin[t].stage = "login"
    /\ token' = a
    /\ header' = Set(header, t, a)
    /\ signin' = Set(signin, t, [stage |-> "profile", account |-> a])
    /\ mixed' = (mixed \/ Clash(a))
    /\ UNCHANGED <<stored, loading, user, leaving, path, signup, busy, error,
                   request, submits>>

ProfileAnswered(t) ==
    LET a == signin[t].account IN
    /\ signin[t].stage = "profile"
    /\ stored' = a
    /\ user' = Set(user, t, a)
    /\ signin' = Set(signin, t, NoFlow)
    /\ MoveTo(t, "index")
    /\ mixed' = (mixed \/ token # a)
    /\ UNCHANGED <<token, loading, header, leaving, signup, request, submits>>

\* A timeout, a network error, a 404 or a 500, at either stage of signIn.
SignInFails(t) ==
    /\ signin[t].stage # "none"
    /\ signin' = Set(signin, t, NoFlow)
    /\ Finish(t, "signin")
    /\ UNCHANGED <<storage, loading, user, header, leaving, path, signup,
                   request, submits, mixed>>

\* A wrong password or an expired token: the page is loaded anew as well.
SignInRefused(t) ==
    /\ signin[t].stage # "none"
    /\ signin' = Set(signin, t, NoFlow)
    /\ Finish(t, "signin")
    /\ SessionEnded(t)
    /\ UNCHANGED <<loading, user, header, path, signup, request, submits, mixed>>

RegisterAnswered(t) ==
    LET a == signup[t] IN
    /\ a # None
    /\ token' = a /\ stored' = a
    /\ header' = Set(header, t, a)
    /\ user' = Set(user, t, a)
    /\ signup' = Set(signup, t, None)
    /\ MoveTo(t, "index")
    /\ mixed' = (mixed \/ Clash(a))
    /\ UNCHANGED <<loading, leaving, signin, request, submits>>

RegisterFails(t) ==
    /\ signup[t] # None
    /\ signup' = Set(signup, t, None)
    /\ Finish(t, "register")
    /\ UNCHANGED <<storage, loading, user, header, leaving, path, signin,
                   request, submits, mixed>>

-----------------------------------------------------------------------------
(* Signed in *)

SignOut(t) ==
    /\ Shows(t, path[t]) /\ user[t] # None
    /\ token' = None /\ stored' = None
    /\ header' = Set(header, t, None)
    /\ user' = Set(user, t, None)
    /\ UNCHANGED <<loading, leaving, path, flows, request, submits, mixed>>

\* A page asks the backend, as Acts(t).
Ask(t) ==
    /\ Shows(t, path[t]) /\ user[t] # None /\ ~request[t]
    /\ request' = Set(request, t, TRUE)
    /\ UNCHANGED <<storage, loading, user, header, leaving, path, flows,
                   submits, mixed>>

\* Any answer but a 401.
Answered(t) ==
    /\ request[t]
    /\ request' = Set(request, t, FALSE)
    /\ UNCHANGED <<storage, loading, user, header, leaving, path, flows,
                   submits, mixed>>

\* 401, perhaps long after the session it was asked for is over.
Unauthorized(t) ==
    /\ request[t]
    /\ request' = Set(request, t, FALSE)
    /\ SessionEnded(t)
    /\ UNCHANGED <<loading, user, header, path, flows, submits, mixed>>

Next == \E t \in Tabs :
    \/ Rehydrate(t) \/ Visit(t) \/ Reload(t) \/ Redirect(t)
    \/ \E p \in Paths : Follow(t, p)
    \/ \E a \in Accounts : SubmitSignIn(t, a) \/ SubmitRegister(t, a)
    \/ LoginAnswered(t) \/ ProfileAnswered(t)
    \/ SignInFails(t) \/ SignInRefused(t)
    \/ RegisterAnswered(t) \/ RegisterFails(t)
    \/ SignOut(t) \/ Ask(t) \/ Answered(t) \/ Unauthorized(t)

Spec == Init /\ [][Next]_vars

\* React runs effects and the router follows <Navigate>; requests are answered
\* or time out (15 s); a document that is left is replaced.
FairSpec == Spec /\ \A t \in Tabs :
    /\ WF_vars(Rehydrate(t)) /\ WF_vars(Redirect(t)) /\ WF_vars(Reload(t))
    /\ WF_vars(LoginAnswered(t) \/ ProfileAnswered(t) \/ SignInFails(t)
                   \/ SignInRefused(t))
    /\ WF_vars(RegisterAnswered(t) \/ RegisterFails(t))

-----------------------------------------------------------------------------
(* Properties *)

\* A tab sends its requests as the user it shows, unless two accounts were
\* used in the browser at once or a session ended under a sign-in: sessions
\* cleared by other tabs, late answers, expired tokens and failed profile
\* requests never make it act as anyone else.
ActsAsShown ==
    ~mixed => \A t \in Tabs : user[t] # None => Acts(t) \in {user[t], None}

\* The redirects of Root, of the index route and of RoleGuard, which decide
\* with two copies of defaultRedirect, end at a page for every role.
RedirectsSettle == \A t \in Tabs : []<>(loading[t] \/ Settled(t))

\* A submitted form is usable again, or has given way to another page or a
\* new document.
FormsReopen == \A t \in Tabs : busy[t] # "none" ~> busy[t] = "none"

\* No tab is left between routes, nor with a dead form.
SessionSettles == RedirectsSettle /\ FormsReopen
=============================================================================
