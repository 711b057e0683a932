-------------------------- MODULE WebSessionProofs ---------------------------
(***************************************************************************)
(* Proofs about the browser session, for any tabs, accounts, roles and     *)
(* number of submitted forms.                                              *)
(***************************************************************************)
EXTENDS WebSession, TLAPS

\* While a token is stored, every tab shows its account or nobody, and so will
\* every sign-in that only waits for the profile; ...
TabsFollowToken ==
    token # None => \A t \in Tabs :
        /\ user[t] \in {token, None}
        /\ signin[t].stage = "profile" => signin[t].account = token

\* ... the stored user is the token's, and some tab shows it or will as soon as
\* it has loaded, so that a sign-in as another account is noticed; ...
StoredIsShown ==
    stored # None =>
        /\ token = stored
        /\ \E t \in Tabs : user[t] = stored \/ loading[t]

\* ... and the default header of a tab, which its requests carry once the token
\* is gone, is that of the account it shows or is about to show.
HeadersMatch == \A t \in Tabs :
    /\ user[t] # None => header[t] \in {user[t], None}
    /\ signin[t].stage = "profile" => header[t] \in {signin[t].account, None}

OneSession == TabsFollowToken /\ StoredIsShown /\ HeadersMatch

SessionInv == TypeOK /\ (mixed \/ OneSession)

-----------------------------------------------------------------------------
(* Routes *)

\* The pages a role may see include the one it is sent to.
LEMMA RedirectIsAllowed ==
  ASSUME NEW a \in Accounts
  PROVE  /\ DefaultRedirect(Role(a)) \in Pages
         /\ Role(a) \in Allowed(DefaultRedirect(Role(a)))
<1>1. Role(a) \in {"driver", "enforcement", "admin"}
  BY RoleAssumption DEF Role
<1> QED BY <1>1 DEF DefaultRedirect, Allowed, Pages

\* A route is a page for whoever may see it, or one of the two forms.
LEMMA TargetIsPath ==
  ASSUME NEW u \in Account, NEW p \in Paths
  PROVE  Target(u, p) \in Paths
<1>1. CASE u = None
  BY <1>1 DEF Target, Paths, PublicRoutes
<1>2. CASE u # None
  <2>1. u \in Accounts
    BY <1>2 DEF Account
  <2>2. DefaultRedirect(Role(u)) \in Paths
    BY <2>1, RedirectIsAllowed DEF Paths
  <2> QED BY <1>2, <2>2 DEF Target, RoleGuard, Paths, PublicRoutes
<1> QED BY <1>1, <1>2

\* Where u may stay: what Settled says of a tab.
Rests(u, p) == IF u = None THEN p \in PublicRoutes
               ELSE p \in Pages /\ Role(u) \in Allowed(p)

\* How many redirects are left until then, two at most.
Hops(u, p) == IF Rests(u, p) THEN 0 ELSE IF Rests(u, Target(u, p)) THEN 1 ELSE 2

\* Two redirects of Root, of the index route and of RoleGuard lead from any
\* route to one that is rendered, for every role (Root.tsx, routes.tsx).
THEOREM TwoRedirectsSettle ==
  ASSUME NEW u \in Account, NEW p \in Paths
  PROVE  Rests(u, Target(u, Target(u, p)))
<1>1. CASE u = None
  BY <1>1 DEF Target, Rests, PublicRoutes
<1>2. CASE u # None
  <2> DEFINE home == DefaultRedirect(Role(u))
  <2>1. u \in Accounts
    BY <1>2 DEF Account
  <2>2. home \in Pages /\ Role(u) \in Allowed(home)
    BY <2>1, RedirectIsAllowed
  <2>3. \A q \in Pages : Target(u, q) = RoleGuard(u, q)
    BY <1>2 DEF Target, Pages, PublicRoutes
  <2>4. \A q \in Pages : RoleGuard(u, q) \in Pages /\ Role(u) \in Allowed(RoleGuard(u, q))
    BY <2>2 DEF RoleGuard
  <2>5. \A q \in PublicRoutes : Target(u, q) = home
    BY <1>2 DEF Target, Pages, PublicRoutes
  <2>6. Target(u, "index") = "signin"
    BY <1>2 DEF Target, PublicRoutes
  <2>7. p \in Pages \/ p \in PublicRoutes \/ p = "index"
    BY DEF Paths
  <2>8. "signin" \in PublicRoutes
    BY DEF PublicRoutes
  <2> HIDE DEF home
  <2>9. Target(u, Target(u, p)) \in Pages /\ Role(u) \in Allowed(Target(u, Target(u, p)))
    <3>1. CASE p \in Pages
      BY <2>3, <2>4, <3>1
    <3>2. CASE p \in PublicRoutes
      BY <2>2, <2>3, <2>4, <2>5, <3>2
    <3>3. CASE p = "index"
      BY <2>2, <2>5, <2>6, <2>8, <3>3
    <3> QED BY <2>7, <3>1, <3>2, <3>3
  <2> QED BY <1>2, <2>9 DEF Rests
<1> QED BY <1>1, <1>2

-----------------------------------------------------------------------------
(* The session *)

\* Nobody has signed in.
LEMMA SessionInvInit == Init => SessionInv
<1> SUFFICES ASSUME Init PROVE SessionInv
  OBVIOUS
<1> USE DEF Init
<1>1. TypeOK
  <2>1. /\ token \in Account /\ stored \in Account
        /\ user \in [Tabs -> Account] /\ header \in [Tabs -> Account]
        /\ signup \in [Tabs -> Account]
    BY DEF Account
  <2>2. /\ loading \in [Tabs -> BOOLEAN] /\ leaving \in [Tabs -> BOOLEAN]
        /\ error \in [Tabs -> BOOLEAN] /\ request \in [Tabs -> BOOLEAN]
        /\ busy \in [Tabs -> {"none", "signin", "register"}]
    OBVIOUS
  <2>3. path \in [Tabs -> Paths]
    BY DEF Paths
  <2>4. signin \in [Tabs -> {NoFlow} \cup
                       [stage : {"login", "profile"}, account : Accounts]]
    OBVIOUS
  <2>5. submits \in 0..MaxSubmits
    BY SubmitAssumption, SMT
  <2>6. mixed \in BOOLEAN
    BY Zenon
  <2> QED BY <2>1, <2>2, <2>3, <2>4, <2>5, <2>6 DEF TypeOK
<1>2. OneSession
  BY DEF OneSession, TabsFollowToken, StoredIsShown, HeadersMatch, NoFlow
<1> QED BY <1>1, <1>2 DEF SessionInv

\* What no tab denies when an account's session begins.
LEMMA NoClash ==
  ASSUME TypeOK, NEW a \in Accounts, ~Clash(a), NEW t \in Tabs
  PROVE  /\ user[t] \in {a, None}
         /\ signin[t].stage = "profile" => signin[t].account = a
         /\ loading[t] /\ token # None => stored \in {a, None}
<1>1. Claims(t) \subseteq {a}
  BY Zenon DEF Clash
<1>2. signin[t].stage = "profile" => signin[t].account \in Accounts
  BY DEF TypeOK, NoFlow
<1>3. user[t] \in {a, None}
  <2>1. user[t] # None => user[t] \in Claims(t)
    BY DEF Claims
  <2> QED BY <1>1, <2>1
<1>4. signin[t].stage = "profile" => signin[t].account = a
  <2> SUFFICES ASSUME signin[t].stage = "profile" PROVE signin[t].account = a
    OBVIOUS
  <2>1. signin[t].account \in Claims(t)
    BY <1>2, AccountAssumption DEF Claims
  <2> QED BY <1>1, <2>1
<1>5. loading[t] /\ token # None => stored \in {a, None}
  <2>1. loading[t] /\ token # None /\ stored # None => stored \in Claims(t)
    BY DEF Claims
  <2> QED BY <1>1, <2>1
<1> QED BY <1>3, <1>4, <1>5

\* A document that is loaded, and a tab that reads localStorage.
LEMMA LoadKeepsInv ==
  ASSUME SessionInv, NEW t \in Tabs, NEW p \in Paths, Load(t, p)
  PROVE  SessionInv'
<1> USE DEF Load, Set, storage
<1>1. TypeOK'
  BY DEF SessionInv, TypeOK, Account, NoFlow
<1>2. CASE OneSession
  <2> USE <1>2 DEF OneSession, SessionInv, TypeOK
  <2>1. TabsFollowToken'
    BY DEF TabsFollowToken, NoFlow
  <2>2. StoredIsShown'
    BY DEF StoredIsShown
  <2>3. HeadersMatch'
    BY DEF HeadersMatch, NoFlow
  <2> QED BY <1>1, <2>1, <2>2, <2>3
<1> QED BY <1>1, <1>2 DEF SessionInv

LEMMA RehydrateKeepsInv ==
  ASSUME SessionInv, NEW t \in Tabs, Rehydrate(t)
  PROVE  SessionInv'
<1> USE DEF Rehydrate, Set, storage, flows
<1>1. TypeOK'
  BY DEF SessionInv, TypeOK, Account, NoFlow
<1>2. CASE OneSession
  <2> USE <1>2 DEF OneSession, SessionInv, TypeOK
  <2>1. TabsFollowToken'
    BY DEF TabsFollowToken, StoredIsShown
  <2>2. StoredIsShown'
    BY AccountAssumption DEF StoredIsShown
  <2>3. HeadersMatch'
    BY DEF HeadersMatch, StoredIsShown, TabsFollowToken
  <2> QED BY <1>1, <2>1, <2>2, <2>3
<1> QED BY <1>1, <1>2 DEF SessionInv

\* A step that leaves storage, users and headers as they are, or clears the
\* storage, and brings no sign-in closer to its profile.
LEMMA QuietKeepsSession ==
  ASSUME OneSession, UNCHANGED <<loading, user, header>>,
         UNCHANGED storage \/ (token' = None /\ stored' = None),
         \A t \in Tabs : signin'[t].stage = "profile" => signin'[t] = signin[t]
  PROVE  OneSession'
<1> USE DEF storage
<1>1. TabsFollowToken'
  BY DEF OneSession, TabsFollowToken
<1>2. StoredIsShown'
  BY DEF OneSession, StoredIsShown
<1>3. HeadersMatch'
  BY DEF OneSession, HeadersMatch
<1> QED BY <1>1, <1>2, <1>3 DEF OneSession

LEMMA RouterKeepsInv ==
  ASSUME SessionInv, NEW t \in Tabs, Redirect(t) \/ \E p \in Paths : Follow(t, p)
  PROVE  SessionInv'
<1>1. PICK p \in Paths : MoveTo(t, p)
  <2>1. Target(user[t], path[t]) \in Paths
    BY TargetIsPath DEF SessionInv, TypeOK
  <2> QED BY <2>1 DEF Redirect, Follow
<1>2. UNCHANGED <<storage, loading, user, header, leaving, signin, signup,
                  request, submits, mixed>>
  BY DEF Redirect, Follow
<1>3. TypeOK'
  BY <1>1, <1>2 DEF SessionInv, TypeOK, MoveTo, Set, storage
<1> QED BY <1>2, <1>3, QuietKeepsSession DEF SessionInv

LEMMA SubmitKeepsInv ==
  ASSUME SessionInv, NEW t \in Tabs, NEW a \in Accounts,
         SubmitSignIn(t, a) \/ SubmitRegister(t, a)
  PROVE  SessionInv'
<1>1. /\ UNCHANGED <<storage, loading, user, header, leaving, path, request, mixed>>
      /\ submits < MaxSubmits /\ submits' = submits + 1
      /\ error' = [error EXCEPT ![t] = FALSE]
      /\ \E form \in {"signin", "register"} : busy' = [busy EXCEPT ![t] = form]
  BY DEF SubmitSignIn, SubmitRegister, Submit, Set
<1>2. /\ signin' \in {signin, [signin EXCEPT ![t] = [stage |-> "login", account |-> a]]}
      /\ signup' \in {signup, [signup EXCEPT ![t] = a]}
  BY DEF SubmitSignIn, SubmitRegister, Set
<1>3. TypeOK'
  <2>1. submits' \in 0..MaxSubmits
    BY <1>1, SubmitAssumption DEF SessionInv, TypeOK
  <2> QED BY <1>1, <1>2, <2>1 DEF SessionInv, TypeOK, Account, storage
<1>4. \A s \in Tabs : signin'[s].stage = "profile" => signin'[s] = signin[s]
  BY <1>2 DEF SessionInv, TypeOK
<1> QED BY <1>1, <1>3, <1>4, QuietKeepsSession DEF SessionInv

\* A request of a page, its answer, and the end of a flow with an error or a
\* 401, which clears the storage.
LEMMA EndKeepsInv ==
  ASSUME SessionInv, NEW t \in Tabs,
         \/ Ask(t) \/ Answered(t) \/ Unauthorized(t)
         \/ SignInFails(t) \/ SignInRefused(t) \/ RegisterFails(t)
  PROVE  SessionInv'
<1>1. /\ UNCHANGED <<loading, user, header, path, submits, mixed>>
      /\ UNCHANGED storage \/ (token' = None /\ stored' = None)
      /\ \E b \in BOOLEAN : request' \in {request, [request EXCEPT ![t] = b]}
      /\ leaving' \in {leaving, [leaving EXCEPT ![t] = TRUE]}
      /\ signin' \in {signin, [signin EXCEPT ![t] = NoFlow]}
      /\ signup' \in {signup, [signup EXCEPT ![t] = None]}
      /\ busy' \in {busy, [busy EXCEPT ![t] = "none"]}
      /\ error' \in {error, [error EXCEPT ![t] = TRUE]}
  <2>1. CASE Ask(t)
    BY <2>1 DEF Ask, Set, flows
  <2>2. CASE Answered(t)
    BY <2>2 DEF Answered, Set, flows
  <2>3. CASE Unauthorized(t)
    BY <2>3 DEF Unauthorized, SessionEnded, Set, flows
  <2>4. CASE SignInFails(t)
    BY <2>4 DEF SignInFails, Finish, Set
  <2>5. CASE SignInRefused(t)
    BY <2>5 DEF SignInRefused, SessionEnded, Finish, Set
  <2>6. CASE RegisterFails(t)
    BY <2>6 DEF RegisterFails, Finish, Set
  <2> QED BY <2>1, <2>2, <2>3, <2>4, <2>5, <2>6
<1>2. TypeOK'
  <2>1. token' \in Account /\ stored' \in Account
    BY <1>1 DEF SessionInv, TypeOK, Account, storage
  <2>2. user' = user /\ header' = header /\ loading' = loading /\ path' = path
        /\ submits' = submits /\ mixed' = mixed
    BY <1>1
  <2>3. request' \in [Tabs -> BOOLEAN] /\ leaving' \in [Tabs -> BOOLEAN]
        /\ error' \in [Tabs -> BOOLEAN] /\ signup' \in [Tabs -> Account]
        /\ busy' \in [Tabs -> {"none", "signin", "register"}]
    <3>1. request' \in [Tabs -> BOOLEAN]
      BY <1>1 DEF SessionInv, TypeOK
    <3>2. leaving' \in [Tabs -> BOOLEAN] /\ error' \in [Tabs -> BOOLEAN]
      BY <1>1 DEF SessionInv, TypeOK
    <3>3. signup' \in [Tabs -> Account]
      BY <1>1 DEF SessionInv, TypeOK, Account
    <3>4. busy' \in [Tabs -> {"none", "signin", "register"}]
      BY <1>1 DEF SessionInv, TypeOK
    <3> QED BY <3>1, <3>2, <3>3, <3>4
  <2>4. signin' \in [Tabs -> {NoFlow} \cup
                        [stage : {"login", "profile"}, account : Accounts]]
    BY <1>1 DEF SessionInv, TypeOK
  <2> QED BY <2>1, <2>2, <2>3, <2>4 DEF SessionInv, TypeOK
<1>3. \A s \in Tabs : signin'[s].stage = "profile" => signin'[s] = signin[s]
  BY <1>1 DEF SessionInv, TypeOK, NoFlow
<1> QED BY <1>1, <1>2, <1>3, QuietKeepsSession DEF SessionInv

\* The login is answered: a new session begins, with the token alone.
LEMMA LoginKeepsInv ==
  ASSUME SessionInv, NEW t \in Tabs, LoginAnswered(t)
  PROVE  SessionInv'
<1> DEFINE a == signin[t].account
<1>1. a \in Accounts
  BY DEF LoginAnswered, SessionInv, TypeOK, NoFlow
<1>2. a # None
  BY <1>1, AccountAssumption
<1>3. /\ token' = a /\ header' = [header EXCEPT ![t] = a]
      /\ signin' = [signin EXCEPT ![t] = [stage |-> "profile", account |-> a]]
      /\ UNCHANGED <<stored, loading, user, leaving, path, signup, busy, error,
                     request, submits>>
  BY DEF LoginAnswered, Set
<1>4. mixed' = (mixed \/ Clash(a))
  BY DEF LoginAnswered
<1> HIDE DEF a
<1>5. TypeOK'
  <2>1. mixed' \in BOOLEAN
    BY <1>4, Zenon
  <2> QED BY <1>1, <1>3, <2>1 DEF SessionInv, TypeOK, Account
<1>6. ASSUME ~mixed' PROVE OneSession'
  <2>1. OneSession /\ ~Clash(a)
    BY <1>4, <1>6, Zenon DEF SessionInv
  <2>2. \A s \in Tabs :
          /\ user[s] \in {a, None}
          /\ signin[s].stage = "profile" => signin[s].account = a
          /\ loading[s] /\ token # None => stored \in {a, None}
    BY <1>1, <2>1, NoClash DEF SessionInv
  <2>3. stored \in {a, None}
    BY <2>1, <2>2 DEF OneSession, StoredIsShown
  <2>4. TabsFollowToken'
    BY <1>3, <2>2 DEF SessionInv, TypeOK, TabsFollowToken
  <2>5. StoredIsShown'
    BY <1>3, <2>1, <2>3 DEF OneSession, StoredIsShown
  <2>6. HeadersMatch'
    BY <1>3, <2>1, <2>2 DEF SessionInv, TypeOK, OneSession, HeadersMatch
  <2> QED BY <2>4, <2>5, <2>6 DEF OneSession
<1> QED BY <1>5, <1>6 DEF SessionInv

\* The profile is answered, and has become the user of the session.
LEMMA ProfileKeepsInv ==
  ASSUME SessionInv, NEW t \in Tabs, ProfileAnswered(t)
  PROVE  SessionInv'
<1> DEFINE a == signin[t].account
<1>1. a \in Accounts
  BY DEF ProfileAnswered, SessionInv, TypeOK, NoFlow
<1>2. a # None
  BY <1>1, AccountAssumption
<1>3. /\ stored' = a /\ user' = [user EXCEPT ![t] = a]
      /\ signin' = [signin EXCEPT ![t] = NoFlow]
      /\ UNCHANGED <<token, loading, header, leaving, signup, request, submits>>
      /\ MoveTo(t, "index")
  BY DEF ProfileAnswered, Set
<1>4. mixed' = (mixed \/ token # a) /\ signin[t].stage = "profile"
  BY DEF ProfileAnswered
<1> HIDE DEF a
<1>5. TypeOK'
  <2>1. mixed' \in BOOLEAN
    BY <1>4, Zenon
  <2> QED BY <1>1, <1>3, <2>1 DEF SessionInv, TypeOK, Account, MoveTo, Set, Paths
<1>6. ASSUME ~mixed' PROVE OneSession'
  <2>1. OneSession /\ token = a
    BY <1>4, <1>6, Zenon DEF SessionInv
  <2>2. header[t] \in {a, None}
    BY <1>4, <2>1 DEF OneSession, HeadersMatch, a
  <2>3. TabsFollowToken'
    BY <1>3, <2>1 DEF SessionInv, TypeOK, OneSession, TabsFollowToken, NoFlow
  <2>4. StoredIsShown'
    BY <1>3, <2>1 DEF SessionInv, TypeOK, StoredIsShown
  <2>5. HeadersMatch'
    BY <1>3, <2>1, <2>2 DEF SessionInv, TypeOK, OneSession, HeadersMatch, NoFlow
  <2> QED BY <2>3, <2>4, <2>5 DEF OneSession
<1> QED BY <1>5, <1>6 DEF SessionInv

\* A registration signs in at once.
LEMMA RegisterKeepsInv ==
  ASSUME SessionInv, NEW t \in Tabs, RegisterAnswered(t)
  PROVE  SessionInv'
<1> DEFINE a == signup[t]
<1>1. a \in Accounts
  BY DEF RegisterAnswered, SessionInv, TypeOK, Account
<1>2. a # None
  BY <1>1, AccountAssumption
<1>3. /\ token' = a /\ stored' = a
      /\ header' = [header EXCEPT ![t] = a] /\ user' = [user EXCEPT ![t] = a]
      /\ signup' = [signup EXCEPT ![t] = None]
      /\ UNCHANGED <<loading, leaving, signin, request, submits>>
      /\ MoveTo(t, "index")
  BY DEF RegisterAnswered, Set
<1>4. mixed' = (mixed \/ Clash(a))
  BY DEF RegisterAnswered
<1> HIDE DEF a
<1>5. TypeOK'
  <2>1. mixed' \in BOOLEAN
    BY <1>4, Zenon
  <2> QED BY <1>1, <1>3, <2>1 DEF SessionInv, TypeOK, Account, MoveTo, Set, Paths
<1>6. ASSUME ~mixed' PROVE OneSession'
  <2>1. OneSession /\ ~Clash(a)
    BY <1>4, <1>6, Zenon DEF SessionInv
  <2>2. \A s \in Tabs :
          /\ user[s] \in {a, None}
          /\ signin[s].stage = "profile" => signin[s].account = a
    BY <1>1, <2>1, NoClash DEF SessionInv
  <2>3. TabsFollowToken'
    BY <1>3, <2>2 DEF SessionInv, TypeOK, TabsFollowToken
  <2>4. StoredIsShown'
    BY <1>3 DEF SessionInv, TypeOK, StoredIsShown
  <2>5. HeadersMatch'
    BY <1>3, <2>1, <2>2 DEF SessionInv, TypeOK, OneSession, HeadersMatch
  <2> QED BY <2>3, <2>4, <2>5 DEF OneSession
<1> QED BY <1>5, <1>6 DEF SessionInv

LEMMA SignOutKeepsInv ==
  ASSUME SessionInv, NEW t \in Tabs, SignOut(t)
  PROVE  SessionInv'
<1> USE DEF SignOut, Set, flows
<1>1. TypeOK'
  BY DEF SessionInv, TypeOK, Account
<1>2. CASE OneSession
  <2> USE <1>2 DEF OneSession, SessionInv, TypeOK
  <2>1. TabsFollowToken' /\ StoredIsShown'
    BY DEF TabsFollowToken, StoredIsShown
  <2>2. HeadersMatch'
    BY DEF HeadersMatch
  <2> QED BY <1>1, <2>1, <2>2
<1> QED BY <1>1, <1>2 DEF SessionInv

-----------------------------------------------------------------------------
(* Theorems *)

\* Whatever the tabs do in whatever order, they stand for one account, or
\* their user has mixed two (AuthContext.tsx, client.ts).
THEOREM SessionInvHolds == Spec => []SessionInv
<1>1. SessionInv /\ [Next]_vars => SessionInv'
  <2> SUFFICES ASSUME SessionInv, [Next]_vars PROVE SessionInv'
    OBVIOUS
  <2>1. CASE Next
    <3>1. PICK t \in Tabs :
            \/ Rehydrate(t) \/ Visit(t) \/ Reload(t) \/ Redirect(t)
            \/ \E p \in Paths : Follow(t, p)
            \/ \E a \in Accounts : SubmitSignIn(t, a) \/ SubmitRegister(t, a)
            \/ LoginAnswered(t) \/ ProfileAnswered(t)
            \/ SignInFails(t) \/ SignInRefused(t)
            \/ RegisterAnswered(t) \/ RegisterFails(t)
            \/ SignOut(t) \/ Ask(t) \/ Answered(t) \/ Unauthorized(t)
      BY <2>1 DEF Next
    <3>2. Visit(t) \/ Reload(t) => \E p \in Paths : Load(t, p)
      BY DEF Visit, Reload, Paths, PublicRoutes
    <3> QED BY <3>1, <3>2, RehydrateKeepsInv, LoadKeepsInv, RouterKeepsInv,
               SubmitKeepsInv, EndKeepsInv, LoginKeepsInv, ProfileKeepsInv,
               RegisterKeepsInv, SignOutKeepsInv
  <2>2. CASE UNCHANGED vars
    <3>1. TypeOK'
      BY <2>2 DEF SessionInv, TypeOK, vars, storage, flows
    <3>2. \A t \in Tabs : signin'[t] = signin[t]
      BY <2>2 DEF vars, flows
    <3> QED BY <2>2, <3>1, <3>2, QuietKeepsSession DEF SessionInv, vars, storage
  <2> QED BY <2>1, <2>2
<1> QED BY <1>1, SessionInvInit, PTL DEF Spec

\* Every variable of the session keeps its type.
THEOREM SessionTypeCorrect == Spec => []TypeOK
<1>1. SessionInv => TypeOK
  BY DEF SessionInv
<1> QED BY <1>1, SessionInvHolds, PTL

\* A tab sends its requests as the user it shows, or as nobody, unless two
\* accounts were used in the browser at once.
THEOREM ActsAsShownHolds == Spec => []ActsAsShown
<1>1. SessionInv => ActsAsShown
  BY DEF SessionInv, OneSession, TabsFollowToken, HeadersMatch, ActsAsShown, Acts
<1> QED BY <1>1, SessionInvHolds, PTL

\* The redirects of Root, of the index route and of RoleGuard never go round:
\* each of them brings the tab nearer to a route that is rendered.
RedirectsDescend ==
    [][\A t \in Tabs : Redirect(t) =>
            Hops(user'[t], path'[t]) < Hops(user[t], path[t])]_vars

\* This is why RedirectsSettle needs no more than fair redirects.
THEOREM RedirectsDescendHolds == Spec => RedirectsDescend
<1>1. ASSUME TypeOK, NEW t \in Tabs, Redirect(t)
      PROVE  Hops(user'[t], path'[t]) < Hops(user[t], path[t])
  <2> DEFINE u == user[t]
             p == path[t]
  <2>1. u \in Account /\ p \in Paths
    BY <1>1 DEF TypeOK
  <2>2. user'[t] = u /\ path'[t] = Target(u, p)
    BY <1>1 DEF Redirect, MoveTo, Set, TypeOK
  <2>3. ~Rests(u, p)
    BY <1>1 DEF Redirect, Settled, Rests
  <2>4. Rests(u, Target(u, Target(u, p)))
    BY <2>1, TwoRedirectsSettle
  <2> HIDE DEF u, p
  <2>5. Hops(u, Target(u, p)) < Hops(u, p)
    BY <2>3, <2>4 DEF Hops
  <2> QED BY <2>2, <2>5 DEF u, p
<1>2. TypeOK => [\A t \in Tabs : Redirect(t) =>
                    Hops(user'[t], path'[t]) < Hops(user[t], path[t])]_vars
  BY <1>1
<1> QED BY <1>2, SessionTypeCorrect, PTL DEF RedirectsDescend
=============================================================================
