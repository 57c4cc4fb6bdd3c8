------------------------------ MODULE Session ------------------------------
(***************************************************************************)
(* The console's session and its navigation in one browser tab: the store  *)
(* of webui/src/api/auth.ts, the guard of webui/src/router.ts, the answers *)
(* of webui/src/api/client.ts, the login page and the frame of App.vue.    *)
(* The guard decides before the page's code is loaded, so answers, logins  *)
(* and logouts come between its decision and the page; calls of an earlier *)
(* session may be answered in a later one.  A session is a token together  *)
(* with the identity that the server gave with it.                         *)
(***************************************************************************)
EXTENDS Naturals, CommonValues

CONSTANTS
    Identities,  \* what accounts may do: user, super, perms, features
    Pages,       \* pages that the user visits
    MaxLogins,   \* bound: sessions issued, and logins under way
    MaxMoves     \* bound: pages, addresses and logouts that the user asks for

(***************************************************************************)
(* The routes and the menu.                                                *)
(***************************************************************************)
FeatureOf == [tampers |-> "tamper_proof", privacy |-> "privacy", events |-> "privacy",
              tenants |-> "rbac", roles |-> "rbac", users |-> "rbac",
              reports |-> "compliance", mcpAudit |-> "mcp_audit"]
FreeRoutes == {"dashboard", "login", "models", "apiKeys", "audit", "limits", "operations", "mcp", "system"}
Routes == FreeRoutes \cup DOMAIN FeatureOf

\* The permission that a menu entry asks for; the router asks only for the
\* one of the first page.
MenuPerm(p) ==
    CASE p \in {"dashboard", "reports", "mcp", "mcpAudit", "operations"} -> "system:read"
      [] p = "tenants" -> "tenant:read"
      [] p \in {"roles", "users"} -> "rbac:read"
      [] OTHER -> None

ASSUME SessionAssumption ==
    /\ Pages \subseteq Routes /\ {"dashboard", "login", "models"} \subseteq Pages
    /\ None \notin Pages
    /\ MaxLogins \in Nat /\ MaxMoves \in Nat

VARIABLES
    token,      \* the session stored in the browser, or None
    identity,   \* the identity stored beside it, or None
    valid,      \* sessions that the server still accepts
    issued,     \* sessions issued
    route,      \* the page on screen; "start" before the first
    appMounted, \* the frame is on screen
    guarding,   \* where a navigation is about to be judged, or None
    chunk,      \* the page judged good whose code is loading, or None
    leaving,    \* the tab is being sent to this address, or None
    calls,      \* calls under way
    logins,     \* logins under way
    logging,    \* the login button shows that it is loading
    password,   \* the session of a password change under way, or None
    moves       \* pages, addresses and logouts asked for

storeVars == <<token, identity>>
serverVars == <<valid, issued>>
navVars == <<guarding, chunk>>
workVars == <<calls, logins, logging, password>>
sessionVars == <<storeVars, serverVars, route, appMounted, navVars, leaving, workVars, moves>>

SessionIds == [no : 1..MaxLogins, id : Identities]
Calls == [session : SessionIds \cup {None}, kind : {"meta", "page"}]

hasPerm(perm) == identity # None /\ (identity.super \/ perm \in identity.perms)
hasFeature(feature) == identity # None /\ feature \in identity.features

LayoutShown == appMounted /\ route # "login"

visible(p) == MenuPerm(p) = None \/ hasPerm(MenuPerm(p))

\* The judgement on a navigation: pass, stay where one is, or go elsewhere.
\* Pages in free need no session; fallback takes who lacks a permission.
Judged(to, fallback, free) ==
    IF to \notin free /\ token = None THEN "login"
    ELSE IF to \in DOMAIN FeatureOf /\ ~hasFeature(FeatureOf[to]) THEN "stay"
    ELSE IF to = "dashboard" /\ ~hasPerm("system:read") THEN fallback
    ELSE "pass"

\* The guard as it must not be written: with a fallback to the first page,
\* or with pages that need no session.
beforeEachToFirst(to) == Judged(to, "dashboard", {"login"})
beforeEachNoToken(to) == Judged(to, "models", Routes)

beforeEach(to) == Judged(to, "models", {"login"})

\* The console is not open yet: the user first enters an address of it.
SessionInit ==
    /\ token = None /\ identity = None
    /\ valid = {} /\ issued = 0
    /\ route = "start" /\ appMounted = FALSE
    /\ guarding = None /\ chunk = None /\ leaving = None
    /\ calls = {} /\ logins = 0 /\ logging = FALSE /\ password = None
    /\ moves = 0

(***************************************************************************)
(* Navigation.                                                             *)
(***************************************************************************)
\* A navigation within the tab: the one that is pending gives way to it, even
\* to one that asks for the page shown and so goes nowhere.
Navigate(p) ==
    /\ guarding' = IF p = route THEN None ELSE p
    /\ chunk' = None

\* A load of the whole console, at once on screen; its frame does not wait.
LoadUnready(p) ==
    /\ guarding' = p /\ chunk' = None /\ leaving' = None
    /\ route' = "start" /\ appMounted' = TRUE
    /\ calls' = {[session |-> token, kind |-> "meta"]}
    /\ logins' = 0 /\ logging' = FALSE /\ password' = None

\* A load of the whole console at an address.  Only the store survives.
LoadConsole(p) ==
    /\ guarding' = p /\ chunk' = None /\ leaving' = None
    /\ route' = "start" /\ appMounted' = FALSE
    /\ calls' = {} /\ logins' = 0 /\ logging' = FALSE /\ password' = None

\* The user's steps wait for the frame; the judgement itself, which has no
\* outside step in it, goes first.
Usable == appMounted /\ guarding = None

Move == moves < MaxMoves /\ moves' = moves + 1

EnterAddress(p) ==
    /\ guarding = None
    /\ Move
    /\ LoadConsole(p)
    /\ UNCHANGED <<storeVars, serverVars>>

ClickMenu(p) ==
    /\ Usable /\ LayoutShown /\ visible(p)
    /\ Move
    /\ Navigate(p)
    /\ UNCHANGED <<storeVars, serverVars, route, appMounted, leaving, workVars>>

BrowserLeaves ==
    /\ guarding = None /\ leaving # None
    /\ LoadConsole(leaving)
    /\ UNCHANGED <<storeVars, serverVars, moves>>

\* The frame shows itself: with the page, or, when the first navigation was
\* stopped, without one.  It asks for its own data wherever it appears.
ShowFrame(to) ==
    /\ appMounted' = TRUE
    /\ calls' = calls \cup
           (IF to # "login" /\ (~appMounted \/ route = "login")
            THEN {[session |-> token, kind |-> "meta"]} ELSE {}) \cup
           (IF to \in {"login", "start"} THEN {} ELSE {[session |-> token, kind |-> "page"]})

Guard ==
    /\ guarding # None
    /\ LET to == beforeEach(guarding) IN
          \/ /\ to = "stay"
             /\ guarding' = None /\ chunk' = None
             /\ IF appMounted THEN UNCHANGED <<appMounted, calls>> ELSE ShowFrame("start")
          \/ /\ to = "pass"
             /\ guarding' = None /\ chunk' = guarding
             /\ UNCHANGED <<appMounted, calls>>
          \/ /\ to \notin {"stay", "pass"}
             /\ guarding' = to
             /\ UNCHANGED <<chunk, appMounted, calls>>
    /\ UNCHANGED <<storeVars, serverVars, route, leaving, logins, logging, password, moves>>

\* The page's code has come.
Confirm ==
    /\ guarding = None /\ chunk # None
    /\ route' = chunk
    /\ chunk' = None
    /\ ShowFrame(chunk)
    /\ UNCHANGED <<storeVars, serverVars, guarding, leaving, logins, logging, password, moves>>

(***************************************************************************)
(* Calls.  A refusal may come for any session the server has dropped: one  *)
(* that expired, whose account was disabled or whose password changed.     *)
(***************************************************************************)
Revoke(s) ==
    /\ guarding = None
    /\ valid' = valid \ {s}
    /\ UNCHANGED <<storeVars, issued, route, appMounted, navVars, leaving, workVars, moves>>

PageCall ==
    /\ Usable /\ route \notin {"login", "start"}
    /\ calls' = calls \cup {[session |-> token, kind |-> "page"]}
    /\ UNCHANGED <<storeVars, serverVars, route, appMounted, navVars, leaving, logins, logging, password, moves>>

\* The token goes, and the guard is left to notice.
On401Silent ==
    /\ token' = IF route = "login" THEN token ELSE None
    /\ UNCHANGED leaving

\* The interceptor on an answer 401, which is ignored on the login page.
On401 ==
    IF route = "login" THEN UNCHANGED <<token, leaving>>
    ELSE token' = None /\ leaving' = "login"

CallEnds(c) ==
    /\ guarding = None
    /\ calls' = calls \ {c}
    /\ \/ c.session # None /\ UNCHANGED <<token, leaving>>
       \/ c.session \notin valid /\ On401
    /\ UNCHANGED <<identity, serverVars, route, appMounted, navVars, logins, logging, password, moves>>

(***************************************************************************)
(* Logging in and out.                                                     *)
(***************************************************************************)
\* submit: neither the button's state nor anything else stops the enter key.
SubmitLogin ==
    /\ Usable /\ route = "login"
    /\ issued + logins < MaxLogins
    /\ logins' = logins + 1
    /\ logging' = TRUE
    /\ UNCHANGED <<storeVars, serverVars, route, appMounted, navVars, leaving, calls, password, moves>>

LoginSucceeds(i) ==
    /\ guarding = None /\ logins > 0
    /\ issued' = issued + 1
    /\ token' = [no |-> issued', id |-> i]
    /\ identity' = i
    /\ valid' = valid \cup {token'}
    /\ Navigate("dashboard")
    /\ logins' = logins - 1
    /\ logging' = FALSE
    /\ UNCHANGED <<route, appMounted, leaving, calls, password, moves>>

LoginFails ==
    /\ guarding = None /\ logins > 0
    /\ logins' = logins - 1
    /\ logging' = FALSE
    /\ UNCHANGED <<token, leaving>> \/ On401
    /\ UNCHANGED <<identity, serverVars, route, appMounted, navVars, calls, password, moves>>

EndSession ==
    /\ token' = None /\ identity' = None
    /\ Navigate("login")

Logout ==
    /\ Usable /\ LayoutShown
    /\ Move
    /\ EndSession
    /\ UNCHANGED <<serverVars, route, appMounted, leaving, workVars>>

\* submitChangePassword up to its await.
ChangePassword ==
    /\ Usable /\ LayoutShown
    /\ password = None /\ token # None
    /\ password' = token
    /\ UNCHANGED <<storeVars, serverVars, route, appMounted, navVars, leaving, calls, logins, logging, moves>>

\* The server's handler, which ends the account's sessions, and what follows
\* its answer, whoever is logged in by then.
PasswordChanged ==
    /\ guarding = None /\ password # None
    /\ valid' = {s \in valid : s.id # password.id}
    /\ password' = None
    /\ EndSession
    /\ UNCHANGED <<issued, route, appMounted, leaving, calls, logins, logging, moves>>

PasswordFails ==
    /\ guarding = None /\ password # None
    /\ password' = None
    /\ \/ UNCHANGED <<token, leaving>>
       \/ password \notin valid /\ On401
    /\ UNCHANGED <<identity, serverVars, route, appMounted, navVars, calls, logins, logging, moves>>

Navigating == Guard \/ Confirm \/ BrowserLeaves
LoginAnswered == LoginFails \/ \E i \in Identities : LoginSucceeds(i)

SessionNext ==
    \/ \E p \in Pages : EnterAddress(p) \/ ClickMenu(p)
    \/ Navigating
    \/ \E s \in valid : Revoke(s)
    \/ PageCall
    \/ \E c \in calls : CallEnds(c)
    \/ SubmitLogin \/ LoginAnswered
    \/ Logout \/ ChangePassword \/ PasswordChanged \/ PasswordFails

(***************************************************************************)
(* A page's code comes, a load of the console is carried out, and a login  *)
(* is answered or given up after 15 seconds.                               *)
(***************************************************************************)
SessionFairness == WF_sessionVars(Navigating) /\ WF_sessionVars(LoginAnswered)
SessionSpec == SessionInit /\ [][SessionNext]_sessionVars /\ SessionFairness

(***************************************************************************)
(* Properties.                                                             *)
(***************************************************************************)
SessionTypeOK ==
    /\ token \in SessionIds \cup {None} /\ identity \in Identities \cup {None}
    /\ valid \subseteq SessionIds /\ issued \in 0..MaxLogins /\ logins \in 0..MaxLogins
    /\ route \in Pages \cup {"start"} /\ {guarding, chunk, leaving} \subseteq Pages \cup {None}
    /\ appMounted \in BOOLEAN /\ logging \in BOOLEAN
    /\ calls \subseteq Calls /\ password \in SessionIds \cup {None}
    /\ moves \in 0..MaxMoves
    /\ token # None => identity = token.id

\* What the identity stored with a session opens.
Opens(p) ==
    /\ token # None
    /\ p \in DOMAIN FeatureOf => hasFeature(FeatureOf[p])
    /\ p = "dashboard" => hasPerm("system:read")

\* A page other than the login page comes on screen only while a session is
\* stored whose identity opens it, although the guard judged before the code
\* was loaded and the session may have ended or changed hands meanwhile; or
\* the tab is being sent to the login page.
ShownOnlyWhatIsAllowed ==
    [][(route' # route /\ route' \notin {"login", "start"} /\ leaving' = None)
        => \A p \in Pages : route' = p => Opens(p)']_sessionVars

\* The frame asks for its data only with a session: not on the login page, nor
\* before the first navigation is judged, nor on a frame without a page.
MetaCarriesToken == \A c \in calls : c.kind = "meta" => c.session # None

\* Every navigation is settled, however the guard sends it on.
NavigationSettles == (guarding # None) ~> (guarding = None /\ chunk = None)

\* Who was refused, and so has lost the token but not the identity, comes to
\* the login page, unless another login got through meanwhile: nobody stays on
\* a page with a session that is over.
RefusedEndsAtLogin == (token = None /\ identity # None) ~> (route = "login" \/ token \in valid)
=============================================================================
