--------------------------- MODULE ConsoleProofs ---------------------------
(***************************************************************************)
(* The console's session, and then the console as a whole: what is on      *)
(* screen is allowed, the frame asks for its data with a session only, and *)
(* nothing turns for ever, for any identities, pages and bounds.           *)
(***************************************************************************)
EXTENDS MCConsole, PageProofs, FormProofs, KeyAccessProofs

(***************************************************************************)
(* The session.  Numbers are issued for logins that are counted before;    *)
(* nothing that could take the token away is under way before the frame    *)
(* stands; and a page that was judged good stays allowed while its code    *)
(* loads, because whatever changes the session also sends the tab away or  *)
(* gives the navigation up.                                                *)
(***************************************************************************)
Numbers == issued \in Nat /\ logins \in Nat /\ issued + logins <= MaxLogins

BareStart == ~appMounted => calls = {} /\ logins = 0 /\ password = None

\* The page whose code is loading, other than the login page.
Coming == chunk # None /\ chunk # "login"

ComingHasSession == Coming /\ (~appMounted \/ route = "login") => token # None

ComingIsAllowed == Coming /\ leaving = None => Opens(chunk)

SessionInv ==
    /\ SessionTypeOK /\ Numbers /\ BareStart
    /\ ComingHasSession /\ ComingIsAllowed
    /\ MetaCarriesToken
    /\ logging => logins > 0

LEMMA SessionBounds ==
    /\ MaxLogins \in Nat /\ MaxMoves \in Nat
    /\ None \notin Pages /\ {"dashboard", "login", "models"} \subseteq Pages
    /\ "login" \notin DOMAIN FeatureOf
  BY SessionAssumption DEF FeatureOf

LEMMA SessionStart == SessionInit => SessionInv
  <1> SUFFICES ASSUME SessionInit PROVE SessionInv OBVIOUS
  <1>1. SessionTypeOK
    <2>1. issued \in 0..MaxLogins /\ logins \in 0..MaxLogins /\ moves \in 0..MaxMoves
      BY SessionBounds DEF SessionInit
    <2>2. /\ token = None /\ identity = None /\ valid = {} /\ calls = {} /\ password = None
          /\ route = "start" /\ guarding = None /\ chunk = None /\ leaving = None
          /\ appMounted = FALSE /\ logging = FALSE
      BY DEF SessionInit
    <2>. QED BY <2>1, <2>2 DEF SessionTypeOK
  <1>2. Numbers /\ BareStart /\ ComingHasSession /\ ComingIsAllowed /\ MetaCarriesToken
    BY SessionBounds DEF SessionInit, Numbers, BareStart, ComingHasSession, ComingIsAllowed, Coming,
                        MetaCarriesToken
  <1>. QED BY <1>1, <1>2 DEF SessionInv, SessionInit

\* What the guard lets pass is allowed, and it stops nobody without a session.
LEMMA JudgedRight ==
    /\ beforeEach(guarding) \in {"login", "stay", "models", "pass"}
    /\ beforeEach(guarding) = "pass" /\ guarding # "login" => token # None /\ Opens(guarding)
    /\ beforeEach(guarding) = "stay" => token # None
  <1>1. beforeEach(guarding) =
            IF guarding \notin {"login"} /\ token = None THEN "login"
            ELSE IF guarding \in DOMAIN FeatureOf /\ ~hasFeature(FeatureOf[guarding]) THEN "stay"
            ELSE IF guarding = "dashboard" /\ ~hasPerm("system:read") THEN "models"
            ELSE "pass"
    BY DEF beforeEach, Judged
  <1>2. "login" \notin DOMAIN FeatureOf BY SessionBounds
  <1>. QED BY <1>1, <1>2 DEF Opens

\* A call carries the session there is.
LEMMA CallTyped ==
    ASSUME SessionTypeOK, NEW k \in {"meta", "page"}
    PROVE  [session |-> token, kind |-> k] \in Calls
  BY DEF SessionTypeOK, Calls

LEMMA LoadedOK ==
    ASSUME SessionInv, NEW p \in Pages, LoadConsole(p), UNCHANGED <<storeVars, serverVars>>,
           moves' \in 0..MaxMoves
    PROVE  SessionInv'
  <1>1. /\ guarding' = p /\ chunk' = None /\ leaving' = None
        /\ route' = "start" /\ appMounted' = FALSE
        /\ calls' = {} /\ logins' = 0 /\ logging' = FALSE /\ password' = None
        /\ token' = token /\ identity' = identity /\ valid' = valid /\ issued' = issued
    BY DEF LoadConsole, storeVars, serverVars
  <1>2. SessionTypeOK'
    <2>1. logins' \in 0..MaxLogins BY <1>1, SessionBounds
    <2>2. SessionTypeOK BY DEF SessionInv
    <2>. QED BY <1>1, <2>1, <2>2 DEF SessionTypeOK
  <1>3. Numbers' BY <1>1, SessionBounds DEF SessionInv, Numbers
  <1>. QED BY <1>1, <1>2, <1>3
       DEF SessionInv, BareStart, ComingHasSession, ComingIsAllowed, Coming, MetaCarriesToken

\* A navigation within the tab gives up the page that was coming.
LEMMA NavigatedOK ==
    ASSUME SessionInv, NEW p \in Pages, Navigate(p), appMounted, UNCHANGED <<route, appMounted, calls>>,
           SessionTypeOK', Numbers', logging' => logins' > 0
    PROVE  SessionInv'
  BY DEF SessionInv, Navigate, BareStart, ComingHasSession, ComingIsAllowed, Coming, MetaCarriesToken

\* A refusal on a page sends the tab to the login page.
LEMMA RefusedOK ==
    ASSUME SessionInv, appMounted, On401 \/ UNCHANGED <<token, leaving>>,
           UNCHANGED <<identity, route, appMounted, navVars>>, calls' \subseteq calls,
           SessionTypeOK', Numbers', logging' => logins' > 0
    PROVE  SessionInv'
  <1>1. route' = route /\ appMounted' = appMounted /\ chunk' = chunk /\ identity' = identity
    BY DEF navVars
  <1>2. BareStart' /\ MetaCarriesToken' BY <1>1 DEF SessionInv, BareStart, MetaCarriesToken
  <1>3. CASE UNCHANGED <<token, leaving>>
    <2>1. ComingHasSession' /\ ComingIsAllowed'
      BY <1>1, <1>3 DEF SessionInv, ComingHasSession, ComingIsAllowed, Coming, Opens, hasFeature, hasPerm
    <2>. QED BY <1>2, <2>1 DEF SessionInv
  <1>4. CASE route # "login" /\ leaving' = "login"
    <2>1. leaving' # None BY <1>4, SessionBounds
    <2>2. ComingHasSession' /\ ComingIsAllowed'
      BY <1>1, <1>4, <2>1 DEF ComingHasSession, ComingIsAllowed
    <2>. QED BY <1>2, <2>2 DEF SessionInv
  <1>. QED BY <1>3, <1>4 DEF On401

\* Where the session stays as it is, so does what may come.
LEMMA QuietOK ==
    ASSUME SessionInv, appMounted, UNCHANGED <<storeVars, route, appMounted, navVars, leaving>>,
           SessionTypeOK', Numbers', MetaCarriesToken', logging' => logins' > 0
    PROVE  SessionInv'
  BY DEF SessionInv, storeVars, navVars, BareStart, ComingHasSession, ComingIsAllowed, Coming, Opens,
         hasFeature, hasPerm

LEMMA MoveTyped == ASSUME SessionInv, Move PROVE moves' \in 0..MaxMoves
  <1>1. moves \in 0..MaxMoves /\ MaxMoves \in Nat BY SessionBounds DEF SessionInv, SessionTypeOK
  <1>. QED BY <1>1 DEF Move

\* The frame's call is made with a session: of a page that is coming, or of
\* a frame whose navigation was stopped.
LEMMA FrameShown ==
    ASSUME SessionInv, NEW to, ShowFrame(to),
           to # "login" /\ (~appMounted \/ route = "login") => token # None
    PROVE  calls' \subseteq Calls /\ MetaCarriesToken' /\ appMounted' = TRUE
  <1>. DEFINE m == [session |-> token, kind |-> "meta"]
              c == [session |-> token, kind |-> "page"]
  <1>1. m \in Calls /\ c \in Calls BY CallTyped DEF SessionInv
  <1>2. c.kind # "meta" /\ m.session = token OBVIOUS
  <1>3. /\ calls' \subseteq calls \cup {m, c} /\ appMounted' = TRUE
        /\ m \in calls' => m \in calls \/ (to # "login" /\ (~appMounted \/ route = "login"))
    <2>1. m # c OBVIOUS
    <2>. HIDE DEF m, c
    <2>2. /\ appMounted' = TRUE
          /\ calls' = calls \cup (IF to # "login" /\ (~appMounted \/ route = "login") THEN {m} ELSE {})
                            \cup (IF to \in {"login", "start"} THEN {} ELSE {c})
      BY DEF ShowFrame, m, c
    <2>. QED BY <2>1, <2>2
  <1>. HIDE DEF m, c
  <1>4. calls' \subseteq Calls BY <1>1, <1>3 DEF SessionInv, SessionTypeOK
  <1>5. ASSUME NEW k \in calls', k.kind = "meta" PROVE k.session # None
    <2>1. k \in calls \/ (k = m /\ token # None) BY <1>2, <1>3, <1>5
    <2>. QED BY <1>2, <1>5, <2>1 DEF SessionInv, MetaCarriesToken
  <1>. QED BY <1>3, <1>4, <1>5 DEF MetaCarriesToken

LEMMA GuardOK == SessionInv /\ Guard => SessionInv'
  <1> SUFFICES ASSUME SessionInv, Guard PROVE SessionInv' OBVIOUS
  <1>. DEFINE to == beforeEach(guarding)
  <1>1. /\ guarding # None
        /\ token' = token /\ identity' = identity /\ valid' = valid /\ issued' = issued
        /\ route' = route /\ leaving' = leaving /\ logins' = logins /\ logging' = logging
        /\ password' = password /\ moves' = moves
    BY DEF Guard, storeVars, serverVars
  <1>2. to \in {"login", "stay", "models", "pass"} BY JudgedRight
  <1>3. SessionTypeOK /\ Numbers /\ BareStart /\ (logging => logins > 0) BY DEF SessionInv
  <1>4. CASE to = "stay"
    <2>1. guarding' = None /\ chunk' = None /\ token # None BY <1>4, JudgedRight DEF Guard
    <2>2. calls' \subseteq Calls /\ MetaCarriesToken' /\ appMounted' \in BOOLEAN /\ BareStart'
      <3>1. CASE appMounted
        <4>1. appMounted' = appMounted /\ calls' = calls BY <1>4, <3>1 DEF Guard
        <4>. QED BY <3>1, <4>1 DEF SessionInv, SessionTypeOK, MetaCarriesToken, BareStart
      <3>2. CASE ~appMounted
        <4>1. ShowFrame("start") BY <1>4, <3>2 DEF Guard
        <4>. QED BY <2>1, <4>1, FrameShown DEF BareStart
      <3>. QED BY <3>1, <3>2
    <2>3. SessionTypeOK' BY <1>1, <1>3, <2>1, <2>2 DEF SessionTypeOK
    <2>. QED BY <1>1, <1>3, <2>1, <2>2, <2>3
         DEF SessionInv, Numbers, ComingHasSession, ComingIsAllowed, Coming
  <1>5. CASE to = "pass"
    <2>1. guarding' = None /\ chunk' = guarding /\ appMounted' = appMounted /\ calls' = calls
      BY <1>5 DEF Guard
    <2>2. guarding # "login" => token # None /\ Opens(guarding) BY <1>5, JudgedRight
    <2>3. SessionTypeOK' BY <1>1, <1>3, <2>1 DEF SessionTypeOK
    <2>4. BareStart' /\ MetaCarriesToken' /\ Numbers'
      BY <1>1, <1>3, <2>1 DEF SessionInv, BareStart, MetaCarriesToken, Numbers
    <2>5. ComingHasSession' /\ ComingIsAllowed'
      BY <1>1, <2>1, <2>2 DEF ComingHasSession, ComingIsAllowed, Coming, Opens, hasFeature, hasPerm
    <2>. QED BY <1>1, <1>3, <2>3, <2>4, <2>5 DEF SessionInv
  <1>6. CASE to \in {"login", "models"}
    <2>1. guarding' = to /\ chunk' = chunk /\ appMounted' = appMounted /\ calls' = calls
      BY <1>6 DEF Guard
    <2>2. to \in Pages BY <1>6, SessionBounds
    <2>. HIDE DEF to
    <2>3. SessionTypeOK' BY <1>1, <1>3, <2>1, <2>2 DEF SessionTypeOK
    <2>4. BareStart' /\ MetaCarriesToken' /\ Numbers'
      BY <1>1, <1>3, <2>1 DEF SessionInv, BareStart, MetaCarriesToken, Numbers
    <2>5. ComingHasSession' /\ ComingIsAllowed'
      BY <1>1, <2>1 DEF SessionInv, ComingHasSession, ComingIsAllowed, Coming, Opens, hasFeature, hasPerm
    <2>. QED BY <1>1, <1>3, <2>3, <2>4, <2>5 DEF SessionInv
  <1>. QED BY <1>2, <1>4, <1>5, <1>6

LEMMA ConfirmOK == SessionInv /\ Confirm => SessionInv'
  <1> SUFFICES ASSUME SessionInv, Confirm PROVE SessionInv' OBVIOUS
  <1>1. /\ guarding = None /\ chunk # None /\ route' = chunk /\ chunk' = None /\ ShowFrame(chunk)
        /\ token' = token /\ identity' = identity /\ valid' = valid /\ issued' = issued
        /\ guarding' = guarding /\ leaving' = leaving /\ logins' = logins /\ logging' = logging
        /\ password' = password /\ moves' = moves
    BY DEF Confirm, storeVars, serverVars
  <1>2. calls' \subseteq Calls /\ MetaCarriesToken' /\ appMounted' = TRUE
    BY <1>1, FrameShown DEF SessionInv, ComingHasSession, Coming
  <1>3. SessionTypeOK /\ Numbers /\ (logging => logins > 0) BY DEF SessionInv
  <1>4. SessionTypeOK' BY <1>1, <1>2, <1>3 DEF SessionTypeOK
  <1>. QED BY <1>1, <1>2, <1>3, <1>4
       DEF SessionInv, Numbers, BareStart, ComingHasSession, ComingIsAllowed, Coming

\* Calls: a page's, a refusal, and what is revoked meanwhile.
LEMMA CallsOK ==
    ASSUME SessionInv, PageCall \/ (\E c \in calls : CallEnds(c)) \/ (\E s \in valid : Revoke(s))
    PROVE  SessionInv'
  <1>. USE DEF storeVars, serverVars, navVars, workVars
  <1>1. SessionTypeOK /\ Numbers /\ (logging => logins > 0) /\ MetaCarriesToken /\ BareStart
    BY DEF SessionInv
  <1>2. CASE PageCall
    <2>. DEFINE c == [session |-> token, kind |-> "page"]
    <2>1. c \in Calls /\ c.kind # "meta" BY CallTyped DEF SessionInv
    <2>2. calls' = calls \cup {c} /\ appMounted
          /\ UNCHANGED <<storeVars, serverVars, route, appMounted, navVars, leaving, logins, logging, password, moves>>
      BY <1>2 DEF PageCall, Usable
    <2>. HIDE DEF c
    <2>3. SessionTypeOK' /\ Numbers' BY <1>1, <2>1, <2>2 DEF SessionTypeOK, Numbers
    <2>4. MetaCarriesToken' BY <1>1, <2>1, <2>2 DEF MetaCarriesToken
    <2>. QED BY <1>1, <2>2, <2>3, <2>4, QuietOK
  <1>3. ASSUME NEW c \in calls, CallEnds(c) PROVE SessionInv'
    <2>1. appMounted BY <1>1 DEF BareStart
    <2>2. /\ calls' \subseteq calls /\ (On401 \/ UNCHANGED <<token, leaving>>)
          /\ UNCHANGED <<identity, serverVars, route, appMounted, navVars, logins, logging, password, moves>>
      BY <1>3 DEF CallEnds
    <2>3. token' \in {token, None} /\ leaving' \in {leaving, "login"} BY <2>2 DEF On401
    <2>4. SessionTypeOK' /\ Numbers'
      BY <1>1, <2>2, <2>3, SessionBounds DEF SessionTypeOK, Numbers
    <2>. QED BY <1>1, <2>1, <2>2, <2>4, RefusedOK
  <1>4. ASSUME NEW s \in valid, Revoke(s) PROVE SessionInv'
    <2>1. /\ valid' = valid \ {s}
          /\ UNCHANGED <<storeVars, issued, route, appMounted, navVars, leaving, workVars, moves>>
      BY <1>4 DEF Revoke
    <2>2. SessionTypeOK' /\ Numbers' BY <1>1, <2>1 DEF SessionTypeOK, Numbers
    <2>3. BareStart' /\ MetaCarriesToken' BY <1>1, <2>1 DEF BareStart, MetaCarriesToken
    <2>4. ComingHasSession' /\ ComingIsAllowed'
      BY <2>1 DEF SessionInv, ComingHasSession, ComingIsAllowed, Coming, Opens, hasFeature, hasPerm
    <2>. QED BY <1>1, <2>1, <2>2, <2>3, <2>4 DEF SessionInv
  <1>. QED BY <1>2, <1>3, <1>4

\* Logins: what is issued was counted before.
LEMMA LoginsOK == SessionInv /\ (SubmitLogin \/ LoginAnswered) => SessionInv'
  <1> SUFFICES ASSUME SessionInv, SubmitLogin \/ LoginAnswered PROVE SessionInv' OBVIOUS
  <1>. USE DEF storeVars, serverVars, navVars
  <1>1. SessionTypeOK /\ Numbers /\ MetaCarriesToken /\ BareStart BY DEF SessionInv
  <1>2. issued \in Nat /\ logins \in Nat /\ MaxLogins \in Nat /\ issued + logins <= MaxLogins
    BY <1>1, SessionBounds DEF Numbers
  <1>3. CASE SubmitLogin
    <2>1. /\ issued + logins < MaxLogins /\ logins' = logins + 1 /\ logging' = TRUE /\ appMounted
          /\ UNCHANGED <<storeVars, serverVars, route, appMounted, navVars, leaving, calls, password, moves>>
      BY <1>3 DEF SubmitLogin, Usable
    <2>2. Numbers' /\ logins' \in 0..MaxLogins /\ logins' > 0 BY <1>2, <2>1 DEF Numbers
    <2>3. SessionTypeOK' BY <1>1, <2>1, <2>2 DEF SessionTypeOK
    <2>4. MetaCarriesToken' BY <1>1, <2>1 DEF MetaCarriesToken
    <2>. QED BY <2>1, <2>2, <2>3, <2>4, QuietOK
  <1>4. ASSUME logins > 0, logins' = logins - 1
        PROVE  /\ appMounted /\ logins' \in 0..MaxLogins
               /\ issued' = issued => Numbers'
               /\ issued' = issued + 1 => Numbers' /\ issued' \in 1..MaxLogins
    <2>1. appMounted BY <1>1, <1>2, <1>4 DEF BareStart
    <2>. QED BY <1>2, <1>4, <2>1 DEF Numbers
  <1>5. ASSUME NEW i \in Identities, LoginSucceeds(i) PROVE SessionInv'
    <2>1. /\ logins > 0 /\ issued' = issued + 1 /\ token' = [no |-> issued', id |-> i] /\ identity' = i
          /\ valid' = valid \cup {token'} /\ Navigate("dashboard") /\ logins' = logins - 1 /\ logging' = FALSE
          /\ UNCHANGED <<route, appMounted, leaving, calls, password, moves>>
      BY <1>5 DEF LoginSucceeds
    <2>2. appMounted /\ logins' \in 0..MaxLogins /\ Numbers' /\ issued' \in 1..MaxLogins BY <1>4, <2>1
    <2>3. token' \in SessionIds /\ token'.id = i BY <2>1, <2>2 DEF SessionIds
    <2>4. guarding' \in Pages \cup {None} /\ chunk' = None BY <2>1, SessionBounds DEF Navigate
    <2>5. issued' \in 0..MaxLogins BY <2>2
    <2>6. SessionTypeOK' BY <1>1, <2>1, <2>2, <2>3, <2>4, <2>5 DEF SessionTypeOK
    <2>7. "dashboard" \in Pages BY SessionBounds
    <2>. QED BY <2>1, <2>2, <2>6, <2>7, NavigatedOK
  <1>6. CASE LoginFails
    <2>1. /\ logins > 0 /\ logins' = logins - 1 /\ logging' = FALSE
          /\ On401 \/ UNCHANGED <<token, leaving>>
          /\ UNCHANGED <<identity, serverVars, route, appMounted, navVars, calls, password, moves>>
      BY <1>6 DEF LoginFails
    <2>2. appMounted /\ logins' \in 0..MaxLogins /\ Numbers' BY <1>4, <2>1
    <2>3. token' \in {token, None} /\ leaving' \in {leaving, "login"} BY <2>1 DEF On401
    <2>4. SessionTypeOK' BY <1>1, <2>1, <2>2, <2>3, SessionBounds DEF SessionTypeOK
    <2>. QED BY <2>1, <2>2, <2>4, RefusedOK
  <1>. QED BY <1>3, <1>5, <1>6 DEF LoginAnswered

\* The end of a session, by its user or by a password that was changed.
LEMMA EndsOK ==
    SessionInv /\ (Logout \/ ChangePassword \/ PasswordChanged \/ PasswordFails) => SessionInv'
  <1> SUFFICES ASSUME SessionInv, Logout \/ ChangePassword \/ PasswordChanged \/ PasswordFails
               PROVE  SessionInv'
      OBVIOUS
  <1>. USE DEF storeVars, serverVars, navVars, workVars
  <1>1. SessionTypeOK /\ Numbers /\ MetaCarriesToken /\ BareStart /\ (logging => logins > 0)
    BY DEF SessionInv
  <1>2. "login" \in Pages BY SessionBounds
  <1>3. CASE Logout
    <2>1. /\ appMounted /\ Move /\ token' = None /\ identity' = None /\ Navigate("login")
          /\ UNCHANGED <<serverVars, route, appMounted, leaving, workVars>>
      BY <1>3 DEF Logout, EndSession, Usable
    <2>2. moves' \in 0..MaxMoves BY <2>1, MoveTyped
    <2>3. guarding' \in Pages \cup {None} /\ chunk' = None BY <1>2, <2>1 DEF Navigate
    <2>4. SessionTypeOK' /\ Numbers' BY <1>1, <2>1, <2>2, <2>3 DEF SessionTypeOK, Numbers
    <2>. QED BY <1>1, <1>2, <2>1, <2>4, NavigatedOK
  <1>4. CASE ChangePassword
    <2>1. /\ appMounted /\ token # None /\ password' = token
          /\ UNCHANGED <<storeVars, serverVars, route, appMounted, navVars, leaving, calls, logins, logging, moves>>
      BY <1>4 DEF ChangePassword, Usable
    <2>2. SessionTypeOK' /\ Numbers' /\ MetaCarriesToken'
      BY <1>1, <2>1 DEF SessionTypeOK, Numbers, MetaCarriesToken
    <2>. QED BY <1>1, <2>1, <2>2, QuietOK
  <1>5. CASE PasswordChanged
    <2>1. /\ password # None /\ valid' = {s \in valid : s.id # password.id} /\ password' = None
          /\ token' = None /\ identity' = None /\ Navigate("login")
          /\ UNCHANGED <<issued, route, appMounted, leaving, calls, logins, logging, moves>>
      BY <1>5 DEF PasswordChanged, EndSession
    <2>2. appMounted BY <1>1, <2>1 DEF BareStart
    <2>3. guarding' \in Pages \cup {None} /\ chunk' = None BY <1>2, <2>1 DEF Navigate
    <2>4. valid' \subseteq valid BY <2>1
    <2>5. SessionTypeOK' /\ Numbers' BY <1>1, <2>1, <2>3, <2>4 DEF SessionTypeOK, Numbers
    <2>. QED BY <1>1, <1>2, <2>1, <2>2, <2>5, NavigatedOK
  <1>6. CASE PasswordFails
    <2>1. /\ password # None /\ password' = None /\ (On401 \/ UNCHANGED <<token, leaving>>)
          /\ UNCHANGED <<identity, serverVars, route, appMounted, navVars, calls, logins, logging, moves>>
      BY <1>6 DEF PasswordFails
    <2>2. appMounted BY <1>1, <2>1 DEF BareStart
    <2>3. token' \in {token, None} /\ leaving' \in {leaving, "login"} BY <2>1 DEF On401
    <2>4. SessionTypeOK' /\ Numbers'
      BY <1>1, <1>2, <2>1, <2>3 DEF SessionTypeOK, Numbers
    <2>. QED BY <1>1, <2>1, <2>2, <2>4, RefusedOK
  <1>. QED BY <1>3, <1>4, <1>5, <1>6

LEMMA SessionStep == SessionInv /\ [SessionNext]_sessionVars => SessionInv'
  <1> SUFFICES ASSUME SessionInv, [SessionNext]_sessionVars PROVE SessionInv' OBVIOUS
  <1>1. SessionTypeOK BY DEF SessionInv
  <1>2. ASSUME NEW p \in Pages, EnterAddress(p) PROVE SessionInv'
    BY <1>2, MoveTyped, LoadedOK DEF EnterAddress
  <1>3. ASSUME NEW p \in Pages, ClickMenu(p) PROVE SessionInv'
    <2>1. /\ appMounted /\ Move /\ Navigate(p)
          /\ UNCHANGED <<storeVars, serverVars, route, appMounted, leaving, workVars>>
      BY <1>3 DEF ClickMenu, Usable
    <2>2. moves' \in 0..MaxMoves BY <2>1, MoveTyped
    <2>3. guarding' \in Pages \cup {None} /\ chunk' = None BY <2>1 DEF Navigate
    <2>4. SessionTypeOK' BY <1>1, <2>1, <2>2, <2>3 DEF SessionTypeOK, storeVars, serverVars, workVars
    <2>. QED BY <2>1, <2>4, NavigatedOK DEF SessionInv, Numbers, serverVars, workVars
  <1>4. CASE BrowserLeaves
    <2>1. leaving \in Pages /\ moves' \in 0..MaxMoves
      BY <1>1, <1>4 DEF BrowserLeaves, SessionTypeOK
    <2>. QED BY <1>4, <2>1, LoadedOK DEF BrowserLeaves
  <1>5. CASE UNCHANGED sessionVars
    BY <1>5 DEF sessionVars, storeVars, serverVars, navVars, workVars, SessionInv, SessionTypeOK, Numbers,
                BareStart, ComingHasSession, ComingIsAllowed, Coming, MetaCarriesToken, Opens, hasFeature,
                hasPerm
  <1>. QED BY <1>2, <1>3, <1>4, <1>5, GuardOK, ConfirmOK, CallsOK, LoginsOK, EndsOK
       DEF SessionNext, Navigating

\* A page comes on screen only for a session that opens it.
ShownAllowed ==
    (route' # route /\ route' \notin {"login", "start"} /\ leaving' = None)
        => \A p \in Pages : route' = p => Opens(p)'

LEMMA ShownByConfirm ==
    SessionInv /\ [SessionNext]_sessionVars => ShownAllowed
  <1> SUFFICES ASSUME SessionInv, [SessionNext]_sessionVars, route' # route,
                      route' \notin {"login", "start"}, leaving' = None,
                      NEW p \in Pages, route' = p
               PROVE  Opens(p)'
      BY DEF ShownAllowed
  <1>1. CASE Confirm
    <2>1. /\ chunk # None /\ route' = chunk /\ leaving = None
          /\ token' = token /\ identity' = identity
      BY <1>1 DEF Confirm, storeVars
    <2>2. Opens(chunk) BY <2>1 DEF SessionInv, ComingIsAllowed, Coming
    <2>. QED BY <2>1, <2>2 DEF Opens, hasFeature, hasPerm
  <1>2. CASE ~Confirm
    <2>1. route' = route \/ route' = "start"
      BY <1>2 DEF SessionNext, Navigating, LoginAnswered, EnterAddress, ClickMenu, BrowserLeaves, LoadConsole,
                  Guard, Revoke, PageCall, CallEnds, SubmitLogin, LoginSucceeds, LoginFails, Logout,
                  ChangePassword, PasswordChanged, PasswordFails, sessionVars
    <2>. QED BY <2>1
  <1>. QED BY <1>1, <1>2

\* The frame's own calls carry a session, however navigations, refusals and
\* loads of the console overtake each other (App.vue and api/client.ts).
THEOREM FrameAsksWithSession == SessionSpec => []MetaCarriesToken
  <1>1. SessionInv => MetaCarriesToken BY DEF SessionInv
  <1>. QED BY <1>1, SessionStart, SessionStep, PTL DEF SessionSpec

\* What the guard of router.ts judged before the page's code came still holds
\* when it is shown.
THEOREM ShownIsAllowed == SessionSpec => ShownOnlyWhatIsAllowed
  <1>1. ShownAllowed => [(route' # route /\ route' \notin {"login", "start"} /\ leaving' = None)
                             => \A p \in Pages : route' = p => Opens(p)']_sessionVars
    BY DEF ShownAllowed
  <1>. QED BY <1>1, SessionStart, SessionStep, ShownByConfirm, PTL
       DEF SessionSpec, ShownOnlyWhatIsAllowed

(***************************************************************************)
(* The parts side by side.  Each keeps its own invariant, and none touches *)
(* what another one is about.                                              *)
(***************************************************************************)
OverviewSpins == mounted /\ loading => \E r \in asked : r.no = seq

ConsoleInv ==
    /\ SessionInv
    /\ DashInv /\ OverviewSpins
    /\ RuleInv /\ ModelInv /\ KeyTyped
    /\ AccessInv /\ GateInv /\ ListTyped

\* A step of the console is a step of each part, or leaves the part alone.
LEMMA PartsStep ==
    ASSUME [ConsoleNext]_consoleVars
    PROVE  /\ [SessionNext]_sessionVars /\ [DashNext]_dashVars /\ [RuleNext]_ruleVars
           /\ [ModelNext]_modelVars /\ [KeyNext]_keyVars /\ [AccessNext]_accessVars
           /\ [GateNext]_tenantVars /\ [ListNext]_listVars
  BY DEF ConsoleNext, Visit, consoleVars

LEMMA PartsStart ==
    ASSUME ConsoleInit
    PROVE  /\ SessionInit /\ DashInit /\ ModelInit /\ RuleInit /\ KeyInit /\ AccessInit
           /\ GateInit /\ ListInit
  BY DEF ConsoleInit

LEMMA ConsoleStart == ConsoleInit => ConsoleInv
  <1> SUFFICES ASSUME ConsoleInit PROVE ConsoleInv OBVIOUS
  <1>1. /\ SessionInit /\ DashInit /\ ModelInit /\ RuleInit /\ KeyInit /\ AccessInit
        /\ GateInit /\ ListInit
    BY PartsStart
  <1>2. OverviewSpins BY <1>1 DEF DashInit, OverviewSpins
  <1>. QED BY <1>1, <1>2, SessionStart, DashInitOK, RuleStart, ModelStart, KeyTypedInit, AccessInitOK,
              GateInitOK, ListTypedInit
       DEF ConsoleInv

LEMMA ConsoleStep == ConsoleInv /\ [ConsoleNext]_consoleVars => ConsoleInv'
  <1> SUFFICES ASSUME ConsoleInv, [ConsoleNext]_consoleVars PROVE ConsoleInv' OBVIOUS
  <1>1. /\ [SessionNext]_sessionVars /\ [DashNext]_dashVars /\ [RuleNext]_ruleVars
        /\ [ModelNext]_modelVars /\ [KeyNext]_keyVars /\ [AccessNext]_accessVars
        /\ [GateNext]_tenantVars /\ [ListNext]_listVars
    BY PartsStep
  <1>2. SessionInv' BY <1>1, SessionStep DEF ConsoleInv
  <1>3. DashInv' BY <1>1, DashStepOK DEF ConsoleInv
  <1>4. OverviewSpins' BY <1>1, DashSpins DEF ConsoleInv, OverviewSpins
  <1>5. RuleInv' BY <1>1, RuleStep DEF ConsoleInv
  <1>6. ModelInv' BY <1>1, ModelStep DEF ConsoleInv
  <1>7. KeyTyped' BY <1>1, KeyTypedStep DEF ConsoleInv
  <1>8. AccessInv' BY <1>1, AccessStepOK DEF ConsoleInv
  <1>9. GateInv' BY <1>1, GateStepOK DEF ConsoleInv
  <1>10. ListTyped' BY <1>1, ListTypedStep DEF ConsoleInv
  <1>. QED BY <1>2, <1>3, <1>4, <1>5, <1>6, <1>7, <1>8, <1>9, <1>10 DEF ConsoleInv

\* Every variable of the console, the key and the tenant gate keeps to its
\* type, for any constants.
THEOREM ConsoleTypeCorrect == ConsoleSpec => []ConsoleTypeOK
  <1>1. ConsoleInv => ConsoleTypeOK
    BY RuleTyped, ModelTyped DEF ConsoleInv, ConsoleTypeOK, SessionInv, DashInv, KeyTyped, AccessInv,
                                 GateInv, ListTyped
  <1>. QED BY <1>1, ConsoleStart, ConsoleStep, PTL DEF ConsoleSpec

\* Whatever answers overtake each other or fail, behind everything that turns
\* there is an answer that will end it (Dashboard.vue, ApiKeyList.vue, the
\* login page and the list pages).
THEOREM SpinnersHaveAnswers == ConsoleSpec => []SpinnersAwaitAnswers
  <1>1. ConsoleInv => SpinnersAwaitAnswers
    BY KeySpins DEF ConsoleInv, OverviewSpins, SessionInv, KeyTyped, ListTyped, ListSpins,
                    SpinnersAwaitAnswers
  <1>. QED BY <1>1, ConsoleStart, ConsoleStep, PTL DEF ConsoleSpec

\* The console is a behaviour of each of its parts, so that what is proved of a
\* part alone holds of the console: nothing another page, the key or the tenant
\* gate does disturbs it.
LEMMA ConsoleIsItsParts ==
    ConsoleSpec => /\ SessionSpec /\ DashSpec /\ RuleSpec /\ ModelSpec
                   /\ KeySpec /\ AccessSpec /\ GateSpec /\ ListSpec
  <1>1. ConsoleInit => /\ SessionInit /\ DashInit /\ ModelInit /\ RuleInit /\ KeyInit
                       /\ AccessInit /\ GateInit /\ ListInit
    BY PartsStart
  <1>2. [ConsoleNext]_consoleVars =>
            /\ [SessionNext]_sessionVars /\ [DashNext]_dashVars /\ [RuleNext]_ruleVars
            /\ [ModelNext]_modelVars /\ [KeyNext]_keyVars /\ [AccessNext]_accessVars
            /\ [GateNext]_tenantVars /\ [ListNext]_listVars
    BY PartsStep
  <1>. QED BY <1>1, <1>2, PTL
       DEF ConsoleSpec, SessionSpec, DashSpec, RuleSpec, ModelSpec, KeySpec, AccessSpec, GateSpec,
           ListSpec

\* Whatever the user, the backend and the other parts do, the console keeps all
\* of the safety properties of its parts: the ones its run checks.
THEOREM ConsoleIsSafe ==
    ConsoleSpec => /\ [](FiguresMatchWindow /\ ChartsMatchFigures)
                   /\ [](HandReplacementKept /\ RowsCoherent /\ FetchAsksFormAddress)
                   /\ [](SingleKeyShown /\ OneKeyPerDialog /\ OrderedListIsCurrent)
                   /\ [](QuotaOverrunBounded /\ MetaCarriesToken)
                   /\ HandPatternKept /\ DisabledTenantOut /\ ShownOnlyWhatIsAllowed
  BY ConsoleIsItsParts, FiguresAreCurrent, ChartsAreCurrent, KeysAreShown, OneKeyMade,
     ListsAreCurrent, ReplacementIsKept, PatternIsKept, ModelsAreCoherent, CatalogueIsOfTheForm,
     OverrunIsBounded, DisabledStaysOut, FrameAsksWithSession, ShownIsAllowed, PTL
=============================================================================
