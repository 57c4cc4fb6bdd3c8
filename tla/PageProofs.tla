----------------------------- MODULE PageProofs -----------------------------
(***************************************************************************)
(* The console's pages that load what they show: the overview, the         *)
(* creation of keys and the lists, for any windows, filters, pages and     *)
(* bounds.                                                                 *)
(***************************************************************************)
EXTENDS Dashboard, ApiKeyPage, ListPages, FiniteSetTheorems, TLAPS

(***************************************************************************)
(* The overview page shows the figures of the window selected, and every   *)
(* chart shows what the texts show.  The figures need to be strengthened   *)
(* by what is under way: no request is numbered beyond the latest load;    *)
(* while the page loads, what is asked under the latest number is one      *)
(* request, for the window selected; and when it has stopped loading       *)
(* nothing is.                                                             *)
(***************************************************************************)
LatestAsked ==
    /\ \A r \in asked : r.no <= seq
    /\ mounted =>
        /\ \A r \in asked : Latest(r) => loading /\ r.window = activeWindow
        /\ \A r, s \in asked : Latest(r) /\ Latest(s) => r = s
        /\ loading => ~failed

DashInv == DashTypeOK /\ LatestAsked /\ FiguresMatchWindow /\ ChartsMatchFigures

\* What RenderAll makes of any charts is charts again.
LEMMA RenderTyped ==
    ASSUME DashTypeOK, NEW d \in Figures \cup {None}, NEW th \in Themes
    PROVE  RenderAll(d, th) \in [Panels -> Drawing \cup {None}]
  <1>1. ASSUME NEW p \in Panels PROVE Drawn(p, d, th) \in Drawing \cup {None} \/ ~HasRequests(d)
    <2>1. CASE HasRequests(d)
      <3>1. d.no \in 1..MaxLoads BY <2>1 DEF HasRequests, Figures
      <3>2. [no |-> d.no, theme |-> th] \in Drawing BY <3>1 DEF Drawing
      <3>. QED BY <3>2, <1>1 DEF Drawn, Draw, DashTypeOK
    <2>. QED BY <2>1
  <1>. QED BY <1>1 DEF RenderAll, DashTypeOK, Drawing

LEMMA DashInitOK == DashInit => DashInv
  <1> SUFFICES ASSUME DashInit PROVE DashInv OBVIOUS
  <1>1. DashTypeOK
    <2>1. seq \in 0..MaxLoads /\ asked \subseteq Request BY DashboardAssumption DEF DashInit
    <2>2. charts \in [Panels -> Drawing \cup {None}] BY DEF DashInit
    <2>. QED BY <2>1, <2>2, DashboardAssumption DEF DashInit, DashTypeOK
  <1>2. LatestAsked BY DEF DashInit, LatestAsked
  <1>3. FiguresMatchWindow BY DEF DashInit, FiguresMatchWindow
  <1>4. ChartsMatchFigures BY DEF DashInit, ChartsMatchFigures
  <1>. QED BY <1>1, <1>2, <1>3, <1>4 DEF DashInv

LEMMA MountKeeps == DashInv /\ Mount => DashInv'
  <1> SUFFICES ASSUME DashInv, Mount PROVE DashInv' OBVIOUS
  <1>. DEFINE r == [no |-> 1, window |-> FirstWindow]
  <1>1. r \in Request /\ r.no = 1 /\ r.window = FirstWindow BY DashboardAssumption DEF Request
  <1>2. asked' = {r} /\ seq' = 1 /\ loading' = TRUE /\ failed' = FALSE /\ data' = None
    BY DEF Mount, StartDashLoad
  <1>. HIDE DEF r
  <1>3. DashTypeOK'
    <2>1. seq' \in 0..MaxLoads /\ asked' \subseteq Request BY <1>1, <1>2, DashboardAssumption
    <2>2. charts' \in [Panels -> Drawing \cup {None}] BY DEF Mount
    <2>. QED BY <1>2, <2>1, <2>2, DashboardAssumption DEF DashInv, DashTypeOK, Mount
  <1>4. LatestAsked' BY <1>1, <1>2 DEF LatestAsked, Latest, Mount
  <1>5. FiguresMatchWindow' BY <1>2 DEF FiguresMatchWindow
  <1>6. ChartsMatchFigures' BY <1>2 DEF ChartsMatchFigures, HasRequests, Mount
  <1>. QED BY <1>3, <1>4, <1>5, <1>6 DEF DashInv

\* A further load, by another window or by the retry link.
LEMMA LoadKeeps ==
    ASSUME DashInv, mounted, NEW w \in Windows, activeWindow' = w,
           StartDashLoad(seq + 1), asked' = asked \cup {[no |-> seq + 1, window |-> w]},
           UNCHANGED <<mounted, data, charts, theme>>
    PROVE  DashInv'
  <1>. DEFINE q == [no |-> seq + 1, window |-> w]
  <1>1. seq + 1 \in 1..MaxLoads BY DashboardAssumption DEF DashInv, DashTypeOK, StartDashLoad
  <1>2. q \in Request /\ q.no = seq + 1 /\ q.window = w BY <1>1 DEF Request
  <1>3. asked' = asked \cup {q} /\ seq' = seq + 1 /\ loading' = TRUE /\ failed' = FALSE
    BY DEF StartDashLoad
  <1>. HIDE DEF q
  <1>4. DashTypeOK'
    <2>1. seq' \in 0..MaxLoads BY <1>1, <1>3, DashboardAssumption
    <2>2. asked' \subseteq Request BY <1>2, <1>3 DEF DashInv, DashTypeOK
    <2>. QED BY <1>3, <2>1, <2>2 DEF DashInv, DashTypeOK
  <1>5. seq \in Nat /\ \A r \in asked : r.no <= seq /\ r.no \in Nat
    BY DashboardAssumption DEF DashInv, DashTypeOK, LatestAsked, Request
  <1>6. LatestAsked'
    <2>1. \A r \in asked' : r = q \/ (r \in asked /\ r.no < seq + 1 /\ r.no # seq')
      BY <1>3, <1>5
    <2>2. \A r \in asked' : r.no <= seq' BY <1>2, <1>3, <2>1, <1>5
    <2>3. \A r \in asked' : r.no = seq' => r = q BY <2>1
    <2>4. q.window = activeWindow' BY <1>2
    <2>. QED BY <1>3, <2>2, <2>3, <2>4 DEF LatestAsked, Latest
  <1>7. FiguresMatchWindow' BY <1>3 DEF FiguresMatchWindow
  <1>8. ChartsMatchFigures' BY DEF ChartsMatchFigures, HasRequests, DashInv
  <1>. QED BY <1>4, <1>6, <1>7, <1>8 DEF DashInv

\* What the charts are after a draw.
LEMMA DrawnMatches ==
    ASSUME DashInv, NEW d \in Figures \cup {None}, NEW th \in Themes,
           data' = d, theme' = th, UNCHANGED mounted, charts' = RenderAll(d, th)
    PROVE  ChartsMatchFigures'
  <1> SUFFICES ASSUME NEW p \in Panels
               PROVE IF mounted /\ HasRequests(d) THEN charts'[p] = [no |-> d.no, theme |-> th]
                     ELSE charts'[p] = None \/ (mounted /\ charts'[p] = Cleared)
    BY DEF ChartsMatchFigures, HasRequests
  <1>1. ~mounted => charts[p] = None BY DEF DashInv, ChartsMatchFigures
  <1>. QED BY <1>1 DEF RenderAll, Drawn, Draw

\* An answer to the latest load, or its failure; later ones change nothing.
LEMMA LatestKeeps ==
    ASSUME DashInv, NEW r \in asked, Latest(r), asked' = asked \ {r},
           NEW d \in Figures \cup {None}, data' = d, charts' = RenderAll(d, theme),
           loading' = FALSE, failed' \in BOOLEAN, UNCHANGED <<mounted, activeWindow, seq, theme>>,
           failed' \/ (d # None /\ d.no = r.no /\ d.window = r.window /\ failed' = failed),
           failed' => d = None \/ failed' = failed
    PROVE  DashInv'
  <1>1. theme \in Themes BY DEF DashInv, DashTypeOK
  <1>2. DashTypeOK' BY <1>1, RenderTyped DEF DashInv, DashTypeOK
  <1>3. \A s \in asked' : s.no <= seq' /\ (mounted => ~(s.no = seq))
    BY DEF DashInv, LatestAsked, Latest
  <1>4. LatestAsked' BY <1>3 DEF LatestAsked, Latest
  <1>5. ChartsMatchFigures' BY <1>1, DrawnMatches
  <1>6. FiguresMatchWindow'
    <2> SUFFICES ASSUME mounted
                 PROVE IF failed' THEN Shown' = [cards |-> None, latency |-> None, rates |-> None, empty |-> FALSE]
                       ELSE /\ d # None /\ d.window = activeWindow
                            /\ Shown'.cards = seq /\ Shown'.rates = seq
                            /\ Shown'.empty <=> Shown'.latency = None
      BY DEF FiguresMatchWindow
    <2>1. ~failed /\ r.window = activeWindow /\ r.no = seq BY DEF DashInv, LatestAsked, Latest
    <2>2. CASE failed'
      <3>1. d = None BY <2>1, <2>2
      <3>. QED BY <2>2, <3>1 DEF Shown, HasRequests
    <2>3. CASE ~failed'
      <3>1. d # None /\ d.no = seq /\ d.window = activeWindow BY <2>1, <2>3
      <3>2. d.no # None BY <3>1, DashboardAssumption DEF Figures
      <3>. QED BY <2>3, <3>1, <3>2 DEF Shown, HasRequests
    <2>. QED BY <2>2, <2>3
  <1>. QED BY <1>2, <1>4, <1>5, <1>6 DEF DashInv

LEMMA OvertakenKeeps ==
    ASSUME DashInv, NEW r \in asked, ~Latest(r), asked' = asked \ {r},
           UNCHANGED <<mounted, activeWindow, data, failed, loading, seq, charts, theme>>
    PROVE  DashInv'
  <1>1. DashTypeOK' BY DEF DashInv, DashTypeOK
  <1>2. LatestAsked' BY DEF DashInv, LatestAsked, Latest
  <1>3. FiguresMatchWindow' BY DEF DashInv, FiguresMatchWindow, Shown, HasRequests
  <1>4. ChartsMatchFigures' BY DEF DashInv, ChartsMatchFigures, HasRequests
  <1>. QED BY <1>1, <1>2, <1>3, <1>4 DEF DashInv

LEMMA AnswerKeeps ==
    ASSUME DashInv, NEW r \in asked, NEW n \in {0, 1}, DashAnswer(r, n) PROVE DashInv'
  <1>1. CASE Latest(r)
    <2>. DEFINE d == [no |-> r.no, window |-> r.window, requests |-> n]
    <2>1. r \in Request BY DEF DashInv, DashTypeOK
    <2>2. d \in Figures /\ d.no = r.no /\ d.window = r.window BY <2>1 DEF Request, Figures
    <2>3. data' = d /\ charts' = RenderAll(d, theme) /\ loading' = FALSE /\ asked' = asked \ {r}
          /\ UNCHANGED <<mounted, activeWindow, failed, seq, theme>>
      BY <1>1 DEF DashAnswer
    <2>4. failed' \in BOOLEAN /\ failed' = failed BY <2>3 DEF DashInv, DashTypeOK
    <2>5. d # None BY <2>2, DashboardAssumption
    <2>. HIDE DEF d
    <2>. QED BY <1>1, <2>2, <2>3, <2>4, <2>5, LatestKeeps
  <1>2. CASE ~Latest(r) BY <1>2, OvertakenKeeps DEF DashAnswer
  <1>. QED BY <1>1, <1>2

LEMMA FailKeeps == ASSUME DashInv, NEW r \in asked, DashFail(r) PROVE DashInv'
  <1>1. CASE Latest(r) BY <1>1, LatestKeeps DEF DashFail
  <1>2. CASE ~Latest(r) BY <1>2, OvertakenKeeps DEF DashFail
  <1>. QED BY <1>1, <1>2

LEMMA ThemeKeeps == DashInv /\ ToggleTheme => DashInv'
  <1> SUFFICES ASSUME DashInv, ToggleTheme PROVE DashInv' OBVIOUS
  <1>1. theme' \in Themes /\ data \in Figures \cup {None} BY DEF DashInv, DashTypeOK, ToggleTheme, Themes
  <1>2. charts' \in [Panels -> Drawing \cup {None}]
    BY <1>1, RenderTyped DEF DashInv, DashTypeOK, ToggleTheme
  <1>3. DashTypeOK' BY <1>1, <1>2 DEF DashInv, DashTypeOK, ToggleTheme
  <1>4. LatestAsked' BY DEF DashInv, LatestAsked, Latest, ToggleTheme
  <1>5. FiguresMatchWindow' BY DEF DashInv, FiguresMatchWindow, Shown, HasRequests, ToggleTheme
  <1>6. ChartsMatchFigures'
    <2>1. CASE mounted BY <2>1, <1>1, DrawnMatches DEF ToggleTheme
    <2>2. CASE ~mounted BY <2>2 DEF DashInv, ChartsMatchFigures, ToggleTheme
    <2>. QED BY <2>1, <2>2
  <1>. QED BY <1>3, <1>4, <1>5, <1>6 DEF DashInv

LEMMA LeaveKeeps == DashInv /\ Leave => DashInv'
  <1> SUFFICES ASSUME DashInv, Leave PROVE DashInv' OBVIOUS
  <1>1. DashTypeOK' BY DEF DashInv, DashTypeOK, Leave
  <1>2. LatestAsked' BY DEF DashInv, LatestAsked, Leave
  <1>3. FiguresMatchWindow' BY DEF FiguresMatchWindow, Leave
  <1>4. ChartsMatchFigures' BY DEF ChartsMatchFigures, Leave
  <1>. QED BY <1>1, <1>2, <1>3, <1>4 DEF DashInv

LEMMA DashStepOK == DashInv /\ [DashNext]_dashVars => DashInv'
  <1> SUFFICES ASSUME DashInv, [DashNext]_dashVars PROVE DashInv' OBVIOUS
  <1>1. CASE Mount BY <1>1, MountKeeps
  <1>2. CASE Leave BY <1>2, LeaveKeeps
  <1>3. ASSUME NEW w \in Windows, PickWindow(w) PROVE DashInv'
    BY <1>3, LoadKeeps DEF PickWindow
  <1>4. CASE Retry
    <2>1. activeWindow \in Windows BY DEF DashInv, DashTypeOK
    <2>. QED BY <1>4, <2>1, LoadKeeps DEF Retry
  <1>5. CASE ToggleTheme BY <1>5, ThemeKeeps
  <1>6. ASSUME NEW r \in asked, DashAnswered(r) PROVE DashInv'
    BY <1>6, FailKeeps, AnswerKeeps DEF DashAnswered
  <1>7. CASE UNCHANGED dashVars
    BY <1>7 DEF dashVars, DashInv, DashTypeOK, LatestAsked, Latest, FiguresMatchWindow, Shown,
       ChartsMatchFigures, HasRequests
  <1>. QED BY <1>1, <1>2, <1>3, <1>4, <1>5, <1>6, <1>7 DEF DashNext, DashUser

\* The page's variables keep their types.
THEOREM DashTypeCorrect == DashSpec => []DashTypeOK
  <1>1. DashInv => DashTypeOK BY DEF DashInv
  <1>. QED BY <1>1, DashInitOK, DashStepOK, PTL DEF DashSpec

\* Whatever order the answers come in, when the page is not loading it shows
\* the figures of the window selected, or nothing after a failure.
THEOREM FiguresAreCurrent == DashSpec => []FiguresMatchWindow
  <1>1. DashInv => FiguresMatchWindow BY DEF DashInv
  <1>. QED BY <1>1, DashInitOK, DashStepOK, PTL DEF DashSpec

\* The charts, which are drawn by hand, show what the texts show, in the
\* colours of the theme, through every load, failure and change of the theme.
THEOREM ChartsAreCurrent == DashSpec => []ChartsMatchFigures
  <1>1. DashInv => ChartsMatchFigures BY DEF DashInv
  <1>. QED BY <1>1, DashInitOK, DashStepOK, PTL DEF DashSpec

(***************************************************************************)
(* The creation of keys: a key sent by the server was on screen, and one   *)
(* dialog makes one key.  The second needs two more facts: the button      *)
(* shows that it is saving exactly while one creation or one list is under *)
(* way, and a dialog that is open, or has a creation under way, has made   *)
(* no key.                                                                 *)
(***************************************************************************)
\* The counters are of their type whatever the bounds on clicks.
Counted ==
    /\ created \in Nat /\ opening \in Nat /\ creating \in Nat /\ listing \in Nat /\ spent \in Nat
    /\ keyDialog \in BOOLEAN /\ saving \in BOOLEAN /\ plainDialog \in BOOLEAN
    /\ sent \subseteq 1..created

OneAtATime == creating + listing = IF saving THEN 1 ELSE 0

UnspentWhileOpen ==
    /\ keyDialog \/ creating > 0 => spent = 0
    /\ spent <= 1

LastKeyHeld ==
    /\ sent \subseteq seen
    /\ plainDialog => plainKey \in sent /\ \A k \in sent : k <= plainKey

KeyInv == Counted /\ OneAtATime /\ UnspentWhileOpen /\ LastKeyHeld

LEMMA KeyInitOK == KeyInit => KeyInv
  <1> SUFFICES ASSUME KeyInit PROVE KeyInv OBVIOUS
  <1>1. Counted BY DEF KeyInit, Counted
  <1>2. OneAtATime BY DEF KeyInit, OneAtATime
  <1>3. UnspentWhileOpen BY DEF KeyInit, UnspentWhileOpen
  <1>4. LastKeyHeld BY DEF KeyInit, LastKeyHeld
  <1>. QED BY <1>1, <1>2, <1>3, <1>4 DEF KeyInv

\* The steps that leave the creation of keys and their plain text alone.
LEMMA AsideKeeps ==
    ASSUME KeyInv, UNCHANGED <<created, saving, creating, listing, sent, seen, plainKey>>,
           opening' \in Nat, keyDialog' \in BOOLEAN, plainDialog' \in BOOLEAN,
           plainDialog' => plainDialog,
           spent' = spent \/ spent' = 0, keyDialog' => keyDialog \/ spent' = 0
    PROVE  KeyInv'
  <1>1. Counted' BY DEF KeyInv, Counted
  <1>2. OneAtATime' BY DEF KeyInv, OneAtATime
  <1>3. UnspentWhileOpen' BY DEF KeyInv, UnspentWhileOpen
  <1>4. LastKeyHeld' BY DEF KeyInv, LastKeyHeld
  <1>. QED BY <1>1, <1>2, <1>3, <1>4 DEF KeyInv

LEMMA ClickSaveKeeps == KeyInv /\ clickSave => KeyInv'
  <1> SUFFICES ASSUME KeyInv, clickSave PROVE KeyInv' OBVIOUS
  <1>1. Counted' BY DEF KeyInv, Counted, clickSave, openVars, plainVars
  <1>2. OneAtATime' BY DEF KeyInv, Counted, OneAtATime, clickSave
  <1>3. UnspentWhileOpen' BY DEF KeyInv, Counted, UnspentWhileOpen, clickSave, openVars
  <1>4. LastKeyHeld' BY DEF KeyInv, LastKeyHeld, clickSave, plainVars
  <1>. QED BY <1>1, <1>2, <1>3, <1>4 DEF KeyInv

LEMMA CreatedKeeps == KeyInv /\ KeyCreated => KeyInv'
  <1> SUFFICES ASSUME KeyInv, KeyCreated PROVE KeyInv' OBVIOUS
  <1>1. created' = created + 1 /\ sent' = sent \cup {created'} /\ created \in Nat /\ sent \subseteq 1..created
    BY DEF KeyInv, Counted, KeyCreated, createAPIKey
  <1>2. sent' \subseteq 1..created' /\ \A k \in sent' : k <= created' BY <1>1
  <1>3. creating > 0 /\ creating' = creating - 1 /\ listing' = listing + 1 /\ spent' = spent + 1
        /\ keyDialog' = FALSE /\ UNCHANGED <<opening, saving>>
    BY DEF KeyCreated
  <1>4. Counted'
    <2>1. creating \in Nat /\ listing \in Nat /\ spent \in Nat /\ opening \in Nat /\ saving \in BOOLEAN
      BY DEF KeyInv, Counted
    <2>2. creating' \in Nat /\ listing' \in Nat /\ spent' \in Nat BY <1>3, <2>1
    <2>3. plainDialog' \in BOOLEAN BY DEF KeyCreated, ShowKey
    <2>4. created' \in Nat BY <1>1
    <2>. QED BY <1>2, <1>3, <2>1, <2>2, <2>3, <2>4 DEF Counted
  <1>5. OneAtATime' BY <1>3 DEF KeyInv, Counted, OneAtATime
  <1>6. creating' = 0 BY <1>3 DEF KeyInv, Counted, OneAtATime
  <1>7. UnspentWhileOpen' BY <1>3, <1>6 DEF KeyInv, UnspentWhileOpen
  <1>8. LastKeyHeld' BY <1>1, <1>2 DEF KeyInv, LastKeyHeld, KeyCreated, ShowKey
  <1>. QED BY <1>4, <1>5, <1>7, <1>8 DEF KeyInv

\* The failure of a creation and the end of a list, and a batch.
LEMMA EndKeeps ==
    ASSUME KeyInv, creating' \in Nat, listing' \in Nat, saving' \in BOOLEAN, OneAtATime',
           created' = created \/ created' = created + 1, creating' <= creating,
           spent' = spent \/ spent' = 0, UNCHANGED <<opening, keyDialog, plainVars>>
    PROVE  KeyInv'
  <1>1. Counted' BY DEF KeyInv, Counted, plainVars
  <1>2. UnspentWhileOpen' BY DEF KeyInv, Counted, UnspentWhileOpen
  <1>3. LastKeyHeld' BY DEF KeyInv, LastKeyHeld, plainVars
  <1>. QED BY <1>1, <1>2, <1>3 DEF KeyInv

LEMMA FailedKeeps == KeyInv /\ KeyCreateFailed => KeyInv'
  <1> SUFFICES ASSUME KeyInv, KeyCreateFailed PROVE KeyInv' OBVIOUS
  <1>1. creating' = creating - 1 /\ creating > 0 /\ saving' = FALSE /\ UNCHANGED listing
    BY DEF KeyCreateFailed
  <1>2. creating' \in Nat /\ listing' \in Nat /\ OneAtATime' /\ creating' <= creating
    BY <1>1 DEF KeyInv, Counted, OneAtATime
  <1>. QED BY <1>1, <1>2, EndKeeps DEF KeyCreateFailed, createAPIKey

LEMMA ListCameKeeps == KeyInv /\ KeyListCame => KeyInv'
  <1> SUFFICES ASSUME KeyInv, KeyListCame PROVE KeyInv' OBVIOUS
  <1>1. listing' = listing - 1 /\ listing > 0 /\ saving' = FALSE /\ UNCHANGED creating
    BY DEF KeyListCame
  <1>2. creating' \in Nat /\ listing' \in Nat /\ OneAtATime' /\ creating' <= creating
    BY <1>1 DEF KeyInv, Counted, OneAtATime
  <1>. QED BY <1>1, <1>2, EndKeeps DEF KeyListCame, openVars

LEMMA BatchKeeps ==
    ASSUME KeyInv, NEW from, NEW to, BatchStep(from, to), UNCHANGED created \/ createAPIKey
    PROVE  KeyInv'
  <1>1. UNCHANGED <<openVars, saveVars, plainVars>> BY DEF BatchStep
  <1>2. creating' \in Nat /\ listing' \in Nat /\ saving' \in BOOLEAN /\ OneAtATime' /\ creating' <= creating
    BY <1>1 DEF KeyInv, Counted, OneAtATime, saveVars
  <1>. QED BY <1>1, <1>2, EndKeeps DEF createAPIKey, openVars

LEMMA KeyStepOK == KeyInv /\ [KeyNext]_keyVars => KeyInv'
  <1> SUFFICES ASSUME KeyInv, [KeyNext]_keyVars PROVE KeyInv' OBVIOUS
  <1>0. opening \in Nat /\ keyDialog \in BOOLEAN /\ plainDialog \in BOOLEAN BY DEF KeyInv, Counted
  <1>1. CASE clickCreate BY <1>0, <1>1, AsideKeeps DEF clickCreate, saveVars, plainVars
  <1>2. CASE openCreateKey
    BY <1>0, <1>2, AsideKeeps DEF openCreateKey, saveVars, plainVars, KeyInv, UnspentWhileOpen
  <1>3. CASE closeKeyDialog BY <1>0, <1>3, AsideKeeps DEF closeKeyDialog, saveVars, plainVars
  <1>4. CASE closePlain BY <1>0, <1>4, AsideKeeps DEF closePlain, saveVars, openVars
  <1>5. CASE clickSave BY <1>5, ClickSaveKeeps
  <1>6. CASE KeyCreated BY <1>6, CreatedKeeps
  <1>7. CASE KeyCreateFailed BY <1>7, FailedKeeps
  <1>8. CASE KeyListCame BY <1>8, ListCameKeeps
  <1>9. CASE openBatch \/ closeBatch \/ clickBatch \/ BatchFailed \/ BatchListCame \/ BatchCreated
    BY <1>9, BatchKeeps DEF openBatch, closeBatch, clickBatch, BatchFailed, BatchListCame, BatchCreated
  <1>10. CASE UNCHANGED keyVars
    BY <1>0, <1>10, AsideKeeps DEF keyVars, openVars, saveVars, plainVars
  <1>. QED BY <1>1, <1>2, <1>3, <1>4, <1>5, <1>6, <1>7, <1>8, <1>9, <1>10 DEF KeyNext, KeyAnswered

\* A key whose plain text the server sent in answer to save() was on screen,
\* whatever becomes of the list that the page loads, and the dialog of plain
\* texts holds the last one.
THEOREM KeysAreShown == KeySpec => []SingleKeyShown
  <1>1. KeyInv => SingleKeyShown BY DEF KeyInv, LastKeyHeld, SingleKeyShown
  <1>. QED BY <1>1, KeyInitOK, KeyStepOK, PTL DEF KeySpec

\* However often its button is clicked and however often it was opened, one
\* dialog makes one key until it shows an error.
THEOREM OneKeyMade == KeySpec => []OneKeyPerDialog
  <1>1. KeyInv => OneKeyPerDialog BY DEF KeyInv, UnspentWhileOpen, OneKeyPerDialog
  <1>. QED BY <1>1, KeyInitOK, KeyStepOK, PTL DEF KeySpec

(***************************************************************************)
(* A list whose last load was answered is current: although no page        *)
(* numbers its loads, whatever changes the page of rows, the filter that   *)
(* counts or what was written also starts a load, so the last load always  *)
(* asks for what counts.  This is the strengthening: the last load under   *)
(* way, and the rows of the last load, match the page's state.             *)
(***************************************************************************)
\* The filter that the rows on screen must fit.
Counts == IF AtOnce(view) THEN filter ELSE applied

Fields == {"no", "page", "filter", "got", "step", "saves"}

Numbered ==
    /\ lastLoad \in Nat /\ version \in Nat /\ mine \in Nat /\ mine <= version
    /\ \A r \in loads : r.no \in Nat /\ r.no <= lastLoad /\ r.got \in Nat /\ DOMAIN r = Fields
    /\ rows # None => rows.no \in Nat /\ rows.no <= lastLoad

LastLoadAsksForIt ==
    \A r \in loads : r.no = lastLoad =>
        /\ r.page = page
        /\ r.filter = Counts
        /\ r.step = "served" => mine <= r.got

LastRowsAreIt ==
    rows # None => (rows.no = lastLoad =>
        rows.page = page /\ rows.filter = Counts /\ mine <= rows.version)

ListInv == Numbered /\ LastLoadAsksForIt /\ LastRowsAreIt

\* Starting a load makes everything match, as long as the filter it sends is
\* the one that counts afterwards.
LEMMA StartKeeps ==
    ASSUME ListInv, NEW p, NEW f, NEW saves, StartLoad(p, f, saves),
           version' \in Nat, mine' \in Nat, mine' <= version', UNCHANGED view,
           AtOnce(view) => filter' = f
    PROVE  ListInv'
  <1>. DEFINE q == [no |-> lastLoad + 1, page |-> p, filter |-> f, got |-> 0,
                    step |-> "asked", saves |-> saves]
  <1>1. q.no = lastLoad + 1 /\ q.page = p /\ q.filter = f /\ q.got = 0 /\ q.step = "asked"
        /\ DOMAIN q = Fields
    BY DEF Fields
  <1>2. loads' = loads \cup {q} /\ lastLoad' = lastLoad + 1 /\ page' = p /\ applied' = f /\ rows' = rows
    BY DEF StartLoad
  <1>3. Counts' = f BY <1>2 DEF Counts, AtOnce
  <1>. HIDE DEF q
  <1>4. lastLoad \in Nat /\ \A r \in loads : r.no \in Nat /\ r.no <= lastLoad /\ r.got \in Nat
    BY DEF ListInv, Numbered
  <1>5. \A r \in loads' : r = q \/ (r \in loads /\ r.no # lastLoad') BY <1>2, <1>4
  <1>6. Numbered' BY <1>1, <1>2, <1>4 DEF ListInv, Numbered
  <1>7. LastLoadAsksForIt' BY <1>1, <1>2, <1>3, <1>5 DEF LastLoadAsksForIt
  <1>8. LastRowsAreIt' BY <1>2, <1>4 DEF ListInv, Numbered, LastRowsAreIt
  <1>. QED BY <1>6, <1>7, <1>8 DEF ListInv

\* Steps that neither start a load nor bring rows: loads only end.
LEMMA QuietKeeps ==
    ASSUME ListInv, loads' \subseteq loads, version' \in Nat, version <= version',
           UNCHANGED <<view, page, applied, rows, lastLoad, mine>>,
           AtOnce(view) => UNCHANGED filter
    PROVE  ListInv'
  <1>1. Counts' = Counts BY DEF Counts, AtOnce
  <1>2. Numbered' BY DEF ListInv, Numbered
  <1>3. LastLoadAsksForIt' BY <1>1 DEF ListInv, LastLoadAsksForIt
  <1>4. LastRowsAreIt' BY <1>1 DEF ListInv, LastRowsAreIt
  <1>. QED BY <1>2, <1>3, <1>4 DEF ListInv

LEMMA ServeKeeps == ASSUME ListInv, NEW r \in loads, ServeLoad(r) PROVE ListInv'
  <1>. DEFINE s == [r EXCEPT !.step = "served", !.got = version]
  <1>1. r.no \in Nat /\ r.no <= lastLoad /\ DOMAIN r = Fields /\ version \in Nat /\ mine <= version
    BY DEF ListInv, Numbered
  <1>2. s.no = r.no /\ s.page = r.page /\ s.filter = r.filter /\ s.got = version /\ DOMAIN s = Fields
    BY <1>1 DEF Fields
  <1>3. loads' = (loads \ {r}) \cup {s}
        /\ UNCHANGED <<view, page, applied, rows, lastLoad, version, mine, filter>>
    BY DEF ServeLoad, viewVars
  <1>. HIDE DEF s
  <1>4. Counts' = Counts BY <1>3 DEF Counts, AtOnce
  <1>5. Numbered' BY <1>1, <1>2, <1>3 DEF ListInv, Numbered
  <1>6. LastLoadAsksForIt' BY <1>1, <1>2, <1>3, <1>4 DEF ListInv, LastLoadAsksForIt
  <1>7. LastRowsAreIt' BY <1>3, <1>4 DEF ListInv, LastRowsAreIt
  <1>. QED BY <1>5, <1>6, <1>7 DEF ListInv

\* The rows come: those of the last load were served after every write that
\* the page was told of, since such a write starts another load.
LEMMA RowsKeep == ASSUME ListInv, NEW r \in loads, RowsCome(r) PROVE ListInv'
  <1>. DEFINE f == IF view.mode = "tab" THEN filter ELSE r.filter
              x == [no |-> r.no, page |-> r.page, version |-> r.got, filter |-> f]
              s == [r EXCEPT !.step = "follows"]
  <1>1. r.no \in Nat /\ r.no <= lastLoad /\ r.got \in Nat /\ DOMAIN r = Fields BY DEF ListInv, Numbered
  <1>2. s.no = r.no /\ s.page = r.page /\ s.filter = r.filter /\ s.got = r.got /\ s.step = "follows"
        /\ DOMAIN s = Fields
    BY <1>1 DEF Fields
  <1>3. /\ rows' = x
        /\ loads' = (loads \ {r}) \cup {s} \/ loads' = loads \ {r}
        /\ UNCHANGED <<view, page, applied, lastLoad, version, mine, filter>>
    BY DEF RowsCome, EndLoad
  <1>4. x.no = r.no /\ x.page = r.page /\ x.version = r.got /\ x.filter = f OBVIOUS
  <1>5. r.no = lastLoad => r.page = page /\ r.filter = Counts /\ mine <= r.got
    BY DEF ListInv, LastLoadAsksForIt, RowsCome
  <1>6. f = r.filter \/ f = Counts BY DEF Counts, AtOnce
  <1>7. Counts' = Counts BY <1>3 DEF Counts, AtOnce
  <1>. HIDE DEF s, x, f
  <1>8. Numbered' BY <1>1, <1>2, <1>3, <1>4 DEF ListInv, Numbered
  <1>9. LastLoadAsksForIt' BY <1>2, <1>3, <1>7 DEF ListInv, LastLoadAsksForIt
  <1>10. LastRowsAreIt' BY <1>3, <1>4, <1>5, <1>6, <1>7 DEF LastRowsAreIt
  <1>. QED BY <1>8, <1>9, <1>10 DEF ListInv

LEMMA ListInitOK == ListInit => ListInv
  <1> SUFFICES ASSUME ListInit PROVE ListInv OBVIOUS
  <1>. DEFINE q == [no |-> 1, page |-> 1, filter |-> AllRows, got |-> 0, step |-> "asked", saves |-> FALSE]
  <1>1. q.no = 1 /\ q.page = 1 /\ q.filter = AllRows /\ q.got = 0 /\ q.step = "asked" /\ DOMAIN q = Fields
    BY DEF Fields
  <1>2. loads = {q} /\ rows = None /\ lastLoad = 1 /\ page = 1 /\ version = 0 /\ mine = 0
        /\ Counts = AllRows
    BY DEF ListInit, Counts
  <1>. HIDE DEF q
  <1>3. Numbered BY <1>1, <1>2 DEF Numbered
  <1>4. LastLoadAsksForIt BY <1>1, <1>2 DEF LastLoadAsksForIt
  <1>5. LastRowsAreIt BY <1>2 DEF LastRowsAreIt
  <1>. QED BY <1>3, <1>4, <1>5 DEF ListInv

\* What a load sends fits a page whose filter counts at once.
LEMMA CurrentCounts == AtOnce(view) => CurrentFilter = filter
  BY DEF AtOnce, CurrentFilter

LEMMA FilterKeeps == ASSUME ListInv, NEW f \in Filters, SetFilter(f) PROVE ListInv'
  <1>0. version \in Nat /\ mine \in Nat /\ mine <= version BY DEF ListInv, Numbered
  <1>1. CASE AtOnce(view)
    BY <1>0, <1>1, StartKeeps DEF SetFilter, viewVars
  <1>2. CASE ~AtOnce(view)
    BY <1>0, <1>2, QuietKeeps DEF SetFilter, viewVars, loadVars
  <1>. QED BY <1>1, <1>2

LEMMA DoneKeeps == ASSUME ListInv, NEW w \in writes, WriteDone(w) PROVE ListInv'
  <1>1. version' \in Nat /\ mine' \in Nat /\ mine' <= version' BY DEF ListInv, Numbered, WriteDone
  <1>2. UNCHANGED <<view, filter>> BY DEF WriteDone
  <1>. QED BY <1>1, <1>2, CurrentCounts, StartKeeps DEF WriteDone, ShowWrite

LEMMA ListStepOK == ListInv /\ [ListNext]_listVars => ListInv'
  <1> SUFFICES ASSUME ListInv, [ListNext]_listVars PROVE ListInv' OBVIOUS
  <1>0. version \in Nat /\ mine \in Nat /\ mine <= version /\ version <= version
    BY DEF ListInv, Numbered
  <1>1. ASSUME NEW p \in 1..MaxPage, TurnPage(p) PROVE ListInv'
    BY <1>0, <1>1, CurrentCounts, StartKeeps DEF TurnPage, viewVars
  <1>2. CASE Refresh BY <1>0, <1>2, CurrentCounts, StartKeeps DEF Refresh, viewVars
  <1>3. CASE Search BY <1>0, <1>3, StartKeeps DEF Search, viewVars
  <1>4. CASE Reset BY <1>0, <1>4, StartKeeps DEF Reset, viewVars
  <1>5. ASSUME NEW f \in Filters, SetFilter(f) PROVE ListInv' BY <1>5, FilterKeeps
  <1>6. CASE OpenDialog BY <1>0, <1>6, QuietKeeps DEF OpenDialog, loadVars
  <1>7. CASE CloseDialog BY <1>0, <1>7, QuietKeeps DEF CloseDialog, loadVars
  <1>8. ASSUME NEW way \in Ways, Write(way) PROVE ListInv'
    BY <1>0, <1>8, QuietKeeps DEF Write, loadVars
  <1>9. ASSUME NEW r \in loads, ServeLoad(r) PROVE ListInv' BY <1>9, ServeKeeps
  <1>10. ASSUME NEW r \in loads, RowsCome(r) PROVE ListInv' BY <1>10, RowsKeep
  <1>11. ASSUME NEW r \in loads, LoadEnds(r) PROVE ListInv'
    BY <1>0, <1>11, QuietKeeps DEF LoadEnds, EndLoad
  <1>12. ASSUME NEW w \in writes, WriteDone(w) PROVE ListInv' BY <1>12, DoneKeeps
  <1>13. ASSUME NEW w \in writes, WriteFails(w) PROVE ListInv'
    <2>1. version' \in Nat /\ version <= version' BY <1>0, <1>13 DEF WriteFails
    <2>. QED BY <1>13, <2>1, QuietKeeps DEF WriteFails, loadVars
  <1>14. CASE UNCHANGED listVars
    BY <1>0, <1>14, QuietKeeps DEF listVars, viewVars, loadVars
  <1>. QED
    BY <1>1, <1>2, <1>3, <1>4, <1>5, <1>6, <1>7, <1>8, <1>9, <1>10, <1>11, <1>12, <1>13, <1>14
    DEF ListNext, ListAnswered

\* Rows of the last load are the page and the filter that the page acts on, no
\* older than any write that it was told of.
THEOREM ListsAreCurrent == ListSpec => []OrderedListIsCurrent
  <1>1. ListInv => OrderedListIsCurrent
    BY DEF ListInv, LastRowsAreIt, Counts, OrderedListIsCurrent, Numbered
  <1>. QED BY <1>1, ListInitOK, ListStepOK, PTL DEF ListSpec

(***************************************************************************)
(* Types and buttons.  A creation's counters keep to their types because   *)
(* one save is under way at a time; the server's writes because each one   *)
(* under way is a write of this visit that the server did not count yet.   *)
(***************************************************************************)
KeyTyped == KeyInv /\ KeyTypeOK

LEMMA KeyTypedInit == KeyInit => KeyTyped
  <1> SUFFICES ASSUME KeyInit PROVE KeyTyped OBVIOUS
  <1>1. 0 \in 0..MaxKeys /\ 0 \in 0..MaxOpens /\ 0 \in 0..2 BY ApiKeyPageAssumption
  <1>2. KeyTypeOK BY <1>1 DEF KeyInit, KeyTypeOK
  <1>. QED BY <1>2, KeyInitOK DEF KeyTyped

LEMMA KeyTypedStep == KeyTyped /\ [KeyNext]_keyVars => KeyTyped'
  <1> SUFFICES ASSUME KeyTyped, [KeyNext]_keyVars PROVE KeyTyped' OBVIOUS
  <1>1. KeyInv' BY KeyStepOK DEF KeyTyped
  <1>2. MaxKeys \in Nat /\ MaxOpens \in Nat BY ApiKeyPageAssumption
  <1>3. creating' \in 0..2 /\ listing' \in 0..2
    <2>1. creating' \in Nat /\ listing' \in Nat /\ saving' \in BOOLEAN BY <1>1 DEF KeyInv, Counted
    <2>2. (saving' => creating' + listing' = 1) /\ (~saving' => creating' + listing' = 0)
      BY <1>1, <2>1 DEF KeyInv, OneAtATime
    <2>3. \A m, n \in Nat : m + n \in {0, 1} => m \in 0..2 /\ n \in 0..2 OBVIOUS
    <2>4. creating' + listing' \in {0, 1} BY <2>1, <2>2, Zenon
    <2>. QED BY <2>1, <2>3, <2>4
  <1>4. created' \in 0..MaxKeys
    <2>1. created \in 0..MaxKeys /\ (created' = created \/ createAPIKey)
      BY DEF KeyTyped, KeyTypeOK, KeyNext, KeyAnswered, keyVars, clickCreate, closeKeyDialog, clickSave,
             closePlain, openBatch, closeBatch, clickBatch, openCreateKey, KeyCreated, KeyCreateFailed,
             KeyListCame, BatchCreated, BatchFailed, BatchListCame
    <2>. QED BY <1>2, <2>1 DEF createAPIKey
  <1>5. opening' \in 0..MaxOpens
    BY <1>2 DEF KeyTyped, KeyTypeOK, KeyNext, KeyAnswered, keyVars, openVars, clickCreate, closeKeyDialog,
                clickSave, closePlain, openBatch, closeBatch, clickBatch, BatchStep, openCreateKey, KeyCreated,
                KeyCreateFailed, KeyListCame, BatchCreated, BatchFailed, BatchListCame
  <1>6. spent' \in 0..MaxKeys
    <2>1. spent \in 0..MaxKeys /\ created \in Nat /\ spent' <= 1 /\ spent' \in Nat
      BY <1>1 DEF KeyTyped, KeyTypeOK, KeyInv, UnspentWhileOpen, Counted
    <2>2. spent' \in {spent, 0} \/ createAPIKey
      BY DEF KeyNext, KeyAnswered, keyVars, openVars, clickCreate, closeKeyDialog, clickSave, closePlain,
             openBatch, closeBatch, clickBatch, BatchStep, openCreateKey, KeyCreated, KeyCreateFailed,
             KeyListCame, BatchCreated, BatchFailed, BatchListCame
    <2>. QED BY <1>2, <2>1, <2>2 DEF createAPIKey
  <1>7. batch' \in {"no", "open", "create", "list"}
    BY DEF KeyTyped, KeyTypeOK, KeyNext, KeyAnswered, keyVars, clickCreate, closeKeyDialog, clickSave,
           closePlain, openBatch, closeBatch, clickBatch, BatchStep, openCreateKey, KeyCreated,
           KeyCreateFailed, KeyListCame, BatchCreated, BatchFailed, BatchListCame
  <1>8. seen' \subseteq sent' /\ plainKey' \in sent' \cup {None}
    BY DEF KeyTyped, KeyTypeOK, KeyNext, KeyAnswered, keyVars, plainVars, clickCreate, closeKeyDialog,
           clickSave, closePlain, openBatch, closeBatch, clickBatch, BatchStep, openCreateKey, KeyCreated,
           ShowKey, KeyCreateFailed, KeyListCame, BatchCreated, BatchFailed, BatchListCame
  <1>9. KeyTypeOK'
    BY <1>1, <1>3, <1>4, <1>5, <1>6, <1>7, <1>8 DEF KeyInv, Counted, KeyTypeOK
  <1>. QED BY <1>1, <1>9 DEF KeyTyped

\* A loading mask of the overview, and a button that is saving a key.
LEMMA DashSpins ==
    DashInv /\ (mounted /\ loading => \E r \in asked : r.no = seq) /\ [DashNext]_dashVars
      => (mounted /\ loading => \E r \in asked : r.no = seq)'
  <1> SUFFICES ASSUME DashInv, mounted /\ loading => \E r \in asked : r.no = seq,
                      [DashNext]_dashVars, mounted', loading'
               PROVE  \E r \in asked' : r.no = seq'
      OBVIOUS
  <1>1. CASE Mount BY <1>1 DEF Mount, StartDashLoad
  <1>2. ASSUME NEW w \in Windows, PickWindow(w) \/ Retry PROVE \E r \in asked' : r.no = seq'
    <2>1. seq' = seq + 1 /\ \E v : [no |-> seq + 1, window |-> v] \in asked'
      BY <1>2 DEF PickWindow, Retry, StartDashLoad
    <2>. QED BY <2>1
  <1>3. ASSUME NEW r \in asked, DashAnswered(r) PROVE \E q \in asked' : q.no = seq'
    <2>1. ~Latest(r) /\ loading /\ mounted /\ seq' = seq /\ asked' = asked \ {r}
      BY <1>3 DEF DashAnswered, DashFail, DashAnswer
    <2>. QED BY <2>1 DEF Latest
  <1>4. CASE ToggleTheme \/ Leave \/ UNCHANGED dashVars
    BY <1>4 DEF ToggleTheme, Leave, dashVars
  <1>. QED BY <1>1, <1>2, <1>3, <1>4, DashboardAssumption DEF DashNext, DashUser

LEMMA KeySpins == KeyInv => (saving => creating + listing > 0)
  BY DEF KeyInv, Counted, OneAtATime

\* Every write of a list page is under way or was counted by the server at
\* most once.
WritesCounted == IsFiniteSet(writes) /\ version + Cardinality(writes) <= written

\* Behind the mask of a list and behind a dialog's button.
ListSpins ==
    /\ spinning => loads # {}
    /\ listSaving => (\E w \in writes : w.way # "row") \/ (\E r \in loads : r.saves)

ListTyped == ListInv /\ ListTypeOK /\ WritesCounted /\ ListSpins

LEMMA ListBounds ==
    /\ MaxLoad \in Nat /\ MaxLoad >= 1 /\ MaxWrites \in Nat /\ MaxPage \in Nat /\ MaxPage >= 1
    /\ 1 \in 1..MaxLoad /\ 1 \in 1..MaxPage /\ 0 \in 0..MaxWrites /\ AllRows \in Filters
  BY ListPagesAssumption

LEMMA ListTypedInit == ListInit => ListTyped
  <1> SUFFICES ASSUME ListInit PROVE ListTyped OBVIOUS
  <1>. DEFINE q == [no |-> 1, page |-> 1, filter |-> AllRows, got |-> 0, step |-> "asked", saves |-> FALSE]
  <1>1. q \in ListLoads BY ListBounds DEF ListLoads
  <1>2. loads = {q} BY DEF ListInit
  <1>. HIDE DEF q
  <1>3. ListTypeOK
    <2>1. view \in Views /\ page \in 1..MaxPage /\ {filter, applied} \subseteq Filters
      BY ListBounds DEF ListInit
    <2>2. loads \subseteq ListLoads /\ lastLoad \in 1..MaxLoad
      BY <1>1, <1>2, ListBounds DEF ListInit
    <2>3. version \in 0..MaxWrites /\ mine \in 0..version /\ written \in 0..MaxWrites
      BY ListBounds DEF ListInit
    <2>4. spinning \in BOOLEAN /\ dialog \in BOOLEAN /\ listSaving \in BOOLEAN /\ writes = {}
      BY DEF ListInit
    <2>. QED BY <2>1, <2>2, <2>3, <2>4 DEF ListTypeOK
  <1>4. WritesCounted BY FS_EmptySet DEF ListInit, WritesCounted
  <1>5. ListSpins BY <1>2 DEF ListInit, ListSpins
  <1>. QED BY <1>3, <1>4, <1>5, ListInitOK DEF ListTyped

\* What is sent is a value of the filter.
LEMMA CurrentTyped == ListTypeOK => CurrentFilter \in Filters
  <1>1. view \in AllViews =>
          view.mode \in {"none", "local", "search", "load", "typed", "change", "tab"}
    BY DEF AllViews, View, ModelList, ApiKeyList, RateLimitList, Tenants, Users, Roles, MCPServers,
           PrivacyRules, AuditLogTimes, AuditLogTexts, MCPAuditLogs, OperationLogs, TamperAlertList,
           SecurityEvents, ComplianceReports
  <1>. QED BY <1>1, ListBounds, ViewsAssumption DEF ListTypeOK, CurrentFilter

\* The parts of the page that a load changes; the rest is given.
LoadTyped ==
    /\ page \in 1..MaxPage /\ applied \in Filters /\ spinning \in BOOLEAN
    /\ loads \subseteq ListLoads /\ lastLoad \in 1..MaxLoad

LEMMA StartTyped ==
    ASSUME ListTypeOK, NEW p \in 1..MaxPage, NEW f \in Filters, NEW saves \in BOOLEAN,
           StartLoad(p, f, saves)
    PROVE  /\ LoadTyped'
           /\ loads \subseteq loads' /\ loads' # {}
           /\ saves => \E r \in loads' : r.saves
  <1>. DEFINE q == [no |-> lastLoad + 1, page |-> p, filter |-> f, got |-> 0,
                    step |-> "asked", saves |-> saves]
  <1>1. lastLoad + 1 \in 1..MaxLoad BY ListBounds DEF StartLoad, ListTypeOK
  <1>2. q \in ListLoads /\ q.saves = saves BY <1>1, ListBounds DEF ListLoads
  <1>3. loads' = loads \cup {q} /\ lastLoad' = lastLoad + 1 /\ page' = p /\ applied' = f
        /\ spinning' = TRUE
    BY DEF StartLoad
  <1>. HIDE DEF q
  <1>. QED BY <1>1, <1>2, <1>3 DEF LoadTyped, ListTypeOK

\* A step of the user that only loads, or only opens or closes a dialog.
LEMMA BrowseTyped ==
    ASSUME ListTyped, ListInv', LoadTyped', loads \subseteq loads', loads' # {} \/ spinning' = spinning,
           filter' \in Filters, dialog' \in BOOLEAN,
           UNCHANGED <<view, version, mine, listSaving, writes, written>>
    PROVE  ListTyped'
  <1>1. ListTypeOK' BY DEF ListTyped, ListTypeOK, LoadTyped
  <1>2. WritesCounted' BY DEF ListTyped, WritesCounted
  <1>3. ListSpins' BY DEF ListTyped, ListSpins
  <1>. QED BY <1>1, <1>2, <1>3 DEF ListTyped

\* A load goes on, comes with its rows or ends.
LEMMA LoadGoesOn ==
    ASSUME ListTyped, ListInv', NEW r \in loads,
           \/ /\ UNCHANGED <<spinning, listSaving>>
              /\ \E s \in ListLoads : s.saves = r.saves /\ loads' = (loads \ {r}) \cup {s}
           \/ EndLoad(r),
           UNCHANGED <<page, applied, lastLoad, view, version, mine, dialog, writes, written, filter>>
    PROVE  ListTyped'
  <1>1. CASE /\ UNCHANGED <<spinning, listSaving>>
             /\ \E s \in ListLoads : s.saves = r.saves /\ loads' = (loads \ {r}) \cup {s}
    <2>1. PICK s \in ListLoads : s.saves = r.saves /\ loads' = (loads \ {r}) \cup {s} BY <1>1
    <2>2. ListTypeOK' BY <1>1, <2>1 DEF ListTyped, ListTypeOK
    <2>3. ListSpins' BY <1>1, <2>1 DEF ListTyped, ListSpins
    <2>. QED BY <2>2, <2>3 DEF ListTyped, WritesCounted
  <1>2. CASE EndLoad(r)
    <2>0. r \in ListLoads BY DEF ListTyped, ListTypeOK
    <2>1. loads' = loads \ {r} /\ spinning' = FALSE /\ listSaving' = (listSaving /\ ~r.saves)
          /\ r.saves \in BOOLEAN
      BY <1>2, <2>0 DEF EndLoad, ListLoads
    <2>2. ListTypeOK' BY <2>1 DEF ListTyped, ListTypeOK
    <2>3. ListSpins' BY <2>1 DEF ListTyped, ListSpins
    <2>. QED BY <2>2, <2>3 DEF ListTyped, WritesCounted
  <1>. QED BY <1>1, <1>2

LEMMA ServeTyped == ASSUME ListTyped, ListInv', NEW r \in loads, ServeLoad(r) PROVE ListTyped'
  <1>. DEFINE s == [r EXCEPT !.step = "served", !.got = version]
  <1>1. version \in 0..MaxWrites /\ r \in ListLoads BY DEF ListTyped, ListTypeOK
  <1>2. s \in ListLoads /\ s.saves = r.saves BY <1>1 DEF ListLoads
  <1>3. loads' = (loads \ {r}) \cup {s} BY DEF ServeLoad
  <1>. HIDE DEF s
  <1>. QED BY <1>2, <1>3, LoadGoesOn DEF ServeLoad, viewVars

LEMMA RowsTyped == ASSUME ListTyped, ListInv', NEW r \in loads, RowsCome(r) PROVE ListTyped'
  <1>. DEFINE s == [r EXCEPT !.step = "follows"]
  <1>1. r \in ListLoads BY DEF ListTyped, ListTypeOK
  <1>2. s \in ListLoads /\ s.saves = r.saves BY <1>1 DEF ListLoads
  <1>3. \/ UNCHANGED <<spinning, listSaving>> /\ loads' = (loads \ {r}) \cup {s}
        \/ EndLoad(r)
    BY DEF RowsCome
  <1>. HIDE DEF s
  <1>. QED BY <1>2, <1>3, LoadGoesOn DEF RowsCome

LEMMA WriteTyped == ASSUME ListTyped, ListInv', NEW way \in Ways, Write(way) PROVE ListTyped'
  <1>. DEFINE w == [no |-> written + 1, way |-> way]
  <1>1. written \in Nat /\ written' = written + 1 /\ written' \in 0..MaxWrites /\ version \in Nat
        /\ mine \in 0..version
    BY ListBounds DEF ListTyped, ListTypeOK, Write
  <1>2. w \in [no : 1..written', way : Ways] /\ w.way = way BY <1>1
  <1>3. writes' = writes \cup {w} /\ listSaving' = (listSaving \/ way # "row")
        /\ UNCHANGED <<view, version, mine, dialog, loadVars, filter>>
    BY DEF Write
  <1>. HIDE DEF w
  <1>4. writes' \subseteq [no : 1..written', way : Ways]
    <2>1. \A v \in writes : v \in [no : 1..written', way : Ways] BY <1>1 DEF ListTyped, ListTypeOK
    <2>. QED BY <1>2, <1>3, <2>1
  <1>5. ListTypeOK' BY <1>1, <1>3, <1>4 DEF ListTyped, ListTypeOK, loadVars
  <1>6. WritesCounted'
    <2>1. IsFiniteSet(writes) /\ version + Cardinality(writes) <= written BY DEF ListTyped, WritesCounted
    <2>2. /\ IsFiniteSet(writes') /\ Cardinality(writes) \in Nat
          /\ Cardinality(writes') \in {Cardinality(writes), Cardinality(writes) + 1}
      BY <1>3, <2>1, FS_AddElement, FS_CardinalityType
    <2>. QED BY <1>1, <1>3, <2>1, <2>2 DEF WritesCounted
  <1>7. ListSpins' BY <1>2, <1>3 DEF ListTyped, ListSpins, loadVars
  <1>. QED BY <1>5, <1>6, <1>7 DEF ListTyped

\* A write is answered: it leaves the writes under way, and the server counts
\* it once at most.
LEMMA AnsweredCounted ==
    ASSUME ListTyped, NEW w \in writes, writes' = writes \ {w}, written' = written,
           version' \in {version, version + 1}
    PROVE  WritesCounted' /\ version' \in 0..MaxWrites
  <1>1. /\ IsFiniteSet(writes) /\ version + Cardinality(writes) <= written
        /\ version \in Nat /\ written \in Nat /\ written <= MaxWrites /\ MaxWrites \in Nat
    BY ListBounds DEF ListTyped, WritesCounted, ListTypeOK
  <1>2. /\ IsFiniteSet(writes') /\ Cardinality(writes') = Cardinality(writes) - 1
        /\ Cardinality(writes') \in Nat /\ Cardinality(writes) \in Nat
    BY <1>1, FS_RemoveElement, FS_CardinalityType
  <1>3. version' + Cardinality(writes') <= written BY <1>1, <1>2
  <1>4. version' \in 0..MaxWrites BY <1>1, <1>2, <1>3
  <1>. QED BY <1>2, <1>3, <1>4 DEF WritesCounted

LEMMA DoneTyped == ASSUME ListTyped, ListInv', NEW w \in writes, WriteDone(w) PROVE ListTyped'
  <1>1. /\ version' = version + 1 /\ mine' = version' /\ writes' = writes \ {w}
        /\ dialog' = (dialog /\ w.way = "row") /\ UNCHANGED <<view, listSaving, written, filter>>
    BY DEF WriteDone
  <1>2. WritesCounted' /\ version' \in 0..MaxWrites BY <1>1, AnsweredCounted
  <1>3. PICK p \in 1..MaxPage : StartLoad(p, CurrentFilter, w.way # "row")
    BY ListBounds DEF WriteDone, ShowWrite, ListTyped, ListTypeOK
  <1>4. /\ LoadTyped' /\ loads \subseteq loads' /\ loads' # {}
        /\ w.way # "row" => \E r \in loads' : r.saves
    BY <1>3, CurrentTyped, StartTyped DEF ListTyped
  <1>5. mine' \in 0..version' BY <1>1, <1>2
  <1>6. ListTypeOK' BY <1>1, <1>2, <1>4, <1>5 DEF ListTyped, ListTypeOK, LoadTyped
  <1>7. ListSpins' BY <1>1, <1>4 DEF ListTyped, ListSpins
  <1>. QED BY <1>2, <1>6, <1>7 DEF ListTyped

LEMMA FailsTyped == ASSUME ListTyped, ListInv', NEW w \in writes, WriteFails(w) PROVE ListTyped'
  <1>1. /\ version' \in {version, version + 1} /\ writes' = writes \ {w}
        /\ listSaving' = (listSaving /\ w.way = "row")
        /\ UNCHANGED <<view, mine, dialog, written, loadVars, filter>>
    BY DEF WriteFails
  <1>2. WritesCounted' /\ version' \in 0..MaxWrites BY <1>1, AnsweredCounted
  <1>3. mine' \in 0..version' BY <1>1 DEF ListTyped, ListTypeOK
  <1>4. ListTypeOK' BY <1>1, <1>2, <1>3 DEF ListTyped, ListTypeOK, loadVars
  <1>5. ListSpins' BY <1>1 DEF ListTyped, ListSpins, loadVars
  <1>. QED BY <1>2, <1>4, <1>5 DEF ListTyped

LEMMA ListTypedStep == ListTyped /\ [ListNext]_listVars => ListTyped'
  <1> SUFFICES ASSUME ListTyped, [ListNext]_listVars PROVE ListTyped' OBVIOUS
  <1>0. ListInv' BY ListStepOK DEF ListTyped
  <1>1. CurrentFilter \in Filters /\ AllRows \in Filters /\ 1 \in 1..MaxPage /\ page \in 1..MaxPage
        /\ filter \in Filters /\ dialog \in BOOLEAN /\ FALSE \in BOOLEAN
    BY CurrentTyped, ListBounds DEF ListTyped, ListTypeOK
  <1>2. UNCHANGED loadVars =>
          LoadTyped' /\ loads \subseteq loads' /\ spinning' = spinning
    BY DEF ListTyped, ListTypeOK, LoadTyped, loadVars
  <1>3. ASSUME NEW p \in 1..MaxPage, NEW f \in Filters, StartLoad(p, f, FALSE)
        PROVE  LoadTyped' /\ loads \subseteq loads' /\ loads' # {}
    BY <1>3, StartTyped DEF ListTyped
  <1>4. ASSUME NEW p \in 1..MaxPage, TurnPage(p) PROVE ListTyped'
    BY <1>0, <1>1, <1>3, <1>4, BrowseTyped DEF TurnPage, viewVars
  <1>5. CASE Refresh BY <1>0, <1>1, <1>3, <1>5, BrowseTyped DEF Refresh, viewVars
  <1>6. CASE Search BY <1>0, <1>1, <1>3, <1>6, BrowseTyped DEF Search, viewVars
  <1>7. CASE Reset BY <1>0, <1>1, <1>3, <1>7, BrowseTyped DEF Reset, viewVars
  <1>8. ASSUME NEW f \in Filters, SetFilter(f) PROVE ListTyped'
    <2>1. filter' = f /\ UNCHANGED viewVars /\ (StartLoad(1, f, FALSE) \/ UNCHANGED loadVars)
      BY <1>8 DEF SetFilter
    <2>. QED BY <1>0, <1>1, <1>2, <1>3, <2>1, BrowseTyped DEF viewVars
  <1>9. CASE OpenDialog \/ CloseDialog
    BY <1>0, <1>1, <1>2, <1>9, BrowseTyped DEF OpenDialog, CloseDialog
  <1>10. CASE UNCHANGED listVars
    BY <1>0, <1>1, <1>2, <1>10, BrowseTyped DEF listVars, viewVars
  <1>11. ASSUME NEW way \in Ways, Write(way) PROVE ListTyped' BY <1>0, <1>11, WriteTyped
  <1>12. ASSUME NEW r \in loads, ServeLoad(r) PROVE ListTyped' BY <1>0, <1>12, ServeTyped
  <1>13. ASSUME NEW r \in loads, RowsCome(r) PROVE ListTyped' BY <1>0, <1>13, RowsTyped
  <1>14. ASSUME NEW r \in loads, LoadEnds(r) PROVE ListTyped'
    BY <1>0, <1>14, LoadGoesOn DEF LoadEnds
  <1>15. ASSUME NEW w \in writes, WriteDone(w) PROVE ListTyped' BY <1>0, <1>15, DoneTyped
  <1>16. ASSUME NEW w \in writes, WriteFails(w) PROVE ListTyped' BY <1>0, <1>16, FailsTyped
  <1>. QED
    BY <1>4, <1>5, <1>6, <1>7, <1>8, <1>9, <1>10, <1>11, <1>12, <1>13, <1>14, <1>15, <1>16
    DEF ListNext, ListAnswered
=============================================================================
