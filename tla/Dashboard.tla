----------------------------- MODULE Dashboard -----------------------------
(***************************************************************************)
(* The overview page of the web console, webui/src/views/Dashboard.vue,    *)
(* from its mounting to its unmounting.  A change of the time window loads *)
(* the figures again; answers come in any order, or not before the client  *)
(* gives up, and an answer may also come after the page was left.  The     *)
(* five charts are ECharts instances that the page draws on by hand, so    *)
(* unlike the text they do not follow the data by themselves.              *)
(***************************************************************************)
EXTENDS Naturals, CommonValues

CONSTANTS
    Windows,      \* time windows on offer
    FirstWindow,  \* the one selected when the page opens
    MaxLoads      \* bound: loads by one visit to the page

VARIABLES
    mounted,       \* the page is on screen
    activeWindow,  \* the window selected
    data,          \* the figures held, or None
    failed,        \* the page shows its load error
    loading,       \* the page is covered by its loading mask
    seq,           \* number of the latest load
    asked,         \* requests under way
    charts,        \* what each panel's chart shows
    theme          \* colour theme of the whole console

dashVars == <<mounted, activeWindow, data, failed, loading, seq, asked, charts, theme>>

Panels == {"trend", "latency", "status", "models", "tokens"}
Themes == {"light", "dark"}

Request == [no : 1..MaxLoads, window : Windows]
\* What the server has for a window; only whether it had requests matters here.
Figures == [no : 1..MaxLoads, window : Windows, requests : {0, 1}]

ASSUME DashboardAssumption ==
    /\ FirstWindow \in Windows
    /\ MaxLoads \in Nat \ {0}
    /\ None \notin Nat \cup Figures

Cleared == [no |-> 0, theme |-> "light"]
Drawing == [no : 1..MaxLoads, theme : Themes] \cup {Cleared}

DashTypeOK ==
    /\ mounted \in BOOLEAN
    /\ activeWindow \in Windows
    /\ data \in Figures \cup {None}
    /\ failed \in BOOLEAN
    /\ loading \in BOOLEAN
    /\ seq \in 0..MaxLoads
    /\ asked \subseteq Request
    /\ charts \in [Panels -> Drawing \cup {None}]
    /\ theme \in Themes

(***************************************************************************)
(* What the page shows.                                                    *)
(***************************************************************************)
HasRequests(d) == d # None /\ d.requests # 0

\* The texts beside the charts: from which load they are, None for a dash.
Shown == [cards   |-> IF data = None THEN None ELSE data.no,
          latency |-> IF HasRequests(data) THEN data.no ELSE None,
          rates   |-> IF data = None THEN None ELSE data.no,
          empty   |-> data # None /\ ~HasRequests(data)]

\* One chart after a draw: nothing without its element.
Draw(p, content) == IF mounted THEN content ELSE charts[p]

\* The five render functions: each draws its part of the data in the colours
\* that the theme has at that moment.
Drawn(p, d, th) == Draw(p, [no |-> d.no, theme |-> th])

\* The same without its second half: an empty window keeps the charts it found.
RenderAllStale(d, th) ==
    [p \in Panels |-> IF HasRequests(d) THEN Drawn(p, d, th) ELSE charts[p]]

\* renderAll: draw, or clear the charts there are.
RenderAll(d, th) ==
    [p \in Panels |->
        IF HasRequests(d) THEN Drawn(p, d, th)
        ELSE IF charts[p] = None THEN None ELSE Cleared]

(***************************************************************************)
(* Steps.                                                                  *)
(***************************************************************************)
DashInit ==
    /\ mounted = FALSE
    /\ activeWindow = FirstWindow
    /\ data = None
    /\ failed = FALSE
    /\ loading = FALSE
    /\ seq = 0
    /\ asked = {}
    /\ charts = [p \in Panels |-> None]
    /\ theme \in Themes

\* load() up to its await: everything before it, and no figure touched.
StartDashLoad(n) ==
    /\ n <= MaxLoads
    /\ seq' = n
    /\ loading' = TRUE
    /\ failed' = FALSE

\* A new instance of the page.  The requests of an instance that was left
\* concern only that instance, so they are dropped with it.
Mount ==
    /\ ~mounted
    /\ mounted' = TRUE
    /\ activeWindow' = FirstWindow
    /\ data' = None
    /\ charts' = [p \in Panels |-> None]
    /\ StartDashLoad(1)
    /\ asked' = {[no |-> 1, window |-> FirstWindow]}
    /\ UNCHANGED theme

\* The radio group: a window other than the selected one.
PickWindow(w) ==
    /\ mounted
    /\ w # activeWindow
    /\ activeWindow' = w
    /\ StartDashLoad(seq + 1)
    /\ asked' = asked \cup {[no |-> seq + 1, window |-> w]}
    /\ UNCHANGED <<mounted, data, charts, theme>>

\* The retry link in the error message.
Retry ==
    /\ mounted
    /\ failed
    /\ StartDashLoad(seq + 1)
    /\ asked' = asked \cup {[no |-> seq + 1, window |-> activeWindow]}
    /\ UNCHANGED <<mounted, activeWindow, data, charts, theme>>

\* No look at the number: any answer is taken for the latest.
LatestAny(r) == r.no <= seq

\* cur === seq
Latest(r) == r.no = seq

\* load() from its await on, when the figures came.
DashAnswer(r, n) ==
    /\ asked' = asked \ {r}
    /\ IF Latest(r)
       THEN /\ data' = [no |-> r.no, window |-> r.window, requests |-> n]
            /\ charts' = RenderAll(data', theme)
            /\ loading' = FALSE
       ELSE UNCHANGED <<data, charts, loading>>
    /\ UNCHANGED <<mounted, activeWindow, failed, seq, theme>>

\* load() from its await on, when the request failed or timed out.
DashFail(r) ==
    /\ asked' = asked \ {r}
    /\ IF Latest(r)
       THEN /\ failed' = TRUE
            /\ data' = None
            /\ charts' = RenderAll(None, theme)
            /\ loading' = FALSE
       ELSE UNCHANGED <<failed, data, charts, loading>>
    /\ UNCHANGED <<mounted, activeWindow, seq, theme>>

\* The theme button in the header; the page's watcher draws again.
ToggleTheme ==
    /\ theme' = IF theme = "dark" THEN "light" ELSE "dark"
    /\ charts' = IF mounted THEN RenderAll(data, theme') ELSE charts
    /\ UNCHANGED <<mounted, activeWindow, data, failed, loading, seq, asked>>

\* The page is unmounted: its charts are disposed of.
Leave ==
    /\ mounted
    /\ mounted' = FALSE
    /\ charts' = [p \in Panels |-> None]
    /\ UNCHANGED <<activeWindow, data, failed, loading, seq, asked, theme>>

DashAnswered(r) == DashFail(r) \/ \E n \in {0, 1} : DashAnswer(r, n)

DashUser == (\E w \in Windows : PickWindow(w)) \/ Retry \/ ToggleTheme
DashNext == Mount \/ Leave \/ DashUser \/ \E r \in asked : DashAnswered(r)

DashSpec == DashInit /\ [][DashNext]_dashVars

(***************************************************************************)
(* Properties.                                                             *)
(***************************************************************************)
\* When the page is not loading, its figures are those of the window
\* selected, from the latest load; after a failure it shows no figure of an
\* earlier load and does not say that there were no requests.  (An answer
\* that was overtaken must not win, however late it comes.)
FiguresMatchWindow ==
    mounted /\ ~loading =>
        IF failed
        THEN Shown = [cards |-> None, latency |-> None, rates |-> None, empty |-> FALSE]
        ELSE /\ data # None
             /\ data.window = activeWindow
             /\ Shown.cards = seq /\ Shown.rates = seq
             /\ Shown.empty <=> Shown.latency = None

\* On the page every chart shows the figures that the texts show, in the
\* colours of the theme, and shows nothing when those have none; a page that
\* was left has no charts, also when an answer comes for it later.
ChartsMatchFigures ==
    \A p \in Panels :
        IF mounted /\ HasRequests(data)
        THEN charts[p] = [no |-> data.no, theme |-> theme]
        ELSE charts[p] = None \/ (mounted /\ charts[p] = Cleared)
=============================================================================
