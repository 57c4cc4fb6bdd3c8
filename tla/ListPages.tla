----------------------------- MODULE ListPages -----------------------------
(***************************************************************************)
(* The list pages of the console, webui/src/views/*.vue: each loads its    *)
(* rows when it opens, when its user turns a page, filters or refreshes,   *)
(* and after every write.  No page numbers its loads, so their answers may *)
(* overtake each other, and an answer may be older than a write that was   *)
(* answered before it.  The pages differ in what loads and what is sent,   *)
(* which View describes; a form that its own checks refuse sends nothing   *)
(* and is not a step.                                                      *)
(***************************************************************************)
EXTENDS Naturals, CommonValues

CONSTANTS
    Views,     \* the pages looked at
    Filters,   \* values of a filter
    AllRows,   \* the value that a filter begins with
    MaxLoad,   \* bound: loads by one visit
    MaxWrites, \* bound: writes by one visit
    MaxPage    \* pages of rows there are

ASSUME ListPagesAssumption ==
    /\ AllRows \in Filters
    /\ MaxLoad \in Nat \ {0} /\ MaxWrites \in Nat /\ MaxPage \in Nat \ {0}

VARIABLES
    view,     \* the page that is open
    page,     \* the page of rows selected
    filter,   \* what the filter's control shows
    applied,  \* the filter of the last load
    rows,     \* the rows shown, or None
    spinning, \* the list is covered by its loading mask
    loads,    \* loads under way
    lastLoad, \* number of the last load
    version,  \* writes that the server has done
    mine,     \* the version after this page's last answered write
    dialog,   \* the page's dialog is on screen
    listSaving, \* its button shows that it is saving
    writes,   \* writes under way
    written   \* writes by this visit

viewVars == <<view, version, mine, dialog, listSaving, writes, written>>
loadVars == <<page, applied, rows, spinning, loads, lastLoad>>
listVars == <<viewVars, loadVars, filter>>

(***************************************************************************)
(* The pages: whether the rows come in pages; how the filter takes effect, *)
(* by a button ("search"), by a button or any other load ("load", and      *)
(* "typed" where a button also empties it), at once from the first page    *)
(* ("change"), at once on what came ("tab"), on the rows there are         *)
(* ("local"); whether further calls follow within the load; whether a      *)
(* button refreshes; and the writes: in a dialog, in a dialog that then    *)
(* shows the first page, on a row.  The audit log has filters of two kinds.*)
(***************************************************************************)
View(paged, mode, follows, refresh, ways) ==
    [paged |-> paged, mode |-> mode, follows |-> follows, refresh |-> refresh, writes |-> ways]

ModelList == View(TRUE, "none", FALSE, FALSE, {"dialog", "row"})
ApiKeyList == View(TRUE, "none", TRUE, FALSE, {"row"})
RateLimitList == View(TRUE, "none", FALSE, FALSE, {"dialog", "row"})
Tenants == View(TRUE, "none", FALSE, TRUE, {"dialog", "row"})
Users == View(FALSE, "none", TRUE, TRUE, {"dialog", "row"})
Roles == View(FALSE, "none", TRUE, TRUE, {"dialog", "row"})
MCPServers == View(TRUE, "none", FALSE, FALSE, {"dialog", "row"})
PrivacyRules == View(FALSE, "tab", FALSE, TRUE, {"dialog", "row"})
AuditLogTimes == View(TRUE, "search", FALSE, FALSE, {})
AuditLogTexts == View(TRUE, "typed", FALSE, FALSE, {})
MCPAuditLogs == View(TRUE, "load", FALSE, FALSE, {})
OperationLogs == View(TRUE, "change", FALSE, TRUE, {})
TamperAlertList == View(TRUE, "change", FALSE, TRUE, {"row"})
SecurityEvents == View(TRUE, "none", FALSE, TRUE, {})
ComplianceReports == View(TRUE, "local", FALSE, TRUE, {"first"})

AllViews == {ModelList, ApiKeyList, RateLimitList, Tenants, Users, Roles, MCPServers, PrivacyRules,
             AuditLogTimes, AuditLogTexts, MCPAuditLogs, OperationLogs, TamperAlertList, SecurityEvents,
             ComplianceReports}

ASSUME ViewsAssumption == Views \subseteq AllViews

Ways == {"dialog", "first", "row"}
ListLoads == [no : 1..MaxLoad, page : 1..MaxPage, filter : Filters, got : 0..MaxWrites,
         step : {"asked", "served", "follows"}, saves : BOOLEAN]

\* Pages whose filter reaches the server when its control changes.
AtOnce(v) == v.mode \in {"change", "tab"}

(***************************************************************************)
(* Loading.                                                                *)
(***************************************************************************)
\* load() up to its await: page p, filter f; saves tells that a dialog's save
\* awaits it.
StartLoad(p, f, saves) ==
    /\ lastLoad < MaxLoad
    /\ lastLoad' = lastLoad + 1
    /\ page' = p
    /\ applied' = f
    /\ loads' = loads \cup {[no |-> lastLoad + 1, page |-> p, filter |-> f, got |-> 0,
                             step |-> "asked", saves |-> saves]}
    /\ spinning' = TRUE
    /\ UNCHANGED rows

\* What a load sends that is not caused by the filter itself.
CurrentFilter == CASE view.mode \in {"load", "typed", "change", "tab"} -> filter
                   [] view.mode = "search" -> applied
                   [] view.mode \in {"none", "local"} -> AllRows

ListInit ==
    /\ view \in Views
    /\ page = 1 /\ filter = AllRows /\ applied = AllRows
    /\ rows = None /\ spinning = TRUE
    /\ lastLoad = 1
    /\ loads = {[no |-> 1, page |-> 1, filter |-> AllRows, got |-> 0, step |-> "asked", saves |-> FALSE]}
    /\ version = 0 /\ mine = 0
    /\ dialog = FALSE /\ listSaving = FALSE
    /\ writes = {} /\ written = 0

\* The server reads the rows.
ServeLoad(r) ==
    /\ r.step = "asked"
    /\ loads' = (loads \ {r}) \cup {[r EXCEPT !.step = "served", !.got = version]}
    /\ UNCHANGED <<page, applied, rows, spinning, lastLoad, viewVars, filter>>

\* load() comes to its end, and with it the save that awaits it.
EndLoad(r) ==
    /\ loads' = loads \ {r}
    /\ spinning' = FALSE
    /\ listSaving' = (listSaving /\ ~r.saves)

\* The rows come; the rules' page sorts them by the tab selected by now.
RowsCome(r) ==
    /\ r.step = "served"
    /\ rows' = [no |-> r.no, page |-> r.page, version |-> r.got,
                filter |-> IF view.mode = "tab" THEN filter ELSE r.filter]
    /\ IF view.follows
       THEN loads' = (loads \ {r}) \cup {[r EXCEPT !.step = "follows"]} /\ UNCHANGED <<spinning, listSaving>>
       ELSE EndLoad(r)
    /\ UNCHANGED <<page, applied, lastLoad, view, version, mine, dialog, writes, written, filter>>

\* The load fails, or the calls that follow in it have come or failed.
LoadEnds(r) ==
    /\ EndLoad(r)
    /\ UNCHANGED <<page, applied, rows, lastLoad, view, version, mine, dialog, writes, written, filter>>

(***************************************************************************)
(* The user.  A dialog covers the list.                                    *)
(***************************************************************************)
TurnPage(p) ==
    /\ view.paged /\ ~dialog /\ p # page
    /\ StartLoad(p, CurrentFilter, FALSE)
    /\ UNCHANGED <<viewVars, filter>>

Refresh ==
    /\ view.refresh /\ ~dialog
    /\ StartLoad(page, CurrentFilter, FALSE)
    /\ UNCHANGED <<viewVars, filter>>

\* search() and reload() by a button, with what the control shows.
Search ==
    /\ view.mode \in {"search", "load", "typed"} /\ ~dialog
    /\ StartLoad(1, filter, FALSE)
    /\ UNCHANGED <<viewVars, filter>>

\* reset()
Reset ==
    /\ view.mode \in {"search", "typed"} /\ ~dialog
    /\ filter' = AllRows
    /\ StartLoad(1, AllRows, FALSE)
    /\ UNCHANGED viewVars

SetFilter(f) ==
    /\ view.mode # "none" /\ ~dialog /\ f # filter
    /\ filter' = f
    /\ IF AtOnce(view) THEN StartLoad(1, f, FALSE) ELSE UNCHANGED loadVars
    /\ UNCHANGED viewVars

OpenDialog ==
    /\ ~dialog /\ view.writes \cap {"dialog", "first"} # {}
    /\ dialog' = TRUE
    /\ UNCHANGED <<view, version, mine, listSaving, writes, written, loadVars, filter>>

CloseDialog ==
    /\ dialog
    /\ dialog' = FALSE
    /\ UNCHANGED <<view, version, mine, listSaving, writes, written, loadVars, filter>>

\* A dialog's save(), a row's toggle, removal or resolution, up to the await.
Write(way) ==
    /\ way \in view.writes
    /\ IF way = "row" THEN ~dialog ELSE dialog /\ ~listSaving
    /\ written < MaxWrites
    /\ written' = written + 1
    /\ writes' = writes \cup {[no |-> written + 1, way |-> way]}
    /\ listSaving' = (listSaving \/ way # "row")
    /\ UNCHANGED <<view, version, mine, dialog, loadVars, filter>>

\* Nothing follows a write on a row.
ShowWriteInForeground(way) ==
    IF way = "row" THEN UNCHANGED loadVars ELSE StartLoad(page, CurrentFilter, TRUE)

\* What follows an answered write: the list loads, the first page of it after
\* a report was made.
ShowWrite(way) ==
    StartLoad(IF way = "first" THEN 1 ELSE page, CurrentFilter, way # "row")

WriteDone(w) ==
    /\ version' = version + 1
    /\ mine' = version'
    /\ writes' = writes \ {w}
    /\ dialog' = (dialog /\ w.way = "row")
    /\ ShowWrite(w.way)
    /\ UNCHANGED <<view, listSaving, written, filter>>

\* The same with a button that only a success puts at rest.
WriteFailsSaving(w) ==
    /\ version' \in {version, version + 1}
    /\ writes' = writes \ {w}
    /\ UNCHANGED <<view, mine, dialog, listSaving, written, loadVars, filter>>

\* The write fails, or its answer is lost after the server did it.
WriteFails(w) ==
    /\ version' \in {version, version + 1}
    /\ writes' = writes \ {w}
    /\ listSaving' = (listSaving /\ w.way = "row")
    /\ UNCHANGED <<view, mine, dialog, written, loadVars, filter>>

ListAnswered ==
    \/ \E r \in loads : ServeLoad(r) \/ RowsCome(r) \/ LoadEnds(r)
    \/ \E w \in writes : WriteDone(w) \/ WriteFails(w)

ListNext ==
    \/ \E p \in 1..MaxPage : TurnPage(p)
    \/ Refresh \/ Search \/ Reset
    \/ \E f \in Filters : SetFilter(f)
    \/ OpenDialog \/ CloseDialog
    \/ \E way \in Ways : Write(way)
    \/ ListAnswered

ListSpec == ListInit /\ [][ListNext]_listVars

(***************************************************************************)
(* Properties.                                                             *)
(***************************************************************************)
ListTypeOK ==
    /\ view \in Views /\ page \in 1..MaxPage /\ {filter, applied} \subseteq Filters
    /\ spinning \in BOOLEAN /\ dialog \in BOOLEAN /\ listSaving \in BOOLEAN
    /\ loads \subseteq ListLoads /\ lastLoad \in 1..MaxLoad
    /\ version \in 0..MaxWrites /\ mine \in 0..version /\ written \in 0..MaxWrites
    /\ writes \subseteq [no : 1..written, way : Ways]

\* While the rows shown are those of the last load (it did not fail, and no
\* older answer came after it), they are the page that the pager shows, for
\* the filter that the page acts on, read by the server after every write that
\* this page was told of.
OrderedListIsCurrent ==
    rows # None =>
        (rows.no = lastLoad =>
            /\ rows.page = page
            /\ rows.filter = IF AtOnce(view) THEN filter ELSE applied
            /\ rows.version >= mine)
=============================================================================
