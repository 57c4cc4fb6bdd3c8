---------------------------- MODULE ApiKeyPage ----------------------------
(***************************************************************************)
(* The creation of API keys on the console's key page,                     *)
(* webui/src/views/ApiKeyList.vue.  The server sends a key's plain text    *)
(* once, in its answer; the page must bring it before the user's eyes      *)
(* whatever becomes of the calls it makes besides.  Opening the dialog     *)
(* first loads two lists, so two clicks can open it twice.                 *)
(***************************************************************************)
EXTENDS Naturals, CommonValues

CONSTANTS
    MaxKeys,   \* bound: keys created
    MaxOpens   \* bound: openings of the dialog under way at once

ASSUME ApiKeyPageAssumption == MaxKeys \in Nat /\ MaxOpens \in Nat

VARIABLES
    created,      \* keys on the server, numbered as they were created
    opening,      \* clicks on "create" whose lists are still loading
    keyDialog,    \* the dialog of a new key is on screen
    saving,       \* its button shows that it is saving
    creating,     \* creations under way
    listing,      \* lists under way after a creation
    plainKey,     \* the plain text that the page holds
    plainDialog,  \* its dialog is on screen
    batch,        \* the batch dialog: "no", "open", "create" or "list"
    sent,         \* keys sent in answer to save()
    seen,         \* keys whose plain text was on screen
    spent         \* keys made by this dialog since it opened or showed an error

openVars == <<opening, keyDialog, spent>>
saveVars == <<saving, creating, listing>>
plainVars == <<plainKey, plainDialog, sent, seen>>
keyVars == <<created, openVars, saveVars, plainVars, batch>>

KeyInit ==
    /\ created = 0
    /\ opening = 0 /\ keyDialog = FALSE /\ spent = 0
    /\ saving = FALSE /\ creating = 0 /\ listing = 0
    /\ plainKey = None /\ plainDialog = FALSE /\ sent = {} /\ seen = {}
    /\ batch = "no"

\* The page under its dialogs can be clicked.
Uncovered == ~keyDialog /\ ~plainDialog /\ batch \in {"no", "list"}

(***************************************************************************)
(* One key.                                                                *)
(***************************************************************************)
\* openCreate up to its awaits.
clickCreate ==
    /\ Uncovered
    /\ opening < MaxOpens
    /\ opening' = opening + 1
    /\ UNCHANGED <<created, keyDialog, spent, saveVars, plainVars, batch>>

\* openCreate from its awaits on: the lists came or not, the dialog opens
\* over whatever is on screen by now.
openCreateKey ==
    /\ opening > 0
    /\ opening' = opening - 1
    /\ keyDialog' = TRUE
    /\ spent' = IF keyDialog THEN spent ELSE 0
    /\ UNCHANGED <<created, saveVars, plainVars, batch>>

closeKeyDialog ==
    /\ keyDialog
    /\ keyDialog' = FALSE
    /\ UNCHANGED <<created, opening, spent, saveVars, plainVars, batch>>

\* A loading button that takes clicks.
clickSaveTwice ==
    /\ keyDialog
    /\ creating < 2
    /\ saving' = TRUE
    /\ creating' = creating + 1
    /\ UNCHANGED <<created, openVars, listing, plainVars, batch>>

\* save up to its first await; a loading button takes no click.
clickSave ==
    /\ keyDialog
    /\ ~saving
    /\ saving' = TRUE
    /\ creating' = creating + 1
    /\ UNCHANGED <<created, openVars, listing, plainVars, batch>>

\* The server's createAPIKey.
createAPIKey ==
    /\ created < MaxKeys
    /\ created' = created + 1

\* The key is put where it can be read, but its dialog waits for the list.
ShowKeyLater(k) ==
    /\ plainKey' = k
    /\ UNCHANGED <<plainDialog, seen>>

ShowKey(k) ==
    /\ plainKey' = k
    /\ plainDialog' = TRUE
    /\ seen' = seen \cup {k}

\* save from its first await on: the key is shown, then the list loads.
KeyCreated ==
    /\ creating > 0
    /\ createAPIKey
    /\ sent' = sent \cup {created'}
    /\ ShowKey(created')
    /\ keyDialog' = FALSE
    /\ creating' = creating - 1
    /\ listing' = listing + 1
    /\ spent' = spent + 1
    /\ UNCHANGED <<opening, saving, batch>>

\* The creation fails, or its answer is lost after the server did its part;
\* the dialog stays open under an error message.
KeyCreateFailed ==
    /\ creating > 0
    /\ creating' = creating - 1
    /\ saving' = FALSE
    /\ spent' = 0
    /\ UNCHANGED created \/ createAPIKey
    /\ UNCHANGED <<opening, keyDialog, listing, plainVars, batch>>

\* save from its second await on: load() came, or failed and threw.
KeyListCame ==
    /\ listing > 0
    /\ listing' = listing - 1
    /\ saving' = FALSE
    /\ UNCHANGED <<created, openVars, creating, plainVars, batch>>

\* closePlain; or the cross, whose confirmation keeps nothing open.
closePlain ==
    /\ plainDialog /\ ~keyDialog
    /\ plainDialog' = FALSE
    /\ UNCHANGED <<created, openVars, saveVars, plainKey, sent, seen, batch>>

(***************************************************************************)
(* A batch.  Its answer, an object that holds the items, is taken for the  *)
(* list of them, so showing the keys throws after the list has come, and   *)
(* nothing is shown when the list fails: no key of a batch is ever seen.   *)
(***************************************************************************)
BatchStep(from, to) ==
    /\ batch = from
    /\ batch' = to
    /\ UNCHANGED <<openVars, saveVars, plainVars>>

\* openBatch, closing its dialog, doBatchCreate up to its first await (a
\* second click is not modelled), on failure, and from its second await on.
openBatch == Uncovered /\ BatchStep("no", "open") /\ UNCHANGED created
closeBatch == ~keyDialog /\ BatchStep("open", "no") /\ UNCHANGED created
clickBatch == ~keyDialog /\ BatchStep("open", "create") /\ UNCHANGED created
BatchFailed == BatchStep("create", "open") /\ UNCHANGED created
BatchListCame == BatchStep("list", "no") /\ UNCHANGED created

\* doBatchCreate between its awaits; the batch is of one key.
BatchCreated == BatchStep("create", "list") /\ createAPIKey

KeyAnswered ==
    \/ openCreateKey \/ KeyCreated \/ KeyCreateFailed \/ KeyListCame
    \/ BatchCreated \/ BatchFailed \/ BatchListCame

KeyNext ==
    \/ clickCreate \/ closeKeyDialog \/ clickSave \/ closePlain
    \/ openBatch \/ closeBatch \/ clickBatch
    \/ KeyAnswered

KeySpec == KeyInit /\ [][KeyNext]_keyVars

(***************************************************************************)
(* Properties.                                                             *)
(***************************************************************************)
KeyTypeOK ==
    /\ created \in 0..MaxKeys /\ opening \in 0..MaxOpens /\ spent \in 0..MaxKeys
    /\ keyDialog \in BOOLEAN /\ saving \in BOOLEAN /\ plainDialog \in BOOLEAN
    /\ creating \in 0..2 /\ listing \in 0..2
    /\ batch \in {"no", "open", "create", "list"}
    /\ sent \subseteq 1..created /\ seen \subseteq sent
    /\ plainKey \in sent \cup {None}

\* A key that the server sent in answer to save() was on screen by the time
\* the button can be pressed again, although the page loads its list in
\* between and that may fail; and while its dialog is on screen it holds the
\* key that was sent last.
SingleKeyShown ==
    /\ ~saving => sent \subseteq seen
    /\ plainDialog => \A k \in sent : k <= plainKey

\* One dialog makes one key: a second one is made from the same dialog only
\* after it showed an error, however often its button is clicked and however
\* often it was opened.
OneKeyPerDialog == spent <= 1
=============================================================================
