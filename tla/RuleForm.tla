----------------------------- MODULE RuleForm -----------------------------
(***************************************************************************)
(* The dialog in which a privacy rule is written: the form of              *)
(* webui/src/views/PrivacyRules.vue and in it the pattern field of         *)
(* webui/src/components/RegexPatternField.vue, which either builds a       *)
(* pattern from a template or takes one written by hand.  A saving dialog  *)
(* is not locked: its user may go on typing, close it and open another.    *)
(***************************************************************************)
EXTENDS RegexBuilder

CONSTANTS
    Options,   \* bound: the options that the user touches
    Texts,     \* what the user types into a template's text field
    Lengths,   \* what the user sets a length to; None empties the field
    MaxSets    \* bound: options set in one dialog

ASSUME RuleFormAssumption ==
    /\ Options \subseteq DOMAIN defaultTemplateState
    /\ Lengths \subseteq 1..64 \cup {None}
    /\ MaxSets \in Nat

VARIABLES
    form,        \* the dialog on screen, or None
    ruleSaving,  \* what is being saved, or None
    sets         \* options set in this dialog

ruleVars == <<form, ruleSaving, sets>>

\* A pattern is empty (None), built, or by hand.
ByHand(name) == [hand |-> name]
StoredPattern == ByHand("stored")
HandPatterns == {StoredPattern, ByHand("typed"), None}
FormKinds == {"pii", "output", "injection"}

\* showReplacement
Replaces(kind) == kind \in {"pii", "output"}

avail(f) == templatesFor(f.kind)
OnlyOne(f) == avail(f) = {"phrase"}
overwriteWarn(f) == f.tab = "visual" /\ f.pattern # None /\ ~f.owned

RuleInit ==
    /\ form = None
    /\ ruleSaving = None
    /\ sets = 0

(***************************************************************************)
(* The pattern field.                                                      *)
(***************************************************************************)
AutoReplacementAlways(f, v) == [f EXCEPT !.replacement = v]

\* onAutoReplacement
AutoReplacement(f, v) == IF f.dirty THEN f ELSE [f EXCEPT !.replacement = v]

\* regenerate
Regenerated(f) ==
    LET p == IF f.template = "" THEN None ELSE build(f.template, f.opts)
        g == [f EXCEPT !.pattern = p, !.owned = TRUE]
    IN IF f.tab # "visual" \/ p = None THEN f
       ELSE IF Replaces(f.kind) THEN AutoReplacement(g, defaultReplacement(f.template))
       ELSE g

applyTemplateAsIs(f, id) == Regenerated([f EXCEPT !.template = id])

applyTemplate(f, id) == Regenerated([f EXCEPT !.template = id, !.opts = freshState(id)])

\* The field's setup and onMounted.
Mounted(f) == IF OnlyOne(f) THEN applyTemplate(f, "phrase") ELSE f

\* The same when it keeps a template that the new kind does not offer.
KindChangedKeeping(f) == Regenerated(f)

\* The watcher of ruleKind: a built pattern goes, one by hand stays.
KindChanged(f) ==
    LET cleared == f.tab = "visual" /\ f.owned /\ f.pattern # None
        g == IF cleared THEN [f EXCEPT !.pattern = None, !.owned = FALSE] ELSE f
    IN IF f.template \in avail(f) THEN g
       ELSE IF OnlyOne(f) THEN applyTemplate(g, "phrase")
       ELSE Regenerated([g EXCEPT !.template = ""])

\* The values an option can be given in its dialog: the switch for whole
\* words in a phrase is disabled unless the phrase is one ASCII word.
OptionValues(f, o) ==
    LET phrase == Trim(f.opts.phrase)
    IN CASE o \in {"prefix", "phrase"} -> Texts
         [] o \in {"minLen", "maxLen"} -> Lengths
         [] o = "wholeWord" /\ f.template = "phrase" ->
                IF phrase # <<>> /\ Single(phrase) THEN BOOLEAN ELSE {}
         [] OTHER -> BOOLEAN

PickTab(t) ==
    /\ form # None
    /\ form.tab # t
    /\ form' = [form EXCEPT !.tab = t]
    /\ UNCHANGED <<ruleSaving, sets>>

\* The select of the template, which sets templateId and does nothing more.
ChooseTemplate(id) ==
    /\ form # None
    /\ form.tab = "visual" /\ ~OnlyOne(form) /\ id \in avail(form) \ {form.template}
    /\ form' = [form EXCEPT !.template = id]
    /\ UNCHANGED <<ruleSaving, sets>>

\* setOpt, and the change of a number field.
SetOption(o, v) ==
    /\ form # None
    /\ sets < MaxSets
    /\ form.tab = "visual" /\ form.template # "" /\ o \in options(form.template)
    /\ form.opts[o] # v
    /\ form' = Regenerated([form EXCEPT !.opts[o] = v])
    /\ sets' = sets + 1
    /\ UNCHANGED ruleSaving

\* onManualInput
TypePattern(p) ==
    /\ form # None
    /\ form.tab = "manual" /\ p # form.pattern
    /\ form' = [form EXCEPT !.owned = FALSE, !.pattern = p]
    /\ UNCHANGED <<ruleSaving, sets>>

(***************************************************************************)
(* The form around it.                                                     *)
(***************************************************************************)
Opened(kind, editing, pattern, replacement) ==
    Mounted([kind |-> kind, editing |-> editing, pattern |-> pattern, replacement |-> replacement,
             dirty |-> FALSE, owned |-> FALSE, template |-> "", opts |-> defaultTemplateState,
             tab |-> IF pattern = None THEN "visual" ELSE "manual"])

openCreate(kind) ==
    /\ form = None
    /\ form' = Opened(kind, FALSE, None, "")
    /\ sets' = 0
    /\ UNCHANGED ruleSaving

\* The dialog of a stored rule, whose pattern and replacement are by hand
\* whatever they were made with.
openEdit(kind) ==
    /\ form = None
    /\ form' = Opened(kind, TRUE, StoredPattern, IF Replaces(kind) THEN "stored" ELSE "")
    /\ sets' = 0
    /\ UNCHANGED ruleSaving

ChangeKind(kind) ==
    /\ form # None
    /\ ~form.editing /\ form.kind \in FormKinds /\ kind # form.kind
    /\ form' = KindChanged([form EXCEPT !.kind = kind])
    /\ UNCHANGED <<ruleSaving, sets>>

TypeReplacement ==
    /\ form # None
    /\ Replaces(form.kind)
    /\ form' = [form EXCEPT !.replacement = "typed", !.dirty = TRUE]
    /\ UNCHANGED <<ruleSaving, sets>>

\* submit up to its await, with a copy of the form; without a pattern it
\* only warns.
submit ==
    /\ form # None
    /\ ruleSaving = None /\ form.pattern # None
    /\ form' = IF form.kind = "injection" THEN [form EXCEPT !.replacement = ""] ELSE form
    /\ ruleSaving' = [kind |-> form.kind, dirty |-> form.dirty, replacement |-> form'.replacement]
    /\ UNCHANGED sets

\* submit from its await on.  A refusal leaves the dialog open; a success
\* closes the dialog there is.
Saved(ok) ==
    /\ ruleSaving # None
    /\ ruleSaving' = None
    /\ IF ok THEN form' = None /\ sets' = 0 ELSE UNCHANGED <<form, sets>>

\* The dialog is closed.  Opening it sets every field again except the one
\* named action, which is left out here, so no field is kept.
closeForm ==
    /\ form # None
    /\ form' = None
    /\ sets' = 0
    /\ UNCHANGED ruleSaving

\* No value, and so no step, without a dialog and a template.
ValuesOn(o) ==
    IF form = None THEN {} ELSE IF form.template = "" THEN {} ELSE OptionValues(form, o)

RuleNext ==
    \/ \E t \in {"visual", "manual"} : PickTab(t)
    \/ \E id \in TemplateIds : ChooseTemplate(id)
    \/ \E o \in Options : \E v \in ValuesOn(o) : SetOption(o, v)
    \/ \E p \in HandPatterns : TypePattern(p)
    \/ \E kind \in RuleKinds : openCreate(kind)
    \/ \E kind \in FormKinds : openEdit(kind)
    \/ \E kind \in FormKinds : ChangeKind(kind)
    \/ TypeReplacement
    \/ submit
    \/ \E ok \in BOOLEAN : Saved(ok)
    \/ closeForm

RuleSpec == RuleInit /\ [][RuleNext]_ruleVars

(***************************************************************************)
(* Properties.                                                             *)
(***************************************************************************)
RuleTypeOK ==
    /\ form # None =>
        /\ form.kind \in RuleKinds
        /\ form.tab \in {"visual", "manual"}
        /\ form.template \in avail(form) \cup {""}
        /\ form.owned => form.pattern \notin HandPatterns
    /\ ruleSaving # None => ruleSaving.kind \in RuleKinds /\ ruleSaving.dirty \in BOOLEAN
    /\ sets \in 0..MaxSets

\* Whatever template the dialog has chosen and however its options are set,
\* the pattern built finds what the options promise and nothing that they
\* exclude: a sample among Chinese text, where no \b may stand, a number only
\* in its range when it must be whole, a phrase with spaces between its
\* characters or words only when that was asked for.  A phrase that mixes
\* Chinese and words is left out of the last part.
BuilderMeansItsOptions ==
    form # None => (form.template # "" => Sound[form.template])

\* A pattern written by hand, or stored before, is replaced in an open dialog
\* only by typing, or by setting an option on the visual tab while its warning
\* says so: no change of the kind, of the tab or of the template does.
HandPatternKept ==
    [][(form # None /\ form' # None /\ form.pattern # None /\ ~form.owned)
        => \/ form'.pattern = form.pattern
           \/ form.tab = "manual" /\ form'.pattern \in HandPatterns
           \/ overwriteWarn(form) /\ sets' # sets]_ruleVars

\* A replacement typed in this dialog is never overwritten by a template's,
\* neither on the form nor in what is saved (only the save of an injection
\* rule empties it), and such a rule is saved without one.
HandReplacementKept ==
    /\ form # None => (form.dirty => form.replacement \in {"typed", ""})
    /\ ruleSaving # None =>
        /\ ruleSaving.dirty => ruleSaving.replacement \in {"typed", ""}
        /\ ruleSaving.kind = "injection" => ruleSaving.replacement = ""
=============================================================================
