----------------------------- MODULE FormProofs -----------------------------
(***************************************************************************)
(* The forms of the console: what its user wrote by hand stays, and what   *)
(* is sent for a model is coherent, for any texts, lengths, addresses and  *)
(* bounds and in any order of changes.                                     *)
(***************************************************************************)
EXTENDS RuleForm, ModelForm, SequenceTheorems, WellFoundedInduction, TLAPS

(***************************************************************************)
(* The rule dialog.  A pattern that is not owned was written by hand or    *)
(* was stored, since a built one has another shape; a form that is dirty   *)
(* keeps its replacement through every template.                           *)
(***************************************************************************)
RuleFields == {"kind", "editing", "pattern", "replacement", "dirty", "owned", "template", "opts", "tab"}

\* A form with all its fields and with flags that are flags.
RuleShape(f) ==
    /\ DOMAIN f = RuleFields
    /\ f.kind \in RuleKinds /\ f.tab \in {"visual", "manual"}
    /\ f.dirty \in BOOLEAN /\ f.owned \in BOOLEAN

GoodForm(f) ==
    /\ RuleShape(f)
    /\ f.template \in avail(f) \cup {""}
    /\ f.owned => f.pattern \notin HandPatterns
    /\ f.dirty => f.replacement \in {"typed", ""}

RuleInv ==
    /\ form # None => GoodForm(form)
    /\ RuleTypeOK /\ HandReplacementKept

\* What a template builds is not a pattern written by hand.
LEMMA BuiltIsNotByHand ==
    ASSUME NEW id \in TemplateIds, NEW s, build(id, s) # None
    PROVE  build(id, s) \notin HandPatterns
  <1>1. DOMAIN build(id, s) = {"atoms", "ignoreCase"}
    <2>1. \A a, i : DOMAIN [atoms |-> a, ignoreCase |-> i] = {"atoms", "ignoreCase"} OBVIOUS
    <2>2. \A a : DOMAIN Plain(a) = {"atoms", "ignoreCase"} BY <2>1 DEF Plain
    <2>3. CASE id = "prefix-digits" BY <2>1, <2>3 DEF build, buildPrefixDigits
    <2>4. CASE id = "phrase" BY <2>1, <2>4 DEF build, buildPhrase
    <2>5. CASE id \in {"phone", "idcard", "bankcard", "email", "digits"}
      BY <2>2, <2>5 DEF build, buildPhone, buildIdcard, buildBankcard, buildEmail, buildDigits
    <2>. QED BY <2>3, <2>4, <2>5 DEF TemplateIds
  <1>2. \A n : DOMAIN ByHand(n) = {"hand"} BY DEF ByHand
  <1>3. "atoms" \notin {"hand"} OBVIOUS
  <1>. QED BY <1>1, <1>2, <1>3 DEF HandPatterns, StoredPattern

\* The only template of a kind starts without a phrase and so builds nothing.
LEMMA NothingWithoutPhrase == build("phrase", freshState("phrase")) = None
  <1>1. defaultTemplateState.phrase = <<>> /\ "phrase" \in DOMAIN defaultTemplateState
    BY DEF defaultTemplateState
  <1>2. freshState("phrase") = [defaultTemplateState EXCEPT !.wholeWord = FALSE]
    BY DEF freshState
  <1>3. freshState("phrase").phrase = <<>> BY <1>1, <1>2
  <1>4. Trim(<<>>) = <<>>
    <2>1. {i \in DOMAIN <<>> : <<>>[i] \notin Space} = {} OBVIOUS
    <2>. QED BY <2>1 DEF Trim
  <1>. QED BY <1>3, <1>4 DEF build, buildPhrase

\* The parts of a form that the building of a pattern leaves alone, and what
\* it does to the others.
LEMMA RegeneratedKeeps ==
    ASSUME NEW f, RuleShape(f), f.template \in avail(f) \cup {""}
    PROVE  LET r == Regenerated(f) IN
           /\ RuleShape(r)
           /\ r.kind = f.kind /\ r.template = f.template /\ r.tab = f.tab
           /\ r.dirty <=> f.dirty
           /\ f.dirty => r.replacement = f.replacement
           /\ \/ r.pattern = f.pattern /\ (r.owned <=> f.owned)
              \/ /\ f.tab = "visual" /\ f.template # ""
                 /\ r.owned
                 /\ r.pattern = build(f.template, f.opts) /\ r.pattern \notin HandPatterns
  <1>. DEFINE r == Regenerated(f)
              b == build(f.template, f.opts)
              g == [f EXCEPT !.pattern = b, !.owned = TRUE]
              v == defaultReplacement(f.template)
  <1>1. CASE f.tab # "visual" \/ f.template = "" \/ b = None
    <2>1. r = f BY <1>1 DEF Regenerated
    <2>. QED BY <2>1
  <1>2. CASE f.tab = "visual" /\ f.template # "" /\ b # None
    <2>1. f.template \in TemplateIds BY <1>2 DEF avail, templatesFor, TemplateIds
    <2>2. b \notin HandPatterns BY <1>2, <2>1, BuiltIsNotByHand
    <2>3. r = IF Replaces(f.kind) /\ ~f.dirty THEN [g EXCEPT !.replacement = v] ELSE g
      <3>1. g.kind = f.kind /\ (g.dirty <=> f.dirty) BY DEF RuleShape, RuleFields
      <3>2. r = IF Replaces(f.kind) THEN AutoReplacement(g, v) ELSE g
        BY <1>2 DEF Regenerated
      <3>. QED BY <3>1, <3>2 DEF AutoReplacement
    <2>. HIDE DEF b, v, r
    <2>4. /\ DOMAIN g = RuleFields /\ g.kind = f.kind /\ g.template = f.template /\ g.tab = f.tab
          /\ g.dirty = f.dirty /\ g.replacement = f.replacement /\ g.pattern = b /\ g.owned = TRUE
      BY DEF RuleShape, RuleFields
    <2>. HIDE DEF g
    <2>5. /\ DOMAIN r = RuleFields /\ r.kind = f.kind /\ r.template = f.template /\ r.tab = f.tab
          /\ r.dirty = f.dirty /\ r.pattern = b /\ r.owned = TRUE
          /\ f.dirty => r.replacement = f.replacement
      <3>1. CASE Replaces(f.kind) /\ ~f.dirty BY <2>3, <2>4, <3>1 DEF RuleFields
      <3>2. CASE ~(Replaces(f.kind) /\ ~f.dirty) BY <2>3, <2>4, <3>2
      <3>. QED BY <3>1, <3>2
    <2>6. RuleShape(r) BY <2>5 DEF RuleShape
    <2>. QED BY <2>2, <2>5, <2>6, <1>2 DEF b, r
  <1>. QED BY <1>1, <1>2

\* The same of a good form.
LEMMA RegeneratedGood ==
    ASSUME NEW f, RuleShape(f), f.template \in avail(f) \cup {""},
           f.owned => f.pattern \notin HandPatterns, f.dirty => f.replacement \in {"typed", ""}
    PROVE  LET r == Regenerated(f) IN
           /\ GoodForm(r)
           /\ ~f.owned => r.pattern = f.pattern \/ (f.tab = "visual" /\ f.template # "")
  <1>. DEFINE r == Regenerated(f)
  <1>1. RuleShape(r) /\ r.kind = f.kind /\ r.template = f.template
    BY RegeneratedKeeps
  <1>2. r.dirty => r.replacement \in {"typed", ""} BY RegeneratedKeeps
  <1>3. r.owned => r.pattern \notin HandPatterns BY RegeneratedKeeps
  <1>4. r.pattern = f.pattern \/ (f.tab = "visual" /\ f.template # "") BY RegeneratedKeeps
  <1>. HIDE DEF r
  <1>5. GoodForm(r) BY <1>1, <1>2, <1>3 DEF GoodForm, avail
  <1>. QED BY <1>4, <1>5 DEF r

\* A kind with one template gets it as the dialog opens and as the kind
\* changes, and it builds nothing yet.
LEMMA OnlyTemplate ==
    ASSUME NEW f, RuleShape(f), "phrase" \in avail(f),
           f.owned => f.pattern \notin HandPatterns, f.dirty => f.replacement \in {"typed", ""}
    PROVE  GoodForm(applyTemplate(f, "phrase")) /\ applyTemplate(f, "phrase").pattern = f.pattern
  <1>. DEFINE g == [f EXCEPT !.template = "phrase", !.opts = freshState("phrase")]
  <1>1. /\ DOMAIN g = RuleFields /\ g.kind = f.kind /\ g.tab = f.tab /\ g.dirty = f.dirty
        /\ g.owned = f.owned /\ g.pattern = f.pattern /\ g.replacement = f.replacement
        /\ g.template = "phrase" /\ g.opts = freshState("phrase")
    BY DEF RuleShape, RuleFields
  <1>2. applyTemplate(f, "phrase") = Regenerated(g) BY DEF applyTemplate
  <1>. HIDE DEF g
  <1>3. build(g.template, g.opts) = None BY <1>1, NothingWithoutPhrase
  <1>4. Regenerated(g) = g BY <1>3 DEF Regenerated
  <1>5. GoodForm(g) BY <1>1 DEF GoodForm, RuleShape, avail
  <1>. QED BY <1>1, <1>2, <1>4, <1>5

LEMMA PhraseForAll == \A f : "phrase" \in avail(f)
  BY DEF avail, templatesFor, TemplateIds

\* A new kind keeps a pattern that was written by hand.
LEMMA KindChangedGood ==
    ASSUME NEW f, RuleShape(f), f.template \in TemplateIds \cup {""},
           f.owned => f.pattern \notin HandPatterns, f.dirty => f.replacement \in {"typed", ""}
    PROVE  LET k == KindChanged(f) IN
           /\ GoodForm(k)
           /\ ~f.owned => k.pattern = f.pattern
  <1>. DEFINE cleared == f.tab = "visual" /\ f.owned /\ f.pattern # None
              g == IF cleared THEN [f EXCEPT !.pattern = None, !.owned = FALSE] ELSE f
              k == KindChanged(f)
              e == [g EXCEPT !.template = ""]
  <1>1. /\ RuleShape(g) /\ g.template = f.template /\ g.kind = f.kind
        /\ g.owned => g.pattern \notin HandPatterns
        /\ g.dirty => g.replacement \in {"typed", ""}
        /\ ~f.owned => g.pattern = f.pattern
    <2>1. CASE cleared
      <3>. DEFINE c == [f EXCEPT !.pattern = None, !.owned = FALSE]
      <3>1. /\ DOMAIN c = RuleFields /\ c.kind = f.kind /\ c.tab = f.tab /\ c.dirty = f.dirty
            /\ c.owned = FALSE /\ c.replacement = f.replacement /\ c.template = f.template
        BY DEF RuleShape, RuleFields
      <3>2. g = c /\ f.owned BY <2>1
      <3>. HIDE DEF c, g
      <3>. QED BY <3>1, <3>2 DEF RuleShape
    <2>2. CASE ~cleared
      <3>1. g = f BY <2>2
      <3>. QED BY <3>1
    <2>. QED BY <2>1, <2>2
  <1>2. k = IF f.template \in avail(f) THEN g
            ELSE IF OnlyOne(f) THEN applyTemplate(g, "phrase") ELSE Regenerated(e)
    BY DEF KindChanged
  <1>. HIDE DEF g, k
  <1>3. CASE f.template \in avail(f)
    <2>1. k = g BY <1>2, <1>3
    <2>. QED BY <1>1, <1>3, <2>1 DEF GoodForm, avail, k
  <1>4. CASE f.template \notin avail(f) /\ OnlyOne(f)
    <2>1. k = applyTemplate(g, "phrase") BY <1>2, <1>4
    <2>2. GoodForm(k) /\ k.pattern = g.pattern BY <1>1, <2>1, OnlyTemplate, PhraseForAll
    <2>. QED BY <1>1, <2>2 DEF k
  <1>5. CASE f.template \notin avail(f) /\ ~OnlyOne(f)
    <2>1. k = Regenerated(e) BY <1>2, <1>5
    <2>2. /\ DOMAIN e = RuleFields /\ e.kind = g.kind /\ e.tab = g.tab /\ e.dirty = g.dirty
          /\ e.owned = g.owned /\ e.pattern = g.pattern /\ e.replacement = g.replacement
          /\ e.template = ""
      BY <1>1 DEF RuleShape, RuleFields
    <2>. HIDE DEF e
    <2>3. Regenerated(e) = e BY <2>2 DEF Regenerated
    <2>4. GoodForm(e) BY <1>1, <2>2 DEF GoodForm, RuleShape
    <2>. QED BY <1>1, <2>1, <2>2, <2>3, <2>4 DEF k
  <1>. QED BY <1>3, <1>4, <1>5

\* What a dialog shows as it opens.
LEMMA OpenedGood ==
    ASSUME NEW kind \in RuleKinds, NEW ed \in BOOLEAN, NEW p, NEW rep
    PROVE  GoodForm(Opened(kind, ed, p, rep))
  <1>. DEFINE f == [kind |-> kind, editing |-> ed, pattern |-> p, replacement |-> rep,
                    dirty |-> FALSE, owned |-> FALSE, template |-> "", opts |-> defaultTemplateState,
                    tab |-> IF p = None THEN "visual" ELSE "manual"]
  <1>1. Opened(kind, ed, p, rep) = Mounted(f) BY DEF Opened
  <1>2. /\ DOMAIN f = RuleFields /\ f.kind = kind /\ f.dirty = FALSE /\ f.owned = FALSE
        /\ f.template = "" /\ f.tab \in {"visual", "manual"}
    BY DEF RuleFields
  <1>. HIDE DEF f
  <1>3. RuleShape(f) BY <1>2 DEF RuleShape
  <1>4. CASE OnlyOne(f)
    <2>1. Mounted(f) = applyTemplate(f, "phrase") BY <1>4 DEF Mounted
    <2>. QED BY <1>1, <1>2, <1>3, <2>1, OnlyTemplate, PhraseForAll
  <1>5. CASE ~OnlyOne(f)
    <2>1. Mounted(f) = f BY <1>5 DEF Mounted
    <2>. QED BY <1>1, <1>2, <1>3, <2>1 DEF GoodForm
  <1>. QED BY <1>4, <1>5

\* What one step may do to a pattern written by hand, for each step that
\* keeps the dialog.
Kept == (form # None /\ form' # None /\ form.pattern # None /\ ~form.owned)
            => \/ form'.pattern = form.pattern
               \/ form.tab = "manual" /\ form'.pattern \in HandPatterns
               \/ overwriteWarn(form) /\ sets' # sets

FormStep == (form' # None => GoodForm(form')) /\ Kept

LEMMA TabKept == ASSUME RuleInv, NEW t \in {"visual", "manual"}, PickTab(t) PROVE FormStep
  <1>1. GoodForm(form) BY DEF RuleInv, PickTab
  <1>2. form' = [form EXCEPT !.tab = t] BY DEF PickTab
  <1>3. /\ DOMAIN form' = RuleFields /\ form'.kind = form.kind /\ form'.tab = t
        /\ form'.dirty = form.dirty /\ form'.owned = form.owned /\ form'.pattern = form.pattern
        /\ form'.replacement = form.replacement /\ form'.template = form.template
    BY <1>1, <1>2 DEF GoodForm, RuleShape, RuleFields
  <1>. QED BY <1>1, <1>3 DEF GoodForm, RuleShape, avail, FormStep, Kept

LEMMA TemplateKept == ASSUME RuleInv, NEW id \in TemplateIds, ChooseTemplate(id) PROVE FormStep
  <1>1. GoodForm(form) BY DEF RuleInv, ChooseTemplate
  <1>2. form' = [form EXCEPT !.template = id] /\ id \in avail(form) BY DEF ChooseTemplate
  <1>3. /\ DOMAIN form' = RuleFields /\ form'.kind = form.kind /\ form'.tab = form.tab
        /\ form'.dirty = form.dirty /\ form'.owned = form.owned /\ form'.pattern = form.pattern
        /\ form'.replacement = form.replacement /\ form'.template = id
    BY <1>1, <1>2 DEF GoodForm, RuleShape, RuleFields
  <1>. QED BY <1>1, <1>2, <1>3 DEF GoodForm, RuleShape, avail, FormStep, Kept

LEMMA OptionKept == ASSUME RuleInv, NEW o, NEW v, SetOption(o, v) PROVE FormStep
  <1>. DEFINE f == [form EXCEPT !.opts[o] = v]
  <1>1. GoodForm(form) /\ sets \in Nat /\ sets' = sets + 1 /\ form.tab = "visual"
    <2>1. sets \in 0..MaxSets /\ MaxSets \in Nat BY RuleFormAssumption DEF RuleInv, RuleTypeOK
    <2>2. sets \in Nat BY <2>1
    <2>3. form # None /\ sets' = sets + 1 /\ form.tab = "visual" BY DEF SetOption
    <2>. QED BY <2>2, <2>3 DEF RuleInv
  <1>2. form' = Regenerated(f) BY DEF SetOption
  <1>3. /\ DOMAIN f = RuleFields /\ f.kind = form.kind /\ f.tab = form.tab
        /\ f.dirty = form.dirty /\ f.owned = form.owned /\ f.pattern = form.pattern
        /\ f.replacement = form.replacement /\ f.template = form.template
    BY <1>1 DEF GoodForm, RuleShape, RuleFields
  <1>. HIDE DEF f
  <1>4. GoodForm(f) BY <1>1, <1>3 DEF GoodForm, RuleShape, avail
  <1>5. GoodForm(form') BY <1>2, <1>4, RegeneratedGood DEF GoodForm
  <1>6. Kept BY <1>1 DEF Kept, overwriteWarn
  <1>. QED BY <1>5, <1>6 DEF FormStep

LEMMA TypedKept == ASSUME RuleInv, NEW p \in HandPatterns, TypePattern(p) PROVE FormStep
  <1>1. GoodForm(form) /\ form.tab = "manual" BY DEF RuleInv, TypePattern
  <1>2. form' = [form EXCEPT !.owned = FALSE, !.pattern = p] BY DEF TypePattern
  <1>3. /\ DOMAIN form' = RuleFields /\ form'.kind = form.kind /\ form'.tab = form.tab
        /\ form'.dirty = form.dirty /\ form'.owned = FALSE /\ form'.pattern = p
        /\ form'.replacement = form.replacement /\ form'.template = form.template
    BY <1>1, <1>2 DEF GoodForm, RuleShape, RuleFields
  <1>. QED BY <1>1, <1>3 DEF GoodForm, RuleShape, avail, FormStep, Kept

LEMMA KindKept == ASSUME RuleInv, NEW kind \in FormKinds, ChangeKind(kind) PROVE FormStep
  <1>. DEFINE f == [form EXCEPT !.kind = kind]
  <1>1. GoodForm(form) BY DEF RuleInv, ChangeKind
  <1>2. form' = KindChanged(f) BY DEF ChangeKind
  <1>3. /\ DOMAIN f = RuleFields /\ f.kind = kind /\ f.tab = form.tab
        /\ f.dirty = form.dirty /\ f.owned = form.owned /\ f.pattern = form.pattern
        /\ f.replacement = form.replacement /\ f.template = form.template
    BY <1>1 DEF GoodForm, RuleShape, RuleFields
  <1>4. form.template \in TemplateIds \cup {""} BY <1>1 DEF GoodForm, avail, templatesFor, TemplateIds
  <1>. HIDE DEF f
  <1>5. RuleShape(f) BY <1>1, <1>3 DEF GoodForm, RuleShape, FormKinds, RuleKinds
  <1>6. /\ f.owned => f.pattern \notin HandPatterns
        /\ f.dirty => f.replacement \in {"typed", ""}
    BY <1>1, <1>3 DEF GoodForm
  <1>7. GoodForm(KindChanged(f)) /\ (~f.owned => KindChanged(f).pattern = f.pattern)
    BY <1>3, <1>4, <1>5, <1>6, KindChangedGood
  <1>. QED BY <1>2, <1>3, <1>7 DEF FormStep, Kept

LEMMA ReplacementKept == ASSUME RuleInv, TypeReplacement PROVE FormStep
  <1>1. GoodForm(form) BY DEF RuleInv, TypeReplacement
  <1>2. form' = [form EXCEPT !.replacement = "typed", !.dirty = TRUE] BY DEF TypeReplacement
  <1>3. /\ DOMAIN form' = RuleFields /\ form'.kind = form.kind /\ form'.tab = form.tab
        /\ form'.dirty = TRUE /\ form'.owned = form.owned /\ form'.pattern = form.pattern
        /\ form'.replacement = "typed" /\ form'.template = form.template
    BY <1>1, <1>2 DEF GoodForm, RuleShape, RuleFields
  <1>. QED BY <1>1, <1>3 DEF GoodForm, RuleShape, avail, FormStep, Kept

\* A save sends what the form then shows.
LEMMA SubmitKept ==
    ASSUME RuleInv, submit
    PROVE  /\ FormStep
           /\ ruleSaving'.kind \in RuleKinds /\ ruleSaving'.dirty \in BOOLEAN
           /\ ruleSaving'.dirty => ruleSaving'.replacement \in {"typed", ""}
           /\ ruleSaving'.kind = "injection" => ruleSaving'.replacement = ""
  <1>1. GoodForm(form) BY DEF RuleInv, submit
  <1>2. /\ form' = IF form.kind = "injection" THEN [form EXCEPT !.replacement = ""] ELSE form
        /\ ruleSaving' = [kind |-> form.kind, dirty |-> form.dirty, replacement |-> form'.replacement]
    BY DEF submit
  <1>3. /\ DOMAIN form' = RuleFields /\ form'.kind = form.kind /\ form'.tab = form.tab
        /\ form'.dirty = form.dirty /\ form'.owned = form.owned /\ form'.pattern = form.pattern
        /\ form'.template = form.template
        /\ form'.replacement = IF form.kind = "injection" THEN "" ELSE form.replacement
    <2>1. CASE form.kind = "injection" BY <1>1, <1>2, <2>1 DEF GoodForm, RuleShape, RuleFields
    <2>2. CASE form.kind # "injection" BY <1>1, <1>2, <2>2 DEF GoodForm, RuleShape
    <2>. QED BY <2>1, <2>2
  <1>4. FormStep BY <1>1, <1>3 DEF GoodForm, RuleShape, avail, FormStep, Kept
  <1>5. /\ ruleSaving'.kind = form.kind /\ ruleSaving'.dirty = form.dirty
        /\ ruleSaving'.replacement = form'.replacement
    BY <1>2
  <1>. QED BY <1>1, <1>3, <1>4, <1>5 DEF GoodForm, RuleShape

\* The save that is under way keeps what it sends.
Sending(s) ==
    s # None => /\ s.kind \in RuleKinds /\ s.dirty \in BOOLEAN
                /\ s.dirty => s.replacement \in {"typed", ""}
                /\ s.kind = "injection" => s.replacement = ""

LEMMA RuleInvParts ==
    RuleInv <=> (form # None => GoodForm(form)) /\ Sending(ruleSaving) /\ sets \in 0..MaxSets
  BY DEF RuleInv, RuleTypeOK, HandReplacementKept, GoodForm, RuleShape, Sending, avail

LEMMA RuleStep == RuleInv /\ [RuleNext]_ruleVars => RuleInv' /\ Kept
  <1> SUFFICES ASSUME RuleInv, [RuleNext]_ruleVars PROVE RuleInv' /\ Kept OBVIOUS
  <1>1. MaxSets \in Nat /\ sets \in 0..MaxSets /\ Sending(ruleSaving) /\ (form # None => GoodForm(form))
    BY RuleInvParts, RuleFormAssumption
  <1>2. ASSUME FormStep, Sending(ruleSaving'), sets' \in 0..MaxSets PROVE RuleInv' /\ Kept
    BY <1>2 DEF FormStep, RuleInv, RuleTypeOK, HandReplacementKept, GoodForm, RuleShape, Sending, avail
  <1>3. ASSUME NEW t \in {"visual", "manual"}, PickTab(t) PROVE RuleInv' /\ Kept
    BY <1>1, <1>2, <1>3, TabKept DEF PickTab
  <1>4. ASSUME NEW id \in TemplateIds, ChooseTemplate(id) PROVE RuleInv' /\ Kept
    BY <1>1, <1>2, <1>4, TemplateKept DEF ChooseTemplate
  <1>5. ASSUME NEW o \in Options, NEW v \in ValuesOn(o), SetOption(o, v) PROVE RuleInv' /\ Kept
    <2>1. sets < MaxSets /\ sets' = sets + 1 /\ ruleSaving' = ruleSaving BY <1>5 DEF SetOption
    <2>2. sets' \in 0..MaxSets
      <3>1. MaxSets \in Nat /\ sets \in 0..MaxSets BY <1>1
      <3>. QED BY <2>1, <3>1
    <2>. QED BY <1>1, <1>2, <1>5, <2>1, <2>2, OptionKept
  <1>6. ASSUME NEW p \in HandPatterns, TypePattern(p) PROVE RuleInv' /\ Kept
    BY <1>1, <1>2, <1>6, TypedKept DEF TypePattern
  <1>7. ASSUME NEW kind \in RuleKinds, NEW ed \in BOOLEAN, NEW p, NEW rep,
               form = None, form' = Opened(kind, ed, p, rep), sets' = 0, ruleSaving' = ruleSaving
        PROVE  RuleInv' /\ Kept
    <2>1. GoodForm(form') BY <1>7, OpenedGood
    <2>. QED BY <1>1, <1>2, <1>7, <2>1 DEF FormStep, Kept
  <1>8. ASSUME NEW kind \in RuleKinds, openCreate(kind) PROVE RuleInv' /\ Kept
    BY <1>7, <1>8 DEF openCreate
  <1>9. ASSUME NEW kind \in FormKinds, openEdit(kind) PROVE RuleInv' /\ Kept
    <2>1. kind \in RuleKinds BY DEF FormKinds, RuleKinds
    <2>. QED BY <1>7, <1>9, <2>1 DEF openEdit
  <1>10. ASSUME NEW kind \in FormKinds, ChangeKind(kind) PROVE RuleInv' /\ Kept
    BY <1>1, <1>2, <1>10, KindKept DEF ChangeKind
  <1>11. CASE TypeReplacement
    BY <1>1, <1>2, <1>11, ReplacementKept DEF TypeReplacement
  <1>12. CASE submit
    BY <1>1, <1>2, <1>12, SubmitKept DEF submit, Sending
  <1>13. ASSUME form' = None \/ form' = form, ruleSaving' \in {None, ruleSaving}, sets' \in {0, sets}
         PROVE  RuleInv' /\ Kept
    <2>1. sets' \in 0..MaxSets
      <3>1. MaxSets \in Nat /\ sets \in 0..MaxSets BY <1>1
      <3>. QED BY <1>13, <3>1
    <2>2. Sending(ruleSaving') BY <1>1, <1>13 DEF Sending
    <2>3. FormStep BY <1>1, <1>13 DEF FormStep, Kept
    <2>. QED BY <1>2, <2>1, <2>2, <2>3
  <1>14. CASE closeForm \/ (\E ok \in BOOLEAN : Saved(ok)) \/ UNCHANGED ruleVars
    BY <1>13, <1>14 DEF closeForm, Saved, ruleVars
  <1>. QED BY <1>3, <1>4, <1>5, <1>6, <1>8, <1>9, <1>10, <1>11, <1>12, <1>14 DEF RuleNext

LEMMA RuleStart == RuleInit => RuleInv
  BY RuleInvParts, RuleFormAssumption DEF RuleInit, Sending

\* However the kind, the tab, the template and the options are changed, and
\* whatever is saved meanwhile, a replacement typed in a dialog stays on its
\* form and in what is saved (PrivacyRules.vue, onAutoReplacement and submit).
THEOREM ReplacementIsKept == RuleSpec => []HandReplacementKept
  <1>1. RuleInv => HandReplacementKept BY DEF RuleInv
  <1>. QED BY <1>1, RuleStart, RuleStep, PTL DEF RuleSpec

\* A pattern by hand goes only by typing, or behind its warning
\* (RegexPatternField.vue, overwriteWarn and the watcher of ruleKind).
THEOREM PatternIsKept == RuleSpec => HandPatternKept
  <1>1. Kept => [(form # None /\ form' # None /\ form.pattern # None /\ ~form.owned)
                     => \/ form'.pattern = form.pattern
                        \/ form.tab = "manual" /\ form'.pattern \in HandPatterns
                        \/ overwriteWarn(form) /\ sets' # sets]_ruleVars
    BY DEF Kept
  <1>. QED BY <1>1, RuleStart, RuleStep, PTL DEF RuleSpec, HandPatternKept

(***************************************************************************)
(* The model form.  A form of a preset provider always has the preset's    *)
(* address, another form an address that was typed, or none yet, and a     *)
(* protocol; tokens are set only for Anthropic's protocol.  The row listed *)
(* is coherent too, since its switch sends it back whole.                  *)
(***************************************************************************)
ModelForms == [was : Urls, provider : Providers, url : Urls, key : BOOLEAN,
               adapter : Adapters, tokens : {0, 4096}]

Addressed(f) ==
    /\ f.provider \in Presets => f.url = Preset(f.provider)
    /\ f.provider \notin Presets => f.url \in Addresses \cup {None}

GoodModel(f) ==
    /\ f \in ModelForms /\ Addressed(f)
    /\ f.provider \notin Presets => f.adapter # None
    /\ f.tokens # 0 => isAnthropic(f)

Sendable(f) == GoodModel(f) /\ (f.provider \in Presets => f.adapter = None)

ModelInv ==
    /\ row \in Rows /\ Coherent(row)
    /\ listed # None => listed \in Rows /\ Coherent(listed)
    /\ modelForm # None => GoodModel(modelForm)
    /\ modelSaving # None => Sendable(modelSaving)
    /\ fetching \in BOOLEAN /\ picker \in BOOLEAN
    /\ edits \in 0..MaxEdits /\ others \in 0..MaxOthers

LEMMA ModelValues ==
    /\ Presets \subseteq Urls /\ Addresses \cup {None} \subseteq Urls
    /\ None \notin Presets \cup Addresses \cup {"openai", "anthropic"}
    /\ {"openai", "anthropic"} \subseteq Presets /\ "custom" \notin Presets
    /\ "openai" # "anthropic" /\ {"openai", "anthropic", None} = Adapters
    /\ \A p : Preset(p) = p
    /\ Presets \subseteq Providers
  BY ModelFormAssumption DEF Presets, Urls, Preset, Providers, Adapters

\* One field of a form, or of a row, is changed.
FormsOrRows(S) == S = ModelForms \/ S = Rows

LEMMA PartTyped ==
    ASSUME NEW S, FormsOrRows(S), NEW f \in S
    PROVE  f.provider \in Providers /\ f.url \in Urls /\ f.adapter \in Adapters /\ f.tokens \in {0, 4096}
  <1>1. CASE S = ModelForms BY <1>1 DEF ModelForms
  <1>2. CASE S = Rows BY <1>2 DEF Rows
  <1>. QED BY <1>1, <1>2 DEF FormsOrRows

LEMMA ProviderSet ==
    ASSUME NEW S, FormsOrRows(S), NEW f \in S, NEW p \in Providers, NEW g, g = [f EXCEPT !.provider = p]
    PROVE  g \in S /\ g.provider = p /\ g.url = f.url /\ g.adapter = f.adapter /\ g.tokens = f.tokens
  <1>1. CASE S = ModelForms BY <1>1 DEF ModelForms
  <1>2. CASE S = Rows BY <1>2 DEF Rows
  <1>. QED BY <1>1, <1>2 DEF FormsOrRows

LEMMA UrlSet ==
    ASSUME NEW S, FormsOrRows(S), NEW f \in S, NEW u \in Urls, NEW g, g = [f EXCEPT !.url = u]
    PROVE  g \in S /\ g.provider = f.provider /\ g.url = u /\ g.adapter = f.adapter /\ g.tokens = f.tokens
  <1>1. CASE S = ModelForms BY <1>1 DEF ModelForms
  <1>2. CASE S = Rows BY <1>2 DEF Rows
  <1>. QED BY <1>1, <1>2 DEF FormsOrRows

LEMMA AdapterSet ==
    ASSUME NEW S, FormsOrRows(S), NEW f \in S, NEW a \in Adapters, NEW g, g = [f EXCEPT !.adapter = a]
    PROVE  g \in S /\ g.provider = f.provider /\ g.url = f.url /\ g.adapter = a /\ g.tokens = f.tokens
  <1>1. CASE S = ModelForms BY <1>1 DEF ModelForms
  <1>2. CASE S = Rows BY <1>2 DEF Rows
  <1>. QED BY <1>1, <1>2 DEF FormsOrRows

LEMMA TokensSet ==
    ASSUME NEW S, FormsOrRows(S), NEW f \in S, NEW t \in {0, 4096}, NEW g, g = [f EXCEPT !.tokens = t]
    PROVE  g \in S /\ g.provider = f.provider /\ g.url = f.url /\ g.adapter = f.adapter /\ g.tokens = t
  <1>1. CASE S = ModelForms BY <1>1 DEF ModelForms
  <1>2. CASE S = Rows BY <1>2 DEF Rows
  <1>. QED BY <1>1, <1>2 DEF FormsOrRows

\* Tokens follow the protocol.
LEMMA SyncTyped ==
    ASSUME NEW S, FormsOrRows(S), NEW f \in S
    PROVE  LET g == syncDefaultMaxTokens(f) IN
           /\ g \in S /\ g.provider = f.provider /\ g.url = f.url /\ g.adapter = f.adapter
           /\ g.tokens # 0 => isAnthropic(g)
  <1>. DEFINE t == IF ~isAnthropic(f) THEN 0 ELSE IF f.tokens = 0 THEN 4096 ELSE f.tokens
              g == [f EXCEPT !.tokens = t]
  <1>1. t \in {0, 4096} BY PartTyped
  <1>2. syncDefaultMaxTokens(f) = g BY DEF syncDefaultMaxTokens
  <1>3. t # 0 => isAnthropic(f) OBVIOUS
  <1>. HIDE DEF t
  <1>4. g \in S /\ g.provider = f.provider /\ g.url = f.url /\ g.adapter = f.adapter /\ g.tokens = t
    BY <1>1, TokensSet
  <1>. QED BY <1>2, <1>3, <1>4 DEF isAnthropic

\* A form without a protocol gets OpenAI's.
LEMMA DefaultTyped ==
    ASSUME NEW S, FormsOrRows(S), NEW f \in S
    PROVE  LET g == WithDefaultAdapter(f) IN
           /\ g \in S /\ g.provider = f.provider /\ g.url = f.url /\ g.tokens = f.tokens
           /\ g.adapter # None /\ (f.adapter # None => g.adapter = f.adapter)
           /\ f.adapter = None => g.adapter = "openai"
  <1>. DEFINE a == IF f.adapter = None THEN "openai" ELSE f.adapter
  <1>1. a \in Adapters /\ a # None BY PartTyped, ModelValues
  <1>2. WithDefaultAdapter(f) = [f EXCEPT !.adapter = a] BY DEF WithDefaultAdapter
  <1>3. (f.adapter # None => a = f.adapter) /\ (f.adapter = None => a = "openai") OBVIOUS
  <1>. HIDE DEF a
  <1>. QED BY <1>1, <1>2, <1>3, AdapterSet

\* A change of the provider brings its address, or asks for one.
LEMMA ProviderTyped ==
    ASSUME NEW S, FormsOrRows(S), NEW f \in S, NEW p \in Providers
    PROVE  LET g == onProviderChange(f, p) IN
           /\ g \in S /\ g.provider = p
           /\ p \in Presets => g.url = Preset(p) /\ g.adapter = None
           /\ p \notin Presets => g.url = None /\ g.adapter # None
           /\ g.tokens # 0 => isAnthropic(g)
  <1>. DEFINE q == [f EXCEPT !.provider = p]
  <1>1. q \in S /\ q.provider = p BY ProviderSet
  <1>2. CASE p \in Presets
    <2>. DEFINE r == [q EXCEPT !.url = Preset(p)]
                s == [r EXCEPT !.adapter = None]
    <2>1. Preset(p) \in Urls /\ None \in Adapters BY <1>2, ModelValues
    <2>. HIDE DEF q
    <2>2. onProviderChange(f, p) = syncDefaultMaxTokens(s)
      <3>1. [q EXCEPT !.url = Preset(p), !.adapter = None] = s OBVIOUS
      <3>. QED BY <1>2, <3>1 DEF onProviderChange, q
    <2>3. r \in S /\ r.provider = p /\ r.url = Preset(p) BY <1>1, <2>1, UrlSet
    <2>. HIDE DEF r
    <2>4. s \in S /\ s.provider = p /\ s.url = Preset(p) /\ s.adapter = None BY <2>1, <2>3, AdapterSet
    <2>. HIDE DEF s
    <2>. QED BY <1>2, <2>2, <2>4, SyncTyped
  <1>3. CASE p \notin Presets
    <2>. DEFINE r == [q EXCEPT !.url = None]
                s == WithDefaultAdapter(r)
    <2>1. onProviderChange(f, p) = syncDefaultMaxTokens(s) BY <1>3 DEF onProviderChange
    <2>. HIDE DEF q
    <2>2. r \in S /\ r.provider = p /\ r.url = None BY <1>1, UrlSet, ModelValues
    <2>. HIDE DEF r
    <2>3. s \in S /\ s.provider = p /\ s.url = None /\ s.adapter # None BY <2>2, DefaultTyped
    <2>. HIDE DEF s
    <2>. QED BY <1>3, <2>1, <2>3, SyncTyped
  <1>. QED BY <1>2, <1>3

\* However the form is changed, it stays good.
LEMMA EditedGood ==
    ASSUME GoodModel(modelForm), EditModelForm
    PROVE  GoodModel(modelForm')
  <1>. DEFINE f == modelForm
              g == modelForm'
  <1>. FormsOrRows(ModelForms) BY DEF FormsOrRows
  <1>1. f \in ModelForms BY DEF GoodModel
  <1>2. ASSUME NEW p \in Providers, g = onProviderChange(f, p) PROVE GoodModel(g)
    <2>. DEFINE h == onProviderChange(f, p)
    <2>1. /\ h \in ModelForms /\ h.provider = p
          /\ p \in Presets => h.url = Preset(p) /\ h.adapter = None
          /\ p \notin Presets => h.url = None /\ h.adapter # None
          /\ h.tokens # 0 => isAnthropic(h)
      BY <1>1, ProviderTyped
    <2>. HIDE DEF h
    <2>2. GoodModel(h) BY <2>1 DEF GoodModel, Addressed
    <2>. QED BY <1>2, <2>2 DEF h
  <1>3. ASSUME NEW a \in {"openai", "anthropic"}, f.provider \notin Presets, g = onProtocolChange(f, a)
        PROVE  GoodModel(g)
    <2>. DEFINE q == [f EXCEPT !.adapter = a]
                h == syncDefaultMaxTokens(q)
    <2>1. a \in Adapters /\ a # None BY ModelValues
    <2>2. q \in ModelForms /\ q.provider = f.provider /\ q.url = f.url /\ q.adapter = a
      BY <1>1, <2>1, AdapterSet
    <2>. HIDE DEF q
    <2>3. /\ h \in ModelForms /\ h.provider = q.provider /\ h.url = q.url /\ h.adapter = q.adapter
          /\ h.tokens # 0 => isAnthropic(h)
      BY <2>2, SyncTyped
    <2>4. g = h BY <1>3 DEF onProtocolChange, q
    <2>. HIDE DEF h
    <2>5. GoodModel(h) BY <1>3, <2>1, <2>2, <2>3 DEF GoodModel, Addressed
    <2>. QED BY <2>4, <2>5
  <1>4. ASSUME NEW u \in Addresses, f.provider \notin Presets, g = [f EXCEPT !.url = u]
        PROVE  GoodModel(g)
    <2>1. u \in Urls BY ModelValues
    <2>2. /\ g \in ModelForms /\ g.provider = f.provider /\ g.url = u /\ g.adapter = f.adapter
          /\ g.tokens = f.tokens
      BY <1>1, <1>4, <2>1, UrlSet
    <2>. QED BY <1>4, <2>2 DEF GoodModel, Addressed, isAnthropic
  <1>5. ASSUME isAnthropic(f), g = [f EXCEPT !.tokens = IF f.tokens = 0 THEN 4096 ELSE 0]
        PROVE  GoodModel(g)
    <2>. DEFINE t == IF f.tokens = 0 THEN 4096 ELSE 0
    <2>1. t \in {0, 4096} OBVIOUS
    <2>2. g = [f EXCEPT !.tokens = t] BY <1>5
    <2>. HIDE DEF t
    <2>3. g \in ModelForms /\ g.provider = f.provider /\ g.url = f.url /\ g.adapter = f.adapter
      BY <1>1, <2>1, <2>2, TokensSet
    <2>. QED BY <1>5, <2>3 DEF GoodModel, Addressed, isAnthropic
  <1>6. ASSUME g = [f EXCEPT !.key = ~f.key] PROVE GoodModel(g)
    <2>. DEFINE k == ~f.key
    <2>1. k \in BOOLEAN /\ g = [f EXCEPT !.key = k] BY <1>6
    <2>. HIDE DEF k
    <2>2. /\ g \in ModelForms /\ g.provider = f.provider /\ g.url = f.url /\ g.adapter = f.adapter
          /\ g.tokens = f.tokens
      BY <1>1, <2>1 DEF ModelForms
    <2>. QED BY <2>2 DEF GoodModel, Addressed, isAnthropic
  <1>. QED BY <1>2, <1>3, <1>4, <1>5, <1>6 DEF EditModelForm, Edit

\* The two ways into the dialog.
LEMMA OpenedModelGood ==
    ASSUME ModelInv, openModelCreate \/ openModelEdit
    PROVE  GoodModel(modelForm')
  <1>. FormsOrRows(ModelForms) BY DEF FormsOrRows
  <1>1. CASE openModelCreate
    <2>1. modelForm' = BlankForm BY <1>1 DEF openModelCreate, OpenModelForm
    <2>2. BlankForm \in ModelForms
      <3>1. "openai" \in Urls /\ None \in Urls /\ "openai" \in Providers /\ None \in Adapters
        BY ModelValues
      <3>. QED BY <3>1 DEF BlankForm, ModelForms, Preset
    <2>3. /\ BlankForm.provider = "openai" /\ BlankForm.url = Preset("openai") /\ BlankForm.tokens = 0
      BY DEF BlankForm
    <2>. QED BY <2>1, <2>2, <2>3, ModelValues DEF GoodModel, Addressed
  <1>2. CASE openModelEdit
    <2>. DEFINE f == [was |-> listed.url, provider |-> listed.provider, url |-> listed.url,
                      key |-> FALSE, adapter |-> listed.adapter, tokens |-> listed.tokens]
                g == WithDefaultAdapter(f)
    <2>1. listed \in Rows /\ Coherent(listed) BY <1>2 DEF ModelInv, openModelEdit
    <2>2. modelForm' = IF listed.provider \in Presets THEN f ELSE g
      BY <1>2 DEF openModelEdit, OpenModelForm
    <2>3. f \in ModelForms BY <2>1 DEF ModelForms, Rows
    <2>4. /\ f.provider = listed.provider /\ f.url = listed.url /\ f.adapter = listed.adapter
          /\ f.tokens = listed.tokens
      OBVIOUS
    <2>. HIDE DEF f
    <2>5. Addressed(f) /\ (f.tokens # 0 => isAnthropic(f))
      BY <2>1, <2>4 DEF Coherent, Addressed, isAnthropic
    <2>6. CASE listed.provider \in Presets
      BY <2>2, <2>3, <2>4, <2>5, <2>6 DEF GoodModel
    <2>7. CASE listed.provider \notin Presets
      <3>1. /\ g \in ModelForms /\ g.provider = f.provider /\ g.url = f.url /\ g.tokens = f.tokens
            /\ g.adapter # None /\ (f.adapter # None => g.adapter = f.adapter)
        BY <2>3, DefaultTyped
      <3>. HIDE DEF g
      <3>2. g.tokens # 0 => isAnthropic(g)
        BY <2>5, <3>1, ModelValues DEF isAnthropic
      <3>. QED BY <2>2, <2>5, <2>7, <3>1, <3>2 DEF GoodModel, Addressed
    <2>. QED BY <2>6, <2>7
  <1>. QED BY <1>1, <1>2

\* What a save sends, and what it leaves on the form.
LEMMA PayloadSendable == ASSUME NEW f, GoodModel(f) PROVE Sendable(Payload(f))
  <1>. FormsOrRows(ModelForms) BY DEF FormsOrRows
  <1>1. f \in ModelForms BY DEF GoodModel
  <1>2. CASE f.provider \in Presets
    <2>. DEFINE g == [f EXCEPT !.adapter = None]
    <2>1. /\ g \in ModelForms /\ g.provider = f.provider /\ g.url = f.url /\ g.adapter = None
          /\ g.tokens = f.tokens
      BY <1>1, AdapterSet, ModelValues
    <2>2. Payload(f) = g BY <1>2 DEF Payload
    <2>. HIDE DEF g
    <2>. QED BY <1>2, <2>1, <2>2 DEF GoodModel, Addressed, isAnthropic, Sendable
  <1>3. CASE f.provider \notin Presets
    <2>. DEFINE g == WithDefaultAdapter(f)
    <2>1. f.adapter # None BY <1>3 DEF GoodModel
    <2>2. /\ g \in ModelForms /\ g.provider = f.provider /\ g.url = f.url /\ g.adapter = f.adapter
          /\ g.tokens = f.tokens
      BY <1>1, <2>1, DefaultTyped
    <2>3. Payload(f) = g BY <1>3 DEF Payload
    <2>. HIDE DEF g
    <2>. QED BY <1>3, <2>1, <2>2, <2>3 DEF GoodModel, Addressed, isAnthropic, Sendable
  <1>. QED BY <1>2, <1>3

\* What the server makes of it.
LEMMA SentIsCoherent ==
    ASSUME NEW f, Sendable(f), f.url # None
    PROVE  RowOf(f) \in Rows /\ Coherent(RowOf(f))
  <1>. DEFINE r == RowOf(f)
  <1>1. f \in ModelForms BY DEF Sendable, GoodModel
  <1>2. /\ r.provider = f.provider /\ r.url = f.url /\ r.adapter = f.adapter /\ r.tokens = f.tokens
        /\ r \in Rows
    BY <1>1 DEF RowOf, Rows, ModelForms
  <1>. HIDE DEF r
  <1>3. Coherent(r) BY <1>2 DEF Coherent, Sendable, GoodModel, Addressed, isAnthropic
  <1>. QED BY <1>2, <1>3 DEF r

\* What another administrator makes of the row.
LEMMA OtherCoherent ==
    ASSUME ModelInv, OtherAdmin
    PROVE  row' \in Rows /\ Coherent(row')
  <1>. FormsOrRows(Rows) BY DEF FormsOrRows
  <1>1. PICK p \in Providers \ {row.provider} :
          \E u \in IF p \in Presets THEN {Preset(p)} ELSE Addresses :
             row' = [onProviderChange(row, p) EXCEPT !.url = u]
    BY DEF OtherAdmin
  <1>2. PICK u \in IF p \in Presets THEN {Preset(p)} ELSE Addresses :
             row' = [onProviderChange(row, p) EXCEPT !.url = u]
    BY <1>1
  <1>. DEFINE f == onProviderChange(row, p)
  <1>3. /\ f \in Rows /\ f.provider = p
        /\ p \in Presets => f.adapter = None
        /\ f.tokens # 0 => isAnthropic(f)
    BY ProviderTyped DEF ModelInv
  <1>4. row' = [f EXCEPT !.url = u] BY <1>2
  <1>5. u \in Urls /\ u # None
    <2>1. Preset(p) = p BY ModelValues
    <2>2. u \in Presets \cup Addresses BY <2>1
    <2>. QED BY <2>2, ModelValues
  <1>. HIDE DEF f
  <1>6. /\ row' \in Rows /\ row'.provider = p /\ row'.url = u /\ row'.adapter = f.adapter
        /\ row'.tokens = f.tokens
    BY <1>3, <1>4, <1>5, UrlSet
  <1>7. p \in Presets => u = Preset(p) BY Zenon
  <1>8. p \notin Presets => u \in Addresses BY Zenon
  <1>. QED BY <1>3, <1>5, <1>6, <1>7, <1>8 DEF Coherent, isAnthropic

LEMMA ModelStart == ModelInit => ModelInv
  <1> SUFFICES ASSUME ModelInit PROVE ModelInv OBVIOUS
  <1>1. row \in Rows /\ Coherent(row) BY DEF ModelInit
  <1>2. edits \in 0..MaxEdits /\ others \in 0..MaxOthers BY ModelFormAssumption DEF ModelInit
  <1>3. listed = None /\ modelForm = None /\ modelSaving = None /\ fetching = FALSE /\ picker = FALSE
    BY DEF ModelInit
  <1>. QED BY <1>1, <1>2, <1>3 DEF ModelInv

LEMMA ModelStep == ModelInv /\ [ModelNext]_modelVars => ModelInv'
  <1> SUFFICES ASSUME ModelInv, [ModelNext]_modelVars PROVE ModelInv' OBVIOUS
  <1>. USE DEF ModelInv
  <1>1. MaxEdits \in Nat /\ MaxOthers \in Nat BY ModelFormAssumption
  <1>2. CASE LoadModels BY <1>2 DEF LoadModels
  <1>3. CASE openModelCreate \/ openModelEdit
    <2>1. GoodModel(modelForm') BY <1>3, OpenedModelGood
    <2>2. edits' = 0 /\ UNCHANGED <<row, listed, modelSaving, fetching, picker, others>>
      BY <1>3 DEF openModelCreate, openModelEdit, OpenModelForm
    <2>. QED BY <1>1, <2>1, <2>2
  <1>4. CASE EditModelForm
    <2>1. GoodModel(modelForm') BY <1>4, EditedGood DEF EditModelForm
    <2>2. /\ edits < MaxEdits /\ edits' = edits + 1
          /\ UNCHANGED <<row, listed, modelSaving, fetching, picker, others>>
      BY <1>4 DEF EditModelForm, Edit
    <2>3. edits' \in 0..MaxEdits BY <1>1, <2>2
    <2>. QED BY <2>1, <2>2, <2>3
  <1>5. CASE closeModelForm BY <1>1, <1>5 DEF closeModelForm
  <1>6. CASE saveModel
    <2>1. Sendable(Payload(modelForm)) BY <1>6, PayloadSendable DEF saveModel
    <2>. QED BY <1>6, <2>1 DEF saveModel, Sendable
  <1>7. ASSUME modelSaving # None, modelSaving.url # None
        PROVE  StoredRow(modelSaving) \in Rows /\ Coherent(StoredRow(modelSaving))
    BY <1>7, SentIsCoherent DEF StoredRow
  <1>8. CASE ModelSaved BY <1>1, <1>7, <1>8 DEF ModelSaved
  <1>9. CASE ModelSaveFailed BY <1>7, <1>9 DEF ModelSaveFailed
  <1>10. CASE toggleModel BY <1>10 DEF toggleModel
  <1>11. CASE OtherAdmin
    <2>1. row' \in Rows /\ Coherent(row') BY <1>11, OtherCoherent
    <2>2. /\ others < MaxOthers /\ others' = others + 1
          /\ UNCHANGED <<listed, modelForm, modelSaving, fetching, picker, edits>>
      BY <1>11 DEF OtherAdmin
    <2>3. others' \in 0..MaxOthers BY <1>1, <2>2
    <2>. QED BY <2>1, <2>2, <2>3
  <1>12. CASE openModelPicker \/ pickModel BY <1>12 DEF openModelPicker, pickModel
  <1>13. ASSUME NEW ok \in BOOLEAN, CatalogueCame(ok) PROVE ModelInv'
    <2>1. picker' \in BOOLEAN BY <1>13 DEF CatalogueCame
    <2>. QED BY <1>13, <2>1 DEF CatalogueCame
  <1>14. CASE UNCHANGED modelVars BY <1>14 DEF modelVars
  <1>. QED BY <1>2, <1>3, <1>4, <1>5, <1>6, <1>8, <1>9, <1>10, <1>11, <1>12, <1>13, <1>14
         DEF ModelNext, ModelAnswered

\* Whatever is typed, changed back and saved in whatever order, and whatever
\* other administrators do, the row stored and every row sent with an address
\* go together with their provider and protocol (ModelList.vue,
\* onProviderChange, onProtocolChange and saveModel).
THEOREM ModelsAreCoherent == ModelSpec => []RowsCoherent
  <1>1. ModelInv => RowsCoherent
    <2>. SUFFICES ASSUME ModelInv, modelSaving # None, modelSaving.url # None
                  PROVE  /\ Coherent(RowOf(modelSaving))
                         /\ modelSaving.provider \notin Presets => modelSaving.adapter # None
      BY DEF RowsCoherent, ModelInv
    <2>1. Sendable(modelSaving) BY DEF ModelInv
    <2>. QED BY <2>1, SentIsCoherent DEF Sendable, GoodModel
  <1>. QED BY <1>1, ModelStart, ModelStep, PTL DEF ModelSpec

\* The catalogue comes from the address on the form (ModelList.vue,
\* fetchDisabledReason, and listUpstreamModels of the server): without a key
\* the button needs the address that was listed.
THEOREM CatalogueIsOfTheForm == ModelSpec => []FetchAsksFormAddress
  <1>1. ModelInv => FetchAsksFormAddress
    <2>. SUFFICES ASSUME modelForm # None, canFetch(modelForm),
                         Editing(modelForm) => modelForm.was = row.url
                  PROVE  Served(modelForm) = modelForm.url
      BY DEF FetchAsksFormAddress
    <2>1. CASE modelForm.key BY <2>1 DEF Served
    <2>2. CASE ~modelForm.key
      <3>1. Editing(modelForm) /\ ~upstreamAddressChanged(modelForm) BY <2>2 DEF canFetch
      <3>. QED BY <2>2, <3>1 DEF upstreamAddressChanged, Served
    <2>. QED BY <2>1, <2>2
  <1>. QED BY <1>1, ModelStart, ModelStep, PTL DEF ModelSpec

LEMMA RuleTyped == RuleInv => RuleTypeOK
  BY DEF RuleInv

LEMMA ModelTyped == ModelInv => ModelTypeOK
  <1> SUFFICES ASSUME ModelInv PROVE ModelTypeOK OBVIOUS
  <1>1. ASSUME NEW f, GoodModel(f)
        PROVE  /\ f.provider \in Providers /\ f.url \in Urls /\ f.adapter \in Adapters
               /\ f.key \in BOOLEAN /\ f.was \in Urls
    BY <1>1 DEF GoodModel, ModelForms
  <1>. QED BY <1>1 DEF ModelInv, Sendable, ModelTypeOK

(***************************************************************************)
(* What the expressions of the pattern builder find, in any text.  Their   *)
(* matches are computed by functions over the atoms and over the           *)
(* repetitions, so the proofs are by induction; the induction theorems of  *)
(* the library take an operator, and this one takes a set.                 *)
(***************************************************************************)
LEMMA NatInd ==
    ASSUME NEW S, S \subseteq Nat, 0 \in S, \A n \in S : n + 1 \in S
    PROVE  S = Nat
  <1>. DEFINE T == Nat \ S
              R == OpToRel(<, Nat)
  <1>1. SUFFICES ASSUME T # {} PROVE FALSE OBVIOUS
  <1>2. IsWellFoundedOn(R, Nat) BY NatLessThanWellFounded
  <1>3. PICK x \in T : \A y \in T : ~(<<y, x>> \in R)
    <2>1. T \subseteq Nat OBVIOUS
    <2>. HIDE DEF T, R
    <2>. QED BY <1>1, <1>2, <2>1, WFMin
  <1>4. \A y \in T : ~(y < x)
    <2> SUFFICES ASSUME NEW y \in T, y < x PROVE FALSE OBVIOUS
    <2>1. <<y, x>> \in R BY DEF OpToRel
    <2>. QED BY <1>3, <2>1
  <1>5. x \in Nat /\ x \notin S BY <1>3
  <1>6. x # 0 /\ x - 1 \in Nat /\ x - 1 \notin T BY <1>4, <1>5
  <1>7. x - 1 \in S BY <1>6
  <1>8. x - 1 + 1 = x BY <1>5
  <1>. QED BY <1>5, <1>7, <1>8

\* The function that Reached chooses exists: it is built on 0..n for each n.
ReachedBy(S, hops, n, f) ==
    f = [k \in 0..n |-> IF k = 0 THEN S ELSE Onward(hops[k], f[k - 1])]

\* That function exists, by induction on n: a longer one extends a shorter.
LEMMA ReachedExists ==
    ASSUME NEW S, NEW hops, NEW n \in Nat
    PROVE  \E f : ReachedBy(S, hops, n, f)
  <1>. DEFINE D == {m \in Nat : \E f : ReachedBy(S, hops, m, f)}
  <1>1. 0 \in D
    <2>. DEFINE f == [k \in 0..0 |-> S]
    <2>1. ReachedBy(S, hops, 0, f) BY DEF ReachedBy
    <2>. QED BY <2>1
  <1>2. ASSUME NEW m \in D PROVE m + 1 \in D
    <2>1. PICK f : ReachedBy(S, hops, m, f) OBVIOUS
    <2>. DEFINE g == [k \in 0..m + 1 |->
                         IF k = m + 1 THEN Onward(hops[k], f[m]) ELSE f[k]]
    <2>2. ASSUME NEW k \in 0..m + 1
          PROVE  g[k] = IF k = 0 THEN S ELSE Onward(hops[k], g[k - 1])
      <3>1. CASE k = 0
        <4>1. g[k] = f[k] BY <3>1
        <4>2. f[k] = S BY <2>1, <3>1 DEF ReachedBy
        <4>. QED BY <3>1, <4>1, <4>2
      <3>2. CASE k = m + 1
        <4>1. g[k - 1] = f[m] BY <3>2
        <4>. QED BY <3>2, <4>1
      <3>3. CASE k \in 1..m
        <4>1. g[k] = f[k] /\ g[k - 1] = f[k - 1] BY <3>3
        <4>2. f[k] = Onward(hops[k], f[k - 1]) BY <2>1, <3>3 DEF ReachedBy
        <4>. QED BY <3>3, <4>1, <4>2
      <3>. QED BY <3>1, <3>2, <3>3
    <2>. HIDE DEF g
    <2>3. ReachedBy(S, hops, m + 1, g) BY <2>2 DEF ReachedBy, g
    <2>. QED BY <2>3
  <1>. HIDE DEF D
  <1>3. D = Nat BY <1>1, <1>2, NatInd DEF D
  <1>. QED BY <1>3 DEF D

\* What Reached computes, step by step.
LEMMA ReachedIs ==
    ASSUME NEW S, NEW hops, NEW n \in Nat
    PROVE  /\ Reached(S, hops, n)[0] = S
           /\ \A k \in 0..n - 1 : Reached(S, hops, n)[k + 1]
                                    = Onward(hops[k + 1], Reached(S, hops, n)[k])
  <1>. DEFINE f == Reached(S, hops, n)
  <1>1. f = CHOOSE g : ReachedBy(S, hops, n, g) BY DEF Reached, ReachedBy
  <1>2. ReachedBy(S, hops, n, f) BY <1>1, ReachedExists
  <1>. HIDE DEF f
  <1>3. ASSUME NEW k \in 0..n
        PROVE  f[k] = IF k = 0 THEN S ELSE Onward(hops[k], f[k - 1])
    <2>. DEFINE e(i) == IF i = 0 THEN S ELSE Onward(hops[i], f[i - 1])
    <2>1. f = [i \in 0..n |-> e(i)] BY <1>2 DEF ReachedBy
    <2>. HIDE DEF e
    <2>2. f[k] = e(k) BY <2>1
    <2>. QED BY <2>2 DEF e
  <1>4. f[0] = S
    <2>1. 0 \in 0..n OBVIOUS
    <2>. QED BY <1>3, <2>1
  <1>5. ASSUME NEW k \in 0..n - 1 PROVE f[k + 1] = Onward(hops[k + 1], f[k])
    <2>1. k + 1 \in 0..n /\ k + 1 # 0 /\ k + 1 - 1 = k OBVIOUS
    <2>2. f[k + 1] = Onward(hops[k + 1], f[k + 1 - 1]) BY <1>3, <2>1
    <2>. QED BY <2>1, <2>2
  <1>. QED BY <1>4, <1>5 DEF f

(***************************************************************************)
(* Texts and atoms.                                                        *)
(***************************************************************************)
\* Every character is a string; those the model names are listed, because the
\* provers take no literal for a member of STRING.
Char == STRING \cup AsciiWord \cup CJK \cup Space

Class(chars, lo, hi) == OneOf(chars, lo, hi, FALSE)

Atom ==
    {Edge} \cup {Lit(c) : c \in Char}
    \cup {Class(chars, lo, hi) : chars \in SUBSET AsciiWord, lo \in Nat, hi \in Nat}

\* The characters i, ..., i + n - 1 of the text are all from chars.
Run(t, i, n, chars) == \A k \in i..i + n - 1 : At(t, k, chars)

\* A run of n + 1 characters is one of n and one character more.
LEMMA RunGrows ==
    ASSUME NEW t, NEW i \in Int, NEW n \in Nat, NEW chars
    PROVE  /\ Run(t, i, 0, chars)
           /\ Run(t, i, n + 1, chars) <=> Run(t, i, n, chars) /\ At(t, i + n, chars)
  <1>1. i..i + 0 - 1 = {} /\ i..i + (n + 1) - 1 = (i..i + n - 1) \cup {i + n} OBVIOUS
  <1>. QED BY <1>1 DEF Run

\* A class of characters is read one by one: after n of them stands the text's
\* n-th next character, if all before it are from the class.
LEMMA ClassReads ==
    ASSUME NEW t \in Seq(Char), NEW i \in Positions(t), NEW ci,
           NEW chars, NEW lo \in Nat, NEW hi \in Nat
    PROVE  \A e : e \in After(Class(chars, lo, hi), t, i, ci)
                    <=> \E n \in lo..hi : Run(t, i, n, chars) /\ e = i + n
  <1>. DEFINE a == Class(chars, lo, hi)
              hops == [n \in 1..hi |-> [k \in Positions(t) |-> OneOfAfter(a, t, k)]]
              reach == Reached({i}, hops, hi)
              P(n) == reach[n] = IF Run(t, i, n, chars) THEN {i + n} ELSE {}
              D == {n \in Nat : n <= hi => P(n)}
  <1>1. After(a, t, i, ci) = UNION {reach[n] : n \in lo..hi}
    <2>1. a.atom = "class" /\ a.lo = lo /\ a.hi = hi BY DEF Class, OneOf
    <2>. QED BY <2>1 DEF After
  <1>2. \A k \in Positions(t) : OneOfAfter(a, t, k) = IF At(t, k, chars) THEN {k + 1} ELSE {}
    BY DEF OneOfAfter, Class, OneOf
  <1>4. \A k \in 0..hi - 1 : hops[k + 1] = [j \in Positions(t) |-> OneOfAfter(a, t, j)] OBVIOUS
  <1>. HIDE DEF hops, a
  <1>3. reach[0] = {i} /\ \A k \in 0..hi - 1 : reach[k + 1] = Onward(hops[k + 1], reach[k])
    BY ReachedIs
  <1>. HIDE DEF reach
  <1>5. P(0)
    <2>1. i \in Int /\ i + 0 = i /\ i..i + 0 - 1 = {} BY DEF Positions
    <2>2. Run(t, i, 0, chars) BY <2>1 DEF Run
    <2>. QED BY <1>3, <2>1, <2>2
  <1>6. ASSUME NEW n \in Nat, n + 1 <= hi, P(n) PROVE P(n + 1)
    <2>2. n \in 0..hi - 1 /\ reach[n] = IF Run(t, i, n, chars) THEN {i + n} ELSE {} BY <1>6
    <2>3. reach[n + 1] = Onward(hops[n + 1], reach[n]) BY <1>3, <2>2
    <2>4. Run(t, i, n + 1, chars) <=> Run(t, i, n, chars) /\ At(t, i + n, chars)
      BY RunGrows DEF Positions
    <2>5. CASE ~Run(t, i, n, chars) BY <2>2, <2>3, <2>4, <2>5 DEF Onward
    <2>6. CASE Run(t, i, n, chars)
      <3>1. i + n \in Positions(t)
        <4>1. CASE n = 0 BY <4>1 DEF Positions
        <4>2. CASE n # 0
          <5>1. At(t, i + n - 1, chars) BY <2>6, <4>2 DEF Run, Positions
          <5>. QED BY <5>1 DEF At, Positions
        <4>. QED BY <4>1, <4>2
      <3>2. reach[n + 1] = hops[n + 1][i + n] BY <2>2, <2>3, <2>6 DEF Onward
      <3>3. hops[n + 1][i + n] = IF At(t, i + n, chars) THEN {i + n + 1} ELSE {}
        BY <1>2, <1>4, <2>2, <3>1
      <3>4. i + (n + 1) = i + n + 1 BY DEF Positions
      <3>. HIDE DEF D
      <3>5. reach[n + 1] = IF Run(t, i, n + 1, chars) THEN {i + n + 1} ELSE {}
        BY <2>4, <2>6, <3>2, <3>3
      <3>. QED BY <3>4, <3>5
    <2>. QED BY <2>5, <2>6
  <1>. HIDE DEF P
  <1>7. D = Nat
    <2>1. 0 \in D BY <1>5
    <2>2. ASSUME NEW n \in D PROVE n + 1 \in D BY <1>6
    <2>. HIDE DEF D
    <2>. QED BY <2>1, <2>2, NatInd DEF D
  <1>8. \A n \in lo..hi : P(n) BY <1>7
  <1>9. \A n \in lo..hi : reach[n] = IF Run(t, i, n, chars) THEN {i + n} ELSE {}
    BY <1>8 DEF P
  <1>. HIDE DEF D
  <1>. QED BY <1>1, <1>9 DEF a

\* An atom leads from a position of the text to positions of the text.
LEMMA AtomInText ==
    ASSUME NEW t \in Seq(Char), NEW i \in Positions(t), NEW ci, NEW a \in Atom
    PROVE  After(a, t, i, ci) \subseteq Positions(t)
  <1>1. CASE a = Edge BY <1>1 DEF After, Edge
  <1>2. CASE \E c : a = Lit(c) BY <1>2 DEF After, Lit, Positions
  <1>3. ASSUME NEW chars, NEW lo \in Nat, NEW hi \in Nat, a = Class(chars, lo, hi)
        PROVE  After(a, t, i, ci) \subseteq Positions(t)
    <2>1. SUFFICES ASSUME NEW n \in lo..hi, Run(t, i, n, chars) PROVE i + n \in Positions(t)
      BY <1>3, ClassReads
    <2>3. CASE n = 0 BY <2>3 DEF Positions
    <2>4. CASE n # 0
      <3>1. At(t, i + n - 1, chars) BY <2>1, <2>4 DEF Run, Positions
      <3>. QED BY <3>1 DEF At, Positions
    <2>. QED BY <2>3, <2>4
  <1>. QED BY <1>1, <1>2, <1>3 DEF Atom

(***************************************************************************)
(* A pattern is read atom by atom.                                         *)
(***************************************************************************)
Hops(atoms, t, ci) == [k \in DOMAIN atoms |-> [j \in Positions(t) |-> After(atoms[k], t, j, ci)]]

\* The positions after the first k atoms of a match that starts at i.
EndsUpTo(atoms, t, i, ci, k) == Reached({i}, Hops(atoms, t, ci), Len(atoms))[k]

AfterAll(a, t, S, ci) == UNION {After(a, t, j, ci) : j \in S}

\* Each atom leads on from the positions after the atoms before it, and none
\* leads out of the text.
LEMMA AtomByAtom ==
    ASSUME NEW t \in Seq(Char), NEW i \in Positions(t), NEW ci, NEW atoms \in Seq(Atom)
    PROVE  /\ EndsUpTo(atoms, t, i, ci, 0) = {i}
           /\ \A k \in 0..Len(atoms) - 1 :
                EndsUpTo(atoms, t, i, ci, k + 1)
                  = AfterAll(atoms[k + 1], t, EndsUpTo(atoms, t, i, ci, k), ci)
           /\ \A k \in 0..Len(atoms) : EndsUpTo(atoms, t, i, ci, k) \subseteq Positions(t)
           /\ Ends(atoms, t, i, ci) = EndsUpTo(atoms, t, i, ci, Len(atoms))
  <1>. DEFINE n == Len(atoms)
              hops == Hops(atoms, t, ci)
              reach == Reached({i}, hops, n)
              Reads(k) == reach[k + 1] = AfterAll(atoms[k + 1], t, reach[k], ci)
              D == {k \in Nat : k <= n => reach[k] \subseteq Positions(t)}
  <1>0. n \in Nat /\ \A k \in 0..n - 1 : k + 1 \in DOMAIN atoms /\ atoms[k + 1] \in Atom
    OBVIOUS
  <1>1. reach[0] = {i} /\ \A k \in 0..n - 1 : reach[k + 1] = Onward(hops[k + 1], reach[k])
    BY <1>0, ReachedIs
  <1>2. \A k \in 0..n - 1 : hops[k + 1] = [j \in Positions(t) |-> After(atoms[k + 1], t, j, ci)]
    BY <1>0 DEF Hops
  <1>3. Ends(atoms, t, i, ci) = reach[n] BY DEF Ends, Hops
  <1>. HIDE DEF n, hops, reach
  <1>4. ASSUME NEW k \in 0..n - 1, reach[k] \subseteq Positions(t) PROVE Reads(k)
    <2>1. reach[k + 1] = UNION {hops[k + 1][j] : j \in reach[k]} BY <1>1 DEF Onward
    <2>2. \A j \in reach[k] : hops[k + 1][j] = After(atoms[k + 1], t, j, ci) BY <1>2, <1>4
    <2>. QED BY <2>1, <2>2 DEF AfterAll
  <1>5. 0 \in D BY <1>1
  <1>6. ASSUME NEW k \in D PROVE k + 1 \in D
    <2>1. SUFFICES ASSUME k + 1 <= n, NEW j \in reach[k + 1] PROVE j \in Positions(t) OBVIOUS
    <2>2. k \in 0..n - 1 /\ reach[k] \subseteq Positions(t) BY <1>0, <2>1
    <2>3. PICK h \in reach[k] : j \in After(atoms[k + 1], t, h, ci) BY <1>4, <2>1, <2>2 DEF AfterAll
    <2>4. atoms[k + 1] \in Atom /\ h \in Positions(t) BY <1>0, <2>2
    <2>. QED BY <2>3, <2>4, AtomInText
  <1>7. D = Nat
    <2>. HIDE DEF D
    <2>. QED BY <1>5, <1>6, NatInd DEF D
  <1>8. \A k \in 0..n : reach[k] \subseteq Positions(t) BY <1>0, <1>7
  <1>9. \A k \in 0..n - 1 : Reads(k)
    <2>1. ASSUME NEW k \in 0..n - 1 PROVE k \in 0..n BY <1>0
    <2>. QED BY <1>4, <1>8, <2>1
  <1>. HIDE DEF D
  <1>. QED BY <1>1, <1>3, <1>8, <1>9 DEF EndsUpTo, n, hops, reach

\* Two sequences of atoms are read one after the other.
LEMMA ReadInTurn ==
    ASSUME NEW t \in Seq(Char), NEW i \in Positions(t), NEW ci,
           NEW A \in Seq(Atom), NEW B \in Seq(Atom)
    PROVE  \A e : e \in Ends(A \o B, t, i, ci)
                    <=> \E j \in Ends(A, t, i, ci) : e \in Ends(B, t, j, ci)
  <1>. DEFINE n == Len(A)
              m == Len(B)
              L == A \o B
              InA(k) == EndsUpTo(L, t, i, ci, k) = EndsUpTo(A, t, i, ci, k)
              InB(k) == \A e : e \in EndsUpTo(L, t, i, ci, n + k)
                                <=> \E j \in Ends(A, t, i, ci) : e \in EndsUpTo(B, t, j, ci, k)
              D == {k \in Nat : k <= n => InA(k)}
              E == {k \in Nat : k <= m => InB(k)}
  <1>1. /\ n \in Nat /\ m \in Nat /\ L \in Seq(Atom) /\ Len(L) = n + m
        /\ \A k \in 0..n - 1 : L[k + 1] = A[k + 1]
        /\ \A k \in 0..m - 1 : L[n + k + 1] = B[k + 1]
    OBVIOUS
  <1>. HIDE DEF n, m, L, InA, InB
  <1>2. /\ EndsUpTo(A, t, i, ci, 0) = {i}
        /\ \A k \in 0..n - 1 : EndsUpTo(A, t, i, ci, k + 1)
              = AfterAll(A[k + 1], t, EndsUpTo(A, t, i, ci, k), ci)
        /\ Ends(A, t, i, ci) = EndsUpTo(A, t, i, ci, n)
        /\ Ends(A, t, i, ci) \subseteq Positions(t)
    <2>1. n \in 0..Len(A) BY <1>1 DEF n
    <2>. QED BY <2>1, AtomByAtom DEF n
  <1>3. \A j \in Ends(A, t, i, ci) :
          /\ EndsUpTo(B, t, j, ci, 0) = {j}
          /\ \A k \in 0..m - 1 : EndsUpTo(B, t, j, ci, k + 1)
                = AfterAll(B[k + 1], t, EndsUpTo(B, t, j, ci, k), ci)
          /\ Ends(B, t, j, ci) = EndsUpTo(B, t, j, ci, m)
    BY <1>2, AtomByAtom DEF m
  <1>4. /\ EndsUpTo(L, t, i, ci, 0) = {i}
        /\ \A k \in 0..n + m - 1 : EndsUpTo(L, t, i, ci, k + 1)
              = AfterAll(L[k + 1], t, EndsUpTo(L, t, i, ci, k), ci)
        /\ Ends(L, t, i, ci) = EndsUpTo(L, t, i, ci, n + m)
    <2>1. L \in Seq(Atom) BY <1>1
    <2>2. /\ EndsUpTo(L, t, i, ci, 0) = {i}
          /\ \A k \in 0..Len(L) - 1 : EndsUpTo(L, t, i, ci, k + 1)
                = AfterAll(L[k + 1], t, EndsUpTo(L, t, i, ci, k), ci)
          /\ Ends(L, t, i, ci) = EndsUpTo(L, t, i, ci, Len(L))
      BY <2>1, AtomByAtom
    <2>3. Len(L) = n + m /\ 0..Len(L) - 1 = 0..n + m - 1 BY <1>1
    <2>. QED BY <2>2, <2>3, Zenon
  <1>5. InA(n)
    <2>1. InA(0) BY <1>2, <1>4 DEF InA
    <2>2. ASSUME NEW k \in Nat, k + 1 <= n, InA(k) PROVE InA(k + 1)
      <3>1. k \in 0..n - 1 /\ k \in 0..n + m - 1 /\ L[k + 1] = A[k + 1] BY <1>1, <2>2
      <3>. QED BY <1>2, <1>4, <2>2, <3>1 DEF InA
    <2>3. D = Nat
      <3>1. 0 \in D BY <2>1
      <3>2. ASSUME NEW k \in D PROVE k + 1 \in D BY <1>1, <2>2
      <3>. HIDE DEF D
      <3>. QED BY <3>1, <3>2, NatInd DEF D
    <2>. QED BY <1>1, <2>3
  <1>6. InB(m)
    <2>1. InB(0)
      <3>1. n + 0 = n BY <1>1
      <3>2. EndsUpTo(L, t, i, ci, n + 0) = Ends(A, t, i, ci) BY <1>2, <1>5, <3>1 DEF InA
      <3>. QED BY <1>3, <3>2 DEF InB
    <2>2. ASSUME NEW k \in Nat, k + 1 <= m, InB(k) PROVE InB(k + 1)
      <3>1. k \in 0..m - 1 /\ n + k \in 0..n + m - 1 /\ n + (k + 1) = n + k + 1
            /\ L[n + k + 1] = B[k + 1]
        <4>1. k \in 0..m - 1 BY <1>1, <2>2
        <4>2. L[n + k + 1] = B[k + 1] BY <1>1, <4>1
        <4>3. n + k \in 0..n + m - 1 /\ n + (k + 1) = n + k + 1 BY <1>1, <4>1
        <4>. QED BY <4>1, <4>2, <4>3
      <3>2. EndsUpTo(L, t, i, ci, n + (k + 1))
              = AfterAll(B[k + 1], t, EndsUpTo(L, t, i, ci, n + k), ci)
        BY <1>4, <3>1
      <3>3. \A j \in Ends(A, t, i, ci) : EndsUpTo(B, t, j, ci, k + 1)
                = AfterAll(B[k + 1], t, EndsUpTo(B, t, j, ci, k), ci)
        BY <1>3, <3>1
      <3>. QED BY <2>2, <3>2, <3>3 DEF InB, AfterAll
    <2>3. E = Nat
      <3>1. 0 \in E BY <2>1
      <3>2. ASSUME NEW k \in E PROVE k + 1 \in E BY <1>1, <2>2
      <3>. HIDE DEF E
      <3>. QED BY <3>1, <3>2, NatInd DEF E
    <2>. QED BY <1>1, <2>3
  <1>7. \A e : e \in Ends(L, t, i, ci) <=> \E j \in Ends(A, t, i, ci) : e \in Ends(B, t, j, ci)
    BY <1>3, <1>4, <1>6 DEF InB
  <1>. QED BY <1>7 DEF L

\* A match ends in the text.
LEMMA EndsInText ==
    ASSUME NEW t \in Seq(Char), NEW i \in Positions(t), NEW ci, NEW atoms \in Seq(Atom)
    PROVE  Ends(atoms, t, i, ci) \subseteq Positions(t)
  <1>1. Len(atoms) \in 0..Len(atoms) OBVIOUS
  <1>. QED BY <1>1, AtomByAtom

\* A pattern of one atom.
LEMMA ReadOne ==
    ASSUME NEW t \in Seq(Char), NEW i \in Positions(t), NEW ci, NEW a \in Atom
    PROVE  Ends(<<a>>, t, i, ci) = After(a, t, i, ci)
  <1>. DEFINE L == <<a>>
  <1>1. L \in Seq(Atom) /\ Len(L) = 1 /\ L[0 + 1] = a /\ 0 \in 0..Len(L) - 1 /\ 0 + 1 = 1 OBVIOUS
  <1>. HIDE DEF L
  <1>2. EndsUpTo(L, t, i, ci, 0) = {i}
        /\ EndsUpTo(L, t, i, ci, 0 + 1)
              = AfterAll(L[0 + 1], t, EndsUpTo(L, t, i, ci, 0), ci)
        /\ Ends(L, t, i, ci) = EndsUpTo(L, t, i, ci, Len(L))
    <2>1. L \in Seq(Atom) /\ 0 \in 0..Len(L) - 1 BY <1>1
    <2>. QED BY <2>1, AtomByAtom
  <1>3. Ends(L, t, i, ci) = After(a, t, i, ci) BY <1>1, <1>2 DEF AfterAll
  <1>. QED BY <1>3 DEF L

(***************************************************************************)
(* Words are read letter by letter, and the edge of a word is where no     *)
(* other word character touches it.                                        *)
(***************************************************************************)
Same(c, d, ci) == c = d \/ (ci /\ Lower(c) = Lower(d))

\* The text has the characters of p, or of its first n, from position i on.
ReadsUpTo(p, t, i, ci, n) == \A k \in 1..n : i + k - 1 \in DOMAIN t /\ Same(t[i + k - 1], p[k], ci)
Reads(p, t, i, ci) == ReadsUpTo(p, t, i, ci, Len(p))

Boundary(t, i) == At(t, i - 1, AsciiWord) # At(t, i, AsciiWord)

\* A literal text is a pattern of one atom for each character.
LEMMA LiteralAtoms ==
    ASSUME NEW p \in Seq(Char)
    PROVE  /\ Literal(p) \in Seq(Atom) /\ Len(Literal(p)) = Len(p)
           /\ \A k \in 1..Len(p) : Literal(p)[k] = Lit(p[k])
  <1>1. \A c \in Char : Lit(c) \in Atom BY DEF Atom
  <1>2. DOMAIN p = 1..Len(p) /\ Len(p) \in Nat /\ \A k \in 1..Len(p) : p[k] \in Char OBVIOUS
  <1>3. Literal(p) = [k \in 1..Len(p) |-> Lit(p[k])] BY <1>2 DEF Literal
  <1>4. Literal(p) \in [1..Len(p) -> Atom] BY <1>1, <1>2, <1>3
  <1>5. \A k \in 1..Len(p) : Literal(p)[k] = Lit(p[k]) BY <1>3
  <1>. DEFINE f == Literal(p)
              n == Len(p)
  <1>6. n \in Nat /\ f \in [1..n -> Atom] BY <1>2, <1>4
  <1>. HIDE DEF f, n
  <1>7. f \in Seq(Atom) /\ Len(f) = n BY <1>6
  <1>. QED BY <1>5, <1>7 DEF f, n

\* It matches where the text has its characters, and ends after them.
LEMMA LiteralReads ==
    ASSUME NEW t \in Seq(Char), NEW i \in Positions(t), NEW ci \in BOOLEAN, NEW p \in Seq(Char)
    PROVE  \A e : e \in Ends(Literal(p), t, i, ci) <=> Reads(p, t, i, ci) /\ e = i + Len(p)
  <1>. DEFINE n == Len(p)
              A == Literal(p)
              P(k) == \A e : e \in EndsUpTo(A, t, i, ci, k)
                                <=> ReadsUpTo(p, t, i, ci, k) /\ e = i + k
              D == {k \in Nat : k <= n => P(k)}
  <1>1. n \in Nat /\ Len(A) = n /\ \A k \in 0..n - 1 : A[k + 1] = Lit(p[k + 1]) BY LiteralAtoms
  <1>2. A \in Seq(Atom) BY LiteralAtoms
  <1>. HIDE DEF A
  <1>3. /\ EndsUpTo(A, t, i, ci, 0) = {i}
        /\ \A k \in 0..Len(A) - 1 : EndsUpTo(A, t, i, ci, k + 1)
              = AfterAll(A[k + 1], t, EndsUpTo(A, t, i, ci, k), ci)
        /\ Ends(A, t, i, ci) = EndsUpTo(A, t, i, ci, Len(A))
    BY <1>2, AtomByAtom
  <1>. HIDE DEF n
  <1>4. i \in Nat BY DEF Positions
  <1>5. P(0)
    <2>1. ReadsUpTo(p, t, i, ci, 0) /\ i + 0 = i BY <1>4 DEF ReadsUpTo
    <2>. QED BY <1>3, <2>1
  <1>6. ASSUME NEW k \in Nat, k + 1 <= n, P(k) PROVE P(k + 1)
    <2>1. k \in 0..n - 1 BY <1>1, <1>6
    <2>2. EndsUpTo(A, t, i, ci, k + 1) = AfterAll(Lit(p[k + 1]), t, EndsUpTo(A, t, i, ci, k), ci)
      BY <1>1, <1>3, <2>1
    <2>3. ReadsUpTo(p, t, i, ci, k + 1)
            <=> /\ ReadsUpTo(p, t, i, ci, k)
                /\ i + k \in DOMAIN t /\ Same(t[i + k], p[k + 1], ci)
      <3>1. 1..k + 1 = (1..k) \cup {k + 1} /\ i + (k + 1) - 1 = i + k BY <1>4
      <3>. QED BY <3>1 DEF ReadsUpTo
    <2>4. \A j, e : e \in After(Lit(p[k + 1]), t, j, ci)
                      <=> j \in DOMAIN t /\ Same(t[j], p[k + 1], ci) /\ e = j + 1
      BY DEF After, Lit, Same
    <2>5. i + k + 1 = i + (k + 1) BY <1>4
    <2>6. ASSUME NEW e
          PROVE  e \in EndsUpTo(A, t, i, ci, k + 1)
                   <=> ReadsUpTo(p, t, i, ci, k + 1) /\ e = i + (k + 1)
      <3>1. e \in EndsUpTo(A, t, i, ci, k + 1)
              <=> \E j \in EndsUpTo(A, t, i, ci, k) : e \in After(Lit(p[k + 1]), t, j, ci)
        BY <2>2 DEF AfterAll
      <3>2. \A j : j \in EndsUpTo(A, t, i, ci, k) <=> ReadsUpTo(p, t, i, ci, k) /\ j = i + k
        BY <1>6
      <3>3. e \in EndsUpTo(A, t, i, ci, k + 1)
              <=> ReadsUpTo(p, t, i, ci, k) /\ e \in After(Lit(p[k + 1]), t, i + k, ci)
        BY <3>1, <3>2
      <3>. QED BY <2>3, <2>4, <2>5, <3>3
    <2>. QED BY <2>6
  <1>. HIDE DEF P
  <1>7. D = Nat
    <2>1. 0 \in D BY <1>5
    <2>2. ASSUME NEW k \in D PROVE k + 1 \in D BY <1>1, <1>6
    <2>. HIDE DEF D
    <2>. QED BY <2>1, <2>2, NatInd DEF D
  <1>8. P(n) BY <1>1, <1>7
  <1>. QED BY <1>1, <1>3, <1>8 DEF P, A, n, Reads

\* A pattern between edges finds what it finds without them, where both ends
\* are the edges of words.
LEMMA WrappedFinds ==
    ASSUME NEW t \in Seq(Char), NEW core \in Seq(Atom), NEW ci,
           NEW lead \in BOOLEAN, NEW tail \in BOOLEAN
    PROVE  Finds([atoms |-> wrapWord(core, lead, tail), ignoreCase |-> ci], t)
             <=> \E i \in Positions(t) : \E e \in Ends(core, t, i, ci) :
                    (lead => Boundary(t, i)) /\ (tail => Boundary(t, e))
  <1>. DEFINE A == IF lead THEN <<Edge>> ELSE <<>>
              B == IF tail THEN <<Edge>> ELSE <<>>
  <1>1. Edge \in Atom BY DEF Atom
  <1>2. A \in Seq(Atom) /\ B \in Seq(Atom) /\ A \o core \in Seq(Atom) BY <1>1
  <1>3. wrapWord(core, lead, tail) = (A \o core) \o B BY DEF wrapWord
  <1>4. ASSUME NEW b \in BOOLEAN, NEW i \in Positions(t)
        PROVE  \A e : e \in Ends(IF b THEN <<Edge>> ELSE <<>>, t, i, ci)
                        <=> e = i /\ (b => Boundary(t, i))
    <2>1. CASE b
      <3>1. Ends(<<Edge>>, t, i, ci) = After(Edge, t, i, ci) BY <1>1, ReadOne
      <3>2. After(Edge, t, i, ci) = IF Boundary(t, i) THEN {i} ELSE {}
        BY DEF After, Edge, Boundary
      <3>. QED BY <2>1, <3>1, <3>2
    <2>2. CASE ~b
      <3>. DEFINE L == <<>>
      <3>1. L \in Seq(Atom) /\ Len(L) = 0 OBVIOUS
      <3>. HIDE DEF L
      <3>2. EndsUpTo(L, t, i, ci, 0) = {i} /\ Ends(L, t, i, ci) = EndsUpTo(L, t, i, ci, Len(L))
        <4>1. L \in Seq(Atom) BY <3>1
        <4>. QED BY <4>1, AtomByAtom
      <3>3. Ends(L, t, i, ci) = {i} BY <3>1, <3>2
      <3>. QED BY <2>2, <3>3 DEF L
    <2>. QED BY <2>1, <2>2
  <1>5. \A i \in Positions(t) : \A e : e \in Ends(A, t, i, ci) <=> e = i /\ (lead => Boundary(t, i))
    BY <1>4
  <1>6. \A i \in Positions(t) : \A e : e \in Ends(B, t, i, ci) <=> e = i /\ (tail => Boundary(t, i))
    BY <1>4
  <1>. HIDE DEF A, B
  <1>7. ASSUME NEW i \in Positions(t)
        PROVE  \A e : e \in Ends((A \o core) \o B, t, i, ci)
                  <=> /\ e \in Ends(core, t, i, ci)
                      /\ (lead => Boundary(t, i)) /\ (tail => Boundary(t, e))
    <2>1. \A e : e \in Ends(A \o core, t, i, ci)
                   <=> e \in Ends(core, t, i, ci) /\ (lead => Boundary(t, i))
      <3>1. \A e : e \in Ends(A \o core, t, i, ci)
                     <=> \E j \in Ends(A, t, i, ci) : e \in Ends(core, t, j, ci)
        BY <1>2, ReadInTurn
      <3>. QED BY <1>5, <3>1
    <2>2. \A e : e \in Ends((A \o core) \o B, t, i, ci)
                   <=> \E j \in Ends(A \o core, t, i, ci) : e \in Ends(B, t, j, ci)
      BY <1>2, ReadInTurn
    <2>3. Ends(core, t, i, ci) \subseteq Positions(t) BY EndsInText
    <2>. QED BY <1>6, <2>1, <2>2, <2>3
  <1>. QED BY <1>3, <1>7 DEF Finds

\* Case does not make a word character of another.
LEMMA SameKeepsWord ==
    ASSUME NEW c, NEW d, NEW ci, Same(c, d, ci)
    PROVE  c \in AsciiWord <=> d \in AsciiWord
  <1>1. \A x : (x \in AsciiWord <=> Lower(x) \in {"1", "5", "a", "b", "x"})
    BY DEF Lower, AsciiWord, Digit
  <1>. QED BY <1>1 DEF Same

\* No word character stands right before position i or at position e.
Alone(t, i, e) == ~At(t, i - 1, AsciiWord) /\ ~At(t, e, AsciiWord)

\* Around word characters the edges are where no others touch them.
LEMMA WordStandsAlone ==
    ASSUME NEW t, NEW i \in Int, NEW e \in Int,
           At(t, i, AsciiWord), At(t, e - 1, AsciiWord)
    PROVE  Boundary(t, i) /\ Boundary(t, e) <=> Alone(t, i, e)
  BY DEF Boundary, Alone

\* A number of lo to hi digits matches a run of that many digits.
LEMMA DigitRuns ==
    ASSUME NEW t \in Seq(Char), NEW lo \in Nat, NEW hi \in Nat, NEW ci
    PROVE  /\ Digits(lo, hi) \in Atom
           /\ \A i \in Positions(t) : \A e : e \in After(Digits(lo, hi), t, i, ci)
                                <=> \E n \in lo..hi : Run(t, i, n, Digit) /\ e = i + n
  <1>1. Digits(lo, hi) = Class(Digit, lo, hi) BY DEF Digits, Class
  <1>2. Digit \in SUBSET AsciiWord BY DEF AsciiWord
  <1>3. Digits(lo, hi) \in Atom BY <1>1, <1>2 DEF Atom
  <1>4. \A i \in Positions(t) : \A e : e \in After(Class(Digit, lo, hi), t, i, ci)
                                <=> \E n \in lo..hi : Run(t, i, n, Digit) /\ e = i + n
    BY ClassReads
  <1>. QED BY <1>1, <1>3, <1>4

\* What a pattern for a number of lo to hi digits finds.
NumberIn(t, lo, hi, whole) ==
    \E i \in 1..Len(t), n \in lo..hi : Run(t, i, n, Digit) /\ (whole => Alone(t, i, i + n))

\* A number between edges, or without them, in any text.
LEMMA NumbersFound ==
    ASSUME NEW t \in Seq(Char), NEW lo \in Nat \ {0}, NEW hi \in Nat, NEW whole \in BOOLEAN
    PROVE  Finds(Plain(wrapWord(<<Digits(lo, hi)>>, whole, whole)), t)
             <=> NumberIn(t, lo, hi, whole)
  <1>. DEFINE core == <<Digits(lo, hi)>>
              a == Digits(lo, hi)
              ci == FALSE
              p == [atoms |-> wrapWord(core, whole, whole), ignoreCase |-> ci]
  <1>0. Plain(wrapWord(core, whole, whole)) = p BY DEF Plain
  <1>. HIDE DEF ci
  <1>1. a \in Atom BY DigitRuns
  <1>2. core \in Seq(Atom) BY <1>1
  <1>3. Finds(p, t)
          <=> \E i \in Positions(t) : \E e \in Ends(core, t, i, ci) :
                (whole => Boundary(t, i)) /\ (whole => Boundary(t, e))
    <2>. HIDE DEF core
    <2>. QED BY <1>2, WrappedFinds
  <1>4. \A i \in Positions(t) : \A e : e \in Ends(core, t, i, ci)
                                <=> \E n \in lo..hi : Run(t, i, n, Digit) /\ e = i + n
    <2>1. \A i \in Positions(t) : Ends(core, t, i, ci) = After(a, t, i, ci) BY <1>1, ReadOne
    <2>2. \A i \in Positions(t) : \A e : e \in After(a, t, i, ci)
                                <=> \E n \in lo..hi : Run(t, i, n, Digit) /\ e = i + n
      BY DigitRuns
    <2>. QED BY <2>1, <2>2
  <1>. HIDE DEF core, a, p
  <1>5. Finds(p, t)
          <=> \E i \in Positions(t) : \E n \in lo..hi :
                Run(t, i, n, Digit) /\ (whole => Boundary(t, i)) /\ (whole => Boundary(t, i + n))
    <2>1. \A i \in Positions(t) :
            (\E e \in Ends(core, t, i, ci) : (whole => Boundary(t, i)) /\ (whole => Boundary(t, e)))
            <=> \E n \in lo..hi :
                  Run(t, i, n, Digit) /\ (whole => Boundary(t, i)) /\ (whole => Boundary(t, i + n))
      BY <1>4
    <2>. QED BY <1>3, <2>1
  <1>6. ASSUME NEW i \in Positions(t), NEW n \in lo..hi, Run(t, i, n, Digit)
        PROVE  /\ i \in 1..Len(t)
               /\ Boundary(t, i) /\ Boundary(t, i + n) <=> Alone(t, i, i + n)
    <2>1. n \in Nat \ {0} /\ i \in Nat BY DEF Positions
    <2>2. i \in i..i + n - 1 /\ i + n - 1 \in i..i + n - 1 BY <2>1
    <2>3. At(t, i, Digit) /\ At(t, i + n - 1, Digit) BY <1>6, <2>2 DEF Run
    <2>4. At(t, i, AsciiWord) /\ At(t, i + n - 1, AsciiWord) BY <2>3 DEF At, AsciiWord
    <2>5. i \in 1..Len(t) BY <2>3 DEF At
    <2>. QED BY <2>1, <2>4, <2>5, WordStandsAlone
  <1>7. \A i \in 1..Len(t) : i \in Positions(t) BY DEF Positions
  <1>8. Finds(p, t) <=> NumberIn(t, lo, hi, whole) BY <1>5, <1>6, <1>7 DEF NumberIn
  <1>. QED BY <1>0, <1>8 DEF core

(***************************************************************************)
(* The length fields of a template.                                        *)
(***************************************************************************)
Shortest(s) == Least(clampLen(s.minLen), clampLen(s.maxLen))
Longest(s) == Most(clampLen(s.minLen), clampLen(s.maxLen))

\* Whatever is in the two fields, the range is from 1 to 99 and not empty.
LEMMA RangeInBounds ==
    ASSUME NEW s, s.minLen \in Int \cup {None}, s.maxLen \in Int \cup {None}
    PROVE  /\ Shortest(s) \in 1..99 /\ Longest(s) \in 1..99 /\ Shortest(s) <= Longest(s)
           /\ digitRange(s) = Digits(Shortest(s), Longest(s))
  <1>1. \A n \in Int \cup {None} : clampLen(n) \in 1..99 BY DEF clampLen
  <1>2. clampLen(s.minLen) \in 1..99 /\ clampLen(s.maxLen) \in 1..99 BY <1>1
  <1>. QED BY <1>2 DEF Shortest, Longest, Least, Most, digitRange

\* In any text and for any lengths the template for digits finds a run of
\* digits of a length between the smaller and the greater of the two fields,
\* each kept from 1 to 99, and as a whole word only one that stands alone.
THEOREM DigitsFindNumbers ==
    ASSUME NEW s, s.minLen \in Int \cup {None}, s.maxLen \in Int \cup {None},
           s.wholeWord \in BOOLEAN, NEW t \in Seq(Char)
    PROVE  Finds(buildDigits(s), t) <=> NumberIn(t, Shortest(s), Longest(s), s.wholeWord)
  <1>1. Shortest(s) \in Nat \ {0} /\ Longest(s) \in Nat /\ digitRange(s) = Digits(Shortest(s), Longest(s))
    <2>1. Shortest(s) \in 1..99 /\ Longest(s) \in 1..99 BY RangeInBounds
    <2>2. digitRange(s) = Digits(Shortest(s), Longest(s)) BY RangeInBounds
    <2>3. \A n \in 1..99 : n \in Nat \ {0} /\ n \in Nat OBVIOUS
    <2>. QED BY <2>1, <2>2, <2>3, Zenon
  <1>. QED BY <1>1, NumbersFound DEF buildDigits

\* The template for bank cards finds, in any text, the runs of 16 to 19 digits,
\* and as whole words only those that stand alone.
THEOREM BankcardsAreFound ==
    ASSUME NEW s, s.wholeWord \in BOOLEAN, NEW t \in Seq(Char)
    PROVE  Finds(buildBankcard(s), t) <=> NumberIn(t, 16, 19, s.wholeWord)
  BY NumbersFound DEF buildBankcard

\* A set of numbers with members has a least one.
LEMMA LeastOf ==
    ASSUME NEW S, S \subseteq Nat, S # {}
    PROVE  \E i \in S : \A j \in S : i <= j
  <1>. DEFINE D == {n \in Nat : \A j \in S : n <= j}
  <1>1. SUFFICES ASSUME \A i \in S : \E j \in S : j < i PROVE FALSE OBVIOUS
  <1>2. 0 \in D OBVIOUS
  <1>3. ASSUME NEW n \in D PROVE n + 1 \in D
    <2>1. n \notin S BY <1>1
    <2>. QED BY <2>1
  <1>4. D = Nat
    <2>. HIDE DEF D
    <2>. QED BY <1>2, <1>3, NatInd DEF D
  <1>5. PICK i \in S : TRUE OBVIOUS
  <1>6. i + 1 \in D /\ i \in Nat BY <1>4, <1>5
  <1>. QED BY <1>5, <1>6

\* Trimming leaves a text: its first and last solid characters exist.
LEMMA TrimIsText ==
    ASSUME NEW t \in Seq(Char)
    PROVE  Trim(t) \in Seq(Char)
  <1>. DEFINE solid == {i \in DOMAIN t : t[i] \notin Space}
              first == CHOOSE i \in solid : \A j \in solid : i <= j
              last == CHOOSE i \in solid : \A j \in solid : j <= i
              back == {Len(t) - i : i \in solid}
  <1>1. CASE solid = {} BY <1>1 DEF Trim
  <1>2. CASE solid # {}
    <2>1. solid \subseteq 1..Len(t) /\ Len(t) \in Nat OBVIOUS
    <2>. HIDE DEF solid
    <2>2. \E i \in solid : \A j \in solid : i <= j
      <3>1. solid \subseteq Nat BY <2>1
      <3>. QED BY <1>2, <3>1, LeastOf
    <2>3. first \in solid BY <2>2
    <2>4. back \subseteq Nat /\ back # {}
      <3>1. \A i \in solid : Len(t) - i \in Nat BY <2>1
      <3>2. back \subseteq Nat BY <3>1
      <3>3. PICK i \in solid : TRUE BY <1>2
      <3>4. Len(t) - i \in back BY <3>3
      <3>. QED BY <3>2, <3>4
    <2>5. PICK m \in back : \A j \in back : m <= j
      <3>. HIDE DEF back
      <3>. QED BY <2>4, LeastOf
    <2>6. PICK l \in solid : m = Len(t) - l BY <2>5
    <2>7. \A j \in solid : j <= l
      <3>1. ASSUME NEW j \in solid PROVE j <= l
        <4>1. Len(t) - j \in back OBVIOUS
        <4>2. Len(t) - l <= Len(t) - j BY <2>5, <2>6, <4>1
        <4>. QED BY <2>1, <2>6, <4>2
      <3>. QED BY <3>1
    <2>8. last \in solid BY <2>6, <2>7
    <2>9. Trim(t) = SubSeq(t, first, last) BY <1>2 DEF Trim, solid
    <2>10. first \in 1..Len(t) /\ last \in 1..Len(t) BY <2>1, <2>3, <2>8
    <2>. HIDE DEF first, last
    <2>. QED BY <2>9, <2>10
  <1>. QED BY <1>1, <1>2

(***************************************************************************)
(* The templates with a text of the user's.                                *)
(***************************************************************************)
\* A match of one word character or more has them at its ends.
LEMMA ReadsEnds ==
    ASSUME NEW t, NEW i \in Int, NEW ci, NEW p \in Seq(Char), p # <<>>, Reads(p, t, i, ci)
    PROVE  /\ i \in DOMAIN t /\ i + Len(p) - 1 \in DOMAIN t
           /\ p[1] \in AsciiWord => At(t, i, AsciiWord)
           /\ p[Len(p)] \in AsciiWord => At(t, i + Len(p) - 1, AsciiWord)
  <1>1. 1 \in 1..Len(p) /\ Len(p) \in 1..Len(p) /\ i + 1 - 1 = i OBVIOUS
  <1>2. /\ i \in DOMAIN t /\ Same(t[i], p[1], ci)
        /\ i + Len(p) - 1 \in DOMAIN t /\ Same(t[i + Len(p) - 1], p[Len(p)], ci)
    BY <1>1 DEF Reads, ReadsUpTo
  <1>. QED BY <1>2, SameKeepsWord DEF At

PhraseIn(t, p, ci, whole) ==
    \E i \in 1..Len(t) : Reads(p, t, i, ci) /\ (whole => Alone(t, i, i + Len(p)))

\* In any text a phrase is found, without its option for spaces, exactly where
\* the trimmed text stands, in either case if that was asked for; as a whole
\* word it must stand alone, but only when all of it is word characters.
THEOREM PhraseIsFound ==
    ASSUME NEW s, s.phrase \in Seq(Char), s.ignoreCase \in BOOLEAN, s.wholeWord \in BOOLEAN,
           s.looseWhitespace = FALSE, Trim(s.phrase) # <<>>, NEW t \in Seq(Char)
    PROVE  Finds(buildPhrase(s), t)
             <=> PhraseIn(t, Trim(s.phrase), s.ignoreCase,
                          s.wholeWord /\ \A i \in DOMAIN Trim(s.phrase) : Trim(s.phrase)[i] \in AsciiWord)
  <1>. DEFINE p == Trim(s.phrase)
              whole == s.wholeWord /\ \A i \in DOMAIN p : p[i] \in AsciiWord
              core == Literal(p)
              ci == s.ignoreCase
              built == [atoms |-> wrapWord(core, whole, whole), ignoreCase |-> ci]
  <1>1. p \in Seq(Char) /\ p # <<>> BY TrimIsText
  <1>2. buildPhrase(s) = built BY <1>1 DEF buildPhrase, PhraseBody
  <1>3. whole \in BOOLEAN /\ ci \in BOOLEAN OBVIOUS
  <1>4. whole => p[1] \in AsciiWord /\ p[Len(p)] \in AsciiWord
    <2>1. 1 \in DOMAIN p /\ Len(p) \in DOMAIN p BY <1>1
    <2>. QED BY <2>1
  <1>. HIDE DEF p, whole, ci
  <1>5. core \in Seq(Atom) BY <1>1, LiteralAtoms
  <1>6. \A i \in Positions(t) : \A e : e \in Ends(core, t, i, ci) <=> Reads(p, t, i, ci) /\ e = i + Len(p)
    BY <1>1, <1>3, LiteralReads
  <1>. HIDE DEF core
  <1>7. Finds(built, t)
          <=> \E i \in Positions(t) : \E e \in Ends(core, t, i, ci) :
                (whole => Boundary(t, i)) /\ (whole => Boundary(t, e))
    BY <1>3, <1>5, WrappedFinds
  <1>. HIDE DEF built
  <1>8. ASSUME NEW i \in Positions(t), Reads(p, t, i, ci)
        PROVE  /\ i \in 1..Len(t)
               /\ (whole => Boundary(t, i)) /\ (whole => Boundary(t, i + Len(p)))
                    <=> (whole => Alone(t, i, i + Len(p)))
    <2>1. i \in Int /\ Len(p) \in Nat BY <1>1 DEF Positions
    <2>2. i \in 1..Len(t) BY <1>1, <1>8, <2>1, ReadsEnds
    <2>3. CASE whole
      <3>1. At(t, i, AsciiWord) /\ At(t, i + Len(p) - 1, AsciiWord)
        BY <1>1, <1>4, <1>8, <2>1, <2>3, ReadsEnds
      <3>2. Boundary(t, i) /\ Boundary(t, i + Len(p)) <=> Alone(t, i, i + Len(p))
        BY <2>1, <3>1, WordStandsAlone
      <3>. QED BY <2>2, <2>3, <3>2
    <2>4. CASE ~whole BY <2>2, <2>4
    <2>. QED BY <1>3, <2>3, <2>4
  <1>9. \A i \in 1..Len(t) : i \in Positions(t) BY DEF Positions
  <1>10. Finds(built, t) <=> PhraseIn(t, p, ci, whole)
    <2>1. Finds(built, t)
            <=> \E i \in Positions(t) : /\ Reads(p, t, i, ci)
                                        /\ (whole => Boundary(t, i)) /\ (whole => Boundary(t, i + Len(p)))
      BY <1>6, <1>7
    <2>. QED BY <1>8, <1>9, <2>1 DEF PhraseIn
  <1>. QED BY <1>2, <1>10 DEF p, whole, ci

\* A prefix and a number of lo to hi digits right after it.
PrefixedIn(t, p, lo, hi, ci, whole) ==
    \E i \in 1..Len(t), n \in lo..hi :
        /\ Reads(p, t, i, ci) /\ Run(t, i + Len(p), n, Digit)
        /\ whole /\ p[1] \in AsciiWord => ~At(t, i - 1, AsciiWord)
        /\ whole => ~At(t, i + Len(p) + n, AsciiWord)

\* A literal prefix and a number after it, in any text.
LEMMA PrefixedFound ==
    ASSUME NEW t \in Seq(Char), NEW p \in Seq(Char), p # <<>>,
           NEW lo \in Nat \ {0}, NEW hi \in Nat, NEW ci \in BOOLEAN, NEW whole \in BOOLEAN
    PROVE  Finds([atoms |-> wrapWord(Literal(p) \o <<Digits(lo, hi)>>,
                                     whole /\ p[1] \in AsciiWord, whole), ignoreCase |-> ci], t)
             <=> PrefixedIn(t, p, lo, hi, ci, whole)
  <1>. DEFINE a == Digits(lo, hi)
              A == Literal(p)
              core == A \o <<a>>
              lead == whole /\ p[1] \in AsciiWord
              built == [atoms |-> wrapWord(core, lead, whole), ignoreCase |-> ci]
  <1>1. lead \in BOOLEAN OBVIOUS
  <1>2. /\ a \in Atom
        /\ \A j \in Positions(t) : \A e : e \in After(a, t, j, ci)
                            <=> \E n \in lo..hi : Run(t, j, n, Digit) /\ e = j + n
    <2>1. a \in Atom BY DigitRuns
    <2>2. \A j \in Positions(t) : \A e : e \in After(a, t, j, ci)
                            <=> \E n \in lo..hi : Run(t, j, n, Digit) /\ e = j + n
      BY DigitRuns
    <2>. QED BY <2>1, <2>2
  <1>3. A \in Seq(Atom) BY LiteralAtoms
  <1>4. \A i \in Positions(t) : \A e : e \in Ends(A, t, i, ci) <=> Reads(p, t, i, ci) /\ e = i + Len(p)
    BY LiteralReads
  <1>. HIDE DEF a, A, lead
  <1>5. <<a>> \in Seq(Atom) /\ core \in Seq(Atom) BY <1>2, <1>3
  <1>6. ASSUME NEW i \in Positions(t), NEW e
        PROVE  e \in Ends(core, t, i, ci)
                 <=> \E n \in lo..hi : /\ Reads(p, t, i, ci) /\ Run(t, i + Len(p), n, Digit)
                                       /\ e = i + Len(p) + n
    <2>1. e \in Ends(core, t, i, ci) <=> \E j \in Ends(A, t, i, ci) : e \in Ends(<<a>>, t, j, ci)
      BY <1>3, <1>5, ReadInTurn
    <2>2. Ends(A, t, i, ci) \subseteq Positions(t) BY <1>3, EndsInText
    <2>3. \A j \in Positions(t) : Ends(<<a>>, t, j, ci) = After(a, t, j, ci) BY <1>2, ReadOne
    <2>4. e \in Ends(core, t, i, ci) <=> \E j \in Ends(A, t, i, ci) : e \in After(a, t, j, ci)
      BY <2>1, <2>2, <2>3
    <2>5. e \in Ends(core, t, i, ci)
            <=> Reads(p, t, i, ci) /\ e \in After(a, t, i + Len(p), ci)
      BY <1>4, <2>4
    <2>6. Reads(p, t, i, ci) => i + Len(p) \in Positions(t) BY <1>4, <2>2
    <2>. QED BY <1>2, <2>5, <2>6
  <1>. HIDE DEF core
  <1>7. Finds(built, t)
           <=> \E i \in Positions(t) : \E e \in Ends(core, t, i, ci) :
                 (lead => Boundary(t, i)) /\ (whole => Boundary(t, e))
    BY <1>1, <1>5, WrappedFinds
  <1>. HIDE DEF built
  <1>8. ASSUME NEW i \in Positions(t), NEW n \in lo..hi, Reads(p, t, i, ci), Run(t, i + Len(p), n, Digit)
        PROVE  /\ i \in 1..Len(t)
               /\ (lead => Boundary(t, i)) <=> (lead => ~At(t, i - 1, AsciiWord))
               /\ Boundary(t, i + Len(p) + n) <=> ~At(t, i + Len(p) + n, AsciiWord)
    <2>1. i \in Int /\ Len(p) \in Nat BY DEF Positions
    <2>2. i \in 1..Len(t) BY <1>8, <2>1, ReadsEnds
    <2>3. lead => At(t, i, AsciiWord) BY <1>8, <2>1, ReadsEnds DEF lead
    <2>. DEFINE e == i + Len(p) + n
    <2>4. At(t, e - 1, AsciiWord)
      <3>1. n \in Nat \ {0} OBVIOUS
      <3>2. e - 1 \in i + Len(p)..i + Len(p) + n - 1 BY <2>1, <3>1
      <3>3. At(t, e - 1, Digit) BY <1>8, <3>2 DEF Run
      <3>. QED BY <3>3 DEF At, AsciiWord
    <2>. HIDE DEF e
    <2>5. Boundary(t, e) <=> ~At(t, e, AsciiWord) BY <2>4 DEF Boundary
    <2>6. ASSUME lead PROVE Boundary(t, i) <=> ~At(t, i - 1, AsciiWord)
      <3>1. At(t, i, AsciiWord) BY <2>3, <2>6
      <3>. QED BY <3>1 DEF Boundary
    <2>. QED BY <1>1, <2>2, <2>5, <2>6 DEF e
  <1>9. \A i \in 1..Len(t) : i \in Positions(t) BY DEF Positions
  <1>10. Finds(built, t)
            <=> \E i \in Positions(t) : \E n \in lo..hi :
                   /\ Reads(p, t, i, ci) /\ Run(t, i + Len(p), n, Digit)
                   /\ (lead => Boundary(t, i)) /\ (whole => Boundary(t, i + Len(p) + n))
    <2>1. ASSUME NEW i \in Positions(t)
          PROVE  (\E e \in Ends(core, t, i, ci) : (lead => Boundary(t, i)) /\ (whole => Boundary(t, e)))
                 <=> \E n \in lo..hi :
                   /\ Reads(p, t, i, ci) /\ Run(t, i + Len(p), n, Digit)
                   /\ (lead => Boundary(t, i)) /\ (whole => Boundary(t, i + Len(p) + n))
      BY <1>6
    <2>. QED BY <1>7, <2>1
  <1>11. Finds(built, t)
            <=> \E i \in 1..Len(t) : \E n \in lo..hi :
                   /\ Reads(p, t, i, ci) /\ Run(t, i + Len(p), n, Digit)
                   /\ lead => ~At(t, i - 1, AsciiWord)
                   /\ whole => ~At(t, i + Len(p) + n, AsciiWord)
    BY <1>8, <1>9, <1>10
  <1>12. Finds(built, t) <=> PrefixedIn(t, p, lo, hi, ci, whole) BY <1>11 DEF PrefixedIn, lead
  <1>. QED BY <1>12 DEF built, core, A, a, lead

\* The template for a prefix finds, in any text, the trimmed prefix and right
\* after it digits of a length in range.  As a whole word no word character
\* may follow, and none may stand before a prefix that begins with one: a
\* prefix that begins with another character is found after anything.
THEOREM PrefixDigitsAreFound ==
    ASSUME NEW s, s.minLen \in Int \cup {None}, s.maxLen \in Int \cup {None},
           s.prefix \in Seq(Char), s.ignoreCase \in BOOLEAN, s.wholeWord \in BOOLEAN,
           Trim(s.prefix) # <<>>, NEW t \in Seq(Char)
    PROVE  Finds(buildPrefixDigits(s), t)
             <=> PrefixedIn(t, Trim(s.prefix), Shortest(s), Longest(s), s.ignoreCase, s.wholeWord)
  <1>1. Shortest(s) \in 1..99 /\ Longest(s) \in 1..99 BY RangeInBounds
  <1>2. digitRange(s) = Digits(Shortest(s), Longest(s)) BY RangeInBounds
  <1>3. Shortest(s) \in Nat \ {0} /\ Longest(s) \in Nat
    <2>1. \A n \in 1..99 : n \in Nat \ {0} /\ n \in Nat OBVIOUS
    <2>. QED BY <1>1, <2>1, Zenon
  <1>4. Trim(s.prefix) \in Seq(Char) BY TrimIsText
  <1>. QED BY <1>2, <1>3, <1>4, PrefixedFound DEF buildPrefixDigits

(***************************************************************************)
(* The templates of a fixed form.                                          *)
(***************************************************************************)
\* A pattern of two atoms.
LEMMA ReadTwo ==
    ASSUME NEW t \in Seq(Char), NEW ci, NEW a \in Atom, NEW b \in Atom, NEW i \in Positions(t)
    PROVE  \A e : e \in Ends(<<a, b>>, t, i, ci)
                    <=> \E j \in After(a, t, i, ci) : e \in After(b, t, j, ci)
  <1>. DEFINE A == <<a>>
              B == <<b>>
  <1>1. A \in Seq(Atom) /\ B \in Seq(Atom) OBVIOUS
  <1>2. <<a, b>> = A \o B
    <2>1. <<a, b>> \in Seq(Atom) /\ A \o B \in Seq(Atom) OBVIOUS
    <2>2. Len(<<a, b>>) = 2 /\ <<a, b>>[1] = a /\ <<a, b>>[2] = b OBVIOUS
    <2>3. Len(A \o B) = 2 /\ (A \o B)[1] = a /\ (A \o B)[2] = b OBVIOUS
    <2>4. 1..2 = {1, 2} OBVIOUS
    <2>. QED BY <2>1, <2>2, <2>3, <2>4, SeqEqual
  <1>3. \A j \in Positions(t) : /\ Ends(A, t, j, ci) = After(a, t, j, ci)
                                /\ Ends(B, t, j, ci) = After(b, t, j, ci)
    BY ReadOne
  <1>. HIDE DEF A, B
  <1>4. \A e : e \in Ends(A \o B, t, i, ci) <=> \E j \in Ends(A, t, i, ci) : e \in Ends(B, t, j, ci)
    BY <1>1, ReadInTurn
  <1>5. Ends(A, t, i, ci) \subseteq Positions(t) BY <1>1, EndsInText
  <1>. QED BY <1>2, <1>3, <1>4, <1>5

\* A pattern that matches n characters at the positions of S, which begin and
\* end with word characters.
MatchesAt(core, t, ci, n, S) ==
    /\ S \subseteq 1..Len(t)
    /\ \A i \in Positions(t) : \A e : e \in Ends(core, t, i, ci) <=> i \in S /\ e = i + n
    /\ \A i \in S : At(t, i, AsciiWord) /\ At(t, i + n - 1, AsciiWord)

Wrapped(core, whole, ci) == [atoms |-> wrapWord(core, whole, whole), ignoreCase |-> ci]

FoundAt(t, n, S, whole) == \E i \in S : whole => Alone(t, i, i + n)

\* Such a pattern between edges, or without them.
LEMMA FixedFound ==
    ASSUME NEW t \in Seq(Char), NEW core \in Seq(Atom), NEW whole \in BOOLEAN, NEW ci,
           NEW n \in Nat, NEW S, MatchesAt(core, t, ci, n, S)
    PROVE  Finds(Wrapped(core, whole, ci), t) <=> FoundAt(t, n, S, whole)
  <1>0. /\ S \subseteq 1..Len(t)
        /\ \A i \in Positions(t) : \A e : e \in Ends(core, t, i, ci) <=> i \in S /\ e = i + n
        /\ \A i \in S : At(t, i, AsciiWord) /\ At(t, i + n - 1, AsciiWord)
    BY DEF MatchesAt
  <1>. DEFINE built == [atoms |-> wrapWord(core, whole, whole), ignoreCase |-> ci]
  <1>1. Finds(built, t)
          <=> \E i \in Positions(t) : \E e \in Ends(core, t, i, ci) :
                (whole => Boundary(t, i)) /\ (whole => Boundary(t, e))
    BY WrappedFinds
  <1>. HIDE DEF built
  <1>2. \A i \in S : i \in Positions(t) /\ i \in Int /\ i + n \in Int BY <1>0 DEF Positions
  <1>3. \A i \in S : Boundary(t, i) /\ Boundary(t, i + n) <=> Alone(t, i, i + n)
    BY <1>0, <1>2, WordStandsAlone
  <1>4. Finds(built, t)
          <=> \E i \in S : (whole => Boundary(t, i)) /\ (whole => Boundary(t, i + n))
    BY <1>0, <1>1, <1>2
  <1>5. Finds(built, t) <=> \E i \in S : whole => Alone(t, i, i + n)
    BY <1>3, <1>4
  <1>. QED BY <1>5 DEF built, Wrapped, FoundAt

\* A class of exactly n characters.
LEMMA ExactRun ==
    ASSUME NEW t \in Seq(Char), NEW ci, NEW n \in Nat, NEW chars, chars \subseteq AsciiWord
    PROVE  \A i \in Positions(t) : \A e : e \in After(Class(chars, n, n), t, i, ci)
                                <=> Run(t, i, n, chars) /\ e = i + n
  <1>2. \A i \in Positions(t) : \A e : e \in After(Class(chars, n, n), t, i, ci)
                                <=> \E m \in n..n : Run(t, i, m, chars) /\ e = i + m
    BY ClassReads
  <1>3. n..n = {n} OBVIOUS
  <1>. QED BY <1>2, <1>3

\* Seventeen digits and a check character.
IdcardAt(t) == {i \in 1..Len(t) : Run(t, i, 17, Digit) /\ At(t, i + 17, Digit \cup {"X", "x"})}

\* The template for identity cards finds, in any text, seventeen digits with a
\* digit or an X after them, and as a whole word only where they stand alone.
THEOREM IdcardsAreFound ==
    ASSUME NEW s, s.wholeWord \in BOOLEAN, NEW t \in Seq(Char)
    PROVE  Finds(buildIdcard(s), t)
             <=> FoundAt(t, 18, IdcardAt(t), s.wholeWord)
  <1>. DEFINE check == Digit \cup {"X", "x"}
              a == Class(Digit, 17, 17)
              b == Class(check, 1, 1)
              core == <<a, b>>
              ci == FALSE
              S == IdcardAt(t)
              whole == s.wholeWord
  <1>1. check \subseteq AsciiWord /\ Digit \subseteq AsciiWord BY DEF AsciiWord
  <1>2. buildIdcard(s) = Wrapped(core, whole, ci)
    BY DEF buildIdcard, Wrapped, Digits, Plain, Class
  <1>. HIDE DEF ci, whole, check
  <1>0. a \in Atom /\ b \in Atom BY <1>1 DEF Atom
  <1>3. \A i \in Positions(t) : \A e : e \in After(a, t, i, ci)
                                    <=> Run(t, i, 17, Digit) /\ e = i + 17
    BY <1>1, ExactRun
  <1>4. \A i \in Positions(t) : \A e : e \in After(b, t, i, ci)
                                    <=> Run(t, i, 1, check) /\ e = i + 1
    BY <1>1, ExactRun
  <1>. HIDE DEF a, b
  <1>5. core \in Seq(Atom) BY <1>0
  <1>6. \A i \in Positions(t) : \A e : e \in Ends(core, t, i, ci)
                                  <=> \E j \in After(a, t, i, ci) : e \in After(b, t, j, ci)
    BY <1>0, ReadTwo
  <1>7. \A i \in Positions(t) : After(a, t, i, ci) \subseteq Positions(t) BY <1>0, AtomInText
  <1>8. ASSUME NEW i \in Positions(t)
        PROVE  i \in S <=> Run(t, i, 17, Digit) /\ Run(t, i + 17, 1, check)
    <2>1. i \in Int BY DEF Positions
    <2>2. Run(t, i + 17, 1, check) <=> At(t, i + 17, check)
      <3>1. i + 17..i + 17 + 1 - 1 = {i + 17} BY <2>1
      <3>. QED BY <3>1 DEF Run
    <2>3. Run(t, i, 17, Digit) => i \in 1..Len(t)
      <3>1. i \in i..i + 17 - 1 BY <2>1
      <3>. QED BY <3>1 DEF Run, At
    <2>. QED BY <2>2, <2>3 DEF IdcardAt, check
  <1>9. ASSUME NEW i \in Positions(t), NEW e
        PROVE  e \in Ends(core, t, i, ci) <=> i \in S /\ e = i + 18
    <2>1. i \in Int /\ i + 17 + 1 = i + 18 BY DEF Positions
    <2>2. e \in Ends(core, t, i, ci) <=> Run(t, i, 17, Digit) /\ e \in After(b, t, i + 17, ci)
      BY <1>3, <1>6
    <2>3. Run(t, i, 17, Digit) => i + 17 \in Positions(t) BY <1>3, <1>7
    <2>. QED BY <1>4, <1>8, <2>1, <2>2, <2>3
  <1>10. ASSUME NEW i \in S PROVE At(t, i, AsciiWord) /\ At(t, i + 18 - 1, AsciiWord)
    <2>1. i \in Int /\ i \in i..i + 17 - 1 /\ i + 18 - 1 = i + 17 BY DEF IdcardAt
    <2>2. At(t, i, Digit) /\ At(t, i + 17, check) BY <2>1 DEF IdcardAt, Run, check
    <2>. QED BY <1>1, <2>1, <2>2 DEF At
  <1>11. S \in SUBSET (1..Len(t)) BY DEF IdcardAt
  <1>. HIDE DEF core, S
  <1>12. whole \in BOOLEAN BY DEF whole
  <1>13. MatchesAt(core, t, ci, 18, S) BY <1>9, <1>10, <1>11 DEF MatchesAt
  <1>14. Finds(Wrapped(core, whole, ci), t) <=> FoundAt(t, 18, S, whole)
    BY <1>5, <1>12, <1>13, FixedFound
  <1>. QED BY <1>2, <1>14 DEF S, whole, core

\* A one, a digit from three to nine and nine more digits.
PhoneAt(t) == {i \in 1..Len(t) : /\ At(t, i, {"1"}) /\ At(t, i + 1, {"5"})
                                 /\ Run(t, i + 2, 9, Digit)}

\* The template for phone numbers, without its option for separators, finds in
\* any text the eleven digits of a number, and as a whole word only where they
\* stand alone.
THEOREM PhonesAreFound ==
    ASSUME NEW s, s.wholeWord \in BOOLEAN, s.allowSeparators = FALSE, NEW t \in Seq(Char)
    PROVE  Finds(buildPhone(s), t) <=> FoundAt(t, 11, PhoneAt(t), s.wholeWord)
  <1>. DEFINE one == Lit("1")
              five == {"5"}
              a == Class(five, 1, 1)
              b == Class(Digit, 9, 9)
              rest == <<a, b>>
              first == <<one>>
              core == <<one, a, b>>
              ci == FALSE
              S == PhoneAt(t)
              whole == s.wholeWord
  <1>1. five \subseteq AsciiWord /\ Digit \subseteq AsciiWord /\ {"1"} \subseteq AsciiWord
    BY DEF AsciiWord, Digit
  <1>2. buildPhone(s) = Wrapped(core, whole, ci) BY DEF buildPhone, Wrapped, Plain, Class
  <1>3. \A i : \A e : e \in After(one, t, i, ci) <=> At(t, i, {"1"}) /\ e = i + 1
    BY DEF After, Lit, At
  <1>. HIDE DEF ci, whole, five
  <1>4. one \in Atom /\ a \in Atom /\ b \in Atom
    <2>1. "1" \in Char BY <1>1 DEF Char
    <2>. QED BY <1>1, <2>1 DEF Atom
  <1>. HIDE DEF one
  <1>5. \A i \in Positions(t) : \A e : e \in After(a, t, i, ci) <=> Run(t, i, 1, five) /\ e = i + 1
    BY <1>1, ExactRun
  <1>6. \A i \in Positions(t) : \A e : e \in After(b, t, i, ci) <=> Run(t, i, 9, Digit) /\ e = i + 9
    BY <1>1, ExactRun
  <1>. HIDE DEF a, b
  <1>7. rest \in Seq(Atom) /\ first \in Seq(Atom) /\ core \in Seq(Atom) BY <1>4
  <1>8. core = first \o rest
    <2>1. first \o rest \in Seq(Atom) BY <1>7
    <2>2. Len(core) = 3 /\ core[1] = one /\ core[2] = a /\ core[3] = b OBVIOUS
    <2>3. /\ Len(first \o rest) = 3 /\ (first \o rest)[1] = one
          /\ (first \o rest)[2] = a /\ (first \o rest)[3] = b
      BY <1>4
    <2>4. 1..3 = {1, 2, 3} OBVIOUS
    <2>. HIDE DEF core, first, rest
    <2>. QED BY <1>7, <2>1, <2>2, <2>3, <2>4, SeqEqual
  <1>9. \A i \in Positions(t) : \A e : e \in Ends(rest, t, i, ci)
                                  <=> \E j \in After(a, t, i, ci) : e \in After(b, t, j, ci)
    BY <1>4, ReadTwo
  <1>10. \A i \in Positions(t) : Ends(first, t, i, ci) = After(one, t, i, ci) BY <1>4, ReadOne
  <1>. HIDE DEF core, first, rest
  <1>11. \A i \in Positions(t) : \A e : e \in Ends(first \o rest, t, i, ci)
            <=> \E j \in Ends(first, t, i, ci) : e \in Ends(rest, t, j, ci)
    BY <1>7, ReadInTurn
  <1>12. \A i \in Positions(t) : /\ After(one, t, i, ci) \subseteq Positions(t)
                                 /\ After(a, t, i, ci) \subseteq Positions(t)
    BY <1>4, AtomInText
  <1>13. ASSUME NEW i \in Positions(t), NEW e
         PROVE  e \in Ends(core, t, i, ci) <=> i \in S /\ e = i + 11
    <2>1. i \in Int /\ i + 1 + 1 = i + 2 /\ i + 2 + 9 = i + 11 BY DEF Positions
    <2>2. e \in Ends(core, t, i, ci) <=> At(t, i, {"1"}) /\ e \in Ends(rest, t, i + 1, ci)
      BY <1>3, <1>8, <1>10, <1>11
    <2>3. At(t, i, {"1"}) => i + 1 \in Positions(t) /\ i \in 1..Len(t) BY <1>3, <1>12 DEF At
    <2>4. ASSUME i + 1 \in Positions(t)
          PROVE  e \in Ends(rest, t, i + 1, ci)
                   <=> At(t, i + 1, five) /\ Run(t, i + 2, 9, Digit) /\ e = i + 11
      <3>1. Run(t, i + 1, 1, five) <=> At(t, i + 1, five)
        <4>1. i + 1..i + 1 + 1 - 1 = {i + 1} BY <2>1
        <4>. QED BY <4>1 DEF Run
      <3>2. e \in Ends(rest, t, i + 1, ci)
              <=> Run(t, i + 1, 1, five) /\ e \in After(b, t, i + 2, ci)
        BY <1>5, <1>9, <2>1, <2>4
      <3>3. Run(t, i + 1, 1, five) => i + 2 \in Positions(t) BY <1>5, <1>12, <2>1, <2>4
      <3>. QED BY <1>6, <2>1, <3>1, <3>2, <3>3
    <2>. QED BY <2>2, <2>3, <2>4 DEF PhoneAt, five
  <1>14. ASSUME NEW i \in S PROVE At(t, i, AsciiWord) /\ At(t, i + 11 - 1, AsciiWord)
    <2>1. i \in Int /\ i + 10 \in i + 2..i + 2 + 9 - 1 /\ i + 11 - 1 = i + 10 BY DEF PhoneAt
    <2>2. At(t, i, {"1"}) /\ At(t, i + 10, Digit) BY <2>1 DEF PhoneAt, Run
    <2>. QED BY <1>1, <2>1, <2>2 DEF At
  <1>15. S \subseteq 1..Len(t) BY DEF PhoneAt
  <1>. HIDE DEF S
  <1>16. whole \in BOOLEAN BY DEF whole
  <1>17. MatchesAt(core, t, ci, 11, S) BY <1>13, <1>14, <1>15 DEF MatchesAt
  <1>18. Finds(Wrapped(core, whole, ci), t) <=> FoundAt(t, 11, S, whole)
    BY <1>7, <1>16, <1>17, FixedFound
  <1>. QED BY <1>2, <1>18 DEF S, whole

(***************************************************************************)
(* The promise of the two number templates: in Chinese text, where no \b   *)
(* may stand, a number is found when it is long enough and, as a whole     *)
(* word, not too long.                                                     *)
(***************************************************************************)
\* A number of n digits among Chinese text holds a run of lo to hi digits that
\* stands alone, if it must, just when n is in range.
LEMMA NumberInChinese ==
    ASSUME NEW n \in Nat \ {0}, NEW lo \in Nat \ {0}, NEW hi \in Nat, lo <= hi, NEW whole \in BOOLEAN
    PROVE  /\ InChinese(Times("5", n)) \in Seq(Char)
           /\ NumberIn(InChinese(Times("5", n)), lo, hi, whole) <=> n >= lo /\ (whole => n <= hi)
  <1>. DEFINE d == Times("5", n)
              u == InChinese(d)
  <1>1. "5" \in Char /\ "zh" \in Char /\ "5" \in Digit /\ "5" \in AsciiWord
        /\ "zh" \notin AsciiWord /\ "zh" \notin Digit
    BY DEF Char, AsciiWord, Digit, CJK
  <1>2. d \in Seq(Char) /\ Len(d) = n /\ \A k \in 1..n : d[k] = "5" BY <1>1 DEF Times
  <1>. HIDE DEF d
  <1>3. /\ u \in Seq(Char) /\ Len(u) = n + 2 /\ u[1] = "zh" /\ u[n + 2] = "zh"
        /\ \A k \in 2..n + 1 : u[k] = "5"
    <2>. DEFINE v == <<"zh">> \o d
    <2>1. v \in Seq(Char) /\ Len(v) = n + 1 BY <1>1, <1>2
    <2>2. v[1] = "zh" BY <1>1, <1>2
    <2>3. ASSUME NEW k \in 2..n + 1 PROVE v[k] = "5"
      <3>1. v[k] = d[k - 1] BY <1>1, <1>2
      <3>. QED BY <1>2, <3>1
    <2>4. u = v \o <<"zh">> BY DEF InChinese
    <2>. HIDE DEF v, u
    <2>5. u \in Seq(Char) /\ Len(u) = n + 2 BY <1>1, <2>1, <2>4
    <2>6. u[1] = "zh" /\ u[n + 2] = "zh" BY <1>1, <2>1, <2>2, <2>4
    <2>7. \A k \in 2..n + 1 : u[k] = "5" BY <1>1, <2>1, <2>3, <2>4
    <2>. QED BY <2>5, <2>6, <2>7
  <1>. HIDE DEF u
  <1>4. ASSUME NEW k \in Int
        PROVE  /\ At(u, k, Digit) <=> k \in 2..n + 1
               /\ At(u, k, AsciiWord) <=> k \in 2..n + 1
    <2>1. DOMAIN u = 1..n + 2 BY <1>3
    <2>. QED BY <1>1, <1>3, <2>1 DEF At
  <1>5. ASSUME NEW i \in 1..Len(u), NEW m \in lo..hi,
               Run(u, i, m, Digit), whole => Alone(u, i, i + m)
        PROVE  n >= lo /\ (whole => n <= hi)
    <2>1. i \in Int /\ m \in Nat \ {0} /\ i \in i..i + m - 1 /\ i + m - 1 \in i..i + m - 1 BY <1>3
    <2>2. i \in 2..n + 1 /\ i + m - 1 \in 2..n + 1 BY <1>4, <1>5, <2>1 DEF Run
    <2>3. ASSUME whole PROVE m = n
      <3>1. i - 1 \notin 2..n + 1 /\ i + m \notin 2..n + 1 BY <1>4, <1>5, <2>1, <2>3 DEF Alone
      <3>. QED BY <2>1, <2>2, <3>1
    <2>. QED BY <2>1, <2>2, <2>3
  <1>6. ASSUME n >= lo, whole => n <= hi PROVE NumberIn(u, lo, hi, whole)
    <2>. DEFINE m == IF n <= hi THEN n ELSE hi
    <2>1. m \in lo..hi /\ m <= n /\ m \in Nat /\ (whole => m = n) BY <1>6
    <2>. HIDE DEF m
    <2>2. 2 \in 1..Len(u) BY <1>3
    <2>3. Run(u, 2, m, Digit)
      <3>1. \A k \in 2..2 + m - 1 : k \in Int /\ k \in 2..n + 1 BY <2>1
      <3>. QED BY <1>4, <3>1 DEF Run
    <2>4. whole => Alone(u, 2, 2 + m)
      <3>1. ASSUME whole PROVE Alone(u, 2, 2 + m)
        <4>1. 2 - 1 \in Int /\ 2 - 1 \notin 2..n + 1 /\ 2 + m \in Int /\ 2 + m \notin 2..n + 1
          BY <2>1, <3>1
        <4>. QED BY <1>4, <4>1 DEF Alone
      <3>. QED BY <3>1
    <2>. QED BY <2>1, <2>2, <2>3, <2>4 DEF NumberIn
  <1>7. NumberIn(u, lo, hi, whole) <=> n >= lo /\ (whole => n <= hi)
    BY <1>5, <1>6 DEF NumberIn
  <1>. QED BY <1>3, <1>7 DEF u, d

\* A pattern that finds just the numbers of lo to hi digits finds what the
\* samples of a number template say, and nothing that they exclude.
LEMMA NumberProbesHold ==
    ASSUME NEW s, NEW lens \in SUBSET (Nat \ {0}), NEW lo \in Nat \ {0}, NEW hi \in Nat, lo <= hi,
           s.wholeWord \in BOOLEAN, NEW p,
           \A t \in Seq(Char) : Finds(p, t) <=> NumberIn(t, lo, hi, s.wholeWord)
    PROVE  \A probe \in NumberProbes(<<>>, s, lens, lo, hi) : Finds(p, probe.text) <=> probe.found
  <1>. DEFINE whole == s.wholeWord
  <1>1. SUFFICES ASSUME NEW n \in lens,
                        NEW probe, probe = Probe(InChinese(<<>> \o Times("5", n)),
                                                 n >= lo /\ (whole => n <= hi))
                 PROVE  Finds(p, probe.text) <=> probe.found
    BY DEF NumberProbes
  <1>2. <<>> \o Times("5", n) = Times("5", n)
    <2>1. "5" \in Char BY DEF Char, AsciiWord, Digit
    <2>2. Times("5", n) \in Seq(Char) BY <2>1 DEF Times
    <2>. HIDE DEF whole
    <2>. QED BY <2>2
  <1>. DEFINE text == InChinese(Times("5", n))
  <1>3. probe.text = text /\ probe.found = (n >= lo /\ (whole => n <= hi)) BY <1>1, <1>2 DEF Probe
  <1>4. text \in Seq(Char) /\ (NumberIn(text, lo, hi, whole) <=> n >= lo /\ (whole => n <= hi))
    <2>. HIDE DEF whole
    <2>1. whole \in BOOLEAN BY DEF whole
    <2>. QED BY <2>1, NumberInChinese
  <1>. HIDE DEF text
  <1>5. Finds(p, text) <=> NumberIn(text, lo, hi, whole) BY <1>4
  <1>. HIDE DEF whole
  <1>. QED BY <1>3, <1>4, <1>5

\* What the templates for digits and for bank cards promise by their samples,
\* however their options are set.
THEOREM NumberTemplatesAreSound ==
    ASSUME None \notin Int
    PROVE  Sound["digits"] /\ Sound["bankcard"]
  <1>1. ASSUME NEW s \in Settings("digits")
        PROVE  \A probe \in Probes("digits", s) : Finds(build("digits", s), probe.text) <=> probe.found
    <2>. DEFINE lo == Least(s.minLen, s.maxLen)
                hi == Most(s.minLen, s.maxLen)
    <2>1. s.minLen \in {2, 4, 6} /\ s.maxLen \in {3, 8, 12} /\ s.wholeWord \in BOOLEAN
      BY DEF Settings
    <2>2. lo \in Nat \ {0} /\ hi \in Nat /\ lo <= hi BY <2>1 DEF Least, Most
    <2>3. Shortest(s) = lo /\ Longest(s) = hi
      <3>1. \A n \in {2, 3, 4, 6, 8, 12} : clampLen(n) = n BY DEF clampLen
      <3>. QED BY <2>1, <3>1 DEF Shortest, Longest
    <2>. HIDE DEF lo, hi
    <2>4. \A t \in Seq(Char) : Finds(buildDigits(s), t) <=> NumberIn(t, lo, hi, s.wholeWord)
      BY <2>1, <2>3, DigitsFindNumbers
    <2>5. 1..8 \in SUBSET (Nat \ {0}) OBVIOUS
    <2>6. \A probe \in NumberProbes(<<>>, s, 1..8, lo, hi) :
            Finds(buildDigits(s), probe.text) <=> probe.found
      BY <2>1, <2>2, <2>4, <2>5, NumberProbesHold
    <2>. QED BY <2>6 DEF Probes, build, lo, hi
  <1>2. ASSUME NEW s \in Settings("bankcard")
        PROVE  \A probe \in Probes("bankcard", s) : Finds(build("bankcard", s), probe.text) <=> probe.found
    <2>1. s.wholeWord \in BOOLEAN BY DEF Settings
    <2>. DEFINE lens == {15, 16, 19, 20}
    <2>. DEFINE lo == 16
                hi == 19
    <2>2. lens \in SUBSET (Nat \ {0}) /\ lo \in Nat \ {0} /\ hi \in Nat /\ lo <= hi OBVIOUS
    <2>3. \A t \in Seq(Char) : Finds(buildBankcard(s), t) <=> NumberIn(t, lo, hi, s.wholeWord)
      BY <2>1, BankcardsAreFound
    <2>. HIDE DEF lens, lo, hi
    <2>4. \A probe \in NumberProbes(<<>>, s, lens, lo, hi) :
            Finds(buildBankcard(s), probe.text) <=> probe.found
      BY <2>1, <2>2, <2>3, NumberProbesHold
    <2>. QED BY <2>4 DEF Probes, build, lens, lo, hi
  <1>. QED BY <1>1, <1>2 DEF Sound, TemplateIds
=============================================================================
