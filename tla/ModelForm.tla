----------------------------- MODULE ModelForm -----------------------------
(***************************************************************************)
(* The models page of the console, webui/src/views/ModelList.vue: the form *)
(* of a model, the catalogue that is fetched from its upstream and the     *)
(* switch in the list; with what the                                       *)
(* server's handlers make of their requests.  One model is stored, other   *)
(* administrators may change it, and the page learns of that by loading.   *)
(***************************************************************************)
EXTENDS Naturals, CommonValues

CONSTANTS
    Builtin,    \* providers with a preset address besides "anthropic"
    Addresses,  \* addresses that are typed
    MaxEdits,   \* bound: changes of the form in one dialog
    MaxOthers   \* bound: changes by other administrators

ASSUME ModelFormAssumption ==
    /\ MaxEdits \in Nat /\ MaxOthers \in Nat
    /\ None \notin Addresses \cup Builtin \cup {"anthropic", "custom"}
    /\ "openai" \in Builtin /\ "anthropic" \notin Builtin /\ "custom" \notin Builtin

VARIABLES
    row,          \* the model as the server has it
    listed,       \* the model as the list shows it, None before it loaded
    modelForm,    \* the dialog on screen, or None
    modelSaving,  \* the request being saved, or None
    fetching,     \* a catalogue is being fetched
    picker,       \* the catalogue is on screen
    edits,        \* changes of the form in this dialog
    others        \* changes by other administrators

modelVars == <<row, listed, modelForm, modelSaving, fetching, picker, edits, others>>

Presets == Builtin \cup {"anthropic"}
Providers == Presets \cup {"custom"}

\* BUILTIN_BASE_URLS: a provider's preset address is named like the provider.
Preset(p) == p
Urls == Presets \cup Addresses \cup {None}
Adapters == {"openai", "anthropic", None}
Rows == [provider : Providers, url : Urls, adapter : Adapters, tokens : {0, 4096}]

\* isAnthropic; of a row, whether its requests go to /v1/messages.
isAnthropic(m) == m.provider = "anthropic" \/ (m.provider \notin Presets /\ m.adapter = "anthropic")

(***************************************************************************)
(* The form.                                                               *)
(***************************************************************************)
\* The form of a stored model remembers the address that was listed.
Editing(f) == f.was # None

upstreamAddressChanged(f) == Editing(f) /\ f.url # f.was

\* The form as it was before the second half of its fetch button's rule.
canFetchAnyAddress(f) == ~isAnthropic(f) /\ f.url # None /\ (f.key \/ Editing(f))

\* fetchDisabledReason = ''
canFetch(f) ==
    /\ ~isAnthropic(f)
    /\ f.url # None
    /\ IF ~f.key /\ Editing(f) THEN ~upstreamAddressChanged(f) ELSE f.key

\* The same without its second branch.
syncTokensUp(f) == IF isAnthropic(f) /\ f.tokens = 0 THEN [f EXCEPT !.tokens = 4096] ELSE f

syncDefaultMaxTokens(f) ==
    [f EXCEPT !.tokens = IF ~isAnthropic(f) THEN 0 ELSE IF f.tokens = 0 THEN 4096 ELSE f.tokens]

WithDefaultAdapter(f) == [f EXCEPT !.adapter = IF f.adapter = None THEN "openai" ELSE f.adapter]

onProviderChange(f, p) ==
    LET g == [f EXCEPT !.provider = p]
    IN syncDefaultMaxTokens(
           IF p \in Presets THEN [g EXCEPT !.url = Preset(p), !.adapter = None]
           ELSE WithDefaultAdapter([g EXCEPT !.url = None]))

onProtocolChange(f, a) == syncDefaultMaxTokens([f EXCEPT !.adapter = a])

\* The payload of a save: the form's, with its adapter made to fit.
Payload(f) == IF f.provider \in Presets THEN [f EXCEPT !.adapter = None] ELSE WithDefaultAdapter(f)

\* The row that the server makes of a payload.
RowOf(f) == [provider |-> f.provider, url |-> f.url, adapter |-> f.adapter, tokens |-> f.tokens]

\* A preset provider comes with its address and no adapter, another with an
\* address; a default number of tokens is for Anthropic's protocol only.
Coherent(r) ==
    /\ r.url # None
    /\ r.provider \in Presets => r.url = Preset(r.provider) /\ r.adapter = None
    /\ r.provider \notin Presets => r.url \in Addresses
    /\ r.tokens # 0 => isAnthropic(r)

(***************************************************************************)
(* Steps.                                                                  *)
(***************************************************************************)
\* A coherent row, also one of an earlier release: a custom provider may have
\* no adapter.
ModelInit ==
    /\ row \in {r \in Rows : Coherent(r)}
    /\ listed = None
    /\ modelForm = None
    /\ modelSaving = None
    /\ fetching = FALSE
    /\ picker = FALSE
    /\ edits = 0
    /\ others = 0

\* load()
LoadModels ==
    /\ listed' = row
    /\ UNCHANGED <<row, modelForm, modelSaving, fetching, picker, edits, others>>

OpenModelForm(f) ==
    /\ modelForm = None
    /\ modelForm' = f
    /\ edits' = 0
    /\ UNCHANGED <<row, listed, modelSaving, fetching, picker, others>>

BlankForm == [was |-> None, provider |-> "openai", url |-> Preset("openai"), key |-> FALSE,
              adapter |-> None, tokens |-> 0]

openModelCreate == OpenModelForm(BlankForm)

openModelEdit ==
    /\ listed # None
    /\ LET f == [was |-> listed.url, provider |-> listed.provider, url |-> listed.url, key |-> FALSE,
                 adapter |-> listed.adapter, tokens |-> listed.tokens]
       IN OpenModelForm(IF listed.provider \in Presets THEN f ELSE WithDefaultAdapter(f))

\* A change of the form; the catalogue's dialog covers it.
Edit(f) ==
    /\ ~picker
    /\ edits < MaxEdits
    /\ modelForm' = f
    /\ edits' = edits + 1
    /\ UNCHANGED <<row, listed, modelSaving, fetching, picker, others>>

\* The address field of a preset provider is locked, its adapter hidden.
EditModelForm ==
    /\ modelForm # None
    /\ \/ \E p \in Providers \ {modelForm.provider} : Edit(onProviderChange(modelForm, p))
       \/ /\ modelForm.provider \notin Presets
          /\ \/ \E a \in {"openai", "anthropic"} \ {modelForm.adapter} : Edit(onProtocolChange(modelForm, a))
             \/ \E u \in Addresses \ {modelForm.url} : Edit([modelForm EXCEPT !.url = u])
       \/ isAnthropic(modelForm) /\ Edit([modelForm EXCEPT !.tokens = IF modelForm.tokens = 0 THEN 4096 ELSE 0])
       \/ Edit([modelForm EXCEPT !.key = ~modelForm.key])

closeModelForm ==
    /\ modelForm # None /\ ~picker
    /\ modelForm' = None
    /\ edits' = 0
    /\ UNCHANGED <<row, listed, modelSaving, fetching, picker, others>>

\* saveModel up to its await.
saveModel ==
    /\ modelForm # None /\ ~picker
    /\ modelSaving = None
    /\ modelSaving' = Payload(modelForm)
    /\ modelForm' = Payload(modelForm)
    /\ UNCHANGED <<row, listed, fetching, picker, edits, others>>

\* What updateModelConfig stores; createModelConfig stores another row.
StoredRow(f) == IF Editing(f) THEN RowOf(f) ELSE row

\* The server's handler, then saveModel from its await on: the dialog there
\* is closes and the list loads.
ModelSaved ==
    /\ modelSaving # None
    /\ modelSaving.url # None
    /\ row' = StoredRow(modelSaving)
    /\ listed' = row'
    /\ modelSaving' = None
    /\ modelForm' = None
    /\ edits' = 0
    /\ UNCHANGED <<fetching, picker, others>>

\* The server refuses a row without an address; or the request fails, or its
\* answer is lost after the server did its part.
ModelSaveFailed ==
    /\ modelSaving # None
    /\ row' \in {row} \cup (IF modelSaving.url # None THEN {StoredRow(modelSaving)} ELSE {})
    /\ modelSaving' = None
    /\ UNCHANGED <<listed, modelForm, fetching, picker, edits, others>>

\* toggleModel: the whole row as listed, with only its switch (which is not
\* modelled) changed; then the list loads.
toggleModel ==
    /\ listed # None /\ modelForm = None
    /\ row' = listed
    /\ listed' = row'
    /\ UNCHANGED <<modelForm, modelSaving, fetching, picker, edits, others>>

\* The same row is edited in another administrator's console.
OtherAdmin ==
    /\ others < MaxOthers
    /\ \E p \in Providers \ {row.provider} :
          \E u \in IF p \in Presets THEN {Preset(p)} ELSE Addresses :
             LET f == onProviderChange(row, p)
             IN row' = [f EXCEPT !.url = u]
    /\ others' = others + 1
    /\ UNCHANGED <<listed, modelForm, modelSaving, fetching, picker, edits>>

(***************************************************************************)
(* The catalogue.                                                          *)
(***************************************************************************)
\* listUpstreamModels of the server: with a key the address it was given,
\* without one the stored key at the stored address.
Served(f) == IF f.key THEN f.url ELSE row.url

\* openModelPicker up to its await; its button shows that it is loading.
openModelPicker ==
    /\ modelForm # None /\ ~picker
    /\ ~fetching
    /\ canFetch(modelForm)
    /\ fetching' = TRUE
    /\ UNCHANGED <<row, listed, modelForm, modelSaving, picker, edits, others>>

\* openModelPicker from its await on.
CatalogueCame(ok) ==
    /\ fetching
    /\ fetching' = FALSE
    /\ picker' = (ok \/ picker)
    /\ UNCHANGED <<row, listed, modelForm, modelSaving, edits, others>>

\* pickModel, or the dialog is closed without a choice.  The name picked goes
\* into the form there is; names are not told apart.
pickModel ==
    /\ picker
    /\ picker' = FALSE
    /\ UNCHANGED <<row, listed, modelForm, modelSaving, fetching, edits, others>>

ModelAnswered == ModelSaved \/ ModelSaveFailed \/ \E ok \in BOOLEAN : CatalogueCame(ok)

ModelNext ==
    \/ LoadModels \/ openModelCreate \/ openModelEdit \/ EditModelForm \/ closeModelForm
    \/ saveModel \/ toggleModel \/ OtherAdmin \/ openModelPicker \/ pickModel
    \/ ModelAnswered

ModelSpec == ModelInit /\ [][ModelNext]_modelVars

(***************************************************************************)
(* Properties.                                                             *)
(***************************************************************************)
ModelTypeOK ==
    /\ row \in Rows
    /\ listed \in Rows \cup {None}
    /\ \A f \in {modelForm, modelSaving} \ {None} :
          /\ f.provider \in Providers /\ f.url \in Urls /\ f.adapter \in Adapters
          /\ f.key \in BOOLEAN /\ f.was \in Urls
    /\ fetching \in BOOLEAN /\ picker \in BOOLEAN
    /\ edits \in 0..MaxEdits /\ others \in 0..MaxOthers

\* However the provider, the protocol, the address and the tokens are changed
\* in whatever order, what is stored is coherent, and every row that is sent
\* and that the server will not refuse is so, with a protocol for a custom
\* provider: the gateway would send it to a wrong address or path otherwise.
RowsCoherent ==
    /\ Coherent(row)
    /\ modelSaving # None =>
          (modelSaving.url # None =>
              Coherent(RowOf(modelSaving)) /\ (modelSaving.provider \notin Presets => modelSaving.adapter # None))

\* While the fetch button can be pressed, the server would ask the address on
\* the form for its catalogue, although without a key it ignores the address
\* it is sent; unless the model has moved since it was listed, by another
\* administrator or by a save of one's own whose answer was lost.
FetchAsksFormAddress ==
    modelForm # None =>
        (canFetch(modelForm) /\ (Editing(modelForm) => modelForm.was = row.url)
            => Served(modelForm) = modelForm.url)
=============================================================================
