# A verification of NeuralGate in TLA+

NeuralGate is a gateway between applications and the providers of large
language models: one Go process with a proxy port (OpenAI- and
Anthropic-shaped requests, MCP relaying), an admin port (an API and the web
console that uses it, a single-page application in Vue) and a database. These modules model what in it is concurrent, stateful
and hard to test, check it with TLC on small instances, and prove the most
important facts with TLAPS for every instance.

## Reading guide

| Module | What it is |
|---|---|
| `Breaker` | the state machine of one upstream's circuit breaker, as operators on its entry |
| `BreakerRegistry` | the registry, the requests that use it, the prober, the clock |
| `BreakerContract` | what the breakers promise to those who share them: an abstract specification |
| `BreakerHistory` | the registry, with history variables that record what was reported |
| `BreakerProofs` | theorems about `BreakerRegistry` and `BreakerHistory` |
| `AuditLedger` | what the audit trail of a request is: an abstract specification |
| `SimpleAuditor` | the synchronous auditor and the table it saves to |
| `StreamAudit` | requests, streams, `Watch`, clients and the shutdown around it |
| `StreamAuditProofs` | theorems about `StreamAudit` |
| `BoundedQueue` | the abstract specification of the ring buffer |
| `RingBuffer` | the ring buffer down to its mutex and condition variables |
| `RingBufferProofs` | theorems about `RingBuffer`: safety and refinement |
| `Meter` | token bucket and window counter, as operators on one meter |
| `RateLimiter` | the limiter, its callers, and the administrators who reload it |
| `RateHistory` | the same, with a history of the requests let in and the tokens used |
| `RateLimiterProofs` | theorems about `RateLimiter` and `RateHistory` |
| `KeyAccess` | one API key with a quota: admission, charge, administrators |
| `TenantGate` | the cache of disabled tenants and its overlapping reloads |
| `KeyAccessProofs` | theorems about `KeyAccess` and `TenantGate` |
| `Session` | the console's session, navigation, login and refusals |
| `Dashboard` | the overview page: loads, charts, theme |
| `RegexBuilder` | the pattern library of the rule dialog, and what its patterns find |
| `RuleForm` | the dialog of a privacy rule with its pattern field |
| `ModelForm` | the form of a model and what the server makes of it |
| `ApiKeyPage` | the creation of keys, whose plain text is sent once |
| `ListPages` | loading, paging, filters and writes of the list pages |
| `PageProofs` | theorems about `Dashboard`, `ApiKeyPage` and `ListPages` |
| `FormProofs` | theorems about `RuleForm`, `ModelForm` and what `RegexBuilder` builds |
| `ConsoleProofs` | theorems about `Session` and about `MCConsole`, all parts together |
| `CommonValues` | the constant `None` that the last modules share |
| `MC*` | instances for TLC; each `.cfg` gives one run its constants |

An operator marked *Variant* is a faulty version of the operator after it. No
specification uses it: each property of a passing run is checked against one
of them, put in place of the correct operator, and must then fail.
`PROJECT.json` lists runs, variants, theorems, hazards, findings and, for every
definition, the lines of the source that it stands for.

## The system

| Component | State | Operations | Talks to |
|---|---|---|---|
| Circuit breaker (`breaker.go`) | per upstream: state, counters, timestamps; visit count | Selectable, Allow, Record, Release, recordProbe, sweep | called by proxy and prober under one mutex |
| Upstream selection (`proxy.go` pickHealthy) | the slice of candidates | filter, weighted draw, Allow | breaker |
| Health prober (`health_probe.go`) | none | GET each upstream, recordProbe | breaker, storage |
| Auditor (`audit_simple.go`) | `pending`: logs being assembled | Submit, SubmitSSEChunk, Finalize, MarkDisconnect, Shutdown | handlers, `Watch`, storage |
| Disconnect watcher (`disconnect_handler.go`) | one goroutine per stream | select on context and done | auditor |
| Proxy (`proxy.go`) | per request: context, chunks, tokens | handleProxy, handleStreaming, handlePassThrough, doWithRetry | all of these, the upstream |
| Ring buffer (`ring_buffer.go`) | array, indices, closed, waiters | Push, Pop, Close | producers, the audit worker |
| Rate limiter (`ratelimiter.go`) | cached rules, buckets per tenant and model | Allow, Status, RecordTokens, ReloadConfig | middleware, MCP branch, proxy, admin, storage |
| Rate-limit administration (`admin/rate_limit.go`) | table rows | create, update, delete, then reload | storage, limiter |
| API keys (`middleware_auth.go`, `admin/api_key.go`) | key rows with quota | authenticate, charge, create, change, delete | storage |
| Tenant gate (`tenant_gate.go`) | set of disabled tenants, time loaded | Allowed, reload | storage |
| Console accounts (`admin/auth.go`, `rbac.go`) | users, roles, sessions, failure counts | login, logout, password, user and role CRUD | storage |
| MCP relay (`mcp_relay.go`, `mcp_session.go`) | sessions with their upstream id | initialize, call, delete | auditor, upstream servers |
| Adapters (`pkg/adapter`) | decoder and encoder of one stream | request, response and stream translation | proxy |
| Life cycle (`main.go`, `health.go`) | draining flag, workers | start, drain, shut down | everything |
| Storage (`storage_sql.go`, `storage_mem.go`) | tables | upserts, queries | everything |
| License, configuration, overview figures, CRUD of the rest | mostly none | pure functions, rows | storage |
| Console session (`api/auth.ts`, `client.ts`, `router.ts`, `App.vue`, `Login.vue`) | token and identity in `localStorage`, route, calls | guard, login, logout, password, 401 interceptor | every page, admin API |
| Overview page (`Dashboard.vue`, `useTheme.ts`, `useChartTheme.ts`) | figures, window, load number, five charts | mount, load, retry, theme, unmount | admin API |
| Rule dialog (`regexBuilder.ts`, `RegexPatternField.vue`, `PrivacyRules.vue`) | form, template and options, who owns the pattern | choose, set, type, change kind, save | admin API |
| Model form (`ModelList.vue`) | form, catalogue | provider, protocol, address, fetch, save, switch | admin API, which asks the upstream |
| Key page (`ApiKeyList.vue`) | dialogs, the plain text | create, batch, list | admin API |
| List pages (14 of `views/*.vue`) | rows, page, filter, mask, dialog | load, page, filter, refresh, write | admin API |

What is hard here:

* the breaker is told results late, by requests that an earlier phase admitted,
  and slots are paired by convention (`Allow` with `Record` or `Release`);
* a stream has three actors, handler, `Watch` and client, and a shutdown on top,
  all ending in calls on one auditor whose saves may fail;
* condition variables with `Signal`, where others can overtake the one woken;
* the limiter charges tokens after the fact, forgets idle buckets, and reloads
  its rules in two steps;
* most admin handlers read a row, change it and write all of it back;
* the gate's cache is reloaded without a lock, page by page, by every request
  that finds it expired;
* a page of the console awaits its calls while its user goes on: answers
  overtake each other, come after the page or the session they belong to, or
  are lost after the server did its part; and nothing but the code's own
  discipline keeps what is drawn or written by hand in step with the data.

What makes each component correct, component by component: half-open slots are
neither lost nor exceeded and an open breaker stays open for its time; an
audited request is never lost, and is stored once, complete and in order when
nothing goes wrong; the ring is a bounded queue nobody waits on in vain; the
limits hold and refusals end; quotas are charged once; a disabled tenant, key
or account is out within the documented delay; there is always an active super
administrator; a tool call has one audit outcome; a translated stream is well
formed; nothing is saved to a storage that is closed; the console shows only
what its session opens, only figures that fit its controls, keeps what was
typed by hand, and loses no key.

## Circuit breaker

`Entry` is `upstreamBreaker`. A Go timestamp is kept as its age, which `Tick`
advances and which saturates at `AgeCap`, above every duration it is compared
with; so behaviours are finite without bounding time. `Advance` is what time
alone does at the start of both `Selectable` and `Allow`.

Every registry method runs under the mutex and begins with `breakerFor`, which
counts visits and every 256th time sweeps idle entries; `Visit` is that frame.
A request is `idle`, `picking` (filter loop, one `Selectable` per step; then
the select-then-Allow loop) or `sent`; it ends in `Abort` (release) or
`Report(ok)` (record). `handlePassThrough` makes the same calls. A result is
any Boolean: which errors count is not part of the model. `probing` is a
history variable: per upstream, the requests that the current half-open phase
admitted and that have not ended.

* `NoSlotLeak`: slots taken never exceed the requests that owe one.
* `OpenHolds`: an open breaker stays open for `OpenFor`. It has the premise
  `OpenFor <= IdleTTL`: with a cool-down above one hour the idle sweep would
  drop the entry and with it the cool-down. The configuration allows that.
* `TripNeedsFailures`: a trip takes `FailureThreshold` failures without a
  success between them.
* `KeepsContract`: the registry implements `BreakerContract`, in which there are
  no counters, windows, visits or sweeps, only what a request may rely on: an
  upstream that opened gets no request until it has cooled down or is
  forgotten; in trial it takes up to `ProbeConcurrency` at a time; a failed trial
  opens it again at once, a success never does. `Gate` is the refinement
  mapping: an entry that is absent and one that is closed are the same to a
  request, and what was not heard of an upstream counts only while it is open or
  in trial. A request that still owes a slot of an earlier trial may make the
  count of the contract too low (`GivenBack`, `Told`), as it does in the code;
  the contract does not promise more than the code keeps (see
  `TrialsWithinCap`). `SlotLimit`, that slots never exceed the cap, is proved.
* `SlotsComeBack` (liveness).

`TrialsWithinCap` and `TripsWithinWindow` state comments of `breaker.go` that
the code does not keep; see the findings. The window is restarted by every
failure, in `Record` and in `recordProbe`, so failures that each come within
`SampleWindow` of the one before add up over any time: TLC shows three failures
at 0, 1 and 2 with a window of 1. `lossAge` follows only such failures. That
neither method asks whether the window has passed, so that failures further
apart may count together too, is a finding of its own, stated from the code. `ClosedByOwnTrials` states another
of them for a reader and is not run: it fails for the same reason as
`TrialsWithinCap`.

## Audit of streams

A method of the auditor holds its mutex across the save, so it is one step.
The handler's steps are the calls it makes and the gaps between them; the one
that matters is between writing a chunk to the client and capturing it, where
`Watch` may come in. `EndScan` is any end of the scan loop: end of the stream,
failed write, read error. A client may leave at any time; net/http cancels the
context of every handler that has returned (`ServerCancels`), which `Watch`
may notice before `done`. `Stop` is `auditor.Shutdown`; handlers that
`http.Server.Shutdown` gave up waiting for run on until the process exits,
which any behaviour may do at any time because safety needs no further step.

`stored` keeps per request its rows in order. With `Backend = "sql"` a second
row of a request is refused by the primary key; with `"mem"` it is appended.
The storage refuses `MaxFailures` further saves, at moments of its choice.

* `KeepsLedger`: the trail of a request is the ledger of `AuditLedger`, pages of
  which the last is being written. `Pages` is the refinement mapping: the rows
  that are stored, then what is pending, be it nothing. So a chunk, once captured,
  is in one place and in its turn; a row is never empty and never rewritten; a
  refused save changes nothing. `Captured` counts the chunks: while the handler
  has written one and not yet captured it, that one is not yet noted.
* `RecordKept`, `CleanStreamExact`, `NoFalseDisconnect`: what is stored when, and
  under which reason. `FirstRowIsPrefix` (the first row holds a prefix of what
  the client got) is proved and not run.
* `DisconnectCompletes` (liveness).

## Ring buffer

`BoundedQueue` is what callers may rely on; `RingBuffer` the code. What runs
between locking and unlocking (or `Wait`) is one step. `Signal` wakes one of
the waiting goroutines if there is one; woken and new callers compete for the
mutex. `NoLostWakeup` is stronger than "no deadlock": as long as a producer is
parked, the producers already woken are enough for all free slots. The
refinement maps `queue` to the slots from `tail` on, `isClosed` to `closed`.

## Rate limiter

A bucket is keyed by tenant and model. A token bucket's level counts
*parts* of tokens, as many as its period has units of time, so that refilling
is integral; it is refilled at every `Tick` instead of lazily, which is the
same because refilling is additive and capped. Floating-point rounding is not
modelled. A window is rolled lazily, as in the code, since it opens when it is
touched. `Scopes` gives for a key the three scopes under which `resolve` looks.
A request calls `Allow`, then `Status` (which visits the bucket too), runs, and
records its tokens; the MCP branch calls `Allow` alone.

`create` and `update` are lookup (`Prepare`), upsert (`Save`, which the UNIQUE
constraint or the database may refuse), listing (`List`, may fail) and swap
(`Swap`); `delete` is one statement and the same reload. The listing is one
step: it is one query as long as there are at most a hundred rows.

* `TokenDebtBounded`: the TPM overrun is bounded by the requests in flight.
* `RateHolds`: over every stretch of time up to `Horizon`, no more requests are
  let in than burst plus refill, or limit times windows touched, and no more
  tokens are used than that and what the requests in flight add to the last
  token, whatever is swept, recreated and reloaded. So within the idle time a
  sweep forgets no debt of tokens. A debt that is deeper than what the idle time
  refills is forgiven by a later sweep; `TokenDebtBounded` bounds it.
* `RefusalsEnd` (liveness): a key can always be used again later.

## API keys

`KeyAccess` follows one key. `Admit` is the middleware's check of deletion,
status and quota (which only compares), `Charge` the one SQL statement that
adds the tokens of a request when it ends, and passes over a deleted row.
`ReadKey` and `WriteKey` are the two halves of `updateAPIKey`, which writes the
whole row back and with it clears the deletion mark; `DeleteKey` is one
statement. `consumed`, `dead`, `exposed` (tokens charged while some change of
the status was between its read and its write) and `overDelete` (the deletion
came there) are history variables.

* `QuotaOverrunBounded` says what the race of the two halves can cost, however
  many changes overlap: only charges that came between a read and its write are
  undone, so all tokens but the exposed ones stay charged, those are fewer than
  the quota and one request of each client, and a deletion that no change
  straddles lasts.
* `DeletedKeyDead` is what the console promises when it asks for confirmation.
  `key_revived` shows that it fails, by a deletion between a read and a write.

## Tenant gate

`TenantGate` looks at one tenant. `Allowed` is cut where the code reads or
writes something shared: the snapshot of the cache (`Look`), one query per page
of the listing (`ListPage`), the swap (`ListDone`, or `ListFails` when the count
or a page cannot be read, after which the gate is open for everybody), and the
second look (`Judge`). Any number of calls overlap. The tenant stands on a page
of the listing and moves to the one before when an earlier tenant is deleted,
as offsets do. Times are ages: of the cache, of the disabling, of each call;
`GateTick` lets no call of `Allowed` take longer than `Slow`. That is an
assumption on the database, not a deadline in the code; it is needed, and
`Slow <= TTL` says that a call does not outlive the cache it fills.

* `DisabledTenantOut`: a tenant disabled for longer than `TTL + Slow` is let in
  only by a load that was not whole, that is, one that failed or whose pages a
  deletion made pass over the tenant, and by that load for at most `TTL`. A
  reload that read the tenant before it was disabled may swap `Slow` later, and
  the cache then lives for `TTL`: the bound cannot be lowered. That a load that
  is not whole lets the tenant in at all is one of the findings.

## Console

The modules of the console follow one browser tab. A handler of the page runs
to its next `await` as one step, because JavaScript is single-threaded; what
comes after the `await` is another step, taken when the answer comes. Every
call may be answered late, fail, or be lost after the server did its part.
Where the code disables nothing, the user may go on clicking and typing.

**Session.** `token` and `identity` are the two items in `localStorage`; a
session is numbered and carries the identity the server gave with it. `Guard` is
the router's `beforeEach`, which may redirect (`Judged`); `Confirm` is the end of
the navigation, when the code of the page has come and it is shown. Between
the two, answers, logins and logouts happen. `CallEnds` with a refusal is the
interceptor: it forgets the token and sends the tab to the login page, except
on that page. `PasswordChanged` includes the server's part, which ends all the
account's sessions. `EnterAddress` and `BrowserLeaves` load the console anew;
only the store survives. The identity stays after a refusal, as in the code.

* `ShownOnlyWhatIsAllowed`: a page comes on screen only when the session stored
  at that moment opens it, or the tab is already leaving for the login page.
  It holds although the guard judged earlier because whatever takes the session
  away also starts another navigation, which replaces the pending one.
* `MetaCarriesToken`: the frame never asks for its data without a session.
  `main.ts` waits for the router before it mounts the frame for this reason.
* `NavigationSettles`, `RefusedEndsAtLogin` (liveness): redirects end, and a
  refusal ends at the login page or in another session.

**Overview.** A load is a number (`seq`), a window and an answer. `data` is
reactive, so the texts (`Shown`) are a function of it; the charts are drawn by
hand and are state of their own, which remembers the load and the theme it was
drawn with. What the page shows when it was left is nothing.

* `FiguresMatchWindow`: no overtaken answer wins; a failure shows no old figure.
* `ChartsMatchFigures`: charts and texts agree, in the theme's colours.

**Rule dialog.** `RegexBuilder` keeps patterns as sequences of atoms and gives
them a semantics (`After`, `Ends`, `Finds`), so that a builder can be compared
with what its options mean: `Probes` lists for every template and setting of its
options texts that must be found and texts that must not. `RuleForm` is the
field and the form around it: two tabs, a pattern that the builder owns or that
is written by hand, options that stay when the template changes, a kind that
changes the templates on offer, a replacement that a template proposes.

* `BuilderMeansItsOptions`: whichever template the dialog has, the pattern it
  builds finds what the options promise and nothing they exclude.
* `HandPatternKept`, `HandReplacementKept`: what was typed is overwritten only
  under the warning, or not at all.

**Model form.** `EditModelForm` is any change of provider, protocol, address,
tokens or key in any order; `ModelSaved` includes the server's `updateModelConfig`,
`toggleModel` writes the whole row as it is listed, `OtherAdmin` changes the row
from another console.

* `RowsCoherent`: what is stored and sent can be routed.
* `FetchAsksFormAddress`: the catalogue comes from the address on the form,
  although without a key the server asks the stored address.

**Key page.** `save` has two awaits, the creation and the list that follows; the
plain text is shown between them. Opening the dialog awaits two lists.

* `SingleKeyShown`: every key that was sent was on screen, also when the list
  fails.
* `OneKeyPerDialog`: one dialog makes one key, however often it is clicked.

**List pages.** `View` describes what tells the fourteen pages apart: whether
rows come in pages, how a filter takes effect, what follows a load, what a
write starts. (The audit log appears twice, for its two kinds of filters.) No
page numbers its loads.

* `OrderedListIsCurrent`: rows of the last load are of the page and the filter
  shown, and newer than every write the page was told of. What the missing
  numbers allow is in the model too: an older answer may come last and stay, and
  the mask ends with the first answer. No property judges either, because no
  document of the repository says that they must not happen.

`SpinnersAwaitAnswers`, over all of them: behind each loading mask and each
busy button there is an answer still to come.

## Runs

| Run | Instance | Shows |
|---|---|---|
| `breaker` | 1 upstream, 3 requests, thresholds and cap 2, open for 2, idle limit 2, sweep every 2 visits | types, slots, cool-down, trips, the contract |
| `breaker_pair` | 2 upstreams, 2 requests, thresholds 1, fair | `SlotsComeBack` (`NoSlotLeak` is proved for any upstreams) |
| `stream_audit` | 2 requests, 2 chunks, 1 refused save, SQL, fair | what is kept of requests and disconnects, the ledger |
| `ring_buffer` | 2 slots, 2 producers, 2 consumers, 2 events, fair | queue refinement, wake-ups, progress |
| `rate_limiter` | 2 requests, 1 key, 1 row, 1 administrator, both strategies, up to 2 tokens, periods of 2, fair | limits, types, refusals end |
| `breaker_trials`, `breaker_window` | as `breaker`, cap 1; the latter with 3 failures to a trip and a window of 1 | expected violations: comments of `breaker.go` |
| `stream_rows` | memory storage | expected violation: a second row |
| `stream_flush` | SQL, no refused save | expected violation: shutdown loses logs |
| `limiter_swap` | as `rate_limiter` | expected violation: a reload leaves buckets alone |
| `console` | `MCConsole`: 8 parts, see below, session fair | the console, a key, the tenant gate |
| `key_revived` | the key's part of `MCConsole` alone | expected violation: a deleted key is accepted again |

Why the bounds are enough for the cases that matter: three requests on one
breaker are the fewest that fill two slots and still have a late one from the
phase before; ages saturate one above the largest duration, so "before", "at"
and "after" each limit occur; sweeping every second visit makes a sweep hit an
entry between any two calls; two chunks are the fewest with a first, a late and
a repeated one; a ring of two with two threads on each side wraps, fills, and
has two goroutines parked on one condition; two requests of two tokens overdraw
a limit of one or two. The breaker's and the limiter's counters are bounded by
the model's own guards; `MaxFailures`, `MaxChunks`, `MaxTokens`, `AgeCap` and
`Horizon` are the only bounds, and each is a constant. `breaker`,
`breaker_pair`, `ring_buffer` and `rate_limiter` check deadlock; in the audit
model all requests may have ended, and in the console a user may have spent all
the steps that a bound allows, so these do not.

`MCConsole` puts eight parts side by side, and every behaviour is one of a
single part (`Parts`) while the others keep a state they begin with. This is
sound because the parts share no variable: one page of the console is on screen
at a time, and what a page does while it is open is in its own module. The
instances, and why they are enough:

| Part | Instance | Enough because |
|---|---|---|
| session | 2 identities (all rights; none), 4 pages, 2 logins, 3 moves | a call, a password change or a login of one session ends in another one, and two logins can be under way; the pages are one of each kind: login, with a permission, with a feature, with neither |
| dashboard | 2 windows, 3 loads | a first, an overtaken and a latest load |
| rules | 2 texts, 1 length, 2 options, 2 settings in a dialog | every template, tab and kind in any order; options are checked in all their values by `Probes`, not by steps |
| models | `openai`, `anthropic` and custom, 1 typed address, 2 edits, 1 other administrator | an edit, its undoing, and a change under the form |
| newkey | 4 keys, 2 openings | two dialogs of one, a failure and a batch |
| access | 2 clients, 2 administrators, quota 2, 2 tokens each, 8 in all | two requests overrun the quota; one administrator reads while the other writes |
| tenants | 2 callers, lifetime 2, call 1, 2 pages | two reloads overlap; "before", "at" and "after" the limit occur |
| lists | all 15 views, 2 filters, 2 pages, 3 loads, 2 writes | a load before, between and after two writes, in any order of answers |

Fairness: requests in `BreakerRegistry` are weakly fair, because pickHealthy
does not block and the HTTP client's timeout bounds the rest; an upstream or
the prober is not. In `StreamAudit` only `Watch` is fair, and only until the
shutdown. In `RingBuffer` a goroutine inside a call gets the mutex eventually
(Go's mutex has a starvation mode), and consumers call `Pop` again, which the
audit worker's loop does; nobody has to push or close. In `RateLimiter` only
time is fair. In `Session` two things are: a navigation goes on (the router and
the browser carry it out, and the page's code comes), and a login is answered
(the HTTP client gives up after 15 seconds). No other call has to be answered,
and no user has to do anything.

## Proofs

Every invariant and every action property that a run checks is also a theorem,
for every value of the constants that the named assumptions allow, with one
exception (`BuilderMeansItsOptions`); liveness stays with TLC. Types are part of
each inductive invariant. The specifications with fairness imply the ones
proved about.

`BreakerProofs`: `TypeOK`, `NoSlotLeak`, `SlotLimit` and `OpenHolds`, for any
set of upstreams, finite set of requests and thresholds that satisfy
`BreakerAssumption` and `RegistryAssumption`. `NoSlotLeak` alone is not
inductive. The invariant `IInv` adds that every member of `probing` is a
request that is `sent` to that upstream (so it will give back at most one
slot), that a slot count is at most the cap and at most the cardinality of
`probing`, and that an entry was seen no earlier than it opened
(`idle <= openAge` when open), which is what protects a cooling breaker from
the sweep. Each method of `Breaker` has a lemma on the entries it returns;
`VisitKeeps` lifts them to the registry. `TripNeedsFailures` follows from
`IInv` and one more fact, that a closed entry never counts more failures than
were reported to it since its last success (`Counted`). It is a theorem about
`BreakerHistory`, whose actions are those of `BreakerRegistry` and only observe
them. `RegistryKeepsContract` is the
refinement. Each method of `Breaker` is shown to do to `Gate` of an entry what
the contract says (`GateAdvance`, `GateTakeSlot`, `GateRecord`, one per method),
`BreakerFor` and the sweep to do no more than forget (`GateFound`), and
each action of the registry to be one action of the contract (`FilterLooks`, `PickAdmits`, `FinishTells`, `ProbeProbes`,
`TickPasses`). The steps start from `IInv`, for the ages and counts, and from
`Unsent`: a request that is not `sent` serves nobody.

`StreamAuditProofs`: `TypeOK` and `RecordKept`. The invariant adds that a
request that has not begun has nothing pending and nothing stored, and that a
log without metadata appears only after a first row with it. Every auditor call
has a lemma that does not depend on who makes it. `FirstRowIsPrefix`,
`NoFalseDisconnect` and `CleanStreamExact` speak of what rows contain and need
to know what `pending` contains at every step of the handler (`Row`): before
the first row exactly the chunks captured so far, which is one less than the
client got between the writing of a chunk and its capture (`Captured`); no
client's reason unless the client went (`Undisputed`), which is lost as soon as
a save fails, since `Watch` may then find the log after the return; and, while
nothing went wrong, just what was begun (`Exact`). `AuditKeepsLedger` is the
refinement, for any requests, number of refused saves and either storage. It
needs that a log that is being assembled is never blank (`Filed`), so that every
row that is stored turns a page. `SecondRowTakesDisconnect` says when a request
can have two rows, with either storage and any refused saves: only if its client
went away or after the shutdown, which is what `stream_rows` finds. While the
client stays, nothing is saved before the scan is over, and what is saved then
leaves nothing pending and nobody to add to it (`Lone`).

`RingBufferProofs`: `RingIsSafe`, the invariants `TypeOK`, `RingShape` and
`NoLostWakeup`, which together are inductive; and `RingIsQueue`, that every
step of the ring is a step of `BoundedQueue` under the mapping or leaves its
variables alone. Both hold for every size and any finite sets of producers and
consumers.

`RateLimiterProofs`: `TypeOK` and `TokenDebtBounded`, for any finite set of
requests, any keys, rules, periods and administrators that satisfy
`LimiterAssumption` and `NoValueAssumption`. `TokenDebtBounded` speaks of all
request goroutines and is not inductive: a bucket that owes what all of them
may owe must not let another request in before one has recorded. The invariant
says of each key how deep its debt may be by now: `Solvent(b, Free(k))`, what
as many requests may have left behind as are *not* between being let in and
recording. Letting a request in takes one from `Free(k)`, and is only done when
the bucket owes nothing (`AllowSound`); recording gives it back together with at
most `MaxTokens` of debt (`RecordSound`); time, rolling, sweeping and fresh
buckets only better it (`OlderSound`, `RollSound`, `NewBucketSound`). Reloads
matter only through `resolve`, which returns a rule from any rows
(`ResolveRule`). The bound is per key for a goroutine that serves one request
after another, so it holds over any number of requests.

`RateHolds` says how much was used, not how much may still be: it is not
inductive. `Pace` adds what the bucket has left, for requests and for tokens
alike. For a token bucket, what was counted over the last `h` units and what is
left are together within burst and refill, for every `h`; for a window, what was
counted over the current window and `q` earlier ones is within its count and `q`
limits. Tokens may go over the limit by what the requests in flight add to the
last token (`Last`), which `IInv` bounds. A bucket that is swept was idle so long
that nothing was counted within the horizon (`Quiet`, `Unheard`), so a fresh one
starts with its full burst honestly; that is where `Horizon <= IdleTTL` is used.
It is a theorem about `RateHistory`, whose actions are those of `RateLimiter`.

`KeyAccessProofs`: `AccessTypeOK` and `QuotaOverrunBounded`, for any finite set
of clients, any administrators and quota. The bound alone is not inductive: a
request in flight has used nothing yet. The invariant counts it as if it had
used the most it may (`Committed`), says of every row that was read for a
change what the property says of the row itself, for it will be written back
(`ChargesKept`), and adds that such a row was live and that no change is under
way once a deletion lasts (`DeletionLasts`). The same module proves `DisabledTenantOut` for any callers, pages and
durations. Its invariant follows the moment of a read: a call that saw the
tenant enabled is at least as old as the disabling (`CallsSound`), and so a
cache is at most one call younger than what it says (`CacheSound`); a call that
swapped and has not yet looked again finds a cache no older than itself, hence
not expired (`CacheYoung`).

`PageProofs`: of the overview `DashTypeOK`, `FiguresMatchWindow` and
`ChartsMatchFigures`, for any windows and number of loads. The figures need
`LatestAsked`: no request is numbered beyond the latest load, and while the
page loads what is asked under that number is one request, for the window
selected. Of the creation of keys `SingleKeyShown` and `OneKeyPerDialog`, for
any number of keys and openings: the busy button stands for exactly one
creation or list (`OneAtATime`), and an open dialog has made no key
(`UnspentWhileOpen`). Of the lists `OrderedListIsCurrent`, for any pages,
filters and bounds: whatever changes what the list should show also starts a
load, so the last load always asks for it (`LastLoadAsksForIt`); from there it
carries over to the rows.

`FormProofs`: of the rule dialog `HandReplacementKept` and `HandPatternKept`,
for any texts and lengths. A pattern is known to be by hand by its shape, which
no template builds (`BuiltIsNotByHand`); a kind with a single template builds
nothing as it is chosen, because there is no phrase yet (`OnlyTemplate`); what
building leaves alone is `RegeneratedKeeps`. Of the model form `RowsCoherent`
and `FetchAsksFormAddress`, for any providers and addresses. The row alone does
not keep itself coherent, since a form is saved over it and the switch of the
list sends back the row that was listed: the invariant says of the form that a
preset provider has its preset's address and that tokens are set only for
Anthropic's protocol (`GoodModel`), and of the listed row that it is coherent.

The same module says what the patterns of `RegexBuilder` find, in any text and
for any setting of the options named. Digits and bank cards: a run of digits of
a length between the two fields, each kept from 1 to 99, in whichever order they
were filled in (`DigitsFindNumbers`, `BankcardsAreFound`). A phrase: where the
trimmed text stands (`PhraseIsFound`). A prefix with digits: the digits that
follow it, where "whole word" looks to the left only if the prefix begins with a
word character (`PrefixDigitsAreFound`). Identity cards and phone numbers: their
digits (`IdcardsAreFound`, `PhonesAreFound`). From the first two it follows that
these templates keep what their samples promise, which is two parts of
`BuilderMeansItsOptions` (`NumberTemplatesAreSound`). A match is computed atom by
atom and repetition by repetition (`Reached`), so the argument is an induction
over both. The induction theorems of the library take an operator, which the
provers cannot instantiate; `NatInd` takes a set and is proved from the
well-foundedness of `<`. On it rest `ReachedIs` (the function exists and
computes what it says), `ClassReads` (a repeated class reads a run of its
length), `AtomByAtom` and `ReadInTurn` (a concatenation reads one after the
other), `LiteralReads` and `WrappedFinds` (word boundaries). A text is a sequence
over `Char`, the strings together with the characters that the model names: the
provers do not take a literal for a member of `STRING`.

`ConsoleProofs`: of the session `MetaCarriesToken` and `ShownOnlyWhatIsAllowed`,
for any identities and pages. Neither is inductive: a page is judged, and its
code comes later. The invariant follows the page that is coming: its session
still opens it, or the tab is already being sent away (`ComingIsAllowed`),
because whatever else changes the session gives the pending navigation up; and
while no frame stands, or the login page is on screen, nothing is under way
that could take the token (`BareStart`, `ComingHasSession`). Then, for all parts
side by side, `ConsoleTypeOK` and `SpinnersAwaitAnswers` from the conjunction of
their invariants (`ConsoleInv`). The counters of pages need more than types for
that: each write of a list page is under way or was counted once
(`WritesCounted`). A behaviour of the console is one of each part, so everything
proved of a part holds of the console, and `ConsoleIsSafe` states the properties that the
run `console` checks as theorems about it.

Only model-checked: liveness (`SlotsComeBack`, `DisconnectCompletes`,
`CloseDrains`, `BackPressureEnds`, `RefusalsEnd`, `NavigationSettles`,
`RefusedEndsAtLogin`), since fairness and `ENABLED` are out of the prover's
reach; and `BuilderMeansItsOptions` as a whole, over all templates, settings
and samples, which are finitely many, so that TLC's answer is complete for them.
What no theorem says of the builder: the separators of a phone number, the option
of a phrase for any space, and e-mail addresses, whose names may be of any length
before and after the sign.

## What is left out

Of the components modelled: `sweep()`, `Reset`, `BatchSubmit` and
`OverflowCount`, which nothing in the program calls or which return a constant;
`Snapshot` and `State`, which only read; fingerprints, which are stamped by a
function of the enterprise build; token counts and durations in a log (`meta`
stands for them); wording of every response. Data races that the comments
admit (`Watch` reads token counts that the handler may be writing) concern
fields the model does not have. A crash without a shutdown loses `pending`; no
document promises otherwise.

In the console: wording, layout, formatting of numbers and times, icons; the
folding of the side bar; the server's validation, beyond refusing. Exports and
the page of the system's information have no state. The dialog of a model's
further upstreams is fields without rules between them. The pattern field's
preview runs the browser's own engine. A tab is alone: two tabs that share one
store are not modelled.

## Not modelled

The enterprise package is not in the repository; what is built on it (license,
engines of privacy and compliance) is beyond these modules. Of the rest:

* Console accounts on the server (`admin/auth.go`, `rbac.go`): the login guard
  asks and counts in two steps, and the guard of the last super administrator
  looks at the changed row; the latter is a finding, read from the code.
* The MCP relay: sessions that expire under a running call, and one audit
  outcome per call. It would compose with `SimpleAuditor`.
* The stream translators between OpenAI and Anthropic: grammars of events, whose
  conversions are the larger part; also `doWithRetry` and the write deadlines.
* The order of shutdown in `main.go`, apart from the auditor's part, which
  `StreamAudit` has.
* Configuration, metrics, request and response conversions, single-row CRUD:
  no state of their own that interleavings could harm.

Hazards of the console that the modules contain as behaviours, or leave out, and
that no property judges because nothing in the repository promises otherwise:
the enter key submits a login twice (two sessions are issued); a late refusal of
an old session's call ends the new session, and a late success of a password
change logs out whoever is logged in by then (both are in `Session`); logout
does not end the session on the server; the success of a save closes whichever
dialog is open by then (in `RuleForm` and `ModelForm`); a catalogue that comes
late is shown over another model's form (in `ModelForm`); a filter that was
typed but not applied takes effect when the page is turned (in `ListPages`).

## Findings

`PROJECT.json` quotes each of them with the line it contradicts. Six are shown
by a run of their own. The others were met while modelling and are stated from
the code: the gate's bound is exceeded when a reload fails or skips
(`tenant_gate.go`); failures further apart than the sampling window may count
together (`breaker.go`); the last super administrator can be removed (`rbac.go`); a
retry may repeat a request that arrived (`proxy.go`); choosing a template
generates nothing, a new rule inherits the action of the one edited before, the
plain texts of a batch of keys are lost, the header keeps an old name, and
exporting the audit log is refused (console).
