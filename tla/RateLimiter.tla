----------------------------- MODULE RateLimiter -----------------------------
(***************************************************************************)
(* The rate limiter (pkg/plugin/oss/ratelimiter.go) with its callers: the  *)
(* requests, which pass middleware_limit.go (Allow, then Status) or the    *)
(* MCP branch of pipeline.go (Allow only) and report their tokens when     *)
(* they end (proxy.go recordTokens), and the administrators, whose writes  *)
(* (admin/rate_limit.go) end in ReloadConfig.  Every limiter method is one *)
(* step, but ReloadConfig lists the stored configurations before it takes  *)
(* the mutex to swap them in, and an update reads before it writes.        *)
(***************************************************************************)
EXTENDS Meter, Sequences, FiniteSets

CONSTANTS
  Requests,    \* request goroutines; one serves request after request
  Admins,      \* administrators' goroutines
  Keys,        \* bucket keys: tenant and model
  MCPKeys,     \* those without a model, which the MCP branch uses
  Scopes,      \* per key, the scopes its rule is looked up under: tenant and
               \* model, tenant, global
  RowIds,      \* ids of rate_limit_configs rows
  Rules,       \* rules that administrators store
  Default,     \* the rule where no configuration matches
  Second,      \* units of time in the period of RequestsPerSec
  Minute,      \* units of time in the period of TokensPerMin
  IdleTTL,     \* bucketIdleTTL
  VisitLimit,  \* bucketFor sweeps idle buckets every VisitLimit visits (256)
  MaxTokens,   \* bound: tokens of one request
  NoRow, NoBucket, NoKey

Rule == [strategy : Strategies, rps : Nat \ {0}, tpm : Nat \ {0}]

AllScopes == UNION {{Scopes[k][i] : i \in 1..Len(Scopes[k])} : k \in Keys}

Row == [scope : AllScopes, rule : Rules, enabled : BOOLEAN]

ASSUME LimiterAssumption ==
  /\ IsFiniteSet(Requests)
  /\ MCPKeys \subseteq Keys /\ NoKey \notin Keys
  /\ DOMAIN Scopes = Keys
  /\ Rules \subseteq Rule /\ Default \in Rule
  /\ Second \in Nat \ {0} /\ Minute \in Nat \ {0} /\ VisitLimit \in Nat \ {0}
  /\ IdleTTL \in Nat /\ MaxTokens \in Nat

Bucket == [rule : Rule, idle : 0..(IdleTTL + 1),
           rps : [level : Int, age : 0..Second],
           tpm : [level : Int, age : 0..Minute]]

ASSUME NoValueAssumption ==
  NoRow \notin Row /\ NoRow \notin RowIds /\ NoBucket \notin Bucket

VARIABLES
  stored,    \* the rate_limit_configs table
  configs,   \* RateLimiter.configs, the copy that resolve reads
  buckets,   \* RateLimiter.buckets
  visits,    \* RateLimiter.visits
  pc, key,   \* a request: "idle", "passed" or "refused" (Allow returned,
             \* Status is next), "running"; the key it uses
  step,      \* an administrator: "idle", "saving", "listing", "swapping"
  draft,     \* the row that is about to be saved: [id, row]
  listed     \* the rows that ReloadConfig has listed

requestVars == <<pc, key>>
limiterVars == <<buckets, visits>>
adminVars   == <<stored, configs, step, draft, listed>>
vars == <<stored, configs, buckets, visits, pc, key, step, draft, listed>>

NoRows  == [i \in RowIds |-> NoRow]
NoDraft == [id |-> NoRow, row |-> NoRow]

Init ==
  /\ stored = NoRows /\ configs = NoRows
  /\ buckets = [k \in Keys |-> NoBucket]
  /\ visits = 0
  /\ pc = [r \in Requests |-> "idle"]
  /\ key = [r \in Requests |-> NoKey]
  /\ step = [a \in Admins |-> "idle"]
  /\ draft = [a \in Admins |-> NoDraft]
  /\ listed = [a \in Admins |-> NoRows]

-----------------------------------------------------------------------------
(* resolve: the enabled configuration of the most specific scope.          *)
Matches(rows, s) ==
  {rows[i].rule : i \in {j \in RowIds : /\ rows[j] # NoRow
                                        /\ rows[j].enabled
                                        /\ rows[j].scope = s}}

Winning(rows, k) ==
  UNION {Matches(rows, Scopes[k][i]) :
           i \in {j \in 1..Len(Scopes[k]) :
                   \A h \in 1..(j - 1) : Matches(rows, Scopes[k][h]) = {}}}

resolve(rows, k) ==
  IF Winning(rows, k) = {} THEN Default
  ELSE CHOOSE rule \in Winning(rows, k) : TRUE

NewBucket(rule) ==
  [rule |-> rule, idle |-> 0,
   rps |-> NewMeter(rule.strategy, rule.rps, Second),
   tpm |-> NewMeter(rule.strategy, rule.tpm, Minute)]

(* Variant: the sweep comes one visit late.                                *)
SweepDueLate == visits + 1 > VisitLimit

SweepDue == visits + 1 >= VisitLimit

(* Variant: the sweep drops buckets that are in use.                       *)
SweptInUse(k) == IF SweepDue THEN NoBucket ELSE buckets[k]

Swept(k) ==
  IF SweepDue /\ buckets[k] # NoBucket /\ buckets[k].idle > IdleTTL
  THEN NoBucket ELSE buckets[k]

(* A threshold is read when the bucket is made, and never again.           *)
bucketFor(k) ==
  IF Swept(k) = NoBucket THEN NewBucket(resolve(configs, k)) ELSE Swept(k)

(* A call of bucketFor(k) that leaves the bucket as b.                     *)
Visit(k, b) ==
  /\ visits' = IF SweepDue THEN 0 ELSE visits + 1
  /\ buckets' = [q \in Keys |->
                   IF q = k THEN [b EXCEPT !.idle = 0] ELSE Swept(q)]

RollTpm(b) == [b EXCEPT !.tpm = Roll(@, b.rule.strategy, Minute)]
RollRps(b) == [b EXCEPT !.rps = Roll(@, b.rule.strategy, Second)]

TokensLeft(b)   == Left(RollTpm(b).tpm, b.rule.strategy, b.rule.tpm, Minute)
RequestsLeft(b) == Left(RollRps(b).rps, b.rule.strategy, b.rule.rps, Second)

(* Variant: the tokens are counted and never looked at.                    *)
AllowsByRequests(b) == RequestsLeft(b)

Allows(b) == TokensLeft(b) /\ RequestsLeft(b)

(* The bucket after Allow: RPS is not touched when TPM refuses.            *)
AfterAllow(b) ==
  LET t == RollTpm(b)
      u == RollRps(t)
  IN  IF ~TokensLeft(b) THEN t
      ELSE IF ~RequestsLeft(b) THEN u
      ELSE [u EXCEPT !.rps = Use(@, b.rule.strategy, 1, Second)]

AfterRecord(b, n) ==
  [b EXCEPT !.tpm = Use(RollTpm(b).tpm, b.rule.strategy, n, Minute)]

Allow(k) == Visit(k, AfterAllow(bucketFor(k)))

-----------------------------------------------------------------------------
(* RateLimitMiddleware, the first call.                                    *)
Arrive(r) ==
  /\ pc[r] = "idle"
  /\ \E k \in Keys :
       /\ Allow(k)
       /\ pc' = [pc EXCEPT ![r] =
                   IF Allows(bucketFor(k)) THEN "passed" ELSE "refused"]
       /\ key' = [key EXCEPT ![r] = k]
  /\ UNCHANGED adminVars

(* Its second call: Status fills the headers or the 429 in.                *)
Status(r) ==
  /\ pc[r] \in {"passed", "refused"}
  /\ Visit(key[r], RollRps(bucketFor(key[r])))
  /\ pc' = [pc EXCEPT ![r] = IF @ = "passed" THEN "running" ELSE "idle"]
  /\ key' = [key EXCEPT ![r] = IF pc[r] = "passed" THEN @ ELSE NoKey]
  /\ UNCHANGED adminVars

(* The MCP branch: no Status, and no tokens are ever recorded.             *)
ArriveMCP(k) ==
  /\ k \in MCPKeys
  /\ Allow(k)
  /\ UNCHANGED <<requestVars, adminVars>>

(* The request ends having used n tokens; RecordTokens ignores zero.       *)
Finish(r, n) ==
  /\ pc[r] = "running"
  /\ IF n > 0 THEN Visit(key[r], AfterRecord(bucketFor(key[r]), n))
     ELSE UNCHANGED limiterVars
  /\ pc' = [pc EXCEPT ![r] = "idle"]
  /\ key' = [key EXCEPT ![r] = NoKey]
  /\ UNCHANGED adminVars

Goes(a, from, to) == step[a] = from /\ step' = [step EXCEPT ![a] = to]

ScopeTaken(s, i) ==
  \E j \in RowIds \ {i} : stored[j] # NoRow /\ stored[j].scope = s

(* createRateLimit and updateRateLimit up to their lookup.                 *)
Prepare(a) ==
  /\ Goes(a, "idle", "saving")
  /\ \E i \in RowIds, row \in Row :
       /\ \/ stored[i] = NoRow /\ ~ScopeTaken(row.scope, i)
             /\ \A o \in Admins : draft[o].id # i
          \/ stored[i] # NoRow
       /\ draft' = [draft EXCEPT ![a] = [id |-> i, row |-> row]]
  /\ UNCHANGED <<stored, configs, listed, limiterVars, requestVars>>

(* SaveRateLimitConfig, an upsert by id, which may fail, and does when it  *)
(* would give two rows the same tenant and model (UNIQUE).                 *)
Save(a) ==
  /\ \/ Goes(a, "saving", "idle") /\ UNCHANGED stored
     \/ LET d == draft[a]
        IN  /\ Goes(a, "saving", "listing")
            /\ ~ScopeTaken(d.row.scope, d.id)
            /\ stored' = [stored EXCEPT ![d.id] = d.row]
  /\ draft' = [draft EXCEPT ![a] = NoDraft]
  /\ UNCHANGED <<configs, listed, limiterVars, requestVars>>

Delete(a) ==
  /\ Goes(a, "idle", "listing")
  /\ \E i \in RowIds :
       stored[i] # NoRow /\ stored' = [stored EXCEPT ![i] = NoRow]
  /\ UNCHANGED <<configs, draft, listed, limiterVars, requestVars>>

(* ReloadConfig: list the table, then swap the copy in.                    *)
List(a) ==
  /\ Goes(a, "listing", "swapping")
  /\ listed' = [listed EXCEPT ![a] = stored]
  /\ UNCHANGED <<stored, configs, draft, limiterVars, requestVars>>

(* The listing fails; the handlers ignore the error and answer OK.         *)
ListFails(a) ==
  /\ Goes(a, "listing", "idle")
  /\ UNCHANGED <<stored, configs, draft, listed, limiterVars, requestVars>>

Swap(a) ==
  /\ Goes(a, "swapping", "idle")
  /\ configs' = listed[a]
  /\ listed' = [listed EXCEPT ![a] = NoRows]
  /\ UNCHANGED <<stored, draft, limiterVars, requestVars>>

OlderBucket(b) ==
  [b EXCEPT !.rps  = Older(@, b.rule.strategy, b.rule.rps, Second),
            !.tpm  = Older(@, b.rule.strategy, b.rule.tpm, Minute),
            !.idle = IF @ <= IdleTTL THEN @ + 1 ELSE @]

Tick ==
  /\ buckets' = [k \in Keys |-> IF buckets[k] = NoBucket THEN NoBucket
                                ELSE OlderBucket(buckets[k])]
  /\ UNCHANGED <<visits, requestVars, adminVars>>

Next ==
  \/ \E r \in Requests :
       Arrive(r) \/ Status(r) \/ \E n \in 0..MaxTokens : Finish(r, n)
  \/ \E k \in Keys : ArriveMCP(k)
  \/ \E a \in Admins :
       Prepare(a) \/ Save(a) \/ Delete(a) \/ List(a) \/ ListFails(a) \/ Swap(a)
  \/ Tick

Spec == Init /\ [][Next]_vars

FairSpec == Spec /\ WF_vars(Tick)

-----------------------------------------------------------------------------
TypeOK ==
  /\ stored \in [RowIds -> Row \cup {NoRow}]
  /\ configs \in [RowIds -> Row \cup {NoRow}]
  /\ buckets \in [Keys -> Bucket \cup {NoBucket}]
  /\ visits \in 0..(VisitLimit - 1)
  /\ pc \in [Requests -> {"idle", "passed", "refused", "running"}]
  /\ key \in [Requests -> Keys \cup {NoKey}]
  /\ \A r \in Requests : pc[r] # "idle" => key[r] \in Keys
  /\ step \in [Admins -> {"idle", "saving", "listing", "swapping"}]
  /\ draft \in [Admins -> [id : RowIds \cup {NoRow}, row : Row \cup {NoRow}]]
  /\ \A a \in Admins :
       step[a] = "saving" => draft[a].id \in RowIds /\ draft[a].row \in Row
  /\ listed \in [Admins -> [RowIds -> Row \cup {NoRow}]]

(* The requests that Allow let pass and that have not recorded tokens yet. *)
Unrecorded(k) == {r \in Requests : pc[r] \in {"passed", "running"} /\ key[r] = k}

(* TPM is only checked when a request starts, so it can be exceeded; but   *)
(* never by more than what the requests that were let in together use: a   *)
(* token bucket's debt and a window's excess stay below MaxTokens for each *)
(* request goroutine, whatever the reloads and sweeps in between.          *)
TokenDebtBounded ==
  \A k \in Keys : buckets[k] # NoBucket =>
    LET b == buckets[k]
        n == Cardinality(Requests)
    IN  IF b.rule.strategy = "token_bucket"
        THEN b.tpm.level >= Minute * (1 - MaxTokens * n)
        ELSE b.tpm.level <= b.rule.tpm - 1 + MaxTokens * n

(* ratelimiter.go:93 says that a reload keeps the counts and swaps the     *)
(* thresholds: when the swap is done, every bucket follows the new rule.   *)
ThresholdsSwapped ==
  [][\A a \in Admins : step[a] = "swapping" /\ step'[a] = "idle" =>
       \A k \in Keys :
         buckets'[k] # NoBucket => buckets'[k].rule = resolve(configs', k)]_vars

(* No key is refused for ever: however deep the debt and whoever competes  *)
(* for the tokens, some later request would be let in.                     *)
RefusalsEnd ==
  \A k \in Keys : []<>(buckets[k] = NoBucket \/ Allows(buckets[k]))
=============================================================================
