-------------------------- MODULE KeyAccessProofs --------------------------
(***************************************************************************)
(* A key overruns its quota by no more than the requests that were in      *)
(* flight with its last token can use and what changes of its status could *)
(* undo, for any clients, administrators and quota.  The bound by itself   *)
(* is not inductive: a request in flight may still use MaxTokens, so it is *)
(* counted as if it had; what a change has read must be behind by no more  *)
(* than the row may be, for it becomes the row; and a row that a change    *)
(* has read was live.  And a disabled tenant is kept out, for any callers, *)
(* pages and durations; that invariant follows the moment of each read     *)
(* through the call that made it into the cache.                           *)
(***************************************************************************)
EXTENDS KeyAccess, TenantGate, FiniteSetTheorems, TLAPS

\* The tokens used, with the most that the requests in flight may still use.
Committed == consumed + Cardinality(inFlight) * MaxTokens

ReadLive == \A a \in Admins : read[a] # None => ~read[a].deleted

\* A number of charged tokens that lacks at most what was exposed.
Tracks(used) == used <= consumed /\ consumed <= used + exposed

ChargesKept ==
    /\ Tracks(key.used)
    /\ \A a \in Admins : read[a] # None => Tracks(read[a].used)

InFlightBounded == Committed < Quota + Overrun + exposed

\* After a deletion that no change straddles, nothing can be read any more.
DeletionLasts == dead /\ ~overDelete => key.deleted /\ ~Changing

AccessInv == AccessTypeOK /\ ReadLive /\ ChargesKept /\ InFlightBounded /\ DeletionLasts

LEMMA ProductMonotone ==
    ASSUME NEW m \in Nat, NEW n \in Nat, m <= n, NEW k \in Nat PROVE m * k <= n * k
  <1>1. n - m \in Nat /\ (n - m) * k \in Nat OBVIOUS
  <1>2. n * k = m * k + (n - m) * k OBVIOUS
  <1>. QED BY <1>1, <1>2

LEMMA Exchanged ==
    ASSUME NEW u \in Int, NEW v \in Int, NEW n \in Int, NEW most \in Int, NEW x \in Int, NEW limit \in Int,
           n <= most, v <= u + n, u + x < limit
    PROVE  v + (x - most) < limit
  OBVIOUS

LEMMA InFlightCounted ==
    ASSUME NEW S \in SUBSET Clients
    PROVE  /\ IsFiniteSet(S)
           /\ Cardinality(S) \in Nat /\ Cardinality(Clients) \in Nat
           /\ Cardinality(S) * MaxTokens \in Nat /\ Overrun \in Nat
           /\ Cardinality(S) * MaxTokens <= Overrun
  <1>1. IsFiniteSet(S) /\ Cardinality(S) <= Cardinality(Clients)
    BY KeyAccessAssumption, FS_Subset
  <1>2. Cardinality(S) \in Nat /\ Cardinality(Clients) \in Nat
    BY <1>1, KeyAccessAssumption, FS_CardinalityType
  <1>3. MaxTokens \in Nat BY KeyAccessAssumption
  <1>4. Cardinality(S) * MaxTokens <= Cardinality(Clients) * MaxTokens
    BY <1>1, <1>2, <1>3, ProductMonotone
  <1>5. Cardinality(S) * MaxTokens \in Nat /\ Cardinality(Clients) * MaxTokens \in Nat
    BY <1>2, <1>3
  <1>. QED BY <1>1, <1>2, <1>4, <1>5 DEF Overrun

LEMMA AccessNumbers ==
    ASSUME AccessTypeOK
    PROVE  /\ key \in KeyRow /\ key.used \in Nat /\ consumed \in Nat /\ exposed \in Nat
           /\ \A a \in Admins : read[a] # None => read[a] \in KeyRow /\ read[a].used \in Nat
           /\ Quota \in Nat /\ MaxTokens \in Nat
  BY KeyAccessAssumption DEF AccessTypeOK, KeyRow

LEMMA AccessInitOK == AccessInit => AccessInv
  <1> SUFFICES ASSUME AccessInit PROVE AccessInv OBVIOUS
  <1>1. AccessTypeOK BY DEF AccessInit, AccessTypeOK, KeyRow, Statuses
  <1>2. ReadLive /\ ChargesKept /\ DeletionLasts
    BY DEF AccessInit, ReadLive, ChargesKept, Tracks, DeletionLasts
  <1>3. InFlightBounded
    <2>1. Cardinality(inFlight) = 0 BY FS_EmptySet DEF AccessInit
    <2>2. Committed = 0 BY <2>1, KeyAccessAssumption DEF Committed, AccessInit
    <2>3. Overrun \in Nat BY InFlightCounted DEF AccessInit
    <2>. QED BY <2>2, <2>3, KeyAccessAssumption DEF InFlightBounded, AccessInit
  <1>. QED BY <1>1, <1>2, <1>3 DEF AccessInv

\* A request is admitted below the quota, as far as the row knows.
LEMMA AdmitKeeps == ASSUME AccessInv, NEW c \in Clients, Admit(c) PROVE AccessInv'
  <1>1. AccessTypeOK' BY DEF AccessInv, AccessTypeOK, Admit, historyVars
  <1>2. ReadLive' /\ ChargesKept' /\ DeletionLasts'
    BY DEF AccessInv, ReadLive, ChargesKept, Tracks, DeletionLasts, Changing, Admit, historyVars
  <1>3. InFlightBounded'
    <2>1. consumed \in Nat /\ exposed \in Nat /\ Quota \in Nat /\ consumed < Quota + exposed
      BY AccessNumbers DEF AccessInv, ChargesKept, Tracks, Admit, Accepted
    <2>2. inFlight' \in SUBSET Clients BY <1>1 DEF AccessTypeOK
    <2>3. Cardinality(inFlight') * MaxTokens \in Nat /\ Overrun \in Nat
          /\ Cardinality(inFlight') * MaxTokens <= Overrun
      BY <2>2, InFlightCounted
    <2>4. consumed + Cardinality(inFlight') * MaxTokens < Quota + Overrun + exposed BY <2>1, <2>3
    <2>. QED BY <2>4 DEF InFlightBounded, Committed, Overrun, Admit, historyVars
  <1>. QED BY <1>1, <1>2, <1>3 DEF AccessInv

\* What is charged under a change that is under way is exposed.
LEMMA ChargeKeeps ==
    ASSUME AccessInv, NEW c \in Clients, NEW n \in 0..MaxTokens, Charge(c, n) PROVE AccessInv'
  <1>0. MaxTokens \in Nat /\ n \in Nat /\ n <= MaxTokens BY KeyAccessAssumption
  <1>1. /\ key \in KeyRow /\ key.used \in Nat /\ consumed \in Nat /\ exposed \in Nat
        /\ \A a \in Admins : read[a] # None => read[a].used \in Nat
        /\ Quota \in Nat
    BY AccessNumbers DEF AccessInv
  <1>2. \/ /\ ~key.deleted /\ key' = [key EXCEPT !.used = @ + n] /\ consumed' = consumed + n
           /\ exposed' = IF Changing THEN exposed + n ELSE exposed
        \/ key.deleted /\ UNCHANGED <<key, consumed, exposed>>
    BY DEF Charge
  <1>3. /\ key' \in KeyRow /\ consumed' \in Nat /\ exposed' \in Nat /\ key'.deleted = key.deleted
        /\ UNCHANGED <<read, dead, overDelete>>
    BY <1>0, <1>1, <1>2 DEF Charge, KeyRow
  <1>4. AccessTypeOK' BY <1>3 DEF AccessInv, AccessTypeOK, Charge
  <1>5. ReadLive' /\ DeletionLasts' BY <1>3 DEF AccessInv, ReadLive, DeletionLasts, Changing
  <1>6. ChargesKept'
    <2>1. CASE UNCHANGED <<key, consumed, exposed>>
      BY <1>3, <2>1 DEF AccessInv, ChargesKept, Tracks
    <2>2. CASE key' = [key EXCEPT !.used = @ + n] /\ consumed' = consumed + n
               /\ exposed' = IF Changing THEN exposed + n ELSE exposed
      <3>1. key'.used = key.used + n BY <1>1, <2>2 DEF KeyRow
      <3>2. key'.used <= consumed' /\ consumed' <= key'.used + exposed'
        BY <1>0, <1>1, <2>2, <3>1 DEF AccessInv, ChargesKept, Tracks
      <3>3. ASSUME NEW a \in Admins, read[a] # None
            PROVE  read[a].used <= consumed' /\ consumed' <= read[a].used + exposed'
        <4>1. exposed' = exposed + n BY <2>2, <3>3 DEF Changing
        <4>. QED BY <1>0, <1>1, <2>2, <3>3, <4>1 DEF AccessInv, ChargesKept, Tracks
      <3>. QED BY <1>3, <3>2, <3>3 DEF ChargesKept, Tracks
    <2>. QED BY <1>2, <2>1, <2>2
  <1>7. InFlightBounded'
    <2>1. inFlight \in SUBSET Clients /\ c \in inFlight BY DEF AccessInv, AccessTypeOK, Charge
    <2>. DEFINE k == Cardinality(inFlight)
    <2>2. k \in Nat /\ IsFiniteSet(inFlight) /\ Overrun \in Nat BY <2>1, InFlightCounted
    <2>3. Cardinality(inFlight') = k - 1 BY <2>1, <2>2, FS_RemoveElement DEF Charge
    <2>. HIDE DEF k
    <2>4. consumed' <= consumed + n /\ exposed <= exposed' BY <1>0, <1>1, <1>2
    <2>. DEFINE before == k * MaxTokens
                after == Cardinality(inFlight') * MaxTokens
    <2>5. before \in Int /\ after = before - MaxTokens BY <1>0, <2>2, <2>3
    <2>6. consumed + before < Quota + Overrun + exposed
      BY DEF AccessInv, InFlightBounded, Committed, k
    <2>. HIDE DEF before, after
    <2>7. consumed' + after < Quota + Overrun + exposed'
      <3>1. Quota + Overrun + exposed \in Int /\ after \in Int BY <1>0, <1>1, <2>2, <2>5
      <3>2. consumed' + (before - MaxTokens) < Quota + Overrun + exposed
        BY <1>0, <1>1, <1>3, <2>4, <2>5, <2>6, <3>1, Exchanged
      <3>. QED BY <1>1, <1>3, <2>2, <2>4, <2>5, <3>1, <3>2
    <2>. QED BY <2>7 DEF InFlightBounded, Committed, Overrun, after
  <1>. QED BY <1>4, <1>5, <1>6, <1>7 DEF AccessInv

LEMMA ReadKeeps == ASSUME AccessInv, NEW a \in Admins, ReadKey(a) PROVE AccessInv'
  <1>1. AccessTypeOK' BY DEF AccessInv, AccessTypeOK, ReadKey, historyVars
  <1>2. ReadLive' /\ ChargesKept'
    BY DEF AccessInv, AccessTypeOK, ReadLive, ChargesKept, Tracks, ReadKey, historyVars
  <1>3. InFlightBounded' BY DEF AccessInv, InFlightBounded, Committed, Overrun, ReadKey, historyVars
  <1>4. DeletionLasts' BY DEF AccessInv, DeletionLasts, ReadKey, historyVars
  <1>. QED BY <1>1, <1>2, <1>3, <1>4 DEF AccessInv

\* What a change wrote lacks no more than was exposed since it read.
LEMMA WriteKeeps ==
    ASSUME AccessInv, NEW a \in Admins, NEW status \in Statuses, WriteKey(a, status)
    PROVE  AccessInv'
  <1>1. read[a] \in KeyRow BY DEF AccessInv, AccessTypeOK, WriteKey
  <1>2. key' \in KeyRow /\ key'.used = read[a].used /\ key'.deleted = read[a].deleted
    BY <1>1 DEF WriteKey, KeyRow
  <1>3. AccessTypeOK' BY <1>2 DEF AccessInv, AccessTypeOK, WriteKey, historyVars
  <1>4. ReadLive' BY DEF AccessInv, AccessTypeOK, ReadLive, WriteKey
  <1>5. ChargesKept'
    BY <1>2 DEF AccessInv, AccessTypeOK, ChargesKept, Tracks, WriteKey, historyVars
  <1>6. InFlightBounded' BY DEF AccessInv, InFlightBounded, Committed, Overrun, WriteKey, historyVars
  <1>7. DeletionLasts' BY DEF AccessInv, DeletionLasts, Changing, WriteKey, historyVars
  <1>. QED BY <1>3, <1>4, <1>5, <1>6, <1>7 DEF AccessInv

LEMMA DeleteKeeps == AccessInv /\ DeleteKey => AccessInv'
  <1> SUFFICES ASSUME AccessInv, DeleteKey PROVE AccessInv' OBVIOUS
  <1>1. key' \in KeyRow /\ key'.used = key.used /\ key'.deleted
    BY DEF AccessInv, AccessTypeOK, DeleteKey, KeyRow
  <1>2. AccessTypeOK' BY <1>1 DEF AccessInv, AccessTypeOK, DeleteKey, Changing
  <1>3. ReadLive' /\ ChargesKept'
    BY <1>1 DEF AccessInv, ReadLive, ChargesKept, Tracks, DeleteKey
  <1>4. InFlightBounded' BY DEF AccessInv, InFlightBounded, Committed, Overrun, DeleteKey
  <1>5. DeletionLasts' BY <1>1 DEF DeletionLasts, Changing, DeleteKey
  <1>. QED BY <1>2, <1>3, <1>4, <1>5 DEF AccessInv

LEMMA AccessStepOK == AccessInv /\ [AccessNext]_accessVars => AccessInv'
  <1> SUFFICES ASSUME AccessInv, [AccessNext]_accessVars PROVE AccessInv' OBVIOUS
  <1>1. ASSUME NEW c \in Clients, Admit(c) PROVE AccessInv' BY <1>1, AdmitKeeps
  <1>2. ASSUME NEW c \in Clients, NEW n \in 0..MaxTokens, Charge(c, n) PROVE AccessInv'
    BY <1>2, ChargeKeeps
  <1>3. ASSUME NEW a \in Admins, ReadKey(a) PROVE AccessInv' BY <1>3, ReadKeeps
  <1>4. ASSUME NEW a \in Admins, NEW status \in Statuses, WriteKey(a, status) PROVE AccessInv'
    BY <1>4, WriteKeeps
  <1>5. CASE DeleteKey BY <1>5, DeleteKeeps
  <1>6. CASE UNCHANGED accessVars
    BY <1>6 DEF accessVars, AccessInv, AccessTypeOK, ReadLive, ChargesKept, Tracks, InFlightBounded,
                Committed, Overrun, DeletionLasts, Changing
  <1>. QED BY <1>1, <1>2, <1>3, <1>4, <1>5, <1>6 DEF AccessNext

\* The row, what changes have read and the counters keep their types.
THEOREM AccessTypeCorrect == AccessSpec => []AccessTypeOK
  <1>1. AccessInv => AccessTypeOK BY DEF AccessInv
  <1>. QED BY <1>1, AccessInitOK, AccessStepOK, PTL DEF AccessSpec

\* However many changes of its status (api_key.go) overlap with charges and
\* deletions, a key loses only the charges and the deletions that come between
\* the read and the write of one, and otherwise overruns its quota by less than
\* MaxTokens for each client.
THEOREM OverrunIsBounded == AccessSpec => []QuotaOverrunBounded
  <1>1. AccessInv => QuotaOverrunBounded
    <2> SUFFICES ASSUME AccessInv PROVE consumed < Quota + Overrun + exposed
      BY DEF AccessInv, ChargesKept, Tracks, DeletionLasts, QuotaOverrunBounded
    <2>1. inFlight \in SUBSET Clients BY DEF AccessInv, AccessTypeOK
    <2>2. consumed \in Nat /\ exposed \in Nat /\ Quota \in Nat BY AccessNumbers DEF AccessInv
    <2>3. Cardinality(inFlight) * MaxTokens \in Nat /\ Overrun \in Nat BY <2>1, InFlightCounted
    <2>4. consumed + Cardinality(inFlight) * MaxTokens < Quota + Overrun + exposed
      BY DEF AccessInv, InFlightBounded, Committed
    <2>. HIDE DEF Overrun
    <2>. QED BY <2>2, <2>3, <2>4
  <1>. QED BY <1>1, AccessInitOK, AccessStepOK, PTL DEF AccessSpec

(***************************************************************************)
(* The tenant gate.                                                        *)
(***************************************************************************)
\* What a call has read of the tenant and not found disabled was so no longer
\* ago than the call began.
CallsSound ==
    \A r \in Callers :
        checks[r].seen /\ ~checks[r].found /\ tenant.disabled => tenant.since <= checks[r].age

\* The same of the cache, whose rows were read at most one call before it was
\* swapped in.
CacheSound ==
    gate.whole /\ ~gate.out /\ tenant.disabled /\ gate.age # None => tenant.since <= gate.age + Slow

\* Only a load that succeeded is whole; who has swapped and not yet looked
\* again finds a cache no older than its own.
CacheYoung ==
    /\ gate.whole => ~gate.empty
    /\ \A r \in Callers : checks[r].at = "judge" => gate.age # None /\ gate.age <= checks[r].age

\* A call that is over, or has not begun to list, has seen nothing.
RestIsFresh == \A r \in Callers : checks[r].at \in {"out", "in"} => ~checks[r].seen

GateInv == GateTypeOK /\ CallsSound /\ CacheSound /\ CacheYoung /\ RestIsFresh

LEMMA GateNumbers == TTL \in Nat /\ Slow \in Nat /\ Slow <= TTL /\ AgeLimit \in Nat /\ AgeLimit = TTL + Slow + 1
                     /\ LastPage \in Nat /\ LastPage >= 1 /\ None \notin Nat
  BY TenantGateAssumption DEF AgeLimit

LEMMA AgesGrow ==
    ASSUME NEW a \in Ages PROVE Aged(a) \in Ages /\ Aged(a) <= a + 1 /\ a <= Aged(a)
  BY GateNumbers DEF Ages, Aged

LEMMA AgesGrowTogether ==
    ASSUME NEW a \in Ages, NEW b \in Ages, a <= b + Slow PROVE Aged(a) <= Aged(b) + Slow
  BY GateNumbers DEF Ages, Aged

LEMMA FreshTyped ==
    ASSUME NEW at \in {"out", "list", "swap", "judge", "in"}
    PROVE  /\ Fresh(at) \in Checks /\ Fresh(at).at = at /\ Fresh(at).age = 0
           /\ ~Fresh(at).seen /\ ~Fresh(at).found
  BY GateNumbers DEF Fresh, Checks

LEMMA GateInitOK == GateInit => GateInv
  <1> SUFFICES ASSUME GateInit PROVE GateInv OBVIOUS
  <1>1. GateTypeOK BY FreshTyped, GateNumbers DEF GateInit, GateTypeOK, Gates
  <1>. QED BY <1>1, FreshTyped DEF GateInit, GateInv, CallsSound, CacheSound, CacheYoung, RestIsFresh

\* A step that gives one request a fresh call keeps the rest.
LEMMA FreshStep ==
    ASSUME GateInv, NEW r \in Callers, NEW at \in {"out", "list", "in"},
           checks' = [checks EXCEPT ![r] = Fresh(at)], UNCHANGED <<tenant, gate>>
    PROVE  GateInv'
  <1>1. GateTypeOK' BY FreshTyped DEF GateInv, GateTypeOK
  <1>2. \A q \in Callers : checks'[q] = IF q = r THEN Fresh(at) ELSE checks[q]
    BY DEF GateInv, GateTypeOK
  <1>3. CallsSound' BY <1>2, FreshTyped DEF GateInv, CallsSound
  <1>4. CacheSound' BY DEF GateInv, CacheSound
  <1>5. CacheYoung' BY <1>2, FreshTyped DEF GateInv, CacheYoung
  <1>6. RestIsFresh' BY <1>2, FreshTyped DEF GateInv, RestIsFresh
  <1>. QED BY <1>1, <1>3, <1>4, <1>5, <1>6 DEF GateInv

LEMMA VerdictStep ==
    ASSUME GateInv, NEW r \in Callers, Verdict(r), UNCHANGED <<tenant, gate>> PROVE GateInv'
  <1>1. CASE Open BY <1>1, FreshStep DEF Verdict
  <1>2. CASE ~Open BY <1>2, FreshStep DEF Verdict
  <1>. QED BY <1>1, <1>2

LEMMA ListPageStep ==
    ASSUME GateInv, NEW r \in Callers, ListPage(r) PROVE GateInv'
  <1> DEFINE c == checks[r]
             here == tenant.page = c.page
             next == checks'[r]
  <1>1. c \in Checks BY DEF GateInv, GateTypeOK
  <1>2. /\ next \in Checks /\ next.at \in {"list", "swap"} /\ next.age = c.age
        /\ next.found <=> (c.found \/ (here /\ tenant.disabled))
        /\ next.seen <=> (c.seen \/ here)
    <2> DEFINE last == c.page = LastPage
    <2>1. next = [c EXCEPT !.at = IF last THEN "swap" ELSE "list", !.page = IF last THEN 1 ELSE c.page + 1,
                           !.found = Found(c, here), !.seen = c.seen \/ here]
      BY Zenon DEF GateInv, GateTypeOK, ListPage
    <2>2. Found(c, here) \in BOOLEAN /\ (c.seen \/ here) \in BOOLEAN BY DEF Found
    <2>3. (IF last THEN 1 ELSE c.page + 1) \in 1..LastPage BY <1>1, GateNumbers DEF Checks
    <2>4. /\ next.at = IF last THEN "swap" ELSE "list"
          /\ next.age = c.age
          /\ next.page = IF last THEN 1 ELSE c.page + 1
          /\ next.found = Found(c, here)
          /\ next.seen = (c.seen \/ here)
      BY <1>1, <2>1 DEF Checks
    <2>5. next \in Checks BY <1>1, <2>1, <2>2, <2>3 DEF Checks
    <2>6. next.found <=> (c.found \/ (here /\ tenant.disabled)) BY <2>4, Zenon DEF Found
    <2>7. next.seen <=> (c.seen \/ here) BY <2>4, Zenon
    <2>. QED BY <2>4, <2>5, <2>6, <2>7
  <1>3. checks' \in [Callers -> Checks] /\ (\A q \in Callers : q # r => checks'[q] = checks[q])
    BY <1>2 DEF GateInv, GateTypeOK, ListPage
  <1>4. UNCHANGED <<tenant, gate>> BY DEF ListPage
  <1>5. GateTypeOK' BY <1>3, <1>4 DEF GateInv, GateTypeOK
  <1>6. CallsSound' BY <1>2, <1>3, <1>4 DEF GateInv, CallsSound
  <1>7. CacheSound' BY <1>4 DEF GateInv, CacheSound
  <1>8. CacheYoung' BY <1>2, <1>3, <1>4 DEF GateInv, CacheYoung
  <1>9. RestIsFresh' BY <1>2, <1>3 DEF GateInv, RestIsFresh
  <1>. QED BY <1>5, <1>6, <1>7, <1>8, <1>9 DEF GateInv

LEMMA SwapStep ==
    ASSUME GateInv, NEW r \in Callers, NEW empty \in BOOLEAN, NEW out \in BOOLEAN, NEW whole \in BOOLEAN,
           SwapIn(r, empty, out, whole),
           whole => ~empty,
           whole /\ ~out => checks[r].seen /\ ~checks[r].found
    PROVE  GateInv'
  <1> DEFINE c == checks[r]
             next == checks'[r]
  <1>1. c \in Checks BY DEF GateInv, GateTypeOK
  <1>2. next \in Checks /\ next.at = "judge" /\ next.age = c.age /\ ~next.seen /\ ~next.found
    <2>1. Fresh("judge") \in Checks /\ Fresh("judge").at = "judge"
          /\ ~Fresh("judge").seen /\ ~Fresh("judge").found
      BY FreshTyped
    <2>2. next = [Fresh("judge") EXCEPT !.age = c.age] BY DEF GateInv, GateTypeOK, SwapIn
    <2>3. c.age \in 0..Slow BY <1>1 DEF Checks
    <2>. HIDE DEF c, next
    <2>. QED BY <2>1, <2>2, <2>3 DEF Checks
  <1>3. checks' \in [Callers -> Checks] /\ (\A q \in Callers : q # r => checks'[q] = checks[q])
    BY <1>2 DEF GateInv, GateTypeOK, SwapIn
  <1>4. gate' = [age |-> 0, empty |-> empty, out |-> out, whole |-> whole] /\ UNCHANGED tenant
    BY DEF SwapIn
  <1>5. gate' \in Gates BY <1>4, GateNumbers DEF Gates, Ages
  <1>6. GateTypeOK' BY <1>3, <1>4, <1>5 DEF GateInv, GateTypeOK
  <1>7. CallsSound' BY <1>2, <1>3, <1>4 DEF GateInv, CallsSound
  <1>8. CacheSound'
    <2>1. c.age \in Nat /\ c.age <= Slow BY <1>1, GateNumbers DEF Checks
    <2>2. tenant.since \in Nat BY GateNumbers DEF GateInv, GateTypeOK, TenantRows, Ages
    <2>. QED BY <1>4, <2>1, <2>2, GateNumbers DEF GateInv, CallsSound, CacheSound
  <1>9. CacheYoung'
    <2>1. \A q \in Callers : checks'[q].age \in Nat BY <1>3, GateNumbers DEF Checks
    <2>. QED BY <1>3, <1>4, <2>1, GateNumbers DEF GateInv, CacheYoung
  <1>10. RestIsFresh' BY <1>2, <1>3 DEF GateInv, RestIsFresh
  <1>. QED BY <1>6, <1>7, <1>8, <1>9, <1>10 DEF GateInv

LEMMA RowStep ==
    ASSUME GateInv, UNCHANGED <<gate, checks>>, tenant' \in TenantRows,
           tenant'.disabled => tenant'.since = 0 \/ (tenant.disabled /\ tenant'.since = tenant.since)
    PROVE  GateInv'
  <1>1. /\ tenant.since \in Nat /\ (\A r \in Callers : checks[r].age \in Nat)
        /\ gate.age # None => gate.age \in Nat
    BY GateNumbers DEF GateInv, GateTypeOK, TenantRows, Checks, Gates, Ages
  <1>2. CallsSound' BY <1>1 DEF GateInv, CallsSound
  <1>3. CacheSound' BY <1>1, GateNumbers DEF GateInv, CacheSound
  <1>. QED BY <1>2, <1>3 DEF GateInv, GateTypeOK, CacheYoung, RestIsFresh

LEMMA TickStep == GateInv /\ GateTick => GateInv'
  <1> SUFFICES ASSUME GateInv, GateTick PROVE GateInv' OBVIOUS
  <1>1. /\ tenant \in TenantRows /\ tenant.since \in Ages
        /\ gate \in Gates /\ gate.age \in Ages \cup {None}
        /\ \A r \in Callers : checks[r] \in Checks /\ checks[r].age \in 0..Slow
    BY DEF GateInv, GateTypeOK, TenantRows, Gates, Checks
  <1>2. /\ tenant' \in TenantRows /\ tenant'.disabled = tenant.disabled
        /\ tenant.disabled => tenant'.since = Aged(tenant.since)
    BY <1>1, AgesGrow, GateNumbers DEF GateTick, TenantRows, Ages
  <1>3. /\ gate' \in Gates /\ gate'.out = gate.out /\ gate'.whole = gate.whole /\ gate'.empty = gate.empty
        /\ gate'.age = IF gate.age = None THEN None ELSE Aged(gate.age)
    BY <1>1, AgesGrow DEF GateTick, Gates
  <1>4. gate.age # None => gate.age \in Ages /\ Aged(gate.age) \in Ages /\ Aged(gate.age) # None
                           /\ Aged(gate.age) <= gate.age + 1
    BY <1>1, AgesGrow, GateNumbers DEF Ages
  <1>5. checks' \in [Callers -> Checks]
    <2>1. ASSUME NEW r \in Callers PROVE [checks[r] EXCEPT !.age = @ + 1] \in Checks
      BY <1>1, GateNumbers DEF GateTick, Checks
    <2>. QED BY <1>1, <2>1 DEF GateTick
  <1>6. ASSUME NEW r \in Callers
        PROVE  /\ checks'[r].at = checks[r].at /\ checks'[r].seen = checks[r].seen
               /\ checks'[r].found = checks[r].found
               /\ checks[r].at \notin {"out", "in"} => checks'[r].age = checks[r].age + 1
               /\ checks[r].at \in {"out", "in"} => checks'[r] = checks[r]
    BY <1>1 DEF GateTick, Checks
  <1>7. GateTypeOK' BY <1>2, <1>3, <1>5 DEF GateTypeOK
  <1>8. CallsSound'
    <2> SUFFICES ASSUME NEW r \in Callers, checks'[r].seen, ~checks'[r].found, tenant'.disabled
                 PROVE  tenant'.since <= checks'[r].age
      BY DEF CallsSound
    <2>1. tenant'.since = Aged(tenant.since) /\ tenant.since <= checks[r].age
      BY <1>2, <1>6 DEF GateInv, CallsSound
    <2>2. Aged(tenant.since) <= tenant.since + 1 /\ Aged(tenant.since) \in Nat /\ tenant.since \in Nat
      BY <1>1, AgesGrow, GateNumbers DEF Ages
    <2>3. checks[r].age \in Nat BY <1>1, GateNumbers
    <2>4. checks[r].at \notin {"out", "in"} BY <1>6 DEF GateInv, RestIsFresh
    <2>. QED BY <1>6, <2>1, <2>2, <2>3, <2>4
  <1>9. CacheSound'
    <2> SUFFICES ASSUME gate'.whole, ~gate'.out, tenant'.disabled, gate'.age # None
                 PROVE  tenant'.since <= gate'.age + Slow
      BY DEF CacheSound
    <2>1. gate.age # None /\ gate.age \in Ages /\ gate'.age = Aged(gate.age) BY <1>3, <1>4
    <2>2. tenant.since <= gate.age + Slow /\ tenant'.since = Aged(tenant.since)
      BY <1>2, <1>3, <2>1 DEF GateInv, CacheSound
    <2>. QED BY <1>1, <2>1, <2>2, AgesGrowTogether
  <1>10. CacheYoung'
    <2>1. gate'.whole => ~gate'.empty BY <1>3 DEF GateInv, CacheYoung
    <2>2. ASSUME NEW r \in Callers, checks'[r].at = "judge"
          PROVE  gate'.age # None /\ gate'.age <= checks'[r].age
      <3>1. gate.age # None /\ gate.age <= checks[r].age /\ checks'[r].age = checks[r].age + 1
        BY <1>6, <2>2 DEF GateInv, CacheYoung
      <3>2. checks[r].age \in Nat BY <1>1, GateNumbers
      <3>3. gate.age \in Nat /\ Aged(gate.age) \in Nat BY <1>4, <3>1, GateNumbers DEF Ages
      <3>. QED BY <1>3, <1>4, <3>1, <3>2, <3>3
    <2>. QED BY <2>1, <2>2 DEF CacheYoung
  <1>11. RestIsFresh' BY <1>6 DEF GateInv, RestIsFresh
  <1>. QED BY <1>7, <1>8, <1>9, <1>10, <1>11 DEF GateInv

LEMMA GateStepOK == GateInv /\ [GateNext]_tenantVars => GateInv'
  <1> SUFFICES ASSUME GateInv, [GateNext]_tenantVars PROVE GateInv' OBVIOUS
  <1>1. ASSUME NEW r \in Callers, Look(r) PROVE GateInv'
    <2>1. CASE Expired BY <1>1, <2>1, FreshStep DEF Look
    <2>2. CASE ~Expired BY <1>1, <2>2, VerdictStep DEF Look
    <2>. QED BY <2>1, <2>2
  <1>2. ASSUME NEW r \in Callers, ListPage(r) PROVE GateInv' BY <1>2, ListPageStep
  <1>3. ASSUME NEW r \in Callers, ListFails(r) PROVE GateInv' BY <1>3, SwapStep DEF ListFails
  <1>4. ASSUME NEW r \in Callers, ListDone(r) PROVE GateInv'
    <2>1. checks[r].found \in BOOLEAN /\ checks[r].seen \in BOOLEAN
      BY DEF GateInv, GateTypeOK, Checks
    <2>. QED BY <1>4, <2>1, SwapStep DEF ListDone
  <1>5. ASSUME NEW r \in Callers, Judge(r) PROVE GateInv' BY <1>5, VerdictStep DEF Judge
  <1>6. ASSUME NEW r \in Callers, GoOn(r) PROVE GateInv' BY <1>6, FreshStep DEF GoOn
  <1>7. ASSUME NEW b \in BOOLEAN, SetDisabled(b) PROVE GateInv'
    <2>1. tenant' \in TenantRows /\ tenant'.since = 0
      <3>1. tenant \in TenantRows /\ 0 \in Ages BY GateNumbers DEF GateInv, GateTypeOK, Ages
      <3>2. tenant' = [tenant EXCEPT !.disabled = b, !.since = 0] BY <1>7 DEF SetDisabled
      <3>. QED BY <3>1, <3>2 DEF TenantRows
    <2>. QED BY <1>7, <2>1, RowStep DEF SetDisabled
  <1>8. CASE EarlierDeleted
    <2>1. tenant' \in TenantRows /\ tenant'.since = tenant.since /\ tenant'.disabled = tenant.disabled
      BY <1>8, GateNumbers DEF GateInv, GateTypeOK, EarlierDeleted, TenantRows
    <2>. QED BY <1>8, <2>1, RowStep DEF EarlierDeleted
  <1>9. CASE GateTick BY <1>9, TickStep
  <1>10. CASE UNCHANGED tenantVars
    BY <1>10 DEF tenantVars, GateInv, GateTypeOK, CallsSound, CacheSound, CacheYoung, RestIsFresh
  <1>. QED
    BY <1>1, <1>2, <1>3, <1>4, <1>5, <1>6, <1>7, <1>8, <1>9, <1>10 DEF GateNext, Allowed

\* Only a look or a judgement lets a request in, and each by a cache that is
\* at most TTL old; a whole one shows a tenant that was enabled then.
LEMMA LetInByFresh ==
    ASSUME GateInv, GateNext, NEW r \in Callers, LetIn(r)
    PROVE  /\ gate.age # None /\ gate.age \in 0..TTL
           /\ gate.whole /\ tenant.disabled => tenant.since <= TTL + Slow
  <1>1. checks \in [Callers -> Checks] /\ tenant.since \in Nat /\ gate.out \in BOOLEAN
        /\ (gate.age # None => gate.age \in Nat)
    BY GateNumbers DEF GateInv, GateTypeOK, TenantRows, Gates, Ages
  <1>2. (Look(r) /\ ~Expired /\ Open) \/ (Judge(r) /\ Open)
    <2>1. ASSUME NEW q \in Callers, q # r, Allowed(q) \/ GoOn(q) PROVE FALSE
      <3>1. \E x : checks' = [checks EXCEPT ![q] = x]
        BY <2>1 DEF Allowed, GoOn, Look, Verdict, ListPage, ListFails, ListDone, SwapIn, Judge
      <3>2. checks'[r] = checks[r] BY <1>1, <2>1, <3>1
      <3>. QED BY <3>2 DEF LetIn
    <2>2. ASSUME GoOn(r) \/ ListPage(r) \/ ListFails(r) \/ ListDone(r) PROVE FALSE
      <3>1. CASE GoOn(r)
        BY <1>1, <3>1, FreshTyped DEF GoOn, LetIn
      <3>2. CASE ListPage(r)
        <4>1. checks[r] \in Checks BY <1>1
        <4>2. checks'[r].at \in {"swap", "list"} BY <1>1, <3>2, <4>1 DEF ListPage, Checks
        <4>. QED BY <4>2 DEF LetIn
      <3>3. CASE ListFails(r) \/ ListDone(r)
        <4>1. checks'[r] = [Fresh("judge") EXCEPT !.age = checks[r].age]
          BY <1>1, <3>3 DEF ListFails, ListDone, SwapIn
        <4>2. checks'[r].at = "judge" BY <4>1, FreshTyped DEF Checks
        <4>. QED BY <4>2 DEF LetIn
      <3>. QED BY <2>2, <3>1, <3>2, <3>3
    <2>3. ASSUME (\E b \in BOOLEAN : SetDisabled(b)) \/ EarlierDeleted PROVE FALSE
      BY <2>3 DEF SetDisabled, EarlierDeleted, LetIn
    <2>4. ASSUME GateTick PROVE FALSE
      <3>1. checks[r] \in Checks BY <1>1
      <3>2. \/ checks'[r] = checks[r]
            \/ checks'[r] = [checks[r] EXCEPT !.age = @ + 1]
        BY <2>4 DEF GateTick
      <3>3. checks'[r].at = checks[r].at BY <3>1, <3>2 DEF Checks
      <3>. QED BY <3>3 DEF LetIn
    <2>5. ASSUME Look(r) PROVE ~Expired /\ Open
      BY <1>1, <2>5, FreshTyped DEF Look, Verdict, LetIn
    <2>6. ASSUME Judge(r) PROVE Open
      BY <1>1, <2>6, FreshTyped DEF Judge, Verdict, LetIn
    <2>. QED BY <2>1, <2>2, <2>3, <2>4, <2>5, <2>6 DEF GateNext, Allowed
  <1>3. gate.age # None /\ gate.age <= TTL
    <2>1. CASE Look(r) /\ ~Expired BY <1>1, <2>1, GateNumbers DEF Expired
    <2>2. CASE Judge(r)
      <3>1. gate.age # None /\ gate.age <= checks[r].age BY <2>2 DEF Judge, GateInv, CacheYoung
      <3>2. checks[r].age \in Nat /\ checks[r].age <= Slow BY <1>1, GateNumbers DEF Checks
      <3>. QED BY <1>1, <3>1, <3>2, GateNumbers
    <2>. QED BY <1>2, <2>1, <2>2
  <1>4. ASSUME gate.whole, tenant.disabled PROVE tenant.since <= TTL + Slow
    <2>1. ~gate.out BY <1>2, <1>4 DEF Open, GateInv, CacheYoung
    <2>2. tenant.since <= gate.age + Slow BY <1>3, <1>4, <2>1 DEF GateInv, CacheSound
    <2>. QED BY <1>1, <1>3, <2>2, GateNumbers
  <1>. QED BY <1>1, <1>3, <1>4, GateNumbers

\* With whatever callers and pages, a tenant disabled for longer than TTL and
\* the longest call is let in only by a load that failed or passed over its
\* row, and no longer than TTL after it.
THEOREM DisabledStaysOut == GateSpec => DisabledTenantOut
  <1>1. GateInv /\ [GateNext]_tenantVars =>
            [\A r \in Callers :
                LetIn(r) /\ tenant.disabled /\ tenant.since > TTL + Slow =>
                  ~gate.whole /\ gate.age \in 0..TTL]_tenantVars
    <2> SUFFICES ASSUME GateInv, GateNext, NEW r \in Callers, LetIn(r),
                        tenant.disabled, tenant.since > TTL + Slow
                 PROVE  ~gate.whole /\ gate.age \in 0..TTL
      OBVIOUS
    <2>1. gate.age \in 0..TTL /\ (gate.whole => tenant.since <= TTL + Slow) BY LetInByFresh
    <2>2. tenant.since \in Nat /\ TTL + Slow \in Nat
      BY GateNumbers DEF GateInv, GateTypeOK, TenantRows, Ages
    <2>. QED BY <2>1, <2>2
  <1>. QED BY <1>1, GateInitOK, GateStepOK, PTL DEF GateSpec, DisabledTenantOut
=============================================================================
