--------------------------- MODULE BreakerRegistry ---------------------------
(***************************************************************************)
(* The breaker registry (pkg/core/breaker.go, BreakerRegistry) and the     *)
(* three kinds of callers that share it: proxied requests (proxy.go:       *)
(* pickHealthy, then releaseBreaker or recordBreaker), the health prober   *)
(* (health_probe.go) and the clock.  The registry mutex makes every method *)
(* one atomic step; everything between two methods interleaves, and the    *)
(* upstream call, between Pick and Report, takes any time.                 *)
(***************************************************************************)
EXTENDS Breaker, FiniteSets

CONSTANTS
  Upstreams,   \* upstream ids
  Requests,    \* request goroutines; one serves request after request
  Weight,      \* the configured weight of an upstream
  VisitLimit,  \* breakerFor sweeps idle entries every VisitLimit visits (256)
  None         \* no upstream admitted the request

ASSUME RegistryAssumption ==
  /\ IsFiniteSet(Requests)
  /\ None \notin Upstreams
  /\ Weight \in [Upstreams -> Nat]
  /\ VisitLimit \in Nat \ {0}

VARIABLES
  states,   \* BreakerRegistry.states
  visits,   \* BreakerRegistry.visits
  pc,       \* where a request is: "idle", "picking" or "sent"
  todo,     \* pickHealthy: candidates whose Selectable has not been asked
  avail,    \* pickHealthy: the slice available
  sel,      \* the upstream that admitted the request
  probing   \* history: per upstream, the requests that Allow admitted in the
            \* current HalfOpen phase and that have not reported or released

callVars == <<pc, todo, avail, sel>>
vars     == <<states, visits, pc, todo, avail, sel, probing>>

Init ==
  /\ states = [u \in Upstreams |-> Absent]
  /\ visits = 0
  /\ pc = [r \in Requests |-> "idle"]
  /\ todo = [r \in Requests |-> {}]
  /\ avail = [r \in Requests |-> {}]
  /\ sel = [r \in Requests |-> None]
  /\ probing = [u \in Upstreams |-> {}]

-----------------------------------------------------------------------------
(* Variant: the sweep comes one visit late.                                *)
SweepDueLate == visits + 1 > VisitLimit

(* The map after breakerFor(u): swept when the visit is due, u present.    *)
SweepDue == visits + 1 >= VisitLimit

Swept(v) == IF SweepDue /\ states[v].idle > IdleTTL THEN Absent ELSE states[v]

BreakerFor(u) == IF Swept(u).state = "Absent" THEN Fresh ELSE Swept(u)

(* A method call on upstream u that leaves its entry as b, after which p   *)
(* are the unfinished requests of its HalfOpen phase, if it is in one.     *)
Visit(u, b, p) ==
  /\ visits' = IF SweepDue THEN 0 ELSE visits + 1
  /\ states' = [v \in Upstreams |-> IF v = u THEN b ELSE Swept(v)]
  /\ probing' = [v \in Upstreams |->
                   IF states'[v].state # "HalfOpen" THEN {}
                   ELSE IF v = u THEN p ELSE probing[v]]

-----------------------------------------------------------------------------
(* A request that has enabled upstreams C with readable keys reaches       *)
(* pickHealthy; without any it uses the model's own upstream and no        *)
(* breaker.                                                                *)
Arrive(r) ==
  /\ pc[r] = "idle"
  /\ \E C \in SUBSET Upstreams \ {{}} : todo' = [todo EXCEPT ![r] = C]
  /\ pc' = [pc EXCEPT ![r] = "picking"]
  /\ UNCHANGED <<states, visits, avail, sel, probing>>

(* One turn of the filter loop: Selectable of one candidate.               *)
Filter(r) ==
  /\ pc[r] = "picking"
  /\ \E u \in todo[r] :
       /\ Visit(u, Advance(BreakerFor(u)), probing[u])
       /\ todo' = [todo EXCEPT ![r] = @ \ {u}]
       /\ avail' = IF Selectable(BreakerFor(u))
                   THEN [avail EXCEPT ![r] = @ \cup {u}] ELSE avail
  /\ UNCHANGED <<pc, sel>>

(* selectUpstream: weighted random, so any upstream of positive weight, or *)
(* any at all when every weight is zero.                                   *)
Choices(A) ==
  IF \E u \in A : Weight[u] > 0 THEN {u \in A : Weight[u] > 0} ELSE A

(* One turn of the select-then-Allow loop.                                 *)
Pick(r) ==
  /\ pc[r] = "picking" /\ todo[r] = {}
  /\ \E u \in Choices(avail[r]) :
       LET b == Advance(BreakerFor(u))
       IN  IF Allows(b)
           THEN /\ Visit(u, TakeSlot(b), probing[u] \cup {r})
                /\ pc' = [pc EXCEPT ![r] = "sent"]
                /\ sel' = [sel EXCEPT ![r] = u]
                /\ avail' = [avail EXCEPT ![r] = {}]
           ELSE /\ Visit(u, b, probing[u])
                /\ avail' = [avail EXCEPT ![r] = @ \ {u}]
                /\ UNCHANGED <<pc, sel>>
  /\ UNCHANGED todo

(* Every candidate refused: 503.                                           *)
Blocked(r) ==
  /\ pc[r] = "picking" /\ todo[r] = {} /\ avail[r] = {}
  /\ pc' = [pc EXCEPT ![r] = "idle"]
  /\ UNCHANGED <<states, visits, todo, avail, sel, probing>>

Finish(r, b) ==
  /\ pc[r] = "sent"
  /\ Visit(sel[r], b, probing[sel[r]] \ {r})
  /\ pc' = [pc EXCEPT ![r] = "idle"]
  /\ sel' = [sel EXCEPT ![r] = None]
  /\ UNCHANGED <<todo, avail>>

(* The outbound request cannot be built: 400, releaseBreaker.              *)
Abort(r) == Finish(r, Release(BreakerFor(sel[r])))

(* doWithRetry returned: recordBreaker with err = nil and status < 500.    *)
Report(r, ok) == Finish(r, Record(BreakerFor(sel[r]), ok))

(* The prober's tick reaches upstream u; it holds no slot.                 *)
Probe(u, ok) ==
  /\ Visit(u, RecordProbe(BreakerFor(u), ok), probing[u])
  /\ UNCHANGED callVars

Tick ==
  /\ states' = [u \in Upstreams |-> Age(states[u])]
  /\ UNCHANGED <<visits, pc, todo, avail, sel, probing>>

Next ==
  \/ \E r \in Requests :
       \/ Arrive(r) \/ Filter(r) \/ Pick(r) \/ Blocked(r) \/ Abort(r)
       \/ \E ok \in BOOLEAN : Report(r, ok)
  \/ \E u \in Upstreams, ok \in BOOLEAN : Probe(u, ok)
  \/ Tick

Spec == Init /\ [][Next]_vars

(* A request never waits on another: pickHealthy does not block, and       *)
(* http.Client.Timeout and MaxRetries bound doWithRetry.                   *)
Serve(r) == Filter(r) \/ Pick(r) \/ Blocked(r) \/ Abort(r)
              \/ \E ok \in BOOLEAN : Report(r, ok)

FairSpec == Spec /\ \A r \in Requests : WF_vars(Serve(r))

-----------------------------------------------------------------------------
TypeOK ==
  /\ states \in [Upstreams -> Entry]
  /\ visits \in 0..(VisitLimit - 1)
  /\ pc \in [Requests -> {"idle", "picking", "sent"}]
  /\ todo \in [Requests -> SUBSET Upstreams]
  /\ avail \in [Requests -> SUBSET Upstreams]
  /\ sel \in [Requests -> Upstreams \cup {None}]
  /\ probing \in [Upstreams -> SUBSET Requests]

(* No half-open slot is lost: the slots counted as taken never exceed the  *)
(* requests that still owe a Record or a Release for one of them           *)
(* (breaker.go Release: "every Allow is paired with Record or Release").   *)
NoSlotLeak ==
  \A u \in Upstreams :
    states[u].state = "HalfOpen" =>
      states[u].inFlight <= Cardinality(probing[u])

(* Allow never counts more than ProbeConcurrency slots as taken, whatever  *)
(* mix of Record, Release, probes and sweeps came before it.               *)
SlotLimit ==
  \A u \in Upstreams : states[u].inFlight <= ProbeConcurrency

(* An upstream that tripped stays out of selection for the whole of        *)
(* OpenFor: no request, probe or idle sweep readmits it earlier.  The      *)
(* sweep respects it only if OpenFor is not longer than breakerIdleTTL.    *)
OpenHolds ==
  [][\A u \in Upstreams :
       /\ OpenFor <= IdleTTL
       /\ states[u].state = "Open" /\ states[u].openAge < OpenFor
       => states'[u].state = "Open"]_vars

(* The slots of a recovering upstream are not held for ever: as long as    *)
(* requests end, HalfOpen can always admit another one later.              *)
SlotsComeBack ==
  \A u \in Upstreams :
    []<>(states[u].state = "HalfOpen" =>
           states[u].inFlight < ProbeConcurrency)
(* The registry keeps the contract of BreakerContract: whatever requests,  *)
(* probes, sweeps and time do in between, no request reaches an upstream   *)
(* that opened before OpenFor is over, a failed trial opens it at once,    *)
(* and in trial no more than ProbeConcurrency slots are given out.         *)
Gate(b) ==
  [phase   |-> CASE b.state = "Open" -> "open" [] b.state = "HalfOpen" -> "trial"
                 [] OTHER -> "closed",
   cooling |-> IF b.state = "Open" THEN b.openAge ELSE 0,
   quiet   |-> IF b.state \in {"Open", "HalfOpen"} THEN b.idle ELSE 0,
   trials  |-> IF b.state = "HalfOpen" THEN b.inFlight ELSE 0]

Contract == INSTANCE BreakerContract WITH
              gate <- [u \in Upstreams |-> Gate(states[u])], serves <- sel

KeepsContract == Contract!Spec
=============================================================================
