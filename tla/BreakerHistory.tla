---------------------------- MODULE BreakerHistory ----------------------------
(***************************************************************************)
(* BreakerRegistry with history variables that only observe it: what was   *)
(* reported, so that the documented meaning of the thresholds can be       *)
(* compared with what the counters do.                                     *)
(***************************************************************************)
EXTENDS BreakerRegistry

VARIABLES
  wins,     \* successes reported by requests of this HalfOpen phase
  losses,   \* failures reported in Closed since the last success
            \* (bound: FailureThreshold)
  lossAge   \* age of the oldest of the counted failures that each came within
            \* SampleWindow of the one before

historyVars == <<wins, losses, lossAge>>
hvars       == <<states, visits, pc, todo, avail, sel, probing,
                 wins, losses, lossAge>>

HInit ==
  /\ Init
  /\ wins = [u \in Upstreams |-> 0]
  /\ losses = [u \in Upstreams |-> 0]
  /\ lossAge = [u \in Upstreams |-> 0]

(* Upstream u has been told the result ok, by one of its own requests      *)
(* (own: one that its current phase admitted), another request or a probe. *)
Heard(u, ok, own) ==
  LET b == BreakerFor(u)
  IN
  /\ wins' = [v \in Upstreams |->
       IF states[v].state # "HalfOpen" THEN 0
       ELSE IF v = u /\ ok /\ own THEN wins[v] + 1 ELSE wins[v]]
  /\ losses' = [v \in Upstreams |->
       IF v # u THEN losses[v]
       ELSE IF b.state # "Closed" \/ ok THEN 0
       ELSE IF losses[v] < FailureThreshold THEN losses[v] + 1 ELSE losses[v]]
  /\ lossAge' = [v \in Upstreams |->
       IF v = u /\ (b.failures = 0 \/ b.winAge > SampleWindow) THEN 0
       ELSE lossAge[v]]

HReport(r, ok) ==
  /\ Report(r, ok)
  /\ Heard(sel[r], ok, r \in probing[sel[r]])

HProbe(u, ok) == Probe(u, ok) /\ Heard(u, ok, FALSE)

HTick ==
  /\ Tick
  /\ lossAge' = [u \in Upstreams |->
                   IF states[u].failures > 0 THEN Older(lossAge[u]) ELSE 0]
  /\ UNCHANGED <<wins, losses>>

(* Every other step tells the registry no result.                          *)
HOther ==
  /\ \E r \in Requests :
       Arrive(r) \/ Filter(r) \/ Pick(r) \/ Blocked(r) \/ Abort(r)
  /\ wins' = [u \in Upstreams |->
                IF states[u].state = "HalfOpen" THEN wins[u] ELSE 0]
  /\ UNCHANGED <<losses, lossAge>>

HNext ==
  \/ \E r \in Requests, ok \in BOOLEAN : HReport(r, ok)
  \/ \E u \in Upstreams, ok \in BOOLEAN : HProbe(u, ok)
  \/ HTick
  \/ HOther

HSpec == HInit /\ [][HNext]_hvars

-----------------------------------------------------------------------------
(* A breaker trips from Closed only after FailureThreshold failures with   *)
(* no success among them, whoever reported them: a request that went out   *)
(* before the last success counts, a forgotten failure does not.           *)
TripNeedsFailures ==
  [][\A u \in Upstreams :
       states[u].state \in {"Absent", "Closed"} /\ states'[u].state = "Open"
         => losses'[u] >= FailureThreshold]_hvars

(* breaker.go:33 and config.go:139 call FailureThreshold the failures      *)
(* "within the sampling window": failures of which each comes within       *)
(* SampleWindow of the one before should trip a breaker only when they all *)
(* lie within one SampleWindow.                                            *)
TripsWithinWindow ==
  [][\A u \in Upstreams :
       states[u].state = "Closed" /\ states'[u].state = "Open"
         => lossAge'[u] <= SampleWindow]_hvars

(* breaker.go:37 calls ProbeConcurrency the cap on concurrent half-open    *)
(* trials: the requests that a HalfOpen phase admitted and that are still  *)
(* in flight should never be more.                                         *)
TrialsWithinCap ==
  \A u \in Upstreams : Cardinality(probing[u]) <= ProbeConcurrency

(* breaker.go:158-159 says the successes that close a breaker are exactly  *)
(* accounted to the traffic that half-open admitted: a HalfOpen breaker    *)
(* should close only after SuccessThreshold successes of its own trials.   *)
ClosedByOwnTrials ==
  [][\A u \in Upstreams :
       states[u].state = "HalfOpen" /\ states'[u].state = "Closed"
         => wins'[u] >= SuccessThreshold]_hvars
=============================================================================
