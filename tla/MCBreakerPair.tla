---------------------------- MODULE MCBreakerPair ----------------------------
(* An instance of BreakerRegistry for TLC: two upstreams, with fairness.    *)
EXTENDS BreakerRegistry

CONSTANTS r1, r2, u1, u2

EvenWeights == [u \in Upstreams |-> 1]
=============================================================================
