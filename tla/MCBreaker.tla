------------------------------ MODULE MCBreaker ------------------------------
(* Instances of BreakerRegistry and of BreakerHistory for TLC.              *)
EXTENDS BreakerHistory

CONSTANTS r1, r2, r3, u1

EvenWeights == [u \in Upstreams |-> 1]
=============================================================================
