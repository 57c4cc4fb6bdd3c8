---------------------------- MODULE MCRateLimiter ----------------------------
(* Instances of RateLimiter and RateHistory for TLC.                        *)
EXTENDS RateHistory

CONSTANTS r1, r2, a1, a2, globalScope

OneKey       == {"t|m"}
ScopesOfKey  == [k \in Keys |-> <<globalScope>>]
BucketRule   == [strategy |-> "token_bucket", rps |-> 1, tpm |-> 2]
WindowRule   == [strategy |-> "sliding_window", rps |-> 1, tpm |-> 1]
OneRule      == {WindowRule}
=============================================================================
