-------------------------------- MODULE Meter --------------------------------
(***************************************************************************)
(* The two ways the rate limiter measures use over a period of time        *)
(* (pkg/plugin/oss/limit_bucket.go and limit_sliding.go).  A meter is      *)
(* [level, age]:                                                           *)
(*   - a token bucket holds level tokens, each counted as `period` parts,  *)
(*     so that one unit of time refills exactly limit parts;               *)
(*   - a window has counted level since it was opened age ago.             *)
(* The code refills and rolls lazily, from timestamps, whenever it touches *)
(* a meter.  Refilling is the same at every unit of time, for the amounts  *)
(* are capped and additive; a window is opened when it is touched, so      *)
(* rolling stays lazy.                                                     *)
(***************************************************************************)
EXTENDS Integers

Strategies == {"token_bucket", "sliding_window"}

MeterOf(limit, period) == [level : Int, age : 0..period]

(* A full bucket, or a window that was never opened.                       *)
NewMeter(strategy, limit, period) ==
  [level |-> IF strategy = "token_bucket" THEN limit * period ELSE 0,
   age   |-> IF strategy = "token_bucket" THEN 0 ELSE period]

(* What touching a meter does.                                             *)
Roll(m, strategy, period) ==
  IF strategy = "sliding_window" /\ m.age >= period
  THEN [level |-> 0, age |-> 0] ELSE m

(* Something is left: a whole token, or room below the limit.              *)
Left(m, strategy, limit, period) ==
  IF strategy = "token_bucket" THEN m.level >= period ELSE m.level < limit

(* take or allow of one, when something is left; consume or add of n.      *)
Use(m, strategy, n, period) ==
  [m EXCEPT !.level = IF strategy = "token_bucket" THEN @ - n * period
                      ELSE @ + n]

(* Variant: a bucket in debt is never refilled.                            *)
OlderInCredit(m, strategy, limit, period) ==
  IF strategy = "token_bucket"
  THEN [m EXCEPT !.level = IF @ < 0 THEN @
                           ELSE IF @ + limit > limit * period THEN limit * period
                           ELSE @ + limit]
  ELSE [m EXCEPT !.age = IF @ < period THEN @ + 1 ELSE @]

Older(m, strategy, limit, period) ==
  IF strategy = "token_bucket"
  THEN [m EXCEPT !.level = IF @ + limit > limit * period THEN limit * period
                           ELSE @ + limit]
  ELSE [m EXCEPT !.age = IF @ < period THEN @ + 1 ELSE @]
=============================================================================
