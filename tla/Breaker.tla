------------------------------- MODULE Breaker -------------------------------
(***************************************************************************)
(* The state machine of one upstream's circuit breaker                     *)
(* (pkg/core/breaker.go, type upstreamBreaker): Closed admits and counts   *)
(* failures, Open admits nothing for OpenFor, HalfOpen admits at most      *)
(* ProbeConcurrency requests at a time until SuccessThreshold of them      *)
(* succeed.  Each method is an operator from an entry to the next entry.   *)
(*                                                                         *)
(* A Go timestamp is kept as its age, now - t, which grows with Tick and   *)
(* saturates at AgeCap, a bound above every duration it is compared with.  *)
(* winStart is read in Closed only and set on every entry to Closed, and   *)
(* openedAt the same for Open, so an age is kept at 0 where it is dead.    *)
(***************************************************************************)
EXTENDS Integers

CONSTANTS
  FailureThreshold,  \* failures in Closed that trip the breaker
  SampleWindow,      \* age of winStart beyond which failures are forgotten
  OpenFor,           \* time in Open before HalfOpen
  SuccessThreshold,  \* successes in HalfOpen that close the breaker
  ProbeConcurrency,  \* requests in flight in HalfOpen
  IdleTTL,           \* breakerIdleTTL: an entry not seen for longer is swept
  AgeCap             \* bound: ages saturate here

ASSUME BreakerAssumption ==
  /\ FailureThreshold \in Nat \ {0}
  /\ SuccessThreshold \in Nat \ {0}
  /\ ProbeConcurrency \in Nat \ {0}
  /\ SampleWindow \in Nat
  /\ OpenFor \in Nat \ {0}
  /\ IdleTTL \in Nat
  /\ AgeCap \in Nat
  /\ SampleWindow < AgeCap /\ OpenFor < AgeCap /\ IdleTTL < AgeCap

Ages == 0..AgeCap

(* "Absent" stands for an upstream that has no entry in the registry.      *)
Entry == [state     : {"Absent", "Closed", "Open", "HalfOpen"},
          failures  : Nat,
          winAge    : Ages,
          openAge   : Ages,
          successes : Nat,
          inFlight  : Int,
          idle      : Ages]

Absent == [state |-> "Absent", failures |-> 0, winAge |-> 0, openAge |-> 0,
           successes |-> 0, inFlight |-> 0, idle |-> 0]

(* The entry breakerFor makes for an upstream it does not know.            *)
Fresh == [Absent EXCEPT !.state = "Closed"]

Trip(b) == [b EXCEPT !.state = "Open", !.openAge = 0, !.winAge = 0]

ToHalfOpen(b) == [b EXCEPT !.state = "HalfOpen", !.successes = 0,
                           !.inFlight = 0, !.openAge = 0]

Reset(b) == [b EXCEPT !.state = "Closed", !.failures = 0, !.successes = 0,
                      !.inFlight = 0, !.winAge = 0, !.openAge = 0]

(* Variant: a success or a new window leaves the old failures counted.     *)
ForgetNothing(b) == [b EXCEPT !.winAge = 0]

Forget(b) == [b EXCEPT !.failures = 0, !.winAge = 0]

(* Variant: the cool-down is not waited for.                               *)
CooledAtOnce(b) == b.state = "Open"

Cooled(b) == b.state = "Open" /\ b.openAge >= OpenFor

(* What time alone does, the same in Selectable and in Allow.              *)
Advance(b) ==
  IF b.state = "Closed" /\ b.winAge > SampleWindow THEN Forget(b)
  ELSE IF Cooled(b) THEN ToHalfOpen(b)
  ELSE b

Selectable(b) == Advance(b).state # "Open"

(* Variant: off by one at the cap.                                         *)
AllowsOneMore(b) ==
  \/ b.state = "Closed"
  \/ b.state = "HalfOpen" /\ b.inFlight <= ProbeConcurrency

(* Allow of an entry that Advance has brought up to date.                  *)
Allows(b) ==
  \/ b.state = "Closed"
  \/ b.state = "HalfOpen" /\ b.inFlight < ProbeConcurrency

TakeSlot(b) == IF b.state = "HalfOpen" /\ Allows(b)
               THEN [b EXCEPT !.inFlight = @ + 1] ELSE b

(* Variant: the request that was never sent keeps its slot.                *)
ReleaseNothing(b) == b

Release(b) == IF b.state = "HalfOpen" /\ b.inFlight > 0
              THEN [b EXCEPT !.inFlight = @ - 1] ELSE b

(* A result in Closed, from a request or from the health prober.           *)
Count(b, ok) ==
  LET f == [b EXCEPT !.failures = @ + 1, !.winAge = 0]
  IN  IF ok THEN Forget(b)
      ELSE IF f.failures >= FailureThreshold THEN Trip(f) ELSE f

(* Variant: only a failed trial gives its slot back.                       *)
CountProbeHolding(b, ok) ==
  LET won == [b EXCEPT !.successes = @ + 1]
  IN  IF ok THEN IF won.successes >= SuccessThreshold THEN Reset(won) ELSE won
      ELSE Trip(Forget(b))

(* A result in HalfOpen: the slot is given back whoever took it.           *)
CountProbe(b, ok) ==
  LET done == [b EXCEPT !.inFlight = @ - 1]
      won  == [done EXCEPT !.successes = @ + 1]
  IN  IF ok THEN IF won.successes >= SuccessThreshold THEN Reset(won) ELSE won
      ELSE Trip(Forget(done))

Seen(b) == [b EXCEPT !.idle = 0]

Record(b, ok) ==
  CASE b.state = "HalfOpen" -> CountProbe(Seen(b), ok)
    [] b.state = "Closed"   -> Count(Seen(b), ok)
    [] OTHER                -> Seen(b)

RecordProbe(b, ok) ==
  CASE b.state = "Closed"    -> Count(Seen(b), ok)
    [] Cooled(b) /\ ok       -> ToHalfOpen(Seen(b))
    [] OTHER                 -> Seen(b)

Older(a) == IF a < AgeCap THEN a + 1 ELSE a

(* One unit of time passes for an entry.                                   *)
Age(b) ==
  [b EXCEPT !.winAge  = IF b.state = "Closed" THEN Older(@) ELSE @,
            !.openAge = IF b.state = "Open" THEN Older(@) ELSE @,
            !.idle    = IF b.state = "Absent" THEN @ ELSE Older(@)]
=============================================================================
