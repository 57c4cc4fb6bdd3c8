--------------------------- MODULE BreakerContract ---------------------------
(***************************************************************************)
(* What the circuit breakers promise to those who share them, without      *)
(* counters, windows or sweeps: an upstream that opened gets no request    *)
(* until it has cooled down, or nothing was heard of it for so long that   *)
(* it is forgotten; then trials, a bounded number at a time; a failed      *)
(* trial opens it again at once, a success never does, and only successes, *)
(* or being forgotten, close it.                                           *)
(***************************************************************************)
EXTENDS Integers

CONSTANTS
  Upstreams,         \* upstream ids
  Requests,          \* request goroutines
  None,              \* a request that no upstream serves
  OpenFor,           \* time an open upstream cools down
  IdleTTL,           \* time of silence after which an upstream is forgotten
  ProbeConcurrency,  \* trials at a time
  AgeCap             \* bound: ages saturate here

VARIABLES
  gate,    \* per upstream: its phase; how long it is open; how long nothing
           \* was heard of it; its trials, as far as they are accounted
  serves   \* per request: the upstream it was sent to

Ages == 0..AgeCap
Gates == [phase : {"closed", "open", "trial"}, cooling : Ages, quiet : Ages,
          trials : Int]

Closed == [phase |-> "closed", cooling |-> 0, quiet |-> 0, trials |-> 0]
Opened == [Closed EXCEPT !.phase = "open"]
Trial(q, n) == [phase |-> "trial", cooling |-> 0, quiet |-> q, trials |-> n]

Init ==
  /\ gate = [u \in Upstreams |-> Closed]
  /\ serves = [r \in Requests |-> None]

(* Silence may be noticed in any call, also in one about another upstream. *)
Remembered(g) == IF g.quiet > IdleTTL THEN {g, Closed} ELSE {g}

Cooled(g) == g.phase = "open" /\ g.cooling >= OpenFor
Ready(g) == IF Cooled(g) THEN Trial(g.quiet, 0) ELSE g
Heard(g) == [g EXCEPT !.quiet = 0]

(* One more request: none while the upstream is open.                      *)
Admits(g) ==
  \/ g.phase = "closed"
  \/ g.phase = "trial" /\ g.trials < ProbeConcurrency

WithOne(g) == IF g.phase = "trial" THEN [g EXCEPT !.trials = @ + 1] ELSE g

GivenBack(g) ==
  IF g.phase = "trial" /\ g.trials > 0 THEN [g EXCEPT !.trials = @ - 1] ELSE g

(* What may become of a closed upstream that is told a result.             *)
Counted(ok) == IF ok THEN {Closed} ELSE {Closed, Opened}

Told(g, ok) ==
  CASE g.phase = "closed" -> Counted(ok)
    [] g.phase = "trial"  -> IF ok THEN {Closed, Trial(0, g.trials - 1)}
                             ELSE {Opened}
    [] g.phase = "open"   -> {Heard(g)}

Probed(g, ok) ==
  IF g.phase = "closed" THEN Counted(ok)
  ELSE {Heard(IF ok THEN Ready(g) ELSE g)}

-----------------------------------------------------------------------------
(* A call about upstream u, after which it is as one of next.              *)
Call(u, next) ==
  /\ gate' \in [Upstreams -> Gates]
  /\ gate'[u] \in next
  /\ \A v \in Upstreams \ {u} : gate'[v] \in Remembered(gate[v])

Look(u) ==
  /\ Call(u, {Ready(g) : g \in Remembered(gate[u])})
  /\ UNCHANGED serves

Admit(r, u) ==
  /\ serves[r] = None
  /\ Call(u, {WithOne(g) : g \in {h \in {Ready(x) : x \in Remembered(gate[u])} : Admits(h)}})
  /\ serves' = [serves EXCEPT ![r] = u]

Withdraw(r) ==
  /\ serves[r] # None
  /\ Call(serves[r], {GivenBack(g) : g \in Remembered(gate[serves[r]])})
  /\ serves' = [serves EXCEPT ![r] = None]

Tell(r, ok) ==
  /\ serves[r] # None
  /\ Call(serves[r], UNION {Told(g, ok) : g \in Remembered(gate[serves[r]])})
  /\ serves' = [serves EXCEPT ![r] = None]

Probe(u, ok) ==
  /\ Call(u, UNION {Probed(g, ok) : g \in Remembered(gate[u])})
  /\ UNCHANGED serves

Older(a) == IF a < AgeCap THEN a + 1 ELSE a

Aged(g) ==
  [phase   |-> g.phase,
   cooling |-> IF g.phase = "open" THEN Older(g.cooling) ELSE g.cooling,
   quiet   |-> IF g.phase = "closed" THEN g.quiet ELSE Older(g.quiet),
   trials  |-> g.trials]

Pass == gate' = [u \in Upstreams |-> Aged(gate[u])] /\ UNCHANGED serves

Next ==
  \/ \E u \in Upstreams :
       \/ Look(u)
       \/ \E r \in Requests : Admit(r, u)
       \/ \E ok \in BOOLEAN : Probe(u, ok)
  \/ \E r \in Requests : Withdraw(r) \/ \E ok \in BOOLEAN : Tell(r, ok)
  \/ Pass

Spec == Init /\ [][Next]_<<gate, serves>>
=============================================================================
