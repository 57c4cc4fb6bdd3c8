---------------------------- MODULE BreakerProofs ----------------------------
(***************************************************************************)
(* Proofs about BreakerRegistry and BreakerHistory, for any set of         *)
(* upstreams, any finite set of requests and any thresholds.               *)
(***************************************************************************)
EXTENDS BreakerHistory, FiniteSetTheorems, TLAPS

(* What every entry satisfies on its own.  An Open entry was last seen at  *)
(* or after the instant it opened, so it is never idler than it is open.   *)
Sound(b) ==
  /\ b \in Entry
  /\ b.inFlight <= ProbeConcurrency
  /\ b.state = "Open" => b.idle <= b.openAge

(* Only requests in flight to u are in a phase of u.                       *)
Owed == \A u \in Upstreams : \A r \in probing[u] : pc[r] = "sent" /\ sel[r] = u

SentSomewhere == \A r \in Requests : pc[r] = "sent" => sel[r] \in Upstreams

IInv ==
  /\ TypeOK
  /\ \A u \in Upstreams : Sound(states[u])
  /\ Owed
  /\ SentSomewhere
  /\ NoSlotLeak

-----------------------------------------------------------------------------
(* An update of one field keeps an entry an entry.                         *)
LEMMA Fields ==
  /\ \A b \in Entry, v \in {"Absent", "Closed", "Open", "HalfOpen"} :
       [b EXCEPT !.state = v] \in Entry
  /\ \A b \in Entry, v \in Nat : [b EXCEPT !.failures = v] \in Entry
  /\ \A b \in Entry, v \in Ages : [b EXCEPT !.winAge = v] \in Entry
  /\ \A b \in Entry, v \in Ages : [b EXCEPT !.openAge = v] \in Entry
  /\ \A b \in Entry, v \in Nat : [b EXCEPT !.successes = v] \in Entry
  /\ \A b \in Entry, v \in Int : [b EXCEPT !.inFlight = v] \in Entry
  /\ \A b \in Entry, v \in Ages : [b EXCEPT !.idle = v] \in Entry
  BY DEF Entry

LEMMA Zero == 0 \in Nat /\ 0 \in Ages /\ 0 \in Int
  BY BreakerAssumption DEF Ages

(* Each method keeps an entry sound.                                       *)
LEMMA FreshSound == Sound(Absent) /\ Sound(Fresh)
  BY BreakerAssumption DEF Sound, Absent, Fresh, Entry, Ages

LEMMA ForgetSound ==
  ASSUME NEW b, Sound(b)
  PROVE  /\ Sound(Forget(b))
         /\ Forget(b).state = b.state /\ Forget(b).idle = b.idle
  <1>1. Forget(b) \in Entry
    BY Fields, Zero DEF Forget, Sound
  <1>2. /\ Forget(b).state = b.state /\ Forget(b).idle = b.idle
        /\ Forget(b).inFlight = b.inFlight /\ Forget(b).openAge = b.openAge
    BY DEF Forget, Sound, Entry
  <1>3. QED BY <1>1, <1>2 DEF Sound

LEMMA ToHalfOpenSound ==
  ASSUME NEW b, Sound(b)
  PROVE  /\ Sound(ToHalfOpen(b))
         /\ ToHalfOpen(b).state = "HalfOpen" /\ ToHalfOpen(b).inFlight = 0
  <1>1. ToHalfOpen(b) \in Entry
    BY Fields, Zero DEF ToHalfOpen, Sound
  <1>2. ToHalfOpen(b).state = "HalfOpen" /\ ToHalfOpen(b).inFlight = 0
    BY DEF ToHalfOpen, Sound, Entry
  <1>3. QED BY <1>1, <1>2, BreakerAssumption DEF Sound

LEMMA TripSound ==
  ASSUME NEW b, Sound(b), b.idle = 0
  PROVE  Sound(Trip(b)) /\ Trip(b).state = "Open"
  <1>1. Trip(b) \in Entry
    BY Fields, Zero DEF Trip, Sound
  <1>2. /\ Trip(b).state = "Open" /\ Trip(b).inFlight = b.inFlight
        /\ Trip(b).idle = 0 /\ Trip(b).openAge = 0
    BY DEF Trip, Sound, Entry
  <1>3. QED BY <1>1, <1>2 DEF Sound

LEMMA ResetSound ==
  ASSUME NEW b, Sound(b)
  PROVE  Sound(Reset(b)) /\ Reset(b).state = "Closed"
  <1>1. Reset(b) \in Entry
    BY Fields, Zero DEF Reset, Sound
  <1>2. Reset(b).state = "Closed" /\ Reset(b).inFlight = 0
    BY DEF Reset, Sound, Entry
  <1>3. QED BY <1>1, <1>2, BreakerAssumption DEF Sound

LEMMA AdvanceSound ==
  ASSUME NEW b, Sound(b)
  PROVE  /\ Sound(Advance(b))
         /\ Advance(b).state = "HalfOpen" =>
              Advance(b) = b \/ Advance(b).inFlight = 0
         /\ b.state = "Open" /\ b.openAge < OpenFor => Advance(b) = b
  <1>1. CASE b.state = "Closed" /\ b.winAge > SampleWindow
    BY <1>1, ForgetSound DEF Advance
  <1>2. CASE ~(b.state = "Closed" /\ b.winAge > SampleWindow) /\ Cooled(b)
    <2>1. Advance(b) = ToHalfOpen(b)
      BY <1>2 DEF Advance
    <2>2. ~(b.openAge < OpenFor)
      BY <1>2, BreakerAssumption DEF Cooled, Sound, Entry, Ages
    <2>3. QED BY <2>1, <2>2, ToHalfOpenSound
  <1>3. CASE ~(b.state = "Closed" /\ b.winAge > SampleWindow) /\ ~Cooled(b)
    BY <1>3 DEF Advance
  <1>4. QED BY <1>1, <1>2, <1>3

LEMMA TakeSlotSound ==
  ASSUME NEW b, Sound(b), Allows(b)
  PROVE  /\ Sound(TakeSlot(b))
         /\ TakeSlot(b).state = b.state
         /\ b.state = "HalfOpen" => TakeSlot(b).inFlight = b.inFlight + 1
  BY BreakerAssumption DEF Sound, TakeSlot, Allows, Entry, Ages

LEMMA ReleaseSound ==
  ASSUME NEW b, Sound(b)
  PROVE  /\ Sound(Release(b))
         /\ Release(b).state = b.state
         /\ Release(b).inFlight =
              IF b.state = "HalfOpen" /\ b.inFlight > 0
              THEN b.inFlight - 1 ELSE b.inFlight
  BY BreakerAssumption DEF Sound, Release, Entry, Ages

LEMMA CountSound ==
  ASSUME NEW b, Sound(b), NEW ok \in BOOLEAN, b.idle = 0, b.state = "Closed"
  PROVE  /\ Sound(Count(b, ok))
         /\ Count(b, ok).state # "HalfOpen"
  <1> DEFINE f == [b EXCEPT !.failures = @ + 1, !.winAge = 0]
  <1>1. Sound(f) /\ f.state = "Closed" /\ f.idle = 0
    <2>1. b.failures + 1 \in Nat
      BY DEF Sound, Entry
    <2>2. f \in Entry
      BY <2>1, Fields, Zero DEF Sound
    <2>3. f.state = "Closed" /\ f.idle = 0 /\ f.inFlight = b.inFlight
      BY DEF Sound, Entry
    <2>4. QED BY <2>2, <2>3 DEF Sound
  <1>2. Count(b, ok) \in {Forget(b), f, Trip(f)}
    BY DEF Count
  <1> HIDE DEF f
  <1>3. QED BY <1>1, <1>2, ForgetSound, TripSound

LEMMA CountProbeSound ==
  ASSUME NEW b, Sound(b), NEW ok \in BOOLEAN, b.idle = 0, b.state = "HalfOpen"
  PROVE  /\ Sound(CountProbe(b, ok))
         /\ CountProbe(b, ok).state = "HalfOpen" =>
              CountProbe(b, ok).inFlight = b.inFlight - 1
  <1> DEFINE done == [b EXCEPT !.inFlight = @ - 1]
             won  == [done EXCEPT !.successes = @ + 1]
  <1>1. /\ Sound(done) /\ done.idle = 0 /\ done.state = "HalfOpen"
        /\ done.inFlight = b.inFlight - 1
    BY BreakerAssumption DEF Sound, Entry
  <1>2. Sound(won) /\ won.inFlight = b.inFlight - 1
    <2> HIDE DEF done
    <2>1. QED BY <1>1 DEF Sound, Entry
  <1>3. CountProbe(b, ok) \in {won, Reset(won), Trip(Forget(done))}
    BY DEF CountProbe
  <1> HIDE DEF done, won
  <1>4. QED BY <1>1, <1>2, <1>3, ForgetSound, TripSound, ResetSound

LEMMA SeenSound ==
  ASSUME NEW b, Sound(b)
  PROVE  /\ Sound(Seen(b)) /\ Seen(b).idle = 0
         /\ Seen(b).state = b.state
         /\ Seen(b).inFlight = b.inFlight
         /\ Seen(b).openAge = b.openAge
  BY BreakerAssumption DEF Sound, Seen, Entry, Ages

LEMMA RecordSound ==
  ASSUME NEW b, Sound(b), NEW ok \in BOOLEAN
  PROVE  /\ Sound(Record(b, ok))
         /\ Record(b, ok).state = "HalfOpen" =>
              b.state = "HalfOpen" /\ Record(b, ok).inFlight = b.inFlight - 1
  <1>1. CASE b.state = "HalfOpen"
    <2>1. Record(b, ok) = CountProbe(Seen(b), ok)
      BY <1>1 DEF Record
    <2>2. QED BY <1>1, <2>1, SeenSound, CountProbeSound
  <1>2. CASE b.state = "Closed"
    <2>1. Record(b, ok) = Count(Seen(b), ok)
      BY <1>2 DEF Record
    <2>2. QED BY <1>2, <2>1, SeenSound, CountSound
  <1>3. CASE b.state \notin {"HalfOpen", "Closed"}
    <2>1. Record(b, ok) = Seen(b)
      BY <1>3 DEF Record
    <2>2. QED BY <1>3, <2>1, SeenSound
  <1>4. QED BY <1>1, <1>2, <1>3

LEMMA RecordProbeSound ==
  ASSUME NEW b, Sound(b), NEW ok \in BOOLEAN
  PROVE  /\ Sound(RecordProbe(b, ok))
         /\ RecordProbe(b, ok).state = "HalfOpen" =>
              \/ RecordProbe(b, ok).inFlight = 0
              \/ b.state = "HalfOpen" /\ RecordProbe(b, ok).inFlight = b.inFlight
  <1>1. CASE b.state = "Closed"
    <2>1. RecordProbe(b, ok) = Count(Seen(b), ok)
      BY <1>1 DEF RecordProbe, Cooled
    <2>2. QED BY <1>1, <2>1, SeenSound, CountSound
  <1>2. CASE b.state # "Closed" /\ Cooled(b) /\ ok
    <2>1. RecordProbe(b, ok) = ToHalfOpen(Seen(b))
      BY <1>2 DEF RecordProbe
    <2>2. QED BY <2>1, ToHalfOpenSound, SeenSound
  <1>3. CASE b.state # "Closed" /\ ~(Cooled(b) /\ ok)
    <2>1. RecordProbe(b, ok) = Seen(b)
      BY <1>3 DEF RecordProbe
    <2>2. QED BY <2>1, SeenSound
  <1>4. QED BY <1>1, <1>2, <1>3

LEMMA AgeSound ==
  ASSUME NEW b, Sound(b)
  PROVE  /\ Sound(Age(b))
         /\ Age(b).state = b.state /\ Age(b).inFlight = b.inFlight
  <1>1. \A a \in Ages : Older(a) \in Ages
    BY BreakerAssumption DEF Older, Ages
  <1>2. b \in Entry /\ b.winAge \in Ages /\ b.openAge \in Ages /\ b.idle \in Ages
    BY DEF Sound, Entry
  <1>3. Age(b) \in Entry
    <2> DEFINE w == IF b.state = "Closed" THEN Older(b.winAge) ELSE b.winAge
               o == IF b.state = "Open" THEN Older(b.openAge) ELSE b.openAge
               i == IF b.state = "Absent" THEN b.idle ELSE Older(b.idle)
    <2>1. w \in Ages /\ o \in Ages /\ i \in Ages
      BY <1>1, <1>2
    <2>2. Age(b) = [b EXCEPT !.winAge = w, !.openAge = o, !.idle = i]
      BY DEF Age
    <2> HIDE DEF w, o, i
    <2>3. [b EXCEPT !.winAge = w] \in Entry
      BY <1>2, <2>1, Fields
    <2>4. [b EXCEPT !.winAge = w, !.openAge = o] \in Entry
      BY <2>1, <2>3, Fields, Zenon
    <2>5. QED BY <2>1, <2>2, <2>4, Fields, Zenon
  <1>4. /\ Age(b).state = b.state /\ Age(b).inFlight = b.inFlight
        /\ b.state = "Open" => /\ Age(b).openAge = Older(b.openAge)
                               /\ Age(b).idle = Older(b.idle)
    BY <1>2 DEF Age, Entry
  <1>5. b.idle <= b.openAge => Older(b.idle) <= Older(b.openAge)
    BY <1>2, BreakerAssumption DEF Older, Ages
  <1>6. QED BY <1>3, <1>4, <1>5 DEF Sound

-----------------------------------------------------------------------------
(* Facts about the sets of requests in a phase.                            *)
LEMMA PhaseFinite ==
  ASSUME NEW S \in SUBSET Requests
  PROVE  IsFiniteSet(S) /\ Cardinality(S) \in Nat
  BY RegistryAssumption, FS_Subset, FS_CardinalityType

LEMMA Joined ==
  ASSUME NEW S \in SUBSET Requests, NEW r \in Requests
  PROVE  /\ Cardinality(S \cup {r}) >= 1
         /\ r \notin S => Cardinality(S \cup {r}) = Cardinality(S) + 1
  <1>1. IsFiniteSet(S) /\ Cardinality(S) \in Nat
    BY PhaseFinite
  <1>2. Cardinality(S \cup {r}) =
          IF r \in S THEN Cardinality(S) ELSE Cardinality(S) + 1
    BY <1>1, FS_AddElement
  <1>3. r \in S => Cardinality(S) >= 1
    <2>1. r \in S => Cardinality(S) # 0
      BY <1>1, FS_EmptySet
    <2>2. QED BY <2>1, <1>1
  <1>4. QED BY <1>1, <1>2, <1>3

LEMMA Left ==
  ASSUME NEW S \in SUBSET Requests, NEW r
  PROVE  Cardinality(S \ {r}) =
           IF r \in S THEN Cardinality(S) - 1 ELSE Cardinality(S)
  BY PhaseFinite, FS_RemoveElement

(* The entry a method finds is sound, and is the old one if it is in       *)
(* HalfOpen or if it is Open and not yet due.                              *)
LEMMA FoundSound ==
  ASSUME IInv, NEW v \in Upstreams
  PROVE  /\ Sound(Swept(v)) /\ Sound(BreakerFor(v))
         /\ Swept(v).state = "HalfOpen" => Swept(v) = states[v]
         /\ BreakerFor(v).state = "HalfOpen" => BreakerFor(v) = states[v]
         /\ /\ OpenFor <= IdleTTL
            /\ states[v].state = "Open" /\ states[v].openAge < OpenFor
            => Swept(v) = states[v] /\ BreakerFor(v) = states[v]
  <1>1. Sound(states[v])
    BY DEF IInv
  <1>2. Absent.state = "Absent" /\ Fresh.state = "Closed"
    BY DEF Absent, Fresh
  <1>3. Swept(v) \in {Absent, states[v]}
    BY DEF Swept
  <1>4. BreakerFor(v) \in {Fresh, Swept(v)}
    BY DEF BreakerFor
  <1>5. ASSUME OpenFor <= IdleTTL, states[v].state = "Open",
               states[v].openAge < OpenFor
        PROVE  Swept(v) = states[v] /\ BreakerFor(v) = states[v]
    <2>1. ~(states[v].idle > IdleTTL)
      BY <1>1, <1>5, BreakerAssumption DEF Sound, Entry, Ages
    <2>2. QED BY <2>1, <1>5 DEF Swept, BreakerFor
  <1>6. QED BY <1>1, <1>2, <1>3, <1>4, <1>5, FreshSound

(* A method that leaves u with a sound entry b, and with p as its phase,   *)
(* keeps the part of the invariant that is about entries.                  *)
LEMMA VisitKeeps ==
  ASSUME IInv, NEW u \in Upstreams, NEW b, Sound(b),
         NEW p \in SUBSET Requests, Visit(u, b, p),
         b.state = "HalfOpen" => b.inFlight <= Cardinality(p)
  PROVE  /\ states' \in [Upstreams -> Entry]
         /\ visits' \in 0..(VisitLimit - 1)
         /\ probing' \in [Upstreams -> SUBSET Requests]
         /\ \A v \in Upstreams : Sound(states'[v])
         /\ \A v \in Upstreams :
              probing'[v] \subseteq IF v = u THEN p ELSE probing[v]
         /\ NoSlotLeak'
  <1>1. ASSUME NEW v \in Upstreams
        PROVE  Sound(states'[v])
    BY FoundSound DEF Visit
  <1>2. states' \in [Upstreams -> Entry]
    BY <1>1 DEF Visit, Sound
  <1>3. visits' \in 0..(VisitLimit - 1)
    BY RegistryAssumption DEF Visit, SweepDue, IInv, TypeOK
  <1>4. ASSUME NEW v \in Upstreams
        PROVE  /\ probing'[v] \in SUBSET Requests
               /\ probing'[v] \subseteq IF v = u THEN p ELSE probing[v]
    BY DEF Visit, IInv, TypeOK
  <1>5. probing' \in [Upstreams -> SUBSET Requests]
    BY <1>4 DEF Visit
  <1>6. ASSUME NEW v \in Upstreams, states'[v].state = "HalfOpen"
        PROVE  states'[v].inFlight <= Cardinality(probing'[v])
    <2>1. CASE v = u
      BY <1>6, <2>1 DEF Visit
    <2>2. CASE v # u
      <3>1. states'[v] = Swept(v) /\ probing'[v] = probing[v]
        BY <1>6, <2>2 DEF Visit
      <3>2. states'[v] = states[v]
        BY <1>6, <3>1, FoundSound
      <3>3. QED BY <1>6, <3>1, <3>2 DEF IInv, NoSlotLeak
    <2>3. QED BY <2>1, <2>2
  <1>7. QED BY <1>1, <1>2, <1>3, <1>4, <1>5, <1>6 DEF NoSlotLeak

-----------------------------------------------------------------------------
(* The invariant holds initially and every action preserves it.            *)
LEMMA InitIInv == Init => IInv
  <1> SUFFICES ASSUME Init PROVE IInv
    OBVIOUS
  <1>1. TypeOK
    BY FreshSound, RegistryAssumption DEF Init, TypeOK, Sound
  <1>2. \A u \in Upstreams : Sound(states[u])
    BY FreshSound DEF Init
  <1>3. Owed /\ SentSomewhere
    BY DEF Init, Owed, SentSomewhere
  <1>4. NoSlotLeak
    BY DEF Init, NoSlotLeak, Absent
  <1>5. QED BY <1>1, <1>2, <1>3, <1>4 DEF IInv

LEMMA FilterKeeps ==
  ASSUME IInv, NEW r \in Requests, Filter(r)
  PROVE  IInv'
  <1>1. PICK u \in todo[r] :
          /\ Visit(u, Advance(BreakerFor(u)), probing[u])
          /\ todo' = [todo EXCEPT ![r] = @ \ {u}]
          /\ avail' = IF Selectable(BreakerFor(u))
                      THEN [avail EXCEPT ![r] = @ \cup {u}] ELSE avail
    BY DEF Filter
  <1>2. u \in Upstreams /\ probing[u] \in SUBSET Requests
    BY DEF IInv, TypeOK
  <1> DEFINE b == Advance(BreakerFor(u))
  <1>3. Sound(b)
    BY <1>2, FoundSound, AdvanceSound
  <1>4. b.state = "HalfOpen" => b.inFlight <= Cardinality(probing[u])
    <2>1. Cardinality(probing[u]) \in Nat
      BY <1>2, PhaseFinite
    <2>2. b.state = "HalfOpen" => b = BreakerFor(u) \/ b.inFlight = 0
      BY <1>2, FoundSound, AdvanceSound
    <2>3. QED BY <1>2, <2>1, <2>2, FoundSound DEF IInv, NoSlotLeak
  <1> HIDE DEF b
  <1>5. /\ states' \in [Upstreams -> Entry]
        /\ visits' \in 0..(VisitLimit - 1)
        /\ probing' \in [Upstreams -> SUBSET Requests]
        /\ \A v \in Upstreams : Sound(states'[v])
        /\ \A v \in Upstreams : probing'[v] \subseteq probing[v]
        /\ NoSlotLeak'
    BY <1>1, <1>2, <1>3, <1>4, VisitKeeps DEF b
  <1>6. UNCHANGED <<pc, sel>>
    BY DEF Filter
  <1>7. todo' \in [Requests -> SUBSET Upstreams] /\ avail' \in [Requests -> SUBSET Upstreams]
    BY <1>1, <1>2 DEF IInv, TypeOK
  <1>8. TypeOK'
    BY <1>5, <1>6, <1>7 DEF IInv, TypeOK
  <1>9. Owed' /\ SentSomewhere'
    BY <1>5, <1>6 DEF IInv, Owed, SentSomewhere
  <1>10. QED BY <1>5, <1>8, <1>9 DEF IInv

LEMMA PickKeeps ==
  ASSUME IInv, NEW r \in Requests, Pick(r)
  PROVE  IInv'
  <1>1. PICK u \in Choices(avail[r]) :
          LET b == Advance(BreakerFor(u))
          IN  IF Allows(b)
              THEN /\ Visit(u, TakeSlot(b), probing[u] \cup {r})
                   /\ pc' = [pc EXCEPT ![r] = "sent"]
                   /\ sel' = [sel EXCEPT ![r] = u]
                   /\ avail' = [avail EXCEPT ![r] = {}]
              ELSE /\ Visit(u, b, probing[u])
                   /\ avail' = [avail EXCEPT ![r] = @ \ {u}]
                   /\ UNCHANGED <<pc, sel>>
    BY DEF Pick
  <1>2. u \in Upstreams /\ probing[u] \in SUBSET Requests
    BY DEF Choices, IInv, TypeOK
  <1>3. pc[r] = "picking" /\ todo' = todo
    BY DEF Pick
  <1>4. r \notin probing[u] /\ \A v \in Upstreams : r \notin probing[v]
    BY <1>2, <1>3 DEF IInv, Owed
  <1>5. Cardinality(probing[u]) \in Nat
    BY <1>2, PhaseFinite
  <1> DEFINE b == Advance(BreakerFor(u))
  <1>6. /\ Sound(b)
        /\ b.state = "HalfOpen" => b.inFlight <= Cardinality(probing[u])
    <2>1. /\ Sound(b)
          /\ b.state = "HalfOpen" => b = BreakerFor(u) \/ b.inFlight = 0
      BY <1>2, FoundSound, AdvanceSound
    <2>2. QED BY <1>2, <1>5, <2>1, FoundSound DEF IInv, NoSlotLeak
  <1> HIDE DEF b
  <1>7. CASE Allows(b)
    <2> DEFINE p == probing[u] \cup {r}
    <2>1. /\ Visit(u, TakeSlot(b), p)
          /\ pc' = [pc EXCEPT ![r] = "sent"]
          /\ sel' = [sel EXCEPT ![r] = u]
          /\ avail' = [avail EXCEPT ![r] = {}]
      BY <1>1, <1>7 DEF b
    <2>2. Sound(TakeSlot(b))
      BY <1>6, <1>7, TakeSlotSound
    <2>3. TakeSlot(b).state = "HalfOpen" =>
            TakeSlot(b).inFlight <= Cardinality(p)
      <3>1. Cardinality(p) = Cardinality(probing[u]) + 1
        BY <1>2, <1>4, Joined
      <3>2. b.inFlight \in Int
        BY <1>6 DEF Sound, Entry
      <3>3. QED BY <1>5, <1>6, <1>7, <3>1, <3>2, TakeSlotSound
    <2>4. p \in SUBSET Requests
      BY <1>2
    <2> HIDE DEF p
    <2>5. /\ states' \in [Upstreams -> Entry]
          /\ visits' \in 0..(VisitLimit - 1)
          /\ probing' \in [Upstreams -> SUBSET Requests]
          /\ \A v \in Upstreams : Sound(states'[v])
          /\ \A v \in Upstreams :
               probing'[v] \subseteq IF v = u THEN p ELSE probing[v]
          /\ NoSlotLeak'
      BY <1>2, <2>1, <2>2, <2>3, <2>4, VisitKeeps
    <2>6. TypeOK'
      BY <1>2, <1>3, <2>1, <2>5 DEF IInv, TypeOK
    <2>7. Owed'
      <3> SUFFICES ASSUME NEW v \in Upstreams, NEW q \in probing'[v]
                   PROVE  pc'[q] = "sent" /\ sel'[q] = v
        BY DEF Owed
      <3>1. q \in Requests /\ (q \in probing[v] \/ (v = u /\ q = r))
        BY <2>5 DEF p
      <3>2. q \in probing[v] => q # r /\ pc[q] = "sent" /\ sel[q] = v
        BY <1>4 DEF IInv, Owed
      <3>3. QED BY <2>1, <3>1, <3>2 DEF IInv, TypeOK
    <2>8. SentSomewhere'
      BY <1>2, <2>1 DEF IInv, TypeOK, SentSomewhere
    <2>9. QED BY <2>5, <2>6, <2>7, <2>8 DEF IInv
  <1>8. CASE ~Allows(b)
    <2>1. /\ Visit(u, b, probing[u])
          /\ avail' = [avail EXCEPT ![r] = @ \ {u}]
          /\ UNCHANGED <<pc, sel>>
      BY <1>1, <1>8 DEF b
    <2>2. /\ states' \in [Upstreams -> Entry]
          /\ visits' \in 0..(VisitLimit - 1)
          /\ probing' \in [Upstreams -> SUBSET Requests]
          /\ \A v \in Upstreams : Sound(states'[v])
          /\ \A v \in Upstreams : probing'[v] \subseteq probing[v]
          /\ NoSlotLeak'
      BY <1>2, <1>6, <2>1, VisitKeeps
    <2>3. TypeOK'
      BY <1>3, <2>1, <2>2 DEF IInv, TypeOK
    <2>4. Owed' /\ SentSomewhere'
      BY <2>1, <2>2 DEF IInv, Owed, SentSomewhere
    <2>5. QED BY <2>2, <2>3, <2>4 DEF IInv
  <1>9. QED BY <1>7, <1>8

(* Abort and Report: the request leaves the phase it may be in, and gives  *)
(* back one slot, or none if none is counted as taken.                     *)
LEMMA FinishKeeps ==
  ASSUME IInv, NEW r \in Requests, pc[r] = "sent",
         NEW b, Finish(r, b), Sound(b),
         b.state = "HalfOpen" =>
           LET c == BreakerFor(sel[r])
           IN  /\ c.state = "HalfOpen"
               /\ b.inFlight = c.inFlight - 1
                    \/ (b.inFlight = c.inFlight /\ c.inFlight <= 0)
  PROVE  IInv'
  <1> DEFINE u == sel[r]
             p == probing[u] \ {r}
  <1>1. u \in Upstreams
    BY DEF IInv, SentSomewhere
  <1>2. probing[u] \in SUBSET Requests /\ p \in SUBSET Requests
    BY <1>1 DEF IInv, TypeOK
  <1>3. b.state = "HalfOpen" => b.inFlight <= Cardinality(p)
    <2>1. SUFFICES ASSUME b.state = "HalfOpen"
                   PROVE  b.inFlight <= Cardinality(p)
      OBVIOUS
    <2>2. Cardinality(p) \in Nat /\ Cardinality(probing[u]) \in Nat
      BY <1>2, PhaseFinite
    <2>3. Cardinality(p) \in {Cardinality(probing[u]), Cardinality(probing[u]) - 1}
      BY <1>2, Left
    <2>4. /\ states[u].inFlight <= Cardinality(probing[u])
          /\ states[u].inFlight \in Int
          /\ \/ b.inFlight = states[u].inFlight - 1
             \/ b.inFlight = states[u].inFlight /\ states[u].inFlight <= 0
      BY <1>1, <2>1, FoundSound DEF IInv, NoSlotLeak, Sound, Entry
    <2>5. QED BY <2>2, <2>3, <2>4
  <1>4. /\ states' \in [Upstreams -> Entry]
        /\ visits' \in 0..(VisitLimit - 1)
        /\ probing' \in [Upstreams -> SUBSET Requests]
        /\ \A v \in Upstreams : Sound(states'[v])
        /\ \A v \in Upstreams :
             probing'[v] \subseteq IF v = u THEN p ELSE probing[v]
        /\ NoSlotLeak'
    <2>1. Visit(u, b, p)
      BY DEF Finish
    <2> HIDE DEF u, p
    <2>2. QED BY <1>1, <1>2, <1>3, <2>1, VisitKeeps
  <1>5. /\ pc' = [pc EXCEPT ![r] = "idle"]
        /\ sel' = [sel EXCEPT ![r] = None]
        /\ UNCHANGED <<todo, avail>>
    BY DEF Finish
  <1>6. TypeOK'
    BY <1>4, <1>5 DEF IInv, TypeOK
  <1>7. Owed'
    <2> SUFFICES ASSUME NEW v \in Upstreams, NEW q \in probing'[v]
                 PROVE  pc'[q] = "sent" /\ sel'[q] = v
      BY DEF Owed
    <2>1. q \in Requests /\ q \in probing[v] /\ (v = u => q # r)
      BY <1>4
    <2>2. pc[q] = "sent" /\ sel[q] = v
      BY <2>1 DEF IInv, Owed
    <2>3. q # r
      BY <2>1, <2>2
    <2>4. QED BY <1>5, <2>1, <2>2, <2>3 DEF IInv, TypeOK
  <1>8. SentSomewhere'
    BY <1>5 DEF IInv, TypeOK, SentSomewhere
  <1>9. QED BY <1>4, <1>6, <1>7, <1>8 DEF IInv

LEMMA ProbeKeeps ==
  ASSUME IInv, NEW u \in Upstreams, NEW ok \in BOOLEAN, Probe(u, ok)
  PROVE  IInv'
  <1> DEFINE b == RecordProbe(BreakerFor(u), ok)
  <1>1. Sound(b)
    BY FoundSound, RecordProbeSound
  <1>2. probing[u] \in SUBSET Requests
    BY DEF IInv, TypeOK
  <1>3. b.state = "HalfOpen" => b.inFlight <= Cardinality(probing[u])
    <2>1. Cardinality(probing[u]) \in Nat
      BY <1>2, PhaseFinite
    <2>2. b.state = "HalfOpen" =>
            \/ b.inFlight = 0
            \/ BreakerFor(u).state = "HalfOpen" /\ b.inFlight = BreakerFor(u).inFlight
      BY FoundSound, RecordProbeSound
    <2>3. QED BY <2>1, <2>2, FoundSound DEF IInv, NoSlotLeak
  <1>4. Visit(u, b, probing[u]) /\ UNCHANGED callVars
    BY DEF Probe
  <1> HIDE DEF b
  <1>5. /\ states' \in [Upstreams -> Entry]
        /\ visits' \in 0..(VisitLimit - 1)
        /\ probing' \in [Upstreams -> SUBSET Requests]
        /\ \A v \in Upstreams : Sound(states'[v])
        /\ \A v \in Upstreams : probing'[v] \subseteq probing[v]
        /\ NoSlotLeak'
    BY <1>1, <1>2, <1>3, <1>4, VisitKeeps
  <1>6. TypeOK'
    BY <1>4, <1>5 DEF callVars, IInv, TypeOK
  <1>7. Owed' /\ SentSomewhere'
    BY <1>4, <1>5 DEF callVars, IInv, Owed, SentSomewhere
  <1>8. QED BY <1>5, <1>6, <1>7 DEF IInv

LEMMA TickKeeps ==
  ASSUME IInv, Tick
  PROVE  IInv'
  <1>1. \A u \in Upstreams :
          /\ Sound(states'[u])
          /\ states'[u].state = states[u].state
          /\ states'[u].inFlight = states[u].inFlight
    BY AgeSound DEF Tick, IInv
  <1>2. states' \in [Upstreams -> Entry]
    BY <1>1 DEF Tick, Sound
  <1>3. UNCHANGED <<visits, pc, todo, avail, sel, probing>>
    BY DEF Tick
  <1>4. TypeOK'
    BY <1>2, <1>3 DEF IInv, TypeOK
  <1>5. Owed' /\ SentSomewhere' /\ NoSlotLeak'
    BY <1>1, <1>3 DEF IInv, Owed, SentSomewhere, NoSlotLeak
  <1>6. QED BY <1>1, <1>4, <1>5 DEF IInv

LEMMA NextIInv == IInv /\ [Next]_vars => IInv'
  <1> SUFFICES ASSUME IInv, [Next]_vars PROVE IInv'
    OBVIOUS
  <1>1. ASSUME NEW r \in Requests, Arrive(r) PROVE IInv'
    <2>1. /\ UNCHANGED <<states, visits, avail, sel, probing>>
          /\ pc' = [pc EXCEPT ![r] = "picking"]
          /\ pc[r] = "idle"
          /\ todo' \in [Requests -> SUBSET Upstreams]
      BY <1>1 DEF Arrive, IInv, TypeOK
    <2>2. TypeOK'
      BY <2>1 DEF IInv, TypeOK
    <2>3. Owed' /\ SentSomewhere'
      BY <2>1 DEF IInv, TypeOK, Owed, SentSomewhere
    <2>4. NoSlotLeak' /\ \A u \in Upstreams : Sound(states'[u])
      BY <2>1 DEF IInv, NoSlotLeak
    <2>5. QED BY <2>2, <2>3, <2>4 DEF IInv
  <1>2. ASSUME NEW r \in Requests, Filter(r) PROVE IInv'
    BY <1>2, FilterKeeps
  <1>3. ASSUME NEW r \in Requests, Pick(r) PROVE IInv'
    BY <1>3, PickKeeps
  <1>4. ASSUME NEW r \in Requests, Blocked(r) PROVE IInv'
    <2>1. /\ UNCHANGED <<states, visits, todo, avail, sel, probing>>
          /\ pc' = [pc EXCEPT ![r] = "idle"]
          /\ pc[r] = "picking"
      BY <1>4 DEF Blocked
    <2>2. TypeOK'
      BY <2>1 DEF IInv, TypeOK
    <2>3. Owed' /\ SentSomewhere'
      BY <2>1 DEF IInv, TypeOK, Owed, SentSomewhere
    <2>4. NoSlotLeak' /\ \A u \in Upstreams : Sound(states'[u])
      BY <2>1 DEF IInv, NoSlotLeak
    <2>5. QED BY <2>2, <2>3, <2>4 DEF IInv
  <1>5. ASSUME NEW r \in Requests, Abort(r) PROVE IInv'
    <2> DEFINE c == BreakerFor(sel[r])
    <2>1. pc[r] = "sent" /\ Finish(r, Release(c))
      BY <1>5 DEF Abort, Finish
    <2>2. Sound(c)
      BY <2>1, FoundSound DEF IInv, SentSomewhere
    <2>3. /\ Sound(Release(c))
          /\ Release(c).state = "HalfOpen" =>
               /\ c.state = "HalfOpen"
               /\ Release(c).inFlight = c.inFlight - 1
                    \/ (Release(c).inFlight = c.inFlight /\ c.inFlight <= 0)
      BY <2>2, ReleaseSound DEF Sound, Entry
    <2>4. QED BY <2>1, <2>3, FinishKeeps
  <1>6. ASSUME NEW r \in Requests, NEW ok \in BOOLEAN, Report(r, ok)
        PROVE  IInv'
    <2> DEFINE c == BreakerFor(sel[r])
    <2>1. pc[r] = "sent" /\ Finish(r, Record(c, ok))
      BY <1>6 DEF Report, Finish
    <2>2. Sound(c)
      BY <2>1, FoundSound DEF IInv, SentSomewhere
    <2>3. /\ Sound(Record(c, ok))
          /\ Record(c, ok).state = "HalfOpen" =>
               /\ c.state = "HalfOpen"
               /\ Record(c, ok).inFlight = c.inFlight - 1
      BY <2>2, RecordSound
    <2>4. QED BY <2>1, <2>3, FinishKeeps
  <1>7. ASSUME NEW u \in Upstreams, NEW ok \in BOOLEAN, Probe(u, ok)
        PROVE  IInv'
    BY <1>7, ProbeKeeps
  <1>8. CASE Tick
    BY <1>8, TickKeeps
  <1>9. CASE UNCHANGED vars
    BY <1>9 DEF vars, IInv, TypeOK, Owed, SentSomewhere, NoSlotLeak
  <1>10. QED
    BY <1>1, <1>2, <1>3, <1>4, <1>5, <1>6, <1>7, <1>8, <1>9 DEF Next

LEMMA SpecIInv == Spec => []IInv
  BY InitIInv, NextIInv, PTL DEF Spec

-----------------------------------------------------------------------------
(* Every variable keeps its type, whatever the thresholds.                 *)
THEOREM TypeCorrect == Spec => []TypeOK
  <1>1. IInv => TypeOK
    BY DEF IInv
  <1>2. QED BY <1>1, SpecIInv, PTL

(* The slots that a half-open breaker counts as taken are owed by requests *)
(* that will still give them back: pairing Allow with Record or Release in *)
(* proxy.go leaks none, however requests, probes and sweeps interleave.    *)
THEOREM NoSlotIsLost == Spec => []NoSlotLeak
  <1>1. IInv => NoSlotLeak
    BY DEF IInv
  <1>2. QED BY <1>1, SpecIInv, PTL

(* The in-flight counter of breaker.go never passes ProbeConcurrency.      *)
THEOREM SlotsBounded == Spec => []SlotLimit
  <1>1. IInv => SlotLimit
    BY DEF IInv, SlotLimit, Sound
  <1>2. QED BY <1>1, SpecIInv, PTL

(* Between two methods and in every method, an Open entry that is not due  *)
(* stays Open.                                                             *)
LEMMA VisitHolds ==
  ASSUME IInv, NEW u \in Upstreams, NEW b, NEW p, Visit(u, b, p),
         NEW v \in Upstreams, OpenFor <= IdleTTL,
         states[v].state = "Open", states[v].openAge < OpenFor,
         v = u => b.state = "Open"
  PROVE  states'[v].state = "Open"
  BY FoundSound DEF Visit

(* A tripped upstream is readmitted by nothing before OpenFor has passed,  *)
(* the idle sweep included, provided OpenFor <= breakerIdleTTL.            *)
THEOREM OpenIsHeld == Spec => OpenHolds
  <1>1. ASSUME IInv, [Next]_vars, NEW v \in Upstreams, OpenFor <= IdleTTL,
               states[v].state = "Open", states[v].openAge < OpenFor
        PROVE  states'[v].state = "Open"
    <2>1. BreakerFor(v) = states[v] /\ Sound(states[v])
      BY <1>1, FoundSound DEF IInv
    <2>2. Advance(BreakerFor(v)) = states[v] /\ ~Allows(states[v])
      BY <1>1, <2>1, AdvanceSound DEF Allows
    <2>3. /\ Release(BreakerFor(v)).state = "Open"
          /\ \A ok \in BOOLEAN : Record(BreakerFor(v), ok).state = "Open"
      BY <1>1, <2>1, SeenSound DEF Release, Record
    <2>4. \A ok \in BOOLEAN : RecordProbe(BreakerFor(v), ok).state = "Open"
      <3>1. ~Cooled(states[v])
        BY <1>1, <2>1, BreakerAssumption DEF Cooled, Sound, Entry, Ages
      <3>2. QED BY <1>1, <2>1, <3>1, SeenSound DEF RecordProbe
    <2>5. ASSUME NEW r \in Requests, Filter(r)
          PROVE  states'[v].state = "Open"
      <3>1. PICK u \in todo[r] : Visit(u, Advance(BreakerFor(u)), probing[u])
        BY <2>5 DEF Filter
      <3>2. u \in Upstreams
        BY <1>1 DEF IInv, TypeOK
      <3>3. QED BY <1>1, <2>2, <3>1, <3>2, VisitHolds
    <2>6. ASSUME NEW r \in Requests, Pick(r)
          PROVE  states'[v].state = "Open"
      <3>1. PICK u \in Choices(avail[r]) :
              LET b == Advance(BreakerFor(u))
              IN  IF Allows(b)
                  THEN Visit(u, TakeSlot(b), probing[u] \cup {r})
                  ELSE Visit(u, b, probing[u])
        BY <2>6 DEF Pick
      <3>2. u \in Upstreams
        BY <1>1 DEF Choices, IInv, TypeOK
      <3>3. CASE Allows(Advance(BreakerFor(u)))
        <4>1. v # u
          BY <2>2, <3>3
        <4>2. QED BY <1>1, <3>1, <3>2, <3>3, <4>1, VisitHolds
      <3>4. CASE ~Allows(Advance(BreakerFor(u)))
        BY <1>1, <2>2, <3>1, <3>2, <3>4, VisitHolds
      <3>5. QED BY <3>3, <3>4
    <2>7. ASSUME NEW r \in Requests, NEW ok \in BOOLEAN,
                 Abort(r) \/ Report(r, ok)
          PROVE  states'[v].state = "Open"
      <3>1. sel[r] \in Upstreams
        BY <1>1, <2>7 DEF IInv, SentSomewhere, Abort, Report, Finish
      <3>2. \E p : \/ Visit(sel[r], Release(BreakerFor(sel[r])), p)
                   \/ Visit(sel[r], Record(BreakerFor(sel[r]), ok), p)
        BY <2>7 DEF Abort, Report, Finish
      <3>3. QED BY <1>1, <2>3, <3>1, <3>2, VisitHolds
    <2>8. ASSUME NEW u \in Upstreams, NEW ok \in BOOLEAN, Probe(u, ok)
          PROVE  states'[v].state = "Open"
      BY <1>1, <2>4, <2>8, VisitHolds DEF Probe
    <2>9. CASE Tick
      BY <1>1, <2>1, <2>9, AgeSound DEF Tick
    <2>10. ASSUME NEW r \in Requests, Arrive(r) \/ Blocked(r)
           PROVE  states'[v].state = "Open"
      BY <1>1, <2>10 DEF Arrive, Blocked
    <2>11. CASE UNCHANGED vars
      BY <1>1, <2>11 DEF vars
    <2>12. QED
      BY <1>1, <2>5, <2>6, <2>7, <2>8, <2>9, <2>10, <2>11 DEF Next
  <1>2. IInv /\ [Next]_vars =>
          [\A u \in Upstreams :
             /\ OpenFor <= IdleTTL
             /\ states[u].state = "Open" /\ states[u].openAge < OpenFor
             => states'[u].state = "Open"]_vars
    BY <1>1
  <1>3. QED BY <1>2, SpecIInv, PTL DEF Spec, OpenHolds

(***************************************************************************)
(* TripNeedsFailures.  The code's counter is never above what the history  *)
(* heard: a Closed entry counts at most the failures since the last        *)
(* success, however late they were reported.                               *)
(***************************************************************************)
Counted ==
  \A u \in Upstreams :
    states[u].state = "Closed" => states[u].failures <= losses[u]

HInv == IInv /\ losses \in [Upstreams -> 0..FailureThreshold] /\ Counted

(* From entry a to entry b without a result heard: nothing is counted and  *)
(* nothing trips.                                                          *)
Calmly(a, b) ==
  /\ b.state = "Closed" =>
       b.failures = 0 \/ (a.state = "Closed" /\ b.failures = a.failures)
  /\ a.state \in {"Absent", "Closed"} => b.state \in {"Absent", "Closed"}

LEMMA CalmMethods ==
  ASSUME NEW b, Sound(b)
  PROVE  /\ Calmly(b, Advance(b)) /\ Calmly(b, TakeSlot(b))
         /\ Calmly(b, Release(b)) /\ Calmly(b, Age(b))
  <1>1. b \in Entry
    BY DEF Sound
  <1>2. Calmly(b, Advance(b))
    BY <1>1 DEF Calmly, Advance, Forget, Cooled, ToHalfOpen, Entry
  <1>3. Calmly(b, TakeSlot(b)) /\ Calmly(b, Release(b))
    BY <1>1 DEF Calmly, TakeSlot, Release, Entry
  <1>4. Age(b).state = b.state /\ Age(b).failures = b.failures
    BY <1>1 DEF Age, Entry
  <1>5. Calmly(b, Age(b))
    BY <1>4 DEF Calmly
  <1> QED  BY <1>2, <1>3, <1>5

LEMMA CalmlyOn ==
  ASSUME NEW a, NEW b, NEW c, Calmly(a, b), Calmly(b, c)
  PROVE  Calmly(a, c)
  BY DEF Calmly

(* The sweep forgets an entry, and breakerFor makes one that counts none.  *)
LEMMA CalmlyFound ==
  ASSUME IInv, NEW v \in Upstreams
  PROVE  Calmly(states[v], Swept(v)) /\ Calmly(states[v], BreakerFor(v))
  <1>1. /\ Absent.state = "Absent"
        /\ Fresh.state = "Closed" /\ Fresh.failures = 0
    BY DEF Absent, Fresh
  <1> QED  BY <1>1 DEF Calmly, Swept, BreakerFor

(* What a result does: a failure is counted in Closed only, and only the   *)
(* one that reaches the threshold trips.                                   *)
Told(b, ok, c) ==
  /\ c.state = "Closed" =>
       \/ c.failures = 0
       \/ /\ b.state = "Closed" /\ ~ok
          /\ c.failures = b.failures + 1 /\ c.failures < FailureThreshold
  /\ b.state = "Closed" /\ c.state = "Open" =>
       ~ok /\ b.failures + 1 >= FailureThreshold

LEMMA CountTold ==
  ASSUME NEW b \in Entry, b.state = "Closed", NEW ok \in BOOLEAN
  PROVE  Told(b, ok, Count(b, ok))
  <1> DEFINE f == [b EXCEPT !.failures = @ + 1, !.winAge = 0]
  <1>1. /\ f.state = "Closed" /\ f.failures = b.failures + 1
        /\ Forget(b).failures = 0 /\ Forget(b).state = "Closed"
        /\ Trip(f).state = "Open"
    BY DEF Entry, Forget, Trip
  <1>2. Count(b, ok) = IF ok THEN Forget(b)
                       ELSE IF f.failures >= FailureThreshold THEN Trip(f) ELSE f
    BY DEF Count
  <1>3. f.failures \in Nat /\ FailureThreshold \in Nat
    BY <1>1, BreakerAssumption DEF Entry
  <1> HIDE DEF f
  <1> QED  BY <1>1, <1>2, <1>3 DEF Told

LEMMA CountProbeTold ==
  ASSUME NEW b \in Entry, b.state = "HalfOpen", NEW ok \in BOOLEAN
  PROVE  Told(b, ok, CountProbe(b, ok))
  BY DEF Told, CountProbe, Reset, Trip, Forget, Entry

LEMMA ResultsTold ==
  ASSUME NEW b, Sound(b), NEW ok \in BOOLEAN
  PROVE  Told(b, ok, Record(b, ok)) /\ Told(b, ok, RecordProbe(b, ok))
  <1>1. b \in Entry /\ Seen(b) \in Entry /\ Seen(b).state = b.state
        /\ Seen(b).failures = b.failures
    BY SeenSound DEF Sound, Seen, Entry
  <1>2. CASE b.state = "Closed"
    <2>1. Record(b, ok) = Count(Seen(b), ok) /\ RecordProbe(b, ok) = Count(Seen(b), ok)
      BY <1>2 DEF Record, RecordProbe, Cooled
    <2>2. Told(Seen(b), ok, Count(Seen(b), ok))
      BY <1>1, <1>2, CountTold
    <2> QED  BY <1>1, <2>1, <2>2 DEF Told
  <1>3. CASE b.state = "HalfOpen"
    <2>1. Record(b, ok) = CountProbe(Seen(b), ok)
      BY <1>3 DEF Record
    <2>2. Told(Seen(b), ok, CountProbe(Seen(b), ok))
      BY <1>1, <1>3, CountProbeTold
    <2>3. RecordProbe(b, ok) = Seen(b)
      BY <1>3 DEF RecordProbe, Cooled
    <2> QED  BY <1>1, <1>3, <2>1, <2>2, <2>3 DEF Told
  <1>4. CASE b.state \notin {"Closed", "HalfOpen"}
    <2>1. Record(b, ok) = Seen(b)
      BY <1>4 DEF Record
    <2>2. RecordProbe(b, ok) = Seen(b) \/ RecordProbe(b, ok).state = "HalfOpen"
      BY <1>1, <1>4 DEF RecordProbe, ToHalfOpen, Entry
    <2> QED  BY <1>1, <1>4, <2>1, <2>2 DEF Told
  <1> QED  BY <1>2, <1>3, <1>4

(* What one step may do to the count of an upstream.                       *)
Accounted(u) ==
  /\ losses'[u] \in 0..FailureThreshold
  /\ states'[u].state = "Closed" => states'[u].failures <= losses'[u]
  /\ states[u].state \in {"Absent", "Closed"} /\ states'[u].state = "Open"
       => losses'[u] >= FailureThreshold

LEMMA CalmAccounted ==
  ASSUME HInv, NEW u \in Upstreams, Calmly(states[u], states'[u]),
         losses'[u] = losses[u]
  PROVE  Accounted(u)
  <1>1. losses[u] \in 0..FailureThreshold
    BY DEF HInv
  <1>2. states[u].state = "Closed" => states[u].failures <= losses[u]
    BY DEF HInv, Counted
  <1> QED  BY <1>1, <1>2, BreakerAssumption DEF Calmly, Accounted

LEMMA VisitAccounted ==
  ASSUME HInv, NEW u \in Upstreams, NEW b, NEW p, Visit(u, b, p),
         Calmly(states[u], b), losses' = losses
  PROVE  \A v \in Upstreams : Accounted(v)
  <1> SUFFICES ASSUME NEW v \in Upstreams PROVE Accounted(v)
    OBVIOUS
  <1>1. states'[v] = IF v = u THEN b ELSE Swept(v)
    BY DEF Visit
  <1>2. Calmly(states[v], states'[v])
    BY <1>1, CalmlyFound DEF HInv
  <1> QED  BY <1>2, CalmAccounted

LEMMA HeardAccounted ==
  ASSUME HInv, NEW u \in Upstreams, NEW ok \in BOOLEAN, NEW own, NEW c, NEW p,
         Visit(u, c, p), Heard(u, ok, own), Told(BreakerFor(u), ok, c)
  PROVE  losses' \in [Upstreams -> 0..FailureThreshold]
         /\ \A v \in Upstreams : Accounted(v)
  <1> DEFINE b == BreakerFor(u)
             FT == FailureThreshold
  <1>1. losses' = [v \in Upstreams |->
           IF v # u THEN losses[v]
           ELSE IF b.state # "Closed" \/ ok THEN 0
           ELSE IF losses[v] < FT THEN losses[v] + 1 ELSE losses[v]]
    BY DEF Heard
  <1>2. \A v \in Upstreams : losses[v] \in 0..FT
    BY DEF HInv
  <1>3. losses' \in [Upstreams -> 0..FT]
    BY <1>1, <1>2, BreakerAssumption
  <1>4. ASSUME NEW v \in Upstreams
        PROVE  Accounted(v)
    <2>1. CASE v # u
      <3>1. states'[v] = Swept(v) /\ losses'[v] = losses[v]
        BY <1>1, <2>1 DEF Visit
      <3> QED  BY <3>1, CalmlyFound, CalmAccounted DEF HInv
    <2>2. CASE v = u
      <3>1. states'[u] = c
        BY DEF Visit
      <3>2. /\ b.state = "Closed" => b.failures <= losses[u]
            /\ states[u].state \in {"Absent", "Closed"} => b.state = "Closed"
            /\ b.failures \in Nat
        <4>1. Calmly(states[u], b) /\ Sound(b)
          BY CalmlyFound, FoundSound DEF HInv
        <4>2. b.state # "Absent"
          BY DEF BreakerFor, Fresh, Absent
        <4>3. states[u].state = "Closed" => states[u].failures <= losses[u]
          BY DEF HInv, Counted
        <4> QED  BY <1>2, <4>1, <4>2, <4>3 DEF Calmly, Sound, Entry
      <3>3. losses'[u] = IF b.state # "Closed" \/ ok THEN 0
                         ELSE IF losses[u] < FT THEN losses[u] + 1 ELSE losses[u]
        BY <1>1
      <3>4. losses[u] \in Nat /\ losses[u] <= FT /\ FT \in Nat \ {0}
        BY <1>2, BreakerAssumption
      <3>5. losses'[u] \in 0..FT
        BY <1>3
      <3>6. CASE b.state = "Closed" /\ ~ok
        <4>1. \/ losses'[u] = losses[u] + 1
              \/ losses'[u] = FT
          BY <3>3, <3>4, <3>6
        <4>2. /\ c.state = "Closed" => c.failures = 0 \/ c.failures = b.failures + 1
              /\ c.state = "Open" => b.failures + 1 >= FT
          BY <3>6 DEF Told
        <4>3. c.state = "Closed" /\ losses'[u] = FT => c.failures <= FT
          BY <3>2, <3>4 DEF Told
        <4> QED  BY <2>2, <3>1, <3>2, <3>4, <3>5, <3>6, <4>1, <4>2, <4>3 DEF Accounted
      <3>7. CASE ~(b.state = "Closed" /\ ~ok)
        BY <2>2, <3>1, <3>2, <3>4, <3>5, <3>7 DEF Told, Accounted
      <3> QED  BY <3>6, <3>7
    <2> QED  BY <2>1, <2>2
  <1> QED  BY <1>3, <1>4

(* The history only observes.                                              *)
LEMMA HStepIsStep == [HNext]_hvars => [Next]_vars
  BY DEF HNext, HReport, HProbe, HTick, HOther, Next, hvars, vars

(* Every step of the registry and its callers is accounted for.            *)
LEMMA StepAccounted ==
  ASSUME HInv, [HNext]_hvars
  PROVE  losses' \in [Upstreams -> 0..FailureThreshold]
         /\ \A v \in Upstreams : Accounted(v)
  <1> DEFINE Goal == losses' \in [Upstreams -> 0..FailureThreshold]
                     /\ \A v \in Upstreams : Accounted(v)
  <1> USE DEF HInv
  <1>1. \A u \in Upstreams :
          /\ Sound(BreakerFor(u)) /\ Calmly(states[u], BreakerFor(u))
          /\ Sound(Advance(BreakerFor(u)))
          /\ Calmly(states[u], Advance(BreakerFor(u)))
    BY FoundSound, CalmlyFound, AdvanceSound, CalmMethods, CalmlyOn
  <1>2. ASSUME NEW u \in Upstreams, NEW b, NEW p, Visit(u, b, p),
               Calmly(states[u], b), losses' = losses
        PROVE  Goal
    BY <1>2, VisitAccounted
  <1>3. ASSUME UNCHANGED <<states, losses>> PROVE Goal
    <2>1. ASSUME NEW v \in Upstreams PROVE Accounted(v)
      <3>1. Calmly(states[v], states'[v])
        BY <1>3 DEF Calmly
      <3> QED  BY <1>3, <3>1, CalmAccounted
    <2> QED  BY <1>3, <2>1
  <1>4. ASSUME NEW r \in Requests, NEW ok \in BOOLEAN, HReport(r, ok) PROVE Goal
    <2>1. PICK u : u = sel[r]
      OBVIOUS
    <2>2. pc[r] = "sent" /\ u \in Upstreams
      BY <1>4, <2>1 DEF HReport, Report, Finish, IInv, SentSomewhere
    <2>3. /\ Visit(u, Record(BreakerFor(u), ok), probing[u] \ {r})
          /\ Heard(u, ok, r \in probing[u])
      BY <1>4, <2>1 DEF HReport, Report, Finish
    <2>4. Told(BreakerFor(u), ok, Record(BreakerFor(u), ok))
      BY <1>1, <2>2, ResultsTold
    <2> QED  BY <2>2, <2>3, <2>4, HeardAccounted
  <1>5. ASSUME NEW u \in Upstreams, NEW ok \in BOOLEAN, HProbe(u, ok) PROVE Goal
    <2>1. /\ Visit(u, RecordProbe(BreakerFor(u), ok), probing[u])
          /\ Heard(u, ok, FALSE)
      BY <1>5 DEF HProbe, Probe
    <2>2. Told(BreakerFor(u), ok, RecordProbe(BreakerFor(u), ok))
      BY <1>1, ResultsTold
    <2> QED  BY <2>1, <2>2, HeardAccounted
  <1>6. CASE HTick
    <2>1. losses' = losses
      BY <1>6 DEF HTick
    <2>2. ASSUME NEW v \in Upstreams PROVE Accounted(v)
      <3>1. states'[v] = Age(states[v]) /\ Sound(states[v])
        BY <1>6 DEF HTick, Tick, IInv
      <3> QED  BY <2>1, <3>1, CalmMethods, CalmAccounted
    <2> QED  BY <2>1, <2>2
  <1>7. CASE HOther
    <2>1. losses' = losses
      BY <1>7 DEF HOther
    <2>2. ASSUME NEW r \in Requests, Arrive(r) \/ Blocked(r) PROVE Goal
      BY <1>3, <2>1, <2>2 DEF Arrive, Blocked
    <2>3. ASSUME NEW r \in Requests, Filter(r) PROVE Goal
      <3>1. PICK u \in todo[r] : Visit(u, Advance(BreakerFor(u)), probing[u])
        BY <2>3 DEF Filter
      <3>2. u \in Upstreams
        BY DEF IInv, TypeOK
      <3> QED  BY <1>1, <1>2, <2>1, <3>1, <3>2
    <2>4. ASSUME NEW r \in Requests, Pick(r) PROVE Goal
      <3>1. PICK u \in Choices(avail[r]) :
              LET b == Advance(BreakerFor(u))
              IN  IF Allows(b)
                  THEN Visit(u, TakeSlot(b), probing[u] \cup {r})
                  ELSE Visit(u, b, probing[u])
        BY <2>4 DEF Pick
      <3>2. u \in Upstreams
        BY DEF Choices, IInv, TypeOK
      <3>3. Calmly(states[u], TakeSlot(Advance(BreakerFor(u))))
        BY <1>1, <3>2, CalmMethods, CalmlyOn
      <3> QED  BY <1>1, <1>2, <2>1, <3>1, <3>2, <3>3
    <2>5. ASSUME NEW r \in Requests, Abort(r) PROVE Goal
      <3>1. PICK u : u = sel[r]
        OBVIOUS
      <3>2. u \in Upstreams
        BY <2>5, <3>1 DEF Abort, Finish, IInv, SentSomewhere
      <3>3. Visit(u, Release(BreakerFor(u)), probing[u] \ {r})
        BY <2>5, <3>1 DEF Abort, Finish
      <3>4. Calmly(states[u], Release(BreakerFor(u)))
        BY <1>1, <3>2, CalmMethods, CalmlyOn
      <3> QED  BY <1>2, <2>1, <3>2, <3>3, <3>4
    <2> QED  BY <1>7, <2>2, <2>3, <2>4, <2>5 DEF HOther
  <1>8. CASE UNCHANGED hvars
    BY <1>3, <1>8 DEF hvars
  <1> QED  BY <1>4, <1>5, <1>6, <1>7, <1>8 DEF HNext

LEMMA SpecHInv == HSpec => []HInv
  <1>1. HInit => HInv
    <2> SUFFICES ASSUME HInit PROVE HInv
      OBVIOUS
    <2>1. IInv
      BY InitIInv DEF HInit
    <2>2. \A u \in Upstreams : states[u].state # "Closed"
      BY DEF HInit, Init, Absent
    <2>3. losses \in [Upstreams -> 0..FailureThreshold]
      BY BreakerAssumption DEF HInit
    <2> QED  BY <2>1, <2>2, <2>3 DEF HInv, Counted
  <1>2. HInv /\ [HNext]_hvars => HInv'
    <2> SUFFICES ASSUME HInv, [HNext]_hvars PROVE HInv'
      OBVIOUS
    <2>1. IInv'
      BY HStepIsStep, NextIInv DEF HInv
    <2> QED  BY <2>1, StepAccounted DEF HInv, Counted, Accounted
  <1> QED  BY <1>1, <1>2, PTL DEF HSpec

(* A breaker trips out of Closed only after FailureThreshold failures that *)
(* no success has interrupted: no order of late results, probes, sweeps    *)
(* and selections makes breaker.go count a failure twice or keep one that  *)
(* a success, a reset or a sweep has cleared.                              *)
THEOREM TripIsEarned == HSpec => TripNeedsFailures
  <1>1. HInv /\ [HNext]_hvars =>
          [\A u \in Upstreams :
             states[u].state \in {"Absent", "Closed"} /\ states'[u].state = "Open"
               => losses'[u] >= FailureThreshold]_hvars
    BY StepAccounted DEF Accounted
  <1> QED  BY <1>1, SpecHInv, PTL DEF HSpec, TripNeedsFailures

(***************************************************************************)
(* KeepsContract.  Each method of Breaker does to an entry what the        *)
(* contract says of its gate; BreakerFor and the sweep only forget.        *)
(***************************************************************************)
LEMMA GateOf ==
  ASSUME NEW b \in Entry
  PROVE  /\ Gate(b) \in Contract!Gates
         /\ b.state = "Open" =>
              Gate(b) = [phase |-> "open", cooling |-> b.openAge,
                         quiet |-> b.idle, trials |-> 0]
         /\ b.state = "HalfOpen" =>
              Gate(b) = [phase |-> "trial", cooling |-> 0,
                         quiet |-> b.idle, trials |-> b.inFlight]
         /\ b.state \in {"Absent", "Closed"} => Gate(b) = Contract!Closed
  BY BreakerAssumption
     DEF Entry, Ages, Gate, Contract!Gates, Contract!Ages, Contract!Closed

LEMMA GateAdvance ==
  ASSUME NEW b, Sound(b)
  PROVE  Gate(Advance(b)) = Contract!Ready(Gate(b))
  <1>1. b \in Entry /\ Advance(b) \in Entry
    BY AdvanceSound DEF Sound
  <1>2. CASE b.state = "Open" /\ Cooled(b)
    <2>1. Advance(b) = ToHalfOpen(b)
      BY <1>2 DEF Advance
    <2>2. /\ ToHalfOpen(b).state = "HalfOpen" /\ ToHalfOpen(b).inFlight = 0
          /\ ToHalfOpen(b).idle = b.idle
      BY <1>1 DEF ToHalfOpen, Entry
    <2>3. Gate(Advance(b)) = Contract!Trial(b.idle, 0)
      BY <1>1, <2>1, <2>2, GateOf DEF Contract!Trial
    <2>4. Contract!Cooled(Gate(b)) /\ Gate(b).quiet = b.idle
      BY <1>1, <1>2, GateOf DEF Contract!Cooled, Cooled
    <2>5. QED BY <2>3, <2>4 DEF Contract!Ready
  <1>3. CASE b.state = "Open" /\ ~Cooled(b)
    BY <1>1, <1>3, GateOf DEF Advance, Contract!Ready, Contract!Cooled, Cooled
  <1>4. CASE b.state # "Open"
    <2>1. Advance(b) = b \/ (b.state = "Closed" /\ Advance(b) = Forget(b))
      BY <1>4 DEF Advance, Cooled
    <2>2. Forget(b).state = b.state
      BY ForgetSound
    <2>3. Gate(Advance(b)) = Gate(b)
      BY <1>1, <2>1, <2>2, GateOf
    <2>4. Gate(b).phase # "open"
      BY <1>1, <1>4, GateOf DEF Entry, Contract!Closed
    <2>5. QED BY <2>3, <2>4 DEF Contract!Ready, Contract!Cooled
  <1>5. QED BY <1>2, <1>3, <1>4

LEMMA GateTakeSlot ==
  ASSUME NEW b, Sound(b), Allows(b)
  PROVE  /\ Contract!Admits(Gate(b))
         /\ Gate(TakeSlot(b)) = Contract!WithOne(Gate(b))
  <1>1. b \in Entry /\ TakeSlot(b) \in Entry
    BY TakeSlotSound DEF Sound
  <1>2. CASE b.state = "HalfOpen"
    <2>1. /\ TakeSlot(b).state = "HalfOpen" /\ TakeSlot(b).idle = b.idle
          /\ TakeSlot(b).inFlight = b.inFlight + 1
      BY <1>1, <1>2 DEF TakeSlot, Entry
    <2>2. QED
      BY <1>1, <1>2, <2>1, GateOf DEF Allows, Contract!Admits, Contract!WithOne
  <1>3. CASE b.state = "Closed"
    <2>1. TakeSlot(b) = b
      BY <1>3 DEF TakeSlot
    <2>2. QED
      BY <1>1, <1>3, <2>1, GateOf
         DEF Contract!Admits, Contract!WithOne, Contract!Closed
  <1>4. QED BY <1>2, <1>3 DEF Allows

LEMMA GateRelease ==
  ASSUME NEW b, Sound(b)
  PROVE  Gate(Release(b)) = Contract!GivenBack(Gate(b))
  <1>1. b \in Entry /\ Release(b) \in Entry
    BY ReleaseSound DEF Sound
  <1>2. CASE b.state = "HalfOpen"
    <2>1. Release(b).state = "HalfOpen" /\ Release(b).idle = b.idle
      BY <1>1, <1>2 DEF Release, Entry
    <2>2. QED BY <1>1, <1>2, <2>1, GateOf, ReleaseSound DEF Contract!GivenBack
  <1>3. CASE b.state # "HalfOpen"
    <2>1. Release(b) = b
      BY <1>3 DEF Release
    <2>2. Gate(b).phase # "trial"
      BY <1>1, <1>3, GateOf DEF Entry, Contract!Closed
    <2>3. QED BY <2>1, <2>2 DEF Contract!GivenBack
  <1>4. QED BY <1>2, <1>3

(* A result counted in Closed.                                             *)
LEMMA GateCount ==
  ASSUME NEW b, Sound(b), NEW ok \in BOOLEAN, b.idle = 0, b.state = "Closed"
  PROVE  Gate(Count(b, ok)) \in Contract!Counted(ok)
  <1> DEFINE f == [b EXCEPT !.failures = @ + 1, !.winAge = 0]
  <1>1. b \in Entry /\ Count(b, ok) \in Entry
    BY CountSound DEF Sound
  <1>2. /\ f.state = "Closed" /\ f.idle = 0
        /\ Forget(b).state = "Closed"
        /\ Trip(f).state = "Open" /\ Trip(f).idle = 0 /\ Trip(f).openAge = 0
    BY <1>1 DEF Forget, Trip, Entry
  <1>3. IF ok THEN Count(b, ok) = Forget(b) ELSE Count(b, ok) \in {f, Trip(f)}
    BY DEF Count
  <1> HIDE DEF f
  <1>4. QED
    BY <1>1, <1>2, <1>3, GateOf
       DEF Contract!Counted, Contract!Closed, Contract!Opened

LEMMA GateCountProbe ==
  ASSUME NEW b, Sound(b), NEW ok \in BOOLEAN, b.idle = 0, b.state = "HalfOpen"
  PROVE  Gate(CountProbe(b, ok)) \in
           IF ok THEN {Contract!Closed, Contract!Trial(0, b.inFlight - 1)}
           ELSE {Contract!Opened}
  <1> DEFINE done == [b EXCEPT !.inFlight = @ - 1]
             won  == [done EXCEPT !.successes = @ + 1]
  <1>1. b \in Entry /\ CountProbe(b, ok) \in Entry
    BY CountProbeSound DEF Sound
  <1>2. /\ won.state = "HalfOpen" /\ won.idle = 0 /\ won.inFlight = b.inFlight - 1
        /\ Reset(won).state = "Closed"
        /\ Trip(Forget(done)).state = "Open" /\ Trip(Forget(done)).idle = 0
        /\ Trip(Forget(done)).openAge = 0
    BY <1>1 DEF Forget, Trip, Reset, Entry
  <1>3. IF ok THEN CountProbe(b, ok) \in {won, Reset(won)}
        ELSE CountProbe(b, ok) = Trip(Forget(done))
    BY DEF CountProbe
  <1> HIDE DEF done, won
  <1>4. QED
    BY <1>1, <1>2, <1>3, GateOf
       DEF Contract!Closed, Contract!Opened, Contract!Trial

LEMMA GateSeen ==
  ASSUME NEW b, Sound(b)
  PROVE  /\ Gate(Seen(b)) = Contract!Heard(Gate(b))
         /\ Gate(Seen(b)).phase = Gate(b).phase
  <1>1. b \in Entry /\ Seen(b) \in Entry
    BY SeenSound DEF Sound
  <1>2. b.state \in {"Absent", "Closed", "Open", "HalfOpen"}
    BY <1>1 DEF Entry
  <1>3. QED
    BY <1>1, <1>2, GateOf, SeenSound DEF Contract!Heard, Contract!Closed

LEMMA SeenAt ==
  ASSUME NEW b, Sound(b)
  PROVE  /\ b.state = "Open" => Gate(b).phase = "open"
         /\ b.state = "HalfOpen" => Gate(b).phase = "trial" /\ Gate(b).trials = b.inFlight
         /\ b.state \in {"Absent", "Closed"} => Gate(b) = Contract!Closed
                                              /\ Gate(b).phase = "closed"
         /\ b.state \in {"Absent", "Closed", "Open", "HalfOpen"}
  BY GateOf DEF Sound, Entry, Contract!Closed

LEMMA GateRecord ==
  ASSUME NEW b, Sound(b), NEW ok \in BOOLEAN
  PROVE  Gate(Record(b, ok)) \in Contract!Told(Gate(b), ok)
  <1>1. CASE b.state = "HalfOpen"
    <2>1. Record(b, ok) = CountProbe(Seen(b), ok)
      BY <1>1 DEF Record
    <2>2. Gate(CountProbe(Seen(b), ok)) \in
            IF ok THEN {Contract!Closed, Contract!Trial(0, b.inFlight - 1)}
            ELSE {Contract!Opened}
      BY <1>1, SeenSound, GateCountProbe
    <2>3. QED BY <1>1, <2>1, <2>2, SeenAt DEF Contract!Told
  <1>2. CASE b.state = "Closed"
    <2>1. Record(b, ok) = Count(Seen(b), ok)
      BY <1>2 DEF Record
    <2>2. Gate(Count(Seen(b), ok)) \in Contract!Counted(ok)
      BY <1>2, SeenSound, GateCount
    <2>3. QED BY <1>2, <2>1, <2>2, SeenAt DEF Contract!Told
  <1>3. CASE b.state = "Open"
    <2>1. Record(b, ok) = Seen(b)
      BY <1>3 DEF Record
    <2>2. QED BY <1>3, <2>1, SeenAt, GateSeen DEF Contract!Told
  <1>4. CASE b.state = "Absent"
    <2>1. Record(b, ok) = Seen(b) /\ Gate(Seen(b)) = Contract!Closed
      BY <1>4, SeenSound, SeenAt DEF Record
    <2>2. QED BY <1>4, <2>1, SeenAt DEF Contract!Told, Contract!Counted
  <1>5. QED BY <1>1, <1>2, <1>3, <1>4, SeenAt

LEMMA GateRecordProbe ==
  ASSUME NEW b, Sound(b), NEW ok \in BOOLEAN
  PROVE  Gate(RecordProbe(b, ok)) \in Contract!Probed(Gate(b), ok)
  <1>1. CASE b.state = "Closed"
    <2>1. RecordProbe(b, ok) = Count(Seen(b), ok)
      BY <1>1 DEF RecordProbe, Cooled
    <2>2. Gate(Count(Seen(b), ok)) \in Contract!Counted(ok)
      BY <1>1, SeenSound, GateCount
    <2>3. QED BY <1>1, <2>1, <2>2, SeenAt DEF Contract!Probed
  <1>2. CASE b.state = "Open" /\ Cooled(b) /\ ok
    <2>1. RecordProbe(b, ok) = ToHalfOpen(Seen(b))
      BY <1>2 DEF RecordProbe
    <2>2. /\ Sound(Seen(b)) /\ Seen(b).state = "Open"
          /\ Cooled(Seen(b)) /\ Seen(b).idle = 0
      BY <1>2, SeenSound DEF Cooled
    <2>3. Advance(Seen(b)) = ToHalfOpen(Seen(b))
      BY <2>2 DEF Advance
    <2>4. Gate(ToHalfOpen(Seen(b))) = Contract!Trial(0, 0)
      <3>1. ToHalfOpen(Seen(b)) \in Entry
        BY <2>2, ToHalfOpenSound DEF Sound
      <3>2. /\ ToHalfOpen(Seen(b)).state = "HalfOpen"
            /\ ToHalfOpen(Seen(b)).inFlight = 0 /\ ToHalfOpen(Seen(b)).idle = 0
        BY <2>2 DEF ToHalfOpen, Sound, Entry
      <3>3. QED BY <3>1, <3>2, GateOf DEF Contract!Trial
    <2>5. /\ Gate(b).phase = "open" /\ Contract!Cooled(Gate(b))
          /\ Contract!Ready(Gate(b)) = Contract!Trial(Gate(b).quiet, 0)
      BY <1>2, GateOf DEF Sound, Cooled, Contract!Cooled, Contract!Ready
    <2>6. Contract!Heard(Contract!Trial(Gate(b).quiet, 0)) = Contract!Trial(0, 0)
      BY DEF Contract!Heard, Contract!Trial
    <2>7. QED BY <1>2, <2>1, <2>4, <2>5, <2>6 DEF Contract!Probed
  <1>3. CASE b.state = "HalfOpen" \/ (b.state = "Open" /\ ~(Cooled(b) /\ ok))
    <2>1. RecordProbe(b, ok) = Seen(b)
      BY <1>3 DEF RecordProbe, Cooled
    <2>2. Gate(b).phase # "closed"
      BY <1>3, SeenAt
    <2>3. ok => Contract!Ready(Gate(b)) = Gate(b)
      <3>1. ok => Advance(b) = b
        BY <1>3 DEF Advance, Cooled
      <3>2. QED BY <3>1, GateAdvance
    <2>4. QED BY <2>1, <2>2, <2>3, GateSeen DEF Contract!Probed
  <1>4. CASE b.state = "Absent"
    <2>1. RecordProbe(b, ok) = Seen(b) /\ Gate(Seen(b)) = Contract!Closed
      BY <1>4, SeenSound, SeenAt DEF RecordProbe, Cooled
    <2>2. QED BY <1>4, <2>1, SeenAt DEF Contract!Probed, Contract!Counted
  <1>5. QED BY <1>1, <1>2, <1>3, <1>4, SeenAt

LEMMA GateAge ==
  ASSUME NEW b, Sound(b)
  PROVE  Gate(Age(b)) = Contract!Aged(Gate(b))
  <1>1. b \in Entry /\ Age(b) \in Entry
    BY AgeSound DEF Sound
  <1>2. \A a \in Ages : Contract!Older(a) = Older(a)
    BY DEF Contract!Older, Older
  <1>3. b.openAge \in Ages /\ b.idle \in Ages
    BY <1>1 DEF Entry
  <1>4. /\ Age(b).state = b.state /\ Age(b).inFlight = b.inFlight
        /\ b.state = "Open" => Age(b).openAge = Older(b.openAge)
        /\ b.state # "Absent" => Age(b).idle = Older(b.idle)
    BY <1>1 DEF Age, Entry
  <1>5. CASE b.state \in {"Open", "HalfOpen"}
    BY <1>1, <1>2, <1>3, <1>4, <1>5, GateOf DEF Contract!Aged
  <1>6. CASE b.state \in {"Absent", "Closed"}
    BY <1>1, <1>4, <1>6, GateOf DEF Contract!Aged, Contract!Closed
  <1>7. QED BY <1>5, <1>6, SeenAt

(* What breakerFor finds, and what the sweep leaves of the others.         *)
LEMMA GateFound ==
  ASSUME IInv, NEW v \in Upstreams
  PROVE  /\ Gate(Swept(v)) \in Contract!Remembered(Gate(states[v]))
         /\ Gate(BreakerFor(v)) \in Contract!Remembered(Gate(states[v]))
  <1>1. Sound(states[v]) /\ states[v] \in Entry
    BY DEF IInv, Sound
  <1>2. Gate(Absent) = Contract!Closed /\ Gate(Fresh) = Contract!Closed
    <2>1. Absent.state = "Absent" /\ Fresh.state = "Closed"
      BY DEF Absent, Fresh
    <2>2. QED BY <2>1, FreshSound, SeenAt
  <1>3. Gate(states[v]) \in Contract!Remembered(Gate(states[v]))
    BY DEF Contract!Remembered
  <1>4. states[v].idle > IdleTTL =>
          Contract!Closed \in Contract!Remembered(Gate(states[v]))
    <2>1. CASE states[v].state \in {"Open", "HalfOpen"}
      BY <1>1, <2>1, GateOf DEF Contract!Remembered
    <2>2. CASE states[v].state \in {"Absent", "Closed"}
      BY <1>1, <1>3, <2>2, SeenAt
    <2>3. QED BY <1>1, <2>1, <2>2, SeenAt
  <1>5. Gate(Swept(v)) \in Contract!Remembered(Gate(states[v]))
    BY <1>2, <1>3, <1>4 DEF Swept
  <1>6. Gate(BreakerFor(v)) = Gate(Swept(v))
    <2>1. Swept(v).state = "Absent" => Gate(Swept(v)) = Contract!Closed
      BY FoundSound, SeenAt
    <2>2. QED BY <1>2, <2>1 DEF BreakerFor
  <1>7. QED BY <1>5, <1>6

LEMMA VisitCalls ==
  ASSUME IInv, NEW u \in Upstreams, NEW b, Sound(b), NEW p, Visit(u, b, p),
         NEW S, Gate(b) \in S
  PROVE  Contract!Call(u, S)
  <1>1. ASSUME NEW v \in Upstreams
        PROVE  Gate(states'[v]) \in Contract!Gates
    <2>1. Sound(states'[v])
      BY FoundSound DEF Visit
    <2>2. QED BY <2>1, GateOf DEF Sound
  <1>2. states'[u] = b
    BY DEF Visit
  <1>3. ASSUME NEW v \in Upstreams \ {u}
        PROVE  Gate(states'[v]) \in Contract!Remembered(Gate(states[v]))
    BY GateFound DEF Visit
  <1>4. QED BY <1>1, <1>2, <1>3 DEF Contract!Call

(* A request that was not sent holds no upstream.                          *)
Unsent == \A r \in Requests : pc[r] # "sent" => sel[r] = None

(* What the contract sees of the registry.                                 *)
view == <<[u \in Upstreams |-> Gate(states[u])], sel>>

LEMMA StepUnsent == IInv /\ Unsent /\ [Next]_vars => Unsent'
  <1> SUFFICES ASSUME IInv, Unsent, [Next]_vars PROVE Unsent'
    OBVIOUS
  <1> USE DEF IInv, TypeOK, Unsent
  <1>1. ASSUME NEW r \in Requests, Arrive(r) \/ Filter(r) \/ Blocked(r) PROVE Unsent'
    BY <1>1 DEF Arrive, Filter, Blocked
  <1>2. ASSUME NEW r \in Requests, Pick(r) PROVE Unsent'
    <2>1. \/ UNCHANGED <<pc, sel>>
          \/ \E u \in Upstreams : /\ pc' = [pc EXCEPT ![r] = "sent"]
                                 /\ sel' = [sel EXCEPT ![r] = u]
      BY <1>2 DEF Pick, Choices
    <2>2. QED BY <2>1
  <1>3. ASSUME NEW r \in Requests, NEW b, Finish(r, b) PROVE Unsent'
    BY <1>3 DEF Finish
  <1>4. CASE (\E u \in Upstreams, ok \in BOOLEAN : Probe(u, ok)) \/ Tick
    BY <1>4 DEF Probe, Tick, callVars
  <1>5. CASE UNCHANGED vars
    BY <1>5 DEF vars
  <1>6. QED BY <1>1, <1>2, <1>3, <1>4, <1>5 DEF Next, Abort, Report

LEMMA SpecUnsent == Spec => []Unsent
  <1>1. Init => Unsent
    BY DEF Init, Unsent
  <1>2. QED BY <1>1, StepUnsent, SpecIInv, PTL DEF Spec

(* Each action of the registry does what the contract allows, or nothing   *)
(* that it sees.                                                           *)
LEMMA FilterLooks ==
  ASSUME IInv, NEW r \in Requests, Filter(r)
  PROVE  \E u \in Upstreams : Contract!Look(u)
  <1>1. PICK u \in todo[r] : Visit(u, Advance(BreakerFor(u)), probing[u])
    BY DEF Filter
  <1>2. u \in Upstreams /\ sel' = sel
    BY DEF Filter, IInv, TypeOK
  <1> DEFINE b == BreakerFor(u)
             S == {Contract!Ready(g) : g \in Contract!Remembered(Gate(states[u]))}
  <1>3. Sound(Advance(b)) /\ Gate(Advance(b)) \in S
    BY <1>2, FoundSound, AdvanceSound, GateFound, GateAdvance
  <1>4. Contract!Call(u, S)
    BY <1>1, <1>2, <1>3, VisitCalls
  <1>5. QED BY <1>2, <1>4 DEF Contract!Look

LEMMA PickAdmits ==
  ASSUME IInv, Unsent, NEW r \in Requests, Pick(r)
  PROVE  \E u \in Upstreams : Contract!Look(u) \/ Contract!Admit(r, u)
  <1>1. PICK u \in Choices(avail[r]) :
          LET b == Advance(BreakerFor(u))
          IN  IF Allows(b)
              THEN /\ Visit(u, TakeSlot(b), probing[u] \cup {r})
                   /\ sel' = [sel EXCEPT ![r] = u]
              ELSE Visit(u, b, probing[u]) /\ sel' = sel
    BY DEF Pick
  <1>2. u \in Upstreams /\ sel[r] = None
    BY DEF Pick, Choices, IInv, TypeOK, Unsent
  <1> DEFINE b == Advance(BreakerFor(u))
             S == {Contract!Ready(g) : g \in Contract!Remembered(Gate(states[u]))}
             A == {Contract!WithOne(g) : g \in {h \in S : Contract!Admits(h)}}
  <1>3. Sound(b) /\ Gate(b) \in S
    BY <1>2, FoundSound, AdvanceSound, GateFound, GateAdvance
  <1>4. CASE Allows(b)
    <2>1. Sound(TakeSlot(b)) /\ Gate(TakeSlot(b)) \in A
      <3>1. Contract!Admits(Gate(b)) /\ Gate(TakeSlot(b)) = Contract!WithOne(Gate(b))
        BY <1>3, <1>4, GateTakeSlot
      <3>2. Sound(TakeSlot(b))
        BY <1>3, <1>4, TakeSlotSound
      <3> HIDE DEF S, b
      <3>3. QED BY <1>3, <3>1, <3>2
    <2>2. Visit(u, TakeSlot(b), probing[u] \cup {r}) /\ sel' = [sel EXCEPT ![r] = u]
      BY <1>1, <1>4
    <2>3. Contract!Call(u, A)
      <3> HIDE DEF A, b
      <3>1. QED BY <1>2, <2>1, <2>2, VisitCalls
    <2>4. QED BY <1>2, <2>2, <2>3 DEF Contract!Admit
  <1>5. CASE ~Allows(b)
    <2>1. Visit(u, b, probing[u]) /\ sel' = sel
      BY <1>1, <1>5
    <2>2. Contract!Call(u, S)
      BY <1>2, <1>3, <2>1, VisitCalls
    <2>3. QED BY <1>2, <2>1, <2>2 DEF Contract!Look
  <1>6. QED BY <1>4, <1>5

LEMMA FinishTells ==
  ASSUME IInv, NEW r \in Requests
  PROVE  /\ Abort(r) => Contract!Withdraw(r)
         /\ \A ok \in BOOLEAN : Report(r, ok) => Contract!Tell(r, ok)
  <1>1. ASSUME NEW b, Finish(r, b)
        PROVE  /\ sel[r] \in Upstreams /\ sel[r] # None
               /\ Visit(sel[r], b, probing[sel[r]] \ {r})
               /\ sel' = [sel EXCEPT ![r] = None]
    BY <1>1, RegistryAssumption DEF Finish, IInv, SentSomewhere
  <1>2. ASSUME Abort(r) PROVE Contract!Withdraw(r)
    <2> DEFINE b == BreakerFor(sel[r])
               S == {Contract!GivenBack(g) : g \in Contract!Remembered(Gate(states[sel[r]]))}
    <2>1. Finish(r, Release(b))
      BY <1>2 DEF Abort
    <2>2. Sound(Release(b)) /\ Gate(Release(b)) \in S
      BY <1>1, <2>1, FoundSound, ReleaseSound, GateFound, GateRelease
    <2>3. Contract!Call(sel[r], S)
      BY <1>1, <2>1, <2>2, VisitCalls
    <2>4. QED BY <1>1, <2>1, <2>3 DEF Contract!Withdraw
  <1>3. ASSUME NEW ok \in BOOLEAN, Report(r, ok) PROVE Contract!Tell(r, ok)
    <2> DEFINE b == BreakerFor(sel[r])
               S == UNION {Contract!Told(g, ok) :
                             g \in Contract!Remembered(Gate(states[sel[r]]))}
    <2>1. Finish(r, Record(b, ok))
      BY <1>3 DEF Report
    <2>2. Sound(Record(b, ok)) /\ Gate(Record(b, ok)) \in S
      BY <1>1, <2>1, FoundSound, RecordSound, GateFound, GateRecord
    <2>3. Contract!Call(sel[r], S)
      BY <1>1, <2>1, <2>2, VisitCalls
    <2>4. QED BY <1>1, <2>1, <2>3 DEF Contract!Tell
  <1>4. QED BY <1>2, <1>3

LEMMA ProbeProbes ==
  ASSUME IInv, NEW u \in Upstreams, NEW ok \in BOOLEAN, Probe(u, ok)
  PROVE  Contract!Probe(u, ok)
  <1> DEFINE b == BreakerFor(u)
             S == UNION {Contract!Probed(g, ok) :
                           g \in Contract!Remembered(Gate(states[u]))}
  <1>1. Visit(u, RecordProbe(b, ok), probing[u]) /\ sel' = sel
    BY DEF Probe, callVars
  <1>2. Sound(RecordProbe(b, ok)) /\ Gate(RecordProbe(b, ok)) \in S
    BY FoundSound, RecordProbeSound, GateFound, GateRecordProbe
  <1>3. Contract!Call(u, S)
    BY <1>1, <1>2, VisitCalls
  <1>4. QED BY <1>1, <1>3 DEF Contract!Probe

LEMMA TickPasses ==
  ASSUME IInv, Tick
  PROVE  Contract!Pass
  <1>1. \A u \in Upstreams : Gate(states'[u]) = Contract!Aged(Gate(states[u]))
    BY GateAge DEF Tick, IInv
  <1>2. QED BY <1>1 DEF Contract!Pass, Tick

LEMMA InitContract == Init => Contract!Init
  <1> SUFFICES ASSUME Init PROVE Contract!Init
    OBVIOUS
  <1>1. Gate(Absent) = Contract!Closed
    BY FreshSound, SeenAt DEF Absent
  <1>2. QED BY <1>1 DEF Init, Contract!Init

LEMMA StepContract == IInv /\ Unsent /\ [Next]_vars => [Contract!Next]_view
  <1> SUFFICES ASSUME IInv, Unsent, [Next]_vars PROVE [Contract!Next]_view
    OBVIOUS
  <1>1. ASSUME NEW r \in Requests, Arrive(r) \/ Blocked(r) PROVE UNCHANGED view
    BY <1>1 DEF Arrive, Blocked, view
  <1>2. ASSUME NEW r \in Requests, Filter(r) PROVE Contract!Next
    BY <1>2, FilterLooks DEF Contract!Next
  <1>3. ASSUME NEW r \in Requests, Pick(r) PROVE Contract!Next
    BY <1>3, PickAdmits DEF Contract!Next
  <1>4. ASSUME NEW r \in Requests, Abort(r) PROVE Contract!Next
    BY <1>4, FinishTells DEF Contract!Next
  <1>5. ASSUME NEW r \in Requests, NEW ok \in BOOLEAN, Report(r, ok) PROVE Contract!Next
    BY <1>5, FinishTells DEF Contract!Next
  <1>6. ASSUME NEW u \in Upstreams, NEW ok \in BOOLEAN, Probe(u, ok) PROVE Contract!Next
    BY <1>6, ProbeProbes DEF Contract!Next
  <1>7. CASE Tick
    BY <1>7, TickPasses DEF Contract!Next
  <1>8. CASE UNCHANGED vars
    BY <1>8 DEF vars, view
  <1>9. QED BY <1>1, <1>2, <1>3, <1>4, <1>5, <1>6, <1>7, <1>8 DEF Next

(* The registry implements the contract of BreakerContract, for any        *)
(* upstreams, requests and thresholds: no order of requests, late results, *)
(* probes, sweeps and time lets a request reach an upstream that opened    *)
(* before OpenFor is over, unless it was silent for IdleTTL, or gives out  *)
(* more than ProbeConcurrency slots of a trial.                            *)
THEOREM RegistryKeepsContract == Spec => KeepsContract
  <1>1. IInv /\ Unsent /\ [Next]_vars =>
          [Contract!Next]_<<[u \in Upstreams |-> Gate(states[u])], sel>>
    BY StepContract DEF view
  <1>2. QED
    BY <1>1, InitContract, SpecIInv, SpecUnsent, PTL
       DEF Spec, KeepsContract, Contract!Spec
=============================================================================
