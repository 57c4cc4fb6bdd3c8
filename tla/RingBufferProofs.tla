--------------------------- MODULE RingBufferProofs ---------------------------
(***************************************************************************)
(* Proofs about RingBuffer for every Size, every set of events and every   *)
(* finite number of goroutines: its invariants, and that it implements     *)
(* BoundedQueue.  Inv, the conjunction of the three invariants, is         *)
(* inductive.                                                              *)
(***************************************************************************)
EXTENDS RingBuffer, SequenceTheorems, FiniteSetTheorems, TLAPS

Inv == TypeOK /\ RingShape /\ NoLostWakeup

(***************************************************************************)
(* Arithmetic of the ring.                                                 *)
(***************************************************************************)
LEMMA Wrap ==
  ASSUME NEW a \in 0..(2 * Size - 1)
  PROVE  a % Size = IF a < Size THEN a ELSE a - Size
<1>1. Size \in Nat /\ Size > 0
  BY RingAssumption
<1>2. CASE a < Size
  BY <1>1, <1>2
<1>3. CASE a >= Size
  <2>1. a = Size + (a - Size) /\ a - Size \in 0..(Size - 1)
    BY <1>1, <1>3
  <2> QED  BY <1>1, <1>3, <2>1
<1> QED  BY <1>1, <1>2, <1>3

Pos(t, i) == (t + i) % Size

(* Positions are slots, neighbours are consecutive, and Size consecutive   *)
(* positions are all different.                                            *)
LEMMA PosFacts ==
  ASSUME NEW t \in Slots, NEW i \in 0..Size
  PROVE  /\ Pos(t, i) \in Slots
         /\ Pos(t, 0) = t
         /\ i < Size => (Pos(t, i) + 1) % Size = Pos(t, i + 1)
         /\ i < Size => Pos((t + 1) % Size, i) = Pos(t, i + 1)
         /\ i = Size => Pos(t, i) = t
<1> USE RingAssumption DEF Slots
<1>1. Pos(t, i) = IF t + i < Size THEN t + i ELSE t + i - Size
  BY Wrap DEF Pos
<1>2. Pos(t, 0) = t
  BY Wrap DEF Pos
<1>3. ASSUME i < Size
      PROVE  Pos(t, i + 1) = IF t + i + 1 < Size THEN t + i + 1
                             ELSE t + i + 1 - Size
  <2>1. t + (i + 1) \in 0..(2 * Size - 1)
    BY <1>3
  <2> QED  BY <2>1, Wrap DEF Pos
<1>4. ASSUME i < Size
      PROVE  (Pos(t, i) + 1) % Size = Pos(t, i + 1)
  <2>0. Pos(t, i) + 1 \in 0..(2 * Size - 1)
    BY <1>1
  <2>1. PICK x \in 0..(2 * Size - 1) : x = Pos(t, i) + 1
    BY <2>0, Zenon
  <2>2. x % Size = IF x < Size THEN x ELSE x - Size
    BY Wrap
  <2>3. x % Size = Pos(t, i + 1)
    BY <1>1, <1>3, <1>4, <2>1, <2>2
  <2> QED  BY <2>1, <2>3, Zenon
<1>5. ASSUME i < Size
      PROVE  Pos((t + 1) % Size, i) = Pos(t, i + 1)
  <2>1. t + 1 \in 0..(2 * Size - 1)
    OBVIOUS
  <2>2. (t + 1) % Size = IF t + 1 < Size THEN t + 1 ELSE t + 1 - Size
    BY <2>1, Wrap
  <2>3. ((t + 1) % Size) + i \in 0..(2 * Size - 1)
    BY <1>5, <2>2
  <2>4. Pos((t + 1) % Size, i)
          = IF ((t + 1) % Size) + i < Size THEN ((t + 1) % Size) + i
            ELSE ((t + 1) % Size) + i - Size
    BY <2>3, Wrap DEF Pos
  <2> QED  BY <1>3, <1>5, <2>2, <2>4
<1> QED  BY <1>1, <1>2, <1>4, <1>5

LEMMA PosInjective ==
  ASSUME NEW t \in Slots, NEW i \in 0..(Size - 1), NEW j \in 0..(Size - 1),
         Pos(t, i) = Pos(t, j)
  PROVE  i = j
<1> USE RingAssumption DEF Slots
<1>1. Pos(t, i) = IF t + i < Size THEN t + i ELSE t + i - Size
  BY Wrap DEF Pos
<1>2. Pos(t, j) = IF t + j < Size THEN t + j ELSE t + j - Size
  BY Wrap DEF Pos
<1>3. Size \in Nat /\ t \in Nat /\ i \in Nat /\ j \in Nat
      /\ t < Size /\ i < Size /\ j < Size
  OBVIOUS
<1>4. /\ Pos(t, i) = t + i \/ Pos(t, i) = t + i - Size
      /\ Pos(t, j) = t + j \/ Pos(t, j) = t + j - Size
  BY <1>1, <1>2, Zenon
<1> QED  BY <1>3, <1>4

(***************************************************************************)
(* Who waits and who is awake after a call returns and signals.            *)
(***************************************************************************)
LEMMA Sleepers ==
  ASSUME TypeOK, NEW T \in {Producers, Consumers}
  PROVE  /\ Waiting(T) \subseteq Threads /\ Awake(T) \subseteq Threads
         /\ IsFiniteSet(Awake(T)) /\ Cardinality(Awake(T)) \in Nat
<1>1. IsFiniteSet(T) /\ Awake(T) \in SUBSET T
  BY RingAssumption DEF Awake
<1>2. IsFiniteSet(Awake(T))
  BY <1>1, FS_Subset
<1> QED  BY <1>1, <1>2, FS_CardinalityType DEF Threads, Waiting, Awake

(* The side of the caller t loses t from its awake ones.                   *)
LEMMA OwnSide ==
  ASSUME TypeOK, NEW T \in {Producers, Consumers},
         NEW U \in {Producers, Consumers}, T # U,
         NEW t \in T, Wants(t), NEW v, ReturnSignal(t, v, U)
  PROVE  /\ Waiting(T)' = Waiting(T)
         /\ Cardinality(Awake(T)') >= Cardinality(Awake(T)) - 1
         /\ Cardinality(Awake(T)') \in Nat
<1>1. \A x \in T : x # t => pc'[x] = pc[x]
  BY RingAssumption DEF ReturnSignal, TypeOK, Threads, Waiting
<1>2. pc'[t] = "idle"
  BY RingAssumption DEF ReturnSignal, TypeOK, Threads, Waiting
<1>3. Waiting(T)' = Waiting(T)
  BY <1>1, <1>2 DEF Waiting, Wants
<1>4. Awake(T)' = Awake(T) \ {t}
  BY <1>1, <1>2 DEF Awake
<1>5. IsFiniteSet(Awake(T)) /\ Cardinality(Awake(T)) \in Nat
  BY Sleepers
<1>6. /\ IsFiniteSet(Awake(T) \ {t})
      /\ Cardinality(Awake(T) \ {t}) = IF t \in Awake(T)
                                       THEN Cardinality(Awake(T)) - 1
                                       ELSE Cardinality(Awake(T))
  BY <1>5, FS_RemoveElement
<1>7. Cardinality(Awake(T) \ {t}) \in Nat
  BY <1>6, FS_CardinalityType
<1> QED  BY <1>3, <1>4, <1>5, <1>6, <1>7

(* The other side gains one that is awake, if anyone was waiting.          *)
LEMMA OtherSide ==
  ASSUME TypeOK, NEW T \in {Producers, Consumers},
         NEW U \in {Producers, Consumers}, T # U,
         NEW t \in T, Wants(t), NEW v, ReturnSignal(t, v, U)
  PROVE  /\ Waiting(U)' \subseteq Waiting(U)
         /\ Waiting(U) # {} =>
              Cardinality(Awake(U)') = Cardinality(Awake(U)) + 1
<1>1. CASE Waiting(U) = {} /\ pc' = [pc EXCEPT ![t] = "idle"]
  BY <1>1, RingAssumption DEF Waiting, TypeOK, Threads
<1>2. ASSUME NEW w \in Waiting(U),
             pc' = [pc EXCEPT ![t] = "idle", ![w] = "awake"]
      PROVE  /\ Waiting(U)' \subseteq Waiting(U)
             /\ Cardinality(Awake(U)') = Cardinality(Awake(U)) + 1
  <2>1. w \in U /\ pc[w] = "waiting" /\ w # t /\ w \in Threads /\ t \notin U
    BY RingAssumption DEF Waiting, Wants, Threads
  <2>2. pc'[w] = "awake" /\ \A x \in U : x # w => pc'[x] = pc[x]
    BY <1>2, <2>1 DEF TypeOK, Threads
  <2>3. Awake(U)' = Awake(U) \cup {w} /\ w \notin Awake(U)
    BY <2>1, <2>2 DEF Awake
  <2>4. Waiting(U)' \subseteq Waiting(U)
    BY <2>1, <2>2 DEF Waiting
  <2> QED  BY <2>3, <2>4, Sleepers, FS_AddElement
<1> QED  BY <1>1, <1>2 DEF ReturnSignal

(* A step that wakes nobody and after which t waits or is idle.            *)
LEMMA NoSignal ==
  ASSUME TypeOK, NEW t \in Threads, NEW s \in {"idle", "locking", "waiting"},
         pc' = [pc EXCEPT ![t] = s],
         NEW T \in {Producers, Consumers}
  PROVE  /\ Waiting(T)' \subseteq Waiting(T) \cup {t}
         /\ t \notin T => Waiting(T)' = Waiting(T) /\ Awake(T)' = Awake(T)
         /\ s # "waiting" => Waiting(T)' \subseteq Waiting(T)
         /\ pc[t] # "awake" => Awake(T)' = Awake(T)
         /\ Cardinality(Awake(T)') \in Nat
<1>1. pc'[t] = s /\ \A x \in Threads : x # t => pc'[x] = pc[x]
  BY DEF TypeOK
<1>2. T \subseteq Threads
  BY DEF Threads
<1>3. IsFiniteSet(Awake(T)')
  BY FS_Subset, RingAssumption DEF Awake
<1> QED  BY <1>1, <1>2, <1>3, FS_CardinalityType DEF Waiting, Awake

(***************************************************************************)
(* Inv is inductive: what each step does to the ring and to the sleepers.  *)
(***************************************************************************)
LEMMA PushKeepsShape ==
  ASSUME Inv, NEW p \in Producers, Push(p)
  PROVE  RingShape'
<1>1. /\ Size \in Nat \ {0} /\ tail \in Slots /\ count \in 0..(Size - 1)
      /\ buf \in [Slots -> Events \cup {Nil}] /\ head = Pos(tail, count)
      /\ arg[p] \in Events /\ arg[p] # Nil
      /\ \A i \in 0..(Size - 1) : (i < count) <=> (buf[Pos(tail, i)] # Nil)
  BY RingAssumption
     DEF Inv, TypeOK, RingShape, SlotOf, Pos, Push, Wants, isFull
<1>2. /\ buf' = [buf EXCEPT ![head] = arg[p]] /\ head' = (head + 1) % Size
      /\ count' = count + 1 /\ tail' = tail
  BY DEF Push
<1>3. head' = Pos(tail, count + 1)
  BY <1>1, <1>2, PosFacts
<1>4. ASSUME NEW i \in 0..(Size - 1)
      PROVE  (i < count + 1) <=> (buf'[Pos(tail, i)] # Nil)
  <2>1. Pos(tail, i) \in Slots
    BY <1>1, PosFacts
  <2>2. CASE i = count
    BY <1>1, <1>2, <2>1, <2>2
  <2>3. CASE i # count
    <3>1. Pos(tail, i) # head
      BY <1>1, <2>3, PosInjective
    <3>2. buf'[Pos(tail, i)] = buf[Pos(tail, i)]
      BY <1>1, <1>2, <2>1, <3>1
    <3>3. (i < count + 1) <=> (i < count)
      BY <1>1, <2>3
    <3> QED  BY <1>1, <3>2, <3>3
  <2> QED  BY <2>2, <2>3
<1> QED  BY <1>2, <1>3, <1>4 DEF RingShape, SlotOf, Pos

LEMMA PopKeepsShape ==
  ASSUME Inv, NEW c \in Consumers, Pop(c)
  PROVE  RingShape'
<1>1. /\ Size \in Nat \ {0} /\ tail \in Slots /\ count \in 1..Size
      /\ buf \in [Slots -> Events \cup {Nil}] /\ head = Pos(tail, count)
      /\ \A i \in 0..(Size - 1) : (i < count) <=> (buf[Pos(tail, i)] # Nil)
  BY RingAssumption
     DEF Inv, TypeOK, RingShape, SlotOf, Pos, Pop, Wants, isEmpty
<1>2. /\ buf' = [buf EXCEPT ![tail] = Nil] /\ tail' = (tail + 1) % Size
      /\ count' = count - 1 /\ head' = head
  BY DEF Pop
<1>3. ASSUME NEW i \in 0..(Size - 1)
      PROVE  Pos(tail', i) = Pos(tail, i + 1)
  BY <1>1, <1>2, PosFacts
<1>4. head' = Pos(tail', count')
  <2>1. count - 1 \in 0..(Size - 1) /\ (count - 1) + 1 = count
    BY <1>1
  <2>2. Pos(tail', count - 1) = Pos(tail, (count - 1) + 1)
    BY <1>3, <2>1
  <2> QED  BY <1>1, <1>2, <2>1, <2>2
<1>5. ASSUME NEW i \in 0..(Size - 1)
      PROVE  (i < count - 1) <=> (buf'[Pos(tail', i)] # Nil)
  <2>1. CASE i = Size - 1
    <3>1. Pos(tail, i + 1) = tail
      BY <1>1, <2>1, PosFacts
    <3>2. buf'[tail] = Nil
      BY <1>1, <1>2
    <3>3. ~(i < count - 1)
      BY <1>1, <2>1
    <3> QED  BY <1>3, <3>1, <3>2, <3>3
  <2>2. CASE i # Size - 1
    <3>1. i + 1 \in 0..(Size - 1) /\ i + 1 # 0
      BY <1>1, <2>2
    <3>2. Pos(tail, i + 1) \in Slots /\ Pos(tail, 0) = tail
      BY <1>1, <3>1, PosFacts
    <3>3. Pos(tail, i + 1) # tail
      <4>1. 0 \in 0..(Size - 1)
        BY <1>1
      <4> QED  BY <1>1, <3>1, <3>2, <4>1, PosInjective
    <3>4. buf'[Pos(tail, i + 1)] = buf[Pos(tail, i + 1)]
      BY <1>1, <1>2, <3>2, <3>3
    <3>5. (i < count - 1) <=> (i + 1 < count)
      BY <1>1
    <3> QED  BY <1>1, <1>3, <3>1, <3>4, <3>5
  <2> QED  BY <2>1, <2>2
<1> QED  BY <1>2, <1>4, <1>5 DEF RingShape, SlotOf, Pos

LEMMA PushKeepsWakeups ==
  ASSUME Inv, NEW p \in Producers, Push(p)
  PROVE  NoLostWakeup'
<1>1. /\ TypeOK /\ Wants(p) /\ ReturnSignal(p, Accepted, Consumers)
      /\ count \in Nat /\ Size \in Nat /\ count' = count + 1
      /\ closed' = closed /\ Producers # Consumers
  BY RingAssumption DEF Inv, TypeOK, Push
<1>2. /\ Waiting(Producers)' = Waiting(Producers)
      /\ Cardinality(Awake(Producers)') >= Cardinality(Awake(Producers)) - 1
      /\ Cardinality(Awake(Producers)') \in Nat
  BY <1>1, OwnSide
<1>3. /\ Waiting(Consumers)' \subseteq Waiting(Consumers)
      /\ Waiting(Consumers) # {} =>
           Cardinality(Awake(Consumers)') = Cardinality(Awake(Consumers)) + 1
  BY <1>1, OtherSide
<1>4. /\ Cardinality(Awake(Producers)) \in Nat
      /\ Cardinality(Awake(Consumers)) \in Nat
  BY <1>1, Sleepers
<1>5. /\ Waiting(Producers) # {} =>
           ~closed /\ Cardinality(Awake(Producers)) >= Size - count
      /\ Waiting(Consumers) # {} =>
           ~closed /\ Cardinality(Awake(Consumers)) >= count
  BY DEF Inv, NoLostWakeup
<1>6. Waiting(Producers)' # {} =>
        ~closed' /\ Cardinality(Awake(Producers)') >= Size - count'
  BY <1>1, <1>2, <1>4, <1>5
<1>7. Waiting(Consumers)' # {} =>
        ~closed' /\ Cardinality(Awake(Consumers)') >= count'
  BY <1>1, <1>3, <1>4, <1>5
<1> QED  BY <1>6, <1>7 DEF NoLostWakeup

LEMMA PopKeepsWakeups ==
  ASSUME Inv, NEW c \in Consumers, Pop(c)
  PROVE  NoLostWakeup'
<1>1. /\ TypeOK /\ Wants(c) /\ ReturnSignal(c, buf[tail], Producers)
      /\ count \in Nat /\ Size \in Nat /\ count' = count - 1
      /\ closed' = closed /\ Producers # Consumers
  BY RingAssumption DEF Inv, TypeOK, Pop
<1>2. /\ Waiting(Consumers)' = Waiting(Consumers)
      /\ Cardinality(Awake(Consumers)') >= Cardinality(Awake(Consumers)) - 1
      /\ Cardinality(Awake(Consumers)') \in Nat
  BY <1>1, OwnSide
<1>3. /\ Waiting(Producers)' \subseteq Waiting(Producers)
      /\ Waiting(Producers) # {} =>
           Cardinality(Awake(Producers)') = Cardinality(Awake(Producers)) + 1
  BY <1>1, OtherSide
<1>4. /\ Cardinality(Awake(Producers)) \in Nat
      /\ Cardinality(Awake(Consumers)) \in Nat
  BY <1>1, Sleepers
<1>5. /\ Waiting(Producers) # {} =>
           ~closed /\ Cardinality(Awake(Producers)) >= Size - count
      /\ Waiting(Consumers) # {} =>
           ~closed /\ Cardinality(Awake(Consumers)) >= count
  BY DEF Inv, NoLostWakeup
<1>6. Waiting(Producers)' # {} =>
        ~closed' /\ Cardinality(Awake(Producers)') >= Size - count'
  BY <1>1, <1>3, <1>4, <1>5
<1>7. Waiting(Consumers)' # {} =>
        ~closed' /\ Cardinality(Awake(Consumers)') >= count'
  BY <1>1, <1>2, <1>4, <1>5
<1> QED  BY <1>6, <1>7 DEF NoLostWakeup

(* Every step but Push, Pop and Close: one goroutine goes to s.            *)
Moves(t, s) ==
  /\ pc' = [pc EXCEPT ![t] = s]
  /\ UNCHANGED <<buf, head, tail, count, closed>>

LEMMA MoveKeepsInv ==
  ASSUME Inv, NEW t \in Threads, NEW s \in {"idle", "locking", "waiting"},
         Moves(t, s),
         \/ s = "locking" /\ pc[t] = "idle"
         \/ s = "idle" /\ closed
         \/ s = "waiting" /\ t \in Producers /\ isFull /\ ~closed
         \/ s = "waiting" /\ t \in Consumers /\ isEmpty /\ ~closed
  PROVE  RingShape' /\ NoLostWakeup'
<1>1. RingShape'
  BY DEF Inv, RingShape, SlotOf, Moves
<1>2. /\ TypeOK /\ count' = count /\ closed' = closed
      /\ count \in Nat /\ Size \in Nat
      /\ pc' = [pc EXCEPT ![t] = s]
      /\ Producers \cap Consumers = {}
  BY RingAssumption DEF Inv, TypeOK, Moves
<1>3. ASSUME NEW T \in {Producers, Consumers}
      PROVE  /\ Waiting(T)' \subseteq Waiting(T) \cup {t}
             /\ t \notin T => Waiting(T)' = Waiting(T) /\ Awake(T)' = Awake(T)
             /\ s # "waiting" => Waiting(T)' \subseteq Waiting(T)
             /\ pc[t] # "awake" => Awake(T)' = Awake(T)
             /\ Cardinality(Awake(T)') \in Nat
  BY <1>2, NoSignal
<1>4. /\ Waiting(Producers) # {} =>
           ~closed /\ Cardinality(Awake(Producers)) >= Size - count
      /\ Waiting(Consumers) # {} =>
           ~closed /\ Cardinality(Awake(Consumers)) >= count
  BY DEF Inv, NoLostWakeup
<1>5. CASE s = "locking" /\ pc[t] = "idle"
  <2>1. ASSUME NEW T \in {Producers, Consumers}
        PROVE  Waiting(T)' \subseteq Waiting(T) /\ Awake(T)' = Awake(T)
    BY <1>3, <1>5
  <2> QED  BY <1>1, <1>2, <1>4, <2>1 DEF NoLostWakeup
<1>6. CASE s = "idle" /\ closed
  <2>1. Waiting(Producers)' = {} /\ Waiting(Consumers)' = {}
    BY <1>3, <1>4, <1>6
  <2> QED  BY <1>1, <2>1 DEF NoLostWakeup
<1>7. CASE s = "waiting" /\ t \in Producers /\ isFull /\ ~closed
  <2>1. Cardinality(Awake(Producers)') >= Size - count'
    BY <1>2, <1>3, <1>7 DEF isFull
  <2>2. Waiting(Consumers)' = Waiting(Consumers)
        /\ Awake(Consumers)' = Awake(Consumers)
    BY <1>2, <1>3, <1>7
  <2> QED  BY <1>1, <1>2, <1>4, <1>7, <2>1, <2>2 DEF NoLostWakeup
<1>8. CASE s = "waiting" /\ t \in Consumers /\ isEmpty /\ ~closed
  <2>1. Cardinality(Awake(Consumers)') >= count'
    BY <1>2, <1>3, <1>8 DEF isEmpty
  <2>2. Waiting(Producers)' = Waiting(Producers)
        /\ Awake(Producers)' = Awake(Producers)
    BY <1>2, <1>3, <1>8
  <2> QED  BY <1>1, <1>2, <1>4, <1>8, <2>1, <2>2 DEF NoLostWakeup
<1> QED  BY <1>1, <1>5, <1>6, <1>7, <1>8

LEMMA CloseKeepsInv ==
  ASSUME Inv, Close
  PROVE  RingShape' /\ NoLostWakeup'
<1>1. RingShape'
  BY DEF Inv, RingShape, SlotOf, Close
<1>2. \A t \in Threads : pc'[t] # "waiting"
  BY DEF Close
<1>3. Waiting(Producers)' = {} /\ Waiting(Consumers)' = {}
  BY <1>2 DEF Waiting, Threads
<1> QED  BY <1>1, <1>3 DEF NoLostWakeup

(* What a call leaves in pc is well typed.                                 *)
LEMMA ReturnType ==
  ASSUME TypeOK, NEW t \in Threads, NEW T \in {Producers, Consumers}, NEW v,
         pc[t] # "waiting",
         ReturnSignal(t, v, T)
  PROVE  /\ pc' \in [Threads -> {"idle", "locking", "waiting", "awake"}]
         /\ \A p \in Producers : pc'[p] # "idle" => pc[p] # "idle" /\ p # t
<1>1. CASE pc' = [pc EXCEPT ![t] = "idle"]
  BY <1>1 DEF TypeOK, Threads
<1>2. ASSUME NEW w \in Waiting(T),
             pc' = [pc EXCEPT ![t] = "idle", ![w] = "awake"]
      PROVE  /\ pc' \in [Threads -> {"idle", "locking", "waiting", "awake"}]
             /\ \A p \in Producers :
                  pc'[p] # "idle" => pc[p] # "idle" /\ p # t
  BY <1>2 DEF TypeOK, Threads, Waiting
<1> QED  BY <1>1, <1>2 DEF ReturnSignal

LEMMA StepType ==
  ASSUME Inv, [Next]_vars
  PROVE  TypeOK'
<1> USE RingAssumption
<1>0. TypeOK
  BY DEF Inv
<1>1. ASSUME NEW p \in Producers, CallPush(p)
      PROVE  TypeOK'
  BY <1>0, <1>1 DEF TypeOK, CallPush, Threads
<1>2. ASSUME NEW p \in Producers, PushRefused(p)
      PROVE  TypeOK'
  BY <1>0, <1>2 DEF TypeOK, PushRefused, Return, Threads
<1>3. ASSUME NEW p \in Producers, PushWaits(p)
      PROVE  TypeOK'
  BY <1>0, <1>3 DEF TypeOK, PushWaits, Wants, Threads
<1>4. ASSUME NEW p \in Producers, Push(p)
      PROVE  TypeOK'
  <2>1. /\ buf' \in [Slots -> Events \cup {Nil}] /\ head' \in Slots
        /\ count' \in 0..Size /\ tail' \in Slots /\ closed' \in BOOLEAN
    BY <1>0, <1>4 DEF TypeOK, Push, isFull, Wants, Slots
  <2>2. /\ pc' \in [Threads -> {"idle", "locking", "waiting", "awake"}]
        /\ \A q \in Producers : pc'[q] # "idle" => pc[q] # "idle" /\ q # p
    BY <1>0, <1>4, ReturnType DEF Push, Wants, Threads
  <2>3. /\ arg' \in [Producers -> Events \cup {Nil}]
        /\ \A q \in Producers : pc'[q] # "idle" => arg'[q] \in Events
    BY <1>0, <1>4, <2>2 DEF TypeOK, Push
  <2>4. returned' \in [Threads -> Events \cup {NoReturn, Accepted, Closed}]
    BY <1>0, <1>4 DEF TypeOK, Push, ReturnSignal, Threads
  <2> QED  BY <2>1, <2>2, <2>3, <2>4 DEF TypeOK
<1>5. ASSUME NEW c \in Consumers, CallPop(c)
      PROVE  TypeOK'
  BY <1>0, <1>5 DEF TypeOK, CallPop, Threads
<1>6. ASSUME NEW c \in Consumers, PopRefused(c)
      PROVE  TypeOK'
  BY <1>0, <1>6 DEF TypeOK, PopRefused, Return, Threads
<1>7. ASSUME NEW c \in Consumers, PopWaits(c)
      PROVE  TypeOK'
  BY <1>0, <1>7 DEF TypeOK, PopWaits, Wants, Threads
<1>8. ASSUME NEW c \in Consumers, Pop(c)
      PROVE  TypeOK'
  <2>1. /\ buf' \in [Slots -> Events \cup {Nil}] /\ head' \in Slots
        /\ count' \in 0..Size /\ tail' \in Slots /\ closed' \in BOOLEAN
    BY <1>0, <1>8 DEF TypeOK, Pop, isEmpty, Wants, Slots
  <2>2. /\ pc' \in [Threads -> {"idle", "locking", "waiting", "awake"}]
        /\ \A q \in Producers : pc'[q] # "idle" => pc[q] # "idle" /\ q # c
    BY <1>0, <1>8, ReturnType DEF Pop, Wants, Threads
  <2>3. /\ arg' \in [Producers -> Events \cup {Nil}]
        /\ \A q \in Producers : pc'[q] # "idle" => arg'[q] \in Events
    BY <1>0, <1>8, <2>2 DEF TypeOK, Pop
  <2>4. buf[tail] \in Events
    <3>1. tail \in Slots /\ Pos(tail, 0) = tail /\ 0 < count
          /\ 0 \in 0..(Size - 1)
      BY <1>0, <1>8, PosFacts DEF TypeOK, Pop, isEmpty
    <3>2. buf[Pos(tail, 0)] # Nil
      BY <3>1 DEF Inv, RingShape, SlotOf, Pos
    <3> QED  BY <1>0, <3>1, <3>2 DEF TypeOK
  <2>5. returned' \in [Threads -> Events \cup {NoReturn, Accepted, Closed}]
    BY <1>0, <1>8, <2>4 DEF TypeOK, Pop, ReturnSignal, Threads
  <2> QED  BY <2>1, <2>2, <2>3, <2>5 DEF TypeOK
<1>9. CASE Close
  BY <1>0, <1>9 DEF TypeOK, Close, Threads
<1>10. CASE UNCHANGED vars
  BY <1>0, <1>10 DEF TypeOK, vars
<1> QED
  BY <1>1, <1>2, <1>3, <1>4, <1>5, <1>6, <1>7, <1>8, <1>9, <1>10
     DEF Next, PushStep, PopStep

LEMMA Initially ==
  ASSUME Init
  PROVE  Inv
<1> USE RingAssumption DEF Init
<1>1. TypeOK
  <2>1. head \in Slots /\ tail \in Slots /\ count \in 0..Size
    BY DEF Slots
  <2>2. buf \in [Slots -> Events \cup {Nil}] /\ closed \in BOOLEAN
    OBVIOUS
  <2>3. /\ pc \in [Threads -> {"idle", "locking", "waiting", "awake"}]
        /\ \A p \in Producers : pc[p] = "idle"
    BY DEF Threads
  <2> QED  BY <2>1, <2>2, <2>3 DEF TypeOK
<1>2. RingShape
  <2>0. 0 \in Slots /\ 0 \in 0..Size
    BY DEF Slots
  <2>1. Pos(0, 0) = 0 /\ \A i \in 0..(Size - 1) : Pos(0, i) \in Slots
    <3>1. \A i \in 0..(Size - 1) : i \in 0..Size
      OBVIOUS
    <3> QED  BY <2>0, <3>1, PosFacts
  <2> QED  BY <2>1 DEF RingShape, SlotOf, Pos
<1>3. NoLostWakeup
  BY DEF NoLostWakeup, Waiting, Threads
<1> QED  BY <1>1, <1>2, <1>3 DEF Inv

LEMMA Inductive ==
  ASSUME Inv, [Next]_vars
  PROVE  Inv'
<1>1. TypeOK'
  BY StepType
<1>2. ASSUME NEW p \in Producers, CallPush(p)
      PROVE  RingShape' /\ NoLostWakeup'
  BY <1>2, MoveKeepsInv DEF CallPush, Moves, Threads
<1>3. ASSUME NEW p \in Producers, PushRefused(p)
      PROVE  RingShape' /\ NoLostWakeup'
  BY <1>3, MoveKeepsInv DEF PushRefused, Return, Moves, Threads
<1>4. ASSUME NEW p \in Producers, PushWaits(p)
      PROVE  RingShape' /\ NoLostWakeup'
  BY <1>4, MoveKeepsInv DEF PushWaits, Moves, Threads
<1>5. ASSUME NEW p \in Producers, Push(p)
      PROVE  RingShape' /\ NoLostWakeup'
  BY <1>5, PushKeepsShape, PushKeepsWakeups
<1>6. ASSUME NEW c \in Consumers, CallPop(c)
      PROVE  RingShape' /\ NoLostWakeup'
  BY <1>6, MoveKeepsInv DEF CallPop, Moves, Threads
<1>7. ASSUME NEW c \in Consumers, PopRefused(c)
      PROVE  RingShape' /\ NoLostWakeup'
  BY <1>7, MoveKeepsInv DEF PopRefused, Return, Moves, Threads
<1>8. ASSUME NEW c \in Consumers, PopWaits(c)
      PROVE  RingShape' /\ NoLostWakeup'
  BY <1>8, MoveKeepsInv DEF PopWaits, Moves, Threads
<1>9. ASSUME NEW c \in Consumers, Pop(c)
      PROVE  RingShape' /\ NoLostWakeup'
  BY <1>9, PopKeepsShape, PopKeepsWakeups
<1>10. ASSUME Close
       PROVE  RingShape' /\ NoLostWakeup'
  BY <1>10, CloseKeepsInv
<1>11. ASSUME UNCHANGED vars
       PROVE  RingShape' /\ NoLostWakeup'
  BY <1>11 DEF Inv, RingShape, SlotOf, NoLostWakeup, Waiting, Awake, vars
<1>12. RingShape' /\ NoLostWakeup'
  BY <1>2, <1>3, <1>4, <1>5, <1>6, <1>7, <1>8, <1>9, <1>10, <1>11
     DEF Next, PushStep, PopStep
<1> QED  BY <1>1, <1>12 DEF Inv

(* The ring's fields stay well typed, its slots in order, and no producer  *)
(* or consumer sleeps through the event or the slot it waits for: the      *)
(* safety of ring_buffer.go for every capacity and number of goroutines.   *)
THEOREM RingIsSafe == Spec => [](TypeOK /\ RingShape /\ NoLostWakeup)
<1>1. Init => Inv
  BY Initially
<1>2. Inv /\ [Next]_vars => Inv'
  BY Inductive
<1>3. Spec => []Inv
  BY <1>1, <1>2, PTL DEF Spec
<1>4. Inv => TypeOK /\ RingShape /\ NoLostWakeup
  BY DEF Inv
<1> QED  BY <1>3, <1>4, PTL

(* The fields of RingBuffer stay in range for every capacity: count never  *)
(* passes Size and the indices wrap where the slots end.                   *)
THEOREM RingTypeCorrect == Spec => []TypeOK
<1>1. TypeOK /\ RingShape /\ NoLostWakeup => TypeOK
  OBVIOUS
<1> QED  BY <1>1, RingIsSafe, PTL

(* Wrap-around never overwrites an event that was not handed out, and a    *)
(* slot given up by Pop keeps no event alive.                              *)
THEOREM RingInShape == Spec => []RingShape
<1>1. TypeOK /\ RingShape /\ NoLostWakeup => RingShape
  OBVIOUS
<1> QED  BY <1>1, RingIsSafe, PTL

(***************************************************************************)
(* Refinement: Push is Put, Pop is Take, a refusal is Refuse or Exhaust,   *)
(* Close is Close, and every other step leaves the queue alone.            *)
(***************************************************************************)
LEMMA ContentsFacts ==
  ASSUME Inv
  PROVE  /\ Contents \in Seq(Events)
         /\ Len(Contents) = count /\ count \in 0..Size
         /\ \A i \in 1..count : Contents[i] = buf[Pos(tail, i - 1)]
<1>1. /\ Size \in Nat \ {0} /\ count \in 0..Size /\ tail \in Slots
      /\ buf \in [Slots -> Events \cup {Nil}]
      /\ \A i \in 0..(Size - 1) : (i < count) <=> (buf[Pos(tail, i)] # Nil)
  BY RingAssumption DEF Inv, TypeOK, RingShape, SlotOf, Pos
<1>2. ASSUME NEW i \in 1..count
      PROVE  buf[Pos(tail, i - 1)] \in Events
  <2>1. i - 1 \in 0..(Size - 1) /\ i - 1 \in 0..Size /\ i - 1 < count
    BY <1>1
  <2>2. Pos(tail, i - 1) \in Slots
    BY <1>1, <2>1, PosFacts
  <2> QED  BY <1>1, <2>1, <2>2
<1>3. Contents = [i \in 1..count |-> buf[Pos(tail, i - 1)]]
  BY DEF Contents, SlotOf, Pos
<1>4. Contents \in Seq(Events) /\ Len(Contents) = count
  BY <1>1, <1>2, <1>3
<1> QED  BY <1>1, <1>3, <1>4

LEMMA PushRefines ==
  ASSUME Inv, Inv', NEW p \in Producers, Push(p)
  PROVE  Queue!Put(p)
<1>1. /\ ~closed /\ count < Size /\ closed' = closed
      /\ count' = count + 1 /\ tail' = tail /\ tail \in Slots
      /\ buf' = [buf EXCEPT ![head] = arg[p]] /\ head = Pos(tail, count)
      /\ buf \in [Slots -> Events \cup {Nil}] /\ Size \in Nat
      /\ arg[p] \in Events
      /\ returned' = [returned EXCEPT ![p] = Accepted]
  BY RingAssumption
     DEF Inv, TypeOK, RingShape, SlotOf, Pos, Push, Wants, isFull, ReturnSignal
<1>2. /\ Contents \in Seq(Events)
      /\ Len(Contents) = count /\ count \in 0..Size
      /\ \A i \in 1..count : Contents[i] = buf[Pos(tail, i - 1)]
  BY ContentsFacts
<1>3. /\ Contents' \in Seq(Events)
      /\ Len(Contents') = count'
      /\ \A i \in 1..count' : Contents'[i] = buf'[Pos(tail', i - 1)]
  <2>1. (/\ Contents \in Seq(Events)
         /\ Len(Contents) = count /\ count \in 0..Size
         /\ \A i \in 1..count : Contents[i] = buf[Pos(tail, i - 1)])'
    BY ContentsFacts, PTL
  <2> QED  BY <2>1 DEF Pos
<1>4. /\ Append(Contents, arg[p]) \in Seq(Events)
      /\ Len(Append(Contents, arg[p])) = count + 1
      /\ \A i \in 1..count : Append(Contents, arg[p])[i] = Contents[i]
      /\ Append(Contents, arg[p])[count + 1] = arg[p]
  BY <1>1, <1>2, AppendProperties
<1>5. ASSUME NEW i \in 1..(count + 1)
      PROVE  Contents'[i] = Append(Contents, arg[p])[i]
  <2>1. CASE i = count + 1
    <3>1. Contents'[i] = buf'[Pos(tail, count)] /\ Pos(tail, count) \in Slots
      BY <1>1, <1>2, <1>3, <2>1, PosFacts
    <3> QED  BY <1>1, <1>4, <2>1, <3>1
  <2>2. CASE i # count + 1
    <3>1. i \in 1..count /\ i - 1 \in 0..(Size - 1) /\ i - 1 # count
          /\ i - 1 \in 0..Size /\ count \in 0..(Size - 1)
      BY <1>1, <1>2, <2>2
    <3>2. Pos(tail, i - 1) # head /\ Pos(tail, i - 1) \in Slots
      BY <1>1, <3>1, PosInjective, PosFacts
    <3>3. buf'[Pos(tail, i - 1)] = buf[Pos(tail, i - 1)]
      BY <1>1, <3>2
    <3> QED  BY <1>1, <1>2, <1>3, <1>4, <3>1, <3>3
  <2> QED  BY <2>1, <2>2
<1>6. Contents' = Append(Contents, arg[p])
  BY <1>1, <1>3, <1>4, <1>5, SeqEqual
<1> QED  BY <1>1, <1>2, <1>6 DEF Queue!Put, Queue!Returns

LEMMA PopRefines ==
  ASSUME Inv, Inv', NEW c \in Consumers, Pop(c)
  PROVE  Queue!Take(c)
<1>1. /\ count # 0 /\ closed' = closed
      /\ count' = count - 1 /\ tail' = (tail + 1) % Size /\ tail \in Slots
      /\ buf' = [buf EXCEPT ![tail] = Nil]
      /\ buf \in [Slots -> Events \cup {Nil}] /\ Size \in Nat \ {0}
      /\ returned' = [returned EXCEPT ![c] = buf[tail]]
  BY RingAssumption
     DEF Inv, TypeOK, Pop, Wants, isEmpty, ReturnSignal
<1>2. /\ Contents \in Seq(Events)
      /\ Len(Contents) = count /\ count \in 0..Size
      /\ \A i \in 1..count : Contents[i] = buf[Pos(tail, i - 1)]
  BY ContentsFacts
<1>3. /\ Contents' \in Seq(Events)
      /\ Len(Contents') = count'
      /\ \A i \in 1..count' : Contents'[i] = buf'[Pos(tail', i - 1)]
  <2>1. (/\ Contents \in Seq(Events)
         /\ Len(Contents) = count /\ count \in 0..Size
         /\ \A i \in 1..count : Contents[i] = buf[Pos(tail, i - 1)])'
    BY ContentsFacts, PTL
  <2> QED  BY <2>1 DEF Pos
<1>4. Contents # <<>>
  BY <1>1, <1>2
<1>5. /\ Tail(Contents) \in Seq(Events)
      /\ Len(Tail(Contents)) = count - 1
      /\ \A i \in 1..(count - 1) : Tail(Contents)[i] = Contents[i + 1]
  BY <1>2, <1>4, HeadTailProperties
<1>6. Head(Contents) = buf[tail]
  <2>1. Head(Contents) = Contents[1]
    BY <1>2, <1>4
  <2>2. 1 \in 1..count /\ 1 - 1 = 0 /\ 0 \in 0..Size
    BY <1>1, <1>2
  <2>3. Contents[1] = buf[Pos(tail, 0)] /\ Pos(tail, 0) = tail
    BY <1>1, <1>2, <2>2, PosFacts
  <2> QED  BY <2>1, <2>3
<1>7. ASSUME NEW i \in 1..(count - 1)
      PROVE  Contents'[i] = Tail(Contents)[i]
  <2>1. /\ i \in 0..(Size - 1) /\ i \in 1..count' /\ i + 1 \in 1..count
        /\ i - 1 \in 0..Size /\ i - 1 < Size /\ (i - 1) + 1 = i
        /\ (i + 1) - 1 = i /\ i # 0 /\ i \in 0..Size /\ 0 \in 0..(Size - 1)
    BY <1>1, <1>2
  <2>2. Pos(tail', i - 1) = Pos(tail, i)
    BY <1>1, <2>1, PosFacts
  <2>3. Pos(tail, i) # tail /\ Pos(tail, i) \in Slots
    <3>1. Pos(tail, 0) = tail /\ Pos(tail, i) \in Slots
      BY <1>1, <2>1, PosFacts
    <3> QED  BY <1>1, <2>1, <3>1, PosInjective
  <2>4. buf'[Pos(tail, i)] = buf[Pos(tail, i)]
    BY <1>1, <2>3
  <2> QED  BY <1>2, <1>3, <1>5, <2>1, <2>2, <2>4
<1>8. Contents' = Tail(Contents)
  BY <1>1, <1>3, <1>5, <1>7, SeqEqual
<1> QED  BY <1>1, <1>4, <1>6, <1>8 DEF Queue!Take, Queue!Returns

LEMMA InitRefines ==
  ASSUME Init
  PROVE  Queue!Init
<1>1. Contents = <<>>
  BY DEF Init, Contents
<1> QED  BY <1>1 DEF Init, Queue!Init, Threads, Queue!Threads

LEMMA StepRefines ==
  ASSUME Inv, Inv', [Next]_vars
  PROVE  [Queue!Next]_<<Contents, closed, returned>>
<1>1. ASSUME UNCHANGED <<buf, tail, count>>
      PROVE  Contents' = Contents
  BY <1>1 DEF Contents, SlotOf
<1>2. ASSUME NEW p \in Producers, CallPush(p)
      PROVE  UNCHANGED <<Contents, closed, returned>>
  BY <1>1, <1>2 DEF CallPush
<1>3. ASSUME NEW p \in Producers, PushRefused(p)
      PROVE  Queue!Refuse(p)
  BY <1>1, <1>3 DEF PushRefused, Return, Queue!Refuse, Queue!Returns
<1>4. ASSUME NEW p \in Producers, PushWaits(p)
      PROVE  UNCHANGED <<Contents, closed, returned>>
  BY <1>1, <1>4 DEF PushWaits
<1>5. ASSUME NEW p \in Producers, Push(p)
      PROVE  Queue!Put(p)
  BY <1>5, PushRefines
<1>6. ASSUME NEW c \in Consumers, CallPop(c)
      PROVE  UNCHANGED <<Contents, closed, returned>>
  BY <1>1, <1>6 DEF CallPop
<1>7. ASSUME NEW c \in Consumers, PopRefused(c)
      PROVE  Queue!Exhaust(c)
  <2>1. Contents = <<>>
    BY <1>7, ContentsFacts DEF PopRefused, isEmpty
  <2> QED
    BY <1>1, <1>7, <2>1 DEF PopRefused, Return, Queue!Exhaust, Queue!Returns
<1>8. ASSUME NEW c \in Consumers, PopWaits(c)
      PROVE  UNCHANGED <<Contents, closed, returned>>
  BY <1>1, <1>8 DEF PopWaits
<1>9. ASSUME NEW c \in Consumers, Pop(c)
      PROVE  Queue!Take(c)
  BY <1>9, PopRefines
<1>10. ASSUME Close
       PROVE  Queue!Close
  BY <1>1, <1>10 DEF Close, Queue!Close
<1>11. ASSUME UNCHANGED vars
       PROVE  UNCHANGED <<Contents, closed, returned>>
  BY <1>1, <1>11 DEF vars
<1>12. Next => \/ Queue!Next
              \/ UNCHANGED <<Contents, closed, returned>>
  BY <1>2, <1>3, <1>4, <1>5, <1>6, <1>7, <1>8, <1>9, <1>10
     DEF Next, PushStep, PopStep, Queue!Next
<1> QED  BY <1>11, <1>12

(* Whatever the interleaving of Push, Pop, Wait, Signal and Close, callers *)
(* see a first-in first-out queue of at most Size events: none is lost,    *)
(* repeated or overtaken, and none enters after Close.                     *)
THEOREM RingIsQueue == Spec => ImplementsQueue
<1>1. Init => Queue!Init
  BY InitRefines
<1>2. Inv /\ Inv' /\ [Next]_vars
        => [Queue!Next]_<<Contents, closed, returned>>
  BY StepRefines
<1>3. Spec => []Inv
  <2>1. Init => Inv
    BY Initially
  <2>2. Inv /\ [Next]_vars => Inv'
    BY Inductive
  <2> QED  BY <2>1, <2>2, PTL DEF Spec
<1> QED  BY <1>1, <1>2, <1>3, PTL DEF Spec, ImplementsQueue, Queue!Spec
=============================================================================
