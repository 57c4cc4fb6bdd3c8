------------------------------ MODULE RingBuffer ------------------------------
(***************************************************************************)
(* The audit queue of pkg/plugin/oss/ring_buffer.go: a preallocated array, *)
(* one mutex, two condition variables.  What a goroutine does between      *)
(* taking the mutex and unlocking it, or Wait, is one step; Wait parks it  *)
(* and unlocks in one step, and a goroutine that was woken takes the mutex *)
(* again before it re-examines its loop condition, so others may come in   *)
(* between.                                                                *)
(***************************************************************************)
EXTENDS Integers, FiniteSets

CONSTANTS
  Size,        \* RingBuffer.size
  Events,      \* audit events
  Producers,   \* goroutines that call Push
  Consumers,   \* goroutines that call Pop
  Nil,         \* an empty slot
  NoReturn, Accepted, Closed   \* results, see BoundedQueue

ASSUME RingAssumption ==
  /\ Size \in Nat \ {0}
  /\ IsFiniteSet(Producers) /\ IsFiniteSet(Consumers)
  /\ Producers \cap Consumers = {}
  /\ Nil \notin Events

VARIABLES
  buf, head, tail, count, closed,   \* the fields of RingBuffer
  pc,        \* "idle", "locking" (in a call, wants the mutex for the first
             \* time), "waiting" (parked in Wait) or "awake" (woken, wants
             \* the mutex again)
  arg,       \* the event a producer is pushing, Nil outside Push
  returned   \* what the latest call of a goroutine returned

vars == <<buf, head, tail, count, closed, pc, arg, returned>>

Threads == Producers \cup Consumers
Slots   == 0..(Size - 1)

Init ==
  /\ buf = [i \in Slots |-> Nil]
  /\ head = 0 /\ tail = 0 /\ count = 0
  /\ closed = FALSE
  /\ pc = [t \in Threads |-> "idle"]
  /\ arg = [p \in Producers |-> Nil]
  /\ returned = [t \in Threads |-> NoReturn]

(* Variant: off by one, so that a full ring still takes an event.          *)
isFullLate == count > Size

isFull  == count = Size
isEmpty == count = 0

Waiting(T) == {t \in T : pc[t] = "waiting"}
Awake(T)   == {t \in T : pc[t] = "awake"}

Wants(t) == pc[t] \in {"locking", "awake"}

(* Variants: a signal only when the ring was empty or full; no signal.     *)
ReturnSignalOnEdge(t, v, T) ==
  /\ returned' = [returned EXCEPT ![t] = v]
  /\ \/ /\ Waiting(T) = {} \/ count \notin {0, Size}
        /\ pc' = [pc EXCEPT ![t] = "idle"]
     \/ /\ count \in {0, Size}
        /\ \E w \in Waiting(T) :
             pc' = [pc EXCEPT ![t] = "idle", ![w] = "awake"]

ReturnUnsignalled(t, v, T) ==
  /\ returned' = [returned EXCEPT ![t] = v]
  /\ pc' = [pc EXCEPT ![t] = "idle"]

(* Return v, having signalled a condition variable on which T wait: one of *)
(* them wakes, if there is one.                                            *)
ReturnSignal(t, v, T) ==
  /\ returned' = [returned EXCEPT ![t] = v]
  /\ \/ /\ Waiting(T) = {}
        /\ pc' = [pc EXCEPT ![t] = "idle"]
     \/ \E w \in Waiting(T) :
          pc' = [pc EXCEPT ![t] = "idle", ![w] = "awake"]

Return(t, v) ==
  /\ returned' = [returned EXCEPT ![t] = v]
  /\ pc' = [pc EXCEPT ![t] = "idle"]

CallPush(p) ==
  /\ pc[p] = "idle"
  /\ \E e \in Events : arg' = [arg EXCEPT ![p] = e]
  /\ pc' = [pc EXCEPT ![p] = "locking"]
  /\ UNCHANGED <<buf, head, tail, count, closed, returned>>

CallPop(c) ==
  /\ pc[c] = "idle"
  /\ pc' = [pc EXCEPT ![c] = "locking"]
  /\ UNCHANGED <<buf, head, tail, count, closed, arg, returned>>

PushRefused(p) ==
  /\ Wants(p) /\ closed
  /\ Return(p, Closed)
  /\ arg' = [arg EXCEPT ![p] = Nil]
  /\ UNCHANGED <<buf, head, tail, count, closed>>

PushWaits(p) ==
  /\ Wants(p) /\ isFull /\ ~closed
  /\ pc' = [pc EXCEPT ![p] = "waiting"]
  /\ UNCHANGED <<buf, head, tail, count, closed, arg, returned>>

(* Variant: a producer that waited does not look at closed again.          *)
PushUnchecked(p) ==
  /\ Wants(p) /\ ~isFull
  /\ buf' = [buf EXCEPT ![head] = arg[p]]
  /\ head' = (head + 1) % Size
  /\ count' = count + 1
  /\ ReturnSignal(p, Accepted, Consumers)
  /\ arg' = [arg EXCEPT ![p] = Nil]
  /\ UNCHANGED <<tail, closed>>

Push(p) ==
  /\ Wants(p) /\ ~isFull /\ ~closed
  /\ buf' = [buf EXCEPT ![head] = arg[p]]
  /\ head' = (head + 1) % Size
  /\ count' = count + 1
  /\ ReturnSignal(p, Accepted, Consumers)
  /\ arg' = [arg EXCEPT ![p] = Nil]
  /\ UNCHANGED <<tail, closed>>

(* Variant: a closed ring hands nothing out, whatever it still holds.      *)
PopRefusedEarly(c) ==
  /\ Wants(c) /\ closed
  /\ Return(c, Closed)
  /\ UNCHANGED <<buf, head, tail, count, closed, arg>>

PopRefused(c) ==
  /\ Wants(c) /\ isEmpty /\ closed
  /\ Return(c, Closed)
  /\ UNCHANGED <<buf, head, tail, count, closed, arg>>

PopWaits(c) ==
  /\ Wants(c) /\ isEmpty /\ ~closed
  /\ pc' = [pc EXCEPT ![c] = "waiting"]
  /\ UNCHANGED <<buf, head, tail, count, closed, arg, returned>>

(* Variant: the slot keeps its reference to the event.                     *)
PopUncleared(c) ==
  /\ Wants(c) /\ ~isEmpty
  /\ tail' = (tail + 1) % Size
  /\ count' = count - 1
  /\ ReturnSignal(c, buf[tail], Producers)
  /\ UNCHANGED <<buf, head, closed, arg>>

Pop(c) ==
  /\ Wants(c) /\ ~isEmpty
  /\ buf' = [buf EXCEPT ![tail] = Nil]
  /\ tail' = (tail + 1) % Size
  /\ count' = count - 1
  /\ ReturnSignal(c, buf[tail], Producers)
  /\ UNCHANGED <<head, closed, arg>>

(* Both condition variables are broadcast.                                 *)
Close ==
  /\ closed' = TRUE
  /\ pc' = [t \in Threads |-> IF pc[t] = "waiting" THEN "awake" ELSE pc[t]]
  /\ UNCHANGED <<buf, head, tail, count, arg, returned>>

PushStep(p) == PushRefused(p) \/ PushWaits(p) \/ Push(p)
PopStep(c)  == PopRefused(c) \/ PopWaits(c) \/ Pop(c)

Next ==
  \/ \E p \in Producers : CallPush(p) \/ PushStep(p)
  \/ \E c \in Consumers : CallPop(c) \/ PopStep(c)
  \/ Close

Spec == Init /\ [][Next]_vars

(* A Go mutex is not starved (its starvation mode hands it over), and a    *)
(* consumer, the audit worker, calls Pop again as long as it gets events;  *)
(* nobody has to push or to close.                                         *)
FairSpec ==
  /\ Spec
  /\ \A p \in Producers : WF_vars(PushStep(p))
  /\ \A c \in Consumers : WF_vars(PopStep(c)) /\ WF_vars(CallPop(c))

-----------------------------------------------------------------------------
TypeOK ==
  /\ buf \in [Slots -> Events \cup {Nil}]
  /\ head \in Slots /\ tail \in Slots
  /\ count \in 0..Size
  /\ closed \in BOOLEAN
  /\ pc \in [Threads -> {"idle", "locking", "waiting", "awake"}]
  /\ arg \in [Producers -> Events \cup {Nil}]
  /\ \A p \in Producers : pc[p] # "idle" => arg[p] \in Events
  /\ returned \in [Threads -> Events \cup {NoReturn, Accepted, Closed}]

(* The slot of the i-th event inside, counted from 0.                      *)
SlotOf(i) == (tail + i) % Size

(* The events are the count slots from tail to head, and no other slot     *)
(* keeps one alive: wrap-around neither overwrites nor skips one.          *)
RingShape ==
  /\ head = SlotOf(count)
  /\ \A i \in 0..(Size - 1) : (i < count) <=> (buf[SlotOf(i)] # Nil)

(* No wake-up is lost, although Signal wakes only one goroutine and others *)
(* may overtake it: while a producer is parked, the producers already      *)
(* woken are enough to fill every free slot, and the same for consumers    *)
(* and events; after Close nobody is parked.                               *)
NoLostWakeup ==
  /\ Waiting(Producers) # {} =>
       ~closed /\ Cardinality(Awake(Producers)) >= Size - count
  /\ Waiting(Consumers) # {} =>
       ~closed /\ Cardinality(Awake(Consumers)) >= count

(* The ring buffer implements the bounded queue.                           *)
Contents == [i \in 1..count |-> buf[SlotOf(i - 1)]]

Queue == INSTANCE BoundedQueue WITH queue <- Contents, isClosed <- closed

ImplementsQueue == Queue!Spec

(* ring_buffer.go Close: it wakes every blocked Push and Pop, so each call *)
(* in progress returns, a producer's and a consumer's alike, and what is   *)
(* inside is still handed out to the consumers.                            *)
CloseDrains ==
  /\ closed ~> count = 0
  /\ \A p \in Producers \cup Consumers :
       (closed /\ pc[p] # "idle") ~> pc[p] = "idle"

(* While a consumer goes on taking events, a full queue does not stay full *)
(* and so back-pressure on the producers ends.                             *)
BackPressureEnds == isFull ~> ~isFull
=============================================================================
