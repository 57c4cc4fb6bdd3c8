----------------------------- MODULE BoundedQueue -----------------------------
(***************************************************************************)
(* What the ring buffer promises its callers: a first-in first-out queue   *)
(* of at most Size events that can be closed once, after which nothing     *)
(* enters and what is inside can still be taken out.                       *)
(***************************************************************************)
EXTENDS Integers, Sequences

CONSTANTS
  Size,        \* capacity
  Events,      \* what is queued
  Producers,   \* goroutines that call Push
  Consumers,   \* goroutines that call Pop
  NoReturn,    \* a goroutine that has not returned from a call yet
  Accepted,    \* Push returned nil
  Closed       \* Push or Pop returned ErrBufferClosed

VARIABLES
  queue,    \* the events inside, oldest first
  isClosed, \* Close was called
  returned  \* per goroutine, what its latest call returned

Threads == Producers \cup Consumers

Returns(t, v) == returned' = [returned EXCEPT ![t] = v]

Init ==
  /\ queue = <<>>
  /\ isClosed = FALSE
  /\ returned = [t \in Threads |-> NoReturn]

Put(p) ==
  /\ ~isClosed /\ Len(queue) < Size
  /\ \E e \in Events : queue' = Append(queue, e)
  /\ Returns(p, Accepted)
  /\ UNCHANGED isClosed

Take(c) ==
  /\ queue # <<>>
  /\ Returns(c, Head(queue))
  /\ queue' = Tail(queue)
  /\ UNCHANGED isClosed

Refuse(p) ==
  /\ isClosed
  /\ Returns(p, Closed)
  /\ UNCHANGED <<queue, isClosed>>

Exhaust(c) ==
  /\ isClosed /\ queue = <<>>
  /\ Returns(c, Closed)
  /\ UNCHANGED <<queue, isClosed>>

Close ==
  /\ isClosed' = TRUE
  /\ UNCHANGED <<queue, returned>>

Next ==
  \/ \E p \in Producers : Put(p) \/ Refuse(p)
  \/ \E c \in Consumers : Take(c) \/ Exhaust(c)
  \/ Close

Spec == Init /\ [][Next]_<<queue, isClosed, returned>>
=============================================================================
