CONSTANTS
  p1 = p1
  p2 = p2
  c1 = c1
  c2 = c2
  e1 = e1
  e2 = e2
  Nil = Nil
  NoReturn = NoReturn
  Accepted = Accepted
  Closed = Closed
  Size = 2
  Events = {e1, e2}
  Producers = {p1, p2}
  Consumers = {c1, c2}
SPECIFICATION FairSpec
INVARIANTS TypeOK RingShape NoLostWakeup
PROPERTIES ImplementsQueue CloseDrains BackPressureEnds
