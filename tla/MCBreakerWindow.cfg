CONSTANTS
  None = None
  r1 = r1
  r2 = r2
  r3 = r3
  u1 = u1
  FailureThreshold = 3
  SampleWindow = 1
  OpenFor = 1
  SuccessThreshold = 2
  ProbeConcurrency = 1
  IdleTTL = 1
  AgeCap = 2
  Upstreams = {u1}
  Requests = {r1, r2, r3}
  Weight <- EvenWeights
  VisitLimit = 2
SPECIFICATION HSpec
PROPERTY TripsWithinWindow
