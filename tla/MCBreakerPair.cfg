CONSTANTS
  None = None
  r1 = r1
  r2 = r2
  u1 = u1
  u2 = u2
  FailureThreshold = 1
  SampleWindow = 1
  OpenFor = 1
  SuccessThreshold = 1
  ProbeConcurrency = 1
  IdleTTL = 1
  AgeCap = 2
  Upstreams = {u1, u2}
  Requests = {r1, r2}
  Weight <- EvenWeights
  VisitLimit = 2
SPECIFICATION FairSpec
PROPERTY SlotsComeBack
