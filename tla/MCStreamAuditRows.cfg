CONSTANTS
  r1 = r1
  r2 = r2
  Requests = {r1, r2}
  Backend = "mem"
  MaxFailures = 0
  MaxChunks = 2
SPECIFICATION Spec
INVARIANT OneRow
CHECK_DEADLOCK FALSE
