CONSTANTS
  r1 = r1
  r2 = r2
  Requests = {r1, r2}
  Backend = "sql"
  MaxFailures = 0
  MaxChunks = 2
SPECIFICATION Spec
PROPERTY ShutdownFlushes
CHECK_DEADLOCK FALSE
