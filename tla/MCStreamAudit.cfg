CONSTANTS
  r1 = r1
  r2 = r2
  Requests = {r1, r2}
  Backend = "sql"
  MaxFailures = 1
  MaxChunks = 2
SPECIFICATION FairSpec
INVARIANTS TypeOK RecordKept CleanStreamExact NoFalseDisconnect
PROPERTIES KeepsLedger DisconnectCompletes
CHECK_DEADLOCK FALSE
