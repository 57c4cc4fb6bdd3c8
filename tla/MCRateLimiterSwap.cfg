CONSTANTS
  NoRow = NoRow
  NoBucket = NoBucket
  NoKey = NoKey
  r1 = r1
  r2 = r2
  a1 = a1
  a2 = a2
  globalScope = globalScope
  Requests = {r1, r2}
  Admins = {a1}
  Keys <- OneKey
  MCPKeys <- OneKey
  Scopes <- ScopesOfKey
  RowIds = {1}
  Rules <- OneRule
  Default <- BucketRule
  Second = 2
  Minute = 2
  IdleTTL = 2
  VisitLimit = 2
  MaxTokens = 2
  Horizon = 2
SPECIFICATION HSpec
PROPERTY ThresholdsSwapped
