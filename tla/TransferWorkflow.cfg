SPECIFICATION MCSpec
CONSTANTS
  None = None
  Token <- MCToken
  Within <- MCWithin
  r1 = r1
  r2 = r2
  file = file
  other = other
  Run = {r1, r2}
  StatePath = {file, other}
  Amount = 1
  Fee = 1
  Funds = 4
  ExpirationTtl = 2
  RequestTtl = 1
  MaxPreparedRecords = 1
  MaxUnresolvedRecords = 1
  MaxAborts = 1
  LastStart = 1
  MaxTime = 2
CHECK_DEADLOCK FALSE
INVARIANTS
  RunsAreTruthful
  
PROPERTIES
  UnresolvedOnlyCleared
  
