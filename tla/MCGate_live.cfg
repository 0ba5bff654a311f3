SPECIFICATION FairSpec
CONSTANTS
  s1 = s1
  s2 = s2
  s3 = s3
  prod = prod
  read = read
  Sessions = {s1}
  Actions = {prod}
  Calls = {c1, c2, c3, c4}
  Approvers = {h1}
  Routes <- RoutesApproval
  Limit = 0
  MaxInFlight = 2
  StoreFails = FALSE
  SinkFails = FALSE
INVARIANTS
  OneLeafPerCall
PROPERTIES
  EveryCallAnswered
  OneTimeWhenSerial
  DeniedWhenSerial
CHECK_DEADLOCK FALSE
