SPECIFICATION Spec
CONSTANTS
  s1 = s1
  s2 = s2
  s3 = s3
  prod = prod
  read = read
  Sessions = {s1, s2, s3}
  Actions = {prod, read}
  Calls = {c1, c2, c3}
  Approvers = {h1}
  Routes <- RoutesMixed
  Limit = 1
  MaxInFlight = 2
  StoreFails = TRUE
  SinkFails = TRUE
SYMMETRY CallSymmetry
INVARIANTS
  BudgetExact
  MediatedCrossing
  GrantAccounting
  BurnsAreReleases
PROPERTIES
  ImplementsMediation
CHECK_DEADLOCK FALSE
