SPECIFICATION FairSpec
CONSTANTS
  c1 = c1
  c2 = c2
  c3 = c3
  h1 = h1
  h2 = h2
  serve = serve
  proxy = proxy
  Callers = {c1, c2}
  Handlers = {h1, h2}
  Flows = {f1, f2}
  Processes = {serve, proxy}
  Serve = serve
  Home <- HomeTwo
  Providers <- ProvidersThree
  MaxTokens = 3
  IOFails = TRUE
INVARIANTS
  SingleUse
  SignInSurvives
  EveryWayTried
PROPERTIES
  ImplementsCredential
  EveryCallReturns
CHECK_DEADLOCK FALSE
