SPECIFICATION FairSpec
CONSTANTS
  d1 = d1
  d2 = d2
  k1 = k1
  e1 = e1
  e2 = e2
  deploy = deploy
  report = report
  Deliveries = {d1}
  Consoles = {k1}
  Editors = {e1}
  Bodies <- BodiesFor
  FirstMap <- MapOne
  Draft <- DraftTwo
  Size <- SizeOf
  Rows <- RowsThree
  Proposals <- ProposalsThree
  HasSecret = TRUE
  FilesFail = TRUE
  LogFails = FALSE
  Actions = {deploy, report}
  ToolOf <- ToolOfTwo
  Kind <- KindOf
  MaxTurns = 1
  Plans <- PlansTwo
  Lifetime = 1
  Timeout = 2
  Flaky = {k1}
INVARIANTS
  RoutedBySavedMap
  ArrivalsAreTold
  ToldTheTruth
  MisrouteContained
PROPERTIES
  SpentOnlyByReplay
  EverythingEnds
CHECK_DEADLOCK FALSE
