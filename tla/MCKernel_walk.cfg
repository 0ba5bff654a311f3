SPECIFICATION FairSpec
CONSTANTS
  x = x
  y = y
  x1 = x1
  x2 = x2
  ok = ok
  bad = bad
  both = both
  long = long
  nothing = nothing
  Names = {x, y, x1, x2}
  Values = {ok, bad, both, long, nothing}
  Blank = bad
  Elements <- MCElements
  Recipes <- MCRecipes
  Calls <- MCCalls
  ForeachCap = 3
  MaxEvals = 4
  Library <- MCLibrary
  Fronts <- MCFronts
  Renamed <- MCRenamed
  MaxComposeSites = 2
INVARIANTS
  KernelInvariant
  VerdictsHaveCauses
  EventsAreCrossings
  OrderingsDistinct
  GuardedThroughGate
  LintedNeverFaults
  ChoicesAreBounded
  ChildrenAreTails
PROPERTIES
  EveryCallDecided
CHECK_DEADLOCK FALSE
