SPECIFICATION FairSpec
CONSTANTS
  s1 = s1
  s2 = s2
  t = t
  a = a
  b = b
  p = p
  c = c
  Servers = {s1, s2}
  Tools = {t}
  Args = {a, b}
  Names = {p, c}
  Recipes <- MCRecipes
  Missing = Missing
  Torn = Torn
  Absent = Absent
  Opaque = Opaque
  Down = Down
  Mute = Mute
  Admins = {o1}
  FirstFiles <- MCFiles
  FirstServers <- MCServers
  FirstRoutes <- MCRoutes
  FirstLive <- MCLive
  Surfaces <- MCSurfaces
  NewRows <- MCNewRows
  MaxEdits = 1
  MaxShifts = 1
  web = web
  docs = docs
  wiki = wiki
  note = note
  image = image
  Providers = {web, docs, wiki}
  Kind <- MCKind
  Host <- MCHost
  Texts = {note, image}
  Length <- MCLength
  Binary = {image}
  Blank = Blank
  NoContext = NoContext
  MaxBundleBytes = 1
  MaxQueryLen = 1
  FirstSource <- MCFirst
  Sources <- MCSources
  Resources <- MCResources
  Queries = {2}
  Sessions = {k1}
  Modes = {TRUE, FALSE}
  Limit = 1
  Rank <- MCRank
  ReadLogFails = TRUE
  MaxCalls = 2
  MaxOpens = 2
  MaxRestarts = 1
INVARIANTS
  EveryArgumentAccounted
  CapOverReconnects
  ReadsAreAttested
  BundlesAreVerbatim
PROPERTIES
  ImplementsContract
  FreshAtBind
  GateComesUp
CHECK_DEADLOCK FALSE
