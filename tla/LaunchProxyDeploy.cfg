CONSTANTS
  t1 = t1
  t2 = t2
  v1 = v1
  v2 = v2
  c1 = c1
  c2 = c2
  Fixture = Fixture
  None = None
  Gone = Gone
  NotGiven = NotGiven
  Proxy = Proxy
  Runtime = Runtime
  Config = Config
  Partial = Partial
  Absent = Absent
  Tools = {t1}
  Versions = {v1,v2}
  MaxMishaps = 3
  Clients = {c1, c2}
  Options <- Wishes
  Kinds <- AllKinds
  Rates = {500, 1000}
  ExitCodes = {1, 3}
  Tries = 2
  MaxProcesses = 2
  MaxTurns = 1
  Libraries <- AllLibraries
  Layout <- SomeLayout
  Steam <- SteamWine
  Managed <- ManagedWine
  Candidates <- AllCandidates
  Images <- AllImages
  Ids = {1}
  FileContents <- AllFiles
  Disks <- FirstDisks
  PathKey <- Keys
  Unset = Unset
  Nothing = Nothing
  MaxStarted = 2
  MaxEdits = 1
  Characters <- AllCharacters
  Filters <- AllFilters
  Inventories <- AllInventories
  Lower <- Small
  MaxLength = 3
  MaxPatterns = 3
  Unplanned = Unplanned
SPECIFICATION MCSpec
SYMMETRY ClientSymmetry
INVARIANTS OriginalKept Reversible OnlySelected ReportsTrue
\* What an interrupted tool leaves may be accepted by neither command.
CHECK_DEADLOCK FALSE
