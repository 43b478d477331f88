CONSTANTS
  t1 = t1
  t2 = t2
  Threads = {t1,t2}
  Registers = {0}
  MaxBreakpoints = 2
  MaxScans = 1
  MaxIds = 1
  Finds = {0, 2}
  PageSize = 1
  MaxMoves = 2
SPECIFICATION MCSpec
SYMMETRY Symmetry
INVARIANTS SuspensionsOwned RegistryMatches TrapsHandled WindowsObey
\* A trap nobody handles ends the process, and after a shutdown all threads may exit.
CHECK_DEADLOCK FALSE
