CONSTANTS
  a1 = a1
  a2 = a2
  w1 = w1
  w2 = w2
  w3 = w3
  Workers = {w1, w2}
  Addresses = {a1, a2}
  MaxIds = 2
  MaxCommands = 4
  exe = exe
  Absolute = Absolute
  None = None
  Torn = Torn
  template = template
  PoolThreads = {w1, w2}
  Cells = {0, 1}
  Bases = {0, 1}
  Own <- GamePages
  Policies <- Allowances
  Modules = {exe}
  Values = {1, 9}
  Fits <- InRange
  Names = {template}
  MaxId = 1
  MaxMoves = 2
SPECIFICATION MCSpec
SYMMETRY ScansSymmetry
INVARIANTS OneScanPerId Lineage CancelAimed WritesWanted ProtectionKept
\* An executor that was shut down takes no more commands.
CHECK_DEADLOCK FALSE
