CONSTANTS
  Steps = {2, 3, 4}
  Unit = 2
  MaxTick = 30
  Frequency = 1
  Second = 1
  MaxHoldMs = 3
  Profiled = FALSE
  Initial = 4
  StartupMs = 1
  Commands <- AllCommands
  Batches <- Keys
  MaxNow = 2
  MaxCommands = 3
  MaxFailures = 2
  Absent = Absent
  Garbage = Garbage
  Policies <- SomePolicies
  Inventories <- SomeInventories
  Libraries <- SomeLibraries
  CommandLines <- SomeChoices
  BottleKey <- Names
  PathKey <- Paths
  Normal = 2
  MaxEdits = 2
  MaxLaunches = 2
SPECIFICATION MCSpec
INVARIANTS InStep LaunchTrue
PROPERTIES FailSafe
\* A stopped runtime that nobody uses stays as it is.
CHECK_DEADLOCK FALSE
