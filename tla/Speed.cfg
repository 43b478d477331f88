CONSTANTS
  Steps = {1, 2, 4}
  Unit = 2
  MaxTick = 12
  Frequency = 3
  Second = 2
  MaxHoldMs = 3
  Enabled = TRUE
  Initial = 4
  StartupMs = 2
  Origin = 1
  Tick64 = 3
  Winmm = 3
  Width = 4
  Offered = {1, 2, 3, 4}
  HoldMs = {0, 1, 3, 4}
  MaxNow = 8
  MaxApplies = 4
  None = None
  Modifiers = {16, 17}
  Keys = {65, 72, 121}
  Reserved = {121}
  Codes <- OrderedCodes
  Configs <- Profiles
  Windows <- AllWindows
  Screens <- AllScreens
  Commands <- HoldRequests
  Opening <- Start
  MaxClock = 1
SPECIFICATION MCSpec
INVARIANTS ClockFollowsControls ToggleReturns PollingInvisible NoDrift HoldBelongsToKey
PROPERTIES ImplementsKeyboard
\* The counter stops at MaxNow, but polling never ends.
CHECK_DEADLOCK FALSE
