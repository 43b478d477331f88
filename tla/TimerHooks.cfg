CONSTANTS
  t1 = t1
  t2 = t2
  Steps = {2, 4}
  Unit = 2
  MaxTick = 12
  Frequency = 1
  Second = 1
  MaxHoldMs = 1
  Threads = {t1, t2}
  NumSlots = 2
  Api <- OneEach
  MaxNow = 1
  MaxInstalls = 2
  MaxFaults = 1
  MaxForeign = 1
SPECIFICATION Spec
SYMMETRY Symmetry

INVARIANTS HooksOwned
PROPERTIES StaysNative MonotoneWhileArmed
