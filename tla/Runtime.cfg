CONSTANTS
  s1 = s1
  s2 = s2
  a1 = a1
  boot = boot
  NoThread = NoThread
  Boot = boot
  Stoppers = {s1, s2}
  Armers = {a1}
  MaxCalls = 2
SPECIFICATION Spec
INVARIANTS HooksReleased RunningHasContext OrderlyStop
PROPERTIES CallReturns
\* A DLL that is refused, or stopped for good, has nothing left to do.
CHECK_DEADLOCK FALSE
