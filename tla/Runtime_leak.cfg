CONSTANTS
  s1 = s1
  s2 = s2
  a1 = a1
  boot = boot
  NoThread = NoThread
  Boot = boot
  Stoppers = {s1, s2}
  Armers = {a1}
  MaxCalls = 1
SPECIFICATION Spec
PROPERTY StoppedReleases
CHECK_DEADLOCK FALSE
