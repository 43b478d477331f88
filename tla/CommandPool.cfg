CONSTANTS
  c1 = c1
  c2 = c2
  c3 = c3
  s1 = s1
  s2 = s2
  w1 = w1
  w2 = w2
  Stop = Stop
  Nobody = Nobody
  Callers = {c1, c2, c3}
  Stoppers = {s1, s2}
  Workers = {w1, w2}
  Capacity = 2
SPECIFICATION Spec
INVARIANTS NoLostCaller
PROPERTIES ImplementsService Answered
\* A pool that was shut down, or lost its workers, may have no caller left.
CHECK_DEADLOCK FALSE
