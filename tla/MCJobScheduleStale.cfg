\* Two lanes and a schedule that never falls a whole batch behind; nothing fails.
CONSTANTS
  w1 = w1
  w2 = w2
  Worker <- TwoWorkers
  None = None
  MaxSlots = 4
  PerDay = 2
  MaxTime = 4
  MaxFaults = 0
SPECIFICATION Spec
PROPERTY StaleNeverRuns
\* The clock stops at its bound and every slot is served.
CHECK_DEADLOCK FALSE
