\* Two workers, four occurrences over two days, batches of two, one fault.
CONSTANTS
  w1 = w1
  w2 = w2
  Worker <- TwoWorkers
  None = None
  MaxSlots = 2
  PerDay = 2
  MaxTime = 4
  MaxFaults = 1
SPECIFICATION FairSpec
INVARIANTS NoSlotLost
PROPERTIES EndedStays EverySlotServed
\* The clock stops at its bound and every slot is served.
CHECK_DEADLOCK FALSE
