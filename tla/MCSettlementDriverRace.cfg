\* As MCSettlementDriver, with a retry that does not wait for what it replaces.
CONSTANTS
  j1 = j1
  r1 = r1
  r2 = r2
  c1 = c1
  c2 = c2
  None = None
  Judge <- OneJudge
  Request <- Requests
  Chain <- Chains
  Skew <- Skews
  JudgingDuration = 1
  MaxTime = 0
  MaxAttempts = 2
  MaxFaults = 1
  Overlap = TRUE
SPECIFICATION DriverSpec
PROPERTIES DecidedOnce
\* A decided session, or one on the health surface, rests.
CHECK_DEADLOCK FALSE
