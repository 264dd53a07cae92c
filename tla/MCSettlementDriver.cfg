\* Two chains, two requests, two faults; an aggregate ends before another is sent.
CONSTANTS
  j1 = j1
  r1 = r1
  r2 = r2
  c1 = c1
  c2 = c2
  None = None
  Judge <- OneJudge
  Request <- Requests
  Chain <- Chains
  Skew <- Skews
  JudgingDuration = 1
  MaxTime = 0
  MaxAttempts = 2
  MaxFaults = 2
  Overlap = FALSE
SPECIFICATION FairDriverSpec
INVARIANTS DriverTypeOK NothingForgotten TimerFromRow RemembersTruly
PROPERTIES DecidedOnce SettledOrSaid
\* A decided session, or one on the health surface, rests.
CHECK_DEADLOCK FALSE
