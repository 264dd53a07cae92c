\* The admin may switch the subject while a call is open.
CONSTANTS
  s1 = s1
  s2 = s2
  s3 = s3
  r1 = r1
  r2 = r2
  k1 = k1
  k2 = k2
  None = None
  Session <- TwoSessions
  Opener <- Requests
  Task <- Tasks
  Duration = {1}
  Anchor <- NoAnchor
  MaxTime = 1
  MaxEdits = 1
  Lead = {0}
  MaxAttempts = 2
  MaxFaults = 1
  Races = TRUE
SPECIFICATION ClockSpec
INVARIANT TimerPerWindow
CHECK_DEADLOCK FALSE
