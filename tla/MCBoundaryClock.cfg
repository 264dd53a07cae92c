\* Three windows, two tasks, two requests.
CONSTANTS
  s1 = s1
  s2 = s2
  s3 = s3
  r1 = r1
  r2 = r2
  k1 = k1
  k2 = k2
  None = None
  Session <- Sessions
  Opener <- Requests
  Task <- Tasks
  Duration = {1}
  Anchor <- NoAnchor
  MaxTime = 1
  MaxEdits = 2
  Lead = {1}
  MaxAttempts = 2
  MaxFaults = 1
  Races = FALSE
SPECIFICATION FairClockSpec
INVARIANTS TimerPerWindow
PROPERTIES NotBeforeItsClose AlwaysCatchesUp
CHECK_DEADLOCK FALSE
