\* One aggregate request at a time, two judges, under the fairness of the scheduler.
CONSTANTS
  j1 = j1
  j2 = j2
  r1 = r1
  None = None
  Judge <- Judges
  Request <- OneRequest
  JudgingDuration = 2
  MaxTime = 3
  Words = 11
  MaxRejections = 2
SPECIFICATION FairSpec
INVARIANTS WinnerEarned NoAnswerIgnored OneAnswer
PROPERTIES ImplementsDecision Settles DeadlineFixed
