\* Two overlapping opens, three session rows, edits of status, duration and anchor.
CONSTANTS
  s1 = s1
  s2 = s2
  s3 = s3
  c1 = c1
  c2 = c2
  None = None
  Session <- Sessions
  Opener <- Openers
  Duration = {2, 3}
  Anchor <- SomeAnchors
  MaxTime = 3
  MaxEdits = 3
SPECIFICATION Spec
SYMMETRY Symmetry
INVARIANTS OneChain AnswersAgree LogMatchesRows LogTellsNow
PROPERTIES ImplementsEpochChain
\* An inactive subject without a window rests until an admin edits it.
CHECK_DEADLOCK FALSE
