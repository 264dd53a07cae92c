\* Three submissions of two members: races for the revision, the cap, the locks and the close.
CONSTANTS
  m1 = m1
  m2 = m2
  n1 = n1
  n2 = n2
  n3 = n3
  b1 = b1
  b2 = b2
  r1 = r1
  r2 = r2
  r3 = r3
  Member <- TwoMembers
  Nonce <- ThreeNonces
  Bytes <- TwoTexts
  Request <- ThreeRequests
  Cap = 2
  Close = 1
  MaxTime = 1
SPECIFICATION SpecUpToNames
SYMMETRY Requests
INVARIANTS NewestIsFinal NoAmendmentLost TakeOrAbsent SuccessIsOnFile NobodyStuck
PROPERTIES ClosedSetFixed ImplementsAtomicIntake
\* The epoch is over: every request is answered and the window is closed.
CHECK_DEADLOCK FALSE
