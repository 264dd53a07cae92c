\* Two things go wrong, so that rebuilds, drops and slow applications overlap.
CONSTANTS
  MaxHead = 1
  MaxWire = 1
  MaxFaults = 2
SPECIFICATION FairSpec
PROPERTIES NeverOlder CatchesUp
\* The last commit is applied, and the stream is quiet.
CHECK_DEADLOCK FALSE
