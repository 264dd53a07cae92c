\* Two events and anything that may go wrong once.
CONSTANTS
  MaxHead = 2
  MaxWire = 1
  MaxFaults = 1
SPECIFICATION Spec
INVARIANTS CopyIsComplete CurrentIsConnected
PROPERTY ImplementsCurrentCopy
\* The last commit is applied, and the stream is quiet.
CHECK_DEADLOCK FALSE
