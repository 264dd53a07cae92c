\* One job, two workers.
CONSTANTS
  j1 = j1
  w1 = w1
  w2 = w2
  c1 = c1
  c2 = c2
  None = None
  Run = Run
  Job <- OneJob
  Worker <- Workers
  Call <- TwoCalls
  Outcome = {"succeeded", "failed"}
  MaxTries = 2
  MaxWrites = 2
  WritesOf <- FewerLater
  MaxFaults = 1
SPECIFICATION FairQueueSpec
INVARIANTS JournalInOrder ToldTruly TriesBounded
PROPERTIES ImplementsFencedJob EveryJobEnds
CHECK_DEADLOCK FALSE
