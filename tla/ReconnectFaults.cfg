CONSTANTS
  Senders = {s1, s2}
  MaxAttempts = 4
  MaxFaults = 3
  NoTask = NoTask
SPECIFICATION FairSpec
INVARIANT TypeOK
INVARIANT FaultCost
INVARIANT SingleFaultSurvived
PROPERTY ReaderProgress
CHECK_DEADLOCK FALSE
