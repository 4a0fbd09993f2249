SPECIFICATION FairSpec
CONSTANTS
  a1 = a1
  r1 = r1
  w1 = w1

  Assets = {a1}
  Requests = {r1}
  Workers = {w1}
  Cleaners = {w1}
  Modes <- Configurations
  Payloads <- Asked
  Objects <- Found
  MaxSize = 2
  ScanTries = 2
  EraseTries = 1
  MaxFaults = 1
INVARIANTS ChargesAgree
PROPERTIES DeletionIsFinal WorkEnds
CHECK_DEADLOCK FALSE
