SPECIFICATION FairSpec
CONSTANTS
  Deliveries = {d1, d2}
  OldSecret = {d2}
  Runs = {r1}
  MaxAttempts = 2
  Concurrency = 1
  BatchLimit = 2
  MaxFaults = 0

CHECK_DEADLOCK FALSE
PROPERTIES RetriesReachEveryone
