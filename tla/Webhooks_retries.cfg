\* Retry runs that overlap, an admin who retries, sends that die, a new key.
SPECIFICATION FairSpec
CONSTANTS
  Deliveries = {d1, d2}
  OldSecret = {d2}
  Runs = {r1, r2}
  MaxAttempts = 3
  Concurrency = 1
  BatchLimit = 2
  MaxFaults = 1
CHECK_DEADLOCK FALSE
INVARIANTS AttemptBudget
PROPERTIES SuccessIsNotRetried EveryRetrySettles
