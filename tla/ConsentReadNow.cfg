SPECIFICATION Spec
CONSTANTS
  Workers = {w1, w2}
  Buyers = {b1, b2}
  NoWorker = NoWorker
  Limits <- SmallLimits
  Gap = 1
  RetryAfterBlock = 1
  RetryThrottled = 1
  RetryDelays = {0}
  Tracked = {}
  BatchSize = 2
  MaxTime = 1
  MaxChanges = 1
  MaxReturned = 0
  MaxFaults = 0
INVARIANTS
  ConsentReadNow
CHECK_DEADLOCK FALSE
