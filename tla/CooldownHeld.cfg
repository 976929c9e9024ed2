SPECIFICATION Spec
CONSTANTS
  Workers = {w1}
  Buyers = {b1}
  NoWorker = NoWorker
  Limits <- SmallLimits
  Gap = 2
  RetryAfterBlock = 1
  RetryThrottled = 1
  RetryDelays = {0}
  Tracked = {}
  BatchSize = 1
  MaxTime = 1
  MaxChanges = 0
  MaxReturned = 0
  MaxFaults = 0
INVARIANTS
  CooldownHeld
CHECK_DEADLOCK FALSE
