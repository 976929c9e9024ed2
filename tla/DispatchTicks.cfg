SPECIFICATION FairSpec
CONSTANTS
  Workers = {w1, w2}
  Buyers = {b1, b2}
  NoWorker = NoWorker
  Limits <- SmallLimits
  Gap = 1
  RetryAfterBlock = 1
  RetryThrottled = 1
  RetryDelays <- NoneLeft
  Tracked = {b1}
  BatchSize = 2
  MaxTime = 0
  MaxChanges = 0
  MaxReturned = 0
  MaxFaults = 1
PROPERTIES
  EveryTickEnds
CHECK_DEADLOCK FALSE
