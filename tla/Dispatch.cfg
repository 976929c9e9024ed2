SPECIFICATION Spec
CONSTANTS
  Workers = {w1, w2}
  Buyers = {b1}
  NoWorker = NoWorker
  Limits <- SmallLimits
  Gap = 1
  RetryAfterBlock = 1
  RetryThrottled = 1
  RetryDelays = {0}
  Tracked = {}
  BatchSize = 1
  MaxTime = 2
  MaxChanges = 1
  MaxReturned = 1
  MaxFaults = 1
SYMMETRY Interchangeable
INVARIANTS
  CapRespected
  ClosedNotContacted
PROPERTIES
  KeepsTheBudget
CHECK_DEADLOCK FALSE
