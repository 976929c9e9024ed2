SPECIFICATION FairSpec
CONSTANTS
  Levels = {"L1", "L3"}
  HangupCauses = {"CONGESTION", "BAD_NUMBER"}
  MaxRetries = 1
  MaxDrops = 1
  MaxBacklog = 2
  MaxCount = 1
  CdrTable = TRUE
  OtherPhone = FALSE
  Crashes = TRUE
  Restarts = TRUE
  ListMayFail = TRUE
INVARIANTS
  TypeOK
  FactsAreTheLog
  OptOutHonoured
  NothingBeforeKeypress
  DeliveredWasPlayed
  FreeAttemptNeverAnswered
PROPERTIES
  CountsNeverRestored
  MissedEndIsClosed
CHECK_DEADLOCK FALSE
