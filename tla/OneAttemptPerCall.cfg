SPECIFICATION Spec
CONSTANTS
  Levels = {"L1"}
  HangupCauses = {"USER_BUSY"}
  MaxRetries = 1
  MaxDrops = 1
  MaxBacklog = 2
  MaxCount = 2
  CdrTable = FALSE
  OtherPhone = TRUE
  Crashes = FALSE
  Restarts = FALSE
  ListMayFail = TRUE
INVARIANTS
  OneAttemptPerCall
CHECK_DEADLOCK FALSE
