SPECIFICATION FairSpec
CONSTANTS
  Levels = {"L1"}
  HangupCauses = {"USER_BUSY"}
  MaxRetries = 1
  MaxDrops = 1
  MaxBacklog = 2
  MaxCount = 2
  CdrTable = FALSE
  OtherPhone = TRUE
  Crashes = FALSE
  Restarts = FALSE
  ListMayFail = TRUE
PROPERTIES
  EveryCallCloses
CHECK_DEADLOCK FALSE
