SPECIFICATION Spec
SYMMETRY Symmetry
CONSTANTS
  Hands = {h1, h2}
  Papers = {f1, f2}
  Nobody = Nobody
  Companies = {"c", "d"}
  Tables = {"t", "u"}
  Emails = {"e", "f"}
  Subjects = {"s", "t"}
  Keys = {"k"}
  Drives = {"c", "d"}
  Debtors = {"b"}
  Checks = {"k"}
  Reports <- MCReports
  Lines <- MCLines
  Templates <- MCTemplates
  People <- MCPeople
  Debts = {"a", "b"}
  Laddered = {"a", "b"}
  AtL2 = {"b"}
  Forms <- MCForms
  Behaviours <- MCBehaviours
  Approvals = {0, 50}
  Entity <- MCEntity
  Found <- MCFound
  CallsPerSecond = 2
  MaxConcurrent = 2
  MaxConcurrentPerTenant = 1
  Second = 2
  L1After = 1
  L2After = 1
  L3After = 2
  MaxAttempts = 1
  Gap = 1
  PerDay = 2
  PerWeek = 9
  Minimum = 2
  Floor = 1
  Cost = 1
  Limitation = 2
  Response = 1
  Recency = 1
  NoPayment = 1
  MaxTicks = 3
  MaxBlind = 2
  MaxLines = 2
  MaxNet = 2
  MaxActs = 3
  MaxDay = 3
  MaxCalls = 2
  MaxSettled = 1
  MaxArrears = 1
  WorstDays = {0, 30, 95}
  MaxTakes = 3
  MaxRecords = 3
  MaxOwed = 2
INVARIANTS
  TypeOK
  HandedOverOnce
  ReportsAreKept
  RateHolds
  ChannelsHold
  OneCampaign
  EnrolledIsScheduled
  OwnRowsOnly
  OneAccount
  AppliedOnce
  DisputeHeld
  AccountFollows
  SafeAdvice
  DecisionStands
  PlayedAsRecorded
  MatchStands
  ListedIsOwed
PROPERTIES
  EarnedContact
CHECK_DEADLOCK FALSE
