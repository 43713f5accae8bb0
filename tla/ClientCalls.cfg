SPECIFICATION FairMCSpec
CONSTANTS
  Threads = {t1, t2}
  PerInterval = 1
  Interval = 2
  DailyQuota = 2
  Day = 3
  SendDelay = 1
  Reports <- OverAndHalf
  MaxTries = 2
  Backoffs = {0, 1}
  HintCap = 2
  Responses <- SomeResponses
  NotADict = NotADict
  LimitNotice = LimitNotice
  NoHint = NoHint
  MaxGets = 2
  MaxLag = 1
  Horizon = 16
INVARIANTS
  ClientTypeOK
  OutcomeJustified
  RequestsHaveSlots
PROPERTIES
  HintHonoured
  CallEnds
