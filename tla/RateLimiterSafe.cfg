SPECIFICATION Spec
CONSTANTS
  Threads = {t1, t2}
  PerInterval = 2
  Interval = 3
  DailyQuota = 3
  Day = 5
  SendDelay = 1
  Reports <- SomeReports
VIEW View
INVARIANTS
  TypeOK
  WindowRespected
  ArrivalsRespected
  NoNeedlessSleep
