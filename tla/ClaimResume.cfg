SPECIFICATION Spec
CONSTANTS
  RunIds = {r1}
  NoRun = NoRun
  Leagues = {l1}
  Fixtures = {f1}
  FixturesOf <- AnyFixture
  MaxWorkers = 2
  MaxAttempts = 2
  DbOutcomes = {"ok"}
  HttpMayFail = TRUE
  CanCrash = FALSE
  MatcherConfigured = TRUE
PROPERTY ResumeSkipsNothing
