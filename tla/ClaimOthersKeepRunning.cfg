SPECIFICATION Spec
CONSTANTS
  RunIds = {r1}
  NoRun = NoRun
  Leagues = {l1, l2, l3}
  Fixtures = {f1}
  FixturesOf <- AnyFixture
  MaxWorkers = 2
  MaxAttempts = 1
  DbOutcomes = {"ok", "error"}
  HttpMayFail = FALSE
  CanCrash = FALSE
  MatcherConfigured = TRUE
INVARIANT OthersKeepRunning
