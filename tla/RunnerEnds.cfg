SPECIFICATION FairSpec
CONSTANTS
  RunIds = {r1}
  NoRun = NoRun
  Leagues = {l1}
  Fixtures = {f1}
  FixturesOf <- AnyFixture
  MaxWorkers = 2
  MaxAttempts = 2
  DbOutcomes = {"ok", "error", "lost"}
  HttpMayFail = TRUE
  CanCrash = TRUE
  MatcherConfigured = TRUE
PROPERTIES
  AttemptEnds
  RunSettles
