SPECIFICATION Spec
CONSTANTS
  RunIds = {r1, r2}
  NoRun = NoRun
  Leagues = {l1}
  Fixtures = {f1}
  FixturesOf <- AnyFixture
  MaxWorkers = 2
  MaxAttempts = 3
  DbOutcomes = {"ok", "lost"}
  HttpMayFail = FALSE
  CanCrash = TRUE
  MatcherConfigured = FALSE
SYMMETRY Symmetry
INVARIANT PhaseBCoversCatalogue
PROPERTY SucceededNotRedone
