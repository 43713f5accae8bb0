SPECIFICATION Spec
CONSTANTS
  RunIds = {r1}
  NoRun = NoRun
  Leagues = {l1, l2}
  Fixtures = {f1}
  FixturesOf <- AnyFixture
  MaxWorkers = 2
  MaxAttempts = 2
  DbOutcomes = {"ok", "error", "lost"}
  HttpMayFail = TRUE
  CanCrash = TRUE
  MatcherConfigured = TRUE
SYMMETRY Symmetry
INVARIANTS
  TypeOK
  SucceededLanded
  FailureIsolated
PROPERTIES
  VerdictHonest
  SnapshotBacked
  ImplementsLedger
