SPECIFICATION FairSpec
CONSTANTS
  ThreadPoolSize = 3
  PhaseWork = 3
  DbMayFail = TRUE
  Migrate = TRUE
  Projects = TRUE
INVARIANTS
  NeverExhausted
  ConnectionsReturned
  LateOnlyIfAbandoned
  HeartbeatLives
PROPERTY ProcessEnds
