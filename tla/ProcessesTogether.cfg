SPECIFICATION FairSpec
CONSTANTS
  Processes = {p1, p2}
  Nobody = Nobody
  NumFiles = 2
  MaySkip = TRUE
  MayFail = TRUE
  Leagues = {l1, l2}
  MaxVersion = 2
INVARIANTS
  ProcessesTypeOK
  AppliedInOrder
  SnapshotOfOneMoment
PROPERTIES
  AppliedOnce
  SchemaCompletes
  SnapshotAdvances
  ProcessesEnd
