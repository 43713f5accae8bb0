SPECIFICATION Spec
CONSTANTS
  Leagues = {1, 2}
  Years = {1, 2}
  None = None
  Day = 2
  Duration = 1
  MaxTime = 4
  Fixtures <- MCFixtures
  Catalogues <- MCCatalogues
  Commands <- MCCommands
  Configs <- MCConfigs
INVARIANTS
  TypeOK
  OnlyAskedFor
  WholeDays
  CoverageOfItsSeason
PROPERTY
  NothingSlips
