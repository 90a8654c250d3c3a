SPECIFICATION FairSpec
CONSTANTS
  Process = {p1, p2}
  Repository = {r1, r2}
  NoProcess = NoProcess
  NoRepository = NoRepository
  NoFile = NoFile
  Outdated <- FirstOfOne
  MaxCaptures = 1
  MaxPurges = 2
  MaxSetups = 1
  MaxRetentions = 1
  MaxDeaths = 1
INVARIANTS
  TypeOK
  CondemnedDataIsCompleted
PROPERTIES
  OthersAreKept
  PurgeCompletes
CHECK_DEADLOCK FALSE
