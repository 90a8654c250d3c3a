SPECIFICATION Spec
CONSTANTS
  Process = {p1, p2}
  Repository = {r1}
  NoProcess = NoProcess
  NoRepository = NoRepository
  NoFile = NoFile
  Outdated <- FirstOfOne
  MaxCaptures = 2
  MaxPurges = 1
  MaxSetups = 0
  MaxRetentions = 1
  MaxDeaths = 1
INVARIANTS
  NoCondemnedOrphan
CHECK_DEADLOCK FALSE
