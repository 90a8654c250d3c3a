SPECIFICATION Spec
CONSTANTS
  Process = {p1, p2}
  Repository = {r1}
  NoProcess = NoProcess
  NoRepository = NoRepository
  NoFile = NoFile
  Outdated <- FirstOfOne
  MaxCaptures = 1
  MaxPurges = 2
  MaxSetups = 1
  MaxRetentions = 0
  MaxDeaths = 1
INVARIANTS
  EveryCrashHasCompletion
CHECK_DEADLOCK FALSE
