SPECIFICATION FairSpec
CONSTANTS
  Hook = {h1}
  Runner = {p1, p2}
  NoSocket = NoSocket
  Stale = Stale
  NoFile = NoFile
  MaxSends = 2
  MaxFills = 1
  MaxFaults = 1
PROPERTIES
  HookEnds
  QueuedIsIngested
