SPECIFICATION Spec
CONSTANTS
  Hook = {h1}
  Runner = {p1, p2}
  NoSocket = NoSocket
  Stale = Stale
  NoFile = NoFile
  MaxSends = 1
  MaxFills = 0
  MaxFaults = 0
INVARIANTS
  DaemonIsAlone
