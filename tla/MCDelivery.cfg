SPECIFICATION Spec
CONSTANTS
  Hook = {h1, h2}
  Runner = {p1, p2}
  NoSocket = NoSocket
  Stale = Stale
  NoFile = NoFile
  MaxSends = 2
  MaxFills = 1
  MaxFaults = 1
SYMMETRY Interchangeable
INVARIANTS
  TypeOK
  SuccessIsDurableIntact
  ReplayIsComplete
  ReserveSavesEvents
