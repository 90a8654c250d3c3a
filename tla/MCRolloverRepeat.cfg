SPECIFICATION Spec
CONSTANTS
  Worker = {w1, w2}
  Thread = {t1}
  NoThread = NoThread
  Absent = Absent
  MaxMoves = 1
INVARIANTS
  RepeatReusesResult
CHECK_DEADLOCK FALSE
