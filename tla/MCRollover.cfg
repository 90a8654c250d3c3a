SPECIFICATION FairSpec
CONSTANTS
  Worker = {w1, w2, w3}
  Thread = {t1, t2}
  NoThread = NoThread
  Absent = Absent
  MaxMoves = 1
INVARIANTS
  TypeOK
  AtMostOneThread
  TurnIsRecoverable
  StartedMeansRunning
  AtMostOneTurn
PROPERTIES
  ImplementsHandoff
  AttemptsSettle
CHECK_DEADLOCK FALSE
