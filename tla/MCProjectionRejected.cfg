SPECIFICATION Spec
CONSTANTS
  Session = {s1}
  Request = {o1, o2}
  None = None
  MaxTimes = 5
  MaxEdits = 0
  MaxRetentions = 0
INVARIANTS NothingIsRejected
CHECK_DEADLOCK FALSE
