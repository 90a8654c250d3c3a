SPECIFICATION Spec
CONSTANTS
  Session = {s1, s2}
  Request = {o1, o2}
  None = None
  MaxTimes = 4
  MaxEdits = 1
  MaxRetentions = 1
INVARIANTS TypeOK ProjectionIsReplay GroupingIsAuthoritative
PROPERTIES OnlyOvertakenIsRejected PinnedSurvives
SYMMETRY Interchangeable
CHECK_DEADLOCK FALSE
