SPECIFICATION Spec
CONSTANTS
  Test = {t1}
  Content = {c0, c1}
  Clean = c0
  Unknown = unknown
  MaxHooks = 3
  MaxRepeats = 2
  MaxEdits = 2
INVARIANT BlockedOnceWhatever
CHECK_DEADLOCK FALSE
