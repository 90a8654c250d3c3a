SPECIFICATION Spec
CONSTANTS
  Test = {t1}
  Content = {c0, c1}
  Clean = c0
  Unknown = unknown
  MaxHooks = 3
  MaxRepeats = 1
  MaxEdits = 2
INVARIANTS TypeOK ReadyIsEarned BlockedOncePerContent
CHECK_DEADLOCK FALSE
