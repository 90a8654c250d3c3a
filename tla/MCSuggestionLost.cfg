SPECIFICATION Spec
CONSTANTS
  MaxPrompts = 2
  MaxSends = 2
  MaxFaults = 1
INVARIANT SuggestionIsNotLost
CHECK_DEADLOCK FALSE
