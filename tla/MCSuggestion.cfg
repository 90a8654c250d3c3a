SPECIFICATION Spec
CONSTANTS
  MaxPrompts = 3
  MaxSends = 2
  MaxFaults = 1
INVARIANTS TypeOK ShownOnce NotLostIngestedOnce
CHECK_DEADLOCK FALSE
