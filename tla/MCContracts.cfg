SPECIFICATION ContractsSpec
CONSTANTS
  Contract = {c1, c2, c3}
  NoContract = NoContract
  MaxRequests = 5
  MaxFaults = 1
INVARIANTS ContractsTypeOK ContractsAreSound
SYMMETRY Interchangeable
CHECK_DEADLOCK FALSE
