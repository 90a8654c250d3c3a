SPECIFICATION FairSpec
CONSTANTS
  Server = {s1, s2}
  Job = {j1, j2}
  Fact = {f1}
  Evidence = {e1}
  Verified = {e1}
  Candidate = {c1}
  NoFact = NoFact
  MaxAsks = 2
  MaxTroubles = 1
INVARIANTS TypeOK OneThreadPerOperation DecisionIsKept
PROPERTIES ImplementsLifecycle EveryRefreshSettles
CHECK_DEADLOCK FALSE
