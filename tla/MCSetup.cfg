SPECIFICATION FairSpec
CONSTANTS
  Run = {p1}
  Repository = {r1, r2}
  NoRepository = NoRepository
  NoFile = NoFile
  MaxEdits = 1
  MaxDeaths = 2
INVARIANTS TypeOK AllOrNothing EditsSurviveOneSetup
PROPERTIES ImplementsRegistration JournalIsSettled
