CONSTANTS
  Caller = Caller
  Names = {a, b, c}
  MaxOuter = 2
  Budget = 3
  NoCache = FALSE
SPECIFICATION FairSpec
INVARIANTS FailuresAreLoud WithinBudget NothingLeftBehind MaintenanceAlone
PROPERTY CallsReturn
