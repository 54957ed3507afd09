CONSTANTS
  W = 5
  Tolerance = 2
  Batch = 2
  RandomCases = 3
  MaxSaved = 2
  MaxSessions = 2
  CasesOf <- MCCasesOf
SPECIFICATION Spec
INVARIANTS
  SilenceMeansPassed
  FaultsAreReal
  ReportTells
PROPERTIES
  SessionEnds
CHECK_DEADLOCK FALSE
