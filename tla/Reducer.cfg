CONSTANTS
  ReferenceOutput <- ReferenceTranscript
  GoluaOutput <- GoluaTranscript
  IntBits = 10
  Prime = 499
  SeedConst = 64
  Depth = 3
  Count = 2
  MaxNoise = 1
  Pool <- MCPool
  Bugs <- MCBugs
SPECIFICATION Spec
INVARIANTS
  StillFails
  OneMinimal
  ReportTells
PROPERTIES
  ReductionEnds
CHECK_DEADLOCK FALSE
