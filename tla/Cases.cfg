CONSTANTS
  ByteBits = 3
  RandomInt = 2
  MaxK = 50
  HDR_LEN = 40
  HDR_LEN_54 = 33
  Chunks <- MCChunks
  IntBits = 10
  Prime = 499
  SeedConst = 64
SPECIFICATION Spec
INVARIANTS
  ValuesFit
  TiersAreAsNamed
  NoFalseAlarm
  OperandsAreBound
  MutantsStayInside
CHECK_DEADLOCK FALSE
