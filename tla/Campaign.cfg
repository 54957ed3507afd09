CONSTANTS
  BatchSize = 1
  ReferencePicks = {0, 1}
  BatchesOf <- MCBatchesOf
  Zones <- MCZones
  Arguments <- MCArguments
SPECIFICATION Spec
INVARIANTS
  SilenceMeansAgreement
  LeadsAreReal
  PanicsStayOnDisk
  ReportTells
PROPERTIES
  NeverClobbers
  InvocationEnds
CHECK_DEADLOCK FALSE
