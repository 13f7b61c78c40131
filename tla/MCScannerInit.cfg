SPECIFICATION RunSpec
CONSTANTS
  MaxScan = 1
  MaxFed = 0
  Payload = {}
  Value <- MCValue
  Target <- MCTarget
  AckOnly = {"BarType"}
  InitialRegs <- MCInitialRegs
INVARIANTS
  OkMeansConfigured
  WritesAreNeeded
PROPERTIES
  OnlyCompleteIsSaved
