SPECIFICATION Spec
CONSTANTS
  MaxInits = 2
  MaxCodes = 2
  MaxQueue = 2
  TapYs <- MCTapYs
  StartIdxs <- MCStartIdxs
INVARIANTS
  PgTypeOK
  StopDiscards
  ScanningScreenIsTrue
