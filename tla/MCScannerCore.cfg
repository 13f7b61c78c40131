SPECIFICATION FairSpec
CONSTANTS
  MaxScan = 3
  MaxFed = 6
  Payload <- MCPayload
  Value <- MCValue
  Target <- MCTarget
INVARIANTS
  TypeOK
  BufferIsOpenLine
  PayloadIsWholeLine
  LineEndDelivers
  ConfigIndexAgrees
PROPERTIES
  SessionSpec
  InitReturns
