SPECIFICATION SuiteSpec
CONSTANTS
  RespLen = 2
  CodeLen <- Lengths
  MaxScan = 7
  RingSize = 3
  InboxCap = 1
  MaxCodes = 2
  MaxCalls = 2
  InitCommands = 2
  RapidTriggers = 2
  QrTries = 2
INVARIANTS
  LinkTypeOK
  LateRepliesHarmless
  OneSource
  QuietBenchPasses
  AmbientTolerated
CONSTRAINT
  Bounded
