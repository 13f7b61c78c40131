SPECIFICATION FairSpec
CONSTANTS
  MaxLines = 3
  MaxFailures = 3
  Timeout = 1
  Wrap = 3
INVARIANTS
  SyncTypeOK
  OneMode
  HostGetsNewestOnce
PROPERTIES
  StuckScanRecovers
