SPECIFICATION FairSpec
CONSTANTS
  CommandCap = 1
  ResponseCap = 1
  ScanCap = 1
  DisplayCap = 1
  MaxRequests = 0
  MaxScans = 0
  MaxTaps = 2
PROPERTIES
  AutoScanResumes
