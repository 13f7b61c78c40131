SPECIFICATION LiveSpec
CONSTANTS
  CommandCap = 1
  ResponseCap = 2
  ScanCap = 1
  DisplayCap = 1
  MaxRequests = 2
  MaxScans = 2
  MaxTaps = 1
INVARIANTS
  AsyncTypeOK
  AnswersInOrder
  CleanSession
  DataInOrderOnce
  SettingsAgree
PROPERTIES
  CommandsRun
  RequestsEnd
  QuietInSettings
