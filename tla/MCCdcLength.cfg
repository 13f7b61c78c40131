SPECIFICATION ExchangeSpec
CONSTANTS
  Base = 3
  MaxPayload = 3
  UsbRxBuf = 4
  Known = {1}
  HostFrames <- MCHostFrames
  MaxFrames = 2
  TextLen = 2
  MaxTexts = 1
CHECK_DEADLOCK FALSE
INVARIANTS
  LengthsTrue
