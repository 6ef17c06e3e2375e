SPECIFICATION MCSpec
CONSTANTS
  ExtInt = {TRUE, FALSE}
  MaxKeys = 2
  Firmwares <- MCFirmwares
  Apics = {1, 2}
  lapic_id = 3
  Gsis = 16
INVARIANTS
  HardwareIrqsReturn AcknowledgedOnce
  FrameKept TablesLead LinesRouted NoWriteLost
PROPERTIES
  KeysAreRead DriversComeUp
CHECK_DEADLOCK FALSE
