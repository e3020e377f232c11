SPECIFICATION FairSpec
CONSTANTS
  Rows <- FourRows
  Table <- FourTable
  Owner <- FourOwner
  Devices <- PlainDevices
  DeviceOf <- FourDeviceOf
  Seeded <- Tasks
  Selections <- OneChunk
  Disturbances = {"download", "backup", "connect", "later", "erase", "send", "commit", "crash", "turn"}
  MaxVer = 1
  MaxSessions = 2
  NoFile = NoFile
  Corrupt = Corrupt
PROPERTIES SessionEnds
CHECK_DEADLOCK FALSE
