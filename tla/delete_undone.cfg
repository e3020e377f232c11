SPECIFICATION Spec
CONSTANTS
  Rows <- PlainRows
  Table <- PlainTable
  Owner <- PlainOwner
  Devices <- PlainDevices
  DeviceOf <- PlainDeviceOf
  Seeded <- Tasks
  Selections <- OneChunk
  Disturbances = {}
  MaxVer = 1
  MaxSessions = 1
  NoFile = NoFile
  Corrupt = Corrupt
PROPERTIES DeletesStand
CHECK_DEADLOCK FALSE
