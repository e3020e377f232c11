SPECIFICATION Spec
CONSTANTS
  Rows <- PlainRows
  Table <- PlainTable
  Owner <- PlainOwner
  Devices <- PlainDevices
  DeviceOf <- PlainDeviceOf
  Seeded <- Nothing
  Selections <- OneChunk
  Disturbances = {"send"}
  MaxVer = 1
  MaxSessions = 1
  NoFile = NoFile
  Corrupt = Corrupt
INVARIANTS MarkedIsDelivered
CHECK_DEADLOCK FALSE
