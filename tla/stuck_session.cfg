SPECIFICATION FairSpec
CONSTANTS
  Rows <- FourRows
  Table <- FourTable
  Owner <- FourOwner
  Devices <- PlainDevices
  DeviceOf <- FourDeviceOf
  Seeded <- Nothing
  Selections <- OneChunk
  Disturbances = {"mysql"}
  MaxVer = 0
  MaxSessions = 1
  NoFile = NoFile
  Corrupt = Corrupt
PROPERTIES SessionEnds
CHECK_DEADLOCK FALSE
