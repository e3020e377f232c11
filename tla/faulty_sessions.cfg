SPECIFICATION Spec
CONSTANTS
  Rows <- PlainRows
  Table <- PlainTable
  Owner <- PlainOwner
  Devices <- PlainDevices
  DeviceOf <- PlainDeviceOf
  Seeded <- Tasks
  Selections <- PlainSelections
  Disturbances = {"connect", "mysql", "sqlite", "erase", "send", "crash", "turn", "web_edit"}
  MaxVer = 3
  MaxSessions = 2
  NoFile = NoFile
  Corrupt = Corrupt
INVARIANTS TypeOK AckedIsStored NoWorkLost SuccessIsDelivered
PROPERTIES UpwardsDelivered
CHECK_DEADLOCK FALSE
