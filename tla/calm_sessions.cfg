SPECIFICATION Spec
CONSTANTS
  Rows <- AllRows
  Table <- AllTable
  Owner <- AllOwner
  Devices <- TwoDevices
  DeviceOf <- AllDeviceOf
  Seeded <- Tasks
  Selections <- TwoSelections
  Disturbances = {"connect", "later", "phone_edit"}
  MaxVer = 3
  MaxSessions = 2
  NoFile = NoFile
  Corrupt = Corrupt
INVARIANTS MarkedIsDelivered MarksAreHeld
PROPERTIES DeletesStandToPhone 
CHECK_DEADLOCK FALSE
