SPECIFICATION Spec
CONSTANTS
  Rows <- TwoRows
  Table <- TwoTable
  Owner <- TwoOwner
  Devices <- TwoDevices
  DeviceOf <- TwoDeviceOf
  Seeded <- Tasks
  Selections <- OneOrBoth
  Disturbances = {}
  MaxVer = 2
  MaxSessions = 2
  NoFile = NoFile
  Corrupt = Corrupt
INVARIANTS RecordsFollowTasks
CHECK_DEADLOCK FALSE
