SPECIFICATION Spec
CONSTANTS
  Devices <- OnePhone
  Rows <- OneRow
  Home <- OneHome
  Finished <- OneRow
  Serial = FALSE
  Disturbances = {}
  MaxStarts = 2
  NoFile = NoFile
  NoDevice = NoDevice
PROPERTIES BackedUpFirst
CHECK_DEADLOCK FALSE
