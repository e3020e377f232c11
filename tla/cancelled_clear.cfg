SPECIFICATION Spec
CONSTANTS
  Devices <- OnePhone
  Rows <- OneRow
  Home <- OneHome
  Finished <- OneRow
  Serial = TRUE
  Disturbances = {"cancel"}
  MaxStarts = 3
  NoFile = NoFile
  NoDevice = NoDevice
PROPERTIES OnlyClearsAreUndone
CHECK_DEADLOCK FALSE
