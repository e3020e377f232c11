SPECIFICATION Spec
CONSTANTS
  Devices <- TwoPhones
  Rows <- FewRows
  Home <- FewHome
  Finished <- FewFinished
  Serial = TRUE
  Disturbances = {"connect", "sqlite", "erase", "send", "cancel"}
  MaxStarts = 3
  NoFile = NoFile
  NoDevice = NoDevice
INVARIANTS TypeOK NoMixUp FlagTells
PROPERTIES BackedUpFirst RollbackUndoesTheLast
CHECK_DEADLOCK FALSE
