SPECIFICATION Spec
CONSTANTS
  Items <- SmallItems
  Kind <- SmallKind
  Parent <- SmallParent
  AreaOf <- SmallAreaOf
  Root = Root
  UserArea = Root
  ChunkSize = 1
  Regimes <- SmallRegimes
  MaxEdits = 2
  MaxSessions = 2
  NoFile = NoFile
  Corrupt = Corrupt
VIEW Live
INVARIANTS TypeOK BindingsAcked NothingLostForGood   MarkedDevicesAreHeld DevicesHaveAreas
PROPERTIES PurgedIsDropped NoNewGhosts
CHECK_DEADLOCK FALSE
