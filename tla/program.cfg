SPECIFICATION Spec
CONSTANTS
  Refreshers = {r1, r2}
  FirstRefresher = r1
  Phones = {p1, p2}
  Ui = ui
  Syncer = syncer
  Nobody = nobody
  NoPhone = noPhone
  Users = {u1, u2, u3}
  NoUser = noUser
  FirstUser = u1
  MaxPassword = 2
  Writers = {w1, w2}
  HoursPerDay = 2
  Keep = 1
  MaxHour = 4
  MaxRecords = 3
  NoLog = noLog
  NoHour = noHour
  MaxStarts = 3
  MaxClicks = 2
  Regimes <- MCRegimes
INVARIANTS TypeOK  ConfirmedIsDone UsersToPhone OfferedIsLast LatestIsOffered 
PROPERTIES OpensWhatIsShown ThreadsEnd ListCatchesUp
CHECK_DEADLOCK FALSE
