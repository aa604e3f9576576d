SPECIFICATION Spec
CONSTANTS
  GhostAfter = 0
  IdleAfter = 1
  StaleAfter = 2
  ArchiveAfter = 3
  Requests = {r1, r2}
  Participants = {p1}
  Sweeper = sweeper
  Nobody = nobody
  MaxTime = 2
  LastArrival = 2
PROPERTY LandedMsgRevives
CHECK_DEADLOCK FALSE
