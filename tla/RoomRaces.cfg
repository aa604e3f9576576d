SPECIFICATION FairSpec
CONSTANTS
  GhostAfter = 0
  IdleAfter = 1
  StaleAfter = 2
  ArchiveAfter = 3
  Requests = {r1, r2}
  Participants = {p1}
  Sweeper = sweeper
  Nobody = nobody
  MaxTime = 4
  LastArrival = 1
INVARIANTS TypeOK AuditChain RepliesAreHonest AckedCloseIsFinal ArchiveWindow
PROPERTIES PauseIsDurable ImplementsRoomAudit OverdueIsSwept
CHECK_DEADLOCK FALSE
