SPECIFICATION Spec
CONSTANTS
  Agents = {a, b}
  GhostAfter = 5
  Park = 1
  JoinBackoff = 1
  StaleBackoff = 1
  ErrorBackoff = 1
  MaxJoin = 2
  MaxStale = 3
  MaxPolls = 0
  EscalateAfter = 1
  QuietCap = 2
  MinSleep = 1
  MaxErrors = 2
  Hints <- MCHints
INVARIANTS
  TypeOK
  LoopIsNoGhost
PROPERTIES
  GiveUpIsEarned
  HoldEnds
CHECK_DEADLOCK FALSE
