SPECIFICATION Spec
CONSTANTS
  Participants = {a, b}
  Everyone = everyone
  Requests = {s1, s2}
  Kinds = {"msg", "blocker", "vote", "pause", "wake", "close", "archive"}
  Waits = {w1, w2}
  Open = open
  Sweeper = sweeper
  Nobody = nobody
  ChannelSize = 1
  MaxDrops = 0
  MaxPrunes = 0
SYMMETRY Symmetry
INVARIANTS TypeOK OneFate ClientSeesOrder NoLostWakeup
PROPERTY ImplementsInbox
CHECK_DEADLOCK FALSE
