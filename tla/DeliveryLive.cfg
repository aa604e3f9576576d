SPECIFICATION FairSpec
CONSTANTS
  Participants = {a, b}
  Everyone = everyone
  Requests = {s1, s2}
  Kinds = {"msg"}
  Waits = {w1}
  Open = open
  Sweeper = sweeper
  Nobody = nobody
  ChannelSize = 1
  MaxDrops = 1
  MaxPrunes = 1
PROPERTY EventuallyClaimed
CHECK_DEADLOCK FALSE
