SPECIFICATION Spec
CONSTANTS
  Participants = {a, b, c}
  Requests = {s1, s2, s3}
  Kinds = {"msg", "close", "force", "extend"}
  Nobody = nobody
  Quorum = "all"
  InitialCap = 1
  ExtendStep = 1
  GhostAfter = 1
  MaxHandling = 1
  MaxTime = 2
  MaxDrops = 1
SYMMETRY Symmetry
INVARIANTS TypeOK NoStalledClose CapRespected NoStalledExtend
PROPERTIES LiveAreHeard BumpIsAgreed
CHECK_DEADLOCK FALSE
