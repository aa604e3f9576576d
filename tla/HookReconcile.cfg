SPECIFICATION Spec
CONSTANTS
  orch = orch
  wrk = wrk
  r1 = r1
  Sessions = {orch, wrk}
  FileOrder <- MCFileOrder
  Rooms = {r1}
  Holds <- MCHolds
  Pids = {1, 2}
  Window = 1
PROPERTIES StopSparesPeers SilenceIsEarned ReconcileConverges
CHECK_DEADLOCK FALSE
