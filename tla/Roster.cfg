SPECIFICATION Spec
CONSTANTS
  Requests = {q1, q2, q3}
  Idents = {a, b}
  Handles = {h1, h2}
  Waits = {w1, w2}
  Nobody = nobody
  MaxAttempts = 2
  MaxHead = 1
  Grace = 0
  Cap = 1
  GhostAfter = 2
SYMMETRY Symmetry
INVARIANTS TypeOK AgentIsOne AnswerIsMine ShownIsNotDelivered PollLiveIsTrue
PROPERTY PruneSparesParked
CHECK_DEADLOCK FALSE
