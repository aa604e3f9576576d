SPECIFICATION Spec
CONSTANTS
  Agents = {x, y}
  Opener = x
  Anchored = {x, y}
  None = none
  SoftCap = 2
  HardCap = 2
  ExtendStep = 2
  MaxLog = 4
  MaxCap = 5
  Signals = {"waiting_user"}
  MaxFaults = 1
INVARIANTS TypeOK ConsultedInTime FloorIsHeld
CHECK_DEADLOCK FALSE
