SPECIFICATION Spec
CONSTANTS
  Runs = {c1, c2}
  NumSkills = 1
  MaxEdits = 2
  MaxLinks = 1
  MaxStops = 1
SYMMETRY Symmetry
INVARIANTS TypeOK UserTextKept AckedRulesHold
PROPERTY DevkitUntouched
CHECK_DEADLOCK FALSE
