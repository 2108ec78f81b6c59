CONSTANTS
  Config = {a}
  None = None
  Request = {r}
  Beat = {h}
  MaxRows = 4
  MaxSaves = 3
  MaxFaults = 0
SPECIFICATION Spec
SYMMETRY Symmetry
INVARIANT FailuresAnswered
CHECK_DEADLOCK FALSE
