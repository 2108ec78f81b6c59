CONSTANTS
  Request = {r1, r2}
  Watched = {r1}
  None = None
  Key = {k1}
  Mode = {"plain"}
  MaxConcurrent = 1
  MaxChanges = 1
  MaxRestarts = 0
SPECIFICATION Spec
PROPERTY NotRepopulated
CHECK_DEADLOCK FALSE
