CONSTANTS
  Config = {a, b}
  None = None
  Request = {r}
  Beat = {h, i}
  MaxRows = 3
  MaxSaves = 2
  MaxFaults = 1
SPECIFICATION Spec
SYMMETRY Symmetry
INVARIANTS AppliedWasConfirmed ConfirmedIsApplied RollsBackToApplied StreakAnswered
CHECK_DEADLOCK FALSE
