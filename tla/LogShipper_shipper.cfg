SPECIFICATION FairSpec
CONSTANTS
  MaxLine = 4
  Valid = {1, 3, 4}
  Poison = {2, 3}
  MaxFaults = 3
INVARIANTS DoneIsAccounted InOrder RepeatsBounded
PROPERTY EveryLineDealtWith
CHECK_DEADLOCK FALSE
