CONSTANTS
  MaxConns = 5
  Hellos = {"hello"}
  GraceTicks = 2
  MaxFrames = 3
  Faults = {"refuse", "cut", "drop"}
  MaxFaults = 2
  Prompt = TRUE
  Watched = FALSE
  MaxFetches = 1
SPECIFICATION FairSpec
PROPERTIES ServedEventually AgentNotices NothingLingers
CHECK_DEADLOCK FALSE
