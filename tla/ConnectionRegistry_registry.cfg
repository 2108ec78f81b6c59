CONSTANTS
  MaxConns = 2
  Hellos = {"hello", "badHello"}
  GraceTicks = 2
  MaxFrames = 2
  Faults = {"refuse", "cut", "drop", "stream"}
  MaxFaults = 2
  Prompt = FALSE
  Watched = TRUE
  MaxFetches = 2
SPECIFICATION Spec
INVARIANTS RegistryLive OpenIsCurrent PanelFollows
CHECK_DEADLOCK FALSE
