CONSTANTS
  Config = {a, b}
  None = None
  Updater = {"poller", "handler"}
  MaxSaves = 2
  MaxFaults = 1
SPECIFICATION FairSpec
INVARIANTS SettledRunsConfig
PROPERTIES HashNamesFiles SavedConfigRuns HashCatchesUp RestartsEnd
CHECK_DEADLOCK FALSE
