SPECIFICATION FairSpec
CONSTANTS
  Log <- ShortLog
  None = None
  Attempt = {x, y}
  MaxBatch = 2
  MaxFaults = 2
INVARIANTS AnsweredIsStored CloseEndsSession LoginReportedOnce StoredIsScheduled
PROPERTIES EveryEventAnswered
CHECK_DEADLOCK FALSE
