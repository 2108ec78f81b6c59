CONSTANTS
  MaxCommands = 1
  ConfigApply = {1}
  Conn = {k1}
  NoConn = NoConn
  Rest = {r1}
  Poll = Poll
  DeliverLimit = 5
  Thread = {"ws", "poll"}
  MaxFaults = 1
SPECIFICATION FairSpec
INVARIANTS SingleLease OnlyReleasedRun
PROPERTIES ImplementsLifecycle EveryCommandResolves
CHECK_DEADLOCK FALSE
