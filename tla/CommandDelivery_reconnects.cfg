CONSTANTS
  MaxCommands = 1
  ConfigApply = {}
  Conn = {k1, k2}
  NoConn = NoConn
  Rest = {r1}
  Poll = Poll
  DeliverLimit = 5
  Thread = {"ws"}
  MaxFaults = 1
SPECIFICATION Spec
SYMMETRY Symmetry
INVARIANTS SocketReportsLand NothingStranded
CHECK_DEADLOCK FALSE
