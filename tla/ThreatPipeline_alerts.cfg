SPECIFICATION Spec
CONSTANTS
  a = a
  b = b
  i = i
  w1 = w1
  p1 = p1
  p2 = p2
  node = node
  Ip = {a, b, i}
  Internal = {i}
  WebHit = {w1}
  ProtocolHit = {p1, p2}
  IpOf <- TwoAttackers
  Canary = {}
  Deception = {p1, p2}
  Node = {node}
  NodeOf <- SameTrap
  Origins <- OneOrigin
  Check = {"score"}
  Fires <- OnlyFirst
  MaxSize = 2
  MaxDrainBatch = 2
  MaxConcurrent = 1
  MaxStops = 1
INVARIANTS QueuesExact NoHitForgotten OneAlertPerCooldown FlushedAtShutdown
CHECK_DEADLOCK FALSE
