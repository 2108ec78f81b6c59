CONSTANTS
  Request = {r1, r2, r3}
  Watched = {r1}
  None = None
  Key = {k1}
  Mode = {"coldWait"}
  MaxConcurrent = 1
  MaxChanges = 2
  MaxRestarts = 1
SPECIFICATION FairSpec
INVARIANTS SlotsExact WaitersSeeInvalidation NoOldEntry SharedComputes
PROPERTIES ImplementsSlots EveryRequestAnswered
CHECK_DEADLOCK FALSE
