CONSTANTS
  r1 = r1
  r2 = r2
  r3 = r3
  r4 = r4
  DW_ID = DW_ID
  Request <- MCRequest
  Private <- MCPrivate
  Actions = {"lock", "access", "unlink"}
  MaxLockCount = 1
SPECIFICATION FairSpec
CHECK_DEADLOCK FALSE
INVARIANTS
  OneWriter
  OperationsLimited
  NoSlotLost
PROPERTIES
  EveryRequestAnswered
