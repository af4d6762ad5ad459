CONSTANTS
  w1 = w1
  w2 = w2
  r1 = r1
  r2 = r2
  r3 = r3
  r4 = r4
  r5 = r5
  Worker <- MCWorker
  Request <- MCRequest
  Owner <- MCOwner
  MaxLockCount = 2
SPECIFICATION FairUserSpec
INVARIANTS
  AtMostMaxLockCount
  WaitsOnlyWhenFull
CHECK_DEADLOCK FALSE
PROPERTIES
  WaiterServed
