CONSTANTS
  w1 = w1
  w2 = w2
  r1 = r1
  r2 = r2
  r3 = r3
  r4 = r4
  Worker <- MCWorker
  Request <- MCRequest
  Owner <- MCOwner
SPECIFICATION FairUserSpec
INVARIANTS
  AccessExclusive
  NoLostUnlink
  LocksProtect
PROPERTIES
  DeletionFinal
  KeepsPermission
  AccessGrantedOrDeleted
