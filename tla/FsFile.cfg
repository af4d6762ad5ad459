CONSTANTS
  c1 = c1
  c2 = c2
  Maker = Maker
  NoCaller = NoCaller
  Caller = {c1, c2}
  MaxRequests = 7
  Spare = 3
SPECIFICATION FairSpec
CHECK_DEADLOCK FALSE
INVARIANTS
  HasFile
  NothingKept
PROPERTIES
  CallsEnd
