CONSTANTS
  e1 = e1
  e2 = e2
  e3 = e3
  Entry <- MCEntry
  Configs <- MCConfigs
  FailingHooks = {"beforeLog", "onLog", "onError"}
SPECIFICATION FairSpec
CHECK_DEADLOCK FALSE
INVARIANTS
  OneAtATime
  OrderKept
PROPERTIES
  EntriesSettled
