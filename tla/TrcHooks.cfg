CONSTANTS
  Worker = {w1, w2}
  Test = {t1, t2}
  NoTest = NoTest
  Configs <- AnyConfig
  RetryCount = 1
  FailingHooks <- AnyHook
SPECIFICATION FairKillSpec
CHECK_DEADLOCK FALSE
INVARIANTS
  OnePlace
  AttemptsBounded
  BrokenIsReported
PROPERTIES
  RunEnds
