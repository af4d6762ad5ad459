CONSTANTS
  Worker = {w1, w2}
  Test = {t1, t2, t3}
  NoTest = NoTest
  Configs <- TwoWorkers
  RetryCount = 1
  FailingHooks <- NoHook
SPECIFICATION Spec
CHECK_DEADLOCK FALSE
INVARIANTS
  AfterRunLast
  ErrorsAreFailures
PROPERTIES
  KeepsOutcomes
