CONSTANTS
  k1 = k1
  k2 = k2
  Run <- MCRun
  Files = 2
  Functions = 2
SPECIFICATION FairSpec
CHECK_DEADLOCK FALSE
INVARIANTS
  ControllerInWork
  OutcomeOfTest
PROPERTIES
  AbortIsFinal
  AbortedSettles
  EveryTestStarts
