CONSTANTS
  k1 = k1
  k2 = k2
  Run <- MCRun
  Files = 2
  Functions = 2
SPECIFICATION Spec
CHECK_DEADLOCK FALSE
PROPERTIES
  KillTerminates
