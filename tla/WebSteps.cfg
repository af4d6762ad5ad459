CONSTANTS
  a1 = a1
  a2 = a2
  App = {a1, a2}
  Message = {"m", "n"}
  MaxInstructions = 3
  Faults <- MCFaults
SPECIFICATION FairSpec
CHECK_DEADLOCK FALSE
INVARIANTS
  QuietMeansClosed
  OneStepPerApp
PROPERTIES
  InstructionsAnswered
