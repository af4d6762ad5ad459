CONSTANTS
  a1 = a1
  a2 = a2
  Applicant = {a1, a2}
  MaxCommands = 2
  MaxLaunches = 2
  EndCall = {e1}
  Timer = {t1}
  Faults <- MCFaults
SPECIFICATION FairSpec
CHECK_DEADLOCK FALSE
CONSTRAINT FirstIsA1
INVARIANTS
  NoContextLost
PROPERTIES
  SessionsIsolated
  KillCompletes
