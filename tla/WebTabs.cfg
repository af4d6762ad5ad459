CONSTANTS
  MaxPages = 4
  MaxTabs = 7
  MaxCalls = 4
SPECIFICATION TabsSpec
CHECK_DEADLOCK FALSE
INVARIANTS
  FocusFollows
  MainIsATab
  OthersClosed
