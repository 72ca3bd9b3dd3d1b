SPECIFICATION PlanningSpec
CONSTANTS
  None = None
  Home <- Users
  HookName <- Hooked
  Scenarios <- Scripted
INVARIANT NestedRunsHere
