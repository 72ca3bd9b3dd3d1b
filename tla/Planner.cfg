SPECIFICATION PlanningSpec
CONSTANTS
  None = None
  Home <- Users
  HookName <- Hooked
  Scenarios <- AllScenarios
INVARIANTS
  NoSelfNesting
  OrderKept
  CacheFollowsFlags
  ExtraArgsReach
  EnvCovered
  CwdPackageLoaded
  ChoiceShown
PROPERTY PlansEnd
