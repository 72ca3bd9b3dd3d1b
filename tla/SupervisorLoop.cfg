SPECIFICATION FairSupSpec
CONSTANTS
  Traced = {go, zig}
  Unset = Unset
  MaxCalls = 1
INVARIANT LoopSurvives
CHECK_DEADLOCK FALSE
