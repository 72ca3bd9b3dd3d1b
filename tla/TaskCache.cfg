SPECIFICATION SpecOfScenarios
CONSTANTS
  None = None
  MaxCalls = 3
  Runners = {one, two}
  Keys = {build, rebuild}
  Files = {"src", "conf", "memo"}
  Globbed = {"conf"}
  Written = {"conf", "memo"}
  Versions = 2
  MaxRuns = 3
  MaxEdits = 2
  MaxCrashes = 1
SYMMETRY Alike
INVARIANTS FreshHits RepeatedHits RowsBacked StaysTracked CallsSeen ResultsWhole
CHECK_DEADLOCK FALSE
