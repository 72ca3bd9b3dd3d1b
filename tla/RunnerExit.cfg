SPECIFICATION RunnerSpec
CONSTANTS
  MaxChunks = 2
  Threads = {1, 2}
  Addresses = {a, b, c}
  Null = Null
  SlotCount = 2
  ChunkSize = 2
  Page = 2
  Requests = {0, 1, 3}
  Readers = {1, 2}
  Keys = {"app", "lib", "util", "gone"}
  Known = {"app", "lib", "util"}
  PartitionOf <- CyclePartitionOf
  Targets <- CycleTargets
  Nobody = Nobody
  Traced = {1, 2}
  Unset = Unset
  MaxCalls = 2
  Blob = 3
  Room = 1
  Jobs = {1, 2, 3}
  NoError = NoError
  NoJob = NoJob
  Graphs = {"run", "nested"}
  Root = "run"
  Leaves = {"compile", "greet", "lint", "deploy"}
  InProcess = {"greet"}
  Cached = {"compile"}
  NodesOf <- RunNodes
  Items <- RunItems
  Inside <- RunInside
  Edges <- RunEdges
  Limit <- RunLimit
  Codes <- RunCodes
  None = None
INVARIANT FailureReported
