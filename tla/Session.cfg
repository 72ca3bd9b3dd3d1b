SPECIFICATION SessionSpec
CONSTANTS
  Graphs <- MCGraphs
  Root <- root
  Leaves <- MCLeaves
  InProcess <- MCInProcess
  NodesOf <- MCNodesOf
  Items <- MCItems
  Inside <- MCInside
  Edges <- MCEdges
  Limit <- MCLimit
  root = root
  nested = nested
  audit = audit
  lib = lib
  app = app
  site = site
  docs = docs
  unit = unit
  lint = lint
  links = links
  l1 = l1
  a1 = a1
  a2 = a2
  s1 = s1
  s2 = s2
  d1 = d1
  u1 = u1
  t1 = t1
  Clients = {"vite", "rolldown"}
  Tools = {"vite", "rolldown"}
  MaxAsked = 2
  Main = "vite"
  Transports = {"fifo", "pipe"}
  Capacity = 1
  RunnerMayDie = TRUE
  MaxFrames = 2
INVARIANTS
  DependenciesFirst
  ItemsInOrder
  ConcurrencyLimit
  NothingSkipped
  ReportsComplete
  ReportsFaithful
PROPERTIES
  NothingNewAfterCancel
  NobodyHangs
