SPECIFICATION IpcSpec
CONSTANTS
  Main = vite
  Clients = {vite, rolldown}
  Transports = {"pipe"}
  Capacity = 1
  RunnerMayDie = FALSE
  MaxFrames = 1
INVARIANT
  EveryReportRecorded
