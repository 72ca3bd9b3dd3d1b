SPECIFICATION FairIpcSpec
CONSTANTS
  Main = vite
  Clients = {vite}
  Transports = {"fifo"}
  Capacity = 1
  RunnerMayDie = TRUE
  MaxFrames = 2
PROPERTY
  DeadServerNeverHangs
