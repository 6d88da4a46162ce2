SPECIFICATION FairSpec
CONSTANTS
  r1 = r1
  Runs = {r1}
  MaxJobs = 2
  Runtimes = {"docker", "kubernetes"}
  AutoRemove = TRUE
  SendBuf = 1
  MaxStreams = 2
  MaxFaults = 1
  NoRun = NoRun
INVARIANTS
  TypeOK
  SlotBacked
  NobodyUnwatched
PROPERTIES
  CancelledRunStops
\* A runner that has used up its streams and ended its jobs does nothing more.
CHECK_DEADLOCK FALSE
