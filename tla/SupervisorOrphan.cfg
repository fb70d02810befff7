SPECIFICATION FairSpec
CONSTANTS
  l1 = l1
  l2 = l2
  p1 = p1
  p2 = p2
  p3 = p3
  NoLaunch = NoLaunch
  NoChild = NoChild
  Launches <- OneLaunch
  Pids <- TwoPids
  StopSignals <- TermOnly
  Overlap = FALSE
  JobControl = FALSE
PROPERTIES
  StopReachesWorker
CHECK_DEADLOCK FALSE
