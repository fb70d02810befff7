SPECIFICATION Spec
CONSTANTS
  l1 = l1
  l2 = l2
  p1 = p1
  p2 = p2
  p3 = p3
  NoLaunch = NoLaunch
  NoChild = NoChild
  Launches <- TwoLaunches
  Pids <- ThreePids
  StopSignals <- Stops
  Overlap = TRUE
  JobControl = TRUE
SYMMETRY Symmetry
INVARIANTS
  TypeOK
  OneWorkerPerLaunch
  KillTargetsOwnWorker
  ExitNotMissed
  
  CleanStopLeavesNoPidFile

  
CHECK_DEADLOCK FALSE
